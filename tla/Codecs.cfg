SPECIFICATION Spec
CHECK_DEADLOCK FALSE
CONSTANTS
    Integers32 <- MCIntegers32
    Integers64 <- MCIntegers64
    Slices <- MCSlices
    Pieces <- MCPieces
    Octets <- MCOctets
    Values <- MCValues
    Texts <- MCTexts
    MaxPieces = 2
INVARIANTS RoundTrip TornRefused JsonStable ChecksumOfStream
