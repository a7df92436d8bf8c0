SPECIFICATION BufferSpec
CONSTANTS
  InitSize = 3
  BackupSize = 2
  MaxAppend = 3
  MaxBytes = 11
INVARIANTS CapacityBounded
PROPERTIES ByteQueueSpec
