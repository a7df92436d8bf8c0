SPECIFICATION FairSpec
CONSTANTS
  MaxRequests = 3
  RequestKinds <- Asked
  ReplyKinds <- Answered
CHECK_DEADLOCK FALSE
INVARIANTS AlwaysAsked OwnResponse
PROPERTIES KeepAliveNeverSpins EveryRequestTold
