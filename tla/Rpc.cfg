SPECIFICATION FairSpec
CONSTANT MaxCalls = 2
CHECK_DEADLOCK FALSE
INVARIANTS ReleasedOnce OwnAnswerOnly
PROPERTIES Concluded
