SPECIFICATION FairSpec
CONSTANTS
  Buffer = 2
  Lengths = {1, 3, 4, 5}
  MaxMsgs = 2
CHECK_DEADLOCK FALSE
INVARIANTS TypeOK InOrder LossesFillBuffers
PROPERTY IsChannel
