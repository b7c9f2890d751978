CONSTANTS
  Size = 5
  BufLen = 2
  NumRequests = 2
  MaxOps = 2
  MaxShort = 1
  MaxFaults = 1
  MaxIntr = 1
  MaxDisk = 2
  Commands = {"get", "reget", "put", "reput"}
  Reorder = TRUE
SPECIFICATION FairSpec
INVARIANTS EveryAnswerExpected GetLeavesPrefix GetComplete PutComplete NoHandleLeft
PROPERTIES TransferEnds
CHECK_DEADLOCK FALSE
