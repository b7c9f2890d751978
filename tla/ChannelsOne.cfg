CONSTANTS
  Ids = {0}
  Sids = {1}
  CTypes = {"session", "tcp"}
  MaxOpens = 1
  MaxData = 1
  MaxNotices = 0
  Stderr = TRUE
SPECIFICATION FairSpec
INVARIANTS NoProtocolError ExitStatusFirst NoTruncation
PROPERTIES AllFreed
CHECK_DEADLOCK FALSE
