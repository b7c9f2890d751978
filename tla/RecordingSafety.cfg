CONSTANTS
  Kinds = {"shell", "exec", "subsystem"}
  Extra = {"window-change"}
  MaxSessions = 2
  MaxOpens = 3
  MaxSeconds = 1
  MaxChunks = 1
  MaxFaults = 1
SPECIFICATION Spec
INVARIANTS RecordedWhenAlone SftpExclusive
CHECK_DEADLOCK FALSE
