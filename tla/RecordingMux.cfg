CONSTANTS
  Kinds = {"shell", "exec"}
  Extra = {"env", "window-change"}
  MaxSessions = 2
  MaxOpens = 2
  MaxSeconds = 2
  MaxChunks = 2
  MaxFaults = 0
SPECIFICATION Spec
INVARIANTS RecordedInFull
CHECK_DEADLOCK FALSE
