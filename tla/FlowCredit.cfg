CONSTANTS
  WindowMax = 8
  Packets <- MCPackets
  Kinds = {"stdin", "stdout", "forward"}
  MaxBytes = 9
  Failures = TRUE
SPECIFICATION FairSpec
INVARIANTS NoOverrun CreditBound
PROPERTIES EventuallyDrained
CHECK_DEADLOCK FALSE
