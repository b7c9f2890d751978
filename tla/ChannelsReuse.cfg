CONSTANTS
  Ids = {0, 1}
  Sids = {1}
  CTypes = {"session"}
  MaxOpens = 2
  MaxData = 0
  MaxNotices = 1
  Stderr = FALSE
SPECIFICATION Spec
INVARIANTS NoProtocolError CloseIsLast NoStaleDelivery SessionsLinked
CHECK_DEADLOCK FALSE
