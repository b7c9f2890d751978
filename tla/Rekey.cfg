CONSTANTS
  MaxWrites = 2
  MaxTicks = 1
  MaxManual = 1
  Limit = 1
  Methods = {"dh", "gex"}
  Delayed = TRUE
  ExtInfo = TRUE
  Separations = {TRUE, FALSE}
SPECIFICATION FairSpec
INVARIANTS KeysAgree OnlyKexBetween OnlyLateExtInfo
PROPERTIES ImplementsTransport ComesToRest
CHECK_DEADLOCK FALSE
