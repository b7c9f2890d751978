CONSTANTS
  Conns = {c1, c2, c3}
  NoConn = NoConn
  Socks = {1, 2}
  MaxStartups = 2
  Begin = 1
  Rate = 30
  MaxSignals = 2
SPECIFICATION DaemonFairSpec
INVARIANTS CountExact PreauthBounded
PROPERTIES SlotsComeBack
CHECK_DEADLOCK FALSE
