CONSTANTS
  Slaves = {1, 2}
  Ids = {1, 2, 3, 4}
  Commands <- AllCommands
  InitFwds <- OneOption
  DynPorts = {7}
  MaxKills = 1
  MaxEvents = 2
SPECIFICATION Spec
INVARIANTS MasterSurvives AnswerReachesAsker RepliesPaired RightDestination CancelledIsClosed NobodyForgotten
CHECK_DEADLOCK FALSE
