CONSTANTS
  Enabled = {"publickey", "password", "hostbased"}
  Keys = {k1, k2}
  Authorized = {k1, k2}
  ForcedKeys = {k2}
  MaxTries = 2
  MaxRequests = 5
  Configs <- AgreeingConfigs
SPECIFICATION FairSpec
INVARIANTS  ListProved TriesBounded
PROPERTIES AlwaysAnswered
CHECK_DEADLOCK FALSE
