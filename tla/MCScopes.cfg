\* One server name used twice, one cluster, a plugin and a config.
SPECIFICATION ScopesSpec
CONSTANTS
  Names = {"n1"}
  Clusters = {"c1"}
  Plugins = {"p1"}
  Configs = {"f1"}
  EnvAsked = {TRUE}
  EnvNames = {""}
  None = None
  MaxBirths = 2
INVARIANTS
  NoOrphanScope
  RequestIsHonoured
  ReadIsASnapshot
