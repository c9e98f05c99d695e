\* A client sends a scope name with a global env write.
SPECIFICATION ScopesSpec
CONSTANTS
  Names = {"n1"}
  Clusters = {"c1"}
  Plugins = {"p1"}
  Configs = {"f1"}
  EnvAsked = {TRUE, FALSE}
  EnvNames = {"", "x"}
  None = None
  MaxBirths = 2
INVARIANT GlobalEnvIsUnique
