SPECIFICATION ResolveSpec
CONSTANTS
  p1 = p1
  p2 = p2
  p3 = p3
  Plugins <- MCPlugins
  RootLists <- MCRootLists
  MaxRequires = 2
  Missing = Missing
INVARIANTS OrderIsInstallable RefusedForCause
PROPERTY Resolves
CHECK_DEADLOCK FALSE
