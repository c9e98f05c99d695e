\* Two manifests name one directory; a crash leaves the upper directories.
SPECIFICATION BuildSpec
CONSTANTS
  s1 = s1
  s2 = s2
  loc = loc
  loc2 = loc2
  arc = arc
  c1 = c1
  c2 = c2
  f1 = f1
  f2 = f2
  f3 = f3
  d1 = d1
  d2 = d2
  NoDir = NoDir
  Servers = {s1, s2}
  Plugins = {loc, loc2, arc}
  Configs = {c1, c2}
  Files <- MCFiles
  Dirs = {d1, d2}
  DirOf <- MCSharedDirOf
  Published <- MCPublished
  Ignore <- MCIgnore
  Layout <- MCLayout
  Template <- MCTemplate
  Filename <- MCFilename
  Plans <- MCPlans
  MaxLosses = 1
  MaxRuns = 2
CHECK_DEADLOCK FALSE
INVARIANTS WantedIsInstalled OverlayIsExact
