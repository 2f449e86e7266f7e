CONSTANTS
  Daemons = {d1, d2, d3}
  NoDaemon = NoDaemon
  MaxStarts = 4
  Paths <- AllPaths
  Json <- JsonPaths
  Stem <- Stems
  Versions <- TwoVersions
  Broken = Broken
  Absent = Absent
  MaxChanges = 4

SPECIFICATION Spec

PROPERTIES
  OnlyStaleRemoved

CHECK_DEADLOCK FALSE
