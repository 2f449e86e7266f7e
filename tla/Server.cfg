CONSTANTS
  Connections = {c1, c2}
  Scripts = {branches}
  Requests = {branches, "lookup", "stop", "silent"}
  SpecFiles = {before, after}
  Nothing = Nothing
  Reload = Reload
  Workers = 2
  Timeout = 1
  Ttl = 1

SPECIFICATION FairServerSpec

PROPERTIES
  ServesAsPromised
  HandlersEnd
  ReloadsAreApplied
  StopIsCarriedOut
