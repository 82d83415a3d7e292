SPECIFICATION FairSpec
CONSTANTS
  Files = {manifest, module}
  Manifests = {manifest}
  Servers = {julia}
  JuliaServers = {julia}
  Ids = {i}
  MaxChanges = 3
  MaxQueue = 2
INVARIANTS TypeOK KnowsWhenQuiet
PROPERTIES ChangesAreTold
CHECK_DEADLOCK FALSE
