SPECIFICATION Spec
CONSTANTS
  h1 = h1
  h2 = h2
  h3 = h3
  Handles = {h1, h2, h3}
  NoHandle = NoHandle
  Dangling = Dangling
  Closed = Closed
  Names = {"kernel", "missing"}
  Content <- MCContent
  Addresses = {"plain", "port"}
  Adapters = {1, 2}
  ChunkSize = 2
  RequestSize = 2
  MaxDhcpRetries = 1
  Sizes = {3}
  Positions = {1}
  MaxCalls = 4
  MaxFailures = 1
INVARIANTS
  ReadsAreWhole
  

  
CHECK_DEADLOCK FALSE
