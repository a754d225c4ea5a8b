SPECIFICATION Spec
CONSTANTS
  None = None
  Servers = {1, 2, 3}
  Accounts = {"acc"}
  r1 = r1
  r2 = r2
  Runs = {r1, r2}
  Requests <- TripleRequests
  MaxConnections = 2
  MaxFaults = 1
SYMMETRY Symmetry
CHECK_DEADLOCK FALSE
INVARIANTS
  SuccessMeansSignable
  OneKeyPerName
