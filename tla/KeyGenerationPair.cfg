SPECIFICATION FairSpec
CONSTANTS
  None = None
  Servers = {1, 2}
  Accounts = {"acc", "other"}
  r1 = r1
  r2 = r2
  Runs = {r1, r2}
  Requests <- PairRequests
  MaxConnections = 1
  MaxFaults = 2
CHECK_DEADLOCK FALSE
INVARIANTS
  TypeOK
  SuccessMeansSignable
  KeyIsJoint
PROPERTY
  EveryGenerationEnds
