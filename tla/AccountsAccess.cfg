SPECIFICATION Spec
CONSTANTS
  g1 = g1
  g2 = g2
  k1 = k1
  k2 = k2
  k3 = k3
  Goroutines = {g1, g2}
  Clients <- MCClients
  WalletNames <- MCWallets
  AccountNames <- MCNames
  Operations <- MCOperations
  Configured <- MCConfigured
  Keys <- MCKeys
  WritableWallets = {"main", "shared", "late", "sealed"}
  Distributed = {"shared"}
  Hierarchical = {"main", "sealed"}
  KnownPassphrase = {"main"}
  Peers = {"peer"}
  InitialWallets = {"main", "cold", "shared", "sealed"}
  InitialAccounts <- MCAccounts
  Requests <- MCRequests
SYMMETRY Symmetry
INVARIANTS
  TypeOK
  CreatedIsReachable
  LookupsAreExact
  ListsAreExact
  AccessIsGranted
  AnswersIgnoreOrder
