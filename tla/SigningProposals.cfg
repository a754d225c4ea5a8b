SPECIFICATION Spec
CONSTANTS
  g1 = g1
  g2 = g2
  ka = ka
  kb = kb
  NoAccount = NoAccount
  NoOne = NoOne
  Half = 3
  Goroutines <- MCGoroutines
  Keys <- MCKeys
  Ids <- MCIds
  Account <- MCAccount
  Clients <- MCClients
  Allowed <- MCAllowed
  Unlockable <- MCUnlockable
  Roots <- MCRoots
  Requests <- ProposalRequests
SYMMETRY Symmetry
CHECK_DEADLOCK FALSE
INVARIANTS
  NoDoubleProposal
  SignedIsOnDisk
  StateReadIsFresh
  SafetyInvariant
PROPERTIES
  ProtectionNeverRegresses
  ApprovalsIncrease
  KeepsPromise
