SPECIFICATION Spec
CONSTANTS
  g1 = g1
  g2 = g2
  ka = ka
  kb = kb
  NoAccount = NoAccount
  NoOne = NoOne
  Half = 2
  Goroutines <- MCGoroutines
  Keys <- MCKeys
  Ids <- MCIds
  Account <- MCAccount
  Clients <- MCClients
  Allowed <- QuietAllowed
  Unlockable <- MCKeys
  Roots <- MCRoots
  Requests <- WideProposalRequests
SYMMETRY Symmetry
CHECK_DEADLOCK FALSE
PROPERTY
  ApprovalsIncrease
