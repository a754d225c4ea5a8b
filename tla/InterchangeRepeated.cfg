SPECIFICATION Spec
CONSTANTS
  s1 = s1
  s2 = s2
  ka = ka
  kb = kb
  None = None
  Half = 4
  Servers <- MCServers
  Keys = {ka}
  Blocks <- MCBlocks
  Votes <- MCVotes
  Elsewhere <- Repeating
CHECK_DEADLOCK FALSE
INVARIANT
  ImportTakesHighest
