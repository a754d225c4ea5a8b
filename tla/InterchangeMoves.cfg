SPECIFICATION Spec
CONSTANTS
  s1 = s1
  s2 = s2
  ka = ka
  kb = kb
  None = None
  Half = 4
  Servers <- MCServers
  Keys <- MCKeys
  Blocks <- MCBlocks
  Votes <- MCVotes
  Elsewhere <- MCElsewhere
CHECK_DEADLOCK FALSE
INVARIANTS
  TypeOK
  NoConflictAcrossServers
  ImportIsComplete
  ImportCanBeRepeated
PROPERTY
  ImportNeverLowers
