SPECIFICATION FairSpec
CONSTANTS
  g1 = g1
  g2 = g2
  ka = ka
  kb = kb
  m1 = m1
  m2 = m2
  m3 = m3
  m4 = m4
  NoOne = NoOne
  NoMutex = NoMutex
  Goroutines <- MCGoroutines
  Keys <- MCKeys
  Mutexes <- MCMutexes
  Batches <- MCBatches
INVARIANTS
  TypeOK
  KeysExclusive
  NeverPanics
PROPERTIES
  KeepsPromise
  EveryCallServed
