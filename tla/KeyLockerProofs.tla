-------------------------- MODULE KeyLockerProofs --------------------------
(***************************************************************************)
(* Proofs about KeyLocker, for any number of goroutines, keys and mutexes  *)
(* and any batches of distinct keys: the locker is type correct, two       *)
(* goroutines never hold the same key, no unlock panics, and the map of    *)
(* mutexes filled on demand implements one lock per key (KeyLock).         *)
(*                                                                         *)
(* The argument: a mutex enters the map only under the creation mutex and  *)
(* only where there is none, so a key's mutex is never replaced            *)
(* (Placed) and never shared with another key (OneKeyPerMutex); what a     *)
(* goroutine has locked is then still what it finds under its keys         *)
(* (HeldIsLocked).                                                         *)
(***************************************************************************)
EXTENDS KeyLocker, TLAPS

Wanting  == {"load", "create", "recheck", "store", "created", "acquire"}
Creating == {"recheck", "store", "created"}

\* Where a goroutine stands in its batch.
Progress ==
  \A g \in Goroutines :
    /\ pc[g] = "out" => batch[g] = << >> /\ count[g] = 0
    /\ pc[g] # "out" => batch[g] \in Batches
    /\ pc[g] = "prelock" => count[g] = 0
    /\ pc[g] \in Wanting => count[g] < Len(batch[g])
    /\ pc[g] = "unlock" => count[g] > 0
    /\ pc[g] \in {"in", "postlock"} => count[g] = Len(batch[g])

\* The creation mutex is held by whoever creates; the mutex about to be put
\* into the map has no rival, and one that was found stays where it was.
Placed ==
  \A g \in Goroutines :
    /\ pc[g] \in Creating => newLockMutex = g
    /\ pc[g] = "store" => locks[Wanted(g)] = NoMutex
    /\ pc[g] \in {"created", "acquire"} =>
         found[g] # NoMutex /\ found[g] = locks[Wanted(g)]

OneKeyPerMutex ==
  \A k, l \in Keys : locks[k] # NoMutex /\ locks[k] = locks[l] => k = l

\* The mutexes of the keys a goroutine has come to are its own.
HeldIsLocked ==
  \A g \in Goroutines : \A i \in 1 .. count[g] :
    /\ locks[batch[g][i]] # NoMutex
    /\ mutex[locks[batch[g][i]]] = g

\* The inductive invariant.
LockerInv ==
  /\ TypeOK
  /\ count \in [Goroutines -> Nat]
  /\ Progress
  /\ Placed
  /\ OneKeyPerMutex
  /\ HeldIsLocked
  /\ NeverPanics

\* Every place of a batch is a key, and no two places the same one.
LEMMA BatchFacts ==
  ASSUME NEW b \in Batches
  PROVE  /\ b \in Seq(Keys) /\ Len(b) \in Nat /\ Len(b) > 0
         /\ \A i \in 1 .. Len(b) : b[i] \in Keys
         /\ \A i, j \in 1 .. Len(b) : b[i] = b[j] => i = j
<1>1. b \in Seq(Keys) /\ b # << >>
  BY LockerAssumption
<1>2. DOMAIN b = 1 .. Len(b)
  BY <1>1
<1> QED BY <1>1, <1>2, LockerAssumption

\* What a goroutine wants and holds are keys, and the one it wants is none
\* that it holds.
LEMMA KeyFacts ==
  ASSUME LockerInv, NEW g \in Goroutines
  PROVE  /\ count[g] \in Nat
         /\ \A i \in 1 .. count[g] : batch[g][i] \in Keys
         /\ \A i, j \in 1 .. count[g] : batch[g][i] = batch[g][j] => i = j
         /\ pc[g] \in Wanting =>
              /\ Wanted(g) \in Keys
              /\ \A i \in 1 .. count[g] : batch[g][i] # Wanted(g)
<1>1. count[g] \in Nat /\ count[g] <= Len(batch[g])
  BY DEF LockerInv, TypeOK
<1>2. CASE pc[g] = "out"
  BY <1>2 DEF LockerInv, Progress, Wanting
<1>3. CASE pc[g] # "out"
  <2>1. batch[g] \in Batches
    BY <1>3 DEF LockerInv, Progress
  <2>2. pc[g] \in Wanting => count[g] < Len(batch[g])
    BY DEF LockerInv, Progress
  <2> QED BY <1>1, <2>1, <2>2, BatchFacts DEF Wanted
<1> QED BY <1>2, <1>3

\* The locker starts with no mutex and nobody calling.
THEOREM LockerInit == Init => LockerInv
BY LockerAssumption
   DEF Init, LockerInv, TypeOK, Progress, Placed, OneKeyPerMutex, HeldIsLocked,
       NeverPanics, Wanting, Creating

(***************************************************************************)
(* One lemma per action: the invariant survives it.                        *)
(***************************************************************************)
\* A batch that may come is a sequence of distinct keys, none of them held.
LEMMA CallStep ==
  ASSUME LockerInv, NEW g \in Goroutines, Call(g)
  PROVE  LockerInv'
<1>1. TypeOK' /\ (count \in [Goroutines -> Nat])'
  BY BatchFacts DEF LockerInv, TypeOK, Progress, Call
<1>2. Progress'
  BY BatchFacts DEF LockerInv, TypeOK, Progress, Call, Wanting
<1>3. Placed'
  BY DEF LockerInv, TypeOK, Placed, Call, Creating, Wanted
<1>4. OneKeyPerMutex' /\ HeldIsLocked' /\ NeverPanics'
  BY DEF LockerInv, TypeOK, Progress, OneKeyPerMutex, HeldIsLocked, NeverPanics,
         Call
<1> QED BY <1>1, <1>2, <1>3, <1>4 DEF LockerInv

\* Taking the locker-wide mutex moves nothing that the keys hang on.
LEMMA PreLockStep ==
  ASSUME LockerInv, NEW g \in Goroutines, PreLock(g)
  PROVE  LockerInv'
<1>1. TypeOK' /\ (count \in [Goroutines -> Nat])'
  BY DEF LockerInv, TypeOK, PreLock
<1>2. Progress'
  BY BatchFacts DEF LockerInv, TypeOK, Progress, PreLock, Wanting
<1>3. Placed'
  BY LockerAssumption DEF LockerInv, TypeOK, Placed, PreLock, Creating, Wanted
<1>4. OneKeyPerMutex' /\ HeldIsLocked' /\ NeverPanics'
  BY DEF LockerInv, TypeOK, OneKeyPerMutex, HeldIsLocked, NeverPanics, PreLock
<1> QED BY <1>1, <1>2, <1>3, <1>4 DEF LockerInv

\* What is found under the key is its mutex or nothing.
LEMMA LoadStep ==
  ASSUME LockerInv, NEW g \in Goroutines, Load(g)
  PROVE  LockerInv'
<1>1. Wanted(g) \in Keys
  BY KeyFacts DEF Load, Wanting
<1>2. TypeOK' /\ (count \in [Goroutines -> Nat])'
  BY <1>1 DEF LockerInv, TypeOK, Load
<1>3. Progress'
  BY DEF LockerInv, TypeOK, Progress, Load, Wanting
<1>4. Placed'
  BY <1>1 DEF LockerInv, TypeOK, Placed, Load, Creating, Wanted
<1>5. OneKeyPerMutex' /\ HeldIsLocked' /\ NeverPanics'
  BY DEF LockerInv, TypeOK, OneKeyPerMutex, HeldIsLocked, NeverPanics, Load
<1> QED BY <1>2, <1>3, <1>4, <1>5 DEF LockerInv

\* The creation mutex was free, so nobody else is creating.
LEMMA LockCreationStep ==
  ASSUME LockerInv, NEW g \in Goroutines, LockCreation(g)
  PROVE  LockerInv'
<1>1. TypeOK' /\ (count \in [Goroutines -> Nat])'
  BY DEF LockerInv, TypeOK, LockCreation
<1>2. Progress'
  BY DEF LockerInv, TypeOK, Progress, LockCreation, Wanting
<1>3. Placed'
  BY LockerAssumption DEF LockerInv, TypeOK, Placed, LockCreation, Creating, Wanted
<1>4. OneKeyPerMutex' /\ HeldIsLocked' /\ NeverPanics'
  BY DEF LockerInv, TypeOK, OneKeyPerMutex, HeldIsLocked, NeverPanics, LockCreation
<1> QED BY <1>1, <1>2, <1>3, <1>4 DEF LockerInv

\* Under the creation mutex, what is not there stays away until the store.
LEMMA RecheckStep ==
  ASSUME LockerInv, NEW g \in Goroutines, Recheck(g)
  PROVE  LockerInv'
<1>1. Wanted(g) \in Keys
  BY KeyFacts DEF Recheck, Wanting
<1>2. TypeOK' /\ (count \in [Goroutines -> Nat])'
  BY <1>1 DEF LockerInv, TypeOK, Recheck
<1>3. Progress'
  BY DEF LockerInv, TypeOK, Progress, Recheck, Wanting
<1>4. Placed'
  BY <1>1 DEF LockerInv, TypeOK, Placed, Recheck, Creating, Wanted
<1>5. OneKeyPerMutex' /\ HeldIsLocked' /\ NeverPanics'
  BY DEF LockerInv, TypeOK, OneKeyPerMutex, HeldIsLocked, NeverPanics, Recheck
<1> QED BY <1>2, <1>3, <1>4, <1>5 DEF LockerInv

\* The key had no mutex, so nobody holds it, and the new mutex is no other
\* key's.
LEMMA StoreStep ==
  ASSUME LockerInv, NEW g \in Goroutines, Store(g)
  PROVE  LockerInv'
<1>1. PICK m \in Mutexes :
        /\ Fresh(m)
        /\ locks' = [locks EXCEPT ![Wanted(g)] = m]
        /\ found' = [found EXCEPT ![g] = m]
  BY DEF Store
<1>2. /\ pc[g] = "store" /\ pc' = [pc EXCEPT ![g] = "created"]
      /\ UNCHANGED <<mapLock, newLockMutex, mutex, batch, count>>
  BY DEF Store
<1>3. Wanted(g) \in Keys /\ m # NoMutex
  BY <1>2, KeyFacts, LockerAssumption DEF Wanting
<1>4. locks[Wanted(g)] = NoMutex
  BY <1>2 DEF LockerInv, Placed
<1>5. TypeOK' /\ (count \in [Goroutines -> Nat])'
  BY <1>1, <1>2, <1>3 DEF LockerInv, TypeOK
<1>6. Progress'
  BY <1>2 DEF LockerInv, TypeOK, Progress, Wanting
<1>7. Placed'
  <2> SUFFICES ASSUME NEW h \in Goroutines
               PROVE  /\ pc'[h] \in Creating => newLockMutex' = h
                      /\ pc'[h] = "store" => locks'[Wanted(h)'] = NoMutex
                      /\ pc'[h] \in {"created", "acquire"} =>
                           /\ found'[h] # NoMutex
                           /\ found'[h] = locks'[Wanted(h)']
    BY DEF Placed
  <2>1. Wanted(h)' = Wanted(h)
    BY <1>2 DEF Wanted
  <2>2. CASE h = g
    BY <1>1, <1>2, <1>3, <2>1, <2>2 DEF LockerInv, TypeOK, Placed, Creating
  <2>3. CASE h # g
    <3>1. pc'[h] = pc[h] /\ found'[h] = found[h]
      BY <1>1, <1>2, <2>3 DEF LockerInv, TypeOK
    <3>2. pc[h] \notin Creating
      BY <1>2, <2>3 DEF LockerInv, Placed, Creating
    <3>3. pc[h] = "acquire" => Wanted(h) # Wanted(g)
      BY <1>4 DEF LockerInv, Placed
    <3>4. pc[h] = "acquire" => locks'[Wanted(h)] = locks[Wanted(h)]
      BY <1>1, <3>3, KeyFacts DEF LockerInv, TypeOK, Wanting
    <3> QED BY <1>2, <2>1, <3>1, <3>2, <3>4 DEF LockerInv, Placed, Creating
  <2> QED BY <2>2, <2>3
<1>8. OneKeyPerMutex'
  BY <1>1, <1>3 DEF LockerInv, TypeOK, OneKeyPerMutex, Fresh
<1>9. HeldIsLocked'
  <2> SUFFICES ASSUME NEW h \in Goroutines, NEW i \in 1 .. count[h]
               PROVE  /\ locks'[batch[h][i]] # NoMutex
                      /\ mutex[locks'[batch[h][i]]] = h
    BY <1>2 DEF HeldIsLocked
  <2>1. locks[batch[h][i]] # NoMutex /\ mutex[locks[batch[h][i]]] = h
    BY DEF LockerInv, HeldIsLocked
  <2>2. batch[h][i] \in Keys /\ batch[h][i] # Wanted(g)
    BY <1>4, <2>1, KeyFacts
  <2> QED BY <1>1, <2>1, <2>2 DEF LockerInv, TypeOK
<1>10. NeverPanics'
  BY <1>2 DEF LockerInv, TypeOK, NeverPanics
<1> QED BY <1>5, <1>6, <1>7, <1>8, <1>9, <1>10 DEF LockerInv

\* Giving the creation mutex back leaves the mutex that was found in place.
LEMMA UnlockCreationStep ==
  ASSUME LockerInv, NEW g \in Goroutines, UnlockCreation(g)
  PROVE  LockerInv'
<1>1. TypeOK' /\ (count \in [Goroutines -> Nat])'
  BY DEF LockerInv, TypeOK, UnlockCreation
<1>2. Progress'
  BY DEF LockerInv, TypeOK, Progress, UnlockCreation, Wanting
<1>3. Placed'
  BY LockerAssumption DEF LockerInv, TypeOK, Placed, UnlockCreation, Creating, Wanted
<1>4. OneKeyPerMutex' /\ HeldIsLocked' /\ NeverPanics'
  BY DEF LockerInv, TypeOK, OneKeyPerMutex, HeldIsLocked, NeverPanics, UnlockCreation
<1> QED BY <1>1, <1>2, <1>3, <1>4 DEF LockerInv

\* The mutex was nobody's, so no key that is held changes hands.
LEMMA AcquireStep ==
  ASSUME LockerInv, NEW g \in Goroutines, Acquire(g)
  PROVE  LockerInv'
<1>1. /\ pc[g] = "acquire" /\ mutex[found[g]] = NoOne
      /\ mutex' = [mutex EXCEPT ![found[g]] = g]
      /\ count' = [count EXCEPT ![g] = count[g] + 1]
      /\ found' = [found EXCEPT ![g] = NoMutex]
      /\ UNCHANGED <<mapLock, newLockMutex, locks, batch>>
  BY DEF Acquire
<1>2. count'[g] = count[g] + 1 /\ \A h \in Goroutines \ {g} : count'[h] = count[h]
  BY <1>1 DEF LockerInv
<1>3. /\ pc'[g] = IF count[g] + 1 < Len(batch[g]) THEN "load"
                  ELSE IF mapLock = g THEN "postlock" ELSE "in"
      /\ \A h \in Goroutines \ {g} : pc'[h] = pc[h]
      /\ DOMAIN pc' = Goroutines
  BY <1>2 DEF Acquire, LockerInv, TypeOK
<1>4. /\ Wanted(g) \in Keys /\ count[g] < Len(batch[g]) /\ batch[g] \in Batches
      /\ found[g] = locks[Wanted(g)] /\ found[g] \in Mutexes
  BY <1>1, KeyFacts DEF LockerInv, TypeOK, Progress, Placed, Wanting
<1>5. TypeOK' /\ (count \in [Goroutines -> Nat])'
  <2>1. (count \in [Goroutines -> Nat])'
    BY <1>1, <1>2 DEF LockerInv
  <2>2. \A h \in Goroutines : count'[h] \in 0 .. Len(batch'[h])
    BY <1>1, <1>2, <1>4, BatchFacts DEF LockerInv, TypeOK
  <2>3. (pc \in [Goroutines -> {"out", "prelock", "load", "create", "recheck",
                                "store", "created", "acquire", "postlock",
                                "in", "unlock", "panic"}])'
    BY DEF Acquire, LockerInv, TypeOK
  <2>4. (mutex \in [Mutexes -> Goroutines \cup {NoOne}])'
    BY <1>1 DEF LockerInv, TypeOK
  <2> QED BY <1>1, <2>1, <2>2, <2>3, <2>4 DEF LockerInv, TypeOK
<1>6. Progress'
  BY <1>1, <1>2, <1>3, <1>4, BatchFacts DEF LockerInv, Progress, Wanting
<1>7. Placed'
  BY <1>1, <1>2, <1>3 DEF LockerInv, TypeOK, Placed, Creating, Wanted
<1>8. OneKeyPerMutex' /\ NeverPanics'
  BY <1>1, <1>3 DEF LockerInv, OneKeyPerMutex, NeverPanics
<1>9. HeldIsLocked'
  <2> SUFFICES ASSUME NEW h \in Goroutines, NEW i \in 1 .. count'[h]
               PROVE  /\ locks[batch[h][i]] # NoMutex
                      /\ mutex'[locks[batch[h][i]]] = h
    BY <1>1 DEF HeldIsLocked
  <2>1. CASE i \in 1 .. count[h]
    <3>1. locks[batch[h][i]] # NoMutex /\ mutex[locks[batch[h][i]]] = h
      BY <2>1 DEF LockerInv, HeldIsLocked
    <3>2. locks[batch[h][i]] # found[g]
      BY <1>1, <3>1, LockerAssumption
    <3>3. locks[batch[h][i]] \in Mutexes
      BY <2>1, <3>1, KeyFacts DEF LockerInv, TypeOK
    <3> QED BY <1>1, <3>1, <3>2, <3>3 DEF LockerInv, TypeOK
  <2>2. CASE i \notin 1 .. count[h]
    <3>1. h = g /\ i = count[g] + 1
      BY <1>2, <2>2 DEF LockerInv
    <3>2. batch[h][i] = Wanted(g)
      BY <3>1 DEF Wanted
    <3> QED BY <1>1, <1>4, <3>1, <3>2, LockerAssumption DEF LockerInv, TypeOK
  <2> QED BY <2>1, <2>2
<1> QED BY <1>5, <1>6, <1>7, <1>8, <1>9 DEF LockerInv

\* Giving the locker-wide mutex back.
LEMMA PostLockStep ==
  ASSUME LockerInv, NEW g \in Goroutines, PostLock(g)
  PROVE  LockerInv'
<1>1. TypeOK' /\ (count \in [Goroutines -> Nat])'
  BY DEF LockerInv, TypeOK, PostLock
<1>2. Progress'
  BY DEF LockerInv, TypeOK, Progress, PostLock, Wanting
<1>3. Placed'
  BY LockerAssumption DEF LockerInv, TypeOK, Placed, PostLock, Creating, Wanted
<1>4. OneKeyPerMutex' /\ HeldIsLocked' /\ NeverPanics'
  BY DEF LockerInv, TypeOK, OneKeyPerMutex, HeldIsLocked, NeverPanics, PostLock
<1> QED BY <1>1, <1>2, <1>3, <1>4 DEF LockerInv

\* The caller is done with its keys and turns to giving them back.
LEMMA LeaveStep ==
  ASSUME LockerInv, NEW g \in Goroutines, Leave(g)
  PROVE  LockerInv'
<1>1. TypeOK' /\ (count \in [Goroutines -> Nat])'
  BY DEF LockerInv, TypeOK, Leave
<1>2. Progress'
  BY BatchFacts DEF LockerInv, TypeOK, Progress, Leave, Wanting
<1>3. Placed'
  BY LockerAssumption DEF LockerInv, TypeOK, Placed, Leave, Creating, Wanted
<1>4. OneKeyPerMutex' /\ HeldIsLocked' /\ NeverPanics'
  BY DEF LockerInv, TypeOK, OneKeyPerMutex, HeldIsLocked, NeverPanics, Leave
<1> QED BY <1>1, <1>2, <1>3, <1>4 DEF LockerInv

\* The mutex that is given back is the caller's own, and none of those it
\* keeps.
LEMMA UnlockStep ==
  ASSUME LockerInv, NEW g \in Goroutines, Unlock(g)
  PROVE  LockerInv'
<1> DEFINE m == locks[batch[g][count[g]]]
<1>1. pc[g] = "unlock" /\ count[g] \in Nat /\ count[g] > 0 /\ batch[g] \in Batches
  BY DEF Unlock, LockerInv, Progress
<1>2. m # NoMutex /\ mutex[m] = g /\ m \in Mutexes
  <2>1. batch[g][count[g]] \in Keys
    BY <1>1, KeyFacts
  <2> QED BY <1>1, <2>1 DEF LockerInv, TypeOK, HeldIsLocked
<1>3. /\ mutex' = [mutex EXCEPT ![m] = NoOne]
      /\ count' = [count EXCEPT ![g] = count[g] - 1]
      /\ \/ count[g] > 1 /\ UNCHANGED <<pc, batch>>
         \/ /\ count[g] = 1
            /\ pc' = [pc EXCEPT ![g] = "out"]
            /\ batch' = [batch EXCEPT ![g] = << >>]
      /\ UNCHANGED <<mapLock, newLockMutex, locks, found>>
  BY <1>2, LockerAssumption DEF Unlock
<1>4. count'[g] = count[g] - 1 /\ \A h \in Goroutines \ {g} : count'[h] = count[h]
  BY <1>3 DEF LockerInv
<1>5. TypeOK' /\ (count \in [Goroutines -> Nat])'
  <2>1. (count \in [Goroutines -> Nat])'
    BY <1>1, <1>3, <1>4 DEF LockerInv
  <2>2. \A h \in Goroutines : count'[h] \in 0 .. Len(batch'[h])
    BY <1>1, <1>3, <1>4 DEF LockerInv, TypeOK
  <2>3. /\ batch' \in [Goroutines -> Batches \cup {<< >>}]
        /\ mutex' \in [Mutexes -> Goroutines \cup {NoOne}]
    BY <1>3 DEF LockerInv, TypeOK
  <2> QED BY <1>3, <2>1, <2>2, <2>3 DEF LockerInv, TypeOK
<1>6. Progress'
  BY <1>1, <1>3, <1>4 DEF LockerInv, TypeOK, Progress, Wanting
<1>7. Placed'
  BY <1>1, <1>3, <1>4 DEF LockerInv, TypeOK, Placed, Creating, Wanted
<1>8. OneKeyPerMutex' /\ NeverPanics'
  BY <1>3 DEF LockerInv, TypeOK, OneKeyPerMutex, NeverPanics
<1>9. HeldIsLocked'
  <2> SUFFICES ASSUME NEW h \in Goroutines, NEW i \in 1 .. count'[h]
               PROVE  /\ locks[batch'[h][i]] # NoMutex
                      /\ mutex'[locks[batch'[h][i]]] = h
    BY <1>3 DEF HeldIsLocked
  <2>1. i \in 1 .. count[h] /\ batch'[h] = batch[h]
    BY <1>1, <1>3, <1>4 DEF LockerInv, TypeOK
  <2>2. locks[batch[h][i]] # NoMutex /\ mutex[locks[batch[h][i]]] = h
    BY <2>1 DEF LockerInv, HeldIsLocked
  <2>3. batch[h][i] \in Keys /\ locks[batch[h][i]] \in Mutexes
    BY <2>1, <2>2, KeyFacts DEF LockerInv, TypeOK
  <2>4. locks[batch[h][i]] # m
    <3>1. CASE h # g
      BY <1>2, <2>2, <3>1
    <3>2. CASE h = g
      <4>1. i # count[g] /\ count[g] \in 1 .. count[g]
        BY <1>1, <1>4, <3>2
      <4>2. batch[g][i] # batch[g][count[g]] /\ batch[g][count[g]] \in Keys
        BY <2>1, <3>2, <4>1, KeyFacts
      <4> QED BY <1>2, <2>3, <3>2, <4>2 DEF LockerInv, OneKeyPerMutex
    <3> QED BY <3>1, <3>2
  <2> QED BY <1>3, <2>1, <2>2, <2>3, <2>4 DEF LockerInv, TypeOK
<1> QED BY <1>5, <1>6, <1>7, <1>8, <1>9 DEF LockerInv

\* The invariant holds in every state of syncmap's locker.
THEOREM LockerInvariant == Spec => []LockerInv
<1>1. LockerInv /\ [Next]_vars => LockerInv'
  <2> SUFFICES ASSUME LockerInv, [Next]_vars
               PROVE  LockerInv'
    OBVIOUS
  <2>1. CASE Next
    BY <2>1, CallStep, PreLockStep, LoadStep, LockCreationStep, RecheckStep,
       StoreStep, UnlockCreationStep, AcquireStep, PostLockStep, LeaveStep,
       UnlockStep DEF Next, Step
  <2>2. CASE UNCHANGED vars
    BY <2>2 DEF vars, LockerInv, TypeOK, Progress, Placed, OneKeyPerMutex,
               HeldIsLocked, NeverPanics, Wanted
  <2> QED BY <2>1, <2>2
<1> QED BY LockerInit, <1>1, PTL DEF Spec

\* The locker's state keeps its types.
THEOREM TypeCorrect == Spec => []TypeOK
BY LockerInvariant, PTL DEF LockerInv

\* Unlock never meets a key without a mutex, nor one that is not locked.
THEOREM NoPanic == Spec => []NeverPanics
BY LockerInvariant, PTL DEF LockerInv

\* Two goroutines never hold the same key: its one mutex would have two
\* holders.
THEOREM Exclusion == Spec => []KeysExclusive
<1>1. LockerInv => KeysExclusive
  <2> SUFFICES ASSUME LockerInv, NEW g \in Goroutines, NEW h \in Goroutines,
                      g # h, NEW k \in HeldKeys(g) \cap HeldKeys(h)
               PROVE  FALSE
    BY DEF KeysExclusive
  <2>1. mutex[locks[k]] = g
    BY DEF HeldKeys, LockerInv, HeldIsLocked
  <2>2. mutex[locks[k]] = h
    BY DEF HeldKeys, LockerInv, HeldIsLocked
  <2> QED BY <2>1, <2>2
<1> QED BY LockerInvariant, <1>1, PTL

-----------------------------------------------------------------------------
(***************************************************************************)
(* The refinement.  Taking a key's mutex is the abstract Acquire and       *)
(* giving it back the abstract Release; every other step moves neither the *)
(* mutexes that are in the map nor what the goroutines hold.  This needs   *)
(* Placed: a mutex that took the place of a held one would free the key    *)
(* without a Release.                                                      *)
(***************************************************************************)
\* A mutex changing hands moves the holder of its own key and of no other.
LEMMA HolderMoves ==
  ASSUME LockerInv, NEW k \in Keys, locks[k] # NoMutex, NEW x,
         mutex' = [mutex EXCEPT ![locks[k]] = x], UNCHANGED locks
  PROVE  Holder' = [Holder EXCEPT ![k] = x]
<1>1. \A l \in Keys : locks[l] \in Mutexes \cup {NoMutex}
  BY DEF LockerInv, TypeOK
<1>2. mutex'[locks[k]] = x
  BY <1>1 DEF LockerInv, TypeOK
<1>3. \A l \in Keys \ {k} : locks[l] # NoMutex => mutex'[locks[l]] = mutex[locks[l]]
  BY <1>1 DEF LockerInv, TypeOK, OneKeyPerMutex
<1> QED BY <1>2, <1>3 DEF Holder

\* What goroutine g holds depends on its own batch and count.
LEMMA HeldMoves ==
  ASSUME NEW g \in Goroutines, NEW S, HeldKeys(g)' = S,
         \A h \in Goroutines \ {g} : HeldKeys(h)' = HeldKeys(h)
  PROVE  Held' = [Held EXCEPT ![g] = S]
BY DEF Held

\* A step of the locker is a step of the lock per key, or none.
LEMMA StepRefines ==
  ASSUME LockerInv, [Next]_vars
  PROVE  [Promise!Next]_<<Holder, Held>>
<1>1. ASSUME UNCHANGED <<locks, mutex>>
      PROVE  UNCHANGED Holder
  BY <1>1 DEF Holder
<1>2. ASSUME UNCHANGED <<batch, count>>
      PROVE  UNCHANGED Held
  BY <1>2 DEF Held, HeldKeys
<1>3. ASSUME NEW g \in Goroutines, Store(g)
      PROVE  UNCHANGED <<Holder, Held>>
  <2>1. PICK m \in Mutexes :
          Fresh(m) /\ locks' = [locks EXCEPT ![Wanted(g)] = m]
    BY <1>3 DEF Store
  <2>2. locks[Wanted(g)] = NoMutex /\ Wanted(g) \in Keys /\ UNCHANGED mutex
    BY <1>3, KeyFacts DEF Store, LockerInv, Placed, Wanting
  <2>3. UNCHANGED Holder
    BY <2>1, <2>2, LockerAssumption DEF Holder, Fresh, LockerInv, TypeOK
  <2> QED BY <1>2, <1>3, <2>3 DEF Store
<1>4. ASSUME NEW g \in Goroutines, Call(g)
      PROVE  UNCHANGED <<Holder, Held>>
  <2>1. count[g] = 0 /\ UNCHANGED <<locks, mutex, count>>
    BY <1>4 DEF Call, LockerInv, Progress
  <2>2. \A h \in Goroutines \ {g} : batch'[h] = batch[h]
    BY <1>4 DEF Call, LockerInv, TypeOK
  <2>3. \A h \in Goroutines : HeldKeys(h)' = HeldKeys(h)
    BY <2>1, <2>2 DEF HeldKeys
  <2> QED BY <1>1, <2>1, <2>3 DEF Held
<1>5. ASSUME NEW g \in Goroutines, Acquire(g)
      PROVE  \E k \in Keys : Promise!Acquire(g, k)
  <2>1. /\ Wanted(g) \in Keys /\ locks[Wanted(g)] # NoMutex
        /\ found[g] = locks[Wanted(g)]
    BY <1>5, KeyFacts DEF Acquire, LockerInv, Placed, Wanting
  <2>2. Holder[Wanted(g)] = NoOne
    BY <1>5, <2>1 DEF Acquire, Holder
  <2>3. Holder' = [Holder EXCEPT ![Wanted(g)] = g]
    BY <1>5, <2>1, HolderMoves DEF Acquire
  <2>4. /\ count'[g] = count[g] + 1 /\ count[g] \in Nat /\ UNCHANGED batch
        /\ \A h \in Goroutines \ {g} : count'[h] = count[h]
    BY <1>5 DEF Acquire, LockerInv
  <2>5. HeldKeys(g)' = HeldKeys(g) \cup {Wanted(g)}
    <3>1. 1 .. count'[g] = (1 .. count[g]) \cup {count[g] + 1}
      BY <2>4
    <3> QED BY <2>4, <3>1 DEF HeldKeys, Wanted
  <2>6. \A h \in Goroutines \ {g} : HeldKeys(h)' = HeldKeys(h)
    BY <2>4 DEF HeldKeys
  <2>7. Held' = [Held EXCEPT ![g] = Held[g] \cup {Wanted(g)}]
    BY <2>5, <2>6, HeldMoves DEF Held
  <2> QED BY <2>1, <2>2, <2>3, <2>7 DEF Promise!Acquire
<1>6. ASSUME NEW g \in Goroutines, Unlock(g)
      PROVE  \E k \in Keys : Promise!Release(g, k)
  <2> DEFINE k == batch[g][count[g]]
  <2>1. count[g] \in Nat /\ count[g] \in 1 .. count[g]
    BY <1>6 DEF Unlock, LockerInv, Progress
  <2>2. k \in Keys /\ locks[k] # NoMutex /\ mutex[locks[k]] = g
    BY <2>1, KeyFacts DEF LockerInv, HeldIsLocked
  <2>3. /\ mutex' = [mutex EXCEPT ![locks[k]] = NoOne] /\ UNCHANGED locks
        /\ count' = [count EXCEPT ![g] = count[g] - 1]
        /\ \/ count[g] > 1 /\ UNCHANGED batch
           \/ count[g] = 1 /\ batch' = [batch EXCEPT ![g] = << >>]
    BY <1>6, <2>2, LockerAssumption DEF Unlock
  <2>4. /\ count'[g] = count[g] - 1
        /\ count[g] > 1 => batch'[g] = batch[g]
        /\ \A h \in Goroutines \ {g} : count'[h] = count[h] /\ batch'[h] = batch[h]
    BY <2>3 DEF LockerInv, TypeOK
  <2>5. HeldKeys(g)' = HeldKeys(g) \ {k}
    <3>1. \A i \in 1 .. count[g] : i # count[g] => batch[g][i] # k
      BY <2>1, KeyFacts
    <3>2. 1 .. count'[g] = (1 .. count[g]) \ {count[g]}
      BY <2>1, <2>4
    <3>3. \A i \in 1 .. count'[g] : batch'[g][i] = batch[g][i]
      BY <2>1, <2>3, <2>4
    <3> HIDE DEF k
    <3>4. HeldKeys(g)' = {batch[g][i] : i \in (1 .. count[g]) \ {count[g]}}
      BY <3>2, <3>3 DEF HeldKeys
    <3> QED BY <3>1, <3>4 DEF HeldKeys, k
  <2>6. \A h \in Goroutines \ {g} : HeldKeys(h)' = HeldKeys(h)
    BY <2>4 DEF HeldKeys
  <2>7. k \in HeldKeys(g)
    BY <2>1 DEF HeldKeys
  <2> HIDE DEF k
  <2>8. Holder[k] = g /\ Holder' = [Holder EXCEPT ![k] = NoOne]
    BY <2>2, <2>3, HolderMoves DEF Holder
  <2>9. k \in Held[g] /\ Held' = [Held EXCEPT ![g] = Held[g] \ {k}]
    BY <2>5, <2>6, <2>7, HeldMoves DEF Held
  <2> QED BY <2>2, <2>8, <2>9 DEF Promise!Release
<1>7. ASSUME NEW g \in Goroutines,
             \/ PreLock(g) \/ Load(g) \/ LockCreation(g)
             \/ Recheck(g) \/ UnlockCreation(g) \/ PostLock(g) \/ Leave(g)
      PROVE  UNCHANGED <<Holder, Held>>
  BY <1>1, <1>2, <1>7 DEF PreLock, Load, LockCreation, Recheck, UnlockCreation,
                   PostLock, Leave
<1>8. CASE UNCHANGED vars
  BY <1>1, <1>2, <1>8 DEF vars
<1>9. CASE Next
  <2>1. PICK g \in Goroutines : Call(g) \/ Step(g)
    BY <1>9 DEF Next
  <2>2. CASE Acquire(g)
    BY <1>5, <2>2 DEF Promise!Next
  <2>3. CASE Unlock(g)
    BY <1>6, <2>3 DEF Promise!Next
  <2>4. CASE Store(g)
    BY <1>3, <2>4
  <2>5. CASE Call(g)
    BY <1>4, <2>5
  <2>6. CASE \/ PreLock(g) \/ Load(g) \/ LockCreation(g)
             \/ Recheck(g) \/ UnlockCreation(g) \/ PostLock(g) \/ Leave(g)
    BY <1>7, <2>6
  <2> QED BY <2>1, <2>2, <2>3, <2>4, <2>5, <2>6 DEF Step
<1> QED BY <1>8, <1>9

\* PreLock, Lock, Unlock and PostLock, with mutexes created on demand,
\* implement one lock per public key: what the map says of a key and what
\* its caller holds change in the same step, an Acquire or that caller's own
\* Release.
THEOREM Refinement == Spec => KeepsPromise
<1>1. Init => Promise!Init
  BY DEF Init, Promise!Init, Holder, Held, HeldKeys
<1>2. LockerInv /\ [Next]_vars => [Promise!Next]_<<Holder, Held>>
  BY StepRefines
<1> QED BY LockerInvariant, <1>1, <1>2, PTL
        DEF Spec, KeepsPromise, Promise!Spec, Promise!lockVars
=============================================================================
