----------------------------- MODULE KeyLocker -----------------------------
(***************************************************************************)
(* The locker of services/locker/syncmap, one atomic operation of sync.Map *)
(* or sync.Mutex at a time.                                                *)
(*                                                                         *)
(* A goroutine locks a sequence of distinct keys.  A batch is locked       *)
(* between PreLock and PostLock, as the ruler does; the contract of Lock   *)
(* allows a goroutine that wants a single key to leave both out.  The pc   *)
(* says which operation comes next:                                        *)
(*    out       nothing wanted                                             *)
(*    prelock   take the locker-wide mutex                                 *)
(*    load      look the key's mutex up                                    *)
(*    create    not found: take the mutex that guards creation             *)
(*    recheck   look again                                                 *)
(*    store     still not found: put a new mutex into the map              *)
(*    created   give the creation mutex back                               *)
(*    acquire   wait for the key's mutex                                   *)
(*    postlock  give the locker-wide mutex back                            *)
(*    in        every lock held                                            *)
(*    unlock    giving the locks back, last one first                      *)
(*    panic     an unlock of a mutex that is unknown or not locked         *)
(***************************************************************************)
EXTENDS Naturals, Sequences

CONSTANTS
  Goroutines, Keys,
  Mutexes,    \* the addresses of key mutexes
  Batches,    \* the sequences of keys that may be locked together
  NoOne, NoMutex

ASSUME LockerAssumption ==
  /\ NoOne \notin Goroutines
  /\ NoMutex \notin Mutexes
  /\ \A b \in Batches :
       /\ b \in Seq(Keys) /\ b # << >>
       /\ \A i, j \in DOMAIN b : b[i] = b[j] => i = j

VARIABLES
  mapLock, newLockMutex,  \* holders of the locker-wide and creation mutexes
  locks,                  \* sync.Map: each key's mutex
  mutex,                  \* holder of each key mutex
  pc, batch,
  count,                  \* how many keys of the batch are locked
  found                   \* local variable lock

vars == <<mapLock, newLockMutex, locks, mutex, pc, batch, count, found>>

Init ==
  /\ mapLock = NoOne
  /\ newLockMutex = NoOne
  /\ locks = [k \in Keys |-> NoMutex]
  /\ mutex = [m \in Mutexes |-> NoOne]
  /\ pc    = [g \in Goroutines |-> "out"]
  /\ batch = [g \in Goroutines |-> << >>]
  /\ count = [g \in Goroutines |-> 0]
  /\ found = [g \in Goroutines |-> NoMutex]

Wanted(g) == batch[g][count[g] + 1]

\* A caller comes with a batch; a single key may come without PreLock.
Call(g) ==
  /\ pc[g] = "out"
  /\ \E b \in Batches :
       /\ batch' = [batch EXCEPT ![g] = b]
       /\ \/ pc' = [pc EXCEPT ![g] = "prelock"]
          \/ Len(b) = 1 /\ pc' = [pc EXCEPT ![g] = "load"]
  /\ UNCHANGED <<mapLock, newLockMutex, locks, mutex, count, found>>

\* Mutant: the locker-wide mutex is not waited for.
PreLockShared(g) ==
  /\ pc[g] = "prelock"
  /\ mapLock' = g
  /\ pc' = [pc EXCEPT ![g] = "load"]
  /\ UNCHANGED <<newLockMutex, locks, mutex, batch, count, found>>

PreLock(g) ==
  /\ pc[g] = "prelock"
  /\ mapLock = NoOne
  /\ mapLock' = g
  /\ pc' = [pc EXCEPT ![g] = "load"]
  /\ UNCHANGED <<newLockMutex, locks, mutex, batch, count, found>>

Load(g) ==
  /\ pc[g] = "load"
  /\ found' = [found EXCEPT ![g] = locks[Wanted(g)]]
  /\ pc' = [pc EXCEPT ![g] =
              IF locks[Wanted(g)] = NoMutex THEN "create" ELSE "acquire"]
  /\ UNCHANGED <<mapLock, newLockMutex, locks, mutex, batch, count>>

\* Mutant: mutexes are created without the creation mutex.
LockCreationShared(g) ==
  /\ pc[g] = "create"
  /\ newLockMutex' = g
  /\ pc' = [pc EXCEPT ![g] = "recheck"]
  /\ UNCHANGED <<mapLock, locks, mutex, batch, count, found>>

LockCreation(g) ==
  /\ pc[g] = "create"
  /\ newLockMutex = NoOne
  /\ newLockMutex' = g
  /\ pc' = [pc EXCEPT ![g] = "recheck"]
  /\ UNCHANGED <<mapLock, locks, mutex, batch, count, found>>

\* Mutant: the key is not looked up again under the creation mutex.
RecheckBlind(g) ==
  /\ pc[g] = "recheck"
  /\ pc' = [pc EXCEPT ![g] = "store"]
  /\ UNCHANGED <<mapLock, newLockMutex, locks, mutex, batch, count, found>>

Recheck(g) ==
  /\ pc[g] = "recheck"
  /\ found' = [found EXCEPT ![g] = locks[Wanted(g)]]
  /\ pc' = [pc EXCEPT ![g] =
              IF locks[Wanted(g)] = NoMutex THEN "store" ELSE "created"]
  /\ UNCHANGED <<mapLock, newLockMutex, locks, mutex, batch, count>>

\* A new mutex is one that nobody can still reach.
Fresh(m) ==
  /\ mutex[m] = NoOne
  /\ \A k \in Keys : locks[k] # m
  /\ \A g \in Goroutines : found[g] # m

Store(g) ==
  /\ pc[g] = "store"
  /\ \E m \in Mutexes :
       /\ Fresh(m)
       /\ locks' = [locks EXCEPT ![Wanted(g)] = m]
       /\ found' = [found EXCEPT ![g] = m]
  /\ pc' = [pc EXCEPT ![g] = "created"]
  /\ UNCHANGED <<mapLock, newLockMutex, mutex, batch, count>>

UnlockCreation(g) ==
  /\ pc[g] = "created"
  /\ newLockMutex' = NoOne
  /\ pc' = [pc EXCEPT ![g] = "acquire"]
  /\ UNCHANGED <<mapLock, locks, mutex, batch, count, found>>

\* Mutant: a key's mutex is taken although somebody has it.
AcquireWithoutWaiting(g) ==
  /\ pc[g] = "acquire"
  /\ mutex' = [mutex EXCEPT ![found[g]] = g]
  /\ count' = [count EXCEPT ![g] = @ + 1]
  /\ found' = [found EXCEPT ![g] = NoMutex]
  /\ pc' = [pc EXCEPT ![g] = IF count'[g] < Len(batch[g]) THEN "load"
                             ELSE IF mapLock = g THEN "postlock" ELSE "in"]
  /\ UNCHANGED <<mapLock, newLockMutex, locks, batch>>

Acquire(g) ==
  /\ pc[g] = "acquire"
  /\ mutex[found[g]] = NoOne
  /\ mutex' = [mutex EXCEPT ![found[g]] = g]
  /\ count' = [count EXCEPT ![g] = @ + 1]
  /\ found' = [found EXCEPT ![g] = NoMutex]
  /\ pc' = [pc EXCEPT ![g] = IF count'[g] < Len(batch[g]) THEN "load"
                             ELSE IF mapLock = g THEN "postlock" ELSE "in"]
  /\ UNCHANGED <<mapLock, newLockMutex, locks, batch>>

PostLock(g) ==
  /\ pc[g] = "postlock"
  /\ mapLock' = NoOne
  /\ pc' = [pc EXCEPT ![g] = "in"]
  /\ UNCHANGED <<newLockMutex, locks, mutex, batch, count, found>>

\* Mutant: the batch is forgotten while its locks are held.
LeaveForgets(g) ==
  /\ pc[g] = "in"
  /\ pc' = [pc EXCEPT ![g] = "unlock"]
  /\ batch' = [batch EXCEPT ![g] = << >>]
  /\ UNCHANGED <<mapLock, newLockMutex, locks, mutex, count, found>>

Leave(g) ==
  /\ pc[g] = "in"
  /\ pc' = [pc EXCEPT ![g] = "unlock"]
  /\ UNCHANGED <<mapLock, newLockMutex, locks, mutex, batch, count, found>>

\* Unlock panics on a key without a mutex, and the runtime stops the process
\* on a mutex that is not locked.
Unlock(g) ==
  /\ pc[g] = "unlock"
  /\ LET m == locks[batch[g][count[g]]]
     IN \/ /\ m # NoMutex /\ mutex[m] # NoOne
           /\ mutex' = [mutex EXCEPT ![m] = NoOne]
           /\ count' = [count EXCEPT ![g] = @ - 1]
           /\ \/ /\ count[g] > 1
                 /\ UNCHANGED <<pc, batch>>
              \/ /\ count[g] = 1
                 /\ pc' = [pc EXCEPT ![g] = "out"]
                 /\ batch' = [batch EXCEPT ![g] = << >>]
        \/ /\ m = NoMutex \/ mutex[m] = NoOne
           /\ pc' = [pc EXCEPT ![g] = "panic"]
           /\ UNCHANGED <<mutex, batch, count>>
  /\ UNCHANGED <<mapLock, newLockMutex, locks, found>>

Step(g) ==
  \/ PreLock(g) \/ Load(g) \/ LockCreation(g) \/ Recheck(g)
  \/ Store(g) \/ UnlockCreation(g) \/ Acquire(g) \/ PostLock(g)
  \/ Leave(g) \/ Unlock(g)

Next == \E g \in Goroutines : Call(g) \/ Step(g)

Spec == Init /\ [][Next]_vars

\* A goroutine that can run does, and a sync.Mutex is handed to a waiter
\* that starves.
FairSpec ==
  /\ Spec
  /\ \A g \in Goroutines :
       WF_vars(Step(g)) /\ SF_vars(PreLock(g)) /\ SF_vars(LockCreation(g))
         /\ SF_vars(Acquire(g))
-----------------------------------------------------------------------------
(***************************************************************************)
(* Properties.                                                             *)
(***************************************************************************)
\* Type invariant.
TypeOK ==
  /\ mapLock \in Goroutines \cup {NoOne}
  /\ newLockMutex \in Goroutines \cup {NoOne}
  /\ locks \in [Keys -> Mutexes \cup {NoMutex}]
  /\ mutex \in [Mutexes -> Goroutines \cup {NoOne}]
  /\ pc \in [Goroutines -> {"out", "prelock", "load", "create", "recheck",
                            "store", "created", "acquire", "postlock", "in", "unlock",
                            "panic"}]
  /\ batch \in [Goroutines -> Batches \cup {<< >>}]
  /\ \A g \in Goroutines : count[g] \in 0 .. Len(batch[g])
  /\ found \in [Goroutines -> Mutexes \cup {NoMutex}]

HeldKeys(g) == {batch[g][i] : i \in 1 .. count[g]}

\* However the keys' mutexes come into being, two goroutines never hold the
\* same key.
KeysExclusive ==
  \A g, h \in Goroutines : g # h => HeldKeys(g) \cap HeldKeys(h) = {}

\* No unlock meets an unknown or unlocked mutex.
NeverPanics == \A g \in Goroutines : pc[g] # "panic"

\* Whoever asks for keys gets them all, in whatever order others want them.
EveryCallServed ==
  \A g \in Goroutines : pc[g] = "prelock" \/ pc[g] = "load" ~> pc[g] = "in"

\* The lock of a key as the next caller meets it is the mutex now in the
\* map, NoOne's where there is none yet.
Holder == [k \in Keys |-> IF locks[k] = NoMutex THEN NoOne ELSE mutex[locks[k]]]
Held   == [g \in Goroutines |-> HeldKeys(g)]

Promise == INSTANCE KeyLock WITH holder <- Holder, held <- Held

\* The map of mutexes, filled on demand, implements one lock per key: the
\* mutex in the map is taken in the step that gives the key to its caller,
\* and becomes free only in the step in which that caller gives it back, never
\* by another mutex taking its place or by another goroutine's unlock.
KeepsPromise == Promise!Spec
=============================================================================
