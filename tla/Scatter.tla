------------------------------ MODULE Scatter ------------------------------
(***************************************************************************)
(* util/scatter.go: a batch of entries is split into extents of about the  *)
(* same size, each the work of a goroutine of its own.  The goroutines     *)
(* answer on one of two channels, which the caller closes when it returns: *)
(* sending on a closed channel panics, and takes the server down.          *)
(*                                                                         *)
(* The signer prepares and signs its batches with it, and the ruler runs   *)
(* its rules, except those of a batch of attestations, for which it only   *)
(* prepares the data here.                                                 *)
(***************************************************************************)
EXTENDS Naturals, FiniteSets

CONSTANTS
  MaxItems,      \* bound: the longest batch
  MaxProcs       \* bound: the most processors

ASSUME ScatterAssumption == MaxItems \in Nat /\ MaxProcs \in Nat \ {0}

VARIABLES
  items,         \* inputLen
  procs,         \* GOMAXPROCS
  caller,        \* where the caller of Scatter is
  spawned,       \* workers started so far
  worker,        \* worker[w]: where worker w is
  at,            \* at[w]: entries of its extent that worker w has worked on
  touched,       \* touched[i]: how often entry i has been worked on
  resultCh,      \* workers whose result is in the channel
  errorCh,       \* workers whose error is in the channel
  received,      \* workers whose answer the caller has
  err            \* has the caller got an error?

vars == <<items, procs, caller, spawned, worker, at, touched, resultCh,
          errorCh, received, err>>
-----------------------------------------------------------------------------
CalculateExtentSize(n, p) ==
  LET even == n \div p
  IN CASE even = 0 -> 1
       [] even # 0 /\ n % even > 0 -> even + 1
       [] even # 0 /\ n % even = 0 -> even

ExtentSize == CalculateExtentSize(items, procs)

\* Mutants: the last, shorter extent has no worker; there is always one more.
WorkersFull == items \div ExtentSize
WorkersExtra == items \div ExtentSize + 1

Workers ==
  items \div ExtentSize + IF items % ExtentSize # 0 THEN 1 ELSE 0

Offset(w) == w * ExtentSize

Entries(w) ==
  IF Offset(w) + ExtentSize > items THEN items - Offset(w) ELSE ExtentSize
-----------------------------------------------------------------------------
Ids == 0 .. MaxItems - 1         \* of workers
Indices == 0 .. 2 * MaxItems     \* of entries, and beyond

Init ==
  /\ items \in 0 .. MaxItems
  /\ procs \in 1 .. MaxProcs
  /\ caller = "called"
  /\ spawned = 0
  /\ worker = [w \in Ids |-> "none"]
  /\ at = [w \in Ids |-> 0]
  /\ touched = [i \in Indices |-> 0]
  /\ resultCh = {} /\ errorCh = {} /\ received = {}
  /\ err = FALSE

Begin ==
  /\ caller = "called"
  /\ \/ items = 0 /\ caller' = "returned" /\ err' = TRUE
     \/ items > 0 /\ caller' = "spawning" /\ UNCHANGED err
  /\ UNCHANGED <<items, procs, spawned, worker, at, touched, resultCh, errorCh,
                 received>>

Spawn ==
  /\ caller = "spawning"
  /\ \/ /\ spawned < Workers
        /\ spawned' = spawned + 1
        /\ worker' = [worker EXCEPT ![spawned] = "working"]
        /\ UNCHANGED caller
     \/ /\ spawned = Workers
        /\ caller' = "collecting"
        /\ UNCHANGED <<spawned, worker>>
  /\ UNCHANGED <<items, procs, at, touched, resultCh, errorCh, received, err>>

\* An entry, or the end of the extent.
Work(w) ==
  /\ worker[w] = "working"
  /\ \/ /\ at[w] < Entries(w)
        /\ at' = [at EXCEPT ![w] = @ + 1]
        /\ touched' = [touched EXCEPT ![Offset(w) + at[w]] = @ + 1]
        /\ UNCHANGED worker
     \/ /\ at[w] = Entries(w)
        /\ worker' = [worker EXCEPT ![w] = "worked"]
        /\ UNCHANGED <<at, touched>>
  /\ UNCHANGED <<items, procs, caller, spawned, resultCh, errorCh, received, err>>

\* The work function gives up at any entry.
WorkFails(w) ==
  /\ worker[w] = "working" /\ at[w] < Entries(w)
  /\ worker' = [worker EXCEPT ![w] = "failed"]
  /\ UNCHANGED <<items, procs, caller, spawned, at, touched, resultCh, errorCh,
                 received, err>>

Capacity == Workers
Closed == caller = "returned"

\* Mutant: a worker that has failed just ends.
SendResult(w) ==
  /\ \/ /\ worker[w] = "worked"
        /\ Closed \/ Cardinality(resultCh) < Capacity
        /\ resultCh' = resultCh \cup {w}
     \/ /\ worker[w] = "failed"
        /\ UNCHANGED resultCh
  /\ worker' = [worker EXCEPT ![w] = IF Closed THEN "panic" ELSE "ended"]
  /\ UNCHANGED <<items, procs, caller, spawned, at, touched, errorCh, received,
                 err>>

Send(w) ==
  /\ \/ /\ worker[w] = "worked"
        /\ Closed \/ Cardinality(resultCh) < Capacity
        /\ resultCh' = resultCh \cup {w}
        /\ UNCHANGED errorCh
     \/ /\ worker[w] = "failed"
        /\ Closed \/ Cardinality(errorCh) < Capacity
        /\ errorCh' = errorCh \cup {w}
        /\ UNCHANGED resultCh
  /\ worker' = [worker EXCEPT ![w] = IF Closed THEN "panic" ELSE "ended"]
  /\ UNCHANGED <<items, procs, caller, spawned, at, touched, received, err>>

\* Mutant: a result that follows an error clears it.
ReceiveResultOnly(w) ==
  /\ resultCh' = resultCh \ {w}
  /\ err' = FALSE
  /\ UNCHANGED errorCh

ReceiveResult(w) ==
  /\ resultCh' = resultCh \ {w}
  /\ UNCHANGED <<errorCh, err>>

ReceiveError(w) ==
  /\ errorCh' = errorCh \ {w}
  /\ err' = TRUE
  /\ UNCHANGED resultCh

\* Mutant: an error ends the collection.
CollectedOrError == err \/ Cardinality(received) = Workers

Collected == Cardinality(received) = Workers

\* One answer from every worker, then return, which closes the channels.
Collect ==
  /\ caller = "collecting"
  /\ \/ /\ ~Collected
        /\ \E w \in Ids :
             /\ \/ w \in resultCh /\ ReceiveResult(w)
                \/ w \in errorCh /\ ReceiveError(w)
             /\ received' = received \cup {w}
        /\ UNCHANGED caller
     \/ /\ Collected
        /\ caller' = "returned"
        /\ UNCHANGED <<resultCh, errorCh, received, err>>
  /\ UNCHANGED <<items, procs, spawned, worker, at, touched>>

Caller == Begin \/ Spawn \/ Collect

Next == Caller \/ \E w \in Ids : Work(w) \/ WorkFails(w) \/ Send(w)

Spec == Init /\ [][Next]_vars

\* The caller and the workers are goroutines that the scheduler runs.
FairSpec ==
  /\ Spec
  /\ WF_vars(Caller)
  /\ \A w \in Ids : WF_vars(Work(w) \/ Send(w))
-----------------------------------------------------------------------------
(***************************************************************************)
(* Properties.                                                             *)
(***************************************************************************)
\* Type invariant.
TypeOK ==
  /\ caller \in {"called", "spawning", "collecting", "returned"}
  /\ spawned \in 0 .. MaxItems
  /\ worker \in [Ids -> {"none", "working", "worked", "failed", "ended", "panic"}]
  /\ at \in [Ids -> 0 .. MaxItems]
  /\ touched \in [Indices -> Nat]
  /\ resultCh \cup errorCh \cup received \subseteq Ids
  /\ err \in BOOLEAN

\* No entry is worked on twice or by two workers, no worker goes beyond the
\* batch (an index out of range, which panics), and when Scatter returns
\* without an error none has been left out: whatever the numbers of entries
\* and processors.  A duty that is left out is answered with no result, one
\* that is done twice is checked twice against the same state.
EveryEntryOnce ==
  /\ \A i \in Indices : touched[i] <= IF i < items THEN 1 ELSE 0
  /\ caller = "returned" /\ ~err =>
       \A i \in 0 .. items - 1 : touched[i] = 1

\* Nobody sends on a closed channel: every worker has ended when the caller
\* returns, also after an error, and no answer is left in a channel.
NobodyIsLeft ==
  caller = "returned" =>
    /\ resultCh = {} /\ errorCh = {}
    /\ \A w \in Ids : worker[w] \in {"none", "ended"}

\* The caller gets an error exactly when an extent was not worked through.
ErrorsAreReported ==
  caller = "returned" =>
    (err <=> items = 0 \/ \E i \in 0 .. items - 1 : touched[i] = 0)

\* Scatter returns: no worker waits for room in a channel, and the caller
\* does not wait for an answer that never comes.
ScatterReturns == <>(caller = "returned")
=============================================================================
