--------------------------- MODULE ScatterProofs ---------------------------
(***************************************************************************)
(* Proofs about Scatter, for batches of any length on any number of        *)
(* processors.                                                             *)
(***************************************************************************)
EXTENDS Scatter, FiniteSetTheorems, TLAPS

\* Worker w has worked on entry i.
Done(w, i) == Offset(w) <= i /\ i < Offset(w) + at[w]

\* Where the caller is decides how many workers there are.
CallerOK ==
  /\ items \in 0 .. MaxItems /\ procs \in 1 .. MaxProcs
  /\ caller = "called" => spawned = 0 /\ ~err
  /\ items = 0 => /\ spawned = 0 /\ caller \in {"called", "returned"}
                  /\ caller = "returned" => err
  /\ items > 0 => /\ spawned <= Workers
                  /\ caller \in {"collecting", "returned"} => spawned = Workers
                  /\ caller = "returned" => Collected

\* Where a worker is decides how much of its extent it has worked on.
WorkerOK(w) ==
  /\ worker[w] # "panic"
  /\ worker[w] = "none" <=> w >= spawned
  /\ worker[w] = "none" => at[w] = 0
  /\ worker[w] # "none" => at[w] <= Entries(w)
  /\ worker[w] = "worked" => at[w] = Entries(w)
  /\ worker[w] = "failed" => at[w] < Entries(w)

\* A worker that has ended has its answer in one place.
AnswerOK(w) ==
  /\ worker[w] = "ended" <=> w \in resultCh \cup errorCh \cup received
  /\ ~(w \in resultCh /\ w \in errorCh)
  /\ w \in received => w \notin resultCh /\ w \notin errorCh
  /\ w \in resultCh => at[w] = Entries(w)
  /\ w \in errorCh => at[w] < Entries(w)

ErrorOK == items > 0 => (err <=> \E w \in received : at[w] < Entries(w))

TouchedOK ==
  \A i \in Indices : touched[i] = IF \E w \in Ids : Done(w, i) THEN 1 ELSE 0

\* The inductive invariant.
ScatterInv ==
  /\ TypeOK /\ CallerOK /\ ErrorOK /\ TouchedOK
  /\ \A w \in Ids : WorkerOK(w) /\ AnswerOK(w)
-----------------------------------------------------------------------------
(***************************************************************************)
(* Arithmetic.                                                             *)
(***************************************************************************)
LEMMA DivMod ==
  ASSUME NEW a \in Nat, NEW b \in Nat \ {0}
  PROVE  /\ a \div b \in Nat /\ a % b \in Nat /\ a % b < b
         /\ a = (a \div b) * b + (a % b)
OBVIOUS

LEMMA Monotone ==
  ASSUME NEW a \in Nat, NEW b \in Nat, NEW c \in Nat, a <= b
  PROVE  a * c \in Nat /\ b * c \in Nat /\ a * c <= b * c
<1>1. PICK d \in Nat : b = a + d
  <2>1. b - a \in Nat /\ b = a + (b - a)
    OBVIOUS
  <2> QED BY <2>1
<1>2. b * c = a * c + d * c /\ d * c \in Nat /\ a * c \in Nat /\ b * c \in Nat
  BY <1>1
<1> QED BY <1>2

\* Extents of the same size have no index in common.
LEMMA Apart ==
  ASSUME NEW v \in Nat, NEW w \in Nat, NEW e \in Nat, NEW i \in Nat,
         v * e <= i, i < v * e + e, w * e <= i, i < w * e + e
  PROVE  v = w
<1>1. ASSUME NEW a \in Nat, NEW b \in Nat, a < b, i < a * e + e, b * e <= i
      PROVE  FALSE
  <2>1. (a + 1) * e <= b * e /\ (a + 1) * e \in Nat /\ b * e \in Nat
    BY <1>1, Monotone
  <2>2. (a + 1) * e = a * e + e /\ a * e \in Nat
    OBVIOUS
  <2> QED BY <1>1, <2>1, <2>2
<1> QED BY <1>1
-----------------------------------------------------------------------------
(***************************************************************************)
(* Extents.                                                                *)
(***************************************************************************)
LEMMA ExtentSizeType ==
  ASSUME CallerOK
  PROVE  /\ ExtentSize \in Nat \ {0} /\ items \in Nat
         /\ \A w \in Nat : Offset(w) \in Nat
<1>1. items \in Nat /\ procs \in Nat \ {0}
  BY ScatterAssumption DEF CallerOK
<1>2. items \div procs \in Nat
  BY <1>1, DivMod
<1>3. items \div procs # 0 =>
        items % (items \div procs) > 0 \/ items % (items \div procs) = 0
  BY <1>1, <1>2, DivMod
<1>4. ExtentSize \in Nat \ {0}
  BY <1>2, <1>3 DEF ExtentSize, CalculateExtentSize
<1> HIDE DEF ExtentSize
<1>5. \A w \in Nat : w * ExtentSize \in Nat
  BY <1>4
<1> QED BY <1>1, <1>4, <1>5 DEF Offset

\* The extents of the workers are within the batch, have no entry in common
\* and leave none out.
LEMMA Extents ==
  ASSUME CallerOK, items > 0
  PROVE  /\ Workers \in 1 .. items
         /\ \A w \in 0 .. Workers - 1 : /\ Entries(w) \in 1 .. items
                                        /\ Offset(w) + Entries(w) <= items
         /\ \A v, w \in 0 .. Workers - 1, i \in Nat :
              /\ Offset(v) <= i /\ i < Offset(v) + Entries(v)
              /\ Offset(w) <= i /\ i < Offset(w) + Entries(w)
              => v = w
         /\ \A i \in 0 .. items - 1 : \E w \in 0 .. Workers - 1 :
              Offset(w) <= i /\ i < Offset(w) + Entries(w)
<1>1. PICK n \in Nat \ {0}, e \in Nat \ {0} : n = items /\ e = ExtentSize
  BY ExtentSizeType
<1>2. PICK q \in Nat, r \in Nat : /\ q = n \div e /\ r = n % e
                                  /\ n = q * e + r /\ r < e
  BY DivMod
<1>3. PICK W : W = Workers /\ W = q + (IF r # 0 THEN 1 ELSE 0)
  BY <1>1, <1>2 DEF Workers
<1>4. /\ W \in Nat \ {0} /\ n <= W * e /\ (W - 1) * e < n
      /\ W * e \in Nat /\ (W - 1) * e \in Nat
  <2>1. CASE r = 0
    <3>1. W = q /\ n = q * e /\ q * e \in Nat
      BY <1>2, <1>3, <2>1
    <3>2. q # 0
      BY <3>1
    <3>3. q - 1 \in Nat /\ (q - 1) * e = q * e - e
      BY <3>2
    <3> QED BY <3>1, <3>2, <3>3
  <2>2. CASE r # 0
    <3>1. W = q + 1 /\ q * e \in Nat /\ (q + 1) * e = q * e + e
      BY <1>3, <2>2
    <3> QED BY <1>2, <2>2, <3>1
  <2> QED BY <2>1, <2>2
<1>5. W <= n
  <2>1. W - 1 \in Nat /\ (W - 1) * 1 <= (W - 1) * e
    BY <1>4, Monotone
  <2> QED BY <1>4, <2>1
<1>6. ASSUME NEW w \in 0 .. W - 1
      PROVE  w * e \in Nat /\ w * e < n
  <2>1. w \in Nat /\ W - 1 \in Nat /\ w <= W - 1
    BY <1>4
  <2>2. w * e \in Nat /\ w * e <= (W - 1) * e
    BY <2>1, Monotone
  <2> QED BY <1>4, <2>2
<1>7. ASSUME NEW w \in 0 .. W - 1
      PROVE  /\ Offset(w) = w * e
             /\ Entries(w) = IF w * e + e > n THEN n - w * e ELSE e
  BY <1>1 DEF Offset, Entries
<1>8. ASSUME NEW w \in 0 .. W - 1
      PROVE  /\ Entries(w) \in 1 .. n /\ Offset(w) + Entries(w) <= n
             /\ Offset(w) \in Nat /\ Entries(w) <= e
  BY <1>6, <1>7
<1>9. ASSUME NEW v \in 0 .. W - 1, NEW w \in 0 .. W - 1, NEW i \in Nat,
             Offset(v) <= i, i < Offset(v) + Entries(v),
             Offset(w) <= i, i < Offset(w) + Entries(w)
      PROVE  v = w
  <2>1. v \in Nat /\ w \in Nat
    BY <1>4
  <2>2. /\ v * e <= i /\ i < v * e + e
        /\ w * e <= i /\ i < w * e + e
    BY <1>6, <1>7, <1>8, <1>9
  <2> QED BY <2>1, <2>2, Apart
<1>10. ASSUME NEW i \in 0 .. n - 1
       PROVE  \E w \in 0 .. W - 1 : Offset(w) <= i /\ i < Offset(w) + Entries(w)
  <2>1. PICK w \in Nat, m \in Nat : i = w * e + m /\ m < e
    <3>1. i \in Nat
      OBVIOUS
    <3>2. /\ i \div e \in Nat /\ i % e \in Nat /\ i % e < e
          /\ i = (i \div e) * e + (i % e)
      BY <3>1, DivMod
    <3> QED BY <3>2
  <2>2. w * e \in Nat /\ w * e <= i /\ i < w * e + e
    BY <2>1
  <2>3. w < W
    <3>1. SUFFICES ASSUME W <= w
                   PROVE  FALSE
      BY <1>4
    <3>2. W * e <= w * e
      BY <1>4, <3>1, Monotone
    <3> QED BY <1>4, <2>2, <3>2
  <2>4. w \in 0 .. W - 1
    BY <1>4, <2>3
  <2> QED BY <1>7, <2>2, <2>4
<1> QED BY <1>1, <1>3, <1>4, <1>5, <1>8, <1>9, <1>10
-----------------------------------------------------------------------------
(***************************************************************************)
(* Each step preserves the invariant.                                      *)
(***************************************************************************)
\* A worker that was started has an extent of its own.
LEMMA StartedFacts ==
  ASSUME ScatterInv, NEW w \in Ids, worker[w] # "none"
  PROVE  /\ items > 0 /\ w \in 0 .. Workers - 1 /\ w < spawned
         /\ Offset(w) \in Nat /\ Entries(w) \in Nat /\ at[w] \in Nat
         /\ at[w] <= Entries(w) /\ Offset(w) + Entries(w) <= items
         /\ Entries(w) <= MaxItems /\ items <= MaxItems
<1>1. w \in Nat /\ spawned \in Nat /\ items \in 0 .. MaxItems /\ MaxItems \in Nat
  BY ScatterAssumption DEF ScatterInv, TypeOK, Ids, CallerOK
<1>2. w < spawned
  BY <1>1 DEF ScatterInv, WorkerOK
<1>3. items > 0 /\ spawned <= Workers
  BY <1>1, <1>2 DEF ScatterInv, CallerOK
<1>4. Workers \in 1 .. items
  BY <1>3, Extents DEF ScatterInv
<1>5. w \in 0 .. Workers - 1
  BY <1>1, <1>2, <1>3, <1>4
<1>6. Entries(w) \in 1 .. items /\ Offset(w) + Entries(w) <= items
  BY <1>3, <1>5, Extents DEF ScatterInv
<1>7. Offset(w) \in Nat
  BY <1>1, ExtentSizeType DEF ScatterInv
<1>8. at[w] \in Nat /\ at[w] <= Entries(w)
  BY DEF ScatterInv, TypeOK, WorkerOK
<1> QED BY <1>1, <1>2, <1>3, <1>5, <1>6, <1>7, <1>8

\* Only a worker that was started has worked on anything.
LEMMA DoneFacts ==
  ASSUME ScatterInv, NEW w \in Ids, NEW i \in Nat, Done(w, i)
  PROVE  worker[w] # "none" /\ i < Offset(w) + Entries(w)
<1>1. worker[w] # "none"
  <2>1. SUFFICES ASSUME at[w] = 0
                 PROVE  FALSE
    BY DEF ScatterInv, WorkerOK
  <2>2. Offset(w) \in Nat
    BY ExtentSizeType DEF ScatterInv, Ids
  <2> QED BY <2>1, <2>2 DEF Done
<1> QED BY <1>1, StartedFacts DEF Done

\* No entry is the work of two workers.
LEMMA DoneByOne ==
  ASSUME ScatterInv, NEW v \in Ids, NEW w \in Ids, worker[w] # "none",
         NEW i \in Nat, Done(v, i), Offset(w) <= i, i < Offset(w) + Entries(w)
  PROVE  v = w
<1>1. worker[v] # "none" /\ i < Offset(v) + Entries(v) /\ Offset(v) <= i
  BY DoneFacts DEF Done
<1>2. v \in 0 .. Workers - 1 /\ w \in 0 .. Workers - 1 /\ items > 0
  BY <1>1, StartedFacts
<1> QED BY <1>1, <1>2, Extents DEF ScatterInv

\* When the caller has returned it has every answer.
LEMMA ReturnedFacts ==
  ASSUME ScatterInv, caller = "returned", items > 0
  PROVE  received = 0 .. Workers - 1 /\ spawned = Workers /\ Workers \in 1 .. items
<1>1. Cardinality(received) = Workers /\ spawned = Workers
  BY DEF ScatterInv, CallerOK, Collected
<1>2. Workers \in 1 .. items /\ items \in Nat
  BY Extents, ExtentSizeType DEF ScatterInv
<1>3. ASSUME NEW w \in received
      PROVE  w \in 0 .. Workers - 1
  <2>1. w \in Ids /\ worker[w] = "ended"
    BY DEF ScatterInv, TypeOK, AnswerOK
  <2> QED BY <2>1, StartedFacts
<1>4. /\ IsFiniteSet(0 .. Workers - 1)
      /\ Cardinality(0 .. Workers - 1) = Workers
  <2>1. Workers \in Int /\ Workers - 1 \in Int /\ ~(0 > Workers - 1)
    BY <1>2
  <2> QED BY <2>1, FS_Interval
<1> QED BY <1>1, <1>2, <1>3, <1>4, FS_Subset

\* The numbers of entries and processors stay, and the extents with them.
LEMMA SameExtents ==
  ASSUME UNCHANGED <<items, procs>>
  PROVE  /\ Workers' = Workers
         /\ \A w : Offset(w)' = Offset(w) /\ Entries(w)' = Entries(w)
BY DEF Workers, Offset, Entries, ExtentSize

LEMMA SameTouched ==
  ASSUME ScatterInv, UNCHANGED <<items, procs, at, touched>>
  PROVE  TouchedOK'
<1>1. \A w, i : Done(w, i)' <=> Done(w, i)
  BY SameExtents DEF Done
<1> QED BY <1>1 DEF ScatterInv, TouchedOK

LEMMA BeginStep ==
  ASSUME ScatterInv, Begin
  PROVE  ScatterInv'
<1>1. /\ caller = "called" /\ spawned = 0 /\ ~err
      /\ UNCHANGED <<items, procs, spawned, worker, at, touched, resultCh,
                     errorCh, received>>
      /\ \/ items = 0 /\ caller' = "returned" /\ err' = TRUE
         \/ items > 0 /\ caller' = "spawning" /\ err' = err
  BY DEF Begin, ScatterInv, CallerOK
<1>2. TypeOK'
  BY <1>1 DEF ScatterInv, TypeOK
<1>3. CallerOK'
  <2>1. items > 0 => Workers \in 1 .. items
    BY Extents DEF ScatterInv
  <2> QED BY <1>1, <2>1, SameExtents DEF ScatterInv, CallerOK
<1>4. TouchedOK'
  BY <1>1, SameTouched
<1>5. ErrorOK'
  BY <1>1, SameExtents DEF ScatterInv, ErrorOK, CallerOK
<1>6. \A w \in Ids : WorkerOK(w)' /\ AnswerOK(w)'
  BY <1>1, SameExtents DEF ScatterInv, WorkerOK, AnswerOK
<1> QED BY <1>2, <1>3, <1>4, <1>5, <1>6 DEF ScatterInv

LEMMA SpawnStep ==
  ASSUME ScatterInv, Spawn
  PROVE  ScatterInv'
<1>1. /\ caller = "spawning"
      /\ UNCHANGED <<items, procs, at, touched, resultCh, errorCh, received, err>>
  BY DEF Spawn
<1>2. /\ items > 0 /\ spawned \in Nat /\ Workers \in 1 .. items
      /\ items <= MaxItems /\ items \in Nat /\ MaxItems \in Nat
  <2>1. items > 0 /\ spawned \in Nat /\ items <= MaxItems /\ items \in Nat
        /\ MaxItems \in Nat
    BY <1>1, ScatterAssumption DEF ScatterInv, CallerOK, TypeOK
  <2> QED BY <2>1, Extents DEF ScatterInv
<1>3. TouchedOK'
  BY <1>1, SameTouched
<1>4. ErrorOK'
  BY <1>1, SameExtents DEF ScatterInv, ErrorOK
<1>5. CASE spawned = Workers /\ caller' = "collecting" /\ UNCHANGED <<spawned, worker>>
  <2>1. TypeOK' /\ CallerOK'
    BY <1>1, <1>2, <1>5, SameExtents DEF ScatterInv, TypeOK, CallerOK
  <2>2. \A w \in Ids : WorkerOK(w)' /\ AnswerOK(w)'
    BY <1>1, <1>5, SameExtents DEF ScatterInv, WorkerOK, AnswerOK
  <2> QED BY <1>3, <1>4, <2>1, <2>2 DEF ScatterInv
<1>6. CASE /\ spawned < Workers /\ spawned' = spawned + 1
           /\ worker' = [worker EXCEPT ![spawned] = "working"]
           /\ UNCHANGED caller
  <2>1. spawned \in Ids /\ Ids \subseteq Nat
    BY <1>2, <1>6 DEF Ids
  <2>2. TypeOK'
    BY <1>1, <1>2, <1>6, <2>1 DEF ScatterInv, TypeOK
  <2>3. CallerOK'
    BY <1>1, <1>2, <1>6, SameExtents DEF ScatterInv, CallerOK
  <2>4. worker[spawned] = "none" /\ at[spawned] = 0
    BY <1>2, <2>1 DEF ScatterInv, WorkerOK
  <2>5. 0 <= Entries(spawned)
    <3>1. spawned \in 0 .. Workers - 1
      BY <1>2, <1>6
    <3>2. Entries(spawned) \in 1 .. items
      BY <1>2, <3>1, Extents DEF ScatterInv
    <3> QED BY <1>2, <3>2
  <2>6. ASSUME NEW w \in Ids
        PROVE  WorkerOK(w)' /\ AnswerOK(w)'
    <3>1. w \in Nat /\ worker \in [Ids -> {"none", "working", "worked", "failed", "ended", "panic"}]
      BY <2>1 DEF ScatterInv, TypeOK
    <3>2. WorkerOK(w) /\ AnswerOK(w)
      BY DEF ScatterInv
    <3>3. CASE w = spawned
      <4>1. worker'[w] = "working"
        BY <1>6, <3>1, <3>3
      <4>2. WorkerOK(w)'
        BY <1>1, <1>2, <1>6, <2>4, <2>5, <3>3, <4>1, SameExtents DEF WorkerOK
      <4>3. AnswerOK(w)'
        BY <1>1, <2>4, <3>2, <3>3, <4>1, SameExtents DEF AnswerOK
      <4> QED BY <4>2, <4>3
    <3>4. CASE w # spawned
      <4>1. worker'[w] = worker[w]
        BY <1>6, <3>1, <3>4
      <4>2. w >= spawned <=> w >= spawned'
        BY <1>2, <1>6, <3>1, <3>4
      <4>3. WorkerOK(w)'
        BY <1>1, <3>2, <4>1, <4>2, SameExtents DEF WorkerOK
      <4>4. AnswerOK(w)'
        BY <1>1, <3>2, <4>1, SameExtents DEF AnswerOK
      <4> QED BY <4>3, <4>4
    <3> QED BY <3>3, <3>4
  <2> QED BY <1>3, <1>4, <2>2, <2>3, <2>6 DEF ScatterInv
<1> QED BY <1>5, <1>6 DEF Spawn

LEMMA WorkStep ==
  ASSUME ScatterInv, NEW w \in Ids, Work(w)
  PROVE  ScatterInv'
<1>1. /\ worker[w] = "working"
      /\ UNCHANGED <<items, procs, caller, spawned, resultCh, errorCh, received, err>>
  BY DEF Work
<1>2. /\ items > 0 /\ w \in 0 .. Workers - 1 /\ w < spawned
      /\ Offset(w) \in Nat /\ Entries(w) \in Nat /\ at[w] \in Nat
      /\ at[w] <= Entries(w) /\ Offset(w) + Entries(w) <= items
      /\ Entries(w) <= MaxItems /\ items <= MaxItems
      /\ items \in Nat /\ MaxItems \in Nat
  BY <1>1, StartedFacts, ExtentSizeType, ScatterAssumption DEF ScatterInv
<1>3. CallerOK'
  BY <1>1, SameExtents DEF ScatterInv, CallerOK, Collected
<1>4. w \notin resultCh /\ w \notin errorCh /\ w \notin received
  BY <1>1 DEF ScatterInv, AnswerOK
<1>5. CASE at[w] = Entries(w) /\ worker' = [worker EXCEPT ![w] = "worked"]
           /\ UNCHANGED <<at, touched>>
  <2>1. /\ worker'[w] = "worked" /\ \A v \in Ids : v # w => worker'[v] = worker[v]
        /\ worker' \in [Ids -> {"none", "working", "worked", "failed", "ended",
                                "panic"}]
    BY <1>5 DEF ScatterInv, TypeOK
  <2>2. TypeOK'
    BY <1>1, <1>5, <2>1 DEF ScatterInv, TypeOK
  <2>3. TouchedOK'
    BY <1>1, <1>5, SameTouched
  <2>4. ErrorOK'
    BY <1>1, <1>5, SameExtents DEF ScatterInv, ErrorOK
  <2>5. ASSUME NEW v \in Ids
        PROVE  WorkerOK(v)' /\ AnswerOK(v)'
    <3>1. WorkerOK(v) /\ AnswerOK(v)
      BY DEF ScatterInv
    <3>2. WorkerOK(v)'
      BY <1>1, <1>2, <1>5, <2>1, <3>1, SameExtents DEF WorkerOK
    <3>3. AnswerOK(v)'
      BY <1>1, <1>5, <2>1, <3>1, SameExtents DEF AnswerOK
    <3> QED BY <3>2, <3>3
  <2> QED BY <1>3, <2>2, <2>3, <2>4, <2>5 DEF ScatterInv
<1>6. CASE at[w] < Entries(w) /\ at' = [at EXCEPT ![w] = @ + 1]
           /\ touched' = [touched EXCEPT ![Offset(w) + at[w]] = @ + 1]
           /\ UNCHANGED worker
  <2>1. at'[w] = at[w] + 1 /\ \A v \in Ids : v # w => at'[v] = at[v]
    BY <1>6 DEF ScatterInv, TypeOK
  <2>2. PICK n \in Indices : n = Offset(w) + at[w] /\ n \in Nat
    BY <1>2, <1>6 DEF Indices
  <2>3. /\ touched \in [Indices -> Nat]
        /\ touched'[n] = touched[n] + 1
        /\ \A i \in Indices : i # n => touched'[i] = touched[i]
    BY <1>6, <2>2 DEF ScatterInv, TypeOK
  <2>4. TypeOK'
    <3>1. at' \in [Ids -> 0 .. MaxItems]
      BY <1>2, <1>6 DEF ScatterInv, TypeOK
    <3>2. touched' \in [Indices -> Nat]
      BY <1>6, <2>2, <2>3
    <3> QED BY <1>1, <1>6, <3>1, <3>2 DEF ScatterInv, TypeOK
  <2>5. ErrorOK'
    BY <1>1, <1>4, <2>1, SameExtents DEF ScatterInv, ErrorOK, TypeOK
  <2>6. ASSUME NEW v \in Ids
        PROVE  WorkerOK(v)' /\ AnswerOK(v)'
    <3>1. WorkerOK(v) /\ AnswerOK(v)
      BY DEF ScatterInv
    <3>2. WorkerOK(v)'
      <4>1. CASE v = w
        BY <1>1, <1>2, <1>6, <2>1, <3>1, <4>1, SameExtents DEF WorkerOK
      <4>2. CASE v # w
        BY <1>1, <1>6, <2>1, <3>1, <4>2, SameExtents DEF WorkerOK
      <4> QED BY <4>1, <4>2
    <3>3. AnswerOK(v)'
      BY <1>1, <1>4, <1>6, <2>1, <3>1, SameExtents DEF AnswerOK
    <3> QED BY <3>2, <3>3
  <2>7. ASSUME NEW v \in Ids, NEW i \in Indices
        PROVE  Done(v, i)' <=> Done(v, i) \/ (v = w /\ i = n)
    <3>1. i \in Nat
      BY DEF Indices
    <3>2. Offset(v)' = Offset(v)
      BY <1>1, SameExtents
    <3>3. CASE v = w
      BY <1>2, <2>1, <2>2, <3>1, <3>2, <3>3 DEF Done
    <3>4. CASE v # w
      BY <2>1, <3>2, <3>4 DEF Done
    <3> QED BY <3>3, <3>4
  <2>8. ~\E v \in Ids : Done(v, n)
    <3>1. SUFFICES ASSUME NEW v \in Ids, Done(v, n)
                   PROVE  FALSE
      OBVIOUS
    <3>2. Offset(w) <= n /\ n < Offset(w) + Entries(w)
      BY <1>2, <1>6, <2>2
    <3>3. v = w
      BY <1>1, <2>2, <3>1, <3>2, DoneByOne
    <3> QED BY <1>2, <2>2, <3>1, <3>3 DEF Done
  <2>9. TouchedOK'
    <3> SUFFICES ASSUME NEW i \in Indices
                 PROVE  touched'[i] = IF \E v \in Ids : Done(v, i)' THEN 1 ELSE 0
      BY DEF TouchedOK
    <3>1. touched[i] = IF \E v \in Ids : Done(v, i) THEN 1 ELSE 0
      BY DEF ScatterInv, TouchedOK
    <3>2. CASE i = n
      <4>1. touched'[i] = 1
        BY <2>3, <2>8, <3>1, <3>2
      <4>2. Done(w, i)'
        BY <2>7, <3>2
      <4> QED BY <4>1, <4>2
    <3>3. CASE i # n
      <4>1. (\E v \in Ids : Done(v, i)') <=> (\E v \in Ids : Done(v, i))
        BY <2>7, <3>3
      <4> QED BY <2>3, <3>1, <3>3, <4>1
    <3> QED BY <3>2, <3>3
  <2> QED BY <1>3, <2>4, <2>5, <2>6, <2>9 DEF ScatterInv
<1> QED BY <1>5, <1>6 DEF Work

LEMMA WorkFailsStep ==
  ASSUME ScatterInv, NEW w \in Ids, WorkFails(w)
  PROVE  ScatterInv'
<1>1. /\ worker[w] = "working" /\ at[w] < Entries(w)
      /\ worker' = [worker EXCEPT ![w] = "failed"]
      /\ UNCHANGED <<items, procs, caller, spawned, at, touched, resultCh,
                     errorCh, received, err>>
  BY DEF WorkFails
<1>2. /\ worker'[w] = "failed" /\ \A v \in Ids : v # w => worker'[v] = worker[v]
      /\ worker' \in [Ids -> {"none", "working", "worked", "failed", "ended",
                              "panic"}]
  BY <1>1 DEF ScatterInv, TypeOK
<1>3. TypeOK' /\ CallerOK'
  BY <1>1, <1>2, SameExtents DEF ScatterInv, TypeOK, CallerOK, Collected
<1>4. TouchedOK'
  BY <1>1, SameTouched
<1>5. ErrorOK'
  BY <1>1, SameExtents DEF ScatterInv, ErrorOK
<1>6. ASSUME NEW v \in Ids
      PROVE  WorkerOK(v)' /\ AnswerOK(v)'
  <2>1. WorkerOK(v) /\ AnswerOK(v)
    BY DEF ScatterInv
  <2>2. WorkerOK(v)'
    BY <1>1, <1>2, <2>1, SameExtents DEF WorkerOK
  <2>3. AnswerOK(v)'
    BY <1>1, <1>2, <2>1, SameExtents DEF AnswerOK
  <2> QED BY <2>2, <2>3
<1> QED BY <1>3, <1>4, <1>5, <1>6 DEF ScatterInv

LEMMA SendStep ==
  ASSUME ScatterInv, NEW w \in Ids, Send(w)
  PROVE  ScatterInv'
<1>1. /\ worker[w] \in {"worked", "failed"}
      /\ UNCHANGED <<items, procs, caller, spawned, at, touched, received, err>>
  BY DEF Send
<1>2. ~Closed
  <2>1. SUFFICES ASSUME caller = "returned"
                 PROVE  FALSE
    BY DEF Closed
  <2>2. items > 0 /\ w \in 0 .. Workers - 1
    BY <1>1, StartedFacts
  <2>3. w \in received
    BY <2>1, <2>2, ReturnedFacts
  <2> QED BY <1>1, <2>3 DEF ScatterInv, AnswerOK
<1>3. worker' = [worker EXCEPT ![w] = "ended"]
  BY <1>2 DEF Send
<1>4. /\ worker'[w] = "ended" /\ \A v \in Ids : v # w => worker'[v] = worker[v]
      /\ worker' \in [Ids -> {"none", "working", "worked", "failed", "ended",
                              "panic"}]
  BY <1>3 DEF ScatterInv, TypeOK
<1>5. \/ worker[w] = "worked" /\ resultCh' = resultCh \cup {w} /\ errorCh' = errorCh
      \/ worker[w] = "failed" /\ errorCh' = errorCh \cup {w} /\ resultCh' = resultCh
  BY DEF Send
<1>6. w \notin resultCh /\ w \notin errorCh /\ w \notin received
  BY <1>1 DEF ScatterInv, AnswerOK
<1>7. TypeOK' /\ CallerOK'
  <2>1. TypeOK'
    BY <1>1, <1>4, <1>5 DEF ScatterInv, TypeOK
  <2>2. CallerOK'
    BY <1>1, SameExtents DEF ScatterInv, CallerOK, Collected
  <2> QED BY <2>1, <2>2
<1>8. TouchedOK'
  BY <1>1, SameTouched
<1>9. ErrorOK'
  BY <1>1, SameExtents DEF ScatterInv, ErrorOK
<1>10. ASSUME NEW v \in Ids
       PROVE  WorkerOK(v)' /\ AnswerOK(v)'
  <2>1. WorkerOK(v) /\ AnswerOK(v) /\ WorkerOK(w)
    BY DEF ScatterInv
  <2>2. WorkerOK(v)'
    BY <1>1, <1>4, <2>1, SameExtents DEF WorkerOK
  <2>3. AnswerOK(v)'
    <3>1. CASE v = w
      BY <1>1, <1>4, <1>5, <1>6, <2>1, <3>1, SameExtents DEF AnswerOK, WorkerOK
    <3>2. CASE v # w
      BY <1>1, <1>4, <1>5, <2>1, <3>2, SameExtents DEF AnswerOK
    <3> QED BY <3>1, <3>2
  <2> QED BY <2>2, <2>3
<1> QED BY <1>7, <1>8, <1>9, <1>10 DEF ScatterInv

LEMMA CollectStep ==
  ASSUME ScatterInv, Collect
  PROVE  ScatterInv'
<1>1. /\ caller = "collecting"
      /\ UNCHANGED <<items, procs, spawned, worker, at, touched>>
  BY DEF Collect
<1>2. TouchedOK' /\ items \in Nat /\ items > 0
  BY <1>1, SameTouched, ExtentSizeType DEF ScatterInv, CallerOK
<1>3. CASE /\ Collected /\ caller' = "returned"
           /\ UNCHANGED <<resultCh, errorCh, received, err>>
  <2>1. TypeOK' /\ CallerOK'
    BY <1>1, <1>2, <1>3, SameExtents DEF ScatterInv, TypeOK, CallerOK, Collected
  <2>2. ErrorOK'
    BY <1>1, <1>3, SameExtents DEF ScatterInv, ErrorOK
  <2>3. \A v \in Ids : WorkerOK(v)' /\ AnswerOK(v)'
    BY <1>1, <1>3, SameExtents DEF ScatterInv, WorkerOK, AnswerOK
  <2> QED BY <1>2, <2>1, <2>2, <2>3 DEF ScatterInv
<1>4. ASSUME NEW w \in Ids,
             \/ w \in resultCh /\ ReceiveResult(w)
             \/ w \in errorCh /\ ReceiveError(w),
             received' = received \cup {w}, UNCHANGED caller
      PROVE  ScatterInv'
  <2>1. \/ /\ w \in resultCh /\ at[w] = Entries(w)
           /\ resultCh' = resultCh \ {w} /\ errorCh' = errorCh /\ err' = err
        \/ /\ w \in errorCh /\ at[w] < Entries(w)
           /\ errorCh' = errorCh \ {w} /\ resultCh' = resultCh /\ err' = TRUE
    BY <1>4 DEF ReceiveResult, ReceiveError, ScatterInv, AnswerOK
  <2>2. TypeOK'
    BY <1>1, <1>4, <2>1 DEF ScatterInv, TypeOK
  <2>3. CallerOK'
    BY <1>1, <1>2, <1>4, SameExtents DEF ScatterInv, CallerOK
  <2>4. ErrorOK'
    <3>1. err <=> \E v \in received : at[v] < Entries(v)
      BY <1>2 DEF ScatterInv, ErrorOK
    <3>2. at[w] \in Nat /\ Entries(w) \in Nat
      <4>1. worker[w] = "ended"
        BY <1>4 DEF ScatterInv, AnswerOK
      <4> QED BY <4>1, StartedFacts
    <3>3. err' <=> \E v \in received' : at[v] < Entries(v)
      BY <1>4, <2>1, <3>1, <3>2 DEF ScatterInv, TypeOK
    <3> QED BY <1>1, <3>3, SameExtents DEF ErrorOK
  <2>5. ASSUME NEW v \in Ids
        PROVE  WorkerOK(v)' /\ AnswerOK(v)'
    <3>1. WorkerOK(v) /\ AnswerOK(v)
      BY DEF ScatterInv
    <3>2. WorkerOK(v)'
      BY <1>1, <3>1, SameExtents DEF WorkerOK
    <3>3. AnswerOK(v)'
      BY <1>1, <1>4, <2>1, <3>1, SameExtents DEF AnswerOK
    <3> QED BY <3>2, <3>3
  <2> QED BY <1>2, <2>2, <2>3, <2>4, <2>5 DEF ScatterInv
<1> QED BY <1>3, <1>4 DEF Collect
-----------------------------------------------------------------------------
(***************************************************************************)
(* The theorems.                                                           *)
(***************************************************************************)
LEMMA ScatterInit == Init => ScatterInv
<1> SUFFICES ASSUME Init
             PROVE  ScatterInv
  OBVIOUS
<1>1. TypeOK
  <2>1. err \in BOOLEAN /\ resultCh \cup errorCh \cup received \subseteq Ids
    BY DEF Init
  <2>2. 0 \in 0 .. MaxItems
    BY ScatterAssumption
  <2>3. /\ worker \in [Ids -> {"none", "working", "worked", "failed", "ended",
                              "panic"}]
        /\ at \in [Ids -> 0 .. MaxItems]
        /\ touched \in [Indices -> Nat]
    BY <2>2 DEF Init
  <2> QED BY <2>1, <2>2, <2>3 DEF Init, TypeOK
<1>2. CallerOK
  <2>1. items > 0 => Workers \in Nat
    <3>1. SUFFICES ASSUME items > 0
                   PROVE  Workers \in Nat
      OBVIOUS
    <3>2. items \in Nat /\ procs \in Nat \ {0}
      BY ScatterAssumption DEF Init
    <3>3. items \div procs \in Nat
      BY <3>2, DivMod
    <3>4. items \div procs # 0 =>
            items % (items \div procs) > 0 \/ items % (items \div procs) = 0
      BY <3>2, <3>3, DivMod
    <3>5. ExtentSize \in Nat \ {0}
      BY <3>3, <3>4 DEF ExtentSize, CalculateExtentSize
    <3> HIDE DEF ExtentSize
    <3>6. items \div ExtentSize \in Nat
      BY <3>2, <3>5, DivMod
    <3> QED BY <3>6 DEF Workers
  <2> QED BY <2>1 DEF Init, CallerOK
<1>3. ErrorOK
  BY DEF Init, ErrorOK
<1>4. TouchedOK
  <2>1. ASSUME NEW w \in Ids, NEW i \in Indices
        PROVE  ~Done(w, i)
    <3>1. at[w] = 0 /\ w \in Nat /\ i \in Nat
      BY DEF Init, Ids, Indices
    <3>2. Offset(w) \in Nat
      BY <1>2, <3>1, ExtentSizeType
    <3> QED BY <3>1, <3>2 DEF Done
  <2> QED BY <2>1 DEF Init, TouchedOK
<1>5. \A w \in Ids : WorkerOK(w) /\ AnswerOK(w)
  BY DEF Init, WorkerOK, AnswerOK, Ids
<1> QED BY <1>1, <1>2, <1>3, <1>4, <1>5 DEF ScatterInv

LEMMA ScatterNext == ScatterInv /\ [Next]_vars => ScatterInv'
<1> SUFFICES ASSUME ScatterInv, [Next]_vars
             PROVE  ScatterInv'
  OBVIOUS
<1>1. CASE Begin
  BY <1>1, BeginStep
<1>2. CASE Spawn
  BY <1>2, SpawnStep
<1>3. CASE Collect
  BY <1>3, CollectStep
<1>4. ASSUME NEW w \in Ids, Work(w)
      PROVE  ScatterInv'
  BY <1>4, WorkStep
<1>5. ASSUME NEW w \in Ids, WorkFails(w)
      PROVE  ScatterInv'
  BY <1>5, WorkFailsStep
<1>6. ASSUME NEW w \in Ids, Send(w)
      PROVE  ScatterInv'
  BY <1>6, SendStep
<1>7. CASE UNCHANGED vars
  <2>1. UNCHANGED <<items, procs, caller, spawned, worker, at, touched, resultCh,
                    errorCh, received, err>>
    BY <1>7 DEF vars
  <2>2. TypeOK' /\ CallerOK' /\ ErrorOK'
    BY <2>1, SameExtents DEF ScatterInv, TypeOK, CallerOK, ErrorOK, Collected
  <2>3. TouchedOK'
    BY <2>1, SameTouched
  <2>4. \A w \in Ids : WorkerOK(w)' /\ AnswerOK(w)'
    BY <2>1, SameExtents DEF ScatterInv, WorkerOK, AnswerOK
  <2> QED BY <2>2, <2>3, <2>4 DEF ScatterInv
<1> QED BY <1>1, <1>2, <1>3, <1>4, <1>5, <1>6, <1>7 DEF Next, Caller

\* The inductive invariant holds in every reachable state.
THEOREM ScatterInvariant == Spec => []ScatterInv
BY ScatterInit, ScatterNext, PTL DEF Spec

\* Every variable has its type: there are never more workers than entries.
THEOREM TypeCorrect == Spec => []TypeOK
<1>1. ScatterInv => TypeOK
  BY DEF ScatterInv
<1> QED BY <1>1, ScatterInvariant, PTL

\* When Scatter returns, every worker has ended and its answer was received:
\* no goroutine sends on a closed channel, whatever the errors.
THEOREM NobodyLeft == Spec => []NobodyIsLeft
<1>1. ScatterInv => NobodyIsLeft
  <2> SUFFICES ASSUME ScatterInv, caller = "returned"
               PROVE  /\ resultCh = {} /\ errorCh = {}
                      /\ \A w \in Ids : worker[w] \in {"none", "ended"}
    BY DEF NobodyIsLeft
  <2>1. ASSUME NEW w \in Ids, worker[w] # "none"
        PROVE  w \in received
    <3>1. items > 0 /\ w \in 0 .. Workers - 1
      BY <2>1, StartedFacts
    <3> QED BY <3>1, ReturnedFacts
  <2>2. ASSUME NEW w \in Ids
        PROVE  w \notin resultCh /\ w \notin errorCh
    BY <2>1, <2>2 DEF ScatterInv, AnswerOK
  <2>3. \A w \in Ids : worker[w] \in {"none", "ended"}
    BY <2>1 DEF ScatterInv, AnswerOK
  <2> QED BY <2>2, <2>3 DEF ScatterInv, TypeOK
<1> QED BY <1>1, ScatterInvariant, PTL

\* An entry of the batch is the work of one worker, which has touched it or
\* has given up before it.
LEMMA TouchedFacts ==
  ASSUME ScatterInv, caller = "returned", NEW i \in 0 .. items - 1
  PROVE  /\ items > 0 /\ touched[i] \in {0, 1}
         /\ \E w \in received : /\ Offset(w) <= i /\ i < Offset(w) + Entries(w)
                                /\ touched[i] = 1 <=> i < Offset(w) + at[w]
<1>1. items \in Nat /\ items > 0 /\ i \in Nat /\ i \in Indices
  BY ExtentSizeType, ScatterAssumption DEF ScatterInv, CallerOK, Indices
<1>2. touched[i] = IF \E w \in Ids : Done(w, i) THEN 1 ELSE 0
  BY <1>1 DEF ScatterInv, TouchedOK
<1>3. PICK w \in 0 .. Workers - 1 : Offset(w) <= i /\ i < Offset(w) + Entries(w)
  BY <1>1, Extents DEF ScatterInv
<1>4. w \in received /\ w \in Ids /\ worker[w] = "ended"
  BY <1>1, <1>3, ReturnedFacts DEF ScatterInv, TypeOK, AnswerOK
<1>5. (\E v \in Ids : Done(v, i)) <=> Done(w, i)
  BY <1>1, <1>3, <1>4, DoneByOne
<1> QED BY <1>1, <1>2, <1>3, <1>4, <1>5 DEF Done

\* No entry is touched twice or beyond the batch, and none is left out when
\* Scatter returns without an error: for every number of entries and of
\* processors.
THEOREM EntriesOnce == Spec => []EveryEntryOnce
<1>1. ScatterInv => EveryEntryOnce
  <2> SUFFICES ASSUME ScatterInv
               PROVE  EveryEntryOnce
    OBVIOUS
  <2>1. ASSUME NEW i \in Indices
        PROVE  touched[i] <= IF i < items THEN 1 ELSE 0
    <3>1. touched[i] = IF \E w \in Ids : Done(w, i) THEN 1 ELSE 0
      BY DEF ScatterInv, TouchedOK
    <3>2. i \in Nat /\ items \in Nat
      BY ExtentSizeType DEF ScatterInv, Indices
    <3>3. ASSUME NEW w \in Ids, Done(w, i)
          PROVE  i < items
      <4>1. worker[w] # "none" /\ i < Offset(w) + Entries(w)
        BY <3>2, <3>3, DoneFacts
      <4> QED BY <3>2, <4>1, StartedFacts
    <3> QED BY <3>1, <3>2, <3>3
  <2>2. ASSUME caller = "returned", ~err, NEW i \in 0 .. items - 1
        PROVE  touched[i] = 1
    <3>1. PICK w \in received : /\ i < Offset(w) + Entries(w)
                                /\ touched[i] = 1 <=> i < Offset(w) + at[w]
      BY <2>2, TouchedFacts
    <3>2. items > 0 /\ w \in Ids /\ worker[w] # "none"
      BY <2>2, TouchedFacts DEF ScatterInv, TypeOK, AnswerOK
    <3>3. ~(at[w] < Entries(w))
      BY <2>2, <3>2 DEF ScatterInv, ErrorOK
    <3>4. at[w] = Entries(w)
      BY <3>2, <3>3, StartedFacts
    <3> QED BY <3>1, <3>4
  <2> QED BY <2>1, <2>2 DEF EveryEntryOnce
<1> QED BY <1>1, ScatterInvariant, PTL

\* Scatter returns an error exactly when the batch is empty or an extent was
\* not worked through.
THEOREM ErrorsReported == Spec => []ErrorsAreReported
<1>1. ScatterInv => ErrorsAreReported
  <2> SUFFICES ASSUME ScatterInv, caller = "returned"
               PROVE  err <=> items = 0 \/ \E i \in 0 .. items - 1 : touched[i] = 0
    BY DEF ErrorsAreReported
  <2>1. CASE items = 0
    BY <2>1 DEF ScatterInv, CallerOK
  <2>2. CASE items # 0
    <3>1. items \in Nat /\ items > 0
      BY <2>2, ExtentSizeType DEF ScatterInv
    <3>2. err <=> \E w \in received : at[w] < Entries(w)
      BY <3>1 DEF ScatterInv, ErrorOK
    <3>3. ASSUME NEW w \in received, at[w] < Entries(w)
          PROVE  \E i \in 0 .. items - 1 : touched[i] = 0
      <4>1. w \in Ids /\ worker[w] # "none"
        BY DEF ScatterInv, TypeOK, AnswerOK
      <4>2. /\ Offset(w) \in Nat /\ Entries(w) \in Nat /\ at[w] \in Nat
            /\ Offset(w) + Entries(w) <= items /\ items <= MaxItems
        BY <4>1, StartedFacts
      <4>3. PICK i \in 0 .. items - 1 : i = Offset(w) + at[w]
        BY <3>1, <3>3, <4>2
      <4>4. i \in Nat /\ i \in Indices
        BY <3>1, <4>2, ScatterAssumption DEF Indices
      <4>5. ~\E v \in Ids : Done(v, i)
        <5>1. SUFFICES ASSUME NEW v \in Ids, Done(v, i)
                       PROVE  FALSE
          OBVIOUS
        <5>2. v = w
          BY <3>3, <4>1, <4>2, <4>3, <4>4, <5>1, DoneByOne
        <5> QED BY <4>2, <4>3, <5>1, <5>2 DEF Done
      <4> QED BY <4>4, <4>5 DEF ScatterInv, TouchedOK
    <3>4. ASSUME NEW i \in 0 .. items - 1, touched[i] = 0
          PROVE  \E w \in received : at[w] < Entries(w)
      <4>1. PICK w \in received : /\ i < Offset(w) + Entries(w)
                                  /\ touched[i] = 1 <=> i < Offset(w) + at[w]
        BY TouchedFacts
      <4>2. w \in Ids /\ worker[w] # "none"
        BY DEF ScatterInv, TypeOK, AnswerOK
      <4> QED BY <3>1, <3>4, <4>1, <4>2, StartedFacts
    <3> QED BY <2>2, <3>2, <3>3, <3>4
  <2> QED BY <2>1, <2>2
<1> QED BY <1>1, ScatterInvariant, PTL
=============================================================================
