------------------------ MODULE KeyGenerationProofs ------------------------
(***************************************************************************)
(* Proofs about KeyGeneration, for any servers, accounts, requests and     *)
(* numbers of runs, connections and faults.                                *)
(***************************************************************************)
EXTENDS KeyGeneration, TLAPS

\* The records that a run goes through.
Driving ==
  [phase : {"prepare", "execute", "executing", "commit"}, home : Servers,
   account : Accounts, threshold : Thresholds, participants : Seq(Servers),
   next : Nat, held : SUBSET Servers]

Committing(P) ==
  [phase : {"committing"}, account : Accounts, home : Servers,
   threshold : Thresholds, participants : Seq(Servers), held : SUBSET Servers,
   replies : [P -> {None} \cup SUBSET Polynomials]]

Finished ==
  [phase : {"done"}, account : Accounts, threshold : Thresholds,
   participants : SUBSET Servers, pubKey : {None} \cup SUBSET Polynomials]

RunOK(run) ==
  /\ run.phase \in {"new", "prepare", "execute", "executing", "commit",
                    "committing", "done", "failed"}
  /\ run.phase \in {"prepare", "execute", "executing", "commit"} =>
       /\ run \in Driving
       /\ run.next \in 1 .. Len(run.participants)
       /\ run.threshold \in 1 .. Len(run.participants)
  /\ run.phase = "committing" =>
       /\ run \in Committing(Range(run.participants))
       /\ run.threshold \in 1 .. Len(run.participants)
  /\ run.phase = "done" =>
       /\ run \in Finished
       /\ \A f \in run.pubKey : f.threshold <= run.threshold

RunsOK == DOMAIN runs = Runs /\ \A r \in Runs : RunOK(runs[r])

\* A generation holds its server's own contribution.
GenerationOK(p, g) ==
  g # None => /\ g \in GenerationRecords(DOMAIN g.from)
              /\ DOMAIN g.from \subseteq Servers
              /\ p \in g.participants
              /\ p \in DOMAIN g.from /\ g.from[p] = g.own /\ g.own.owner = p

GenerationsOK ==
  /\ DOMAIN generations = Servers
  /\ \A p \in Servers : DOMAIN generations[p] = Accounts
  /\ \A p \in Servers, a \in Accounts : GenerationOK(p, generations[p][a])

\* An OnExecute has its generation for as long as it holds the mutex.
ExecutionOK(p, x) ==
  x # None =>
    /\ x = [run |-> x.run, account |-> x.account, todo |-> x.todo, to |-> x.to]
    /\ x.run \in Runs /\ x.account \in Accounts /\ x.todo \subseteq Servers
    /\ x.to \in x.todo \cup {None}
    /\ generations[p][x.account] # None

ExecutingOK ==
  /\ DOMAIN executing = Servers
  /\ \A p \in Servers : ExecutionOK(p, executing[p])

\* A share includes its server's own contribution.
ShareOK(p, s) == s # None => s \in ShareRecords /\ \E f \in s.polys : f.owner = p

StoredOK ==
  /\ DOMAIN stored = Servers
  /\ \A p \in Servers : DOMAIN stored[p] = Accounts
  /\ \A p \in Servers, a \in Accounts : ShareOK(p, stored[p][a])

\* Has the run got a public key from p, and which?
GotKey(run, p) ==
  \/ /\ run.phase = "committing"
     /\ p \in DOMAIN run.replies /\ run.replies[p] \notin {None, {}}
  \/ run.phase = "done" /\ p \in run.participants

KeyFrom(run, p) == IF run.phase = "done" THEN run.pubKey ELSE run.replies[p]

\* What a server has answered is what it has stored, and it has answered one
\* run only.
KeysOK ==
  \A r \in Runs, p \in Servers : GotKey(runs[r], p) =>
    /\ stored[p][runs[r].account] # None
    /\ stored[p][runs[r].account].polys = KeyFrom(runs[r], p)
    /\ \A s \in Runs : s # r /\ GotKey(runs[s], p) =>
                         runs[s].account # runs[r].account

\* The inductive invariant.
KeyGenerationInv ==
  GenerationsOK /\ ExecutingOK /\ StoredOK /\ RunsOK /\ KeysOK
-----------------------------------------------------------------------------
(***************************************************************************)
(* One run moves on.                                                       *)
(***************************************************************************)
RunTo(r, new) ==
  /\ DOMAIN runs' = Runs /\ runs'[r] = new
  /\ \A s \in Runs : s # r => runs'[s] = runs[s]

\* A run that has no new key from anyone.
LEMMA RunMoved ==
  ASSUME RunsOK, KeysOK, NEW r \in Runs, NEW new, RunOK(new), RunTo(r, new),
         UNCHANGED stored,
         \A p \in Servers : GotKey(new, p) =>
           /\ GotKey(runs[r], p) /\ new.account = runs[r].account
           /\ KeyFrom(new, p) = KeyFrom(runs[r], p)
  PROVE  RunsOK' /\ KeysOK'
<1>1. \A s \in Runs : /\ s = r => runs'[s] = new
                      /\ s # r => runs'[s] = runs[s]
  BY DEF RunTo
<1>2. RunsOK'
  BY <1>1 DEF RunsOK, RunTo
<1>3. ASSUME NEW s \in Runs, NEW p \in Servers, GotKey(runs'[s], p)
      PROVE  /\ GotKey(runs[s], p) /\ runs'[s].account = runs[s].account
             /\ KeyFrom(runs'[s], p) = KeyFrom(runs[s], p)
  BY <1>1, <1>3
<1>4. KeysOK'
  <2> SUFFICES ASSUME NEW s \in Runs, NEW p \in Servers, GotKey(runs'[s], p)
               PROVE  /\ stored[p][runs'[s].account] # None
                      /\ stored[p][runs'[s].account].polys = KeyFrom(runs'[s], p)
                      /\ \A t \in Runs : t # s /\ GotKey(runs'[t], p) =>
                                           runs'[t].account # runs'[s].account
    BY DEF KeysOK, GotKey, KeyFrom
  <2> QED BY <1>3 DEF KeysOK
<1> QED BY <1>2, <1>4

LEMMA FailStep ==
  ASSUME RunsOK, KeysOK, NEW r \in Runs, Fail(r), UNCHANGED stored
  PROVE  RunsOK' /\ KeysOK'
<1> DEFINE new == [phase |-> "failed"]
<1>1. RunTo(r, new)
  BY DEF Fail, RunsOK, RunTo
<1>2. new.phase = "failed"
  OBVIOUS
<1> HIDE DEF new
<1>3. RunOK(new) /\ \A p \in Servers : ~GotKey(new, p)
  BY <1>2 DEF RunOK, GotKey
<1> QED BY <1>1, <1>3, RunMoved

IsDriving(run) == run.phase \in {"prepare", "execute", "executing", "commit"}

LEMMA DrivingFacts ==
  ASSUME NEW run, RunOK(run), IsDriving(run)
  PROVE  /\ run = [phase |-> run.phase, home |-> run.home,
                   account |-> run.account, threshold |-> run.threshold,
                   participants |-> run.participants, next |-> run.next,
                   held |-> run.held]
         /\ run \in Driving
         /\ run.home \in Servers /\ run.account \in Accounts
         /\ run.threshold \in Thresholds /\ run.participants \in Seq(Servers)
         /\ run.next \in Nat /\ run.held \in SUBSET Servers
         /\ run.next \in 1 .. Len(run.participants)
         /\ run.threshold \in 1 .. Len(run.participants)
         /\ Len(run.participants) \in Nat
         /\ run.participants[run.next] \in Servers
         /\ run.participants[run.next] \in Range(run.participants)
         /\ Range(run.participants) \subseteq Servers
         /\ \A p \in Servers : ~GotKey(run, p)
<1>1. /\ run \in Driving
      /\ run.next \in 1 .. Len(run.participants)
      /\ run.threshold \in 1 .. Len(run.participants)
  BY DEF RunOK, IsDriving
<1>2. run.participants \in Seq(Servers)
  BY <1>1 DEF Driving
<1>3. /\ Len(run.participants) \in Nat
      /\ DOMAIN run.participants = 1 .. Len(run.participants)
      /\ \A i \in 1 .. Len(run.participants) : run.participants[i] \in Servers
  BY <1>2
<1>4. /\ run.participants[run.next] \in Range(run.participants)
      /\ Range(run.participants) \subseteq Servers
  BY <1>1, <1>3 DEF Range
<1>5. \A p \in Servers : ~GotKey(run, p)
  BY DEF IsDriving, GotKey
<1> QED BY <1>1, <1>2, <1>3, <1>4, <1>5 DEF Driving

\* From one place of the drive to another.
LEMMA DriveStep ==
  ASSUME RunsOK, KeysOK, NEW r \in Runs, UNCHANGED stored, NEW new,
         RunTo(r, new), new \in Driving,
         new.next \in 1 .. Len(new.participants),
         new.threshold \in 1 .. Len(new.participants)
  PROVE  RunsOK' /\ KeysOK'
<1>1. IsDriving(new) /\ new.phase \in {"prepare", "execute", "executing", "commit"}
  BY DEF IsDriving, Driving
<1>2. RunOK(new)
  BY <1>1 DEF RunOK
<1>3. \A p \in Servers : ~GotKey(new, p)
  BY <1>1 DEF GotKey
<1> QED BY <1>2, <1>3, RunMoved

LEMMA AdvanceStep ==
  ASSUME RunsOK, KeysOK, NEW r \in Runs, UNCHANGED stored,
         runs[r].phase \in {"prepare", "executing"},
         NEW phase \in {"execute", "commit"}, runs' = Advance(r, phase)
  PROVE  RunsOK' /\ KeysOK'
<1> DEFINE run == runs[r]
           more == run.next < Len(run.participants)
           new == [phase |-> IF more THEN IF run.phase = "executing" THEN "execute"
                                          ELSE run.phase
                             ELSE phase,
                   home |-> run.home, account |-> run.account,
                   threshold |-> run.threshold,
                   participants |-> run.participants,
                   next |-> IF more THEN run.next + 1 ELSE 1, held |-> {}]
<1>1. RunOK(run) /\ IsDriving(run) /\ DOMAIN runs = Runs
  BY DEF RunsOK, IsDriving
<1>2. /\ run = [phase |-> run.phase, home |-> run.home,
                account |-> run.account, threshold |-> run.threshold,
                participants |-> run.participants, next |-> run.next,
                held |-> run.held]
      /\ run.home \in Servers /\ run.account \in Accounts
      /\ run.threshold \in Thresholds /\ run.participants \in Seq(Servers)
      /\ run.next \in 1 .. Len(run.participants)
      /\ run.threshold \in 1 .. Len(run.participants)
      /\ Len(run.participants) \in Nat
  BY <1>1, DrivingFacts
<1>3. RunTo(r, new)
  <2>1. CASE more
    <3>1. runs' = [runs EXCEPT ![r].next = @ + 1, ![r].held = {}, ![r].phase =
                     IF @ = "executing" THEN "execute" ELSE @]
      BY <2>1 DEF Advance
    <3>2. DOMAIN runs' = Runs /\ \A s \in Runs : s # r => runs'[s] = runs[s]
      BY <1>1, <3>1
    <3>3. CASE run.phase = "executing"
      <4>1. runs'[r] = [phase |-> "execute", home |-> run.home,
                        account |-> run.account, threshold |-> run.threshold,
                        participants |-> run.participants,
                        next |-> run.next + 1, held |-> {}]
        BY <1>1, <1>2, <3>1, <3>3
      <4>2. runs'[r] = new
        BY <2>1, <3>3, <4>1
      <4> QED BY <3>2, <4>2 DEF RunTo
    <3>4. CASE run.phase # "executing"
      <4>1. runs'[r] = [phase |-> run.phase, home |-> run.home,
                        account |-> run.account, threshold |-> run.threshold,
                        participants |-> run.participants,
                        next |-> run.next + 1, held |-> {}]
        BY <1>1, <1>2, <3>1, <3>4
      <4>2. runs'[r] = new
        BY <2>1, <3>4, <4>1
      <4> QED BY <3>2, <4>2 DEF RunTo
    <3> QED BY <3>3, <3>4
  <2>2. CASE ~more
    <3>1. runs' = [runs EXCEPT ![r].next = 1, ![r].held = {}, ![r].phase = phase]
      BY <2>2 DEF Advance
    <3> QED BY <1>1, <1>2, <2>2, <3>1 DEF RunTo
  <2> QED BY <2>1, <2>2
<1>4. new \in Driving
  BY <1>2 DEF Driving
<1>5. /\ new.next \in 1 .. Len(new.participants)
      /\ new.threshold \in 1 .. Len(new.participants)
  BY <1>2
<1> HIDE DEF new
<1> QED BY <1>3, <1>4, <1>5, DriveStep
-----------------------------------------------------------------------------
(***************************************************************************)
(* One generation changes, and executions end.                             *)
(***************************************************************************)
GenTo(q, a, new) ==
  /\ DOMAIN generations' = Servers
  /\ \A x \in Servers : DOMAIN generations'[x] = Accounts
  /\ generations'[q][a] = new
  /\ \A x \in Servers, b \in Accounts :
       x # q \/ b # a => generations'[x][b] = generations[x][b]

LEMMA GenerationMoved ==
  ASSUME GenerationsOK, NEW q \in Servers, NEW a \in Accounts, NEW new,
         GenTo(q, a, new), GenerationOK(q, new)
  PROVE  GenerationsOK'
<1> SUFFICES ASSUME NEW x \in Servers, NEW b \in Accounts
             PROVE  GenerationOK(x, generations'[x][b])
  BY DEF GenerationsOK, GenTo, GenerationOK
<1>1. CASE x = q /\ b = a
  BY <1>1 DEF GenTo
<1>2. CASE ~(x = q /\ b = a)
  BY <1>2 DEF GenTo, GenerationsOK
<1> QED BY <1>1, <1>2

\* A record with the fields of a generation is one, and is not None.
LEMMA GenerationRecord ==
  ASSUME NEW p \in Servers, NEW P \in SUBSET Servers, NEW g,
         g \in GenerationRecords(P), p \in g.participants, p \in P,
         g.from[p] = g.own, g.own.owner = p
  PROVE  GenerationOK(p, g) /\ g # None
<1>1. DOMAIN g.from = P
  BY DEF GenerationRecords
<1>2. g # None
  BY KeyGenerationAssumption
<1> QED BY <1>1, <1>2 DEF GenerationOK

\* Executions that go on keep their generations.
LEMMA ExecutingKept ==
  ASSUME ExecutingOK, DOMAIN executing' = Servers,
         \A x \in Servers : executing'[x] # None =>
           /\ executing'[x] = executing[x]
           /\ \A b \in Accounts :
                generations[x][b] # None => generations'[x][b] # None
  PROVE  ExecutingOK'
<1> SUFFICES ASSUME NEW x \in Servers, executing'[x] # None
             PROVE  ExecutionOK(x, executing[x])'
  BY DEF ExecutingOK, ExecutionOK
<1>1. executing'[x] = executing[x] /\ ExecutionOK(x, executing[x])
  BY DEF ExecutingOK
<1> QED BY <1>1 DEF ExecutionOK

LEMMA StoredKept ==
  ASSUME StoredOK, UNCHANGED stored
  PROVE  StoredOK'
BY DEF StoredOK, ShareOK

LEMMA GenerationsKept ==
  ASSUME GenerationsOK, UNCHANGED generations
  PROVE  GenerationsOK'
BY DEF GenerationsOK, GenerationOK

\* Only runs have changed.
LEMMA RestKept ==
  ASSUME KeyGenerationInv, UNCHANGED <<generations, executing, stored>>,
         RunsOK', KeysOK'
  PROVE  KeyGenerationInv'
<1>1. ExecutingOK'
  BY ExecutingKept DEF KeyGenerationInv, ExecutingOK
<1> QED BY <1>1, StoredKept, GenerationsKept DEF KeyGenerationInv
-----------------------------------------------------------------------------
(***************************************************************************)
(* OnGenerate and the prepare phase.                                       *)
(***************************************************************************)
LEMMA OnGenerateStep ==
  ASSUME KeyGenerationInv, NEW r \in Runs, OnGenerate(r)
  PROVE  KeyGenerationInv'
<1>1. UNCHANGED <<generations, executing, stored>> /\ RunsOK /\ KeysOK
  BY DEF OnGenerate, KeyGenerationInv
<1>2. CASE Fail(r)
  BY <1>1, <1>2, FailStep, RestKept
<1>3. ASSUME NEW q \in Requests, Acceptable(q), NEW s \in Suitable(q.n),
             runs' = [runs EXCEPT ![r] =
                 [phase |-> "prepare", home |-> q.home, account |-> q.account,
                  threshold |-> q.threshold, participants |-> s, next |-> 1,
                  held |-> {}]]
      PROVE  KeyGenerationInv'
  <2> DEFINE new == [phase |-> "prepare", home |-> q.home, account |-> q.account,
                     threshold |-> q.threshold, participants |-> s, next |-> 1,
                     held |-> {}]
  <2>1. /\ q.home \in Servers /\ q.account \in Accounts /\ q.threshold \in Nat
        /\ q.n \in Nat /\ q.threshold \in Thresholds
    BY KeyGenerationAssumption DEF IsRequest, Thresholds
  <2>2. q.n # 0 /\ q.threshold <= q.n /\ q.threshold >= 1
    <3>1. q.n # 0 /\ q.threshold <= q.n /\ q.threshold > q.n \div 2
      BY <1>3 DEF Acceptable
    <3>2. q.n \div 2 >= 0 /\ q.n \div 2 \in Int
      BY <2>1
    <3> QED BY <2>1, <3>1, <3>2
  <2>3. s \in Seq(Servers) /\ Len(s) = q.n
    <3>1. s \in [1 .. q.n -> Servers]
      BY DEF Suitable
    <3> QED BY <2>1, <3>1
  <2>4. new \in Driving
    BY <2>1, <2>3 DEF Driving
  <2>5. new.next \in 1 .. Len(new.participants)
        /\ new.threshold \in 1 .. Len(new.participants)
    BY <2>1, <2>2, <2>3
  <2>6. RunTo(r, new)
    BY <1>1, <1>3 DEF RunTo, RunsOK
  <2> HIDE DEF new
  <2> QED BY <1>1, <2>4, <2>5, <2>6, DriveStep, RestKept
<1> QED BY <1>2, <1>3 DEF OnGenerate

LEMMA ConnectToTargetStep ==
  ASSUME KeyGenerationInv, NEW r \in Runs, ConnectToTarget(r)
  PROVE  KeyGenerationInv'
<1> DEFINE run == runs[r]
<1>1. RunOK(run) /\ IsDriving(run) /\ DOMAIN runs = Runs /\ RunsOK /\ KeysOK
  BY DEF KeyGenerationInv, RunsOK, IsDriving, ConnectToTarget
<1>2. /\ runs' = [runs EXCEPT ![r].held = @ \cup {Target(r)}]
      /\ UNCHANGED <<generations, executing, stored>>
  BY DEF ConnectToTarget, ObtainConnection
<1>3. /\ run = [phase |-> run.phase, home |-> run.home,
                account |-> run.account, threshold |-> run.threshold,
                participants |-> run.participants, next |-> run.next,
                held |-> run.held]
      /\ run \in Driving /\ Target(r) \in Servers
      /\ run.next \in 1 .. Len(run.participants)
      /\ run.threshold \in 1 .. Len(run.participants)
  BY <1>1, DrivingFacts DEF Target
<1> DEFINE new == [phase |-> run.phase, home |-> run.home,
                   account |-> run.account, threshold |-> run.threshold,
                   participants |-> run.participants, next |-> run.next,
                   held |-> run.held \cup {Target(r)}]
<1>4. RunTo(r, new)
  BY <1>1, <1>2, <1>3 DEF RunTo
<1>5. new \in Driving /\ new.next \in 1 .. Len(new.participants)
      /\ new.threshold \in 1 .. Len(new.participants)
  BY <1>3 DEF Driving
<1> HIDE DEF new
<1> QED BY <1>1, <1>2, <1>4, <1>5, DriveStep, RestKept

LEMMA InstallFacts ==
  ASSUME KeyGenerationInv, NEW r \in Runs, IsDriving(runs[r]),
         NEW p \in Servers, p = Target(r), MutexFree(p), Install(r, p)
  PROVE  /\ GenerationsOK'
         /\ \A x \in Servers : executing[x] # None =>
              \A b \in Accounts : generations'[x][b] = generations[x][b]
<1> DEFINE run == runs[r]
           poly == [owner |-> p, run |-> r, threshold |-> run.threshold]
           g == [participants |-> Range(run.participants),
                 threshold    |-> run.threshold,
                 own          |-> poly,
                 from         |-> [x \in {p} |-> poly]]
<1>1. RunOK(run) /\ GenerationsOK
  BY DEF KeyGenerationInv, RunsOK
<1>2. /\ run.account \in Accounts /\ run.threshold \in Thresholds
      /\ Range(run.participants) \subseteq Servers
      /\ p \in Range(run.participants)
  BY <1>1, DrivingFacts DEF Target
<1>3. PICK a \in Accounts : a = run.account
  BY <1>2
<1>4. GenTo(p, a, g)
  BY <1>1, <1>3 DEF Install, GenTo, GenerationsOK
<1>5. poly \in Polynomials /\ poly.owner = p
  BY <1>2 DEF Polynomials
<1>6. GenerationOK(p, g)
  <2>1. /\ g \in GenerationRecords({p}) /\ p \in g.participants
        /\ g.from[p] = g.own /\ g.own.owner = p /\ {p} \in SUBSET Servers
    <3> HIDE DEF poly
    <3> QED BY <1>2, <1>5 DEF GenerationRecords
  <2> HIDE DEF g
  <2> QED BY <2>1, GenerationRecord
<1> HIDE DEF g
<1>7. \A x \in Servers : executing[x] # None => x # p
  BY DEF MutexFree
<1> QED BY <1>1, <1>4, <1>6, <1>7, GenerationMoved DEF GenTo

LEMMA OnPrepareStep ==
  ASSUME KeyGenerationInv, NEW r \in Runs, OnPrepare(r)
  PROVE  KeyGenerationInv'
<1>1. /\ runs[r].phase = "prepare" /\ UNCHANGED <<executing, stored>>
      /\ RunsOK /\ KeysOK /\ StoredOK /\ ExecutingOK
  BY DEF OnPrepare, KeyGenerationInv
<1>2. PICK p \in Servers : p = Target(r)
  BY <1>1, DrivingFacts DEF IsDriving, Target, RunsOK
<1>3. CASE Free(p, runs[r].account) /\ Install(r, p) /\ runs' = Advance(r, "execute")
  <2>1. /\ GenerationsOK'
        /\ \A x \in Servers : executing[x] # None =>
             \A b \in Accounts : generations'[x][b] = generations[x][b]
    BY <1>1, <1>2, <1>3, InstallFacts DEF IsDriving, Free
  <2>2. ExecutingOK'
    BY <1>1, <2>1, ExecutingKept DEF ExecutingOK
  <2>3. RunsOK' /\ KeysOK'
    BY <1>1, <1>3, AdvanceStep
  <2> QED BY <1>1, <2>1, <2>2, <2>3, StoredKept DEF KeyGenerationInv
<1>4. CASE Fail(r) /\ UNCHANGED generations
  BY <1>1, <1>4, FailStep, RestKept
<1> QED BY <1>2, <1>3, <1>4 DEF OnPrepare, Install, Free, MutexFree

LEMMA PrepareLostStep ==
  ASSUME KeyGenerationInv, NEW r \in Runs, PrepareLost(r)
  PROVE  KeyGenerationInv'
<1>1. /\ runs[r].phase = "prepare" /\ Fail(r) /\ UNCHANGED <<executing, stored>>
      /\ RunsOK /\ KeysOK /\ StoredOK /\ ExecutingOK
  BY DEF PrepareLost, KeyGenerationInv
<1>2. PICK p \in Servers : p = Target(r)
  BY <1>1, DrivingFacts DEF IsDriving, Target, RunsOK
<1>3. RunsOK' /\ KeysOK'
  BY <1>1, FailStep
<1>4. CASE UNCHANGED generations
  BY <1>1, <1>3, <1>4, RestKept
<1>5. CASE Free(p, runs[r].account) /\ Install(r, p)
  <2>1. /\ GenerationsOK'
        /\ \A x \in Servers : executing[x] # None =>
             \A b \in Accounts : generations'[x][b] = generations[x][b]
    BY <1>1, <1>2, <1>5, InstallFacts DEF IsDriving, Free
  <2>2. ExecutingOK'
    BY <1>1, <2>1, ExecutingKept DEF ExecutingOK
  <2> QED BY <1>1, <1>3, <2>1, <2>2, StoredKept DEF KeyGenerationInv
<1> QED BY <1>2, <1>4, <1>5 DEF PrepareLost, Install, Free, MutexFree
-----------------------------------------------------------------------------
(***************************************************************************)
(* The execute phase.                                                      *)
(***************************************************************************)
LEMMA OnExecuteStep ==
  ASSUME KeyGenerationInv, NEW r \in Runs, OnExecute(r)
  PROVE  KeyGenerationInv'
<1> DEFINE run == runs[r]
<1>1. /\ run.phase = "execute" /\ UNCHANGED <<generations, stored>>
      /\ RunOK(run) /\ IsDriving(run) /\ DOMAIN runs = Runs
      /\ RunsOK /\ KeysOK /\ StoredOK /\ ExecutingOK /\ GenerationsOK
  BY DEF OnExecute, KeyGenerationInv, RunsOK, IsDriving
<1>2. /\ run = [phase |-> run.phase, home |-> run.home,
                account |-> run.account, threshold |-> run.threshold,
                participants |-> run.participants, next |-> run.next,
                held |-> run.held]
      /\ run \in Driving /\ Target(r) \in Servers /\ run.account \in Accounts
      /\ run.next \in 1 .. Len(run.participants)
      /\ run.threshold \in 1 .. Len(run.participants)
  BY <1>1, DrivingFacts DEF Target
<1>3. PICK p \in Servers, a \in Accounts : p = Target(r) /\ a = run.account
  BY <1>2
<1>4. CASE Fail(r) /\ UNCHANGED executing
  BY <1>1, <1>4, FailStep, RestKept
<1>5. ASSUME NEW g, g = generations[p][a], g # None,
             executing' = [executing EXCEPT ![p] =
               [run |-> r, account |-> a,
                todo |-> Higher(p, g.participants), to |-> None]],
             runs' = [runs EXCEPT ![r].phase = "executing", ![r].held = {p}]
      PROVE  KeyGenerationInv'
  <2> DEFINE new == [phase |-> "executing", home |-> run.home,
                     account |-> run.account, threshold |-> run.threshold,
                     participants |-> run.participants, next |-> run.next,
                     held |-> {p}]
  <2>1. RunTo(r, new)
    BY <1>1, <1>2, <1>5 DEF RunTo
  <2>2. new \in Driving /\ new.next \in 1 .. Len(new.participants)
        /\ new.threshold \in 1 .. Len(new.participants)
    BY <1>2 DEF Driving
  <2>3. RunsOK' /\ KeysOK'
    <3> HIDE DEF new
    <3> QED BY <1>1, <2>1, <2>2, DriveStep
  <2>4. g.participants \subseteq Servers
    BY <1>1, <1>5 DEF GenerationsOK, GenerationOK, GenerationRecords
  <2> DEFINE x == [run |-> r, account |-> a,
                   todo |-> Higher(p, g.participants), to |-> None]
  <2>5. /\ DOMAIN executing' = Servers /\ executing'[p] = x
        /\ \A q \in Servers : q # p => executing'[q] = executing[q]
    BY <1>1, <1>5 DEF ExecutingOK
  <2>6. /\ x = [run |-> x.run, account |-> x.account, todo |-> x.todo, to |-> x.to]
        /\ x.run \in Runs /\ x.account = a /\ x.todo \subseteq Servers
        /\ x.to \in x.todo \cup {None}
    BY <2>4 DEF Higher
  <2>7. ExecutingOK'
    <3> HIDE DEF x
    <3> SUFFICES ASSUME NEW q \in Servers PROVE ExecutionOK(q, executing[q])'
      BY <2>5 DEF ExecutingOK
    <3>1. CASE q = p
      BY <1>1, <1>5, <2>5, <2>6, <3>1 DEF ExecutionOK
    <3>2. CASE q # p
      BY <1>1, <2>5, <3>2 DEF ExecutionOK, ExecutingOK
    <3> QED BY <3>1, <3>2
  <2> QED BY <1>1, <2>3, <2>7, StoredKept, GenerationsKept DEF KeyGenerationInv
<1> QED BY <1>3, <1>4, <1>5 DEF OnExecute

LEMMA ExecuteLostStep ==
  ASSUME KeyGenerationInv, NEW r \in Runs, ExecuteLost(r)
  PROVE  KeyGenerationInv'
BY FailStep, RestKept DEF ExecuteLost, KeyGenerationInv

LEMMA ConnectToHigherStep ==
  ASSUME KeyGenerationInv, NEW p \in Servers, ConnectToHigher(p)
  PROVE  KeyGenerationInv'
<1>1. /\ UNCHANGED <<generations, stored, runs>>
      /\ executing[p] # None /\ executing[p].to = None
      /\ RunsOK /\ KeysOK /\ StoredOK /\ ExecutingOK /\ GenerationsOK
  BY DEF ConnectToHigher, KeyGenerationInv, MutexFree
<1>2. PICK q \in executing[p].todo : executing' = [executing EXCEPT ![p].to = q]
  BY <1>1 DEF ConnectToHigher, Callees
<1>3. ExecutionOK(p, executing[p])
  BY <1>1 DEF ExecutingOK
<1>4. executing[p] = [run |-> executing[p].run, account |-> executing[p].account,
                      todo |-> executing[p].todo, to |-> executing[p].to]
  BY <1>1, <1>3 DEF ExecutionOK
<1> DEFINE x == [run |-> executing[p].run, account |-> executing[p].account,
                 todo |-> executing[p].todo, to |-> q]
<1>5. /\ DOMAIN executing' = Servers /\ executing'[p] = x
      /\ \A y \in Servers : y # p => executing'[y] = executing[y]
  BY <1>1, <1>2, <1>4 DEF ExecutingOK
<1>6. /\ x = [run |-> x.run, account |-> x.account, todo |-> x.todo, to |-> x.to]
      /\ x.run = executing[p].run /\ x.account = executing[p].account
      /\ x.todo = executing[p].todo /\ x.to \in x.todo \cup {None}
  OBVIOUS
<1>7. ExecutingOK'
  <2> HIDE DEF x
  <2> SUFFICES ASSUME NEW y \in Servers PROVE ExecutionOK(y, executing[y])'
    BY <1>5 DEF ExecutingOK
  <2>1. CASE y = p
    BY <1>1, <1>3, <1>5, <1>6, <2>1 DEF ExecutionOK
  <2>2. CASE y # p
    BY <1>1, <1>5, <2>2 DEF ExecutionOK, ExecutingOK
  <2> QED BY <2>1, <2>2
<1>8. RunsOK' /\ KeysOK'
  BY <1>1 DEF RunsOK, KeysOK, RunOK, GotKey, KeyFrom
<1> QED BY <1>1, <1>7, <1>8, StoredKept, GenerationsKept DEF KeyGenerationInv

LEMMA RunsKept ==
  ASSUME RunsOK, KeysOK, UNCHANGED <<runs, stored>>
  PROVE  RunsOK' /\ KeysOK'
BY DEF RunsOK, KeysOK, RunOK, GotKey, KeyFrom

\* What an OnExecute that has failed leaves behind.
LEMMA ExecuteFailsFacts ==
  ASSUME RunsOK, KeysOK, ExecutingOK, NEW p \in Servers, ~MutexFree(p),
         ExecuteFails(p), UNCHANGED stored
  PROVE  /\ RunsOK' /\ KeysOK' /\ DOMAIN executing' = Servers
         /\ executing'[p] = None
         /\ \A x \in Servers : x # p => executing'[x] = executing[x]
<1>1. executing[p].run \in Runs
  BY DEF ExecutingOK, ExecutionOK, MutexFree
<1>2. PICK r \in Runs : r = executing[p].run
  BY <1>1
<1>3. Fail(r) \/ UNCHANGED runs
  BY <1>2 DEF ExecuteFails, Fail
<1>4. RunsOK' /\ KeysOK'
  BY <1>3, FailStep, RunsKept
<1> QED BY <1>4 DEF ExecuteFails, ExecutingOK

\* A generation that is sent a contribution by another server.
Contributed(g, p, poly) == [g EXCEPT !.from = With(@, p, poly)]

LEMMA ContributedOK ==
  ASSUME NEW p \in Servers, NEW q \in Servers, p # q, NEW g, g # None,
         GenerationOK(q, g), NEW poly \in Polynomials
  PROVE  GenerationOK(q, Contributed(g, p, poly)) /\ Contributed(g, p, poly) # None
<1> DEFINE P == DOMAIN g.from
           from == [x \in P \cup {p} |-> IF x = p THEN poly ELSE g.from[x]]
           new == [participants |-> g.participants, threshold |-> g.threshold,
                   own |-> g.own, from |-> from]
<1>1. /\ g \in GenerationRecords(P) /\ P \in SUBSET Servers
      /\ q \in g.participants /\ q \in P /\ g.from[q] = g.own /\ g.own.owner = q
  BY DEF GenerationOK
<1> HIDE DEF P
<1>2. /\ g = [participants |-> g.participants, threshold |-> g.threshold,
              own |-> g.own, from |-> g.from]
      /\ g.participants \in SUBSET Servers /\ g.threshold \in Thresholds
      /\ g.own \in Polynomials /\ g.from \in [P -> Polynomials]
  BY <1>1 DEF GenerationRecords
<1>3. from \in [P \cup {p} -> Polynomials] /\ from[q] = g.own
  BY <1>1, <1>2
<1>4. With(g.from, p, poly) = from
  BY <1>2 DEF With
<1> HIDE DEF from
<1>5. Contributed(g, p, poly) = new
  BY <1>2, <1>4 DEF Contributed
<1>6. /\ new \in GenerationRecords(P \cup {p}) /\ P \cup {p} \in SUBSET Servers
      /\ q \in new.participants /\ q \in P \cup {p}
      /\ new.from[q] = new.own /\ new.own.owner = q
  BY <1>1, <1>2, <1>3 DEF GenerationRecords
<1> HIDE DEF new
<1> QED BY <1>5, <1>6, GenerationRecord

\* OnContribute at q, called by p.
LEMMA ContributeFacts ==
  ASSUME KeyGenerationInv, NEW p \in Servers, NEW q \in Servers,
         NEW a \in Accounts, ~MutexFree(p), MutexFree(q),
         a = executing[p].account, generations[q][a] # None
  PROVE  /\ p # q
         /\ generations[p][a] # None
         /\ generations[p][a].own \in Polynomials
         /\ generations[q][a].own \in Polynomials
<1>1. p # q
  BY DEF MutexFree
<1>2. generations[p][a] # None
  BY DEF KeyGenerationInv, ExecutingOK, ExecutionOK, MutexFree
<1> QED BY <1>1, <1>2 DEF KeyGenerationInv, GenerationsOK, GenerationOK,
                          GenerationRecords

LEMMA OnContributeStep ==
  ASSUME KeyGenerationInv, NEW p \in Servers, NEW q \in Servers,
         NEW a \in Accounts, ~MutexFree(p), MutexFree(q),
         a = executing[p].account, generations[q][a] # None,
         generations' = OnContribute(p, q, a)
  PROVE  /\ GenerationsOK'
         /\ \A x \in Servers, b \in Accounts :
              generations[x][b] # None => generations'[x][b] # None
<1>1. p # q /\ generations[p][a].own \in Polynomials /\ GenerationsOK
  BY ContributeFacts DEF KeyGenerationInv
<1>2. PICK poly \in Polynomials : poly = generations[p][a].own
  BY <1>1
<1>3. PICK g : g = generations[q][a]
  OBVIOUS
<1>4. GenerationOK(q, Contributed(g, p, poly)) /\ Contributed(g, p, poly) # None
  <2>1. GenerationOK(q, g) /\ g # None
    BY <1>1, <1>3 DEF GenerationsOK
  <2> QED BY <1>1, <2>1, ContributedOK
<1>5. PICK new : new = Contributed(g, p, poly)
  OBVIOUS
<1>6. GenTo(q, a, new)
  BY <1>1, <1>2, <1>3, <1>5 DEF GenTo, OnContribute, Contributed, GenerationsOK
<1>7. GenerationsOK'
  BY <1>1, <1>4, <1>5, <1>6, GenerationMoved
<1>8. ASSUME NEW x \in Servers, NEW b \in Accounts, generations[x][b] # None
      PROVE  generations'[x][b] # None
  BY <1>4, <1>5, <1>6, <1>8 DEF GenTo
<1> QED BY <1>7, <1>8

\* Both sides have the other's contribution.
LEMMA SwapStep ==
  ASSUME KeyGenerationInv, NEW p \in Servers, NEW q \in Servers,
         NEW a \in Accounts, ~MutexFree(p), MutexFree(q),
         a = executing[p].account, generations[q][a] # None,
         generations' = [OnContribute(p, q, a) EXCEPT
                           ![p][a].from = With(@, q, generations[q][a].own)]
  PROVE  /\ GenerationsOK'
         /\ \A x \in Servers, b \in Accounts :
              generations[x][b] # None => generations'[x][b] # None
<1>1. /\ p # q /\ generations[p][a] # None /\ GenerationsOK
      /\ generations[p][a].own \in Polynomials
      /\ generations[q][a].own \in Polynomials
  BY ContributeFacts DEF KeyGenerationInv
<1>2. PICK f \in Polynomials : f = generations[p][a].own
  BY <1>1
<1>3. PICK h \in Polynomials : h = generations[q][a].own
  BY <1>1
<1>4. PICK gp, gq : gp = generations[p][a] /\ gq = generations[q][a]
  OBVIOUS
<1>5. PICK np, nq : np = Contributed(gp, q, h) /\ nq = Contributed(gq, p, f)
  OBVIOUS
<1>6. GenerationOK(p, np) /\ np # None /\ GenerationOK(q, nq) /\ nq # None
  <2>1. GenerationOK(p, gp) /\ GenerationOK(q, gq) /\ gp # None /\ gq # None
    BY <1>1, <1>4 DEF GenerationsOK
  <2> QED BY <1>1, <1>5, <2>1, ContributedOK
<1>7. PICK mid : mid = OnContribute(p, q, a)
  OBVIOUS
<1>8. /\ DOMAIN mid = Servers /\ \A x \in Servers : DOMAIN mid[x] = Accounts
      /\ mid[q][a] = nq
      /\ \A x \in Servers, b \in Accounts :
           x # q \/ b # a => mid[x][b] = generations[x][b]
  BY <1>1, <1>2, <1>4, <1>5, <1>7 DEF OnContribute, Contributed, GenerationsOK
<1>9. mid[p][a] = gp /\ generations' = [mid EXCEPT ![p][a].from = With(@, q, h)]
  BY <1>1, <1>3, <1>4, <1>7, <1>8
<1>10. /\ DOMAIN generations' = Servers
       /\ \A x \in Servers : DOMAIN generations'[x] = Accounts
       /\ generations'[p][a] = np
       /\ \A x \in Servers, b \in Accounts :
            x # p \/ b # a => generations'[x][b] = mid[x][b]
  BY <1>5, <1>8, <1>9 DEF Contributed
<1>11. \A x \in Servers, b \in Accounts :
         \/ x = p /\ b = a /\ generations'[x][b] = np
         \/ x = q /\ b = a /\ generations'[x][b] = nq
         \/ generations'[x][b] = generations[x][b]
  BY <1>1, <1>8, <1>10
<1>12. ASSUME NEW x \in Servers, NEW b \in Accounts
       PROVE  /\ GenerationOK(x, generations'[x][b])
              /\ generations[x][b] # None => generations'[x][b] # None
  <2>1. GenerationOK(x, generations[x][b])
    BY <1>1 DEF GenerationsOK
  <2> QED BY <1>6, <1>11, <2>1
<1>13. GenerationsOK'
  <2> SUFFICES ASSUME NEW x \in Servers, NEW b \in Accounts
               PROVE  GenerationOK(x, generations'[x][b])
    BY <1>10 DEF GenerationsOK, GenerationOK
  <2> QED BY <1>12
<1> QED BY <1>12, <1>13

LEMMA SendContributionStep ==
  ASSUME KeyGenerationInv, NEW p \in Servers, SendContribution(p)
  PROVE  KeyGenerationInv'
<1>1. /\ ~MutexFree(p) /\ UNCHANGED stored
      /\ RunsOK /\ KeysOK /\ StoredOK /\ ExecutingOK /\ GenerationsOK
  BY DEF SendContribution, KeyGenerationInv
<1>2. /\ ExecutionOK(p, executing[p]) /\ executing[p] # None
      /\ executing[p].account \in Accounts
  BY <1>1 DEF ExecutingOK, ExecutionOK, MutexFree
<1>3. PICK a \in Accounts : a = executing[p].account
  BY <1>2
<1>4. PICK q \in Callees(p) :
        /\ MutexFree(q)
        /\ \/ /\ generations[q][a] # None /\ Swappable(p, q, a)
              /\ generations' = [OnContribute(p, q, a) EXCEPT
                   ![p][a].from = With(@, q, generations[q][a].own)]
              /\ executing' = [executing EXCEPT ![p].todo = @ \ {q}, ![p].to = None]
              /\ UNCHANGED runs
           \/ /\ generations[q][a] # None /\ ~Swappable(p, q, a)
              /\ generations' = OnContribute(p, q, a)
              /\ ExecuteFails(p)
           \/ /\ generations[q][a] = None
              /\ UNCHANGED generations
              /\ ExecuteFails(p)
  BY <1>3 DEF SendContribution
<1>5. q \in Servers
  BY <1>2 DEF Callees, ExecutionOK
<1>6. CASE /\ generations[q][a] # None
           /\ generations' = [OnContribute(p, q, a) EXCEPT
                ![p][a].from = With(@, q, generations[q][a].own)]
           /\ executing' = [executing EXCEPT ![p].todo = @ \ {q}, ![p].to = None]
           /\ UNCHANGED runs
  <2>1. /\ GenerationsOK'
        /\ \A x \in Servers, b \in Accounts :
             generations[x][b] # None => generations'[x][b] # None
    BY <1>1, <1>3, <1>4, <1>5, <1>6, SwapStep
  <2> DEFINE x == [run |-> executing[p].run, account |-> executing[p].account,
                   todo |-> executing[p].todo \ {q}, to |-> None]
  <2>2. /\ DOMAIN executing' = Servers /\ executing'[p] = x
        /\ \A y \in Servers : y # p => executing'[y] = executing[y]
    <3>1. executing[p] = [run |-> executing[p].run,
                          account |-> executing[p].account,
                          todo |-> executing[p].todo, to |-> executing[p].to]
      BY <1>2 DEF ExecutionOK
    <3> QED BY <1>1, <1>6, <3>1 DEF ExecutingOK
  <2>3. /\ x = [run |-> x.run, account |-> x.account, todo |-> x.todo, to |-> x.to]
        /\ x.run = executing[p].run /\ x.account = executing[p].account
        /\ x.todo \subseteq executing[p].todo /\ x.to \in x.todo \cup {None}
    OBVIOUS
  <2>4. ExecutingOK'
    <3> HIDE DEF x
    <3> SUFFICES ASSUME NEW y \in Servers PROVE ExecutionOK(y, executing[y])'
      BY <2>2 DEF ExecutingOK
    <3>1. CASE y = p
      BY <1>2, <2>1, <2>2, <2>3, <3>1 DEF ExecutionOK
    <3>2. CASE y # p
      BY <1>1, <2>1, <2>2, <3>2 DEF ExecutionOK, ExecutingOK
    <3> QED BY <3>1, <3>2
  <2> QED BY <1>1, <1>6, <2>1, <2>4, StoredKept, RunsKept DEF KeyGenerationInv
<1>7. CASE /\ generations[q][a] # None
           /\ generations' = OnContribute(p, q, a)
           /\ ExecuteFails(p)
  <2>1. /\ GenerationsOK'
        /\ \A x \in Servers, b \in Accounts :
             generations[x][b] # None => generations'[x][b] # None
    BY <1>1, <1>3, <1>4, <1>5, <1>7, OnContributeStep
  <2>2. /\ RunsOK' /\ KeysOK' /\ DOMAIN executing' = Servers
        /\ \A x \in Servers : executing'[x] # None => executing'[x] = executing[x]
    BY <1>1, <1>7, ExecuteFailsFacts
  <2> QED BY <1>1, <2>1, <2>2, ExecutingKept, StoredKept DEF KeyGenerationInv
<1>8. CASE UNCHANGED generations /\ ExecuteFails(p)
  <2>1. /\ RunsOK' /\ KeysOK' /\ DOMAIN executing' = Servers
        /\ \A x \in Servers : executing'[x] # None => executing'[x] = executing[x]
    BY <1>1, <1>8, ExecuteFailsFacts
  <2>2. ExecutingOK'
    BY <1>1, <1>8, <2>1, ExecutingKept
  <2> QED BY <1>1, <1>8, <2>1, <2>2, StoredKept, GenerationsKept
          DEF KeyGenerationInv
<1> QED BY <1>4, <1>6, <1>7, <1>8

LEMMA ContributionLostStep ==
  ASSUME KeyGenerationInv, NEW p \in Servers, ContributionLost(p)
  PROVE  KeyGenerationInv'
<1>1. /\ ~MutexFree(p) /\ UNCHANGED stored /\ ExecuteFails(p)
      /\ RunsOK /\ KeysOK /\ StoredOK /\ ExecutingOK /\ GenerationsOK
  BY DEF ContributionLost, KeyGenerationInv
<1>2. /\ ExecutionOK(p, executing[p]) /\ executing[p] # None
      /\ executing[p].account \in Accounts
  BY <1>1 DEF ExecutingOK, ExecutionOK, MutexFree
<1>3. PICK a \in Accounts : a = executing[p].account
  BY <1>2
<1>4. /\ RunsOK' /\ KeysOK' /\ DOMAIN executing' = Servers
      /\ \A x \in Servers : executing'[x] # None => executing'[x] = executing[x]
  BY <1>1, ExecuteFailsFacts
<1>5. CASE UNCHANGED generations
  <2>1. ExecutingOK'
    BY <1>1, <1>4, <1>5, ExecutingKept
  <2> QED BY <1>1, <1>4, <1>5, <2>1, StoredKept, GenerationsKept
          DEF KeyGenerationInv
<1>6. ASSUME NEW q \in Callees(p), MutexFree(q), generations[q][a] # None,
             generations' = OnContribute(p, q, a)
      PROVE  KeyGenerationInv'
  <2>1. q \in Servers
    BY <1>2 DEF Callees, ExecutionOK
  <2>2. /\ GenerationsOK'
        /\ \A x \in Servers, b \in Accounts :
             generations[x][b] # None => generations'[x][b] # None
    BY <1>1, <1>3, <1>6, <2>1, OnContributeStep
  <2> QED BY <1>1, <1>4, <2>2, ExecutingKept, StoredKept DEF KeyGenerationInv
<1> QED BY <1>3, <1>5, <1>6 DEF ContributionLost

LEMMA ExecuteReturnsStep ==
  ASSUME KeyGenerationInv, NEW p \in Servers, ExecuteReturns(p)
  PROVE  KeyGenerationInv'
<1>1. /\ ~MutexFree(p) /\ UNCHANGED <<generations, stored>>
      /\ executing' = [executing EXCEPT ![p] = None]
      /\ RunsOK /\ KeysOK /\ StoredOK /\ ExecutingOK /\ GenerationsOK
  BY DEF ExecuteReturns, KeyGenerationInv
<1>2. executing[p].run \in Runs
  BY <1>1 DEF ExecutingOK, ExecutionOK, MutexFree
<1>3. PICK r \in Runs : r = executing[p].run
  BY <1>2
<1>4. ExecutingOK'
  BY <1>1, ExecutingKept DEF ExecutingOK
<1>5. CASE UNCHANGED runs
  BY <1>1, <1>4, <1>5, RunsKept, StoredKept, GenerationsKept
     DEF KeyGenerationInv
<1>6. CASE runs[r].phase = "executing" /\ runs' = Advance(r, "commit")
  <2>1. RunsOK' /\ KeysOK'
    BY <1>1, <1>6, AdvanceStep
  <2> QED BY <1>1, <1>4, <2>1, StoredKept, GenerationsKept
          DEF KeyGenerationInv
<1> QED BY <1>3, <1>5, <1>6 DEF ExecuteReturns
-----------------------------------------------------------------------------
(***************************************************************************)
(* The commit phase.  A key that a run has kept, and one that a server has *)
(* stored in this very step.                                               *)
(***************************************************************************)
KeptKey(s, p) ==
  /\ GotKey(runs[s], p) /\ runs'[s].account = runs[s].account
  /\ KeyFrom(runs'[s], p) = KeyFrom(runs[s], p)

NewKey(s, p) ==
  LET a == runs'[s].account
  IN /\ stored[p][a] = None /\ stored'[p][a] # None
     /\ stored'[p][a].polys = KeyFrom(runs'[s], p)

Grows == \A p \in Servers, a \in Accounts :
           stored[p][a] # None => stored'[p][a] = stored[p][a]

LEMMA KeysMoved ==
  ASSUME RunsOK, KeysOK, Grows, NEW r,
         \A s \in Runs, p \in Servers : GotKey(runs'[s], p) =>
           KeptKey(s, p) \/ (s = r /\ NewKey(s, p))
  PROVE  KeysOK'
<1>1. ASSUME NEW s \in Runs, NEW p \in Servers, KeptKey(s, p)
      PROVE  LET a == runs'[s].account
             IN /\ stored[p][a] # None /\ stored'[p][a] = stored[p][a]
                /\ stored'[p][a].polys = KeyFrom(runs'[s], p)
  <2>1. /\ stored[p][runs[s].account] # None
        /\ stored[p][runs[s].account].polys = KeyFrom(runs[s], p)
    BY <1>1 DEF KeysOK, KeptKey
  <2>2. runs[s].account \in Accounts
    BY <1>1 DEF KeptKey, GotKey, RunsOK, RunOK, Committing, Finished
  <2> QED BY <1>1, <2>1, <2>2 DEF KeptKey, Grows
<1>2. ASSUME NEW s \in Runs, NEW t \in Runs, NEW p \in Servers, s # t,
             GotKey(runs'[s], p), GotKey(runs'[t], p)
      PROVE  runs'[t].account # runs'[s].account
  <2>1. CASE KeptKey(s, p) /\ KeptKey(t, p)
    BY <1>2, <2>1 DEF KeysOK, KeptKey
  <2>2. CASE KeptKey(s, p) /\ NewKey(t, p)
    BY <1>1, <2>2 DEF NewKey
  <2>3. CASE NewKey(s, p) /\ KeptKey(t, p)
    BY <1>1, <2>3 DEF NewKey
  <2> QED BY <1>2, <2>1, <2>2, <2>3
<1>3. ASSUME NEW s \in Runs, NEW p \in Servers, GotKey(runs'[s], p)
      PROVE  /\ stored'[p][runs'[s].account] # None
             /\ stored'[p][runs'[s].account].polys = KeyFrom(runs'[s], p)
  BY <1>1, <1>3 DEF NewKey
<1> SUFFICES ASSUME NEW s \in Runs, NEW p \in Servers, GotKey(runs'[s], p)
             PROVE  /\ stored'[p][runs'[s].account] # None
                    /\ stored'[p][runs'[s].account].polys = KeyFrom(runs'[s], p)
                    /\ \A t \in Runs : t # s /\ GotKey(runs'[t], p) =>
                                         runs'[t].account # runs'[s].account
  BY DEF KeysOK, GotKey, KeyFrom
<1> QED BY <1>2, <1>3

LEMMA CommittingFacts ==
  ASSUME NEW run, RunOK(run), run.phase = "committing"
  PROVE  /\ run = [phase |-> "committing", account |-> run.account,
                   home |-> run.home, threshold |-> run.threshold,
                   participants |-> run.participants, held |-> run.held,
                   replies |-> run.replies]
         /\ run.home \in Servers /\ run.account \in Accounts
         /\ run.threshold \in Thresholds /\ run.participants \in Seq(Servers)
         /\ run.held \in SUBSET Servers
         /\ run.replies \in [Range(run.participants) ->
                               {None} \cup SUBSET Polynomials]
         /\ run.threshold \in 1 .. Len(run.participants)
         /\ Len(run.participants) \in Nat
         /\ DOMAIN run.participants = 1 .. Len(run.participants)
         /\ Range(run.participants) \subseteq Servers
<1>1. /\ run \in Committing(Range(run.participants))
      /\ run.threshold \in 1 .. Len(run.participants)
  BY DEF RunOK
<1>2. run.participants \in Seq(Servers)
  BY <1>1 DEF Committing
<1>3. /\ Len(run.participants) \in Nat
      /\ DOMAIN run.participants = 1 .. Len(run.participants)
      /\ \A i \in 1 .. Len(run.participants) : run.participants[i] \in Servers
  BY <1>2
<1>4. Range(run.participants) \subseteq Servers
  BY <1>3 DEF Range
<1>5. PICK P : P = Range(run.participants)
  OBVIOUS
<1> QED BY <1>1, <1>2, <1>3, <1>4, <1>5 DEF Committing

LEMMA StartCommitStep ==
  ASSUME KeyGenerationInv, NEW r \in Runs, StartCommit(r)
  PROVE  KeyGenerationInv'
<1> DEFINE run == runs[r]
           none == [p \in Range(run.participants) |-> None]
           new == [phase |-> "committing", account |-> run.account,
                   home |-> run.home, threshold |-> run.threshold,
                   participants |-> run.participants, held |-> {},
                   replies |-> none]
<1>1. RunOK(run) /\ IsDriving(run) /\ DOMAIN runs = Runs /\ RunsOK /\ KeysOK
  BY DEF KeyGenerationInv, RunsOK, IsDriving, StartCommit
<1>2. /\ RunTo(r, new) /\ UNCHANGED <<generations, executing, stored>>
  BY <1>1 DEF StartCommit, RunTo
<1>3. /\ run.home \in Servers /\ run.account \in Accounts
      /\ run.threshold \in Thresholds /\ run.participants \in Seq(Servers)
      /\ run.threshold \in 1 .. Len(run.participants)
  BY <1>1, DrivingFacts
<1>4. /\ none \in [Range(run.participants) -> {None} \cup SUBSET Polynomials]
      /\ \A p \in DOMAIN none : none[p] = None
  OBVIOUS
<1> HIDE DEF none
<1>5. /\ new \in Committing(Range(run.participants))
      /\ new.threshold \in 1 .. Len(new.participants)
      /\ new.participants = run.participants /\ new.phase = "committing"
      /\ new.replies = none
  BY <1>3, <1>4 DEF Committing
<1> HIDE DEF new
<1>6. RunOK(new) /\ \A p \in Servers : ~GotKey(new, p)
  BY <1>4, <1>5 DEF RunOK, GotKey
<1> QED BY <1>1, <1>2, <1>6, RunMoved, RestKept

LEMMA ConnectToCommitStep ==
  ASSUME KeyGenerationInv, NEW r \in Runs, ConnectToCommit(r)
  PROVE  KeyGenerationInv'
<1> DEFINE run == runs[r]
<1>1. /\ RunOK(run) /\ run.phase = "committing" /\ DOMAIN runs = Runs
      /\ RunsOK /\ KeysOK
  BY DEF KeyGenerationInv, RunsOK, ConnectToCommit
<1>2. PICK p \in Unanswered(r) :
        /\ runs' = [runs EXCEPT ![r].held = @ \cup {p}]
        /\ UNCHANGED <<generations, executing, stored>>
  BY DEF ConnectToCommit, ObtainConnection
<1> DEFINE new == [phase |-> "committing", account |-> run.account,
                   home |-> run.home, threshold |-> run.threshold,
                   participants |-> run.participants,
                   held |-> run.held \cup {p}, replies |-> run.replies]
<1>3. /\ run = [phase |-> "committing", account |-> run.account,
                home |-> run.home, threshold |-> run.threshold,
                participants |-> run.participants, held |-> run.held,
                replies |-> run.replies]
      /\ run.home \in Servers /\ run.account \in Accounts
      /\ run.threshold \in Thresholds /\ run.participants \in Seq(Servers)
      /\ run.held \in SUBSET Servers
      /\ run.replies \in [Range(run.participants) ->
                            {None} \cup SUBSET Polynomials]
      /\ run.threshold \in 1 .. Len(run.participants)
      /\ Range(run.participants) \subseteq Servers
  BY <1>1, CommittingFacts
<1>4. RunTo(r, new)
  BY <1>1, <1>2, <1>3 DEF RunTo
<1>5. p \in Servers
  BY <1>3 DEF Unanswered
<1>6. /\ new \in Committing(Range(run.participants))
      /\ new.threshold \in 1 .. Len(new.participants)
      /\ new.participants = run.participants /\ new.phase = "committing"
      /\ new.replies = run.replies /\ new.account = run.account
  BY <1>3, <1>5 DEF Committing
<1> HIDE DEF new
<1>7. RunOK(new)
  BY <1>6 DEF RunOK
<1>8. \A x \in Servers : GotKey(new, x) =>
        /\ GotKey(run, x) /\ new.account = run.account
        /\ KeyFrom(new, x) = KeyFrom(run, x)
  BY <1>1, <1>6 DEF GotKey, KeyFrom
<1> QED BY <1>1, <1>2, <1>4, <1>7, <1>8, RunMoved, RestKept

\* A committing run with the answer polys from p.
Replied(run, p, polys) ==
  [phase |-> "committing", account |-> run.account, home |-> run.home,
   threshold |-> run.threshold, participants |-> run.participants,
   held |-> run.held \ {p}, replies |-> [run.replies EXCEPT ![p] = polys]]

LEMMA RepliedOK ==
  ASSUME NEW run, RunOK(run), run.phase = "committing", NEW p \in Servers,
         NEW polys \in SUBSET Polynomials
  PROVE  /\ RunOK(Replied(run, p, polys))
         /\ Replied(run, p, polys).account = run.account
         /\ \A x \in Servers : GotKey(Replied(run, p, polys), x) =>
              \/ /\ GotKey(run, x)
                 /\ KeyFrom(Replied(run, p, polys), x) = KeyFrom(run, x)
              \/ /\ x = p /\ polys # {}
                 /\ KeyFrom(Replied(run, p, polys), x) = polys
<1> DEFINE replies == [run.replies EXCEPT ![p] = polys]
<1>1. /\ run.home \in Servers /\ run.account \in Accounts
      /\ run.threshold \in Thresholds /\ run.participants \in Seq(Servers)
      /\ run.held \in SUBSET Servers
      /\ run.replies \in [Range(run.participants) ->
                            {None} \cup SUBSET Polynomials]
      /\ run.threshold \in 1 .. Len(run.participants)
  BY CommittingFacts
<1>2. /\ replies \in [Range(run.participants) -> {None} \cup SUBSET Polynomials]
      /\ DOMAIN replies = DOMAIN run.replies
      /\ \A x \in DOMAIN replies : /\ x # p => replies[x] = run.replies[x]
                                   /\ x = p => replies[x] = polys
  BY <1>1
<1>3. PICK new : new = Replied(run, p, polys)
  OBVIOUS
<1>4. /\ new.phase = "committing" /\ new.replies = replies
      /\ new.account = run.account /\ new.participants = run.participants
      /\ new.threshold = run.threshold
  BY <1>3 DEF Replied
<1>5. new \in Committing(Range(run.participants))
  <2> HIDE DEF replies
  <2>1. new = [phase |-> "committing", account |-> run.account,
               home |-> run.home, threshold |-> run.threshold,
               participants |-> run.participants,
               held |-> run.held \ {p}, replies |-> replies]
    BY <1>3 DEF Replied, replies
  <2> QED BY <1>1, <1>2, <2>1 DEF Committing
<1> HIDE DEF replies
<1>6. RunOK(new)
  BY <1>1, <1>4, <1>5 DEF RunOK
<1>7. ASSUME NEW x \in Servers, GotKey(new, x)
      PROVE  \/ GotKey(run, x) /\ KeyFrom(new, x) = KeyFrom(run, x)
             \/ x = p /\ polys # {} /\ KeyFrom(new, x) = polys
  <2>1. /\ x \in DOMAIN replies /\ replies[x] \notin {None, {}}
        /\ KeyFrom(new, x) = replies[x]
    BY <1>4, <1>7 DEF GotKey, KeyFrom
  <2> QED BY <1>2, <2>1 DEF GotKey, KeyFrom
<1> QED BY <1>3, <1>4, <1>6, <1>7

LEMMA ReplyTo ==
  ASSUME RunsOK, NEW r \in Runs, runs[r].phase = "committing",
         NEW p \in Servers, NEW polys, Reply(r, p, polys)
  PROVE  RunTo(r, Replied(runs[r], p, polys))
<1> DEFINE run == runs[r]
<1>1. run = [phase |-> "committing", account |-> run.account,
             home |-> run.home, threshold |-> run.threshold,
             participants |-> run.participants, held |-> run.held,
             replies |-> run.replies]
  BY CommittingFacts DEF RunsOK
<1>2. /\ DOMAIN runs' = Runs /\ \A s \in Runs : s # r => runs'[s] = runs[s]
  BY DEF Reply, RunsOK
<1>3. runs'[r] = Replied(run, p, polys)
  BY <1>1 DEF Reply, Replied, RunsOK
<1> QED BY <1>2, <1>3 DEF RunTo

\* Replies with and without a key, when shares have at most been added.
LEMMA ReplyStep ==
  ASSUME RunsOK, KeysOK, Grows, NEW r \in Runs, runs[r].phase = "committing",
         NEW p \in Servers, NEW polys \in SUBSET Polynomials,
         Reply(r, p, polys), NEW a, a = runs[r].account,
         polys # {} => /\ stored[p][a] = None /\ stored'[p][a] # None
                       /\ stored'[p][a].polys = polys
  PROVE  RunsOK' /\ KeysOK'
<1>1. PICK new : new = Replied(runs[r], p, polys)
  OBVIOUS
<1>2. /\ RunOK(new) /\ new.account = a
      /\ \A x \in Servers : GotKey(new, x) =>
           \/ GotKey(runs[r], x) /\ KeyFrom(new, x) = KeyFrom(runs[r], x)
           \/ x = p /\ polys # {} /\ KeyFrom(new, x) = polys
  BY <1>1, RepliedOK DEF RunsOK
<1>3. RunTo(r, new)
  BY <1>1, ReplyTo
<1>4. \A s \in Runs : /\ s = r => runs'[s] = new
                      /\ s # r => runs'[s] = runs[s]
  BY <1>3 DEF RunTo
<1>5. RunsOK'
  BY <1>2, <1>3, <1>4 DEF RunsOK, RunTo
<1>6. ASSUME NEW s \in Runs, NEW x \in Servers, GotKey(runs'[s], x)
      PROVE  KeptKey(s, x) \/ (s = r /\ NewKey(s, x))
  <2>1. CASE s # r
    BY <1>4, <1>6, <2>1 DEF KeptKey
  <2>2. CASE s = r
    <3>1. runs'[s] = new
      BY <1>4, <2>2
    <3>2. CASE GotKey(runs[r], x) /\ KeyFrom(new, x) = KeyFrom(runs[r], x)
      BY <1>2, <2>2, <3>1, <3>2 DEF KeptKey
    <3>3. CASE x = p /\ polys # {} /\ KeyFrom(new, x) = polys
      BY <1>2, <2>2, <3>1, <3>3 DEF NewKey
    <3> QED BY <1>2, <1>6, <3>1, <3>2, <3>3
  <2> QED BY <2>1, <2>2
<1>7. KeysOK'
  BY <1>6, KeysMoved
<1> QED BY <1>5, <1>7

\* A server stores its share.
LEMMA StoreFacts ==
  ASSUME StoredOK, GenerationsOK, NEW p \in Servers, NEW a \in Accounts,
         CanStore(p, a),
         stored' = [stored EXCEPT ![p][a] = Share(generations[p][a])]
  PROVE  /\ StoredOK' /\ Grows
         /\ stored[p][a] = None /\ stored'[p][a] = Share(generations[p][a])
         /\ stored'[p][a] # None
         /\ Share(generations[p][a]).polys \in SUBSET Polynomials
<1>1. PICK g : g = generations[p][a]
  OBVIOUS
<1>2. /\ g \in GenerationRecords(DOMAIN g.from) /\ p \in DOMAIN g.from
      /\ g.from[p].owner = p
  BY <1>1 DEF GenerationsOK, GenerationOK, CanStore
<1>3. PICK P : P = DOMAIN g.from
  OBVIOUS
<1>4. /\ g.participants \in SUBSET Servers /\ g.threshold \in Thresholds
      /\ g.from \in [P -> Polynomials]
  BY <1>2, <1>3 DEF GenerationRecords
<1>5. Range(g.from) \in SUBSET Polynomials /\ g.from[p] \in Range(g.from)
  BY <1>2, <1>3, <1>4 DEF Range
<1>6. PICK s : s = Share(g)
  OBVIOUS
<1>7. /\ s \in ShareRecords /\ s.polys = Range(g.from)
  BY <1>4, <1>5, <1>6 DEF Share, ShareRecords
<1>8. s # None /\ ShareOK(p, s)
  BY <1>2, <1>5, <1>7, KeyGenerationAssumption DEF ShareOK
<1>9. stored[p][a] = None
  BY DEF CanStore
<1>10. /\ DOMAIN stored' = Servers
       /\ \A x \in Servers : DOMAIN stored'[x] = Accounts
       /\ stored'[p][a] = s
       /\ \A x \in Servers, b \in Accounts :
            x # p \/ b # a => stored'[x][b] = stored[x][b]
  BY <1>1, <1>6 DEF StoredOK
<1>11. StoredOK'
  <2> SUFFICES ASSUME NEW x \in Servers, NEW b \in Accounts
               PROVE  ShareOK(x, stored'[x][b])
    BY <1>10 DEF StoredOK, ShareOK
  <2> QED BY <1>8, <1>10 DEF StoredOK
<1>12. Grows
  BY <1>9, <1>10 DEF Grows
<1> QED BY <1>1, <1>5, <1>6, <1>7, <1>8, <1>9, <1>10, <1>11, <1>12

\* A server forgets a generation that no OnExecute holds.
LEMMA ForgetStep ==
  ASSUME GenerationsOK, ExecutingOK, NEW p \in Servers, NEW a \in Accounts,
         MutexFree(p), UNCHANGED executing,
         generations' = [generations EXCEPT ![p][a] = None]
  PROVE  GenerationsOK' /\ ExecutingOK'
<1>1. GenTo(p, a, None)
  BY DEF GenTo, GenerationsOK
<1>2. GenerationOK(p, None)
  BY DEF GenerationOK
<1>3. GenerationsOK'
  BY <1>1, <1>2, GenerationMoved
<1>4. ExecutingOK'
  BY <1>1, ExecutingKept DEF ExecutingOK, GenTo, MutexFree
<1> QED BY <1>3, <1>4

LEMMA CommitFacts ==
  ASSUME KeyGenerationInv, NEW r \in Runs, runs[r].phase = "committing"
  PROVE  /\ runs[r].account \in Accounts /\ Reachable(r) \subseteq Servers
         /\ RunsOK /\ KeysOK /\ StoredOK /\ ExecutingOK /\ GenerationsOK
<1>1. RunOK(runs[r])
  BY DEF KeyGenerationInv, RunsOK
<1>2. /\ runs[r].account \in Accounts
      /\ DOMAIN runs[r].replies = Range(runs[r].participants)
      /\ Range(runs[r].participants) \subseteq Servers
  BY <1>1, CommittingFacts
<1> QED BY <1>2 DEF Reachable, Unanswered, KeyGenerationInv

LEMMA OnCommitStep ==
  ASSUME KeyGenerationInv, NEW r \in Runs, OnCommit(r)
  PROVE  KeyGenerationInv'
<1>1. /\ runs[r].phase = "committing" /\ UNCHANGED executing
      /\ runs[r].account \in Accounts /\ Reachable(r) \subseteq Servers
      /\ RunsOK /\ KeysOK /\ StoredOK /\ ExecutingOK /\ GenerationsOK
  BY CommitFacts DEF OnCommit
<1>2. PICK a \in Accounts : a = runs[r].account
  BY <1>1
<1>3. PICK p \in Reachable(r) :
        \/ /\ CanStore(p, a)
           /\ StoreDistributedKey(p, a)
           /\ Reply(r, p, Share(generations[p][a]).polys)
        \/ Reply(r, p, {}) /\ UNCHANGED <<generations, stored>>
  BY <1>2 DEF OnCommit
<1>4. p \in Servers
  BY <1>1
<1>5. CASE /\ CanStore(p, a)
           /\ StoreDistributedKey(p, a)
           /\ Reply(r, p, Share(generations[p][a]).polys)
  <2>1. /\ StoredOK' /\ Grows
        /\ stored[p][a] = None /\ stored'[p][a] = Share(generations[p][a])
        /\ stored'[p][a] # None
        /\ Share(generations[p][a]).polys \in SUBSET Polynomials
    BY <1>1, <1>4, <1>5, StoreFacts DEF StoreDistributedKey
  <2>2. GenerationsOK' /\ ExecutingOK'
    BY <1>1, <1>4, <1>5, ForgetStep DEF StoreDistributedKey, CanStore
  <2>3. PICK polys \in SUBSET Polynomials : polys = Share(generations[p][a]).polys
    BY <2>1
  <2>4. Reply(r, p, polys) /\ stored'[p][a].polys = polys
    BY <1>5, <2>1, <2>3
  <2>5. RunsOK' /\ KeysOK'
    BY <1>1, <1>2, <1>4, <2>1, <2>4, ReplyStep
  <2> QED BY <2>1, <2>2, <2>5 DEF KeyGenerationInv
<1>6. CASE Reply(r, p, {}) /\ UNCHANGED <<generations, stored>>
  <2>1. PICK polys \in SUBSET Polynomials : polys = {}
    OBVIOUS
  <2>2. Grows /\ Reply(r, p, polys)
    BY <1>6, <2>1 DEF Grows
  <2>3. RunsOK' /\ KeysOK'
    BY <1>1, <1>2, <1>4, <2>1, <2>2, ReplyStep
  <2> QED BY <1>1, <1>6, <2>3, RestKept
<1> QED BY <1>3, <1>5, <1>6

LEMMA CommitLostStep ==
  ASSUME KeyGenerationInv, NEW r \in Runs, CommitLost(r)
  PROVE  KeyGenerationInv'
<1>1. /\ runs[r].phase = "committing" /\ UNCHANGED executing
      /\ runs[r].account \in Accounts /\ Reachable(r) \subseteq Servers
      /\ RunsOK /\ KeysOK /\ StoredOK /\ ExecutingOK /\ GenerationsOK
  BY CommitFacts DEF CommitLost
<1>2. PICK a \in Accounts : a = runs[r].account
  BY <1>1
<1>3. PICK p \in Reachable(r) :
        /\ \/ UNCHANGED <<generations, stored>>
           \/ CanStore(p, a) /\ StoreDistributedKey(p, a)
           \/ /\ CanStore(p, a)
              /\ stored' = [stored EXCEPT ![p][a] = Share(generations[p][a])]
              /\ UNCHANGED generations
        /\ Reply(r, p, {})
  BY <1>2 DEF CommitLost
<1>4. PICK polys \in SUBSET Polynomials : polys = {}
  OBVIOUS
<1>5. p \in Servers /\ Reply(r, p, polys)
  BY <1>1, <1>3, <1>4
<1>6. StoredOK' /\ Grows
  BY <1>1, <1>3, <1>5, StoreFacts, StoredKept DEF Grows, StoreDistributedKey
<1>7. GenerationsOK' /\ ExecutingOK'
  <2>1. CASE UNCHANGED generations
    BY <1>1, <2>1, GenerationsKept, ExecutingKept DEF ExecutingOK
  <2>2. CASE CanStore(p, a) /\ StoreDistributedKey(p, a)
    BY <1>1, <1>5, <2>2, ForgetStep DEF StoreDistributedKey, CanStore
  <2> QED BY <1>3, <2>1, <2>2
<1>8. RunsOK' /\ KeysOK'
  BY <1>1, <1>2, <1>4, <1>5, <1>6, ReplyStep
<1> QED BY <1>6, <1>7, <1>8 DEF KeyGenerationInv

LEMMA FinishGenerateStep ==
  ASSUME KeyGenerationInv, NEW r \in Runs, FinishGenerate(r)
  PROVE  KeyGenerationInv'
<1> DEFINE run == runs[r]
<1>1. /\ run.phase = "committing" /\ RunOK(run) /\ RunsOK /\ KeysOK
      /\ Unanswered(r) = {} /\ UNCHANGED <<generations, executing, stored>>
  BY DEF FinishGenerate, KeyGenerationInv, RunsOK
<1>2. CASE Fail(r)
  BY <1>1, <1>2, FailStep, RestKept
<1>3. CASE /\ ConfirmGeneration(run)
           /\ runs' = [runs EXCEPT ![r] =
                [phase |-> "done", account |-> @.account,
                 threshold |-> @.threshold,
                 participants |-> Range(@.participants),
                 pubKey |-> @.replies[@.participants[1]]]]
  <2> DEFINE P == Range(run.participants)
             key == run.replies[run.participants[1]]
             new == [phase |-> "done", account |-> run.account,
                     threshold |-> run.threshold, participants |-> P,
                     pubKey |-> key]
  <2>1. /\ run.account \in Accounts /\ run.threshold \in Thresholds
        /\ run.replies \in [P -> {None} \cup SUBSET Polynomials]
        /\ run.threshold \in 1 .. Len(run.participants)
        /\ Len(run.participants) \in Nat
        /\ DOMAIN run.participants = 1 .. Len(run.participants)
        /\ P \subseteq Servers
    BY <1>1, CommittingFacts
  <2>2. run.participants[1] \in P
    BY <2>1 DEF Range
  <2>3. \A p \in P : /\ run.replies[p] \notin {None, {}}
                     /\ run.replies[p] = key
    BY <1>1, <1>3, <2>1, <2>2 DEF Unanswered, ConfirmGeneration, SamePubKeys
  <2>4. \A f \in key : f.threshold <= run.threshold
    <3>1. 0 \in 0 .. Len(run.participants) - run.threshold /\ 1 \in 1 .. run.threshold
      BY <2>1
    <3>2. \A f \in run.replies[run.participants[0 + 1]] : f.threshold <= run.threshold
      BY <1>3, <3>1 DEF ConfirmGeneration, CompositesVerify
    <3> QED BY <3>2
  <2>5. key \in {None} \cup SUBSET Polynomials
    BY <2>1, <2>2
  <2>6. RunTo(r, new)
    BY <1>1, <1>3 DEF RunTo, RunsOK
  <2> HIDE DEF key, P
  <2>7. /\ new \in Finished /\ new.phase = "done" /\ new.pubKey = key
        /\ new.threshold = run.threshold /\ new.account = run.account
        /\ new.participants = P
    BY <2>1, <2>5 DEF Finished
  <2> HIDE DEF new
  <2>8. RunOK(new)
    BY <2>4, <2>7 DEF RunOK
  <2>9. ASSUME NEW p \in Servers, GotKey(new, p)
        PROVE  /\ GotKey(run, p) /\ new.account = run.account
               /\ KeyFrom(new, p) = KeyFrom(run, p)
    BY <1>1, <2>1, <2>3, <2>7, <2>9 DEF GotKey, KeyFrom
  <2> QED BY <1>1, <2>6, <2>8, <2>9, RunMoved, RestKept
<1> QED BY <1>2, <1>3 DEF FinishGenerate
-----------------------------------------------------------------------------
(***************************************************************************)
(* Generations that are forgotten, and servers that go down.               *)
(***************************************************************************)
LEMMA ForgetManyStep ==
  ASSUME KeyGenerationInv, NEW P \in SUBSET Servers, NEW a \in Accounts,
         Forget(P, a)
  PROVE  KeyGenerationInv'
<1>1. /\ UNCHANGED <<executing, stored, runs>>
      /\ RunsOK /\ KeysOK /\ StoredOK /\ ExecutingOK /\ GenerationsOK
  BY DEF Forget, KeyGenerationInv
<1>2. /\ DOMAIN generations' = Servers
      /\ \A p \in Servers : DOMAIN generations'[p] = Accounts
      /\ \A p \in Servers, b \in Accounts :
           \/ generations'[p][b] = generations[p][b]
           \/ executing[p] = None /\ generations'[p][b] = None
  BY <1>1 DEF Forget, GenerationsOK, MutexFree
<1>3. GenerationsOK'
  <2> SUFFICES ASSUME NEW p \in Servers, NEW b \in Accounts
               PROVE  GenerationOK(p, generations'[p][b])
    BY <1>2 DEF GenerationsOK, GenerationOK
  <2>1. CASE generations'[p][b] = generations[p][b]
    BY <1>1, <2>1 DEF GenerationsOK
  <2>2. CASE generations'[p][b] = None
    BY <2>2 DEF GenerationOK
  <2> QED BY <1>2, <2>1, <2>2
<1>4. ExecutingOK'
  BY <1>1, <1>2, ExecutingKept DEF ExecutingOK
<1> QED BY <1>1, <1>3, <1>4, RunsKept, StoredKept DEF KeyGenerationInv

LEMMA DownStep ==
  ASSUME KeyGenerationInv, NEW p \in Servers, NEW R \in SUBSET Runs,
         \A r \in R : runs[r].phase = "committing", Down(p, R)
  PROVE  KeyGenerationInv'
<1>1. /\ UNCHANGED stored
      /\ RunsOK /\ KeysOK /\ StoredOK /\ ExecutingOK /\ GenerationsOK
  BY DEF Down, KeyGenerationInv
<1>2. /\ DOMAIN generations' = Servers
      /\ \A x \in Servers : DOMAIN generations'[x] = Accounts
      /\ \A b \in Accounts : generations'[p][b] = None
      /\ \A x \in Servers : x # p => generations'[x] = generations[x]
  BY <1>1 DEF Down, GenerationsOK
<1>3. GenerationsOK'
  <2> SUFFICES ASSUME NEW x \in Servers, NEW b \in Accounts
               PROVE  GenerationOK(x, generations'[x][b])
    BY <1>2 DEF GenerationsOK, GenerationOK
  <2>1. CASE x = p
    BY <1>2, <2>1 DEF GenerationOK
  <2>2. CASE x # p
    BY <1>1, <1>2, <2>2 DEF GenerationsOK
  <2> QED BY <2>1, <2>2
<1>4. ExecutingOK'
  <2>1. /\ DOMAIN executing' = Servers
        /\ \A x \in Servers : executing'[x] # None =>
             executing'[x] = executing[x] /\ x # p
    BY DEF Down, Broken, MutexFree
  <2> QED BY <1>1, <1>2, <2>1, ExecutingKept
<1>5. /\ DOMAIN runs' = Runs
      /\ \A r \in Runs :
           \/ runs'[r] = runs[r]
           \/ runs'[r] = [phase |-> "failed"]
           \/ /\ runs[r].phase = "committing"
              /\ runs'[r] = Replied(runs[r], p, {})
  <2>1. DOMAIN runs' = Runs
    BY DEF Down
  <2>2. ASSUME NEW r \in Runs, Active(r), ~Dies(r, p),
               p \in runs[r].held \/ r \in R
        PROVE  /\ runs[r].phase = "committing"
               /\ runs'[r] = Replied(runs[r], p, {})
    <3>1. runs[r].phase = "committing"
      BY <2>2 DEF Dies
    <3>2. runs[r] = [phase |-> "committing", account |-> runs[r].account,
                     home |-> runs[r].home, threshold |-> runs[r].threshold,
                     participants |-> runs[r].participants,
                     held |-> runs[r].held, replies |-> runs[r].replies]
      BY <1>1, <3>1, CommittingFacts DEF RunsOK
    <3>3. runs'[r] = [runs[r] EXCEPT !.replies[p] = {}, !.held = @ \ {p}]
      BY <2>2 DEF Down
    <3> QED BY <3>1, <3>2, <3>3 DEF Replied
  <2>3. ASSUME NEW r \in Runs, ~(/\ Active(r) /\ ~Dies(r, p)
                                 /\ p \in runs[r].held \/ r \in R)
        PROVE  runs'[r] = runs[r] \/ runs'[r] = [phase |-> "failed"]
    BY <2>3 DEF Down
  <2> QED BY <2>1, <2>2, <2>3
<1>6. ASSUME NEW r \in Runs
      PROVE  /\ RunOK(runs'[r])
             /\ \A x \in Servers : GotKey(runs'[r], x) => KeptKey(r, x)
  <2>0. RunOK(runs[r])
    BY <1>1 DEF RunsOK
  <2>1. CASE runs'[r] = runs[r]
    BY <2>0, <2>1 DEF KeptKey
  <2>2. CASE runs'[r] = [phase |-> "failed"]
    <3>1. runs'[r].phase = "failed"
      BY <2>2
    <3> QED BY <3>1 DEF RunOK, GotKey
  <2>3. CASE runs[r].phase = "committing" /\ runs'[r] = Replied(runs[r], p, {})
    <3>1. {} \in SUBSET Polynomials
      OBVIOUS
    <3> QED BY <2>0, <2>3, <3>1, RepliedOK DEF KeptKey
  <2> QED BY <1>5, <2>1, <2>2, <2>3
<1>7. RunsOK'
  BY <1>5, <1>6 DEF RunsOK
<1>8. KeysOK'
  <2>1. Grows
    BY <1>1 DEF Grows
  <2> QED BY <1>1, <1>6, <2>1, KeysMoved
<1> QED BY <1>1, <1>3, <1>4, <1>7, <1>8, StoredKept DEF KeyGenerationInv
-----------------------------------------------------------------------------
(***************************************************************************)
(* The theorems.                                                           *)
(***************************************************************************)
LEMMA KeyGenerationInit ==
  ASSUME Init
  PROVE  KeyGenerationInv
<1>1. GenerationsOK
  BY DEF Init, GenerationsOK, GenerationOK
<1>2. ExecutingOK
  BY DEF Init, ExecutingOK, ExecutionOK
<1>3. StoredOK
  BY DEF Init, StoredOK, ShareOK
<1>4. DOMAIN runs = Runs /\ \A r \in Runs : runs[r].phase = "new"
  BY DEF Init
<1>5. RunsOK
  BY <1>4 DEF RunsOK, RunOK
<1>6. KeysOK
  BY <1>4 DEF KeysOK, GotKey
<1> QED BY <1>1, <1>2, <1>3, <1>5, <1>6 DEF KeyGenerationInv

LEMMA KeyGenerationNext ==
  ASSUME KeyGenerationInv, [Next]_vars
  PROVE  KeyGenerationInv'
<1>1. ASSUME NEW r \in Runs, OnGenerate(r) \/ Drive(r)
      PROVE  KeyGenerationInv'
  <2>1. CASE CommitPanics(r)
    <3>1. /\ runs[r].phase = "committing"
          /\ \E p \in Reachable(r) : Down(p, {r})
      BY <2>1 DEF CommitPanics
    <3>2. PICK p \in Servers : Down(p, {r})
      BY <3>1, CommitFacts
    <3>3. PICK R \in SUBSET Runs : R = {r}
      OBVIOUS
    <3> QED BY <3>1, <3>2, <3>3, DownStep
  <2> QED BY <1>1, <2>1, OnGenerateStep, ConnectToTargetStep, OnPrepareStep,
             OnExecuteStep, StartCommitStep, ConnectToCommitStep, OnCommitStep,
             FinishGenerateStep DEF Drive
<1>2. ASSUME NEW p \in Servers, Exchange(p)
      PROVE  KeyGenerationInv'
  BY <1>2, ConnectToHigherStep, SendContributionStep, ExecuteReturnsStep
     DEF Exchange
<1>3. CASE Fault
  <2>1. CASE Lose
    BY <2>1, PrepareLostStep, ExecuteLostStep, CommitLostStep,
       ContributionLostStep DEF Lose
  <2>2. CASE Expire \/ OnAbort
    <3>1. PICK P \in SUBSET Servers, a \in Accounts : Forget(P, a)
      <4>1. CASE Expire
        BY <4>1 DEF Expire
      <4>2. CASE OnAbort
        <5>1. PICK p \in Servers, a \in Accounts : Forget({p}, a)
          BY <4>2 DEF OnAbort
        <5>2. {p} \in SUBSET Servers
          OBVIOUS
        <5> QED BY <5>1, <5>2
      <4> QED BY <2>2, <4>1, <4>2
    <3> QED BY <3>1, ForgetManyStep
  <2>3. ASSUME NEW p \in Servers, Crash(p)
        PROVE  KeyGenerationInv'
    BY <2>3, DownStep DEF Crash
  <2> QED BY <1>3, <2>1, <2>2, <2>3 DEF Fault
<1>4. CASE UNCHANGED vars
  <2>1. UNCHANGED <<generations, executing, stored, runs>>
    BY <1>4 DEF vars
  <2> QED BY <2>1, RunsKept, RestKept DEF KeyGenerationInv
<1> QED BY <1>1, <1>2, <1>3, <1>4 DEF Next

\* The inductive invariant holds throughout, whatever is lost, expires,
\* crashes or is tried again meanwhile.
THEOREM KeyGenerationInvariant == Spec => []KeyGenerationInv
<1>1. Init => KeyGenerationInv
  BY KeyGenerationInit
<1>2. KeyGenerationInv /\ [Next]_vars => KeyGenerationInv'
  BY KeyGenerationNext
<1> QED BY <1>1, <1>2, PTL DEF Spec

\* Type correctness: a generation in memory always holds the contribution of
\* the server that OnPrepare made it at.
THEOREM TypeCorrect == Spec => []TypeOK
<1>1. KeyGenerationInv => TypeOK
  BY DEF KeyGenerationInv, TypeOK, GenerationsOK, GenerationOK, ExecutingOK,
         ExecutionOK, StoredOK, ShareOK, RunsOK, RunOK
<1> QED BY <1>1, KeyGenerationInvariant, PTL

\* What the coordinator reports, the participants can do: when OnGenerate
\* answers with a public key, each of the participants has stored a share
\* for it and the threshold is enough to sign.
THEOREM Signable == Spec => []SuccessMeansSignable
<1>1. KeyGenerationInv => SuccessMeansSignable
  <2> SUFFICES ASSUME KeyGenerationInv, NEW r \in Runs, runs[r].phase = "done",
                      NEW p \in runs[r].participants
               PROVE  LET share == stored[p][runs[r].account]
                      IN /\ share # None
                         /\ share.polys = runs[r].pubKey
                         /\ \A f \in share.polys : f.threshold <= runs[r].threshold
    BY DEF SuccessMeansSignable
  <2>1. /\ runs[r] \in Finished
        /\ \A f \in runs[r].pubKey : f.threshold <= runs[r].threshold
    BY DEF KeyGenerationInv, RunsOK, RunOK
  <2>2. p \in Servers /\ GotKey(runs[r], p) /\ KeyFrom(runs[r], p) = runs[r].pubKey
    BY <2>1 DEF Finished, GotKey, KeyFrom
  <2> QED BY <2>1, <2>2 DEF KeyGenerationInv, KeysOK
<1> QED BY <1>1, KeyGenerationInvariant, PTL

\* No participant's contribution is missing from a key that is reported.
THEOREM Joint == Spec => []KeyIsJoint
<1>1. KeyGenerationInv => KeyIsJoint
  <2> SUFFICES ASSUME KeyGenerationInv, NEW r \in Runs, runs[r].phase = "done",
                      NEW p \in runs[r].participants
               PROVE  \E f \in runs[r].pubKey : p = f.owner
    BY DEF KeyIsJoint
  <2>1. runs[r] \in Finished
    BY DEF KeyGenerationInv, RunsOK, RunOK
  <2>2. /\ p \in Servers /\ runs[r].account \in Accounts
        /\ GotKey(runs[r], p) /\ KeyFrom(runs[r], p) = runs[r].pubKey
    BY <2>1 DEF Finished, GotKey, KeyFrom
  <2>3. /\ stored[p][runs[r].account] # None
        /\ stored[p][runs[r].account].polys = runs[r].pubKey
    BY <2>2 DEF KeyGenerationInv, KeysOK
  <2>4. ShareOK(p, stored[p][runs[r].account])
    BY <2>2 DEF KeyGenerationInv, StoredOK
  <2> QED BY <2>3, <2>4 DEF ShareOK
<1> QED BY <1>1, KeyGenerationInvariant, PTL

\* Two generations of one account that are both reported to have succeeded
\* have no participant in common: a server answers one of them only.
THEOREM OneKey == Spec => []OneKeyPerName
<1>1. KeyGenerationInv => OneKeyPerName
  <2> SUFFICES ASSUME KeyGenerationInv, NEW r \in Runs, NEW s \in Runs, r # s,
                      runs[r].phase = "done", runs[s].phase = "done",
                      runs[r].account = runs[s].account,
                      NEW p \in runs[r].participants, p \in runs[s].participants
               PROVE  FALSE
    BY DEF OneKeyPerName
  <2>1. runs[r] \in Finished
    BY DEF KeyGenerationInv, RunsOK, RunOK
  <2>2. p \in Servers /\ GotKey(runs[r], p) /\ GotKey(runs[s], p)
    BY <2>1 DEF Finished, GotKey
  <2> QED BY <2>2 DEF KeyGenerationInv, KeysOK
<1> QED BY <1>1, KeyGenerationInvariant, PTL
=============================================================================
