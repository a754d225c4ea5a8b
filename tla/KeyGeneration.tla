--------------------------- MODULE KeyGeneration ---------------------------
(***************************************************************************)
(* Distributed key generation (services/process, sender, receiver, peers): *)
(* a server that is asked to generate an account drives a set of servers   *)
(* through prepare, execute and commit.  There is no abort on failure, a   *)
(* generation is known to a server by the account's name alone, and any    *)
(* server may be asked to generate the same account at the same time.      *)
(*                                                                         *)
(* The cryptography is symbolic.  The contribution that a server makes up  *)
(* in OnPrepare is a polynomial: a token that names its owner and the call *)
(* of OnGenerate it was made for, with as many coefficients as the         *)
(* generation's threshold.                                                 *)
(* What a server receives of it is its value at the server's own id, which *)
(* verifies exactly when it was meant for that id; a share of the key is   *)
(* the set of polynomials it sums, and so is the public key.               *)
(*                                                                         *)
(* A remote call may fail before it has an effect or after; a server may   *)
(* crash at any time and comes back with its accounts and nothing else.    *)
(*                                                                         *)
(* A server has a pool of connections to every server, itself included.    *)
(* A call takes one before anything else and gives it back when it is over *)
(* or lost; the wait for one has no time limit.  Taking a connection and   *)
(* being served are one step unless the called server is busy.             *)
(***************************************************************************)
EXTENDS Integers, Sequences, FiniteSets

CONSTANTS
  Servers,       \* participant ids
  Accounts,
  Runs,          \* identifies calls of OnGenerate
  Requests,      \* what clients may ask for
  MaxConnections,  \* size of a pool of connections
  MaxFaults,     \* bound: lost calls, expiries, aborts and crashes
  None

IsRequest(q) ==
  /\ q.home \in Servers          \* the server that is asked
  /\ q.account \in Accounts
  /\ q.threshold \in Nat
  /\ q.n \in Nat                 \* number of participants
  /\ q.allowed \in BOOLEAN       \* the checker's answer

Thresholds == {q.threshold : q \in Requests}

Polynomials == [owner : Servers, run : Runs, threshold : Thresholds]

\* A generation in memory with contributions from P, and a share on disk.
GenerationRecords(P) ==
  [participants : SUBSET Servers, threshold : Thresholds, own : Polynomials,
   from : [P -> Polynomials]]

ShareRecords ==
  [participants : SUBSET Servers, threshold : Thresholds,
   polys : SUBSET Polynomials]

ASSUME KeyGenerationAssumption ==
  /\ Servers \subseteq Nat \ {0}
  /\ MaxConnections \in Nat \ {0}
  /\ MaxFaults \in Nat
  /\ \A q \in Requests : IsRequest(q)
  /\ None \notin ShareRecords
  /\ \A P \in SUBSET Servers : None \notin GenerationRecords(P)

VARIABLES
  generations,   \* generations[p][a]: in memory of p, or None
  executing,     \* the OnExecute that holds generationsMu of p, or None
  stored,        \* stored[p][a]: the account in p's wallet, or None
  runs,          \* runs[r]: how far the call of OnGenerate has come
  faults         \* number of faults so far

vars == <<generations, executing, stored, runs, faults>>

Init ==
  /\ generations = [p \in Servers |-> [a \in Accounts |-> None]]
  /\ executing   = [p \in Servers |-> None]
  /\ stored      = [p \in Servers |-> [a \in Accounts |-> None]]
  /\ runs        = [r \in Runs |-> [phase |-> "new"]]
  /\ faults      = 0

MutexFree(p) == executing[p] = None

Range(f) == {f[x] : x \in DOMAIN f}

Fail(r) == runs' = [runs EXCEPT ![r] = [phase |-> "failed"]]

Active(r) == runs[r].phase \notin {"new", "done", "failed"}

\* The connections from x to p that are taken: by runs, and by OnExecute at x.
InUse(x, p) ==
  Cardinality({r \in Runs : Active(r) /\ runs[r].home = x /\ p \in runs[r].held})
    + IF executing[x] # None /\ executing[x].to = p THEN 1 ELSE 0

Room(x, p) == InUse(x, p) < MaxConnections

\* The run has a connection to p or can have one.
Connects(r, p) == p \in runs[r].held \/ Room(runs[r].home, p)

\* The connection is obtained, but p is busy.
ObtainConnection(r, p) ==
  /\ p \notin runs[r].held /\ Room(runs[r].home, p) /\ ~MutexFree(p)
  /\ runs' = [runs EXCEPT ![r].held = @ \cup {p}]
  /\ UNCHANGED <<generations, executing, stored>>
-----------------------------------------------------------------------------
(***************************************************************************)
(* OnGenerate.  Suitable returns any n peers, in any order.                *)
(***************************************************************************)
Acceptable(q) ==
  /\ q.n # 0
  /\ q.threshold <= q.n
  /\ q.threshold > q.n \div 2
  /\ stored[q.home][q.account] = None
  /\ q.allowed

Suitable(n) ==
  {s \in [1 .. n -> Servers] : \A i, j \in 1 .. n : s[i] = s[j] => i = j}

\* The model's wallets are distributed ones, in which an account for one
\* participant cannot be created.
OnGenerate(r) ==
  /\ runs[r].phase = "new"
  /\ \E q \in Requests :
       \/ /\ ~Acceptable(q) \/ q.n = 1 \/ Suitable(q.n) = {}
          /\ Fail(r)
       \/ /\ Acceptable(q) /\ q.n > 1
          /\ \E s \in Suitable(q.n) :
               runs' = [runs EXCEPT ![r] =
                 [phase |-> "prepare", home |-> q.home, account |-> q.account,
                  threshold |-> q.threshold, participants |-> s, next |-> 1,
                  held |-> {}]]
  /\ UNCHANGED <<generations, executing, stored>>

Target(r) == runs[r].participants[runs[r].next]

\* The call to the current participant has succeeded: on to the next one,
\* or to the next phase.
Advance(r, phase) ==
  IF runs[r].next < Len(runs[r].participants)
  THEN [runs EXCEPT ![r].next = @ + 1, ![r].held = {}, ![r].phase =
          IF @ = "executing" THEN "execute" ELSE @]
  ELSE [runs EXCEPT ![r].next = 1, ![r].held = {}, ![r].phase = phase]

ConnectToTarget(r) ==
  runs[r].phase \in {"prepare", "execute"} /\ ObtainConnection(r, Target(r))

\* Mutants: the contribution is the coordinator's, the same for everyone;
\* the server's own contribution is not recorded.
InstallShared(r, p) ==
  LET poly == [owner |-> runs[r].home, run |-> r,
               threshold |-> runs[r].threshold]
  IN generations' = [generations EXCEPT ![p][runs[r].account] =
       [participants |-> Range(runs[r].participants),
        threshold    |-> runs[r].threshold,
        own          |-> poly,
        from         |-> [x \in {p} |-> poly]]]

InstallEmpty(r, p) ==
  generations' = [generations EXCEPT ![p][runs[r].account] =
       [participants |-> Range(runs[r].participants),
        threshold    |-> runs[r].threshold,
        own          |-> [owner |-> p, run |-> r,
                          threshold |-> runs[r].threshold],
        from         |-> << >>]]

\* OnPrepare at p: a new generation that holds p's own contribution.
Install(r, p) ==
  LET poly == [owner |-> p, run |-> r, threshold |-> runs[r].threshold]
  IN generations' = [generations EXCEPT ![p][runs[r].account] =
       [participants |-> Range(runs[r].participants),
        threshold    |-> runs[r].threshold,
        own          |-> poly,
        from         |-> [x \in {p} |-> poly]]]

Free(p, a) == MutexFree(p) /\ generations[p][a] = None

OnPrepare(r) ==
  /\ runs[r].phase = "prepare" /\ Connects(r, Target(r))
  /\ LET p == Target(r)
     IN \/ /\ Free(p, runs[r].account)
           /\ Install(r, p)
           /\ runs' = Advance(r, "execute")
        \/ /\ MutexFree(p) /\ ~Free(p, runs[r].account)     \* in progress
           /\ Fail(r)
           /\ UNCHANGED generations
  /\ UNCHANGED <<executing, stored>>

\* The request is lost, or the answer is.
PrepareLost(r) ==
  /\ runs[r].phase = "prepare" /\ Connects(r, Target(r))
  /\ \/ UNCHANGED generations
     \/ Free(Target(r), runs[r].account) /\ Install(r, Target(r))
  /\ Fail(r)
  /\ UNCHANGED <<executing, stored>>
-----------------------------------------------------------------------------
(***************************************************************************)
(* OnExecute holds the server's mutex while it swaps contributions, one    *)
(* remote call at a time and in any order, with the participants of a      *)
(* higher id.                                                              *)
(***************************************************************************)
\* Mutant: a server swaps with every other participant.
HigherAndLower(p, participants) == participants \ {p}

Higher(p, participants) == {q \in participants : q > p}

OnExecute(r) ==
  /\ runs[r].phase = "execute"
  /\ LET p == Target(r)
         g == generations[p][runs[r].account]
     IN /\ Connects(r, p) /\ MutexFree(p)
        /\ \/ /\ g # None
              /\ executing' = [executing EXCEPT ![p] =
                   [run |-> r, account |-> runs[r].account,
                    todo |-> Higher(p, g.participants), to |-> None]]
              /\ runs' = [runs EXCEPT ![r].phase = "executing", ![r].held = {p}]
           \/ /\ g = None                           \* not in progress
              /\ Fail(r)
              /\ UNCHANGED executing
  /\ UNCHANGED <<generations, stored>>

\* The request is lost, or the client goes away and OnGenerate ends while
\* the participant goes on.
ExecuteLost(r) ==
  /\ \/ runs[r].phase = "execute" /\ Connects(r, Target(r))
     \/ runs[r].phase = "executing"
  /\ Fail(r)
  /\ UNCHANGED <<generations, executing, stored>>

\* OnExecute at p has failed; the run that waits for it, if it still does,
\* is told.
ExecuteFails(p) ==
  /\ executing' = [executing EXCEPT ![p] = None]
  /\ \/ runs[executing[p].run].phase = "executing" /\ Fail(executing[p].run)
     \/ runs[executing[p].run].phase # "executing" /\ UNCHANGED runs

With(from, p, poly) ==
  [x \in DOMAIN from \cup {p} |-> IF x = p THEN poly ELSE from[x]]

\* OnContribute at q stores what p sent, whether or not p is one of the
\* generation's participants; it has an answer only for those.
OnContribute(p, q, a) ==
  [generations EXCEPT ![q][a].from = With(@, p, generations[p][a].own)]

Swappable(p, q, a) ==
  /\ p \in generations[q][a].participants
  /\ q \notin DOMAIN generations[p][a].from

\* Whom p is calling or may call next.
Callees(p) ==
  IF executing[p].to # None THEN {executing[p].to}
  ELSE {q \in executing[p].todo : Room(p, q)}

ConnectToHigher(p) ==
  /\ ~MutexFree(p) /\ executing[p].to = None
  /\ \E q \in Callees(p) : /\ ~MutexFree(q)
                          /\ executing' = [executing EXCEPT ![p].to = q]
  /\ UNCHANGED <<generations, stored, runs>>

SendContribution(p) ==
  /\ ~MutexFree(p)
  /\ LET a == executing[p].account
     IN \E q \in Callees(p) :
          /\ MutexFree(q)
          /\ \/ /\ generations[q][a] # None /\ Swappable(p, q, a)
                /\ generations' = [OnContribute(p, q, a) EXCEPT
                     ![p][a].from = With(@, q, generations[q][a].own)]
                /\ executing' = [executing EXCEPT ![p].todo = @ \ {q}, ![p].to = None]
                /\ UNCHANGED runs
             \/ /\ generations[q][a] # None /\ ~Swappable(p, q, a)
                /\ generations' = OnContribute(p, q, a)
                /\ ExecuteFails(p)
             \/ /\ generations[q][a] = None
                /\ UNCHANGED generations
                /\ ExecuteFails(p)
  /\ UNCHANGED stored

ContributionLost(p) ==
  /\ ~MutexFree(p)
  /\ LET a == executing[p].account
     IN \E q \in Callees(p) :
          \/ UNCHANGED generations
          \/ /\ MutexFree(q) /\ generations[q][a] # None
             /\ generations' = OnContribute(p, q, a)
  /\ ExecuteFails(p)
  /\ UNCHANGED stored

ExecuteReturns(p) ==
  /\ ~MutexFree(p) /\ executing[p].todo = {}
  /\ executing' = [executing EXCEPT ![p] = None]
  /\ \/ /\ runs[executing[p].run].phase = "executing"
        /\ runs' = Advance(executing[p].run, "commit")
     \/ /\ runs[executing[p].run].phase # "executing"
        /\ UNCHANGED runs
  /\ UNCHANGED <<generations, stored>>
-----------------------------------------------------------------------------
(***************************************************************************)
(* OnCommit, called at all participants at once: an account is stored if   *)
(* there are as many contributions as participants and the wallet has no   *)
(* account of that name; a failure leaves the generation in place.         *)
(***************************************************************************)
StartCommit(r) ==
  /\ runs[r].phase = "commit"
  /\ runs' = [runs EXCEPT ![r] =
       [phase |-> "committing", account |-> @.account, home |-> @.home,
        threshold |-> @.threshold, participants |-> @.participants,
        held |-> {}, replies |-> [p \in Range(@.participants) |-> None]]]
  /\ UNCHANGED <<generations, executing, stored>>

Complete(g) == Cardinality(DOMAIN g.from) = Cardinality(g.participants)

\* A contribution with more coefficients than the generation's threshold is
\* an index out of range in OnCommit, which takes the server down.
Oversized(g) == \E q \in DOMAIN g.from : g.from[q].threshold > g.threshold

Share(g) == [participants |-> g.participants, threshold |-> g.threshold,
             polys |-> Range(g.from)]

\* Mutant: an account of that name is written over.
CanStoreAgain(p, a) ==
  LET g == generations[p][a]
  IN MutexFree(p) /\ g # None /\ Complete(g) /\ ~Oversized(g)

CanStore(p, a) ==
  LET g == generations[p][a]
  IN /\ MutexFree(p) /\ g # None /\ stored[p][a] = None
     /\ Complete(g) /\ ~Oversized(g)

StoreDistributedKey(p, a) ==
  /\ stored' = [stored EXCEPT ![p][a] = Share(generations[p][a])]
  /\ generations' = [generations EXCEPT ![p][a] = None]

Unanswered(r) == {p \in DOMAIN runs[r].replies : runs[r].replies[p] = None}
Reachable(r) == {p \in Unanswered(r) : Connects(r, p)}

Reply(r, p, polys) ==
  runs' = [runs EXCEPT ![r].replies[p] = polys, ![r].held = @ \ {p}]

ConnectToCommit(r) ==
  /\ runs[r].phase = "committing"
  /\ \E p \in Unanswered(r) : ObtainConnection(r, p)

OnCommit(r) ==
  /\ runs[r].phase = "committing"
  /\ \E p \in Reachable(r) :
       LET a == runs[r].account
           g == generations[p][a]
       IN \/ /\ CanStore(p, a)
             /\ StoreDistributedKey(p, a)
             /\ Reply(r, p, Share(g).polys)
          \/ /\ MutexFree(p) /\ ~CanStore(p, a)
             /\ ~(g # None /\ Complete(g) /\ Oversized(g))
             /\ Reply(r, p, {})
             /\ UNCHANGED <<generations, stored>>
  /\ UNCHANGED executing

\* The request or the answer is lost, or the account is stored but cannot be
\* retrieved, which leaves the generation where it is.
CommitLost(r) ==
  /\ runs[r].phase = "committing"
  /\ \E p \in Reachable(r) :
       LET a == runs[r].account
       IN /\ \/ UNCHANGED <<generations, stored>>
             \/ CanStore(p, a) /\ StoreDistributedKey(p, a)
             \/ /\ CanStore(p, a)
                /\ stored' = [stored EXCEPT ![p][a] = Share(generations[p][a])]
                /\ UNCHANGED generations
          /\ Reply(r, p, {})
  /\ UNCHANGED executing

(***************************************************************************)
(* The coordinator's verdict.  A window of as many participants as the     *)
(* threshold signs the confirmation data: the composite signature is good  *)
(* if their shares sum the same polynomials, the public key is theirs, and *)
(* none has more coefficients than there are signatures.                   *)
(***************************************************************************)
SamePubKeys(run) ==
  \A p, q \in DOMAIN run.replies : run.replies[p] = run.replies[q]

\* Mutant: the composite signatures are not verified.
CompositesUnverified(run) == TRUE

CompositesVerify(run) ==
  \A i \in 0 .. Len(run.participants) - run.threshold :
    \A j \in 1 .. run.threshold :
      LET polys == run.replies[run.participants[i + j]]
      IN /\ polys = run.replies[run.participants[1]]
         /\ \A f \in polys : f.threshold <= run.threshold

\* Mutant: a public key from every participant is good enough.
ConfirmReplies(run) ==
  \A p \in DOMAIN run.replies : run.replies[p] # {}

ConfirmGeneration(run) ==
  /\ \A p \in DOMAIN run.replies : run.replies[p] # {}
  /\ SamePubKeys(run)
  /\ CompositesVerify(run)

FinishGenerate(r) ==
  /\ runs[r].phase = "committing"
  /\ Unanswered(r) = {}
  /\ \/ /\ ConfirmGeneration(runs[r])
        /\ runs' = [runs EXCEPT ![r] =
             [phase |-> "done", account |-> @.account,
              threshold |-> @.threshold,
              participants |-> Range(@.participants),
              pubKey |-> @.replies[@.participants[1]]]]
     \/ /\ ~ConfirmGeneration(runs[r])
        /\ Fail(r)
  /\ UNCHANGED <<generations, executing, stored>>
-----------------------------------------------------------------------------
\* A generation older than the timeout is forgotten when it is next looked
\* up, which needs the mutex; time passes for all servers alike, so several
\* may forget at once.  A peer's abort has the same effect at one server.
Forget(P, a) ==
  /\ \A p \in P : MutexFree(p) /\ generations[p][a] # None
  /\ generations' = [p \in Servers |->
       IF p \in P THEN [generations[p] EXCEPT ![a] = None] ELSE generations[p]]
  /\ UNCHANGED <<executing, stored, runs>>

Expire  == \E P \in SUBSET Servers \ {{}}, a \in Accounts : Forget(P, a)
OnAbort == \E p \in Servers, a \in Accounts : Forget({p}, a)

\* The calls that a server is serving, or keeps waiting, when it goes down
\* fail; so do the calls of OnExecute that were waiting for it in turn.  Its
\* own runs die with it.  The runs in R are being served in this very step.
Broken(p) ==
  {q \in Servers : ~MutexFree(q) /\ (q = p \/ executing[q].to = p)}

Dies(r, p) ==
  \/ runs[r].home = p
  \/ /\ runs[r].phase # "committing"
     /\ \/ p \in runs[r].held
        \/ /\ runs[r].phase = "executing"
           /\ \E q \in Broken(p) : executing[q].run = r

Down(p, R) ==
  /\ generations' = [generations EXCEPT ![p] = [a \in Accounts |-> None]]
  /\ executing' = [q \in Servers |->
       IF q \in Broken(p) THEN None ELSE executing[q]]
  /\ runs' = [r \in Runs |->
       CASE ~Active(r) -> runs[r]
         [] Active(r) /\ Dies(r, p) -> [phase |-> "failed"]
         [] OTHER -> IF p \in runs[r].held \/ r \in R
                     THEN [runs[r] EXCEPT !.replies[p] = {}, !.held = @ \ {p}]
                     ELSE runs[r]]
  /\ UNCHANGED stored

Crash(p) == Down(p, {})

CommitPanics(r) ==
  /\ runs[r].phase = "committing"
  /\ \E p \in Reachable(r) :
       LET g == generations[p][runs[r].account]
       IN /\ MutexFree(p) /\ g # None /\ Complete(g) /\ Oversized(g)
          /\ Down(p, {r})

\* What a run and a server do when nothing is lost.
Drive(r) ==
  \/ ConnectToTarget(r) \/ ConnectToCommit(r)
  \/ OnPrepare(r) \/ OnExecute(r) \/ StartCommit(r) \/ OnCommit(r)
  \/ CommitPanics(r) \/ FinishGenerate(r)

Exchange(p) ==
  ConnectToHigher(p) \/ SendContribution(p) \/ ExecuteReturns(p)

Lose ==
  \/ \E r \in Runs : PrepareLost(r) \/ ExecuteLost(r) \/ CommitLost(r)
  \/ \E p \in Servers : ContributionLost(p)

Fault ==
  /\ faults < MaxFaults
  /\ faults' = faults + 1
  /\ \/ Lose \/ Expire \/ OnAbort
     \/ \E p \in Servers : Crash(p)

Next ==
  \/ \E r \in Runs : (OnGenerate(r) \/ Drive(r)) /\ UNCHANGED faults
  \/ \E p \in Servers : Exchange(p) /\ UNCHANGED faults
  \/ Fault

Spec == Init /\ [][Next]_vars

\* A call that can be served is served; nothing has to be lost or to crash.
FairSpec ==
  /\ Spec
  /\ \A r \in Runs : WF_vars(Drive(r) /\ UNCHANGED faults)
  /\ \A p \in Servers : WF_vars(Exchange(p) /\ UNCHANGED faults)
-----------------------------------------------------------------------------
(***************************************************************************)
(* Properties.                                                             *)
(***************************************************************************)
\* Type invariant.
TypeOK ==
  /\ \A p \in Servers, a \in Accounts :
       LET g == generations[p][a]
           s == stored[p][a]
       IN /\ g # None => /\ g \in GenerationRecords(DOMAIN g.from)
                         /\ DOMAIN g.from \subseteq Servers
                         /\ p \in g.participants
                         /\ p \in DOMAIN g.from /\ g.from[p] = g.own
          /\ s # None => s \in ShareRecords
  /\ \A p \in Servers : executing[p] # None =>
       /\ executing[p].todo \subseteq Servers /\ executing[p].run \in Runs
       /\ executing[p].to \in executing[p].todo \cup {None}
  /\ \A r \in Runs :
       runs[r].phase \in {"new", "prepare", "execute", "executing", "commit",
                          "committing", "done", "failed"}

\* If a generation is reported to have succeeded then every participant has
\* a share on disk that signs for the reported public key, and as many of
\* them as the threshold are enough: whatever other generations of the same
\* account were under way, expired, were lost or crashed meanwhile or since.
SuccessMeansSignable ==
  \A r \in Runs : runs[r].phase = "done" =>
    \A p \in runs[r].participants :
      LET share == stored[p][runs[r].account]
      IN /\ share # None
         /\ share.polys = runs[r].pubKey
         /\ \A f \in share.polys : f.threshold <= runs[r].threshold

\* A reported key is joint: no participant's own secret is missing from it,
\* so none of the others can know it alone.
KeyIsJoint ==
  \A r \in Runs : runs[r].phase = "done" =>
    runs[r].participants \subseteq {f.owner : f \in runs[r].pubKey}

\* A name has one key.  A generation may fail after some participants have
\* stored their shares, and be tried again with the same or with other
\* servers; two generations of one account that are both reported to have
\* succeeded have no participant in common.
OneKeyPerName ==
  \A r, s \in Runs :
    (/\ r # s /\ runs[r].phase = "done" /\ runs[s].phase = "done"
     /\ runs[r].account = runs[s].account)
    => runs[r].participants \cap runs[s].participants = {}

\* Every generation comes to an end: servers that hold their mutex while
\* they call each other, and connections while they wait for a busy server,
\* never wait in a circle, however few connections there are.
EveryGenerationEnds ==
  \A r \in Runs : runs[r].phase # "new" ~> runs[r].phase \in {"done", "failed"}
=============================================================================
