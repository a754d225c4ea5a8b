--------------------------- MODULE SigningProofs ---------------------------
(***************************************************************************)
(* Proofs about Signing.                                                   *)
(***************************************************************************)
EXTENDS Signing, RulesProofs, TLAPS

\* What is known of a request that clients may send.
LEMMA RequestFacts ==
  ASSUME NEW r \in Requests
  PROVE  /\ IsRequest(r)
         /\ r # NoRequest
         /\ r.entries \in Seq(EntryOf(ActionOf(r.method)))
         /\ \A i \in DOMAIN r.entries :
              /\ r.entries[i].id \in Ids
              /\ r.entries[i].data \in DataOf(ActionOf(r.method))
<1>1. IsRequest(r)
  BY ConstantsAssumption
<1>2. r # NoRequest
  BY <1>1 DEF IsRequest, NoRequest, SingleMethods, BatchMethods
<1>3. r.entries \in Seq(EntryOf(ActionOf(r.method)))
  BY <1>1 DEF IsRequest
<1>4. ASSUME NEW i \in DOMAIN r.entries
      PROVE  r.entries[i].id \in Ids /\ r.entries[i].data \in DataOf(ActionOf(r.method))
  <2>1. r.entries[i] \in EntryOf(ActionOf(r.method))
    BY <1>3, <1>4
  <2> QED BY <2>1 DEF EntryOf
<1> QED BY <1>1, <1>2, <1>3, <1>4

\* The entries of the request that a goroutine serves are a sequence.
LEMMA EntriesFacts ==
  ASSUME TypeOK, NEW g \in Goroutines
  PROVE  /\ Len(Entries(g)) \in Nat
         /\ Indices(g) = 1 .. Len(Entries(g))
         /\ \A i \in Indices(g) :
              /\ KeyAt(g, i) \in Keys \cup {NoAccount}
              /\ DataAt(g, i) \in DataOf(Action(g))
<1>1. req[g] \in Requests \cup {NoRequest}
  BY DEF TypeOK, GoroutineOK
<1>2. CASE req[g] = NoRequest
  BY <1>2 DEF NoRequest, Entries, Indices
<1>3. CASE req[g] \in Requests
  <2>1. req[g].entries \in Seq(EntryOf(ActionOf(req[g].method)))
    BY <1>3, RequestFacts
  <2>2. \A i \in DOMAIN req[g].entries : 
          Account[req[g].entries[i].id] \in Keys \cup {NoAccount}
    BY <1>3, RequestFacts, ConstantsAssumption
  <2>3. \A i \in DOMAIN req[g].entries : 
          req[g].entries[i].data \in DataOf(ActionOf(req[g].method))
    BY <1>3, RequestFacts
  <2> QED BY <2>1, <2>2, <2>3 DEF Entries, Indices, KeyAt, DataAt, Action
<1> QED BY <1>1, <1>2, <1>3

-----------------------------------------------------------------------------
(***************************************************************************)
(* Type correctness.  A step of g leaves what other goroutines have alone. *)
(***************************************************************************)
Same(h) ==
  /\ pc'[h] = pc[h] /\ req'[h] = req[h] /\ todo'[h] = todo[h]
  /\ locked'[h] = locked[h] /\ states'[h] = states[h]
  /\ result'[h] = result[h]

\* A step of one goroutine leaves what another goroutine has to itself, its
\* request, results, read states and count of locks, alone.
LEMMA StepFrame ==
  ASSUME TypeOK, NEW g \in Goroutines, Arrive(g) \/ Work(g)
  PROVE  /\ \A h \in Goroutines \ {g} : Same(h)
         /\ DOMAIN pc' = Goroutines /\ DOMAIN req' = Goroutines
         /\ DOMAIN todo' = Goroutines /\ DOMAIN locked' = Goroutines
         /\ DOMAIN states' = Goroutines /\ DOMAIN result' = Goroutines
<1> USE DEF TypeOK, Same
<1>1. CASE Arrive(g)
  BY <1>1 DEF Arrive, SignGeneric, Multisign, SignBeaconProposal,
     SignBeaconAttestation, SignBeaconAttestations, Receive
<1>2. CASE PreCheck(g)
  BY <1>2 DEF PreCheck, PreCheckPasses, PreCheckRefuses
<1>3. CASE PreCheckFailed(g) \/ RunRules(g)
  BY <1>3 DEF PreCheckFailed, RunRules
<1>4. CASE PreLock(g) \/ Lock(g) \/ PostLock(g) \/ Unlock(g)
  BY <1>4 DEF PreLock, Lock, PostLock, Unlock
<1>5. CASE FetchState(g)
  BY <1>5 DEF FetchState
<1>6. ASSUME NEW res, RulesDone(g, res)
      PROVE  /\ \A h \in Goroutines \ {g} : Same(h)
             /\ DOMAIN pc' = Goroutines /\ DOMAIN req' = Goroutines
             /\ DOMAIN todo' = Goroutines /\ DOMAIN locked' = Goroutines
             /\ DOMAIN states' = Goroutines /\ DOMAIN result' = Goroutines
  BY <1>6 DEF RulesDone
<1>7. CASE Rules(g) /\ ~FetchState(g)
  <2>1. \E res : RulesDone(g, res)
    BY <1>7 DEF Rules, OnSignAll, RefuseProposalDomain, FetchStateFails,
       OnSignBeaconProposal, OnSignBeaconAttestation,
       OnSignBeaconAttestations, ApproveAttestations
  <2> QED BY <1>6, <2>1
<1>8. CASE RulesReturn(g)
  BY <1>8 DEF RulesReturn
<1>9. CASE SignRoot(g) \/ Reply(g)
  BY <1>9 DEF SignRoot, Reply
<1> QED BY <1>1, <1>2, <1>3, <1>4, <1>5, <1>7, <1>8, <1>9 DEF Work

\* The type of the requests' methods and of what they carry.
LEMMA ActionFacts ==
  ASSUME TypeOK, NEW g \in Goroutines, pc[g] # "idle"
  PROVE  /\ req[g] \in Requests
         /\ Action(g) \in {"Sign", "SignBeaconProposal",
                           "SignBeaconAttestation"}
         /\ Action(g) = "SignBeaconProposal" =>
              Len(Entries(g)) = 1 /\ Indices(g) = {1}
<1>1. req[g] \in Requests
  BY DEF TypeOK, GoroutineOK
<1>2. Action(g) \in {"Sign", "SignBeaconProposal", "SignBeaconAttestation"}
  BY DEF Action, ActionOf
<1>3. ASSUME Action(g) = "SignBeaconProposal"
      PROVE  Len(Entries(g)) = 1
  BY <1>1, <1>3, RequestFacts
     DEF Action, ActionOf, IsRequest, SingleMethods, BatchMethods, Entries
<1>4. Len(Entries(g)) = 1 => Indices(g) = {1}
  BY EntriesFacts
<1> QED BY <1>1, <1>2, <1>3, <1>4

LockInv == TypeOK /\ \A g \in Goroutines : LocksOK(g)

\* The goroutine that moves, from its handler's first check to its reply,
\* stays in a well-formed state.
LEMMA GoroutineStep ==
  ASSUME LockInv, NEW g \in Goroutines, Arrive(g) \/ Work(g)
  PROVE  GoroutineOK(g)'
<1> USE DEF LockInv
<1>1. CASE Arrive(g)
  <2>1. PICK r \in Requests :
          /\ pc[g] = "idle"
          /\ req' = [req EXCEPT ![g] = r]
          /\ \/ /\ r.entries # << >> /\ Incomplete(r) = {}
                /\ pc' = [pc EXCEPT ![g] = "precheck"]
                /\ todo' = [todo EXCEPT ![g] = DOMAIN r.entries]
                /\ result' = [result EXCEPT ![g] =
                                [i \in DOMAIN r.entries |-> "UNKNOWN"]]
             \/ /\ pc' = [pc EXCEPT ![g] = "reply"]
                /\ result' = [result EXCEPT ![g] = Refusal(r)]
                /\ todo' = todo
          /\ locked' = locked
    BY <1>1 DEF Arrive, SignGeneric, Multisign, SignBeaconProposal,
       SignBeaconAttestation, SignBeaconAttestations, Receive
  <2>2. locked[g] = 0 /\ todo[g] = {}
    BY <2>1, EntriesFacts DEF TypeOK, GoroutineOK, NoRequest, Indices, LocksOK
  <2>3. Len(r.entries) \in Nat /\ DOMAIN r.entries = 1 .. Len(r.entries)
    BY RequestFacts
  <2>4. \A i \in DOMAIN Refusal(r) : Refusal(r)[i] \in Results
    BY <2>3 DEF Refusal, Results
  <2>5. r # NoRequest
    BY RequestFacts
  <2>6. /\ req'[g] = r /\ locked'[g] = 0
        /\ \/ /\ pc'[g] = "precheck" /\ todo'[g] = DOMAIN r.entries
              /\ result'[g] = [i \in DOMAIN r.entries |-> "UNKNOWN"]
           \/ /\ pc'[g] = "reply" /\ todo'[g] = {}
              /\ result'[g] = Refusal(r)
    BY <2>1, <2>2 DEF TypeOK
  <2> QED BY <2>3, <2>4, <2>5, <2>6
          DEF GoroutineOK, Indices, Entries, Pcs, Results
<1>2. CASE PreCheck(g)
  <2>1. GoroutineOK(g)
    BY DEF TypeOK
  <2>2. PICK i \in todo[g] :
          /\ pc[g] = "precheck" /\ pc' = pc /\ req' = req /\ locked' = locked
          /\ todo'[g] = todo[g] \ {i}
          /\ \/ result'[g] = result[g]
             \/ \E x \in {"DENIED", "FAILED"} :
                  result'[g] = [result[g] EXCEPT ![i] = x]
    BY <1>2 DEF PreCheck, PreCheckPasses, PreCheckRefuses, TypeOK
  <2>3. Indices(g)' = Indices(g) /\ Entries(g)' = Entries(g)
    BY <2>2 DEF Indices, Entries
  <2>4. /\ DOMAIN result'[g] = Indices(g)
        /\ \A j \in DOMAIN result'[g] : result'[g][j] \in Results
    BY <2>1, <2>2 DEF GoroutineOK, Results
  <2> HIDE DEF LockInv
  <2> QED BY <2>1, <2>2, <2>3, <2>4 DEF GoroutineOK
<1>3. CASE PreCheckFailed(g)
  BY <1>3 DEF PreCheckFailed, TypeOK, GoroutineOK, Pcs, Indices, Entries
<1>4. CASE RunRules(g)
  BY <1>4 DEF RunRules, TypeOK, GoroutineOK, Pcs, Results, Indices, Entries
<1>5. CASE PreLock(g) \/ PostLock(g)
  BY <1>5 DEF PreLock, PostLock, TypeOK, GoroutineOK, Pcs, Indices, Entries
<1>6. CASE Lock(g) \/ Unlock(g)
  BY <1>6, EntriesFacts DEF Lock, Unlock, TypeOK, GoroutineOK, Indices, Entries
<1>7. CASE FetchState(g)
  <2>1. \A i \in Indices(g) : KeyAt(g, i) \in Keys
    BY <1>7 DEF FetchState, ReadsState, LocksOK, InRules, KeysOK
  <2>2. \A i \in Indices(g) :
          /\ FetchProposalState(propDB[KeyAt(g, i)]) \in ProposalState
          /\ FetchAttestationState(attDB[KeyAt(g, i)]) \in AttestationState
    BY <2>1, ProposalStore, AttestationStore DEF TypeOK, ProposalState
  <2>3. /\ Action(g) \in {"SignBeaconProposal", "SignBeaconAttestation"}
        /\ pc' = [pc EXCEPT ![g] = "store"]
        /\ states' = [states EXCEPT ![g] = [i \in Indices(g) |->
                  IF Action(g) = "SignBeaconProposal"
                  THEN FetchProposalState(propDB[KeyAt(g, i)])
                  ELSE FetchAttestationState(attDB[KeyAt(g, i)])]]
        /\ UNCHANGED <<req, todo, locked, result>>
        /\ pc[g] = "rules"
    BY <1>7 DEF FetchState, ReadsState
  <2>4. Action(g)' = Action(g) /\ Indices(g)' = Indices(g)
    BY <2>3 DEF Action, Indices
  <2>5. \/ /\ Action(g)' = "SignBeaconProposal"
           /\ states'[g] \in [Indices(g)' -> ProposalState]
        \/ /\ Action(g)' = "SignBeaconAttestation"
           /\ states'[g] \in [Indices(g)' -> AttestationState]
    BY <2>2, <2>3, <2>4 DEF TypeOK
  <2> QED BY <2>3, <2>5 DEF TypeOK, GoroutineOK, Pcs, Indices, Entries
<1>8. ASSUME NEW res, RulesDone(g, res), pc[g] # "idle", DOMAIN res = Indices(g),
             \A i \in Indices(g) : res[i] \in Results
      PROVE  GoroutineOK(g)'
  BY <1>8 DEF RulesDone, TypeOK, GoroutineOK, Pcs, Indices, Entries
<1>9. CASE Rules(g) /\ ~FetchState(g)
  <2>1. PICK res : RulesDone(g, res) /\ pc[g] # "idle" /\ DOMAIN res = Indices(g)
                    /\ \A i \in Indices(g) : res[i] \in Results
    <3>1. CASE OnSignAll(g)
      BY <3>1 DEF OnSignAll, OnSign, ApproveIf, Results
    <3>2. CASE RefuseProposalDomain(g) \/ OnSignBeaconProposal(g)
      <4>1. /\ Action(g) = "SignBeaconProposal" /\ pc[g] # "idle"
            /\ \E x \in {"APPROVED", "DENIED", "FAILED"} :
                 RulesDone(g, << x >>)
        BY <3>2 DEF RefuseProposalDomain, OnSignBeaconProposal
      <4> QED BY <4>1, ActionFacts DEF Results
    <3>3. CASE FetchStateFails(g)
      BY <3>3 DEF FetchStateFails, ReadsState, All, Results
    <3>4. CASE OnSignBeaconAttestation(g) \/ OnSignBeaconAttestations(g)
      BY <3>4 DEF OnSignBeaconAttestation, OnSignBeaconAttestations,
         ApproveAttestations, AttestationResult, All, Results,
         RunSignBeaconAttestationChecks, ApproveIf
    <3> QED BY <1>9, <3>1, <3>2, <3>3, <3>4 DEF Rules
  <2> QED BY <1>8, <2>1
<1>10. CASE RulesReturn(g)
  BY <1>10 DEF RulesReturn, TypeOK, GoroutineOK, Pcs, Results, Indices, Entries
<1>11. CASE SignRoot(g)
  BY <1>11 DEF SignRoot, TypeOK, GoroutineOK, Results, Indices, Entries
<1>12. CASE Reply(g)
  BY <1>12 DEF Reply, TypeOK, GoroutineOK, Pcs, NoRequest, Indices, Entries,
     LocksOK
<1> QED BY <1>1, <1>2, <1>3, <1>4, <1>5, <1>6, <1>7, <1>9, <1>10, <1>11,
           <1>12 DEF Work

\* Nobody but g changes what g has, and nobody takes a lock that g holds.
LEMMA OtherGoroutines ==
  ASSUME LockInv, NEW g \in Goroutines, NEW h \in Goroutines, h # g,
         Arrive(g) \/ Work(g)
  PROVE  GoroutineOK(h)' /\ LocksOK(h)'
<1>1. Same(h)
  BY StepFrame DEF LockInv
<1>2. /\ Indices(h)' = Indices(h) /\ Entries(h)' = Entries(h)
      /\ Action(h)' = Action(h) /\ InRules(h)' = InRules(h)
      /\ \A i : KeyAt(h, i)' = KeyAt(h, i)
  BY <1>1 DEF Same, Indices, Entries, Action, KeyAt, InRules
<1>3. GoroutineOK(h)
  BY DEF LockInv, TypeOK
<1>4. GoroutineOK(h)'
  BY <1>1, <1>2, <1>3 DEF Same, GoroutineOK
<1>5. LocksOK(h) /\ LocksOK(g)
  BY DEF LockInv
<1>6. locked[h] \in Nat
  BY DEF LockInv, TypeOK
<1>7. \A i \in 1 .. locked[h] : owner'[KeyAt(h, i)] = h
  <2>1. SUFFICES ASSUME NEW i \in 1 .. locked[h]
                 PROVE  owner'[KeyAt(h, i)] = h
    OBVIOUS
  <2>2. owner[KeyAt(h, i)] = h
    BY <1>5 DEF LocksOK
  <2>3. CASE owner' = owner
    BY <2>2, <2>3
  <2>4. CASE Lock(g)
    <3>1. /\ owner[KeyAt(g, locked[g] + 1)] = NoOne
          /\ owner' = [owner EXCEPT ![KeyAt(g, locked[g] + 1)] = g]
      BY <2>4 DEF Lock
    <3>2. KeyAt(h, i) # KeyAt(g, locked[g] + 1)
      BY <2>2, <3>1, ConstantsAssumption
    <3> QED BY <2>2, <3>1, <3>2
  <2>5. CASE Unlock(g)
    <3>1. /\ locked[g] > 0
          /\ owner' = [owner EXCEPT ![KeyAt(g, locked[g])] = NoOne]
      BY <2>5 DEF Unlock
    <3>2. owner[KeyAt(g, locked[g])] = g
      BY <1>5, <3>1 DEF LocksOK, LockInv, TypeOK
    <3> QED BY <2>2, <3>1, <3>2
  <2>6. owner' = owner \/ Lock(g) \/ Unlock(g)
    BY DEF Arrive, Work, Rules, SignGeneric, Multisign, SignBeaconProposal,
       SignBeaconAttestation, SignBeaconAttestations, Receive, PreCheck,
       PreCheckFailed, RunRules, PreLock, PostLock, RulesReturn, SignRoot,
       Reply, OnSignAll, RefuseProposalDomain, FetchState, FetchStateFails,
       OnSignBeaconProposal, OnSignBeaconAttestation,
       OnSignBeaconAttestations, ApproveAttestations, RulesDone, lockVars
  <2> QED BY <2>3, <2>4, <2>5, <2>6
<1>8. KeysOK(h)' <=> KeysOK(h)
  BY <1>2 DEF KeysOK
<1>9. LocksOK(h)'
  BY <1>1, <1>2, <1>5, <1>7, <1>8 DEF LocksOK, Same
<1> QED BY <1>4, <1>9

\* The locks of the goroutine that takes the step.
LEMMA LocksStep ==
  ASSUME LockInv, NEW g \in Goroutines, Arrive(g) \/ Work(g)
  PROVE  LocksOK(g)'
<1>1. LocksOK(g) /\ locked[g] \in Nat /\ GoroutineOK(g)
  BY DEF LockInv, TypeOK
<1>2. CASE Arrive(g)
  <2>1. /\ pc[g] = "idle" /\ pc'[g] \in {"precheck", "reply"}
        /\ locked' = locked /\ owner' = owner
        /\ pc'[g] = "precheck" => todo'[g] = Indices(g)'
    BY <1>2 DEF Arrive, SignGeneric, Multisign, SignBeaconProposal,
       SignBeaconAttestation, SignBeaconAttestations, Receive, LockInv,
       TypeOK, Indices, lockVars
  <2> QED BY <1>1, <2>1 DEF LocksOK, InRules
<1>3. ASSUME owner' = owner, req' = req, locked' = locked, KeysOK(g),
             pc'[g] \in {"lock", "rules", "store", "unlock", "prelock"},
             pc'[g] = "prelock" => locked[g] = 0,
             pc'[g] \in {"rules", "store"} => locked[g] = Len(Entries(g))
      PROVE  LocksOK(g)'
  BY <1>1, <1>3
     DEF LocksOK, InRules, KeysOK, KeyAt, Indices, Entries
<1>4. CASE PreCheck(g)
  <2>1. PICK i \in todo[g] :
          /\ pc[g] = "precheck" /\ pc' = pc /\ req' = req
          /\ locked' = locked /\ owner' = owner
          /\ todo'[g] = todo[g] \ {i}
          /\ \/ result'[g] = result[g] /\ KeyAt(g, i) \in Keys
             \/ \E x \in {"DENIED", "FAILED"} :
                  result'[g] = [result[g] EXCEPT ![i] = x]
    BY <1>4, EntriesFacts
       DEF PreCheck, PreCheckPasses, PreCheckRefuses, LockInv, TypeOK,
           lockVars, Authorised, GoroutineOK
  <2>2. \A j \in Indices(g) \ todo'[g] :
          result'[g][j] = "UNKNOWN" => KeyAt(g, j) \in Keys
    BY <1>1, <2>1 DEF LocksOK, GoroutineOK
  <2> QED BY <1>1, <2>1, <2>2 DEF LocksOK, InRules, KeyAt, Indices
<1>5. CASE PreCheckFailed(g)
  BY <1>1, <1>5 DEF PreCheckFailed, LocksOK, InRules, LockInv, TypeOK
<1>6. CASE RunRules(g)
  <2>1. /\ pc[g] = "precheck" /\ todo[g] = {} /\ locked[g] = 0
        /\ \A i \in Indices(g) : result[g][i] = "UNKNOWN"
        /\ owner' = owner /\ req' = req /\ locked' = locked
    BY <1>1, <1>6 DEF RunRules, LocksOK, lockVars
  <2>2. CASE Repeats(g) = {}
    <3>1. \A i \in Indices(g) : KeyAt(g, i) \in Keys
      BY <1>1, <2>1 DEF LocksOK
    <3>2. ASSUME NEW i \in Indices(g), NEW j \in Indices(g),
                 KeyAt(g, i) = KeyAt(g, j)
          PROVE  i = j
      <4>1. i \in Nat /\ j \in Nat
        BY EntriesFacts DEF LockInv
      <4>2. ~(i < j) /\ ~(j < i)
        BY <2>2, <3>2 DEF Repeats
      <4> QED BY <4>1, <4>2
    <3>3. KeysOK(g)
      BY <3>1, <3>2 DEF KeysOK
    <3>4. pc'[g] = "prelock"
      BY <1>6, <2>2 DEF RunRules, LockInv, TypeOK
    <3> QED BY <1>3, <2>1, <3>3, <3>4
  <2>3. CASE Repeats(g) # {}
    <3>1. pc'[g] = "unlock"
      BY <1>6, <2>3 DEF RunRules, LockInv, TypeOK
    <3> QED BY <2>1, <3>1 DEF LocksOK, InRules
  <2> QED BY <2>2, <2>3
<1>7. CASE PreLock(g)
  BY <1>1, <1>3, <1>7 DEF PreLock, LocksOK, LockInv, TypeOK
<1>8. CASE Lock(g)
  <2>1. /\ pc[g] = "lock" /\ locked[g] < Len(Entries(g)) /\ pc' = pc
        /\ req' = req /\ locked'[g] = locked[g] + 1
        /\ owner' = [owner EXCEPT ![KeyAt(g, locked[g] + 1)] = g]
    BY <1>8 DEF Lock, LockInv, TypeOK
  <2>2. KeysOK(g)
    BY <1>1, <2>1 DEF LocksOK
  <2>3. locked[g] + 1 \in Indices(g)
    BY <1>1, <2>1, EntriesFacts DEF LockInv
  <2>4. KeyAt(g, locked[g] + 1) \in DOMAIN owner
    BY <2>2, <2>3 DEF KeysOK, LockInv, TypeOK
  <2>5. \A i \in 1 .. locked'[g] : owner'[KeyAt(g, i)] = g
    BY <1>1, <2>1, <2>4 DEF LocksOK
  <2> QED BY <1>1, <2>1, <2>2, <2>5
          DEF LocksOK, InRules, KeysOK, KeyAt, Indices, Entries
<1>9. CASE PostLock(g)
  BY <1>1, <1>3, <1>9 DEF PostLock, LocksOK, LockInv, TypeOK
<1>10. CASE Unlock(g)
  <2>1. /\ pc[g] = "unlock" /\ locked[g] > 0 /\ pc' = pc
        /\ req' = req /\ locked'[g] = locked[g] - 1
        /\ owner' = [owner EXCEPT ![KeyAt(g, locked[g])] = NoOne]
    BY <1>10 DEF Unlock, LockInv, TypeOK
  <2>2. KeysOK(g)
    BY <1>1, <2>1 DEF LocksOK
  <2>3. 1 .. locked[g] \subseteq Indices(g)
    BY <1>1, EntriesFacts DEF GoroutineOK, LockInv
  <2>4. \A i \in 1 .. locked'[g] : KeyAt(g, i) # KeyAt(g, locked[g])
    BY <1>1, <2>1, <2>2, <2>3 DEF KeysOK
  <2>5. \A i \in 1 .. locked'[g] : owner'[KeyAt(g, i)] = g
    BY <1>1, <2>1, <2>4 DEF LocksOK
  <2> QED BY <1>1, <2>1, <2>2, <2>5
          DEF LocksOK, InRules, KeysOK, KeyAt, Indices, Entries
<1>11. CASE FetchState(g)
  BY <1>1, <1>3, <1>11
     DEF FetchState, ReadsState, LocksOK, InRules, LockInv, TypeOK, lockVars
<1>12. ASSUME NEW res, RulesDone(g, res), InRules(g)
       PROVE  LocksOK(g)'
  BY <1>1, <1>3, <1>12 DEF RulesDone, LocksOK, LockInv, TypeOK, lockVars
<1>13. CASE Rules(g) /\ ~FetchState(g)
  <2>1. InRules(g) /\ \E res : RulesDone(g, res)
    BY <1>13 DEF Rules, OnSignAll, RefuseProposalDomain, FetchStateFails,
       ReadsState, OnSignBeaconProposal, OnSignBeaconAttestation,
       OnSignBeaconAttestations, ApproveAttestations, InRules
  <2> QED BY <1>12, <2>1
<1>14. CASE RulesReturn(g)
  BY <1>1, <1>14 DEF RulesReturn, LocksOK, InRules, LockInv, TypeOK
<1>15. CASE SignRoot(g) \/ Reply(g)
  BY <1>1, <1>15 DEF SignRoot, Reply, LocksOK, InRules, LockInv, TypeOK
<1> QED BY <1>2, <1>4, <1>5, <1>6, <1>7, <1>8, <1>9, <1>10, <1>11, <1>13,
           <1>14, <1>15 DEF Work

\* What the data of an entry is, by the action of its request.
LEMMA DataFacts ==
  ASSUME TypeOK, NEW g \in Goroutines, NEW i \in Indices(g)
  PROVE  /\ Action(g) = "Sign" => DataAt(g, i) \in SignData
         /\ Action(g) = "SignBeaconProposal" => DataAt(g, i) \in ProposalData
         /\ Action(g) = "SignBeaconAttestation" =>
              DataAt(g, i) \in AttestationData
<1>1. DataAt(g, i) \in DataOf(Action(g))
  BY EntriesFacts
<1>2. DataOf("Sign") = SignData
  BY DEF DataOf
<1>3. DataOf("SignBeaconProposal") = ProposalData
  BY DEF DataOf
<1>4. DataOf("SignBeaconAttestation") = AttestationData
  BY DEF DataOf
<1> QED BY <1>1, <1>2, <1>3, <1>4

\* Only the rules for duties touch the store and grant anything.
LEMMA StoreStep ==
  ASSUME NEW g \in Goroutines, Arrive(g) \/ Work(g)
  PROVE  \/ UNCHANGED <<propDB, attDB, granted>>
         \/ OnSignBeaconProposal(g)
         \/ OnSignBeaconAttestation(g)
         \/ OnSignBeaconAttestations(g)
BY DEF Arrive, Work, Rules, SignGeneric, Multisign, SignBeaconProposal,
   SignBeaconAttestation, SignBeaconAttestations, Receive, PreCheck,
   PreCheckFailed, RunRules, PreLock, Lock, PostLock, Unlock, RulesReturn,
   SignRoot, Reply, OnSignAll, RefuseProposalDomain, FetchState,
   FetchStateFails, RulesDone, dbVars, histVars

\* Only SignRoot signs.
LEMMA SignStep ==
  ASSUME NEW g \in Goroutines, Arrive(g) \/ Work(g)
  PROVE  UNCHANGED signed \/ SignRoot(g)
BY DEF Arrive, Work, Rules, SignGeneric, Multisign, SignBeaconProposal,
   SignBeaconAttestation, SignBeaconAttestations, Receive, PreCheck,
   PreCheckFailed, RunRules, PreLock, Lock, PostLock, Unlock, RulesReturn,
   Reply, OnSignAll, RefuseProposalDomain, FetchState, FetchStateFails,
   OnSignBeaconProposal, OnSignBeaconAttestation, OnSignBeaconAttestations,
   ApproveAttestations, RulesDone, histVars

\* What the proposal rule does to the store and to the grants: the key's
\* state becomes the request's slot, if the check allows it, or stays.
LEMMA ProposalStep ==
  ASSUME LockInv, NEW g \in Goroutines, OnSignBeaconProposal(g)
  PROVE  LET k == KeyAt(g, 1)  d == DataAt(g, 1)  IN
         /\ pc[g] = "store" /\ Action(g) = "SignBeaconProposal"
         /\ 1 \in Indices(g) /\ k \in Keys /\ d \in ProposalData
         /\ states[g][1] \in Int64
         /\ attDB' = attDB
         /\ \/ propDB' = propDB /\ granted' = granted
            \/ /\ CheckProposal(d, states[g][1]) = "APPROVED"
               /\ propDB' = [propDB EXCEPT ![k] =
                               EncodeProposal(ProposalAfter(d))]
               /\ granted' \in {granted, granted \cup {Message(g, 1)}}
<1>1. pc[g] = "store" /\ Action(g) = "SignBeaconProposal" /\ attDB' = attDB
  BY DEF OnSignBeaconProposal
<1>2. 1 \in Indices(g)
  BY <1>1, ActionFacts DEF LockInv
<1>3. KeyAt(g, 1) \in Keys
  BY <1>1, <1>2 DEF LockInv, LocksOK, KeysOK, InRules
<1>4. DataAt(g, 1) \in ProposalData
  BY <1>1, <1>2, DataFacts DEF LockInv
<1>5. states[g][1] \in Int64
  BY <1>1, <1>2 DEF LockInv, TypeOK, GoroutineOK, ProposalState
<1>6. \/ propDB' = propDB /\ granted' = granted
      \/ /\ CheckProposal(DataAt(g, 1), states[g][1]) = "APPROVED"
         /\ propDB' = [propDB EXCEPT ![KeyAt(g, 1)] =
                         EncodeProposal(ProposalAfter(DataAt(g, 1)))]
         /\ granted' \in {granted, granted \cup {Message(g, 1)}}
  BY DEF OnSignBeaconProposal
<1> QED BY <1>1, <1>2, <1>3, <1>4, <1>5, <1>6

Approved(g) == {j \in Indices(g) : AttestationResult(g, j) = "APPROVED"}

\* What the attestation rules do: some of the keys' states are stored, and
\* if anything is granted then with its state stored.
LEMMA AttestationStep ==
  ASSUME LockInv, NEW g \in Goroutines,
         OnSignBeaconAttestation(g) \/ OnSignBeaconAttestations(g)
  PROVE  /\ pc[g] = "store" /\ Action(g) = "SignBeaconAttestation"
         /\ KeysOK(g)
         /\ \A i \in Indices(g) : /\ DataAt(g, i) \in AttestationData
                                  /\ states[g][i] \in AttestationState
         /\ propDB' = propDB
         /\ \E W \in SUBSET Indices(g) :
              /\ StoreAttestations(g, W)
              /\ \/ granted' = granted
                 \/ /\ Approved(g) \subseteq W
                    /\ granted' = granted \cup
                                    {Message(g, i) : i \in Approved(g)}
<1>1. /\ pc[g] = "store" /\ Action(g) = "SignBeaconAttestation"
      /\ propDB' = propDB
  BY DEF OnSignBeaconAttestation, OnSignBeaconAttestations
<1>2. KeysOK(g)
  BY <1>1 DEF LockInv, LocksOK, InRules
<1>3. \A i \in Indices(g) : /\ DataAt(g, i) \in AttestationData
                            /\ states[g][i] \in AttestationState
  BY <1>1, DataFacts DEF LockInv, TypeOK, GoroutineOK
<1>4. CASE OnSignBeaconAttestation(g)
  <2>1. Indices(g) = {1}
    BY <1>4, EntriesFacts DEF OnSignBeaconAttestation, LockInv
  <2> QED BY <1>1, <1>2, <1>3, <1>4, <2>1
          DEF OnSignBeaconAttestation, ApproveAttestations, Approved, All
<1>5. CASE OnSignBeaconAttestations(g)
  BY <1>1, <1>2, <1>3, <1>5
     DEF OnSignBeaconAttestations, ApproveAttestations, Approved
<1> QED BY <1>4, <1>5

\* The states that a store of W leaves behind.
LEMMA StoredStates ==
  ASSUME LockInv, NEW g \in Goroutines, pc[g] = "store",
         Action(g) = "SignBeaconAttestation",
         NEW W \in SUBSET Indices(g), StoreAttestations(g, W)
  PROVE  /\ attDB' \in [Keys -> StoredAttestation]
         /\ \A i \in Indices(g) : StateAfter(g, i) \in AttestationState
         /\ \A i \in W :
              attDB'[KeyAt(g, i)] = EncodeAttestation(StateAfter(g, i))
         /\ \A k \in Keys : (\A i \in W : KeyAt(g, i) # k) =>
              attDB'[k] = attDB[k]
<1>1. KeysOK(g)
  BY DEF LockInv, LocksOK, InRules
<1>2. ASSUME NEW i \in Indices(g)
      PROVE  StateAfter(g, i) \in AttestationState
  <2>1. DataAt(g, i) \in AttestationData /\ states[g][i] \in AttestationState
    BY DataFacts DEF LockInv, TypeOK, GoroutineOK
  <2>2. AttestationAfter(DataAt(g, i)) \in AttestationState
    BY <2>1, Conversions
       DEF AttestationAfter, AttestationState, AttestationData
  <2> QED BY <2>1, <2>2 DEF StateAfter
<1>3. ASSUME NEW i \in W
      PROVE  /\ KeyAt(g, i) \in Keys
             /\ (CHOOSE j \in W : KeyAt(g, j) = KeyAt(g, i)) = i
  BY <1>1 DEF KeysOK
<1>4. ASSUME NEW i \in W
      PROVE  attDB'[KeyAt(g, i)] = EncodeAttestation(StateAfter(g, i))
  BY <1>3 DEF StoreAttestations
<1>5. ASSUME NEW k \in Keys, \A i \in W : KeyAt(g, i) # k
      PROVE  attDB'[k] = attDB[k]
  BY <1>5 DEF StoreAttestations
<1>6. \A k \in Keys : attDB'[k] \in StoredAttestation
  <2>1. \A i \in W : attDB'[KeyAt(g, i)] \in StoredAttestation
    BY <1>2, <1>4, AttestationStore
  <2>2. \A k \in Keys : attDB[k] \in StoredAttestation
    BY DEF LockInv, TypeOK
  <2> QED BY <1>5, <2>1, <2>2
<1>7. attDB' \in [Keys -> StoredAttestation]
  BY <1>6 DEF StoreAttestations
<1> QED BY <1>2, <1>4, <1>5, <1>7

\* The messages of known keys are well formed.
LEMMA MessageFacts ==
  ASSUME TypeOK, NEW g \in Goroutines, pc[g] # "idle", NEW i \in Indices(g),
         KeyAt(g, i) \in Keys
  PROVE  Message(g, i) \in Messages
<1>1. DataAt(g, i) \in DataOf(Action(g))
  BY EntriesFacts
<1>2. Message(g, i) \in [key : Keys, action : {Action(g)},
                         data : DataOf(Action(g))]
  BY <1>1 DEF Message
<1> QED BY <1>2, ActionFacts DEF Messages

\* A step of a goroutine keeps the store, the locks and the histories well
\* typed.
LEMMA TypesStep ==
  ASSUME LockInv, NEW g \in Goroutines, Arrive(g) \/ Work(g)
  PROVE  TypeOK'
<1> USE DEF LockInv
<1>1. propDB' \in [Keys -> StoredProposal] /\ attDB' \in [Keys -> StoredAttestation]
  <2>1. CASE UNCHANGED <<propDB, attDB, granted>>
    BY <2>1 DEF TypeOK
  <2>2. CASE OnSignBeaconProposal(g)
    <3>1. EncodeProposal(ProposalAfter(DataAt(g, 1))) \in StoredProposal
      BY <2>2, ProposalStep, Conversions, ProposalStore
         DEF ProposalAfter, ProposalData
    <3> QED BY <2>2, <3>1, ProposalStep DEF TypeOK
  <2>3. CASE OnSignBeaconAttestation(g) \/ OnSignBeaconAttestations(g)
    BY <2>3, AttestationStep, StoredStates DEF TypeOK
  <2> QED BY <2>1, <2>2, <2>3, StoreStep
<1>2. unlocked' \subseteq Keys
  <2>1. unlocked \subseteq Keys
    BY DEF TypeOK
  <2>2. unlocked' = unlocked \/ PreCheck(g)
    BY DEF Arrive, Work, Rules, SignGeneric, Multisign, SignBeaconProposal,
       SignBeaconAttestation, SignBeaconAttestations, Receive,
       PreCheckFailed, RunRules, PreLock, Lock, PostLock, Unlock, RulesReturn,
       SignRoot, Reply, OnSignAll, RefuseProposalDomain, FetchState,
       FetchStateFails, OnSignBeaconProposal, OnSignBeaconAttestation,
       OnSignBeaconAttestations, ApproveAttestations, RulesDone
  <2>3. ASSUME PreCheck(g)
        PROVE  unlocked' \subseteq Keys
    <3>1. PICK i \in todo[g] : PreCheckPasses(g, i) \/ PreCheckRefuses(g, i)
      BY <2>3 DEF PreCheck
    <3>2. i \in Indices(g)
      BY DEF TypeOK, GoroutineOK
    <3>3. KeyAt(g, i) \in Keys \cup {NoAccount}
      BY <3>2, EntriesFacts
    <3> QED BY <2>1, <3>1, <3>3
            DEF PreCheckPasses, PreCheckRefuses, Authorised
  <2> QED BY <2>1, <2>2, <2>3
<1>3. /\ mapLock' \in Goroutines \cup {NoOne}
      /\ owner' \in [Keys -> Goroutines \cup {NoOne}]
  BY DEF TypeOK, Arrive, Work, Rules, SignGeneric, Multisign,
     SignBeaconProposal, SignBeaconAttestation, SignBeaconAttestations,
     Receive, PreCheck, PreCheckFailed, RunRules, PreLock, Lock, PostLock,
     Unlock, RulesReturn, SignRoot, Reply, OnSignAll, RefuseProposalDomain,
     FetchState, FetchStateFails, OnSignBeaconProposal,
     OnSignBeaconAttestation, OnSignBeaconAttestations, ApproveAttestations,
     RulesDone, lockVars
<1>4. \A h \in Goroutines : GoroutineOK(h)'
  BY GoroutineStep, OtherGoroutines
<1>5. \A m \in granted' \cup signed' : m \in Messages
  <2>1. \A m \in granted \cup signed : m \in Messages
    BY DEF TypeOK
  <2>2. \A m \in granted' : m \in Messages
    <3>1. CASE UNCHANGED <<propDB, attDB, granted>>
      BY <2>1, <3>1
    <3>2. CASE OnSignBeaconProposal(g)
      <4>1. Message(g, 1) \in Messages
        BY <3>2, ProposalStep, MessageFacts
      <4> QED BY <2>1, <3>2, <4>1, ProposalStep
    <3>3. CASE OnSignBeaconAttestation(g) \/ OnSignBeaconAttestations(g)
      <4>1. \A i \in Approved(g) : Message(g, i) \in Messages
        BY <3>3, AttestationStep, MessageFacts DEF KeysOK, Approved
      <4> QED BY <2>1, <3>3, <4>1, AttestationStep
    <3> QED BY <3>1, <3>2, <3>3, StoreStep
  <2>3. \A m \in signed' : m \in Messages
    <3>1. CASE SignRoot(g)
      <4>1. PICK i \in todo[g] :
              \/ KeyAt(g, i) \in unlocked /\ signed' = signed \cup {Message(g, i)}
              \/ signed' = signed
        BY <3>1 DEF SignRoot
      <4>2. i \in Indices(g) /\ pc[g] # "idle"
        BY <3>1 DEF TypeOK, GoroutineOK, SignRoot
      <4>3. KeyAt(g, i) \in unlocked => Message(g, i) \in Messages
        BY <4>2, MessageFacts DEF TypeOK
      <4> QED BY <2>1, <4>1, <4>3
    <3> QED BY <2>1, <3>1, SignStep
  <2> QED BY <2>2, <2>3
<1>6. /\ \A h \in Goroutines : /\ pc'[h] \in Pcs /\ todo'[h] \subseteq Nat
                               /\ locked'[h] \in Nat
  <2>1. SUFFICES ASSUME NEW h \in Goroutines
                 PROVE  /\ pc'[h] \in Pcs /\ todo'[h] \subseteq Nat
                        /\ locked'[h] \in Nat
    OBVIOUS
  <2>2. GoroutineOK(h)'
    BY <1>4
  <2>3. req'[h] \in Requests \cup {NoRequest}
    BY <2>2 DEF GoroutineOK
  <2>4. DOMAIN req'[h].entries \subseteq Nat /\ Len(req'[h].entries) \in Nat
    BY <2>3, RequestFacts DEF NoRequest
  <2> QED BY <2>2, <2>4 DEF GoroutineOK, Indices, Entries
<1>7. pc' \in [Goroutines -> Pcs] /\ todo' \in [Goroutines -> SUBSET Nat]
        /\ locked' \in [Goroutines -> Nat]
  <2>1. /\ pc' = [h \in Goroutines |-> pc'[h]]
        /\ todo' = [h \in Goroutines |-> todo'[h]]
        /\ locked' = [h \in Goroutines |-> locked'[h]]
    BY DEF TypeOK, Arrive, Work, Rules, SignGeneric, Multisign,
       SignBeaconProposal, SignBeaconAttestation, SignBeaconAttestations,
       Receive, PreCheck, PreCheckFailed, RunRules, PreLock, Lock, PostLock,
       Unlock, RulesReturn, SignRoot, Reply, OnSignAll, RefuseProposalDomain,
       FetchState, FetchStateFails, OnSignBeaconProposal,
       OnSignBeaconAttestation, OnSignBeaconAttestations, ApproveAttestations,
       RulesDone
  <2> QED BY <1>6, <2>1
<1> QED BY <1>1, <1>2, <1>3, <1>4, <1>5, <1>7, StepFrame DEF TypeOK

\* A started server has no locks, no requests and well-typed state.
LEMMA InitLockInv == Init => LockInv
<1> SUFFICES ASSUME Init PROVE LockInv
  OBVIOUS
<1>1. \A g \in Goroutines : GoroutineOK(g)
  BY DEF Init, GoroutineOK, Pcs, NoRequest, Indices, Entries, Results
<1>2. TypeOK
  BY <1>1 DEF Init, TypeOK, Pcs, StoredProposal, StoredAttestation
<1>3. \A g \in Goroutines : LocksOK(g)
  BY DEF Init, LocksOK, InRules
<1> QED BY <1>2, <1>3 DEF LockInv

\* The steps that no goroutine of the signer takes.
LEMMA OutsideStep ==
  ASSUME LockInv, LockAccount \/ UnlockAccount \/ Crash \/ UNCHANGED vars
  PROVE  LockInv'
<1>1. CASE LockAccount \/ UnlockAccount \/ UNCHANGED vars
  <2>1. /\ unlocked' \subseteq Keys
        /\ UNCHANGED <<propDB, attDB, mapLock, owner, pc, req, todo, locked,
                       states, result, granted, signed>>
    BY <1>1 DEF LockInv, TypeOK, LockAccount, UnlockAccount, vars, dbVars,
       lockVars, histVars
  <2>2. \A g \in Goroutines : GoroutineOK(g)' /\ LocksOK(g)'
    BY <2>1 DEF LockInv, TypeOK, GoroutineOK, LocksOK, Indices, Entries,
       Action, InRules, KeysOK, KeyAt
  <2> QED BY <2>1, <2>2 DEF LockInv, TypeOK
<1>2. CASE Crash
  <2>1. \A g \in Goroutines : GoroutineOK(g)'
    BY <1>2 DEF Crash, GoroutineOK, Pcs, NoRequest, Indices, Entries, Results
  <2>2. TypeOK'
    BY <1>2, <2>1 DEF Crash, LockInv, TypeOK, Pcs, dbVars, histVars
  <2>3. \A g \in Goroutines : LocksOK(g)'
    BY <1>2 DEF Crash, LocksOK, InRules
  <2> QED BY <2>2, <2>3 DEF LockInv
<1> QED BY <1>1, <1>2

\* Every step, crashes included, keeps the locks where the ruler put them.
LEMMA NextLockInv == LockInv /\ [Next]_vars => LockInv'
<1> SUFFICES ASSUME LockInv, [Next]_vars PROVE LockInv'
  OBVIOUS
<1>1. ASSUME NEW g \in Goroutines, Arrive(g) \/ Work(g)
      PROVE  LockInv'
  BY <1>1, TypesStep, LocksStep, OtherGoroutines DEF LockInv
<1> QED BY <1>1, OutsideStep DEF Next

\* In every behaviour of the server the type invariant holds and the locks
\* are where the goroutines believe them to be.
THEOREM Locking == Spec => []LockInv
BY InitLockInv, NextLockInv, PTL DEF Spec

\* The signing path is type correct, for any number of goroutines, keys,
\* accounts and requests.
THEOREM TypeCorrect == Spec => []TypeOK
<1>1. LockInv => TypeOK
  BY DEF LockInv
<1> QED BY <1>1, Locking, PTL

\* Two goroutines that run the rules own all their keys, so that the keys
\* are different.
LEMMA LockInvExclusive == LockInv => RulesExclusive
<1> SUFFICES ASSUME LockInv, NEW g \in Goroutines, NEW h \in Goroutines,
                    g # h, InRules(g), InRules(h),
                    NEW i \in Indices(g), NEW j \in Indices(h),
                    KeyAt(g, i) = KeyAt(h, j)
             PROVE  FALSE
  BY DEF RulesExclusive
<1>1. i \in 1 .. locked[g] /\ j \in 1 .. locked[h]
  BY EntriesFacts DEF LockInv, LocksOK
<1> QED BY <1>1 DEF LockInv, LocksOK

\* Two goroutines never run the rules for one key at a time.
THEOREM Exclusion == Spec => []RulesExclusive
BY LockInvExclusive, Locking, PTL
-----------------------------------------------------------------------------
(***************************************************************************)
(* Freshness.  A step of g changes only the states of g's own keys, and    *)
(* only while g runs the rules for them, when nobody else does.            *)
(***************************************************************************)
FreshInv == LockInv /\ StateReadIsFresh

\* The mark of every key that is not one of g's stays.
LEMMA OtherMarks ==
  ASSUME LockInv, NEW g \in Goroutines, Arrive(g) \/ Work(g),
         NEW k \in Keys,
         ~(pc[g] = "store" /\ \E i \in Indices(g) : KeyAt(g, i) = k)
  PROVE  propDB'[k] = propDB[k] /\ attDB'[k] = attDB[k]
<1>1. CASE UNCHANGED <<propDB, attDB, granted>>
  BY <1>1
<1>2. CASE OnSignBeaconProposal(g)
  <2>1. pc[g] = "store" /\ 1 \in Indices(g) /\ attDB' = attDB
    BY <1>2, ProposalStep
  <2>2. \/ propDB' = propDB
        \/ propDB' = [propDB EXCEPT ![KeyAt(g, 1)] =
                        EncodeProposal(ProposalAfter(DataAt(g, 1)))]
    BY <1>2, ProposalStep
  <2>3. k # KeyAt(g, 1)
    BY <2>1
  <2>4. propDB'[k] = propDB[k]
    BY <2>2, <2>3 DEF LockInv, TypeOK
  <2> QED BY <2>1, <2>4
<1>3. CASE OnSignBeaconAttestation(g) \/ OnSignBeaconAttestations(g)
  <2>1. /\ pc[g] = "store" /\ Action(g) = "SignBeaconAttestation"
        /\ propDB' = propDB
    BY <1>3, AttestationStep
  <2>2. PICK W \in SUBSET Indices(g) : StoreAttestations(g, W)
    BY <1>3, AttestationStep
  <2>3. \A i \in W : KeyAt(g, i) # k
    BY <2>1
  <2> QED BY <2>1, <2>2, <2>3, StoredStates
<1> QED BY <1>1, <1>2, <1>3, StoreStep

\* No step of a goroutine makes the states that any goroutine has read
\* stale.
LEMMA FreshStep ==
  ASSUME FreshInv, NEW g \in Goroutines, Arrive(g) \/ Work(g)
  PROVE  StateReadIsFresh'
<1> USE DEF FreshInv
<1>1. SUFFICES ASSUME NEW h \in Goroutines, pc'[h] = "store",
                      NEW i \in Indices(h)'
               PROVE  states'[h][i] = (IF Action(h) = "SignBeaconProposal"
                                       THEN ProposalMark(KeyAt(h, i))
                                       ELSE AttestationMark(KeyAt(h, i)))'
  BY DEF StateReadIsFresh
<1>2. CASE h = g
  <2>1. FetchState(g)
    BY <1>1, <1>2, StepFrame
       DEF Arrive, Work, Rules, SignGeneric, Multisign, SignBeaconProposal,
       SignBeaconAttestation, SignBeaconAttestations, Receive, PreCheck,
       PreCheckFailed, RunRules, PreLock, Lock, PostLock, Unlock, RulesReturn,
       SignRoot, Reply, OnSignAll, RefuseProposalDomain, FetchStateFails,
       OnSignBeaconProposal, OnSignBeaconAttestation,
       OnSignBeaconAttestations, ApproveAttestations, RulesDone, LockInv,
       TypeOK
  <2>2. /\ states'[g] = [j \in Indices(g) |->
             IF Action(g) = "SignBeaconProposal"
             THEN FetchProposalState(propDB[KeyAt(g, j)])
             ELSE FetchAttestationState(attDB[KeyAt(g, j)])]
        /\ UNCHANGED <<propDB, attDB, req>>
    BY <2>1 DEF FetchState, dbVars, LockInv, TypeOK
  <2> QED BY <1>1, <1>2, <2>2
          DEF Action, KeyAt, Indices, ProposalMark, AttestationMark
<1>3. CASE h # g
  <2>1. Same(h)
    BY <1>3, StepFrame DEF LockInv
  <2>2. /\ pc[h] = "store" /\ i \in Indices(h)
        /\ states'[h][i] = states[h][i]
        /\ Action(h)' = Action(h) /\ KeyAt(h, i)' = KeyAt(h, i)
    BY <1>1, <2>1 DEF Same, Indices, Action, KeyAt
  <2>3. KeyAt(h, i) \in Keys
    BY <2>2 DEF LockInv, LocksOK, InRules, KeysOK
  <2>4. ~(pc[g] = "store" /\ \E j \in Indices(g) : KeyAt(g, j) = KeyAt(h, i))
    BY <1>3, <2>2, LockInvExclusive DEF RulesExclusive, InRules
  <2>5. /\ propDB'[KeyAt(h, i)] = propDB[KeyAt(h, i)]
        /\ attDB'[KeyAt(h, i)] = attDB[KeyAt(h, i)]
    BY <2>3, <2>4, OtherMarks
  <2> QED BY <2>2, <2>5 DEF StateReadIsFresh, ProposalMark, AttestationMark
<1> QED BY <1>2, <1>3

\* Every step of the server, crashes included, keeps the states that the
\* rules have read fresh.
LEMMA NextFreshInv == FreshInv /\ [Next]_vars => FreshInv'
<1> SUFFICES ASSUME FreshInv, [Next]_vars PROVE FreshInv'
  OBVIOUS
<1>1. LockInv'
  BY NextLockInv DEF FreshInv
<1>2. ASSUME NEW g \in Goroutines, Arrive(g) \/ Work(g)
      PROVE  StateReadIsFresh'
  BY <1>2, FreshStep
<1>3. CASE LockAccount \/ UnlockAccount \/ UNCHANGED vars
  <2>1. UNCHANGED <<propDB, attDB, pc, req, states>>
    BY <1>3 DEF LockAccount, UnlockAccount, vars, dbVars
  <2> QED BY <1>1, <2>1
          DEF FreshInv, StateReadIsFresh, Indices, Action, KeyAt,
              ProposalMark, AttestationMark
<1>4. CASE Crash
  BY <1>1, <1>4 DEF Crash, FreshInv, StateReadIsFresh
<1> QED BY <1>1, <1>2, <1>3, <1>4 DEF Next, FreshInv

\* What the rules have read is what is on disk until they have written.
THEOREM Freshness == Spec => []StateReadIsFresh
<1>1. Init => FreshInv
  BY InitLockInv DEF Init, FreshInv, StateReadIsFresh
<1>2. FreshInv => StateReadIsFresh
  BY DEF FreshInv
<1> QED BY <1>1, <1>2, NextFreshInv, PTL DEF Spec
=============================================================================
