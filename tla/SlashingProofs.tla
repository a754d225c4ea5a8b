--------------------------- MODULE SlashingProofs ---------------------------
(***************************************************************************)
(* Signing never signs anything slashable, and implements the abstract     *)
(* SlashingProtection, for any number of goroutines, keys, clients and     *)
(* requests, as long as no slot or epoch that is asked for is beyond the   *)
(* largest int64 (InRange).                                                *)
(*                                                                         *)
(* The argument: what the rules have read is fresh (SigningProofs), so a   *)
(* duty is granted only if it lies beyond the key's marks, which then move *)
(* to it; marks never fall back; so all that was granted before lies       *)
(* behind the marks and cannot conflict with a new grant; and only granted *)
(* duties reach a signature.                                               *)
(***************************************************************************)
EXTENDS SigningProofs

Inv == FreshInv /\ SafetyInvariant

\* What the rules read back from the store is an int64.
LEMMA MarkTypes ==
  ASSUME TypeOK, NEW k \in Keys
  PROVE  /\ ProposalMark(k) \in Int64 /\ ProposalMark(k) \in Int
         /\ AttestationMark(k) \in AttestationState
         /\ AttestationMark(k).source \in Int
         /\ AttestationMark(k).target \in Int
<1>1. propDB[k] \in StoredProposal /\ attDB[k] \in StoredAttestation
  BY DEF TypeOK
<1>2. ProposalMark(k) \in Int64 /\ AttestationMark(k) \in AttestationState
  BY <1>1, ProposalStore, AttestationStore DEF ProposalMark, AttestationMark
<1>3. Int64 \subseteq Int
  BY HalfAssumption DEF Int64
<1> QED BY <1>2, <1>3 DEF AttestationState

\* A slot or an epoch in range is stored as it is.
LEMMA RangeFacts ==
  ASSUME InRange, TypeOK, NEW g \in Goroutines, pc[g] # "idle",
         NEW i \in Indices(g)
  PROVE  /\ Action(g) = "SignBeaconProposal" =>
              /\ DataAt(g, i).slot \in Nat
              /\ ProposalAfter(DataAt(g, i)) = DataAt(g, i).slot
              /\ DataAt(g, i).slot \in Int64
         /\ Action(g) = "SignBeaconAttestation" =>
              /\ DataAt(g, i).source \in Nat /\ DataAt(g, i).target \in Nat
              /\ AttestationAfter(DataAt(g, i)).source = DataAt(g, i).source
              /\ AttestationAfter(DataAt(g, i)).target = DataAt(g, i).target
<1>1. req[g] \in Requests
  BY ActionFacts
<1>2. ASSUME NEW u \in Uint64, u < Half
      PROVE  u \in Nat /\ u \in Int64 /\ ToInt64(u) = u
  BY <1>2, HalfAssumption DEF Uint64, Int64, ToInt64
<1>3. ASSUME Action(g) = "SignBeaconProposal"
      PROVE  /\ DataAt(g, i).slot \in Nat
             /\ ProposalAfter(DataAt(g, i)) = DataAt(g, i).slot
             /\ DataAt(g, i).slot \in Int64
  <2>1. DataAt(g, i).slot \in Uint64
    BY <1>3, DataFacts DEF ProposalData
  <2>2. DataAt(g, i).slot < Half
    BY <1>1, <1>3 DEF InRange, Action, DataAt, Indices
  <2> QED BY <1>2, <2>1, <2>2 DEF ProposalAfter
<1>4. ASSUME Action(g) = "SignBeaconAttestation"
      PROVE  /\ DataAt(g, i).source \in Nat /\ DataAt(g, i).target \in Nat
             /\ AttestationAfter(DataAt(g, i)).source = DataAt(g, i).source
             /\ AttestationAfter(DataAt(g, i)).target = DataAt(g, i).target
  <2>1. DataAt(g, i).source \in Uint64 /\ DataAt(g, i).target \in Uint64
    BY <1>4, DataFacts DEF AttestationData
  <2>2. DataAt(g, i).source < Half /\ DataAt(g, i).target < Half
    BY <1>1, <1>4 DEF InRange, Action, DataAt, Indices
  <2> QED BY <1>2, <2>1, <2>2 DEF AttestationAfter
<1> QED BY <1>3, <1>4

\* How the proposal rule moves a key's mark.
LEMMA ProposalMoves ==
  ASSUME InRange, Inv, NEW g \in Goroutines, OnSignBeaconProposal(g)
  PROVE  /\ attDB' = attDB
         /\ \/ propDB' = propDB /\ granted' = granted
            \/ /\ DataAt(g, 1).slot \in Nat
               /\ DataAt(g, 1).slot > ProposalMark(KeyAt(g, 1))
               /\ ProposalMark(KeyAt(g, 1))' = DataAt(g, 1).slot
               /\ \A k \in Keys \ {KeyAt(g, 1)} : propDB'[k] = propDB[k]
               /\ granted' \in {granted, granted \cup {Message(g, 1)}}
<1> DEFINE k == KeyAt(g, 1)
           d == DataAt(g, 1)
<1>1. /\ LockInv /\ TypeOK /\ StateReadIsFresh /\ MarksOK
  BY DEF Inv, FreshInv, LockInv, SafetyInvariant
<1>2. /\ pc[g] = "store" /\ Action(g) = "SignBeaconProposal"
      /\ 1 \in Indices(g) /\ k \in Keys
      /\ attDB' = attDB
      /\ \/ propDB' = propDB /\ granted' = granted
         \/ /\ CheckProposal(d, states[g][1]) = "APPROVED"
            /\ propDB' = [propDB EXCEPT ![k] = EncodeProposal(ProposalAfter(d))]
            /\ granted' \in {granted, granted \cup {Message(g, 1)}}
  BY <1>1, ProposalStep
<1>3. states[g][1] = ProposalMark(k)
  BY <1>1, <1>2 DEF StateReadIsFresh
<1>4. d.slot \in Nat /\ d.slot \in Int64 /\ ProposalAfter(d) = d.slot
  BY <1>1, <1>2, RangeFacts
<1>5. ASSUME CheckProposal(d, states[g][1]) = "APPROVED",
             propDB' = [propDB EXCEPT ![k] = EncodeProposal(ProposalAfter(d))]
      PROVE  /\ d.slot > ProposalMark(k)
             /\ ProposalMark(KeyAt(g, 1))' = d.slot
             /\ \A l \in Keys \ {k} : propDB'[l] = propDB[l]
  <2>1. ProposalMark(k) >= 0 => d.slot > ProposalMark(k)
    BY <1>3, <1>5 DEF CheckProposal, ApproveIf
  <2>2. d.slot > ProposalMark(k)
    BY <1>1, <1>2, <1>4, <2>1, MarkTypes
  <2>3. propDB'[k] = EncodeProposal(d.slot)
    BY <1>1, <1>2, <1>4, <1>5 DEF TypeOK
  <2>4. KeyAt(g, 1)' = k
    <3>1. req' = req
      BY DEF OnSignBeaconProposal, RulesDone
    <3> QED BY <3>1 DEF KeyAt
  <2>5. ProposalMark(KeyAt(g, 1))' = d.slot
    BY <1>4, <2>3, <2>4, ProposalStore DEF ProposalMark
  <2>6. \A l \in Keys \ {k} : propDB'[l] = propDB[l]
    BY <1>1, <1>5 DEF TypeOK
  <2> QED BY <2>2, <2>5, <2>6
<1> QED BY <1>2, <1>4, <1>5

Beyond(d, st) == d.target > st.target /\ d.source >= st.source

\* How the attestation rules move marks: for an approved entry that is
\* stored to the entry, which lies beyond the mark; otherwise not at all.
LEMMA AttestationMoves ==
  ASSUME InRange, Inv, NEW g \in Goroutines,
         OnSignBeaconAttestation(g) \/ OnSignBeaconAttestations(g)
  PROVE  /\ propDB' = propDB
         /\ KeysOK(g)
         /\ \A i \in Approved(g) :
              /\ i \in Indices(g) /\ DataAt(g, i).domain = "attester"
              /\ DataAt(g, i).source \in Nat /\ DataAt(g, i).target \in Nat
              /\ Beyond(DataAt(g, i), AttestationMark(KeyAt(g, i)))
         /\ \E W \in SUBSET Indices(g) :
              /\ \A i \in W : i \in Approved(g) =>
                   /\ FetchAttestationState(attDB'[KeyAt(g, i)]).source =
                        DataAt(g, i).source
                   /\ FetchAttestationState(attDB'[KeyAt(g, i)]).target =
                        DataAt(g, i).target
              /\ \A k \in Keys :
                   (\A i \in W : i \in Approved(g) => KeyAt(g, i) # k) =>
                     FetchAttestationState(attDB'[k]) = AttestationMark(k)
              /\ \/ granted' = granted
                 \/ /\ Approved(g) \subseteq W
                    /\ granted' = granted \cup
                                    {Message(g, i) : i \in Approved(g)}
<1>1. LockInv /\ TypeOK /\ StateReadIsFresh /\ MarksOK
  BY DEF Inv, FreshInv, LockInv, SafetyInvariant
<1>2. /\ pc[g] = "store" /\ Action(g) = "SignBeaconAttestation" /\ KeysOK(g)
      /\ propDB' = propDB
  BY <1>1, AttestationStep
<1>3. PICK W \in SUBSET Indices(g) :
        /\ StoreAttestations(g, W)
        /\ \/ granted' = granted
           \/ /\ Approved(g) \subseteq W
              /\ granted' = granted \cup {Message(g, i) : i \in Approved(g)}
  BY <1>1, AttestationStep
<1>4. \A i \in Indices(g) : states[g][i] = AttestationMark(KeyAt(g, i))
  BY <1>1, <1>2 DEF StateReadIsFresh
<1>5. ASSUME NEW i \in Approved(g)
      PROVE  /\ i \in Indices(g) /\ DataAt(g, i).domain = "attester"
             /\ DataAt(g, i).source \in Nat /\ DataAt(g, i).target \in Nat
             /\ Beyond(DataAt(g, i), AttestationMark(KeyAt(g, i)))
  <2> DEFINE d  == DataAt(g, i)
             st == AttestationMark(KeyAt(g, i))
  <2>1. i \in Indices(g) /\ RunSignBeaconAttestationChecks(d, st) = "APPROVED"
    BY <1>4 DEF Approved, AttestationResult
  <2>2. d.domain = "attester"
        /\ (st.target >= 0 => d.target > st.target)
        /\ (st.source >= 0 => d.source >= st.source)
    BY <2>1 DEF RunSignBeaconAttestationChecks, ApproveIf
  <2>3. d.source \in Nat /\ d.target \in Nat
    BY <1>1, <1>2, <2>1, RangeFacts
  <2>4. KeyAt(g, i) \in Keys
    BY <1>2, <2>1 DEF KeysOK
  <2>5. /\ st.source \in Int /\ st.target \in Int
        /\ st.source >= -1 /\ st.target >= -1
    BY <1>1, <2>4, MarkTypes DEF MarksOK
  <2> QED BY <2>1, <2>2, <2>3, <2>5 DEF Beyond
<1>6. ASSUME NEW i \in W
      PROVE  FetchAttestationState(attDB'[KeyAt(g, i)]) = StateAfter(g, i)
  BY <1>1, <1>2, <1>3, StoredStates, AttestationStore
<1>7. ASSUME NEW i \in W, i \in Approved(g)
      PROVE  /\ FetchAttestationState(attDB'[KeyAt(g, i)]).source =
                  DataAt(g, i).source
             /\ FetchAttestationState(attDB'[KeyAt(g, i)]).target =
                  DataAt(g, i).target
  <2>1. StateAfter(g, i) = AttestationAfter(DataAt(g, i))
    BY <1>7 DEF Approved, StateAfter
  <2> QED BY <1>1, <1>2, <1>5, <1>6, <1>7, <2>1, RangeFacts
<1>8. ASSUME NEW k \in Keys, \A i \in W : i \in Approved(g) => KeyAt(g, i) # k
      PROVE  FetchAttestationState(attDB'[k]) = AttestationMark(k)
  <2>1. CASE \A i \in W : KeyAt(g, i) # k
    BY <1>1, <1>2, <1>3, <2>1, StoredStates DEF AttestationMark
  <2>2. ASSUME NEW i \in W, KeyAt(g, i) = k
        PROVE  FetchAttestationState(attDB'[k]) = AttestationMark(k)
    <3>1. StateAfter(g, i) = states[g][i]
      BY <1>8, <2>2 DEF Approved, StateAfter
    <3> QED BY <1>4, <1>6, <2>2, <3>1
  <2> QED BY <2>1, <2>2
<1> QED BY <1>2, <1>3, <1>5, <1>7, <1>8
-----------------------------------------------------------------------------
(***************************************************************************)
(* Marks.                                                                  *)
(***************************************************************************)
Risen(k) ==
  /\ ProposalMark(k)' >= ProposalMark(k)
  /\ AttestationMark(k)'.source >= AttestationMark(k).source
  /\ AttestationMark(k)'.target >= AttestationMark(k).target

\* No step of a goroutine lowers a mark on disk.
LEMMA MarksRise ==
  ASSUME InRange, Inv, NEW g \in Goroutines, Arrive(g) \/ Work(g)
  PROVE  \A k \in Keys : Risen(k)
<1> SUFFICES ASSUME NEW k \in Keys PROVE Risen(k)
  OBVIOUS
<1>1. TypeOK
  BY DEF Inv, FreshInv, LockInv
<1>2. /\ ProposalMark(k) \in Int
      /\ AttestationMark(k).source \in Int /\ AttestationMark(k).target \in Int
  BY <1>1, MarkTypes
<1>3. ProposalMark(k)' = FetchProposalState(propDB'[k])
  BY DEF ProposalMark
<1>4. AttestationMark(k)' = FetchAttestationState(attDB'[k])
  BY DEF AttestationMark
<1>5. CASE UNCHANGED <<propDB, attDB, granted>>
  BY <1>2, <1>5 DEF Risen, ProposalMark, AttestationMark
<1>6. CASE OnSignBeaconProposal(g)
  <2>1. AttestationMark(k)' = AttestationMark(k)
    BY <1>6, ProposalMoves DEF AttestationMark
  <2>2. CASE propDB'[k] = propDB[k]
    BY <1>2, <2>1, <2>2 DEF Risen, ProposalMark
  <2>3. CASE propDB'[k] # propDB[k]
    <3>1. /\ k = KeyAt(g, 1) /\ DataAt(g, 1).slot \in Nat
          /\ DataAt(g, 1).slot > ProposalMark(KeyAt(g, 1))
          /\ ProposalMark(KeyAt(g, 1))' = DataAt(g, 1).slot
      BY <1>6, <2>3, ProposalMoves
    <3>2. KeyAt(g, 1)' = KeyAt(g, 1)
      BY <1>6 DEF OnSignBeaconProposal, RulesDone, KeyAt
    <3>3. ProposalMark(k)' = DataAt(g, 1).slot
      BY <3>1, <3>2 DEF ProposalMark
    <3> QED BY <1>2, <2>1, <3>1, <3>3 DEF Risen
  <2> QED BY <2>2, <2>3
<1>7. CASE OnSignBeaconAttestation(g) \/ OnSignBeaconAttestations(g)
  <2>1. ProposalMark(k)' = ProposalMark(k)
    BY <1>7, AttestationMoves DEF ProposalMark
  <2>2. PICK W \in SUBSET Indices(g) :
          /\ \A i \in W : i \in Approved(g) =>
               /\ FetchAttestationState(attDB'[KeyAt(g, i)]).source =
                    DataAt(g, i).source
               /\ FetchAttestationState(attDB'[KeyAt(g, i)]).target =
                    DataAt(g, i).target
          /\ (\A i \in W : i \in Approved(g) => KeyAt(g, i) # k) =>
               FetchAttestationState(attDB'[k]) = AttestationMark(k)
    BY <1>7, AttestationMoves
  <2>3. CASE \A i \in W : i \in Approved(g) => KeyAt(g, i) # k
    BY <1>2, <1>4, <2>1, <2>2, <2>3 DEF Risen
  <2>4. ASSUME NEW i \in W, i \in Approved(g), KeyAt(g, i) = k
        PROVE  Risen(k)
    <3>1. /\ DataAt(g, i).source \in Nat /\ DataAt(g, i).target \in Nat
          /\ Beyond(DataAt(g, i), AttestationMark(k))
      BY <1>7, <2>4, AttestationMoves
    <3>2. /\ AttestationMark(k)'.source = DataAt(g, i).source
          /\ AttestationMark(k)'.target = DataAt(g, i).target
      BY <1>4, <2>2, <2>4
    <3> QED BY <1>2, <2>1, <3>1, <3>2 DEF Risen, Beyond
  <2> QED BY <2>3, <2>4
<1> QED BY <1>5, <1>6, <1>7, StoreStep

\* What is known of the messages in the histories.
LEMMA HistoryTypes ==
  ASSUME NEW m \in Messages
  PROVE  /\ m.key \in Keys
         /\ IsProposal(m) => m.data.slot \in Nat
         /\ IsAttestation(m) => m.data.source \in Nat /\ m.data.target \in Nat
         /\ m = [key |-> m.key, action |-> m.action, data |-> m.data]
<1>1. PICK a \in {"Sign", "SignBeaconProposal", "SignBeaconAttestation"} :
        m \in [key : Keys, action : {a}, data : DataOf(a)]
  BY DEF Messages
<1>2. /\ m.key \in Keys /\ m.action = a /\ m.data \in DataOf(a)
      /\ m = [key |-> m.key, action |-> m.action, data |-> m.data]
  BY <1>1
<1>3. DataOf("SignBeaconProposal") = ProposalData
  BY DEF DataOf
<1>4. DataOf("SignBeaconAttestation") = AttestationData
  BY DEF DataOf
<1>5. Uint64 \subseteq Nat
  BY HalfAssumption DEF Uint64
<1>6. IsProposal(m) => m.data \in ProposalData
  BY <1>2, <1>3 DEF IsProposal
<1>7. IsAttestation(m) => m.data \in AttestationData
  BY <1>2, <1>4 DEF IsAttestation
<1>8. IsProposal(m) => m.data.slot \in Nat
  BY <1>5, <1>6 DEF ProposalData
<1>9. IsAttestation(m) => m.data.source \in Nat /\ m.data.target \in Nat
  BY <1>5, <1>7 DEF AttestationData
<1> QED BY <1>2, <1>8, <1>9

\* A mark that rises still covers what it has covered.
LEMMA StillCovered ==
  ASSUME TypeOK, TypeOK', NEW m \in Messages, Covered(m), Risen(m.key)
  PROVE  Covered(m)'
<1>1. /\ m.key \in Keys
      /\ IsProposal(m) => m.data.slot \in Nat
      /\ IsAttestation(m) => m.data.source \in Nat /\ m.data.target \in Nat
  BY HistoryTypes
<1>2. /\ ProposalMark(m.key) \in Int
      /\ AttestationMark(m.key).source \in Int
      /\ AttestationMark(m.key).target \in Int
  BY <1>1, MarkTypes
<1>3. propDB'[m.key] \in StoredProposal /\ attDB'[m.key] \in StoredAttestation
  BY <1>1 DEF TypeOK
<1>4. Int64 \subseteq Int
  BY HalfAssumption DEF Int64
<1>5. /\ ProposalMark(m.key)' \in Int
      /\ AttestationMark(m.key)'.source \in Int
      /\ AttestationMark(m.key)'.target \in Int
  BY <1>3, <1>4, ProposalStore, AttestationStore
     DEF ProposalMark, AttestationMark, AttestationState
<1> QED BY <1>1, <1>2, <1>5 DEF Covered, Risen, IsProposal, IsAttestation
-----------------------------------------------------------------------------
(***************************************************************************)
(* Grants.                                                                 *)
(***************************************************************************)
\* A new grant is covered by the new marks, lies beyond all earlier grants
\* of its kind for its key, and is the only one of the step for its key.
NewGrant(m) ==
  /\ m \in Messages /\ Covered(m)'
  /\ \A n \in granted :
       m.key = n.key /\ m.action = n.action => Increases(m, n)

\* OnSignBeaconProposal grants at most its own request, beyond all earlier
\* grants.
LEMMA NewProposal ==
  ASSUME InRange, Inv, NEW g \in Goroutines, OnSignBeaconProposal(g)
  PROVE  /\ granted \subseteq granted'
         /\ \A m \in granted' \ granted : m = Message(g, 1) /\ NewGrant(m)
<1> DEFINE k == KeyAt(g, 1)
           d == DataAt(g, 1)
<1>1. /\ LockInv /\ TypeOK /\ GrantedOK /\ ResultsOK(g)
  BY DEF Inv, FreshInv, LockInv, SafetyInvariant
<1>2. /\ pc[g] = "store" /\ Action(g) = "SignBeaconProposal"
      /\ 1 \in Indices(g) /\ k \in Keys
  BY <1>1, ProposalStep
<1>3. \/ granted' = granted
      \/ /\ d.slot \in Nat /\ d.slot > ProposalMark(k)
         /\ ProposalMark(KeyAt(g, 1))' = d.slot
         /\ granted' \in {granted, granted \cup {Message(g, 1)}}
  BY ProposalMoves
<1>5. d.domain = "proposer"
  BY <1>1, <1>2 DEF ResultsOK, ProposalDomainOK
<1>6. ASSUME NEW m, m = Message(g, 1),
             d.slot \in Nat, d.slot > ProposalMark(k),
             ProposalMark(KeyAt(g, 1))' = d.slot
      PROVE  NewGrant(m)
  <2> SUFFICES ASSUME NEW dd, dd = d PROVE NewGrant(m)
    OBVIOUS
  <2>0. /\ m \in Messages /\ m.key = k /\ m.data = dd /\ IsProposal(m)
    BY <1>1, <1>2, <1>6, MessageFacts DEF Message, IsProposal
  <2>1. KeyAt(g, 1)' = k
    BY DEF OnSignBeaconProposal, RulesDone, KeyAt
  <2>2. FetchProposalState(propDB'[k]) = d.slot
    BY <1>6, <2>1 DEF ProposalMark
  <2>3. Covered(m)'
    BY <1>5, <1>6, <2>0, <2>2 DEF Covered, ProposalMark, IsProposal
  <2>4. ASSUME NEW n \in granted, m.key = n.key, m.action = n.action
        PROVE  Increases(m, n)
    <3>1. n \in Messages /\ Covered(n)
      BY <1>1 DEF TypeOK, GrantedOK
    <3>2. IsProposal(n) /\ n.data.slot \in Nat /\ ~IsAttestation(m)
      BY <2>0, <2>4, <3>1, HistoryTypes DEF IsProposal, IsAttestation
    <3>3. ProposalMark(k) >= n.data.slot
      BY <2>0, <2>4, <3>1, <3>2 DEF Covered, IsProposal, IsAttestation
    <3>4. ProposalMark(k) \in Int
      BY <1>1, <1>2, MarkTypes
    <3> QED BY <1>6, <2>0, <3>2, <3>3, <3>4 DEF Increases
  <2> QED BY <2>0, <2>3, <2>4 DEF NewGrant
<1> QED BY <1>3, <1>6

\* OnSignBeaconAttestation(s) grant at most one entry for each key of the
\* request, beyond all earlier grants.
LEMMA NewAttestations ==
  ASSUME InRange, Inv, NEW g \in Goroutines,
         OnSignBeaconAttestation(g) \/ OnSignBeaconAttestations(g)
  PROVE  /\ granted \subseteq granted'
         /\ \A m \in granted' \ granted :
              /\ NewGrant(m)
              /\ \A n \in granted' \ granted : m.key = n.key => m = n
<1>1. LockInv /\ TypeOK /\ GrantedOK
  BY DEF Inv, FreshInv, LockInv, SafetyInvariant
<1>2. pc[g] = "store" /\ Action(g) = "SignBeaconAttestation"
  BY <1>1, AttestationStep
<1>3. /\ KeysOK(g)
      /\ \A i \in Approved(g) :
           /\ i \in Indices(g) /\ DataAt(g, i).domain = "attester"
           /\ DataAt(g, i).source \in Nat /\ DataAt(g, i).target \in Nat
           /\ Beyond(DataAt(g, i), AttestationMark(KeyAt(g, i)))
  BY AttestationMoves
<1>4. \/ granted' = granted
      \/ /\ granted' = granted \cup {Message(g, i) : i \in Approved(g)}
         /\ \A i \in Approved(g) :
              /\ FetchAttestationState(attDB'[KeyAt(g, i)]).source =
                   DataAt(g, i).source
              /\ FetchAttestationState(attDB'[KeyAt(g, i)]).target =
                   DataAt(g, i).target
  BY AttestationMoves
<1>5. CASE granted' = granted
  BY <1>5
<1>6. ASSUME granted' = granted \cup {Message(g, i) : i \in Approved(g)},
             \A i \in Approved(g) :
               /\ FetchAttestationState(attDB'[KeyAt(g, i)]).source =
                    DataAt(g, i).source
               /\ FetchAttestationState(attDB'[KeyAt(g, i)]).target =
                    DataAt(g, i).target
      PROVE  /\ granted \subseteq granted'
             /\ \A m \in granted' \ granted :
                  /\ NewGrant(m)
                  /\ \A n \in granted' \ granted : m.key = n.key => m = n
  <2>1. ASSUME NEW i \in Approved(g), NEW m, m = Message(g, i)
        PROVE  NewGrant(m)
    <3> SUFFICES ASSUME NEW k, k = KeyAt(g, i), NEW d, d = DataAt(g, i)
                 PROVE  NewGrant(m)
      OBVIOUS
    <3>1. /\ k \in Keys /\ m \in Messages
          /\ m.key = k /\ m.data = d /\ IsAttestation(m)
      BY <1>1, <1>2, <1>3, <2>1, MessageFacts
         DEF KeysOK, Message, IsAttestation
    <3>2. /\ AttestationMark(k).source \in Int
          /\ AttestationMark(k).target \in Int
      BY <1>1, <3>1, MarkTypes
    <3>3. FetchAttestationState(attDB'[m.key]) = AttestationMark(m.key)'
      BY DEF AttestationMark
    <3>4. Covered(m)'
      <4>1. /\ AttestationMark(m.key)'.source = d.source
            /\ AttestationMark(m.key)'.target = d.target
        BY <1>6, <3>1, <3>3
      <4> QED BY <1>3, <3>1, <4>1 DEF Covered, IsAttestation
    <3>5. ASSUME NEW n \in granted, m.key = n.key, m.action = n.action
          PROVE  Increases(m, n)
      <4>1. n \in Messages /\ Covered(n)
        BY <1>1 DEF TypeOK, GrantedOK
      <4>2. /\ IsAttestation(n) /\ ~IsProposal(m)
            /\ n.data.source \in Nat /\ n.data.target \in Nat
        BY <3>1, <3>5, <4>1, HistoryTypes DEF IsProposal, IsAttestation
      <4>3. /\ AttestationMark(k).source >= n.data.source
            /\ AttestationMark(k).target >= n.data.target
        BY <3>1, <3>5, <4>1, <4>2 DEF Covered, IsProposal, IsAttestation
      <4>4. /\ d.source \in Nat /\ d.target \in Nat
            /\ Beyond(d, AttestationMark(k))
        BY <1>3
      <4> QED BY <3>1, <3>2, <4>2, <4>3, <4>4 DEF Increases, Beyond
    <3> QED BY <3>1, <3>4, <3>5 DEF NewGrant
  <2>2. ASSUME NEW i \in Approved(g), NEW j \in Approved(g),
               Message(g, i).key = Message(g, j).key
        PROVE  Message(g, i) = Message(g, j)
    BY <1>3, <2>2 DEF Message, KeysOK
  <2> QED BY <1>6, <2>1, <2>2
<1> QED BY <1>4, <1>5, <1>6

\* The grants of a step.
LEMMA NewGrants ==
  ASSUME InRange, Inv, NEW g \in Goroutines, Arrive(g) \/ Work(g)
  PROVE  /\ granted \subseteq granted'
         /\ \A m \in granted' \ granted :
              /\ NewGrant(m)
              /\ \A n \in granted' \ granted : m.key = n.key => m = n
<1>1. CASE OnSignBeaconProposal(g)
  BY <1>1, NewProposal
<1> QED BY <1>1, NewAttestations, StoreStep

\* A grant beyond another is compatible with it, either way round.
LEMMA IncreasingIsCompatible ==
  ASSUME NEW m \in Messages, NEW n \in Messages, m.action = n.action,
         IsProposal(m) \/ IsAttestation(m), Increases(m, n)
  PROVE  Compatible(m, n) /\ Compatible(n, m)
<1>1. CASE IsProposal(m)
  <2>1. IsProposal(n) /\ m.data.slot \in Nat /\ n.data.slot \in Nat
    BY <1>1, HistoryTypes DEF IsProposal
  <2> QED BY <1>1, <2>1 DEF Compatible, Increases
<1>2. CASE IsAttestation(m)
  <2>1. /\ IsAttestation(n)
        /\ m.data.source \in Nat /\ n.data.source \in Nat
        /\ m.data.target \in Nat /\ n.data.target \in Nat
    BY <1>2, HistoryTypes DEF IsAttestation
  <2> QED BY <1>2, <2>1 DEF Compatible, Increases, Surrounds
<1> QED BY <1>1, <1>2

\* A step of a goroutine keeps the grants covered and free of conflicts, and
\* the signer signs only what was granted or is no duty.
LEMMA GrantedStep ==
  ASSUME InRange, Inv, TypeOK', NEW g \in Goroutines, Arrive(g) \/ Work(g)
  PROVE  GrantedOK'
<1>1. TypeOK /\ GrantedOK /\ ResultsOK(g)
  BY DEF Inv, FreshInv, LockInv, SafetyInvariant
<1>2. ASSUME NEW m \in granted'
      PROVE  m \in Messages /\ Covered(m)'
  <2>1. CASE m \in granted
    <3>1. m \in Messages /\ Covered(m)
      BY <1>1, <2>1 DEF TypeOK, GrantedOK
    <3> QED BY <1>1, <3>1, StillCovered, MarksRise, HistoryTypes
  <2>2. CASE m \notin granted
    BY <1>2, <2>2, NewGrants DEF NewGrant
  <2> QED BY <2>1, <2>2
<1>3. ASSUME NEW m \in granted', NEW n \in granted'
      PROVE  Compatible(m, n)
  <2>1. /\ m \in Messages /\ n \in Messages
        /\ IsProposal(m) \/ IsAttestation(m)
        /\ IsProposal(n) \/ IsAttestation(n)
    BY <1>2 DEF Covered, IsProposal, IsAttestation
  <2>2. CASE ~(m.key = n.key /\ m.action = n.action /\ m # n)
    BY <2>2 DEF Compatible
  <2>3. CASE m.key = n.key /\ m.action = n.action /\ m # n
    <3>1. CASE m \in granted /\ n \in granted
      BY <1>1, <3>1 DEF GrantedOK
    <3>2. CASE m \notin granted /\ n \in granted
      <4>1. Increases(m, n)
        BY <1>3, <2>3, <3>2, NewGrants DEF NewGrant
      <4> QED BY <2>1, <2>3, <4>1, IncreasingIsCompatible
    <3>3. CASE m \in granted /\ n \notin granted
      <4>1. Increases(n, m)
        BY <1>3, <2>3, <3>3, NewGrants DEF NewGrant
      <4> QED BY <2>1, <2>3, <4>1, IncreasingIsCompatible
    <3>4. CASE m \notin granted /\ n \notin granted
      BY <1>3, <2>3, <3>4, NewGrants
    <3> QED BY <3>1, <3>2, <3>3, <3>4
  <2> QED BY <2>2, <2>3
<1>4. ASSUME NEW m, Cleared(m)
      PROVE  Cleared(m)'
  BY <1>4, NewGrants DEF Cleared
<1>5. ASSUME NEW m \in signed'
      PROVE  Cleared(m)'
  <2>1. CASE m \in signed
    BY <1>1, <1>4, <2>1 DEF GrantedOK
  <2>2. CASE m \notin signed
    <3>1. SignRoot(g)
      BY <1>5, <2>2, SignStep
    <3>2. pc[g] = "sign" /\ \E i \in todo[g] : m = Message(g, i)
      BY <1>5, <2>2, <3>1 DEF SignRoot
    <3>3. Cleared(m)
      BY <1>1, <3>2 DEF ResultsOK
    <3> QED BY <1>4, <3>3
  <2> QED BY <2>1, <2>2
<1>6. \A m, n \in granted' : Compatible(m, n)'
  BY <1>3 DEF Compatible, Surrounds, IsProposal, IsAttestation
<1> QED BY <1>2, <1>5, <1>6 DEF GrantedOK
-----------------------------------------------------------------------------
(***************************************************************************)
(* Results: what the rules approve they have granted, or it is no duty.    *)
(***************************************************************************)
LEMMA ResultsOfOthers ==
  ASSUME InRange, Inv, NEW g \in Goroutines, NEW h \in Goroutines, h # g,
         Arrive(g) \/ Work(g)
  PROVE  ResultsOK(h)'
<1>1. TypeOK /\ ResultsOK(h)
  BY DEF Inv, FreshInv, LockInv, SafetyInvariant
<1>2. Same(h)
  BY <1>1, StepFrame
<1>3. /\ Indices(h)' = Indices(h) /\ Action(h)' = Action(h)
      /\ DataAt(h, 1)' = DataAt(h, 1)
      /\ \A i : Message(h, i)' = Message(h, i)
  BY <1>2 DEF Same, Indices, Action, Message, KeyAt, DataAt
<1>4. granted \subseteq granted'
  BY NewGrants
<1>5. \A i : Cleared(Message(h, i)) => Cleared(Message(h, i))'
  BY <1>3, <1>4 DEF Cleared
<1> QED BY <1>1, <1>2, <1>3, <1>5 DEF ResultsOK, Same, ProposalDomainOK

\* The goroutine that moves has APPROVED only what its rules granted, or
\* generic data that OnSign lets through.
LEMMA ResultsStep ==
  ASSUME InRange, Inv, NEW g \in Goroutines, Arrive(g) \/ Work(g)
  PROVE  ResultsOK(g)'
<1>1. /\ LockInv /\ TypeOK /\ ResultsOK(g) /\ GoroutineOK(g)
  BY DEF Inv, FreshInv, LockInv, SafetyInvariant, TypeOK
<1>2. granted \subseteq granted'
  BY NewGrants
<1>3. ASSUME pc'[g] \notin {"store", "unlock", "sign"}
      PROVE  ResultsOK(g)'
  BY <1>3 DEF ResultsOK
<1>4. CASE Arrive(g) \/ PreCheck(g) \/ PreCheckFailed(g) \/ PreLock(g)
             \/ Lock(g) \/ PostLock(g) \/ Reply(g)
  <2>1. pc'[g] \notin {"store", "unlock", "sign"}
    BY <1>1, <1>4
       DEF Arrive, SignGeneric, Multisign, SignBeaconProposal,
       SignBeaconAttestation, SignBeaconAttestations, Receive, PreCheck,
       PreCheckFailed, PreLock, Lock, PostLock, Reply, TypeOK
  <2> QED BY <1>3, <2>1
<1>5. CASE RunRules(g)
  <2>1. /\ pc'[g] \in {"prelock", "unlock"} /\ req' = req
        /\ \A i \in Indices(g) : result'[g][i] # "APPROVED"
    BY <1>1, <1>5 DEF RunRules, TypeOK
  <2> QED BY <2>1 DEF ResultsOK, Indices
<1>6. CASE Unlock(g)
  <2>1. /\ pc' = pc /\ pc[g] = "unlock" /\ UNCHANGED <<req, result>>
    BY <1>6 DEF Unlock
  <2>2. /\ Indices(g)' = Indices(g)
        /\ \A i : Message(g, i)' = Message(g, i)
    BY <2>1 DEF Indices, Message, KeyAt, DataAt, Action
  <2> QED BY <1>1, <1>2, <2>1, <2>2 DEF ResultsOK, Cleared
<1>7. CASE FetchState(g)
  <2>1. /\ pc'[g] = "store" /\ req' = req
        /\ Action(g) = "SignBeaconProposal" => ProposalDomainOK(DataAt(g, 1))
    BY <1>1, <1>7 DEF FetchState, ReadsState, TypeOK
  <2> QED BY <2>1 DEF ResultsOK, ProposalDomainOK, DataAt, Action
<1>8. ASSUME NEW res, RulesDone(g, res),
             \A i \in Indices(g) : res[i] = "APPROVED" =>
               \/ Message(g, i) \in granted'
               \/ /\ Message(g, i).action = "Sign"
                  /\ Message(g, i).data.domain \notin {"attester", "proposer"}
      PROVE  ResultsOK(g)'
  <2>1. pc'[g] = "unlock" /\ req' = req /\ result'[g] = res
    BY <1>1, <1>8 DEF RulesDone, TypeOK
  <2>2. /\ Indices(g)' = Indices(g)
        /\ \A i : Message(g, i)' = Message(g, i)
    BY <2>1 DEF Indices, Message, KeyAt, DataAt, Action
  <2>3. \A i \in Indices(g) : res[i] = "APPROVED" => Cleared(Message(g, i))'
    BY <1>8, <2>2 DEF Cleared
  <2> QED BY <2>1, <2>2, <2>3 DEF ResultsOK
<1>9. CASE OnSignAll(g)
  <2>1. Action(g) = "Sign" /\
        RulesDone(g, [i \in Indices(g) |-> OnSign(DataAt(g, i), req[g].adminIP)])
    BY <1>9 DEF OnSignAll
  <2>2. \A i \in Indices(g) :
          OnSign(DataAt(g, i), req[g].adminIP) = "APPROVED" =>
            DataAt(g, i).domain \notin {"attester", "proposer"}
    BY DEF OnSign, ApproveIf
  <2>3. \A i : Message(g, i).action = "Sign" /\ Message(g, i).data = DataAt(g, i)
    BY <2>1 DEF Message
  <2> QED BY <1>8, <2>1, <2>2, <2>3
<1>10. CASE RefuseProposalDomain(g) \/ FetchStateFails(g)
  <2>1. CASE RefuseProposalDomain(g)
    <3>1. RulesDone(g, << "DENIED" >>) /\ Indices(g) = {1}
      BY <1>1, <2>1, ActionFacts DEF RefuseProposalDomain
    <3> QED BY <1>8, <3>1
  <2>2. CASE FetchStateFails(g)
    BY <1>8, <2>2 DEF FetchStateFails, All
  <2> QED BY <1>10, <2>1, <2>2
<1>11. CASE OnSignBeaconProposal(g)
  <2>1. Indices(g) = {1}
    BY <1>1, <1>11, ActionFacts DEF OnSignBeaconProposal
  <2>2. \/ RulesDone(g, << "DENIED" >>) \/ RulesDone(g, << "FAILED" >>)
        \/ RulesDone(g, << "APPROVED" >>) /\ Message(g, 1) \in granted'
    BY <1>11 DEF OnSignBeaconProposal
  <2> QED BY <1>8, <2>1, <2>2
<1>12. CASE OnSignBeaconAttestation(g) \/ OnSignBeaconAttestations(g)
  <2>1. \/ RulesDone(g, All(g, "FAILED"))
        \/ \E W : ApproveAttestations(g, W)
    BY <1>12 DEF OnSignBeaconAttestation, OnSignBeaconAttestations
  <2>2. ASSUME NEW W, ApproveAttestations(g, W)
        PROVE  /\ RulesDone(g, [i \in Indices(g) |-> AttestationResult(g, i)])
               /\ \A i \in Indices(g) : AttestationResult(g, i) = "APPROVED" =>
                    Message(g, i) \in granted'
    BY <2>2 DEF ApproveAttestations
  <2> QED BY <1>8, <2>1, <2>2 DEF All
<1>13. CASE RulesReturn(g)
  <2>1. /\ pc[g] = "unlock" /\ pc'[g] = "sign" /\ req' = req
        /\ todo'[g] = {i \in Indices(g) : result[g][i] = "APPROVED"}
    BY <1>1, <1>13 DEF RulesReturn, TypeOK
  <2>2. \A i : Message(g, i)' = Message(g, i)
    BY <2>1 DEF Message, KeyAt, DataAt, Action
  <2> QED BY <1>1, <1>2, <2>1, <2>2 DEF ResultsOK, Cleared
<1>14. CASE SignRoot(g)
  <2>1. /\ pc[g] = "sign" /\ pc' = pc /\ req' = req
        /\ todo'[g] \subseteq todo[g]
    BY <1>1, <1>14 DEF SignRoot, TypeOK
  <2>2. \A i : Message(g, i)' = Message(g, i)
    BY <2>1 DEF Message, KeyAt, DataAt, Action
  <2> QED BY <1>1, <1>2, <2>1, <2>2 DEF ResultsOK, Cleared
<1> QED BY <1>4, <1>5, <1>6, <1>7, <1>9, <1>10, <1>11, <1>12, <1>13, <1>14
        DEF Work, Rules
-----------------------------------------------------------------------------
\* An empty store protects everything that was signed: nothing.
LEMMA InitInv == Init => Inv
<1> SUFFICES ASSUME Init PROVE Inv
  OBVIOUS
<1>1. LockInv /\ StateReadIsFresh
  BY InitLockInv DEF Init, StateReadIsFresh
<1>2. \A g \in Goroutines : ResultsOK(g)
  BY DEF Init, ResultsOK
<1>3. MarksOK
  BY DEF Init, MarksOK, ProposalMark, AttestationMark, FetchProposalState,
     FetchAttestationState
<1>4. GrantedOK
  BY DEF Init, GrantedOK
<1> QED BY <1>1, <1>2, <1>3, <1>4 DEF Inv, FreshInv, LockInv, SafetyInvariant

\* The steps that no goroutine of the signer takes leave the marks, the
\* grants and the signatures alone.
LEMMA OutsideSafe ==
  ASSUME Inv, LockAccount \/ UnlockAccount \/ Crash \/ UNCHANGED vars
  PROVE  /\ UNCHANGED <<propDB, attDB, granted, signed>>
         /\ MarksOK' /\ GrantedOK' /\ \A g \in Goroutines : ResultsOK(g)'
<1>1. UNCHANGED <<propDB, attDB, granted, signed>>
  BY DEF LockAccount, UnlockAccount, Crash, vars, dbVars, histVars
<1>2. MarksOK' /\ GrantedOK'
  BY <1>1 DEF Inv, SafetyInvariant, MarksOK, GrantedOK, Covered, Compatible,
     Cleared, Surrounds, IsProposal, IsAttestation, ProposalMark,
     AttestationMark
<1>3. CASE Crash
  BY <1>1, <1>2, <1>3 DEF Crash, ResultsOK
<1>4. CASE LockAccount \/ UnlockAccount \/ UNCHANGED vars
  <2>1. UNCHANGED <<pc, req, todo, result, granted>>
    BY <1>4 DEF LockAccount, UnlockAccount, vars, histVars
  <2> QED BY <1>1, <1>2, <2>1
          DEF Inv, SafetyInvariant, ResultsOK, Cleared, Message, KeyAt,
              DataAt, Action, Indices, ProposalDomainOK
<1> QED BY <1>1, <1>3, <1>4

\* No step of a goroutine brings a mark below the -1 of an absent state.
LEMMA MarksStep ==
  ASSUME InRange, Inv, TypeOK', NEW g \in Goroutines, Arrive(g) \/ Work(g)
  PROVE  MarksOK'
<1> SUFFICES ASSUME NEW k \in Keys
             PROVE  /\ ProposalMark(k)' >= -1
                    /\ AttestationMark(k)'.source >= -1
                    /\ AttestationMark(k)'.target >= -1
  BY DEF MarksOK
<1>1. /\ ProposalMark(k) >= -1 /\ AttestationMark(k).source >= -1
      /\ AttestationMark(k).target >= -1
  BY DEF Inv, SafetyInvariant, MarksOK
<1>2. Risen(k)
  BY MarksRise
<1>3. /\ ProposalMark(k) \in Int /\ AttestationMark(k).source \in Int
      /\ AttestationMark(k).target \in Int
  BY MarkTypes DEF Inv, FreshInv, LockInv
<1>4. /\ ProposalMark(k)' \in Int /\ AttestationMark(k)'.source \in Int
      /\ AttestationMark(k)'.target \in Int
  <2>1. propDB'[k] \in StoredProposal /\ attDB'[k] \in StoredAttestation
    BY DEF TypeOK
  <2>2. Int64 \subseteq Int
    BY HalfAssumption DEF Int64
  <2> QED BY <2>1, <2>2, ProposalStore, AttestationStore
          DEF ProposalMark, AttestationMark, AttestationState
<1> QED BY <1>1, <1>2, <1>3, <1>4 DEF Risen

\* The whole invariant is inductive.
LEMMA NextInv == ASSUME InRange PROVE Inv /\ [Next]_vars => Inv'
<1> SUFFICES ASSUME Inv, [Next]_vars PROVE Inv'
  OBVIOUS
<1>1. FreshInv'
  BY NextFreshInv DEF Inv
<1>2. TypeOK'
  BY <1>1 DEF FreshInv, LockInv
<1>3. \A g \in Goroutines : LocksOK(g)'
  BY <1>1 DEF FreshInv, LockInv
<1>4. ASSUME NEW g \in Goroutines, Arrive(g) \/ Work(g)
      PROVE  MarksOK' /\ GrantedOK' /\ \A h \in Goroutines : ResultsOK(h)'
  BY <1>2, <1>4, MarksStep, GrantedStep, ResultsStep, ResultsOfOthers
<1>5. MarksOK' /\ GrantedOK' /\ \A h \in Goroutines : ResultsOK(h)'
  BY <1>4, OutsideSafe DEF Next
<1> QED BY <1>1, <1>3, <1>5 DEF Inv, FreshInv, SafetyInvariant
-----------------------------------------------------------------------------
(***************************************************************************)
(* The theorems.                                                           *)
(***************************************************************************)
\* What the inductive invariant says of a signed duty: it was granted, so
\* its mark on disk covers it and no other signed duty conflicts with it.
LEMMA SignedWasGranted ==
  ASSUME GrantedOK, NEW m \in signed,
         m.data.domain \in {"attester", "proposer"} \/ m.action # "Sign"
  PROVE  m \in granted /\ Covered(m)
<1>1. Cleared(m)
  BY DEF GrantedOK
<1>2. m \in granted
  BY <1>1 DEF Cleared
<1> QED BY <1>2 DEF GrantedOK

\* The server's inductive invariant: locks, reads, grants, marks on disk and
\* signatures stay in step through every request, store failure and crash,
\* as long as no slot or epoch is beyond the largest int64.
THEOREM Safety == ASSUME InRange PROVE Spec => []SafetyInvariant
<1>1. Spec => []Inv
  BY InitInv, NextInv, PTL DEF Spec
<1>2. Inv => SafetyInvariant
  BY DEF Inv
<1> QED BY <1>1, <1>2, PTL

\* OnSignBeaconProposal and its locks never let a key sign two blocks for
\* one slot, and OnSign never signs in the proposer domain.
THEOREM ProposalSafety == ASSUME InRange PROVE Spec => []NoDoubleProposal
<1>1. SafetyInvariant => NoDoubleProposal
  <2> SUFFICES ASSUME GrantedOK, NEW m \in signed, NEW n \in signed,
                      m.key = n.key, m.data.domain = "proposer",
                      n.data.domain = "proposer"
               PROVE  /\ IsProposal(m) /\ IsProposal(n)
                      /\ m.data.slot = n.data.slot => m = n
    BY DEF SafetyInvariant, NoDoubleProposal
  <2>1. m \in granted /\ n \in granted /\ Covered(m) /\ Covered(n)
    BY SignedWasGranted
  <2>2. IsProposal(m) /\ IsProposal(n)
    BY <2>1 DEF Covered
  <2>3. Compatible(m, n)
    BY <2>1 DEF GrantedOK
  <2> QED BY <2>2, <2>3 DEF Compatible, IsProposal, IsAttestation
<1> QED BY <1>1, Safety, PTL

\* OnSignBeaconAttestation, OnSignBeaconAttestations and their locks never
\* let a key sign two attestations for one target or one around another, and
\* OnSign never signs in the attester domain.
THEOREM AttestationSafety ==
  ASSUME InRange PROVE Spec => []NoSlashableAttestation
<1>1. SafetyInvariant /\ TypeOK => NoSlashableAttestation
  <2> SUFFICES ASSUME GrantedOK, NEW m \in signed, NEW n \in signed,
                      m.key = n.key, m.data.domain = "attester",
                      n.data.domain = "attester",
                      TypeOK
               PROVE  /\ IsAttestation(m) /\ IsAttestation(n)
                      /\ m.data.target = n.data.target => m = n
                      /\ ~Surrounds(m.data, n.data)
    BY DEF SafetyInvariant, NoSlashableAttestation
  <2>1. m \in granted /\ n \in granted /\ Covered(m) /\ Covered(n)
    BY SignedWasGranted
  <2>2. IsAttestation(m) /\ IsAttestation(n)
    BY <2>1 DEF Covered
  <2>3. Compatible(m, n)
    BY <2>1 DEF GrantedOK
  <2>4. m.data.source \in Nat
    BY <2>2, HistoryTypes DEF TypeOK
  <2> QED BY <2>2, <2>3, <2>4
          DEF Compatible, Surrounds, IsProposal, IsAttestation
<1> QED BY <1>1, Safety, TypeCorrect, PTL

\* The rules write before the signer signs: whatever was signed, the marks
\* that a restarted server reads back cover it.
THEOREM Durability == ASSUME InRange PROVE Spec => []SignedIsOnDisk
<1>1. SafetyInvariant => SignedIsOnDisk
  <2> SUFFICES ASSUME GrantedOK, NEW m \in signed, m.action # "Sign"
               PROVE  /\ IsProposal(m) => ProposalMark(m.key) >= m.data.slot
                      /\ IsAttestation(m) =>
                           /\ AttestationMark(m.key).source >= m.data.source
                           /\ AttestationMark(m.key).target >= m.data.target
    BY DEF SafetyInvariant, SignedIsOnDisk, IsProposal, IsAttestation
  <2>1. Covered(m)
    BY SignedWasGranted
  <2> QED BY <2>1 DEF Covered, IsProposal, IsAttestation
<1> QED BY <1>1, Safety, PTL

\* A step that stores states only raises them, entry by entry, even if the
\* store fails half way or the batch writes back the state of an entry that
\* it denies.
THEOREM Monotonicity == ASSUME InRange PROVE Spec => ProtectionNeverRegresses
<1>1. Inv /\ [Next]_vars => \A k \in Keys : Risen(k)
  <2> SUFFICES ASSUME Inv, [Next]_vars, NEW k \in Keys
               PROVE  Risen(k)
    OBVIOUS
  <2>1. ASSUME NEW g \in Goroutines, Arrive(g) \/ Work(g)
        PROVE  Risen(k)
    BY <2>1, MarksRise
  <2>2. CASE LockAccount \/ UnlockAccount \/ Crash \/ UNCHANGED vars
    <3>1. UNCHANGED <<propDB, attDB>>
      BY <2>2, OutsideSafe
    <3>2. /\ ProposalMark(k) \in Int
          /\ AttestationMark(k).source \in Int
          /\ AttestationMark(k).target \in Int
      BY MarkTypes DEF Inv, FreshInv, LockInv
    <3> QED BY <3>1, <3>2 DEF Risen, ProposalMark, AttestationMark
  <2> QED BY <2>1, <2>2 DEF Next
<1>2. Inv /\ [Next]_vars =>
        [\A k \in Keys :
           /\ ProposalMark(k)' >= ProposalMark(k)
           /\ AttestationMark(k)'.source >= AttestationMark(k).source
           /\ AttestationMark(k)'.target >= AttestationMark(k).target]_vars
  BY <1>1 DEF Risen
<1>3. Spec => []Inv
  BY InitInv, NextInv, PTL DEF Spec
<1> QED BY <1>2, <1>3, PTL DEF Spec, ProtectionNeverRegresses

\* What the rules approve always lies beyond all that they approved before
\* for the key: they compare with a mark that nobody can have moved.
THEOREM Increase == ASSUME InRange PROVE Spec => ApprovalsIncrease
<1>1. Inv /\ [Next]_vars =>
        [\A m \in granted' \ granted, n \in granted :
           m.key = n.key /\ m.action = n.action => Increases(m, n)]_vars
  <2> SUFFICES ASSUME Inv, [Next]_vars,
                      NEW m \in granted' \ granted, NEW n \in granted,
                      m.key = n.key, m.action = n.action
               PROVE  Increases(m, n)
    OBVIOUS
  <2>1. ASSUME NEW g \in Goroutines, Arrive(g) \/ Work(g)
        PROVE  Increases(m, n)
    BY <2>1, NewGrants DEF NewGrant
  <2>2. CASE LockAccount \/ UnlockAccount \/ Crash \/ UNCHANGED vars
    BY <2>2, OutsideSafe
  <2> QED BY <2>1, <2>2 DEF Next
<1>2. Spec => []Inv
  BY InitInv, NextInv, PTL DEF Spec
<1> QED BY <1>1, <1>2, PTL DEF Spec, ApprovalsIncrease
-----------------------------------------------------------------------------
(***************************************************************************)
(* Signing implements SlashingProtection, under the same assumption: the   *)
(* server, with its scattered checks, locks, reads, stores that fail half  *)
(* way and crashes, is a set of marks that move to a duty in one step.     *)
(*                                                                         *)
(* The argument: a step of the server that writes states is one abstract   *)
(* move of the marks of the entries it approves and stores (ProposalMoves  *)
(* and AttestationMoves); signing a duty is the abstract Sign, since what  *)
(* is about to be signed has been granted; and every other step leaves the *)
(* marks, the grants and the signed duties alone.                          *)
(***************************************************************************)

Slots   == [k \in Keys |-> ProposalMark(k)]
Sources == [k \in Keys |-> AttestationMark(k).source]
Targets == [k \in Keys |-> AttestationMark(k).target]

MarkVars == <<Slots, Sources, Targets, granted, BeaconDuties>>

\* What is on disk after a step, read as the rules would read it.
LEMMA MarksAfter ==
  /\ Slots' = [k \in Keys |-> FetchProposalState(propDB'[k])]
  /\ Sources' = [k \in Keys |-> FetchAttestationState(attDB'[k]).source]
  /\ Targets' = [k \in Keys |-> FetchAttestationState(attDB'[k]).target]
BY DEF Slots, Sources, Targets, ProposalMark, AttestationMark

LEMMA SameMarks ==
  /\ UNCHANGED propDB => UNCHANGED Slots
  /\ UNCHANGED attDB => UNCHANGED <<Sources, Targets>>
  /\ UNCHANGED signed => UNCHANGED BeaconDuties
BY DEF Slots, Sources, Targets, ProposalMark, AttestationMark, BeaconDuties

\* An entry of a request that is being served was asked for.
LEMMA WasRequested ==
  ASSUME TypeOK, NEW g \in Goroutines, pc[g] # "idle", NEW i \in Indices(g)
  PROVE  DataAt(g, i) \in Requested(Action(g))
<1>1. req[g] \in Requests
  BY ActionFacts
<1> QED BY <1>1 DEF Requested, DataAt, Indices, Action

\* OnSignBeaconProposal moves at most the mark of its key.
LEMMA ProposalRefines ==
  ASSUME InRange, Inv, NEW g \in Goroutines, OnSignBeaconProposal(g)
  PROVE  [Promise!Next]_MarkVars
<1> DEFINE k == KeyAt(g, 1)
           d == DataAt(g, 1)
           b == [l \in {k} |-> d]
<1>1. LockInv /\ TypeOK
  BY DEF Inv, FreshInv, LockInv
<1>2. /\ pc[g] = "store" /\ Action(g) = "SignBeaconProposal"
      /\ 1 \in Indices(g) /\ k \in Keys
  BY <1>1, ProposalStep
<1>3. UNCHANGED <<attDB, signed, req>>
  BY DEF OnSignBeaconProposal, RulesDone
<1>4. UNCHANGED <<Sources, Targets, BeaconDuties>>
  BY <1>3, SameMarks
<1>5. CASE propDB' = propDB /\ granted' = granted
  BY <1>4, <1>5, SameMarks DEF MarkVars
<1>6. CASE /\ d.slot \in Nat /\ d.slot > ProposalMark(k)
           /\ ProposalMark(KeyAt(g, 1))' = d.slot
           /\ \A l \in Keys \ {k} : propDB'[l] = propDB[l]
           /\ granted' \in {granted, granted \cup {Message(g, 1)}}
  <2>1. KeyAt(g, 1)' = k
    BY <1>3 DEF KeyAt
  <2>2. FetchProposalState(propDB'[k]) = d.slot
    BY <1>6, <2>1 DEF ProposalMark
  <2>3. Slots' = [l \in Keys |-> IF l \in {k} THEN b[l].slot ELSE Slots[l]]
    BY <1>2, <1>6, <2>2, MarksAfter DEF Slots, ProposalMark
  <2>4. Message(g, 1) = Promise!Proposal(k, d)
    BY <1>2 DEF Message, Promise!Proposal
  <2>5. {Promise!Proposal(l, b[l]) : l \in {k}} = {Message(g, 1)}
    BY <2>4
  <2>6. b \in [{k} -> Requested("SignBeaconProposal")]
    BY <1>1, <1>2, WasRequested
  <2>7. Promise!Propose({k}, b)
    <3>1. \A l \in {k} : b[l].slot > Slots[l]
      BY <1>2, <1>6 DEF Slots
    <3>2. granted' \in {granted, granted \cup {Promise!Proposal(l, b[l]) : l \in {k}}}
      BY <1>6, <2>5
    <3> HIDE DEF b, k
    <3> QED BY <1>4, <2>3, <3>1, <3>2 DEF Promise!Propose, Slots, Sources, Targets
  <2> QED BY <1>2, <2>6, <2>7 DEF Promise!Next
<1> QED BY <1>5, <1>6, ProposalMoves

\* An approved attestation does not point backwards, and the first ones may
\* have source and target 0.
LEMMA ApprovedForwards ==
  ASSUME InRange, TypeOK, NEW g \in Goroutines, pc[g] = "store",
         Action(g) = "SignBeaconAttestation", NEW i \in Approved(g)
  PROVE  DataAt(g, i).source <= DataAt(g, i).target
<1>1. DataAt(g, i).source \in Nat /\ DataAt(g, i).target \in Nat
  BY RangeFacts DEF Approved
<1>2. DataAt(g, i).source # 0 \/ DataAt(g, i).target # 0 =>
        DataAt(g, i).target > DataAt(g, i).source
  BY DEF Approved, AttestationResult, RunSignBeaconAttestationChecks, ApproveIf
<1> QED BY <1>1, <1>2

\* OnSignBeaconAttestation(s) move the marks of the entries they approve and
\* store, all in one step.
LEMMA AttestationRefines ==
  ASSUME InRange, Inv, NEW g \in Goroutines,
         OnSignBeaconAttestation(g) \/ OnSignBeaconAttestations(g)
  PROVE  [Promise!Next]_MarkVars
<1>1. LockInv /\ TypeOK
  BY DEF Inv, FreshInv, LockInv
<1>2. pc[g] = "store" /\ Action(g) = "SignBeaconAttestation"
  BY <1>1, AttestationStep
<1>3. UNCHANGED <<propDB, signed>>
  BY DEF OnSignBeaconAttestation, OnSignBeaconAttestations, ApproveAttestations,
     RulesDone
<1>4. UNCHANGED <<Slots, BeaconDuties>>
  BY <1>3, SameMarks
<1>5. /\ KeysOK(g)
      /\ \A i \in Approved(g) :
           /\ i \in Indices(g)
           /\ DataAt(g, i).source \in Nat /\ DataAt(g, i).target \in Nat
           /\ Beyond(DataAt(g, i), AttestationMark(KeyAt(g, i)))
  BY AttestationMoves
<1>6. PICK W \in SUBSET Indices(g) :
        /\ \A i \in W : i \in Approved(g) =>
             /\ FetchAttestationState(attDB'[KeyAt(g, i)]).source =
                  DataAt(g, i).source
             /\ FetchAttestationState(attDB'[KeyAt(g, i)]).target =
                  DataAt(g, i).target
        /\ \A k \in Keys :
             (\A i \in W : i \in Approved(g) => KeyAt(g, i) # k) =>
               FetchAttestationState(attDB'[k]) = AttestationMark(k)
        /\ \/ granted' = granted
           \/ /\ Approved(g) \subseteq W
              /\ granted' = granted \cup {Message(g, i) : i \in Approved(g)}
  BY AttestationMoves
<1> DEFINE V == W \cap Approved(g)
           K == {KeyAt(g, i) : i \in V}
           At(k) == CHOOSE i \in V : KeyAt(g, i) = k
           b == [k \in K |-> DataAt(g, At(k))]
<1>7. \A i \in V : KeyAt(g, i) \in K /\ KeyAt(g, i) \in Keys /\ At(KeyAt(g, i)) = i
  BY <1>5 DEF KeysOK
<1>8. \A k \in K : At(k) \in V /\ KeyAt(g, At(k)) = k /\ k \in Keys
  BY <1>7
<1>9. \A k \in K : b[k] = DataAt(g, At(k))
  OBVIOUS
<1>10. b \in [K -> Requested("SignBeaconAttestation")]
  <2>1. \A k \in K : DataAt(g, At(k)) \in Requested("SignBeaconAttestation")
    BY <1>1, <1>2, <1>5, <1>8, WasRequested
  <2> QED BY <2>1
<1>11. \A k \in K : /\ b[k].target > Targets[k]
                    /\ b[k].source >= Sources[k]
                    /\ b[k].source <= b[k].target
  <2> SUFFICES ASSUME NEW k \in K
               PROVE  /\ b[k].target > Targets[k]
                      /\ b[k].source >= Sources[k]
                      /\ b[k].source <= b[k].target
    OBVIOUS
  <2> HIDE DEF b, K, At
  <2>1. At(k) \in Approved(g) /\ KeyAt(g, At(k)) = k /\ k \in Keys
    BY <1>8
  <2>2. Beyond(DataAt(g, At(k)), AttestationMark(k))
    BY <1>5, <2>1
  <2>3. DataAt(g, At(k)).source <= DataAt(g, At(k)).target
    BY <1>1, <1>2, <2>1, ApprovedForwards
  <2> QED BY <1>9, <2>1, <2>2, <2>3 DEF Beyond, Targets, Sources
<1>12. /\ Sources' = [k \in Keys |-> IF k \in K THEN b[k].source ELSE Sources[k]]
       /\ Targets' = [k \in Keys |-> IF k \in K THEN b[k].target ELSE Targets[k]]
  <2>1. ASSUME NEW k \in K
        PROVE  /\ FetchAttestationState(attDB'[k]).source = b[k].source
               /\ FetchAttestationState(attDB'[k]).target = b[k].target
    <3> HIDE DEF b, K, At
    <3> QED BY <1>6, <1>8, <1>9
  <2>2. ASSUME NEW k \in Keys, k \notin K
        PROVE  FetchAttestationState(attDB'[k]) = AttestationMark(k)
    BY <1>6, <2>2
  <2> HIDE DEF b, K
  <2> QED BY <2>1, <2>2, MarksAfter DEF Sources, Targets
<1>13. granted' \in {granted, granted \cup {Promise!Attestation(k, b[k]) : k \in K}}
  <2>1. CASE granted' = granted
    BY <2>1
  <2>2. CASE /\ Approved(g) \subseteq W
             /\ granted' = granted \cup {Message(g, i) : i \in Approved(g)}
    <3>1. V = Approved(g)
      BY <2>2
    <3>2. \A i \in V : Message(g, i) = Promise!Attestation(KeyAt(g, i), DataAt(g, i))
      BY <1>2 DEF Message, Promise!Attestation
    <3>3. \A i \in V : b[KeyAt(g, i)] = DataAt(g, i)
      <4> HIDE DEF b, K, At, V
      <4> QED BY <1>7, <1>9
    <3>4. {Message(g, i) : i \in V} = {Promise!Attestation(k, b[k]) : k \in K}
      <4>1. \A i \in V : Message(g, i) = Promise!Attestation(KeyAt(g, i), b[KeyAt(g, i)])
        BY <3>2, <3>3
      <4> HIDE DEF b, V
      <4> QED BY <4>1
    <3> QED BY <2>2, <3>1, <3>4
  <2> QED BY <1>6, <2>1, <2>2
<1>14. Promise!Attest(K, b)
  <2> HIDE DEF b, K, V, At
  <2> QED BY <1>4, <1>11, <1>12, <1>13
          DEF Promise!Attest, Slots, Sources, Targets
<1>15. K \in SUBSET Keys
  BY <1>8
<1> HIDE DEF b, K, V, At
<1> QED BY <1>10, <1>14, <1>15 DEF Promise!Next

\* The signer signs what was granted, or data that is no duty.
LEMMA SignRefines ==
  ASSUME Inv, NEW g \in Goroutines, SignRoot(g)
  PROVE  [Promise!Next]_MarkVars
<1>1. UNCHANGED <<propDB, attDB, granted>>
  BY DEF SignRoot, dbVars
<1>2. UNCHANGED <<Slots, Sources, Targets>>
  BY <1>1, SameMarks
<1>3. PICK i \in todo[g] :
        UNCHANGED signed \/ signed' = signed \cup {Message(g, i)}
  BY DEF SignRoot
<1>4. Cleared(Message(g, i))
  BY DEF SignRoot, Inv, SafetyInvariant, ResultsOK
<1>5. BeaconDuties' = {m \in signed' : m.action # "Sign"}
  BY DEF BeaconDuties
<1>6. CASE UNCHANGED signed \/ Message(g, i).action = "Sign"
  <2>1. UNCHANGED BeaconDuties
    BY <1>3, <1>5, <1>6 DEF BeaconDuties
  <2> QED BY <1>1, <1>2, <2>1 DEF MarkVars
<1>7. CASE /\ signed' = signed \cup {Message(g, i)}
           /\ Message(g, i).action # "Sign"
  <2>1. Message(g, i) \in granted
    BY <1>4, <1>7 DEF Cleared
  <2>2. BeaconDuties' = BeaconDuties \cup {Message(g, i)}
    BY <1>5, <1>7 DEF BeaconDuties
  <2>3. Promise!Sign
    BY <1>1, <1>2, <2>1, <2>2 DEF Promise!Sign, Slots, Sources, Targets
  <2> QED BY <2>3 DEF Promise!Next
<1> QED BY <1>3, <1>6, <1>7

\* Every step of the server is a step of the promise, or none.
LEMMA StepRefines ==
  ASSUME InRange, Inv, [Next]_vars
  PROVE  [Promise!Next]_MarkVars
<1>1. ASSUME UNCHANGED <<propDB, attDB, granted, signed>>
      PROVE  [Promise!Next]_MarkVars
  BY <1>1, SameMarks DEF MarkVars
<1>2. ASSUME NEW g \in Goroutines, Arrive(g) \/ Work(g)
      PROVE  [Promise!Next]_MarkVars
  <2>1. CASE OnSignBeaconProposal(g)
    BY <2>1, ProposalRefines
  <2>2. CASE OnSignBeaconAttestation(g) \/ OnSignBeaconAttestations(g)
    BY <2>2, AttestationRefines
  <2>3. CASE SignRoot(g)
    BY <2>3, SignRefines
  <2>4. CASE UNCHANGED <<propDB, attDB, granted>> /\ UNCHANGED signed
    BY <1>1, <2>4
  <2> QED BY <1>2, <2>1, <2>2, <2>3, <2>4, StoreStep, SignStep
<1>3. CASE LockAccount \/ UnlockAccount \/ Crash \/ UNCHANGED vars
  BY <1>1, <1>3, OutsideSafe
<1> QED BY <1>2, <1>3 DEF Next

\* The server keeps the promise of SlashingProtection: one mark per key and
\* kind of duty, moved forwards in one step by the rules, and nothing signed
\* that was not granted by such a move.
THEOREM PromiseKept == ASSUME InRange PROVE Spec => KeepsPromise
<1>1. Init => Promise!Init
  BY DEF Init, Promise!Init, ProposalMark, AttestationMark, BeaconDuties,
     FetchProposalState, FetchAttestationState
<1>2. Inv /\ [Next]_vars => [Promise!Next]_MarkVars
  BY StepRefines
<1>3. Spec => []Inv
  BY InitInv, NextInv, PTL DEF Spec
<1> QED BY <1>1, <1>2, <1>3, PTL
        DEF Spec, KeepsPromise, Promise!Spec, Promise!vars, MarkVars, Slots,
            Sources, Targets
=============================================================================
