---------------------------- MODULE RulesProofs ----------------------------
(***************************************************************************)
(* Lemmas about SlashingRules, shared by the proofs about the signing path *)
(* and about the interchange: what the store encodes is what it decodes.   *)
(***************************************************************************)
EXTENDS SlashingRules, TLAPS

\* A value of either type goes to the other, and an int64 comes back as it
\* was: what the store encodes is what it decodes.
LEMMA Conversions ==
  /\ \A u \in Uint64 : ToInt64(u) \in Int64
  /\ \A i \in Int64 : ToUint64(i) \in Uint64 /\ ToInt64(ToUint64(i)) = i
BY HalfAssumption DEF Uint64, Int64, ToInt64, ToUint64

\* A proposal state survives the store.
LEMMA ProposalStore ==
  /\ \A v \in StoredProposal : FetchProposalState(v) \in Int64
  /\ \A i \in Int64 : /\ EncodeProposal(i) \in StoredProposal
                      /\ FetchProposalState(EncodeProposal(i)) = i
<1>1. ASSUME NEW v \in StoredProposal
      PROVE  FetchProposalState(v) \in Int64
  <2>1. CASE v = NotFound
    BY <2>1, HalfAssumption DEF FetchProposalState, Int64
  <2>2. CASE v # NotFound
    <3>1. v \in {1} \X Uint64
      BY <2>2 DEF StoredProposal
    <3> QED BY <2>2, <3>1, Conversions DEF FetchProposalState
  <2> QED BY <2>1, <2>2
<1>2. ASSUME NEW i \in Int64
      PROVE  /\ EncodeProposal(i) \in StoredProposal
             /\ FetchProposalState(EncodeProposal(i)) = i
  BY Conversions
     DEF EncodeProposal, FetchProposalState, StoredProposal, NotFound
<1> QED BY <1>1, <1>2

\* An attestation state survives the store.
LEMMA AttestationStore ==
  /\ \A v \in StoredAttestation : FetchAttestationState(v) \in AttestationState
  /\ \A st \in AttestationState :
       /\ EncodeAttestation(st) \in StoredAttestation
       /\ FetchAttestationState(EncodeAttestation(st)) = st
<1>1. ASSUME NEW v \in StoredAttestation
      PROVE  FetchAttestationState(v) \in AttestationState
  <2>1. CASE v = NotFound
    BY <2>1, HalfAssumption DEF FetchAttestationState, AttestationState, Int64
  <2>2. CASE v # NotFound
    <3>1. v \in {1} \X Uint64 \X Uint64
      BY <2>2 DEF StoredAttestation
    <3> QED BY <2>2, <3>1, Conversions
            DEF FetchAttestationState, AttestationState
  <2> QED BY <2>1, <2>2
<1>2. ASSUME NEW st \in AttestationState
      PROVE  /\ EncodeAttestation(st) \in StoredAttestation
             /\ FetchAttestationState(EncodeAttestation(st)) = st
  <2>1. st.source \in Int64 /\ st.target \in Int64
    BY DEF AttestationState
  <2>2. /\ EncodeAttestation(st) \in {1} \X Uint64 \X Uint64
        /\ EncodeAttestation(st) # NotFound
    BY <2>1, Conversions DEF EncodeAttestation, NotFound
  <2>3. FetchAttestationState(EncodeAttestation(st)) =
          [source |-> st.source, target |-> st.target]
    BY <2>1, <2>2, Conversions DEF EncodeAttestation, FetchAttestationState
  <2> QED BY <2>2, <2>3 DEF AttestationState, StoredAttestation
<1> QED BY <1>1, <1>2
=============================================================================
