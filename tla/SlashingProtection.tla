------------------------- MODULE SlashingProtection -------------------------
(***************************************************************************)
(* What a dirk server promises about beacon duties, whatever happens       *)
(* inside it: for each key it has one mark for proposals and one for       *)
(* attestations; a duty is granted by moving the key's mark to it in one   *)
(* step, which is possible only if the duty lies beyond the mark; and only *)
(* granted duties are signed.  A mark may move without a grant (a store    *)
(* that fails after writing, a crash before the answer), and a grant may   *)
(* never be signed.  Several keys may move at once (a batch).              *)
(***************************************************************************)
EXTENDS Integers

CONSTANTS Keys,
          Proposals,       \* blocks: records with a slot
          Attestations     \* votes: records with a source and a target

VARIABLES slot,            \* proposal mark of each key
          source, target,  \* attestation mark of each key
          granted,
          signed

vars == <<slot, source, target, granted, signed>>

Proposal(k, d)    == [key |-> k, action |-> "SignBeaconProposal", data |-> d]
Attestation(k, d) == [key |-> k, action |-> "SignBeaconAttestation", data |-> d]

Init ==
  /\ slot    = [k \in Keys |-> -1]
  /\ source  = [k \in Keys |-> -1]
  /\ target  = [k \in Keys |-> -1]
  /\ granted = {}
  /\ signed  = {}

\* Batch maps some keys to the duty each of them is asked to perform.
Propose(K, batch) ==
  /\ \A k \in K : batch[k].slot > slot[k]
  /\ slot' = [k \in Keys |-> IF k \in K THEN batch[k].slot ELSE slot[k]]
  /\ granted' \in {granted, granted \cup {Proposal(k, batch[k]) : k \in K}}
  /\ UNCHANGED <<source, target, signed>>

Attest(K, batch) ==
  /\ \A k \in K : /\ batch[k].target > target[k]
                  /\ batch[k].source >= source[k]
                  /\ batch[k].source <= batch[k].target
  /\ source' = [k \in Keys |-> IF k \in K THEN batch[k].source ELSE source[k]]
  /\ target' = [k \in Keys |-> IF k \in K THEN batch[k].target ELSE target[k]]
  /\ granted' \in {granted, granted \cup {Attestation(k, batch[k]) : k \in K}}
  /\ UNCHANGED <<slot, signed>>

Sign ==
  /\ \E m \in granted : signed' = signed \cup {m}
  /\ UNCHANGED <<slot, source, target, granted>>

Next ==
  \/ \E K \in SUBSET Keys :
       \/ \E batch \in [K -> Proposals] : Propose(K, batch)
       \/ \E batch \in [K -> Attestations] : Attest(K, batch)
  \/ Sign

Spec == Init /\ [][Next]_vars
-----------------------------------------------------------------------------
Duties == {Proposal(k, d) : k \in Keys, d \in Proposals}
            \cup {Attestation(k, d) : k \in Keys, d \in Attestations}

\* Type invariant.
TypeOK ==
  /\ slot \in [Keys -> Int]
  /\ source \in [Keys -> Int]
  /\ target \in [Keys -> Int]
  /\ granted \subseteq Duties
  /\ signed \subseteq granted

IsProposal(m)    == m.action = "SignBeaconProposal"
IsAttestation(m) == m.action = "SignBeaconAttestation"

\* Two duties of one key that would be slashed if both were signed: two
\* blocks for a slot, two votes for a target, or a vote around another.
Slashable(m, n) ==
  /\ m.key = n.key /\ m # n
  /\ \/ IsProposal(m) /\ IsProposal(n) /\ m.data.slot = n.data.slot
     \/ /\ IsAttestation(m) /\ IsAttestation(n)
        /\ \/ m.data.target = n.data.target
           \/ /\ m.data.source < n.data.source
              /\ n.data.target < m.data.target

\* Nothing slashable is ever signed.
NothingSlashable == \A m, n \in signed : ~Slashable(m, n)
=============================================================================
