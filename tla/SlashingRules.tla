--------------------------- MODULE SlashingRules ---------------------------
(***************************************************************************)
(* The decisions of the standard rules (rules/standard) and the values     *)
(* they keep on disk.                                                      *)
(*                                                                         *)
(* Slots and epochs arrive as uint64 and are kept as int64, so both widths *)
(* are modelled: Half stands for 2^63, a uint64 is in 0 .. 2*Half-1 and an *)
(* int64 in -Half .. Half-1.  A stored value is the version byte followed  *)
(* by one or two unsigned words; an absent value is the empty sequence.    *)
(* Values in the older gob encoding, which Decode still reads, and values  *)
(* that it cannot decode are left out: this code never writes one, and a   *)
(* value that cannot be decoded ends like any other failed fetch.          *)
(***************************************************************************)
EXTENDS Integers

CONSTANT Half

ASSUME HalfAssumption == Half \in Nat \ {0}

Uint64 == 0 .. 2 * Half - 1
Int64  == -Half .. Half - 1

\* The Go conversions int64(u) and uint64(i): the same bits, read otherwise.
ToInt64(u)  == IF u < Half THEN u ELSE u - 2 * Half
ToUint64(i) == IF i >= 0 THEN i ELSE i + 2 * Half

(***************************************************************************)
(* States as they are stored and as they are read back.                    *)
(***************************************************************************)
NotFound == << >>

StoredProposal    == {NotFound} \cup ({1} \X Uint64)
StoredAttestation == {NotFound} \cup ({1} \X Uint64 \X Uint64)

ProposalState    == Int64
AttestationState == [source : Int64, target : Int64]

EncodeProposal(slot)   == << 1, ToUint64(slot) >>
EncodeAttestation(st)  == << 1, ToUint64(st.source), ToUint64(st.target) >>

\* Mutant: a stored slot of zero is taken for an absent one.
FetchProposalStateZero(v) ==
  IF v = NotFound \/ v[2] = 0 THEN -1 ELSE ToInt64(v[2])

\* A key that was never stored reads as -1.
FetchProposalState(v) ==
  IF v = NotFound THEN -1 ELSE ToInt64(v[2])

FetchAttestationState(v) ==
  IF v = NotFound
  THEN [source |-> -1, target |-> -1]
  ELSE [source |-> ToInt64(v[2]), target |-> ToInt64(v[3])]

(***************************************************************************)
(* Approval.  A domain is abstracted to its four-byte type.                *)
(***************************************************************************)
Domains == {"attester", "proposer", "exit", "other"}

ApproveIf(c) == IF c THEN "APPROVED" ELSE "DENIED"

\* OnSign never lets a beacon duty through the generic signer, and asks for
\* an administrator's address before a voluntary exit.
OnSign(data, isAdminIP) ==
  ApproveIf(/\ data.domain \notin {"attester", "proposer"}
            /\ data.domain = "exit" => isAdminIP)

ProposalDomainOK(data) == data.domain = "proposer"

\* Mutants: the slot of the state itself is let through; only the slot of
\* the state is refused.
CheckProposalNotBelow(data, slot) ==
  ApproveIf(slot >= 0 => data.slot >= slot)

CheckProposalRepeat(data, slot) ==
  ApproveIf(slot >= 0 => data.slot # slot)

\* uint64(state.Slot) of a state that is not negative is the state itself.
CheckProposal(data, slot) ==
  ApproveIf(slot >= 0 => data.slot > slot)

\* Mutants: the source is not compared with the state; the target of the
\* state itself is let through.
RunSignBeaconAttestationChecksNoSource(data, st) ==
  ApproveIf(/\ data.domain = "attester"
            /\ data.source # 0 \/ data.target # 0 => data.target > data.source
            /\ st.target >= 0 => data.target > st.target)

RunSignBeaconAttestationChecksNotBelow(data, st) ==
  ApproveIf(/\ data.domain = "attester"
            /\ data.source # 0 \/ data.target # 0 => data.target > data.source
            /\ st.target >= 0 => data.target >= st.target
            /\ st.source >= 0 => data.source >= st.source)

RunSignBeaconAttestationChecks(data, st) ==
  ApproveIf(/\ data.domain = "attester"
            /\ data.source # 0 \/ data.target # 0 => data.target > data.source
            /\ st.target >= 0 => data.target > st.target
            /\ st.source >= 0 => data.source >= st.source)

\* The state to store after an approval.
ProposalAfter(data) == ToInt64(data.slot)
AttestationAfter(data) ==
  [source |-> ToInt64(data.source), target |-> ToInt64(data.target)]
=============================================================================
