----------------------------- MODULE MCSigning -----------------------------
(***************************************************************************)
(* Instances of Signing for TLC.  Account path "b" and public key "kb" are *)
(* two names of the same account; nobody has account "x".                  *)
(***************************************************************************)
EXTENDS Signing, TLC

CONSTANTS g1, g2, ka, kb

MCGoroutines == {g1, g2}
MCKeys       == {ka, kb}
MCIds        == {"a", "b", "key-b", "x"}
MCAccount    == [id \in MCIds |-> CASE id = "a" -> ka
                                    [] id = "x" -> NoAccount
                                    [] OTHER    -> kb]
MCClients    == {"validator", "stranger"}
MCUnlockable == {kb}
MCAllowed    == {"validator"} \X MCKeys \X
                {"Sign", "SignBeaconProposal", "SignBeaconAttestation",
                 "LockAccount", "UnlockAccount"}
\* No account is locked while requests are served.
QuietAllowed == {t \in MCAllowed : t[3] \notin {"LockAccount", "UnlockAccount"}}
MCRoots      == {"r1", "r2"}

Symmetry == Permutations(MCGoroutines)

Request(method, entries) ==
  [method |-> method, client |-> "validator", adminIP |-> FALSE,
   entries |-> entries]

Entry(id, data) == [id |-> id, complete |-> TRUE, data |-> data]

Generic(domain) == [domain |-> domain, root |-> "r1"]
Block(slot, root) == [domain |-> "proposer", slot |-> slot, root |-> root]
Vote(source, target, root) ==
  [domain |-> "attester", source |-> source, target |-> target, root |-> root]

(***************************************************************************)
(* Proposals and generic data for one key, and every way to be refused.    *)
(***************************************************************************)
Blocks(slots) ==
  {Request("SignBeaconProposal", << Entry("b", Block(s, r)) >>) :
     s \in slots, r \in MCRoots}

Refused ==
  {[Request("SignBeaconProposal", << Entry("b", Block(1, "r1")) >>)
      EXCEPT !.client = "stranger"],
   Request("SignBeaconProposal", << Entry("x", Block(1, "r1")) >>),
   Request("SignBeaconProposal",
     << [Entry("b", Block(1, "r1")) EXCEPT !.complete = FALSE] >>),
   Request("SignBeaconProposal",
     << Entry("key-b", [Block(1, "r1") EXCEPT !.domain = "other"]) >>)}

ProposalRequests ==
  Blocks(0 .. 1) \cup Refused
    \cup {Request("SignGeneric", << Entry("b", Generic("proposer")) >>)}

\* Slots up to the top of uint64: 2^63 and beyond turn negative when stored.
WideProposalRequests == Blocks(0 .. 3)

(***************************************************************************)
(* Attestations, alone and in batches of two that name the keys in either  *)
(* order, or one key twice under two names; and an attestation that comes  *)
(* as generic data.                                                        *)
(***************************************************************************)
Votes == {Vote(0, 3, "r1"), Vote(1, 2, "r1")}

SingleVotes ==
  {Request("SignBeaconAttestation", << Entry("b", v) >>) : v \in Votes}
    \cup {Request("SignBeaconAttestation",
           << Entry("b", [Vote(0, 1, "r1") EXCEPT !.domain = "other"]) >>)}

BatchVotes ==
  {Request("SignBeaconAttestations",
     << Entry("a", Vote(0, 1, "r1")), Entry("key-b", Vote(1, 2, "r2")) >>),
   Request("SignBeaconAttestations",
     << Entry("b", Vote(1, 2, "r1")), Entry("a", Vote(1, 1, "r1")) >>),
   Request("SignBeaconAttestations",
     << Entry("b", Vote(1, 2, "r1")), Entry("key-b", Vote(1, 2, "r2")) >>)}

AttestationRequests ==
  SingleVotes \cup BatchVotes
    \cup {Request("SignGeneric", << Entry("b", Generic("attester")) >>)}

(***************************************************************************)
(* Batches that overlap in opposite orders, for the progress of requests.  *)
(***************************************************************************)
OverlappingRequests ==
  {Request("Multisign", << Entry("a", Generic("other")),
                           Entry("b", Generic("attester")) >>),
   Request("Multisign", << [Entry("a", Generic("other"))
                              EXCEPT !.complete = FALSE],
                           Entry("b", Generic("other")) >>),
   Request("Multisign", << >>),
   Request("SignBeaconAttestations",
     << Entry("b", Vote(0, 1, "r1")), Entry("a", Vote(0, 1, "r1")) >>)}
=============================================================================
