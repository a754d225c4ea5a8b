--------------------------- MODULE MCInterchange ---------------------------
(***************************************************************************)
(* Instances of Interchange for TLC.                                       *)
(***************************************************************************)
EXTENDS Interchange

CONSTANTS s1, s2, ka, kb

Block(slot, root) == [domain |-> "proposer", slot |-> slot, root |-> root]
Vote(source, target) ==
  [domain |-> "attester", source |-> source, target |-> target, root |-> "r1"]

MCServers == {s1, s2}
MCKeys    == {ka, kb}

\* One key proposes and attests from epoch 0 on; among its votes are a
\* double vote, (0,3) and (1,3), a surround vote, (0,3) around (1,2), and
\* two legal histories, (0,1) (0,3) and (0,1) (1,2) (1,3).  The other one
\* has rival blocks at slot 0.
MCBlocks == [k \in Keys |->
  IF k = ka THEN {Block(0, "r1")} ELSE {Block(0, "r1"), Block(0, "r2")}]
MCVotes == [k \in Keys |->
  IF k = ka THEN {Vote(0, 1), Vote(0, 3), Vote(1, 2), Vote(1, 3)} ELSE {}]

Entry(k, blocks, votes) == [key |-> k, blocks |-> blocks, votes |-> votes]
File(data) == [metadataOK |-> TRUE, data |-> data]

\* A file that is ahead in proposals and says nothing of attestations, one
\* with a full history in which no vote has both highest values, and one for
\* another chain.
MCElsewhere ==
  {File(<< Entry(ka, {0, 1}, {}) >>),
   File(<< Entry(ka, {0}, {<<0, 2>>, <<1, 1>>}) >>),
   [File(<< Entry(ka, {1}, {}) >>) EXCEPT !.metadataOK = FALSE]}

\* A file that gives one key twice.
Repeating == {File(<< Entry(ka, {1}, {}), Entry(ka, {0}, {}) >>)}
=============================================================================
