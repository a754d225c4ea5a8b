---------------------------- MODULE Interchange ----------------------------
(***************************************************************************)
(* Moving slashing protection between servers with the interchange format: *)
(* dirk --export-slashing-protection and --import-slashing-protection      *)
(* (slashingprotection.go, rules/standard/slashingprotection.go).          *)
(*                                                                         *)
(* The commands run while dirk is stopped.  An operator retires the active *)
(* server by exporting its protection, imports the file into another one,  *)
(* and then starts either the other server, if the import has ended        *)
(* without an error and without refusing a key, or the retired one again.  *)
(* Files from elsewhere and old exports may be imported at any time.  An   *)
(* import writes key by key, first the proposal and then the attestation,  *)
(* and may be cut short by an error or a crash after any of the writes.    *)
(*                                                                         *)
(* Slots and epochs are in the range that int64 can hold: what becomes of  *)
(* the others is the subject of Signing.                                   *)
(***************************************************************************)
EXTENDS SlashingRules, Sequences, FiniteSets, SequencesExt

CONSTANTS
  Servers, Keys,
  Blocks, Votes,   \* the duties that clients ask for with each key
  Elsewhere,       \* interchange files that come from elsewhere
  None

\* What json.Unmarshal and strconv.ParseInt make of a file.
IsFile(f) ==
  f.data \in Seq([key : Keys, blocks : SUBSET Int64,
                  votes : SUBSET (Int64 \X Int64)])

ASSUME InterchangeAssumption ==
  /\ IsFiniteSet(Keys)
  /\ None \notin Keys \cup Servers
  /\ \A k \in Keys :
       /\ \A d \in Blocks[k] : d.slot \in 0 .. Half - 1
       /\ \A d \in Votes[k] : d.source \in 0 .. Half - 1 /\ d.target \in 0 .. Half - 1
  /\ \A f \in Elsewhere : IsFile(f)

VARIABLES
  propDB, attDB,   \* badger, per server and key
  active,          \* the server that signs
  backup,          \* the latest export
  job,             \* the import that is running
  moved,           \* servers into which the latest export was imported
  granted          \* history: duties approved, by whichever server

vars == <<propDB, attDB, active, backup, job, moved, granted>>

Mark(s, k) ==
  LET a == FetchAttestationState(attDB[s][k])
  IN [slot |-> FetchProposalState(propDB[s][k]),
      source |-> a.source, target |-> a.target]

AtMost(a, b) == a.slot <= b.slot /\ a.source <= b.source /\ a.target <= b.target

Init ==
  /\ propDB  = [s \in Servers |-> [k \in Keys |-> NotFound]]
  /\ attDB   = [s \in Servers |-> [k \in Keys |-> NotFound]]
  /\ active \in Servers
  /\ backup  = None
  /\ job     = None
  /\ moved   = {}
  /\ granted = {}
-----------------------------------------------------------------------------
(***************************************************************************)
(* The active server at work: the rules of Signing, one duty at a time.    *)
(***************************************************************************)
Grant(k, action, d) ==
  granted' = granted \cup {[key |-> k, action |-> action, data |-> d]}

Propose(s, k, d) ==
  /\ CheckProposal(d, Mark(s, k).slot) = "APPROVED"
  /\ propDB' = [propDB EXCEPT ![s][k] = EncodeProposal(ProposalAfter(d))]
  /\ Grant(k, "SignBeaconProposal", d)
  /\ UNCHANGED attDB

Attest(s, k, d) ==
  /\ RunSignBeaconAttestationChecks(d, FetchAttestationState(attDB[s][k]))
       = "APPROVED"
  /\ attDB' = [attDB EXCEPT ![s][k] = EncodeAttestation(AttestationAfter(d))]
  /\ Grant(k, "SignBeaconAttestation", d)
  /\ UNCHANGED propDB

Serve ==
  /\ active # None /\ job = None
  /\ \E k \in Keys :
       \/ \E d \in Blocks[k] : Propose(active, k, d)
       \/ \E d \in Votes[k] : Attest(active, k, d)
  /\ UNCHANGED <<active, backup, job, moved>>
-----------------------------------------------------------------------------
(***************************************************************************)
(* Export.  A key with anything in the store has an entry in the file;     *)
(* a mark of -1 leaves its list empty.                                     *)
(***************************************************************************)
ExportedKeys(s) ==
  {k \in Keys : propDB[s][k] # NotFound \/ attDB[s][k] # NotFound}

\* Mutant: an attestation with source epoch zero is left out.
ExportedEntryPositive(s, k) ==
  LET m == Mark(s, k)
  IN [key    |-> k,
      blocks |-> IF m.slot = -1 THEN {} ELSE {m.slot},
      votes  |-> IF m.source <= 0 THEN {} ELSE {<<m.source, m.target>>}]

ExportedEntry(s, k) ==
  LET m == Mark(s, k)
  IN [key    |-> k,
      blocks |-> IF m.slot = -1 THEN {} ELSE {m.slot},
      votes  |-> IF m.source = -1 THEN {} ELSE {<<m.source, m.target>>}]

FetchSlashingProtection(s) ==
  [metadataOK |-> TRUE,
   data |-> LET ks == SetToSeq(ExportedKeys(s))
            IN [i \in DOMAIN ks |-> ExportedEntry(s, ks[i])]]

Export ==
  /\ active # None /\ job = None
  /\ backup' = FetchSlashingProtection(active)
  /\ active' = None
  /\ moved' = {active}
  /\ UNCHANGED <<propDB, attDB, job, granted>>

(***************************************************************************)
(* Import.  The file is read and compared with the store before anything   *)
(* is written.  In the order of the file, an entry that is behind the      *)
(* store in any of its three values is refused as a whole, and an accepted *)
(* one takes the place of an accepted one before it for the same key.      *)
(***************************************************************************)
Highest(S) == Max(S \cup {-1})

KeyProtection(e) == [slot   |-> Highest(e.blocks),
                     source |-> Highest({v[1] : v \in e.votes}),
                     target |-> Highest({v[2] : v \in e.votes})]

\* Mutants: the attestations are not compared; equal values are refused.
AcceptsNewerSlot(s, e) ==
  e.key \in ExportedKeys(s) => Mark(s, e.key).slot <= KeyProtection(e).slot

AcceptsNewer(s, e) ==
  e.key \in ExportedKeys(s) => /\ AtMost(Mark(s, e.key), KeyProtection(e))
                               /\ Mark(s, e.key) # KeyProtection(e)

Accepts(s, e) ==
  e.key \in ExportedKeys(s) => AtMost(Mark(s, e.key), KeyProtection(e))

AcceptedFor(s, f, k) ==
  {i \in DOMAIN f.data : f.data[i].key = k /\ Accepts(s, f.data[i])}

ProtectionMap(s, f) ==
  [k \in {k \in Keys : AcceptedFor(s, f, k) # {}} |->
     KeyProtection(f.data[Max(AcceptedFor(s, f, k))])]

RefusedKeys(s, f) ==
  {f.data[i].key : i \in {j \in DOMAIN f.data : ~Accepts(s, f.data[j])}}

StoreSlashingProtection(s, f) ==
  /\ job = None
  /\ f # None /\ f.metadataOK
  /\ job' = [server |-> s, file |-> f, map |-> ProtectionMap(s, f),
             refused |-> RefusedKeys(s, f),
             left |-> DOMAIN ProtectionMap(s, f), current |-> None]
  /\ UNCHANGED <<propDB, attDB, active, backup, moved, granted>>

\* Mutant: the key stays in the map.
ImportProposalAgain ==
  /\ job # None /\ job.current = None
  /\ \E k \in job.left :
       /\ job' = [job EXCEPT !.current = k]
       /\ propDB' = IF job.map[k].slot = -1 THEN propDB
                    ELSE [propDB EXCEPT ![job.server][k] =
                            EncodeProposal(job.map[k].slot)]
  /\ UNCHANGED <<attDB, active, backup, moved, granted>>

\* A key is taken from the map and its proposal stored, if it has one.
ImportProposal ==
  /\ job # None /\ job.current = None
  /\ \E k \in job.left :
       /\ job' = [job EXCEPT !.left = @ \ {k}, !.current = k]
       /\ propDB' = IF job.map[k].slot = -1 THEN propDB
                    ELSE [propDB EXCEPT ![job.server][k] =
                            EncodeProposal(job.map[k].slot)]
  /\ UNCHANGED <<attDB, active, backup, moved, granted>>

\* Mutant: a source epoch of zero is taken for an absent one.
ImportAttestationPositive ==
  /\ job # None /\ job.current # None
  /\ LET p == job.map[job.current]
     IN attDB' = IF p.source <= 0 THEN attDB
                 ELSE [attDB EXCEPT ![job.server][job.current] =
                         EncodeAttestation([source |-> p.source,
                                            target |-> p.target])]
  /\ job' = [job EXCEPT !.current = None]
  /\ UNCHANGED <<propDB, active, backup, moved, granted>>

\* Then its attestation.
ImportAttestation ==
  /\ job # None /\ job.current # None
  /\ LET p == job.map[job.current]
     IN attDB' = IF p.source = -1 THEN attDB
                 ELSE [attDB EXCEPT ![job.server][job.current] =
                         EncodeAttestation([source |-> p.source,
                                            target |-> p.target])]
  /\ job' = [job EXCEPT !.current = None]
  /\ UNCHANGED <<propDB, active, backup, moved, granted>>

Finished == job # None /\ job.left = {} /\ job.current = None

ImportEnds ==
  /\ Finished
  /\ moved' = IF job.file = backup /\ job.refused = {}
              THEN moved \cup {job.server} ELSE moved
  /\ job' = None
  /\ UNCHANGED <<propDB, attDB, active, backup, granted>>

\* A store that reports an error, or the process dying: nothing is undone.
ImportFails ==
  /\ job # None
  /\ job' = None
  /\ UNCHANGED <<propDB, attDB, active, backup, moved, granted>>

\* The operator starts a server that has all that the latest export has.
\* From then on that export is an old one.
Start(s) ==
  /\ active = None /\ job = None
  /\ s \in moved
  /\ active' = s
  /\ moved' = {}
  /\ UNCHANGED <<propDB, attDB, backup, job, granted>>

Import ==
  \/ \E s \in Servers, f \in Elsewhere \cup {backup} :
       StoreSlashingProtection(s, f)
  \/ ImportProposal \/ ImportAttestation \/ ImportEnds \/ ImportFails

Next ==
  \/ Serve \/ Export \/ Import
  \/ \E s \in Servers : Start(s)

Spec == Init /\ [][Next]_vars
-----------------------------------------------------------------------------
(***************************************************************************)
(* Properties.                                                             *)
(***************************************************************************)
\* Type invariant.
TypeOK ==
  /\ propDB \in [Servers -> [Keys -> StoredProposal]]
  /\ attDB \in [Servers -> [Keys -> StoredAttestation]]
  /\ active \in Servers \cup {None}
  /\ moved \subseteq Servers
  /\ job # None => /\ job.server \in Servers
                   /\ job.left \subseteq DOMAIN job.map
                   /\ job.current \in (DOMAIN job.map \ job.left) \cup {None}

\* However often the signing moves from server to server, and whatever
\* became of imports on the way, no two approved duties of a key conflict:
\* the file carries all of the protection that was left behind.
NoConflictAcrossServers ==
  \A m, n \in granted : m.key = n.key /\ m.action = n.action /\ m # n =>
    IF m.action = "SignBeaconProposal"
    THEN m.data.slot # n.data.slot
    ELSE /\ m.data.target # n.data.target
         /\ ~(/\ m.data.source < n.data.source
              /\ n.data.target < m.data.target)

\* No step of an import, finished or cut short, lowers any mark of any key:
\* an older file leaves newer protection alone.
ImportNeverLowers ==
  [][\A s \in Servers, k \in Keys : AtMost(Mark(s, k), Mark(s, k)')]_vars

\* When an import has written everything, the store holds at least what the
\* file provides for each key, unless the operator was told that the key was
\* refused: "the absolute highest" slot and epochs "across all provided"
\* proposals and attestations.
ImportTakesHighest ==
  Finished =>
    \A i \in DOMAIN job.file.data :
      LET e == job.file.data[i]
      IN e.key \notin job.refused =>
           AtMost(KeyProtection(e), Mark(job.server, e.key))

OneEntryPerKey(f) ==
  \A i, j \in DOMAIN f.data : f.data[i].key = f.data[j].key => i = j

\* ImportTakesHighest for the files that have one entry for each key: what
\* is left of it in the code.
ImportIsComplete ==
  Finished /\ OneEntryPerKey(job.file) =>
    \A i \in DOMAIN job.file.data :
      LET e == job.file.data[i]
      IN e.key \notin job.refused =>
           AtMost(KeyProtection(e), Mark(job.server, e.key))

\* An import that was cut short can be run again: the part that it has
\* written never makes the same file look older than the store.  (Of the
\* files that have one entry for each key; with two, the one that is written
\* may be ahead of the one that was passed over.)
ImportCanBeRepeated ==
  job # None /\ OneEntryPerKey(job.file) =>
    RefusedKeys(job.server, job.file) \subseteq job.refused
=============================================================================
