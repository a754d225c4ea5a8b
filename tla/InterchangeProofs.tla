------------------------- MODULE InterchangeProofs -------------------------
(***************************************************************************)
(* Proofs about Interchange, for any servers, keys, duties and files.      *)
(***************************************************************************)
EXTENDS Interchange, RulesProofs, FiniteSetTheorems, WellFoundedInduction

Protections == [slot : Int64, source : Int64, target : Int64]

\* A vote names a source.
Forward(f) ==
  \A i \in DOMAIN f.data : \A v \in f.data[i].votes : v[1] >= 0

\* Marks are -1 or what was stored, and there is no target without a source.
Sane(m) ==
  /\ m \in Protections
  /\ m.slot >= -1 /\ m.source >= -1 /\ m.target >= -1
  /\ m.source = -1 => m.target = -1

StoresOK == \A s \in Servers, k \in Keys : Sane(Mark(s, k))

BackupOK ==
  backup # None => IsFile(backup) /\ OneEntryPerKey(backup) /\ Forward(backup)

\* What an import will write for a key is not behind the store, and what it
\* has written is there.
JobKeyOK(k) ==
  /\ job.map[k].slot >= -1 /\ job.map[k].source >= -1
  /\ job.map[k].target >= -1
  /\ AtMost(Mark(job.server, k), job.map[k])
  /\ Forward(job.file) /\ job.map[k].source = -1 => job.map[k].target = -1
  /\ k \notin job.left => job.map[k].slot <= Mark(job.server, k).slot
  /\ k \notin job.left /\ k # job.current /\ job.map[k].source # -1 =>
       /\ job.map[k].source <= Mark(job.server, k).source
       /\ job.map[k].target <= Mark(job.server, k).target

\* A key of the file that was not refused is in the map.
MapOK ==
  \A i \in DOMAIN job.file.data :
    job.file.data[i].key \notin job.refused =>
      /\ job.file.data[i].key \in DOMAIN job.map
      /\ OneEntryPerKey(job.file) =>
           job.map[job.file.data[i].key] = KeyProtection(job.file.data[i])

JobOK ==
  job # None =>
    /\ job = [server |-> job.server, file |-> job.file, map |-> job.map,
              refused |-> job.refused, left |-> job.left,
              current |-> job.current]
    /\ job.file # None /\ IsFile(job.file)
    /\ DOMAIN job.map \subseteq Keys
    /\ \A k \in DOMAIN job.map : job.map[k] \in Protections /\ JobKeyOK(k)
    /\ MapOK

\* A duty is behind a protection.
Behind(m, p) ==
  /\ m.action = "SignBeaconProposal" => m.data.slot <= p.slot
  /\ m.action = "SignBeaconAttestation" =>
       m.data.source <= p.source /\ m.data.target <= p.target

IsDuty(m) ==
  /\ m.key \in Keys
  /\ \/ m.action = "SignBeaconProposal" /\ m.data \in Blocks[m.key]
     \/ m.action = "SignBeaconAttestation" /\ m.data \in Votes[m.key]

GrantsOK ==
  \A m \in granted :
    /\ IsDuty(m)
    /\ active # None => Behind(m, Mark(active, m.key))
    /\ active = None =>
         /\ \A s \in moved : Behind(m, Mark(s, m.key))
         /\ \E i \in DOMAIN backup.data :
              /\ backup.data[i].key = m.key
              /\ Behind(m, KeyProtection(backup.data[i]))

\* The inductive invariant.
InterchangeInv ==
  TypeOK /\ StoresOK /\ BackupOK /\ JobOK /\ GrantsOK /\ NoConflictAcrossServers
-----------------------------------------------------------------------------
(***************************************************************************)
(* Operators of the libraries.                                             *)
(***************************************************************************)
\* A set of naturals that is not empty has a least element.
LEMMA LeastNatural ==
  ASSUME NEW T \in SUBSET Nat, T # {}
  PROVE  \E x \in T : \A y \in T : x <= y
<1>1. PICK x \in T : \A y \in T : ~(<<y, x>> \in OpToRel(<, Nat))
  BY NatLessThanWellFounded, WFMin
<1>2. \A y \in T : ~(y < x)
  BY <1>1 DEF OpToRel
<1> QED BY <1>2

\* Max of a bounded set of integers that is not empty is its greatest
\* element.
LEMMA MaxFacts ==
  ASSUME NEW S \in SUBSET Int, S # {}, NEW b \in Int, \A x \in S : x <= b
  PROVE  Max(S) \in S /\ \A x \in S : x <= Max(S)
<1> DEFINE T == {b - x : x \in S}
<1>1. PICK t \in T : \A y \in T : t <= y
  <2>1. \A x \in S : b - x \in Nat
    OBVIOUS
  <2>2. T \subseteq Nat
    BY <2>1
  <2>3. T # {}
    OBVIOUS
  <2> HIDE DEF T
  <2> QED BY <2>2, <2>3, LeastNatural
<1>2. PICK x \in S : t = b - x
  OBVIOUS
<1>3. \A y \in S : x >= y
  BY <1>1, <1>2
<1> QED BY <1>3 DEF Max

LEMMA Int64Facts ==
  /\ Int64 \subseteq Int /\ -1 \in Int64
  /\ \A x \in Int64 : x <= Half
  /\ \A x \in 0 .. Half - 1 : x \in Int64 /\ x \in Nat /\ ToInt64(x) = x
BY HalfAssumption DEF Int64, ToInt64

\* The highest of the values in a file, or -1.
LEMMA HighestFacts ==
  ASSUME NEW S \in SUBSET Int64
  PROVE  /\ Highest(S) \in Int64 /\ Highest(S) >= -1
         /\ \A x \in S : x <= Highest(S)
         /\ Highest(S) = -1 \/ Highest(S) \in S
<1>1. /\ S \cup {-1} \in SUBSET Int /\ S \cup {-1} # {}
      /\ \A x \in S \cup {-1} : x <= Half
      /\ Half \in Int
  BY Int64Facts, HalfAssumption
<1>2. /\ Max(S \cup {-1}) \in S \cup {-1}
      /\ \A x \in S \cup {-1} : x <= Max(S \cup {-1})
  BY <1>1, MaxFacts
<1>3. Highest(S) = Max(S \cup {-1})
  BY DEF Highest
<1> QED BY <1>2, <1>3, Int64Facts

\* The export writes every key exactly once.
LEMMA SetToSeqFacts ==
  ASSUME NEW S, IsFiniteSet(S)
  PROVE  /\ Cardinality(S) \in Nat
         /\ SetToSeq(S) \in [1 .. Cardinality(S) -> S]
         /\ IsInjective(SetToSeq(S))
         /\ \A x \in S : \E i \in 1 .. Cardinality(S) : SetToSeq(S)[i] = x
<1> DEFINE D == 1 .. Cardinality(S)
<1>1. Cardinality(S) \in Nat /\ ExistsBijection(D, S)
  BY FS_CardinalityType
<1>2. \E f \in [D -> S] : IsInjective(f)
  BY <1>1 DEF ExistsBijection, Bijection, Injection
<1>3. SetToSeq(S) \in [D -> S] /\ IsInjective(SetToSeq(S))
  BY <1>2 DEF SetToSeq
<1>4. SetToSeq(S) \in Injection(D, S)
  BY <1>3 DEF Injection
<1>5. Cardinality(D) = Cardinality(S)
  BY <1>1, FS_Interval
<1>6. SetToSeq(S) \in Surjection(D, S)
  BY <1>4, <1>5, FS_Injection
<1> QED BY <1>1, <1>3, <1>6 DEF Surjection
-----------------------------------------------------------------------------
(***************************************************************************)
(* Files, and what is on disk.                                             *)
(***************************************************************************)
LEMMA FileFacts ==
  ASSUME NEW f, IsFile(f), NEW i \in DOMAIN f.data
  PROVE  /\ f.data[i].key \in Keys
         /\ f.data[i].blocks \in SUBSET Int64
         /\ f.data[i].votes \in SUBSET (Int64 \X Int64)
         /\ DOMAIN f.data = 1 .. Len(f.data) /\ Len(f.data) \in Nat
<1> DEFINE Entries == [key : Keys, blocks : SUBSET Int64,
                       votes : SUBSET (Int64 \X Int64)]
<1>1. f.data \in Seq(Entries)
  BY DEF IsFile
<1>2. f.data[i] \in Entries
  <2> HIDE DEF Entries
  <2> QED BY <1>1
<1>3. DOMAIN f.data = 1 .. Len(f.data) /\ Len(f.data) \in Nat
  BY <1>1
<1> QED BY <1>2, <1>3

\* The values that a file provides for a key: -1 or more, and no target
\* without a source if its votes have sources.
LEMMA KeyProtectionFacts ==
  ASSUME NEW f, IsFile(f), NEW i \in DOMAIN f.data
  PROVE  LET p == KeyProtection(f.data[i])
         IN /\ p \in Protections
            /\ p.slot >= -1 /\ p.source >= -1 /\ p.target >= -1
            /\ Forward(f) /\ p.source = -1 => p.target = -1
<1> DEFINE e == f.data[i]
           Sources == {v[1] : v \in e.votes}
           Targets == {v[2] : v \in e.votes}
<1>1. e.blocks \in SUBSET Int64 /\ e.votes \in SUBSET (Int64 \X Int64)
  BY FileFacts
<1>2. Sources \in SUBSET Int64 /\ Targets \in SUBSET Int64
  BY <1>1
<1>3. KeyProtection(e) = [slot |-> Highest(e.blocks), source |-> Highest(Sources),
                          target |-> Highest(Targets)]
  BY DEF KeyProtection
<1>4. /\ Highest(e.blocks) \in Int64 /\ Highest(e.blocks) >= -1
      /\ Highest(Sources) \in Int64 /\ Highest(Sources) >= -1
      /\ Highest(Targets) \in Int64 /\ Highest(Targets) >= -1
  BY <1>1, <1>2, HighestFacts
<1>5. ASSUME Forward(f), Highest(Sources) = -1
      PROVE  Highest(Targets) = -1
  <2>1. \A x \in Sources : x >= 0
    BY <1>5 DEF Forward
  <2>2. \A x \in Sources : x <= -1
    BY <1>2, <1>5, HighestFacts
  <2>3. Sources = {}
    <3> HIDE DEF Sources
    <3>1. \A x \in Sources : x \in Int
      BY <1>2, Int64Facts
    <3> QED BY <2>1, <2>2, <3>1
  <2>4. Targets = {}
    BY <2>3
  <2> QED BY <1>2, <2>4, HighestFacts
<1> HIDE DEF Sources, Targets
<1> QED BY <1>3, <1>4, <1>5 DEF Protections

\* A mark is what the two stored states say.
LEMMA MarkFacts ==
  ASSUME TypeOK, NEW s \in Servers, NEW k \in Keys
  PROVE  /\ propDB[s][k] \in StoredProposal /\ attDB[s][k] \in StoredAttestation
         /\ Mark(s, k) \in Protections
         /\ Mark(s, k).slot = FetchProposalState(propDB[s][k])
         /\ Mark(s, k).source = FetchAttestationState(attDB[s][k]).source
         /\ Mark(s, k).target = FetchAttestationState(attDB[s][k]).target
<1>1. propDB[s][k] \in StoredProposal /\ attDB[s][k] \in StoredAttestation
  BY DEF TypeOK
<1>2. /\ FetchProposalState(propDB[s][k]) \in Int64
      /\ FetchAttestationState(attDB[s][k]).source \in Int64
      /\ FetchAttestationState(attDB[s][k]).target \in Int64
  BY <1>1, ProposalStore, AttestationStore DEF AttestationState
<1> QED BY <1>1, <1>2 DEF Mark, Protections

\* A store after one write.
Put(db, s, k, v) == [db EXCEPT ![s][k] = v]

\* Writing a proposal moves the slot of one mark.
LEMMA ProposalWritten ==
  ASSUME TypeOK, NEW s \in Servers, NEW k \in Keys, NEW x \in Int64,
         propDB' = Put(propDB, s, k, EncodeProposal(x)),
         UNCHANGED attDB
  PROVE  /\ propDB' \in [Servers -> [Keys -> StoredProposal]]
         /\ \A t \in Servers, l \in Keys :
              Mark(t, l)' = IF t = s /\ l = k
                            THEN [slot |-> x, source |-> Mark(s, k).source,
                                  target |-> Mark(s, k).target]
                            ELSE Mark(t, l)
<1>1. EncodeProposal(x) \in StoredProposal /\ FetchProposalState(EncodeProposal(x)) = x
  BY ProposalStore
<1>2. propDB \in [Servers -> [Keys -> StoredProposal]]
  BY DEF TypeOK
<1>3. propDB' \in [Servers -> [Keys -> StoredProposal]]
  BY <1>1, <1>2 DEF Put
<1>4. \A t \in Servers, l \in Keys :
        propDB'[t][l] = IF t = s /\ l = k THEN EncodeProposal(x) ELSE propDB[t][l]
  BY <1>2 DEF Put
<1> QED BY <1>1, <1>3, <1>4 DEF Mark

\* Writing an attestation moves the epochs of one mark.
LEMMA AttestationWritten ==
  ASSUME TypeOK, NEW s \in Servers, NEW k \in Keys, NEW st \in AttestationState,
         attDB' = Put(attDB, s, k, EncodeAttestation(st)),
         UNCHANGED propDB
  PROVE  /\ attDB' \in [Servers -> [Keys -> StoredAttestation]]
         /\ \A t \in Servers, l \in Keys :
              Mark(t, l)' = IF t = s /\ l = k
                            THEN [slot |-> Mark(s, k).slot, source |-> st.source,
                                  target |-> st.target]
                            ELSE Mark(t, l)
<1>1. /\ EncodeAttestation(st) \in StoredAttestation
      /\ FetchAttestationState(EncodeAttestation(st)) = st
  BY AttestationStore
<1>2. attDB \in [Servers -> [Keys -> StoredAttestation]]
  BY DEF TypeOK
<1>3. attDB' \in [Servers -> [Keys -> StoredAttestation]]
  BY <1>1, <1>2 DEF Put
<1>4. \A t \in Servers, l \in Keys :
        attDB'[t][l] = IF t = s /\ l = k THEN EncodeAttestation(st) ELSE attDB[t][l]
  BY <1>2 DEF Put
<1> QED BY <1>1, <1>3, <1>4 DEF Mark

\* A key that is not in the store has no marks.
LEMMA NotExported ==
  ASSUME NEW s, NEW k \in Keys, k \notin ExportedKeys(s)
  PROVE  Mark(s, k) = [slot |-> -1, source |-> -1, target |-> -1]
BY DEF ExportedKeys, Mark, FetchProposalState, FetchAttestationState
-----------------------------------------------------------------------------
(***************************************************************************)
(* Marks only rise, and what rises stays ahead of what was granted.        *)
(***************************************************************************)
Rise == \A s \in Servers, k \in Keys : AtMost(Mark(s, k), Mark(s, k)')

LEMMA AtMostFacts ==
  /\ \A p \in Protections : AtMost(p, p)
  /\ \A p, q, r \in Protections : AtMost(p, q) /\ AtMost(q, r) => AtMost(p, r)
<1>1. \A p \in Protections : p.slot \in Int /\ p.source \in Int /\ p.target \in Int
  BY Int64Facts DEF Protections
<1>2. \A p \in Protections : AtMost(p, p)
  BY <1>1 DEF AtMost
<1>3. ASSUME NEW p \in Protections, NEW q \in Protections, NEW r \in Protections,
             AtMost(p, q), AtMost(q, r)
      PROVE  AtMost(p, r)
  BY <1>1, <1>3 DEF AtMost
<1> QED BY <1>2, <1>3

LEMMA SaneFacts ==
  ASSUME NEW m, Sane(m)
  PROVE  /\ m \in Protections
         /\ m.slot \in Int /\ m.source \in Int /\ m.target \in Int
         /\ m.slot \in Int64 /\ m.source \in Int64 /\ m.target \in Int64
         /\ m.slot >= -1 /\ m.source >= -1 /\ m.target >= -1
BY Int64Facts DEF Sane, Protections

LEMMA DutyFacts ==
  ASSUME NEW m, IsDuty(m)
  PROVE  /\ m.key \in Keys
         /\ m.action \in {"SignBeaconProposal", "SignBeaconAttestation"}
         /\ m.action = "SignBeaconProposal" => m.data.slot \in Nat
         /\ m.action = "SignBeaconAttestation" =>
              m.data.source \in Nat /\ m.data.target \in Nat
BY InterchangeAssumption, Int64Facts DEF IsDuty

LEMMA BehindRises ==
  ASSUME NEW m, IsDuty(m), NEW p \in Protections, NEW q \in Protections,
         Behind(m, p), AtMost(p, q)
  PROVE  Behind(m, q)
<1>1. /\ p.slot \in Int /\ p.source \in Int /\ p.target \in Int
      /\ q.slot \in Int /\ q.source \in Int /\ q.target \in Int
  BY Int64Facts DEF Protections
<1> QED BY <1>1, DutyFacts DEF Behind, AtMost

\* Marks that stay where they are have not fallen.
LEMMA SameMarks ==
  ASSUME TypeOK, UNCHANGED <<propDB, attDB>>
  PROVE  /\ \A s, k : Mark(s, k)' = Mark(s, k)
         /\ \A s : ExportedKeys(s)' = ExportedKeys(s)
         /\ Rise
<1>1. \A s, k : Mark(s, k)' = Mark(s, k)
  BY DEF Mark
<1>2. \A s : ExportedKeys(s)' = ExportedKeys(s)
  BY DEF ExportedKeys
<1> QED BY <1>1, <1>2, MarkFacts, AtMostFacts DEF Rise

\* Rising marks keep everything that was granted behind them.
LEMMA GrantsKept ==
  ASSUME InterchangeInv, TypeOK', Rise,
         UNCHANGED <<active, backup, moved, granted>>
  PROVE  GrantsOK' /\ NoConflictAcrossServers'
<1>1. NoConflictAcrossServers'
  BY DEF InterchangeInv, NoConflictAcrossServers
<1>2. ASSUME NEW m \in granted, NEW s \in Servers, Behind(m, Mark(s, m.key))
      PROVE  Behind(m, Mark(s, m.key)')
  <2>1. IsDuty(m) /\ m.key \in Keys
    BY DutyFacts DEF InterchangeInv, GrantsOK
  <2>2. Mark(s, m.key) \in Protections
    BY <2>1, MarkFacts DEF InterchangeInv
  <2>3. Mark(s, m.key)' \in Protections
    <3>1. propDB'[s][m.key] \in StoredProposal /\ attDB'[s][m.key] \in StoredAttestation
      BY <2>1 DEF TypeOK
    <3> QED BY <3>1, ProposalStore, AttestationStore
            DEF Mark, Protections, AttestationState
  <2> QED BY <1>2, <2>1, <2>2, <2>3, BehindRises DEF Rise
<1>3. GrantsOK'
  <2> SUFFICES ASSUME NEW m \in granted
               PROVE  /\ IsDuty(m)
                      /\ active # None => Behind(m, Mark(active, m.key))'
                      /\ active = None =>
                           /\ \A s \in moved : Behind(m, Mark(s, m.key)')
                           /\ \E i \in DOMAIN backup.data :
                                /\ backup.data[i].key = m.key
                                /\ Behind(m, KeyProtection(backup.data[i]))
    BY DEF GrantsOK
  <2>1. active # None => Behind(m, Mark(active, m.key)')
    BY <1>2 DEF InterchangeInv, GrantsOK, TypeOK
  <2>2. \A s \in moved : s \in Servers
    BY DEF InterchangeInv, TypeOK
  <2> QED BY <1>2, <2>1, <2>2 DEF InterchangeInv, GrantsOK
<1> QED BY <1>1, <1>3
-----------------------------------------------------------------------------
(***************************************************************************)
(* The active server: a duty is granted beyond the mark, which moves to    *)
(* it.                                                                     *)
(***************************************************************************)
\* A duty is ahead of another one of the same key and action.
Ahead(n, m) ==
  IF n.action = "SignBeaconProposal"
  THEN m.data.slot < n.data.slot
  ELSE m.data.source <= n.data.source /\ m.data.target < n.data.target

\* A duty that is ahead of those granted before, and behind the new mark.
LEMMA GrantStep ==
  ASSUME InterchangeInv, NEW s \in Servers, active = s, job = None,
         NEW n, IsDuty(n), granted' = granted \cup {n},
         UNCHANGED <<active, backup, job, moved>>,
         TypeOK', StoresOK', Rise, Behind(n, Mark(s, n.key)'),
         \A m \in granted : m.key = n.key /\ m.action = n.action => Ahead(n, m)
  PROVE  InterchangeInv'
<1>1. s # None
  BY InterchangeAssumption
<1>2. BackupOK' /\ JobOK'
  BY DEF InterchangeInv, BackupOK, JobOK, OneEntryPerKey, Forward, IsFile
<1>3. ASSUME NEW m \in granted
      PROVE  IsDuty(m) /\ Behind(m, Mark(s, m.key))
  <2>1. IsDuty(m) /\ Behind(m, Mark(active, m.key))
    BY <1>1 DEF InterchangeInv, GrantsOK
  <2> QED BY <2>1 DEF Mark
<1>4. ASSUME NEW m \in granted'
      PROVE  IsDuty(m) /\ Behind(m, Mark(s, m.key)')
  <2>1. CASE m \in granted
    <3>1. IsDuty(m) /\ m.key \in Keys
      BY <1>3, <2>1, DutyFacts
    <3>2. Mark(s, m.key) \in Protections
      BY <3>1, MarkFacts DEF InterchangeInv
    <3>3. Mark(s, m.key)' \in Protections
      BY <3>1 DEF StoresOK, Sane
    <3> QED BY <1>3, <2>1, <3>1, <3>2, <3>3, BehindRises DEF Rise
  <2>2. CASE m = n
    BY <2>2
  <2> QED BY <2>1, <2>2
<1>5. GrantsOK'
  <2>1. active' = s
    OBVIOUS
  <2>2. \A m \in granted' : Behind(m, Mark(active, m.key))'
    BY <1>4, <2>1 DEF Mark, Behind
  <2>3. \A m \in granted' : IsDuty(m)
    BY <1>4
  <2> QED BY <1>1, <2>1, <2>2, <2>3 DEF GrantsOK, IsDuty
<1>6. NoConflictAcrossServers'
  <2> SUFFICES ASSUME NEW a \in granted', NEW b \in granted',
                      a.key = b.key, a.action = b.action, a # b
               PROVE  IF a.action = "SignBeaconProposal"
                      THEN a.data.slot # b.data.slot
                      ELSE /\ a.data.target # b.data.target
                           /\ ~(/\ a.data.source < b.data.source
                                /\ b.data.target < a.data.target)
    BY DEF NoConflictAcrossServers
  <2>1. CASE a \in granted /\ b \in granted
    BY <2>1 DEF InterchangeInv, NoConflictAcrossServers
  <2>2. CASE a \in granted /\ b = n
    BY <1>3, <2>2, DutyFacts DEF Ahead
  <2>3. CASE a = n /\ b \in granted
    BY <1>3, <2>3, DutyFacts DEF Ahead
  <2> QED BY <2>1, <2>2, <2>3
<1> QED BY <1>2, <1>5, <1>6 DEF InterchangeInv

NewDuty(k, action, d) == [key |-> k, action |-> action, data |-> d]

LEMMA ProposeStep ==
  ASSUME InterchangeInv, NEW s \in Servers, active = s, job = None,
         NEW k \in Keys, NEW d \in Blocks[k], Propose(s, k, d),
         UNCHANGED <<active, backup, job, moved>>
  PROVE  InterchangeInv' /\ Rise
<1> DEFINE n == NewDuty(k, "SignBeaconProposal", d)
<1>1. TypeOK /\ StoresOK /\ Sane(Mark(s, k)) /\ s # None
  BY InterchangeAssumption DEF InterchangeInv, StoresOK
<1>2. PICK x \in Int64 : /\ x = d.slot /\ d.slot \in Nat /\ x \in Nat
                         /\ x = ProposalAfter(d)
  BY InterchangeAssumption, Int64Facts DEF ProposalAfter
<1>3. /\ propDB' = Put(propDB, s, k, EncodeProposal(x))
      /\ granted' = granted \cup {n} /\ UNCHANGED attDB
  BY <1>2 DEF Propose, Grant, NewDuty, Put
<1>4. x > Mark(s, k).slot /\ Mark(s, k).slot \in Int
  <2>1. Mark(s, k).slot >= 0 => x > Mark(s, k).slot
    BY <1>2 DEF Propose, CheckProposal, ApproveIf
  <2>2. Mark(s, k).slot \in Int /\ Mark(s, k).slot >= -1
    BY <1>1, SaneFacts
  <2> QED BY <1>2, <2>1, <2>2
<1>5. /\ propDB' \in [Servers -> [Keys -> StoredProposal]]
      /\ \A t \in Servers, l \in Keys :
           Mark(t, l)' = IF t = s /\ l = k
                         THEN [slot |-> x, source |-> Mark(s, k).source,
                               target |-> Mark(s, k).target]
                         ELSE Mark(t, l)
  BY <1>1, <1>2, <1>3, ProposalWritten
<1>6. TypeOK'
  BY <1>1, <1>3, <1>5 DEF TypeOK
<1>7. StoresOK'
  <2> SUFFICES ASSUME NEW t \in Servers, NEW l \in Keys
               PROVE  Sane(Mark(t, l)')
    BY DEF StoresOK, Sane
  <2>1. CASE t = s /\ l = k
    BY <1>1, <1>2, <1>5, <2>1 DEF Sane, Protections
  <2>2. CASE ~(t = s /\ l = k)
    BY <1>1, <1>5, <2>2 DEF StoresOK
  <2> QED BY <2>1, <2>2
<1>8. Rise
  <2> SUFFICES ASSUME NEW t \in Servers, NEW l \in Keys
               PROVE  AtMost(Mark(t, l), Mark(t, l)')
    BY DEF Rise
  <2>1. Mark(t, l) \in Protections
    BY <1>1, MarkFacts
  <2>2. CASE t = s /\ l = k
    BY <1>1, <1>2, <1>4, <1>5, <2>2, SaneFacts DEF AtMost
  <2>3. CASE ~(t = s /\ l = k)
    BY <1>5, <2>1, <2>3, AtMostFacts
  <2> QED BY <2>2, <2>3
<1>9. /\ IsDuty(n) /\ n.key = k /\ n.action = "SignBeaconProposal"
      /\ n.data.slot = d.slot
  BY DEF IsDuty, NewDuty
<1>10. n.data.slot = x
  BY <1>2, <1>9
<1> HIDE DEF n
<1>11. Behind(n, Mark(s, n.key)')
  <2>1. Mark(s, n.key)'.slot = n.data.slot /\ n.data.slot \in Int
    BY <1>2, <1>5, <1>9, <1>10
  <2> QED BY <1>9, <2>1 DEF Behind
<1>12. ASSUME NEW m \in granted, m.key = n.key, m.action = n.action
       PROVE  Ahead(n, m)
  <2>1. IsDuty(m) /\ Behind(m, Mark(active, m.key))
    BY <1>1 DEF InterchangeInv, GrantsOK
  <2>2. Behind(m, Mark(s, k))
    BY <1>9, <1>12, <2>1
  <2>3. m.data.slot \in Nat /\ m.data.slot <= Mark(s, k).slot
    BY <1>9, <1>12, <2>1, <2>2, DutyFacts DEF Behind
  <2> QED BY <1>2, <1>4, <1>9, <1>10, <2>3 DEF Ahead
<1> QED BY <1>3, <1>6, <1>7, <1>8, <1>9, <1>11, <1>12, GrantStep

LEMMA AttestStep ==
  ASSUME InterchangeInv, NEW s \in Servers, active = s, job = None,
         NEW k \in Keys, NEW d \in Votes[k], Attest(s, k, d),
         UNCHANGED <<active, backup, job, moved>>
  PROVE  InterchangeInv' /\ Rise
<1> DEFINE n == NewDuty(k, "SignBeaconAttestation", d)
<1>1. TypeOK /\ StoresOK /\ Sane(Mark(s, k)) /\ s # None
  BY InterchangeAssumption DEF InterchangeInv, StoresOK
<1>2. /\ d.source \in Int64 /\ d.source \in Nat
      /\ d.target \in Int64 /\ d.target \in Nat
      /\ AttestationAfter(d) = [source |-> d.source, target |-> d.target]
  BY InterchangeAssumption, Int64Facts DEF AttestationAfter
<1>3. PICK st \in AttestationState :
        st = AttestationAfter(d) /\ st.source = d.source /\ st.target = d.target
  BY <1>2 DEF AttestationState
<1>4. /\ attDB' = Put(attDB, s, k, EncodeAttestation(st))
      /\ granted' = granted \cup {n} /\ UNCHANGED propDB
  BY <1>3 DEF Attest, Grant, NewDuty, Put
<1>5. /\ st.source >= Mark(s, k).source /\ st.target > Mark(s, k).target
      /\ Mark(s, k).source \in Int /\ Mark(s, k).target \in Int
  <2>1. /\ Mark(s, k).source = FetchAttestationState(attDB[s][k]).source
        /\ Mark(s, k).target = FetchAttestationState(attDB[s][k]).target
    BY <1>1, MarkFacts
  <2>2. /\ Mark(s, k).target >= 0 => d.target > Mark(s, k).target
        /\ Mark(s, k).source >= 0 => d.source >= Mark(s, k).source
    BY <2>1 DEF Attest, RunSignBeaconAttestationChecks, ApproveIf
  <2>3. /\ Mark(s, k).source \in Int /\ Mark(s, k).source >= -1
        /\ Mark(s, k).target \in Int /\ Mark(s, k).target >= -1
    BY <1>1, SaneFacts
  <2> QED BY <1>2, <1>3, <2>2, <2>3
<1>6. /\ attDB' \in [Servers -> [Keys -> StoredAttestation]]
      /\ \A t \in Servers, l \in Keys :
           Mark(t, l)' = IF t = s /\ l = k
                         THEN [slot |-> Mark(s, k).slot, source |-> st.source,
                               target |-> st.target]
                         ELSE Mark(t, l)
  BY <1>1, <1>3, <1>4, AttestationWritten
<1>7. TypeOK'
  BY <1>1, <1>4, <1>6 DEF TypeOK
<1>8. StoresOK'
  <2> SUFFICES ASSUME NEW t \in Servers, NEW l \in Keys
               PROVE  Sane(Mark(t, l)')
    BY DEF StoresOK, Sane
  <2>1. CASE t = s /\ l = k
    BY <1>1, <1>2, <1>3, <1>6, <2>1 DEF Sane, Protections
  <2>2. CASE ~(t = s /\ l = k)
    BY <1>1, <1>6, <2>2 DEF StoresOK
  <2> QED BY <2>1, <2>2
<1>9. Rise
  <2> SUFFICES ASSUME NEW t \in Servers, NEW l \in Keys
               PROVE  AtMost(Mark(t, l), Mark(t, l)')
    BY DEF Rise
  <2>1. Mark(t, l) \in Protections
    BY <1>1, MarkFacts
  <2>2. CASE t = s /\ l = k
    BY <1>1, <1>2, <1>3, <1>5, <1>6, <2>2, SaneFacts DEF AtMost
  <2>3. CASE ~(t = s /\ l = k)
    BY <1>6, <2>1, <2>3, AtMostFacts
  <2> QED BY <2>2, <2>3
<1>10. /\ IsDuty(n) /\ n.key = k /\ n.action = "SignBeaconAttestation"
       /\ n.data = d
  BY DEF IsDuty, NewDuty
<1> HIDE DEF n
<1>11. Behind(n, Mark(s, n.key)')
  BY <1>2, <1>3, <1>6, <1>10 DEF Behind
<1>12. ASSUME NEW m \in granted, m.key = n.key, m.action = n.action
       PROVE  Ahead(n, m)
  <2>1. IsDuty(m) /\ Behind(m, Mark(active, m.key))
    BY <1>1 DEF InterchangeInv, GrantsOK
  <2>2. Behind(m, Mark(s, k))
    BY <1>10, <1>12, <2>1
  <2> QED BY <1>2, <1>3, <1>5, <1>10, <1>12, <2>1, <2>2, DutyFacts
          DEF Behind, Ahead
<1> QED BY <1>4, <1>7, <1>8, <1>9, <1>10, <1>11, <1>12, GrantStep

LEMMA ServeStep ==
  ASSUME InterchangeInv, Serve
  PROVE  InterchangeInv' /\ Rise
<1>1. PICK s \in Servers : s = active
  BY DEF InterchangeInv, TypeOK, Serve
<1>2. PICK k \in Keys : \/ \E d \in Blocks[k] : Propose(s, k, d)
                        \/ \E d \in Votes[k] : Attest(s, k, d)
  BY <1>1 DEF Serve, Propose, Attest, Mark
<1>3. job = None /\ UNCHANGED <<active, backup, job, moved>>
  BY DEF Serve
<1>4. ASSUME NEW d \in Blocks[k], Propose(s, k, d)
      PROVE  InterchangeInv' /\ Rise
  BY <1>1, <1>3, <1>4, ProposeStep
<1>5. ASSUME NEW d \in Votes[k], Attest(s, k, d)
      PROVE  InterchangeInv' /\ Rise
  BY <1>1, <1>3, <1>5, AttestStep
<1> QED BY <1>2, <1>4, <1>5
-----------------------------------------------------------------------------
(***************************************************************************)
(* Export: the file says of every key what its mark says.                  *)
(***************************************************************************)
LEMMA HighestOfOne ==
  /\ Highest({}) = -1
  /\ \A x \in Int64 : x >= -1 => Highest({x}) = x
<1>1. Highest({}) = -1
  BY HighestFacts
<1>2. ASSUME NEW x \in Int64, x >= -1
      PROVE  Highest({x}) = x
  <2>1. {x} \in SUBSET Int64 /\ x \in Int
    BY Int64Facts
  <2>2. /\ Highest({x}) = -1 \/ Highest({x}) \in {x}
        /\ x <= Highest({x})
    BY <2>1, HighestFacts
  <2> QED BY <1>2, <2>1, <2>2
<1> QED BY <1>1, <1>2

LEMMA EntryFacts ==
  ASSUME TypeOK, StoresOK, NEW s \in Servers, NEW k \in Keys
  PROVE  LET e == ExportedEntry(s, k)
         IN /\ e \in [key : Keys, blocks : SUBSET Int64,
                      votes : SUBSET (Int64 \X Int64)]
            /\ e.key = k
            /\ \A v \in e.votes : v[1] >= 0
            /\ KeyProtection(e) = Mark(s, k)
<1> DEFINE m == Mark(s, k)
           blocks == IF m.slot = -1 THEN {} ELSE {m.slot}
           votes == IF m.source = -1 THEN {} ELSE {<<m.source, m.target>>}
           e == ExportedEntry(s, k)
<1>1. e = [key |-> k, blocks |-> blocks, votes |-> votes]
  BY DEF ExportedEntry
<1>2. /\ Sane(m) /\ m.slot \in Int64 /\ m.source \in Int64 /\ m.target \in Int64
      /\ m.slot >= -1 /\ m.source >= -1 /\ m.target >= -1
      /\ m.source \in Int
      /\ m.source = -1 => m.target = -1
      /\ m = [slot |-> m.slot, source |-> m.source, target |-> m.target]
  BY SaneFacts DEF StoresOK, Sane, Protections
<1> HIDE DEF m
<1>3. blocks \in SUBSET Int64 /\ votes \in SUBSET (Int64 \X Int64)
  BY <1>2
<1>4. \A v \in votes : v[1] >= 0
  BY <1>2
<1>5. Highest(blocks) = m.slot
  BY <1>2, HighestOfOne
<1>6. Highest({v[1] : v \in votes}) = m.source
  <2>1. CASE m.source = -1
    <3>1. {v[1] : v \in votes} = {}
      BY <2>1
    <3> QED BY <2>1, <3>1, HighestOfOne
  <2>2. CASE m.source # -1
    <3>1. {v[1] : v \in votes} = {m.source}
      BY <2>2
    <3> QED BY <1>2, <3>1, HighestOfOne
  <2> QED BY <2>1, <2>2
<1>7. Highest({v[2] : v \in votes}) = m.target
  <2>1. CASE m.source = -1
    <3>1. {v[2] : v \in votes} = {}
      BY <2>1
    <3> QED BY <1>2, <2>1, <3>1, HighestOfOne
  <2>2. CASE m.source # -1
    <3>1. {v[2] : v \in votes} = {m.target}
      BY <2>2
    <3> QED BY <1>2, <3>1, HighestOfOne
  <2> QED BY <2>1, <2>2
<1> HIDE DEF blocks, votes
<1>8. KeyProtection(e) = m
  BY <1>1, <1>2, <1>5, <1>6, <1>7 DEF KeyProtection
<1> QED BY <1>1, <1>3, <1>4, <1>8 DEF m

LEMMA ExportFacts ==
  ASSUME TypeOK, StoresOK, NEW s \in Servers
  PROVE  LET f == FetchSlashingProtection(s)
         IN /\ IsFile(f) /\ OneEntryPerKey(f) /\ Forward(f)
            /\ \A k \in ExportedKeys(s) : \E i \in DOMAIN f.data :
                 /\ f.data[i].key = k
                 /\ KeyProtection(f.data[i]) = Mark(s, k)
<1> DEFINE Entries == [key : Keys, blocks : SUBSET Int64,
                       votes : SUBSET (Int64 \X Int64)]
           S == ExportedKeys(s)
           ks == SetToSeq(S)
           n == Cardinality(S)
           f == FetchSlashingProtection(s)
<1>1. IsFiniteSet(S) /\ S \subseteq Keys
  <2>1. S \subseteq Keys
    BY DEF ExportedKeys
  <2> QED BY <2>1, InterchangeAssumption, FS_Subset
<1>2. /\ n \in Nat /\ ks \in [1 .. n -> S] /\ IsInjective(ks)
      /\ \A x \in S : \E i \in 1 .. n : ks[i] = x
  <2> HIDE DEF S
  <2> QED BY <1>1, SetToSeqFacts
<1>3. f.data = [i \in 1 .. n |-> ExportedEntry(s, ks[i])]
  BY <1>2 DEF FetchSlashingProtection
<1> HIDE DEF S, ks, n, f
<1>4. ASSUME NEW i \in 1 .. n
      PROVE  /\ f.data[i] \in Entries /\ f.data[i].key = ks[i]
             /\ \A v \in f.data[i].votes : v[1] >= 0
             /\ KeyProtection(f.data[i]) = Mark(s, ks[i])
  <2>1. f.data[i] = ExportedEntry(s, ks[i]) /\ ks[i] \in Keys
    BY <1>1, <1>2, <1>3
  <2> HIDE DEF Entries
  <2> QED BY <2>1, EntryFacts DEF Entries
<1>5. DOMAIN f.data = 1 .. n
  BY <1>3
<1>6. IsFile(f)
  <2>1. f.data \in [1 .. n -> Entries]
    BY <1>3, <1>4
  <2> HIDE DEF Entries
  <2>2. f.data \in Seq(Entries)
    BY <1>2, <2>1
  <2> QED BY <2>2 DEF IsFile, Entries
<1>7. OneEntryPerKey(f)
  BY <1>2, <1>4, <1>5 DEF OneEntryPerKey, IsInjective
<1>8. Forward(f)
  BY <1>4, <1>5 DEF Forward
<1>9. \A k \in S : \E i \in DOMAIN f.data :
        f.data[i].key = k /\ KeyProtection(f.data[i]) = Mark(s, k)
  BY <1>2, <1>4, <1>5
<1> QED BY <1>6, <1>7, <1>8, <1>9 DEF f, S

\* A key for which anything was granted is in the store.
LEMMA GrantedIsExported ==
  ASSUME TypeOK, NEW s \in Servers, NEW m, IsDuty(m), Behind(m, Mark(s, m.key))
  PROVE  m.key \in ExportedKeys(s)
<1> SUFFICES ASSUME m.key \notin ExportedKeys(s)
             PROVE  FALSE
  OBVIOUS
<1>1. Mark(s, m.key) = [slot |-> -1, source |-> -1, target |-> -1]
  BY NotExported, DutyFacts
<1> QED BY <1>1, DutyFacts DEF Behind

LEMMA ExportStep ==
  ASSUME InterchangeInv, Export
  PROVE  InterchangeInv' /\ Rise
<1>1. PICK s \in Servers : s = active
  BY DEF InterchangeInv, TypeOK, Export
<1>2. PICK f : f = FetchSlashingProtection(s)
  OBVIOUS
<1>3. /\ backup' = f /\ active' = None /\ moved' = {s}
      /\ job = None /\ UNCHANGED <<propDB, attDB, job, granted>>
  BY <1>1, <1>2 DEF Export
<1>4. /\ IsFile(f) /\ OneEntryPerKey(f) /\ Forward(f)
      /\ \A k \in ExportedKeys(s) : \E i \in DOMAIN f.data :
           f.data[i].key = k /\ KeyProtection(f.data[i]) = Mark(s, k)
  BY <1>2, ExportFacts DEF InterchangeInv
<1>5. TypeOK'
  BY <1>3 DEF InterchangeInv, TypeOK
<1>6. /\ \A t, k : Mark(t, k)' = Mark(t, k)
      /\ Rise
  BY <1>3, SameMarks DEF InterchangeInv
<1>7. StoresOK'
  BY <1>6 DEF InterchangeInv, StoresOK
<1>8. BackupOK'
  BY <1>3, <1>4 DEF BackupOK, IsFile, OneEntryPerKey, Forward
<1>9. JobOK'
  BY <1>3 DEF JobOK
<1>10. NoConflictAcrossServers'
  BY <1>3 DEF InterchangeInv, NoConflictAcrossServers
<1>11. GrantsOK'
  <2>1. ASSUME NEW m \in granted
        PROVE  /\ IsDuty(m) /\ Behind(m, Mark(s, m.key))
               /\ \E i \in DOMAIN f.data :
                    /\ f.data[i].key = m.key
                    /\ Behind(m, KeyProtection(f.data[i]))
    <3>1. IsDuty(m) /\ Behind(m, Mark(s, m.key))
      BY <1>1, InterchangeAssumption DEF InterchangeInv, GrantsOK
    <3>2. m.key \in ExportedKeys(s)
      BY <3>1, GrantedIsExported DEF InterchangeInv
    <3> QED BY <1>4, <3>1, <3>2
  <2>2. \A m \in granted : Behind(m, Mark(s, m.key)')
    BY <1>6, <2>1
  <2> SUFFICES ASSUME NEW m \in granted
               PROVE  /\ IsDuty(m)
                      /\ Behind(m, Mark(s, m.key)')
                      /\ \E i \in DOMAIN f.data :
                           /\ f.data[i].key = m.key
                           /\ Behind(m, KeyProtection(f.data[i]))
    BY <1>3 DEF GrantsOK, Behind, KeyProtection, IsDuty
  <2> QED BY <2>1, <2>2
<1> QED BY <1>5, <1>6, <1>7, <1>8, <1>9, <1>10, <1>11 DEF InterchangeInv
-----------------------------------------------------------------------------
(***************************************************************************)
(* Import: the map is made of entries that are not behind the store.       *)
(***************************************************************************)
\* The entry of the file that the map has for a key.
LEMMA AcceptedFacts ==
  ASSUME TypeOK, StoresOK, NEW s \in Servers, NEW f, IsFile(f),
         NEW k \in DOMAIN ProtectionMap(s, f)
  PROVE  /\ k \in Keys
         /\ \E j \in DOMAIN f.data :
              /\ f.data[j].key = k
              /\ ProtectionMap(s, f)[k] = KeyProtection(f.data[j])
              /\ AtMost(Mark(s, k), KeyProtection(f.data[j]))
<1> DEFINE A == AcceptedFor(s, f, k)
           j == Max(A)
<1>1. k \in Keys /\ A # {} /\ ProtectionMap(s, f)[k] = KeyProtection(f.data[j])
  BY DEF ProtectionMap
<1>2. A \subseteq DOMAIN f.data
  BY DEF AcceptedFor
<1>3. DOMAIN f.data = 1 .. Len(f.data) /\ Len(f.data) \in Nat
  BY <1>1, <1>2, FileFacts
<1>4. j \in A
  <2>1. A \in SUBSET Int /\ Len(f.data) \in Int /\ \A x \in A : x <= Len(f.data)
    BY <1>2, <1>3
  <2> HIDE DEF A
  <2> QED BY <1>1, <2>1, MaxFacts
<1> HIDE DEF j
<1>5. j \in DOMAIN f.data /\ f.data[j].key = k /\ Accepts(s, f.data[j])
  BY <1>4 DEF AcceptedFor
<1>6. AtMost(Mark(s, k), KeyProtection(f.data[j]))
  <2>1. CASE k \in ExportedKeys(s)
    BY <1>5, <2>1 DEF Accepts
  <2>2. CASE k \notin ExportedKeys(s)
    <3>1. Mark(s, k) = [slot |-> -1, source |-> -1, target |-> -1]
      BY <1>1, <2>2, NotExported
    <3>2. /\ KeyProtection(f.data[j]).slot >= -1
          /\ KeyProtection(f.data[j]).source >= -1
          /\ KeyProtection(f.data[j]).target >= -1
          /\ KeyProtection(f.data[j]) \in Protections
      BY <1>5, KeyProtectionFacts
    <3>3. /\ KeyProtection(f.data[j]).slot \in Int
          /\ KeyProtection(f.data[j]).source \in Int
          /\ KeyProtection(f.data[j]).target \in Int
      BY <3>2, Int64Facts DEF Protections
    <3> QED BY <3>1, <3>2, <3>3 DEF AtMost
  <2> QED BY <2>1, <2>2
<1> QED BY <1>1, <1>5, <1>6

\* A key that is not refused is in the map, with the values of its entry if
\* it has only one.
LEMMA NotRefused ==
  ASSUME NEW s \in Servers, NEW f, IsFile(f), NEW i \in DOMAIN f.data,
         f.data[i].key \notin RefusedKeys(s, f)
  PROVE  /\ f.data[i].key \in DOMAIN ProtectionMap(s, f)
         /\ OneEntryPerKey(f) =>
              ProtectionMap(s, f)[f.data[i].key] = KeyProtection(f.data[i])
<1> DEFINE k == f.data[i].key
           A == AcceptedFor(s, f, k)
<1>1. k \in Keys /\ DOMAIN f.data = 1 .. Len(f.data) /\ Len(f.data) \in Nat
  BY FileFacts
<1>2. Accepts(s, f.data[i])
  BY DEF RefusedKeys
<1>3. i \in A
  BY <1>2 DEF AcceptedFor
<1>4. k \in DOMAIN ProtectionMap(s, f)
  BY <1>1, <1>3 DEF ProtectionMap
<1>5. ASSUME OneEntryPerKey(f)
      PROVE  ProtectionMap(s, f)[k] = KeyProtection(f.data[i])
  <2>1. A = {i}
    BY <1>3, <1>5 DEF AcceptedFor, OneEntryPerKey
  <2>2. Max({i}) = i
    BY <1>1 DEF Max
  <2>3. ProtectionMap(s, f)[k] = KeyProtection(f.data[Max(A)])
    BY <1>1, <1>3 DEF ProtectionMap
  <2> QED BY <2>1, <2>2, <2>3
<1> QED BY <1>4, <1>5

LEMMA StoreStep ==
  ASSUME InterchangeInv, NEW s \in Servers, NEW f, f \in Elsewhere \cup {backup},
         StoreSlashingProtection(s, f)
  PROVE  InterchangeInv' /\ Rise
<1> DEFINE M == ProtectionMap(s, f)
           R == RefusedKeys(s, f)
<1>1. f # None /\ IsFile(f)
  BY InterchangeAssumption DEF InterchangeInv, BackupOK, StoreSlashingProtection
<1>2. /\ job' = [server |-> s, file |-> f, map |-> M, refused |-> R,
                 left |-> DOMAIN M, current |-> None]
      /\ UNCHANGED <<propDB, attDB, active, backup, moved, granted>>
  BY DEF StoreSlashingProtection
<1>3. /\ \A t, k : Mark(t, k)' = Mark(t, k)
      /\ Rise
  BY <1>2, SameMarks DEF InterchangeInv
<1>4. ASSUME NEW k \in DOMAIN M
      PROVE  /\ k \in Keys /\ M[k] \in Protections
             /\ M[k].slot >= -1 /\ M[k].source >= -1 /\ M[k].target >= -1
             /\ AtMost(Mark(s, k), M[k])
             /\ Forward(f) /\ M[k].source = -1 => M[k].target = -1
  <2>1. PICK j \in DOMAIN f.data : /\ M[k] = KeyProtection(f.data[j])
                                   /\ AtMost(Mark(s, k), KeyProtection(f.data[j]))
    BY <1>1, AcceptedFacts DEF InterchangeInv
  <2>2. k \in Keys
    BY <1>1, AcceptedFacts DEF InterchangeInv
  <2> HIDE DEF M
  <2> QED BY <1>1, <2>1, <2>2, KeyProtectionFacts
<1>5. ASSUME NEW i \in DOMAIN f.data, f.data[i].key \notin R
      PROVE  /\ f.data[i].key \in DOMAIN M
             /\ OneEntryPerKey(f) => M[f.data[i].key] = KeyProtection(f.data[i])
  BY <1>1, <1>5, NotRefused
<1> HIDE DEF M, R
<1>6. TypeOK'
  BY <1>2 DEF InterchangeInv, TypeOK
<1>7. StoresOK'
  BY <1>3 DEF InterchangeInv, StoresOK
<1>8. BackupOK'
  BY <1>2 DEF InterchangeInv, BackupOK, IsFile, OneEntryPerKey, Forward
<1>9. JobOK'
  <2>1. /\ job'.server = s /\ job'.file = f /\ job'.map = M
        /\ job'.refused = R /\ job'.left = DOMAIN M /\ job'.current = None
    BY <1>2
  <2>2. ASSUME NEW k \in DOMAIN M
        PROVE  JobKeyOK(k)'
    <3>1. Mark(s, k)' = Mark(s, k)
      BY <1>3
    <3>2. Mark(job.server, k)' = Mark(s, k)
      BY <2>1, <3>1 DEF Mark
    <3> QED BY <1>4, <2>1, <2>2, <3>2 DEF JobKeyOK, Forward
  <2>3. MapOK'
    BY <1>5, <2>1 DEF MapOK, OneEntryPerKey
  <2> QED BY <1>1, <1>2, <1>4, <2>1, <2>2, <2>3 DEF JobOK, IsFile
<1>10. GrantsOK' /\ NoConflictAcrossServers'
  BY <1>2, <1>3, <1>6, GrantsKept
<1> QED BY <1>3, <1>6, <1>7, <1>8, <1>9, <1>10 DEF InterchangeInv

\* Marks of the server that imports.
LEMMA JobFacts ==
  ASSUME InterchangeInv, job # None
  PROVE  /\ job.server \in Servers
         /\ \A k \in DOMAIN job.map :
              /\ k \in Keys /\ k # None
              /\ job.map[k] \in Protections /\ JobKeyOK(k)
              /\ job.map[k].slot \in Int64 /\ job.map[k].source \in Int64
              /\ job.map[k].target \in Int64
              /\ job.map[k].slot \in Int /\ job.map[k].source \in Int
              /\ job.map[k].target \in Int
              /\ Sane(Mark(job.server, k))
<1>1. job.server \in Servers /\ DOMAIN job.map \subseteq Keys
  BY DEF InterchangeInv, TypeOK, JobOK
<1>2. \A k \in DOMAIN job.map : job.map[k] \in Protections /\ JobKeyOK(k)
  BY DEF InterchangeInv, JobOK
<1>3. \A p \in Protections : /\ p.slot \in Int64 /\ p.source \in Int64
                             /\ p.target \in Int64 /\ p.slot \in Int
                             /\ p.source \in Int /\ p.target \in Int
  BY Int64Facts DEF Protections
<1>4. \A k \in DOMAIN job.map : Sane(Mark(job.server, k))
  BY <1>1 DEF InterchangeInv, StoresOK
<1> QED BY <1>1, <1>2, <1>3, <1>4, InterchangeAssumption

\* What the steps of an import leave alone.
LEMMA JobKept ==
  ASSUME InterchangeInv, job # None, TypeOK', StoresOK', Rise,
         job' = [server |-> job.server, file |-> job.file, map |-> job.map,
                 refused |-> job.refused, left |-> job'.left,
                 current |-> job'.current],
         \A k \in DOMAIN job.map : JobKeyOK(k)',
         UNCHANGED <<active, backup, moved, granted>>
  PROVE  InterchangeInv'
<1>1. /\ job'.server = job.server /\ job'.file = job.file /\ job'.map = job.map
      /\ job'.refused = job.refused
  OBVIOUS
<1>2. MapOK'
  BY <1>1 DEF InterchangeInv, JobOK, MapOK, OneEntryPerKey
<1>3. JobOK'
  BY <1>1, <1>2 DEF InterchangeInv, JobOK, IsFile
<1>4. BackupOK'
  BY DEF InterchangeInv, BackupOK, IsFile, OneEntryPerKey, Forward
<1> QED BY <1>3, <1>4, GrantsKept DEF InterchangeInv

LEMMA ImportProposalStep ==
  ASSUME InterchangeInv, ImportProposal
  PROVE  InterchangeInv' /\ Rise
<1>1. job # None /\ job.current = None
  BY DEF ImportProposal
<1>2. PICK k \in job.left :
        /\ job' = [job EXCEPT !.left = @ \ {k}, !.current = k]
        /\ propDB' = IF job.map[k].slot = -1 THEN propDB
                     ELSE [propDB EXCEPT ![job.server][k] =
                             EncodeProposal(job.map[k].slot)]
  BY DEF ImportProposal
<1>3. UNCHANGED <<attDB, active, backup, moved, granted>>
  BY DEF ImportProposal
<1>4. k \in DOMAIN job.map /\ k \in Keys
  BY <1>1, <1>2, JobFacts DEF InterchangeInv, TypeOK
<1>5. PICK s \in Servers, x \in Int64 : s = job.server /\ x = job.map[k].slot
  BY <1>1, <1>4, JobFacts
<1>6. /\ job' = [server |-> job.server, file |-> job.file, map |-> job.map,
                 refused |-> job.refused, left |-> job'.left,
                 current |-> job'.current]
      /\ job'.left = job.left \ {k} /\ job'.current = k
      /\ job'.server = job.server /\ job'.file = job.file /\ job'.map = job.map
  <2>1. job = [server |-> job.server, file |-> job.file, map |-> job.map,
               refused |-> job.refused, left |-> job.left,
               current |-> job.current]
    BY <1>1 DEF InterchangeInv, JobOK
  <2>2. job' = [server |-> job.server, file |-> job.file, map |-> job.map,
                refused |-> job.refused, left |-> job.left \ {k}, current |-> k]
    BY <1>2, <2>1
  <2> QED BY <2>2
<1>7. /\ propDB' \in [Servers -> [Keys -> StoredProposal]]
      /\ \A t \in Servers, l \in Keys :
           Mark(t, l)' = IF t = s /\ l = k /\ x # -1
                         THEN [slot |-> x, source |-> Mark(s, k).source,
                               target |-> Mark(s, k).target]
                         ELSE Mark(t, l)
  <2>1. CASE x = -1
    <3>1. UNCHANGED <<propDB, attDB>>
      BY <1>2, <1>3, <1>5, <2>1
    <3>2. \A t, l : Mark(t, l)' = Mark(t, l)
      BY <3>1, SameMarks DEF InterchangeInv
    <3> QED BY <2>1, <3>1, <3>2 DEF InterchangeInv, TypeOK
  <2>2. CASE x # -1
    <3>1. propDB' = Put(propDB, s, k, EncodeProposal(x)) /\ UNCHANGED attDB
      BY <1>2, <1>3, <1>5, <2>2 DEF Put
    <3> QED BY <1>4, <1>5, <2>2, <3>1, ProposalWritten DEF InterchangeInv
  <2> QED BY <2>1, <2>2
<1>8. TypeOK'
  BY <1>1, <1>2, <1>3, <1>4, <1>6, <1>7 DEF InterchangeInv, TypeOK
<1>9. /\ x \in Int /\ x >= -1 /\ Sane(Mark(s, k)) /\ Mark(s, k).slot <= x
      /\ AtMost(Mark(s, k), job.map[k])
  BY <1>1, <1>4, <1>5, JobFacts DEF JobKeyOK, AtMost
<1>10. StoresOK'
  <2> SUFFICES ASSUME NEW t \in Servers, NEW l \in Keys
               PROVE  Sane(Mark(t, l)')
    BY DEF StoresOK, Sane
  <2>1. CASE t = s /\ l = k /\ x # -1
    BY <1>5, <1>7, <1>9, <2>1 DEF Sane, Protections
  <2>2. CASE ~(t = s /\ l = k /\ x # -1)
    BY <1>7, <2>2 DEF InterchangeInv, StoresOK
  <2> QED BY <2>1, <2>2
<1>11. Rise
  <2> SUFFICES ASSUME NEW t \in Servers, NEW l \in Keys
               PROVE  AtMost(Mark(t, l), Mark(t, l)')
    BY DEF Rise
  <2>1. Mark(t, l) \in Protections
    BY MarkFacts DEF InterchangeInv
  <2>2. CASE t = s /\ l = k /\ x # -1
    BY <1>4, <1>7, <1>9, <2>2, SaneFacts DEF AtMost
  <2>3. CASE ~(t = s /\ l = k /\ x # -1)
    BY <1>7, <2>1, <2>3, AtMostFacts
  <2> QED BY <2>2, <2>3
<1>12. ASSUME NEW l \in DOMAIN job.map
       PROVE  JobKeyOK(l)'
  <2>1. l \in Keys /\ JobKeyOK(l) /\ l # None
    BY <1>1, JobFacts
  <2>2. Mark(job.server, l)' = Mark(s, l)'
    BY <1>5, <1>6 DEF Mark
  <2>3. CASE l = k
    <3>1. /\ Mark(s, k)'.source = Mark(s, k).source
          /\ Mark(s, k)'.target = Mark(s, k).target
          /\ Mark(s, k)'.slot = x
      <4>1. CASE x # -1
        BY <1>4, <1>7, <4>1
      <4>2. CASE x = -1
        <5>1. Mark(s, k)' = Mark(s, k)
          BY <1>4, <1>7, <4>2
        <5> QED BY <1>9, <4>2, <5>1, SaneFacts
      <4> QED BY <4>1, <4>2
    <3> QED BY <1>5, <1>6, <1>9, <2>1, <2>2, <2>3, <3>1
            DEF JobKeyOK, AtMost, Forward
  <2>4. CASE l # k
    <3>1. Mark(s, l)' = Mark(s, l)
      BY <1>7, <2>1, <2>4
    <3> QED BY <1>1, <1>5, <1>6, <2>1, <2>2, <2>4, <3>1 DEF JobKeyOK, Forward
  <2> QED BY <2>3, <2>4
<1> QED BY <1>1, <1>3, <1>6, <1>8, <1>10, <1>11, <1>12, JobKept

LEMMA ImportAttestationStep ==
  ASSUME InterchangeInv, ImportAttestation
  PROVE  InterchangeInv' /\ Rise
<1>1. /\ job # None /\ job.current # None
      /\ job' = [job EXCEPT !.current = None]
      /\ UNCHANGED <<propDB, active, backup, moved, granted>>
  BY DEF ImportAttestation
<1>2. PICK k : k = job.current
  OBVIOUS
<1>3. k \in DOMAIN job.map /\ k \in Keys /\ k \notin job.left
  BY <1>1, <1>2, JobFacts DEF InterchangeInv, TypeOK
<1>4. PICK s \in Servers, st \in AttestationState :
        /\ s = job.server
        /\ st = [source |-> job.map[k].source, target |-> job.map[k].target]
  BY <1>1, <1>3, JobFacts DEF AttestationState
<1>5. attDB' = IF st.source = -1 THEN attDB
               ELSE Put(attDB, s, k, EncodeAttestation(st))
  BY <1>2, <1>4 DEF ImportAttestation, Put
<1>6. /\ job' = [server |-> job.server, file |-> job.file, map |-> job.map,
                 refused |-> job.refused, left |-> job'.left,
                 current |-> job'.current]
      /\ job'.left = job.left /\ job'.current = None
      /\ job'.server = job.server /\ job'.file = job.file /\ job'.map = job.map
  <2>1. job = [server |-> job.server, file |-> job.file, map |-> job.map,
               refused |-> job.refused, left |-> job.left,
               current |-> job.current]
    BY <1>1 DEF InterchangeInv, JobOK
  <2>2. job' = [server |-> job.server, file |-> job.file, map |-> job.map,
                refused |-> job.refused, left |-> job.left, current |-> None]
    BY <1>1, <2>1
  <2> QED BY <2>2
<1>7. /\ attDB' \in [Servers -> [Keys -> StoredAttestation]]
      /\ \A t \in Servers, l \in Keys :
           Mark(t, l)' = IF t = s /\ l = k /\ st.source # -1
                         THEN [slot |-> Mark(s, k).slot, source |-> st.source,
                               target |-> st.target]
                         ELSE Mark(t, l)
  <2>1. CASE st.source = -1
    <3>1. UNCHANGED <<propDB, attDB>>
      BY <1>1, <1>5, <2>1
    <3>2. \A t, l : Mark(t, l)' = Mark(t, l)
      BY <3>1, SameMarks DEF InterchangeInv
    <3> QED BY <2>1, <3>1, <3>2 DEF InterchangeInv, TypeOK
  <2>2. CASE st.source # -1
    <3>1. attDB' = Put(attDB, s, k, EncodeAttestation(st)) /\ UNCHANGED propDB
      BY <1>1, <1>5, <2>2
    <3> QED BY <1>3, <1>4, <2>2, <3>1, AttestationWritten DEF InterchangeInv
  <2> QED BY <2>1, <2>2
<1>8. TypeOK'
  BY <1>1, <1>3, <1>6, <1>7 DEF InterchangeInv, TypeOK
<1>9. /\ st.source \in Int64 /\ st.source \in Int /\ st.source >= -1
      /\ st.target \in Int64 /\ st.target \in Int /\ st.target >= -1
      /\ st.source = job.map[k].source /\ st.target = job.map[k].target
      /\ Sane(Mark(s, k)) /\ JobKeyOK(k)
      /\ Mark(s, k).source <= st.source /\ Mark(s, k).target <= st.target
      /\ Mark(s, k).slot <= job.map[k].slot
  BY <1>1, <1>3, <1>4, JobFacts DEF JobKeyOK, AtMost
<1>10. StoresOK'
  <2> SUFFICES ASSUME NEW t \in Servers, NEW l \in Keys
               PROVE  Sane(Mark(t, l)')
    BY DEF StoresOK, Sane
  <2>1. CASE t = s /\ l = k /\ st.source # -1
    BY <1>7, <1>9, <2>1, SaneFacts DEF Sane, Protections
  <2>2. CASE ~(t = s /\ l = k /\ st.source # -1)
    BY <1>7, <2>2 DEF InterchangeInv, StoresOK
  <2> QED BY <2>1, <2>2
<1>11. Rise
  <2> SUFFICES ASSUME NEW t \in Servers, NEW l \in Keys
               PROVE  AtMost(Mark(t, l), Mark(t, l)')
    BY DEF Rise
  <2>1. Mark(t, l) \in Protections
    BY MarkFacts DEF InterchangeInv
  <2>2. CASE t = s /\ l = k /\ st.source # -1
    BY <1>3, <1>7, <1>9, <2>2, SaneFacts DEF AtMost
  <2>3. CASE ~(t = s /\ l = k /\ st.source # -1)
    BY <1>7, <2>1, <2>3, AtMostFacts
  <2> QED BY <2>2, <2>3
<1>12. ASSUME NEW l \in DOMAIN job.map
       PROVE  JobKeyOK(l)'
  <2>1. l \in Keys /\ JobKeyOK(l)
    BY <1>1, JobFacts
  <2>2. Mark(job.server, l)' = Mark(s, l)'
    BY <1>4, <1>6 DEF Mark
  <2>3. CASE l = k /\ st.source # -1
    <3>1. Mark(s, k)' = [slot |-> Mark(s, k).slot, source |-> st.source,
                         target |-> st.target]
      BY <1>3, <1>7, <2>3
    <3> QED BY <1>3, <1>4, <1>6, <1>9, <2>1, <2>2, <2>3, <3>1
            DEF JobKeyOK, AtMost, Forward
  <2>4. CASE ~(l = k /\ st.source # -1)
    <3>1. Mark(s, l)' = Mark(s, l)
      BY <1>7, <2>1, <2>4
    <3> QED BY <1>2, <1>4, <1>6, <1>9, <2>1, <2>2, <2>4, <3>1
            DEF JobKeyOK, Forward
  <2> QED BY <2>3, <2>4
<1> QED BY <1>1, <1>6, <1>8, <1>10, <1>11, <1>12, JobKept

\* A finished import has written at least what an entry provides.
LEMMA FinishedFacts ==
  ASSUME InterchangeInv, Finished, OneEntryPerKey(job.file), Forward(job.file),
         NEW i \in DOMAIN job.file.data, job.file.data[i].key \notin job.refused
  PROVE  AtMost(KeyProtection(job.file.data[i]),
                Mark(job.server, job.file.data[i].key))
<1>1. PICK k : k = job.file.data[i].key
  OBVIOUS
<1>2. job # None /\ job.left = {} /\ job.current = None
  BY DEF Finished
<1>3. k \in DOMAIN job.map /\ job.map[k] = KeyProtection(job.file.data[i])
  BY <1>1, <1>2 DEF InterchangeInv, JobOK, MapOK
<1>4. /\ k # None /\ JobKeyOK(k) /\ Sane(Mark(job.server, k))
      /\ job.map[k].source \in Int
  BY <1>2, <1>3, JobFacts
<1>5. /\ job.map[k].slot <= Mark(job.server, k).slot
      /\ job.map[k].source # -1 =>
           /\ job.map[k].source <= Mark(job.server, k).source
           /\ job.map[k].target <= Mark(job.server, k).target
      /\ job.map[k].source = -1 => job.map[k].target = -1
  BY <1>2, <1>4 DEF JobKeyOK
<1>6. AtMost(job.map[k], Mark(job.server, k))
  BY <1>4, <1>5, SaneFacts DEF AtMost
<1> QED BY <1>1, <1>3, <1>6

LEMMA ImportEndsStep ==
  ASSUME InterchangeInv, ImportEnds
  PROVE  InterchangeInv' /\ Rise
<1>1. /\ Finished /\ job # None /\ job' = None
      /\ UNCHANGED <<propDB, attDB, active, backup, granted>>
  BY DEF ImportEnds, Finished
<1>2. /\ \A t, k : Mark(t, k)' = Mark(t, k)
      /\ Rise
  BY <1>1, SameMarks DEF InterchangeInv
<1>3. TypeOK' /\ JobOK'
  BY <1>1 DEF InterchangeInv, TypeOK, JobOK, ImportEnds
<1>4. StoresOK'
  BY <1>2 DEF InterchangeInv, StoresOK
<1>5. BackupOK' /\ NoConflictAcrossServers'
  BY <1>1 DEF InterchangeInv, BackupOK, NoConflictAcrossServers, IsFile,
              OneEntryPerKey, Forward
<1>6. ASSUME NEW m \in granted, active = None, NEW s \in moved'
      PROVE  Behind(m, Mark(s, m.key))
  <2>1. CASE s \in moved
    BY <1>6, <2>1 DEF InterchangeInv, GrantsOK
  <2>2. CASE s \notin moved
    <3>1. s = job.server /\ job.file = backup /\ job.refused = {}
      BY <2>2 DEF ImportEnds
    <3>2. backup # None /\ OneEntryPerKey(job.file) /\ Forward(job.file)
      BY <1>1, <3>1 DEF InterchangeInv, JobOK, BackupOK
    <3>3. PICK i \in DOMAIN job.file.data :
            /\ job.file.data[i].key = m.key
            /\ Behind(m, KeyProtection(job.file.data[i]))
      BY <1>6, <3>1 DEF InterchangeInv, GrantsOK
    <3>4. AtMost(KeyProtection(job.file.data[i]), Mark(s, m.key))
      BY <1>1, <3>1, <3>2, <3>3, FinishedFacts
    <3>5. KeyProtection(job.file.data[i]) \in Protections
      BY <1>1, <3>3, KeyProtectionFacts DEF InterchangeInv, JobOK
    <3>6. IsDuty(m) /\ Mark(s, m.key) \in Protections
      BY <1>1, <3>1, DutyFacts, JobFacts, MarkFacts DEF InterchangeInv, GrantsOK
    <3> QED BY <3>3, <3>4, <3>5, <3>6, BehindRises
  <2> QED BY <2>1, <2>2
<1>7. GrantsOK'
  <2> SUFFICES ASSUME NEW m \in granted
               PROVE  /\ IsDuty(m)
                      /\ active # None => Behind(m, Mark(active, m.key)')
                      /\ active = None =>
                           /\ \A s \in moved' : Behind(m, Mark(s, m.key)')
                           /\ \E i \in DOMAIN backup.data :
                                /\ backup.data[i].key = m.key
                                /\ Behind(m, KeyProtection(backup.data[i]))
    BY <1>1 DEF GrantsOK, Behind, KeyProtection, IsDuty, Mark
  <2>1. active # None => Behind(m, Mark(active, m.key)')
    <3>1. Mark(active, m.key)' = Mark(active, m.key)
      BY <1>1 DEF Mark
    <3> QED BY <3>1 DEF InterchangeInv, GrantsOK
  <2>2. active = None => \A s \in moved' : Behind(m, Mark(s, m.key)')
    BY <1>2, <1>6
  <2> QED BY <2>1, <2>2 DEF InterchangeInv, GrantsOK
<1> QED BY <1>2, <1>3, <1>4, <1>5, <1>7 DEF InterchangeInv

LEMMA ImportFailsStep ==
  ASSUME InterchangeInv, ImportFails
  PROVE  InterchangeInv' /\ Rise
<1>1. /\ job' = None
      /\ UNCHANGED <<propDB, attDB, active, backup, moved, granted>>
  BY DEF ImportFails
<1>2. /\ \A t, k : Mark(t, k)' = Mark(t, k)
      /\ Rise
  BY <1>1, SameMarks DEF InterchangeInv
<1>3. TypeOK' /\ JobOK'
  BY <1>1 DEF InterchangeInv, TypeOK, JobOK
<1>4. StoresOK'
  BY <1>2 DEF InterchangeInv, StoresOK
<1>5. BackupOK'
  BY <1>1 DEF InterchangeInv, BackupOK, IsFile, OneEntryPerKey, Forward
<1> QED BY <1>1, <1>2, <1>3, <1>4, <1>5, GrantsKept DEF InterchangeInv

LEMMA StartStep ==
  ASSUME InterchangeInv, NEW s \in Servers, Start(s)
  PROVE  InterchangeInv' /\ Rise
<1>1. /\ active = None /\ job = None /\ s \in moved /\ active' = s /\ moved' = {}
      /\ UNCHANGED <<propDB, attDB, backup, job, granted>>
  BY DEF Start
<1>2. /\ \A t, k : Mark(t, k)' = Mark(t, k)
      /\ Rise
  BY <1>1, SameMarks DEF InterchangeInv
<1>3. TypeOK' /\ JobOK'
  BY <1>1 DEF InterchangeInv, TypeOK, JobOK
<1>4. StoresOK'
  BY <1>2 DEF InterchangeInv, StoresOK
<1>5. BackupOK' /\ NoConflictAcrossServers'
  BY <1>1 DEF InterchangeInv, BackupOK, NoConflictAcrossServers, IsFile,
              OneEntryPerKey, Forward
<1>6. GrantsOK'
  <2>1. \A m \in granted : IsDuty(m) /\ Behind(m, Mark(s, m.key)')
    BY <1>1, <1>2 DEF InterchangeInv, GrantsOK
  <2>2. \A m \in granted' : IsDuty(m) /\ Behind(m, Mark(active, m.key))'
    BY <1>1, <2>1 DEF Mark, Behind
  <2> QED BY <1>1, <2>2, InterchangeAssumption DEF GrantsOK, IsDuty
<1> QED BY <1>2, <1>3, <1>4, <1>5, <1>6 DEF InterchangeInv
-----------------------------------------------------------------------------
(***************************************************************************)
(* The theorems.                                                           *)
(***************************************************************************)
LEMMA InterchangeInit ==
  Init => InterchangeInv
<1> SUFFICES ASSUME Init
             PROVE  InterchangeInv
  OBVIOUS
<1>1. TypeOK
  BY DEF Init, TypeOK, StoredProposal, StoredAttestation
<1>2. StoresOK
  <2>1. ASSUME NEW s \in Servers, NEW k \in Keys
        PROVE  Mark(s, k) = [slot |-> -1, source |-> -1, target |-> -1]
    BY DEF Init, Mark, FetchProposalState, FetchAttestationState
  <2>2. Sane([slot |-> -1, source |-> -1, target |-> -1])
    BY Int64Facts DEF Sane, Protections
  <2> QED BY <2>1, <2>2 DEF StoresOK
<1>3. BackupOK /\ JobOK
  BY DEF Init, BackupOK, JobOK
<1>4. GrantsOK /\ NoConflictAcrossServers
  BY DEF Init, GrantsOK, NoConflictAcrossServers
<1> QED BY <1>1, <1>2, <1>3, <1>4 DEF InterchangeInv

LEMMA InterchangeNext ==
  InterchangeInv /\ [Next]_vars => InterchangeInv' /\ Rise
<1> SUFFICES ASSUME InterchangeInv, [Next]_vars
             PROVE  InterchangeInv' /\ Rise
  OBVIOUS
<1>1. CASE Serve
  BY <1>1, ServeStep
<1>2. CASE Export
  BY <1>2, ExportStep
<1>3. ASSUME NEW s \in Servers, NEW f \in Elsewhere \cup {backup},
             StoreSlashingProtection(s, f)
      PROVE  InterchangeInv' /\ Rise
  BY <1>3, StoreStep
<1>4. CASE ImportProposal
  BY <1>4, ImportProposalStep
<1>5. CASE ImportAttestation
  BY <1>5, ImportAttestationStep
<1>6. CASE ImportEnds
  BY <1>6, ImportEndsStep
<1>7. CASE ImportFails
  BY <1>7, ImportFailsStep
<1>8. ASSUME NEW s \in Servers, Start(s)
      PROVE  InterchangeInv' /\ Rise
  BY <1>8, StartStep
<1>9. CASE UNCHANGED vars
  <2>1. UNCHANGED <<propDB, attDB, active, backup, job, moved, granted>>
    BY <1>9 DEF vars
  <2>2. TypeOK' /\ BackupOK'
    BY <2>1 DEF InterchangeInv, TypeOK, BackupOK, IsFile, OneEntryPerKey, Forward
  <2>3. Rise /\ \A t, k : Mark(t, k)' = Mark(t, k)
    BY <2>1, SameMarks DEF InterchangeInv
  <2>4. StoresOK'
    BY <2>3 DEF InterchangeInv, StoresOK
  <2>5. JobOK'
    <3>1. CASE job = None
      BY <2>1, <3>1 DEF JobOK
    <3>2. CASE job # None
      <4>1. ASSUME NEW k \in DOMAIN job.map
            PROVE  job.map[k] \in Protections /\ JobKeyOK(k)'
        <5>1. JobKeyOK(k) /\ job.map[k] \in Protections
          BY <3>2 DEF InterchangeInv, JobOK
        <5>2. Mark(job.server, k)' = Mark(job.server, k)
          BY <2>1 DEF Mark
        <5> QED BY <2>1, <5>1, <5>2 DEF JobKeyOK, Forward
      <4>2. MapOK'
        BY <2>1, <3>2 DEF InterchangeInv, JobOK, MapOK, OneEntryPerKey
      <4> QED BY <2>1, <3>2, <4>1, <4>2 DEF InterchangeInv, JobOK, IsFile
    <3> QED BY <3>1, <3>2
  <2> QED BY <2>1, <2>2, <2>3, <2>4, <2>5, GrantsKept DEF InterchangeInv
<1> QED BY <1>1, <1>2, <1>3, <1>4, <1>5, <1>6, <1>7, <1>8, <1>9
        DEF Next, Import

\* The inductive invariant holds in every reachable state: the stores are
\* readable, an import holds nothing that is behind the store, and the
\* server that signs, as well as the file and the servers that may take
\* over, are ahead of everything that was granted.
THEOREM InterchangeInvariant == Spec => []InterchangeInv
<1>1. Init => InterchangeInv
  BY InterchangeInit
<1>2. InterchangeInv /\ [Next]_vars => InterchangeInv'
  BY InterchangeNext
<1> QED BY <1>1, <1>2, PTL DEF Spec

\* Every variable of the interchange has its type.
THEOREM TypeCorrect == Spec => []TypeOK
<1>1. InterchangeInv => TypeOK
  BY DEF InterchangeInv
<1> QED BY <1>1, InterchangeInvariant, PTL

\* No two approved duties of a key conflict, however often the signing moves
\* between servers by export and import, whatever imports fail on the way
\* and whatever files from elsewhere are imported in between.
THEOREM NoConflict == Spec => []NoConflictAcrossServers
<1>1. InterchangeInv => NoConflictAcrossServers
  BY DEF InterchangeInv
<1> QED BY <1>1, InterchangeInvariant, PTL

\* No step lowers a mark: not the signing, and not an import, whatever the
\* file says and wherever the import is cut short.
THEOREM NeverLowers == Spec => ImportNeverLowers
<1>1. InterchangeInv /\ [Next]_vars =>
        [\A s \in Servers, k \in Keys : AtMost(Mark(s, k), Mark(s, k)')]_vars
  BY InterchangeNext DEF Rise
<1> QED BY <1>1, InterchangeInvariant, PTL DEF Spec, ImportNeverLowers

\* The part of an import that was written before it was cut short never
\* makes storeSlashingProtection refuse a key of the same file that it did
\* not refuse before.
THEOREM Repeatable == Spec => []ImportCanBeRepeated
<1>1. InterchangeInv => ImportCanBeRepeated
  <2> SUFFICES ASSUME InterchangeInv, job # None, OneEntryPerKey(job.file),
                      NEW i \in DOMAIN job.file.data,
                      ~Accepts(job.server, job.file.data[i])
               PROVE  job.file.data[i].key \in job.refused
    BY DEF ImportCanBeRepeated, RefusedKeys
  <2>1. PICK k : k = job.file.data[i].key
    OBVIOUS
  <2>2. ~AtMost(Mark(job.server, k), KeyProtection(job.file.data[i]))
    BY <2>1 DEF Accepts
  <2>3. SUFFICES ASSUME k \notin job.refused
                 PROVE  FALSE
    BY <2>1
  <2>4. k \in DOMAIN job.map /\ job.map[k] = KeyProtection(job.file.data[i])
    BY <2>1, <2>3 DEF InterchangeInv, JobOK, MapOK
  <2>5. AtMost(Mark(job.server, k), job.map[k])
    BY <2>4, JobFacts DEF JobKeyOK
  <2> QED BY <2>2, <2>4, <2>5
<1> QED BY <1>1, InterchangeInvariant, PTL

\* The votes of a file that is being imported name their sources.
JobForward == job # None => Forward(job.file)

\* A finished import has stored at least what the file provides for every
\* key that it has not refused.  The files name votes with a source that is
\* not negative: of any other vote the import stores nothing, not even the
\* target.
THEOREM Complete ==
  ASSUME \A f \in Elsewhere : Forward(f)
  PROVE  Spec => []ImportIsComplete
<1>1. Init => JobForward
  BY DEF Init, JobForward
<1>2. InterchangeInv /\ JobForward /\ [Next]_vars => JobForward'
  <2> SUFFICES ASSUME InterchangeInv, JobForward, [Next]_vars
               PROVE  JobForward'
    OBVIOUS
  <2>1. CASE job' = None \/ UNCHANGED job
    BY <2>1 DEF JobForward, Forward
  <2>2. ASSUME NEW s \in Servers, NEW f \in Elsewhere \cup {backup},
               StoreSlashingProtection(s, f)
        PROVE  JobForward'
    <3>1. Forward(f) /\ job'.file = f
      BY <2>2 DEF InterchangeInv, BackupOK, StoreSlashingProtection
    <3> QED BY <3>1 DEF JobForward, Forward
  <2>3. CASE ImportProposal \/ ImportAttestation
    <3>1. job # None /\ job'.file = job.file
      <4>1. job # None
        BY <2>3 DEF ImportProposal, ImportAttestation
      <4>2. job = [server |-> job.server, file |-> job.file, map |-> job.map,
                   refused |-> job.refused, left |-> job.left,
                   current |-> job.current]
        BY <4>1 DEF InterchangeInv, JobOK
      <4> QED BY <2>3, <4>1, <4>2 DEF ImportProposal, ImportAttestation
    <3> QED BY <3>1 DEF JobForward, Forward
  <2> QED BY <2>1, <2>2, <2>3
          DEF Next, Import, Serve, Export, ImportEnds, ImportFails, Start, vars
<1>3. InterchangeInv /\ JobForward => ImportIsComplete
  BY FinishedFacts DEF ImportIsComplete, JobForward, Finished
<1> QED BY <1>1, <1>2, <1>3, InterchangeInvariant, PTL DEF Spec
=============================================================================
