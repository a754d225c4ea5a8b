------------------------------- MODULE Signing -------------------------------
(***************************************************************************)
(* A dirk server signing: the signer service, the ruler, the locker and    *)
(* the rules with their store, run by the goroutines that gRPC starts for  *)
(* its clients' requests, while other clients lock and unlock accounts and *)
(* the server may crash and restart.                                       *)
(*                                                                         *)
(* A goroutine serves one request at a time.  Its pc names where it is:    *)
(*    idle      no request                                                 *)
(*    precheck  the signer is fetching, authorising and unlocking accounts *)
(*    prelock   about to take the locker-wide mutex                        *)
(*    lock      taking the keys' locks one by one                          *)
(*    rules     all locks held, the rules have not read their state yet    *)
(*    store     state read, not yet checked and written                    *)
(*    unlock    rules done, giving the locks back                          *)
(*    sign      signing the approved entries, without any lock             *)
(*    reply     refused before the rules                                   *)
(*                                                                         *)
(* The detail of the locker is in KeyLocker, the promise that this module  *)
(* keeps is in SlashingProtection.                                         *)
(***************************************************************************)
EXTENDS SlashingRules, Sequences

CONSTANTS
  Goroutines,   \* goroutines of the gRPC server
  Keys,         \* public keys
  Ids,          \* how a request names an account: a path or a public key
  Account,      \* the fetcher: Ids -> Keys or NoAccount
  NoAccount,
  Clients,
  Allowed,      \* the checker: the <<client, key, action>> it lets through
  Unlockable,   \* the keys one of the unlocker's passphrases opens
  Roots,        \* contents of blocks, attestations and generic data
  Requests,     \* the requests clients may send
  NoOne         \* nobody holds the lock

SingleMethods == {"SignGeneric", "SignBeaconProposal", "SignBeaconAttestation"}
BatchMethods  == {"Multisign", "SignBeaconAttestations"}

\* The ruler's action for a method of the signer.
ActionOf(method) ==
  CASE method \in {"SignGeneric", "Multisign"} -> "Sign"
    [] method = "SignBeaconProposal"           -> "SignBeaconProposal"
    [] OTHER                                   -> "SignBeaconAttestation"

SignData        == [domain : Domains, root : Roots]
ProposalData    == [domain : Domains, slot : Uint64, root : Roots]
AttestationData == [domain : Domains, source : Uint64, target : Uint64,
                    root : Roots]

DataOf(action) ==
  CASE action = "Sign"               -> SignData
    [] action = "SignBeaconProposal" -> ProposalData
    [] OTHER                         -> AttestationData

\* complete: every field the handlers and the signer insist on is present.
EntryOf(action) == [id : Ids, complete : BOOLEAN, data : DataOf(action)]

\* A method is called for a client, from an administrator's address or not,
\* with one entry or, in a batch, any number of them.
IsRequest(r) ==
  /\ r = [method |-> r.method, client |-> r.client, adminIP |-> r.adminIP,
          entries |-> r.entries]
  /\ r.method \in SingleMethods \cup BatchMethods
  /\ r.client \in Clients
  /\ r.adminIP \in BOOLEAN
  /\ r.entries \in Seq(EntryOf(ActionOf(r.method)))
  /\ r.method \in SingleMethods => Len(r.entries) = 1

ASSUME ConstantsAssumption ==
  /\ Account \in [Ids -> Keys \cup {NoAccount}]
  /\ NoAccount \notin Keys
  /\ NoOne \notin Goroutines
  /\ \A r \in Requests : IsRequest(r)

VARIABLES
  propDB,     \* badger: the stored proposal state of each key
  attDB,      \* badger: the stored attestation state of each key
  unlocked,   \* keys whose account is unlocked in memory
  mapLock,    \* holder of the locker-wide mutex (PreLock)
  owner,      \* holder of each key's lock
  pc,
  req,        \* the request a goroutine serves
  todo,       \* entries a scattered step has still to process
  locked,     \* how many of the request's keys the goroutine has locked
  states,     \* the protection states the rules have read
  result,     \* the result of each entry
  granted,    \* history: the beacon duties approved, their state stored
  signed      \* history: what was signed

dbVars    == <<propDB, attDB>>
lockVars  == <<mapLock, owner>>
histVars  == <<granted, signed>>
vars      == <<propDB, attDB, unlocked, mapLock, owner, pc, req, todo, locked,
               states, result, granted, signed>>

NoRequest == [method |-> "none", entries |-> << >>]

Entries(g)  == req[g].entries
Indices(g)  == DOMAIN req[g].entries
Action(g)   == ActionOf(req[g].method)
KeyAt(g, i) == Account[req[g].entries[i].id]
DataAt(g, i) == req[g].entries[i].data

\* A message is what a key signs; the action tells proposals, attestations
\* and generic data apart.
Message(g, i) == [key |-> KeyAt(g, i), action |-> Action(g),
                  data |-> DataAt(g, i)]

All(g, r) == [i \in Indices(g) |-> r]

Init ==
  /\ propDB   = [k \in Keys |-> NotFound]
  /\ attDB    = [k \in Keys |-> NotFound]
  /\ unlocked = {}
  /\ mapLock  = NoOne
  /\ owner    = [k \in Keys |-> NoOne]
  /\ pc       = [g \in Goroutines |-> "idle"]
  /\ req      = [g \in Goroutines |-> NoRequest]
  /\ todo     = [g \in Goroutines |-> {}]
  /\ locked   = [g \in Goroutines |-> 0]
  /\ states   = [g \in Goroutines |-> << >>]
  /\ result   = [g \in Goroutines |-> << >>]
  /\ granted  = {}
  /\ signed   = {}
-----------------------------------------------------------------------------
(***************************************************************************)
(* The signer's entry points.  An empty batch is refused with one DENIED;  *)
(* the first incomplete entry is DENIED and the entries after it are not   *)
(* looked at.                                                              *)
(***************************************************************************)
Incomplete(r) == {i \in DOMAIN r.entries : ~r.entries[i].complete}

Refusal(r) ==
  IF r.entries = << >>
  THEN << "DENIED" >>
  ELSE [i \in DOMAIN r.entries |->
          IF i \in Incomplete(r) /\ \A j \in Incomplete(r) : i <= j
          THEN "DENIED" ELSE "UNKNOWN"]

Receive(g, method) ==
  /\ pc[g] = "idle"
  /\ \E r \in Requests :
       /\ r.method = method
       /\ req' = [req EXCEPT ![g] = r]
       /\ \/ /\ r.entries # << >> /\ Incomplete(r) = {}
             /\ pc' = [pc EXCEPT ![g] = "precheck"]
             /\ todo' = [todo EXCEPT ![g] = DOMAIN r.entries]
             /\ result' = [result EXCEPT ![g] =
                             [i \in DOMAIN r.entries |-> "UNKNOWN"]]
          \/ /\ r.entries = << >> \/ Incomplete(r) # {}
             /\ pc' = [pc EXCEPT ![g] = "reply"]
             /\ result' = [result EXCEPT ![g] = Refusal(r)]
             /\ UNCHANGED todo
  /\ UNCHANGED <<dbVars, lockVars, histVars, unlocked, locked, states>>

SignGeneric(g)            == Receive(g, "SignGeneric")
Multisign(g)              == Receive(g, "Multisign")
SignBeaconProposal(g)     == Receive(g, "SignBeaconProposal")
SignBeaconAttestation(g)  == Receive(g, "SignBeaconAttestation")
SignBeaconAttestations(g) == Receive(g, "SignBeaconAttestations")

(***************************************************************************)
(* preCheck, scattered over the entries: the account must exist, the       *)
(* client must be allowed the action on it, and it must be unlocked or     *)
(* open to one of the unlocker's passphrases.                              *)
(***************************************************************************)
Authorised(g, i) ==
  /\ KeyAt(g, i) # NoAccount
  /\ <<req[g].client, KeyAt(g, i), Action(g)>> \in Allowed

PreCheckPasses(g, i) ==
  /\ Authorised(g, i)
  /\ KeyAt(g, i) \in unlocked \cup Unlockable
  /\ unlocked' = unlocked \cup {KeyAt(g, i)}
  /\ UNCHANGED result

PreCheckRefuses(g, i) ==
  /\ \/ /\ ~Authorised(g, i) \/ KeyAt(g, i) \notin unlocked \cup Unlockable
        /\ result' = [result EXCEPT ![g][i] = "DENIED"]
     \/ /\ Authorised(g, i)         \* the account cannot say if it is unlocked
        /\ result' = [result EXCEPT ![g][i] = "FAILED"]
  /\ UNCHANGED unlocked

PreCheck(g) ==
  /\ pc[g] = "precheck"
  /\ \E i \in todo[g] :
       /\ todo' = [todo EXCEPT ![g] = @ \ {i}]
       /\ PreCheckPasses(g, i) \/ PreCheckRefuses(g, i)
  /\ UNCHANGED <<dbVars, lockVars, histVars, pc, req, locked, states>>

\* One refused entry refuses the batch.
PreCheckFailed(g) ==
  /\ pc[g] = "precheck" /\ todo[g] = {}
  /\ \E i \in Indices(g) : result[g][i] # "UNKNOWN"
  /\ pc' = [pc EXCEPT ![g] = "reply"]
  /\ UNCHANGED <<dbVars, lockVars, histVars, unlocked, req, todo, locked,
                 states, result>>

(***************************************************************************)
(* RunRules.  A second entry for the same key fails, the others stay       *)
(* UNKNOWN, and no lock is taken.                                          *)
(***************************************************************************)
Repeats(g) == {j \in Indices(g) : \E i \in Indices(g) :
                                    i < j /\ KeyAt(g, i) = KeyAt(g, j)}

\* Mutant: the whole batch is refused with a single result.
RunRulesOneResult(g) ==
  /\ pc[g] = "precheck" /\ todo[g] = {}
  /\ \A i \in Indices(g) : result[g][i] = "UNKNOWN"
  /\ \/ /\ Repeats(g) = {}
        /\ pc' = [pc EXCEPT ![g] = "prelock"]
        /\ UNCHANGED result
     \/ /\ Repeats(g) # {}
        /\ pc' = [pc EXCEPT ![g] = "unlock"]
        /\ result' = [result EXCEPT ![g] = << "FAILED" >>]
  /\ UNCHANGED <<dbVars, lockVars, histVars, unlocked, req, todo, locked,
                 states>>

RunRules(g) ==
  /\ pc[g] = "precheck" /\ todo[g] = {}
  /\ \A i \in Indices(g) : result[g][i] = "UNKNOWN"
  /\ \/ /\ Repeats(g) = {}
        /\ pc' = [pc EXCEPT ![g] = "prelock"]
        /\ UNCHANGED result
     \/ /\ Repeats(g) # {}
        /\ pc' = [pc EXCEPT ![g] = "unlock"]
        /\ result' = [result EXCEPT ![g] = [i \in Indices(g) |->
             IF i \in Repeats(g) /\ \A j \in Repeats(g) : i <= j
             THEN "FAILED" ELSE "UNKNOWN"]]
  /\ UNCHANGED <<dbVars, lockVars, histVars, unlocked, req, todo, locked,
                 states>>

\* Mutant: batches do not wait for each other before they take their keys.
PreLockShared(g) ==
  /\ pc[g] = "prelock"
  /\ mapLock' = g
  /\ pc' = [pc EXCEPT ![g] = "lock"]
  /\ UNCHANGED <<dbVars, histVars, unlocked, owner, req, todo, locked,
                 states, result>>

PreLock(g) ==
  /\ pc[g] = "prelock"
  /\ mapLock = NoOne
  /\ mapLock' = g
  /\ pc' = [pc EXCEPT ![g] = "lock"]
  /\ UNCHANGED <<dbVars, histVars, unlocked, owner, req, todo, locked,
                 states, result>>

\* Mutant: a key's lock is taken although somebody has it.
LockWithoutWaiting(g) ==
  /\ pc[g] = "lock" /\ locked[g] < Len(Entries(g))
  /\ owner' = [owner EXCEPT ![KeyAt(g, locked[g] + 1)] = g]
  /\ locked' = [locked EXCEPT ![g] = @ + 1]
  /\ UNCHANGED <<dbVars, histVars, unlocked, mapLock, pc, req, todo, states,
                 result>>

Lock(g) ==
  /\ pc[g] = "lock" /\ locked[g] < Len(Entries(g))
  /\ owner[KeyAt(g, locked[g] + 1)] = NoOne
  /\ owner' = [owner EXCEPT ![KeyAt(g, locked[g] + 1)] = g]
  /\ locked' = [locked EXCEPT ![g] = @ + 1]
  /\ UNCHANGED <<dbVars, histVars, unlocked, mapLock, pc, req, todo, states,
                 result>>

\* Mutant: only the first key of a batch is locked.
PostLockAfterFirst(g) ==
  /\ pc[g] = "lock" /\ locked[g] >= 1
  /\ mapLock' = NoOne
  /\ pc' = [pc EXCEPT ![g] = "rules"]
  /\ UNCHANGED <<dbVars, histVars, unlocked, owner, req, todo, locked,
                 states, result>>

PostLock(g) ==
  /\ pc[g] = "lock" /\ locked[g] = Len(Entries(g))
  /\ mapLock' = NoOne
  /\ pc' = [pc EXCEPT ![g] = "rules"]
  /\ UNCHANGED <<dbVars, histVars, unlocked, owner, req, todo, locked,
                 states, result>>

\* The deferred unlocks run last key first; none was deferred if the ruler
\* refused the request before locking.
Unlock(g) ==
  /\ pc[g] = "unlock" /\ locked[g] > 0
  /\ owner' = [owner EXCEPT ![KeyAt(g, locked[g])] = NoOne]
  /\ locked' = [locked EXCEPT ![g] = @ - 1]
  /\ UNCHANGED <<dbVars, histVars, unlocked, mapLock, pc, req, todo, states,
                 result>>
-----------------------------------------------------------------------------
(***************************************************************************)
(* The rules.                                                              *)
(***************************************************************************)
RulesDone(g, res) ==
  /\ pc' = [pc EXCEPT ![g] = "unlock"]
  /\ result' = [result EXCEPT ![g] = res]
  /\ states' = [states EXCEPT ![g] = << >>]
  /\ UNCHANGED <<lockVars, unlocked, signed, req, todo, locked>>

\* Generic data: no state is read or written.
OnSignAll(g) ==
  /\ pc[g] = "rules" /\ Action(g) = "Sign"
  /\ RulesDone(g, [i \in Indices(g) |-> OnSign(DataAt(g, i), req[g].adminIP)])
  /\ UNCHANGED <<dbVars, granted>>

\* The proposal rule looks at the domain before it reads its state.
RefuseProposalDomain(g) ==
  /\ pc[g] = "rules" /\ Action(g) = "SignBeaconProposal"
  /\ ~ProposalDomainOK(DataAt(g, 1))
  /\ RulesDone(g, << "DENIED" >>)
  /\ UNCHANGED <<dbVars, granted>>

ReadsState(g) ==
  /\ pc[g] = "rules"
  /\ \/ Action(g) = "SignBeaconAttestation"
     \/ Action(g) = "SignBeaconProposal" /\ ProposalDomainOK(DataAt(g, 1))

FetchState(g) ==
  /\ ReadsState(g)
  /\ states' = [states EXCEPT ![g] = [i \in Indices(g) |->
                  IF Action(g) = "SignBeaconProposal"
                  THEN FetchProposalState(propDB[KeyAt(g, i)])
                  ELSE FetchAttestationState(attDB[KeyAt(g, i)])]]
  /\ pc' = [pc EXCEPT ![g] = "store"]
  /\ UNCHANGED <<dbVars, lockVars, histVars, unlocked, req, todo, locked,
                 result>>

FetchStateFails(g) ==
  /\ ReadsState(g)
  /\ RulesDone(g, All(g, "FAILED"))
  /\ UNCHANGED <<dbVars, granted>>

(***************************************************************************)
(* Checking and storing.  A store that reports an error may or may not     *)
(* have reached the disk, entry by entry.                                  *)
(***************************************************************************)
\* Mutant: the error of the store is ignored.
OnSignBeaconProposalUnstored(g) ==
  LET data == DataAt(g, 1)
      next == [propDB EXCEPT ![KeyAt(g, 1)] =
                 EncodeProposal(ProposalAfter(data))]
      res  == CheckProposal(data, states[g][1])
  IN /\ pc[g] = "store" /\ Action(g) = "SignBeaconProposal"
     /\ propDB' \in IF res = "APPROVED" THEN {propDB, next} ELSE {propDB}
     /\ granted' = IF res = "APPROVED" THEN granted \cup {Message(g, 1)}
                   ELSE granted
     /\ RulesDone(g, << res >>)
     /\ UNCHANGED attDB

OnSignBeaconProposal(g) ==
  LET data == DataAt(g, 1)
      k    == KeyAt(g, 1)
      next == [propDB EXCEPT ![k] = EncodeProposal(ProposalAfter(data))]
      res  == CheckProposal(data, states[g][1])
  IN /\ pc[g] = "store" /\ Action(g) = "SignBeaconProposal"
     /\ \/ /\ res = "DENIED"
           /\ RulesDone(g, << res >>)
           /\ UNCHANGED <<propDB, granted>>
        \/ /\ res = "APPROVED"
           /\ propDB' = next
           /\ granted' = granted \cup {Message(g, 1)}
           /\ RulesDone(g, << res >>)
        \/ /\ res = "APPROVED"
           /\ propDB' \in {propDB, next}
           /\ RulesDone(g, << "FAILED" >>)
           /\ UNCHANGED granted
     /\ UNCHANGED attDB

\* What the attestation checks leave in the i-th state, and a store of the
\* states of the entries in W.
AttestationResult(g, i) ==
  RunSignBeaconAttestationChecks(DataAt(g, i), states[g][i])

\* Mutant: the state is updated although the entry is denied.
StateAfterAlways(g, i) == AttestationAfter(DataAt(g, i))

StateAfter(g, i) ==
  IF AttestationResult(g, i) = "APPROVED"
  THEN AttestationAfter(DataAt(g, i)) ELSE states[g][i]

StoreAttestations(g, W) ==
  attDB' = [k \in Keys |->
    IF \E i \in W : KeyAt(g, i) = k
    THEN EncodeAttestation(StateAfter(g, CHOOSE i \in W : KeyAt(g, i) = k))
    ELSE attDB[k]]

\* The rules of one goroutine approve attestations and have stored W.
ApproveAttestations(g, W) ==
  /\ StoreAttestations(g, W)
  /\ granted' = granted \cup
       {Message(g, i) : i \in {j \in Indices(g) :
                                 AttestationResult(g, j) = "APPROVED"}}
  /\ RulesDone(g, [i \in Indices(g) |-> AttestationResult(g, i)])

\* A single attestation stores its state only if it is approved.
OnSignBeaconAttestation(g) ==
  /\ pc[g] = "store" /\ Action(g) = "SignBeaconAttestation"
  /\ Len(Entries(g)) = 1
  /\ \/ /\ AttestationResult(g, 1) = "DENIED"
        /\ ApproveAttestations(g, {})
     \/ /\ AttestationResult(g, 1) = "APPROVED"
        /\ ApproveAttestations(g, {1})
     \/ /\ AttestationResult(g, 1) = "APPROVED"
        /\ \E W \in SUBSET {1} : StoreAttestations(g, W)
        /\ RulesDone(g, All(g, "FAILED"))
        /\ UNCHANGED granted
  /\ UNCHANGED propDB

\* A batch stores the state of every entry, the denied ones' unchanged.
OnSignBeaconAttestations(g) ==
  /\ pc[g] = "store" /\ Action(g) = "SignBeaconAttestation"
  /\ Len(Entries(g)) > 1
  /\ \/ ApproveAttestations(g, Indices(g))
     \/ /\ \E W \in SUBSET Indices(g) : StoreAttestations(g, W)
        /\ RulesDone(g, All(g, "FAILED"))
        /\ UNCHANGED granted
  /\ UNCHANGED propDB
-----------------------------------------------------------------------------
(***************************************************************************)
(* Back in the signer: an undecided entry fails, an approved one is signed *)
(* with the account's key, which fails if the account is locked again.     *)
(***************************************************************************)
\* Mutant: every entry is signed, whatever the ruler said of it.
RulesReturnAll(g) ==
  /\ pc[g] = "unlock" /\ locked[g] = 0
  /\ pc' = [pc EXCEPT ![g] = "sign"]
  /\ todo' = [todo EXCEPT ![g] = Indices(g)]
  /\ UNCHANGED <<dbVars, lockVars, histVars, unlocked, req, locked, states,
                 result>>

RulesReturn(g) ==
  /\ pc[g] = "unlock" /\ locked[g] = 0
  /\ pc' = [pc EXCEPT ![g] = "sign"]
  /\ todo' = [todo EXCEPT ![g] =
                {i \in Indices(g) : result[g][i] = "APPROVED"}]
  /\ result' = [result EXCEPT ![g] = [i \in Indices(g) |->
                  IF @[i] = "UNKNOWN" THEN "FAILED" ELSE @[i]]]
  /\ UNCHANGED <<dbVars, lockVars, histVars, unlocked, req, locked, states>>

SignRoot(g) ==
  /\ pc[g] = "sign"
  /\ \E i \in todo[g] :
       /\ todo' = [todo EXCEPT ![g] = @ \ {i}]
       /\ \/ /\ KeyAt(g, i) \in unlocked
             /\ signed' = signed \cup {Message(g, i)}
             /\ result' = [result EXCEPT ![g][i] = "SUCCEEDED"]
          \/ /\ result' = [result EXCEPT ![g][i] = "FAILED"]
             /\ UNCHANGED signed
  /\ UNCHANGED <<dbVars, lockVars, granted, unlocked, pc, req, locked, states>>

Reply(g) ==
  /\ \/ pc[g] = "reply"
     \/ pc[g] = "sign" /\ todo[g] = {}
  /\ pc' = [pc EXCEPT ![g] = "idle"]
  /\ req' = [req EXCEPT ![g] = NoRequest]
  /\ result' = [result EXCEPT ![g] = << >>]
  /\ UNCHANGED <<dbVars, lockVars, histVars, unlocked, todo, locked, states>>
-----------------------------------------------------------------------------
(***************************************************************************)
(* The account manager, and the process dying: what was stored stays,      *)
(* everything in memory goes, and accounts come back locked.               *)
(***************************************************************************)
LockAccount ==
  /\ \E c \in Clients, k \in unlocked :
       /\ <<c, k, "LockAccount">> \in Allowed
       /\ unlocked' = unlocked \ {k}
  /\ UNCHANGED <<dbVars, lockVars, histVars, pc, req, todo, locked, states,
                 result>>

UnlockAccount ==
  /\ \E c \in Clients, k \in Keys :
       /\ \E id \in Ids : Account[id] = k
       /\ <<c, k, "UnlockAccount">> \in Allowed
       /\ unlocked' = unlocked \cup {k}
  /\ UNCHANGED <<dbVars, lockVars, histVars, pc, req, todo, locked, states,
                 result>>

Crash ==
  /\ unlocked' = {}
  /\ mapLock'  = NoOne
  /\ owner'    = [k \in Keys |-> NoOne]
  /\ pc'       = [g \in Goroutines |-> "idle"]
  /\ req'      = [g \in Goroutines |-> NoRequest]
  /\ todo'     = [g \in Goroutines |-> {}]
  /\ locked'   = [g \in Goroutines |-> 0]
  /\ states'   = [g \in Goroutines |-> << >>]
  /\ result'   = [g \in Goroutines |-> << >>]
  /\ UNCHANGED <<dbVars, histVars>>

Rules(g) ==
  \/ OnSignAll(g) \/ RefuseProposalDomain(g) \/ FetchState(g)
  \/ FetchStateFails(g) \/ OnSignBeaconProposal(g)
  \/ OnSignBeaconAttestation(g) \/ OnSignBeaconAttestations(g)

\* What a goroutine does by itself once it has a request.
Work(g) ==
  \/ PreCheck(g) \/ PreCheckFailed(g) \/ RunRules(g)
  \/ PreLock(g) \/ Lock(g) \/ PostLock(g) \/ Rules(g)
  \/ Unlock(g) \/ RulesReturn(g) \/ SignRoot(g) \/ Reply(g)

Arrive(g) ==
  \/ SignGeneric(g) \/ Multisign(g) \/ SignBeaconProposal(g)
  \/ SignBeaconAttestation(g) \/ SignBeaconAttestations(g)

Next ==
  \/ \E g \in Goroutines : Arrive(g) \/ Work(g)
  \/ LockAccount \/ UnlockAccount \/ Crash

Spec == Init /\ [][Next]_vars

\* A runnable goroutine runs, and sync.Mutex hands itself to a waiter that
\* has starved for a millisecond.
FairSpec ==
  /\ Spec
  /\ \A g \in Goroutines : WF_vars(Work(g)) /\ SF_vars(PreLock(g))
-----------------------------------------------------------------------------
(***************************************************************************)
(* Properties.                                                             *)
(***************************************************************************)
Pcs == {"idle", "precheck", "prelock", "lock", "rules", "store", "unlock",
        "sign", "reply"}

Results == {"UNKNOWN", "APPROVED", "DENIED", "FAILED", "SUCCEEDED"}

Messages ==
  UNION {[key : Keys, action : {a}, data : DataOf(a)] :
           a \in {"Sign", "SignBeaconProposal", "SignBeaconAttestation"}}

\* A goroutine's request, and what it has read and decided so far.
GoroutineOK(g) ==
  /\ pc[g] \in Pcs
  /\ req[g] \in Requests \cup {NoRequest}
  /\ pc[g] = "idle" <=> req[g] = NoRequest
  /\ todo[g] \subseteq Indices(g)
  /\ pc[g] = "reply" => todo[g] = {}
  /\ locked[g] \in 0 .. Len(Entries(g))
  /\ pc[g] = "reply" \/ DOMAIN result[g] = Indices(g)
  /\ \A i \in DOMAIN result[g] : result[g][i] \in Results
  /\ pc[g] = "store" =>
       \/ /\ Action(g) = "SignBeaconProposal"
          /\ states[g] \in [Indices(g) -> ProposalState]
       \/ /\ Action(g) = "SignBeaconAttestation"
          /\ states[g] \in [Indices(g) -> AttestationState]

\* Type invariant of the whole signing path: among others, the ruler's
\* results are as many as the entries, which the signer relies on when it
\* takes them one by one.
TypeOK ==
  /\ propDB \in [Keys -> StoredProposal]
  /\ attDB \in [Keys -> StoredAttestation]
  /\ unlocked \subseteq Keys
  /\ mapLock \in Goroutines \cup {NoOne}
  /\ owner \in [Keys -> Goroutines \cup {NoOne}]
  /\ pc \in [Goroutines -> Pcs]
  /\ DOMAIN req = Goroutines
  /\ todo \in [Goroutines -> SUBSET Nat]
  /\ locked \in [Goroutines -> Nat]
  /\ DOMAIN states = Goroutines
  /\ DOMAIN result = Goroutines
  /\ \A g \in Goroutines : GoroutineOK(g)
  /\ \A m \in granted \cup signed : m \in Messages

\* The proposal and the attestation state on disk, as the rules would read
\* them now.
ProposalMark(k)    == FetchProposalState(propDB[k])
AttestationMark(k) == FetchAttestationState(attDB[k])

IsProposal(m)    == m.action = "SignBeaconProposal"
IsAttestation(m) == m.action = "SignBeaconAttestation"

\* No key ever signs two different blocks for one slot, whichever requests,
\* goroutines, store failures and crashes came between; and the generic
\* signer never produces a signature in the proposer domain.
NoDoubleProposal ==
  \A m, n \in signed :
    m.key = n.key /\ m.data.domain = "proposer" /\ n.data.domain = "proposer"
      => /\ IsProposal(m) /\ IsProposal(n)
         /\ m.data.slot = n.data.slot => m = n

Surrounds(a, b) == a.source < b.source /\ b.target < a.target

\* No key ever signs two different attestations with one target, nor one
\* that surrounds another, from single requests and batches alike; and the
\* generic signer never produces a signature in the attester domain.
NoSlashableAttestation ==
  \A m, n \in signed :
    m.key = n.key /\ m.data.domain = "attester" /\ n.data.domain = "attester"
      => /\ IsAttestation(m) /\ IsAttestation(n)
         /\ m.data.target = n.data.target => m = n
         /\ ~Surrounds(m.data, n.data)

\* Whatever was signed is already covered by what is on disk, so that a
\* server restarted at any moment refuses to sign against it.
SignedIsOnDisk ==
  \A m \in signed :
    /\ IsProposal(m) => ProposalMark(m.key) >= m.data.slot
    /\ IsAttestation(m) => /\ AttestationMark(m.key).source >= m.data.source
                           /\ AttestationMark(m.key).target >= m.data.target

InRules(g) == pc[g] \in {"rules", "store"}

\* Between reading a key's state and writing it no other goroutine runs the
\* rules for that key: what was read is still what is on disk.
StateReadIsFresh ==
  \A g \in Goroutines : pc[g] = "store" =>
    \A i \in Indices(g) :
      states[g][i] = IF Action(g) = "SignBeaconProposal"
                     THEN ProposalMark(KeyAt(g, i))
                     ELSE AttestationMark(KeyAt(g, i))

\* The keys of two goroutines that are running rules are disjoint.
RulesExclusive ==
  \A g, h \in Goroutines : g # h /\ InRules(g) /\ InRules(h) =>
    \A i \in Indices(g), j \in Indices(h) : KeyAt(g, i) # KeyAt(h, j)

\* The protection on disk never falls back, not even in a batch that
\* rewrites the state of an entry it denies, or in a store that fails half
\* way.
ProtectionNeverRegresses ==
  [][\A k \in Keys :
       /\ ProposalMark(k)' >= ProposalMark(k)
       /\ AttestationMark(k)'.source >= AttestationMark(k).source
       /\ AttestationMark(k)'.target >= AttestationMark(k).target]_vars

Increases(m, n) ==
  /\ IsProposal(m) => m.data.slot > n.data.slot
  /\ IsAttestation(m) => /\ m.data.target > n.data.target
                         /\ m.data.source >= n.data.source

\* A newly approved proposal has a slot greater than every one approved
\* before for its key, and a newly approved attestation a greater target
\* and a source that is not smaller.
ApprovalsIncrease ==
  [][\A m \in granted' \ granted, n \in granted :
       m.key = n.key /\ m.action = n.action => Increases(m, n)]_vars

(***************************************************************************)
(* The inductive invariant behind the safety properties.                   *)
(***************************************************************************)
\* From the ruler's test on, the keys are known and different.
KeysOK(g) ==
  /\ \A i \in Indices(g) : KeyAt(g, i) \in Keys
  /\ \A i, j \in Indices(g) : KeyAt(g, i) = KeyAt(g, j) => i = j

LocksOK(g) ==
  /\ \A i \in 1 .. locked[g] : owner[KeyAt(g, i)] = g
  /\ pc[g] \in {"idle", "precheck", "prelock", "sign", "reply"} =>
       locked[g] = 0
  /\ InRules(g) => locked[g] = Len(Entries(g))
  /\ pc[g] \in {"prelock", "lock"} \/ InRules(g) \/ locked[g] > 0 =>
       KeysOK(g)
  /\ pc[g] = "precheck" =>
       \A i \in Indices(g) \ todo[g] :
         result[g][i] = "UNKNOWN" => KeyAt(g, i) \in Keys

\* What may be signed: a granted duty, or data of a domain that is no duty.
Cleared(m) ==
  \/ m \in granted
  \/ m.action = "Sign" /\ m.data.domain \notin {"attester", "proposer"}

ResultsOK(g) ==
  /\ pc[g] = "store" /\ Action(g) = "SignBeaconProposal" =>
       ProposalDomainOK(DataAt(g, 1))
  /\ pc[g] = "unlock" =>
       \A i \in Indices(g) :
         result[g][i] = "APPROVED" => Cleared(Message(g, i))
  /\ pc[g] = "sign" => \A i \in todo[g] : Cleared(Message(g, i))

\* A granted duty is behind the key's marks, and no two of them conflict.
Covered(m) ==
  \/ /\ IsProposal(m) /\ m.data.domain = "proposer"
     /\ ProposalMark(m.key) >= m.data.slot
  \/ /\ IsAttestation(m) /\ m.data.domain = "attester"
     /\ AttestationMark(m.key).source >= m.data.source
     /\ AttestationMark(m.key).target >= m.data.target

Compatible(m, n) ==
  m.key = n.key /\ m.action = n.action /\ m # n =>
    \/ IsProposal(m) /\ m.data.slot # n.data.slot
    \/ /\ IsAttestation(m) /\ m.data.target # n.data.target
       /\ ~Surrounds(m.data, n.data)

GrantedOK ==
  /\ \A m \in granted : Covered(m)
  /\ \A m, n \in granted : Compatible(m, n)
  /\ \A m \in signed : Cleared(m)

MarksOK ==
  \A k \in Keys : /\ ProposalMark(k) >= -1
                  /\ AttestationMark(k).source >= -1
                  /\ AttestationMark(k).target >= -1

\* Why nothing slashable is signed: the locks that the rules run under keep
\* what they have read fresh, so that each grant lies beyond all earlier
\* ones, and only what is granted reaches a signature.
SafetyInvariant ==
  /\ \A g \in Goroutines : LocksOK(g) /\ ResultsOK(g)
  /\ StateReadIsFresh
  /\ MarksOK
  /\ GrantedOK

\* No slot or epoch that is asked for is beyond the largest int64.
InRange ==
  \A r \in Requests : \A i \in DOMAIN r.entries :
    /\ ActionOf(r.method) = "SignBeaconProposal" =>
         r.entries[i].data.slot < Half
    /\ ActionOf(r.method) = "SignBeaconAttestation" =>
         /\ r.entries[i].data.source < Half
         /\ r.entries[i].data.target < Half

\* Every request is answered: overlapping batches in any order of keys do
\* not wait for each other for ever.
EveryRequestAnswered ==
  \A g \in Goroutines : pc[g] # "idle" ~> pc[g] = "idle"

BeaconDuties == {m \in signed : m.action # "Sign"}

Requested(action) ==
  UNION {{r.entries[i].data : i \in DOMAIN r.entries} :
           r \in {q \in Requests : ActionOf(q.method) = action}}

Promise == INSTANCE SlashingProtection WITH
  Proposals    <- Requested("SignBeaconProposal"),
  Attestations <- Requested("SignBeaconAttestation"),
  slot         <- [k \in Keys |-> ProposalMark(k)],
  source       <- [k \in Keys |-> AttestationMark(k).source],
  target       <- [k \in Keys |-> AttestationMark(k).target],
  signed       <- BeaconDuties

\* The server keeps the promise of SlashingProtection, its marks being what
\* the rules would read from the store: concurrent requests, batches,
\* failing stores and crashes all look like single atomic moves of marks.
KeepsPromise == Promise!Spec
=============================================================================
