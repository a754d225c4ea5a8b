------------------------------ MODULE Accounts ------------------------------
(***************************************************************************)
(* The accounts of one server (services/fetcher, lister, wallet manager,   *)
(* checker, and the parts of process and of the managers that look up and  *)
(* create accounts).  Accounts are read from disk into caches when the     *)
(* server starts; accounts created later go to a second pair of caches,    *)
(* while requests look accounts up and list them.  The first caches are    *)
(* never written after the start, so that reading one of them and reading  *)
(* its second cache under the lock make one step.                          *)
(*                                                                         *)
(* Wallets on disk have different names, also across stores.               *)
(***************************************************************************)
EXTENDS Permissions

CONSTANTS
  Goroutines,
  Keys,              \* bound: every new account takes a new one
  WritableWallets,   \* wallets of the first store, in which accounts are made
  Distributed,       \* wallets of type distributed
  Hierarchical,      \* wallets of type hierarchical deterministic
  KnownPassphrase,   \* those whose passphrase the unlocker has
  Peers,             \* names of the other servers' certificates
  InitialWallets,    \* on disk to begin with
  InitialAccounts,   \* on disk to begin with: [wallet, name, key]
  Requests           \* what clients and peers may ask for

NoKey  == "no key"
NoPath == <<NoName, NoName>>

AccountRecords == [wallet : WalletNames, name : AccountNames, key : Keys]

IsRequest(q) ==
  /\ q.client \in Clients \cup Peers \cup {NoName}
  /\ CASE q.kind \in {"Generate", "Commit"} ->
           q.wallet \in WalletNames /\ q.name \in AccountNames
      [] q.kind = "ByName" -> q.name \in WalletNames \X AccountNames
      [] q.kind = "ByKey" -> q.key \in Keys
      [] q.kind = "ListAccounts" ->
           q.paths \in Seq([wallet : WalletNames \cup {NoName},
                            accounts : SUBSET (AccountNames \cup {NoName})])
      [] q.kind \in {"Lock", "Unlock"} -> q.passphraseOK \in BOOLEAN

ASSUME AccountsAssumption ==
  /\ NoKey \notin Keys
  /\ InitialWallets \subseteq WalletNames
  /\ InitialAccounts \subseteq AccountRecords
  /\ \A a, b \in InitialAccounts :
       a.wallet = b.wallet /\ a.name = b.name => a = b
  /\ {a.wallet : a \in InitialAccounts} \subseteq InitialWallets
  /\ \A q \in Requests : IsRequest(q)

VARIABLES
  diskWallets,       \* wallets on disk
  disk,              \* accounts on disk
  up,                \* is the server running?
  access,            \* the checker's paths by client
  wallets,           \* names of the wallets in the fetcher's cache
  unlocked,          \* those that the wallet manager has unlocked
  walletAccounts,    \* <<wallet, name>> -> key, since the start
  pubKeyPaths,       \* key -> <<wallet, name>>, since the start
  rwWalletAccounts,  \* the same for accounts added later
  rwPubKeyPaths,
  requests           \* requests[g]: what goroutine g is doing or has done

onDisk == <<diskWallets, disk>>
caches == <<walletAccounts, pubKeyPaths, rwWalletAccounts, rwPubKeyPaths>>
server == <<up, access, wallets>>
vars   == <<onDisk, server, unlocked, caches, requests>>

Idle == [phase |-> "idle"]
Empty == << >>                   \* the function with no argument

\* f with the entry x -> y; and f and g, where f has the last word.
Put(f, x, y) == [z \in DOMAIN f \cup {x} |-> IF z = x THEN y ELSE f[z]]
Over(f, g) ==
  [z \in DOMAIN f \cup DOMAIN g |-> IF z \in DOMAIN f THEN f[z] ELSE g[z]]

Init ==
  /\ diskWallets = InitialWallets
  /\ disk = InitialAccounts
  /\ up = FALSE
  /\ access = Empty
  /\ wallets = {}
  /\ unlocked = {}
  /\ walletAccounts = Empty /\ pubKeyPaths = Empty
  /\ rwWalletAccounts = Empty /\ rwPubKeyPaths = Empty
  /\ requests = [g \in Goroutines |-> Idle]
-----------------------------------------------------------------------------
(***************************************************************************)
(* Starting and stopping.  A key in several wallets keeps the path that    *)
(* was entered last.                                                       *)
(***************************************************************************)
PathOf(a) == <<a.wallet, a.name>>

PopulateCaches ==
  /\ wallets' = diskWallets
  /\ walletAccounts' = [p \in {PathOf(a) : a \in disk} |->
                          (CHOOSE a \in disk : PathOf(a) = p).key]
  /\ \E f \in [{a.key : a \in disk} -> {PathOf(a) : a \in disk}] :
       /\ \A k \in DOMAIN f : \E a \in disk : a.key = k /\ PathOf(a) = f[k]
       /\ pubKeyPaths' = f

Start ==
  /\ ~up
  /\ ParametersOK
  /\ up' = TRUE
  /\ access' \in Accesses
  /\ PopulateCaches
  /\ rwWalletAccounts' = Empty /\ rwPubKeyPaths' = Empty
  /\ UNCHANGED <<onDisk, unlocked, requests>>

Crash ==
  /\ up
  /\ up' = FALSE
  /\ access' = Empty /\ wallets' = {} /\ unlocked' = {}
  /\ walletAccounts' = Empty /\ pubKeyPaths' = Empty
  /\ rwWalletAccounts' = Empty /\ rwPubKeyPaths' = Empty
  /\ requests' = [g \in Goroutines |-> Idle]
  /\ UNCHANGED onDisk

\* The operator creates a wallet with another tool.
NewWallet ==
  /\ \E w \in WalletNames \ diskWallets : diskWallets' = diskWallets \cup {w}
  /\ UNCHANGED <<disk, server, unlocked, caches, requests>>
-----------------------------------------------------------------------------
(***************************************************************************)
(* The fetcher.                                                            *)
(***************************************************************************)
\* Mutant: only the accounts of the start are looked up by name.
FetchAccountAtStart(path) ==
  IF path[1] \in wallets /\ path \in DOMAIN walletAccounts
  THEN walletAccounts[path] ELSE NoKey

FetchAccount(path) ==
  IF path[1] \notin wallets THEN NoKey
  ELSE IF path \in DOMAIN walletAccounts THEN walletAccounts[path]
  ELSE IF path \in DOMAIN rwWalletAccounts THEN rwWalletAccounts[path]
  ELSE NoKey

FetchPath(key) ==
  IF key \in DOMAIN pubKeyPaths THEN pubKeyPaths[key]
  ELSE IF key \in DOMAIN rwPubKeyPaths THEN rwPubKeyPaths[key]
  ELSE NoPath

Account(path, key) == [wallet |-> path[1], name |-> path[2], key |-> key]

\* Mutant: a wallet with new accounts shows those alone.
FetchAccountsNewest(wallet) ==
  LET rw == {Account(p, rwWalletAccounts[p]) : p \in DOMAIN rwWalletAccounts}
      ro == {Account(p, walletAccounts[p]) : p \in DOMAIN walletAccounts}
      In(accounts) == {a \in accounts : a.wallet = wallet}
  IN IF In(rw) # {} THEN In(rw) ELSE In(ro)

\* The accounts of both caches, the second one before the first.
Known ==
  LET both == Over(rwWalletAccounts, walletAccounts)
  IN {Account(p, both[p]) : p \in DOMAIN both}

FetchAccounts(wallet) == {a \in Known : a.wallet = wallet}

\* A goroutine takes up a new request; `before` is a history of what the
\* fetcher knew at that time.
Begins(g, q) == up /\ requests[g].phase \in {"idle", "done"} /\ q \in Requests

Becomes(g, phase, q, found) ==
  requests' = [requests EXCEPT ![g] =
    [phase |-> phase, request |-> q, found |-> found, next |-> 1,
     before |-> IF @.phase \in {"idle", "done"} THEN Known ELSE @.before]]

\* A lookup or a list is answered with what it has found, which is kept; any
\* other request leaves nothing behind in the goroutine.
Done(g, q, found) == Becomes(g, "done", q, found)
Ended(g) == requests' = [requests EXCEPT ![g] = Idle]
Quiet == UNCHANGED <<onDisk, server, unlocked, caches>>
-----------------------------------------------------------------------------
(***************************************************************************)
(* Creating accounts: for a client, when OnGenerate has a single           *)
(* participant, and for a peer, when OnCommit stores a distributed key.    *)
(* Each opens a wallet of its own from the first store, unlocks it and     *)
(* locks it again, writes the account and then tells the fetcher.          *)
(***************************************************************************)
CanOpen(w) == w \in WritableWallets \cap diskWallets

Exists(w, n) == \E a \in disk : PathOf(a) = <<w, n>>

\* Only hierarchical wallets have a passphrase.
CanUnlock(w) == w \in Hierarchical => w \in KnownPassphrase

\* The receiver knows a peer by the name in its certificate.
SenderKnown(q) == q.client \in Peers

MayGenerate(q) ==
  /\ Check(access, q.client, q.wallet, q.name, "Create account")
  /\ CanOpen(q.wallet) /\ ~Exists(q.wallet, q.name)
  /\ q.wallet \notin Distributed

OnGenerate(g) ==
  /\ \E q \in Requests :
       /\ Begins(g, q) /\ q.kind = "Generate"
       /\ \/ MayGenerate(q) /\ Becomes(g, "create", q, {})
          \/ ~MayGenerate(q) /\ Ended(g)
  /\ Quiet

MayCommit(q) ==
  SenderKnown(q) /\ CanOpen(q.wallet) /\ q.wallet \in Distributed

OnCommit(g) ==
  /\ \E q \in Requests :
       /\ Begins(g, q) /\ q.kind = "Commit"
       /\ \/ MayCommit(q) /\ Becomes(g, "create", q, {})
          \/ ~MayCommit(q) /\ Ended(g)
  /\ Quiet

\* The wallet, a library, refuses a name that it has.  It is assumed to
\* compare with what is on disk now, although it was opened earlier: if it
\* compared with what it had read when it was opened, two goroutines could
\* create one name twice, and nothing in dirk would prevent it.
CreateAccount(g) ==
  /\ requests[g].phase = "create"
  /\ LET q == requests[g].request
     IN \/ /\ CanUnlock(q.wallet) /\ ~Exists(q.wallet, q.name)
           /\ \E k \in Keys \ {a.key : a \in disk} :
                LET a == [wallet |-> q.wallet, name |-> q.name, key |-> k]
                IN disk' = disk \cup {a} /\ Becomes(g, "add", q, {a})
        \/ /\ ~CanUnlock(q.wallet) \/ Exists(q.wallet, q.name)
           /\ Ended(g)
           /\ UNCHANGED disk
  /\ UNCHANGED <<diskWallets, server, unlocked, caches>>

\* Mutants: the wallet is not looked up first; the public key is not entered.
AddAccountAnyWallet(a) ==
  /\ rwWalletAccounts' = Put(rwWalletAccounts, PathOf(a), a.key)
  /\ rwPubKeyPaths' = Put(rwPubKeyPaths, a.key, PathOf(a))
  /\ UNCHANGED <<walletAccounts, pubKeyPaths>>

AddAccountByName(a) ==
  /\ rwWalletAccounts' = Put(rwWalletAccounts, PathOf(a), a.key)
  /\ UNCHANGED <<walletAccounts, pubKeyPaths, rwPubKeyPaths>>

\* Fails, with a warning only, if the wallet is newer than the caches.
AddAccount(a) ==
  IF a.wallet \in wallets
  THEN /\ rwWalletAccounts' = Put(rwWalletAccounts, PathOf(a), a.key)
       /\ rwPubKeyPaths' = Put(rwPubKeyPaths, a.key, PathOf(a))
       /\ UNCHANGED <<walletAccounts, pubKeyPaths>>
  ELSE UNCHANGED caches

Created(g) ==
  /\ requests[g].phase = "add"
  /\ \E a \in requests[g].found : AddAccount(a)
  /\ Ended(g)
  /\ UNCHANGED <<onDisk, server, unlocked>>
-----------------------------------------------------------------------------
(***************************************************************************)
(* Looking an account up, as every signing request and the account manager *)
(* do (preCheck): by name, or by key in two steps; then the permission.    *)
(***************************************************************************)
PreCheck(g, q, path) ==
  LET ok == /\ FetchAccount(path) # NoKey
            /\ Check(access, q.client, path[1], path[2], q.operation)
  IN Done(g, q, IF ok THEN {Account(path, FetchAccount(path))} ELSE {})

ByName(g) ==
  /\ \E q \in Requests :
       Begins(g, q) /\ q.kind = "ByName" /\ PreCheck(g, q, q.name)
  /\ Quiet

FetchAccountByKey(g) ==
  /\ \E q \in Requests :
       /\ Begins(g, q) /\ q.kind = "ByKey"
       /\ LET path == FetchPath(q.key)
          IN \/ path = NoPath /\ Done(g, q, {})
             \/ path # NoPath /\ Becomes(g, "path", q, {path})
  /\ Quiet

ByKey(g) ==
  /\ requests[g].phase = "path"
  /\ \E path \in requests[g].found : PreCheck(g, requests[g].request, path)
  /\ Quiet
-----------------------------------------------------------------------------
(***************************************************************************)
(* Listing accounts, path by path.                                         *)
(***************************************************************************)
ListAccounts(g) ==
  /\ \E q \in Requests :
       /\ Begins(g, q) /\ q.kind = "ListAccounts"
       /\ Becomes(g, "list", q, {})
  /\ Quiet

\* An expression that does not compile selects nothing.
Selects(path, a) ==
  /\ path.wallet = a.wallet
  /\ path.accounts = Blank \/ a.name \in path.accounts

Listed(client, path) ==
  {a \in FetchAccounts(path.wallet) :
     /\ path.wallet \in wallets
     /\ Selects(path, a)
     /\ Check(access, client, a.wallet, a.name, "Access account")}

ListPath(g) ==
  /\ requests[g].phase = "list"
  /\ LET q == requests[g].request
         i == requests[g].next
     IN \/ /\ i <= Len(q.paths)
           /\ requests' = [requests EXCEPT ![g].next = i + 1,
                ![g].found = @ \cup Listed(q.client, q.paths[i])]
        \/ /\ i > Len(q.paths)
           /\ Done(g, q, requests[g].found)
  /\ Quiet
-----------------------------------------------------------------------------
(***************************************************************************)
(* The wallet manager works on the fetcher's wallets, and so never on the  *)
(* ones that a creation opens.                                             *)
(***************************************************************************)
MayUse(q, operation) ==
  /\ q.wallet \in wallets
  /\ Check(access, q.client, q.wallet, NoName, operation)

LockWallet(g) ==
  /\ \E q \in Requests :
       /\ Begins(g, q) /\ q.kind = "Lock"
       /\ unlocked' = IF MayUse(q, "Lock wallet") THEN unlocked \ {q.wallet}
                                                  ELSE unlocked
       /\ Ended(g)
  /\ UNCHANGED <<onDisk, server, caches>>

UnlockWallet(g) ==
  /\ \E q \in Requests :
       /\ Begins(g, q) /\ q.kind = "Unlock"
       /\ unlocked' = IF MayUse(q, "Unlock wallet") /\ q.passphraseOK
                      THEN unlocked \cup {q.wallet} ELSE unlocked
       /\ Ended(g)
  /\ UNCHANGED <<onDisk, server, caches>>

Serve(g) ==
  \/ OnGenerate(g) \/ OnCommit(g) \/ CreateAccount(g) \/ Created(g)
  \/ ByName(g) \/ FetchAccountByKey(g) \/ ByKey(g)
  \/ ListAccounts(g) \/ ListPath(g)
  \/ LockWallet(g) \/ UnlockWallet(g)

Next == Start \/ Crash \/ NewWallet \/ \E g \in Goroutines : Serve(g)

Spec == Init /\ [][Next]_vars
-----------------------------------------------------------------------------
(***************************************************************************)
(* Properties.                                                             *)
(***************************************************************************)
Paths == WalletNames \X AccountNames

\* Type invariant.  An account is in one of the fetcher's two caches at most,
\* and only under a wallet that the fetcher has.
TypeOK ==
  /\ diskWallets \subseteq WalletNames
  /\ disk \subseteq AccountRecords
  /\ up \in BOOLEAN
  /\ up => access \in Accesses
  /\ wallets \subseteq diskWallets
  /\ unlocked \subseteq wallets
  /\ DOMAIN walletAccounts \subseteq Paths
  /\ DOMAIN rwWalletAccounts \subseteq Paths \ DOMAIN walletAccounts
  /\ \A p \in DOMAIN walletAccounts \cup DOMAIN rwWalletAccounts : p[1] \in wallets
  /\ DOMAIN pubKeyPaths \subseteq Keys
  /\ DOMAIN rwPubKeyPaths \subseteq Keys
  /\ \A g \in Goroutines :
       requests[g].phase \in {"idle", "create", "add", "path", "list", "done"}

\* An account that is on disk is found by its name and by its key, and a key
\* leads to an account with that key: from the moment its creation is
\* answered, and again after every restart.  The exception is an account in
\* a wallet that is newer than the server's caches.
CreatedIsReachable ==
  \A a \in disk :
    (/\ up /\ a.wallet \in wallets
     /\ ~\E g \in Goroutines : requests[g].phase = "add" /\ a \in requests[g].found)
    => /\ FetchAccount(PathOf(a)) = a.key
       /\ FetchAccount(FetchPath(a.key)) = a.key

Answered(g, kinds) ==
  requests[g].phase = "done" /\ requests[g].request.kind \in kinds

May(q, a, operation) == Check(access, q.client, a.wallet, a.name, operation)

\* A lookup returns the account that was asked for, although its two steps
\* may be far apart; and it finds every account that was known when it
\* began, if the client may use it.
LookupsAreExact ==
  \A g \in Goroutines : Answered(g, {"ByName", "ByKey"}) =>
    LET q == requests[g].request
        Asked(a) == IF q.kind = "ByKey" THEN a.key = q.key ELSE PathOf(a) = q.name
        known == {a \in requests[g].before : Asked(a)}
    IN /\ \A a \in requests[g].found : Asked(a) /\ a \in disk
       /\ (known # {} /\ \A a \in known : May(q, a, q.operation))
          => requests[g].found # {}

\* A list that is put together while accounts are being created has every
\* account that was known when it began and that the client asked for and
\* may see, and nothing else than accounts that exist and that it may see.
ListsAreExact ==
  \A g \in Goroutines : Answered(g, {"ListAccounts"}) =>
    LET q == requests[g].request
        Wanted(accounts) ==
          {a \in accounts : /\ \E i \in DOMAIN q.paths : Selects(q.paths[i], a)
                            /\ May(q, a, "Access account")}
    IN /\ Wanted(requests[g].before) \subseteq requests[g].found
       /\ requests[g].found \subseteq Wanted(disk)

\* Whatever the checker lets happen, the configuration grants: every account
\* shown to a client, every wallet unlocked and every account created for a
\* client has a path whose list of operations allows it.
AccessIsGranted ==
  /\ \A g \in Goroutines :
       Answered(g, {"ByName", "ByKey", "ListAccounts"}) =>
         LET q == requests[g].request
             operation == IF q.kind = "ListAccounts" THEN "Access account"
                                                     ELSE q.operation
         IN \A a \in requests[g].found :
              Granted(q.client, a.wallet, a.name, operation)
  /\ \A w \in unlocked :
       \E c \in Clients : Granted(c, w, NoName, "Unlock wallet")
  /\ \A a \in disk \ InitialAccounts :
       \/ a.wallet \in Distributed
       \/ \E c \in Clients : Granted(c, a.wallet, a.name, "Create account")

\* The order in which a start happens to read the permissions does not
\* matter to the answers of the checker, as long as no two paths contradict
\* each other.  (The paths do not change until the server stops, so it is
\* enough to look at it before it serves a request.)
AnswersIgnoreOrder ==
  (up /\ \A g \in Goroutines : requests[g] = Idle) =>
        \A c \in Clients, w \in WalletNames, n \in AccountNames \cup {NoName},
          o \in Operations :
          /\ Check(access, c, w, n, o) => Granted(c, w, n, o)
          /\ Granted(c, w, n, o) /\ ~Denied(c, w, n, o) => Check(access, c, w, n, o)

\* docs/permissions.md: every list of permissions ends in an implicit
\* denial, so that what the list of a matching path does not allow is denied.
ImplicitDenial ==
  up => \A c \in DOMAIN Configured, w \in WalletNames,
          n \in AccountNames \cup {NoName}, o \in Operations :
          (\E p \in Configured[c] : Covers(p, w, n) /\ ~SaysFirst(p, o, FALSE))
          => ~Check(access, c, w, n, o)
=============================================================================
