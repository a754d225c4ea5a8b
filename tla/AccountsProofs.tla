--------------------------- MODULE AccountsProofs ---------------------------
(***************************************************************************)
(* Proofs about Permissions and Accounts.                                  *)
(***************************************************************************)
EXTENDS Accounts, FiniteSetTheorems, WellFoundedInduction, TLAPS

(***************************************************************************)
(* The checker.                                                            *)
(***************************************************************************)
\* Min of a set of naturals that is not empty is its least element.
LEMMA MinFacts ==
  ASSUME NEW I \in SUBSET Nat, I # {}
  PROVE  Min(I) \in I /\ \A j \in I : Min(I) <= j
<1>1. PICK x \in I : \A y \in I : ~(<<y, x>> \in OpToRel(<, Nat))
  BY NatLessThanWellFounded, WFMin
<1>2. \A y \in I : ~(y < x)
  BY <1>1 DEF OpToRel
<1>3. \A y \in I : x <= y
  BY <1>2
<1> QED BY <1>3 DEF Min

\* Where a list of operations mentions an operation, and where first.
Said(operations, operation) ==
  {i \in 1 .. Len(operations) : operations[i].operation \in {operation, AnyOp}}

FirstSaid(operations, operation) ==
  IF Said(operations, operation) # {} THEN Min(Said(operations, operation)) ELSE 0

LEMMA VerdictIs ==
  ASSUME NEW path, NEW operation
  PROVE  Verdict(path, operation) =
           CASE FirstSaid(path.operations, operation) = 0 -> "neutral"
             [] /\ FirstSaid(path.operations, operation) # 0
                /\ path.operations[FirstSaid(path.operations, operation)].negative
                -> "deny"
             [] OTHER -> "allow"
BY Zenon DEF Verdict, SelectInSeq, FirstSaid, Said

\* The verdict is what the list says, without regard to how it is read.
LEMMA VerdictFacts ==
  ASSUME NEW path, NEW operation,
         path.operations \in
           Seq([negative : BOOLEAN, operation : Operations \cup {AnyOp}])
  PROVE  /\ Verdict(path, operation) \in {"neutral", "allow", "deny"}
         /\ Verdict(path, operation) = "allow" => SaysFirst(path, operation, FALSE)
         /\ Verdict(path, operation) = "deny" => SaysFirst(path, operation, TRUE)
         /\ \A b \in BOOLEAN : SaysFirst(path, operation, b) =>
              Verdict(path, operation) # "neutral"
<1> DEFINE ops == path.operations
           S == Said(ops, operation)
           i == FirstSaid(ops, operation)
<1>1. /\ Len(ops) \in Nat /\ DOMAIN ops = 1 .. Len(ops)
      /\ \A j \in 1 .. Len(ops) : ops[j].negative \in BOOLEAN
  <2>1. PICK Items : Items = [negative : BOOLEAN,
                              operation : Operations \cup {AnyOp}]
    OBVIOUS
  <2>2. ops \in Seq(Items)
    BY <2>1
  <2>3. /\ Len(ops) \in Nat /\ DOMAIN ops = 1 .. Len(ops)
        /\ \A j \in 1 .. Len(ops) : ops[j] \in Items
    BY <2>2
  <2>4. \A item \in Items : item.negative \in BOOLEAN
    BY <2>1
  <2> QED BY <2>3, <2>4
<1>2. S \subseteq 1 .. Len(ops)
  BY DEF Said
<1>3. CASE S = {}
  <2>1. Verdict(path, operation) = "neutral"
    <3>1. PICK f : f = i
      OBVIOUS
    <3>2. f = 0
      BY <1>3, <3>1 DEF FirstSaid
    <3>3. Verdict(path, operation) =
            CASE f = 0 -> "neutral" [] f # 0 /\ ops[f].negative -> "deny"
              [] OTHER -> "allow"
      <4> HIDE DEF i
      <4> QED BY <3>1, VerdictIs DEF i
    <3> QED BY <3>2, <3>3
  <2>2. \A b \in BOOLEAN : ~SaysFirst(path, operation, b)
    BY <1>1, <1>3 DEF SaysFirst, Said
  <2> QED BY <2>1, <2>2
<1>4. CASE S # {}
  <2>1. i \in S /\ \A j \in S : i <= j
    <3>1. S \in SUBSET Nat
      BY <1>1, <1>2
    <3> HIDE DEF S
    <3>2. Min(S) \in S /\ \A j \in S : Min(S) <= j
      BY <1>4, <3>1, MinFacts
    <3>3. i = Min(S)
      BY <1>4 DEF FirstSaid, S
    <3> QED BY <3>2, <3>3
  <2>2. /\ i \in 1 .. Len(ops) /\ ops[i].operation \in {operation, AnyOp}
        /\ \A j \in 1 .. i - 1 : ops[j].operation \notin {operation, AnyOp}
    <3>1. i \in 1 .. Len(ops) /\ ops[i].operation \in {operation, AnyOp}
      BY <2>1 DEF Said
    <3>2. ASSUME NEW j \in 1 .. i - 1
          PROVE  ops[j].operation \notin {operation, AnyOp}
      <4>1. j \in 1 .. Len(ops) /\ ~(i <= j)
        BY <1>1, <3>1
      <4>2. j \notin S
        BY <2>1, <4>1
      <4> QED BY <4>1, <4>2 DEF Said
    <3> QED BY <3>1, <3>2
  <2>3. i # 0 /\ ops[i].negative \in BOOLEAN
    BY <1>1, <2>2
  <2>4. PICK f \in 1 .. Len(ops) : f = i
    BY <2>2
  <2>5. /\ Verdict(path, operation) # "neutral"
        /\ Verdict(path, operation) = IF ops[f].negative THEN "deny" ELSE "allow"
    <3> HIDE DEF i
    <3>1. Verdict(path, operation) =
            CASE f = 0 -> "neutral" [] f # 0 /\ ops[f].negative -> "deny"
              [] OTHER -> "allow"
      BY <2>4, VerdictIs DEF i
    <3> QED BY <2>3, <2>4, <3>1
  <2>6. SaysFirst(path, operation, ops[f].negative)
    BY <1>1, <2>2, <2>4 DEF SaysFirst
  <2> QED BY <2>3, <2>4, <2>5, <2>6
<1> QED BY <1>3, <1>4

\* What a client's list of paths is at a start.
LEMMA AccessFacts ==
  ASSUME NEW acc \in Accesses, NEW c \in DOMAIN Configured
  PROVE  /\ DOMAIN acc = DOMAIN Configured
         /\ Len(acc[c]) \in Nat /\ DOMAIN acc[c] = 1 .. Len(acc[c])
         /\ \A i \in 1 .. Len(acc[c]) : \E p \in Configured[c] : acc[c][i] = Path(p)
         /\ \A p \in Configured[c] : \E i \in 1 .. Len(acc[c]) : acc[c][i] = Path(p)
<1> DEFINE Image(d) == {Path(p) : p \in Configured[d]}
<1>1. /\ DOMAIN acc = DOMAIN Configured /\ ToSet(acc[c]) = Image(c)
      /\ acc[c] \in UNION {SetToSeqs(Image(d)) : d \in DOMAIN Configured}
  BY DEF Accesses
<1>2. PICK d \in DOMAIN Configured : acc[c] \in SetToSeqs(Image(d))
  BY <1>1
<1>3. IsFiniteSet(Image(d))
  <2> DEFINE f == [p \in Configured[d] |-> Path(p)]
  <2>1. IsFiniteSet(Configured[d])
    BY PermissionsAssumption
  <2>2. f \in Surjection(Configured[d], Image(d))
    BY DEF Surjection
  <2> QED BY <2>1, <2>2, FS_Surjection
<1>4. PICK n \in Nat : n = Cardinality(Image(d))
  BY <1>3, FS_CardinalityType
<1>5. acc[c] \in [1 .. n -> Image(d)]
  BY <1>2, <1>4 DEF SetToSeqs
<1>6. acc[c] \in Seq(Image(d))
  BY <1>5
<1>7. Len(acc[c]) \in Nat /\ DOMAIN acc[c] = 1 .. Len(acc[c])
  BY <1>6
<1>8. Image(c) = {acc[c][i] : i \in 1 .. Len(acc[c])}
  BY <1>1, <1>7 DEF ToSet
<1> QED BY <1>1, <1>7, <1>8

\* The paths that decide, in a client's list, and the first of them.
Deciding(s, wallet, account, operation) ==
  {i \in 1 .. Len(s) : /\ Matches(s[i], wallet, account)
                       /\ Verdict(s[i], operation) # "neutral"}

FirstDeciding(s, wallet, account, operation) ==
  IF Deciding(s, wallet, account, operation) # {}
  THEN Min(Deciding(s, wallet, account, operation)) ELSE 0

LEMMA CheckIs ==
  ASSUME NEW acc, NEW c, NEW w, NEW n, NEW o
  PROVE  Check(acc, c, w, n, o) <=>
           /\ c # NoName /\ w # NoName /\ c \in DOMAIN acc
           /\ FirstDeciding(acc[c], w, n, o) # 0
           /\ Verdict(acc[c][FirstDeciding(acc[c], w, n, o)], o) = "allow"
BY Zenon DEF Check, SelectInSeq, FirstDeciding, Deciding

LEMMA PathFacts ==
  ASSUME NEW c \in DOMAIN Configured, NEW p \in Configured[c], NEW o
  PROVE  /\ Path(p).operations \in
              Seq([negative : BOOLEAN, operation : Operations \cup {AnyOp}])
         /\ \A b \in BOOLEAN : SaysFirst(Path(p), o, b) <=> SaysFirst(p, o, b)
         /\ \A w, n : Matches(Path(p), w, n) => Covers(p, w, n)
         /\ \A w, n : n \in AccountNames \cup {NoName} /\ Covers(p, w, n) =>
                        Matches(Path(p), w, n)
<1>1. IsPermission(p)
  BY PermissionsAssumption
<1>2. /\ Path(p).wallet = p.wallet /\ Path(p).account = Regexify(p.account)
      /\ Path(p).operations = p.operations
  BY DEF Path
<1>3. \A b \in BOOLEAN : SaysFirst(Path(p), o, b) <=> SaysFirst(p, o, b)
  BY <1>2 DEF SaysFirst
<1>4. \A w, n : Matches(Path(p), w, n) => Covers(p, w, n)
  BY <1>2 DEF Matches, Covers, Regexify
<1>5. \A w, n : n \in AccountNames \cup {NoName} /\ Covers(p, w, n) =>
                  Matches(Path(p), w, n)
  BY <1>2 DEF Matches, Covers, Regexify
<1> QED BY <1>1, <1>2, <1>3, <1>4, <1>5 DEF IsPermission

\* The path that decides is one of the configuration.
DecidedBy(s, p, w, n, o) ==
  LET i == FirstDeciding(s, w, n, o)
  IN /\ i \in 1 .. Len(s) /\ s[i] = Path(p)
     /\ Matches(Path(p), w, n) /\ Verdict(Path(p), o) # "neutral"

LEMMA DecidingFacts ==
  ASSUME NEW acc \in Accesses, NEW c \in DOMAIN Configured, NEW w, NEW n, NEW o,
         Deciding(acc[c], w, n, o) # {}
  PROVE  \E p \in Configured[c] : DecidedBy(acc[c], p, w, n, o)
<1> DEFINE D == Deciding(acc[c], w, n, o)
<1>1. /\ Len(acc[c]) \in Nat
      /\ \A i \in 1 .. Len(acc[c]) : \E p \in Configured[c] : acc[c][i] = Path(p)
  BY AccessFacts
<1>2. D \in SUBSET Nat /\ \A i \in D : i \in 1 .. Len(acc[c])
  BY <1>1 DEF Deciding
<1>3. PICK i \in D : i = FirstDeciding(acc[c], w, n, o)
  <2> HIDE DEF D
  <2>1. Min(D) \in D
    BY <1>2, MinFacts DEF D
  <2> QED BY <2>1 DEF FirstDeciding, D
<1>4. i \in 1 .. Len(acc[c])
  BY <1>2
<1>5. Matches(acc[c][i], w, n) /\ Verdict(acc[c][i], o) # "neutral"
  BY DEF Deciding
<1>6. PICK p \in Configured[c] : acc[c][i] = Path(p)
  BY <1>1, <1>4
<1>7. DecidedBy(acc[c], p, w, n, o)
  BY <1>3, <1>4, <1>5, <1>6 DEF DecidedBy
<1> QED BY <1>7

\* What the checker allows, the configuration grants.
LEMMA CheckIsGranted ==
  ASSUME NEW acc \in Accesses, NEW c, NEW w, NEW n, NEW o, Check(acc, c, w, n, o)
  PROVE  Granted(c, w, n, o) /\ c # NoName /\ c \in Clients
<1> DEFINE f == FirstDeciding(acc[c], w, n, o)
<1>1. /\ c # NoName /\ c \in DOMAIN acc /\ f # 0
      /\ Verdict(acc[c][f], o) = "allow"
  BY CheckIs
<1>2. DOMAIN acc = DOMAIN Configured
  BY DEF Accesses
<1>3. c \in DOMAIN Configured /\ c \in Clients
  BY <1>1, <1>2, PermissionsAssumption
<1>4. Deciding(acc[c], w, n, o) # {}
  BY <1>1 DEF FirstDeciding
<1>5. PICK p \in Configured[c] : DecidedBy(acc[c], p, w, n, o)
  BY <1>3, <1>4, DecidingFacts
<1>6. acc[c][f] = Path(p) /\ Matches(Path(p), w, n)
  BY <1>5 DEF DecidedBy
<1>7. PICK path : path = Path(p)
  OBVIOUS
<1>8. SaysFirst(path, o, FALSE)
  <2>1. path.operations \in
          Seq([negative : BOOLEAN, operation : Operations \cup {AnyOp}])
    BY <1>3, <1>7, PathFacts
  <2>2. Verdict(path, o) = "allow"
    BY <1>1, <1>6, <1>7
  <2> QED BY <2>1, <2>2, VerdictFacts
<1>9. SaysFirst(p, o, FALSE) /\ Covers(p, w, n)
  BY <1>3, <1>6, <1>7, <1>8, PathFacts
<1> QED BY <1>1, <1>3, <1>9 DEF Granted

\* What the configuration grants and nowhere denies, the checker allows.
LEMMA GrantedIsChecked ==
  ASSUME NEW acc \in Accesses, NEW c, NEW w, NEW n \in AccountNames \cup {NoName},
         NEW o, c # NoName, w # NoName, Granted(c, w, n, o), ~Denied(c, w, n, o)
  PROVE  Check(acc, c, w, n, o)
<1>1. PICK p \in Configured[c] : Covers(p, w, n) /\ SaysFirst(p, o, FALSE)
  BY DEF Granted
<1>2. c \in DOMAIN Configured
  BY DEF Granted
<1>3. /\ DOMAIN acc = DOMAIN Configured
      /\ \E i \in 1 .. Len(acc[c]) : acc[c][i] = Path(p)
  BY <1>2, AccessFacts
<1>4. /\ Matches(Path(p), w, n) /\ SaysFirst(Path(p), o, FALSE)
      /\ Path(p).operations \in
           Seq([negative : BOOLEAN, operation : Operations \cup {AnyOp}])
  BY <1>1, <1>2, PathFacts
<1>5. Verdict(Path(p), o) # "neutral"
  <2>1. PICK path : path = Path(p)
    OBVIOUS
  <2>2. Verdict(path, o) # "neutral"
    BY <1>4, <2>1, VerdictFacts
  <2> QED BY <2>1, <2>2
<1>6. Deciding(acc[c], w, n, o) # {}
  BY <1>3, <1>4, <1>5 DEF Deciding
<1> DEFINE f == FirstDeciding(acc[c], w, n, o)
<1>7. PICK q \in Configured[c] : DecidedBy(acc[c], q, w, n, o)
  BY <1>2, <1>6, DecidingFacts
<1>10. /\ f # 0 /\ acc[c][f] = Path(q)
       /\ Matches(Path(q), w, n) /\ Verdict(Path(q), o) # "neutral"
  BY <1>7 DEF DecidedBy
<1>8. PICK path : path = Path(q)
  OBVIOUS
<1>9. Verdict(path, o) = "allow"
  <2>1. path.operations \in
          Seq([negative : BOOLEAN, operation : Operations \cup {AnyOp}])
    BY <1>2, <1>8, PathFacts
  <2>2. /\ Verdict(path, o) \in {"neutral", "allow", "deny"}
        /\ Verdict(path, o) = "deny" => SaysFirst(path, o, TRUE)
    BY <2>1, VerdictFacts
  <2>3. SaysFirst(path, o, TRUE) => SaysFirst(q, o, TRUE)
    BY <1>2, <1>8, PathFacts
  <2>4. Covers(q, w, n)
    BY <1>2, <1>10, PathFacts
  <2>5. ~SaysFirst(q, o, TRUE)
    BY <1>2, <2>4 DEF Denied
  <2> QED BY <1>8, <1>10, <2>2, <2>3, <2>5
<1> QED BY <1>2, <1>3, <1>8, <1>9, <1>10, CheckIs
-----------------------------------------------------------------------------
(***************************************************************************)
(* The inductive invariant.                                                *)
(***************************************************************************)
MayBeMade(w, n) ==
  w \in Distributed \/ \E c \in Clients : Granted(c, w, n, "Create account")

\* A path is on disk once, and every account made since the beginning was
\* allowed to be made.
DiskOK ==
  /\ diskWallets \subseteq WalletNames /\ disk \subseteq AccountRecords
  /\ \A a, b \in disk : PathOf(a) = PathOf(b) => a = b
  /\ \A a \in disk : a.wallet \in diskWallets
  /\ \A a \in disk \ InitialAccounts : MayBeMade(a.wallet, a.name)

\* A server that is down keeps nothing in memory.
ServerOK ==
  /\ up \in BOOLEAN
  /\ up => ParametersOK /\ access \in Accesses
  /\ ~up => /\ wallets = {} /\ unlocked = {}
            /\ DOMAIN walletAccounts = {} /\ DOMAIN pubKeyPaths = {}
            /\ DOMAIN rwWalletAccounts = {} /\ DOMAIN rwPubKeyPaths = {}
            /\ \A g \in Goroutines : requests[g] = Idle
  /\ wallets \subseteq diskWallets

UnlockedOK ==
  /\ unlocked \subseteq wallets
  /\ \A w \in unlocked : \E c \in Clients : Granted(c, w, NoName, "Unlock wallet")

\* A cache by name and the cache by key beside it agree with each other and
\* with the disk.
CacheOK(names, keys) ==
  /\ \A p \in DOMAIN names :
       /\ p \in Paths /\ p[1] \in wallets /\ Account(p, names[p]) \in disk
       /\ names[p] \in DOMAIN keys
  /\ \A k \in DOMAIN keys : keys[k] \in DOMAIN names /\ names[keys[k]] = k

\* Accounts on disk that the fetcher has still to be told of.
Pending(a) ==
  \E g \in Goroutines : requests[g].phase = "add" /\ a \in requests[g].found

Cached(a) == PathOf(a) \in DOMAIN walletAccounts \cup DOMAIN rwWalletAccounts

CachesOK ==
  /\ CacheOK(walletAccounts, pubKeyPaths)
  /\ CacheOK(rwWalletAccounts, rwPubKeyPaths)
  /\ DOMAIN walletAccounts \cap DOMAIN rwWalletAccounts = {}
  /\ \A a \in disk : up /\ a.wallet \in wallets /\ ~Pending(a) => Cached(a)

Phases == {"idle", "create", "add", "path", "list", "done"}

Request(R) ==
  R = [phase |-> R.phase, request |-> R.request, found |-> R.found,
       next |-> R.next, before |-> R.before]

Creating(R) ==
  LET q == R.request
  IN /\ q.kind \in {"Generate", "Commit"}
     /\ q.wallet \in diskWallets /\ MayBeMade(q.wallet, q.name)

Adding(R) ==
  \E a \in disk : R.found = {a} /\ PathOf(a) \notin DOMAIN walletAccounts

\* The path found for a key leads to an account with that key, which was
\* known when the lookup began.
Following(R) ==
  LET q == R.request
  IN /\ q.kind = "ByKey"
     /\ \E path \in Paths : /\ R.found = {path} /\ FetchAccount(path) = q.key
                            /\ Account(path, q.key) \in R.before

Asked(q, a) == IF q.kind = "ByKey" THEN a.key = q.key ELSE PathOf(a) = q.name

Operation(q) == IF q.kind = "ListAccounts" THEN "Access account" ELSE q.operation

Shown(R) ==
  \A a \in R.found : a \in disk /\ May(R.request, a, Operation(R.request))

LookedUp(R) ==
  LET q == R.request
      known == {a \in R.before : Asked(q, a)}
  IN /\ \A a \in R.found : Asked(q, a)
     /\ known # {} /\ (\A a \in known : May(q, a, q.operation)) => R.found # {}

\* The paths before the n-th one have been listed.
ListedTo(R, n) ==
  LET q == R.request
      Selected(a, m) == \E i \in 1 .. m : Selects(q.paths[i], a)
  IN /\ \A a \in R.found : Selected(a, Len(q.paths))
     /\ \A a \in R.before :
          Selected(a, n - 1) /\ May(q, a, "Access account") => a \in R.found

Listing(R) ==
  /\ R.request.kind = "ListAccounts"
  /\ R.next \in 1 .. Len(R.request.paths) + 1
  /\ ListedTo(R, R.next) /\ Shown(R)

Answer(R) ==
  /\ R.request.kind \in {"ByName", "ByKey", "ListAccounts"} /\ Shown(R)
  /\ R.request.kind \in {"ByName", "ByKey"} => LookedUp(R)
  /\ R.request.kind = "ListAccounts" => ListedTo(R, Len(R.request.paths) + 1)

RequestOK(R) ==
  /\ R.phase \in Phases
  /\ R.phase # "idle" => Request(R) /\ R.request \in Requests /\ R.before \subseteq Known
  /\ R.phase = "create" => Creating(R)
  /\ R.phase = "add" => Adding(R)
  /\ R.phase = "path" => Following(R)
  /\ R.phase = "list" => Listing(R)
  /\ R.phase = "done" => Answer(R)

RequestsOK ==
  /\ DOMAIN requests = Goroutines
  /\ \A g \in Goroutines : RequestOK(requests[g])

AccountsInv == DiskOK /\ ServerOK /\ UnlockedOK /\ CachesOK /\ RequestsOK
-----------------------------------------------------------------------------
(***************************************************************************)
(* What the fetcher finds.                                                 *)
(***************************************************************************)
LEMMA AccountFacts ==
  /\ \A p \in Paths : \A k : /\ Account(p, k).wallet = p[1]
                             /\ Account(p, k).name = p[2]
                             /\ Account(p, k).key = k
                             /\ PathOf(Account(p, k)) = p
  /\ \A a \in AccountRecords : /\ PathOf(a) \in Paths /\ PathOf(a)[1] = a.wallet
                               /\ PathOf(a)[2] = a.name
                               /\ a.key \in Keys /\ a.key # NoKey
                               /\ Account(PathOf(a), a.key) = a
  /\ NoPath \notin Paths
<1>1. ASSUME NEW p \in Paths, NEW k
      PROVE  /\ Account(p, k).wallet = p[1] /\ Account(p, k).name = p[2]
             /\ Account(p, k).key = k /\ PathOf(Account(p, k)) = p
  <2>1. p = <<p[1], p[2]>>
    BY DEF Paths
  <2> QED BY <2>1 DEF Account, PathOf
<1>2. ASSUME NEW a \in AccountRecords
      PROVE  /\ PathOf(a) \in Paths /\ PathOf(a)[1] = a.wallet
             /\ PathOf(a)[2] = a.name /\ a.key \in Keys /\ a.key # NoKey
             /\ Account(PathOf(a), a.key) = a
  BY AccountsAssumption DEF AccountRecords, PathOf, Paths, Account
<1>3. NoPath \notin Paths
  BY PermissionsAssumption DEF NoPath, Paths
<1> QED BY <1>1, <1>2, <1>3

\* Two accounts on disk with one path are one account.
LEMMA SamePath ==
  ASSUME DiskOK, NEW a \in disk, NEW p \in Paths, NEW k,
         Account(p, k) \in disk, PathOf(a) = p
  PROVE  Account(p, k) = a /\ a.key = k
BY AccountFacts DEF DiskOK

\* By name: the accounts on disk that are in one of the caches.
LEMMA FetchAccountFacts ==
  ASSUME DiskOK, CachesOK
  PROVE  /\ \A a \in disk : Cached(a) => /\ FetchAccount(PathOf(a)) = a.key
                                         /\ a.wallet \in wallets
         /\ \A p : FetchAccount(p) # NoKey =>
              /\ p \in Paths /\ Account(p, FetchAccount(p)) \in disk
              /\ Cached(Account(p, FetchAccount(p)))
<1>1. ASSUME NEW a \in disk, Cached(a)
      PROVE  FetchAccount(PathOf(a)) = a.key /\ a.wallet \in wallets
  <2>1. a \in AccountRecords
    BY DEF DiskOK
  <2>2. PICK p \in Paths : p = PathOf(a) /\ p[1] = a.wallet
    BY <2>1, AccountFacts
  <2>3. CASE p \in DOMAIN walletAccounts
    <3>1. p[1] \in wallets /\ Account(p, walletAccounts[p]) \in disk
      BY <2>3 DEF CachesOK, CacheOK
    <3>2. a.key = walletAccounts[p]
      BY <2>2, <3>1, SamePath
    <3> QED BY <2>2, <2>3, <3>1, <3>2 DEF FetchAccount
  <2>4. CASE p \in DOMAIN rwWalletAccounts
    <3>1. /\ p[1] \in wallets /\ Account(p, rwWalletAccounts[p]) \in disk
          /\ p \notin DOMAIN walletAccounts
      BY <2>4 DEF CachesOK, CacheOK
    <3>2. a.key = rwWalletAccounts[p]
      BY <2>2, <3>1, SamePath
    <3> QED BY <2>2, <2>4, <3>1, <3>2 DEF FetchAccount
  <2> QED BY <1>1, <2>2, <2>3, <2>4 DEF Cached
<1>2. ASSUME NEW p, FetchAccount(p) # NoKey
      PROVE  /\ p \in Paths /\ Account(p, FetchAccount(p)) \in disk
             /\ Cached(Account(p, FetchAccount(p)))
  <2>1. CASE p \in DOMAIN walletAccounts
    <3>1. FetchAccount(p) = walletAccounts[p]
      BY <1>2, <2>1 DEF FetchAccount
    <3>2. p \in Paths /\ Account(p, walletAccounts[p]) \in disk
      BY <2>1 DEF CachesOK, CacheOK
    <3> QED BY <2>1, <3>1, <3>2, AccountFacts DEF Cached
  <2>2. CASE p \notin DOMAIN walletAccounts
    <3>1. p \in DOMAIN rwWalletAccounts /\ FetchAccount(p) = rwWalletAccounts[p]
      BY <1>2, <2>2 DEF FetchAccount
    <3>2. p \in Paths /\ Account(p, rwWalletAccounts[p]) \in disk
      BY <3>1 DEF CachesOK, CacheOK
    <3> QED BY <3>1, <3>2, AccountFacts DEF Cached
  <2> QED BY <2>1, <2>2
<1> QED BY <1>1, <1>2

\* What the fetcher knows is what is both on disk and in a cache.
LEMMA KnownFacts ==
  ASSUME DiskOK, CachesOK
  PROVE  Known = {a \in disk : Cached(a)}
<1>1. ASSUME NEW a \in Known
      PROVE  a \in disk /\ Cached(a)
  <2>1. PICK p \in DOMAIN rwWalletAccounts \cup DOMAIN walletAccounts :
          a = Account(p, IF p \in DOMAIN rwWalletAccounts
                         THEN rwWalletAccounts[p] ELSE walletAccounts[p])
    BY DEF Known, Over
  <2>2. p \in Paths /\ a \in disk
    BY <2>1 DEF CachesOK, CacheOK
  <2>3. PathOf(a) = p
    BY <2>1, <2>2, AccountFacts
  <2> QED BY <2>1, <2>2, <2>3 DEF Cached
<1>2. ASSUME NEW a \in disk, Cached(a)
      PROVE  a \in Known
  <2>1. a \in AccountRecords
    BY DEF DiskOK
  <2>2. PICK p \in Paths : p = PathOf(a) /\ Account(p, a.key) = a
    BY <2>1, AccountFacts
  <2> DEFINE both == Over(rwWalletAccounts, walletAccounts)
  <2>3. p \in DOMAIN both /\ Account(p, both[p]) \in disk
    BY <1>2, <2>2 DEF Over, Cached, CachesOK, CacheOK
  <2>4. PICK k : k = both[p]
    OBVIOUS
  <2>5. Account(p, k) = a
    <3> HIDE DEF both
    <3> QED BY <2>2, <2>3, <2>4, SamePath
  <2> QED BY <2>3, <2>4, <2>5 DEF Known
<1> QED BY <1>1, <1>2

\* By key: some account with that key.
LEMMA FetchPathFacts ==
  ASSUME DiskOK, CachesOK
  PROVE  /\ \A k : FetchPath(k) # NoPath =>
              FetchPath(k) \in Paths /\ FetchAccount(FetchPath(k)) = k
         /\ \A a \in Known : FetchPath(a.key) # NoPath
<1>1. ASSUME NEW k \in DOMAIN pubKeyPaths \cup DOMAIN rwPubKeyPaths
      PROVE  FetchPath(k) \in Paths /\ FetchAccount(FetchPath(k)) = k
  <2>1. CASE k \in DOMAIN pubKeyPaths
    <3>1. PICK p : p = pubKeyPaths[k]
      OBVIOUS
    <3>2. /\ p \in DOMAIN walletAccounts /\ walletAccounts[p] = k
          /\ p \in Paths /\ p[1] \in wallets
      BY <2>1, <3>1 DEF CachesOK, CacheOK
    <3>3. FetchPath(k) = p
      BY <2>1, <3>1 DEF FetchPath
    <3>4. FetchAccount(p) = k
      BY <3>2 DEF FetchAccount
    <3> QED BY <3>2, <3>3, <3>4
  <2>2. CASE k \notin DOMAIN pubKeyPaths
    <3>1. PICK p : p = rwPubKeyPaths[k]
      OBVIOUS
    <3>2. /\ p \in DOMAIN rwWalletAccounts /\ rwWalletAccounts[p] = k
          /\ p \in Paths /\ p[1] \in wallets /\ p \notin DOMAIN walletAccounts
      BY <2>2, <3>1 DEF CachesOK, CacheOK
    <3>3. FetchPath(k) = p
      BY <2>2, <3>1 DEF FetchPath
    <3>4. FetchAccount(p) = k
      BY <3>2 DEF FetchAccount
    <3> QED BY <3>2, <3>3, <3>4
  <2> QED BY <2>1, <2>2
<1>2. \A k : k \notin DOMAIN pubKeyPaths \cup DOMAIN rwPubKeyPaths =>
               FetchPath(k) = NoPath
  BY DEF FetchPath
<1>3. ASSUME NEW a \in Known
      PROVE  a.key \in DOMAIN pubKeyPaths \cup DOMAIN rwPubKeyPaths
  <2>1. a \in disk /\ Cached(a)
    BY KnownFacts
  <2>2. PICK p \in Paths : p = PathOf(a)
    BY <2>1, AccountFacts DEF DiskOK
  <2>3. CASE p \in DOMAIN walletAccounts
    <3>1. Account(p, walletAccounts[p]) \in disk /\ walletAccounts[p] \in DOMAIN pubKeyPaths
      BY <2>3 DEF CachesOK, CacheOK
    <3>2. a.key = walletAccounts[p]
      BY <2>1, <2>2, <3>1, SamePath
    <3> QED BY <3>1, <3>2
  <2>4. CASE p \in DOMAIN rwWalletAccounts
    <3>1. /\ Account(p, rwWalletAccounts[p]) \in disk
          /\ rwWalletAccounts[p] \in DOMAIN rwPubKeyPaths
      BY <2>4 DEF CachesOK, CacheOK
    <3>2. a.key = rwWalletAccounts[p]
      BY <2>1, <2>2, <3>1, SamePath
    <3> QED BY <3>1, <3>2
  <2> QED BY <2>1, <2>2, <2>3, <2>4 DEF Cached
<1> QED BY <1>1, <1>2, <1>3, AccountFacts
-----------------------------------------------------------------------------
(***************************************************************************)
(* A step of a running server leaves the other requests as they should be: *)
(* nothing that they have seen goes away.                                  *)
(***************************************************************************)
Steady ==
  /\ disk \subseteq disk' /\ diskWallets \subseteq diskWallets'
  /\ access' = access /\ walletAccounts' = walletAccounts
  /\ \A p : FetchAccount(p) # NoKey => FetchAccount(p)' = FetchAccount(p)
  /\ Known \subseteq Known'

LEMMA RequestKept ==
  ASSUME AccountsInv, Steady, NEW R, RequestOK(R)
  PROVE  RequestOK(R)'
<1>1. /\ R.phase \in Phases
      /\ R.phase # "idle" => /\ Request(R) /\ R.request \in Requests
                             /\ R.before \subseteq Known'
  BY DEF RequestOK, Steady
<1>2. ASSUME R.phase = "create" PROVE Creating(R)'
  BY <1>2 DEF RequestOK, Creating, Steady
<1>3. ASSUME R.phase = "add" PROVE Adding(R)'
  BY <1>3 DEF RequestOK, Adding, Steady
<1>4. ASSUME R.phase = "path" PROVE Following(R)'
  <2>1. PICK path \in Paths : /\ R.request.kind = "ByKey"
                              /\ R.found = {path} /\ FetchAccount(path) = R.request.key
                              /\ Account(path, R.request.key) \in R.before
    BY <1>4 DEF RequestOK, Following
  <2>2. R.request.key # NoKey
    <3>1. R.request \in Requests
      BY <1>4 DEF RequestOK
    <3>2. R.request.key \in Keys
      BY <2>1, <3>1, AccountsAssumption DEF IsRequest
    <3> QED BY <3>2, AccountsAssumption
  <2>3. FetchAccount(path)' = R.request.key
    BY <2>1, <2>2 DEF Steady
  <2> QED BY <2>1, <2>3 DEF Following
<1>5. Shown(R) => Shown(R)'
  BY DEF Shown, May, Steady
<1>6. LookedUp(R) => LookedUp(R)'
  BY DEF LookedUp, May, Steady
<1>7. \A n : ListedTo(R, n) => ListedTo(R, n)'
  BY DEF ListedTo, May, Steady
<1>8. ASSUME R.phase = "list" PROVE Listing(R)'
  BY <1>5, <1>7, <1>8 DEF RequestOK, Listing
<1>9. ASSUME R.phase = "done" PROVE Answer(R)'
  BY <1>5, <1>6, <1>7, <1>9 DEF RequestOK, Answer
<1> QED BY <1>1, <1>2, <1>3, <1>4, <1>8, <1>9 DEF RequestOK

\* Goroutine g goes on to R.
GoesTo(g, R) == requests' = [requests EXCEPT ![g] = R]

Busy(R) == R.phase = "add"

LEMMA RequestsStep ==
  ASSUME AccountsInv, Steady, NEW g \in Goroutines, NEW R,
         RequestOK(R)', GoesTo(g, R)
  PROVE  RequestsOK'
<1>1. DOMAIN requests = Goroutines /\ \A h \in Goroutines : RequestOK(requests[h])
  BY DEF AccountsInv, RequestsOK
<1>2. /\ DOMAIN requests' = Goroutines /\ requests'[g] = R
      /\ \A h \in Goroutines \ {g} : requests'[h] = requests[h]
  BY <1>1 DEF GoesTo
<1>3. ASSUME NEW h \in Goroutines PROVE RequestOK(requests[h])'
  <2>1. CASE h = g
    BY <1>2, <2>1
  <2>2. CASE h # g
    <3>1. PICK S : S = requests[h]
      OBVIOUS
    <3>2. RequestOK(S)'
      BY <1>1, <3>1, RequestKept
    <3> QED BY <1>2, <2>2, <3>1, <3>2
  <2> QED BY <2>1, <2>2
<1> QED BY <1>2, <1>3 DEF RequestsOK

\* A step that writes nothing but its own request, and perhaps `unlocked`.
LEMMA QuietStep ==
  ASSUME AccountsInv, up, UnlockedOK', UNCHANGED <<onDisk, server, caches>>,
         NEW g \in Goroutines, ~Busy(requests[g]),
         NEW R, RequestOK(R), ~Busy(R), GoesTo(g, R)
  PROVE  AccountsInv'
<1>1. /\ UNCHANGED <<diskWallets, disk, up, access, wallets>>
      /\ UNCHANGED <<walletAccounts, pubKeyPaths, rwWalletAccounts, rwPubKeyPaths>>
  BY DEF onDisk, server, caches
<1>2. Steady
  BY <1>1 DEF Steady, Known, FetchAccount
<1>3. RequestOK(R)'
  BY <1>2, RequestKept
<1>4. RequestsOK'
  BY <1>2, <1>3, RequestsStep
<1>5. DiskOK'
  BY <1>1 DEF AccountsInv, DiskOK
<1>6. ServerOK'
  BY <1>1 DEF AccountsInv, ServerOK
<1>7. CachesOK'
  <2>1. ASSUME NEW h \in Goroutines
        PROVE  /\ Busy(requests[h]) <=> Busy(requests[h])'
               /\ Busy(requests[h]) => requests'[h] = requests[h]
    <3>1. DOMAIN requests = Goroutines
      BY DEF AccountsInv, RequestsOK
    <3>2. requests'[g] = R /\ \A i \in Goroutines \ {g} : requests'[i] = requests[i]
      BY <3>1 DEF GoesTo
    <3> QED BY <3>2 DEF Busy
  <2>2. \A a : Pending(a)' <=> Pending(a)
    BY <2>1 DEF Pending, Busy
  <2> QED BY <1>1, <2>2 DEF AccountsInv, CachesOK, CacheOK, Cached
<1> QED BY <1>4, <1>5, <1>6, <1>7 DEF AccountsInv
-----------------------------------------------------------------------------
(***************************************************************************)
(* One request, record by record.                                          *)
(***************************************************************************)
Record(phase, q, found, next, before) ==
  [phase |-> phase, request |-> q, found |-> found, next |-> next,
   before |-> before]

LEMMA RecordFacts ==
  ASSUME NEW phase, NEW q, NEW found, NEW next, NEW before,
         NEW R, R = Record(phase, q, found, next, before)
  PROVE  /\ R.phase = phase /\ R.request = q /\ R.found = found
         /\ R.next = next /\ R.before = before /\ Request(R)
BY DEF Record, Request

Free(g) == requests[g].phase \in {"idle", "done"}

LEMMA BecomesFacts ==
  ASSUME AccountsInv, NEW g \in Goroutines, NEW phase, NEW q, NEW found,
         Becomes(g, phase, q, found)
  PROVE  /\ Free(g) => GoesTo(g, Record(phase, q, found, 1, Known))
         /\ ~Free(g) => GoesTo(g, Record(phase, q, found, 1, requests[g].before))
<1>1. g \in DOMAIN requests
  BY DEF AccountsInv, RequestsOK
<1> QED BY <1>1 DEF Becomes, Free, GoesTo, Record

LEMMA IdleIsOK == RequestOK(Idle) /\ ~Busy(Idle)
BY DEF RequestOK, Idle, Busy, Phases

LEMMA BeginsFacts ==
  ASSUME NEW g, NEW q, Begins(g, q)
  PROVE  up /\ q \in Requests /\ Free(g) /\ ~Busy(requests[g])
BY DEF Begins, Free, Busy

LEMMA QuietFacts ==
  ASSUME Quiet, AccountsInv
  PROVE  UNCHANGED <<onDisk, server, caches>> /\ UnlockedOK'
BY DEF Quiet, AccountsInv, UnlockedOK, server

\* A request that is refused, or a lock or an unlock, leaves nothing behind.
LEMMA EndedStep ==
  ASSUME AccountsInv, up, UnlockedOK', UNCHANGED <<onDisk, server, caches>>,
         NEW g \in Goroutines, ~Busy(requests[g]), Ended(g)
  PROVE  AccountsInv'
<1>1. PICK R : R = Idle
  OBVIOUS
<1>2. RequestOK(R) /\ ~Busy(R) /\ GoesTo(g, R)
  BY <1>1, IdleIsOK DEF Ended, GoesTo
<1> QED BY <1>2, QuietStep

\* A request that goes on.
LEMMA BecomesStep ==
  ASSUME AccountsInv, up, Quiet, NEW g \in Goroutines, ~Busy(requests[g]),
         NEW phase, phase # "add", NEW q, NEW found,
         NEW before, before = (IF Free(g) THEN Known ELSE requests[g].before),
         RequestOK(Record(phase, q, found, 1, before)),
         Becomes(g, phase, q, found)
  PROVE  AccountsInv'
<1>1. GoesTo(g, Record(phase, q, found, 1, before))
  BY BecomesFacts
<1>2. PICK R : R = Record(phase, q, found, 1, before)
  OBVIOUS
<1>3. ~Busy(R)
  BY <1>2, RecordFacts DEF Busy
<1>4. RequestOK(R) /\ GoesTo(g, R)
  BY <1>1, <1>2
<1>5. UNCHANGED <<onDisk, server, caches>> /\ UnlockedOK'
  BY QuietFacts
<1> QED BY <1>3, <1>4, <1>5, QuietStep
-----------------------------------------------------------------------------
(***************************************************************************)
(* The beginning of a creation.                                            *)
(***************************************************************************)
LEMMA CreateRecord ==
  ASSUME NEW q \in Requests, q.kind \in {"Generate", "Commit"},
         q.wallet \in diskWallets, MayBeMade(q.wallet, q.name),
         NEW before \in SUBSET Known
  PROVE  RequestOK(Record("create", q, {}, 1, before))
<1>1. PICK R : R = Record("create", q, {}, 1, before)
  OBVIOUS
<1>2. R.phase = "create" /\ R.request = q /\ R.before = before /\ Request(R)
  BY <1>1, RecordFacts
<1>3. Creating(R)
  BY <1>2 DEF Creating
<1> QED BY <1>1, <1>2, <1>3 DEF RequestOK, Phases

LEMMA OnGenerateStep ==
  ASSUME AccountsInv, NEW g \in Goroutines, OnGenerate(g)
  PROVE  AccountsInv'
<1>1. PICK q \in Requests :
        /\ Begins(g, q) /\ q.kind = "Generate"
        /\ \/ MayGenerate(q) /\ Becomes(g, "create", q, {})
           \/ ~MayGenerate(q) /\ Ended(g)
  BY DEF OnGenerate
<1>2. up /\ Free(g) /\ ~Busy(requests[g])
  BY <1>1, BeginsFacts
<1>3. Quiet
  BY DEF OnGenerate
<1>4. UNCHANGED <<onDisk, server, caches>> /\ UnlockedOK'
  BY <1>3, QuietFacts
<1>5. CASE Ended(g)
  BY <1>2, <1>4, <1>5, EndedStep
<1>6. CASE MayGenerate(q) /\ Becomes(g, "create", q, {})
  <2>1. q.wallet \in diskWallets
    BY <1>6 DEF MayGenerate, CanOpen
  <2>2. MayBeMade(q.wallet, q.name)
    <3>1. Check(access, q.client, q.wallet, q.name, "Create account")
      BY <1>6 DEF MayGenerate
    <3>2. PICK acc \in Accesses : acc = access
      BY <1>2 DEF AccountsInv, ServerOK
    <3>3. Granted(q.client, q.wallet, q.name, "Create account") /\ q.client \in Clients
      BY <3>1, <3>2, CheckIsGranted
    <3> QED BY <3>3 DEF MayBeMade
  <2>3. PICK before \in SUBSET Known : before = Known
    OBVIOUS
  <2>4. RequestOK(Record("create", q, {}, 1, before))
    BY <1>1, <2>1, <2>2, CreateRecord
  <2> QED BY <1>2, <1>3, <1>6, <2>3, <2>4, BecomesStep
<1> QED BY <1>1, <1>5, <1>6

LEMMA OnCommitStep ==
  ASSUME AccountsInv, NEW g \in Goroutines, OnCommit(g)
  PROVE  AccountsInv'
<1>1. PICK q \in Requests :
        /\ Begins(g, q) /\ q.kind = "Commit"
        /\ \/ MayCommit(q) /\ Becomes(g, "create", q, {})
           \/ ~MayCommit(q) /\ Ended(g)
  BY DEF OnCommit
<1>2. up /\ Free(g) /\ ~Busy(requests[g])
  BY <1>1, BeginsFacts
<1>3. Quiet
  BY DEF OnCommit
<1>4. UNCHANGED <<onDisk, server, caches>> /\ UnlockedOK'
  BY <1>3, QuietFacts
<1>5. CASE Ended(g)
  BY <1>2, <1>4, <1>5, EndedStep
<1>6. CASE MayCommit(q) /\ Becomes(g, "create", q, {})
  <2>1. q.wallet \in diskWallets /\ MayBeMade(q.wallet, q.name)
    BY <1>6 DEF MayCommit, CanOpen, MayBeMade
  <2>3. PICK before \in SUBSET Known : before = Known
    OBVIOUS
  <2>4. RequestOK(Record("create", q, {}, 1, before))
    BY <1>1, <2>1, CreateRecord
  <2> QED BY <1>2, <1>3, <1>6, <2>3, <2>4, BecomesStep
<1> QED BY <1>1, <1>5, <1>6
-----------------------------------------------------------------------------
(***************************************************************************)
(* Looking up.                                                             *)
(***************************************************************************)
Allowed(q, path) == Check(access, q.client, path[1], path[2], q.operation)

FoundAt(q, path) ==
  IF FetchAccount(path) # NoKey /\ Allowed(q, path)
  THEN {Account(path, FetchAccount(path))} ELSE {}

LEMMA LookupRecord ==
  ASSUME AccountsInv, NEW q \in Requests, q.kind \in {"ByName", "ByKey"},
         NEW path \in Paths, NEW before \in SUBSET Known,
         q.kind = "ByName" => path = q.name,
         q.kind = "ByKey" => /\ FetchAccount(path) = q.key
                             /\ Account(path, q.key) \in before,
         NEW found, found = FoundAt(q, path)
  PROVE  RequestOK(Record("done", q, found, 1, before))
<1>1. PICK R : R = Record("done", q, found, 1, before)
  OBVIOUS
<1>2. /\ R.phase = "done" /\ R.request = q /\ R.before = before
      /\ R.found = found /\ Request(R)
  BY <1>1, RecordFacts
<1>3. PICK k : k = FetchAccount(path)
  OBVIOUS
<1>4. DiskOK /\ CachesOK
  BY DEF AccountsInv
<1>5. \A a \in found : a = Account(path, k) /\ k # NoKey /\ Allowed(q, path)
  BY <1>3 DEF FoundAt
<1>6. k # NoKey => Account(path, k) \in disk
  BY <1>3, <1>4, FetchAccountFacts
<1>7. \A a : a.wallet = path[1] /\ a.name = path[2] =>
               (May(q, a, q.operation) <=> Allowed(q, path))
  BY DEF May, Allowed
<1>8. Shown(R)
  <2>1. Operation(q) = q.operation
    BY DEF Operation
  <2> QED BY <1>2, <1>5, <1>6, <1>7, <2>1, AccountFacts DEF Shown
<1>9. \A a \in found : Asked(q, a)
  BY <1>3, <1>5, AccountFacts DEF Asked
<1>10. ASSUME NEW b \in before, Asked(q, b),
              \A a \in before : Asked(q, a) => May(q, a, q.operation)
       PROVE  found # {}
  <2>1. PICK a \in before : /\ Asked(q, a) /\ a.wallet = path[1] /\ a.name = path[2]
                            /\ k # NoKey
    <3>1. CASE q.kind = "ByKey"
      <4>1. q.key # NoKey
        BY <3>1, AccountsAssumption DEF IsRequest
      <4> QED BY <1>3, <3>1, <4>1, AccountFacts DEF Asked
    <3>2. CASE q.kind = "ByName"
      <4>1. b \in disk /\ Cached(b) /\ PathOf(b) = path
        BY <1>4, <1>10, <3>2, KnownFacts DEF Asked
      <4>2. b \in AccountRecords
        BY <1>4, <4>1 DEF DiskOK
      <4>3. FetchAccount(path) = b.key
        BY <1>4, <4>1, FetchAccountFacts
      <4> QED BY <1>3, <1>10, <4>1, <4>2, <4>3, AccountFacts
    <3> QED BY <3>1, <3>2
  <2>2. Allowed(q, path)
    BY <1>7, <1>10, <2>1
  <2> QED BY <1>3, <2>1, <2>2 DEF FoundAt
<1>11. LookedUp(R)
  BY <1>2, <1>9, <1>10 DEF LookedUp
<1>12. Answer(R)
  BY <1>2, <1>8, <1>11 DEF Answer
<1>13. RequestOK(R)
  BY <1>2, <1>12 DEF RequestOK, Phases
<1> QED BY <1>1, <1>13

LEMMA PreCheckFacts ==
  ASSUME NEW g, NEW q, NEW path, NEW found, found = FoundAt(q, path),
         PreCheck(g, q, path)
  PROVE  Becomes(g, "done", q, found)
BY DEF PreCheck, Done, FoundAt, Allowed

LEMMA ByNameStep ==
  ASSUME AccountsInv, NEW g \in Goroutines, ByName(g)
  PROVE  AccountsInv'
<1>1. PICK q \in Requests : Begins(g, q) /\ q.kind = "ByName" /\ PreCheck(g, q, q.name)
  BY DEF ByName
<1>2. up /\ Free(g) /\ ~Busy(requests[g]) /\ Quiet
  BY <1>1, BeginsFacts DEF ByName
<1>3. PICK path \in Paths : path = q.name
  BY <1>1, AccountsAssumption DEF IsRequest, Paths
<1>4. PICK found : found = FoundAt(q, path)
  OBVIOUS
<1>5. Becomes(g, "done", q, found)
  <2>1. PreCheck(g, q, path)
    BY <1>1, <1>3
  <2> QED BY <1>4, <2>1, PreCheckFacts
<1>6. PICK before \in SUBSET Known : before = Known
  OBVIOUS
<1>7. RequestOK(Record("done", q, found, 1, before))
  BY <1>1, <1>3, <1>4, LookupRecord
<1> QED BY <1>2, <1>5, <1>6, <1>7, BecomesStep

\* A request in the middle of its steps.
LEMMA MiddleFacts ==
  ASSUME AccountsInv, NEW g \in Goroutines, NEW phase \in Phases \ {"idle"},
         requests[g].phase = phase
  PROVE  /\ up /\ RequestOK(requests[g]) /\ requests[g].request \in Requests
         /\ requests[g].before \subseteq Known /\ Request(requests[g])
         /\ phase # "done" => ~Free(g)
         /\ phase # "add" => ~Busy(requests[g])
<1>1. up
  BY DEF AccountsInv, ServerOK, Idle
<1>2. RequestOK(requests[g])
  BY DEF AccountsInv, RequestsOK
<1> QED BY <1>1, <1>2 DEF RequestOK, Free, Busy

LEMMA ByKeyStep ==
  ASSUME AccountsInv, NEW g \in Goroutines, ByKey(g)
  PROVE  AccountsInv'
<1>1. requests[g].phase = "path" /\ Quiet
  BY DEF ByKey
<1>2. /\ up /\ ~Busy(requests[g]) /\ ~Free(g) /\ RequestOK(requests[g])
      /\ requests[g].request \in Requests /\ requests[g].before \subseteq Known
  BY <1>1, MiddleFacts DEF Phases
<1>3. PICK q \in Requests : q = requests[g].request
  BY <1>2
<1>4. PICK before \in SUBSET Known : before = requests[g].before
  BY <1>2
<1>5. PICK path \in Paths :
        /\ requests[g].found = {path} /\ q.kind = "ByKey"
        /\ FetchAccount(path) = q.key /\ Account(path, q.key) \in before
  BY <1>1, <1>2, <1>3, <1>4 DEF RequestOK, Following
<1>6. PICK found : found = FoundAt(q, path)
  OBVIOUS
<1>7. Becomes(g, "done", q, found)
  <2>1. PreCheck(g, q, path)
    BY <1>3, <1>5 DEF ByKey
  <2> QED BY <1>6, <2>1, PreCheckFacts
<1>8. RequestOK(Record("done", q, found, 1, before))
  BY <1>5, <1>6, LookupRecord
<1> QED BY <1>1, <1>2, <1>4, <1>7, <1>8, BecomesStep

LEMMA FetchAccountByKeyStep ==
  ASSUME AccountsInv, NEW g \in Goroutines, FetchAccountByKey(g)
  PROVE  AccountsInv'
<1>1. PICK q \in Requests :
        /\ Begins(g, q) /\ q.kind = "ByKey"
        /\ \/ FetchPath(q.key) = NoPath /\ Done(g, q, {})
           \/ FetchPath(q.key) # NoPath /\ Becomes(g, "path", q, {FetchPath(q.key)})
  BY DEF FetchAccountByKey
<1>2. up /\ Free(g) /\ ~Busy(requests[g]) /\ Quiet
  BY <1>1, BeginsFacts DEF FetchAccountByKey
<1>3. DiskOK /\ CachesOK
  BY DEF AccountsInv
<1>4. PICK before \in SUBSET Known : before = Known
  OBVIOUS
<1>5. PICK path : path = FetchPath(q.key)
  OBVIOUS
<1>6. CASE path = NoPath
  <2>1. Becomes(g, "done", q, {})
    BY <1>1, <1>5, <1>6 DEF Done
  <2>2. PICK R : R = Record("done", q, {}, 1, before)
    OBVIOUS
  <2>3. /\ R.phase = "done" /\ R.request = q /\ R.before = before
        /\ R.found = {} /\ Request(R)
    BY <2>2, RecordFacts
  <2>4. \A a \in before : ~Asked(q, a)
    BY <1>1, <1>3, <1>5, <1>6, FetchPathFacts DEF Asked
  <2>5. Answer(R)
    BY <1>1, <2>3, <2>4 DEF Answer, Shown, LookedUp
  <2>6. RequestOK(R)
    BY <2>3, <2>5 DEF RequestOK, Phases
  <2> QED BY <1>2, <1>4, <2>1, <2>2, <2>6, BecomesStep
<1>7. CASE path # NoPath
  <2>1. Becomes(g, "path", q, {path})
    BY <1>1, <1>5, <1>7
  <2>2. PICK R : R = Record("path", q, {path}, 1, before)
    OBVIOUS
  <2>3. /\ R.phase = "path" /\ R.request = q /\ R.before = before
        /\ R.found = {path} /\ Request(R)
    BY <2>2, RecordFacts
  <2>4. path \in Paths /\ FetchAccount(path) = q.key
    BY <1>3, <1>5, <1>7, FetchPathFacts
  <2>5. q.key # NoKey
    BY <1>1, AccountsAssumption DEF IsRequest
  <2>6. Account(path, q.key) \in Known
    BY <1>3, <2>4, <2>5, FetchAccountFacts, KnownFacts
  <2>7. Following(R)
    BY <1>1, <1>4, <2>3, <2>4, <2>6 DEF Following
  <2>8. RequestOK(R)
    BY <2>3, <2>7 DEF RequestOK, Phases
  <2> QED BY <1>2, <1>4, <2>1, <2>2, <2>8, BecomesStep
<1> QED BY <1>6, <1>7
-----------------------------------------------------------------------------
(***************************************************************************)
(* Listing.                                                                *)
(***************************************************************************)
LEMMA PathsFacts ==
  ASSUME NEW q \in Requests, q.kind = "ListAccounts"
  PROVE  Len(q.paths) \in Nat /\ DOMAIN q.paths = 1 .. Len(q.paths)
<1>1. q.paths \in Seq([wallet : WalletNames \cup {NoName},
                       accounts : SUBSET (AccountNames \cup {NoName})])
  BY AccountsAssumption DEF IsRequest
<1>2. PICK S : S = [wallet : WalletNames \cup {NoName},
                    accounts : SUBSET (AccountNames \cup {NoName})]
  OBVIOUS
<1> QED BY <1>1, <1>2

LEMMA ListAccountsStep ==
  ASSUME AccountsInv, NEW g \in Goroutines, ListAccounts(g)
  PROVE  AccountsInv'
<1>1. PICK q \in Requests : /\ Begins(g, q) /\ q.kind = "ListAccounts"
                            /\ Becomes(g, "list", q, {})
  BY DEF ListAccounts
<1>2. up /\ Free(g) /\ ~Busy(requests[g]) /\ Quiet
  BY <1>1, BeginsFacts DEF ListAccounts
<1>3. PICK before \in SUBSET Known : before = Known
  OBVIOUS
<1>4. PICK R : R = Record("list", q, {}, 1, before)
  OBVIOUS
<1>5. /\ R.phase = "list" /\ R.request = q /\ R.before = before
      /\ R.found = {} /\ R.next = 1 /\ Request(R)
  BY <1>4, RecordFacts
<1>6. Len(q.paths) \in Nat
  BY <1>1, PathsFacts
<1>7. Listing(R)
  <2>1. ListedTo(R, 1)
    BY <1>5 DEF ListedTo
  <2>2. Shown(R)
    BY <1>5 DEF Shown
  <2> QED BY <1>1, <1>5, <1>6, <2>1, <2>2 DEF Listing
<1>8. RequestOK(R)
  BY <1>5, <1>7 DEF RequestOK, Phases
<1> QED BY <1>1, <1>2, <1>3, <1>4, <1>8, BecomesStep

\* The accounts that one more path selects.
LEMMA ListedFacts ==
  ASSUME DiskOK, CachesOK, NEW q, NEW path, NEW a
  PROVE  /\ a \in Listed(q.client, path) =>
              a \in disk /\ Selects(path, a) /\ May(q, a, "Access account")
         /\ a \in Known /\ Selects(path, a) /\ May(q, a, "Access account") =>
              a \in Listed(q.client, path)
<1>1. a \in Known => a \in disk /\ a.wallet \in wallets
  BY KnownFacts, FetchAccountFacts
<1> QED BY <1>1 DEF Listed, FetchAccounts, Selects, May

LEMMA ListPathStep ==
  ASSUME AccountsInv, NEW g \in Goroutines, ListPath(g)
  PROVE  AccountsInv'
<1>1. requests[g].phase = "list" /\ Quiet
  BY DEF ListPath
<1>2. /\ up /\ ~Busy(requests[g]) /\ ~Free(g) /\ RequestOK(requests[g])
      /\ Request(requests[g])
      /\ requests[g].request \in Requests /\ requests[g].before \subseteq Known
  BY <1>1, MiddleFacts DEF Phases
<1>3. PICK R : R = requests[g]
  OBVIOUS
<1>4. PICK q \in Requests : q = R.request
  BY <1>2, <1>3
<1>5. PICK before \in SUBSET Known : before = R.before
  BY <1>2, <1>3
<1>6. PICK i : i = R.next
  OBVIOUS
<1>7. /\ q.kind = "ListAccounts" /\ i \in 1 .. Len(q.paths) + 1
      /\ ListedTo(R, i) /\ Shown(R)
  BY <1>1, <1>2, <1>3, <1>4, <1>6 DEF RequestOK, Listing
<1>8. Len(q.paths) \in Nat
  BY <1>7, PathsFacts
<1>9. DiskOK /\ CachesOK
  BY DEF AccountsInv
<1>10. CASE i > Len(q.paths)
  <2>1. Becomes(g, "done", q, R.found)
    BY <1>3, <1>4, <1>6, <1>8, <1>7, <1>10 DEF ListPath, Done
  <2>2. PICK S : S = Record("done", q, R.found, 1, before)
    OBVIOUS
  <2>3. /\ S.phase = "done" /\ S.request = q /\ S.before = before
        /\ S.found = R.found /\ Request(S)
    BY <2>2, RecordFacts
  <2>4. i = Len(q.paths) + 1
    BY <1>7, <1>8, <1>10
  <2>5. ListedTo(S, Len(q.paths) + 1)
    BY <1>4, <1>5, <1>7, <2>3, <2>4 DEF ListedTo
  <2>6. Shown(S)
    BY <1>4, <1>7, <2>3 DEF Shown
  <2>7. Answer(S)
    BY <1>7, <2>3, <2>5, <2>6 DEF Answer
  <2>8. RequestOK(S)
    BY <2>3, <2>7 DEF RequestOK, Phases
  <2>9. PICK found : found = R.found
    OBVIOUS
  <2>10. Becomes(g, "done", q, found) /\ RequestOK(Record("done", q, found, 1, before))
    BY <2>1, <2>2, <2>8, <2>9
  <2> QED BY <1>1, <1>2, <1>3, <1>5, <2>10, BecomesStep
<1>11. CASE i <= Len(q.paths)
  <2>1. PICK found : found = R.found \cup Listed(q.client, q.paths[i])
    OBVIOUS
  <2>2. PICK S : S = Record("list", q, found, i + 1, before)
    OBVIOUS
  <2>3. /\ S.phase = "list" /\ S.request = q /\ S.before = before
        /\ S.found = found /\ S.next = i + 1 /\ Request(S)
    BY <2>2, RecordFacts
  <2>4. GoesTo(g, S)
    <3>1. requests' = [requests EXCEPT ![g].next = i + 1,
             ![g].found = @ \cup Listed(q.client, q.paths[i])]
      BY <1>3, <1>4, <1>6, <1>7, <1>8, <1>11 DEF ListPath
    <3>2. g \in DOMAIN requests
      BY DEF AccountsInv, RequestsOK
    <3>3. R = Record("list", q, R.found, i, before)
      BY <1>1, <1>2, <1>3, <1>4, <1>5, <1>6 DEF Request, Record
    <3>4. PICK old, more, m : /\ old = R.found /\ m = i + 1
                              /\ more = Listed(q.client, q.paths[i])
      OBVIOUS
    <3>5. PICK T : T = [R EXCEPT !.next = m]
      OBVIOUS
    <3>6. T = Record("list", q, old, m, before)
      BY <3>3, <3>4, <3>5 DEF Record
    <3>7. S = [T EXCEPT !.found = @ \cup more]
      BY <2>1, <2>2, <3>4, <3>6 DEF Record
    <3> QED BY <1>3, <3>1, <3>2, <3>4, <3>5, <3>7 DEF GoesTo
  <2>5. Shown(S)
    <3>1. Operation(q) = "Access account"
      BY <1>7 DEF Operation
    <3> QED BY <1>4, <1>7, <1>9, <2>1, <2>3, <3>1, ListedFacts DEF Shown
  <2>6. ListedTo(S, i + 1)
    <3> DEFINE Selected(a, m) == \E j \in 1 .. m : Selects(q.paths[j], a)
    <3>1. ASSUME NEW a \in found PROVE Selected(a, Len(q.paths))
      <4>1. CASE a \in R.found
        BY <1>4, <1>7, <4>1 DEF ListedTo
      <4>2. CASE a \in Listed(q.client, q.paths[i])
        <5>1. Selects(q.paths[i], a)
          BY <1>9, <4>2, ListedFacts
        <5> QED BY <1>7, <1>8, <1>11, <5>1
      <4> QED BY <2>1, <4>1, <4>2
    <3>2. ASSUME NEW a \in before, Selected(a, i), May(q, a, "Access account")
          PROVE  a \in found
      <4>1. PICK j \in 1 .. i : Selects(q.paths[j], a)
        BY <3>2
      <4>2. CASE j = i
        BY <1>9, <2>1, <3>2, <4>1, <4>2, ListedFacts
      <4>3. CASE j # i
        <5>1. j \in 1 .. i - 1
          BY <1>7, <1>8, <4>3
        <5> QED BY <1>4, <1>5, <1>7, <2>1, <3>2, <4>1, <5>1 DEF ListedTo
      <4> QED BY <4>2, <4>3
    <3>3. PICK m : m = i + 1 /\ m - 1 = i
      BY <1>7, <1>8
    <3>4. /\ \A a \in S.found : Selected(a, Len(q.paths))
          /\ \A a \in S.before :
               Selected(a, m - 1) /\ May(q, a, "Access account") => a \in S.found
      BY <2>3, <3>1, <3>2, <3>3
    <3>5. ListedTo(S, m)
      BY <2>3, <3>4 DEF ListedTo
    <3> QED BY <3>3, <3>5
  <2>7. Listing(S)
    BY <1>7, <1>8, <1>11, <2>3, <2>5, <2>6 DEF Listing
  <2>8. RequestOK(S) /\ ~Busy(S)
    BY <2>3, <2>7 DEF RequestOK, Phases, Busy
  <2>9. UNCHANGED <<onDisk, server, caches>> /\ UnlockedOK'
    BY <1>1, QuietFacts
  <2> QED BY <1>2, <2>4, <2>8, <2>9, QuietStep
<1> QED BY <1>7, <1>8, <1>10, <1>11
-----------------------------------------------------------------------------
(***************************************************************************)
(* The wallet manager.                                                     *)
(***************************************************************************)
LEMMA LockWalletStep ==
  ASSUME AccountsInv, NEW g \in Goroutines, LockWallet(g)
  PROVE  AccountsInv'
<1>1. PICK q \in Requests : /\ Begins(g, q) /\ Ended(g)
                            /\ unlocked' \subseteq unlocked
  BY DEF LockWallet
<1>2. up /\ ~Busy(requests[g])
  BY <1>1, BeginsFacts
<1>3. UNCHANGED <<onDisk, server, caches>>
  BY DEF LockWallet
<1>4. UnlockedOK'
  BY <1>1, <1>3 DEF AccountsInv, UnlockedOK, server
<1> QED BY <1>1, <1>2, <1>3, <1>4, EndedStep

LEMMA UnlockWalletStep ==
  ASSUME AccountsInv, NEW g \in Goroutines, UnlockWallet(g)
  PROVE  AccountsInv'
<1>1. PICK q \in Requests :
        /\ Begins(g, q) /\ Ended(g)
        /\ \/ unlocked' = unlocked
           \/ MayUse(q, "Unlock wallet") /\ unlocked' = unlocked \cup {q.wallet}
  BY DEF UnlockWallet
<1>2. up /\ ~Busy(requests[g])
  BY <1>1, BeginsFacts
<1>3. UNCHANGED <<onDisk, server, caches>>
  BY DEF UnlockWallet
<1>4. UnlockedOK'
  <2>1. CASE unlocked' = unlocked
    BY <1>3, <2>1 DEF AccountsInv, UnlockedOK, server
  <2>2. CASE MayUse(q, "Unlock wallet") /\ unlocked' = unlocked \cup {q.wallet}
    <3>1. q.wallet \in wallets /\ Check(access, q.client, q.wallet, NoName, "Unlock wallet")
      BY <2>2 DEF MayUse
    <3>2. PICK acc \in Accesses : acc = access
      BY <1>2 DEF AccountsInv, ServerOK
    <3>3. q.client \in Clients /\ Granted(q.client, q.wallet, NoName, "Unlock wallet")
      BY <3>1, <3>2, CheckIsGranted
    <3> QED BY <1>3, <2>2, <3>1, <3>3 DEF AccountsInv, UnlockedOK, server
  <2> QED BY <1>1, <2>1, <2>2
<1> QED BY <1>1, <1>2, <1>3, <1>4, EndedStep
-----------------------------------------------------------------------------
(***************************************************************************)
(* The creation of an account: on disk first, then in the caches.          *)
(***************************************************************************)
LEMMA CreateAccountStep ==
  ASSUME AccountsInv, NEW g \in Goroutines, CreateAccount(g)
  PROVE  AccountsInv'
<1>1. requests[g].phase = "create" /\ UNCHANGED <<diskWallets, server, unlocked, caches>>
  BY DEF CreateAccount
<1>2. /\ up /\ ~Busy(requests[g]) /\ ~Free(g) /\ RequestOK(requests[g])
      /\ requests[g].request \in Requests /\ requests[g].before \subseteq Known
  BY <1>1, MiddleFacts DEF Phases
<1>3. PICK q \in Requests : q = requests[g].request
  BY <1>2
<1>4. PICK before \in SUBSET Known : before = requests[g].before
  BY <1>2
<1>5. /\ q.kind \in {"Generate", "Commit"} /\ q.wallet \in diskWallets
      /\ MayBeMade(q.wallet, q.name)
  BY <1>1, <1>2, <1>3 DEF RequestOK, Creating
<1>6. q.wallet \in WalletNames /\ q.name \in AccountNames
  BY <1>5, AccountsAssumption DEF IsRequest
<1>7. CASE Ended(g) /\ UNCHANGED disk
  <2>1. UNCHANGED <<onDisk, server, caches>>
    BY <1>1, <1>7 DEF onDisk
  <2>2. UnlockedOK'
    BY <1>1 DEF AccountsInv, UnlockedOK, server
  <2> QED BY <1>2, <1>7, <2>1, <2>2, EndedStep
<1>8. ASSUME NEW a, NEW k \in Keys,
             a = [wallet |-> q.wallet, name |-> q.name, key |-> k],
             ~Exists(q.wallet, q.name),
             disk' = disk \cup {a}, Becomes(g, "add", q, {a})
      PROVE  AccountsInv'
  <2>1. /\ UNCHANGED <<diskWallets, up, access, wallets, unlocked>>
        /\ UNCHANGED <<walletAccounts, pubKeyPaths, rwWalletAccounts, rwPubKeyPaths>>
    BY <1>1 DEF server, caches
  <2>2. /\ a \in AccountRecords /\ a.wallet = q.wallet /\ a.name = q.name
        /\ PathOf(a) = <<q.wallet, q.name>>
    BY <1>6, <1>8 DEF AccountRecords, PathOf
  <2>3. \A b \in disk : PathOf(b) # PathOf(a)
    BY <1>8, <2>2 DEF Exists
  <2>4. DiskOK'
    BY <1>5, <1>8, <2>1, <2>2, <2>3 DEF AccountsInv, DiskOK
  <2>5. ServerOK'
    BY <1>2, <2>1 DEF AccountsInv, ServerOK
  <2>6. UnlockedOK'
    BY <2>1 DEF AccountsInv, UnlockedOK
  <2>7. Steady
    BY <1>8, <2>1 DEF Steady, Known, FetchAccount
  <2>8. PICK R : R = Record("add", q, {a}, 1, before)
    OBVIOUS
  <2>9. /\ R.phase = "add" /\ R.request = q /\ R.before = before
        /\ R.found = {a} /\ Request(R)
    BY <2>8, RecordFacts
  <2>10. GoesTo(g, R)
    BY <1>2, <1>4, <1>8, <2>8, BecomesFacts
  <2>11. RequestOK(R)'
    <3>1. PathOf(a) \notin DOMAIN walletAccounts
      <4>1. \A p \in DOMAIN walletAccounts :
              p \in Paths /\ Account(p, walletAccounts[p]) \in disk
        BY DEF AccountsInv, CachesOK, CacheOK
      <4> QED BY <2>3, <4>1, AccountFacts
    <3>2. Adding(R)'
      BY <1>8, <2>1, <2>9, <3>1 DEF Adding
    <3>3. R.before \subseteq Known'
      BY <2>7, <2>9 DEF Steady
    <3> QED BY <2>9, <3>2, <3>3 DEF RequestOK, Phases
  <2>12. RequestsOK'
    BY <2>7, <2>10, <2>11, RequestsStep
  <2>13. CachesOK'
    <3>1. /\ requests'[g] = R
          /\ \A h \in Goroutines \ {g} : requests'[h] = requests[h]
      BY <2>10 DEF GoesTo, AccountsInv, RequestsOK
    <3>2. Pending(a)'
      BY <2>9, <3>1 DEF Pending
    <3>3. ASSUME NEW b, Pending(b) PROVE Pending(b)'
      BY <1>2, <3>1, <3>3 DEF Pending, Busy
    <3>4. CacheOK(walletAccounts, pubKeyPaths)' /\ CacheOK(rwWalletAccounts, rwPubKeyPaths)'
      BY <1>8, <2>1 DEF AccountsInv, CachesOK, CacheOK
    <3> QED BY <1>8, <2>1, <3>2, <3>3, <3>4 DEF AccountsInv, CachesOK, Cached
  <2> QED BY <2>4, <2>5, <2>6, <2>12, <2>13 DEF AccountsInv
<1> QED BY <1>3, <1>7, <1>8 DEF CreateAccount

LEMMA CreatedStep ==
  ASSUME AccountsInv, NEW g \in Goroutines, Created(g)
  PROVE  AccountsInv'
<1>1. /\ requests[g].phase = "add" /\ UNCHANGED <<onDisk, server, unlocked>>
      /\ Ended(g)
  BY DEF Created
<1>2. up /\ RequestOK(requests[g])
  BY <1>1, MiddleFacts DEF Phases
<1>3. PICK a \in disk : /\ requests[g].found = {a}
                        /\ PathOf(a) \notin DOMAIN walletAccounts
  BY <1>1, <1>2 DEF RequestOK, Adding
<1>4. AddAccount(a)
  BY <1>3 DEF Created
<1>5. /\ UNCHANGED <<diskWallets, disk, up, access, wallets, unlocked>>
      /\ UNCHANGED <<walletAccounts, pubKeyPaths>>
  BY <1>1, <1>4 DEF onDisk, server, AddAccount, caches
<1>6. /\ a \in AccountRecords
      /\ DiskOK /\ CachesOK
  BY DEF AccountsInv, DiskOK
<1>7. PICK p \in Paths : p = PathOf(a) /\ p[1] = a.wallet /\ Account(p, a.key) = a
  BY <1>6, AccountFacts
<1>8. PICK R : R = Idle
  OBVIOUS
<1>9. GoesTo(g, R)
  BY <1>1, <1>8 DEF Ended, GoesTo
<1>10. RequestOK(R)'
  BY <1>8 DEF RequestOK, Idle, Phases
<1>11. /\ requests'[g] = R
       /\ \A h \in Goroutines \ {g} : requests'[h] = requests[h]
  BY <1>9 DEF GoesTo, AccountsInv, RequestsOK
<1>12. \A b : Pending(b) /\ b # a => Pending(b)'
  BY <1>3, <1>11 DEF Pending
<1>13. DiskOK' /\ UnlockedOK' /\ ServerOK'
  BY <1>2, <1>5 DEF AccountsInv, DiskOK, UnlockedOK, ServerOK
<1>14. CASE a.wallet \notin wallets
  <2>1. UNCHANGED <<rwWalletAccounts, rwPubKeyPaths>>
    BY <1>4, <1>14 DEF AddAccount, caches
  <2>2. Steady
    BY <1>5, <2>1 DEF Steady, Known, FetchAccount
  <2>3. RequestsOK'
    BY <1>9, <1>10, <2>2, RequestsStep
  <2>4. CachesOK'
    BY <1>5, <1>6, <1>12, <1>14, <2>1 DEF CachesOK, CacheOK, Cached
  <2> QED BY <1>13, <2>3, <2>4 DEF AccountsInv
<1>15. CASE a.wallet \in wallets
  <2>1. PICK names, keys : names = rwWalletAccounts /\ keys = rwPubKeyPaths
    OBVIOUS
  <2>2. rwWalletAccounts' = Put(names, p, a.key) /\ rwPubKeyPaths' = Put(keys, a.key, p)
    BY <1>4, <1>7, <1>15, <2>1 DEF AddAccount
  <2>3. PICK k \in Keys : k = a.key /\ k # NoKey
    BY <1>6, AccountFacts
  <2>4. p \in DOMAIN names => names[p] = k
    <3> SUFFICES ASSUME p \in DOMAIN names PROVE names[p] = k
      OBVIOUS
    <3>1. Account(p, names[p]) \in disk
      BY <1>6, <2>1 DEF CachesOK, CacheOK
    <3> QED BY <1>6, <1>7, <2>3, <3>1, SamePath
  <2>5. /\ DOMAIN rwWalletAccounts' = DOMAIN names \cup {p} /\ rwWalletAccounts'[p] = k
        /\ \A r \in DOMAIN names : rwWalletAccounts'[r] = names[r]
    BY <2>2, <2>3, <2>4 DEF Put
  <2>6. /\ DOMAIN rwPubKeyPaths' = DOMAIN keys \cup {k} /\ rwPubKeyPaths'[k] = p
        /\ \A j \in DOMAIN keys \ {k} : rwPubKeyPaths'[j] = keys[j]
    BY <2>2, <2>3 DEF Put
  <2>7. Steady
    <3>1. ASSUME NEW r, FetchAccount(r) # NoKey
          PROVE  FetchAccount(r)' = FetchAccount(r)
      BY <1>5, <2>1, <2>5, <3>1 DEF FetchAccount
    <3>2. ASSUME NEW b \in Known PROVE b \in Known'
      <4>1. PICK r \in DOMAIN names \cup DOMAIN walletAccounts :
              b = Account(r, IF r \in DOMAIN names THEN names[r] ELSE walletAccounts[r])
        BY <2>1 DEF Known, Over
      <4>2. \/ r \in DOMAIN names /\ b = Account(r, rwWalletAccounts'[r])
            \/ /\ r \notin DOMAIN rwWalletAccounts' /\ r \in DOMAIN walletAccounts'
               /\ b = Account(r, walletAccounts'[r])
        BY <1>3, <1>5, <1>7, <2>5, <4>1
      <4>3. /\ r \in DOMAIN rwWalletAccounts' \cup DOMAIN walletAccounts'
            /\ b = Account(r, IF r \in DOMAIN rwWalletAccounts'
                              THEN rwWalletAccounts'[r] ELSE walletAccounts'[r])
        BY <2>5, <4>2
      <4> QED BY <4>3 DEF Known, Over
    <3> QED BY <1>5, <3>1, <3>2 DEF Steady
  <2>8. RequestsOK'
    BY <1>9, <1>10, <2>7, RequestsStep
  <2>9. CachesOK'
    <3>1. CacheOK(walletAccounts, pubKeyPaths)'
      BY <1>5, <1>6 DEF CachesOK, CacheOK
    <3>2. CacheOK(rwWalletAccounts, rwPubKeyPaths)'
      <4>1. ASSUME NEW r \in DOMAIN rwWalletAccounts'
            PROVE  /\ r \in Paths /\ r[1] \in wallets
                   /\ Account(r, rwWalletAccounts'[r]) \in disk
                   /\ rwWalletAccounts'[r] \in DOMAIN rwPubKeyPaths'
        <5>1. CASE r = p
          BY <1>7, <1>15, <2>3, <2>5, <2>6, <5>1
        <5>2. CASE r # p
          <6>1. /\ r \in DOMAIN names /\ r \in Paths /\ r[1] \in wallets
                /\ Account(r, names[r]) \in disk /\ names[r] \in DOMAIN keys
            BY <1>6, <2>1, <2>5, <5>2 DEF CachesOK, CacheOK
          <6> QED BY <2>5, <2>6, <6>1
        <5> QED BY <5>1, <5>2
      <4>2. ASSUME NEW j \in DOMAIN rwPubKeyPaths'
            PROVE  /\ rwPubKeyPaths'[j] \in DOMAIN rwWalletAccounts'
                   /\ rwWalletAccounts'[rwPubKeyPaths'[j]] = j
        <5>1. CASE j = k
          BY <2>5, <2>6, <5>1
        <5>2. CASE j # k
          <6>1. j \in DOMAIN keys /\ keys[j] \in DOMAIN names /\ names[keys[j]] = j
            BY <1>6, <2>1, <2>6, <5>2 DEF CachesOK, CacheOK
          <6> QED BY <2>5, <2>6, <5>2, <6>1
        <5> QED BY <5>1, <5>2
      <4> QED BY <1>5, <4>1, <4>2 DEF CacheOK
    <3>3. DOMAIN walletAccounts' \cap DOMAIN rwWalletAccounts' = {}
      BY <1>3, <1>5, <1>6, <1>7, <2>1, <2>5 DEF CachesOK
    <3>4. ASSUME NEW b \in disk, up, b.wallet \in wallets, ~Pending(b)'
          PROVE  Cached(b)'
      <4>1. CASE b = a
        BY <1>7, <2>5, <4>1 DEF Cached
      <4>2. CASE b # a
        <5>1. Cached(b)
          BY <1>6, <1>12, <3>4, <4>2 DEF CachesOK
        <5> QED BY <1>5, <2>1, <2>5, <5>1 DEF Cached
      <4> QED BY <4>1, <4>2
    <3> QED BY <1>5, <3>1, <3>2, <3>3, <3>4 DEF CachesOK
  <2> QED BY <1>13, <2>8, <2>9 DEF AccountsInv
<1> QED BY <1>14, <1>15
-----------------------------------------------------------------------------
(***************************************************************************)
(* Starting, stopping, and the operator.                                   *)
(***************************************************************************)
LEMMA EmptyFacts == DOMAIN Empty = {}
BY DEF Empty

LEMMA UnchangedStep ==
  ASSUME AccountsInv, diskWallets \subseteq diskWallets', diskWallets' \subseteq WalletNames,
         UNCHANGED <<disk, server, unlocked, caches, requests>>
  PROVE  AccountsInv'
<1>1. /\ UNCHANGED <<disk, up, access, wallets, unlocked, requests>>
      /\ UNCHANGED <<walletAccounts, pubKeyPaths, rwWalletAccounts, rwPubKeyPaths>>
  BY DEF server, caches
<1>2. Steady
  BY <1>1 DEF Steady, Known, FetchAccount
<1>3. RequestsOK'
  <2>1. ASSUME NEW h \in Goroutines PROVE RequestOK(requests[h])'
    <3>1. PICK S : S = requests[h]
      OBVIOUS
    <3>2. RequestOK(S)
      BY <3>1 DEF AccountsInv, RequestsOK
    <3>3. RequestOK(S)'
      BY <1>2, <3>2, RequestKept
    <3> QED BY <1>1, <3>1, <3>3
  <2> QED BY <1>1, <2>1 DEF AccountsInv, RequestsOK
<1>4. DiskOK' /\ ServerOK' /\ UnlockedOK'
  BY <1>1 DEF AccountsInv, DiskOK, ServerOK, UnlockedOK
<1>5. CachesOK'
  BY <1>1 DEF AccountsInv, CachesOK, CacheOK, Pending, Cached
<1> QED BY <1>3, <1>4, <1>5 DEF AccountsInv

LEMMA CrashStep ==
  ASSUME AccountsInv, Crash
  PROVE  AccountsInv'
<1>1. /\ UNCHANGED <<diskWallets, disk>>
      /\ up' = FALSE /\ wallets' = {} /\ unlocked' = {}
      /\ DOMAIN walletAccounts' = {} /\ DOMAIN pubKeyPaths' = {}
      /\ DOMAIN rwWalletAccounts' = {} /\ DOMAIN rwPubKeyPaths' = {}
      /\ requests' = [g \in Goroutines |-> Idle]
  BY EmptyFacts DEF Crash, onDisk
<1>2. DiskOK' /\ ServerOK' /\ UnlockedOK' /\ CachesOK'
  BY <1>1 DEF AccountsInv, DiskOK, ServerOK, UnlockedOK, CachesOK, CacheOK
<1>3. RequestsOK'
  BY <1>1 DEF RequestsOK, RequestOK, Idle, Phases
<1> QED BY <1>2, <1>3 DEF AccountsInv

LEMMA StartStep ==
  ASSUME AccountsInv, Start
  PROVE  AccountsInv'
<1>1. /\ UNCHANGED <<diskWallets, disk, unlocked, requests>>
      /\ ~up /\ ParametersOK /\ up' = TRUE /\ access' \in Accesses
      /\ wallets' = diskWallets
      /\ DOMAIN rwWalletAccounts' = {} /\ DOMAIN rwPubKeyPaths' = {}
  BY EmptyFacts DEF Start, onDisk, PopulateCaches
<1>2. /\ unlocked = {} /\ DOMAIN requests = Goroutines
      /\ \A g \in Goroutines : requests[g] = Idle
  BY <1>1 DEF AccountsInv, ServerOK, RequestsOK
<1>3. DiskOK' /\ ServerOK' /\ UnlockedOK'
  BY <1>1, <1>2 DEF AccountsInv, DiskOK, ServerOK, UnlockedOK
<1>4. RequestsOK'
  BY <1>1, <1>2 DEF RequestsOK, RequestOK, Idle, Phases
<1>5. /\ DOMAIN walletAccounts' = {PathOf(a) : a \in disk}
      /\ \A a \in disk : walletAccounts'[PathOf(a)] = a.key
  <2>1. walletAccounts' = [p \in {PathOf(a) : a \in disk} |->
                             (CHOOSE a \in disk : PathOf(a) = p).key]
    BY DEF Start, PopulateCaches
  <2>2. ASSUME NEW a \in disk
        PROVE  walletAccounts'[PathOf(a)] = a.key
    <3>1. PICK b : b = CHOOSE c \in disk : PathOf(c) = PathOf(a)
      OBVIOUS
    <3>2. b \in disk /\ PathOf(b) = PathOf(a)
      BY <3>1
    <3>3. b = a
      BY <3>2 DEF AccountsInv, DiskOK
    <3> QED BY <2>1, <3>1, <3>3
  <2> QED BY <2>1, <2>2
<1>6. /\ DOMAIN pubKeyPaths' = {a.key : a \in disk}
      /\ \A k \in DOMAIN pubKeyPaths' :
           \E a \in disk : a.key = k /\ PathOf(a) = pubKeyPaths'[k]
  BY DEF Start, PopulateCaches
<1>7. CacheOK(walletAccounts, pubKeyPaths)'
  <2>1. ASSUME NEW a \in disk
        PROVE  /\ PathOf(a) \in Paths /\ PathOf(a)[1] \in diskWallets
               /\ Account(PathOf(a), a.key) \in disk
    BY AccountFacts DEF AccountsInv, DiskOK
  <2>2. ASSUME NEW p \in DOMAIN walletAccounts'
        PROVE  /\ p \in Paths /\ p[1] \in diskWallets
               /\ Account(p, walletAccounts'[p]) \in disk
               /\ walletAccounts'[p] \in DOMAIN pubKeyPaths'
    <3>1. PICK a \in disk : p = PathOf(a)
      BY <1>5
    <3>2. walletAccounts'[p] = a.key
      BY <1>5, <3>1
    <3> QED BY <1>6, <2>1, <3>1, <3>2
  <2>3. ASSUME NEW k \in DOMAIN pubKeyPaths'
        PROVE  /\ pubKeyPaths'[k] \in DOMAIN walletAccounts'
               /\ walletAccounts'[pubKeyPaths'[k]] = k
    <3>1. PICK a \in disk : a.key = k /\ PathOf(a) = pubKeyPaths'[k]
      BY <1>6
    <3> QED BY <1>5, <3>1
  <2> QED BY <1>1, <2>2, <2>3 DEF CacheOK
<1>8. CachesOK'
  BY <1>1, <1>5, <1>7 DEF CachesOK, CacheOK, Cached
<1> QED BY <1>3, <1>4, <1>8 DEF AccountsInv
-----------------------------------------------------------------------------
LEMMA InitInv == Init => AccountsInv
<1> SUFFICES ASSUME Init PROVE AccountsInv
  OBVIOUS
<1>1. /\ diskWallets = InitialWallets /\ disk = InitialAccounts /\ up = FALSE
      /\ wallets = {} /\ unlocked = {}
      /\ DOMAIN walletAccounts = {} /\ DOMAIN pubKeyPaths = {}
      /\ DOMAIN rwWalletAccounts = {} /\ DOMAIN rwPubKeyPaths = {}
      /\ requests = [g \in Goroutines |-> Idle]
  BY EmptyFacts DEF Init
<1>2. DiskOK
  <2>1. \A a, b \in disk : PathOf(a) = PathOf(b) => a = b
    BY <1>1, AccountsAssumption DEF PathOf
  <2> QED BY <1>1, <2>1, AccountsAssumption DEF DiskOK
<1>3. ServerOK /\ UnlockedOK /\ CachesOK
  BY <1>1 DEF ServerOK, UnlockedOK, CachesOK, CacheOK
<1>4. RequestsOK
  BY <1>1 DEF RequestsOK, RequestOK, Idle, Phases
<1> QED BY <1>2, <1>3, <1>4 DEF AccountsInv

LEMMA NextInv ==
  ASSUME AccountsInv, [Next]_vars
  PROVE  AccountsInv'
<1>1. CASE Start
  BY <1>1, StartStep
<1>2. CASE Crash
  BY <1>2, CrashStep
<1>3. CASE NewWallet
  <2>1. /\ diskWallets \subseteq diskWallets' /\ diskWallets' \subseteq WalletNames
        /\ UNCHANGED <<disk, server, unlocked, caches, requests>>
    BY <1>3 DEF NewWallet, AccountsInv, DiskOK
  <2> QED BY <2>1, UnchangedStep
<1>4. CASE UNCHANGED vars
  <2>1. /\ diskWallets \subseteq diskWallets' /\ diskWallets' \subseteq WalletNames
        /\ UNCHANGED <<disk, server, unlocked, caches, requests>>
    BY <1>4 DEF vars, onDisk, AccountsInv, DiskOK
  <2> QED BY <2>1, UnchangedStep
<1>5. ASSUME NEW g \in Goroutines, Serve(g)
      PROVE  AccountsInv'
  BY <1>5, OnGenerateStep, OnCommitStep, CreateAccountStep, CreatedStep, ByNameStep,
     FetchAccountByKeyStep, ByKeyStep, ListAccountsStep, ListPathStep,
     LockWalletStep, UnlockWalletStep DEF Serve
<1> QED BY <1>1, <1>2, <1>3, <1>4, <1>5 DEF Next

\* The caches agree with the disk and with each other, and every request in
\* progress has seen only what is still there, in every state of a server
\* that creates, looks up, lists, crashes and starts again.
THEOREM AccountsInvariant == Spec => []AccountsInv
<1>1. AccountsInv /\ [Next]_vars => AccountsInv'
  BY NextInv
<1> QED BY InitInv, <1>1, PTL DEF Spec

\* TypeOK: the state of the fetcher, of the wallet manager and of the
\* requests keeps its type.
THEOREM TypeCorrect == Spec => []TypeOK
<1>1. AccountsInv => TypeOK
  <2> SUFFICES ASSUME AccountsInv PROVE TypeOK
    OBVIOUS
  <2>1. ASSUME NEW names, NEW keys, CacheOK(names, keys), NEW k \in DOMAIN keys
        PROVE  k \in Keys
    <3>1. /\ keys[k] \in Paths /\ Account(keys[k], k) \in disk
      BY <2>1 DEF CacheOK
    <3>2. Account(keys[k], k) \in AccountRecords
      BY <3>1 DEF AccountsInv, DiskOK
    <3> QED BY <3>1, <3>2, AccountFacts
  <2>2. DOMAIN pubKeyPaths \subseteq Keys
    <3>1. PICK names, keys : names = walletAccounts /\ keys = pubKeyPaths
      OBVIOUS
    <3>2. CacheOK(names, keys)
      BY <3>1 DEF AccountsInv, CachesOK
    <3> QED BY <2>1, <3>1, <3>2
  <2>3. DOMAIN rwPubKeyPaths \subseteq Keys
    <3>1. PICK names, keys : names = rwWalletAccounts /\ keys = rwPubKeyPaths
      OBVIOUS
    <3>2. CacheOK(names, keys)
      BY <3>1 DEF AccountsInv, CachesOK
    <3> QED BY <2>1, <3>1, <3>2
  <2>4. /\ diskWallets \subseteq WalletNames /\ disk \subseteq AccountRecords
        /\ up \in BOOLEAN /\ (up => access \in Accesses)
        /\ wallets \subseteq diskWallets /\ unlocked \subseteq wallets
    BY DEF AccountsInv, DiskOK, ServerOK, UnlockedOK
  <2>5. /\ DOMAIN walletAccounts \subseteq Paths
        /\ DOMAIN rwWalletAccounts \subseteq Paths \ DOMAIN walletAccounts
        /\ \A p \in DOMAIN walletAccounts \cup DOMAIN rwWalletAccounts : p[1] \in wallets
    BY DEF AccountsInv, CachesOK, CacheOK
  <2>6. \A g \in Goroutines : requests[g].phase \in Phases
    BY DEF AccountsInv, RequestsOK, RequestOK
  <2> QED BY <2>2, <2>3, <2>4, <2>5, <2>6 DEF TypeOK, Phases
<1> QED BY AccountsInvariant, <1>1, PTL

\* CreatedIsReachable: whatever the interleaving of creations, restarts and
\* new wallets, an account on disk is found by name and by key.
THEOREM Reachable == Spec => []CreatedIsReachable
<1>1. AccountsInv => CreatedIsReachable
  <2> SUFFICES ASSUME AccountsInv, NEW a \in disk, up, a.wallet \in wallets, ~Pending(a)
               PROVE  /\ FetchAccount(PathOf(a)) = a.key
                      /\ FetchAccount(FetchPath(a.key)) = a.key
    BY DEF CreatedIsReachable, Pending
  <2>1. DiskOK /\ CachesOK /\ Cached(a)
    BY DEF AccountsInv, CachesOK
  <2>2. FetchAccount(PathOf(a)) = a.key
    BY <2>1, FetchAccountFacts
  <2>3. a \in Known
    BY <2>1, KnownFacts
  <2>4. FetchAccount(FetchPath(a.key)) = a.key
    BY <2>1, <2>3, FetchPathFacts
  <2> QED BY <2>2, <2>4
<1> QED BY AccountsInvariant, <1>1, PTL

\* LookupsAreExact: a lookup by name or by key answers with the account that
\* was asked for, and misses none that was known and that the client may use.
THEOREM Lookups == Spec => []LookupsAreExact
<1>1. AccountsInv => LookupsAreExact
  <2> SUFFICES ASSUME AccountsInv, NEW g \in Goroutines, Answered(g, {"ByName", "ByKey"}),
                      NEW R, R = requests[g], NEW q, q = R.request
               PROVE  /\ \A a \in R.found : Asked(q, a) /\ a \in disk
                      /\ LET known == {a \in R.before : Asked(q, a)}
                         IN (known # {} /\ \A a \in known : May(q, a, q.operation))
                            => R.found # {}
    BY DEF LookupsAreExact, Asked
  <2>1. R.phase = "done" /\ q.kind \in {"ByName", "ByKey"}
    BY DEF Answered
  <2>2. Answer(R)
    BY <2>1 DEF AccountsInv, RequestsOK, RequestOK
  <2>3. Shown(R) /\ LookedUp(R)
    BY <2>1, <2>2 DEF Answer
  <2> QED BY <2>3 DEF Shown, LookedUp
<1> QED BY AccountsInvariant, <1>1, PTL

\* ListsAreExact: a list has all the accounts that were known when it began
\* and that were asked for, and only accounts that exist, were asked for and
\* may be seen.
THEOREM Lists == Spec => []ListsAreExact
<1>1. AccountsInv => ListsAreExact
  <2> SUFFICES ASSUME AccountsInv, NEW g \in Goroutines, Answered(g, {"ListAccounts"}),
                      NEW R, R = requests[g], NEW q, q = R.request
               PROVE  /\ \A a \in R.before :
                           /\ \E i \in DOMAIN q.paths : Selects(q.paths[i], a)
                           /\ May(q, a, "Access account")
                           => a \in R.found
                      /\ \A a \in R.found :
                           /\ a \in disk /\ May(q, a, "Access account")
                           /\ \E i \in DOMAIN q.paths : Selects(q.paths[i], a)
    BY DEF ListsAreExact
  <2>1. R.phase = "done" /\ q.kind = "ListAccounts"
    BY DEF Answered
  <2>2. RequestOK(R) /\ q \in Requests /\ Answer(R)
    BY <2>1 DEF AccountsInv, RequestsOK, RequestOK
  <2>3. PICK n \in Nat : n = Len(q.paths) /\ DOMAIN q.paths = 1 .. n
    BY <2>1, <2>2, PathsFacts
  <2>4. Shown(R) /\ ListedTo(R, n + 1)
    BY <2>1, <2>2, <2>3 DEF Answer
  <2>5. PICK m : m = n + 1 /\ m - 1 = n /\ ListedTo(R, m)
    BY <2>4
  <2>6. Operation(q) = "Access account"
    BY <2>1 DEF Operation
  <2>7. \A a \in R.found : a \in disk /\ May(q, a, "Access account")
    BY <2>4, <2>6 DEF Shown
  <2>8. /\ \A a \in R.found : \E i \in 1 .. n : Selects(q.paths[i], a)
        /\ \A a \in R.before :
             (\E i \in 1 .. n : Selects(q.paths[i], a)) /\ May(q, a, "Access account")
             => a \in R.found
    <3>1. /\ \A a \in R.found : \E i \in 1 .. Len(q.paths) : Selects(q.paths[i], a)
          /\ \A a \in R.before :
               (\E i \in 1 .. m - 1 : Selects(q.paths[i], a))
               /\ May(q, a, "Access account") => a \in R.found
      BY <2>5 DEF ListedTo
    <3> QED BY <2>3, <2>5, <3>1
  <2> QED BY <2>3, <2>7, <2>8
<1> QED BY AccountsInvariant, <1>1, PTL

\* AccessIsGranted: whatever the order in which the permissions are read, a
\* client is shown, unlocks and creates only what the configuration allows.
THEOREM Access == Spec => []AccessIsGranted
<1>1. AccountsInv => AccessIsGranted
  <2> SUFFICES ASSUME AccountsInv PROVE AccessIsGranted
    OBVIOUS
  <2>1. ASSUME NEW g \in Goroutines, Answered(g, {"ByName", "ByKey", "ListAccounts"}),
               NEW a \in requests[g].found
        PROVE  Granted(requests[g].request.client, a.wallet, a.name,
                       Operation(requests[g].request))
    <3>1. PICK R, q : R = requests[g] /\ q = R.request
      OBVIOUS
    <3>2. R.phase = "done"
      BY <2>1, <3>1 DEF Answered
    <3>3. RequestOK(R) /\ up
      BY <3>1, <3>2 DEF AccountsInv, RequestsOK, ServerOK, Idle
    <3>4. Check(access, q.client, a.wallet, a.name, Operation(q))
      BY <2>1, <3>1, <3>2, <3>3 DEF RequestOK, Answer, Shown, May
    <3>5. PICK acc \in Accesses : acc = access
      BY <3>3 DEF AccountsInv, ServerOK
    <3> QED BY <3>1, <3>4, <3>5, CheckIsGranted
  <2>2. \A w \in unlocked : \E c \in Clients : Granted(c, w, NoName, "Unlock wallet")
    BY DEF AccountsInv, UnlockedOK
  <2>3. \A a \in disk \ InitialAccounts : MayBeMade(a.wallet, a.name)
    BY DEF AccountsInv, DiskOK
  <2> QED BY <2>1, <2>2, <2>3 DEF AccessIsGranted, Operation, MayBeMade
<1> QED BY AccountsInvariant, <1>1, PTL

\* AnswersIgnoreOrder: the checker's answers are those of the configuration
\* for every order that a Go map may give its paths.
THEOREM Order == Spec => []AnswersIgnoreOrder
<1>1. AccountsInv => AnswersIgnoreOrder
  <2> SUFFICES ASSUME AccountsInv, up, NEW c \in Clients, NEW w \in WalletNames,
                      NEW n \in AccountNames \cup {NoName}, NEW o \in Operations
               PROVE  /\ Check(access, c, w, n, o) => Granted(c, w, n, o)
                      /\ Granted(c, w, n, o) /\ ~Denied(c, w, n, o) =>
                           Check(access, c, w, n, o)
    BY DEF AnswersIgnoreOrder
  <2>1. PICK acc \in Accesses : acc = access /\ ParametersOK
    BY DEF AccountsInv, ServerOK
  <2>2. Check(acc, c, w, n, o) => Granted(c, w, n, o)
    BY CheckIsGranted
  <2>3. ASSUME Granted(c, w, n, o), ~Denied(c, w, n, o)
        PROVE  Check(acc, c, w, n, o)
    <3>1. c # NoName
      BY <2>1, <2>3 DEF Granted, ParametersOK
    <3>2. w # NoName
      BY PermissionsAssumption
    <3> QED BY <2>3, <3>1, <3>2, GrantedIsChecked
  <2> QED BY <2>1, <2>2, <2>3
<1> QED BY AccountsInvariant, <1>1, PTL
=============================================================================
