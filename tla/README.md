# Dirk in TLA+

Dirk keeps the keys of Ethereum validators and signs with them over gRPC. It has
two duties that are hard to get right: never to sign two messages that would get
a validator slashed, and, together with other dirk servers, to create keys that
no single server knows. This directory models the code that performs those
duties, model-checks it with TLC on small instances, and proves with TLAPS, for
all instances, every safety property that TLC checks: of signing, of the locker,
of key generation, of the interchange, of accounts and permissions, and of
scatter.

File names below are relative to `src/`.

## 1. The system

### Parts and state

| Part | State it keeps | Operations |
|---|---|---|
| gRPC handlers (`services/api/grpc/handlers`) | none | validate a request, call a service, translate its result |
| signer (`services/signer/standard`) | none | `SignGeneric`, `Multisign`, `SignBeaconProposal`, `SignBeaconAttestation`, `SignBeaconAttestations` |
| ruler (`services/ruler/golang`) | none | `RunRules`: take the keys' locks, run the rules, give the locks back |
| locker (`services/locker/syncmap`) | a `sync.Map` of mutexes, one mutex to create them, one for groups | `PreLock`, `Lock`, `PostLock`, `Unlock` |
| standard rules (`rules/standard`) | none in memory | `OnSign`, `OnSignBeaconProposal`, `OnSignBeaconAttestation(s)`, export and import |
| rules store (`rules/standard/storage.go`) | badger database: for each key the last proposal and the last attestation | `Fetch`, `FetchAll`, `Store`, `BatchStore` |
| fetcher (`services/fetcher/mem`) | caches of wallets and accounts: one pair filled at the start, one for accounts added later | `FetchWallet`, `FetchAccount`, `FetchAccountByKey`, `FetchAccounts`, `AddAccount` |
| checker (`services/checker/static`) | each client's list of paths and operations | `Check` |
| unlocker, lister | passphrases; none | unlock a wallet or an account; list accounts |
| account and wallet manager | which accounts and wallets are unlocked | lock, unlock, generate |
| scatter (`util/scatter.go`) | two channels per call | `Scatter`: divide a batch among goroutines |
| process (`services/process/standard`) | the generations under way, behind one mutex | `OnGenerate`, `OnPrepare`, `OnExecute`, `OnContribute`, `OnCommit`, `OnAbort` |
| sender, receiver, peers | connection pools; the list of peers | remote calls between servers |
| interchange commands (`slashingprotection.go`) | the store, while dirk is stopped | export, import |

### How they interact

A request runs in a goroutine of its own. The signer looks the account up, asks
the checker, unlocks the account if it has to, and calls the ruler. The ruler
locks the request's keys in the order in which the request names them, under a
mutex that lets only one goroutine gather locks at a time; runs the rules; and
unlocks. The rules read the key's state from the database, compare, and write
the new state *before* they answer. Only then, without any lock, does the signer
sign. Everything the goroutines share is the locks, the database and the
accounts' unlocked state.

A key generation is driven by the server that a client has asked. It calls
prepare and execute at the participants one after the other and commit at all of
them at once. In execute, a server holds its own mutex while it calls the
participants of a higher id. Every call first obtains a connection from the
pool for its peer and keeps it until it returns. Nothing is rolled back when a
call fails.

An account is created on disk, in a wallet that the creating goroutine opens for
itself, and then entered into the fetcher's second caches, from which signing
requests, account management and lists take it.

### What is hard, and what must hold

| Part | Hard behaviour | What makes it correct |
|---|---|---|
| rules, ruler, store | read, check and write of concurrent requests; batches that share keys; a store that fails part way; a crash between storing and signing; uint64 kept as int64 | nothing slashable is signed; a signed duty is on disk; marks only rise |
| locker | creation of a mutex on first use races its use; groups of keys in any order | one holder per key; no unlock of an unlocked mutex; every caller served |
| process | generations of one account overlap; calls are lost, time out or are repeated; crashes; mutexes held across calls | a reported key can be signed with, and no participant's secret is missing; every generation ends |
| interchange | partial imports, old files, zero values | no conflict across servers; an import never lowers protection, is complete, and can be repeated |
| fetcher, lister | caches filled while they are read; lookups in two steps; restarts between disk and cache | what was created is found, by name and by key; answers and lists are exact |
| checker | overlapping paths in an order that changes with every start | nobody gets what the configuration does not grant |
| scatter | division of a batch among goroutines, errors, closed channels | every entry once; every caller gets an answer |
| sender | a pool of connections at its limit, held while peers are busy | every generation ends |

`PROJECT.json` lists every component with its status, and every hazard with its
place in the code and the properties that would catch it.

## 2. Modules

    SlashingRules        decisions of the rules, stored values (no variables)
      RulesProofs          what is stored is what is read back
      Signing            signer + ruler + locker + rules + store + accounts
        SigningProofs      locks, types, fresh reads
          SlashingProofs   nothing slashable, durability, monotonicity;
                           Signing implements SlashingProtection
      Interchange        export and import between servers
        InterchangeProofs  no conflict across servers, imports
    SlashingProtection   what Signing promises (abstract)
    KeyLocker            the locker, one atomic operation at a time
      KeyLockerProofs      exclusion, no panic; KeyLocker implements KeyLock
    KeyLock              what KeyLocker promises (abstract)
    KeyGeneration        process + sender + receiver + peers on several servers
      KeyGenerationProofs  a reported key is signable, joint and the only one
    Permissions          the checker (no variables)
      Accounts           fetcher + lister + managers + creation of accounts
        AccountsProofs     the checker, caches, lookups, lists
    Scatter              a batch divided among goroutines
      ScatterProofs        every entry once, no worker left, errors reported
    MCSigning, MCKeyLocker, MCKeyGeneration, MCInterchange, MCAccounts,
    MCScatter            instances for TLC

### SlashingRules and Signing

`SlashingRules` has the two conversions between uint64 and int64, the encoding of
what is stored (a version byte and words, or nothing at all), and the conditions
of `OnSign`, `OnSignBeaconProposal` and the attestation checks. `Half` stands
for 2^63.

`Signing` is the path of a request, one goroutine each. `pc` says where the
goroutine is; the table gives the actions in order.

| Action | Code |
|---|---|
| `SignGeneric` ... `SignBeaconAttestations` | input checks of the five methods and of their handlers |
| `PreCheck`, `PreCheckFailed` | `preCheck`: fetch, check, unlock; entries of a batch in any order, as `Scatter` does |
| `RunRules`, `PreLock`, `Lock`, `PostLock`, `Unlock` | `runner.go`, with its test for repeated keys |
| `OnSignAll`, `RefuseProposalDomain` | rules that answer without state |
| `FetchState`, `FetchStateFails` | reading the state, a step of its own |
| `OnSignBeaconProposal`, `OnSignBeaconAttestation(s)` | check, write and approve |
| `RulesReturn`, `SignRoot`, `Reply` | the signer after the ruler, and its answer |
| `LockAccount`, `UnlockAccount` | account manager, at any time |
| `Crash` | the process dies and restarts: the database stays, memory goes |

A store that reports an error may or may not have written, and for a batch may
have written any of its entries (`storage.go` moves on to a new transaction when
one is full). `granted` and `signed` are history variables: the duties approved,
and what was signed.

`SlashingProtection` is the promise: one mark per key and kind of duty, moved
atomically to a duty that lies beyond it, and signatures only for duties that
moved a mark. `Signing` implements it (`KeepsPromise`) with the marks read back
from the database.

### KeyLocker and KeyLock

`KeyLocker` has one action for each operation on `sync.Map` or `sync.Mutex`,
including the second look under the creation mutex. A mutex is an address, so a
key with two mutexes is a state that the model could reach. `KeyLock` is one
lock per key, seen from both sides: `holder` is what the next caller meets (the
mutex that the map has for the key now), `held` what each goroutine has been given
and not given back (its batch, up to its count). Both change in the same step,
an `Acquire`, or a `Release` by the goroutine that holds the key. A mutex that
took the place of a held one, or an unlock of somebody else's, would change one
without the other. `Signing` takes locks at the level of `KeyLock`.

### KeyGeneration

Several servers, several calls of `OnGenerate`, each an action per remote call.
Polynomials are symbolic: a share is the set of polynomials that it sums, and
signatures compose when their signers sum the same polynomials and none has
more coefficients than there are signatures. Faults are a call lost before or
after its effect, an expired generation, an abort from a peer, and a crash.
`CommitPanics` is the index out of range in `OnCommit` that a contribution of a
different threshold causes.

A run has in `held` the peers to which it has a connection, and `OnExecute` at a
server keeps in `executing[p].to` the peer that it is calling. `ConnectToTarget`,
`ConnectToHigher` and `ConnectToCommit` are the steps in which a connection has
been obtained but the peer is busy; a call that is served at once obtains its
connection in the same step. When a server goes down, the calls that it serves or
keeps waiting fail, and so do, in turn, the calls of those that were waiting for
it inside `OnExecute` (`Broken`, `Dies`).

### Permissions and Accounts

`Permissions` has the test of the configuration (`ParametersOK`), the orders in
which it may come out of a Go map (`Accesses`) and `Check`. A regular expression
is the set of names that it matches. `SaysFirst`, `Covers`, `Granted` and
`Denied` say what a configuration means without regard to how it is read, and
are what `Check` is compared with.

`Accounts` is one server and its disk.

| Action | Code |
|---|---|
| `Start`, `Crash` | `New` and `populateCaches` of the fetcher; memory goes, the disk stays |
| `OnGenerate`, `OnCommit` | the checks before an account is created, for a client alone or for a peer's commit |
| `CreateAccount`, `Created` | writing it to disk, then `AddAccount`: two steps |
| `ByName`; `FetchAccountByKey`, `ByKey` | `preCheck`; a lookup by key is two steps |
| `ListAccounts`, `ListPath` | the lister, path by path |
| `LockWallet`, `UnlockWallet` | wallet manager |
| `NewWallet` | external: a wallet made with another tool while the server runs |

A request keeps, as history, what the fetcher knew when it began (`before`).
The first caches never change after the start, so reading one of them and reading
its second cache under the lock are one step. Assumptions: wallets have different
names, also across stores; the wallet library refuses a name that
is on disk, although it was opened before (if it did not, two creations at once
could give one name two keys, and nothing in dirk would notice); every wallet
on disk can be decoded (the server does not start otherwise).

### Scatter

The caller, its workers and the two channels, one action per send and receive.
A worker may fail at any entry. Sending on a closed channel is a panic.

### Interchange

An operator moves the signing between servers: export, import, start. An import
computes its map first and then writes proposal and attestation of each key, any
of which may be the last thing it does. Files from elsewhere may be imported at
any time. The behaviour of the operator is an assumption, stated in the module:
a server is started only if it is the one that was retired or has taken in the
latest export in full.

## 3. Runs

States are distinct states on the bounds of the cfg.

| Run | States | Shows |
|---|---|---|
| `signing_proposals` | 470,700 | proposals and generic data for one key, all refusals, failing stores, account locking, crashes: no double proposal, signed duties on disk, fresh reads, rising marks; implements `SlashingProtection` |
| `signing_attestations` | 455,243 | single votes and batches over two keys in either order or one key under two names, and a vote sent as generic data: no double or surround vote, keys exclusive, a result for every entry; implements `SlashingProtection` |
| `signing_progress` | 82,942 | overlapping batches in opposite orders are all answered |
| `signing_overflow` | violation | see findings |
| `locker_safety` | 27,485 | exclusive keys, no panic, everybody served; implements `KeyLock` |
| `generation_pair` | 231,311 | two servers with one connection to each, overlapping generations of one account and of two, two faults: success means signable, keys are joint, every generation ends |
| `generation_triple` | 548,950 | three servers, different thresholds at once, one fault: success means signable, one key per name |
| `interchange_moves` | 574,989 | two keys, one that votes and proposes from 0 on and one with rival blocks: no conflict across servers, imports never lower a mark, are complete, and can be repeated when cut short |
| `interchange_repeated` | violation | see findings |
| `accounts_access` | 118,667 | created accounts are found, lookups and lists are exact, nothing is granted that the configuration does not grant, and the order of its paths does not matter unless they contradict each other |
| `permissions_denial` | violation | see findings |
| `scatter` | 99,079 | every entry once, no send on a closed channel, errors reach the caller, the caller returns |

### Bounds

* `Half` is 2, 3 or 4 instead of 2^63. The values below `Half` are the ones that
  int64 holds as they are. Two slots, or votes that surround each other, are
  the smallest instances of every conflict; 0 is always among them, because it
  is next to the -1 of an absent state. `signing_overflow` takes the whole of
  uint64.
* The duties of `interchange_moves` differ by key to keep both in reach. The votes
  of the one are (0,1), (0,3), (1,2) and (1,3): a double vote, a surround vote,
  and legal histories of two and of three of them. The other has two blocks for
  slot 0.
* Two goroutines and two keys: a conflict, a race or a circle is between two.
  The proofs have no such bound.
* `Mutexes` has one for each key and one more for each goroutine that could be
  using a lost one (locker), so that creation is never held up by the bound.
* `MaxFaults` bounds faults in `KeyGeneration`: two allow, for two overlapping
  generations, a fault in each, or a lost answer followed by an expiry or a
  crash. `Runs` bounds the calls of `OnGenerate`: overlap is between two.
* `MaxConnections` is 1 or 2 instead of 32. With 32, pools are only exhausted by
  more calls than TLC can follow; with 1 two generations always compete.
* `Keys` of `Accounts` bounds the accounts that can be created: two more than the
  first ones, so that two goroutines can create at the same time. One key lies in
  two wallets from the beginning.
* `MaxItems` is 5 and `MaxProcs` 4 in `Scatter`: fewer entries than processors, as
  many, extents that divide the batch and extents that do not.
* Symmetry is used in safety runs only (runs of a generation; goroutines and
  unused keys of `Accounts`).

### Deadlock and fairness

`CHECK_DEADLOCK FALSE` is where the system may come to rest: a signing server
whose clients ask for nothing more has only crashes left, calls of `OnGenerate`
are used up, a server pair may have no duty left to grant, and a call of
`Scatter` ends.

`FairSpec` in `Signing` and `KeyLocker`: a goroutine that can take a step does
(WF; the Go scheduler), and one that waits for a mutex that is free again and
again gets it in the end (SF on the acquisitions): `sync.Mutex` goes into
starvation mode and hands itself to a waiter after a millisecond. In `Signing`
the keys' locks need only WF, because who waits for one holds the locker-wide
mutex and nobody can overtake. In `KeyGeneration` a call that can be served is
served (WF); no fault is assumed to happen, not even the timeout of a call. In
`Scatter` the caller and each worker are goroutines that are run (WF).

## 4. Proofs

Every invariant and every action property of the passing runs, and both
refinements, are theorems: they hold for any number of goroutines, keys, servers,
accounts, requests and faults, and for batches and files of any length. The
constants satisfy the `ASSUME` of the module that declares them, which TLC
evaluates in every run. Each module first defines its inductive invariant, then
proves one lemma per action, and derives the properties at its end. TLC checked
each inductive invariant on the bounds of the runs before it was proved.

### Signing

`RulesProofs`: whatever is stored as a proposal or an attestation state is what is
read back (`Conversions`, `ProposalStore`, `AttestationStore`).

`SigningProofs`:

* `LockInv` == types, and `LocksOK` for each goroutine: the locks it counts are
  its own, in the rules it has all of them, and its keys are known and
  different. Alone, `RulesExclusive` is not inductive: it takes the count of
  locks to know that a goroutine that enters the rules owns every key.
  `TypeCorrect` and `Exclusion` follow.
* `FreshInv` adds `StateReadIsFresh`. A step that writes a key's state is taken
  by a goroutine that owns the key, and no other goroutine that has read a
  state of the key can own it (`OtherMarks`). `Freshness` follows.

`SlashingProofs` adds `SafetyInvariant` and needs the assumption `InRange`, that
no slot or epoch asked for is 2^63 or more; `signing_overflow` shows that this
cannot be left out. Since what was read is fresh, an approval lies beyond the
mark (`ProposalMoves`, `AttestationMoves`); granted duties lie behind the marks,
so a new one is compatible with all of them (`NewGrants`, `GrantedStep`); and
what is signed has been granted or is no beacon duty (`ResultsStep`). From it:

| Theorem | States |
|---|---|
| `Safety` | the inductive invariant holds |
| `ProposalSafety` | no key signs two blocks for a slot |
| `AttestationSafety` | no key signs a double or surround vote |
| `Durability` | what is signed is covered by what is on disk |
| `Monotonicity` | no step lowers a mark |
| `Increase` | every approval lies beyond all earlier ones |
| `PromiseKept` | `Signing` implements `SlashingProtection` |

For `PromiseKept` every step is shown to be a step of the abstract specification
or to leave its variables alone. A step that writes states moves the marks of the
entries that it stores, all at once; `SignRoot` is the abstract `Sign`, since what
is about to be signed is in `granted`; the others are stuttering.

### KeyLocker

`LockerInv` == types, `Progress` (where a goroutine is decides what it has counted
and created), `Placed`, `OneKeyPerMutex`, `HeldIsLocked` and `NeverPanics`. A mutex
enters the map under the creation mutex only, and only where there is none: so
the mutex of a key is never replaced or shared, and what a goroutine has locked
is still what it finds under its key when it unlocks. `TypeCorrect`, `Exclusion`
and `NoPanic` follow, and `Refinement`: the locker implements `KeyLock`, in which
the holder of a key is the holder of the mutex that the map has for it, and
what a goroutine holds is what it has counted. `Acquire` and `Unlock` are its two
actions, and every other step leaves both alone. `Store` does because of `Placed`:
the key had no mutex, so none that is held is lost (without the second look under
the creation mutex this fails, and TLC shows how). `Unlock` does what `Release` says
because of `HeldIsLocked` and `OneKeyPerMutex`: the mutex found under the key is the
caller's own, and no other key's.

### Interchange

`InterchangeInv` == types, `StoresOK` (there is no target without a source),
`BackupOK`, `JobOK` (what an import will write is not behind the store, and what
it has written is there), `GrantsOK` and `NoConflictAcrossServers`. `GrantsOK` is
what carries the argument over a move: while a server signs, what was granted is
behind its marks; while none does, it is behind the latest export and behind the
marks of every server that has taken the export in. `TypeCorrect`, `NoConflict`,
`NeverLowers` (`ImportNeverLowers`) and `Repeatable` (`ImportCanBeRepeated`) follow.

`Complete` (`ImportIsComplete`) has a hypothesis: the votes of the file that is
imported have no negative source (`Forward`). `ParseInt` accepts one, and the
import stores nothing of the votes of a key whose highest source is -1, not even
the target (`rules/standard/slashingprotection.go:84`). Every file that dirk exports satisfies it. The runs' files from
elsewhere do, too.

### KeyGeneration

`KeyGenerationInv` == `GenerationsOK`, `ExecutingOK`, `StoredOK`, `RunsOK` and
`KeysOK`. `KeysOK` is the argument: the public key that a server has answered a run
with is the one of the share that it has stored, and it has answered only one run
of that account. It is inductive because a stored share is never replaced. A run
that succeeds has the same key from all participants, so that all have stored the
sum of the same polynomials (`Signable`); each sum includes its server's own
polynomial (`Joint`); and two runs of one account cannot both have an answer of
one server (`OneKey`). No fault is excluded: lost calls, lost answers, expiry,
aborts, crashes and `CommitPanics` are steps like any other.

### Accounts and Permissions

The checker first. `VerdictFacts`, `CheckIsGranted` and `GrantedIsChecked` compare
`Check`, which reads a list in some order, with what the configuration says: what
it allows is granted, and what is granted and nowhere denied it allows, for every
order in which the Go map may yield the paths. The assumption is that each
client's permissions are finitely many.

`AccountsInv` == `DiskOK` (a path is on disk once, and what was created was allowed),
`ServerOK` (a server that is down keeps nothing), `UnlockedOK`, `CachesOK` and
`RequestsOK`. `CachesOK` says that each cache by name and the cache by key beside it
agree with each other and with the disk, that the two pairs have no path in
common, and that an account that is in neither is about to be added by some
goroutine or is in a wallet newer than the caches. `RequestOK` says what a request
has seen so far: the path found for a key still leads to that key, the paths
before `next` have been listed. Other goroutines cannot spoil this, because a
running server only adds to disk and caches (`Steady`, `RequestKept`). From it:

| Theorem | States |
|---|---|
| `TypeCorrect` | types |
| `Reachable` | `CreatedIsReachable`: what is on disk is found by name and by key |
| `Lookups`, `Lists` | `LookupsAreExact`, `ListsAreExact` |
| `Access` | `AccessIsGranted`: shown, unlocked and created only what is granted |
| `Order` | `AnswersIgnoreOrder` |

### Scatter

`ScatterInv` == types, `CallerOK`, `ErrorOK`, `TouchedOK`, and for each worker
`WorkerOK` and `AnswerOK`: a worker that has ended has its answer in one channel or
with the caller. With the arithmetic of the extents (they cover the batch and
meet nowhere) `EntriesOnce`, `NobodyLeft` and `ErrorsReported` follow, for every
length of a batch and number of processors.

### Only model-checked

`EveryRequestAnswered`, `EveryCallServed`, `EveryGenerationEnds` and
`ScatterReturns`: liveness under fairness is out of the prover's reach. Also the
three runs that show a violation, which are counterexamples.

## 5. Findings

* **An interchange file that lists a key twice** (`interchange_repeated`).
  `slashingprotection.go:217` and `:234` promise the highest values across all
  provided attestations and proposals. Each entry is compared with the store
  alone and put into one map, so the last entry for a key wins and higher
  protection in an earlier one is lost without a message.
* **Slots of 2^63 and more** (`signing_overflow`).
  `rules/standard/signbeaconproposal.go:89` says that the slot must be greater
  than the previous one; a stored slot of that size reads as negative and is
  not compared. No chain reaches such slots.

* **No implicit denial** (`permissions_denial`). `docs/permissions.md:72` says that
  each list of permissions ends in an implicit denial. `Check` goes on to the
  next path that matches when a list does not mention the operation, and that
  path may allow it. What is allowed is always allowed by some list
  (`AccessIsGranted`).

Without a run: `services/locker/syncmap/service.go:59` says that with `PreLock` only
one goroutine locks or unlocks groups of keys at a time. Unlocking does not take
that mutex, and need not: the properties of the locks hold all the same.

## 6. Not modelled

* Nil requests and missing credentials: a programming error of the caller,
  refused before anything else happens.
* Failures inside the BLS library, hash tree roots (different data have
  different roots), the JSON and hex encodings of the interchange file.
* Values of the store in the gob encoding of older versions, and values that
  cannot be decoded: this code does not write them. A fetch that fails is
  modelled, for whatever reason.
* A failure of `contribution` in `OnPrepare`
  (`services/process/standard/service.go:124`), which leaves a generation behind
  that lacks the server's own contribution. It takes a BLS key that cannot be
  generated.
* Badger itself and its garbage collection. The closing of the store at shutdown
  looks like a crash to requests under way.
* Two stores with a wallet of the same name: which one the fetcher keeps depends
  on the scheduler, and nothing says which it should be.
* Case in names and the anchoring of regular expressions; the wallet libraries.
* An account that several paths of a list request select is listed more than
  once; the model has the set of accounts.
* Configuration (but for the order of permissions), certificates, the gRPC
  server, metrics, tracing and logging: they are set up once, or only put out
  what others compute, and have no behaviour over time to check.

## 7. Plan

Done, in this order: `SlashingRules`, `Signing`, `SlashingProtection`,
`KeyLocker`, `KeyLock`, `KeyGeneration`, `Interchange`, the proofs of `Signing`;
then `Permissions`, `Accounts`, `Scatter`, and the connection pools in
`KeyGeneration`; then the proofs of both refinements and of all the safety
properties of `KeyLocker`, `Interchange`, `Scatter`, `KeyGeneration` and
`Accounts`. The parts that keep state are all modelled.

Next:

1. `NothingSlashable` from `SlashingProtection` alone, so that the abstract
   specification carries the safety argument by itself.
2. What the import stores for a key that a file lists twice, as a theorem that
   says exactly what is lost (`interchange_repeated`).
3. Lemmas that come close to the liveness properties: in `Signing` and `KeyLocker`
   no circle of goroutines that wait for each other, as an invariant.
