# A TLA+ model of River

River is a messaging protocol. Its data are *streams*: append-only logs of signed
events. Each stream lives on stream nodes (Go, `src/core/node`), which collect
events in a *minipool*, seal them into *miniblocks* and record the last miniblock
of every stream in a contract on the River chain (Solidity, `src/contracts`).
Clients (TypeScript, `src/core/sdk`) create streams, add events and *sync*: they
subscribe with a cookie and receive what came after it. Events are encrypted, and
the devices of the members exchange the keys (`src/core/encryption`). A second
server, *xchain* (`src/core/xchain`), answers entitlement questions about other
chains.

The project models the life of a stream on its node in depth, and the components
around it one by one. All of it is checked with TLC. The safety of the stream and of
eleven of the components around it is proved with TLAPS for all values of the constants,
and so is that a stream implements an append-only log; section 5 lists what is only
checked. `PROJECT.json` lists components, runs, the source lines of every definition,
findings, hazards and theorems.

## 1. The parts and their modules

| Part | Source | Module | Proofs |
|---|---|---|---|
| Stream view | `node/events/stream_view.go`, `minipool.go`, `miniblock.go` | `StreamView` | as part of `Stream` |
| Storage of a stream | `node/storage/pg_storage.go` | `StreamStorage` | as part of `Stream` |
| Stream, cache, producer, `AddEvent`, registry | `node/events/stream.go`, `stream_cache.go`, `node/rpc/add_event.go`, `StreamRegistry.sol` | `Stream` (one stream), `StreamProps`, `StreamLog`, `StreamInv` | `StreamProofs`, `StreamChainProofs`, `StreamTheorems` |
| Transaction pool | `node/crypto/chain_txpool.go` | `TxPool` | `OnChainProofs` |
| Single-node lock | `node/storage/pg_storage.go`, `node/rpc/server.go` | `SingleNodeKey` | `RestartProofs` |
| Replication, quorum | `node/rpc/replicated_add.go`, `quorum_pool.go` | `Replication` | `QuorumProofs` |
| Chain monitor | `node/crypto/chain_monitor.go` | `ChainMonitor` | `OnChainProofs` |
| Cross-chain entitlement of a join | `xchain/server/server.go`, `EntitlementGatedBase.sol`, `MembershipFacet.sol` | `XChain` | `QuorumProofs` |
| Node registry and settings of a node | `node/nodes/node_registry.go`, `node/crypto/config.go` | `ChainViews` (extends `ChainMonitor`) | |
| Sync of many streams | `node/rpc/sync_streams.go`, `sync_subscription.go` | `SyncSubscription` | |
| Archiver | `node/rpc/archiver.go`, `archive.go` | `Archiver` | `NodeProofs` |
| Forwarded requests, sticky peer | `node/nodes/stream_nodes.go`, `node/rpc/forwarder.go` | `PeerRequests` | `QuorumProofs` |
| Authorisation caches | `node/auth/*.go` | `EntitlementCache` | `NodeProofs` |
| Client: sync loop | `sdk/src/syncedStreams.ts` | `ClientSync` | `ClientSyncProofs` |
| Client: key exchange | `encryption/src/decryptionExtensions.ts` | `KeyExchange` | `RestartProofs` |
| Client: view of a stream, persistence, sending | `sdk/src/streamStateView.ts`, `syncedStream.ts`, `client.ts` | `ClientStream` | |
| Client: members and names | `sdk/src/streamStateView_Members.ts`, `userMetadata_*.ts` | `MemberView` | |
| Client: start | `sdk/src/syncedStreamsExtension.ts` | `ClientInit` | `OnChainProofs` |

`MCStream`, `MCTxPool` and `MCSystem` instantiate the modules for TLC.

How the parts interact. An rpc handler gets a stream from the cache, which loads
its view from storage on demand; it validates the event on that view, asks the
authorisation code (calls to other chains, behind caches), and hands the event to
the stream, which writes storage first and its view second, and to the other nodes
of the stream, of which a quorum has to answer. At each new chain block, which the
chain monitor reports, the cache runs the producer: propose, build the header,
store the candidate, register it with the contract through the transaction pool,
then promote the candidate in storage and apply it to the view. Subscribers are
told of each change; a subscription of a client covers streams of several nodes.
Every database transaction checks that the process still owns the database. The
client starts by loading its streams, then runs one sync loop, updates the views
of its streams and members, and decrypts what it can.

A definition named `X_Y` (`PromoteBlock_KeepsGeneration`) is `X` with a plausible
mistake in it. These are not part of the specification; they show that a property
notices the mistake.

## 2. The stream

### Correspondence

| Model | Code |
|---|---|
| `view` (`NoView`: not loaded) | `streamImpl.view`; `blocks`, `minipool`, `snapshot`, `snapshotIndex` are the fields of `streamViewImpl` |
| `dbBlocks`, `dbSnapshot`, `dbGeneration`, `dbMinipool`, `dbCandidates` | tables `miniblocks`, `es`, `minipools`, `miniblock_candidates` |
| `registry`, `pendingTx` | `lastMiniblockNum/Hash` on the contract; transactions sent and not mined |
| `producer`, `work` | where the goroutine that produces a miniblock stands, and its proposal or block |
| `inflight`, `acked` | `AddEvent` requests between validation and write; those that returned success |
| `receivers`, `cookie`, `got` | subscribers of the stream; what each client was last sent and knows |
| `TryLoadStreamRecord`, `Load`, `Evict`, `ForceFlush`, `Crash` | cache miss, `loadInternal`, `tryCleanup`, `ForceFlush`, process restart |
| `CheckEvent`, `AddEvent`, `AddEventAmbiguous`, `AddEventFails` | `addParsedEvent` up to the permission check; `streamImpl.AddEvent` and its failures |
| `Propose`, `MakeMiniblockHeader`, `StoreMiniblockCandidate`, `SubmitTx`, `MineTx`, `LoseTx`, `ApplyMiniblock` ... | the steps of miniblock production, and the chain |
| `GetStream`, `Sub`, `Unsub` | reading, subscribing and leaving |

What runs under the mutex of the stream, and every database transaction, is one
action; everything else interleaves. *Ambiguous* variants are transactions that
commit although the caller gets an error, as a lost connection or an expired
context does.

Abstractions. An event is a model value and stands for its hash; headers get a
fresh number as hash (no collisions). The content of a snapshot is the set of
events folded into it. Whether an event is entitled is a choice (`AddEventFails`).
The clock is not modelled: an entry may expire at any time, and `isRecentBlock`
may answer either way. The inception events of the genesis block are left out. A
crash is a stop of the process; Postgres and the chain keep what they committed.

### Runs

| Run | Instance | Checks |
|---|---|---|
| `stream_faults` | 2 events, 2 requests, ≤4 candidates, one crash, one clean failure, one ambiguous commit, one forced snapshot | `AckedDurable`, `ChainIntegrity`, the inductive invariant `Inv`, and `ImplementsLog`: refinement of `StreamLog`, an append-only log with a sealed prefix |
| `stream_sync` | 3 events, 1 client, ≤6 candidates, one crash | `SubscriberComplete` (nothing visible is missed, whatever the age of the cookie), `SnapshotsComplete`, `CookiesStayValid` |
| `stream_retry` | clients resend after an attempt has ended, no ambiguous commit | `NoDuplicateEvents` |
| `stream_live` | 2 events, 1 request, fair producer and chain | `AckedGetsSealed`, `RegistryResyncs` (a registry ahead of storage is caught up with) |
| `stream_race` | 2 requests, clients resend while an attempt runs | **violated**: `NoDuplicateEvents` |
| `stream_ghost` | clients resend, one ambiguous commit | **violated**: `StoredStreamLoads` |

Bounds. Two events and two requests give every order of two adds around one
production; with `Generations = 1` and `MinEventsPerSnapshot = 2` blocks with and
without snapshots occur, views are trimmed and cookies fall out of the view. The
third event in `stream_sync` lets a block follow a trimmed one. Four candidates
allow a block to be abandoned and replaced twice. One fault of each kind is placed
at every point, and faults of different kinds combine. `MaxCandidates`,
`MaxCrashes`, `MaxFailures`, `MaxAmbiguous` and `MaxForced` are the only bounds in
guards. `stream_live` has six candidates so that production never stops on the
bound before its properties are decided.

Fairness (`StreamProps!Fairness`), weak for each step of the producer and the
mining of a transaction: `onNewBlock` runs for each block of the chain and starts
a production for each stream with events, its goroutine is scheduled, and the pool
sends a transaction again until it is included (`TxPool`, below). A registered
block loads its stream when it must (`ApplyMiniblock` calls `loadInternal`).
Nothing is assumed of requests, clients, evictions or faults.

### Findings

* `stream_race`: `addParsedEvent` validates an event on a view it read before the
  permission calls and adds it later without another look. Two calls with the same
  event both pass and both write it.
* `stream_ghost`: a write commits and reports an error, the client resends, the
  stream is reloaded between the validation of the resend and its write, and the
  event is stored twice in the minipool. `MakeStreamView` panics on the repeated
  key from then on.

### Proofs

For all sets of events, requests and clients, all values of `Generations` and
`MinEventsPerSnapshot` and any number of crashes, failures, ambiguous commits and
candidates:

| Module | Theorem | Statement |
|---|---|---|
| `StreamProofs` | `Invariance` | `Spec => []Inv` |
| | `TypeCorrect` | `[]TypeOK` |
| | `Durability` | `[]AckedDurable` |
| | `ViewConsistency` | `[]ViewTracksStorage` |
| | `StoredOnce` | `[]NoDuplicateEvents` |
| | `RegistryConsistency` | `[]RegistryTracksStorage` |
| | `RegisteredBlocksApply` | `[]RegisteredApplies` |
| | `AlwaysLoadable` | `[]StoredStreamLoads` |
| | `RegistryNeverGoesBack` | `RegistryMonotone` |
| `StreamTheorems` | `ReaderInvariance` | `Spec => []ReaderInv` |
| | `BlocksAreChained` | `[]ChainIntegrity` |
| | `SnapshotsAreComplete` | `[]SnapshotsComplete` |
| | `SubscribersAreComplete` | `[]SubscriberComplete` |
| | `CookiesAreValid` | `[]CookiesStayValid` |
| | `EventsAreNumbered` | `[]InvNumbers` |
| | `StreamImplementsLog` | `ImplementsLog`: the stream refines `StreamLog` |

Assumptions: `ViewAssumption` and `StreamAssumption` (types of the constants), and
`Retries = "none"`, that is, clients never send the same event twice. The last one
is needed: with resends two of the properties fail (the findings above).

None of the properties is inductive. `StreamInv!Inv` adds what relates the parts:
storage is consistent with itself; a loaded view is `Current` (storage has at most
one event more) or `Behind` (one promotion it has not heard of, whose events it
still has in its minipool); the producer's block extends a stored block with a
prefix of the minipool, and from the moment its candidate is stored it extends the
*last* stored block; whatever is on its way to the registry is a stored candidate
for the next number, the producer's own being the last of the queue; an event is
stored once and not while it is new or in flight; an acknowledged event is in a
block or in the minipool of a current view. The delicate case is promotion: the
new minipool is computed from the *view*, so that it drops nothing acknowledged
only because `Current` says what the view and storage share, and because `Behind`
makes `CanPromoteBlock` refuse.

What readers get needs a second invariant, `ReaderInv`, inductive relative to
`Inv`:

* `InvChain`: the stored blocks are chained, a snapshot among them holds exactly
  the events up to its block, and every stored candidate and the producer's block
  `Follows` the block before it: event count, last snapshot and, if it carries a
  snapshot, the events up to it and its own. Candidates are all for the next number,
  because a promotion deletes the others; the producer's header is computed from its
  view, which is why the window is needed.
* `InvWindow`: a loaded view is a `Window` of the stored blocks that includes its
  snapshot, and its own snapshot is that of the block it points at. Trimming in
  `copyAndApplyBlock` and loading from the last snapshot both give a window,
  although in general not the same one.
* `InvClient`: a client knows every event its cookie covers, in blocks and in
  slots of the minipool, and nothing that is not stored; a subscribed client knows
  all that is visible. Slots stay valid because the minipool of a generation only
  grows, in storage and hence across a crash: an ambiguous write can put an event
  in storage before the view has it but never another in its place.

*Refinement.* `StreamLog` has a sequence of events and the number of them that are
sealed; it may append an event that is new and seal a part of what is there. The mapping
(`StreamProps`) is what a client can see: with a view, the events of the blocks up to its
generation and then its minipool; without one, the blocks and the minipool in storage,
as the next load finds them. Which event of the blocks has a given number is read off the
`eventNumOffset` of the headers, so that the mapping needs no recursion, but it is only
right if the headers number the events without a gap. This is the third invariant,
`InvNumbers`, inductive relative to the other two: the first block starts at 0, each block
where the one before it ends, and every number belongs to a block. With it, applying a
block moves the boundary of the sealed part and leaves the sequence as it is (`LogSeals`);
adding an event appends it (`LogAppended`); and unloading a view makes visible what an
ambiguous commit left in storage: at most one more event, or a block whose events the view
had in its minipool (`UnloadLog`). All other steps leave the log as it is (`QuietLog`). TLC
compared the mapping with the flattened sequence of blocks on the instance of
`stream_faults`.

Layout: each action has a lemma `XStep` (*Inv and the action imply Inv'*).
`StreamProofs` has the facts on records, views and sequences and then the steps and the
theorems of `Inv`; `StreamChainProofs` the steps of `InvChain` and `InvWindow`, and the
facts on numbered sequences of blocks; `StreamTheorems` the steps of the clients, of
`InvNumbers` and of the log, and the theorems that need all three invariants.
A miniblock takes its events from the front of the minipool; `StreamView!Without`, what is
left of the minipool, therefore says that what remains of a sequence whose front is taken
is its end, which in general would need an induction (TLC compared it with the plain
selection).
Most leaves name their prover, `Zenon` where it is enough. `Inv` is a property of
`stream_faults`; `ReaderInv` and `InvNumbers` were checked with TLC on its instance,
`ReaderInv` also on that of `stream_sync` with a failure and an ambiguous commit.

## 3. The transaction pool

`TxPool` models `transactionPool`: `Submit` is one action, `OnBlock` is one action
per call to the chain (`OnBlock`, `DeliverReceipt`, `EndReceipts`, `Replace`,
`SkipReplace`, `EndReplace`), with `block`, `seenNonce` and `cursor` for where it
stands. The chain (`Mine`, `Drop`, `PendingNonceAt`, `Send`) is modelled from how
the pool uses it and marked external. Prices are abstracted: whether a waiting
transaction is eligible for replacement is a choice.

| Run | Instance | Checks |
|---|---|---|
| `txpool_faults` | 3 jobs (symmetric), ≤4 transactions, a drop, a failure, an ambiguous send, a restart | `ExecutedOnce` (a job is executed once and its caller gets the receipt of that execution), `ReceiptsInOrder` |
| `txpool_live` | 2 jobs, 2 drops, 1 failure | `WaitEnds` (every caller gets an answer), `ReceiptKnown` |
| `txpool_ghost` | 2 jobs, one ambiguous send | **violated**: `ReceiptKnown` |
| `txpool_gap` | 2 jobs, a restart and a drop | **violated**: `WaitEnds` |

`MaxHash` bounds replacements of transactions that still wait; one that the network
has dropped can always be sent again, so the bound never stops progress. Fairness
is weak for the chain and for each step of `OnBlock`, and strong for the
replacement of the transaction the chain waits for: its deadline has passed, so
the policy does not refuse it for ever. Deadlock is not checked: the pool may have
nothing left to do.

Findings: a replacement that reached the network although its send returned an
error is included under a hash the pool does not know, and `OnBlock` waits for its
receipt without end with the mutex held (`txpool_ghost`); after a restart a dropped
transaction of the earlier process leaves a gap in the nonces that nothing fills
(`txpool_gap`).

In `OnChainProofs`, for all jobs and bounds:

| Theorem | Statement |
|---|---|
| `PoolInvariance` | `Spec => []PoolInv` |
| `JobsExecuteOnce` | `[]ExecutedOnce` |
| `ReceiptsComeInOrder` | `[]ReceiptsInOrder` |
| `ReceiptsAreKnown` | `[]ReceiptKnown`, when `MaxAmbiguous = 0` and `MaxCrashes = 0` |

The two conditions of the last theorem are needed: `txpool_ghost` violates
`ReceiptKnown` with an ambiguous send, and after a restart the new process can choose
a nonce under which a transaction of the old one still waits, when the network has
dropped another. The invariant `PoolInv` says that a nonce is used once on the chain
and a hash names one transaction (`ChainInv`); that the list holds the waiting jobs in
the order of their nonces, each once (`ListInv`); that all transactions of a job have
one nonce and the recorded hashes are hashes of their job (`JobInv`); and that without
ambiguous sends and restarts the pool knows the hash of all it has sent (`KnownInv`).
It was checked with TLC on the instances of `txpool_faults` and `txpool_live`.

## 4. The components around the stream

`MCSystem` extends one module per component. They share no variable, so each is
explored by itself with the others at their start, once per member of a set of
*bounds*: records that say how often each fault or input may happen (`syncBound`,
`keyBound`, ...). A bound is a variable that never changes, so that one run covers
several small instances, each of which turns on what belongs together. The two runs
are `system` (safety) and `system_live` (liveness).

| Module | State and actions | Properties |
|---|---|---|
| `ClientSync` | an action is the code between two awaits; `loops` are calls of `createSyncLoop`, `sess` the sessions on the node, `addCall`/`removeCall`/`stopCall` calls in progress, and the timers | `NothingMissed`: a view has every event up to its cookie, but those of updates on which `onUpdate` threw; `OneLoop`; live: `Delivered` |
| `KeyExchange` | queues and the tick of every device, solicitations in the stream, inboxes with acknowledgements, restarts | `NoEventStuck`: no event is dropped on its way through the queues or waits for a key that is there; `AckedKeysStored`: the keys of acknowledged messages are stored, but those of messages that failed; live: `EventuallyDecrypted` |
| `ClientStream` | the timeline, the records in the database of the browser, updates, resets, scrollback, sending with retries, restarts between two writes | `NoGap`, `ShownOnce` |
| `MemberView` | events appended, confirmed and decrypted in any order, snapshots, setting a name | `CurrentName`, `LatestMetadata` |
| `ClientInit` | the tasks of `start()`, loads with a limit of concurrency, the timer of the ticks | `LoadedBeforeSync` |
| `SingleNodeKey` | transactions of several processes with their snapshots; Postgres commits what stays serialisable; the notification and the exit channel | `OwnerCacheCurrent`; live: `DisplacedExits` |
| `SyncSubscription` | the maps of a subscription, a goroutine per remote node, the bounded channel, concurrent adds and removes | `ServedOrCancelled`, `NoUpdateLost` |
| `ChainMonitor`, `ChainViews` | the loop over heads and ranges, two goroutines per range, providers that are behind; the registry and the settings fed by the events | `NoBlockSkipped`, `ViewsFollow` |
| `Archiver` | workers, the queue, timers, contract events, archive rows, restarts | `BehindHasTask`; live: `ArchivedInTheEnd` |
| `Replication` | tasks at each node, their answers, `Wait` | `QuorumsMeet` |
| `PeerRequests` | the shuffled remotes, the sticky peer, concurrent requests | `NoPeerPassedOver` |
| `EntitlementCache` | a stack of caches with expiry, concurrent lookups, time | `AnswersFresh` |
| `XChain` | the requests, votes and token of one join, on the contract and at the nodes | `MajorityDecides`, `TokenOrRefund`; live: `JoinAnswered` |

`SystemTypeOK` joins the type invariants. The comment of each property in its module
says what it means and under which conditions; a condition excludes a case in which
the code does not keep the property, and section 6 says which.

Bounds. The set of bounds of each component is commented in `MCSystem`. Each is
chosen for a scenario (a session that breaks while events arrive; a takeover while
transactions run; two streams of a new node that are added at once) and small enough
that all of them together finish in minutes. Model values are used for devices,
streams and messages; the sets are not declared symmetric since the bounds name
members. Among the faults of the client are an update on which `onUpdate` throws
(`badUpdates`), a decryption that fails although the key is there (`errors`) and a key
message that cannot be downloaded, decrypted, imported or acknowledged
(`lostDownloads`, `badSessions`). What such a fault costs is kept in history variables
(`unapplied`, `abandoned`, `spoiled`), so that the properties hold in every state and say
which events and keys they are not about. The liveness run has a bound with three
devices, one of which has no keys, and one with a decryption that fails.

Fairness. Weak for the handlers that the JavaScript or Go scheduler runs without
waiting for anybody (loops, ticks, goroutines, timers that are armed) and for calls
that the network answers when the bound says that it loses none. Nothing is assumed
of users, of faults or of the order between components. Deadlock is not checked in
these runs: a client may have nothing to do.

### Proofs

| Module | Theorem | Statement |
|---|---|---|
| `RestartProofs` | `OwnerInvariant` | `OwnerSpec => []OwnerInv` |
| | `OwnerIsCurrent` | `[]OwnerCacheCurrent` |
| | `KeyInvariant` | `KeySpec => []KeyInv` |
| | `NoEventIsStuck`, `AckedKeysAreStored` | `[]NoEventStuck`, `[]AckedKeysStored` |
| `OnChainProofs` | `LoopInvariant` | `MonitorSpec => []MonitorInv` |
| | `NoBlockIsSkipped`, `NothingIsAhead` | `[]NoBlockSkipped`, `[]NothingAhead` |
| | `BlocksComeOneByOne` | the action property `BlocksOneByOne` |
| `QuorumProofs` | `JoinInvariant` | `JoinSpec => []JoinInv` |
| | `MajorityDecidesOnce` | `[]MajorityDecides` |
| | `TokenOrMoneyBack` | `[]TokenOrRefund` |
| | `WaitInvariant` | `ReplicationSpec => []ReplicationInv` |
| | `SuccessesMeet`, `WaitIsAnswered` | `[]QuorumsMeet`, `[]WaitReturns` |
| | `NoPeerIsPassedOver` | `PeerSpec => []NoPeerPassedOver` |
| `ClientSyncProofs` | `OneLoopRuns` | `SyncSpec => []OneLoop` |
| | `NothingIsMissed` | `[]NothingMissed` |
| `OnChainProofs` | `SyncStartsLoaded` | `LoadSpec => []LoadedBeforeSync` |
| `NodeProofs` | `CachedAnswersFresh` | `CacheSpec => []AnswersFresh` |
| | `ArchiveKeepsTasks`, `ArchiveTypeCorrect` | `ArchiveSpec => []BehindHasTask`, `[]ArchiveTypeOK` |

Each is for every set of processes, devices, nodes, streams, roles or calls and every
bound, from the assumption on the constants of its module only. Among these are that
a request may be tried at least once (`PeerBound`), that a client has finitely many streams
(`LoadAssumption`) and that the times to live are positive (`CacheAssumption`). Each
inductive invariant was checked with TLC on the instances of `system` first. A proof module
may hold the proofs of several components; they share nothing but the library.

*Ownership of the database.* The interesting case is a transaction of the old process
that commits after the takeover, which Postgres allows as long as it can be serialised
before it. `OwnerInv` says that a process in the table took over in some committed
transaction `k`, that the open transactions of the other processes have not seen `k`,
and that what the owner has in memory is what is stored and was read by a committed
transaction that has seen `k` and has read the key and the data. If another process
committed a write after that read, the write would precede the takeover (it read the
key before), the takeover would precede the read, and the read would precede the write
(it has not seen it): a cycle, which Postgres refuses. A load that is still open may
have missed such a write, but then it cannot commit. This is why `compareUUID` has to
be part of every transaction.

*Key exchange.* Messages of the inbox reach a device over two queues: the new ones, and
those that it downloads again after a restart. An acknowledgement is sent when no
new message is left and covers all messages so far, the downloaded ones and those that
failed included. `KeyInv` therefore says of every message that the device has enqueued that
its keys are in the crypto store or `spoiled`, or that it `Waits`, in one of the queues or in
the tick at hand, and that no tick has a new message while older ones are to
be downloaded. An event is only ever moved between the places that `NoEventStuck` lists (an
event that fails its retry for another reason than its key goes to `abandoned`); it
cannot be left with the failures when its key is imported, because the import looks at
them in the same tick.

*Chain monitor.* `MonitorInv` says that what was announced and logged is what lies
before the two positions in the current range, and that ranges follow each other. The
theorems hold for every limit of a range and lag; their conditions (`Sound`,
`~behind`) are those of section 6.

*Quorum.* `ReplicationInv` follows `Wait` answer by answer. Two quorums of an odd
number of nodes meet by counting, for every number of nodes.

*Join.* `JoinInv` says that until the transaction is removed the votes on the contract
are those that were cast and no result was posted, and that a removed transaction is
not registered again; the rest is counting. `TokenInv`, relative to it, says that while
a check is registered nothing was issued, rejected or refunded and all that was paid is
captured, so that a rejection by the nodes pays back all of it.

*Sync loop.* `LoopInv` is about the loops, their state and `stopSync`: a stop is waited for
only in `Canceling` or `NotSyncing`, and its timer is armed only while the call waits, so
that it never ends a loop that was started later. `ViewInv`, relative to it, is about the
updates on their way to a view, in the session and in `responsesQueue`. An update moves the
cookie of its view to where it ends; nothing is missed because an update of the session
begins at or before the place where the view, the update at work or another update of that
session on its way ends (`ItemOK`), never ends before the view does (`ViewUpTo`), and the
updates of a stream come in order (`Sorted`). An update on which `onUpdate` throws leaves the
cookie where it was, and its events are `unapplied` until another update brings them; what
the invariant says of the view it says of both together (`Had`). A new session is asked to
continue from cookies
that the update at work may still move, which is why `Base` looks at it; the updates of the
session before it that are still in the queue are dropped when their turn comes, and none of
the new one is in the queue before its id is known (`StartingOK`).

*Start of a client.* `LoadInv`: one tick runs at a time (`OneTick`), a job loads a stream at
most once (`JobOK`), and the counter of streams that need the network is never less than the
number of streams that the store did not have less those that the network was asked for
(`CountSuffices`), so that it reaches zero only when none is left. It is for a client that
has not been stopped: `stop()` in a tick lets two ticks run.

*Peers.* `PeersInv`: the peers before the sticky one have been found unavailable, and what a
request has asked lies before the sticky peer except for the one it asks now, because the
sticky peer moves only if it is still the peer that failed.

*Caches.* `CacheInv` bounds the age of an entry when it was made by what the caches below it
may add, and that of a value on its way up by those it has come from; a request that
overtakes another may write an older value over a newer one, and the bound covers that too.
`MaxAge` is a sum over the at most three caches of a stack, written out.

*Archiver.* `ArchiveInv`: as long as nothing has failed, what the archiver has counted is
what the database has, and a worker whose target is short of the contract of now has another
task behind it (`TasksSuffice`): the event that raised the number in the contract has queued
one.

## 5. Proved and only checked

Out of the prover's reach, and checked with TLC only:

* liveness: `AckedGetsSealed`, `RegistryResyncs`, `WaitEnds`, `Delivered`,
  `EventuallyDecrypted`, `DisplacedExits`, `ArchivedInTheEnd`, `JoinAnswered`;
* `NoDuplicateEvents` with resends (`stream_retry`): proved only without. The refinement
  of `StreamLog` is proved without resends too.

Checked and not proved: the properties of `ClientStream`, `MemberView`, `SyncSubscription`
and `ChainViews`, and the parts of `SystemTypeOK` other than that of the archiver. The models
of `ClientStream`, `MemberView` and `ChainViews` apply batches (an update, a snapshot, the
events of a range of blocks) with folds over sequences, and `SyncSubscription!NoUpdateLost`
is stated with one: what a fold computes for every sequence needs an induction over data.

A leaf that cites `SMTT(30), Z3T(30)` names its prover twice on purpose: the
translation of a leaf has a fixed time limit of its own in `tlapm`, which a long
module can reach, and the second name is the second try.

## 6. Where the code does not keep a property

Beyond the four findings, the models show the following. Each case is excluded by a
condition in the property that is named, so that the property says what does hold; for
`ServedOrCancelled`, `NoBlockSkipped`, `ViewsFollow`, `BehindHasTask`, `AnswersFresh` and
`LoadedBeforeSync` TLC confirmed that it fails without its condition.

* `OneLoop`: `createSyncLoop` rejects when a loop runs but does not return, and a
  `cancelSync` that fails leaves a timer armed that stops a later loop
  (`syncedStreams.ts:229`, `356`–`360`). `NothingMissed`: leaving and joining a stream
  again within a session. An update that cannot be unpacked, or whose cleartexts cannot
  be read, is logged and forgotten (`syncedStreams.ts:642`–`664`): the cookie stays, but the next update of the
  session starts behind the one that failed and moves the cookie past its events, which the
  view gets only if the session is opened again before. These events are `unapplied`, and
  `Delivered` excepts them too.
* `ServedOrCancelled`: a stream that is added between the first answer and the start
  of the subscription is never served; so is one whose add meets the removal of the
  last other stream of its node; a local stream whose subscription failed stays in the
  map, and adding it again reports success (`sync_streams.go:456`–`557`, `679`–`799`).
* `NoBlockSkipped`: a first head that is behind the start block makes an unsigned
  difference wrap (`chain_monitor.go:257`); a provider that lags in `FilterLogs` loses
  logs. `ViewsFollow`: removing a setting moves the last one to its place and leaves the
  list unsorted (`config.go:201`); the event of a deletion of all settings carries block
  0, for which the node removes nothing.
* `BehindHasTask`, `ArchivedInTheEnd`: a failed task is not put back; a write that
  commits and fails leaves a stale count that is refused until a restart; events before
  the callback is registered are lost (`archive.go:83`); a run that ends by itself may
  count a rescheduled task twice.
* `QuorumsMeet`: of an even number of nodes, half are a quorum.
* `NoPeerPassedOver`: after a wrap-around shuffle a request may ask a node twice
  ("Do not make more than one request to a single node", `forwarder.go:37`).
* `AnswersFresh` is tight: nested caches keep a revoked permission for the sum of their
  times to live.
* `LatestMetadata`: a duplicate username is ignored by a client that follows the events
  and kept by the snapshot; `CurrentName`: after a restart a stored text is shown without
  the check of its checksum (`userMetadata_Usernames.ts:54`).
* `LoadedBeforeSync`: `stop()` during a tick lets two ticks run (`syncedStreamsExtension.ts`).
* `TokenOrRefund`: a local role that passes after one that asks nodes issues the token
  and leaves the check registered. A join that `joinSpace` itself rejects, without asking
  nodes, is not paid back: the captured value is released and transferred to nobody
  (`MembershipFacet.sol:103`, `120`, `135`–`140`). What is paid above the
  price, and the payment of a join to which no enabled role has an entitlement, stay captured
  (`152`–`170`). The property says nothing of these payments.
* `AckedKeysStored`: a key message that fails, in its download, its decryption or the
  import of a key, has left the queue (`decryptionExtensions.ts:402`, `487`–`507`,
  `groupEncryptionCrypto.ts:154`), and a later acknowledgement covers it: its keys are `spoiled`
  and have to be asked for again. `NoEventStuck`: an event that fails its retry although
  its key is there is shown with its error and stays `abandoned` until a restart
  (`decryptionExtensions.ts:582`). `EventuallyDecrypted`: a new device is answered by the first device, complete
  or not.
* `NoGap`: with several headers in one update, the first record that is saved has the
  cookie of all of it.
* `DisplacedExits`: the exit channel has one slot and is read once, so a third error
  blocks inside its transaction and `pool.Close` waits for it (`server.go:503`).

Read in the code and not modelled: lock orders of the subscription and the streams
(`sync_subscription.go`), the size of the control channel, a reset whose snapshot cannot be
applied and leaves an empty view (`stream.ts:50`), `sort.StringSlice(x)` in
`snapshot.go`, which does not sort.

## 7. Not modelled

Several streams at once in the cache (`onNewBlockBatch`, start-up load): streams
share only the pool. Placement changes and sealing of a stream in the registry, and
the choice of nodes for a new one. The permission rules of `rules/` and the meaning of
each kind of event in a snapshot other than members and names: stateless functions of
one event and one view. Cryptography, protobuf encoding, HTTP, logging and metrics.
The Solidity contracts other than those named above: each call is one atomic
transaction over mappings. The typings and ABIs under `src/packages/generated`, which
are three quarters of the TypeScript, are generated.
