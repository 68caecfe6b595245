------------------------------- MODULE Stream -------------------------------
(***************************************************************************)
(* One stream on the node that produces its miniblocks: streamImpl of      *)
(* core/node/events/stream.go, the part of stream_cache.go that creates,   *)
(* loads and evicts it and drives miniblock production, the AddEvent       *)
(* handler of rpc/add_event.go, and the stream's record in the River       *)
(* registry contract (StreamRegistry.sol) behind the transaction pool.     *)
(*                                                                         *)
(* Atomicity.  A handler that holds the stream's mutex is one action, and  *)
(* so is a database transaction.  AddEvent validates on a view it reads    *)
(* and writes later; the miniblock producer reads the view twice, stores   *)
(* the candidate, registers it and applies it, each step without the lock  *)
(* of the one before.                                                      *)
(*                                                                         *)
(* loadInternal runs at the head of AddEvent, Sub and ApplyMiniblock, and  *)
(* alone in GetView.  GetView may be called at any time, so Load is an     *)
(* action of its own and the other handlers take a loaded view.            *)
(***************************************************************************)
EXTENDS StreamStorage

CONSTANTS Request,     \* AddEvent calls a node may be serving at a time
          Client,      \* clients that read and sync the stream
          Retries,     \* how clients resend: "none", "sequential", "concurrent"
          MaxCandidates, MaxCrashes, MaxFailures, MaxAmbiguous, MaxForced

VARIABLES registry,    \* lastMiniblockNum and lastMiniblockHash on the contract
          pendingTx,   \* registry transactions not yet mined, in nonce order
          cached,      \* the stream cache has an entry for the stream
          view,        \* streamImpl.view
          receivers,   \* streamImpl.receivers
          inflight,    \* per request: the event validated and not yet added
          prevHash,    \* per event: its PrevMiniblockHash, -1 before it is made
          acked,       \* events whose AddEvent returned success
          producer,    \* where the miniblock producer is
          work,        \* its proposal, then its miniblock
          nextHash,    \* the next unused header hash
          cookie,      \* per client: the last NextSyncCookie it was sent
          got,         \* per client: the events it knows
          crashes, failures, ambiguous, forced  \* bounded counts

nodeVars == <<cached, view, receivers, inflight, producer, work>>
chainVars == <<registry, pendingTx>>
clientVars == <<cookie, got>>
countVars == <<crashes, failures, ambiguous, forced>>
vars == <<dbVars, chainVars, nodeVars, clientVars, prevHash, acked, nextHash,
          countVars>>

ASSUME StreamAssumption ==
  /\ Retries \in {"none", "sequential", "concurrent"}
  /\ NoView \notin View
  /\ {MaxCandidates, MaxCrashes, MaxFailures, MaxAmbiguous, MaxForced} \subseteq Nat

ProducerState == {"idle", "proposed", "built", "stored", "submitted", "registered"}

BlockId == [num : Nat, hash : Nat]

IdOf(b) == [num |-> b.num, hash |-> b.hash]

TypeOK ==
  /\ StorageTypeOK
  /\ registry \in BlockId
  /\ pendingTx \in Seq(BlockId)
  /\ cached \in BOOLEAN
  /\ view \in View \cup {NoView}
  /\ receivers \in SUBSET Client
  /\ inflight \in [Request -> Event \cup {NoEvent}]
  /\ prevHash \in [Event -> Nat \cup {-1}]
  /\ acked \in SUBSET Event
  /\ producer \in ProducerState
  /\ work \in Miniblock
  /\ nextHash \in Nat
  /\ cookie \in [Client -> Cookie]
  /\ got \in [Client -> SUBSET Event]
  /\ crashes \in Nat
  /\ failures \in Nat
  /\ ambiguous \in Nat
  /\ forced \in Nat

\* The stream is allocated on the contract; the node was started before
\* (no cache entry) or after that.
Init ==
  /\ StorageInit
  /\ registry = IdOf(Genesis)
  /\ pendingTx = << >>
  /\ cached \in BOOLEAN
  /\ view = NoView
  /\ receivers = {}
  /\ inflight = [r \in Request |-> NoEvent]
  /\ prevHash = [e \in Event |-> -1]
  /\ acked = {}
  /\ producer = "idle"
  /\ work = Genesis
  /\ nextHash = 1
  /\ cookie = [c \in Client |-> [gen |-> 0, slot |-> 0]]
  /\ got = [c \in Client |-> {}]
  /\ crashes = 0 /\ failures = 0 /\ ambiguous = 0 /\ forced = 0

Loaded == view # NoView

(***************************************************************************)
(* Creation, loading and unloading.                                        *)
(***************************************************************************)

\* tryLoadStreamRecord of a stream the cache does not have.  CreateStreamStorage
\* may fail, committed or not; the cache entry stays, without a view.
TryLoadStreamRecord ==
  /\ ~cached
  /\ registry.num = 0
  /\ cached' = TRUE
  /\ \/ /\ CanCreateStreamStorage
        /\ CreateStreamStorage(Genesis)
        /\ view' = MakeStreamView(<<Genesis>>, << >>)
        /\ UNCHANGED <<failures, ambiguous>>
     \/ /\ failures < MaxFailures
        /\ failures' = failures + 1
        /\ UNCHANGED <<dbVars, view, ambiguous>>
     \/ /\ CanCreateStreamStorage
        /\ ambiguous < MaxAmbiguous
        /\ CreateStreamStorage(Genesis)
        /\ ambiguous' = ambiguous + 1
        /\ UNCHANGED <<view, failures>>
  /\ UNCHANGED <<chainVars, receivers, inflight, producer, work, clientVars,
                 prevHash, acked, nextHash, crashes, forced>>

\* Slip: the stored minipool is not put into the view.
LoadFromStorage_NoMinipool ==
  /\ CanReadStreamFromLastSnapshot
  /\ view' = MakeStreamView(StoredBlocks, << >>)
  /\ UNCHANGED dbVars

\* loadInternal of a stream that has storage.
LoadFromStorage ==
  /\ CanReadStreamFromLastSnapshot
  /\ CanMakeStreamView(StoredBlocks, dbMinipool)
  /\ view' = MakeStreamView(StoredBlocks, dbMinipool)
  /\ UNCHANGED dbVars

\* loadInternal of a stream without storage.
initFromBlockchain ==
  /\ CanCreateStreamStorage
  /\ registry.num = 0
  /\ CreateStreamStorage(Genesis)
  /\ view' = MakeStreamView(<<Genesis>>, << >>)

Load ==
  /\ cached
  /\ ~Loaded
  /\ LoadFromStorage \/ initFromBlockchain
  /\ UNCHANGED <<chainVars, cached, receivers, inflight, producer, work,
                 clientVars, prevHash, acked, nextHash, countVars>>

\* tryCleanup of an entry that has expired.  The clock is not modelled.
Evict ==
  /\ Loaded
  /\ receivers = {}
  /\ view.minipool = << >>
  /\ view' = NoView
  /\ UNCHANGED <<dbVars, chainVars, cached, receivers, inflight, producer, work,
                 clientVars, prevHash, acked, nextHash, countVars>>

ForceFlush ==
  /\ Loaded
  /\ view' = NoView
  /\ receivers' = {}
  /\ UNCHANGED <<dbVars, chainVars, cached, inflight, producer, work,
                 clientVars, prevHash, acked, nextHash, countVars>>

\* The process stops and starts again: NewStreamCache makes an entry without
\* a view for every stream of the registry.  Sent transactions stay sent.
Crash ==
  /\ crashes < MaxCrashes
  /\ crashes' = crashes + 1
  /\ cached' = TRUE
  /\ view' = NoView
  /\ receivers' = {}
  /\ inflight' = [r \in Request |-> NoEvent]
  /\ producer' = "idle"
  /\ work' = Genesis
  /\ UNCHANGED <<dbVars, chainVars, clientVars, prevHash, acked, nextHash,
                 failures, ambiguous, forced>>

(***************************************************************************)
(* Adding an event.                                                        *)
(***************************************************************************)

\* notifySubscribers: OnUpdate with the events and the new cookie.
Notify(events, v) ==
  /\ got' = [c \in Client |-> IF c \in receivers THEN got[c] \cup events ELSE got[c]]
  /\ cookie' = [c \in Client |-> IF c \in receivers THEN SyncCookie(v) ELSE cookie[c]]

MaySubmit(e) ==
  \/ prevHash[e] = -1
  \/ Retries = "sequential" /\ \A r \in Request : inflight[r] # e
  \/ Retries = "concurrent"

\* addParsedEvent up to CanAddEvent, on the view that GetStream returned.  A
\* new event refers to a miniblock the view has been built on.
CheckEvent(r, e) ==
  /\ Loaded
  /\ inflight[r] = NoEvent
  /\ MaySubmit(e)
  /\ \E i \in 1..view.generation :
       LET hash == IF prevHash[e] = -1 THEN dbBlocks[i].hash ELSE prevHash[e]
       IN  /\ ValidateNextEvent(view, e, hash)
           /\ prevHash' = [prevHash EXCEPT ![e] = hash]
  /\ inflight' = [inflight EXCEPT ![r] = e]
  /\ UNCHANGED <<dbVars, chainVars, cached, view, receivers, producer, work,
                 clientVars, acked, nextHash, countVars>>

\* streamImpl.AddEvent: the write to storage, then to the view.  When the view
\* has the event already, OrderedMap.Set panics after the write.
AddEvent(r) ==
  /\ Loaded
  /\ inflight[r] # NoEvent
  /\ CanWriteEvent(view.generation, Len(view.minipool))
  /\ WriteEvent(inflight[r])
  /\ IF inflight[r] \notin Elements(view.minipool)
     THEN /\ view' = copyAndAddEvent(view, inflight[r])
          /\ acked' = acked \cup {inflight[r]}
          /\ Notify({inflight[r]}, view')
     ELSE UNCHANGED <<view, acked, clientVars>>
  /\ inflight' = [inflight EXCEPT ![r] = NoEvent]
  /\ UNCHANGED <<chainVars, cached, receivers, producer, work, prevHash,
                 nextHash, countVars>>

\* The transaction commits, and WriteEvent returns an error all the same.
AddEventAmbiguous(r) ==
  /\ Loaded
  /\ inflight[r] # NoEvent
  /\ ambiguous < MaxAmbiguous
  /\ CanWriteEvent(view.generation, Len(view.minipool))
  /\ WriteEvent(inflight[r])
  /\ ambiguous' = ambiguous + 1
  /\ inflight' = [inflight EXCEPT ![r] = NoEvent]
  /\ UNCHANGED <<chainVars, cached, view, receivers, producer, work, clientVars,
                 prevHash, acked, nextHash, crashes, failures, forced>>

\* The request ends without a write: not entitled, cancelled, refused by the
\* checks of WriteEvent, or failed in the database.
AddEventFails(r) ==
  /\ inflight[r] # NoEvent
  /\ inflight' = [inflight EXCEPT ![r] = NoEvent]
  /\ UNCHANGED <<dbVars, chainVars, cached, view, receivers, producer, work,
                 clientVars, prevHash, acked, nextHash, countVars>>

(***************************************************************************)
(* Producing a miniblock.  makeMiniblockMutex admits one producer a time.  *)
(***************************************************************************)
ProducerReturns == producer' = "idle" /\ work' = Genesis

\* generateMiniblockProposal, from OnNewBlock or from TestMakeMiniblock, which
\* may force a snapshot.
Propose(forceSnapshot) ==
  /\ producer = "idle"
  /\ Loaded
  /\ view.minipool # << >> \/ forceSnapshot
  /\ forceSnapshot => forced < MaxForced
  /\ forced' = IF forceSnapshot THEN forced + 1 ELSE forced
  /\ work' = ProposeNextMiniblock(view, forceSnapshot)
  /\ producer' = "proposed"
  /\ UNCHANGED <<dbVars, chainVars, cached, view, receivers, inflight,
                 clientVars, prevHash, acked, nextHash, crashes, failures, ambiguous>>

\* constructMiniblockFromProposal.
MakeMiniblockHeader ==
  /\ producer = "proposed"
  /\ nextHash <= MaxCandidates
  /\ IF Loaded /\ CanMakeMiniblockHeader(view, work)
     THEN /\ work' = makeMiniblockHeader(view, work, nextHash)
          /\ nextHash' = nextHash + 1
          /\ producer' = "built"
     ELSE ProducerReturns /\ UNCHANGED nextHash
  /\ UNCHANGED <<dbVars, chainVars, cached, view, receivers, inflight,
                 clientVars, prevHash, acked, countVars>>

\* storeMiniblockCandidate.
StoreMiniblockCandidate ==
  /\ producer = "built"
  /\ IF CanWriteBlockProposal(work.num)
     THEN /\ WriteBlockProposal(work)
          /\ producer' = "stored"
          /\ UNCHANGED work
     ELSE ProducerReturns /\ UNCHANGED dbVars
  /\ UNCHANGED <<chainVars, cached, view, receivers, inflight, clientVars,
                 prevHash, acked, nextHash, countVars>>

\* SetStreamLastMiniblock: TxPool.Submit sends the transaction.
SubmitTx ==
  /\ producer = "stored"
  /\ pendingTx' = Append(pendingTx, IdOf(work))
  /\ producer' = "submitted"
  /\ UNCHANGED <<dbVars, registry, cached, view, receivers, inflight, work,
                 clientVars, prevHash, acked, nextHash, countVars>>

\* Submit sends the transaction and returns an error.
SubmitTxAmbiguous ==
  /\ producer = "stored"
  /\ failures < MaxFailures
  /\ failures' = failures + 1
  /\ pendingTx' = Append(pendingTx, IdOf(work))
  /\ ProducerReturns
  /\ UNCHANGED <<dbVars, registry, cached, view, receivers, inflight,
                 clientVars, prevHash, acked, nextHash, crashes, ambiguous, forced>>

\* The transaction the producer waits for.
Awaited(tx) == producer = "submitted" /\ tx = IdOf(work)

\* Slip: the check that the contract has commented out.
MineTx_Strict ==
  /\ pendingTx # << >>
  /\ pendingTx' = Tail(pendingTx)
  /\ IF registry.num + 1 = Head(pendingTx).num
     THEN /\ registry' = Head(pendingTx)
          /\ producer' = IF Awaited(Head(pendingTx)) THEN "registered" ELSE producer
          /\ UNCHANGED work
     ELSE /\ UNCHANGED registry
          /\ IF Awaited(Head(pendingTx)) THEN ProducerReturns
             ELSE UNCHANGED <<producer, work>>
  /\ UNCHANGED <<dbVars, cached, view, receivers, inflight, clientVars,
                 prevHash, acked, nextHash, countVars>>

\* setStreamLastMiniblock on the contract, which overwrites the record, and
\* the receipt that the producer waits for.
MineTx ==
  /\ pendingTx # << >>
  /\ registry' = Head(pendingTx)
  /\ pendingTx' = Tail(pendingTx)
  /\ producer' = IF Awaited(Head(pendingTx)) THEN "registered" ELSE producer
  /\ UNCHANGED <<dbVars, cached, view, receivers, inflight, work, clientVars,
                 prevHash, acked, nextHash, countVars>>

\* Slip: the producer is not told that its transaction failed.
LoseTx_Silent ==
  /\ pendingTx # << >>
  /\ failures < MaxFailures
  /\ failures' = failures + 1
  /\ pendingTx' = Tail(pendingTx)
  /\ UNCHANGED <<dbVars, registry, nodeVars, clientVars, prevHash, acked,
                 nextHash, crashes, ambiguous, forced>>

\* A transaction fails on chain, or nobody is left to resend a lost one.
LoseTx ==
  /\ pendingTx # << >>
  /\ pendingTx' = Tail(pendingTx)
  /\ IF Awaited(Head(pendingTx))
     THEN /\ failures < MaxFailures
          /\ failures' = failures + 1
          /\ ProducerReturns
     ELSE UNCHANGED <<failures, producer, work>>
  /\ UNCHANGED <<dbVars, registry, cached, view, receivers, inflight,
                 clientVars, prevHash, acked, nextHash, crashes, ambiguous, forced>>

\* PromoteBlock as ApplyMiniblock calls it.
Promote ==
  /\ CanPromoteBlock(view.generation, work.hash)
  /\ PromoteBlock(view.generation, work.hash, work.isSnapshot,
                  copyAndApplyBlock(view, work).minipool)

ApplyMiniblock ==
  /\ producer = "registered"
  /\ Loaded
  /\ IF /\ CanApplyBlock(view, work)
        /\ CanPromoteBlock(view.generation, work.hash)
     THEN /\ Promote
          /\ view' = copyAndApplyBlock(view, work)
          /\ Notify({}, view')
     ELSE UNCHANGED <<dbVars, view, clientVars>>
  /\ ProducerReturns
  /\ UNCHANGED <<chainVars, cached, receivers, inflight, prevHash, acked,
                 nextHash, countVars>>

\* The transaction commits, and PromoteBlock returns an error all the same.
ApplyMiniblockAmbiguous ==
  /\ producer = "registered"
  /\ Loaded
  /\ ambiguous < MaxAmbiguous
  /\ CanApplyBlock(view, work)
  /\ Promote
  /\ ambiguous' = ambiguous + 1
  /\ ProducerReturns
  /\ UNCHANGED <<chainVars, cached, view, receivers, inflight, clientVars,
                 prevHash, acked, nextHash, crashes, failures, forced>>

\* A database or chain call of the producer fails without effect.
ProducerFails ==
  /\ producer \in {"built", "stored", "registered"}
  /\ failures < MaxFailures
  /\ failures' = failures + 1
  /\ ProducerReturns
  /\ UNCHANGED <<dbVars, chainVars, cached, view, receivers, inflight,
                 clientVars, prevHash, acked, nextHash, crashes, ambiguous, forced>>

(***************************************************************************)
(* Reading and syncing.                                                    *)
(***************************************************************************)

\* localGetStream.
GetStream(c) ==
  /\ Loaded
  /\ c \notin receivers
  /\ cookie' = [cookie EXCEPT ![c] = SyncCookie(view)]
  /\ got' = [got EXCEPT ![c] = StreamContents(view)]
  /\ UNCHANGED <<dbVars, chainVars, nodeVars, prevHash, acked, nextHash, countVars>>

\* The cookie names the current minipool and a slot it does not have.
BadSlot(c) ==
  /\ cookie[c].gen = view.generation
  /\ cookie[c].slot > Len(view.minipool)

\* Slip: an old cookie is served from the block after the one it names.
Sub_NextBlock(c) ==
  /\ Loaded
  /\ c \notin receivers
  /\ cookie[c].gen > 0
  /\ receivers' = receivers \cup {c}
  /\ got' = [got EXCEPT ![c] =
                IF indexOfMiniblockWithNum(view, cookie[c].gen) # {}
                THEN @ \cup EventsFrom(view, cookie[c].gen - view.blocks[1].num + 2)
                ELSE StreamContents(view)]
  /\ cookie' = [cookie EXCEPT ![c] = SyncCookie(view)]
  /\ UNCHANGED <<dbVars, chainVars, cached, view, inflight, producer, work,
                 prevHash, acked, nextHash, countVars>>

\* Sub: the rest of the minipool, or the blocks since the cookie's, or a reset.
Sub(c) ==
  /\ Loaded
  /\ c \notin receivers
  /\ cookie[c].gen > 0
  /\ ~BadSlot(c)
  /\ receivers' = receivers \cup {c}
  /\ LET blocks == indexOfMiniblockWithNum(view, cookie[c].gen)
     IN  got' = [got EXCEPT ![c] =
                   IF cookie[c].gen = view.generation
                   THEN @ \cup EventsFromSlot(view, cookie[c].slot)
                   ELSE IF blocks # {}
                   THEN @ \cup EventsFrom(view, CHOOSE i \in blocks : TRUE)
                   ELSE StreamContents(view)]
  /\ cookie' = [cookie EXCEPT ![c] = SyncCookie(view)]
  /\ UNCHANGED <<dbVars, chainVars, cached, view, inflight, producer, work,
                 prevHash, acked, nextHash, countVars>>

Unsub(c) ==
  /\ c \in receivers
  /\ receivers' = receivers \ {c}
  /\ UNCHANGED <<dbVars, chainVars, cached, view, inflight, producer, work,
                 clientVars, prevHash, acked, nextHash, countVars>>

Next ==
  \/ TryLoadStreamRecord \/ Load \/ Evict \/ ForceFlush \/ Crash
  \/ \E r \in Request, e \in Event : CheckEvent(r, e)
  \/ \E r \in Request : AddEvent(r) \/ AddEventAmbiguous(r) \/ AddEventFails(r)
  \/ \E force \in BOOLEAN : Propose(force)
  \/ MakeMiniblockHeader \/ StoreMiniblockCandidate
  \/ SubmitTx \/ SubmitTxAmbiguous \/ MineTx \/ LoseTx
  \/ ApplyMiniblock \/ ApplyMiniblockAmbiguous \/ ProducerFails
  \/ \E c \in Client : GetStream(c) \/ Sub(c) \/ Unsub(c)

Spec == Init /\ [][Next]_vars
=============================================================================
