---------------------------- MODULE StreamProps ----------------------------
(***************************************************************************)
(* What module Stream is expected to guarantee.                            *)
(***************************************************************************)
EXTENDS Stream

BlockEvents(n) == UNION {Elements(dbBlocks[i].events) : i \in 1..n}

StoredEvents == BlockEvents(Len(dbBlocks)) \cup Elements(dbMinipool)

\* What clients can see through the loaded view: the blocks it is built on
\* and its minipool.
VisibleEvents == BlockEvents(view.generation) \cup Elements(view.minipool)

\* The first n members of s are t.
StartsWith(s, t) == Len(t) <= Len(s) /\ \A i \in 1..Len(t) : s[i] = t[i]

(***************************************************************************)
(* An event whose AddEvent succeeded is in storage from then on, through   *)
(* evictions, flushes, crashes, failed and ambiguous transactions and      *)
(* however many miniblocks are produced meanwhile.                         *)
(***************************************************************************)
AckedDurable == acked \subseteq StoredEvents

(***************************************************************************)
(* A loaded view and storage (addEventImpl and ApplyMiniblock write one    *)
(* after the other) differ by at most what one ambiguous transaction left: *)
(* an event behind the view's minipool, or one promoted block of events    *)
(* that the view still holds in its minipool.                              *)
(***************************************************************************)
ViewTracksStorage ==
  Loaded =>
    \/ /\ view.generation = dbGeneration
       /\ LastBlock(view) = dbBlocks[Len(dbBlocks)]
       /\ StartsWith(dbMinipool, view.minipool)
       /\ Len(dbMinipool) <= Len(view.minipool) + 1
       /\ ambiguous = 0 => dbMinipool = view.minipool
    \/ /\ ambiguous > 0
       /\ view.generation + 1 = dbGeneration
       /\ LastBlock(view) = dbBlocks[Len(dbBlocks) - 1]
       /\ view.minipool = dbBlocks[Len(dbBlocks)].events \o dbMinipool

(***************************************************************************)
(* Stored miniblocks form one chain: consecutive numbers, each header      *)
(* naming its predecessor's hash, the event count and the snapshot before  *)
(* it, and es.latest_snapshot_miniblock is the last block with a snapshot, *)
(* whatever candidates were abandoned between.                             *)
(***************************************************************************)
ChainIntegrity ==
  /\ \A i \in DOMAIN dbBlocks : dbBlocks[i].num = i - 1
  /\ \A i \in 2..Len(dbBlocks) :
       LET b == dbBlocks[i]
           p == dbBlocks[i-1]
       IN  /\ b.prev = p.hash
           /\ b.offset = p.offset + Len(p.events) + 1
           /\ b.prevSnapshot < b.num
           /\ dbBlocks[b.prevSnapshot + 1].isSnapshot
           /\ \A k \in (b.prevSnapshot + 2)..(i-1) : ~dbBlocks[k].isSnapshot
  /\ dbBlocks # << >> =>
       /\ dbBlocks[dbSnapshot + 1].isSnapshot
       /\ \A k \in (dbSnapshot + 2)..Len(dbBlocks) : ~dbBlocks[k].isSnapshot

(***************************************************************************)
(* A snapshot holds every event up to its block and no other, and what a   *)
(* view serves from its snapshot on (GetStream, a sync reset) is all that  *)
(* is visible, whether the view was trimmed by copyAndApplyBlock or loaded *)
(* from storage.  No event is folded into a snapshot twice.                *)
(***************************************************************************)
SnapshotsComplete ==
  /\ \A i \in DOMAIN dbBlocks :
       dbBlocks[i].isSnapshot => dbBlocks[i].snapshot = BlockEvents(i)
  /\ Loaded =>
       /\ StreamContents(view) = VisibleEvents
       /\ view.snapshot \cap EventsSinceSnapshot(view) = {}

(***************************************************************************)
(* No event is stored twice, in blocks or in the minipool: the duplicate   *)
(* checks of ValidateNextEvent look only at blocks after the one the event *)
(* refers to, on a view that may be older than the one it is added to.     *)
(***************************************************************************)
NoDuplicateEvents ==
  /\ Distinct(dbMinipool)
  /\ \A i \in DOMAIN dbBlocks :
       /\ Distinct(dbBlocks[i].events)
       /\ Elements(dbBlocks[i].events) \cap Elements(dbMinipool) = {}
       /\ \A j \in DOMAIN dbBlocks :
            i # j => Elements(dbBlocks[i].events) \cap Elements(dbBlocks[j].events) = {}

(***************************************************************************)
(* The registry names the last stored block, or the one after it; then     *)
(* that block is a stored candidate, so that it "can later be promoted     *)
(* within the db" (stream.go, storeMiniblockCandidate).                    *)
(***************************************************************************)
RegistryTracksStorage ==
  dbBlocks # << >> =>
    \/ registry = IdOf(dbBlocks[Len(dbBlocks)])
    \/ /\ registry.num = Len(dbBlocks)
       /\ \E c \in dbCandidates : IdOf(c) = registry

(***************************************************************************)
(* A block that has been registered can be applied: no check of            *)
(* copyAndApplyBlock or PromoteBlock fails after the contract was updated, *)
(* whatever the view went through since the proposal was made.             *)
(***************************************************************************)
RegisteredApplies ==
  producer = "registered" /\ Loaded =>
    /\ CanApplyBlock(view, work)
    /\ CanPromoteBlock(view.generation, work.hash)

(***************************************************************************)
(* A subscribed client has been sent every visible event and the current   *)
(* cookie, however old the cookie it subscribed with.                      *)
(***************************************************************************)
SubscriberComplete ==
  \A c \in receivers :
    Loaded => got[c] = VisibleEvents /\ cookie[c] = SyncCookie(view)

(***************************************************************************)
(* Sub never refuses a cookie that the node itself gave out: the minipool  *)
(* of a generation never gets shorter, not even across a crash.            *)
(***************************************************************************)
CookiesStayValid ==
  \A c \in Client : Loaded => ~BadSlot(c)

(***************************************************************************)
(* The registry never goes back to an earlier miniblock number, although   *)
(* the contract accepts any number: transactions of producers that crashed *)
(* or failed are mined before the block that replaces theirs.              *)
(***************************************************************************)
RegistryMonotone ==
  [][registry'.num >= registry.num]_vars

(***************************************************************************)
(* A stream that has storage can be loaded: the checks of                  *)
(* readStreamFromLastSnapshotTx and MakeStreamView pass on whatever the    *)
(* write paths left behind.                                                *)
(***************************************************************************)
StoredStreamLoads ==
  dbBlocks # << >> =>
    /\ CanReadStreamFromLastSnapshot
    /\ CanMakeStreamView(StoredBlocks, dbMinipool)

(***************************************************************************)
(* Fairness: OnNewBlock runs for every block of the chain, the producer's  *)
(* goroutine is scheduled, TxPool resubmits until a transaction is mined,  *)
(* and ApplyMiniblock loads the stream when it has to.  Requests, readers  *)
(* and evictions may stop at any time.                                     *)
(***************************************************************************)
Fairness ==
  /\ WF_vars(Propose(FALSE))
  /\ WF_vars(MakeMiniblockHeader)
  /\ WF_vars(StoreMiniblockCandidate)
  /\ WF_vars(SubmitTx)
  /\ WF_vars(MineTx)
  /\ WF_vars(ApplyMiniblock)
  /\ WF_vars(producer = "registered" /\ Load)

FairSpec == Spec /\ Fairness

(***************************************************************************)
(* While the stream stays loaded, every acknowledged event gets into a     *)
(* stored miniblock: abandoned candidates, lost transactions and clean     *)
(* failures delay production and never stop it.                            *)
(***************************************************************************)
AckedGetsSealed ==
  \A e \in Event :
    (e \in acked /\ Loaded) ~> (e \in BlockEvents(Len(dbBlocks)) \/ ~Loaded)

(***************************************************************************)
(* When the registry has run ahead of storage (a failure between           *)
(* registration and PromoteBlock), a loaded stream with events to seal     *)
(* brings the two together again: "This relaxation allows to get back in   *)
(* sync again" (StreamRegistry.sol).                                       *)
(***************************************************************************)
RegistryResyncs ==
  (registry.num = Len(dbBlocks) /\ Loaded /\ view.minipool # << >>)
     ~> (~Loaded \/ registry = IdOf(dbBlocks[Len(dbBlocks)]))

(***************************************************************************)
(* The log that clients see: the events of the blocks, in the order in     *)
(* which the eventNumOffset of the headers numbers them, and then those of *)
(* the minipool.                                                           *)
(***************************************************************************)

\* The number of events before entry i of bs: its offset without the headers.
EventsBefore(bs, i) == bs[i].offset - (i - 1)

EventCount(bs, n) == IF n = 0 THEN 0 ELSE EventsBefore(bs, n) + Len(bs[n].events)

\* The events of the first n blocks of bs by their numbers.
SealedLog(bs, n) ==
  [j \in 1..EventCount(bs, n) |->
     CHOOSE e \in Event :
       \E i \in 1..n : \E k \in DOMAIN bs[i].events :
         EventsBefore(bs, i) + k = j /\ bs[i].events[k] = e]

\* Clients see the stream through the view, or as the next load finds it.
VisibleBlocks == IF Loaded THEN view.generation ELSE Len(dbBlocks)

VisibleMinipool == IF Loaded THEN view.minipool ELSE dbMinipool

VisibleLog == SealedLog(dbBlocks, VisibleBlocks) \o VisibleMinipool

VisibleSealed == EventCount(dbBlocks, VisibleBlocks)

Log == INSTANCE StreamLog WITH log <- VisibleLog, sealed <- VisibleSealed

(***************************************************************************)
(* The stream implements the append-only log: no step of any handler,      *)
(* eviction, crash or ambiguous transaction removes, reorders or           *)
(* duplicates what a client could see, or unseals a sealed event.          *)
(***************************************************************************)
ImplementsLog == Log!Spec
=============================================================================
