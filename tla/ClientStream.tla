---------------------------- MODULE ClientStream ----------------------------
(***************************************************************************)
(* One stream as a client shows it: the timeline of core/sdk/src/          *)
(* streamStateView.ts, what syncedStream.ts writes to the database of the  *)
(* browser so that the stream can be shown again after a restart, the      *)
(* scrollback of client.ts into older miniblocks, and the messages that    *)
(* the user is sending, which are shown before the node has them.          *)
(*                                                                         *)
(* The stream on the node is a chain of events and miniblock headers.  A   *)
(* cookie is a position in it.  Every step ends at an await of the code.   *)
(***************************************************************************)
EXTENDS Integers, Sequences, FiniteSets, SequencesExt, FiniteSetsExt

CONSTANTS Message,     \* the messages of this user, each with its local id
          ChatBounds   \* the bounds under which the component is explored

ChatBound ==
  [chain : Nat,        \* entries of the chain
   headers : Nat,      \* miniblock headers in one update
   resets : Nat,       \* updates that replace the view
   scrolls : Nat,      \* scrollbacks
   sends : Nat,        \* messages that the user sends
   crashes : Nat,      \* restarts of the client
   lost : Nat,         \* lost requests or answers of addEvent, and retries by the user
   badPrev : Nat,      \* events refused because the miniblock they name is too old
   errors : Nat,       \* messages that cannot be encrypted
   unsaved : Nat]      \* writes to the database that fail

ASSUME ChatAssumption == ChatBounds \subseteq ChatBound

VARIABLES chain,     \* the stream on the node
          view,      \* StreamStateView: the timeline and what is known of the miniblocks
          todo,      \* what initialize or appendEvents still has to save
          saved,     \* the database: the record of the stream
          blocks,    \* the database: the miniblocks, by number
          scroll,    \* the scrollback request
          sending,   \* per message: the call that sends it
          counts,    \* how often each bounded thing has happened
          chatBound

chatVars == <<chain, view, todo, saved, blocks, scroll, sending, counts>>

None == <<>>
Other == "other"
Unconfirmed == -1
MaxRetries == 3        \* makeEventWithHashAndAddToStream
CachedScrollbackCount == 3

Happens(what) ==
  counts[what] < chatBound[what] /\ counts' = [counts EXCEPT ![what] = @ + 1]

(***************************************************************************)
(* The stream on the node.                                                 *)
(***************************************************************************)

IsHeader(e) == e.num # Unconfirmed
Headers(n) == {i \in 1 .. n : IsHeader(chain[i])}      \* in the first n entries
LastNum(n) == Max({chain[i].num : i \in Headers(n)})
HeaderAt(num) == CHOOSE i \in Headers(Len(chain)) : chain[i].num = num
BlockEvents(num) == chain[HeaderAt(num)].events \cup {chain[HeaderAt(num)].hash}

\* The events in no block, when the chain had n entries.
Minipool(n) ==
  {chain[i].hash : i \in (1 .. n) \ Headers(n)} \ UNION {chain[i].events : i \in Headers(n)}

Snapshots(n) == {chain[i].num : i \in {j \in Headers(n) : chain[j].snap}}

\* prevSnapshotMiniblockNum of a header.
PrevSnap(num) ==
  LET earlier == {s \in Snapshots(Len(chain)) : s < num} IN IF earlier = {} THEN 0 ELSE Max(earlier)

Genesis == [hash |-> <<Other, 1>>, num |-> 0, events |-> {}, snap |-> TRUE]

\* Another user adds an event.
OthersAdd ==
  /\ Len(chain) < chatBound.chain
  /\ chain' = Append(chain, [hash |-> <<Other, Len(chain) + 1>>,
                         num |-> Unconfirmed, events |-> {}, snap |-> FALSE])
  /\ UNCHANGED <<view, todo, saved, blocks, scroll, sending, counts>>

\* A miniblock with the first events of the minipool: others may have come in meanwhile.
MakeBlock(snap) ==
  /\ Len(chain) < chatBound.chain
  /\ \E k \in 1 .. Len(chain) :
       /\ chain[k].hash \in Minipool(Len(chain))
       /\ chain' = Append(chain, [hash |-> <<Other, Len(chain) + 1>>,
                              num |-> LastNum(Len(chain)) + 1,
                              events |-> Minipool(Len(chain)) \cap {chain[i].hash : i \in 1 .. k},
                              snap |-> snap])
  /\ UNCHANGED <<view, todo, saved, blocks, scroll, sending, counts>>

(***************************************************************************)
(* StreamStateView.                                                        *)
(***************************************************************************)

\* A timeline event.  ids are the keys under which the map "events" has it.
Entry(hash, num) ==
  [ids |-> {hash}, hash |-> hash, local |-> None, status |-> None, remote |-> hash, num |-> num]

Find(timeline, id) == {t \in timeline : id \in t.ids}
Remotes(timeline) == {t.remote : t \in timeline} \ {None}
NoView == [timeline |-> {}, cookie |-> 0, min |-> 0, max |-> 0, prevSnap |-> 0,
              terminus |-> FALSE, ready |-> FALSE]

\* updateMiniblockInfo: 0 is taken for "no update", so the minimum stays at 1.
UpdatedMin(min, num) == IF num = 0 /\ min > 0 THEN 1 ELSE num

\* processMiniblockHeader: the events of the block are confirmed.
Confirmed(timeline, e) ==
  {IF t.ids \cap e.events # {} /\ t.remote # None THEN [t EXCEPT !.num = e.num] ELSE t :
     t \in timeline}

AppendOne_Twice(v, e) ==
  [v EXCEPT !.timeline = Confirmed(@ \cup {Entry(e.hash, e.num)}, e),
            !.max = IF IsHeader(e) THEN e.num ELSE @]

\* appendStreamAndCookie, for one event: one that the view has is only updated.
AppendOne(v, e) ==
  IF Find(v.timeline, e.hash) # {}
    THEN [v EXCEPT !.timeline = {IF e.hash \in t.ids THEN [t EXCEPT !.remote = e.hash] ELSE t :
                                   t \in @}]
  ELSE IF IsHeader(e) /\ v.max < e.num
    THEN [v EXCEPT !.timeline = Confirmed(@, e) \cup {Entry(e.hash, e.num)}, !.max = e.num]
  ELSE [v EXCEPT !.timeline = @ \cup {Entry(e.hash, Unconfirmed)}]

AppendStreamAndCookie(v, events, cookie) ==
  [FoldLeft(AppendOne, v, events) EXCEPT !.cookie = cookie]

BlockEntries(have, from, to) ==
  UNION {{Entry(h, n) : h \in have[n]} : n \in from .. to}

\* initialize: miniblocks first .. last, older ones from lo on, the minipool, and the
\* messages of the previous view that have no hash yet.
Initialize(have, lo, first, last, minipool, cookie) ==
  LET inBlocks == BlockEntries(have, lo, last)
      pool == {Entry(h, Unconfirmed) : h \in minipool \ Remotes(inBlocks)}
      local == {t \in view.timeline : t.local # None /\ t.hash = t.local}
  IN [timeline |-> inBlocks \cup pool \cup local, cookie |-> cookie,
      min |-> IF lo = first THEN first ELSE UpdatedMin(first, lo),
      max |-> last, prevSnap |-> PrevSnap(lo), terminus |-> lo = 0, ready |-> TRUE]

PrependedPrevSnap(v, from) == PrevSnap(from)

\* prependEvents: what the view has already is left out.
PrependEvents(v, have, from, to) ==
  LET old == {t \in BlockEntries(have, from, to - 1) : Find(v.timeline, t.hash) = {}}
  IN [v EXCEPT !.timeline = @ \cup old, !.min = UpdatedMin(v.min, from),
               !.prevSnap = PrependedPrevSnap(v, from), !.terminus = @ \/ from = 0]

(***************************************************************************)
(* SyncedStream: where a view comes from, and what is saved of it.         *)
(***************************************************************************)

NoRecord == [cookie |-> 0, first |-> 0, last |-> 0, minipool |-> {}]
NoScroll == [pc |-> "none"]
NotSent == [pc |-> "new"]

ChatInit ==
  /\ chatBound \in ChatBounds
  /\ chain = <<Genesis>> /\ view = NoView /\ todo = << >>
  /\ saved = NoRecord /\ blocks = << >> /\ scroll = NoScroll
  /\ sending = [m \in Message |-> NotSent]
  /\ counts = [what \in DOMAIN chatBound |-> 0]

\* getMiniblocks of the database: all of them, or none.
Cached(from, to) == \A n \in from .. to : n \in DOMAIN blocks

\* cachedScrollback: at most three ranges, each from one snapshot to the next.
CachedScrollback(first) ==
  LET back(lo) == IF lo > 0 /\ Cached(PrevSnap(lo), lo - 1) THEN PrevSnap(lo) ELSE lo
  IN back(back(back(first)))

\* The miniblocks have no event in common: processAppendedEvent throws otherwise.
Disjoint(from, to) ==
  \A n, k \in from .. to : n # k => blocks[n] \cap blocks[k] = {}

CanLoad ==
  /\ saved # NoRecord /\ Cached(saved.first, saved.last)
  /\ chain[HeaderAt(saved.first)].snap /\ Disjoint(saved.first, saved.last)

\* initStream, initializeFromPersistence.
InitializeFromPersistence ==
  /\ ~view.ready /\ CanLoad
  /\ view' = Initialize(blocks, CachedScrollback(saved.first), saved.first, saved.last,
                        saved.minipool, saved.cookie)
  /\ UNCHANGED <<chain, todo, saved, blocks, scroll, sending, counts>>

\* What the node returns for the whole stream: it starts at the last snapshot.
StreamResponse ==
  LET n == Len(chain)
  IN [first |-> Max(Snapshots(n)), last |-> LastNum(n), minipool |-> Minipool(n), cookie |-> n]

NodeBlocks(from, to) == [n \in from .. to |-> BlockEvents(n)]

ResponseView ==
  LET r == StreamResponse
  IN Initialize(NodeBlocks(r.first, r.last), r.first, r.first, r.last, r.minipool, r.cookie)

\* initialize saves the record, then the miniblocks.
SaveResponse(created) ==
  <<[op |-> "record", resp |-> StreamResponse, created |-> created],
    [op |-> "blocks", resp |-> StreamResponse, created |-> created]>>

\* initStream, initializeFromResponse.
InitializeFromResponse ==
  /\ ~view.ready /\ ~CanLoad
  /\ view' = ResponseView /\ todo' = SaveResponse(TRUE)
  /\ UNCHANGED <<chain, saved, blocks, scroll, sending, counts>>

\* onUpdate with syncReset: the node has no longer the miniblock that the cookie names.
SyncReset ==
  /\ view.ready /\ todo = << >>
  /\ Max(Snapshots(Len(chain))) > LastNum(view.cookie) + 1 /\ Happens("resets")
  /\ view' = ResponseView /\ todo' = SaveResponse(FALSE)
  /\ UNCHANGED <<chain, saved, blocks, scroll, sending>>

\* appendEvents: the whole update is applied, then its headers are saved one by one.
AppendEvents(events, cookie) ==
  LET headers == SelectSeq(events, IsHeader)
  IN /\ view.ready /\ todo = << >> /\ Len(headers) =< chatBound.headers
     /\ view' = AppendStreamAndCookie(view, events, cookie)
     /\ todo' = [i \in 1 .. Len(headers) |-> [op |-> "header", e |-> headers[i]]]
     /\ UNCHANGED <<chain, saved, blocks, scroll, sending, counts>>

\* The session sends one entry of the chain as it is added.
LiveUpdate ==
  /\ view.cookie < Len(chain)
  /\ AppendEvents(<<chain[view.cookie + 1]>>, view.cookie + 1)

\* A new session starts with the miniblocks from the generation of the cookie on, each
\* with its events before its header, and the minipool.
CatchUp ==
  LET entries(hashes) == SelectSeq(chain, LAMBDA e : e.hash \in hashes)
      block(num) == entries(BlockEvents(num))
      nums == [k \in 1 .. LastNum(Len(chain)) - LastNum(view.cookie) |-> LastNum(view.cookie) + k]
  IN /\ view.ready /\ view.cookie < Len(chain)
     /\ AppendEvents(IF nums = << >> THEN SubSeq(chain, view.cookie + 1, Len(chain))
                     ELSE FlattenSeq([k \in DOMAIN nums |-> block(nums[k])])
                            \o entries(Minipool(Len(chain))), Len(chain))

Todo(op) == todo # << >> /\ Head(todo).op = op

SaveRecord ==
  /\ Todo("record") /\ saved' = Head(todo).resp /\ todo' = Tail(todo)
  /\ UNCHANGED <<chain, view, blocks, scroll, sending, counts>>

\* saveMiniblocks
SaveBlocks(have) == [n \in DOMAIN blocks \cup DOMAIN have |->
                       IF n \in DOMAIN have THEN have[n] ELSE blocks[n]]

SaveMiniblocks ==
  /\ Todo("blocks") /\ todo' = Tail(todo)
  /\ blocks' = SaveBlocks(NodeBlocks(Head(todo).resp.first, Head(todo).resp.last))
  /\ UNCHANGED <<chain, view, saved, scroll, sending, counts>>

\* onMiniblockHeader: the events of the block, as the view has them.
RemotesOf(e) == Remotes(UNION {Find(view.timeline, h) : h \in e.events})

HasEvents(e) ==
  \A h \in e.events : \E t \in Find(view.timeline, h) : t.remote # None

SaveMiniblock ==
  /\ Todo("header")
  /\ LET e == Head(todo).e
     IN \/ /\ HasEvents(e)
           /\ blocks' = SaveBlocks([n \in {e.num} |-> RemotesOf(e) \cup {e.hash}])
           /\ todo' = <<[op |-> "cookie", e |-> e]>> \o Tail(todo)
        \/ ~HasEvents(e) /\ todo' = << >> /\ UNCHANGED blocks
  /\ UNCHANGED <<chain, view, saved, scroll, sending, counts>>

MinipoolToSave == Remotes({t \in view.timeline : t.num = Unconfirmed})

SaveSyncedStream ==
  /\ Todo("cookie") /\ todo' = Tail(todo)
  /\ saved' = [cookie |-> view.cookie, first |-> PrevSnap(Head(todo).e.num),
               last |-> Head(todo).e.num, minipool |-> MinipoolToSave]
  /\ UNCHANGED <<chain, view, blocks, scroll, sending, counts>>

\* The database refuses a write: onUpdate logs the error and the rest is not saved;
\* initStream forgets the stream.
SaveFails ==
  /\ todo # << >> /\ Happens("unsaved") /\ todo' = << >>
  /\ IF Head(todo).op \in {"record", "blocks"} /\ Head(todo).created
       THEN view' = NoView /\ scroll' = NoScroll
       ELSE UNCHANGED <<view, scroll>>
  /\ UNCHANGED <<chain, saved, blocks, sending>>

\* The client is closed, or crashes, and is started again.
RestartClient ==
  /\ view.ready /\ Happens("crashes")
  /\ view' = NoView /\ todo' = << >> /\ scroll' = NoScroll
  /\ sending' = [m \in Message |-> IF sending[m].pc = "new" THEN NotSent ELSE [pc |-> "gone"]]
  /\ UNCHANGED <<chain, saved, blocks>>

(***************************************************************************)
(* Scrollback (client.ts).                                                 *)
(***************************************************************************)

\* scrollback: one request per stream at a time.
Scrollback ==
  /\ view.ready /\ ~view.terminus /\ scroll = NoScroll /\ Happens("scrolls")
  /\ scroll' = [pc |-> "fetch", from |-> view.prevSnap, to |-> view.min]
  /\ UNCHANGED <<chain, view, todo, saved, blocks, sending>>

\* getMiniblocks: from the database as far as they are there, the rest from the node.
GetMiniblocks ==
  /\ scroll.pc = "fetch"
  /\ LET range == scroll.from .. scroll.to - 1
         have == [n \in range |-> IF Cached(n, scroll.to - 1) THEN blocks[n] ELSE BlockEvents(n)]
     IN /\ blocks' = SaveBlocks(have)
        /\ scroll' = [pc |-> "prepend", from |-> scroll.from, to |-> scroll.to, have |-> have]
  /\ UNCHANGED <<chain, view, todo, saved, sending, counts>>

StillCurrent_Always == TRUE

\* The view may have been replaced during the request.
StillCurrent == view.min = scroll.to

EndScrollback ==
  /\ scroll.pc = "prepend" /\ scroll' = NoScroll
  /\ view' = IF StillCurrent THEN PrependEvents(view, scroll.have, scroll.from, scroll.to) ELSE view
  /\ UNCHANGED <<chain, todo, saved, blocks, sending, counts>>

(***************************************************************************)
(* Sending a message (client.ts).                                          *)
(***************************************************************************)

\* updateLocalEvent: the entry is found by the id it was last known under.
CanUpdateLocal(m) == \E t \in Find(view.timeline, sending[m].localId) : t.local # None

UpdateLocal(m, hash, status) ==
  view' = [view EXCEPT !.timeline =
             {IF sending[m].localId \in t.ids
                THEN [t EXCEPT !.ids = @ \cup {hash}, !.hash = hash, !.status = status]
                ELSE t : t \in @}]

\* The call ends with status, or throws because the entry is gone.
EndSend(m, status) ==
  /\ IF CanUpdateLocal(m) THEN UpdateLocal(m, sending[m].hash, status) ELSE UNCHANGED view
  /\ sending' = [sending EXCEPT ![m] = [pc |-> "ended", hash |-> @.hash]]

\* sendChannelMessage: the message is shown before it is sent.
SendChannelMessage(m) ==
  /\ view.ready /\ sending[m].pc = "new" /\ Happens("sends")
  /\ view' = [view EXCEPT !.timeline =
                @ \cup {[ids |-> {m}, hash |-> m, local |-> m, status |-> "sending",
                         remote |-> None, num |-> Unconfirmed]}]
  /\ sending' = [sending EXCEPT ![m] = [pc |-> "local", localId |-> m, hash |-> <<m, 0>>, retry |-> 0]]
  /\ UNCHANGED <<chain, todo, saved, blocks, scroll>>

\* retrySendMessage, for a message that has failed.
RetrySendMessage(m) ==
  /\ sending[m].pc = "ended" /\ Happens("lost")
  /\ \E t \in view.timeline :
       /\ t.local = m /\ t.status = "failed"
       /\ sending' = [sending EXCEPT ![m] =
                        [pc |-> "local", localId |-> t.hash, hash |-> @.hash, retry |-> 0]]
  /\ UNCHANGED <<chain, view, todo, saved, blocks, scroll>>

\* encryptGroupEvent throws: nothing is updated.
EncryptFails(m) ==
  /\ sending[m].pc = "local" /\ sending[m].retry = 0 /\ Happens("errors")
  /\ sending' = [sending EXCEPT ![m] = [pc |-> "ended", hash |-> @.hash]]
  /\ UNCHANGED <<chain, view, todo, saved, blocks, scroll>>

NextLocalId(m) == sending[m].hash

\* makeEventWithHashAndAddToStream: the entry gets the hash of the event.
MakeEvent(m) ==
  LET hash == <<m, sending[m].hash[2] + 1>>
  IN /\ sending[m].pc = "local"
     /\ IF CanUpdateLocal(m)
          THEN /\ UpdateLocal(m, hash, "sending")
               /\ sending' = [sending EXCEPT ![m].pc = "rpc", ![m].hash = hash]
          ELSE /\ sending' = [sending EXCEPT ![m] = [pc |-> "ended", hash |-> hash]]
               /\ UNCHANGED view
     /\ UNCHANGED <<chain, todo, saved, blocks, scroll, counts>>

\* The node adds the event.
AddEventAccepted(m) ==
  /\ sending[m].pc = "rpc" /\ Len(chain) < chatBound.chain
  /\ chain' = Append(chain, [hash |-> sending[m].hash, num |-> Unconfirmed, events |-> {},
                         snap |-> FALSE])
  /\ sending' = [sending EXCEPT ![m].pc = "answer"]
  /\ UNCHANGED <<view, todo, saved, blocks, scroll, counts>>

\* BAD_PREV_MINIBLOCK_HASH: another event is made, for the entry with this hash.
AddEventRefused(m) ==
  /\ sending[m].pc = "rpc" /\ Happens("badPrev")
  /\ \/ /\ sending[m].retry < MaxRetries
        /\ sending' = [sending EXCEPT ![m] = [pc |-> "local", localId |-> NextLocalId(m),
                                              hash |-> @.hash, retry |-> @.retry + 1]]
        /\ UNCHANGED view
     \/ sending[m].retry = MaxRetries /\ EndSend(m, "failed")
  /\ UNCHANGED <<chain, todo, saved, blocks, scroll>>

AddEventDone(m) ==
  /\ sending[m].pc = "answer" /\ EndSend(m, "sent")
  /\ UNCHANGED <<chain, todo, saved, blocks, scroll, counts>>

\* The request or its answer is lost.
AddEventFails(m) ==
  /\ sending[m].pc \in {"rpc", "answer"} /\ Happens("lost") /\ EndSend(m, "failed")
  /\ UNCHANGED <<chain, todo, saved, blocks, scroll>>

Save == SaveRecord \/ SaveMiniblocks \/ SaveMiniblock \/ SaveSyncedStream

ChatNext ==
  /\ UNCHANGED chatBound
  /\ \/ OthersAdd \/ \E snap \in BOOLEAN : MakeBlock(snap)
     \/ InitializeFromPersistence \/ InitializeFromResponse
     \/ LiveUpdate \/ CatchUp \/ SyncReset
     \/ Save \/ SaveFails \/ RestartClient
     \/ Scrollback \/ GetMiniblocks \/ EndScrollback
     \/ \E m \in Message :
          \/ SendChannelMessage(m) \/ RetrySendMessage(m) \/ EncryptFails(m) \/ MakeEvent(m)
          \/ AddEventAccepted(m) \/ AddEventRefused(m) \/ AddEventDone(m) \/ AddEventFails(m)

(***************************************************************************)
(* Properties.                                                             *)
(***************************************************************************)

ChatTypeOK ==
  /\ view.cookie \in 0 .. Len(chain) /\ view.ready \in BOOLEAN /\ view.terminus \in BOOLEAN
  /\ \A t \in view.timeline :
       /\ t.hash \in t.ids /\ (t.local = None => t.remote # None)
       /\ t.status \in {None, "sending", "sent", "failed"}
  /\ \A n \in DOMAIN blocks : n \in 0 .. LastNum(Len(chain))
  /\ saved.first =< saved.last /\ saved.cookie =< Len(chain)

\* No event of the node is added twice: the user has not tried again a message that the
\* node did have.
NotRepeated == chatBound.lost = 0

\* A restart never finds a record that is saved in the middle of an update: with several
\* headers in an update the first record has the cookie of the whole update already.
WholeRecords == chatBound.headers = 1 \/ chatBound.crashes = 0

\* The view has every event between its oldest miniblock and its cookie, whatever it was
\* made from: updates in any order, the database after a restart at any point, a reset,
\* scrollback.  A gap would never be filled: the node sends what is after the cookie and
\* scrollback fetches what is before the first miniblock.
NoGap ==
  view.ready /\ WholeRecords /\ NotRepeated =>
    LET n == view.cookie
        older == UNION {BlockEvents(k) : k \in 0 .. view.min - 1}
        visible == {chain[i].hash : i \in 1 .. n} \ older
    IN visible \subseteq Remotes(view.timeline)

\* No two entries of the timeline stand for the same event, and a message is not shown
\* more often than the stream has it: its local entry becomes the remote one, whatever
\* hash it was sent under last.
ShownOnce ==
  /\ \A t, u \in view.timeline : t # u => t.ids \cap u.ids = {}
  /\ \A m \in Message :
       Cardinality({t \in view.timeline : t.local = m \/ (t.remote # None /\ t.remote[1] = m)})
         =< Max({1, Cardinality({i \in DOMAIN chain : chain[i].hash[1] = m})})

=============================================================================
