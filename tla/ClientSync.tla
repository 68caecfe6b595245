----------------------------- MODULE ClientSync -----------------------------
(***************************************************************************)
(* SyncedStreams of core/sdk/src/syncedStreams.ts: the loop by which a     *)
(* client keeps its streams in sync with a node, the calls that add and    *)
(* remove streams meanwhile, and stop and restart.                         *)
(*                                                                         *)
(* JavaScript runs one piece of code between two awaits, so an action is   *)
(* the code from one await to the next.  A loop is one call of             *)
(* createSyncLoop, a session is one call of syncStreams on the node.  An   *)
(* event of a stream is its number: log[s] events of s are on the node,    *)
(* and a cookie is the number of the last event it covers.                 *)
(*                                                                         *)
(* Delays (the retry wait, the ping interval) are left to the scheduler.   *)
(***************************************************************************)
EXTENDS Integers, Sequences

CONSTANTS Stream,
          MaxEvents,   \* events per stream
          MaxStarts,   \* calls of startSyncStreams
          MaxSession,  \* sessions
          SyncBounds   \* the bounds under which the component is explored

\* What may happen in a behaviour, beyond what the constants bound.
SyncBound ==
  [starts : 1..MaxStarts,   \* calls of startSyncStreams
   events : 1..MaxEvents,   \* events per stream
   faults : Nat,            \* sessions that break, are closed or fail a ping
   lostCalls : Nat,         \* calls that add or remove a stream, lost by the network
   lostCancels : Nat,       \* cancelSync calls lost by the network
   badUpdates : Nat,        \* updates on which onUpdate throws
   inFlight : Nat \ {0},    \* responses on their way, and updates in responsesQueue
   pings : Nat,             \* calls of pingSync on their way
   leave : BOOLEAN,         \* whether the user leaves streams
   anyTime : BOOLEAN]       \* whether sync is started before stopSync has returned

ASSUME SyncAssumption ==
  {MaxEvents, MaxStarts, MaxSession} \subseteq Nat \ {0} /\ SyncBounds \subseteq SyncBound

VARIABLES syncState,      \* _syncState
          syncId,         \* 0 when undefined
          syncLoop,       \* the loop that the field refers to, 0 when undefined
          loops,          \* per loop: where it stands and the session it reads
          waiter,         \* the loop that forceStopSyncStreams and interruptSync
                          \* refer to, 0 when undefined
          streams,        \* the keys of the map
          cookie,         \* per stream: view.syncCookie
          timeline,       \* per stream: the events of its view
          unapplied,      \* per stream: the events of updates on which onUpdate threw, and
                          \* that no later update has brought
          addCall,        \* per stream: a call of addStreamToSync
          removeCall,     \* per stream: a call of removeStreamFromSync
          responsesQueue,
          tick,           \* the update that inProgressTick works on
          stopCall,       \* a call of stopSync
          breakTimers,    \* armed timers that call forceStopSyncStreams
          pingTimer,      \* pingInfo.pingTimeout is armed
          strayTimers,    \* ping timers that pingInfo does not refer to any more
          pings,          \* calls of pingSync that are on their way
          log,            \* the node: events per stream
          sess,           \* the node: its sessions
          nextSession,
          used,           \* the faults so far
          syncBound       \* a member of SyncBounds, which never changes

stateVars == <<syncState, syncId, syncLoop, loops, waiter>>
streamVars == <<streams, cookie, timeline, unapplied>>
callVars == <<addCall, removeCall>>
queueVars == <<responsesQueue, tick>>
stopVars == <<stopCall, breakTimers>>
pingVars == <<pingTimer, strayTimers, pings>>
syncVars == <<stateVars, streamVars, callVars, queueVars, stopVars, pingVars,
              log, sess, nextSession, used>>

SyncState == {"NotSyncing", "Starting", "Syncing", "Retrying", "Canceling"}

\* The successors that setSyncState admits.
stateConstraints ==
  [NotSyncing |-> {"Starting"},
   Starting   |-> {"Syncing", "Retrying", "Canceling"},
   Syncing    |-> {"Canceling", "Retrying"},
   Retrying   |-> {"Starting", "Canceling", "Syncing", "Retrying"},
   Canceling  |-> {"NotSyncing"}]

Loop == 1..MaxStarts
Session == 1..MaxSession
Position == -1..MaxEvents   \* -1: not subscribed

\* A response of the node.
Response ==
  [op : {"NEW", "CLOSE"}] \cup
  [op : {"UPDATE"}, stream : Stream, from : 0..MaxEvents, to : 0..MaxEvents,
   reset : BOOLEAN]

NoSession == [open |-> FALSE, asked |-> [s \in Stream |-> -1],
              sent |-> [s \in Stream |-> -1], queue |-> << >>]
NoCall == [pc |-> "none", syncId |-> 0, cookie |-> 0]
NoStop == [pc |-> "none", syncId |-> 0, loop |-> 0]
NoItem == [op |-> "none"]

LoopState == [pc : {"none", "next", "retryWait", "done"}, session : {0} \cup Session]

SyncTypeOK ==
  /\ syncState \in SyncState
  /\ syncId \in {0} \cup Session /\ syncLoop \in {0} \cup Loop
  /\ loops \in [Loop -> LoopState] /\ waiter \in {0} \cup Loop
  /\ streams \subseteq Stream
  /\ cookie \in [Stream -> 0..MaxEvents]
  /\ timeline \in [Stream -> SUBSET (1..MaxEvents)] /\ unapplied \in [Stream -> SUBSET (1..MaxEvents)]
  /\ \A s \in Stream :
       /\ addCall[s].pc \in {"none", "init", "waiting", "rpc"}
       /\ removeCall[s].pc \in {"none", "waiting", "rpc"}
  /\ \A i \in DOMAIN responsesQueue :
       responsesQueue[i].session \in Session /\ responsesQueue[i].stream \in Stream
  /\ stopCall.pc \in {"none", "cancelRpc", "awaitLoop"}
  /\ breakTimers \in Nat /\ pingTimer \in BOOLEAN
  /\ strayTimers \in Nat /\ pings \in Nat
  /\ log \in [Stream -> 0..MaxEvents] /\ nextSession \in Nat
  /\ \A k \in Session :
       /\ sess[k].open \in BOOLEAN
       /\ sess[k].asked \in [Stream -> Position]
       /\ sess[k].sent \in [Stream -> Position]
       /\ \A i \in DOMAIN sess[k].queue : sess[k].queue[i] \in Response

SyncInit ==
  /\ syncState = "NotSyncing" /\ syncId = 0 /\ syncLoop = 0 /\ waiter = 0
  /\ loops = [l \in Loop |-> [pc |-> "none", session |-> 0]]
  /\ streams = {} /\ cookie = [s \in Stream |-> 0] /\ timeline = [s \in Stream |-> {}]
  /\ unapplied = [s \in Stream |-> {}]
  /\ addCall = [s \in Stream |-> NoCall] /\ removeCall = [s \in Stream |-> NoCall]
  /\ responsesQueue = << >> /\ tick = NoItem
  /\ stopCall = NoStop /\ breakTimers = 0
  /\ pingTimer = FALSE /\ strayTimers = 0 /\ pings = 0
  /\ log = [s \in Stream |-> 1]
  /\ sess = [k \in Session |-> NoSession] /\ nextSession = 1
  /\ used = [faults |-> 0, lostCalls |-> 0, lostCancels |-> 0, badUpdates |-> 0]
  /\ syncBound \in SyncBounds

\* One more fault of a kind, within its bound.
Fault(kind) == used[kind] < syncBound[kind] /\ used' = [used EXCEPT ![kind] = @ + 1]

(***************************************************************************)
(* The loop.  st is the sync state that the code before has left.          *)
(***************************************************************************)

\* The session that the loop has read from is not read again.
Left(l) == [k \in Session |-> IF k = loops[l].session THEN NoSession ELSE sess[k]]

\* The body of the outer while up to its await: a new session with the cookies
\* of all streams of the map.
OpenSession(l, st, pt) ==
  /\ nextSession \in Session
  /\ syncState' = IF st = "Retrying" THEN "Starting" ELSE st
  /\ syncId' = 0
  /\ sess' = [Left(l) EXCEPT ![nextSession] =
         [open |-> TRUE,
          asked |-> [s \in Stream |-> IF s \in streams THEN cookie[s] ELSE -1],
          sent |-> [s \in Stream |-> -1],
          queue |-> <<[op |-> "NEW"]>>]]
  /\ nextSession' = nextSession + 1
  /\ loops' = [loops EXCEPT ![l] = [pc |-> "next", session |-> nextSession]]
  /\ waiter' = l /\ pingTimer' = pt
  /\ UNCHANGED <<streamVars, tick>>

\* The finally block: only a cancelled loop clears the streams.
Finally(l, st, w) ==
  /\ loops' = [loops EXCEPT ![l] = [pc |-> "done", session |-> 0]]
  /\ sess' = Left(l)
  /\ waiter' = w /\ pingTimer' = FALSE
  /\ UNCHANGED nextSession
  /\ \/ /\ "NotSyncing" \in stateConstraints[st]
        /\ syncState' = "NotSyncing" /\ syncId' = 0
        /\ streams' = {} /\ cookie' = [s \in Stream |-> 0]
        /\ timeline' = [s \in Stream |-> {}] /\ unapplied' = [s \in Stream |-> {}]
        /\ tick' = IF tick = NoItem THEN NoItem ELSE [tick EXCEPT !.orphan = TRUE]
     \/ /\ "NotSyncing" \notin stateConstraints[st]
        /\ syncState' = st
        /\ UNCHANGED <<syncId, streamVars, tick>>

\* forceStopSyncStreams and interruptSync find a loop that awaits a response.
Awaiting == waiter # 0 /\ loops[waiter].pc = "next"

\* The condition of the outer while.
NextIteration(l, st, pt) ==
  \/ st \in {"Starting", "Syncing", "Retrying"} /\ OpenSession(l, st, pt)
  \/ st \notin {"Starting", "Syncing", "Retrying"} /\ Finally(l, st, waiter)

\* The condition of the inner while, after a response has left the state st and
\* the id id.
NextResponse(l, st, id, pt) ==
  \/ /\ st \in {"Syncing", "Starting"}
     /\ syncState' = st /\ syncId' = id /\ waiter' = l /\ pingTimer' = pt
     /\ sess' = [sess EXCEPT ![loops[l].session].queue = Tail(@)]
     /\ UNCHANGED <<loops, streamVars, tick, nextSession>>
  \/ st \notin {"Syncing", "Starting"} /\ NextIteration(l, st, pt)

\* createSyncLoop.  The promise is rejected when the state does not admit a
\* start, or when the field syncLoop is set; a loop runs in any case.
StartSyncStreams(l) ==
  /\ l =< syncBound.starts /\ loops[l].pc = "none" /\ \A i \in 1..(l-1) : loops[i].pc # "none"
  /\ syncBound.anyTime \/ (syncState = "NotSyncing" /\ stopCall = NoStop)
  /\ syncLoop' = l
  /\ NextIteration(l, IF "Starting" \in stateConstraints[syncState]
                      THEN "Starting" ELSE syncState, pingTimer)
  /\ UNCHANGED <<callVars, responsesQueue, stopVars, strayTimers, pings, log, used>>

\* SYNC_NEW: syncStarted.
SyncStarted(l) ==
  LET k == loops[l].session
      accepted == syncId = 0 /\ "Syncing" \in stateConstraints[syncState]
  IN /\ loops[l].pc = "next" /\ sess[k].queue # << >> /\ Head(sess[k].queue).op = "NEW"
     /\ NextResponse(l, IF accepted THEN "Syncing" ELSE syncState,
                        IF accepted THEN k ELSE syncId, pingTimer \/ accepted)
     /\ UNCHANGED <<syncLoop, callVars, responsesQueue, stopVars, strayTimers, pings, log, used>>

\* SYNC_CLOSE: syncClosed.  When setSyncState throws, the loop retries.
SyncClosed(l) ==
  LET k == loops[l].session
  IN /\ loops[l].pc = "next" /\ sess[k].queue # << >> /\ Head(sess[k].queue).op = "CLOSE"
     /\ \/ syncState = "Canceling" /\ NextResponse(l, "Canceling", syncId, FALSE)
        \/ /\ syncState \in {"Starting", "Syncing"}
           /\ NextResponse(l, "Retrying", syncId, FALSE)
        \/ /\ syncState = "NotSyncing" /\ NextIteration(l, "NotSyncing", FALSE)
        \/ /\ syncState = "Retrying"
           /\ loops' = [loops EXCEPT ![l] = [pc |-> "retryWait", session |-> 0]]
           /\ sess' = Left(l) /\ pingTimer' = FALSE
           /\ UNCHANGED <<syncState, syncId, waiter, streamVars, tick, nextSession>>
     /\ UNCHANGED <<syncLoop, callVars, responsesQueue, stopVars, strayTimers, pings, log, used>>

\* SYNC_UPDATE: the response is queued.
GotUpdate(l) ==
  LET k == loops[l].session
      r == Head(sess[k].queue)
  IN /\ loops[l].pc = "next" /\ sess[k].queue # << >> /\ r.op = "UPDATE"
     /\ Len(responsesQueue) < syncBound.inFlight
     /\ responsesQueue' = Append(responsesQueue,
          [session |-> k, stream |-> r.stream, from |-> r.from, to |-> r.to,
           reset |-> r.reset, orphan |-> FALSE])
     /\ NextResponse(l, syncState, syncId, pingTimer)
     /\ UNCHANGED <<syncLoop, callVars, stopVars, strayTimers, pings, log, used>>

\* attemptRetry, in the catch of the loop: the session has failed or was
\* interrupted.
AttemptRetry(l) ==
  \/ /\ "Retrying" \in stateConstraints[syncState]
     /\ syncState' = "Retrying"
     /\ syncId' = IF syncState = "Retrying" THEN syncId ELSE 0
     /\ loops' = [loops EXCEPT ![l] = [pc |-> "retryWait", session |-> 0]]
     /\ sess' = Left(l) /\ pingTimer' = FALSE
     /\ UNCHANGED <<waiter, streamVars, tick, nextSession>>
  \/ /\ "Retrying" \notin stateConstraints[syncState]
     /\ NextIteration(l, syncState, FALSE)

\* iterator.next() rejects: the session is gone, with whatever was on its way.
SessionFailed(l) ==
  /\ loops[l].pc = "next" /\ ~sess[loops[l].session].open
  /\ AttemptRetry(l)
  /\ UNCHANGED <<syncLoop, callVars, responsesQueue, stopVars, strayTimers, pings, log, used>>

\* The timer or releaseRetryWait ends the wait of attemptRetry.
RetryWaitEnds(l) ==
  /\ loops[l].pc = "retryWait"
  /\ NextIteration(l, syncState, pingTimer)
  /\ UNCHANGED <<syncLoop, callVars, responsesQueue, stopVars, strayTimers, pings, log, used>>

(***************************************************************************)
(* stopSync.                                                               *)
(***************************************************************************)

\* Mutant: does not wait for the loop to end.
StopSync_AtOnce ==
  /\ "Canceling" \in stateConstraints[syncState]
  /\ syncState' = "NotSyncing" /\ responsesQueue' = << >> /\ pingTimer' = FALSE
  /\ UNCHANGED <<syncId, syncLoop, loops, waiter, streamVars, callVars, tick, stopVars,
                 strayTimers, pings, log, sess, nextSession, used>>

\* Up to its await.  The 5 second timer is armed only when there is a session to
\* cancel.
StopSync ==
  /\ responsesQueue' = << >>
  /\ \/ /\ "Canceling" \in stateConstraints[syncState]
        /\ syncState' = "Canceling" /\ pingTimer' = FALSE
        /\ breakTimers' = IF syncId # 0 THEN breakTimers + 1 ELSE breakTimers
        /\ stopCall = NoStop
        /\ stopCall' = [pc |-> IF syncId # 0 THEN "cancelRpc" ELSE "awaitLoop",
                        syncId |-> syncId, loop |-> syncLoop]
     \/ /\ "Canceling" \notin stateConstraints[syncState]
        /\ syncState # "NotSyncing"
        /\ UNCHANGED <<syncState, pingTimer, breakTimers, stopCall>>
  /\ UNCHANGED <<syncId, syncLoop, loops, waiter, streamVars, callVars, tick,
                 strayTimers, pings, log, sess, nextSession, used>>

\* cancelSync reaches the node: the last response of the session is SYNC_CLOSE.
CancelSync ==
  /\ stopCall.pc = "cancelRpc"
  /\ stopCall' = [stopCall EXCEPT !.pc = "awaitLoop"]
  /\ sess' = IF sess[stopCall.syncId].open
             THEN [sess EXCEPT ![stopCall.syncId].open = FALSE,
                               ![stopCall.syncId].queue = Append(@, [op |-> "CLOSE"])]
             ELSE sess
  /\ UNCHANGED <<stateVars, streamVars, callVars, queueVars, breakTimers, pingVars,
                 log, nextSession, used>>

\* cancelSync fails: stopSync returns without waiting for the loop, and the timer
\* stays armed.
CancelSyncFails ==
  /\ stopCall.pc = "cancelRpc" /\ Fault("lostCancels")
  /\ stopCall' = NoStop
  /\ UNCHANGED <<stateVars, streamVars, callVars, queueVars, breakTimers, pingVars,
                 log, sess, nextSession>>

\* The loop has ended: the timer is cleared.
StopSyncDone ==
  /\ stopCall.pc = "awaitLoop" /\ loops[stopCall.loop].pc = "done"
  /\ stopCall' = NoStop
  /\ breakTimers' = IF stopCall.syncId # 0 /\ breakTimers > 0
                    THEN breakTimers - 1 ELSE breakTimers
  /\ UNCHANGED <<stateVars, streamVars, callVars, queueVars, pingVars, log, sess,
                 nextSession, used>>

\* The timer calls forceStopSyncStreams: the loop that waits for a response sees
\* done and returns.
BreakTimeout ==
  /\ breakTimers > 0 /\ breakTimers' = breakTimers - 1
  /\ \/ /\ Awaiting /\ Finally(waiter, syncState, 0)
     \/ /\ ~Awaiting
        /\ UNCHANGED <<syncState, syncId, loops, waiter, streamVars, tick, pingTimer,
                       sess, nextSession>>
  /\ UNCHANGED <<syncLoop, callVars, responsesQueue, stopCall, strayTimers, pings, log,
                 used>>

(***************************************************************************)
(* Adding and removing streams.                                            *)
(***************************************************************************)

\* A stream is put into the map and its view initialized from the node or from
\* the local database, which knows the stream up to some event.
InitStream(s) ==
  /\ s \notin streams /\ addCall[s] = NoCall
  /\ \E c \in 1..log[s] :
       /\ streams' = streams \cup {s}
       /\ cookie' = [cookie EXCEPT ![s] = c]
       /\ timeline' = [timeline EXCEPT ![s] = 1..c]
       /\ addCall' = [addCall EXCEPT ![s] = [pc |-> "init", syncId |-> 0, cookie |-> c]]
  /\ UNCHANGED <<unapplied, stateVars, removeCall, queueVars, stopVars, pingVars, log, sess,
                 nextSession, used>>

\* addStreamToSync up to the await of waitForSyncingState, or to the one of the
\* RPC, with the cookie of the view that the caller holds.  It goes on when that
\* view has left the map meanwhile.
AddStreamToSync(s) ==
  /\ addCall[s].pc = "init"
  /\ addCall' = [addCall EXCEPT ![s] =
       CASE syncState \in {"Starting", "Retrying"} -> [@ EXCEPT !.pc = "waiting"]
         [] syncState = "Syncing" -> [@ EXCEPT !.pc = "rpc", !.syncId = syncId]
         [] OTHER -> NoCall]
  /\ UNCHANGED <<stateVars, streamVars, removeCall, queueVars, stopVars, pingVars, log,
                 sess, nextSession, used>>

\* Mutant: leaves a stream that had to wait to the loop.
AddWaitEnds_LeftToLoop(s) ==
  /\ addCall[s].pc = "waiting" /\ "Syncing" \notin stateConstraints[syncState]
  /\ addCall' = [addCall EXCEPT ![s] = NoCall]
  /\ UNCHANGED <<stateVars, streamVars, removeCall, queueVars, stopVars, pingVars, log,
                 sess, nextSession, used>>

\* waitForSyncingState resolves; the id is read after it.
AddWaitEnds(s) ==
  /\ addCall[s].pc = "waiting" /\ "Syncing" \notin stateConstraints[syncState]
  /\ addCall' = [addCall EXCEPT ![s] =
       IF syncState = "Syncing"
       THEN [@ EXCEPT !.pc = "rpc", !.syncId = syncId] ELSE NoCall]
  /\ UNCHANGED <<stateVars, streamVars, removeCall, queueVars, stopVars, pingVars, log,
                 sess, nextSession, used>>

\* The node has the session or not: an error is logged.
AddRpc(s) ==
  /\ addCall[s].pc = "rpc"
  /\ addCall' = [addCall EXCEPT ![s] = NoCall]
  /\ LET k == addCall[s].syncId
     IN sess' = IF k # 0 /\ sess[k].open /\ sess[k].asked[s] = -1 /\ sess[k].sent[s] = -1
                THEN [sess EXCEPT ![k].asked[s] = addCall[s].cookie] ELSE sess
  /\ UNCHANGED <<stateVars, streamVars, removeCall, queueVars, stopVars, pingVars, log,
                 nextSession, used>>

\* The call never reaches the node: the error is logged.
AddRpcFails(s) ==
  /\ addCall[s].pc = "rpc" /\ Fault("lostCalls")
  /\ addCall' = [addCall EXCEPT ![s] = NoCall]
  /\ UNCHANGED <<stateVars, streamVars, removeCall, queueVars, stopVars, pingVars, log,
                 sess, nextSession>>

RemoveStreamFromSync(s) ==
  /\ s \in streams /\ syncBound.leave /\ removeCall[s] = NoCall
  /\ syncState \in {"Starting", "Retrying", "Syncing"}
  /\ removeCall' = [removeCall EXCEPT ![s] =
       IF syncState = "Syncing" THEN [pc |-> "rpc", syncId |-> syncId, cookie |-> 0]
       ELSE [NoCall EXCEPT !.pc = "waiting"]]
  /\ UNCHANGED <<stateVars, streamVars, addCall, queueVars, stopVars, pingVars, log, sess,
                 nextSession, used>>

RemoveWaitEnds(s) ==
  /\ removeCall[s].pc = "waiting" /\ "Syncing" \notin stateConstraints[syncState]
  /\ removeCall' = [removeCall EXCEPT ![s] =
       IF syncState = "Syncing"
       THEN [@ EXCEPT !.pc = "rpc", !.syncId = syncId] ELSE NoCall]
  /\ UNCHANGED <<stateVars, streamVars, addCall, queueVars, stopVars, pingVars, log, sess,
                 nextSession, used>>

\* The rest of removeStreamFromSync, whatever the answer was.
Removed(s) ==
  /\ removeCall[s].pc = "rpc"
  /\ removeCall' = [removeCall EXCEPT ![s] = NoCall]
  /\ streams' = streams \ {s}
  /\ cookie' = [cookie EXCEPT ![s] = 0] /\ timeline' = [timeline EXCEPT ![s] = {}]
  /\ unapplied' = [unapplied EXCEPT ![s] = {}]
  /\ tick' = IF tick # NoItem /\ tick.stream = s THEN [tick EXCEPT !.orphan = TRUE] ELSE tick
  /\ UNCHANGED <<stateVars, addCall, responsesQueue, stopVars, pingVars, log, nextSession>>

RemoveRpc(s) ==
  /\ Removed(s)
  /\ LET k == removeCall[s].syncId
     IN sess' = IF k # 0 /\ sess[k].open
                THEN [sess EXCEPT ![k].asked[s] = -1, ![k].sent[s] = -1] ELSE sess
  /\ UNCHANGED used

\* The call never reaches the node: the error is logged.
RemoveRpcFails(s) ==
  /\ Removed(s)
  /\ Fault("lostCalls")
  /\ UNCHANGED sess

(***************************************************************************)
(* Updates.                                                                *)
(***************************************************************************)

\* Mutant: takes the latest update first.
Tick_LastFirst ==
  LET item == responsesQueue[Len(responsesQueue)]
  IN /\ tick = NoItem /\ responsesQueue # << >>
     /\ responsesQueue' = SubSeq(responsesQueue, 1, Len(responsesQueue) - 1)
     /\ tick' = IF /\ item.session = syncId
                   /\ syncState \in {"Syncing", "Canceling"}
                   /\ item.stream \in streams
                THEN item ELSE NoItem
     /\ UNCHANGED <<stateVars, streamVars, callVars, stopVars, pingVars, log, sess,
                    nextSession, used>>

\* checkStartTicking, and tick and onUpdate up to the unpacking of the events.  An
\* update of another session, or of an unknown stream, is dropped.
Tick ==
  LET item == Head(responsesQueue)
  IN /\ tick = NoItem /\ responsesQueue # << >>
     /\ responsesQueue' = Tail(responsesQueue)
     /\ tick' = IF /\ item.session = syncId
                   /\ syncState \in {"Syncing", "Canceling"}
                   /\ item.stream \in streams
                THEN item ELSE NoItem
     /\ UNCHANGED <<stateVars, streamVars, callVars, stopVars, pingVars, log, sess,
                    nextSession, used>>

\* The rest of onUpdate: the events the view does not have yet are appended, or
\* the view is built anew, and the cookie is taken over.  When the update
\* cannot be unpacked or its cleartexts cannot be read, the error is logged and the view and
\* its cookie stay; an error of the writes to the database comes after the view has changed,
\* and one of an event is caught in the view.  The stream was looked up before; when it has left the map, its old object
\* is changed.
OnUpdate ==
  LET s == tick.stream
      brought == IF tick.reset THEN 1..tick.to ELSE (tick.from + 1)..tick.to
  IN /\ tick # NoItem /\ tick' = NoItem
     /\ \/ tick.orphan /\ UNCHANGED <<cookie, timeline, unapplied, addCall, used>>
        \/ /\ ~tick.orphan
           /\ cookie' = [cookie EXCEPT ![s] = tick.to]
           /\ timeline' = [timeline EXCEPT ![s] = IF tick.reset THEN brought ELSE @ \cup brought]
           /\ unapplied' = [unapplied EXCEPT ![s] = @ \ brought]
           /\ addCall' = [addCall EXCEPT ![s].cookie = IF addCall[s].pc = "init" THEN tick.to ELSE @]
           /\ UNCHANGED used
        \/ /\ ~tick.orphan /\ Fault("badUpdates")
           /\ unapplied' = [unapplied EXCEPT ![s] = @ \cup (brought \ timeline[s])]
           /\ UNCHANGED <<cookie, timeline, addCall>>
     /\ UNCHANGED <<stateVars, streams, removeCall, responsesQueue, stopVars, pingVars, log,
                    sess, nextSession>>

(***************************************************************************)
(* Pings.                                                                  *)
(***************************************************************************)

\* A timer of sendKeepAlivePings fires.
SendPing ==
  /\ LET rearm == syncState = "Syncing" /\ syncId = 0
     IN \/ pingTimer /\ pingTimer' = rearm /\ UNCHANGED strayTimers
        \/ /\ strayTimers > 0 /\ pingTimer' = (pingTimer \/ rearm)
           /\ strayTimers' = IF pingTimer /\ rearm THEN strayTimers ELSE strayTimers - 1
  /\ pings < syncBound.pings
  /\ pings' = IF syncState = "Syncing" /\ syncId # 0 THEN pings + 1 ELSE pings
  /\ UNCHANGED <<stateVars, streamVars, callVars, queueVars, stopVars, log, sess,
                 nextSession, used>>

\* The node answers.  The next ping is scheduled if the client is syncing, be it in
\* another session; pingInfo then refers to the new timer only.
PingAnswered ==
  /\ pings > 0 /\ pings' = pings - 1
  /\ pingTimer' = (pingTimer \/ syncState = "Syncing")
  /\ strayTimers' = IF pingTimer /\ syncState = "Syncing" THEN strayTimers + 1
                    ELSE strayTimers
  /\ UNCHANGED <<stateVars, streamVars, callVars, queueVars, stopVars, log, sess,
                 nextSession, used>>

\* The call fails: interruptSync makes the loop that waits for a response retry.
PingFails ==
  /\ pings > 0 /\ pings' = pings - 1
  /\ Fault("faults")
  /\ \/ /\ Awaiting /\ AttemptRetry(waiter)
     \/ /\ ~Awaiting
        /\ UNCHANGED <<syncState, syncId, loops, waiter, streamVars, tick, pingTimer,
                       sess, nextSession>>
  /\ UNCHANGED <<syncLoop, callVars, responsesQueue, stopVars, strayTimers, log>>

(***************************************************************************)
(* The node.                                                               *)
(***************************************************************************)

nodeUnchanged == <<stateVars, streamVars, callVars, queueVars, stopVars, pingVars,
                   nextSession>>

AddEvent(s) ==
  /\ log[s] < syncBound.events /\ log' = [log EXCEPT ![s] = @ + 1]
  /\ UNCHANGED <<nodeUnchanged, sess, used>>

\* A stream is subscribed from its cookie; the answer is always sent, and it is a
\* reset when the node does not have the events after the cookie at hand.
Subscribe(k, s) ==
  /\ sess[k].open /\ sess[k].asked[s] # -1 /\ Len(sess[k].queue) < syncBound.inFlight
  /\ \E reset \in BOOLEAN :
       sess' = [sess EXCEPT ![k].asked[s] = -1, ![k].sent[s] = log[s],
                            ![k].queue = Append(@, [op |-> "UPDATE", stream |-> s,
                              from |-> sess[k].asked[s], to |-> log[s], reset |-> reset])]
  /\ UNCHANGED <<nodeUnchanged, log, used>>

\* A subscriber is told of a new event.
SendUpdate(k, s) ==
  /\ sess[k].open /\ sess[k].sent[s] \in 0..(log[s] - 1) /\ Len(sess[k].queue) < syncBound.inFlight
  /\ sess' = [sess EXCEPT ![k].sent[s] = @ + 1,
                          ![k].queue = Append(@, [op |-> "UPDATE", stream |-> s,
                            from |-> sess[k].sent[s], to |-> sess[k].sent[s] + 1,
                            reset |-> FALSE])]
  /\ UNCHANGED <<nodeUnchanged, log, used>>

\* The connection breaks, or the node closes the session.
SessionEnds(k) ==
  /\ sess[k].open /\ Fault("faults")
  /\ \E closing \in {<< >>, <<[op |-> "CLOSE"]>>} :
       sess' = [sess EXCEPT ![k].open = FALSE, ![k].queue = @ \o closing]
  /\ UNCHANGED <<nodeUnchanged, log>>

(***************************************************************************)
(* The specification.                                                      *)
(***************************************************************************)

LoopStep(l) ==
  \/ SyncStarted(l) \/ SyncClosed(l) \/ GotUpdate(l)
  \/ SessionFailed(l) \/ RetryWaitEnds(l)

SyncNext ==
  /\ \/ \E l \in Loop : StartSyncStreams(l) \/ LoopStep(l)
     \/ StopSync \/ CancelSync \/ CancelSyncFails \/ StopSyncDone \/ BreakTimeout
     \/ \E s \in Stream :
          \/ InitStream(s) \/ AddStreamToSync(s) \/ AddWaitEnds(s)
          \/ AddRpc(s) \/ AddRpcFails(s)
          \/ RemoveStreamFromSync(s) \/ RemoveWaitEnds(s)
          \/ RemoveRpc(s) \/ RemoveRpcFails(s)
          \/ AddEvent(s) \/ \E k \in Session : Subscribe(k, s) \/ SendUpdate(k, s)
     \/ Tick \/ OnUpdate
     \/ SendPing \/ PingAnswered \/ PingFails
     \/ \E k \in Session : SessionEnds(k)
  /\ UNCHANGED syncBound

\* The loop, the timers and the callbacks run when they can; the node serves the
\* sessions and calls that it has.  Nobody has to start, stop, add, remove or
\* publish, and no fault has to happen.
SyncFairness ==
  /\ \A l \in Loop : WF_syncVars(LoopStep(l))
  /\ WF_syncVars(CancelSync \/ BreakTimeout)
  /\ WF_syncVars(Tick \/ OnUpdate)
  /\ \A s \in Stream :
       /\ WF_syncVars(AddStreamToSync(s) \/ AddWaitEnds(s) \/ AddRpc(s))
       /\ WF_syncVars(RemoveWaitEnds(s) \/ RemoveRpc(s))
       /\ \A k \in Session : WF_syncVars(Subscribe(k, s) \/ SendUpdate(k, s))

(***************************************************************************)
(* Properties.                                                             *)
(***************************************************************************)

\* A view has every event up to its cookie but those of an update that onUpdate failed to
\* apply, as long as no stream is left and sync is not stopped and started again: the cookie
\* of a view is what the next session is asked to continue from, so that an event before it
\* that is missing would never be sent again.
NothingMissed ==
  ~syncBound.leave /\ syncBound.starts = 1 =>
    \A s \in streams : 1..cookie[s] \subseteq timeline[s] \cup unapplied[s]

Running(l) == loops[l].pc \in {"next", "retryWait"}

OneRunning ==
  \/ syncState = "NotSyncing" /\ \A l \in Loop : ~Running(l)
  \/ syncState # "NotSyncing" /\ \E l \in Loop : Running(l) /\ \A m \in Loop \ {l} : ~Running(m)

\* Unless the state is NotSyncing there is one loop, and it can still change the
\* state, provided that callers wait for stopSync and cancelSync is not lost.
OneLoop == ~syncBound.anyTime /\ used.lostCancels = 0 => OneRunning

\* An event that is on the node reaches the view of a stream that is synced by one
\* loop, unless the user stops the sync or leaves the stream, the call that adds
\* the stream is lost, or onUpdate fails to apply the update that brings the event.
Delivered ==
  \A s \in Stream : \A e \in 1..MaxEvents :
    (/\ s \in streams /\ log[s] >= e /\ ~syncBound.anyTime
     /\ syncState \in {"Starting", "Syncing", "Retrying"})
      ~> \/ e \in timeline[s] \cup unapplied[s] \/ s \notin streams \/ removeCall[s] # NoCall
         \/ syncState \in {"Canceling", "NotSyncing"}
         \/ used.lostCalls > 0 \/ used.lostCancels > 0

(***************************************************************************)
(* The inductive invariants of the proofs.                                 *)
(***************************************************************************)
SyncSpec == SyncInit /\ [][SyncNext]_<<syncVars, syncBound>>

SyncItem ==
  [session : Session, stream : Stream, from : Nat, to : Nat, reset : BOOLEAN, orphan : BOOLEAN]
SyncUpdate == [op : {"UPDATE"}, stream : Stream, from : Nat, to : Nat, reset : BOOLEAN]
SyncResponse == [op : {"NEW", "CLOSE"}] \cup SyncUpdate
SyncSession ==
  [open : BOOLEAN, asked : [Stream -> Nat \cup {-1}], sent : [Stream -> Nat \cup {-1}],
   queue : Seq(SyncResponse)]

LoopTypes ==
  /\ syncState \in SyncState /\ loops \in [Loop -> LoopState] /\ waiter \in {0} \cup Loop
  /\ breakTimers \in Nat /\ used \in [{"faults", "lostCalls", "lostCancels", "badUpdates"} -> Nat]
  /\ syncBound \in SyncBound

\* The timer of stopSync is armed only while the call waits, and then the loop that it may
\* end has been told to stop.
StopOK ==
  /\ stopCall # NoStop => syncState \in {"Canceling", "NotSyncing"}
  /\ breakTimers > 0 => breakTimers = 1 /\ stopCall # NoStop /\ stopCall.syncId # 0

LoopInv ==
  LoopTypes /\ (~syncBound.anyTime /\ used.lostCancels = 0 => StopOK /\ OneRunning)

ViewTypes ==
  /\ syncId \in {0} \cup Session
  /\ streams \subseteq Stream /\ cookie \in [Stream -> Nat] /\ timeline \in [Stream -> SUBSET Nat]
  /\ unapplied \in [Stream -> SUBSET Nat]
  /\ addCall \in [Stream -> [pc : {"none", "init", "waiting", "rpc"}, syncId : {0} \cup Session, cookie : Nat]]
  /\ responsesQueue \in Seq(SyncItem) /\ tick \in {NoItem} \cup SyncItem
  /\ log \in [Stream -> Nat] /\ sess \in [Session -> SyncSession] /\ nextSession \in Nat

\* Where the one loop stands.
LoopStands ==
  /\ \A l \in Loop \ {1} : loops[l].pc = "none"
  /\ loops[1].pc = "none" => syncState = "NotSyncing" /\ breakTimers = 0
  /\ loops[1].pc = "next" =>
       /\ syncState \in {"Starting", "Syncing", "Canceling"}
       /\ loops[1].session \in Session /\ loops[1].session < nextSession
       /\ syncState = "Syncing" => syncId = loops[1].session
       /\ syncState = "Starting" => syncId = 0
  /\ loops[1].pc = "retryWait" => syncState \in {"Retrying", "Canceling"}
  /\ loops[1].pc = "done" => syncState = "NotSyncing"
  /\ syncState = "NotSyncing" => syncId = 0
  /\ syncState = "Canceling" => responsesQueue = << >>
  /\ breakTimers > 0 => syncState \in {"Canceling", "NotSyncing"}
  /\ \A k \in Session : loops[1].pc # "next" \/ k # loops[1].session => sess[k] = NoSession

\* The events up to x are in the view, or their update has failed.
Had(s, x) == 1..x \subseteq timeline[s] \cup unapplied[s]

ViewOK(s) ==
  /\ cookie[s] <= log[s] /\ timeline[s] \subseteq 1..cookie[s]
  /\ s \in streams => Had(s, cookie[s])
  /\ addCall[s].pc # "none" /\ loops[1].pc # "done" => s \in streams /\ addCall[s].cookie <= cookie[s]
  /\ removeCall[s] = NoCall

TickOf(s) == tick # NoItem /\ ~tick.orphan /\ tick.stream = s

TickOK(s) ==
  TickOf(s) => s \in streams /\ Had(s, tick.from) /\ cookie[s] <= tick.to /\ tick.to <= log[s]

QueueOK ==
  \A i \in DOMAIN responsesQueue :
    ~responsesQueue[i].orphan /\ responsesQueue[i].session < nextSession

\* The updates of a stream that session k has sent: in the client's queue and on their way.
UpdateQueued(i, k, s) == responsesQueue[i].session = k /\ responsesQueue[i].stream = s
UpdateComing(i, k, s) == sess[k].queue[i].op = "UPDATE" /\ sess[k].queue[i].stream = s

\* What the view has had, or will have had when the update at work is done.
Base(s, x) == Had(s, x) \/ (TickOf(s) /\ x <= tick.to)
InPipe(k, s, x) ==
  \/ \E i \in DOMAIN responsesQueue : UpdateQueued(i, k, s) /\ responsesQueue[i].to = x
  \/ \E i \in DOMAIN sess[k].queue : UpdateComing(i, k, s) /\ sess[k].queue[i].to = x

ViewUpTo(s, x) == cookie[s] <= x /\ (TickOf(s) => tick.to <= x)

\* An update begins where the view ends, or where another one on its way ends.
ItemOK(k, s, from, to) ==
  /\ ViewUpTo(s, to) /\ to <= sess[k].sent[s]
  /\ Base(s, from) \/ (from < to /\ InPipe(k, s, from))

ItemsOK(k, s) ==
  /\ \A i \in DOMAIN responsesQueue :
       UpdateQueued(i, k, s) => ItemOK(k, s, responsesQueue[i].from, responsesQueue[i].to)
  /\ \A i \in DOMAIN sess[k].queue :
       UpdateComing(i, k, s) => ItemOK(k, s, sess[k].queue[i].from, sess[k].queue[i].to)

Sorted(k, s) ==
  /\ \A i, j \in DOMAIN responsesQueue :
       i < j /\ UpdateQueued(i, k, s) /\ UpdateQueued(j, k, s) => responsesQueue[i].to <= responsesQueue[j].to
  /\ \A i \in DOMAIN responsesQueue, j \in DOMAIN sess[k].queue :
       UpdateQueued(i, k, s) /\ UpdateComing(j, k, s) => responsesQueue[i].to <= sess[k].queue[j].to
  /\ \A i, j \in DOMAIN sess[k].queue :
       i < j /\ UpdateComing(i, k, s) /\ UpdateComing(j, k, s) => sess[k].queue[i].to <= sess[k].queue[j].to

SentOK(k, s) ==
  /\ sess[k].asked[s] # -1 => s \in streams /\ sess[k].asked[s] <= cookie[s] /\ sess[k].sent[s] = -1
  /\ sess[k].sent[s] # -1 =>
       /\ s \in streams /\ ViewUpTo(s, sess[k].sent[s]) /\ sess[k].sent[s] <= log[s]
       /\ Base(s, sess[k].sent[s]) \/ InPipe(k, s, sess[k].sent[s])

\* The session that the loop reads is only used once its id is known.
StartingOK(k) ==
  syncState = "Starting" =>
    /\ sess[k].queue # << >> /\ sess[k].queue[1].op = "NEW"
    /\ \A i \in DOMAIN responsesQueue : responsesQueue[i].session # k

StreamOK(k, s) == ItemsOK(k, s) /\ Sorted(k, s) /\ SentOK(k, s)

ChainOK ==
  \A k \in Session : k = loops[1].session => StartingOK(k) /\ \A s \in Stream : StreamOK(k, s)

OneStart == ~syncBound.leave /\ syncBound.starts = 1

ViewInv ==
  OneStart =>
    /\ ViewTypes /\ LoopStands /\ QueueOK /\ \A s \in Stream : ViewOK(s) /\ TickOK(s)
    /\ loops[1].pc = "next" /\ syncState \in {"Starting", "Syncing"} => ChainOK
=============================================================================
