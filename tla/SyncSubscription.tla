-------------------------- MODULE SyncSubscription --------------------------
(***************************************************************************)
(* One subscription of a client on a node: core/node/rpc/sync_streams.go   *)
(* and sync_subscription.go.  Streams of the node itself write to a        *)
(* bounded channel; for the streams of another node there is a goroutine   *)
(* (a run of syncRemoteNode) that reads a subscription of that node.  The  *)
(* client adds and removes streams by calls that run concurrently.         *)
(*                                                                         *)
(* A section under the mutex of the subscription is one step.              *)
(***************************************************************************)
EXTENDS Integers, Sequences, FiniteSets, SequencesExt, FiniteSetsExt

CONSTANTS Homed,      \* streams with their nodes: a function to Here or another node
          Here,       \* the node of the subscription
          SubBounds   \* the bounds under which the component is explored

Streams == DOMAIN Homed
Locals == {s \in Streams : Homed[s] = Here}

SubBound ==
  [initial : SUBSET Streams,   \* in the request that opens the subscription
   adds : SUBSET Streams,      \* the client may add these
   removes : SUBSET Streams,   \* and remove these
   overlap : BOOLEAN,          \* while another call runs
   early : BOOLEAN,            \* before the node has taken up the request
   updates : Nat,              \* events of all streams
   slots : Nat,                \* in the channel of updates
   breaks : Nat,               \* connections and calls to other nodes that fail
   subFails : Nat]             \* subscriptions to local streams that fail

ASSUME SubAssumption == SubBounds \subseteq SubBound

VARIABLES sub,         \* "accepted", "listed", "running", "ended"; whether cancelled
          localMap,    \* localStreams
          receivers,   \* the local streams that notify the subscription
          remoteNodes, \* per node: its syncNode, or 0
          remoteStreams, \* per stream: its syncNode, or 0
          syncNodes,   \* all syncNode objects
          syncRuns,    \* the runs of syncRemoteNode
          localRun,    \* the goroutine syncLocalNode
          adding,      \* per stream: the call of AddStreamToSync
          removing,    \* per stream: the call of RemoveStreamFromSync
          addRpcs,     \* goroutines that add a stream to a run: <<syncNode, stream>>
          dataChannel, \* updates, from one position to another
          head,        \* per stream: the updates so far
          got,         \* per stream: the last update that the client has
          faults,      \* failures so far
          wanted,      \* the streams that the client believes it follows
          subBound

subVars == <<sub, localMap, receivers, remoteNodes, remoteStreams, syncNodes, syncRuns, localRun,
             adding, removing, addRpcs, dataChannel, head, got, faults, wanted>>

Addresses == {Homed[s] : s \in Streams} \ {Here}
Uncalled == [pc |-> "none"]

SubInit ==
  /\ subBound \in SubBounds
  /\ sub = [pc |-> "accepted", cancelled |-> FALSE]
  /\ localMap = {} /\ receivers = {}
  /\ remoteNodes = [n \in Addresses |-> 0] /\ remoteStreams = [s \in Streams |-> 0]
  /\ syncNodes = << >> /\ syncRuns = << >>
  /\ localRun = [pc |-> "none", todo |-> {}]
  /\ adding = [s \in Streams |-> Uncalled] /\ removing = [s \in Streams |-> Uncalled]
  /\ addRpcs = {} /\ dataChannel = << >>
  /\ head = [s \in Streams |-> 0] /\ got = [s \in Streams |-> 0]
  /\ faults = [breaks |-> 0, subFails |-> 0]
  /\ wanted = subBound.initial

NodeFault(kind) ==
  faults[kind] < subBound[kind] /\ faults' = [faults EXCEPT ![kind] = @ + 1]

\* Sub brings a receiver from its cookie to the present, with an update that may be empty.
Since(s, cookie) == <<[stream |-> s, from |-> cookie + 1, to |-> head[s]]>>

Cancel == sub' = [sub EXCEPT !.cancelled = TRUE]

SubOnUpdate_Drops(updates) ==
  /\ dataChannel' = IF sub.cancelled \/ Len(dataChannel) >= subBound.slots
                      THEN dataChannel ELSE dataChannel \o updates
  /\ UNCHANGED sub

\* OnUpdate: a full channel drops the update and cancels the subscription.
SubOnUpdate(updates) ==
  IF sub.cancelled THEN UNCHANGED <<sub, dataChannel>>
  ELSE IF Len(dataChannel) < subBound.slots
    THEN dataChannel' = dataChannel \o updates /\ UNCHANGED sub
  ELSE Cancel /\ UNCHANGED dataChannel

\* OnSyncError
OnSyncError == Cancel

(***************************************************************************)
(* Streams, and the goroutine that writes to the client.                   *)
(***************************************************************************)

\* What the connection to a remote node brings for an event of a stream.
Forwarded(s, new) ==
  [r \in DOMAIN syncRuns |->
     IF s \in syncRuns[r].serves /\ syncRuns[r].pc = "receiving"
       THEN [syncRuns[r] EXCEPT !.inbox = Append(@, new)] ELSE syncRuns[r]]

\* A stream gets an event.  A local one notifies the subscription; a remote one goes to
\* the runs that serve it.
StreamUpdate(s) ==
  LET new == [stream |-> s, from |-> head[s] + 1, to |-> head[s] + 1]
  IN /\ MapThenSumSet(LAMBDA x : head[x], Streams) < subBound.updates
     /\ head' = [head EXCEPT ![s] = @ + 1]
     /\ IF s \in receivers THEN SubOnUpdate(<<new>>) ELSE UNCHANGED <<sub, dataChannel>>
     /\ syncRuns' = Forwarded(s, new)
     /\ UNCHANGED <<localMap, receivers, remoteNodes, remoteStreams, syncNodes, localRun, adding,
                    removing, addRpcs, got, faults, wanted>>

\* Dispatch sends an update, also one that is left when the subscription is cancelled.
DispatchData ==
  /\ sub.pc = "running" /\ dataChannel # << >>
  /\ dataChannel' = Tail(dataChannel)
  /\ got' = [got EXCEPT ![Head(dataChannel).stream] = Max({@, Head(dataChannel).to})]
  /\ UNCHANGED <<sub, localMap, receivers, remoteNodes, remoteStreams, syncNodes, syncRuns, localRun,
                 adding, removing, addRpcs, head, faults, wanted>>

\* The client closes the subscription, or cannot be reached.
DispatchClose ==
  /\ sub.pc = "running" /\ ~sub.cancelled /\ Cancel
  /\ UNCHANGED <<localMap, receivers, remoteNodes, remoteStreams, syncNodes, syncRuns, localRun, adding,
                 removing, addRpcs, dataChannel, head, got, faults, wanted>>

\* Dispatch returns and the subscription is removed.
RemoveSubscription ==
  /\ sub.pc = "running" /\ sub.cancelled /\ sub' = [sub EXCEPT !.pc = "ended"]
  /\ remoteNodes' = [n \in Addresses |-> 0] /\ remoteStreams' = [s \in Streams |-> 0]
  /\ UNCHANGED <<localMap, receivers, syncNodes, syncRuns, localRun, adding, removing, addRpcs,
                 dataChannel, head, got, faults, wanted>>

(***************************************************************************)
(* handleSyncRequest, after SYNC_NEW has gone to the client.               *)
(***************************************************************************)
NewSyncNode(n) == [address |-> n, remoteSyncId |-> 0, closed |-> FALSE]
NewSyncRun(node, cookies) ==
  [node |-> node, pc |-> "start", cookies |-> cookies, serves |-> {}, inbox |-> << >>]

\* The request was made when the client was at the start of the streams.
RequestCookies(ss) == [s \in ss |-> 0]
InitialAt(n) == {s \in subBound.initial : Homed[s] = n}

\* addSyncNode for the nodes of the request.
AddSyncNodes ==
  LET missing == SetToSeq({n \in Addresses : InitialAt(n) # {} /\ remoteNodes[n] = 0})
      nodes == syncNodes \o [i \in DOMAIN missing |-> NewSyncNode(missing[i])]
      at == [n \in Addresses |->
               IF n \in Range(missing) THEN CHOOSE i \in DOMAIN nodes : i > Len(syncNodes)
                                                                      /\ nodes[i].address = n
               ELSE remoteNodes[n]]
  IN /\ sub.pc = "accepted" /\ sub' = [sub EXCEPT !.pc = "listed"]
     /\ syncNodes' = nodes /\ remoteNodes' = at
     /\ remoteStreams' = [s \in Streams |-> IF s \in subBound.initial \ Locals THEN at[Homed[s]]
                                            ELSE remoteStreams[s]]
     /\ UNCHANGED <<localMap, receivers, syncRuns, localRun, adding, removing, addRpcs, dataChannel,
                    head, got, faults, wanted>>

\* The goroutines for the node itself and for every node of the subscription are started,
\* and Dispatch is entered.
StartSync ==
  LET known == SetToSeq({n \in Addresses : remoteNodes[n] # 0})
  IN /\ sub.pc = "listed" /\ sub' = [sub EXCEPT !.pc = "running"]
     /\ localRun' = IF InitialAt(Here) # {} THEN [pc |-> "adding", todo |-> InitialAt(Here)]
                    ELSE localRun
     /\ syncRuns' = syncRuns \o [i \in DOMAIN known |->
                                   NewSyncRun(remoteNodes[known[i]], RequestCookies(InitialAt(known[i])))]
     /\ UNCHANGED <<localMap, receivers, remoteNodes, remoteStreams, syncNodes, adding, removing,
                    addRpcs, dataChannel, head, got, faults, wanted>>

(***************************************************************************)
(* syncLocalNode                                                           *)
(***************************************************************************)
\* unsubLocalStreams, deferred: also when a stream could not be added.
UnsubLocalStreams(failed) == receivers' = receivers \ localMap /\ localMap' = {}

\* addLocalStream enters a stream that is not there yet.
LocalRunAdds(s) ==
  /\ localRun.pc = "adding" /\ ~sub.cancelled /\ s \in localRun.todo
  /\ localRun' = IF s \in localMap THEN [localRun EXCEPT !.todo = @ \ {s}]
                 ELSE [pc |-> "subscribing", todo |-> localRun.todo, stream |-> s]
  /\ localMap' = localMap \cup {s}
  /\ UNCHANGED <<sub, receivers, remoteNodes, remoteStreams, syncNodes, syncRuns, adding, removing,
                 addRpcs, dataChannel, head, got, faults, wanted>>

\* and subscribes to it.
LocalRunSubscribes ==
  LET s == localRun.stream
  IN /\ localRun.pc = "subscribing"
     /\ localRun' = [pc |-> "adding", todo |-> localRun.todo \ {s}]
     /\ receivers' = receivers \cup {s} /\ SubOnUpdate(Since(s, 0))
     /\ UNCHANGED <<localMap, remoteNodes, remoteStreams, syncNodes, syncRuns, adding, removing,
                    addRpcs, head, got, faults, wanted>>

LocalRunFails ==
  /\ localRun.pc = "subscribing" /\ NodeFault("subFails")
  /\ localRun' = [pc |-> "done", todo |-> {}]
  /\ UnsubLocalStreams(TRUE) /\ OnSyncError
  /\ UNCHANGED <<remoteNodes, remoteStreams, syncNodes, syncRuns, adding, removing, addRpcs,
                 dataChannel, head, got, wanted>>

\* The subscription is cancelled while streams are added or after it.
LocalRunEnds ==
  /\ localRun.pc = "adding" /\ sub.cancelled
  /\ localRun' = [pc |-> "done", todo |-> {}]
  /\ UnsubLocalStreams(FALSE)
  /\ UNCHANGED <<sub, remoteNodes, remoteStreams, syncNodes, syncRuns, adding, removing, addRpcs,
                 dataChannel, head, got, faults, wanted>>

(***************************************************************************)
(* syncRemoteNode                                                          *)
(***************************************************************************)
Stopped(node) == sub.cancelled \/ syncNodes[node].closed

\* A run does nothing when the node has a remote subscription already.
SyncRunStarts(r) ==
  LET run == syncRuns[r]
  IN /\ run.pc = "start"
     /\ syncRuns' = [syncRuns EXCEPT ![r].pc =
                       IF Stopped(run.node) \/ syncNodes[run.node].remoteSyncId # 0
                         THEN "ended" ELSE "opening"]
     /\ UNCHANGED <<sub, localMap, receivers, remoteNodes, remoteStreams, syncNodes, localRun, adding,
                    removing, addRpcs, dataChannel, head, got, faults, wanted>>

\* SYNC_NEW arrives, and the remote node starts to send what the request names.
SyncRunOpens(r) ==
  LET run == syncRuns[r]
      first == FoldLeft(LAMBDA q, s : q \o Since(s, run.cookies[s]), << >>,
                        SetToSeq(DOMAIN run.cookies))
  IN /\ run.pc = "opening" /\ ~Stopped(run.node)
     /\ syncNodes' = [syncNodes EXCEPT ![run.node].remoteSyncId = r]
     /\ syncRuns' = [syncRuns EXCEPT ![r].pc = "receiving", ![r].serves = DOMAIN run.cookies,
                                     ![r].inbox = first]
     /\ UNCHANGED <<sub, localMap, receivers, remoteNodes, remoteStreams, localRun, adding, removing,
                    addRpcs, dataChannel, head, got, faults, wanted>>

\* A message is received.
SyncRunReceives(r) ==
  LET run == syncRuns[r]
  IN /\ run.pc = "receiving" /\ run.inbox # << >> /\ ~Stopped(run.node)
     /\ SubOnUpdate(<<Head(run.inbox)>>)
     /\ syncRuns' = [syncRuns EXCEPT ![r].inbox = Tail(@)]
     /\ UNCHANGED <<localMap, receivers, remoteNodes, remoteStreams, syncNodes, localRun, adding,
                    removing, addRpcs, head, got, faults, wanted>>

Closed(r) ==
  /\ syncRuns' = [syncRuns EXCEPT ![r].pc = "ended", ![r].serves = {}, ![r].inbox = << >>]
  /\ syncNodes' = [syncNodes EXCEPT ![syncRuns[r].node].closed = TRUE]

\* The connection fails: the whole subscription is given up.
SyncRunBreaks(r) ==
  /\ syncRuns[r].pc \in {"opening", "receiving"} /\ ~Stopped(syncRuns[r].node)
  /\ NodeFault("breaks") /\ OnSyncError /\ Closed(r)
  /\ UNCHANGED <<localMap, receivers, remoteNodes, remoteStreams, localRun, adding, removing, addRpcs,
                 dataChannel, head, got, wanted>>

\* The context ends the connection, or a message meets a closed node.
SyncRunEnds(r) ==
  LET run == syncRuns[r]
  IN /\ \/ run.pc = "opening" /\ Stopped(run.node)
        \/ run.pc = "receiving" /\ (sub.cancelled \/ (syncNodes[run.node].closed /\ run.inbox # << >>))
     /\ Closed(r)
     /\ UNCHANGED <<sub, localMap, receivers, remoteNodes, remoteStreams, localRun, adding, removing,
                    addRpcs, dataChannel, head, got, faults, wanted>>

(***************************************************************************)
(* AddStreamToSync                                                         *)
(***************************************************************************)
InCall == {s \in Streams : adding[s].pc \notin {"none", "done", "failed"}
                           \/ removing[s].pc \notin {"none", "done"}}

\* The client makes a call while it has a subscription that the node knows of.
MayCall(s) ==
  /\ sub.pc # "ended" /\ (subBound.early \/ sub.pc = "running")
  /\ s \notin InCall /\ (subBound.overlap \/ InCall = {})

AddCalled(s) ==
  /\ MayCall(s) /\ s \in subBound.adds \ wanted /\ adding[s].pc # "done"
  /\ adding' = [adding EXCEPT ![s] =
       [pc |-> IF s \in Locals THEN "enter" ELSE "find", cookie |-> got[s]]]
  /\ UNCHANGED <<sub, localMap, receivers, remoteNodes, remoteStreams, syncNodes, syncRuns, localRun,
                 removing, addRpcs, dataChannel, head, got, faults, wanted>>

AddReturns(s) ==
  /\ adding' = [adding EXCEPT ![s] = [pc |-> "done"]] /\ wanted' = wanted \cup {s}

\* addLocalStreamToSync looks at the request's context, never at the subscription's.
AddEnters(s) ==
  /\ adding[s].pc = "enter"
  /\ localMap' = localMap \cup {s}
  /\ IF s \in localMap THEN AddReturns(s)
     ELSE adding' = [adding EXCEPT ![s].pc = "subscribe"] /\ UNCHANGED wanted
  /\ UNCHANGED <<sub, receivers, remoteNodes, remoteStreams, syncNodes, syncRuns, localRun, removing,
                 addRpcs, dataChannel, head, got, faults>>

AddSubscribes(s) ==
  /\ adding[s].pc = "subscribe" /\ AddReturns(s)
  /\ receivers' = receivers \cup {s} /\ SubOnUpdate(Since(s, adding[s].cookie))
  /\ UNCHANGED <<localMap, remoteNodes, remoteStreams, syncNodes, syncRuns, localRun, removing, addRpcs,
                 head, got, faults>>

\* The stream stays in localStreams.
AddFails(s) ==
  /\ adding[s].pc = "subscribe" /\ NodeFault("subFails")
  /\ adding' = [adding EXCEPT ![s] = [pc |-> "failed"]]
  /\ UNCHANGED <<sub, localMap, receivers, remoteNodes, remoteStreams, syncNodes, syncRuns, localRun,
                 removing, addRpcs, dataChannel, head, got, wanted>>

\* getRemoteNode
AddFinds(s) ==
  /\ adding[s].pc = "find"
  /\ adding' = [adding EXCEPT ![s] = [pc |-> IF remoteNodes[Homed[s]] = 0 THEN "create" ELSE "attach",
                                      cookie |-> adding[s].cookie,
                                      node |-> remoteNodes[Homed[s]], new |-> FALSE]]
  /\ UNCHANGED <<sub, localMap, receivers, remoteNodes, remoteStreams, syncNodes, syncRuns, localRun,
                 removing, addRpcs, dataChannel, head, got, faults, wanted>>

\* addRemoteNode keeps a node that another call has put there meanwhile.
AddCreates(s) ==
  LET mine == Len(syncNodes) + 1
  IN /\ adding[s].pc = "create"
     /\ syncNodes' = Append(syncNodes, NewSyncNode(Homed[s]))
     /\ remoteNodes' = [remoteNodes EXCEPT ![Homed[s]] = IF @ = 0 THEN mine ELSE @]
     /\ adding' = [adding EXCEPT ![s].pc = "attach", ![s].node = mine, ![s].new = TRUE]
     /\ UNCHANGED <<sub, localMap, receivers, remoteStreams, syncRuns, localRun, removing, addRpcs,
                    dataChannel, head, got, faults, wanted>>

\* A new node is told to sync, a known one to add the stream, by a goroutine.
AddLaunches(s, call) ==
  IF call.new
    THEN /\ syncRuns' = Append(syncRuns, NewSyncRun(call.node, [x \in {s} |-> call.cookie]))
         /\ UNCHANGED addRpcs
    ELSE addRpcs' = addRpcs \cup {<<call.node, s, call.cookie>>} /\ UNCHANGED syncRuns

\* addRemoteStream, which does nothing when the node is not there any more.
AddAttaches(s) ==
  /\ adding[s].pc = "attach" /\ AddReturns(s)
  /\ remoteStreams' = [remoteStreams EXCEPT ![s] = IF remoteNodes[Homed[s]] # 0
                                                     THEN remoteNodes[Homed[s]] ELSE @]
  /\ AddLaunches(s, adding[s])
  /\ UNCHANGED <<sub, localMap, receivers, remoteNodes, syncNodes, localRun, removing, dataChannel,
                 head, got, faults>>

\* syncNode.addStreamToSync makes the call with whatever id the node has.
AddRemoteAnswered(rpc) ==
  LET r == syncNodes[rpc[1]].remoteSyncId
      s == rpc[2]
  IN /\ rpc \in addRpcs /\ addRpcs' = addRpcs \ {rpc}
     /\ IF sub.cancelled THEN UNCHANGED <<sub, syncRuns>>
        ELSE IF r = 0 THEN OnSyncError /\ UNCHANGED syncRuns
        ELSE IF syncRuns[r].pc # "receiving" THEN OnSyncError /\ UNCHANGED syncRuns
        ELSE /\ syncRuns' = IF s \in syncRuns[r].serves THEN syncRuns
                            ELSE [syncRuns EXCEPT ![r].serves = @ \cup {s},
                                                  ![r].inbox = @ \o Since(s, rpc[3])]
             /\ UNCHANGED sub
     /\ UNCHANGED <<localMap, receivers, remoteNodes, remoteStreams, syncNodes, localRun, adding,
                    removing, dataChannel, head, got, faults, wanted>>

AddRemoteFails(rpc) ==
  /\ rpc \in addRpcs /\ addRpcs' = addRpcs \ {rpc} /\ NodeFault("breaks") /\ OnSyncError
  /\ UNCHANGED <<localMap, receivers, remoteNodes, remoteStreams, syncNodes, syncRuns, localRun,
                 adding, removing, dataChannel, head, got, wanted>>

(***************************************************************************)
(* RemoveStreamFromSync                                                    *)
(***************************************************************************)
RemoveCalled(s) ==
  /\ MayCall(s) /\ s \in subBound.removes \cap wanted /\ removing[s].pc = "none"
  /\ wanted' = wanted \ {s}
  /\ removing' = [removing EXCEPT ![s] = [pc |-> "local"]]
  /\ UNCHANGED <<sub, localMap, receivers, remoteNodes, remoteStreams, syncNodes, syncRuns, localRun,
                 adding, addRpcs, dataChannel, head, got, faults>>

\* removeLocalStream: the map, and then the stream.
RemoveLeaves(s) ==
  /\ removing[s].pc = "local"
  /\ localMap' = localMap \ {s}
  /\ removing' = [removing EXCEPT ![s] = [pc |-> IF s \in localMap THEN "unsubscribe" ELSE "remote"]]
  /\ UNCHANGED <<sub, receivers, remoteNodes, remoteStreams, syncNodes, syncRuns, localRun, adding,
                 addRpcs, dataChannel, head, got, faults, wanted>>

RemoveUnsubscribes(s) ==
  /\ removing[s].pc = "unsubscribe" /\ receivers' = receivers \ {s}
  /\ removing' = [removing EXCEPT ![s] = [pc |-> "remote"]]
  /\ UNCHANGED <<sub, localMap, remoteNodes, remoteStreams, syncNodes, syncRuns, localRun, adding,
                 addRpcs, dataChannel, head, got, faults, wanted>>

\* removeRemoteStream
RemoveDetaches(s) ==
  /\ removing[s].pc = "remote"
  /\ remoteStreams' = [remoteStreams EXCEPT ![s] = 0]
  /\ removing' = [removing EXCEPT ![s] = IF remoteStreams[s] = 0 THEN [pc |-> "done"]
                                         ELSE [pc |-> "call", node |-> remoteStreams[s]]]
  /\ UNCHANGED <<sub, localMap, receivers, remoteNodes, syncNodes, syncRuns, localRun, adding, addRpcs,
                 dataChannel, head, got, faults, wanted>>

\* syncNode.removeStreamFromSync makes no call when there is no remote subscription yet.
RemoveRemote(s) ==
  LET node == removing[s].node
      r == syncNodes[node].remoteSyncId
      next(pc) == removing' = [removing EXCEPT ![s] = [pc |-> pc]]
  IN /\ removing[s].pc = "call"
     /\ IF sub.cancelled THEN next("done") /\ UNCHANGED <<sub, syncRuns>>
        ELSE IF syncNodes[node].closed \/ r = 0 THEN next("purge") /\ UNCHANGED <<sub, syncRuns>>
        ELSE IF syncRuns[r].pc # "receiving" THEN next("done") /\ OnSyncError /\ UNCHANGED syncRuns
        ELSE next("purge") /\ syncRuns' = [syncRuns EXCEPT ![r].serves = @ \ {s}] /\ UNCHANGED sub
     /\ UNCHANGED <<localMap, receivers, remoteNodes, remoteStreams, syncNodes, localRun, adding,
                    addRpcs, dataChannel, head, got, faults, wanted>>

RemoveRemoteFails(s) ==
  /\ removing[s].pc = "call" /\ NodeFault("breaks") /\ OnSyncError
  /\ ~Stopped(removing[s].node) /\ syncNodes[removing[s].node].remoteSyncId # 0
  /\ removing' = [removing EXCEPT ![s] = [pc |-> "done"]]
  /\ UNCHANGED <<localMap, receivers, remoteNodes, remoteStreams, syncNodes, syncRuns, localRun,
                 adding, addRpcs, dataChannel, head, got, wanted>>

Unused_AlmostUnused(n) ==
  /\ remoteNodes[n] # 0
  /\ Cardinality({s \in Streams : remoteStreams[s] = remoteNodes[n]}) <= 1

\* A node that no stream refers to; none is, when there are no remote streams at all.
Unused(n) ==
  /\ remoteNodes[n] # 0
  /\ \E s \in Streams : remoteStreams[s] # 0
  /\ \A s \in Streams : remoteStreams[s] # remoteNodes[n]

\* purgeUnusedRemoteNodes
RemovePurges(s) ==
  LET unused == {n \in Addresses : Unused(n)}
  IN /\ removing[s].pc = "purge"
     /\ removing' = [removing EXCEPT ![s] = [pc |-> "done"]]
     /\ remoteNodes' = [n \in Addresses |-> IF n \in unused THEN 0 ELSE remoteNodes[n]]
     /\ syncNodes' = [i \in DOMAIN syncNodes |->
                        IF i \in {remoteNodes[n] : n \in unused}
                          THEN [syncNodes[i] EXCEPT !.closed = TRUE] ELSE syncNodes[i]]
     /\ UNCHANGED <<sub, localMap, receivers, remoteStreams, syncRuns, localRun, adding, addRpcs,
                    dataChannel, head, got, faults, wanted>>

SubNext ==
  /\ UNCHANGED subBound
  /\ \/ \E s \in Streams :
          \/ StreamUpdate(s) \/ LocalRunAdds(s)
          \/ AddCalled(s) \/ AddEnters(s) \/ AddSubscribes(s) \/ AddFails(s)
          \/ AddFinds(s) \/ AddCreates(s) \/ AddAttaches(s)
          \/ RemoveCalled(s) \/ RemoveLeaves(s) \/ RemoveUnsubscribes(s) \/ RemoveDetaches(s)
          \/ RemoveRemote(s) \/ RemoveRemoteFails(s) \/ RemovePurges(s)
     \/ \E r \in DOMAIN syncRuns :
          \/ SyncRunStarts(r) \/ SyncRunOpens(r) \/ SyncRunReceives(r)
          \/ SyncRunBreaks(r) \/ SyncRunEnds(r)
     \/ \E rpc \in addRpcs : AddRemoteAnswered(rpc) \/ AddRemoteFails(rpc)
     \/ DispatchData \/ DispatchClose \/ RemoveSubscription \/ AddSyncNodes \/ StartSync
     \/ LocalRunSubscribes \/ LocalRunFails \/ LocalRunEnds

(***************************************************************************)
(* Properties                                                              *)
(***************************************************************************)
Update == [stream : Streams, from : Nat, to : Nat]

\* The state of a subscription: its maps, goroutines and calls (sync_subscription.go:34-46).
SubTypeOK ==
  /\ sub \in [pc : {"accepted", "listed", "running", "ended"}, cancelled : BOOLEAN]
  /\ localMap \subseteq Locals /\ receivers \subseteq Locals
  /\ remoteNodes \in [Addresses -> 0..Len(syncNodes)]
  /\ remoteStreams \in [Streams -> 0..Len(syncNodes)]
  /\ \A i \in DOMAIN syncNodes :
       syncNodes[i] \in [address : Addresses, remoteSyncId : 0..Len(syncRuns), closed : BOOLEAN]
  /\ \A r \in DOMAIN syncRuns :
       /\ syncRuns[r].node \in DOMAIN syncNodes /\ syncRuns[r].inbox \in Seq(Update)
       /\ syncRuns[r].pc \in {"start", "opening", "receiving", "ended"}
       /\ \A s \in syncRuns[r].serves : Homed[s] = syncNodes[syncRuns[r].node].address
  /\ dataChannel \in Seq(Update) /\ Len(dataChannel) <= subBound.slots
  /\ wanted \subseteq Streams

Serving(s) == {r \in DOMAIN syncRuns : /\ s \in syncRuns[r].serves
                                       /\ ~syncNodes[syncRuns[r].node].closed}
Served(s) == s \in receivers \/ Serving(s) # {}

\* A goroutine or call has yet to take the stream up.
OnItsWay(s) ==
  \/ sub.pc # "running" \/ s \in localRun.todo \/ s \in InCall
  \/ \E r \in DOMAIN syncRuns :
       syncRuns[r].pc \in {"start", "opening"} /\ s \in DOMAIN syncRuns[r].cookies
  \/ \E rpc \in addRpcs : rpc[2] = s

\* A stream that the client has asked for, and has been told that it is added, is served or
\* the whole subscription is cancelled, so that the client starts again: it never stays
\* silent.  It may, in bounds where calls come before the request is taken up, where an add
\* meets the removal of the last other stream of the node, and where a failed local
\* subscription is retried (sync_streams.go:456-557, 679-799).
ServedOrCancelled ==
  (/\ ~subBound.early /\ subBound.subFails = 0
   /\ subBound.overlap => subBound.removes = {})
    => \A s \in wanted : sub.cancelled \/ OnItsWay(s) \/ Served(s)

OnTheWay(s) ==
  SelectSeq(dataChannel, LAMBDA u : u.stream = s)
    \o FoldLeft(LAMBDA q, r : q \o SelectSeq(syncRuns[r].inbox, LAMBDA u : u.stream = s), << >>,
                SetToSeq(Serving(s)))

\* No update of a stream that is served gets lost: what the client has, the channel and the
\* connection to the stream's node hold follow each other without a gap up to the last
\* event, however calls, failures and a full channel come in between
\* (sync_subscription.go:305-327, sync_streams.go:747-756).
NoUpdateLost ==
  \A s \in wanted :
    (~sub.cancelled /\ ~OnItsWay(s) /\ Served(s))
      => LET way == OnTheWay(s)
             reached(i) == Max({got[s]} \cup {way[j].to : j \in 1..i})
         IN /\ \A i \in DOMAIN way : way[i].from <= reached(i - 1) + 1
            /\ reached(Len(way)) = head[s]

=============================================================================
