------------------------------ MODULE ClientInit ------------------------------
(***************************************************************************)
(* SyncedStreamsExtension of core/sdk/src/syncedStreamsExtension.ts: how a *)
(* client that starts loads its streams, from the store of the browser and *)
(* then from the network, before it starts the sync loop (ClientSync), and *)
(* the status that it reports meanwhile.                                   *)
(*                                                                         *)
(* A tick works on one job: one of the three tasks of start(), or starting *)
(* the sync.  The progress, a fraction, is left out of the status.         *)
(***************************************************************************)
EXTENDS Integers, Sequences, FiniteSets

CONSTANTS Joined,         \* the streams that the user has joined
          Priority,       \* per stream: priorityFromStreamId
          LoadLimit,      \* concurrencyLimit
          LoadBounds

LoadBound ==
  [high : SUBSET Joined,    \* highPriorityIds
   requests : Nat,          \* calls of startSync and stopSync
   stops : Nat]             \* calls of stop

ASSUME LoadAssumption ==
  /\ LoadBounds \subseteq LoadBound /\ LoadLimit \in Nat \ {0} /\ Priority \in [Joined -> 0..4]
  /\ IsFiniteSet(Joined)

LoadJob == {"high", "persistence", "network"}

VARIABLES loadStarted,    \* started
          loadTasks,      \* tasks
          streamIds,      \* the streams that are not loaded
          toLoad,         \* per job: streams that wait for concurrencyLimit
          loading,        \* per job: streams that initStream works on
          jobs,           \* the jobs in progress
          startingSync,   \* ticks that start the sync
          timeoutId,      \* "none", "armed", or "fired" while its tick runs
          strayTimeouts,  \* armed, and not referred to by timeoutId
          startSyncRequested, didLoadStreamsFromPersistence,
          streamCountRequiringNetworkAccess,
          initStatus,
          ended,          \* what the loads have come to: a history variable
          loadRequests, loadStops, loadBound

taskVars == <<loadTasks, toLoad, loading, jobs, startingSync>>
timerVars == <<timeoutId, strayTimeouts>>
statusVars == <<streamIds, didLoadStreamsFromPersistence, streamCountRequiringNetworkAccess, initStatus, ended>>
loadVars == <<loadStarted, taskVars, timerVars, statusVars, startSyncRequested, loadRequests, loadStops>>

LoadInit ==
  /\ loadBound \in LoadBounds
  /\ loadStarted = FALSE /\ loadTasks = <<>> /\ streamIds = {} /\ jobs = {} /\ startingSync = 0
  /\ toLoad = [j \in LoadJob |-> {}] /\ loading = [j \in LoadJob |-> {}]
  /\ timeoutId = "none" /\ strayTimeouts = 0
  /\ startSyncRequested = FALSE /\ didLoadStreamsFromPersistence = FALSE
  /\ streamCountRequiringNetworkAccess = 0
  /\ initStatus = [isLocalDataLoaded |-> FALSE, isRemoteDataLoaded |-> FALSE]
  /\ ended = {} /\ loadRequests = 0 /\ loadStops = 0

\* checkStartTicking, when timeoutId is id.
CheckStartTicking(id) ==
  IF loadStarted' /\ id = "none" /\ (loadTasks' # <<>> \/ startSyncRequested') THEN "armed" ELSE id

EmitClientStatus ==
  initStatus' = [isLocalDataLoaded |-> didLoadStreamsFromPersistence',
                 isRemoteDataLoaded |-> didLoadStreamsFromPersistence' /\ streamCountRequiringNetworkAccess' = 0]

\* initUserJoinedStreams and start.
StartLoading ==
  /\ ~loadStarted /\ loadStarted' = TRUE
  /\ streamIds' = Joined /\ loadTasks' = <<"high", "persistence", "network">>
  /\ UNCHANGED startSyncRequested /\ timeoutId' = CheckStartTicking(timeoutId)
  /\ UNCHANGED <<toLoad, loading, jobs, startingSync, strayTimeouts, loadRequests, loadStops,
                 didLoadStreamsFromPersistence, streamCountRequiringNetworkAccess, initStatus, ended>>

\* startSync and stopSync of the client, also before start.
SetStartSyncRequested(request) ==
  /\ loadRequests < loadBound.requests /\ loadRequests' = loadRequests + 1
  /\ startSyncRequested' = request
  /\ UNCHANGED <<loadStarted, taskVars, statusVars, strayTimeouts, loadStops>>
  /\ timeoutId' = IF request THEN CheckStartTicking(timeoutId) ELSE timeoutId

\* What a tick leaves of timeoutId when it ends.
AfterTick == CheckStartTicking("none")

TickEnds ==
  /\ timeoutId' = AfterTick
  /\ strayTimeouts' = IF timeoutId = "armed" THEN strayTimeouts + 1 ELSE strayTimeouts

BeginJob(j) ==
  /\ loadTasks' = Tail(loadTasks) /\ jobs' = jobs \cup {j}
  /\ toLoad' = [toLoad EXCEPT ![j] = IF j = "high" THEN loadBound.high ELSE streamIds]
  /\ UNCHANGED <<loadStarted, loading, startingSync, statusVars, startSyncRequested, loadRequests, loadStops>>

BeginSync ==
  /\ startSyncRequested' = FALSE /\ startingSync' = startingSync + 1
  /\ UNCHANGED <<loadStarted, loadTasks, toLoad, loading, jobs, statusVars, loadRequests, loadStops>>

LoaderTick_SyncFirst ==
  IF startSyncRequested THEN BeginSync ELSE loadTasks # <<>> /\ BeginJob(Head(loadTasks))

\* tick, which is over at once when the request has been withdrawn.
LoaderTick ==
  \/ loadTasks # <<>> /\ BeginJob(Head(loadTasks))
  \/ loadTasks = <<>> /\ startSyncRequested /\ BeginSync

NothingToDo == loadTasks = <<>> /\ ~startSyncRequested

TimeoutFires ==
  /\ timeoutId = "armed"
  /\ \/ timeoutId' = "fired" /\ LoaderTick
     \/ NothingToDo /\ timeoutId' = "none"
          /\ UNCHANGED <<loadStarted, taskVars, statusVars, startSyncRequested, loadRequests, loadStops>>
  /\ UNCHANGED strayTimeouts

StrayTimeoutFires ==
  /\ strayTimeouts > 0
  /\ \/ LoaderTick /\ strayTimeouts' = strayTimeouts - 1 /\ UNCHANGED timeoutId
     \/ /\ NothingToDo
        /\ UNCHANGED <<loadStarted, taskVars, statusVars, startSyncRequested, loadRequests, loadStops>>
        /\ timeoutId' = "none"
        /\ strayTimeouts' = IF timeoutId = "armed" THEN strayTimeouts ELSE strayTimeouts - 1

\* A stream gets its turn: the most urgent first, but those of the first job in any order.
BeginLoad(j, s) ==
  /\ s \in toLoad[j] /\ \A t \in toLoad[j] : j = "high" \/ Priority[s] <= Priority[t]
  /\ Cardinality({load \in LoadJob \X Joined : load[2] \in loading[load[1]]}) < LoadLimit
  /\ toLoad' = [toLoad EXCEPT ![j] = @ \ {s}] /\ loading' = [loading EXCEPT ![j] = @ \cup {s}]
  /\ UNCHANGED <<loadStarted, loadTasks, jobs, startingSync, timerVars, statusVars, startSyncRequested,
                 loadRequests, loadStops>>

CountAfter(j, ok) ==
  streamCountRequiringNetworkAccess + (IF j = "network" THEN -1 ELSE IF ok THEN 0 ELSE 1)

\* initStream returns or fails.
LoadEnds(j, s, ok) ==
  /\ s \in loading[j] /\ loading' = [loading EXCEPT ![j] = @ \ {s}]
  /\ streamIds' = IF ok THEN streamIds \ {s} ELSE streamIds
  /\ streamCountRequiringNetworkAccess' = CountAfter(j, ok)
  /\ ended' = ended \cup {<<j, s, ok>>}
  /\ UNCHANGED didLoadStreamsFromPersistence /\ EmitClientStatus
  /\ UNCHANGED <<loadStarted, loadTasks, toLoad, jobs, startingSync, timerVars, startSyncRequested,
                 loadRequests, loadStops>>

JobEnds(j) ==
  /\ j \in jobs /\ toLoad[j] = {} /\ loading[j] = {} /\ jobs' = jobs \ {j}
  /\ didLoadStreamsFromPersistence' = (didLoadStreamsFromPersistence \/ j = "persistence")
  /\ UNCHANGED <<streamIds, streamCountRequiringNetworkAccess, ended>> /\ EmitClientStatus
  /\ UNCHANGED <<loadStarted, loadTasks, toLoad, loading, startingSync, startSyncRequested, loadRequests, loadStops>>
  /\ TickEnds

\* startSyncStreams returns or fails.
SyncIsStarted ==
  /\ startingSync > 0 /\ startingSync' = startingSync - 1
  /\ UNCHANGED <<loadStarted, loadTasks, toLoad, loading, jobs, statusVars, startSyncRequested, loadRequests,
                 loadStops>>
  /\ TickEnds

\* stop: a tick in progress goes on, and another follows it.
StopTicking ==
  /\ loadStops < loadBound.stops /\ loadStops' = loadStops + 1
  /\ timeoutId' = "none"
  /\ UNCHANGED <<loadStarted, taskVars, statusVars, strayTimeouts, startSyncRequested, loadRequests>>

LoadNext ==
  /\ UNCHANGED loadBound
  /\ \/ StartLoading \/ TimeoutFires \/ StrayTimeoutFires \/ SyncIsStarted \/ StopTicking
     \/ \E request \in BOOLEAN : SetStartSyncRequested(request)
     \/ \E j \in LoadJob : JobEnds(j) \/ \E s \in Joined : BeginLoad(j, s) \/ \E ok \in BOOLEAN : LoadEnds(j, s, ok)

(***************************************************************************)
(* Properties                                                              *)
(***************************************************************************)

\* "Finish everything before starting sync" (syncedStreamsExtension.ts:204): while the sync is
\* started no stream is being loaded and no task is left; and the client does not report that
\* the remote data is loaded before every stream that the store does not have has been asked of
\* the network (line 219), unless the client has been stopped.
LoadedBeforeSync ==
  loadStops = 0 =>
    /\ startingSync > 0 => jobs = {} /\ loadTasks = <<>> /\ startingSync = 1
    /\ initStatus.isRemoteDataLoaded =>
         initStatus.isLocalDataLoaded /\ \A s \in streamIds : <<"network", s, FALSE>> \in ended

(***************************************************************************)
(* The inductive invariant of the proofs, for a client that has not been   *)
(* stopped.                                                                *)
(***************************************************************************)
LoadSpec == LoadInit /\ [][LoadNext]_<<loadVars, loadBound>>

AllTasks == <<"high", "persistence", "network">>
TasksAfter(j) ==
  IF j = "high" THEN <<"persistence", "network">> ELSE IF j = "persistence" THEN <<"network">> ELSE <<>>

LoadTypes ==
  /\ loadBound \in LoadBound /\ loadStarted \in BOOLEAN /\ streamIds \subseteq Joined
  /\ toLoad \in [LoadJob -> SUBSET Joined] /\ loading \in [LoadJob -> SUBSET Joined]
  /\ ended \subseteq LoadJob \X Joined \X BOOLEAN
  /\ streamCountRequiringNetworkAccess \in Int

\* One tick runs at a time, and timeoutId tells.
OneTick ==
  /\ strayTimeouts = 0
  /\ timeoutId # "none" => loadStarted
  /\ \/ timeoutId # "fired" /\ jobs = {} /\ startingSync = 0
     \/ timeoutId = "fired" /\ jobs = {} /\ startingSync = 1 /\ loadTasks = <<>>
     \/ timeoutId = "fired" /\ startingSync = 0 /\ \E j \in LoadJob : jobs = {j} /\ loadTasks = TasksAfter(j)

NotBegun(j) ==
  \/ ~loadStarted \/ loadTasks = AllTasks
  \/ j # "high" /\ loadTasks = TasksAfter("high")
  \/ j = "network" /\ loadTasks = TasksAfter("persistence")

TasksInOrder ==
  /\ loadTasks \in {AllTasks} \cup {TasksAfter(j) : j \in LoadJob}
  /\ ~loadStarted => loadTasks = <<>> /\ streamIds = {} /\ ~initStatus.isRemoteDataLoaded
  /\ didLoadStreamsFromPersistence <=> ~NotBegun("persistence") /\ "persistence" \notin jobs

\* A stream is loaded once by a job.
JobOK(j) ==
  /\ j \notin jobs => toLoad[j] = {} /\ loading[j] = {}
  /\ NotBegun(j) => j \notin jobs /\ \A s \in Joined, ok \in BOOLEAN : <<j, s, ok>> \notin ended
  /\ toLoad[j] \cap loading[j] = {}
  /\ \A s \in toLoad[j] \cup loading[j], ok \in BOOLEAN : <<j, s, ok>> \notin ended

\* The streams that the store does not have, and those that the network has been asked for.
NotStored == {s \in Joined : <<"persistence", s, FALSE>> \in ended}
AskedNetwork == {s \in Joined : \E ok \in BOOLEAN : <<"network", s, ok>> \in ended}

StreamsCovered ==
  /\ ~NotBegun("persistence") => streamIds \subseteq toLoad["persistence"] \cup loading["persistence"] \cup NotStored
  /\ toLoad["network"] \cup loading["network"] \cup AskedNetwork \subseteq NotStored
  /\ \A s \in streamIds : <<"network", s, TRUE>> \notin ended

CountSuffices == streamCountRequiringNetworkAccess >= Cardinality(NotStored) - Cardinality(AskedNetwork)

StatusTrue ==
  initStatus.isRemoteDataLoaded =>
    initStatus.isLocalDataLoaded /\ \A s \in streamIds : <<"network", s, FALSE>> \in ended

LoadCore ==
  LoadTypes /\ OneTick /\ TasksInOrder /\ (\A j \in LoadJob : JobOK(j)) /\ StreamsCovered /\ CountSuffices

LoadInv == loadStops \in Nat /\ (loadStops = 0 => LoadCore /\ StatusTrue)
=============================================================================
