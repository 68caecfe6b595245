------------------------------ MODULE Archiver ------------------------------
(***************************************************************************)
(* A node in archive mode: core/node/rpc/archiver.go, archive.go and the   *)
(* archive transactions of core/node/storage/pg_storage.go.  It lists the  *)
(* streams of the registry contract, follows its events and lets workers   *)
(* copy the miniblocks of each stream from a node that has it.             *)
(*                                                                         *)
(* The blocks of a stream are numbered from 0 and only ever copied in      *)
(* order, so that they are represented by how many there are.  The nodes   *)
(* that have a stream are taken as one: which of them is asked next makes  *)
(* no difference here.                                                     *)
(***************************************************************************)
EXTENDS Integers, Sequences, FiniteSets

CONSTANTS Archived,        \* streams
          Worker,
          ReadSize,        \* miniblocks of one request
          ArchiveBounds

ArchiveBound ==
  [made : Nat,         \* miniblocks of all streams
   first : SUBSET Archived,   \* streams that are there at the start
   once : BOOLEAN,     \* the archiver runs once
   late : BOOLEAN,     \* events come before the archiver listens to them
   lag : BOOLEAN,      \* a node may not have the last miniblock yet
   restarts : Nat,
   readFails : Nat,
   writeFails : Nat,
   ghosts : Nat]       \* writes that succeed although they return an error

ASSUME ArchiveAssumption ==
  ReadSize \in Nat \ {0} /\ ArchiveBounds \subseteq ArchiveBound

VARIABLES registry,    \* per stream: its miniblocks in the contract
          hosted,      \* its miniblocks that the node that has it has stored
          chainFeed,        \* events of the contract that the chain monitor has still to hand out
          unlisted,    \* streams of the start that are still to be added, with their miniblocks
          listening,   \* the archiver gets the events
          known,       \* per stream that the archiver knows: its ArchiveStream
          queue,       \* per stream: its tasks in the channel
          timers,      \* per stream: tasks that are put back after a second
          worker,      \* per worker: where it is
          archive,     \* per stream: its miniblocks in the database, or NoRow
          tasksWG,     \* tasks that WaitForTasks waits for
          archiveUsed, \* how much of the bound is used
          archiveBound

archiveVars == <<registry, hosted, chainFeed, unlisted, listening, known, queue, timers, worker, archive,
                 tasksWG, archiveUsed>>

process == <<unlisted, listening, known, queue, timers, worker, tasksWG>>

NoRow == -1
NotCounted == -1
IdleWorker == [at |-> "idle"]
Listed(r) == [s \in {t \in Archived : r[t] > 0} |-> r[s]]

ArchiveInit ==
  /\ archiveBound \in ArchiveBounds
  /\ registry = [s \in Archived |-> IF s \in archiveBound.first THEN 1 ELSE 0]
  /\ hosted = registry /\ chainFeed = << >>
  /\ unlisted = Listed(registry) /\ listening = FALSE /\ known = << >>
  /\ queue = [s \in Archived |-> 0] /\ timers = queue
  /\ worker = [w \in Worker |-> IdleWorker]
  /\ archive = [s \in Archived |-> NoRow]
  /\ tasksWG = 0
  /\ archiveUsed = [made |-> 0, restarts |-> 0, readFails |-> 0, writeFails |-> 0, ghosts |-> 0]

MayUse(k) == archiveUsed[k] < archiveBound[k] /\ archiveUsed' = [archiveUsed EXCEPT ![k] = @ + 1]

(***************************************************************************)
(* The contract and the nodes.                                             *)
(***************************************************************************)

\* A stream is allocated, or its next miniblock is registered.
Registers(s) ==
  /\ MayUse("made")
  /\ registry' = [registry EXCEPT ![s] = @ + 1]
  /\ hosted' = [hosted EXCEPT ![s] = IF archiveBound.lag /\ @ > 0 THEN @ ELSE registry[s] + 1]
  /\ chainFeed' = Append(chainFeed, [stream |-> s, last |-> registry[s]])
  /\ UNCHANGED <<process, archive>>

\* The node stores the miniblocks that it has registered.
HostStores(s) ==
  /\ hosted[s] < registry[s] /\ hosted' = [hosted EXCEPT ![s] = registry[s]]
  /\ UNCHANGED <<registry, chainFeed, process, archive, archiveUsed>>

(***************************************************************************)
(* The streams that the archiver knows.                                    *)
(***************************************************************************)

Knows(s) == s \in DOMAIN known

NewArchiveStream(n) == [inContract |-> n, inDb |-> NotCounted]

KnownWith(s, a) == [t \in DOMAIN known \cup {s} |-> IF t = s THEN a ELSE known[t]]

\* A task of a single run is counted until it is done.
Counted == IF archiveBound.once THEN 1 ELSE 0

\* startImpl adds the streams that there were in the contract.
ListStream(s) ==
  /\ s \in DOMAIN unlisted
  /\ unlisted' = [t \in DOMAIN unlisted \ {s} |-> unlisted[t]]
  /\ known' = KnownWith(s, NewArchiveStream(unlisted[s]))
  /\ queue' = [queue EXCEPT ![s] = @ + 1]
  /\ tasksWG' = tasksWG + Counted
  /\ UNCHANGED <<registry, hosted, chainFeed, listening, timers, worker, archive, archiveUsed>>

\* OnStreamEvent, after the last page.
StartListening ==
  /\ DOMAIN unlisted = {} /\ ~archiveBound.once /\ ~listening /\ listening' = TRUE
  /\ UNCHANGED <<registry, hosted, chainFeed, unlisted, known, queue, timers, worker, tasksWG, archive, archiveUsed>>

\* onStreamAllocated: a new stream gets a task, and another one.
OnStreamAllocated(s) ==
  /\ known' = IF Knows(s) THEN known ELSE KnownWith(s, NewArchiveStream(1))
  /\ queue' = [queue EXCEPT ![s] = @ + IF Knows(s) THEN 1 ELSE 2]

\* onStreamLastMiniblockUpdated
OnStreamLastMiniblockUpdated(s, n) ==
  IF Knows(s) THEN /\ known' = [known EXCEPT ![s].inContract = n + 1]
                   /\ queue' = [queue EXCEPT ![s] = @ + 1]
  ELSE UNCHANGED <<known, queue>>

\* The chain monitor hands out the next event; nobody gets it before the archiver listens.
NextEvent ==
  /\ chainFeed # << >> /\ chainFeed' = Tail(chainFeed)
  /\ listening \/ archiveBound.late \/ archiveBound.once
  /\ IF ~listening THEN UNCHANGED <<known, queue>>
     ELSE IF Head(chainFeed).last = 0 THEN OnStreamAllocated(Head(chainFeed).stream)
     ELSE OnStreamLastMiniblockUpdated(Head(chainFeed).stream, Head(chainFeed).last)
  /\ UNCHANGED <<registry, hosted, unlisted, listening, timers, worker, tasksWG, archive, archiveUsed>>

TimerFires(s) ==
  /\ timers[s] > 0 /\ timers' = [timers EXCEPT ![s] = @ - 1]
  /\ queue' = [queue EXCEPT ![s] = @ + 1]
  /\ UNCHANGED <<registry, hosted, chainFeed, unlisted, listening, known, worker, tasksWG, archive, archiveUsed>>

(***************************************************************************)
(* The workers.                                                            *)
(***************************************************************************)

TryLock(s) == \A w \in Worker : worker[w] = IdleWorker \/ worker[w].stream # s

AtStep(w, at) == worker[w].at = at
GoTo(w, at) == worker' = [worker EXCEPT ![w] = [@ EXCEPT !.at = at]]

\* The task ends; in a single run it is counted.
TaskDone(w) == worker' = [worker EXCEPT ![w] = IdleWorker] /\ tasksWG' = tasksWG - Counted

PutBack_Not(s) == UNCHANGED timers

PutBack(s) == timers' = [timers EXCEPT ![s] = @ + 1]

\* A worker takes a task.  It is put back when another worker has the stream.
TakeTask(w, s) ==
  /\ worker[w] = IdleWorker /\ queue[s] > 0 /\ queue' = [queue EXCEPT ![s] = @ - 1]
  /\ IF TryLock(s)
       THEN /\ worker' = [worker EXCEPT ![w] =
                 [at |-> IF known[s].inDb = NotCounted THEN "load" ELSE "check", stream |-> s, target |-> 0, got |-> 0]]
            /\ UNCHANGED <<timers, tasksWG>>
       ELSE PutBack(s) /\ TaskDone(w)
  /\ UNCHANGED <<registry, hosted, chainFeed, unlisted, listening, known, archive, archiveUsed>>

outside == <<registry, hosted, chainFeed, unlisted, listening, queue>>

\* GetMaxArchivedMiniblockNumber
Load(w) ==
  LET s == worker[w].stream
  IN /\ AtStep(w, "load")
     /\ GoTo(w, IF archive[s] = NoRow THEN "create" ELSE "check")
     /\ known' = IF archive[s] = NoRow THEN known ELSE [known EXCEPT ![s].inDb = archive[s]]
     /\ UNCHANGED <<outside, timers, tasksWG, archive, archiveUsed>>

\* CreateStreamArchiveStorage
Create(w) ==
  LET s == worker[w].stream
  IN /\ AtStep(w, "create") /\ GoTo(w, "check")
     /\ archive' = [archive EXCEPT ![s] = 0] /\ known' = [known EXCEPT ![s].inDb = 0]
     /\ UNCHANGED <<outside, timers, tasksWG, archiveUsed>>

\* The number of blocks in the contract is read once for the task.
Check(w) ==
  LET s == worker[w].stream
  IN /\ AtStep(w, "check")
     /\ IF known[s].inDb >= known[s].inContract THEN TaskDone(w)
        ELSE /\ worker' = [worker EXCEPT ![w].at = "read", ![w].target = known[s].inContract]
             /\ UNCHANGED tasksWG
     /\ UNCHANGED <<outside, known, timers, archive, archiveUsed>>

Smaller(m, n) == IF m < n THEN m ELSE n

\* GetMiniblocks of a node: what it has of the range; the task is put back when that is nothing.
Read(w) ==
  LET s == worker[w].stream
      to == Smaller(known[s].inDb + ReadSize, worker[w].target)
      n == Smaller(to, hosted[s]) - known[s].inDb
  IN /\ AtStep(w, "read")
     /\ IF n <= 0 THEN PutBack(s) /\ TaskDone(w)
        ELSE /\ worker' = [worker EXCEPT ![w].at = "write", ![w].got = n]
             /\ UNCHANGED <<timers, tasksWG>>
     /\ UNCHANGED <<outside, known, archive, archiveUsed>>

\* The number of blocks in the database as the archiver counts them after a write.
InDbAfter(w) == known[worker[w].stream].inDb + worker[w].got

\* WriteArchiveMiniblocks starts behind the last block that it finds.
Write(w) ==
  LET s == worker[w].stream
  IN /\ AtStep(w, "write") /\ archive[s] = known[s].inDb
     /\ archive' = [archive EXCEPT ![s] = @ + worker[w].got]
     /\ known' = [known EXCEPT ![s].inDb = InDbAfter(w)]
     /\ IF InDbAfter(w) < worker[w].target THEN GoTo(w, "read") /\ UNCHANGED tasksWG
        ELSE TaskDone(w)
     /\ UNCHANGED <<outside, timers, archiveUsed>>

\* A request or a transaction fails, and the task with it: it is not put back.
ReadFails(w) ==
  /\ AtStep(w, "read") /\ MayUse("readFails") /\ TaskDone(w)
  /\ UNCHANGED <<outside, known, timers, archive>>

WriteFails(w) ==
  LET s == worker[w].stream
  IN /\ worker[w].at \in {"load", "create", "write"}
     /\ \/ MayUse("writeFails") /\ UNCHANGED archive
        \/ AtStep(w, "write") /\ archive[s] # known[s].inDb /\ UNCHANGED <<archive, archiveUsed>>
        \/ AtStep(w, "write") /\ archive[s] = known[s].inDb /\ MayUse("ghosts")
             /\ archive' = [archive EXCEPT ![s] = @ + worker[w].got]
        \/ AtStep(w, "create") /\ MayUse("ghosts") /\ archive' = [archive EXCEPT ![s] = 0]
     /\ TaskDone(w)
     /\ UNCHANGED <<outside, known, timers>>

\* The process stops and starts again.
RestartArchiver ==
  /\ MayUse("restarts")
  /\ unlisted' = Listed(registry) /\ listening' = FALSE /\ known' = << >> /\ chainFeed' = << >>
  /\ queue' = [s \in Archived |-> 0] /\ timers' = queue'
  /\ worker' = [w \in Worker |-> IdleWorker] /\ tasksWG' = 0
  /\ UNCHANGED <<registry, hosted, archive>>

\* A negative counter of a WaitGroup panics.
NoPanic == tasksWG >= 0

Works(w) == Load(w) \/ Create(w) \/ Check(w) \/ Read(w) \/ Write(w)

ArchiveNext ==
  /\ UNCHANGED archiveBound
  /\ \/ StartListening \/ NextEvent \/ RestartArchiver
     \/ \E s \in Archived : Registers(s) \/ HostStores(s) \/ ListStream(s)
     \/ \E s \in Archived : NoPanic /\ TimerFires(s)
     \/ \E w \in Worker : NoPanic /\ (Works(w) \/ ReadFails(w) \/ WriteFails(w))
     \/ \E w \in Worker, s \in Archived : NoPanic /\ TakeTask(w, s)

\* Goroutines run, timers fire, the chain monitor polls and nodes store what they have registered.
ArchiveFairness ==
  /\ WF_archiveVars(StartListening /\ UNCHANGED archiveBound)
  /\ WF_archiveVars(NextEvent /\ UNCHANGED archiveBound)
  /\ \A s \in Archived : /\ WF_archiveVars(HostStores(s) /\ UNCHANGED archiveBound)
                         /\ WF_archiveVars(ListStream(s) /\ UNCHANGED archiveBound)
                         /\ WF_archiveVars(TimerFires(s) /\ UNCHANGED archiveBound)
                         /\ WF_archiveVars((\E w \in Worker : TakeTask(w, s)) /\ UNCHANGED archiveBound)
  /\ \A w \in Worker : WF_archiveVars(Works(w) /\ UNCHANGED archiveBound)

(***************************************************************************)
(* Properties                                                              *)
(***************************************************************************)
Faultless == archiveUsed.readFails = 0 /\ archiveUsed.writeFails = 0 /\ archiveUsed.ghosts = 0

\* The state of the archiver; a worker that has a stream has it alone (archiver.go:25-69, 115-123).
ArchiveTypeOK ==
  /\ \A s \in DOMAIN known : known[s].inContract \in Nat /\ known[s].inDb \in Nat \cup {NotCounted}
  /\ \A s \in Archived : /\ hosted[s] <= registry[s] /\ archive[s] <= hosted[s]
                         /\ queue[s] \in Nat /\ timers[s] \in Nat
  /\ \A v, w \in Worker :
       v # w /\ IdleWorker \notin {worker[v], worker[w]} => worker[v].stream # worker[w].stream

\* A stream that is behind what the archiver knows of the contract has a task, waits for
\* one or is worked on, as long as no task has failed: the number of blocks in the contract
\* is read once for a task, and may grow while the task has the stream
\* (archiver.go:115-122, 148-151, 191-204, 340-341).
BehindHasTask ==
  Faultless
    => \A s \in DOMAIN known :
         archive[s] < known[s].inContract
           => queue[s] + timers[s] > 0 \/ \E w \in Worker : worker[w] # IdleWorker /\ worker[w].stream = s

\* An archiver that listens to the contract copies all the miniblocks of all streams,
\* although nodes store them later than the contract has them and the process restarts, if
\* it always listens before the first event is handed out and nothing fails
\* (archiver.go:250-313).
ArchivedInTheEnd ==
  (~archiveBound.late /\ archiveBound.readFails + archiveBound.writeFails + archiveBound.ghosts = 0)
    => \A s \in Archived : listening /\ registry[s] > 0 ~> archive[s] = registry[s]

(***************************************************************************)
(* The inductive invariant of the proofs.                                  *)
(***************************************************************************)
ArchiveSpec == ArchiveInit /\ [][ArchiveNext]_<<archiveVars, archiveBound>>

ArchiveStream == [inContract : Nat, inDb : Nat \cup {NotCounted}]

ArchiveTask ==
  [at : {"load", "create", "check", "read", "write"}, stream : Archived, target : Nat, got : Nat]

ArchiveTypes ==
  /\ archiveBound \in ArchiveBound
  /\ registry \in [Archived -> Nat] /\ hosted \in [Archived -> Nat]
  /\ archive \in [Archived -> Nat \cup {NoRow}]
  /\ queue \in [Archived -> Nat] /\ timers \in [Archived -> Nat]
  /\ DOMAIN known \subseteq Archived /\ known \in [DOMAIN known -> ArchiveStream]
  /\ DOMAIN unlisted \subseteq Archived /\ unlisted \in [DOMAIN unlisted -> Nat]
  /\ worker \in [Worker -> {IdleWorker} \cup ArchiveTask]
  /\ chainFeed \in Seq([stream : Archived, last : Nat])
  /\ archiveUsed \in [{"made", "restarts", "readFails", "writeFails", "ghosts"} -> Nat]

\* Where the worker of a stream stands, and what the archiver has counted by then.
WorkerOK(w) ==
  LET s == worker[w].stream
  IN /\ s \in DOMAIN known
     /\ known[s].inDb = NotCounted <=> worker[w].at \in {"load", "create"}
     /\ worker[w].at = "write" => known[s].inDb + worker[w].got <= hosted[s]

\* As long as nothing has failed, what the archiver has counted is what the database has,
\* and a task that is too short for the contract of now has another behind it.
TasksSuffice ==
  /\ \A s \in DOMAIN known : known[s].inDb # NotCounted => archive[s] = known[s].inDb
  /\ \A w \in Worker : worker[w].at \in {"read", "write"}
       => LET s == worker[w].stream
          IN known[s].inContract <= worker[w].target \/ queue[s] + timers[s] > 0

\* The streams of the start are added before the archiver listens, so none is added twice.
ListingOK ==
  /\ listening => DOMAIN unlisted = {}
  /\ \A s \in DOMAIN unlisted : s \notin DOMAIN known

TasksKnown == \A s \in Archived : queue[s] + timers[s] > 0 => s \in DOMAIN known

CopiesOnly == \A s \in Archived : hosted[s] <= registry[s] /\ archive[s] <= hosted[s]

WorkersOK == \A w \in Worker : worker[w] # IdleWorker => WorkerOK(w)

OneWorker ==
  \A v, w \in Worker :
    v # w /\ worker[v] # IdleWorker /\ worker[w] # IdleWorker => worker[v].stream # worker[w].stream

ArchiveInv ==
  /\ ArchiveTypes /\ ListingOK /\ TasksKnown /\ CopiesOnly /\ WorkersOK /\ OneWorker
  /\ Faultless => TasksSuffice
  /\ BehindHasTask
=============================================================================
