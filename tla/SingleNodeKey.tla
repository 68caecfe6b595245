--------------------------- MODULE SingleNodeKey ---------------------------
(***************************************************************************)
(* The row of the table singlenodekey by which one process at a time owns  *)
(* the database of a node (core/node/storage/pg_storage.go), and how a     *)
(* process that has lost it finds out and exits (rpc/server.go).           *)
(*                                                                         *)
(* A transaction works on the snapshot of its start.  Postgres commits it  *)
(* only if the committed transactions stay serialisable; a transaction may *)
(* therefore commit after the key has gone to another process, as long as  *)
(* it can count as earlier.                                                *)
(***************************************************************************)
EXTENDS Integers, Sequences, FiniteSets

CONSTANTS Instance,     \* the processes, each with its uuid
          OwnerBounds   \* the bounds under which the component is explored

OwnerBound ==
  [commits : Nat,        \* transactions that commit
   requests : Nat,       \* transactions on other streams, per process
   crashes : Nat,
   drops : Nat]          \* notifications that are missed

ASSUME OwnerAssumption == OwnerBounds \subseteq OwnerBound

VARIABLES row,         \* the uuids in singlenodekey
          data,        \* the stream in storage: the transaction that wrote it last
          committed,   \* the transactions in the order of their commits
          phase,       \* per process: "new", "running", "closing", "gone"
          cache,       \* the stream as the process has it in memory, or NotLoaded
          txs,         \* per process and kind of work: its transaction
          listener,    \* "off", "waiting", "notified", "blocked"
          exitSignal,  \* per process: the errors in the channel, which has one slot
          requests,    \* transactions on other streams so far
          failed,      \* crashes and missed notifications so far
          ownerBound

ownerVars == <<row, data, committed, phase, cache, txs, listener, exitSignal, requests, failed>>

Work == {"key", "stream", "other"}   \* the takeover or cleanup, the stream, other streams
NotLoaded == -1
NoTx == [pc |-> "none"]

OwnerInit ==
  /\ ownerBound \in OwnerBounds
  /\ row = {} /\ data = 0 /\ committed = << >>
  /\ phase = [i \in Instance |-> "new"] /\ cache = [i \in Instance |-> NotLoaded]
  /\ txs = [i \in Instance |-> [w \in Work |-> NoTx]]
  /\ listener = [i \in Instance |-> "off"] /\ exitSignal = [i \in Instance |-> 0]
  /\ requests = [i \in Instance |-> 0]
  /\ failed = [crashes |-> 0, drops |-> 0]

(***************************************************************************)
(* Postgres: serialisable isolation.                                       *)
(***************************************************************************)

\* Transaction m has to come before n, both committed, in a serial order: n overwrites
\* or sees what m wrote, or m did not see what n wrote.
Precedes(h, m, n) ==
  \/ m < n /\ h[m].writes \cap h[n].writes # {}
  \/ m =< h[n].snapshot /\ h[m].writes \cap h[n].reads # {}
  \/ n > h[m].snapshot /\ h[m].reads \cap h[n].writes # {}

\* There is a serial order: no set of transactions in which every one has to come after
\* another one of the set.
Serializable(h) ==
  {S \in SUBSET (1 .. Len(h)) : S # {} /\ \A n \in S : \E m \in S \ {n} : Precedes(h, m, n)}
    = {}

\* Nobody has overwritten since the snapshot what the transaction writes.
FirstToWrite(tx) ==
  \A n \in tx.snapshot + 1 .. Len(committed) : committed[n].writes \cap tx.writes = {}

CanCommit(tx) == FirstToWrite(tx) /\ Serializable(Append(committed, tx))

\* Transaction tx of work w of process i commits, or is undone and tried again.
Commit(i, w, tx) ==
  /\ CanCommit(tx) /\ Len(committed) < ownerBound.commits
  /\ committed' = Append(committed, tx)
  /\ txs' = [txs EXCEPT ![i][w] = NoTx]

\* txRunner: a serialisation failure leads to another attempt.
TxRetry(i, w) ==
  /\ txs[i][w].pc = "open" /\ ~CanCommit(txs[i][w].tx)
  /\ txs' = [txs EXCEPT ![i][w] = [pc |-> "again", kind |-> txs[i][w].kind]]
  /\ UNCHANGED <<row, data, committed, phase, cache, listener, exitSignal, requests, failed>>

(***************************************************************************)
(* The start of a process: initStorage.                                    *)
(***************************************************************************)

Alive(i) == phase[i] \in {"running", "closing"}

\* initializeSingleNodeKeyTx begins.
BeginInitializeKey(i) ==
  /\ phase[i] = "new" /\ txs[i]["key"].pc \in {"none", "again"}
  /\ txs' = [txs EXCEPT ![i]["key"] =
               [pc |-> "open", kind |-> "initialize",
                tx |-> [snapshot |-> Len(committed), reads |-> {"key"}, writes |-> {"key"}]]]
  /\ UNCHANGED <<row, data, committed, phase, cache, listener, exitSignal, requests, failed>>

KeyRows_Kept(i) == row \cup {i}

\* initializeSingleNodeKeyTx: all rows are deleted, one is inserted.
KeyRows(i) == {i}

\* It commits: the other rows are gone, and the trigger notifies who listens.  Then the
\* process listens too, and serves requests.
InitializeSingleNodeKey(i) ==
  /\ txs[i]["key"].pc = "open" /\ txs[i]["key"].kind = "initialize"
  /\ Commit(i, "key", txs[i]["key"].tx)
  /\ row' = KeyRows(i) /\ phase' = [phase EXCEPT ![i] = "running"]
  /\ listener' = [j \in Instance |->
                    IF j = i THEN "waiting"
                    ELSE IF listener[j] = "waiting" THEN "notified" ELSE listener[j]]
  /\ UNCHANGED <<data, cache, exitSignal, requests, failed>>

(***************************************************************************)
(* txRunnerInner: the transactions of a process.                           *)
(***************************************************************************)

CompareUUID(i, rows) == rows = {i}

\* A blocking send to the channel of errors.
SendExit(i, w) ==
  IF exitSignal[i] = 0
    THEN exitSignal' = [exitSignal EXCEPT ![i] = 1] /\ txs' = [txs EXCEPT ![i][w] = NoTx]
    ELSE txs' = [txs EXCEPT ![i][w] = [pc |-> "blocked"]] /\ UNCHANGED exitSignal

TxReads_NotKey(kind) == IF kind = "other" THEN {} ELSE {"data"}

\* What a transaction reads: compareUUID is part of it.
TxReads(kind) == IF kind = "other" THEN {"key"} ELSE {"key", "data"}

\* A transaction starts and compares the uuid: a load or a write of the stream, or
\* something else.  One that finds another uuid sends the error while it is open.
Begin(i, w, kind) ==
  /\ Alive(i)
  /\ \/ txs[i][w].pc = "none" /\ (w = "other" => requests[i] < ownerBound.requests)
     \/ txs[i][w].pc = "again" /\ txs[i][w].kind = kind
  /\ kind = "write" => cache[i] # NotLoaded
  /\ requests' = [requests EXCEPT ![i] =
                    IF w = "other" /\ txs[i][w].pc = "none" THEN @ + 1 ELSE @]
  /\ \/ /\ CompareUUID(i, row)
        /\ txs' = [txs EXCEPT ![i][w] =
                     [pc |-> "open", kind |-> kind, read |-> data,
                      tx |-> [snapshot |-> Len(committed), reads |-> TxReads(kind),
                              writes |-> IF kind = "write" THEN {"data"} ELSE {}]]]
        /\ UNCHANGED exitSignal
     \/ ~CompareUUID(i, row) /\ SendExit(i, w)
  /\ UNCHANGED <<row, data, committed, phase, cache, listener, failed>>

\* A transaction that waits for room in the channel goes on.
Unblock(i, w) ==
  /\ txs[i][w].pc = "blocked" /\ exitSignal[i] = 0
  /\ SendExit(i, w)
  /\ UNCHANGED <<row, data, committed, phase, cache, listener, requests, failed>>

\* The transaction commits; the process keeps what it has read or written.
End(i, w) ==
  /\ txs[i][w].pc = "open" /\ txs[i][w].kind \in {"load", "write", "other"}
  /\ Commit(i, w, txs[i][w].tx)
  /\ LET kind == txs[i][w].kind
     IN /\ data' = IF kind = "write" THEN Len(committed') ELSE data
        /\ cache' = IF kind = "other" THEN cache
                    ELSE [cache EXCEPT ![i] = IF kind = "write" THEN data' ELSE txs[i][w].read]
  /\ UNCHANGED <<row, phase, listener, exitSignal, requests, failed>>

(***************************************************************************)
(* listenForNewNodes, and the exit of a process: RunServer and Close.      *)
(***************************************************************************)

\* The notification arrives and the error is sent, when there is room.
Listen(i) ==
  /\ listener[i] \in {"notified", "blocked"}
  /\ \/ /\ exitSignal[i] = 0 /\ exitSignal' = [exitSignal EXCEPT ![i] = 1]
        /\ listener' = [listener EXCEPT ![i] = "off"]
     \/ /\ exitSignal[i] = 1 /\ listener[i] = "notified"
        /\ listener' = [listener EXCEPT ![i] = "blocked"] /\ UNCHANGED exitSignal
  /\ UNCHANGED <<row, data, committed, phase, cache, txs, requests, failed>>

\* The connection breaks when the notification is sent; a new one does not get it.
MissNotification(i) ==
  /\ listener[i] = "notified" /\ failed.drops < ownerBound.drops
  /\ listener' = [listener EXCEPT ![i] = "waiting"]
  /\ failed' = [failed EXCEPT !.drops = @ + 1]
  /\ UNCHANGED <<row, data, committed, phase, cache, txs, exitSignal, requests>>

\* RunServer takes the first error and closes the service.
TakeExit(i) ==
  /\ phase[i] = "running" /\ exitSignal[i] = 1
  /\ exitSignal' = [exitSignal EXCEPT ![i] = 0]
  /\ phase' = [phase EXCEPT ![i] = "closing"]
  /\ UNCHANGED <<row, data, committed, cache, txs, listener, requests, failed>>

\* CleanupStorage begins.
BeginCleanup(i) ==
  /\ phase[i] = "closing" /\ txs[i]["key"].pc \in {"none", "again"} /\ i \in row
  /\ txs' = [txs EXCEPT ![i]["key"] =
               [pc |-> "open", kind |-> "cleanup",
                tx |-> [snapshot |-> Len(committed), reads |-> {"key"}, writes |-> {"key"}]]]
  /\ UNCHANGED <<row, data, committed, phase, cache, listener, exitSignal, requests, failed>>

\* cleanupStorageTx: only the own uuid is deleted.
CleanupStorage(i) ==
  /\ txs[i]["key"].pc = "open" /\ txs[i]["key"].kind = "cleanup"
  /\ Commit(i, "key", txs[i]["key"].tx)
  /\ row' = row \ {i}
  /\ UNCHANGED <<data, phase, cache, listener, exitSignal, requests, failed>>

ListenerEnds_Itself(i) == listener[i] = "off"

\* cleanupListenFunc ends the wait for notifications, not a send to the channel.
ListenerEnds(i) == listener[i] # "blocked"

\* pool.Close waits for every connection that is in use.
PoolClose(i) ==
  /\ phase[i] = "closing" /\ i \notin row
  /\ \A w \in Work : txs[i][w] = NoTx
  /\ ListenerEnds(i)
  /\ phase' = [phase EXCEPT ![i] = "gone"] /\ listener' = [listener EXCEPT ![i] = "off"]
  /\ UNCHANGED <<row, data, committed, cache, txs, exitSignal, requests, failed>>

\* The process is killed; its transactions are undone.
CrashProcess(i) ==
  /\ Alive(i) /\ failed.crashes < ownerBound.crashes
  /\ failed' = [failed EXCEPT !.crashes = @ + 1]
  /\ phase' = [phase EXCEPT ![i] = "gone"] /\ listener' = [listener EXCEPT ![i] = "off"]
  /\ txs' = [txs EXCEPT ![i] = [w \in Work |-> NoTx]]
  /\ UNCHANGED <<row, data, committed, cache, exitSignal, requests>>

Exit(i) == Listen(i) \/ TakeExit(i) \/ BeginCleanup(i) \/ CleanupStorage(i) \/ PoolClose(i)

OwnerNext ==
  /\ UNCHANGED ownerBound
  /\ \E i \in Instance :
       \/ BeginInitializeKey(i) \/ InitializeSingleNodeKey(i)
       \/ \E kind \in {"load", "write"} : Begin(i, "stream", kind)
       \/ Begin(i, "other", "other")
       \/ \E w \in Work : End(i, w) \/ TxRetry(i, w) \/ Unblock(i, w)
       \/ Exit(i) \/ MissNotification(i) \/ CrashProcess(i)

OwnerSpec == OwnerInit /\ [][OwnerNext]_<<ownerVars, ownerBound>>

\* Postgres answers, the goroutines run.  A process need not start or do any work.
OwnerFairness ==
  \A i \in Instance :
    /\ WF_ownerVars(Exit(i))
    /\ \A w \in Work : WF_ownerVars(End(i, w) \/ TxRetry(i, w) \/ Unblock(i, w))
    /\ WF_ownerVars(\E w \in Work : txs[i][w].pc = "again"
                      /\ \E kind \in {"load", "write", "other"} : Begin(i, w, kind))

(***************************************************************************)
(* Properties.                                                             *)
(***************************************************************************)

PgTx == [snapshot : Nat, reads : SUBSET {"key", "data"}, writes : SUBSET {"key", "data"}]

TxKind == {"initialize", "cleanup", "load", "write", "other"}

WorkTx ==
  [pc : {"none", "blocked"}] \cup [pc : {"again"}, kind : TxKind]
    \cup [pc : {"open"}, kind : {"initialize", "cleanup"}, tx : PgTx]
    \cup [pc : {"open"}, kind : {"load", "write", "other"}, read : Nat, tx : PgTx]

OwnerTypeOK ==
  /\ row \in SUBSET Instance /\ \A i, j \in row : i = j
  /\ committed \in Seq(PgTx) /\ data \in 0 .. Len(committed)
  /\ txs \in [Instance -> [Work -> WorkTx]]
  /\ phase \in [Instance -> {"new", "running", "closing", "gone"}]
  /\ cache \in [Instance -> Int] /\ exitSignal \in [Instance -> {0, 1}]
  /\ listener \in [Instance -> {"off", "waiting", "notified", "blocked"}]

\* The process that owns the database knows what is in it: while its uuid is in the
\* table and it has no transaction on the stream, the stream that it has in memory is the
\* one in storage.  A transaction of the process before it may commit late, but only if
\* the owner has not read the stream yet (compareUUID as part of every transaction,
\* txRunnerInner).
OwnerCacheCurrent ==
  \A i \in Instance :
    row = {i} /\ Alive(i) /\ cache[i] # NotLoaded /\ txs[i]["stream"] = NoTx
      => cache[i] = data

(***************************************************************************)
(* The inductive invariant behind it.                                      *)
(***************************************************************************)

Open(i, w) == txs[i][w].pc = "open"

\* What an open transaction may be, by the work that it is part of.
OpenTxInv(i, w) ==
  Open(i, w) =>
    LET t == txs[i][w]
    IN /\ t.tx.snapshot =< Len(committed)
       /\ w = "key" => /\ t.kind \in {"initialize", "cleanup"} /\ t.tx.writes = {"key"}
                       /\ t.kind = "initialize" => phase[i] = "new"
       /\ w # "key" => /\ t.kind \in (IF w = "stream" THEN {"load", "write"} ELSE {"other"})
                       /\ t.tx.reads = TxReads(t.kind) /\ phase[i] # "new"
                       /\ t.tx.writes = IF t.kind = "write" THEN {"data"} ELSE {}

\* Transaction n wrote the stream and has not seen transaction k, which took the key over.
LateWrite(n, k) ==
  committed[n].snapshot < k /\ "key" \in committed[n].reads /\ "data" \in committed[n].writes

\* Process i has taken the key over in transaction k.  The open transactions of the others
\* have not seen it, its own have, and once it has read the stream no late write can come:
\* it would have to come before k, k before the read, and the read before the write.
TakenOver(i, k) ==
  /\ "key" \in committed[k].writes
  /\ \A j \in Instance \ {i}, w \in Work \ {"key"} : Open(j, w) => txs[j][w].tx.snapshot < k
  /\ Open(i, "stream") =>
       /\ k =< txs[i]["stream"].tx.snapshot
       /\ txs[i]["stream"].kind = "load" =>
            \/ txs[i]["stream"].read = data
            \/ \E n \in txs[i]["stream"].tx.snapshot + 1 .. Len(committed) : LateWrite(n, k)
  /\ cache[i] # NotLoaded =>
       /\ cache[i] = data
       /\ \E n \in 1 .. Len(committed) :
            k =< committed[n].snapshot /\ {"key", "data"} \subseteq committed[n].reads

OwnerInv ==
  /\ OwnerTypeOK
  /\ \A n \in 1 .. Len(committed) : committed[n].snapshot < n
  /\ \A i \in Instance : phase[i] = "new" => cache[i] = NotLoaded
  /\ \A i \in Instance, w \in Work : OpenTxInv(i, w)
  /\ \A i \in row : \E k \in 1 .. Len(committed) : TakenOver(i, k)

\* A process that has been told of its successor, by the notification or in a
\* transaction, exits in the end, unless the channel of errors is full: it has one slot
\* and is read once, so the third error waits in its transaction, and pool.Close waits for
\* that transaction.  (The last disjunct is the bound on transactions.)
DisplacedExits ==
  \A i \in Instance :
    i \notin row /\ (exitSignal[i] = 1 \/ (listener[i] = "notified" /\ ownerBound.drops = 0))
      ~> \/ phase[i] = "gone"
         \/ listener[i] = "blocked" \/ \E w \in Work : txs[i][w].pc = "blocked"
         \/ Len(committed) = ownerBound.commits
=============================================================================
