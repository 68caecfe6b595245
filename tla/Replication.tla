----------------------------- MODULE Replication -----------------------------
(***************************************************************************)
(* A node that stores an event, or a new stream, on all nodes of a stream  *)
(* and waits for a quorum of them: core/node/rpc/quorum_pool.go as it is   *)
(* used by replicated_add.go and create_stream.go, with node2node.go on    *)
(* the other nodes.                                                        *)
(***************************************************************************)
EXTENDS Integers, FiniteSets

CONSTANTS Replica,     \* nodes
          AddCall,     \* calls that store something
          ReplicationBounds

ReplicationBound ==
  [homes : (SUBSET Replica) \ {{}},   \* the nodes of the stream
   at : [AddCall -> Replica],   \* the node that handles a call
   fails : Nat,                 \* tasks that fail
   ghosts : Nat]                \* tasks that store and fail

ASSUME ReplicationAssumption ==
  IsFiniteSet(Replica) /\ ReplicationBounds \subseteq ReplicationBound

VARIABLES running,    \* pairs of a call and a node: tasks that have not answered
          holds,      \* what the nodes have stored
          succeeded, erred,   \* the answers
          taken,      \* the answers that Wait has taken from the channel of the remote tasks
          pool,       \* per call: where Wait is, or what it has returned
          repFails, repGhosts,
          repBound

repVars == <<running, holds, succeeded, erred, taken, pool, repFails, repGhosts>>

Task == AddCall \X Replica

ReplicationInit ==
  /\ repBound \in ReplicationBounds
  /\ running = {} /\ holds = {} /\ succeeded = {} /\ erred = {} /\ taken = {}
  /\ pool = [c \in AddCall |-> "new"]
  /\ repFails = 0 /\ repGhosts = 0

Homes == repBound.homes
Node(c) == repBound.at[c]
IsLocal(c) == Node(c) \in Homes
RemoteNodes(c) == Homes \ {Node(c)}

TotalQuorumNum_Below(n) == n \div 2

TotalQuorumNum(n) == (n + 1) \div 2

RemoteQuorumNum(c) ==
  LET remotes == Cardinality(RemoteNodes(c))
  IN IF IsLocal(c) THEN TotalQuorumNum(remotes + 1) - 1 ELSE TotalQuorumNum(remotes)

\* GoLocal and GoRemote: a task for every node.
StartTasks(c) ==
  /\ pool[c] = "new"
  /\ running' = running \cup ({c} \X Homes)
  /\ pool' = [pool EXCEPT ![c] = IF IsLocal(c) THEN "local" ELSE "remotes"]
  /\ UNCHANGED <<holds, succeeded, erred, taken, repFails, repGhosts>>

\* A node stores the event, or creates the stream.
Stores(t) ==
  /\ t \in running /\ t \notin holds /\ holds' = holds \cup {t}
  /\ UNCHANGED <<running, succeeded, erred, taken, pool, repFails, repGhosts>>

Succeeds(t) ==
  /\ t \in running /\ t \in holds
  /\ running' = running \ {t} /\ succeeded' = succeeded \cup {t}
  /\ UNCHANGED <<holds, erred, taken, pool, repFails, repGhosts>>

Returned(c) == pool[c] \in {"ok", "error"}

\* A task fails, before or after the node has stored; the context of the call is cancelled
\* when the call has returned.
Fails(t) ==
  /\ t \in running
  /\ \/ Returned(t[1]) /\ UNCHANGED <<repFails, repGhosts>>
     \/ t \notin holds /\ repFails < repBound.fails /\ repFails' = repFails + 1 /\ UNCHANGED repGhosts
     \/ t \in holds /\ repGhosts < repBound.ghosts /\ repGhosts' = repGhosts + 1 /\ UNCHANGED repFails
  /\ running' = running \ {t} /\ erred' = erred \cup {t}
  /\ UNCHANGED <<holds, succeeded, taken, pool>>

\* Wait takes the answer of the local task first.
WaitLocal(c) ==
  LET t == <<c, Node(c)>>
  IN /\ pool[c] = "local" /\ t \in succeeded \cup erred
     /\ pool' = [pool EXCEPT ![c] = CASE t \in erred -> "error"
                                      [] t \notin erred /\ RemoteNodes(c) = {} -> "ok"
                                      [] OTHER -> "remotes"]
     /\ UNCHANGED <<running, holds, succeeded, erred, taken, repFails, repGhosts>>

\* The remotes whose answer has been taken: all, the good ones and the bad ones.
Answers(c) == {n \in RemoteNodes(c) : <<c, n>> \in taken}
Good(c) == {n \in RemoteNodes(c) : <<c, n>> \in taken \cap succeeded}
Bad(c) == {n \in RemoteNodes(c) : <<c, n>> \in taken \cap erred}

\* The loop ends after the answers of all remotes, with the first error.
OrElse(c, n) == IF Answers(c) \cup {n} = RemoteNodes(c) THEN "error" ELSE "remotes"

AfterSuccess(c, n) ==
  IF Cardinality(Good(c) \cup {n}) >= RemoteQuorumNum(c) THEN "ok" ELSE OrElse(c, n)

AfterFailure(c, n) ==
  IF Cardinality(Bad(c) \cup {n}) > Cardinality(RemoteNodes(c)) - RemoteQuorumNum(c)
  THEN "error"
  ELSE OrElse(c, n)

\* Wait takes the next answer of a remote task.
WaitRemote(c, n) ==
  LET t == <<c, n>>
  IN /\ pool[c] = "remotes" /\ n \in RemoteNodes(c) /\ t \in (succeeded \cup erred) \ taken
     /\ taken' = taken \cup {t}
     /\ pool' = [pool EXCEPT ![c] = IF t \in succeeded THEN AfterSuccess(c, n) ELSE AfterFailure(c, n)]
     /\ UNCHANGED <<running, holds, succeeded, erred, repFails, repGhosts>>

ReplicationNext ==
  /\ UNCHANGED repBound
  /\ \/ \E c \in AddCall : StartTasks(c) \/ WaitLocal(c)
     \/ \E t \in running : Stores(t) \/ Succeeds(t) \/ Fails(t)
     \/ \E c \in AddCall, n \in Replica : WaitRemote(c, n)

ReplicationSpec == ReplicationInit /\ [][ReplicationNext]_<<repVars, repBound>>

(***************************************************************************)
(* Properties                                                              *)
(***************************************************************************)
Holders(c) == {n \in Homes : <<c, n>> \in holds}

ReplicationTypes ==
  /\ repBound \in ReplicationBound
  /\ running \subseteq Task /\ holds \subseteq Task /\ erred \subseteq Task
  /\ succeeded \subseteq holds /\ taken \subseteq succeeded \cup erred
  /\ pool \in [AddCall -> {"new", "local", "remotes", "ok", "error"}]

WaitInv(c) ==
  /\ pool[c] # "new" => {c} \X Homes \subseteq running \cup succeeded \cup erred
  /\ pool[c] \in {"new", "local"} => Answers(c) = {}
  /\ pool[c] \in {"remotes", "ok"} /\ IsLocal(c) => <<c, Node(c)>> \in succeeded
  /\ pool[c] = "remotes" => Answers(c) # RemoteNodes(c)
  /\ pool[c] = "ok" => Cardinality(Good(c)) >= RemoteQuorumNum(c)

\* A task reports success only when its node holds what was sent; Wait looks at the remotes,
\* and returns without an error, only after a success of the local task, and returns so only
\* with a quorum of the remotes (quorum_pool.go:37-73).  Inductive.
ReplicationInv == ReplicationTypes /\ \A c \in AddCall : WaitInv(c)

\* Two calls that have succeeded have a node in common that holds the data of both, whichever
\* nodes handled them and whatever fails, if the stream has an odd number of nodes; of an
\* even number, half are a quorum (util.go:43-56, quorum_pool.go:38-72).
QuorumsMeet ==
  Cardinality(Homes) % 2 = 1
    => \A c, d \in AddCall :
         pool[c] = "ok" /\ pool[d] = "ok" => Holders(c) \cap Holders(d) # {}

\* Wait returns after the last answer at the latest: while it waits for the remotes, an
\* answer is still to come (quorum_pool.go:46-69).
WaitReturns ==
  \A c \in AddCall :
    pool[c] = "remotes" => \E n \in RemoteNodes(c) : <<c, n>> \in (running \cup succeeded \cup erred) \ taken
=============================================================================
