----------------------------- MODULE ChainViews -----------------------------
(***************************************************************************)
(* What a node keeps of the contracts by following their events: the node  *)
(* registry (core/node/nodes/node_registry.go) and the on-chain            *)
(* configuration (core/node/crypto/config.go), both loaded at the block    *)
(* from which the ChainMonitor starts.  Nodes and settings are those of    *)
(* the contracts NodeRegistry.sol and RiverConfig.sol.                     *)
(***************************************************************************)
EXTENDS ChainMonitor, Sequences, SequencesExt, FiniteSetsExt

CONSTANTS Member,        \* addresses of nodes
          Url,
          SettingBlock,  \* blocks from which a setting is active
          SettingValue

ASSUME ViewsAssumption == SettingBlock \subseteq Nat \ {0}

VARIABLES history,   \* per block: the events in it and the contracts' state after it
          mined,     \* the same, for the block that is being made
          nodes,     \* the node registry of the process
          settings   \* its configuration, for one key

viewVars == <<history, mined, nodes, settings>>

\* Nodes are added as Operational; RemoteOnly has the same transitions.
Status == {"Operational", "Departing", "Failed", "Deleted"}

Contracts == [nodes |-> << >>, settings |-> {}]

Without(f, x) == [y \in DOMAIN f \ {x} |-> f[y]]
With(f, x, v) == [y \in DOMAIN f \cup {x} |-> IF y = x THEN v ELSE f[y]]

(***************************************************************************)
(* The contracts.                                                          *)
(***************************************************************************)

\* _checkNodeStatusTransionAllowed
TransitionAllowed(from, to) ==
  \/ from = "Operational" /\ to \in {"Failed", "Departing"}
  \/ from = "Departing" /\ to \in {"Failed", "Deleted"}
  \/ from = "Failed" /\ to = "Deleted"

\* registerNode, removeNode, updateNodeStatus and updateNodeUrl: the calls that do not revert,
\* by the events they emit.
NodeEvents(c) ==
  {[kind |-> "added", node |-> n, status |-> "Operational", url |-> u] :
      n \in Member \ DOMAIN c.nodes, u \in Url}
  \cup {[kind |-> "removed", node |-> n] : n \in {m \in DOMAIN c.nodes : c.nodes[m].status = "Deleted"}}
  \cup UNION {{[kind |-> "status", node |-> n, status |-> s] :
                 s \in {t \in Status : TransitionAllowed(c.nodes[n].status, t)}} : n \in DOMAIN c.nodes}
  \cup UNION {{[kind |-> "url", node |-> n, url |-> u] : u \in Url \ {c.nodes[n].url}} : n \in DOMAIN c.nodes}

\* setConfiguration, deleteConfigurationOnBlock and deleteConfiguration, which says that the
\* setting of block 0 is deleted.
SettingEvents(c) ==
  LET held == {s.block : s \in c.settings}
      deletable == CASE held = {} \/ chainBound.unset = "none" -> {}
                     [] chainBound.unset = "last" -> {Max(held)}
                     [] chainBound.unset = "any" -> held
                     [] chainBound.unset = "all" -> {0}
  IN {[kind |-> "set", block |-> b, value |-> v] : b \in SettingBlock, v \in SettingValue}
     \cup {[kind |-> "unset", block |-> b] : b \in deletable}

Calls(c) == IF chainBound.about = "nodes" THEN NodeEvents(c) ELSE SettingEvents(c)

\* The state of the contracts after a call that emits the event.
Called(c, e) ==
  CASE e.kind = "added" -> [c EXCEPT !.nodes = With(@, e.node, [status |-> e.status, url |-> e.url])]
    [] e.kind = "removed" -> [c EXCEPT !.nodes = Without(@, e.node)]
    [] e.kind = "status" -> [c EXCEPT !.nodes[e.node].status = e.status]
    [] e.kind = "url" -> [c EXCEPT !.nodes[e.node].url = e.url]
    [] e.kind = "set" -> [c EXCEPT !.settings = {s \in @ : s.block # e.block}
                                                  \cup {[block |-> e.block, value |-> e.value]}]
    [] e.kind = "unset" -> [c EXCEPT !.settings = {s \in @ : e.block \notin {0, s.block}}]

\* A transaction goes into the block that is being made.
Transaction(e) ==
  /\ FoldLeft(LAMBDA n, b : n + Len(b.events), Len(mined.events), history) < chainBound.calls
  /\ mined' = [events |-> Append(mined.events, e), state |-> Called(mined.state, e)]
  /\ UNCHANGED <<monitorVars, history, nodes, settings>>

\* The block becomes part of the chain.
SealBlock ==
  /\ NewBlock
  /\ history' = Append(history, mined) /\ mined' = [events |-> << >>, state |-> mined.state]
  /\ UNCHANGED <<nodes, settings>>

(***************************************************************************)
(* The views of the process.                                               *)
(***************************************************************************)

\* onChainSettings.Set
SetSetting(ss, b, v) ==
  LET new == [block |-> b, value |-> v]
  IN IF \E i \in DOMAIN ss : ss[i].block = b
       THEN [i \in DOMAIN ss |-> IF ss[i].block = b THEN new ELSE ss[i]]
     ELSE SortSeq(Append(ss, new), LAMBDA x, y : x.block < y.block)

\* onChainSettings.Remove: the last setting takes the place of the one that is removed.
RemoveSetting(ss, b) ==
  LET at == {i \in DOMAIN ss : ss[i].block = b}
  IN IF at = {} THEN ss ELSE Front([ss EXCEPT ![Min(at)] = Last(ss)])

\* settings.OnBlock: the last in the list that is active.
SettingOnBlock(ss, n) ==
  LET active == {i \in DOMAIN ss : ss[i].block <= n}
  IN IF active = {} THEN {} ELSE {ss[Max(active)].value}

OnNodeAdded_Known(ns, e) ==
  IF e.node \in DOMAIN ns THEN With(ns, e.node, [status |-> e.status, url |-> e.url]) ELSE ns

\* OnNodeAdded
OnNodeAdded(ns, e) ==
  IF e.node \in DOMAIN ns THEN ns ELSE With(ns, e.node, [status |-> e.status, url |-> e.url])

\* OnNodeRemoved, OnNodeStatusUpdated, OnNodeUrlUpdated: ignored when there is no such node.
OnNodeChanged(ns, e) ==
  IF e.node \notin DOMAIN ns THEN ns
  ELSE CASE e.kind = "removed" -> Without(ns, e.node)
         [] e.kind = "status" -> [ns EXCEPT ![e.node].status = e.status]
         [] e.kind = "url" -> [ns EXCEPT ![e.node].url = e.url]

\* The callbacks for one log.
OnLog(views, e) ==
  CASE e.kind = "added" -> [views EXCEPT !.nodes = OnNodeAdded(@, e)]
    [] e.kind \in {"removed", "status", "url"} -> [views EXCEPT !.nodes = OnNodeChanged(@, e)]
    [] e.kind = "set" -> [views EXCEPT !.settings = SetSetting(@, e.block, e.value)]
    [] e.kind = "unset" -> [views EXCEPT !.settings = RemoveSetting(@, e.block)]

\* LoadNodeRegistry and NewOnChainConfig, at the block from which the monitor starts.
LoadViews ==
  LET c == history[chainHead].state
  IN /\ StartMonitor
     /\ nodes' = c.nodes
     /\ settings' = FoldLeft(LAMBDA ss, s : SetSetting(ss, s.block, s.value), << >>, SetToSeq(c.settings))
     /\ UNCHANGED <<history, mined>>

\* The logs of a block are handed to the callbacks, in their order.
FollowLogs ==
  LET b == poll.log
      logs == IF b <= poll.known THEN history[b].events ELSE << >>
      after == FoldLeft(OnLog, [nodes |-> nodes, settings |-> settings], logs)
  IN /\ HandLogs
     /\ nodes' = after.nodes /\ settings' = after.settings
     /\ UNCHANGED <<history, mined>>

ChainInit ==
  /\ MonitorInit
  /\ history = << [events |-> << >>, state |-> Contracts] >>
  /\ mined = history[1] /\ nodes = << >> /\ settings = << >>

ChainNext ==
  /\ UNCHANGED chainBound
  /\ \/ SealBlock \/ LoadViews \/ FollowLogs
     \/ \E e \in Calls(mined.state) : Transaction(e)
     \/ (AnnounceBlock \/ EndRound) /\ UNCHANGED viewVars
     \/ \E h, l \in 0..chainHead : MayRead(h, l) /\ BeginRound(h, l) /\ UNCHANGED viewVars

(***************************************************************************)
(* Properties                                                              *)
(***************************************************************************)
Processed == IF lastProcessed = NothingYet THEN started ELSE lastProcessed

\* Between two rounds the node registry and the settings are those of the contracts at the
\* last block that was processed, although the events of the first block, which the views
\* were loaded with, are applied once more (node_registry.go:154-249, config.go:148-232).
\* A deletion of all settings of a key is not followed.  The setting that is found for a block
\* is the one with the highest starting block that is not above it, as long as only the last
\* setting is ever deleted: another deletion moves the last setting to its place and leaves the
\* list unsorted, until the next one is added (config.go:195-206, 248-256).
ViewsFollow ==
  (Sound /\ started # NotStarted /\ ~Polling)
    => /\ nodes = history[Processed].state.nodes
       /\ chainBound.unset # "all" => Range(settings) = history[Processed].state.settings
       /\ chainBound.unset \notin {"any", "all"} =>
            \A n \in SettingBlock \cup {Max(SettingBlock \cup {0}) + 1} :
              SettingOnBlock(settings, n) =
                {s.value : s \in {x \in Range(settings) :
                   x.block <= n /\ \A y \in Range(settings) : y.block <= n => y.block <= x.block}}

=============================================================================
