------------------------------ MODULE MCSystem ------------------------------
(***************************************************************************)
(* The components around a node's streams, for TLC.  They share no         *)
(* variable, so that each is explored by itself, with the others where     *)
(* they start: this visits the states of each that their interleaving      *)
(* would visit.                                                            *)
(***************************************************************************)
EXTENDS ClientSync, KeyExchange, ClientStream, SingleNodeKey, SyncSubscription,
        ChainViews, Archiver, Replication, PeerRequests, EntitlementCache,
        MemberView, ClientInit, XChain, TLC

CONSTANTS Parts,            \* the components to explore
          d1, d2, d3, k1, k2,  \* devices and sessions of KeyExchange
          l1, l2, r1, r2, r3,  \* streams of SyncSubscription
          s1, s2            \* streams of Archiver and ClientInit

VARIABLE part   \* the component that is explored

(***************************************************************************)
(* Bounds.                                                                 *)
(***************************************************************************)

SyncQuiet == [starts |-> 1, events |-> 1, faults |-> 0, lostCalls |-> 0,
              lostCancels |-> 0, badUpdates |-> 0, inFlight |-> 1, pings |-> 0, leave |-> FALSE,
              anyTime |-> FALSE]

\* A session breaks while events arrive, or pings; stop and restart, with a break or a stream
\* that is left; calls that are lost; a restart at any time; updates that cannot be applied.
MCSyncBounds ==
  {[SyncQuiet EXCEPT !.faults = 1, !.events = 2, !.inFlight = 2],
   [SyncQuiet EXCEPT !.faults = 1, !.events = 2, !.badUpdates = 1],
   [SyncQuiet EXCEPT !.faults = 1, !.pings = 1],
   [SyncQuiet EXCEPT !.starts = 2, !.faults = 1],
   [SyncQuiet EXCEPT !.starts = 2, !.leave = TRUE],
   [SyncQuiet EXCEPT !.lostCalls = 1, !.lostCancels = 1, !.leave = TRUE],
   [SyncQuiet EXCEPT !.starts = 2, !.anyTime = TRUE]}

SyncLiveBounds ==
  {[SyncQuiet EXCEPT !.faults = 1, !.events = 2],
   [SyncQuiet EXCEPT !.badUpdates = 1, !.events = 2],
   [SyncQuiet EXCEPT !.lostCalls = 1, !.lostCancels = 1, !.leave = TRUE]}

KeyQuiet == [keys |-> (d1 :> {} @@ d2 :> {k1, k2} @@ d3 :> {}), present |-> {d1, d2},
             events |-> (d1 :> {k1, k2} @@ d2 :> {} @@ d3 :> {}), joined |-> {d1, d2, d3}, restarts |-> [d \in {d1, d2, d3} |-> 0],
             lostAsks |-> 0, lostShares |-> 0, lostDownloads |-> 0, errors |-> 0, badSessions |-> 0]

\* A new device that restarts, with lost messages; two devices that need
\* each other; two devices that answer; a user that joins late; decryptions and key messages
\* that fail, before and after a restart.
MCKeyBounds ==
  {[KeyQuiet EXCEPT !.restarts[d1] = 1],
   [KeyQuiet EXCEPT !.restarts[d1] = 1, !.lostAsks = 1, !.lostDownloads = 1, !.events[d1] = {k1}],
   [KeyQuiet EXCEPT !.lostAsks = 1, !.lostDownloads = 1],
   [KeyQuiet EXCEPT !.restarts[d2] = 1, !.lostShares = 1],
   [KeyQuiet EXCEPT !.keys[d1] = {k1}, !.keys[d2] = {k2}, !.events[d2] = {k1}],
   [KeyQuiet EXCEPT !.present = {d1, d2, d3}, !.keys[d2] = {k2}, !.keys[d3] = {k1}],
   [KeyQuiet EXCEPT !.joined = {d2}],
   [KeyQuiet EXCEPT !.restarts[d1] = 1, !.errors = 2, !.events[d1] = {k1}],
   [KeyQuiet EXCEPT !.restarts[d1] = 1, !.badSessions = 1, !.events[d1] = {k1}]}

KeyLiveBounds ==
  {[KeyQuiet EXCEPT !.restarts[d1] = 1, !.events[d1] = {k1}],
   [KeyQuiet EXCEPT !.keys[d1] = {k1}, !.keys[d2] = {k2}, !.events[d1] = {k2},
                    !.events[d2] = {k1}],
   [KeyQuiet EXCEPT !.present = {d1, d2, d3}, !.keys[d3] = {k1, k2}, !.events[d1] = {k1}],
   [KeyQuiet EXCEPT !.errors = 1, !.joined = {d2}]}

\* A takeover while transactions run, with a crash and a notification that is missed;
\* with requests that find out together.
MCOwnerBounds ==
  {[commits |-> 5, requests |-> 0, crashes |-> 1, drops |-> 1],
   [commits |-> 3, requests |-> 2, crashes |-> 0, drops |-> 0]}

OwnerLiveBounds == {[commits |-> 3, requests |-> 0, crashes |-> 0, drops |-> 1]}

ChatQuiet == [chain |-> 6, headers |-> 3, resets |-> 0, scrolls |-> 0, sends |-> 0, crashes |-> 0,
              lost |-> 0, badPrev |-> 0, errors |-> 0, unsaved |-> 0]

\* A restart, with a write that fails; a reset during a scrollback or while a message is
\* sent; lost answers; an event that is refused until the client gives up.
MCChatBounds ==
  {[ChatQuiet EXCEPT !.chain = 5, !.headers = 1, !.scrolls = 1, !.crashes = 1, !.unsaved = 1],
   [ChatQuiet EXCEPT !.chain = 7, !.resets = 1, !.scrolls = 2],
   [ChatQuiet EXCEPT !.chain = 5, !.resets = 1, !.scrolls = 1, !.sends = 1],
   [ChatQuiet EXCEPT !.chain = 4, !.sends = 1, !.crashes = 1, !.lost = 2, !.badPrev = 1],
   [ChatQuiet EXCEPT !.chain = 4, !.sends = 1, !.badPrev = 4, !.errors = 1]}

MCHomed == l1 :> "here" @@ l2 :> "here" @@ r1 :> "A" @@ r2 :> "A" @@ r3 :> "B"

SubQuiet == [initial |-> {l1}, adds |-> {}, removes |-> {}, overlap |-> TRUE, early |-> FALSE,
             updates |-> 1, slots |-> 1, breaks |-> 0, subFails |-> 0]

\* Two streams of a new node added at once; a connection that breaks, also while a stream is
\* added; the last stream of a node removed, and that stream or another added; a local stream
\* that fails, at the start and when it is added again; calls before the request is taken up.
MCSubBounds ==
  {[SubQuiet EXCEPT !.initial = {}, !.adds = {r1, r2}],
   [SubQuiet EXCEPT !.initial = {l1, r1}, !.updates = 2, !.slots = 2, !.breaks = 1],
   [SubQuiet EXCEPT !.initial = {l1, r1}, !.adds = {r2}, !.breaks = 1],
   [SubQuiet EXCEPT !.initial = {r1, r3}, !.adds = {r1}, !.removes = {r1}, !.overlap = FALSE,
                    !.updates = 0],
   [SubQuiet EXCEPT !.initial = {r1, r3}, !.adds = {r2}, !.removes = {r1}, !.overlap = FALSE,
                    !.updates = 0, !.slots = 2],
   [SubQuiet EXCEPT !.initial = {l1, l2}, !.updates = 2, !.slots = 2, !.subFails = 1],
   [SubQuiet EXCEPT !.adds = {l1, l2}, !.removes = {l1}, !.subFails = 1],
   [SubQuiet EXCEPT !.initial = {r1}, !.adds = {r2}, !.removes = {r1}, !.early = TRUE,
                    !.updates = 0, !.breaks = 1]}

ChainQuiet == [height |-> 3, lag |-> 1, behind |-> FALSE, logsBehind |-> FALSE, calls |-> 0,
               about |-> "nodes", unset |-> "none"]

\* Several ranges; calls for nodes and for settings, before and after the process starts; a
\* provider that is behind.
MCChainBounds ==
  {[ChainQuiet EXCEPT !.height = 5, !.lag = 2],
   [ChainQuiet EXCEPT !.calls = 3],
   [ChainQuiet EXCEPT !.lag = 0, !.height = 2, !.calls = 2, !.about = "settings", !.unset = "last"],
   [ChainQuiet EXCEPT !.height = 2, !.lag = 0, !.calls = 3, !.about = "settings", !.unset = "any"],
   [ChainQuiet EXCEPT !.height = 2, !.calls = 2, !.about = "settings", !.unset = "all"],
   [ChainQuiet EXCEPT !.height = 4, !.behind = TRUE],
   [ChainQuiet EXCEPT !.calls = 1, !.logsBehind = TRUE]}

ArchiveQuiet == [made |-> 2, first |-> {s1}, once |-> FALSE, late |-> FALSE, lag |-> FALSE,
                 restarts |-> 0, readFails |-> 0, writeFails |-> 0, ghosts |-> 0]

\* A node that is behind the contract; failures and a restart, with a write that succeeds and
\* fails; a single run, also with a node that is behind; events that nobody gets.
MCArchiveBounds ==
  {[ArchiveQuiet EXCEPT !.lag = TRUE],
   [ArchiveQuiet EXCEPT !.readFails = 1, !.writeFails = 1],
   [ArchiveQuiet EXCEPT !.made = 1, !.ghosts = 1, !.restarts = 1],
   [ArchiveQuiet EXCEPT !.first = {s1, s2}, !.once = TRUE],
   [ArchiveQuiet EXCEPT !.made = 1, !.once = TRUE, !.lag = TRUE, !.restarts = 1],
   [ArchiveQuiet EXCEPT !.late = TRUE]}

ArchiveLiveBounds ==
  {[ArchiveQuiet EXCEPT !.lag = TRUE],
   [ArchiveQuiet EXCEPT !.made = 1, !.lag = TRUE, !.restarts = 1]}

\* Calls on three nodes with a failure and an ambiguous store, at two of them or at one that
\* is not among them; on two; on one.
QuorumCase(homes, at1, at2, fails, ghosts) ==
  [homes |-> homes, at |-> [x \in AddCall |-> IF x = "call1" THEN at1 ELSE at2],
   fails |-> fails, ghosts |-> ghosts]

MCReplicationBounds ==
  {QuorumCase({"n1", "n2", "n3"}, "n1", "n2", 0, 1),
   QuorumCase({"n1", "n2", "n3"}, "n1", "n4", 1, 0),
   QuorumCase({"n1", "n2"}, "n1", "n4", 1, 1),
   QuorumCase({"n1"}, "n1", "n4", 1, 0)}

\* Two requests that may ask all three remotes, or two of them; placements that change.
MCPeerBounds ==
  {[nodes |-> <<"n1", "n2", "n3", "n4">>, local |-> "n1", retries |-> 3, updates |-> 0],
   [nodes |-> <<"n2", "n3", "n4">>, local |-> "n1", retries |-> 2, updates |-> 0],
   [nodes |-> <<"n1", "n2">>, local |-> "n1", retries |-> 1, updates |-> 2]}

\* Long enough for a value to pass through all caches of the stack and become stale in each.
MCCacheBounds ==
  {[about |-> "member", lookups |-> Lookup, time |-> 3, changes |-> 1, faults |-> 1],
   [about |-> "enabled", lookups |-> Lookup, time |-> 2, changes |-> 1, faults |-> 0],
   [about |-> "enabled", lookups |-> {"q1"}, time |-> 5, changes |-> 1, faults |-> 1],
   [about |-> "channel", lookups |-> {"q1"}, time |-> 5, changes |-> 1, faults |-> 1],
   [about |-> "space", lookups |-> {"q1"}, time |-> 6, changes |-> 1, faults |-> 0]}

RosterQuiet == [kinds |-> {"join", "username"}, events |-> 3, mismatch |-> FALSE, restarts |-> 1,
                locals |-> 0]

\* Usernames that are freed and claimed again, by members who leave and come back; display
\* names and addresses; members alone; wrong checksums; a name that this client sets.
MCMemberBounds ==
  {[RosterQuiet EXCEPT !.events = 4],
   [RosterQuiet EXCEPT !.kinds = @ \cup {"leave"}, !.events = 5, !.restarts = 0],
   [RosterQuiet EXCEPT !.kinds = {"join", "displayName", "ens"}],
   [RosterQuiet EXCEPT !.kinds = {"join", "leave", "invite"}],
   [RosterQuiet EXCEPT !.mismatch = TRUE],
   [RosterQuiet EXCEPT !.restarts = 0, !.locals = 1]}

MCPriority == s1 :> 0 @@ s2 :> 3

\* Requests to start and stop the sync at any time; a client that is stopped meanwhile.
MCLoadBounds ==
  {[high |-> {s2}, requests |-> 3, stops |-> 0],
   [high |-> {s1}, requests |-> 2, stops |-> 1]}

JoinQuiet == [entitlements |-> <<"role1">>, draw |-> [r \in Role |-> {"v1", "v2", "v3"}], paid |-> 1, price |-> 1,
              raises |-> 0, changes |-> 0, errors |-> 0, restarts |-> 0, history |-> TRUE]

\* A node that fails and one that restarts; rules that change; a price that goes up; two roles,
\* after a local one that does not pass; a local role that passes, in time and too
\* late; a role that is asked about twice; a local role that does not pass.
MCJoinBounds ==
  {[JoinQuiet EXCEPT !.errors = 1, !.restarts = 1, !.history = FALSE],
   [JoinQuiet EXCEPT !.changes = 1, !.restarts = 1],
   [JoinQuiet EXCEPT !.raises = 1],
   [JoinQuiet EXCEPT !.entitlements = <<"notEntitled", "role1", "role2">>, !.paid = 0, !.price = 0],
   [JoinQuiet EXCEPT !.entitlements = <<"notEntitled", "entitled", "role1">>, !.raises = 1],
   [JoinQuiet EXCEPT !.entitlements = <<"role1", "role1">>],
   [JoinQuiet EXCEPT !.entitlements = <<"notEntitled">>],
   [JoinQuiet EXCEPT !.entitlements = <<"role1", "entitled">>, !.paid = 0, !.price = 0]}

JoinLiveBounds == {[JoinQuiet EXCEPT !.errors = 1, !.restarts = 1]}

(***************************************************************************)
(* The specification.                                                      *)
(***************************************************************************)

sync == <<syncVars, syncBound>>
keys == <<keyVars, keyBound>>
chat == <<chatVars, chatBound>>
owner == <<ownerVars, ownerBound>>
subs == <<subVars, subBound>>
archiver == <<archiveVars, archiveBound>>
monitor == <<monitorVars, viewVars, chainBound>>
quorum == <<repVars, repBound>>
peers == <<peerVars, peerBound>>
auth == <<cacheVars, cacheBound>>
roster == <<memberVars, memberBound>>
loader == <<loadVars, loadBound>>
joins == <<joinVars, joinBound>>

\* A component that is not explored stands where it starts, with any of its bounds.
One(S) == CHOOSE x \in S : TRUE

Init ==
  /\ part \in Parts
  /\ SyncInit /\ (part # "sync" => syncBound = One(SyncBounds))
  /\ KeyInit /\ (part # "keys" => keyBound = One(KeyBounds))
  /\ ChatInit /\ (part # "chat" => chatBound = One(ChatBounds))
  /\ OwnerInit /\ (part # "owner" => ownerBound = One(OwnerBounds))
  /\ SubInit /\ (part # "subs" => subBound = One(SubBounds))
  /\ ChainInit /\ (part # "chain" => chainBound = One(ChainBounds))
  /\ ArchiveInit /\ (part # "archive" => archiveBound = One(ArchiveBounds))
  /\ ReplicationInit /\ (part # "quorum" => repBound = One(ReplicationBounds))
  /\ PeerInit /\ (part # "peers" => peerBound = One(PeerBounds) /\ remotes = One(Shuffles(Others(streamNodes))))
  /\ CacheInit /\ (part # "auth" => cacheBound = One(CacheBounds) /\ truth)
  /\ MemberInit /\ (part # "members" => memberBound = One(MemberBounds))
  /\ LoadInit /\ (part # "load" => loadBound = One(LoadBounds))
  /\ JoinInit /\ (part # "xchain" => joinBound = One(JoinBounds) /\ (\A r \in Role : entitled[r]))

Next ==
  /\ UNCHANGED part
  /\ \/ part = "sync" /\ SyncNext
          /\ UNCHANGED <<keys, chat, owner, subs, monitor, archiver, quorum, peers, auth, roster, loader, joins>>
     \/ part = "keys" /\ KeyNext
          /\ UNCHANGED <<sync, chat, owner, subs, monitor, archiver, quorum, peers, auth, roster, loader, joins>>
     \/ part = "chat" /\ ChatNext
          /\ UNCHANGED <<sync, keys, owner, subs, monitor, archiver, quorum, peers, auth, roster, loader, joins>>
     \/ part = "owner" /\ OwnerNext
          /\ UNCHANGED <<sync, keys, chat, subs, monitor, archiver, quorum, peers, auth, roster, loader, joins>>
     \/ part = "subs" /\ SubNext
          /\ UNCHANGED <<sync, keys, chat, owner, monitor, archiver, quorum, peers, auth, roster, loader, joins>>
     \/ part = "chain" /\ ChainNext
          /\ UNCHANGED <<sync, keys, chat, owner, subs, archiver, quorum, peers, auth, roster, loader, joins>>
     \/ part = "archive" /\ ArchiveNext
          /\ UNCHANGED <<sync, keys, chat, owner, subs, monitor, quorum, peers, auth, roster, loader, joins>>
     \/ part = "quorum" /\ ReplicationNext
          /\ UNCHANGED <<sync, keys, chat, owner, subs, monitor, archiver, peers, auth, roster, loader, joins>>
     \/ part = "peers" /\ PeerNext
          /\ UNCHANGED <<sync, keys, chat, owner, subs, monitor, archiver, quorum, auth, roster, loader, joins>>
     \/ part = "auth" /\ CacheNext
          /\ UNCHANGED <<sync, keys, chat, owner, subs, monitor, archiver, quorum, peers, roster, loader, joins>>
     \/ part = "members" /\ MemberNext
          /\ UNCHANGED <<sync, keys, chat, owner, subs, monitor, archiver, quorum, peers, auth, loader, joins>>
     \/ part = "load" /\ LoadNext
          /\ UNCHANGED <<sync, keys, chat, owner, subs, monitor, archiver, quorum, peers, auth, roster, joins>>
     \/ part = "xchain" /\ JoinNext
          /\ UNCHANGED <<sync, keys, chat, owner, subs, monitor, archiver, quorum, peers, auth, roster, loader>>

vars == <<part, sync, keys, chat, owner, subs, monitor, archiver, quorum, peers, auth, roster, loader, joins>>

Spec == Init /\ [][Next]_vars

\* Every component keeps to its types: the counters and positions of the code stay in their
\* ranges, one process at most is in the table of the node key, and so on.  (A component that
\* is not explored stays in a state in which its own exploration starts.)
SystemTypeOK ==
  /\ part = "sync" => SyncTypeOK
  /\ part = "keys" => KeyTypeOK
  /\ part = "chat" => ChatTypeOK
  /\ part = "owner" => OwnerTypeOK
  /\ part = "subs" => SubTypeOK
  /\ part = "chain" => MonitorTypeOK
  /\ part = "archive" => ArchiveTypeOK
  /\ part = "peers" => PeersTypeOK

LiveSpec ==
  /\ Spec
  /\ \/ part = "sync" /\ SyncFairness
     \/ part = "keys" /\ KeyFairness
     \/ part = "owner" /\ OwnerFairness
     \/ part = "archive" /\ ArchiveFairness
     \/ part = "xchain" /\ JoinFairness
=============================================================================
