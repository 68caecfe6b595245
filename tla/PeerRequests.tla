----------------------------- MODULE PeerRequests -----------------------------
(***************************************************************************)
(* Requests that a node forwards to the other nodes of a stream, one after *)
(* the other: the nodes of a stream with their sticky peer                 *)
(* (core/node/nodes/stream_nodes.go) and the loop of                       *)
(* peerNodeRequestWithRetries (core/node/rpc/forwarder.go).  The archiver  *)
(* uses the nodes of a stream the same way, with a single try, and is the  *)
(* only one to update them.  Indices start at 1 here.                     *)
(***************************************************************************)
EXTENDS Integers, Sequences, FiniteSets, Functions

CONSTANTS Peer, Forward, \* nodes and forwarded requests
          PeerBounds

PeerBound ==
  [nodes : Seq(Peer),    \* the nodes of the stream to begin with
   local : Peer,         \* the node that forwards
   retries : Nat \ {0}, \* Network.NumRetries, at least 1
   updates : Nat]        \* changes of the placement

ASSUME PeerAssumption == PeerBounds \subseteq PeerBound

VARIABLES streamNodes, remotes, stickyPeerIndex,
          request,      \* per forwarded request: where it is, the peer, the tries left
          asked,        \* per forwarded request: the peers it has asked
          mixed,        \* the forwarded requests that a shuffle, or an update, has met
          unavailable,  \* the peers a request has found unavailable since the last shuffle
          updates, peerBound

peerVars == <<streamNodes, remotes, stickyPeerIndex, request, asked, mixed, unavailable, updates>>

Shuffles(peers) == Injection(1 .. Cardinality(peers), peers)

Others(nodes) == Range(nodes) \ {peerBound.local}

\* The first index of an element, 0 if there is none.
IndexOf(s, e) == LET at == {i \in DOMAIN s : s[i] = e} IN IF at = {} THEN 0 ELSE CHOOSE i \in at : TRUE

\* The index of the last sticky peer, or of the first remote if there is no such peer.
IndexAfter(s, last) == IF IndexOf(s, last) = 0 THEN 1 ELSE IndexOf(s, last)

NotForwarding == [at |-> "idle"]

PeerInit ==
  /\ peerBound \in PeerBounds
  /\ streamNodes = peerBound.nodes
  /\ remotes \in Shuffles(Others(streamNodes))
  /\ stickyPeerIndex = 1
  /\ request = [f \in Forward |-> NotForwarding]
  /\ asked = [f \in Forward |-> <<>>]
  /\ mixed = {} /\ unavailable = {} /\ updates = 0

\* Requests that are under way when the remotes are shuffled; one may still report its peer.
Shuffled(f) ==
  /\ mixed' = mixed \cup {g \in Forward : /\ request[g].at \notin {"idle", "done"}
                                         /\ g = f => request[g].tries > 1}
  /\ unavailable' = {request[g].peer : g \in {h \in Forward \ {f} : request[h].at = "advance"}}

\* resetNoLock
Reset(nodes) ==
  /\ streamNodes' = nodes
  /\ remotes' \in Shuffles(Others(nodes))
  /\ stickyPeerIndex' = IF stickyPeerIndex <= Len(remotes)
                        THEN IndexAfter(remotes', remotes[stickyPeerIndex])
                        ELSE 1

\* A node that is there is removed, one that is not is added; otherwise nothing changes.
UpdateNodes(n) ==
  /\ updates < peerBound.updates /\ updates' = updates + 1
  /\ Reset(IF n \in Range(streamNodes) THEN SelectSeq(streamNodes, LAMBDA m : m # n) ELSE Append(streamNodes, n))
  /\ mixed' = Forward /\ unavailable' = {}
  /\ UNCHANGED <<request, asked>>

NumRetries == IF peerBound.retries < Len(remotes) THEN peerBound.retries ELSE Len(remotes)

\* The request has at most one try for each remote there is now.
StartForward(f) ==
  /\ request[f].at = "idle" /\ asked[f] = <<>> /\ remotes # <<>>
  /\ request' = [request EXCEPT ![f] = [at |-> "next", tries |-> NumRetries]]
  /\ UNCHANGED <<streamNodes, remotes, stickyPeerIndex, asked, mixed, unavailable, updates>>

\* GetStickyPeer.  Without a peer, there is no client for its address, and the request fails.
AskPeer(f) ==
  /\ request[f].at = "next"
  /\ IF remotes = <<>>
     THEN /\ request' = [request EXCEPT ![f] = [at |-> "done"]]
          /\ UNCHANGED asked
     ELSE LET peer == remotes[stickyPeerIndex]
          IN /\ request' = [request EXCEPT ![f] = [at |-> "asking", peer |-> peer, tries |-> request[f].tries]]
             /\ asked' = [asked EXCEPT ![f] = Append(@, peer)]
  /\ UNCHANGED <<streamNodes, remotes, stickyPeerIndex, mixed, unavailable, updates>>

\* An answer, or an error other than of the network.
PeerAnswers(f) ==
  /\ request[f].at = "asking"
  /\ request' = [request EXCEPT ![f] = [at |-> "done"]]
  /\ UNCHANGED <<streamNodes, remotes, stickyPeerIndex, asked, mixed, unavailable, updates>>

PeerUnavailable(f) ==
  /\ request[f].at = "asking"
  /\ request' = [request EXCEPT ![f].at = "advance"]
  /\ unavailable' = unavailable \cup {request[f].peer}
  /\ UNCHANGED <<streamNodes, remotes, stickyPeerIndex, asked, mixed, updates>>

IsCurrent_Always(peer) == TRUE

\* Another request has not advanced the sticky peer already.
IsCurrent(peer) == remotes[stickyPeerIndex] = peer

NextIndex(i) == i + 1

\* AdvanceStickyPeer, and the end of the loop or the next try.
AdvanceStickyPeer(f) ==
  /\ request[f].at = "advance"
  /\ IF remotes = <<>> \/ ~IsCurrent(request[f].peer)
     THEN UNCHANGED <<remotes, stickyPeerIndex, mixed, unavailable>>
     ELSE IF stickyPeerIndex < Len(remotes)
     THEN stickyPeerIndex' = NextIndex(stickyPeerIndex) /\ UNCHANGED <<remotes, mixed, unavailable>>
     ELSE stickyPeerIndex' = 1 /\ remotes' \in Shuffles(Range(remotes)) /\ Shuffled(f)
  /\ request' = [request EXCEPT ![f] = IF request[f].tries = 1
                                       THEN [at |-> "done"]
                                       ELSE [at |-> "next", tries |-> request[f].tries - 1]]
  /\ UNCHANGED <<streamNodes, asked, updates>>

PeerNext ==
  /\ UNCHANGED peerBound
  /\ \/ \E n \in Peer : UpdateNodes(n)
     \/ \E f \in Forward : \/ StartForward(f) \/ AskPeer(f) \/ PeerAnswers(f)
                           \/ PeerUnavailable(f) \/ AdvanceStickyPeer(f)

(***************************************************************************)
(* Properties                                                              *)
(***************************************************************************)

\* The remotes are the nodes without the local one, in any order, and the index of the
\* sticky peer is in their range unless there are none (stream_nodes.go:51-79, 148-168).
PeersTypeOK ==
  /\ IsInjective(streamNodes) /\ IsInjective(remotes)
  /\ Range(remotes) = Range(streamNodes) \ {peerBound.local}
  /\ IF remotes = <<>> THEN stickyPeerIndex = 1 ELSE stickyPeerIndex \in DOMAIN remotes

\* A peer is passed over only after a request has found it unavailable: requests that fail
\* on the same peer at the same time advance it once (stream_nodes.go:124-129).  A request that
\* no shuffle meets asks no node twice, and so misses none when it may ask all ("Do not make
\* more than one request to a single node", forwarder.go:37).
NoPeerPassedOver ==
  /\ peerBound.updates = 0 => \A i \in 1 .. stickyPeerIndex - 1 : remotes[i] \in unavailable
  /\ \A f \in Forward \ mixed : IsInjective(asked[f])

(***************************************************************************)
(* The inductive invariant of the proofs.  After an update every request   *)
(* is mixed, and nothing is claimed of the peers.                          *)
(***************************************************************************)
PeerSpec == PeerInit /\ [][PeerNext]_<<peerVars, peerBound>>

PeerRequest ==
  {NotForwarding, [at |-> "done"]}
    \cup [at : {"next"}, tries : Nat \ {0}]
    \cup [at : {"asking", "advance"}, peer : Peer, tries : Nat \ {0}]

PeerTypes == request \in [Forward -> PeerRequest] /\ asked \in [Forward -> Seq(Peer)]

UpdatesMix ==
  /\ peerBound \in PeerBound /\ mixed \subseteq Forward /\ updates \in Nat
  /\ peerBound.updates = 0 => updates = 0
  /\ updates > 0 => mixed = Forward

PeerSeqs ==
  /\ remotes \in Seq(Peer) /\ IsInjective(remotes)
  /\ stickyPeerIndex \in Nat /\ stickyPeerIndex > 0
  /\ remotes # <<>> => stickyPeerIndex <= Len(remotes)

\* The peer of a request that is about to advance, and those before the sticky peer.
FoundUnavailable ==
  /\ \A f \in Forward : request[f].at = "advance" => request[f].peer \in unavailable
  /\ \A i \in 1 .. stickyPeerIndex - 1 : remotes[i] \in unavailable

\* The peer is one that the sticky peer has passed.
PassedOver(p) == \E k \in 1 .. stickyPeerIndex - 1 : remotes[k] = p

\* What a request has asked is behind the sticky peer, but for the peer that it asks now.
AskedInOrder(f) ==
  /\ IsInjective(asked[f])
  /\ request[f].at = "next" => \A i \in 1 .. Len(asked[f]) : PassedOver(asked[f][i])
  /\ request[f].at \in {"asking", "advance"}
       => /\ PassedOver(request[f].peer) \/ (remotes # <<>> /\ request[f].peer = remotes[stickyPeerIndex])
          /\ \A i \in 1 .. Len(asked[f]) : PassedOver(asked[f][i]) \/ asked[f][i] = request[f].peer

PeersInv ==
  /\ UpdatesMix
  /\ updates = 0 => /\ PeerTypes /\ PeerSeqs /\ FoundUnavailable
                    /\ \A f \in Forward \ mixed : AskedInOrder(f)
====
