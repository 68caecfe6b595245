----------------------------- MODULE StreamView -----------------------------
(***************************************************************************)
(* The immutable stream view of core/node/events/stream_view.go: the       *)
(* miniblocks a node keeps in memory, the minipool of events that are not  *)
(* in a miniblock yet, and the pure operations on them.  The code copies a *)
(* view on every write, so an operation is a function from views to views. *)
(*                                                                         *)
(* An event is a member of Event.  Header and event hashes never collide,  *)
(* so an event stands for its own hash, and a miniblock header hash is a   *)
(* number used once.  A snapshot is the set of the events folded into it   *)
(* by Update_Snapshot.                                                     *)
(***************************************************************************)
EXTENDS Integers, Sequences, FiniteSets

CONSTANTS Event,                \* the events clients may send
          NoEvent,              \* "no event"
          NoView,               \* the view of a stream that is not loaded
          Generations,          \* RecencyConstraints.Generations
          MinEventsPerSnapshot  \* getMinEventsPerSnapshot

ASSUME ViewAssumption ==
  /\ NoEvent \notin Event
  /\ Generations \in Nat
  /\ MinEventsPerSnapshot \in Nat

Elements(s) == {s[i] : i \in DOMAIN s}

\* A sequence without repetitions: the keys of an OrderedMap.
Distinct(s) == \A i, j \in DOMAIN s : s[i] = s[j] => i = j

Miniblock ==
  [num : Nat, hash : Nat, prev : Nat, events : Seq(Event),
   isSnapshot : BOOLEAN, snapshot : SUBSET Event,
   offset : Nat, prevSnapshot : Nat]

\* MakeGenesisMiniblock.  The inception events are left out: they are the
\* same for every stream and nothing adds or removes them.
Genesis ==
  [num |-> 0, hash |-> 0, prev |-> 0, events |-> << >>,
   isSnapshot |-> TRUE, snapshot |-> {}, offset |-> 0, prevSnapshot |-> 0]

View ==
  [blocks : Seq(Miniblock), minipool : Seq(Event), generation : Nat,
   snapshot : SUBSET Event, snapshotIndex : Nat \ {0}]

Cookie == [gen : Nat, slot : Nat]

LastBlock(v) == v.blocks[Len(v.blocks)]

(***************************************************************************)
(* Loading.  CanMakeStreamView is false where MakeStreamView returns an    *)
(* error or where OrderedMap.Set panics on a repeated event.               *)
(***************************************************************************)
CanMakeStreamView(miniblocks, envelopes) ==
  /\ miniblocks # << >>
  /\ \A i \in 2..Len(miniblocks) : miniblocks[i].num = miniblocks[i-1].num + 1
  /\ \E i \in DOMAIN miniblocks : miniblocks[i].isSnapshot
  /\ Distinct(envelopes)

MakeStreamView(miniblocks, envelopes) ==
  LET first == CHOOSE i \in DOMAIN miniblocks :
                 /\ miniblocks[i].isSnapshot
                 /\ \A j \in 1..(i-1) : ~miniblocks[j].isSnapshot
  IN  [blocks |-> miniblocks,
       minipool |-> envelopes,
       generation |-> miniblocks[Len(miniblocks)].num + 1,
       snapshot |-> miniblocks[first].snapshot,
       snapshotIndex |-> first]

(***************************************************************************)
(* Producing the next miniblock.                                           *)
(***************************************************************************)

\* The minipool and the blocks after the latest snapshot hold enough events.
shouldSnapshot(v) ==
  LET since == {i \in DOMAIN v.blocks :
                  \A k \in i..Len(v.blocks) : ~v.blocks[k].isSnapshot}
      inBlocks == UNION {{i} \X DOMAIN v.blocks[i].events : i \in since}
  IN  Len(v.minipool) + Cardinality(inBlocks) >= MinEventsPerSnapshot

\* A MiniblockProposal is a miniblock whose remaining fields are not known yet.
ProposeNextMiniblock(v, forceSnapshot) ==
  [Genesis EXCEPT !.num = v.generation,
                  !.prev = LastBlock(v).hash,
                  !.events = v.minipool,
                  !.isSnapshot = (forceSnapshot \/ shouldSnapshot(v))]

\* The checks of makeMiniblockHeader.
CanMakeMiniblockHeader(v, proposal) ==
  /\ v.generation = proposal.num
  /\ LastBlock(v).hash = proposal.prev
  /\ Elements(proposal.events) \subseteq Elements(v.minipool)

\* Events of the blocks after the one that holds the view's snapshot.
EventsSinceSnapshot(v) ==
  UNION {Elements(v.blocks[i].events) : i \in (v.snapshotIndex + 1)..Len(v.blocks)}

\* Slip: a snapshot in the last block is not taken for the previous one.
makeMiniblockHeader_PrevSnapshot(v, proposal, hash) ==
  LET last == LastBlock(v)
  IN  [num |-> last.num + 1,
       hash |-> hash,
       prev |-> last.hash,
       events |-> proposal.events,
       isSnapshot |-> proposal.isSnapshot,
       snapshot |-> v.snapshot \cup EventsSinceSnapshot(v)
                      \cup Elements(proposal.events),
       offset |-> last.offset + Len(last.events) + 1,
       prevSnapshot |-> last.prevSnapshot]

makeMiniblockHeader(v, proposal, hash) ==
  LET last == LastBlock(v)
  IN  [num |-> last.num + 1,
       hash |-> hash,
       prev |-> last.hash,
       events |-> proposal.events,
       isSnapshot |-> proposal.isSnapshot,
       snapshot |-> IF proposal.isSnapshot
                    THEN v.snapshot \cup EventsSinceSnapshot(v)
                           \cup Elements(proposal.events)
                    ELSE {},
       offset |-> last.offset + Len(last.events) + 1,
       prevSnapshot |-> IF last.isSnapshot THEN last.num ELSE last.prevSnapshot]

(***************************************************************************)
(* Adding an event and applying a miniblock.                               *)
(***************************************************************************)

\* The copy of the minipool; the code panics unless e is new to it.
copyAndAddEvent(v, e) == [v EXCEPT !.minipool = Append(@, e)]

\* The checks of copyAndApplyBlock.
CanApplyBlock(v, b) ==
  /\ b.num = LastBlock(v).num + 1
  /\ b.prev = LastBlock(v).hash
  /\ Distinct(b.events)
  /\ Elements(b.events) \subseteq Elements(v.minipool)

\* The members of s that are not in S, in the order of s.  When they are all behind the
\* others, as in a minipool of which a block has taken the first events, they are its end.
Without(s, S) ==
  LET kept == {i \in DOMAIN s : s[i] \notin S}
      taken(m) == kept = (m+1)..Len(s)
  IN  IF \E m \in 0..Len(s) : taken(m)
      THEN SubSeq(s, (CHOOSE m \in 0..Len(s) : taken(m)) + 1, Len(s))
      ELSE SelectSeq(s, LAMBDA e : e \notin S)

IntMax(a, b) == IF a >= b THEN a ELSE b

\* Slip: events added since the proposal are dropped with the old minipool.
copyAndApplyBlock_DropsMinipool(v, b) ==
  [blocks |-> Append(v.blocks, b),
   minipool |-> << >>,
   generation |-> b.num + 1,
   snapshot |-> IF b.isSnapshot THEN b.snapshot ELSE v.snapshot,
   snapshotIndex |-> IF b.isSnapshot THEN Len(v.blocks) + 1 ELSE v.snapshotIndex]

\* Slip: the index of the new snapshot ignores the blocks that were trimmed.
copyAndApplyBlock_Untrimmed(v, b) ==
  LET startIndex == IF b.isSnapshot
                    THEN IntMax(0, Len(v.blocks) - Generations) ELSE 0
  IN  [blocks |-> Append(SubSeq(v.blocks, startIndex + 1, Len(v.blocks)), b),
       minipool |-> Without(v.minipool, Elements(b.events)),
       generation |-> b.num + 1,
       snapshot |-> IF b.isSnapshot THEN b.snapshot ELSE v.snapshot,
       snapshotIndex |-> IF b.isSnapshot
                         THEN Len(v.blocks) + 1 ELSE v.snapshotIndex]

\* A block with a snapshot trims the blocks to the last Generations ones.
copyAndApplyBlock(v, b) ==
  LET startIndex == IF b.isSnapshot
                    THEN IntMax(0, Len(v.blocks) - Generations) ELSE 0
  IN  [blocks |-> Append(SubSeq(v.blocks, startIndex + 1, Len(v.blocks)), b),
       minipool |-> Without(v.minipool, Elements(b.events)),
       generation |-> b.num + 1,
       snapshot |-> IF b.isSnapshot THEN b.snapshot ELSE v.snapshot,
       snapshotIndex |-> IF b.isSnapshot
                         THEN Len(v.blocks) - startIndex + 1
                         ELSE v.snapshotIndex]

(***************************************************************************)
(* Validation of a new event e that refers to the miniblock with hash      *)
(* prevHash.  Whether a block that is not the last one is recent depends   *)
(* on the clock (isRecentBlock): both outcomes are allowed, and a          *)
(* rejection changes nothing.                                              *)
(***************************************************************************)
\* Slip: the block right after the one referred to is not searched.
ValidateNextEvent_SkipsBlock(v, e, prevHash) ==
  \E found \in DOMAIN v.blocks :
    /\ v.blocks[found].hash = prevHash
    /\ \A i \in (found + 2)..Len(v.blocks) : e \notin Elements(v.blocks[i].events)
    /\ e \notin Elements(v.minipool)

ValidateNextEvent(v, e, prevHash) ==
  \E found \in DOMAIN v.blocks :
    /\ v.blocks[found].hash = prevHash
    /\ \A i \in (found + 1)..Len(v.blocks) : e \notin Elements(v.blocks[i].events)
    /\ e \notin Elements(v.minipool)

(***************************************************************************)
(* What a client receives.                                                 *)
(***************************************************************************)
SyncCookie(v) == [gen |-> v.generation, slot |-> Len(v.minipool)]

\* MiniblocksFromLastSnapshot and MinipoolEnvelopes, as the set of events a
\* client knows once it has them.
StreamContents(v) ==
  v.snapshot \cup EventsSinceSnapshot(v) \cup Elements(v.minipool)

\* indexOfMiniblockWithNum: the positions it may return (none: an error).
indexOfMiniblockWithNum(v, n) ==
  {i \in DOMAIN v.blocks : i = n - v.blocks[1].num + 1 /\ v.blocks[i].num = n}

\* forEachEvent from block i on, then the minipool from slot on.
EventsFrom(v, i) ==
  Elements(v.minipool)
    \cup UNION {Elements(v.blocks[k].events) : k \in i..Len(v.blocks)}

EventsFromSlot(v, slot) ==
  {v.minipool[k] : k \in (slot + 1)..Len(v.minipool)}
=============================================================================
