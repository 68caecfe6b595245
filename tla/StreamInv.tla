----------------------------- MODULE StreamInv -----------------------------
(***************************************************************************)
(* The inductive invariant behind the safety properties of StreamProps,    *)
(* for clients that never send the same event twice (Retries = "none").    *)
(***************************************************************************)
EXTENDS StreamProps

Height == Len(dbBlocks)

\* Before its storage exists nothing has happened to the stream.
InvAbsent ==
  dbBlocks = << >> =>
    /\ ~Loaded
    /\ producer = "idle"
    /\ pendingTx = << >>
    /\ dbMinipool = << >>
    /\ dbCandidates = {}
    /\ registry = IdOf(Genesis)

\* The rows of the stream agree with each other, and a header hash names one
\* candidate.
InvStorage ==
  /\ dbBlocks # << >> =>
       /\ dbGeneration = Height
       /\ dbSnapshot < Height
       /\ dbBlocks[dbSnapshot + 1].isSnapshot
  /\ \A i \in 1..Height : dbBlocks[i].num = i - 1
  /\ \A i \in 2..Height : dbBlocks[i].prev = dbBlocks[i-1].hash
  /\ \A c \in dbCandidates : c.hash < nextHash
  /\ \A c, d \in dbCandidates : c.hash = d.hash => c = d

\* The view shows the last block, or the one before it after a promotion that
\* it has not heard of.
Behind ==
  /\ ambiguous > 0
  /\ view.generation + 1 = Height
  /\ view.minipool = dbBlocks[Height].events \o dbMinipool

Current ==
  /\ view.generation = Height
  /\ StartsWith(dbMinipool, view.minipool)
  /\ Len(dbMinipool) <= Len(view.minipool) + 1
  /\ ambiguous = 0 => dbMinipool = view.minipool

InvView ==
  Loaded =>
    /\ view.blocks # << >>
    /\ view.generation \in 1..Height
    /\ LastBlock(view) = dbBlocks[view.generation]
    /\ Current \/ Behind

\* A proposal extends a stored block with events that the minipool starts with;
\* a block whose candidate has been stored extends the last stored block.
InvProducer ==
  producer # "idle" =>
    /\ work.num \in 1..Height
    /\ work.prev = dbBlocks[work.num].hash
    /\ work.num = Height =>
         /\ StartsWith(dbMinipool, work.events)
         /\ Loaded => view.generation = Height /\ StartsWith(view.minipool, work.events)
    /\ producer = "built" =>
         /\ work.hash < nextHash
         /\ \A c \in dbCandidates : c.hash # work.hash
    /\ producer \in {"stored", "submitted", "registered"} =>
         /\ work.num = Height
         /\ work \in dbCandidates

\* Whatever is on its way to the registry, or registered ahead of storage, is
\* the next block and a stored candidate; the producer's is the last of them.
InvRegistry ==
  /\ RegistryTracksStorage
  /\ \A i \in 1..Len(pendingTx) :
       /\ pendingTx[i].num = Height
       /\ \E c \in dbCandidates : IdOf(c) = pendingTx[i]
  /\ producer = "stored" =>
       \A i \in 1..Len(pendingTx) : pendingTx[i].hash # work.hash
  /\ producer = "submitted" =>
       /\ Len(pendingTx) > 0
       /\ pendingTx[Len(pendingTx)] = IdOf(work)
       /\ \A i \in 1..(Len(pendingTx) - 1) : pendingTx[i].hash # work.hash
  /\ producer = "registered" => pendingTx = << >> /\ registry = IdOf(work)

\* An event is stored once, and not while it is new or being added.
InvEvents ==
  /\ NoDuplicateEvents
  /\ \A e \in Event : prevHash[e] = -1 => e \notin StoredEvents
  /\ \A r \in Request : inflight[r] # NoEvent =>
       /\ prevHash[inflight[r]] # -1
       /\ inflight[r] \notin StoredEvents
       /\ \A q \in Request : inflight[q] = inflight[r] => q = r

\* An event behind the view's minipool has not been acknowledged.
InvAcked ==
  /\ AckedDurable
  /\ Loaded /\ view.generation = Height =>
       acked \subseteq BlockEvents(Height) \cup Elements(view.minipool)

\* The inductive invariant: storage, the view under the mutex of the stream, the
\* block the producer holds and the contract with its pending transactions agree
\* at every point between two steps of AddEvent, MakeMiniblock and ApplyMiniblock.
Inv ==
  /\ TypeOK
  /\ InvAbsent
  /\ InvStorage
  /\ InvView
  /\ InvProducer
  /\ InvRegistry
  /\ InvEvents
  /\ InvAcked

(***************************************************************************)
(* What readers see.  The second invariant is inductive relative to Inv:   *)
(* it says what the headers, the snapshots and the cookies hold.           *)
(***************************************************************************)

\* The last block with a snapshot among those up to p and including it.
LatestSnapshot(p) == IF p.isSnapshot THEN p.num ELSE p.prevSnapshot

\* The events of the first n blocks of bs.
EventsOf(bs, n) == UNION {Elements(bs[i].events) : i \in 1..n}

\* The header of b continues the one of entry i of bs, and its snapshot holds
\* the events of the blocks up to there and its own.
Follows(bs, b, i) ==
  /\ b.offset = bs[i].offset + Len(bs[i].events) + 1
  /\ b.prevSnapshot = LatestSnapshot(bs[i])
  /\ b.isSnapshot => b.snapshot = EventsOf(bs, i) \cup Elements(b.events)

\* Stored blocks are chained, and so is every block that may become the next.
InvChain ==
  /\ ChainIntegrity
  /\ dbBlocks # << >> => dbBlocks[1].isSnapshot
  /\ \A i \in 1..Height :
       dbBlocks[i].isSnapshot => dbBlocks[i].snapshot = EventsOf(dbBlocks, i)
  /\ \A c \in dbCandidates : c.num = Height /\ Follows(dbBlocks, c, Height)
  /\ producer = "built" => Follows(dbBlocks, work, work.num)

\* v holds the blocks of bs that end at its generation, the block of its
\* snapshot among them.
Window(v, bs) ==
  LET n == Len(v.blocks)
  IN  /\ n <= v.generation
      /\ v.generation <= Len(bs)
      /\ \A i \in 1..n : v.blocks[i] = bs[v.generation - n + i]
      /\ v.snapshotIndex <= n
      /\ v.blocks[v.snapshotIndex].isSnapshot
      /\ v.snapshot = v.blocks[v.snapshotIndex].snapshot

InvWindow == Loaded => Window(view, dbBlocks)

\* The slots of minipool m before the cookie's are known to client c.
KnowsSlots(c, m) ==
  cookie[c].slot <= Len(m) /\ \A k \in 1..cookie[c].slot : m[k] \in got[c]

\* A client knows all that its cookie covers, and nothing the node could lose.
InvClient(c) ==
  /\ got[c] \subseteq StoredEvents
  /\ cookie[c].gen <= Height
  /\ EventsOf(dbBlocks, cookie[c].gen) \subseteq got[c]
  /\ cookie[c].gen > 0 /\ cookie[c].gen = Height => KnowsSlots(c, dbMinipool)
  /\ Loaded =>
       /\ got[c] \subseteq VisibleEvents
       /\ cookie[c].gen <= view.generation
       /\ cookie[c].gen = view.generation => KnowsSlots(c, view.minipool)
  /\ c \in receivers =>
       /\ Loaded
       /\ got[c] = VisibleEvents
       /\ cookie[c] = SyncCookie(view)

ReaderInv ==
  /\ InvChain
  /\ InvWindow
  /\ \A c \in Client : InvClient(c)

(***************************************************************************)
(* What the refinement of StreamLog rests on: the offsets number all the   *)
(* events of the first n blocks of bs, each once and in order.             *)
(***************************************************************************)
Numbered(bs) ==
  /\ bs # << >> => EventsBefore(bs, 1) = 0
  /\ \A i \in 1..Len(bs) : EventsBefore(bs, i) \in Nat
  /\ \A i \in 2..Len(bs) : EventsBefore(bs, i) = EventCount(bs, i - 1)
  /\ \A i, j \in 1..Len(bs) : i < j => EventCount(bs, i) <= EventsBefore(bs, j)
  /\ \A n \in 1..Len(bs) : \A j \in 1..EventCount(bs, n) :
       \E i \in 1..n : \E k \in DOMAIN bs[i].events : EventsBefore(bs, i) + k = j

InvNumbers == Numbered(dbBlocks)
=============================================================================
