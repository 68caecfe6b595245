------------------------- MODULE StreamChainProofs -------------------------
(***************************************************************************)
(* The chain of headers, the snapshots, the window of blocks that a view   *)
(* keeps, and the log that the offsets of the headers number: what the     *)
(* steps of the stream do to them, relative to Inv.                        *)
(***************************************************************************)
EXTENDS StreamProofs

\* The events of entries m to n of bs.
EventsBetween(bs, m, n) == UNION {Elements(bs[i].events) : i \in m..n}

(***************************************************************************)
(* Sequences of blocks.                                                    *)
(***************************************************************************)

LEMMA EventsOfSplit ==
  ASSUME NEW bs \in Seq(Miniblock), NEW m \in Nat, NEW n \in Nat, m <= n
  PROVE  EventsOf(bs, n) = EventsOf(bs, m) \cup EventsBetween(bs, m + 1, n)
<1>1. \A i : i \in 1..n <=> i \in 1..m \/ i \in (m+1)..n
  OBVIOUS
<1> QED
  BY Zenon, <1>1 DEF EventsOf, EventsBetween

LEMMA EventsOfAppend ==
  ASSUME NEW bs \in Seq(Miniblock), NEW b \in Miniblock
  PROVE  /\ \A n \in 0..Len(bs) : EventsOf(Append(bs, b), n) = EventsOf(bs, n)
         /\ EventsOf(Append(bs, b), Len(bs) + 1)
              = EventsOf(bs, Len(bs)) \cup Elements(b.events)
<1> DEFINE cs == Append(bs, b)
           k == Len(bs)
<1>1. /\ k \in Nat
      /\ \A i \in 1..k : cs[i] = bs[i]
      /\ cs[k + 1] = b
  OBVIOUS
<1> HIDE DEF cs, k
<1>2. ASSUME NEW n \in 0..k PROVE EventsOf(cs, n) = EventsOf(bs, n)
  <2>1. \A i \in 1..n : cs[i] = bs[i]
    BY <1>1
  <2> QED
    BY Zenon, <2>1 DEF EventsOf
<1>3. EventsOf(cs, k + 1) = EventsOf(bs, k) \cup Elements(b.events)
  <2>1. \A i : i \in 1..(k+1) <=> i \in 1..k \/ i = k + 1
    BY <1>1
  <2>2. EventsOf(cs, k + 1) = EventsOf(cs, k) \cup Elements(cs[k + 1].events)
    BY Zenon, <2>1 DEF EventsOf
  <2>3. EventsOf(cs, k) = EventsOf(bs, k)
    BY <1>1, <1>2
  <2> QED
    BY Zenon, <1>1, <2>2, <2>3
<1> QED
  BY Zenon, <1>2, <1>3 DEF cs, k

\* The events of the blocks a view keeps from position j + 1 on are those that
\* the blocks before them lack.
LEMMA WindowEvents ==
  ASSUME NEW v \in View, NEW bs \in Seq(Miniblock), Window(v, bs),
         NEW j \in 0..Len(v.blocks)
  PROVE  EventsBetween(v.blocks, j + 1, Len(v.blocks))
           = EventsBetween(bs, v.generation - Len(v.blocks) + j + 1, v.generation)
<1> DEFINE n == Len(v.blocks)
           g == v.generation
<1>1. /\ n \in Nat /\ g \in Nat /\ n <= g /\ j \in 0..n
      /\ \A i \in 1..n : v.blocks[i] = bs[g - n + i]
  <2>1. v.blocks \in Seq(Miniblock) /\ v.generation \in Nat
    BY Zenon, ViewFields
  <2> QED
    BY <2>1 DEF Window
<1> HIDE DEF n, g
<1>2. \A i \in (j+1)..n : g - n + i \in (g - n + j + 1)..g /\ v.blocks[i] = bs[g - n + i]
  BY <1>1
<1>3. ASSUME NEW k \in (g - n + j + 1)..g
      PROVE  k - g + n \in (j+1)..n /\ v.blocks[k - g + n] = bs[k]
  <2>1. k - g + n \in (j+1)..n /\ k - g + n \in 1..n /\ g - n + (k - g + n) = k
    BY <1>1
  <2> QED
    BY Zenon, <1>1, <2>1
<1> QED
  BY ZenonT(30), <1>2, <1>3 DEF EventsBetween, n, g

\* A view that keeps the block of its snapshot has all events up to its
\* generation in the snapshot and the blocks after it.
LEMMA SnapshotWindow ==
  ASSUME NEW v \in View, NEW bs \in Seq(Miniblock), Window(v, bs),
         \A i \in 1..Len(bs) : bs[i].isSnapshot => bs[i].snapshot = EventsOf(bs, i)
  PROVE  LET p == v.generation - Len(v.blocks) + v.snapshotIndex
         IN  /\ p \in 1..v.generation
             /\ v.snapshot = EventsOf(bs, p)
             /\ EventsSinceSnapshot(v) = EventsBetween(bs, p + 1, v.generation)
             /\ v.snapshot \cup EventsSinceSnapshot(v) = EventsOf(bs, v.generation)
<1> DEFINE n == Len(v.blocks)
           g == v.generation
           x == v.snapshotIndex
           p == g - n + x
<1>1. v.blocks \in Seq(Miniblock) /\ g \in Nat /\ x \in Nat \ {0}
  BY Zenon, ViewFields
<1>2. /\ n \in Nat /\ n <= g /\ g <= Len(bs) /\ x \in 1..n /\ x \in 0..n
      /\ p \in 1..g /\ p \in 1..Len(bs) /\ p \in Nat /\ p <= g
      /\ v.blocks[x] = bs[p]
  BY SMTT(30), Z3T(30), <1>1 DEF Window
<1>3. v.snapshot = EventsOf(bs, p)
  BY Zenon, <1>2 DEF Window
<1>4. EventsSinceSnapshot(v) = EventsBetween(v.blocks, x + 1, n)
  BY Zenon DEF EventsSinceSnapshot, EventsBetween
<1>5. EventsBetween(v.blocks, x + 1, n) = EventsBetween(bs, p + 1, g)
  BY Zenon, <1>2, WindowEvents
<1>6. EventsOf(bs, g) = EventsOf(bs, p) \cup EventsBetween(bs, p + 1, g)
  <2>1. g \in Nat /\ p \in Nat /\ p <= g
    BY Zenon, <1>1, <1>2
  <2> HIDE DEF p, g
  <2> QED
    BY ZenonT(30), <2>1, EventsOfSplit
<1> QED
  BY Zenon, <1>2, <1>3, <1>4, <1>5, <1>6

(***************************************************************************)
(* What the invariants say of a loaded view.                               *)
(***************************************************************************)
LEMMA LoadedFacts ==
  ASSUME Inv, InvChain, InvWindow, Loaded
  PROVE  /\ view \in View /\ dbBlocks \in Seq(Miniblock)
         /\ Height \in Nat \ {0} /\ Height = Len(dbBlocks)
         /\ view.generation \in 1..Height
         /\ Window(view, dbBlocks)
         /\ view.snapshot \cup EventsSinceSnapshot(view) = BlockEvents(view.generation)
         /\ view.snapshot \cap EventsSinceSnapshot(view) = {}
         /\ StreamContents(view) = VisibleEvents
<1> DEFINE g == view.generation
           p == g - Len(view.blocks) + view.snapshotIndex
<1>1. /\ view \in View /\ dbBlocks \in Seq(Miniblock) /\ dbBlocks # << >>
      /\ g \in 1..Height
  BY Zenon DEF Inv, TypeOK, StorageTypeOK, Loaded, InvAbsent, InvView
<1>2. Height \in Nat \ {0} /\ Height = Len(dbBlocks) /\ DOMAIN dbBlocks = 1..Height
  BY <1>1 DEF Height
<1>3. Window(view, dbBlocks)
  BY Zenon DEF InvWindow
<1>5. \A i \in 1..Len(dbBlocks) :
        dbBlocks[i].isSnapshot => dbBlocks[i].snapshot = EventsOf(dbBlocks, i)
  BY Zenon, <1>2 DEF InvChain
<1>6. /\ p \in 1..g
      /\ view.snapshot = EventsOf(dbBlocks, p)
      /\ EventsSinceSnapshot(view) = EventsBetween(dbBlocks, p + 1, g)
      /\ view.snapshot \cup EventsSinceSnapshot(view) = EventsOf(dbBlocks, g)
  BY Zenon, <1>1, <1>3, <1>5, SnapshotWindow
<1>7. EventsOf(dbBlocks, g) = BlockEvents(g)
  BY Zenon DEF EventsOf, BlockEvents
<1>8. view.snapshot \cap EventsSinceSnapshot(view) = {}
  <2> SUFFICES ASSUME NEW e \in EventsOf(dbBlocks, p),
                      e \in EventsBetween(dbBlocks, p + 1, g)
               PROVE  FALSE
    BY Zenon, <1>6
  <2> HIDE DEF p, g
  <2>1. PICK i \in 1..p : e \in Elements(dbBlocks[i].events)
    BY Zenon DEF EventsOf
  <2>2. PICK j \in (p+1)..g : e \in Elements(dbBlocks[j].events)
    BY Zenon DEF EventsBetween
  <2>3. i \in 1..Height /\ j \in 1..Height /\ i # j
    BY <1>1, <1>2, <1>6
  <2> QED
    BY Zenon, <1>2, <2>1, <2>2, <2>3 DEF Inv, InvEvents, NoDuplicateEvents
<1>9. StreamContents(view) = VisibleEvents
  BY Zenon, <1>6, <1>7 DEF StreamContents, VisibleEvents
<1> QED
  BY Zenon, <1>1, <1>2, <1>3, <1>6, <1>7, <1>8, <1>9

(***************************************************************************)
(* The chain of headers.                                                   *)
(***************************************************************************)

LEMMA SameChain ==
  ASSUME InvChain, UNCHANGED dbVars,
         producer' = "built" => producer = "built" /\ work' = work
  PROVE  InvChain'
<1>1. /\ dbBlocks' = dbBlocks /\ dbSnapshot' = dbSnapshot
      /\ dbCandidates' = dbCandidates
  BY Zenon DEF dbVars
<1>2. ChainIntegrity'
  BY Zenon, <1>1 DEF InvChain, ChainIntegrity
<1>3. /\ Height' = Height
      /\ dbBlocks' # << >> => dbBlocks'[1].isSnapshot
  BY Zenon, <1>1 DEF InvChain, Height
<1>4. \A i \in 1..Height' :
        dbBlocks'[i].isSnapshot => dbBlocks'[i].snapshot = EventsOf(dbBlocks', i)
  BY Zenon, <1>1, <1>3 DEF InvChain
<1>5. \A c \in dbCandidates' : c.num = Height' /\ Follows(dbBlocks, c, Height)'
  BY Zenon, <1>1, <1>3 DEF InvChain
<1>6. producer' = "built" => Follows(dbBlocks, work, work.num)'
  BY Zenon, <1>1 DEF InvChain
<1> QED
  BY Zenon, <1>2, <1>3, <1>4, <1>5, <1>6 DEF InvChain

\* makeMiniblockHeader continues the last header of the view, and folds the
\* events since the view's snapshot into the next one.
LEMMA HeaderChain ==
  ASSUME Inv, InvChain, InvWindow, MakeMiniblockHeader
  PROVE  InvChain'
<1>1. UNCHANGED dbVars
  BY Zenon DEF MakeMiniblockHeader
<1>2. CASE ~(Loaded /\ CanMakeMiniblockHeader(view, work))
  <2>1. producer' = "idle"
    BY Zenon, <1>2 DEF MakeMiniblockHeader, ProducerReturns
  <2> QED
    BY Zenon, <1>1, <2>1, SameChain
<1>3. CASE Loaded /\ CanMakeMiniblockHeader(view, work)
  <2> DEFINE g == view.generation
             last == LastBlock(view)
  <2>1. /\ work' = makeMiniblockHeader(view, work, nextHash)
        /\ dbBlocks' = dbBlocks /\ dbSnapshot' = dbSnapshot
        /\ dbCandidates' = dbCandidates
    BY Zenon, <1>1, <1>3 DEF MakeMiniblockHeader, dbVars
  <2>2. /\ g \in 1..Height /\ Height \in Nat
        /\ view.snapshot \cup EventsSinceSnapshot(view) = BlockEvents(g)
    BY Zenon, <1>3, LoadedFacts
  <2>3. last = dbBlocks[g]
    BY Zenon, <1>3 DEF Inv, InvView
  <2>4. last.num = g - 1
    BY Zenon, <2>2, <2>3 DEF Inv, InvStorage
  <2>5. /\ work'.num = last.num + 1
        /\ work'.offset = last.offset + Len(last.events) + 1
        /\ work'.prevSnapshot = LatestSnapshot(last)
        /\ work'.isSnapshot => work'.snapshot = BlockEvents(g) \cup Elements(work'.events)
    <3>1. /\ work'.num = last.num + 1
          /\ work'.offset = last.offset + Len(last.events) + 1
          /\ work'.isSnapshot = work.isSnapshot
          /\ work'.events = work.events
          /\ work'.prevSnapshot = IF last.isSnapshot THEN last.num ELSE last.prevSnapshot
          /\ work'.snapshot = IF work.isSnapshot
                              THEN view.snapshot \cup EventsSinceSnapshot(view)
                                     \cup Elements(work.events)
                              ELSE {}
      BY Zenon, <2>1 DEF makeMiniblockHeader
    <3> QED
      BY Zenon, <2>2, <3>1 DEF LatestSnapshot
  <2>6. work'.num = g
    BY <2>2, <2>4, <2>5
  <2>7. Follows(dbBlocks, work, work.num)'
    BY ZenonT(30), <2>1, <2>3, <2>5, <2>6 DEF Follows, EventsOf, BlockEvents
  <2>8. ChainIntegrity'
    BY Zenon, <2>1 DEF InvChain, ChainIntegrity
  <2>9. /\ Height' = Height
        /\ dbBlocks' # << >> => dbBlocks'[1].isSnapshot
    BY Zenon, <2>1 DEF InvChain, Height
  <2>10. \A i \in 1..Height' :
           dbBlocks'[i].isSnapshot => dbBlocks'[i].snapshot = EventsOf(dbBlocks', i)
    BY Zenon, <2>1, <2>9 DEF InvChain
  <2>11. \A c \in dbCandidates' : c.num = Height' /\ Follows(dbBlocks, c, Height)'
    BY Zenon, <2>1, <2>9 DEF InvChain
  <2> QED
    BY Zenon, <2>7, <2>8, <2>9, <2>10, <2>11 DEF InvChain
<1> QED
  BY Zenon, <1>2, <1>3

\* A candidate is stored only for the next block.
LEMMA CandidateChain ==
  ASSUME Inv, InvChain, StoreMiniblockCandidate
  PROVE  InvChain'
<1>1. CASE ~CanWriteBlockProposal(work.num)
  <2>1. UNCHANGED dbVars /\ producer' = "idle"
    BY Zenon, <1>1 DEF StoreMiniblockCandidate, ProducerReturns
  <2> QED
    BY Zenon, <2>1, SameChain
<1>2. CASE CanWriteBlockProposal(work.num)
  <2>1. /\ producer = "built" /\ producer' = "stored"
        /\ dbCandidates' = dbCandidates \cup {work}
        /\ dbBlocks' = dbBlocks /\ dbSnapshot' = dbSnapshot
    BY Zenon, <1>2 DEF StoreMiniblockCandidate, WriteBlockProposal
  <2>2. /\ work.num \in 1..Height /\ dbBlocks # << >> /\ work.num >= NextSeqNum
        /\ dbBlocks \in Seq(Miniblock)
    BY Zenon, <1>2, <2>1 DEF CanWriteBlockProposal, Inv, InvProducer, TypeOK, StorageTypeOK
  <2>3. Height \in Nat \ {0} /\ Height = Len(dbBlocks)
    BY <2>2 DEF Height
  <2>4. dbBlocks[Height].num = Height - 1
    BY <2>3 DEF Inv, InvStorage
  <2>5. work.num = Height
    BY <2>2, <2>3, <2>4 DEF NextSeqNum
  <2>6. Follows(dbBlocks, work, Height)
    BY Zenon, <2>1, <2>5 DEF InvChain
  <2>7. Height' = Height
    BY Zenon, <2>1 DEF Height
  <2>8. \A c \in dbCandidates' : c.num = Height' /\ Follows(dbBlocks, c, Height)'
    <3>1. \A c \in dbCandidates' : c.num = Height /\ Follows(dbBlocks, c, Height)
      BY Zenon, <2>1, <2>5, <2>6 DEF InvChain
    <3> QED
      BY Zenon, <2>1, <2>7, <3>1
  <2>9. ChainIntegrity'
    BY Zenon, <2>1 DEF InvChain, ChainIntegrity
  <2>10. \A i \in 1..Height' :
           dbBlocks'[i].isSnapshot => dbBlocks'[i].snapshot = EventsOf(dbBlocks', i)
    BY Zenon, <2>1, <2>7 DEF InvChain
  <2> QED
    BY Zenon, <2>1, <2>8, <2>9, <2>10 DEF InvChain
<1> QED
  BY Zenon, <1>1, <1>2

\* The rows that Promote leaves, and the view that copyAndApplyBlock makes.
LEMMA PromotedRows ==
  ASSUME Inv, producer = "registered", Loaded, Promote
  PROVE  /\ work \in dbCandidates /\ work \in Miniblock /\ work.num = Height
         /\ view \in View /\ view.generation = Height
         /\ dbBlocks \in Seq(Miniblock) /\ Height \in Nat \ {0}
         /\ dbBlocks' = Append(dbBlocks, work)
         /\ Height' = Height + 1
         /\ dbBlocks' \in Seq(Miniblock) /\ Len(dbBlocks') = Height + 1
         /\ \A i \in 1..Height : dbBlocks'[i] = dbBlocks[i]
         /\ dbBlocks'[Height + 1] = work
         /\ dbSnapshot' = IF work.isSnapshot THEN Height ELSE dbSnapshot
         /\ dbCandidates' = {c \in dbCandidates : c.num > Height}
         /\ dbMinipool' = copyAndApplyBlock(view, work).minipool
         /\ dbMinipool' \in Seq(Event)
         /\ view.minipool = work.events \o dbMinipool'
<1> DEFINE rest == Without(view.minipool, Elements(work.events))
<1>1. /\ view \in View /\ work \in Miniblock /\ dbBlocks \in Seq(Miniblock)
      /\ Height \in Nat \ {0} /\ work.num = Height /\ work \in dbCandidates
      /\ view.generation = Height /\ view.blocks # << >>
      /\ StartsWith(view.minipool, work.events) /\ Distinct(view.minipool)
  BY Zenon, RegisteredFacts
<1>2. /\ copyAndApplyBlock(view, work).minipool = rest /\ rest \in Seq(Event)
      /\ view.minipool = work.events \o rest
  BY Zenon, <1>1, ViewApplyBlock
<1>3. CandidatesFor(Height, work.hash) = {work}
  BY Zenon, <1>1 DEF CandidatesFor, Inv, InvStorage
<1>4. /\ dbBlocks' = Append(dbBlocks, work)
      /\ dbSnapshot' = IF work.isSnapshot THEN Height ELSE dbSnapshot
      /\ dbCandidates' = {c \in dbCandidates : c.num > Height}
      /\ dbMinipool' = copyAndApplyBlock(view, work).minipool
  BY Zenon, <1>1, <1>3 DEF Promote, PromoteBlock
<1>5. /\ Height' = Height + 1
      /\ dbBlocks' \in Seq(Miniblock) /\ Len(dbBlocks') = Height + 1
      /\ \A i \in 1..Height : dbBlocks'[i] = dbBlocks[i]
      /\ dbBlocks'[Height + 1] = work
  BY <1>1, <1>4 DEF Height
<1> QED
  BY Zenon, <1>1, <1>2, <1>4, <1>5

\* The promoted block is linked to the last one, and no candidate is left.
LEMMA PromoteChain ==
  ASSUME Inv, InvChain, producer = "registered", Loaded, Promote, ProducerReturns
  PROVE  InvChain'
<1> DEFINE n == Height
           bs == dbBlocks'
<1>1. /\ work \in dbCandidates /\ work \in Miniblock /\ work.num = n
      /\ dbBlocks \in Seq(Miniblock) /\ n \in Nat \ {0}
      /\ bs = Append(dbBlocks, work)
      /\ Height' = n + 1
      /\ bs \in Seq(Miniblock) /\ Len(bs) = n + 1
      /\ \A i \in 1..n : bs[i] = dbBlocks[i]
      /\ bs[n + 1] = work
      /\ dbSnapshot' = IF work.isSnapshot THEN n ELSE dbSnapshot
      /\ dbCandidates' = {c \in dbCandidates : c.num > n}
  BY Zenon, PromotedRows
<1>2. n = Len(dbBlocks) /\ DOMAIN dbBlocks = 1..n /\ DOMAIN bs = 1..(n + 1)
  BY <1>1 DEF Height
<1>3. /\ work.offset = dbBlocks[n].offset + Len(dbBlocks[n].events) + 1
      /\ work.prevSnapshot = LatestSnapshot(dbBlocks[n])
      /\ work.isSnapshot => work.snapshot = EventsOf(dbBlocks, n) \cup Elements(work.events)
      /\ work.prev = dbBlocks[n].hash
  BY Zenon, <1>1 DEF InvChain, Follows, Inv, InvProducer
<1>4. /\ ChainIntegrity
      /\ \A i \in 1..n : dbBlocks[i].num = i - 1
      /\ dbSnapshot \in Nat /\ dbSnapshot < n
      /\ \A i \in 1..n : dbBlocks[i] \in Miniblock /\ dbBlocks[i].prevSnapshot \in Nat
  <2>1. \A i \in 1..n : dbBlocks[i] \in Miniblock
    BY <1>1, <1>2
  <2>2. \A i \in 1..n : dbBlocks[i].prevSnapshot \in Nat
    BY Zenon, <2>1, MiniblockFields
  <2>3. dbBlocks # << >>
    BY Zenon, <1>1, <1>2
  <2> QED
    BY Zenon, <1>1, <2>1, <2>2, <2>3
       DEF InvChain, Inv, InvStorage, TypeOK, StorageTypeOK
<1> HIDE DEF n, bs
<1>5. \A i \in 2..n :
        /\ dbBlocks[i].prev = dbBlocks[i-1].hash
        /\ dbBlocks[i].offset = dbBlocks[i-1].offset + Len(dbBlocks[i-1].events) + 1
        /\ dbBlocks[i].prevSnapshot < dbBlocks[i].num
        /\ dbBlocks[dbBlocks[i].prevSnapshot + 1].isSnapshot
        /\ \A k \in (dbBlocks[i].prevSnapshot + 2)..(i-1) : ~dbBlocks[k].isSnapshot
  BY Zenon, <1>2, <1>4 DEF ChainIntegrity
<1>6. /\ dbBlocks[1].isSnapshot
      /\ dbBlocks[dbSnapshot + 1].isSnapshot
      /\ \A k \in (dbSnapshot + 2)..n : ~dbBlocks[k].isSnapshot
  <2>1. dbBlocks # << >>
    BY Zenon, <1>1, <1>2
  <2> QED
    BY Zenon, <1>2, <1>4, <2>1 DEF ChainIntegrity, InvChain
<1>7. /\ work.prevSnapshot \in 0..(n-1)
      /\ dbBlocks[work.prevSnapshot + 1].isSnapshot
      /\ \A k \in (work.prevSnapshot + 2)..n : ~dbBlocks[k].isSnapshot
  <2>1. CASE dbBlocks[n].isSnapshot
    <3>1. work.prevSnapshot = n - 1
      BY <1>1, <1>3, <1>4, <2>1 DEF LatestSnapshot
    <3> QED
      BY <1>1, <2>1, <3>1
  <2>2. CASE ~dbBlocks[n].isSnapshot
    <3>1. n \in 2..n
      BY <1>1, <1>6, <2>2
    <3>2. work.prevSnapshot = dbBlocks[n].prevSnapshot
      BY Zenon, <1>3, <2>2 DEF LatestSnapshot
    <3>3. /\ dbBlocks[n].prevSnapshot < dbBlocks[n].num
          /\ dbBlocks[dbBlocks[n].prevSnapshot + 1].isSnapshot
          /\ \A k \in (dbBlocks[n].prevSnapshot + 2)..(n-1) : ~dbBlocks[k].isSnapshot
      BY Zenon, <1>5, <3>1
    <3>4. n \in 1..n /\ dbBlocks[n].num = n - 1 /\ dbBlocks[n].prevSnapshot \in Nat
      BY <1>1, <1>4
    <3> QED
      BY <1>1, <2>2, <3>2, <3>3, <3>4
  <2> QED
    BY Zenon, <2>1, <2>2
<1>8. ChainIntegrity'
  <2>1. \A i \in 1..(n + 1) : bs[i].num = i - 1
    BY <1>1, <1>4
  <2>2. ASSUME NEW i \in 2..(n + 1)
        PROVE  /\ bs[i].prev = bs[i-1].hash
               /\ bs[i].offset = bs[i-1].offset + Len(bs[i-1].events) + 1
               /\ bs[i].prevSnapshot < bs[i].num
               /\ bs[bs[i].prevSnapshot + 1].isSnapshot
               /\ \A k \in (bs[i].prevSnapshot + 2)..(i-1) : ~bs[k].isSnapshot
    <3>1. CASE i \in 2..n
      <4>1. /\ i \in 1..n /\ i - 1 \in 1..n /\ bs[i] = dbBlocks[i] /\ bs[i-1] = dbBlocks[i-1]
        BY <1>1, <3>1
      <4>2. dbBlocks[i].prevSnapshot \in Nat /\ dbBlocks[i].num = i - 1
        BY Zenon, <1>4, <4>1
      <4>3. dbBlocks[i].prevSnapshot + 1 \in 1..n
        BY SMTT(30), Z3T(30), <1>1, <1>5, <3>1, <4>2
      <4>4. \A k \in (dbBlocks[i].prevSnapshot + 2)..(i-1) : k \in 1..n
        BY SMTT(30), Z3T(30), <1>1, <3>1, <4>2
      <4>5. \A k \in (dbBlocks[i].prevSnapshot + 2)..(i-1) : ~bs[k].isSnapshot
        BY Zenon, <1>1, <1>5, <3>1, <4>4
      <4>6. bs[dbBlocks[i].prevSnapshot + 1].isSnapshot
        BY Zenon, <1>1, <1>5, <3>1, <4>3
      <4>7. /\ dbBlocks[i].prev = dbBlocks[i-1].hash
            /\ dbBlocks[i].offset = dbBlocks[i-1].offset + Len(dbBlocks[i-1].events) + 1
            /\ dbBlocks[i].prevSnapshot < dbBlocks[i].num
        BY Zenon, <1>5, <3>1
      <4> QED
        BY Zenon, <4>1, <4>5, <4>6, <4>7
    <3>2. CASE i = n + 1
      <4>1. /\ bs[i] = work /\ i - 1 = n /\ n \in 1..n /\ bs[n] = dbBlocks[n]
            /\ work.prevSnapshot + 1 \in 1..n /\ work.prevSnapshot < n
            /\ \A k \in (work.prevSnapshot + 2)..n : k \in 1..n
        BY SMTT(30), <1>1, <1>7, <3>2
      <4>2. \A k \in (work.prevSnapshot + 2)..n : ~bs[k].isSnapshot
        BY Zenon, <1>1, <1>7, <4>1
      <4>3. bs[work.prevSnapshot + 1].isSnapshot
        BY Zenon, <1>1, <1>7, <4>1
      <4>4. work.prevSnapshot < work.num
        BY Zenon, <1>1, <4>1
      <4> QED
        BY Zenon, <1>3, <4>1, <4>2, <4>3, <4>4
    <3>3. i \in 2..n \/ i = n + 1
      BY <1>1
    <3> QED
      BY Zenon, <3>1, <3>2, <3>3
  <2>3. /\ bs[dbSnapshot' + 1].isSnapshot
        /\ \A k \in (dbSnapshot' + 2)..(n + 1) : ~bs[k].isSnapshot
    <3>1. CASE work.isSnapshot
      BY <1>1, <3>1
    <3>2. CASE ~work.isSnapshot
      BY SMTT(30), Z3T(30), <1>1, <1>4, <1>6, <3>2
    <3> QED
      BY Zenon, <3>1, <3>2
  <2> QED
    BY Zenon, <1>1, <1>2, <2>1, <2>2, <2>3 DEF ChainIntegrity, bs
<1>9. bs # << >> => bs[1].isSnapshot
  BY <1>1, <1>6
<1>10. \A i \in 1..(n + 1) : bs[i].isSnapshot => bs[i].snapshot = EventsOf(bs, i)
  <2>1. /\ \A i \in 0..n : EventsOf(bs, i) = EventsOf(dbBlocks, i)
        /\ EventsOf(bs, n + 1) = EventsOf(dbBlocks, n) \cup Elements(work.events)
    <3>1. /\ \A i \in 0..Len(dbBlocks) :
               EventsOf(Append(dbBlocks, work), i) = EventsOf(dbBlocks, i)
          /\ EventsOf(Append(dbBlocks, work), Len(dbBlocks) + 1)
               = EventsOf(dbBlocks, Len(dbBlocks)) \cup Elements(work.events)
      BY Zenon, <1>1, EventsOfAppend
    <3> QED
      BY Zenon, <1>1, <1>2, <3>1
  <2>2. \A i \in 1..n : dbBlocks[i].isSnapshot => dbBlocks[i].snapshot = EventsOf(dbBlocks, i)
    BY Zenon DEF InvChain, n
  <2>3. \A i \in 1..(n+1) : (i \in 1..n /\ i \in 0..n) \/ i = n + 1
    BY <1>1
  <2> QED
    BY ZenonT(30), <1>1, <1>3, <2>1, <2>2, <2>3
<1>11. dbCandidates' = {}
  <2>1. \A c \in dbCandidates : c.num = n
    BY Zenon DEF InvChain, n
  <2> QED
    BY <1>1, <2>1
<1>12. producer' = "idle"
  BY Zenon DEF ProducerReturns
<1> QED
  BY Zenon, <1>1, <1>8, <1>9, <1>10, <1>11, <1>12 DEF InvChain, bs

\* The first block is the snapshot that the chain starts with.
LEMMA CreateChain ==
  ASSUME Inv, CanCreateStreamStorage, CreateStreamStorage(Genesis),
         UNCHANGED <<producer, work>>
  PROVE  InvChain'
<1>1. /\ dbBlocks' = <<Genesis>> /\ dbSnapshot' = 0
      /\ dbCandidates' = {} /\ producer' = "idle"
  BY Zenon DEF CanCreateStreamStorage, CreateStreamStorage, Inv, InvAbsent
<1>2. /\ Genesis.num = 0 /\ Genesis.isSnapshot /\ Genesis.snapshot = {}
      /\ Genesis.events = << >> /\ Genesis \in Miniblock
  BY Zenon, GenesisFacts
<1>3. /\ Height' = 1 /\ Len(dbBlocks') = 1 /\ DOMAIN dbBlocks' = 1..1
      /\ dbBlocks'[1] = Genesis
  BY <1>1 DEF Height
<1>4. ChainIntegrity'
  <2>1. \A i \in DOMAIN dbBlocks' : dbBlocks'[i].num = i - 1
    BY <1>2, <1>3
  <2>2. 2..Len(dbBlocks') = {} /\ dbSnapshot' + 1 = 1
        /\ (dbSnapshot' + 2)..Len(dbBlocks') = {}
    BY <1>1, <1>3
  <2> QED
    BY Zenon, <1>2, <1>3, <2>1, <2>2 DEF ChainIntegrity
<1>5. EventsOf(dbBlocks', 1) = {}
  <2>1. Elements(dbBlocks'[1].events) = {}
    BY <1>2, <1>3 DEF Elements
  <2>2. \A i \in 1..1 : i = 1
    OBVIOUS
  <2> QED
    BY Zenon, <2>1, <2>2 DEF EventsOf
<1>6. \A i \in 1..Height' :
        dbBlocks'[i].isSnapshot => dbBlocks'[i].snapshot = EventsOf(dbBlocks', i)
  <2>1. \A i \in 1..Height' : i = 1
    BY <1>3
  <2> QED
    BY Zenon, <1>2, <1>3, <1>5, <2>1
<1> QED
  BY Zenon, <1>1, <1>2, <1>3, <1>4, <1>6 DEF InvChain

(***************************************************************************)
(* The window of a view.                                                   *)
(***************************************************************************)

\* MakeStreamView of the blocks from the latest snapshot on.
LEMMA LoadWindow ==
  ASSUME NEW bs \in Seq(Miniblock), NEW s \in 0..(Len(bs) - 1),
         NEW es \in Seq(Event), bs[s + 1].isSnapshot,
         \A i \in 1..Len(bs) : bs[i].num = i - 1
  PROVE  LET v == MakeStreamView(SubSeq(bs, s + 1, Len(bs)), es)
         IN  v \in View /\ v.generation = Len(bs) /\ v.minipool = es /\ Window(v, bs)
<1> DEFINE cs == SubSeq(bs, s + 1, Len(bs))
           m == Len(bs)
           ok(i) == /\ cs[i].isSnapshot
                    /\ \A j \in 1..(i-1) : ~cs[j].isSnapshot
           first == CHOOSE i \in DOMAIN cs : ok(i)
           v == MakeStreamView(cs, es)
<1>0. m \in Nat \ {0} /\ s \in Nat /\ m - s \in Nat \ {0}
  OBVIOUS
<1>1. /\ cs \in Seq(Miniblock) /\ Len(cs) = m - s
      /\ DOMAIN cs = 1..(m - s)
      /\ \A i \in 1..(m - s) : cs[i] = bs[s + i]
      /\ cs[1] = bs[s + 1]
      /\ bs[s + 1].isSnapshot /\ \A i \in 1..m : bs[i].num = i - 1
  <2>2. /\ cs \in Seq(Miniblock)
        /\ Len(cs) = (m - (s + 1)) + 1
        /\ \A i \in 1..((m - (s + 1)) + 1) : cs[i] = bs[((s + 1) + i) - 1]
    <3>1. s + 1 \in 1..(Len(bs) + 1) /\ Len(bs) \in ((s + 1) - 1)..Len(bs)
      BY <1>0
    <3> QED
      BY ZenonT(30), <3>1, SubSeqFacts
  <2>3. /\ bs[s + 1].isSnapshot /\ \A i \in 1..m : bs[i].num = i - 1
    BY Zenon
  <2> HIDE DEF cs, m
  <2>4. Len(cs) = m - s /\ DOMAIN cs = 1..(m - s)
    BY <1>0, <2>2
  <2>5. ASSUME NEW i \in 1..(m - s)
        PROVE  cs[i] = bs[s + i]
    <3>1. i \in 1..((m - (s + 1)) + 1) /\ ((s + 1) + i) - 1 = s + i
      BY <1>0
    <3> QED
      BY Zenon, <2>2, <3>1
  <2>6. 1 \in 1..(m - s)
    BY <1>0
  <2> QED
    BY Zenon, <2>2, <2>3, <2>4, <2>5, <2>6
<1>2. /\ v.blocks = cs /\ v.minipool = es
      /\ v.generation = cs[Len(cs)].num + 1
      /\ v.snapshot = cs[first].snapshot /\ v.snapshotIndex = first
  BY Zenon DEF MakeStreamView
<1>3. first \in DOMAIN cs /\ cs[first].isSnapshot
  <2>1. 1 \in DOMAIN cs /\ ok(1)
    <3> HIDE DEF cs, m
    <3>1. 1 \in 1..(m - s) /\ 1..(1-1) = {}
      BY <1>0
    <3> QED
      BY Zenon, <1>1, <3>1
  <2>2. \E i \in DOMAIN cs : ok(i)
    BY Zenon, <2>1
  <2> HIDE DEF ok
  <2>3. first \in DOMAIN cs /\ ok(first)
    BY Zenon, <2>2
  <2> QED
    BY Zenon, <2>3 DEF ok
<1> HIDE DEF cs, m, first, v
<1>4. v \in View
  <2>1. cs # << >> /\ cs[1].isSnapshot
    BY Zenon, <1>0, <1>1
  <2> QED
    BY Zenon, <1>1, <2>1, MakeStreamViewType DEF v
<1>5. v.generation = m
  <2>1. /\ m - s \in 1..(m - s) /\ s + (m - s) = m /\ m \in 1..m
    BY <1>0
  <2>2. cs[Len(cs)] = bs[m] /\ bs[m].num = m - 1
    BY Zenon, <1>1, <2>1
  <2> QED
    BY <1>0, <1>2, <2>2
<1>6. /\ Len(v.blocks) = m - s /\ m - s <= m /\ m - (m - s) = s
      /\ first \in 1..(m - s) /\ first <= m - s /\ m <= m
  BY <1>0, <1>1, <1>2, <1>3
<1>7. \A i \in 1..(m - s) : v.blocks[i] = bs[m - (m - s) + i]
  BY Zenon, <1>1, <1>2, <1>6
<1>8. v.blocks[v.snapshotIndex].isSnapshot /\ v.snapshot = v.blocks[v.snapshotIndex].snapshot
  BY Zenon, <1>2, <1>3
<1>9. Window(v, bs)
  <2>1. m = Len(bs)
    BY Zenon DEF m
  <2> QED
    BY Zenon, <1>2, <1>5, <1>6, <1>7, <1>8, <2>1 DEF Window
<1> QED
  BY Zenon, <1>2, <1>4, <1>5, <1>9 DEF v, cs, m

LEMMA AddEventWindow ==
  ASSUME NEW v \in View, NEW e \in Event, NEW bs, Window(v, bs)
  PROVE  Window(copyAndAddEvent(v, e), bs)
<1>1. LET w == copyAndAddEvent(v, e)
      IN  /\ w.blocks = v.blocks /\ w.generation = v.generation
          /\ w.snapshot = v.snapshot /\ w.snapshotIndex = v.snapshotIndex
  BY Zenon DEF copyAndAddEvent, View
<1> QED
  BY Zenon, <1>1 DEF Window

LEMMA AppendWindow ==
  ASSUME NEW v \in View, NEW bs \in Seq(Miniblock), Window(v, bs), NEW b \in Miniblock
  PROVE  Window(v, Append(bs, b))
<1>1. /\ v.blocks \in Seq(Miniblock) /\ v.generation \in Nat
  BY Zenon, ViewFields
<1>2. /\ Len(v.blocks) \in Nat /\ Len(v.blocks) <= v.generation /\ v.generation <= Len(bs)
      /\ \A i \in 1..Len(v.blocks) : v.blocks[i] = bs[v.generation - Len(v.blocks) + i]
  BY <1>1 DEF Window
<1>3. /\ Len(Append(bs, b)) = Len(bs) + 1 /\ Len(bs) \in Nat
      /\ \A i \in 1..Len(bs) : Append(bs, b)[i] = bs[i]
  OBVIOUS
<1>4. \A i \in 1..Len(v.blocks) :
        v.blocks[i] = Append(bs, b)[v.generation - Len(v.blocks) + i]
  BY SMTT(30), <1>1, <1>2, <1>3
<1>5. v.generation <= Len(Append(bs, b))
  BY <1>1, <1>2, <1>3
<1> QED
  BY Zenon, <1>4, <1>5 DEF Window

\* copyAndApplyBlock trims the blocks only before the new snapshot.
LEMMA ApplyWindow ==
  ASSUME NEW v \in View, NEW bs \in Seq(Miniblock), Window(v, bs),
         NEW b \in Miniblock, v.generation = Len(bs), b.num = Len(bs)
  PROVE  Window(copyAndApplyBlock(v, b), Append(bs, b))
<1> DEFINE n == Len(v.blocks)
           g == Len(bs)
           start == IF b.isSnapshot THEN IntMax(0, n - Generations) ELSE 0
           old == SubSeq(v.blocks, start + 1, n)
           w == copyAndApplyBlock(v, b)
           cs == Append(bs, b)
           m == n - start
<1>1. v.blocks \in Seq(Miniblock) /\ g \in Nat /\ n \in Nat /\ n <= g
  <2>1. v.blocks \in Seq(Miniblock)
    BY Zenon, ViewFields
  <2> QED
    BY <2>1 DEF Window
<1>2. /\ \A i \in 1..n : v.blocks[i] = bs[g - n + i]
      /\ v.snapshotIndex \in 1..n
      /\ v.blocks[v.snapshotIndex].isSnapshot
      /\ v.snapshot = v.blocks[v.snapshotIndex].snapshot
  <2>1. v.snapshotIndex \in Nat \ {0} /\ v.snapshotIndex <= n
    BY Zenon, ViewFields DEF Window
  <2>2. v.snapshotIndex \in 1..n
    BY <1>1, <2>1
  <2> QED
    BY Zenon, <2>2 DEF Window
<1>3. start \in 0..n /\ m \in 0..n
  <2>1. 0 \in 0..n /\ IntMax(0, n - Generations) \in 0..n
    <3> HIDE DEF n
    <3> QED
      BY <1>1, ViewAssumption DEF IntMax
  <2>2. start \in 0..n
    BY Zenon, <2>1
  <2> HIDE DEF start, n
  <2> QED
    BY <1>1, <2>2
<1>4. /\ w.blocks = Append(old, b) /\ w.generation = b.num + 1
      /\ w.snapshot = IF b.isSnapshot THEN b.snapshot ELSE v.snapshot
      /\ w.snapshotIndex = IF b.isSnapshot THEN n - start + 1 ELSE v.snapshotIndex
  BY Zenon DEF copyAndApplyBlock
<1>5. /\ Len(cs) = g + 1
      /\ \A i \in 1..g : cs[i] = bs[i]
      /\ cs[g + 1] = b
  BY <1>1
<1>6. ~b.isSnapshot => start = 0
  BY Zenon
<1> HIDE DEF n, g, start, w, cs
<1>7. /\ old \in Seq(Miniblock) /\ Len(old) = m
      /\ \A i \in 1..m : old[i] = v.blocks[start + i]
  <2>1. start + 1 \in 1..(n + 1) /\ n <= Len(v.blocks)
    BY <1>1, <1>3 DEF n
  <2> QED
    BY <1>1, <1>3, <2>1
<1>8. /\ Len(w.blocks) = m + 1
      /\ \A i \in 1..m : w.blocks[i] = v.blocks[start + i]
      /\ w.blocks[m + 1] = b
  <2> HIDE DEF old
  <2> QED
    BY <1>3, <1>4, <1>7
<1>9. w.generation = g + 1
  BY Zenon, <1>4 DEF g
<1>10. ASSUME NEW i \in 1..(m + 1)
       PROVE  w.blocks[i] = cs[(g + 1) - (m + 1) + i]
  <2>1. CASE i = m + 1
    <3>1. (g + 1) - (m + 1) + i = g + 1
      BY <1>1, <1>3, <2>1
    <3> QED
      BY Zenon, <1>5, <1>8, <2>1, <3>1
  <2>2. CASE i # m + 1
    <3>1. /\ i \in 1..m /\ start + i \in 1..n
          /\ (g + 1) - (m + 1) + i = g - n + (start + i)
          /\ g - n + (start + i) \in 1..g
      BY <1>1, <1>3, <2>2
    <3> QED
      BY Zenon, <1>2, <1>5, <1>8, <3>1
  <2> QED
    BY Zenon, <2>1, <2>2
<1>11. /\ w.snapshotIndex <= m + 1
       /\ w.blocks[w.snapshotIndex].isSnapshot
       /\ w.snapshot = w.blocks[w.snapshotIndex].snapshot
  <2>1. CASE b.isSnapshot
    <3>1. w.snapshotIndex = m + 1 /\ w.snapshot = b.snapshot /\ m + 1 <= m + 1
      BY <1>1, <1>3, <1>4, <2>1
    <3> QED
      BY Zenon, <1>8, <2>1, <3>1
  <2>2. CASE ~b.isSnapshot
    <3>1. w.snapshotIndex = v.snapshotIndex /\ w.snapshot = v.snapshot
      BY Zenon, <1>4, <2>2
    <3>2. /\ m = n /\ start + v.snapshotIndex = v.snapshotIndex
          /\ v.snapshotIndex <= m + 1 /\ v.snapshotIndex \in 1..m
      BY SMTT(30), Z3T(30), <1>1, <1>2, <1>3, <1>6, <2>2
    <3> QED
      BY Zenon, <1>2, <1>8, <3>1, <3>2
  <2> QED
    BY Zenon, <2>1, <2>2
<1>12. m + 1 <= g + 1 /\ g + 1 <= g + 1
  BY <1>1, <1>3
<1> HIDE DEF m
<1>13. Window(w, cs)
  BY Zenon, <1>5, <1>8, <1>9, <1>10, <1>11, <1>12 DEF Window
<1> QED
  BY Zenon, <1>13 DEF w, cs

(***************************************************************************)
(* The log of a numbered sequence of blocks.                               *)
(***************************************************************************)

LEMMA BlockTypes ==
  ASSUME NEW bs \in Seq(Miniblock), NEW i \in 1..Len(bs)
  PROVE  /\ bs[i].events \in Seq(Event) /\ Len(bs[i].events) \in Nat
         /\ DOMAIN bs[i].events = 1..Len(bs[i].events)
         /\ bs[i].offset \in Nat /\ i \in Nat /\ i > 0
<1>1. bs[i] \in Miniblock
  OBVIOUS
<1>2. bs[i].events \in Seq(Event) /\ bs[i].offset \in Nat
  BY Zenon, <1>1, MiniblockFields
<1> QED
  BY <1>2

LEMMA CountTypes ==
  ASSUME NEW bs \in Seq(Miniblock), Numbered(bs), NEW n \in 0..Len(bs)
  PROVE  /\ EventCount(bs, n) \in Nat
         /\ n > 0 => /\ EventsBefore(bs, n) \in Nat
                     /\ EventCount(bs, n) = EventsBefore(bs, n) + Len(bs[n].events)
                     /\ EventsBefore(bs, n) = EventCount(bs, n - 1)
<1>1. CASE n = 0
  BY <1>1 DEF EventCount
<1>2. CASE n > 0
  <2>1. n \in 1..Len(bs)
    BY <1>2
  <2>2. EventsBefore(bs, n) \in Nat /\ Len(bs[n].events) \in Nat
    BY Zenon, <2>1, BlockTypes DEF Numbered
  <2>3. EventCount(bs, n) = EventsBefore(bs, n) + Len(bs[n].events)
    BY <1>2 DEF EventCount
  <2>4. EventsBefore(bs, n) = EventCount(bs, n - 1)
    <3>1. CASE n = 1
      <4>1. bs # << >>
        BY <2>1
      <4> QED
        BY <3>1, <4>1 DEF Numbered, EventCount
    <3>2. CASE n # 1
      <4>1. n \in 2..Len(bs)
        BY <2>1, <3>2
      <4> QED
        BY Zenon, <4>1 DEF Numbered
    <3> QED
      BY Zenon, <3>1, <3>2
  <2> QED
    BY <2>2, <2>3, <2>4
<1> QED
  BY <1>1, <1>2

\* An event has one place in the log: its block and its slot are determined by it.
LEMMA OnePlace ==
  ASSUME NEW bs \in Seq(Miniblock), Numbered(bs),
         NEW i \in 1..Len(bs), NEW k \in DOMAIN bs[i].events,
         NEW h \in 1..Len(bs), NEW m \in DOMAIN bs[h].events,
         EventsBefore(bs, i) + k = EventsBefore(bs, h) + m
  PROVE  i = h /\ k = m
<1>1. /\ EventsBefore(bs, i) \in Nat /\ EventsBefore(bs, h) \in Nat
      /\ EventCount(bs, i) = EventsBefore(bs, i) + Len(bs[i].events)
      /\ EventCount(bs, h) = EventsBefore(bs, h) + Len(bs[h].events)
  <2>1. i \in 0..Len(bs) /\ h \in 0..Len(bs) /\ i > 0 /\ h > 0
    OBVIOUS
  <2> QED
    BY Zenon, <2>1, CountTypes
<1>2. /\ k \in 1..Len(bs[i].events) /\ m \in 1..Len(bs[h].events)
      /\ Len(bs[i].events) \in Nat /\ Len(bs[h].events) \in Nat
  BY Zenon, BlockTypes
<1>3. i < h => EventCount(bs, i) <= EventsBefore(bs, h)
  BY Zenon DEF Numbered
<1>4. h < i => EventCount(bs, h) <= EventsBefore(bs, i)
  BY Zenon DEF Numbered
<1>5. i \in Nat /\ h \in Nat
  OBVIOUS
<1> HIDE DEF EventsBefore, EventCount
<1>6. i = h
  BY SMTT(30), Z3T(30), <1>1, <1>2, <1>3, <1>4, <1>5
<1> QED
  BY <1>1, <1>2, <1>6

\* Where the events of a block are in the log.
LEMMA LogEntry ==
  ASSUME NEW bs \in Seq(Miniblock), Numbered(bs), NEW n \in 0..Len(bs),
         NEW i \in 1..n, NEW k \in DOMAIN bs[i].events
  PROVE  /\ EventsBefore(bs, i) + k \in 1..EventCount(bs, n)
         /\ SealedLog(bs, n)[EventsBefore(bs, i) + k] = bs[i].events[k]
<1>1. n \in 1..Len(bs) /\ i \in 1..Len(bs) /\ i <= n
  OBVIOUS
<1>2. /\ EventsBefore(bs, i) \in Nat /\ EventCount(bs, i) = EventsBefore(bs, i) + Len(bs[i].events)
      /\ EventsBefore(bs, n) \in Nat /\ EventCount(bs, n) = EventsBefore(bs, n) + Len(bs[n].events)
  <2>1. i \in 0..Len(bs) /\ n \in 0..Len(bs) /\ i > 0 /\ n > 0
    BY <1>1
  <2> QED
    BY Zenon, <2>1, CountTypes
<1>3. k \in 1..Len(bs[i].events) /\ Len(bs[i].events) \in Nat /\ Len(bs[n].events) \in Nat
  BY Zenon, <1>1, BlockTypes
<1>4. i < n => EventCount(bs, i) <= EventsBefore(bs, n)
  BY Zenon, <1>1 DEF Numbered
<1>5. EventsBefore(bs, i) + k \in 1..EventCount(bs, n)
  <2>1. CASE i = n
    BY SMTT(30), Z3T(30), <1>2, <1>3, <2>1
  <2>2. CASE i < n
    BY SMTT(30), Z3T(30), <1>2, <1>3, <1>4, <2>2
  <2> QED
    BY <1>1, <2>1, <2>2
<1> DEFINE j == EventsBefore(bs, i) + k
           P(e) == \E h \in 1..n : \E m \in DOMAIN bs[h].events :
                     EventsBefore(bs, h) + m = j /\ bs[h].events[m] = e
<1>6. bs[i].events[k] \in Event /\ P(bs[i].events[k])
  <2>1. bs[i].events \in Seq(Event)
    BY Zenon, <1>1, BlockTypes
  <2> QED
    BY <2>1
<1>7. \A e \in Event : P(e) => e = bs[i].events[k]
  <2> SUFFICES ASSUME NEW h \in 1..n, NEW m \in DOMAIN bs[h].events, EventsBefore(bs, h) + m = j
               PROVE  bs[h].events[m] = bs[i].events[k]
    BY Zenon
  <2>1. h \in 1..Len(bs)
    OBVIOUS
  <2>2. i = h /\ k = m
    BY Zenon, <1>1, <2>1, OnePlace
  <2> QED
    BY Zenon, <2>2
<1>8. (CHOOSE e \in Event : P(e)) = bs[i].events[k]
  <2> HIDE DEF P
  <2> QED
    BY Zenon, <1>6, <1>7
<1>9. SealedLog(bs, n)[j] = CHOOSE e \in Event : P(e)
  BY Zenon, <1>5 DEF SealedLog
<1> QED
  BY Zenon, <1>5, <1>8, <1>9

\* Every entry of the log is an event of a block.
LEMMA LogCovered ==
  ASSUME NEW bs \in Seq(Miniblock), Numbered(bs), NEW n \in 0..Len(bs),
         NEW j \in 1..EventCount(bs, n)
  PROVE  \E i \in 1..n : \E k \in DOMAIN bs[i].events :
           EventsBefore(bs, i) + k = j /\ SealedLog(bs, n)[j] = bs[i].events[k]
<1>1. n \in 1..Len(bs)
  BY DEF EventCount
<1>2. PICK i \in 1..n : \E k \in DOMAIN bs[i].events : EventsBefore(bs, i) + k = j
  BY Zenon, <1>1 DEF Numbered
<1>3. PICK k \in DOMAIN bs[i].events : EventsBefore(bs, i) + k = j
  BY Zenon, <1>2
<1>4. SealedLog(bs, n)[EventsBefore(bs, i) + k] = bs[i].events[k]
  BY Zenon, LogEntry
<1> QED
  BY Zenon, <1>3, <1>4

LEMMA LogSeq ==
  ASSUME NEW bs \in Seq(Miniblock), Numbered(bs), NEW n \in 0..Len(bs)
  PROVE  /\ SealedLog(bs, n) \in Seq(Event) /\ Len(SealedLog(bs, n)) = EventCount(bs, n)
         /\ DOMAIN SealedLog(bs, n) = 1..EventCount(bs, n)
<1>1. EventCount(bs, n) \in Nat
  BY Zenon, CountTypes
<1>2. ASSUME NEW j \in 1..EventCount(bs, n)
      PROVE  SealedLog(bs, n)[j] \in Event
  <2>1. PICK i \in 1..n : \E k \in DOMAIN bs[i].events : SealedLog(bs, n)[j] = bs[i].events[k]
    BY Zenon, LogCovered
  <2>2. i \in 1..Len(bs)
    OBVIOUS
  <2>3. bs[i].events \in Seq(Event)
    BY Zenon, <2>2, BlockTypes
  <2> QED
    BY <2>1, <2>3
<1>3. /\ DOMAIN SealedLog(bs, n) = 1..EventCount(bs, n)
      /\ SealedLog(bs, n) = [j \in 1..EventCount(bs, n) |-> SealedLog(bs, n)[j]]
  <2> DEFINE at(j) == CHOOSE e \in Event :
                        \E i \in 1..n : \E k \in DOMAIN bs[i].events :
                          EventsBefore(bs, i) + k = j /\ bs[i].events[k] = e
  <2>1. SealedLog(bs, n) = [j \in 1..EventCount(bs, n) |-> at(j)]
    BY Zenon DEF SealedLog
  <2> HIDE DEF at
  <2> QED
    BY Zenon, <2>1
<1>4. SealedLog(bs, n) \in [1..EventCount(bs, n) -> Event]
  BY Zenon, <1>2, <1>3
<1>5. SealedLog(bs, n) \in Seq(Event)
  BY Zenon, <1>1, <1>4, FunctionSeq
<1> QED
  BY <1>1, <1>3, <1>5

\* The log of n blocks depends on these only.
LEMMA SameLog ==
  ASSUME NEW bs \in Seq(Miniblock), Numbered(bs), NEW cs \in Seq(Miniblock), Numbered(cs),
         NEW n \in 0..Len(bs), n <= Len(cs), \A i \in 1..n : cs[i] = bs[i]
  PROVE  SealedLog(cs, n) = SealedLog(bs, n) /\ EventCount(cs, n) = EventCount(bs, n)
<1>1. \A i \in 1..n : EventsBefore(cs, i) = EventsBefore(bs, i)
  BY Zenon DEF EventsBefore
<1>2. n \in 0..Len(cs) /\ (n # 0 => n \in 1..n)
  OBVIOUS
<1>3. EventCount(cs, n) = EventCount(bs, n)
  BY Zenon, <1>1, <1>2 DEF EventCount
<1>4. /\ SealedLog(bs, n) \in Seq(Event) /\ Len(SealedLog(bs, n)) = EventCount(bs, n)
      /\ SealedLog(cs, n) \in Seq(Event) /\ Len(SealedLog(cs, n)) = EventCount(bs, n)
  BY Zenon, <1>2, <1>3, LogSeq
<1>5. ASSUME NEW j \in 1..EventCount(bs, n)
      PROVE  SealedLog(cs, n)[j] = SealedLog(bs, n)[j]
  <2>0. PICK i \in 1..n : \E k \in DOMAIN bs[i].events :
          EventsBefore(bs, i) + k = j /\ SealedLog(bs, n)[j] = bs[i].events[k]
    BY Zenon, LogCovered
  <2>1. PICK k \in DOMAIN bs[i].events :
          EventsBefore(bs, i) + k = j /\ SealedLog(bs, n)[j] = bs[i].events[k]
    BY Zenon, <2>0
  <2>2. k \in DOMAIN cs[i].events /\ EventsBefore(cs, i) + k = j
    BY Zenon, <1>1, <2>1
  <2>3. SealedLog(cs, n)[EventsBefore(cs, i) + k] = cs[i].events[k]
    BY Zenon, <1>2, <2>2, LogEntry
  <2> QED
    BY Zenon, <2>1, <2>2, <2>3
<1> QED
  BY Zenon, <1>3, <1>4, <1>5, SameSequence

\* The log of one more block.
LEMMA LogGrows ==
  ASSUME NEW bs \in Seq(Miniblock), Numbered(bs), NEW n \in 1..Len(bs)
  PROVE  /\ SealedLog(bs, n) = SealedLog(bs, n - 1) \o bs[n].events
         /\ EventCount(bs, n) = EventCount(bs, n - 1) + Len(bs[n].events)
<1>1. n \in 0..Len(bs) /\ n - 1 \in 0..Len(bs) /\ n > 0 /\ n \in Nat
  OBVIOUS
<1>2. /\ EventCount(bs, n) \in Nat /\ EventCount(bs, n - 1) \in Nat
      /\ EventCount(bs, n) = EventCount(bs, n - 1) + Len(bs[n].events)
      /\ EventsBefore(bs, n) = EventCount(bs, n - 1)
  BY Zenon, <1>1, CountTypes
<1> DEFINE before == SealedLog(bs, n - 1)
           now == SealedLog(bs, n)
           es == bs[n].events
           c == EventCount(bs, n - 1)
           both == before \o es
<1>3. /\ before \in Seq(Event) /\ Len(before) = c
      /\ now \in Seq(Event) /\ Len(now) = c + Len(es)
  BY Zenon, <1>1, <1>2, LogSeq
<1>4. es \in Seq(Event) /\ Len(es) \in Nat /\ DOMAIN es = 1..Len(es)
  BY Zenon, BlockTypes
<1>5. /\ both \in Seq(Event) /\ Len(both) = c + Len(es)
      /\ \A j \in 1..c + Len(es) : both[j] = IF j <= c THEN before[j] ELSE es[j - c]
  <2>1. /\ both \in Seq(Event) /\ Len(both) = Len(before) + Len(es)
        /\ \A j \in 1..Len(before) + Len(es) :
             both[j] = IF j <= Len(before) THEN before[j] ELSE es[j - Len(before)]
    <3> HIDE DEF before, es
    <3> QED
      BY Zenon, <1>3, <1>4, ConcatFacts
  <2> HIDE DEF both, before, es, c
  <2> QED
    BY Zenon, <1>3, <2>1
<1>6. ASSUME NEW j \in 1..(c + Len(es))
      PROVE  now[j] = both[j]
  <2>0. PICK i \in 1..n : \E k \in DOMAIN bs[i].events :
          EventsBefore(bs, i) + k = j /\ now[j] = bs[i].events[k]
    <3>1. j \in 1..EventCount(bs, n)
      BY Zenon, <1>2
    <3> QED
      BY Zenon, <1>1, <3>1, LogCovered
  <2>1. PICK k \in DOMAIN bs[i].events : EventsBefore(bs, i) + k = j /\ now[j] = bs[i].events[k]
    BY Zenon, <2>0
  <2>2. CASE i = n
    <3>1. c + k = j /\ now[j] = es[k] /\ k \in 1..Len(es) /\ c \in Nat
      BY Zenon, <1>2, <1>4, <2>1, <2>2
    <3> HIDE DEF both, before, es, c, now
    <3>2. ~(j <= c) /\ j - c = k
      BY SMTT(30), Z3T(30), <3>1, <1>4
    <3> QED
      BY Zenon, <1>5, <3>1, <3>2
  <2>3. CASE i # n
    <3>1. i \in 1..(n - 1)
      BY <1>1, <2>3
    <3>2. /\ EventsBefore(bs, i) + k \in 1..c
          /\ before[EventsBefore(bs, i) + k] = bs[i].events[k]
      BY Zenon, <1>1, <3>1, LogEntry
    <3>3. j \in 1..c /\ before[j] = now[j]
      BY Zenon, <2>1, <3>2
    <3> HIDE DEF both, before, es, c, now
    <3>4. j <= c
      BY <3>3
    <3> QED
      BY Zenon, <1>5, <3>3, <3>4
  <2> QED
    BY Zenon, <2>2, <2>3
<1> HIDE DEF both, before, es, c, now
<1>7. now = both
  BY Zenon, <1>3, <1>5, <1>6, SameSequence
<1> QED
  BY Zenon, <1>2, <1>7 DEF both, before, es, c, now

\* A number that is beyond the first of two lengths is in the second.
LEMMA SecondPart ==
  ASSUME NEW c \in Nat, NEW l \in Nat, NEW j \in 1..(c + l), ~(j <= c)
  PROVE  j - c \in 1..l /\ c + (j - c) = j
OBVIOUS

LEMMA NumberedAppend ==
  ASSUME NEW bs \in Seq(Miniblock), Numbered(bs), bs # << >>, NEW b \in Miniblock,
         b.offset = bs[Len(bs)].offset + Len(bs[Len(bs)].events) + 1
  PROVE  Numbered(Append(bs, b))
<1> DEFINE n == Len(bs)
           cs == Append(bs, b)
<1>1. /\ n \in Nat \ {0} /\ cs \in Seq(Miniblock) /\ Len(cs) = n + 1 /\ cs # << >>
      /\ cs[n + 1] = b /\ \A i \in 1..n : cs[i] = bs[i]
  OBVIOUS
<1> HIDE DEF cs
<1>2. b.events \in Seq(Event) /\ Len(b.events) \in Nat /\ DOMAIN b.events = 1..Len(b.events)
  <2>1. b.events \in Seq(Event)
    BY Zenon, MiniblockFields
  <2> QED
    BY <2>1
<1>3. ASSUME NEW i \in 1..n
      PROVE  /\ EventsBefore(cs, i) = EventsBefore(bs, i) /\ EventCount(cs, i) = EventCount(bs, i)
             /\ EventsBefore(bs, i) \in Nat /\ EventCount(bs, i) \in Nat
  <2>1. EventsBefore(cs, i) = EventsBefore(bs, i)
    BY Zenon, <1>1 DEF EventsBefore
  <2>2. EventCount(cs, i) = EventCount(bs, i)
    BY Zenon, <1>1, <2>1 DEF EventCount
  <2>3. i \in 0..Len(bs) /\ i > 0
    OBVIOUS
  <2> QED
    BY Zenon, <2>1, <2>2, <2>3, CountTypes
<1> DEFINE c == EventCount(bs, n)
<1>4. n \in 1..n /\ n \in 0..Len(bs) /\ n > 0
  BY <1>1
<1>5. c \in Nat /\ c = EventsBefore(bs, n) + Len(bs[n].events)
  BY Zenon, <1>4, CountTypes
<1>6. EventsBefore(cs, n + 1) = c
  <2>1. bs[n].offset \in Nat /\ Len(bs[n].events) \in Nat
    BY Zenon, <1>4, BlockTypes
  <2>2. EventsBefore(cs, n + 1) = b.offset - n
    BY <1>1 DEF EventsBefore
  <2>3. c = (bs[n].offset - (n - 1)) + Len(bs[n].events)
    BY Zenon, <1>5 DEF EventsBefore
  <2> HIDE DEF c
  <2> QED
    BY SMTT(30), Z3T(30), <1>1, <2>1, <2>2, <2>3
<1>7. EventCount(cs, n + 1) = c + Len(b.events)
  <2>1. n + 1 # 0
    BY <1>1
  <2> QED
    BY Zenon, <1>1, <1>6, <2>1 DEF EventCount
<1> HIDE DEF n, c
<1>8. \A i \in 1..(n + 1) : i \in 1..n \/ i = n + 1
  BY <1>1
<1>9. EventsBefore(cs, 1) = 0
  <2>1. 1 \in 1..n
    BY <1>1
  <2> QED
    BY Zenon, <1>3, <2>1 DEF Numbered
<1>10. \A i \in 1..(n + 1) : EventsBefore(cs, i) \in Nat
  BY Zenon, <1>3, <1>5, <1>6, <1>8
<1>11. ASSUME NEW i \in 2..(n + 1)
       PROVE  EventsBefore(cs, i) = EventCount(cs, i - 1)
  <2>1. i - 1 \in 1..n
    BY <1>1
  <2>2. CASE i = n + 1
    <3>1. i - 1 = n
      BY <1>1, <2>2
    <3> QED
      BY Zenon, <1>3, <1>6, <2>1, <2>2, <3>1 DEF c
  <2>3. CASE i # n + 1
    <3>1. i \in 2..Len(bs) /\ i \in 1..n
      BY <1>1, <2>3 DEF n
    <3>2. EventsBefore(bs, i) = EventCount(bs, i - 1)
      BY Zenon, <3>1 DEF Numbered
    <3> QED
      BY Zenon, <1>3, <2>1, <3>1, <3>2
  <2> QED
    BY Zenon, <2>2, <2>3
<1>12. ASSUME NEW i \in 1..(n + 1), NEW j \in 1..(n + 1), i < j
       PROVE  EventCount(cs, i) <= EventsBefore(cs, j)
  <2>1. i \in 1..n
    BY <1>1, <1>12
  <2>2. CASE j \in 1..n
    <3>1. EventCount(bs, i) <= EventsBefore(bs, j)
      BY Zenon, <1>12, <2>1, <2>2 DEF Numbered, n
    <3> QED
      BY Zenon, <1>3, <2>1, <2>2, <3>1
  <2>3. CASE j = n + 1
    <3>1. EventCount(bs, i) <= c
      <4>1. CASE i = n
        BY SMTT(30), Z3T(30), <1>3, <2>1, <4>1 DEF c
      <4>2. CASE i # n
        <5>1. i < n /\ n \in 1..n
          BY <1>1, <2>1, <4>2
        <5>2. EventCount(bs, i) <= EventsBefore(bs, n)
          BY Zenon, <2>1, <5>1 DEF Numbered, n
        <5>3. EventsBefore(bs, n) \in Nat /\ EventCount(bs, i) \in Nat /\ Len(bs[n].events) \in Nat
          BY Zenon, <1>3, <2>1, <5>1, BlockTypes DEF n
        <5> QED
          BY SMTT(30), Z3T(30), <1>5, <5>2, <5>3
      <4> QED
        BY Zenon, <4>1, <4>2
    <3> QED
      BY Zenon, <1>3, <1>6, <2>1, <2>3, <3>1
  <2> QED
    BY Zenon, <1>8, <2>2, <2>3
<1>13. ASSUME NEW m \in 1..(n + 1), NEW j \in 1..EventCount(cs, m)
       PROVE  \E i \in 1..m : \E k \in DOMAIN cs[i].events : EventsBefore(cs, i) + k = j
  <2>1. ASSUME NEW p \in 1..n, NEW x \in 1..EventCount(bs, p)
        PROVE  \E i \in 1..p : \E k \in DOMAIN cs[i].events : EventsBefore(cs, i) + k = x
    <3>1. \A i \in 1..p : i \in 1..n
      BY <1>1
    <3>2. \E i \in 1..p : \E k \in DOMAIN bs[i].events : EventsBefore(bs, i) + k = x
      BY Zenon DEF Numbered, n
    <3> QED
      BY Zenon, <1>1, <1>3, <3>1, <3>2
  <2>2. CASE m \in 1..n
    BY Zenon, <1>3, <2>1, <2>2
  <2>3. CASE m = n + 1
    <3>1. j \in 1..(c + Len(b.events))
      BY Zenon, <1>7, <2>3
    <3>2. CASE j <= c
      <4>1. n \in 1..n /\ j \in 1..c
        BY <1>1, <1>5, <3>1, <3>2
      <4>2. \E i \in 1..n : \E k \in DOMAIN cs[i].events : EventsBefore(cs, i) + k = j
        BY Zenon, <2>1, <4>1 DEF c
      <4>3. \A i \in 1..n : i \in 1..m
        BY <1>1, <2>3
      <4> QED
        BY Zenon, <4>2, <4>3
    <3>3. CASE ~(j <= c)
      <4>0. PICK l \in Nat : l = Len(b.events)
        BY Zenon, <1>2
      <4>4. j \in 1..(c + l)
        BY Zenon, <3>1, <4>0
      <4>5. j - c \in 1..l /\ c + (j - c) = j
        BY Zenon, <1>5, <3>3, <4>4, SecondPart
      <4>1. j - c \in 1..Len(b.events) /\ c + (j - c) = j
        BY Zenon, <4>0, <4>5
      <4>3. n + 1 \in 1..m
        BY Zenon, <1>1, <2>3
      <4>2. j - c \in DOMAIN cs[n + 1].events /\ EventsBefore(cs, n + 1) + (j - c) = j
        BY Zenon, <1>1, <1>2, <1>6, <4>1
      <4> QED
        BY Zenon, <4>2, <4>3
    <3> QED
      BY Zenon, <3>2, <3>3
  <2> QED
    BY Zenon, <1>8, <2>2, <2>3
<1> QED
  BY Zenon, <1>1, <1>9, <1>10, <1>11, <1>12, <1>13 DEF Numbered, cs

LEMMA NumberedGenesis == Numbered(<< >>) /\ Numbered(<<Genesis>>)
<1> DEFINE g == <<Genesis>>
<1>1. /\ Len(g) = 1 /\ g[1].offset = 0 /\ g[1].events = << >> /\ Len(g[1].events) = 0
  BY Zenon DEF Genesis
<1>2. EventsBefore(g, 1) = 0 /\ EventCount(g, 1) = 0
  BY <1>1 DEF EventsBefore, EventCount
<1> HIDE DEF g
<1>3. Numbered(g)
  BY <1>1, <1>2 DEF Numbered
<1>4. Numbered(<< >>)
  BY DEF Numbered
<1> QED
  BY Zenon, <1>3, <1>4 DEF g

LEMMA Regroup ==
  ASSUME NEW s \in Seq(Event), NEW t \in Seq(Event), NEW u \in Seq(Event)
  PROVE  /\ (s \o t) \o u = s \o (t \o u) /\ Len(u) \in Nat
         /\ Len(s \o (t \o u)) = Len(s) + (Len(t) + Len(u))
<1>1. (s \o t) \o u = s \o (t \o u)
  BY SMTT(30), Z3T(30)
<1>2. t \o u \in Seq(Event) /\ Len(t \o u) = Len(t) + Len(u) /\ Len(u) \in Nat
  OBVIOUS
<1>3. PICK v \in Seq(Event) : v = t \o u
  BY Zenon, <1>2
<1>4. Len(s \o v) = Len(s) + Len(v)
  OBVIOUS
<1> QED
  BY ZenonT(30), <1>1, <1>2, <1>3, <1>4

LEMMA AppendLast ==
  ASSUME NEW s \in Seq(Event), NEW t \in Seq(Event), NEW e \in Event
  PROVE  s \o Append(t, e) = Append(s \o t, e)
<1>1. Append(t, e) = t \o <<e>> /\ <<e>> \in Seq(Event) /\ s \o t \in Seq(Event)
  BY AppendConcat
<1>2. Append(s \o t, e) = (s \o t) \o <<e>>
  BY Zenon, <1>1, AppendConcat
<1>3. (s \o t) \o <<e>> = s \o (t \o <<e>>)
  BY Zenon, <1>1, Regroup
<1> QED
  BY ZenonT(30), <1>1, <1>2, <1>3

\* The log of n blocks and a minipool holds the events of both and no others.
LEMMA LogElements ==
  ASSUME NEW bs \in Seq(Miniblock), Numbered(bs), NEW n \in 0..Len(bs),
         NEW pool \in Seq(Event), NEW e,
         e \notin EventsOf(bs, n), e \notin Elements(pool)
  PROVE  \A j \in DOMAIN (SealedLog(bs, n) \o pool) : (SealedLog(bs, n) \o pool)[j] # e
<1> DEFINE s == SealedLog(bs, n)
           c == EventCount(bs, n)
           both == s \o pool
<1>1. s \in Seq(Event) /\ Len(s) = c /\ c \in Nat /\ Len(pool) \in Nat
  BY LogSeq, CountTypes
<1>2. ASSUME NEW j \in 1..c PROVE s[j] # e
  <2>1. PICK i \in 1..n : \E k \in DOMAIN bs[i].events :
          EventsBefore(bs, i) + k = j /\ s[j] = bs[i].events[k]
    BY ZenonT(30), LogCovered
  <2>2. s[j] \in Elements(bs[i].events)
    BY Zenon, <2>1 DEF Elements
  <2> QED
    BY Zenon, <2>2 DEF EventsOf
<1>3. ASSUME NEW k \in 1..Len(pool) PROVE pool[k] # e
  <2>1. DOMAIN pool = 1..Len(pool)
    OBVIOUS
  <2> QED
    BY Zenon, <2>1 DEF Elements
<1> HIDE DEF s, c
<1>4. /\ DOMAIN both = 1..(c + Len(pool))
      /\ \A j \in 1..(c + Len(pool)) : both[j] = IF j <= c THEN s[j] ELSE pool[j - c]
  <2>1. /\ both \in Seq(Event) /\ Len(both) = Len(s) + Len(pool)
        /\ \A j \in 1..Len(s) + Len(pool) : both[j] = IF j <= Len(s) THEN s[j] ELSE pool[j - Len(s)]
    BY Zenon, <1>1, ConcatFacts
  <2> HIDE DEF both
  <2>2. DOMAIN both = 1..Len(both)
    BY <2>1
  <2> QED
    BY Zenon, <1>1, <2>1, <2>2
<1> HIDE DEF both
<1>5. ASSUME NEW j \in DOMAIN both PROVE both[j] # e
  <2>1. j \in 1..(c + Len(pool))
    BY Zenon, <1>4
  <2>2. CASE j <= c
    <3>1. j \in 1..c
      BY <1>1, <2>1, <2>2
    <3> QED
      BY Zenon, <1>2, <1>4, <2>1, <2>2, <3>1
  <2>3. CASE ~(j <= c)
    <3>1. j - c \in 1..Len(pool)
      BY Zenon, <1>1, <2>1, <2>3, SecondPart
    <3> QED
      BY Zenon, <1>3, <1>4, <2>1, <2>3, <3>1
  <2> QED
    BY Zenon, <2>2, <2>3
<1> QED
  BY Zenon, <1>5 DEF both, s

\* A block that takes the first events of the minipool leaves the log as it is.
LEMMA LogSealed ==
  ASSUME NEW bs \in Seq(Miniblock), Numbered(bs), NEW cs \in Seq(Miniblock), Numbered(cs),
         NEW n \in 0..Len(bs), n + 1 <= Len(cs), \A i \in 1..n : cs[i] = bs[i],
         NEW rest \in Seq(Event)
  PROVE  LET log == SealedLog(bs, n) \o (cs[n + 1].events \o rest)
         IN  /\ SealedLog(cs, n + 1) \o rest = log
             /\ EventCount(cs, n + 1) \in EventCount(bs, n)..Len(log)
             /\ EventCount(bs, n) \in Nat
<1> DEFINE es == cs[n + 1].events
           s == SealedLog(bs, n)
           c == EventCount(bs, n)
<1>1. n + 1 \in 1..Len(cs) /\ (n + 1) - 1 = n /\ n <= Len(cs)
  OBVIOUS
<1>2. SealedLog(cs, n) = s /\ EventCount(cs, n) = c
  BY Zenon, <1>1, SameLog
<1>3. SealedLog(cs, n + 1) = s \o es /\ EventCount(cs, n + 1) = c + Len(es)
  BY Zenon, <1>1, <1>2, LogGrows
<1>4. s \in Seq(Event) /\ Len(s) = c /\ c \in Nat
  BY Zenon, LogSeq, CountTypes
<1>5. es \in Seq(Event) /\ Len(es) \in Nat
  BY Zenon, <1>1, BlockTypes
<1> HIDE DEF es, s, c
<1>6. /\ (s \o es) \o rest = s \o (es \o rest) /\ Len(rest) \in Nat
      /\ Len(s \o (es \o rest)) = Len(s) + (Len(es) + Len(rest))
  BY Zenon, <1>4, <1>5, Regroup
<1>9. c + Len(es) \in c..(c + (Len(es) + Len(rest)))
  BY <1>4, <1>5, <1>6
<1> QED
  BY Zenon, <1>3, <1>4, <1>6, <1>9 DEF es, s, c
=============================================================================
