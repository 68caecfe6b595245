----------------------------- MODULE StreamProofs -----------------------------
(***************************************************************************)
(* Theorems about module Stream, for every number of events, requests and  *)
(* clients and all bounds, when clients do not send an event twice.  First *)
(* facts about blocks, views and sequences of events that the proofs about *)
(* the actions share.  The invariant holds initially and is preserved by   *)
(* every action: first those of the node and its clients, then the         *)
(* producer and its transactions, at last ApplyMiniblock.                  *)
(***************************************************************************)
EXTENDS StreamInv, TLAPS

(***************************************************************************)
(* Sequences.                                                              *)
(***************************************************************************)

LEMMA AppendFacts ==
  ASSUME NEW S, NEW s \in Seq(S), NEW e \in S
  PROVE  /\ Append(s, e) \in Seq(S) /\ Len(Append(s, e)) = Len(s) + 1
         /\ \A i \in 1..Len(s) : Append(s, e)[i] = s[i]
         /\ Append(s, e)[Len(s) + 1] = e
OBVIOUS

LEMMA ConcatFacts ==
  ASSUME NEW S, NEW s \in Seq(S), NEW t \in Seq(S)
  PROVE  /\ s \o t \in Seq(S) /\ Len(s \o t) = Len(s) + Len(t)
         /\ \A i \in 1..(Len(s) + Len(t)) : (s \o t)[i] = IF i <= Len(s) THEN s[i] ELSE t[i - Len(s)]
OBVIOUS

LEMMA SubSeqFacts ==
  ASSUME NEW S, NEW s \in Seq(S), NEW m \in 1..(Len(s) + 1), NEW n \in (m - 1)..Len(s)
  PROVE  /\ SubSeq(s, m, n) \in Seq(S) /\ Len(SubSeq(s, m, n)) = (n - m) + 1
         /\ \A i \in 1..((n - m) + 1) : SubSeq(s, m, n)[i] = s[(m + i) - 1]
OBVIOUS

LEMMA FunctionSeq ==
  ASSUME NEW S, NEW n \in Nat, NEW f \in [1..n -> S]
  PROVE  f \in Seq(S) /\ Len(f) = n
OBVIOUS

LEMMA AppendConcat ==
  ASSUME NEW S, NEW s \in Seq(S), NEW e \in S
  PROVE  Append(s, e) = s \o <<e>>
OBVIOUS

LEMMA StartsWithItself ==
  ASSUME NEW s \in Seq(Event)
  PROVE  StartsWith(s, s)
BY DEF StartsWith

(***************************************************************************)
(* Blocks and views.                                                       *)
(***************************************************************************)

\* The genesis block is a block with a snapshot and no events.
LEMMA GenesisFacts ==
  /\ Genesis \in Miniblock /\ Genesis.num = 0 /\ Genesis.isSnapshot
  /\ Genesis.events = << >> /\ Genesis.snapshot = {}
BY DEF Genesis, Miniblock

\* The types of the fields of miniblocks and views.
LEMMA MiniblockFields ==
  ASSUME NEW b \in Miniblock
  PROVE  /\ b.num \in Nat /\ b.hash \in Nat /\ b.prev \in Nat
         /\ b.events \in Seq(Event) /\ b.isSnapshot \in BOOLEAN
         /\ b.snapshot \subseteq Event /\ b.offset \in Nat /\ b.prevSnapshot \in Nat
         /\ Elements(b.events) \subseteq Event
<1>1. /\ b.num \in Nat /\ b.hash \in Nat /\ b.prev \in Nat
      /\ b.events \in Seq(Event) /\ b.isSnapshot \in BOOLEAN
      /\ b.snapshot \subseteq Event /\ b.offset \in Nat /\ b.prevSnapshot \in Nat
  BY Zenon DEF Miniblock
<1>2. Elements(b.events) \subseteq Event
  BY <1>1 DEF Elements
<1> QED
  BY Zenon, <1>1, <1>2

\* The fields of a view.
LEMMA ViewFields ==
  ASSUME NEW v \in View
  PROVE  /\ v.blocks \in Seq(Miniblock) /\ v.minipool \in Seq(Event)
         /\ v.generation \in Nat /\ v.snapshot \subseteq Event
         /\ v.snapshotIndex \in Nat \ {0}
         /\ Elements(v.minipool) \subseteq Event
         /\ EventsSinceSnapshot(v) \subseteq Event
<1>1. /\ v.blocks \in Seq(Miniblock) /\ v.minipool \in Seq(Event)
      /\ v.generation \in Nat /\ v.snapshot \subseteq Event
      /\ v.snapshotIndex \in Nat \ {0}
  BY Zenon DEF View
<1>2. Elements(v.minipool) \subseteq Event
  BY <1>1 DEF Elements
<1>3. \A i \in (v.snapshotIndex + 1)..Len(v.blocks) : v.blocks[i] \in Miniblock
  BY <1>1
<1>4. EventsSinceSnapshot(v) \subseteq Event
  BY Zenon, <1>3, MiniblockFields DEF EventsSinceSnapshot
<1> QED
  BY Zenon, <1>1, <1>2, <1>4

\* The last block of a view.
LEMMA LastBlockType ==
  ASSUME NEW v \in View, v.blocks # << >>
  PROVE  LastBlock(v) \in Miniblock
<1>1. v.blocks \in Seq(Miniblock)
  BY Zenon, ViewFields
<1> QED
  BY <1>1 DEF LastBlock

\* Two sequences of events with the same members at the same places.
LEMMA SameSequence ==
  ASSUME NEW s \in Seq(Event), NEW t \in Seq(Event), Len(s) = Len(t),
         \A i \in 1..Len(s) : s[i] = t[i]
  PROVE  s = t
<1>1. /\ DOMAIN s = 1..Len(s) /\ DOMAIN t = 1..Len(s)
      /\ s = [i \in DOMAIN s |-> s[i]] /\ t = [i \in DOMAIN t |-> t[i]]
  OBVIOUS
<1> QED
  BY Zenon, <1>1

\* The events of a prefix are events of the sequence.
LEMMA PrefixElements ==
  ASSUME NEW s \in Seq(Event), NEW t \in Seq(Event), StartsWith(s, t)
  PROVE  Elements(t) \subseteq Elements(s) /\ (Distinct(s) => Distinct(t))
<1>1. /\ Len(t) \in Nat /\ Len(s) \in Nat /\ Len(t) <= Len(s)
      /\ \A i \in 1..Len(t) : s[i] = t[i]
      /\ DOMAIN s = 1..Len(s) /\ DOMAIN t = 1..Len(t)
  BY DEF StartsWith
<1>2. Elements(t) \subseteq Elements(s)
  BY <1>1 DEF Elements
<1>3. Distinct(s) => Distinct(t)
  BY <1>1 DEF Distinct
<1> QED
  BY Zenon, <1>2, <1>3

\* The events of a concatenation, and when it repeats none.
LEMMA ConcatElements ==
  ASSUME NEW a \in Seq(Event), NEW b \in Seq(Event), Distinct(a \o b)
  PROVE  /\ Elements(a \o b) = Elements(a) \cup Elements(b)
         /\ Elements(a) \cap Elements(b) = {}
         /\ Distinct(b)
<1> DEFINE k == Len(a)
           m == Len(b)
           s == a \o b
<1>1. /\ k \in Nat /\ m \in Nat /\ DOMAIN s = 1..(k+m)
      /\ DOMAIN a = 1..k /\ DOMAIN b = 1..m
      /\ \A i \in 1..k : s[i] = a[i]
  OBVIOUS
<1>2. \A i \in 1..m : k + i \in 1..(k+m) /\ s[k + i] = b[i] /\ k + i \notin 1..k
  OBVIOUS
<1>3. \A i \in 1..(k+m) : i \in 1..k \/ (i - k \in 1..m /\ s[i] = b[i - k])
  <2> SUFFICES ASSUME NEW i \in 1..(k+m), i \notin 1..k
               PROVE  i - k \in 1..m /\ s[i] = b[i - k]
    BY Zenon
  <2>1. i - k \in 1..m /\ k + (i - k) = i
    BY <1>1
  <2> HIDE DEF k, m, s
  <2> QED
    BY Zenon, <1>2, <2>1
<1>4. \A i \in 1..k : i \in 1..(k+m)
  BY <1>1
<1>5. Distinct(s)
  BY Zenon
<1> HIDE DEF k, m, s
<1>6. Elements(s) = Elements(a) \cup Elements(b)
  <2>1. Elements(s) \subseteq Elements(a) \cup Elements(b)
    BY Zenon, <1>1, <1>3 DEF Elements
  <2>2. Elements(a) \subseteq Elements(s)
    BY Zenon, <1>1, <1>4 DEF Elements
  <2>3. Elements(b) \subseteq Elements(s)
    <3> SUFFICES ASSUME NEW i \in 1..m PROVE b[i] \in Elements(s)
      BY Zenon, <1>1 DEF Elements
    <3> QED
      BY Zenon, <1>1, <1>2 DEF Elements
  <2> QED
    BY Zenon, <2>1, <2>2, <2>3
<1>7. Elements(a) \cap Elements(b) = {}
  <2> SUFFICES ASSUME NEW i \in 1..k, NEW j \in 1..m, a[i] = b[j] PROVE FALSE
    BY Zenon, <1>1 DEF Elements
  <2>1. i = k + j
    BY Zenon, <1>1, <1>2, <1>4, <1>5 DEF Distinct
  <2> QED
    BY Zenon, <1>2, <2>1
<1>8. Distinct(b)
  <2> SUFFICES ASSUME NEW i \in 1..m, NEW j \in 1..m, b[i] = b[j] PROVE i = j
    BY Zenon, <1>1 DEF Distinct
  <2>1. k + i = k + j
    BY Zenon, <1>1, <1>2, <1>5 DEF Distinct
  <2> QED
    BY <1>1, <2>1
<1> QED
  BY Zenon, <1>6, <1>7, <1>8 DEF s

\* A block whose candidate is stored extends what the view and storage hold.
LEMMA RegisteredFacts ==
  ASSUME Inv, producer = "registered", Loaded
  PROVE  /\ view \in View /\ work \in Miniblock
         /\ dbBlocks \in Seq(Miniblock) /\ Height \in Nat \ {0}
         /\ work.num = Height /\ work \in dbCandidates
         /\ work.prev = dbBlocks[Height].hash
         /\ view.generation = Height /\ Current
         /\ view.blocks # << >> /\ LastBlock(view) = dbBlocks[Height]
         /\ StartsWith(view.minipool, work.events)
         /\ Distinct(view.minipool)
         /\ Elements(view.minipool) \subseteq Elements(dbMinipool)
         /\ Elements(work.events) \subseteq Elements(view.minipool)
         /\ Distinct(work.events)
<1> USE DEF Inv
<1>1. /\ view \in View /\ work \in Miniblock /\ dbBlocks \in Seq(Miniblock)
      /\ view.minipool \in Seq(Event) /\ work.events \in Seq(Event)
      /\ dbMinipool \in Seq(Event) /\ dbBlocks # << >>
  BY Zenon, ViewFields, MiniblockFields DEF TypeOK, StorageTypeOK, Loaded, InvAbsent
<1>2. Height \in Nat \ {0}
  BY <1>1 DEF Height
<1>3. /\ work.num = Height /\ work \in dbCandidates
      /\ work.prev = dbBlocks[Height].hash
      /\ view.generation = Height
      /\ StartsWith(view.minipool, work.events)
  BY Zenon DEF InvProducer
<1>4. /\ Current /\ view.blocks # << >> /\ LastBlock(view) = dbBlocks[Height]
  BY <1>2, <1>3 DEF InvView, Behind
<1>5. Distinct(view.minipool) /\ Elements(view.minipool) \subseteq Elements(dbMinipool)
  BY Zenon, <1>1, <1>4, PrefixElements DEF Current, InvEvents, NoDuplicateEvents
<1>6. Distinct(work.events) /\ Elements(work.events) \subseteq Elements(view.minipool)
  BY Zenon, <1>1, <1>3, <1>5, PrefixElements
<1> QED
  BY Zenon, <1>1, <1>2, <1>3, <1>4, <1>5, <1>6

(***************************************************************************)
(* Creating and loading the stream.                                        *)
(***************************************************************************)
LEMMA MakeStreamViewType ==
  ASSUME NEW bs \in Seq(Miniblock), bs # << >>, bs[1].isSnapshot,
         NEW es \in Seq(Event)
  PROVE  LET v == MakeStreamView(bs, es)
         IN  /\ v \in View
             /\ v.blocks = bs
             /\ v.minipool = es
             /\ v.generation = LastBlock(v).num + 1
<1> DEFINE first == CHOOSE i \in DOMAIN bs :
                      /\ bs[i].isSnapshot
                      /\ \A j \in 1..(i-1) : ~bs[j].isSnapshot
           v == MakeStreamView(bs, es)
<1>1. /\ 1 \in DOMAIN bs /\ Len(bs) \in Nat \ {0} /\ DOMAIN bs = 1..Len(bs)
      /\ \A i \in DOMAIN bs : bs[i] \in Miniblock
  OBVIOUS
<1>2. first \in DOMAIN bs
  <2>1. \A j \in 1..(1-1) : ~bs[j].isSnapshot
    OBVIOUS
  <2> QED
    BY Zenon, <1>1, <2>1
<1>3. v = [blocks |-> bs, minipool |-> es, generation |-> bs[Len(bs)].num + 1,
           snapshot |-> bs[first].snapshot, snapshotIndex |-> first]
  BY Zenon DEF MakeStreamView
<1> HIDE DEF first, v
<1>4. bs[first].snapshot \subseteq Event /\ bs[Len(bs)].num \in Nat
  BY <1>1, <1>2, MiniblockFields
<1>5. v \in View
  BY <1>1, <1>2, <1>3, <1>4 DEF View
<1>6. v.blocks = bs /\ v.minipool = es /\ v.generation = LastBlock(v).num + 1
  BY Zenon, <1>3 DEF LastBlock
<1> QED
  BY Zenon, <1>5, <1>6 DEF v

(***************************************************************************)
(* WriteEvent, as AddEvent and AddEventAmbiguous use it.                   *)
(***************************************************************************)
LEMMA AppendElements ==
  ASSUME NEW s \in Seq(Event), NEW e \in Event
  PROVE  /\ Append(s, e) \in Seq(Event)
         /\ Elements(Append(s, e)) = Elements(s) \cup {e}
         /\ Distinct(s) /\ e \notin Elements(s) => Distinct(Append(s, e))
         /\ \A t \in Seq(Event) : StartsWith(s, t) => StartsWith(Append(s, e), t)
<1>1. /\ Append(s, e) \in Seq(Event) /\ Len(Append(s, e)) = Len(s) + 1
      /\ \A i \in 1..Len(s) : Append(s, e)[i] = s[i]
      /\ Append(s, e)[Len(s) + 1] = e
      /\ DOMAIN s = 1..Len(s) /\ DOMAIN Append(s, e) = 1..(Len(s) + 1)
      /\ Len(s) \in Nat
  OBVIOUS
<1>2. Elements(Append(s, e)) = Elements(s) \cup {e}
  BY <1>1 DEF Elements
<1>3. Distinct(s) /\ e \notin Elements(s) => Distinct(Append(s, e))
  BY <1>1 DEF Elements, Distinct
<1>4. \A t \in Seq(Event) : StartsWith(s, t) => StartsWith(Append(s, e), t)
  BY SMTT(30), Z3T(30), <1>1 DEF StartsWith
<1> QED
  BY Zenon, <1>1, <1>2, <1>3, <1>4

\* copyAndAddEvent only extends the minipool of a view.
LEMMA ViewAddEvent ==
  ASSUME NEW v \in View, NEW e \in Event
  PROVE  LET w == copyAndAddEvent(v, e)
         IN  /\ w \in View
             /\ w.minipool = Append(v.minipool, e)
             /\ w.blocks = v.blocks
             /\ w.generation = v.generation
<1>1. v.minipool \in Seq(Event) /\ Append(v.minipool, e) \in Seq(Event)
  BY ViewFields
<1>2. copyAndAddEvent(v, e) = [v EXCEPT !.minipool = Append(v.minipool, e)]
  BY Zenon DEF copyAndAddEvent
<1> QED
  BY Zenon, <1>1, <1>2 DEF View

(***************************************************************************)
(* Applying a registered miniblock.                                        *)
(***************************************************************************)

\* An interval begins at one place, if only before its end.
LEMMA IntervalStart ==
  ASSUME NEW n \in Nat
  PROVE  \A m, k \in 0..n : (m+1)..n = (k+1)..n => k = m
<1>1. \A m, k \in 0..n : k < m => k + 1 \in (k+1)..n /\ k + 1 \notin (m+1)..n
  OBVIOUS
<1>2. \A m, k \in 0..n : (m+1)..n = (k+1)..n => ~(k < m) /\ ~(m < k)
  BY Zenon, <1>1
<1>3. \A m, k \in 0..n : ~(k < m) /\ ~(m < k) => k = m
  OBVIOUS
<1> QED
  BY Zenon, <1>2, <1>3

(***************************************************************************)
(* The minipool that copyAndApplyBlock keeps: when the block takes the     *)
(* events the minipool starts with, the rest of it, in order.              *)
(***************************************************************************)
LEMMA WithoutPrefix ==
  ASSUME NEW s \in Seq(Event), NEW t \in Seq(Event), StartsWith(s, t), Distinct(s)
  PROVE  LET w == Without(s, Elements(t))
         IN  /\ w \in Seq(Event)
             /\ Len(w) = Len(s) - Len(t)
             /\ \A j \in 1..Len(w) : w[j] = s[Len(t) + j]
<1> DEFINE kept == {i \in DOMAIN s : s[i] \notin Elements(t)}
           m == Len(t)
           n == Len(s)
<1>1. /\ m \in Nat /\ n \in Nat /\ m <= n
      /\ DOMAIN s = 1..n /\ DOMAIN t = 1..m
  BY DEF StartsWith
<1>2. kept = (m+1)..n
  <2>1. \A i \in 1..m : s[i] \in Elements(t)
    BY Zenon, <1>1 DEF StartsWith, Elements
  <2>2. \A i \in (m+1)..n : s[i] \notin Elements(t)
    BY <1>1 DEF StartsWith, Elements, Distinct
  <2> QED
    BY <1>1, <2>1, <2>2
<1>3. m \in 0..n /\ \A k \in 0..n : (m+1)..n = (k+1)..n => k = m
  <2>1. m \in 0..n
    BY <1>1
  <2> QED
    BY Zenon, <1>1, <2>1, IntervalStart
<1>4. (CHOOSE k \in 0..n : kept = (k+1)..n) = m
  <2> HIDE DEF kept, m, n
  <2> QED
    BY Zenon, <1>2, <1>3
<1>5. Without(s, Elements(t)) = SubSeq(s, m + 1, n)
  BY Zenon, <1>2, <1>3, <1>4 DEF Without
<1>6. m + 1 \in 1..(n + 1) /\ n \in ((m + 1) - 1)..n /\ (n - (m + 1)) + 1 = n - m
      /\ \A j \in 1..(n - m) : ((m + 1) + j) - 1 = m + j
  BY <1>1
<1> HIDE DEF kept, m, n
<1>7. /\ SubSeq(s, m + 1, n) \in Seq(Event) /\ Len(SubSeq(s, m + 1, n)) = n - m
      /\ \A j \in 1..(n - m) : SubSeq(s, m + 1, n)[j] = s[m + j]
  BY SMTT(30), Z3T(30), <1>6, SubSeqFacts DEF n
<1> QED
  BY Zenon, <1>5, <1>7 DEF m, n

\* The types of the view that copyAndApplyBlock returns.
LEMMA ViewApplyBlock ==
  ASSUME NEW v \in View, NEW b \in Miniblock, v.blocks # << >>,
         StartsWith(v.minipool, b.events), Distinct(v.minipool)
  PROVE  LET w == copyAndApplyBlock(v, b)
             rest == Without(v.minipool, Elements(b.events))
         IN  /\ w \in View
             /\ w.minipool = rest /\ rest \in Seq(Event)
             /\ w.generation = b.num + 1
             /\ w.blocks # << >> /\ LastBlock(w) = b
             /\ v.minipool = b.events \o rest
<1> DEFINE start == IF b.isSnapshot THEN IntMax(0, Len(v.blocks) - Generations) ELSE 0
           rest == Without(v.minipool, Elements(b.events))
           bs == Append(SubSeq(v.blocks, start + 1, Len(v.blocks)), b)
           snap == IF b.isSnapshot THEN b.snapshot ELSE v.snapshot
           idx == IF b.isSnapshot THEN Len(v.blocks) - start + 1 ELSE v.snapshotIndex
           w == copyAndApplyBlock(v, b)
<1>1. /\ v.blocks \in Seq(Miniblock) /\ v.minipool \in Seq(Event)
      /\ v.snapshot \subseteq Event /\ v.snapshotIndex \in Nat \ {0}
      /\ b.events \in Seq(Event) /\ b.num \in Nat /\ b.snapshot \subseteq Event
  BY Zenon, ViewFields, MiniblockFields
<1>2. start \in 0..Len(v.blocks)
  BY <1>1, ViewAssumption DEF IntMax
<1>3. w = [blocks |-> bs, minipool |-> rest, generation |-> b.num + 1,
           snapshot |-> snap, snapshotIndex |-> idx]
  BY Zenon DEF copyAndApplyBlock
<1>4. /\ rest \in Seq(Event) /\ Len(rest) = Len(v.minipool) - Len(b.events)
      /\ \A j \in 1..Len(rest) : rest[j] = v.minipool[Len(b.events) + j]
  BY Zenon, <1>1, WithoutPrefix
<1> HIDE DEF rest, start, w
<1>5. bs \in Seq(Miniblock) /\ bs # << >> /\ bs[Len(bs)] = b
  <2>1. SubSeq(v.blocks, start + 1, Len(v.blocks)) \in Seq(Miniblock)
    BY <1>1, <1>2
  <2>2. bs \in Seq(Miniblock) /\ Len(bs) \in Nat \ {0} /\ bs[Len(bs)] = b
    BY SMTT(30), Z3T(30), <2>1
  <2> HIDE DEF bs
  <2> QED
    BY <2>2
<1>6. snap \subseteq Event /\ idx \in Nat \ {0}
  BY <1>1, <1>2
<1> HIDE DEF bs, snap, idx
<1>7. w \in View
  BY SMTT(30), Z3T(30), <1>1, <1>3, <1>4, <1>5, <1>6 DEF View
<1>8. v.minipool = b.events \o rest
  <2>1. /\ Len(b.events \o rest) = Len(v.minipool) /\ b.events \o rest \in Seq(Event)
        /\ \A i \in 1..Len(v.minipool) :
             (b.events \o rest)[i] = IF i <= Len(b.events) THEN b.events[i]
                                     ELSE rest[i - Len(b.events)]
    BY SMTT(30), Z3T(30), <1>1, <1>4 DEF StartsWith
  <2>2. ASSUME NEW i \in 1..Len(v.minipool)
        PROVE  v.minipool[i] = (b.events \o rest)[i]
    <3>1. /\ Len(b.events) \in Nat /\ Len(v.minipool) \in Nat
          /\ Len(b.events) <= Len(v.minipool)
      BY <1>1 DEF StartsWith
    <3>2. CASE i <= Len(b.events)
      BY <2>1, <3>1, <3>2 DEF StartsWith
    <3>3. CASE ~(i <= Len(b.events))
      <4>1. /\ i - Len(b.events) \in 1..Len(rest)
            /\ Len(b.events) + (i - Len(b.events)) = i
        BY <1>4, <3>1, <3>3
      <4> QED
        BY Zenon, <1>4, <2>1, <3>3, <4>1
    <3> QED
      BY Zenon, <3>2, <3>3
  <2> QED
    BY Zenon, <1>1, <2>1, <2>2, SameSequence
<1>9. /\ w.minipool = rest /\ w.generation = b.num + 1
      /\ w.blocks # << >> /\ LastBlock(w) = b
  BY Zenon, <1>3, <1>5 DEF LastBlock
<1> QED
  BY Zenon, <1>4, <1>7, <1>8, <1>9 DEF w, rest

(***************************************************************************)
(* The actions of the node and its clients.                                *)
(***************************************************************************)

\* What a step that leaves blocks and minipool rows alone leaves alone.
LEMMA SameEvents ==
  ASSUME UNCHANGED <<dbBlocks, dbMinipool>>
  PROVE  /\ StoredEvents' = StoredEvents
         /\ NoDuplicateEvents' <=> NoDuplicateEvents
         /\ Height' = Height
         /\ BlockEvents(Height)' = BlockEvents(Height)
<1>1. dbBlocks' = dbBlocks /\ dbMinipool' = dbMinipool
  BY Zenon
<1>2. Height' = Height
  BY Zenon, <1>1 DEF Height
<1>3. BlockEvents(Height)' = BlockEvents(Height)
  BY Zenon, <1>1, <1>2 DEF BlockEvents
<1>4. StoredEvents' = StoredEvents
  BY Zenon, <1>1, <1>3 DEF StoredEvents, Height
<1>5. NoDuplicateEvents' <=> NoDuplicateEvents
  BY Zenon, <1>1 DEF NoDuplicateEvents
<1> QED
  BY Zenon, <1>2, <1>3, <1>4, <1>5

\* notifySubscribers only adds events to what a client has been sent.
LEMMA NotifyType ==
  ASSUME TypeOK, NEW events \in SUBSET Event, NEW v \in View, Notify(events, v)
  PROVE  cookie' \in [Client -> Cookie] /\ got' \in [Client -> SUBSET Event]
<1>1. SyncCookie(v) \in Cookie
  BY ViewFields DEF SyncCookie, Cookie
<1> QED
  BY Zenon, <1>1 DEF TypeOK, Notify

\* A step after which the producer is idle, and nothing else but the counts
\* has changed.
LEMMA AbandonStep ==
  ASSUME Inv, ProducerReturns, failures' \in Nat,
         UNCHANGED <<dbVars, chainVars, cached, view, receivers, inflight,
                     clientVars, prevHash, acked, nextHash, crashes, ambiguous, forced>>
  PROVE  Inv'
<1> USE DEF Inv, ProducerReturns, dbVars, chainVars, clientVars, Loaded
<1>1. TypeOK'
  <2>1. Genesis \in Miniblock
    BY Zenon, GenesisFacts
  <2> QED
    BY Zenon, <2>1 DEF TypeOK, StorageTypeOK, ProducerState
<1>2. InvAbsent' /\ InvStorage'
  BY Zenon DEF InvAbsent, InvStorage, Height
<1>3. InvView'
  BY Zenon DEF InvView, Current, Behind, LastBlock, Height
<1>4. InvProducer'
  BY Zenon DEF InvProducer
<1>5. InvRegistry'
  BY Zenon DEF InvRegistry, RegistryTracksStorage, Height
<1>6. InvEvents' /\ InvAcked'
  BY Zenon, SameEvents DEF InvEvents, InvAcked, AckedDurable
<1> QED
  BY Zenon, <1>1, <1>2, <1>3, <1>4, <1>5, <1>6

(***************************************************************************)
(* The rows that PromoteBlock leaves, whether or not the view follows.     *)
(* next is the view after the block and rest the minipool it keeps.        *)
(***************************************************************************)
LEMMA PromoteStep ==
  ASSUME Inv, producer = "registered", Loaded,
         NEW rest \in Seq(Event), view.minipool = work.events \o rest,
         NEW next \in View, next.minipool = rest, next.generation = Height + 1,
         next.blocks # << >>, LastBlock(next) = work,
         PromoteBlock(view.generation, work.hash, work.isSnapshot, rest),
         \/ view' = next /\ ambiguous' = ambiguous
         \/ view' = view /\ ambiguous' = ambiguous + 1,
         cookie' \in [Client -> Cookie], got' \in [Client -> SUBSET Event],
         ProducerReturns,
         UNCHANGED <<chainVars, cached, receivers, inflight, prevHash, acked,
                     nextHash, crashes, failures, forced>>
  PROVE  Inv'
<1> DEFINE n == Height
<1> USE DEF Inv, chainVars, ProducerReturns
<1>1. /\ view \in View /\ work \in Miniblock /\ dbBlocks \in Seq(Miniblock)
      /\ n \in Nat \ {0} /\ work.num = n /\ work \in dbCandidates
      /\ work.prev = dbBlocks[n].hash /\ view.generation = n
      /\ view.blocks # << >> /\ LastBlock(view) = dbBlocks[n]
      /\ StartsWith(view.minipool, work.events) /\ Distinct(view.minipool)
      /\ Elements(view.minipool) \subseteq Elements(dbMinipool)
      /\ Elements(work.events) \subseteq Elements(view.minipool)
      /\ Distinct(work.events)
  BY Zenon, RegisteredFacts
<1>2. /\ next \in View /\ next.minipool = rest /\ rest \in Seq(Event)
      /\ next.generation = n + 1 /\ next.blocks # << >> /\ LastBlock(next) = work
      /\ view.minipool = work.events \o rest
  BY Zenon
<1>3. /\ dbBlocks' = Append(dbBlocks, work)
      /\ dbSnapshot' = IF work.isSnapshot THEN n ELSE dbSnapshot
      /\ dbGeneration' = n + 1
      /\ dbMinipool' = rest
      /\ dbCandidates' = {c \in dbCandidates : c.num > n}
  <2>1. CandidatesFor(n, work.hash) = {work}
    BY Zenon, <1>1 DEF CandidatesFor, InvStorage
  <2> QED
    BY Zenon, <1>1, <1>2, <2>1 DEF PromoteBlock
<1>4. /\ dbBlocks' \in Seq(Miniblock) /\ Len(dbBlocks') = n + 1 /\ Height' = n + 1
      /\ \A i \in 1..n : dbBlocks'[i] = dbBlocks[i]
      /\ dbBlocks'[n + 1] = work
      /\ DOMAIN dbBlocks = 1..n /\ DOMAIN dbBlocks' = 1..(n+1)
  BY <1>1, <1>3 DEF Height
<1>5. /\ pendingTx' = << >> /\ registry' = IdOf(work)
  BY Zenon DEF InvRegistry
<1>6. TypeOK'
  <2>1. Genesis \in Miniblock
    BY Zenon, GenesisFacts
  <2>2. view' \in View /\ ambiguous' \in Nat
    BY SMTT(30), Z3T(30), <1>1, <1>2 DEF TypeOK
  <2>3. StorageTypeOK'
    BY SMTT(30), Z3T(30), <1>1, <1>2, <1>3, <1>4 DEF TypeOK, StorageTypeOK
  <2> QED
    BY Zenon, <2>1, <2>2, <2>3 DEF TypeOK, ProducerState
<1>7. InvAbsent'
  <2>1. dbBlocks' # << >>
    BY <1>1, <1>4
  <2> QED
    BY Zenon, <2>1 DEF InvAbsent
<1>8. InvStorage'
  <2>1. /\ dbGeneration' = Height' /\ dbSnapshot' < Height'
        /\ dbBlocks'[dbSnapshot' + 1].isSnapshot
    <3>1. dbSnapshot \in Nat /\ dbSnapshot < n /\ dbBlocks[dbSnapshot + 1].isSnapshot
      BY Zenon, <1>1 DEF InvStorage, TypeOK, StorageTypeOK, Height
    <3>2. CASE work.isSnapshot
      BY SMTT(30), Z3T(30), <1>1, <1>3, <1>4, <3>2
    <3>3. CASE ~work.isSnapshot
      BY SMTT(30), Z3T(30), <1>1, <1>3, <1>4, <3>1, <3>3
    <3> QED
      BY Zenon, <3>2, <3>3
  <2>2. \A i \in 1..(n+1) : dbBlocks'[i].num = i - 1
    BY SMTT(30), Z3T(30), <1>1, <1>4 DEF InvStorage
  <2>3. \A i \in 2..(n+1) : dbBlocks'[i].prev = dbBlocks'[i-1].hash
    BY SMTT(30), Z3T(30), <1>1, <1>4 DEF InvStorage
  <2>4. \A c \in dbCandidates' : c \in dbCandidates
    BY Zenon, <1>3
  <2> QED
    BY Zenon, <1>4, <2>1, <2>2, <2>3, <2>4 DEF InvStorage
<1>9. InvView'
  <2>1. CASE view' = next
    <3>1. Current'
      BY SMTT(30), Z3T(30), <1>2, <1>3, <1>4, <2>1 DEF Current, StartsWith
    <3> QED
      BY SMTT(30), Z3T(30), <1>1, <1>2, <1>4, <2>1, <3>1 DEF InvView
  <2>2. CASE view' = view /\ ambiguous' = ambiguous + 1
    <3>1. Behind'
      BY SMTT(30), Z3T(30), <1>1, <1>2, <1>3, <1>4, <2>2 DEF Behind, TypeOK
    <3> QED
      BY SMTT(30), Z3T(30), <1>1, <1>4, <2>2, <3>1 DEF InvView
  <2> QED
    BY Zenon, <2>1, <2>2
<1>10. InvProducer'
  BY Zenon DEF InvProducer
<1>11. InvRegistry'
  BY SMTT(30), Z3T(30), <1>4, <1>5 DEF InvRegistry, RegistryTracksStorage
<1>12. /\ Elements(view.minipool) = Elements(work.events) \cup Elements(rest)
       /\ Elements(work.events) \cap Elements(rest) = {}
       /\ Distinct(rest)
  <2>1. view.minipool \in Seq(Event) /\ work.events \in Seq(Event)
    BY Zenon, <1>1, ViewFields, MiniblockFields
  <2> QED
    BY <1>1, <1>2, <2>1, ConcatElements
<1>13. /\ BlockEvents(Height)' = BlockEvents(n) \cup Elements(work.events)
       /\ StoredEvents' = BlockEvents(n) \cup Elements(view.minipool)
       /\ StoredEvents' \subseteq StoredEvents
  <2>1. BlockEvents(Height)' = BlockEvents(n) \cup Elements(work.events)
    <3>1. \A i \in 1..(n+1) : i \in 1..n \/ i = n + 1
      BY <1>1
    <3>2. n + 1 \in 1..(n+1) /\ \A i \in 1..n : i \in 1..(n+1)
      BY <1>1
    <3>3. BlockEvents(Height)' = UNION {Elements(dbBlocks'[i].events) : i \in 1..(n+1)}
      BY Zenon, <1>4 DEF BlockEvents
    <3>4. BlockEvents(n) = UNION {Elements(dbBlocks[i].events) : i \in 1..n}
      BY Zenon DEF BlockEvents
    <3> HIDE DEF n
    <3> QED
      BY ZenonT(30), <1>4, <3>1, <3>2, <3>3, <3>4
  <2>2. StoredEvents' = BlockEvents(Height)' \cup Elements(rest)
    BY Zenon, <1>3, <1>4 DEF StoredEvents
  <2>3. StoredEvents = BlockEvents(n) \cup Elements(dbMinipool)
    BY Zenon DEF StoredEvents, Height
  <2> QED
    BY Zenon, <1>1, <1>12, <2>1, <2>2, <2>3
<1>14. InvEvents'
  <2>1. Distinct(dbMinipool')
    BY Zenon, <1>3, <1>12
  <2>2. ASSUME NEW i \in 1..n
        PROVE  /\ Distinct(dbBlocks[i].events)
               /\ Elements(dbBlocks[i].events) \cap Elements(view.minipool) = {}
               /\ \A j \in 1..n : i # j =>
                    Elements(dbBlocks[i].events) \cap Elements(dbBlocks[j].events) = {}
    BY Zenon, <1>1, <1>4 DEF InvEvents, NoDuplicateEvents
  <2>3. \A i \in 1..(n+1) : Distinct(dbBlocks'[i].events)
    <3>1. \A i \in 1..(n+1) : i \in 1..n \/ i = n + 1
      BY <1>1
    <3>2. \A i \in 1..n : Distinct(dbBlocks'[i].events)
      BY ZenonT(30), <1>4, <2>2
    <3> QED
      BY Zenon, <1>1, <1>4, <3>1, <3>2
  <2>4. \A i \in 1..(n+1) :
          Elements(dbBlocks'[i].events) \cap Elements(dbMinipool') = {}
    <3>1. \A i \in 1..n : Elements(dbBlocks[i].events) \cap Elements(rest) = {}
      BY Zenon, <1>12, <2>2
    <3> QED
      BY <1>1, <1>3, <1>4, <1>12, <3>1
  <2>5. \A i, j \in 1..(n+1) : i # j =>
          Elements(dbBlocks'[i].events) \cap Elements(dbBlocks'[j].events) = {}
    <3>1. \A i \in 1..n : Elements(dbBlocks[i].events) \cap Elements(work.events) = {}
      BY Zenon, <1>12, <2>2
    <3>2. \A i \in 1..(n+1) : i \in 1..n \/ i = n + 1
      BY <1>1
    <3> QED
      BY Zenon, <1>4, <2>2, <3>1, <3>2
  <2>6. NoDuplicateEvents'
    BY Zenon, <1>4, <2>1, <2>3, <2>4, <2>5 DEF NoDuplicateEvents
  <2> QED
    BY Zenon, <1>13, <2>6 DEF InvEvents
<1>15. InvAcked'
  <2>1. acked \subseteq StoredEvents'
    BY Zenon, <1>1, <1>13 DEF InvAcked
  <2>2. CASE view' = next
    <3>1. StoredEvents' = BlockEvents(Height)' \cup Elements(view'.minipool)
      BY Zenon, <1>2, <1>3, <1>4, <2>2 DEF StoredEvents
    <3> QED
      BY Zenon, <2>1, <3>1 DEF InvAcked, AckedDurable
  <2>3. CASE view' = view
    BY <1>1, <1>4, <2>1, <2>3 DEF InvAcked, AckedDurable
  <2> QED
    BY Zenon, <2>2, <2>3
<1> QED
  BY Zenon, <1>6, <1>7, <1>8, <1>9, <1>10, <1>11, <1>14, <1>15

\* A stream that is not created yet satisfies the invariant.
LEMMA InitInv == Init => Inv
<1> SUFFICES ASSUME Init PROVE Inv
  BY Zenon
<1> USE ViewAssumption DEF Init, StorageInit
<1>1. Genesis \in Miniblock
  BY Zenon, GenesisFacts
<1>2. TypeOK
  BY SMTT(30), Z3T(30), <1>1 DEF TypeOK, StorageTypeOK, ProducerState, BlockId, IdOf, Cookie, Genesis
<1>3. InvAbsent /\ InvStorage
  BY DEF InvAbsent, InvStorage, Loaded, Height
<1>4. InvView /\ InvProducer
  BY Zenon DEF InvView, InvProducer, Loaded
<1>5. InvRegistry
  BY DEF InvRegistry, RegistryTracksStorage
<1>6. InvEvents /\ InvAcked
  BY DEF InvEvents, InvAcked, NoDuplicateEvents, AckedDurable, StoredEvents,
         BlockEvents, Elements, Distinct, Loaded
<1> QED
  BY Zenon, <1>2, <1>3, <1>4, <1>5, <1>6 DEF Inv

\* tryCleanup drops the view and keeps everything that is stored.
LEMMA UnloadStep ==
  ASSUME Inv, Evict \/ ForceFlush
  PROVE  Inv'
<1> USE DEF Inv, Evict, ForceFlush, dbVars, chainVars, clientVars, countVars, Loaded
<1>1. TypeOK'
  BY Zenon DEF TypeOK, StorageTypeOK
<1>2. InvAbsent' /\ InvStorage'
  BY Zenon DEF InvAbsent, InvStorage, Height
<1>3. InvView' /\ InvProducer'
  BY Zenon DEF InvView, InvProducer, Height
<1>5. InvRegistry'
  BY Zenon DEF InvRegistry, RegistryTracksStorage, Height
<1>6. InvEvents' /\ InvAcked'
  BY Zenon, SameEvents DEF InvEvents, InvAcked, AckedDurable
<1> QED
  BY Zenon, <1>1, <1>2, <1>3, <1>5, <1>6 DEF Inv

\* A crash loses what is in memory, the block of the producer included.
LEMMA CrashStep ==
  ASSUME Inv, Crash
  PROVE  Inv'
<1> USE DEF Inv, Crash, dbVars, chainVars, clientVars, Loaded
<1>1. TypeOK'
  <2>1. Genesis \in Miniblock
    BY Zenon, GenesisFacts
  <2> QED
    BY <2>1 DEF TypeOK, StorageTypeOK, ProducerState
<1>2. InvAbsent' /\ InvStorage'
  BY Zenon DEF InvAbsent, InvStorage, Height
<1>3. InvView' /\ InvProducer'
  BY Zenon DEF InvView, InvProducer
<1>4. InvRegistry'
  BY Zenon DEF InvRegistry, RegistryTracksStorage, Height
<1>5. InvEvents' /\ InvAcked'
  BY Zenon, SameEvents DEF InvEvents, InvAcked, AckedDurable
<1> QED
  BY Zenon, <1>1, <1>2, <1>3, <1>4, <1>5

(***************************************************************************)
(* Adding an event.                                                        *)
(***************************************************************************)
LEMMA AddEventFailsStep ==
  ASSUME Inv, NEW r \in Request, AddEventFails(r)
  PROVE  Inv'
<1> USE DEF Inv, AddEventFails, dbVars, chainVars, clientVars, countVars, Loaded
<1>1. TypeOK'
  BY Zenon DEF TypeOK, StorageTypeOK
<1>2. InvAbsent' /\ InvStorage'
  BY Zenon DEF InvAbsent, InvStorage, Height
<1>3. InvView'
  BY Zenon DEF InvView, Current, Behind, LastBlock, Height
<1>4. InvProducer'
  BY Zenon DEF InvProducer, Height
<1>5. InvRegistry'
  BY Zenon DEF InvRegistry, RegistryTracksStorage, Height
<1>6. InvEvents'
  <2>1. \A q \in Request : inflight'[q] # NoEvent => inflight'[q] = inflight[q]
    BY Zenon DEF TypeOK
  <2> QED
    BY Zenon, SameEvents, <2>1 DEF InvEvents, TypeOK
<1>7. InvAcked'
  BY Zenon, SameEvents DEF InvAcked, AckedDurable
<1> QED
  BY Zenon, <1>1, <1>2, <1>3, <1>4, <1>5, <1>6, <1>7

\* ValidateNextEvent puts a request in flight and changes nothing else.
LEMMA CheckEventStep ==
  ASSUME Inv, Retries = "none",
         NEW r \in Request, NEW e \in Event, CheckEvent(r, e)
  PROVE  Inv'
<1> USE DEF Inv, dbVars, chainVars, clientVars, countVars, Loaded
<1>1. /\ prevHash[e] = -1
      /\ inflight[r] = NoEvent
      /\ inflight' = [inflight EXCEPT ![r] = e]
      /\ UNCHANGED <<dbVars, chainVars, cached, view, receivers, producer, work,
                     clientVars, acked, nextHash, countVars>>
  BY Zenon DEF CheckEvent, MaySubmit
<1>2. PICK h \in Nat : prevHash' = [prevHash EXCEPT ![e] = h]
  <2>1. PICK i \in 1..view.generation :
          prevHash' = [prevHash EXCEPT ![e] = dbBlocks[i].hash]
    BY Zenon, <1>1 DEF CheckEvent
  <2>2. i \in DOMAIN dbBlocks
    BY SMTT(30), Z3T(30) DEF CheckEvent, InvView, Height, TypeOK, StorageTypeOK
  <2>3. dbBlocks[i].hash \in Nat
    <3>1. dbBlocks[i] \in Miniblock
      BY <2>2 DEF TypeOK, StorageTypeOK
    <3> QED
      BY Zenon, <3>1 DEF Miniblock
  <2> QED
    BY Zenon, <2>1, <2>3
<1>3. TypeOK'
  BY Zenon, <1>1, <1>2 DEF TypeOK, StorageTypeOK
<1>4. InvAbsent' /\ InvStorage'
  BY Zenon, <1>1 DEF InvAbsent, InvStorage, Height
<1>5. InvView'
  BY Zenon, <1>1 DEF InvView, Current, Behind, LastBlock, Height
<1>6. InvProducer'
  BY Zenon, <1>1 DEF InvProducer, Height
<1>7. InvRegistry'
  BY Zenon, <1>1 DEF InvRegistry, RegistryTracksStorage, Height
<1>8. InvEvents'
  <2>1. StoredEvents' = StoredEvents /\ (NoDuplicateEvents' <=> NoDuplicateEvents)
    BY Zenon, <1>1, SameEvents
  <2>2. \A d \in Event : prevHash'[d] = -1 => prevHash[d] = -1
    BY Zenon, <1>1, <1>2 DEF TypeOK
  <2>3. ASSUME NEW q \in Request, inflight'[q] # NoEvent
        PROVE  /\ prevHash'[inflight'[q]] # -1
               /\ inflight'[q] \notin StoredEvents
               /\ \A p \in Request : inflight'[p] = inflight'[q] => p = q
    <3>1. e \notin StoredEvents /\ \A p \in Request : inflight[p] # e
      BY Zenon, <1>1, ViewAssumption DEF InvEvents
    <3>2. CASE q = r
      BY <1>1, <1>2, <2>3, <3>1, <3>2 DEF TypeOK
    <3>3. CASE q # r
      BY Zenon, <1>1, <1>2, <2>3, <3>1, <3>3 DEF TypeOK, InvEvents
    <3> QED
      BY Zenon, <3>2, <3>3
  <2> QED
    BY Zenon, <2>1, <2>2, <2>3 DEF InvEvents
<1>9. InvAcked'
  BY Zenon, <1>1, SameEvents DEF InvAcked, AckedDurable
<1> QED
  BY Zenon, <1>3, <1>4, <1>5, <1>6, <1>7, <1>8, <1>9

\* What Sub collects from the blocks of a view is a set of events.
LEMMA EventsFromType ==
  ASSUME NEW v \in View, NEW i \in DOMAIN v.blocks
  PROVE  EventsFrom(v, i) \subseteq Event
<1> SUFFICES ASSUME NEW e \in EventsFrom(v, i) PROVE e \in Event
  BY Zenon
<1>1. v.blocks \in Seq(Miniblock) /\ Elements(v.minipool) \subseteq Event
  BY Zenon, ViewFields
<1>2. \/ \E k \in i..Len(v.blocks) : e \in Elements(v.blocks[k].events)
      \/ e \in Elements(v.minipool)
  BY Zenon DEF EventsFrom
<1>3. ASSUME NEW k \in i..Len(v.blocks), e \in Elements(v.blocks[k].events)
      PROVE  e \in Event
  <2>1. v.blocks[k] \in Miniblock
    BY <1>1
  <2> QED
    BY Zenon, <1>3, <2>1, MiniblockFields
<1> QED
  BY Zenon, <1>1, <1>2, <1>3

(***************************************************************************)
(* Reading and syncing change what clients know, and the receivers.        *)
(***************************************************************************)
LEMMA ClientStep ==
  ASSUME Inv, NEW c \in Client, GetStream(c) \/ Sub(c) \/ Unsub(c)
  PROVE  Inv'
<1>1. /\ UNCHANGED <<dbVars, chainVars, cached, view, inflight, producer, work,
                     prevHash, acked, nextHash, countVars>>
      /\ receivers' \subseteq Client
  BY Zenon DEF Inv, TypeOK, GetStream, Sub, Unsub, nodeVars
<1> USE DEF Inv, dbVars, chainVars, countVars
<1>2. cookie' \in [Client -> Cookie] /\ got' \in [Client -> SUBSET Event]
  <2>1. CASE Unsub(c)
    BY Zenon, <2>1 DEF Unsub, TypeOK, clientVars
  <2>2. CASE GetStream(c) \/ Sub(c)
    <3>1. view \in View
      BY Zenon, <2>2 DEF GetStream, Sub, Loaded, TypeOK
    <3>2. /\ view.blocks \in Seq(Miniblock) /\ view.minipool \in Seq(Event)
          /\ view.generation \in Nat /\ view.snapshot \subseteq Event
          /\ Elements(view.minipool) \subseteq Event
          /\ EventsSinceSnapshot(view) \subseteq Event
      BY Zenon, <3>1, ViewFields
    <3>3. SyncCookie(view) \in Cookie
      BY <3>2 DEF SyncCookie, Cookie
    <3>4. StreamContents(view) \subseteq Event
      BY Zenon, <3>2 DEF StreamContents
    <3>5. EventsFromSlot(view, cookie[c].slot) \subseteq Event
      <4>1. cookie[c].slot \in Nat
        BY Zenon DEF TypeOK, Cookie
      <4> QED
        BY SMTT(30), Z3T(30), <3>2, <4>1 DEF EventsFromSlot
    <3>6. \A i \in DOMAIN view.blocks : EventsFrom(view, i) \subseteq Event
      BY ZenonT(30), <3>1, EventsFromType
    <3>7. cookie' \in [Client -> Cookie]
      BY SMTT(30), Z3T(30), <2>2, <3>3 DEF GetStream, Sub, TypeOK
    <3>8. CASE GetStream(c)
      BY Zenon, <3>4, <3>7, <3>8 DEF GetStream, TypeOK
    <3>9. CASE Sub(c)
      <4> DEFINE blocks == indexOfMiniblockWithNum(view, cookie[c].gen)
                 i == CHOOSE k \in blocks : TRUE
                 new == IF cookie[c].gen = view.generation
                        THEN got[c] \cup EventsFromSlot(view, cookie[c].slot)
                        ELSE IF blocks # {} THEN got[c] \cup EventsFrom(view, i)
                        ELSE StreamContents(view)
      <4>1. blocks # {} => i \in DOMAIN view.blocks
        BY Zenon DEF indexOfMiniblockWithNum
      <4>2. got[c] \subseteq Event
        BY Zenon DEF TypeOK
      <4>3. new \subseteq Event
        BY Zenon, <3>4, <3>5, <3>6, <4>1, <4>2
      <4>4. got' = [got EXCEPT ![c] = new]
        BY Zenon, <3>9 DEF Sub
      <4> HIDE DEF new
      <4> QED
        BY Zenon, <3>7, <4>3, <4>4 DEF TypeOK
    <3> QED
      BY Zenon, <2>2, <3>8, <3>9
  <2> QED
    BY Zenon, <2>1, <2>2
<1>3. TypeOK'
  BY Zenon, <1>1, <1>2 DEF TypeOK, StorageTypeOK
<1>4. InvAbsent' /\ InvStorage'
  BY Zenon, <1>1 DEF InvAbsent, InvStorage, Height, Loaded
<1>5. InvView'
  BY Zenon, <1>1 DEF InvView, Current, Behind, LastBlock, Height, Loaded
<1>6. InvProducer'
  BY Zenon, <1>1 DEF InvProducer, Height, Loaded
<1>7. InvRegistry'
  BY Zenon, <1>1 DEF InvRegistry, RegistryTracksStorage, Height
<1>8. InvEvents' /\ InvAcked'
  BY Zenon, <1>1, SameEvents DEF InvEvents, InvAcked, AckedDurable, Loaded
<1> QED
  BY Zenon, <1>3, <1>4, <1>5, <1>6, <1>7, <1>8

\* Creating the rows of a stream from its genesis block.
LEMMA CreateStep ==
  ASSUME Inv, CanCreateStreamStorage, CreateStreamStorage(Genesis),
         view' \in {view, MakeStreamView(<<Genesis>>, << >>)},
         cached' \in BOOLEAN, failures' \in Nat, ambiguous' \in Nat,
         UNCHANGED <<chainVars, receivers, inflight, producer, work, clientVars,
                     prevHash, acked, nextHash, crashes, forced>>
  PROVE  Inv'
<1> USE DEF Inv, chainVars, clientVars
<1>1. /\ dbBlocks = << >> /\ dbBlocks' = <<Genesis>>
      /\ dbSnapshot' = 0 /\ dbGeneration' = 1 /\ dbMinipool' = << >>
      /\ dbCandidates' = {} /\ dbMinipool = << >> /\ pendingTx = << >>
      /\ producer = "idle" /\ view = NoView /\ registry = IdOf(Genesis)
  BY ZenonT(30) DEF CanCreateStreamStorage, CreateStreamStorage, InvAbsent, Loaded
<1>2. /\ Genesis \in Miniblock /\ Genesis.num = 0
      /\ Genesis.isSnapshot /\ Genesis.events = << >>
  BY ZenonT(30), GenesisFacts
<1>3. dbBlocks' \in Seq(Miniblock) /\ Height' = 1 /\ dbBlocks'[1] = Genesis
  BY <1>1, <1>2 DEF Height
<1>4. view' # NoView =>
        /\ view' \in View
        /\ view'.blocks # << >> /\ view'.minipool = << >>
        /\ view'.generation = 1 /\ LastBlock(view') = Genesis
  <2>1. /\ <<Genesis>> \in Seq(Miniblock) /\ <<Genesis>> # << >>
        /\ <<Genesis>>[1].isSnapshot /\ << >> \in Seq(Event)
    BY <1>2
  <2>2. CASE view' = MakeStreamView(<<Genesis>>, << >>)
    <3>1. /\ view' \in View /\ view'.blocks = <<Genesis>> /\ view'.minipool = << >>
          /\ view'.generation = LastBlock(view').num + 1
      <4> DEFINE blocks == <<Genesis>>
                 pool == << >>
      <4>1. /\ blocks \in Seq(Miniblock) /\ blocks # << >> /\ blocks[1].isSnapshot
            /\ pool \in Seq(Event) /\ view' = MakeStreamView(blocks, pool)
        BY Zenon, <2>1, <2>2
      <4> HIDE DEF blocks, pool
      <4>2. /\ view' \in View /\ view'.blocks = blocks /\ view'.minipool = pool
            /\ view'.generation = LastBlock(view').num + 1
        BY ZenonT(30), <4>1, MakeStreamViewType
      <4> QED
        BY Zenon, <4>2 DEF blocks, pool
    <3> QED
      BY <1>2, <3>1 DEF LastBlock
  <2> QED
    BY Zenon, <1>1, <2>2
<1>5. TypeOK'
  BY Zenon, <1>1, <1>3, <1>4 DEF TypeOK, StorageTypeOK
<1>6. InvAbsent' /\ InvStorage'
  BY <1>1, <1>2, <1>3 DEF InvAbsent, InvStorage
<1>7. InvView'
  <2>1. view' # NoView => Current'
    BY <1>1, <1>3, <1>4 DEF Current, StartsWith
  <2> QED
    BY <1>3, <1>4, <2>1 DEF InvView, Loaded
<1>8. InvProducer'
  BY Zenon, <1>1 DEF InvProducer
<1>9. InvRegistry'
  BY <1>1, <1>3 DEF InvRegistry, RegistryTracksStorage, Height
<1>10. StoredEvents = {} /\ StoredEvents' = {} /\ NoDuplicateEvents'
  <2>1. StoredEvents = {}
    BY SMTT(30), Z3T(30), <1>1 DEF StoredEvents, BlockEvents, Elements
  <2>2. Elements(Genesis.events) = {} /\ Elements(dbMinipool') = {}
        /\ Distinct(Genesis.events) /\ Distinct(dbMinipool')
    BY <1>1, <1>2 DEF Elements, Distinct
  <2>3. StoredEvents' = {}
    BY SMTT(30), Z3T(30), <1>1, <1>3, <2>2 DEF StoredEvents, BlockEvents
  <2>4. NoDuplicateEvents'
    BY <1>1, <1>3, <2>2 DEF NoDuplicateEvents
  <2> QED
    BY ZenonT(30), <2>1, <2>3, <2>4
<1>11. InvEvents'
  BY Zenon, <1>10 DEF InvEvents
<1>12. InvAcked'
  BY Zenon, <1>10 DEF InvAcked, AckedDurable
<1> QED
  BY Zenon, <1>5, <1>6, <1>7, <1>8, <1>9, <1>11, <1>12

\* tryLoadStreamRecord, for a new stream and for one that exists.
LEMMA TryLoadStreamRecordStep ==
  ASSUME Inv, TryLoadStreamRecord
  PROVE  Inv'
<1>1. /\ cached' = TRUE
      /\ UNCHANGED <<chainVars, receivers, inflight, producer, work, clientVars,
                     prevHash, acked, nextHash, crashes, forced>>
      /\ failures' \in Nat /\ ambiguous' \in Nat
  BY DEF Inv, TypeOK, TryLoadStreamRecord
<1>2. CASE CanCreateStreamStorage /\ CreateStreamStorage(Genesis)
  <2>1. view' \in {view, MakeStreamView(<<Genesis>>, << >>)}
    BY Zenon DEF TryLoadStreamRecord
  <2> QED
    BY Zenon, <1>1, <1>2, <2>1, CreateStep
<1>3. CASE UNCHANGED <<dbVars, view, ambiguous>>
  <2> USE <1>1, <1>3 DEF Inv, dbVars, chainVars, clientVars, Loaded
  <2>1. TypeOK'
    BY Zenon DEF TypeOK, StorageTypeOK
  <2>2. InvAbsent' /\ InvStorage'
    BY Zenon DEF InvAbsent, InvStorage, Height
  <2>3. InvView'
    BY Zenon DEF InvView, Current, Behind, LastBlock, Height
  <2>4. InvProducer'
    BY Zenon DEF InvProducer, Height
  <2>5. InvRegistry'
    BY Zenon DEF InvRegistry, RegistryTracksStorage, Height
  <2>6. InvEvents' /\ InvAcked'
    BY Zenon, SameEvents DEF InvEvents, InvAcked, AckedDurable
  <2> QED
    BY Zenon, <2>1, <2>2, <2>3, <2>4, <2>5, <2>6
<1> QED
  BY Zenon, <1>2, <1>3 DEF TryLoadStreamRecord

\* loadInternal: a view made from storage agrees with storage.
LEMMA LoadStep ==
  ASSUME Inv, Load
  PROVE  Inv'
<1>1. CASE initFromBlockchain
  <2>1. /\ cached' \in BOOLEAN /\ failures' \in Nat /\ ambiguous' \in Nat
        /\ UNCHANGED <<chainVars, receivers, inflight, producer, work, clientVars,
                       prevHash, acked, nextHash, crashes, forced>>
    BY Zenon DEF Load, Inv, TypeOK, countVars
  <2> QED
    BY Zenon, <1>1, <2>1, CreateStep DEF initFromBlockchain
<1>2. CASE LoadFromStorage
  <2> USE DEF Inv, dbVars, chainVars, clientVars, countVars
  <2>1. /\ view' = MakeStreamView(StoredBlocks, dbMinipool)
        /\ UNCHANGED <<dbVars, chainVars, cached, receivers, inflight, producer,
                       work, clientVars, prevHash, acked, nextHash, countVars>>
        /\ dbBlocks # << >>
    BY Zenon, <1>2 DEF Load, LoadFromStorage, CanReadStreamFromLastSnapshot
  <2>2. /\ dbBlocks \in Seq(Miniblock) /\ Height = Len(dbBlocks)
        /\ Height \in Nat \ {0} /\ dbSnapshot \in 0..(Height-1)
        /\ dbBlocks[dbSnapshot + 1].isSnapshot /\ dbBlocks[Height].num = Height - 1
        /\ dbMinipool \in Seq(Event)
    <3>1. /\ dbBlocks \in Seq(Miniblock) /\ dbMinipool \in Seq(Event)
          /\ dbSnapshot \in Nat
      BY Zenon DEF TypeOK, StorageTypeOK
    <3>2. Height = Len(dbBlocks) /\ Height \in Nat \ {0}
      BY <2>1, <3>1 DEF Height
    <3>3. InvStorage
      BY Zenon
    <3>4. /\ dbSnapshot < Height /\ dbBlocks[dbSnapshot + 1].isSnapshot
          /\ \A i \in 1..Height : dbBlocks[i].num = i - 1
      BY Zenon, <2>1, <3>3 DEF InvStorage
    <3> HIDE DEF Inv
    <3> QED
      BY <3>1, <3>2, <3>4
  <2>3. /\ StoredBlocks \in Seq(Miniblock) /\ Len(StoredBlocks) = Height - dbSnapshot
        /\ StoredBlocks[1] = dbBlocks[dbSnapshot + 1]
        /\ StoredBlocks[Height - dbSnapshot] = dbBlocks[Height]
    BY <2>2 DEF StoredBlocks
  <2>4. /\ view' \in View /\ view'.blocks # << >> /\ view'.minipool = dbMinipool
        /\ LastBlock(view') = dbBlocks[Height] /\ view'.generation = Height
    <3>1. StoredBlocks # << >> /\ StoredBlocks[1].isSnapshot
      BY <2>2, <2>3
    <3>2. /\ view' \in View /\ view'.blocks = StoredBlocks /\ view'.minipool = dbMinipool
          /\ view'.generation = LastBlock(view').num + 1
      BY Zenon, <2>1, <2>2, <2>3, <3>1, MakeStreamViewType
    <3> QED
      BY <2>2, <2>3, <3>1, <3>2 DEF LastBlock
  <2>5. view' # NoView
    BY Zenon, <2>4, StreamAssumption
  <2>6. TypeOK'
    BY Zenon, <2>1, <2>4 DEF TypeOK, StorageTypeOK
  <2>7. InvAbsent' /\ InvStorage'
    BY Zenon, <2>1 DEF InvAbsent, InvStorage, Height
  <2>8. InvView'
    <3>1. Current'
      BY <2>1, <2>2, <2>4 DEF Current, StartsWith, Height
    <3> QED
      BY SMTT(30), Z3T(30), <2>1, <2>2, <2>4, <3>1 DEF InvView, Height
  <2>9. InvProducer'
    BY Zenon, <2>1, <2>4 DEF InvProducer, Height
  <2>10. InvRegistry'
    BY Zenon, <2>1 DEF InvRegistry, RegistryTracksStorage, Height
  <2>11. InvEvents'
    BY Zenon, <2>1, SameEvents DEF InvEvents
  <2>12. InvAcked'
    BY Zenon, <2>1, <2>4, SameEvents DEF InvAcked, AckedDurable, StoredEvents, Height
  <2> QED
    BY Zenon, <2>6, <2>7, <2>8, <2>9, <2>10, <2>11, <2>12
<1> QED
  BY Zenon, <1>1, <1>2 DEF Load

\* The effect of writing an event to storage, with the view following or not.
LEMMA WriteEventStep ==
  ASSUME Inv, NEW r \in Request, Loaded, inflight[r] # NoEvent,
         CanWriteEvent(view.generation, Len(view.minipool)),
         WriteEvent(inflight[r]),
         \/ /\ view' = copyAndAddEvent(view, inflight[r])
            /\ acked' = acked \cup {inflight[r]}
            /\ ambiguous' = ambiguous
         \/ UNCHANGED <<view, acked>> /\ ambiguous' = ambiguous + 1,
         cookie' \in [Client -> Cookie], got' \in [Client -> SUBSET Event],
         inflight' = [inflight EXCEPT ![r] = NoEvent],
         UNCHANGED <<chainVars, cached, receivers, producer, work, prevHash,
                     nextHash, crashes, failures, forced>>
  PROVE  Inv'
<1> DEFINE e == inflight[r]
<1> USE DEF Inv, chainVars
<1>1. /\ dbMinipool' = Append(dbMinipool, e)
      /\ UNCHANGED <<dbBlocks, dbSnapshot, dbGeneration, dbCandidates>>
      /\ dbGeneration = view.generation /\ Len(dbMinipool) = Len(view.minipool)
  BY ZenonT(30) DEF WriteEvent, CanWriteEvent
<1>2. /\ view \in View /\ e \in Event /\ dbMinipool \in Seq(Event)
      /\ view.minipool \in Seq(Event) /\ dbBlocks # << >>
      /\ dbBlocks \in Seq(Miniblock) /\ Height \in Nat /\ Height' = Height
      /\ ambiguous \in Nat
  BY <1>1, ViewFields DEF TypeOK, StorageTypeOK, Loaded, InvAbsent, Height
<1>3. /\ view.generation = Height /\ dbMinipool = view.minipool
      /\ view.blocks # << >> /\ LastBlock(view) = dbBlocks[Height]
  <2>1. view.generation = Height /\ Current
    BY <1>1, <1>2 DEF InvStorage, InvView, Behind
  <2>2. dbMinipool = view.minipool
    <3>1. \A i \in 1..Len(dbMinipool) : dbMinipool[i] = view.minipool[i]
      BY Zenon, <1>1, <2>1 DEF Current, StartsWith
    <3> QED
      BY Zenon, <1>1, <1>2, <3>1, SameSequence
  <2> QED
    BY ZenonT(30), <2>1, <2>2 DEF InvView
<1>4. /\ Elements(dbMinipool') = Elements(dbMinipool) \cup {e}
      /\ dbMinipool' \in Seq(Event)
      /\ \A t \in Seq(Event) : StartsWith(dbMinipool, t) => StartsWith(dbMinipool', t)
  BY Zenon, <1>1, <1>2, AppendElements
<1>5. /\ view' \in View /\ view'.generation = Height /\ view'.blocks = view.blocks
      /\ LastBlock(view') = LastBlock(view)
      /\ view'.minipool \in {view.minipool, dbMinipool'}
      /\ view'.minipool \in Seq(Event)
      /\ ambiguous' = 0 => view'.minipool = dbMinipool'
      /\ acked' \ acked # {} => view'.minipool = dbMinipool'
      /\ acked \subseteq acked' /\ acked' \subseteq acked \cup {e}
  <2>1. CASE view' = copyAndAddEvent(view, e) /\ acked' = acked \cup {e}
    BY ZenonT(30), <1>1, <1>2, <1>3, <1>4, <2>1, ViewAddEvent DEF LastBlock
  <2>2. CASE UNCHANGED <<view, acked>> /\ ambiguous' = ambiguous + 1
    BY <1>2, <1>3, <2>2
  <2> QED
    BY Zenon, <2>1, <2>2
<1>6. view' # NoView
  BY Zenon, <1>5, StreamAssumption
<1>7. TypeOK'
  <2>1. /\ inflight' \in [Request -> Event \cup {NoEvent}]
        /\ acked' \in SUBSET Event /\ ambiguous' \in Nat
    BY <1>2, <1>5 DEF TypeOK
  <2> QED
    BY ZenonT(30), <1>1, <1>4, <1>5, <2>1 DEF TypeOK, StorageTypeOK
<1>8. InvAbsent' /\ InvStorage'
  BY Zenon, <1>1, <1>2 DEF InvAbsent, InvStorage, Height
<1>9. InvView'
  <2>1. /\ StartsWith(dbMinipool', view'.minipool)
        /\ Len(dbMinipool') <= Len(view'.minipool) + 1
    <3>1. StartsWith(dbMinipool', dbMinipool') /\ Len(dbMinipool') = Len(dbMinipool) + 1
      BY SMTT(30), Z3T(30), <1>1, <1>2 DEF StartsWith
    <3>2. StartsWith(dbMinipool', view.minipool)
      BY <1>2, <1>3, <1>4 DEF StartsWith
    <3> QED
      BY SMTT(30), Z3T(30), <1>2, <1>3, <1>5, <3>1, <3>2
  <2>2. Current'
    BY Zenon, <1>2, <1>5, <2>1 DEF Current
  <2>3. Height \in 1..Height
    BY <1>2 DEF Height
  <2> QED
    BY ZenonT(30), <1>1, <1>2, <1>3, <1>5, <2>2, <2>3 DEF InvView
<1>10. InvProducer'
  <2>1. work.events \in Seq(Event)
    BY Zenon, MiniblockFields DEF TypeOK
  <2>2. ASSUME producer # "idle", work.num = Height
        PROVE  /\ StartsWith(dbMinipool', work.events)
               /\ StartsWith(view'.minipool, work.events)
    <3>1. StartsWith(dbMinipool, work.events)
      BY Zenon, <2>2 DEF InvProducer
    <3>2. StartsWith(dbMinipool', work.events)
      BY Zenon, <1>4, <2>1, <3>1
    <3> QED
      BY Zenon, <1>3, <1>5, <3>1, <3>2
  <2> QED
    BY Zenon, <1>1, <1>2, <1>5, <2>2 DEF InvProducer
<1>11. InvRegistry'
  BY Zenon, <1>1, <1>2 DEF InvRegistry, RegistryTracksStorage, Height
<1>12. /\ BlockEvents(Height)' = BlockEvents(Height)
       /\ StoredEvents' = StoredEvents \cup {e}
       /\ StoredEvents' = BlockEvents(Height) \cup Elements(dbMinipool')
  <2>1. BlockEvents(Height)' = BlockEvents(Height)
    BY ZenonT(30), <1>1, <1>2 DEF BlockEvents
  <2> QED
    BY Zenon, <1>2, <1>4, <2>1 DEF StoredEvents, Height
<1>13. InvEvents'
  <2>1. e \notin StoredEvents /\ prevHash[e] # -1
        /\ \A q \in Request : inflight[q] = e => q = r
    BY Zenon DEF InvEvents
  <2>2. \A i \in DOMAIN dbBlocks : e \notin Elements(dbBlocks[i].events)
    <3>1. DOMAIN dbBlocks = 1..Len(dbBlocks)
      BY <1>2
    <3>2. e \notin BlockEvents(Len(dbBlocks))
      BY Zenon, <2>1 DEF StoredEvents
    <3> QED
      BY Zenon, <3>1, <3>2 DEF BlockEvents
  <2>3. Distinct(dbMinipool')
    BY Zenon, <1>1, <1>2, <2>1, AppendElements
       DEF StoredEvents, InvEvents, NoDuplicateEvents
  <2>4. NoDuplicateEvents'
    <3>1. \A i \in DOMAIN dbBlocks :
            Elements(dbBlocks[i].events) \cap Elements(dbMinipool') = {}
      BY <1>4, <2>2 DEF InvEvents, NoDuplicateEvents
    <3> QED
      BY ZenonT(30), <1>1, <2>3, <3>1 DEF InvEvents, NoDuplicateEvents
  <2>5. \A d \in Event : prevHash[d] = -1 => d \notin StoredEvents'
    BY Zenon, <1>12, <2>1 DEF InvEvents
  <2>6. ASSUME NEW q \in Request, inflight'[q] # NoEvent
        PROVE  q # r /\ inflight'[q] = inflight[q] /\ inflight[q] # e
    BY Zenon, <2>1, <2>6 DEF TypeOK
  <2>7. ASSUME NEW q \in Request, inflight'[q] # NoEvent
        PROVE  /\ prevHash[inflight'[q]] # -1
               /\ inflight'[q] \notin StoredEvents'
               /\ \A p \in Request : inflight'[p] = inflight'[q] => p = q
    <3>1. q # r /\ inflight'[q] = inflight[q] /\ inflight[q] # e
      BY Zenon, <2>6, <2>7
    <3>2. /\ prevHash[inflight[q]] # -1
          /\ inflight[q] \notin StoredEvents
          /\ \A p \in Request : inflight[p] = inflight[q] => p = q
      BY Zenon, <2>7, <3>1 DEF InvEvents
    <3>3. \A p \in Request : inflight'[p] = inflight'[q] => inflight[p] = inflight[q]
      BY Zenon, <2>6, <2>7, <3>1
    <3> QED
      BY Zenon, <1>12, <3>1, <3>2, <3>3
  <2>8. prevHash' = prevHash
    BY Zenon, <1>1
  <2> QED
    BY Zenon, <1>12, <2>4, <2>5, <2>7, <2>8 DEF InvEvents
<1>14. InvAcked'
  <2>1. acked' \subseteq StoredEvents'
    BY Zenon, <1>5, <1>12 DEF InvAcked, AckedDurable
  <2>2. acked' \subseteq BlockEvents(Height) \cup Elements(view'.minipool)
    <3>1. CASE view'.minipool = dbMinipool'
      BY Zenon, <1>12, <2>1, <3>1
    <3>2. CASE view'.minipool = view.minipool /\ acked' = acked
      BY Zenon, <1>3, <3>2 DEF InvAcked
    <3> QED
      BY Zenon, <1>5, <3>1, <3>2
  <2> QED
    BY Zenon, <1>12, <2>1, <2>2 DEF InvAcked, AckedDurable
<1> QED
  BY Zenon, <1>7, <1>8, <1>9, <1>10, <1>11, <1>13, <1>14

\* addEventImpl, whether it succeeds or its transaction is ambiguous.
LEMMA AddEventStep ==
  ASSUME Inv, NEW r \in Request, AddEvent(r) \/ AddEventAmbiguous(r)
  PROVE  Inv'
<1>1. inflight[r] \in Event /\ view \in View
  BY Zenon DEF Inv, TypeOK, AddEvent, AddEventAmbiguous, Loaded
<1>2. CASE AddEvent(r)
  <2>1. inflight[r] \notin Elements(view.minipool)
    <3>1. inflight[r] \notin StoredEvents
      BY Zenon, <1>2 DEF AddEvent, Inv, InvEvents
    <3>2. \A i \in DOMAIN dbMinipool : inflight[r] # dbMinipool[i]
      BY ZenonT(30), <3>1 DEF StoredEvents, Elements
    <3>3. view.generation = Height /\ Current
      <4>1. dbGeneration = view.generation /\ Loaded
        BY Zenon, <1>2 DEF AddEvent, CanWriteEvent
      <4>2. dbBlocks # << >>
        BY Zenon, <4>1 DEF Inv, InvAbsent
      <4>3. dbGeneration = Height /\ Height \in Nat
        BY Zenon, <4>2 DEF Inv, InvStorage, TypeOK, StorageTypeOK
      <4>4. ~ Behind
        BY SMTT(30), Z3T(30), <4>1, <4>3 DEF Behind
      <4> QED
        BY Zenon, <4>1, <4>3, <4>4 DEF Inv, InvView
    <3>4. DOMAIN view.minipool = 1..Len(view.minipool)
          /\ DOMAIN dbMinipool = 1..Len(dbMinipool)
      BY <1>1, ViewFields DEF Inv, TypeOK, StorageTypeOK
    <3> QED
      BY Zenon, <1>2, <3>2, <3>3, <3>4
         DEF AddEvent, CanWriteEvent, Current, StartsWith, Elements
  <2>2. /\ view' = copyAndAddEvent(view, inflight[r])
        /\ acked' = acked \cup {inflight[r]}
        /\ Notify({inflight[r]}, view')
    BY Zenon, <1>2, <2>1 DEF AddEvent
  <2>3. cookie' \in [Client -> Cookie] /\ got' \in [Client -> SUBSET Event]
    <3>1. view' \in View
      BY Zenon, <1>1, <2>2, ViewAddEvent
    <3> QED
      BY Zenon, <1>1, <2>2, <3>1, NotifyType DEF Inv
  <2> QED
    BY Zenon, <1>2, <2>2, <2>3, WriteEventStep DEF AddEvent, countVars
<1>3. CASE AddEventAmbiguous(r)
  <2>1. cookie' \in [Client -> Cookie] /\ got' \in [Client -> SUBSET Event]
    BY Zenon, <1>3 DEF AddEventAmbiguous, clientVars, Inv, TypeOK
  <2> QED
    BY Zenon, <1>3, <2>1, WriteEventStep DEF AddEventAmbiguous
<1> QED
  BY Zenon, <1>2, <1>3

(***************************************************************************)
(* Producing a miniblock, up to its registration.                          *)
(***************************************************************************)
LEMMA ProposeStep ==
  ASSUME Inv, NEW force \in BOOLEAN, Propose(force)
  PROVE  Inv'
<1> USE DEF Inv, Propose, dbVars, chainVars, clientVars, countVars, Loaded
<1>1. view \in View /\ view.blocks # << >>
  BY Zenon DEF TypeOK, InvView
<1>2. LastBlock(view) \in Miniblock
  BY Zenon, <1>1, LastBlockType
<1>3. /\ work' \in Miniblock
      /\ work'.num = view.generation
      /\ work'.prev = LastBlock(view).hash
      /\ work'.events = view.minipool
  <2>1. /\ view.generation \in Nat /\ view.minipool \in Seq(Event)
        /\ LastBlock(view).hash \in Nat
    BY Zenon, <1>1, <1>2 DEF View, Miniblock
  <2>2. (force \/ shouldSnapshot(view)) \in BOOLEAN
    BY ZenonT(30) DEF shouldSnapshot
  <2> QED
    BY Zenon, <2>1, <2>2 DEF ProposeNextMiniblock, Genesis, Miniblock
<1>4. TypeOK'
  BY <1>3 DEF TypeOK, StorageTypeOK, ProducerState
<1>5. InvAbsent' /\ InvStorage'
  BY Zenon DEF InvAbsent, InvStorage, Height
<1>6. InvView'
  BY Zenon DEF InvView, Current, Behind, LastBlock, Height
<1>7. InvProducer'
  <2>1. work'.num \in 1..Height /\ work'.prev = dbBlocks[work'.num].hash
    BY Zenon, <1>3 DEF InvView, TypeOK, View
  <2>2. ASSUME work'.num = Height
        PROVE  /\ StartsWith(dbMinipool, work'.events)
               /\ view.generation = Height /\ StartsWith(view.minipool, work'.events)
    <3>1. view.generation = Height /\ Current
      BY SMTT(30), Z3T(30), <1>1, <1>3, <2>2 DEF InvView, Behind, Height, TypeOK, StorageTypeOK, View
    <3>2. StartsWith(dbMinipool, view.minipool)
      BY ZenonT(30), <3>1 DEF Current
    <3>3. StartsWith(view.minipool, view.minipool)
      <4>1. view.minipool \in Seq(Event)
        BY Zenon, <1>1 DEF View
      <4> QED
        BY Zenon, <4>1, StartsWithItself
    <3> QED
      BY ZenonT(30), <1>3, <3>1, <3>2, <3>3
  <2> QED
    BY Zenon, <2>1, <2>2 DEF InvProducer, Height
<1>8. InvRegistry'
  BY Zenon DEF InvRegistry, RegistryTracksStorage, Height
<1>9. InvEvents' /\ InvAcked'
  BY Zenon, SameEvents DEF InvEvents, InvAcked, AckedDurable
<1> QED
  BY Zenon, <1>4, <1>5, <1>6, <1>7, <1>8, <1>9

\* The producer gives up: nothing but its own state changes.
LEMMA ProducerFailsStep ==
  ASSUME Inv, ProducerFails
  PROVE  Inv'
<1>1. failures' \in Nat
  BY DEF Inv, TypeOK, ProducerFails
<1> QED
  BY Zenon, <1>1, AbandonStep DEF ProducerFails

\* The header gets a new hash and extends the last block of the view.
LEMMA MakeMiniblockHeaderStep ==
  ASSUME Inv, MakeMiniblockHeader
  PROVE  Inv'
<1>1. CASE ~(Loaded /\ CanMakeMiniblockHeader(view, work))
  <2>1. failures' \in Nat
    BY Zenon DEF Inv, TypeOK, MakeMiniblockHeader, countVars
  <2> QED
    BY Zenon, <1>1, <2>1, AbandonStep DEF MakeMiniblockHeader, countVars
<1>2. CASE Loaded /\ CanMakeMiniblockHeader(view, work)
  <2> DEFINE last == LastBlock(view)
  <2>1. /\ producer = "proposed" /\ producer' = "built"
        /\ work' = makeMiniblockHeader(view, work, nextHash)
        /\ nextHash' = nextHash + 1
        /\ UNCHANGED <<dbVars, chainVars, cached, view, receivers, inflight,
                       clientVars, prevHash, acked, countVars>>
    BY Zenon, <1>2 DEF MakeMiniblockHeader
  <2> USE DEF Inv, dbVars, chainVars, clientVars, countVars
  <2>2. /\ view \in View /\ view.blocks # << >>
        /\ view.generation = work.num /\ last.hash = work.prev
        /\ last = dbBlocks[view.generation]
    BY Zenon, <1>2 DEF TypeOK, InvView, CanMakeMiniblockHeader, Loaded
  <2>3. last \in Miniblock
    <3>1. view.blocks \in Seq(Miniblock)
      BY Zenon, <2>2 DEF View
    <3> QED
      BY <2>2, <3>1 DEF LastBlock
  <2>4. last.num = view.generation - 1
    BY Zenon, <1>2, <2>2 DEF InvView, InvStorage
  <2>5. /\ work' \in Miniblock
        /\ work'.num = work.num /\ work'.prev = work.prev
        /\ work'.events = work.events /\ work'.hash = nextHash
    <3> HIDE DEF last
    <3>1. EventsSinceSnapshot(view) \subseteq Event
      BY Zenon, <2>2, ViewFields
    <3>2. /\ work.events \in Seq(Event) /\ work.isSnapshot \in BOOLEAN
          /\ view.snapshot \subseteq Event /\ nextHash \in Nat /\ work.num \in Nat
      BY Zenon, <2>2, MiniblockFields, ViewFields DEF TypeOK
    <3>3. Elements(work.events) \subseteq Event
      BY Zenon, MiniblockFields DEF TypeOK
    <3>4. /\ last.num + 1 \in Nat /\ last.hash \in Nat /\ last.num + 1 = work.num
          /\ last.offset + Len(last.events) + 1 \in Nat
          /\ last.num \in Nat /\ last.prevSnapshot \in Nat
      <4>1. /\ last.num \in Nat /\ last.hash \in Nat /\ last.offset \in Nat
            /\ last.events \in Seq(Event) /\ last.prevSnapshot \in Nat
        BY Zenon, <2>3, MiniblockFields
      <4>2. last.num + 1 = work.num
        BY <2>2, <2>4, <3>2
      <4> QED
        BY SMTT(30), Z3T(30), <4>1, <4>2
    <3>5. work' = [num |-> last.num + 1, hash |-> nextHash, prev |-> last.hash,
                   events |-> work.events, isSnapshot |-> work.isSnapshot,
                   snapshot |-> IF work.isSnapshot
                                THEN view.snapshot \cup EventsSinceSnapshot(view)
                                       \cup Elements(work.events)
                                ELSE {},
                   offset |-> last.offset + Len(last.events) + 1,
                   prevSnapshot |-> IF last.isSnapshot THEN last.num
                                    ELSE last.prevSnapshot]
      BY Zenon, <2>1 DEF makeMiniblockHeader, last
    <3>6. (IF work.isSnapshot
           THEN view.snapshot \cup EventsSinceSnapshot(view) \cup Elements(work.events)
           ELSE {}) \in SUBSET Event
      BY Zenon, <3>1, <3>2, <3>3
    <3>7. (IF last.isSnapshot THEN last.num ELSE last.prevSnapshot) \in Nat
      BY Zenon, <3>4
    <3> QED
      BY Zenon, <2>2, <3>2, <3>4, <3>5, <3>6, <3>7 DEF Miniblock
  <2>6. TypeOK'
    BY SMTT(30), Z3T(30), <2>1, <2>5 DEF TypeOK, StorageTypeOK, ProducerState
  <2>7. InvAbsent' /\ InvStorage'
    <3>1. \A c \in dbCandidates : c.hash \in Nat
      BY Zenon, MiniblockFields DEF TypeOK, StorageTypeOK
    <3> QED
      BY SMTT(30), Z3T(30), <2>1, <3>1 DEF InvAbsent, InvStorage, Height, Loaded, TypeOK
  <2>8. InvView'
    BY ZenonT(30), <2>1 DEF InvView, Current, Behind, LastBlock, Height, Loaded
  <2>9. InvProducer'
    <3>1. \A c \in dbCandidates : c.hash \in Nat
      BY Zenon, MiniblockFields DEF TypeOK, StorageTypeOK
    <3> QED
      BY SMTT(30), Z3T(30), <2>1, <2>5, <3>1 DEF InvProducer, InvStorage, Height, Loaded, TypeOK
  <2>10. InvRegistry'
    BY Zenon, <2>1 DEF InvRegistry, RegistryTracksStorage, Height
  <2>11. InvEvents' /\ InvAcked'
    BY Zenon, <2>1, SameEvents DEF InvEvents, InvAcked, AckedDurable, Loaded
  <2> QED
    BY Zenon, <2>6, <2>7, <2>8, <2>9, <2>10, <2>11
<1> QED
  BY Zenon, <1>1, <1>2

\* The candidate that is stored extends the last stored block.
LEMMA StoreMiniblockCandidateStep ==
  ASSUME Inv, StoreMiniblockCandidate
  PROVE  Inv'
<1>1. CASE ~CanWriteBlockProposal(work.num)
  <2>1. failures' \in Nat
    BY Zenon DEF Inv, TypeOK, StoreMiniblockCandidate, countVars
  <2> QED
    BY Zenon, <1>1, <2>1, AbandonStep DEF StoreMiniblockCandidate, countVars
<1>2. CASE CanWriteBlockProposal(work.num)
  <2>1. /\ producer = "built" /\ producer' = "stored"
        /\ dbCandidates' = dbCandidates \cup {work}
        /\ UNCHANGED <<dbBlocks, dbSnapshot, dbGeneration, dbMinipool, work,
                       chainVars, cached, view, receivers, inflight, clientVars,
                       prevHash, acked, nextHash, countVars>>
    BY Zenon, <1>2 DEF StoreMiniblockCandidate, WriteBlockProposal
  <2> USE DEF Inv, chainVars, clientVars, countVars
  <2>2. work.num = Height
    <3>1. dbBlocks # << >> /\ work.num \in 1..Height
      BY Zenon, <1>2, <2>1 DEF CanWriteBlockProposal, InvProducer
    <3>2. dbBlocks[Height].num = Height - 1
      <4>1. Height \in Nat \ {0} /\ Height \in DOMAIN dbBlocks
        BY <3>1 DEF Height, TypeOK, StorageTypeOK
      <4> QED
        BY SMTT(30), Z3T(30), <3>1, <4>1 DEF InvStorage
    <3>3. work.num >= Height - 1 + 1
      BY Zenon, <1>2, <3>2 DEF CanWriteBlockProposal, NextSeqNum, Height
    <3> QED
      BY <3>1, <3>3 DEF Height, TypeOK, StorageTypeOK
  <2>3. Loaded => view.generation = Height
    BY Zenon, <2>1, <2>2 DEF InvProducer
  <2>4. TypeOK'
    BY Zenon, <2>1 DEF TypeOK, StorageTypeOK, ProducerState
  <2>5. InvAbsent' /\ InvStorage'
    BY Zenon, <1>2, <2>1 DEF InvAbsent, InvStorage, InvProducer, Height, Loaded,
                      CanWriteBlockProposal
  <2>6. InvView'
    BY Zenon, <2>1 DEF InvView, Current, Behind, LastBlock, Height, Loaded
  <2>7. InvProducer'
    BY Zenon, <2>1, <2>2, <2>3 DEF InvProducer, Height, Loaded
  <2>8. InvRegistry'
    <3>1. \A i \in 1..Len(pendingTx) : pendingTx[i].hash # work.hash
      <4>1. \A c \in dbCandidates : IdOf(c).hash # work.hash
        BY Zenon, <2>1 DEF InvProducer, IdOf
      <4> QED
        BY Zenon, <4>1 DEF InvRegistry
    <3> QED
      BY Zenon, <2>1, <3>1 DEF InvRegistry, RegistryTracksStorage, Height
  <2>9. InvEvents' /\ InvAcked'
    BY Zenon, <2>1, SameEvents DEF InvEvents, InvAcked, AckedDurable, Loaded
  <2> QED
    BY Zenon, <2>4, <2>5, <2>6, <2>7, <2>8, <2>9
<1> QED
  BY Zenon, <1>1, <1>2

\* Sending the transaction, whether the producer then waits for it or not.
LEMMA SubmitStep ==
  ASSUME Inv, SubmitTx \/ SubmitTxAmbiguous
  PROVE  Inv'
<1> DEFINE n == Len(pendingTx)
<1>1. /\ producer = "stored"
      /\ pendingTx' = Append(pendingTx, IdOf(work))
      /\ \/ producer' = "submitted" /\ work' = work
         \/ producer' = "idle" /\ work' = Genesis
      /\ failures' \in Nat
      /\ UNCHANGED <<dbVars, registry, cached, view, receivers, inflight,
                     clientVars, prevHash, acked, nextHash, crashes, ambiguous, forced>>
  BY SMTT(30), Z3T(30) DEF Inv, TypeOK, SubmitTx, SubmitTxAmbiguous, ProducerReturns, countVars
<1>2. work \in Miniblock /\ IdOf(work) \in BlockId
  BY ZenonT(30), MiniblockFields DEF Inv, TypeOK, IdOf, BlockId
<1>4. /\ n \in Nat /\ Len(pendingTx') = n + 1
      /\ \A i \in 1..n : pendingTx'[i] = pendingTx[i]
      /\ pendingTx'[n + 1] = IdOf(work)
  <2>1. pendingTx \in Seq(BlockId)
    BY Zenon DEF Inv, TypeOK
  <2> QED BY SMTT(30), <1>1, <1>2, <2>1
<1> USE DEF Inv, dbVars, clientVars
<1>3. TypeOK'
  <2>1. Genesis \in Miniblock
    BY ZenonT(30), GenesisFacts
  <2> QED
    BY SMTT(30), Z3T(30), <1>1, <1>2, <2>1 DEF TypeOK, StorageTypeOK, ProducerState
<1>5. dbBlocks # << >> /\ work.num = Height /\ work \in dbCandidates
  BY Zenon, <1>1 DEF InvProducer, InvAbsent
<1>6. InvAbsent' /\ InvStorage'
  BY Zenon, <1>1, <1>5 DEF InvAbsent, InvStorage, Height, Loaded
<1>7. InvView'
  BY Zenon, <1>1 DEF InvView, Current, Behind, LastBlock, Height, Loaded
<1>8. InvProducer'
  BY Zenon, <1>1 DEF InvProducer, Height, Loaded
<1>9. InvRegistry'
  <2>1. RegistryTracksStorage'
    BY Zenon, <1>1 DEF InvRegistry, RegistryTracksStorage
  <2>2. \A i \in 1..(n+1) : /\ pendingTx'[i].num = Height
                            /\ \E c \in dbCandidates : IdOf(c) = pendingTx'[i]
    <3>1. IdOf(work).num = Height
      BY Zenon, <1>5 DEF IdOf
    <3> QED
      BY SMTT(30), Z3T(30), <1>4, <1>5, <3>1 DEF InvRegistry
  <2>3. \A i \in 1..n : pendingTx'[i].hash # work.hash
    BY Zenon, <1>1, <1>4 DEF InvRegistry
  <2> QED
    BY SMTT(30), Z3T(30), <1>1, <1>4, <2>1, <2>2, <2>3 DEF InvRegistry, Height
<1>10. InvEvents' /\ InvAcked'
  BY ZenonT(30), <1>1, SameEvents DEF InvEvents, InvAcked, AckedDurable, Loaded
<1> QED
  BY Zenon, <1>3, <1>6, <1>7, <1>8, <1>9, <1>10

\* Mining or losing the first pending transaction.
LEMMA PendingTxStep ==
  ASSUME Inv, MineTx \/ LoseTx
  PROVE  Inv'
<1> DEFINE n == Len(pendingTx)
<1>1. /\ pendingTx # << >>
      /\ pendingTx' = Tail(pendingTx)
      /\ registry' \in {registry, Head(pendingTx)}
      /\ failures' \in Nat
      /\ UNCHANGED <<dbVars, cached, view, receivers, inflight, clientVars,
                     prevHash, acked, nextHash, crashes, ambiguous, forced>>
      /\ \/ producer' = producer /\ work' = work /\ ~Awaited(Head(pendingTx))
         \/ /\ producer' = "registered" /\ work' = work /\ Awaited(Head(pendingTx))
            /\ registry' = Head(pendingTx)
         \/ producer' = "idle" /\ work' = Genesis
  BY SMTT(30), Z3T(30) DEF Inv, TypeOK, MineTx, LoseTx, ProducerReturns, countVars
<1> USE DEF Inv, dbVars, clientVars
<1>2. /\ n \in Nat \ {0} /\ Head(pendingTx) = pendingTx[1]
      /\ Len(pendingTx') = n - 1
      /\ \A i \in 1..(n-1) : pendingTx'[i] = pendingTx[i+1]
      /\ pendingTx[1] \in BlockId /\ pendingTx' \in Seq(BlockId)
  BY <1>1 DEF TypeOK
<1>3. dbBlocks # << >>
  BY Zenon, <1>1 DEF InvAbsent
<1>4. TypeOK'
  <2>1. Genesis \in Miniblock
    BY Zenon, GenesisFacts
  <2> QED
    BY Zenon, <1>1, <1>2, <2>1 DEF TypeOK, StorageTypeOK, ProducerState
<1>5. InvAbsent' /\ InvStorage'
  BY Zenon, <1>1, <1>3 DEF InvAbsent, InvStorage, Height, Loaded
<1>6. InvView'
  BY Zenon, <1>1 DEF InvView, Current, Behind, LastBlock, Height, Loaded
<1>7. InvProducer'
  BY Zenon, <1>1 DEF InvProducer, Height, Loaded, Awaited
<1>8. InvRegistry'
  <2>1. RegistryTracksStorage'
    BY SMTT(30), Z3T(30), <1>1, <1>2, <1>3 DEF InvRegistry, RegistryTracksStorage, Height
  <2>2. \A i \in 1..(n-1) : /\ pendingTx'[i].num = Height
                            /\ \E c \in dbCandidates : IdOf(c) = pendingTx'[i]
    BY SMTT(30), Z3T(30), <1>2 DEF InvRegistry
  <2>3. CASE producer' = producer /\ work' = work /\ ~Awaited(Head(pendingTx))
    <3>1. producer = "registered" => FALSE
      BY Zenon, <1>1 DEF InvRegistry
    <3>2. producer = "stored" => \A i \in 1..(n-1) : pendingTx'[i].hash # work.hash
      BY SMTT(30), Z3T(30), <1>2 DEF InvRegistry
    <3>3. ASSUME producer = "submitted"
          PROVE  /\ n - 1 > 0 /\ pendingTx'[n-1] = IdOf(work)
                 /\ \A i \in 1..(n-2) : pendingTx'[i].hash # work.hash
      <4>1. n # 1
        BY Zenon, <1>2, <2>3, <3>3 DEF InvRegistry, Awaited
      <4> QED
        BY SMTT(30), Z3T(30), <1>2, <3>3, <4>1 DEF InvRegistry
    <3> QED
      BY SMTT(30), Z3T(30), <1>1, <1>2, <2>1, <2>2, <2>3, <3>1, <3>2, <3>3 DEF InvRegistry, Height
  <2>4. CASE /\ producer' = "registered" /\ work' = work /\ Awaited(Head(pendingTx))
             /\ registry' = Head(pendingTx)
    <3>1. n = 1
      <4> SUFFICES ASSUME n # 1 PROVE FALSE
        BY Zenon
      <4>1. pendingTx[1].hash # work.hash
        BY SMTT(30), Z3T(30), <1>2, <2>4 DEF InvRegistry, Awaited
      <4> QED
        BY <1>2, <2>4, <4>1 DEF Awaited, IdOf
    <3>2. pendingTx' = << >>
      BY <1>2, <3>1
    <3>3. registry' = IdOf(work')
      BY Zenon, <2>4 DEF Awaited, IdOf
    <3> QED
      BY SMTT(30), Z3T(30), <2>1, <2>4, <3>2, <3>3 DEF InvRegistry
  <2>5. CASE producer' = "idle" /\ work' = Genesis
    BY Zenon, <1>1, <1>2, <2>1, <2>2, <2>5 DEF InvRegistry, Height
  <2> QED
    BY Zenon, <1>1, <2>3, <2>4, <2>5
<1>9. InvEvents' /\ InvAcked'
  BY Zenon, <1>1, SameEvents DEF InvEvents, InvAcked, AckedDurable, Loaded
<1> QED
  BY Zenon, <1>4, <1>5, <1>6, <1>7, <1>8, <1>9

\* ApplyMiniblock, whether its transaction fails, commits or is ambiguous.
LEMMA ApplyMiniblockStep ==
  ASSUME Inv, ApplyMiniblock \/ ApplyMiniblockAmbiguous
  PROVE  Inv'
<1> DEFINE next == copyAndApplyBlock(view, work)
           rest == Without(view.minipool, Elements(work.events))
<1>1. ASSUME producer = "registered", Loaded
      PROVE  /\ next \in View /\ next.minipool = rest /\ rest \in Seq(Event)
             /\ next.generation = Height + 1 /\ next.blocks # << >>
             /\ LastBlock(next) = work /\ view.minipool = work.events \o rest
  BY Zenon, <1>1, RegisteredFacts, ViewApplyBlock
<1>2. ASSUME producer = "registered", Loaded, Promote,
             \/ view' = next /\ ambiguous' = ambiguous
             \/ view' = view /\ ambiguous' = ambiguous + 1,
             cookie' \in [Client -> Cookie], got' \in [Client -> SUBSET Event],
             ProducerReturns,
             UNCHANGED <<chainVars, cached, receivers, inflight, prevHash, acked,
                         nextHash, crashes, failures, forced>>
      PROVE  Inv'
  <2>1. PromoteBlock(view.generation, work.hash, work.isSnapshot, rest)
    BY Zenon, <1>1, <1>2 DEF Promote
  <2> HIDE DEF next, rest
  <2> QED
    BY Zenon, <1>1, <1>2, <2>1, PromoteStep
<1>3. CASE ApplyMiniblockAmbiguous
  <2>1. cookie' \in [Client -> Cookie] /\ got' \in [Client -> SUBSET Event]
    BY Zenon, <1>3 DEF ApplyMiniblockAmbiguous, clientVars, Inv, TypeOK
  <2> QED
    BY Zenon, <1>2, <1>3, <2>1 DEF ApplyMiniblockAmbiguous
<1>4. CASE ApplyMiniblock /\ Promote /\ view' = next /\ Notify({}, view')
  <2>1. view' \in View
    BY Zenon, <1>1, <1>4 DEF ApplyMiniblock
  <2>2. cookie' \in [Client -> Cookie] /\ got' \in [Client -> SUBSET Event]
    BY Zenon, <1>4, <2>1, NotifyType DEF Inv
  <2> HIDE DEF next
  <2> QED
    BY Zenon, <1>2, <1>4, <2>2 DEF ApplyMiniblock, countVars
<1>5. CASE ApplyMiniblock /\ UNCHANGED <<dbVars, view, clientVars>>
  <2>1. failures' \in Nat
    BY Zenon, <1>5 DEF ApplyMiniblock, countVars, Inv, TypeOK
  <2> QED
    BY Zenon, <1>5, <2>1, AbandonStep DEF ApplyMiniblock, countVars
<1> QED
  BY Zenon, <1>3, <1>4, <1>5 DEF ApplyMiniblock

(***************************************************************************)
(* The invariant and the theorems that follow from it.                     *)
(***************************************************************************)
\* A step that changes no variable.
LEMMA StutterStep ==
  ASSUME Inv, UNCHANGED vars
  PROVE  Inv'
<1> USE DEF Inv, vars, dbVars, chainVars, nodeVars, clientVars, countVars, Loaded
<1>1. TypeOK'
  BY Zenon DEF TypeOK, StorageTypeOK
<1>2. InvAbsent' /\ InvStorage'
  BY Zenon DEF InvAbsent, InvStorage, Height
<1>3. InvView'
  BY Zenon DEF InvView, Current, Behind, LastBlock, Height
<1>4. InvProducer'
  BY Zenon DEF InvProducer, Height
<1>5. InvRegistry'
  BY Zenon DEF InvRegistry, RegistryTracksStorage, Height
<1>6. InvEvents' /\ InvAcked'
  BY Zenon, SameEvents DEF InvEvents, InvAcked, AckedDurable
<1> QED
  BY Zenon, <1>1, <1>2, <1>3, <1>4, <1>5, <1>6

\* One case per action of Next.
LEMMA NextStep ==
  ASSUME Retries = "none", Inv, [Next]_vars
  PROVE  Inv'
<1>1. CASE TryLoadStreamRecord
  BY Zenon, <1>1, TryLoadStreamRecordStep
<1>2. CASE Load
  BY Zenon, <1>2, LoadStep
<1>3. CASE Evict \/ ForceFlush
  BY Zenon, <1>3, UnloadStep
<1>4. CASE Crash
  BY Zenon, <1>4, CrashStep
<1>5. CASE \E r \in Request, e \in Event : CheckEvent(r, e)
  BY Zenon, <1>5, CheckEventStep
<1>6. CASE \E r \in Request : AddEvent(r) \/ AddEventAmbiguous(r) \/ AddEventFails(r)
  BY Zenon, <1>6, AddEventStep, AddEventFailsStep
<1>7. CASE \E force \in BOOLEAN : Propose(force)
  BY SMTT(30), Z3T(30), <1>7, ProposeStep
<1>8. CASE MakeMiniblockHeader
  BY Zenon, <1>8, MakeMiniblockHeaderStep
<1>9. CASE StoreMiniblockCandidate
  BY Zenon, <1>9, StoreMiniblockCandidateStep
<1>10. CASE SubmitTx \/ SubmitTxAmbiguous
  BY Zenon, <1>10, SubmitStep
<1>11. CASE MineTx \/ LoseTx
  BY Zenon, <1>11, PendingTxStep
<1>12. CASE ApplyMiniblock \/ ApplyMiniblockAmbiguous
  BY Zenon, <1>12, ApplyMiniblockStep
<1>13. CASE ProducerFails
  BY Zenon, <1>13, ProducerFailsStep
<1>14. CASE \E c \in Client : GetStream(c) \/ Sub(c) \/ Unsub(c)
  BY Zenon, <1>14, ClientStep
<1>15. CASE UNCHANGED vars
  BY Zenon, <1>15, StutterStep
<1> QED
  BY SMTT(30), Z3T(30), <1>1, <1>2, <1>3, <1>4, <1>5, <1>6, <1>7, <1>8, <1>9, <1>10,
     <1>11, <1>12, <1>13, <1>14, <1>15 DEF Next

(***************************************************************************)
(* Inv holds in every reachable state, whatever the sets of events,        *)
(* requests and clients and the numbers of crashes, failed and ambiguous   *)
(* calls: the write paths of stream.go and pg_storage.go keep storage, the *)
(* loaded view, the producer's block and the registry in step.             *)
(***************************************************************************)
THEOREM Invariance ==
  ASSUME Retries = "none"
  PROVE  Spec => []Inv
<1>1. Init => Inv
  BY Zenon, InitInv
<1>2. Inv /\ [Next]_vars => Inv'
  BY Zenon, NextStep
<1> QED
  BY <1>1, <1>2, PTL DEF Spec

\* Every variable of module Stream keeps its type.
THEOREM TypeCorrect ==
  ASSUME Retries = "none"
  PROVE  Spec => []TypeOK
<1>1. Inv => TypeOK
  BY Zenon DEF Inv
<1> QED
  BY <1>1, Invariance, PTL

(***************************************************************************)
(* No acknowledged event is ever lost: once AddEvent has returned success, *)
(* the event stays in a stored miniblock or in the stored minipool.        *)
(***************************************************************************)
THEOREM Durability ==
  ASSUME Retries = "none"
  PROVE  Spec => []AckedDurable
<1>1. Inv => AckedDurable
  BY Zenon DEF Inv, InvAcked
<1> QED
  BY <1>1, Invariance, PTL

(***************************************************************************)
(* A view held in memory never differs from storage by more than one       *)
(* ambiguous transaction accounts for.                                     *)
(***************************************************************************)
THEOREM ViewConsistency ==
  ASSUME Retries = "none"
  PROVE  Spec => []ViewTracksStorage
<1>1. ASSUME Inv PROVE ViewTracksStorage
  <2> SUFFICES ASSUME Loaded PROVE ViewTracksStorage
    BY Zenon DEF ViewTracksStorage
  <2>1. /\ dbGeneration = Height /\ Height \in Nat \ {0} /\ Height = Len(dbBlocks)
        /\ view.generation \in 1..Height
        /\ LastBlock(view) = dbBlocks[view.generation]
        /\ Current \/ Behind
    BY <1>1 DEF Inv, InvAbsent, InvStorage, InvView, Height, TypeOK, StorageTypeOK
  <2>2. CASE Current
    BY Zenon, <2>1, <2>2 DEF ViewTracksStorage, Current
  <2>3. CASE Behind
    <3>1. view.generation = Height - 1
      BY <2>1, <2>3 DEF Behind
    <3> QED
      BY Zenon, <2>1, <2>3, <3>1 DEF ViewTracksStorage, Behind
  <2> QED
    BY Zenon, <2>1, <2>2, <2>3
<1>2. Inv => ViewTracksStorage
  BY Zenon, <1>1
<1> QED
  BY <1>2, Invariance, PTL

(***************************************************************************)
(* No event is stored twice, as long as no client sends one twice: the     *)
(* concurrent requests of different events, reloads and abandoned blocks   *)
(* never copy one.                                                         *)
(***************************************************************************)
THEOREM StoredOnce ==
  ASSUME Retries = "none"
  PROVE  Spec => []NoDuplicateEvents
<1>1. Inv => NoDuplicateEvents
  BY Zenon DEF Inv, InvEvents
<1> QED
  BY <1>1, Invariance, PTL

(***************************************************************************)
(* The registry is never more than one block ahead of storage, and never   *)
(* names a block that the node could not promote.                          *)
(***************************************************************************)
THEOREM RegistryConsistency ==
  ASSUME Retries = "none"
  PROVE  Spec => []RegistryTracksStorage
<1>1. Inv => RegistryTracksStorage
  BY Zenon DEF Inv, InvRegistry
<1> QED
  BY <1>1, Invariance, PTL

(***************************************************************************)
(* After the contract has accepted a block no check of ApplyMiniblock or   *)
(* PromoteBlock refuses it.                                                *)
(***************************************************************************)
THEOREM RegisteredBlocksApply ==
  ASSUME Retries = "none"
  PROVE  Spec => []RegisteredApplies
<1>1. ASSUME Inv PROVE RegisteredApplies
  <2> SUFFICES ASSUME producer = "registered", Loaded
               PROVE  /\ CanApplyBlock(view, work)
                      /\ CanPromoteBlock(view.generation, work.hash)
    BY Zenon DEF RegisteredApplies
  <2>1. /\ Height \in Nat \ {0} /\ work.num = Height /\ work \in dbCandidates
        /\ work.prev = dbBlocks[Height].hash /\ view.generation = Height
        /\ LastBlock(view) = dbBlocks[Height] /\ Distinct(work.events)
        /\ Elements(work.events) \subseteq Elements(view.minipool)
        /\ dbBlocks \in Seq(Miniblock)
    BY Zenon, <1>1, RegisteredFacts
  <2>2. dbBlocks[Height].num + 1 = Height /\ dbBlocks # << >>
    BY <1>1, <2>1 DEF Inv, InvStorage, Height
  <2>3. CanApplyBlock(view, work)
    BY Zenon, <2>1, <2>2 DEF CanApplyBlock
  <2>4. CanPromoteBlock(view.generation, work.hash)
    BY Zenon, <2>1, <2>2 DEF CanPromoteBlock, NextSeqNum, CandidatesFor, Height
  <2> QED
    BY Zenon, <2>3, <2>4
<1>2. Inv => RegisteredApplies
  BY Zenon, <1>1
<1> QED
  BY <1>2, Invariance, PTL

(***************************************************************************)
(* Whatever the write paths leave in storage, the checks of                *)
(* ReadStreamFromLastSnapshot and MakeStreamView accept it.                *)
(***************************************************************************)
THEOREM AlwaysLoadable ==
  ASSUME Retries = "none"
  PROVE  Spec => []StoredStreamLoads
<1>1. ASSUME Inv PROVE StoredStreamLoads
  <2> SUFFICES ASSUME dbBlocks # << >>
               PROVE  /\ CanReadStreamFromLastSnapshot
                      /\ CanMakeStreamView(StoredBlocks, dbMinipool)
    BY ZenonT(30) DEF StoredStreamLoads
  <2>1. /\ dbBlocks \in Seq(Miniblock) /\ Height \in Nat \ {0} /\ Height = Len(dbBlocks)
        /\ dbSnapshot \in Nat /\ dbSnapshot < Height /\ dbGeneration = Height
        /\ dbBlocks[dbSnapshot + 1].isSnapshot
        /\ \A i \in 1..Height : dbBlocks[i].num = i - 1
    <3>1. /\ dbBlocks \in Seq(Miniblock) /\ dbSnapshot \in Nat
          /\ dbGeneration = Height /\ dbSnapshot < Height
          /\ dbBlocks[dbSnapshot + 1].isSnapshot
          /\ \A i \in 1..Height : dbBlocks[i].num = i - 1
      BY Zenon, <1>1 DEF Inv, InvStorage, TypeOK, StorageTypeOK
    <3>2. Height = Len(dbBlocks)
      BY Zenon DEF Height
    <3>3. Height \in Nat \ {0}
      BY SMTT(30), Z3T(30), <3>1, <3>2
    <3> QED
      BY Zenon, <3>1, <3>2, <3>3
  <2>2. CanReadStreamFromLastSnapshot
    BY SMTT(30), Z3T(30), <2>1 DEF CanReadStreamFromLastSnapshot, NextSeqNum
  <2>3. /\ Len(StoredBlocks) = Height - dbSnapshot
        /\ DOMAIN StoredBlocks = 1..(Height - dbSnapshot)
        /\ \A i \in 1..(Height - dbSnapshot) : StoredBlocks[i] = dbBlocks[dbSnapshot + i]
    BY SMTT(30), Z3T(30), <2>1 DEF StoredBlocks
  <2>4. \A i \in 2..Len(StoredBlocks) : StoredBlocks[i].num = StoredBlocks[i-1].num + 1
    <3> SUFFICES ASSUME NEW i \in 2..(Height - dbSnapshot)
                 PROVE  StoredBlocks[i].num = StoredBlocks[i-1].num + 1
      BY Zenon, <2>3
    <3>1. /\ i \in 1..(Height - dbSnapshot) /\ i - 1 \in 1..(Height - dbSnapshot)
          /\ dbSnapshot + i \in 1..Height /\ dbSnapshot + (i - 1) \in 1..Height
      BY <2>1
    <3>2. /\ StoredBlocks[i] = dbBlocks[dbSnapshot + i]
          /\ StoredBlocks[i-1] = dbBlocks[dbSnapshot + (i - 1)]
      BY Zenon, <2>3, <3>1
    <3>3. /\ dbBlocks[dbSnapshot + i].num = dbSnapshot + i - 1
          /\ dbBlocks[dbSnapshot + (i - 1)].num = dbSnapshot + (i - 1) - 1
      BY SMTT(30), Z3T(30), <2>1, <3>1
    <3> QED
      BY <2>1, <3>2, <3>3
  <2>5. 1 \in DOMAIN StoredBlocks /\ StoredBlocks[1].isSnapshot
    BY <2>1, <2>3
  <2>6. Distinct(dbMinipool)
    BY Zenon, <1>1 DEF Inv, InvEvents, NoDuplicateEvents
  <2>7. StoredBlocks # << >>
    BY <2>5
  <2> QED
    BY Zenon, <2>2, <2>4, <2>5, <2>6, <2>7 DEF CanMakeStreamView
<1>2. Inv => StoredStreamLoads
  BY Zenon, <1>1
<1> QED
  BY <1>2, Invariance, PTL

(***************************************************************************)
(* No step takes the registry back to an earlier miniblock, although the   *)
(* contract does not check the number it is given.                         *)
(***************************************************************************)
THEOREM RegistryNeverGoesBack ==
  ASSUME Retries = "none"
  PROVE  Spec => RegistryMonotone
<1>1. ASSUME Inv, [Next]_vars
      PROVE  [registry'.num >= registry.num]_vars
  <2>1. registry.num \in Nat
    BY Zenon, <1>1 DEF Inv, TypeOK, BlockId
  <2>2. CASE registry' = registry
    BY <2>1, <2>2
  <2>3. CASE MineTx
    <3>1. /\ registry' = pendingTx[1] /\ 1 \in 1..Len(pendingTx) /\ dbBlocks # << >>
      BY SMTT(30), Z3T(30), <1>1, <2>3 DEF MineTx, Inv, InvAbsent, TypeOK
    <3>2. registry'.num = Height /\ Height \in Nat \ {0}
      BY SMTT(30), Z3T(30), <1>1, <3>1 DEF Inv, InvRegistry, TypeOK, StorageTypeOK, Height
    <3>3. dbBlocks[Height].num = Height - 1
      BY SMTT(30), Z3T(30), <1>1, <3>2 DEF Inv, InvStorage
    <3>4. registry.num \in {Height - 1, Height}
      BY SMTT(30), Z3T(30), <1>1, <3>1, <3>3
         DEF Inv, InvRegistry, RegistryTracksStorage, IdOf, Height
    <3> QED
      BY SMTT(30), Z3T(30), <3>2, <3>4
  <2>4. registry' = registry \/ MineTx
    BY Zenon, <1>1
       DEF Next, TryLoadStreamRecord, Load, Evict, ForceFlush, Crash, CheckEvent,
         AddEvent, AddEventAmbiguous, AddEventFails, Propose, MakeMiniblockHeader,
         StoreMiniblockCandidate, SubmitTx, SubmitTxAmbiguous, LoseTx, ApplyMiniblock,
         ApplyMiniblockAmbiguous, ProducerFails, GetStream, Sub, Unsub,
         vars, chainVars
  <2> QED
    BY Zenon, <2>2, <2>3, <2>4
<1>2. Inv /\ [Next]_vars => [registry'.num >= registry.num]_vars
  BY Zenon, <1>1
<1> QED
  BY <1>2, Invariance, PTL DEF Spec, RegistryMonotone
==============================================================================
