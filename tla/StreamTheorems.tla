---------------------------- MODULE StreamTheorems ----------------------------
(***************************************************************************)
(* What readers of a stream get: headers, snapshots, the events and        *)
(* cookies of its clients, and the log that they can see.  ReaderInv is    *)
(* preserved relative to Inv, InvNumbers relative to both, and every step  *)
(* is one of the log of module StreamLog or changes nothing of it.  At the *)
(* end, what follows for every reachable state.                            *)
(***************************************************************************)
EXTENDS StreamChainProofs

(***************************************************************************)
(* Clients.                                                                *)
(***************************************************************************)

\* StoredEvents and VisibleEvents by the entries of dbBlocks.
LEMMA EventSets ==
  /\ StoredEvents = EventsOf(dbBlocks, Height) \cup Elements(dbMinipool)
  /\ VisibleEvents = EventsOf(dbBlocks, view.generation) \cup Elements(view.minipool)
BY Zenon DEF StoredEvents, VisibleEvents, BlockEvents, EventsOf, Height

LEMMA SameClient ==
  ASSUME NEW c \in Client, InvClient(c),
         UNCHANGED <<dbBlocks, dbMinipool, view>>,
         cookie'[c] = cookie[c], got'[c] = got[c], c \in receivers' => c \in receivers
  PROVE  InvClient(c)'
<1>1. /\ dbBlocks' = dbBlocks /\ dbMinipool' = dbMinipool /\ view' = view
  BY Zenon
<1>2. /\ Height' = Height /\ StoredEvents' = StoredEvents
      /\ VisibleEvents' = VisibleEvents /\ Loaded' = Loaded
      /\ SyncCookie(view)' = SyncCookie(view)
  BY Zenon, <1>1 DEF Height, StoredEvents, VisibleEvents, BlockEvents, Loaded, SyncCookie
<1>3. /\ KnowsSlots(c, dbMinipool)' <=> KnowsSlots(c, dbMinipool)
      /\ KnowsSlots(c, view.minipool)' <=> KnowsSlots(c, view.minipool)
  BY Zenon, <1>1 DEF KnowsSlots
<1> QED
  BY Zenon, <1>1, <1>2, <1>3 DEF InvClient

\* Without a view a client keeps what it has.
LEMMA UnloadClient ==
  ASSUME NEW c \in Client, InvClient(c), view' = NoView, receivers' = {},
         UNCHANGED <<dbBlocks, dbMinipool, cookie, got>>
  PROVE  InvClient(c)'
<1>1. dbBlocks' = dbBlocks /\ dbMinipool' = dbMinipool /\ cookie' = cookie /\ got' = got
  BY Zenon
<1>2. Height' = Height /\ StoredEvents' = StoredEvents /\ ~Loaded'
  BY Zenon, <1>1 DEF Height, StoredEvents, BlockEvents, Loaded
<1>3. KnowsSlots(c, dbMinipool)' <=> KnowsSlots(c, dbMinipool)
  BY Zenon, <1>1 DEF KnowsSlots
<1> QED
  BY Zenon, <1>1, <1>2, <1>3 DEF InvClient

\* A loaded view shows all that is stored.
LEMMA LoadClient ==
  ASSUME NEW c \in Client, InvClient(c), ~Loaded, Height \in Nat \ {0},
         view'.generation = Height, view'.minipool = dbMinipool,
         UNCHANGED <<dbBlocks, dbMinipool, cookie, got, receivers>>
  PROVE  InvClient(c)'
<1>1. /\ dbBlocks' = dbBlocks /\ dbMinipool' = dbMinipool /\ cookie' = cookie /\ got' = got
      /\ receivers' = receivers
  BY Zenon
<1>2. /\ Height' = Height /\ StoredEvents' = StoredEvents
      /\ VisibleEvents' = StoredEvents
  BY Zenon, <1>1 DEF Height, StoredEvents, VisibleEvents, BlockEvents
<1>3. KnowsSlots(c, dbMinipool)' <=> KnowsSlots(c, dbMinipool)
  BY Zenon, <1>1 DEF KnowsSlots
<1>4. KnowsSlots(c, view.minipool)' <=> KnowsSlots(c, dbMinipool)
  BY Zenon, <1>1 DEF KnowsSlots
<1>5. Height > 0
  OBVIOUS
<1>6. c \notin receivers
  BY Zenon DEF InvClient
<1> QED
  BY Zenon, <1>1, <1>2, <1>3, <1>4, <1>5, <1>6 DEF InvClient

\* Before its storage exists a stream has no readers.
LEMMA CreateClient ==
  ASSUME Inv, NEW c \in Client, InvClient(c),
         CanCreateStreamStorage, CreateStreamStorage(Genesis),
         view' \in {view, MakeStreamView(<<Genesis>>, << >>)},
         UNCHANGED <<cookie, got, receivers>>
  PROVE  InvClient(c)'
<1>1. /\ dbBlocks = << >> /\ dbBlocks' = <<Genesis>> /\ dbMinipool = << >>
      /\ dbMinipool' = << >> /\ view = NoView
      /\ cookie' = cookie /\ got' = got /\ receivers' = receivers
  BY Zenon DEF CanCreateStreamStorage, CreateStreamStorage, Inv, InvAbsent, Loaded
<1>2. cookie[c].gen \in Nat
  BY DEF Inv, TypeOK, Cookie
<1>3. /\ Height = 0 /\ Height' = 1
      /\ Elements(dbMinipool) = {} /\ Elements(dbMinipool') = {}
  BY <1>1 DEF Height, Elements
<1>4. cookie[c].gen = 0 /\ cookie'[c].gen = 0
  BY SMTT(30), Z3T(30), <1>1, <1>2, <1>3 DEF InvClient
<1>5. \A bs : EventsOf(bs, 0) = {}
  BY DEF EventsOf
<1>6. StoredEvents = {} /\ got[c] = {} /\ got'[c] = {}
  <2>1. StoredEvents = {}
    BY Zenon, <1>3, <1>5, EventSets
  <2> QED
    BY Zenon, <1>1, <2>1 DEF InvClient
<1>7. c \notin receivers'
  BY Zenon, <1>1 DEF InvClient, Loaded
<1>8. Loaded' => view'.generation = 1
  <2>1. view' # NoView => view' = MakeStreamView(<<Genesis>>, << >>)
    BY Zenon, <1>1
  <2>2. MakeStreamView(<<Genesis>>, << >>).generation = 1
    BY DEF MakeStreamView, Genesis
  <2> QED
    BY Zenon, <2>1, <2>2 DEF Loaded
<1>9. cookie'[c].gen <= Height' /\ ~(cookie'[c].gen > 0) /\ ~(cookie'[c].gen = 1) /\ 0 <= 1
  BY <1>3, <1>4
<1>10. EventsOf(dbBlocks', cookie'[c].gen) \subseteq got'[c]
  BY Zenon, <1>4, <1>5
<1> QED
  BY Zenon, <1>4, <1>6, <1>7, <1>8, <1>9, <1>10 DEF InvClient

\* WriteEvent commits only when the view shows what is stored.
LEMMA WriteFacts ==
  ASSUME Inv, NEW r \in Request, Loaded, inflight[r] # NoEvent,
         CanWriteEvent(view.generation, Len(view.minipool))
  PROVE  /\ inflight[r] \in Event /\ view \in View
         /\ view.generation = Height /\ Height \in Nat
         /\ dbMinipool = view.minipool /\ dbMinipool \in Seq(Event)
         /\ inflight[r] \notin Elements(view.minipool)
<1>1. /\ dbGeneration = view.generation /\ Len(dbMinipool) = Len(view.minipool)
      /\ view \in View /\ inflight[r] \in Event /\ dbMinipool \in Seq(Event)
      /\ view.minipool \in Seq(Event) /\ dbBlocks # << >>
      /\ dbBlocks \in Seq(Miniblock) /\ dbGeneration = Height
  BY Zenon, ViewFields
     DEF CanWriteEvent, Inv, TypeOK, StorageTypeOK, Loaded, InvAbsent, InvStorage
<1>2. Height \in Nat
  BY SMTT(30), Z3T(30), <1>1 DEF Height
<1>3. Current
  BY SMTT(30), Z3T(30), <1>1, <1>2 DEF Inv, InvView, Behind
<1>4. dbMinipool = view.minipool
  <2>1. \A i \in 1..Len(dbMinipool) : dbMinipool[i] = view.minipool[i]
    BY Zenon, <1>1, <1>3 DEF Current, StartsWith
  <2> QED
    BY Zenon, <1>1, <2>1, SameSequence
<1>5. inflight[r] \notin Elements(dbMinipool)
  BY Zenon DEF Inv, InvEvents, StoredEvents
<1> QED
  BY Zenon, <1>1, <1>2, <1>4, <1>5

\* The slots that a client knows stay the first ones of a minipool that grows.
LEMMA SlotsGrow ==
  ASSUME NEW s \in Seq(Event), NEW e \in Event, NEW k \in Nat, NEW known,
         k <= Len(s), \A i \in 1..k : s[i] \in known
  PROVE  k <= Len(Append(s, e)) /\ \A i \in 1..k : Append(s, e)[i] \in known
<1>1. /\ Len(Append(s, e)) = Len(s) + 1 /\ Len(s) \in Nat
      /\ \A i \in 1..Len(s) : Append(s, e)[i] = s[i]
  OBVIOUS
<1>2. k <= Len(s) + 1 /\ \A i \in 1..k : i \in 1..Len(s)
  BY <1>1
<1> QED
  BY Zenon, <1>1, <1>2

\* A subscriber is sent the event with the cookie of the view that has it.
LEMMA AddEventClient ==
  ASSUME Inv, NEW r \in Request, NEW c \in Client, InvClient(c), AddEvent(r)
  PROVE  InvClient(c)'
<1> DEFINE e == inflight[r]
<1>1. /\ Loaded /\ e \in Event /\ view \in View
      /\ view.generation = Height /\ Height \in Nat
      /\ dbMinipool = view.minipool /\ dbMinipool \in Seq(Event)
      /\ view' = copyAndAddEvent(view, e) /\ Notify({e}, view')
      /\ dbMinipool' = Append(dbMinipool, e)
      /\ dbBlocks' = dbBlocks /\ receivers' = receivers
  BY Zenon, WriteFacts DEF AddEvent, WriteEvent
<1>2. /\ view'.minipool = dbMinipool' /\ view'.generation = Height /\ view' \in View
      /\ Elements(dbMinipool') = Elements(dbMinipool) \cup {e}
  BY Zenon, <1>1, ViewAddEvent, AppendElements
<1>3. /\ Height' = Height /\ Loaded'
      /\ StoredEvents' = StoredEvents \cup {e}
      /\ VisibleEvents = StoredEvents /\ VisibleEvents' = StoredEvents'
  BY ZenonT(30), <1>1, <1>2, StreamAssumption
     DEF Height, Loaded, StoredEvents, VisibleEvents, BlockEvents
<1>4. cookie[c] \in Cookie /\ cookie[c].gen \in Nat /\ cookie[c].slot \in Nat
  BY DEF Inv, TypeOK, Cookie
<1>5. CASE c \in receivers
  <2>1. /\ got'[c] = got[c] \cup {e} /\ cookie'[c] = SyncCookie(view')
        /\ got[c] = VisibleEvents /\ EventsOf(dbBlocks, cookie[c].gen) \subseteq got[c]
        /\ cookie[c] = SyncCookie(view)
    BY Zenon, <1>1, <1>5 DEF Notify, InvClient
  <2>2. /\ got'[c] = VisibleEvents' /\ got'[c] = StoredEvents'
        /\ cookie'[c].gen = Height /\ cookie[c].gen = Height
        /\ cookie'[c].slot = Len(dbMinipool')
        /\ SyncCookie(view)' = SyncCookie(view')
    <3>1. got'[c] = VisibleEvents' /\ got'[c] = StoredEvents'
      BY Zenon, <1>3, <2>1
    <3>2. /\ SyncCookie(view').gen = Height /\ SyncCookie(view).gen = Height
          /\ SyncCookie(view').slot = Len(dbMinipool')
      BY Zenon, <1>1, <1>2 DEF SyncCookie
    <3> QED
      BY Zenon, <2>1, <3>1, <3>2
  <2>3. /\ Len(dbMinipool') <= Len(dbMinipool') /\ Height <= Height
        /\ \A k \in 1..Len(dbMinipool') : dbMinipool'[k] \in Elements(dbMinipool')
    BY <1>1 DEF Elements
  <2>4. Elements(dbMinipool') \subseteq StoredEvents'
    BY Zenon DEF StoredEvents
  <2>5. KnowsSlots(c, dbMinipool)' /\ KnowsSlots(c, view.minipool)'
    BY Zenon, <1>2, <2>2, <2>3, <2>4 DEF KnowsSlots
  <2> QED
    BY Zenon, <1>1, <1>2, <1>3, <2>1, <2>2, <2>3, <2>5 DEF InvClient
<1>6. CASE c \notin receivers
  <2>1. got'[c] = got[c] /\ cookie'[c] = cookie[c]
    BY Zenon, <1>1, <1>6 DEF Notify
  <2>2. /\ got[c] \subseteq StoredEvents /\ cookie[c].gen <= Height
        /\ EventsOf(dbBlocks, cookie[c].gen) \subseteq got[c]
        /\ cookie[c].gen = Height => KnowsSlots(c, dbMinipool)
    BY Zenon, <1>1 DEF InvClient
  <2>3. KnowsSlots(c, dbMinipool) =>
          /\ cookie[c].slot <= Len(dbMinipool')
          /\ \A k \in 1..cookie[c].slot : dbMinipool'[k] \in got[c]
    BY Zenon, <1>1, <1>4, SlotsGrow DEF KnowsSlots
  <2>4. KnowsSlots(c, dbMinipool) => KnowsSlots(c, dbMinipool)' /\ KnowsSlots(c, view.minipool)'
    BY Zenon, <1>2, <2>1, <2>3 DEF KnowsSlots
  <2> QED
    BY Zenon, <1>1, <1>2, <1>3, <1>6, <2>1, <2>2, <2>4 DEF InvClient
<1> QED
  BY Zenon, <1>5, <1>6

\* An event that the view does not show is not sent.
LEMMA AddEventAmbiguousClient ==
  ASSUME Inv, NEW r \in Request, NEW c \in Client, InvClient(c), AddEventAmbiguous(r)
  PROVE  InvClient(c)'
<1> DEFINE e == inflight[r]
<1>1. /\ Loaded /\ e \in Event /\ dbMinipool \in Seq(Event)
      /\ dbMinipool' = Append(dbMinipool, e)
      /\ dbBlocks' = dbBlocks /\ receivers' = receivers /\ view' = view
      /\ cookie' = cookie /\ got' = got
  BY Zenon, WriteFacts DEF AddEventAmbiguous, WriteEvent, clientVars
<1>2. Elements(dbMinipool') = Elements(dbMinipool) \cup {e}
  BY Zenon, <1>1, AppendElements
<1>3. /\ Height' = Height /\ Loaded'
      /\ StoredEvents \subseteq StoredEvents'
      /\ VisibleEvents' = VisibleEvents
      /\ SyncCookie(view)' = SyncCookie(view)
  BY Zenon, <1>1, <1>2
     DEF Height, Loaded, StoredEvents, VisibleEvents, BlockEvents, SyncCookie
<1>4. cookie[c].slot \in Nat
  BY DEF Inv, TypeOK, Cookie
<1>5. KnowsSlots(c, dbMinipool) => KnowsSlots(c, dbMinipool)'
  <2>1. KnowsSlots(c, dbMinipool) =>
          /\ cookie[c].slot <= Len(dbMinipool')
          /\ \A k \in 1..cookie[c].slot : dbMinipool'[k] \in got[c]
    BY Zenon, <1>1, <1>4, SlotsGrow DEF KnowsSlots
  <2> QED
    BY Zenon, <1>1, <2>1 DEF KnowsSlots
<1>6. KnowsSlots(c, view.minipool) => KnowsSlots(c, view.minipool)'
  BY Zenon, <1>1 DEF KnowsSlots
<1> QED
  BY Zenon, <1>1, <1>3, <1>5, <1>6 DEF InvClient

\* Sealing events shows no other event than before, whether or not the view
\* hears of it.
LEMMA PromoteClient ==
  ASSUME Inv, producer = "registered", Loaded, Promote, receivers' = receivers,
         NEW c \in Client, InvClient(c),
         \/ view' = copyAndApplyBlock(view, work) /\ Notify({}, view')
         \/ UNCHANGED <<view, clientVars>>
  PROVE  InvClient(c)'
<1> DEFINE n == Height
           rest == dbMinipool'
           seen == VisibleEvents
<1>1. /\ work \in Miniblock /\ view \in View /\ view.generation = n
      /\ dbBlocks \in Seq(Miniblock) /\ n \in Nat \ {0}
      /\ dbBlocks' = Append(dbBlocks, work) /\ Height' = n + 1
      /\ rest = copyAndApplyBlock(view, work).minipool /\ rest \in Seq(Event)
      /\ view.minipool = work.events \o rest
  BY Zenon, PromotedRows
<1>2. /\ \A i \in 0..n : EventsOf(dbBlocks', i) = EventsOf(dbBlocks, i)
      /\ EventsOf(dbBlocks', n + 1) = EventsOf(dbBlocks, n) \cup Elements(work.events)
  <2>1. n = Len(dbBlocks)
    BY Zenon DEF Height
  <2> HIDE DEF n
  <2> QED
    BY <1>1, <2>1, EventsOfAppend, Zenon
<1>3. Elements(view.minipool) = Elements(work.events) \cup Elements(rest)
  <2>1. work.events \in Seq(Event) /\ Distinct(view.minipool)
    BY Zenon, <1>1, MiniblockFields, RegisteredFacts
  <2>2. Distinct(work.events \o rest)
    BY Zenon, <1>1, <2>1
  <2>3. Elements(work.events \o rest) = Elements(work.events) \cup Elements(rest)
    BY Zenon, <1>1, <2>1, <2>2, ConcatElements
  <2> QED
    BY Zenon, <1>1, <2>3
<1>4. /\ seen = EventsOf(dbBlocks, n) \cup Elements(view.minipool)
      /\ StoredEvents' = EventsOf(dbBlocks', n + 1) \cup Elements(rest)
      /\ VisibleEvents' = EventsOf(dbBlocks', view'.generation) \cup Elements(view'.minipool)
  <2>1. StoredEvents' = EventsOf(dbBlocks', Height') \cup Elements(dbMinipool')
    BY Zenon DEF StoredEvents, BlockEvents, EventsOf, Height
  <2>2. VisibleEvents' = EventsOf(dbBlocks', view'.generation) \cup Elements(view'.minipool)
    BY Zenon DEF VisibleEvents, BlockEvents, EventsOf
  <2> QED
    BY Zenon, <1>1, <2>1, <2>2, EventSets
<1>5. StoredEvents' = seen
  BY Zenon, <1>2, <1>3, <1>4
<1>6. cookie[c] \in Cookie /\ cookie[c].gen \in Nat /\ cookie[c].slot \in Nat
  BY DEF Inv, TypeOK, Cookie
<1>7. /\ got[c] \subseteq seen /\ cookie[c].gen <= n
      /\ EventsOf(dbBlocks, cookie[c].gen) \subseteq got[c]
      /\ cookie[c].gen = n => KnowsSlots(c, view.minipool)
      /\ c \in receivers => got[c] = seen /\ cookie[c] = SyncCookie(view)
  BY Zenon, <1>1 DEF InvClient
<1>8. /\ cookie[c].gen \in 0..n /\ cookie[c].gen <= n + 1 /\ cookie[c].gen # n + 1
      /\ n \in 0..n
  <2> HIDE DEF n
  <2> QED
    BY SMTT(30), Z3T(30), <1>1, <1>6, <1>7
<1>9. EventsOf(dbBlocks', cookie[c].gen) \subseteq got[c]
  BY Zenon, <1>2, <1>7, <1>8
<1>10. CASE UNCHANGED <<view, clientVars>>
  <2>1. view' = view /\ cookie' = cookie /\ got' = got
    BY Zenon, <1>10 DEF clientVars
  <2>2. /\ VisibleEvents' = seen /\ SyncCookie(view)' = SyncCookie(view)
        /\ Loaded'
    BY Zenon, <1>1, <1>2, <1>4, <1>8, <2>1 DEF SyncCookie, Loaded
  <2>3. KnowsSlots(c, view.minipool)' <=> KnowsSlots(c, view.minipool)
    BY Zenon, <2>1 DEF KnowsSlots
  <2> HIDE DEF n, seen, rest
  <2> QED
    BY Zenon, <1>1, <1>5, <1>7, <1>8, <1>9, <2>1, <2>2, <2>3 DEF InvClient
<1>11. CASE view' = copyAndApplyBlock(view, work) /\ Notify({}, view')
  <2>1. /\ view' \in View /\ view'.minipool = rest /\ view'.generation = n + 1
    <3>1. /\ view.blocks # << >> /\ work.num = n
          /\ StartsWith(view.minipool, work.events) /\ Distinct(view.minipool)
      BY Zenon, RegisteredFacts
    <3> QED
      BY Zenon, <1>1, <1>11, <3>1, ViewApplyBlock
  <2>2. VisibleEvents' = seen /\ Loaded'
    BY Zenon, <1>4, <1>5, <2>1, StreamAssumption DEF Loaded
  <2>3. CASE c \in receivers
    <3>1. /\ got'[c] = seen /\ cookie'[c] = SyncCookie(view')
      BY Zenon, <1>7, <1>11, <2>3 DEF Notify
    <3>2. SyncCookie(view').gen = n + 1 /\ SyncCookie(view').slot = Len(rest)
      BY Zenon, <2>1 DEF SyncCookie
    <3>3. cookie'[c].gen = n + 1 /\ cookie'[c].slot = Len(rest)
      BY Zenon, <3>1, <3>2
    <3>4. /\ Len(rest) <= Len(rest) /\ n + 1 <= n + 1
          /\ \A k \in 1..Len(rest) : rest[k] \in Elements(rest)
      BY <1>1 DEF Elements
    <3>5. Elements(rest) \subseteq seen /\ EventsOf(dbBlocks', n + 1) \subseteq seen
      BY Zenon, <1>4, <1>5
    <3>6. KnowsSlots(c, dbMinipool)' /\ KnowsSlots(c, view.minipool)'
      BY Zenon, <2>1, <3>1, <3>3, <3>4, <3>5 DEF KnowsSlots
    <3>7. SyncCookie(view)' = SyncCookie(view')
      BY Zenon DEF SyncCookie
    <3> HIDE DEF n, seen, rest
    <3> QED
      BY ZenonT(30), <1>1, <1>5, <2>1, <2>2, <3>1, <3>3, <3>4, <3>5, <3>6, <3>7 DEF InvClient
  <2>4. CASE c \notin receivers
    <3>1. got'[c] = got[c] /\ cookie'[c] = cookie[c]
      BY Zenon, <1>11, <2>4 DEF Notify
    <3> HIDE DEF n, seen, rest
    <3> QED
      BY ZenonT(30), <1>1, <1>5, <1>7, <1>8, <1>9, <2>1, <2>2, <2>4, <3>1 DEF InvClient
  <2> QED
    BY Zenon, <2>3, <2>4
<1> QED
  BY Zenon, <1>10, <1>11

\* Whatever a view shows is stored.
LEMMA VisibleIsStored ==
  ASSUME Inv, Loaded
  PROVE  /\ VisibleEvents \subseteq StoredEvents
         /\ view.generation = Height =>
              /\ Len(view.minipool) <= Len(dbMinipool)
              /\ \A k \in 1..Len(view.minipool) : dbMinipool[k] = view.minipool[k]
<1>1. /\ view \in View /\ view.minipool \in Seq(Event) /\ dbMinipool \in Seq(Event)
      /\ dbBlocks \in Seq(Miniblock) /\ view.generation \in 1..Height
      /\ dbBlocks # << >>
  BY Zenon, ViewFields DEF Inv, TypeOK, StorageTypeOK, Loaded, InvAbsent, InvView
<1>2. Height = Len(dbBlocks) /\ Height \in Nat \ {0}
  BY <1>1 DEF Height
<1>3. CASE Current
  <2>1. /\ view.generation = Height
        /\ Elements(view.minipool) \subseteq Elements(dbMinipool)
        /\ Len(view.minipool) <= Len(dbMinipool)
        /\ \A k \in 1..Len(view.minipool) : dbMinipool[k] = view.minipool[k]
    BY Zenon, <1>1, <1>3, PrefixElements DEF Current, StartsWith
  <2> QED
    BY Zenon, <2>1, EventSets
<1>4. CASE Behind
  <2> DEFINE last == dbBlocks[Height].events
  <2>1. view.minipool = last \o dbMinipool /\ view.generation + 1 = Height
    BY Zenon, <1>4 DEF Behind
  <2>2. last \in Seq(Event)
    <3>1. dbBlocks[Height] \in Miniblock
      BY <1>1, <1>2
    <3> QED
      BY Zenon, <3>1, MiniblockFields
  <2>3. Elements(view.minipool) \subseteq Elements(last) \cup Elements(dbMinipool)
    <3> HIDE DEF last
    <3> SUFFICES ASSUME NEW i \in 1..(Len(last) + Len(dbMinipool))
                 PROVE  (last \o dbMinipool)[i] \in Elements(last) \cup Elements(dbMinipool)
      BY SMTT(30), Z3T(30), <1>1, <2>1, <2>2 DEF Elements
    <3>1. CASE i <= Len(last)
      BY SMTT(30), Z3T(30), <1>1, <2>2, <3>1 DEF Elements
    <3>2. CASE i > Len(last)
      <4>1. /\ i - Len(last) \in 1..Len(dbMinipool)
            /\ (last \o dbMinipool)[i] = dbMinipool[i - Len(last)]
        BY SMTT(30), Z3T(30), <1>1, <2>2, <3>2
      <4> QED
        BY SMTT(30), Z3T(30), <1>1, <4>1 DEF Elements
    <3> QED
      BY SMTT(30), Z3T(30), <2>2, <3>1, <3>2
  <2>4. Height \in 1..Height /\ \A i \in 1..view.generation : i \in 1..Height
    BY <1>1, <1>2
  <2>5. /\ EventsOf(dbBlocks, view.generation) \subseteq EventsOf(dbBlocks, Height)
        /\ Elements(last) \subseteq EventsOf(dbBlocks, Height)
    BY Zenon, <2>4 DEF EventsOf
  <2>6. view.generation # Height
    BY SMTT(30), Z3T(30), <1>1, <1>2, <2>1
  <2> QED
    BY Zenon, <2>3, <2>5, <2>6, EventSets
<1> QED
  BY Zenon, <1>3, <1>4 DEF Inv, InvView

\* A client that has been brought up to date with the view.
LEMMA UpToDate ==
  ASSUME Inv, Loaded, NEW c \in Client,
         UNCHANGED <<dbBlocks, dbMinipool, view>>,
         got'[c] = VisibleEvents, cookie'[c] = SyncCookie(view)
  PROVE  InvClient(c)'
<1> DEFINE m == view.minipool
           g == view.generation
<1>1. /\ dbBlocks' = dbBlocks /\ dbMinipool' = dbMinipool /\ view' = view
      /\ view \in View /\ m \in Seq(Event) /\ g \in 1..Height /\ dbBlocks \in Seq(Miniblock)
  BY Zenon, ViewFields DEF Inv, TypeOK, StorageTypeOK, Loaded, InvView
<1>2. /\ Height' = Height /\ StoredEvents' = StoredEvents
      /\ VisibleEvents' = VisibleEvents /\ Loaded'
      /\ SyncCookie(view)' = SyncCookie(view)
  BY Zenon, <1>1 DEF Height, StoredEvents, VisibleEvents, BlockEvents, Loaded, SyncCookie
<1>3. cookie'[c].gen = g /\ cookie'[c].slot = Len(m)
  <2>1. SyncCookie(view).gen = g /\ SyncCookie(view).slot = Len(m)
    BY Zenon DEF SyncCookie
  <2> QED
    BY Zenon, <2>1
<1>4. g <= Height /\ g <= g /\ Len(m) <= Len(m)
  <2>1. Height \in Nat
    BY <1>1 DEF Height
  <2> QED
    BY SMTT(30), Z3T(30), <1>1, <2>1
<1>5. EventsOf(dbBlocks, g) \subseteq VisibleEvents /\ Elements(m) \subseteq VisibleEvents
  BY Zenon, EventSets
<1>6. \A k \in 1..Len(m) : m[k] \in VisibleEvents
  <2>1. \A k \in 1..Len(m) : m[k] \in Elements(m)
    BY <1>1 DEF Elements
  <2> QED
    BY Zenon, <1>5, <2>1
<1>7. KnowsSlots(c, view.minipool)'
  BY Zenon, <1>1, <1>3, <1>4, <1>6 DEF KnowsSlots
<1>8. g = Height => KnowsSlots(c, dbMinipool)'
  BY Zenon, <1>1, <1>3, <1>6, VisibleIsStored DEF KnowsSlots
<1> HIDE DEF m, g
<1> QED
  BY Zenon, <1>1, <1>2, <1>3, <1>4, <1>5, <1>7, <1>8, VisibleIsStored DEF InvClient, g

\* What Sub adds is what the client lacks: the rest of the minipool, or the
\* blocks since the one its cookie names and the minipool, or everything.
LEMMA SubServes ==
  ASSUME Inv, InvChain, InvWindow, NEW c \in Client, InvClient(c), Sub(c)
  PROVE  got'[c] = VisibleEvents /\ cookie'[c] = SyncCookie(view)
<1> DEFINE g == view.generation
           gen == cookie[c].gen
           slot == cookie[c].slot
           m == view.minipool
           found == indexOfMiniblockWithNum(view, gen)
           n == Len(view.blocks)
<1>1. /\ Loaded /\ view \in View /\ dbBlocks \in Seq(Miniblock)
      /\ Height \in Nat \ {0} /\ g \in 1..Height /\ Window(view, dbBlocks)
      /\ StreamContents(view) = VisibleEvents
  BY Zenon, LoadedFacts DEF Sub
<1>2. /\ gen \in Nat /\ slot \in Nat /\ c \in DOMAIN got /\ c \in DOMAIN cookie
  BY DEF Inv, TypeOK, Cookie
<1>3. /\ m \in Seq(Event) /\ view.blocks \in Seq(Miniblock)
      /\ n \in Nat /\ n <= g
      /\ \A i \in 1..n : view.blocks[i] = dbBlocks[g - n + i]
  <2>1. m \in Seq(Event) /\ view.blocks \in Seq(Miniblock)
    BY Zenon, <1>1, ViewFields
  <2>2. n \in Nat
    BY <2>1
  <2> QED
    BY Zenon, <1>1, <2>1, <2>2 DEF Window
<1>4. /\ got[c] \subseteq VisibleEvents /\ gen <= g
      /\ EventsOf(dbBlocks, gen) \subseteq got[c]
      /\ gen = g => KnowsSlots(c, m)
  BY Zenon, <1>1 DEF InvClient
<1>5. VisibleEvents = EventsOf(dbBlocks, g) \cup Elements(m)
  BY Zenon, EventSets
<1>6. /\ cookie'[c] = SyncCookie(view)
      /\ got'[c] = IF gen = g THEN got[c] \cup EventsFromSlot(view, slot)
                   ELSE IF found # {}
                   THEN got[c] \cup EventsFrom(view, CHOOSE i \in found : TRUE)
                   ELSE StreamContents(view)
  <2>1. /\ cookie' = [cookie EXCEPT ![c] = SyncCookie(view)]
        /\ got' = [got EXCEPT ![c] =
                     IF gen = g THEN got[c] \cup EventsFromSlot(view, slot)
                     ELSE IF found # {}
                     THEN got[c] \cup EventsFrom(view, CHOOSE i \in found : TRUE)
                     ELSE StreamContents(view)]
    BY Zenon DEF Sub
  <2> HIDE DEF found, gen, slot, g
  <2> QED
    BY Zenon, <1>2, <2>1
<1>7. CASE gen = g
  <2>1. got'[c] = got[c] \cup EventsFromSlot(view, slot)
    BY Zenon, <1>6, <1>7
  <2>2. EventsFromSlot(view, slot) \subseteq Elements(m)
    BY SMTT(30), Z3T(30), <1>2, <1>3 DEF EventsFromSlot, Elements
  <2>3. Elements(m) \subseteq got[c] \cup EventsFromSlot(view, slot)
    <3> SUFFICES ASSUME NEW k \in 1..Len(m)
                 PROVE  m[k] \in got[c] \cup EventsFromSlot(view, slot)
      BY <1>3 DEF Elements
    <3>1. CASE k \in 1..slot
      BY Zenon, <1>4, <1>7, <3>1 DEF KnowsSlots
    <3>2. CASE k \in (slot + 1)..Len(m)
      BY Zenon, <3>2 DEF EventsFromSlot
    <3>3. k \in 1..slot \/ k \in (slot + 1)..Len(m)
      BY <1>2, <1>3
    <3> QED
      BY Zenon, <3>1, <3>2, <3>3
  <2> QED
    BY Zenon, <1>4, <1>5, <1>6, <1>7, <2>1, <2>2, <2>3
<1>8. CASE gen # g /\ found # {}
  <2>1. PICK i \in found : got'[c] = got[c] \cup EventsFrom(view, i)
    <3> DEFINE x == CHOOSE i \in found : TRUE
    <3>1. x \in found
      <4> HIDE DEF found
      <4> QED
        BY Zenon, <1>8
    <3> HIDE DEF found
    <3> QED
      BY Zenon, <1>6, <1>8, <3>1
  <2>2. i \in DOMAIN view.blocks /\ view.blocks[i].num = gen
    BY Zenon DEF indexOfMiniblockWithNum
  <2>3. i \in 1..n
    BY <1>3, <2>2
  <2>4. gen = g - n + i - 1
    <3>1. g - n + i \in 1..Height
      BY SMTT(30), Z3T(30), <1>1, <1>3, <2>3
    <3>2. view.blocks[i] = dbBlocks[g - n + i] /\ dbBlocks[g - n + i].num = (g - n + i) - 1
      <4>1. \A k \in 1..Height : dbBlocks[k].num = k - 1
        BY Zenon DEF Inv, InvStorage
      <4>2. dbBlocks[g - n + i].num = (g - n + i) - 1
        <5> HIDE DEF g, n
        <5> QED
          BY Zenon, <3>1, <4>1
      <4> QED
        BY Zenon, <1>3, <2>3, <4>2
    <3>3. gen = (g - n + i) - 1
      BY Zenon, <2>2, <3>2
    <3> QED
      BY SMTT(30), Z3T(30), <1>1, <1>3, <2>3, <3>3
  <2>5. EventsFrom(view, i) = Elements(m) \cup EventsBetween(view.blocks, i, n)
    BY Zenon DEF EventsFrom, EventsBetween
  <2>6. /\ i - 1 \in 0..n /\ (i - 1) + 1 = i /\ g - n + (i - 1) + 1 = gen + 1
    BY SMTT(30), Z3T(30), <1>1, <1>3, <2>3, <2>4
  <2>7. EventsBetween(view.blocks, (i - 1) + 1, n)
          = EventsBetween(dbBlocks, g - n + (i - 1) + 1, g)
    BY SMTT(30), Z3T(30), <1>1, <2>6, WindowEvents
  <2>8. EventsOf(dbBlocks, g) = EventsOf(dbBlocks, gen) \cup EventsBetween(dbBlocks, gen + 1, g)
    <3>1. g \in Nat
      BY <1>1
    <3> HIDE DEF g, gen
    <3> QED
      BY SMTT(30), Z3T(30), <1>1, <1>2, <1>4, <3>1, EventsOfSplit
  <2>9. EventsFrom(view, i) = Elements(m) \cup EventsBetween(dbBlocks, gen + 1, g)
    BY Zenon, <2>5, <2>6, <2>7
  <2> QED
    BY Zenon, <1>4, <1>5, <1>6, <2>1, <2>8, <2>9
<1>9. CASE gen # g /\ found = {}
  BY Zenon, <1>1, <1>6, <1>9
<1> QED
  BY Zenon, <1>7, <1>8, <1>9

LEMMA ReaderClients ==
  ASSUME Inv, InvChain, InvWindow, \A d \in Client : InvClient(d),
         NEW c \in Client, GetStream(c) \/ Sub(c) \/ Unsub(c)
  PROVE  \A d \in Client : InvClient(d)'
<1> SUFFICES ASSUME NEW d \in Client PROVE InvClient(d)'
  BY Zenon
<1>1. UNCHANGED <<dbBlocks, dbMinipool, view>>
  BY Zenon DEF GetStream, Sub, Unsub, dbVars, nodeVars
<1>2. /\ cookie \in [Client -> Cookie] /\ got \in [Client -> SUBSET Event]
  BY Zenon DEF Inv, TypeOK
<1>3. InvClient(d)
  BY Zenon
<1>4. CASE d = c /\ (GetStream(c) \/ Sub(c))
  <2>1. Loaded
    BY Zenon, <1>4 DEF GetStream, Sub
  <2>2. got'[c] = VisibleEvents /\ cookie'[c] = SyncCookie(view)
    <3>1. CASE Sub(c)
      BY Zenon, <3>1, SubServes
    <3>2. CASE GetStream(c)
      <4>1. StreamContents(view) = VisibleEvents
        BY Zenon, <2>1, LoadedFacts
      <4> QED
        BY Zenon, <1>2, <3>2, <4>1 DEF GetStream
    <3> QED
      BY Zenon, <1>4, <3>1, <3>2
  <2> QED
    BY Zenon, <1>1, <1>4, <2>1, <2>2, UpToDate
<1>5. CASE d # c /\ (GetStream(c) \/ Sub(c))
  <2>1. cookie'[d] = cookie[d] /\ got'[d] = got[d] /\ (d \in receivers' => d \in receivers)
    BY Zenon, <1>2, <1>5 DEF GetStream, Sub, nodeVars
  <2> QED
    BY Zenon, <1>1, <1>3, <2>1, SameClient
<1>6. CASE Unsub(c)
  <2>1. cookie'[d] = cookie[d] /\ got'[d] = got[d] /\ (d \in receivers' => d \in receivers)
    BY Zenon, <1>6 DEF Unsub, clientVars
  <2> QED
    BY Zenon, <1>1, <1>3, <2>1, SameClient
<1> QED
  BY Zenon, <1>4, <1>5, <1>6

(***************************************************************************)
(* The invariant, action by action.                                        *)
(***************************************************************************)

\* A step that changes neither the rows nor the view, nor what clients know,
\* and builds no block.
LEMMA QuietStep ==
  ASSUME ReaderInv, UNCHANGED <<dbVars, view, receivers, clientVars>>,
         producer' = "built" => producer = "built" /\ work' = work
  PROVE  ReaderInv'
<1>1. /\ dbBlocks' = dbBlocks /\ dbMinipool' = dbMinipool /\ view' = view
      /\ cookie' = cookie /\ got' = got /\ receivers' = receivers
      /\ UNCHANGED dbVars
  BY Zenon DEF dbVars, clientVars
<1>2. InvChain'
  BY Zenon, <1>1, SameChain DEF ReaderInv
<1>3. InvWindow'
  BY Zenon, <1>1 DEF ReaderInv, InvWindow, Loaded
<1>4. ASSUME NEW c \in Client PROVE InvClient(c)'
  BY Zenon, <1>1, SameClient DEF ReaderInv
<1> QED
  BY Zenon, <1>2, <1>3, <1>4 DEF ReaderInv

LEMMA UnloadReaders ==
  ASSUME ReaderInv, Evict \/ ForceFlush \/ Crash
  PROVE  ReaderInv'
<1>1. /\ view' = NoView /\ receivers' = {} /\ UNCHANGED dbVars /\ UNCHANGED clientVars
      /\ producer' = "built" => producer = "built" /\ work' = work
  BY Zenon DEF Evict, ForceFlush, Crash
<1>2. UNCHANGED <<dbBlocks, dbMinipool, cookie, got>>
  BY Zenon, <1>1 DEF dbVars, clientVars
<1>3. InvChain'
  BY Zenon, <1>1, SameChain DEF ReaderInv
<1>4. InvWindow'
  BY Zenon, <1>1 DEF InvWindow, Loaded
<1>5. ASSUME NEW c \in Client PROVE InvClient(c)'
  BY Zenon, <1>1, <1>2, UnloadClient DEF ReaderInv
<1> QED
  BY Zenon, <1>3, <1>4, <1>5 DEF ReaderInv

LEMMA CreateReaders ==
  ASSUME Inv, ReaderInv, CanCreateStreamStorage, CreateStreamStorage(Genesis),
         view' \in {view, MakeStreamView(<<Genesis>>, << >>)},
         UNCHANGED <<clientVars, receivers, producer, work>>
  PROVE  ReaderInv'
<1>1. UNCHANGED <<cookie, got, receivers>>
  BY Zenon DEF clientVars
<1>2. InvChain'
  BY Zenon, CreateChain
<1>3. ASSUME NEW c \in Client PROVE InvClient(c)'
  BY Zenon, <1>1, CreateClient DEF ReaderInv
<1>4. InvWindow'
  <2>1. CASE view' = view
    BY Zenon, <2>1 DEF Inv, InvAbsent, CanCreateStreamStorage, InvWindow, Loaded
  <2>2. CASE view' = MakeStreamView(<<Genesis>>, << >>)
    <3> DEFINE bs == <<Genesis>>
    <3>1. /\ Genesis \in Miniblock /\ Genesis.isSnapshot /\ Genesis.num = 0
      BY Zenon, GenesisFacts
    <3>2. /\ bs \in Seq(Miniblock) /\ 0 \in 0..(Len(bs) - 1) /\ bs[0 + 1].isSnapshot
          /\ \A i \in 1..Len(bs) : bs[i].num = i - 1
          /\ << >> \in Seq(Event)
      BY <3>1
    <3>5. SubSeq(bs, 0 + 1, Len(bs)) = bs
      <4> DEFINE cs == SubSeq(bs, 0 + 1, Len(bs))
      <4>1. /\ DOMAIN cs = 1..1 /\ DOMAIN bs = 1..1 /\ \A i \in 1..1 : cs[i] = bs[i]
            /\ cs = [i \in DOMAIN cs |-> cs[i]] /\ bs = [i \in DOMAIN bs |-> bs[i]]
        BY <3>1
      <4> QED
        BY Zenon, <4>1
    <3>3. Window(MakeStreamView(SubSeq(bs, 0 + 1, Len(bs)), << >>), bs)
      <4> HIDE DEF bs
      <4> QED
        BY <3>2, LoadWindow, Zenon
    <3>4. dbBlocks' = bs
      BY Zenon DEF CreateStreamStorage
    <3> QED
      BY Zenon, <2>2, <3>3, <3>4, <3>5 DEF InvWindow
  <2> QED
    BY Zenon, <2>1, <2>2
<1> QED
  BY Zenon, <1>2, <1>3, <1>4 DEF ReaderInv

LEMMA LoadReaders ==
  ASSUME Inv, ReaderInv, Load
  PROVE  ReaderInv'
<1>1. /\ ~Loaded /\ UNCHANGED <<clientVars, receivers, producer, work>>
      /\ cookie' = cookie /\ got' = got /\ receivers' = receivers
  BY Zenon DEF Load, clientVars
<1>2. CASE initFromBlockchain
  BY Zenon, <1>1, <1>2, CreateReaders DEF initFromBlockchain
<1>3. CASE LoadFromStorage
  <2>1. /\ view' = MakeStreamView(StoredBlocks, dbMinipool) /\ UNCHANGED dbVars
        /\ dbBlocks' = dbBlocks /\ dbMinipool' = dbMinipool /\ dbBlocks # << >>
    BY Zenon, <1>3 DEF LoadFromStorage, dbVars, CanReadStreamFromLastSnapshot
  <2>2. /\ dbBlocks \in Seq(Miniblock) /\ dbMinipool \in Seq(Event) /\ dbSnapshot \in Nat
        /\ dbSnapshot < Height /\ dbBlocks[dbSnapshot + 1].isSnapshot
        /\ \A i \in 1..Height : dbBlocks[i].num = i - 1
    BY Zenon, <2>1 DEF Inv, TypeOK, StorageTypeOK, InvStorage
  <2>3. Height = Len(dbBlocks) /\ Height \in Nat \ {0} /\ dbSnapshot \in 0..(Len(dbBlocks) - 1)
    BY SMTT(30), Z3T(30), <2>1, <2>2 DEF Height
  <2>4. /\ view'.generation = Height /\ view'.minipool = dbMinipool
        /\ Window(view', dbBlocks)
    BY Zenon, <2>1, <2>2, <2>3, LoadWindow DEF StoredBlocks
  <2>5. InvWindow'
    BY Zenon, <2>1, <2>4 DEF InvWindow
  <2>6. InvChain'
    BY Zenon, <1>1, <2>1, SameChain DEF ReaderInv
  <2>7. ASSUME NEW c \in Client PROVE InvClient(c)'
    <3>1. UNCHANGED <<dbBlocks, dbMinipool, cookie, got, receivers>>
      BY Zenon, <1>1, <2>1
    <3> QED
      BY Zenon, <1>1, <2>3, <2>4, <3>1, LoadClient DEF ReaderInv
  <2> QED
    BY Zenon, <2>5, <2>6, <2>7 DEF ReaderInv
<1> QED
  BY Zenon, <1>2, <1>3 DEF Load

LEMMA TryLoadReaders ==
  ASSUME Inv, ReaderInv, TryLoadStreamRecord
  PROVE  ReaderInv'
<1>1. UNCHANGED <<clientVars, receivers, producer, work>>
  BY Zenon DEF TryLoadStreamRecord
<1>2. CASE CanCreateStreamStorage /\ CreateStreamStorage(Genesis)
  <2>1. view' \in {view, MakeStreamView(<<Genesis>>, << >>)}
    BY Zenon DEF TryLoadStreamRecord
  <2> QED
    BY Zenon, <1>1, <1>2, <2>1, CreateReaders
<1>3. CASE UNCHANGED <<dbVars, view>>
  BY Zenon, <1>1, <1>3, QuietStep
<1> QED
  BY Zenon, <1>2, <1>3 DEF TryLoadStreamRecord

LEMMA AddEventReaders ==
  ASSUME Inv, ReaderInv, NEW r \in Request, AddEvent(r) \/ AddEventAmbiguous(r)
  PROVE  ReaderInv'
<1>1. /\ dbBlocks' = dbBlocks /\ dbSnapshot' = dbSnapshot /\ dbCandidates' = dbCandidates
      /\ producer' = producer /\ work' = work /\ Loaded
  BY Zenon DEF AddEvent, AddEventAmbiguous, WriteEvent
<1>2. InvChain'
  <2>1. ChainIntegrity'
    BY Zenon, <1>1 DEF ReaderInv, InvChain, ChainIntegrity
  <2>2. Height' = Height
    BY Zenon, <1>1 DEF Height
  <2> QED
    BY Zenon, <1>1, <2>1, <2>2 DEF ReaderInv, InvChain
<1>3. InvWindow'
  <2>1. CASE view' = view
    BY Zenon, <1>1, <2>1 DEF ReaderInv, InvWindow
  <2>2. CASE view' = copyAndAddEvent(view, inflight[r]) /\ AddEvent(r)
    <3>1. inflight[r] \in Event /\ view \in View
      BY Zenon, <2>2, WriteFacts DEF AddEvent
    <3>2. Window(view, dbBlocks)
      BY Zenon, <1>1 DEF ReaderInv, InvWindow
    <3>3. Window(copyAndAddEvent(view, inflight[r]), dbBlocks)
      BY Zenon, <3>1, <3>2, AddEventWindow
    <3> QED
      BY Zenon, <1>1, <2>2, <3>3 DEF InvWindow
  <2> QED
    BY Zenon, <2>1, <2>2 DEF AddEvent, AddEventAmbiguous
<1>4. ASSUME NEW c \in Client PROVE InvClient(c)'
  BY Zenon, AddEventClient, AddEventAmbiguousClient DEF ReaderInv
<1> QED
  BY Zenon, <1>2, <1>3, <1>4 DEF ReaderInv

LEMMA PromoteReaders ==
  ASSUME Inv, ReaderInv, producer = "registered", Loaded, Promote, ProducerReturns,
         receivers' = receivers,
         \/ view' = copyAndApplyBlock(view, work) /\ Notify({}, view')
         \/ UNCHANGED <<view, clientVars>>
  PROVE  ReaderInv'
<1>1. InvChain'
  BY Zenon, PromoteChain DEF ReaderInv
<1>2. ASSUME NEW c \in Client PROVE InvClient(c)'
  BY Zenon, PromoteClient DEF ReaderInv
<1>3. InvWindow'
  <2>1. /\ work \in Miniblock /\ view \in View /\ view.generation = Height
        /\ work.num = Height /\ dbBlocks \in Seq(Miniblock)
        /\ dbBlocks' = Append(dbBlocks, work) /\ Height = Len(dbBlocks)
    BY Zenon, PromotedRows DEF Height
  <2>2. Window(view, dbBlocks)
    BY Zenon DEF ReaderInv, InvWindow
  <2>3. CASE view' = view
    BY Zenon, <2>1, <2>2, <2>3, AppendWindow DEF InvWindow
  <2>4. CASE view' = copyAndApplyBlock(view, work)
    <3>1. Window(copyAndApplyBlock(view, work), Append(dbBlocks, work))
      BY Zenon, <2>1, <2>2, ApplyWindow
    <3> QED
      BY Zenon, <2>1, <2>4, <3>1 DEF InvWindow
  <2> QED
    BY Zenon, <2>3, <2>4
<1> QED
  BY Zenon, <1>1, <1>2, <1>3 DEF ReaderInv

LEMMA ApplyReaders ==
  ASSUME Inv, ReaderInv, ApplyMiniblock \/ ApplyMiniblockAmbiguous
  PROVE  ReaderInv'
<1>1. /\ producer = "registered" /\ Loaded /\ ProducerReturns /\ receivers' = receivers
      /\ producer' = "idle"
  BY Zenon DEF ApplyMiniblock, ApplyMiniblockAmbiguous, ProducerReturns
<1>2. CASE Promote
  <2>1. CASE ApplyMiniblockAmbiguous
    <3>1. UNCHANGED <<view, clientVars>>
      BY Zenon, <2>1 DEF ApplyMiniblockAmbiguous
    <3> QED
      BY Zenon, <1>1, <1>2, <3>1, PromoteReaders
  <2>2. CASE ApplyMiniblock /\ view' = copyAndApplyBlock(view, work) /\ Notify({}, view')
    BY Zenon, <1>1, <1>2, <2>2, PromoteReaders
  <2>3. CASE ApplyMiniblock /\ UNCHANGED <<dbVars, view, clientVars>>
    BY Zenon, <1>1, <2>3, QuietStep
  <2> QED
    BY Zenon, <2>1, <2>2, <2>3 DEF ApplyMiniblock
<1>3. CASE UNCHANGED <<dbVars, view, clientVars>>
  BY Zenon, <1>1, <1>3, QuietStep
<1> QED
  BY Zenon, <1>2, <1>3 DEF ApplyMiniblock, ApplyMiniblockAmbiguous

\* The producer's other steps, and those of a client.
LEMMA ProducerReaders ==
  ASSUME Inv, ReaderInv, MakeMiniblockHeader \/ StoreMiniblockCandidate
  PROVE  ReaderInv'
<1>1. /\ dbBlocks' = dbBlocks /\ dbMinipool' = dbMinipool /\ view' = view
      /\ cookie' = cookie /\ got' = got /\ receivers' = receivers
  BY Zenon DEF MakeMiniblockHeader, StoreMiniblockCandidate, WriteBlockProposal,
               dbVars, clientVars
<1>2. InvChain'
  BY Zenon, HeaderChain, CandidateChain DEF ReaderInv
<1>3. InvWindow'
  BY Zenon, <1>1 DEF ReaderInv, InvWindow, Loaded
<1>4. ASSUME NEW c \in Client PROVE InvClient(c)'
  BY Zenon, <1>1, SameClient DEF ReaderInv
<1> QED
  BY Zenon, <1>2, <1>3, <1>4 DEF ReaderInv

LEMMA ClientReaders ==
  ASSUME Inv, ReaderInv, NEW c \in Client, GetStream(c) \/ Sub(c) \/ Unsub(c)
  PROVE  ReaderInv'
<1>1. /\ UNCHANGED dbVars /\ dbBlocks' = dbBlocks /\ view' = view
      /\ producer' = producer /\ work' = work
  BY Zenon DEF GetStream, Sub, Unsub, dbVars, nodeVars
<1>2. InvChain'
  BY Zenon, <1>1, SameChain DEF ReaderInv
<1>3. InvWindow'
  BY Zenon, <1>1 DEF ReaderInv, InvWindow, Loaded
<1>4. \A d \in Client : InvClient(d)'
  BY Zenon, ReaderClients DEF ReaderInv
<1> QED
  BY Zenon, <1>2, <1>3, <1>4 DEF ReaderInv

\* One case per action of Next.
LEMMA ReaderStep ==
  ASSUME Inv, ReaderInv, [Next]_vars
  PROVE  ReaderInv'
<1>1. CASE TryLoadStreamRecord \/ Load
  BY Zenon, <1>1, TryLoadReaders, LoadReaders
<1>2. CASE Evict \/ ForceFlush \/ Crash
  BY Zenon, <1>2, UnloadReaders
<1>3. CASE \E r \in Request, e \in Event : CheckEvent(r, e)
  BY Zenon, <1>3, QuietStep DEF CheckEvent
<1>4. CASE \E r \in Request : AddEvent(r) \/ AddEventAmbiguous(r)
  BY Zenon, <1>4, AddEventReaders
<1>5. CASE \E r \in Request : AddEventFails(r)
  BY Zenon, <1>5, QuietStep DEF AddEventFails
<1>6. CASE \E force \in BOOLEAN : Propose(force)
  BY Zenon, <1>6, QuietStep DEF Propose
<1>7. CASE MakeMiniblockHeader \/ StoreMiniblockCandidate
  BY Zenon, <1>7, ProducerReaders
<1>8. CASE SubmitTx \/ SubmitTxAmbiguous \/ ProducerFails
  BY Zenon, <1>8, QuietStep DEF SubmitTx, SubmitTxAmbiguous, ProducerFails, ProducerReturns
<1>9. CASE MineTx \/ LoseTx
  <2>1. /\ UNCHANGED <<dbVars, view, receivers, clientVars>>
        /\ producer' = "built" => producer = "built" /\ work' = work
    BY Zenon, <1>9 DEF MineTx, LoseTx, ProducerReturns
  <2> QED
    BY Zenon, <2>1, QuietStep
<1>10. CASE ApplyMiniblock \/ ApplyMiniblockAmbiguous
  BY Zenon, <1>10, ApplyReaders
<1>11. CASE \E c \in Client : GetStream(c) \/ Sub(c) \/ Unsub(c)
  BY Zenon, <1>11, ClientReaders
<1>12. CASE UNCHANGED vars
  <2>1. /\ UNCHANGED <<dbVars, view, receivers, clientVars>>
        /\ producer' = producer /\ work' = work
    BY Zenon, <1>12 DEF vars, nodeVars
  <2> QED
    BY Zenon, <2>1, QuietStep
<1> QED
  BY ZenonT(30), <1>1, <1>2, <1>3, <1>4, <1>5, <1>6, <1>7, <1>8, <1>9, <1>10, <1>11, <1>12
     DEF Next

LEMMA InitReaders ==
  ASSUME Init
  PROVE  ReaderInv
<1>1. /\ dbBlocks = << >> /\ dbMinipool = << >> /\ dbCandidates = {} /\ view = NoView
      /\ producer = "idle" /\ receivers = {}
  BY Zenon DEF Init, StorageInit
<1>2. InvChain
  BY SMTT(30), Z3T(30), <1>1 DEF InvChain, ChainIntegrity, Height
<1>3. ASSUME NEW c \in Client PROVE InvClient(c)
  <2>1. got[c] = {} /\ cookie[c] = [gen |-> 0, slot |-> 0]
    BY Zenon DEF Init
  <2>2. cookie[c].gen = 0
    BY <2>1
  <2>3. Height = 0 /\ 0 <= 0 /\ ~(0 > 0)
    BY <1>1 DEF Height
  <2>4. EventsOf(dbBlocks, 0) = {}
    BY DEF EventsOf
  <2> QED
    BY Zenon, <1>1, <2>1, <2>2, <2>3, <2>4 DEF InvClient, Loaded
<1> QED
  BY Zenon, <1>1, <1>2, <1>3 DEF ReaderInv, InvWindow, Loaded

(***************************************************************************)
(* The offsets number the events in every reachable state.                 *)
(***************************************************************************)

LEMMA PromoteNumbers ==
  ASSUME Inv, ReaderInv, InvNumbers, producer = "registered", Loaded, Promote
  PROVE  InvNumbers'
<1>1. /\ work \in dbCandidates /\ work \in Miniblock /\ dbBlocks \in Seq(Miniblock)
      /\ Height \in Nat \ {0} /\ dbBlocks' = Append(dbBlocks, work)
  BY Zenon, PromotedRows
<1>2. work.offset = dbBlocks[Height].offset + Len(dbBlocks[Height].events) + 1
  BY Zenon, <1>1 DEF ReaderInv, InvChain, Follows
<1>3. dbBlocks # << >>
  BY <1>1 DEF Height
<1>4. Numbered(Append(dbBlocks, work))
  BY Zenon, <1>1, <1>2, <1>3, NumberedAppend DEF InvNumbers, Height
<1> QED
  BY Zenon, <1>1, <1>4 DEF InvNumbers

LEMMA NumberStep ==
  ASSUME Inv, ReaderInv, InvNumbers, [Next]_vars
  PROVE  InvNumbers'
<1>1. CASE UNCHANGED dbBlocks
  BY Zenon, <1>1 DEF InvNumbers
<1>2. CASE dbBlocks' = <<Genesis>>
  BY Zenon, <1>2, NumberedGenesis DEF InvNumbers
<1>3. CASE producer = "registered" /\ Loaded /\ Promote
  BY Zenon, <1>3, PromoteNumbers
<1>4. \/ UNCHANGED dbBlocks \/ dbBlocks' = <<Genesis>>
      \/ producer = "registered" /\ Loaded /\ Promote
  <2>1. CASE TryLoadStreamRecord \/ Load
    BY Zenon, <2>1 DEF TryLoadStreamRecord, Load, LoadFromStorage, initFromBlockchain,
       CreateStreamStorage, dbVars
  <2>2. CASE Evict \/ ForceFlush \/ Crash
    BY Zenon, <2>2 DEF Evict, ForceFlush, Crash, dbVars
  <2>3. CASE \E r \in Request, e \in Event : CheckEvent(r, e)
    BY Zenon, <2>3 DEF CheckEvent, dbVars
  <2>4. CASE \E r \in Request : AddEvent(r) \/ AddEventAmbiguous(r) \/ AddEventFails(r)
    BY Zenon, <2>4 DEF AddEvent, AddEventAmbiguous, AddEventFails, WriteEvent, dbVars
  <2>5. CASE (\E force \in BOOLEAN : Propose(force)) \/ MakeMiniblockHeader
             \/ StoreMiniblockCandidate
    BY Zenon, <2>5 DEF Propose, MakeMiniblockHeader, StoreMiniblockCandidate,
       WriteBlockProposal, dbVars
  <2>6. CASE SubmitTx \/ SubmitTxAmbiguous \/ MineTx \/ LoseTx \/ ProducerFails
    BY Zenon, <2>6 DEF SubmitTx, SubmitTxAmbiguous, MineTx, LoseTx, ProducerFails, dbVars
  <2>7. CASE ApplyMiniblock \/ ApplyMiniblockAmbiguous
    BY Zenon, <2>7 DEF ApplyMiniblock, ApplyMiniblockAmbiguous, dbVars
  <2>8. CASE \E c \in Client : GetStream(c) \/ Sub(c) \/ Unsub(c)
    BY Zenon, <2>8 DEF GetStream, Sub, Unsub, dbVars
  <2>9. CASE UNCHANGED vars
    BY Zenon, <2>9 DEF vars, dbVars
  <2> QED
    BY Zenon, <2>1, <2>2, <2>3, <2>4, <2>5, <2>6, <2>7, <2>8, <2>9 DEF Next
<1> QED
  BY Zenon, <1>1, <1>2, <1>3, <1>4

(***************************************************************************)
(* What clients can see.                                                   *)
(***************************************************************************)

LEMMA VisibleFacts ==
  ASSUME Inv, InvNumbers
  PROVE  /\ dbBlocks \in Seq(Miniblock) /\ Numbered(dbBlocks)
         /\ VisibleBlocks \in 0..Len(dbBlocks) /\ VisibleMinipool \in Seq(Event)
<1>1. /\ dbBlocks \in Seq(Miniblock) /\ dbMinipool \in Seq(Event)
      /\ Loaded => view \in View
  BY Zenon DEF Inv, TypeOK, StorageTypeOK, Loaded
<1>2. CASE Loaded
  <2>1. VisibleBlocks = view.generation /\ VisibleMinipool = view.minipool
    BY Zenon, <1>2 DEF VisibleBlocks, VisibleMinipool
  <2>2. view.minipool \in Seq(Event) /\ view.generation \in 1..Height
    BY Zenon, <1>1, <1>2, ViewFields DEF Inv, InvView
  <2> QED
    BY SMTT(30), Z3T(30), <1>1, <2>1, <2>2 DEF InvNumbers, Height
<1>3. CASE ~Loaded
  <2>1. VisibleBlocks = Len(dbBlocks) /\ VisibleMinipool = dbMinipool
    BY Zenon, <1>3 DEF VisibleBlocks, VisibleMinipool
  <2> QED
    BY SMTT(30), Z3T(30), <1>1, <2>1 DEF InvNumbers
<1> QED
  BY Zenon, <1>2, <1>3

(***************************************************************************)
(* The three ways in which a step changes what clients can see.            *)
(***************************************************************************)
LogStep == [Log!Next]_<<VisibleLog, VisibleSealed, acked>>

LEMMA LogUnchanged ==
  ASSUME Inv, InvNumbers, InvNumbers', dbBlocks' \in Seq(Miniblock),
         VisibleBlocks' = VisibleBlocks, VisibleBlocks <= Len(dbBlocks'),
         \A i \in 1..VisibleBlocks : dbBlocks'[i] = dbBlocks[i],
         VisibleMinipool' = VisibleMinipool, acked' = acked
  PROVE  LogStep
<1>1. PICK n : n = VisibleBlocks
  OBVIOUS
<1>2. PICK cs : cs = dbBlocks'
  OBVIOUS
<1>3. /\ dbBlocks \in Seq(Miniblock) /\ Numbered(dbBlocks) /\ n \in 0..Len(dbBlocks)
      /\ cs \in Seq(Miniblock) /\ Numbered(cs) /\ n <= Len(cs)
      /\ \A i \in 1..n : cs[i] = dbBlocks[i]
  BY Zenon, <1>1, <1>2, VisibleFacts DEF InvNumbers
<1>4. SealedLog(cs, n) = SealedLog(dbBlocks, n) /\ EventCount(cs, n) = EventCount(dbBlocks, n)
  BY Zenon, <1>3, SameLog
<1>5. VisibleLog' = VisibleLog /\ VisibleSealed' = VisibleSealed
  BY Zenon, <1>1, <1>2, <1>4 DEF VisibleLog, VisibleSealed
<1> QED
  BY Zenon, <1>5 DEF LogStep

LEMMA LogAppended ==
  ASSUME Inv, InvNumbers, UNCHANGED dbBlocks, NEW e \in Event,
         e \notin EventsOf(dbBlocks, VisibleBlocks), e \notin Elements(VisibleMinipool),
         VisibleBlocks' = VisibleBlocks, VisibleMinipool' = Append(VisibleMinipool, e),
         acked' \in {acked, acked \cup {e}}
  PROVE  LogStep
<1>1. PICK s : s = SealedLog(dbBlocks, VisibleBlocks)
  OBVIOUS
<1>2. s \in Seq(Event) /\ VisibleMinipool \in Seq(Event)
  BY Zenon, <1>1, VisibleFacts, LogSeq
<1>3. VisibleSealed' = VisibleSealed /\ VisibleLog' = s \o Append(VisibleMinipool, e)
      /\ VisibleLog = s \o VisibleMinipool
  BY Zenon, <1>1 DEF VisibleSealed, VisibleLog
<1>4. VisibleLog' = Append(VisibleLog, e)
  BY Zenon, <1>2, <1>3, AppendLast
<1>5. \A j \in DOMAIN VisibleLog : VisibleLog[j] # e
  BY Zenon, VisibleFacts, LogElements DEF VisibleLog
<1>6. Log!AppendEvent(e)
  BY Zenon, <1>3, <1>4, <1>5 DEF Log!AppendEvent
<1> QED
  BY Zenon, <1>6 DEF LogStep, Log!Next

LEMMA LogSeals ==
  ASSUME Inv, InvNumbers, InvNumbers', dbBlocks' \in Seq(Miniblock),
         VisibleBlocks' = VisibleBlocks + 1, VisibleBlocks + 1 <= Len(dbBlocks'),
         \A i \in 1..VisibleBlocks : dbBlocks'[i] = dbBlocks[i],
         VisibleMinipool' \in Seq(Event),
         VisibleMinipool = dbBlocks'[VisibleBlocks + 1].events \o VisibleMinipool',
         acked' = acked
  PROVE  LogStep
<1>1. PICK n : n = VisibleBlocks
  OBVIOUS
<1>2. PICK cs : cs = dbBlocks'
  BY SMTT(30), Z3T(30)
<1>3. PICK rest : rest = VisibleMinipool'
  OBVIOUS
<1>4. PICK pool : pool = VisibleMinipool
  BY ZenonT(30)
<1>5. /\ dbBlocks \in Seq(Miniblock) /\ Numbered(dbBlocks) /\ n \in 0..Len(dbBlocks)
      /\ cs \in Seq(Miniblock) /\ Numbered(cs) /\ n + 1 <= Len(cs)
      /\ \A i \in 1..n : cs[i] = dbBlocks[i]
      /\ pool \in Seq(Event) /\ rest \in Seq(Event) /\ pool = cs[n + 1].events \o rest
  BY Zenon, <1>1, <1>2, <1>3, <1>4, VisibleFacts DEF InvNumbers
<1>6. /\ SealedLog(cs, n + 1) \o rest = SealedLog(dbBlocks, n) \o pool
      /\ EventCount(cs, n + 1) \in EventCount(dbBlocks, n)..Len(SealedLog(dbBlocks, n) \o pool)
      /\ EventCount(dbBlocks, n) \in Nat
  <2>1. LET log == SealedLog(dbBlocks, n) \o (cs[n + 1].events \o rest)
        IN  /\ SealedLog(cs, n + 1) \o rest = log
            /\ EventCount(cs, n + 1) \in EventCount(dbBlocks, n)..Len(log)
            /\ EventCount(dbBlocks, n) \in Nat
    BY ZenonT(30), <1>5, LogSealed
  <2> QED
    BY Zenon, <1>5, <2>1
<1>7. /\ VisibleLog = SealedLog(dbBlocks, n) \o pool
      /\ VisibleLog' = SealedLog(cs, n + 1) \o rest
      /\ VisibleSealed = EventCount(dbBlocks, n) /\ VisibleSealed' = EventCount(cs, n + 1)
  BY Zenon, <1>1, <1>2, <1>3, <1>4 DEF VisibleLog, VisibleSealed
<1>8. VisibleLog' = VisibleLog /\ VisibleSealed \in Nat
      /\ VisibleSealed' \in VisibleSealed..Len(VisibleLog)
  BY Zenon, <1>6, <1>7
<1>9. PICK m : m = VisibleSealed'
  OBVIOUS
<1>10. CASE m = VisibleSealed
  BY Zenon, <1>8, <1>9, <1>10 DEF LogStep
<1>11. CASE m # VisibleSealed
  <2>1. m \in (VisibleSealed + 1)..Len(VisibleLog)
    <3>1. PICK l : l = Len(VisibleLog)
      BY Zenon
    <3>2. m \in VisibleSealed..l
      BY Zenon, <1>8, <1>9, <3>1
    <3>3. m \in (VisibleSealed + 1)..l
      BY SMTT(30), Z3T(30), <1>8, <1>11, <3>2
    <3> QED
      BY Zenon, <3>1, <3>3
  <2>2. Log!Seal(m)
    BY Zenon, <1>8, <1>9 DEF Log!Seal
  <2> QED
    BY Zenon, <2>1, <2>2 DEF LogStep, Log!Next
<1> QED
  BY Zenon, <1>10, <1>11

(***************************************************************************)
(* One lemma per kind of action.                                           *)
(***************************************************************************)

LEMMA QuietLog ==
  ASSUME UNCHANGED <<dbBlocks, dbMinipool, view, acked>>
  PROVE  LogStep
<1>1. VisibleBlocks' = VisibleBlocks /\ VisibleMinipool' = VisibleMinipool
  BY Zenon DEF VisibleBlocks, VisibleMinipool, Loaded
<1>2. VisibleLog' = VisibleLog /\ VisibleSealed' = VisibleSealed
  BY Zenon, <1>1 DEF VisibleLog, VisibleSealed
<1> QED
  BY Zenon, <1>2 DEF LogStep

\* A sequence that is at most one event longer than one that it starts with.
LEMMA OneMore ==
  ASSUME NEW s \in Seq(Event), NEW t \in Seq(Event), StartsWith(s, t),
         Len(s) <= Len(t) + 1, Distinct(s)
  PROVE  \/ s = t
         \/ \E e \in Event : s = Append(t, e) /\ e \in Elements(s) /\ e \notin Elements(t)
<1>1. /\ Len(s) \in Nat /\ Len(t) \in Nat /\ Len(t) <= Len(s)
      /\ \A i \in 1..Len(t) : s[i] = t[i]
      /\ DOMAIN s = 1..Len(s) /\ DOMAIN t = 1..Len(t)
  BY DEF StartsWith
<1>2. CASE Len(s) = Len(t)
  BY Zenon, <1>1, <1>2, SameSequence
<1>3. CASE Len(s) # Len(t)
  <2>1. PICK m \in Nat : m = Len(t)
    BY Zenon, <1>1
  <2>2. Len(s) = m + 1 /\ m + 1 \in 1..Len(s) /\ \A i \in 1..(m + 1) : i \in 1..m \/ i = m + 1
    <3>1. PICK l \in Nat : l = Len(s)
      BY Zenon, <1>1
    <3>4. m <= l /\ l <= m + 1 /\ l # m
      BY Zenon, <1>1, <1>3, <2>1, <3>1
    <3>2. l = m + 1 /\ m + 1 \in 1..(m + 1)
      BY <3>4
    <3>3. \A i \in 1..(m + 1) : i \in 1..m \/ i = m + 1
      OBVIOUS
    <3> QED
      BY Zenon, <3>1, <3>2, <3>3
  <2>3. PICK e \in Event : e = s[m + 1]
    BY <2>2
  <2>4. /\ Append(t, e) \in Seq(Event) /\ Len(Append(t, e)) = m + 1
        /\ \A i \in 1..m : Append(t, e)[i] = t[i]
        /\ Append(t, e)[m + 1] = e
    BY SMTT(30), Z3T(30), <2>1, <2>3, AppendFacts
  <2>5. s = Append(t, e)
    <3>1. \A i \in 1..(m + 1) : s[i] = Append(t, e)[i]
      BY Zenon, <1>1, <2>1, <2>2, <2>3, <2>4
    <3> QED
      BY Zenon, <2>2, <2>4, <3>1, SameSequence
  <2>6. e \in Elements(s)
    BY Zenon, <1>1, <2>2, <2>3 DEF Elements
  <2>7. \A i \in 1..m : i # m + 1 /\ i \in 1..Len(s)
    BY <2>2
  <2>8. e \notin Elements(t)
    BY Zenon, <1>1, <2>1, <2>2, <2>3, <2>7 DEF Elements, Distinct
  <2> QED
    BY Zenon, <2>5, <2>6, <2>8
<1> QED
  BY Zenon, <1>2, <1>3

\* Without the view clients see what is stored: the event or the block of an
\* ambiguous transaction that the view had not heard of comes up.
LEMMA UnloadLog ==
  ASSUME Inv, InvNumbers, view' = NoView, UNCHANGED <<dbVars, acked>>
  PROVE  LogStep
<1>1. dbBlocks' = dbBlocks /\ dbMinipool' = dbMinipool
  BY Zenon DEF dbVars
<1>2. VisibleBlocks' = Height /\ VisibleMinipool' = dbMinipool /\ InvNumbers'
  BY Zenon, <1>1 DEF VisibleBlocks, VisibleMinipool, Loaded, Height, InvNumbers
<1>3. CASE ~Loaded
  BY Zenon, <1>1, <1>3, QuietLog DEF Loaded
<1>4. CASE Loaded
  <2>1. VisibleBlocks = view.generation /\ VisibleMinipool = view.minipool
    BY Zenon, <1>4 DEF VisibleBlocks, VisibleMinipool
  <2>2. /\ dbBlocks \in Seq(Miniblock) /\ dbMinipool \in Seq(Event)
        /\ view.minipool \in Seq(Event) /\ view.generation \in 1..Height
        /\ Current \/ Behind
    BY Zenon, <1>4, ViewFields DEF Inv, TypeOK, StorageTypeOK, InvView, Loaded
  <2>3. Height \in Nat /\ DOMAIN dbBlocks = 1..Height /\ Height <= Len(dbBlocks)
    BY SMTT(30), Z3T(30), <2>2 DEF Height
  <2>4. NoDuplicateEvents
    BY Zenon DEF Inv, InvEvents
  <2>5. CASE Current
    <3>1. CASE dbMinipool = view.minipool
      <4>1. VisibleBlocks' = VisibleBlocks /\ VisibleMinipool' = VisibleMinipool
        BY Zenon, <1>2, <2>1, <2>5, <3>1 DEF Current
      <4> QED
        BY ZenonT(30), <1>1, <1>2, <2>1, <2>2, <2>3, <2>5, <4>1, LogUnchanged DEF Current
    <3>2. CASE dbMinipool # view.minipool
      <4>1. PICK e \in Event : /\ dbMinipool = Append(view.minipool, e)
                               /\ e \in Elements(dbMinipool) /\ e \notin Elements(view.minipool)
        BY Zenon, <2>2, <2>4, <2>5, <3>2, OneMore DEF Current, NoDuplicateEvents
      <4>2. e \notin EventsOf(dbBlocks, Height)
        BY Zenon, <2>3, <2>4, <4>1 DEF EventsOf, NoDuplicateEvents
      <4>3. /\ VisibleBlocks = Height /\ VisibleBlocks' = VisibleBlocks
            /\ VisibleMinipool' = Append(VisibleMinipool, e) /\ acked' = acked
        BY Zenon, <1>2, <2>1, <2>5, <4>1 DEF Current
      <4> QED
        BY ZenonT(30), <1>1, <2>1, <4>1, <4>2, <4>3, LogAppended
    <3> QED
      BY Zenon, <3>1, <3>2
  <2>6. CASE Behind
    <3>1. /\ VisibleBlocks + 1 = Height
          /\ VisibleMinipool = dbBlocks[Height].events \o dbMinipool
      BY Zenon, <2>1, <2>6 DEF Behind
    <3> QED
      BY Zenon, <1>1, <1>2, <2>2, <2>3, <3>1, LogSeals
  <2> QED
    BY Zenon, <2>2, <2>5, <2>6
<1> QED
  BY Zenon, <1>3, <1>4

\* The genesis block seals nothing.
LEMMA CreateLog ==
  ASSUME Inv, InvNumbers, CanCreateStreamStorage, CreateStreamStorage(Genesis),
         view' \in {view, MakeStreamView(<<Genesis>>, << >>)}, acked' = acked
  PROVE  LogStep
<1> DEFINE g == <<Genesis>>
<1>1. /\ dbBlocks = << >> /\ ~Loaded /\ dbMinipool = << >>
      /\ dbBlocks' = g /\ dbMinipool' = << >>
  BY Zenon DEF Inv, InvAbsent, CanCreateStreamStorage, CreateStreamStorage
<1>2. /\ g \in Seq(Miniblock) /\ Len(g) = 1 /\ g[1] = Genesis /\ Genesis.events = << >>
  BY SMTT(30), Z3T(30) DEF Genesis, Miniblock
<1>3. /\ MakeStreamView(g, << >>).generation = 1
      /\ MakeStreamView(g, << >>).minipool = << >>
  BY DEF MakeStreamView, Genesis
<1>4. Numbered(g)
  BY Zenon, NumberedGenesis
<1> HIDE DEF g
<1>5. VisibleBlocks = 0 /\ VisibleMinipool = << >>
  BY <1>1 DEF VisibleBlocks, VisibleMinipool
<1>6. VisibleBlocks' = 1 /\ VisibleMinipool' = << >>
  <2>1. CASE view' = view
    BY Zenon, <1>1, <1>2, <2>1 DEF VisibleBlocks, VisibleMinipool, Loaded
  <2>2. CASE view' = MakeStreamView(g, << >>)
    <3>1. CASE view' = NoView
      BY Zenon, <1>1, <1>2, <3>1 DEF VisibleBlocks, VisibleMinipool, Loaded
    <3>2. CASE view' # NoView
      BY Zenon, <1>3, <2>2, <3>2 DEF VisibleBlocks, VisibleMinipool, Loaded
    <3> QED
      BY Zenon, <3>1, <3>2
  <2> QED
    BY Zenon, <2>1, <2>2 DEF g
<1>7. /\ VisibleBlocks + 1 = 1 /\ 1 <= Len(g)
      /\ \A i \in 1..VisibleBlocks : g[i] = dbBlocks[i]
  BY SMTT(30), Z3T(30), <1>2, <1>5
<1>8. << >> = Genesis.events \o << >> /\ << >> \in Seq(Event)
  BY <1>2
<1>9. InvNumbers'
  BY Zenon, <1>1, <1>4 DEF InvNumbers
<1> QED
  BY ZenonT(30), <1>1, <1>2, <1>5, <1>6, <1>7, <1>8, <1>9, LogSeals

LEMMA LoadLog ==
  ASSUME Inv, InvNumbers, TryLoadStreamRecord \/ Load
  PROVE  LogStep
<1>1. acked' = acked
  BY Zenon DEF TryLoadStreamRecord, Load
<1>2. CASE CanCreateStreamStorage /\ CreateStreamStorage(Genesis)
           /\ view' \in {view, MakeStreamView(<<Genesis>>, << >>)}
  BY Zenon, <1>1, <1>2, CreateLog
<1>3. CASE UNCHANGED <<dbVars, view>>
  BY Zenon, <1>1, <1>3, QuietLog DEF dbVars
<1>4. CASE ~Loaded /\ LoadFromStorage
  <2>1. /\ view' = MakeStreamView(StoredBlocks, dbMinipool)
        /\ dbBlocks' = dbBlocks /\ dbMinipool' = dbMinipool /\ dbBlocks # << >>
    BY Zenon, <1>4 DEF LoadFromStorage, dbVars, CanReadStreamFromLastSnapshot
  <2>2. /\ dbBlocks \in Seq(Miniblock) /\ dbMinipool \in Seq(Event) /\ dbSnapshot \in Nat
        /\ dbSnapshot < Height /\ dbBlocks[dbSnapshot + 1].isSnapshot
        /\ \A i \in 1..Height : dbBlocks[i].num = i - 1
    BY ZenonT(30), <2>1 DEF Inv, TypeOK, StorageTypeOK, InvStorage
  <2>3. Height = Len(dbBlocks) /\ dbSnapshot \in 0..(Len(dbBlocks) - 1)
    BY SMTT(30), Z3T(30), <2>1, <2>2 DEF Height
  <2>4. view'.generation = Height /\ view'.minipool = dbMinipool
    BY Zenon, <2>1, <2>2, <2>3, LoadWindow DEF StoredBlocks
  <2>5. VisibleBlocks' = VisibleBlocks /\ VisibleMinipool' = VisibleMinipool
    <3>1. VisibleBlocks = Height /\ VisibleMinipool = dbMinipool
      BY Zenon, <1>4 DEF VisibleBlocks, VisibleMinipool, Height
    <3>2. CASE view' = NoView
      BY Zenon, <2>1, <3>1, <3>2 DEF VisibleBlocks, VisibleMinipool, Loaded, Height
    <3>3. CASE view' # NoView
      BY Zenon, <2>4, <3>1, <3>3 DEF VisibleBlocks, VisibleMinipool, Loaded
    <3> QED
      BY Zenon, <3>2, <3>3
  <2>6. VisibleLog' = VisibleLog /\ VisibleSealed' = VisibleSealed
    BY Zenon, <2>1, <2>5 DEF VisibleLog, VisibleSealed
  <2> QED
    BY Zenon, <1>1, <2>6 DEF LogStep
<1> QED
  BY Zenon, <1>2, <1>3, <1>4 DEF TryLoadStreamRecord, Load, initFromBlockchain

\* A new event comes up with its acknowledgement, or stays behind the view.
LEMMA AddEventLog ==
  ASSUME Inv, InvNumbers, NEW r \in Request, AddEvent(r) \/ AddEventAmbiguous(r)
  PROVE  LogStep
<1>1. /\ Loaded /\ inflight[r] # NoEvent /\ CanWriteEvent(view.generation, Len(view.minipool))
      /\ dbBlocks' = dbBlocks
  BY Zenon DEF AddEvent, AddEventAmbiguous, WriteEvent
<1>2. /\ inflight[r] \in Event /\ view \in View
      /\ view.generation = Height /\ inflight[r] \notin Elements(view.minipool)
  BY Zenon, <1>1, WriteFacts
<1>3. VisibleBlocks = view.generation /\ VisibleMinipool = view.minipool
  BY Zenon, <1>1 DEF VisibleBlocks, VisibleMinipool
<1>4. CASE AddEventAmbiguous(r)
  <2>1. view' = view /\ acked' = acked
    BY Zenon, <1>4 DEF AddEventAmbiguous
  <2>2. VisibleBlocks' = VisibleBlocks /\ VisibleMinipool' = VisibleMinipool
    BY Zenon, <1>1, <1>3, <2>1 DEF VisibleBlocks, VisibleMinipool, Loaded
  <2>3. VisibleLog' = VisibleLog /\ VisibleSealed' = VisibleSealed
    BY Zenon, <1>1, <2>2 DEF VisibleLog, VisibleSealed
  <2> QED
    BY Zenon, <2>1, <2>3 DEF LogStep
<1>5. CASE AddEvent(r)
  <2>1. PICK e \in Event : e = inflight[r]
    BY Zenon, <1>2
  <2>2. view' = copyAndAddEvent(view, e) /\ acked' = acked \cup {e}
    BY Zenon, <1>2, <1>5, <2>1 DEF AddEvent
  <2>3. /\ view' \in View /\ view'.generation = view.generation
        /\ view'.minipool = Append(view.minipool, e)
    BY Zenon, <1>2, <2>2, ViewAddEvent
  <2>4. view' # NoView
    BY Zenon, <2>3, StreamAssumption
  <2>5. VisibleBlocks' = VisibleBlocks /\ VisibleMinipool' = Append(VisibleMinipool, e)
    BY Zenon, <1>3, <2>3, <2>4 DEF VisibleBlocks, VisibleMinipool, Loaded
  <2>6. e \notin EventsOf(dbBlocks, Height)
    BY ZenonT(30), <1>1, <2>1 DEF Inv, InvEvents, StoredEvents, BlockEvents, EventsOf, Height
  <2> QED
    BY ZenonT(30), <1>1, <1>2, <1>3, <2>1, <2>2, <2>5, <2>6, LogAppended
<1> QED
  BY Zenon, <1>4, <1>5

\* The block of ApplyMiniblock seals the events it takes from the minipool.
LEMMA ApplyLog ==
  ASSUME Inv, ReaderInv, InvNumbers, ApplyMiniblock \/ ApplyMiniblockAmbiguous
  PROVE  LogStep
<1>1. producer = "registered" /\ Loaded /\ acked' = acked
  BY Zenon DEF ApplyMiniblock, ApplyMiniblockAmbiguous
<1>2. CASE UNCHANGED <<dbVars, view>>
  BY Zenon, <1>1, <1>2, QuietLog DEF dbVars
<1>3. CASE Promote
  <2>1. /\ work \in Miniblock /\ work.num = Height /\ view.generation = Height
        /\ dbBlocks \in Seq(Miniblock) /\ Height \in Nat \ {0}
        /\ dbBlocks' \in Seq(Miniblock) /\ Len(dbBlocks') = Height + 1
        /\ \A i \in 1..Height : dbBlocks'[i] = dbBlocks[i]
        /\ dbBlocks'[Height + 1] = work
        /\ dbMinipool' = copyAndApplyBlock(view, work).minipool
        /\ dbMinipool' \in Seq(Event)
        /\ view.minipool = work.events \o dbMinipool'
    BY ZenonT(30), <1>1, <1>3, PromotedRows
  <2>2. InvNumbers'
    BY Zenon, <1>1, <1>3, PromoteNumbers
  <2>3. VisibleBlocks = Height /\ VisibleMinipool = view.minipool
    BY Zenon, <1>1, <2>1 DEF VisibleBlocks, VisibleMinipool
  <2>4. Height <= Height + 1 /\ Height + 1 <= Height + 1
    BY <2>1
  <2>5. CASE view' = view
    <3>1. VisibleBlocks' = VisibleBlocks /\ VisibleMinipool' = VisibleMinipool
      BY Zenon, <1>1, <2>1, <2>3, <2>5 DEF VisibleBlocks, VisibleMinipool, Loaded
    <3> QED
      BY ZenonT(30), <1>1, <2>1, <2>2, <2>3, <2>4, <3>1, LogUnchanged
  <2>6. CASE view' = copyAndApplyBlock(view, work)
    <3>1. /\ view \in View /\ view.blocks # << >>
          /\ StartsWith(view.minipool, work.events) /\ Distinct(view.minipool)
      BY Zenon, <1>1, RegisteredFacts
    <3>2. /\ view' \in View /\ view'.generation = work.num + 1
          /\ view'.minipool = dbMinipool'
      BY Zenon, <2>1, <2>6, <3>1, ViewApplyBlock
    <3>3. view' # NoView
      BY Zenon, <3>2, StreamAssumption
    <3>4. VisibleBlocks' = Height + 1 /\ VisibleMinipool' = dbMinipool'
      BY Zenon, <2>1, <3>2, <3>3 DEF VisibleBlocks, VisibleMinipool, Loaded
    <3>5. VisibleMinipool = dbBlocks'[VisibleBlocks + 1].events \o VisibleMinipool'
      BY Zenon, <2>1, <2>3, <3>4
    <3> QED
      BY Zenon, <1>1, <2>1, <2>2, <2>3, <2>4, <3>4, <3>5, LogSeals
  <2> QED
    BY Zenon, <1>2, <2>5, <2>6 DEF ApplyMiniblock, ApplyMiniblockAmbiguous
<1> QED
  BY Zenon, <1>2, <1>3 DEF ApplyMiniblock, ApplyMiniblockAmbiguous

\* Every step of the stream is a step of the log or changes nothing of it.
LEMMA LogSteps ==
  ASSUME Inv, ReaderInv, InvNumbers, [Next]_vars
  PROVE  LogStep
<1>1. CASE TryLoadStreamRecord \/ Load
  BY Zenon, <1>1, LoadLog
<1>2. CASE Evict \/ ForceFlush \/ Crash
  <2>1. view' = NoView /\ UNCHANGED <<dbVars, acked>>
    BY Zenon, <1>2 DEF Evict, ForceFlush, Crash
  <2> QED
    BY Zenon, <2>1, UnloadLog
<1>3. CASE \E r \in Request : AddEvent(r) \/ AddEventAmbiguous(r)
  BY Zenon, <1>3, AddEventLog
<1>4. CASE ApplyMiniblock \/ ApplyMiniblockAmbiguous
  BY Zenon, <1>4, ApplyLog
<1>5. CASE UNCHANGED <<dbBlocks, dbMinipool, view, acked>>
  BY Zenon, <1>5, QuietLog
<1>6. ASSUME \/ \E r \in Request, e \in Event : CheckEvent(r, e)
             \/ \E r \in Request : AddEventFails(r)
             \/ \E force \in BOOLEAN : Propose(force)
      PROVE  UNCHANGED <<dbBlocks, dbMinipool, view, acked>>
  BY Zenon, <1>6 DEF CheckEvent, AddEventFails, Propose, dbVars
<1>7. ASSUME MakeMiniblockHeader \/ StoreMiniblockCandidate \/ SubmitTx \/ SubmitTxAmbiguous
      PROVE  UNCHANGED <<dbBlocks, dbMinipool, view, acked>>
  BY Zenon, <1>7 DEF MakeMiniblockHeader, StoreMiniblockCandidate, WriteBlockProposal,
     SubmitTx, SubmitTxAmbiguous, dbVars
<1>8. ASSUME MineTx \/ LoseTx \/ ProducerFails
      PROVE  UNCHANGED <<dbBlocks, dbMinipool, view, acked>>
  BY Zenon, <1>8 DEF MineTx, LoseTx, ProducerFails, dbVars
<1>9. ASSUME (\E c \in Client : GetStream(c) \/ Sub(c) \/ Unsub(c)) \/ UNCHANGED vars
      PROVE  UNCHANGED <<dbBlocks, dbMinipool, view, acked>>
  BY Zenon, <1>9 DEF GetStream, Sub, Unsub, vars, dbVars, nodeVars
<1> QED
  BY ZenonT(30), <1>1, <1>2, <1>3, <1>4, <1>5, <1>6, <1>7, <1>8, <1>9 DEF Next

LEMMA LogInit ==
  ASSUME Init
  PROVE  Log!Init
<1>1. dbBlocks = << >> /\ dbMinipool = << >> /\ ~Loaded /\ acked = {}
  BY Zenon DEF Init, StorageInit, Loaded
<1>2. VisibleBlocks = 0 /\ VisibleMinipool = << >>
  BY <1>1 DEF VisibleBlocks, VisibleMinipool
<1>3. SealedLog(dbBlocks, 0) = << >> /\ EventCount(dbBlocks, 0) = 0
  <2>1. EventCount(dbBlocks, 0) = 0
    BY Zenon DEF EventCount
  <2>2. dbBlocks \in Seq(Miniblock) /\ Numbered(dbBlocks) /\ 0 \in 0..Len(dbBlocks)
    BY <1>1, NumberedGenesis
  <2>3. SealedLog(dbBlocks, 0) \in Seq(Event) /\ Len(SealedLog(dbBlocks, 0)) = 0
    BY Zenon, <2>1, <2>2, LogSeq
  <2>4. PICK s \in Seq(Event) : s = SealedLog(dbBlocks, 0)
    BY Zenon, <2>3
  <2>5. Len(s) = 0 => s = << >>
    OBVIOUS
  <2> QED
    BY Zenon, <2>1, <2>3, <2>4, <2>5
<1>4. << >> \o << >> = << >>
  OBVIOUS
<1>5. VisibleLog = << >> /\ VisibleSealed = 0
  BY Zenon, <1>2, <1>3, <1>4 DEF VisibleLog, VisibleSealed
<1> QED
  BY Zenon, <1>1, <1>5 DEF Log!Init

(***************************************************************************)
(* ReaderInv holds in every reachable state: the headers are chained, a    *)
(* view keeps the last blocks from a snapshot on, and a client knows all   *)
(* events before its cookie and none that the node could lose.             *)
(***************************************************************************)
THEOREM ReaderInvariance ==
  ASSUME Retries = "none"
  PROVE  Spec => []ReaderInv
<1>1. Init => ReaderInv
  BY Zenon, InitReaders
<1>2. Inv /\ ReaderInv /\ [Next]_vars => ReaderInv'
  BY Zenon, ReaderStep
<1> QED
  BY <1>1, <1>2, Invariance, PTL DEF Spec

(***************************************************************************)
(* The stored miniblocks form one chain with the right event counts and    *)
(* snapshot links, and es.latest_snapshot_miniblock is the last snapshot,  *)
(* whatever candidates were abandoned (makeMiniblockHeader, PromoteBlock). *)
(***************************************************************************)
THEOREM BlocksAreChained ==
  ASSUME Retries = "none"
  PROVE  Spec => []ChainIntegrity
<1>1. ReaderInv => ChainIntegrity
  BY Zenon DEF ReaderInv, InvChain
<1> QED
  BY <1>1, ReaderInvariance, PTL

(***************************************************************************)
(* Every snapshot holds exactly the events up to its block, and a view     *)
(* serves from its snapshot all that is visible, no event twice, trimmed   *)
(* or loaded.                                                              *)
(***************************************************************************)
THEOREM SnapshotsAreComplete ==
  ASSUME Retries = "none"
  PROVE  Spec => []SnapshotsComplete
<1>1. ASSUME Inv, ReaderInv PROVE SnapshotsComplete
  <2>1. InvChain /\ InvWindow
    BY Zenon, <1>1 DEF ReaderInv
  <2>2. DOMAIN dbBlocks = 1..Height
    BY SMTT(30), Z3T(30), <1>1 DEF Inv, TypeOK, StorageTypeOK, Height
  <2>3. \A i \in DOMAIN dbBlocks :
          dbBlocks[i].isSnapshot => dbBlocks[i].snapshot = BlockEvents(i)
    BY Zenon, <2>1, <2>2 DEF InvChain, EventsOf, BlockEvents
  <2> QED
    BY Zenon, <1>1, <2>1, <2>3, LoadedFacts DEF SnapshotsComplete
<1>2. Inv /\ ReaderInv => SnapshotsComplete
  BY Zenon, <1>1
<1> QED
  BY <1>2, Invariance, ReaderInvariance, PTL

(***************************************************************************)
(* A subscriber has every visible event and the current cookie, however    *)
(* old the cookie it came with (Sub, notifySubscribers).                   *)
(***************************************************************************)
THEOREM SubscribersAreComplete ==
  ASSUME Retries = "none"
  PROVE  Spec => []SubscriberComplete
<1>1. ASSUME Inv, ReaderInv PROVE SubscriberComplete
  <2>1. receivers \subseteq Client
    BY ZenonT(30), <1>1 DEF Inv, TypeOK
  <2> QED
    BY Zenon, <1>1, <2>1 DEF ReaderInv, InvClient, SubscriberComplete
<1>2. Inv /\ ReaderInv => SubscriberComplete
  BY Zenon, <1>1
<1> QED
  BY <1>2, Invariance, ReaderInvariance, PTL

(***************************************************************************)
(* Sub never finds a cookie of the node with a slot beyond the minipool,   *)
(* across evictions, crashes and ambiguous transactions.                   *)
(***************************************************************************)
THEOREM CookiesAreValid ==
  ASSUME Retries = "none"
  PROVE  Spec => []CookiesStayValid
<1>1. ASSUME Inv, ReaderInv, NEW c \in Client, Loaded PROVE ~BadSlot(c)
  <2>1. view \in View /\ view.minipool \in Seq(Event) /\ cookie[c].slot \in Nat
    BY ZenonT(30), ViewFields, <1>1 DEF Inv, TypeOK, Loaded, Cookie
  <2>2. cookie[c].gen = view.generation => cookie[c].slot <= Len(view.minipool)
    BY Zenon, <1>1 DEF ReaderInv, InvClient, KnowsSlots
  <2> QED
    BY SMTT(30), Z3T(30), <2>1, <2>2 DEF BadSlot
<1>2. Inv /\ ReaderInv => CookiesStayValid
  BY Zenon, <1>1 DEF CookiesStayValid
<1> QED
  BY <1>2, Invariance, ReaderInvariance, PTL

(***************************************************************************)
(* The offsets of the stored headers number all sealed events, each once   *)
(* and in order, in every reachable state (makeMiniblockHeader).           *)
(***************************************************************************)
THEOREM EventsAreNumbered ==
  ASSUME Retries = "none"
  PROVE  Spec => []InvNumbers
<1>1. Init => InvNumbers
  BY Zenon, NumberedGenesis DEF Init, StorageInit, InvNumbers
<1>2. Inv /\ ReaderInv /\ InvNumbers /\ [Next]_vars => InvNumbers'
  BY Zenon, NumberStep
<1> QED
  BY <1>1, <1>2, Invariance, ReaderInvariance, PTL DEF Spec

(***************************************************************************)
(* The stream implements the append-only log of StreamLog: whatever the    *)
(* handlers, the eviction, the crashes and the ambiguous transactions do,  *)
(* clients see events added at the end, each once, and sealed in order.    *)
(***************************************************************************)
THEOREM StreamImplementsLog ==
  ASSUME Retries = "none"
  PROVE  Spec => ImplementsLog
<1>1. Init => Log!Init
  BY Zenon, LogInit
<1>2. Inv /\ ReaderInv /\ InvNumbers /\ [Next]_vars
        => [Log!Next]_<<VisibleLog, VisibleSealed, acked>>
  BY Zenon, LogSteps DEF LogStep
<1> QED
  BY <1>1, <1>2, Invariance, ReaderInvariance, EventsAreNumbered, PTL
     DEF Spec, ImplementsLog, Log!Spec
==============================================================================
