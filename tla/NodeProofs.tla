------------------------------ MODULE NodeProofs ------------------------------
(***************************************************************************)
(* Two parts of a node that work with copies: the archiver, which copies   *)
(* the blocks of streams, and the caches of what contracts have answered.  *)
(***************************************************************************)
EXTENDS Archiver, EntitlementCache, TLAPS

(***************************************************************************)
(* The caches: CacheInv is inductive.                                      *)
(***************************************************************************)

LEMMA StackOfCaches ==
  ASSUME cacheBound \in CacheBound
  PROVE Len(Caches) \in 1 .. 3 /\ DOMAIN Caches = 1 .. Len(Caches)
<1>1. cacheBound.about \in Condition
  BY DEF CacheBound
<1>2. CASE cacheBound.about = "member"
  <2>1. Caches = <<"answer">>
    BY <1>2 DEF Caches
  <2> QED BY <2>1
<1>3. CASE cacheBound.about \in {"enabled", "channel"}
  <2>1. Caches = <<"answer", "condition">>
    BY <1>3 DEF Caches
  <2> QED BY <2>1
<1>4. CASE cacheBound.about = "space"
  <2>1. Caches = <<"answer", "condition", "manager">>
    BY <1>4 DEF Caches
  <2> QED BY <2>1
<1> QED BY <1>1, <1>2, <1>3, <1>4 DEF Condition

\* Times to live are numbers.
LEMMA TTLFacts ==
  ASSUME NEW i, NEW v \in BOOLEAN
  PROVE TTL(i, v) \in Nat \ {0} /\ (Caches[i] = "manager" => TTL(i, TRUE) = TTL(i, v))
  BY CacheAssumption DEF TTL

\* What the caches from a level on may add to the age of a value.
LEMMA AgeFacts ==
  ASSUME cacheBound \in CacheBound, NEW v \in BOOLEAN
  PROVE /\ \A j \in Nat : AgeFrom(j, v) \in Nat
        /\ \A i \in DOMAIN Caches : AgeFrom(i, v) = CallTime + TTL(i, v) - 1 + AgeFrom(i + 1, v)
        /\ AgeFrom(1, v) = MaxAge(v)
<1>1. AgeIn(1, v) \in Nat /\ AgeIn(2, v) \in Nat /\ AgeIn(3, v) \in Nat
  <2>1. ASSUME NEW i PROVE AgeIn(i, v) \in Nat
    <3>1. TTL(i, v) \in Nat \ {0} /\ CallTime \in Nat
      BY TTLFacts, CacheAssumption, Zenon
    <3> QED BY <3>1 DEF AgeIn
  <2> QED BY <2>1
<1>2. \A j \in Nat : AgeFrom(j, v) \in Nat
  BY <1>1 DEF AgeFrom
<1>3. AgeFrom(1, v) = MaxAge(v)
  BY <1>1 DEF AgeFrom, MaxAge
<1>4. ASSUME NEW i \in DOMAIN Caches PROVE AgeFrom(i, v) = CallTime + TTL(i, v) - 1 + AgeFrom(i + 1, v)
  <2>1. i \in {1, 2, 3}
    BY StackOfCaches
  <2>2. AgeIn(i, v) = CallTime + TTL(i, v) - 1
    BY DEF AgeIn
  <2>3. AgeFrom(i, v) = AgeIn(i, v) + AgeFrom(i + 1, v)
    BY <1>1, <2>1 DEF AgeFrom
  <2> QED BY <2>2, <2>3
<1> QED BY <1>2, <1>3, <1>4

LEMMA CacheInitInv == CacheInit => CacheInv
<1> SUFFICES ASSUME CacheInit PROVE CacheInv
  OBVIOUS
<1>1. CacheTypes
  <2>1. cacheBound \in CacheBound /\ truth \in BOOLEAN /\ now = 0 /\ callFaults = 0
    BY CacheAssumption DEF CacheInit
  <2>2. lastTrue \in [BOOLEAN -> Int] /\ lastTrue[truth] = now /\ \A v \in BOOLEAN : lastTrue[v] <= now
    <3>1. lastTrue = [v \in BOOLEAN |-> IF v = truth THEN 0 ELSE -1]
      BY Zenon DEF CacheInit
    <3>2. ASSUME NEW v \in BOOLEAN PROVE lastTrue[v] \in {0, -1}
      BY <3>1, <3>2, Zenon
    <3>3. lastTrue[truth] = 0
      BY <2>1, <3>1, Zenon
    <3>4. \A v \in BOOLEAN : lastTrue[v] \in Int /\ lastTrue[v] <= 0
      BY <3>2
    <3> QED BY <2>1, <3>1, <3>3, <3>4, Zenon
  <2>3. positive \in [DOMAIN Caches -> SUBSET CacheEntry] /\ negative \in [DOMAIN Caches -> SUBSET CacheEntry]
    BY Zenon DEF CacheInit
  <2>4. lookup \in [Lookup -> [at : {"idle", "down", "up", "answered"}, level : Nat, since : Nat, value : BOOLEAN]]
    BY DEF CacheInit, NoLookup
  <2> QED BY <2>1, <2>2, <2>3, <2>4 DEF CacheTypes
<1>2. EntriesFresh
  BY Zenon DEF CacheInit, EntriesFresh
<1>3. ASSUME NEW l \in Lookup PROVE LookupInTime(l) /\ LookupFresh(l) /\ lookup[l].at # "answered"
  BY DEF CacheInit, NoLookup, LookupInTime, LookupFresh
<1> QED BY <1>1, <1>2, <1>3, Zenon DEF CacheInv, AnswersFresh

\* The caches of a question never change.
LEMMA SameStack ==
  ASSUME cacheBound' = cacheBound
  PROVE Caches' = Caches /\ \A v : MaxAge(v)' = MaxAge(v) /\ \A i : TTL(i, v)' = TTL(i, v) /\ AgeFrom(i, v)' = AgeFrom(i, v)
<1>1. Caches' = Caches
  BY Zenon DEF Caches
<1>2. \A i, v : TTL(i, v)' = TTL(i, v)
  BY <1>1, Zenon DEF TTL
<1>3. \A i, v : AgeIn(i, v)' = AgeIn(i, v)
  BY <1>1, <1>2, Zenon DEF AgeIn
<1> QED BY <1>1, <1>2, <1>3, Zenon DEF AgeFrom, MaxAge

\* The chain may have said it again, and a failure is not forgotten.
ChainGoesOn ==
  /\ cacheBound' = cacheBound
  /\ \A v \in BOOLEAN : lastTrue[v] \in Int /\ lastTrue'[v] \in Int /\ lastTrue[v] <= lastTrue'[v]
  /\ callFaults' = 0 => callFaults = 0

\* What is fresh stays so: the chain has said it then or later.
LEMMA StaysFresh ==
  ASSUME ChainGoesOn, NEW t \in Nat, NEW v \in BOOLEAN, NEW n \in Nat, FromChain(v) => t - lastTrue[v] <= n
  PROVE (FromChain(v) => t - lastTrue[v] <= n)'
<1>1. FromChain(v)' => FromChain(v)
  BY Zenon DEF FromChain, ChainGoesOn
<1>2. lastTrue[v] \in Int /\ lastTrue'[v] \in Int /\ lastTrue[v] <= lastTrue'[v]
  BY Zenon DEF ChainGoesOn
<1>3. PICK a \in Int, b \in Int : a = lastTrue[v] /\ b = lastTrue'[v] /\ a <= b
  BY <1>2, Zenon
<1>4. t - a <= n => t - b <= n
  BY <1>3
<1> QED BY <1>1, <1>3, <1>4, Zenon

LEMMA EntryStaysFresh ==
  ASSUME cacheBound \in CacheBound, ChainGoesOn, NEW i \in DOMAIN Caches, NEW e \in CacheEntry, EntryFresh(i, e)
  PROVE EntryFresh(i, e)'
<1>1. e.time \in Nat /\ e.value \in BOOLEAN
  BY DEF CacheEntry
<1>2. i + 1 \in Nat
  BY StackOfCaches
<1>3. PICK v \in BOOLEAN : v = e.value
  BY <1>1, Zenon
<1>4. AgeFrom(i + 1, v) \in Nat
  BY <1>2, AgeFacts, Zenon
<1>5. PICK n \in Nat : n = CallTime + AgeFrom(i + 1, v) /\ n = CallTime + AgeFrom(i + 1, v)'
  <2>1. CallTime + AgeFrom(i + 1, v) \in Nat
    BY <1>4, CacheAssumption
  <2>2. AgeFrom(i + 1, v)' = AgeFrom(i + 1, v)
    BY SameStack, Zenon DEF ChainGoesOn
  <2> QED BY <2>1, <2>2, Zenon
<1>6. FromChain(v) => e.time - lastTrue[v] <= n
  BY <1>3, <1>5, Zenon DEF EntryFresh
<1>7. (FromChain(v) => e.time - lastTrue[v] <= n)'
  BY <1>1, <1>6, StaysFresh, Zenon
<1> QED BY <1>3, <1>5, <1>7, Zenon DEF EntryFresh

LEMMA LookupStaysFresh ==
  ASSUME CacheTypes, ChainGoesOn, NEW l \in Lookup, lookup'[l] = lookup[l], LookupFresh(l)
  PROVE LookupFresh(l)'
<1>1. lookup[l].since \in Nat /\ lookup[l].value \in BOOLEAN /\ lookup[l].level \in Nat
  BY DEF CacheTypes
<1>2. lookup[l].level + 1 \in Nat
  BY <1>1
<1>3. PICK v \in BOOLEAN, t \in Nat, j \in Nat : v = lookup[l].value /\ t = lookup[l].since /\ j = lookup[l].level + 1
  BY <1>1, <1>2, Zenon
<1>4. AgeFrom(j, v) \in Nat
  BY AgeFacts, Zenon DEF CacheTypes
<1>5. PICK n \in Nat : n = AgeFrom(j, v) /\ n = AgeFrom(j, v)'
  <2>1. AgeFrom(j, v)' = AgeFrom(j, v)
    BY SameStack, Zenon DEF ChainGoesOn
  <2> QED BY <1>4, <2>1, Zenon
<1>6. CASE lookup[l].at = "up"
  <2>1. FromChain(v) => t - lastTrue[v] <= n
    BY <1>3, <1>5, <1>6, Zenon DEF LookupFresh
  <2>2. (FromChain(v) => t - lastTrue[v] <= n)'
    BY <2>1, StaysFresh, Zenon
  <2> QED BY <1>3, <1>5, <2>2, Zenon DEF LookupFresh
<1>7. CASE lookup[l].at # "up"
  BY <1>7, Zenon DEF LookupFresh
<1> QED BY <1>6, <1>7, Zenon

\* An answer is given at a time, and does not outlive it.
AnswerFresh(l) ==
  lookup[l].at = "answered" /\ FromChain(lookup[l].value) => now - lastTrue[lookup[l].value] <= MaxAge(lookup[l].value)

LEMMA AnswerStaysFresh ==
  ASSUME CacheTypes, ChainGoesOn, now' = now, NEW l \in Lookup, lookup'[l] = lookup[l], AnswerFresh(l)
  PROVE AnswerFresh(l)'
<1>1. now \in Nat /\ lookup[l].value \in BOOLEAN
  BY DEF CacheTypes
<1>3. PICK v \in BOOLEAN, t \in Nat : v = lookup[l].value /\ t = now
  BY <1>1, Zenon
<1>4. 1 \in Nat
  OBVIOUS
<1>5. PICK n \in Nat : n = MaxAge(v) /\ n = MaxAge(v)'
  <2>1. MaxAge(v)' = MaxAge(v)
    BY SameStack, Zenon DEF ChainGoesOn
  <2>2. MaxAge(v) \in Nat
    BY ZenonT(30), <1>4, AgeFacts, Zenon DEF CacheTypes
  <2> QED BY <2>1, <2>2, Zenon
<1>6. CASE lookup[l].at = "answered"
  <2>1. FromChain(v) => t - lastTrue[v] <= n
    BY <1>3, <1>5, <1>6, Zenon DEF AnswerFresh
  <2>2. (FromChain(v) => t - lastTrue[v] <= n)'
    BY <2>1, StaysFresh, Zenon
  <2> QED BY <1>3, <1>5, <2>2, Zenon DEF AnswerFresh
<1>7. CASE lookup[l].at # "answered"
  BY <1>7, Zenon DEF AnswerFresh
<1> QED BY <1>6, <1>7, Zenon

LookupOK(l) == LookupInTime(l) /\ LookupFresh(l) /\ AnswerFresh(l)

ARequest == [at : {"idle", "down", "up", "answered"}, level : Nat, since : Nat, value : BOOLEAN]

LEMMA InvParts == CacheInv <=> CacheTypes /\ EntriesFresh /\ \A l \in Lookup : LookupOK(l)
  BY Zenon DEF CacheInv, LookupOK, AnswersFresh, AnswerFresh, FromChain

\* A request that a step leaves alone.
LEMMA LookupStays ==
  ASSUME CacheTypes, ChainGoesOn, now' = now, NEW l \in Lookup, lookup'[l] = lookup[l], LookupOK(l)
  PROVE LookupOK(l)'
<1>1. LookupFresh(l)'
  BY LookupStaysFresh, Zenon DEF LookupOK
<1>2. AnswerFresh(l)'
  BY AnswerStaysFresh, Zenon DEF LookupOK
<1>3. LookupInTime(l)'
  <2>1. Caches' = Caches
    BY SameStack, Zenon DEF ChainGoesOn
  <2> QED BY <2>1, Zenon DEF LookupOK, LookupInTime
<1> QED BY <1>1, <1>2, <1>3, Zenon DEF LookupOK

\* A step at one time, of one request: the caches stay true, and so does the request.
RequestStep(l, r) ==
  /\ cacheBound' = cacheBound /\ now' = now /\ truth' = truth /\ lastTrue' = lastTrue
  /\ callFaults' \in Nat /\ (callFaults' = 0 => callFaults = 0)
  /\ r \in ARequest /\ lookup' = [lookup EXCEPT ![l] = r]
  /\ positive' \in [DOMAIN Caches -> SUBSET CacheEntry] /\ negative' \in [DOMAIN Caches -> SUBSET CacheEntry]

LEMMA ChainUntouched ==
  ASSUME CacheTypes, cacheBound' = cacheBound, lastTrue' = lastTrue, callFaults' = 0 => callFaults = 0
  PROVE ChainGoesOn
<1>1. \A v \in BOOLEAN : lastTrue[v] \in Int
  BY Zenon DEF CacheTypes
<1>2. \A n \in Int : n <= n
  OBVIOUS
<1> QED BY <1>1, <1>2, Zenon DEF ChainGoesOn

LEMMA RequestStepInv ==
  ASSUME CacheInv, NEW l \in Lookup, NEW r, RequestStep(l, r), EntriesFresh', LookupOK(l)'
  PROVE CacheInv'
<1>t. CacheTypes
  BY Zenon DEF CacheInv
<1>g. ChainGoesOn
  BY <1>t, ChainUntouched, Zenon DEF RequestStep
<1>1. CacheTypes'
  <2>1. Caches' = Caches
    BY <1>g, SameStack, Zenon DEF ChainGoesOn
  <2>2. lookup' \in [Lookup -> ARequest]
    BY <1>t, Zenon DEF CacheTypes, RequestStep, ARequest
  <2> QED BY <1>t, <2>1, <2>2, Zenon DEF CacheTypes, RequestStep, ARequest
<1>2. ASSUME NEW k \in Lookup PROVE LookupOK(k)'
  <2>1. CASE k # l
    <3>1. lookup'[k] = lookup[k]
      BY <1>t, <2>1, Zenon DEF CacheTypes, RequestStep
    <3> QED BY <1>t, <1>g, <3>1, InvParts, LookupStays, Zenon DEF RequestStep
  <2> QED BY <2>1, Zenon
<1> QED BY <1>1, <1>2, Zenon DEF CacheInv, LookupOK, AnswersFresh, AnswerFresh, FromChain

\* A request gets a value that may be as old as the caches below it allow.
LEMMA ResultOK ==
  ASSUME CacheInv, NEW l \in Lookup, NEW i \in 1 .. Len(Caches) + 1, NEW v \in BOOLEAN, Result(l, i, v),
         cacheBound' = cacheBound, now' = now, lastTrue' = lastTrue, callFaults' = callFaults,
         lookup[l].at \in {"down", "up"},
         FromChain(v) => now - lastTrue[v] <= AgeFrom(i, v)
  PROVE \E r \in ARequest : lookup' = [lookup EXCEPT ![l] = r] /\ LookupOK(l)'
<1>t. CacheTypes
  BY Zenon DEF CacheInv
<1>s. /\ Caches' = Caches /\ MaxAge(v)' = MaxAge(v) /\ AgeFrom(i, v)' = AgeFrom(i, v)
      /\ FromChain(v)' = FromChain(v)
  BY SameStack, Zenon DEF FromChain
<1>c. Len(Caches) \in 1 .. 3 /\ DOMAIN Caches = 1 .. Len(Caches) /\ AgeFrom(1, v) = MaxAge(v)
  BY <1>t, StackOfCaches, AgeFacts, Zenon DEF CacheTypes
<1>l. lookup[l] \in ARequest /\ lookup[l].since \in Nat /\ lookup[l].since <= now /\ now - lookup[l].since <= CallTime
  <2>1. lookup[l] \in ARequest
    BY <1>t, Zenon DEF CacheTypes, ARequest
  <2>2. lookup[l].since <= now /\ now - lookup[l].since <= CallTime
    BY Zenon DEF CacheInv, LookupInTime
  <2> QED BY <2>1, <2>2 DEF ARequest
<1>1. CASE i = 1
  <2> DEFINE r == [NoLookup EXCEPT !.at = "answered", !.value = v]
  <2>1. r \in ARequest /\ r.at = "answered" /\ r.value = v
    BY Zenon DEF NoLookup, ARequest
  <2>2. lookup' = [lookup EXCEPT ![l] = r]
    BY <1>1, Zenon DEF Result
  <2> HIDE DEF r
  <2>3. lookup'[l] = r
    BY <1>t, <2>2, Zenon DEF CacheTypes
  <2>4. LookupInTime(l)' /\ LookupFresh(l)'
    BY <2>1, <2>3 DEF LookupInTime, LookupFresh
  <2>5. AnswerFresh(l)'
    BY <1>1, <1>s, <1>c, <2>1, <2>3, Zenon DEF AnswerFresh
  <2> QED BY <2>1, <2>2, <2>4, <2>5, Zenon DEF LookupOK
<1>2. CASE i # 1
  <2> DEFINE r == [lookup[l] EXCEPT !.at = "up", !.level = i - 1, !.value = v]
  <2>0. i - 1 \in DOMAIN Caches /\ i - 1 \in Nat /\ (i - 1) + 1 = i
    BY <1>2, <1>c
  <2>1. r \in ARequest /\ r.at = "up" /\ r.value = v /\ r.level = i - 1 /\ r.since = lookup[l].since
    BY <1>l, <2>0, Zenon DEF ARequest
  <2>2. lookup' = [lookup EXCEPT ![l] = r]
    BY <1>2, Zenon DEF Result
  <2> HIDE DEF r
  <2>3. lookup'[l] = r
    BY <1>t, <2>2, Zenon DEF CacheTypes
  <2>4. LookupInTime(l)'
    BY <1>s, <1>l, <2>0, <2>1, <2>3 DEF LookupInTime
  <2>5. AnswerFresh(l)'
    BY <2>1, <2>3 DEF AnswerFresh
  <2>6. LookupFresh(l)'
    <3>1. FromChain(v) => lookup[l].since - lastTrue[v] <= AgeFrom(i, v)
      <4>1. PICK s \in Nat, n \in Nat, a \in Int, b \in Nat : s = lookup[l].since /\ n = now /\ a = lastTrue[v] /\ b = AgeFrom(i, v)
        <5>1. i \in Nat
          BY <1>c
        <5> QED BY <1>t, <1>l, <5>1, AgeFacts, Zenon DEF CacheTypes
      <4>2. s <= n
        BY <1>l, <4>1, Zenon
      <4>3. n - a <= b => s - a <= b
        BY <4>2
      <4> QED BY <4>1, <4>3, Zenon
    <3>2. AgeFrom((i - 1) + 1, v)' = AgeFrom(i, v)
      BY <1>s, <2>0, Zenon
    <3> QED BY <1>s, <2>1, <2>3, <3>1, <3>2, Zenon DEF LookupFresh
  <2> QED BY <2>1, <2>2, <2>4, <2>5, <2>6, Zenon DEF LookupOK
<1> QED BY <1>1, <1>2, Zenon

LEMMA EntriesStayFresh ==
  ASSUME CacheInv, cacheBound' = cacheBound, ChainGoesOn, NEW i \in DOMAIN Caches
  PROVE /\ \A e \in positive[i] : EntryFresh(i, e)' /\ (e.value \/ Caches'[i] = "manager")
        /\ \A e \in negative[i] : EntryFresh(i, e)' /\ ~e.value
<1>1. Caches' = Caches
  BY SameStack, Zenon
<1>2. cacheBound \in CacheBound /\ positive[i] \subseteq CacheEntry /\ negative[i] \subseteq CacheEntry
  BY Zenon DEF CacheInv, CacheTypes
<1> QED BY <1>1, <1>2, EntryStaysFresh, Zenon DEF CacheInv, EntriesFresh

\* Entries may be dropped.
LEMMA EntriesDropped ==
  ASSUME CacheInv, ChainGoesOn, \A i \in DOMAIN Caches : positive'[i] \subseteq positive[i] /\ negative'[i] \subseteq negative[i]
  PROVE EntriesFresh'
<1>1. Caches' = Caches /\ cacheBound' = cacheBound
  BY SameStack, Zenon DEF ChainGoesOn
<1> QED BY <1>1, EntriesStayFresh, Zenon DEF EntriesFresh

LEMMA ChainChangesInv == ASSUME CacheInv, UNCHANGED cacheBound, ChainChanges PROVE CacheInv'
<1>t. CacheTypes
  BY Zenon DEF CacheInv
<1>b. /\ lastTrue' = [lastTrue EXCEPT ![~truth] = now] /\ truth' = ~truth
      /\ UNCHANGED <<now, positive, negative, lookup, callFaults, cacheBound>>
  BY Zenon DEF ChainChanges
<1>n. now \in Nat /\ now \in Int /\ now <= now
  BY <1>t DEF CacheTypes
<1>1. (~truth) \in BOOLEAN /\ truth \in BOOLEAN /\ lastTrue \in [BOOLEAN -> Int] /\ \A v \in BOOLEAN : lastTrue[v] \in Int /\ lastTrue[v] <= now
  BY <1>t, Zenon DEF CacheTypes
<1>2. lastTrue' \in [BOOLEAN -> Int] /\ lastTrue'[~truth] = now
  BY <1>b, <1>n, <1>1, Zenon
<1>3. ASSUME NEW v \in BOOLEAN PROVE lastTrue[v] \in Int /\ lastTrue'[v] \in Int /\ lastTrue[v] <= lastTrue'[v] /\ lastTrue'[v] <= now
  <2>1. lastTrue'[v] = now \/ lastTrue'[v] = lastTrue[v]
    BY <1>b, <1>1, Zenon
  <2>2. \A n \in Int : n <= n
    OBVIOUS
  <2> QED BY <1>n, <1>1, <2>1, <2>2, Zenon
<1>g. ChainGoesOn
  BY <1>b, <1>3, Zenon DEF ChainGoesOn
<1>4. CacheTypes'
  <2>1. Caches' = Caches
    BY <1>b, SameStack, Zenon
  <2> QED BY <1>t, <1>b, <1>1, <1>2, <1>3, <2>1, Zenon DEF CacheTypes
<1>5. EntriesFresh'
  BY <1>b, <1>g, EntriesDropped, Zenon
<1>6. \A k \in Lookup : LookupOK(k)'
  BY <1>t, <1>b, <1>g, InvParts, LookupStays, Zenon
<1> QED BY <1>4, <1>5, <1>6, Zenon DEF CacheInv, LookupOK, AnswersFresh, AnswerFresh, FromChain

LEMMA TimePassesInv == ASSUME CacheInv, UNCHANGED cacheBound, TimePasses PROVE CacheInv'
<1>t. CacheTypes
  BY Zenon DEF CacheInv
<1>b. /\ lastTrue' = [lastTrue EXCEPT ![truth] = now + 1] /\ now' = now + 1
      /\ \A l \in Lookup : lookup[l].at \in {"down", "up"} => now - lookup[l].since < CallTime
      /\ lookup' = [l \in Lookup |-> IF lookup[l].at = "answered" THEN NoLookup ELSE lookup[l]]
      /\ UNCHANGED <<truth, positive, negative, callFaults, cacheBound>>
  BY Zenon DEF TimePasses
<1>n. now \in Nat /\ now + 1 \in Nat /\ now + 1 \in Int /\ \A n \in Int : n <= now => n <= now + 1
  BY <1>t DEF CacheTypes
<1>1. truth \in BOOLEAN /\ lastTrue \in [BOOLEAN -> Int] /\ \A v \in BOOLEAN : lastTrue[v] \in Int /\ lastTrue[v] <= now
  BY <1>t, Zenon DEF CacheTypes
<1>2. lastTrue' \in [BOOLEAN -> Int] /\ lastTrue'[truth] = now'
  BY <1>b, <1>n, <1>1, Zenon
<1>3. ASSUME NEW v \in BOOLEAN PROVE lastTrue[v] \in Int /\ lastTrue'[v] \in Int /\ lastTrue[v] <= lastTrue'[v] /\ lastTrue'[v] <= now'
  <2>1. lastTrue'[v] = now + 1 \/ lastTrue'[v] = lastTrue[v]
    BY <1>b, <1>1, Zenon
  <2>2. \A n \in Int : n <= n
    OBVIOUS
  <2>3. lastTrue[v] <= now + 1
    BY <1>n, <1>1, Zenon
  <2> QED BY <1>b, <1>n, <1>1, <2>1, <2>2, <2>3, Zenon
<1>g. ChainGoesOn
  BY <1>b, <1>3, Zenon DEF ChainGoesOn
<1>s. Caches' = Caches
  BY <1>b, SameStack, Zenon
<1>4. CacheTypes'
  <2>1. lookup' \in [Lookup -> ARequest]
    <3>1. NoLookup \in ARequest
      BY DEF NoLookup, ARequest
    <3> QED BY <1>t, <1>b, <3>1, Zenon DEF CacheTypes, ARequest
  <2> QED BY <1>t, <1>b, <1>n, <1>1, <1>2, <1>3, <1>s, <2>1, Zenon DEF CacheTypes, ARequest
<1>5. EntriesFresh'
  BY <1>b, <1>g, EntriesDropped, Zenon
<1>6. ASSUME NEW k \in Lookup PROVE LookupOK(k)'
  <2>1. CASE lookup[k].at = "answered"
    <3>1. lookup'[k] = NoLookup
      BY <1>b, <2>1, Zenon
    <3> QED BY <3>1 DEF NoLookup, LookupOK, LookupInTime, LookupFresh, AnswerFresh
  <2>2. CASE lookup[k].at # "answered"
    <3>1. lookup'[k] = lookup[k]
      BY <1>b, <2>2, Zenon
    <3>2. LookupFresh(k)'
      BY <1>t, <1>g, <3>1, InvParts, LookupStaysFresh, Zenon DEF LookupOK
    <3>3. AnswerFresh(k)'
      BY <2>2, <3>1, Zenon DEF AnswerFresh
    <3>4. LookupInTime(k)'
      <4>1. LookupInTime(k) /\ lookup[k].since \in Nat /\ CallTime \in Nat
        BY <1>t, CacheAssumption DEF CacheInv, CacheTypes
      <4>2. lookup[k].at \in {"down", "up"} => lookup[k].since <= now + 1 /\ (now + 1) - lookup[k].since <= CallTime
        BY SMTT(30), Z3T(30), <1>b, <1>n, <4>1 DEF LookupInTime
      <4> QED BY <1>b, <1>s, <3>1, <4>1, <4>2, Zenon DEF LookupInTime
    <3> QED BY <3>2, <3>3, <3>4, Zenon DEF LookupOK
  <2> QED BY <2>1, <2>2, Zenon
<1> QED BY <1>4, <1>5, <1>6, Zenon DEF CacheInv, LookupOK, AnswersFresh, AnswerFresh, FromChain

LEMMA StartLookupInv == ASSUME CacheInv, UNCHANGED cacheBound, NEW l \in Lookup, StartLookup(l) PROVE CacheInv'
<1>t. CacheTypes
  BY Zenon DEF CacheInv
<1>b. /\ lookup' = [lookup EXCEPT ![l] = [NoLookup EXCEPT !.at = "down", !.since = now]]
      /\ UNCHANGED <<now, truth, lastTrue, positive, negative, callFaults, cacheBound>>
  BY Zenon DEF StartLookup
<1> DEFINE r == [NoLookup EXCEPT !.at = "down", !.since = now]
<1>1. r \in ARequest /\ r.at = "down" /\ r.since = now /\ r.level = 1
  BY <1>t, Zenon DEF NoLookup, ARequest, CacheTypes
<1>2. lookup' = [lookup EXCEPT ![l] = r]
  BY <1>b, Zenon
<1> HIDE DEF r
<1>3. RequestStep(l, r)
  BY <1>t, <1>b, <1>1, <1>2, Zenon DEF RequestStep, CacheTypes
<1>4. EntriesFresh'
  BY <1>t, <1>b, ChainUntouched, EntriesDropped, Zenon
<1>5. LookupOK(l)'
  <2>1. lookup'[l] = r
    BY <1>t, <1>2, Zenon DEF CacheTypes
  <2>2. Len(Caches) \in 1 .. 3 /\ Caches' = Caches /\ now \in Nat /\ now' = now
    BY <1>t, <1>b, StackOfCaches, SameStack, Zenon DEF CacheTypes
  <2>3. LookupInTime(l)'
    BY <1>1, <2>1, <2>2, CacheAssumption DEF LookupInTime
  <2>4. LookupFresh(l)' /\ AnswerFresh(l)'
    BY <1>1, <2>1 DEF LookupFresh, AnswerFresh
  <2> QED BY <2>3, <2>4, Zenon DEF LookupOK
<1> QED BY <1>3, <1>4, <1>5, RequestStepInv, Zenon

\* An entry that is found in a cache in its time to live makes the answer as old as the caches
\* from there on allow.
LEMMA HitFresh ==
  ASSUME CacheTypes, NEW i \in DOMAIN Caches, NEW e \in CacheEntry, EntryFresh(i, e), now - e.time < TTL(i, e.value)
  PROVE FromChain(e.value) => now - lastTrue[e.value] <= AgeFrom(i, e.value)
<1>1. e.time \in Nat /\ e.value \in BOOLEAN
  BY DEF CacheEntry
<1>2. PICK v \in BOOLEAN : v = e.value
  BY <1>1, Zenon
<1>3. i \in Nat /\ i + 1 \in Nat
  BY StackOfCaches DEF CacheTypes
<1>4. now \in Nat /\ lastTrue[v] \in Int /\ TTL(i, v) \in Nat \ {0} /\ AgeFrom(i, v) \in Nat /\ AgeFrom(i + 1, v) \in Nat
  BY <1>3, AgeFacts, TTLFacts, Zenon DEF CacheTypes
<1>5. AgeFrom(i, v) = CallTime + TTL(i, v) - 1 + AgeFrom(i + 1, v)
  BY AgeFacts, Zenon DEF CacheTypes
<1>6. PICK a \in Int, n \in Nat, s \in Nat, x \in Nat, y \in Nat, z \in Nat :
        a = lastTrue[v] /\ n = now /\ s = TTL(i, v) /\ x = AgeFrom(i, v) /\ y = AgeFrom(i + 1, v) /\ z = e.time
  <2>1. TTL(i, v) \in Nat
    BY <1>4
  <2> QED BY <1>1, <1>4, <2>1, Zenon
<1>7. (z - a <= CallTime + y) /\ n - z < s => n - a <= x
  BY <1>5, <1>6, CacheAssumption
<1> QED BY <1>2, <1>6, <1>7, Zenon DEF EntryFresh

\* A cache drops the entries that are too old.
LEMMA FreshPart ==
  ASSUME NEW S, NEW f \in [S -> SUBSET CacheEntry], NEW i \in S, NEW ttl, NEW g, g = [f EXCEPT ![i] = Fresh(f[i], ttl)]
  PROVE g \in [S -> SUBSET CacheEntry] /\ g[i] = Fresh(f[i], ttl) /\ \A k \in S : g[k] \subseteq f[k]
<1>1. Fresh(f[i], ttl) \subseteq f[i] /\ f[i] \in SUBSET CacheEntry
  BY Zenon DEF Fresh
<1>2. Fresh(f[i], ttl) \in SUBSET CacheEntry
  BY <1>1, Zenon
<1>3. g[i] = Fresh(f[i], ttl) /\ \A k \in S \ {i} : g[k] = f[k]
  BY Zenon
<1> QED BY <1>1, <1>2, <1>3, Zenon

LEMMA LookUpInv == ASSUME CacheInv, UNCHANGED cacheBound, NEW l \in Lookup, LookUp(l) PROVE CacheInv'
<1>t. CacheTypes
  BY Zenon DEF CacheInv
<1>i. PICK i : i = lookup[l].level
  OBVIOUS
<1>b. /\ lookup[l].at = "down" /\ i <= Len(Caches)
      /\ positive' = [positive EXCEPT ![i] = Fresh(@, TTL(i, TRUE))]
      /\ UNCHANGED <<now, truth, lastTrue, callFaults, cacheBound>>
  BY <1>i, Zenon DEF LookUp
<1>c. i \in DOMAIN Caches /\ i \in 1 .. Len(Caches) + 1 /\ i + 1 \in 1 .. Len(Caches) + 1 /\ i + 1 \in Nat
  <2>1. Len(Caches) \in 1 .. 3 /\ DOMAIN Caches = 1 .. Len(Caches)
    BY <1>t, StackOfCaches, Zenon DEF CacheTypes
  <2>2. i \in 1 .. Len(Caches) + 1
    BY <1>i, <1>b, Zenon DEF CacheInv, LookupInTime
  <2> QED BY <1>b, <2>1, <2>2
<1>d. positive \in [DOMAIN Caches -> SUBSET CacheEntry] /\ negative \in [DOMAIN Caches -> SUBSET CacheEntry]
  BY <1>t, Zenon DEF CacheTypes
<1>g. ChainGoesOn
  BY <1>t, <1>b, ChainUntouched, Zenon
<1>1. /\ positive' \in [DOMAIN Caches -> SUBSET CacheEntry] /\ positive'[i] = Fresh(positive[i], TTL(i, TRUE))
      /\ \A k \in DOMAIN Caches : positive'[k] \subseteq positive[k]
  <2>1. PICK S, f, g, ttl : S = DOMAIN Caches /\ f = positive /\ g = positive' /\ ttl = TTL(i, TRUE)
    BY Zenon
  <2>2. f \in [S -> SUBSET CacheEntry] /\ i \in S /\ g = [f EXCEPT ![i] = Fresh(f[i], ttl)]
    BY <1>b, <1>c, <1>d, <2>1, Zenon
  <2>3. g \in [S -> SUBSET CacheEntry] /\ g[i] = Fresh(f[i], ttl) /\ \A k \in S : g[k] \subseteq f[k]
    BY <2>2, FreshPart
  <2> QED BY <2>1, <2>3, Zenon
<1>2. CASE positive'[i] # {}
  <2>1. PICK e : e = CHOOSE x \in positive'[i] : TRUE
    OBVIOUS
  <2>2. e \in positive'[i]
    BY <1>2, <2>1, Zenon
  <2>3. e \in positive[i] /\ e \in CacheEntry /\ now - e.time < TTL(i, TRUE)
    BY <1>1, <1>c, <1>d, <2>2, Zenon DEF Fresh
  <2>4. Result(l, i, e.value) /\ negative' = negative
    BY <1>i, <1>2, <2>1, Zenon DEF LookUp
  <2>5. EntryFresh(i, e) /\ (e.value \/ Caches[i] = "manager")
    BY <1>c, <2>3, Zenon DEF CacheInv, EntriesFresh
  <2>6. e.value \in BOOLEAN
    BY <2>3 DEF CacheEntry
  <2>7. TTL(i, TRUE) = TTL(i, e.value)
    <3>1. CASE Caches[i] = "manager"
      BY <2>6, <3>1, TTLFacts, Zenon
    <3>2. CASE e.value
      <4>1. e.value = TRUE
        BY <2>6, <3>2, Zenon
      <4> QED BY <4>1, Zenon
    <3> QED BY <2>5, <3>1, <3>2, Zenon
  <2>8. FromChain(e.value) => now - lastTrue[e.value] <= AgeFrom(i, e.value)
    BY <1>t, <1>c, <2>3, <2>5, <2>7, HitFresh, Zenon
  <2>9. lookup[l].at \in {"down", "up"}
    BY <1>b, Zenon
  <2>10. PICK r \in ARequest : lookup' = [lookup EXCEPT ![l] = r] /\ LookupOK(l)'
    BY <1>b, <1>c, <2>4, <2>6, <2>8, <2>9, ResultOK, Zenon
  <2>11. RequestStep(l, r)
    BY <1>t, <1>b, <1>d, <1>1, <2>4, <2>10, Zenon DEF RequestStep, CacheTypes
  <2>12. EntriesFresh'
    BY <1>g, <1>1, <2>4, EntriesDropped, Zenon
  <2> QED BY <2>10, <2>11, <2>12, RequestStepInv, Zenon
<1>3. CASE positive'[i] = {}
  <2>1. negative' = [negative EXCEPT ![i] = Fresh(@, TTL(i, FALSE))]
    BY <1>i, <1>3, Zenon DEF LookUp
  <2>2. /\ negative' \in [DOMAIN Caches -> SUBSET CacheEntry] /\ negative'[i] = Fresh(negative[i], TTL(i, FALSE))
        /\ \A k \in DOMAIN Caches : negative'[k] \subseteq negative[k]
    <3>1. PICK S, f, g, ttl : S = DOMAIN Caches /\ f = negative /\ g = negative' /\ ttl = TTL(i, FALSE)
      BY Zenon
    <3>2. f \in [S -> SUBSET CacheEntry] /\ i \in S /\ g = [f EXCEPT ![i] = Fresh(f[i], ttl)]
      BY <1>c, <1>d, <2>1, <3>1, Zenon
    <3>3. g \in [S -> SUBSET CacheEntry] /\ g[i] = Fresh(f[i], ttl) /\ \A k \in S : g[k] \subseteq f[k]
      BY <3>2, FreshPart
    <3> QED BY <3>1, <3>3, Zenon
  <2>3. EntriesFresh'
    BY <1>g, <1>1, <2>2, EntriesDropped, Zenon
  <2>4. CASE negative'[i] # {}
    <3>1. PICK e : e \in negative'[i]
      BY <2>4, Zenon
    <3>2. e \in negative[i] /\ e \in CacheEntry /\ now - e.time < TTL(i, FALSE)
      BY <2>2, <1>c, <1>d, <3>1, Zenon DEF Fresh
    <3>3. Result(l, i, FALSE)
      BY <1>i, <1>3, <2>4, Zenon DEF LookUp
    <3>4. EntryFresh(i, e) /\ ~e.value /\ e.value \in BOOLEAN
      <4>1. e.value \in BOOLEAN
        BY <3>2 DEF CacheEntry
      <4> QED BY <1>c, <3>2, <4>1, Zenon DEF CacheInv, EntriesFresh
    <3>5. e.value = FALSE
      BY <3>4, Zenon
    <3>6. FromChain(FALSE) => now - lastTrue[FALSE] <= AgeFrom(i, FALSE)
      <4>1. FromChain(e.value) => now - lastTrue[e.value] <= AgeFrom(i, e.value)
        BY <1>t, <1>c, <3>2, <3>4, <3>5, HitFresh, Zenon
      <4> QED BY <3>5, <4>1, Zenon
    <3>7. lookup[l].at \in {"down", "up"} /\ FALSE \in BOOLEAN
      BY <1>b, Zenon
    <3>8. PICK r \in ARequest : lookup' = [lookup EXCEPT ![l] = r] /\ LookupOK(l)'
      BY <1>b, <1>c, <3>3, <3>6, <3>7, ResultOK, Zenon
    <3>9. RequestStep(l, r)
      BY <1>t, <1>b, <1>1, <2>2, <3>8, Zenon DEF RequestStep, CacheTypes
    <3> QED BY <2>3, <3>8, <3>9, RequestStepInv, Zenon
  <2>5. CASE negative'[i] = {}
    <3> DEFINE r == [lookup[l] EXCEPT !.level = i + 1]
    <3>1. lookup[l] \in ARequest
      BY <1>t, Zenon DEF CacheTypes, ARequest
    <3>2. r \in ARequest /\ r.at = "down" /\ r.level = i + 1 /\ r.since = lookup[l].since
      BY <1>b, <1>c, <3>1 DEF ARequest
    <3>3. lookup' = [lookup EXCEPT ![l].level = i + 1]
      BY <1>i, <1>3, <2>5, Zenon DEF LookUp
    <3>4. lookup' = [lookup EXCEPT ![l] = r]
      BY <3>3, Zenon
    <3> HIDE DEF r
    <3>5. lookup'[l] = r
      BY <1>t, <3>4, Zenon DEF CacheTypes
    <3>6. LookupOK(l)'
      <4>1. LookupFresh(l)' /\ AnswerFresh(l)'
        BY <3>2, <3>5 DEF LookupFresh, AnswerFresh
      <4>2. Caches' = Caches /\ now' = now
        BY <1>b, SameStack, Zenon
      <4>3. lookup[l].since <= now /\ now - lookup[l].since <= CallTime
        BY <1>b, Zenon DEF CacheInv, LookupInTime
      <4>4. LookupInTime(l)'
        BY <1>c, <3>2, <3>5, <4>2, <4>3 DEF LookupInTime
      <4> QED BY <4>1, <4>4, Zenon DEF LookupOK
    <3>7. RequestStep(l, r)
      BY <1>t, <1>b, <1>1, <2>2, <3>2, <3>4, Zenon DEF RequestStep, CacheTypes
    <3> QED BY <2>3, <3>6, <3>7, RequestStepInv, Zenon
  <2> QED BY <2>4, <2>5, Zenon
<1> QED BY <1>2, <1>3, Zenon

LEMMA ChainAnswersInv == ASSUME CacheInv, UNCHANGED cacheBound, NEW l \in Lookup, ChainAnswers(l) PROVE CacheInv'
<1>t. CacheTypes
  BY Zenon DEF CacheInv
<1>i. PICK i, v : i = lookup[l].level /\ v = truth
  OBVIOUS
<1>b. /\ lookup[l].at = "down" /\ Result(l, i, v) /\ v \in BOOLEAN
      /\ UNCHANGED <<now, truth, lastTrue, positive, negative, callFaults, cacheBound>>
  BY <1>i, <1>t, Zenon DEF ChainAnswers, CacheTypes
<1>1. i \in 1 .. Len(Caches) + 1 /\ lookup[l].at \in {"down", "up"}
  BY <1>i, <1>b, Zenon DEF CacheInv, LookupInTime
<1>2. FromChain(v) => now - lastTrue[v] <= AgeFrom(i, v)
  <2>1. i \in Nat
    BY <1>1, StackOfCaches, <1>t DEF CacheTypes
  <2>2. lastTrue[v] = now /\ now \in Nat /\ AgeFrom(i, v) \in Nat
    BY <1>i, <1>t, <1>b, <2>1, AgeFacts, Zenon DEF CacheTypes
  <2> QED BY <2>2
<1>3. PICK r \in ARequest : lookup' = [lookup EXCEPT ![l] = r] /\ LookupOK(l)'
  BY <1>b, <1>1, <1>2, ResultOK, Zenon
<1>4. RequestStep(l, r)
  BY <1>t, <1>b, <1>3, Zenon DEF RequestStep, CacheTypes
<1>5. EntriesFresh'
  BY <1>t, <1>b, ChainUntouched, EntriesDropped, Zenon
<1> QED BY <1>3, <1>4, <1>5, RequestStepInv, Zenon

LEMMA StoreInv == ASSUME CacheInv, UNCHANGED cacheBound, NEW l \in Lookup, Store(l) PROVE CacheInv'
<1>t. CacheTypes
  BY Zenon DEF CacheInv
<1>i. PICK i, v, e : i = lookup[l].level /\ v = lookup[l].value /\ e = [time |-> now, value |-> v]
  BY Zenon
<1>b. /\ lookup[l].at = "up" /\ Result(l, i, v)
      /\ \/ (v \/ Caches[i] = "manager") /\ positive' = [positive EXCEPT ![i] = {e}] /\ negative' = negative
         \/ ~v /\ negative' = [negative EXCEPT ![i] = {e}] /\ positive' = positive
      /\ UNCHANGED <<now, truth, lastTrue, callFaults, cacheBound>>
  BY <1>i, Zenon DEF Store
<1>c. i \in DOMAIN Caches /\ i \in Nat /\ i + 1 \in Nat /\ i \in 1 .. Len(Caches) + 1
  <2>1. i \in DOMAIN Caches
    BY <1>i, <1>b, Zenon DEF CacheInv, LookupInTime
  <2> QED BY <1>t, <2>1, StackOfCaches DEF CacheTypes
<1>d. positive \in [DOMAIN Caches -> SUBSET CacheEntry] /\ negative \in [DOMAIN Caches -> SUBSET CacheEntry]
  BY <1>t, Zenon DEF CacheTypes
<1>e. v \in BOOLEAN /\ e \in CacheEntry /\ e.time = now /\ e.value = v /\ lookup[l].since \in Nat /\ now \in Nat
  BY <1>t, <1>i DEF CacheTypes, CacheEntry
<1>1. (FromChain(v) => now - lastTrue[v] <= CallTime + AgeFrom(i + 1, v)) /\ (FromChain(v) => now - lastTrue[v] <= AgeFrom(i, v))
  <2>1. FromChain(v) => lookup[l].since - lastTrue[v] <= AgeFrom(i + 1, v)
    BY <1>i, <1>b, Zenon DEF CacheInv, LookupFresh
  <2>2. now - lookup[l].since <= CallTime
    BY <1>b, Zenon DEF CacheInv, LookupInTime
  <2>3. lastTrue[v] \in Int /\ TTL(i, v) \in Nat \ {0} /\ AgeFrom(i, v) \in Nat /\ AgeFrom(i + 1, v) \in Nat
    BY <1>t, <1>c, <1>e, AgeFacts, TTLFacts, Zenon DEF CacheTypes
  <2>4. AgeFrom(i, v) = CallTime + TTL(i, v) - 1 + AgeFrom(i + 1, v)
    BY <1>t, <1>c, <1>e, AgeFacts, Zenon DEF CacheTypes
  <2>5. PICK a \in Int, n \in Nat, s \in Nat, x \in Nat, y \in Nat, z \in Nat :
          a = lastTrue[v] /\ n = now /\ s = TTL(i, v) /\ x = AgeFrom(i, v) /\ y = AgeFrom(i + 1, v) /\ z = lookup[l].since
    <3>1. TTL(i, v) \in Nat
      BY <2>3
    <3> QED BY <1>e, <2>3, <3>1, Zenon
  <2>6. z - a <= y => n - a <= CallTime + y /\ n - a <= x
    BY <2>2, <2>3, <2>4, <2>5, CacheAssumption
  <2> QED BY <2>1, <2>5, <2>6, Zenon
<1>2. lookup[l].at \in {"down", "up"}
  BY <1>b, Zenon
<1>3. PICK r \in ARequest : lookup' = [lookup EXCEPT ![l] = r] /\ LookupOK(l)'
  BY <1>b, <1>c, <1>e, <1>1, <1>2, ResultOK, Zenon
<1>g. ChainGoesOn /\ Caches' = Caches /\ AgeFrom(i + 1, v)' = AgeFrom(i + 1, v)
  BY <1>t, <1>b, ChainUntouched, SameStack, Zenon
<1>4. EntryFresh(i, e) /\ EntryFresh(i, e)'
  <2>1. EntryFresh(i, e)
    BY <1>e, <1>1, Zenon DEF EntryFresh
  <2> QED BY <1>t, <1>c, <1>e, <1>g, <2>1, EntryStaysFresh, Zenon DEF CacheTypes
<1>5. CASE (v \/ Caches[i] = "manager") /\ positive' = [positive EXCEPT ![i] = {e}] /\ negative' = negative
  <2>1. positive' \in [DOMAIN Caches -> SUBSET CacheEntry] /\ positive'[i] = {e} /\ \A k \in DOMAIN Caches \ {i} : positive'[k] = positive[k]
    BY <1>c, <1>d, <1>e, <1>5, Zenon
  <2>2. RequestStep(l, r)
    BY <1>t, <1>b, <1>d, <1>3, <1>5, <2>1, Zenon DEF RequestStep, CacheTypes
  <2>3. EntriesFresh'
    <3>1. ASSUME NEW k \in DOMAIN Caches, NEW x \in positive'[k] PROVE EntryFresh(k, x)' /\ (x.value \/ Caches'[k] = "manager")
      <4>1. CASE k = i
        BY <1>4, <1>5, <1>e, <1>g, <2>1, <4>1, Zenon
      <4>2. CASE k # i
        BY <1>b, <1>g, <2>1, <4>2, EntriesStayFresh, Zenon
      <4> QED BY <4>1, <4>2, Zenon
    <3>2. \A k \in DOMAIN Caches : \A x \in negative'[k] : EntryFresh(k, x)' /\ ~x.value
      BY <1>b, <1>g, <1>5, EntriesStayFresh, Zenon
    <3> QED BY <1>g, <3>1, <3>2, Zenon DEF EntriesFresh
  <2> QED BY <1>3, <2>2, <2>3, RequestStepInv, Zenon
<1>6. CASE ~v /\ negative' = [negative EXCEPT ![i] = {e}] /\ positive' = positive
  <2>1. negative' \in [DOMAIN Caches -> SUBSET CacheEntry] /\ negative'[i] = {e} /\ \A k \in DOMAIN Caches \ {i} : negative'[k] = negative[k]
    BY <1>c, <1>d, <1>e, <1>6, Zenon
  <2>2. RequestStep(l, r)
    BY <1>t, <1>b, <1>d, <1>3, <1>6, <2>1, Zenon DEF RequestStep, CacheTypes
  <2>3. EntriesFresh'
    <3>1. ASSUME NEW k \in DOMAIN Caches, NEW x \in negative'[k] PROVE EntryFresh(k, x)' /\ ~x.value
      <4>1. CASE k = i
        BY <1>4, <1>6, <1>e, <1>g, <2>1, <4>1, Zenon
      <4>2. CASE k # i
        BY <1>b, <1>g, <2>1, <4>2, EntriesStayFresh, Zenon
      <4> QED BY <4>1, <4>2, Zenon
    <3>2. \A k \in DOMAIN Caches : \A x \in positive'[k] : EntryFresh(k, x)' /\ (x.value \/ Caches'[k] = "manager")
      BY <1>b, <1>g, <1>6, EntriesStayFresh, Zenon
    <3> QED BY <1>g, <3>1, <3>2, Zenon DEF EntriesFresh
  <2> QED BY <1>3, <2>2, <2>3, RequestStepInv, Zenon
<1> QED BY <1>b, <1>5, <1>6, Zenon

LEMMA CallFailsInv == ASSUME CacheInv, UNCHANGED cacheBound, NEW l \in Lookup, CallFails(l) PROVE CacheInv'
<1>t. CacheTypes
  BY Zenon DEF CacheInv
<1>b. /\ lookup[l].at = "down" /\ callFaults' = callFaults + 1
      /\ lookup' = [lookup EXCEPT ![l] =
                      IF cacheBound.about \in {"member", "enabled"}
                      THEN [@ EXCEPT !.at = "up", !.level = 1, !.value = FALSE]
                      ELSE NoLookup]
      /\ UNCHANGED <<now, truth, lastTrue, positive, negative, cacheBound>>
  BY Zenon DEF CallFails
<1>n. callFaults' \in Nat /\ callFaults' # 0
  BY <1>t, <1>b DEF CacheTypes
<1> DEFINE r == IF cacheBound.about \in {"member", "enabled"}
                THEN [lookup[l] EXCEPT !.at = "up", !.level = 1, !.value = FALSE] ELSE NoLookup
<1>1. r \in ARequest /\ (r.at = "up" => r.level = 1 /\ r.value = FALSE /\ r.since = lookup[l].since) /\ r.at \in {"up", "idle"}
  <2>1. lookup[l] \in ARequest
    BY <1>t, Zenon DEF CacheTypes, ARequest
  <2> QED BY <2>1, Zenon DEF NoLookup, ARequest
<1>2. lookup' = [lookup EXCEPT ![l] = r]
  BY <1>b, Zenon
<1> HIDE DEF r
<1>3. RequestStep(l, r)
  BY <1>t, <1>b, <1>n, <1>1, <1>2, Zenon DEF RequestStep, CacheTypes
<1>4. EntriesFresh'
  BY <1>t, <1>b, <1>n, ChainUntouched, EntriesDropped, Zenon
<1>5. LookupOK(l)'
  <2>1. lookup'[l] = r
    BY <1>t, <1>2, Zenon DEF CacheTypes
  <2>2. Len(Caches) \in 1 .. 3 /\ DOMAIN Caches = 1 .. Len(Caches) /\ Caches' = Caches
    BY <1>t, <1>b, StackOfCaches, SameStack, Zenon DEF CacheTypes
  <2>3. lookup[l].since <= now /\ now - lookup[l].since <= CallTime
    BY <1>b, Zenon DEF CacheInv, LookupInTime
  <2>4. 1 \in DOMAIN Caches
    BY <2>2
  <2>5. LookupInTime(l)'
    BY <1>b, <1>1, <2>1, <2>2, <2>3, <2>4 DEF LookupInTime
  <2>6. LookupFresh(l)' /\ AnswerFresh(l)'
    BY <1>1, <1>n, <2>1 DEF LookupFresh, AnswerFresh, FromChain
  <2> QED BY <2>5, <2>6, Zenon DEF LookupOK
<1> QED BY <1>3, <1>4, <1>5, RequestStepInv, Zenon

LEMMA EvictInv == ASSUME CacheInv, UNCHANGED cacheBound, Evict PROVE CacheInv'
<1>t. CacheTypes
  BY Zenon DEF CacheInv
<1>b. UNCHANGED <<now, truth, lastTrue, lookup, callFaults, cacheBound>>
  BY Zenon DEF Evict
<1>d. positive \in [DOMAIN Caches -> SUBSET CacheEntry] /\ negative \in [DOMAIN Caches -> SUBSET CacheEntry] /\ {} \in SUBSET CacheEntry
  BY <1>t, Zenon DEF CacheTypes
<1>1. PICK i \in DOMAIN Caches : \/ positive' = [positive EXCEPT ![i] = {}] /\ UNCHANGED negative
                                 \/ negative' = [negative EXCEPT ![i] = {}] /\ UNCHANGED positive
  BY Zenon DEF Evict
<1>2. positive' \in [DOMAIN Caches -> SUBSET CacheEntry] /\ negative' \in [DOMAIN Caches -> SUBSET CacheEntry]
  BY <1>d, <1>1, Zenon
<1>3. \A k \in DOMAIN Caches : positive'[k] \subseteq positive[k] /\ negative'[k] \subseteq negative[k]
  BY <1>d, <1>1, Zenon
<1>g. ChainGoesOn /\ Caches' = Caches
  BY <1>t, <1>b, ChainUntouched, SameStack, Zenon
<1>4. CacheTypes'
  BY <1>t, <1>b, <1>g, <1>2, Zenon DEF CacheTypes
<1>5. EntriesFresh'
  BY <1>g, <1>3, EntriesDropped, Zenon
<1>6. \A k \in Lookup : LookupOK(k)'
  BY <1>t, <1>b, <1>g, InvParts, LookupStays, Zenon
<1> QED BY <1>4, <1>5, <1>6, Zenon DEF CacheInv, LookupOK, AnswersFresh, AnswerFresh, FromChain

LEMMA CacheNextInv == CacheInv /\ [CacheNext]_<<cacheVars, cacheBound>> => CacheInv'
<1> SUFFICES ASSUME CacheInv, [CacheNext]_<<cacheVars, cacheBound>> PROVE CacheInv'
  OBVIOUS
<1>1. CASE CacheNext
  BY <1>1, ChainChangesInv, TimePassesInv, StartLookupInv, LookUpInv, ChainAnswersInv, StoreInv, CallFailsInv,
     EvictInv, Zenon DEF CacheNext
<1>2. CASE UNCHANGED <<cacheVars, cacheBound>>
  <2>1. UNCHANGED <<now, truth, lastTrue, positive, negative, lookup, callFaults, cacheBound>>
    BY <1>2, Zenon DEF cacheVars
  <2>t. CacheTypes
    BY Zenon DEF CacheInv
  <2>g. ChainGoesOn /\ Caches' = Caches
    BY <2>t, <2>1, ChainUntouched, SameStack, Zenon
  <2>4. CacheTypes'
    BY <2>t, <2>1, <2>g, Zenon DEF CacheTypes
  <2>5. EntriesFresh'
    BY <2>g, <2>1, EntriesDropped, Zenon
  <2>6. \A k \in Lookup : LookupOK(k)'
    BY <2>t, <2>1, <2>g, InvParts, LookupStays, Zenon
  <2> QED BY <2>4, <2>5, <2>6, Zenon DEF CacheInv, LookupOK, AnswersFresh, AnswerFresh, FromChain
<1> QED BY <1>1, <1>2, Zenon

\* Whatever calls end in whatever order, an answer is one the chain has given not longer ago than
\* the caches of the stack may keep it (auth_impl_cache.go:142-189), for every time to live, time of
\* a call and number of requests.
THEOREM CachedAnswersFresh == CacheSpec => []AnswersFresh
<1>1. CacheInv => AnswersFresh
  BY Zenon DEF CacheInv
<1> QED BY <1>1, CacheInitInv, CacheNextInv, PTL DEF CacheSpec

(***************************************************************************)
(* The archiver: ArchiveInv is inductive.  The streams of the start are    *)
(* listed first, then events are taken from the contract; a worker goes    *)
(* from load to write with one stream, which no other worker has.          *)
(***************************************************************************)

LEMMA ArchiveInitInv == ArchiveInit => ArchiveInv
<1> SUFFICES ASSUME ArchiveInit PROVE ArchiveInv
  OBVIOUS
<1> USE DEF ArchiveInit, NoRow, NotCounted
<1>1. archiveBound \in ArchiveBound
  BY ArchiveAssumption
<1>2. DOMAIN known = {}
  OBVIOUS
<1>3. ArchiveTypes
  <2>1. known \in [DOMAIN known -> ArchiveStream]
    BY <1>2
  <2>2. registry \in [Archived -> Nat]
    OBVIOUS
  <2>3. DOMAIN unlisted \subseteq Archived /\ unlisted \in [DOMAIN unlisted -> Nat]
    BY <2>2 DEF Listed
  <2> QED BY <1>1, <1>2, <2>1, <2>2, <2>3 DEF ArchiveTypes
<1>4. \A w \in Worker : worker[w] = IdleWorker
  OBVIOUS
<1>5. ListingOK /\ CopiesOnly /\ TasksKnown
  BY <1>2, <1>3 DEF ListingOK, CopiesOnly, TasksKnown, ArchiveTypes
<1>6. WorkersOK /\ OneWorker
  BY <1>4 DEF WorkersOK, OneWorker
<1>7. TasksSuffice /\ BehindHasTask
  BY <1>2, <1>4 DEF TasksSuffice, BehindHasTask, IdleWorker
<1> QED BY <1>3, <1>5, <1>6, <1>7 DEF ArchiveInv

\* The counters of what may happen.
LEMMA MayUseFacts ==
  ASSUME NEW k \in {"made", "restarts", "readFails", "writeFails", "ghosts"}, ArchiveTypes, MayUse(k)
  PROVE /\ archiveUsed' \in [{"made", "restarts", "readFails", "writeFails", "ghosts"} -> Nat]
        /\ k \in {"made", "restarts"} => (Faultless' <=> Faultless)
        /\ k \in {"readFails", "writeFails", "ghosts"} => ~Faultless'
<1>1. archiveUsed \in [{"made", "restarts", "readFails", "writeFails", "ghosts"} -> Nat]
  BY DEF ArchiveTypes
<1> QED BY <1>1 DEF MayUse, Faultless

LEMMA RowsAreInts ==
  ASSUME ArchiveTypes, NEW t \in Archived
  PROVE archive[t] \in Int /\ hosted[t] \in Nat /\ queue[t] \in Nat /\ timers[t] \in Nat
<1>1. archive[t] \in Nat \cup {NoRow} /\ hosted[t] \in Nat /\ queue[t] \in Nat /\ timers[t] \in Nat
  BY Zenon DEF ArchiveTypes
<1> QED BY <1>1 DEF NoRow

\* The node of a stream stores more of it.
LEMMA WorkersStayOK ==
  ASSUME ArchiveTypes, ArchiveTypes', WorkersOK, worker' = worker, known' = known,
         \A t \in Archived : hosted[t] <= hosted'[t]
  PROVE WorkersOK'
<1> SUFFICES ASSUME NEW w \in Worker, worker[w] # IdleWorker PROVE WorkerOK(w)'
  BY Zenon DEF WorkersOK
<1>1. WorkerOK(w)
  BY Zenon DEF WorkersOK
<1>2. worker[w] \in ArchiveTask
  BY Zenon DEF ArchiveTypes
<1>3. known[worker[w].stream] \in ArchiveStream
  BY <1>1, Zenon DEF ArchiveTypes, WorkerOK
<1>4. hosted[worker[w].stream] \in Nat /\ hosted'[worker[w].stream] \in Nat
      /\ hosted[worker[w].stream] <= hosted'[worker[w].stream]
  BY <1>2 DEF ArchiveTypes, ArchiveTask
<1> QED BY <1>1, <1>2, <1>3, <1>4 DEF WorkerOK, ArchiveTask, ArchiveStream, NotCounted

\* The contract gets another miniblock.
LEMMA RegistersInv ==
  ASSUME ArchiveInv, NEW s \in Archived, Registers(s), UNCHANGED archiveBound
  PROVE ArchiveInv'
<1> USE DEF Registers, process
<1>a. ArchiveTypes /\ CopiesOnly
  BY DEF ArchiveInv
<1>b. registry' \in [Archived -> Nat] /\ hosted' \in [Archived -> Nat]
  BY SMTT(30), Z3T(30), <1>a DEF ArchiveTypes
<1>c. chainFeed' \in Seq([stream : Archived, last : Nat])
  BY <1>a DEF ArchiveTypes
<1>d. archiveUsed' \in [{"made", "restarts", "readFails", "writeFails", "ghosts"} -> Nat]
      /\ (Faultless' <=> Faultless)
  BY <1>a, MayUseFacts
<1>1. ArchiveTypes'
  BY <1>a, <1>b, <1>c, <1>d, Zenon DEF ArchiveTypes
<1>2. \A t \in Archived : hosted[t] <= hosted'[t] /\ hosted'[t] <= registry'[t]
  BY SMTT(30), Z3T(30), <1>a DEF ArchiveTypes, CopiesOnly
<1>3. ListingOK' /\ TasksKnown' /\ OneWorker'
  BY DEF ArchiveInv, ListingOK, TasksKnown, OneWorker
<1>4. CopiesOnly'
  <2> SUFFICES ASSUME NEW t \in Archived PROVE (hosted[t] <= registry[t] /\ archive[t] <= hosted[t])'
    BY DEF CopiesOnly
  <2>1. archive[t] \in Int /\ hosted[t] \in Nat /\ hosted'[t] \in Nat /\ archive[t] <= hosted[t] /\ archive' = archive
    BY <1>a, <1>b, RowsAreInts, Zenon DEF CopiesOnly
  <2> QED BY <1>2, <2>1
<1>5. WorkersOK'
  BY <1>a, <1>1, <1>2, WorkersStayOK, Zenon DEF ArchiveInv
<1>6. (Faultless => TasksSuffice)' /\ BehindHasTask'
  BY <1>d DEF ArchiveInv, TasksSuffice, BehindHasTask
<1> QED BY <1>1, <1>3, <1>4, <1>5, <1>6 DEF ArchiveInv

LEMMA HostStoresInv ==
  ASSUME ArchiveInv, NEW s \in Archived, HostStores(s), UNCHANGED archiveBound
  PROVE ArchiveInv'
<1> USE DEF HostStores, process
<1>a. ArchiveTypes /\ CopiesOnly
  BY Zenon DEF ArchiveInv
<1>b. hosted' \in [Archived -> Nat]
  BY <1>a DEF ArchiveTypes
<1>1. ArchiveTypes'
  BY <1>a, <1>b, Zenon DEF ArchiveTypes
<1>2. \A t \in Archived : hosted[t] <= hosted'[t] /\ hosted'[t] <= registry'[t]
  BY SMTT(30), Z3T(30), <1>a DEF ArchiveTypes, CopiesOnly
<1>3. ListingOK' /\ TasksKnown' /\ OneWorker' /\ (Faultless => TasksSuffice)' /\ BehindHasTask'
  BY Zenon DEF ArchiveInv, ListingOK, TasksKnown, OneWorker, Faultless, TasksSuffice, BehindHasTask
<1>4. CopiesOnly'
  <2> SUFFICES ASSUME NEW t \in Archived PROVE (hosted[t] <= registry[t] /\ archive[t] <= hosted[t])'
    BY DEF CopiesOnly
  <2>1. archive[t] \in Int /\ hosted[t] \in Nat /\ hosted'[t] \in Nat /\ archive[t] <= hosted[t] /\ archive' = archive
    BY <1>a, <1>b, RowsAreInts, Zenon DEF CopiesOnly
  <2> QED BY <1>2, <2>1
<1>5. WorkersOK'
  BY <1>a, <1>1, <1>2, WorkersStayOK, Zenon DEF ArchiveInv
<1> QED BY <1>1, <1>3, <1>4, <1>5 DEF ArchiveInv

LEMMA StartListeningInv ==
  ASSUME ArchiveInv, StartListening, UNCHANGED archiveBound
  PROVE ArchiveInv'
<1> USE DEF StartListening
<1>1. ArchiveTypes'
  BY Zenon DEF ArchiveInv, ArchiveTypes
<1>2. ListingOK'
  BY Zenon DEF ArchiveInv, ListingOK
<1>3. TasksKnown' /\ CopiesOnly' /\ OneWorker' /\ (Faultless => TasksSuffice)' /\ BehindHasTask'
  BY Zenon DEF ArchiveInv, CopiesOnly, TasksKnown, OneWorker, Faultless, TasksSuffice, BehindHasTask
<1>4. WorkersOK'
  BY Zenon DEF ArchiveInv, WorkersOK, WorkerOK
<1> QED BY <1>1, <1>2, <1>3, <1>4 DEF ArchiveInv

\* A step that adds a task for a stream, and leaves what the archiver has counted.
LEMMA TaskAdded ==
  ASSUME ArchiveInv, ArchiveTypes', NEW s \in Archived,
         DOMAIN known' = DOMAIN known \cup {s},
         \A t \in DOMAIN known : t # s => known'[t] = known[t],
         known'[s].inDb = IF s \in DOMAIN known THEN known[s].inDb ELSE NotCounted,
         queue'[s] > 0, \A t \in Archived : t # s => queue'[t] = queue[t],
         UNCHANGED <<registry, hosted, archive, worker, timers, archiveUsed>>
  PROVE TasksKnown' /\ CopiesOnly' /\ WorkersOK' /\ OneWorker' /\ (Faultless => TasksSuffice)' /\ BehindHasTask'
<1>a. ArchiveTypes /\ WorkersOK /\ TasksKnown
  BY Zenon DEF ArchiveInv
<1>b. \A t \in DOMAIN known : known'[t].inDb = known[t].inDb
  BY Zenon
<1>c. (queue[s] + timers[s] > 0)'
  BY DEF ArchiveTypes
<1>3. TasksKnown'
  BY <1>a, Zenon DEF TasksKnown
<1>4. CopiesOnly' /\ OneWorker'
  BY Zenon DEF ArchiveInv, CopiesOnly, OneWorker
<1>5. WorkersOK'
  <2> SUFFICES ASSUME NEW w \in Worker, worker[w] # IdleWorker PROVE WorkerOK(w)'
    BY Zenon DEF WorkersOK
  <2>1. WorkerOK(w)
    BY <1>a, Zenon DEF WorkersOK
  <2>2. worker[w].stream \in DOMAIN known
    BY <2>1, Zenon DEF WorkerOK
  <2> QED BY <1>b, <2>1, <2>2, Zenon DEF WorkerOK
<1>6. (Faultless => TasksSuffice)' /\ BehindHasTask'
  <2> SUFFICES ASSUME Faultless PROVE TasksSuffice' /\ BehindHasTask'
    BY Zenon DEF Faultless, BehindHasTask
  <2>1. TasksSuffice /\ BehindHasTask
    BY Zenon DEF ArchiveInv
  <2>3. TasksSuffice'
    <3>1. ASSUME NEW t \in DOMAIN known' PROVE (known[t].inDb # NotCounted => archive[t] = known[t].inDb)'
      BY <1>b, <2>1, Zenon DEF TasksSuffice
    <3>2. ASSUME NEW w \in Worker, worker[w].at \in {"read", "write"}
          PROVE (known[worker[w].stream].inContract <= worker[w].target
                  \/ queue[worker[w].stream] + timers[worker[w].stream] > 0)'
      <4>1. worker[w] # IdleWorker
        BY <3>2 DEF IdleWorker
      <4>2. worker[w].stream \in DOMAIN known
        BY <1>a, <4>1, Zenon DEF WorkersOK, WorkerOK
      <4>3. worker[w].stream \in Archived
        BY <1>a, <4>2, Zenon DEF ArchiveTypes
      <4> QED BY <1>c, <2>1, <3>2, <4>2, <4>3, Zenon DEF TasksSuffice
    <3> QED BY <3>1, <3>2, Zenon DEF TasksSuffice
  <2>4. BehindHasTask'
    BY <1>a, <1>c, <2>1, Zenon DEF BehindHasTask, ArchiveTypes
  <2> QED BY <2>3, <2>4
<1> QED BY <1>3, <1>4, <1>5, <1>6, Zenon

\* Another stream becomes known, with a task.
LEMMA KnownWithFacts ==
  ASSUME ArchiveTypes, NEW s \in Archived, s \notin DOMAIN known, NEW n \in Nat,
         known' = KnownWith(s, NewArchiveStream(n))
  PROVE /\ DOMAIN known' = DOMAIN known \cup {s} /\ DOMAIN known' \subseteq Archived
        /\ \A t \in DOMAIN known : known'[t] = known[t]
        /\ known'[s].inDb = NotCounted
        /\ known' \in [DOMAIN known' -> ArchiveStream]
<1>1. /\ DOMAIN known' = DOMAIN known \cup {s} /\ DOMAIN known' \subseteq Archived
      /\ known'[s] = [inContract |-> n, inDb |-> NotCounted]
      /\ \A t \in DOMAIN known : known'[t] = known[t]
      /\ known' = [t \in DOMAIN known' |-> known'[t]]
  BY Zenon DEF KnownWith, NewArchiveStream, ArchiveTypes
<1>2. known'[s] \in ArchiveStream /\ known'[s].inDb = NotCounted
  BY <1>1 DEF ArchiveStream
<1>3. \A t \in DOMAIN known : known'[t] \in ArchiveStream
  BY <1>1, Zenon DEF ArchiveTypes
<1> QED BY <1>1, <1>2, <1>3, Zenon

LEMMA ListStreamInv ==
  ASSUME ArchiveInv, NEW s \in Archived, ListStream(s), UNCHANGED archiveBound
  PROVE ArchiveInv'
<1> USE DEF ListStream
<1>a. ArchiveTypes /\ ListingOK
  BY Zenon DEF ArchiveInv
<1>b. s \notin DOMAIN known /\ unlisted[s] \in Nat /\ DOMAIN unlisted # {}
  BY <1>a, Zenon DEF ListingOK, ArchiveTypes
<1>c. /\ DOMAIN known' = DOMAIN known \cup {s} /\ DOMAIN known' \subseteq Archived
      /\ \A t \in DOMAIN known : known'[t] = known[t]
      /\ known'[s].inDb = NotCounted
      /\ known' \in [DOMAIN known' -> ArchiveStream]
  BY <1>a, <1>b, KnownWithFacts, Zenon
<1>e. /\ DOMAIN unlisted' = DOMAIN unlisted \ {s}
      /\ unlisted' \in [DOMAIN unlisted' -> Nat]
  BY <1>a, Zenon DEF ArchiveTypes
<1>f. queue' \in [Archived -> Nat] /\ queue'[s] > 0 /\ \A t \in Archived : t # s => queue'[t] = queue[t]
  BY SMTT(30), Z3T(30), <1>a DEF ArchiveTypes
<1>1. ArchiveTypes'
  BY <1>a, <1>c, <1>e, <1>f, Zenon DEF ArchiveTypes
<1>2. ListingOK'
  BY <1>a, <1>b, <1>c, <1>e, Zenon DEF ListingOK
<1>3. TasksKnown' /\ CopiesOnly' /\ WorkersOK' /\ OneWorker' /\ (Faultless => TasksSuffice)' /\ BehindHasTask'
  BY <1>b, <1>c, <1>f, <1>1, TaskAdded, Zenon
<1> QED BY <1>1, <1>2, <1>3, Zenon DEF ArchiveInv

LEMMA HeadTail ==
  ASSUME NEW S, NEW q \in Seq(S), q # << >>
  PROVE Head(q) \in S /\ Tail(q) \in Seq(S)
  OBVIOUS

LEMMA NextEventInv ==
  ASSUME ArchiveInv, NextEvent, UNCHANGED archiveBound
  PROVE ArchiveInv'
<1> DEFINE s == Head(chainFeed).stream
           n == Head(chainFeed).last
<1>a. ArchiveTypes /\ ListingOK
  BY Zenon DEF ArchiveInv
<1>b. s \in Archived /\ n \in Nat /\ chainFeed' \in Seq([stream : Archived, last : Nat])
  <2>1. chainFeed \in Seq([stream : Archived, last : Nat]) /\ chainFeed # << >> /\ chainFeed' = Tail(chainFeed)
    BY <1>a, Zenon DEF ArchiveTypes, NextEvent
  <2>2. Head(chainFeed) \in [stream : Archived, last : Nat] /\ chainFeed' \in Seq([stream : Archived, last : Nat])
    BY <2>1, HeadTail, Zenon
  <2> QED BY <2>2
<1>c. UNCHANGED <<registry, hosted, archive, worker, timers, archiveUsed, unlisted, listening>>
  BY Zenon DEF NextEvent
<1> HIDE DEF s, n
<1>1. CASE UNCHANGED <<known, queue>>
  <2>1. ArchiveTypes'
    BY <1>a, <1>b, <1>c, <1>1, Zenon DEF ArchiveTypes
  <2>2. ListingOK' /\ TasksKnown' /\ CopiesOnly' /\ OneWorker'
    BY <1>c, <1>1, Zenon DEF ArchiveInv, ListingOK, CopiesOnly, TasksKnown, OneWorker
  <2>4. (Faultless => TasksSuffice)' /\ BehindHasTask'
    BY <1>c, <1>1, Zenon DEF ArchiveInv, Faultless, TasksSuffice, BehindHasTask
  <2>3. WorkersOK'
    BY <1>c, <1>1, Zenon DEF ArchiveInv, WorkersOK, WorkerOK
  <2> QED BY <2>1, <2>2, <2>3, <2>4, Zenon DEF ArchiveInv
<1>2. ASSUME listening,
             DOMAIN known' = DOMAIN known \cup {s}, DOMAIN known' \subseteq Archived,
             \A t \in DOMAIN known : t # s => known'[t] = known[t],
             known'[s].inDb = IF s \in DOMAIN known THEN known[s].inDb ELSE NotCounted,
             known' \in [DOMAIN known' -> ArchiveStream],
             NEW k \in {1, 2}, queue' = [queue EXCEPT ![s] = @ + k]
      PROVE ArchiveInv'
  <2>1. queue' \in [Archived -> Nat] /\ queue'[s] > 0 /\ \A t \in Archived : t # s => queue'[t] = queue[t]
    <3>1. queue \in [Archived -> Nat]
      BY <1>a, Zenon DEF ArchiveTypes
    <3> QED BY <1>b, <1>2, <3>1
  <2>2. ArchiveTypes'
    BY <1>a, <1>b, <1>c, <1>2, <2>1, Zenon DEF ArchiveTypes
  <2>3. ListingOK'
    BY <1>a, <1>c, <1>2, Zenon DEF ListingOK
  <2>4. TasksKnown' /\ CopiesOnly' /\ WorkersOK' /\ OneWorker' /\ (Faultless => TasksSuffice)' /\ BehindHasTask'
    BY <1>b, <1>c, <1>2, <2>1, <2>2, TaskAdded, Zenon
  <2> QED BY <2>2, <2>3, <2>4, Zenon DEF ArchiveInv
<1>3. CASE listening /\ OnStreamAllocated(s)
  <2>1. CASE Knows(s)
    <3>1. known' = known /\ queue' = [queue EXCEPT ![s] = @ + 1] /\ s \in DOMAIN known
      BY <1>3, <2>1, Zenon DEF OnStreamAllocated, Knows
    <3> QED BY <1>a, <1>2, <1>3, <3>1, Zenon DEF ArchiveTypes
  <2>2. CASE ~Knows(s)
    <3>1. s \notin DOMAIN known /\ known' = KnownWith(s, NewArchiveStream(1)) /\ queue' = [queue EXCEPT ![s] = @ + 2]
      BY <1>3, <2>2, Zenon DEF OnStreamAllocated, Knows
    <3>2. 1 \in Nat
      OBVIOUS
    <3> QED BY <1>a, <1>b, <1>2, <1>3, <3>1, <3>2, KnownWithFacts, Zenon
  <2> QED BY <2>1, <2>2
<1>4. CASE listening /\ OnStreamLastMiniblockUpdated(s, n) /\ Knows(s)
  <2>1. known' = [known EXCEPT ![s].inContract = n + 1] /\ queue' = [queue EXCEPT ![s] = @ + 1] /\ s \in DOMAIN known
    BY <1>4, Zenon DEF OnStreamLastMiniblockUpdated, Knows
  <2>2. DOMAIN known' = DOMAIN known /\ \A t \in DOMAIN known : t # s => known'[t] = known[t]
    BY <2>1, Zenon
  <2>3. known[s] \in ArchiveStream /\ known'[s] = [known[s] EXCEPT !.inContract = n + 1]
    BY <1>a, <2>1, Zenon DEF ArchiveTypes
  <2>4. known'[s] \in ArchiveStream /\ known'[s].inDb = known[s].inDb
    BY SMTT(30), Z3T(30), <1>b, <2>3 DEF ArchiveStream
  <2>5. known' \in [DOMAIN known' -> ArchiveStream] /\ DOMAIN known' = DOMAIN known \cup {s} /\ DOMAIN known' \subseteq Archived
    <3>1. \A t \in DOMAIN known : known'[t] \in ArchiveStream
      BY <1>a, <2>2, <2>4, Zenon DEF ArchiveTypes
    <3>2. known' = [t \in DOMAIN known |-> known'[t]]
      BY <2>1, Zenon
    <3> QED BY ZenonT(30), <1>a, <2>1, <2>2, <3>1, <3>2, Zenon DEF ArchiveTypes
  <2> QED BY <1>2, <1>4, <2>1, <2>2, <2>4, <2>5, Zenon
<1> QED BY <1>1, <1>3, <1>4, Zenon DEF s, n, NextEvent, OnStreamLastMiniblockUpdated

\* The tasks of a stream wait in the channel or for a timer.
LEMMA SameTasks ==
  ASSUME ArchiveInv, ArchiveTypes', \A t \in Archived : queue'[t] + timers'[t] = queue[t] + timers[t],
         UNCHANGED <<registry, hosted, unlisted, listening, known, worker, archive, archiveUsed>>
  PROVE ArchiveInv'
<1>a. ArchiveTypes
  BY Zenon DEF ArchiveInv
<1>1. ListingOK' /\ CopiesOnly' /\ OneWorker'
  BY Zenon DEF ArchiveInv, ListingOK, CopiesOnly, OneWorker
<1>2. WorkersOK'
  BY Zenon DEF ArchiveInv, WorkersOK, WorkerOK
<1>3. TasksKnown'
  BY Zenon DEF ArchiveInv, TasksKnown
<1>4. (Faultless => TasksSuffice)'
  <2> SUFFICES ASSUME Faultless PROVE TasksSuffice'
    BY Zenon DEF Faultless
  <2>1. \A w \in Worker : worker[w].at \in {"read", "write"} => worker[w].stream \in Archived
    <3> SUFFICES ASSUME NEW w \in Worker, worker[w].at \in {"read", "write"} PROVE worker[w].stream \in Archived
      OBVIOUS
    <3>1. worker[w] # IdleWorker
      BY DEF IdleWorker
    <3> QED BY <1>a, <3>1 DEF ArchiveTypes, ArchiveTask
  <2> QED BY <2>1, Zenon DEF ArchiveInv, TasksSuffice
<1>5. BehindHasTask'
  BY <1>a, Zenon DEF ArchiveInv, BehindHasTask, Faultless, ArchiveTypes
<1> QED BY <1>1, <1>2, <1>3, <1>4, <1>5, Zenon DEF ArchiveInv

LEMMA TimerFiresInv ==
  ASSUME ArchiveInv, NEW s \in Archived, TimerFires(s), UNCHANGED archiveBound
  PROVE ArchiveInv'
<1> USE DEF TimerFires
<1>a. ArchiveTypes
  BY Zenon DEF ArchiveInv
<1>b. queue' \in [Archived -> Nat] /\ timers' \in [Archived -> Nat]
      /\ \A t \in Archived : queue'[t] + timers'[t] = queue[t] + timers[t]
  <2>1. queue \in [Archived -> Nat] /\ timers \in [Archived -> Nat]
    BY <1>a, Zenon DEF ArchiveTypes
  <2> QED BY <2>1
<1> QED BY <1>a, <1>b, SameTasks, Zenon DEF ArchiveTypes

\* What a worker that has a task may rely on.
LEMMA TaskFacts ==
  ASSUME ArchiveInv, NEW w \in Worker, worker[w].at # "idle"
  PROVE /\ worker[w] # IdleWorker /\ worker[w] \in ArchiveTask /\ WorkerOK(w)
        /\ worker[w].stream \in DOMAIN known /\ worker[w].stream \in Archived
        /\ known[worker[w].stream] \in ArchiveStream
        /\ \A v \in Worker : v # w /\ worker[v] # IdleWorker => worker[v].stream # worker[w].stream
<1>1. worker[w] # IdleWorker
  BY DEF IdleWorker
<1>2. worker[w] \in ArchiveTask
  BY <1>1, Zenon DEF ArchiveInv, ArchiveTypes
<1>3. WorkerOK(w)
  BY <1>1, Zenon DEF ArchiveInv, WorkersOK
<1>4. worker[w].stream \in DOMAIN known
  BY <1>3, Zenon DEF WorkerOK
<1> QED BY <1>1, <1>2, <1>3, <1>4, Zenon DEF ArchiveInv, ArchiveTypes, OneWorker

\* The worker of stream s goes on, or ends its task: nothing changes for other streams.
TaskMoves(w, s, x) ==
  /\ worker[w].at # "idle" /\ s = worker[w].stream
  /\ worker' = [worker EXCEPT ![w] = x]
  /\ x = IdleWorker \/ (x \in ArchiveTask /\ x # IdleWorker /\ x.stream = s /\ WorkerOK(w)')
  /\ DOMAIN known' = DOMAIN known /\ known' \in [DOMAIN known -> ArchiveStream]
  /\ \A t \in DOMAIN known : t # s => known'[t] = known[t]
  /\ archive' \in [Archived -> Nat \cup {NoRow}] /\ timers' \in [Archived -> Nat]
  /\ \A t \in Archived : t # s => archive'[t] = archive[t] /\ timers'[t] = timers[t]
  /\ archive'[s] <= hosted[s]
  /\ archiveUsed' \in [{"made", "restarts", "readFails", "writeFails", "ghosts"} -> Nat]
  /\ UNCHANGED <<registry, hosted, chainFeed, unlisted, listening, queue, archiveBound>>

\* What a task leaves behind it as long as nothing has failed.
TaskLeaves(w, s, x) ==
  /\ (known[s].inDb # NotCounted => archive[s] = known[s].inDb)'
  /\ x.at \in {"read", "write"} => (known[s].inContract <= worker[w].target \/ queue[s] + timers[s] > 0)'
  /\ x = IdleWorker => (archive[s] < known[s].inContract => queue[s] + timers[s] > 0)'

LEMMA WorkerMoves ==
  ASSUME ArchiveInv, NEW w \in Worker, NEW s, NEW x, TaskMoves(w, s, x)
  PROVE ArchiveTypes' /\ ListingOK' /\ TasksKnown' /\ CopiesOnly' /\ WorkersOK' /\ OneWorker'
<1> SUFFICES ASSUME worker[w].at # "idle", s = worker[w].stream, worker' = [worker EXCEPT ![w] = x],
                      x = IdleWorker \/ (x \in ArchiveTask /\ x # IdleWorker /\ x.stream = s /\ WorkerOK(w)'),
                      DOMAIN known' = DOMAIN known, known' \in [DOMAIN known -> ArchiveStream],
                      \A t \in DOMAIN known : t # s => known'[t] = known[t],
                      archive' \in [Archived -> Nat \cup {NoRow}], timers' \in [Archived -> Nat],
                      \A t \in Archived : t # s => archive'[t] = archive[t] /\ timers'[t] = timers[t],
                      archive'[s] <= hosted[s], archiveUsed' \in [{"made", "restarts", "readFails", "writeFails", "ghosts"} -> Nat],
                      UNCHANGED <<registry, hosted, chainFeed, unlisted, listening, queue, archiveBound>>
             PROVE ArchiveTypes' /\ ListingOK' /\ TasksKnown' /\ CopiesOnly' /\ WorkersOK' /\ OneWorker'
  BY Zenon DEF TaskMoves
<1>t. ArchiveTypes'
  <2>1. worker' \in [Worker -> {IdleWorker} \cup ArchiveTask]
    BY Zenon DEF ArchiveInv, ArchiveTypes
  <2> QED BY <2>1, Zenon DEF ArchiveInv, ArchiveTypes
<1>a. /\ s \in DOMAIN known /\ s \in Archived
      /\ \A v \in Worker : v # w /\ worker[v] # IdleWorker => worker[v].stream # s
  BY TaskFacts, Zenon
<1>b. worker'[w] = x /\ \A v \in Worker : v # w => worker'[v] = worker[v]
  BY Zenon DEF ArchiveInv, ArchiveTypes
<1>1. ListingOK' /\ TasksKnown' /\ CopiesOnly'
  BY <1>a, Zenon DEF ArchiveInv, ListingOK, TasksKnown, CopiesOnly
<1>2. WorkersOK'
  <2> SUFFICES ASSUME NEW v \in Worker, worker'[v] # IdleWorker PROVE WorkerOK(v)'
    BY Zenon DEF WorkersOK
  <2>1. CASE v = w
    BY <1>b, <2>1, Zenon
  <2>2. CASE v # w
    <3>1. worker'[v] = worker[v] /\ WorkerOK(v) /\ worker[v].stream # s
      BY <1>a, <1>b, <2>2, Zenon DEF ArchiveInv, WorkersOK
    <3>2. known'[worker[v].stream] = known[worker[v].stream]
      BY <3>1, Zenon DEF WorkerOK
    <3> QED BY <3>1, <3>2, Zenon DEF WorkerOK
  <2> QED BY <2>1, <2>2, Zenon
<1>3. OneWorker'
  <2> SUFFICES ASSUME NEW u \in Worker, NEW v \in Worker, u # v, worker'[u] # IdleWorker, worker'[v] # IdleWorker
               PROVE worker'[u].stream # worker'[v].stream
    BY Zenon DEF OneWorker
  <2>1. CASE u = w
    <3>1. worker'[u] = x /\ x # IdleWorker /\ v # w
      BY <1>b, <2>1, Zenon
    <3>2. worker'[u].stream = s /\ worker'[v] = worker[v] /\ worker[v] # IdleWorker
      BY <1>b, <3>1, Zenon
    <3> QED BY <1>a, <3>1, <3>2
  <2>2. CASE v = w
    <3>1. worker'[v] = x /\ x # IdleWorker /\ u # w
      BY <1>b, <2>2, Zenon
    <3>2. worker'[v].stream = s /\ worker'[u] = worker[u] /\ worker[u] # IdleWorker
      BY <1>b, <3>1, Zenon
    <3> QED BY <1>a, <3>1, <3>2
  <2>3. CASE u # w /\ v # w
    <3>1. worker'[u] = worker[u] /\ worker'[v] = worker[v]
      BY <1>b, <2>3, Zenon
    <3>2. OneWorker
      BY Zenon DEF ArchiveInv
    <3> QED BY <3>1, <3>2 DEF OneWorker
  <2> QED BY <2>1, <2>2, <2>3, Zenon
<1> QED BY <1>t, <1>1, <1>2, <1>3, Zenon

\* The same for what holds as long as nothing has failed.
LEMMA WorkerMovesFaultless ==
  ASSUME ArchiveInv, NEW w \in Worker, NEW s, NEW x, TaskMoves(w, s, x), TaskLeaves(w, s, x), Faultless
  PROVE TasksSuffice' /\ BehindHasTask'
<1> SUFFICES ASSUME worker[w].at # "idle", s = worker[w].stream, worker' = [worker EXCEPT ![w] = x],
                      x = IdleWorker \/ (x # IdleWorker /\ x.stream = s),
                      DOMAIN known' = DOMAIN known, \A t \in DOMAIN known : t # s => known'[t] = known[t],
                      \A t \in Archived : t # s => archive'[t] = archive[t] /\ timers'[t] = timers[t],
                      UNCHANGED queue,
                      (known[s].inDb # NotCounted => archive[s] = known[s].inDb)',
                      x.at \in {"read", "write"} =>
                        (known[s].inContract <= worker[w].target \/ queue[s] + timers[s] > 0)',
                      x = IdleWorker => (archive[s] < known[s].inContract => queue[s] + timers[s] > 0)'
             PROVE TasksSuffice' /\ BehindHasTask'
  BY Zenon DEF TaskMoves, TaskLeaves
<1>a. /\ s \in DOMAIN known /\ s \in Archived
      /\ \A v \in Worker : v # w /\ worker[v] # IdleWorker => worker[v].stream # s
  BY TaskFacts, Zenon
<1>b. worker'[w] = x /\ \A v \in Worker : v # w => worker'[v] = worker[v]
  BY Zenon DEF ArchiveInv, ArchiveTypes
<1>c. TasksSuffice /\ BehindHasTask /\ ArchiveTypes
  BY Zenon DEF ArchiveInv
<1>1. TasksSuffice'
  <2>1. ASSUME NEW t \in DOMAIN known' PROVE (known[t].inDb # NotCounted => archive[t] = known[t].inDb)'
    <3>1. CASE t = s
      BY <3>1, Zenon
    <3>2. CASE t # s
      BY <1>c, <3>2, Zenon DEF TasksSuffice, ArchiveTypes
    <3> QED BY <3>1, <3>2, Zenon
  <2>2. ASSUME NEW v \in Worker, worker'[v].at \in {"read", "write"}
        PROVE (known[worker[v].stream].inContract <= worker[v].target
                \/ queue[worker[v].stream] + timers[worker[v].stream] > 0)'
    <3>1. worker'[v] # IdleWorker
      BY <2>2 DEF IdleWorker
    <3>2. CASE v = w
      <4>1. worker'[v] = x /\ x.stream = s
        BY <1>b, <3>1, <3>2, Zenon
      <4> QED BY <2>2, <3>2, <4>1, Zenon
    <3>3. CASE v # w
      <4>1. worker'[v] = worker[v] /\ worker[v].stream # s /\ worker[v].stream \in DOMAIN known
            /\ worker[v].stream \in Archived
        BY <1>a, <1>b, <1>c, <3>1, <3>3, Zenon DEF ArchiveInv, WorkersOK, WorkerOK, ArchiveTypes
      <4> QED BY ZenonT(30), <1>c, <2>2, <4>1, Zenon DEF TasksSuffice
    <3> QED BY <3>2, <3>3, Zenon
  <2> QED BY <2>1, <2>2, Zenon DEF TasksSuffice
<1>2. BehindHasTask'
  <2> SUFFICES ASSUME NEW t \in DOMAIN known, archive'[t] < known'[t].inContract
               PROVE (queue[t] + timers[t] > 0 \/ \E v \in Worker : worker[v] # IdleWorker /\ worker[v].stream = t)'
    BY Zenon DEF BehindHasTask
  <2>1. CASE t = s
    BY <1>b, <2>1, Zenon
  <2>2. CASE t # s
    <3>1. archive[t] < known[t].inContract /\ timers'[t] = timers[t]
      BY <1>c, <2>2, Zenon DEF ArchiveTypes
    <3>2. queue[t] + timers[t] > 0 \/ \E v \in Worker : worker[v] # IdleWorker /\ worker[v].stream = t
      BY <1>c, <3>1, Zenon DEF BehindHasTask
    <3>3. ASSUME NEW v \in Worker, worker[v] # IdleWorker, worker[v].stream = t
          PROVE worker'[v] # IdleWorker /\ worker'[v].stream = t
      <4>1. v # w
        BY <2>2, <3>3, Zenon
      <4> QED BY <1>b, <3>3, <4>1, Zenon
    <3> QED BY <3>1, <3>2, <3>3, Zenon
  <2> QED BY <2>1, <2>2, Zenon
<1> QED BY <1>1, <1>2, Zenon

LEMMA TakeTaskInv ==
  ASSUME ArchiveInv, NEW w \in Worker, NEW s \in Archived, TakeTask(w, s), UNCHANGED archiveBound
  PROVE ArchiveInv'
<1>a. ArchiveTypes
  BY Zenon DEF ArchiveInv
<1>b. queue \in [Archived -> Nat] /\ timers \in [Archived -> Nat] /\ worker \in [Worker -> {IdleWorker} \cup ArchiveTask]
  BY <1>a, Zenon DEF ArchiveTypes
<1>c. /\ worker[w] = IdleWorker /\ queue[s] > 0 /\ queue' = [queue EXCEPT ![s] = @ - 1]
      /\ UNCHANGED <<registry, hosted, chainFeed, unlisted, listening, known, archive, archiveUsed>>
  BY Zenon DEF TakeTask
<1>d. queue' \in [Archived -> Nat] /\ s \in DOMAIN known
  <2>1. queue[s] + timers[s] > 0
    BY <1>b, <1>c
  <2> QED BY <1>b, <1>c, <2>1 DEF ArchiveInv, TasksKnown
<1>1. CASE ~TryLock(s)
  <2>1. timers' = [timers EXCEPT ![s] = @ + 1] /\ worker' = [worker EXCEPT ![w] = IdleWorker]
    BY <1>1, Zenon DEF TakeTask, PutBack, TaskDone
  <2>2. worker' = worker
    BY <1>b, <1>c, <2>1
  <2>3. timers' \in [Archived -> Nat] /\ \A t \in Archived : queue'[t] + timers'[t] = queue[t] + timers[t]
    BY <1>b, <1>c, <2>1
  <2>4. ArchiveTypes'
    BY <1>a, <1>c, <1>d, <2>2, <2>3, Zenon DEF ArchiveTypes
  <2> QED BY <1>c, <2>2, <2>3, <2>4, SameTasks, Zenon
<1>2. CASE TryLock(s)
  <2> DEFINE x == [at |-> IF known[s].inDb = NotCounted THEN "load" ELSE "check", stream |-> s, target |-> 0, got |-> 0]
  <2>1. worker' = [worker EXCEPT ![w] = x] /\ timers' = timers
    BY <1>2, Zenon DEF TakeTask
  <2>2. x \in ArchiveTask /\ x.stream = s /\ x # IdleWorker /\ x.at \in {"load", "check"}
        /\ (x.at = "load" <=> known[s].inDb = NotCounted)
    BY DEF ArchiveTask, IdleWorker
  <2> HIDE DEF x
  <2>3. worker'[w] = x /\ \A v \in Worker : v # w => worker'[v] = worker[v]
    BY <1>b, <2>1, Zenon
  <2>4. worker' \in [Worker -> {IdleWorker} \cup ArchiveTask]
    BY <1>b, <2>1, <2>2, Zenon
  <2>5. \A v \in Worker : worker[v] # IdleWorker => worker[v].stream # s
    BY <1>2, Zenon DEF TryLock
  <2>6. ArchiveTypes'
    BY <1>a, <1>c, <1>d, <2>1, <2>4, Zenon DEF ArchiveTypes
  <2>7. ListingOK' /\ CopiesOnly'
    BY <1>c, Zenon DEF ArchiveInv, ListingOK, CopiesOnly
  <2>8. TasksKnown'
    <3>1. \A t \in Archived : t # s => queue'[t] = queue[t]
      BY <1>b, <1>c, Zenon
    <3> QED BY <1>c, <1>d, <2>1, <3>1, Zenon DEF ArchiveInv, TasksKnown
  <2>9. WorkersOK'
    <3> SUFFICES ASSUME NEW v \in Worker, worker'[v] # IdleWorker PROVE WorkerOK(v)'
      BY Zenon DEF WorkersOK
    <3>1. CASE v = w
      <4>1. worker'[v] = x
        BY <2>3, <3>1, Zenon
      <4> QED BY <1>c, <1>d, <2>2, <4>1 DEF WorkerOK
    <3>2. CASE v # w
      <4>1. worker'[v] = worker[v] /\ WorkerOK(v)
        BY <2>3, <3>2, Zenon DEF ArchiveInv, WorkersOK
      <4> QED BY <1>c, <4>1, Zenon DEF WorkerOK
    <3> QED BY <3>1, <3>2, Zenon
  <2>10. OneWorker'
    <3> SUFFICES ASSUME NEW u \in Worker, NEW v \in Worker, u # v, worker'[u] # IdleWorker, worker'[v] # IdleWorker
                 PROVE worker'[u].stream # worker'[v].stream
      BY Zenon DEF OneWorker
    <3>1. CASE u = w
      BY <2>2, <2>3, <2>5, <3>1
    <3>2. CASE v = w
      BY <2>2, <2>3, <2>5, <3>2
    <3>3. CASE u # w /\ v # w
      <4>1. worker'[u] = worker[u] /\ worker'[v] = worker[v]
        BY <2>3, <3>3, Zenon
      <4>2. OneWorker
        BY Zenon DEF ArchiveInv
      <4> QED BY <4>1, <4>2 DEF OneWorker
    <3> QED BY <3>1, <3>2, <3>3, Zenon
  <2>11. ASSUME Faultless PROVE TasksSuffice' /\ BehindHasTask'
    <3>a. TasksSuffice /\ BehindHasTask
      BY <2>11, Zenon DEF ArchiveInv
    <3>b. \A t \in Archived : t # s => queue'[t] = queue[t]
      BY <1>b, <1>c, Zenon
    <3>1. ASSUME NEW v \in Worker, worker'[v].at \in {"read", "write"}
          PROVE (known[worker[v].stream].inContract <= worker[v].target
                  \/ queue[worker[v].stream] + timers[worker[v].stream] > 0)'
      <4>1. v # w
        BY <2>2, <2>3, <3>1
      <4>2. worker'[v] = worker[v] /\ worker[v] # IdleWorker
        BY <2>3, <3>1, <4>1 DEF IdleWorker
      <4>3. worker[v].stream # s /\ worker[v].stream \in Archived
        BY <1>a, <2>5, <4>2, Zenon DEF ArchiveInv, WorkersOK, WorkerOK, ArchiveTypes
      <4> QED BY <1>c, <2>1, <3>a, <3>b, <3>1, <4>2, <4>3, Zenon DEF TasksSuffice
    <3>2. TasksSuffice'
      BY <1>c, <3>a, <3>1, Zenon DEF TasksSuffice
    <3>3. BehindHasTask'
      <4> SUFFICES ASSUME NEW t \in DOMAIN known, archive[t] < known[t].inContract
                   PROVE (queue[t] + timers[t] > 0 \/ \E v \in Worker : worker[v] # IdleWorker /\ worker[v].stream = t)'
        BY <1>c, Zenon DEF BehindHasTask
      <4>1. CASE t = s
        BY <2>2, <2>3, <4>1, Zenon
      <4>2. CASE t # s
        <5>1. queue[t] + timers[t] > 0 \/ \E v \in Worker : worker[v] # IdleWorker /\ worker[v].stream = t
          BY <2>11, <3>a, Zenon DEF BehindHasTask
        <5>2. ASSUME NEW v \in Worker, worker[v] # IdleWorker PROVE worker'[v] = worker[v]
          BY <1>c, <2>3, <5>2, Zenon
        <5> QED BY <1>a, <2>1, <3>b, <4>2, <5>1, <5>2, Zenon DEF ArchiveTypes
      <4> QED BY <4>1, <4>2, Zenon
    <3> QED BY <3>2, <3>3
  <2>12. (Faultless => TasksSuffice)' /\ BehindHasTask'
    <3>1. Faultless' <=> Faultless
      BY <1>c, Zenon DEF Faultless
    <3> QED BY <2>11, <3>1, Zenon DEF BehindHasTask
  <2> QED BY <2>6, <2>7, <2>8, <2>9, <2>10, <2>12, Zenon DEF ArchiveInv
<1> QED BY <1>1, <1>2, Zenon

\* The task of a worker after a step of it.
LEMMA MovedTask ==
  ASSUME NEW t \in ArchiveTask, NEW a \in {"load", "create", "check", "read", "write"}
  PROVE LET x == [t EXCEPT !.at = a]
        IN x \in ArchiveTask /\ x.at = a /\ x.stream = t.stream /\ x.target = t.target /\ x.got = t.got /\ x # IdleWorker
  BY DEF ArchiveTask, IdleWorker

\* What the archiver has counted of a stream.
LEMMA CountedFacts ==
  ASSUME ArchiveTypes, NEW s \in DOMAIN known, NEW d \in Nat, known' = [known EXCEPT ![s].inDb = d]
  PROVE /\ DOMAIN known' = DOMAIN known /\ known' \in [DOMAIN known' -> ArchiveStream]
        /\ \A t \in DOMAIN known : t # s => known'[t] = known[t]
        /\ known'[s].inDb = d /\ known'[s].inContract = known[s].inContract
<1>1. known[s] \in ArchiveStream
  BY Zenon DEF ArchiveTypes
<1>2. /\ known'[s] = [known[s] EXCEPT !.inDb = d] /\ DOMAIN known' = DOMAIN known
      /\ \A t \in DOMAIN known : t # s => known'[t] = known[t]
      /\ known' = [t \in DOMAIN known |-> known'[t]]
  BY Zenon
<1>3. known'[s] \in ArchiveStream /\ known'[s].inDb = d /\ known'[s].inContract = known[s].inContract
  BY <1>1, <1>2 DEF ArchiveStream
<1>4. \A t \in DOMAIN known : known'[t] \in ArchiveStream
  BY <1>2, <1>3, Zenon DEF ArchiveTypes
<1> QED BY <1>2, <1>3, <1>4, Zenon

LEMMA WorkerSteps ==
  ASSUME ArchiveInv, NEW w \in Worker, NEW s, NEW x, TaskMoves(w, s, x), Faultless' => Faultless /\ TaskLeaves(w, s, x)
  PROVE ArchiveInv'
<1>1. ArchiveTypes' /\ ListingOK' /\ TasksKnown' /\ CopiesOnly' /\ WorkersOK' /\ OneWorker'
  BY WorkerMoves, Zenon
<1>2. Faultless' => TasksSuffice' /\ BehindHasTask'
  BY WorkerMovesFaultless, Zenon
<1> QED BY <1>1, <1>2, Zenon DEF ArchiveInv, BehindHasTask

LEMMA LoadInv ==
  ASSUME ArchiveInv, NEW w \in Worker, Load(w), UNCHANGED archiveBound
  PROVE ArchiveInv'
<1>0. PICK s : s = worker[w].stream
  OBVIOUS
<1>x. PICK a : a = IF archive[s] = NoRow THEN "create" ELSE "check"
  OBVIOUS
<1>x0. a \in {"load", "create", "check", "read", "write"}
  BY <1>x
<1>y. PICK x : x = [worker[w] EXCEPT !.at = a]
  BY Zenon
<1>z. PICK d : d = archive[s]
  OBVIOUS
<1>a. ArchiveTypes
  BY Zenon DEF ArchiveInv
<1>b. /\ worker[w].at = "load" /\ worker' = [worker EXCEPT ![w] = x]
      /\ known' = IF d = NoRow THEN known ELSE [known EXCEPT ![s].inDb = d]
      /\ UNCHANGED <<registry, hosted, chainFeed, unlisted, listening, queue, timers, tasksWG, archive, archiveUsed>>
  BY <1>0, <1>x, <1>y, <1>z DEF Load, AtStep, GoTo, outside
<1>c. worker[w].at # "idle"
  BY <1>b
<1>d. worker[w] \in ArchiveTask /\ WorkerOK(w) /\ s \in DOMAIN known /\ s \in Archived
  BY <1>0, <1>c, TaskFacts, Zenon
<1>d1. known[s].inDb = NotCounted
  BY <1>0, <1>b, <1>d DEF WorkerOK
<1>e. x \in ArchiveTask /\ x.stream = s /\ x # IdleWorker /\ x.at = a
  BY ZenonT(30), <1>0, <1>x0, <1>y, <1>d, MovedTask, Zenon
<1>f. worker'[w] = x
  BY <1>a, <1>b, Zenon DEF ArchiveTypes
<1>g. d # NoRow => d \in Nat
  BY <1>a, <1>d, <1>z, Zenon DEF ArchiveTypes
<1>h. /\ DOMAIN known' = DOMAIN known /\ known' \in [DOMAIN known -> ArchiveStream]
      /\ \A t \in DOMAIN known : t # s => known'[t] = known[t]
      /\ known'[s].inDb = IF d = NoRow THEN NotCounted ELSE d
  <2>1. CASE d = NoRow
    BY <1>a, <1>b, <1>d1, <2>1, Zenon DEF ArchiveTypes
  <2>2. CASE d # NoRow
    <3>1. d \in Nat /\ known' = [known EXCEPT ![s].inDb = d]
      BY <1>b, <1>g, <2>2, Zenon
    <3> QED BY <1>a, <1>d, <2>2, <3>1, CountedFacts, ZenonT(30)
  <2> QED BY <2>1, <2>2, Zenon
<1>i. archive'[s] <= hosted[s]
  BY <1>b, <1>d, Zenon DEF ArchiveInv, CopiesOnly
<1>1. WorkerOK(w)'
  <2>1. s = worker'[w].stream /\ s \in DOMAIN known'
    BY <1>d, <1>e, <1>f, <1>h, Zenon
  <2>2. d = NoRow => known'[s].inDb = NotCounted /\ x.at = "create"
    BY <1>e, <1>h, <1>x, <1>z, Zenon
  <2>3. d # NoRow => known'[s].inDb # NotCounted /\ x.at = "check"
    BY <1>e, <1>g, <1>h, <1>x, <1>z DEF NotCounted
  <2> QED BY <1>f, <2>1, <2>2, <2>3 DEF WorkerOK
<1>2. (known[s].inDb # NotCounted => archive[s] = known[s].inDb)'
  BY <1>b, <1>h, <1>z, Zenon
<1>3. x.at \notin {"read", "write"}
  BY <1>e, <1>x
<1>4. archive' \in [Archived -> Nat \cup {NoRow}] /\ timers' \in [Archived -> Nat]
  BY <1>a, <1>b, Zenon DEF ArchiveTypes
<1>5. /\ UNCHANGED <<registry, hosted, chainFeed, unlisted, listening, queue, archiveBound>> /\ UNCHANGED archiveUsed
      /\ archiveUsed' \in [{"made", "restarts", "readFails", "writeFails", "ghosts"} -> Nat]
  BY <1>a, <1>b DEF ArchiveTypes
<1>6. TaskMoves(w, s, x)
  BY <1>0, <1>b, <1>c, <1>e, <1>h, <1>i, <1>1, <1>4, <1>5, Zenon DEF TaskMoves
<1>7. TaskLeaves(w, s, x)
  BY <1>e, <1>2, <1>3, Zenon DEF TaskLeaves
<1>8. Faultless' => Faultless
  BY <1>5, Zenon DEF Faultless
<1> QED BY <1>6, <1>7, <1>8, WorkerSteps, Zenon

LEMMA CreateInv ==
  ASSUME ArchiveInv, NEW w \in Worker, Create(w), UNCHANGED archiveBound
  PROVE ArchiveInv'
<1>0. PICK s : s = worker[w].stream
  OBVIOUS
<1>y. PICK x : x = [worker[w] EXCEPT !.at = "check"]
  BY Zenon
<1>a. ArchiveTypes
  BY Zenon DEF ArchiveInv
<1>b. /\ worker[w].at = "create" /\ worker' = [worker EXCEPT ![w] = x]
      /\ known' = [known EXCEPT ![s].inDb = 0] /\ archive' = [archive EXCEPT ![s] = 0]
      /\ UNCHANGED <<registry, hosted, chainFeed, unlisted, listening, queue, archiveBound>>
      /\ UNCHANGED timers /\ UNCHANGED archiveUsed
  BY <1>0, <1>y DEF Create, AtStep, GoTo, outside
<1>c. worker[w].at # "idle"
  BY <1>b
<1>d. worker[w] \in ArchiveTask /\ WorkerOK(w) /\ s \in DOMAIN known /\ s \in Archived
  BY <1>0, <1>c, TaskFacts, Zenon
<1>e. x \in ArchiveTask /\ x.stream = s /\ x # IdleWorker /\ x.at = "check"
  BY <1>0, <1>y, <1>d, MovedTask, Zenon
<1>f. worker'[w] = x
  BY <1>a, <1>b, Zenon DEF ArchiveTypes
<1>h. /\ DOMAIN known' = DOMAIN known /\ known' \in [DOMAIN known -> ArchiveStream]
      /\ \A t \in DOMAIN known : t # s => known'[t] = known[t]
      /\ known'[s].inDb = 0
  <2>1. 0 \in Nat
    OBVIOUS
  <2> QED BY <1>a, <1>b, <1>d, <2>1, CountedFacts, Zenon
<1>4. /\ archive' \in [Archived -> Nat \cup {NoRow}] /\ timers' \in [Archived -> Nat]
      /\ archive'[s] = 0 /\ \A t \in Archived : t # s => archive'[t] = archive[t] /\ timers'[t] = timers[t]
      /\ archiveUsed' \in [{"made", "restarts", "readFails", "writeFails", "ghosts"} -> Nat]
  BY <1>a, <1>b, <1>d DEF ArchiveTypes
<1>i. archive'[s] <= hosted[s]
  BY SMTT(30), Z3T(30), <1>a, <1>d, <1>4 DEF ArchiveTypes
<1>1. WorkerOK(w)'
  BY <1>d, <1>e, <1>f, <1>h DEF WorkerOK, NotCounted
<1>3. x.at \notin {"read", "write"}
  BY <1>e
<1>6. TaskMoves(w, s, x)
  BY <1>0, <1>b, <1>c, <1>e, <1>h, <1>i, <1>1, <1>4, Zenon DEF TaskMoves
<1>7. TaskLeaves(w, s, x)
  BY <1>e, <1>h, <1>3, <1>4, Zenon DEF TaskLeaves
<1>8. Faultless' => Faultless
  BY <1>b, Zenon DEF Faultless
<1> QED BY <1>6, <1>7, <1>8, WorkerSteps, Zenon

\* The steps that touch neither the archive nor what the archiver has counted.
LEMMA SameCounts ==
  ASSUME ArchiveInv, NEW w \in Worker, NEW s, NEW x, worker[w].at # "idle", s = worker[w].stream,
         worker' = [worker EXCEPT ![w] = x],
         x = IdleWorker \/ (x \in ArchiveTask /\ x # IdleWorker /\ x.stream = s /\ WorkerOK(w)'),
         UNCHANGED <<registry, hosted, chainFeed, unlisted, listening, queue, archiveBound>>,
         UNCHANGED <<known, archive>>,
         timers' = timers \/ timers' = [timers EXCEPT ![s] = @ + 1],
         archiveUsed' \in [{"made", "restarts", "readFails", "writeFails", "ghosts"} -> Nat]
  PROVE TaskMoves(w, s, x)
<1>a. ArchiveTypes /\ CopiesOnly
  BY Zenon DEF ArchiveInv
<1>1. s \in Archived
  BY TaskFacts, Zenon
<1>2. timers' \in [Archived -> Nat] /\ \A t \in Archived : t # s => timers'[t] = timers[t]
  <2>1. timers \in [Archived -> Nat]
    BY <1>a, Zenon DEF ArchiveTypes
  <2> QED BY <1>1, <2>1
<1>3. archive'[s] <= hosted[s]
  BY <1>a, <1>1, Zenon DEF CopiesOnly
<1> QED BY <1>a, <1>2, <1>3, Zenon DEF TaskMoves, ArchiveTypes

LEMMA CheckInv ==
  ASSUME ArchiveInv, NEW w \in Worker, Check(w), UNCHANGED archiveBound
  PROVE ArchiveInv'
<1>0. PICK s : s = worker[w].stream
  OBVIOUS
<1>x. PICK n : n = known[s].inContract
  OBVIOUS
<1>y. PICK x : x = IF known[s].inDb >= n THEN IdleWorker ELSE [worker[w] EXCEPT !.at = "read", !.target = n]
  OBVIOUS
<1>a. ArchiveTypes
  BY Zenon DEF ArchiveInv
<1>b. /\ worker[w].at = "check" /\ worker' = [worker EXCEPT ![w] = x]
      /\ UNCHANGED <<registry, hosted, chainFeed, unlisted, listening, queue, archiveBound>>
      /\ UNCHANGED <<known, archive>> /\ UNCHANGED timers /\ UNCHANGED archiveUsed
  BY <1>0, <1>x, <1>y, Zenon DEF Check, AtStep, TaskDone, outside
<1>c. worker[w].at # "idle"
  BY <1>b
<1>d. worker[w] \in ArchiveTask /\ WorkerOK(w) /\ s \in DOMAIN known /\ s \in Archived /\ known[s] \in ArchiveStream
  BY <1>0, <1>c, TaskFacts, Zenon
<1>d1. n \in Nat /\ known[s].inDb \in Nat
  <2>1. n \in Nat /\ known[s].inDb \in Nat \cup {NotCounted}
    BY SMTT(30), Z3T(30), <1>x, <1>d DEF ArchiveStream
  <2>2. known[s].inDb # NotCounted
    BY <1>0, <1>b, <1>d DEF WorkerOK
  <2> QED BY <2>1, <2>2, Zenon
<1>e. CASE known[s].inDb >= n
  <2>1. x = IdleWorker
    BY <1>e, <1>y, Zenon
  <2>2. TaskMoves(w, s, x)
    BY <1>0, <1>a, <1>b, <1>c, <2>1, SameCounts, Zenon DEF ArchiveTypes
  <2>3. Faultless' => Faultless
    BY <1>b, Zenon DEF Faultless
  <2>4. Faultless => archive[s] = known[s].inDb
    BY <1>d, <1>d1 DEF ArchiveInv, TasksSuffice, NotCounted
  <2>5. Faultless => TaskLeaves(w, s, x)
    <3>1. x.at \notin {"read", "write"}
      BY SMTT(30), Z3T(30), <2>1 DEF IdleWorker
    <3>2. Faultless => ~(archive'[s] < known'[s].inContract)
      BY SMTT(30), Z3T(30), <1>b, <1>d1, <1>e, <1>x, <2>4
    <3> QED BY <1>b, <2>4, <3>1, <3>2, Zenon DEF TaskLeaves
  <2> QED BY <2>2, <2>3, <2>5, WorkerSteps, Zenon
<1>f. CASE ~(known[s].inDb >= n)
  <2>1. x = [worker[w] EXCEPT !.at = "read", !.target = n]
    BY <1>f, <1>y, Zenon
  <2>2. x \in ArchiveTask /\ x # IdleWorker /\ x.stream = s /\ x.at = "read" /\ x.target = n
    BY <1>0, <1>d, <1>d1, <2>1, Zenon DEF ArchiveTask, IdleWorker
  <2>3. worker'[w] = x
    BY <1>a, <1>b, Zenon DEF ArchiveTypes
  <2>4. WorkerOK(w)'
    BY <1>b, <1>d, <1>d1, <2>2, <2>3 DEF WorkerOK, NotCounted
  <2>5. TaskMoves(w, s, x)
    BY <1>0, <1>a, <1>b, <1>c, <2>2, <2>4, SameCounts, ZenonT(30) DEF ArchiveTypes
  <2>6. Faultless' => Faultless
    BY <1>b, Zenon DEF Faultless
  <2>7. Faultless => archive[s] = known[s].inDb
    BY <1>d, <1>d1 DEF ArchiveInv, TasksSuffice, NotCounted
  <2>8. known'[s].inContract <= worker'[w].target
    BY <1>b, <1>x, <1>d1, <2>2, <2>3
  <2>9. Faultless => TaskLeaves(w, s, x)
    BY <1>b, <2>2, <2>7, <2>8, Zenon DEF TaskLeaves
  <2> QED BY <2>5, <2>6, <2>9, WorkerSteps, Zenon
<1> QED BY <1>e, <1>f, Zenon

LEMMA ReadInv ==
  ASSUME ArchiveInv, NEW w \in Worker, Read(w), UNCHANGED archiveBound
  PROVE ArchiveInv'
<1>0. PICK s : s = worker[w].stream
  OBVIOUS
<1>x. PICK n : n = Smaller(Smaller(known[s].inDb + ReadSize, worker[w].target), hosted[s]) - known[s].inDb
  OBVIOUS
<1>y. PICK x : x = IF n <= 0 THEN IdleWorker ELSE [worker[w] EXCEPT !.at = "write", !.got = n]
  OBVIOUS
<1>a. ArchiveTypes
  BY Zenon DEF ArchiveInv
<1>b. /\ worker[w].at = "read" /\ worker' = [worker EXCEPT ![w] = x]
      /\ UNCHANGED <<registry, hosted, chainFeed, unlisted, listening, queue, archiveBound>>
      /\ UNCHANGED <<known, archive>> /\ UNCHANGED archiveUsed
      /\ IF n <= 0 THEN timers' = [timers EXCEPT ![s] = @ + 1] ELSE timers' = timers
  BY <1>0, <1>x, <1>y, Zenon DEF Read, AtStep, TaskDone, PutBack, outside
<1>b1. timers' = timers \/ timers' = [timers EXCEPT ![s] = @ + 1]
  BY <1>b, Zenon
<1>c. worker[w].at # "idle"
  BY <1>b
<1>d. worker[w] \in ArchiveTask /\ WorkerOK(w) /\ s \in DOMAIN known /\ s \in Archived /\ known[s] \in ArchiveStream
  BY <1>0, <1>c, TaskFacts, Zenon
<1>d1. known[s].inDb \in Nat
  <2>1. known[s].inDb \in Nat \cup {NotCounted}
    BY SMTT(30), Z3T(30), <1>d DEF ArchiveStream
  <2>2. known[s].inDb # NotCounted
    BY SMTT(30), Z3T(30), <1>0, <1>b, <1>d DEF WorkerOK
  <2> QED BY <2>1, <2>2, Zenon
<1>d2. hosted[s] \in Nat /\ worker[w].target \in Nat
  BY <1>a, <1>d DEF ArchiveTypes, ArchiveTask
<1>g. Faultless' => Faultless
  BY <1>b, Zenon DEF Faultless
<1>h. Faultless => archive[s] = known[s].inDb
  BY <1>d, <1>d1 DEF ArchiveInv, TasksSuffice, NotCounted
<1>e. CASE n <= 0
  <2>1. x = IdleWorker
    BY <1>e, <1>y, Zenon
  <2>2. TaskMoves(w, s, x)
    BY <1>0, <1>a, <1>b, <1>b1, <1>c, <2>1, SameCounts, Zenon DEF ArchiveTypes
  <2>3. Faultless => TaskLeaves(w, s, x)
    <3>1. x.at \notin {"read", "write"}
      BY <2>1 DEF IdleWorker
    <3>2. timers[s] \in Nat /\ queue[s] \in Nat /\ timers'[s] = timers[s] + 1 /\ queue'[s] = queue[s]
      <4>1. timers \in [Archived -> Nat] /\ queue \in [Archived -> Nat] /\ queue' = queue
        BY SMTT(30), Z3T(30), <1>a, <1>b DEF ArchiveTypes
      <4>2. timers' = [timers EXCEPT ![s] = @ + 1]
        BY <1>b, <1>e, Zenon
      <4> QED BY <1>d, <4>1, <4>2
    <3>3. queue'[s] + timers'[s] > 0
      BY <3>2
    <3> QED BY <1>b, <1>h, <3>1, <3>3, Zenon DEF TaskLeaves
  <2> QED BY <1>g, <2>2, <2>3, WorkerSteps, Zenon
<1>f. CASE ~(n <= 0)
  <2>1. x = [worker[w] EXCEPT !.at = "write", !.got = n]
    BY <1>f, <1>y, Zenon
  <2>0. n \in Nat /\ known[s].inDb + n <= hosted[s]
    BY <1>d1, <1>d2, <1>f, <1>x, ArchiveAssumption DEF Smaller
  <2>2. x \in ArchiveTask /\ x # IdleWorker /\ x.stream = s /\ x.at = "write" /\ x.target = worker[w].target /\ x.got = n
    BY <1>0, <1>d, <2>0, <2>1, Zenon DEF ArchiveTask, IdleWorker
  <2>3. worker'[w] = x
    BY <1>a, <1>b, ZenonT(30) DEF ArchiveTypes
  <2>4. WorkerOK(w)'
    BY <1>b, <1>d, <1>d1, <2>0, <2>2, <2>3 DEF WorkerOK, NotCounted
  <2>5. TaskMoves(w, s, x)
    BY <1>0, <1>a, <1>b, <1>b1, <1>c, <2>2, <2>4, SameCounts, Zenon DEF ArchiveTypes
  <2>8. Faultless => (known[s].inContract <= worker[w].target \/ queue[s] + timers[s] > 0)'
    <3>1. Faultless => known[s].inContract <= worker[w].target \/ queue[s] + timers[s] > 0
      BY <1>0, <1>b DEF ArchiveInv, TasksSuffice
    <3>2. known' = known /\ queue' = queue /\ timers' = timers
      BY <1>b, <1>f
    <3> QED BY ZenonT(30), <2>2, <2>3, <3>1, <3>2, Zenon
  <2>9. Faultless => TaskLeaves(w, s, x)
    BY <1>b, <1>h, <2>2, <2>8, Zenon DEF TaskLeaves
  <2> QED BY <1>g, <2>5, <2>9, WorkerSteps, Zenon
<1> QED BY <1>e, <1>f, Zenon

LEMMA ReadFailsInv ==
  ASSUME ArchiveInv, NEW w \in Worker, ReadFails(w), UNCHANGED archiveBound
  PROVE ArchiveInv'
<1>0. PICK s : s = worker[w].stream
  OBVIOUS
<1>b. /\ worker[w].at = "read" /\ worker' = [worker EXCEPT ![w] = IdleWorker] /\ MayUse("readFails")
      /\ UNCHANGED <<registry, hosted, chainFeed, unlisted, listening, queue, archiveBound>>
      /\ UNCHANGED <<known, archive>> /\ timers' = timers
  BY <1>0 DEF ReadFails, AtStep, TaskDone, outside
<1>c. worker[w].at # "idle"
  BY <1>b
<1>1. ArchiveTypes
  BY Zenon DEF ArchiveInv
<1>2. archiveUsed' \in [{"made", "restarts", "readFails", "writeFails", "ghosts"} -> Nat] /\ ~Faultless'
  BY <1>1, <1>b, MayUseFacts
<1>3. TaskMoves(w, s, IdleWorker)
  BY <1>0, <1>b, <1>c, <1>2, SameCounts, Zenon
<1> QED BY <1>2, <1>3, WorkerSteps, Zenon

\* A worker that writes has counted the archive of its stream.
LEMMA AtWrite ==
  ASSUME ArchiveInv, NEW w \in Worker, worker[w].at = "write", NEW s, s = worker[w].stream
  PROVE /\ known[s].inDb \in Nat /\ worker[w].got \in Nat /\ worker[w].target \in Nat /\ known[s].inContract \in Nat
        /\ known[s].inDb + worker[w].got <= hosted[s] /\ known[s].inDb # NotCounted
        /\ Faultless => archive[s] = known[s].inDb
<1>c. worker[w].at # "idle"
  OBVIOUS
<1>d. worker[w] \in ArchiveTask /\ WorkerOK(w) /\ s \in DOMAIN known /\ known[s] \in ArchiveStream
  BY <1>c, TaskFacts, Zenon
<1>1. known[s].inDb \in Nat \cup {NotCounted} /\ known[s].inContract \in Nat /\ worker[w].got \in Nat /\ worker[w].target \in Nat
  BY <1>d DEF ArchiveStream, ArchiveTask
<1>2. known[s].inDb # NotCounted /\ known[s].inDb + worker[w].got <= hosted[s]
  BY <1>d DEF WorkerOK
<1>3. Faultless => archive[s] = known[s].inDb
  BY <1>2, <1>d, Zenon DEF ArchiveInv, TasksSuffice
<1> QED BY <1>1, <1>2, <1>3, Zenon

\* The archive of a stream gets another number of miniblocks.
LEMMA ArchivedFacts ==
  ASSUME ArchiveTypes, NEW s \in Archived, NEW d \in Nat, archive' = [archive EXCEPT ![s] = d]
  PROVE archive' \in [Archived -> Nat \cup {NoRow}] /\ archive'[s] = d /\ \A t \in Archived : t # s => archive'[t] = archive[t]
  BY Zenon DEF ArchiveTypes

LEMMA WriteInv ==
  ASSUME ArchiveInv, NEW w \in Worker, Write(w), UNCHANGED archiveBound
  PROVE ArchiveInv'
<1>0. PICK s : s = worker[w].stream
  OBVIOUS
<1>z. PICK d : d = known[s].inDb + worker[w].got
  OBVIOUS
<1>y. PICK x : x = IF d < worker[w].target THEN [worker[w] EXCEPT !.at = "read"] ELSE IdleWorker
  BY Zenon
<1>a. ArchiveTypes
  BY Zenon DEF ArchiveInv
<1>b. /\ worker[w].at = "write" /\ worker' = [worker EXCEPT ![w] = x]
      /\ known' = [known EXCEPT ![s].inDb = d] /\ archive' = [archive EXCEPT ![s] = d]
      /\ UNCHANGED <<registry, hosted, chainFeed, unlisted, listening, queue, archiveBound>>
      /\ timers' = timers /\ archiveUsed' = archiveUsed /\ queue' = queue
  BY <1>0, <1>y, <1>z DEF Write, AtStep, GoTo, TaskDone, InDbAfter, outside
<1>c. worker[w].at # "idle"
  BY <1>b
<1>d. worker[w] \in ArchiveTask /\ WorkerOK(w) /\ s \in DOMAIN known /\ s \in Archived
  BY <1>0, <1>c, TaskFacts, Zenon
<1>d1. /\ known[s].inDb \in Nat /\ worker[w].got \in Nat /\ worker[w].target \in Nat /\ known[s].inContract \in Nat
       /\ known[s].inDb + worker[w].got <= hosted[s]
  BY <1>0, <1>b, AtWrite, Zenon
<1>d2. d \in Nat /\ d <= hosted[s]
  BY <1>z, <1>d1
<1>h. /\ DOMAIN known' = DOMAIN known /\ known' \in [DOMAIN known -> ArchiveStream]
      /\ \A t \in DOMAIN known : t # s => known'[t] = known[t]
      /\ known'[s].inDb = d /\ known'[s].inContract = known[s].inContract
  BY <1>a, <1>b, <1>d, <1>d2, CountedFacts, Zenon
<1>i. archive' \in [Archived -> Nat \cup {NoRow}] /\ archive'[s] = d /\ \A t \in Archived : t # s => archive'[t] = archive[t]
  BY <1>a, <1>b, <1>d, <1>d2, ArchivedFacts, Zenon
<1>f. worker'[w] = x
  BY <1>a, <1>b, Zenon DEF ArchiveTypes
<1>j. d < worker[w].target => x \in ArchiveTask /\ x.stream = s /\ x # IdleWorker /\ x.at = "read" /\ x.target = worker[w].target
  BY <1>0, <1>d, <1>y, MovedTask, Zenon
<1>k. ~(d < worker[w].target) => x = IdleWorker /\ x.at \notin {"read", "write"}
  BY SMTT(30), Z3T(30), <1>y DEF IdleWorker
<1>1. d < worker[w].target => WorkerOK(w)'
  BY <1>d, <1>d2, <1>j, <1>f, <1>h DEF WorkerOK, NotCounted
<1>2. TaskMoves(w, s, x)
  BY <1>0, <1>a, <1>b, <1>c, <1>d2, <1>h, <1>i, <1>j, <1>k, <1>1, Zenon DEF TaskMoves, ArchiveTypes
<1>3. Faultless' => Faultless
  BY <1>b, Zenon DEF Faultless
<1>4. Faultless => known'[s].inContract <= worker[w].target \/ queue'[s] + timers'[s] > 0
  BY SMTT(30), Z3T(30), <1>0, <1>b, <1>h DEF ArchiveInv, TasksSuffice
<1>5. Faultless => TaskLeaves(w, s, x)
  <2>1. CASE d < worker[w].target
    BY <1>f, <1>h, <1>i, <1>j, <1>4, <2>1, Zenon DEF TaskLeaves
  <2>2. CASE ~(d < worker[w].target)
    <3>1. known'[s].inContract <= worker[w].target => ~(archive'[s] < known'[s].inContract)
      BY <1>d1, <1>d2, <1>h, <1>i, <2>2
    <3> QED BY <1>h, <1>i, <1>k, <1>4, <2>2, <3>1, ZenonT(30) DEF TaskLeaves
  <2> QED BY <2>1, <2>2, Zenon
<1> QED BY <1>2, <1>3, <1>5, WorkerSteps, Zenon

LEMMA WriteFailsInv ==
  ASSUME ArchiveInv, NEW w \in Worker, WriteFails(w), UNCHANGED archiveBound
  PROVE ArchiveInv'
<1>0. PICK s : s = worker[w].stream
  OBVIOUS
<1>a. ArchiveTypes /\ CopiesOnly
  BY Zenon DEF ArchiveInv
<1>b. /\ worker[w].at \in {"load", "create", "write"} /\ worker' = [worker EXCEPT ![w] = IdleWorker]
      /\ UNCHANGED <<registry, hosted, chainFeed, unlisted, listening, queue, archiveBound>>
      /\ timers' = timers /\ known' = known
  BY Zenon DEF WriteFails, TaskDone, outside
<1>c. worker[w].at # "idle"
  BY <1>b
<1>d. s \in DOMAIN known /\ s \in Archived
  BY <1>0, <1>c, TaskFacts, Zenon
<1>1. \/ MayUse("writeFails") /\ archive' = archive
      \/ worker[w].at = "write" /\ archive[s] # known[s].inDb /\ archive' = archive /\ archiveUsed' = archiveUsed
      \/ \E d \in Nat : d <= hosted[s] /\ MayUse("ghosts") /\ archive' = [archive EXCEPT ![s] = d]
  <2>1. 0 \in Nat /\ 0 <= hosted[s]
    BY SMTT(30), Z3T(30), <1>a, <1>d DEF ArchiveTypes
  <2>2. ASSUME worker[w].at = "write", archive[s] = known[s].inDb
        PROVE archive[s] + worker[w].got \in Nat /\ archive[s] + worker[w].got <= hosted[s]
    BY SMTT(30), Z3T(30), <1>0, <2>2, AtWrite
  <2>3. \/ MayUse("writeFails") /\ archive' = archive
        \/ worker[w].at = "write" /\ archive[s] # known[s].inDb /\ archive' = archive /\ archiveUsed' = archiveUsed
        \/ /\ worker[w].at = "write" /\ archive[s] = known[s].inDb /\ MayUse("ghosts")
           /\ archive' = [archive EXCEPT ![s] = archive[s] + worker[w].got]
        \/ MayUse("ghosts") /\ archive' = [archive EXCEPT ![s] = 0]
    BY <1>0 DEF WriteFails, AtStep
  <2> QED BY <2>1, <2>2, <2>3, Zenon
<1>2. /\ archiveUsed' \in [{"made", "restarts", "readFails", "writeFails", "ghosts"} -> Nat]
      /\ Faultless' => worker[w].at = "write" /\ archive[s] # known[s].inDb /\ Faultless
  <2>1. ASSUME MayUse("writeFails") \/ MayUse("ghosts")
        PROVE archiveUsed' \in [{"made", "restarts", "readFails", "writeFails", "ghosts"} -> Nat] /\ ~Faultless'
    BY <1>a, <2>1, MayUseFacts
  <2>2. ASSUME archiveUsed' = archiveUsed
        PROVE archiveUsed' \in [{"made", "restarts", "readFails", "writeFails", "ghosts"} -> Nat] /\ (Faultless' => Faultless)
    BY <1>a, <2>2, Zenon DEF ArchiveTypes, Faultless
  <2> QED BY <1>1, <2>1, <2>2, Zenon
<1>3. ~Faultless'
  BY <1>0, <1>2, AtWrite, Zenon
<1>4. /\ archive' \in [Archived -> Nat \cup {NoRow}] /\ archive'[s] <= hosted[s]
      /\ \A t \in Archived : t # s => archive'[t] = archive[t]
  <2>1. CASE archive' = archive
    BY <1>a, <1>d, <2>1, Zenon DEF ArchiveTypes, CopiesOnly
  <2>2. CASE \E d \in Nat : d <= hosted[s] /\ archive' = [archive EXCEPT ![s] = d]
    BY <1>a, <1>d, <2>2, ArchivedFacts, Zenon
  <2> QED BY <1>1, <2>1, <2>2, Zenon
<1>5. TaskMoves(w, s, IdleWorker)
  BY <1>0, <1>a, <1>b, <1>c, <1>2, <1>4, Zenon DEF TaskMoves, ArchiveTypes
<1> QED BY <1>3, <1>5, WorkerSteps, Zenon

\* A new process knows no stream and has no task.
LEMMA RestartArchiverInv ==
  ASSUME ArchiveInv, RestartArchiver, UNCHANGED archiveBound
  PROVE ArchiveInv'
<1> USE DEF NoRow, NotCounted
<1>a. ArchiveTypes /\ CopiesOnly
  BY Zenon DEF ArchiveInv
<1>b. /\ MayUse("restarts") /\ unlisted' = Listed(registry) /\ listening' = FALSE /\ known' = << >> /\ chainFeed' = << >>
      /\ queue' = [s \in Archived |-> 0] /\ timers' = [s \in Archived |-> 0]
      /\ worker' = [w \in Worker |-> IdleWorker]
      /\ registry' = registry /\ hosted' = hosted /\ archive' = archive
  BY DEF RestartArchiver
<1>2. DOMAIN known' = {}
  BY <1>b
<1>3. ArchiveTypes'
  <2>1. known' \in [DOMAIN known' -> ArchiveStream]
    BY <1>2
  <2>2. DOMAIN unlisted' \subseteq Archived /\ unlisted' \in [DOMAIN unlisted' -> Nat]
    BY <1>a, <1>b DEF Listed, ArchiveTypes
  <2>3. archiveUsed' \in [{"made", "restarts", "readFails", "writeFails", "ghosts"} -> Nat]
    BY <1>a, <1>b, MayUseFacts
  <2>4. queue' \in [Archived -> Nat] /\ timers' \in [Archived -> Nat] /\ worker' \in [Worker -> {IdleWorker} \cup ArchiveTask]
        /\ chainFeed' \in Seq([stream : Archived, last : Nat])
    BY <1>b
  <2> QED BY SMTT(30), Z3T(30), <1>a, <1>b, <1>2, <2>1, <2>2, <2>3, <2>4 DEF ArchiveTypes
<1>4. \A w \in Worker : worker'[w] = IdleWorker
  BY <1>b
<1>5. ListingOK' /\ CopiesOnly' /\ TasksKnown'
  <2>1. CopiesOnly'
    BY <1>a, <1>b, Zenon DEF CopiesOnly
  <2> QED BY <1>2, <1>b, <2>1 DEF ListingOK, TasksKnown
<1>6. WorkersOK' /\ OneWorker'
  BY <1>4, Zenon DEF WorkersOK, OneWorker
<1>7. TasksSuffice' /\ BehindHasTask'
  BY <1>2, <1>4 DEF TasksSuffice, BehindHasTask, IdleWorker
<1> QED BY <1>3, <1>5, <1>6, <1>7, Zenon DEF ArchiveInv

LEMMA ArchiveNextInv ==
  ASSUME ArchiveInv, [ArchiveNext]_<<archiveVars, archiveBound>>
  PROVE ArchiveInv'
<1>1. CASE UNCHANGED <<archiveVars, archiveBound>>
  <2>1. /\ registry' = registry /\ hosted' = hosted /\ chainFeed' = chainFeed /\ unlisted' = unlisted
        /\ listening' = listening /\ known' = known /\ queue' = queue /\ timers' = timers /\ worker' = worker
        /\ archive' = archive /\ archiveUsed' = archiveUsed /\ archiveBound' = archiveBound
    BY <1>1 DEF archiveVars
  <2> QED BY <2>1, Zenon DEF ArchiveInv, ArchiveTypes, ListingOK, TasksKnown, CopiesOnly, WorkersOK, WorkerOK,
             OneWorker, Faultless, TasksSuffice, BehindHasTask
<1>2. CASE ArchiveNext
  <2>0. UNCHANGED archiveBound
    BY <1>2, Zenon DEF ArchiveNext
  <2>1. ASSUME NEW w \in Worker, Works(w) \/ ReadFails(w) \/ WriteFails(w) PROVE ArchiveInv'
    BY <2>0, <2>1, LoadInv, CreateInv, CheckInv, ReadInv, WriteInv, ReadFailsInv, WriteFailsInv, Zenon DEF Works
  <2>2. ASSUME NEW s \in Archived, Registers(s) \/ HostStores(s) \/ ListStream(s) \/ TimerFires(s) PROVE ArchiveInv'
    BY <2>0, <2>2, RegistersInv, HostStoresInv, ListStreamInv, TimerFiresInv, Zenon
  <2>3. ASSUME NEW w \in Worker, NEW s \in Archived, TakeTask(w, s) PROVE ArchiveInv'
    BY <2>0, <2>3, TakeTaskInv, Zenon
  <2>4. ASSUME StartListening \/ NextEvent \/ RestartArchiver PROVE ArchiveInv'
    BY <2>0, <2>4, StartListeningInv, NextEventInv, RestartArchiverInv, Zenon
  <2> QED BY <1>2, <2>1, <2>2, <2>3, <2>4, Zenon DEF ArchiveNext
<1> QED BY <1>1, <1>2, Zenon

\* A stream that is behind what the archiver knows of the contract has a task, waits for one or is
\* worked on, as long as no task has failed (archiver.go:115-122, 148-151, 191-204, 340-341), for
\* every set of streams and workers, however the contract, the nodes and restarts interleave.
THEOREM ArchiveKeepsTasks == ArchiveSpec => []BehindHasTask
<1>1. ArchiveInv => BehindHasTask
  BY Zenon DEF ArchiveInv
<1> QED BY <1>1, ArchiveInitInv, ArchiveNextInv, PTL DEF ArchiveSpec

\* The archive has no more than its node and its node no more than the contract, and a worker that
\* has a stream has it alone (archiver.go:25-69, 115-123).
THEOREM ArchiveTypeCorrect == ArchiveSpec => []ArchiveTypeOK
<1>1. ArchiveInv => ArchiveTypeOK
  <2> SUFFICES ASSUME ArchiveInv PROVE ArchiveTypeOK
    OBVIOUS
  <2>1. \A s \in DOMAIN known : known[s].inContract \in Nat /\ known[s].inDb \in Nat \cup {NotCounted}
    BY DEF ArchiveInv, ArchiveTypes, ArchiveStream
  <2>2. \A s \in Archived : queue[s] \in Nat /\ timers[s] \in Nat
    BY Zenon DEF ArchiveInv, ArchiveTypes
  <2>3. OneWorker /\ CopiesOnly
    BY Zenon DEF ArchiveInv
  <2> QED BY <2>1, <2>2, <2>3 DEF OneWorker, CopiesOnly, ArchiveTypeOK
<1> QED BY <1>1, ArchiveInitInv, ArchiveNextInv, PTL DEF ArchiveSpec
==============================================================================
