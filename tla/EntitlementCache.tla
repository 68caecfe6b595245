--------------------------- MODULE EntitlementCache ---------------------------
(***************************************************************************)
(* The caches in front of the entitlement contracts, with requests that    *)
(* look them up concurrently: executeUsingCache of                         *)
(* core/node/auth/auth_impl_cache.go, as IsEntitled and checkEntitlement   *)
(* of auth_impl.go stack it.  A user is allowed when all of several        *)
(* conditions hold; each is read through its own stack of caches, and one  *)
(* of them changes here while the others hold.                             *)
(***************************************************************************)
EXTENDS Integers, Sequences

CONSTANTS Lookup,        \* requests
          PositiveTTL, NegativeTTL, ManagerTTL,
          CallTime,      \* contractCallsTimeoutMs
          CacheBounds

Condition == {"member", "enabled", "channel", "space"}

CacheBound ==
  [about : Condition,    \* the condition that changes
   lookups : SUBSET Lookup,
   time : Nat, changes : Nat, faults : Nat]

ASSUME CacheAssumption ==
  /\ {PositiveTTL, NegativeTTL, ManagerTTL} \subseteq Nat \ {0} /\ CallTime \in Nat
  /\ CacheBounds \subseteq CacheBound

VARIABLES now, truth,        \* the time, and whether the condition holds on the chain
          lastTrue,          \* when the chain last said so, for each answer
          positive, negative,   \* the entry of each cache, if there is one
          lookup,            \* the requests
          changes, callFaults, cacheBound

cacheVars == <<now, truth, lastTrue, positive, negative, lookup, changes, callFaults>>

\* The caches a condition is read through: the one of IsEntitled; below it none for the
\* membership, one for "enabled" and for a channel, and two for a space.
Caches ==
  CASE cacheBound.about = "member" -> <<"answer">>
    [] cacheBound.about \in {"enabled", "channel"} -> <<"answer", "condition">>
    [] cacheBound.about = "space" -> <<"answer", "condition", "manager">>

TTL(i, v) ==
  CASE Caches[i] = "manager" -> ManagerTTL
    [] Caches[i] # "manager" /\ v -> PositiveTTL
    [] OTHER -> NegativeTTL

NoLookup == [at |-> "idle", level |-> 1, since |-> 0, value |-> FALSE]

CacheInit ==
  /\ cacheBound \in CacheBounds
  /\ now = 0 /\ truth \in BOOLEAN
  /\ lastTrue = [v \in BOOLEAN |-> IF v = truth THEN 0 ELSE -1]
  /\ positive = [i \in DOMAIN Caches |-> {}] /\ negative = [i \in DOMAIN Caches |-> {}]
  /\ lookup = [l \in Lookup |-> NoLookup]
  /\ changes = 0 /\ callFaults = 0

\* The chain changes its answer.
ChainChanges ==
  /\ changes < cacheBound.changes /\ changes' = changes + 1
  /\ truth' = ~truth /\ lastTrue' = [lastTrue EXCEPT ![~truth] = now]
  /\ UNCHANGED <<now, positive, negative, lookup, callFaults>>

\* Time passes; checkEntitlement ends within its time, and answers are given at once.
TimePasses ==
  /\ now < cacheBound.time /\ now' = now + 1
  /\ \A l \in Lookup : lookup[l].at \in {"down", "up"} => now - lookup[l].since < CallTime
  /\ lastTrue' = [lastTrue EXCEPT ![truth] = now + 1]
  /\ lookup' = [l \in Lookup |-> IF lookup[l].at = "answered" THEN NoLookup ELSE lookup[l]]
  /\ UNCHANGED <<truth, positive, negative, changes, callFaults>>

StartLookup(l) ==
  /\ lookup[l].at = "idle" /\ l \in cacheBound.lookups
  /\ lookup' = [lookup EXCEPT ![l] = [NoLookup EXCEPT !.at = "down", !.since = now]]
  /\ UNCHANGED <<now, truth, lastTrue, positive, negative, changes, callFaults>>

Fresh_Renewed(entry, ttl) == {[e EXCEPT !.time = now] : e \in {x \in entry : now - x.time < ttl}}

Fresh(entry, ttl) == {e \in entry : now - e.time < ttl}

\* A value is found or stored at level i: it is the answer, or the result of the call of the
\* level above, which is then stored there.
Result(l, i, v) ==
  lookup' = [lookup EXCEPT ![l] =
               IF i = 1 THEN [NoLookup EXCEPT !.at = "answered", !.value = v]
               ELSE [@ EXCEPT !.at = "up", !.level = i - 1, !.value = v]]

\* The next cache is looked up, the positive entry first; an entry that is stale is removed.
\* On a miss the level below is called, or the chain.
LookUp(l) ==
  LET i == lookup[l].level
  IN /\ lookup[l].at = "down" /\ i <= Len(Caches)
     /\ positive' = [positive EXCEPT ![i] = Fresh(@, TTL(i, TRUE))]
     /\ IF positive'[i] # {}
        THEN Result(l, i, (CHOOSE e \in positive'[i] : TRUE).value) /\ UNCHANGED negative
        ELSE /\ negative' = [negative EXCEPT ![i] = Fresh(@, TTL(i, FALSE))]
             /\ IF negative'[i] # {}
                THEN Result(l, i, FALSE)
                ELSE lookup' = [lookup EXCEPT ![l].level = i + 1]
     /\ UNCHANGED <<now, truth, lastTrue, changes, callFaults>>

ChainAnswers(l) ==
  /\ lookup[l].at = "down" /\ lookup[l].level > Len(Caches)
  /\ Result(l, lookup[l].level, truth)
  /\ UNCHANGED <<now, truth, lastTrue, positive, negative, changes, callFaults>>

\* The result of a call is stored with the time at which the call has ended.  The manager's
\* result is the rules of the space, always an entry of the positive cache.
Store(l) ==
  LET i == lookup[l].level   v == lookup[l].value   entry == {[time |-> now, value |-> v]}
  IN /\ lookup[l].at = "up"
     /\ IF v \/ Caches[i] = "manager"
        THEN positive' = [positive EXCEPT ![i] = entry] /\ UNCHANGED negative
        ELSE negative' = [negative EXCEPT ![i] = entry] /\ UNCHANGED positive
     /\ Result(l, i, v)
     /\ UNCHANGED <<now, truth, lastTrue, changes, callFaults>>

\* A call to the chain fails, or the time of checkEntitlement is over, and nothing is stored
\* below; checkEntitlement takes a failed check of "enabled" or of the membership as a no.
CallFails(l) ==
  /\ lookup[l].at = "down" /\ lookup[l].level > Len(Caches)
  /\ callFaults < cacheBound.faults /\ callFaults' = callFaults + 1
  /\ lookup' = [lookup EXCEPT ![l] =
                  IF cacheBound.about \in {"member", "enabled"}
                  THEN [@ EXCEPT !.at = "up", !.level = 1, !.value = FALSE]
                  ELSE NoLookup]
  /\ UNCHANGED <<now, truth, lastTrue, positive, negative, changes>>

\* A cache drops an entry, to make room or because another request has found an older entry
\* stale and removes the key.
Evict ==
  /\ \E i \in DOMAIN Caches :
       \/ positive[i] # {} /\ positive' = [positive EXCEPT ![i] = {}] /\ UNCHANGED negative
       \/ negative[i] # {} /\ negative' = [negative EXCEPT ![i] = {}] /\ UNCHANGED positive
  /\ UNCHANGED <<now, truth, lastTrue, lookup, changes, callFaults>>

CacheNext ==
  /\ UNCHANGED cacheBound
  /\ \/ ChainChanges \/ TimePasses \/ Evict
     \/ \E l \in Lookup : \/ StartLookup(l) \/ LookUp(l) \/ ChainAnswers(l)
                          \/ Store(l) \/ CallFails(l)

(***************************************************************************)
(* Properties                                                              *)
(***************************************************************************)

\* Each cache of the stack may keep a value for its time to live, and the call that fetched
\* it may have taken its time.  No stack has more than three.
AgeIn(i, v) == IF i \in DOMAIN Caches THEN CallTime + TTL(i, v) - 1 ELSE 0

MaxAge(v) == AgeIn(1, v) + AgeIn(2, v) + AgeIn(3, v)

\* Whatever calls end in whatever order, an answer is one the chain has given not longer ago
\* than the caches of the stack may keep it: a request that is answered from a cache does not
\* prolong the entry ("We want to return the value only if the cache is fresh",
\* auth_impl_cache.go:16-18, 142-189).  A no may come from a failed call instead.
AnswersFresh ==
  \A l \in Lookup :
    lookup[l].at = "answered" /\ (lookup[l].value \/ callFaults = 0)
      => now - lastTrue[lookup[l].value] <= MaxAge(lookup[l].value)

(***************************************************************************)
(* The inductive invariant of the proofs: how old a value may be in each   *)
(* cache, and in a request on its way up.                                  *)
(***************************************************************************)
CacheSpec == CacheInit /\ [][CacheNext]_<<cacheVars, cacheBound>>

\* What the caches from level i on may add to the age of a value.
AgeFrom(i, v) ==
  (IF i <= 1 THEN AgeIn(1, v) ELSE 0) + (IF i <= 2 THEN AgeIn(2, v) ELSE 0) + (IF i <= 3 THEN AgeIn(3, v) ELSE 0)

CacheEntry == [time : Nat, value : BOOLEAN]

CacheTypes ==
  /\ cacheBound \in CacheBound /\ now \in Nat /\ truth \in BOOLEAN /\ callFaults \in Nat
  /\ lastTrue \in [BOOLEAN -> Int] /\ lastTrue[truth] = now /\ \A v \in BOOLEAN : lastTrue[v] <= now
  /\ positive \in [DOMAIN Caches -> SUBSET CacheEntry] /\ negative \in [DOMAIN Caches -> SUBSET CacheEntry]
  /\ lookup \in [Lookup -> [at : {"idle", "down", "up", "answered"}, level : Nat, since : Nat, value : BOOLEAN]]

LookupInTime(l) ==
  /\ lookup[l].at \in {"down", "up"} => lookup[l].since <= now /\ now - lookup[l].since <= CallTime
  /\ lookup[l].at = "down" => lookup[l].level \in 1 .. Len(Caches) + 1
  /\ lookup[l].at = "up" => lookup[l].level \in DOMAIN Caches

\* A failed call may be the reason for a no.
FromChain(v) == v \/ callFaults = 0

EntryFresh(i, e) == FromChain(e.value) => e.time - lastTrue[e.value] <= CallTime + AgeFrom(i + 1, e.value)

EntriesFresh ==
  \A i \in DOMAIN Caches :
    /\ \A e \in positive[i] : EntryFresh(i, e) /\ (e.value \/ Caches[i] = "manager")
    /\ \A e \in negative[i] : EntryFresh(i, e) /\ ~e.value

\* A request has got its value after it has begun.
LookupFresh(l) ==
  lookup[l].at = "up" /\ FromChain(lookup[l].value)
    => lookup[l].since - lastTrue[lookup[l].value] <= AgeFrom(lookup[l].level + 1, lookup[l].value)

CacheInv ==
  /\ CacheTypes /\ EntriesFresh /\ AnswersFresh
  /\ \A l \in Lookup : LookupInTime(l) /\ LookupFresh(l)
=============================================================================
