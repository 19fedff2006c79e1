---------------------------- MODULE LRUCacheSpec ----------------------------
(***************************************************************************)
(* The cache of LRUCache in an environment that calls every method with     *)
(* every argument, in any order, while time passes.                         *)
(***************************************************************************)
EXTENDS LRUCache

CONSTANTS
  Value,    \* the value space V
  CallerTTL, \* the ttl arguments callers pass, non-positive ones included
  MaxClock,  \* bound: the clock stops here
  MaxFlush   \* bound: no invalidation beyond this generation

ASSUME SpecAssumption ==
  /\ IsFiniteSet(Key)
  /\ CallerTTL \subseteq Int
  /\ MaxClock \in Nat
  /\ MaxFlush \in Nat

VARIABLE
  recency   \* history: the keys by last use, the most recent first

callVars == <<items, order, gen, now, recency>>

CallsTypeOK ==
  /\ CacheTypeOK(Value)
  /\ recency \in Seq(Key)

\* History: the call used k.
Used(k) == recency' = MovedToFront(recency, k)

CallsInit == CacheInit /\ recency = <<>>

CallGet(k) ==
  /\ Get(k)
  /\ IF Live(k) THEN Used(k) ELSE UNCHANGED recency
  /\ UNCHANGED now

CallPeek(k) == Peek(k) /\ UNCHANGED <<now, recency>>

CallPut(k, v) == Put(k, v) /\ Used(k) /\ UNCHANGED now

CallPutWithTTL(k, v, ttl) ==
  PutWithTTL(k, v, ttl) /\ Used(k) /\ UNCHANGED now

CallAddIfAbsent(k, v) ==
  /\ AddIfAbsent(k, v)
  /\ IF Live(k) THEN UNCHANGED recency ELSE Used(k)
  /\ UNCHANGED now

\* g is the generation some caller read earlier.
CallPutIfGen(k, v, ttl, g) ==
  /\ PutIfGenWithTTL(k, v, ttl, g)
  /\ IF g = gen THEN Used(k) ELSE UNCHANGED recency
  /\ UNCHANGED now

CallInvalidate ==
  gen < MaxFlush /\ Invalidate /\ UNCHANGED <<now, recency>>

CallInvalidateKey(k) == InvalidateKey(k) /\ UNCHANGED <<now, recency>>

CallInvalidateWhere(K) ==
  gen < MaxFlush /\ InvalidateWhere(K) /\ UNCHANGED <<now, recency>>

ClockTick ==
  /\ now < MaxClock
  /\ now' = now + 1
  /\ UNCHANGED <<items, order, gen, recency>>

CallsNext ==
  \/ \E k \in Key :
       CallGet(k) \/ CallPeek(k) \/ CallInvalidateKey(k)
  \/ \E k \in Key, v \in Value :
       CallPut(k, v) \/ CallAddIfAbsent(k, v)
  \/ \E k \in Key, v \in Value, ttl \in CallerTTL :
       \/ CallPutWithTTL(k, v, ttl)
       \/ \E g \in 0..gen : CallPutIfGen(k, v, ttl, g)
  \/ \E K \in SUBSET Key : CallInvalidateWhere(K)
  \/ CallInvalidate
  \/ ClockTick

CallsSpec == CallsInit /\ [][CallsNext]_callVars

-----------------------------------------------------------------------------
(* Properties.                                                             *)

\* When a new key pushes another one out, the cache was full and the key that
\* leaves is the one used longest ago: Peek and a losing AddIfAbsent do not count
\* as a use, a Get hit and every write do (putLocked evicts order.Back()).
EvictsLeastRecentlyUsed ==
  [][\A k \in DOMAIN items \ DOMAIN items' :
       ~(DOMAIN items' \subseteq DOMAIN items)
       => /\ Cardinality(DOMAIN items) = MaxSize
          /\ \A j \in DOMAIN items' :
               \E p, q \in DOMAIN recency' :
                 p < q /\ recency'[p] = j /\ recency'[q] = k]_callVars

\* The cache keeps the contract its users rely on: it may forget, but an entry
\* never changes, outlives its deadline's terms or crosses an invalidation of
\* its class other than by being stored again.
Contract == INSTANCE TTLStore
              WITH content <- items, epoch <- gen, time <- now,
                   Lifetime <- {TTL} \cup (CallerTTL \cap (Nat \ {0}))

ImplementsTTLStore == Contract!StoreSpec
=============================================================================
