------------------------------ MODULE LRUCache ------------------------------
(***************************************************************************)
(* internal/lrucache: the bounded, TTL-expiring, LRU-evicting cache behind  *)
(* the authz decision cache, the introspection cache, the DPoP replay       *)
(* cache, the subject cache and the Kratos whoami cache.                    *)
(*                                                                         *)
(* Every exported method holds c.mu for its whole body, so every method is  *)
(* one action.  What a method returns is the state predicate Live, read in  *)
(* the state the action starts from.                                        *)
(***************************************************************************)
EXTENDS KeyList

CONSTANTS
  Key,      \* the key space K
  MaxSize,  \* c.maxSize, after New replaced a non-positive value
  TTL       \* c.ttl, the default time to live, after New replaced a non-positive value

ASSUME CacheAssumption ==
  /\ MaxSize \in Nat \ {0}
  /\ TTL \in Nat \ {0}

VARIABLES
  items,  \* c.items: key -> [value, expiresAt]
  order,  \* c.order: the keys, front = most recently used
  gen,    \* c.gen: the invalidation generation
  now     \* the clock c.now() reads

cacheVars == <<items, order, gen>>

Entry(Value) == [value : Value, expiresAt : Nat]

CacheTypeOK(Value) ==
  /\ DOMAIN items \subseteq Key
  /\ items \in [DOMAIN items -> Entry(Value)]
  /\ order \in Seq(Key)
  /\ gen \in Nat
  /\ now \in Nat

\* New: an empty cache at generation zero.
CacheInit ==
  /\ items = [k \in {} |-> k]
  /\ order = <<>>
  /\ gen = 0
  /\ now = 0

-----------------------------------------------------------------------------
(* The list and the map.                                                   *)

\* Mutant: an entry is dead at its deadline, not after it.
LiveStrict(k) == k \in DOMAIN items /\ now < items[k].expiresAt

\* A method finds key k: present and now is not after its deadline.
Live(k) == k \in DOMAIN items /\ ~(now > items[k].expiresAt)

\* Mutant: the map keeps the key.
DropFromListOnly(k) == order' = Without(order, k) /\ UNCHANGED items

\* Remove the element of k from the list and k from the map.
Drop(k) ==
  /\ items' = Restrict(items, DOMAIN items \ {k})
  /\ order' = Without(order, k)

-----------------------------------------------------------------------------
(* The methods.                                                            *)

\* Peek: an expired entry is evicted, a hit leaves the recency alone.
Peek(k) ==
  /\ \/ /\ k \notin DOMAIN items \/ Live(k)
        /\ UNCHANGED <<items, order>>
     \/ /\ k \in DOMAIN items /\ ~Live(k)
        /\ Drop(k)
  /\ UNCHANGED gen

\* Get: as Peek, but a hit moves the key to the front.
Get(k) ==
  /\ \/ /\ k \notin DOMAIN items
        /\ UNCHANGED <<items, order>>
     \/ /\ k \in DOMAIN items /\ ~Live(k)
        /\ Drop(k)
     \/ /\ Live(k)
        /\ order' = MovedToFront(order, k)
        /\ UNCHANGED items
  /\ UNCHANGED gen

\* putLocked: overwrite and move to the front, or push to the front and, when
\* the map is over capacity, evict the back of the list.
putLocked(k, v, ttl) ==
  LET e     == [value |-> v, expiresAt |-> now + ttl]
      grown == [j \in DOMAIN items \cup {k} |-> IF j = k THEN e ELSE items[j]]
      list  == <<k>> \o order
      back  == list[Len(list)]
  IN  \/ /\ k \in DOMAIN items
         /\ items' = [items EXCEPT ![k] = e]
         /\ order' = MovedToFront(order, k)
      \/ /\ k \notin DOMAIN items
         /\ Cardinality(DOMAIN grown) <= MaxSize
         /\ items' = grown
         /\ order' = list
      \/ /\ k \notin DOMAIN items
         /\ Cardinality(DOMAIN grown) > MaxSize
         /\ items' = Restrict(grown, DOMAIN grown \ {back})
         /\ order' = SubSeq(list, 1, Len(list) - 1)

Put(k, v) == putLocked(k, v, TTL) /\ UNCHANGED gen

\* Mutant: a non-positive ttl is taken as it is.
PutWithAnyTTL(k, v, ttl) == putLocked(k, v, ttl) /\ UNCHANGED gen

\* A non-positive ttl falls back to the default.
PutWithTTL(k, v, ttl) ==
  /\ putLocked(k, v, IF ttl <= 0 THEN TTL ELSE ttl)
  /\ UNCHANGED gen

\* AddIfAbsent: a live entry wins and is not touched.  An expired entry is
\* evicted and k pushed to the front, which leaves the map and the list as an
\* overwrite of the expired entry does (the size does not change, so nothing is
\* evicted).
AddIfAbsent(k, v) ==
  /\ \/ Live(k) /\ UNCHANGED <<items, order>>
     \/ ~Live(k) /\ putLocked(k, v, TTL)
  /\ UNCHANGED gen

\* Mutant: the snapshot is not compared.
PutWhateverGen(k, v, ttl, g) ==
  putLocked(k, v, IF ttl <= 0 THEN TTL ELSE ttl) /\ UNCHANGED gen

\* PutIfGen / PutIfGenWithTTL: the write is dropped when an invalidation moved
\* the generation since the caller's snapshot g.
PutIfGenWithTTL(k, v, ttl, g) ==
  /\ \/ gen # g /\ UNCHANGED <<items, order>>
     \/ gen = g /\ putLocked(k, v, IF ttl <= 0 THEN TTL ELSE ttl)
  /\ UNCHANGED gen

PutIfGen(k, v, g) == PutIfGenWithTTL(k, v, TTL, g)

\* Mutant: the flush does not move the generation.
FlushOnly == items' = [k \in {} |-> k] /\ order' = <<>> /\ UNCHANGED gen

\* Invalidate: flush everything, move the generation.
Invalidate ==
  /\ items' = [k \in {} |-> k]
  /\ order' = <<>>
  /\ gen' = gen + 1

\* InvalidateKey: drop one key; the generation stays.
InvalidateKey(k) ==
  /\ \/ k \in DOMAIN items /\ Drop(k)
     \/ k \notin DOMAIN items /\ UNCHANGED <<items, order>>
  /\ UNCHANGED gen

\* Mutant: the generation moves only when something was dropped.
InvalidateIfAny(K) ==
  /\ items' = Restrict(items, DOMAIN items \ K)
  /\ order' \in Kept(order, K)
  /\ gen' = IF DOMAIN items \cap K = {} THEN gen ELSE gen + 1

\* InvalidateWhere: drop the keys that satisfy the predicate (the set K), and
\* move the generation even when none does.
InvalidateWhere(K) ==
  /\ items' = Restrict(items, DOMAIN items \ K)
  /\ order' \in Kept(order, K)
  /\ gen' = gen + 1

\* The number InvalidateWhere(K) returns.
Removed(K) == Cardinality(DOMAIN items \cap K)

\* Len counts the live entries only.
LiveLen == Cardinality({k \in DOMAIN items : Live(k)})

-----------------------------------------------------------------------------
\* The list enumerates the keys of the map, each once, and there are at most
\* MaxSize of them: no method leaves an element of the list without its map
\* entry (an eviction would then delete nothing and the map outgrow maxSize) or
\* a map entry without its element (it could never be evicted).
ListMatchesMap ==
  /\ IsInjective(order)
  /\ Range(order) = DOMAIN items
  /\ Cardinality(DOMAIN items) <= MaxSize
=============================================================================
