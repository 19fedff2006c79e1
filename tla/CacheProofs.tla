---------------------------- MODULE CacheProofs -----------------------------
(***************************************************************************)
(* Proofs about the caches that are invalidated by generation: LRUCache    *)
(* under any sequence of calls (LRUCacheSpec), and the authorization       *)
(* decision cache built on it (DecisionCache). For any keys and values, any*)
(* capacity and time to live, and any number of requests in flight,        *)
(* subjects and grant changes.                                             *)
(***************************************************************************)
EXTENDS LRUCacheSpec, DecisionCache, LRUCacheProofs

-----------------------------------------------------------------------------
(***************************************************************************)
(* The cache under any sequence of calls: it is well typed, its list and   *)
(* its map agree, it is never over capacity, it gives up the entry that was*)
(* used least recently, and it implements the store of TTLStore.           *)
(***************************************************************************)

\* What every step relies on.
CacheInv ==
  /\ Table(Value)
  /\ gen \in Nat
  /\ now \in Nat
  /\ recency \in Seq(Key)

\* A step of the cache as its users see it: the clock and the generation aside,
\* either nothing is stored, or one entry is, with a deadline counted from now.
Visible ==
  \/ Shrinks /\ UNCHANGED <<gen, now>>
  \/ \E k \in Key, v \in Value, ttl \in {TTL} \cup (CallerTTL \cap (Nat \ {0})) :
       /\ Stores(k, [value |-> v, expiresAt |-> now + ttl])
       /\ k \in DOMAIN items'
       /\ items'[k] = [value |-> v, expiresAt |-> now + ttl]
       /\ UNCHANGED <<gen, now>>
  \/ /\ \E K \in SUBSET Key : items' = Restrict(items, DOMAIN items \ K)
     /\ gen' = gen + 1
     /\ UNCHANGED now
  \/ now' = now + 1 /\ UNCHANGED <<items, gen>>

\* The history keeps its type.
LEMMA UsedType ==
  ASSUME NEW k \in Key, recency \in Seq(Key), Used(k)
  PROVE  recency' \in Seq(Key)
<1>1. Without(recency, k) \in Seq(Key)
  BY WithoutType
<1> QED
  BY <1>1 DEF Used, MovedToFront

\* A write with a ttl argument, whatever its sign.
LEMMA PutVisible ==
  ASSUME NEW k \in Key, NEW v \in Value,
         NEW ttl \in {TTL} \cup (CallerTTL \cap (Nat \ {0})),
         CacheInv, putLocked(k, v, ttl), UNCHANGED <<gen, now>>
  PROVE  Table(Value)' /\ Visible
<1>1. ttl \in Nat /\ now \in Nat
  BY CacheAssumption DEF CacheInv
<1>2. /\ Table(Value)'
      /\ Stores(k, [value |-> v, expiresAt |-> now + ttl])
      /\ k \in DOMAIN items'
      /\ items'[k] = [value |-> v, expiresAt |-> now + ttl]
  BY <1>1, PutTable DEF CacheInv
<1> QED
  BY <1>2 DEF Visible

\* Every call keeps the cache well formed, and is one of the visible steps.
LEMMA StepVisible ==
  ASSUME CacheInv, CallsNext
  PROVE  CacheInv' /\ Visible
<1> DEFINE L == {TTL} \cup (CallerTTL \cap (Nat \ {0}))
           t(n) == IF n <= 0 THEN TTL ELSE n
<1>t. ASSUME NEW n \in CallerTTL PROVE t(n) \in L
  BY SpecAssumption
<1> HIDE DEF t
<1>0. /\ Table(Value) /\ gen \in Nat /\ now \in Nat /\ recency \in Seq(Key)
  BY DEF CacheInv
<1>same. ASSUME UNCHANGED <<items, order>> PROVE Table(Value)' /\ Shrinks
  BY <1>0, <1>same DEF Table, ListMatchesMap, Shrinks
<1>1. ASSUME NEW k \in Key, CallGet(k) PROVE CacheInv' /\ Visible
  <2>1. Table(Value)' /\ Shrinks /\ gen' = gen /\ now' = now
    BY <1>0, <1>1, GetTable DEF CallGet
  <2>2. recency' \in Seq(Key)
    BY <1>0, <1>1, UsedType DEF CallGet
  <2> QED
    BY <1>0, <2>1, <2>2 DEF CacheInv, Visible
<1>2. ASSUME NEW k \in Key, CallPeek(k) PROVE CacheInv' /\ Visible
  <2>1. Table(Value)' /\ Shrinks /\ gen' = gen /\ UNCHANGED <<now, recency>>
    BY <1>0, <1>2, PeekTable DEF CallPeek
  <2> QED
    BY <1>0, <2>1 DEF CacheInv, Visible
<1>3. ASSUME NEW k \in Key, CallInvalidateKey(k) PROVE CacheInv' /\ Visible
  <2>1. Table(Value)' /\ Shrinks
    BY <1>0, <1>3, <1>same, DropTable DEF CallInvalidateKey, InvalidateKey
  <2>2. UNCHANGED <<gen, now, recency>>
    BY <1>3 DEF CallInvalidateKey, InvalidateKey
  <2> QED
    BY <1>0, <2>1, <2>2 DEF CacheInv, Visible
<1>4. ASSUME NEW k \in Key, NEW v \in Value, CallPut(k, v)
      PROVE  CacheInv' /\ Visible
  <2>1. putLocked(k, v, TTL) /\ Used(k) /\ UNCHANGED <<gen, now>>
    BY <1>4 DEF CallPut, Put
  <2>2. recency' \in Seq(Key)
    BY <1>0, <2>1, UsedType
  <2>3. Table(Value)' /\ Visible
    BY <2>1, PutVisible
  <2> QED
    BY <1>0, <2>1, <2>2, <2>3 DEF CacheInv
<1>5. ASSUME NEW k \in Key, NEW v \in Value, CallAddIfAbsent(k, v)
      PROVE  CacheInv' /\ Visible
  <2>1. UNCHANGED <<gen, now>>
    BY <1>5 DEF CallAddIfAbsent, AddIfAbsent
  <2>2. CASE Live(k) /\ UNCHANGED <<items, order>>
    <3>1. Table(Value)' /\ Shrinks /\ recency' = recency
      BY <1>5, <1>same, <2>2 DEF CallAddIfAbsent
    <3> QED
      BY <1>0, <2>1, <3>1 DEF CacheInv, Visible
  <2>3. CASE ~Live(k) /\ putLocked(k, v, TTL)
    <3>1. Table(Value)' /\ Visible
      BY <2>1, <2>3, PutVisible
    <3>2. recency' \in Seq(Key)
      BY <1>0, <1>5, <2>3, UsedType DEF CallAddIfAbsent
    <3> QED
      BY <1>0, <2>1, <3>1, <3>2 DEF CacheInv
  <2> QED
    BY <1>5, <2>2, <2>3 DEF CallAddIfAbsent, AddIfAbsent
<1>6. ASSUME NEW k \in Key, NEW v \in Value, NEW n \in CallerTTL,
             CallPutWithTTL(k, v, n)
      PROVE  CacheInv' /\ Visible
  <2>1. putLocked(k, v, t(n)) /\ Used(k) /\ UNCHANGED <<gen, now>>
    BY <1>6 DEF CallPutWithTTL, PutWithTTL, t
  <2>2. recency' \in Seq(Key)
    BY <1>0, <2>1, UsedType
  <2>3. Table(Value)' /\ Visible
    BY <1>t, <2>1, PutVisible
  <2> QED
    BY <1>0, <2>1, <2>2, <2>3 DEF CacheInv
<1>7. ASSUME NEW k \in Key, NEW v \in Value, NEW n \in CallerTTL, NEW g \in 0..gen,
             CallPutIfGen(k, v, n, g)
      PROVE  CacheInv' /\ Visible
  <2>1. UNCHANGED <<gen, now>>
    BY <1>7 DEF CallPutIfGen, PutIfGenWithTTL
  <2>2. CASE gen # g /\ UNCHANGED <<items, order>>
    <3>1. Table(Value)' /\ Shrinks /\ recency' = recency
      BY <1>7, <1>same, <2>2 DEF CallPutIfGen
    <3> QED
      BY <1>0, <2>1, <3>1 DEF CacheInv, Visible
  <2>3. CASE gen = g /\ putLocked(k, v, t(n))
    <3>1. Table(Value)' /\ Visible
      BY <1>t, <2>1, <2>3, PutVisible
    <3>2. recency' \in Seq(Key)
      BY <1>0, <1>7, <2>3, UsedType DEF CallPutIfGen
    <3> QED
      BY <1>0, <2>1, <3>1, <3>2 DEF CacheInv
  <2> QED
    BY <1>7, <2>2, <2>3 DEF CallPutIfGen, PutIfGenWithTTL, t
<1>8. ASSUME NEW K \in SUBSET Key, CallInvalidateWhere(K) PROVE CacheInv' /\ Visible
  <2>1. InvalidateWhere(K) /\ UNCHANGED <<now, recency>>
    BY <1>8 DEF CallInvalidateWhere
  <2>2. Table(Value)' /\ gen' = gen + 1
    BY <1>0, <2>1, InvalidateWhereTable
  <2>3. items' = Restrict(items, DOMAIN items \ K)
    BY <2>1 DEF InvalidateWhere
  <2>4. Visible
    BY <2>1, <2>2, <2>3 DEF Visible
  <2> QED
    BY <1>0, <2>1, <2>2, <2>4 DEF CacheInv
<1>9. ASSUME CallInvalidate PROVE CacheInv' /\ Visible
  <2>1. Invalidate /\ UNCHANGED <<now, recency>>
    BY <1>9 DEF CallInvalidate
  <2>2. Table(Value)' /\ gen' = gen + 1
    BY <2>1, InvalidateTable
  <2>3. DOMAIN items \ Key = {}
    BY <1>0 DEF Table
  <2>4. items' = Restrict(items, DOMAIN items \ Key)
    BY <2>1, <2>3 DEF Invalidate, Restrict
  <2>5. Visible
    BY <2>1, <2>2, <2>4 DEF Visible
  <2> QED
    BY <1>0, <2>1, <2>2, <2>5 DEF CacheInv
<1>10. ASSUME ClockTick PROVE CacheInv' /\ Visible
  <2>1. UNCHANGED <<items, order, gen, recency>> /\ now' = now + 1
    BY <1>10 DEF ClockTick
  <2> QED
    BY <1>0, <1>same, <2>1 DEF CacheInv, Visible
<1> QED
  BY <1>1, <1>2, <1>3, <1>4, <1>5, <1>6, <1>7, <1>8, <1>9, <1>10 DEF CallsNext

\* The invariant holds of a new cache.
LEMMA InitInv == CallsInit => CacheInv
<1> SUFFICES ASSUME CallsInit PROVE CacheInv
  OBVIOUS
<1>1. Table(Value)
  BY EmptyTable DEF CallsInit
<1> QED
  BY <1>1 DEF CallsInit, CacheInit, CacheInv

\* A stuttering step preserves it.
LEMMA StutterInv == CacheInv /\ UNCHANGED callVars => CacheInv'
  BY DEF CacheInv, Table, ListMatchesMap, callVars

\* The inductive invariant of the cache: types, and the list agrees with the map.
THEOREM CacheInvHolds == CallsSpec => []CacheInv
<1>1. CacheInv /\ [CallsNext]_callVars => CacheInv'
  BY StepVisible, StutterInv
<1> QED
  BY <1>1, InitInv, PTL DEF CallsSpec

\* Every state the cache reaches is well typed, whatever is called.
THEOREM CacheTypeCorrect == CallsSpec => []CallsTypeOK
<1>1. CacheInv => CallsTypeOK
  BY DEF CacheInv, CallsTypeOK, CacheTypeOK, Table
<1> QED
  BY <1>1, CacheInvHolds, PTL

\* The list of every reachable cache enumerates its map, and the map holds at
\* most maxSize entries: putLocked's eviction always finds a victim and always
\* restores the bound, also after Get, Peek or AddIfAbsent dropped expired
\* entries and after a partial invalidation.
THEOREM ListAndMapAgree == CallsSpec => []ListMatchesMap
<1>1. CacheInv => ListMatchesMap
  BY DEF CacheInv, Table
<1> QED
  BY <1>1, CacheInvHolds, PTL

-----------------------------------------------------------------------------
(* Eviction.                                                               *)

\* The list has the keys in the order of their last use.
InOrder ==
  /\ IsInjective(recency)
  /\ Range(order) \subseteq Range(recency)
  /\ \A x, y : Before(order, x, y) => Before(recency, x, y)

\* What EvictsLeastRecentlyUsed says of one step.
EvictsLast ==
  \A k \in DOMAIN items \ DOMAIN items' :
    ~(DOMAIN items' \subseteq DOMAIN items)
    => /\ Cardinality(DOMAIN items) = MaxSize
       /\ \A j \in DOMAIN items' : Before(recency', j, k)

\* A call that drops keys, or none, and is not a use.
LEMMA UnusedOrder ==
  ASSUME InOrder, UNCHANGED recency, DOMAIN items' \subseteq DOMAIN items,
         Range(order') \subseteq Range(order),
         \A x, y : Before(order', x, y) => Before(order, x, y)
  PROVE  InOrder' /\ EvictsLast
BY DEF InOrder, EvictsLast

\* A call that uses k and puts it at the front of the list.
LEMMA UsedOrder ==
  ASSUME InOrder, NEW k \in Key, recency \in Seq(Key), Used(k),
         Range(order') \subseteq Range(order) \cup {k},
         \A x, y : Before(order', x, y) =>
            \/ Before(order, x, y) /\ x # k /\ y # k
            \/ x = k /\ y \in Range(order) \ {k}
  PROVE  /\ InOrder'
         /\ \A x, y : Before(recency', x, y) <=>
               \/ Before(recency, x, y) /\ x # k /\ y # k
               \/ x = k /\ y \in Range(recency) \ {k}
<1>1. /\ recency' \in Seq(Key) /\ IsInjective(recency')
      /\ Range(recency') = Range(recency) \cup {k}
  BY MovedToFrontElements DEF InOrder, Used
<1>2. \A x, y : Before(recency', x, y) <=>
         \/ Before(recency, x, y) /\ x # k /\ y # k
         \/ x = k /\ y \in Range(recency) \ {k}
  BY MovedToFrontOrder DEF InOrder, Used
<1> QED
  BY <1>1, <1>2 DEF InOrder

\* A write.
LEMMA PutEvictsLast ==
  ASSUME CacheInv, InOrder, NEW k \in Key, NEW v \in Value, NEW ttl \in Nat,
         putLocked(k, v, ttl), Used(k)
  PROVE  InOrder' /\ EvictsLast
<1>1. /\ \A x, y : Before(order', x, y) =>
            \/ Before(order, x, y) /\ x # k /\ y # k
            \/ x = k /\ y \in Range(order) \ {k}
      /\ \A z \in DOMAIN items \ DOMAIN items' :
           /\ z \in Range(order) \ {k}
           /\ Cardinality(DOMAIN items) = MaxSize
           /\ \A x \in DOMAIN items' : x = k \/ Before(order, x, z)
  BY PutOrder DEF CacheInv
<1>2. Table(Value)' /\ DOMAIN items' \subseteq DOMAIN items \cup {k}
  BY PutTable DEF CacheInv
<1>3. Range(order') = DOMAIN items' /\ Range(order) = DOMAIN items
  BY <1>2 DEF CacheInv, Table, ListMatchesMap
<1>4. Range(order') \subseteq Range(order) \cup {k} /\ recency \in Seq(Key)
  BY <1>2, <1>3 DEF CacheInv
<1>5. /\ InOrder'
      /\ \A x, y : Before(recency', x, y) <=>
            \/ Before(recency, x, y) /\ x # k /\ y # k
            \/ x = k /\ y \in Range(recency) \ {k}
  BY <1>1, <1>4, UsedOrder
<1>6. ASSUME NEW z \in DOMAIN items \ DOMAIN items', NEW x \in DOMAIN items'
      PROVE  Before(recency', x, z)
  <2>1. z \in Range(recency) \ {k} /\ (x = k \/ Before(recency, x, z))
    BY <1>1 DEF InOrder
  <2> QED BY <1>5, <2>1
<1> QED
  BY <1>1, <1>5, <1>6 DEF EvictsLast

\* Every call.
LEMMA StepEvictsLast ==
  ASSUME CacheInv, InOrder, CallsNext
  PROVE  InOrder' /\ EvictsLast
<1>0. /\ order \in Seq(Key) /\ IsInjective(order) /\ recency \in Seq(Key)
      /\ Range(order) = DOMAIN items /\ DOMAIN items \subseteq Key
  BY DEF CacheInv, Table, ListMatchesMap
<1>same. ASSUME UNCHANGED <<items, order, recency>> PROVE InOrder' /\ EvictsLast
  BY <1>same, UnusedOrder
<1>drop. ASSUME NEW k, Drop(k), UNCHANGED recency PROVE InOrder' /\ EvictsLast
  <2>1. /\ Range(order') \subseteq Range(order)
        /\ \A x, y : Before(order', x, y) => Before(order, x, y)
    BY <1>0, <1>drop, WithoutElements, WithoutOrder DEF Drop
  <2>2. DOMAIN items' \subseteq DOMAIN items
    BY <1>drop DEF Drop, Restrict
  <2> QED BY <1>drop, <2>1, <2>2, UnusedOrder
<1>ttl. ASSUME NEW n \in CallerTTL PROVE (IF n <= 0 THEN TTL ELSE n) \in Nat
  BY SpecAssumption, CacheAssumption
<1>1. ASSUME NEW k \in Key, CallGet(k) PROVE InOrder' /\ EvictsLast
  <2>1. CASE Live(k)
    <3>1. k \in DOMAIN items /\ order' = MovedToFront(order, k) /\ items' = items /\ Used(k)
      BY <1>1, <2>1 DEF CallGet, Get, Live
    <3>2. Range(order') \subseteq Range(order) \cup {k}
      BY <1>0, <3>1, MovedToFrontElements
    <3>3. \A x, y : Before(order', x, y) =>
             \/ Before(order, x, y) /\ x # k /\ y # k
             \/ x = k /\ y \in Range(order) \ {k}
      BY <1>0, <3>1, MovedToFrontOrder
    <3>4. InOrder'
      BY <1>0, <3>1, <3>2, <3>3, UsedOrder
    <3> QED BY <3>1, <3>4 DEF EvictsLast
  <2>2. CASE ~Live(k)
    BY <1>1, <1>same, <1>drop, <2>2 DEF CallGet, Get
  <2> QED BY <2>1, <2>2
<1>2. ASSUME NEW k \in Key, CallPeek(k) PROVE InOrder' /\ EvictsLast
  BY <1>2, <1>same, <1>drop DEF CallPeek, Peek
<1>3. ASSUME NEW k \in Key, CallInvalidateKey(k) PROVE InOrder' /\ EvictsLast
  BY <1>3, <1>same, <1>drop DEF CallInvalidateKey, InvalidateKey
<1>4. ASSUME NEW k \in Key, NEW v \in Value, CallPut(k, v) PROVE InOrder' /\ EvictsLast
  BY <1>4, PutEvictsLast, CacheAssumption DEF CallPut, Put
<1>5. ASSUME NEW k \in Key, NEW v \in Value, CallAddIfAbsent(k, v)
      PROVE  InOrder' /\ EvictsLast
  BY <1>5, <1>same, PutEvictsLast, CacheAssumption DEF CallAddIfAbsent, AddIfAbsent
<1>6. ASSUME NEW k \in Key, NEW v \in Value, NEW n \in CallerTTL,
             CallPutWithTTL(k, v, n)
      PROVE  InOrder' /\ EvictsLast
  BY <1>6, <1>ttl, PutEvictsLast DEF CallPutWithTTL, PutWithTTL
<1>7. ASSUME NEW k \in Key, NEW v \in Value, NEW n \in CallerTTL, NEW g \in 0..gen,
             CallPutIfGen(k, v, n, g)
      PROVE  InOrder' /\ EvictsLast
  BY <1>7, <1>same, <1>ttl, PutEvictsLast DEF CallPutIfGen, PutIfGenWithTTL
<1>8. ASSUME NEW K \in SUBSET Key, CallInvalidateWhere(K) PROVE InOrder' /\ EvictsLast
  <2>1. /\ order' \in Kept(order, K) /\ UNCHANGED recency
        /\ items' = Restrict(items, DOMAIN items \ K)
    BY <1>8 DEF CallInvalidateWhere, InvalidateWhere
  <2>2. Range(order') \subseteq Range(order)
    BY <2>1 DEF Kept
  <2>3. \A x, y : Before(order', x, y) => Before(order, x, y)
    <3> SUFFICES ASSUME NEW x, NEW y, NEW i \in DOMAIN order', NEW j \in DOMAIN order',
                        i < j, order'[i] = x, order'[j] = y
                 PROVE  Before(order, x, y)
      BY DEF Before
    <3>1. \A m, n \in DOMAIN order' :
            m < n => \E p, q \in DOMAIN order :
                       p < q /\ order[p] = order'[m] /\ order[q] = order'[n]
      BY <2>1 DEF Kept
    <3> QED BY <3>1 DEF Before
  <2>4. DOMAIN items' \subseteq DOMAIN items
    BY <2>1 DEF Restrict
  <2> QED BY <2>1, <2>2, <2>3, <2>4, UnusedOrder
<1>9. ASSUME CallInvalidate PROVE InOrder' /\ EvictsLast
  <2>1. order' = <<>> /\ UNCHANGED recency /\ DOMAIN items' = {}
    BY <1>9 DEF CallInvalidate, Invalidate
  <2>2. Range(order') = {} /\ \A x, y : ~Before(order', x, y)
    BY <2>1 DEF Range, Before
  <2> QED BY <2>1, <2>2, UnusedOrder
<1>10. ASSUME ClockTick PROVE InOrder' /\ EvictsLast
  BY <1>10, <1>same DEF ClockTick
<1> QED
  BY <1>1, <1>2, <1>3, <1>4, <1>5, <1>6, <1>7, <1>8, <1>9, <1>10 DEF CallsNext

\* A write that pushes a key out of a full cache pushes out the one whose last use, by
\* a Get hit or a write, is the oldest.
THEOREM LeastRecentlyUsedIsEvicted == CallsSpec => EvictsLeastRecentlyUsed
<1>1. CallsInit => InOrder
  BY DEF CallsInit, CacheInit, InOrder, IsInjective, Range, Before
<1>2. CacheInv /\ InOrder /\ [CallsNext]_callVars => InOrder'
  <2>1. InOrder /\ UNCHANGED callVars => InOrder'
    BY DEF InOrder, callVars
  <2> QED BY <2>1, StepEvictsLast
<1>3. CallsSpec => []InOrder
  BY <1>1, <1>2, CacheInvHolds, PTL DEF CallsSpec
<1>4. ASSUME CacheInv, InOrder, [CallsNext]_callVars
      PROVE  [\A k \in DOMAIN items \ DOMAIN items' :
                ~(DOMAIN items' \subseteq DOMAIN items)
                => /\ Cardinality(DOMAIN items) = MaxSize
                   /\ \A j \in DOMAIN items' :
                        \E p, q \in DOMAIN recency' :
                          p < q /\ recency'[p] = j /\ recency'[q] = k]_callVars
  BY <1>4, StepEvictsLast DEF EvictsLast, Before
<1> QED
  BY <1>3, <1>4, CacheInvHolds, PTL DEF CallsSpec, EvictsLeastRecentlyUsed

-----------------------------------------------------------------------------
(* Refinement.                                                             *)

\* A visible step is a step of the contract.
LEMMA VisibleImplements ==
  ASSUME CacheInv, CacheInv', Visible
  PROVE  [Contract!StoreNext]_(Contract!storeVars)
<1> DEFINE L == {TTL} \cup (CallerTTL \cap (Nat \ {0}))
<1>0. /\ items' \in [DOMAIN items' -> Entry(Value)] /\ DOMAIN items \subseteq Key
      /\ DOMAIN items' \subseteq Key
      /\ IsFiniteSet(DOMAIN items') /\ Cardinality(DOMAIN items') <= MaxSize
  BY DEF CacheInv, Table, ListMatchesMap
<1>1. CASE Shrinks /\ UNCHANGED <<gen, now>>
  <2>1. items' = Restrict(items, DOMAIN items')
    BY <1>0, <1>1 DEF Shrinks, Restrict
  <2>2. Contract!Forget
    BY <1>1, <2>1 DEF Contract!Forget, Shrinks, Restrict, Contract!Restrict
  <2> QED
    BY <2>2 DEF Contract!StoreNext
<1>2. ASSUME NEW k \in Key, NEW v \in Value, NEW ttl \in L,
             Stores(k, [value |-> v, expiresAt |-> now + ttl]),
             k \in DOMAIN items',
             items'[k] = [value |-> v, expiresAt |-> now + ttl],
             UNCHANGED <<gen, now>>
      PROVE  Contract!StoreNext
  <2> DEFINE K == DOMAIN items' \ {k}
  <2>1. K \in SUBSET (DOMAIN items \ {k}) /\ K \cup {k} = DOMAIN items'
    BY <1>2 DEF Stores
  <2>2. Contract!Cardinality(K \cup {k}) <= MaxSize
    <3>1. Contract!Cardinality(K \cup {k}) = Cardinality(K \cup {k})
      BY DEF Contract!Cardinality, Cardinality
    <3> QED
      BY <1>0, <2>1, <3>1
  <2>3. items' = [j \in K \cup {k} |->
                    IF j = k THEN [value |-> v, expiresAt |-> now + ttl]
                             ELSE items[j]]
    BY <1>0, <1>2, <2>1 DEF Stores
  <2> HIDE DEF K
  <2>4. Contract!Store(k, v, ttl)
    BY <1>2, <2>1, <2>2, <2>3 DEF Contract!Store
  <2> QED
    BY <2>4 DEF Contract!StoreNext
<1>3. ASSUME NEW K \in SUBSET Key, items' = Restrict(items, DOMAIN items \ K),
             gen' = gen + 1, UNCHANGED now
      PROVE  Contract!StoreNext
  <2>1. Contract!NewEpoch(K)
    BY <1>3 DEF Contract!NewEpoch, Restrict, Contract!Restrict
  <2> QED
    BY <2>1 DEF Contract!StoreNext
<1>4. CASE now' = now + 1 /\ UNCHANGED <<items, gen>>
  <2>1. Contract!TimePasses
    BY <1>4 DEF Contract!TimePasses
  <2> QED
    BY <2>1 DEF Contract!StoreNext
<1> QED
  BY <1>1, <1>2, <1>3, <1>4 DEF Visible

\* The cache implements its contract: it may forget entries, but what it holds
\* was stored under that key, with the deadline of that call, and has not
\* crossed an invalidation that covered the key.
THEOREM CacheImplementsStore == CallsSpec => ImplementsTTLStore
<1>1. CallsInit => Contract!StoreInit
  BY DEF CallsInit, CacheInit, Contract!StoreInit
<1>2. CacheInv /\ CacheInv' /\ [CallsNext]_callVars => [Contract!StoreNext]_(Contract!storeVars)
  <2>1. ASSUME CacheInv, CacheInv', CallsNext
        PROVE  [Contract!StoreNext]_(Contract!storeVars)
    BY <2>1, StepVisible, VisibleImplements
  <2>2. UNCHANGED callVars => UNCHANGED Contract!storeVars
    BY DEF callVars, Contract!storeVars
  <2> QED
    BY <2>1, <2>2
<1> QED
  BY <1>1, <1>2, CacheInvHolds, PTL DEF CallsSpec, ImplementsTTLStore, Contract!StoreSpec

-----------------------------------------------------------------------------
(***************************************************************************)
(* The decision cache never serves a decision older than the last          *)
(* invalidation of its subject.                                            *)
(*                                                                         *)
(* The argument. The history variable floor gives, for every subject, the  *)
(* IAM revision at its last invalidation. Every step that raises floor also*)
(* raises the generation (Advance). A request snapshots the generation     *)
(* before IAM answers it, so as long as the generation is still its        *)
(* snapshot the answer is at least as new as floor (Sound), and only then  *)
(* does PutIfGen store it.                                                 *)
(***************************************************************************)

\* What holds of a request in state q when the generation is g, the floors are f
\* and IAM's revision is n.
Sound(q, g, f, n) ==
  LET s == SubjectOf[q.key]
  IN  /\ q.pc \in {"resolved", "snapped", "checking", "answered"}
           => q.must <= f[s]
      /\ q.pc \in {"snapped", "checking", "answered"} => q.snap <= g
      /\ q.pc = "answered" /\ q.snap = g => q.dec.asOf >= f[s]
      /\ q.pc \in {"answered", "decided"} => q.dec.asOf >= q.must
      /\ q.pc = "proxied" /\ q.change # 0 => q.change \in 1..n

RequestInv == \A r \in Request : Sound(req[r], gen, floor, Len(log))

\* An invalidation covers changes up to the revision it happened at.
FloorInv == \A s \in Subject : floor[s] <= Revision

\* A change that was pushed, or that this replica answered for, is covered.
ChangeInv == \A i \in sent \cup own : i <= floor[log[i]]

\* The cursor is covered too, once it has moved past where the watcher primed.
WatcherInv ==
  /\ watcher.cursor <= Revision
  /\ watcher.head <= Revision
  /\ watcher.cursor > watcher.primedAt =>
       \A s \in Subject : watcher.cursor <= floor[s]

IInv ==
  /\ TypeOK
  /\ Table(Decision)
  /\ NoStaleSurvivor
  /\ RequestInv
  /\ FloorInv
  /\ ChangeInv
  /\ WatcherInv

\* The part of TypeOK that is not about the cache.
RestTypeOK ==
  /\ log \in Seq(Subject)
  /\ accepted \subseteq Subject
  /\ sent \subseteq 1..Revision
  /\ catalog \in Nat /\ flushedCat \in Nat
  /\ reloading \in BOOLEAN
  /\ req \in [Request -> RequestState]
  /\ watcher \in [cursor : Nat, primed : BOOLEAN, primedAt : Nat,
                  polling : BOOLEAN, head : Nat]
  /\ floor \in [Subject -> Nat]
  /\ own \subseteq 1..Revision
  /\ gen \in Nat
  /\ now \in Nat

\* The type invariant is the cache being well formed and the rest of it.
LEMMA TypeParts == Table(Decision) /\ RestTypeOK => TypeOK
  BY DEF TypeOK, CacheTypeOK, RestTypeOK, Table

\* Time only goes forward: the log grows, floor rises, and floor stands still
\* while the generation does.
Advance ==
  /\ gen' \in Nat /\ gen' >= gen
  /\ log' \in Seq(Subject) /\ Len(log') >= Len(log)
  /\ \A i \in 1..Len(log) : log'[i] = log[i]
  /\ floor' \in [Subject -> Nat]
  /\ \A s \in Subject : floor[s] <= floor'[s] /\ floor'[s] <= Len(log')
  /\ gen' = gen => floor' = floor

-----------------------------------------------------------------------------
(* The cache.                                                              *)

\* A step that leaves the cache and the floors alone adds nothing stale.
LEMMA KeepCache ==
  ASSUME IInv, UNCHANGED <<cacheVars, floor>>
  PROVE  Table(Decision)' /\ NoStaleSurvivor'
  BY DEF IInv, cacheVars, Table, ListMatchesMap, NoStaleSurvivor

\* Nor does one that only loses entries.
LEMMA ShrinkCache ==
  ASSUME IInv, Shrinks, UNCHANGED floor
  PROVE  NoStaleSurvivor'
  BY DEF IInv, Shrinks, NoStaleSurvivor

\* A full flush.
LEMMA FlushCache ==
  ASSUME IInv, FlushAll, UNCHANGED log
  PROVE  Table(Decision)' /\ NoStaleSurvivor' /\ Advance
<1>1. Table(Decision)' /\ DOMAIN items' = {} /\ gen' = gen + 1
  BY InvalidateTable DEF FlushAll
<1>2. Advance
  BY <1>1 DEF FlushAll, Advance, IInv, FloorInv, Revision, TypeOK, CacheTypeOK
<1> QED
  BY <1>1, <1>2 DEF NoStaleSurvivor

\* The invalidation of one subject: the keys of the others keep their floor.
LEMMA SubjectCache ==
  ASSUME IInv, NEW i \in DOMAIN log, InvalidateSubject(i), UNCHANGED log
  PROVE  Table(Decision)' /\ NoStaleSurvivor' /\ Advance
<1>1. /\ Table(Decision)' /\ Shrinks
      /\ DOMAIN items' = DOMAIN items \ KeysOf(log[i])
      /\ gen' = gen + 1
  BY InvalidateWhereTable DEF InvalidateSubject, IInv
<1>2. floor' = [floor EXCEPT ![log[i]] = Revision]
  BY DEF InvalidateSubject
<1>3. log[i] \in Subject
  BY DEF IInv, TypeOK
<1>4. Advance
  BY <1>1, <1>2, <1>3 DEF Advance, IInv, FloorInv, Revision, TypeOK, CacheTypeOK
<1>5. ASSUME NEW k \in DOMAIN items'
      PROVE  items'[k].value.asOf >= floor'[SubjectOf[k]]
  <2>1. k \in DOMAIN items /\ k \in Key /\ k \notin KeysOf(log[i])
    BY <1>1 DEF IInv, Table
  <2>2. SubjectOf[k] # log[i] /\ SubjectOf[k] \in Subject
    BY <2>1, DecisionAssumption DEF KeysOf
  <2>3. floor'[SubjectOf[k]] = floor[SubjectOf[k]]
    BY <1>2, <2>2 DEF IInv, TypeOK
  <2> QED
    BY <1>1, <2>1, <2>3 DEF IInv, NoStaleSurvivor, Shrinks
<1> QED
  BY <1>1, <1>4, <1>5 DEF NoStaleSurvivor

-----------------------------------------------------------------------------
(* Requests, changes and the watcher.                                      *)

\* A request that does not move stays sound whatever the others do: if the
\* generation moved it is no longer the request's snapshot.
LEMMA SoundStays ==
  ASSUME IInv, Advance, NEW q \in RequestState, Sound(q, gen, floor, Len(log))
  PROVE  Sound(q, gen', floor', Len(log'))
<1> DEFINE s == SubjectOf[q.key]
<1>1. s \in Subject
  BY DecisionAssumption DEF RequestState
<1>2. /\ q.must \in Nat /\ q.snap \in Nat /\ q.dec.asOf \in Nat
      /\ q.change \in Nat /\ gen \in Nat /\ floor \in [Subject -> Nat]
      /\ Len(log) \in Nat
  BY DEF RequestState, Decision, IInv, TypeOK, CacheTypeOK
<1>3. floor[s] <= floor'[s] /\ floor[s] \in Nat /\ floor'[s] \in Nat
  BY <1>1, <1>2 DEF Advance
<1>4. Len(log') >= Len(log) /\ Len(log') \in Nat
  BY DEF Advance, IInv, TypeOK
<1>5. gen' \in Nat /\ gen' >= gen /\ (gen' = gen => floor' = floor)
  BY DEF Advance
<1> QED
  BY <1>1, <1>2, <1>3, <1>4, <1>5 DEF Sound

\* A step that moves no request keeps every request sound.
LEMMA AllStay ==
  ASSUME IInv, Advance, UNCHANGED req
  PROVE  RequestInv'
<1>1. ASSUME NEW p \in Request PROVE Sound(req[p], gen', floor', Len(log'))
  BY SoundStays DEF RequestInv, IInv, TypeOK
<1> QED
  BY <1>1 DEF RequestInv

\* Request r moved to q: if q is sound, all are.
LEMMA OneMoves ==
  ASSUME IInv, Advance, NEW r \in Request, NEW q \in RequestState,
         req' = [req EXCEPT ![r] = q], Sound(q, gen', floor', Len(log'))
  PROVE  RequestInv' /\ req' \in [Request -> RequestState]
<1>1. req \in [Request -> RequestState]
  BY DEF IInv, TypeOK
<1>2. ASSUME NEW p \in Request PROVE Sound(req[p], gen', floor', Len(log'))
  BY <1>1, SoundStays DEF RequestInv, IInv
<1>3. ASSUME NEW p \in Request PROVE Sound(req'[p], gen', floor', Len(log'))
  <2>1. req'[p] = IF p = r THEN q ELSE req[p]
    BY <1>1
  <2> QED
    BY <1>2, <2>1
<1> QED
  BY <1>1, <1>3 DEF RequestInv

\* A covered change stays covered.
LEMMA CoveredStays ==
  ASSUME IInv, Advance, NEW i \in sent \cup own
  PROVE  i <= floor'[log'[i]]
<1>1. i \in 1..Len(log) /\ log[i] \in Subject /\ i <= floor[log[i]]
  BY DEF IInv, TypeOK, Revision, ChangeInv
<1>2. log'[i] = log[i] /\ floor[log[i]] <= floor'[log[i]]
  BY <1>1 DEF Advance
<1>3. floor[log[i]] \in Nat /\ floor'[log[i]] \in Nat
  BY <1>1 DEF Advance, IInv, TypeOK
<1> QED
  BY <1>1, <1>2, <1>3

\* A step that adds no row to sent and no change to own keeps them covered.
LEMMA ChangesStay ==
  ASSUME IInv, Advance, UNCHANGED <<sent, own>>
  PROVE  ChangeInv'
  BY CoveredStays DEF ChangeInv

\* One more change is covered.
LEMMA ChangeCovered ==
  ASSUME IInv, Advance, NEW i \in 1..Len(log), i <= floor'[log[i]],
         sent' \cup own' \subseteq sent \cup own \cup {i}
  PROVE  ChangeInv'
<1>1. i <= floor'[log'[i]]
  BY DEF Advance
<1>2. ASSUME NEW j \in sent \cup own \cup {i} PROVE j <= floor'[log'[j]]
  BY <1>1, CoveredStays
<1> QED
  BY <1>2 DEF ChangeInv

\* A step that leaves the watcher alone keeps its cursor and reply covered.
LEMMA WatcherStays ==
  ASSUME IInv, Advance, UNCHANGED watcher
  PROVE  WatcherInv'
<1>1. /\ watcher.cursor \in Nat /\ watcher.head \in Nat /\ watcher.primedAt \in Nat
      /\ Len(log) \in Nat /\ Len(log') \in Nat /\ Len(log') >= Len(log)
  BY DEF IInv, TypeOK, Advance
<1>2. watcher.cursor <= Revision' /\ watcher.head <= Revision'
  BY <1>1 DEF IInv, WatcherInv, Revision
<1>3. ASSUME watcher.cursor > watcher.primedAt, NEW s \in Subject
      PROVE  watcher.cursor <= floor'[s]
  <2>1. watcher.cursor <= floor[s] /\ floor[s] <= floor'[s]
    BY <1>3 DEF IInv, WatcherInv, Advance
  <2>2. floor[s] \in Nat /\ floor'[s] \in Nat
    BY DEF IInv, TypeOK, Advance
  <2> QED
    BY <1>1, <2>1, <2>2
<1> QED
  BY <1>2, <1>3 DEF WatcherInv

\* Everything IInv says, from its parts.
LEMMA Together ==
  ASSUME Table(Decision)', NoStaleSurvivor', RestTypeOK', RequestInv', Advance,
         ChangeInv', WatcherInv'
  PROVE  IInv'
<1>1. TypeOK'
  BY TypeParts, PTL
<1>2. FloorInv'
  BY DEF Advance, FloorInv, Revision
<1> QED
  BY <1>1, <1>2 DEF IInv

-----------------------------------------------------------------------------
(* The steps of a request.                                                 *)

\* A step that changes nothing but the requests is an Advance.
Quiet == UNCHANGED <<cacheVars, now, iamVars, configVars, watcher, historyVars>>

\* A step that leaves the cache, the log and the floors alone is an Advance.
LEMMA QuietAdvance ==
  ASSUME IInv, UNCHANGED <<gen, log, floor>>
  PROVE  Advance
  BY DEF IInv, Advance, TypeOK, CacheTypeOK, FloorInv, Revision

\* A step that only moves request r to q.
LEMMA QuietMove ==
  ASSUME IInv, Quiet, NEW r \in Request, NEW q \in RequestState,
         req' = [req EXCEPT ![r] = q], Sound(q, gen, floor, Len(log))
  PROVE  IInv'
<1>1. Advance
  BY QuietAdvance DEF Quiet, cacheVars, iamVars, historyVars
<1>2. Table(Decision)' /\ NoStaleSurvivor'
  BY KeepCache DEF Quiet, historyVars
<1>3. RequestInv' /\ req' \in [Request -> RequestState]
  BY <1>1, OneMoves DEF Quiet, cacheVars, iamVars, historyVars
<1>4. ChangeInv' /\ WatcherInv'
  BY <1>1, ChangesStay, WatcherStays DEF Quiet, iamVars, historyVars
<1>5. RestTypeOK'
  BY <1>3 DEF Quiet, cacheVars, iamVars, configVars, historyVars, IInv, TypeOK,
              CacheTypeOK, RestTypeOK, Revision
<1> QED
  BY <1>1, <1>2, <1>3, <1>4, <1>5, Together

\* A free slot is well typed and claims nothing.
LEMMA IdleState ==
  /\ Idle \in RequestState /\ Idle.pc = "idle"
  /\ \A g, f, n : Sound(Idle, g, f, n)
<1>1. (CHOOSE k \in Key : TRUE) \in Key /\ (CHOOSE s \in Subject : TRUE) \in Subject
  BY DecisionAssumption
<1>2. Idle \in RequestState /\ Idle.pc = "idle"
  BY <1>1 DEF Idle, RequestState, Phase, Decision
<1> QED
  BY <1>2 DEF Sound

\* The type of a request, field by field.
LEMMA RequestFields ==
  ASSUME IInv, NEW r \in Request
  PROVE  /\ req[r] \in RequestState
         /\ req[r].key \in Key /\ SubjectOf[req[r].key] \in Subject
         /\ req[r].dec \in Decision /\ req[r].dec.asOf \in Nat
         /\ req[r].must \in Nat /\ req[r].snap \in Nat /\ req[r].change \in Nat
         /\ req[r].target \in Subject
         /\ floor[SubjectOf[req[r].key]] \in Nat
         /\ floor[SubjectOf[req[r].key]] <= Len(log)
         /\ Len(log) \in Nat /\ gen \in Nat
         /\ Sound(req[r], gen, floor, Len(log))
<1>1. req[r] \in RequestState
  BY DEF IInv, TypeOK
<1>2. SubjectOf[req[r].key] \in Subject
  BY <1>1, DecisionAssumption DEF RequestState
<1> QED
  BY <1>1, <1>2 DEF RequestState, Decision, IInv, TypeOK, CacheTypeOK, FloorInv,
                    Revision, RequestInv

\* Resolve: the request notes the floor it must meet.
LEMMA ResolveStep ==
  ASSUME IInv, NEW r \in Request, NEW k \in Key, Resolve(r, k)
  PROVE  IInv'
<1> DEFINE q == [Idle EXCEPT !.pc = "resolved", !.key = k,
                             !.dec = [asOf |-> 0, cat |-> catalog],
                             !.must = floor[SubjectOf[k]]]
<1>1. SubjectOf[k] \in Subject /\ floor[SubjectOf[k]] \in Nat /\ catalog \in Nat
  BY DecisionAssumption DEF IInv, TypeOK
<1>2. q \in RequestState
  BY <1>1, IdleState DEF RequestState, Phase, Decision
<1>3. q.pc = "resolved" /\ q.key = k /\ q.must = floor[SubjectOf[k]]
  BY IdleState DEF RequestState
<1>4. req' = [req EXCEPT ![r] = q] /\ Quiet
  BY DEF Resolve, Quiet
<1> HIDE DEF q
<1>5. Sound(q, gen, floor, Len(log))
  BY <1>1, <1>3 DEF Sound
<1> QED
  BY <1>2, <1>4, <1>5, QuietMove

\* The snapshot: the generation is the current one, so the floor it notes holds.
LEMMA SnapshotStep ==
  ASSUME IInv, NEW r \in Request, SnapshotGeneration(r)
  PROVE  IInv'
<1> DEFINE q == [req[r] EXCEPT !.pc = "snapped", !.snap = gen]
<1>0. req \in [Request -> RequestState] /\ req[r] \in RequestState /\ gen \in Nat
  BY RequestFields DEF IInv, TypeOK
<1>1. q \in RequestState
  BY <1>0 DEF RequestState, Phase
<1>2. q.pc = "snapped" /\ q.key = req[r].key /\ q.must = req[r].must /\ q.snap = gen
  BY <1>0 DEF RequestState
<1>3. req' = [req EXCEPT ![r] = q] /\ Quiet
  BY <1>0 DEF SnapshotGeneration, Quiet
<1> HIDE DEF q
<1>4. Sound(q, gen, floor, Len(log))
  BY <1>0, <1>2, RequestFields DEF Sound, SnapshotGeneration, At
<1> QED
  BY <1>1, <1>3, <1>4, QuietMove

\* IAM's answer is as new as IAM: newer than every invalidation so far.
LEMMA CheckStep ==
  ASSUME IInv, NEW r \in Request, Check(r)
  PROVE  IInv'
<1> DEFINE q == [req[r] EXCEPT !.pc = "answered", !.dec.asOf = Revision]
<1>0. req \in [Request -> RequestState] /\ req[r] \in RequestState /\ Revision \in Nat
  BY RequestFields DEF IInv, TypeOK, Revision
<1>1. q \in RequestState
  BY <1>0 DEF RequestState, Phase, Decision
<1>2. /\ q.pc = "answered" /\ q.key = req[r].key /\ q.must = req[r].must
      /\ q.snap = req[r].snap /\ q.dec.asOf = Len(log)
  BY <1>0 DEF RequestState, Decision, Revision
<1>3. req' = [req EXCEPT ![r] = q] /\ Quiet
  BY <1>0 DEF Check, Quiet
<1> HIDE DEF q
<1>4. Sound(q, gen, floor, Len(log))
  BY <1>2, RequestFields DEF Sound, Check, At
<1> QED
  BY <1>1, <1>3, <1>4, QuietMove

\* The steps that free the slot and touch nothing else.
LEMMA FreeStep ==
  ASSUME IInv, NEW r \in Request, CheckFails(r) \/ Finish(r) \/ RespondNoFlush(r)
  PROVE  IInv'
  BY IdleState, QuietMove DEF CheckFails, Finish, RespondNoFlush, Quiet

\* A forwarded mutation has no change of its own yet.
LEMMA ForwardStep ==
  ASSUME IInv, NEW r \in Request, NEW s \in Subject, ForwardMutation(r, s)
  PROVE  IInv'
<1> DEFINE q == [Idle EXCEPT !.pc = "proxied", !.target = s]
<1>1. q \in RequestState /\ q.pc = "proxied" /\ q.change = 0
  BY IdleState DEF RequestState, Phase, Idle
<1>2. req' = [req EXCEPT ![r] = q] /\ Quiet
  BY DEF ForwardMutation, Quiet
<1> HIDE DEF q
<1>3. Sound(q, gen, floor, Len(log))
  BY <1>1 DEF Sound
<1> QED
  BY <1>1, <1>2, <1>3, QuietMove

\* The outcome of a request.
LEMMA DecidedState ==
  ASSUME IInv, NEW r \in Request, NEW d \in Decision, d.asOf >= req[r].must,
         NEW g, NEW f, NEW n
  PROVE  Decided(r, d) \in RequestState /\ Sound(Decided(r, d), g, f, n)
<1> DEFINE q == Decided(r, d)
<1>1. /\ q \in RequestState /\ q.pc = "decided" /\ q.dec = d
      /\ q.must = req[r].must
  BY IdleState, RequestFields DEF Decided, RequestState, Phase
<1> HIDE DEF q
<1>2. Sound(q, g, f, n)
  BY <1>1 DEF Sound
<1> QED
  BY <1>1, <1>2 DEF q

\* A cache hit: what is cached is at least as new as floor, hence as the
\* invalidations that preceded the request.
LEMMA LookUpStep ==
  ASSUME IInv, NEW r \in Request, LookUp(r)
  PROVE  IInv'
<1> DEFINE k == req[r].key
<1>1. Get(k) /\ UNCHANGED <<now, iamVars, configVars, watcher, historyVars>>
  BY DEF LookUp
<1>2. Table(Decision)' /\ Shrinks /\ gen' = gen
  BY <1>1, GetTable DEF IInv
<1>3. Advance
  BY <1>1, <1>2, QuietAdvance DEF iamVars, historyVars
<1>4. NoStaleSurvivor'
  BY <1>1, <1>2, ShrinkCache DEF historyVars
<1>5. RequestInv' /\ req' \in [Request -> RequestState]
  <2>0. req \in [Request -> RequestState] /\ req[r] \in RequestState
    BY RequestFields DEF IInv, TypeOK
  <2>1. CASE Live(k) /\ req' = [req EXCEPT ![r] = Decided(r, items[k].value)]
    <3>1. k \in DOMAIN items
      BY <2>1 DEF Live
    <3>2. items[k].value \in Decision /\ items[k].value.asOf \in Nat
      BY <3>1 DEF IInv, Table, Entry, Decision
    <3>3. items[k].value.asOf >= req[r].must
      <4>1. items[k].value.asOf >= floor[SubjectOf[k]]
        BY <3>1 DEF IInv, NoStaleSurvivor
      <4>2. req[r].must <= floor[SubjectOf[k]]
        BY RequestFields DEF LookUp, At, Sound
      <4> QED
        BY <3>2, <4>1, <4>2, RequestFields
    <3>4. /\ Decided(r, items[k].value) \in RequestState
          /\ Sound(Decided(r, items[k].value), gen', floor', Len(log'))
      BY <3>2, <3>3, DecidedState
    <3> QED
      BY <1>3, <2>1, <3>4, OneMoves
  <2>2. CASE ~Live(k) /\ req' = [req EXCEPT ![r].pc = "checking"]
    <3> DEFINE q == [req[r] EXCEPT !.pc = "checking"]
    <3>1. q \in RequestState
      BY <2>0 DEF RequestState, Phase
    <3>2. /\ q.pc = "checking" /\ q.key = req[r].key /\ q.must = req[r].must
          /\ q.snap = req[r].snap
      BY <2>0 DEF RequestState
    <3>3. req' = [req EXCEPT ![r] = q]
      BY <2>0, <2>2
    <3> HIDE DEF q
    <3>4. Sound(q, gen', floor', Len(log'))
      BY <1>1, <1>2, <3>2, RequestFields DEF Sound, LookUp, At, iamVars, historyVars
    <3> QED
      BY <1>3, <3>1, <3>3, <3>4, OneMoves
  <2> QED
    BY <2>1, <2>2 DEF LookUp
<1>6. ChangeInv' /\ WatcherInv'
  BY <1>1, <1>3, ChangesStay, WatcherStays DEF iamVars, historyVars
<1>7. RestTypeOK'
  BY <1>1, <1>2, <1>5 DEF iamVars, configVars, historyVars, IInv, TypeOK,
                          CacheTypeOK, RestTypeOK, Revision
<1> QED
  BY <1>2, <1>3, <1>4, <1>5, <1>6, <1>7, Together

\* The epoch-guarded write: while the generation is the request's snapshot the
\* answer is at least as new as floor.
LEMMA StoreStep ==
  ASSUME IInv, NEW r \in Request, StoreDecision(r)
  PROVE  IInv'
<1> DEFINE k == req[r].key
           d == req[r].dec
           e == [value |-> d, expiresAt |-> now + TTL]
<1>1. /\ PutIfGenWithTTL(k, d, TTL, req[r].snap)
      /\ UNCHANGED <<now, iamVars, configVars, watcher, historyVars>>
  BY DEF StoreDecision, PutIfGen
<1>2. /\ k \in Key /\ d \in Decision /\ d.asOf \in Nat /\ now \in Nat /\ TTL \in Int
      /\ ~(TTL <= 0)
  BY RequestFields, CacheAssumption DEF IInv, TypeOK, CacheTypeOK
<1>3. /\ Table(Decision)' /\ gen' = gen
      /\ Stores(k, e)
      /\ gen # req[r].snap => UNCHANGED <<items, order>>
  BY <1>1, <1>2, PutIfGenTable DEF IInv
<1>4. Advance
  BY <1>1, <1>3, QuietAdvance DEF iamVars, historyVars
<1>5. NoStaleSurvivor'
  <2>1. CASE gen # req[r].snap
    BY <1>1, <1>3, <2>1 DEF historyVars, IInv, NoStaleSurvivor
  <2>2. CASE gen = req[r].snap
    <3>1. d.asOf >= floor[SubjectOf[k]]
      BY <2>2, RequestFields DEF Sound, StoreDecision, At
    <3>2. ASSUME NEW j \in DOMAIN items'
          PROVE  items'[j].value.asOf >= floor[SubjectOf[j]]
      <4>1. CASE j = k /\ items'[j] = e
        BY <3>1, <4>1
      <4>2. CASE j \in DOMAIN items /\ items'[j] = items[j]
        BY <4>2 DEF IInv, NoStaleSurvivor
      <4> QED
        BY <1>3, <4>1, <4>2 DEF Stores
    <3> QED
      BY <1>1, <3>2 DEF NoStaleSurvivor, historyVars
  <2> QED
    BY <2>1, <2>2
<1>6. RequestInv' /\ req' \in [Request -> RequestState]
  <2>1. d.asOf >= req[r].must
    BY RequestFields DEF Sound, StoreDecision, At
  <2>2. /\ Decided(r, d) \in RequestState
        /\ Sound(Decided(r, d), gen', floor', Len(log'))
    BY <1>2, <2>1, DecidedState
  <2>3. req' = [req EXCEPT ![r] = Decided(r, d)]
    BY DEF StoreDecision
  <2> QED
    BY <1>4, <2>2, <2>3, OneMoves
<1>7. ChangeInv' /\ WatcherInv'
  BY <1>1, <1>4, ChangesStay, WatcherStays DEF iamVars, historyVars
<1>8. RestTypeOK'
  BY <1>1, <1>3, <1>6 DEF iamVars, configVars, historyVars, IInv, TypeOK,
                          CacheTypeOK, RestTypeOK, Revision
<1> QED
  BY <1>3, <1>4, <1>5, <1>6, <1>7, <1>8, Together

-----------------------------------------------------------------------------
(* The steps that change grants.                                           *)

\* IAM commits a change: the log grows, nothing in the gateway moves.
LEMMA AppendAdvance ==
  ASSUME IInv, NEW s \in Subject, log' = Append(log, s), UNCHANGED <<gen, floor>>
  PROVE  Advance /\ Len(log') = Len(log) + 1
<1>1. /\ log \in Seq(Subject) /\ gen \in Nat /\ floor \in [Subject -> Nat]
      /\ \A t \in Subject : floor[t] <= Len(log)
  BY DEF IInv, TypeOK, CacheTypeOK, FloorInv, Revision
<1>2. /\ log' \in Seq(Subject) /\ Len(log') = Len(log) + 1
      /\ \A i \in 1..Len(log) : log'[i] = log[i]
  BY <1>1
<1>3. ASSUME NEW t \in Subject PROVE floor[t] <= Len(log')
  BY <1>1, <1>2
<1> QED
  BY <1>1, <1>2, <1>3 DEF Advance

\* One more row in the log keeps everything else typed.
LEMMA AppendTypes ==
  ASSUME IInv, Len(log') = Len(log) + 1, log' \in Seq(Subject),
         UNCHANGED <<cacheVars, now, sent, configVars, watcher, floor, own>>,
         req' \in [Request -> RequestState], accepted' \subseteq accepted
  PROVE  RestTypeOK'
<1>1. Len(log) \in Nat
  BY DEF IInv, TypeOK
<1>2. 1..Revision \subseteq 1..Len(log') /\ Len(log) + 1 \in 1..Len(log')
  BY <1>1 DEF Revision
<1> QED
  BY <1>2 DEF cacheVars, configVars, IInv, TypeOK, CacheTypeOK, RestTypeOK, Revision

\* IAM applies a forwarded mutation: the request learns its change id.
LEMMA ApplyForwardedStep ==
  ASSUME IInv, NEW r \in Request, ApplyForwarded(r)
  PROVE  IInv'
<1> DEFINE q == [req[r] EXCEPT !.change = Revision + 1]
<1>0. /\ req \in [Request -> RequestState] /\ req[r] \in RequestState
      /\ req[r].target \in Subject /\ Revision \in Nat /\ Len(log) \in Nat
  BY RequestFields DEF IInv, TypeOK, Revision
<1>1. /\ log' = Append(log, req[r].target)
      /\ UNCHANGED <<cacheVars, now, accepted, sent, configVars, watcher, historyVars>>
  BY DEF ApplyForwarded
<1>2. Advance /\ Len(log') = Len(log) + 1
  BY <1>0, <1>1, AppendAdvance DEF cacheVars, historyVars
<1>3. q \in RequestState
  BY <1>0 DEF RequestState
<1>4. q.pc = "proxied" /\ q.change = Len(log) + 1
  BY <1>0 DEF RequestState, ApplyForwarded, At, Revision
<1>5. req' = [req EXCEPT ![r] = q]
  BY <1>0 DEF ApplyForwarded
<1> HIDE DEF q
<1>6. Sound(q, gen', floor', Len(log'))
  BY <1>0, <1>2, <1>4 DEF Sound
<1>7. RequestInv' /\ req' \in [Request -> RequestState]
  BY <1>2, <1>3, <1>5, <1>6, OneMoves
<1>8. Table(Decision)' /\ NoStaleSurvivor' /\ ChangeInv' /\ WatcherInv'
  BY <1>1, <1>2, KeepCache, ChangesStay, WatcherStays DEF historyVars
<1>9. RestTypeOK'
  <2>1. log' \in Seq(Subject)
    BY <1>2 DEF Advance
  <2> QED
    BY <1>1, <1>2, <1>7, <2>1, AppendTypes DEF historyVars
<1> QED
  BY <1>2, <1>7, <1>8, <1>9, Together

\* Changes by others, and those IAM applies after it acknowledged them.
LEMMA ChangeStep ==
  ASSUME IInv, NEW s \in Subject, ChangeElsewhere(s) \/ ApplyAccepted(s)
  PROVE  IInv'
<1>1. /\ log' = Append(log, s) /\ accepted' \subseteq accepted
      /\ UNCHANGED <<cacheVars, now, sent, configVars, req, watcher, floor, own>>
  BY DEF ChangeElsewhere, ApplyAccepted, historyVars, Revision
<1>2. Advance /\ Len(log') = Len(log) + 1
  BY <1>1, AppendAdvance DEF cacheVars
<1>3. Table(Decision)' /\ NoStaleSurvivor' /\ ChangeInv' /\ WatcherInv' /\ RequestInv'
  BY <1>1, <1>2, KeepCache, ChangesStay, WatcherStays, AllStay
<1>4. RestTypeOK'
  <2>1. log' \in Seq(Subject) /\ req' \in [Request -> RequestState]
    BY <1>1, <1>2 DEF Advance, IInv, TypeOK
  <2> QED
    BY <1>1, <1>2, <2>1, AppendTypes
<1> QED
  BY <1>2, <1>3, <1>4, Together

-----------------------------------------------------------------------------
(* The steps that invalidate.                                              *)

\* The self-flush: it covers the change this request made, if IAM applied it.
LEMMA RespondOKStep ==
  ASSUME IInv, NEW r \in Request, RespondOK(r)
  PROVE  IInv'
<1>0. /\ req[r].pc = "proxied" /\ req[r].target \in Subject
      /\ req[r].change # 0 => req[r].change \in 1..Len(log)
  BY RequestFields DEF RespondOK, At, Sound
<1>1. FlushAll /\ UNCHANGED <<now, log, sent, configVars, watcher>>
  BY DEF RespondOK
<1>2. Table(Decision)' /\ NoStaleSurvivor' /\ Advance
  BY <1>1, FlushCache
<1>3. RequestInv' /\ req' \in [Request -> RequestState]
  BY <1>2, IdleState, OneMoves DEF RespondOK
<1>4. WatcherInv'
  BY <1>1, <1>2, WatcherStays
<1>5. CASE req[r].change # 0 /\ own' = own \cup {req[r].change} /\ UNCHANGED accepted
  <2> DEFINE i == req[r].change
  <2>1. i \in 1..Len(log) /\ log[i] \in Subject /\ Len(log) \in Nat
    BY <1>0, <1>5 DEF IInv, TypeOK
  <2>2. i <= floor'[log[i]]
    BY <1>1, <2>1 DEF FlushAll, Revision
  <2>3. ChangeInv'
    BY <1>1, <1>2, <1>5, <2>1, <2>2, ChangeCovered
  <2>4. RestTypeOK'
    BY <1>1, <1>2, <1>3, <1>5, <2>1
    DEF Advance, configVars, IInv, TypeOK, CacheTypeOK, RestTypeOK, Revision
  <2> QED
    BY <1>2, <1>3, <1>4, <2>3, <2>4, Together
<1>6. CASE /\ req[r].change = 0 /\ accepted' = accepted \cup {req[r].target}
           /\ UNCHANGED own
  <2>1. ChangeInv'
    BY <1>1, <1>2, <1>6, ChangesStay
  <2>2. RestTypeOK'
    BY <1>0, <1>1, <1>2, <1>3, <1>6
    DEF Advance, configVars, IInv, TypeOK, CacheTypeOK, RestTypeOK, Revision
  <2> QED
    BY <1>2, <1>3, <1>4, <2>1, <2>2, Together
<1> QED
  BY <1>5, <1>6 DEF RespondOK

\* The push for one row: its subject is covered whether or not the reply is lost.
LEMMA PushStep ==
  ASSUME IInv, NEW i \in DOMAIN log, PushInvalidate(i) \/ PushReplyLost(i)
  PROVE  IInv'
<1>0. i \in 1..Len(log) /\ log[i] \in Subject /\ Len(log) \in Nat
  BY DEF IInv, TypeOK
<1>1. /\ InvalidateSubject(i) /\ sent' \subseteq sent \cup {i}
      /\ UNCHANGED <<now, log, accepted, configVars, req, watcher, own>>
  BY DEF PushInvalidate, PushReplyLost
<1>2. Table(Decision)' /\ NoStaleSurvivor' /\ Advance
  BY <1>1, SubjectCache
<1>3. RequestInv' /\ WatcherInv'
  BY <1>1, <1>2, AllStay, WatcherStays
<1>4. ChangeInv'
  <2>1. i <= floor'[log[i]]
    BY <1>0, <1>1 DEF InvalidateSubject, Revision, IInv, TypeOK
  <2>2. sent' \cup own' \subseteq sent \cup own \cup {i}
    BY <1>1
  <2> QED
    BY <1>0, <1>2, <2>1, <2>2, ChangeCovered
<1>5. RestTypeOK'
  BY <1>0, <1>1, <1>2
  DEF Advance, configVars, IInv, TypeOK, CacheTypeOK, RestTypeOK, Revision
<1> QED
  BY <1>2, <1>3, <1>4, <1>5, Together

\* The poll's steps that do not flush: the cursor only moves when priming.
LEMMA PollStep ==
  ASSUME IInv, PollRead \/ PollFails \/ PollPrime \/ PollEmpty
  PROVE  IInv'
<1>1. UNCHANGED <<cacheVars, now, iamVars, configVars, req, historyVars>>
  BY DEF PollRead, PollFails, PollPrime, PollEmpty
<1>2. Advance
  BY <1>1, QuietAdvance DEF cacheVars, iamVars, historyVars
<1>3. Table(Decision)' /\ NoStaleSurvivor' /\ ChangeInv' /\ RequestInv'
  BY <1>1, <1>2, KeepCache, ChangesStay, AllStay DEF iamVars, historyVars
<1>4. /\ watcher \in [cursor : Nat, primed : BOOLEAN, primedAt : Nat,
                      polling : BOOLEAN, head : Nat]
      /\ Revision \in Nat /\ watcher.cursor <= Revision /\ watcher.head <= Revision
  BY DEF IInv, TypeOK, Revision, WatcherInv
<1>5. /\ watcher' \in [cursor : Nat, primed : BOOLEAN, primedAt : Nat,
                       polling : BOOLEAN, head : Nat]
      /\ watcher'.cursor <= Revision /\ watcher'.head <= Revision
      /\ \/ watcher'.cursor = watcher.cursor /\ watcher'.primedAt = watcher.primedAt
         \/ watcher'.cursor = watcher'.primedAt
  <2>1. CASE PollRead
    <3>1. watcher' \in [cursor : Nat, primed : BOOLEAN, primedAt : Nat,
                          polling : BOOLEAN, head : Nat]
      BY <1>4, <2>1 DEF PollRead
    <3>2. /\ watcher'.cursor = watcher.cursor /\ watcher'.primedAt = watcher.primedAt
          /\ watcher'.head = Revision
      BY <1>4, <2>1 DEF PollRead
    <3> QED
      BY <1>4, <3>1, <3>2
  <2>2. CASE PollFails
    <3>1. watcher' \in [cursor : Nat, primed : BOOLEAN, primedAt : Nat,
                          polling : BOOLEAN, head : Nat]
      BY <1>4, <2>2 DEF PollFails
    <3>2. /\ watcher'.cursor = watcher.cursor /\ watcher'.primedAt = watcher.primedAt
          /\ watcher'.head = 0
      BY <1>4, <2>2 DEF PollFails
    <3> QED
      BY <1>4, <3>1, <3>2
  <2>3. CASE PollPrime
    <3>1. watcher' \in [cursor : Nat, primed : BOOLEAN, primedAt : Nat,
                          polling : BOOLEAN, head : Nat]
      BY <1>4, <2>3 DEF PollPrime
    <3>2. /\ watcher'.cursor = watcher.head /\ watcher'.primedAt = watcher.head
          /\ watcher'.head = 0
      BY <1>4, <2>3 DEF PollPrime
    <3> QED
      BY <1>4, <3>1, <3>2
  <2>4. CASE PollEmpty
    <3>1. watcher' \in [cursor : Nat, primed : BOOLEAN, primedAt : Nat,
                          polling : BOOLEAN, head : Nat]
      BY <1>4, <2>4 DEF PollEmpty
    <3>2. /\ watcher'.cursor = watcher.cursor /\ watcher'.primedAt = watcher.primedAt
          /\ watcher'.head = 0
      BY <1>4, <2>4 DEF PollEmpty
    <3> QED
      BY <1>4, <3>1, <3>2
  <2> QED
    BY <2>1, <2>2, <2>3, <2>4
<1>6. WatcherInv'
  <2>1. ASSUME watcher'.cursor > watcher'.primedAt, NEW s \in Subject
        PROVE  watcher'.cursor <= floor[s]
    BY <1>5, <2>1 DEF IInv, WatcherInv
  <2> QED
    BY <1>1, <1>5, <2>1 DEF WatcherInv, Revision, iamVars, historyVars
<1>7. RestTypeOK'
  BY <1>1, <1>5 DEF cacheVars, iamVars, configVars, historyVars, IInv, TypeOK,
                    CacheTypeOK, RestTypeOK, Revision
<1> QED
  BY <1>2, <1>3, <1>6, <1>7, Together

\* The poll's flush covers everything up to the new cursor, and what IAM
\* committed since the reply besides.
LEMMA PollFlushStep ==
  ASSUME IInv, PollFlush
  PROVE  IInv'
<1>1. FlushAll /\ UNCHANGED <<now, iamVars, configVars, req, own>>
  BY DEF PollFlush
<1>2. Table(Decision)' /\ NoStaleSurvivor' /\ Advance
  BY <1>1, FlushCache DEF iamVars
<1>3. RequestInv' /\ ChangeInv'
  BY <1>1, <1>2, AllStay, ChangesStay DEF iamVars
<1>4. /\ watcher \in [cursor : Nat, primed : BOOLEAN, primedAt : Nat,
                      polling : BOOLEAN, head : Nat]
      /\ Revision \in Nat /\ watcher.head <= Revision
  BY DEF IInv, TypeOK, Revision, WatcherInv
<1>5. /\ watcher' \in [cursor : Nat, primed : BOOLEAN, primedAt : Nat,
                       polling : BOOLEAN, head : Nat]
      /\ watcher'.cursor = watcher.head /\ watcher'.head = 0
  BY <1>4 DEF PollFlush
<1>6. WatcherInv'
  BY <1>1, <1>4, <1>5 DEF WatcherInv, FlushAll, Revision, iamVars
<1>7. RestTypeOK'
  BY <1>1, <1>2, <1>5 DEF Advance, iamVars, configVars, IInv, TypeOK, CacheTypeOK,
                          RestTypeOK, Revision
<1> QED
  BY <1>2, <1>3, <1>6, <1>7, Together

\* Reload: the swap touches no decision, the flush covers every subject.
LEMMA ReloadStep ==
  ASSUME IInv, ReloadCatalog \/ ReloadFlush \/ Tick
  PROVE  IInv'
<1>1. UNCHANGED <<iamVars, req, watcher, own>>
  BY DEF ReloadCatalog, ReloadFlush, Tick, historyVars
<1>2. Table(Decision)' /\ NoStaleSurvivor' /\ Advance
  <2>1. CASE UNCHANGED <<cacheVars, floor>>
    BY <1>1, <2>1, KeepCache, QuietAdvance DEF cacheVars, iamVars
  <2>2. CASE FlushAll
    BY <1>1, <2>2, FlushCache DEF iamVars
  <2> QED
    BY <2>1, <2>2 DEF ReloadCatalog, ReloadFlush, Tick, historyVars
<1>3. RequestInv' /\ ChangeInv' /\ WatcherInv'
  BY <1>1, <1>2, AllStay, ChangesStay, WatcherStays DEF iamVars
<1>4. /\ catalog' \in Nat /\ flushedCat' \in Nat /\ reloading' \in BOOLEAN
      /\ now' \in Nat
  <2>0. catalog \in Nat /\ flushedCat \in Nat /\ now \in Nat
    BY DEF IInv, TypeOK, CacheTypeOK
  <2>1. reloading' \in BOOLEAN
    BY Zenon DEF ReloadCatalog, ReloadFlush, Tick, configVars, IInv, TypeOK
  <2>2. CASE ReloadCatalog
    BY <2>0, <2>1, <2>2 DEF ReloadCatalog
  <2>3. CASE ReloadFlush
    BY <2>0, <2>1, <2>3 DEF ReloadFlush
  <2>4. CASE Tick
    BY <2>0, <2>1, <2>4 DEF Tick, configVars
  <2> QED
    BY <2>2, <2>3, <2>4
<1>5. RestTypeOK'
  BY <1>1, <1>2, <1>4 DEF Advance, iamVars, IInv, TypeOK, CacheTypeOK, RestTypeOK,
                          Revision
<1> QED
  BY <1>2, <1>3, <1>5, Together

-----------------------------------------------------------------------------
(* The theorems.                                                           *)

\* The invariant holds of a gateway that has just started.
LEMMA InitIInv == Init => IInv
<1> SUFFICES ASSUME Init PROVE IInv
  OBVIOUS
<1>1. Table(Decision)
  BY EmptyTable DEF Init
<1>2. log = <<>> /\ Len(log) = 0 /\ floor = [s \in Subject |-> 0]
  BY DEF Init
<1>3. RestTypeOK
  <2>1. reloading \in BOOLEAN
    BY Zenon DEF Init
  <2>2. watcher \in [cursor : Nat, primed : BOOLEAN, primedAt : Nat,
                     polling : BOOLEAN, head : Nat]
    BY DEF Init
  <2>3. /\ req \in [Request -> RequestState] /\ floor \in [Subject -> Nat]
        /\ log \in Seq(Subject)
    BY <1>2, IdleState DEF Init
  <2> QED
    BY <2>1, <2>2, <2>3 DEF Init, CacheInit, RestTypeOK
<1>4. RequestInv
  BY IdleState DEF Init, RequestInv
<1>5. NoStaleSurvivor /\ FloorInv /\ ChangeInv /\ WatcherInv
  BY <1>2 DEF Init, CacheInit, NoStaleSurvivor, FloorInv, ChangeInv, WatcherInv,
              Revision
<1> QED
  BY <1>1, <1>3, <1>4, <1>5, TypeParts DEF IInv

\* Every step of every actor preserves it.
LEMMA NextIInv == IInv /\ [Next]_vars => IInv'
<1> SUFFICES ASSUME IInv, [Next]_vars PROVE IInv'
  OBVIOUS
<1>1. ASSUME NEW r \in Request, RequestStep(r) PROVE IInv'
  BY <1>1, ResolveStep, SnapshotStep, LookUpStep, CheckStep, FreeStep, StoreStep,
     ForwardStep, ApplyForwardedStep, RespondOKStep DEF RequestStep
<1>2. CASE IAMStep
  BY <1>2, ChangeStep, PushStep DEF IAMStep
<1>3. CASE WatcherStep
  BY <1>3, PollStep, PollFlushStep DEF WatcherStep
<1>4. CASE ReloadCatalog \/ ReloadFlush \/ Tick
  BY <1>4, ReloadStep
<1>5. CASE UNCHANGED vars
  <2>1. UNCHANGED <<cacheVars, now, iamVars, configVars, req, watcher, historyVars>>
    BY <1>5 DEF vars, cacheVars, iamVars, configVars, historyVars
  <2>2. Advance
    BY <2>1, QuietAdvance DEF cacheVars, iamVars, historyVars
  <2>3. /\ Table(Decision)' /\ NoStaleSurvivor' /\ RequestInv' /\ ChangeInv'
        /\ WatcherInv'
    BY <2>1, <2>2, KeepCache, AllStay, ChangesStay, WatcherStays
    DEF iamVars, historyVars
  <2>4. RestTypeOK'
    BY <2>1 DEF cacheVars, iamVars, configVars, historyVars, IInv, TypeOK,
                CacheTypeOK, RestTypeOK, Revision
  <2> QED
    BY <2>2, <2>3, <2>4, Together
<1> QED
  BY <1>1, <1>2, <1>3, <1>4, <1>5 DEF Next

\* The inductive invariant of the decision cache.
THEOREM IInvHolds == Spec => []IInv
  BY InitIInv, NextIInv, PTL DEF Spec

\* Every reachable state is well typed.
THEOREM TypeCorrect == Spec => []TypeOK
<1>1. IInv => TypeOK
  BY DEF IInv
<1> QED
  BY <1>1, IInvHolds, PTL

\* putIfGen's guard is enough: no interleaving of requests, pushes, polls,
\* reloads and self-flushes leaves a decision in the cache that predates the last
\* invalidation of its subject.
THEOREM StaleNeverSurvives == Spec => []NoStaleSurvivor
<1>1. IInv => NoStaleSurvivor
  BY DEF IInv
<1> QED
  BY <1>1, IInvHolds, PTL

\* No request is decided on grants older than an invalidation of its subject
\* that preceded it.
THEOREM CurrentDecisions == Spec => []DecisionsAreCurrent
<1>1. IInv => DecisionsAreCurrent
  BY DEF IInv, RequestInv, Sound, DecisionsAreCurrent, At
<1> QED
  BY <1>1, IInvHolds, PTL

\* What is cached is at least as new as any change its subject's floor covers.
LEMMA CoveredIsSeen ==
  ASSUME IInv, NEW n \in Nat, NEW k \in DOMAIN items, n <= floor[SubjectOf[k]]
  PROVE  items[k].value.asOf >= n
<1>1. k \in Key /\ items[k] \in Entry(Decision)
  BY DEF IInv, Table
<1>2. SubjectOf[k] \in Subject /\ items[k].value.asOf \in Nat
  BY <1>1, DecisionAssumption DEF Entry, Decision
<1>3. floor[SubjectOf[k]] \in Nat /\ items[k].value.asOf >= floor[SubjectOf[k]]
  BY <1>2 DEF IInv, TypeOK, NoStaleSurvivor
<1> QED
  BY <1>2, <1>3

\* A row the drainer will not push again is seen by every cached decision.
THEOREM PushedChangesSeen == Spec => []SentRowsAreSeen
<1>1. IInv => SentRowsAreSeen
  <2>1. SUFFICES ASSUME IInv, NEW i \in sent, NEW k \in DOMAIN items,
                        SubjectOf[k] = log[i]
                 PROVE  items[k].value.asOf >= i
    BY DEF SentRowsAreSeen
  <2>2. i \in Nat /\ i <= floor[SubjectOf[k]]
    BY <2>1 DEF IInv, ChangeInv, TypeOK
  <2> QED
    BY <2>1, <2>2, CoveredIsSeen
<1> QED
  BY <1>1, IInvHolds, PTL

\* A change this replica answered for once IAM had applied it is seen too.
THEOREM OwnChangesSeen == Spec => []OwnMutationsAreSeen
<1>1. IInv => OwnMutationsAreSeen
  <2>1. SUFFICES ASSUME IInv, NEW i \in own, NEW k \in DOMAIN items,
                        SubjectOf[k] = log[i]
                 PROVE  items[k].value.asOf >= i
    BY DEF OwnMutationsAreSeen
  <2>2. i \in Nat /\ i <= floor[SubjectOf[k]]
    BY <2>1 DEF IInv, ChangeInv, TypeOK
  <2> QED
    BY <2>1, <2>2, CoveredIsSeen
<1> QED
  BY <1>1, IInvHolds, PTL

\* And so is every change the watcher's cursor has passed since it primed.
THEOREM PolledChangesSeen == Spec => []PolledChangesAreSeen
<1>1. IInv => PolledChangesAreSeen
  <2>1. SUFFICES ASSUME IInv, watcher.cursor > watcher.primedAt,
                        NEW k \in DOMAIN items
                 PROVE  items[k].value.asOf >= watcher.cursor
    BY DEF PolledChangesAreSeen
  <2>2. SubjectOf[k] \in Subject /\ watcher.cursor \in Nat
    BY <2>1, DecisionAssumption DEF IInv, Table, TypeOK
  <2>3. watcher.cursor <= floor[SubjectOf[k]]
    BY <2>1, <2>2 DEF IInv, WatcherInv
  <2> QED
    BY <2>1, <2>2, <2>3, CoveredIsSeen
<1> QED
  BY <1>1, IInvHolds, PTL
=============================================================================
