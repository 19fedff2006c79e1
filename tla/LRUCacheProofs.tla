--------------------------- MODULE LRUCacheProofs ---------------------------
(***************************************************************************)
(* What every method of LRUCache preserves and what it may change, for      *)
(* every key space, value space, capacity and time to live.  The proofs     *)
(* about the users of the cache cite these lemmas.                          *)
(***************************************************************************)
EXTENDS LRUCache, KeyListProofs

(* The cache.                                                              *)

\* The map and the list of a well-formed cache with values in V.
Table(V) ==
  /\ DOMAIN items \subseteq Key
  /\ items \in [DOMAIN items -> Entry(V)]
  /\ order \in Seq(Key)
  /\ IsFiniteSet(DOMAIN items)
  /\ ListMatchesMap

\* A step that stores nothing: what is in the map was there before.
Shrinks ==
  /\ DOMAIN items' \subseteq DOMAIN items
  /\ \A j \in DOMAIN items' : items'[j] = items[j]

\* A step that stores at most e under k.
Stores(k, e) ==
  \A j \in DOMAIN items' :
    \/ j = k /\ items'[j] = e
    \/ j \in DOMAIN items /\ items'[j] = items[j]

\* The empty cache of New is well formed.
LEMMA EmptyTable ==
  ASSUME NEW V, CacheInit
  PROVE  Table(V)
<1>1. DOMAIN items = {} /\ items \in [DOMAIN items -> Entry(V)]
  BY DEF CacheInit
<1>2. order \in Seq(Key) /\ IsInjective(order) /\ Range(order) = {}
  BY DEF CacheInit, IsInjective, Range
<1>3. IsFiniteSet({}) /\ Cardinality({}) = 0
  BY FS_EmptySet
<1> QED
  BY <1>1, <1>2, <1>3, CacheAssumption DEF Table, ListMatchesMap

\* Dropping one key keeps the cache well formed.
LEMMA DropTable ==
  ASSUME NEW V, NEW k, Table(V), Drop(k)
  PROVE  Table(V)' /\ Shrinks /\ DOMAIN items' = DOMAIN items \ {k}
<1>1. /\ DOMAIN items' = DOMAIN items \ {k}
      /\ \A j \in DOMAIN items' : items'[j] = items[j]
  BY DEF Drop, Restrict
<1>2. items' \in [DOMAIN items' -> Entry(V)]
  BY <1>1 DEF Drop, Restrict, Table
<1>3. /\ order' \in Seq(Key) /\ IsInjective(order')
      /\ Range(order') = DOMAIN items \ {k}
  BY WithoutElements DEF Drop, Table, ListMatchesMap
<1>4. /\ IsFiniteSet(DOMAIN items')
      /\ Cardinality(DOMAIN items') <= Cardinality(DOMAIN items)
      /\ Cardinality(DOMAIN items) \in Nat /\ Cardinality(DOMAIN items') \in Nat
  BY <1>1, FS_Subset, FS_CardinalityType DEF Table
<1>5. Cardinality(DOMAIN items') <= MaxSize
  BY <1>4, CacheAssumption DEF Table, ListMatchesMap
<1> QED
  BY <1>1, <1>2, <1>3, <1>4, <1>5 DEF Table, ListMatchesMap, Shrinks

\* Moving a present key to the front keeps the cache well formed.
LEMMA MoveTable ==
  ASSUME NEW k \in DOMAIN items, order \in Seq(Key), DOMAIN items \subseteq Key,
         ListMatchesMap
  PROVE  /\ MovedToFront(order, k) \in Seq(Key)
         /\ IsInjective(MovedToFront(order, k))
         /\ Range(MovedToFront(order, k)) = DOMAIN items
<1>1. /\ Without(order, k) \in Seq(Key)
      /\ IsInjective(Without(order, k))
      /\ Range(Without(order, k)) = DOMAIN items \ {k}
  BY WithoutElements DEF ListMatchesMap
<1> DEFINE rest == Without(order, k)
<1> HIDE DEF rest
<1>2. k \in Key /\ k \notin Range(rest)
  BY <1>1 DEF rest
<1>3. /\ <<k>> \o rest \in Seq(Key) /\ IsInjective(<<k>> \o rest)
      /\ Range(<<k>> \o rest) = Range(rest) \cup {k}
  BY <1>1, <1>2, PushFront DEF rest
<1>4. Range(rest) \cup {k} = DOMAIN items
  BY <1>1 DEF rest
<1> QED
  BY <1>3, <1>4 DEF MovedToFront, rest

\* Get stores nothing and keeps the cache well formed.
LEMMA GetTable ==
  ASSUME NEW V, NEW k, Table(V), Get(k)
  PROVE  Table(V)' /\ Shrinks /\ gen' = gen
<1>1. CASE k \in DOMAIN items /\ Drop(k)
  BY <1>1, DropTable DEF Get
<1>2. CASE UNCHANGED <<items, order>>
  BY <1>2 DEF Get, Table, ListMatchesMap, Shrinks
<1>3. CASE Live(k) /\ order' = MovedToFront(order, k) /\ UNCHANGED items
  <2>1. k \in DOMAIN items
    BY <1>3 DEF Live
  <2>2. /\ order' \in Seq(Key) /\ IsInjective(order')
        /\ Range(order') = DOMAIN items
    BY <1>3, <2>1, MoveTable DEF Table
  <2> QED
    BY <1>3, <2>2 DEF Get, Table, ListMatchesMap, Shrinks
<1> QED
  BY <1>1, <1>2, <1>3 DEF Get

\* putLocked stores the new entry under k, may evict one other key, and keeps
\* the cache well formed: in particular the map never outgrows maxSize.
LEMMA PutTable ==
  ASSUME NEW V, NEW k \in Key, NEW v \in V, NEW ttl \in Nat, now \in Nat,
         Table(V), putLocked(k, v, ttl)
  PROVE  /\ Table(V)'
         /\ Stores(k, [value |-> v, expiresAt |-> now + ttl])
         /\ DOMAIN items' \subseteq DOMAIN items \cup {k}
         /\ k \in DOMAIN items'
         /\ items'[k] = [value |-> v, expiresAt |-> now + ttl]
<1> DEFINE e     == [value |-> v, expiresAt |-> now + ttl]
           D     == DOMAIN items \cup {k}
           grown == [j \in D |-> IF j = k THEN e ELSE items[j]]
           list  == <<k>> \o order
           back  == list[Len(list)]
<1>1. e \in Entry(V) /\ D \subseteq Key
  BY DEF Entry, Table
<1>2. CASE k \in DOMAIN items
  <2>1. items' = [items EXCEPT ![k] = e] /\ order' = MovedToFront(order, k)
    BY <1>2 DEF putLocked
  <2>2. /\ order' \in Seq(Key) /\ IsInjective(order')
        /\ Range(order') = DOMAIN items
    BY <1>2, <2>1, MoveTable DEF Table
  <2>3. DOMAIN items' = DOMAIN items /\ items' \in [DOMAIN items' -> Entry(V)]
    BY <1>1, <2>1 DEF Table
  <2> QED
    BY <2>1, <2>2, <2>3 DEF Table, ListMatchesMap, Stores
<1>3. CASE k \notin DOMAIN items
  <2>1. /\ IsFiniteSet(D) /\ Cardinality(D) = Cardinality(DOMAIN items) + 1
        /\ Cardinality(DOMAIN items) \in Nat
    BY <1>3, FS_AddElement, FS_CardinalityType DEF Table
  <2>2. /\ list \in Seq(Key) /\ IsInjective(list)
        /\ Range(list) = D /\ Len(list) = Len(order) + 1
    BY <1>3, PushFront DEF Table, ListMatchesMap
  <2>3. grown \in [D -> Entry(V)] /\ DOMAIN grown = D
    BY <1>1 DEF Table
  <2>4. CASE Cardinality(D) <= MaxSize
    <3>1. items' = grown /\ order' = list
      BY <1>3, <2>1, <2>3, <2>4, CacheAssumption DEF putLocked
    <3> QED
      BY <1>1, <2>1, <2>2, <2>3, <2>4, <3>1 DEF Table, ListMatchesMap, Stores
  <2>5. CASE Cardinality(D) > MaxSize
    <3> DEFINE short == SubSeq(list, 1, Len(list) - 1)
    <3>1. items' = Restrict(grown, D \ {back}) /\ order' = short
      <4>1. ~(Cardinality(D) <= MaxSize)
        BY <2>1, <2>5, CacheAssumption
      <4>2. DOMAIN grown = D
        OBVIOUS
      <4> QED
        BY <1>3, <4>1, <4>2, Zenon DEF putLocked
    <3> HIDE DEF list, grown
    <3>2. Len(list) \in Nat \ {0} /\ DOMAIN list = 1..Len(list)
      BY <2>2 DEF Table
    <3>3. /\ short \in Seq(Key) /\ Len(short) = Len(list) - 1
          /\ DOMAIN short = 1..(Len(list) - 1)
          /\ \A n \in 1..(Len(list) - 1) : short[n] = list[n]
      BY <2>2, <3>2
    <3> HIDE DEF short
    <3>4. IsInjective(short)
      BY <2>2, <3>2, <3>3 DEF IsInjective
    <3>5. back \in D
      BY <2>2, <3>2 DEF Range
    <3>6. Range(short) = D \ {back}
      <4>1. ASSUME NEW x \in Range(short) PROVE x \in D \ {back}
        BY <2>2, <3>2, <3>3 DEF Range, IsInjective
      <4>2. ASSUME NEW x \in D \ {back} PROVE x \in Range(short)
        <5>1. PICK n \in 1..Len(list) : list[n] = x
          BY <2>2, <3>2 DEF Range
        <5>2. n \in 1..(Len(list) - 1)
          BY <3>2, <5>1
        <5> QED
          BY <3>3, <5>1, <5>2 DEF Range
      <4> QED
        BY <4>1, <4>2
    <3>7. /\ DOMAIN items' = D \ {back}
          /\ items' \in [D \ {back} -> Entry(V)]
          /\ \A j \in D \ {back} : items'[j] = grown[j]
      BY <2>3, <3>1 DEF Restrict
    <3>8. /\ IsFiniteSet(D \ {back})
          /\ Cardinality(D \ {back}) = Cardinality(D) - 1
      BY <2>1, <3>5, FS_RemoveElement
    <3>9. Cardinality(DOMAIN items') <= MaxSize
      BY <2>1, <3>7, <3>8, CacheAssumption DEF Table, ListMatchesMap
    <3>10. Table(V)'
      BY <1>1, <3>1, <3>3, <3>4, <3>6, <3>7, <3>8, <3>9 DEF Table, ListMatchesMap
    <3>11. Stores(k, e) /\ DOMAIN items' \subseteq D
      BY <3>7 DEF Stores, grown
    <3>12. back # k
      <4>1. Len(list) # 1
        <5>1. SUFFICES ASSUME Len(list) = 1 PROVE FALSE
          OBVIOUS
        <5>2. ASSUME NEW x \in DOMAIN items PROVE FALSE
          <6>1. x \in Range(list) /\ k \in Range(list)
            BY <2>2
          <6> QED
            BY <1>3, <3>2, <5>1, <5>2, <6>1 DEF Range
        <5>3. Cardinality(DOMAIN items) = 0
          BY <5>2, FS_EmptySet
        <5> QED
          BY <2>1, <2>5, <5>3, CacheAssumption
      <4>2. list[1] = k
        BY DEF list, Table
      <4> QED
        BY <2>2, <3>2, <4>1, <4>2 DEF IsInjective
    <3>13. k \in DOMAIN items' /\ items'[k] = e
      BY <3>7, <3>12 DEF grown
    <3> QED
      BY <3>10, <3>11, <3>13
  <2> QED
    BY <2>1, <2>4, <2>5, CacheAssumption
<1> QED
  BY <1>2, <1>3

\* putLocked moves or pushes k to the front and leaves the others in their order.
\* A key it evicts was the last of a full list.
LEMMA PutOrder ==
  ASSUME NEW V, NEW k \in Key, NEW v \in V, NEW ttl, Table(V), putLocked(k, v, ttl)
  PROVE  /\ \A x, y : Before(order', x, y) =>
                 \/ Before(order, x, y) /\ x # k /\ y # k
                 \/ x = k /\ y \in Range(order) \ {k}
         /\ \A z \in DOMAIN items \ DOMAIN items' :
              /\ z \in Range(order) \ {k}
              /\ Cardinality(DOMAIN items) = MaxSize
              /\ \A x \in DOMAIN items' : x = k \/ Before(order, x, z)
<1> DEFINE list  == <<k>> \o order
           D     == DOMAIN items \cup {k}
           back  == list[Len(list)]
           short == SubSeq(list, 1, Len(list) - 1)
<1>0. /\ order \in Seq(Key) /\ IsInjective(order) /\ Range(order) = DOMAIN items
      /\ Cardinality(DOMAIN items) <= MaxSize
  BY DEF Table, ListMatchesMap
<1>1. CASE k \in DOMAIN items
  <2>1. order' = MovedToFront(order, k) /\ DOMAIN items' = DOMAIN items
    BY <1>1 DEF putLocked, Table
  <2> QED
    BY <1>0, <2>1, MovedToFrontOrder
<1>2. CASE k \notin DOMAIN items
  <2>1. /\ IsFiniteSet(D) /\ Cardinality(D) = Cardinality(DOMAIN items) + 1
        /\ Cardinality(DOMAIN items) \in Nat
    BY <1>2, FS_AddElement, FS_CardinalityType DEF Table
  <2>2. /\ list \in Seq(Key) /\ IsInjective(list) /\ Range(list) = D
        /\ Len(list) = Len(order) + 1 /\ Len(order) \in Nat
    BY <1>0, <1>2, PushFront
  <2>3. ASSUME NEW x, NEW y
        PROVE  /\ Before(list, x, y) => \/ Before(order, x, y) /\ x # k /\ y # k
                                        \/ x = k /\ y \in Range(order) \ {k}
               /\ Before(list, x, y) => y # k
    <3>1. Before(list, x, y) <=> Before(order, x, y) \/ (x = k /\ y \in Range(order))
      BY <1>0, PushFrontOrder
    <3>2. Before(order, x, y) => x \in Range(order) /\ y \in Range(order)
      BY DEF Before, Range
    <3> QED BY <1>0, <1>2, <3>1, <3>2
  <2>4. CASE Cardinality(D) <= MaxSize
    <3>1. order' = list /\ DOMAIN items' = D
      BY <1>2, <2>1, <2>4, CacheAssumption DEF putLocked
    <3> QED
      BY <2>3, <3>1
  <2>5. CASE ~(Cardinality(D) <= MaxSize)
    <3>1. order' = short /\ DOMAIN items' = D \ {back}
      BY <1>2, <2>5, Zenon DEF putLocked, Restrict
    <3> HIDE DEF list
    <3>2. Len(list) \in Nat \ {0} /\ DOMAIN list = 1..Len(list)
      BY <2>2
    <3>3. /\ DOMAIN short = 1..(Len(list) - 1)
          /\ \A n \in 1..(Len(list) - 1) : short[n] = list[n]
      BY <2>2, <3>2
    <3> HIDE DEF short
    <3>4. ASSUME NEW x, NEW y PROVE Before(short, x, y) => Before(list, x, y)
      BY <3>2, <3>3 DEF Before
    <3>5. ASSUME NEW x \in D \ {back} PROVE Before(list, x, back)
      <4>1. PICK n \in 1..Len(list) : list[n] = x
        BY <2>2, <3>2 DEF Range
      <4>2. n < Len(list) /\ Len(list) \in DOMAIN list
        BY <3>2, <3>5, <4>1
      <4> QED
        BY <3>2, <4>1, <4>2 DEF Before
    <3>6. Cardinality(DOMAIN items) = MaxSize
      BY <1>0, <2>1, <2>5, CacheAssumption
    <3>7. ASSUME NEW z \in DOMAIN items \ DOMAIN items'
          PROVE  /\ z \in Range(order) \ {k}
                 /\ \A x \in DOMAIN items' : x = k \/ Before(order, x, z)
      <4>1. z = back
        BY <3>1
      <4>2. \A x \in DOMAIN items' : Before(list, x, z)
        BY <3>1, <3>5, <4>1
      <4> QED
        BY <1>0, <1>2, <2>3, <4>2
    <3> QED
      BY <2>3, <3>1, <3>4, <3>6, <3>7
  <2> QED
    BY <2>4, <2>5
<1> QED
  BY <1>1, <1>2

\* Peek stores nothing and keeps the cache well formed.
LEMMA PeekTable ==
  ASSUME NEW V, NEW k, Table(V), Peek(k)
  PROVE  Table(V)' /\ Shrinks /\ gen' = gen
<1>1. CASE Drop(k)
  BY <1>1, DropTable DEF Peek
<1>2. CASE UNCHANGED <<items, order>>
  BY <1>2 DEF Peek, Table, ListMatchesMap, Shrinks
<1> QED
  BY <1>1, <1>2 DEF Peek

\* The epoch-guarded write: it stores nothing unless the generation is the
\* caller's snapshot.
LEMMA PutIfGenTable ==
  ASSUME NEW V, NEW k \in Key, NEW v \in V, NEW ttl \in Int, NEW g, now \in Nat,
         Table(V), PutIfGenWithTTL(k, v, ttl, g)
  PROVE  LET t == IF ttl <= 0 THEN TTL ELSE ttl
         IN  /\ Table(V)' /\ gen' = gen
             /\ Stores(k, [value |-> v, expiresAt |-> now + t])
             /\ DOMAIN items' \subseteq DOMAIN items \cup {k}
             /\ gen # g => UNCHANGED <<items, order>>
<1> DEFINE t == IF ttl <= 0 THEN TTL ELSE ttl
<1>1. t \in Nat
  BY CacheAssumption
<1>2. CASE gen # g /\ UNCHANGED <<items, order>>
  BY <1>2 DEF PutIfGenWithTTL, Table, ListMatchesMap, Stores
<1>3. CASE gen = g /\ putLocked(k, v, t)
  BY <1>1, <1>3, PutTable DEF PutIfGenWithTTL
<1> QED
  BY <1>2, <1>3 DEF PutIfGenWithTTL

\* Invalidate leaves an empty cache under the next generation.
LEMMA InvalidateTable ==
  ASSUME NEW V, Invalidate
  PROVE  Table(V)' /\ Shrinks /\ DOMAIN items' = {} /\ gen' = gen + 1
<1>1. DOMAIN items' = {} /\ items' \in [DOMAIN items' -> Entry(V)]
  BY DEF Invalidate
<1>2. order' \in Seq(Key) /\ IsInjective(order') /\ Range(order') = {}
  BY DEF Invalidate, IsInjective, Range
<1>3. IsFiniteSet({}) /\ Cardinality({}) = 0
  BY FS_EmptySet
<1> QED
  BY <1>1, <1>2, <1>3, CacheAssumption
  DEF Table, ListMatchesMap, Shrinks, Invalidate

\* InvalidateWhere drops exactly the keys of the class, under the next generation.
LEMMA InvalidateWhereTable ==
  ASSUME NEW V, NEW K, Table(V), InvalidateWhere(K)
  PROVE  /\ Table(V)' /\ Shrinks
         /\ DOMAIN items' = DOMAIN items \ K
         /\ gen' = gen + 1
<1>1. /\ DOMAIN items' = DOMAIN items \ K
      /\ \A j \in DOMAIN items' : items'[j] = items[j]
  BY DEF InvalidateWhere, Restrict
<1>2. items' \in [DOMAIN items' -> Entry(V)]
  BY <1>1 DEF InvalidateWhere, Restrict, Table
<1>3. /\ IsFiniteSet(DOMAIN items')
      /\ Cardinality(DOMAIN items') <= Cardinality(DOMAIN items)
      /\ Cardinality(DOMAIN items) \in Nat /\ Cardinality(DOMAIN items') \in Nat
  BY <1>1, FS_Subset, FS_CardinalityType DEF Table
<1>4. Cardinality(DOMAIN items') <= MaxSize
  BY <1>3, CacheAssumption DEF Table, ListMatchesMap
<1>5. DOMAIN items' = Range(order) \ K /\ IsInjective(order) /\ order \in Seq(Key)
  BY <1>1 DEF Table, ListMatchesMap
<1>6. order' \in Kept(order, K)
  BY DEF InvalidateWhere
<1>7. /\ order' \in Seq(Key) /\ IsInjective(order')
      /\ Range(order') = DOMAIN items'
  BY <1>3, <1>5, <1>6, KeptElements
<1> QED
  BY <1>1, <1>2, <1>3, <1>4, <1>7
  DEF Table, ListMatchesMap, Shrinks, InvalidateWhere
=============================================================================
