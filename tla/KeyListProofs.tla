--------------------------- MODULE KeyListProofs ---------------------------
(***************************************************************************)
(* What the list operations of KeyList do to the keys of a list without     *)
(* duplicates.                                                              *)
(***************************************************************************)
EXTENDS KeyList, FiniteSetTheorems, SequenceTheorems, TLAPS

\* Taking out position i shifts the later elements down by one.
LEMMA RemoveAtElements ==
  ASSUME NEW S, NEW s \in Seq(S), NEW i \in 1..Len(s)
  PROVE  /\ RemoveAt(s, i) \in Seq(S)
         /\ Len(RemoveAt(s, i)) = Len(s) - 1
         /\ \A j \in 1..(Len(s) - 1) :
              RemoveAt(s, i)[j] = IF j < i THEN s[j] ELSE s[j + 1]
<1> DEFINE a == SubSeq(s, 1, i - 1)
           b == SubSeq(s, i + 1, Len(s))
           c == a \o b
<1>1. /\ a \in Seq(S) /\ Len(a) = i - 1
      /\ \A j \in 1..(i - 1) : a[j] = s[j]
  OBVIOUS
<1>2. /\ b \in Seq(S) /\ Len(b) = Len(s) - i
      /\ \A j \in 1..(Len(s) - i) : b[j] = s[i + j]
  OBVIOUS
<1> HIDE DEF a, b
<1>3. /\ c \in Seq(S)
      /\ Len(c) = Len(a) + Len(b)
      /\ \A j \in 1..(Len(a) + Len(b)) :
           c[j] = IF j <= Len(a) THEN a[j] ELSE b[j - Len(a)]
  BY <1>1, <1>2, ConcatProperties
<1> HIDE DEF c
<1>4. Len(a) + Len(b) = Len(s) - 1
  BY <1>1, <1>2
<1>5. ASSUME NEW j \in 1..(Len(s) - 1)
      PROVE  c[j] = IF j < i THEN s[j] ELSE s[j + 1]
  <2>1. CASE j < i
    BY <1>1, <1>3, <1>4, <2>1
  <2>2. CASE j >= i
    <3>1. c[j] = b[j - (i - 1)]
      BY <1>1, <1>3, <1>4, <2>2
    <3>2. PICK m \in 1..(Len(s) - i) : m = j - (i - 1) /\ i + m = j + 1
      BY <2>2
    <3>3. b[m] = s[j + 1]
      BY <1>2, <3>2
    <3>4. ~(j < i)
      BY <2>2
    <3>5. c[j] = s[j + 1]
      BY <3>1, <3>2, <3>3
    <3> QED
      BY <3>4, <3>5
  <2> QED
    BY <2>1, <2>2
<1> QED
  BY <1>3, <1>4, <1>5 DEF RemoveAt, a, b, c

\* Removing k from a list leaves a list.
LEMMA WithoutType ==
  ASSUME NEW S, NEW s \in Seq(S), NEW k
  PROVE  Without(s, k) \in Seq(S)
<1>1. CASE k \notin Range(s)
  BY <1>1 DEF Without
<1>2. CASE k \in Range(s)
  <2> DEFINE i == CHOOSE n \in DOMAIN s : s[n] = k
  <2>1. i \in 1..Len(s)
    BY <1>2 DEF Range
  <2>2. Without(s, k) = RemoveAt(s, i)
    BY <1>2 DEF Without
  <2> HIDE DEF i
  <2> QED
    BY <2>1, <2>2, RemoveAtElements
<1> QED
  BY <1>1, <1>2

\* Removing k from a list without duplicates leaves the other elements.
LEMMA WithoutElements ==
  ASSUME NEW S, NEW s \in Seq(S), IsInjective(s), NEW k
  PROVE  /\ Without(s, k) \in Seq(S)
         /\ IsInjective(Without(s, k))
         /\ Range(Without(s, k)) = Range(s) \ {k}
<1>1. CASE k \notin Range(s)
  BY <1>1 DEF Without, Range
<1>2. CASE k \in Range(s)
  <2> DEFINE i == CHOOSE n \in DOMAIN s : s[n] = k
             t == RemoveAt(s, i)
  <2>1. i \in 1..Len(s) /\ s[i] = k
    BY <1>2 DEF Range
  <2>2. Without(s, k) = t
    BY <1>2 DEF Without
  <2> HIDE DEF i
  <2>3. /\ t \in Seq(S)
        /\ Len(t) = Len(s) - 1
        /\ \A j \in 1..(Len(s) - 1) : t[j] = IF j < i THEN s[j] ELSE s[j + 1]
    BY <2>1, RemoveAtElements
  <2> HIDE DEF t
  <2>4. IsInjective(t)
    <3>1. DOMAIN t = 1..(Len(s) - 1) /\ DOMAIN s = 1..Len(s)
      BY <2>3
    <3>2. SUFFICES ASSUME NEW m \in 1..(Len(s) - 1), NEW n \in 1..(Len(s) - 1),
                          t[m] = t[n]
                   PROVE  m = n
      BY <3>1 DEF IsInjective
    <3> DEFINE up(j) == IF j < i THEN j ELSE j + 1
    <3>3. up(m) \in DOMAIN s /\ up(n) \in DOMAIN s /\ s[up(m)] = s[up(n)]
      BY <2>1, <2>3, <3>1, <3>2
    <3>4. up(m) = up(n)
      BY <3>3 DEF IsInjective
    <3> QED
      BY <2>1, <3>4
  <2>5. Range(t) = Range(s) \ {k}
    <3>1. ASSUME NEW x \in Range(t) PROVE x \in Range(s) \ {k}
      BY <2>1, <2>3, <3>1 DEF Range, IsInjective
    <3>2. ASSUME NEW x \in Range(s) \ {k} PROVE x \in Range(t)
      <4>1. PICK n \in 1..Len(s) : s[n] = x /\ n # i
        BY <2>1 DEF Range
      <4>2. CASE n < i
        BY <2>1, <2>3, <4>1, <4>2 DEF Range
      <4>3. CASE n > i
        <5>1. n - 1 \in 1..(Len(s) - 1) /\ t[n - 1] = s[n]
          BY <2>1, <2>3, <4>1, <4>3
        <5> QED
          BY <2>3, <4>1, <5>1 DEF Range
      <4> QED
        BY <2>1, <4>1, <4>2, <4>3
    <3> QED
      BY <3>1, <3>2
  <2> QED
    BY <2>2, <2>3, <2>4, <2>5
<1> QED
  BY <1>1, <1>2

\* Pushing a new element to the front of a list without duplicates.
LEMMA PushFront ==
  ASSUME NEW S, NEW s \in Seq(S), IsInjective(s), NEW k \in S, k \notin Range(s)
  PROVE  /\ <<k>> \o s \in Seq(S)
         /\ IsInjective(<<k>> \o s)
         /\ Range(<<k>> \o s) = Range(s) \cup {k}
         /\ Len(<<k>> \o s) = Len(s) + 1
<1> DEFINE t == <<k>> \o s
<1>1. /\ t \in Seq(S)
      /\ Len(t) = Len(s) + 1
      /\ t[1] = k
      /\ \A j \in 1..Len(s) : t[j + 1] = s[j]
  OBVIOUS
<1> HIDE DEF t
<1>2. ASSUME NEW n \in 1..Len(t), n # 1
      PROVE  n - 1 \in 1..Len(s) /\ t[n] = s[n - 1]
  <2>1. n - 1 \in 1..Len(s) /\ (n - 1) + 1 = n
    BY <1>1, <1>2
  <2> QED
    BY <1>1, <2>1
<1>3. DOMAIN t = 1..Len(t) /\ DOMAIN s = 1..Len(s)
  BY <1>1
<1>4. IsInjective(t)
  <2>1. SUFFICES ASSUME NEW m \in 1..Len(t), NEW n \in 1..Len(t), t[m] = t[n]
                 PROVE  m = n
    BY <1>3 DEF IsInjective
  <2>2. CASE m = 1 \/ n = 1
    BY <1>1, <1>2, <1>3, <2>1, <2>2 DEF Range
  <2>3. CASE m # 1 /\ n # 1
    <3>1. m - 1 \in DOMAIN s /\ n - 1 \in DOMAIN s /\ s[m - 1] = s[n - 1]
      BY <1>2, <1>3, <2>1, <2>3
    <3>2. m - 1 = n - 1
      BY <3>1 DEF IsInjective
    <3> QED
      BY <3>2
  <2> QED
    BY <2>2, <2>3
<1>5. Range(t) = Range(s) \cup {k}
  <2>1. ASSUME NEW x \in Range(t) PROVE x \in Range(s) \cup {k}
    BY <1>1, <1>2, <1>3 DEF Range
  <2>2. ASSUME NEW x \in Range(s) PROVE x \in Range(t)
    <3>1. PICK n \in 1..Len(s) : s[n] = x
      BY <1>3 DEF Range
    <3>2. n + 1 \in DOMAIN t /\ t[n + 1] = x
      BY <1>1, <1>3, <3>1
    <3> QED
      BY <3>2 DEF Range
  <2>3. k \in Range(t)
    BY <1>1, <1>3 DEF Range
  <2> QED
    BY <2>1, <2>2, <2>3
<1> QED
  BY <1>1, <1>4, <1>5 DEF t

\* Pushing a new element to the back of a list without duplicates.
LEMMA PushBack ==
  ASSUME NEW S, NEW s \in Seq(S), IsInjective(s), NEW k \in S, k \notin Range(s)
  PROVE  /\ Append(s, k) \in Seq(S)
         /\ IsInjective(Append(s, k))
         /\ Range(Append(s, k)) = Range(s) \cup {k}
<1> DEFINE t == Append(s, k)
<1>1. /\ t \in Seq(S)
      /\ Len(t) = Len(s) + 1
      /\ t[Len(s) + 1] = k
      /\ \A j \in 1..Len(s) : t[j] = s[j]
  OBVIOUS
<1> HIDE DEF t
<1>2. DOMAIN t = 1..(Len(s) + 1) /\ DOMAIN s = 1..Len(s)
  BY <1>1
<1>3. \A n \in DOMAIN t : n \in DOMAIN s \/ n = Len(s) + 1
  BY <1>2
<1>4. \A n \in DOMAIN s : n \in DOMAIN t /\ n # Len(s) + 1 /\ t[n] = s[n] /\ t[n] # k
  BY <1>1, <1>2 DEF Range
<1>5. Len(s) + 1 \in DOMAIN t
  BY <1>2
<1>6. IsInjective(t)
  BY <1>1, <1>3, <1>4 DEF IsInjective
<1>7. Range(t) = Range(s) \cup {k}
  BY <1>1, <1>3, <1>4, <1>5 DEF Range
<1> QED
  BY <1>1, <1>6, <1>7 DEF t

\* Taking the front element off a list without duplicates.
LEMMA PopFront ==
  ASSUME NEW S, NEW s \in Seq(S), IsInjective(s), s # <<>>
  PROVE  /\ s[1] \in Range(s)
         /\ Tail(s) \in Seq(S)
         /\ IsInjective(Tail(s))
         /\ Range(Tail(s)) = Range(s) \ {s[1]}
<1> DEFINE t == Tail(s)
<1>1. /\ t \in Seq(S)
      /\ Len(s) \in Nat \ {0}
      /\ Len(t) = Len(s) - 1
      /\ \A j \in 1..(Len(s) - 1) : t[j] = s[j + 1]
  OBVIOUS
<1> HIDE DEF t
<1>2. DOMAIN t = 1..(Len(s) - 1) /\ DOMAIN s = 1..Len(s)
  BY <1>1
<1>3. 1 \in DOMAIN s
  BY <1>1, <1>2
<1>4. ASSUME NEW n \in DOMAIN t
      PROVE  n + 1 \in DOMAIN s /\ n + 1 # 1 /\ t[n] = s[n + 1]
  BY <1>1, <1>2
<1>5. ASSUME NEW n \in DOMAIN s, n # 1
      PROVE  n - 1 \in DOMAIN t /\ t[n - 1] = s[n]
  <2>1. n - 1 \in 1..(Len(s) - 1) /\ (n - 1) + 1 = n
    BY <1>1, <1>2, <1>5
  <2> QED
    BY <1>1, <1>2, <2>1
<1>6. IsInjective(t)
  <2>1. SUFFICES ASSUME NEW m \in DOMAIN t, NEW n \in DOMAIN t, t[m] = t[n]
                 PROVE  m = n
    BY DEF IsInjective
  <2>2. m + 1 = n + 1
    BY <1>4, <2>1 DEF IsInjective
  <2> QED
    BY <1>2, <2>2
<1>7. Range(t) = Range(s) \ {s[1]}
  <2>1. ASSUME NEW x \in Range(t) PROVE x \in Range(s) /\ x # s[1]
    <3>1. PICK n \in DOMAIN t : x = t[n]
      BY DEF Range
    <3>2. n + 1 \in DOMAIN s /\ n + 1 # 1 /\ x = s[n + 1]
      BY <1>4, <3>1
    <3> QED
      BY <1>3, <3>2 DEF Range, IsInjective
  <2>2. ASSUME NEW x \in Range(s), x # s[1] PROVE x \in Range(t)
    <3>1. PICK n \in DOMAIN s : x = s[n]
      BY DEF Range
    <3>2. n - 1 \in DOMAIN t /\ t[n - 1] = x
      BY <1>5, <2>2, <3>1
    <3> QED
      BY <3>2 DEF Range
  <2> QED
    BY <2>1, <2>2
<1> QED
  BY <1>1, <1>3, <1>6, <1>7 DEF t, Range

\* Removing the keys K from a list without duplicates leaves the other keys.
LEMMA KeptElements ==
  ASSUME NEW S, NEW list \in Seq(S), IsInjective(list), NEW K,
         IsFiniteSet(Range(list) \ K), NEW s \in Kept(list, K)
  PROVE  /\ s \in Seq(S)
         /\ IsInjective(s)
         /\ Range(s) = Range(list) \ K
<1> DEFINE kept == Range(list) \ K
           n    == Cardinality(kept)
<1>1. kept \subseteq S /\ n \in Nat
  BY FS_CardinalityType DEF Range
<1>2. /\ s \in [1..n -> kept]
      /\ Range(s) = kept
      /\ \A i, j \in DOMAIN s :
           i < j => \E p, q \in DOMAIN list :
                      p < q /\ list[p] = s[i] /\ list[q] = s[j]
  BY DEF Kept
<1> HIDE DEF kept, n
<1>3. s \in Seq(S)
  BY <1>1, <1>2
<1>4. IsInjective(s)
  <2>1. DOMAIN s = 1..n /\ DOMAIN list = 1..Len(list)
    BY <1>2
  <2>2. ASSUME NEW i \in 1..n, NEW j \in 1..n, i < j, s[i] = s[j]
        PROVE  FALSE
    <3>1. PICK p \in DOMAIN list, q \in DOMAIN list :
            p < q /\ list[p] = s[i] /\ list[q] = s[j]
      BY <1>2, <2>1, <2>2
    <3>2. p = q
      BY <2>2, <3>1 DEF IsInjective
    <3> QED
      BY <2>1, <3>1, <3>2
  <2>3. SUFFICES ASSUME NEW i \in 1..n, NEW j \in 1..n, s[i] = s[j]
                 PROVE  i = j
    BY <2>1 DEF IsInjective
  <2> QED
    BY <1>1, <2>2, <2>3
<1> QED
  BY <1>2, <1>3, <1>4 DEF kept

-----------------------------------------------------------------------------
(* The order of the keys in a list.                                        *)

\* x stands somewhere before y.
Before(s, x, y) == \E p, q \in DOMAIN s : p < q /\ s[p] = x /\ s[q] = y

\* Removing k leaves the others in their order.
LEMMA WithoutOrder ==
  ASSUME NEW S, NEW s \in Seq(S), IsInjective(s), NEW k, NEW x, NEW y
  PROVE  Before(Without(s, k), x, y) <=> Before(s, x, y) /\ x # k /\ y # k
<1>1. CASE k \notin Range(s)
  BY <1>1 DEF Without, Range, Before
<1>2. CASE k \in Range(s)
  <2> DEFINE i == CHOOSE n \in DOMAIN s : s[n] = k
             t == RemoveAt(s, i)
  <2>1. i \in 1..Len(s) /\ s[i] = k
    BY <1>2 DEF Range
  <2>2. Without(s, k) = t
    BY <1>2 DEF Without
  <2> HIDE DEF i
  <2>3. /\ t \in Seq(S)
        /\ Len(t) = Len(s) - 1
        /\ \A j \in 1..(Len(s) - 1) : t[j] = IF j < i THEN s[j] ELSE s[j + 1]
    BY <2>1, RemoveAtElements
  <2> HIDE DEF t
  <2>4. DOMAIN t = 1..(Len(s) - 1) /\ DOMAIN s = 1..Len(s) /\ Len(s) \in Nat
    BY <2>3
  <2> DEFINE up(j) == IF j < i THEN j ELSE j + 1
             down(j) == IF j < i THEN j ELSE j - 1
  <2>5. ASSUME NEW j \in 1..(Len(s) - 1)
        PROVE  up(j) \in 1..Len(s) /\ up(j) # i /\ t[j] = s[up(j)]
    BY <2>1, <2>3, <2>4
  <2>6. ASSUME NEW j \in 1..Len(s), j # i
        PROVE  down(j) \in 1..(Len(s) - 1) /\ t[down(j)] = s[j]
    <3>1. down(j) \in 1..(Len(s) - 1) /\ up(down(j)) = j
      BY <2>1, <2>4, <2>6
    <3> HIDE DEF up, down
    <3> QED BY <2>5, <3>1
  <2>7. ASSUME Before(t, x, y) PROVE Before(s, x, y) /\ x # k /\ y # k
    <3>1. PICK p \in 1..(Len(s) - 1), q \in 1..(Len(s) - 1) :
            p < q /\ t[p] = x /\ t[q] = y
      BY <2>4, <2>7 DEF Before
    <3>2. up(p) < up(q)
      BY <2>1, <2>4, <3>1
    <3> HIDE DEF up, down
    <3>3. up(p) \in DOMAIN s /\ up(q) \in DOMAIN s /\ s[up(p)] = x /\ s[up(q)] = y
          /\ up(p) # i /\ up(q) # i
      BY <2>4, <2>5, <3>1
    <3>4. x # k /\ y # k
      BY <2>1, <2>4, <3>3 DEF IsInjective
    <3> QED BY <3>2, <3>3, <3>4 DEF Before
  <2>8. ASSUME Before(s, x, y), x # k, y # k PROVE Before(t, x, y)
    <3>1. PICK p \in 1..Len(s), q \in 1..Len(s) : p < q /\ s[p] = x /\ s[q] = y
      BY <2>4, <2>8 DEF Before
    <3>2. p # i /\ q # i
      BY <2>1, <2>8, <3>1
    <3>3. down(p) < down(q)
      BY <2>1, <2>4, <3>1, <3>2
    <3> HIDE DEF up, down
    <3>4. /\ down(p) \in DOMAIN t /\ down(q) \in DOMAIN t
          /\ t[down(p)] = x /\ t[down(q)] = y
      BY <2>4, <2>6, <3>1, <3>2
    <3> QED BY <3>3, <3>4 DEF Before
  <2> QED
    BY <2>2, <2>7, <2>8
<1> QED
  BY <1>1, <1>2

\* An element at the front is before all the others.
LEMMA PushFrontOrder ==
  ASSUME NEW S, NEW s \in Seq(S), NEW k \in S, NEW x, NEW y
  PROVE  Before(<<k>> \o s, x, y) <=> Before(s, x, y) \/ (x = k /\ y \in Range(s))
<1> DEFINE t == <<k>> \o s
<1>1. /\ t \in Seq(S)
      /\ Len(t) = Len(s) + 1
      /\ t[1] = k
      /\ \A j \in 1..Len(s) : t[j + 1] = s[j]
  OBVIOUS
<1> HIDE DEF t
<1>2. DOMAIN t = 1..(Len(s) + 1) /\ DOMAIN s = 1..Len(s) /\ Len(s) \in Nat
  BY <1>1
<1>3. ASSUME NEW n \in DOMAIN t, n # 1
      PROVE  n - 1 \in DOMAIN s /\ t[n] = s[n - 1]
  <2>1. n - 1 \in 1..Len(s) /\ (n - 1) + 1 = n
    BY <1>2, <1>3
  <2> QED
    BY <1>1, <1>2, <2>1
<1>4. ASSUME Before(t, x, y) PROVE Before(s, x, y) \/ (x = k /\ y \in Range(s))
  <2>1. PICK p \in DOMAIN t, q \in DOMAIN t : p < q /\ t[p] = x /\ t[q] = y
    BY <1>4 DEF Before
  <2>2. q # 1
    BY <1>2, <2>1
  <2>3. q - 1 \in DOMAIN s /\ s[q - 1] = y
    BY <1>3, <2>1, <2>2
  <2>4. CASE p = 1
    BY <1>1, <2>1, <2>3, <2>4 DEF Range
  <2>5. CASE p # 1
    <3>1. p - 1 \in DOMAIN s /\ s[p - 1] = x /\ p - 1 < q - 1
      BY <1>2, <1>3, <2>1, <2>5
    <3> QED BY <2>3, <3>1 DEF Before
  <2> QED BY <2>4, <2>5
<1>5. ASSUME Before(s, x, y) PROVE Before(t, x, y)
  <2>1. PICK p \in DOMAIN s, q \in DOMAIN s : p < q /\ s[p] = x /\ s[q] = y
    BY <1>5 DEF Before
  <2>2. /\ p + 1 \in DOMAIN t /\ q + 1 \in DOMAIN t /\ p + 1 < q + 1
        /\ t[p + 1] = x /\ t[q + 1] = y
    BY <1>1, <1>2, <2>1
  <2> QED BY <2>2 DEF Before
<1>6. ASSUME x = k, y \in Range(s) PROVE Before(t, x, y)
  <2>1. PICK q \in DOMAIN s : s[q] = y
    BY <1>6 DEF Range
  <2>2. 1 \in DOMAIN t /\ q + 1 \in DOMAIN t /\ 1 < q + 1 /\ t[q + 1] = y
    BY <1>1, <1>2, <2>1
  <2> QED BY <1>1, <1>6, <2>2 DEF Before
<1> QED
  BY <1>4, <1>5, <1>6 DEF t

\* So is the element that was moved there.
LEMMA MovedToFrontOrder ==
  ASSUME NEW S, NEW s \in Seq(S), IsInjective(s), NEW k \in S, NEW x, NEW y
  PROVE  Before(MovedToFront(s, k), x, y) <=>
           \/ Before(s, x, y) /\ x # k /\ y # k
           \/ x = k /\ y \in Range(s) \ {k}
<1> DEFINE t == Without(s, k)
<1>1. t \in Seq(S) /\ Range(t) = Range(s) \ {k}
  BY WithoutElements
<1>2. Before(t, x, y) <=> Before(s, x, y) /\ x # k /\ y # k
  BY WithoutOrder
<1> HIDE DEF t
<1>3. Before(<<k>> \o t, x, y) <=> Before(t, x, y) \/ (x = k /\ y \in Range(t))
  BY <1>1, PushFrontOrder
<1> QED
  BY <1>1, <1>2, <1>3 DEF MovedToFront, t

\* What moves to the front of a list without duplicates is in it once.
LEMMA MovedToFrontElements ==
  ASSUME NEW S, NEW s \in Seq(S), IsInjective(s), NEW k \in S
  PROVE  /\ MovedToFront(s, k) \in Seq(S)
         /\ IsInjective(MovedToFront(s, k))
         /\ Range(MovedToFront(s, k)) = Range(s) \cup {k}
<1> DEFINE t == Without(s, k)
<1>1. t \in Seq(S) /\ IsInjective(t) /\ Range(t) = Range(s) \ {k}
  BY WithoutElements
<1> HIDE DEF t
<1>2. /\ <<k>> \o t \in Seq(S) /\ IsInjective(<<k>> \o t)
      /\ Range(<<k>> \o t) = Range(t) \cup {k}
  BY <1>1, PushFront
<1> QED
  BY <1>1, <1>2 DEF MovedToFront, t
=============================================================================
