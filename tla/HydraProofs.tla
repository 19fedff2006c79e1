---------------------------- MODULE HydraProofs -----------------------------
(***************************************************************************)
(* Proofs about what the gateway keeps of Hydra's: its signing keys        *)
(* (JWKSCache) and the browsers' logins (Session).                         *)
(***************************************************************************)
EXTENDS JWKSCache, Session, FiniteSetTheorems, TLAPS

-----------------------------------------------------------------------------
(***************************************************************************)
(* JWKSCache, for any keys, verifications, time to live, fetch timeout and *)
(* number of rotations.                                                    *)
(*                                                                         *)
(* The properties speak of the cached set and of answers; a set becomes old*)
(* while it is still in the body of a fetch. The invariant dates the body  *)
(* of a fetch from the moment the fetch was begun, which is at most        *)
(* FetchTimeout ago, and the cached set from the moment it was stored.     *)
(***************************************************************************)

HoldsLock(q) == q.pc \in {"locked", "fetching", "fetched"}
Fetching(q) == q.pc \in {"fetching", "fetched"}

\* fetchMu is held by the one verification between the lock and the unlock.
LockInv == \A v \in Verifier : HoldsLock(ver[v]) <=> fetchMu = v

\* The keys S are what the endpoint served at t or later: a key in it was served
\* since, and a key not in it was not.
ServedSince(S, t) ==
  /\ \A k \in S : LastServed(k) >= t
  /\ \A k \in published \ S : servedFrom[k] >= t

CacheInv ==
  /\ fetchedAt <= now
  /\ \A k \in Kid : retiredAt[k] <= now /\ servedFrom[k] <= now
  /\ set # {} => ServedSince(set, fetchedAt - FetchTimeout)

\* What a verification has established.
VerifierInv(q) ==
  /\ q.start <= now
  /\ Fetching(q) => q.asked <= now /\ now <= q.asked + FetchTimeout /\ ~Fresh
  /\ q.pc = "fetched" => q.body # {} /\ ServedSince(q.body, q.asked)
  /\ q.pc = "refreshed" => set # {} /\ fetchedAt + TTL > q.start
  /\ q.pc = "resolved" => q.from + TTL >= q.start
  /\ q.pc = "notfound" /\ q.kid \in published =>
       servedFrom[q.kid] + TTL + FetchTimeout > q.start

KeysInv ==
  /\ KeysTypeOK
  /\ LockInv
  /\ CacheInv
  /\ \A v \in Verifier : VerifierInv(ver[v])

-----------------------------------------------------------------------------
(* The steps of a verification.                                            *)

\* A step of one verification that changes neither the cached set, nor Hydra, nor
\* the time: what it becomes is all there is to show.
LEMMA VerifierStep ==
  ASSUME KeysInv, NEW v \in Verifier, NEW q \in VerifierState,
         ver' = [ver EXCEPT ![v] = q], VerifierInv(q),
         UNCHANGED <<set, fetchedAt, hydraVars, now>>,
         \/ fetchMu' = fetchMu /\ (HoldsLock(q) <=> HoldsLock(ver[v]))
         \/ fetchMu = NoHolder /\ fetchMu' = v /\ HoldsLock(q)
         \/ HoldsLock(ver[v]) /\ fetchMu' = NoHolder /\ ~HoldsLock(q)
  PROVE  KeysInv'
<1>1. KeysTypeOK'
  BY DEF KeysInv, KeysTypeOK, hydraVars
<1>2. LockInv'
  <2>1. \A w \in Verifier : ver'[w] = IF w = v THEN q ELSE ver[w]
    BY DEF KeysInv, KeysTypeOK
  <2>2. ASSUME NEW w \in Verifier PROVE HoldsLock(ver'[w]) <=> fetchMu' = w
    BY <2>1, JWKSAssumption DEF KeysInv, LockInv
  <2> QED BY <2>2 DEF LockInv, HoldsLock
<1>3. CacheInv'
  BY DEF KeysInv, CacheInv, ServedSince, LastServed, hydraVars
<1>4. ASSUME NEW w \in Verifier PROVE VerifierInv(ver[w])'
  <2>1. PICK p : p = ver'[w]
    OBVIOUS
  <2>2. VerifierInv(p)
    BY <2>1 DEF KeysInv, KeysTypeOK
  <2>3. VerifierInv(p)'
    BY <2>2 DEF VerifierInv, ServedSince, LastServed, Fresh, hydraVars
  <2> QED BY <2>1, <2>3
<1> QED BY <1>1, <1>2, <1>3, <1>4 DEF KeysInv

LEMMA KeysInitInv == KeysInit => KeysInv
<1> SUFFICES ASSUME KeysInit PROVE KeysInv
  OBVIOUS
<1>1. Idle \in VerifierState /\ Idle.pc = "idle" /\ Idle.start = 0
  BY DEF Idle, VerifierState
<1>2. KeysTypeOK
  BY <1>1 DEF KeysInit, KeysTypeOK
<1>3. LockInv
  BY <1>1, JWKSAssumption DEF KeysInit, LockInv, HoldsLock
<1>4. CacheInv
  BY DEF KeysInit, CacheInv
<1>5. \A v \in Verifier : VerifierInv(ver[v])
  BY <1>1 DEF KeysInit, VerifierInv, Fetching
<1> QED BY <1>2, <1>3, <1>4, <1>5 DEF KeysInv

LEMMA LookupInv ==
  ASSUME KeysInv, NEW v \in Verifier, NEW kid \in Kid \cup {NoKid}, Lookup(v, kid)
  PROVE  KeysInv'
<1> DEFINE begun == [Idle EXCEPT !.kid = kid, !.start = now]
           found == [begun EXCEPT !.pc = "resolved", !.from = fetchedAt]
           sought == [begun EXCEPT !.pc = "waiting"]
<1>1. now \in Nat /\ fetchedAt \in Nat
  BY DEF KeysInv, KeysTypeOK
<1>2. /\ found \in VerifierState /\ found.pc = "resolved"
      /\ found.start = now /\ found.from = fetchedAt
  BY <1>1 DEF Idle, VerifierState
<1>3. /\ sought \in VerifierState /\ sought.pc = "waiting" /\ sought.start = now
  BY <1>1 DEF Idle, VerifierState
<1>4. /\ ver[v].pc = "idle" /\ fetchMu' = fetchMu
      /\ UNCHANGED <<set, fetchedAt, hydraVars, now>>
      /\ \/ ~Stale /\ ver' = [ver EXCEPT ![v] = found]
         \/ ver' = [ver EXCEPT ![v] = sought]
  BY DEF Lookup, At, cacheVars
<1> HIDE DEF found, sought, begun
<1>5. CASE ~Stale /\ ver' = [ver EXCEPT ![v] = found]
  <2>1. now - fetchedAt <= TTL
    BY <1>1, <1>5, JWKSAssumption DEF Stale
  <2>2. VerifierInv(found)
    BY <1>1, <1>2, <2>1, JWKSAssumption DEF VerifierInv, Fetching
  <2> QED BY <1>2, <1>4, <1>5, <2>2, VerifierStep DEF HoldsLock
<1>6. CASE ver' = [ver EXCEPT ![v] = sought]
  <2>1. VerifierInv(sought)
    BY <1>1, <1>3 DEF VerifierInv, Fetching
  <2> QED BY <1>3, <1>4, <1>6, <2>1, VerifierStep DEF HoldsLock
<1> QED BY <1>4, <1>5, <1>6

LEMMA LockFetchInv ==
  ASSUME KeysInv, NEW v \in Verifier, LockFetch(v)
  PROVE  KeysInv'
<1> DEFINE q == [ver[v] EXCEPT !.pc = "locked"]
<1>1. ver[v] \in VerifierState /\ VerifierInv(ver[v])
  BY DEF KeysInv, KeysTypeOK
<1>2. q \in VerifierState /\ q.pc = "locked" /\ q.start = ver[v].start
  BY <1>1 DEF VerifierState
<1>3. /\ ver' = [ver EXCEPT ![v] = q] /\ fetchMu = NoHolder /\ fetchMu' = v
      /\ UNCHANGED <<set, fetchedAt, hydraVars, now>>
  BY DEF LockFetch
<1> HIDE DEF q
<1>4. VerifierInv(q)
  BY <1>1, <1>2 DEF VerifierInv, Fetching
<1> QED BY <1>2, <1>3, <1>4, VerifierStep DEF HoldsLock

LEMMA DoubleCheckInv ==
  ASSUME KeysInv, NEW v \in Verifier, DoubleCheck(v)
  PROVE  KeysInv'
<1> DEFINE shared == [ver[v] EXCEPT !.pc = "refreshed"]
           asking == [ver[v] EXCEPT !.pc = "fetching", !.asked = now]
<1>1. ver[v] \in VerifierState /\ VerifierInv(ver[v]) /\ now \in Nat /\ fetchedAt \in Nat
  BY DEF KeysInv, KeysTypeOK
<1>2. shared \in VerifierState /\ shared.pc = "refreshed" /\ shared.start = ver[v].start
  BY <1>1 DEF VerifierState
<1>3. /\ asking \in VerifierState /\ asking.pc = "fetching"
      /\ asking.start = ver[v].start /\ asking.asked = now
  BY <1>1 DEF VerifierState
<1>4. /\ ver[v].pc = "locked" /\ UNCHANGED <<set, fetchedAt, hydraVars, now>>
      /\ \/ Fresh /\ fetchMu' = NoHolder /\ ver' = [ver EXCEPT ![v] = shared]
         \/ ~Fresh /\ fetchMu' = fetchMu /\ ver' = [ver EXCEPT ![v] = asking]
  BY DEF DoubleCheck, At
<1>5. ver[v].start \in Nat /\ ver[v].start <= now
  BY <1>1 DEF VerifierState, VerifierInv
<1> HIDE DEF shared, asking
<1>6. CASE Fresh /\ fetchMu' = NoHolder /\ ver' = [ver EXCEPT ![v] = shared]
  <2>1. set # {} /\ fetchedAt + TTL > ver[v].start
    BY <1>1, <1>5, <1>6, JWKSAssumption DEF Fresh
  <2>2. VerifierInv(shared)
    BY <1>2, <1>5, <2>1 DEF VerifierInv, Fetching
  <2> QED BY <1>2, <1>4, <1>6, <2>2, VerifierStep DEF HoldsLock
<1>7. CASE ~Fresh /\ fetchMu' = fetchMu /\ ver' = [ver EXCEPT ![v] = asking]
  <2>1. now <= now + FetchTimeout
    BY <1>1, JWKSAssumption
  <2>2. VerifierInv(asking)
    BY <1>1, <1>3, <1>5, <1>7, <2>1 DEF VerifierInv, Fetching
  <2> QED BY <1>3, <1>4, <1>7, <2>2, VerifierStep DEF HoldsLock
<1> QED BY <1>4, <1>6, <1>7

\* The body is what the endpoint serves now.
LEMMA FetchAnswersInv ==
  ASSUME KeysInv, NEW v \in Verifier, FetchAnswers(v)
  PROVE  KeysInv'
<1> DEFINE q == [ver[v] EXCEPT !.pc = "fetched", !.body = published]
<1>1. ver[v] \in VerifierState /\ VerifierInv(ver[v]) /\ now \in Nat
      /\ published \in SUBSET Kid /\ published # {}
  BY DEF KeysInv, KeysTypeOK, KeySets
<1>2. /\ q \in VerifierState /\ q.pc = "fetched" /\ q.start = ver[v].start
      /\ q.asked = ver[v].asked /\ q.body = published
  BY <1>1 DEF VerifierState
<1>3. /\ ver' = [ver EXCEPT ![v] = q] /\ fetchMu' = fetchMu /\ ver[v].pc = "fetching"
      /\ UNCHANGED <<set, fetchedAt, hydraVars, now>>
  BY DEF FetchAnswers, At, cacheVars
<1>4. ver[v].asked \in Nat /\ ver[v].asked <= now
  BY <1>1, <1>3 DEF VerifierState, VerifierInv, Fetching
<1> HIDE DEF q
<1>5. ServedSince(q.body, q.asked)
  <2>1. q.asked \in Nat /\ q.asked <= now
    BY <1>2, <1>4
  <2>2. ASSUME NEW k \in published PROVE LastServed(k) >= q.asked
    BY <1>1, <2>1 DEF LastServed
  <2> QED BY <1>2, <2>2 DEF ServedSince
<1>6. VerifierInv(q)
  BY <1>1, <1>2, <1>3, <1>5 DEF VerifierInv, Fetching
<1> QED BY <1>2, <1>3, <1>6, VerifierStep DEF HoldsLock

LEMMA FetchFailsInv ==
  ASSUME KeysInv, NEW v \in Verifier, FetchFails(v)
  PROVE  KeysInv'
<1> DEFINE q == [ver[v] EXCEPT !.pc = "failed", !.asked = 0]
<1>1. ver[v] \in VerifierState /\ VerifierInv(ver[v])
  BY DEF KeysInv, KeysTypeOK
<1>2. q \in VerifierState /\ q.pc = "failed" /\ q.start = ver[v].start
  BY <1>1 DEF VerifierState
<1>3. /\ ver' = [ver EXCEPT ![v] = q] /\ fetchMu' = NoHolder /\ ver[v].pc = "fetching"
      /\ UNCHANGED <<set, fetchedAt, hydraVars, now>>
  BY DEF FetchFails, At
<1> HIDE DEF q
<1>4. VerifierInv(q)
  BY <1>1, <1>2 DEF VerifierInv, Fetching
<1> QED BY <1>2, <1>3, <1>4, VerifierStep DEF HoldsLock

\* The second lookup: the set is fresh enough, so that a kid it lacks is new.
LEMMA LookupAgainInv ==
  ASSUME KeysInv, NEW v \in Verifier, LookupAgain(v)
  PROVE  KeysInv'
<1> DEFINE pc == IF Finds(set, ver[v].kid) THEN "resolved" ELSE "notfound"
           q == [ver[v] EXCEPT !.pc = pc, !.from = fetchedAt]
<1>1. /\ ver[v] \in VerifierState /\ VerifierInv(ver[v])
      /\ now \in Nat /\ fetchedAt \in Nat /\ published \in SUBSET Kid
      /\ servedFrom \in [Kid -> Nat]
  BY DEF KeysInv, KeysTypeOK, KeySets
<1>2. pc \in {"resolved", "notfound"} /\ (pc = "notfound" => ~Finds(set, ver[v].kid))
  OBVIOUS
<1>3. /\ ver' = [ver EXCEPT ![v] = q] /\ fetchMu' = fetchMu /\ ver[v].pc = "refreshed"
      /\ UNCHANGED <<set, fetchedAt, hydraVars, now>>
  BY DEF LookupAgain, At, cacheVars
<1> HIDE DEF pc
<1>4. /\ q \in VerifierState /\ q.pc = pc /\ q.start = ver[v].start
      /\ q.kid = ver[v].kid /\ q.from = fetchedAt
  BY <1>1, <1>2 DEF VerifierState
<1> HIDE DEF q
<1>5. /\ q.start \in Nat /\ q.start <= now /\ set # {} /\ fetchedAt + TTL > q.start
  BY <1>1, <1>3, <1>4 DEF VerifierState, VerifierInv
<1>6. ASSUME pc = "notfound", q.kid \in published
      PROVE  servedFrom[q.kid] + TTL + FetchTimeout > q.start
  <2>1. q.kid \in published \ set
    BY <1>1, <1>2, <1>4, <1>6, JWKSAssumption DEF Finds
  <2>2. servedFrom[q.kid] >= fetchedAt - FetchTimeout
    BY <1>5, <2>1 DEF KeysInv, CacheInv, ServedSince
  <2>3. servedFrom[q.kid] \in Nat
    BY <1>1, <1>6
  <2> QED BY <1>1, <1>5, <2>2, <2>3, JWKSAssumption
<1>7. VerifierInv(q)
  BY <1>1, <1>2, <1>4, <1>5, <1>6, JWKSAssumption DEF VerifierInv, Fetching
<1> QED BY <1>2, <1>3, <1>4, <1>7, VerifierStep DEF HoldsLock

LEMMA ReturnInv ==
  ASSUME KeysInv, NEW v \in Verifier, Return(v)
  PROVE  KeysInv'
<1>1. Idle \in VerifierState /\ Idle.pc = "idle" /\ Idle.start = 0
  BY DEF Idle, VerifierState
<1>2. /\ ver' = [ver EXCEPT ![v] = Idle] /\ fetchMu' = fetchMu
      /\ ver[v].pc \in {"resolved", "notfound", "failed"}
      /\ UNCHANGED <<set, fetchedAt, hydraVars, now>>
  BY DEF Return, cacheVars
<1>3. now \in Nat
  BY DEF KeysInv, KeysTypeOK
<1>4. VerifierInv(Idle)
  BY <1>1, <1>3 DEF VerifierInv, Fetching
<1> QED BY <1>1, <1>2, <1>4, VerifierStep DEF HoldsLock

-----------------------------------------------------------------------------
(* The steps that change what the verifications share.                     *)

\* The holder of the lock stores its body: no other fetch is in progress.
LEMMA PublishInv ==
  ASSUME KeysInv, NEW v \in Verifier, Publish(v)
  PROVE  KeysInv'
<1> DEFINE q == [ver[v] EXCEPT !.pc = "refreshed", !.body = {}, !.asked = 0]
           body == ver[v].body
<1>1. /\ ver[v] \in VerifierState /\ VerifierInv(ver[v])
      /\ now \in Nat /\ fetchedAt \in Nat /\ ver[v].asked \in Nat /\ body \in SUBSET Kid
  BY DEF KeysInv, KeysTypeOK, VerifierState
<1>2. q \in VerifierState /\ q.pc = "refreshed" /\ q.start = ver[v].start
  BY <1>1 DEF VerifierState
<1>3. /\ ver' = [ver EXCEPT ![v] = q] /\ fetchMu' = NoHolder /\ ver[v].pc = "fetched"
      /\ set' = body /\ fetchedAt' = now /\ UNCHANGED <<hydraVars, now>>
  BY DEF Publish, At
<1>4. /\ body # {} /\ ServedSince(body, ver[v].asked)
      /\ now <= ver[v].asked + FetchTimeout
  BY <1>1, <1>3 DEF VerifierInv, Fetching
<1> HIDE DEF q, body
<1>5. KeysTypeOK'
  BY <1>1, <1>2, <1>3 DEF KeysInv, KeysTypeOK, hydraVars
<1>6. \A w \in Verifier : ver'[w] = IF w = v THEN q ELSE ver[w]
  BY <1>3 DEF KeysInv, KeysTypeOK
<1>7. \A w \in Verifier : ~HoldsLock(ver'[w])
  <2>1. fetchMu = v
    BY <1>3 DEF KeysInv, LockInv, HoldsLock
  <2>2. ~HoldsLock(q)
    BY <1>2 DEF HoldsLock
  <2> QED BY <1>6, <2>1, <2>2 DEF KeysInv, LockInv
<1>8. LockInv'
  BY <1>3, <1>7, JWKSAssumption DEF LockInv, HoldsLock
<1>9. CacheInv'
  <2>1. ServedSince(body, now - FetchTimeout)
    <3>1. ASSUME NEW k \in Kid PROVE LastServed(k) \in Nat /\ servedFrom[k] \in Nat
      BY DEF KeysInv, KeysTypeOK, LastServed
    <3>2. published \subseteq Kid
      BY DEF KeysInv, KeysTypeOK, KeySets
    <3> QED BY <1>1, <1>4, <3>1, <3>2, JWKSAssumption DEF ServedSince
  <2> QED BY <1>1, <1>3, <2>1 DEF KeysInv, CacheInv, ServedSince, LastServed, hydraVars
<1>10. ASSUME NEW w \in Verifier PROVE VerifierInv(ver[w])'
  <2>1. PICK p : p = ver'[w]
    OBVIOUS
  <2>2. p \in VerifierState /\ ~HoldsLock(p)
    BY <1>5, <1>7, <2>1 DEF KeysTypeOK
  <2>3. p.start \in Nat /\ p.start <= now
    <3>1. p.start = ver[w].start
      BY <1>2, <1>6, <2>1
    <3>2. ver[w] \in VerifierState /\ VerifierInv(ver[w])
      BY DEF KeysInv, KeysTypeOK
    <3> QED BY <3>1, <3>2 DEF VerifierState, VerifierInv
  <2>4. now + TTL > p.start
    BY <1>1, <2>3, JWKSAssumption
  <2>5. CASE w = v
    <3>1. p.pc = "refreshed"
      BY <1>2, <1>6, <2>1, <2>5
    <3>2. VerifierInv(p)'
      BY <1>3, <1>4, <2>3, <2>4, <3>1 DEF VerifierInv, Fetching
    <3> QED BY <2>1, <3>2
  <2>6. CASE w # v
    <3>1. VerifierInv(p)
      BY <1>6, <2>1, <2>6 DEF KeysInv
    <3>2. VerifierInv(p)'
      BY <1>3, <1>4, <2>2, <2>3, <2>4, <3>1 DEF VerifierInv, Fetching, HoldsLock, hydraVars
    <3> QED BY <2>1, <3>2
  <2> QED BY <2>5, <2>6
<1> QED BY <1>5, <1>8, <1>9, <1>10 DEF KeysInv

\* What was known of a set of keys is known after a rotation.
LEMMA RotateServed ==
  ASSUME KeysInv, NEW S \in KeySets, Rotate(S), NEW T \in SUBSET Kid, NEW t \in Int,
         t <= now, ServedSince(T, t)
  PROVE  ServedSince(T, t)'
<1>1. /\ published' = S /\ now' = now /\ S \subseteq Kid /\ published \subseteq Kid
      /\ \A k \in Kid : retiredAt'[k] = IF k \in published \ S THEN now ELSE retiredAt[k]
      /\ \A k \in Kid : servedFrom'[k] = IF k \in S \ published THEN now ELSE servedFrom[k]
  BY DEF Rotate, KeySets, KeysInv, KeysTypeOK
<1>2. ASSUME NEW k \in T PROVE LastServed(k)' >= t
  BY <1>1 DEF ServedSince, LastServed
<1>3. ASSUME NEW k \in published' \ T PROVE servedFrom'[k] >= t
  BY <1>1 DEF ServedSince
<1> QED BY <1>2, <1>3 DEF ServedSince

LEMMA RotateInv ==
  ASSUME KeysInv, NEW S \in KeySets, Rotate(S)
  PROVE  KeysInv'
<1>1. /\ published' = S /\ S \subseteq Kid /\ rotations' = rotations + 1
      /\ retiredAt' = [k \in Kid |-> IF k \in published \ S THEN now ELSE retiredAt[k]]
      /\ servedFrom' = [k \in Kid |-> IF k \in S \ published THEN now ELSE servedFrom[k]]
      /\ UNCHANGED <<set, fetchedAt, fetchMu, ver, now>>
  BY DEF Rotate, KeySets, cacheVars
<1>2. now \in Nat /\ fetchedAt \in Nat /\ fetchedAt <= now
  BY DEF KeysInv, KeysTypeOK, CacheInv
<1>3. KeysTypeOK'
  BY <1>1, <1>2 DEF KeysInv, KeysTypeOK
<1>4. LockInv'
  BY <1>1 DEF KeysInv, LockInv, HoldsLock
<1>5. \A k \in Kid : /\ retiredAt'[k] \in {retiredAt[k], now}
                     /\ servedFrom'[k] = IF k \in S \ published THEN now ELSE servedFrom[k]
  BY <1>1
<1>6. CacheInv'
  <2>1. set # {} => ServedSince(set, fetchedAt - FetchTimeout)'
    <3> SUFFICES ASSUME set # {} PROVE ServedSince(set, fetchedAt - FetchTimeout)'
      OBVIOUS
    <3>1. PICK t \in Int : t = fetchedAt - FetchTimeout
      BY <1>2, JWKSAssumption
    <3>2. PICK T \in SUBSET Kid : T = set
      BY DEF KeysInv, KeysTypeOK
    <3>3. t <= now /\ ServedSince(T, t)
      BY <1>2, <3>1, <3>2, JWKSAssumption DEF KeysInv, CacheInv
    <3>4. ServedSince(T, t)'
      BY <3>3, RotateServed
    <3> QED BY <1>1, <3>1, <3>2, <3>4
  <2> QED BY <1>1, <1>2, <1>5, <2>1 DEF KeysInv, CacheInv
<1>7. ASSUME NEW w \in Verifier PROVE VerifierInv(ver[w])'
  <2>1. PICK p \in VerifierState : p = ver[w] /\ VerifierInv(p)
    BY DEF KeysInv, KeysTypeOK
  <2>2. p.body \in SUBSET Kid /\ p.asked \in Nat /\ p.start \in Nat /\ p.start <= now
    BY <2>1 DEF VerifierState, VerifierInv
  <2>3. p.pc = "fetched" => p.body # {} /\ ServedSince(p.body, p.asked)'
    <3> SUFFICES ASSUME p.pc = "fetched" PROVE p.body # {} /\ ServedSince(p.body, p.asked)'
      OBVIOUS
    <3>1. p.body # {} /\ ServedSince(p.body, p.asked) /\ p.asked <= now
      BY <2>1 DEF VerifierInv, Fetching
    <3> QED BY <2>2, <3>1, RotateServed
  <2>4. ASSUME p.pc = "notfound", p.kid \in S
        PROVE  servedFrom'[p.kid] + TTL + FetchTimeout > p.start
    <3>1. CASE p.kid \in published
      BY <1>1, <1>5, <2>1, <2>4, <3>1 DEF VerifierInv
    <3>2. CASE p.kid \notin published
      <4>1. servedFrom'[p.kid] = now
        BY <1>1, <1>5, <2>4, <3>2
      <4> QED BY <1>2, <2>2, <4>1, JWKSAssumption
    <3> QED BY <3>1, <3>2
  <2>5. VerifierInv(p)'
    BY <1>1, <2>1, <2>3, <2>4 DEF VerifierInv, Fresh
  <2> QED BY <1>1, <2>1, <2>5
<1> QED BY <1>3, <1>4, <1>6, <1>7 DEF KeysInv

LEMMA TickInv ==
  ASSUME KeysInv, Tick
  PROVE  KeysInv'
<1>1. /\ now' = now + 1 /\ UNCHANGED <<set, fetchedAt, fetchMu, ver, hydraVars>>
      /\ \A v \in Verifier : Fetching(ver[v]) => now < ver[v].asked + FetchTimeout
  BY DEF Tick, cacheVars, Fetching
<1>2. /\ now \in Nat /\ fetchedAt \in Nat
      /\ retiredAt \in [Kid -> Nat] /\ servedFrom \in [Kid -> Nat]
      /\ published \subseteq Kid
  BY DEF KeysInv, KeysTypeOK, KeySets
<1>3. KeysTypeOK'
  BY <1>1, <1>2 DEF KeysInv, KeysTypeOK, hydraVars
<1>4. LockInv'
  BY <1>1 DEF KeysInv, LockInv, HoldsLock
<1>5. ASSUME NEW T \in SUBSET Kid, NEW t \in Int, ServedSince(T, t)
      PROVE  ServedSince(T, t)'
  <2>1. ASSUME NEW k \in T PROVE LastServed(k)' >= t
    BY <1>1, <1>2, <1>5 DEF ServedSince, LastServed, hydraVars
  <2> QED BY <1>1, <1>5, <2>1 DEF ServedSince, hydraVars
<1>6. CacheInv'
  <2>1. set # {} => ServedSince(set, fetchedAt - FetchTimeout)'
    <3>1. PICK t \in Int : t = fetchedAt - FetchTimeout
      BY <1>2, JWKSAssumption
    <3>2. PICK T \in SUBSET Kid : T = set
      BY DEF KeysInv, KeysTypeOK
    <3>3. set # {} => ServedSince(T, t)'
      BY <1>5, <3>1, <3>2 DEF KeysInv, CacheInv
    <3> QED BY <1>1, <3>1, <3>2, <3>3
  <2> QED BY <1>1, <1>2, <2>1 DEF KeysInv, CacheInv, hydraVars
<1>7. ASSUME NEW w \in Verifier PROVE VerifierInv(ver[w])'
  <2>1. PICK p \in VerifierState : p = ver[w] /\ VerifierInv(p)
    BY DEF KeysInv, KeysTypeOK
  <2>2. p.body \in SUBSET Kid /\ p.asked \in Nat /\ p.start \in Nat
    BY <2>1 DEF VerifierState
  <2>3. p.pc = "fetched" => p.body # {} /\ ServedSince(p.body, p.asked)'
    BY <1>5, <2>1, <2>2 DEF VerifierInv
  <2>4. ASSUME Fetching(p)
        PROVE  p.asked <= now' /\ now' <= p.asked + FetchTimeout /\ ~Fresh'
    <3>1. p.asked <= now /\ now < p.asked + FetchTimeout /\ ~Fresh
      BY <1>1, <2>1, <2>4 DEF VerifierInv
    <3> QED BY <1>1, <1>2, <2>2, <3>1, JWKSAssumption DEF Fresh
  <2>5. p.start <= now'
    BY <1>1, <1>2, <2>1, <2>2 DEF VerifierInv
  <2>6. VerifierInv(p)'
    BY <1>1, <2>1, <2>3, <2>4, <2>5 DEF VerifierInv, hydraVars
  <2> QED BY <1>1, <2>1, <2>6
<1> QED BY <1>3, <1>4, <1>6, <1>7 DEF KeysInv

LEMMA KeysNextInv ==
  ASSUME KeysInv, [KeysNext]_keyVars
  PROVE  KeysInv'
<1>1. ASSUME NEW v \in Verifier, NEW kid \in Kid \cup {NoKid}, Lookup(v, kid) PROVE KeysInv'
  BY <1>1, LookupInv
<1>2. ASSUME NEW v \in Verifier, LockFetch(v) PROVE KeysInv'
  BY <1>2, LockFetchInv
<1>3. ASSUME NEW v \in Verifier, Proceeds(v) PROVE KeysInv'
  BY <1>3, DoubleCheckInv, FetchAnswersInv, FetchFailsInv, PublishInv, LookupAgainInv
     DEF Proceeds
<1>4. ASSUME NEW v \in Verifier, Return(v) PROVE KeysInv'
  BY <1>4, ReturnInv
<1>5. ASSUME NEW S \in KeySets, Rotate(S) PROVE KeysInv'
  BY <1>5, RotateInv
<1>6. CASE Tick
  BY <1>6, TickInv
<1>7. CASE UNCHANGED keyVars
  BY <1>7 DEF keyVars, cacheVars, hydraVars, KeysInv, KeysTypeOK, LockInv, HoldsLock, CacheInv,
     VerifierInv, ServedSince, LastServed, Fetching, Fresh
<1> QED BY <1>1, <1>2, <1>3, <1>4, <1>5, <1>6, <1>7 DEF KeysNext

-----------------------------------------------------------------------------
(* The theorems.                                                           *)

\* The cached set and every fetch in progress are as old as the invariant says.
THEOREM JWKSInvariant == KeysSpec => []KeysInv
<1>1. KeysInit => KeysInv
  BY KeysInitInv
<1>2. KeysInv /\ [KeysNext]_keyVars => KeysInv'
  BY KeysNextInv
<1> QED BY <1>1, <1>2, PTL DEF KeysSpec

\* A retired key is trusted for one TTL and one fetch at most.
THEOREM RetiredKeysAreDropped == KeysSpec => []RetiredKeysExpire
<1>1. KeysInv => RetiredKeysExpire
  <2> SUFFICES ASSUME KeysInv, ~Stale, NEW k \in set
               PROVE  LastServed(k) + TTL + FetchTimeout >= now
    BY DEF RetiredKeysExpire
  <2>1. now \in Nat /\ fetchedAt \in Nat /\ now - fetchedAt <= TTL
    BY JWKSAssumption DEF KeysInv, KeysTypeOK, Stale
  <2>2. LastServed(k) \in Nat
    BY DEF KeysInv, KeysTypeOK, LastServed
  <2>3. LastServed(k) >= fetchedAt - FetchTimeout
    BY DEF KeysInv, CacheInv, ServedSince
  <2> QED BY <2>1, <2>2, <2>3, JWKSAssumption
<1> QED BY <1>1, JWKSInvariant, PTL

\* No key is resolved from a set that was stale when the resolution began.
THEOREM ResolvesFresh == KeysSpec => []ResolvedFromFreshSet
<1>1. KeysInv => ResolvedFromFreshSet
  BY DEF KeysInv, VerifierInv, ResolvedFromFreshSet, At
<1> QED BY <1>1, JWKSInvariant, PTL

\* A new key is reported missing for one TTL and one fetch at most.
THEOREM NewKeysAppear == KeysSpec => []NewKeysAreSeen
<1>1. KeysInv => NewKeysAreSeen
  BY DEF KeysInv, VerifierInv, NewKeysAreSeen, At
<1> QED BY <1>1, JWKSInvariant, PTL

\* The set is replaced by one fetch at a time, and not before its TTL has passed.
THEOREM OneFetch == KeysSpec => FetchesAreShared
<1>1. KeysInv /\ [KeysNext]_keyVars
      => [(set' # set \/ fetchedAt' # fetchedAt)
            => set = {} \/ now - fetchedAt >= TTL]_keyVars
  <2> SUFFICES ASSUME KeysInv, KeysNext, set' # set \/ fetchedAt' # fetchedAt
               PROVE  set = {} \/ now - fetchedAt >= TTL
    BY DEF keyVars, cacheVars
  <2>1. PICK v \in Verifier : Publish(v)
    BY DEF KeysNext, Lookup, LockFetch, Proceeds, DoubleCheck, FetchAnswers, FetchFails,
       LookupAgain, Return, Rotate, Tick, cacheVars
  <2>2. ~Fresh
    BY <2>1 DEF KeysInv, VerifierInv, Publish, At, Fetching
  <2> QED BY <2>2, JWKSAssumption DEF Fresh, KeysInv, KeysTypeOK
<1> QED BY <1>1, JWKSInvariant, PTL DEF KeysSpec, FetchesAreShared

-----------------------------------------------------------------------------
(***************************************************************************)
(* Session, for any browsers, configurations, number of logins and         *)
(* responses on their way.                                                 *)
(*                                                                         *)
(* The gateway keeps nothing, so the invariant is about what is in the     *)
(* browsers' jars and in the responses that have not been applied yet: the *)
(* login cookies there belong to logins of that very browser, and once a   *)
(* logout has been applied no state cookie of a login it ended is left in  *)
(* either place.  A second invariant, on top of it, says where the session *)
(* of a login can be: nowhere before its code is spent, then in one        *)
(* response or in jars, and in neither once its browser has signed out.    *)
(***************************************************************************)

LoginCookie == {"state", "pkce", "session"}
CookieValue == 1..MaxLogin \cup {None, Keep, "signed in"}
FlowState == [browser : Browser, state : Nat, verifier : Nat]

\* x is a login that was begun in browser b.
LoginOf(b, x) == x \in Flow /\ flows[x].browser = b

MessageInv(m) ==
  /\ m.to \in Browser /\ m.set \in [Cookie -> CookieValue]
  /\ \A c \in LoginCookie : m.set[c] \in {None, Keep} \/ LoginOf(m.to, m.set[c])
  /\ m.set["kratos"] \in {None, Keep}
  /\ m.set["state"] \notin {None, Keep} => m.flow = m.set["state"]
  /\ m.flow = MaxLogin + 1 => m.set = LogoutCookies /\ (m.secure => m.to \in Https)
  /\ m.late => m.set["session"] = Keep
  /\ m.owed => m.set["session"] = None

NetInv ==
  /\ IsFiniteSet(net)
  /\ Cardinality(net) <= MaxInFlight
  /\ \A m \in net : MessageInv(m)

JarInv ==
  /\ jar \in [Browser -> [Cookie -> CookieValue]]
  /\ \A b \in Browser :
       /\ \A c \in LoginCookie : jar[b][c] = None \/ LoginOf(b, jar[b][c])
       /\ jar[b]["kratos"] \in {"signed in", None}

\* The state and the verifier of a login are drawn for it alone.
FlowInv ==
  /\ flows \in Seq(FlowState)
  /\ Len(flows) <= MaxLogin
  /\ \A n \in Flow : flows[n].state = n /\ flows[n].verifier = n
  /\ code \in Seq({None, "good", "spent"}) /\ Len(code) = Len(flows)

\* No state cookie of an ended login is left, nor on its way.
EndedInv ==
  /\ ended \in [Browser -> SUBSET Flow]
  /\ \A b \in Browser : \A n \in ended[b] :
       /\ jar[b]["state"] # n
       /\ \A m \in net : m.to = b => m.set["state"] # n

IInv ==
  /\ config \in Config
  /\ NetInv
  /\ JarInv
  /\ FlowInv
  /\ EndedInv

-----------------------------------------------------------------------------
(* Responses.                                                              *)

LEMMA FlowIsNat ==
  ASSUME FlowInv
  PROVE  /\ Len(flows) \in Nat /\ Flow \subseteq 1..MaxLogin /\ Flow \subseteq Nat
         /\ None \notin Flow /\ Keep \notin Flow
BY SessionAssumption DEF FlowInv, Flow

\* The cookie changes the handlers make that start no login.
LEMMA CookieSets ==
  /\ Unchanged \in [Cookie -> CookieValue]
  /\ \A c \in Cookie : Unchanged[c] = Keep
  /\ LogoutCookies \in [Cookie -> CookieValue]
  /\ LogoutCookies["session"] = None /\ LogoutCookies["state"] = None
  /\ LogoutCookies["pkce"] = Keep /\ LogoutCookies["kratos"] = Keep
  /\ OAuthLogoutCookies \in [Cookie -> CookieValue]
  /\ OAuthLogoutCookies["session"] = None /\ OAuthLogoutCookies["kratos"] = None
  /\ OAuthLogoutCookies["state"] = Keep /\ OAuthLogoutCookies["pkce"] = Keep
BY DEF Unchanged, LogoutCookies, OAuthLogoutCookies, Cookie, CookieValue

\* An answer that leaves the cookies alone says nothing of a login.
LEMMA PlainMessage ==
  ASSUME NEW m, m.to \in Browser, m.set = Unchanged, m.flow # MaxLogin + 1, ~m.owed
  PROVE  MessageInv(m) /\ m.set["state"] = Keep
<1>1. \A c \in Cookie : m.set[c] = Keep
  BY CookieSets
<1>2. m.set \in [Cookie -> CookieValue]
  BY CookieSets
<1> QED BY <1>1, <1>2 DEF MessageInv, Cookie, LoginCookie

\* What holds of a response keeps holding while logins are only added.
LEMMA MessageStays ==
  ASSUME NEW m, MessageInv(m), Flow \subseteq Flow', \A x \in Flow : flows'[x] = flows[x]
  PROVE  MessageInv(m)'
<1>1. \A c \in LoginCookie : m.set[c] \in {None, Keep} \/ LoginOf(m.to, m.set[c])'
  BY DEF MessageInv, LoginOf
<1> QED BY <1>1 DEF MessageInv

\* A handler that starts no login answers.
LEMMA AnswerStep ==
  ASSUME IInv, NEW m, MessageInv(m), m.set["state"] \in {None, Keep}, Answer(m),
         UNCHANGED <<config, jar, flows, ended>>,
         code' \in Seq({None, "good", "spent"}), Len(code') = Len(code)
  PROVE  IInv'
<1>1. net' = net \cup {m} /\ Cardinality(net) < MaxInFlight
  BY DEF Answer
<1>2. /\ IsFiniteSet(net \cup {m}) /\ Cardinality(net \cup {m}) <= MaxInFlight
  <2>1. IsFiniteSet(net) /\ Cardinality(net) \in Nat
    BY FS_CardinalityType DEF IInv, NetInv
  <2>2. /\ IsFiniteSet(net \cup {m})
        /\ Cardinality(net \cup {m}) \in {Cardinality(net), Cardinality(net) + 1}
    BY <2>1, FS_AddElement
  <2> QED BY <1>1, <2>1, <2>2, SessionAssumption
<1>3. ASSUME NEW x \in net' PROVE MessageInv(x)'
  <2>1. MessageInv(x)
    BY <1>1 DEF IInv, NetInv
  <2> QED BY <2>1, MessageStays DEF Flow
<1>4. NetInv'
  BY <1>1, <1>2, <1>3 DEF NetInv
<1>5. JarInv'
  BY DEF IInv, JarInv, LoginOf, Flow
<1>6. FlowInv'
  BY DEF IInv, FlowInv, Flow
<1>7. EndedInv'
  <2>1. ended' \in [Browser -> SUBSET Flow']
    BY DEF IInv, EndedInv, Flow
  <2>2. ASSUME NEW b \in Browser, NEW n \in ended[b]
        PROVE  /\ jar[b]["state"] # n
               /\ \A x \in net' : x.to = b => x.set["state"] # n
    <3>1. n \in Flow
      BY DEF IInv, EndedInv
    <3>2. m.set["state"] # n
      BY <3>1, FlowIsNat DEF IInv
    <3> QED BY <1>1, <3>2 DEF IInv, EndedInv
  <2> QED BY <2>1, <2>2 DEF EndedInv
<1> QED BY <1>4, <1>5, <1>6, <1>7 DEF IInv

LEMMA NetStays ==
  ASSUME NetInv, UNCHANGED <<net, flows>>
  PROVE  NetInv'
<1>1. ASSUME NEW x \in net' PROVE MessageInv(x)'
  <2>1. MessageInv(x)
    BY DEF NetInv
  <2> QED BY <2>1, MessageStays DEF Flow
<1> QED BY <1>1 DEF NetInv

LEMMA InitInv == Init => IInv
<1> SUFFICES ASSUME Init PROVE IInv
  OBVIOUS
<1>1. IsFiniteSet({}) /\ Cardinality({}) = 0
  BY FS_EmptySet
<1>2. NetInv
  BY <1>1, SessionAssumption DEF Init, NetInv
<1>3. JarInv
  BY DEF Init, JarInv, NoCookies, Cookie, CookieValue, LoginCookie
<1>4. FlowInv
  BY SessionAssumption DEF Init, FlowInv, Flow
<1>5. EndedInv
  BY DEF Init, EndedInv
<1> QED BY <1>2, <1>3, <1>4, <1>5 DEF IInv, Init

-----------------------------------------------------------------------------
(* The handlers.                                                           *)

LEMMA PlainAnswer ==
  ASSUME IInv, NEW b \in Browser, NEW status \in Nat, Answer(Response(b, status, Unchanged)),
         UNCHANGED <<config, jar, flows, code, ended>>
  PROVE  IInv'
<1>1. code' \in Seq({None, "good", "spent"}) /\ Len(code') = Len(code)
  BY DEF IInv, FlowInv
<1>2. PICK m : m = Response(b, status, Unchanged)
  OBVIOUS
<1>3. /\ m.to = b /\ m.set = Unchanged /\ m.flow = 0 /\ ~m.owed
  BY <1>2 DEF Response
<1>4. MessageInv(m) /\ m.set["state"] = Keep
  <2>1. 0 # MaxLogin + 1
    BY SessionAssumption
  <2> QED BY <1>3, <2>1, PlainMessage
<1>5. Answer(m)
  BY <1>2
<1> QED BY <1>1, <1>4, <1>5, AnswerStep

\* A login adds a flow, and the state cookie that is on its way is of that flow.
LEMMA LoginInv ==
  ASSUME IInv, NEW b \in Browser, Login(b)
  PROVE  IInv'
<1>0. PICK n : n = Len(flows) + 1
  OBVIOUS
<1> DEFINE cookies == [Unchanged EXCEPT !["state"] = n, !["pkce"] = n]
           f == [browser |-> b, state |-> n, verifier |-> n]
<1>1. /\ n <= MaxLogin /\ flows' = Append(flows, f) /\ code' = Append(code, None)
      /\ Answer([Response(b, 302, cookies) EXCEPT !.flow = n]) /\ UNCHANGED <<config, jar, ended>>
  BY <1>0 DEF Login, randomState
<1>2. Len(flows) \in Nat /\ n \in Nat /\ n \in 1..MaxLogin /\ n \notin {None, Keep}
      /\ n # MaxLogin + 1
  BY <1>0, <1>1, FlowIsNat, SessionAssumption DEF IInv
<1>3. f \in FlowState /\ f.browser = b /\ f.state = n /\ f.verifier = n
  BY <1>2 DEF FlowState
<1>4. /\ cookies \in [Cookie -> CookieValue] /\ cookies["state"] = n /\ cookies["pkce"] = n
      /\ cookies["session"] = Keep /\ cookies["kratos"] = Keep
  BY <1>2 DEF Unchanged, Cookie, CookieValue
<1> HIDE DEF f, cookies
<1>5. PICK m : m = [Response(b, 302, cookies) EXCEPT !.flow = n]
  OBVIOUS
<1>5a. /\ m.to = b /\ m.status = 302 /\ m.set = cookies /\ m.flow = n
       /\ ~m.late /\ ~m.owed
  BY <1>5 DEF Response
<1>5b. Answer(m)
  BY <1>1, <1>5
<1>6. /\ flows' \in Seq(FlowState) /\ Len(flows') = n /\ Len(flows) + 1 = n
      /\ \A x \in 1..Len(flows) : flows'[x] = flows[x]
      /\ flows'[n] = f
  BY <1>0, <1>1, <1>2, <1>3 DEF IInv, FlowInv
<1>7. /\ Flow' = Flow \cup {n} /\ n \notin Flow
      /\ \A x \in Flow : flows'[x] = flows[x]
  BY <1>2, <1>6 DEF Flow
<1>8. FlowInv'
  <2>1. code' \in Seq({None, "good", "spent"}) /\ Len(code') = Len(flows')
    BY <1>1, <1>6 DEF IInv, FlowInv
  <2> QED BY <1>1, <1>3, <1>6, <1>7, <2>1 DEF IInv, FlowInv
<1>9. \A c, x : LoginOf(c, x) => LoginOf(c, x)'
  BY <1>7 DEF LoginOf
<1>10. LoginOf(b, n)'
  BY <1>3, <1>6, <1>7 DEF LoginOf
<1>11. MessageInv(m)'
  <2>1. \A c \in LoginCookie : m.set[c] \in {None, Keep} \/ LoginOf(m.to, m.set[c])'
    BY <1>4, <1>5a, <1>10 DEF LoginCookie
  <2> QED BY <1>2, <1>4, <1>5a, <2>1 DEF MessageInv
<1>12. net' = net \cup {m} /\ Cardinality(net) < MaxInFlight
  BY <1>5b DEF Answer
<1>13. NetInv'
  <2>1. IsFiniteSet(net) /\ Cardinality(net) \in Nat
    BY FS_CardinalityType DEF IInv, NetInv
  <2>2. /\ IsFiniteSet(net \cup {m})
        /\ Cardinality(net \cup {m}) \in {Cardinality(net), Cardinality(net) + 1}
    BY <2>1, FS_AddElement
  <2>3. Cardinality(net \cup {m}) <= MaxInFlight
    BY <1>12, <2>1, <2>2, SessionAssumption
  <2>4. ASSUME NEW x \in net PROVE MessageInv(x)'
    <3>1. MessageInv(x)
      BY DEF IInv, NetInv
    <3> QED BY <1>7, <3>1, MessageStays
  <2>5. ASSUME NEW x \in net' PROVE MessageInv(x)'
    <3>1. CASE x = m
      BY <1>11, <3>1
    <3>2. CASE x \in net
      BY <2>4, <3>2
    <3> QED BY <1>12, <3>1, <3>2
  <2> QED BY <1>12, <2>2, <2>3, <2>5 DEF NetInv
<1>14. JarInv'
  BY <1>1, <1>9 DEF IInv, JarInv
<1>15. EndedInv'
  <2>1. ended' \in [Browser -> SUBSET Flow']
    BY <1>1, <1>7 DEF IInv, EndedInv
  <2>2. ASSUME NEW c \in Browser, NEW k \in ended[c]
        PROVE  /\ jar[c]["state"] # k
               /\ \A x \in net' : x.to = c => x.set["state"] # k
    <3>1. k \in Flow
      BY DEF IInv, EndedInv
    <3>2. m.set["state"] # k
      BY <1>4, <1>5a, <1>7, <3>1
    <3> QED BY <1>12, <3>2 DEF IInv, EndedInv
  <2> QED BY <1>1, <2>1, <2>2 DEF EndedInv
<1> QED BY <1>1, <1>8, <1>13, <1>14, <1>15 DEF IInv

LEMMA AuthenticateInv ==
  ASSUME IInv, NEW n, Authenticate(n)
  PROVE  IInv'
<1>1. /\ code' = [code EXCEPT ![n] = "good"] /\ UNCHANGED <<config, jar, flows, net, ended>>
  BY DEF Authenticate
<1>2. code' \in Seq({None, "good", "spent"}) /\ Len(code') = Len(code)
  <2>1. n \in 1..Len(code)
    BY DEF Authenticate, Flow, IInv, FlowInv
  <2> QED BY <1>1, <2>1 DEF IInv, FlowInv
<1>3. FlowInv'
  BY <1>1, <1>2 DEF IInv, FlowInv, Flow
<1>4. NetInv'
  BY <1>1, NetStays DEF IInv
<1>5. JarInv'
  BY <1>1 DEF IInv, JarInv, LoginOf, Flow
<1>6. EndedInv'
  BY <1>1 DEF IInv, EndedInv, Flow
<1> QED BY <1>1, <1>3, <1>4, <1>5, <1>6 DEF IInv

\* A callback answers for the login its browser began, and not for an ended one.
LEMMA CallbackInv ==
  ASSUME IInv, NEW b \in Browser, NEW n \in 1..MaxLogin, Callback(b, n)
  PROVE  IInv'
<1> DEFINE matches == jar[b].state = flows[n].state
           reply(status, cookies) ==
             [Response(b, status, cookies) EXCEPT !.flow = n, !.late = n \in ended[b]]
<1>1. n \in Flow /\ n # MaxLogin + 1 /\ n \in Nat
  BY SessionAssumption DEF Callback
<1>2. UNCHANGED <<config, jar, flows, ended>>
  BY DEF Callback
<1>3. code' \in Seq({None, "good", "spent"}) /\ Len(code') = Len(code)
  <2>1. code' = code \/ code' = [code EXCEPT ![n] = "spent"]
    BY DEF Callback
  <2> QED BY <2>1 DEF IInv, FlowInv
<1>4. \/ \E status \in {400, 502} : Answer(reply(status, Unchanged))
      \/ matches /\ Answer(reply(302, SessionCookies(n)))
  BY DEF Callback
<1>5. ASSUME NEW status \in {400, 502}, Answer(reply(status, Unchanged)) PROVE IInv'
  <2>1. PICK m : m = reply(status, Unchanged)
    OBVIOUS
  <2>2. /\ m.to = b /\ m.set = Unchanged /\ m.flow = n /\ ~m.owed
    BY <2>1 DEF Response
  <2>3. MessageInv(m) /\ m.set["state"] = Keep
    BY <1>1, <2>2, PlainMessage
  <2>4. Answer(m)
    BY <1>5, <2>1
  <2> QED BY <1>2, <1>3, <2>3, <2>4, AnswerStep
<1>6. ASSUME matches, Answer(reply(302, SessionCookies(n))) PROVE IInv'
  <2>0. PICK cookies : cookies = SessionCookies(n)
    OBVIOUS
  <2>1. /\ cookies \in [Cookie -> CookieValue] /\ cookies["session"] = n /\ cookies["state"] = None
        /\ cookies["pkce"] = None /\ cookies["kratos"] = Keep
    BY <2>0 DEF SessionCookies, Unchanged, Cookie, CookieValue
  <2>2. PICK m : m = reply(302, cookies)
    OBVIOUS
  <2>2a. /\ m.to = b /\ m.set = cookies /\ m.flow = n /\ m.status = 302 /\ ~m.owed
         /\ m.late => n \in ended[b]
    BY <2>2 DEF Response
  <2>3. jar[b]["state"] = n
    BY <1>1, <1>6 DEF IInv, FlowInv
  <2>4. LoginOf(b, n) /\ n \notin ended[b]
    BY <1>1, <2>3, FlowIsNat DEF IInv, JarInv, EndedInv, LoginCookie
  <2>5. MessageInv(m) /\ m.set["state"] = None
    BY <1>1, <2>1, <2>2a, <2>4 DEF MessageInv, LoginCookie
  <2>6. Answer(m)
    BY <1>6, <2>0, <2>2
  <2> QED BY <1>2, <1>3, <2>5, <2>6, AnswerStep
<1> QED BY <1>4, <1>5, <1>6

LEMMA LogoutInv ==
  ASSUME IInv, NEW b \in Browser, Logout(b)
  PROVE  IInv'
<1>1. PICK m : m = [Response(b, 200, LogoutCookies) EXCEPT !.flow = MaxLogin + 1, !.owed = TRUE]
  OBVIOUS
<1>2. /\ m.to = b /\ m.set = LogoutCookies /\ ~m.late /\ (m.secure => b \in Https)
  BY <1>1 DEF Response
<1>3. Answer(m) /\ UNCHANGED <<config, jar, flows, code, ended>>
  BY <1>1 DEF Logout
<1>4. MessageInv(m) /\ m.set["state"] = None
  BY <1>2, CookieSets DEF MessageInv, LoginCookie
<1> QED BY <1>3, <1>4, AnswerStep DEF IInv, FlowInv

\* A logout that is owed is granted, whatever fails.
LEMMA OAuthLogoutAnswer ==
  ASSUME NEW b \in Browser, NEW token \in Token, NEW revoke \in BOOLEAN,
         OAuthLogout(b, token, revoke)
  PROVE  /\ \E m : /\ Answer(m) /\ m.to = b /\ m.flow = 0 /\ ~m.late
                   /\ m.set \in {OAuthLogoutCookies, Unchanged}
                   /\ m.owed => m.set = OAuthLogoutCookies
         /\ UNCHANGED <<config, jar, flows, code, ended, left>>
<1>1. PICK failed \in SUBSET Revocations(token) :
        LET status == LogoutStatus(token, revoke, failed)
        IN  /\ Answer([Response(b, status,
                                IF status = 200 THEN OAuthLogoutCookies ELSE Unchanged)
                         EXCEPT !.secure = TRUE, !.owed = Entitled(token, revoke)])
            /\ UNCHANGED <<config, jar, flows, code, ended, left>>
  BY DEF OAuthLogout
<1> DEFINE status == LogoutStatus(token, revoke, failed)
           cookies == IF status = 200 THEN OAuthLogoutCookies ELSE Unchanged
           owed == Entitled(token, revoke)
           m == [Response(b, status, cookies) EXCEPT !.secure = TRUE, !.owed = owed]
<1>2. Answer(m) /\ UNCHANGED <<config, jar, flows, code, ended, left>>
  BY <1>1
<1>3. owed => status = 200
  BY DEF LogoutStatus, Unauthorized, CallerOf, Entitled, Token
<1>4. cookies \in {OAuthLogoutCookies, Unchanged} /\ (status = 200 => cookies = OAuthLogoutCookies)
  OBVIOUS
<1> HIDE DEF status, cookies, owed
<1>5. PICK r : r = m
  OBVIOUS
<1>6. r.to = b /\ r.set = cookies /\ r.flow = 0 /\ ~r.late
  BY <1>5 DEF Response
<1>7. r.owed => owed
  BY <1>5 DEF Response, owed
<1>8. Answer(r)
  BY <1>2, <1>5
<1>9. r.set \in {OAuthLogoutCookies, Unchanged} /\ (r.owed => r.set = OAuthLogoutCookies)
  BY <1>3, <1>4, <1>6, <1>7
<1> QED BY <1>2, <1>6, <1>8, <1>9

LEMMA OAuthLogoutInv ==
  ASSUME IInv, NEW b \in Browser, NEW token \in Token, NEW revoke \in BOOLEAN,
         OAuthLogout(b, token, revoke)
  PROVE  IInv'
<1>1. PICK m : /\ Answer(m) /\ m.to = b /\ m.flow = 0 /\ ~m.late
               /\ m.set \in {OAuthLogoutCookies, Unchanged}
               /\ m.owed => m.set = OAuthLogoutCookies
  BY OAuthLogoutAnswer
<1>2. /\ m.set \in [Cookie -> CookieValue]
      /\ m.set["state"] = Keep /\ m.set["pkce"] = Keep
      /\ m.set["session"] \in {None, Keep} /\ m.set["kratos"] \in {None, Keep}
      /\ m.owed => m.set["session"] = None
  BY <1>1, CookieSets DEF Cookie
<1>3. MessageInv(m)
  <2>1. 0 # MaxLogin + 1
    BY SessionAssumption
  <2> QED BY <1>1, <1>2, <2>1 DEF MessageInv, LoginCookie
<1>4. UNCHANGED <<config, jar, flows, code, ended>>
  BY OAuthLogoutAnswer
<1> QED BY <1>1, <1>2, <1>3, <1>4, AnswerStep DEF IInv, FlowInv

-----------------------------------------------------------------------------
(* The browsers.                                                           *)

LEMMA ApplyInv ==
  ASSUME IInv, NEW m \in net, Apply(m)
  PROVE  IInv'
<1> DEFINE b == m.to
           mixed == [c \in Cookie |-> IF m.set[c] = Keep THEN jar[b][c] ELSE m.set[c]]
<1>1. /\ net' = net \ {m} /\ UNCHANGED <<config, flows, code>>
      /\ jar' = IF Accepts(m) THEN [jar EXCEPT ![b] = mixed] ELSE jar
      /\ ended' = IF m.flow = MaxLogin + 1
                  THEN [ended EXCEPT ![b] = {n \in Flow : flows[n].browser = b /\ Begun(n)}]
                  ELSE ended
  BY DEF Apply
<1>2. MessageInv(m) /\ b \in Browser /\ m.set \in [Cookie -> CookieValue]
  BY DEF IInv, NetInv, MessageInv
<1>3. /\ mixed \in [Cookie -> CookieValue]
      /\ \A c \in Cookie : mixed[c] = IF m.set[c] = Keep THEN jar[b][c] ELSE m.set[c]
  BY <1>2 DEF IInv, JarInv
<1> HIDE DEF mixed
<1>4. NetInv'
  <2>1. /\ IsFiniteSet(net') /\ Cardinality(net') <= Cardinality(net)
        /\ Cardinality(net) \in Nat /\ Cardinality(net') \in Nat
    BY <1>1, FS_Subset, FS_CardinalityType DEF IInv, NetInv
  <2>2. Cardinality(net') <= MaxInFlight
    BY <2>1, SessionAssumption DEF IInv, NetInv
  <2>3. ASSUME NEW x \in net' PROVE MessageInv(x)'
    <3>1. MessageInv(x)
      BY <1>1 DEF IInv, NetInv
    <3> QED BY <1>1, <3>1, MessageStays DEF Flow
  <2> QED BY <2>1, <2>2, <2>3 DEF NetInv
<1>5. FlowInv'
  BY <1>1 DEF IInv, FlowInv, Flow
<1>6. \A c, x : LoginOf(c, x)' <=> LoginOf(c, x)
  BY <1>1 DEF LoginOf, Flow
<1>7. JarInv'
  <2>1. CASE ~Accepts(m)
    BY <1>1, <1>6, <2>1 DEF IInv, JarInv
  <2>2. CASE Accepts(m)
    <3>1. jar' = [jar EXCEPT ![b] = mixed]
      BY <1>1, <2>2
    <3>2. /\ \A c \in LoginCookie : mixed[c] = None \/ LoginOf(b, mixed[c])
          /\ mixed["kratos"] \in {"signed in", None}
      BY <1>2, <1>3 DEF IInv, JarInv, MessageInv, LoginCookie, Cookie
    <3>3. jar' \in [Browser -> [Cookie -> CookieValue]]
      BY <1>3, <3>1 DEF IInv, JarInv
    <3>4. ASSUME NEW x \in Browser
          PROVE  /\ \A c \in LoginCookie : jar'[x][c] = None \/ LoginOf(x, jar'[x][c])
                 /\ jar'[x]["kratos"] \in {"signed in", None}
      <4>1. jar'[x] = IF x = b THEN mixed ELSE jar[x]
        BY <3>1 DEF IInv, JarInv
      <4> QED BY <3>2, <4>1 DEF IInv, JarInv
    <3> QED BY <1>6, <3>3, <3>4 DEF JarInv
  <2> QED BY <2>1, <2>2
<1>8. EndedInv'
  <2>1. Flow' = Flow
    BY <1>1 DEF Flow
  <2>2. ended' \in [Browser -> SUBSET Flow']
    BY <1>1, <2>1 DEF IInv, EndedInv
  <2>3. ASSUME NEW x \in Browser, NEW n \in ended'[x]
        PROVE  /\ jar'[x]["state"] # n
               /\ \A y \in net' : y.to = x => y.set["state"] # n
    <3>1. n \in Flow /\ n \in Nat /\ n # None /\ n # Keep
      BY <2>1, <2>2, <2>3, FlowIsNat DEF IInv
    <3>2. CASE n \in ended[x]
      <4>1. jar[x]["state"] # n /\ \A y \in net : y.to = x => y.set["state"] # n
        BY <3>2 DEF IInv, EndedInv
      <4>2. jar'[x]["state"] # n
        <5>1. CASE x = b /\ Accepts(m)
          <6>1. jar'[x] = mixed
            BY <1>1, <1>2, <5>1 DEF IInv, JarInv
          <6>2. mixed["state"] \in {jar[x]["state"], m.set["state"]}
            BY <1>3, <5>1 DEF Cookie
          <6> QED BY <4>1, <5>1, <6>1, <6>2
        <5>2. CASE ~(x = b /\ Accepts(m))
          <6>1. jar'[x] = jar[x]
            BY <1>1, <1>2, <5>2 DEF IInv, JarInv
          <6> QED BY <4>1, <6>1
        <5> QED BY <5>1, <5>2
      <4> QED BY <1>1, <4>1, <4>2
    <3>3. CASE n \notin ended[x]
      <4>1. x = b /\ m.flow = MaxLogin + 1 /\ Begun(n)
        BY <1>1, <1>2, <2>3, <3>3 DEF IInv, EndedInv
      <4>2. m.set = LogoutCookies /\ Accepts(m)
        BY <1>2, <4>1 DEF MessageInv, Accepts
      <4>3. jar'[x]["state"] = None
        <5>1. jar'[x] = mixed
          BY <1>1, <1>2, <4>1, <4>2 DEF IInv, JarInv
        <5>2. mixed["state"] = None
          BY <1>3, <4>2, CookieSets, SessionAssumption DEF Cookie
        <5> QED BY <5>1, <5>2
      <4>4. ASSUME NEW y \in net PROVE y.set["state"] # n
        <5>1. MessageInv(y)
          BY DEF IInv, NetInv
        <5>2. y.set["state"] = n => y.flow = n
          BY <3>1, <5>1 DEF MessageInv
        <5> QED BY <3>1, <4>1, <5>2 DEF Begun
      <4> QED BY <1>1, <3>1, <4>3, <4>4
    <3> QED BY <3>2, <3>3
  <2> QED BY <2>2, <2>3 DEF EndedInv
<1> QED BY <1>1, <1>4, <1>5, <1>7, <1>8 DEF IInv

LEMMA KratosLoginInv ==
  ASSUME IInv, NEW b \in Browser, KratosLogin(b)
  PROVE  IInv'
<1>1. /\ jar' = [jar EXCEPT ![b]["kratos"] = "signed in"]
      /\ UNCHANGED <<config, flows, code, net, ended>>
  BY DEF KratosLogin
<1>2. /\ jar' \in [Browser -> [Cookie -> CookieValue]]
      /\ \A x \in Browser : /\ \A c \in LoginCookie : jar'[x][c] = jar[x][c]
                            /\ jar'[x]["kratos"] \in {jar[x]["kratos"], "signed in"}
  BY <1>1 DEF IInv, JarInv, Cookie, CookieValue, LoginCookie
<1>3. JarInv'
  <2>0. \A c, x : LoginOf(c, x) => LoginOf(c, x)'
    BY <1>1 DEF LoginOf, Flow
  <2>1. ASSUME NEW x \in Browser
        PROVE  /\ \A c \in LoginCookie : jar'[x][c] = None \/ LoginOf(x, jar[x][c])'
               /\ jar'[x]["kratos"] \in {"signed in", None}
    <3>1. ASSUME NEW c \in LoginCookie PROVE jar'[x][c] = None \/ LoginOf(x, jar[x][c])'
      <4>1. PICK v : v = jar'[x][c]
        OBVIOUS
      <4>2. v = None \/ LoginOf(x, v)
        BY <1>2, <4>1 DEF IInv, JarInv
      <4>3. v = None \/ LoginOf(x, v)'
        BY <2>0, <4>2
      <4> QED BY <4>1, <4>3
    <3>2. jar'[x]["kratos"] \in {"signed in", None}
      BY <1>2 DEF IInv, JarInv
    <3> QED BY <3>1, <3>2
  <2> QED BY <1>2, <2>1 DEF JarInv
<1>4. NetInv'
  BY <1>1, NetStays DEF IInv
<1>5. FlowInv'
  BY <1>1 DEF IInv, FlowInv, Flow
<1>6. EndedInv'
  <2>1. \A x \in Browser : jar'[x]["state"] = jar[x]["state"]
    BY <1>2 DEF LoginCookie
  <2> QED BY <1>1, <2>1 DEF IInv, EndedInv, Flow
<1> QED BY <1>1, <1>3, <1>4, <1>5, <1>6 DEF IInv

LEMMA NextInv ==
  ASSUME IInv, [Next]_vars
  PROVE  IInv'
<1>1. ASSUME NEW b \in Browser,
             LoginRefused(b) \/ CallbackIncomplete(b) \/ OAuthLogoutNotPost(b)
      PROVE  IInv'
  BY <1>1, PlainAnswer DEF LoginRefused, CallbackIncomplete, OAuthLogoutNotPost
<1>2. ASSUME NEW b \in Browser, Login(b) PROVE IInv'
  BY <1>2, LoginInv
<1>3. ASSUME NEW b \in Browser, NEW n \in 1..MaxLogin, Callback(b, n) PROVE IInv'
  BY <1>3, CallbackInv
<1>4. ASSUME NEW b \in Browser, Logout(b) PROVE IInv'
  BY <1>4, LogoutInv
<1>5. ASSUME NEW b \in Browser, NEW token \in Token, NEW revoke \in BOOLEAN,
             OAuthLogout(b, token, revoke)
      PROVE  IInv'
  BY <1>5, OAuthLogoutInv
<1>6. ASSUME NEW b \in Browser, KratosLogin(b) PROVE IInv'
  BY <1>6, KratosLoginInv
<1>7. ASSUME NEW n \in 1..MaxLogin, Authenticate(n) PROVE IInv'
  BY <1>7, AuthenticateInv
<1>8. ASSUME NEW m \in net, Apply(m) PROVE IInv'
  BY <1>8, ApplyInv
<1>9. CASE UNCHANGED vars
  <2> USE <1>9 DEF vars
  <2>1. NetInv'
    BY NetStays DEF IInv
  <2>2. JarInv'
    BY DEF IInv, JarInv, LoginOf, Flow
  <2>3. FlowInv'
    BY DEF IInv, FlowInv, Flow
  <2>4. EndedInv'
    BY DEF IInv, EndedInv, Flow
  <2> QED BY <2>1, <2>2, <2>3, <2>4 DEF IInv
<1> QED BY <1>1, <1>2, <1>3, <1>4, <1>5, <1>6, <1>7, <1>8, <1>9 DEF Next

-----------------------------------------------------------------------------
(* Where the session of a login can be.                                    *)

\* A code is spent once: before, its session is nowhere; then it is in one response,
\* or in jars and in no response.  A session that was left is in no response, and not
\* in the jar of the browser that left it.
LeftInv ==
  /\ left \in [Browser -> SUBSET Flow]
  /\ \A n \in Flow : code[n] # "spent" =>
       /\ \A b \in Browser : jar[b]["session"] # n
       /\ \A m \in net : m.set["session"] # n
  /\ \A n \in Flow : \A m1, m2 \in net :
       m1.set["session"] = n /\ m2.set["session"] = n => m1 = m2
  /\ \A n \in Flow : \A b \in Browser : jar[b]["session"] = n =>
       \A m \in net : m.set["session"] # n
  /\ \A b \in Browser : \A n \in left[b] :
       /\ code[n] = "spent" /\ jar[b]["session"] # n
       /\ \A m \in net : m.set["session"] # n

\* Steps that move no session: codes stay spent, and a response that is added carries
\* no session.
LEMMA QuietLeft ==
  ASSUME IInv, LeftInv, FlowInv', Flow \subseteq Flow',
         \A n \in Flow : code[n] = "spent" => code'[n] = "spent",
         \A x \in net' : x \in net \/ x.set["session"] \in {None, Keep},
         \A b \in Browser : jar'[b]["session"] = jar[b]["session"],
         left' = left
  PROVE  LeftInv'
<1>1. None \notin Flow' /\ Keep \notin Flow'
  <2>1. (FlowInv => None \notin Flow /\ Keep \notin Flow)'
    BY FlowIsNat, PTL
  <2> QED BY <2>1
<1>2. \A b \in Browser : jar[b]["session"] \in Flow \cup {None}
  BY DEF IInv, JarInv, LoginOf, LoginCookie
<1>3. \A x \in net : x.set["session"] \in Flow \cup {None, Keep}
  BY DEF IInv, NetInv, MessageInv, LoginOf, LoginCookie
<1>4. ASSUME NEW n \in Flow', n \notin Flow
      PROVE  /\ \A b \in Browser : jar'[b]["session"] # n
             /\ \A x \in net' : x.set["session"] # n
  BY <1>1, <1>2, <1>3, <1>4
<1>5. ASSUME NEW n \in Flow
      PROVE  \A x \in net' : x.set["session"] = n => x \in net
  BY <1>1
<1>6. left' \in [Browser -> SUBSET Flow']
  BY DEF LeftInv
<1>7. ASSUME NEW n \in Flow', code'[n] # "spent"
      PROVE  /\ \A b \in Browser : jar'[b]["session"] # n
             /\ \A x \in net' : x.set["session"] # n
  BY <1>4, <1>5, <1>7 DEF LeftInv
<1>8. ASSUME NEW n \in Flow', NEW x \in net', NEW y \in net',
             x.set["session"] = n, y.set["session"] = n
      PROVE  x = y
  BY <1>4, <1>5, <1>8 DEF LeftInv
<1>9. ASSUME NEW n \in Flow', NEW b \in Browser, jar'[b]["session"] = n, NEW x \in net'
      PROVE  x.set["session"] # n
  BY <1>4, <1>5, <1>9 DEF LeftInv
<1>10. ASSUME NEW b \in Browser, NEW n \in left'[b]
       PROVE  /\ code'[n] = "spent" /\ jar'[b]["session"] # n
              /\ \A x \in net' : x.set["session"] # n
  <2>1. n \in Flow
    BY DEF LeftInv
  <2> QED BY <1>5, <2>1 DEF LeftInv
<1> QED BY <1>6, <1>7, <1>8, <1>9, <1>10 DEF LeftInv

\* A handler that answers without a session.
LEMMA QuietAnswer ==
  ASSUME IInv, LeftInv, NEW m, Answer(m), m.set["session"] \in {None, Keep},
         FlowInv', Flow \subseteq Flow',
         \A n \in Flow : code[n] = "spent" => code'[n] = "spent",
         UNCHANGED <<jar, left>>
  PROVE  LeftInv'
<1>1. \A x \in net' : x \in net \/ x.set["session"] \in {None, Keep}
  BY DEF Answer
<1> QED BY <1>1, QuietLeft

LEMMA PlainLeft ==
  ASSUME IInv, LeftInv, IInv', NEW b, NEW status, Answer(Response(b, status, Unchanged)),
         UNCHANGED <<config, jar, flows, code, ended, left>>
  PROVE  LeftInv'
<1>1. PICK m : m = Response(b, status, Unchanged)
  OBVIOUS
<1>2. m.set["session"] = Keep
  BY <1>1, CookieSets DEF Response, Cookie
<1> QED BY <1>1, <1>2, QuietAnswer DEF IInv, Flow

\* A new login has no session yet.
LEMMA LoginLeft ==
  ASSUME IInv, LeftInv, IInv', NEW b \in Browser, Login(b)
  PROVE  LeftInv'
<1>1. PICK n : n = Len(flows) + 1
  OBVIOUS
<1>2. PICK cookies : cookies = [Unchanged EXCEPT !["state"] = n, !["pkce"] = n]
  OBVIOUS
<1>3. cookies["session"] = Keep
  BY <1>2 DEF Unchanged, Cookie
<1>4. PICK m : m = [Response(b, 302, cookies) EXCEPT !.flow = n]
  OBVIOUS
<1>5. m.set["session"] = Keep
  BY <1>3, <1>4 DEF Response
<1>6. PICK f : flows' = Append(flows, f)
  BY DEF Login
<1>7. /\ Answer(m) /\ code' = Append(code, None) /\ UNCHANGED <<jar, left>>
  BY <1>1, <1>2, <1>4 DEF Login, randomState
<1>8. Flow \subseteq Flow' /\ \A x \in Flow : code'[x] = code[x]
  BY <1>6, <1>7 DEF IInv, FlowInv, Flow
<1> QED BY <1>5, <1>7, <1>8, QuietAnswer DEF IInv

\* A callback that signs in spends the code of its login: the session is issued now,
\* and it is the only one.
LEMMA IssueLeft ==
  ASSUME IInv, LeftInv, NEW n \in Flow, NEW m, m.set["session"] = n, code[n] = "good",
         code' = [code EXCEPT ![n] = "spent"], Answer(m), UNCHANGED <<jar, flows, left>>
  PROVE  LeftInv'
<1>1. Flow' = Flow
  BY DEF Flow
<1>2. code'[n] = "spent" /\ \A k \in Flow : k # n => code'[k] = code[k]
  BY DEF IInv, FlowInv, Flow
<1>3. /\ \A b \in Browser : jar[b]["session"] # n
      /\ \A x \in net : x.set["session"] # n
      /\ \A b \in Browser : n \notin left[b]
  BY DEF LeftInv
<1>4. net' = net \cup {m}
  BY DEF Answer
<1>5. ASSUME NEW k \in Flow, code'[k] # "spent"
      PROVE  /\ \A b \in Browser : jar[b]["session"] # k
             /\ \A x \in net' : x.set["session"] # k
  BY <1>2, <1>4, <1>5 DEF LeftInv
<1>6. ASSUME NEW k \in Flow, NEW x \in net', NEW y \in net',
             x.set["session"] = k, y.set["session"] = k
      PROVE  x = y
  BY <1>3, <1>4, <1>6 DEF LeftInv
<1>7. ASSUME NEW k \in Flow, NEW b \in Browser, jar[b]["session"] = k, NEW x \in net'
      PROVE  x.set["session"] # k
  BY <1>3, <1>4, <1>7 DEF LeftInv
<1>8. ASSUME NEW b \in Browser, NEW k \in left[b]
      PROVE  /\ code'[k] = "spent" /\ jar[b]["session"] # k
             /\ \A x \in net' : x.set["session"] # k
  <2>1. k \in Flow /\ k # n
    BY <1>3 DEF LeftInv
  <2> QED BY <1>2, <1>4, <2>1 DEF LeftInv
<1> QED BY <1>1, <1>5, <1>6, <1>7, <1>8 DEF LeftInv

LEMMA CallbackLeft ==
  ASSUME IInv, LeftInv, IInv', NEW b \in Browser, NEW n \in 1..MaxLogin, Callback(b, n)
  PROVE  LeftInv'
<1> DEFINE reply(status, cookies) ==
             [Response(b, status, cookies) EXCEPT !.flow = n, !.late = n \in ended[b]]
<1>1. n \in Flow /\ UNCHANGED <<jar, flows, left>>
  BY DEF Callback
<1>2. \/ /\ \E status \in {400, 502} : Answer(reply(status, Unchanged))
         /\ code' = code \/ code' = [code EXCEPT ![n] = "spent"]
      \/ /\ Answer(reply(302, SessionCookies(n))) /\ code[n] = "good"
         /\ code' = [code EXCEPT ![n] = "spent"]
  BY DEF Callback
<1>3. ASSUME NEW status \in {400, 502}, Answer(reply(status, Unchanged)),
             code' = code \/ code' = [code EXCEPT ![n] = "spent"]
      PROVE  LeftInv'
  <2>1. PICK m : m = reply(status, Unchanged)
    OBVIOUS
  <2>2. m.set["session"] = Keep
    BY <2>1, CookieSets DEF Response, Cookie
  <2>3. \A k \in Flow : code[k] = "spent" => code'[k] = "spent"
    BY <1>3 DEF IInv, FlowInv, Flow
  <2> QED BY <1>1, <1>3, <2>1, <2>2, <2>3, QuietAnswer DEF IInv, Flow
<1>4. ASSUME Answer(reply(302, SessionCookies(n))), code[n] = "good",
             code' = [code EXCEPT ![n] = "spent"]
      PROVE  LeftInv'
  <2>1. PICK cookies : cookies = SessionCookies(n)
    OBVIOUS
  <2>2. cookies["session"] = n
    BY <2>1 DEF SessionCookies, Unchanged, Cookie
  <2>3. PICK m : m = reply(302, cookies)
    OBVIOUS
  <2>4. m.set["session"] = n
    BY <2>2, <2>3 DEF Response
  <2> QED BY <1>1, <1>4, <2>1, <2>3, <2>4, IssueLeft
<1> QED BY <1>2, <1>3, <1>4

\* A response that reaches its browser.  A session moves from the only response that
\* carries it into a jar; a logout moves the session in the jar among those left.
LEMMA ApplyLeft ==
  ASSUME IInv, LeftInv, NEW m \in net, Apply(m)
  PROVE  LeftInv'
<1>1. PICK b \in Browser : b = m.to
  BY DEF IInv, NetInv, MessageInv
<1>2. /\ net' = net \ {m} /\ UNCHANGED <<flows, code>> /\ Flow' = Flow
  BY DEF Apply, Flow
<1>3. /\ m.set["session"] \in Flow \cup {None, Keep}
      /\ m.owed => m.set["session"] = None
  BY <1>1 DEF IInv, NetInv, MessageInv, LoginOf, LoginCookie
<1>4. /\ None \notin Flow /\ Keep \notin Flow /\ None # Keep
      /\ jar[b]["session"] \in Flow \cup {None}
  BY FlowIsNat, SessionAssumption DEF IInv, JarInv, LoginOf, LoginCookie
<1>5. /\ \A c \in Browser : c # b => jar'[c]["session"] = jar[c]["session"]
      /\ jar'[b]["session"] = IF Accepts(m) /\ m.set["session"] # Keep
                              THEN m.set["session"] ELSE jar[b]["session"]
  <2>1. CASE ~Accepts(m)
    BY <2>1 DEF Apply
  <2>2. CASE Accepts(m)
    <3>1. PICK mixed : mixed = [c \in Cookie |-> IF m.set[c] = Keep THEN jar[b][c]
                                                                 ELSE m.set[c]]
      OBVIOUS
    <3>2. mixed["session"] = IF m.set["session"] = Keep THEN jar[b]["session"]
                                                        ELSE m.set["session"]
      BY <3>1 DEF Cookie
    <3>3. jar' = [jar EXCEPT ![b] = mixed]
      BY <1>1, <2>2, <3>1 DEF Apply
    <3>4. jar'[b] = mixed /\ \A c \in Browser : c # b => jar'[c] = jar[c]
      BY <3>3 DEF IInv, JarInv
    <3> QED BY <2>2, <3>2, <3>4
  <2> QED BY <2>1, <2>2
<1>6. /\ left' \in [Browser -> SUBSET Flow]
      /\ \A c \in Browser : \A n \in left'[c] :
           \/ n \in left[c]
           \/ c = b /\ n = jar[b]["session"] /\ Accepts(m) /\ m.owed
  <2>1. CASE Accepts(m) /\ m.owed
    <3>1. left' = [left EXCEPT ![b] = left[b] \cup ({jar[b]["session"]} \ {None})]
      BY <1>1, <2>1 DEF Apply
    <3> QED BY <1>4, <2>1, <3>1 DEF LeftInv
  <2>2. CASE ~(Accepts(m) /\ m.owed)
    <3>1. left' = left
      BY <2>2 DEF Apply
    <3> QED BY <3>1 DEF LeftInv
  <2> QED BY <2>1, <2>2
<1>7. ASSUME NEW n \in Flow, code[n] # "spent"
      PROVE  /\ \A c \in Browser : jar'[c]["session"] # n
             /\ \A x \in net' : x.set["session"] # n
  <2>1. /\ \A c \in Browser : jar[c]["session"] # n
        /\ \A x \in net : x.set["session"] # n
    BY <1>7 DEF LeftInv
  <2> QED BY <1>2, <1>5, <2>1
<1>8. ASSUME NEW n \in Flow, NEW x \in net', NEW y \in net',
             x.set["session"] = n, y.set["session"] = n
      PROVE  x = y
  BY <1>2, <1>8 DEF LeftInv
<1>9. ASSUME NEW n \in Flow, NEW c \in Browser, jar'[c]["session"] = n, NEW x \in net'
      PROVE  x.set["session"] # n
  <2>1. CASE jar[c]["session"] = n
    BY <1>2, <2>1 DEF LeftInv
  <2>2. CASE jar[c]["session"] # n
    <3>1. m.set["session"] = n
      BY <1>5, <1>9, <2>2
    <3> QED BY <1>2, <3>1 DEF LeftInv
  <2> QED BY <2>1, <2>2
<1>10. ASSUME NEW c \in Browser, NEW n \in left'[c]
       PROVE  /\ code[n] = "spent" /\ jar'[c]["session"] # n
              /\ \A x \in net' : x.set["session"] # n
  <2>1. CASE n \in left[c]
    <3>1. /\ code[n] = "spent" /\ jar[c]["session"] # n
          /\ \A x \in net : x.set["session"] # n
      BY <2>1 DEF LeftInv
    <3> QED BY <1>2, <1>5, <3>1
  <2>2. CASE c = b /\ n = jar[b]["session"] /\ Accepts(m) /\ m.owed
    <3>1. n \in Flow
      BY <1>6, <1>10
    <3>2. code[n] = "spent" /\ \A x \in net : x.set["session"] # n
      BY <2>2, <3>1 DEF LeftInv
    <3>3. jar'[c]["session"] = None
      BY <1>3, <1>4, <1>5, <2>2
    <3> QED BY <1>2, <1>4, <3>1, <3>2, <3>3
  <2> QED BY <1>6, <1>10, <2>1, <2>2
<1> QED BY <1>2, <1>6, <1>7, <1>8, <1>9, <1>10 DEF LeftInv

LEMMA LeftNextInv ==
  ASSUME IInv, LeftInv, IInv', [Next]_vars
  PROVE  LeftInv'
<1>1. ASSUME NEW b \in Browser,
             LoginRefused(b) \/ CallbackIncomplete(b) \/ OAuthLogoutNotPost(b)
      PROVE  LeftInv'
  BY <1>1, PlainLeft DEF LoginRefused, CallbackIncomplete, OAuthLogoutNotPost
<1>2. ASSUME NEW b \in Browser, Login(b) PROVE LeftInv'
  BY <1>2, LoginLeft
<1>3. ASSUME NEW b \in Browser, NEW n \in 1..MaxLogin, Callback(b, n) PROVE LeftInv'
  BY <1>3, CallbackLeft
<1>4. ASSUME NEW b \in Browser, Logout(b) PROVE LeftInv'
  <2>1. PICK m : m = [Response(b, 200, LogoutCookies) EXCEPT !.flow = MaxLogin + 1,
                                                              !.owed = TRUE]
    OBVIOUS
  <2>2. m.set["session"] = None
    BY <2>1, CookieSets DEF Response
  <2>3. Answer(m) /\ UNCHANGED <<jar, flows, code, left>>
    BY <1>4, <2>1 DEF Logout
  <2> QED BY <2>2, <2>3, QuietAnswer DEF IInv, Flow
<1>5. ASSUME NEW b \in Browser, NEW token \in Token, NEW revoke \in BOOLEAN,
             OAuthLogout(b, token, revoke)
      PROVE  LeftInv'
  <2>1. PICK m : Answer(m) /\ m.set \in {OAuthLogoutCookies, Unchanged}
    BY <1>5, OAuthLogoutAnswer
  <2>2. m.set["session"] \in {None, Keep}
    BY <2>1, CookieSets DEF Cookie
  <2>3. UNCHANGED <<jar, flows, code, left>>
    BY <1>5, OAuthLogoutAnswer
  <2> QED BY <2>1, <2>2, <2>3, QuietAnswer DEF IInv, Flow
<1>6. ASSUME NEW b \in Browser, KratosLogin(b) PROVE LeftInv'
  <2>1. /\ jar' = [jar EXCEPT ![b]["kratos"] = "signed in"]
        /\ UNCHANGED <<flows, code, net, left>>
    BY <1>6 DEF KratosLogin
  <2>2. \A x \in Browser : jar'[x]["session"] = jar[x]["session"]
    BY <2>1 DEF IInv, JarInv, Cookie
  <2> QED BY <2>1, <2>2, QuietLeft DEF IInv, Flow
<1>7. ASSUME NEW n \in 1..MaxLogin, Authenticate(n) PROVE LeftInv'
  <2>1. /\ code[n] = None /\ code' = [code EXCEPT ![n] = "good"] /\ n \in Flow
        /\ UNCHANGED <<jar, flows, net, left>>
    BY <1>7 DEF Authenticate
  <2>2. \A k \in Flow : code[k] = "spent" => code'[k] = "spent"
    <3>1. \A k \in Flow : k # n => code'[k] = code[k]
      BY <2>1 DEF IInv, FlowInv, Flow
    <3>2. code[n] # "spent"
      BY <2>1, SessionAssumption
    <3> QED BY <3>1, <3>2
  <2> QED BY <2>1, <2>2, QuietLeft DEF IInv, Flow
<1>8. ASSUME NEW m \in net, Apply(m) PROVE LeftInv'
  BY <1>8, ApplyLeft
<1>9. CASE UNCHANGED vars
  BY <1>9, QuietLeft DEF vars, IInv, Flow
<1> QED BY <1>1, <1>2, <1>3, <1>4, <1>5, <1>6, <1>7, <1>8, <1>9 DEF Next

-----------------------------------------------------------------------------
(* The theorems.                                                           *)

\* The cookies in the jars and on their way belong to logins of their browser.
THEOREM SessionInvariant == Spec => []IInv
<1>1. Init => IInv
  BY InitInv
<1>2. IInv /\ [Next]_vars => IInv'
  BY NextInv
<1> QED BY <1>1, <1>2, PTL DEF Spec

\* The session of a login is issued once, and what was left stays left.
THEOREM LeftInvariant == Spec => []LeftInv
<1>1. Init => LeftInv
  BY DEF Init, LeftInv, Flow
<1>2. IInv /\ LeftInv /\ IInv' /\ [Next]_vars => LeftInv'
  BY LeftNextInv
<1> QED BY <1>1, <1>2, SessionInvariant, PTL DEF Spec

\* A browser is signed in by its own logins only.
THEOREM OwnLogins == Spec => []SessionIsOwnLogin
<1>1. IInv /\ LeftInv => SessionIsOwnLogin
  <2> SUFFICES ASSUME IInv, LeftInv PROVE SessionIsOwnLogin
    OBVIOUS
  <2>1. ASSUME NEW b \in Browser
        PROVE  /\ \A c \in LoginCookie : jar[b][c] \in 1..MaxLogin \cup {None}
               /\ jar[b]["session"] # None => flows[jar[b]["session"]].browser = b
    <3>1. \A c \in LoginCookie : jar[b][c] = None \/ LoginOf(b, jar[b][c])
      BY DEF IInv, JarInv
    <3>2. Flow \subseteq 1..MaxLogin
      BY FlowIsNat DEF IInv
    <3> QED BY <3>1, <3>2 DEF LoginOf, LoginCookie
  <2>2. \A n \in Flow : code[n] \in {None, "good", "spent"}
    BY DEF IInv, FlowInv, Flow
  <2> QED BY <2>1, <2>2
          DEF IInv, LeftInv, SessionIsOwnLogin, TypeOK, JarInv, FlowInv, NetInv, EndedInv,
              LoginCookie
<1> QED BY <1>1, SessionInvariant, LeftInvariant, PTL

\* A login that was ended by a logout signs nobody in.
THEOREM LogoutEndsLogins == Spec => []LogoutEndsPendingLogins
<1>1. IInv => LogoutEndsPendingLogins
  BY DEF IInv, NetInv, MessageInv, LogoutEndsPendingLogins
<1> QED BY <1>1, SessionInvariant, PTL

\* A browser never gets back the session it has signed out of.
THEOREM SignedOut == Spec => []SignedOutStaysOut
<1>1. LeftInv => SignedOutStaysOut
  BY DEF LeftInv, SignedOutStaysOut
<1> QED BY <1>1, LeftInvariant, PTL
=============================================================================
