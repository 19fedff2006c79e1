------------------------- MODULE SenderGateProofs -------------------------
(***************************************************************************)
(* The sender-constrained gate, for any number of concurrent requests, any  *)
(* tokens and calls and any cache sizes and lifetimes.                      *)
(*                                                                         *)
(* The argument.  A jti that was spent, and not evicted since to make room, *)
(* stays in the replay cache for as long as its proof is fresh              *)
(* (Remembered), since a proof was fresh shortly before it was added        *)
(* (Checked).  What a request has shown by the phase it is in is kept along *)
(* its way (Passed).  An introspection answer, cached or on its way to the  *)
(* cache, is dated from when it was asked for                               *)
(* (AnswersExpire, Asked), so that none outlives a revocation by more than  *)
(* one time to live and one delay.                                          *)
(***************************************************************************)
EXTENDS SenderGate, LRUCacheProofs, TLAPS

-----------------------------------------------------------------------------
(* The introspection cache: the lemmas of LRUCacheProofs, for the instance  *)
(* of SenderGate.                                                          *)

IP == INSTANCE LRUCacheProofs WITH
  Key <- Token, MaxSize <- IntroMax, TTL <- IntroTTL,
  items <- introItems, order <- introOrder, gen <- introGen

LEMMA IntroAssumption == IP!CacheAssumption
  BY GateAssumption DEF IP!CacheAssumption

\* Both instances of the cache have the same methods.
LEMMA IntroGetIs ==
  ASSUME NEW t, Intro!Get(t)
  PROVE  IP!Get(t)
  BY Zenon DEF Intro!Get, IP!Get, Intro!Live, IP!Live, Intro!Drop, IP!Drop,
     Intro!Restrict, IP!Restrict, Intro!Without, IP!Without,
     Intro!MovedToFront, IP!MovedToFront, Intro!Range, IP!Range,
     Intro!RemoveAt, IP!RemoveAt

LEMMA IntroPutIs ==
  ASSUME NEW k, NEW v, NEW ttl, NEW g, Intro!PutIfGenWithTTL(k, v, ttl, g)
  PROVE  IP!PutIfGenWithTTL(k, v, ttl, g)
  BY Zenon DEF Intro!PutIfGenWithTTL, IP!PutIfGenWithTTL, Intro!putLocked, IP!putLocked,
     Intro!Restrict, IP!Restrict, Intro!Without, IP!Without,
     Intro!MovedToFront, IP!MovedToFront, Intro!Range, IP!Range,
     Intro!RemoveAt, IP!RemoveAt, Intro!Cardinality, IP!Cardinality

LEMMA IntroGet ==
  ASSUME NEW t, IP!Table(BOOLEAN), Intro!Get(t)
  PROVE  IP!Table(BOOLEAN)' /\ IP!Shrinks /\ introGen' = introGen
  BY IntroAssumption, IntroGetIs, IP!GetTable

LEMMA IntroPut ==
  ASSUME NEW t \in Token, NEW v \in BOOLEAN, NEW ttl \in Nat \ {0}, NEW g, now \in Nat,
         IP!Table(BOOLEAN), Intro!PutIfGenWithTTL(t, v, ttl, g)
  PROVE  /\ IP!Table(BOOLEAN)' /\ introGen' = introGen
         /\ IP!Stores(t, [value |-> v, expiresAt |-> now + ttl])
<1>1. IP!PutIfGenWithTTL(t, v, ttl, g)
  BY IntroPutIs
<1>2. (IF ttl <= 0 THEN IntroTTL ELSE ttl) = ttl /\ ttl \in Int
  OBVIOUS
<1> DEFINE u == IF ttl <= 0 THEN IntroTTL ELSE ttl
<1>3. /\ IP!Table(BOOLEAN)' /\ introGen' = introGen
      /\ IP!Stores(t, [value |-> v, expiresAt |-> now + u])
  BY <1>1, <1>2, IntroAssumption, IP!PutIfGenTable
<1> HIDE DEF u
<1>4. u = ttl
  BY <1>2 DEF u
<1> QED
  BY <1>3, <1>4

-----------------------------------------------------------------------------
(* The inductive invariant.                                                *)

\* A jti that was spent is in the cache for as long as its proof is fresh.
Remembered(j) ==
  \/ j \in DOMAIN items /\ items[j].expiresAt >= Iat[j] + Freshness
  \/ now > Iat[j] + Freshness

\* Between the two clock reads: the proof was fresh at the first, at most MaxDelay ago.
Checked(r) ==
  At(r, "fresh") =>
    /\ req[r].checkedAt <= now /\ now <= req[r].checkedAt + MaxDelay
    /\ req[r].checkedAt <= Iat[req[r].jti] + Freshness
    /\ Iat[req[r].jti] <= req[r].checkedAt + Freshness

ReplayInv ==
  /\ now \in Nat
  /\ Table({TRUE}) /\ gen \in Nat
  /\ req \in [Request -> RequestState]
  /\ spent \subseteq Key
  /\ \A j \in spent : Remembered(j)
  /\ \A r \in Request : Checked(r)

\* How a request has come to its phase: the surface it arrived on, and what it has proved.
Passed(r) ==
  LET g == gate[r]
  IN  /\ g.pc \notin {"out", "served"} => g.call.token \in Token
      /\ g.pc \notin {"out", "served", "sender"} => g.call.via = "http"
      /\ g.pc = "validate" =>
           /\ "jkt" \in g.call.token.cnf
           /\ req[r].pc \in {"fresh", "added", "accepted"} => g.call.fits
      /\ g.pc = "stepup" => Proven(r)

\* A cached answer that a token is active is of before its revocation, and old by now
\* when that was long ago.
AnswersExpire ==
  \A t \in DOMAIN introItems :
    \/ revokedAt[t] = None /\ introItems[t].expiresAt <= now + IntroTTL
    \/ introItems[t].value = FALSE
    \/ revokedAt[t] # None /\ introItems[t].expiresAt <= revokedAt[t] + MaxDelay + IntroTTL

\* So is an answer on its way to the cache; and a request with a token that was revoked
\* long ago passes the introspection only when that failed.
Asked(r) ==
  LET g == gate[r]
  IN  /\ g.late => g.pc \notin {"out", "served"} /\ RevokedLongAgo(g.call.token)
      /\ g.pc = "store" => g.askedAt <= now /\ now <= g.askedAt + MaxDelay
      /\ g.pc = "store" /\ g.active =>
           revokedAt[g.call.token] = None \/ revokedAt[g.call.token] >= g.askedAt
      /\ g.late /\ g.pc \in {"sender", "validate", "stepup"} /\ g.call.via = "http" => g.soft

GateInv ==
  /\ IP!Table(BOOLEAN) /\ introGen \in Nat
  /\ gate \in [Request -> GateState]
  /\ revokedAt \in [Token -> Nat \cup {None}]
  /\ AnswersExpire
  /\ \A r \in Request : Passed(r) /\ Asked(r)

-----------------------------------------------------------------------------
(* The types of the constants and of a request.                            *)

LEMMA GateConstants ==
  /\ Key # {} /\ Out \in GateState /\ NoValidation \in RequestState
  /\ (CHOOSE c \in Call : TRUE) \in Call
<1>1. PICK c \in Call : TRUE
  BY GateAssumption
<1>2. (CHOOSE d \in Call : TRUE) \in Call
  BY <1>1
<1>3. c.proof \in Key
  BY GateAssumption DEF CallType
<1>4. (CHOOSE j \in Key : TRUE) \in Key
  BY <1>3
<1>5. Out \in GateState
  BY <1>2 DEF Out, GateState, Phase
<1>6. NoValidation \in RequestState
  BY <1>4 DEF NoValidation, RequestState
<1> QED BY <1>2, <1>3, <1>5, <1>6

LEMMA CallFields ==
  ASSUME NEW c \in Call
  PROVE  /\ c.via \in {"http", "grpc"} /\ c.token \in Token \cup {None} /\ c.proof \in Key
         /\ c.public \in BOOLEAN /\ c.valid \in BOOLEAN /\ c.fits \in BOOLEAN
         /\ c.cert \in BOOLEAN /\ c.floor \in 0..3
  BY GateAssumption DEF CallType

LEMMA TokenFields ==
  ASSUME NEW t \in Token
  PROVE  t.exp \in Nat /\ t.acr \in 0..3 /\ t.jti \in BOOLEAN /\ t.cnf \subseteq {"jkt", "x5t"}
         /\ t # None
  BY GateAssumption DEF TokenType

\* A request that goes on keeps everything but its phase; one that leaves is forgotten.
LEMMA GotoFields ==
  ASSUME NEW r \in Request, NEW phase \in Phase, gate \in [Request -> GateState],
         Goto(r, phase)
  PROVE  /\ gate' \in [Request -> GateState]
         /\ \A q \in Request \ {r} : gate'[q] = gate[q]
         /\ gate'[r].pc = phase
         /\ phase \in {"out", "served"} => gate'[r].late = FALSE
         /\ phase \notin {"out", "served"} =>
              /\ gate'[r].call = gate[r].call /\ gate'[r].late = gate[r].late
              /\ gate'[r].active = gate[r].active /\ gate'[r].askedAt = gate[r].askedAt
              /\ gate'[r].soft = gate[r].soft
<1>1. CASE phase \in {"out", "served"}
  <2>1. gate' = [gate EXCEPT ![r] = [Out EXCEPT !.pc = phase]]
    BY <1>1 DEF Goto
  <2>2. [Out EXCEPT !.pc = phase] \in GateState
    BY GateConstants DEF GateState
  <2>3. [Out EXCEPT !.pc = phase].pc = phase /\ [Out EXCEPT !.pc = phase].late = FALSE
    BY DEF Out
  <2> QED BY <1>1, <2>1, <2>2, <2>3
<1>2. CASE phase \notin {"out", "served"}
  <2>1. gate' = [gate EXCEPT ![r] = [gate[r] EXCEPT !.pc = phase]]
    BY <1>2 DEF Goto
  <2>2. [gate[r] EXCEPT !.pc = phase] \in GateState
    BY DEF GateState
  <2>3. gate[r] \in GateState
    OBVIOUS
  <2> QED BY <1>2, <2>1, <2>2, <2>3 DEF GateState
<1> QED BY <1>1, <1>2

-----------------------------------------------------------------------------
(* The seen proofs.                                                        *)

\* A step that only moves the validation of r, and not into the gap between the two
\* clock reads.
LEMMA MoveReplay ==
  ASSUME ReplayInv, NEW r \in Request, NEW x \in RequestState, x.pc # "fresh",
         req' = [req EXCEPT ![r] = x], UNCHANGED <<cacheVars, now, spent>>
  PROVE  ReplayInv'
<1>1. /\ req' \in [Request -> RequestState] /\ req'[r] = x
      /\ \A q \in Request \ {r} : req'[q] = req[q]
  BY DEF ReplayInv
<1>2. UNCHANGED <<items, order, gen, now, spent>>
  BY DEF cacheVars
<1>3. \A q \in Request : Checked(q)'
  BY <1>1, <1>2 DEF ReplayInv, Checked, At
<1>4. Table({TRUE})'
  BY <1>2 DEF ReplayInv, Table, ListMatchesMap
<1>5. \A j \in spent' : Remembered(j)'
  BY <1>2 DEF ReplayInv, Remembered
<1> QED
  BY <1>1, <1>2, <1>3, <1>4, <1>5 DEF ReplayInv

\* Nothing of the validator changes.
LEMMA StutterReplay ==
  ASSUME ReplayInv, UNCHANGED <<replayVars, now>>
  PROVE  ReplayInv'
<1>1. UNCHANGED <<items, order, gen, req, spent, now>>
  BY DEF replayVars
<1>2. Table({TRUE})'
  BY <1>1 DEF ReplayInv, Table, ListMatchesMap
<1> QED
  BY <1>1, <1>2 DEF ReplayInv, Remembered, Checked, At

\* Time passes: not more than MaxDelay between the two clock reads of a validation.
LEMMA TickReplay ==
  ASSUME ReplayInv, now' = now + 1, UNCHANGED replayVars,
         \A r \in Request : At(r, "fresh") => now < req[r].checkedAt + MaxDelay
  PROVE  ReplayInv'
<1>1. UNCHANGED <<items, order, gen, req, spent>> /\ now \in Nat /\ now' \in Nat
  BY DEF replayVars, ReplayInv
<1>2. Table({TRUE})'
  BY <1>1 DEF ReplayInv, Table, ListMatchesMap
<1>3. ASSUME NEW j \in spent PROVE Remembered(j)'
  <2>1. Remembered(j) /\ Iat[j] \in Nat /\ Freshness \in Nat /\ MaxDelay \in Nat
    BY ReplayAssumption DEF ReplayInv
  <2> QED
    BY <1>1, <2>1 DEF Remembered
<1>4. ASSUME NEW r \in Request PROVE Checked(r)'
  <2>1. /\ Checked(r) /\ req[r].checkedAt \in Nat /\ MaxDelay \in Nat
        /\ At(r, "fresh") => now < req[r].checkedAt + MaxDelay
    BY ReplayAssumption DEF ReplayInv, RequestState
  <2>2. req[r].jti \in Key /\ Iat[req[r].jti] \in Nat
    BY ReplayAssumption DEF ReplayInv, RequestState
  <2> QED
    BY <1>1, <2>1, <2>2 DEF Checked, At
<1> QED
  BY <1>1, <1>2, <1>3, <1>4 DEF ReplayInv

\* A proof found fresh enters the gap.
LEMMA FreshReplay ==
  ASSUME ReplayInv, NEW r \in Request, CheckFreshness(r), UNCHANGED now
  PROVE  ReplayInv'
<1>1. UNCHANGED <<items, order, gen, now, spent>> /\ now \in Nat /\ Freshness \in Nat
      /\ MaxDelay \in Nat
  BY ReplayAssumption DEF cacheVars, CheckFreshness, ReplayInv
<1>2. /\ req' = [req EXCEPT ![r].pc = "fresh", ![r].checkedAt = now]
      /\ req \in [Request -> RequestState]
  BY DEF CheckFreshness, ReplayInv
<1>3. /\ req' \in [Request -> RequestState]
      /\ req'[r].jti = req[r].jti /\ req'[r].checkedAt = now
      /\ \A q \in Request \ {r} : req'[q] = req[q]
  BY <1>1, <1>2 DEF RequestState
<1>4. req[r].jti \in Key /\ Iat[req[r].jti] \in Nat /\ IsFresh(req[r].jti)
  BY <1>2, ReplayAssumption DEF RequestState, CheckFreshness
<1>5. Checked(r)'
  BY <1>1, <1>3, <1>4 DEF Checked, At, IsFresh
<1>6. ASSUME NEW q \in Request, q # r PROVE Checked(q)'
  BY <1>1, <1>3, <1>6 DEF ReplayInv, Checked, At
<1>7. Table({TRUE})'
  BY <1>1 DEF ReplayInv, Table, ListMatchesMap
<1>8. \A j \in spent' : Remembered(j)'
  BY <1>1 DEF ReplayInv, Remembered
<1> QED
  BY <1>1, <1>3, <1>5, <1>6, <1>7, <1>8 DEF ReplayInv

\* A spent jti whose proof is still fresh is live in the cache.
LEMMA SpentIsLive ==
  ASSUME ReplayInv, NEW r \in Request, req[r].jti \in spent,
         now <= Iat[req[r].jti] + Freshness
  PROVE  Live(req[r].jti)
<1> DEFINE j == req[r].jti
<1>1. Remembered(j) /\ now \in Nat
  BY DEF ReplayInv
<1>2. j \in Key /\ Iat[j] \in Nat /\ Freshness \in Nat
  BY ReplayAssumption DEF ReplayInv, RequestState
<1>3. \A k \in DOMAIN items : items[k].expiresAt \in Nat
  BY DEF ReplayInv, Table, Entry
<1>4. j \in DOMAIN items /\ items[j].expiresAt >= Iat[j] + Freshness
  BY <1>1, <1>2 DEF Remembered
<1> QED
  BY <1>1, <1>2, <1>3, <1>4 DEF Live

\* The jti is stored for as long as its proof can be fresh; what the capacity bound
\* evicts while live is not spent any more, and what it evicts later is no longer
\* fresh.
LEMMA AddReplay ==
  ASSUME ReplayInv, NEW r \in Request, Add(r), UNCHANGED now
  PROVE  ReplayInv'
<1> DEFINE out == {k \in DOMAIN items : Live(k)} \ DOMAIN items'
<1>0. PICK j : j = req[r].jti
  OBVIOUS
<1>1. /\ now \in Nat /\ now' = now /\ Table({TRUE}) /\ gen' = gen /\ gen \in Nat
      /\ req \in [Request -> RequestState]
      /\ At(r, "fresh") /\ AddIfAbsent(j, TRUE) /\ Checked(r)
      /\ \A k \in spent : Remembered(k)
      /\ spent \subseteq Key
  BY <1>0 DEF ReplayInv, Add, AddIfAbsent
<1>2. /\ j \in Key /\ req[r].checkedAt \in Nat /\ Iat \in [Key -> Nat]
      /\ Freshness \in Nat /\ MaxDelay \in Nat /\ TTL \in Nat
      /\ TTL >= 2 * Freshness
  BY <1>0, <1>1, ReplayAssumption, CacheAssumption DEF RequestState
<1>3. CASE Live(j)
  <2>1. /\ UNCHANGED <<items, order, spent>>
        /\ req' = [req EXCEPT ![r].pc = "replay", ![r].checkedAt = 0]
    BY <1>0, <1>3 DEF Add, AddIfAbsent
  <2>2. [req[r] EXCEPT !.pc = "replay", !.checkedAt = 0] \in RequestState
    BY <1>1 DEF RequestState
  <2>3. req' = [req EXCEPT ![r] = [req[r] EXCEPT !.pc = "replay", !.checkedAt = 0]]
    BY <1>1, <2>1
  <2>4. [req[r] EXCEPT !.pc = "replay", !.checkedAt = 0].pc # "fresh"
    BY <1>1 DEF RequestState
  <2> QED
    BY <1>1, <2>1, <2>2, <2>3, <2>4, MoveReplay DEF cacheVars
<1>4. CASE ~Live(j)
  <2>1. /\ putLocked(j, TRUE, TTL) /\ spent' = (spent \cup {j}) \ out
        /\ req' = [req EXCEPT ![r].pc = "added", ![r].checkedAt = 0]
    BY <1>0, <1>4 DEF Add, AddIfAbsent
  <2>2. /\ Table({TRUE})'
        /\ Stores(j, [value |-> TRUE, expiresAt |-> now + TTL])
        /\ j \in DOMAIN items' /\ items'[j] = [value |-> TRUE, expiresAt |-> now + TTL]
    BY <1>1, <1>2, <2>1, PutTable
  <2>3. /\ req' \in [Request -> RequestState] /\ req'[r].pc = "added"
        /\ \A q \in Request \ {r} : req'[q] = req[q]
    BY <1>1, <2>1 DEF RequestState
  <2>4. Remembered(j)'
    <3>1. items'[j].expiresAt = now + TTL /\ Iat[j] \in Nat
      BY <1>2, <2>2
    <3>2. now + Freshness >= Iat[j]
      BY <1>0, <1>1, <1>2, <3>1 DEF Checked
    <3>3. now + TTL >= Iat[j] + Freshness
      BY <1>1, <1>2, <3>1, <3>2
    <3> QED
      BY <1>1, <2>2, <3>1, <3>3 DEF Remembered
  <2>5. ASSUME NEW k \in spent', k # j PROVE Remembered(k)'
    <3>1. k \in spent /\ k \notin out /\ Remembered(k) /\ k \in Key /\ Iat[k] \in Nat
      BY <1>1, <1>2, <2>1, <2>5
    <3>2. CASE k \in DOMAIN items'
      BY <1>1, <2>2, <2>5, <3>1, <3>2 DEF Remembered, Stores
    <3>3. CASE k \in DOMAIN items /\ k \notin DOMAIN items'
      <4>1. items[k].expiresAt \in Nat
        BY <1>1, <3>3 DEF Table, Entry
      <4>2. now > items[k].expiresAt
        BY <1>1, <3>1, <3>3, <4>1 DEF Live
      <4> QED
        BY <1>1, <1>2, <3>1, <4>1, <4>2 DEF Remembered
    <3>4. CASE k \notin DOMAIN items /\ k \notin DOMAIN items'
      BY <1>1, <3>1, <3>4 DEF Remembered
    <3> QED
      BY <3>2, <3>3, <3>4
  <2>6. \A q \in Request : Checked(q)'
    BY <1>1, <2>3 DEF ReplayInv, Checked, At
  <2>7. spent' \subseteq Key
    BY <1>1, <1>2, <2>1
  <2> QED
    BY <1>1, <2>2, <2>3, <2>4, <2>5, <2>6, <2>7 DEF ReplayInv
<1> QED
  BY <1>3, <1>4

-----------------------------------------------------------------------------
(* The gate.                                                               *)

\* No request leaves the gate to authorization in this step.
NoneAdmitted == \A q \in Request : ~Admits(q)

\* What a request with a token is checked for next, on each surface.
LEMMA ArrivePhases ==
  ASSUME NEW c \in Call,
         NEW phase \in IF c.via = "http" THEN ArriveHTTP(c) ELSE ArriveGRPC(c)
  PROVE  \/ phase \in {"out", "served"}
         \/ c.token \in Token /\ c.via = "http" /\ c.token.jti /\ phase = "introspect"
         \/ c.token \in Token /\ c.via = "http" /\ ~c.token.jti /\ phase = "sender"
         \/ c.token \in Token /\ c.via # "http" /\ phase = "sender"
<1>1. c.token \in Token \cup {None}
  BY CallFields
<1>2. CASE c.via = "http"
  <2>1. phase \in ArriveHTTP(c)
    BY <1>2
  <2>2. CASE c.public
    BY <2>1, <2>2, Zenon DEF ArriveHTTP
  <2>3. CASE ~c.public /\ c.token = None
    <3>1. phase \in {IF Strict THEN "out" ELSE "served"}
      BY <2>1, <2>3, Zenon DEF ArriveHTTP
    <3> QED BY <3>1
  <2>4. CASE ~c.public /\ c.token # None
    <3>1. phase \in AfterVerify(c, IF c.token.jti THEN "introspect" ELSE "sender")
      BY <2>1, <2>4, Zenon DEF ArriveHTTP
    <3> QED BY <1>1, <1>2, <2>4, <3>1 DEF AfterVerify
  <2> QED BY <2>2, <2>3, <2>4
<1>3. CASE c.via # "http"
  BY <1>1, <1>3 DEF ArriveGRPC, AfterVerify
<1> QED BY <1>2, <1>3

\* What the sender-constrained checks over REST decide.
LEMMA BindingPhases ==
  ASSUME NEW c \in Call, c.token \in Token
  PROVE  \/ Binding(c) = "validate" /\ "jkt" \in c.token.cnf
         \/ Binding(c) = "out"
         \/ Binding(c) = "stepup" /\ (c.token.cnf = {} \/ ("x5t" \in c.token.cnf /\ c.cert))
<1>1. c.token.cnf \subseteq {"jkt", "x5t"}
  BY TokenFields
<1>2. CASE "jkt" \in c.token.cnf
  BY <1>2, Zenon DEF Binding
<1>3. CASE "jkt" \notin c.token.cnf /\ "x5t" \in c.token.cnf
  <2>1. Binding(c) = IF c.cert THEN "stepup" ELSE "out"
    BY <1>3, Zenon DEF Binding
  <2> QED BY <1>3, <2>1
<1>4. CASE "jkt" \notin c.token.cnf /\ "x5t" \notin c.token.cnf
  <2>1. Binding(c) = IF c.scheme = "DPoP" THEN "out" ELSE "stepup"
    BY <1>4, Zenon DEF Binding
  <2>2. c.token.cnf = {}
    BY <1>1, <1>4
  <2> QED BY <2>1, <2>2
<1> QED BY <1>2, <1>3, <1>4

\* The introspection cache is left alone.
LEMMA SameAnswers ==
  ASSUME GateInv, UNCHANGED <<introVars, now, revokedAt>>
  PROVE  IP!Table(BOOLEAN)' /\ introGen' \in Nat /\ AnswersExpire'
<1>1. UNCHANGED <<introItems, introOrder, introGen, now, revokedAt>>
  BY DEF introVars
<1> QED
  BY <1>1 DEF GateInv, AnswersExpire, IP!Table, IP!ListMatchesMap

\* A request that a step does not move keeps its place.
LEMMA OtherRequest ==
  ASSUME NEW q \in Request, Passed(q), Asked(q), gate'[q] = gate[q], req'[q] = req[q],
         UNCHANGED <<now, revokedAt>>
  PROVE  Passed(q)' /\ Asked(q)' /\ ~Admits(q)
<1>1. Passed(q)'
  BY DEF Passed, Proven, At
<1>2. Asked(q)'
  BY DEF Asked, RevokedLongAgo
<1> QED
  BY <1>1, <1>2 DEF Admits

\* A step of one request: it is enough to look at that one and at the cache.
LEMMA RequestStep ==
  ASSUME GateInv, NEW r \in Request, gate' \in [Request -> GateState],
         \A q \in Request \ {r} : gate'[q] = gate[q] /\ req'[q] = req[q],
         UNCHANGED <<now, revokedAt>>,
         IP!Table(BOOLEAN)', introGen' \in Nat, AnswersExpire',
         Passed(r)', Asked(r)'
  PROVE  GateInv' /\ \A q \in Request : Admits(q) => q = r
<1>1. ASSUME NEW q \in Request \ {r} PROVE Passed(q)' /\ Asked(q)' /\ ~Admits(q)
  BY <1>1, OtherRequest DEF GateInv
<1>2. revokedAt' \in [Token -> Nat \cup {None}]
  BY DEF GateInv
<1> QED
  BY <1>1, <1>2 DEF GateInv

LEMMA ArriveGate ==
  ASSUME GateInv, ReplayInv, NEW r \in Request, NEW c \in Call, Arrive(r, c)
  PROVE  GateInv' /\ NoneAdmitted
<1>1. PICK phase \in IF c.via = "http" THEN ArriveHTTP(c) ELSE ArriveGRPC(c) :
       gate' = [gate EXCEPT ![r] =
         IF phase \in {"out", "served"} THEN [Out EXCEPT !.pc = phase]
         ELSE [Out EXCEPT !.pc = phase, !.call = c,
                          !.late = c.token.jti /\ RevokedLongAgo(c.token)]]
  BY DEF Arrive
<1>2. /\ gate[r].pc \in {"out", "served"} /\ req' = [req EXCEPT ![r] = NoValidation]
      /\ UNCHANGED <<now, revokedAt, introVars>>
      /\ gate \in [Request -> GateState] /\ req \in [Request -> RequestState]
      /\ now \in Nat /\ revokedAt \in [Token -> Nat \cup {None}]
  BY DEF Arrive, GateInv, ReplayInv
<1>3. ~Admits(r) /\ \A q \in Request \ {r} : gate'[q] = gate[q] /\ req'[q] = req[q]
  BY <1>1, <1>2 DEF Admits
<1>4. CASE phase \in {"out", "served"}
  <2>1. gate' = [gate EXCEPT ![r] = [Out EXCEPT !.pc = phase]]
    BY <1>1, <1>4
  <2>2. [Out EXCEPT !.pc = phase] \in GateState
    BY <1>4, GateConstants DEF GateState, Phase
  <2>3. [Out EXCEPT !.pc = phase].pc = phase /\ [Out EXCEPT !.pc = phase].late = FALSE
    BY DEF Out
  <2>4. gate' \in [Request -> GateState] /\ gate'[r].pc = phase /\ gate'[r].late = FALSE
    BY <1>2, <2>1, <2>2, <2>3
  <2>5. Passed(r)' /\ Asked(r)'
    BY <1>4, <2>4 DEF Passed, Asked
  <2> QED
    BY <1>2, <1>3, <2>4, <2>5, SameAnswers, RequestStep DEF NoneAdmitted
<1>5. CASE phase \notin {"out", "served"}
  <2> DEFINE late == c.token.jti /\ RevokedLongAgo(c.token)
             x    == [Out EXCEPT !.pc = phase, !.call = c, !.late = late]
  <2>1. gate' = [gate EXCEPT ![r] = x]
    BY <1>1, <1>5
  <2>2. /\ c.token \in Token /\ phase \in {"introspect", "sender"}
        /\ phase = "introspect" => c.via = "http"
        /\ phase = "sender" /\ c.via = "http" => ~c.token.jti
    BY <1>5, ArrivePhases
  <2>3. late \in BOOLEAN
    BY <2>2, TokenFields DEF RevokedLongAgo
  <2>4. (phase = "sender" /\ c.via = "http" => late = FALSE) /\ (late => RevokedLongAgo(c.token))
    BY <2>2, TokenFields
  <2> HIDE DEF late
  <2>5. x \in GateState
    BY <2>2, <2>3, GateConstants DEF GateState, Phase, Out
  <2>6. x.pc = phase /\ x.call = c /\ x.late = late
    BY DEF Out
  <2> HIDE DEF x
  <2>7. gate' \in [Request -> GateState] /\ gate'[r] = x
    BY <1>2, <2>1, <2>5
  <2>8. Passed(r)'
    BY <2>2, <2>6, <2>7 DEF Passed
  <2>9. Asked(r)'
    <3>1. late => RevokedLongAgo(c.token)'
      BY <1>2, <2>4 DEF RevokedLongAgo
    <3>2. gate'[r].pc = phase /\ gate'[r].call = c /\ gate'[r].late = late
      BY <2>6, <2>7
    <3> QED
      BY <2>2, <2>4, <3>1, <3>2 DEF Asked, RevokedLongAgo
  <2> QED
    BY <1>2, <1>3, <2>7, <2>8, <2>9, SameAnswers, RequestStep DEF NoneAdmitted
<1> QED
  BY <1>4, <1>5

LEMMA AnsweredType ==
  ASSUME NEW g \in GateState, NEW a \in BOOLEAN, NEW n \in Nat
  PROVE  [g EXCEPT !.pc = "store", !.askedAt = n, !.active = a] \in GateState
  BY DEF GateState, Phase

\* Hydra's answer is about this moment; without one the request goes on, marked.
LEMMA FetchGate ==
  ASSUME GateInv, ReplayInv, NEW r \in Request, FetchHydra(r)
  PROVE  GateInv' /\ NoneAdmitted
<1> DEFINE t == gate[r].call.token
<1>1. /\ gate[r].pc = "fetch" /\ UNCHANGED <<replayVars, now, introVars, revokedAt>>
      /\ gate \in [Request -> GateState] /\ now \in Nat /\ Passed(r) /\ Asked(r)
      /\ revokedAt \in [Token -> Nat \cup {None}] /\ MaxDelay \in Nat
  BY ReplayAssumption DEF FetchHydra, GateAt, GateInv, ReplayInv
<1>2. req' = req
  BY <1>1 DEF replayVars
<1>3. t \in Token /\ gate[r].call.via = "http"
  BY <1>1 DEF Passed
<1>4. CASE gate' = [gate EXCEPT ![r].pc = "store", ![r].askedAt = now,
                                ![r].active = HydraActive(gate[r].call.token)]
  <2> DEFINE active == HydraActive(gate[r].call.token)
  <2>1. active \in BOOLEAN /\ (active => revokedAt[t] = None)
    BY DEF HydraActive
  <2>2. gate' = [gate EXCEPT ![r].pc = "store", ![r].askedAt = now, ![r].active = active]
    BY <1>4
  <2> HIDE DEF active
  <2>3. /\ gate' \in [Request -> GateState]
        /\ \A q \in Request \ {r} : gate'[q] = gate[q]
    <3>1. [gate[r] EXCEPT !.pc = "store", !.askedAt = now, !.active = active] \in GateState
      BY <1>1, <2>1, AnsweredType
    <3>2. gate' = [gate EXCEPT ![r] =
                     [gate[r] EXCEPT !.pc = "store", !.askedAt = now, !.active = active]]
      BY <1>1, <2>2
    <3> QED
      BY <1>1, <3>1, <3>2
  <2>4. /\ gate'[r].pc = "store" /\ gate'[r].askedAt = now /\ gate'[r].active = active
        /\ gate'[r].call = gate[r].call /\ gate'[r].late = gate[r].late
    BY <1>1, <2>2 DEF GateState
  <2>5. Passed(r)'
    BY <1>3, <2>4 DEF Passed
  <2>6. Asked(r)'
    BY <1>1, <2>1, <2>4 DEF Asked, RevokedLongAgo
  <2> QED
    BY <1>1, <1>2, <2>3, <2>4, <2>5, <2>6, SameAnswers, RequestStep DEF NoneAdmitted, Admits
<1>5. CASE gate' = [gate EXCEPT ![r].pc = "sender", ![r].soft = TRUE]
  <2>1. /\ gate' \in [Request -> GateState]
        /\ \A q \in Request \ {r} : gate'[q] = gate[q]
    BY <1>1, <1>5 DEF GateState, Phase
  <2>2. /\ gate'[r].pc = "sender" /\ gate'[r].soft = TRUE
        /\ gate'[r].call = gate[r].call /\ gate'[r].late = gate[r].late
    BY <1>1, <1>5 DEF GateState
  <2>3. Passed(r)'
    BY <1>3, <2>2 DEF Passed
  <2>4. Asked(r)'
    BY <1>1, <2>2 DEF Asked, RevokedLongAgo
  <2> QED
    BY <1>1, <1>2, <2>1, <2>2, <2>3, <2>4, SameAnswers, RequestStep DEF NoneAdmitted, Admits
<1> QED
  BY <1>4, <1>5 DEF FetchHydra

\* A request that leaves the gate is forgotten.
LEMMA LeaveGate ==
  ASSUME GateInv, NEW r \in Request, NEW phase \in {"out", "served"}, Goto(r, phase),
         UNCHANGED <<replayVars, now, introVars, revokedAt>>
  PROVE  GateInv' /\ (\A q \in Request : Admits(q) => q = r) /\ gate'[r].pc = phase
<1>1. /\ gate' \in [Request -> GateState]
      /\ \A q \in Request \ {r} : gate'[q] = gate[q]
      /\ gate'[r].pc = phase /\ gate'[r].late = FALSE
  BY GotoFields DEF GateInv, Phase
<1>2. Passed(r)' /\ Asked(r)'
  BY <1>1 DEF Passed, Asked
<1>3. req' = req
  BY DEF replayVars
<1> QED
  BY <1>1, <1>2, <1>3, SameAnswers, RequestStep

\* The checks of Asked follow a request past the introspection.
LEMMA KeepAsked ==
  ASSUME NEW r \in Request, Asked(r), UNCHANGED <<now, revokedAt>>,
         gate[r].pc \in {"sender", "validate"}, gate'[r].pc \in {"sender", "validate", "stepup"},
         gate'[r].call = gate[r].call, gate'[r].late = gate[r].late,
         gate'[r].soft = gate[r].soft
  PROVE  Asked(r)'
  BY DEF Asked, RevokedLongAgo

LEMMA CheckSenderGate ==
  ASSUME GateInv, ReplayInv, NEW r \in Request, CheckSender(r)
  PROVE  GateInv' /\ NoneAdmitted
<1>0. PICK c \in Call : c = gate[r].call
  BY DEF GateInv, GateState
<1>1. /\ gate[r].pc = "sender" /\ c.via = "http" /\ Goto(r, Binding(c))
      /\ UNCHANGED <<now, introVars, revokedAt>>
      /\ IF Binding(c) = "validate" THEN Present(r, c.proof) ELSE UNCHANGED replayVars
      /\ gate \in [Request -> GateState] /\ Passed(r) /\ Asked(r)
      /\ req \in [Request -> RequestState]
  BY <1>0 DEF CheckSender, GateAt, GateInv, ReplayInv
<1>2. c.token \in Token
  BY <1>0, <1>1 DEF Passed
<1>3. CASE Binding(c) = "validate" /\ "jkt" \in c.token.cnf
  <2>1. req' = [req EXCEPT ![r] = [pc |-> "begun", jti |-> c.proof, checkedAt |-> 0]]
    BY <1>1, <1>3 DEF Present
  <2>2. req'[r].pc = "begun" /\ \A q \in Request \ {r} : req'[q] = req[q]
    BY <1>1, <2>1
  <2>3. /\ gate' \in [Request -> GateState]
        /\ \A q \in Request \ {r} : gate'[q] = gate[q]
        /\ gate'[r].pc = "validate" /\ gate'[r].call = c
        /\ gate'[r].late = gate[r].late /\ gate'[r].soft = gate[r].soft
    BY <1>0, <1>1, <1>3, GotoFields DEF Phase
  <2>4. Passed(r)'
    BY <1>1, <1>2, <1>3, <2>2, <2>3 DEF Passed
  <2>5. Asked(r)'
    BY <1>0, <1>1, <2>3, KeepAsked
  <2> QED
    BY <1>1, <2>2, <2>3, <2>4, <2>5, SameAnswers, RequestStep DEF NoneAdmitted, Admits
<1>4. CASE Binding(c) = "out"
  BY <1>1, <1>4, LeaveGate DEF NoneAdmitted, Admits
<1>5. CASE Binding(c) = "stepup" /\ (c.token.cnf = {} \/ ("x5t" \in c.token.cnf /\ c.cert))
  <2>1. req' = req
    BY <1>1, <1>5 DEF replayVars
  <2>2. /\ gate' \in [Request -> GateState]
        /\ \A q \in Request \ {r} : gate'[q] = gate[q]
        /\ gate'[r].pc = "stepup" /\ gate'[r].call = c
        /\ gate'[r].late = gate[r].late /\ gate'[r].soft = gate[r].soft
    BY <1>0, <1>1, <1>5, GotoFields DEF Phase
  <2>3. Passed(r)'
    BY <1>1, <1>2, <1>5, <2>2 DEF Passed, Proven
  <2>4. Asked(r)'
    BY <1>0, <1>1, <2>2, KeepAsked
  <2> QED
    BY <1>1, <2>1, <2>2, <2>3, <2>4, SameAnswers, RequestStep DEF NoneAdmitted, Admits
<1> QED
  BY <1>2, <1>3, <1>4, <1>5, BindingPhases

\* Over gRPC a request is admitted proven, or marked: the second verification failed.
LEMMA EnforceGate ==
  ASSUME GateInv, ReplayInv, NEW r \in Request, Enforce(r)
  PROVE  /\ GateInv' /\ \A q \in Request : Admits(q) => q = r
         /\ gate[r].call.via = "grpc"
         /\ Admits(r) => Proven(r) \/ gate'[r].soft
<1>0. PICK c \in Call : c = gate[r].call
  BY DEF GateInv, GateState
<1>1. /\ gate[r].pc = "sender" /\ c.via = "grpc"
      /\ UNCHANGED <<replayVars, now, introVars, revokedAt>>
      /\ gate \in [Request -> GateState]
  BY <1>0 DEF Enforce, GateAt, GateInv
<1>2. CASE Goto(r, EnforceBinding(c))
  <2>1. EnforceBinding(c) \in {"out", "served"}
    BY DEF EnforceBinding
  <2>2. /\ GateInv' /\ \A q \in Request : Admits(q) => q = r
        /\ gate'[r].pc = EnforceBinding(c)
    BY <1>1, <1>2, <2>1, LeaveGate
  <2>3. Admits(r) => Proven(r)
    BY <1>0, <2>2 DEF Admits, EnforceBinding, Proven
  <2> QED
    BY <1>0, <1>1, <2>2, <2>3
<1>3. CASE gate' = [gate EXCEPT ![r] = [Out EXCEPT !.pc = "served", !.soft = TRUE]]
  <2>1. [Out EXCEPT !.pc = "served", !.soft = TRUE] \in GateState
    BY GateConstants DEF GateState, Phase
  <2>2. /\ [Out EXCEPT !.pc = "served", !.soft = TRUE].pc = "served"
        /\ [Out EXCEPT !.pc = "served", !.soft = TRUE].late = FALSE
        /\ [Out EXCEPT !.pc = "served", !.soft = TRUE].soft = TRUE
    BY DEF Out
  <2>3. /\ gate' \in [Request -> GateState] /\ gate'[r].pc = "served"
        /\ gate'[r].late = FALSE /\ gate'[r].soft = TRUE
        /\ \A q \in Request \ {r} : gate'[q] = gate[q]
    BY <1>1, <1>3, <2>1, <2>2
  <2>4. Passed(r)' /\ Asked(r)'
    BY <2>3 DEF Passed, Asked
  <2>5. req' = req
    BY <1>1 DEF replayVars
  <2> QED
    BY <1>0, <1>1, <2>3, <2>4, <2>5, SameAnswers, RequestStep
<1> QED
  BY <1>0, <1>2, <1>3 DEF Enforce

\* The steps of the validator: a proof that does not fit never gets past the first.
LEMMA ValidateGate ==
  ASSUME GateInv, ReplayInv, NEW r \in Request, Validate(r)
  PROVE  GateInv' /\ NoneAdmitted
<1>1. /\ gate[r].pc = "validate" /\ gate' = gate
      /\ UNCHANGED <<now, introVars, revokedAt>>
      /\ gate \in [Request -> GateState] /\ Passed(r) /\ Asked(r)
      /\ req \in [Request -> RequestState]
  BY DEF Validate, GateAt, GateInv, ReplayInv
<1>2. /\ \A q \in Request \ {r} : req'[q] = req[q]
      /\ req'[r].pc \in {"fresh", "added", "accepted"} => gate[r].call.fits
  <2>1. CASE Reject(r)
    BY <1>1, <2>1 DEF Reject, RequestState
  <2>2. CASE gate[r].call.fits /\ CheckFreshness(r)
    BY <1>1, <2>2 DEF CheckFreshness
  <2>3. CASE Add(r)
    <3>1. gate[r].call.fits
      BY <1>1, <2>3 DEF Passed, Add, At
    <3> QED
      BY <1>1, <2>3, <3>1 DEF Add
  <2>4. ASSUME NEW verdict \in {"accepted", "rejected"}, CheckAth(r, verdict)
        PROVE  /\ \A q \in Request \ {r} : req'[q] = req[q]
               /\ gate[r].call.fits
    BY <1>1, <2>4 DEF Passed, CheckAth, At
  <2> QED
    BY <2>1, <2>2, <2>3, <2>4 DEF Validate
<1>3. Passed(r)'
  BY <1>1, <1>2 DEF Passed
<1>4. Asked(r)'
  BY <1>1 DEF Asked, RevokedLongAgo
<1> QED
  BY <1>1, <1>2, <1>3, <1>4, SameAnswers, RequestStep DEF NoneAdmitted, Admits

LEMMA ValidatedGate ==
  ASSUME GateInv, ReplayInv, NEW r \in Request, Validated(r)
  PROVE  GateInv' /\ NoneAdmitted
<1>1. /\ gate[r].pc = "validate" /\ UNCHANGED <<replayVars, now, introVars, revokedAt>>
      /\ gate \in [Request -> GateState] /\ Passed(r) /\ Asked(r)
  BY DEF Validated, GateAt, GateInv
<1>2. req' = req
  BY <1>1 DEF replayVars
<1>3. CASE At(r, "accepted")
  <2>1. Goto(r, "stepup")
    BY <1>3 DEF Validated
  <2>2. /\ gate' \in [Request -> GateState]
        /\ \A q \in Request \ {r} : gate'[q] = gate[q]
        /\ gate'[r].pc = "stepup" /\ gate'[r].call = gate[r].call
        /\ gate'[r].late = gate[r].late /\ gate'[r].soft = gate[r].soft
    BY <1>1, <2>1, GotoFields DEF Phase
  <2>3. Passed(r)'
    BY <1>1, <1>2, <1>3, <2>2 DEF Passed, Proven, At
  <2>4. Asked(r)'
    BY <1>1, <2>2, KeepAsked
  <2> QED
    BY <1>1, <1>2, <2>2, <2>3, <2>4, SameAnswers, RequestStep DEF NoneAdmitted, Admits
<1>4. CASE ~At(r, "accepted")
  <2>1. Goto(r, "out")
    BY <1>4 DEF Validated
  <2> QED
    BY <1>1, <2>1, LeaveGate DEF NoneAdmitted, Admits
<1> QED
  BY <1>3, <1>4

\* Over REST a request is admitted proven, with the rank its method asks for, and with
\* a token that was revoked long ago only when the introspection failed.
LEMMA StepUpGate ==
  ASSUME GateInv, ReplayInv, NEW r \in Request, StepUp(r)
  PROVE  /\ GateInv' /\ \A q \in Request : Admits(q) => q = r
         /\ gate[r].call.via = "http" /\ Proven(r)
         /\ Admits(r) => gate[r].call.token.acr >= gate[r].call.floor
         /\ gate[r].late => gate[r].soft
<1>0. PICK c \in Call : c = gate[r].call
  BY DEF GateInv, GateState
<1>1. /\ gate[r].pc = "stepup" /\ UNCHANGED <<replayVars, now, introVars, revokedAt>>
      /\ Passed(r) /\ Asked(r)
      /\ Goto(r, IF c.token.acr < c.floor THEN "out" ELSE "served")
  BY <1>0 DEF StepUp, GateAt, GateInv
<1>2. c.token \in Token /\ c.token.acr \in Int /\ c.floor \in Int
  BY <1>0, <1>1, TokenFields, CallFields DEF Passed
<1>3. CASE c.token.acr < c.floor
  <2>1. Goto(r, "out")
    BY <1>1, <1>3
  <2> QED
    BY <1>0, <1>1, <2>1, LeaveGate DEF Admits, Passed, Asked
<1>4. CASE ~(c.token.acr < c.floor)
  <2>1. Goto(r, "served")
    BY <1>1, <1>4
  <2>2. GateInv' /\ \A q \in Request : Admits(q) => q = r
    BY <1>1, <2>1, LeaveGate
  <2>3. c.token.acr >= c.floor
    BY <1>2, <1>4
  <2> QED
    BY <1>0, <1>1, <2>2, <2>3 DEF Passed, Asked
<1> QED
  BY <1>3, <1>4

\* A step that stores no new answer.
LEMMA FewerAnswers ==
  ASSUME GateInv, IP!Shrinks, UNCHANGED <<now, revokedAt>>
  PROVE  AnswersExpire'
  BY DEF GateInv, AnswersExpire, IP!Shrinks

\* A cached answer that lets a request pass is not one about a token revoked long ago.
LEMMA IntrospectGate ==
  ASSUME GateInv, ReplayInv, NEW r \in Request, Introspect(r)
  PROVE  GateInv' /\ NoneAdmitted
<1>0. PICK t : t = gate[r].call.token
  OBVIOUS
<1>1. /\ gate[r].pc = "introspect" /\ UNCHANGED <<replayVars, now, revokedAt>>
      /\ gate \in [Request -> GateState] /\ now \in Nat /\ Passed(r) /\ Asked(r)
      /\ revokedAt \in [Token -> Nat \cup {None}] /\ MaxDelay \in Nat /\ IntroTTL \in Nat
      /\ IP!Table(BOOLEAN) /\ introGen \in Nat /\ Intro!Get(t)
  BY <1>0, ReplayAssumption, GateAssumption DEF Introspect, GateAt, GateInv, ReplayInv
<1>2. req' = req
  BY <1>1 DEF replayVars
<1>3. t \in Token /\ gate[r].call.via = "http"
  BY <1>0, <1>1 DEF Passed
<1>4. IP!Table(BOOLEAN)' /\ introGen' \in Nat /\ AnswersExpire'
  BY <1>1, IntroGet, FewerAnswers
<1>5. CASE Intro!Live(t) /\ Goto(r, IF introItems[t].value THEN "sender" ELSE "out")
  <2> DEFINE phase == IF introItems[t].value THEN "sender" ELSE "out"
  <2>1. /\ t \in DOMAIN introItems /\ ~(now > introItems[t].expiresAt)
        /\ introItems[t].expiresAt \in Nat /\ introItems[t].value \in BOOLEAN
    BY <1>1, <1>5 DEF Intro!Live, IP!Table, IP!Entry
  <2>2. introItems[t].value /\ RevokedLongAgo(t) => FALSE
    <3>1. revokedAt[t] # None => revokedAt[t] \in Nat
      BY <1>1, <1>3
    <3> QED
      BY <1>1, <2>1, <3>1 DEF GateInv, AnswersExpire, RevokedLongAgo
  <2>3. phase \in {"sender", "out"} /\ (phase = "sender" => introItems[t].value)
    OBVIOUS
  <2>4. Goto(r, phase)
    BY <1>5
  <2> HIDE DEF phase
  <2>5. /\ gate' \in [Request -> GateState]
        /\ \A q \in Request \ {r} : gate'[q] = gate[q]
        /\ gate'[r].pc = phase
        /\ phase = "out" => gate'[r].late = FALSE
        /\ phase = "sender" =>
             gate'[r].call = gate[r].call /\ gate'[r].late = gate[r].late
    BY <1>1, <2>3, <2>4, GotoFields DEF Phase
  <2>6. Passed(r)'
    BY <1>0, <1>3, <2>3, <2>5 DEF Passed
  <2>7. Asked(r)'
    <3>1. gate'[r].late = FALSE
      <4>1. gate'[r].late \in BOOLEAN /\ gate[r].late \in BOOLEAN
        BY <1>1, <2>5 DEF GateState
      <4>2. gate[r].late => RevokedLongAgo(t)
        BY <1>0, <1>1 DEF Asked
      <4> QED BY <2>2, <2>3, <2>5, <4>1, <4>2
    <3> QED BY <2>3, <2>5, <3>1 DEF Asked
  <2> QED
    BY <1>1, <1>2, <1>4, <2>3, <2>5, <2>6, <2>7, RequestStep DEF NoneAdmitted, Admits
<1>6. CASE gate' = [gate EXCEPT ![r].pc = "fetch", ![r].gen = introGen]
  <2>1. /\ gate' \in [Request -> GateState]
        /\ \A q \in Request \ {r} : gate'[q] = gate[q]
    BY <1>1, <1>6 DEF GateState, Phase
  <2>2. /\ gate'[r].pc = "fetch"
        /\ gate'[r].call = gate[r].call /\ gate'[r].late = gate[r].late
    BY <1>1, <1>6 DEF GateState
  <2>3. Passed(r)'
    BY <1>0, <1>3, <2>2 DEF Passed
  <2>4. Asked(r)'
    BY <1>1, <2>2 DEF Asked, RevokedLongAgo
  <2> QED
    BY <1>1, <1>2, <1>4, <2>1, <2>2, <2>3, <2>4, RequestStep DEF NoneAdmitted, Admits
<1> QED
  BY <1>0, <1>5, <1>6 DEF Introspect

\* A stored answer expires in time: it was true at most MaxDelay ago.
LEMMA StoredAnswer ==
  ASSUME GateInv, NEW t \in Token, NEW active \in BOOLEAN, NEW ttl \in Nat, ttl <= IntroTTL,
         now \in Nat, UNCHANGED <<now, revokedAt>>,
         IP!Stores(t, [value |-> active, expiresAt |-> now + ttl]),
         active => revokedAt[t] = None \/ now <= revokedAt[t] + MaxDelay
  PROVE  AnswersExpire'
<1>1. /\ IntroTTL \in Nat /\ MaxDelay \in Nat
      /\ revokedAt[t] # None => revokedAt[t] \in Nat
  BY GateAssumption, ReplayAssumption DEF GateInv
<1>2. ASSUME NEW k \in DOMAIN introItems', k # t
      PROVE  \/ revokedAt'[k] = None /\ introItems'[k].expiresAt <= now' + IntroTTL
             \/ introItems'[k].value = FALSE
             \/ /\ revokedAt'[k] # None
                /\ introItems'[k].expiresAt <= revokedAt'[k] + MaxDelay + IntroTTL
  <2>1. k \in DOMAIN introItems /\ introItems'[k] = introItems[k]
    BY <1>2 DEF IP!Stores
  <2> QED
    BY <2>1 DEF GateInv, AnswersExpire
<1>3. ASSUME t \in DOMAIN introItems'
      PROVE  \/ revokedAt'[t] = None /\ introItems'[t].expiresAt <= now' + IntroTTL
             \/ introItems'[t].value = FALSE
             \/ /\ revokedAt'[t] # None
                /\ introItems'[t].expiresAt <= revokedAt'[t] + MaxDelay + IntroTTL
  <2>1. CASE introItems'[t] = [value |-> active, expiresAt |-> now + ttl]
    <3>1. introItems'[t].value = active /\ introItems'[t].expiresAt = now + ttl
      BY <2>1
    <3>2. CASE active = FALSE
      BY <3>1, <3>2
    <3>3. CASE active = TRUE /\ revokedAt[t] = None
      BY <1>1, <3>1, <3>3
    <3>4. CASE active = TRUE /\ revokedAt[t] # None
      BY <1>1, <3>1, <3>4
    <3> QED
      BY <3>2, <3>3, <3>4
  <2>2. CASE t \in DOMAIN introItems /\ introItems'[t] = introItems[t]
    BY <2>2 DEF GateInv, AnswersExpire
  <2> QED
    BY <1>3, <2>1, <2>2 DEF IP!Stores
<1> QED
  BY <1>2, <1>3 DEF AnswersExpire

LEMMA PassedOnType ==
  ASSUME NEW g \in GateState
  PROVE  [g EXCEPT !.pc = "sender", !.active = FALSE, !.askedAt = 0] \in GateState
  BY DEF GateState, Phase

\* An answer is cached no longer than its token lives, and decides.
LEMMA StoreGate ==
  ASSUME GateInv, ReplayInv, NEW r \in Request, Store(r)
  PROVE  GateInv' /\ NoneAdmitted
<1>0. PICK t, active : t = gate[r].call.token /\ active = gate[r].active
  OBVIOUS
<1> DEFINE untilExp == t.exp - now
           ttl      == IF active /\ untilExp < IntroTTL THEN untilExp ELSE IntroTTL
<1>1. /\ gate[r].pc = "store" /\ UNCHANGED <<replayVars, now, revokedAt>>
      /\ gate \in [Request -> GateState] /\ now \in Nat /\ Passed(r) /\ Asked(r)
      /\ revokedAt \in [Token -> Nat \cup {None}] /\ MaxDelay \in Nat
      /\ IntroTTL \in Nat \ {0}
      /\ IP!Table(BOOLEAN) /\ introGen \in Nat
  BY ReplayAssumption, GateAssumption DEF Store, GateAt, GateInv, ReplayInv
<1>2. req' = req
  BY <1>1 DEF replayVars
<1>3. /\ t \in Token /\ gate[r].call.via = "http" /\ t.exp \in Nat
      /\ active \in BOOLEAN /\ gate[r].askedAt \in Nat /\ gate[r].late \in BOOLEAN
  BY <1>0, <1>1, TokenFields DEF Passed, GateState
<1>4. CASE active /\ untilExp <= 0 /\ Goto(r, "out") /\ UNCHANGED introVars
  BY <1>1, <1>4, LeaveGate DEF NoneAdmitted, Admits
<1>5. CASE /\ ~(active /\ untilExp <= 0)
           /\ Intro!PutIfGenWithTTL(t, active, ttl, gate[r].gen)
           /\ gate' = [gate EXCEPT ![r] =
                IF active THEN [@ EXCEPT !.pc = "sender", !.active = FALSE, !.askedAt = 0]
                ELSE Out]
  <2>1. ttl \in Nat \ {0} /\ ttl <= IntroTTL
    BY <1>1, <1>3, <1>5
  <2>2. Intro!PutIfGenWithTTL(t, active, ttl, gate[r].gen)
    BY <1>5
  <2> HIDE DEF ttl
  <2>3. /\ IP!Table(BOOLEAN)' /\ introGen' = introGen
        /\ IP!Stores(t, [value |-> active, expiresAt |-> now + ttl])
    BY <1>1, <1>3, <2>1, <2>2, IntroPut
  <2>4. revokedAt[t] # None => revokedAt[t] \in Nat
    BY <1>1, <1>3
  <2>5. active => revokedAt[t] = None \/ now <= revokedAt[t] + MaxDelay
    BY <1>0, <1>1, <1>3, <2>4 DEF Asked
  <2>6. AnswersExpire'
    BY <1>1, <1>3, <2>1, <2>3, <2>5, StoredAnswer
  <2>7. CASE active
    <3>1. gate' = [gate EXCEPT ![r] =
                     [gate[r] EXCEPT !.pc = "sender", !.active = FALSE, !.askedAt = 0]]
      BY <1>5, <2>7
    <3>2. [gate[r] EXCEPT !.pc = "sender", !.active = FALSE, !.askedAt = 0] \in GateState
      BY <1>1, PassedOnType
    <3>3. /\ gate' \in [Request -> GateState]
          /\ \A q \in Request \ {r} : gate'[q] = gate[q]
      BY <1>1, <3>1, <3>2
    <3>4. /\ gate'[r].pc = "sender" /\ gate'[r].call = gate[r].call
          /\ gate'[r].late = gate[r].late
      BY <1>1, <3>1 DEF GateState
    <3>5. gate[r].late = FALSE
      <4>1. gate[r].late => RevokedLongAgo(t)
        BY <1>0, <1>1 DEF Asked
      <4>2. RevokedLongAgo(t) => FALSE
        BY <1>1, <2>4, <2>5, <2>7 DEF RevokedLongAgo
      <4> QED BY <1>3, <4>1, <4>2
    <3>6. Passed(r)'
      BY <1>0, <1>3, <3>4 DEF Passed
    <3>7. Asked(r)'
      BY <3>4, <3>5 DEF Asked
    <3> QED
      BY <1>1, <1>2, <2>3, <2>6, <3>3, <3>4, <3>6, <3>7, RequestStep DEF NoneAdmitted, Admits
  <2>8. CASE ~active
    <3>1. gate' = [gate EXCEPT ![r] = Out]
      BY <1>5, <2>8
    <3>2. /\ gate' \in [Request -> GateState] /\ gate'[r] = Out
          /\ \A q \in Request \ {r} : gate'[q] = gate[q]
      BY <1>1, <3>1, GateConstants
    <3>3. Out.pc = "out" /\ Out.late = FALSE
      BY DEF Out
    <3>4. Passed(r)' /\ Asked(r)'
      BY <3>2, <3>3 DEF Passed, Asked
    <3> QED
      BY <1>1, <1>2, <2>3, <2>6, <3>2, <3>3, <3>4, RequestStep DEF NoneAdmitted, Admits
  <2> QED
    BY <2>7, <2>8
<1> QED
  BY <1>0, <1>4, <1>5 DEF Store

\* The answers cached and asked for before a revocation are of before it.
LEMMA RevokeGate ==
  ASSUME GateInv, ReplayInv, NEW t \in Token, HydraRevoke(t)
  PROVE  GateInv' /\ NoneAdmitted
<1>1. /\ revokedAt[t] = None /\ revokedAt' = [revokedAt EXCEPT ![t] = now]
      /\ UNCHANGED <<introItems, introOrder, introGen, gate, req, now>>
      /\ now \in Nat /\ revokedAt \in [Token -> Nat \cup {None}]
      /\ gate \in [Request -> GateState]
      /\ MaxDelay \in Nat /\ IntroTTL \in Nat /\ None \notin Nat
  BY ReplayAssumption, GateAssumption
  DEF HydraRevoke, GateInv, ReplayInv, introVars, replayVars
<1>2. /\ revokedAt' \in [Token -> Nat \cup {None}] /\ revokedAt'[t] = now
      /\ \A u \in Token \ {t} : revokedAt'[u] = revokedAt[u]
  BY <1>1
<1>3. IP!Table(BOOLEAN)' /\ introGen' \in Nat
  BY <1>1 DEF GateInv, IP!Table, IP!ListMatchesMap
<1>4. AnswersExpire'
  <2>1. ASSUME NEW u \in DOMAIN introItems
        PROVE  \/ revokedAt'[u] = None /\ introItems[u].expiresAt <= now + IntroTTL
               \/ introItems[u].value = FALSE
               \/ /\ revokedAt'[u] # None
                  /\ introItems[u].expiresAt <= revokedAt'[u] + MaxDelay + IntroTTL
    <3>1. u \in Token /\ introItems[u].expiresAt \in Nat
      BY DEF GateInv, IP!Table, IP!Entry
    <3>2. CASE u = t
      BY <1>1, <1>2, <3>1, <3>2 DEF GateInv, AnswersExpire
    <3>3. CASE u # t
      BY <1>2, <3>1, <3>3 DEF GateInv, AnswersExpire
    <3> QED
      BY <3>2, <3>3
  <2> QED
    BY <1>1, <2>1 DEF AnswersExpire
<1>5. ASSUME NEW q \in Request PROVE Passed(q)' /\ Asked(q)' /\ ~Admits(q)
  <2>1. Passed(q) /\ Asked(q) /\ gate[q].askedAt \in Nat
    BY <1>1 DEF GateInv, GateState
  <2>2. Passed(q)' /\ ~Admits(q)
    BY <1>1, <2>1 DEF Passed, Proven, At, Admits
  <2>3. gate[q].pc \notin {"out", "served"} => gate[q].call.token \in Token
    BY <2>1 DEF Passed
  <2>4. gate[q].late => gate[q].pc \notin {"out", "served"} /\ RevokedLongAgo(gate[q].call.token)'
    BY <1>1, <1>2, <2>1, <2>3 DEF Asked, RevokedLongAgo
  <2>5. gate[q].pc = "store" /\ gate[q].active =>
          revokedAt'[gate[q].call.token] = None \/ revokedAt'[gate[q].call.token] >= gate[q].askedAt
    BY <1>1, <1>2, <2>1, <2>3 DEF Asked
  <2>6. Asked(q)'
    BY <1>1, <2>1, <2>4, <2>5 DEF Asked
  <2> QED
    BY <2>2, <2>6
<1> QED
  BY <1>1, <1>2, <1>3, <1>4, <1>5 DEF GateInv, NoneAdmitted

\* Time passes: not more than MaxDelay between an answer and its storing.
LEMMA TickGate ==
  ASSUME GateInv, ReplayInv, Tick
  PROVE  GateInv' /\ NoneAdmitted
<1>1. /\ now' = now + 1
      /\ UNCHANGED <<introItems, introOrder, introGen, gate, req, revokedAt>>
      /\ now \in Nat /\ revokedAt \in [Token -> Nat \cup {None}]
      /\ gate \in [Request -> GateState]
      /\ MaxDelay \in Nat /\ IntroTTL \in Nat
  BY ReplayAssumption, GateAssumption DEF Tick, GateInv, ReplayInv, introVars, replayVars
<1>2. IP!Table(BOOLEAN)' /\ introGen' \in Nat
  BY <1>1 DEF GateInv, IP!Table, IP!ListMatchesMap
<1>3. AnswersExpire'
  <2>1. ASSUME NEW u \in DOMAIN introItems
        PROVE  introItems[u].expiresAt <= now + IntroTTL =>
               introItems[u].expiresAt <= now' + IntroTTL
    <3>1. introItems[u].expiresAt \in Nat
      BY DEF GateInv, IP!Table, IP!Entry
    <3> QED
      BY <1>1, <3>1
  <2> QED
    BY <1>1, <2>1 DEF GateInv, AnswersExpire
<1>4. ASSUME NEW q \in Request PROVE Passed(q)' /\ Asked(q)' /\ ~Admits(q)
  <2>1. Passed(q) /\ Asked(q) /\ gate[q].askedAt \in Nat
    BY <1>1 DEF GateInv, GateState
  <2>2. Passed(q)' /\ ~Admits(q)
    BY <1>1, <2>1 DEF Passed, Proven, At, Admits
  <2>3. gate[q].late => RevokedLongAgo(gate[q].call.token)'
    <3>1. gate[q].late => gate[q].call.token \in Token
      BY <2>1 DEF Passed, Asked
    <3>2. gate[q].late => revokedAt[gate[q].call.token] \in Nat
      BY <1>1, <2>1, <3>1 DEF Asked, RevokedLongAgo
    <3> QED
      BY <1>1, <2>1, <3>2 DEF Asked, RevokedLongAgo
  <2>4. gate[q].pc = "store" => gate[q].askedAt <= now' /\ now' <= gate[q].askedAt + MaxDelay
    <3>1. gate[q].pc = "store" => now < gate[q].askedAt + MaxDelay
      BY DEF Tick, GateAt
    <3> QED
      BY <1>1, <2>1, <3>1 DEF Asked
  <2>5. Asked(q)'
    BY <1>1, <2>1, <2>3, <2>4 DEF Asked
  <2> QED
    BY <2>2, <2>5
<1> QED
  BY <1>1, <1>2, <1>3, <1>4 DEF GateInv, NoneAdmitted

LEMMA StutterGate ==
  ASSUME GateInv, ReplayInv, UNCHANGED vars
  PROVE  GateInv' /\ NoneAdmitted
<1>1. UNCHANGED <<introVars, now, revokedAt, gate, req>>
  BY DEF vars, introVars
<1>2. \A q \in Request : Passed(q)' /\ Asked(q)' /\ ~Admits(q)
  BY <1>1, OtherRequest DEF GateInv
<1> QED
  BY <1>1, <1>2, SameAnswers DEF GateInv, NoneAdmitted

-----------------------------------------------------------------------------
(* The specification.                                                      *)

LEMMA GateInitInv == Init => ReplayInv /\ GateInv
<1> SUFFICES ASSUME Init PROVE ReplayInv /\ GateInv
  OBVIOUS
<1>1. ReplayInv
  <2>1. Table({TRUE}) /\ gen \in Nat /\ now \in Nat
    BY EmptyTable DEF Init, ReplayInit, CacheInit
  <2>2. req \in [Request -> RequestState] /\ spent = {}
    BY GateConstants DEF Init, ReplayInit
  <2>3. \A r \in Request : Checked(r)
    BY DEF Init, ReplayInit, NoValidation, Checked, At
  <2> QED
    BY <2>1, <2>2, <2>3 DEF ReplayInv
<1>2. IP!Table(BOOLEAN) /\ introGen \in Nat /\ AnswersExpire
  <2>1. IP!CacheInit
    BY DEF Init, ReplayInit, CacheInit, IP!CacheInit
  <2>2. IP!Table(BOOLEAN)
    BY <2>1, IntroAssumption, IP!EmptyTable
  <2>3. introGen \in Nat /\ DOMAIN introItems = {}
    BY DEF Init
  <2> QED
    BY <2>2, <2>3 DEF AnswersExpire
<1>3. gate \in [Request -> GateState] /\ revokedAt \in [Token -> Nat \cup {None}]
  BY GateConstants DEF Init
<1>4. ASSUME NEW r \in Request PROVE Passed(r) /\ Asked(r)
  <2>1. gate[r].pc = "out" /\ gate[r].late = FALSE
    BY DEF Init, Out
  <2> QED
    BY <2>1 DEF Passed, Asked
<1> QED
  BY <1>1, <1>2, <1>3, <1>4 DEF GateInv

\* Every step of the gate is one of the validator's, or leaves the validator alone.
LEMMA ReplayNextInv == ReplayInv /\ GateInv /\ [Next]_vars => ReplayInv'
<1> SUFFICES ASSUME ReplayInv, GateInv, [Next]_vars PROVE ReplayInv'
  OBVIOUS
<1>1. ASSUME NEW r \in Request, NEW c \in Call, Arrive(r, c) PROVE ReplayInv'
  <2>1. NoValidation.pc # "fresh"
    BY DEF NoValidation
  <2> QED
    BY <1>1, <2>1, GateConstants, MoveReplay DEF Arrive
<1>2. ASSUME NEW r \in Request, Introspect(r) PROVE ReplayInv'
  BY <1>2, StutterReplay DEF Introspect
<1>3. ASSUME NEW r \in Request, FetchHydra(r) PROVE ReplayInv'
  BY <1>3, StutterReplay DEF FetchHydra
<1>4. ASSUME NEW r \in Request, Store(r) PROVE ReplayInv'
  BY <1>4, StutterReplay DEF Store
<1>5. ASSUME NEW r \in Request, CheckSender(r) PROVE ReplayInv'
  <2>1. PICK c \in Call : c = gate[r].call
    BY DEF GateInv, GateState
  <2>2. CASE Present(r, c.proof)
    <3> DEFINE x == [pc |-> "begun", jti |-> c.proof, checkedAt |-> 0]
    <3>1. x \in RequestState /\ x.pc # "fresh"
      BY CallFields DEF RequestState
    <3> HIDE DEF x
    <3>2. req' = [req EXCEPT ![r] = x] /\ UNCHANGED <<cacheVars, now, spent>>
      BY <1>5, <2>2 DEF Present, CheckSender, x
    <3> QED
      BY <3>1, <3>2, MoveReplay
  <2>3. CASE UNCHANGED replayVars
    BY <1>5, <2>3, StutterReplay DEF CheckSender
  <2> QED
    BY <1>5, <2>1, <2>2, <2>3 DEF CheckSender
<1>6. ASSUME NEW r \in Request, Enforce(r) PROVE ReplayInv'
  BY <1>6, StutterReplay DEF Enforce
<1>7. ASSUME NEW r \in Request, Validate(r) PROVE ReplayInv'
  <2>1. req \in [Request -> RequestState] /\ UNCHANGED now
    BY <1>7 DEF ReplayInv, Validate
  <2>2. ASSUME NEW phase \in {"rejected", "accepted"},
               req' = [req EXCEPT ![r].pc = phase], UNCHANGED <<cacheVars, spent>>
        PROVE  ReplayInv'
    <3>1. [req[r] EXCEPT !.pc = phase] \in RequestState
      BY <2>1 DEF RequestState
    <3>2. [req[r] EXCEPT !.pc = phase].pc # "fresh"
      BY <2>1 DEF RequestState
    <3>3. req' = [req EXCEPT ![r] = [req[r] EXCEPT !.pc = phase]]
      BY <2>1, <2>2
    <3> QED
      BY <2>1, <2>2, <3>1, <3>2, <3>3, MoveReplay
  <2>3. CASE Reject(r)
    BY <2>2, <2>3 DEF Reject
  <2>4. CASE CheckFreshness(r)
    BY <2>1, <2>4, FreshReplay
  <2>5. CASE Add(r)
    BY <2>1, <2>5, AddReplay
  <2>6. ASSUME NEW verdict \in {"accepted", "rejected"}, CheckAth(r, verdict)
        PROVE  ReplayInv'
    BY <2>2, <2>6 DEF CheckAth
  <2> QED
    BY <1>7, <2>3, <2>4, <2>5, <2>6 DEF Validate
<1>8. ASSUME NEW r \in Request, Validated(r) PROVE ReplayInv'
  BY <1>8, StutterReplay DEF Validated
<1>9. ASSUME NEW r \in Request, StepUp(r) PROVE ReplayInv'
  BY <1>9, StutterReplay DEF StepUp
<1>10. ASSUME NEW t \in Token, HydraRevoke(t) PROVE ReplayInv'
  BY <1>10, StutterReplay DEF HydraRevoke
<1>11. CASE Tick
  BY <1>11, TickReplay DEF Tick
<1>12. CASE UNCHANGED vars
  BY <1>12, StutterReplay DEF vars, replayVars
<1> QED
  BY <1>1, <1>2, <1>3, <1>4, <1>5, <1>6, <1>7, <1>8, <1>9, <1>10, <1>11, <1>12 DEF Next

\* Who is admitted, and how: over REST proven, with the rank asked for; over gRPC proven
\* or marked.
Admitted(r) ==
  LET c == gate[r].call
  IN  /\ IF c.via = "http" THEN Proven(r) /\ c.token.acr >= c.floor
         ELSE Proven(r) \/ gate'[r].soft
      /\ gate[r].late /\ c.via = "http" => gate[r].soft

LEMMA GateNextInv ==
  ASSUME ReplayInv, GateInv, [Next]_vars
  PROVE  GateInv' /\ \A q \in Request : Admits(q) => Admitted(q)
<1>1. ASSUME GateInv', NoneAdmitted
      PROVE  GateInv' /\ \A q \in Request : Admits(q) => Admitted(q)
  BY <1>1 DEF NoneAdmitted
<1>2. ASSUME NEW r \in Request, \E c \in Call : Arrive(r, c) PROVE GateInv' /\ NoneAdmitted
  BY <1>2, ArriveGate
<1>3. ASSUME NEW r \in Request, Introspect(r) \/ FetchHydra(r) \/ Store(r)
      PROVE  GateInv' /\ NoneAdmitted
  BY <1>3, IntrospectGate, FetchGate, StoreGate
<1>4. ASSUME NEW r \in Request, CheckSender(r) \/ Validate(r) \/ Validated(r)
      PROVE  GateInv' /\ NoneAdmitted
  BY <1>4, CheckSenderGate, ValidateGate, ValidatedGate
<1>5. ASSUME NEW r \in Request, Enforce(r)
      PROVE  GateInv' /\ \A q \in Request : Admits(q) => Admitted(q)
  <2>1. /\ GateInv' /\ \A q \in Request : Admits(q) => q = r
        /\ gate[r].call.via = "grpc"
        /\ Admits(r) => Proven(r) \/ gate'[r].soft
    BY <1>5, EnforceGate
  <2>2. Admits(r) => Admitted(r)
    BY <2>1 DEF Admitted
  <2> QED
    BY <2>1, <2>2
<1>6. ASSUME NEW r \in Request, StepUp(r)
      PROVE  GateInv' /\ \A q \in Request : Admits(q) => Admitted(q)
  <2>1. /\ GateInv' /\ \A q \in Request : Admits(q) => q = r
        /\ gate[r].call.via = "http" /\ Proven(r)
        /\ Admits(r) => gate[r].call.token.acr >= gate[r].call.floor
        /\ gate[r].late => gate[r].soft
    BY <1>6, StepUpGate
  <2>2. Admits(r) => Admitted(r)
    BY <2>1 DEF Admitted
  <2> QED
    BY <2>1, <2>2
<1>7. ASSUME NEW t \in Token, HydraRevoke(t) PROVE GateInv' /\ NoneAdmitted
  BY <1>7, RevokeGate
<1>8. CASE Tick
  BY <1>1, <1>8, TickGate
<1>9. CASE UNCHANGED vars
  BY <1>1, <1>9, StutterGate
<1> QED
  BY <1>1, <1>2, <1>3, <1>4, <1>5, <1>6, <1>7, <1>8, <1>9 DEF Next

\* The types follow.
LEMMA GateTypes == ReplayInv /\ GateInv => TypeOK
<1> SUFFICES ASSUME ReplayInv, GateInv PROVE TypeOK
  OBVIOUS
<1>1. ReplayTypeOK
  BY DEF ReplayInv, ReplayTypeOK, CacheTypeOK, Table
<1>2. Intro!CacheTypeOK(BOOLEAN)
  BY DEF ReplayInv, GateInv, IP!Table, IP!Entry, Intro!CacheTypeOK, Intro!Entry
<1> QED
  BY <1>1, <1>2 DEF TypeOK, GateInv

\* A spent jti is not added while its proof is fresh.
LEMMA AddsUnspent ==
  ASSUME ReplayInv, GateInv, [Next]_vars, NEW r \in Request,
         At(r, "fresh"), req'[r].pc = "added", now <= Iat[req[r].jti] + Freshness
  PROVE  req[r].jti \notin spent
<1>1. req \in [Request -> RequestState] /\ req[r].pc = "fresh"
  BY DEF ReplayInv, At
<1>2. ASSUME NEW q \in Request, Validate(q) PROVE req[r].jti \notin spent
  <2>1. CASE Add(q)
    <3>1. q = r
      BY <1>1, <2>1 DEF Add
    <3>2. ~Live(req[r].jti)
      BY <1>1, <2>1, <3>1 DEF Add, RequestState
    <3> QED
      BY <3>2, SpentIsLive
  <2>2. CASE Reject(q) \/ CheckFreshness(q)
    BY <1>1, <2>2 DEF Reject, CheckFreshness, At, RequestState
  <2>3. ASSUME NEW verdict \in {"accepted", "rejected"}, CheckAth(q, verdict)
        PROVE  req[r].jti \notin spent
    BY <1>1, <2>3 DEF CheckAth, At, RequestState
  <2> QED
    BY <1>2, <2>1, <2>2, <2>3 DEF Validate
<1>3. ASSUME NEW q \in Request, \E c \in Call : Arrive(q, c) PROVE req'[r].pc # "added"
  BY <1>1, <1>3 DEF Arrive, NoValidation
<1>4. ASSUME NEW q \in Request, CheckSender(q) PROVE req'[r].pc # "added"
  BY <1>1, <1>4 DEF CheckSender, Present, replayVars
<1>5. ASSUME req' = req PROVE FALSE
  BY <1>1, <1>5
<1>6. ASSUME NEW q \in Request,
             Introspect(q) \/ FetchHydra(q) \/ Store(q) \/ Enforce(q) \/ Validated(q) \/ StepUp(q)
      PROVE  req' = req
  BY <1>6 DEF Introspect, FetchHydra, Store, Enforce, Validated, StepUp, replayVars
<1>7. ASSUME NEW t \in Token, HydraRevoke(t) PROVE req' = req
  BY <1>7 DEF HydraRevoke, replayVars
<1>8. CASE Tick \/ UNCHANGED vars
  BY <1>5, <1>8 DEF Tick, replayVars, vars
<1> QED
  BY <1>2, <1>3, <1>4, <1>5, <1>6, <1>7, <1>8 DEF Next

\* The inductive invariant of the gate.
THEOREM GateInvariant == Spec => [](ReplayInv /\ GateInv)
<1>1. ReplayInv /\ GateInv /\ [Next]_vars => (ReplayInv /\ GateInv)'
  BY ReplayNextInv, GateNextInv
<1> QED
  BY <1>1, GateInitInv, PTL DEF Spec

\* A DPoP proof is admitted once while it is fresh (dpop.go, Validate).
THEOREM ProofsAreAdmittedOnce == Spec => AdmittedOnce
<1>1. ReplayInv /\ GateInv /\ [Next]_vars =>
        [\A r \in Request :
           At(r, "fresh") /\ req'[r].pc = "added" /\ req[r].jti \in spent =>
             now > Iat[req[r].jti] + Freshness]_replayVars
  <2> SUFFICES ASSUME ReplayInv, GateInv, [Next]_vars, NEW r \in Request,
                      At(r, "fresh"), req'[r].pc = "added", req[r].jti \in spent
               PROVE  now > Iat[req[r].jti] + Freshness
    OBVIOUS
  <2>1. now \in Nat /\ Iat[req[r].jti] \in Nat /\ Freshness \in Nat
    BY ReplayAssumption DEF ReplayInv
  <2> QED
    BY <2>1, AddsUnspent
<1> QED
  BY <1>1, GateInvariant, PTL DEF Spec, AdmittedOnce

\* A token revoked long ago is refused over REST, unless the introspection failed
\* (introspection.go, DPoPMiddleware.Wrap).
THEOREM RevocationTakesEffect == Spec => RevokedTokensExpire
<1>1. ReplayInv /\ GateInv /\ [Next]_vars =>
        [\A r \in Request :
           Admits(r) /\ gate[r].late /\ gate[r].call.via = "http" => gate[r].soft]_vars
  BY GateNextInv DEF Admitted
<1> QED
  BY <1>1, GateInvariant, PTL DEF Spec, RevokedTokensExpire

\* A bound token is worth nothing without its key, on both surfaces.
THEOREM BindingIsEnforced == Spec => BoundTokensAreProven
<1>1. ReplayInv /\ GateInv /\ [Next]_vars =>
        [/\ TypeOK'
         /\ \A r \in Request : Admits(r) =>
              LET c == gate[r].call
              IN  IF c.via = "http" THEN Proven(r) /\ c.token.acr >= c.floor
                  ELSE Proven(r) \/ gate'[r].soft]_vars
  <2> SUFFICES ASSUME ReplayInv, GateInv, [Next]_vars
               PROVE  /\ TypeOK'
                      /\ \A r \in Request : Admits(r) =>
                           LET c == gate[r].call
                           IN  IF c.via = "http" THEN Proven(r) /\ c.token.acr >= c.floor
                               ELSE Proven(r) \/ gate'[r].soft
    OBVIOUS
  <2>1. (ReplayInv /\ GateInv => TypeOK)'
    BY GateTypes, PTL
  <2>2. ReplayInv' /\ GateInv' /\ \A q \in Request : Admits(q) => Admitted(q)
    BY ReplayNextInv, GateNextInv
  <2> QED
    BY <2>1, <2>2 DEF Admitted
<1> QED
  BY <1>1, GateInvariant, PTL DEF Spec, BoundTokensAreProven
=============================================================================
