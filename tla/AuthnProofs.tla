----------------------------- MODULE AuthnProofs -----------------------------
(***************************************************************************)
(* The authentication chain, for any number of concurrent requests, any     *)
(* calls and configurations and any cache sizes and lifetimes.              *)
(*                                                                         *)
(* The argument.  A request that is being resolved keeps the reason for     *)
(* which it is: the token or the session that the lookup stands for         *)
(* (Founded).  An answer of Kratos or of IAM, cached or on its way to the   *)
(* cache, is dated from when it was asked for, so that none outlives the    *)
(* end it denies by more than one time to live and one delay (Timely,       *)
(* SessionsExpire, SubjectsExpire).                                         *)
(***************************************************************************)
EXTENDS Authn, TLAPS

-----------------------------------------------------------------------------
(* The two caches: the lemmas of LRUCacheProofs, for the instances of Authn. *)

SessP == INSTANCE LRUCacheProofs WITH
  Key <- Session, MaxSize <- SessionMax, TTL <- SessionTTL,
  items <- sessItems, order <- sessOrder, gen <- sessGen
SubjP == INSTANCE LRUCacheProofs WITH
  Key <- ExternalId, MaxSize <- SubjectMax, TTL <- SubjectTTL,
  items <- subjItems, order <- subjOrder, gen <- subjGen

LEMMA AuthnNumbers ==
  /\ SessionMax \in Nat \ {0} /\ SessionTTL \in Nat \ {0} /\ NegativeTTL \in Nat \ {0}
  /\ SubjectMax \in Nat \ {0} /\ SubjectTTL \in Nat \ {0} /\ Retries \in Nat \ {0}
  /\ MaxDelay \in Nat
  BY AuthnAssumption

LEMMA CacheAssumptions == SessP!CacheAssumption /\ SubjP!CacheAssumption
  BY AuthnNumbers DEF SessP!CacheAssumption, SubjP!CacheAssumption

LEMMA SessGet ==
  ASSUME NEW s, SessP!Table(BOOLEAN), Sess!Get(s)
  PROVE  SessP!Table(BOOLEAN)' /\ SessP!Shrinks /\ sessGen' = sessGen
<1>1. SessP!Get(s)
  BY Zenon DEF Sess!Get, SessP!Get, Sess!Live, SessP!Live, Sess!Drop, SessP!Drop,
     Sess!Restrict, SessP!Restrict, Sess!Without, SessP!Without,
     Sess!MovedToFront, SessP!MovedToFront, Sess!Range, SessP!Range,
     Sess!RemoveAt, SessP!RemoveAt
<1> QED
  BY <1>1, CacheAssumptions, SessP!GetTable

LEMMA SubjGet ==
  ASSUME NEW x, SubjP!Table(Principal), Subj!Get(x)
  PROVE  SubjP!Table(Principal)' /\ SubjP!Shrinks /\ subjGen' = subjGen
<1>1. SubjP!Get(x)
  BY Zenon DEF Subj!Get, SubjP!Get, Subj!Live, SubjP!Live, Subj!Drop, SubjP!Drop,
     Subj!Restrict, SubjP!Restrict, Subj!Without, SubjP!Without,
     Subj!MovedToFront, SubjP!MovedToFront, Subj!Range, SubjP!Range,
     Subj!RemoveAt, SubjP!RemoveAt
<1> QED
  BY <1>1, CacheAssumptions, SubjP!GetTable

LEMMA SessPut ==
  ASSUME NEW s \in Session, NEW v \in BOOLEAN, NEW ttl \in Nat \ {0}, now \in Nat,
         SessP!Table(BOOLEAN), Sess!PutWithTTL(s, v, ttl)
  PROVE  /\ SessP!Table(BOOLEAN)' /\ sessGen' = sessGen
         /\ SessP!Stores(s, [value |-> v, expiresAt |-> now + ttl])
<1>1. SessP!PutWithTTL(s, v, ttl)
  BY Zenon DEF Sess!PutWithTTL, SessP!PutWithTTL, Sess!putLocked, SessP!putLocked,
     Sess!Restrict, SessP!Restrict, Sess!Without, SessP!Without,
     Sess!MovedToFront, SessP!MovedToFront, Sess!Range, SessP!Range,
     Sess!RemoveAt, SessP!RemoveAt, Sess!Cardinality, SessP!Cardinality
<1> DEFINE u == IF ttl <= 0 THEN SessionTTL ELSE ttl
<1>2. u = ttl
  OBVIOUS
<1>3. SessP!putLocked(s, v, u) /\ sessGen' = sessGen
  BY <1>1 DEF SessP!PutWithTTL
<1> HIDE DEF u
<1> QED
  BY <1>2, <1>3, CacheAssumptions, SessP!PutTable

LEMMA SubjPut ==
  ASSUME NEW x \in ExternalId, NEW p \in Principal, now \in Nat,
         SubjP!Table(Principal), Subj!Put(x, p)
  PROVE  /\ SubjP!Table(Principal)' /\ subjGen' = subjGen
         /\ SubjP!Stores(x, [value |-> p, expiresAt |-> now + SubjectTTL])
<1>1. SubjP!putLocked(x, p, SubjectTTL) /\ subjGen' = subjGen
  BY Zenon DEF Subj!Put, Subj!putLocked, SubjP!putLocked,
     Subj!Restrict, SubjP!Restrict, Subj!Without, SubjP!Without,
     Subj!MovedToFront, SubjP!MovedToFront, Subj!Range, SubjP!Range,
     Subj!RemoveAt, SubjP!RemoveAt, Subj!Cardinality, SubjP!Cardinality
<1> QED
  BY <1>1, AuthnNumbers, CacheAssumptions, SubjP!PutTable

-----------------------------------------------------------------------------
(* The inductive invariant.                                                *)

\* What IdentityIsEstablished asks of a request c that is handed on with principal p.
Rightful(c, p) ==
  LET certified == c.via = "grpc" /\ config.mtls /\ c.cert # None
      presented == c.token # None /\ (c.via = "http" \/ c.scheme \in {"Bearer", "bearer"})
  IN  /\ p \in {None, Anonymous} \cup Established(c)
      /\ (c.via = "grpc" \/ config.gate) /\ ~certified =>
           /\ presented => TokenCounts(c)
           /\ Strict => presented

\* The lookup of x stands for the token of c.
ForToken(c, x) ==
  /\ TokenCounts(c) /\ x = c.token.sub
  /\ c.via = "grpc" => c.scheme \in {"Bearer", "bearer"}

\* The lookup of x stands for the session of c.
ForSession(c, x) ==
  /\ c.via = "http" /\ config.kratos /\ c.session \in Session
  /\ x = IdentityOf[c.session]

\* The phases that ask Kratos about the session, and those that look a subject up.
Asking == {"whoami", "kratos", "keep"}
Looking == {"lookup", "iam", "keepSubject", "upsert"}

\* Why a request is where it is.
Founded(r) ==
  LET q == req[r]
  IN  /\ q.pc \in Asking => q.call.via = "http" /\ config.kratos /\ q.call.session \in Session
      /\ q.pc \in Looking =>
           /\ q.id \in ExternalId
           /\ IF q.kratos THEN ForSession(q.call, q.id) ELSE ForToken(q.call, q.id)

\* What a request found ended when it came has ended; an answer on its way was true at
\* most MaxDelay ago; and a session that was accepted had not ended when it came.
Timely(r) ==
  LET q == req[r]
  IN  /\ q.late \subseteq EndedLongAgo \cup RemovedLongAgo
      /\ q.pc \in {"keep", "keepSubject"} => q.askedAt <= now /\ now <= q.askedAt + MaxDelay
      /\ q.pc = "keep" /\ q.answer =>
           \/ endedAt[q.call.session] = None
           \/ q.askedAt <= endedAt[q.call.session]
      /\ q.pc = "keepSubject" => removedAt[q.id] = None \/ q.askedAt <= removedAt[q.id]
      /\ q.pc \in Looking /\ q.kratos => q.call.session \notin q.late

\* A cached positive answer of Kratos is of before the end of the session.
SessionsExpire ==
  \A s \in DOMAIN sessItems :
    sessItems[s].value = FALSE \/
      /\ sessItems[s].expiresAt <= now + SessionTTL
      /\ endedAt[s] # None => sessItems[s].expiresAt <= endedAt[s] + MaxDelay + SessionTTL

\* A cached subject is that of its external id, and of before its removal.
SubjectsExpire ==
  \A x \in DOMAIN subjItems :
    /\ subjItems[x].value = Mirror(x)
    /\ subjItems[x].expiresAt <= now + SubjectTTL
    /\ removedAt[x] # None => subjItems[x].expiresAt <= removedAt[x] + MaxDelay + SubjectTTL

WorldInv ==
  /\ config \in Config /\ Starts(config) /\ now \in Nat
  /\ endedAt \in [Session -> Nat \cup {None}]
  /\ users \subseteq ExternalId
  /\ removedAt \in [ExternalId -> Nat \cup {None}]
  /\ \A x \in users : removedAt[x] = None

CachesInv ==
  /\ SessP!Table(BOOLEAN) /\ sessGen \in Nat
  /\ SubjP!Table(Principal) /\ subjGen \in Nat
  /\ SessionsExpire /\ SubjectsExpire

AuthnInv ==
  /\ WorldInv /\ CachesInv
  /\ req \in [Request -> RequestState]
  /\ \A r \in Request : Founded(r) /\ Timely(r)

-----------------------------------------------------------------------------
(* What is decided without waiting.                                        *)

LEMMA OutcomeFields ==
  /\ Refuse.pc = "out" /\ Refuse.principal = None
  /\ \A p : Serve(p).pc = "served" /\ Serve(p).principal = p
  /\ \A x : LookUp(x).pc = "lookup" /\ LookUp(x).id = x /\ LookUp(x).principal = None
  BY DEF Refuse, Serve, LookUp

LEMMA Principals ==
  /\ Anonymous \in Principal
  /\ \A x \in ExternalId : Mirror(x) \in Principal /\ Mirror(x) # Anonymous
  /\ \A x, y : Mirror(x) = Mirror(y) => x = y
  /\ \A x \in ExternalId : [from |-> "subject", id |-> x] \in Principal
  /\ None \notin Principal
<1>1. \A x \in ExternalId : x \in STRING
  BY AuthnAssumption
<1>2. Anonymous \in Principal
  BY DEF Principal
<1>3. \A x \in ExternalId : Mirror(x) \in Principal /\ Mirror(x) # Anonymous
  BY <1>1 DEF Mirror, Principal, Anonymous
<1>4. \A x, y : Mirror(x) = Mirror(y) => x = y
  BY DEF Mirror
<1>5. \A x \in ExternalId : [from |-> "subject", id |-> x] \in Principal
  BY <1>1 DEF Principal
<1> QED
  BY <1>2, <1>3, <1>4, <1>5, AuthnAssumption

\* Not the user of an external id.
NoMirror(p) == \A x \in ExternalId : p # Mirror(x)

LEMMA CallFields ==
  ASSUME NEW c \in Call
  PROVE  /\ c.via \in {"http", "grpc"} /\ c.session \in Session \cup {None}
         /\ c.token \in TokenType \cup {None}
         /\ c.cert # None => c.cert \in Principal /\ NoMirror(c.cert)
<1>1. /\ c.via \in {"http", "grpc"} /\ c.session \in Session \cup {None}
      /\ c.token \in TokenType \cup {None}
      /\ c.cert \in [from : {"cert"}, id : STRING] \cup {None}
  BY AuthnAssumption DEF CallType
<1>2. c.cert # None => c.cert \in Principal /\ NoMirror(c.cert)
  BY <1>1 DEF Principal, NoMirror, Mirror
<1> QED
  BY <1>1, <1>2

LEMMA TokenFields ==
  ASSUME NEW t \in TokenType
  PROVE  /\ t.alg \in {"hydra", "hmac"} /\ t.good \in BOOLEAN
         /\ t.sub \in ExternalId \cup {None} /\ t # None
         /\ t.claims # None => t.claims \in Principal /\ NoMirror(t.claims)
         /\ t.sub # None => NoMirror([from |-> "subject", id |-> t.sub])
<1>1. /\ t.alg \in {"hydra", "hmac"} /\ t.good \in BOOLEAN
      /\ t.sub \in ExternalId \cup {None} /\ t # None
      /\ t.claims \in [from : {"claims"}, id : STRING] \cup {None}
  BY AuthnAssumption DEF TokenType
<1>2. t.claims # None => t.claims \in Principal /\ NoMirror(t.claims)
  BY <1>1 DEF Principal, NoMirror, Mirror
<1>3. NoMirror([from |-> "subject", id |-> t.sub])
  BY DEF NoMirror, Mirror
<1> QED
  BY <1>1, <1>2, <1>3

LEMMA NoneIsNoMirror == NoMirror(None) /\ NoMirror(Anonymous)
  BY Principals DEF NoMirror

\* The outcome o ends the request c refused, or serves it rightfully, and with the user
\* of an external id only when that is m; or it leads to a lookup for its token.
Proper(c, m, o) ==
  \/ o.pc = "out" /\ o.principal = None
  \/ /\ o.pc = "served" /\ o.principal \in Principal \cup {None}
     /\ Rightful(c, o.principal)
     /\ o.principal = m \/ NoMirror(o.principal)
  \/ /\ o.pc = "lookup" /\ o.id \in ExternalId /\ o.principal = None
     /\ ForToken(c, o.id)

\* What HTTP hands to the gate: as Proper, before the gate has decided.
Candidate(c, m, o) ==
  \/ o.pc = "out" /\ o.principal = None
  \/ /\ o.pc = "served" /\ o.principal \in Principal \cup {None}
     /\ o.principal \in {None, Anonymous} \cup Established(c)
     /\ o.principal = m \/ NoMirror(o.principal)
  \/ /\ o.pc = "lookup" /\ o.id \in ExternalId /\ o.principal = None
     /\ ForToken(c, o.id)

\* The gate: without a token the principal stands, unless tokens are asked for; a token
\* must verify, and its claims or its subject take over.
LEMMA PassGateProper ==
  ASSUME WorldInv, NEW c \in Call, c.via = "http", NEW p \in Principal \cup {None},
         p \in {None, Anonymous} \cup Established(c), NEW o \in PassGate(c, p)
  PROVE  Proper(c, p, o)
<1>1. c.token \in TokenType \cup {None} /\ c.via # "grpc"
  BY CallFields
<1>2. CASE ~config.gate
  <2>1. o = Serve(p)
    BY <1>2, Zenon DEF PassGate
  <2>2. Rightful(c, p)
    BY <1>1, <1>2 DEF Rightful
  <2> QED
    BY <2>1, <2>2, OutcomeFields DEF Proper
<1>3. CASE config.gate /\ c.token = None
  <2>1. o = IF Strict THEN Refuse ELSE Serve(p)
    BY <1>3, Zenon DEF PassGate
  <2>2. ~Strict => Rightful(c, p)
    BY <1>1, <1>3 DEF Rightful
  <2> QED
    BY <2>1, <2>2, OutcomeFields DEF Proper
<1>4. CASE config.gate /\ c.token # None
  <2> DEFINE i == Injected(c.token, p)
  <2>1. o \in Verified(c.token, {Serve(i)})
    BY <1>4, Zenon DEF PassGate
  <2>2. o = Refuse \/ (o = Serve(i) /\ c.token.alg = "hydra" /\ c.token.good)
    BY <2>1 DEF Verified
  <2>3. config.verifier
    BY <1>4 DEF WorldInv, Starts
  <2>4. c.token.alg = "hydra" /\ c.token.good => TokenCounts(c)
    BY <1>4, <2>3 DEF TokenCounts
  <2>5. \/ i = c.token.claims /\ c.token.claims # None
        \/ i = [from |-> "subject", id |-> c.token.sub] /\ c.token.sub # None
        \/ i = p
    <3>1. CASE c.token.claims # None
      BY <3>1, Zenon DEF Injected
    <3>2. CASE c.token.claims = None /\ c.token.sub # None
      BY <3>2, Zenon DEF Injected
    <3>3. CASE c.token.claims = None /\ c.token.sub = None
      BY <3>3, Zenon DEF Injected
    <3> QED
      BY <3>1, <3>2, <3>3
  <2> HIDE DEF i
  <2>6. i \in Principal \cup {None} /\ (i = p \/ NoMirror(i))
    BY <1>1, <1>4, <2>5, TokenFields, Principals
  <2>7. TokenCounts(c) => i \in {None, Anonymous} \cup Established(c)
    BY <1>4, <2>5 DEF Established
  <2>8. TokenCounts(c) => Rightful(c, i)
    BY <1>4, <2>7 DEF Rightful
  <2>9. CASE o = Refuse
    BY <2>9, OutcomeFields DEF Proper
  <2>10. CASE o = Serve(i) /\ c.token.alg = "hydra" /\ c.token.good
    BY <2>4, <2>6, <2>8, <2>10, OutcomeFields DEF Proper
  <2> QED
    BY <2>2, <2>9, <2>10
<1> QED
  BY <1>2, <1>3, <1>4

\* The claims of a token that counts.
LEMMA ByClaimsProper ==
  ASSUME NEW c \in Call, TokenCounts(c), c.via = "grpc" => c.scheme \in {"Bearer", "bearer"}
  PROVE  Proper(c, None, ByClaims(c.token)) /\ Candidate(c, None, ByClaims(c.token))
<1> DEFINE t == c.token
<1>1. t \in TokenType
  BY CallFields DEF TokenCounts
<1>2. CASE t.claims # None
  <2>1. ByClaims(t) = Serve(t.claims)
    BY <1>2, Zenon DEF ByClaims
  <2>2. t.claims \in Principal /\ NoMirror(t.claims)
    BY <1>1, <1>2, TokenFields
  <2>3. t.claims \in Established(c)
    BY DEF Established
  <2>4. Rightful(c, t.claims)
    BY <2>3, CallFields DEF Rightful, TokenCounts
  <2>5. Serve(t.claims).pc = "served" /\ Serve(t.claims).principal = t.claims
    BY OutcomeFields
  <2> QED
    BY <2>1, <2>2, <2>3, <2>4, <2>5 DEF Proper, Candidate
<1>3. CASE t.claims = None /\ t.sub = None
  <2>1. ByClaims(t) = Refuse
    BY <1>3, Zenon DEF ByClaims
  <2> QED
    BY <2>1, OutcomeFields DEF Proper, Candidate
<1>4. CASE t.claims = None /\ t.sub # None
  <2>1. ByClaims(t) = LookUp(t.sub)
    BY <1>4, Zenon DEF ByClaims
  <2>2. t.sub \in ExternalId /\ ForToken(c, t.sub)
    BY <1>1, <1>4, TokenFields DEF ForToken
  <2> QED
    BY <2>1, <2>2, OutcomeFields DEF Proper, Candidate
<1> QED
  BY <1>2, <1>3, <1>4

\* A token verified by Hydra's keys, or one that is signed with the secret of mode dev.
LEMMA VerifiedProper ==
  ASSUME NEW c \in Call, c.token # None, config.verifier,
         c.via = "grpc" => c.scheme \in {"Bearer", "bearer"},
         NEW o \in Verified(c.token, {ByClaims(c.token)})
  PROVE  Proper(c, None, o) /\ Candidate(c, None, o)
<1>1. o = Refuse \/ (o = ByClaims(c.token) /\ TokenCounts(c))
  BY DEF Verified, TokenCounts
<1>2. CASE o = Refuse
  BY <1>2, OutcomeFields DEF Proper, Candidate
<1>3. CASE o = ByClaims(c.token) /\ TokenCounts(c)
  BY <1>3, ByClaimsProper
<1> QED
  BY <1>1, <1>2, <1>3

LEMMA HmacProper ==
  ASSUME NEW c \in Call, c.token # None,
         c.via = "grpc" => c.scheme \in {"Bearer", "bearer"},
         NEW o, o = IF HmacValid(c.token) THEN ByHmac(c.token) ELSE Refuse
  PROVE  Proper(c, None, o) /\ Candidate(c, None, o)
<1>1. o = Refuse \/ (o = ByClaims(c.token) /\ TokenCounts(c))
  BY DEF HmacValid, ByHmac, TokenCounts
<1>2. CASE o = Refuse
  BY <1>2, OutcomeFields DEF Proper, Candidate
<1>3. CASE o = ByClaims(c.token) /\ TokenCounts(c)
  BY <1>3, ByClaimsProper
<1> QED
  BY <1>1, <1>2, <1>3

LEMMA AuthorizeProper ==
  ASSUME NEW c \in Call, c.via = "grpc", NEW o \in authorize(c)
  PROVE  Proper(c, None, o)
<1> DEFINE bearer == c.token # None /\ c.scheme \in {"Bearer", "bearer"}
<1>1. CASE config.mtls /\ c.cert # None
  <2>1. o = Serve(c.cert)
    BY <1>1, Zenon DEF authorize
  <2>2. c.cert \in Principal /\ NoMirror(c.cert)
    BY <1>1, CallFields
  <2>3. Rightful(c, c.cert)
    BY <1>1 DEF Rightful, Established
  <2> QED
    BY <2>1, <2>2, <2>3, OutcomeFields DEF Proper
<1>2. CASE ~(config.mtls /\ c.cert # None) /\ ~bearer
  <2>1. o = IF Strict THEN Refuse ELSE Serve(Anonymous)
    BY <1>2, Zenon DEF authorize
  <2>2. ~Strict => Rightful(c, Anonymous)
    BY <1>2 DEF Rightful
  <2> QED
    BY <2>1, <2>2, OutcomeFields, Principals, NoneIsNoMirror DEF Proper
<1>3. CASE ~(config.mtls /\ c.cert # None) /\ bearer
  <2>1. o \in IF config.verifier /\ c.token.alg = "hydra"
              THEN Verified(c.token, {ByClaims(c.token)})
              ELSE {IF HmacValid(c.token) THEN ByHmac(c.token) ELSE Refuse}
    BY <1>3, Zenon DEF authorize
  <2>2. CASE config.verifier /\ c.token.alg = "hydra"
    BY <1>3, <2>1, <2>2, VerifiedProper
  <2>3. CASE ~(config.verifier /\ c.token.alg = "hydra")
    BY <1>3, <2>1, <2>3, HmacProper
  <2> QED
    BY <2>2, <2>3
<1> QED
  BY <1>1, <1>2, <1>3

LEMMA ByTokenProper ==
  ASSUME WorldInv, NEW c \in Call, c.via = "http", NEW o \in byToken(c)
  PROVE  Proper(c, None, o)
<1> DEFINE bearer   == c.token # None /\ c.scheme \in {"Bearer", "cookie"}
           outcomes == IF bearer /\ config.verifier /\ c.token.alg = "hydra"
                       THEN Verified(c.token, {ByClaims(c.token)})
                       ELSE IF bearer /\ config.secret
                       THEN {IF HmacValid(c.token) THEN ByHmac(c.token) ELSE Refuse}
                       ELSE {Serve(Stripped(c))}
<1>1. ASSUME NEW i \in outcomes PROVE Candidate(c, None, i)
  <2>1. CASE bearer /\ config.verifier /\ c.token.alg = "hydra"
    BY <1>1, <2>1, VerifiedProper
  <2>2. CASE ~(bearer /\ config.verifier /\ c.token.alg = "hydra") /\ bearer /\ config.secret
    BY <1>1, <2>2, HmacProper
  <2>3. CASE i = Serve(Stripped(c))
    BY <2>3, OutcomeFields DEF Stripped, Candidate
  <2> QED
    BY <1>1, <2>1, <2>2, <2>3
<1>2. o \in ToGate(c, outcomes)
  BY Zenon DEF byToken
<1> HIDE DEF outcomes
<1>3. PICK i \in outcomes : o \in IF i.pc = "served" THEN PassGate(c, i.principal) ELSE {i}
  BY <1>2, Zenon DEF ToGate
<1>4. CASE i.pc = "served"
  <2>1. /\ i.principal \in Principal \cup {None}
        /\ i.principal \in {None, Anonymous} \cup Established(c)
        /\ NoMirror(i.principal)
    BY <1>1, <1>4, NoneIsNoMirror DEF Candidate
  <2>2. Proper(c, i.principal, o)
    BY <1>3, <1>4, <2>1, PassGateProper
  <2> QED
    BY <2>1, <2>2 DEF Proper
<1>5. CASE i.pc # "served"
  BY <1>1, <1>3, <1>5 DEF Candidate, Proper
<1> QED
  BY <1>4, <1>5

-----------------------------------------------------------------------------
(* Steps of a request.                                                     *)

\* The request r is handed on rightfully, and not as a user that had ended before it came.
Admitted(r) ==
  /\ Rightful(req[r].call, req'[r].principal)
  /\ \A x \in ExternalId : req'[r].principal = Mirror(x) =>
       /\ x \notin req[r].late
       /\ req[r].kratos => req[r].call.session \notin req[r].late

AllAdmitted == \A q \in Request : Admits(q) => Admitted(q)

LEMMA OutType ==
  /\ Out \in RequestState /\ Out.pc = "out" /\ Out.principal = None /\ Out.late = {}
  /\ Out.kratos = FALSE
<1>1. (CHOOSE c \in Call : TRUE) \in Call
  BY AuthnAssumption
<1>2. 0 \in 0..Retries
  BY AuthnNumbers
<1> QED
  BY <1>1, <1>2 DEF Out, RequestState

LEMMA LeaveType ==
  ASSUME NEW pc \in {"out", "served"}, NEW p \in Principal \cup {None}
  PROVE  /\ [Out EXCEPT !.pc = pc, !.principal = p] \in RequestState
         /\ [Out EXCEPT !.pc = pc, !.principal = p].pc = pc
         /\ [Out EXCEPT !.pc = pc, !.principal = p].principal = p
         /\ [Out EXCEPT !.pc = pc, !.principal = p].late = {}
<1>1. [Out EXCEPT !.pc = pc, !.principal = p] \in RequestState
  BY OutType DEF RequestState
<1> QED
  BY <1>1 DEF Out

LEMMA LookupType ==
  ASSUME NEW q \in RequestState, NEW x \in ExternalId
  PROVE  [q EXCEPT !.pc = "lookup", !.id = x, !.kratos = FALSE, !.tries = 0] \in RequestState
<1>1. 0 \in 0..Retries
  BY AuthnNumbers
<1>2. [q EXCEPT !.pc = "lookup", !.id = x, !.tries = 0] \in RequestState
  BY <1>1 DEF RequestState
<1>3. \A p \in RequestState : [p EXCEPT !.kratos = FALSE] \in RequestState
  BY DEF RequestState
<1>4. [q EXCEPT !.pc = "lookup", !.id = x, !.kratos = FALSE, !.tries = 0] =
      [[q EXCEPT !.pc = "lookup", !.id = x, !.tries = 0] EXCEPT !.kratos = FALSE]
  BY DEF RequestState
<1> QED
  BY <1>2, <1>3, <1>4

LEMMA SameCaches ==
  ASSUME CachesInv, UNCHANGED <<sessVars, subjVars, now, endedAt, removedAt>>
  PROVE  CachesInv'
<1>1. UNCHANGED <<sessItems, sessOrder, sessGen, subjItems, subjOrder, subjGen,
                  now, endedAt, removedAt>>
  BY DEF sessVars, subjVars
<1> QED
  BY <1>1 DEF CachesInv, SessionsExpire, SubjectsExpire,
              SessP!Table, SessP!ListMatchesMap, SubjP!Table, SubjP!ListMatchesMap

\* A request that a step does not move.
LEMMA OtherRequest ==
  ASSUME NEW q \in Request, Founded(q), Timely(q), req'[q] = req[q],
         UNCHANGED <<config, now, endedAt, removedAt>>
  PROVE  Founded(q)' /\ Timely(q)' /\ ~Admits(q)
<1>1. Founded(q)'
  BY DEF Founded, ForSession, ForToken, TokenCounts
<1>2. Timely(q)'
  BY DEF Timely, EndedLongAgo, RemovedLongAgo
<1> QED
  BY <1>1, <1>2 DEF Admits

\* A step of one request: it is enough to look at that one and at the caches.
LEMMA RequestStep ==
  ASSUME AuthnInv, NEW r \in Request, req' \in [Request -> RequestState],
         \A q \in Request \ {r} : req'[q] = req[q],
         UNCHANGED <<config, now, endedAt, users, removedAt>>, CachesInv',
         Founded(r)', Timely(r)', Admits(r) => Admitted(r)
  PROVE  AuthnInv' /\ AllAdmitted
<1>1. ASSUME NEW q \in Request \ {r} PROVE Founded(q)' /\ Timely(q)' /\ ~Admits(q)
  BY OtherRequest DEF AuthnInv
<1>2. WorldInv'
  BY DEF AuthnInv, WorldInv, Starts
<1> QED
  BY <1>1, <1>2 DEF AuthnInv, AllAdmitted

\* The request goes on with one of the outcomes.
LEMMA ContinueStep ==
  ASSUME AuthnInv, NEW r \in Request, NEW outcomes, NEW m,
         \A o \in outcomes : Proper(req[r].call, m, o),
         \A x \in ExternalId : m = Mirror(x) =>
           /\ x \notin req[r].late
           /\ req[r].kratos => req[r].call.session \notin req[r].late,
         Continue(r, outcomes), UNCHANGED <<config, now, endedAt, users, removedAt>>,
         CachesInv'
  PROVE  AuthnInv' /\ AllAdmitted
<1>1. PICK o \in outcomes :
        req' = [req EXCEPT ![r] =
          IF o.pc = "lookup" THEN [@ EXCEPT !.pc = "lookup", !.id = o.id, !.kratos = FALSE,
                                            !.tries = 0]
          ELSE [Out EXCEPT !.pc = o.pc, !.principal = o.principal]]
  BY DEF Continue
<1>2. /\ req \in [Request -> RequestState] /\ req[r] \in RequestState
      /\ Founded(r) /\ Timely(r) /\ Proper(req[r].call, m, o)
  BY DEF AuthnInv
<1>3. CASE o.pc = "lookup"
  <2>1. o.id \in ExternalId /\ ForToken(req[r].call, o.id)
    BY <1>2, <1>3 DEF Proper
  <2> DEFINE x == [req[r] EXCEPT !.pc = "lookup", !.id = o.id, !.kratos = FALSE, !.tries = 0]
  <2>2. req' = [req EXCEPT ![r] = x]
    BY <1>1, <1>3
  <2>3. x \in RequestState
    BY <1>2, <2>1, LookupType
  <2>4. /\ x.pc = "lookup" /\ x.id = o.id /\ x.kratos = FALSE /\ x.call = req[r].call
        /\ x.late = req[r].late
    BY <1>2 DEF RequestState
  <2> HIDE DEF x
  <2>5. /\ req' \in [Request -> RequestState] /\ \A q \in Request \ {r} : req'[q] = req[q]
        /\ req'[r].pc = "lookup" /\ req'[r].id = o.id /\ req'[r].kratos = FALSE
        /\ req'[r].call = req[r].call /\ req'[r].late = req[r].late
    BY <1>2, <2>2, <2>3, <2>4
  <2>6. Founded(r)'
    BY <2>1, <2>5 DEF Founded, Asking, Looking, ForToken, TokenCounts
  <2>7. Timely(r)'
    BY <1>2, <2>5 DEF Timely, EndedLongAgo, RemovedLongAgo
  <2> QED
    BY <2>5, <2>6, <2>7, RequestStep DEF Admits
<1>4. CASE o.pc # "lookup"
  <2>0. PICK pc, p : pc = o.pc /\ p = o.principal
    OBVIOUS
  <2>1. pc \in {"out", "served"} /\ p \in Principal \cup {None}
    BY <1>2, <1>4, <2>0 DEF Proper
  <2> DEFINE x == [Out EXCEPT !.pc = pc, !.principal = p]
  <2>2. req' = [req EXCEPT ![r] = x]
    BY <1>1, <1>4, <2>0
  <2>3. x \in RequestState /\ x.pc = pc /\ x.principal = p /\ x.late = {}
    BY <2>1, LeaveType
  <2> HIDE DEF x
  <2>4. /\ req' \in [Request -> RequestState] /\ \A q \in Request \ {r} : req'[q] = req[q]
        /\ req'[r].pc = o.pc /\ req'[r].principal = o.principal /\ req'[r].late = {}
    BY <1>2, <2>0, <2>2, <2>3
  <2>5. Founded(r)'
    BY <2>0, <2>1, <2>4 DEF Founded, Asking, Looking
  <2>6. Timely(r)'
    BY <2>0, <2>1, <2>4 DEF Timely, Looking
  <2>7. Admits(r) => Admitted(r)
    <3>1. SUFFICES ASSUME o.pc = "served" PROVE Admitted(r)
      BY <2>4 DEF Admits
    <3>2. /\ Rightful(req[r].call, o.principal)
          /\ o.principal = m \/ NoMirror(o.principal)
      BY <1>2, <3>1 DEF Proper
    <3> QED
      BY <2>4, <3>2 DEF Admitted, NoMirror
  <2> QED
    BY <2>4, <2>5, <2>6, <2>7, RequestStep
<1> QED
  BY <1>3, <1>4

LEMMA ArriveType ==
  ASSUME NEW c \in Call, NEW late \in SUBSET (Session \cup ExternalId)
  PROVE  LET x == [Out EXCEPT !.pc = "arrived", !.call = c, !.late = late]
         IN  x \in RequestState /\ x.pc = "arrived" /\ x.late = late
<1>1. [Out EXCEPT !.pc = "arrived", !.call = c, !.late = late] \in RequestState
  BY OutType DEF RequestState
<1> QED
  BY <1>1 DEF Out

LEMMA ArriveStep ==
  ASSUME AuthnInv, NEW r \in Request, NEW c \in Call, Arrive(r, c)
  PROVE  AuthnInv' /\ AllAdmitted
<1> DEFINE late == EndedLongAgo \cup RemovedLongAgo
           x    == [Out EXCEPT !.pc = "arrived", !.call = c, !.late = late]
<1>1. /\ req' = [req EXCEPT ![r] = x] /\ req \in [Request -> RequestState]
      /\ UNCHANGED <<config, now, sessVars, subjVars, extVars>>
  BY DEF Arrive, AuthnInv
<1>2. UNCHANGED <<endedAt, users, removedAt>> /\ CachesInv'
  BY <1>1, SameCaches DEF extVars, AuthnInv
<1>3. late \in SUBSET (Session \cup ExternalId)
  BY DEF EndedLongAgo, RemovedLongAgo
<1>4. x \in RequestState /\ x.pc = "arrived" /\ x.late = late
  BY <1>3, ArriveType
<1> HIDE DEF x
<1>5. /\ req' \in [Request -> RequestState] /\ \A q \in Request \ {r} : req'[q] = req[q]
      /\ req'[r].pc = "arrived" /\ req'[r].late = late
  BY <1>1, <1>4
<1>6. Founded(r)'
  BY <1>5 DEF Founded, Asking, Looking
<1>7. Timely(r)'
  BY <1>1, <1>2, <1>5 DEF Timely, Looking, EndedLongAgo, RemovedLongAgo
<1> QED
  BY <1>1, <1>2, <1>5, <1>6, <1>7, RequestStep DEF Admits

\* A request that moves on to phase pc and keeps its call, its id and its history.
LEMMA PhaseStep ==
  ASSUME AuthnInv, NEW r \in Request, NEW pc \in {"whoami", "kratos", "iam", "upsert"},
         req' = [req EXCEPT ![r].pc = pc],
         UNCHANGED <<config, now, endedAt, users, removedAt>>, CachesInv',
         pc \in Asking => /\ req[r].call.via = "http" /\ config.kratos
                          /\ req[r].call.session \in Session,
         pc \in Looking => req[r].pc \in Looking
  PROVE  AuthnInv' /\ AllAdmitted
<1>1. req \in [Request -> RequestState] /\ Founded(r) /\ Timely(r)
  BY DEF AuthnInv
<1>2. /\ req' \in [Request -> RequestState] /\ \A q \in Request \ {r} : req'[q] = req[q]
  BY <1>1 DEF RequestState
<1>3. /\ req'[r].pc = pc /\ req'[r].call = req[r].call /\ req'[r].id = req[r].id
      /\ req'[r].kratos = req[r].kratos /\ req'[r].late = req[r].late
  BY <1>1 DEF RequestState
<1>4. Founded(r)'
  BY <1>1, <1>3 DEF Founded, Asking, Looking, ForSession, ForToken, TokenCounts
<1>5. Timely(r)'
  BY <1>1, <1>3 DEF Timely, Asking, Looking, EndedLongAgo, RemovedLongAgo
<1> QED
  BY <1>2, <1>3, <1>4, <1>5, RequestStep DEF Admits

LEMMA NoneExpires ==
  \A x \in ExternalId : None # Mirror(x)
  BY Principals

LEMMA AuthenticateStep ==
  ASSUME AuthnInv, NEW r \in Request, Authenticate(r)
  PROVE  AuthnInv' /\ AllAdmitted
<1>0. PICK c \in Call : c = req[r].call
  BY DEF AuthnInv, RequestState
<1>1. /\ req[r].pc = "arrived" /\ UNCHANGED <<config, now, sessVars, subjVars, extVars>>
      /\ WorldInv
  BY DEF Authenticate, At, AuthnInv
<1>2. UNCHANGED <<endedAt, users, removedAt>> /\ CachesInv'
  BY <1>1, SameCaches DEF extVars, AuthnInv
<1>3. CASE c.via = "grpc" /\ Continue(r, authorize(c))
  <2>1. \A o \in authorize(c) : Proper(c, None, o)
    BY <1>3, AuthorizeProper
  <2> QED
    BY <1>0, <1>1, <1>2, <1>3, <2>1, NoneExpires, ContinueStep
<1>4. CASE /\ c.via = "http" /\ config.kratos /\ c.session # None
           /\ req' = [req EXCEPT ![r].pc = "whoami"]
  <2>1. c.session \in Session
    BY <1>4, CallFields
  <2> QED
    BY <1>0, <1>1, <1>2, <1>4, <2>1, PhaseStep DEF Looking
<1>5. CASE c.via = "http" /\ Continue(r, byToken(c))
  <2>1. \A o \in byToken(c) : Proper(c, None, o)
    BY <1>1, <1>5, ByTokenProper
  <2> QED
    BY <1>0, <1>1, <1>2, <1>5, <2>1, NoneExpires, ContinueStep
<1> QED
  BY <1>0, <1>3, <1>4, <1>5 DEF Authenticate

LEMMA AcceptedType ==
  ASSUME NEW q \in RequestState, NEW x \in ExternalId
  PROVE  LET a == [q EXCEPT !.pc = "lookup", !.kratos = TRUE, !.tries = 0, !.id = x,
                            !.answer = FALSE, !.askedAt = 0]
         IN  /\ a \in RequestState /\ a.pc = "lookup" /\ a.kratos = TRUE /\ a.id = x
             /\ a.call = q.call /\ a.late = q.late
<1>1. 0 \in 0..Retries
  BY AuthnNumbers
<1>2. [q EXCEPT !.pc = "lookup", !.tries = 0, !.id = x, !.askedAt = 0] \in RequestState
  BY <1>1 DEF RequestState
<1>3. \A p \in RequestState : [p EXCEPT !.kratos = TRUE, !.answer = FALSE] \in RequestState
  BY DEF RequestState
<1>4. [q EXCEPT !.pc = "lookup", !.kratos = TRUE, !.tries = 0, !.id = x,
                !.answer = FALSE, !.askedAt = 0] =
      [[q EXCEPT !.pc = "lookup", !.tries = 0, !.id = x, !.askedAt = 0]
         EXCEPT !.kratos = TRUE, !.answer = FALSE]
  BY DEF RequestState
<1>5. [q EXCEPT !.pc = "lookup", !.kratos = TRUE, !.tries = 0, !.id = x,
                !.answer = FALSE, !.askedAt = 0] \in RequestState
  BY <1>2, <1>3, <1>4
<1> QED
  BY <1>5 DEF RequestState

\* Kratos' answer, cached or fetched: an active session had not ended when the request
\* came.
LEMMA AfterWhoamiStep ==
  ASSUME AuthnInv, NEW r \in Request, req[r].pc \in Asking, NEW active \in BOOLEAN,
         AfterWhoami(r, active), active => req[r].call.session \notin req[r].late,
         UNCHANGED <<config, now, endedAt, users, removedAt>>, CachesInv'
  PROVE  AuthnInv' /\ AllAdmitted
<1>0. PICK c \in Call : c = req[r].call
  BY DEF AuthnInv, RequestState
<1>1. /\ req \in [Request -> RequestState] /\ Founded(r) /\ Timely(r) /\ WorldInv
  BY DEF AuthnInv
<1>2. c.via = "http" /\ config.kratos /\ c.session \in Session
  BY <1>0, <1>1 DEF Founded
<1>3. CASE ~active
  <2>1. Continue(r, byToken(c))
    BY <1>0, <1>3 DEF AfterWhoami
  <2>2. \A o \in byToken(c) : Proper(c, None, o)
    BY <1>1, <1>2, ByTokenProper
  <2> QED
    BY <1>0, <2>1, <2>2, NoneExpires, ContinueStep
<1>4. CASE active
  <2>1. PICK x \in ExternalId : x = IdentityOf[c.session]
    BY <1>2, AuthnAssumption
  <2> DEFINE a == [req[r] EXCEPT !.pc = "lookup", !.kratos = TRUE, !.tries = 0, !.id = x,
                                 !.answer = FALSE, !.askedAt = 0]
  <2>2. req' = [req EXCEPT ![r] = a]
    BY <1>0, <1>1, <1>4, <2>1 DEF AfterWhoami
  <2>3. /\ a \in RequestState /\ a.pc = "lookup" /\ a.kratos = TRUE /\ a.id = x
        /\ a.call = req[r].call /\ a.late = req[r].late
    BY <1>1, AcceptedType
  <2> HIDE DEF a
  <2>4. /\ req' \in [Request -> RequestState] /\ \A q \in Request \ {r} : req'[q] = req[q]
        /\ req'[r].pc = "lookup" /\ req'[r].kratos = TRUE /\ req'[r].id = x
        /\ req'[r].call = c /\ req'[r].late = req[r].late
    BY <1>0, <1>1, <2>2, <2>3
  <2>5. Founded(r)'
    BY <1>2, <2>1, <2>4 DEF Founded, Asking, Looking, ForSession
  <2>6. Timely(r)'
    BY <1>0, <1>1, <1>4, <2>4 DEF Timely, EndedLongAgo, RemovedLongAgo
  <2> QED
    BY <2>4, <2>5, <2>6, RequestStep DEF Admits
<1> QED
  BY <1>3, <1>4

\* Whoever comes long after the end of a session is late.
LEMMA LateSession ==
  ASSUME AuthnInv, NEW r \in Request, NEW s \in Session, s \in req[r].late
  PROVE  endedAt[s] \in Nat /\ now > endedAt[s] + MaxDelay + SessionTTL
<1>1. s \in EndedLongAgo
  <2>1. s \notin ExternalId
    BY AuthnAssumption
  <2> QED
    BY <2>1 DEF AuthnInv, Timely, RemovedLongAgo
<1>2. endedAt[s] \in Nat /\ now \in Nat /\ MaxDelay \in Nat /\ SessionTTL \in Nat
  BY <1>1, AuthnNumbers DEF EndedLongAgo, AuthnInv, WorldInv
<1> QED
  BY <1>1, <1>2 DEF EndedLongAgo

LEMMA LateSubject ==
  ASSUME AuthnInv, NEW r \in Request, NEW x \in ExternalId, x \in req[r].late
  PROVE  removedAt[x] \in Nat /\ now > removedAt[x] + MaxDelay + SubjectTTL
<1>1. x \in RemovedLongAgo
  <2>1. x \notin Session
    BY AuthnAssumption
  <2> QED
    BY <2>1 DEF AuthnInv, Timely, EndedLongAgo
<1>2. removedAt[x] \in Nat /\ now \in Nat /\ MaxDelay \in Nat /\ SubjectTTL \in Nat
  BY <1>1, AuthnNumbers DEF RemovedLongAgo, AuthnInv, WorldInv
<1> QED
  BY <1>1, <1>2 DEF RemovedLongAgo

LEMMA WhoamiStep ==
  ASSUME AuthnInv, NEW r \in Request, Whoami(r)
  PROVE  AuthnInv' /\ AllAdmitted
<1>0. PICK s : s = req[r].call.session
  OBVIOUS
<1>1. /\ req[r].pc = "whoami" /\ UNCHANGED <<config, now, subjVars, extVars>> /\ Sess!Get(s)
      /\ CachesInv /\ WorldInv /\ Founded(r)
  BY <1>0 DEF Whoami, At, AuthnInv
<1>2. UNCHANGED <<endedAt, users, removedAt, subjItems, subjOrder, subjGen>>
  BY <1>1 DEF extVars, subjVars
<1>3. s \in Session /\ req[r].call.via = "http" /\ config.kratos
  BY <1>0, <1>1 DEF Founded, Asking
<1>4. CachesInv'
  <2>1. SessP!Table(BOOLEAN)' /\ SessP!Shrinks /\ sessGen' = sessGen
    BY <1>1, SessGet DEF CachesInv
  <2>2. SessionsExpire'
    BY <1>1, <1>2, <2>1 DEF CachesInv, SessionsExpire, SessP!Shrinks
  <2>3. SubjectsExpire' /\ SubjP!Table(Principal)'
    BY <1>1, <1>2 DEF CachesInv, SubjectsExpire, SubjP!Table, SubjP!ListMatchesMap
  <2> QED
    BY <1>1, <1>2, <2>1, <2>2, <2>3 DEF CachesInv
<1>5. CASE Sess!Live(s) /\ AfterWhoami(r, sessItems[s].value)
  <2>1. PICK active : active = sessItems[s].value
    OBVIOUS
  <2>2. /\ s \in DOMAIN sessItems /\ ~(now > sessItems[s].expiresAt)
        /\ sessItems[s].expiresAt \in Nat /\ active \in BOOLEAN
    BY <1>1, <1>5, <2>1 DEF Sess!Live, CachesInv, SessP!Table, SessP!Entry
  <2>3. active => s \notin req[r].late
    <3>1. SUFFICES ASSUME active, s \in req[r].late PROVE FALSE
      OBVIOUS
    <3>2. /\ endedAt[s] \in Nat /\ now > endedAt[s] + MaxDelay + SessionTTL
          /\ endedAt[s] # None
      BY <1>3, <3>1, LateSession, AuthnAssumption
    <3>3. sessItems[s].expiresAt <= endedAt[s] + MaxDelay + SessionTTL
      BY <1>1, <2>1, <2>2, <3>1, <3>2 DEF CachesInv, SessionsExpire
    <3> QED
      BY <1>1, <2>2, <3>2, <3>3, AuthnNumbers DEF WorldInv
  <2> QED
    BY <1>0, <1>1, <1>2, <1>4, <1>5, <2>1, <2>2, <2>3, AfterWhoamiStep DEF Asking
<1>6. CASE req' = [req EXCEPT ![r].pc = "kratos"]
  BY <1>0, <1>1, <1>2, <1>3, <1>4, <1>6, PhaseStep DEF Looking
<1> QED
  BY <1>0, <1>5, <1>6 DEF Whoami

LEMMA AnsweredType ==
  ASSUME NEW q \in RequestState, NEW active \in BOOLEAN, NEW n \in Nat
  PROVE  [q EXCEPT !.pc = "keep", !.answer = active, !.askedAt = n] \in RequestState
  BY DEF RequestState

LEMMA FetchSessionStep ==
  ASSUME AuthnInv, NEW r \in Request, FetchSession(r)
  PROVE  AuthnInv' /\ AllAdmitted
<1>0. PICK s : s = req[r].call.session
  OBVIOUS
<1>1. /\ req[r].pc = "kratos" /\ UNCHANGED <<config, now, sessVars, subjVars, extVars>>
      /\ req \in [Request -> RequestState] /\ WorldInv /\ Founded(r) /\ Timely(r)
  BY DEF FetchSession, At, AuthnInv
<1>2. UNCHANGED <<endedAt, users, removedAt>> /\ CachesInv'
  BY <1>1, SameCaches DEF extVars, AuthnInv
<1>3. PICK active \in BOOLEAN :
        /\ active => endedAt[s] = None
        /\ req' = [req EXCEPT ![r].pc = "keep", ![r].answer = active, ![r].askedAt = now]
  BY <1>0 DEF FetchSession
<1>4. active \in BOOLEAN /\ (active => endedAt[s] = None)
  BY <1>3
<1>5. [req[r] EXCEPT !.pc = "keep", !.answer = active, !.askedAt = now] \in RequestState
  BY <1>1, <1>4, AnsweredType DEF WorldInv
<1>6. /\ req' \in [Request -> RequestState] /\ \A q \in Request \ {r} : req'[q] = req[q]
  <2>1. req' = [req EXCEPT ![r] =
                  [req[r] EXCEPT !.pc = "keep", !.answer = active, !.askedAt = now]]
    BY <1>1, <1>3
  <2> QED
    BY <1>1, <1>5, <2>1
<1>7. /\ req'[r].pc = "keep" /\ req'[r].answer = active /\ req'[r].askedAt = now
      /\ req'[r].call = req[r].call /\ req'[r].late = req[r].late
  BY <1>1, <1>3 DEF RequestState
<1>8. Founded(r)'
  BY <1>1, <1>7 DEF Founded, Asking, Looking
<1>9. Timely(r)'
  <2>1. now <= now + MaxDelay /\ now <= now
    BY <1>1, AuthnNumbers DEF WorldInv
  <2> QED
    BY <1>0, <1>1, <1>2, <1>4, <1>7, <2>1 DEF Timely, Looking, EndedLongAgo, RemovedLongAgo
<1> QED
  BY <1>1, <1>2, <1>6, <1>7, <1>8, <1>9, RequestStep DEF Admits

LEMMA KeepSessionStep ==
  ASSUME AuthnInv, NEW r \in Request, KeepSession(r)
  PROVE  AuthnInv' /\ AllAdmitted
<1>0. PICK s, active : s = req[r].call.session /\ active = req[r].answer
  OBVIOUS
<1> DEFINE ttl == IF active THEN SessionTTL ELSE NegativeTTL
<1>1. /\ req[r].pc = "keep" /\ UNCHANGED <<config, now, subjVars, extVars>>
      /\ Sess!PutWithTTL(s, active, ttl) /\ AfterWhoami(r, active)
      /\ CachesInv /\ WorldInv /\ Founded(r) /\ Timely(r)
      /\ req \in [Request -> RequestState]
  BY <1>0 DEF KeepSession, At, AuthnInv
<1>2. UNCHANGED <<endedAt, users, removedAt, subjItems, subjOrder, subjGen>>
  BY <1>1 DEF extVars, subjVars
<1>3. /\ s \in Session /\ active \in BOOLEAN /\ now \in Nat /\ req[r].askedAt \in Nat
      /\ endedAt[s] # None => endedAt[s] \in Nat
  BY <1>0, <1>1 DEF Founded, Asking, RequestState, WorldInv
<1>4. /\ active => endedAt[s] = None \/ now <= endedAt[s] + MaxDelay
      /\ SessionTTL \in Nat /\ MaxDelay \in Nat
  BY <1>0, <1>1, <1>3, AuthnNumbers DEF Timely
<1>5. ttl \in Nat \ {0} /\ (active => ttl = SessionTTL)
  BY AuthnNumbers
<1> HIDE DEF ttl
<1>6. /\ SessP!Table(BOOLEAN)' /\ sessGen' = sessGen
      /\ SessP!Stores(s, [value |-> active, expiresAt |-> now + ttl])
  BY <1>1, <1>3, <1>5, SessPut DEF CachesInv
<1>7. SessionsExpire'
  <2>1. ASSUME NEW k \in DOMAIN sessItems'
        PROVE  sessItems'[k].value = FALSE \/
                 /\ sessItems'[k].expiresAt <= now + SessionTTL
                 /\ endedAt[k] # None =>
                      sessItems'[k].expiresAt <= endedAt[k] + MaxDelay + SessionTTL
    <3>1. CASE k \in DOMAIN sessItems /\ sessItems'[k] = sessItems[k]
      BY <1>1, <3>1 DEF CachesInv, SessionsExpire
    <3>2. CASE k = s /\ sessItems'[k] = [value |-> active, expiresAt |-> now + ttl]
      <4>1. sessItems'[k].value = active /\ sessItems'[k].expiresAt = now + ttl
        BY <3>2
      <4>2. CASE active = FALSE
        BY <4>1, <4>2
      <4>3. CASE active = TRUE
        BY <1>3, <1>4, <1>5, <3>2, <4>1, <4>3
      <4> QED
        BY <1>3, <4>2, <4>3
    <3> QED
      BY <1>6, <3>1, <3>2 DEF SessP!Stores
  <2> QED
    BY <1>1, <1>2, <2>1 DEF SessionsExpire
<1>8. CachesInv'
  <2>1. SubjectsExpire' /\ SubjP!Table(Principal)'
    BY <1>1, <1>2 DEF CachesInv, SubjectsExpire, SubjP!Table, SubjP!ListMatchesMap
  <2> QED
    BY <1>1, <1>2, <1>6, <1>7, <2>1 DEF CachesInv
<1>9. active => s \notin req[r].late
  <2>1. SUFFICES ASSUME active, s \in req[r].late PROVE FALSE
    OBVIOUS
  <2>2. endedAt[s] \in Nat /\ now > endedAt[s] + MaxDelay + SessionTTL
    BY <1>3, <2>1, LateSession
  <2> QED
    BY <1>3, <1>4, <2>1, <2>2, AuthnAssumption
<1> QED
  BY <1>0, <1>1, <1>2, <1>3, <1>8, <1>9, AfterWhoamiStep DEF Asking

\* The user of the external id looked up is one that the request establishes.
LEMMA FoundedMirror ==
  ASSUME NEW r \in Request, Founded(r), req[r].pc \in Looking, NEW x, x = req[r].id
  PROVE  Mirror(x) \in Established(req[r].call)
<1>1. CASE req[r].kratos
  <2>1. ForSession(req[r].call, x) /\ req[r].call.session # None
    BY <1>1, AuthnAssumption DEF Founded, ForSession
  <2> QED
    BY <2>1 DEF ForSession, Established
<1>2. CASE ~req[r].kratos
  BY <1>2 DEF Founded, ForToken, Established
<1> QED
  BY <1>1, <1>2

\* The lookup found the user of the id.
LEMMA ResolvedProper ==
  ASSUME AuthnInv, NEW r \in Request, req[r].pc \in Looking, NEW x, x = req[r].id,
         NEW o \in Resolved(r, Mirror(x))
  PROVE  Proper(req[r].call, Mirror(x), o)
<1>0. PICK c \in Call : c = req[r].call
  BY DEF AuthnInv, RequestState
<1>1. /\ Founded(r) /\ WorldInv /\ x \in ExternalId /\ Mirror(x) \in Principal
  BY Principals DEF AuthnInv, Founded
<1>2. Mirror(x) \in Established(c)
  BY <1>0, <1>1, FoundedMirror
<1>3. CASE c.via = "http"
  <2>1. o \in PassGate(c, Mirror(x))
    BY <1>0, <1>3 DEF Resolved
  <2> QED
    BY <1>0, <1>1, <1>2, <1>3, <2>1, PassGateProper
<1>4. CASE c.via # "http"
  <2>1. o = Serve(Mirror(x))
    BY <1>0, <1>4 DEF Resolved
  <2>2. ForToken(c, x) /\ c.via = "grpc"
    BY <1>0, <1>1, <1>4, CallFields DEF Founded, ForSession
  <2>3. Rightful(c, Mirror(x))
    BY <1>2, <2>2 DEF Rightful, ForToken, TokenCounts
  <2> QED
    BY <1>0, <1>1, <2>1, <2>3, OutcomeFields DEF Proper
<1> QED
  BY <1>3, <1>4

\* The lookup found nobody.
LEMMA NotResolvedProper ==
  ASSUME AuthnInv, NEW r \in Request, req[r].pc \in Looking, NEW o \in NotResolved(r)
  PROVE  Proper(req[r].call, None, o)
<1>0. PICK c \in Call : c = req[r].call
  BY DEF AuthnInv, RequestState
<1>1. Founded(r) /\ WorldInv
  BY DEF AuthnInv
<1>2. CASE req[r].kratos
  <2>1. o \in byToken(c)
    BY <1>0, <1>2, Zenon DEF NotResolved
  <2>2. c.via = "http"
    BY <1>0, <1>1, <1>2 DEF Founded, ForSession
  <2> QED
    BY <1>0, <1>1, <2>1, <2>2, ByTokenProper
<1>3. CASE ~req[r].kratos /\ c.via = "http"
  <2>1. o \in PassGate(c, None)
    BY <1>0, <1>3, Zenon DEF NotResolved, Stripped
  <2> QED
    BY <1>0, <1>1, <1>3, <2>1, PassGateProper
<1>4. CASE ~req[r].kratos /\ c.via # "http"
  <2>1. o = IF config.mode = "dev" THEN Serve(Anonymous) ELSE Refuse
    BY <1>0, <1>4, Zenon DEF NotResolved
  <2>2. ForToken(c, req[r].id) /\ c.via = "grpc"
    BY <1>0, <1>1, <1>4, CallFields DEF Founded
  <2>3. Rightful(c, Anonymous)
    BY <2>2 DEF Rightful, ForToken, TokenCounts
  <2> QED
    BY <1>0, <2>1, <2>3, OutcomeFields, Principals, NoneIsNoMirror DEF Proper
<1> QED
  BY <1>2, <1>3, <1>4

LEMMA LookUpSubjectStep ==
  ASSUME AuthnInv, NEW r \in Request, LookUpSubject(r)
  PROVE  AuthnInv' /\ AllAdmitted
<1>0. PICK x : x = req[r].id
  OBVIOUS
<1>1. /\ req[r].pc = "lookup" /\ req[r].pc \in Looking
      /\ UNCHANGED <<config, now, sessVars, extVars>> /\ Subj!Get(x)
      /\ CachesInv /\ WorldInv /\ Founded(r) /\ Timely(r)
  BY <1>0 DEF LookUpSubject, At, AuthnInv, Looking
<1>2. UNCHANGED <<endedAt, users, removedAt, sessItems, sessOrder, sessGen>>
  BY <1>1 DEF extVars, sessVars
<1>3. x \in ExternalId
  BY <1>0, <1>1 DEF Founded
<1>4. CachesInv'
  <2>1. SubjP!Table(Principal)' /\ SubjP!Shrinks /\ subjGen' = subjGen
    BY <1>1, SubjGet DEF CachesInv
  <2>2. SubjectsExpire'
    BY <1>1, <1>2, <2>1 DEF CachesInv, SubjectsExpire, SubjP!Shrinks
  <2>3. SessionsExpire' /\ SessP!Table(BOOLEAN)'
    BY <1>1, <1>2 DEF CachesInv, SessionsExpire, SessP!Table, SessP!ListMatchesMap
  <2> QED
    BY <1>1, <1>2, <2>1, <2>2, <2>3 DEF CachesInv
<1>5. CASE Subj!Live(x) /\ Continue(r, Resolved(r, subjItems[x].value))
  <2>1. /\ x \in DOMAIN subjItems /\ ~(now > subjItems[x].expiresAt)
        /\ subjItems[x].expiresAt \in Nat /\ subjItems[x].value = Mirror(x)
    BY <1>1, <1>5 DEF Subj!Live, CachesInv, SubjectsExpire, SubjP!Table, SubjP!Entry
  <2>2. x \notin req[r].late
    <3>1. SUFFICES ASSUME x \in req[r].late PROVE FALSE
      OBVIOUS
    <3>2. /\ removedAt[x] \in Nat /\ now > removedAt[x] + MaxDelay + SubjectTTL
          /\ removedAt[x] # None
      BY <1>3, <3>1, LateSubject, AuthnAssumption
    <3>3. subjItems[x].expiresAt <= removedAt[x] + MaxDelay + SubjectTTL
      BY <1>1, <2>1, <3>2 DEF CachesInv, SubjectsExpire
    <3> QED
      BY <1>1, <2>1, <3>2, <3>3, AuthnNumbers DEF WorldInv
  <2>3. \A o \in Resolved(r, Mirror(x)) : Proper(req[r].call, Mirror(x), o)
    BY <1>0, <1>1, ResolvedProper
  <2>4. \A y \in ExternalId : Mirror(x) = Mirror(y) =>
          /\ y \notin req[r].late
          /\ req[r].kratos => req[r].call.session \notin req[r].late
    BY <1>1, <2>2, Principals DEF Timely
  <2>5. Continue(r, Resolved(r, Mirror(x)))
    BY <1>5, <2>1
  <2> QED
    BY <1>1, <1>2, <1>4, <2>3, <2>4, <2>5, ContinueStep
<1>6. CASE req' = [req EXCEPT ![r].pc = "iam"]
  BY <1>1, <1>2, <1>4, <1>6, PhaseStep DEF Asking
<1> QED
  BY <1>0, <1>5, <1>6 DEF LookUpSubject

LEMMA LookingTypes ==
  ASSUME NEW q \in RequestState, NEW n \in Nat
  PROVE  /\ n \in 0..Retries => [q EXCEPT !.pc = "lookup", !.tries = n] \in RequestState
         /\ [q EXCEPT !.pc = "keepSubject", !.askedAt = n] \in RequestState
<1>1. n \in 0..Retries => [q EXCEPT !.pc = "lookup", !.tries = n] \in RequestState
  BY DEF RequestState
<1>2. [q EXCEPT !.pc = "keepSubject", !.askedAt = n] \in RequestState
  BY DEF RequestState
<1> QED
  BY <1>1, <1>2

\* A lookup is tried again.
LEMMA RetryStep ==
  ASSUME AuthnInv, NEW r \in Request, req[r].pc \in Looking, NEW tries \in 0..Retries,
         req' = [req EXCEPT ![r].pc = "lookup", ![r].tries = tries],
         UNCHANGED <<config, now, endedAt, users, removedAt>>, CachesInv'
  PROVE  AuthnInv' /\ AllAdmitted
<1>1. req \in [Request -> RequestState] /\ Founded(r) /\ Timely(r)
  BY DEF AuthnInv
<1>2. /\ req' \in [Request -> RequestState] /\ \A q \in Request \ {r} : req'[q] = req[q]
  <2>1. tries \in Nat /\ req[r] \in RequestState
    BY <1>1, AuthnNumbers
  <2>2. [req[r] EXCEPT !.pc = "lookup", !.tries = tries] \in RequestState
    BY <2>1, LookingTypes
  <2>3. req' = [req EXCEPT ![r] = [req[r] EXCEPT !.pc = "lookup", !.tries = tries]]
    BY <1>1
  <2> QED
    BY <1>1, <2>2, <2>3
<1>3. /\ req'[r].pc = "lookup" /\ req'[r].call = req[r].call /\ req'[r].id = req[r].id
      /\ req'[r].kratos = req[r].kratos /\ req'[r].late = req[r].late
  BY <1>1 DEF RequestState
<1>4. Founded(r)'
  BY <1>1, <1>3 DEF Founded, Asking, Looking, ForSession, ForToken, TokenCounts
<1>5. Timely(r)'
  BY <1>1, <1>3 DEF Timely, Looking, EndedLongAgo, RemovedLongAgo
<1> QED
  BY <1>2, <1>3, <1>4, <1>5, RequestStep DEF Admits

LEMMA NotResolvedStep ==
  ASSUME AuthnInv, NEW r \in Request, req[r].pc \in Looking, Continue(r, NotResolved(r)),
         UNCHANGED <<config, now, endedAt, users, removedAt>>, CachesInv'
  PROVE  AuthnInv' /\ AllAdmitted
<1>1. \A o \in NotResolved(r) : Proper(req[r].call, None, o)
  BY NotResolvedProper
<1> QED
  BY <1>1, NoneExpires, ContinueStep

LEMMA AskIAMStep ==
  ASSUME AuthnInv, NEW r \in Request, AskIAM(r)
  PROVE  AuthnInv' /\ AllAdmitted
<1>0. PICK x : x = req[r].id
  OBVIOUS
<1>1. /\ req[r].pc = "iam" /\ req[r].pc \in Looking
      /\ UNCHANGED <<config, now, sessVars, subjVars, extVars>>
      /\ req \in [Request -> RequestState] /\ WorldInv /\ Founded(r) /\ Timely(r)
      /\ now \in Nat
  BY DEF AskIAM, At, AuthnInv, Looking, WorldInv
<1>2. UNCHANGED <<endedAt, users, removedAt>> /\ CachesInv'
  BY <1>1, SameCaches DEF extVars, AuthnInv
<1>3. CASE x \in users /\ req' = [req EXCEPT ![r].pc = "keepSubject", ![r].askedAt = now]
  <2>1. /\ req' \in [Request -> RequestState] /\ \A q \in Request \ {r} : req'[q] = req[q]
    <3>1. [req[r] EXCEPT !.pc = "keepSubject", !.askedAt = now] \in RequestState
      BY <1>1, LookingTypes
    <3>2. req' = [req EXCEPT ![r] = [req[r] EXCEPT !.pc = "keepSubject", !.askedAt = now]]
      BY <1>1, <1>3
    <3> QED
      BY <1>1, <3>1, <3>2
  <2>2. /\ req'[r].pc = "keepSubject" /\ req'[r].askedAt = now /\ req'[r].call = req[r].call
        /\ req'[r].id = req[r].id /\ req'[r].kratos = req[r].kratos
        /\ req'[r].late = req[r].late
    BY <1>1, <1>3 DEF RequestState
  <2>3. Founded(r)'
    BY <1>1, <2>2 DEF Founded, Asking, Looking, ForSession, ForToken, TokenCounts
  <2>4. Timely(r)'
    <3>1. now <= now + MaxDelay /\ now <= now /\ removedAt[x] = None
      BY <1>1, <1>3, AuthnNumbers DEF WorldInv
    <3> QED
      BY <1>0, <1>1, <1>2, <2>2, <3>1 DEF Timely, EndedLongAgo, RemovedLongAgo
  <2> QED
    BY <1>1, <1>2, <2>1, <2>2, <2>3, <2>4, RequestStep DEF Admits
<1>4. CASE req' = [req EXCEPT ![r].pc = "upsert"]
  BY <1>1, <1>2, <1>4, PhaseStep DEF Asking
<1>5. CASE Continue(r, NotResolved(r))
  BY <1>1, <1>2, <1>5, NotResolvedStep
<1>6. CASE /\ req[r].tries > 1
           /\ req' = [req EXCEPT ![r].pc = "lookup", ![r].tries = @ - 1]
  <2>1. req[r].tries - 1 \in 0..Retries
    <3>1. req[r].tries \in 0..Retries
      BY <1>1 DEF RequestState
    <3> QED
      BY <1>6, <3>1, AuthnNumbers
  <2>2. req' = [req EXCEPT ![r].pc = "lookup", ![r].tries = req[r].tries - 1]
    BY <1>1, <1>6
  <2> QED
    BY <1>1, <1>2, <2>1, <2>2, RetryStep
<1> QED
  BY <1>0, <1>3, <1>4, <1>5, <1>6 DEF AskIAM, LookupFails

LEMMA UpsertStep ==
  ASSUME AuthnInv, NEW r \in Request, Upsert(r)
  PROVE  AuthnInv' /\ AllAdmitted
<1>1. /\ req[r].pc \in Looking /\ UNCHANGED <<config, now, sessVars, subjVars, extVars>>
  BY DEF Upsert, At, Looking
<1>2. UNCHANGED <<endedAt, users, removedAt>> /\ CachesInv'
  BY <1>1, SameCaches DEF extVars, AuthnInv
<1>3. CASE req' = [req EXCEPT ![r].pc = "lookup", ![r].tries = Retries]
  <2>1. Retries \in 0..Retries
    BY AuthnNumbers
  <2> QED
    BY <1>1, <1>2, <1>3, <2>1, RetryStep
<1>4. CASE Continue(r, NotResolved(r))
  BY <1>1, <1>2, <1>4, NotResolvedStep
<1> QED
  BY <1>3, <1>4 DEF Upsert

LEMMA KeepSubjectStep ==
  ASSUME AuthnInv, NEW r \in Request, KeepSubject(r)
  PROVE  AuthnInv' /\ AllAdmitted
<1>0. PICK x : x = req[r].id
  OBVIOUS
<1>1. /\ req[r].pc = "keepSubject" /\ req[r].pc \in Looking
      /\ UNCHANGED <<config, now, sessVars, extVars>>
      /\ Subj!Put(x, Mirror(x)) /\ Continue(r, Resolved(r, Mirror(x)))
      /\ CachesInv /\ WorldInv /\ Founded(r) /\ Timely(r)
      /\ req \in [Request -> RequestState]
  BY <1>0 DEF KeepSubject, At, AuthnInv, Looking
<1>2. UNCHANGED <<endedAt, users, removedAt, sessItems, sessOrder, sessGen>>
  BY <1>1 DEF extVars, sessVars
<1>3. /\ x \in ExternalId /\ Mirror(x) \in Principal /\ now \in Nat
      /\ req[r].askedAt \in Nat
      /\ removedAt[x] # None => removedAt[x] \in Nat
      /\ SubjectTTL \in Nat /\ MaxDelay \in Nat
  BY <1>0, <1>1, Principals, AuthnNumbers DEF Founded, RequestState, WorldInv
<1>4. removedAt[x] = None \/ now <= removedAt[x] + MaxDelay
  BY <1>0, <1>1, <1>3 DEF Timely
<1>5. /\ SubjP!Table(Principal)' /\ subjGen' = subjGen
      /\ SubjP!Stores(x, [value |-> Mirror(x), expiresAt |-> now + SubjectTTL])
  BY <1>1, <1>3, SubjPut DEF CachesInv
<1>6. SubjectsExpire'
  <2>1. ASSUME NEW k \in DOMAIN subjItems'
        PROVE  /\ subjItems'[k].value = Mirror(k)
               /\ subjItems'[k].expiresAt <= now + SubjectTTL
               /\ removedAt[k] # None =>
                    subjItems'[k].expiresAt <= removedAt[k] + MaxDelay + SubjectTTL
    <3>1. CASE k \in DOMAIN subjItems /\ subjItems'[k] = subjItems[k]
      BY <1>1, <3>1 DEF CachesInv, SubjectsExpire
    <3>2. CASE k = x /\ subjItems'[k] = [value |-> Mirror(x), expiresAt |-> now + SubjectTTL]
      BY <1>3, <1>4, <3>2
    <3> QED
      BY <1>5, <3>1, <3>2 DEF SubjP!Stores
  <2> QED
    BY <1>1, <1>2, <2>1 DEF SubjectsExpire
<1>7. CachesInv'
  <2>1. SessionsExpire' /\ SessP!Table(BOOLEAN)'
    BY <1>1, <1>2 DEF CachesInv, SessionsExpire, SessP!Table, SessP!ListMatchesMap
  <2> QED
    BY <1>1, <1>2, <1>5, <1>6, <2>1 DEF CachesInv
<1>8. x \notin req[r].late
  <2>1. SUFFICES ASSUME x \in req[r].late PROVE FALSE
    OBVIOUS
  <2>2. removedAt[x] \in Nat /\ now > removedAt[x] + MaxDelay + SubjectTTL
    BY <1>3, <2>1, LateSubject
  <2> QED
    BY <1>3, <1>4, <2>2, AuthnAssumption
<1>9. \A o \in Resolved(r, Mirror(x)) : Proper(req[r].call, Mirror(x), o)
  BY <1>0, <1>1, ResolvedProper
<1>10. \A y \in ExternalId : Mirror(x) = Mirror(y) =>
         /\ y \notin req[r].late
         /\ req[r].kratos => req[r].call.session \notin req[r].late
  BY <1>1, <1>8, Principals DEF Timely
<1> QED
  BY <1>1, <1>2, <1>7, <1>9, <1>10, ContinueStep

-----------------------------------------------------------------------------
(* Kratos, IAM and time.                                                   *)

LEMMA EndSessionStep ==
  ASSUME AuthnInv, NEW s \in Session, EndSession(s)
  PROVE  AuthnInv' /\ AllAdmitted
<1>1. /\ endedAt[s] = None /\ endedAt' = [endedAt EXCEPT ![s] = now]
      /\ UNCHANGED <<config, now, sessItems, sessOrder, sessGen, subjItems, subjOrder, subjGen,
                     req, users, removedAt>>
      /\ WorldInv /\ CachesInv /\ req \in [Request -> RequestState]
      /\ now \in Nat /\ endedAt \in [Session -> Nat \cup {None}]
      /\ MaxDelay \in Nat /\ SessionTTL \in Nat /\ None \notin Nat
  BY AuthnAssumption, AuthnNumbers
  DEF EndSession, AuthnInv, WorldInv, sessVars, subjVars
<1>2. /\ endedAt' \in [Session -> Nat \cup {None}] /\ endedAt'[s] = now
      /\ \A k \in Session \ {s} : endedAt'[k] = endedAt[k]
  BY <1>1
<1>3. WorldInv'
  BY <1>1, <1>2 DEF WorldInv, Starts
<1>4. CachesInv'
  <2>1. SessionsExpire'
    <3>1. ASSUME NEW k \in DOMAIN sessItems
          PROVE  sessItems[k].value = FALSE \/
                   /\ sessItems[k].expiresAt <= now + SessionTTL
                   /\ endedAt'[k] # None =>
                        sessItems[k].expiresAt <= endedAt'[k] + MaxDelay + SessionTTL
      <4>1. k \in Session /\ sessItems[k].expiresAt \in Nat
        BY <1>1 DEF CachesInv, SessP!Table, SessP!Entry
      <4>2. CASE k = s
        BY <1>1, <1>2, <4>1, <4>2 DEF CachesInv, SessionsExpire
      <4>3. CASE k # s
        BY <1>1, <1>2, <4>1, <4>3 DEF CachesInv, SessionsExpire
      <4> QED
        BY <4>2, <4>3
    <3> QED
      BY <1>1, <3>1 DEF SessionsExpire
  <2>2. SubjectsExpire' /\ SubjP!Table(Principal)' /\ SessP!Table(BOOLEAN)'
    BY <1>1 DEF CachesInv, SubjectsExpire, SubjP!Table, SubjP!ListMatchesMap,
                SessP!Table, SessP!ListMatchesMap
  <2> QED
    BY <1>1, <2>1, <2>2 DEF CachesInv
<1>5. ASSUME NEW q \in Request PROVE Founded(q)' /\ Timely(q)' /\ ~Admits(q)
  <2>1. Founded(q) /\ Timely(q) /\ req[q].askedAt \in Nat
    BY <1>1 DEF AuthnInv, RequestState
  <2>2. Founded(q)' /\ ~Admits(q)
    BY <1>1, <2>1 DEF Founded, ForSession, ForToken, TokenCounts, Admits
  <2>3. EndedLongAgo \cup RemovedLongAgo \subseteq (EndedLongAgo \cup RemovedLongAgo)'
    BY <1>1, <1>2 DEF EndedLongAgo, RemovedLongAgo
  <2>4. req[q].pc = "keep" => req[q].call.session \in Session
    BY <2>1 DEF Founded, Asking
  <2>5. req[q].pc = "keep" /\ req[q].answer =>
          \/ endedAt'[req[q].call.session] = None
          \/ req[q].askedAt <= endedAt'[req[q].call.session]
    <3>1. CASE req[q].call.session = s
      BY <1>1, <1>2, <2>1, <3>1 DEF Timely
    <3>2. CASE req[q].call.session # s
      BY <1>2, <2>1, <2>4, <3>2 DEF Timely
    <3> QED
      BY <3>1, <3>2
  <2>6. Timely(q)'
    BY <1>1, <2>1, <2>3, <2>5 DEF Timely
  <2> QED
    BY <2>2, <2>6
<1> QED
  BY <1>1, <1>3, <1>4, <1>5 DEF AuthnInv, AllAdmitted

LEMMA RemoveUserStep ==
  ASSUME AuthnInv, NEW x \in ExternalId, RemoveUser(x)
  PROVE  AuthnInv' /\ AllAdmitted
<1>1. /\ removedAt[x] = None /\ removedAt' = [removedAt EXCEPT ![x] = now]
      /\ users' = users \ {x}
      /\ UNCHANGED <<config, now, sessItems, sessOrder, sessGen, subjItems, subjOrder, subjGen,
                     req, endedAt>>
      /\ WorldInv /\ CachesInv /\ req \in [Request -> RequestState]
      /\ now \in Nat /\ removedAt \in [ExternalId -> Nat \cup {None}]
      /\ MaxDelay \in Nat /\ SubjectTTL \in Nat /\ None \notin Nat
  BY AuthnAssumption, AuthnNumbers
  DEF RemoveUser, AuthnInv, WorldInv, sessVars, subjVars
<1>2. /\ removedAt' \in [ExternalId -> Nat \cup {None}] /\ removedAt'[x] = now
      /\ \A k \in ExternalId \ {x} : removedAt'[k] = removedAt[k]
  BY <1>1
<1>3. WorldInv'
  BY <1>1, <1>2 DEF WorldInv, Starts
<1>4. CachesInv'
  <2>1. SubjectsExpire'
    <3>1. ASSUME NEW k \in DOMAIN subjItems
          PROVE  removedAt'[k] # None =>
                   subjItems[k].expiresAt <= removedAt'[k] + MaxDelay + SubjectTTL
      <4>1. k \in ExternalId /\ subjItems[k].expiresAt \in Nat
        BY <1>1 DEF CachesInv, SubjP!Table, SubjP!Entry
      <4>2. CASE k = x
        BY <1>1, <1>2, <4>1, <4>2 DEF CachesInv, SubjectsExpire
      <4>3. CASE k # x
        BY <1>1, <1>2, <4>1, <4>3 DEF CachesInv, SubjectsExpire
      <4> QED
        BY <4>2, <4>3
    <3> QED
      BY <1>1, <3>1 DEF CachesInv, SubjectsExpire
  <2>2. SessionsExpire' /\ SubjP!Table(Principal)' /\ SessP!Table(BOOLEAN)'
    BY <1>1 DEF CachesInv, SessionsExpire, SubjP!Table, SubjP!ListMatchesMap,
                SessP!Table, SessP!ListMatchesMap
  <2> QED
    BY <1>1, <2>1, <2>2 DEF CachesInv
<1>5. ASSUME NEW q \in Request PROVE Founded(q)' /\ Timely(q)' /\ ~Admits(q)
  <2>1. Founded(q) /\ Timely(q) /\ req[q].askedAt \in Nat
    BY <1>1 DEF AuthnInv, RequestState
  <2>2. Founded(q)' /\ ~Admits(q)
    BY <1>1, <2>1 DEF Founded, ForSession, ForToken, TokenCounts, Admits
  <2>3. EndedLongAgo \cup RemovedLongAgo \subseteq (EndedLongAgo \cup RemovedLongAgo)'
    BY <1>1, <1>2 DEF EndedLongAgo, RemovedLongAgo
  <2>4. req[q].pc = "keepSubject" => req[q].id \in ExternalId
    BY <2>1 DEF Founded, Looking
  <2>5. req[q].pc = "keepSubject" =>
          removedAt'[req[q].id] = None \/ req[q].askedAt <= removedAt'[req[q].id]
    <3>1. CASE req[q].id = x
      BY <1>1, <1>2, <2>1, <3>1 DEF Timely
    <3>2. CASE req[q].id # x
      BY <1>2, <2>1, <2>4, <3>2 DEF Timely
    <3> QED
      BY <3>1, <3>2
  <2>6. Timely(q)'
    BY <1>1, <2>1, <2>3, <2>5 DEF Timely
  <2> QED
    BY <2>2, <2>6
<1> QED
  BY <1>1, <1>3, <1>4, <1>5 DEF AuthnInv, AllAdmitted

LEMMA ForgiveType ==
  ASSUME NEW q \in RequestState, NEW x
  PROVE  /\ [q EXCEPT !.late = q.late \ {x}] \in RequestState
         /\ [q EXCEPT !.late = q.late \ {x}].late = q.late \ {x}
<1>1. [q EXCEPT !.late = q.late \ {x}] \in RequestState
  BY DEF RequestState
<1> QED
  BY DEF RequestState

LEMMA CreateUserStep ==
  ASSUME AuthnInv, NEW x \in ExternalId, CreateUser(x)
  PROVE  AuthnInv' /\ AllAdmitted
<1>1. /\ removedAt' = [removedAt EXCEPT ![x] = None] /\ users' = users \cup {x}
      /\ req' = [r \in Request |-> [req[r] EXCEPT !.late = req[r].late \ {x}]]
      /\ UNCHANGED <<config, now, sessItems, sessOrder, sessGen, subjItems, subjOrder, subjGen,
                     endedAt>>
      /\ WorldInv /\ CachesInv /\ req \in [Request -> RequestState]
      /\ removedAt \in [ExternalId -> Nat \cup {None}]
  BY DEF CreateUser, AuthnInv, WorldInv, sessVars, subjVars
<1>2. /\ removedAt' \in [ExternalId -> Nat \cup {None}] /\ removedAt'[x] = None
      /\ \A k \in ExternalId \ {x} : removedAt'[k] = removedAt[k]
  BY <1>1
<1>3. WorldInv'
  BY <1>1, <1>2 DEF WorldInv, Starts
<1>4. CachesInv'
  <2>1. SubjectsExpire'
    <3>1. ASSUME NEW k \in DOMAIN subjItems
          PROVE  removedAt'[k] # None => removedAt'[k] = removedAt[k]
      BY <1>1, <1>2 DEF CachesInv, SubjP!Table
    <3> QED
      BY <1>1, <3>1 DEF CachesInv, SubjectsExpire
  <2>2. SessionsExpire' /\ SubjP!Table(Principal)' /\ SessP!Table(BOOLEAN)'
    BY <1>1 DEF CachesInv, SessionsExpire, SubjP!Table, SubjP!ListMatchesMap,
                SessP!Table, SessP!ListMatchesMap
  <2> QED
    BY <1>1, <2>1, <2>2 DEF CachesInv
<1>5. ASSUME NEW q \in Request PROVE req'[q] \in RequestState
  BY <1>1, ForgiveType
<1>6. req' \in [Request -> RequestState]
  BY <1>1, <1>5
<1>7. ASSUME NEW q \in Request PROVE Founded(q)' /\ Timely(q)' /\ ~Admits(q)
  <2>1. Founded(q) /\ Timely(q) /\ req[q] \in RequestState
    BY <1>1 DEF AuthnInv
  <2>2. req'[q] = [req[q] EXCEPT !.late = req[q].late \ {x}]
    BY <1>1
  <2>3. /\ req'[q].pc = req[q].pc /\ req'[q].call = req[q].call /\ req'[q].id = req[q].id
        /\ req'[q].kratos = req[q].kratos /\ req'[q].answer = req[q].answer
        /\ req'[q].askedAt = req[q].askedAt
    BY <2>1, <2>2 DEF RequestState
  <2>4. req'[q].late = req[q].late \ {x}
    BY <2>1, <2>2, ForgiveType
  <2>5. Founded(q)' /\ ~Admits(q)
    BY <1>1, <2>1, <2>3 DEF Founded, ForSession, ForToken, TokenCounts, Admits
  <2>6. (EndedLongAgo \cup RemovedLongAgo) \ {x} \subseteq (EndedLongAgo \cup RemovedLongAgo)'
    BY <1>1, <1>2 DEF EndedLongAgo, RemovedLongAgo
  <2>7. req[q].pc = "keepSubject" => req[q].id \in ExternalId
    BY <2>1 DEF Founded, Looking
  <2>8. req[q].pc = "keepSubject" =>
          removedAt'[req[q].id] = None \/ req[q].askedAt <= removedAt'[req[q].id]
    BY <1>2, <2>1, <2>7 DEF Timely
  <2>9. Timely(q)'
    BY <1>1, <2>1, <2>3, <2>4, <2>6, <2>8 DEF Timely
  <2> QED
    BY <2>5, <2>9
<1> QED
  BY <1>3, <1>4, <1>6, <1>7 DEF AuthnInv, AllAdmitted

LEMMA TickStep ==
  ASSUME AuthnInv, Tick
  PROVE  AuthnInv' /\ AllAdmitted
<1>1. /\ now' = now + 1
      /\ UNCHANGED <<config, sessItems, sessOrder, sessGen, subjItems, subjOrder, subjGen,
                     req, endedAt, users, removedAt>>
      /\ WorldInv /\ CachesInv /\ req \in [Request -> RequestState] /\ now \in Nat
      /\ endedAt \in [Session -> Nat \cup {None}]
      /\ removedAt \in [ExternalId -> Nat \cup {None}]
      /\ MaxDelay \in Nat /\ SessionTTL \in Nat /\ SubjectTTL \in Nat
  BY AuthnNumbers DEF Tick, AuthnInv, WorldInv, sessVars, subjVars, extVars
<1>2. WorldInv'
  BY <1>1 DEF WorldInv, Starts
<1>3. CachesInv'
  <2>1. ASSUME NEW s \in DOMAIN sessItems
        PROVE  sessItems[s].expiresAt <= now + SessionTTL =>
               sessItems[s].expiresAt <= now' + SessionTTL
    <3>1. sessItems[s].expiresAt \in Nat
      BY <1>1 DEF CachesInv, SessP!Table, SessP!Entry
    <3> QED BY <1>1, <3>1
  <2>2. ASSUME NEW x \in DOMAIN subjItems
        PROVE  subjItems[x].expiresAt <= now + SubjectTTL =>
               subjItems[x].expiresAt <= now' + SubjectTTL
    <3>1. subjItems[x].expiresAt \in Nat
      BY <1>1 DEF CachesInv, SubjP!Table, SubjP!Entry
    <3> QED BY <1>1, <3>1
  <2>3. SessionsExpire'
    BY <1>1, <2>1 DEF CachesInv, SessionsExpire
  <2>4. SubjectsExpire'
    BY <1>1, <2>2 DEF CachesInv, SubjectsExpire
  <2>5. SubjP!Table(Principal)' /\ SessP!Table(BOOLEAN)'
    BY <1>1 DEF CachesInv, SubjP!Table, SubjP!ListMatchesMap,
                SessP!Table, SessP!ListMatchesMap
  <2> QED
    BY <1>1, <2>3, <2>4, <2>5 DEF CachesInv
<1>4. ASSUME NEW q \in Request PROVE Founded(q)' /\ Timely(q)' /\ ~Admits(q)
  <2>1. Founded(q) /\ Timely(q) /\ req[q].askedAt \in Nat
    BY <1>1 DEF AuthnInv, RequestState
  <2>2. Founded(q)' /\ ~Admits(q)
    BY <1>1, <2>1 DEF Founded, ForSession, ForToken, TokenCounts, Admits
  <2>3. EndedLongAgo \cup RemovedLongAgo \subseteq (EndedLongAgo \cup RemovedLongAgo)'
    <3>1. \A s \in EndedLongAgo : endedAt[s] \in Nat
      BY <1>1 DEF EndedLongAgo
    <3>2. \A x \in RemovedLongAgo : removedAt[x] \in Nat
      BY <1>1 DEF RemovedLongAgo
    <3> QED
      BY <1>1, <3>1, <3>2 DEF EndedLongAgo, RemovedLongAgo
  <2>4. req[q].pc \in {"keep", "keepSubject"} =>
          req[q].askedAt <= now' /\ now' <= req[q].askedAt + MaxDelay
    <3>1. req[q].pc \in {"keep", "keepSubject"} => now < req[q].askedAt + MaxDelay
      BY DEF Tick
    <3> QED
      BY <1>1, <2>1, <3>1 DEF Timely
  <2>5. Timely(q)'
    BY <1>1, <2>1, <2>3, <2>4 DEF Timely
  <2> QED
    BY <2>2, <2>5
<1> QED
  BY <1>1, <1>2, <1>3, <1>4 DEF AuthnInv, AllAdmitted

LEMMA StutterStep ==
  ASSUME AuthnInv, UNCHANGED vars
  PROVE  AuthnInv' /\ AllAdmitted
<1>1. UNCHANGED <<config, now, sessVars, subjVars, req, endedAt, users, removedAt>>
  BY DEF vars, sessVars, subjVars
<1>2. \A q \in Request : Founded(q)' /\ Timely(q)' /\ ~Admits(q)
  BY <1>1, OtherRequest DEF AuthnInv
<1>3. WorldInv'
  BY <1>1 DEF AuthnInv, WorldInv, Starts
<1>4. CachesInv'
  BY <1>1, SameCaches DEF AuthnInv
<1> QED
  BY <1>1, <1>2, <1>3, <1>4 DEF AuthnInv, AllAdmitted

-----------------------------------------------------------------------------
(* The specification.                                                      *)

LEMMA AuthnInit == Init => AuthnInv
<1> SUFFICES ASSUME Init PROVE AuthnInv
  OBVIOUS
<1>1. WorldInv
  BY AuthnAssumption DEF Init, WorldInv
<1>2. SessP!Table(BOOLEAN) /\ SubjP!Table(Principal)
  <2>1. SessP!CacheInit /\ SubjP!CacheInit
    BY DEF Init, SessP!CacheInit, SubjP!CacheInit
  <2> QED
    BY <2>1, CacheAssumptions, SessP!EmptyTable, SubjP!EmptyTable
<1>3. CachesInv
  BY <1>2 DEF Init, CachesInv, SessionsExpire, SubjectsExpire
<1>4. req \in [Request -> RequestState]
  BY OutType DEF Init
<1>5. ASSUME NEW r \in Request PROVE Founded(r) /\ Timely(r)
  <2>1. req[r].pc = "out" /\ req[r].late = {}
    BY OutType DEF Init
  <2> QED
    BY <2>1 DEF Founded, Timely, Asking, Looking
<1> QED
  BY <1>1, <1>3, <1>4, <1>5 DEF AuthnInv

LEMMA AuthnNext ==
  ASSUME AuthnInv, [Next]_vars
  PROVE  AuthnInv' /\ AllAdmitted
<1>1. ASSUME NEW r \in Request, NEW c \in Call, Arrive(r, c) PROVE AuthnInv' /\ AllAdmitted
  BY <1>1, ArriveStep
<1>2. ASSUME NEW r \in Request, Authenticate(r) \/ Whoami(r) \/ FetchSession(r) \/ KeepSession(r)
      PROVE  AuthnInv' /\ AllAdmitted
  BY <1>2, AuthenticateStep, WhoamiStep, FetchSessionStep, KeepSessionStep
<1>3. ASSUME NEW r \in Request, LookUpSubject(r) \/ AskIAM(r) \/ KeepSubject(r) \/ Upsert(r)
      PROVE  AuthnInv' /\ AllAdmitted
  BY <1>3, LookUpSubjectStep, AskIAMStep, KeepSubjectStep, UpsertStep
<1>4. ASSUME NEW s \in Session, EndSession(s) PROVE AuthnInv' /\ AllAdmitted
  BY <1>4, EndSessionStep
<1>5. ASSUME NEW x \in ExternalId, CreateUser(x) \/ RemoveUser(x)
      PROVE  AuthnInv' /\ AllAdmitted
  BY <1>5, CreateUserStep, RemoveUserStep
<1>6. CASE Tick
  BY <1>6, TickStep
<1>7. CASE UNCHANGED vars
  BY <1>7, StutterStep
<1> QED
  BY <1>1, <1>2, <1>3, <1>4, <1>5, <1>6, <1>7 DEF Next

LEMMA AuthnTypes == AuthnInv => TypeOK
  BY DEF AuthnInv, WorldInv, CachesInv, TypeOK, Sess!CacheTypeOK, Subj!CacheTypeOK,
         Sess!Entry, Subj!Entry, SessP!Table, SubjP!Table, SessP!Entry, SubjP!Entry

\* The inductive invariant of the authentication chain (auth.go, with the whoami and the
\* subject cache).
THEOREM AuthnInvariant == Spec => []AuthnInv
<1>1. AuthnInv /\ [Next]_vars => AuthnInv'
  BY AuthnNext
<1> QED
  BY <1>1, AuthnInit, PTL DEF Spec

\* Whoever is handed to authorization is established by the credentials of this very
\* request, and a failed token is never downgraded.
THEOREM IdentitiesAreEstablished == Spec => IdentityIsEstablished
<1> DEFINE Right(r) ==
      Admits(r) =>
        LET c == req[r].call
            p == req'[r].principal
            certified == c.via = "grpc" /\ config.mtls /\ c.cert # None
            presented == c.token # None
                           /\ (c.via = "http" \/ c.scheme \in {"Bearer", "bearer"})
        IN  /\ p \in {None, Anonymous} \cup Established(c)
            /\ (c.via = "grpc" \/ config.gate) /\ ~certified =>
                 /\ presented => TokenCounts(c)
                 /\ Strict => presented
<1>1. AuthnInv /\ [Next]_vars => [TypeOK' /\ \A r \in Request : Right(r)]_vars
  <2> SUFFICES ASSUME AuthnInv, [Next]_vars PROVE TypeOK' /\ \A r \in Request : Right(r)
    OBVIOUS
  <2>1. (AuthnInv => TypeOK)'
    BY AuthnTypes, PTL
  <2>2. AuthnInv' /\ AllAdmitted
    BY AuthnNext
  <2> QED
    BY <2>1, <2>2 DEF AllAdmitted, Admitted, Rightful
<1> QED
  BY <1>1, AuthnInvariant, PTL DEF Spec, IdentityIsEstablished

\* Logged-out sessions and removed users stop working within one cache lifetime and one
\* round trip.
THEOREM EndedIdentitiesAreRefused == Spec => EndedIdentitiesExpire
<1>1. AuthnInv /\ [Next]_vars =>
        [\A r \in Request : \A x \in ExternalId :
           Admits(r) /\ req'[r].principal = Mirror(x) =>
             /\ x \notin req[r].late
             /\ req[r].kratos => req[r].call.session \notin req[r].late]_vars
  BY AuthnNext DEF AllAdmitted, Admitted
<1> QED
  BY <1>1, AuthnInvariant, PTL DEF Spec, EndedIdentitiesExpire
=============================================================================
