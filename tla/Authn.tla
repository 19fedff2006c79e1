------------------------------- MODULE Authn -------------------------------
(***************************************************************************)
(* internal/middleware/auth.go: who the caller is.  Over gRPC              *)
(* AuthInterceptor.authorize, over REST AuthInterceptor.HTTP followed by    *)
(* what the DPoP gate (when it is enabled) makes of the principal; the       *)
(* gate's other checks are SenderGate's.  Composed with the Kratos whoami    *)
(* cache (kratos_session.go) and the subject cache of iam_subject_client.go, *)
(* which concurrent requests fill without a generation guard.                *)
(*                                                                          *)
(* A principal is named by where it comes from: mirror x is the user that    *)
(* IAM keeps for the external id x, subject x the user with the raw id x.    *)
(***************************************************************************)
EXTENDS Integers, FiniteSets, Sequences

CONSTANTS
  Request,      \* requests in progress at once
  Config,       \* configurations to start from; see ConfigType
  Call,         \* what clients send; see CallType
  ExternalId,   \* Kratos identities, sub claims of tokens
  Session,      \* Kratos sessions: Cookie headers with ory_kratos_session
  IdentityOf,   \* IdentityOf[s]: the identity of a session
  HasEmail,     \* HasEmail[x]: the identity has an email trait
  SessionMax, SessionTTL, NegativeTTL,  \* the whoami cache: cap, positiveTTL, negativeTTL
  SubjectMax, SubjectTTL,               \* the subject cache
  Retries,      \* c.upsertRetries
  MaxDelay,     \* the most time between a remote answer and its storing
  None,
  MaxTime,      \* bound: the clock stops here
  MaxEnd        \* bound: sessions end and users are removed until then

Anonymous == [from |-> "anonymous", id |-> ""]
Principal == [from : {"mirror", "subject", "claims", "cert"}, id : STRING] \cup {Anonymous}
Mirror(x) == [from |-> "mirror", id |-> x]

\* alg: signed asymmetrically (by Hydra) or with an HMAC secret; good: Verify, or
\* validateJWT, finds nothing wrong; claims: the principal its claims name
\* (of an HMAC token only a service account counts).
TokenType ==
  [alg : {"hydra", "hmac"}, good : BOOLEAN, sub : ExternalId \cup {None},
   claims : [from : {"claims"}, id : STRING] \cup {None}]

\* cert: the workload that a verified client certificate names; scheme: how the token
\* is presented, "cookie" for kacho_session; forged: x-kacho-principal-* is supplied.
CallType ==
  [via : {"http", "grpc"}, cert : [from : {"cert"}, id : STRING] \cup {None},
   session : Session \cup {None}, scheme : {"Bearer", "bearer", "DPoP", "cookie"},
   token : TokenType \cup {None}, forged : BOOLEAN]

\* prod: KACHO_APP_ENV is production-class; secret: the dev secret is set.
ConfigType ==
  [mode : {"dev", "production", "production-strict"}, prod : BOOLEAN, secret : BOOLEAN,
   verifier : BOOLEAN, kratos : BOOLEAN, mtls : BOOLEAN, gate : BOOLEAN]

\* Sessions and external ids are told apart, and None from everything.
ASSUME AuthnAssumption ==
  /\ Config \subseteq ConfigType /\ Call \subseteq CallType /\ Call # {}
  /\ ExternalId \subseteq STRING /\ Session \cap ExternalId = {}
  /\ None \notin Nat \cup Session \cup ExternalId \cup Principal \cup TokenType
  /\ IdentityOf \in [Session -> ExternalId] /\ HasEmail \in [ExternalId -> BOOLEAN]
  /\ {SessionMax, SessionTTL, NegativeTTL, SubjectMax, SubjectTTL, Retries} \subseteq Nat \ {0}
  /\ {MaxDelay, MaxTime, MaxEnd} \subseteq Nat

VARIABLES
  config,     \* the configuration in force
  now,
  sessItems, sessOrder, sessGen,  \* the whoami cache
  subjItems, subjOrder, subjGen,  \* the subject cache
  req,        \* the requests
  endedAt,    \* Kratos: when a session ended, or None
  users,      \* IAM: the external ids that have a user
  removedAt   \* IAM: when the user of an external id was removed, or None

sessVars == <<sessItems, sessOrder, sessGen>>
subjVars == <<subjItems, subjOrder, subjGen>>
extVars == <<endedAt, users, removedAt>>
vars == <<config, now, sessItems, sessOrder, sessGen, subjItems, subjOrder, subjGen,
          req, endedAt, users, removedAt>>

Sess == INSTANCE LRUCache WITH
  Key <- Session, MaxSize <- SessionMax, TTL <- SessionTTL,
  items <- sessItems, order <- sessOrder, gen <- sessGen
Subj == INSTANCE LRUCache WITH
  Key <- ExternalId, MaxSize <- SubjectMax, TTL <- SubjectTTL,
  items <- subjItems, order <- subjOrder, gen <- subjGen

\* id: the external id looked up, for the session or for the token; tries: lookups
\* left after an upsert; answer, askedAt: a remote answer and its time; late: history,
\* the sessions and external ids that ended so long before it came that no answer
\* from before should count.
RequestState ==
  [pc : {"out", "arrived", "whoami", "kratos", "keep", "lookup", "iam", "keepSubject",
         "upsert", "served"},
   call : Call, id : ExternalId \cup {None}, kratos : BOOLEAN, tries : 0..Retries,
   answer : BOOLEAN, askedAt : Nat, principal : Principal \cup {None},
   late : SUBSET (Session \cup ExternalId)]

\* A request out of the chain: none has come, or the last one was refused or served.
Out ==
  [pc |-> "out", call |-> CHOOSE c \in Call : TRUE, id |-> None, kratos |-> FALSE,
   tries |-> 0, answer |-> FALSE, askedAt |-> 0, principal |-> None,
   late |-> {}]

TypeOK ==
  /\ config \in Config
  /\ Sess!CacheTypeOK(BOOLEAN)
  /\ Subj!CacheTypeOK(Principal)
  /\ req \in [Request -> RequestState]
  /\ endedAt \in [Session -> Nat \cup {None}]
  /\ users \subseteq ExternalId
  /\ removedAt \in [ExternalId -> Nat \cup {None}]

\* validateProductionAuthzConfig refuses to start a production-class environment in
\* mode dev or with a dev secret; main refuses the gate without a verifier.
Starts(c) ==
  /\ c.prod => c.mode # "dev" /\ ~c.secret
  /\ c.gate => c.verifier

Init ==
  /\ config \in {c \in Config : Starts(c)}
  /\ now = 0
  /\ sessItems = [s \in {} |-> s] /\ sessOrder = <<>> /\ sessGen = 0
  /\ subjItems = [x \in {} |-> x] /\ subjOrder = <<>> /\ subjGen = 0
  /\ req = [r \in Request |-> Out]
  /\ endedAt = [s \in Session |-> None]
  /\ users \in SUBSET {x \in ExternalId : HasEmail[x]}
  /\ removedAt = [x \in ExternalId |-> None]

At(r, phase) == req[r].pc = phase

-----------------------------------------------------------------------------
(* What the code decides without waiting: sets of outcomes.                *)

Refuse == [pc |-> "out", principal |-> None, id |-> None]
Serve(p) == [Refuse EXCEPT !.pc = "served", !.principal = p]
LookUp(x) == [Refuse EXCEPT !.pc = "lookup", !.id = x]

Strict == config.mode = "production-strict"

\* Mutant: identity headers that a client supplies stay when it has no certificate.
StrippedWithCert(c) ==
  IF c.forged /\ c.cert = None THEN [from |-> "subject", id |-> "root"] ELSE None

\* stripForgeableIdentityHeaders: the principal before any strategy ran.
Stripped(c) == None

\* The verifier accepts a token of Hydra; a JWKS endpoint that is down fails it.
Verified(t, outcomes) == {Refuse} \cup IF t.alg = "hydra" /\ t.good THEN outcomes ELSE {}

\* validateJWT: in mode dev only, with a secret, tokens signed with it.
HmacValid(t) == config.mode = "dev" /\ config.secret /\ t.alg = "hmac" /\ t.good

\* A token that verified: its claims, else the user of its subject.
ByClaims(t) ==
  CASE t.claims # None -> Serve(t.claims)
    [] t.claims = None /\ t.sub = None -> Refuse
    [] OTHER -> LookUp(t.sub)

\* The same for an HMAC token, which must have a subject.
ByHmac(t) == IF t.sub = None THEN Refuse ELSE ByClaims(t)

\* authorize (gRPC): the certificate, then the bearer, then the mode.
authorize(c) ==
  LET bearer == c.token # None /\ c.scheme \in {"Bearer", "bearer"}
  IN  CASE config.mtls /\ c.cert # None -> {Serve(c.cert)}
        [] ~(config.mtls /\ c.cert # None) /\ ~bearer ->
             {IF Strict THEN Refuse ELSE Serve(Anonymous)}
        [] OTHER -> IF config.verifier /\ c.token.alg = "hydra"
                    THEN Verified(c.token, {ByClaims(c.token)})
                    ELSE {IF HmacValid(c.token) THEN ByHmac(c.token) ELSE Refuse}

\* injectVerifiedTokenHeaders: the claims or the raw subject replace the principal.
Injected(t, p) ==
  CASE t.claims # None -> t.claims
    [] t.claims = None /\ t.sub # None -> [from |-> "subject", id |-> t.sub]
    [] OTHER -> p

\* DPoPMiddleware.Wrap, where enabled, on a request that HTTP passes with principal p:
\* any scheme counts as a token there.
PassGate(c, p) ==
  CASE ~config.gate -> {Serve(p)}
    [] config.gate /\ c.token = None -> {IF Strict THEN Refuse ELSE Serve(p)}
    [] OTHER -> Verified(c.token, {Serve(Injected(c.token, p))})

\* The outcomes of HTTP's strategies go on to the gate unless they end the request.
ToGate(c, outcomes) ==
  UNION {IF o.pc = "served" THEN PassGate(c, o.principal) ELSE {o} : o \in outcomes}

\* HTTP without a session: tryHydraJWT, tryDevSecretJWT (a cookie counts as Bearer, a
\* lower-case scheme does not), or no credential that this layer knows.
byToken(c) ==
  LET bearer == c.token # None /\ c.scheme \in {"Bearer", "cookie"}
  IN  ToGate(c,
        IF bearer /\ config.verifier /\ c.token.alg = "hydra"
        THEN Verified(c.token, {ByClaims(c.token)})
        ELSE IF bearer /\ config.secret
        THEN {IF HmacValid(c.token) THEN ByHmac(c.token) ELSE Refuse}
        ELSE {Serve(Stripped(c))})

\* tryKratosSession did not find a user, or authorizeViaLookup did not: over gRPC mode
\* dev goes on as anonymous, over REST the request goes on without a principal.
NotResolved(r) ==
  LET c == req[r].call
  IN  CASE req[r].kratos -> byToken(c)
        [] ~req[r].kratos /\ c.via = "http" -> PassGate(c, Stripped(c))
        [] OTHER -> {IF config.mode = "dev" THEN Serve(Anonymous) ELSE Refuse}

Resolved(r, p) == IF req[r].call.via = "http" THEN PassGate(req[r].call, p) ELSE {Serve(p)}

\* The request continues with one of the outcomes; a request that leaves the chain
\* keeps only the principal it is served with.
Continue(r, outcomes) ==
  \E o \in outcomes :
    req' = [req EXCEPT ![r] =
      IF o.pc = "lookup" THEN [@ EXCEPT !.pc = "lookup", !.id = o.id, !.kratos = FALSE,
                                        !.tries = 0]
      ELSE [Out EXCEPT !.pc = o.pc, !.principal = o.principal]]

-----------------------------------------------------------------------------
(* The steps of a request.                                                 *)

\* What ended so long ago that its cached answers have expired.
EndedLongAgo == {s \in Session : endedAt[s] # None /\ now - MaxDelay - SessionTTL > endedAt[s]}
RemovedLongAgo ==
  {x \in ExternalId : removedAt[x] # None /\ now - MaxDelay - SubjectTTL > removedAt[x]}

\* Until its first remote call a request shares nothing, so one at a time arrives.
Arrive(r, c) ==
  /\ req[r].pc \in {"out", "served"}
  /\ \A q \in Request : ~At(q, "arrived")
  /\ req' = [req EXCEPT ![r] = [Out EXCEPT !.pc = "arrived", !.call = c,
                                           !.late = EndedLongAgo \cup RemovedLongAgo]]
  /\ UNCHANGED <<config, now, sessVars, subjVars, extVars>>

\* authorize, or HTTP up to the first remote call.
Authenticate(r) ==
  LET c == req[r].call
  IN  /\ At(r, "arrived")
      /\ \/ c.via = "grpc" /\ Continue(r, authorize(c))
         \/ /\ c.via = "http" /\ config.kratos /\ c.session # None
            /\ req' = [req EXCEPT ![r].pc = "whoami"]
         \/ /\ c.via = "http" /\ ~(config.kratos /\ c.session # None)
            /\ Continue(r, byToken(c))
      /\ UNCHANGED <<config, now, sessVars, subjVars, extVars>>

\* tryKratosSession with whoami's answer: the user of the identity, or no session.
AfterWhoami(r, active) ==
  \/ /\ active
     /\ req' = [req EXCEPT ![r].pc = "lookup", ![r].kratos = TRUE, ![r].tries = 0,
                           ![r].id = IdentityOf[req[r].call.session],
                           ![r].answer = FALSE, ![r].askedAt = 0]
  \/ ~active /\ Continue(r, byToken(req[r].call))

\* Mutant: a hit puts the entry back with a full TTL.
WhoamiSliding(r) ==
  LET s == req[r].call.session
  IN  /\ At(r, "whoami")
      /\ \/ /\ Sess!Live(s)
            /\ Sess!Put(s, sessItems[s].value)
            /\ AfterWhoami(r, sessItems[s].value)
         \/ /\ ~Sess!Live(s)
            /\ Sess!Get(s)
            /\ req' = [req EXCEPT ![r].pc = "kratos"]
      /\ UNCHANGED <<config, now, subjVars, extVars>>

\* Whoami: a cached answer, positive or negative, decides.
Whoami(r) ==
  LET s == req[r].call.session
  IN  /\ At(r, "whoami")
      /\ Sess!Get(s)
      /\ \/ Sess!Live(s) /\ AfterWhoami(r, sessItems[s].value)
         \/ ~Sess!Live(s) /\ req' = [req EXCEPT ![r].pc = "kratos"]
      /\ UNCHANGED <<config, now, subjVars, extVars>>

\* fetch: Kratos answers, or any failure counts as an inactive session.
FetchSession(r) ==
  /\ At(r, "kratos")
  /\ \E active \in {endedAt[req[r].call.session] = None, FALSE} :
       req' = [req EXCEPT ![r].pc = "keep", ![r].answer = active, ![r].askedAt = now]
  /\ UNCHANGED <<config, now, sessVars, subjVars, extVars>>

\* Whoami stores the answer, whatever it is.
KeepSession(r) ==
  LET active == req[r].answer
  IN  /\ At(r, "keep")
      /\ Sess!PutWithTTL(req[r].call.session, active,
                         IF active THEN SessionTTL ELSE NegativeTTL)
      /\ AfterWhoami(r, active)
      /\ UNCHANGED <<config, now, subjVars, extVars>>

\* LookupByExternalID: the subject cache, which holds found subjects only.
LookUpSubject(r) ==
  LET x == req[r].id
  IN  /\ At(r, "lookup")
      /\ Subj!Get(x)
      /\ \/ Subj!Live(x) /\ Continue(r, Resolved(r, subjItems[x].value))
         \/ ~Subj!Live(x) /\ req' = [req EXCEPT ![r].pc = "iam"]
      /\ UNCHANGED <<config, now, sessVars, extVars>>

\* A lookup that failed: the first one ends the resolution, and a later one, after an
\* upsert, is tried again while tries are left; the backoff passes before LookUpSubject.
LookupFails(r) ==
  \/ req[r].tries <= 1 /\ Continue(r, NotResolved(r))
  \/ /\ req[r].tries > 1
     /\ req' = [req EXCEPT ![r].pc = "lookup", ![r].tries = @ - 1]

\* IAM answers LookupSubject: with the user, NotFound, or an error.  The first
\* NotFound for a session's identity with an email leads to the upsert.
AskIAM(r) ==
  LET x == req[r].id
      upserts == req[r].kratos /\ req[r].tries = 0 /\ x \notin users
  IN  /\ At(r, "iam")
      /\ \/ /\ x \in users
            /\ req' = [req EXCEPT ![r].pc = "keepSubject", ![r].askedAt = now]
         \/ /\ upserts /\ HasEmail[x]
            /\ req' = [req EXCEPT ![r].pc = "upsert"]
         \/ LookupFails(r)
      /\ UNCHANGED <<config, now, sessVars, subjVars, extVars>>

\* LookupByExternalID caches the user it found.
KeepSubject(r) ==
  LET x == req[r].id
  IN  /\ At(r, "keepSubject")
      /\ Subj!Put(x, Mirror(x))
      /\ Continue(r, Resolved(r, Mirror(x)))
      /\ UNCHANGED <<config, now, sessVars, extVars>>

\* LookupOrUpsertFromKratos: UpsertFromIdentity is accepted (IAM creates the user at
\* some later time, CreateUser) or fails.
Upsert(r) ==
  /\ At(r, "upsert")
  /\ \/ req' = [req EXCEPT ![r].pc = "lookup", ![r].tries = Retries]
     \/ Continue(r, NotResolved(r))
  /\ UNCHANGED <<config, now, sessVars, subjVars, extVars>>

-----------------------------------------------------------------------------
(* Kratos, IAM (external) and time.                                        *)

EndSession(s) ==
  /\ endedAt[s] = None /\ now <= MaxEnd
  /\ endedAt' = [endedAt EXCEPT ![s] = now]
  /\ UNCHANGED <<config, now, sessVars, subjVars, req, users, removedAt>>

\* A user is created, by an upsert or by an administrator: from now on it is right to
\* find it, again.
CreateUser(x) ==
  /\ x \notin users /\ HasEmail[x]
  /\ users' = users \cup {x}
  /\ removedAt' = [removedAt EXCEPT ![x] = None]
  /\ req' = [r \in Request |-> [req[r] EXCEPT !.late = @ \ {x}]]
  /\ UNCHANGED <<config, now, sessVars, subjVars, endedAt>>

RemoveUser(x) ==
  /\ x \in users /\ now <= MaxEnd
  /\ users' = users \ {x}
  /\ removedAt' = [removedAt EXCEPT ![x] = now]
  /\ UNCHANGED <<config, now, sessVars, subjVars, req, endedAt>>

\* Calls to Kratos and IAM time out after 5 s.
Tick ==
  /\ now < MaxTime
  /\ \A r \in Request :
       req[r].pc \in {"keep", "keepSubject"} => now < req[r].askedAt + MaxDelay
  /\ now' = now + 1
  /\ UNCHANGED <<config, sessVars, subjVars, req, extVars>>

Next ==
  \/ \E r \in Request :
       \/ \E c \in Call : Arrive(r, c)
       \/ Authenticate(r)
       \/ Whoami(r) \/ FetchSession(r) \/ KeepSession(r)
       \/ LookUpSubject(r) \/ AskIAM(r) \/ KeepSubject(r)
       \/ Upsert(r)
  \/ \E s \in Session : EndSession(s)
  \/ \E x \in ExternalId : CreateUser(x) \/ RemoveUser(x)
  \/ Tick

Spec == Init /\ [][Next]_vars

-----------------------------------------------------------------------------
(* Properties.                                                             *)

\* The step hands the request r, with its principal, to authorization.
Admits(r) == req[r].pc \notin {"out", "served"} /\ req'[r].pc = "served"

\* The token of the call proves something under the configuration in force.
TokenCounts(c) ==
  /\ c.token # None /\ c.token.good
  /\ IF c.token.alg = "hydra" THEN config.verifier
     ELSE config.mode = "dev" /\ config.secret

\* The principals that the credentials of the call establish.
Established(c) ==
  (IF c.via = "grpc" /\ config.mtls THEN {c.cert} ELSE {})
    \cup (IF TokenCounts(c) THEN {c.token.claims, Mirror(c.token.sub)} ELSE {})
    \cup (IF TokenCounts(c) /\ config.gate
          THEN {[from |-> "subject", id |-> c.token.sub]} ELSE {})
    \cup (IF c.via = "http" /\ config.kratos /\ c.session # None
          THEN {Mirror(IdentityOf[c.session])} ELSE {})

\* Whoever is handed to authorization is somebody whom the credentials of this very
\* request establish, or nobody: not the caller of another request, not a name the
\* client sent, and no HMAC token outside mode dev.  Where the chain is complete
\* (gRPC, and REST with the gate) a failed token is never downgraded: one that does
\* not count passes only beside a certificate, and in production-strict there is a
\* token that counts or a certificate.  This is said of tokens only: a request whose
\* Kratos session has ended goes on without a principal.
IdentityIsEstablished ==
  [][TypeOK' /\ \A r \in Request : Admits(r) =>
       LET c == req[r].call
           p == req'[r].principal
           certified == c.via = "grpc" /\ config.mtls /\ c.cert # None
           presented == c.token # None
                          /\ (c.via = "http" \/ c.scheme \in {"Bearer", "bearer"})
       IN  /\ p \in {None, Anonymous} \cup Established(c)
           /\ (c.via = "grpc" \/ config.gate) /\ ~certified =>
                /\ presented => TokenCounts(c)
                /\ Strict => presented]_vars

\* Logged-out sessions and removed users stop working: a request that comes one cache
\* TTL and one round trip after the end is never given the user of that session or of
\* that external id, although both caches are filled concurrently and late.
EndedIdentitiesExpire ==
  [][\A r \in Request : \A x \in ExternalId :
       Admits(r) /\ req'[r].principal = Mirror(x) =>
         /\ x \notin req[r].late
         /\ req[r].kratos => req[r].call.session \notin req[r].late]_vars
=============================================================================
