----------------------------- MODULE SenderGate -----------------------------
(***************************************************************************)
(* What a verified access token must still pass before authorization: over  *)
(* REST DPoPMiddleware.Wrap (revocation through the introspection cache,    *)
(* proof of possession of the key the token is bound to, step-up), over     *)
(* gRPC the cnf interceptor.  Composed with the DPoP validator (DPoPReplay) *)
(* and with what ends a token at Hydra: its expiry or a revocation.         *)
(*                                                                          *)
(* Two caches share the clock: the seen proofs are DPoPReplay's, the        *)
(* introspection cache is a second instance of LRUCache.  Nothing calls     *)
(* IntrospectionCache.Invalidate, so no action does.                        *)
(***************************************************************************)
EXTENDS DPoPReplay

CONSTANTS
  Token,     \* access tokens that Hydra issued; see TokenType
  Call,      \* what clients send; see CallType
  IntroMax,  \* capacity of the introspection cache
  IntroTTL,  \* c.ttl of the introspection cache
  Skew,      \* v.clockSkew, the verifier's leeway on exp
  Strict,    \* m.requireForAllRequests
  None,      \* no token, not revoked
  MaxTime    \* bound: the clock stops here

\* jti: it has a jti claim; exp: its exp claim; cnf: the bindings it carries; acr: its rank.
TokenType ==
  [id : STRING, jti : BOOLEAN, exp : Nat, cnf : SUBSET {"jkt", "x5t"},
   acr : 0..3]

\* valid: signature, issuer and audience are right; proof: the jti of the proof; fits:
\* there is one, signed with the key of cnf.jkt for this method and URL; cert: the client
\* certificate has the thumbprint cnf.x5t#S256; floor: the rank of required_acr_min.
CallType ==
  [via : {"http", "grpc"}, public : BOOLEAN, token : Token \cup {None}, valid : BOOLEAN,
   scheme : {"Bearer", "DPoP"}, proof : Key, fits : BOOLEAN, cert : BOOLEAN,
   floor : 0..3]

ASSUME GateAssumption ==
  /\ Token \subseteq TokenType
  /\ Call \subseteq CallType /\ Call # {}
  /\ None \notin Token \cup Nat
  /\ IntroMax \in Nat \ {0} /\ IntroTTL \in Nat \ {0} /\ Skew \in Nat /\ MaxTime \in Nat
  /\ Strict \in BOOLEAN

VARIABLES
  introItems, introOrder, introGen,  \* the introspection cache, keyed by jti
  gate,       \* the requests
  revokedAt   \* Hydra: when it revoked a token, or None

introVars == <<introItems, introOrder, introGen>>
vars == <<items, order, gen, now, req, spent, introItems, introOrder, introGen,
          gate, revokedAt>>

\* The introspection cache.
Intro == INSTANCE LRUCache WITH
  Key <- Token, MaxSize <- IntroMax, TTL <- IntroTTL,
  items <- introItems, order <- introOrder, gen <- introGen

Phase == {"out", "introspect", "fetch", "store", "sender", "validate", "stepup", "served"}

\* gen: the snapshot Introspect takes; active: Hydra's answer, of the moment askedAt.
\* soft: the introspection (over gRPC, the second verification) failed and was
\* skipped.  late: history, the request arrived after every cached answer from before
\* the revocation has expired.
GateState ==
  [pc : Phase, call : Call, gen : Nat, active : BOOLEAN, askedAt : Nat, soft : BOOLEAN,
   late : BOOLEAN]

\* No request is in the gate, or the last one was refused.
Out ==
  [pc |-> "out", call |-> CHOOSE c \in Call : TRUE, gen |-> 0, active |-> FALSE,
   askedAt |-> 0, soft |-> FALSE, late |-> FALSE]

TypeOK ==
  /\ ReplayTypeOK
  /\ Intro!CacheTypeOK(BOOLEAN)
  /\ gate \in [Request -> GateState]
  /\ revokedAt \in [Token -> Nat \cup {None}]

Init ==
  /\ ReplayInit
  /\ introItems = [t \in {} |-> t] /\ introOrder = <<>> /\ introGen = 0
  /\ gate = [r \in Request |-> Out]
  /\ revokedAt = [t \in Token |-> None]

GateAt(r, phase) == gate[r].pc = phase

\* The request r goes on; a request that leaves the gate is forgotten.
Goto(r, phase) ==
  gate' = [gate EXCEPT ![r] = IF phase \in {"out", "served"} THEN [Out EXCEPT !.pc = phase]
                              ELSE [@ EXCEPT !.pc = phase]]

-----------------------------------------------------------------------------
(* The verifier and Hydra.                                                 *)

\* JWTVerifier.Verify: the signature, the issuer and the audience are right and the
\* token has not expired, with leeway.
Verifies(c) == c.valid /\ now < c.token.exp + Skew

\* Hydra (external): the answer of the introspection endpoint.
HydraActive(t) == revokedAt[t] = None /\ now < t.exp

\* Every answer cached before t was revoked has expired.
RevokedLongAgo(t) == IF revokedAt[t] = None THEN FALSE
                     ELSE now > revokedAt[t] + MaxDelay + IntroTTL

-----------------------------------------------------------------------------
(* DPoPMiddleware.Wrap over REST, the auth and cnf interceptors over gRPC.   *)

\* Where a request with a token goes when Verify has answered; a JWKS endpoint that
\* is down fails a good token, too.
AfterVerify(c, phase) == {"out"} \cup IF Verifies(c) THEN {phase} ELSE {}

\* Wrap on arrival: a public path passes; without a token the request passes or,
\* in production-strict, is refused; then the token is verified.
ArriveHTTP(c) ==
  CASE c.public -> {"served"}
    [] ~c.public /\ c.token = None -> {IF Strict THEN "out" ELSE "served"}
    [] OTHER -> AfterVerify(c, IF c.token.jti THEN "introspect" ELSE "sender")

\* The gRPC chain: the auth interceptor verifies the token and the cnf interceptor
\* follows; one without a token passes both (or was refused by the mode, which is
\* not modelled here).  No introspection on gRPC.
ArriveGRPC(c) == IF c.token = None THEN {"served"} ELSE AfterVerify(c, "sender")

Arrive(r, c) ==
  /\ gate[r].pc \in {"out", "served"}
  /\ \E phase \in IF c.via = "http" THEN ArriveHTTP(c) ELSE ArriveGRPC(c) :
       gate' = [gate EXCEPT ![r] =
         IF phase \in {"out", "served"} THEN [Out EXCEPT !.pc = phase]
         ELSE [Out EXCEPT !.pc = phase, !.call = c,
                          !.late = c.token.jti /\ RevokedLongAgo(c.token)]]
  /\ req' = [req EXCEPT ![r] = NoValidation]
  /\ UNCHANGED <<cacheVars, now, spent, introVars, revokedAt>>

\* Mutant: a hit puts the entry back with a full TTL.
IntrospectSliding(r) ==
  LET t == gate[r].call.token
  IN  /\ GateAt(r, "introspect")
      /\ \/ /\ Intro!Live(t)
            /\ Intro!Put(t, introItems[t].value)
            /\ Goto(r, IF introItems[t].value THEN "sender" ELSE "out")
         \/ /\ ~Intro!Live(t)
            /\ Intro!Get(t)
            /\ gate' = [gate EXCEPT ![r].pc = "fetch", ![r].gen = introGen]
      /\ UNCHANGED <<replayVars, now, revokedAt>>

\* Introspect: a cached answer decides; otherwise the generation is snapshot and
\* Hydra is asked.
Introspect(r) ==
  LET t == gate[r].call.token
  IN  /\ GateAt(r, "introspect")
      /\ Intro!Get(t)
      /\ \/ /\ Intro!Live(t)
            /\ Goto(r, IF introItems[t].value THEN "sender" ELSE "out")
         \/ /\ ~Intro!Live(t)
            /\ gate' = [gate EXCEPT ![r].pc = "fetch", ![r].gen = introGen]
      /\ UNCHANGED <<replayVars, now, revokedAt>>

\* fetchHydra: Hydra answers; or it fails or times out, and Wrap goes on without.
FetchHydra(r) ==
  /\ GateAt(r, "fetch")
  /\ \/ gate' = [gate EXCEPT ![r].pc = "store", ![r].askedAt = now,
                             ![r].active = HydraActive(gate[r].call.token)]
     \/ gate' = [gate EXCEPT ![r].pc = "sender", ![r].soft = TRUE]
  /\ UNCHANGED <<replayVars, now, introVars, revokedAt>>

\* Introspect, the answer: one that expired on the way is inactive and not cached;
\* the others are, no longer than exp (Hydra tells no exp with an inactive token).
Store(r) ==
  LET t        == gate[r].call.token
      active   == gate[r].active
      untilExp == t.exp - now
      ttl      == IF active /\ untilExp < IntroTTL THEN untilExp ELSE IntroTTL
  IN  /\ GateAt(r, "store")
      /\ \/ /\ active /\ untilExp <= 0
            /\ Goto(r, "out")
            /\ UNCHANGED introVars
         \/ /\ ~(active /\ untilExp <= 0)
            /\ Intro!PutIfGenWithTTL(t, active, ttl, gate[r].gen)
            /\ gate' = [gate EXCEPT ![r] =
                 IF active THEN [@ EXCEPT !.pc = "sender", !.active = FALSE, !.askedAt = 0]
                 ELSE Out]
      /\ UNCHANGED <<replayVars, now, revokedAt>>

\* Mutant: a proof is asked of the clients that announce one.
BindingByScheme(c) ==
  CASE c.scheme = "DPoP" /\ "jkt" \in c.token.cnf -> "validate"
    [] "x5t" \in c.token.cnf -> IF c.cert THEN "stepup" ELSE "out"
    [] OTHER -> IF c.scheme = "DPoP" THEN "out" ELSE "stepup"

\* Wrap, the sender-constrained checks: cnf.jkt first, then cnf.x5t#S256; a plain
\* token must not come with the DPoP scheme.
Binding(c) ==
  CASE "jkt" \in c.token.cnf -> "validate"
    [] "jkt" \notin c.token.cnf /\ "x5t" \in c.token.cnf -> IF c.cert THEN "stepup" ELSE "out"
    [] OTHER -> IF c.scheme = "DPoP" THEN "out" ELSE "stepup"

\* CnfBindingInterceptor.enforce, for a token that verified: cnf.x5t#S256 first; a
\* token bound by a DPoP key only is refused, there are no proofs over gRPC.
EnforceBinding(c) ==
  IF c.token.cnf = {} \/ ("x5t" \in c.token.cnf /\ c.cert) THEN "served" ELSE "out"

\* The sender-constrained checks over REST.
CheckSender(r) ==
  LET c == gate[r].call
  IN  /\ GateAt(r, "sender") /\ c.via = "http"
      /\ Goto(r, Binding(c))
      /\ IF Binding(c) = "validate" THEN Present(r, c.proof) ELSE UNCHANGED replayVars
      /\ UNCHANGED <<now, introVars, revokedAt>>

\* CnfBindingInterceptor.enforce verifies the token again: when that fails (the token
\* has expired meanwhile, or the JWKS endpoint fails), it passes the request.
Enforce(r) ==
  LET c == gate[r].call
  IN  /\ GateAt(r, "sender") /\ c.via = "grpc"
      /\ \/ Verifies(c) /\ Goto(r, EnforceBinding(c))
         \/ gate' = [gate EXCEPT ![r] = [Out EXCEPT !.pc = "served", !.soft = TRUE]]
      /\ UNCHANGED <<replayVars, now, introVars, revokedAt>>

\* DPoPValidator.Validate, DPoPReplay's steps, for a proof that fits or does not.
Validate(r) ==
  /\ GateAt(r, "validate")
  /\ \/ ~(gate[r].call.fits /\ IsFresh(req[r].jti)) /\ Reject(r)
     \/ gate[r].call.fits /\ CheckFreshness(r)
     \/ Add(r)
     \/ \E verdict \in {"accepted", "rejected"} : CheckAth(r, verdict)
  /\ UNCHANGED <<now, introVars, gate, revokedAt>>

\* Validate returns.
Validated(r) ==
  /\ GateAt(r, "validate")
  /\ req[r].pc \in {"accepted", "replay", "rejected"}
  /\ Goto(r, IF At(r, "accepted") THEN "stepup" ELSE "out")
  /\ UNCHANGED <<replayVars, now, introVars, revokedAt>>

\* StepUpGate.Check against required_acr_min (the catalog sets no mfa_max_age).
StepUp(r) ==
  LET c == gate[r].call
  IN  /\ GateAt(r, "stepup")
      /\ Goto(r, IF c.token.acr < c.floor THEN "out" ELSE "served")
      /\ UNCHANGED <<replayVars, now, introVars, revokedAt>>

-----------------------------------------------------------------------------

\* Hydra revokes a token (external): on behalf of an administrator, or of IAM after
\* a logout.  It is asked only about tokens with a jti.
HydraRevoke(t) ==
  /\ t.jti
  /\ revokedAt[t] = None
  /\ revokedAt' = [revokedAt EXCEPT ![t] = now]
  /\ UNCHANGED <<replayVars, now, introVars, gate>>

\* Time passes: no more than MaxDelay between the two clock reads of Validate, or
\* between Hydra's answer and its storing (Wrap gives the round trip 5 s).
Tick ==
  /\ now < MaxTime
  /\ \A r \in Request :
       /\ At(r, "fresh") => now < req[r].checkedAt + MaxDelay
       /\ GateAt(r, "store") => now < gate[r].askedAt + MaxDelay
  /\ now' = now + 1
  /\ UNCHANGED <<replayVars, introVars, gate, revokedAt>>

Next ==
  \/ \E r \in Request :
       \/ \E c \in Call : Arrive(r, c)
       \/ Introspect(r) \/ FetchHydra(r) \/ Store(r)
       \/ CheckSender(r) \/ Enforce(r) \/ Validate(r) \/ Validated(r) \/ StepUp(r)
  \/ \E t \in Token : HydraRevoke(t)
  \/ Tick

Spec == Init /\ [][Next]_vars

-----------------------------------------------------------------------------
(* Properties.                                                             *)

\* The step lets the request r out of the gate, to authorization.
Admits(r) == gate[r].pc \notin {"out", "served"} /\ gate'[r].pc = "served"

\* Over REST a revoked token is refused from one cache TTL and one round trip
\* after its revocation on, although answers are cached, fetched concurrently and
\* stored late: only a failed introspection, which Wrap skips, lets it pass.
RevokedTokensExpire ==
  [][\A r \in Request :
       Admits(r) /\ gate[r].late /\ gate[r].call.via = "http" => gate[r].soft]_vars

\* Admitted with the proof, spent by this very request, or the certificate that its
\* token is bound to.
Proven(r) ==
  LET c == gate[r].call
  IN  \/ c.token.cnf = {}
      \/ "jkt" \in c.token.cnf /\ c.fits /\ At(r, "accepted")
      \/ "x5t" \in c.token.cnf /\ c.cert

\* A token bound to a key is worth nothing without the key, on both surfaces and on
\* every way through the gate (cached or skipped introspection, replayed and
\* concurrent proofs): only a failed second verification lets it pass over gRPC.
\* And over REST it has the rank its method asks for.
BoundTokensAreProven ==
  [][/\ TypeOK'
     /\ \A r \in Request : Admits(r) =>
          LET c == gate[r].call
          IN  IF c.via = "http" THEN Proven(r) /\ c.token.acr >= c.floor
              ELSE Proven(r) \/ gate'[r].soft]_vars
=============================================================================
