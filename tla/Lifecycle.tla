----------------------------- MODULE Lifecycle -----------------------------
(***************************************************************************)
(* The process of the gateway: main's boot sequence, in which a wrong      *)
(* configuration ends the process (log.Fatalf) before or after some        *)
(* listeners are already up; the four listeners and the three servers      *)
(* behind them (grpcSrv, internalGrpcSrv, httpSrv); the context that a     *)
(* signal or the unexpected death of a listener cancels; the shutdown      *)
(* goroutine; and the readiness probe the process answers meanwhile.       *)
(*                                                                         *)
(* A configuration is a record of what main's guards tell apart:           *)
(*   parses       config.Load reads the environment without an error       *)
(*   env, bare    KACHO_APP_ENV after trimming and lowering, and whether   *)
(*                it was written that way already                          *)
(*   authz, failOpen, production, devSecret, dpop                          *)
(*                the authorisation and authentication posture             *)
(*   catalog, overrides     the two authz files load                       *)
(*   edge, clientCert, ca   some backend edge uses mTLS; the client        *)
(*                certificate and key, and the CA file, are there          *)
(*   internalMTLS, internalCert, allowed                                   *)
(*                the internal gRPC listener: mTLS, its certificate, and   *)
(*                the identities on its allow-list                         *)
(*   tlsAddr, tlsFiles, tlsPair, hybrid                                    *)
(*                the TLS listener: address, files named, files load,      *)
(*                optional client certificates                             *)
(*   internalREST the admin REST listener has an address                   *)
(***************************************************************************)
EXTENDS Naturals, FiniteSets

CONSTANTS
    Config,    \* the configurations the process may be started with
    Backend,   \* the domains of proxy.Backends
    Critical,  \* the domains without which the replica is not ready
    Identity,  \* SPIFFE identities a verified client certificate may carry
    Nobody,    \* the caller without a verified certificate
    MaxCalls   \* bound: calls open at one time, a readiness probe included

ConfigType ==
    [ parses : BOOLEAN, env : {"dev", "local", "test", "prod", "unset"}, bare : BOOLEAN,
      authz : BOOLEAN, failOpen : BOOLEAN, production : BOOLEAN, devSecret : BOOLEAN,
      dpop : BOOLEAN, catalog : BOOLEAN, overrides : BOOLEAN,
      edge : BOOLEAN, clientCert : BOOLEAN, ca : BOOLEAN,
      internalMTLS : BOOLEAN, internalCert : BOOLEAN, allowed : SUBSET Identity,
      tlsAddr : BOOLEAN, tlsFiles : BOOLEAN, tlsPair : BOOLEAN, hybrid : BOOLEAN,
      internalREST : BOOLEAN ]

ASSUME LifecycleAssumption ==
    /\ Config \subseteq ConfigType
    /\ Critical \subseteq Backend
    /\ Nobody \notin Identity
    /\ MaxCalls \in Nat \ {0}

VARIABLES
    cfg,       \* the configuration of this process
    pc,        \* where main stands
    listener,  \* port -> "none" | "open" | "closed" | "dead"
    ctx,       \* "live", "signalled" (SIGTERM/SIGINT), "cancelled" (cancel())
    stop,      \* where the shutdown goroutine stands
    calls,     \* the calls being served
    probe      \* the readiness probe being answered

processVars == <<cfg, pc, listener, ctx, stop, calls, probe>>

Port == {"internal", "root", "internalREST", "tls"}

\* Who may hold a connection: one of the servers, or cmux, which splits the root
\* and the TLS port, while the client has not yet said enough to be matched.
Server == {"cmux", "grpc", "internal", "http"}

\* The servers that read from a port.
Servers(p) ==
    CASE p = "internal"     -> {"internal"}
      [] p = "internalREST" -> {"http"}
      [] OTHER              -> {"grpc", "http"}

PortsOf(s) == {p \in Port : s \in Servers(p)}

PortCall == {[port |-> p, server |-> s, peer |-> x] :
            p \in Port, s \in Server, x \in Identity \cup {Nobody}}

NoProbe == [state |-> "idle", answer |-> [b \in Backend |-> "unasked"]]

-----------------------------------------------------------------------------
(* The guards of the boot sequence.                                        *)

DevClass == {"dev", "local", "test"}

EdgeTLSClient == cfg.edge => cfg.clientCert /\ cfg.ca

\* The label is trimmed and lowered before it is compared.
validateProductionAuthzConfig ==
    \/ cfg.env \in DevClass
    \/ cfg.authz /\ ~cfg.failOpen /\ cfg.production /\ ~cfg.devSecret

\* The DPoP middleware needs the catalog whether or not authz is enabled, and its
\* parts (verifier, validator, introspection cache, the middleware) must be built.
buildDPoP(built) == cfg.dpop => built /\ cfg.catalog

buildAuthzMiddleware ==
    cfg.authz => cfg.catalog /\ cfg.overrides /\ EdgeTLSClient

buildInternalListenerSecurity ==
    cfg.internalMTLS => cfg.internalCert /\ cfg.ca /\ cfg.allowed # {}

\* The label is compared as it was written.
validateProductionInternalListener ==
    cfg.internalMTLS \/ (cfg.bare /\ cfg.env \in DevClass)

TLSEnabled == cfg.tlsAddr /\ cfg.tlsFiles

ExternalListenerClientAuth == cfg.hybrid => cfg.ca

\* Mutant: any verified peer is let in, the allow-list is not consulted.
authorizeInternalCallerVerified(peer) == cfg.internalMTLS => peer # Nobody

\* verifiedPeerSPIFFE, then the allow-list: only where mTLS is on.
authorizeInternalCaller(peer) ==
    cfg.internalMTLS => peer # Nobody /\ peer \in cfg.allowed

-----------------------------------------------------------------------------
(* The process ends: log.Fatalf, main's return or a signal.  Whatever it   *)
(* was serving is cut.                                                     *)

Exit ==
    /\ pc' = "exited"
    /\ listener' = [p \in Port |-> "none"]
    /\ calls' = {}
    /\ probe' = NoProbe
    /\ stop' = "waiting"
    /\ ctx' = "live"

Fatal(here) == pc = here /\ Exit /\ UNCHANGED cfg

Pass(here, next) ==
    /\ pc = here
    /\ pc' = next
    /\ UNCHANGED <<cfg, listener, ctx, stop, calls, probe>>

\* A step of main that needs no port.
Check(here, ok, next) == (ok /\ Pass(here, next)) \/ (~ok /\ Fatal(here))

\* A step of main that binds port p; the bind may fail.
Listen(here, p, ok, next) ==
    \/ /\ ok /\ pc = here
       /\ pc' = next
       /\ listener' = [listener EXCEPT ![p] = "open"]
       /\ UNCHANGED <<cfg, ctx, stop, calls, probe>>
    \/ Fatal(here)

Load               == Check("config", cfg.parses, "backends")
DialBackends       == Check("backends", EdgeTLSClient, "authn")
ValidateAuthz      == Check("authz", validateProductionAuthzConfig, "middleware")
WireAuthz          == Check("middleware", buildAuthzMiddleware, "rest")
InternalSecurity   == Check("security", buildInternalListenerSecurity
                                          /\ validateProductionInternalListener,
                            "internal")
ListenInternal     == Listen("internal", "internal", TRUE, "root")
ListenRoot         == Listen("root", "root", TRUE, "internalREST")

WireAuthn == \E built \in BOOLEAN : Check("authn", buildDPoP(built), "authz")

\* The credentials are built a second time; NewMux may fail to register.
WireREST ==
    \E registered \in BOOLEAN :
        Check("rest", EdgeTLSClient /\ registered, "security")

ListenInternalREST ==
    \/ ~cfg.internalREST /\ Pass("internalREST", "tls")
    \/ cfg.internalREST /\ Listen("internalREST", "internalREST", TRUE, "tls")

ListenTLS ==
    \/ ~TLSEnabled /\ Pass("tls", "serving")
    \/ TLSEnabled /\ Listen("tls", "tls", cfg.tlsPair /\ ExternalListenerClientAuth,
                            "serving")

Boot ==
    \/ Load \/ DialBackends \/ WireAuthn \/ ValidateAuthz \/ WireAuthz
    \/ WireREST \/ InternalSecurity
    \/ ListenInternal \/ ListenRoot \/ ListenInternalREST \/ ListenTLS

-----------------------------------------------------------------------------
(* Serving.  Every listener's goroutine accepts as soon as it is started,  *)
(* except that nothing is read from the root port before main has reached  *)
(* cmuxer.Serve.                                                           *)

Accepting(p) == listener[p] = "open" /\ (p = "root" => pc = "serving")

OpenCalls == Cardinality(calls) + (IF probe.state = "idle" THEN 0 ELSE 1)

\* Who a connection on p goes to first.
FirstServer(p) == IF p \in {"root", "tls"} THEN {"cmux"} ELSE Servers(p)

Accept(p, s, peer) ==
    /\ Accepting(p) /\ s \in FirstServer(p) /\ OpenCalls < MaxCalls
    /\ p # "internal" => peer = Nobody
    /\ p = "internal" => authorizeInternalCaller(peer)
    /\ [port |-> p, server |-> s, peer |-> peer] \notin calls
    /\ calls' = calls \cup {[port |-> p, server |-> s, peer |-> peer]}
    /\ UNCHANGED <<cfg, pc, listener, ctx, stop, probe>>

\* The client has spoken: cmux hands the connection to the server it matches, as
\* long as the port is open (afterwards it closes it: Complete).
Match(c, s) ==
    /\ c \in calls /\ c.server = "cmux" /\ listener[c.port] = "open"
    /\ s \in Servers(c.port) /\ [c EXCEPT !.server = s] \notin calls
    /\ calls' = (calls \ {c}) \cup {[c EXCEPT !.server = s]}
    /\ UNCHANGED <<cfg, pc, listener, ctx, stop, probe>>

\* A call ends, or a client hangs up.
Complete(c) ==
    /\ c \in calls
    /\ calls' = calls \ {c}
    /\ UNCHANGED <<cfg, pc, listener, ctx, stop, probe>>

\* A listener fails for a reason of its own.
Die(p) ==
    /\ listener[p] = "open"
    /\ listener' = [listener EXCEPT ![p] = "dead"]
    /\ UNCHANGED <<cfg, pc, ctx, stop, calls, probe>>

\* Mutant: the death is logged and the context left alone.
ServeReturnsLogged(p) ==
    /\ listener[p] = "dead" /\ ctx = "live"
    /\ UNCHANGED processVars

\* The Serve of a dead listener returns; its goroutine looks at ctx.Err().
\* The root port is read only after main has reached cmuxer.Serve.
ServeReturns(p) ==
    /\ listener[p] = "dead" /\ (p = "root" => pc = "serving")
    /\ ctx = "live"
    /\ ctx' = "cancelled"
    /\ UNCHANGED <<cfg, pc, listener, stop, calls, probe>>

\* SIGTERM.  It is caught between NotifyContext and cancel(): cancel() gives
\* the signal its default action back, which ends the process.
Terminate ==
    /\ pc # "exited"
    /\ IF pc = "config" \/ ctx = "cancelled"
       THEN Exit
       ELSE /\ ctx = "live"
            /\ ctx' = "signalled"
            /\ UNCHANGED <<pc, listener, stop, calls, probe>>
    /\ UNCHANGED cfg

-----------------------------------------------------------------------------
(* The shutdown goroutine, started when main is about to serve.            *)

CloseAll(P) == [p \in Port |-> IF p \in P /\ listener[p] = "open"
                               THEN "closed" ELSE listener[p]]

CallsOf(s) == {c \in calls : c.server = s}

\* GracefulStop closes what the server listens on before it waits.  The
\* listeners cmux hands out close the port itself, so this is the end of
\* accepting on the root and the TLS port, HTTP included.
StopGrpc ==
    /\ pc = "serving" /\ stop = "waiting" /\ ctx # "live"
    /\ stop' = "grpc"
    /\ listener' = CloseAll(PortsOf("grpc"))
    /\ UNCHANGED <<cfg, pc, ctx, calls, probe>>

\* stopGraceful returns when the calls are over, or cuts them after 10 s.
stopGraceful(s) == calls' = calls \ CallsOf(s)

StopInternal ==
    /\ stop = "grpc"
    /\ stopGraceful("grpc")
    /\ stop' = "internal"
    /\ listener' = CloseAll(PortsOf("internal"))
    /\ UNCHANGED <<cfg, pc, ctx, probe>>

\* httpSrv.Shutdown closes the HTTP listeners, then waits.
StopHTTP ==
    /\ stop = "internal"
    /\ stopGraceful("internal")
    /\ stop' = "http"
    /\ listener' = CloseAll(PortsOf("http"))
    /\ UNCHANGED <<cfg, pc, ctx, probe>>

\* Shutdown returns drained or after 10 s, and cuts nothing.  The listeners
\* are closed once more.
CloseListeners ==
    /\ stop = "http"
    /\ stop' = "finished"
    /\ listener' = CloseAll({"root", "tls", "internalREST"})
    /\ UNCHANGED <<cfg, pc, ctx, calls, probe>>

\* A connection of the root port that cmux still tries to match.  No read timeout
\* is set, and no server knows it, so nothing in the process ends it.
Sniffing == \E c \in calls : c.port = "root" /\ c.server = "cmux"

\* cmuxer.Serve returns once the root port is closed or dead and every connection
\* accepted from it has been matched or is gone, and main with it: nothing joins the
\* shutdown goroutine.
MainReturns ==
    /\ pc = "serving" /\ listener["root"] \in {"closed", "dead"} /\ ~Sniffing
    /\ Exit
    /\ UNCHANGED cfg

\* The orchestrator starts the replica again.
Restart ==
    /\ pc = "exited"
    /\ pc' = "config"
    /\ UNCHANGED <<cfg, listener, ctx, stop, calls, probe>>

-----------------------------------------------------------------------------
(* GET /readyz: one Check per backend, one after the other in map order,   *)
(* under one deadline of 5 s for all of them.                              *)

Late == \E b \in Backend : probe.answer[b] = "hung"

ReadyzBegin ==
    /\ \E p \in PortsOf("http") : Accepting(p)
    /\ probe.state = "idle" /\ OpenCalls < MaxCalls
    /\ probe' = [NoProbe EXCEPT !.state = "asking"]
    /\ UNCHANGED <<cfg, pc, listener, ctx, stop, calls>>

\* A backend that does not answer takes what is left of the deadline, and
\* every check after that fails at once.
CheckBackend(b) ==
    /\ probe.state = "asking" /\ probe.answer[b] = "unasked"
    /\ \E a \in IF Late THEN {"late"} ELSE {"serving", "down", "hung"} :
          probe' = [probe EXCEPT !.answer[b] = a]
    /\ UNCHANGED <<cfg, pc, listener, ctx, stop, calls>>

\* Mutant: every backend counts.
EvaluateReadinessAll(serving) == serving = Backend

EvaluateReadiness(serving) == Critical \subseteq serving

ReadyzAnswer ==
    /\ probe.state = "asking"
    /\ \A b \in Backend : probe.answer[b] # "unasked"
    /\ probe' = [probe EXCEPT !.state =
                    IF EvaluateReadiness({b \in Backend : probe.answer[b] = "serving"})
                    THEN "ready" ELSE "unready"]
    /\ UNCHANGED <<cfg, pc, listener, ctx, stop, calls>>

ReadyzEnd ==
    /\ probe.state \in {"ready", "unready"}
    /\ probe' = NoProbe
    /\ UNCHANGED <<cfg, pc, listener, ctx, stop, calls>>

-----------------------------------------------------------------------------
ProcessInit ==
    /\ cfg \in Config
    /\ pc = "config"
    /\ listener = [p \in Port |-> "none"]
    /\ ctx = "live"
    /\ stop = "waiting"
    /\ calls = {}
    /\ probe = NoProbe

Stop == StopGrpc \/ StopInternal \/ StopHTTP \/ CloseListeners

Serve ==
    \/ \E p \in Port, s \in Server, x \in Identity \cup {Nobody} : Accept(p, s, x)
    \/ \E c \in calls : (\E s \in Server : Match(c, s)) \/ Complete(c)
    \/ ReadyzBegin \/ (\E b \in Backend : CheckBackend(b))
    \/ ReadyzAnswer \/ ReadyzEnd

ProcessNext ==
    \/ Boot \/ Serve \/ Stop \/ MainReturns \/ Restart \/ Terminate
    \/ \E p \in Port : Die(p) \/ ServeReturns(p)

\* main and its goroutines run; every stage of the shutdown is bounded by a
\* timer, so it ends whatever its calls do.  Nothing makes a client speak or hang
\* up: Match and Complete are not fair.
Fairness ==
    /\ WF_processVars(Boot) /\ WF_processVars(Stop) /\ WF_processVars(MainReturns)
    /\ \A p \in Port : WF_processVars(ServeReturns(p))

ProcessSpec == ProcessInit /\ [][ProcessNext]_processVars /\ Fairness

-----------------------------------------------------------------------------
ProcessTypeOK ==
    /\ cfg \in Config
    /\ pc \in {"config", "backends", "authn", "authz", "middleware", "rest",
               "security", "internal", "root", "internalREST", "tls",
               "serving", "exited"}
    /\ listener \in [Port -> {"none", "open", "closed", "dead"}]
    /\ ctx \in {"live", "signalled", "cancelled"}
    /\ stop \in {"waiting", "grpc", "internal", "http", "finished"}
    /\ calls \subseteq PortCall /\ OpenCalls <= MaxCalls
    /\ probe.state \in {"idle", "asking", "ready", "unready"}
    /\ probe.answer \in [Backend -> {"unasked", "serving", "down", "hung", "late"}]

\* Whatever the order of the boot steps, the bind that fails or the listener
\* that dies on the way (main, 46-750): a process that accepts connections
\* or serves a call was started with a posture that may serve.  Outside the
\* dev-class environments authorisation is on and fails closed, callers are
\* authenticated and no dev secret is set; unless the label is exactly a
\* dev-class one, every call on the internal port comes from an identity on
\* the allow-list; no backend edge is half secured; and no API call is
\* served before the internal port, through which iam revokes cached
\* decisions, was opened.  (An unset KACHO_APP_ENV is no dev-class environment
\* here, as in authz_validation.go:47-53; docs/architecture/known-divergences.md
\* 43-53 says the opposite, that it serves with a warning.)
ServingIsValidated ==
    /\ ProcessTypeOK
    /\ (\E p \in Port : listener[p] = "open") \/ calls # {} =>
          /\ cfg.env \notin DevClass =>
                cfg.authz /\ ~cfg.failOpen /\ cfg.production /\ ~cfg.devSecret
          /\ cfg.edge => cfg.clientCert /\ cfg.ca
          /\ cfg.authz \/ cfg.dpop => cfg.catalog
          /\ listener["internal"] # "none"
    /\ \A c \in calls :
          /\ c.port = "internal" /\ c.peer \notin cfg.allowed =>
                ~cfg.internalMTLS /\ cfg.bare /\ cfg.env \in DevClass
          /\ c.port = "tls" /\ cfg.hybrid => cfg.ca

\* A process that was told to stop, and a process one of whose listeners died
\* at any moment since it was opened (the internal one may die while main is
\* still booting), ends, whatever the calls it serves do: no replica is left
\* that answers on some ports and is deaf on another (main.go 571-578,
\* 598-612, 636-640, 699-750; stopGraceful 798-810).  It does depend on the
\* clients of the root port in one way, which main.go:733-734 passes over
\* ("Close the accept listeners so cmuxer.Serve()/tlsCmux.Serve() return and
\* main() exits instead of blocking until the kubelet sends SIGKILL"): a
\* connection that stays silent for ever keeps cmuxer.Serve waiting for ever.
ExitsWhenStopped ==
    []<>~Sniffing =>
        ((ctx # "live" \/ \E p \in Port : listener[p] = "dead") ~> (pc = "exited"))

\* /readyz answers 200 only when every critical backend answered SERVING
\* within the probe, and 503 only when a critical backend was down or some
\* backend used up the deadline: another backend that is merely down never
\* takes the replica out of rotation (health.go, HTTPReadyz).
ReadyIsTrue ==
    /\ probe.state = "ready" =>
          \A b \in Critical : probe.answer[b] = "serving"
    /\ probe.state = "unready" =>
          Late \/ \E b \in Critical : probe.answer[b] = "down"
=============================================================================
