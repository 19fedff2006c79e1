---------------------------- MODULE ServerProofs ----------------------------
(***************************************************************************)
(* Proofs about the server around the handlers: the process and its ports  *)
(* (Lifecycle), the proxied stream (StreamProxy) and the replay of         *)
(* idempotent requests (Idempotency).                                      *)
(***************************************************************************)
EXTENDS Lifecycle, StreamProxy, Idempotency, KeyListProofs

-----------------------------------------------------------------------------
(***************************************************************************)
(* Lifecycle, for any backends, configurations, identities and number of   *)
(* open calls.                                                             *)
(*                                                                         *)
(* That the process serves only what it validated follows from where main  *)
(* stands in its boot sequence: a position past a guard tells what the     *)
(* configuration is (GuardsInv), a port that is bound tells where main     *)
(* stands (PortsInv), and an open call tells the port it came in at        *)
(* (CallsInv).  That a probe is ready only if every backend answered is    *)
(* kept together with what made an answer late (ProbeInv).                 *)
(***************************************************************************)

\* Where main stands once the internal port is bound, and before that once a
\* guard was passed.
Bound    == {"root", "internalREST", "tls", "serving"}
Secured  == Bound \cup {"internal"}
Wired    == Secured \cup {"rest", "security"}
Postured == Wired \cup {"middleware"}
Proofed  == Postured \cup {"authz"}
Dialled  == Proofed \cup {"authn"}

\* A position of main that is past a guard tells what the configuration is.
GuardsInv ==
  /\ pc \in Dialled => EdgeTLSClient
  /\ pc \in Proofed => buildDPoP(TRUE)
  /\ pc \in Postured => validateProductionAuthzConfig
  /\ pc \in Wired => buildAuthzMiddleware
  /\ pc \in Secured => buildInternalListenerSecurity
                         /\ validateProductionInternalListener

\* Before the internal port is bound nothing listens, and nothing is served; it
\* is the first to be bound, and a port once bound is never "none" again while the
\* process lives.
PortsInv ==
  /\ pc \notin Bound => listener = [p \in Port |-> "none"] /\ calls = {}
  /\ pc \in Bound => listener["internal"] # "none"
  /\ listener["tls"] # "none" => ExternalListenerClientAuth
  /\ stop # "waiting" => pc = "serving"

CallsInv ==
  /\ IsFiniteSet(calls)
  /\ \A c \in calls :
        /\ c.port = "internal" => authorizeInternalCaller(c.peer)
        /\ c.port = "tls" => listener["tls"] # "none"

\* Only a backend that hung makes an answer late, and until the probe answers
\* nothing has been concluded.
ProbeInv ==
  /\ probe \in [state : {"idle", "asking", "ready", "unready"},
                answer : [Backend -> {"unasked", "serving", "down", "hung", "late"}]]
  /\ (\E b \in Backend : probe.answer[b] = "late") => Late
  /\ ReadyIsTrue

ProcessInv ==
  /\ ProcessTypeOK
  /\ GuardsInv
  /\ PortsInv
  /\ CallsInv
  /\ ProbeInv

-----------------------------------------------------------------------------
(* Main.                                                                   *)

LEMMA NoProbeFits ==
  /\ NoProbe.state = "idle"
  /\ NoProbe.answer = [b \in Backend |-> "unasked"]
  /\ NoProbe \in [state : {"idle", "asking", "ready", "unready"},
                  answer : [Backend -> {"unasked", "serving", "down", "hung", "late"}]]
BY DEF NoProbe

\* A process that serves nothing.
FreshStart ==
  /\ cfg \in Config /\ pc \in {"config", "exited"}
  /\ listener = [p \in Port |-> "none"] /\ ctx = "live" /\ stop = "waiting"
  /\ calls = {} /\ probe = NoProbe

LEMMA FreshProcess == FreshStart => ProcessInv
<1> SUFFICES ASSUME FreshStart PROVE ProcessInv
  OBVIOUS
<1> USE DEF FreshStart
<1>1. IsFiniteSet(calls) /\ Cardinality(calls) = 0
  BY FS_EmptySet
<1>2. OpenCalls = 0
  BY <1>1, NoProbeFits DEF OpenCalls
<1>3. ProcessTypeOK
  BY <1>2, NoProbeFits, LifecycleAssumption DEF ProcessTypeOK, Port
<1>4. GuardsInv
  BY DEF GuardsInv, Dialled, Proofed, Postured, Wired, Secured, Bound
<1>5. PortsInv
  BY DEF PortsInv, Bound, Port
<1>6. CallsInv
  BY <1>1 DEF CallsInv
<1>7. ProbeInv
  BY NoProbeFits, LifecycleAssumption DEF ProbeInv, ReadyIsTrue
<1> QED BY <1>3, <1>4, <1>5, <1>6, <1>7 DEF ProcessInv

LEMMA ProcessInitInv == ProcessInit => ProcessInv
BY FreshProcess DEF ProcessInit, FreshStart

\* A process that ends leaves nothing behind.
LEMMA ExitInv ==
  ASSUME ProcessInv, Exit, UNCHANGED cfg
  PROVE  ProcessInv'
<1>1. cfg' \in Config
  BY DEF ProcessInv, ProcessTypeOK
<1>2. FreshStart'
  BY <1>1 DEF Exit, FreshStart, NoProbe
<1>3. (FreshStart => ProcessInv)'
  BY FreshProcess, PTL
<1> QED BY <1>2, <1>3

\* A step of main that passes its guard and binds nothing.
LEMMA PassInv ==
  ASSUME ProcessInv, NEW here, NEW next, Pass(here, next), GuardsInv',
         next \in Bound <=> here \in Bound,
         next \in {"config", "backends", "authn", "authz", "middleware", "rest",
                   "security", "internal", "root", "internalREST", "tls", "serving"},
         here # "serving"
  PROVE  ProcessInv'
<1>1. ProcessTypeOK'
  BY DEF Pass, ProcessInv, ProcessTypeOK, OpenCalls
<1>2. PortsInv'
  BY DEF Pass, ProcessInv, PortsInv, ExternalListenerClientAuth
<1>3. CallsInv'
  BY DEF Pass, ProcessInv, CallsInv, authorizeInternalCaller
<1>4. ProbeInv'
  BY DEF Pass, ProcessInv, ProbeInv, ReadyIsTrue, Late
<1> QED BY <1>1, <1>2, <1>3, <1>4 DEF ProcessInv

\* A step of main that binds port p: the internal one first.
LEMMA BindInv ==
  ASSUME ProcessInv, NEW here, NEW next, NEW p \in Port,
         pc = here, pc' = next, listener' = [listener EXCEPT ![p] = "open"],
         UNCHANGED <<cfg, ctx, stop, calls, probe>>, GuardsInv',
         next \in Bound, here # "serving", p = "internal" \/ here \in Bound,
         p = "tls" => ExternalListenerClientAuth
  PROVE  ProcessInv'
<1>1. ProcessTypeOK'
  BY DEF ProcessInv, ProcessTypeOK, OpenCalls, Bound
<1>2. PortsInv'
  BY DEF ProcessInv, ProcessTypeOK, PortsInv, ExternalListenerClientAuth
<1>3. CallsInv'
  BY DEF ProcessInv, ProcessTypeOK, CallsInv, authorizeInternalCaller
<1>4. ProbeInv'
  BY DEF ProcessInv, ProbeInv, ReadyIsTrue, Late
<1> QED BY <1>1, <1>2, <1>3, <1>4 DEF ProcessInv

\* A step of main either ends the process or passes its guard.
LEMMA CheckInv ==
  ASSUME ProcessInv, NEW here, NEW ok, NEW next, Check(here, ok, next),
         ok /\ pc = here /\ pc' = next /\ UNCHANGED cfg => GuardsInv',
         next \in Bound <=> here \in Bound, here # "serving",
         next \in {"backends", "authn", "authz", "middleware", "rest", "security",
                   "internal", "root", "internalREST", "tls", "serving"}
  PROVE  ProcessInv'
<1>1. CASE Fatal(here)
  BY <1>1, ExitInv DEF Fatal
<1>2. CASE ok /\ Pass(here, next)
  <2>1. GuardsInv'
    BY <1>2 DEF Pass
  <2> QED BY <1>2, <2>1, PassInv
<1> QED BY <1>1, <1>2 DEF Check

LEMMA BootInv == ASSUME ProcessInv, Boot PROVE ProcessInv'
<1> USE DEF GuardsInv, Dialled, Proofed, Postured, Wired, Secured, Bound,
            EdgeTLSClient, buildDPoP, validateProductionAuthzConfig,
            buildAuthzMiddleware, buildInternalListenerSecurity,
            validateProductionInternalListener
<1>0. GuardsInv
  BY DEF ProcessInv
<1>1. CASE Load
  BY <1>0, <1>1, CheckInv DEF Load
<1>2. CASE DialBackends
  BY <1>0, <1>2, CheckInv DEF DialBackends
<1>3. CASE WireAuthn
  <2>1. PICK built \in BOOLEAN : Check("authn", buildDPoP(built), "authz")
    BY <1>3 DEF WireAuthn
  <2> QED BY <1>0, <2>1, CheckInv
<1>4. CASE ValidateAuthz
  BY <1>0, <1>4, CheckInv DEF ValidateAuthz
<1>5. CASE WireAuthz
  BY <1>0, <1>5, CheckInv DEF WireAuthz
<1>6. CASE WireREST
  BY <1>0, <1>6, CheckInv DEF WireREST
<1>7. CASE InternalSecurity
  BY <1>0, <1>7, CheckInv DEF InternalSecurity
<1>8. ASSUME \E here : Fatal(here) PROVE ProcessInv'
  BY <1>8, ExitInv DEF Fatal
<1>9. CASE ListenInternal
  BY <1>0, <1>8, <1>9, BindInv DEF ListenInternal, Listen, Port
<1>10. CASE ListenRoot
  BY <1>0, <1>8, <1>10, BindInv DEF ListenRoot, Listen, Port
<1>11. CASE ListenInternalREST
  <2>1. CASE Pass("internalREST", "tls")
    BY <1>0, <2>1, PassInv DEF Pass
  <2>2. CASE Listen("internalREST", "internalREST", TRUE, "tls")
    BY <1>0, <1>8, <2>2, BindInv DEF Listen, Port
  <2> QED BY <1>11, <2>1, <2>2 DEF ListenInternalREST
<1>12. CASE ListenTLS
  <2>1. CASE Pass("tls", "serving")
    BY <1>0, <2>1, PassInv DEF Pass
  <2>2. CASE Listen("tls", "tls", cfg.tlsPair /\ ExternalListenerClientAuth, "serving")
    BY <1>0, <1>8, <2>2, BindInv DEF Listen, Port
  <2> QED BY <1>12, <2>1, <2>2 DEF ListenTLS
<1> QED
  BY <1>1, <1>2, <1>3, <1>4, <1>5, <1>6, <1>7, <1>9, <1>10, <1>11, <1>12 DEF Boot

-----------------------------------------------------------------------------
(* The calls, the listeners and the shutdown.                              *)

\* A step that leaves main, its configuration and the probe alone, closes or kills
\* listeners and takes calls away.
LEMMA WindDownInv ==
  ASSUME ProcessInv,
         listener' \in [Port -> {"none", "open", "closed", "dead"}],
         \A p \in Port : listener'[p] = "none" <=> listener[p] = "none",
         calls' \subseteq calls,
         ctx' \in {"live", "signalled", "cancelled"},
         stop' \in {"waiting", "grpc", "internal", "http", "finished"},
         stop' # "waiting" => pc = "serving",
         UNCHANGED <<cfg, pc, probe>>
  PROVE  ProcessInv'
<1>1. /\ IsFiniteSet(calls') /\ Cardinality(calls') <= Cardinality(calls)
      /\ Cardinality(calls') \in Nat /\ Cardinality(calls) \in Nat
  BY FS_Subset, FS_CardinalityType DEF ProcessInv, CallsInv
<1>2. OpenCalls' <= MaxCalls
  BY <1>1, LifecycleAssumption DEF ProcessInv, ProcessTypeOK, OpenCalls
<1>3. ProcessTypeOK'
  BY <1>2 DEF ProcessInv, ProcessTypeOK
<1>4. GuardsInv'
  BY DEF ProcessInv, GuardsInv, EdgeTLSClient, buildDPoP,
         validateProductionAuthzConfig, buildAuthzMiddleware,
         buildInternalListenerSecurity, validateProductionInternalListener
<1>5. PortsInv'
  <2>1. "internal" \in Port /\ "tls" \in Port
    BY DEF Port
  <2>2. ASSUME pc \notin Bound
        PROVE  listener' = [p \in Port |-> "none"] /\ calls' = {}
    BY <2>2 DEF ProcessInv, PortsInv
  <2> QED BY <2>1, <2>2 DEF ProcessInv, PortsInv, ExternalListenerClientAuth
<1>6. CallsInv'
  <2>1. "tls" \in Port
    BY DEF Port
  <2> QED BY <1>1, <2>1 DEF ProcessInv, CallsInv, authorizeInternalCaller
<1>7. ProbeInv'
  BY DEF ProcessInv, ProbeInv, ReadyIsTrue, Late
<1> QED BY <1>3, <1>4, <1>5, <1>6, <1>7 DEF ProcessInv

LEMMA AcceptInv ==
  ASSUME ProcessInv, NEW p \in Port, NEW s \in Server,
         NEW x \in Identity \cup {Nobody}, Accept(p, s, x)
  PROVE  ProcessInv'
<1> DEFINE c == [port |-> p, server |-> s, peer |-> x]
<1>1. c \in PortCall /\ c.port = p /\ c.peer = x
  BY DEF PortCall
<1>2. /\ c \notin calls /\ calls' = calls \cup {c} /\ OpenCalls < MaxCalls
      /\ listener[p] = "open"
      /\ p = "internal" => authorizeInternalCaller(x)
      /\ UNCHANGED <<cfg, pc, listener, ctx, stop, probe>>
  BY DEF Accept, Accepting
<1> HIDE DEF c
<1>3. /\ IsFiniteSet(calls') /\ Cardinality(calls') = Cardinality(calls) + 1
      /\ Cardinality(calls) \in Nat
  BY <1>2, FS_AddElement, FS_CardinalityType DEF ProcessInv, CallsInv
<1>4. OpenCalls' <= MaxCalls
  BY <1>2, <1>3, LifecycleAssumption DEF OpenCalls
<1>5. ProcessTypeOK'
  BY <1>1, <1>2, <1>4 DEF ProcessInv, ProcessTypeOK
<1>6. GuardsInv'
  BY <1>2 DEF ProcessInv, GuardsInv, EdgeTLSClient, buildDPoP,
         validateProductionAuthzConfig, buildAuthzMiddleware,
         buildInternalListenerSecurity, validateProductionInternalListener
<1>7. PortsInv'
  BY <1>2 DEF ProcessInv, PortsInv, ExternalListenerClientAuth
<1>8. CallsInv'
  BY <1>1, <1>2, <1>3 DEF ProcessInv, CallsInv, authorizeInternalCaller
<1>9. ProbeInv'
  BY <1>2 DEF ProcessInv, ProbeInv, ReadyIsTrue, Late
<1> QED BY <1>5, <1>6, <1>7, <1>8, <1>9 DEF ProcessInv

\* cmux hands a connection on: only the server of a call changes.
LEMMA MatchInv ==
  ASSUME ProcessInv, NEW c \in calls, NEW s \in Server, Match(c, s)
  PROVE  ProcessInv'
<1>1. PICK p \in Port, t \in Server, x \in Identity \cup {Nobody} :
        c = [port |-> p, server |-> t, peer |-> x]
  BY DEF ProcessInv, ProcessTypeOK, PortCall
<1>2. PICK d : d = [c EXCEPT !.server = s]
  OBVIOUS
<1>3. d \in PortCall /\ d.port = c.port /\ d.peer = c.peer
  BY <1>1, <1>2 DEF PortCall
<1>4. /\ d \notin calls /\ calls' = (calls \ {c}) \cup {d}
      /\ UNCHANGED <<cfg, pc, listener, ctx, stop, probe>>
  BY <1>2 DEF Match
<1>5. /\ IsFiniteSet(calls') /\ Cardinality(calls') = Cardinality(calls)
      /\ Cardinality(calls) \in Nat
  <2>1. PICK rest : rest = calls \ {c}
    OBVIOUS
  <2>2. /\ IsFiniteSet(rest) /\ Cardinality(rest) = Cardinality(calls) - 1
        /\ Cardinality(calls) \in Nat
    BY <2>1, FS_RemoveElement, FS_CardinalityType DEF ProcessInv, CallsInv
  <2>3. /\ IsFiniteSet(rest \cup {d}) /\ Cardinality(rest \cup {d}) = Cardinality(rest) + 1
    BY <1>4, <2>1, <2>2, FS_AddElement
  <2> QED BY <1>4, <2>1, <2>2, <2>3
<1>6. ProcessTypeOK'
  BY <1>3, <1>4, <1>5 DEF ProcessInv, ProcessTypeOK, OpenCalls
<1>7. GuardsInv'
  BY <1>4 DEF ProcessInv, GuardsInv, EdgeTLSClient, buildDPoP,
         validateProductionAuthzConfig, buildAuthzMiddleware,
         buildInternalListenerSecurity, validateProductionInternalListener
<1>8. PortsInv'
  BY <1>4 DEF ProcessInv, PortsInv, ExternalListenerClientAuth
<1>9. CallsInv'
  BY <1>3, <1>4, <1>5 DEF ProcessInv, CallsInv, authorizeInternalCaller
<1>10. ProbeInv'
  BY <1>4 DEF ProcessInv, ProbeInv, ReadyIsTrue, Late
<1> QED BY <1>6, <1>7, <1>8, <1>9, <1>10 DEF ProcessInv

\* Closing listeners: a port that was not bound stays so.
LEMMA CloseAllFits ==
  ASSUME ProcessInv, NEW P
  PROVE  /\ CloseAll(P) \in [Port -> {"none", "open", "closed", "dead"}]
         /\ \A p \in Port : CloseAll(P)[p] = "none" <=> listener[p] = "none"
BY DEF CloseAll, ProcessInv, ProcessTypeOK

LEMMA StopInv == ASSUME ProcessInv, Stop PROVE ProcessInv'
<1>1. /\ ctx \in {"live", "signalled", "cancelled"}
      /\ stop # "waiting" => pc = "serving"
  BY DEF ProcessInv, ProcessTypeOK, PortsInv
<1>2. CASE StopGrpc
  BY <1>1, <1>2, CloseAllFits, WindDownInv DEF StopGrpc
<1>3. CASE StopInternal
  BY <1>1, <1>3, CloseAllFits, WindDownInv DEF StopInternal, stopGraceful
<1>4. CASE StopHTTP
  BY <1>1, <1>4, CloseAllFits, WindDownInv DEF StopHTTP, stopGraceful
<1>5. CASE CloseListeners
  BY <1>1, <1>5, CloseAllFits, WindDownInv DEF CloseListeners
<1> QED BY <1>2, <1>3, <1>4, <1>5 DEF Stop

\* A listener that dies, the return of its Serve, a call that ends, and SIGTERM.
LEMMA EventInv ==
  ASSUME ProcessInv,
         \/ \E p \in Port : Die(p) \/ ServeReturns(p)
         \/ \E c \in calls : Complete(c)
         \/ Terminate
  PROVE  ProcessInv'
<1>1. /\ ctx \in {"live", "signalled", "cancelled"}
      /\ stop \in {"waiting", "grpc", "internal", "http", "finished"}
      /\ stop # "waiting" => pc = "serving"
      /\ listener \in [Port -> {"none", "open", "closed", "dead"}]
  BY DEF ProcessInv, ProcessTypeOK, PortsInv
<1>2. ASSUME NEW p \in Port, Die(p) PROVE ProcessInv'
  BY <1>1, <1>2, WindDownInv DEF Die
<1>3. ASSUME NEW p \in Port, ServeReturns(p) PROVE ProcessInv'
  BY <1>1, <1>3, WindDownInv DEF ServeReturns
<1>4. ASSUME NEW c \in calls, Complete(c) PROVE ProcessInv'
  BY <1>1, <1>4, WindDownInv DEF Complete
<1>5. CASE Terminate
  <2>1. CASE pc = "config" \/ ctx = "cancelled"
    BY <1>5, <2>1, ExitInv DEF Terminate
  <2>2. CASE ~(pc = "config" \/ ctx = "cancelled")
    BY <1>1, <1>5, <2>2, WindDownInv DEF Terminate
  <2> QED BY <2>1, <2>2
<1> QED BY <1>2, <1>3, <1>4, <1>5

LEMMA RestartInv == ASSUME ProcessInv, Restart PROVE ProcessInv'
<1>1. Pass("exited", "config")
  BY DEF Restart, Pass
<1>2. GuardsInv'
  BY DEF Restart, GuardsInv, Dialled, Proofed, Postured, Wired, Secured, Bound
<1> QED BY <1>1, <1>2, PassInv DEF Bound

-----------------------------------------------------------------------------
(* The readiness probe.                                                    *)

\* A step that changes only the probe, and counts it as the calls leave room.
LEMMA ProbeStep ==
  ASSUME ProcessInv, ProbeInv', UNCHANGED <<cfg, pc, listener, ctx, stop, calls>>,
         OpenCalls' <= MaxCalls
  PROVE  ProcessInv'
<1>1. ProcessTypeOK'
  BY DEF ProcessInv, ProcessTypeOK, ProbeInv
<1>2. GuardsInv'
  BY DEF ProcessInv, GuardsInv, EdgeTLSClient, buildDPoP,
         validateProductionAuthzConfig, buildAuthzMiddleware,
         buildInternalListenerSecurity, validateProductionInternalListener
<1>3. PortsInv'
  BY DEF ProcessInv, PortsInv, ExternalListenerClientAuth
<1>4. CallsInv'
  BY DEF ProcessInv, CallsInv, authorizeInternalCaller
<1> QED BY <1>1, <1>2, <1>3, <1>4 DEF ProcessInv

LEMMA ReadyzInv ==
  ASSUME ProcessInv,
         \/ ReadyzBegin \/ (\E b \in Backend : CheckBackend(b))
         \/ ReadyzAnswer \/ ReadyzEnd
  PROVE  ProcessInv'
<1> DEFINE Probe == [state : {"idle", "asking", "ready", "unready"},
                     answer : [Backend -> {"unasked", "serving", "down", "hung", "late"}]]
<1>1. Cardinality(calls) \in Nat
  BY FS_CardinalityType DEF ProcessInv, CallsInv
<1>2. probe \in Probe
  BY DEF ProcessInv, ProbeInv
<1>3. CASE ReadyzBegin
  <2>1. probe' \in Probe /\ probe'.state = "asking"
        /\ \A b \in Backend : probe'.answer[b] = "unasked"
    BY <1>3 DEF ReadyzBegin, NoProbe
  <2>2. OpenCalls' <= MaxCalls
    BY <1>1, <1>3, <2>1, LifecycleAssumption DEF ReadyzBegin, OpenCalls
  <2>3. ProbeInv'
    BY <2>1 DEF ProbeInv, ReadyIsTrue
  <2> QED BY <1>3, <2>2, <2>3, ProbeStep DEF ReadyzBegin
<1>4. ASSUME NEW b \in Backend, CheckBackend(b) PROVE ProcessInv'
  <2>1. PICK a \in IF Late THEN {"late"} ELSE {"serving", "down", "hung"} :
          probe' = [probe EXCEPT !.answer[b] = a]
    BY <1>4 DEF CheckBackend
  <2>2. /\ a \in {"serving", "down", "hung", "late"}
        /\ a = "late" => Late
    BY <2>1
  <2>3. /\ probe.state = "asking" /\ probe.answer[b] = "unasked"
        /\ UNCHANGED <<cfg, pc, listener, ctx, stop, calls>>
    BY <1>4 DEF CheckBackend
  <2>4. probe' \in Probe /\ probe'.state = "asking"
        /\ probe'.answer = [probe.answer EXCEPT ![b] = a]
    BY <1>2, <2>1, <2>2, <2>3
  <2>5. OpenCalls' <= MaxCalls
    BY <2>3, <2>4 DEF ProcessInv, ProcessTypeOK, OpenCalls
  <2>6. Late => Late'
    BY <1>2, <2>3, <2>4 DEF Late
  <2>7. (\E d \in Backend : probe'.answer[d] = "late") => Late'
    BY <1>2, <2>2, <2>4, <2>6 DEF ProcessInv, ProbeInv
  <2>8. ProbeInv'
    BY <2>4, <2>7 DEF ProbeInv, ReadyIsTrue
  <2> QED BY <2>3, <2>5, <2>8, ProbeStep
<1>5. CASE ReadyzAnswer
  <2> DEFINE serving == {b \in Backend : probe.answer[b] = "serving"}
             verdict == IF EvaluateReadiness(serving) THEN "ready" ELSE "unready"
  <2>1. /\ probe.state = "asking"
        /\ \A b \in Backend : probe.answer[b] # "unasked"
        /\ probe' = [probe EXCEPT !.state = verdict]
        /\ UNCHANGED <<cfg, pc, listener, ctx, stop, calls>>
    BY <1>5 DEF ReadyzAnswer
  <2>2. /\ verdict \in {"ready", "unready"}
        /\ verdict = "ready" => Critical \subseteq serving
        /\ verdict = "unready" => ~(Critical \subseteq serving)
    BY DEF EvaluateReadiness
  <2> HIDE DEF verdict
  <2>3. probe' \in Probe /\ probe'.state = verdict /\ probe'.answer = probe.answer
    BY <1>2, <2>1, <2>2
  <2>4. OpenCalls' <= MaxCalls
    BY <2>1, <2>2, <2>3 DEF ProcessInv, ProcessTypeOK, OpenCalls
  <2>5. Late' <=> Late
    BY <2>3 DEF Late
  <2>6. ASSUME verdict = "unready", ~Late
        PROVE  \E b \in Critical : probe.answer[b] = "down"
    <3>1. PICK b \in Critical : b \notin serving
      BY <2>2, <2>6
    <3>2. /\ b \in Backend /\ probe.answer[b] # "serving" /\ probe.answer[b] # "unasked"
          /\ probe.answer[b] # "hung" /\ probe.answer[b] # "late"
      BY <2>1, <2>6, <3>1, LifecycleAssumption DEF ProcessInv, ProbeInv, Late
    <3>3. probe.answer[b] \in {"unasked", "serving", "down", "hung", "late"}
      BY <1>2, <3>2
    <3> QED BY <3>1, <3>2, <3>3
  <2>7. ReadyIsTrue'
    BY <2>2, <2>3, <2>5, <2>6 DEF ReadyIsTrue
  <2>8. ProbeInv'
    BY <2>3, <2>5, <2>7 DEF ProcessInv, ProbeInv
  <2> QED BY <2>1, <2>4, <2>8, ProbeStep
<1>6. CASE ReadyzEnd
  <2>1. probe' \in Probe /\ probe'.state = "idle"
        /\ \A b \in Backend : probe'.answer[b] = "unasked"
    BY <1>6, NoProbeFits DEF ReadyzEnd, NoProbe
  <2>2. OpenCalls' <= MaxCalls
    BY <1>1, <1>6, <2>1, LifecycleAssumption
    DEF ReadyzEnd, ProcessInv, ProcessTypeOK, OpenCalls
  <2>3. ProbeInv'
    BY <2>1 DEF ProbeInv, ReadyIsTrue
  <2> QED BY <1>6, <2>2, <2>3, ProbeStep DEF ReadyzEnd
<1> QED BY <1>3, <1>4, <1>5, <1>6

-----------------------------------------------------------------------------
(* The theorems of the process.                                            *)

LEMMA ProcessNextInv ==
  ASSUME ProcessInv, [ProcessNext]_processVars
  PROVE  ProcessInv'
<1>1. CASE MainReturns
  BY <1>1, ExitInv DEF MainReturns
<1>2. CASE Serve
  BY <1>2, AcceptInv, MatchInv, EventInv, ReadyzInv DEF Serve
<1>3. CASE UNCHANGED processVars
  <2>1. /\ ctx' = ctx /\ stop' = stop /\ UNCHANGED <<cfg, pc, listener, calls, probe>>
    BY <1>3 DEF processVars
  <2> QED BY <2>1, WindDownInv DEF ProcessInv, ProcessTypeOK, PortsInv
<1> QED BY <1>1, <1>2, <1>3, BootInv, StopInv, RestartInv, EventInv DEF ProcessNext

\* A position of main, the ports, the calls and the probe agree in every reachable
\* state of the process, whatever the configuration.
THEOREM ProcessInvariant == ProcessSpec => []ProcessInv
BY ProcessInitInv, ProcessNextInv, PTL DEF ProcessSpec

\* A process that listens or serves was started with a posture that may serve, for
\* every configuration, backend and identity, and however many calls are open.
THEOREM ServingValidated == ProcessSpec => []ServingIsValidated
<1>1. ProcessInv => ServingIsValidated
  <2> SUFFICES ASSUME ProcessInv PROVE ServingIsValidated
    OBVIOUS
  <2>1. ASSUME (\E p \in Port : listener[p] = "open") \/ calls # {} PROVE pc \in Bound
    BY <2>1 DEF ProcessInv, PortsInv
  <2>2. ASSUME pc \in Bound
        PROVE  /\ cfg.env \notin DevClass =>
                    cfg.authz /\ ~cfg.failOpen /\ cfg.production /\ ~cfg.devSecret
               /\ cfg.edge => cfg.clientCert /\ cfg.ca
               /\ cfg.authz \/ cfg.dpop => cfg.catalog
               /\ listener["internal"] # "none"
    BY <2>2
    DEF ProcessInv, PortsInv, GuardsInv, Dialled, Proofed, Postured, Wired, Secured,
        EdgeTLSClient, buildDPoP, validateProductionAuthzConfig, buildAuthzMiddleware
  <2>3. ASSUME NEW c \in calls
        PROVE  /\ c.port = "internal" /\ c.peer \notin cfg.allowed =>
                    ~cfg.internalMTLS /\ cfg.bare /\ cfg.env \in DevClass
               /\ c.port = "tls" /\ cfg.hybrid => cfg.ca
    BY <2>1, <2>3
    DEF ProcessInv, PortsInv, CallsInv, GuardsInv, Secured, authorizeInternalCaller,
        validateProductionInternalListener, ExternalListenerClientAuth
  <2> QED BY <2>1, <2>2, <2>3 DEF ProcessInv, ServingIsValidated
<1> QED BY <1>1, ProcessInvariant, PTL

\* /readyz is 200 only when every critical backend answered SERVING, and 503 only for
\* a critical backend that is down or a deadline that one backend used up.
THEOREM ReadinessIsTrue == ProcessSpec => []ReadyIsTrue
<1>1. ProcessInv => ReadyIsTrue
  BY DEF ProcessInv, ProbeInv
<1> QED BY <1>1, ProcessInvariant, PTL

-----------------------------------------------------------------------------
(***************************************************************************)
(* StreamProxy, for any number of frames on either side.                   *)
(*                                                                         *)
(* The frames of one direction that are still in flight, those in the hands*)
(* of the goroutine included, are at every moment the next ones in order;  *)
(* and a goroutine that reports an end has passed on every frame before it.*)
(***************************************************************************)

(* The frames in flight, front to back, count from one.                    *)

\* A frame that is sent is queued behind the others.
LEMMA CountSent ==
  ASSUME NEW s \in Seq(Nat), NEW t \in Seq(Nat), NEW n \in Nat, IsCount(s \o t, n)
  PROVE  IsCount(s \o Append(t, n + 1), n + 1)
BY DEF IsCount

\* A frame is taken from the queue, and is in the goroutine's hands.
LEMMA CountTaken ==
  ASSUME NEW s \in Seq(Nat), NEW t \in Seq(Nat), NEW n \in Nat, IsCount(s \o t, n),
         t # <<>>
  PROVE  IsCount(s \o <<Head(t)>> \o Tail(t), n)
<1> DEFINE h == <<Head(t)>>
           u == Tail(t)
<1>1. /\ h \in Seq(Nat) /\ Len(h) = 1 /\ h[1] = t[1]
      /\ u \in Seq(Nat) /\ Len(t) = 1 + Len(u) /\ Len(u) \in Nat
      /\ \A i \in 1..Len(u) : u[i] = t[i + 1]
  BY HeadTailProperties
<1>2. s \o h \o u = s \o (h \o u)
  BY <1>1, ConcatAssociative
<1> HIDE DEF h, u
<1>3. /\ h \o u \in Seq(Nat) /\ Len(h \o u) = Len(t)
      /\ \A i \in 1..Len(t) : (h \o u)[i] = t[i]
  <2>1. /\ h \o u \in Seq(Nat) /\ Len(h \o u) = Len(h) + Len(u)
        /\ \A i \in 1..Len(h) + Len(u) :
              (h \o u)[i] = IF i <= Len(h) THEN h[i] ELSE u[i - Len(h)]
    BY <1>1, ConcatProperties
  <2>2. ASSUME NEW i \in 1..Len(t) PROVE (h \o u)[i] = t[i]
    <3>1. CASE i = 1
      BY <1>1, <2>1, <3>1
    <3>2. CASE i # 1
      <4>1. i - 1 \in 1..Len(u) /\ i \in 1..Len(h) + Len(u) /\ ~(i <= Len(h))
        BY <1>1, <3>2
      <4>2. u[i - 1] = t[(i - 1) + 1]
        BY <1>1, <4>1
      <4>3. (h \o u)[i] = u[i - 1]
        BY <1>1, <2>1, <4>1
      <4> QED BY <4>2, <4>3
    <3> QED BY <3>1, <3>2
  <2> QED BY <1>1, <2>1, <2>2
<1>4. h \o u = t
  BY <1>3, SeqEqual
<1>5. IsCount(s \o h \o u, n)
  BY <1>2, <1>4
<1> QED BY <1>5 DEF h, u

\* It is delivered.
LEMMA CountDelivered ==
  ASSUME NEW s \in Seq(Nat), NEW t \in Seq(Nat), NEW f \in Nat, NEW n \in Nat,
         IsCount(s \o <<f>> \o t, n)
  PROVE  IsCount(Append(s, f) \o t, n)
BY DEF IsCount

\* Nothing is in flight.
LEMMA CountDrained ==
  ASSUME NEW s \in Seq(Nat), NEW n \in Nat, IsCount(s \o <<>>, n)
  PROVE  IsCount(s, n)
BY DEF IsCount

LEMMA CountHeldNothing ==
  ASSUME NEW s \in Seq(Nat), NEW t \in Seq(Nat), NEW n \in Nat, IsCount(s \o t, n)
  PROVE  IsCount(s \o <<>> \o t, n)
BY DEF IsCount

\* A frame is sent while the goroutine holds another.
LEMMA CountSentHolding ==
  ASSUME NEW s \in Seq(Nat), NEW t \in Seq(Nat), NEW f \in Nat, NEW n \in Nat,
         IsCount(s \o <<f>> \o t, n)
  PROVE  IsCount(s \o <<f>> \o Append(t, n + 1), n + 1)
<1>1. s \o <<f>> \in Seq(Nat)
  OBVIOUS
<1> QED BY <1>1, CountSent

-----------------------------------------------------------------------------
(* The invariant.                                                          *)

\* Before the handler has opened the backend stream there is no goroutine.
OpenedInv ==
  /\ handler.pc = "new" =>
        sender.pc = "off" /\ receiver.pc = "off" /\ handler.taken = 0
  /\ handler.pc = "open" => sender.pc # "off" /\ receiver.pc # "off" /\ handler.taken < 2
  /\ sender.pc = "off" => receiver.pc = "off" /\ errCh = <<>>

\* Requests: what the sender has not relayed is still whole, cancelled or not, until
\* it gives up; and it posts nil only for a half-close, after the last frame.
RequestsInv ==
  /\ sender.pc \in {"off", "recv"} => IsCount(backend.got \o up, client.sent)
  /\ sender.pc = "send" => IsCount(backend.got \o <<sender.frame>> \o up, client.sent)
  /\ sender.pc \in {"post", "ended"} =>
        /\ sender.err \in {Nil, "eof", "canceled"}
        /\ sender.err = Nil =>
              client.halfClosed /\ backend.halfClosed /\ IsCount(backend.got, client.sent)

\* Responses: the same, and the backend's status is read after its last frame.
ResponsesInv ==
  /\ receiver.pc \in {"off", "header", "recv"} => IsCount(client.got \o down, backend.sent)
  /\ receiver.pc = "send" =>
        IsCount(client.got \o <<receiver.frame>> \o down, backend.sent)
  /\ receiver.pc \in {"trailer", "post", "ended"} =>
        /\ receiver.err \in {Nil, "failed", "canceled"}
        /\ receiver.err # "canceled" =>
              /\ backend.status = (IF receiver.err = Nil THEN "ok" ELSE "failed")
              /\ IsCount(client.got, backend.sent)

\* The header and the trailer are relayed while the handler runs.  The header may be
\* missed only by a client that cancelled before there was one, and then there is
\* never a status.
MetadataInv ==
  /\ backend.status # Nil => backend.header
  /\ receiver.pc \in {"recv", "send", "trailer", "post", "ended"}
        /\ handler.pc # "returned" /\ backend.header => client.header
  /\ receiver.pc \in {"recv", "send", "trailer", "post", "ended"}
        /\ handler.pc # "returned" /\ ~backend.header => client.canceled
  /\ receiver.pc \in {"post", "ended"} /\ receiver.err # "canceled"
        /\ handler.pc # "returned" => client.trailer

\* errCh holds the results of the goroutines that have ended, without those taken.
SenderEnded(e) == sender.pc = "ended" /\ sender.err = e
ReceiverEnded(e) == receiver.pc = "ended" /\ receiver.err = e

ErrChInv ==
  handler.pc = "open" =>
    /\ handler.taken = 0 =>
         \/ errCh = <<>> /\ sender.pc # "ended" /\ receiver.pc # "ended"
         \/ Len(errCh) = 1 /\ SenderEnded(errCh[1]) /\ receiver.pc # "ended"
         \/ Len(errCh) = 1 /\ ReceiverEnded(errCh[1]) /\ sender.pc # "ended"
         \/ Len(errCh) = 2 /\ SenderEnded(errCh[1]) /\ ReceiverEnded(errCh[2])
         \/ Len(errCh) = 2 /\ ReceiverEnded(errCh[1]) /\ SenderEnded(errCh[2])
    /\ handler.taken = 1 =>
         \/ errCh = <<>> /\ SenderEnded(Nil) /\ receiver.pc # "ended"
         \/ errCh = <<>> /\ ReceiverEnded(Nil) /\ sender.pc # "ended"
         \/ Len(errCh) = 1 /\ SenderEnded(Nil) /\ ReceiverEnded(errCh[1])
         \/ Len(errCh) = 1 /\ ReceiverEnded(Nil) /\ SenderEnded(errCh[1])

StreamInv ==
  /\ StreamTypeOK
  /\ OpenedInv
  /\ RequestsInv
  /\ ResponsesInv
  /\ MetadataInv
  /\ ErrChInv
  /\ ResultIsComplete

LEMMA StreamInitInv == StreamInit => StreamInv
<1> SUFFICES ASSUME StreamInit PROVE StreamInv
  OBVIOUS
<1>1. StreamTypeOK
  BY DEF StreamInit, StreamTypeOK, ClientState, BackendState, SenderState,
         ReceiverState, HandlerState, Result, Status, Nil, ErrChCap
<1>2. OpenedInv /\ MetadataInv /\ ErrChInv /\ ResultIsComplete
  BY DEF StreamInit, OpenedInv, MetadataInv, ErrChInv, ResultIsComplete, Nil
<1>3. RequestsInv
  BY DEF StreamInit, RequestsInv, IsCount
<1>4. ResponsesInv
  BY DEF StreamInit, ResponsesInv, IsCount
<1> QED BY <1>1, <1>2, <1>3, <1>4 DEF StreamInv

-----------------------------------------------------------------------------
(* Every step preserves it.                                                *)

LEMMA ClientSent ==
  ASSUME NEW c \in ClientState PROVE [c EXCEPT !.sent = @ + 1] \in ClientState
BY DEF ClientState

LEMMA BackendSent ==
  ASSUME NEW b \in BackendState, NEW n \in Nat
  PROVE  [b EXCEPT !.sent = n, !.header = TRUE] \in BackendState
BY DEF BackendState

\* The client.
LEMMA ClientSendsInv ==
  ASSUME StreamInv, ClientSends
  PROVE  StreamInv'
<1>1. /\ client' = [client EXCEPT !.sent = @ + 1] /\ up' = Append(up, client.sent + 1)
      /\ ~client.halfClosed /\ handler.pc # "returned"
      /\ UNCHANGED <<backend, down, sender, receiver, errCh, handler>>
  BY DEF ClientSends, Canceled
<1>2. StreamTypeOK'
  <2>1. client \in ClientState /\ up \in Seq(Nat)
    BY DEF StreamInv, StreamTypeOK
  <2>2. client.sent \in Nat
    BY <2>1 DEF ClientState
  <2>3. client' \in ClientState
    BY <1>1, <2>1, ClientSent
  <2>4. up' \in Seq(Nat)
    BY <1>1, <2>1, <2>2
  <2> QED BY <1>1, <2>3, <2>4 DEF StreamInv, StreamTypeOK
<1> USE DEF StreamInv, StreamTypeOK, ClientState, BackendState, SenderState
<1>3. OpenedInv'
  BY <1>1 DEF OpenedInv
<1>4. RequestsInv'
  BY <1>1, CountSent, CountSentHolding DEF RequestsInv
<1>5. ResponsesInv'
  BY <1>1 DEF ResponsesInv
<1>6. MetadataInv'
  BY <1>1 DEF MetadataInv
<1>7. ErrChInv'
  BY <1>1 DEF ErrChInv, SenderEnded, ReceiverEnded
<1>8. ResultIsComplete'
  BY <1>1 DEF ResultIsComplete
<1> QED BY <1>2, <1>3, <1>4, <1>5, <1>6, <1>7, <1>8

LEMMA ClientHalfClosesInv ==
  ASSUME StreamInv, ClientHalfCloses
  PROVE  StreamInv'
<1>1. /\ client' = [client EXCEPT !.halfClosed = TRUE]
      /\ UNCHANGED <<backend, up, down, sender, receiver, errCh, handler>>
  BY DEF ClientHalfCloses
<1>2. StreamTypeOK'
  BY <1>1 DEF StreamInv, StreamTypeOK, ClientState
<1> USE DEF StreamInv, StreamTypeOK, ClientState
<1>3. OpenedInv'
  BY <1>1 DEF OpenedInv
<1>4. RequestsInv'
  BY <1>1 DEF RequestsInv
<1>5. ResponsesInv'
  BY <1>1 DEF ResponsesInv
<1>6. MetadataInv'
  BY <1>1 DEF MetadataInv
<1>7. ErrChInv'
  BY <1>1 DEF ErrChInv, SenderEnded, ReceiverEnded
<1>8. ResultIsComplete'
  BY <1>1 DEF ResultIsComplete
<1> QED BY <1>2, <1>3, <1>4, <1>5, <1>6, <1>7, <1>8

LEMMA ClientCancelsInv ==
  ASSUME StreamInv, ClientCancels
  PROVE  StreamInv'
<1>1. /\ client' = [client EXCEPT !.canceled = TRUE]
      /\ UNCHANGED <<backend, up, down, sender, receiver, errCh, handler>>
  BY DEF ClientCancels
<1>2. StreamTypeOK'
  BY <1>1 DEF StreamInv, StreamTypeOK, ClientState
<1> USE DEF StreamInv, StreamTypeOK, ClientState
<1>3. OpenedInv'
  BY <1>1 DEF OpenedInv
<1>4. RequestsInv'
  BY <1>1 DEF RequestsInv
<1>5. ResponsesInv'
  BY <1>1 DEF ResponsesInv
<1>6. MetadataInv'
  BY <1>1 DEF MetadataInv
<1>7. ErrChInv'
  BY <1>1 DEF ErrChInv, SenderEnded, ReceiverEnded
<1>8. ResultIsComplete'
  BY <1>1 DEF ResultIsComplete
<1> QED BY <1>2, <1>3, <1>4, <1>5, <1>6, <1>7, <1>8

\* The backend speaks while the handler runs and it has not ended.
LEMMA BackendRespondsInv ==
  ASSUME StreamInv, BackendResponds
  PROVE  StreamInv'
<1>1. /\ backend' = [backend EXCEPT !.sent = @ + 1, !.header = TRUE]
      /\ down' = Append(down, backend.sent + 1)
      /\ handler.pc = "open" /\ backend.status = Nil /\ ~client.canceled
      /\ UNCHANGED <<client, up, sender, receiver, errCh, handler>>
  BY DEF BackendResponds, BackendLives, Canceled
<1>2. StreamTypeOK'
  <2>1. backend \in BackendState /\ down \in Seq(Nat)
    BY DEF StreamInv, StreamTypeOK
  <2>2. PICK n \in Nat : n = backend.sent + 1
    BY <2>1 DEF BackendState
  <2>3. backend' \in BackendState
    BY <1>1, <2>1, <2>2, BackendSent
  <2>4. down' \in Seq(Nat)
    BY <1>1, <2>1, <2>2
  <2> QED BY <1>1, <2>3, <2>4 DEF StreamInv, StreamTypeOK
<1> USE DEF StreamInv, StreamTypeOK, ClientState, BackendState, ReceiverState
<1>3. OpenedInv'
  BY <1>1 DEF OpenedInv
<1>4. RequestsInv'
  BY <1>1 DEF RequestsInv
<1>5. ResponsesInv'
  BY <1>1, CountSent, CountSentHolding DEF ResponsesInv, Nil
<1>6. MetadataInv'
  BY <1>1 DEF MetadataInv
<1>7. ErrChInv'
  BY <1>1 DEF ErrChInv, SenderEnded, ReceiverEnded
<1>8. ResultIsComplete'
  BY <1>1 DEF ResultIsComplete
<1> QED BY <1>2, <1>3, <1>4, <1>5, <1>6, <1>7, <1>8

LEMMA BackendEndsInv ==
  ASSUME StreamInv, NEW s \in Status, BackendEnds(s)
  PROVE  StreamInv'
<1>1. /\ backend' = [backend EXCEPT !.status = s, !.header = TRUE]
      /\ handler.pc = "open" /\ backend.status = Nil /\ ~client.canceled
      /\ UNCHANGED <<client, up, down, sender, receiver, errCh, handler>>
  BY DEF BackendEnds, BackendLives, Canceled
<1>2. StreamTypeOK'
  BY <1>1 DEF StreamInv, StreamTypeOK, BackendState
<1> USE DEF StreamInv, StreamTypeOK, BackendState
<1>3. OpenedInv'
  BY <1>1 DEF OpenedInv
<1>4. RequestsInv'
  BY <1>1 DEF RequestsInv
<1>5. ResponsesInv'
  BY <1>1 DEF ResponsesInv, Nil
<1>6. MetadataInv'
  BY <1>1 DEF MetadataInv
<1>7. ErrChInv'
  BY <1>1 DEF ErrChInv, SenderEnded, ReceiverEnded
<1>8. ResultIsComplete'
  BY <1>1 DEF ResultIsComplete
<1> QED BY <1>2, <1>3, <1>4, <1>5, <1>6, <1>7, <1>8

\* The handler.
LEMMA RefuseInv ==
  ASSUME StreamInv, NEW e \in {"notfound", "unavailable"}, Refuse(e)
  PROVE  StreamInv'
<1>1. /\ handler' = [handler EXCEPT !.pc = "returned", !.result = e]
      /\ UNCHANGED <<client, backend, up, down, sender, receiver, errCh>>
  BY DEF Refuse
<1>2. StreamTypeOK'
  BY <1>1 DEF StreamInv, StreamTypeOK, HandlerState, Result
<1> USE DEF StreamInv, StreamTypeOK, HandlerState
<1>3. OpenedInv'
  BY <1>1 DEF OpenedInv
<1>4. RequestsInv'
  BY <1>1 DEF RequestsInv
<1>5. ResponsesInv'
  BY <1>1 DEF ResponsesInv
<1>6. MetadataInv'
  BY <1>1 DEF MetadataInv
<1>7. ErrChInv'
  BY <1>1 DEF ErrChInv, SenderEnded, ReceiverEnded
<1>8. ResultIsComplete'
  BY <1>1 DEF ResultIsComplete, Nil
<1> QED BY <1>2, <1>3, <1>4, <1>5, <1>6, <1>7, <1>8

LEMMA OpenStreamInv ==
  ASSUME StreamInv, OpenStream
  PROVE  StreamInv'
<1>1. /\ handler.pc = "new" /\ handler' = [handler EXCEPT !.pc = "open"]
      /\ sender' = [sender EXCEPT !.pc = "recv"]
      /\ receiver' = [receiver EXCEPT !.pc = "header"]
      /\ UNCHANGED <<client, backend, up, down, errCh>>
  BY DEF OpenStream
<1>2. StreamTypeOK'
  BY <1>1 DEF StreamInv, StreamTypeOK, HandlerState, SenderState, ReceiverState
<1> USE DEF StreamInv, StreamTypeOK, HandlerState, SenderState, ReceiverState, OpenedInv
<1>3. OpenedInv'
  BY <1>1 DEF OpenedInv
<1>4. RequestsInv'
  BY <1>1 DEF RequestsInv
<1>5. ResponsesInv'
  BY <1>1 DEF ResponsesInv
<1>6. MetadataInv'
  BY <1>1 DEF MetadataInv
<1>7. ErrChInv'
  BY <1>1 DEF ErrChInv, SenderEnded, ReceiverEnded
<1>8. ResultIsComplete'
  BY <1>1 DEF ResultIsComplete
<1> QED BY <1>2, <1>3, <1>4, <1>5, <1>6, <1>7, <1>8

\* The result channel when one result is taken from it, and when one is posted.
LEMMA Popped ==
  ASSUME NEW c \in Seq(Result), Len(c) <= 2, c # <<>>
  PROVE  /\ c[1] \in Result /\ Tail(c) \in Seq(Result)
         /\ Len(c) \in {1, 2} /\ Len(Tail(c)) = Len(c) - 1
         /\ Len(c) = 1 => Tail(c) = <<>>
         /\ Len(c) = 2 => Tail(c)[1] = c[2]
<1>1. PICK n \in Nat \ {0} : n = Len(c)
  BY EmptySeq
<1>2. Len(c) \in {1, 2}
  BY <1>1
<1>3. Tail(c) \in Seq(Result) /\ Len(Tail(c)) = Len(c) - 1 /\ c[1] \in Result
  BY HeadTailProperties
<1>4. ASSUME Len(c) = 1 PROVE Tail(c) = <<>>
  <2>1. Len(Tail(c)) = 0
    BY <1>3, <1>4
  <2> QED BY <1>3, <2>1, EmptySeq
<1>5. ASSUME Len(c) = 2 PROVE Tail(c)[1] = c[2]
  <2>1. 1 \in 1..Len(Tail(c))
    BY <1>3, <1>5
  <2> QED BY <1>5, <2>1, HeadTailProperties
<1> QED BY <1>2, <1>3, <1>4, <1>5

LEMMA Posted ==
  ASSUME NEW c \in Seq(Result), Len(c) < 2, NEW e \in Result, NEW d, d = Append(c, e)
  PROVE  /\ d \in Seq(Result) /\ Len(d) <= 2
         /\ c = <<>> => Len(d) = 1 /\ d[1] = e
         /\ c # <<>> => Len(c) = 1 /\ Len(d) = 2 /\ d[1] = c[1] /\ d[2] = e
<1>1. PICK n \in Nat : n = Len(c)
  OBVIOUS
<1>2. /\ d \in Seq(Result) /\ Len(d) = n + 1 /\ d[n + 1] = e
      /\ \A i \in 1..n : d[i] = c[i]
  BY <1>1
<1>3. c = <<>> <=> n = 0
  BY <1>1, EmptySeq
<1>4. n = 0 \/ n = 1
  BY <1>1
<1> QED BY <1>1, <1>2, <1>3, <1>4

LEMMA TakeInv == ASSUME StreamInv, Take PROVE StreamInv'
<1> DEFINE r == errCh[1]
<1>1. /\ handler.pc = "open" /\ errCh # <<>> /\ errCh' = Tail(errCh)
      /\ handler'.pc = IF r # Nil \/ handler.taken = 1 THEN "returned" ELSE "open"
      /\ handler'.taken = handler.taken + 1 /\ handler'.result = r
      /\ UNCHANGED <<client, backend, up, down, sender, receiver>>
  BY DEF Take
<1>2. errCh \in Seq(Result) /\ Len(errCh) <= 2 /\ handler \in HandlerState
  BY DEF StreamInv, StreamTypeOK, ErrChCap
<1>3. handler.taken \in {0, 1} /\ sender.pc # "off" /\ receiver.pc # "off"
  BY <1>1, <1>2 DEF StreamInv, OpenedInv, HandlerState
<1>4. /\ r \in Result /\ Tail(errCh) \in Seq(Result)
      /\ Len(errCh) \in {1, 2} /\ Len(Tail(errCh)) = Len(errCh) - 1
      /\ Len(errCh) = 1 => Tail(errCh) = <<>>
      /\ Len(errCh) = 2 => Tail(errCh)[1] = errCh[2]
  BY <1>1, <1>2, Popped
<1> HIDE DEF r
<1>5. StreamTypeOK'
  <2>1. handler' = [pc |-> handler'.pc, taken |-> handler'.taken, result |-> r]
    BY DEF Take, r
  <2>2. handler' \in HandlerState
    BY <1>1, <1>3, <1>4, <2>1 DEF HandlerState
  <2> QED BY <1>1, <1>2, <1>4, <2>2 DEF StreamInv, StreamTypeOK, ErrChCap
<1>6. OpenedInv'
  BY <1>1, <1>3 DEF OpenedInv, StreamInv
<1>7. RequestsInv' /\ ResponsesInv'
  BY <1>1 DEF StreamInv, RequestsInv, ResponsesInv
<1>8. MetadataInv'
  BY <1>1 DEF StreamInv, MetadataInv
<1>9. ErrChInv'
  BY <1>1, <1>3, <1>4 DEF StreamInv, ErrChInv, SenderEnded, ReceiverEnded, r
<1>10. ASSUME handler'.pc = "returned", r \in {Nil, "failed"}
       PROVE  /\ ReceiverEnded(r)
              /\ r = Nil => SenderEnded(Nil)
  BY <1>1, <1>3, <1>4, <1>10
  DEF StreamInv, ErrChInv, RequestsInv, SenderEnded, ReceiverEnded, r, Nil
<1>11. ResultIsComplete'
  BY <1>1, <1>10
  DEF StreamInv, ResultIsComplete, RequestsInv, ResponsesInv, MetadataInv, SenderEnded,
      ReceiverEnded, Nil
<1> QED BY <1>5, <1>6, <1>7, <1>8, <1>9, <1>11 DEF StreamInv

\* The sender.
LEMMA Delivered ==
  ASSUME NEW s \in Seq(Nat), NEW f \in Nat PROVE Append(s, f) \in Seq(Nat)
OBVIOUS

LEMMA SenderRecvInv == ASSUME StreamInv, SenderRecv PROVE StreamInv'
<1>1. /\ client \in ClientState /\ backend \in BackendState /\ sender \in SenderState
      /\ up \in Seq(Nat) /\ sender.pc = "recv"
      /\ UNCHANGED <<client, down, receiver, errCh, handler>>
  BY DEF StreamInv, StreamTypeOK, SenderRecv
<1>2. IsCount(backend.got \o up, client.sent) /\ backend.got \in Seq(Nat) /\ client.sent \in Nat
  BY <1>1 DEF StreamInv, RequestsInv, ClientState, BackendState
<1>3. /\ sender' \in SenderState /\ backend' \in BackendState /\ up' \in Seq(Nat)
      /\ sender'.pc \in {"send", "post"}
      /\ backend'.got = backend.got /\ backend'.sent = backend.sent
      /\ backend'.header = backend.header /\ backend'.status = backend.status
      /\ backend.halfClosed => backend'.halfClosed
  <2>1. CASE up # <<>> /\ sender' = [sender EXCEPT !.pc = "send", !.frame = Head(up)]
             /\ up' = Tail(up) /\ UNCHANGED backend
    <3>1. PICK f \in Nat : f = Head(up)
      BY <1>1, <2>1
    <3>2. sender' \in SenderState /\ sender'.pc = "send"
      BY <1>1, <2>1, <3>1 DEF SenderState
    <3> QED BY <1>1, <2>1, <3>2
  <2>2. CASE CloseSend /\ sender' = [sender EXCEPT !.pc = "post", !.err = Nil] /\ UNCHANGED up
    BY <1>1, <2>2 DEF CloseSend, SenderState, BackendState, Result
  <2>3. CASE sender' = [sender EXCEPT !.pc = "post", !.err = "canceled"]
             /\ UNCHANGED <<up, backend>>
    BY <1>1, <2>3 DEF SenderState, Result
  <2> QED BY <2>1, <2>2, <2>3 DEF SenderRecv
<1>4. RequestsInv'
  <2>1. CASE up # <<>> /\ sender' = [sender EXCEPT !.pc = "send", !.frame = Head(up)]
             /\ up' = Tail(up) /\ UNCHANGED backend
    <3>1. sender'.pc = "send" /\ sender'.frame = Head(up)
      BY <1>1, <2>1 DEF SenderState
    <3> QED BY <1>1, <1>2, <2>1, <3>1, CountTaken DEF RequestsInv
  <2>2. CASE up = <<>> /\ client.halfClosed /\ CloseSend
             /\ sender' = [sender EXCEPT !.pc = "post", !.err = Nil]
    <3>1. sender'.pc = "post" /\ sender'.err = Nil /\ backend'.halfClosed
      BY <1>1, <2>2 DEF SenderState, BackendState, CloseSend
    <3>2. IsCount(backend.got, client.sent)
      BY <1>2, <2>2, CountDrained
    <3> QED BY <1>1, <1>3, <2>2, <3>1, <3>2 DEF RequestsInv
  <2>3. CASE sender' = [sender EXCEPT !.pc = "post", !.err = "canceled"]
    <3>1. sender'.pc = "post" /\ sender'.err = "canceled"
      BY <1>1, <2>3 DEF SenderState
    <3> QED BY <3>1 DEF RequestsInv, Nil
  <2> QED BY <2>1, <2>2, <2>3 DEF SenderRecv
<1>5. StreamTypeOK'
  BY <1>1, <1>3 DEF StreamInv, StreamTypeOK
<1>6. OpenedInv' /\ ResponsesInv' /\ MetadataInv'
  BY <1>1, <1>3 DEF StreamInv, OpenedInv, ResponsesInv, MetadataInv
<1>7. ErrChInv'
  BY <1>1, <1>3 DEF StreamInv, ErrChInv, SenderEnded, ReceiverEnded
<1>8. ResultIsComplete'
  BY <1>1, <1>3 DEF StreamInv, ResultIsComplete
<1> QED BY <1>4, <1>5, <1>6, <1>7, <1>8 DEF StreamInv

LEMMA SenderSendInv == ASSUME StreamInv, SenderSend PROVE StreamInv'
<1>1. /\ client \in ClientState /\ backend \in BackendState /\ sender \in SenderState
      /\ up \in Seq(Nat) /\ sender.pc = "send"
      /\ UNCHANGED <<client, up, down, receiver, errCh, handler>>
  BY DEF StreamInv, StreamTypeOK, SenderSend
<1>2. /\ IsCount(backend.got \o <<sender.frame>> \o up, client.sent)
      /\ backend.got \in Seq(Nat) /\ sender.frame \in Nat /\ client.sent \in Nat
  BY <1>1 DEF StreamInv, RequestsInv, ClientState, BackendState, SenderState
<1>3. CASE /\ backend.status = Nil
           /\ backend' = [backend EXCEPT !.got = Append(@, sender.frame)]
           /\ sender' = [sender EXCEPT !.pc = "recv", !.frame = 0]
  <2>1. PICK g \in Seq(Nat) : g = Append(backend.got, sender.frame)
    BY <1>2, Delivered
  <2>2. /\ backend' \in BackendState /\ backend'.got = g
        /\ backend'.sent = backend.sent /\ backend'.halfClosed = backend.halfClosed
        /\ backend'.header = backend.header /\ backend'.status = backend.status
    BY <1>1, <1>3, <2>1 DEF BackendState
  <2>3. sender' \in SenderState /\ sender'.pc = "recv"
    BY <1>1, <1>3 DEF SenderState
  <2>4. RequestsInv'
    BY <1>1, <1>2, <2>1, <2>2, <2>3, CountDelivered DEF RequestsInv
  <2>5. StreamTypeOK'
    BY <1>1, <2>2, <2>3 DEF StreamInv, StreamTypeOK
  <2>6. OpenedInv' /\ ResponsesInv' /\ MetadataInv'
    BY <1>1, <2>2, <2>3 DEF StreamInv, OpenedInv, ResponsesInv, MetadataInv
  <2>7. ErrChInv'
    BY <1>1, <2>3 DEF StreamInv, ErrChInv, SenderEnded, ReceiverEnded
  <2>8. ResultIsComplete'
    BY <1>1, <1>3, <2>2 DEF StreamInv, ResultIsComplete, Nil
  <2> QED BY <2>4, <2>5, <2>6, <2>7, <2>8 DEF StreamInv
<1>4. CASE sender' = [sender EXCEPT !.pc = "post", !.frame = 0, !.err = "eof"]
           /\ UNCHANGED backend
  <2>1. sender' \in SenderState /\ sender'.pc = "post" /\ sender'.err = "eof"
    BY <1>1, <1>4 DEF SenderState, Result
  <2>2. RequestsInv'
    BY <2>1 DEF RequestsInv, Nil
  <2>3. StreamTypeOK'
    BY <1>1, <1>4, <2>1 DEF StreamInv, StreamTypeOK
  <2>4. OpenedInv' /\ ResponsesInv' /\ MetadataInv'
    BY <1>1, <1>4, <2>1 DEF StreamInv, OpenedInv, ResponsesInv, MetadataInv
  <2>5. ErrChInv'
    BY <1>1, <2>1 DEF StreamInv, ErrChInv, SenderEnded, ReceiverEnded
  <2>6. ResultIsComplete'
    BY <1>1, <1>4 DEF StreamInv, ResultIsComplete
  <2> QED BY <2>2, <2>3, <2>4, <2>5, <2>6 DEF StreamInv
<1> QED BY <1>3, <1>4 DEF SenderSend

LEMMA SenderPostsInv == ASSUME StreamInv, SenderPosts PROVE StreamInv'
<1>1. /\ sender \in SenderState /\ errCh \in Seq(Result) /\ Len(errCh) < 2
      /\ sender.pc = "post" /\ errCh' = Append(errCh, sender.err)
      /\ sender' = [sender EXCEPT !.pc = "ended"]
      /\ UNCHANGED <<client, backend, up, down, receiver, handler>>
  BY DEF StreamInv, StreamTypeOK, SenderPosts, ErrChCap
<1>2. /\ sender' \in SenderState /\ sender'.pc = "ended" /\ sender'.err = sender.err
      /\ sender.err \in Result
  BY <1>1 DEF SenderState
<1>3. /\ errCh' \in Seq(Result) /\ Len(errCh') <= 2
      /\ errCh = <<>> => Len(errCh') = 1 /\ errCh'[1] = sender.err
      /\ errCh # <<>> =>
            /\ Len(errCh) = 1 /\ Len(errCh') = 2
            /\ errCh'[1] = errCh[1] /\ errCh'[2] = sender.err
  BY <1>1, <1>2, Posted
<1>4. StreamTypeOK'
  BY <1>1, <1>2, <1>3 DEF StreamInv, StreamTypeOK, ErrChCap
<1>5. OpenedInv'
  BY <1>1, <1>2 DEF StreamInv, OpenedInv
<1>6. RequestsInv'
  BY <1>1, <1>2 DEF StreamInv, RequestsInv
<1>7. ResponsesInv' /\ MetadataInv' /\ ResultIsComplete'
  BY <1>1 DEF StreamInv, ResponsesInv, MetadataInv, ResultIsComplete
<1>8. ErrChInv'
  <2> SUFFICES ASSUME handler.pc = "open" PROVE ErrChInv'
    BY <1>1 DEF ErrChInv
  <2>1. ErrChInv
    BY DEF StreamInv
  <2>2. CASE errCh = <<>>
    BY <1>1, <1>2, <1>3, <2>1, <2>2 DEF ErrChInv, SenderEnded, ReceiverEnded
  <2>3. CASE errCh # <<>>
    BY <1>1, <1>2, <1>3, <2>1, <2>3 DEF ErrChInv, SenderEnded, ReceiverEnded
  <2> QED BY <2>2, <2>3
<1> QED BY <1>4, <1>5, <1>6, <1>7, <1>8 DEF StreamInv

\* The receiver.
LEMMA ReceiverHeaderInv == ASSUME StreamInv, ReceiverHeader PROVE StreamInv'
<1>1. /\ client \in ClientState /\ receiver \in ReceiverState /\ receiver.pc = "header"
      /\ receiver' = [receiver EXCEPT !.pc = "recv"]
      /\ client' = [client EXCEPT !.header =
                      @ \/ (backend.header /\ handler.pc # "returned")]
      /\ UNCHANGED <<backend, up, down, sender, errCh, handler>>
  BY DEF StreamInv, StreamTypeOK, ReceiverHeader
<1>2. receiver' \in ReceiverState /\ receiver'.pc = "recv"
  BY <1>1 DEF ReceiverState
<1>3. /\ client' \in ClientState /\ client'.sent = client.sent /\ client'.got = client.got
      /\ client'.halfClosed = client.halfClosed /\ client'.canceled = client.canceled
      /\ client'.trailer = client.trailer
  BY <1>1 DEF ClientState
<1>4. /\ client.header => client'.header
      /\ backend.header /\ handler.pc # "returned" => client'.header
  BY <1>1 DEF ClientState
<1>5. ~backend.header => client.canceled \/ handler.pc = "returned"
  BY DEF ReceiverHeader, Canceled
<1>6. StreamTypeOK'
  BY <1>1, <1>2, <1>3 DEF StreamInv, StreamTypeOK
<1>7. OpenedInv'
  BY <1>1, <1>2 DEF StreamInv, OpenedInv
<1>8. RequestsInv' /\ ResponsesInv'
  BY <1>1, <1>2, <1>3 DEF StreamInv, RequestsInv, ResponsesInv
<1>9. MetadataInv'
  BY <1>1, <1>2, <1>3, <1>4, <1>5 DEF StreamInv, MetadataInv
<1>10. ErrChInv'
  BY <1>1, <1>2 DEF StreamInv, ErrChInv, SenderEnded, ReceiverEnded
<1>11. ResultIsComplete'
  BY <1>1, <1>3, <1>4 DEF StreamInv, ResultIsComplete
<1> QED BY <1>6, <1>7, <1>8, <1>9, <1>10, <1>11 DEF StreamInv

LEMMA ReceiverRecvInv == ASSUME StreamInv, ReceiverRecv PROVE StreamInv'
<1>1. /\ client \in ClientState /\ backend \in BackendState /\ receiver \in ReceiverState
      /\ down \in Seq(Nat) /\ receiver.pc = "recv"
      /\ UNCHANGED <<client, backend, up, sender, errCh, handler>>
  BY DEF StreamInv, StreamTypeOK, ReceiverRecv
<1>2. /\ IsCount(client.got \o down, backend.sent)
      /\ client.got \in Seq(Nat) /\ backend.sent \in Nat
      /\ backend.status \in {"ok", "failed", Nil}
  BY <1>1 DEF StreamInv, ResponsesInv, ClientState, BackendState, Status
<1>3. /\ receiver' \in ReceiverState /\ down' \in Seq(Nat)
      /\ receiver'.pc \in {"send", "trailer"} /\ ResponsesInv'
  <2>1. CASE /\ down # <<>> /\ down' = Tail(down)
             /\ receiver' = [receiver EXCEPT !.pc = "send", !.frame = Head(down)]
    <3>1. PICK f \in Nat : f = Head(down)
      BY <1>1, <2>1
    <3>2. receiver' \in ReceiverState /\ receiver'.pc = "send" /\ receiver'.frame = f
      BY <1>1, <2>1, <3>1 DEF ReceiverState
    <3>3. down' \in Seq(Nat)
      BY <1>1, <2>1
    <3>4. ResponsesInv'
      BY <1>1, <1>2, <2>1, <3>1, <3>2, CountTaken DEF ResponsesInv
    <3> QED BY <3>2, <3>3, <3>4
  <2>2. CASE /\ down = <<>> /\ backend.status # Nil /\ down' = down
             /\ receiver' = [receiver EXCEPT !.pc = "trailer",
                                             !.err = ResultOf(backend.status)]
    <3>1. PICK e \in {Nil, "failed"} :
            e = ResultOf(backend.status)
              /\ backend.status = (IF e = Nil THEN "ok" ELSE "failed")
      BY <1>2, <2>2 DEF ResultOf, Nil
    <3>2. receiver' \in ReceiverState /\ receiver'.pc = "trailer" /\ receiver'.err = e
      BY <1>1, <2>2, <3>1 DEF ReceiverState, Result
    <3>3. IsCount(client.got, backend.sent)
      BY <1>2, <2>2, CountDrained
    <3>4. ResponsesInv'
      BY <1>1, <3>1, <3>2, <3>3 DEF ResponsesInv
    <3> QED BY <1>1, <2>2, <3>2, <3>4
  <2>3. CASE receiver' = [receiver EXCEPT !.pc = "trailer", !.err = "canceled"]
             /\ down' = down
    <3>1. receiver' \in ReceiverState /\ receiver'.pc = "trailer"
          /\ receiver'.err = "canceled"
      BY <1>1, <2>3 DEF ReceiverState, Result
    <3>2. ResponsesInv'
      BY <1>1, <3>1 DEF ResponsesInv, Nil
    <3> QED BY <1>1, <2>3, <3>1, <3>2
  <2> QED BY <2>1, <2>2, <2>3 DEF ReceiverRecv
<1>4. StreamTypeOK'
  BY <1>1, <1>3 DEF StreamInv, StreamTypeOK
<1>5. OpenedInv' /\ RequestsInv'
  BY <1>1, <1>3 DEF StreamInv, OpenedInv, RequestsInv
<1>6. MetadataInv'
  BY <1>1, <1>3 DEF StreamInv, MetadataInv
<1>7. ErrChInv'
  BY <1>1, <1>3 DEF StreamInv, ErrChInv, SenderEnded, ReceiverEnded
<1>8. ResultIsComplete'
  BY <1>1 DEF StreamInv, ResultIsComplete
<1> QED BY <1>3, <1>4, <1>5, <1>6, <1>7, <1>8 DEF StreamInv

LEMMA ReceiverSendInv == ASSUME StreamInv, ReceiverSend PROVE StreamInv'
<1>1. /\ client \in ClientState /\ backend \in BackendState /\ receiver \in ReceiverState
      /\ down \in Seq(Nat) /\ receiver.pc = "send"
      /\ UNCHANGED <<backend, up, down, sender, errCh, handler>>
  BY DEF StreamInv, StreamTypeOK, ReceiverSend
<1>2. /\ IsCount(client.got \o <<receiver.frame>> \o down, backend.sent)
      /\ client.got \in Seq(Nat) /\ receiver.frame \in Nat /\ backend.sent \in Nat
  BY <1>1 DEF StreamInv, ResponsesInv, ClientState, BackendState, ReceiverState
<1>3. CASE /\ handler.pc # "returned"
           /\ client' = [client EXCEPT !.got = Append(@, receiver.frame)]
           /\ receiver' = [receiver EXCEPT !.pc = "recv", !.frame = 0]
  <2>1. PICK g \in Seq(Nat) : g = Append(client.got, receiver.frame)
    BY <1>2, Delivered
  <2>2. /\ client' \in ClientState /\ client'.got = g /\ client'.sent = client.sent
        /\ client'.halfClosed = client.halfClosed /\ client'.canceled = client.canceled
        /\ client'.header = client.header /\ client'.trailer = client.trailer
    BY <1>1, <1>3, <2>1 DEF ClientState
  <2>3. receiver' \in ReceiverState /\ receiver'.pc = "recv"
    BY <1>1, <1>3 DEF ReceiverState
  <2>4. ResponsesInv'
    BY <1>1, <1>2, <2>1, <2>2, <2>3, CountDelivered DEF ResponsesInv
  <2>5. StreamTypeOK'
    BY <1>1, <2>2, <2>3 DEF StreamInv, StreamTypeOK
  <2>6. OpenedInv' /\ RequestsInv' /\ MetadataInv'
    BY <1>1, <2>2, <2>3 DEF StreamInv, OpenedInv, RequestsInv, MetadataInv
  <2>7. ErrChInv'
    BY <1>1, <2>3 DEF StreamInv, ErrChInv, SenderEnded, ReceiverEnded
  <2>8. ResultIsComplete'
    BY <1>1, <1>3 DEF ResultIsComplete
  <2> QED BY <2>4, <2>5, <2>6, <2>7, <2>8 DEF StreamInv
<1>4. CASE receiver' = [receiver EXCEPT !.pc = "post", !.frame = 0, !.err = "canceled"]
           /\ UNCHANGED client
  <2>1. receiver' \in ReceiverState /\ receiver'.pc = "post" /\ receiver'.err = "canceled"
    BY <1>1, <1>4 DEF ReceiverState, Result
  <2>2. ResponsesInv'
    BY <2>1 DEF ResponsesInv, Nil
  <2>3. StreamTypeOK'
    BY <1>1, <1>4, <2>1 DEF StreamInv, StreamTypeOK
  <2>4. OpenedInv' /\ RequestsInv' /\ MetadataInv'
    BY <1>1, <1>4, <2>1 DEF StreamInv, OpenedInv, RequestsInv, MetadataInv
  <2>5. ErrChInv'
    BY <1>1, <2>1 DEF StreamInv, ErrChInv, SenderEnded, ReceiverEnded
  <2>6. ResultIsComplete'
    BY <1>1, <1>4 DEF StreamInv, ResultIsComplete
  <2> QED BY <2>2, <2>3, <2>4, <2>5, <2>6 DEF StreamInv
<1> QED BY <1>3, <1>4 DEF ReceiverSend

LEMMA ReceiverTrailerInv == ASSUME StreamInv, ReceiverTrailer PROVE StreamInv'
<1>1. /\ client \in ClientState /\ receiver \in ReceiverState /\ receiver.pc = "trailer"
      /\ receiver' = [receiver EXCEPT !.pc = "post"]
      /\ client' = [client EXCEPT !.trailer =
                      @ \/ (backend.status # Nil /\ handler.pc # "returned")]
      /\ UNCHANGED <<backend, up, down, sender, errCh, handler>>
  BY DEF StreamInv, StreamTypeOK, ReceiverTrailer
<1>2. receiver' \in ReceiverState /\ receiver'.pc = "post" /\ receiver'.err = receiver.err
  BY <1>1 DEF ReceiverState
<1>3. /\ client' \in ClientState /\ client'.sent = client.sent /\ client'.got = client.got
      /\ client'.halfClosed = client.halfClosed /\ client'.canceled = client.canceled
      /\ client'.header = client.header
  BY <1>1 DEF ClientState
<1>4. /\ client.trailer => client'.trailer
      /\ backend.status # Nil /\ handler.pc # "returned" => client'.trailer
  BY <1>1 DEF ClientState
<1>5. receiver.err # "canceled" => backend.status # Nil
  BY <1>1 DEF StreamInv, ResponsesInv, Nil
<1>6. StreamTypeOK'
  BY <1>1, <1>2, <1>3 DEF StreamInv, StreamTypeOK
<1>7. OpenedInv'
  BY <1>1, <1>2 DEF StreamInv, OpenedInv
<1>8. RequestsInv' /\ ResponsesInv'
  BY <1>1, <1>2, <1>3 DEF StreamInv, RequestsInv, ResponsesInv
<1>9. MetadataInv'
  BY <1>1, <1>2, <1>3, <1>4, <1>5 DEF StreamInv, MetadataInv
<1>10. ErrChInv'
  BY <1>1, <1>2 DEF StreamInv, ErrChInv, SenderEnded, ReceiverEnded
<1>11. ResultIsComplete'
  BY <1>1, <1>3, <1>4 DEF StreamInv, ResultIsComplete
<1> QED BY <1>6, <1>7, <1>8, <1>9, <1>10, <1>11 DEF StreamInv

LEMMA ReceiverPostsInv == ASSUME StreamInv, ReceiverPosts PROVE StreamInv'
<1>1. /\ receiver \in ReceiverState /\ errCh \in Seq(Result) /\ Len(errCh) < 2
      /\ receiver.pc = "post" /\ errCh' = Append(errCh, receiver.err)
      /\ receiver' = [receiver EXCEPT !.pc = "ended"]
      /\ UNCHANGED <<client, backend, up, down, sender, handler>>
  BY DEF StreamInv, StreamTypeOK, ReceiverPosts, ErrChCap
<1>2. /\ receiver' \in ReceiverState /\ receiver'.pc = "ended"
      /\ receiver'.err = receiver.err /\ receiver.err \in Result
  BY <1>1 DEF ReceiverState
<1>3. /\ errCh' \in Seq(Result) /\ Len(errCh') <= 2
      /\ errCh = <<>> => Len(errCh') = 1 /\ errCh'[1] = receiver.err
      /\ errCh # <<>> =>
            /\ Len(errCh) = 1 /\ Len(errCh') = 2
            /\ errCh'[1] = errCh[1] /\ errCh'[2] = receiver.err
  BY <1>1, <1>2, Posted
<1>4. StreamTypeOK'
  BY <1>1, <1>2, <1>3 DEF StreamInv, StreamTypeOK, ErrChCap
<1>5. OpenedInv'
  <2>1. sender.pc # "off"
    BY <1>1 DEF StreamInv, OpenedInv
  <2> QED BY <1>1, <1>2, <2>1 DEF StreamInv, OpenedInv
<1>6. RequestsInv' /\ ResponsesInv'
  BY <1>1, <1>2 DEF StreamInv, RequestsInv, ResponsesInv
<1>7. MetadataInv' /\ ResultIsComplete'
  BY <1>1, <1>2 DEF StreamInv, MetadataInv, ResultIsComplete
<1>8. ErrChInv'
  <2> SUFFICES ASSUME handler.pc = "open" PROVE ErrChInv'
    BY <1>1 DEF ErrChInv
  <2>1. ErrChInv
    BY DEF StreamInv
  <2>2. CASE errCh = <<>>
    BY <1>1, <1>2, <1>3, <2>1, <2>2 DEF ErrChInv, SenderEnded, ReceiverEnded
  <2>3. CASE errCh # <<>>
    BY <1>1, <1>2, <1>3, <2>1, <2>3 DEF ErrChInv, SenderEnded, ReceiverEnded
  <2> QED BY <2>2, <2>3
<1> QED BY <1>4, <1>5, <1>6, <1>7, <1>8 DEF StreamInv

-----------------------------------------------------------------------------
(* The theorems of the stream.                                             *)

LEMMA StreamNextInv == ASSUME StreamInv, [StreamNext]_streamVars PROVE StreamInv'
<1>1. CASE UNCHANGED streamVars
  <2>1. UNCHANGED <<client, backend, up, down, sender, receiver, errCh, handler>>
    BY <1>1 DEF streamVars
  <2>2. StreamTypeOK' /\ OpenedInv' /\ RequestsInv' /\ ResponsesInv'
    BY <2>1 DEF StreamInv, StreamTypeOK, OpenedInv, RequestsInv, ResponsesInv
  <2>3. MetadataInv' /\ ErrChInv' /\ ResultIsComplete'
    BY <2>1
    DEF StreamInv, MetadataInv, ErrChInv, SenderEnded, ReceiverEnded, ResultIsComplete
  <2> QED BY <2>2, <2>3 DEF StreamInv
<1>2. CASE Over
  BY <1>1, <1>2 DEF Over
<1>3. CASE Sender
  BY <1>3, SenderRecvInv, SenderSendInv, SenderPostsInv DEF Sender
<1>4. CASE Receiver
  BY <1>4, ReceiverHeaderInv, ReceiverRecvInv, ReceiverSendInv, ReceiverTrailerInv,
     ReceiverPostsInv DEF Receiver
<1>5. CASE ClientSends \/ ClientHalfCloses \/ ClientCancels
  BY <1>5, ClientSendsInv, ClientHalfClosesInv, ClientCancelsInv
<1>6. CASE BackendResponds \/ \E s \in Status : BackendEnds(s)
  BY <1>6, BackendRespondsInv, BackendEndsInv
<1>7. CASE \/ \E e \in {"notfound", "unavailable"} : Refuse(e)
           \/ OpenStream \/ Take
  BY <1>7, RefuseInv, OpenStreamInv, TakeInv
<1> QED BY <1>1, <1>2, <1>3, <1>4, <1>5, <1>6, <1>7 DEF StreamNext

\* The handler, its goroutines, the channel and the frames agree in every reachable
\* state, however many frames either side sends.
THEOREM StreamInvariant == StreamSpec => []StreamInv
BY StreamInitInv, StreamNextInv, PTL DEF StreamSpec

\* Both directions are relayed in order, without loss or duplication.
THEOREM StreamIsTransparent == StreamSpec => []RelayIsTransparent
<1>1. StreamInv => RelayIsTransparent
  <2> SUFFICES ASSUME StreamInv PROVE RelayIsTransparent
    OBVIOUS
  <2>1. /\ client.got \in Seq(Nat) /\ client.sent \in Nat
        /\ backend.got \in Seq(Nat) /\ backend.sent \in Nat
        /\ up \in Seq(Nat) /\ down \in Seq(Nat)
    BY DEF StreamInv, StreamTypeOK, ClientState, BackendState
  <2> DEFINE held == IF sender.pc = "send" THEN <<sender.frame>> ELSE <<>>
             holds == IF receiver.pc = "send" THEN <<receiver.frame>> ELSE <<>>
  <2>2. ASSUME sender.pc = "recv" PROVE IsCount(backend.got \o held \o up, client.sent)
    <3>1. IsCount(backend.got \o up, client.sent)
      BY <2>2 DEF StreamInv, RequestsInv
    <3>2. IsCount(backend.got \o <<>> \o up, client.sent)
      BY <2>1, <3>1, CountHeldNothing
    <3> QED BY <2>2, <3>2
  <2>3. ASSUME sender.pc = "send" PROVE IsCount(backend.got \o held \o up, client.sent)
    BY <2>3 DEF StreamInv, RequestsInv
  <2>4. ASSUME receiver.pc \in {"header", "recv"}
        PROVE  IsCount(client.got \o holds \o down, backend.sent)
    <3>1. IsCount(client.got \o down, backend.sent)
      BY <2>4 DEF StreamInv, ResponsesInv
    <3>2. IsCount(client.got \o <<>> \o down, backend.sent)
      BY <2>1, <3>1, CountHeldNothing
    <3> QED BY <2>4, <3>2
  <2>5. ASSUME receiver.pc = "send" PROVE IsCount(client.got \o holds \o down, backend.sent)
    BY <2>5 DEF StreamInv, ResponsesInv
  <2> HIDE DEF held, holds
  <2>6. /\ sender.pc \in {"recv", "send"} =>
             IsCount(backend.got \o held \o up, client.sent)
        /\ receiver.pc \in {"header", "recv", "send"} =>
             IsCount(client.got \o holds \o down, backend.sent)
    BY <2>2, <2>3, <2>4, <2>5
  <2> QED BY <2>6 DEF StreamInv, RelayIsTransparent, held, holds
<1> QED BY <1>1, StreamInvariant, PTL

\* A status the handler returns is the backend's, after everything the backend sent
\* and, for an OK, after everything the client sent.
THEOREM StreamResultIsComplete == StreamSpec => []ResultIsComplete
<1>1. StreamInv => ResultIsComplete
  BY DEF StreamInv
<1> QED BY <1>1, StreamInvariant, PTL

-----------------------------------------------------------------------------
(***************************************************************************)
(* Idempotency, for any requests, calls, capacity, time to live and clock. *)
(*                                                                         *)
(* None of the three invariants is inductive. That a replayed response is  *)
(* the request's own needs to know whose response each entry, each flight  *)
(* and each waiting follower holds; that a retry is replayed, that a       *)
(* response leaves the store only when it expires or is evicted.           *)
(***************************************************************************)

RequestState ==
  [pc : Phase, call : Call, flight : Request \cup {None}, resp : Response \cup {None},
   expiresAt : Nat]

LeaderPhase == {"leading", "returned", "panicking"}

\* TypeOK without the store.
TypeInv ==
  /\ DOMAIN inflight \subseteq Key
  /\ inflight \in [DOMAIN inflight -> Request]
  /\ result \in [Request -> Response \cup {None}]
  /\ closed \in [Request -> BOOLEAN]
  /\ req \in [Request -> RequestState]
  /\ now \in Nat
  /\ last \in [Key -> Commit \cup {None}]

\* The map and the list of the store.
StoreInv ==
  /\ DOMAIN elems \subseteq Key
  /\ elems \in [DOMAIN elems -> [resp : Response, expiresAt : Nat]]
  /\ order \in Seq(Key)
  /\ IsInjective(order)
  /\ Range(order) = DOMAIN elems
  /\ IsFiniteSet(DOMAIN elems)
  /\ Cardinality(DOMAIN elems) <= MaxEntries

\* Request r asked for k with a mutation.
Asked(r, k) == KeyOf(r) = k /\ req[r].call.mutating

\* A key is in flight while its leader leads, and is not answered then; a response
\* is stored under the key its leader asked for.
FlightInv ==
  /\ \A k \in DOMAIN inflight :
       /\ Asked(inflight[k], k) /\ req[inflight[k]].pc \in LeaderPhase
       /\ k \notin DOMAIN elems
  /\ \A k \in DOMAIN elems : Asked(elems[k].resp.by, k)
  /\ \A r \in Request : result[r] # None => result[r].by = r

\* d is a mutation with the fingerprint of c.
Repeats(d, c) == d.mutating /\ cacheKey(d) = cacheKey(c)

\* What a request holds is its own: its flight, the response it built, the leader it
\* waits for, the response it was given.
HoldsOwn(r, q) ==
  /\ q.pc \in LeaderPhase => KeyOf(r) \in DOMAIN inflight /\ inflight[KeyOf(r)] = r
  /\ q.pc = "returned" => q.resp # None /\ q.resp.by = r
  /\ q.pc = "waiting" => q.flight # None /\ Repeats(req[q.flight].call, q.call)
  /\ q.pc = "replayed" => q.resp # None /\ Repeats(req[q.resp.by].call, q.call)

\* The history of the committed responses: the last one of a key is stored, evicted
\* or expired.
LastInv ==
  /\ \A k \in DOMAIN elems : last[k] # None /\ last[k].expiresAt = elems[k].expiresAt
  /\ \A k \in Key \ DOMAIN elems :
       last[k] = None \/ last[k].evicted \/ now > last[k].expiresAt

IInv ==
  /\ TypeInv
  /\ StoreInv
  /\ FlightInv
  /\ \A r \in Request : HoldsOwn(r, req[r])
  /\ LastInv

-----------------------------------------------------------------------------
(* What the steps have in common.                                          *)

LEMMA SameKey ==
  ASSUME NEW p \in Request, NEW r \in Request, NEW k, Asked(p, k), Asked(r, k)
  PROVE  Repeats(req[p].call, req[r].call)
BY DEF Asked, KeyOf, Repeats

LEMMA KeyIsTyped ==
  ASSUME TypeInv, NEW r \in Request
  PROVE  KeyOf(r) \in Key
BY DEF TypeInv, RequestState, KeyOf, Key

\* No step changes what a request asks for.
CallsFixed == \A x \in Request : req'[x].call = req[x].call

LEMMA AskedStable ==
  ASSUME CallsFixed, NEW x \in Request
  PROVE  KeyOf(x)' = KeyOf(x) /\ \A k : Asked(x, k)' <=> Asked(x, k)
BY DEF CallsFixed, KeyOf, Asked

\* What a request holds stays its own while its flight does.
LEMMA HoldsStable ==
  ASSUME CallsFixed, NEW x \in Request, NEW q \in RequestState, HoldsOwn(x, q),
         q.pc \in LeaderPhase => KeyOf(x) \in DOMAIN inflight' /\ inflight'[KeyOf(x)] = x
  PROVE  HoldsOwn(x, q)'
<1>1. KeyOf(x)' = KeyOf(x)
  BY AskedStable
<1>2. q.pc = "waiting" => q.flight \in Request
  BY DEF HoldsOwn, RequestState
<1>3. q.pc = "replayed" => q.resp.by \in Request
  BY DEF HoldsOwn, RequestState, Response
<1> QED BY <1>1, <1>2, <1>3 DEF HoldsOwn, CallsFixed

\* A step of request r that starts and ends no flight and stores nothing.
LEMMA RequestStep ==
  ASSUME IInv, NEW r \in Request, NEW q \in RequestState,
         q.call = req[r].call, req' = [req EXCEPT ![r] = q],
         q.pc \in LeaderPhase <=> req[r].pc \in LeaderPhase,
         HoldsOwn(r, q), UNCHANGED <<inflight, result, now, last>>,
         closed' \in [Request -> BOOLEAN], StoreInv', LastInv',
         \A k \in DOMAIN elems' : k \in DOMAIN elems /\ elems'[k] = elems[k]
  PROVE  IInv'
<1>1. TypeInv'
  BY DEF IInv, TypeInv
<1>2. /\ CallsFixed
      /\ \A x \in Request : req'[x].pc \in LeaderPhase <=> req[x].pc \in LeaderPhase
  BY DEF IInv, TypeInv, CallsFixed
<1>3. FlightInv'
  <2>1. ASSUME NEW k \in DOMAIN inflight
        PROVE  /\ Asked(inflight[k], k)' /\ req'[inflight[k]].pc \in LeaderPhase
               /\ k \notin DOMAIN elems'
    <3>1. inflight[k] \in Request
      BY DEF IInv, TypeInv
    <3>2. Asked(inflight[k], k)' <=> Asked(inflight[k], k)
      <4>1. PICK x \in Request : x = inflight[k]
        BY <3>1
      <4> QED BY <1>2, <4>1, AskedStable
    <3> QED BY <1>2, <3>1, <3>2 DEF IInv, FlightInv
  <2>2. ASSUME NEW k \in DOMAIN elems' PROVE Asked(elems[k].resp.by, k)'
    <3>1. PICK x \in Request : x = elems[k].resp.by
      BY DEF IInv, StoreInv, Response
    <3>2. elems'[k] = elems[k] /\ Asked(x, k)
      BY <3>1 DEF IInv, FlightInv
    <3> QED BY <1>2, <3>1, <3>2, AskedStable
  <2> QED BY <2>1, <2>2 DEF IInv, FlightInv
<1>4. ASSUME NEW x \in Request PROVE HoldsOwn(x, req[x])'
  <2>1. PICK p : p = req'[x]
    OBVIOUS
  <2>2. p \in RequestState /\ HoldsOwn(x, p)
    BY <2>1 DEF IInv, TypeInv
  <2>3. HoldsOwn(x, p)'
    BY <1>2, <2>2, HoldsStable DEF HoldsOwn
  <2> QED BY <2>1, <2>3
<1> QED BY <1>1, <1>3, <1>4 DEF IInv

-----------------------------------------------------------------------------
(* The store.                                                              *)

\* removeElem keeps the list and the map in step.
LEMMA RemoveStore ==
  ASSUME StoreInv, NEW K, removeElems(K)
  PROVE  /\ StoreInv'
         /\ DOMAIN elems' = DOMAIN elems \ K
         /\ \A k \in DOMAIN elems' : elems'[k] = elems[k]
<1>1. /\ DOMAIN elems' = DOMAIN elems \ K
      /\ \A k \in DOMAIN elems' : elems'[k] = elems[k]
  BY DEF removeElems, Restrict
<1>2. elems' \in [DOMAIN elems' -> [resp : Response, expiresAt : Nat]]
  BY <1>1 DEF removeElems, Restrict, StoreInv
<1>3. /\ IsFiniteSet(DOMAIN elems')
      /\ Cardinality(DOMAIN elems') <= Cardinality(DOMAIN elems)
      /\ Cardinality(DOMAIN elems) \in Nat /\ Cardinality(DOMAIN elems') \in Nat
  BY <1>1, FS_Subset, FS_CardinalityType DEF StoreInv
<1>4. Cardinality(DOMAIN elems') <= MaxEntries
  BY <1>3, IdempotencyAssumption DEF StoreInv
<1>5. DOMAIN elems' = Range(order) \ K /\ IsInjective(order) /\ order \in Seq(Key)
  BY <1>1 DEF StoreInv
<1>6. order' \in Kept(order, K)
  BY DEF removeElems
<1>7. /\ order' \in Seq(Key) /\ IsInjective(order')
      /\ Range(order') = DOMAIN elems'
  BY <1>3, <1>5, <1>6, KeptElements
<1> QED BY <1>1, <1>2, <1>3, <1>4, <1>7 DEF StoreInv

\* Only expired responses may go without being marked.
LEMMA RemoveLast ==
  ASSUME StoreInv, LastInv, NEW K, DOMAIN elems' = DOMAIN elems \ K,
         \A k \in DOMAIN elems' : elems'[k] = elems[k],
         \A k \in K : k \in DOMAIN elems => Expired(k),
         UNCHANGED <<now, last>>
  PROVE  LastInv'
<1>1. ASSUME NEW k \in DOMAIN elems'
      PROVE  last[k] # None /\ last[k].expiresAt = elems'[k].expiresAt
  BY DEF LastInv
<1>2. ASSUME NEW k \in Key \ DOMAIN elems'
      PROVE  last[k] = None \/ last[k].evicted \/ now > last[k].expiresAt
  <2>1. CASE k \in DOMAIN elems
    BY <2>1 DEF LastInv, Expired
  <2>2. CASE k \notin DOMAIN elems
    BY <2>2 DEF LastInv
  <2> QED BY <2>1, <2>2
<1> QED BY <1>1, <1>2 DEF LastInv

\* putLocked stores e under k, never exceeds the limit, and marks what it pushes out.
LEMMA PutStore ==
  ASSUME TypeInv, StoreInv, LastInv, NEW k \in Key,
         NEW e \in [resp : Response, expiresAt : Nat], putLocked(k, e), now' = now
  PROVE  /\ StoreInv' /\ LastInv'
         /\ last' \in [Key -> Commit \cup {None}]
         /\ k \in DOMAIN elems' /\ elems'[k] = e
         /\ \A j \in DOMAIN elems' : j = k \/ (j \in DOMAIN elems /\ elems'[j] = elems[j])
<1> DEFINE D       == DOMAIN elems
           full    == k \notin D /\ Cardinality(D) >= MaxEntries
           victims == IF full THEN {order[1]} ELSE {}
           stays   == D \ victims
           rest    == IF full THEN Tail(order) ELSE Without(order, k)
<1>1. /\ elems' = [j \in stays \cup {k} |-> IF j = k THEN e ELSE elems[j]]
      /\ order' = Append(rest, k)
      /\ last' = [j \in Key |->
                    IF j = k THEN [expiresAt |-> e.expiresAt, evicted |-> FALSE]
                    ELSE IF j \in victims THEN [last[j] EXCEPT !.evicted = TRUE]
                    ELSE last[j]]
  BY DEF putLocked
<1>2. IsFiniteSet(D) /\ Cardinality(D) \in Nat /\ Cardinality(D) <= MaxEntries
      /\ MaxEntries \in Nat \ {0}
  BY FS_CardinalityType, IdempotencyAssumption DEF StoreInv
<1>3. /\ rest \in Seq(Key) /\ IsInjective(rest) /\ Range(rest) = stays \ {k}
      /\ victims \subseteq D /\ k \notin victims
      /\ IsFiniteSet(stays \cup {k}) /\ Cardinality(stays \cup {k}) <= MaxEntries
  <2>1. CASE full
    <3>1. D # {}
      BY <1>2, <2>1, FS_EmptySet
    <3>2. order # <<>>
      BY <3>1 DEF StoreInv, Range
    <3>3. /\ order[1] \in D /\ Tail(order) \in Seq(Key) /\ IsInjective(Tail(order))
          /\ Range(Tail(order)) = D \ {order[1]}
      BY <3>2, PopFront DEF StoreInv
    <3>4. victims = {order[1]} /\ rest = Tail(order)
      BY <2>1
    <3> HIDE DEF victims, rest
    <3>5. k \notin D
      BY <2>1
    <3>6. IsFiniteSet(stays) /\ Cardinality(stays) = Cardinality(D) - 1
      BY <1>2, <3>3, <3>4, FS_RemoveElement
    <3>7. IsFiniteSet(stays \cup {k}) /\ Cardinality(stays \cup {k}) = Cardinality(stays) + 1
      BY <3>5, <3>6, FS_AddElement
    <3> QED BY <1>2, <3>3, <3>4, <3>5, <3>6, <3>7
  <2>2. CASE ~full
    <3>1. victims = {} /\ rest = Without(order, k)
      BY <2>2
    <3>2. /\ Without(order, k) \in Seq(Key) /\ IsInjective(Without(order, k))
          /\ Range(Without(order, k)) = D \ {k}
      BY WithoutElements DEF StoreInv
    <3>3. stays = D
      BY <3>1
    <3>4. IsFiniteSet(D \cup {k}) /\ Cardinality(D \cup {k}) <= MaxEntries
      <4>1. CASE k \in D
        BY <1>2, <4>1, FS_AddElement
      <4>2. CASE k \notin D
        <5>1. Cardinality(D) < MaxEntries
          BY <1>2, <2>2, <4>2
        <5>2. /\ IsFiniteSet(D \cup {k})
              /\ Cardinality(D \cup {k}) = Cardinality(D) + 1
          BY <1>2, <4>2, FS_AddElement
        <5> QED BY <1>2, <5>1, <5>2
      <4> QED BY <4>1, <4>2
    <3> HIDE DEF victims, rest, stays
    <3> QED BY <3>1, <3>2, <3>3, <3>4
  <2> QED BY <2>1, <2>2
<1>4. /\ DOMAIN elems' = stays \cup {k} /\ elems'[k] = e
      /\ \A j \in stays : j # k => elems'[j] = elems[j]
  BY <1>1
<1>5. ASSUME NEW j \in Key
      PROVE  /\ j = k => last'[j] = [expiresAt |-> e.expiresAt, evicted |-> FALSE]
             /\ j # k /\ j \in victims => last'[j] = [last[j] EXCEPT !.evicted = TRUE]
             /\ j # k /\ j \notin victims => last'[j] = last[j]
  BY <1>1
<1>6. DOMAIN last' = Key
  BY <1>1
<1> DEFINE commit == [expiresAt |-> e.expiresAt, evicted |-> FALSE]
<1>7. commit \in Commit /\ commit # None /\ commit.expiresAt = e.expiresAt
  <2>1. e.expiresAt \in Nat
    OBVIOUS
  <2>2. commit \in Commit
    BY <2>1 DEF Commit
  <2>3. None \notin Commit
    BY IdempotencyAssumption
  <2> QED BY <2>2, <2>3
<1>8. last'[k] = commit
  BY <1>5
<1> HIDE DEF full, victims, rest, commit
<1>9. StoreInv'
  <2>1. k \notin Range(rest)
    BY <1>3
  <2>2. /\ order' \in Seq(Key) /\ IsInjective(order')
        /\ Range(order') = Range(rest) \cup {k}
    BY <1>1, <1>3, <2>1, PushBack
  <2>3. Range(order') = DOMAIN elems'
    BY <1>3, <1>4, <2>2
  <2>4. DOMAIN elems' \subseteq Key
    BY <1>4 DEF StoreInv
  <2>5. \A j \in DOMAIN elems' : elems'[j] \in [resp : Response, expiresAt : Nat]
    BY <1>4 DEF StoreInv
  <2>6. elems' = [j \in DOMAIN elems' |-> elems'[j]]
    BY <1>1, <1>4
  <2>7. elems' \in [DOMAIN elems' -> [resp : Response, expiresAt : Nat]]
    BY <2>5, <2>6
  <2> QED BY <1>3, <1>4, <2>2, <2>3, <2>4, <2>7 DEF StoreInv
<1>10. last' \in [Key -> Commit \cup {None}]
  <2>1. ASSUME NEW j \in Key
        PROVE  last'[j] \in Commit \cup {None}
    <3>1. CASE j = k
      BY <1>7, <1>8, <3>1
    <3>2. CASE j # k /\ j \in victims
      <4>1. last[j] # None
        BY <1>3, <3>2 DEF LastInv
      <4>2. last[j] \in Commit
        BY <4>1 DEF TypeInv
      <4> QED BY <1>5, <3>2, <4>2 DEF Commit
    <3>3. CASE j # k /\ j \notin victims
      BY <1>5, <3>3 DEF TypeInv
    <3> QED BY <3>1, <3>2, <3>3
  <2>2. last' = [j \in Key |-> last'[j]]
    BY <1>1, <1>6
  <2> QED BY <2>1, <2>2
<1>11. LastInv'
  <2>2. ASSUME NEW j \in DOMAIN elems'
        PROVE  last'[j] # None /\ last'[j].expiresAt = elems'[j].expiresAt
    <3>1. j \in Key
      BY <1>4 DEF StoreInv
    <3>2. CASE j = k
      BY <1>4, <1>7, <1>8, <3>2
    <3>3. CASE j # k
      <4>1. j \in D /\ j \notin victims /\ elems'[j] = elems[j]
        BY <1>4, <2>2, <3>3
      <4> QED BY <1>5, <3>1, <3>3, <4>1 DEF LastInv
    <3> QED BY <3>2, <3>3
  <2>3. ASSUME NEW j \in Key \ DOMAIN elems'
        PROVE  last'[j] = None \/ last'[j].evicted \/ now > last'[j].expiresAt
    <3>1. CASE j \in victims
      <4>1. last[j] # None
        BY <1>3, <3>1 DEF LastInv
      <4>2. last[j] \in Commit
        BY <4>1 DEF TypeInv
      <4> QED BY <1>4, <1>5, <2>3, <3>1, <4>2 DEF Commit
    <3>2. CASE j \notin victims
      <4>1. j \notin D /\ j # k
        BY <1>4, <2>3, <3>2
      <4> QED BY <1>5, <2>3, <3>2, <4>1 DEF LastInv
    <3> QED BY <3>1, <3>2
  <2> QED BY <2>2, <2>3 DEF LastInv
<1> QED BY <1>4, <1>9, <1>10, <1>11

-----------------------------------------------------------------------------
(* The steps.                                                              *)

LEMMA InitInv == Init => IInv
<1> SUFFICES ASSUME Init PROVE IInv
  OBVIOUS
<1>1. DOMAIN elems = {} /\ DOMAIN inflight = {}
  BY DEF Init
<1>2. StoreInv
  <2>1. elems \in [DOMAIN elems -> [resp : Response, expiresAt : Nat]]
    BY <1>1 DEF Init
  <2>2. order \in Seq(Key) /\ IsInjective(order) /\ Range(order) = {}
    BY DEF Init, IsInjective, Range
  <2>3. IsFiniteSet({}) /\ Cardinality({}) = 0
    BY FS_EmptySet
  <2> QED BY <1>1, <2>1, <2>2, <2>3, IdempotencyAssumption DEF StoreInv
<1>3. req \in [Request -> RequestState] /\ \A r \in Request : req[r].pc = "new"
  BY DEF Init, RequestState, Phase
<1>4. inflight \in [DOMAIN inflight -> Request]
  BY <1>1 DEF Init
<1>5. TypeInv
  BY <1>1, <1>3, <1>4 DEF Init, TypeInv
<1>6. FlightInv /\ LastInv
  BY <1>1 DEF Init, FlightInv, LastInv
<1>7. \A r \in Request : HoldsOwn(r, req[r])
  BY <1>3 DEF HoldsOwn, LeaderPhase
<1> QED BY <1>2, <1>5, <1>6, <1>7 DEF IInv

\* The steps that touch no more than the request and its channel.
LEMMA QuietStep ==
  ASSUME IInv, NEW r \in Request, NEW q \in RequestState,
         q.call = req[r].call, req' = [req EXCEPT ![r] = q],
         q.pc \in LeaderPhase <=> req[r].pc \in LeaderPhase,
         HoldsOwn(r, q), UNCHANGED <<elems, order, inflight, result, now, last>>,
         closed' \in [Request -> BOOLEAN]
  PROVE  IInv'
<1>1. StoreInv' /\ LastInv'
  BY DEF IInv, StoreInv, LastInv
<1>2. \A k \in DOMAIN elems' : k \in DOMAIN elems /\ elems'[k] = elems[k]
  OBVIOUS
<1> QED BY <1>1, <1>2, RequestStep

LEMMA PassThroughInv ==
  ASSUME IInv, NEW r \in Request, PassThrough(r)
  PROVE  IInv'
<1> DEFINE q == [req[r] EXCEPT !.pc = "direct"]
<1>1. req[r] \in RequestState /\ closed \in [Request -> BOOLEAN]
  BY DEF IInv, TypeInv
<1>2. q \in RequestState /\ q.pc = "direct" /\ q.call = req[r].call
  BY <1>1 DEF RequestState, Phase
<1>3. /\ req' = [req EXCEPT ![r] = q] /\ req[r].pc = "new"
      /\ UNCHANGED <<elems, order, inflight, result, closed, now, last>>
  BY DEF PassThrough, At
<1> HIDE DEF q
<1> QED BY <1>1, <1>2, <1>3, QuietStep DEF HoldsOwn, LeaderPhase

\* A response that is found belongs to a call with the same key.
LEMMA ReserveCachedInv ==
  ASSUME IInv, NEW r \in Request, ReserveCached(r)
  PROVE  IInv'
<1> DEFINE k == KeyOf(r)
           a == elems[k].resp
           q == [req[r] EXCEPT !.pc = "replayed", !.resp = a]
<1>1. req[r] \in RequestState /\ closed \in [Request -> BOOLEAN]
  BY DEF IInv, TypeInv
<1>2. k \in DOMAIN elems /\ Asked(r, k) /\ req[r].pc = "new"
  BY DEF ReserveCached, Found, Guarded, Asked, At
<1>3. a \in Response /\ Asked(a.by, k)
  BY <1>2 DEF IInv, StoreInv, FlightInv
<1>4. a # None /\ a.by \in Request
  BY <1>3, IdempotencyAssumption DEF Response
<1>5. Repeats(req[a.by].call, req[r].call)
  BY <1>2, <1>3, <1>4, SameKey
<1>6. /\ q \in RequestState /\ q.pc = "replayed" /\ q.call = req[r].call
      /\ q.resp = a
  BY <1>1, <1>3 DEF RequestState, Phase
<1>7. /\ req' = [req EXCEPT ![r] = q]
      /\ UNCHANGED <<elems, order, inflight, result, closed, now, last>>
  BY DEF ReserveCached
<1> HIDE DEF q, a
<1>8. HoldsOwn(r, q)
  BY <1>4, <1>5, <1>6 DEF HoldsOwn, LeaderPhase
<1> QED BY <1>1, <1>2, <1>6, <1>7, <1>8, QuietStep DEF LeaderPhase

\* A flight that is found belongs to a mutation with the same fingerprint.
LEMMA ReserveFollowInv ==
  ASSUME IInv, NEW r \in Request, ReserveFollow(r)
  PROVE  IInv'
<1> DEFINE k == KeyOf(r)
           f == inflight[k]
           q == [req[r] EXCEPT !.pc = "waiting", !.flight = f]
<1>1. req[r] \in RequestState /\ closed \in [Request -> BOOLEAN]
  BY DEF IInv, TypeInv
<1>2. k \in DOMAIN inflight /\ Asked(r, k) /\ req[r].pc = "new"
  BY DEF ReserveFollow, Guarded, Asked, At
<1>3. f \in Request /\ Asked(f, k)
  BY <1>2 DEF IInv, TypeInv, FlightInv
<1>4. f # None /\ Repeats(req[f].call, req[r].call)
  BY <1>2, <1>3, SameKey, IdempotencyAssumption
<1>5. /\ q \in RequestState /\ q.pc = "waiting" /\ q.call = req[r].call
      /\ q.flight = f
  BY <1>1, <1>3 DEF RequestState, Phase
<1>6. /\ req' = [req EXCEPT ![r] = q] /\ removeElems({k})
      /\ UNCHANGED <<inflight, result, closed, now, last>>
  BY DEF ReserveFollow
<1>7. /\ StoreInv' /\ DOMAIN elems' = DOMAIN elems \ {k}
      /\ \A j \in DOMAIN elems' : elems'[j] = elems[j]
  BY <1>6, RemoveStore DEF IInv
<1>8. LastInv'
  <2>1. k \in DOMAIN elems => Expired(k)
    BY DEF ReserveFollow, Found
  <2> QED BY <1>6, <1>7, <2>1, RemoveLast DEF IInv
<1> HIDE DEF q, f
<1>9. HoldsOwn(r, q)
  BY <1>4, <1>5 DEF HoldsOwn, LeaderPhase
<1>10. q.pc \in LeaderPhase <=> req[r].pc \in LeaderPhase
  BY <1>2, <1>5 DEF LeaderPhase
<1> QED BY <1>1, <1>5, <1>6, <1>7, <1>8, <1>9, <1>10, RequestStep

LEMMA FollowerWakesInv ==
  ASSUME IInv, NEW r \in Request, FollowerWakes(r)
  PROVE  IInv'
<1> DEFINE f == req[r].flight
           a == result[f]
           phase == IF a # None THEN "replayed" ELSE "direct"
           q == [req[r] EXCEPT !.pc = phase, !.resp = a]
<1>1. req[r] \in RequestState /\ closed \in [Request -> BOOLEAN]
  BY DEF IInv, TypeInv
<1>2. req[r].pc = "waiting" /\ f # None /\ Repeats(req[f].call, req[r].call)
  BY DEF FollowerWakes, At, IInv, HoldsOwn
<1>3. f \in Request
  BY <1>1, <1>2 DEF RequestState
<1>4. a \in Response \cup {None} /\ (a # None => a.by = f)
  BY <1>3 DEF IInv, TypeInv, FlightInv
<1>5. phase \in {"replayed", "direct"} /\ (phase = "replayed" => a # None)
  OBVIOUS
<1>6. /\ req' = [req EXCEPT ![r] = q]
      /\ UNCHANGED <<elems, order, inflight, result, closed, now, last>>
  BY DEF FollowerWakes
<1> HIDE DEF phase, a
<1>7. /\ q \in RequestState /\ q.pc = phase /\ q.call = req[r].call
      /\ q.resp = a
  BY <1>1, <1>4, <1>5 DEF RequestState, Phase
<1> HIDE DEF q
<1>8. HoldsOwn(r, q)
  BY <1>2, <1>4, <1>5, <1>7 DEF HoldsOwn, LeaderPhase
<1> QED BY <1>1, <1>2, <1>5, <1>6, <1>7, <1>8, QuietStep DEF LeaderPhase

LEMMA DownstreamReturnsInv ==
  ASSUME IInv, NEW r \in Request, NEW cacheable \in BOOLEAN, DownstreamReturns(r, cacheable)
  PROVE  IInv'
<1> DEFINE a == [by |-> r, cacheable |-> cacheable]
           q == [req[r] EXCEPT !.pc = "returned", !.resp = a, !.expiresAt = now + TTL]
<1>1. req[r] \in RequestState /\ closed \in [Request -> BOOLEAN] /\ now + TTL \in Nat
  BY IdempotencyAssumption DEF IInv, TypeInv
<1>2. a \in Response /\ a.by = r
  BY DEF Response
<1>3. a # None
  BY <1>2, IdempotencyAssumption
<1>4. /\ q \in RequestState /\ q.pc = "returned" /\ q.call = req[r].call
      /\ q.resp = a
  BY <1>1, <1>2 DEF RequestState, Phase
<1>5. /\ req' = [req EXCEPT ![r] = q] /\ req[r].pc = "leading"
      /\ UNCHANGED <<elems, order, inflight, result, closed, now, last>>
  BY DEF DownstreamReturns, At
<1> HIDE DEF q, a
<1>6. HoldsOwn(r, req[r])
  BY DEF IInv
<1>7. HoldsOwn(r, q)
  BY <1>2, <1>3, <1>4, <1>5, <1>6 DEF HoldsOwn, LeaderPhase
<1> QED BY <1>1, <1>4, <1>5, <1>7, QuietStep DEF LeaderPhase

LEMMA DownstreamPanicsInv ==
  ASSUME IInv, NEW r \in Request, DownstreamPanics(r)
  PROVE  IInv'
<1> DEFINE q == [req[r] EXCEPT !.pc = "panicking"]
<1>1. req[r] \in RequestState /\ closed \in [Request -> BOOLEAN]
  BY DEF IInv, TypeInv
<1>2. q \in RequestState /\ q.pc = "panicking" /\ q.call = req[r].call
  BY <1>1 DEF RequestState, Phase
<1>3. /\ req' = [req EXCEPT ![r] = q] /\ req[r].pc = "leading"
      /\ UNCHANGED <<elems, order, inflight, result, closed, now, last>>
  BY DEF DownstreamPanics, At
<1> HIDE DEF q
<1>4. HoldsOwn(r, req[r])
  BY DEF IInv
<1>5. HoldsOwn(r, q)
  BY <1>2, <1>3, <1>4 DEF HoldsOwn, LeaderPhase
<1> QED BY <1>1, <1>2, <1>3, <1>5, QuietStep DEF LeaderPhase

LEMMA EndsInv ==
  ASSUME IInv, NEW r \in Request, NEW phase \in {"replied", "panicked"},
         req[r].pc \in {"direct", "unlocked"}, req' = [req EXCEPT ![r].pc = phase],
         closed' \in [Request -> BOOLEAN],
         UNCHANGED <<elems, order, inflight, result, now, last>>
  PROVE  IInv'
<1> DEFINE q == [req[r] EXCEPT !.pc = phase]
<1>1. req[r] \in RequestState
  BY DEF IInv, TypeInv
<1>2. q \in RequestState /\ q.pc = phase /\ q.call = req[r].call
  BY <1>1 DEF RequestState, Phase
<1>3. req' = [req EXCEPT ![r] = q]
  OBVIOUS
<1> HIDE DEF q
<1>4. HoldsOwn(r, q)
  BY <1>2 DEF HoldsOwn, LeaderPhase
<1> QED BY <1>2, <1>3, <1>4, QuietStep DEF LeaderPhase

\* A step with which request r begins or ends its flight.
LEMMA FlightStep ==
  ASSUME IInv, NEW r \in Request, NEW q \in RequestState,
         q.call = req[r].call, req' = [req EXCEPT ![r] = q],
         q.pc \in {"leading", "unlocked"},
         TypeInv', StoreInv', LastInv',
         KeyOf(r) \in DOMAIN inflight => inflight[KeyOf(r)] = r,
         \A k \in (DOMAIN inflight \cup DOMAIN inflight') \ {KeyOf(r)} :
           /\ k \in DOMAIN inflight /\ k \in DOMAIN inflight'
           /\ inflight'[k] = inflight[k],
         KeyOf(r) \in DOMAIN inflight' <=> q.pc = "leading",
         q.pc = "leading" => /\ inflight'[KeyOf(r)] = r
                             /\ KeyOf(r) \notin DOMAIN elems',
         Asked(r, KeyOf(r)),
         \A k \in DOMAIN elems' :
           \/ k \in DOMAIN elems /\ elems'[k] = elems[k]
           \/ k = KeyOf(r) /\ elems'[k].resp.by = r,
         \A x \in Request : result'[x] # None => result'[x].by = x
  PROVE  IInv'
<1>1. CallsFixed
  BY DEF IInv, TypeInv, CallsFixed
<1>2. \A x \in Request : x # r => req'[x] = req[x]
  BY DEF IInv, TypeInv
<1>3. req'[r] = q
  BY DEF IInv, TypeInv
<1>4. FlightInv'
  <2>1. ASSUME NEW k \in DOMAIN inflight'
        PROVE  /\ Asked(inflight[k], k)' /\ req'[inflight'[k]].pc \in LeaderPhase
               /\ k \notin DOMAIN elems'
    <3>1. CASE k = KeyOf(r)
      <4>1. inflight'[k] = r /\ q.pc = "leading" /\ k \notin DOMAIN elems'
        BY <3>1
      <4>2. Asked(r, k)'
        BY <1>1, <3>1, AskedStable
      <4> QED BY <1>3, <4>1, <4>2 DEF LeaderPhase
    <3>2. CASE k # KeyOf(r)
      <4>1. PICK x \in Request : x = inflight[k]
        BY <3>2 DEF IInv, TypeInv
      <4>2. inflight'[k] = x /\ Asked(x, k) /\ req[x].pc \in LeaderPhase
            /\ k \notin DOMAIN elems
        BY <3>2, <4>1 DEF IInv, FlightInv
      <4>3. x # r
        BY <3>2, <4>2 DEF Asked
      <4>4. Asked(x, k)'
        BY <1>1, <4>2, AskedStable
      <4> QED BY <1>2, <3>2, <4>2, <4>3, <4>4
    <3> QED BY <3>1, <3>2
  <2>2. ASSUME NEW k \in DOMAIN elems' PROVE Asked(elems[k].resp.by, k)'
    <3>1. CASE k \in DOMAIN elems /\ elems'[k] = elems[k]
      <4>1. PICK x \in Request : x = elems[k].resp.by
        BY <3>1 DEF IInv, StoreInv, Response
      <4>2. elems'[k].resp.by = x /\ Asked(x, k)
        BY <3>1, <4>1 DEF IInv, FlightInv
      <4> QED BY <1>1, <4>2, AskedStable
    <3>2. CASE k = KeyOf(r) /\ elems'[k].resp.by = r
      BY <1>1, <3>2, AskedStable
    <3> QED BY <3>1, <3>2
  <2> QED BY <2>1, <2>2 DEF FlightInv
<1>5. ASSUME NEW x \in Request PROVE HoldsOwn(x, req[x])'
  <2>1. CASE x = r
    <3>1. KeyOf(r)' = KeyOf(r)
      BY <1>1, AskedStable
    <3> QED BY <1>3, <2>1, <3>1 DEF HoldsOwn, LeaderPhase
  <2>2. CASE x # r
    <3>1. PICK p : p = req[x]
      OBVIOUS
    <3>2. p \in RequestState /\ HoldsOwn(x, p) /\ p = req'[x]
      BY <1>2, <2>2, <3>1 DEF IInv, TypeInv
    <3>3. ASSUME p.pc \in LeaderPhase
          PROVE  KeyOf(x) \in DOMAIN inflight' /\ inflight'[KeyOf(x)] = x
      <4>1. KeyOf(x) \in DOMAIN inflight /\ inflight[KeyOf(x)] = x
        BY <3>2, <3>3 DEF HoldsOwn
      <4>2. KeyOf(x) # KeyOf(r)
        BY <2>2, <4>1
      <4> QED BY <4>1, <4>2
    <3>4. HoldsOwn(x, p)'
      BY <1>1, <3>2, <3>3, HoldsStable
    <3> QED BY <3>2, <3>4
  <2> QED BY <2>1, <2>2
<1> QED BY <1>4, <1>5 DEF IInv

LEMMA ReserveLeadInv ==
  ASSUME IInv, NEW r \in Request, ReserveLead(r)
  PROVE  IInv'
<1> DEFINE k == KeyOf(r)
           q == [req[r] EXCEPT !.pc = "leading"]
<1>1. req[r] \in RequestState /\ k \in Key
  BY KeyIsTyped DEF IInv, TypeInv
<1>2. k \notin DOMAIN inflight /\ Asked(r, k)
  BY DEF ReserveLead, Guarded, Asked
<1>3. /\ req' = [req EXCEPT ![r] = q] /\ removeElems({k})
      /\ inflight' = [j \in DOMAIN inflight \cup {k} |-> IF j = k THEN r ELSE inflight[j]]
      /\ UNCHANGED <<result, closed, now, last>>
  BY DEF ReserveLead
<1>4. q \in RequestState /\ q.pc = "leading" /\ q.call = req[r].call
  BY <1>1 DEF RequestState, Phase
<1>5. /\ StoreInv' /\ DOMAIN elems' = DOMAIN elems \ {k}
      /\ \A j \in DOMAIN elems' : elems'[j] = elems[j]
  BY <1>3, RemoveStore DEF IInv
<1>6. LastInv'
  <2>1. k \in DOMAIN elems => Expired(k)
    BY DEF ReserveLead, Found
  <2> QED BY <1>3, <1>5, <2>1, RemoveLast DEF IInv
<1> HIDE DEF q
<1>7. TypeInv'
  <2>1. DOMAIN inflight' \subseteq Key /\ inflight' \in [DOMAIN inflight' -> Request]
    BY <1>1, <1>3 DEF IInv, TypeInv
  <2>2. req' \in [Request -> RequestState]
    BY <1>3, <1>4 DEF IInv, TypeInv
  <2> QED BY <1>3, <2>1, <2>2 DEF IInv, TypeInv
<1>8. /\ \A j \in (DOMAIN inflight \cup DOMAIN inflight') \ {k} :
           j \in DOMAIN inflight /\ j \in DOMAIN inflight' /\ inflight'[j] = inflight[j]
      /\ k \in DOMAIN inflight' /\ inflight'[k] = r
  BY <1>3
<1>9. \A x \in Request : result'[x] # None => result'[x].by = x
  BY <1>3 DEF IInv, FlightInv
<1> HIDE DEF k
<1>10. k = KeyOf(r)
  BY DEF k
<1> QED BY <1>2, <1>3, <1>4, <1>5, <1>6, <1>7, <1>8, <1>9, <1>10, FlightStep

\* What Release leaves of the flights.
LEMMA Released ==
  ASSUME IInv, NEW r \in Request, Release(r), req[r].pc \in LeaderPhase
  PROVE  /\ KeyOf(r) \notin DOMAIN inflight' /\ inflight[KeyOf(r)] = r
         /\ \A j \in (DOMAIN inflight \cup DOMAIN inflight') \ {KeyOf(r)} :
              /\ j \in DOMAIN inflight /\ j \in DOMAIN inflight'
              /\ inflight'[j] = inflight[j]
         /\ DOMAIN inflight' \subseteq Key /\ inflight' \in [DOMAIN inflight' -> Request]
         /\ Asked(r, KeyOf(r))
<1>1. /\ DOMAIN inflight' = DOMAIN inflight \ {KeyOf(r)}
      /\ \A j \in DOMAIN inflight' : inflight'[j] = inflight[j]
  BY DEF Release, Restrict
<1>2. inflight' \in [DOMAIN inflight' -> Request]
  BY <1>1 DEF Release, Restrict, IInv, TypeInv
<1>3. KeyOf(r) \in DOMAIN inflight /\ inflight[KeyOf(r)] = r
  BY DEF IInv, HoldsOwn
<1>4. Asked(r, KeyOf(r))
  BY <1>3 DEF IInv, FlightInv
<1> QED BY <1>1, <1>2, <1>3, <1>4 DEF IInv, TypeInv

LEMMA FinishLeaderInv ==
  ASSUME IInv, NEW r \in Request, finishLeader(r)
  PROVE  IInv'
<1> DEFINE k == KeyOf(r)
           a == req[r].resp
           e == [resp |-> a, expiresAt |-> req[r].expiresAt]
           q == [req[r] EXCEPT !.pc = "unlocked"]
<1>1. req[r] \in RequestState /\ k \in Key /\ req[r].pc = "returned"
  BY KeyIsTyped DEF IInv, TypeInv, finishLeader, At
<1>2. a \in Response /\ a.by = r
  BY <1>1 DEF IInv, HoldsOwn, RequestState
<1>3. /\ req' = [req EXCEPT ![r] = q] /\ Release(r)
      /\ result' = [result EXCEPT ![r] = a]
      /\ UNCHANGED <<closed, now>>
      /\ putLocked(k, e) \/ UNCHANGED <<elems, order, last>>
  BY DEF finishLeader
<1>4. q \in RequestState /\ q.pc = "unlocked" /\ q.call = req[r].call
  BY <1>1 DEF RequestState, Phase
<1>5. /\ k \notin DOMAIN inflight' /\ inflight[k] = r /\ Asked(r, k)
      /\ \A j \in (DOMAIN inflight \cup DOMAIN inflight') \ {k} :
           j \in DOMAIN inflight /\ j \in DOMAIN inflight' /\ inflight'[j] = inflight[j]
      /\ DOMAIN inflight' \subseteq Key /\ inflight' \in [DOMAIN inflight' -> Request]
  BY <1>1, <1>3, Released DEF LeaderPhase
<1>6. /\ StoreInv' /\ LastInv'
      /\ last' \in [Key -> Commit \cup {None}]
      /\ \A j \in DOMAIN elems' :
           \/ j \in DOMAIN elems /\ elems'[j] = elems[j]
           \/ j = k /\ elems'[j].resp.by = r
  <2>1. CASE putLocked(k, e)
    <3>1. e \in [resp : Response, expiresAt : Nat] /\ e.resp.by = r
      BY <1>1, <1>2 DEF RequestState
    <3> HIDE DEF e, k
    <3>2. /\ StoreInv' /\ LastInv'
          /\ last' \in [Key -> Commit \cup {None}]
          /\ k \in DOMAIN elems' /\ elems'[k] = e
          /\ \A j \in DOMAIN elems' :
               j = k \/ (j \in DOMAIN elems /\ elems'[j] = elems[j])
      BY <1>1, <1>3, <2>1, <3>1, PutStore DEF IInv
    <3> QED BY <3>1, <3>2
  <2>2. CASE UNCHANGED <<elems, order, last>>
    BY <1>3, <2>2 DEF IInv, TypeInv, StoreInv, LastInv
  <2> QED BY <1>3, <2>1, <2>2
<1> HIDE DEF q, a
<1>7. TypeInv'
  <2>1. req' \in [Request -> RequestState] /\ result' \in [Request -> Response \cup {None}]
    BY <1>2, <1>3, <1>4 DEF IInv, TypeInv
  <2> QED BY <1>3, <1>5, <1>6, <2>1 DEF IInv, TypeInv
<1>8. \A x \in Request : result'[x] # None => result'[x].by = x
  BY <1>2, <1>3 DEF IInv, TypeInv, FlightInv
<1> HIDE DEF k, e
<1>9. k = KeyOf(r)
  BY DEF k
<1> QED BY <1>3, <1>4, <1>5, <1>6, <1>7, <1>8, <1>9, FlightStep

LEMMA AbortLeaderInv ==
  ASSUME IInv, NEW r \in Request, abortLeader(r)
  PROVE  IInv'
<1> DEFINE k == KeyOf(r)
           q == [req[r] EXCEPT !.pc = "unlocked"]
<1>1. req[r] \in RequestState /\ req[r].pc = "panicking"
  BY DEF IInv, TypeInv, abortLeader, At
<1>2. /\ req' = [req EXCEPT ![r] = q] /\ Release(r)
      /\ UNCHANGED <<elems, order, result, closed, now, last>>
  BY DEF abortLeader
<1>3. q \in RequestState /\ q.pc = "unlocked" /\ q.call = req[r].call
  BY <1>1 DEF RequestState, Phase
<1>4. /\ k \notin DOMAIN inflight' /\ inflight[k] = r /\ Asked(r, k)
      /\ \A j \in (DOMAIN inflight \cup DOMAIN inflight') \ {k} :
           j \in DOMAIN inflight /\ j \in DOMAIN inflight' /\ inflight'[j] = inflight[j]
      /\ DOMAIN inflight' \subseteq Key /\ inflight' \in [DOMAIN inflight' -> Request]
  BY <1>1, <1>2, Released DEF LeaderPhase
<1> HIDE DEF q
<1>5. StoreInv' /\ LastInv'
  BY <1>2 DEF IInv, StoreInv, LastInv
<1>6. TypeInv'
  <2>1. req' \in [Request -> RequestState]
    BY <1>2, <1>3 DEF IInv, TypeInv
  <2> QED BY <1>2, <1>4, <2>1 DEF IInv, TypeInv
<1>7. \A x \in Request : result'[x] # None => result'[x].by = x
  BY <1>2 DEF IInv, FlightInv
<1> HIDE DEF k
<1>8. k = KeyOf(r)
  BY DEF k
<1> QED BY <1>2, <1>3, <1>4, <1>5, <1>6, <1>7, <1>8, FlightStep

\* The collector and the clock leave the requests and the flights alone.
LEMMA BackgroundStep ==
  ASSUME IInv, UNCHANGED <<inflight, result, closed, req, last>>, now' \in Nat,
         StoreInv', LastInv',
         \A k \in DOMAIN elems' : k \in DOMAIN elems /\ elems'[k] = elems[k]
  PROVE  IInv'
<1>1. TypeInv'
  BY DEF IInv, TypeInv
<1>2. FlightInv'
  BY DEF IInv, FlightInv, Asked, KeyOf
<1>3. \A r \in Request : HoldsOwn(r, req[r])'
  BY DEF IInv, HoldsOwn, KeyOf
<1> QED BY <1>1, <1>2, <1>3 DEF IInv

LEMMA CollectInv ==
  ASSUME IInv, Collect
  PROVE  IInv'
<1> DEFINE dead == {k \in DOMAIN elems : Expired(k)}
<1>1. removeElems(dead) /\ UNCHANGED <<inflight, result, closed, req, now, last>>
  BY DEF Collect
<1>2. \A k \in dead : Expired(k)
  OBVIOUS
<1> HIDE DEF dead
<1>3. /\ StoreInv' /\ DOMAIN elems' = DOMAIN elems \ dead
      /\ \A j \in DOMAIN elems' : elems'[j] = elems[j]
  BY <1>1, RemoveStore DEF IInv
<1>4. LastInv'
  BY <1>1, <1>2, <1>3, RemoveLast DEF IInv
<1> QED BY <1>1, <1>3, <1>4, BackgroundStep DEF IInv, TypeInv

LEMMA TickInv ==
  ASSUME IInv, Tick
  PROVE  IInv'
<1>1. now \in Nat /\ now' = now + 1 /\ UNCHANGED <<elems, order, last>>
  BY DEF Tick, IInv, TypeInv
<1>2. StoreInv'
  BY <1>1 DEF IInv, StoreInv
<1>3. LastInv'
  <2>1. ASSUME NEW k \in Key \ DOMAIN elems
        PROVE  last[k] = None \/ last[k].evicted \/ now' > last[k].expiresAt
    <3>1. SUFFICES ASSUME last[k] # None, ~last[k].evicted
                   PROVE  now' > last[k].expiresAt
      OBVIOUS
    <3>2. last[k].expiresAt \in Nat
      BY <3>1 DEF IInv, TypeInv, Commit
    <3>3. now > last[k].expiresAt
      BY <3>1 DEF IInv, LastInv
    <3> QED BY <1>1, <3>2, <3>3
  <2> QED BY <1>1, <2>1 DEF IInv, LastInv
<1> QED BY <1>1, <1>2, <1>3, BackgroundStep DEF Tick

LEMMA NextInv ==
  ASSUME IInv, [Next]_vars
  PROVE  IInv'
<1>1. ASSUME NEW r \in Request, PassThrough(r) PROVE IInv'
  BY <1>1, PassThroughInv
<1>2. ASSUME NEW r \in Request, ReserveCached(r) PROVE IInv'
  BY <1>2, ReserveCachedInv
<1>3. ASSUME NEW r \in Request, ReserveFollow(r) PROVE IInv'
  BY <1>3, ReserveFollowInv
<1>4. ASSUME NEW r \in Request, ReserveLead(r) PROVE IInv'
  BY <1>4, ReserveLeadInv
<1>5. ASSUME NEW r \in Request, FollowerWakes(r) PROVE IInv'
  BY <1>5, FollowerWakesInv
<1>6. ASSUME NEW r \in Request, NEW cacheable \in BOOLEAN, DownstreamReturns(r, cacheable)
      PROVE  IInv'
  BY <1>6, DownstreamReturnsInv
<1>7. ASSUME NEW r \in Request, DownstreamPanics(r) PROVE IInv'
  BY <1>7, DownstreamPanicsInv
<1>8. ASSUME NEW r \in Request, finishLeader(r) PROVE IInv'
  BY <1>8, FinishLeaderInv
<1>9. ASSUME NEW r \in Request, abortLeader(r) PROVE IInv'
  BY <1>9, AbortLeaderInv
<1>10. ASSUME NEW r \in Request, CloseDone(r) PROVE IInv'
  <2>1. PICK phase \in {"replied", "panicked"} : req' = [req EXCEPT ![r].pc = phase]
    BY <1>10 DEF CloseDone
  <2>2. /\ closed' \in [Request -> BOOLEAN] /\ req[r].pc = "unlocked"
        /\ UNCHANGED <<elems, order, inflight, result, now, last>>
    BY <1>10 DEF CloseDone, At, IInv, TypeInv
  <2> QED BY <2>1, <2>2, EndsInv
<1>11. ASSUME NEW r \in Request, NEW phase \in {"replied", "panicked"}, DirectEnds(r, phase)
       PROVE  IInv'
  <2>1. /\ closed' \in [Request -> BOOLEAN] /\ req[r].pc = "direct"
        /\ req' = [req EXCEPT ![r].pc = phase]
        /\ UNCHANGED <<elems, order, inflight, result, now, last>>
    BY <1>11 DEF DirectEnds, At, IInv, TypeInv
  <2> QED BY <2>1, EndsInv
<1>12. ASSUME Collect PROVE IInv'
  BY <1>12, CollectInv
<1>13. ASSUME Tick PROVE IInv'
  BY <1>13, TickInv
<1>14. CASE UNCHANGED vars
  <2>1. StoreInv' /\ LastInv' /\ now' \in Nat
    BY <1>14 DEF vars, IInv, TypeInv, StoreInv, LastInv
  <2> QED BY <1>14, <2>1, BackgroundStep DEF vars
<1> QED BY <1>1, <1>2, <1>3, <1>4, <1>5, <1>6, <1>7, <1>8, <1>9, <1>10, <1>11, <1>12,
           <1>13, <1>14 DEF Next, Enters, Proceeds, Done

-----------------------------------------------------------------------------
(* The theorems.                                                           *)

\* Whose response each part of the middleware holds, at any moment.
THEOREM IdempotencyInvariant == Spec => []IInv
<1>1. Init => IInv
  BY InitInv
<1>2. IInv /\ [Next]_vars => IInv'
  BY NextInv
<1> QED BY <1>1, <1>2, PTL DEF Spec

\* The list enumerates the map and the store respects its limit, for any limit.
THEOREM StoreBound == Spec => []StoreIsBounded
<1>1. IInv => StoreIsBounded
  BY DEF IInv, TypeInv, StoreInv, StoreIsBounded, TypeOK, RequestState
<1> QED BY <1>1, IdempotencyInvariant, PTL

\* However many requests with one key arrive at once, one of them leads.
THEOREM OneLeader == Spec => []SingleFlight
<1>1. IInv => SingleFlight
  <2> SUFFICES ASSUME IInv PROVE SingleFlight
    OBVIOUS
  <2>1. DOMAIN inflight \cap DOMAIN elems = {}
    BY DEF IInv, FlightInv
  <2>2. ASSUME NEW p \in Request, NEW r \in Request, req[p].pc \in LeaderPhase,
               req[r].pc \in LeaderPhase, KeyOf(p) = KeyOf(r)
        PROVE  p = r
    BY <2>2 DEF IInv, HoldsOwn
  <2> QED BY <2>1, <2>2 DEF SingleFlight, LeaderPhase
<1> QED BY <1>1, IdempotencyInvariant, PTL

\* A request is given the response to a mutation with its own fingerprint: principal
\* id, method and path, Idempotency-Key and head of the body.
THEOREM ReplayIsOwn == Spec => []ReplaysOwnAnswer
<1>1. ASSUME IInv, NEW r \in Request, At(r, "replayed")
      PROVE  Repeats(req[req[r].resp.by].call, req[r].call)
  BY <1>1 DEF IInv, HoldsOwn, At
<1>2. IInv => ReplaysOwnAnswer
  BY <1>1 DEF Repeats, cacheKey, ReplaysOwnAnswer
<1> QED BY <1>2, IdempotencyInvariant, PTL

\* A request that begins to lead finds the last response of its key gone for a reason.
LEMMA LeadsWhenGone ==
  ASSUME IInv, [Next]_vars, NEW r \in Request,
         req'[r].pc = "leading", req[r].pc # "leading"
  PROVE  \/ last[KeyOf(r)] = None \/ last[KeyOf(r)].evicted
         \/ now > last[KeyOf(r)].expiresAt
<1>1. ReserveLead(r)
  <2>1. req \in [Request -> RequestState]
    BY DEF IInv, TypeInv
  <2>2. ~UNCHANGED req
    OBVIOUS
  <2>3. PICK x \in Request : Enters(x) \/ Proceeds(x)
    BY <2>2 DEF Next, Collect, Tick, Done, vars
  <2>4. ASSUME NEW y \in Request, y # x PROVE req'[y] = req[y]
    BY <2>1, <2>3, <2>4 DEF Enters, Proceeds, PassThrough, ReserveCached, ReserveFollow,
       ReserveLead, FollowerWakes, DownstreamReturns, DownstreamPanics, finishLeader,
       abortLeader, CloseDone, DirectEnds
  <2>5. x = r
    BY <2>4
  <2>6. ~Proceeds(r)
    <3>1. ~FollowerWakes(r) /\ ~DownstreamPanics(r)
      BY <2>1 DEF RequestState, FollowerWakes, DownstreamPanics
    <3>2. \A cacheable \in BOOLEAN : ~DownstreamReturns(r, cacheable)
      BY <2>1 DEF RequestState, DownstreamReturns
    <3>3. ~finishLeader(r) /\ ~abortLeader(r) /\ ~CloseDone(r)
      BY <2>1 DEF RequestState, finishLeader, abortLeader, CloseDone
    <3>4. \A phase \in {"replied", "panicked"} : ~DirectEnds(r, phase)
      BY <2>1 DEF RequestState, DirectEnds
    <3> QED BY <3>1, <3>2, <3>3, <3>4 DEF Proceeds
  <2>7. ~PassThrough(r) /\ ~ReserveCached(r) /\ ~ReserveFollow(r)
    BY <2>1 DEF RequestState, PassThrough, ReserveCached, ReserveFollow
  <2> QED BY <2>3, <2>5, <2>6, <2>7 DEF Enters
<1>2. KeyOf(r) \in DOMAIN elems => now > elems[KeyOf(r)].expiresAt
  BY <1>1 DEF ReserveLead, Found, Expired
<1>3. KeyOf(r) \in Key
  BY KeyIsTyped DEF IInv
<1> QED BY <1>2, <1>3 DEF IInv, LastInv

\* A retry is replayed until the response expires or is evicted.
THEOREM RetryIsReplayed == Spec => RetriesAreReplayed
<1>1. IInv /\ [Next]_vars
      => [\A r \in Request :
            (req'[r].pc = "leading" /\ req[r].pc # "leading")
            => LET c == last[KeyOf(r)]
               IN  c = None \/ c.evicted \/ now > c.expiresAt]_vars
  BY LeadsWhenGone
<1> QED BY <1>1, IdempotencyInvariant, PTL DEF Spec, RetriesAreReplayed
=============================================================================
