------------------------------ MODULE Dispatch ------------------------------
(***************************************************************************)
(* What happens to a call that AuthzDecide lets through: the native services *)
(* and the method resolver of the gRPC server, the local endpoints and the   *)
(* split REST mux of the HTTP server, and the operations proxy that both     *)
(* share.  These layers hold gates of their own, which do not depend on the  *)
(* catalog, the overrides or fail-open.                                      *)
(*                                                                           *)
(* Backends are external: a relayed call is answered by the backend or fails *)
(* there, which makes no difference here (StreamProxy is about the relay).   *)
(***************************************************************************)
EXTENDS AuthzDecide

CONSTANTS
  AllowedFqn,    \* allowlist.AllowedMethods
  InternalPath,  \* FQNs whose REST path isInternalPath accepts
  OperationFqn,  \* the two methods of OperationService
  CancelFqn,     \* its Cancel
  Backend,       \* keys of config.BackendAddrs
  Configured,    \* those whose address is not empty
  GrpcDomain,    \* FQN -> the domain in its proto package, or None
  RestBackend,   \* FQN -> the key NewMux registers its service with, or None
  Identity,      \* principal -> its type and id, as the metadata carries them
  Prefix,        \* operation id -> domain of its prefix; None: malformed or unknown
  Owner          \* backends: operation id -> owner recorded at creation; None: nobody

NoOwner == [type |-> "", id |-> ""]
Bootstrap == [type |-> "system", id |-> "bootstrap"]

ASSUME DispatchAssumption ==
  /\ AllowedFqn \cup InternalPath \cup OperationFqn \subseteq Fqn
  /\ CancelFqn \in OperationFqn /\ OperationFqn \subseteq NativeFqn
  /\ OperationFqn \cap (InternalPath \cup InternalFqn) = {}
  /\ Configured \subseteq Backend /\ {None, "local"} \cap Backend = {}
  /\ GrpcDomain \in [Fqn -> Backend \cup {None, "operation"}]
  /\ RestBackend \in [Fqn -> Backend \cup {None}]
  /\ Identity \in [Subject \cup {Anonymous} -> [type : STRING, id : STRING]]
  /\ Identity[Anonymous] # Bootstrap
  /\ Prefix \in [DOMAIN Prefix -> Backend \cup {None, "other"}]
  /\ DOMAIN Prefix \subseteq Id /\ DOMAIN Owner \subseteq DOMAIN Prefix
  /\ Owner \in [DOMAIN Owner -> [type : STRING, id : STRING]]

VARIABLE served     \* per request: NotServed, or what the serving layer did

dispatchVars == <<catalog, overrides, reload, failOpen, req, good, served>>

\* to: where the call went; status: the answer; op: the operation in it; cancelled:
\* the backend has cancelled the operation.
NotServed == [to |-> None, status |-> None, op |-> None, cancelled |-> FALSE]
Refuse(status) == [NotServed EXCEPT !.status = status]
Relay(to) == [NotServed EXCEPT !.to = to, !.status = "OK"]

-----------------------------------------------------------------------------
(* Routing.                                                                *)

IsAllowed(f) == f \in AllowedFqn
HasInternalSuffix(f) == f \in InternalFqn

\* Mutant: the method list alone decides.
ResolverByList(f) ==
  IF IsAllowed(f) /\ GrpcDomain[f] # None THEN Relay(GrpcDomain[f]) ELSE Refuse("NotFound")

\* Resolver and the NotFound of the unknown-service handler.  Every key of
\* BackendAddrs has a connection.
Resolver(f) ==
  IF IsAllowed(f) /\ ~HasInternalSuffix(f) /\ GrpcDomain[f] # None
  THEN Relay(GrpcDomain[f])
  ELSE Refuse("NotFound")

\* The backends whose public services NewMux registers without looking at an address.
Unconditional == {"vpc", "compute"}

\* NewMux registers the other services when their address is configured, each one on
\* both sub-muxes.
Registered(f) ==
  RestBackend[f] # None /\ RestBackend[f] \in Configured \cup Unconditional

\* A path is known here by the method it is the route of.
isInternalPath(f) == f \in InternalPath

\* IsExternal: a connection is external unless the internal listener accepted it.
IsExternal(c) == ~c.internal

\* The dispatcher of NewMux.  The two sub-muxes hold the same routes.
Dispatcher(c) ==
  IF ~(isInternalPath(c.fqn) /\ IsExternal(c)) /\ Registered(c.fqn)
  THEN Relay(RestBackend[c.fqn])
  ELSE Refuse("NotFound")

-----------------------------------------------------------------------------
(* The operations proxy.                                                   *)

\* The metadata that injectPrincipal set, or that buildPrincipalMetadata copied from
\* the headers: no header, no key.
buildPrincipalMetadata(c) ==
  IF PrincipalOf(c) = None THEN [k \in {} |-> ""] ELSE Identity[PrincipalOf(c)]

\* A missing key reads as the empty string.
principalFromContext(c) ==
  [k \in DOMAIN NoOwner |->
     IF k \in DOMAIN buildPrincipalMetadata(c) THEN buildPrincipalMetadata(c)[k] ELSE ""]

OwnerOf(op) == IF op \in DOMAIN Owner THEN Owner[op] ELSE NoOwner

\* resolveBackend: the status that refuses the id, or "OK".
resolveBackend(op) ==
  IF op \notin DOMAIN Prefix \/ Prefix[op] = None THEN "InvalidArgument"
  ELSE IF Prefix[op] \notin Backend THEN "NotFound"
  ELSE "OK"

\* Mutant: owners are compared by id alone.
checkOperationOwnershipById(caller, op) ==
  /\ caller.id # ""
  /\ \/ caller = Bootstrap
     \/ OwnerOf(op) # Bootstrap /\ caller.id = OwnerOf(op).id

checkOperationOwnership(caller, op) ==
  /\ caller.id # ""
  /\ \/ caller = Bootstrap
     \/ /\ OwnerOf(op).id # "" /\ OwnerOf(op) # Bootstrap
        /\ caller = OwnerOf(op)

\* The operation id of the request.
OperationOf(c) == IF c.ids = <<>> THEN None ELSE Head(c.ids)

-----------------------------------------------------------------------------
(* Actions.                                                                *)

DispatchInit ==
  /\ Init
  /\ served = [r \in Request |-> NotServed]

\* Request r was let through and is not served yet.
Waiting(r) == Admitted(r) /\ served[r] = NotServed

IsLocal(c) ==
  \/ c.via = "http" /\ c.path
  \/ c.via = "grpc" /\ c.fqn \in NativeFqn \ OperationFqn

Serve(r, result) ==
  /\ served' = [served EXCEPT ![r] = result]
  /\ UNCHANGED vars

\* Health over gRPC; healthz, readyz, login and logout over HTTP.
ServeLocal(r) ==
  /\ Waiting(r) /\ IsLocal(req[r].call)
  /\ Serve(r, Relay("local"))

ServeGrpc(r) ==
  LET c == req[r].call
  IN  /\ Waiting(r) /\ c.via = "grpc" /\ c.fqn \notin NativeFqn
      /\ Serve(r, Resolver(c.fqn))

ServeRest(r) ==
  LET c == req[r].call
  IN  /\ Waiting(r) /\ c.via = "http" /\ ~IsLocal(c) /\ c.fqn \notin OperationFqn
      /\ Serve(r, Dispatcher(c))

\* OpsProxy.Get and Cancel, in process for both surfaces.  The backend applies the
\* call or refuses it, and its answer may come too late; only then does the proxy
\* look at the owner, of a cancelled operation too.
ServeOperation(r) ==
  LET c == req[r].call
      op == OperationOf(c)
      verdict == IF checkOperationOwnership(principalFromContext(c), op)
                 THEN [Relay(Prefix[op]) EXCEPT !.op = op]
                 ELSE Refuse("PermissionDenied")
  IN  /\ Waiting(r) /\ ~IsLocal(c) /\ c.fqn \in OperationFqn
      /\ IF resolveBackend(op) # "OK"
         THEN Serve(r, Refuse(resolveBackend(op)))
         ELSE \E applied, answered \in BOOLEAN :
                Serve(r, [(IF applied /\ answered THEN verdict ELSE Refuse("backend error"))
                            EXCEPT !.cancelled = applied /\ c.fqn = CancelFqn])

Finish(r) ==
  /\ ~Waiting(r) /\ Leave(r)
  /\ served' = [served EXCEPT ![r] = NotServed]

DispatchNext ==
  \/ \E r \in Request :
       \/ Decide(r) /\ UNCHANGED served
       \/ ServeLocal(r) \/ ServeGrpc(r) \/ ServeRest(r) \/ ServeOperation(r)
       \/ Finish(r)
  \/ Reload /\ UNCHANGED served

DispatchSpec == DispatchInit /\ [][DispatchNext]_dispatchVars

-----------------------------------------------------------------------------
(* Properties.                                                             *)

\* An operation is returned only to the principal that created it, by type and id,
\* or to the bootstrap worker, although OperationService is exempt from Check: an
\* operation without an owner, or owned by the bootstrap worker, is returned to no
\* tenant, under an allow override and under fail-open too.  A caller without a
\* credential gets none over REST.  Over gRPC he is system:anonymous and gets the
\* operations that system:anonymous created - any anonymous caller's - where the
\* comment of checkOperationOwnership (proxy.go:213-217, 236-238) has an anonymous
\* caller refused.  A cancellation that is answered OK has reached the backend; the
\* converse, that only its creator cancels an operation (proxy.go:187-189), does not
\* hold and is not claimed: the backend has cancelled before the owner is looked at.
OperationsAreOwn ==
  \A r \in Request :
    LET c == req[r].call
        op == served[r].op
    IN  op # None =>
          /\ \/ /\ c.cred # None
                /\ \/ Identity[c.cred] = Bootstrap
                   \/ /\ op \in DOMAIN Owner /\ Owner[op] # Bootstrap
                      /\ Owner[op] = Identity[c.cred]
             \/ /\ InjectedAnonymous(c)
                /\ op \in DOMAIN Owner /\ Owner[op] = Identity[Anonymous]
          /\ c.fqn = CancelFqn => served[r].cancelled

\* A call on an internal REST path, and a call of an Internal* method over gRPC,
\* reaches a backend only through the cluster-internal listener: an allow override,
\* an exempt entry, fail-open or a stray row of the method list does not open it.
InternalIsInternal ==
  \A r \in Request :
    LET c == req[r].call
    IN  /\ served[r].to \in Backend
        /\ \/ c.via = "http" /\ c.fqn \in InternalPath
           \/ c.via = "grpc" /\ c.fqn \in InternalFqn
        => c.via = "http" /\ c.internal
=============================================================================
