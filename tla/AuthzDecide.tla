----------------------------- MODULE AuthzDecide -----------------------------
(***************************************************************************)
(* AuthzMiddleware.decide, the single decision path behind the Unary, Stream *)
(* and HTTP gates, running while SIGHUP reloads the permission catalog and   *)
(* the overrides under it.  decide takes no lock: each of its phases loads   *)
(* the atomic pointer it needs, so one request may see the catalog twice and *)
(* the overrides once, each at another moment.                               *)
(*                                                                           *)
(* The decision cache is DecisionCache's subject; here a Check is answered   *)
(* by IAM (external), whose grants do not change.  An entry's permission     *)
(* stands for its required_relation too: in the catalog one determines the   *)
(* other.                                                                    *)
(***************************************************************************)
EXTENDS Naturals, Sequences, FiniteSets, SequencesExt

CONSTANTS
  Request,       \* requests in flight at once
  Call,          \* what clients send; see CallType
  Fqn,           \* gRPC method names (REST paths are resolved to them)
  Subject,       \* principals the gateway authenticates
  Id,            \* resource ids that requests carry
  Permission,    \* permissions of gated catalog entries
  ObjectType,    \* FGA object types
  Allowlist,     \* FQNs of DefaultPublicAllowlist
  InternalFqn,   \* FQNs with HasInternalSuffix
  NativeFqn,     \* FQNs of services registered on the gateway's own gRPC server
  GetFqn,        \* FQNs with isReadGetFQN
  Malformed,     \* ids that corevalidate.ResourceID rejects
  Granted,       \* IAM: <<subject, permission, object type, id>> that Check allows
  CatalogFile,   \* contents the catalog file may have: sequences of entries
  OverrideFile,  \* contents the overrides file may have: sequences of rows
  None,          \* no credential, no principal
  Anonymous,     \* the principal injectAnonymous sets
  MaxReload      \* bound: SIGHUPs

Wildcard == "*"
Singleton == "cluster_kacho_root"

\* via:  the surface the call arrives on; path: an isPublicHTTPPath URL;
\* internal: accepted by the cluster-internal listener; cred: the verified bearer
\* token's subject; ids: the ids it carries in the places the extractor looks (path,
\* query, body, or the message field), in that order; type: the scope-type field.
CallType ==
  [via : {"http", "grpc"}, path : BOOLEAN, internal : BOOLEAN, fqn : Fqn,
   cred : Subject \cup {None}, ids : Seq(Id \cup {None}), type : ObjectType \cup {None}]

\* field: the kind of from_request_field; poly: object_type_from_request_field is
\* set; vget: required_relation is v_get; exempt: permission is "<exempt>".
Entry ==
  [fqn : Fqn, exempt : BOOLEAN, permission : Permission, type : ObjectType \cup {None},
   field : {"", "*", "subject", "resource", "id"}, poly : BOOLEAN, hide : BOOLEAN,
   vget : BOOLEAN]

OverrideRow == [fqn : Fqn, decision : {"allow", "deny", "unknown"}]

Answer == {"handler", "PermissionDenied", "Unauthenticated", "InvalidArgument",
           "NotFound", "Unavailable"}

ASSUME AuthzAssumption ==
  /\ Call \subseteq CallType /\ Call # {}
  /\ Allowlist \cup InternalFqn \cup NativeFqn \cup GetFqn \subseteq Fqn
  /\ Allowlist \cap InternalFqn = {}
  /\ {"project", "cluster"} \subseteq ObjectType
  /\ Malformed \subseteq Id
  /\ CatalogFile \subseteq Seq(Entry)
  /\ OverrideFile \subseteq Seq(OverrideRow)
  /\ None \notin Subject \cup Id \cup ObjectType \cup Answer
  /\ Anonymous \notin Subject \cup {None}
  /\ MaxReload \in Nat

VARIABLES
  catalog,    \* PermissionCatalog.entries: FQN -> entry
  overrides,  \* AuthzOverrides.current: FQN -> "allow" or "deny"
  reload,     \* the SIGHUP goroutine: its step, and reloads so far
  failOpen,   \* cfg.FailOpen
  req,        \* the requests
  good        \* history: what the last files without an error say

configVars == <<catalog, overrides, reload, failOpen, good>>
vars == <<catalog, overrides, reload, failOpen, req, good>>

-----------------------------------------------------------------------------
(* The two configuration files.                                            *)

HasDuplicateFqn(rows) ==
  \E i, j \in DOMAIN rows : i # j /\ rows[i].fqn = rows[j].fqn

\* The maps the loaders build from the rows of a file.
FqnsOf(rows) == {rows[i].fqn : i \in DOMAIN rows}
RowOf(rows, f) == rows[CHOOSE i \in DOMAIN rows : rows[i].fqn = f]

CatalogMap(rows) == [f \in FqnsOf(rows) |-> RowOf(rows, f)]
OverrideMap(rows) == [f \in FqnsOf(rows) |-> RowOf(rows, f).decision]

\* The errors of the two loaders: an empty catalog, a duplicate FQN, an unknown
\* decision.  (An empty overrides file is no error, it clears the overrides.)
CatalogOK(rows) == rows # <<>> /\ ~HasDuplicateFqn(rows)
OverridesOK(rows) ==
  ~HasDuplicateFqn(rows) /\ \A i \in DOMAIN rows : rows[i].decision # "unknown"

\* PermissionCatalog.LoadFromBytes: an error keeps the catalog in force.
LoadCatalog(rows, old) == IF CatalogOK(rows) THEN CatalogMap(rows) ELSE old

\* Mutant: an erroneous file clears the overrides.
LoadOverridesOrClear(rows, old) == IF OverridesOK(rows) THEN OverrideMap(rows) ELSE <<>>

\* AuthzOverrides.LoadFromBytes: an error keeps the overrides in force.
LoadOverrides(rows, old) == IF OverridesOK(rows) THEN OverrideMap(rows) ELSE old

-----------------------------------------------------------------------------
(* The phases.  A phase's result is a decision, or "next".                 *)

IsExempt(cat, f) == f \in DOMAIN cat /\ cat[f].exempt

IsConcreteResourceScope(e) == ~e.poly /\ e.field = "id"

HidesExistenceOnDeny(e) ==
  e.hide \/ (e.fqn \in GetFqn /\ e.vget /\ IsConcreteResourceScope(e))

\* The interceptor that gates the call: a gRPC call to a service that is not
\* registered natively reaches the unknown-service handler, which gRPC dispatches
\* as a stream: no request message is read before the gate.
IsStream(c) == c.via = "grpc" /\ c.fqn \notin NativeFqn

\* injectAnonymous: the call has no credential and bears system:anonymous.
InjectedAnonymous(c) == c.via = "grpc" /\ c.cred = None

\* The principal the authentication layers leave for authz (modes dev and
\* production): without a bearer token the gRPC interceptor injects
\* system:anonymous, while the HTTP one sets no principal header.
PrincipalOf(c) ==
  CASE c.cred # None -> c.cred
    [] InjectedAnonymous(c) -> Anonymous
    [] OTHER -> None

\* SubjectExtractor.Extract, built with allowExternalFallback: any principal id
\* resolves, an unknown principal type to external:<id>.
Authenticated(c) == PrincipalOf(c) # None

\* ExtractFromHTTP and ExtractFromProto: the first id present, or the wildcard.
ExtractId(c, e) ==
  LET present == {i \in DOMAIN c.ids : c.ids[i] # None}
  IN  IF e.field \in {"", "*"} \/ IsStream(c) \/ present = {}
      THEN Wildcard ELSE c.ids[Min(present)]

\* phaseResource: the object type, a scope-type field first; "project" by default.
ExtractType(c, e) ==
  CASE e.poly /\ ~IsStream(c) /\ c.type # None -> c.type
    [] OTHER -> IF e.type = None THEN "project" ELSE e.type

\* phaseResource: the FGA object; the cluster is a singleton.
ObjectOf(c, e) ==
  LET t == ExtractType(c, e)
      i == ExtractId(c, e)
  IN  <<t, IF t = "cluster" /\ i = Wildcard THEN Singleton ELSE i>>

phaseAllowlist(c) == IF c.fqn \in Allowlist THEN "allow" ELSE "next"

\* isExternalRequest: every gRPC call counts as external.
phaseInternalOriginExempt(c, cat) ==
  IF c.fqn \in InternalFqn /\ c.via = "http" /\ c.internal /\ IsExempt(cat, c.fqn)
  THEN "allow" ELSE "next"

phaseOverride(c, ovr) == IF c.fqn \in DOMAIN ovr THEN ovr[c.fqn] ELSE "next"

\* Mutant: an exempt method skips authentication too.
phaseCatalogExemptIsPublic(c, cat) ==
  CASE IsExempt(cat, c.fqn) -> "allow"
    [] c.fqn \notin DOMAIN cat -> "deny"
    [] OTHER -> "next"

phaseCatalog(c, cat) ==
  CASE IsExempt(cat, c.fqn) -> IF Authenticated(c) THEN "allow" ELSE "unauthenticated"
    [] c.fqn \notin DOMAIN cat -> "deny"
    [] OTHER -> "next"

phaseSubject(c) == IF Authenticated(c) THEN "next" ELSE "unauthenticated"

\* Mutant: an unread request is checked against the whole type.
phaseResourceWidens(c, e) ==
  IF IsConcreteResourceScope(e) /\ ObjectOf(c, e)[2] \in Malformed \ {Wildcard}
  THEN "invalid" ELSE "next"

\* An id that is the wildcard itself is not validated.
phaseResource(c, e) ==
  CASE IsStream(c) /\ IsConcreteResourceScope(e) -> "deny"
    [] ~IsStream(c) /\ IsConcreteResourceScope(e)
         /\ ObjectOf(c, e)[2] \in Malformed \ {Wildcard} -> "invalid"
    [] OTHER -> "next"

\* denyDecision.
denyDecision(e) == IF HidesExistenceOnDeny(e) THEN "notfound" ELSE "deny"

\* Phases 3 to 5 for the catalog cat.
Resolve(c, cat) ==
  LET catalogPhase == phaseCatalog(c, cat)
      subjectPhase == phaseSubject(c)
  IN  CASE catalogPhase # "next" -> catalogPhase
        [] catalogPhase = "next" /\ subjectPhase # "next" -> subjectPhase
        [] OTHER -> phaseResource(c, cat[c.fqn])

\* The switch on decision.outcome at the end of Unary, Stream and HTTP.
AnswerTo(outcome) ==
  CASE outcome = "allow" -> "handler"
    [] outcome = "deny" -> "PermissionDenied"
    [] outcome = "unauthenticated" -> "Unauthenticated"
    [] outcome = "invalid" -> "InvalidArgument"
    [] outcome = "notfound" -> "NotFound"
    [] outcome = "error" -> IF failOpen THEN "handler" ELSE "Unavailable"

-----------------------------------------------------------------------------
(* Requests.                                                               *)

Idle ==
  [pc |-> "idle", call |-> CHOOSE c \in Call : TRUE, entry |-> None, object |-> None,
   answer |-> None, cats |-> {}, ovrs |-> {}]

\* entry, object: what phases 3-5 resolved for phaseCheck.  cats, ovrs: history,
\* the configurations the operator had given since the request arrived (good).
TypeOK ==
  /\ DOMAIN catalog \subseteq Fqn /\ catalog \in [DOMAIN catalog -> Entry]
  /\ DOMAIN overrides \subseteq Fqn /\ overrides \in [DOMAIN overrides -> {"allow", "deny"}]
  /\ reload \in [swapped : BOOLEAN, count : 0..MaxReload]
  /\ failOpen \in BOOLEAN
  /\ \A r \in Request :
       /\ req[r].call \in Call
       /\ req[r].answer \in Answer \cup {None}
       /\ req[r].answer # None <=> req[r].pc = "done"
       /\ req[r].pc = "check" =>
            /\ req[r].entry \in Entry
            /\ req[r].object \in ObjectType \X (Id \cup {Wildcard, Singleton})

\* The gateway does not start on an erroneous file.
Init ==
  /\ good \in [cat : {CatalogMap(rows) : rows \in {f \in CatalogFile : CatalogOK(f)}},
               ovr : {OverrideMap(rows) : rows \in {f \in OverrideFile : OverridesOK(f)}}]
  /\ catalog = good.cat
  /\ overrides = good.ovr
  /\ reload = [swapped |-> FALSE, count |-> 0]
  /\ failOpen \in BOOLEAN
  /\ req = [r \in Request |-> Idle]

\* Request r goes on at pc, or is answered.
Continue(r, outcome, pc) ==
  IF outcome = "next"
  THEN [req[r] EXCEPT !.pc = pc]
  ELSE [req[r] EXCEPT !.pc = "done", !.answer = AnswerTo(outcome)]

\* The call arrives: a public HTTP path is served at once; otherwise the allowlist
\* and the internal-origin gate, which loads the catalog.
Arrive(r, c) ==
  LET allowlistPhase == phaseAllowlist(c)
      outcome == CASE c.via = "http" /\ c.path -> "allow"
                   [] allowlistPhase # "next" -> allowlistPhase
                   [] OTHER -> phaseInternalOriginExempt(c, catalog)
      fresh == [Idle EXCEPT !.call = c, !.cats = {good.cat}, !.ovrs = {good.ovr}]
  IN  /\ req[r].pc = "idle"
      /\ req' = [req EXCEPT ![r] =
                   IF outcome = "next"
                   THEN [fresh EXCEPT !.pc = "override"]
                   ELSE [fresh EXCEPT !.pc = "done", !.answer = AnswerTo(outcome)]]
      /\ UNCHANGED configVars

\* phaseOverride loads the overrides.
ApplyOverride(r) ==
  /\ req[r].pc = "override"
  /\ req' = [req EXCEPT ![r] = Continue(r, phaseOverride(req[r].call, overrides), "catalog")]
  /\ UNCHANGED configVars

\* phaseCatalog loads the catalog again; subject and resource follow from the
\* entry it found.
ApplyCatalog(r) ==
  LET c == req[r].call
      outcome == Resolve(c, catalog)
  IN  /\ req[r].pc = "catalog"
      /\ req' = [req EXCEPT ![r] =
                   IF outcome = "next"
                   THEN [req[r] EXCEPT !.pc = "check", !.entry = catalog[c.fqn],
                                       !.object = ObjectOf(c, catalog[c.fqn])]
                   ELSE [req[r] EXCEPT !.pc = "done", !.answer = AnswerTo(outcome)]]
      /\ UNCHANGED configVars

\* What IAM may answer: allowed; denied, as a result or as a PermissionDenied
\* status; or any other error.
Verdict(c, e, object) ==
  LET granted == <<PrincipalOf(c), e.permission, object[1], object[2]>> \in Granted
  IN  {"error"} \cup IF granted THEN {"allowed"} ELSE {"denied", "PermissionDenied"}

\* Mutant: a denial that arrives as a status does not hide existence.
phaseCheckStatusIsDeny(e, verdict) ==
  CASE verdict = "allowed" -> "allow"
    [] verdict = "PermissionDenied" -> "deny"
    [] verdict = "denied" -> denyDecision(e)
    [] verdict = "error" -> "error"

\* phaseCheck on an answer of IAM.
phaseCheck(e, verdict) ==
  CASE verdict = "allowed" -> "allow"
    [] verdict = "PermissionDenied" -> denyDecision(e)
    [] verdict = "denied" -> denyDecision(e)
    [] verdict = "error" -> "error"

Check(r) ==
  /\ req[r].pc = "check"
  /\ \E verdict \in Verdict(req[r].call, req[r].entry, req[r].object) :
       req' = [req EXCEPT ![r] = Continue(r, phaseCheck(req[r].entry, verdict), "done")]
  /\ UNCHANGED configVars

\* The answer has been sent; the slot serves another call.
Leave(r) ==
  /\ req[r].pc = "done"
  /\ req' = [req EXCEPT ![r] = Idle]
  /\ UNCHANGED configVars

-----------------------------------------------------------------------------
(* Reload, one SIGHUP at a time.  The operator may edit both files at any    *)
(* moment, so a read finds any content (or fails, as an erroneous one does). *)

InFlight(r) == req[r].pc \notin {"idle", "done"}

ReloadCatalog ==
  /\ ~reload.swapped /\ reload.count < MaxReload
  /\ \E rows \in CatalogFile :
       /\ catalog' = LoadCatalog(rows, catalog)
       /\ good' = [good EXCEPT !.cat = IF CatalogOK(rows) THEN CatalogMap(rows) ELSE @]
  /\ reload' = [swapped |-> TRUE, count |-> reload.count + 1]
  /\ req' = [r \in Request |-> IF InFlight(r)
                               THEN [req[r] EXCEPT !.cats = @ \cup {good'.cat}]
                               ELSE req[r]]
  /\ UNCHANGED <<overrides, failOpen>>

\* Whether or not the catalog could be read.
ReloadOverrides ==
  /\ reload.swapped
  /\ \E rows \in OverrideFile :
       /\ overrides' = LoadOverrides(rows, overrides)
       /\ good' = [good EXCEPT !.ovr = IF OverridesOK(rows) THEN OverrideMap(rows) ELSE @]
  /\ reload' = [reload EXCEPT !.swapped = FALSE]
  /\ req' = [r \in Request |-> IF InFlight(r)
                               THEN [req[r] EXCEPT !.ovrs = @ \cup {good'.ovr}]
                               ELSE req[r]]
  /\ UNCHANGED <<catalog, failOpen>>

Decide(r) ==
  \/ \E c \in Call : Arrive(r, c)
  \/ ApplyOverride(r) \/ ApplyCatalog(r) \/ Check(r)

Reload == ReloadCatalog \/ ReloadOverrides

Next == (\E r \in Request : Decide(r) \/ Leave(r)) \/ Reload

Spec == Init /\ [][Next]_vars

-----------------------------------------------------------------------------
(* Properties.                                                             *)

Admitted(r) == req[r].pc = "done" /\ req[r].answer = "handler"

\* The request needs no rule of the configuration: a public path, the allowlist.
Public(c) == (c.via = "http" /\ c.path) \/ c.fqn \in Allowlist

\* Some catalog, or some overrides, in force while r was decided.
Gated(cat, f) == f \in DOMAIN cat /\ ~cat[f].exempt

OverriddenDuring(r, decision) ==
  \E ovr \in req[r].ovrs : <<req[r].call.fqn, decision>> \in {<<f, ovr[f]>> : f \in DOMAIN ovr}

InternalExemptDuring(r) ==
  LET c == req[r].call
  IN  c.fqn \in InternalFqn /\ c.via = "http" /\ c.internal
        /\ \E cat \in req[r].cats : IsExempt(cat, c.fqn)

\* decide fails closed, whatever is reloaded while it runs: a request that reaches
\* the handler is public, or a rule in force while it was decided admits it - the
\* internal-origin gate, an allow override, an exempt entry and a principal, or a
\* gated entry, a principal and a grant (fail-open waives the grant, never the
\* principal, and never a method that no catalog knew).  Over REST the principal is
\* a credential of the caller.  Over gRPC it need not be: the injected
\* system:anonymous resolves to an external subject and passes the exempt gate, and
\* a gated entry under fail-open, although phaseCatalog's comment (authz.go:699-704)
\* gives that very caller as the one the gate keeps out.
AdmittedByARuleInForce == TypeOK /\
  \A r \in Request : Admitted(r) =>
    LET c == req[r].call
    IN  \/ Public(c)
        \/ InternalExemptDuring(r)
        \/ OverriddenDuring(r, "allow")
        \/ /\ c.cred # None \/ InjectedAnonymous(c)
           /\ \E cat \in req[r].cats :
                \/ IsExempt(cat, c.fqn)
                \/ /\ Gated(cat, c.fqn)
                   /\ \/ failOpen
                      \/ \E g \in Granted :
                           g[1] = PrincipalOf(c) /\ g[2] = cat[c.fqn].permission

\* An emergency deny override binds from the moment it is loaded until it is
\* removed: only public methods and the internal-origin gate come before it, and a
\* reload that fails does not lift it.
DenyOverrideBinds ==
  \A r \in Request :
    LET c == req[r].call
    IN  /\ req[r].pc = "done" /\ ~Public(c) /\ ~InternalExemptDuring(r)
        /\ \A ovr \in req[r].ovrs : c.fqn \in DOMAIN ovr /\ ovr[c.fqn] = "deny"
        => req[r].answer = "PermissionDenied"

\* A call whose method is scoped to one resource reaches the handler through a
\* Check only if its caller has the grant on the resource the call names: the scope
\* never widens to the whole type, on any of the three surfaces.  (A call that sends
\* the wildcard as an id names the whole type.)
GrantIsOnNamedResource ==
  \A r \in Request :
    LET c == req[r].call
    IN  (/\ Admitted(r) /\ ~Public(c) /\ ~failOpen /\ ~OverriddenDuring(r, "allow")
         /\ \E i \in DOMAIN c.ids : c.ids[i] # None
         /\ \A i \in DOMAIN c.ids : c.ids[i] # Wildcard
         /\ \A cat \in req[r].cats :
              Gated(cat, c.fqn) /\ cat[c.fqn].field = "id" /\ ~cat[c.fqn].poly)
        => \E cat \in req[r].cats, i \in DOMAIN c.ids :
             /\ \A j \in 1..(i - 1) : c.ids[j] = None
             /\ <<PrincipalOf(c), cat[c.fqn].permission, ExtractType(c, cat[c.fqn]),
                  c.ids[i]>> \in Granted

\* A method that hides existence never tells a caller, by PermissionDenied, that
\* the resource exists, in whichever shape IAM expressed the denial.
HiddenStaysHidden ==
  \A r \in Request :
    LET c == req[r].call
    IN  (/\ req[r].pc = "done" /\ ~IsStream(c) /\ ~OverriddenDuring(r, "deny")
         /\ \A cat \in req[r].cats :
              Gated(cat, c.fqn) /\ HidesExistenceOnDeny(cat[c.fqn]))
        => req[r].answer # "PermissionDenied"

=============================================================================
