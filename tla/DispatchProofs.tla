--------------------------- MODULE DispatchProofs ---------------------------
(***************************************************************************)
(* Proofs about AuthzDecide and Dispatch, for any methods, calls, grants,    *)
(* files and number of reloads and requests.                                 *)
(*                                                                           *)
(* decide reads the overrides and the catalog at different moments, so none  *)
(* of the properties of an answer is inductive.  The invariant says what a   *)
(* request in progress has established, and that its answer is the one the   *)
(* phases, run in sequence, give on some overrides and some catalog that     *)
(* were in force while it was decided.                                       *)
(***************************************************************************)
EXTENDS Dispatch, WellFoundedInduction, TLAPS

Catalogs == UNION {[F -> Entry] : F \in SUBSET Fqn}
OverrideTables == UNION {[F -> {"allow", "deny"}] : F \in SUBSET Fqn}

RequestState ==
  [pc : {"idle", "override", "catalog", "check", "done"}, call : Call,
   entry : Entry \cup {None},
   object : (ObjectType \X (Id \cup {Wildcard, Singleton})) \cup {None},
   answer : Answer \cup {None}, cats : SUBSET Catalogs, ovrs : SUBSET OverrideTables]

\* Types, and that the files in force are the last ones without an error.
ConfigInv ==
  /\ catalog \in Catalogs
  /\ overrides \in OverrideTables
  /\ reload \in [swapped : BOOLEAN, count : 0..MaxReload]
  /\ failOpen \in BOOLEAN
  /\ good = [cat |-> catalog, ovr |-> overrides]
  /\ req \in [Request -> RequestState]

\* What phases 3 to 6 may say, for the catalog cat.
Outcomes(c, cat) ==
  IF Resolve(c, cat) # "next" THEN {Resolve(c, cat)}
  ELSE {phaseCheck(cat[c.fqn], v) : v \in Verdict(c, cat[c.fqn], ObjectOf(c, cat[c.fqn]))}

\* Request q is past phaseOverride: some overrides in force did not name its method.
NotOverridden(q) == \E ovr \in q.ovrs : q.call.fqn \notin DOMAIN ovr

\* The answer of q is the one of the phases in sequence.
Explained(q) ==
  \/ q.answer = AnswerTo("allow") /\ Public(q.call)
  \/ /\ q.answer = AnswerTo("allow")
     /\ \E cat \in q.cats : phaseInternalOriginExempt(q.call, cat) = "allow"
  \/ \E ovr \in q.ovrs :
       q.call.fqn \in DOMAIN ovr /\ q.answer = AnswerTo(ovr[q.call.fqn])
  \/ /\ NotOverridden(q)
     /\ \E cat \in q.cats : \E o \in Outcomes(q.call, cat) : q.answer = AnswerTo(o)

\* Where a request stands.
RequestInv(q) ==
  /\ q.pc # "done" => q.answer = None
  /\ q.pc \in {"override", "catalog", "check"} =>
       catalog \in q.cats /\ overrides \in q.ovrs
  /\ q.pc \in {"catalog", "check"} => NotOverridden(q)
  /\ q.pc = "check" =>
       \E cat \in q.cats :
         /\ Resolve(q.call, cat) = "next"
         /\ q.call.fqn \in DOMAIN cat
         /\ q.entry = cat[q.call.fqn]
         /\ q.object = ObjectOf(q.call, q.entry)
  /\ q.pc = "done" => Explained(q)

IInv == ConfigInv /\ \A r \in Request : RequestInv(req[r])

-----------------------------------------------------------------------------
(* The files.                                                              *)

\* The map built from the rows of a catalog file is a catalog: RowOf finds the
\* row of every method it names.
LEMMA CatalogMapType ==
  ASSUME NEW rows \in CatalogFile
  PROVE  CatalogMap(rows) \in Catalogs
<1>1. rows \in Seq(Entry)
  BY AuthzAssumption
<1>2. FqnsOf(rows) \subseteq Fqn
  <2>1. \A i \in DOMAIN rows : rows[i] \in Entry
    BY <1>1
  <2> QED BY <2>1 DEF FqnsOf, Entry
<1>3. ASSUME NEW f \in FqnsOf(rows) PROVE RowOf(rows, f) \in Entry
  <2>1. \E i \in DOMAIN rows : rows[i].fqn = f
    BY DEF FqnsOf
  <2>2. (CHOOSE i \in DOMAIN rows : rows[i].fqn = f) \in DOMAIN rows
    BY <2>1
  <2> QED BY <1>1, <2>2 DEF RowOf
<1>4. CatalogMap(rows) \in [FqnsOf(rows) -> Entry]
  BY <1>3 DEF CatalogMap
<1> QED BY <1>2, <1>4 DEF Catalogs

\* Likewise of an overrides file that the loader accepts.
LEMMA OverrideMapType ==
  ASSUME NEW rows \in OverrideFile, OverridesOK(rows)
  PROVE  OverrideMap(rows) \in OverrideTables
<1>1. rows \in Seq(OverrideRow)
  BY AuthzAssumption
<1>2. FqnsOf(rows) \subseteq Fqn
  <2>1. \A i \in DOMAIN rows : rows[i] \in OverrideRow
    BY <1>1
  <2> QED BY <2>1 DEF FqnsOf, OverrideRow
<1>3. ASSUME NEW f \in FqnsOf(rows) PROVE RowOf(rows, f).decision \in {"allow", "deny"}
  <2>1. \E i \in DOMAIN rows : rows[i].fqn = f
    BY DEF FqnsOf
  <2>2. (CHOOSE i \in DOMAIN rows : rows[i].fqn = f) \in DOMAIN rows
    BY <2>1
  <2>3. \A i \in DOMAIN rows : rows[i] \in OverrideRow /\ rows[i].decision # "unknown"
    BY <1>1 DEF OverridesOK
  <2>4. \A i \in DOMAIN rows : rows[i].decision \in {"allow", "deny"}
    BY <2>3 DEF OverrideRow
  <2> QED BY <2>2, <2>4 DEF RowOf
<1>4. OverrideMap(rows) \in [FqnsOf(rows) -> {"allow", "deny"}]
  BY <1>3 DEF OverrideMap
<1> QED BY <1>2, <1>4 DEF OverrideTables

-----------------------------------------------------------------------------
(* The phases.                                                             *)

\* AnswerTo depends on failOpen only, which no step changes.
LEMMA AnswerIsStable ==
  ASSUME failOpen' = failOpen, NEW o
  PROVE  AnswerTo(o)' = AnswerTo(o)
BY DEF AnswerTo

\* The first id of a call is one of its ids, with none before it.
LEMMA FirstId ==
  ASSUME NEW ids, NEW n \in Nat, DOMAIN ids = 1..n,
         NEW P \in SUBSET (1..n), P # {}
  PROVE  /\ Min(P) \in P
         /\ \A j \in P : Min(P) <= j
<1>1. \E x \in P : \A y \in P : x <= y
  <2>1. IsWellFoundedOn(OpToRel(<, Nat), Nat)
    BY NatLessThanWellFounded
  <2> P \subseteq Nat
    BY SMT
  <2>2. \E x \in P : \A y \in P : ~(<<y, x>> \in OpToRel(<, Nat))
    BY <2>1, WFMin
  <2>3. ASSUME NEW x \in P, NEW y \in P, ~(<<y, x>> \in OpToRel(<, Nat)) PROVE x <= y
    BY <2>3 DEF OpToRel
  <2> QED BY <2>2, <2>3
<1> QED BY <1>1 DEF Min

\* What a call is about: an object type and an id, or a placeholder for one.
LEMMA ObjectIsTyped ==
  ASSUME NEW c \in Call, NEW e \in Entry
  PROVE  ObjectOf(c, e) \in ObjectType \X (Id \cup {Wildcard, Singleton})
<1>1. c \in CallType
  BY AuthzAssumption
<1>2. ExtractId(c, e) \in Id \cup {Wildcard}
  <2> DEFINE P == {i \in DOMAIN c.ids : c.ids[i] # None}
  <2>1. CASE P = {}
    BY <2>1 DEF ExtractId
  <2>2. CASE P # {}
    <3>1. PICK n \in Nat : DOMAIN c.ids = 1..n
      BY <1>1 DEF CallType
    <3>2. Min(P) \in P
      BY <2>2, <3>1, FirstId
    <3>3. c.ids[Min(P)] \in Id
      BY <1>1, <3>2 DEF CallType
    <3> QED BY <3>3 DEF ExtractId
  <2> QED BY <2>1, <2>2
<1>3. ExtractType(c, e) \in ObjectType
  BY <1>1, AuthzAssumption DEF ExtractType, CallType, Entry
<1> QED BY <1>2, <1>3 DEF ObjectOf

\* The outcomes a phase may have.
Outcome == {"allow", "deny", "unauthenticated", "invalid", "notfound", "error"}

\* The switch at the end of the gates.
LEMMA AnswerValues ==
  /\ AnswerTo("allow") = "handler"
  /\ AnswerTo("deny") = "PermissionDenied"
  /\ AnswerTo("error") = IF failOpen THEN "handler" ELSE "Unavailable"
  /\ \A o \in {"unauthenticated", "invalid", "notfound"} :
       AnswerTo(o) \in Answer \ {"handler", "PermissionDenied"}
  /\ \A o \in Outcome : AnswerTo(o) \in Answer
<1>1. AnswerTo("allow") = "handler"
  BY DEF AnswerTo
<1>2. AnswerTo("deny") = "PermissionDenied"
  BY DEF AnswerTo
<1>3. AnswerTo("error") = IF failOpen THEN "handler" ELSE "Unavailable"
  BY DEF AnswerTo
<1>4. /\ AnswerTo("unauthenticated") = "Unauthenticated"
      /\ AnswerTo("invalid") = "InvalidArgument"
      /\ AnswerTo("notfound") = "NotFound"
  BY DEF AnswerTo
<1> QED BY <1>1, <1>2, <1>3, <1>4 DEF Answer, Outcome

\* Phases 3 to 5 for a catalog.  When they end in "next" the method is gated, the
\* caller has a principal, and a concrete scope is not that of an unread stream.
LEMMA ResolveValues ==
  ASSUME NEW c, NEW cat
  PROVE  /\ Resolve(c, cat) \in {"next", "allow", "deny", "unauthenticated", "invalid"}
         /\ Resolve(c, cat) = "allow" => IsExempt(cat, c.fqn) /\ Authenticated(c)
         /\ Resolve(c, cat) = "deny" =>
              \/ c.fqn \notin DOMAIN cat
              \/ Gated(cat, c.fqn) /\ IsStream(c)
         /\ Resolve(c, cat) = "next" =>
              /\ Gated(cat, c.fqn) /\ Authenticated(c)
              /\ ~(IsStream(c) /\ IsConcreteResourceScope(cat[c.fqn]))
<1>1. /\ phaseCatalog(c, cat) \in {"next", "allow", "deny", "unauthenticated"}
      /\ phaseCatalog(c, cat) = "allow" => IsExempt(cat, c.fqn) /\ Authenticated(c)
      /\ phaseCatalog(c, cat) = "deny" => c.fqn \notin DOMAIN cat
      /\ phaseCatalog(c, cat) = "next" => Gated(cat, c.fqn)
  BY DEF phaseCatalog, IsExempt, Gated
<1>2. /\ phaseSubject(c) \in {"next", "unauthenticated"}
      /\ phaseSubject(c) = "next" => Authenticated(c)
  BY DEF phaseSubject
<1>3. ASSUME NEW e
      PROVE  /\ phaseResource(c, e) \in {"next", "deny", "invalid"}
             /\ phaseResource(c, e) = "deny" => IsStream(c)
             /\ phaseResource(c, e) = "next" => ~(IsStream(c) /\ IsConcreteResourceScope(e))
  BY DEF phaseResource
<1> QED BY <1>1, <1>2, <1>3 DEF Resolve

\* phaseCheck on an answer of IAM.
LEMMA CheckValues ==
  ASSUME NEW c, NEW e, NEW object, NEW v \in Verdict(c, e, object)
  PROVE  /\ phaseCheck(e, v) \in {"allow", "deny", "notfound", "error"}
         /\ phaseCheck(e, v) = "allow" =>
              <<PrincipalOf(c), e.permission, object[1], object[2]>> \in Granted
         /\ phaseCheck(e, v) = "deny" => ~HidesExistenceOnDeny(e)
<1>1. /\ v \in {"error", "allowed", "denied", "PermissionDenied"}
      /\ v = "allowed" =>
           <<PrincipalOf(c), e.permission, object[1], object[2]>> \in Granted
  BY DEF Verdict
<1>2. /\ denyDecision(e) \in {"deny", "notfound"}
      /\ denyDecision(e) = "deny" => ~HidesExistenceOnDeny(e)
  BY DEF denyDecision
<1>3. /\ phaseCheck(e, "allowed") = "allow"
      /\ phaseCheck(e, "error") = "error"
      /\ phaseCheck(e, "denied") = denyDecision(e)
      /\ phaseCheck(e, "PermissionDenied") = denyDecision(e)
  BY DEF phaseCheck
<1> QED BY <1>1, <1>2, <1>3

-----------------------------------------------------------------------------
(* The invariant.                                                          *)

\* Steps that leave the configuration alone leave what is known of a request alone.
LEMMA RequestInvStable ==
  ASSUME UNCHANGED <<catalog, overrides, failOpen>>, NEW q, RequestInv(q)
  PROVE  RequestInv(q)'
<1>1. \A o : AnswerTo(o)' = AnswerTo(o)
  BY AnswerIsStable
<1>2. Explained(q)' = Explained(q)
  BY <1>1 DEF Explained
<1> QED BY <1>2 DEF RequestInv

\* A step of one request: what holds of the request it becomes is all there is to show.
LEMMA RequestStep ==
  ASSUME IInv, UNCHANGED configVars, NEW r \in Request, NEW q \in RequestState,
         RequestInv(q), req' = [req EXCEPT ![r] = q]
  PROVE  IInv'
<1>1. ConfigInv'
  BY DEF IInv, ConfigInv, configVars
<1>2. ASSUME NEW s \in Request PROVE RequestInv(req[s])'
  <2>1. UNCHANGED <<catalog, overrides, failOpen>>
    BY DEF configVars
  <2>2. PICK p : p = req'[s]
    OBVIOUS
  <2>3. RequestInv(p)
    BY <2>2 DEF IInv, ConfigInv
  <2>4. RequestInv(p)'
    BY <2>1, <2>3, RequestInvStable
  <2> QED BY <2>2, <2>4
<1> QED BY <1>1, <1>2 DEF IInv

LEMMA IdleInv ==
  /\ Idle \in RequestState
  /\ Idle.pc = "idle" /\ Idle.answer = None
  /\ RequestInv(Idle)
<1>1. (CHOOSE c \in Call : TRUE) \in Call
  BY AuthzAssumption
<1>2. Idle \in RequestState /\ Idle.pc = "idle" /\ Idle.answer = None
  BY <1>1 DEF Idle, RequestState
<1> QED BY <1>2 DEF RequestInv

LEMMA InitInv == Init => IInv
<1> SUFFICES ASSUME Init PROVE IInv
  OBVIOUS
<1>1. good.cat \in Catalogs /\ good.ovr \in OverrideTables
  BY CatalogMapType, OverrideMapType DEF Init
<1>2. good = [cat |-> catalog, ovr |-> overrides]
  BY DEF Init
<1>3. ConfigInv
  BY <1>1, <1>2, IdleInv, AuthzAssumption DEF Init, ConfigInv
<1> QED BY <1>3, IdleInv DEF IInv, Init

\* Arrive: the allowlist, the public paths and the internal-origin gate.
LEMMA ArriveInv ==
  ASSUME IInv, NEW r \in Request, NEW c \in Call, Arrive(r, c)
  PROVE  IInv'
<1> DEFINE fresh == [Idle EXCEPT !.call = c, !.cats = {good.cat}, !.ovrs = {good.ovr}]
           outcome == CASE c.via = "http" /\ c.path -> "allow"
                        [] phaseAllowlist(c) # "next" -> phaseAllowlist(c)
                        [] OTHER -> phaseInternalOriginExempt(c, catalog)
           q == IF outcome = "next"
                THEN [fresh EXCEPT !.pc = "override"]
                ELSE [fresh EXCEPT !.pc = "done", !.answer = AnswerTo(outcome)]
<1>1. req' = [req EXCEPT ![r] = q] /\ UNCHANGED configVars
  BY DEF Arrive
<1>2. /\ fresh \in RequestState /\ fresh.call = c
      /\ fresh.cats = {catalog} /\ fresh.ovrs = {overrides}
      /\ fresh.answer = None
  BY IdleInv DEF IInv, ConfigInv, RequestState
<1>3. \/ outcome = "next"
      \/ outcome = "allow" /\ Public(c)
      \/ outcome = "allow" /\ phaseInternalOriginExempt(c, catalog) = "allow"
  BY DEF phaseAllowlist, phaseInternalOriginExempt, Public
<1> HIDE DEF fresh, outcome
<1>4. CASE outcome = "next"
  <2>1. q = [fresh EXCEPT !.pc = "override"]
    BY <1>4
  <2> HIDE DEF q
  <2>2. q \in RequestState
    BY <1>2, <2>1 DEF RequestState
  <2>3. RequestInv(q)
    BY <1>2, <2>1 DEF RequestState, RequestInv
  <2> QED BY <1>1, <2>2, <2>3, RequestStep
<1>5. CASE outcome = "allow"
  <2>1. q = [fresh EXCEPT !.pc = "done", !.answer = AnswerTo("allow")]
    BY <1>5
  <2> HIDE DEF q
  <2>2. q \in RequestState
    BY <1>2, <2>1, AnswerValues DEF RequestState, Answer
  <2>3. Explained(q)
    BY <1>2, <1>3, <1>5, <2>1 DEF RequestState, Explained
  <2>4. RequestInv(q)
    BY <1>2, <2>1, <2>3 DEF RequestState, RequestInv
  <2> QED BY <1>1, <2>2, <2>4, RequestStep
<1> QED BY <1>3, <1>4, <1>5

\* The overrides in force decide, or the request goes on without them.
LEMMA ApplyOverrideInv ==
  ASSUME IInv, NEW r \in Request, ApplyOverride(r)
  PROVE  IInv'
<1> DEFINE p == req[r]
           o == phaseOverride(p.call, overrides)
           q == Continue(r, o, "catalog")
<1>1. req' = [req EXCEPT ![r] = q] /\ UNCHANGED configVars /\ p.pc = "override"
  BY DEF ApplyOverride
<1>2. /\ p \in RequestState /\ RequestInv(p) /\ overrides \in OverrideTables
      /\ catalog \in p.cats /\ overrides \in p.ovrs /\ p.answer = None
  BY <1>1 DEF IInv, ConfigInv, RequestInv
<1>3. /\ o = "next" => p.call.fqn \notin DOMAIN overrides
      /\ o # "next" => /\ p.call.fqn \in DOMAIN overrides
                       /\ o = overrides[p.call.fqn] /\ o \in {"allow", "deny"}
  BY <1>2 DEF phaseOverride, OverrideTables
<1>4. q = IF o = "next" THEN [p EXCEPT !.pc = "catalog"]
          ELSE [p EXCEPT !.pc = "done", !.answer = AnswerTo(o)]
  BY DEF Continue
<1> HIDE DEF p, o, q
<1>5. CASE o = "next"
  <2>1. q \in RequestState
    BY <1>2, <1>4, <1>5 DEF RequestState
  <2>2. NotOverridden(q)
    BY <1>2, <1>3, <1>4, <1>5 DEF RequestState, NotOverridden
  <2>3. RequestInv(q)
    BY <1>2, <1>4, <1>5, <2>2 DEF RequestState, RequestInv
  <2> QED BY <1>1, <2>1, <2>3, RequestStep
<1>6. CASE o # "next"
  <2>1. AnswerTo(o) \in Answer
    BY <1>3, <1>6, AnswerValues DEF Outcome
  <2>2. q \in RequestState
    BY <1>2, <1>4, <1>6, <2>1 DEF RequestState
  <2>3. Explained(q)
    BY <1>2, <1>3, <1>4, <1>6 DEF RequestState, Explained
  <2>4. RequestInv(q)
    BY <1>4, <1>6, <1>2, <2>3 DEF RequestState, RequestInv
  <2> QED BY <1>1, <2>2, <2>4, RequestStep
<1> QED BY <1>5, <1>6

\* The catalog in force decides, or its entry goes to Check.
LEMMA ApplyCatalogInv ==
  ASSUME IInv, NEW r \in Request, ApplyCatalog(r)
  PROVE  IInv'
<1> DEFINE p == req[r]
           o == Resolve(p.call, catalog)
           e == catalog[p.call.fqn]
           q == IF o = "next"
                THEN [p EXCEPT !.pc = "check", !.entry = e, !.object = ObjectOf(p.call, e)]
                ELSE [p EXCEPT !.pc = "done", !.answer = AnswerTo(o)]
<1>1. req' = [req EXCEPT ![r] = q] /\ UNCHANGED configVars /\ p.pc = "catalog"
  BY DEF ApplyCatalog
<1>2. /\ p \in RequestState /\ RequestInv(p) /\ catalog \in Catalogs
      /\ catalog \in p.cats /\ overrides \in p.ovrs /\ p.answer = None
      /\ NotOverridden(p)
  BY <1>1 DEF IInv, ConfigInv, RequestInv
<1>3. p.call \in Call
  BY <1>2 DEF RequestState
<1>4. CASE o = "next"
  <2>1. p.call.fqn \in DOMAIN catalog /\ e \in Entry
    BY <1>2, <1>4, ResolveValues DEF Gated, Catalogs
  <2>2. ObjectOf(p.call, e) \in ObjectType \X (Id \cup {Wildcard, Singleton})
    BY <1>3, <2>1, ObjectIsTyped
  <2>3. q = [p EXCEPT !.pc = "check", !.entry = e, !.object = ObjectOf(p.call, e)]
    BY <1>4
  <2> HIDE DEF p, e, q
  <2>4. /\ q \in RequestState /\ q.pc = "check" /\ q.call = p.call /\ q.answer = None
        /\ q.entry = e /\ q.object = ObjectOf(p.call, e)
        /\ q.cats = p.cats /\ q.ovrs = p.ovrs
    BY <1>2, <2>1, <2>2, <2>3 DEF RequestState
  <2>5. NotOverridden(q)
    BY <1>2, <2>4 DEF NotOverridden
  <2>6. /\ Resolve(q.call, catalog) = "next" /\ q.call.fqn \in DOMAIN catalog
        /\ q.entry = catalog[q.call.fqn] /\ q.object = ObjectOf(q.call, q.entry)
    BY <1>4, <2>1, <2>4 DEF e
  <2>7. RequestInv(q)
    BY <1>2, <2>4, <2>5, <2>6 DEF RequestInv
  <2> QED BY <1>1, <2>4, <2>7, RequestStep
<1>5. CASE o # "next"
  <2>1. AnswerTo(o) \in Answer
    BY <1>5, ResolveValues, AnswerValues DEF Outcome
  <2>2. o \in Outcomes(p.call, catalog)
    BY <1>5 DEF Outcomes
  <2>3. q = [p EXCEPT !.pc = "done", !.answer = AnswerTo(o)]
    BY <1>5
  <2> HIDE DEF p, o, q
  <2>4. /\ q \in RequestState /\ q.pc = "done" /\ q.call = p.call
        /\ q.answer = AnswerTo(o) /\ q.cats = p.cats /\ q.ovrs = p.ovrs
    BY <1>2, <2>1, <2>3 DEF RequestState
  <2>5. Explained(q)
    BY <1>2, <2>2, <2>4 DEF NotOverridden, Explained
  <2>6. RequestInv(q)
    BY <2>4, <2>5 DEF RequestInv
  <2> QED BY <1>1, <2>4, <2>6, RequestStep
<1> QED BY <1>4, <1>5

\* IAM's answer decides, for the entry some catalog in force had.
LEMMA CheckInv ==
  ASSUME IInv, NEW r \in Request, Check(r)
  PROVE  IInv'
<1> DEFINE p == req[r]
<1>1. PICK v \in Verdict(p.call, p.entry, p.object) :
        req' = [req EXCEPT ![r] = Continue(r, phaseCheck(p.entry, v), "done")]
  BY DEF Check
<1> DEFINE o == phaseCheck(p.entry, v)
           q == [p EXCEPT !.pc = "done", !.answer = AnswerTo(o)]
<1>2. o \in Outcome /\ o # "next"
  BY CheckValues DEF Outcome
<1>3. req' = [req EXCEPT ![r] = q] /\ UNCHANGED configVars /\ p.pc = "check"
  BY <1>1, <1>2 DEF Check, Continue
<1>4. p \in RequestState /\ RequestInv(p) /\ NotOverridden(p)
  BY <1>3 DEF IInv, ConfigInv, RequestInv
<1>5. PICK cat \in p.cats :
        /\ Resolve(p.call, cat) = "next"
        /\ p.entry = cat[p.call.fqn]
        /\ p.object = ObjectOf(p.call, p.entry)
  BY <1>3, <1>4 DEF RequestInv
<1>6. o \in Outcomes(p.call, cat)
  BY <1>5 DEF Outcomes
<1>7. AnswerTo(o) \in Answer
  BY <1>2, AnswerValues
<1> HIDE DEF p, o
<1>8. /\ q \in RequestState /\ q.pc = "done" /\ q.call = p.call
      /\ q.answer = AnswerTo(o) /\ q.cats = p.cats /\ q.ovrs = p.ovrs
  BY <1>4, <1>7 DEF RequestState
<1> HIDE DEF q
<1>9. Explained(q)
  BY <1>4, <1>5, <1>6, <1>8 DEF NotOverridden, Explained
<1>10. RequestInv(q)
  BY <1>8, <1>9 DEF RequestInv
<1> QED BY <1>3, <1>8, <1>10, RequestStep

LEMMA LeaveInv ==
  ASSUME IInv, NEW r \in Request, Leave(r)
  PROVE  IInv'
BY IdleInv, RequestStep DEF Leave

\* A reload adds to what was in force while a request is decided.
LEMMA RequestInvGrows ==
  ASSUME NEW p, NEW q, RequestInv(p), failOpen' = failOpen,
         q.pc = p.pc, q.call = p.call, q.entry = p.entry, q.object = p.object,
         q.answer = p.answer, p.cats \subseteq q.cats, p.ovrs \subseteq q.ovrs,
         q.pc \in {"override", "catalog", "check"} => catalog' \in q.cats /\ overrides' \in q.ovrs
  PROVE  RequestInv(q)'
<1>1. \A o : AnswerTo(o)' = AnswerTo(o)
  BY AnswerIsStable
<1>2. NotOverridden(p) => NotOverridden(q)
  BY DEF NotOverridden
<1>3. Explained(p) => Explained(q)'
  BY <1>1, <1>2 DEF Explained
<1> QED BY <1>2, <1>3 DEF RequestInv

LEMMA ReloadCatalogInv ==
  ASSUME IInv, ReloadCatalog
  PROVE  IInv'
<1>1. PICK rows \in CatalogFile :
        /\ catalog' = LoadCatalog(rows, catalog)
        /\ good' = [good EXCEPT !.cat = IF CatalogOK(rows) THEN CatalogMap(rows) ELSE @]
  BY DEF ReloadCatalog
<1>2. catalog' \in Catalogs
  BY <1>1, CatalogMapType DEF LoadCatalog, IInv, ConfigInv
<1>3. good' = [cat |-> catalog', ovr |-> overrides']
  BY <1>1 DEF LoadCatalog, IInv, ConfigInv, ReloadCatalog
<1>4. ASSUME NEW r \in Request
      PROVE  /\ req'[r] \in RequestState
             /\ RequestInv(req[r])'
  <2>1. req[r] \in RequestState /\ RequestInv(req[r])
    BY DEF IInv, ConfigInv
  <2>2. req'[r] = IF InFlight(r) THEN [req[r] EXCEPT !.cats = @ \cup {catalog'}] ELSE req[r]
    BY <1>3 DEF ReloadCatalog
  <2>3. PICK p, q : p = req[r] /\ q = req'[r]
    OBVIOUS
  <2>4. /\ q \in RequestState
        /\ q.pc = p.pc /\ q.call = p.call /\ q.entry = p.entry /\ q.object = p.object
        /\ q.answer = p.answer /\ p.cats \subseteq q.cats /\ q.ovrs = p.ovrs
        /\ q.pc \notin {"idle", "done"} => catalog' \in q.cats
    BY <1>2, <2>1, <2>2, <2>3 DEF RequestState, InFlight
  <2>5. q.pc \in {"override", "catalog", "check"} => overrides' \in q.ovrs
    BY <2>1, <2>3, <2>4 DEF RequestInv, ReloadCatalog
  <2>6. failOpen' = failOpen
    BY DEF ReloadCatalog
  <2>7. RequestInv(q)'
    BY <2>1, <2>3, <2>4, <2>5, <2>6, RequestInvGrows
  <2> QED BY <2>3, <2>4, <2>7
<1>5. req' \in [Request -> RequestState]
  BY <1>4 DEF ReloadCatalog
<1>6. reload' \in [swapped : BOOLEAN, count : 0..MaxReload]
  BY AuthzAssumption DEF ReloadCatalog, IInv, ConfigInv
<1>7. ConfigInv'
  BY <1>2, <1>3, <1>5, <1>6 DEF ReloadCatalog, IInv, ConfigInv
<1> QED BY <1>4, <1>7 DEF IInv

LEMMA ReloadOverridesInv ==
  ASSUME IInv, ReloadOverrides
  PROVE  IInv'
<1>1. PICK rows \in OverrideFile :
        /\ overrides' = LoadOverrides(rows, overrides)
        /\ good' = [good EXCEPT !.ovr = IF OverridesOK(rows) THEN OverrideMap(rows) ELSE @]
  BY DEF ReloadOverrides
<1>2. overrides' \in OverrideTables
  BY <1>1, OverrideMapType DEF LoadOverrides, IInv, ConfigInv
<1>3. good' = [cat |-> catalog', ovr |-> overrides']
  BY <1>1 DEF LoadOverrides, IInv, ConfigInv, ReloadOverrides
<1>4. ASSUME NEW r \in Request
      PROVE  /\ req'[r] \in RequestState
             /\ RequestInv(req[r])'
  <2>1. req[r] \in RequestState /\ RequestInv(req[r])
    BY DEF IInv, ConfigInv
  <2>2. req'[r] = IF InFlight(r) THEN [req[r] EXCEPT !.ovrs = @ \cup {overrides'}] ELSE req[r]
    BY <1>3 DEF ReloadOverrides
  <2>3. PICK p, q : p = req[r] /\ q = req'[r]
    OBVIOUS
  <2>4. /\ q \in RequestState
        /\ q.pc = p.pc /\ q.call = p.call /\ q.entry = p.entry /\ q.object = p.object
        /\ q.answer = p.answer /\ q.cats = p.cats /\ p.ovrs \subseteq q.ovrs
        /\ q.pc \notin {"idle", "done"} => overrides' \in q.ovrs
    BY <1>2, <2>1, <2>2, <2>3 DEF RequestState, InFlight
  <2>5. q.pc \in {"override", "catalog", "check"} => catalog' \in q.cats
    BY <2>1, <2>3, <2>4 DEF RequestInv, ReloadOverrides
  <2>6. failOpen' = failOpen
    BY DEF ReloadOverrides
  <2>7. RequestInv(q)'
    BY <2>1, <2>3, <2>4, <2>5, <2>6, RequestInvGrows
  <2> QED BY <2>3, <2>4, <2>7
<1>5. req' \in [Request -> RequestState]
  BY <1>4 DEF ReloadOverrides
<1>6. reload' \in [swapped : BOOLEAN, count : 0..MaxReload]
  BY DEF ReloadOverrides, IInv, ConfigInv
<1>7. ConfigInv'
  BY <1>2, <1>3, <1>5, <1>6 DEF ReloadOverrides, IInv, ConfigInv
<1> QED BY <1>4, <1>7 DEF IInv

LEMMA NextInv == IInv /\ [Next]_vars => IInv'
<1> SUFFICES ASSUME IInv, [Next]_vars PROVE IInv'
  OBVIOUS
<1>1. ASSUME NEW r \in Request, Decide(r) PROVE IInv'
  BY <1>1, ArriveInv, ApplyOverrideInv, ApplyCatalogInv, CheckInv DEF Decide
<1>2. ASSUME NEW r \in Request, Leave(r) PROVE IInv'
  BY <1>2, LeaveInv
<1>3. CASE Reload
  BY <1>3, ReloadCatalogInv, ReloadOverridesInv DEF Reload
<1>4. CASE UNCHANGED vars
  <2>1. UNCHANGED <<catalog, overrides, failOpen>> /\ UNCHANGED req
    BY <1>4 DEF vars
  <2>2. ASSUME NEW r \in Request PROVE RequestInv(req[r])'
    <3>1. PICK q : q = req[r]
      OBVIOUS
    <3>2. RequestInv(q)'
      BY <2>1, <3>1, RequestInvStable DEF IInv
    <3> QED BY <2>1, <3>1, <3>2
  <2>3. ConfigInv'
    BY <1>4 DEF IInv, ConfigInv, vars
  <2> QED BY <2>2, <2>3 DEF IInv
<1> QED BY <1>1, <1>2, <1>3, <1>4 DEF Next

-----------------------------------------------------------------------------
(* What the invariant says of an answer.                                   *)

\* The outcomes of phases 3 to 6 for one catalog, and what each one rests on.
LEMMA OutcomeValues ==
  ASSUME NEW c, NEW cat, NEW o \in Outcomes(c, cat)
  PROVE  /\ o \in Outcome
         /\ o = "allow" =>
              /\ Authenticated(c)
              /\ \/ IsExempt(cat, c.fqn)
                 \/ /\ Resolve(c, cat) = "next"
                    /\ <<PrincipalOf(c), cat[c.fqn].permission,
                         ObjectOf(c, cat[c.fqn])[1], ObjectOf(c, cat[c.fqn])[2]>> \in Granted
         /\ o = "error" => Authenticated(c) /\ Gated(cat, c.fqn)
         /\ o = "deny" =>
              \/ c.fqn \notin DOMAIN cat
              \/ Gated(cat, c.fqn) /\ (IsStream(c) \/ ~HidesExistenceOnDeny(cat[c.fqn]))
<1>1. CASE Resolve(c, cat) # "next"
  BY <1>1, ResolveValues DEF Outcomes, Outcome
<1>2. CASE Resolve(c, cat) = "next"
  <2>1. Gated(cat, c.fqn) /\ Authenticated(c)
    BY <1>2, ResolveValues
  <2>2. PICK v \in Verdict(c, cat[c.fqn], ObjectOf(c, cat[c.fqn])) : o = phaseCheck(cat[c.fqn], v)
    BY <1>2 DEF Outcomes
  <2> QED BY <1>2, <2>1, <2>2, CheckValues DEF Outcome
<1> QED BY <1>1, <1>2

LEMMA OverrideValues ==
  ASSUME NEW q \in RequestState, NEW ovr \in q.ovrs, q.call.fqn \in DOMAIN ovr
  PROVE  ovr[q.call.fqn] \in {"allow", "deny"}
BY DEF RequestState, OverrideTables

\* Every request that is done has been answered.
LEMMA AnswerIsTyped ==
  ASSUME NEW q \in RequestState, Explained(q)
  PROVE  q.answer \in Answer
<1>1. \A o \in Outcome : AnswerTo(o) \in Answer
  BY AnswerValues
<1>2. \A cat \in q.cats : Outcomes(q.call, cat) \subseteq Outcome
  BY OutcomeValues
<1>3. \A ovr \in q.ovrs : q.call.fqn \in DOMAIN ovr => ovr[q.call.fqn] \in Outcome
  BY OverrideValues DEF Outcome
<1>4. "allow" \in Outcome
  BY DEF Outcome
<1> QED BY <1>1, <1>2, <1>3, <1>4 DEF Explained

LEMMA TypeInv == IInv => TypeOK
<1> SUFFICES ASSUME IInv PROVE TypeOK
  OBVIOUS
<1>1. /\ DOMAIN catalog \subseteq Fqn /\ catalog \in [DOMAIN catalog -> Entry]
      /\ DOMAIN overrides \subseteq Fqn /\ overrides \in [DOMAIN overrides -> {"allow", "deny"}]
  BY DEF IInv, ConfigInv, Catalogs, OverrideTables
<1>2. ASSUME NEW r \in Request
      PROVE  /\ req[r].call \in Call
             /\ req[r].answer \in Answer \cup {None}
             /\ req[r].answer # None <=> req[r].pc = "done"
             /\ req[r].pc = "check" =>
                  /\ req[r].entry \in Entry
                  /\ req[r].object \in ObjectType \X (Id \cup {Wildcard, Singleton})
  <2>1. PICK q \in RequestState : q = req[r] /\ RequestInv(q)
    BY DEF IInv, ConfigInv
  <2>2. q.call \in Call /\ q.answer \in Answer \cup {None}
    BY DEF RequestState
  <2>3. q.answer # None <=> q.pc = "done"
    BY <2>1, AnswerIsTyped, AuthzAssumption DEF RequestInv
  <2>4. ASSUME q.pc = "check"
        PROVE  /\ q.entry \in Entry
               /\ q.object \in ObjectType \X (Id \cup {Wildcard, Singleton})
    <3>1. PICK cat \in q.cats : /\ q.call.fqn \in DOMAIN cat
                                /\ q.entry = cat[q.call.fqn]
                                /\ q.object = ObjectOf(q.call, q.entry)
      BY <2>1, <2>4 DEF RequestInv
    <3>2. q.entry \in Entry
      BY <3>1 DEF RequestState, Catalogs
    <3> QED BY <2>2, <3>1, <3>2, ObjectIsTyped
  <2> QED BY <2>1, <2>2, <2>3, <2>4
<1> QED BY <1>1, <1>2 DEF TypeOK, IInv, ConfigInv

\* Where a principal comes from.
LEMMA PrincipalSource ==
  ASSUME NEW c, PrincipalOf(c) # None
  PROVE  \/ c.cred # None /\ PrincipalOf(c) = c.cred
         \/ InjectedAnonymous(c) /\ PrincipalOf(c) = Anonymous
<1>1. CASE c.cred # None
  BY <1>1, Zenon DEF PrincipalOf, InjectedAnonymous
<1>2. CASE c.cred = None /\ InjectedAnonymous(c)
  BY <1>2, Zenon DEF PrincipalOf
<1>3. CASE c.cred = None /\ ~InjectedAnonymous(c)
  BY <1>3, Zenon DEF PrincipalOf
<1> QED BY <1>1, <1>2, <1>3

\* A request that phases 1 to 6 admitted was admitted by a rule in force.
LEMMA AdmittedInv == IInv => AdmittedByARuleInForce
<1> SUFFICES ASSUME IInv, NEW r \in Request, Admitted(r)
             PROVE  LET c == req[r].call
                    IN  \/ Public(c)
                        \/ InternalExemptDuring(r)
                        \/ OverriddenDuring(r, "allow")
                        \/ /\ c.cred # None \/ InjectedAnonymous(c)
                           /\ \E cat \in req[r].cats :
                                \/ IsExempt(cat, c.fqn)
                                \/ /\ Gated(cat, c.fqn)
                                   /\ \/ failOpen
                                      \/ \E g \in Granted :
                                           g[1] = PrincipalOf(c) /\ g[2] = cat[c.fqn].permission
  BY TypeInv DEF AdmittedByARuleInForce
<1>1. PICK q \in RequestState : q = req[r] /\ Explained(q) /\ q.answer = "handler"
  BY DEF IInv, ConfigInv, RequestInv, Admitted
<1>2. ASSUME NEW cat \in q.cats, phaseInternalOriginExempt(q.call, cat) = "allow"
      PROVE  InternalExemptDuring(r)
  BY <1>1, <1>2 DEF phaseInternalOriginExempt, InternalExemptDuring
<1>3. ASSUME NEW ovr \in q.ovrs, q.call.fqn \in DOMAIN ovr, q.answer = AnswerTo(ovr[q.call.fqn])
      PROVE  OverriddenDuring(r, "allow")
  <2>1. ovr[q.call.fqn] = "allow"
    BY <1>1, <1>3, OverrideValues, AnswerValues
  <2> QED BY <1>1, <1>3, <2>1 DEF OverriddenDuring
<1>4. ASSUME NEW cat \in q.cats, NEW o \in Outcomes(q.call, cat), q.answer = AnswerTo(o)
      PROVE  /\ q.call.cred # None \/ InjectedAnonymous(q.call)
             /\ \/ IsExempt(cat, q.call.fqn)
                \/ /\ Gated(cat, q.call.fqn)
                   /\ \/ failOpen
                      \/ \E g \in Granted :
                           g[1] = PrincipalOf(q.call) /\ g[2] = cat[q.call.fqn].permission
  <2>1. o = "allow" \/ (o = "error" /\ failOpen)
    BY <1>1, <1>4, OutcomeValues, AnswerValues DEF Outcome
  <2>2. CASE o = "allow"
    BY <2>2, OutcomeValues, ResolveValues, PrincipalSource DEF Authenticated
  <2>3. CASE o = "error" /\ failOpen
    BY <2>3, OutcomeValues, PrincipalSource DEF Authenticated
  <2> QED BY <2>1, <2>2, <2>3
<1> QED BY <1>1, <1>2, <1>3, <1>4 DEF Explained

\* A request all of whose overrides deny it was not past phaseOverride.
LEMMA DenyInv == IInv => DenyOverrideBinds
<1> SUFFICES ASSUME IInv, NEW r \in Request, req[r].pc = "done",
                    ~Public(req[r].call), ~InternalExemptDuring(r),
                    \A ovr \in req[r].ovrs : req[r].call.fqn \in DOMAIN ovr
                                               /\ ovr[req[r].call.fqn] = "deny"
             PROVE  req[r].answer = "PermissionDenied"
  BY DEF DenyOverrideBinds
<1>1. PICK q \in RequestState : q = req[r] /\ Explained(q)
  BY DEF IInv, ConfigInv, RequestInv
<1>2. ASSUME NEW cat \in q.cats, phaseInternalOriginExempt(q.call, cat) = "allow"
      PROVE  FALSE
  BY <1>1, <1>2 DEF phaseInternalOriginExempt, InternalExemptDuring
<1>3. ~NotOverridden(q)
  BY <1>1 DEF NotOverridden
<1> QED BY <1>1, <1>2, <1>3, AnswerValues DEF Explained

\* The outcome of a hiding method is not a denial.
LEMMA HiddenInv == IInv => HiddenStaysHidden
<1> SUFFICES ASSUME IInv, NEW r \in Request, req[r].pc = "done",
                    ~IsStream(req[r].call), ~OverriddenDuring(r, "deny"),
                    \A cat \in req[r].cats :
                      Gated(cat, req[r].call.fqn) /\ HidesExistenceOnDeny(cat[req[r].call.fqn])
             PROVE  req[r].answer # "PermissionDenied"
  BY DEF HiddenStaysHidden
<1>1. PICK q \in RequestState : q = req[r] /\ Explained(q)
  BY DEF IInv, ConfigInv, RequestInv
<1>2. ASSUME NEW ovr \in q.ovrs, q.call.fqn \in DOMAIN ovr, q.answer = AnswerTo(ovr[q.call.fqn])
      PROVE  q.answer = "handler"
  <2>1. ovr[q.call.fqn] # "deny"
    BY <1>1, <1>2 DEF OverriddenDuring
  <2> QED BY <1>2, <2>1, OverrideValues, AnswerValues
<1>3. ASSUME NEW cat \in q.cats, NEW o \in Outcomes(q.call, cat), q.answer = AnswerTo(o)
      PROVE  q.answer # "PermissionDenied"
  <2>1. o \in Outcome /\ o # "deny"
    BY <1>1, OutcomeValues DEF Gated
  <2> QED BY <1>3, <2>1, AnswerValues DEF Outcome
<1> QED BY <1>1, <1>2, <1>3, AnswerValues DEF Explained

\* For a call that was read and names an id, a concrete scope is the first id.
LEMMA ConcreteObject ==
  ASSUME NEW c \in Call, NEW e, e.field = "id", ~e.poly, ~IsStream(c),
         \E i \in DOMAIN c.ids : c.ids[i] # None,
         \A i \in DOMAIN c.ids : c.ids[i] # Wildcard
  PROVE  \E i \in DOMAIN c.ids :
           /\ \A j \in 1..(i - 1) : c.ids[j] = None
           /\ ObjectOf(c, e)[1] = ExtractType(c, e)
           /\ ObjectOf(c, e)[2] = c.ids[i]
<1> DEFINE P == {i \in DOMAIN c.ids : c.ids[i] # None}
<1>1. PICK n \in Nat : DOMAIN c.ids = 1..n
  BY AuthzAssumption DEF CallType
<1>2. Min(P) \in P /\ \A j \in P : Min(P) <= j
  BY <1>1, FirstId
<1>3. ASSUME NEW j \in 1..(Min(P) - 1) PROVE c.ids[j] = None
  <2>1. Min(P) \in 1..n
    BY <1>1, <1>2
  <2>2. j \in 1..n /\ ~(Min(P) <= j)
    BY <2>1
  <2> QED BY <1>1, <1>2, <2>2
<1>4. ExtractId(c, e) = c.ids[Min(P)]
  BY <1>2 DEF ExtractId
<1>5. c.ids[Min(P)] # Wildcard
  BY <1>2
<1>6. ObjectOf(c, e) = <<ExtractType(c, e), c.ids[Min(P)]>>
  BY <1>4, <1>5 DEF ObjectOf
<1> HIDE DEF P
<1>7. Min(P) \in DOMAIN c.ids
  BY <1>2 DEF P
<1> QED BY <1>3, <1>6, <1>7

LEMMA GrantInv == IInv => GrantIsOnNamedResource
<1> SUFFICES ASSUME IInv, NEW r \in Request, Admitted(r), ~Public(req[r].call), ~failOpen,
                    ~OverriddenDuring(r, "allow"),
                    \E i \in DOMAIN req[r].call.ids : req[r].call.ids[i] # None,
                    \A i \in DOMAIN req[r].call.ids : req[r].call.ids[i] # Wildcard,
                    \A cat \in req[r].cats :
                      /\ Gated(cat, req[r].call.fqn)
                      /\ cat[req[r].call.fqn].field = "id" /\ ~cat[req[r].call.fqn].poly
             PROVE  LET c == req[r].call
                    IN  \E cat \in req[r].cats, i \in DOMAIN c.ids :
                          /\ \A j \in 1..(i - 1) : c.ids[j] = None
                          /\ <<PrincipalOf(c), cat[c.fqn].permission,
                               ExtractType(c, cat[c.fqn]), c.ids[i]>> \in Granted
  BY DEF GrantIsOnNamedResource
<1>1. PICK q \in RequestState : q = req[r] /\ Explained(q) /\ q.answer = "handler"
  BY DEF IInv, ConfigInv, RequestInv, Admitted
<1>2. ASSUME NEW cat \in q.cats PROVE phaseInternalOriginExempt(q.call, cat) # "allow"
  BY <1>1 DEF phaseInternalOriginExempt, IsExempt, Gated
<1>3. ASSUME NEW ovr \in q.ovrs, q.call.fqn \in DOMAIN ovr
      PROVE  q.answer # AnswerTo(ovr[q.call.fqn])
  <2>1. ovr[q.call.fqn] # "allow"
    BY <1>1, <1>3 DEF OverriddenDuring
  <2>2. ovr[q.call.fqn] = "deny"
    BY <1>3, <2>1, OverrideValues
  <2> QED BY <1>1, <2>2, AnswerValues
<1>4. PICK cat \in q.cats : \E o \in Outcomes(q.call, cat) : q.answer = AnswerTo(o)
  BY <1>1, <1>2, <1>3 DEF Explained
<1>5. PICK o \in Outcomes(q.call, cat) : q.answer = AnswerTo(o)
  BY <1>4
<1> DEFINE c == q.call
           e == cat[c.fqn]
<1>6. o = "allow"
  BY <1>1, <1>5, OutcomeValues, AnswerValues DEF Outcome
<1>7. Gated(cat, c.fqn) /\ e.field = "id" /\ ~e.poly
  BY <1>1, <1>4
<1>8. /\ Resolve(c, cat) = "next"
      /\ <<PrincipalOf(c), e.permission, ObjectOf(c, e)[1], ObjectOf(c, e)[2]>> \in Granted
  BY <1>5, <1>6, <1>7, OutcomeValues DEF IsExempt, Gated
<1>9. ~IsStream(c)
  BY <1>7, <1>8, ResolveValues DEF IsConcreteResourceScope
<1>10. c \in Call
  BY DEF RequestState
<1>11. PICK i \in DOMAIN c.ids :
         /\ \A j \in 1..(i - 1) : c.ids[j] = None
         /\ ObjectOf(c, e)[1] = ExtractType(c, e)
         /\ ObjectOf(c, e)[2] = c.ids[i]
  BY <1>1, <1>7, <1>9, <1>10, ConcreteObject
<1> HIDE DEF c, e
<1>12. <<PrincipalOf(c), e.permission, ExtractType(c, e), c.ids[i]>> \in Granted
  BY <1>8, <1>11
<1> QED BY <1>1, <1>4, <1>11, <1>12 DEF c, e

-----------------------------------------------------------------------------
(* The theorems about decide.                                              *)

\* The invariant holds of every run of decide and the reloads around it.
THEOREM DecideInvariant == Spec => []IInv
<1>1. Init => IInv
  BY InitInv
<1>2. IInv /\ [Next]_vars => IInv'
  BY NextInv
<1> QED BY <1>1, <1>2, PTL DEF Spec

\* decide with the serving layers behind it behaves like decide: what Dispatch adds
\* never changes a decision, and it answers a request before the slot is used again.
THEOREM DispatchImplementsDecide == DispatchSpec => Spec
<1>1. DispatchInit => Init
  BY DEF DispatchInit
<1>2. [DispatchNext]_dispatchVars => [Next]_vars
  BY DEF DispatchNext, dispatchVars, Next, vars, Finish, Serve, ServeLocal, ServeGrpc,
         ServeRest, ServeOperation
<1> QED BY <1>1, <1>2, PTL DEF DispatchSpec, Spec

\* decide fails closed under any reloads, whichever way the handler is reached.
THEOREM DecideFailsClosed == DispatchSpec => []AdmittedByARuleInForce
BY DecideInvariant, DispatchImplementsDecide, AdmittedInv, PTL

\* A deny override binds as long as it is loaded, whatever else is reloaded.
THEOREM DenyBinds == DispatchSpec => []DenyOverrideBinds
BY DecideInvariant, DispatchImplementsDecide, DenyInv, PTL

\* The scope of a Check is the resource the call names, on every surface.
THEOREM ScopesDoNotWiden == DispatchSpec => []GrantIsOnNamedResource
BY DecideInvariant, DispatchImplementsDecide, GrantInv, PTL

\* Hidden resources stay hidden from a denied caller.
THEOREM HiddenResources == DispatchSpec => []HiddenStaysHidden
BY DecideInvariant, DispatchImplementsDecide, HiddenInv, PTL

-----------------------------------------------------------------------------
(* The serving layers.                                                     *)

ServedState ==
  [to : Backend \cup {None, "local", "operation", "other"},
   status : {None, "OK", "NotFound", "InvalidArgument", "PermissionDenied", "backend error"},
   op : Id \cup {None}, cancelled : BOOLEAN]

\* Whom checkOperationOwnership shows operation op.
OwnedByCaller(c, op) ==
  \/ /\ c.cred # None
     /\ \/ Identity[c.cred] = Bootstrap
        \/ /\ op \in DOMAIN Owner /\ Owner[op] # Bootstrap
           /\ Owner[op] = Identity[c.cred]
  \/ /\ InjectedAnonymous(c)
     /\ op \in DOMAIN Owner /\ Owner[op] = Identity[Anonymous]

\* What served[r] = s may say of the call of request q.
OwnOperation(q, s) ==
  s.op # None =>
    /\ OwnedByCaller(q.call, s.op)
    /\ q.call.fqn = CancelFqn => s.cancelled

InternalCall(q, s) ==
  /\ s.to \in Backend
  /\ \/ q.call.via = "http" /\ q.call.fqn \in InternalPath
     \/ q.call.via = "grpc" /\ q.call.fqn \in InternalFqn
  => q.call.via = "http" /\ q.call.internal

\* Nothing is served before the decision, so that the call a result belongs to is
\* the one in the slot.
ServedInv ==
  /\ served \in [Request -> ServedState]
  /\ \A r \in Request :
       /\ req[r].pc # "done" => served[r] = NotServed
       /\ OwnOperation(req[r], served[r])
       /\ InternalCall(req[r], served[r])

\* A result that names no backend and no operation is not constrained.
LEMMA Harmless ==
  ASSUME NEW q, NEW s, s.op = None, s.to \notin Backend
  PROVE  OwnOperation(q, s) /\ InternalCall(q, s)
BY DEF OwnOperation, InternalCall

LEMMA RefuseValues ==
  ASSUME NEW status \in {"NotFound", "InvalidArgument", "PermissionDenied", "backend error"}
  PROVE  /\ Refuse(status) \in ServedState
         /\ Refuse(status).op = None /\ Refuse(status).to \notin Backend
BY DispatchAssumption DEF Refuse, NotServed, ServedState

LEMMA RelayValues ==
  ASSUME NEW to \in Backend \cup {"local", "operation", "other"}
  PROVE  /\ Relay(to) \in ServedState
         /\ Relay(to).op = None /\ Relay(to).to = to
BY DEF Relay, NotServed, ServedState

LEMMA NotServedValues ==
  NotServed \in ServedState /\ NotServed.op = None /\ NotServed.to \notin Backend
BY DispatchAssumption DEF NotServed, ServedState

\* A serving step stores a result that suits the call.
LEMMA ServeStep ==
  ASSUME ServedInv, req \in [Request -> RequestState], NEW r \in Request, req[r].pc = "done",
         NEW s \in ServedState, Serve(r, s), OwnOperation(req[r], s), InternalCall(req[r], s)
  PROVE  ServedInv'
<1>1. served' = [served EXCEPT ![r] = s] /\ req' = req
  BY DEF Serve, vars
<1>2. served' \in [Request -> ServedState]
  BY <1>1 DEF ServedInv
<1>3. ASSUME NEW x \in Request
      PROVE  /\ req'[x].pc # "done" => served'[x] = NotServed
             /\ OwnOperation(req'[x], served'[x])
             /\ InternalCall(req'[x], served'[x])
  BY <1>1 DEF ServedInv
<1> QED BY <1>2, <1>3 DEF ServedInv

LEMMA WaitingIsDone ==
  ASSUME ConfigInv, NEW r \in Request, Waiting(r)
  PROVE  req[r].pc = "done" /\ req[r].call \in Call
BY DEF Waiting, Admitted, ConfigInv, RequestState

LEMMA ServeLocalInv ==
  ASSUME ConfigInv, ServedInv, NEW r \in Request, ServeLocal(r)
  PROVE  ServedInv'
<1>1. req[r].pc = "done" /\ Serve(r, Relay("local"))
  BY WaitingIsDone DEF ServeLocal
<1>2. Relay("local") \in ServedState /\ Relay("local").op = None
      /\ Relay("local").to \notin Backend
  BY RelayValues, DispatchAssumption
<1> QED BY <1>1, <1>2, Harmless, ServeStep DEF ConfigInv

\* The resolver refuses every internal method, whatever the list says.
LEMMA ServeGrpcInv ==
  ASSUME ConfigInv, ServedInv, NEW r \in Request, ServeGrpc(r)
  PROVE  ServedInv'
<1> DEFINE c == req[r].call
           s == Resolver(c.fqn)
<1>1. req[r].pc = "done" /\ c \in Call /\ Serve(r, s) /\ c.via = "grpc"
  BY WaitingIsDone DEF ServeGrpc
<1>2. c.fqn \in Fqn
  BY <1>1, AuthzAssumption DEF CallType
<1>3. CASE ~(IsAllowed(c.fqn) /\ ~HasInternalSuffix(c.fqn) /\ GrpcDomain[c.fqn] # None)
  <2>1. s = Refuse("NotFound")
    BY <1>3 DEF Resolver
  <2> QED BY <1>1, <2>1, RefuseValues, Harmless, ServeStep DEF ConfigInv
<1>4. CASE IsAllowed(c.fqn) /\ ~HasInternalSuffix(c.fqn) /\ GrpcDomain[c.fqn] # None
  <2>1. s = Relay(GrpcDomain[c.fqn]) /\ GrpcDomain[c.fqn] \in Backend \cup {"operation"}
    BY <1>2, <1>4, DispatchAssumption DEF Resolver
  <2>2. s \in ServedState /\ s.op = None
    BY <2>1, RelayValues
  <2>3. OwnOperation(req[r], s)
    BY <2>2 DEF OwnOperation
  <2>4. InternalCall(req[r], s)
    BY <1>1, <1>4 DEF InternalCall, HasInternalSuffix
  <2> QED BY <1>1, <2>2, <2>3, <2>4, ServeStep DEF ConfigInv
<1> QED BY <1>3, <1>4

LEMMA DispatcherValues ==
  ASSUME NEW c
  PROVE  \/ Dispatcher(c) = Refuse("NotFound")
         \/ /\ Dispatcher(c) = Relay(RestBackend[c.fqn]) /\ RestBackend[c.fqn] # None
            /\ ~(isInternalPath(c.fqn) /\ IsExternal(c))
BY DEF Dispatcher, Registered

\* The dispatcher refuses every internal path from outside.
LEMMA ServeRestInv ==
  ASSUME ConfigInv, ServedInv, NEW r \in Request, ServeRest(r)
  PROVE  ServedInv'
<1> DEFINE c == req[r].call
           s == Dispatcher(c)
<1>1. req[r].pc = "done" /\ c \in Call /\ Serve(r, s) /\ c.via = "http"
  BY WaitingIsDone DEF ServeRest
<1>2. c.fqn \in Fqn
  BY <1>1, AuthzAssumption DEF CallType
<1>3. \/ s = Refuse("NotFound")
      \/ /\ s = Relay(RestBackend[c.fqn]) /\ RestBackend[c.fqn] # None
         /\ ~(isInternalPath(c.fqn) /\ IsExternal(c))
  BY DispatcherValues
<1>4. CASE s = Refuse("NotFound")
  BY <1>1, <1>4, RefuseValues, Harmless, ServeStep DEF ConfigInv
<1>5. CASE /\ s = Relay(RestBackend[c.fqn]) /\ RestBackend[c.fqn] # None
           /\ ~(isInternalPath(c.fqn) /\ IsExternal(c))
  <2>1. RestBackend[c.fqn] \in Backend
    BY <1>2, <1>5, DispatchAssumption
  <2>2. s \in ServedState /\ s.op = None
    BY <1>5, <2>1, RelayValues
  <2>3. OwnOperation(req[r], s)
    BY <2>2 DEF OwnOperation
  <2>4. InternalCall(req[r], s)
    BY <1>1, <1>5 DEF InternalCall, isInternalPath, IsExternal
  <2> QED BY <1>1, <2>2, <2>3, <2>4, ServeStep DEF ConfigInv
<1> QED BY <1>3, <1>4, <1>5

\* The identity the proxy reads is the principal's, and empty without one.
LEMMA CallerIdentity ==
  ASSUME NEW c \in Call, principalFromContext(c).id # ""
  PROVE  PrincipalOf(c) # None /\ principalFromContext(c) = Identity[PrincipalOf(c)]
<1>1. c.cred \in Subject \cup {None}
  BY AuthzAssumption DEF CallType
<1>2. PrincipalOf(c) # None
  <2> SUFFICES ASSUME PrincipalOf(c) = None PROVE principalFromContext(c).id = ""
    OBVIOUS
  <2>1. DOMAIN buildPrincipalMetadata(c) = {}
    BY DEF buildPrincipalMetadata
  <2>2. "id" \notin DOMAIN buildPrincipalMetadata(c)
    BY <2>1
  <2>3. "id" \in DOMAIN NoOwner
    BY DEF NoOwner
  <2> QED BY <2>2, <2>3 DEF principalFromContext
<1>3. PrincipalOf(c) \in Subject \cup {Anonymous}
  BY <1>1, <1>2 DEF PrincipalOf
<1>4. buildPrincipalMetadata(c) = Identity[PrincipalOf(c)]
  BY <1>2 DEF buildPrincipalMetadata
<1>5. Identity[PrincipalOf(c)] \in [type : STRING, id : STRING]
  BY <1>3, DispatchAssumption
<1>6. DOMAIN NoOwner = {"type", "id"}
  BY DEF NoOwner
<1>7. principalFromContext(c) = [k \in {"type", "id"} |-> Identity[PrincipalOf(c)][k]]
  BY <1>4, <1>5, <1>6 DEF principalFromContext
<1> QED BY <1>2, <1>5, <1>7

\* An id that resolveBackend accepts is an operation of a configured domain.
LEMMA ResolvedOperation ==
  ASSUME NEW op
  PROVE  /\ resolveBackend(op) \in {"OK", "InvalidArgument", "NotFound"}
         /\ resolveBackend(op) = "OK" => op \in DOMAIN Prefix /\ Prefix[op] \in Backend
BY DEF resolveBackend

\* Whom the proxy lets see an operation.
LEMMA OwnerIsCaller ==
  ASSUME NEW c \in Call, NEW op, checkOperationOwnership(principalFromContext(c), op)
  PROVE  OwnedByCaller(c, op)
<1>1. principalFromContext(c).id # ""
  BY DEF checkOperationOwnership
<1>2. PrincipalOf(c) # None /\ principalFromContext(c) = Identity[PrincipalOf(c)]
  BY <1>1, CallerIdentity
<1>3. NoOwner.id = ""
  BY DEF NoOwner
<1>4. OwnerOf(op).id # "" => op \in DOMAIN Owner /\ OwnerOf(op) = Owner[op]
  BY <1>3 DEF OwnerOf
<1>5. \/ Identity[PrincipalOf(c)] = Bootstrap
      \/ /\ op \in DOMAIN Owner /\ Owner[op] # Bootstrap
         /\ Owner[op] = Identity[PrincipalOf(c)]
  BY <1>2, <1>4 DEF checkOperationOwnership
<1>6. Identity[Anonymous] # Bootstrap
  BY DispatchAssumption
<1> QED BY <1>2, <1>5, <1>6, PrincipalSource DEF OwnedByCaller

\* The proxy answers with an operation of the caller's own, or with an error: what
\* the backend has done by then is no more than a cancellation.
LEMMA ServeOperationInv ==
  ASSUME ConfigInv, ServedInv, NEW r \in Request, ServeOperation(r)
  PROVE  ServedInv'
<1> DEFINE c == req[r].call
           op == OperationOf(c)
           found == [Relay(Prefix[op]) EXCEPT !.op = op]
           own == checkOperationOwnership(principalFromContext(c), op)
           verdict == IF own THEN found ELSE Refuse("PermissionDenied")
<1>1. req[r].pc = "done" /\ c \in Call /\ c.fqn \in OperationFqn
  BY WaitingIsDone DEF ServeOperation
<1>2. CASE resolveBackend(op) # "OK"
  <2>1. Serve(r, Refuse(resolveBackend(op)))
    BY <1>2 DEF ServeOperation
  <2>2. resolveBackend(op) \in {"InvalidArgument", "NotFound"}
    BY <1>2, ResolvedOperation
  <2> QED BY <1>1, <2>1, <2>2, RefuseValues, Harmless, ServeStep DEF ConfigInv
<1>3. CASE resolveBackend(op) = "OK"
  <2>1. op \in Id /\ Prefix[op] \in Backend
    BY <1>3, ResolvedOperation, DispatchAssumption
  <2>2. PICK applied \in BOOLEAN, answered \in BOOLEAN :
          Serve(r, [(IF applied /\ answered THEN verdict ELSE Refuse("backend error"))
                      EXCEPT !.cancelled = applied /\ c.fqn = CancelFqn])
    BY <1>3 DEF ServeOperation
  <2> DEFINE cancelled == applied /\ c.fqn = CancelFqn
  <2>3. cancelled \in BOOLEAN
    OBVIOUS
  <2>4. CASE applied /\ answered /\ own
    <3> DEFINE s == [found EXCEPT !.cancelled = cancelled]
    <3>1. Serve(r, s)
      BY <2>2, <2>4
    <3>2. found \in ServedState /\ found.op = op
      <4>1. Relay(Prefix[op]) \in ServedState
        BY <2>1, RelayValues
      <4> QED BY <2>1, <4>1 DEF ServedState
    <3>3. cancelled = (c.fqn = CancelFqn)
      BY <2>4
    <3> HIDE DEF found, cancelled
    <3>4. s \in ServedState /\ s.op = op /\ s.cancelled = cancelled
      BY <3>2, <2>3 DEF ServedState
    <3> HIDE DEF s
    <3>5. OwnOperation(req[r], s)
      BY <1>1, <2>4, <3>3, <3>4, OwnerIsCaller DEF OwnOperation
    <3>6. InternalCall(req[r], s)
      BY <1>1, DispatchAssumption DEF InternalCall
    <3> QED BY <1>1, <3>1, <3>4, <3>5, <3>6, ServeStep DEF ConfigInv
  <2>5. CASE ~(applied /\ answered /\ own)
    <3>1. PICK status \in {"PermissionDenied", "backend error"} :
            Serve(r, [Refuse(status) EXCEPT !.cancelled = cancelled])
      BY <2>2, <2>5
    <3> DEFINE s == [Refuse(status) EXCEPT !.cancelled = cancelled]
    <3>2. /\ Refuse(status) \in ServedState
          /\ Refuse(status).op = None /\ Refuse(status).to \notin Backend
      BY RefuseValues
    <3> HIDE DEF cancelled
    <3>3. s \in ServedState /\ s.op = None /\ s.to \notin Backend
      BY <2>3, <3>2 DEF ServedState
    <3> QED BY <1>1, <3>1, <3>3, Harmless, ServeStep DEF ConfigInv
  <2> QED BY <2>4, <2>5
<1> QED BY <1>2, <1>3

\* The slot is emptied with the request.
LEMMA FinishInv ==
  ASSUME ConfigInv, ServedInv, NEW r \in Request, Finish(r)
  PROVE  ServedInv'
<1>1. /\ served' = [served EXCEPT ![r] = NotServed]
      /\ req' = [req EXCEPT ![r] = Idle]
  BY DEF Finish, Leave
<1>2. served' \in [Request -> ServedState]
  BY <1>1, NotServedValues DEF ServedInv
<1>3. ASSUME NEW x \in Request
      PROVE  /\ req'[x].pc # "done" => served'[x] = NotServed
             /\ OwnOperation(req'[x], served'[x])
             /\ InternalCall(req'[x], served'[x])
  <2>1. CASE x = r
    <3>1. served'[x] = NotServed
      BY <1>1, <2>1 DEF ServedInv
    <3> QED BY <3>1, NotServedValues, Harmless
  <2>2. CASE x # r
    BY <1>1, <2>2 DEF ServedInv, ConfigInv
  <2> QED BY <2>1, <2>2
<1> QED BY <1>2, <1>3 DEF ServedInv

\* decide works on requests that are not served yet.
LEMMA DecideServed ==
  ASSUME ConfigInv, ServedInv, NEW r \in Request, Decide(r), UNCHANGED served
  PROVE  ServedInv'
<1>1. req[r].pc # "done" /\ \E q : req' = [req EXCEPT ![r] = q]
  BY DEF Decide, Arrive, ApplyOverride, ApplyCatalog, Check
<1>2. ASSUME NEW x \in Request
      PROVE  /\ req'[x].pc # "done" => served'[x] = NotServed
             /\ OwnOperation(req'[x], served'[x])
             /\ InternalCall(req'[x], served'[x])
  <2>1. CASE x = r
    <3>1. served'[x] = NotServed
      BY <1>1, <2>1 DEF ServedInv
    <3> QED BY <3>1, NotServedValues, Harmless
  <2>2. CASE x # r
    <3>1. req'[x] = req[x]
      BY <1>1, <2>2 DEF ConfigInv
    <3> QED BY <3>1 DEF ServedInv
  <2> QED BY <2>1, <2>2
<1> QED BY <1>2 DEF ServedInv

\* A reload changes the history of the requests in flight only.
LEMMA ReloadServed ==
  ASSUME ConfigInv, ServedInv, Reload, UNCHANGED served
  PROVE  ServedInv'
<1>1. ASSUME NEW x \in Request
      PROVE  \/ req'[x] = req[x]
             \/ req[x].pc # "done"
  BY DEF Reload, ReloadCatalog, ReloadOverrides, InFlight
<1>2. ASSUME NEW x \in Request
      PROVE  /\ req'[x].pc # "done" => served'[x] = NotServed
             /\ OwnOperation(req'[x], served'[x])
             /\ InternalCall(req'[x], served'[x])
  <2>1. CASE req'[x] = req[x]
    BY <2>1 DEF ServedInv
  <2>2. CASE req[x].pc # "done"
    <3>1. served'[x] = NotServed
      BY <2>2 DEF ServedInv
    <3> QED BY <3>1, NotServedValues, Harmless
  <2> QED BY <1>1, <2>1, <2>2
<1> QED BY <1>2 DEF ServedInv

LEMMA DispatchNextInv ==
  ASSUME ConfigInv, ServedInv, [DispatchNext]_dispatchVars
  PROVE  ServedInv'
<1>1. ASSUME NEW r \in Request, Decide(r) /\ UNCHANGED served PROVE ServedInv'
  BY <1>1, DecideServed
<1>2. ASSUME NEW r \in Request, ServeLocal(r) PROVE ServedInv'
  BY <1>2, ServeLocalInv
<1>3. ASSUME NEW r \in Request, ServeGrpc(r) PROVE ServedInv'
  BY <1>3, ServeGrpcInv
<1>4. ASSUME NEW r \in Request, ServeRest(r) PROVE ServedInv'
  BY <1>4, ServeRestInv
<1>5. ASSUME NEW r \in Request, ServeOperation(r) PROVE ServedInv'
  BY <1>5, ServeOperationInv
<1>6. ASSUME NEW r \in Request, Finish(r) PROVE ServedInv'
  BY <1>6, FinishInv
<1>7. ASSUME Reload /\ UNCHANGED served PROVE ServedInv'
  BY <1>7, ReloadServed
<1>8. CASE UNCHANGED dispatchVars
  BY <1>8 DEF dispatchVars, ServedInv
<1> QED BY <1>1, <1>2, <1>3, <1>4, <1>5, <1>6, <1>7, <1>8 DEF DispatchNext

\* What a served request was given suits its call.
THEOREM ServedInvariant == DispatchSpec => []ServedInv
<1>1. DispatchInit => ServedInv
  BY NotServedValues, Harmless DEF DispatchInit, ServedInv
<1>2. ConfigInv /\ ServedInv /\ [DispatchNext]_dispatchVars => ServedInv'
  BY DispatchNextInv
<1>3. DispatchSpec => []ConfigInv
  <2>1. IInv => ConfigInv
    BY DEF IInv
  <2> QED BY <2>1, DecideInvariant, DispatchImplementsDecide, PTL
<1> QED BY <1>1, <1>2, <1>3, PTL DEF DispatchSpec

\* Operations are returned to their creator or the bootstrap worker only.
THEOREM OperationsOwned == DispatchSpec => []OperationsAreOwn
<1>1. ServedInv => OperationsAreOwn
  BY DEF ServedInv, OwnOperation, OwnedByCaller, OperationsAreOwn
<1> QED BY <1>1, ServedInvariant, PTL

\* No rule of the configuration opens an internal method to the outside.
THEOREM InternalStaysInternal == DispatchSpec => []InternalIsInternal
<1>1. ServedInv => InternalIsInternal
  BY DEF ServedInv, InternalCall, InternalIsInternal
<1> QED BY <1>1, ServedInvariant, PTL
=============================================================================
