---- MODULE MCAuthzDecide ----
\* A small catalog with one method of each kind the phases tell apart.
EXTENDS Dispatch

MCFqn == {"Login", "InternalCheck", "List", "Get", "Create", "ListRegions",
          "ListByScope", "OperationGet", "OperationCancel", "Health", "InternalDisk", "unknown"}
MCPermission == {"get", "create", "regions", "scope", "list"}

Row(fqn, permission, type, field) ==
  [fqn |-> fqn, exempt |-> FALSE, permission |-> permission, type |-> type,
   field |-> field, poly |-> FALSE, hide |-> FALSE, vget |-> FALSE]
ExemptRow(fqn) == [Row(fqn, "list", None, "") EXCEPT !.exempt = TRUE]

BaseCatalog ==
  << ExemptRow("InternalCheck"), ExemptRow("List"), ExemptRow("OperationGet"),
     ExemptRow("OperationCancel"), Row("InternalDisk", "list", "cluster", "*"),
     [Row("Get", "get", "network", "id") EXCEPT !.vget = TRUE],
     Row("Create", "create", None, "id"),
     Row("ListRegions", "regions", "cluster", "*"),
     [Row("ListByScope", "scope", "project", "id") EXCEPT !.poly = TRUE] >>

\* An edited catalog: List is gated and Get is not, InternalCheck is gated, Create hides
\* existence by flag, the rest is gone.
EditedCatalog ==
  << Row("List", "list", "project", "*"), ExemptRow("Get"),
     Row("InternalCheck", "list", "cluster", "*"),
     [Row("Create", "create", "project", "id") EXCEPT !.hide = TRUE] >>

DuplicateCatalog == << ExemptRow("Create"), ExemptRow("Create") >>

MCCatalogFile == {BaseCatalog, EditedCatalog, DuplicateCatalog, <<>>}

Override(fqn, decision) == [fqn |-> fqn, decision |-> decision]
MCOverrideFile ==
  { <<>>, << Override("Get", "deny"), Override("InternalCheck", "deny") >>,
    << Override("Get", "allow"), Override("List", "deny"), Override("InternalCheck", "allow"),
       Override("OperationGet", "allow") >>,
    << Override("Get", "unknown") >>,
    << Override("Create", "allow"), Override("Create", "deny") >> }

Send(via, fqn, cred, ids) ==
  [via |-> via, path |-> FALSE, internal |-> FALSE, fqn |-> fqn, cred |-> cred,
   ids |-> ids, type |-> None]

\* Operations: of alice, of the robot, of nobody, of the worker, of anonymous callers;
\* with the id of a domain that has no backend, and with a malformed id.
Operation == {"opAlice", "opRobot", "opOrphan", "opWorker", "opAnonymous", "opOther", "opBad"}
Callers == {None, "alice", "robot", "worker"}

\* The same calls on both surfaces, and what only REST can carry.
Common == {"http", "grpc"}
MCCall ==
  {Send(via, "Login", None, <<>>) : via \in Common}
    \cup {Send(via, fqn, cred, <<>>) : via \in Common,
            fqn \in {"List", "unknown"}, cred \in {None, "alice"}}
    \cup {Send("grpc", "OperationGet", cred, <<op>>) : cred \in Callers, op \in Operation}
    \cup {Send("http", "OperationGet", cred, <<op>>) : cred \in {None, "robot"},
            op \in {"opAlice", "opOrphan"}}
    \cup {Send("http", "OperationCancel", cred, <<"opAlice">>) : cred \in Callers}
    \cup {Send(via, fqn, "alice", <<id>>) : via \in Common,
            fqn \in {"Get", "Create"}, id \in {"n1", "n2", "bad", "*", None}}
    \cup {Send(via, "ListRegions", cred, <<>>) : via \in Common, cred \in {None, "alice"}}
    \cup {[Send(via, "ListByScope", "alice", <<"n1">>) EXCEPT !.type = t] :
            via \in Common, t \in {"network", None}}
    \cup {[Send("http", fqn, None, <<>>) EXCEPT !.internal = b] :
            b \in BOOLEAN, fqn \in {"InternalCheck", "InternalDisk"}}
    \cup {Send("grpc", "InternalCheck", cred, <<>>) : cred \in {None, "alice"}}
    \cup {Send("grpc", "Health", None, <<>>),
          [Send("http", "unknown", None, <<>>) EXCEPT !.path = TRUE],
          Send("http", "Create", "alice", <<None, "n1", "n2">>)}

\* alice may get n1 and any network as a type, create in n1, read the cluster.
MCGranted ==
  { <<"alice", "get", "network", "n1">>, <<"alice", "get", "network", "*">>,
    <<"alice", "create", "project", "n1">>, <<"alice", "create", "project", "*">>,
    <<"alice", "regions", "cluster", Singleton>>, <<"alice", "scope", "network", "n1">> }

MCId == {"n1", "n2", "bad", "*"} \cup Operation

\* The robot's id is alice's id, as another type of principal.
Principal(type, id) == [type |-> type, id |-> id]
MCIdentity ==
  [s \in {"alice", "robot", "worker", Anonymous} |->
     CASE s = "alice" -> Principal("user", "u1")
       [] s = "robot" -> Principal("service_account", "u1")
       [] s = "worker" -> Bootstrap
       [] s = Anonymous -> Principal("system", "anonymous")]

MCOwner ==
  [op \in {"opAlice", "opRobot", "opWorker", "opAnonymous"} |->
     CASE op = "opAlice" -> MCIdentity["alice"]
       [] op = "opRobot" -> MCIdentity["robot"]
       [] op = "opWorker" -> Bootstrap
       [] op = "opAnonymous" -> MCIdentity[Anonymous]]

MCPrefix ==
  [op \in Operation |-> CASE op = "opOther" -> "other"
                         [] op = "opBad" -> None
                         [] op = "opRobot" -> "iam"
                         [] OTHER -> "vpc"]

\* Get and Create belong to vpc, List to a domain without an address, the internal
\* methods to internal ports; ListRegions' row of the method list is missing.
MCAllowedFqn == {"Get", "Create", "List", "Login", "InternalCheck", "OperationGet", "OperationCancel"}
MCGrpcDomain ==
  [f \in MCFqn |-> CASE f \in {"Get", "Create", "ListByScope"} -> "vpc"
                     [] f \in {"Login", "InternalCheck"} -> "iam"
                     [] f \in {"List", "ListRegions"} -> "geo"
                     [] f \in {"OperationGet", "OperationCancel"} -> "operation"
                     [] OTHER -> None]
MCRestBackend ==
  [f \in MCFqn |-> CASE f \in {"Get", "Create", "ListByScope"} -> "vpc"
                     [] f = "Login" -> "iam"
                     [] f = "InternalCheck" -> "iamInternal"
                     [] f = "InternalDisk" -> "computeInternal"
                     [] f \in {"List", "ListRegions"} -> "geo"
                     [] OTHER -> None]
==============================
