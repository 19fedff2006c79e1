------------------------------ MODULE MCAuthn ------------------------------
(* A browser session of alice, tokens of alice, of bob (whom IAM does not know) *)
(* and of a service account, and a workload with a certificate, in a            *)
(* development, a production and a production-strict gateway.                   *)
EXTENDS Authn, TLC

CONSTANTS s1

MCIdentityOf == s1 :> "alice"
MCHasEmail == [x \in ExternalId |-> x = "alice"]

Gateway(mode, prod) ==
  [mode |-> mode, prod |-> prod, secret |-> ~prod, verifier |-> TRUE, kratos |-> mode = "production",
   mtls |-> ~prod, gate |-> prod]
MCConfig ==
  {Gateway("dev", FALSE), Gateway("dev", TRUE), Gateway("production", TRUE),
   Gateway("production-strict", TRUE)}

Token(alg, good, sub) == [alg |-> alg, good |-> good, sub |-> sub, claims |-> None]
robot == [from |-> "claims", id |-> "robot"]

Plain(via, token) ==
  [via |-> via, cert |-> None, session |-> None, scheme |-> "Bearer", token |-> token,
   forged |-> FALSE]

MCCall ==
  {Plain(via, Token("hydra", TRUE, "alice")) : via \in {"http", "grpc"}}
    \cup {Plain(via, [Token("hmac", good, "bob") EXCEPT !.claims = robot]) :
            via \in {"http", "grpc"}, good \in BOOLEAN}
    \cup {[Plain("http", None) EXCEPT !.session = s1, !.forged = TRUE],
          [Plain("http", Token("hydra", FALSE, "bob")) EXCEPT !.scheme = "bearer"],
          [Plain("http", [Token("hydra", TRUE, "bob") EXCEPT !.claims = robot]) EXCEPT
             !.session = s1, !.scheme = "DPoP"],
          [Plain("grpc", Token("hydra", TRUE, None)) EXCEPT
             !.cert = [from |-> "cert", id |-> "vpc"]]}

RequestSymmetry == Permutations(Request)
=============================================================================
