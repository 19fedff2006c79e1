---------------------------- MODULE MCSenderGate ----------------------------
(* Concurrent requests with a token bound to a DPoP key, one bound to a         *)
(* certificate and two plain ones; a proof dated in the future and one dated at *)
(* the start.                                                                   *)
EXTENDS SenderGate

CONSTANTS j1, j2

MCIat == j1 :> 1 @@ j2 :> 0

bound == [id |-> "bound", jti |-> FALSE, exp |-> 3, cnf |-> {"jkt"}, acr |-> 1]
cert  == [id |-> "cert", jti |-> FALSE, exp |-> 2, cnf |-> {"x5t"}, acr |-> 1]
plain == [id |-> "plain", jti |-> TRUE, exp |-> 4, cnf |-> {}, acr |-> 1]
noJti == [id |-> "noJti", jti |-> FALSE, exp |-> 1, cnf |-> {}, acr |-> 1]

MCToken == {bound, cert, plain, noJti}

With(via, token) ==
  [via |-> via, public |-> FALSE, token |-> token, valid |-> TRUE, scheme |-> "Bearer",
   proof |-> j2, fits |-> FALSE, cert |-> FALSE, floor |-> 0]

MCCall ==
  {[With("http", bound) EXCEPT !.proof = j, !.fits = TRUE, !.scheme = "DPoP"] : j \in Key}
    \cup {With("http", bound), With("http", None), With("grpc", bound)}
    \cup {[With(via, cert) EXCEPT !.cert = TRUE] : via \in {"http", "grpc"}}
    \cup {With(via, cert) : via \in {"http", "grpc"}}
    \cup {[With("http", bound) EXCEPT !.public = TRUE], With("http", plain),
          [With("http", noJti) EXCEPT !.scheme = "DPoP"],
          [With("http", noJti) EXCEPT !.floor = 2]}

RequestSymmetry == Permutations(Request)
=============================================================================
