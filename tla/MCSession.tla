---- MODULE MCSession ----
\* Two browsers, one of them over plain HTTP.
EXTENDS Session

Wired(oidc, verifier, hydra) == [oidc |-> oidc, verifier |-> verifier, hydra |-> hydra]
MCConfig ==
  { Wired("ready", TRUE, TRUE), Wired("ready", FALSE, TRUE),
    Wired("disabled", TRUE, FALSE), Wired("no client", TRUE, TRUE) }
==========================
