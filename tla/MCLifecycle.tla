---- MODULE MCLifecycle ----
\* Four deployments (production, the same without its optional ports, plain
\* development, development under a label such as " Dev" with mTLS on the
\* internal port), and every configuration one setting away from one of them.
EXTENDS Lifecycle

CONSTANTS drainer, other

Production ==
  [ parses |-> TRUE, env |-> "prod", bare |-> TRUE,
    authz |-> TRUE, failOpen |-> FALSE, production |-> TRUE, devSecret |-> FALSE,
    dpop |-> TRUE, catalog |-> TRUE, overrides |-> TRUE,
    edge |-> TRUE, clientCert |-> TRUE, ca |-> TRUE,
    internalMTLS |-> TRUE, internalCert |-> TRUE, allowed |-> {drainer},
    tlsAddr |-> TRUE, tlsFiles |-> TRUE, tlsPair |-> TRUE, hybrid |-> TRUE,
    internalREST |-> TRUE ]

Development ==
  [ Production EXCEPT !.env = "dev", !.authz = FALSE, !.production = FALSE,
    !.devSecret = TRUE, !.dpop = FALSE, !.edge = FALSE, !.clientCert = FALSE,
    !.ca = FALSE, !.internalMTLS = FALSE, !.internalCert = FALSE,
    !.allowed = {}, !.tlsAddr = FALSE, !.hybrid = FALSE ]

Minimal == [ Production EXCEPT !.dpop = FALSE, !.edge = FALSE,
             !.tlsAddr = FALSE, !.hybrid = FALSE, !.internalREST = FALSE ]

Labelled == [ Development EXCEPT !.bare = FALSE, !.ca = TRUE,
              !.internalMTLS = TRUE, !.internalCert = TRUE,
              !.allowed = {drainer} ]

Values(f) ==
  CASE f = "env"     -> {"dev", "prod", "unset"}
    [] f = "allowed" -> {{}, {drainer}}
    [] OTHER         -> BOOLEAN

Near(c) == UNION {{[c EXCEPT ![f] = v] : v \in Values(f)} : f \in DOMAIN c}

MCConfig == UNION {Near(c) : c \in {Production, Minimal, Development, Labelled}}
==========================
