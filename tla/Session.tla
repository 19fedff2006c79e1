------------------------------- MODULE Session -------------------------------
(***************************************************************************)
(* Signing in and out from a browser: OIDCHandler (login, callback, logout)  *)
(* and LogoutHandler (POST /oauth/logout).  The gateway keeps nothing: the   *)
(* state of a login is in the browser's cookies and at the identity          *)
(* provider, and what a handler decides depends on the cookies the request   *)
(* left with, while its Set-Cookie headers take effect when the response is  *)
(* applied - later, and not in the order of the requests.                    *)
(*                                                                           *)
(* Browsers, the identity provider, Kratos, IAM and Hydra are external.  A   *)
(* browser drops a Set-Cookie that is Secure and did not come over HTTPS.    *)
(***************************************************************************)
EXTENDS Naturals, Sequences, FiniteSets, SequencesExt

CONSTANTS
  Browser,
  Https,        \* the browsers that reach the gateway over HTTPS (requestIsHTTPS)
  Config,       \* configurations; see ConfigType
  None,         \* no cookie, no code
  Keep,         \* a response that does not mention a cookie
  MaxLogin,     \* bound: login flows
  MaxInFlight   \* bound: responses on their way

\* oidc: is login configured; verifier: is a token verifier wired; hydra: is the
\* Hydra admin URL set.
ConfigType ==
  [oidc : {"disabled", "no client", "ready"}, verifier : BOOLEAN, hydra : BOOLEAN]

ASSUME SessionAssumption ==
  /\ Config \subseteq ConfigType
  /\ Https \subseteq Browser
  /\ None # Keep
  /\ None \notin Nat /\ Keep \notin Nat /\ None \notin {"good", "spent"}
  /\ MaxLogin \in Nat \ {0} /\ MaxInFlight \in Nat \ {0}

VARIABLES
  config,
  jar,        \* per browser: the cookies, each None or a value
  flows,      \* the logins begun: browser, state, PKCE verifier
  code,       \* identity provider: per flow None, or a code that is "good" or "spent"
  net,        \* responses on their way to a browser
  ended,      \* history: per browser, the flows it had begun when it logged out
  left        \* history: per browser, the sessions it has signed out of

vars == <<config, jar, flows, code, net, ended, left>>

Flow == 1..Len(flows)
Cookie == {"state", "pkce", "session", "kratos"}
NoCookies == [c \in Cookie |-> None]
Unchanged == [c \in Cookie |-> Keep]

\* secure: its cookies are Secure; flow: the login it belongs to.  History: late, a
\* callback that was sent after the logout that ended its login; owed, a logout that
\* the browser was entitled to.
Response(b, status, set) ==
  [to |-> b, status |-> status, set |-> set, secure |-> b \in Https,
   flow |-> 0, late |-> FALSE, owed |-> FALSE]

TypeOK ==
  /\ config \in Config
  /\ \A b \in Browser :
       /\ jar[b].state \in 1..MaxLogin \cup {None} /\ jar[b].pkce \in 1..MaxLogin \cup {None}
       /\ jar[b].session \in 1..MaxLogin \cup {None} /\ jar[b].kratos \in {"signed in", None}
       /\ ended[b] \subseteq Flow /\ left[b] \subseteq Flow
  /\ Len(flows) <= MaxLogin
  /\ \A n \in Flow : code[n] \in {None, "good", "spent"}
  /\ Cardinality(net) <= MaxInFlight

Init ==
  /\ config \in Config
  /\ jar = [b \in Browser |-> NoCookies]
  /\ flows = <<>> /\ code = <<>>
  /\ net = {}
  /\ ended = [b \in Browser |-> {}]
  /\ left = [b \in Browser |-> {}]

\* A handler answers: the response is on its way.
Answer(response) ==
  /\ Cardinality(net) < MaxInFlight
  /\ net' = net \cup {response}

-----------------------------------------------------------------------------
(* OIDCHandler.                                                            *)

\* Mutant: the same value every time.
randomStateFixed(n) == 1

\* randomState: 24 random bytes; the n-th draw differs from every other.
randomState(n) == n

LoginRefused(b) ==
  /\ config.oidc # "ready"
  /\ Answer(Response(b, 503, Unchanged))
  /\ UNCHANGED <<config, jar, flows, code, ended, left>>

\* Login: a state and a PKCE verifier, both as cookies; the redirect carries the
\* state and the verifier's challenge to the identity provider.
Login(b) ==
  LET n == Len(flows) + 1
      s == randomState(n)
      v == randomState(n)
  IN  /\ config.oidc = "ready" /\ n <= MaxLogin
      /\ flows' = Append(flows, [browser |-> b, state |-> s, verifier |-> v])
      /\ code' = Append(code, None)
      /\ Answer([Response(b, 302, [Unchanged EXCEPT !["state"] = s, !["pkce"] = v])
                   EXCEPT !.flow = n])
      /\ UNCHANGED <<config, jar, ended, left>>

\* The response of login n has reached its browser.
Begun(n) == \A m \in net : ~(m.flow = n /\ m.set["state"] \notin {Keep, None})

\* The user signs in at the identity provider, which issues a code and redirects to
\* the callback; that URL may be opened any number of times and in any browser.
Authenticate(n) ==
  /\ n \in Flow /\ Begun(n) /\ code[n] = None
  /\ code' = [code EXCEPT ![n] = "good"]
  /\ UNCHANGED <<config, jar, flows, net, ended, left>>

SessionCookies(n) ==
  [Unchanged EXCEPT !["session"] = n, !["state"] = None, !["pkce"] = None]

\* Callback with code or state missing.
CallbackIncomplete(b) ==
  /\ Answer(Response(b, 400, Unchanged))
  /\ UNCHANGED <<config, jar, flows, code, ended, left>>

\* Callback for login n in browser b: the state cookie must be the URL's state, and
\* the identity provider exchanges an unspent code for the verifier it knows the
\* challenge of.  It may have spent the code when its answer is lost.
Callback(b, n) ==
  LET matches == jar[b].state = flows[n].state
      redeemed == matches /\ code[n] = "good" /\ jar[b].pkce = flows[n].verifier
      reply(status, set) ==
        [Response(b, status, set) EXCEPT !.flow = n, !.late = n \in ended[b]]
  IN  /\ n \in Flow /\ code[n] # None
      /\ \/ ~matches /\ Answer(reply(400, Unchanged)) /\ UNCHANGED code
         \/ /\ matches
            /\ Answer(reply(502, Unchanged))
            /\ \/ UNCHANGED code
               \/ redeemed /\ code' = [code EXCEPT ![n] = "spent"]
         \/ /\ redeemed
            /\ Answer(reply(302, SessionCookies(n)))
            /\ code' = [code EXCEPT ![n] = "spent"]
      /\ UNCHANGED <<config, jar, flows, ended, left>>

\* Mutant: the login state stays.
LogoutSessionOnly == [Unchanged EXCEPT !["session"] = None]

LogoutCookies == [Unchanged EXCEPT !["session"] = None, !["state"] = None]

Logout(b) ==
  /\ Answer([Response(b, 200, LogoutCookies) EXCEPT !.flow = MaxLogin + 1, !.owed = TRUE])
  /\ UNCHANGED <<config, jar, flows, code, ended, left>>

-----------------------------------------------------------------------------
(* LogoutHandler.ServeHTTP.  token: the access token, in a header or the form; *)
(* revoke: the form asks for a revocation, by subject, token_jti or            *)
(* revoke_all.  What IAM's Revoke and Hydra's session kill do to the caller's  *)
(* tokens and sessions is SenderGate's HydraRevoke and Authn's EndSession.     *)

Token == {"none", "invalid", "valid"}

\* The proven caller; without a verifier no token proves anything.
CallerOf(token) == IF config.verifier THEN token ELSE "none"

Unauthorized(token, revoke) ==
  CallerOf(token) = "invalid" \/ (revoke /\ CallerOf(token) = "none")

\* The calls made on behalf of a proven caller; each may fail.
Revocations(token) ==
  IF CallerOf(token) = "valid"
  THEN {"iam"} \cup (IF config.hydra THEN {"hydra"} ELSE {})
  ELSE {}

\* Mutant: a failed revocation fails the logout.
LogoutStatusStrict(token, revoke, failed) ==
  IF Unauthorized(token, revoke) THEN 401 ELSE IF failed = {} THEN 200 ELSE 502

LogoutStatus(token, revoke, failed) == IF Unauthorized(token, revoke) THEN 401 ELSE 200

\* Always with Secure, whatever the scheme of the request.
OAuthLogoutCookies == [Unchanged EXCEPT !["session"] = None, !["kratos"] = None]

OAuthLogoutNotPost(b) ==
  /\ Answer(Response(b, 405, Unchanged))
  /\ UNCHANGED <<config, jar, flows, code, ended, left>>

\* A logout that has to be granted: the caller is proven, or asks for no revocation
\* and shows no token that could be disproved.
Entitled(token, revoke) ==
  \/ config.verifier /\ token = "valid"
  \/ ~revoke /\ (config.verifier => token = "none")

OAuthLogout(b, token, revoke) ==
  \E failed \in SUBSET Revocations(token) :
    LET status == LogoutStatus(token, revoke, failed)
    IN  /\ Answer([Response(b, status,
                            IF status = 200 THEN OAuthLogoutCookies ELSE Unchanged)
                     EXCEPT !.secure = TRUE,
                            !.owed = Entitled(token, revoke)])
        /\ UNCHANGED <<config, jar, flows, code, ended, left>>

-----------------------------------------------------------------------------
(* Browsers.                                                               *)

Accepts(m) == m.secure => m.to \in Https

\* The browser takes over the cookies of a response.
Apply(m) ==
  /\ m \in net /\ net' = net \ {m}
  /\ jar' = IF Accepts(m)
            THEN [jar EXCEPT ![m.to] = [c \in Cookie |->
                    IF m.set[c] = Keep THEN jar[m.to][c] ELSE m.set[c]]]
            ELSE jar
  /\ ended' = IF m.flow = MaxLogin + 1
              THEN [ended EXCEPT ![m.to] = {n \in Flow : flows[n].browser = m.to /\ Begun(n)}]
              ELSE ended
  /\ left' = IF Accepts(m) /\ m.owed
             THEN [left EXCEPT ![m.to] = @ \cup ({jar[m.to].session} \ {None})]
             ELSE left
  /\ UNCHANGED <<config, flows, code>>

\* Kratos signs the user in, in its own flow.
KratosLogin(b) ==
  /\ jar' = [jar EXCEPT ![b]["kratos"] = "signed in"]
  /\ UNCHANGED <<config, flows, code, net, ended, left>>

Next ==
  \/ \E b \in Browser :
       \/ LoginRefused(b) \/ Login(b)
       \/ CallbackIncomplete(b) \/ \E n \in 1..MaxLogin : Callback(b, n)
       \/ Logout(b) \/ OAuthLogoutNotPost(b)
       \/ \E token \in Token, revoke \in BOOLEAN : OAuthLogout(b, token, revoke)
       \/ KratosLogin(b)
  \/ \E n \in 1..MaxLogin : Authenticate(n)
  \/ \E m \in net : Apply(m)

Spec == Init /\ [][Next]_vars

-----------------------------------------------------------------------------
(* Properties.                                                             *)

\* A browser is only ever signed in by a login that was begun in it, whichever
\* callback URLs are opened in it, reopened or overtaken by a newer login: the
\* state and PKCE cookies that Login left in the browser bind the flow to it.
SessionIsOwnLogin ==
  /\ TypeOK
  /\ \A b \in Browser :
       jar[b].session # None => flows[jar[b].session].browser = b

\* Logout ends the logins the browser had begun: once the browser has applied the
\* answer of /iam/v1/auth/logout, no callback of such a login signs it in, although
\* the identity provider's code is still good and the PKCE cookie is still there.
LogoutEndsPendingLogins ==
  \A m \in net : m.late => m.set["session"] = Keep

\* A browser that has been answered a logout it was entitled to (any on
\* /iam/v1/auth/logout; on POST /oauth/logout with a valid token, or with none when
\* nothing is to be revoked) is out of the session it was in, and never gets it back:
\* whether IAM and Hydra were reached or not, whichever callback URLs are reopened,
\* and however late responses sent before the logout arrive.  Two logouts do not sign
\* out: one answered 401, which leaves the cookies, although main.go:257-259 wants a
\* user "able to drop their browser session even with an expired token" and
\* logout_handler.go:205-206 calls the clearing "Always done"; and POST /oauth/logout
\* from a browser on plain HTTP, which ignores the clearing because it is Secure.
SignedOutStaysOut ==
  \A b \in Browser : jar[b].session \notin left[b]
=============================================================================
