# Verification of the Kachō API gateway

TLA+ models of the stateful core of `kacho-api-gateway`, TLC configurations that
check them on small instances, and TLAPS proofs of the properties that matter
most. `PROJECT.json` lists the components, the runs, the mutants that show each
property can fail, the source lines behind every definition, the findings, the
hazards and the theorems.

To repeat a check: `tlc -config X.cfg M` for a run, `tlapm M.tla` for a module
whose name ends in `Proofs`.

## 1. The system

The gateway is one Go process, replicated, in front of the Kachō backends. A call
arrives over gRPC or REST, is authenticated, authorized, perhaps deduplicated, and
proxied. It persists nothing; its state is a handful of in-memory caches shared by
concurrent requests and refreshed from kacho-iam, Hydra and two files, the cookies
it leaves with browsers, and the listeners and goroutines of the process.

| Part | State it keeps | Operations | Talks to |
|---|---|---|---|
| `lrucache` | map, recency list, generation | Get, Peek, Put, PutWithTTL, AddIfAbsent, PutIfGen(WithTTL), Invalidate, InvalidateKey, InvalidateWhere, Len | its five users |
| authz decision cache | lrucache of decisions | get, putIfGen, Invalidate, InvalidateSubject | requests, watcher, push, reload |
| authz `decide` | two atomic pointers: catalog, overrides | eight phases per request; Reload on SIGHUP | IAM Check |
| subject-change watcher | cursor, primed | tick every 2 s | IAM outbox, decision cache |
| `InternalAuthzCacheService` | none | InvalidateSubject | IAM's drainer, decision cache |
| idempotency store | responses, FIFO list, flights | reserve, finishLeader, abortLeader, gc | REST chain |
| JWKS cache | key set, fetch time, two locks | Resolve, refresh | Hydra |
| sender-constrained gate | seen-proof cache (lrucache) | Wrap over REST, enforce over gRPC; Validate | Hydra, introspection cache |
| stream proxy | two goroutines and a channel per stream | Handler | backends |
| authentication chain | whoami cache, subject cache (lrucache) | gRPC interceptors, HTTP middleware | Hydra, Kratos, IAM |
| introspection cache | lrucache per token | Introspect, Invalidate | Hydra |
| OIDC login, logout | none; cookies in the browser | Login, Callback, Logout, `POST /oauth/logout`, Me | identity provider, IAM, Hydra |
| operations proxy | none | Get, Cancel | backends |
| REST dispatcher, method resolver, allowlist | constant tables | Resolver, Dispatcher, IsAllowed, HasInternalSuffix | backends |
| health and readiness | none | readyz, healthz, grpc.health | backends |
| lifecycle (`main`) | listeners, root context, stop goroutine | boot guards, serve, signals, SIGHUP, shutdown | everything |
| configuration | constant after `Load` | Load, Validate* | lifecycle |

What is hard here:

* *Concurrency.* Every cache is filled by requests that read, wait for a remote
  answer and write. An invalidation may fall into any gap.
* *Failure.* Polls, pushes, fetches and downstream calls fail, time out, panic or
  are repeated; a reload may find an erroneous file.
* *Ordering.* Stream results race to one channel; the generation is read at one
  point of a request and the configuration at another; cookies are set by
  responses that reach a browser in any order; listeners stop one after another
  while calls are open.
* *Time.* Deadlines are compared with `After`, `>` and `<` in different places, and
  some operations read the clock twice.

What makes each part correct is stated in section 4, property by property;
`PROJECT.json` ("hazards") lists what can go wrong, at its line.

## 2. Modules

| Module | Models | Built on |
|---|---|---|
| `KeyList` | list operations on keys, as sequences | |
| `LRUCache` | `lrucache.go`, one operator per method | `KeyList` |
| `TTLStore` | abstract specification: what users of the cache rely on | |
| `LRUCacheSpec` | the cache under arbitrary calls; refinement to `TTLStore` | `LRUCache` |
| `DecisionCache` | one replica's decision cache with requests, IAM, watcher, push, reload | `LRUCache` |
| `DPoPReplay` | `Validate` over the seen-proof cache, a part of `SenderGate` | `LRUCache` |
| `SenderGate` | `DPoPMiddleware.Wrap`, introspection cache, step-up, cnf interceptor | `DPoPReplay`, `LRUCache` |
| `Authn` | `auth.go` with the whoami and subject caches | `LRUCache`, twice |
| `Idempotency` | `idempotency.go` | `KeyList` |
| `JWKSCache` | `JWKSCache.Resolve` / `refresh` | |
| `StreamProxy` | `proxy.Handler` | |
| `AuthzDecide` | `decide`, its phases, and reload of both files | |
| `Dispatch` | what follows a decision: resolver, REST dispatcher, local endpoints, operations proxy | `AuthzDecide` |
| `Session` | `oidc_auth.go`, `logout_handler.go` against browsers | |
| `Lifecycle` | `main`, its boot guards, listeners, shutdown, and readiness | |
| `KeyListProofs`, `LRUCacheProofs` | lemmas on the lists and on every method of the cache | the module named |
| `CacheProofs` | theorems | `LRUCacheSpec`, `DecisionCache` |
| `SenderGateProofs`, `AuthnProofs` | theorems | the module named, `LRUCacheProofs` |
| `DispatchProofs` | theorems | `AuthzDecide`, `Dispatch` |
| `HydraProofs` | theorems | `JWKSCache`, `Session` |
| `ServerProofs` | theorems | `Lifecycle`, `StreamProxy`, `Idempotency` |
| `MC*` | constants for TLC | the module named |

Definitions keep the names of the code where they model a function of it
(`putLocked`, `finishLeader`, `phaseResource`, `denyDecision`, ...). A comment that
begins with *Mutant* marks a deliberately wrong variant of the definition below
it; no specification uses it, it exists to show that a property notices the fault.
A module whose proofs share a proof module with another's has names of its own for its
specification: `CallsSpec` (`LRUCacheSpec`), `KeysSpec` (`JWKSCache`), `StreamSpec`
(`StreamProxy`), `ProcessSpec` (`Lifecycle`) and so on.

### How state and actions correspond to the code

**LRUCache.** `items` is the map (key to value and deadline), `order` the recency
list with the front first, `gen` the generation, `now` the clock. All methods hold
the mutex for their whole body, so each is one atomic operator. An entry is live
while `now <= expiresAt` (`!now.After(expiresAt)`).

**DecisionCache.** A decision is abstracted to what makes it stale: the number of
grant changes IAM had committed when it answered (`asOf`) and the catalog version
it was made with (`cat`). A request takes these steps, which follow `decide` and
`phaseCheck`: `Resolve` (catalog read, key fixed), `SnapshotGeneration`, `LookUp`,
`Check` or `CheckFails`, `StoreDecision` (`putIfGen`). An admitted request either
ends (`Finish`) or forwards a grant mutation; IAM may apply it before or after the
gateway answers, and the answer flushes (`RespondOK`) or does not
(`RespondNoFlush`: not 2xx, or the Stream gate). The watcher's tick is split at the
remote call: `PollRead`, then `PollFails`, `PollPrime`, `PollEmpty` or `PollFlush`.
`PushInvalidate` and `PushReplyLost` are the handler of the internal service;
`ReloadCatalog` and `ReloadFlush` the two halves of `Reload`. `floor`, `own` and
`flushedCat` are history.

**Idempotency.** One action per critical section of `s.mu` and one for each step
between two of them; `close(fl.done)` is outside the lock in the code and an action
of its own here. A flight is named by its leader. A call has every part of a request
that may tell two apart (`CallFields`); `cacheKey` keeps those that
`idempotencyCacheKey` keeps: the id of the principal but not its type, method and path
(`route`) but not the query, the `Idempotency-Key`, and the first 256 KiB of the body
(`head`) but not the rest (`tail`).

**JWKSCache.** `c.mu` is only held for reads and the final assignment, so each use
is atomic; `fetchMu` is held across the fetch and is a variable. Hydra is external
and rotates at any time. Time does not pass beyond the client timeout of a fetch.

**StreamProxy.** Each blocking call of the two goroutines is an action. The gRPC
runtime is external: frames queue, a send on an ended stream returns `io.EOF`, and
returning from the handler cancels the stream.

**DPoPReplay, SenderGate.** A request goes through `Wrap` in its order: `Arrive`
(public path, missing token, `Verify`), `Introspect` (cache, generation snapshot),
`FetchHydra`, `Store`, `CheckSender`, the steps of `Validate`, `StepUp`; over gRPC
`Enforce` follows the auth interceptor and verifies the token again. The
cryptographic verdicts are fields of the call (`valid`, `fits`, `cert`); freshness
and the replay cache read the clock separately, and an introspection answer is
stored after it was given, each at most `MaxDelay` later. `spent`, `late` and
`soft` are history.

**Authn.** What `authorize` and `HTTP` decide without waiting is a set of outcomes
(`authorize`, `byToken`, `PassGate`), since the verifier may fail any token when its
key endpoint is down. Each remote call splits a request: `Whoami`, `FetchSession`,
`KeepSession` for the Kratos session, `LookUpSubject`, `AskIAM`, `KeepSubject` for
the subject, `Upsert` and the lookups after it for a new identity. A principal is
named by its source, so that the user IAM keeps for an external id, the raw subject
of a token and the claims of a token differ. `PassGate` is what `Wrap` does to the
principal; its other checks are `SenderGate`'s. Kratos and IAM are external: a
session ends, a user is created or removed, at any time. `late` is history.

**AuthzDecide.** One action per load of an atomic pointer: `Arrive` (allowlist and
internal-origin gate, which loads the catalog), `ApplyOverride`, `ApplyCatalog`
(catalog, subject, resource), `Check`. Between any two a reload may swap either
file. Calls carry the ids the extractors would find; the message of a proxied gRPC
call is not readable, since it passes the unknown-service handler and hence the
Stream gate. A gRPC call without a credential bears the principal system:anonymous
(`InjectedAnonymous`), a REST call without one bears none. `good` and a request's `cats` and `ovrs` are history: what the
operator's last well-formed files said while the request was decided.

**Dispatch.** An admitted request is served by one of four actions: `ServeLocal`
(health and other endpoints the gateway answers itself), `ServeGrpc` (`Resolver`),
`ServeRest` (`Dispatcher`, then the service registered by `NewMux`) and
`ServeOperation` (the operations proxy, behind both surfaces). `served` is what the
serving layer did: where the call went, the status, the operation in the answer and
whether a backend cancelled it. A REST path is known by the method it is the route
of. Backends, and the owner they recorded for an operation, are external.

**Session.** The gateway keeps nothing between two requests of a sign-in: what a
handler decides depends on the cookies the request left with (`jar`), and its
`Set-Cookie` headers are a response in `net` that `Apply` brings to the browser
later, in any order. `Login`, `Callback`, `Logout` and `OAuthLogout` are the
handlers, `LoginRefused`, `CallbackIncomplete` and `OAuthLogoutNotPost` their early
refusals. A callback may be opened by another browser, again, or after a further
login or a logout. `Authenticate` (identity provider), `KratosLogin` and `Apply`
(browser; it drops a Secure cookie that came over plain HTTP) are external. The token of
a `POST /oauth/logout` is absent, invalid or valid (`Token`), and any of the calls to
IAM and Hydra that it makes (`Revocations`) may fail. `ended` (the logins a browser had
begun when it logged out), `left` (the sessions it was signed out of) and the fields
`late` and `owed` of a response (a logout the browser was entitled to) are history.

**Lifecycle.** `cfg` records what the guards of `main` tell apart, `pc` the guard or
listener `main` has reached: every `log.Fatalf` is an `Exit`, also when listeners
opened before it are already accepting. The root context is `live`, `signalled` or
`cancelled`; the stop goroutine runs `StopGrpc`, `StopInternal`, `StopHTTP` and
`CloseListeners`, each of which may let the calls of its server end or cut them off.
`ServeReturns` is the goroutine of a listener that noticed its end and cancels the
context. A connection on the root or the TLS port is first held by cmux (`FirstServer`) and
goes to a server when the client has said enough to be matched (`Match`); `MainReturns`
waits until no connection of the root port is unmatched (`Sniffing`), as
`cmuxer.Serve` does. `buildDPoP` may fail on the catalog or on any of its parts. `ReadyzBegin`, `CheckBackend` and `ReadyzAnswer` are a readiness probe under
one deadline for all backends. `Die` (a listener fails) and `Restart` (the
orchestrator, with the same configuration) are external; every configuration is an
initial state.

## 3. Bounds

Bounds are named constants and appear in guards only. In the passing runs:

* `lru`: three keys, capacity 2, two values, TTLs 2 and 1 and the non-positive -1
  and 0, three ticks, one invalidation: evictions, overwrites, expiry out of
  recency order and writes of an old generation all occur.
* `decision`: one key and one request, two changes, one extra generation for
  reload and repeated push, one tick: a change arrives while another one is being
  polled, a request is overtaken by every way of invalidation, and entries expire.
  A stale store needs one change and one racing request. For other subjects and
  any number of requests the safety properties of this run are proved (section 5).
* `idempotency`: three requests (leader, follower, retry), four calls (of two
  principals; one that differs only in what the key drops; one without a key), one
  entry, TTL 1, two ticks.
* `jwks`: two verifications, two kids, one rotation, TTL 1, three ticks: two
  fetches a TTL apart, so a set is used, found too old and replaced.
* `stream`: up to two frames each way.
* `gate`: two requests, two proofs, freshness 1, TTL of the seen proofs 2,
  introspection TTL 1, a token bound to a key, one
  bound to a certificate (presented with and without it), a plain one and one without jti, four ticks: a proof and
  a cached answer live through their whole TTL and the first tick after it.
* `authn`: two requests, one session, one user, tokens of the user and of a service
  account, a workload certificate, forged headers, three gateways (and a fourth
  configuration that refuses to start). Sessions end and users are removed at tick
  0 (`MaxEnd`) and all TTLs and delays are one tick, so late requests come at
  tick 3. Requests share nothing before their first remote call, so one at a time
  arrives.
* `authz`: one request slot used again and again, two reloads, files with
  duplicate FQNs, unknown decisions and no entries among the contents; twelve
  methods, one of each kind the tables distinguish (among them a method on the
  allowlist whose service is internal), and seven operation ids: with and without a
  recorded owner, the bootstrap principal's, of an unconfigured and of an unknown
  prefix. Requests do not interact in `AuthzDecide` and `Dispatch` except through
  the configuration, so one suffices.
* `session`: two browsers, one of them over plain HTTP, two login flows,
  two responses on their way, and four configurations. A second login overtakes the
  first in one browser, or the other browser opens its callback; a logout falls
  before, between and after.
* `lifecycle`: two backends, one of them critical, one open connection, call or probe, and every
  configuration one setting away from four deployments (`MCLifecycle`): each guard is
  passed and refused with everything else in order, and every listener is present
  and absent. Guards read one or two settings and so fail alone or with a neighbour.

Symmetry is used only over requests, in runs without liveness properties.

## 4. What the runs show

Passing (properties are explained above their definitions):

* **lru** - `ListMatchesMap` (list and map agree and stay within the capacity),
  `EvictsLeastRecentlyUsed`, and `ImplementsTTLStore`: an entry never changes or
  crosses an invalidation other than by being stored again.
* **decision** - `NoStaleSurvivor`, `DecisionsAreCurrent`: the generation
  guard works in every interleaving. `SentRowsAreSeen`, `PolledChangesAreSeen`,
  `OwnMutationsAreSeen`: each of the three ways of invalidation keeps its promise,
  also when the push found nothing to drop while a Check was in flight.
  `ChangesConverge`: every change after priming is followed by an invalidation.
* **idempotency** - `SingleFlight`, `ReplaysOwnAnswer` (a replay answers a request of the
  same principal id, route, key and leading part of the body), `RetriesAreReplayed`,
  `StoreIsBounded`, `FollowersWake`.
* **jwks** - `RetiredKeysExpire`, `ResolvedFromFreshSet`, `NewKeysAreSeen` (a
  published `kid` is not found only within one TTL and one fetch of the moment
  Hydra began to serve it), `FetchesAreShared`, `ResolveTerminates`.
* **stream** - `RelayIsTransparent`, `ResultIsComplete` (the handler returns neither
  success nor a backend status before everything the backend sent was relayed),
  `NoGoroutineLeak`, `HalfCloseEndsStream`.
* **gate** - `AdmittedOnce` (a proof counts once while it is fresh, whatever races), `RevokedTokensExpire`
  (over REST a revoked token is refused from one TTL and one round trip after the
  revocation, unless Hydra does not answer, which `Wrap` tolerates) and
  `BoundTokensAreProven` (a bound token is admitted only with its key).
* **authn** - `IdentityIsEstablished` (a principal comes from the credentials of its
  own request, and a token that fails is not downgraded over gRPC or behind
  the gate) and `EndedIdentitiesExpire`.
* **authz** - `AdmittedByARuleInForce` (with a credential, or as system:anonymous over
  gRPC), `DenyOverrideBinds`,
  `GrantIsOnNamedResource` (of calls that do not send the wildcard as an id: such a call
  names the whole type and is checked on it), `HiddenStaysHidden`; and after the decision, whatever it
  rested on, `OperationsAreOwn` (an operation is returned only to its owner or to
  the bootstrap worker, and to no tenant when it has no owner; a caller without a
  credential sees none over REST and those of system:anonymous over gRPC) and
  `InternalIsInternal` (an internal REST path, and an Internal* method over gRPC,
  reaches a backend only through the internal listener).
* **session** - `SessionIsOwnLogin` (a browser is signed in only by a login begun in
  it), `LogoutEndsPendingLogins` (a callback sent after a logout was applied does not
  sign in with a login begun before it) and `SignedOutStaysOut` (a browser that was
  answered a logout it was entitled to never gets the session it left back, whether IAM
  and Hydra answered or not and however late responses arrive).
* **lifecycle** - `ServingIsValidated` (a process that accepts connections was
  started with a posture that may serve, whichever listener opened or died first, and
  the internal port serves only identities on its list), `ReadyIsTrue` (200 only when
  every critical backend answered, 503 only when one was down or the deadline used up)
  and `ExitsWhenStopped` (a process told to stop, or that lost a listener, ends, provided
  that no connection of the root port stays silent for ever).

A module's type invariant is a conjunct of one of its properties; those of the cache and of
the decision cache are proved instead (section 5). Every inductive invariant of
section 5 was model-checked before it was proved, on the instance of its run (the
typings that TLC cannot enumerate aside).

Violations, each a statement of a comment or document that the code does not keep:

* **reload_is_effective** - a request that read the old catalog entry before a
  reload snapshots the generation after the flush and caches its decision.
* **status_is_forwarded** - the sender's `io.EOF` may be returned in place of the
  backend's status.

Further differences between comments and code were met and are not runs of their
own. Where a property exists it states what the code does keep:

* jwt_verifier.go:137-138 and 168-169 speak of a forced refresh for an unknown `kid`;
  `refresh` (202-208) does nothing while the set is younger than the TTL. The bound
  that holds is `NewKeysAreSeen`.
* cnf_grpc_interceptor.go:21-22 says that a bound token without its proof is refused;
  the interceptor verifies the token a second time and passes the request when that
  verification fails (97), after the auth interceptor accepted it.
  `BoundTokensAreProven` excepts these requests by the history variable `soft`.
* config.go:253-254 and dpop_replay_cache.go:8 take twice the freshness window to be
  enough for the seen proofs. `Validate` reads the clock for the freshness check and
  the cache reads it again: a proof dated a whole window ahead, used at once and
  presented again at the very end, is fresh at the first read and forgotten at the
  second. `AdmittedOnce` excepts this gap.
* main.go:725-734 describe a drain. `GracefulStop` closes the cmux listener and with
  it the root listener, `cmuxer.Serve` returns, and `main` exits without waiting for
  the stop goroutine. A SIGTERM after the context was cancelled by a lost listener
  ends the process at once.
* main.go:733-734 say that the listeners are closed so that `main` "exits instead of
  blocking until the kubelet sends SIGKILL". `cmuxer.Serve` also waits for the
  connections it has not matched, and no read timeout is set on cmux (593-599): one
  that stays silent keeps `main` from returning. `ExitsWhenStopped` has this as its
  premise.
* main.go:257-259 say that a user "must be able to drop their browser session even
  with an expired token", and logout_handler.go:205-206 calls the clearing of the
  cookies "Always done"; a token that does not verify, and a revocation that is asked
  for without a token, are answered 401 before the cookies are cleared. The cookies
  are cleared as Secure in any case, which a browser on plain HTTP ignores.
  `SignedOutStaysOut` claims neither case.
* authz.go:699-704 say that the exempt gate answers 401 to "an anonymous request (no
  Bearer → injected system:anonymous principal)". It does so over REST, where no
  principal is set. Over gRPC the injected principal resolves to an external subject,
  the extractor being built with the fallback (main.go:864), and the call passes the
  gate. `AdmittedByARuleInForce` names the two cases apart.
* opsproxy/proxy.go:213-217 and 236-238 refuse an anonymous caller and rely on the
  exempt gate. For the same reason all callers over gRPC without a credential share the
  identity system:anonymous, and see the operations that were created under it.
* idempotency.go:241-243 say that the entry of one caller cannot be given to another,
  and 328-332 that another payload is a miss. The key has the id of the principal
  without its type, the path without the query, and a hash of the first 256 KiB of the
  body (333-355; the comment at 339-344 accepts the last). `ReplaysOwnAnswer` states
  what equal keys guarantee.
* docs/architecture/known-divergences.md:43-53 say that an unset `KACHO_APP_ENV` is
  dev-class and that a replica with a relaxed posture then serves with a warning. The
  code counts an unset label as production (authz_validation.go:47-53) and refuses to
  start, which is what `ServingIsValidated` states.
* health.go:52-56 say that a non-critical backend does not make the replica
  unready. All backends share one deadline of 5 s, so a backend that hangs, critical
  or not, makes those asked after it fail.
* The label of the environment is normalised by one guard (authz_validation.go:47)
  and compared as written by another (internal_grpc_security.go:123).
* mux.go:420-421 and 484-486 call the admin methods for disk types, regions and zones
  cluster-internal. Over REST they share the collection paths of the public
  methods, which `isInternalPath` does not match, so that the catalog alone decides.
* opsproxy/proxy.go:187-189 say that only the creator of an operation can cancel it.
  `Cancel` is forwarded before its owner is checked (197-201): a caller who is not the
  owner gets PermissionDenied and the operation is cancelled, unless the backend
  refuses. `OperationsAreOwn` therefore speaks of what is shown.
* `IntrospectionCache.Invalidate` is said to be called on a revocation ("≤ 1s SLA",
  introspection_cache.go:180-182); nothing calls it, and the bound that holds is
  `RevokedTokensExpire`.
* auth.go:22-25 says what happens to bad tokens and to unknown subjects in each mode.
  Over REST without the DPoP gate that is not so: a token with a lower-case scheme
  is ignored, and a verified token whose subject is unknown goes on without a
  principal. `IdentityIsEstablished` therefore speaks of gRPC and of REST with the
  gate.
* `injectVerifiedTokenHeaders` replaces the user found by lookup with the raw subject
  of a token without claims.
* Proxied gRPC calls are decided without a request message and so are refused where
  REST checks the resource (authz.go:815), although the documentation
  (docs-site/docs/api/overview.mdx:18-20) promises the same semantics.

### Fairness

The runs `lru`, `authz`, `gate`, `authn` and `session` assume none. `decision`: the watcher's ticker fires for as long as
the process lives (weak fairness of `PollRead`) and IAM answers polls again and
again (strong fairness of applying a reply; single polls may still fail); pushes,
requests and reloads are not assumed to happen. `idempotency`: a request that has
entered is run to its end, since backend calls end by answer or timeout. `jwks`: a
fetch ends by answer or client timeout, and `sync.Mutex` hands the lock to every
waiter eventually (its starvation mode), hence strong fairness of `LockFetch`.
`stream`: the runtime schedules the handler and both goroutines, and a backend that
saw the half-close ends the call; nothing is assumed of the client. `lifecycle`: `main`
goes on, the goroutines of the listeners run, each stage of the stop goroutine ends
(10 s timers bound the waits for calls), and `main` returns once `cmuxer.Serve` can;
nothing is assumed of callers, backends, signals or listeners, so `Match` and `Complete`
are not fair, and that silent connections end is the explicit premise `[]<>~Sniffing` of
`ExitsWhenStopped`: without it the property fails.

Deadlock is checked in every run. Finite scenarios end in an explicit stuttering
step (`Done`, `Over`) that is enabled only when everything has been served.

## 5. What is proved

For every value of the constants (any capacity, TTL, number of keys, subjects,
requests and changes), from the named assumptions of the modules:

* `CacheProofs`, the cache - `CacheTypeCorrect`, `ListAndMapAgree`,
  `CacheImplementsStore` and the action property `LeastRecentlyUsedIsEvicted`. The invariant `CacheInv` says that `order` has no
  duplicates, enumerates the domain of `items`, and that the domain is finite and
  within the capacity. Its preservation rests on lemmas on lists
  (`KeyListProofs`: what removal and moving to the front do to range, length and
  injectivity) and on one lemma per method (`LRUCacheProofs`). The refinement maps
  `content`, `epoch` and `time` to `items`, `gen` and `now`; every call is a step
  of `TTLStore` or leaves them alone. For the eviction the history of uses (`recency`)
  is compared with the list: of two keys in the map the one nearer the front was used
  later, which every method preserves (`PutOrder`), so the last one is the oldest.
* `CacheProofs`, the decision cache - `TypeCorrect`, `StaleNeverSurvives`, `CurrentDecisions`,
  `PushedChangesSeen`, `OwnChangesSeen`, `PolledChangesSeen`. None of the five
  properties is inductive: what protects the cache is a fact about requests that
  have not written yet. `IInv` adds it: a request whose snapshot is the current
  generation holds an answer at least as new as the last invalidation covering its
  subject (and no snapshot is ahead of the generation); `floor` never lies beyond
  IAM's log; sent rows, own mutations and the cursor lie below the `floor` of their
  subjects. Each action then preserves `IInv` because an invalidation that raises
  `floor` also moves the generation, which disarms every pending write.

* `DispatchProofs` - first `AuthzDecide`. A request reads the overrides and the
  catalog at different moments, and either file may be replaced in between, so none of
  its four properties is inductive. `IInv` says what an answer rests on (`Explained`):
  it is the one the phases in sequence give on *some* overrides and *some* catalog
  that were in force during the request, and a request under way holds the entry and
  the object that phases 3 to 5 computed from such a catalog. From it follow
  `DecideFailsClosed`, `DenyBinds`, `ScopesDoNotWiden` and `HiddenResources`, each by
  an analysis of the phases (`AnswerValues`, `ResolveValues`, `CheckValues`,
  `ConcreteObject`). Then `Dispatch`: `DispatchImplementsDecide` shows that every
  step of the composition is a step of `decide` or leaves its state alone, which
  carries the four theorems over; `ServedInv` adds that nothing is served before the
  decision and that what was served suits the call in the slot, and gives
  `OperationsOwned` and `InternalStaysInternal`. The tables (methods, routes,
  backends, owners, allowlist, catalogs, overrides) are arbitrary.
* `ServerProofs`, `Idempotency` - `StoreBound`, `OneLeader`, `ReplayIsOwn` and the action
  property `RetryIsReplayed`. `IInv` says whose response each part of the middleware
  holds: a key in flight is led by a request that asked for it and is not in the
  store; a stored response was built by a request that asked for its key; a leader
  leads the flight of its own key and holds its own response; a follower waits for a
  leader with the same key. `SameKey` turns requests that asked for one key into
  requests that agree in the parts of the call that `cacheKey` keeps. `LastInv` relates the history of committed responses
  to the store: the last one of a key is stored, evicted or expired; a request
  reaches the backend only in the last two cases.
* `HydraProofs`, `JWKSCache` - `RetiredKeysAreDropped`, `ResolvesFresh`, `NewKeysAppear` and
  the action property `OneFetch`. A body that arrives is as old as the moment the
  fetch was *begun*, not as `fetchedAt`, so the invariant dates the cached set
  `FetchTimeout` earlier (`ServedSince`); it adds that `fetchMu` is held by exactly the
  verification between lock and unlock, and that the set is not fresh while
  that one fetches, from which it follows that a replaced set was older than its TTL.
* `HydraProofs`, `Session` - `OwnLogins`, `LogoutEndsLogins`, `SignedOut`. The gateway
  keeps nothing, so `IInv` speaks of the jars and of the responses on their way: the
  login cookies in both belong to logins of that browser (`JarInv`, `MessageInv`), and
  no state cookie of a login that a logout ended is left in either (`EndedInv`). A
  callback that matches the state cookie is therefore of the browser's own login and
  of none that was ended. That state and verifier are drawn afresh for every login
  (`FlowInv`) is where `randomState` enters. For `SignedOut`, `LeftInv` adds that a
  session exists at one place at most, in one response or in the jar, and only when its
  code is spent: a code is exchanged once, so a session that was left is not issued
  again, and no response on its way can bring it back.
* `ServerProofs`, `Lifecycle` - `ServingValidated`, `ReadinessIsTrue`. Listeners open
  one by one while `main` is still passing guards, so what serves says nothing by
  itself. `ProcessInv` ties a position of `main` to the guards passed before it
  (`GuardsInv`), the ports to the position (`PortsInv`: before the internal port is
  bound nothing listens, and the TLS port only after its client authentication was
  settled) and each open call to the authorization of its port (`CallsInv`). `ProbeInv`
  adds to readiness that only a backend that hung makes an answer late.
* `ServerProofs`, `StreamProxy` - `StreamIsTransparent`, `StreamResultIsComplete`, for
  any number of frames. The frames received, in the goroutine's hands and queued are
  one count from 1 (`RequestsInv`, `ResponsesInv`, on the lemmas `CountSent`,
  `CountTaken` and so on about sequences). What a goroutine posts says what it has
  done: nil of the sender comes after the half-close and every request, the status from
  the receiver after every response, the header and the trailer (`MetadataInv`).
  `ErrChInv` says that the channel holds the results of the goroutines that ended,
  without the one the handler has taken, which is nil.
* `SenderGateProofs` - the action properties `ProofsAreAdmittedOnce`,
  `RevocationTakesEffect`, `BindingIsEnforced`. `ReplayInv`: a jti that was spent is in
  the cache with a deadline not before the end of its proof's freshness, or the proof
  is no longer fresh (`Remembered`); this rests on the TTL being at least
  `2 * Freshness` and on the proof having been fresh at the first of the two clock reads
  (`Checked`). A jti evicted for want of room leaves `spent`: that limit is the
  property's own. `GateInv`: what a request has shown by its phase (`Passed`), and that
  an introspection answer, cached (`AnswersExpire`) or on its way to the cache
  (`Asked`), is dated from when Hydra was asked.
* `AuthnProofs` - the action properties `IdentitiesAreEstablished` and
  `EndedIdentitiesAreRefused`. A lookup carries only an external id; `Founded` keeps
  the token or the session of the request for which it is made, so that the user it
  returns is one the request establishes. `Timely`, `SessionsExpire` and
  `SubjectsExpire` date the answers of Kratos and IAM, under way and cached, from when
  they were asked for; a cached subject is besides the one of its external id. Both
  caches, and the introspection cache above, are instances of `LRUCacheProofs`.

The assumptions on constants are those of the modules and say nothing of the
deployment: bounds are positive, placeholders such as `None` differ from the values
they stand beside, the seen proofs are kept for twice the freshness window (as
config.go:253-254 asks of the two settings), there is some call, the names of sessions and of external ids differ, `Dispatch` assumes that the methods of the operations proxy are not
on internal paths or named Internal* and that system:anonymous is not the bootstrap
principal, and `Idempotency` that calls are records of the parts in `CallFields`. TLC evaluates them in the runs.

Every safety property of the passing runs, invariant or action property, is a theorem.
Only model-checked: the liveness properties (`ChangesConverge`, `FollowersWake`,
`ResolveTerminates`, `NoGoroutineLeak`, `HalfCloseEndsStream`, `ExitsWhenStopped`),
since liveness under fairness, `ENABLED` and induction over recursive data are outside
what the installed provers do; and the two statements that the code does not keep
(section 4, violations), which have counterexamples. No module
declares a RECURSIVE operator. A CASE whose guards overlap leaves its value open in
TLA+ while TLC takes the first; the guards that the proofs rest on are exclusive, or
the definition is an IF.

## 6. Not modelled

Cryptography and key decoding; parsing of protobuf, JSON, YAML and path templates
(abstracted to their results); formatting of denials, logs and metrics; the rows of
the constant tables (allowlist, generated REST routes, service registrations), which
are constants of `Dispatch`; JSON marshalling of the REST mux; parsing of the
environment and derivation of URLs in `config.go` (the results the guards read are
in `Lifecycle` and `Session`); `Me` and `safeRelativePath` of the sign-in handlers,
which keep and decide nothing a property is about; observability; code generators;
several replicas at once (caches are per process and replicas interact only through
IAM, which is in the model).

`Authn`, `SenderGate`, `AuthzDecide` and `Session` are separate: the principal of a
request is a constant of the call in `AuthzDecide` and the outcome of `Authn`, and a
logout whose calls to IAM and Hydra revoke tokens and end sessions is `HydraRevoke` of
`SenderGate` and `EndSession` of `Authn`, which may happen at any time there; `Session`
keeps only whether these calls failed. The parts meet only in
these values, which the separate models let vary freely.

## 7. Order of the work

`LRUCache` with its contract, `DecisionCache`, `Idempotency`, `JWKSCache`,
`StreamProxy`, `DPoPReplay`, `AuthzDecide`, `SenderGate`, `Authn`, then `Dispatch`,
`Session` and `Lifecycle`; proofs for the cache and the decision cache, for
`AuthzDecide` and `Dispatch`, `Idempotency`, `JWKSCache` and `Session`, and last for
`Lifecycle`, `StreamProxy`, `SenderGate` and `Authn`.

What is left: a second replica beside the first in `DecisionCache`, the first poll
that primes a cache already warm (hazard at `subject_change_watcher.go:80`), and the
composition of `Authn`, `SenderGate` and `AuthzDecide` in one request.
