----------------------------- MODULE JWKSCache -----------------------------
(***************************************************************************)
(* internal/middleware/jwt_verifier.go, JWKSCache: concurrent token         *)
(* verifications resolve signing keys by kid from one cached key set, which *)
(* they refresh from Hydra's JWKS endpoint.  c.mu guards the set, and is    *)
(* not held across the fetch; fetchMu makes the fetch single-flight.        *)
(* Hydra is external: it publishes a key set and rotates it.                *)
(***************************************************************************)
EXTENDS Integers, FiniteSets

CONSTANTS
  Kid,           \* key ids
  NoKid,         \* the kid of a token that names none
  NoHolder,          \* no lock holder
  Verifier,      \* verifications in progress at once
  TTL,           \* c.ttl
  FetchTimeout,  \* the HTTP client's timeout, in ticks
  MaxTime,       \* bound: the clock stops here
  MaxRotation    \* bound: rotations of the endpoint's key set

ASSUME JWKSAssumption ==
  /\ NoKid \notin Kid
  /\ NoHolder \notin Verifier
  /\ TTL \in Nat \ {0}
  /\ FetchTimeout \in Nat
  /\ MaxTime \in Nat
  /\ MaxRotation \in Nat

VARIABLES
  set,        \* c.set: the cached kids, empty before the first fetch (an empty
              \* answer is never cached)
  fetchedAt,  \* c.fetchedAt
  fetchMu,    \* who holds c.fetchMu, or NoHolder
  ver,        \* the verifications
  published,  \* Hydra: the kids the endpoint serves
  rotations,  \* Hydra: how often they have changed
  retiredAt,  \* history: when Hydra last stopped serving a kid
  servedFrom, \* history: when Hydra last began to serve a kid
  now

cacheVars == <<set, fetchedAt, fetchMu>>
hydraVars == <<published, rotations, retiredAt, servedFrom>>
keyVars == <<cacheVars, ver, hydraVars, now>>

KeySets == (SUBSET Kid) \ {{}}

\* from and start are history: the fetch time of the set the verification was
\* answered from, and when it started.
VerifierState ==
  [pc : {"idle", "waiting", "locked", "fetching", "fetched", "refreshed",
         "resolved", "notfound", "failed"},
   kid : Kid \cup {NoKid}, body : SUBSET Kid, asked : Nat,
   start : Nat, from : Nat]

KeysTypeOK ==
  /\ set \in SUBSET Kid
  /\ fetchedAt \in Nat
  /\ fetchMu \in Verifier \cup {NoHolder}
  /\ ver \in [Verifier -> VerifierState]
  /\ published \in KeySets
  /\ rotations \in Nat
  /\ retiredAt \in [Kid -> Nat]
  /\ servedFrom \in [Kid -> Nat]
  /\ now \in Nat

Idle == [pc |-> "idle", kid |-> NoKid, body |-> {}, asked |-> 0,
         start |-> 0, from |-> 0]

KeysInit ==
  /\ set = {} /\ fetchedAt = 0 /\ fetchMu = NoHolder
  /\ ver = [v \in Verifier |-> Idle]
  /\ published \in KeySets
  /\ rotations = 0
  /\ retiredAt = [k \in Kid |-> 0]
  /\ servedFrom = [k \in Kid |-> 0]
  /\ now = 0

At(v, phase) == ver[v].pc = phase

\* FindByKid: a token without a kid is resolved only by a set of one key.
Finds(S, kid) == IF kid = NoKid THEN Cardinality(S) = 1 ELSE kid \in S

\* Mutants: a set is trusted for two TTLs; a set is never, or always, fresh enough
\* to share.
StaleLate == set = {} \/ now - fetchedAt > 2 * TTL
NeverFresh == FALSE
FreshIfAny == set # {}

Stale == set = {} \/ now - fetchedAt > TTL
Fresh == set # {} /\ now - fetchedAt < TTL

-----------------------------------------------------------------------------
(* Resolve.                                                                *)

\* Resolve, under c.mu.RLock: a fresh set that has the kid answers at once; a
\* stale set or an unknown kid goes to refresh.
Lookup(v, kid) ==
  /\ At(v, "idle")
  /\ LET begun == [Idle EXCEPT !.kid = kid, !.start = now]
     IN  \/ /\ ~Stale /\ Finds(set, kid)
            /\ ver' = [ver EXCEPT ![v] = [begun EXCEPT !.pc = "resolved",
                                                       !.from = fetchedAt]]
         \/ /\ Stale \/ ~Finds(set, kid)
            /\ ver' = [ver EXCEPT ![v] = [begun EXCEPT !.pc = "waiting"]]
  /\ UNCHANGED <<cacheVars, hydraVars, now>>

\* refresh: fetchMu.Lock().
LockFetch(v) ==
  /\ At(v, "waiting")
  /\ fetchMu = NoHolder
  /\ fetchMu' = v
  /\ ver' = [ver EXCEPT ![v].pc = "locked"]
  /\ UNCHANGED <<set, fetchedAt, hydraVars, now>>

\* refresh: the double check, under c.mu.RLock.  A fresh set ends the refresh.
DoubleCheck(v) ==
  /\ At(v, "locked")
  /\ \/ /\ Fresh
        /\ fetchMu' = NoHolder
        /\ ver' = [ver EXCEPT ![v].pc = "refreshed"]
     \/ /\ ~Fresh
        /\ UNCHANGED fetchMu
        /\ ver' = [ver EXCEPT ![v].pc = "fetching", ![v].asked = now]
  /\ UNCHANGED <<set, fetchedAt, hydraVars, now>>

\* refresh: the endpoint answers with the set it serves now.
FetchAnswers(v) ==
  /\ At(v, "fetching")
  /\ ver' = [ver EXCEPT ![v].pc = "fetched", ![v].body = published]
  /\ UNCHANGED <<cacheVars, hydraVars, now>>

\* Mutants: the error is ignored; the lock is not released.
FetchErrorIgnored(v) ==
  /\ At(v, "fetching")
  /\ fetchMu' = NoHolder
  /\ ver' = [ver EXCEPT ![v].pc = "refreshed", ![v].asked = 0]
  /\ UNCHANGED <<set, fetchedAt, hydraVars, now>>

FetchErrorKeepsLock(v) ==
  /\ At(v, "fetching")
  /\ ver' = [ver EXCEPT ![v].pc = "failed", ![v].asked = 0]
  /\ UNCHANGED <<cacheVars, hydraVars, now>>

\* refresh: the request fails or times out, or its answer is not a key set.
FetchFails(v) ==
  /\ At(v, "fetching")
  /\ fetchMu' = NoHolder
  /\ ver' = [ver EXCEPT ![v].pc = "failed", ![v].asked = 0]
  /\ UNCHANGED <<set, fetchedAt, hydraVars, now>>

\* refresh: publish the set under c.mu.Lock, then the deferred fetchMu.Unlock.
Publish(v) ==
  /\ At(v, "fetched")
  /\ set' = ver[v].body
  /\ fetchedAt' = now
  /\ fetchMu' = NoHolder
  /\ ver' = [ver EXCEPT ![v].pc = "refreshed", ![v].body = {}, ![v].asked = 0]
  /\ UNCHANGED <<hydraVars, now>>

\* Resolve, after refresh: the set as it is now answers, found or not.
LookupAgain(v) ==
  /\ At(v, "refreshed")
  /\ ver' = [ver EXCEPT ![v].pc = IF Finds(set, ver[v].kid) THEN "resolved"
                                                            ELSE "notfound",
                        ![v].from = fetchedAt]
  /\ UNCHANGED <<cacheVars, hydraVars, now>>

\* The caller takes the answer.
Return(v) ==
  /\ ver[v].pc \in {"resolved", "notfound", "failed"}
  /\ ver' = [ver EXCEPT ![v] = Idle]
  /\ UNCHANGED <<cacheVars, hydraVars, now>>

-----------------------------------------------------------------------------
\* Hydra rotates: the endpoint serves S from now on.
Rotate(S) ==
  /\ rotations < MaxRotation
  /\ S # published
  /\ published' = S
  /\ rotations' = rotations + 1
  /\ retiredAt' = [k \in Kid |-> IF k \in published \ S THEN now ELSE retiredAt[k]]
  /\ servedFrom' = [k \in Kid |-> IF k \in S \ published THEN now ELSE servedFrom[k]]
  /\ UNCHANGED <<cacheVars, ver, now>>

\* Time passes, but no further than the timeout of a fetch in progress.
Tick ==
  /\ now < MaxTime
  /\ \A v \in Verifier :
       ver[v].pc \in {"fetching", "fetched"} => now < ver[v].asked + FetchTimeout
  /\ now' = now + 1
  /\ UNCHANGED <<cacheVars, ver, hydraVars>>

Proceeds(v) ==
  \/ DoubleCheck(v)
  \/ FetchAnswers(v) \/ FetchFails(v)
  \/ Publish(v)
  \/ LookupAgain(v)

KeysNext ==
  \/ \E v \in Verifier :
       \/ \E kid \in Kid \cup {NoKid} : Lookup(v, kid)
       \/ LockFetch(v) \/ Proceeds(v) \/ Return(v)
  \/ \E S \in KeySets : Rotate(S)
  \/ Tick

KeysSpec == KeysInit /\ [][KeysNext]_keyVars

\* The runtime schedules every goroutine, a fetch ends by answer or timeout, and
\* sync.Mutex hands the lock to every waiter sooner or later (starvation mode).
FairKeysSpec ==
  /\ KeysSpec
  /\ \A v \in Verifier : WF_keyVars(Proceeds(v)) /\ SF_keyVars(LockFetch(v))

-----------------------------------------------------------------------------
(* Properties.                                                             *)

\* When the endpoint last served k, as far as is known now.
LastServed(k) == IF k \in published THEN now ELSE retiredAt[k]

\* A key Hydra has retired stops being accepted without a refresh within one TTL
\* and the time one fetch may take: whatever refreshes fail, race or find the set
\* fresh, a set that Resolve's fast path trusts holds no key retired earlier.
RetiredKeysExpire ==
  ~Stale => \A k \in set : LastServed(k) + TTL + FetchTimeout >= now

\* A key is never resolved from a set that was stale already when the resolution
\* began: a failed refresh is an error, not a licence to use the old keys.
ResolvedFromFreshSet ==
  /\ KeysTypeOK
  /\ \A v \in Verifier : At(v, "resolved") => ver[v].from + TTL >= ver[v].start

\* A key Hydra has begun to use is not reported missing for longer than one TTL
\* and the time one fetch may take, although an unknown kid does not force a fetch
\* while the cached set is fresh, and a fetch begun before the rotation may publish
\* the old set after it.
NewKeysAreSeen ==
  \A v \in Verifier :
    At(v, "notfound") /\ ver[v].kid \in published =>
      servedFrom[ver[v].kid] + TTL + FetchTimeout > ver[v].start

\* Verifications that pile up on a stale set share one fetch: two fetches never
\* overlap, and a set is replaced only when its TTL has passed.
FetchesAreShared ==
  [][(set' # set \/ fetchedAt' # fetchedAt)
       => set = {} \/ now - fetchedAt >= TTL]_keyVars

\* Every resolution ends, although fetches may fail and all verifications queue
\* on one lock: fetchMu is released on every path out of refresh.
ResolveTerminates ==
  \A v \in Verifier :
    At(v, "waiting") ~> ver[v].pc \in {"resolved", "notfound", "failed"}
=============================================================================
