---------------------------- MODULE Idempotency ----------------------------
(***************************************************************************)
(* internal/middleware/idempotency.go: HTTPIdempotency over one             *)
(* IdempotencyStore.  Requests run concurrently; every critical section of  *)
(* s.mu is one action, and so is each thing a request does between two of   *)
(* them: the downstream call, computing the deadline, closing fl.done.      *)
(* The leader of a flight is a request, so a flight is named by its leader. *)
(***************************************************************************)
EXTENDS KeyList

CONSTANTS
  Request,     \* HTTP requests; each is served once
  Call,        \* what a request may be; see CallFields
  NoKey,       \* the idem of a request without an Idempotency-Key header
  None,        \* no response, no flight
  MaxEntries,  \* s.maxEntries
  TTL,         \* s.ttl
  MaxTime      \* bound: the clock stops here

\* A captured response: the request whose downstream call produced it, and
\* whether it may be cached (status < 500 and a body within the cap).
Response == [by : Request, cacheable : BOOLEAN]

\* What is remembered of a committed response.
Commit == [expiresAt : Nat, evicted : BOOLEAN]

\* type, id: the principal; route: method and URL.Path, query: the rest of the URL;
\* idem: the Idempotency-Key; head: the first idempotencyMaxBodyBytes of the body,
\* tail: what follows them.
CallFields == {"mutating", "type", "id", "route", "query", "idem", "head", "tail"}

ASSUME IdempotencyAssumption ==
  /\ None \notin Request \cup Response /\ None \notin Commit
  /\ Call # {}
  /\ \A c \in Call : DOMAIN c = CallFields /\ c.mutating \in BOOLEAN
  /\ MaxEntries \in Nat \ {0}
  /\ TTL \in Nat
  /\ MaxTime \in Nat

VARIABLES
  elems,     \* s.elems: key -> [resp, expiresAt]
  order,     \* s.order: the keys, oldest insertion first
  inflight,  \* s.inflight: key -> the leader of its flight
  result,    \* result[r]: the flight of r, hasResult and the captured response
  closed,    \* closed[r]: the done channel of the flight of r is closed
  req,       \* the requests
  now,       \* time.Now()
  last       \* history: last[k], the last response committed for k

vars == <<elems, order, inflight, result, closed, req, now, last>>

\* Mutant: the key is shared between principals.
cacheKeyShared(c) == <<c.route, c.idem, c.head>>

\* idempotencyCacheKey: the fingerprint of a request.  The principal's type, the
\* query and the body beyond the cap of hashRequestBody are no part of it.
cacheKey(c) == <<c.id, c.route, c.idem, c.head>>

Key == {cacheKey(c) : c \in Call}

Phase == {"new", "direct", "leading", "waiting", "returned", "panicking",
          "unlocked", "replied", "replayed", "panicked"}

TypeOK ==
  /\ DOMAIN elems \subseteq Key
  /\ elems \in [DOMAIN elems -> [resp : Response, expiresAt : Nat]]
  /\ order \in Seq(Key)
  /\ DOMAIN inflight \subseteq Key
  /\ inflight \in [DOMAIN inflight -> Request]
  /\ result \in [Request -> Response \cup {None}]
  /\ closed \in [Request -> BOOLEAN]
  /\ req \in [Request -> [pc : Phase, call : Call, flight : Request \cup {None},
                          resp : Response \cup {None}, expiresAt : Nat]]
  /\ now \in Nat
  /\ last \in [Key -> Commit \cup {None}]

Init ==
  /\ elems = [k \in {} |-> k] /\ order = <<>>
  /\ inflight = [k \in {} |-> k]
  /\ result = [r \in Request |-> None]
  /\ closed = [r \in Request |-> FALSE]
  /\ req \in [Request -> {[pc |-> "new", call |-> c, flight |-> None,
                           resp |-> None, expiresAt |-> 0] : c \in Call}]
  /\ now = 0
  /\ last = [k \in Key |-> None]

At(r, phase) == req[r].pc = phase
KeyOf(r) == cacheKey(req[r].call)

-----------------------------------------------------------------------------
(* The store.                                                              *)

Expired(k) == now > elems[k].expiresAt

\* Mutant: a response is gone at its deadline, not after it.
FoundStrict(k) == k \in DOMAIN elems /\ now < elems[k].expiresAt

Found(k) == k \in DOMAIN elems /\ ~Expired(k)

\* Mutant: the list keeps the keys.
removeFromMapOnly(K) ==
  elems' = Restrict(elems, DOMAIN elems \ K) /\ UNCHANGED order

\* removeElem for every key of K.
removeElems(K) ==
  /\ elems' = Restrict(elems, DOMAIN elems \ K)
  /\ order' \in Kept(order, K)

\* putLocked: overwrite and move to the back, or evict from the front until there
\* is room and push to the back.  (At most one entry is over the limit, so the
\* loop runs at most once.)
putLocked(k, e) ==
  LET full    == k \notin DOMAIN elems /\ Cardinality(DOMAIN elems) >= MaxEntries
      victims == IF full THEN {order[1]} ELSE {}
      stays   == DOMAIN elems \ victims
      rest    == IF full THEN Tail(order) ELSE Without(order, k)
  IN  /\ elems' = [j \in stays \cup {k} |-> IF j = k THEN e ELSE elems[j]]
      /\ order' = Append(rest, k)
      /\ last' = [j \in Key |->
                    IF j = k THEN [expiresAt |-> e.expiresAt, evicted |-> FALSE]
                    ELSE IF j \in victims THEN [last[j] EXCEPT !.evicted = TRUE]
                    ELSE last[j]]

-----------------------------------------------------------------------------
(* A request.                                                              *)

\* Not a mutation, or no Idempotency-Key: the middleware steps aside.
PassThrough(r) ==
  /\ At(r, "new")
  /\ ~req[r].call.mutating \/ req[r].call.idem = NoKey
  /\ req' = [req EXCEPT ![r].pc = "direct"]
  /\ UNCHANGED <<elems, order, inflight, result, closed, now, last>>

Guarded(r) ==
  At(r, "new") /\ req[r].call.mutating /\ req[r].call.idem # NoKey

\* reserve finds a completed response: it is replayed.
ReserveCached(r) ==
  /\ Guarded(r)
  /\ Found(KeyOf(r))
  /\ req' = [req EXCEPT ![r].pc = "replayed", ![r].resp = elems[KeyOf(r)].resp]
  /\ UNCHANGED <<elems, order, inflight, result, closed, now, last>>

\* reserve drops an expired response, finds a flight and follows it.
ReserveFollow(r) ==
  /\ Guarded(r)
  /\ ~Found(KeyOf(r))
  /\ KeyOf(r) \in DOMAIN inflight
  /\ removeElems({KeyOf(r)})
  /\ req' = [req EXCEPT ![r].pc = "waiting", ![r].flight = inflight[KeyOf(r)]]
  /\ UNCHANGED <<inflight, result, closed, now, last>>

\* reserve drops an expired response, finds no flight and leads a new one.
ReserveLead(r) ==
  /\ Guarded(r)
  /\ ~Found(KeyOf(r))
  /\ KeyOf(r) \notin DOMAIN inflight
  /\ removeElems({KeyOf(r)})
  /\ inflight' = [k \in DOMAIN inflight \cup {KeyOf(r)} |->
                    IF k = KeyOf(r) THEN r ELSE inflight[k]]
  /\ req' = [req EXCEPT ![r].pc = "leading"]
  /\ UNCHANGED <<result, closed, now, last>>

\* <-follower.done, then replay the captured response or, when the leader
\* aborted, run downstream directly.
FollowerWakes(r) ==
  LET f == req[r].flight
  IN  /\ At(r, "waiting")
      /\ closed[f]
      /\ req' = [req EXCEPT ![r].pc = IF result[f] # None THEN "replayed" ELSE "direct",
                            ![r].resp = result[f]]
      /\ UNCHANGED <<elems, order, inflight, result, closed, now, last>>

\* next.ServeHTTP of the leader returns; the entry and its deadline are built.
DownstreamReturns(r, cacheable) ==
  /\ At(r, "leading")
  /\ req' = [req EXCEPT ![r].pc = "returned",
                        ![r].resp = [by |-> r, cacheable |-> cacheable],
                        ![r].expiresAt = now + TTL]
  /\ UNCHANGED <<elems, order, inflight, result, closed, now, last>>

\* next.ServeHTTP of the leader panics: the deferred function will abort.
DownstreamPanics(r) ==
  /\ At(r, "leading")
  /\ req' = [req EXCEPT ![r].pc = "panicking"]
  /\ UNCHANGED <<elems, order, inflight, result, closed, now, last>>

\* Mutant: the flight stays.
KeepFlight(r) == UNCHANGED inflight

\* The flight of r is dropped from the store.
Release(r) == inflight' = Restrict(inflight, DOMAIN inflight \ {KeyOf(r)})

\* finishLeader up to Unlock.
finishLeader(r) ==
  /\ At(r, "returned")
  /\ result' = [result EXCEPT ![r] = req[r].resp]
  /\ \/ /\ req[r].resp.cacheable
        /\ putLocked(KeyOf(r), [resp |-> req[r].resp, expiresAt |-> req[r].expiresAt])
     \/ /\ ~req[r].resp.cacheable
        /\ UNCHANGED <<elems, order, last>>
  /\ Release(r)
  /\ req' = [req EXCEPT ![r].pc = "unlocked"]
  /\ UNCHANGED <<closed, now>>

\* abortLeader up to Unlock: only the leader of the current flight drops it and
\* goes on to close its channel (any other would close nothing).
abortLeader(r) ==
  /\ At(r, "panicking")
  /\ KeyOf(r) \in DOMAIN inflight /\ inflight[KeyOf(r)] = r
  /\ Release(r)
  /\ req' = [req EXCEPT ![r].pc = "unlocked"]
  /\ UNCHANGED <<elems, order, result, closed, now, last>>

\* Mutant: an aborted leader does not close the channel.
CloseOnSuccess(r) ==
  /\ At(r, "unlocked")
  /\ closed' = [closed EXCEPT ![r] = req[r].resp # None]
  /\ req' = [req EXCEPT ![r].pc = IF req[r].resp # None THEN "replied" ELSE "panicked"]
  /\ UNCHANGED <<elems, order, inflight, result, now, last>>

\* close(fl.done), outside the lock, and the leader's handler ends.
CloseDone(r) ==
  /\ At(r, "unlocked")
  /\ closed' = [closed EXCEPT ![r] = TRUE]
  /\ req' = [req EXCEPT ![r].pc = IF req[r].resp # None THEN "replied" ELSE "panicked"]
  /\ UNCHANGED <<elems, order, inflight, result, now, last>>

\* The downstream call of a request that is not a leader returns or panics.
DirectEnds(r, pc) ==
  /\ At(r, "direct")
  /\ req' = [req EXCEPT ![r].pc = pc]
  /\ UNCHANGED <<elems, order, inflight, result, closed, now, last>>

-----------------------------------------------------------------------------
\* gcLoop: one pass over the whole list.
Collect ==
  LET dead == {k \in DOMAIN elems : Expired(k)}
  IN  /\ dead # {}
      /\ removeElems(dead)
      /\ UNCHANGED <<inflight, result, closed, req, now, last>>

Tick ==
  /\ now < MaxTime
  /\ now' = now + 1
  /\ UNCHANGED <<elems, order, inflight, result, closed, req, last>>

Enters(r) ==
  PassThrough(r) \/ ReserveCached(r) \/ ReserveFollow(r) \/ ReserveLead(r)

Proceeds(r) ==
  \/ FollowerWakes(r)
  \/ \E cacheable \in BOOLEAN : DownstreamReturns(r, cacheable)
  \/ DownstreamPanics(r)
  \/ finishLeader(r) \/ abortLeader(r) \/ CloseDone(r)
  \/ \E pc \in {"replied", "panicked"} : DirectEnds(r, pc)

Served == \A r \in Request : req[r].pc \in {"replied", "replayed", "panicked"}

\* All requests are served; nothing is left to happen but the collector.
Done == Served /\ UNCHANGED vars

Next ==
  \/ \E r \in Request : Enters(r) \/ Proceeds(r)
  \/ Collect
  \/ Tick
  \/ Done

Spec == Init /\ [][Next]_vars

\* A request that has entered is run to its end: backends answer or time out,
\* and the runtime schedules every goroutine.
FairSpec == Spec /\ \A r \in Request : WF_vars(Proceeds(r))

-----------------------------------------------------------------------------
(* Properties.                                                             *)

\* The FIFO list enumerates the map, each key once, and the store never holds
\* more than maxEntries responses.
StoreIsBounded ==
  /\ TypeOK
  /\ IsInjective(order)
  /\ Range(order) = DOMAIN elems
  /\ Cardinality(DOMAIN elems) <= MaxEntries

\* At any moment a key is idle, in flight or answered, never two of them, and one
\* request at most is its leader: two double submits never both lead, whichever
\* way reserve, finishLeader and abortLeader interleave.
SingleFlight ==
  /\ DOMAIN inflight \cap DOMAIN elems = {}
  /\ \A p, q \in Request :
       /\ req[p].pc \in {"leading", "returned", "panicking"}
       /\ req[q].pc \in {"leading", "returned", "panicking"}
       /\ KeyOf(p) = KeyOf(q)
       => p = q

\* What is replayed to a request, from the store or by the leader it waited for, is
\* the answer a downstream call gave to a mutation with the same principal id, the
\* same method and path, the same Idempotency-Key and the same first 256 KiB of body
\* - however leaders panic and entries expire or are evicted meanwhile.  No more is
\* promised: a principal of another type with the same id, another query or a body
\* that differs only beyond the cap gets the same answer (idempotency.go:339-344
\* admits the last of these).
ReplaysOwnAnswer ==
  \A r \in Request : At(r, "replayed") =>
    LET c == req[r].call
        d == req[req[r].resp.by].call
    IN  /\ d.mutating
        /\ d.id = c.id /\ d.route = c.route /\ d.idem = c.idem /\ d.head = c.head

\* Once a response has been committed, no request leads a new downstream call for
\* its key before the response expires or is pushed out by newer ones.
RetriesAreReplayed ==
  [][\A r \in Request :
       (req'[r].pc = "leading" /\ req[r].pc # "leading")
       => LET c == last[KeyOf(r)]
          IN  c = None \/ c.evicted \/ now > c.expiresAt]_vars

\* No follower blocks forever on its leader, whatever the leader's downstream
\* call does (finishLeader and the deferred abortLeader both close done).
FollowersWake ==
  \A r \in Request : At(r, "waiting") ~> ~At(r, "waiting")
=============================================================================
