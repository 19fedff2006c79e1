---------------------------- MODULE DecisionCache ----------------------------
(***************************************************************************)
(* The authz decision cache of one gateway replica and everything that      *)
(* fills or invalidates it:                                                 *)
(*   - requests running AuthzMiddleware.decide (catalog lookup, generation  *)
(*     snapshot, cache lookup, IAM Check, epoch-guarded store), and the     *)
(*     self-flush after a proxied grant mutation (MaybeFlushOnMutation);    *)
(*   - SubjectChangeWatcher polling IAM's subject-change outbox;            *)
(*   - InternalAuthzCacheServer.InvalidateSubject, called by IAM's drainer; *)
(*   - AuthzMiddleware.Reload on SIGHUP.                                    *)
(* A decision (allow or deny) is abstracted to what decides whether it is   *)
(* stale: the IAM revision and the catalog version it was computed from.    *)
(* IAM is external: it is the sequence of grant changes it has committed.   *)
(***************************************************************************)
EXTENDS LRUCache

CONSTANTS
  Subject,     \* FGA subjects
  SubjectOf,   \* SubjectOf[k]: the subject prefix of cache key k
  Request,     \* requests in flight at once
  MaxChange,   \* bound: grant changes IAM commits
  MaxGen,      \* bound: beyond this generation no reload and no repeated push
  MaxTime      \* bound: the clock stops here

ASSUME DecisionAssumption ==
  /\ Key # {}
  /\ SubjectOf \in [Key -> Subject]
  /\ MaxChange \in Nat
  /\ MaxGen \in Nat
  /\ MaxTime \in Nat

VARIABLES
  log,       \* IAM subject_change_outbox: log[id] is the subject change id altered
  accepted,  \* IAM: subjects of acknowledged grant operations not applied yet
  sent,      \* IAM: outbox ids the push drainer has marked sent
  catalog,   \* version of the permission catalog in force
  reloading, \* Reload has swapped the catalog and not yet flushed
  req,       \* the requests
  watcher,   \* the SubjectChangeWatcher: cursor, primed, and the poll reply in flight
  \* History.
  floor,     \* floor[s]: IAM's revision at the last invalidation that covered s
  own,       \* change ids this replica proxied, applied when it answered 2xx
  flushedCat \* catalog version at the last completed Reload

iamVars     == <<log, accepted, sent>>
configVars  == <<catalog, reloading, flushedCat>>
historyVars == <<floor, own>>
vars == <<items, order, gen, now, log, accepted, sent, catalog, reloading,
          req, watcher, floor, own, flushedCat>>

Revision == Len(log)

Decision == [asOf : Nat, cat : Nat]

KeysOf(s) == {k \in Key : SubjectOf[k] = s}

Phase == {"idle", "resolved", "snapped", "checking", "answered", "decided", "proxied"}

RequestState ==
  [pc : Phase, key : Key, snap : Nat, dec : Decision, must : Nat,
   target : Subject, change : Nat]

TypeOK ==
  /\ CacheTypeOK(Decision)
  /\ log \in Seq(Subject)
  /\ accepted \subseteq Subject
  /\ sent \subseteq 1..Revision
  /\ catalog \in Nat /\ flushedCat \in Nat
  /\ reloading \in BOOLEAN
  /\ req \in [Request -> RequestState]
  /\ watcher \in [cursor : Nat, primed : BOOLEAN, primedAt : Nat,
                  polling : BOOLEAN, head : Nat]
  /\ floor \in [Subject -> Nat]
  /\ own \subseteq 1..Revision

\* A request slot that is free (its other fields carry nothing).
Idle ==
  [pc |-> "idle", key |-> CHOOSE k \in Key : TRUE, snap |-> 0,
   dec |-> [asOf |-> 0, cat |-> 0], must |-> 0,
   target |-> CHOOSE s \in Subject : TRUE, change |-> 0]

Init ==
  /\ CacheInit
  /\ log = <<>> /\ accepted = {} /\ sent = {}
  /\ catalog = 0 /\ reloading = FALSE /\ flushedCat = 0
  /\ req = [r \in Request |-> Idle]
  /\ watcher = [cursor |-> 0, primed |-> FALSE, primedAt |-> 0,
                polling |-> FALSE, head |-> 0]
  /\ floor = [s \in Subject |-> 0]
  /\ own = {}

-----------------------------------------------------------------------------
(* Requests.                                                               *)

At(r, phase) == req[r].pc = phase

\* decide, phases 1-5: the catalog entry is read and the cache key is fixed.
Resolve(r, k) ==
  /\ At(r, "idle")
  /\ req' = [req EXCEPT ![r] = [Idle EXCEPT !.pc = "resolved", !.key = k,
                                            !.dec = [asOf |-> 0, cat |-> catalog],
                                            !.must = floor[SubjectOf[k]]]]
  /\ UNCHANGED <<cacheVars, now, iamVars, configVars, watcher, historyVars>>

\* phaseCheck: cacheGen := m.cache.generation(), before the cache is read.
SnapshotGeneration(r) ==
  /\ At(r, "resolved")
  /\ req' = [req EXCEPT ![r].pc = "snapped", ![r].snap = gen]
  /\ UNCHANGED <<cacheVars, now, iamVars, configVars, watcher, historyVars>>

\* The request's outcome is the decision d; nothing else of it is used again.
Decided(r, d) ==
  [Idle EXCEPT !.pc = "decided", !.dec = d, !.must = req[r].must]

\* phaseCheck: m.cache.get; a hit is the decision, a miss goes to IAM.
LookUp(r) ==
  LET k == req[r].key
  IN  /\ At(r, "snapped")
      /\ Get(k)
      /\ \/ /\ Live(k)
            /\ req' = [req EXCEPT ![r] = Decided(r, items[k].value)]
         \/ /\ ~Live(k)
            /\ req' = [req EXCEPT ![r].pc = "checking"]
      /\ UNCHANGED <<now, iamVars, configVars, watcher, historyVars>>

\* IAM evaluates the Check against its current grants; the answer (allowed,
\* denied, or a PermissionDenied status) is on its way.
Check(r) ==
  /\ At(r, "checking")
  /\ req' = [req EXCEPT ![r].pc = "answered", ![r].dec.asOf = Revision]
  /\ UNCHANGED <<cacheVars, now, iamVars, configVars, watcher, historyVars>>

\* Any other Check error: outcomeError, nothing is cached.
CheckFails(r) ==
  /\ At(r, "checking")
  /\ req' = [req EXCEPT ![r] = Idle]
  /\ UNCHANGED <<cacheVars, now, iamVars, configVars, watcher, historyVars>>

\* phaseCheck: putIfGen with the snapshot, then the decision is returned.
StoreDecision(r) ==
  /\ At(r, "answered")
  /\ PutIfGen(req[r].key, req[r].dec, req[r].snap)
  /\ req' = [req EXCEPT ![r] = Decided(r, req[r].dec)]
  /\ UNCHANGED <<now, iamVars, configVars, watcher, historyVars>>

\* The request was denied, or allowed and proxied to a backend RPC that changes
\* no grants: MaybeFlushOnMutation does nothing.
Finish(r) ==
  /\ At(r, "decided")
  /\ req' = [req EXCEPT ![r] = Idle]
  /\ UNCHANGED <<cacheVars, now, iamVars, configVars, watcher, historyVars>>

\* Operations this replica forwarded and IAM has not applied.
Outstanding == {r \in Request : At(r, "proxied") /\ req[r].change = 0}

\* The request was allowed and is AccessBindingService/Create or /Delete: the
\* handler forwards it, changing the grants of s.
ForwardMutation(r, s) ==
  /\ At(r, "decided")
  /\ Revision + Cardinality(accepted) + Cardinality(Outstanding) < MaxChange
  /\ s \notin accepted
  /\ req' = [req EXCEPT ![r] = [Idle EXCEPT !.pc = "proxied", !.target = s]]
  /\ UNCHANGED <<cacheVars, now, iamVars, configVars, watcher, historyVars>>

\* IAM applies the forwarded mutation while the call is still open.
ApplyForwarded(r) ==
  /\ At(r, "proxied") /\ req[r].change = 0
  /\ log' = Append(log, req[r].target)
  /\ req' = [req EXCEPT ![r].change = Revision + 1]
  /\ UNCHANGED <<cacheVars, now, accepted, sent, configVars, watcher, historyVars>>

\* Mutant: no flush.
NoFlush == UNCHANGED <<cacheVars, floor>>

\* Every cached decision is dropped: floor records the revision this covers.
FlushAll ==
  /\ Invalidate
  /\ floor' = [s \in Subject |-> Revision]

\* The mutation answered 2xx on the REST (or unary) gate: MaybeFlushOnMutation
\* flushes before the gate returns.  The mutation is an asynchronous Operation,
\* so IAM may still have to apply it.
RespondOK(r) ==
  /\ At(r, "proxied")
  /\ FlushAll
  /\ req' = [req EXCEPT ![r] = Idle]
  /\ \/ /\ req[r].change # 0
        /\ own' = own \cup {req[r].change}
        /\ UNCHANGED accepted
     \/ /\ req[r].change = 0
        /\ accepted' = accepted \cup {req[r].target}
        /\ UNCHANGED own
  /\ UNCHANGED <<now, log, sent, configVars, watcher>>

\* No flush: the mutation did not answer 2xx (whether or not IAM applied it), or it
\* came over gRPC, where the proxied call passes the Stream gate, which never calls
\* MaybeFlushOnMutation.
RespondNoFlush(r) ==
  /\ At(r, "proxied")
  /\ req' = [req EXCEPT ![r] = Idle]
  /\ UNCHANGED <<cacheVars, now, iamVars, configVars, watcher, historyVars>>

-----------------------------------------------------------------------------
(* IAM.                                                                    *)

\* A grant changes through another replica or another client of IAM.
ChangeElsewhere(s) ==
  /\ Revision + Cardinality(accepted) + Cardinality(Outstanding) < MaxChange
  /\ log' = Append(log, s)
  /\ UNCHANGED <<cacheVars, now, accepted, sent, configVars, req, watcher,
                 historyVars>>

\* IAM's worker applies an operation this replica has already answered for.
ApplyAccepted(s) ==
  /\ s \in accepted
  /\ accepted' = accepted \ {s}
  /\ log' = Append(log, s)
  /\ UNCHANGED <<cacheVars, now, sent, configVars, req, watcher, floor, own>>

\* InternalAuthzCacheServer.InvalidateSubject for outbox row i.  It answers
\* NotFound when nothing was dropped and OK otherwise; the drainer marks the row
\* sent on either.
InvalidateSubject(i) ==
  /\ InvalidateWhere(KeysOf(log[i]))
  /\ floor' = [floor EXCEPT ![log[i]] = Revision]

PushInvalidate(i) ==
  /\ i \in DOMAIN log \ sent
  /\ InvalidateSubject(i)
  /\ sent' = sent \cup {i}
  /\ UNCHANGED <<now, log, accepted, configVars, req, watcher, own>>

\* The same call, but the drainer never sees the reply and will call again.
PushReplyLost(i) ==
  /\ i \in DOMAIN log \ sent
  /\ gen < MaxGen
  /\ InvalidateSubject(i)
  /\ UNCHANGED <<now, log, accepted, sent, configVars, req, watcher, own>>

-----------------------------------------------------------------------------
(* The subject-change watcher.                                             *)

\* tick: PollSubjectChanges(cursor) is answered with the outbox as it is now.
PollRead ==
  /\ ~watcher.polling
  /\ watcher' = [watcher EXCEPT !.polling = TRUE, !.head = Revision]
  /\ UNCHANGED <<cacheVars, now, iamVars, configVars, req, historyVars>>

\* tick: the poll failed or timed out; the next tick polls again.
PollFails ==
  /\ watcher.polling
  /\ watcher' = [watcher EXCEPT !.polling = FALSE, !.head = 0]
  /\ UNCHANGED <<cacheVars, now, iamVars, configVars, req, historyVars>>

\* tick, the first successful poll: adopt the head as the cursor, do not flush.
PollPrime ==
  /\ watcher.polling /\ ~watcher.primed
  /\ watcher' = [watcher EXCEPT !.polling = FALSE, !.primed = TRUE, !.head = 0,
                                !.primedAt = watcher.head, !.cursor = watcher.head]
  /\ UNCHANGED <<cacheVars, now, iamVars, configVars, req, historyVars>>

\* tick, later polls: nothing new.
PollEmpty ==
  /\ watcher.polling /\ watcher.primed /\ watcher.head <= watcher.cursor
  /\ watcher' = [watcher EXCEPT !.polling = FALSE, !.head = 0]
  /\ UNCHANGED <<cacheVars, now, iamVars, configVars, req, historyVars>>

\* Mutant: the cursor advances without a flush.
PollAdvance ==
  /\ watcher.polling /\ watcher.primed /\ watcher.head > watcher.cursor
  /\ watcher' = [watcher EXCEPT !.polling = FALSE, !.head = 0,
                                !.cursor = watcher.head]
  /\ UNCHANGED <<cacheVars, now, iamVars, configVars, req, historyVars>>

\* tick, later polls: advance the cursor to the head and flush.
PollFlush ==
  /\ watcher.polling /\ watcher.primed /\ watcher.head > watcher.cursor
  /\ watcher' = [watcher EXCEPT !.polling = FALSE, !.head = 0,
                                !.cursor = watcher.head]
  /\ FlushAll
  /\ UNCHANGED <<now, iamVars, configVars, req, own>>

-----------------------------------------------------------------------------
(* Reload (SIGHUP) and time.                                               *)

\* Reload re-reads the catalog from disk (a failed read keeps the old one) ...
ReloadCatalog ==
  /\ ~reloading /\ gen < MaxGen
  /\ reloading' = TRUE
  /\ catalog' \in {catalog, catalog + 1}
  /\ UNCHANGED <<cacheVars, now, iamVars, flushedCat, req, watcher, historyVars>>

\* ... and then flushes the decision cache.
ReloadFlush ==
  /\ reloading
  /\ FlushAll
  /\ reloading' = FALSE
  /\ flushedCat' = catalog
  /\ UNCHANGED <<now, iamVars, catalog, req, watcher, own>>

Tick ==
  /\ now < MaxTime
  /\ now' = now + 1
  /\ UNCHANGED <<cacheVars, iamVars, configVars, req, watcher, historyVars>>

RequestStep(r) ==
  \/ \E k \in Key : Resolve(r, k)
  \/ SnapshotGeneration(r) \/ LookUp(r) \/ Check(r) \/ CheckFails(r)
  \/ StoreDecision(r) \/ Finish(r)
  \/ \E s \in Subject : ForwardMutation(r, s)
  \/ ApplyForwarded(r) \/ RespondOK(r) \/ RespondNoFlush(r)

IAMStep ==
  \/ \E s \in Subject : ChangeElsewhere(s) \/ ApplyAccepted(s)
  \/ \E i \in DOMAIN log : PushInvalidate(i) \/ PushReplyLost(i)

WatcherStep == PollRead \/ PollFails \/ PollPrime \/ PollEmpty \/ PollFlush

Next ==
  \/ \E r \in Request : RequestStep(r)
  \/ IAMStep
  \/ WatcherStep
  \/ ReloadCatalog \/ ReloadFlush
  \/ Tick

Spec == Init /\ [][Next]_vars

\* The watcher's goroutine ticks for as long as the process lives, and IAM
\* answers its polls again and again; nothing else is assumed to happen.
PollApply == PollPrime \/ PollEmpty \/ PollFlush

FairSpec == Spec /\ WF_vars(PollRead) /\ SF_vars(PollApply)

-----------------------------------------------------------------------------
(* Properties.                                                             *)

\* No cached decision is older than the last invalidation that covered its
\* subject: a Check that IAM evaluated before a revocation is never stored after
\* the revocation's invalidation, whichever way the steps interleave (the
\* generation guard of putIfGen).
NoStaleSurvivor ==
  \A k \in DOMAIN items : items[k].value.asOf >= floor[SubjectOf[k]]

\* A request that starts after an invalidation covering its subject is decided
\* on grants at least as new as that invalidation, from the cache or from IAM.
DecisionsAreCurrent ==
  \A r \in Request : At(r, "decided") => req[r].dec.asOf >= req[r].must

\* The drainer stops retrying a row once InvalidateSubject answered OK or
\* NotFound ("marks sent_at; row is not retried"), so from then on no cached
\* decision of that subject may predate the change - also when NotFound was
\* answered while a Check was in flight.
SentRowsAreSeen ==
  \A i \in sent : \A k \in DOMAIN items :
    SubjectOf[k] = log[i] => items[k].value.asOf >= i

\* The poll loop never comes back to a change it moved its cursor past, so from
\* then on no cached decision may predate it (the jump to the head on the first
\* poll, which does not flush, is the exception).
PolledChangesAreSeen ==
  watcher.cursor > watcher.primedAt =>
    \A k \in DOMAIN items : items[k].value.asOf >= watcher.cursor

\* A grant mutation that IAM had applied when this replica answered it is seen
\* by every decision this replica caches from then on (the self-flush), also by one
\* that another request had asked for before the answer and stores after it.
OwnMutationsAreSeen ==
  \A i \in own : \A k \in DOMAIN items :
    SubjectOf[k] = log[i] => items[k].value.asOf >= i

\* Once the watcher has primed, every later grant change, whoever made it, is
\* followed by an invalidation of this replica's cache, although polls may fail.
ChangesConverge ==
  \A i \in 1..MaxChange :
    (watcher.primed /\ watcher.cursor < i /\ i <= Revision)
      ~> (\A s \in Subject : floor[s] >= i)

-----------------------------------------------------------------------------
(* What a comment in the code says, and the code does not ensure.          *)

\* Reload "flushes the decision cache so the next request re-evaluates against
\* the fresh config": after it, no cached decision comes from the old catalog.
ReloadIsEffective ==
  \A k \in DOMAIN items : items[k].value.cat >= flushedCat
=============================================================================
