---------------------------- MODULE DPoPReplay ----------------------------
(***************************************************************************)
(* internal/middleware/dpop.go, Validate, over the seen-proof cache of      *)
(* dpop_replay_cache.go: concurrent requests present DPoP proofs, each      *)
(* named by its jti; a proof is admitted once while it is fresh.            *)
(* Validate reads the clock for the freshness of iat, and AddIfAbsent reads *)
(* it again: time may pass in between.                                      *)
(***************************************************************************)
EXTENDS LRUCache

CONSTANTS
  Request,    \* validations in progress at once
  Iat,        \* Iat[j]: the iat claim of the proof with jti j
  Freshness,  \* v.iatFreshness
  MaxDelay    \* the most time that passes between Validate's two clock reads

\* What config.go 253-254 asks of the two settings and their defaults meet: a proof
\* dated Freshness in the future stays fresh for twice that.
ASSUME ReplayAssumption ==
  /\ Freshness \in Nat
  /\ MaxDelay \in Nat
  /\ Iat \in [Key -> Nat]
  /\ TTL >= 2 * Freshness

VARIABLES
  req,       \* the validations
  spent      \* history: the jtis added to the cache and not evicted, while live,
             \* by its capacity bound

replayVars == <<items, order, gen, req, spent>>

RequestState ==
  [pc : {"none", "begun", "fresh", "added", "accepted", "replay", "rejected"},
   jti : Key, checkedAt : Nat]

\* A slot in which no proof has been presented yet.
NoValidation == [pc |-> "none", jti |-> CHOOSE j \in Key : TRUE, checkedAt |-> 0]

ReplayTypeOK ==
  /\ CacheTypeOK({TRUE})
  /\ req \in [Request -> RequestState]
  /\ spent \subseteq Key

ReplayInit ==
  /\ CacheInit
  /\ req = [r \in Request |-> NoValidation]
  /\ spent = {}

At(r, phase) == req[r].pc = phase

IsFresh(j) == now - Iat[j] <= Freshness /\ Iat[j] - now <= Freshness

\* Validate begins on the proof j.
Present(r, j) ==
  /\ req[r].pc \in {"none", "accepted", "replay", "rejected"}
  /\ req' = [req EXCEPT ![r] = [pc |-> "begun", jti |-> j, checkedAt |-> 0]]
  /\ UNCHANGED <<cacheVars, spent>>

\* Validate, steps 1-5 (typ, alg, key, signature, thumbprint, htm, htu), a proof
\* that is not fresh, or one without a jti: rejected, the cache is not touched.
Reject(r) ==
  /\ At(r, "begun")
  /\ req' = [req EXCEPT ![r].pc = "rejected"]
  /\ UNCHANGED <<cacheVars, spent>>

\* Validate, step 6: the clock is read and the proof is fresh.
CheckFreshness(r) ==
  /\ At(r, "begun")
  /\ IsFresh(req[r].jti)
  /\ req' = [req EXCEPT ![r].pc = "fresh", ![r].checkedAt = now]
  /\ UNCHANGED <<cacheVars, spent>>

\* Validate, step 7: replay.Add.
Add(r) ==
  LET j == req[r].jti
      out == {k \in DOMAIN items : Live(k)} \ DOMAIN items'
  IN  /\ At(r, "fresh")
      /\ AddIfAbsent(j, TRUE)
      /\ \/ /\ Live(j)
            /\ req' = [req EXCEPT ![r].pc = "replay", ![r].checkedAt = 0]
            /\ UNCHANGED spent
         \/ /\ ~Live(j)
            /\ req' = [req EXCEPT ![r].pc = "added", ![r].checkedAt = 0]
            /\ spent' = (spent \cup {j}) \ out

\* Validate, step 8: the ath claim is absent or right, or it is wrong.
CheckAth(r, verdict) ==
  /\ At(r, "added")
  /\ req' = [req EXCEPT ![r].pc = verdict]
  /\ UNCHANGED <<cacheVars, spent>>

-----------------------------------------------------------------------------
(* Properties.                                                             *)

\* A proof is admitted once, whatever number of requests present it at the same
\* time or later: its entry does not expire while it is fresh, and only the capacity
\* bound lets it in again.  The one other way is the gap between the two clock reads
\* of Validate: the proof was fresh at the first, and at the second it is no longer.
AdmittedOnce ==
  [][\A r \in Request :
       At(r, "fresh") /\ req'[r].pc = "added" /\ req[r].jti \in spent =>
         now > Iat[req[r].jti] + Freshness]_replayVars
=============================================================================
