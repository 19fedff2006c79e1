------------------------------ MODULE TTLStore ------------------------------
(***************************************************************************)
(* What the users of internal/lrucache rely on, without the list: a bounded *)
(* store that may forget any entry at any moment, but                       *)
(*   - never changes or extends an entry except by storing it again,        *)
(*   - never holds more than MaxSize entries, and                           *)
(*   - moves to a new epoch whenever a class of keys is invalidated, at     *)
(*     which moment it holds no key of that class.                          *)
(***************************************************************************)
EXTENDS Integers, FiniteSets, Functions

CONSTANTS Key, Value, Lifetime, MaxSize

VARIABLES content, epoch, time

storeVars == <<content, epoch, time>>

StoreInit ==
  /\ content = [k \in {} |-> k]
  /\ epoch = 0
  /\ time = 0

\* Entries may be lost: evicted, expired or dropped one by one.
Forget ==
  /\ \E K \in SUBSET DOMAIN content : content' = Restrict(content, K)
  /\ UNCHANGED <<epoch, time>>

\* k is stored with a deadline that counts from now; other entries may be lost.
Store(k, v, ttl) ==
  /\ \E K \in SUBSET (DOMAIN content \ {k}) :
       /\ Cardinality(K \cup {k}) <= MaxSize
       /\ content' = [j \in K \cup {k} |->
                        IF j = k THEN [value |-> v, expiresAt |-> time + ttl]
                                 ELSE content[j]]
  /\ UNCHANGED <<epoch, time>>

\* The class K of keys is invalidated, all of it, under a new epoch.
NewEpoch(K) ==
  /\ content' = Restrict(content, DOMAIN content \ K)
  /\ epoch' = epoch + 1
  /\ UNCHANGED time

TimePasses ==
  /\ time' = time + 1
  /\ UNCHANGED <<content, epoch>>

StoreNext ==
  \/ Forget
  \/ \E k \in Key, v \in Value, ttl \in Lifetime : Store(k, v, ttl)
  \/ \E K \in SUBSET Key : NewEpoch(K)
  \/ TimePasses

StoreSpec == StoreInit /\ [][StoreNext]_storeVars
=============================================================================
