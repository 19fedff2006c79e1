------------------------------ MODULE KeyList ------------------------------
(***************************************************************************)
(* container/list as the gateway's caches use it: a list of keys in which   *)
(* the map finds the element of a key.  A list is the sequence of its keys. *)
(***************************************************************************)
EXTENDS Integers, Sequences, FiniteSets, SequencesExt

\* list.Remove(el) for the element of k: nothing when it is not in the list.
Without(list, k) ==
  IF k \in Range(list)
    THEN RemoveAt(list, CHOOSE i \in DOMAIN list : list[i] = k)
    ELSE list

\* list.MoveToFront(el) for the element of k.
MovedToFront(list, k) == <<k>> \o Without(list, k)

\* What is left of the list when the elements of the keys K have been removed:
\* the other keys, in the order they had.  (A set with one member.)
Kept(list, K) ==
  LET kept == Range(list) \ K
  IN  {s \in [1..Cardinality(kept) -> kept] :
         /\ Range(s) = kept
         /\ \A i, j \in DOMAIN s :
              i < j => \E p, q \in DOMAIN list :
                         p < q /\ list[p] = s[i] /\ list[q] = s[j]}
=============================================================================
