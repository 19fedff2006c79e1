---------------------------- MODULE MCIdempotency ----------------------------
(* Three requests among calls that differ in one part of the fingerprint.  *)
EXTENDS Idempotency

CONSTANTS alice, bob, user, robot, i1, b1, long, other, post

Base == [mutating |-> TRUE, type |-> user, id |-> alice, route |-> post, query |-> NoKey,
         idem |-> i1, head |-> b1, tail |-> NoKey]

\* The same key sent by another principal; by a principal of another type with the same
\* id, another query and a body that differs beyond the cap; and a call without a key.
MCCall ==
  {Base, [Base EXCEPT !.id = bob],
   [Base EXCEPT !.type = robot, !.query = other, !.tail = long],
   [Base EXCEPT !.idem = NoKey]}
=============================================================================
