CONSTANTS
  k1 = k1  k2 = k2  alice = alice  bob = bob
  Key = {k1, k2}
  Subject = {alice, bob}
  SubjectOf <- MCSubjectOf
  Request = {r1}
  MaxSize = 1
  TTL = 1
  MaxChange = 1
  MaxGen = 1
  MaxTime = 0
SPECIFICATION Spec
INVARIANTS
  ReloadIsEffective
