\* One request in flight, which is enough to race with every way of invalidation,
\* and two changes, so that rows are pushed out of order and a change falls between
\* two polls; long enough for an entry to expire.
CONSTANTS
  k1 = k1  k2 = k2  alice = alice  bob = bob
  Key = {k1}
  Subject = {alice}
  SubjectOf <- OneSubjectOf
  Request = {r1}
  MaxSize = 1
  TTL = 1
  MaxChange = 2
  MaxGen = 1
  MaxTime = 1
SPECIFICATION FairSpec
INVARIANTS
  NoStaleSurvivor
  DecisionsAreCurrent
  SentRowsAreSeen
  PolledChangesAreSeen
  OwnMutationsAreSeen
PROPERTIES
  ChangesConverge
