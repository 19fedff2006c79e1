\* Answers are used one TTL and one round trip after the end at most: an end at 0 is
\* late from 3 on.
CONSTANTS
  s1 = s1
  Request = {r1, r2}
  Config <- MCConfig
  Call <- MCCall
  ExternalId = {"alice", "bob"}
  Session = {s1}
  IdentityOf <- MCIdentityOf
  HasEmail <- MCHasEmail
  SessionMax = 1
  SessionTTL = 1
  NegativeTTL = 1
  SubjectMax = 1
  SubjectTTL = 1
  Retries = 2
  MaxDelay = 1
  None = None
  MaxTime = 3
  MaxEnd = 0
SPECIFICATION Spec
SYMMETRY RequestSymmetry
PROPERTIES
  IdentityIsEstablished
  EndedIdentitiesExpire
