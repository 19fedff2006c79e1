\* j1 is fresh from 0 to 2, when the entry of its first use is at its deadline, and may
\* still be added at 3.  Room for one jti, so that capacity evicts.  An answer fetched
\* and a token revoked at 0 is late at 3, a tick before the token expires.
CONSTANTS
  j1 = j1  j2 = j2
  Key = {j1, j2}
  MaxSize = 1
  TTL = 2
  Request = {r1, r2}
  Iat <- MCIat
  Freshness = 1
  MaxDelay = 1
  Token <- MCToken
  Call <- MCCall
  IntroMax = 1
  IntroTTL = 1
  Skew = 1
  Strict = TRUE
  None = None
  MaxTime = 4
SPECIFICATION Spec
SYMMETRY RequestSymmetry
PROPERTIES
  AdmittedOnce
  RevokedTokensExpire
  BoundTokensAreProven
