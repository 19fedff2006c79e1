\* Room for one response, a response that lives one tick.
CONSTANTS
  alice = alice  bob = bob  user = user  robot = robot
  i1 = i1  b1 = b1  long = long  other = other  post = post
  NoKey = NoKey  None = None
  Request = {r1, r2, r3}
  Call <- MCCall
  MaxEntries = 1
  TTL = 1
  MaxTime = 2
SPECIFICATION FairSpec
INVARIANTS
  StoreIsBounded
  SingleFlight
  ReplaysOwnAnswer
PROPERTIES
  RetriesAreReplayed
  FollowersWake
