\* Long enough for two fetches a TTL apart, and for a set to go stale in between.
CONSTANTS
  Kid = {a, b}
  NoKid = NoKid
  NoHolder = NoHolder
  Verifier = {v1, v2}
  TTL = 1
  FetchTimeout = 1
  MaxTime = 3
  MaxRotation = 1
SPECIFICATION FairKeysSpec
INVARIANTS
  RetiredKeysExpire
  ResolvedFromFreshSet
  NewKeysAreSeen
PROPERTIES
  FetchesAreShared
  ResolveTerminates
