\* More keys than room, so that evictions happen; two times to live, so that
\* entries expire out of recency order.
CONSTANTS
  Key = {k1, k2, k3}
  Value = {a, b}
  MaxSize = 2
  TTL = 2
  CallerTTL <- MCCallerTTL
  MaxClock = 3
  MaxFlush = 1
SPECIFICATION CallsSpec
INVARIANTS
  ListMatchesMap
PROPERTIES
  EvictsLeastRecentlyUsed
  ImplementsTTLStore
