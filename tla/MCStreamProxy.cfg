\* Two frames each way: enough to reorder, lose or repeat one.
CONSTANTS
  MaxRequests = 2
  MaxResponses = 2
SPECIFICATION FairStreamSpec
INVARIANTS
  RelayIsTransparent
  ResultIsComplete
PROPERTIES
  NoGoroutineLeak
  HalfCloseEndsStream
