CONSTANTS
  MaxRequests = 1
  MaxResponses = 1
SPECIFICATION StreamSpec
INVARIANTS
  StatusIsForwarded
