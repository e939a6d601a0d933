SPECIFICATION Spec
CONSTANTS
  Client = {c1, c2}
  Nobody = Nobody
  minAddress = 1
  maxAddress = 2
  Nowhere = 0
  OfferTime = 1
  LeaseTime = 2
  MaxResponses = 2
SYMMETRY Symmetry
INVARIANTS TypeOK GrantExclusive RefusedOnlyWhenFull OneLeaseEach ResponsesFlow
CHECK_DEADLOCK FALSE
