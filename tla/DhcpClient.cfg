SPECIFICATION Spec
CONSTANTS
  Server = {s1, s2}
  Nobody = Nobody
  All = All
  Xid = {x1, x2}
  NoXid = NoXid
  MaxRetries = 1
  MaxOffers = 2
SYMMETRY Symmetry
INVARIANTS Awake LeaseAskedFor Installed
CHECK_DEADLOCK FALSE
