SPECIFICATION Spec
CONSTANTS
  Batch = {b1, b2, b3}
  Worker = {w1, w2}
  Client = {c1, c2}
  Nobody = Nobody
  MaxConcurrentJobs = 2
  MaxBatchSize = 1
  Lengths = {1}
  Outcomes = {"ERROR_NONE"}
SYMMETRY Symmetry
INVARIANTS ScanStaysInside
CHECK_DEADLOCK FALSE
