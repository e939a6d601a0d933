SPECIFICATION Spec
CONSTANTS
  Batch = {b1}
  Worker = {w1}
  Client = {c1}
  Nobody = Nobody
  MaxConcurrentJobs = 1
  MaxBatchSize = 1
  Lengths = {1}
  Outcomes = {"ERROR_NONE"}
INVARIANTS SuccessIsAResult
CHECK_DEADLOCK FALSE
