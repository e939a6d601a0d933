SPECIFICATION FairSpec
CONSTANTS
  Batch = {b1, b2}
  Worker = {w1, w2}
  Client = {c1}
  Nobody = Nobody
  MaxConcurrentJobs = 1
  MaxBatchSize = 2
  Lengths = {1, 2}
  Outcomes = {"ERROR_UNKNOWN_KEY"}
INVARIANTS FailureReported
PROPERTIES EveryBatchAnswered StopEnds
CHECK_DEADLOCK FALSE
