SPECIFICATION Spec
CONSTANTS
  Batch = {b1, b2}
  Worker = {w1, w2}
  Client = {c1}
  Nobody = Nobody
  MaxConcurrentJobs = 2
  MaxBatchSize = 2
  Lengths = {0, 1, 2, 3}
  Outcomes = {"ERROR_NONE"}
SYMMETRY Symmetry
CHECK_DEADLOCK FALSE

INVARIANTS TypeOK JobLimit InOrder AnsweredInTime OneOwner NothingLost
PROPERTIES NothingScheduledAfterStop ImplementsService
