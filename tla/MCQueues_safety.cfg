\* Admission: a HIGH tier with two slots and the BEST_EFFORT tier; timeouts and
\* cancellations at any moment.  The system may stop when all slots are lost.
\* Semaphore: two permits, a queue of three and a call too many.
CONSTANTS
  Calls = {c1, c2, c3, c4, c5}
  Tiers <- BothTiers
  Concurrency = 2
  Backpressure = 2
  Drift = 1
  SemaphoreCalls = {s1, s2, s3, s4, s5, s6}
  MaxConcurrent = 2
  QueueSize = 3
SPECIFICATION MCSpec
INVARIANTS
  CapHolds
  QueueIsKept
  PermitsAndQueue
PROPERTIES
  QueuesMove
CHECK_DEADLOCK FALSE
