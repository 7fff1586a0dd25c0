\* Calls outlive the cooldown, as generation calls of 90 s do one of 30 s.  Breaker: three
\* calls, cooldowns of 1, 2 and 3.  Guarded: two permits and one outage after which the
\* provider answers.
CONSTANTS
  Calls = {c1, c2, c3}
  Threshold = 2
  Window = 2
  Cooldown = 1
  MaxCooldown = 3
  CallTimeout = 3
  MaxTrips = 4
  GuardedCalls = {g1, g2, g3}
  MaxConcurrent = 2
  QueueSize = 2
  GuardedCooldown = 1
  GuardedMaxCooldown = 2
  GuardedTimeout = 2
  GuardedTrips = 2
SPECIFICATION MCSpec
INVARIANTS
  HalfOpenIsProbed
  CountersFollowState
  ProbesAreSpaced
  IntrudersAreOld
  PermitsAreUsed
PROPERTIES
  OnlyProviderCallsTrip
  ServiceResumes
CHECK_DEADLOCK FALSE
