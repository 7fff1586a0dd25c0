\* Finding: two probes at the same time, as generation calls take up to 90 s.
CONSTANTS
  Calls = {c1, c2, c3}
  Threshold = 2
  Window = 2
  Cooldown = 1
  MaxCooldown = 10
  CallTimeout = 3
  MaxTrips = 5
SPECIFICATION Spec
SYMMETRY Symmetry
INVARIANTS
  OneProbe
CHECK_DEADLOCK FALSE
