\* Finding: the next pipeline starts before the world changes are applied.
CONSTANTS
  Turns = {t1, t2}
  Requests = {r1}
  Keys = {}
  NoKey = NoKey
  NoTurn = NoTurn
  NoRequest = NoRequest
  Operations <- SubmitOnly
  Clock = {}
  DeadlineHolds = TRUE
  MaxFaults = 0
  MaxCrashes = 0
SPECIFICATION Spec
SYMMETRY Symmetry
INVARIANTS
  HappensBefore
CHECK_DEADLOCK FALSE
