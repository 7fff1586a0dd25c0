\* Submissions racing each other, stuck turns and a restart: three turns, so that
\* two requests may both try to replace a stuck one.
CONSTANTS
  Turns = {t1, t2, t3}
  Requests = {r1, r2}
  Keys = {}
  NoKey = NoKey
  NoTurn = NoTurn
  NoRequest = NoRequest
  Operations <- SubmitOnly
  Clock = {}
  DeadlineHolds = TRUE
  MaxFaults = 0
  MaxCrashes = 1
SPECIFICATION Spec
SYMMETRY Symmetry
INVARIANTS
  OneTurnInFlight
  TurnsNumbered
  RunningTurnsAreProcessing
PROPERTIES
  ImplementsLog
CHECK_DEADLOCK FALSE
