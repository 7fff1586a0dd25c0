\* Submissions, resumptions and lifecycle actions of two clients, no failure.
CONSTANTS
  Turns = {t1, t2}
  Requests = {r1, r2}
  Keys = {}
  NoKey = NoKey
  NoTurn = NoTurn
  NoRequest = NoRequest
  Operations <- AllOperations
  Clock <- AllClocks
  DeadlineHolds = TRUE
  MaxFaults = 0
  MaxCrashes = 0
SPECIFICATION Spec
SYMMETRY Symmetry
INVARIANTS
  PlayedIsCounted
CHECK_DEADLOCK FALSE
