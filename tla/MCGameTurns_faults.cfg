\* Two failures, a restart and retried submissions: does every turn settle?
CONSTANTS
  Turns = {t1, t2}
  Requests = {r1}
  Keys = {k1}
  NoKey = NoKey
  NoTurn = NoTurn
  NoRequest = NoRequest
  Operations <- SubmitOnly
  Clock = {}
  DeadlineHolds = TRUE
  MaxFaults = 2
  MaxCrashes = 1
SPECIFICATION FairSpec
INVARIANTS
  KeysUnique
PROPERTIES
  TurnsSettle
CHECK_DEADLOCK FALSE
