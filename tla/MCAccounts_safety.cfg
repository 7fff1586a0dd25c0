\* Tokens: one session, three pairs, two handlers.  Account: two sessions.  Logins:
\* two at once, two attempts.  Erasure: one game and one failure.
CONSTANTS
  Players = {p}
  Emails = {}
  Sessions = {s1}
  Tokens = {t1, t2, t3}
  Requests = {r1, r2}
  MaxAttempts = 2
  Columns = {}
  MaxFaults = 1
  NoPlayer = NoPlayer
  NoSession = NoSession
  NoEmail = NoEmail
  Email = e
  Session = s2
  Spare = t3
  Games = {g1}
SPECIFICATION MCSpec
INVARIANTS
  OneLiveRefresh
  RevocationIsOutrunOnce
  GuessesAreBounded
PROPERTIES
  OnlyWorkUnderWayReturns
  LiveGameIsPurgedOnlyIfReopened
  RemovedIsPurged
CHECK_DEADLOCK FALSE
