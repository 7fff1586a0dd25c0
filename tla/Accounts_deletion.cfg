\* One anonymous player, one session.
CONSTANTS
  Players = {p}
  Emails = {}
  Sessions = {s1}
  Tokens = {t1, t2}
  Requests = {r1}
  MaxAttempts = 1
  Columns = {}
  MaxFaults = 0
  NoPlayer = NoPlayer
  NoSession = NoSession
  NoEmail = NoEmail
SPECIFICATION Spec
INVARIANT DeletionEndsSessions
CHECK_DEADLOCK FALSE
