\* Buffer: two streams, three events at most; it may expire at any quiet moment.
\* Streams: two tabs and two turns, or one tab with one lost connection or failed call.
CONSTANTS
  Emitters = {e1, e2}
  Readers = {r1}
  MaxEvents = 3
  MaxId = 5
  Clients = {c1, c2}
  MaxTurns = 2
  Rounds = 1
  MaxLosses = 1
  Tab = c1
SPECIFICATION MCSpec
INVARIANTS
  BufferIsSound
  ListenerIsTold
PROPERTIES
  ReplayHasNoHole
  OutcomeArrives
CHECK_DEADLOCK FALSE
