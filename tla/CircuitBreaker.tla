--------------------------- MODULE CircuitBreaker ---------------------------
(***************************************************************************)
(* resilience/circuit_breaker.py: one breaker and the calls that enter and *)
(* leave it.  The body of `async with self._lock' never awaits, so entering*)
(* and leaving are atomic steps; a call may take up to CallTimeout between *)
(* them, and the breaker may have changed state any number of times.       *)
(*                                                                         *)
(* Time passes in ticks.  The deque of failures is represented by how many *)
(* there are of every age in the window (older ones are never counted) and *)
(* _opened_at by the age of the opening; numbers beyond the largest one the*)
(* code compares them with are not told apart, so no clock is needed.      *)
(***************************************************************************)
EXTENDS Naturals, FiniteSets

CONSTANTS
  Calls,        \* the calls that may be in progress at the same time
  Threshold,    \* failure_threshold
  Window,       \* window_seconds
  Cooldown,     \* cooldown_seconds
  MaxCooldown,  \* max_cooldown_seconds
  CallTimeout,  \* the caller cancels a call of this age
  MaxTrips      \* bound: consecutive trips are counted up to here

ASSUME BreakerAssumption ==
  /\ Threshold \in Nat \ {0} /\ Window \in Nat
  /\ Cooldown \in Nat \ {0} /\ MaxCooldown \in Nat /\ Cooldown <= MaxCooldown
  /\ CallTimeout \in Nat
  /\ MaxTrips \in Nat /\ MaxTrips >= 2
ASSUME CallsAssumption == IsFiniteSet(Calls)

VARIABLES
  state,     \* _state
  failures,  \* _failures: how many there are of every age, up to Threshold
  openFor,   \* time since _opened_at, up to MaxCooldown
  trips,     \* _consecutive_trips, up to MaxTrips
  cooldown,  \* _current_cooldown
  probe,     \* _probe_in_flight
  call,      \* the calls between __aenter__ and __aexit__
  healthy    \* from now on the service answers every call

vars == <<state, failures, openFor, trips, cooldown, probe, call, healthy>>

CircuitState == {"closed", "open", "half_open"}

NoCall == [pc |-> "out", age |-> 0, probing |-> FALSE]
InFlight == {c \in Calls : call[c].pc = "in"}
\* The calls that were admitted as the probe of a half-open circuit.
Probes == {c \in InFlight : call[c].probing}

Least(a, b) == IF a < b THEN a ELSE b

NoFailures == [age \in 0 .. Window |-> 0]

Init ==
  /\ state = "closed" /\ failures = NoFailures /\ openFor = 0
  /\ trips = 0 /\ cooldown = Cooldown /\ probe = FALSE
  /\ call = [c \in Calls |-> NoCall]
  /\ healthy = FALSE

----------------------------------------------------------------------------
(* __aenter__                                                              *)

CooldownElapsed_Unchecked == TRUE
CooldownElapsed == openFor >= cooldown

Begin(c, probing) ==
  call' = [call EXCEPT ![c] = [pc |-> "in", age |-> 0, probing |-> probing]]

EnterClosed(c) ==
  /\ c \notin InFlight /\ state = "closed"
  /\ Begin(c, FALSE)
  /\ UNCHANGED <<state, failures, openFor, trips, cooldown, probe, healthy>>

\* Only one probe at a time -- others fail fast.
MayProbe_Always ==
  state = "half_open" \/ (state = "open" /\ CooldownElapsed)
MayProbe ==
  /\ state = "half_open" \/ (state = "open" /\ CooldownElapsed)
  /\ ~probe

EnterProbe(c) ==
  /\ c \notin InFlight /\ MayProbe
  /\ state' = "half_open" /\ probe' = TRUE
  /\ Begin(c, TRUE)
  /\ UNCHANGED <<failures, openFor, trips, cooldown, healthy>>

\* A call that may not enter gets the fail-fast error and changes nothing.
FailsFast == state # "closed" /\ ~MayProbe

----------------------------------------------------------------------------
(* __aexit__                                                               *)

Recorded == [failures EXCEPT ![0] = Least(@ + 1, Threshold)]
\* How many there are up to an age, and in the window.
Upto(fs) ==
  LET upto[age \in 0 .. Window] == IF age = 0 THEN fs[0] ELSE upto[age - 1] + fs[age] IN upto
WindowFailures(fs) == Upto(fs)[Window]

\* _trip
Trip ==
  /\ state' = "open" /\ openFor' = 0
  /\ trips' = Least(trips + 1, MaxTrips)
  /\ cooldown' = IF trips >= 1 THEN Least(2 * cooldown, MaxCooldown) ELSE cooldown

End(c) == c \in InFlight /\ call' = [call EXCEPT ![c] = NoCall]
ClearProbe == probe' = (probe /\ state # "half_open")

\* A call ends with a counted exception.
ExitFailed_NoTrip(c) ==
  /\ End(c) /\ ClearProbe
  /\ failures' = Recorded
  /\ IF state = "closed" /\ WindowFailures(Recorded) >= Threshold
       THEN Trip
       ELSE UNCHANGED <<state, openFor, trips, cooldown>>
  /\ UNCHANGED healthy
ExitFailed(c) ==
  /\ End(c) /\ ClearProbe
  /\ failures' = Recorded
  /\ IF \/ state = "half_open"
        \/ state = "closed" /\ WindowFailures(Recorded) >= Threshold
       THEN Trip
       ELSE UNCHANGED <<state, openFor, trips, cooldown>>
  /\ UNCHANGED healthy

\* A call ends without one: it closes a half-open circuit, whichever it is.
ExitOk_TripsKept(c) ==
  /\ End(c) /\ ClearProbe
  /\ IF state = "half_open"
       THEN /\ state' = "closed" /\ failures' = NoFailures
            /\ cooldown' = Cooldown /\ UNCHANGED trips
       ELSE UNCHANGED <<state, failures, trips, cooldown>>
  /\ UNCHANGED <<openFor, healthy>>
ExitOk(c) ==
  /\ End(c) /\ ClearProbe
  /\ IF state = "half_open"
       THEN /\ state' = "closed" /\ failures' = NoFailures
            /\ trips' = 0 /\ cooldown' = Cooldown
       ELSE UNCHANGED <<state, failures, trips, cooldown>>
  /\ UNCHANGED <<openFor, healthy>>

----------------------------------------------------------------------------
(* The environment: time, which no call outlives its timeout in, and the   *)
(* service, which recovers for good at some time.                          *)

Tick ==
  /\ \A c \in InFlight : call[c].age < CallTimeout
  /\ openFor' = IF state = "open" THEN Least(openFor + 1, MaxCooldown) ELSE openFor
  /\ failures' = [age \in 0 .. Window |-> IF age = 0 THEN 0 ELSE failures[age - 1]]
  /\ call' = [c \in Calls |-> IF c \in InFlight THEN [call[c] EXCEPT !.age = @ + 1]
                              ELSE call[c]]
  /\ UNCHANGED <<state, trips, cooldown, probe, healthy>>

ServiceRecovers ==
  /\ healthy' = TRUE
  /\ UNCHANGED <<state, failures, openFor, trips, cooldown, probe, call>>

Enter(c) == EnterClosed(c) \/ EnterProbe(c)
Fails(c) == ~healthy /\ ExitFailed(c)

Next ==
  \/ \E c \in Calls : Enter(c) \/ Fails(c) \/ ExitOk(c)
  \/ Tick \/ ServiceRecovers

Spec == Init /\ [][Next]_vars

----------------------------------------------------------------------------
(* Properties                                                              *)

CallState == [pc: {"out", "in"}, age: 0 .. CallTimeout, probing: BOOLEAN]

\* Every variable has its type.
TypeOK ==
  /\ state \in CircuitState
  /\ failures \in [0 .. Window -> 0 .. Threshold]
  /\ openFor \in 0 .. MaxCooldown
  /\ trips \in 0 .. MaxTrips
  /\ cooldown \in Cooldown .. MaxCooldown
  /\ probe \in BOOLEAN /\ healthy \in BOOLEAN
  /\ call \in [Calls -> CallState]

\* The circuit cannot stay half-open for lack of a call that would decide it:
\* half-open, a raised probe flag and a probe that is still under way go
\* together, whichever call ends first.
HalfOpenIsProbed ==
  /\ probe <=> state = "half_open"
  /\ state = "half_open" => Probes # {}

\* FR-23.12: a closed circuit has seen fewer failures than the threshold within
\* the window, also right after it was closed by a probe.
ClosedIsBelowThreshold ==
  state = "closed" => WindowFailures(failures) < Threshold

\* EC-23.6: the cooldown is the configured one until a probe fails, and is back
\* to it as soon as the circuit closes; it doubles with every failed probe in
\* between up to the maximum.
Backoff[failed \in 0 .. MaxTrips] == IF failed = 0 THEN Cooldown ELSE 2 * Backoff[failed - 1]
BackoffFollowsTrips ==
  /\ state = "closed" <=> trips = 0
  /\ trips <= 1 => cooldown = Cooldown
  /\ trips < MaxTrips /\ trips >= 1
       => cooldown = Least(Backoff[trips - 1], MaxCooldown)

\* Failure window, trip count and backoff agree with the state of the circuit.
CountersFollowState == ClosedIsBelowThreshold /\ BackoffFollowsTrips

\* FR-23.13, "after cooldown, one call is allowed through": at most one probe is
\* under way.  Calls that outlive the cooldown break it.
OneProbe == \A c, d \in Probes : c = d

\* What is left of it for calls of any length: two probes that are under way at the same
\* time entered a cooldown apart, so besides the last one there are no more of them than
\* cooldowns fit into a call.
ProbesAreSpaced ==
  \A c, d \in Probes : c # d =>
    \/ call[c].age >= call[d].age + Cooldown
    \/ call[d].age >= call[c].age + Cooldown

\* Who may decide a half-open circuit besides the probe that made it so: only calls that
\* had entered before the circuit opened, hence a whole cooldown before that probe.
IntrudersAreOld ==
  state = "half_open" =>
    \E p \in Probes : \A c \in InFlight \ {p} : call[c].age >= call[p].age + cooldown

=============================================================================
