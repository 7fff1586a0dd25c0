----------------------------- MODULE GuardedLLM -----------------------------
(***************************************************************************)
(* pipeline/llm_guard.py: guarded_llm_call, the path of every LLM call of  *)
(* the pipeline.  The semaphore is the outer layer and the circuit breaker *)
(* the inner one: a call that waits for a permit is not in the breaker,    *)
(* and one that the breaker refuses has held a permit.  The cost checks    *)
(* before and after the call are not part of this module.                  *)
(***************************************************************************)
EXTENDS Naturals, FiniteSets, Sequences

CONSTANTS Calls, MaxConcurrent, QueueSize,
          Threshold, Window, Cooldown, MaxCooldown, CallTimeout, MaxTrips

VARIABLES value, waiters, granted, pc, waiting, active,
          state, failures, openFor, trips, cooldown, probe, call, healthy

Semaphore == INSTANCE LLMSemaphore
Breaker   == INSTANCE CircuitBreaker

semaphoreVars == <<value, waiters, granted, pc, waiting, active>>
breakerVars == <<state, failures, openFor, trips, cooldown, probe, call, healthy>>
vars == <<semaphoreVars, breakerVars>>

Init == Semaphore!Init /\ Breaker!Init

\* Calls that hold a permit and have not entered the breaker.  Nothing is awaited
\* in between, so the event loop runs nobody else meanwhile.
Entering == Semaphore!Running \ Breaker!InFlight
Awaiting == Entering = {}

Arrive(c) ==
  /\ Awaiting
  /\ Semaphore!StartAtOnce(c) \/ Semaphore!Enqueue(c)
  /\ UNCHANGED breakerVars

Resume(c) == Awaiting /\ Semaphore!Resume(c) /\ UNCHANGED breakerVars

\* The wait for a permit times out outside the breaker.
GiveUp_Counted(c) ==
  /\ Awaiting
  /\ Semaphore!TimeOut(c)
  /\ state = "closed" /\ failures' = Breaker!Recorded
  /\ IF Breaker!WindowFailures(Breaker!Recorded) >= Threshold
       THEN Breaker!Trip ELSE UNCHANGED <<state, openFor, trips, cooldown>>
  /\ UNCHANGED <<probe, call, healthy>>
GiveUp(c) == Awaiting /\ Semaphore!TimeOut(c) /\ UNCHANGED breakerVars

Enter_ClosedOnly(c) ==
  c \in Entering /\ Breaker!EnterClosed(c) /\ UNCHANGED semaphoreVars
Enter(c) == c \in Entering /\ Breaker!Enter(c) /\ UNCHANGED semaphoreVars

\* The breaker's error ends the call, which gives its permit back.
Refuse_KeepsPermit(c) ==
  /\ c \in Entering /\ Breaker!FailsFast
  /\ Semaphore!Move(c, "out") /\ active' = active - 1
  /\ UNCHANGED <<value, waiters, granted, waiting, breakerVars>>
Refuse(c) ==
  /\ c \in Entering /\ Breaker!FailsFast
  /\ Semaphore!Finish(c) /\ UNCHANGED breakerVars

\* The model answers, fails, or is cancelled by the timeout of execute, which
\* the breaker sees as a failure.
Leave(c) ==
  /\ Awaiting
  /\ Breaker!Fails(c) \/ Breaker!ExitOk(c)
  /\ Semaphore!Finish(c)

Tick == Awaiting /\ Breaker!Tick /\ UNCHANGED semaphoreVars
ServiceRecovers == Breaker!ServiceRecovers /\ UNCHANGED semaphoreVars

Next ==
  \/ \E c \in Calls :
       \/ Arrive(c) \/ Resume(c) \/ GiveUp(c)
       \/ Enter(c) \/ Refuse(c) \/ Leave(c)
  \/ Tick \/ ServiceRecovers

Spec == Init /\ [][Next]_vars

----------------------------------------------------------------------------
(* Properties                                                              *)

\* No permit goes down with a call that the breaker refuses: those that are free, granted or
\* with a call at the provider are all there are, and none lies free beside a queue in which
\* nobody is about to run.
PermitsAreUsed ==
  /\ Breaker!InFlight \subseteq Semaphore!Running
  /\ Awaiting => value + Cardinality(granted) + Cardinality(Breaker!InFlight) = MaxConcurrent
  /\ value > 0 /\ waiters # << >> => granted # {}

\* llm_guard.py, "Queue-full/timeout from semaphore does NOT trip the breaker":
\* the circuit opens only when a call that reached the provider ends.
OnlyProviderCallsTrip ==
  [][state # "open" /\ state' = "open"
       => \E c \in Breaker!InFlight : c \notin Breaker!InFlight']_vars

\* An open circuit in front of a crowded queue is probed and closed again once
\* the provider has recovered.
ServiceResumes == <>[](state = "closed")

=============================================================================
