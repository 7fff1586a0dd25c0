----------------------------- MODULE MCBreakers -----------------------------
(* The breaker alone and behind the semaphore, over calls that may outlive the *)
(* cooldown, for TLC: a behaviour runs one of them.                            *)
EXTENDS CircuitBreaker

CONSTANTS GuardedCalls, MaxConcurrent, QueueSize, GuardedCooldown, GuardedMaxCooldown,
          GuardedTimeout, GuardedTrips

ASSUME PermitsAssumption == MaxConcurrent \in Nat /\ QueueSize \in Nat

VARIABLES part, value, waiters, granted, pc, waiting, active,
          gState, gFailures, gOpenFor, gTrips, gCooldown, gProbe, gCall, gHealthy

Guarded == INSTANCE GuardedLLM WITH
  Calls <- GuardedCalls, Cooldown <- GuardedCooldown, MaxCooldown <- GuardedMaxCooldown,
  CallTimeout <- GuardedTimeout, MaxTrips <- GuardedTrips,
  state <- gState, failures <- gFailures, openFor <- gOpenFor, trips <- gTrips,
  cooldown <- gCooldown, probe <- gProbe, call <- gCall, healthy <- gHealthy

guardedVars == <<value, waiters, granted, pc, waiting, active,
                 gState, gFailures, gOpenFor, gTrips, gCooldown, gProbe, gCall, gHealthy>>
allVars == <<part, vars, guardedVars>>

Idle == UNCHANGED <<part, vars>>
On(A) == part = "guarded" /\ A /\ Idle

BreakerStep == part = "breaker" /\ Next /\ UNCHANGED <<part, guardedVars>>
GuardedStep == part = "guarded" /\ Guarded!Next /\ Idle

MCInit == part \in {"breaker", "guarded"} /\ Init /\ Guarded!Init

\* The event loop runs every task that is ready, however many others are, and
\* no clock stops because calls come and go in no time; turns keep needing the
\* model.
MCSpec ==
  /\ MCInit
  /\ [][BreakerStep \/ GuardedStep]_allVars
  /\ SF_guardedVars(On(Guarded!Tick)) /\ WF_guardedVars(On(Guarded!ServiceRecovers))
  /\ \A c \in GuardedCalls :
       /\ SF_guardedVars(On(Guarded!Resume(c))) /\ SF_guardedVars(On(Guarded!Leave(c)))
       /\ WF_guardedVars(On(Guarded!Enter(c))) /\ WF_guardedVars(On(Guarded!Refuse(c)))
  /\ SF_guardedVars(On(\E c \in GuardedCalls : Guarded!Arrive(c)))

\* See GuardedLLM: no permit goes down with a call that the breaker refuses.
PermitsAreUsed == Guarded!PermitsAreUsed
\* See GuardedLLM: queueing trouble never opens the circuit.
OnlyProviderCallsTrip == Guarded!OnlyProviderCallsTrip
\* See GuardedLLM: the circuit closes once the provider is back.
ServiceResumes == part = "guarded" => Guarded!ServiceResumes
=============================================================================
