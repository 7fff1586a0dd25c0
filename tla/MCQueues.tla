------------------------------ MODULE MCQueues ------------------------------
(* The two queues in front of the model for TLC: a behaviour runs one of them, *)
(* and the other one stays in its initial state.                               *)
EXTENDS AdmissionControl

CONSTANTS SemaphoreCalls, MaxConcurrent, QueueSize

ASSUME SemaphoreAssumption == MaxConcurrent \in Nat /\ QueueSize \in Nat

VARIABLES part, value, waiters, granted, at, waiting, running

Semaphore == INSTANCE LLMSemaphore WITH Calls <- SemaphoreCalls, pc <- at, active <- running

semaphoreVars == <<value, waiters, granted, at, waiting, running>>
allVars == <<part, vars, semaphoreVars>>

BothTiers == {"high", "best_effort"}

AdmissionStep == part = "admission" /\ Next /\ UNCHANGED <<part, semaphoreVars>>
SemaphoreStep == part = "semaphore" /\ Semaphore!Next /\ UNCHANGED <<part, vars>>

MCInit == part \in {"admission", "semaphore"} /\ Init /\ Semaphore!Init

\* Resumed waiters are scheduled and running calls end, at the latest by their
\* timeout.  Nothing is assumed of the timeouts in the queues.
MCSpec ==
  /\ MCInit
  /\ [][AdmissionStep \/ SemaphoreStep]_allVars
  /\ \A c \in Calls :
       /\ WF_vars(part = "admission" /\ Resume(c) /\ UNCHANGED <<part, semaphoreVars>>)
       /\ WF_vars(part = "admission" /\ Finish(c) /\ UNCHANGED <<part, semaphoreVars>>)
  /\ \A c \in SemaphoreCalls :
       /\ WF_semaphoreVars(part = "semaphore" /\ Semaphore!Resume(c) /\ UNCHANGED <<part, vars>>)
       /\ WF_semaphoreVars(part = "semaphore" /\ Semaphore!Finish(c) /\ UNCHANGED <<part, vars>>)

\* See LLMSemaphore: no permit is lost or made up, and the queue is exact, in
\* order and never asleep.
PermitsAndQueue == Semaphore!TypeOK /\ Semaphore!PermitsConserved /\ Semaphore!QueueInOrder
\* See AdmissionControl and LLMSemaphore: a queued call starts or times out, unless a slot
\* was lost.
QueuesMove == QueuedProceeds /\ Semaphore!QueuedStarts
=============================================================================
