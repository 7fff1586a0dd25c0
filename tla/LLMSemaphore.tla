---------------------------- MODULE LLMSemaphore ----------------------------
(***************************************************************************)
(* llm/semaphore.py: LLMSemaphore.execute, which lets MaxConcurrent calls  *)
(* run and QueueSize wait.  Every segment between two awaits is one step.  *)
(* asyncio.Semaphore, whose waiters are futures in the order of arrival, is*)
(* modelled from how execute uses it: release hands its permit to the      *)
(* first waiter that has none, which runs when it is scheduled and may     *)
(* time out before it is.                                                  *)
(***************************************************************************)
EXTENDS Naturals, FiniteSets, Sequences, SequencesExt

CONSTANTS
  Calls,          \* the calls of execute that may overlap
  MaxConcurrent,  \* max_concurrent
  QueueSize       \* queue_size

VARIABLES
  value,    \* the semaphore's permits nobody holds
  waiters,  \* the semaphore's waiters
  granted,  \* the waiters whose future has its result
  pc,       \* where each call is
  waiting,  \* _waiting
  active    \* _active

vars == <<value, waiters, granted, pc, waiting, active>>

Queued  == {c \in Calls : pc[c] = "queued"}
Running == {c \in Calls : pc[c] = "running"}

Init ==
  /\ value = MaxConcurrent /\ waiters = << >> /\ granted = {}
  /\ pc = [c \in Calls |-> "out"]
  /\ waiting = 0 /\ active = 0

----------------------------------------------------------------------------
(* asyncio.Semaphore                                                       *)

Locked == value = 0 \/ waiters # << >>

\* _wake_up_next, limit times or until everybody has a permit, in the order of the
\* queue: with v permits, waiters ws and granted futures gs.
WakeUpNext_Nobody(limit, v, ws, gs) ==
  /\ value' = v /\ waiters' = ws /\ granted' = gs
WakeUpNext(limit, v, ws, gs) ==
  \E woken \in SUBSET (ToSet(ws) \ gs) :
    /\ Cardinality(woken) <= limit
    /\ Cardinality(woken) = limit \/ woken = ToSet(ws) \ gs
    /\ \A i, j \in DOMAIN ws : i < j /\ ws[j] \in woken => ws[i] \in woken \cup gs
    /\ value' = v - Cardinality(woken)
    /\ waiters' = ws
    /\ granted' = gs \cup woken

----------------------------------------------------------------------------
(* execute                                                                 *)

Move(c, to) == pc' = [pc EXCEPT ![c] = to]

\* 503 LLM_QUEUE_FULL: the call is over and nothing has changed.
QueueFull == waiting >= QueueSize

StartAtOnce(c) ==
  /\ pc[c] = "out" /\ ~QueueFull /\ ~Locked
  /\ value' = value - 1
  /\ Move(c, "running") /\ active' = active + 1
  /\ UNCHANGED <<waiters, granted, waiting>>

Enqueue(c) ==
  /\ pc[c] = "out" /\ ~QueueFull /\ Locked
  /\ waiters' = Append(waiters, c)
  /\ Move(c, "queued") /\ waiting' = waiting + 1
  /\ UNCHANGED <<value, granted, active>>

\* The waiter takes itself off the queue and v permits are handed out.
Leave(c, v) ==
  \E i \in DOMAIN waiters :
    waiters[i] = c /\ WakeUpNext(v, v, RemoveAt(waiters, i), granted \ {c})

\* The waiter resumes with its permit.  Calls that arrived in the meantime had to
\* queue behind it although permits were free: acquire wakes them last of all.
Resume(c) ==
  /\ c \in granted
  /\ Leave(c, value)
  /\ Move(c, "running") /\ waiting' = waiting - 1 /\ active' = active + 1

\* 503 LLM_TIMEOUT in the queue.  A permit that was granted meanwhile goes back.
TimeOut_KeepsPermit(c) ==
  /\ pc[c] = "queued"
  /\ Leave(c, value)
  /\ Move(c, "out") /\ waiting' = waiting - 1
  /\ UNCHANGED active
TimeOut(c) ==
  /\ pc[c] = "queued"
  /\ Leave(c, IF c \in granted THEN value + 1 ELSE value)
  /\ Move(c, "out") /\ waiting' = waiting - 1
  /\ UNCHANGED active

\* The call ends: with a result, an exception or 503 LLM_CALL_TIMEOUT.
Finish(c) ==
  /\ pc[c] = "running"
  /\ WakeUpNext(1, value + 1, waiters, granted)
  /\ Move(c, "out") /\ active' = active - 1
  /\ UNCHANGED waiting

Next ==
  \E c \in Calls :
    StartAtOnce(c) \/ Enqueue(c) \/ Resume(c) \/ TimeOut(c) \/ Finish(c)

Spec == Init /\ [][Next]_vars

----------------------------------------------------------------------------
(* Properties                                                              *)

\* Every variable has its type.
TypeOK ==
  /\ value \in 0 .. MaxConcurrent
  /\ waiters \in Seq(Calls)
  /\ granted \subseteq Calls
  /\ pc \in [Calls -> {"out", "queued", "running"}]
  /\ waiting \in 0 .. QueueSize
  /\ active \in 0 .. MaxConcurrent

\* No permit is lost or made up, whatever calls time out between the grant of a
\* permit and their next step: permits are free, granted or in use.  Hence never
\* more than MaxConcurrent calls run (FR-28.11).
PermitsConserved ==
  /\ value + Cardinality(granted) + active = MaxConcurrent
  /\ active = Cardinality(Running)

\* FR-28.12: the counter that bounds the queue is the number of calls in it.
QueueIsCounted ==
  /\ waiting = Cardinality(Queued)
  /\ ToSet(waiters) = Queued /\ Len(waiters) = waiting

\* When calls wait although permits are free, one of them is about to run and
\* will wake the others: no call waits for a wake-up that nobody owes it.
NoLostWakeUp ==
  value > 0 /\ waiters # << >> => granted # {}

\* Permits are granted in the order of arrival.
GrantedInOrder ==
  \A i, j \in DOMAIN waiters :
    i < j /\ waiters[j] \in granted => waiters[i] \in granted

\* The queue is exact and fair: counted, never asleep beside a free permit, and
\* served in the order of arrival, whichever timeouts race with the grants.
QueueInOrder == QueueIsCounted /\ NoLostWakeUp /\ GrantedInOrder

\* FR-28.12, "queued (not rejected)": a queued call starts unless it times out,
\* however many others arrive.
QueuedStarts == \A c \in Calls : pc[c] = "queued" ~> pc[c] # "queued"

=============================================================================
