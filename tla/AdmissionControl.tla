-------------------------- MODULE AdmissionControl --------------------------
(***************************************************************************)
(* llm/rate_limiter.py: RateLimitBudget and the calls that go through      *)
(* RateLimitedLLMClient, for one tier below CRITICAL.  CRITICAL calls take *)
(* no part in it and the other tiers share no state, so that one tier,     *)
(* chosen at the start, is enough; LOW differs from HIGH in its cap only.  *)
(*                                                                         *)
(* Every segment between two awaits is one step.  A waiter whose event was *)
(* set resumes at a later step; until then its timeout may expire or its   *)
(* task may be cancelled, in which case wait_for raises although the event *)
(* is set.                                                                 *)
(***************************************************************************)
EXTENDS Integers, FiniteSets, Sequences, SequencesExt

CONSTANTS
  Calls,         \* calls of the client that may overlap
  Tiers,         \* tiers to consider, of HIGH and BEST_EFFORT
  Concurrency,   \* high_concurrency; BEST_EFFORT has one slot
  Backpressure,  \* best_effort_backpressure
  Drift          \* bound: how far drops may push active below zero

ASSUME AdmissionAssumption ==
  /\ IsFiniteSet(Calls)
  /\ Tiers \subseteq {"high", "best_effort"}
  /\ Concurrency \in Nat \ {0} /\ Backpressure \in Nat /\ Drift \in Nat

VARIABLES
  tier,     \* the tier of the calls
  permits,  \* the semaphore's value; nobody ever waits for it
  queue,    \* _queues[tier]
  pc,       \* where each call is
  active    \* _active[tier]

vars == <<tier, permits, queue, pc, active>>

\* out, queued, admitted (popped from the queue, its event set), running, or
\* cancelled with its entry still in the queue.
CallPc == {"out", "queued", "admitted", "running", "ghost"}

Droppable == tier = "best_effort"
Cap == IF Droppable THEN 1 ELSE Concurrency

In(where) == {c \in Calls : pc[c] = where}

Init ==
  /\ tier \in Tiers
  /\ permits = Cap /\ queue = << >>
  /\ pc = [c \in Calls |-> "out"]
  /\ active = 0

Move(c, to) == pc' = [pc EXCEPT ![c] = to]

----------------------------------------------------------------------------
(* admit_or_queue                                                          *)

\* admit: the semaphore is not locked.
Admit(c) ==
  /\ pc[c] = "out" /\ permits > 0
  /\ permits' = permits - 1 /\ active' = active + 1
  /\ Move(c, "running")
  /\ UNCHANGED <<tier, queue>>

Overloaded == Droppable /\ Len(queue) >= Backpressure

\* admit_or_queue returns False, which _enforce ignores: the call runs, and its
\* release will count it off all the same.
Drop(c) ==
  /\ pc[c] = "out" /\ permits = 0 /\ Overloaded
  /\ active >= -Drift
  /\ Move(c, "running")
  /\ UNCHANGED <<tier, permits, queue, active>>

Enqueue(c) ==
  /\ pc[c] = "out" /\ permits = 0 /\ ~Overloaded
  /\ queue' = Append(queue, c)
  /\ Move(c, "queued")
  /\ UNCHANGED <<tier, permits, active>>

\* The waiter resumes after its event was set.
Resume(c) ==
  /\ pc[c] = "admitted"
  /\ active' = active + 1
  /\ Move(c, "running")
  /\ UNCHANGED <<tier, permits, queue>>

\* TimeoutError: the entry is removed, unless release has already popped it.
Expire_StaysQueued(c) ==
  /\ pc[c] \in {"queued", "admitted"}
  /\ Move(c, "out")
  /\ UNCHANGED <<tier, permits, queue, active>>
Expire(c) ==
  /\ pc[c] \in {"queued", "admitted"}
  /\ \/ c \notin ToSet(queue) /\ UNCHANGED queue
     \/ \E i \in DOMAIN queue : queue[i] = c /\ queue' = RemoveAt(queue, i)
  /\ Move(c, "out")
  /\ UNCHANGED <<tier, permits, active>>

\* CancelledError: nothing is cleaned up.
Cancel(c) ==
  /\ pc[c] \in {"queued", "admitted"}
  /\ Move(c, IF pc[c] = "queued" THEN "ghost" ELSE "out")
  /\ UNCHANGED <<tier, permits, queue, active>>

----------------------------------------------------------------------------
(* generate, stream: the call ends and release gives its slot to the next  *)
(* entry of the queue, if there is one, or back to the semaphore.          *)

PassOn(c) ==
  /\ queue # << >> /\ queue' = Tail(queue)
  /\ pc' = [pc EXCEPT ![c] = "out",
                      ![Head(queue)] = IF @ = "queued" THEN "admitted" ELSE "out"]
  /\ UNCHANGED <<tier, permits>>

PutBack(c) ==
  /\ queue = << >>
  /\ permits' = permits + 1 /\ Move(c, "out")
  /\ UNCHANGED <<tier, queue>>

Finish_Both(c) ==
  /\ pc[c] = "running"
  /\ active' = active - 1
  /\ pc' = [d \in Calls |-> IF d = c THEN "out"
                            ELSE IF queue # << >> /\ d = Head(queue) THEN "admitted"
                            ELSE pc[d]]
  /\ queue' = IF queue = << >> THEN queue ELSE Tail(queue)
  /\ permits' = permits + 1
  /\ UNCHANGED tier
Finish(c) ==
  /\ pc[c] = "running"
  /\ active' = active - 1
  /\ PassOn(c) \/ PutBack(c)

Next ==
  \E c \in Calls :
    \/ Admit(c) \/ Drop(c) \/ Enqueue(c) \/ Resume(c)
    \/ Expire(c) \/ Cancel(c) \/ Finish(c)

Spec == Init /\ [][Next]_vars


----------------------------------------------------------------------------
(* Properties                                                              *)

\* Slots in use.  A dropped call runs without one.
Slots == Cardinality(In("admitted")) + Cardinality(In("running"))

\* Every variable has its type.  Drops make active drift below zero.
TypeOK ==
  /\ tier \in Tiers
  /\ permits \in (0 .. Cap) \cup (0 .. Cardinality(Calls))
  /\ queue \in Seq(Calls)
  /\ pc \in [Calls -> CallPc]
  /\ active \in (-Drift - Cardinality(Calls)) .. Cardinality(Calls)

\* FR-66.01: at most Cap calls of a tier that drops nothing run, whatever expires
\* or is cancelled between the hand-over of a slot and its use.
CapHolds == ~Droppable => permits + Slots <= Cap

\* FR-66.02, FIFO: the semaphore has no permit while a call is queued, so that no
\* arrival is admitted before it.
NobodyOvertakes == In("queued") # {} => permits = 0

\* The queue holds every queued call once, next to the entries that cancelled
\* calls left behind.
QueueIsExact ==
  /\ ToSet(queue) = In("queued") \cup In("ghost")
  /\ IsInjective(queue)

\* The queue is exact and nobody overtakes it.
QueueIsKept == TypeOK /\ NobodyOvertakes /\ QueueIsExact

\* AC-66.02: a queued call proceeds or times out as earlier ones end, unless a
\* slot of the tier has been lost: nothing else ever starves it.
SlotLost == permits + Slots < Cap
QueuedProceeds == \A c \in Calls : pc[c] = "queued" ~> pc[c] # "queued" \/ SlotLost

=============================================================================
