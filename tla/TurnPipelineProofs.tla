------------------------- MODULE TurnPipelineProofs -------------------------
(***************************************************************************)
(* Theorems about TurnPipeline, for any number of turns, caps, costs and   *)
(* failures: what the moderator blocks leaves no trace, what is stored is  *)
(* what is told, and the cap of a session is exceeded by one call at most. *)
(***************************************************************************)
EXTENDS TurnPipeline, TLAPS

\* The stages before a text is there.
Early == {"input", "intent", "again", "consequences", "context", "precheck", "generate"}

\* A text that was blocked can be told only when the moderator could not be asked.
Excused(t) == task[t].text = "bad" => FailOpen /\ task[t].outage

\* What the task knows of the turn at each place of the program.
TaskInv(t) ==
  /\ task[t].pc \in {"idle", "reading"} \cup Stages \cup {"deliver"} => task[t].status = "processing"
  /\ task[t].pc \in {"idle", "reading"} \cup Early => task[t].text = "none"
  /\ task[t].pc \in {"idle", "reading"} \cup Stages => "extracted" \notin task[t].updates
  /\ task[t].pc \in {"extract", "deliver"} \cup Writes \cup {"done"} => Excused(t)
  /\ "extracted" \in task[t].updates => task[t].text \in {"clean", "bad"}
  /\ task[t].pc = "postcheck" => task[t].text \in {"clean", "bad", "fallback"}
  /\ task[t].pc = "extract" => task[t].text \in {"clean", "bad"}
  /\ task[t].pc = "deliver" => task[t].text # "none"
  /\ task[t].pc \in Writes \cup {"done"} =>
       /\ task[t].status # "processing"
       /\ task[t].status = "failed" <=> task[t].text = "none"

\* The row has the outcome of the task, or a write has failed, and then the row has the
\* text alone or the turn is as if it had failed or not ended.
Stored(t) ==
  \/ row[t].status = task[t].status /\ row[t].text = task[t].text
  \/ /\ faults < MaxFaults
     /\ \/ row[t].text = task[t].text
        \/ row[t].text = "none" /\ row[t].status \in {"processing", "failed"}

\* What the row of the turn holds meanwhile: nothing but the text of the task, from the
\* moment it is saved, and its status once it is marked.
RowInv(t) ==
  /\ task[t].pc \in {"idle", "reading"} \cup Stages \cup {"deliver", "persist"}
       => row[t].text = "none" /\ row[t].status \in {"none", "processing"}
  /\ task[t].pc \in {"moderate", "cost", "warn", "changes"}
       => row[t].text = task[t].text /\ HasResult(t)
  /\ row[t].text # "none" => row[t].text = task[t].text
  /\ task[t].pc \in {"publish", "done"} /\ task[t].status = "failed"
       => row[t].status \in {"processing", "failed"}
  /\ row[t].status = "none" => task[t].pc \in {"idle", "reading"}
  /\ task[t].pc = "moderate" => task[t].status = "moderated"
  /\ task[t].pc \in {"cost", "warn", "changes"} => row[t].status = task[t].status
  /\ task[t].pc \in {"publish", "done"} => Stored(t)

\* What others see of the turn.
SeenInv(t) ==
  /\ told[t].status # "none" =>
       task[t].pc = "done" /\ told[t].status = task[t].status /\ told[t].text = task[t].text
  /\ told[t].status = "none" => told[t].text = "none"
  /\ \A u \in {"consequence", "extracted"} : <<t, u>> \in world =>
       /\ task[t].pc \in {"publish", "done"} /\ u \in task[t].updates
       /\ row[t].text = task[t].text /\ task[t].text # "none"

\* The places where the cost of a turn is still to be billed.
Owing == Stages \cup {"deliver", "persist", "moderate", "cost"}

\* Turns begin in their order, each knows the earlier ones that were still to be billed,
\* and the total is what a turn has read, what those have billed since and, once it is
\* billed, what it spent itself.
CostInv(t) ==
  /\ task[t].pc \in {"idle", "reading"} => task[t].spent = 0
  /\ task[t].pc # "idle" => \A u \in 1 .. t - 1 :
       /\ task[u].pc \notin {"idle", "reading"}
       /\ task[u].pc \in Owing => u \in task[t].late
  /\ task[t].spent > 0 => task[t].seed + task[t].spent < Cap + MaxCost
  /\ task[t].pc # "idle" /\ (\A u \in Turns : u > t => task[u].spent = 0) =>
       session.total <= task[t].seed + task[t].since
                          + (IF task[t].pc \in {"reading"} \cup Owing THEN 0 ELSE task[t].spent)

IInv == TypeOK /\ \A t \in Turns : TaskInv(t) /\ RowInv(t) /\ SeenInv(t) /\ CostInv(t)

-----------------------------------------------------------------------------
(* Types                                                                    *)

\* A task that becomes another of the right type keeps its type, and no other task moves.
LEMMA TaskMoves ==
  ASSUME TypeOK, NEW t \in Turns, NEW new \in TaskState, Become(t, new)
  PROVE  /\ task' \in [Turns -> TaskState] /\ task'[t] = new
         /\ \A u \in Turns : u # t => task'[u] = task[u]
BY DEF TypeOK, Become

\* A task that goes on keeps its type and everything it knows.
LEMMA TaskGoes ==
  ASSUME TypeOK, NEW t \in Turns, NEW pc \in TaskPc, Goto(t, pc)
  PROVE  /\ task' \in [Turns -> TaskState] /\ task'[t] = [task[t] EXCEPT !.pc = pc]
         /\ \A u \in Turns : u # t => task'[u] = task[u]
<1>1. task[t] \in TaskState
  BY DEF TypeOK
<1>2. [task[t] EXCEPT !.pc = pc] \in TaskState
  BY <1>1 DEF TaskState
<1> QED BY <1>2, TaskMoves DEF Goto

LEMMA TypeInit == Init => TypeOK
BY PipelineAssumption
   DEF Init, TypeOK, Idle, TaskState, RowState, ToldState, SessionState, TaskPc, Texts, Stages, Writes

\* A task that pays one more call.
LEMMA Spending ==
  ASSUME NEW new \in TaskState, NEW cost \in Costs
  PROVE  new.spent + cost \in Nat
BY PipelineAssumption DEF TaskState, Costs

\* What a step of a task's own turn gives: its new state, for every kind of step.
LEMMA TaskType ==
  ASSUME TypeOK, NEW t \in Turns,
         \/ ReadGame(t) \/ Submit(t) \/ Abandon(t)
         \/ Understand(t) \/ GatherContext(t) \/ Narrate(t) \/ Deliver(t) \/ Persist(t)
  PROVE  task' \in [Turns -> TaskState]
<1>0. /\ task[t] \in TaskState /\ task \in [Turns -> TaskState]
      /\ session \in SessionState
  BY DEF TypeOK
<1>p. TaskPc = {"idle", "reading", "deliver", "done"} \cup Stages \cup Writes
  BY DEF TaskPc
<1>z. 0 \in 0 .. Retries
  BY PipelineAssumption
<1>1. CASE ReadGame(t)
  <2>1. Unbilled(t) \in SUBSET Turns
    BY PipelineAssumption DEF Unbilled, Turns
  <2>2. [task[t] EXCEPT !.pc = "reading", !.seed = session.total, !.late = Unbilled(t)] \in TaskState
    BY <1>0, <1>p, <2>1 DEF TaskState, SessionState
  <2> QED BY <1>1, <2>2, TaskMoves DEF ReadGame
<1>2. CASE Submit(t)
  <2>1. PICK bad \in BOOLEAN : Become(t, [task[t] EXCEPT !.pc = "input", !.badInput = bad])
    BY <1>2 DEF Submit
  <2>2. [task[t] EXCEPT !.pc = "input", !.badInput = bad] \in TaskState
    BY <1>0, <1>p DEF TaskState, Stages
  <2> QED BY <2>1, <2>2, TaskMoves
<1>3. CASE Abandon(t)
  <2>1. [task[t] EXCEPT !.pc = "persist", !.status = "failed", !.text = "none", !.attempt = 0] \in TaskState
    BY <1>0, <1>p, <1>z DEF TaskState, Writes, Texts
  <2> QED BY <1>3, <2>1, TaskMoves DEF Abandon
<1>r. Redirected(t) \in TaskState
  BY <1>0, <1>p DEF Redirected, TaskState, Writes, Texts
<1>4. CASE InputCheck(t)
  <2>1. Goto(t, "intent") \/ Become(t, Redirected(t))
    BY <1>4 DEF InputCheck
  <2>2. "intent" \in TaskPc
    BY <1>p DEF Stages
  <2> QED BY <1>r, <2>1, <2>2, TaskGoes, TaskMoves
<1>5. CASE MatchIntent(t) \/ SkipIntent(t) \/ ClassifyFails(t) \/ GatherContext(t)
  BY <1>5, <1>p, TaskGoes DEF MatchIntent, SkipIntent, ClassifyFails, GatherContext, Stages
<1>6. CASE ClassifyIntent(t)
  <2>1. PICK cost \in Costs, next \in {"again", "consequences"} : Charge(t, cost, next)
    BY <1>6 DEF ClassifyIntent
  <2>2. [task[t] EXCEPT !.pc = next, !.spent = @ + cost] \in TaskState
    BY <1>0, <1>p, Spending DEF TaskState, Stages
  <2> QED BY <2>1, <2>2, TaskMoves DEF Charge
<1>7. CASE EvaluateConsequences(t)
  <2>1. PICK due \in SUBSET {"consequence"} : Become(t, [task[t] EXCEPT !.pc = "context", !.updates = due])
    BY <1>7 DEF EvaluateConsequences
  <2>2. [task[t] EXCEPT !.pc = "context", !.updates = due] \in TaskState
    BY <1>0, <1>p DEF TaskState, Stages
  <2> QED BY <2>1, <2>2, TaskMoves
<1>8. CASE PreCheck(t)
  <2>1. [task[t] EXCEPT !.pc = "persist", !.status = "failed"] \in TaskState
    BY <1>0, <1>p DEF TaskState, Writes
  <2>2. Goto(t, "generate") \/ Become(t, [task[t] EXCEPT !.pc = "persist", !.status = "failed"])
    BY <1>8 DEF PreCheck
  <2>3. "generate" \in TaskPc
    BY <1>p DEF Stages
  <2> QED BY <2>1, <2>2, <2>3, TaskGoes, TaskMoves
<1>9. CASE Generate(t)
  <2>1. PICK cost \in Costs, text \in {"clean", "bad"} :
          Become(t, [task[t] EXCEPT !.pc = "postcheck", !.spent = @ + cost, !.text = text,
                                    !.attempt = 0])
    BY <1>9 DEF Generate
  <2>2. [task[t] EXCEPT !.pc = "postcheck", !.spent = @ + cost, !.text = text,
                                    !.attempt = 0] \in TaskState
    BY <1>0, <1>p, <1>z, Spending DEF TaskState, Stages, Texts
  <2> QED BY <2>1, <2>2, TaskMoves
<1>10. CASE GenerateFails(t)
  <2>1. task[t].attempt < Retries => [task[t] EXCEPT !.attempt = @ + 1] \in TaskState
    BY <1>0, PipelineAssumption DEF TaskState
  <2>2. [task[t] EXCEPT !.pc = "postcheck", !.text = "fallback", !.attempt = 0] \in TaskState
    BY <1>0, <1>p, <1>z DEF TaskState, Stages, Texts
  <2> QED BY <1>10, <2>1, <2>2, TaskMoves DEF GenerateFails
<1>11. CASE PostCheck(t)
  <2>1. [task[t] EXCEPT !.pc = IF task[t].text = "fallback" THEN "deliver" ELSE "extract",
                        !.outage = task[t].text = "bad"] \in TaskState
    BY <1>0, <1>p, ZenonT(60) DEF TaskState, Stages
  <2> QED BY <1>11, <1>r, <2>1, TaskMoves DEF PostCheck
<1>12. CASE ExtractChanges(t)
  <2>1. CASE Goto(t, "deliver")
    BY <2>1, <1>p, TaskGoes
  <2>2. ASSUME NEW cost \in Costs, NEW found \in SUBSET {"extracted"},
               Become(t, [task[t] EXCEPT !.pc = "deliver", !.spent = @ + cost, !.updates = @ \cup found])
        PROVE  task' \in [Turns -> TaskState]
    <3>1. [task[t] EXCEPT !.pc = "deliver", !.spent = @ + cost, !.updates = @ \cup found] \in TaskState
      BY <1>0, <1>p, Spending DEF TaskState
    <3> QED BY <2>2, <3>1, TaskMoves
  <2> QED BY <1>12, <2>1, <2>2 DEF ExtractChanges
<1>13. CASE Deliver(t)
  <2>1. [task[t] EXCEPT !.pc = "persist", !.status = "complete"] \in TaskState
    BY <1>0, <1>p DEF TaskState, Writes
  <2> QED BY <1>13, <2>1, TaskMoves DEF Deliver
<1>14. CASE BillTurn(t)
  <2>1. \A u \in Turns : task[u] \in TaskState
    BY <1>0
  <2>2. \A u \in Turns : /\ [task[u] EXCEPT !.since = @ + task[t].spent] \in TaskState
                         /\ [task[u] EXCEPT !.pc = "warn"] \in TaskState
                         /\ [task[u] EXCEPT !.pc = "changes"] \in TaskState
    BY <2>1, <1>p DEF TaskState, Writes
  <2>3. \A u \in Turns : task'[u] \in TaskState
    BY <1>14, <2>1, <2>2 DEF BillTurn
  <2> QED BY <1>14, <2>3 DEF BillTurn
<1>15. CASE Persist(t) /\ ~BillTurn(t)
  BY <1>15, <1>p, TaskGoes
     DEF Persist, SaveResult, SaveFailure, MarkModerated, SaveFails, SendWarning, BillFails,
         ApplyChanges, ApplyFails, Publish, PublishFails, Writes
<1> QED
  BY <1>1, <1>2, <1>3, <1>4, <1>5, <1>6, <1>7, <1>8, <1>9, <1>10, <1>11, <1>12, <1>13,
     <1>14, <1>15 DEF Understand, Narrate

\* What a step of a turn writes, each part of it to the turn's own row.
LEMMA WhatIsWritten ==
  ASSUME NEW t \in Turns,
         \/ ReadGame(t) \/ Submit(t) \/ Abandon(t)
         \/ Understand(t) \/ GatherContext(t) \/ Narrate(t) \/ Deliver(t) \/ Persist(t)
  PROVE  /\ faults' = faults \/ Fault
         /\ \/ row' = row \/ row' = [row EXCEPT ![t].status = "processing"]
            \/ row' = [row EXCEPT ![t] = [status |-> "complete", text |-> task[t].text]]
            \/ row' = [row EXCEPT ![t] = [status |-> "failed", text |-> task[t].text]]
            \/ row' = [row EXCEPT ![t].status = "moderated"]
            \/ row' = [row EXCEPT ![t].status = "failed"]
         /\ \/ session' = session
            \/ At(t, "cost") /\ session' = [session EXCEPT !.total = @ + task[t].spent]
            \/ session' = [session EXCEPT !.warned = TRUE]
         /\ \/ world' = world
            \/ At(t, "changes") /\ \E done \in SUBSET task[t].updates : Changed(t, done)
         /\ \/ told' = told
            \/ /\ At(t, "publish")
               /\ told' = [told EXCEPT ![t] = [status |-> task[t].status, text |-> task[t].text]]
BY DEF ReadGame, Submit, Abandon, Understand, InputCheck, MatchIntent, SkipIntent, ClassifyIntent,
       ClassifyFails, EvaluateConsequences, GatherContext, Narrate, PreCheck, Generate, GenerateFails,
       PostCheck, ExtractChanges, Deliver, Persist, SaveResult, SaveFailure, MarkModerated, SaveFails,
       BillTurn, SendWarning, BillFails, ApplyChanges, ApplyFails, Publish, PublishFails, Screen, Tables

\* Every variable keeps its type; what is published has an end, since the task has one.
LEMMA TypeStep ==
  ASSUME TypeOK, NEW t \in Turns, TaskInv(t),
         \/ ReadGame(t) \/ Submit(t) \/ Abandon(t)
         \/ Understand(t) \/ GatherContext(t) \/ Narrate(t) \/ Deliver(t) \/ Persist(t)
  PROVE  TypeOK'
<1>0. /\ row \in [Turns -> RowState] /\ told \in [Turns -> ToldState] /\ faults \in 0 .. MaxFaults
      /\ session \in SessionState /\ world \in SUBSET (Turns \X {"consequence", "extracted"})
      /\ row[t] \in RowState /\ task[t] \in TaskState
  BY DEF TypeOK
<1>1. /\ task[t].text \in Texts /\ task[t].spent \in Nat
      /\ task[t].updates \in SUBSET {"consequence", "extracted"}
      /\ task[t].status \in {"processing", "complete", "moderated", "failed"}
  BY <1>0 DEF TaskState
<1>2. task' \in [Turns -> TaskState]
  BY TaskType
<1>3. faults' \in 0 .. MaxFaults
  BY <1>0, WhatIsWritten, PipelineAssumption DEF Fault
<1>4. row' \in [Turns -> RowState]
  <2>1. /\ [row[t] EXCEPT !.status = "processing"] \in RowState
        /\ [row[t] EXCEPT !.status = "moderated"] \in RowState
        /\ [row[t] EXCEPT !.status = "failed"] \in RowState
    BY <1>0 DEF RowState
  <2>2. /\ [status |-> "complete", text |-> task[t].text] \in RowState
        /\ [status |-> "failed", text |-> task[t].text] \in RowState
    BY <1>1 DEF RowState
  <2> QED BY <1>0, <2>1, <2>2, WhatIsWritten
<1>5. session' \in SessionState
  <2>0. session.total + task[t].spent \in Nat
    BY <1>0, <1>1 DEF SessionState
  <2>1. /\ [session EXCEPT !.total = @ + task[t].spent] \in SessionState
        /\ [session EXCEPT !.warned = TRUE] \in SessionState
    BY <1>0, <2>0 DEF SessionState
  <2>2. \/ session' = session \/ session' = [session EXCEPT !.total = @ + task[t].spent]
        \/ session' = [session EXCEPT !.warned = TRUE]
    BY WhatIsWritten
  <2> QED BY <1>0, <2>1, <2>2
<1>6. world' \in SUBSET (Turns \X {"consequence", "extracted"})
  <2>1. ASSUME NEW done \in SUBSET task[t].updates, Changed(t, done)
        PROVE  world' \in SUBSET (Turns \X {"consequence", "extracted"})
    BY <1>0, <1>1, <2>1 DEF Changed
  <2>2. world' = world \/ \E done \in SUBSET task[t].updates : Changed(t, done)
    BY WhatIsWritten
  <2> QED BY <1>0, <2>1, <2>2
<1>7. told' \in [Turns -> ToldState]
  <2>1. At(t, "publish") => [status |-> task[t].status, text |-> task[t].text] \in ToldState
    BY <1>1 DEF At, TaskInv, Writes, ToldState
  <2> QED BY <1>0, <2>1, WhatIsWritten
<1> QED BY <1>2, <1>3, <1>4, <1>5, <1>6, <1>7 DEF TypeOK

-----------------------------------------------------------------------------
(* What a step of one turn leaves alone                                     *)

\* No step but the bill touches another task, ...
LEMMA OtherTasksStay ==
  ASSUME TypeOK, NEW t \in Turns, NEW u \in Turns, u # t, ~BillTurn(t),
         \/ ReadGame(t) \/ Submit(t) \/ Abandon(t)
         \/ Understand(t) \/ GatherContext(t) \/ Narrate(t) \/ Deliver(t) \/ Persist(t)
  PROVE  task'[u] = task[u]
<1>1. ASSUME NEW new, Become(t, new)
      PROVE  task'[u] = task[u]
  BY <1>1 DEF Become, TypeOK
<1>2. \E new : Become(t, new)
  BY DEF ReadGame, Submit, Abandon, Understand, InputCheck, MatchIntent, SkipIntent, ClassifyIntent,
         ClassifyFails, EvaluateConsequences, GatherContext, Narrate, PreCheck, Generate, GenerateFails,
         PostCheck, ExtractChanges, Deliver, Persist, SaveResult, SaveFailure, MarkModerated, SaveFails,
         SendWarning, BillFails, ApplyChanges, ApplyFails, Publish, PublishFails, Goto, Charge
<1> QED BY <1>1, <1>2

\* ... and the bill adds to what the others know of it.
LEMMA BillIsKnown ==
  ASSUME TypeOK, NEW t \in Turns, NEW u \in Turns, u # t, BillTurn(t)
  PROVE  task'[u] = IF t \in task[u].late THEN [task[u] EXCEPT !.since = @ + task[t].spent] ELSE task[u]
BY DEF BillTurn, TypeOK

\* Whatever one turn does, the others keep what was proved of them.
LEMMA OthersKeep ==
  ASSUME TypeOK, NEW t \in Turns, NEW u \in Turns, u # t,
         \/ ReadGame(t) \/ Submit(t) \/ Abandon(t)
         \/ Understand(t) \/ GatherContext(t) \/ Narrate(t) \/ Deliver(t) \/ Persist(t),
         TaskInv(u), RowInv(u), SeenInv(u)
  PROVE  TaskInv(u)' /\ RowInv(u)' /\ SeenInv(u)'
<1>1. /\ task'[u].pc = task[u].pc /\ task'[u].status = task[u].status
      /\ task'[u].text = task[u].text /\ task'[u].updates = task[u].updates
      /\ task'[u].outage = task[u].outage
  <2>1. CASE BillTurn(t)
    <3>1. task[u] \in TaskState
      BY DEF TypeOK
    <3>2. task'[u] = task[u] \/ \E n : task'[u] = [task[u] EXCEPT !.since = n]
      BY <2>1, BillIsKnown
    <3> QED BY <3>1, <3>2 DEF TaskState
  <2> QED BY <2>1, OtherTasksStay
<1>2. row'[u] = row[u]
  BY WhatIsWritten DEF TypeOK
<1>3. told'[u] = told[u]
  BY WhatIsWritten DEF TypeOK
<1>4. \A x \in {"consequence", "extracted"} : <<u, x>> \in world' => <<u, x>> \in world
  BY WhatIsWritten DEF Changed
<1>5. TaskInv(u)'
  BY <1>1 DEF TaskInv, Excused
<1>6. RowInv(u)'
  <2>1. faults' <= faults
    BY WhatIsWritten, PipelineAssumption DEF TypeOK, Fault
  <2>2. faults \in Nat /\ faults' \in Nat /\ MaxFaults \in Nat
    BY WhatIsWritten, PipelineAssumption DEF TypeOK, Fault
  <2>3. Stored(u) => Stored(u)'
    BY <1>1, <1>2, <2>1, <2>2 DEF Stored
  <2> QED BY <1>1, <1>2, <2>3 DEF RowInv, HasResult
<1>7. SeenInv(u)'
  BY <1>1, <1>2, <1>3, <1>4 DEF SeenInv
<1> QED BY <1>5, <1>6, <1>7

-----------------------------------------------------------------------------
(* What a step keeps of its own turn                                        *)

LEMMA Becomes ==
  ASSUME TypeOK, NEW t \in Turns, NEW new, Become(t, new)
  PROVE  task'[t] = new
BY DEF TypeOK, Become

\* Until the result is saved there is nothing to see of a turn.
Unsaved == {"idle", "reading", "deliver"} \cup Stages

LEMMA NothingToSee ==
  ASSUME NEW t \in Turns, RowInv(t), SeenInv(t), task[t].pc \in Unsaved,
         task'[t].pc \in Unsaved \cup {"persist"}, task'[t].pc # "done",
         row'[t].text = row[t].text, row'[t].status \in {row[t].status, "processing"},
         \/ task'[t].pc \in {"idle", "reading"} \/ task[t].pc \notin {"idle", "reading"}
         \/ row'[t].status = "processing",
         told' = told, world' = world
  PROVE  RowInv(t)' /\ SeenInv(t)'
<1>1. row[t].text = "none" /\ row[t].status \in {"none", "processing"}
  BY DEF RowInv, Unsaved
<1>2. task[t].pc \notin {"publish", "done"}
  BY DEF Unsaved, Stages
<1>3. task'[t].pc \notin {"moderate", "cost", "warn", "changes", "publish", "done"}
  BY DEF Unsaved, Stages
<1>4. RowInv(t)'
  BY <1>1, <1>3 DEF RowInv
<1>5. SeenInv(t)'
  BY <1>2 DEF SeenInv
<1> QED BY <1>4, <1>5

\* The stages: what they tell of a text is what they know of it.
LEMMA StagesKeep ==
  ASSUME TypeOK, NEW t \in Turns, TaskInv(t), RowInv(t), SeenInv(t),
         \/ ReadGame(t) \/ Submit(t) \/ Abandon(t)
         \/ Understand(t) \/ GatherContext(t) \/ Narrate(t) \/ Deliver(t)
  PROVE  TaskInv(t)' /\ RowInv(t)' /\ SeenInv(t)'
<1>0. task[t] \in TaskState
  BY DEF TypeOK
<1>w. /\ told' = told /\ world' = world
      /\ row'[t].text = row[t].text /\ row'[t].status \in {row[t].status, "processing"}
  <2>1. row[t] \in RowState /\ row \in [Turns -> RowState]
    BY DEF TypeOK
  <2>2. told' = told /\ world' = world /\ (row' = row \/ row' = [row EXCEPT ![t].status = "processing"])
    BY DEF ReadGame, Submit, Abandon, Understand, InputCheck, MatchIntent, SkipIntent, ClassifyIntent,
           ClassifyFails, EvaluateConsequences, GatherContext, Narrate, PreCheck, Generate, GenerateFails,
           PostCheck, ExtractChanges, Deliver, Tables
  <2> QED BY <2>1, <2>2 DEF RowState
<1>r. ASSUME Become(t, Redirected(t)), task[t].pc \in Stages
      PROVE  TaskInv(t)' /\ task'[t].pc = "persist"
  <2>1. task'[t] = [task[t] EXCEPT !.pc = "persist", !.status = "moderated", !.text = "redirect"]
    BY <1>r, Becomes DEF Redirected
  <2> QED BY <1>0, <1>r, <2>1 DEF TaskInv, Excused, TaskState, Stages, Early, Writes
<1>1. CASE ReadGame(t)
  <2>1. task'[t] = [task[t] EXCEPT !.pc = "reading", !.seed = session.total, !.late = Unbilled(t)]
    BY <1>1, Becomes DEF ReadGame
  <2>2. TaskInv(t)'
    BY <1>0, <1>1, <2>1 DEF ReadGame, At, TaskInv, Excused, TaskState, Stages, Early, Writes
  <2> QED BY <1>0, <1>1, <1>w, <2>1, <2>2, NothingToSee DEF ReadGame, At, TaskState, Unsaved
<1>2. CASE Submit(t)
  <2>1. PICK bad \in BOOLEAN : task'[t] = [task[t] EXCEPT !.pc = "input", !.badInput = bad]
    BY <1>2, Becomes DEF Submit
  <2>2. TaskInv(t)'
    BY <1>0, <1>2, <2>1 DEF Submit, At, TaskInv, Excused, TaskState, Stages, Early, Writes
  <2>3. row'[t].status = "processing"
    <3>1. row[t] \in RowState /\ row \in [Turns -> RowState]
      BY DEF TypeOK
    <3> QED BY <1>2, <3>1 DEF Submit, RowState
  <2> QED BY <1>0, <1>2, <1>w, <2>1, <2>2, <2>3, NothingToSee DEF Submit, At, TaskState, Unsaved, Stages
<1>3. CASE Abandon(t)
  <2>1. task'[t] = [task[t] EXCEPT !.pc = "persist", !.status = "failed", !.text = "none", !.attempt = 0]
    BY <1>3, Becomes DEF Abandon
  <2>2. TaskInv(t)'
    BY <1>0, <1>3, <2>1 DEF Abandon, TaskInv, Excused, TaskState, Stages, Early, Writes
  <2> QED BY <1>0, <1>3, <1>w, <2>1, <2>2, NothingToSee DEF Abandon, TaskState, Unsaved, Stages
<1>4. CASE InputCheck(t)
  <2>1. task[t].pc = "input" /\ (Goto(t, "intent") \/ Become(t, Redirected(t)))
    BY <1>4 DEF InputCheck, At
  <2>2. CASE Goto(t, "intent")
    <3>1. task'[t] = [task[t] EXCEPT !.pc = "intent"]
      BY <2>2, Becomes DEF Goto
    <3>2. TaskInv(t)'
      BY <1>0, <2>1, <3>1 DEF TaskInv, Excused, TaskState, Stages, Early, Writes
    <3> QED BY <1>0, <1>w, <2>1, <3>1, <3>2, NothingToSee DEF TaskState, Unsaved, Stages
  <2> QED BY <1>r, <1>w, <2>1, <2>2, NothingToSee DEF Unsaved, Stages
<1>5. CASE MatchIntent(t) \/ SkipIntent(t) \/ ClassifyFails(t) \/ GatherContext(t)
  <2>1. PICK pc \in {"consequences", "context", "precheck"} :
          task'[t] = [task[t] EXCEPT !.pc = pc] /\ task[t].pc \in {"intent", "again", "context"}
    BY <1>5, Becomes DEF MatchIntent, SkipIntent, ClassifyFails, GatherContext, At, Goto
  <2>2. TaskInv(t)'
    BY <1>0, <2>1 DEF TaskInv, Excused, TaskState, Stages, Early, Writes
  <2> QED BY <1>0, <1>w, <2>1, <2>2, NothingToSee DEF TaskState, Unsaved, Stages
<1>6. CASE ClassifyIntent(t)
  <2>0. PICK cost \in Costs, next \in {"again", "consequences"} : Charge(t, cost, next)
    BY <1>6 DEF ClassifyIntent
  <2>1. \E spent : task'[t] = [task[t] EXCEPT !.pc = next, !.spent = spent]
    BY <2>0, Becomes DEF Charge
  <2>2. TaskInv(t)'
    BY <1>0, <1>6, <2>1 DEF ClassifyIntent, TaskInv, Excused, TaskState, Stages, Early, Writes
  <2> QED BY <1>0, <1>6, <1>w, <2>1, <2>2, NothingToSee DEF ClassifyIntent, TaskState, Unsaved, Stages
<1>7. CASE EvaluateConsequences(t)
  <2>1. PICK due \in SUBSET {"consequence"} :
          task'[t] = [task[t] EXCEPT !.pc = "context", !.updates = due]
    BY <1>7, Becomes DEF EvaluateConsequences
  <2>2. TaskInv(t)'
    BY <1>0, <1>7, <2>1 DEF EvaluateConsequences, At, TaskInv, Excused, TaskState, Stages, Early, Writes
  <2> QED BY <1>0, <1>7, <1>w, <2>1, <2>2, NothingToSee DEF EvaluateConsequences, At, TaskState, Unsaved, Stages
<1>8. CASE PreCheck(t)
  <2>1. /\ task[t].pc = "precheck"
        /\ \/ task'[t] = [task[t] EXCEPT !.pc = "generate"]
           \/ task'[t] = [task[t] EXCEPT !.pc = "persist", !.status = "failed"]
    BY <1>8, Becomes DEF PreCheck, At, Goto
  <2>2. TaskInv(t)'
    BY <1>0, <2>1, ZenonT(60) DEF TaskInv, Excused, TaskState, Stages, Early, Writes
  <2> QED BY <1>0, <1>w, <2>1, <2>2, NothingToSee DEF TaskState, Unsaved, Stages
<1>9. CASE Generate(t)
  <2>0. PICK cost \in Costs, text \in {"clean", "bad"} :
          Become(t, [task[t] EXCEPT !.pc = "postcheck", !.spent = @ + cost, !.text = text,
                                    !.attempt = 0])
    BY <1>9 DEF Generate
  <2>1. \E spent : task'[t] = [task[t] EXCEPT !.pc = "postcheck", !.spent = spent, !.text = text,
                                             !.attempt = 0]
    BY <2>0, Becomes
  <2>2. TaskInv(t)'
    BY <1>0, <1>9, <2>1 DEF Generate, At, TaskInv, Excused, TaskState, Stages, Early, Writes
  <2> QED BY <1>0, <1>9, <1>w, <2>1, <2>2, NothingToSee DEF Generate, At, TaskState, Unsaved, Stages
<1>10. CASE GenerateFails(t)
  <2>1. \/ \E n : task'[t] = [task[t] EXCEPT !.attempt = n]
        \/ task'[t] = [task[t] EXCEPT !.pc = "postcheck", !.text = "fallback", !.attempt = 0]
    BY <1>10, Becomes DEF GenerateFails
  <2>2. /\ task[t].pc = "generate" /\ task'[t].pc \in {"generate", "postcheck"}
        /\ task'[t].status = task[t].status /\ task'[t].updates = task[t].updates
        /\ \/ task'[t].pc = "generate" /\ task'[t].text = task[t].text
           \/ task'[t].pc = "postcheck" /\ task'[t].text = "fallback"
    BY <1>0, <1>10, <2>1 DEF GenerateFails, At, TaskState
  <2>3. TaskInv(t)'
    BY <2>2 DEF TaskInv, Excused, Stages, Early, Writes
  <2> QED BY <1>w, <2>2, <2>3, NothingToSee DEF Unsaved, Stages
<1>11. CASE PostCheck(t)
  <2>1. PICK safe \in BOOLEAN :
          /\ Screen(task[t].text = "bad", safe)
          /\ Become(t, IF safe
               THEN [task[t] EXCEPT !.pc = IF task[t].text = "fallback" THEN "deliver" ELSE "extract",
                                    !.outage = task[t].text = "bad"]
               ELSE Redirected(t))
    BY <1>11 DEF PostCheck
  <2>2. CASE safe
    <3>1. task'[t] = [task[t] EXCEPT !.pc = IF task[t].text = "fallback" THEN "deliver" ELSE "extract",
                                     !.outage = task[t].text = "bad"]
      BY <2>1, <2>2, Becomes
    <3>2. task[t].text = "bad" => FailOpen
      BY <2>1, <2>2 DEF Screen
    <3>3. TaskInv(t)'
      BY <1>0, <1>11, <3>1, <3>2 DEF PostCheck, At, TaskInv, Excused, TaskState, Stages, Early, Writes
    <3> QED BY <1>0, <1>11, <1>w, <3>1, <3>3, NothingToSee DEF PostCheck, At, TaskState, Unsaved, Stages
  <2> QED BY <1>r, <1>11, <1>w, <2>1, <2>2, NothingToSee DEF PostCheck, At, Unsaved, Stages
<1>12. CASE ExtractChanges(t)
  <2>1. \E spent, found : /\ found \in SUBSET {"extracted"}
                          /\ task'[t] = [task[t] EXCEPT !.pc = "deliver", !.spent = spent,
                                                        !.updates = @ \cup found]
    <3>1. CASE Goto(t, "deliver")
      <4>1. task'[t] = [task[t] EXCEPT !.pc = "deliver"]
        BY <3>1, Becomes DEF Goto
      <4>2. [task[t] EXCEPT !.pc = "deliver"]
              = [task[t] EXCEPT !.pc = "deliver", !.spent = task[t].spent, !.updates = @ \cup {}]
        BY <1>0 DEF TaskState
      <4> QED BY <4>1, <4>2
    <3>2. ASSUME NEW cost \in Costs, NEW found \in SUBSET {"extracted"},
                 Become(t, [task[t] EXCEPT !.pc = "deliver", !.spent = @ + cost, !.updates = @ \cup found])
          PROVE  \E spent : task'[t] = [task[t] EXCEPT !.pc = "deliver", !.spent = spent,
                                                       !.updates = @ \cup found]
      BY <3>2, Becomes
    <3> QED BY <1>12, <3>1, <3>2 DEF ExtractChanges
  <2>2. task'[t].pc = "deliver" /\ task'[t].status = task[t].status /\ task'[t].text = task[t].text
        /\ task'[t].outage = task[t].outage
    BY <1>0, <2>1 DEF TaskState
  <2>3. TaskInv(t)'
    BY <1>12, <2>2 DEF ExtractChanges, At, TaskInv, Excused, Stages, Early, Writes
  <2> QED BY <1>12, <1>w, <2>2, <2>3, NothingToSee DEF ExtractChanges, At, Unsaved, Stages
<1>13. CASE Deliver(t)
  <2>1. task'[t] = [task[t] EXCEPT !.pc = "persist", !.status = "complete"]
    BY <1>13, Becomes DEF Deliver
  <2>2. TaskInv(t)'
    BY <1>0, <1>13, <2>1 DEF Deliver, At, TaskInv, Excused, TaskState, Stages, Early, Writes
  <2> QED BY <1>0, <1>13, <1>w, <2>1, <2>2, NothingToSee DEF Deliver, At, TaskState, Unsaved
<1> QED
  BY <1>1, <1>2, <1>3, <1>4, <1>5, <1>6, <1>7, <1>8, <1>9, <1>10, <1>11, <1>12, <1>13
  DEF Understand, Narrate

\* The writes: the row gets the text of the task and keeps it, the world changes after it.
LEMMA WritesKeep ==
  ASSUME TypeOK, NEW t \in Turns, TaskInv(t), RowInv(t), SeenInv(t), Persist(t)
  PROVE  TaskInv(t)' /\ RowInv(t)' /\ SeenInv(t)'
<1>0. task[t] \in TaskState /\ row \in [Turns -> RowState] /\ row[t] \in RowState
  BY DEF TypeOK
\* A task on its way through the writes keeps what it knows.
<1>g. ASSUME NEW pc \in Writes \cup {"done"}, task'[t] = [task[t] EXCEPT !.pc = pc], task[t].pc \in Writes
      PROVE  /\ TaskInv(t)' /\ task'[t].pc = pc
             /\ task'[t].status = task[t].status /\ task'[t].text = task[t].text
             /\ task'[t].updates = task[t].updates
  <2>1. /\ task'[t].pc = pc /\ task'[t].status = task[t].status /\ task'[t].text = task[t].text
        /\ task'[t].updates = task[t].updates /\ task'[t].outage = task[t].outage
    BY <1>0, <1>g DEF TaskState
  <2>2. TaskInv(t)'
    BY <1>g, <2>1 DEF TaskInv, Excused, Stages, Early, Writes
  <2> QED BY <2>1, <2>2
<1>1. CASE SaveResult(t)
  <2>1. PICK pc \in {"moderate", "cost"} :
          /\ task'[t] = [task[t] EXCEPT !.pc = pc]
          /\ task[t].status = IF pc = "moderate" THEN "moderated" ELSE "complete"
    BY <1>1, Becomes DEF SaveResult, HasResult, Goto
  <2>2. row'[t] = [status |-> "complete", text |-> task[t].text] /\ told' = told /\ world' = world
    BY <1>0, <1>1 DEF SaveResult
  <2>3. /\ TaskInv(t)' /\ task'[t].pc = pc
        /\ task'[t].status = task[t].status /\ task'[t].text = task[t].text
    BY <1>1, <1>g, <2>1 DEF SaveResult, At, Writes
  <2>4. RowInv(t)'
    BY <1>1, <2>1, <2>2, <2>3 DEF SaveResult, HasResult, RowInv, Stages
  <2>5. SeenInv(t)'
    BY <1>1, <2>2, <2>3 DEF SaveResult, At, SeenInv
  <2> QED BY <2>3, <2>4, <2>5
<1>2. CASE SaveFailure(t)
  <2>1. task'[t] = [task[t] EXCEPT !.pc = "publish"]
    BY <1>2, Becomes DEF SaveFailure, Goto
  <2>2. row'[t] = [status |-> "failed", text |-> task[t].text] /\ told' = told /\ world' = world
    BY <1>0, <1>2 DEF SaveFailure
  <2>3. /\ TaskInv(t)' /\ task'[t].pc = "publish"
        /\ task'[t].status = task[t].status /\ task'[t].text = task[t].text
    BY <1>2, <1>g, <2>1 DEF SaveFailure, At, Writes
  <2>4. task[t].status = "failed" /\ task[t].text = "none"
    <3>1. task[t].status \in {"processing", "complete", "moderated", "failed"}
      BY <1>0 DEF TaskState
    <3> QED BY <1>2, <3>1 DEF SaveFailure, At, HasResult, TaskInv, Writes
  <2>6. RowInv(t)'
    BY <2>2, <2>3, <2>4 DEF RowInv, Stored, Stages
  <2>5. SeenInv(t)'
    BY <1>2, <2>2, <2>3 DEF SaveFailure, At, SeenInv
  <2> QED BY <2>3, <2>5, <2>6
<1>3. CASE MarkModerated(t)
  <2>1. task'[t] = [task[t] EXCEPT !.pc = "cost"]
    BY <1>3, Becomes DEF MarkModerated, Goto
  <2>2. /\ row'[t].text = row[t].text /\ row'[t].status = "moderated"
        /\ told' = told /\ world' = world
    BY <1>0, <1>3 DEF MarkModerated, RowState
  <2>3. /\ TaskInv(t)' /\ task'[t].pc = "cost"
        /\ task'[t].status = task[t].status /\ task'[t].text = task[t].text
    BY <1>3, <1>g, <2>1 DEF MarkModerated, At, Writes
  <2>4. RowInv(t)'
    BY <1>3, <2>2, <2>3 DEF MarkModerated, At, HasResult, RowInv, Stages
  <2>5. SeenInv(t)'
    BY <1>3, <2>2, <2>3 DEF MarkModerated, At, SeenInv
  <2> QED BY <2>3, <2>4, <2>5
<1>4. CASE SaveFails(t)
  <2>1. task'[t] = [task[t] EXCEPT !.pc = "publish"]
    BY <1>4, Becomes DEF SaveFails, Goto
  <2>2. /\ row'[t].text = row[t].text /\ row'[t].status \in {row[t].status, "failed"}
        /\ told' = told /\ world' = world
    BY <1>0, <1>4 DEF SaveFails, RowState
  <2>3. /\ TaskInv(t)' /\ task'[t].pc = "publish"
        /\ task'[t].status = task[t].status /\ task'[t].text = task[t].text
    BY <1>4, <1>g, <2>1 DEF SaveFails, Writes
  <2>4. faults' < MaxFaults
    BY <1>4, PipelineAssumption DEF SaveFails, Fault, TypeOK
  <2>6. \/ row'[t].text = task'[t].text
        \/ row'[t].text = "none" /\ row'[t].status \in {"processing", "failed"}
    BY <1>4, <2>2, <2>3 DEF SaveFails, RowInv
  <2>7. Stored(t)'
    BY <2>4, <2>6 DEF Stored
  <2>8. RowInv(t)'
    BY <1>4, <2>2, <2>3, <2>7 DEF SaveFails, HasResult, RowInv, Stages
  <2>5. SeenInv(t)'
    BY <1>4, <2>2, <2>3 DEF SaveFails, SeenInv
  <2> QED BY <2>3, <2>5, <2>8
\* The bill, its warning, and either of them failing.
<1>5. CASE BillTurn(t) \/ SendWarning(t) \/ BillFails(t)
  <2>1. PICK pc \in {"warn", "changes"} : task'[t] = [task[t] EXCEPT !.pc = pc]
    BY <1>5, Becomes DEF BillTurn, SendWarning, BillFails, Goto
  <2>2. task[t].pc \in {"cost", "warn"} /\ row' = row /\ told' = told /\ world' = world
    BY <1>5 DEF BillTurn, SendWarning, BillFails, At, Tables
  <2>3. /\ TaskInv(t)' /\ task'[t].pc = pc
        /\ task'[t].status = task[t].status /\ task'[t].text = task[t].text
    BY <1>g, <2>1, <2>2 DEF Writes
  <2>4. RowInv(t)'
    BY <2>2, <2>3 DEF HasResult, RowInv, Stages
  <2>5. SeenInv(t)'
    BY <2>2, <2>3 DEF SeenInv
  <2> QED BY <2>3, <2>4, <2>5
<1>6. CASE ApplyChanges(t) \/ ApplyFails(t)
  <2>1. task'[t] = [task[t] EXCEPT !.pc = "publish"] /\ task[t].pc = "changes" /\ row' = row /\ told' = told
    BY <1>6, Becomes DEF ApplyChanges, ApplyFails, Goto, At
  <2>2. PICK done \in SUBSET task[t].updates : world' = world \cup {<<t, u>> : u \in done}
    BY <1>6 DEF ApplyChanges, ApplyFails, Changed
  <2>3. /\ TaskInv(t)' /\ task'[t].pc = "publish"
        /\ task'[t].status = task[t].status /\ task'[t].text = task[t].text
        /\ task'[t].updates = task[t].updates
    BY <1>g, <2>1 DEF Writes
  <2>4. RowInv(t)'
    BY <2>1, <2>3 DEF HasResult, RowInv, Stored, Stages
  <2>5. SeenInv(t)'
    <3>1. row[t].text = task[t].text /\ task[t].text # "none"
      BY <2>1 DEF RowInv, HasResult
    <3>2. \A u \in {"consequence", "extracted"} : <<t, u>> \in world' => u \in task[t].updates
      BY <2>1, <2>2 DEF SeenInv
    <3> QED BY <2>1, <2>3, <3>1, <3>2 DEF SeenInv
  <2> QED BY <2>3, <2>4, <2>5
<1>7. CASE Publish(t) \/ PublishFails(t)
  <2>1. /\ task'[t] = [task[t] EXCEPT !.pc = "done"] /\ task[t].pc = "publish"
        /\ row' = row /\ world' = world
    BY <1>7, Becomes DEF Publish, PublishFails, Goto, At, Tables
  <2>2. told'[t] \in {told[t], [status |-> task[t].status, text |-> task[t].text]}
    BY <1>7 DEF Publish, PublishFails, Tables, TypeOK
  <2>3. /\ TaskInv(t)' /\ task'[t].pc = "done"
        /\ task'[t].status = task[t].status /\ task'[t].text = task[t].text
        /\ task'[t].updates = task[t].updates
    BY <1>g, <2>1 DEF Writes
  <2>4. RowInv(t)'
    <3>1. faults' <= faults
      BY <1>7, PipelineAssumption DEF Publish, PublishFails, Fault, TypeOK
    <3>2. faults \in Nat /\ faults' \in Nat /\ MaxFaults \in Nat
      BY <1>7, PipelineAssumption DEF Publish, PublishFails, Fault, TypeOK
    <3>3. Stored(t)'
      BY <2>1, <2>3, <3>1, <3>2 DEF RowInv, Stored
    <3> QED BY <2>1, <2>3, <3>3 DEF RowInv, Stages
  <2>5. SeenInv(t)'
    <3>1. task[t].status \in {"processing", "complete", "moderated", "failed"}
      BY <1>0 DEF TaskState
    <3> QED BY <2>1, <2>2, <2>3, <3>1 DEF SeenInv
  <2> QED BY <2>3, <2>4, <2>5
<1> QED
  BY <1>1, <1>2, <1>3, <1>4, <1>5, <1>6, <1>7 DEF Persist

-----------------------------------------------------------------------------
(* The cost of a session                                                    *)

\* What any step but the beginning of a turn and its bill does to the costs: a turn spends
\* more only while it owes its bill, and only with a budget left before the call.
Spends(t) ==
  /\ \A u \in Turns : u # t => task'[u] = task[u]
  /\ session'.total = session.total
  /\ task[t].pc # "idle" /\ task'[t].pc \notin {"idle", "reading"}
  /\ task'[t].seed = task[t].seed /\ task'[t].since = task[t].since
  /\ task'[t].pc \in Owing => task[t].pc \in {"reading"} \cup Owing
  /\ \/ task'[t].spent = task[t].spent
     \/ /\ task[t].pc \in Owing /\ task'[t].pc \in Owing
        /\ task'[t].spent >= task[t].spent
        /\ task[t].seed + task'[t].spent < Cap + MaxCost

\* The numbers of a task.
LEMMA Numbers ==
  ASSUME TypeOK, NEW t \in Turns
  PROVE  /\ task[t].seed \in Nat /\ task[t].since \in Nat /\ task[t].spent \in Nat
         /\ session.total \in Nat
<1>1. task[t] \in TaskState /\ session \in SessionState
  BY DEF TypeOK
<1> QED BY <1>1 DEF TaskState, SessionState

\* Turns begin in their order.
LEMMA InOrder ==
  ASSUME NEW t \in Turns, NEW u \in Turns, u < t, task[t].pc # "idle", CostInv(t)
  PROVE  task[u].pc \notin {"idle", "reading"} /\ (task[u].pc \in Owing => u \in task[t].late)
BY PipelineAssumption DEF CostInv, Turns

LEMMA SpendingKeeps ==
  ASSUME TypeOK, TypeOK', NEW t \in Turns, NEW w \in Turns, Spends(t), CostInv(t), CostInv(w),
         task'[t].late = task[t].late
  PROVE  CostInv(w)'
<1>0. /\ task[w].seed \in Nat /\ task[w].since \in Nat /\ task[w].spent \in Nat
      /\ task[t].spent \in Nat /\ task'[t].spent \in Nat /\ session.total \in Nat
  <2>1. task'[t].spent \in Nat
    <3>1. task'[t] \in TaskState
      BY DEF TypeOK
    <3> QED BY <3>1 DEF TaskState
  <2> QED BY <2>1, Numbers
<1>1. task'[w].pc \in {"idle", "reading"} => task'[w].spent = 0
  BY DEF Spends, CostInv
<1>2. ASSUME task'[w].pc # "idle", NEW u \in 1 .. w - 1
      PROVE  task'[u].pc \notin {"idle", "reading"} /\ (task'[u].pc \in Owing => u \in task'[w].late)
  <2>1. u \in Turns /\ u < w /\ task[w].pc # "idle" /\ task'[w].late = task[w].late
    BY <1>2, PipelineAssumption DEF Turns, Spends
  <2>2. task[u].pc \notin {"idle", "reading"} /\ (task[u].pc \in Owing => u \in task[w].late)
    BY <2>1, InOrder
  <2> QED BY <2>1, <2>2 DEF Spends
<1>3. task'[w].spent > 0 => task'[w].seed + task'[w].spent < Cap + MaxCost
  BY <1>0 DEF Spends, CostInv
<1>4. ASSUME task'[w].pc # "idle", \A u \in Turns : u > w => task'[u].spent = 0
      PROVE  session'.total <= task'[w].seed + task'[w].since
               + (IF task'[w].pc \in {"reading"} \cup Owing THEN 0 ELSE task'[w].spent)
  <2>1. task[w].pc # "idle" /\ \A u \in Turns : u > w => task[u].spent = 0
    BY <1>0, <1>4, Numbers DEF Spends
  <2>2. session.total <= task[w].seed + task[w].since
          + (IF task[w].pc \in {"reading"} \cup Owing THEN 0 ELSE task[w].spent)
    BY <2>1 DEF CostInv
  <2>3. CASE w # t
    BY <2>2, <2>3 DEF Spends
  <2>4. CASE w = t
    BY <1>0, <2>2, <2>4 DEF Spends
  <2> QED BY <2>3, <2>4
<1> QED BY <1>1, <1>2, <1>3, <1>4 DEF CostInv

\* Every step but these two spends in that way.
LEMMA StepSpends ==
  ASSUME TypeOK, NEW t \in Turns, TaskInv(t), CostInv(t), ~ReadGame(t), ~BillTurn(t),
         \/ ReadGame(t) \/ Submit(t) \/ Abandon(t)
         \/ Understand(t) \/ GatherContext(t) \/ Narrate(t) \/ Deliver(t) \/ Persist(t)
  PROVE  Spends(t) /\ task'[t].late = task[t].late
<1>0. task[t] \in TaskState /\ session \in SessionState
  BY DEF TypeOK
<1>1. \A u \in Turns : u # t => task'[u] = task[u]
  BY OtherTasksStay
<1>2. session'.total = session.total
  <2>1. session' = session \/ session' = [session EXCEPT !.warned = TRUE]
    BY DEF Submit, Abandon, Understand, InputCheck, MatchIntent, SkipIntent, ClassifyIntent,
           ClassifyFails, EvaluateConsequences, GatherContext, Narrate, PreCheck, Generate, GenerateFails,
           PostCheck, ExtractChanges, Deliver, Persist, SaveResult, SaveFailure, MarkModerated, SaveFails,
           SendWarning, BillFails, ApplyChanges, ApplyFails, Publish, PublishFails, Tables
  <2> QED BY <1>0, <2>1 DEF SessionState
\* A call that is paid for.
<1>p. ASSUME NEW cost \in Costs, CanSpend(t), task[t].pc \in Stages, task'[t].pc \in Stages \cup {"deliver"},
             task'[t].spent = task[t].spent + cost, task'[t].seed = task[t].seed,
             task'[t].since = task[t].since
      PROVE  Spends(t)
  <2>1. task[t].spent + cost >= task[t].spent /\ task[t].seed + (task[t].spent + cost) < Cap + MaxCost
    BY <1>p, Numbers, PipelineAssumption DEF CanSpend, Costs
  <2>2. task[t].pc # "idle" /\ task'[t].pc \notin {"idle", "reading"}
    BY <1>p DEF Stages
  <2> QED BY <1>1, <1>2, <1>p, <2>1, <2>2 DEF Spends, Owing
\* A step that costs nothing.
<1>f. ASSUME task[t].pc # "idle", task'[t].pc \notin {"idle", "reading"},
             task'[t].pc \in Owing => task[t].pc \in {"reading"} \cup Owing,
             task'[t].spent = task[t].spent, task'[t].seed = task[t].seed,
             task'[t].since = task[t].since
      PROVE  Spends(t)
  BY <1>1, <1>2, <1>f DEF Spends
<1>3. CASE ClassifyIntent(t)
  <2>1. PICK cost \in Costs, next \in {"again", "consequences"} : Charge(t, cost, next)
    BY <1>3 DEF ClassifyIntent
  <2>2. task'[t] = [task[t] EXCEPT !.pc = next, !.spent = @ + cost]
    BY <2>1, Becomes DEF Charge
  <2>3. /\ task'[t].pc = next /\ task'[t].spent = task[t].spent + cost /\ task'[t].seed = task[t].seed
        /\ task'[t].since = task[t].since /\ task'[t].late = task[t].late
    BY <1>0, <2>2 DEF TaskState
  <2> QED BY <1>3, <1>p, <2>3 DEF ClassifyIntent, Stages
<1>4. CASE Generate(t)
  <2>1. PICK cost \in Costs, text \in {"clean", "bad"} :
          Become(t, [task[t] EXCEPT !.pc = "postcheck", !.spent = @ + cost, !.text = text,
                                    !.attempt = 0])
    BY <1>4 DEF Generate
  <2>2. task'[t] = [task[t] EXCEPT !.pc = "postcheck", !.spent = @ + cost, !.text = text,
                                    !.attempt = 0]
    BY <2>1, Becomes
  <2>3. /\ task'[t].pc = "postcheck" /\ task'[t].spent = task[t].spent + cost
        /\ task'[t].seed = task[t].seed
        /\ task'[t].since = task[t].since /\ task'[t].late = task[t].late
    BY <1>0, <2>2 DEF TaskState
  <2> QED BY <1>4, <1>p, <2>3 DEF Generate, At, Stages
<1>5. CASE ExtractChanges(t)
  <2>1. CASE Goto(t, "deliver")
    <3>1. task'[t] = [task[t] EXCEPT !.pc = "deliver"]
      BY <2>1, Becomes DEF Goto
    <3>2. /\ task'[t].pc = "deliver" /\ task'[t].spent = task[t].spent /\ task'[t].seed = task[t].seed
          /\ task'[t].since = task[t].since /\ task'[t].late = task[t].late
      BY <1>0, <3>1 DEF TaskState
    <3> QED BY <1>5, <1>f, <3>2 DEF ExtractChanges, At, Owing, Stages
  <2>2. ASSUME NEW cost \in Costs, NEW found \in SUBSET {"extracted"}, CanSpend(t),
               Become(t, [task[t] EXCEPT !.pc = "deliver", !.spent = @ + cost, !.updates = @ \cup found])
        PROVE  Spends(t) /\ task'[t].late = task[t].late
    <3>1. task'[t] = [task[t] EXCEPT !.pc = "deliver", !.spent = @ + cost, !.updates = @ \cup found]
      BY <2>2, Becomes
    <3>2. /\ task'[t].pc = "deliver" /\ task'[t].spent = task[t].spent + cost
          /\ task'[t].seed = task[t].seed
          /\ task'[t].since = task[t].since /\ task'[t].late = task[t].late
      BY <1>0, <3>1 DEF TaskState
    <3> QED BY <1>5, <1>p, <2>2, <3>2 DEF ExtractChanges, At, Stages
  <2> QED BY <1>5, <2>1, <2>2 DEF ExtractChanges
<1>6. CASE Submit(t)
  <2>1. PICK bad \in BOOLEAN : task'[t] = [task[t] EXCEPT !.pc = "input", !.badInput = bad]
    BY <1>6, Becomes DEF Submit
  <2>2. /\ task'[t].pc = "input" /\ task'[t].spent = task[t].spent /\ task'[t].seed = task[t].seed
        /\ task'[t].since = task[t].since /\ task'[t].late = task[t].late
    BY <1>0, <2>1 DEF TaskState
  <2> QED BY <1>6, <1>f, <2>2 DEF Submit, At
\* The stages that ask no model, and a call that fails.
<1>7. CASE \/ Abandon(t) \/ InputCheck(t) \/ EvaluateConsequences(t) \/ PreCheck(t) \/ GenerateFails(t)
           \/ PostCheck(t) \/ Deliver(t)
           \/ MatchIntent(t) \/ SkipIntent(t) \/ ClassifyFails(t) \/ GatherContext(t)
  <2> DEFINE Free == /\ task'[t].pc \in Stages \cup {"deliver", "persist"}
                     /\ task'[t].spent = task[t].spent /\ task'[t].seed = task[t].seed
                     /\ task'[t].since = task[t].since /\ task'[t].late = task[t].late
  <2>0. ASSUME Become(t, Redirected(t)) PROVE Free
    <3>1. task'[t] = [task[t] EXCEPT !.pc = "persist", !.status = "moderated", !.text = "redirect"]
      BY <2>0, Becomes DEF Redirected
    <3> QED BY <1>0, <3>1 DEF TaskState
  <2>1. ASSUME NEW pc \in Stages \cup {"deliver", "persist"}, Goto(t, pc) PROVE Free
    <3>1. task'[t] = [task[t] EXCEPT !.pc = pc]
      BY <2>1, Becomes DEF Goto
    <3> QED BY <1>0, <3>1 DEF TaskState
  <2>2. CASE Abandon(t)
    <3>1. task'[t] = [task[t] EXCEPT !.pc = "persist", !.status = "failed", !.text = "none", !.attempt = 0]
      BY <2>2, Becomes DEF Abandon
    <3> QED BY <1>0, <1>f, <2>2, <3>1 DEF Abandon, TaskState, Owing, Stages
  <2>3. CASE InputCheck(t)
    <3>1. Free
      BY <2>0, <2>1, <2>3 DEF InputCheck, Stages
    <3> QED BY <1>f, <2>3, <3>1 DEF InputCheck, At, Owing, Stages
  <2>4. CASE EvaluateConsequences(t)
    <3>1. PICK due \in SUBSET {"consequence"} :
            task'[t] = [task[t] EXCEPT !.pc = "context", !.updates = due]
      BY <2>4, Becomes DEF EvaluateConsequences
    <3> QED BY <1>0, <1>f, <2>4, <3>1 DEF EvaluateConsequences, At, TaskState, Owing, Stages
  <2>5. CASE PreCheck(t)
    <3>1. \/ Goto(t, "generate")
          \/ task'[t] = [task[t] EXCEPT !.pc = "persist", !.status = "failed"]
      BY <2>5, Becomes DEF PreCheck
    <3>2. Free
      BY <1>0, <2>1, <3>1 DEF TaskState, Stages
    <3> QED BY <1>f, <2>5, <3>2 DEF PreCheck, At, Owing, Stages
  <2>6. CASE GenerateFails(t)
    <3>1. \/ \E n : task'[t] = [task[t] EXCEPT !.attempt = n]
          \/ task'[t] = [task[t] EXCEPT !.pc = "postcheck", !.text = "fallback", !.attempt = 0]
      BY <2>6, Becomes DEF GenerateFails
    <3>2. Free
      BY <1>0, <2>6, <3>1 DEF GenerateFails, At, TaskState, Stages
    <3> QED BY <1>f, <2>6, <3>2 DEF GenerateFails, At, Owing, Stages
  <2>7. CASE PostCheck(t)
    <3>1. \/ task'[t] = [task[t] EXCEPT !.pc = IF task[t].text = "fallback" THEN "deliver" ELSE "extract",
                                        !.outage = task[t].text = "bad"]
          \/ Become(t, Redirected(t))
      BY <2>7, Becomes DEF PostCheck
    <3>2. Free
      BY <1>0, <2>0, <3>1 DEF TaskState, Stages
    <3> QED BY <1>f, <2>7, <3>2 DEF PostCheck, At, Owing, Stages
  <2>8. CASE Deliver(t)
    <3>1. task'[t] = [task[t] EXCEPT !.pc = "persist", !.status = "complete"]
      BY <2>8, Becomes DEF Deliver
    <3> QED BY <1>0, <1>f, <2>8, <3>1 DEF Deliver, At, TaskState, Owing, Stages
  <2>9. CASE MatchIntent(t) \/ SkipIntent(t) \/ ClassifyFails(t) \/ GatherContext(t)
    <3>1. Free /\ task[t].pc \in {"intent", "again", "context"}
      BY <2>1, <2>9 DEF MatchIntent, SkipIntent, ClassifyFails, GatherContext, At, Stages
    <3> QED BY <1>f, <3>1 DEF Owing, Stages
  <2> QED BY <1>7, <2>2, <2>3, <2>4, <2>5, <2>6, <2>7, <2>8, <2>9
\* The writes.
<1>8. CASE Persist(t)
  <2>1. PICK pc \in Writes \cup {"done"} :
          /\ Goto(t, pc) /\ task[t].pc \in Writes
          /\ task[t].pc \in {"persist", "moderate", "cost"} \/ pc \in {"changes", "publish", "done"}
    BY <1>8 DEF Persist, SaveResult, SaveFailure, MarkModerated, SaveFails, SendWarning, BillFails,
                ApplyChanges, ApplyFails, Publish, PublishFails, Writes, At
  <2>2. task'[t] = [task[t] EXCEPT !.pc = pc]
    BY <2>1, Becomes DEF Goto
  <2>3. /\ task'[t].pc = pc /\ task'[t].spent = task[t].spent /\ task'[t].seed = task[t].seed
        /\ task'[t].since = task[t].since /\ task'[t].late = task[t].late
    BY <1>0, <2>2 DEF TaskState
  <2>4. task'[t].pc \in Owing => task[t].pc \in Owing
    BY <2>1, <2>3 DEF Owing, Stages
  <2> QED BY <1>f, <2>1, <2>3, <2>4 DEF Writes
<1> QED
  BY <1>3, <1>4, <1>5, <1>6, <1>7, <1>8 DEF Understand, Narrate

\* A turn that begins reads the total and knows whose bills are missing in it.
LEMMA ReadingKeeps ==
  ASSUME TypeOK, NEW t \in Turns, NEW w \in Turns, ReadGame(t), \A u \in Turns : CostInv(u)
  PROVE  CostInv(w)'
<1>0. task[t] \in TaskState
  BY DEF TypeOK
<1>1. task'[t] = [task[t] EXCEPT !.pc = "reading", !.seed = session.total, !.late = Unbilled(t)]
  BY Becomes DEF ReadGame
<1>2. /\ task'[t].pc = "reading" /\ task'[t].seed = session.total /\ task'[t].late = Unbilled(t)
      /\ task'[t].since = task[t].since /\ task'[t].spent = task[t].spent
  BY <1>0, <1>1 DEF TaskState
<1>3. /\ \A u \in Turns : u # t => task'[u] = task[u]
      /\ session' = session /\ task[t].pc = "idle"
  BY OtherTasksStay DEF ReadGame, BillTurn, At, Tables
<1>4. CASE w = t
  <2>1. task[t].spent = 0
    BY <1>3 DEF CostInv
  <2>2. ASSUME NEW u \in 1 .. t - 1
        PROVE  u \in Turns /\ task[u].pc \notin {"idle", "reading"}
    <3>1. u \in Turns /\ t - 1 \in Turns /\ u <= t - 1 /\ t > 1
      BY PipelineAssumption DEF Turns
    <3>2. task[t-1].pc \notin {"idle", "reading"}
      BY <3>1 DEF ReadGame
    <3>3. CASE u < t - 1
      BY <3>1, <3>2, <3>3, InOrder
    <3> QED BY <3>1, <3>2, <3>3 DEF Turns
  <2>3. \A u \in 1 .. t - 1 : task[u].pc \in Owing => u \in Unbilled(t)
    BY DEF Unbilled, Owing
  <2>4. \A u \in 1 .. t - 1 : task'[u].pc \notin {"idle", "reading"}
                              /\ (task'[u].pc \in Owing => u \in task'[t].late)
    BY <1>2, <1>3, <2>2, <2>3 DEF Turns
  <2>5. session'.total <= task'[t].seed + task'[t].since + 0
    BY <1>2, <1>3, Numbers
  <2> QED BY <1>2, <1>4, <2>1, <2>4, <2>5, Numbers DEF CostInv
<1>5. CASE w # t
  <2>1. task'[w] = task[w]
    BY <1>3, <1>5
  <2>2. ASSUME task[w].pc # "idle", NEW u \in 1 .. w - 1
        PROVE  task'[u] = task[u]
    <3>1. u \in Turns /\ u < w
      BY PipelineAssumption DEF Turns
    <3>2. task[u].pc # "idle"
      BY <2>2, <3>1, InOrder
    <3> QED BY <1>3, <3>1, <3>2
  <2>3. \A u \in Turns : task'[u].spent = task[u].spent
    BY <1>2, <1>3
  <2> QED BY <1>3, <2>1, <2>2, <2>3 DEF CostInv
<1> QED BY <1>4, <1>5

\* The bill adds to the total what the turn spent, and the turns after it know.
LEMMA BillKeeps ==
  ASSUME TypeOK, NEW t \in Turns, NEW w \in Turns, BillTurn(t), \A u \in Turns : CostInv(u)
  PROVE  CostInv(w)'
<1>0. /\ task[t] \in TaskState /\ task[w] \in TaskState /\ task \in [Turns -> TaskState]
      /\ session \in SessionState
  BY DEF TypeOK
<1>1. session'.total = session.total + task[t].spent /\ task[t].pc = "cost"
  BY <1>0 DEF BillTurn, At, SessionState
<1>2. /\ task'[t].pc \in {"warn", "changes"} /\ task'[t].seed = task[t].seed
      /\ task'[t].spent = task[t].spent /\ task'[t].late = task[t].late /\ task'[t].since = task[t].since
  <2>1. PICK pc \in {"warn", "changes"} : task'[t] = [task[t] EXCEPT !.pc = pc]
    BY DEF BillTurn
  <2> QED BY <1>0, <2>1 DEF TaskState
<1>3. ASSUME NEW u \in Turns, u # t
      PROVE  /\ task'[u].pc = task[u].pc /\ task'[u].seed = task[u].seed
             /\ task'[u].spent = task[u].spent /\ task'[u].late = task[u].late
             /\ task'[u].since = IF t \in task[u].late THEN task[u].since + task[t].spent
                                 ELSE task[u].since
  <2>1. task'[u] = IF t \in task[u].late THEN [task[u] EXCEPT !.since = @ + task[t].spent] ELSE task[u]
    BY <1>3, BillIsKnown
  <2>2. task[u] \in TaskState
    BY <1>0
  <2>3. CASE t \in task[u].late
    <3>1. PICK n : n = task[u].since + task[t].spent /\ task'[u] = [task[u] EXCEPT !.since = n]
      BY <2>1, <2>3
    <3> QED BY <2>2, <2>3, <3>1 DEF TaskState
  <2> QED BY <2>1, <2>3
<1>4. \A u \in Turns : /\ task'[u].spent = task[u].spent /\ task'[u].seed = task[u].seed
                       /\ task'[u].late = task[u].late
                       /\ (task'[u].pc \in {"idle", "reading"} <=> task[u].pc \in {"idle", "reading"})
                       /\ (task'[u].pc = "idle" <=> task[u].pc = "idle")
                       /\ (task'[u].pc \in Owing => task[u].pc \in Owing)
  BY <1>1, <1>2, <1>3 DEF Owing, Stages
<1>5. ASSUME task'[w].pc # "idle", NEW u \in 1 .. w - 1
      PROVE  task'[u].pc \notin {"idle", "reading"} /\ (task'[u].pc \in Owing => u \in task'[w].late)
  <2>1. u \in Turns /\ u < w /\ task[w].pc # "idle"
    BY <1>4, <1>5, PipelineAssumption DEF Turns
  <2>2. task[u].pc \notin {"idle", "reading"} /\ (task[u].pc \in Owing => u \in task[w].late)
    BY <2>1, InOrder
  <2> QED BY <1>4, <2>1, <2>2
<1>6. ASSUME task'[w].pc # "idle", \A u \in Turns : u > w => task'[u].spent = 0
      PROVE  session'.total <= task'[w].seed + task'[w].since
               + (IF task'[w].pc \in {"reading"} \cup Owing THEN 0 ELSE task'[w].spent)
  <2>1. session.total <= task[w].seed + task[w].since
          + (IF task[w].pc \in {"reading"} \cup Owing THEN 0 ELSE task[w].spent)
    BY <1>4, <1>6 DEF CostInv
  <2>2. CASE w = t
    <3>1. task[t].pc \in Owing /\ task'[t].pc \notin {"reading"} \cup Owing
      BY <1>1, <1>2 DEF Owing, Stages
    <3> QED BY <1>1, <1>2, <2>1, <2>2, <3>1, Numbers
  <2>3. CASE w < t
    <3>1. task[t].spent = 0
      BY <1>4, <1>6, <2>3
    <3> QED BY <1>1, <1>3, <1>4, <2>1, <2>3, <3>1, Numbers DEF Turns
  <2>4. CASE w > t
    <3>1. task[t].pc \in Owing /\ task[w].pc # "idle"
      BY <1>1, <1>4, <1>6 DEF Owing
    <3>2. t \in task[w].late
      BY <2>4, <3>1, InOrder
    <3>3. task'[w].pc = task[w].pc /\ task'[w].seed = task[w].seed /\ task'[w].spent = task[w].spent
          /\ task'[w].since = task[w].since + task[t].spent
      BY <1>3, <2>4, <3>2 DEF Turns
    <3> QED BY <1>1, <2>1, <3>3, Numbers
  <2> QED BY <2>2, <2>3, <2>4 DEF Turns
<1>7. task'[w].pc \in {"idle", "reading"} => task'[w].spent = 0
  BY <1>4 DEF CostInv
<1>8. task'[w].spent > 0 => task'[w].seed + task'[w].spent < Cap + MaxCost
  BY <1>4 DEF CostInv
<1> QED BY <1>5, <1>6, <1>7, <1>8 DEF CostInv

-----------------------------------------------------------------------------
(* The theorems                                                             *)

\* The invariant of the pipeline: what a task knows, what its row and the others see of
\* it, and what the session has paid.
THEOREM SpecIInv == Spec => []IInv
<1>1. Init => IInv
  <2>1. SUFFICES ASSUME Init PROVE IInv
    OBVIOUS
  <2>2. TypeOK
    BY <2>1, TypeInit
  <2>3. ASSUME NEW t \in Turns
        PROVE  TaskInv(t) /\ RowInv(t) /\ SeenInv(t)
    BY <2>1 DEF Init, Idle, TaskInv, RowInv, SeenInv, Excused, Stages, Early, Writes
  <2>4. ASSUME NEW t \in Turns
        PROVE  CostInv(t)
    BY <2>1, PipelineAssumption DEF Init, Idle, CostInv, Turns
  <2> QED BY <2>2, <2>3, <2>4 DEF IInv
<1>2. IInv /\ [Next]_vars => IInv'
  <2>1. SUFFICES ASSUME IInv, [Next]_vars PROVE IInv'
    OBVIOUS
  <2>2. CASE UNCHANGED vars
    BY <2>1, <2>2 DEF vars, IInv, TypeOK, TaskInv, RowInv, SeenInv, CostInv, Excused, HasResult, Stored
  <2>3. CASE Next
    <3>1. PICK t \in Turns :
            \/ ReadGame(t) \/ Submit(t) \/ Abandon(t)
            \/ Understand(t) \/ GatherContext(t) \/ Narrate(t) \/ Deliver(t) \/ Persist(t)
      BY <2>3 DEF Next
    <3>2. TypeOK /\ \A u \in Turns : TaskInv(u) /\ RowInv(u) /\ SeenInv(u) /\ CostInv(u)
      BY <2>1 DEF IInv
    <3>3. TypeOK'
      BY <3>1, <3>2, TypeStep
    <3>4. ASSUME NEW u \in Turns
          PROVE  TaskInv(u)' /\ RowInv(u)' /\ SeenInv(u)'
      <4>1. CASE u # t
        BY <3>1, <3>2, <4>1, OthersKeep
      <4>2. CASE u = t
        BY <3>1, <3>2, <4>2, StagesKeep, WritesKeep
      <4> QED BY <4>1, <4>2
    <3>5. ASSUME NEW u \in Turns
          PROVE  CostInv(u)'
      <4>1. CASE ReadGame(t)
        BY <3>2, <4>1, ReadingKeeps
      <4>2. CASE BillTurn(t)
        BY <3>2, <4>2, BillKeeps
      <4>3. CASE ~ReadGame(t) /\ ~BillTurn(t)
        BY <3>1, <3>2, <3>3, <4>3, StepSpends, SpendingKeeps
      <4> QED BY <4>1, <4>2, <4>3
    <3> QED BY <3>3, <3>4, <3>5 DEF IInv
  <2> QED BY <2>1, <2>2, <2>3
<1> QED BY <1>1, <1>2, PTL DEF Spec

\* Every variable has its type.
THEOREM SpecTypeOK == Spec => []TypeOK
BY SpecIInv, PTL DEF IInv

\* What the moderator blocks is neither stored nor told, and nothing of it happens.
THEOREM SpecBlockedTextLeavesNoTrace == Spec => []BlockedTextLeavesNoTrace
<1>1. IInv => BlockedTextLeavesNoTrace
  <2>1. SUFFICES ASSUME IInv, NEW t \in Turns
                 PROVE  /\ "bad" \in {row[t].text, told[t].text} => FailOpen /\ task[t].outage
                        /\ <<t, "extracted">> \in world =>
                             row[t].text = "clean" \/ (FailOpen /\ task[t].outage)
    BY DEF BlockedTextLeavesNoTrace
  <2>2. TaskInv(t) /\ RowInv(t) /\ SeenInv(t) /\ task[t] \in TaskState /\ told[t] \in ToldState
    BY <2>1 DEF IInv, TypeOK
  <2>3. row[t].text # "none" => task[t].pc \in Writes \cup {"done"} /\ row[t].text = task[t].text
    BY <2>2 DEF RowInv, TaskState, TaskPc, Writes
  <2>4. task[t].pc \in Writes \cup {"done"} => Excused(t)
    BY <2>2 DEF TaskInv
  <2>5. told[t].text # "none" => task[t].pc = "done" /\ told[t].text = task[t].text
    BY <2>2 DEF SeenInv
  <2>6. <<t, "extracted">> \in world =>
          /\ task[t].pc \in {"publish", "done"} /\ row[t].text = task[t].text
          /\ task[t].text \in {"clean", "bad"}
    BY <2>2 DEF SeenInv, TaskInv
  <2> QED BY <2>3, <2>4, <2>5, <2>6 DEF Excused, Writes
<1> QED BY <1>1, SpecIInv, PTL

\* What is told is what is stored, but for writes that failed: then it may be the text alone,
\* or nothing may be stored, of a turn that failed or is as if it were not over.  The world
\* changes for stored texts only.
THEOREM SpecStoredIsTold == Spec => []StoredIsTold
<1>1. IInv => StoredIsTold
  <2>1. SUFFICES ASSUME IInv, NEW t \in Turns
                 PROVE  /\ \A u \in {"consequence", "extracted"} : <<t, u>> \in world => row[t].text # "none"
                        /\ told[t].status # "none" =>
                             \/ told[t] = row[t]
                             \/ /\ faults < MaxFaults
                                /\ \/ told[t].text = row[t].text
                                   \/ row[t].text = "none" /\ row[t].status \in {"processing", "failed"}
                        /\ told[t].status = "failed" => row[t].status \in {"processing", "failed"}
    BY DEF StoredIsTold, IInv
  <2>2. RowInv(t) /\ SeenInv(t) /\ told[t] \in ToldState /\ row[t] \in RowState
    BY <2>1 DEF IInv, TypeOK
  <2>3. told[t].status = row[t].status /\ told[t].text = row[t].text => told[t] = row[t]
    BY <2>2 DEF ToldState, RowState
  <2>4. told[t].status # "none" =>
          Stored(t) /\ told[t].status = task[t].status /\ told[t].text = task[t].text
    BY <2>2 DEF RowInv, SeenInv
  <2> QED BY <2>2, <2>3, <2>4 DEF RowInv, SeenInv, Stored
<1> QED BY <1>1, SpecIInv, PTL

\* The cap of a session is exceeded by one call, and by the bills a turn could not know.
THEOREM SpecOvershootIsOneCall == Spec => []OvershootIsOneCall
<1>1. IInv => OvershootIsOneCall
  <2>1. SUFFICES ASSUME IInv, NEW t \in Turns, \A u \in Turns : u > t => task[u].spent = 0, task[t].spent > 0
                 PROVE  session.total < Cap + MaxCost + task[t].since
    BY DEF OvershootIsOneCall
  <2>2. TypeOK /\ CostInv(t)
    BY <2>1 DEF IInv
  <2>3. task[t].pc # "idle"
    BY <2>1, <2>2, Numbers DEF CostInv
  <2>4. session.total <= task[t].seed + task[t].since + task[t].spent
    BY <2>1, <2>2, <2>3, Numbers DEF CostInv
  <2>5. task[t].seed + task[t].spent < Cap + MaxCost
    BY <2>1, <2>2 DEF CostInv
  <2> QED BY <2>2, <2>4, <2>5, Numbers, PipelineAssumption
<1> QED BY <1>1, SpecIInv, PTL
=============================================================================
