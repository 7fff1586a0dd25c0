---------------------------- MODULE TurnPipeline ----------------------------
(***************************************************************************)
(* What happens to one turn between its acceptance and its publication:    *)
(* the four stages of pipeline/orchestrator.py (understand, context,       *)
(* generate, deliver) with their moderation, their model calls under the   *)
(* cost caps of pipeline/llm_guard.py, their error paths and timeouts, and *)
(* what dispatch_pipeline then writes: the turn, the cost of the session   *)
(* and the changes of the world.                                           *)
(*                                                                         *)
(* Turns of one session follow each other, but the writes after the result *)
(* is saved overlap with the turns that come next.  A model call is one    *)
(* step; how it asks tiers and retries is module ProviderCalls, the queue  *)
(* and the breaker in front of it module GuardedLLM, and the counter, the  *)
(* recovery flag and the idempotency of a turn module GameTurns.  Costs    *)
(* are multiples of one unit.                                              *)
(***************************************************************************)
EXTENDS Naturals

CONSTANTS
  MaxTurns,   \* bound: turns of the session
  Cap,        \* session_cost_cap_usd
  WarnAt,     \* session_cost_cap_usd * session_cost_warn_pct
  TurnCap,    \* turn_cost_cap_usd
  MaxCost,    \* bound: cost of one call
  Retries,    \* _MAX_TRANSIENT_RETRIES
  FailOpen,   \* moderation_fail_mode = "open"
  MaxFaults   \* bound: failures of the moderator and of writes

ASSUME PipelineAssumption ==
  /\ MaxTurns \in Nat /\ Retries \in Nat /\ MaxFaults \in Nat /\ FailOpen \in BOOLEAN
  /\ Cap \in Nat \ {0} /\ WarnAt \in 0 .. Cap
  /\ TurnCap \in Nat \ {0} /\ MaxCost \in Nat \ {0}

VARIABLES
  task,    \* TurnState and the local variables of dispatch_pipeline, by turn
  row,     \* the row of each turn
  session, \* total_cost_usd and cost_warning_sent
  world,   \* the changes that were applied, each with its turn
  told,    \* what was published of each turn
  faults   \* failures left

vars == <<task, row, session, world, told, faults>>

Turns == 1 .. MaxTurns
Costs == 0 .. MaxCost

\* What a turn may tell: text nobody objects to, text the moderator would block,
\* the redirection it puts in its place, and the text of the last resort.
Texts == {"none", "clean", "bad", "redirect", "fallback"}
Stages == {"input", "intent", "again", "consequences", "context", "precheck",
           "generate", "postcheck", "extract"}
Writes == {"persist", "moderate", "cost", "warn", "changes", "publish"}
TaskPc == {"idle", "reading", "deliver", "done"} \cup Stages \cup Writes

\* since is history: what the turns of late have billed after the total was read.
Idle == [pc |-> "idle", seed |-> 0, late |-> {}, since |-> 0, spent |-> 0, attempt |-> 0,
         badInput |-> FALSE, status |-> "processing", text |-> "none",
         updates |-> {}, outage |-> FALSE]

Init ==
  /\ task = [t \in Turns |-> Idle]
  /\ row = [t \in Turns |-> [status |-> "none", text |-> "none"]]
  /\ session = [total |-> 0, warned |-> FALSE]
  /\ world = {}
  /\ told = [t \in Turns |-> [status |-> "none", text |-> "none"]]
  /\ faults = MaxFaults

Fault == faults > 0 /\ faults' = faults - 1

At(t, pc) == task[t].pc = pc
Become(t, new) == task' = [task EXCEPT ![t] = new]
Goto(t, pc) == Become(t, [task[t] EXCEPT !.pc = pc])
Charge(t, cost, pc) == Become(t, [task[t] EXCEPT !.pc = pc, !.spent = @ + cost])

Tables == <<row, session, world, told>>

----------------------------------------------------------------------------
(* submit_turn                                                             *)

\* The turns whose cost is not in the session's total yet.
Unbilled(t) == {u \in 1 .. t - 1 :
  task[u].pc \in {"deliver", "persist", "moderate", "cost"} \cup Stages}

\* The request reads the row of the game, its total cost included, ...
ReadGame(t) ==
  /\ At(t, "idle") /\ (t > 1 => task[t-1].pc \notin {"idle", "reading"})
  /\ Become(t, [task[t] EXCEPT !.pc = "reading", !.seed = session.total, !.late = Unbilled(t)])
  /\ UNCHANGED <<Tables, faults>>

\* ... and accepts the turn when no other one is in processing.
Submit(t) ==
  /\ At(t, "reading") /\ (t > 1 => row[t-1].status # "processing")
  /\ row' = [row EXCEPT ![t].status = "processing"]
  /\ \E bad \in BOOLEAN : Become(t, [task[t] EXCEPT !.pc = "input", !.badInput = bad])
  /\ UNCHANGED <<session, world, told, faults>>

----------------------------------------------------------------------------
(* ModerationHook and guarded_llm_call                                     *)

\* The verdict on a content: the moderator's own, or what the mode says when it
\* cannot be asked.
Screen(bad, safe) ==
  \/ safe = ~bad /\ UNCHANGED faults
  \/ safe = FailOpen /\ Fault

\* A blocked content is replaced, and the turn ends without the stages to come.
Redirected(t) ==
  [task[t] EXCEPT !.pc = "persist", !.status = "moderated", !.text = "redirect"]

CanSpend_OfTurn(t) == task[t].spent < Cap /\ task[t].spent < TurnCap
CanSpend(t) == task[t].seed + task[t].spent < Cap /\ task[t].spent < TurnCap

----------------------------------------------------------------------------
(* run_pipeline                                                            *)

\* A stage that raises or runs into a timeout, its own or that of the pipeline:
\* what it had done is discarded with the state it was working on.
Abandon_KeepsState(t) ==
  /\ task[t].pc \in Stages
  /\ Become(t, [task[t] EXCEPT !.pc = "persist",
       !.status = IF @ = "processing" /\ task[t].text # "none" THEN "complete" ELSE "failed"])
  /\ UNCHANGED <<Tables, faults>>
Abandon(t) ==
  /\ task[t].pc \in Stages
  /\ Become(t, [task[t] EXCEPT !.pc = "persist", !.status = "failed", !.text = "none",
                               !.attempt = 0])
  /\ UNCHANGED <<Tables, faults>>

\* understand_stage
InputCheck(t) ==
  /\ At(t, "input")
  /\ \E safe \in BOOLEAN :
       /\ Screen(task[t].badInput, safe)
       /\ IF safe THEN Goto(t, "intent") ELSE Become(t, Redirected(t))
  /\ UNCHANGED Tables

\* A pattern matches.
MatchIntent(t) == At(t, "intent") /\ Goto(t, "consequences") /\ UNCHANGED <<Tables, faults>>

\* Without the template the stage returns at once: no consequence is evaluated.
SkipIntent(t) == At(t, "intent") /\ Goto(t, "context") /\ UNCHANGED <<Tables, faults>>

\* The model classifies the input; an answer that is no JSON is asked for again.
ClassifyIntent(t) ==
  /\ task[t].pc \in {"intent", "again"} /\ CanSpend(t)
  /\ \E cost \in Costs, next \in {"again", "consequences"} :
       /\ next = "again" => At(t, "intent")
       /\ Charge(t, cost, next)
  /\ UNCHANGED <<Tables, faults>>

\* No error of the model ends the turn here, a spent budget included.
ClassifyFails(t) ==
  /\ task[t].pc \in {"intent", "again"}
  /\ Goto(t, "consequences")
  /\ UNCHANGED <<Tables, faults>>

\* Consequences that are due become active; their changes wait in the state.
EvaluateConsequences(t) ==
  /\ At(t, "consequences")
  /\ \E due \in SUBSET {"consequence"} :
       Become(t, [task[t] EXCEPT !.pc = "context", !.updates = due])
  /\ UNCHANGED <<Tables, faults>>

\* context_stage: from the world, or from the stored state when that fails.
GatherContext(t) == At(t, "context") /\ Goto(t, "precheck") /\ UNCHANGED <<Tables, faults>>

\* generate_stage: the input is checked once more and fails the turn now.
PreCheck(t) ==
  /\ At(t, "precheck")
  /\ \E safe \in BOOLEAN :
       /\ Screen(task[t].badInput, safe)
       /\ IF safe THEN Goto(t, "generate")
          ELSE Become(t, [task[t] EXCEPT !.pc = "persist", !.status = "failed"])
  /\ UNCHANGED Tables

Generate(t) ==
  /\ At(t, "generate") /\ CanSpend(t)
  /\ \E cost \in Costs, text \in {"clean", "bad"} :
       Become(t, [task[t] EXCEPT !.pc = "postcheck", !.spent = @ + cost, !.text = text,
                                 !.attempt = 0])
  /\ UNCHANGED <<Tables, faults>>

\* Errors that may pass: retried, then the text of the last resort is told.
GenerateFails(t) ==
  /\ At(t, "generate") /\ CanSpend(t)
  /\ Become(t, IF task[t].attempt < Retries
                  THEN [task[t] EXCEPT !.attempt = @ + 1]
                  ELSE [task[t] EXCEPT !.pc = "postcheck", !.text = "fallback", !.attempt = 0])
  /\ UNCHANGED <<Tables, faults>>

PostCheck(t) ==
  /\ At(t, "postcheck")
  /\ \E safe \in BOOLEAN :
       /\ Screen(task[t].text = "bad", safe)
       /\ Become(t, IF safe
            THEN [task[t] EXCEPT !.pc = IF task[t].text = "fallback" THEN "deliver" ELSE "extract",
                                 !.outage = task[t].text = "bad"]
            ELSE Redirected(t))
  /\ UNCHANGED Tables

\* The changes the text tells of join those of the consequences; any failure of
\* this call, a spent budget included, means no change.
ExtractChanges(t) ==
  /\ At(t, "extract")
  /\ \/ \E cost \in Costs, found \in SUBSET {"extracted"} :
          /\ CanSpend(t)
          /\ Become(t, [task[t] EXCEPT !.pc = "deliver", !.spent = @ + cost,
                                       !.updates = @ \cup found])
     \/ Goto(t, "deliver")
  /\ UNCHANGED <<Tables, faults>>

Deliver(t) ==
  /\ At(t, "deliver")
  /\ Become(t, [task[t] EXCEPT !.pc = "persist", !.status = "complete"])
  /\ UNCHANGED <<Tables, faults>>

----------------------------------------------------------------------------
(* dispatch_pipeline                                                       *)

HasResult(t) == task[t].status \in {"complete", "moderated"} /\ task[t].text # "none"

\* complete_turn, also for a moderated turn, which is marked as such afterwards.
SaveResult(t) ==
  /\ At(t, "persist") /\ HasResult(t)
  /\ row' = [row EXCEPT ![t] = [status |-> "complete", text |-> task[t].text]]
  /\ Goto(t, IF task[t].status = "moderated" THEN "moderate" ELSE "cost")
  /\ UNCHANGED <<session, world, told, faults>>

SaveFailure(t) ==
  /\ At(t, "persist") /\ ~HasResult(t)
  /\ row' = [row EXCEPT ![t] = [status |-> "failed", text |-> task[t].text]]
  /\ Goto(t, "publish")
  /\ UNCHANGED <<session, world, told, faults>>

MarkModerated(t) ==
  /\ At(t, "moderate")
  /\ row' = [row EXCEPT ![t].status = "moderated"]
  /\ Goto(t, "cost")
  /\ UNCHANGED <<session, world, told, faults>>

\* A write fails; the last resort marks the turn as failed, or fails as well.
SaveFails(t) ==
  /\ task[t].pc \in {"persist", "moderate"} /\ Fault
  /\ row' \in {row, [row EXCEPT ![t].status = "failed"]}
  /\ Goto(t, "publish")
  /\ UNCHANGED <<session, world, told>>

BillTurn(t) ==
  /\ At(t, "cost")
  /\ session' = [session EXCEPT !.total = @ + task[t].spent]
  /\ task' = [u \in Turns |->
       IF u = t
         THEN [task[t] EXCEPT !.pc =
                 IF task[t].spent > 0 /\ ~session.warned /\ session'.total >= WarnAt
                   THEN "warn" ELSE "changes"]
       ELSE IF t \in task[u].late THEN [task[u] EXCEPT !.since = @ + task[t].spent]
       ELSE task[u]]
  /\ UNCHANGED <<row, world, told, faults>>

SendWarning(t) ==
  /\ At(t, "warn")
  /\ session' = [session EXCEPT !.warned = TRUE]
  /\ Goto(t, "changes")
  /\ UNCHANGED <<row, world, told, faults>>

\* Either write is only logged when it fails.
BillFails(t) ==
  /\ task[t].pc \in {"cost", "warn"} /\ Fault
  /\ Goto(t, "changes")
  /\ UNCHANGED Tables

Changed(t, done) == world' = world \cup {<<t, u>> : u \in done}

ApplyChanges(t) ==
  /\ At(t, "changes") /\ Changed(t, task[t].updates)
  /\ Goto(t, "publish")
  /\ UNCHANGED <<row, session, told, faults>>

\* The changes after the one that fails are lost.
ApplyFails(t) ==
  /\ At(t, "changes") /\ Fault
  /\ \E done \in SUBSET task[t].updates : Changed(t, done)
  /\ Goto(t, "publish")
  /\ UNCHANGED <<row, session, told>>

Publish_Row(t) ==
  /\ At(t, "publish")
  /\ told' = [told EXCEPT ![t] = [status |-> "failed", text |-> "none"]]
  /\ Goto(t, "done")
  /\ UNCHANGED <<row, session, world, faults>>
Publish(t) ==
  /\ At(t, "publish")
  /\ told' = [told EXCEPT ![t] = [status |-> task[t].status, text |-> task[t].text]]
  /\ Goto(t, "done")
  /\ UNCHANGED <<row, session, world, faults>>

PublishFails(t) == At(t, "publish") /\ Fault /\ Goto(t, "done") /\ UNCHANGED Tables

Understand(t) ==
  \/ InputCheck(t) \/ MatchIntent(t) \/ SkipIntent(t)
  \/ ClassifyIntent(t) \/ ClassifyFails(t) \/ EvaluateConsequences(t)
Narrate(t) ==
  \/ PreCheck(t) \/ Generate(t) \/ GenerateFails(t) \/ PostCheck(t) \/ ExtractChanges(t)
Persist(t) ==
  \/ SaveResult(t) \/ SaveFailure(t) \/ MarkModerated(t) \/ SaveFails(t)
  \/ BillTurn(t) \/ SendWarning(t) \/ BillFails(t)
  \/ ApplyChanges(t) \/ ApplyFails(t) \/ Publish(t) \/ PublishFails(t)

Next == \E t \in Turns :
  \/ ReadGame(t) \/ Submit(t) \/ Abandon(t)
  \/ Understand(t) \/ GatherContext(t) \/ Narrate(t) \/ Deliver(t) \/ Persist(t)

Spec == Init /\ [][Next]_vars

----------------------------------------------------------------------------
(* Properties                                                              *)

TaskState ==
  [pc : TaskPc, seed : Nat, late : SUBSET Turns, since : Nat, spent : Nat,
   attempt : 0 .. Retries, badInput : BOOLEAN,
   status : {"processing", "complete", "moderated", "failed"}, text : Texts,
   updates : SUBSET {"consequence", "extracted"}, outage : BOOLEAN]
RowState == [status : {"none", "processing", "complete", "moderated", "failed"}, text : Texts]
ToldState == [status : {"none", "complete", "moderated", "failed"}, text : Texts]
SessionState == [total : Nat, warned : BOOLEAN]

\* Every variable has its type.
TypeOK ==
  /\ task \in [Turns -> TaskState] /\ row \in [Turns -> RowState]
  /\ session \in SessionState
  /\ world \subseteq Turns \X {"consequence", "extracted"}
  /\ told \in [Turns -> ToldState]
  /\ faults \in 0 .. MaxFaults

\* A text the moderator objects to leaves no trace: it is neither stored nor told,
\* and nothing it tells happens in the world, wherever a stage fails or times out.
\* The exception is the moderator that could not be asked and fails open.
BlockedTextLeavesNoTrace ==
  \A t \in Turns :
    /\ "bad" \in {row[t].text, told[t].text} => FailOpen /\ task[t].outage
    /\ <<t, "extracted">> \in world =>
         row[t].text = "clean" \/ (FailOpen /\ task[t].outage)

\* The world changes for a turn only when its text was stored.  What a player is told, the
\* status and the text, is what is stored; when a write has failed it may be only the text,
\* or nothing is stored, and then the turn is a failed one, or as if it were not over.
StoredIsTold ==
  /\ TypeOK
  /\ \A t \in Turns :
       /\ \A u \in {"consequence", "extracted"} : <<t, u>> \in world => row[t].text # "none"
       /\ told[t].status # "none" =>
            \/ told[t] = row[t]
            \/ /\ faults < MaxFaults
               /\ \/ told[t].text = row[t].text
                  \/ row[t].text = "none" /\ row[t].status \in {"processing", "failed"}
       /\ told[t].status = "failed" => row[t].status \in {"processing", "failed"}

\* The session cap (FR-07.20) is exceeded by no more than the last call, and by
\* what turns have billed whose cost was not written when this turn read the total.
OvershootIsOneCall ==
  \A t \in Turns :
    (\A u \in Turns : u > t => task[u].spent = 0) /\ task[t].spent > 0
      => session.total < Cap + MaxCost + task[t].since

=============================================================================
