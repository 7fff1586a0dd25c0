----------------------------- MODULE GameTurns -----------------------------
(***************************************************************************)
(* One game session and its turns: the rows of game_sessions and turns,    *)
(* the HTTP handlers that read a row and write it back later               *)
(* (api/routes/games_turns.py, games_lifecycle.py, games_commands.py), the *)
(* background task dispatch_pipeline of every accepted turn                *)
(* (pipeline/orchestrator.py) and the periodic lifecycle pass              *)
(* (lifecycle/cleanup.py).                                                 *)
(*                                                                         *)
(* A handler is a process: it reads the row without a lock, and each of    *)
(* its later transactions is a step of its own, so that everything that    *)
(* may commit in between does.  Games do not share rows and the advisory   *)
(* lock is per game, so one game is enough; the quota that couples the     *)
(* games of a player is not part of this module.                           *)
(*                                                                         *)
(* A definition whose name extends the next one's with an underscore is a  *)
(* plausible mistake in it; no specification uses it.                      *)
(***************************************************************************)
EXTENDS Naturals, FiniteSets, FiniteSetsExt

CONSTANTS
  Turns,          \* turn rows; their number bounds the turns accepted
  Requests,       \* HTTP requests being handled at the same time
  Keys,           \* idempotency keys clients may send
  NoKey,          \* a submission without a key
  NoTurn,         \* no processing turn was found
  NoRequest,      \* the advisory lock is free
  Operations,     \* the endpoints the clients of this instance call
  Clock,          \* the long delays this instance lets pass
  DeadlineHolds,  \* run_pipeline ends before a turn counts as stuck
  MaxFaults,      \* bound: database failures injected
  MaxCrashes      \* bound: server restarts injected

AllOperations == {"submit", "end", "resume", "patch", "delete", "save"}

ASSUME NullsAssumption ==
  /\ NoKey \notin Keys
  /\ NoTurn \notin Turns
  /\ NoRequest \notin Requests
ASSUME FiniteAssumption == IsFiniteSet(Turns)
ASSUME OperationsAssumption ==
  /\ Operations \subseteq AllOperations
  /\ Clock \subseteq {"half hour", "day", "month"}
ASSUME BoundsAssumption ==
  /\ DeadlineHolds \in BOOLEAN
  /\ MaxFaults \in Nat
  /\ MaxCrashes \in Nat

VARIABLES
  game,        \* the game_sessions row
  turnStatus,  \* turns.status, "absent" while the row does not exist
  turnNumber,  \* turns.turn_number
  turnKey,     \* turns.idempotency_key
  req,         \* the local state of every request handler
  lock,        \* the request that holds pg_advisory_xact_lock(game)
  task,        \* where dispatch_pipeline of a turn is
  overdue,     \* turns processing for longer than twice the pipeline timeout
  faults,      \* database failures left
  crashes      \* restarts left

turnVars == <<turnStatus, turnNumber, turnKey>>
envVars  == <<overdue, faults, crashes>>
vars == <<game, turnVars, req, lock, task, envVars>>

GameStatus == {"created", "active", "paused", "completed", "expired",
               "ended", "abandoned"}
TurnStatus == {"absent", "processing", "complete", "moderated", "failed"}

\* What dispatch_pipeline does with the answer of run_pipeline: a failed turn,
\* and a complete one whose narrative is empty, are persisted as a failure.
Outcomes == {"save", "save moderated", "save failure"}

TaskPc == Outcomes \cup {"none", "run", "mark", "failsafe", "count", "flag",
                         "apply", "done", "dead"}
ReqPc == {"idle", "recount", "recover", "check", "insert", "write"}

IdleRequest == [pc |-> "idle", op |-> "save", key |-> NoKey, to |-> "created",
                status |-> "created", count |-> 0, stuck |-> NoTurn]

----------------------------------------------------------------------------
(* Queries of the handlers                                                 *)

Accepted   == {t \in Turns : turnStatus[t] # "absent"}
Processing == {t \in Turns : turnStatus[t] = "processing"}
Terminal   == {t \in Turns : turnStatus[t] \in {"complete", "moderated"}}

TurnCount == Cardinality(Terminal)

MaxTurnNumber_TerminalOnly == Max({0} \cup {turnNumber[t] : t \in Terminal})
MaxTurnNumber == Max({0} \cup {turnNumber[t] : t \in Accepted})

HasKey_TerminalOnly(k) == k # NoKey /\ \E t \in Terminal : turnKey[t] = k
HasKey(k) == k # NoKey /\ \E t \in Accepted : turnKey[t] = k

ValidTransitions ==
  [s \in GameStatus |->
     CASE s = "created" -> {"active", "abandoned"}
       [] s = "active"  -> {"paused", "completed", "ended"}
       [] s = "paused"  -> {"active", "expired", "ended"}
       [] s = "expired" -> {"active"}
       [] OTHER         -> {}]

Playable  == {"created", "active"}
Resumable == {"active", "paused", "expired"}
Closed    == {"ended", "abandoned"}

Fault == faults > 0 /\ faults' = faults - 1

\* Every UPDATE of the row but the recovery flag sets updated_at.
Touch(g) == [g EXCEPT !.idle = FALSE]

SetStatus(g, s) ==
  [Touch(g) EXCEPT !.status = s,
                   !.pausedLong = IF s = "paused" THEN FALSE ELSE @]

\* Request r goes on at pc, or has been answered.
Step(r, pc, count, stuck) ==
  req' = [req EXCEPT ![r] = [@ EXCEPT !.pc = pc, !.count = count, !.stuck = stuck]]
Finish(r) == req' = [req EXCEPT ![r] = IdleRequest]

----------------------------------------------------------------------------
(* A handler starts by reading the row (_get_owned_game): only its status  *)
(* and needs_recovery are used later, and they may be stale by then.       *)

ReadGame(r, op, k, to) ==
  /\ req[r].pc = "idle" /\ ~game.deleted
  /\ CASE op = "resume" -> game.status \in Resumable
       [] op = "patch"  -> to \in ValidTransitions[game.status]
       [] op = "delete" -> game.status \notin Closed
       [] OTHER         -> TRUE
  /\ op # "submit" => k = NoKey
  /\ op # "patch" => to = "created"
  /\ req' = [req EXCEPT ![r] =
       [pc     |-> IF op \in {"patch", "delete", "save"} THEN "write"
                   ELSE IF game.needsRecovery THEN "recount"
                   ELSE IF op = "resume" THEN "write" ELSE "check",
        op     |-> op, key |-> k, to |-> to, status |-> game.status,
        count  |-> 0, stuck |-> NoTurn]]
  /\ UNCHANGED <<game, turnVars, lock, task, envVars>>

AfterRecovery(r) == IF req[r].op = "resume" THEN "write" ELSE "check"

\* FR-27.15: the number of terminal turns is read ...
RecountTurns(r) ==
  /\ req[r].pc = "recount"
  /\ Step(r, "recover", TurnCount, NoTurn)
  /\ UNCHANGED <<game, turnVars, lock, task, envVars>>

\* ... and written back by a later statement.
RecoverCount(r) ==
  /\ req[r].pc = "recover"
  /\ game' = [Touch(game) EXCEPT !.turnCount = req[r].count,
                                 !.needsRecovery = FALSE]
  /\ Step(r, AfterRecovery(r), 0, NoTurn)
  /\ UNCHANGED <<turnVars, lock, task, envVars>>

\* A failed recovery is logged and the handler goes on.
RecoveryFails(r) ==
  /\ req[r].pc \in {"recount", "recover"}
  /\ Fault
  /\ Step(r, AfterRecovery(r), 0, NoTurn)
  /\ UNCHANGED <<game, turnVars, lock, task, overdue, crashes>>

\* Any other database failure ends the request and rolls its transaction back.
RequestFails(r) ==
  /\ req[r].pc # "idle"
  /\ Fault
  /\ Finish(r)
  /\ lock' = IF lock = r THEN NoRequest ELSE lock
  /\ UNCHANGED <<game, turnVars, task, overdue, crashes>>

----------------------------------------------------------------------------
(* submit_turn                                                             *)

RejectInactive(r) ==
  /\ req[r].pc = "check" /\ req[r].status \notin Playable
  /\ Finish(r)
  /\ UNCHANGED <<game, turnVars, lock, task, envVars>>

\* The /end command, reached through submit_turn.
EndGame(r) ==
  /\ req[r].pc = "check" /\ req[r].op = "end" /\ req[r].status \in Playable
  /\ game' = SetStatus(game, "ended")
  /\ Finish(r)
  /\ UNCHANGED <<turnVars, lock, task, envVars>>

\* A processing turn stands in the way of a submission until it is overdue.
Blocking_Never == {}
Blocking_Always == Processing
Blocking == Processing \ overdue

AtTurnCheck_NoLock(r) ==
  req[r].pc = "check" /\ req[r].op = "submit" /\ req[r].status \in Playable
AtTurnCheck(r) ==
  /\ req[r].pc = "check" /\ req[r].op = "submit" /\ req[r].status \in Playable
  /\ lock = NoRequest

\* A turn is processing and not overdue: 409 TURN_IN_PROGRESS, the
\* transaction ends and with it the lock.
RejectInProgress(r) ==
  /\ AtTurnCheck(r)
  /\ Blocking # {}
  /\ Finish(r)
  /\ UNCHANGED <<game, turnVars, lock, task, envVars>>

\* The advisory lock is held from here to the commit; the processing turn, if
\* there is one, is stuck.
LockTurns(r) ==
  /\ AtTurnCheck(r)
  /\ Blocking = {}
  /\ lock' = r
  /\ \E s \in (IF Processing = {} THEN {NoTurn} ELSE Processing) :
       Step(r, "insert", 0, s)
  /\ UNCHANGED <<game, turnVars, task, envVars>>

\* The key was used before: the stored turn is the answer.  Nothing is
\* committed, so the stuck turn keeps its status.
AnswerDuplicate(r) ==
  /\ req[r].pc = "insert" /\ HasKey(req[r].key)
  /\ Finish(r)
  /\ lock' = NoRequest
  /\ UNCHANGED <<game, turnVars, task, envVars>>

\* The stuck turn fails, whatever its status is by now.
Cleared_Not(r) == turnStatus
Cleared(r) ==
  [u \in Turns |-> IF u = req[r].stuck THEN "failed" ELSE turnStatus[u]]

Played(r) ==
  IF req[r].status = "created" THEN SetStatus(game, "active") ELSE Touch(game)

\* One transaction clears the stuck turn, inserts the new one and touches the
\* session.  Then the pipeline starts.
CreateTurn(r, t) ==
  /\ req[r].pc = "insert" /\ ~HasKey(req[r].key)
  /\ turnStatus[t] = "absent"
  /\ turnStatus' = [Cleared(r) EXCEPT ![t] = "processing"]
  /\ turnNumber' = [turnNumber EXCEPT ![t] = MaxTurnNumber + 1]
  /\ turnKey' = [turnKey EXCEPT ![t] = req[r].key]
  /\ game' = Played(r)
  /\ task' = [task EXCEPT ![t] = "run"]
  /\ Finish(r)
  /\ lock' = NoRequest
  /\ UNCHANGED envVars

----------------------------------------------------------------------------
(* The other handlers write the row they read, by its id alone.            *)

WriteGame(r) ==
  /\ req[r].pc = "write"
  /\ game' = CASE req[r].op = "resume" /\ req[r].status = "active" -> game
               [] req[r].op = "resume" -> SetStatus(game, "active")
               [] req[r].op = "patch"  -> SetStatus(game, req[r].to)
               [] req[r].op = "delete" ->
                    [SetStatus(game, "abandoned") EXCEPT !.deleted = TRUE]
               [] OTHER                -> Touch(game)
  /\ Finish(r)
  /\ UNCHANGED <<turnVars, lock, task, envVars>>

----------------------------------------------------------------------------
(* dispatch_pipeline, the background task of turn t.  Its cost, title,     *)
(* summary and snapshot updates touch columns this module leaves out.      *)

EndPipeline(t, outcome) ==
  /\ task[t] = "run"
  /\ task' = [task EXCEPT ![t] = outcome]
  /\ UNCHANGED <<game, turnVars, req, lock, envVars>>

SetTurn(t, s) == turnStatus' = [turnStatus EXCEPT ![t] = s]

SaveTurn(t) ==
  /\ task[t] \in {"save", "save moderated"}
  /\ SetTurn(t, "complete")
  /\ task' = [task EXCEPT ![t] = IF @ = "save" THEN "count" ELSE "mark"]
  /\ UNCHANGED <<game, turnNumber, turnKey, req, lock, envVars>>

SaveFailure_Counted(t) ==
  /\ task[t] = "save failure"
  /\ SetTurn(t, "failed")
  /\ task' = [task EXCEPT ![t] = "count"]
  /\ UNCHANGED <<game, turnNumber, turnKey, req, lock, envVars>>
SaveFailure(t) ==
  /\ task[t] = "save failure"
  /\ SetTurn(t, "failed")
  /\ task' = [task EXCEPT ![t] = "done"]
  /\ UNCHANGED <<game, turnNumber, turnKey, req, lock, envVars>>

MarkModerated(t) ==
  /\ task[t] = "mark"
  /\ SetTurn(t, "moderated")
  /\ task' = [task EXCEPT ![t] = "count"]
  /\ UNCHANGED <<game, turnNumber, turnKey, req, lock, envVars>>

PersistFails(t) ==
  /\ task[t] \in Outcomes \cup {"mark"}
  /\ Fault
  /\ task' = [task EXCEPT ![t] = "failsafe"]
  /\ UNCHANGED <<game, turnVars, req, lock, overdue, crashes>>

\* The last resort, so that the turn leaves processing.
FailSafe(t) ==
  /\ task[t] = "failsafe"
  /\ SetTurn(t, "failed")
  /\ task' = [task EXCEPT ![t] = "done"]
  /\ UNCHANGED <<game, turnNumber, turnKey, req, lock, envVars>>

FailSafeFails(t) ==
  /\ task[t] = "failsafe"
  /\ Fault
  /\ task' = [task EXCEPT ![t] = "done"]
  /\ UNCHANGED <<game, turnVars, req, lock, overdue, crashes>>

CountTurn(t) ==
  /\ task[t] = "count"
  /\ game' = [Touch(game) EXCEPT !.turnCount = @ + 1]
  /\ task' = [task EXCEPT ![t] = "apply"]
  /\ UNCHANGED <<turnVars, req, lock, envVars>>

CountFails(t) ==
  /\ task[t] = "count"
  /\ Fault
  /\ task' = [task EXCEPT ![t] = "flag"]
  /\ UNCHANGED <<game, turnVars, req, lock, overdue, crashes>>

FlagRecovery(t) ==
  /\ task[t] = "flag"
  /\ game' = [game EXCEPT !.needsRecovery = TRUE]
  /\ task' = [task EXCEPT ![t] = "apply"]
  /\ UNCHANGED <<turnVars, req, lock, envVars>>

FlagFails(t) ==
  /\ task[t] = "flag"
  /\ Fault
  /\ task' = [task EXCEPT ![t] = "apply"]
  /\ UNCHANGED <<game, turnVars, req, lock, overdue, crashes>>

\* The world changes of the turn reach Neo4j, or are dropped with a warning.
\* The result is published then, which TurnStream models.
ApplyWorldChanges(t) ==
  /\ task[t] = "apply"
  /\ task' = [task EXCEPT ![t] = "done"]
  /\ UNCHANGED <<game, turnVars, req, lock, envVars>>

TaskStep(t) ==
  \/ \E outcome \in Outcomes : EndPipeline(t, outcome)
  \/ SaveTurn(t) \/ SaveFailure(t) \/ MarkModerated(t) \/ FailSafe(t)
  \/ CountTurn(t) \/ FlagRecovery(t) \/ ApplyWorldChanges(t)

TaskFault(t) ==
  PersistFails(t) \/ FailSafeFails(t) \/ CountFails(t) \/ FlagFails(t)

----------------------------------------------------------------------------
(* run_lifecycle_pass                                                      *)

AbandonGame ==
  /\ game.status \in Playable /\ game.turnCount = 0 /\ game.old /\ ~game.deleted
  /\ game' = SetStatus(game, "abandoned")
  /\ UNCHANGED <<turnVars, req, lock, task, envVars>>

ExpireGame ==
  /\ game.status = "paused" /\ game.pausedLong /\ ~game.deleted
  /\ game' = SetStatus(game, "expired")
  /\ UNCHANGED <<turnVars, req, lock, task, envVars>>

PauseIdleGame ==
  /\ game.status = "active" /\ game.turnCount > 0 /\ game.idle /\ ~game.deleted
  /\ game' = SetStatus(game, "paused")
  /\ UNCHANGED <<turnVars, req, lock, task, envVars>>

----------------------------------------------------------------------------
(* Time and failures                                                       *)

\* Half an hour and a month are longer than any handler or task takes.
Quiet ==
  /\ \A r \in Requests : req[r].pc = "idle"
  /\ \A t \in Turns : task[t] \in {"none", "done", "dead"}

HalfHourPasses ==
  /\ "half hour" \in Clock /\ Quiet /\ ~game.idle
  /\ game' = [game EXCEPT !.idle = TRUE]
  /\ UNCHANGED <<turnVars, req, lock, task, envVars>>

DayPasses ==
  /\ "day" \in Clock /\ ~game.old
  /\ game' = [game EXCEPT !.old = TRUE]
  /\ UNCHANGED <<turnVars, req, lock, task, envVars>>

MonthPasses ==
  /\ "month" \in Clock /\ Quiet /\ game.status = "paused" /\ ~game.pausedLong
  /\ game' = [game EXCEPT !.pausedLong = TRUE, !.idle = TRUE, !.old = TRUE]
  /\ UNCHANGED <<turnVars, req, lock, task, envVars>>

\* run_pipeline has its own deadline, half of the age that makes a turn stuck,
\* unless the two settings, which are independent, disagree.
BecomeOverdue(t) ==
  /\ t \in Processing \ overdue
  /\ DeadlineHolds => task[t] # "run"
  /\ overdue' = overdue \cup {t}
  /\ UNCHANGED <<game, turnVars, req, lock, task, faults, crashes>>

\* Handlers and tasks die, transactions roll back, rows stay.
Restart ==
  /\ crashes > 0 /\ crashes' = crashes - 1
  /\ req' = [r \in Requests |-> IdleRequest]
  /\ lock' = NoRequest
  /\ task' = [t \in Turns |-> IF task[t] \in {"none", "done"} THEN task[t] ELSE "dead"]
  /\ UNCHANGED <<game, turnVars, overdue, faults>>

----------------------------------------------------------------------------
Init ==
  /\ game = [status |-> "created", deleted |-> FALSE, turnCount |-> 0,
             needsRecovery |-> FALSE, idle |-> FALSE, old |-> FALSE,
             pausedLong |-> FALSE]
  /\ turnStatus = [t \in Turns |-> "absent"]
  /\ turnNumber = [t \in Turns |-> 0]
  /\ turnKey = [t \in Turns |-> NoKey]
  /\ req = [r \in Requests |-> IdleRequest]
  /\ lock = NoRequest
  /\ task = [t \in Turns |-> "none"]
  /\ overdue = {}
  /\ faults = MaxFaults
  /\ crashes = MaxCrashes

Submit(r)  == \E k \in Keys \cup {NoKey} : ReadGame(r, "submit", k, "created")
Patch(r)   == \E s \in GameStatus : ReadGame(r, "patch", NoKey, s)

Arrive(r) ==
  \E op \in Operations :
    CASE op = "submit" -> Submit(r)
      [] op = "patch"  -> Patch(r)
      [] OTHER         -> ReadGame(r, op, NoKey, "created")

HandlerStep(r) ==
  \/ RecountTurns(r) \/ RecoverCount(r)
  \/ RejectInactive(r) \/ EndGame(r) \/ RejectInProgress(r) \/ LockTurns(r)
  \/ AnswerDuplicate(r) \/ WriteGame(r)
  \/ \E t \in Turns : CreateTurn(r, t)

RequestNext(r) == Arrive(r) \/ HandlerStep(r) \/ RecoveryFails(r) \/ RequestFails(r)
TaskNext(t) == TaskStep(t) \/ TaskFault(t) \/ BecomeOverdue(t)
LifecyclePass == AbandonGame \/ ExpireGame \/ PauseIdleGame
Elapse == HalfHourPasses \/ DayPasses \/ MonthPasses

Next ==
  \/ \E r \in Requests : RequestNext(r)
  \/ \E t \in Turns : TaskNext(t)
  \/ LifecyclePass \/ Elapse \/ Restart

Spec == Init /\ [][Next]_vars

\* Tasks and handlers are scheduled, a turn that stays in processing gets old,
\* and clients go on submitting turns without a key they used before.
Fairness ==
  /\ \A t \in Turns : WF_vars(TaskStep(t)) /\ WF_vars(BecomeOverdue(t))
  /\ \A r \in Requests : WF_vars(HandlerStep(r))
  /\ SF_vars(\E r \in Requests : ReadGame(r, "submit", NoKey, "created"))

FairSpec == Spec /\ Fairness

----------------------------------------------------------------------------
(* Properties                                                              *)

GameRow == [status: GameStatus, deleted: BOOLEAN, turnCount: Nat,
            needsRecovery: BOOLEAN, idle: BOOLEAN, old: BOOLEAN,
            pausedLong: BOOLEAN]

RequestState ==
  [pc: ReqPc, op: AllOperations, key: Keys \cup {NoKey}, to: GameStatus,
   status: GameStatus, count: Nat, stuck: Turns \cup {NoTurn}]

\* Every variable has its type.
TypeOK ==
  /\ game \in GameRow
  /\ turnStatus \in [Turns -> TurnStatus]
  /\ turnNumber \in [Turns -> Nat]
  /\ turnKey \in [Turns -> Keys \cup {NoKey}]
  /\ req \in [Requests -> RequestState]
  /\ lock \in Requests \cup {NoRequest}
  /\ task \in [Turns -> TaskPc]
  /\ overdue \subseteq Turns
  /\ faults \in Nat /\ crashes \in Nat

\* FR-23.19, "Only one turn may be in-flight per game at any time": two
\* submissions that both saw no processing turn, or both cleared the stuck one,
\* never both insert.  (A second row would also make one_or_none raise in every
\* later submission.)
OneTurnInFlight ==
  \A t, u \in Processing : t = u

\* max(turn_number) + 1 over rows of any status, read under the lock: the turns
\* of a game are numbered 1..n without a gap or a repetition, so that the INSERT
\* never violates uq_turns_session_turn.
NumbersUnique ==
  \A t, u \in Accepted : turnNumber[t] = turnNumber[u] => t = u
NumbersGapless ==
  {turnNumber[t] : t \in Accepted} = 1 .. MaxTurnNumber
TurnsNumbered == NumbersUnique /\ NumbersGapless

\* A retried submission is processed once: an idempotency key names at most one
\* turn of the game (uq_turns_session_idempotency is never violated).
KeysUnique ==
  \A t, u \in Accepted : turnKey[t] = turnKey[u] /\ turnKey[t] # NoKey => t = u

\* A turn whose pipeline still runs keeps its status: neither a stuck-turn
\* clearing nor another task may fail it under its feet.
RunningTurnsAreProcessing ==
  \A t \in Turns : task[t] = "run" => turnStatus[t] = "processing"

\* The turn API as seen by a client implements the abstract log.
OpenNumber == Max({0} \cup {turnNumber[t] : t \in Processing})
OpenIsLate == Processing # {} /\ Processing \subseteq overdue
Log == INSTANCE TurnLog WITH
  accepted <- MaxTurnNumber, open <- OpenNumber, late <- OpenIsLate
ImplementsLog == Log!LogSpec

\* Turns saved whose increment of turn_count has not happened yet.
Uncounted == {t \in Turns : task[t] \in {"mark", "count", "flag"}}

\* No statement has failed, no server has restarted and no turn is overdue.
Undisturbed == overdue = {} /\ faults = MaxFaults /\ crashes = MaxCrashes

\* Until something fails or is overdue, turn_count and the number of terminal
\* turns differ exactly by the increments under way, although the two are written
\* by different transactions, and several handlers and the lifecycle pass write
\* the row between them.
PlayedIsCounted ==
  Undisturbed => game.turnCount + Cardinality(Uncounted) = TurnCount

\* The failsafe and the clearing of stuck turns together: no failure and no
\* restart locks a game for ever.  A turn leaves processing as long as the game
\* is played and the bound on turns leaves room for another one.
TurnsSettle ==
  \A t \in Turns :
    turnStatus[t] = "processing" ~>
      \/ turnStatus[t] # "processing"
      \/ game.status \notin Playable \/ game.deleted
      \/ Accepted = Turns

----------------------------------------------------------------------------
(* A claim of the documents that the code does not keep                    *)

\* plans/llm-and-pipeline.md 6: turn N's state changes are committed before the
\* context assembly of turn N+1 begins.
HappensBefore ==
  \A t, u \in Accepted :
    task[u] = "run" /\ turnNumber[t] < turnNumber[u] => task[t] # "apply"

=============================================================================
