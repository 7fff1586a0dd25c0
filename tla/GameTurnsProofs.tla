-------------------------- MODULE GameTurnsProofs --------------------------
(***************************************************************************)
(* Theorems about GameTurns, for every number of turns, requests, keys,    *)
(* failures and restarts.                                                  *)
(***************************************************************************)
EXTENDS GameTurns, FiniteSetTheorems, TLAPS

\* While a request is between the SELECT of the processing turn and its commit
\* it holds the lock, and only the overdue turn it is about to clear can be
\* processing.
LockDiscipline ==
  \A r \in Requests :
    req[r].pc = "insert" => /\ lock = r
                            /\ req[r].stuck \in overdue \cup {NoTurn}
                            /\ \A t \in Processing : t = req[r].stuck

\* Only a turn that exists has a task.
TasksHaveTurns ==
  \A t \in Turns : turnStatus[t] = "absent" => task[t] = "none"

OverdueAreAccepted == overdue \subseteq Accepted

NumbersInv == MaxTurnNumber \in Nat /\ TurnsNumbered

IInv == /\ TypeOK /\ OneTurnInFlight /\ NumbersInv /\ KeysUnique
        /\ LockDiscipline /\ TasksHaveTurns /\ OverdueAreAccepted

----------------------------------------------------------------------------
\* The largest of 0 and 1..n is n.
LEMMA MaxOfInterval ==
  ASSUME NEW n \in Nat
  PROVE  Max({0} \cup (1 .. n)) = n
<1>1. n \in {0} \cup (1 .. n) /\ \A y \in {0} \cup (1 .. n) : n >= y
  OBVIOUS
<1>2. \A m \in {0} \cup (1 .. n) :
        (\A y \in {0} \cup (1 .. n) : m >= y) => m = n
  OBVIOUS
<1> QED
  BY <1>1, <1>2 DEF Max

\* The number of terminal turns is a natural number.
LEMMA TurnCountType == TurnCount \in Nat
<1>1. IsFiniteSet(Terminal)
  BY FiniteAssumption, FS_Subset DEF Terminal
<1> QED
  BY <1>1, FS_CardinalityType DEF TurnCount

\* A row that is written keeps its type.
LEMMA GameRowType ==
  ASSUME game \in GameRow, NEW s \in GameStatus
  PROVE  Touch(game) \in GameRow /\ SetStatus(game, s) \in GameRow
BY DEF GameRow, Touch, SetStatus

LEMMA IdleRequestType == IdleRequest \in RequestState
BY DEF IdleRequest, RequestState, ReqPc, AllOperations, GameStatus

\* A handler that moves on, or ends, keeps its type.
LEMMA StepType ==
  ASSUME TypeOK, NEW r \in Requests, NEW pc \in ReqPc, NEW c \in Nat,
         NEW s \in Turns \cup {NoTurn}
  PROVE  /\ Step(r, pc, c, s) => req' \in [Requests -> RequestState]
         /\ Finish(r) => req' \in [Requests -> RequestState]
<1> DEFINE q == [req[r] EXCEPT !.pc = pc, !.count = c, !.stuck = s]
<1>1. req[r] \in RequestState
  BY DEF TypeOK
<1>2. q \in RequestState
  BY <1>1 DEF RequestState
<1>3. Step(r, pc, c, s) => req' = [req EXCEPT ![r] = q]
  BY DEF Step
<1> QED
  BY <1>2, <1>3, IdleRequestType DEF TypeOK, Finish

LEMMA InitIInv == Init => IInv
<1> SUFFICES ASSUME Init PROVE IInv
  OBVIOUS
<1>1. TypeOK
  BY IdleRequestType, BoundsAssumption
  DEF Init, TypeOK, GameRow, GameStatus, TurnStatus, TaskPc, Outcomes
<1>2. Accepted = {} /\ Processing = {}
  BY DEF Init, Accepted, Processing
<1>3. MaxTurnNumber = 0
  <2>1. {turnNumber[t] : t \in Accepted} = 1 .. 0
    BY <1>2
  <2> QED
    BY <2>1, MaxOfInterval DEF MaxTurnNumber
<1>4. NumbersInv
  BY <1>2, <1>3 DEF NumbersInv, TurnsNumbered, NumbersUnique, NumbersGapless
<1>5. OneTurnInFlight /\ KeysUnique /\ LockDiscipline /\ TasksHaveTurns
      /\ OverdueAreAccepted
  BY <1>2 DEF OneTurnInFlight, KeysUnique, LockDiscipline, TasksHaveTurns,
              OverdueAreAccepted, Init, IdleRequest
<1> QED
  BY <1>1, <1>4, <1>5 DEF IInv

----------------------------------------------------------------------------
(* Type correctness.                                                       *)

\* Handlers.
LEMMA HandlerType ==
  ASSUME TypeOK, MaxTurnNumber \in Nat, NEW r \in Requests, RequestNext(r)
  PROVE  TypeOK'
<1>0. "idle" \in ReqPc /\ "recover" \in ReqPc /\ "insert" \in ReqPc
      /\ AfterRecovery(r) \in ReqPc
  BY DEF ReqPc, AfterRecovery
<1>f. Finish(r) => req' \in [Requests -> RequestState]
  BY <1>0, StepType
<1>1. CASE Arrive(r)
  <2>1. PICK op \in AllOperations, k \in Keys \cup {NoKey}, to \in GameStatus :
          ReadGame(r, op, k, to)
    BY <1>1, OperationsAssumption DEF Arrive, Submit, Patch, GameStatus
  <2> DEFINE q == [pc     |-> IF op \in {"patch", "delete", "save"} THEN "write"
                              ELSE IF game.needsRecovery THEN "recount"
                              ELSE IF op = "resume" THEN "write" ELSE "check",
                   op     |-> op, key |-> k, to |-> to, status |-> game.status,
                   count  |-> 0, stuck |-> NoTurn]
  <2>2. q \in RequestState
    BY DEF TypeOK, GameRow, RequestState, ReqPc
  <2>3. req' = [req EXCEPT ![r] = q]
    BY <2>1 DEF ReadGame
  <2> QED
    BY <2>1, <2>2, <2>3 DEF TypeOK, ReadGame, turnVars, envVars
<1>2. CASE RecountTurns(r)
  <2>1. req' \in [Requests -> RequestState]
    BY <1>0, <1>2, TurnCountType, StepType DEF RecountTurns
  <2> QED
    BY <1>2, <2>1 DEF TypeOK, RecountTurns, turnVars, envVars
<1>3. CASE RecoverCount(r)
  <2>1. req' \in [Requests -> RequestState]
    BY <1>0, <1>3, StepType DEF RecoverCount
  <2>2. req[r].count \in Nat
    BY DEF TypeOK, RequestState
  <2>3. game' \in GameRow
    BY <1>3, <2>2 DEF RecoverCount, Touch, TypeOK, GameRow
  <2> QED
    BY <1>3, <2>1, <2>3 DEF TypeOK, RecoverCount, turnVars, envVars
<1>4. CASE RecoveryFails(r)
  <2>1. req' \in [Requests -> RequestState]
    BY <1>0, <1>4, StepType DEF RecoveryFails
  <2> QED
    BY <1>4, <2>1 DEF TypeOK, RecoveryFails, Fault, turnVars
<1>5. CASE RequestFails(r)
  BY <1>5, <1>f DEF TypeOK, RequestFails, Fault, turnVars
<1>6. CASE RejectInactive(r)
  BY <1>6, <1>f DEF TypeOK, RejectInactive, turnVars, envVars
<1>7. CASE EndGame(r)
  BY <1>7, <1>f, GameRowType DEF TypeOK, EndGame, GameStatus, turnVars, envVars
<1>8. CASE RejectInProgress(r)
  BY <1>8, <1>f DEF TypeOK, RejectInProgress, turnVars, envVars
<1>9. CASE LockTurns(r)
  <2>1. PICK s \in Turns \cup {NoTurn} : Step(r, "insert", 0, s)
    BY <1>9 DEF LockTurns, Processing
  <2>2. req' \in [Requests -> RequestState]
    BY <1>0, <2>1, StepType
  <2> QED
    BY <1>9, <2>2 DEF LockTurns, TypeOK, turnVars, envVars
<1>10. CASE AnswerDuplicate(r)
  BY <1>10, <1>f DEF TypeOK, AnswerDuplicate, turnVars, envVars
<1>11. CASE WriteGame(r)
  <2>1. req[r].to \in GameStatus
    BY DEF TypeOK, RequestState
  <2>2. game' \in GameRow
    BY <1>11, <2>1 DEF WriteGame, TypeOK, GameRow, Touch, SetStatus, GameStatus
  <2> QED
    BY <1>11, <2>2, <1>f DEF TypeOK, WriteGame, turnVars, envVars
<1>12. ASSUME NEW t \in Turns, CreateTurn(r, t)
       PROVE  TypeOK'
  <2>1. game' \in GameRow
    BY <1>12, GameRowType DEF CreateTurn, Played, TypeOK, GameStatus
  <2>2. turnStatus' \in [Turns -> TurnStatus]
    BY <1>12 DEF CreateTurn, Cleared, TypeOK, TurnStatus
  <2>3. req[r].key \in Keys \cup {NoKey}
    BY DEF TypeOK, RequestState
  <2> QED
    BY <1>12, <1>f, <2>1, <2>2, <2>3 DEF TypeOK, CreateTurn, TaskPc, envVars
<1> QED
  BY <1>1, <1>2, <1>3, <1>4, <1>5, <1>6, <1>7, <1>8, <1>9, <1>10, <1>11, <1>12
  DEF RequestNext, HandlerStep

\* A task that moves on keeps its type.
LEMMA TaskMoveType ==
  ASSUME TypeOK, NEW t \in Turns, NEW pc \in TaskPc, NEW s \in TurnStatus
  PROVE  /\ [task EXCEPT ![t] = pc] \in [Turns -> TaskPc]
         /\ SetTurn(t, s) => turnStatus' \in [Turns -> TurnStatus]
BY DEF TypeOK, SetTurn

\* Tasks.
LEMMA TaskType ==
  ASSUME TypeOK, NEW t \in Turns, TaskNext(t)
  PROVE  TypeOK'
<1>0. /\ \A pc \in TaskPc : [task EXCEPT ![t] = pc] \in [Turns -> TaskPc]
      /\ \A s \in TurnStatus : SetTurn(t, s) => turnStatus' \in [Turns -> TurnStatus]
      /\ {"mark", "failsafe", "count", "flag", "apply", "done"} \subseteq TaskPc
      /\ Outcomes \subseteq TaskPc
      /\ {"complete", "moderated", "failed"} \subseteq TurnStatus
  BY TaskMoveType DEF TaskPc, Outcomes, TurnStatus
<1>1. ASSUME NEW outcome \in Outcomes, EndPipeline(t, outcome)
      PROVE  TypeOK'
  BY <1>0, <1>1 DEF TypeOK, EndPipeline, turnVars, envVars
<1>2. CASE SaveTurn(t)
  BY <1>0, <1>2 DEF TypeOK, SaveTurn, envVars
<1>3. CASE SaveFailure(t)
  BY <1>0, <1>3 DEF TypeOK, SaveFailure, envVars
<1>4. CASE MarkModerated(t)
  BY <1>0, <1>4 DEF TypeOK, MarkModerated, envVars
<1>5. CASE FailSafe(t)
  BY <1>0, <1>5 DEF TypeOK, FailSafe, envVars
<1>6. CASE ApplyWorldChanges(t)
  BY <1>0, <1>6 DEF TypeOK, ApplyWorldChanges, turnVars, envVars
<1>7. CASE PersistFails(t)
  BY <1>0, <1>7 DEF TypeOK, PersistFails, Fault, turnVars
<1>8. CASE FailSafeFails(t)
  BY <1>0, <1>8 DEF TypeOK, FailSafeFails, Fault, turnVars
<1>9. CASE CountFails(t)
  BY <1>0, <1>9 DEF TypeOK, CountFails, Fault, turnVars
<1>10. CASE FlagFails(t)
  BY <1>0, <1>10 DEF TypeOK, FlagFails, Fault, turnVars
<1>11. CASE CountTurn(t)
  <2> DEFINE g == Touch(game)
  <2>2. g \in GameRow /\ g.turnCount \in Nat
    BY DEF TypeOK, GameRow, Touch
  <2>3. game' = [g EXCEPT !.turnCount = g.turnCount + 1]
    BY <1>11 DEF CountTurn
  <2>1. game' \in GameRow
    BY <2>2, <2>3 DEF GameRow
  <2> QED
    BY <1>0, <1>11, <2>1 DEF TypeOK, CountTurn, turnVars, envVars
<1>12. CASE FlagRecovery(t)
  <2>1. game' \in GameRow
    BY <1>12 DEF TypeOK, FlagRecovery, GameRow, Touch
  <2> QED
    BY <1>0, <1>12, <2>1 DEF TypeOK, FlagRecovery, turnVars, envVars
<1>13. CASE BecomeOverdue(t)
  BY <1>13 DEF TypeOK, BecomeOverdue, turnVars
<1> QED
  BY <1>1, <1>2, <1>3, <1>4, <1>5, <1>6, <1>7, <1>8, <1>9, <1>10, <1>11, <1>12, <1>13
  DEF TaskNext, TaskStep, TaskFault

\* The lifecycle pass, time and restarts.
LEMMA BackgroundType ==
  ASSUME TypeOK, LifecyclePass \/ Elapse \/ Restart
  PROVE  TypeOK'
<1>1. CASE LifecyclePass
  BY <1>1, GameRowType
  DEF TypeOK, LifecyclePass, AbandonGame, ExpireGame, PauseIdleGame, GameStatus,
      turnVars, envVars
<1>2. CASE Elapse
  BY <1>2 DEF TypeOK, Elapse, HalfHourPasses, DayPasses, MonthPasses, GameRow,
              turnVars, envVars
<1>3. CASE Restart
  BY <1>3, IdleRequestType DEF TypeOK, Restart, TaskPc, turnVars
<1> QED
  BY <1>1, <1>2, <1>3

----------------------------------------------------------------------------
(* The invariant is inductive: three kinds of steps.                       *)

\* Steps that leave the turns alone, and no request between its SELECT and its
\* commit that was not there before.
LEMMA FrameStep ==
  ASSUME IInv, TypeOK', UNCHANGED turnVars,
         overdue \subseteq overdue', overdue' \subseteq overdue \cup Processing,
         \A r \in Requests : req'[r].pc = "insert" => req'[r] = req[r] /\ lock' = r,
         \A t \in Turns : task[t] = "none" => task'[t] = "none"
  PROVE  IInv'
<1>1. /\ Accepted' = Accepted /\ Processing' = Processing
      /\ MaxTurnNumber' = MaxTurnNumber
  BY DEF turnVars, Accepted, Processing, MaxTurnNumber
<1>2. OneTurnInFlight' /\ NumbersInv' /\ KeysUnique'
  BY <1>1 DEF IInv, OneTurnInFlight, NumbersInv, TurnsNumbered, NumbersUnique,
              NumbersGapless, KeysUnique, turnVars
<1>3. LockDiscipline'
  BY <1>1 DEF IInv, LockDiscipline
<1>4. TasksHaveTurns'
  BY DEF IInv, TasksHaveTurns, turnVars
<1>5. OverdueAreAccepted'
  BY <1>1 DEF IInv, OverdueAreAccepted, Accepted, Processing
<1> QED
  BY <1>2, <1>3, <1>4, <1>5 DEF IInv

\* Steps of a task that write the status of its turn.
LEMMA SettleStep ==
  ASSUME IInv, TypeOK', NEW t \in Turns, task[t] # "none",
         NEW s \in TurnStatus \ {"absent", "processing"}, SetTurn(t, s),
         UNCHANGED <<turnNumber, turnKey, req, lock, overdue>>,
         \A u \in Turns : task[u] = "none" => task'[u] = "none"
  PROVE  IInv'
<1>1. turnStatus[t] # "absent"
  BY DEF IInv, TasksHaveTurns
<1>2. \A u \in Turns : turnStatus'[u] = IF u = t THEN s ELSE turnStatus[u]
  BY DEF SetTurn, IInv, TypeOK
<1>3. Accepted' = Accepted /\ Processing' \subseteq Processing
  BY <1>1, <1>2 DEF Accepted, Processing
<1>4. MaxTurnNumber' = MaxTurnNumber
  BY <1>3 DEF MaxTurnNumber
<1>5. OneTurnInFlight' /\ NumbersInv' /\ KeysUnique'
  BY <1>3, <1>4 DEF IInv, OneTurnInFlight, NumbersInv, TurnsNumbered,
                    NumbersUnique, NumbersGapless, KeysUnique
<1>6. LockDiscipline'
  BY <1>3 DEF IInv, LockDiscipline
<1>7. TasksHaveTurns' /\ OverdueAreAccepted'
  BY <1>1, <1>2, <1>3 DEF IInv, TasksHaveTurns, OverdueAreAccepted
<1> QED
  BY <1>5, <1>6, <1>7 DEF IInv

\* The commit of a submission.
LEMMA CreateStep ==
  ASSUME IInv, TypeOK', NEW r \in Requests, NEW t \in Turns, CreateTurn(r, t)
  PROVE  IInv'
<1> DEFINE n == MaxTurnNumber
<1>0. n \in Nat /\ {turnNumber[u] : u \in Accepted} = 1 .. n
  BY DEF IInv, NumbersInv, TurnsNumbered, NumbersGapless
<1>1. \A u \in Turns :
        turnStatus'[u] = IF u = t THEN "processing"
                         ELSE IF u = req[r].stuck THEN "failed" ELSE turnStatus[u]
  BY DEF CreateTurn, Cleared, IInv, TypeOK
<1>2. \A u \in Turns : turnNumber'[u] = IF u = t THEN n + 1 ELSE turnNumber[u]
  BY DEF CreateTurn, IInv, TypeOK
<1>3. \A u \in Turns : turnKey'[u] = IF u = t THEN req[r].key ELSE turnKey[u]
  BY DEF CreateTurn, IInv, TypeOK
<1>4. req[r].pc = "insert" /\ turnStatus[t] = "absent" /\ t \notin Accepted
  BY DEF CreateTurn, Accepted
<1>5. req[r].stuck \in Accepted \cup {NoTurn}
  BY <1>4 DEF IInv, LockDiscipline, OverdueAreAccepted
<1>6. Accepted' \subseteq Accepted \cup {t} /\ Accepted \cup {t} \subseteq Accepted'
  BY <1>1, <1>4, <1>5, NullsAssumption DEF Accepted
<1>7. Processing' = {t}
  BY <1>1, <1>4 DEF IInv, LockDiscipline, Processing
<1>8. NumbersInv'
  <2>1. {turnNumber'[u] : u \in Accepted'} = 1 .. (n + 1)
    <3>1. {turnNumber'[u] : u \in Accepted'}
             = {turnNumber[u] : u \in Accepted} \cup {n + 1}
      BY <1>2, <1>4, <1>6 DEF Accepted
    <3>2. (1 .. n) \cup {n + 1} = 1 .. (n + 1)
      BY <1>0
    <3> QED
      BY <1>0, <3>1, <3>2
  <2>2. MaxTurnNumber' = n + 1
    <3>1. MaxTurnNumber' = Max({0} \cup (1 .. (n + 1)))
      BY <2>1 DEF MaxTurnNumber
    <3>2. n + 1 \in Nat
      BY <1>0
    <3> QED
      BY <3>1, <3>2, MaxOfInterval
  <2>3. \A u \in Accepted : turnNumber[u] # n + 1
    BY <1>0
  <2>4. NumbersUnique'
    BY <1>2, <1>6, <2>3 DEF NumbersUnique, IInv, NumbersInv, TurnsNumbered, Accepted
  <2> QED
    BY <1>0, <2>1, <2>2, <2>4 DEF NumbersInv, TurnsNumbered, NumbersGapless
<1>9. KeysUnique'
  <2>1. req[r].key # NoKey => \A u \in Accepted : turnKey[u] # req[r].key
    BY DEF CreateTurn, HasKey
  <2> QED
    BY <1>3, <1>6, <2>1 DEF KeysUnique, IInv, Accepted
<1>10. LockDiscipline'
  <2>1. \A q \in Requests : req'[q].pc # "insert"
    <3>1. \A q \in Requests : req[q].pc = "insert" => q = r
      BY <1>4 DEF IInv, LockDiscipline
    <3> QED
      BY <3>1 DEF CreateTurn, Finish, IdleRequest, IInv, TypeOK
  <2> QED
    BY <2>1 DEF LockDiscipline
<1>11. TasksHaveTurns'
  <2>1. \A u \in Turns : u # t => task'[u] = task[u]
    BY DEF CreateTurn, IInv, TypeOK
  <2> QED
    BY <1>1, <2>1 DEF TasksHaveTurns, IInv
<1>12. OneTurnInFlight' /\ OverdueAreAccepted'
  BY <1>6, <1>7 DEF OneTurnInFlight, OverdueAreAccepted, IInv, CreateTurn, envVars
<1> QED
  BY <1>8, <1>9, <1>10, <1>11, <1>12 DEF IInv

----------------------------------------------------------------------------
(* Every step is of one of the three kinds.                                *)

\* A request that has ended, or is not at its commit yet, is no new holder.
LEMMA NotInserting ==
  ASSUME TypeOK, NEW r \in Requests, NEW pc \in ReqPc \ {"insert"}, NEW c, NEW s,
         Step(r, pc, c, s) \/ Finish(r), NEW q \in Requests,
         req'[q].pc = "insert"
  PROVE  q # r /\ req'[q] = req[q]
<1>1. req[r] \in RequestState
  BY DEF TypeOK
<1>2. CASE Step(r, pc, c, s)
  <2>1. req'[r] = [req[r] EXCEPT !.pc = pc, !.count = c, !.stuck = s]
    BY <1>2 DEF Step, TypeOK
  <2>2. req'[r].pc = pc
    BY <1>1, <2>1 DEF RequestState
  <2> QED
    BY <1>2, <2>2 DEF Step, TypeOK
<1>3. CASE Finish(r)
  BY <1>3 DEF Finish, TypeOK, IdleRequest
<1> QED
  BY <1>2, <1>3

LEMMA HandlerInv ==
  ASSUME IInv, TypeOK', NEW r \in Requests, RequestNext(r)
  PROVE  IInv'
<1>0. TypeOK
  BY DEF IInv
<1>h. \A q \in Requests : req[q].pc = "insert" => lock = q
  BY DEF IInv, LockDiscipline
<1>f. Finish(r) => \A q \in Requests : req'[q].pc = "insert" => q # r /\ req'[q] = req[q]
  BY <1>0, NotInserting DEF ReqPc
<1>1. CASE Arrive(r)
  <2>1. PICK op \in AllOperations, k \in Keys \cup {NoKey}, to \in GameStatus :
          ReadGame(r, op, k, to)
    BY <1>1, OperationsAssumption DEF Arrive, Submit, Patch, GameStatus
  <2>2. \A q \in Requests : req'[q].pc = "insert" => req'[q] = req[q]
    BY <1>0, <2>1 DEF ReadGame, TypeOK
  <2> QED
    BY <1>h, <2>1, <2>2, FrameStep DEF ReadGame, turnVars, envVars
<1>2. CASE RecountTurns(r)
  <2>1. \A q \in Requests : req'[q].pc = "insert" => req'[q] = req[q]
    BY <1>0, <1>2, NotInserting DEF RecountTurns, ReqPc
  <2> QED
    BY <1>h, <1>2, <2>1, FrameStep DEF RecountTurns, turnVars, envVars
<1>3. CASE RecoverCount(r) \/ RecoveryFails(r)
  <2>1. AfterRecovery(r) \in ReqPc \ {"insert"}
    BY DEF AfterRecovery, ReqPc
  <2>2. \A q \in Requests : req'[q].pc = "insert" => req'[q] = req[q]
    BY <1>0, <1>3, <2>1, NotInserting DEF RecoverCount, RecoveryFails
  <2> QED
    BY <1>h, <1>3, <2>2, FrameStep
    DEF RecoverCount, RecoveryFails, turnVars, envVars
<1>4. CASE RequestFails(r)
  BY <1>h, <1>f, <1>4, FrameStep DEF RequestFails, turnVars
<1>5. CASE RejectInactive(r) \/ EndGame(r) \/ RejectInProgress(r) \/ WriteGame(r)
  BY <1>h, <1>f, <1>5, FrameStep
  DEF RejectInactive, EndGame, RejectInProgress, WriteGame, turnVars, envVars
<1>6. CASE AnswerDuplicate(r)
  <2>1. \A q \in Requests : req[q].pc = "insert" => q = r
    BY <1>h, <1>6 DEF AnswerDuplicate
  <2> QED
    BY <1>f, <1>6, <2>1, FrameStep DEF AnswerDuplicate, turnVars, envVars
<1>7. CASE LockTurns(r)
  <2>1. PICK s \in (IF Processing = {} THEN {NoTurn} ELSE Processing) :
          Step(r, "insert", 0, s)
    BY <1>7 DEF LockTurns
  <2>2. /\ \A q \in Requests : req[q].pc # "insert"
        /\ lock' = r
    BY <1>h, <1>7, NullsAssumption DEF LockTurns, AtTurnCheck
  <2>3. /\ req'[r].stuck = s
        /\ \A q \in Requests : req'[q].pc = "insert" => q = r
    <3>1. req[r] \in RequestState
      BY <1>0 DEF TypeOK
    <3> QED
      BY <1>0, <2>1, <2>2, <3>1 DEF Step, TypeOK, RequestState
  <2>4. UNCHANGED <<turnStatus, turnNumber, turnKey, task, overdue>>
    BY <1>7 DEF LockTurns, turnVars, envVars
  <2>5. /\ Accepted' = Accepted /\ Processing' = Processing
        /\ MaxTurnNumber' = MaxTurnNumber
    BY <2>4 DEF Accepted, Processing, MaxTurnNumber
  <2>6. LockDiscipline'
    <3>1. s \in overdue \cup {NoTurn} /\ \A t \in Processing : t = s
      BY <1>7 DEF IInv, OneTurnInFlight, LockTurns, Blocking
    <3> QED
      BY <2>2, <2>3, <2>4, <2>5, <3>1 DEF LockDiscipline
  <2>7. /\ OneTurnInFlight' /\ NumbersInv' /\ KeysUnique' /\ TasksHaveTurns'
        /\ OverdueAreAccepted'
    BY <2>4, <2>5 DEF IInv, OneTurnInFlight, NumbersInv, TurnsNumbered,
       NumbersUnique, NumbersGapless, KeysUnique, TasksHaveTurns, OverdueAreAccepted
  <2> QED
    BY <2>6, <2>7 DEF IInv
<1>8. ASSUME NEW t \in Turns, CreateTurn(r, t)
      PROVE  IInv'
  BY <1>8, CreateStep
<1> QED
  BY <1>1, <1>2, <1>3, <1>4, <1>5, <1>6, <1>7, <1>8 DEF RequestNext, HandlerStep

LEMMA TaskInv ==
  ASSUME IInv, TypeOK', NEW t \in Turns, TaskNext(t)
  PROVE  IInv'
<1>0. /\ \A q \in Requests : req[q].pc = "insert" => lock = q
      /\ task \in [Turns -> TaskPc]
  BY DEF IInv, LockDiscipline, TypeOK
<1>1. CASE SaveTurn(t)
  <2>1. task[t] # "none" /\ SetTurn(t, "complete")
    BY <1>1 DEF SaveTurn
  <2> QED
    BY <1>0, <1>1, <2>1, SettleStep DEF SaveTurn, TurnStatus, envVars
<1>2. CASE MarkModerated(t)
  <2>1. task[t] # "none" /\ SetTurn(t, "moderated")
    BY <1>2 DEF MarkModerated
  <2> QED
    BY <1>0, <1>2, <2>1, SettleStep DEF MarkModerated, TurnStatus, envVars
<1>3. CASE SaveFailure(t) \/ FailSafe(t)
  <2>1. task[t] # "none" /\ SetTurn(t, "failed")
    BY <1>3 DEF SaveFailure, FailSafe
  <2> QED
    BY <1>0, <1>3, <2>1, SettleStep
    DEF SaveFailure, FailSafe, TurnStatus, envVars
<1>4. ASSUME NEW outcome \in Outcomes, EndPipeline(t, outcome)
      PROVE  IInv'
  BY <1>0, <1>4, FrameStep DEF EndPipeline, turnVars, envVars
<1>5. CASE CountTurn(t) \/ FlagRecovery(t) \/ ApplyWorldChanges(t)
  BY <1>0, <1>5, FrameStep
  DEF CountTurn, FlagRecovery, ApplyWorldChanges, turnVars, envVars
<1>6. CASE TaskFault(t)
  BY <1>0, <1>6, FrameStep
  DEF TaskFault, PersistFails, FailSafeFails, CountFails, FlagFails, turnVars,
      Outcomes
<1>7. CASE BecomeOverdue(t)
  BY <1>0, <1>7, FrameStep DEF BecomeOverdue, turnVars
<1> QED
  BY <1>1, <1>2, <1>3, <1>4, <1>5, <1>6, <1>7 DEF TaskNext, TaskStep

LEMMA BackgroundInv ==
  ASSUME IInv, TypeOK', LifecyclePass \/ Elapse \/ Restart
  PROVE  IInv'
<1>0. \A q \in Requests : req[q].pc = "insert" => lock = q
  BY DEF IInv, LockDiscipline
<1>1. CASE LifecyclePass \/ Elapse
  BY <1>0, <1>1, FrameStep
  DEF LifecyclePass, AbandonGame, ExpireGame, PauseIdleGame, Elapse,
      HalfHourPasses, DayPasses, MonthPasses, turnVars, envVars
<1>2. CASE Restart
  BY <1>2, FrameStep DEF Restart, IdleRequest, turnVars
<1> QED
  BY <1>1, <1>2

LEMMA NextIInv == IInv /\ [Next]_vars => IInv'
<1> SUFFICES ASSUME IInv, [Next]_vars PROVE IInv'
  OBVIOUS
<1>0. TypeOK /\ MaxTurnNumber \in Nat
  BY DEF IInv, NumbersInv
<1>1. ASSUME NEW r \in Requests, RequestNext(r)
      PROVE  IInv'
  BY <1>0, <1>1, HandlerType, HandlerInv
<1>2. ASSUME NEW t \in Turns, TaskNext(t)
      PROVE  IInv'
  BY <1>0, <1>2, TaskType, TaskInv
<1>3. CASE LifecyclePass \/ Elapse \/ Restart
  BY <1>0, <1>3, BackgroundType, BackgroundInv
<1>4. CASE UNCHANGED vars
  <2>1. TypeOK'
    BY <1>0, <1>4 DEF TypeOK, vars, turnVars, envVars
  <2> QED
    BY <1>4, <2>1, FrameStep
    DEF vars, turnVars, envVars, IInv, LockDiscipline
<1> QED
  BY <1>1, <1>2, <1>3, <1>4 DEF Next

\* The strengthened invariant holds in every reachable state.
THEOREM SpecIInv == Spec => []IInv
<1> QED
  BY InitIInv, NextIInv, PTL DEF Spec

\* Every variable keeps its type, for any number of turns and requests.
THEOREM SpecTypeOK == Spec => []TypeOK
<1>1. IInv => TypeOK
  BY DEF IInv
<1> QED
  BY <1>1, SpecIInv, PTL

\* FR-23.19 for any number of concurrent submissions, failures and restarts: at
\* most one turn of the game is processing.
THEOREM SpecOneTurnInFlight == Spec => []OneTurnInFlight
<1>1. IInv => OneTurnInFlight
  BY DEF IInv
<1> QED
  BY <1>1, SpecIInv, PTL

\* Turn numbers are 1..n without a repetition: the INSERT of submit_turn cannot
\* violate uq_turns_session_turn.
THEOREM SpecTurnsNumbered == Spec => []TurnsNumbered
<1>1. IInv => TurnsNumbered
  BY DEF IInv, NumbersInv
<1> QED
  BY <1>1, SpecIInv, PTL

\* An idempotency key names at most one turn.
THEOREM SpecKeysUnique == Spec => []KeysUnique
<1>1. IInv => KeysUnique
  BY DEF IInv
<1> QED
  BY <1>1, SpecIInv, PTL

----------------------------------------------------------------------------
(* The turn API implements TurnLog.                                        *)

\* The open number is that of the processing turn, or 0.
LEMMA OpenNumberIs ==
  ASSUME IInv
  PROVE  /\ Processing = {} => OpenNumber = 0
         /\ \A t \in Processing : OpenNumber = turnNumber[t] /\ turnNumber[t] # 0
         /\ OpenNumber = 0 <=> Processing = {}
<1>1. CASE Processing = {}
  <2>1. {0} \cup {turnNumber[t] : t \in Processing} = {0} \cup (1 .. 0)
    BY <1>1
  <2>2. OpenNumber = 0
    BY <2>1, MaxOfInterval DEF OpenNumber
  <2> QED
    BY <1>1, <2>2
<1>2. ASSUME NEW t \in Processing
      PROVE  OpenNumber = turnNumber[t] /\ turnNumber[t] # 0
  <2>1. {turnNumber[u] : u \in Processing} = {turnNumber[t]}
    BY DEF IInv, OneTurnInFlight
  <2>2. t \in Accepted
    BY DEF Accepted, Processing
  <2>3. turnNumber[t] \in 1 .. MaxTurnNumber /\ MaxTurnNumber \in Nat
    BY <2>2 DEF IInv, NumbersInv, TurnsNumbered, NumbersGapless
  <2>4. turnNumber[t] \in Nat \ {0}
    BY <2>3
  <2>5. Max({0, turnNumber[t]}) = turnNumber[t]
    BY <2>4 DEF Max
  <2>6. {0} \cup {turnNumber[t]} = {0, turnNumber[t]}
    OBVIOUS
  <2> QED
    BY <2>1, <2>4, <2>5, <2>6 DEF OpenNumber
<1> QED
  BY <1>1, <1>2

\* A step that changes neither the turns nor their age is a stutter of the log.
LEMMA LogStutter ==
  ASSUME UNCHANGED <<turnVars, overdue>>
  PROVE  UNCHANGED <<MaxTurnNumber, OpenNumber, OpenIsLate>>
BY DEF turnVars, MaxTurnNumber, OpenNumber, OpenIsLate, Accepted, Processing

\* Writing a status settles the open turn, or changes a settled one.
LEMMA LogSettle ==
  ASSUME IInv, IInv', NEW t \in Turns, task[t] # "none",
         NEW s \in TurnStatus \ {"absent", "processing"}, SetTurn(t, s),
         UNCHANGED <<turnNumber, overdue>>
  PROVE  Log!Settle \/ UNCHANGED <<MaxTurnNumber, OpenNumber, OpenIsLate>>
<1>1. turnStatus[t] # "absent"
  BY DEF IInv, TasksHaveTurns
<1>2. \A u \in Turns : turnStatus'[u] = IF u = t THEN s ELSE turnStatus[u]
  BY DEF SetTurn, IInv, TypeOK
<1>3. Accepted' = Accepted /\ Processing' = Processing \ {t}
  BY <1>1, <1>2 DEF Accepted, Processing
<1>4. UNCHANGED MaxTurnNumber
  BY <1>3 DEF MaxTurnNumber
<1>5. CASE t \in Processing
  <2>1. Processing' = {}
    BY <1>3, <1>5 DEF IInv, OneTurnInFlight
  <2>2. OpenNumber # 0
    BY <1>5, OpenNumberIs
  <2>3. OpenNumber' = 0
    <3>1. {0} \cup {turnNumber'[u] : u \in Processing'} = {0} \cup (1 .. 0)
      BY <2>1
    <3> QED
      BY <3>1, MaxOfInterval DEF OpenNumber
  <2>4. OpenIsLate' = FALSE
    BY <2>1 DEF OpenIsLate
  <2> QED
    BY <1>4, <2>2, <2>3, <2>4 DEF Log!Settle
<1>6. CASE t \notin Processing
  <2>1. Processing' = Processing
    BY <1>3, <1>6
  <2> QED
    BY <1>4, <2>1 DEF OpenNumber, OpenIsLate
<1> QED
  BY <1>5, <1>6

\* The commit of a submission accepts the next number.
LEMMA LogAccept ==
  ASSUME IInv, IInv', NEW r \in Requests, NEW t \in Turns, CreateTurn(r, t)
  PROVE  Log!Accept
<1> DEFINE n == MaxTurnNumber
<1>1. n \in Nat
  BY DEF IInv, NumbersInv
<1>2. OpenNumber = 0 \/ OpenIsLate
  <2>1. \A u \in Processing : u \in overdue
    BY NullsAssumption DEF IInv, LockDiscipline, CreateTurn, Processing
  <2> QED
    BY <2>1, OpenNumberIs DEF OpenIsLate
<1>3. turnStatus'[t] = "processing" /\ turnNumber'[t] = n + 1
  BY DEF CreateTurn, Cleared, IInv, TypeOK
<1>4. t \in Processing' /\ t \in Accepted'
  BY <1>3 DEF Processing, Accepted
<1>5. MaxTurnNumber' = n + 1
  <2>1. turnStatus[t] = "absent" /\ req[r].pc = "insert"
    BY DEF CreateTurn
  <2>2. \A u \in Accepted' : u = t \/ u \in Accepted
    BY <2>1, NullsAssumption
    DEF CreateTurn, Cleared, IInv, TypeOK, LockDiscipline, OverdueAreAccepted, Accepted
  <2>3. \A u \in Accepted : turnNumber[u] \in 1 .. n
    BY DEF IInv, NumbersInv, TurnsNumbered, NumbersGapless
  <2>4. \A u \in Accepted' : turnNumber'[u] \in 1 .. (n + 1)
    BY <1>1, <1>3, <2>2, <2>3 DEF CreateTurn, IInv, TypeOK, Accepted
  <2>5. MaxTurnNumber' \in Nat /\ {turnNumber'[u] : u \in Accepted'} = 1 .. MaxTurnNumber'
    BY DEF IInv, NumbersInv, TurnsNumbered, NumbersGapless
  <2>6. n + 1 \in 1 .. MaxTurnNumber'
    BY <1>3, <1>4, <2>5
  <2>7. MaxTurnNumber' \in 1 .. (n + 1)
    <3>1. MaxTurnNumber' \in 1 .. MaxTurnNumber'
      BY <1>1, <2>5, <2>6
    <3>2. PICK u \in Accepted' : turnNumber'[u] = MaxTurnNumber'
      BY <2>5, <3>1
    <3> QED
      BY <2>4, <3>2
  <2> QED
    BY <1>1, <2>5, <2>6, <2>7
<1>6. OpenNumber' = n + 1
  <2>1. {turnNumber'[u] : u \in Processing'} = {n + 1}
    BY <1>3, <1>4 DEF IInv, OneTurnInFlight
  <2>2. Max({0, n + 1}) = n + 1
    BY <1>1 DEF Max
  <2>3. {0} \cup {n + 1} = {0, n + 1}
    OBVIOUS
  <2> QED
    BY <2>1, <2>2, <2>3 DEF OpenNumber
<1>7. OpenIsLate' = FALSE
  <2>1. t \notin overdue
    BY DEF IInv, OverdueAreAccepted, Accepted, CreateTurn
  <2> QED
    BY <1>4, <2>1 DEF OpenIsLate, CreateTurn, envVars
<1> QED
  BY <1>2, <1>5, <1>6, <1>7 DEF Log!Accept

LEMMA LogStep ==
  ASSUME IInv, IInv', [Next]_vars
  PROVE  [Log!LogNext]_(Log!logVars)
<1> USE DEF Log!LogNext, Log!logVars
<1>1. ASSUME NEW r \in Requests, RequestNext(r)
      PROVE  [Log!LogNext]_(Log!logVars)
  <2>1. ASSUME NEW t \in Turns, CreateTurn(r, t)
        PROVE  [Log!LogNext]_(Log!logVars)
    BY <2>1, LogAccept
  <2>2. CASE Arrive(r)
    <3>1. PICK op \in AllOperations, k \in Keys \cup {NoKey}, to \in GameStatus :
            ReadGame(r, op, k, to)
      BY <2>2, OperationsAssumption DEF Arrive, Submit, Patch, GameStatus
    <3> QED
      BY <3>1, LogStutter DEF ReadGame, envVars
  <2>3. CASE \/ RecountTurns(r) \/ RecoverCount(r) \/ RejectInactive(r)
             \/ EndGame(r) \/ RejectInProgress(r) \/ LockTurns(r)
             \/ AnswerDuplicate(r) \/ WriteGame(r)
    BY <2>3, LogStutter
    DEF RecountTurns, RecoverCount, RejectInactive, EndGame, RejectInProgress,
        LockTurns, AnswerDuplicate, WriteGame, envVars
  <2>4. CASE RecoveryFails(r) \/ RequestFails(r)
    BY <2>4, LogStutter DEF RecoveryFails, RequestFails
  <2> QED
    BY <1>1, <2>1, <2>2, <2>3, <2>4 DEF RequestNext, HandlerStep
<1>2. ASSUME NEW t \in Turns, TaskNext(t)
      PROVE  [Log!LogNext]_(Log!logVars)
  <2>1. CASE SaveTurn(t)
    <3>1. task[t] # "none" /\ SetTurn(t, "complete")
      BY <2>1 DEF SaveTurn
    <3> QED
      BY <2>1, <3>1, LogSettle DEF SaveTurn, TurnStatus, envVars
  <2>2. CASE MarkModerated(t)
    <3>1. task[t] # "none" /\ SetTurn(t, "moderated")
      BY <2>2 DEF MarkModerated
    <3> QED
      BY <2>2, <3>1, LogSettle DEF MarkModerated, TurnStatus, envVars
  <2>3. CASE SaveFailure(t) \/ FailSafe(t)
    <3>1. task[t] # "none" /\ SetTurn(t, "failed")
      BY <2>3 DEF SaveFailure, FailSafe
    <3> QED
      BY <2>3, <3>1, LogSettle DEF SaveFailure, FailSafe, TurnStatus, envVars
  <2>4. CASE (\E outcome \in Outcomes : EndPipeline(t, outcome))
             \/ CountTurn(t) \/ FlagRecovery(t) \/ ApplyWorldChanges(t)
    BY <2>4, LogStutter
    DEF EndPipeline, CountTurn, FlagRecovery, ApplyWorldChanges, envVars
  <2>5. CASE TaskFault(t)
    BY <2>5, LogStutter
    DEF TaskFault, PersistFails, FailSafeFails, CountFails, FlagFails
  <2>6. CASE BecomeOverdue(t)
    <3>1. UNCHANGED <<MaxTurnNumber, OpenNumber>> /\ Processing' = Processing
      BY <2>6 DEF BecomeOverdue, turnVars, MaxTurnNumber, OpenNumber, Accepted,
                  Processing
    <3>2. OpenIsLate' = TRUE
      BY <2>6, <3>1 DEF BecomeOverdue, OpenIsLate, IInv, OneTurnInFlight
    <3>3. OpenNumber # 0
      BY <2>6, OpenNumberIs DEF BecomeOverdue
    <3> QED
      BY <3>1, <3>2, <3>3 DEF Log!GoLate
  <2> QED
    BY <1>2, <2>1, <2>2, <2>3, <2>4, <2>5, <2>6 DEF TaskNext, TaskStep
<1>3. CASE LifecyclePass \/ Elapse
  BY <1>3, LogStutter
  DEF LifecyclePass, AbandonGame, ExpireGame, PauseIdleGame, Elapse,
      HalfHourPasses, DayPasses, MonthPasses, envVars
<1>4. CASE Restart \/ UNCHANGED vars
  BY <1>4, LogStutter DEF Restart, vars, envVars
<1> QED
  BY <1>1, <1>2, <1>3, <1>4 DEF Next

\* Initially no turn has been accepted and none is open.
LEMMA LogStart == Init => Log!LogInit
<1> SUFFICES ASSUME Init PROVE Log!LogInit
  OBVIOUS
<1>1. Accepted = {} /\ Processing = {}
  BY DEF Init, Accepted, Processing
<1>2. MaxTurnNumber = 0
  <2>1. {turnNumber[t] : t \in Accepted} = 1 .. 0
    BY <1>1
  <2> QED
    BY <2>1, MaxOfInterval DEF MaxTurnNumber
<1>3. OpenNumber = 0 /\ OpenIsLate = FALSE
  BY <1>1, InitIInv, OpenNumberIs DEF OpenIsLate
<1> QED
  BY <1>2, <1>3 DEF Log!LogInit

\* Turn by turn, the handlers, the background tasks and their failures implement
\* the sequential log that the API documents promise.
THEOREM SpecImplementsLog == Spec => ImplementsLog
<1>1. IInv /\ IInv' /\ [Next]_vars => [Log!LogNext]_(Log!logVars)
  BY LogStep
<1> QED
  BY <1>1, LogStart, SpecIInv, PTL DEF Spec, ImplementsLog, Log!LogSpec

----------------------------------------------------------------------------
(* A running pipeline keeps its turn.                                      *)

RunInv ==
  /\ RunningTurnsAreProcessing
  /\ \A t \in overdue : task[t] # "run"

LEMMA NextRunInv ==
  ASSUME DeadlineHolds, IInv, RunInv, [Next]_vars
  PROVE  RunInv'
<1>0. /\ \A r \in Requests : req[r].pc = "insert" => req[r].stuck \in overdue \cup {NoTurn}
      /\ turnStatus \in [Turns -> TurnStatus] /\ task \in [Turns -> TaskPc]
      /\ overdue \subseteq Accepted
  BY DEF IInv, LockDiscipline, TypeOK, OverdueAreAccepted
<1>k. ASSUME UNCHANGED <<turnVars, overdue>>, \A t \in Turns : task'[t] = "run" => task[t] = "run"
      PROVE  RunInv'
  BY <1>0, <1>k DEF RunInv, RunningTurnsAreProcessing, turnVars, Accepted
<1>1. ASSUME NEW r \in Requests, RequestNext(r)
      PROVE  RunInv'
  <2>1. ASSUME NEW t \in Turns, CreateTurn(r, t)
        PROVE  RunInv'
    BY <1>0, <2>1, NullsAssumption
    DEF RunInv, RunningTurnsAreProcessing, CreateTurn, Cleared, Accepted, envVars
  <2>2. CASE Arrive(r)
    <3>1. PICK op \in AllOperations, k \in Keys \cup {NoKey}, to \in GameStatus :
            ReadGame(r, op, k, to)
      BY <2>2, OperationsAssumption DEF Arrive, Submit, Patch, GameStatus
    <3> QED
      BY <1>k, <3>1 DEF ReadGame, envVars
  <2>3. CASE \/ RecountTurns(r) \/ RecoverCount(r) \/ RejectInactive(r)
             \/ EndGame(r) \/ RejectInProgress(r) \/ LockTurns(r)
             \/ AnswerDuplicate(r) \/ WriteGame(r)
    BY <1>k, <2>3
    DEF RecountTurns, RecoverCount, RejectInactive, EndGame, RejectInProgress,
        LockTurns, AnswerDuplicate, WriteGame, envVars
  <2>4. CASE RecoveryFails(r) \/ RequestFails(r)
    BY <1>k, <2>4 DEF RecoveryFails, RequestFails
  <2> QED
    BY <1>1, <2>1, <2>2, <2>3, <2>4 DEF RequestNext, HandlerStep
<1>2. ASSUME NEW t \in Turns, TaskNext(t)
      PROVE  RunInv'
  <2>1. CASE SaveTurn(t) \/ SaveFailure(t) \/ MarkModerated(t) \/ FailSafe(t)
    <3>1. /\ task[t] # "run" /\ task'[t] # "run"
          /\ \A u \in Turns \ {t} : task'[u] = task[u] /\ turnStatus'[u] = turnStatus[u]
          /\ overdue' = overdue
      BY <1>0, <2>1 DEF SaveTurn, SaveFailure, MarkModerated, FailSafe, SetTurn, envVars
    <3> QED
      BY <1>0, <3>1 DEF RunInv, RunningTurnsAreProcessing, Accepted
  <2>2. CASE (\E outcome \in Outcomes : EndPipeline(t, outcome))
             \/ CountTurn(t) \/ FlagRecovery(t) \/ ApplyWorldChanges(t)
    BY <1>0, <1>k, <2>2
    DEF EndPipeline, CountTurn, FlagRecovery, ApplyWorldChanges, Outcomes, envVars
  <2>3. CASE TaskFault(t)
    BY <1>0, <1>k, <2>3
    DEF TaskFault, PersistFails, FailSafeFails, CountFails, FlagFails
  <2>4. CASE BecomeOverdue(t)
    BY <1>0, <2>4 DEF BecomeOverdue, RunInv, RunningTurnsAreProcessing, turnVars
  <2> QED
    BY <1>2, <2>1, <2>2, <2>3, <2>4 DEF TaskNext, TaskStep
<1>3. CASE LifecyclePass \/ Elapse
  BY <1>k, <1>3
  DEF LifecyclePass, AbandonGame, ExpireGame, PauseIdleGame, Elapse,
      HalfHourPasses, DayPasses, MonthPasses, envVars
<1>4. CASE Restart \/ UNCHANGED vars
  BY <1>k, <1>4 DEF Restart, vars, envVars
<1> QED
  BY <1>1, <1>2, <1>3, <1>4 DEF Next

\* If run_pipeline ends before its turn counts as stuck, the clearing of stuck
\* turns never hits a turn whose pipeline is still running.
THEOREM SpecRunningTurnsAreProcessing ==
  ASSUME DeadlineHolds
  PROVE  Spec => []RunningTurnsAreProcessing
<1>1. Init => RunInv
  BY DEF Init, RunInv, RunningTurnsAreProcessing
<1>2. IInv /\ RunInv /\ [Next]_vars => RunInv'
  BY NextRunInv
<1>3. RunInv => RunningTurnsAreProcessing
  BY DEF RunInv
<1> QED
  BY <1>1, <1>2, <1>3, SpecIInv, PTL DEF Spec

----------------------------------------------------------------------------
(* The counter of the session agrees with the turns.                       *)

NothingToRecover ==
  /\ ~game.needsRecovery
  /\ \A r \in Requests : req[r].pc \notin {"recount", "recover"}

\* A turn is terminal from the transaction that saves it on.
SavedOnce ==
  \A t \in Turns :
    /\ task[t] \notin {"failsafe", "flag"}
    /\ task[t] \in Outcomes \cup {"run"} => turnStatus[t] = "processing"
    /\ task[t] = "mark" => turnStatus[t] = "complete"

CountInv ==
  /\ faults <= MaxFaults /\ crashes <= MaxCrashes
  /\ Undisturbed => NothingToRecover /\ SavedOnce
  /\ PlayedIsCounted

\* What a write of the row leaves alone.
LEMMA RowKeeps ==
  ASSUME game \in GameRow
  PROVE  /\ Touch(game).turnCount = game.turnCount
         /\ Touch(game).needsRecovery = game.needsRecovery
         /\ Touch(game).status = game.status
         /\ \A s \in GameStatus :
              /\ SetStatus(game, s).turnCount = game.turnCount
              /\ SetStatus(game, s).needsRecovery = game.needsRecovery
              /\ SetStatus(game, s).status = s
BY DEF GameRow, Touch, SetStatus

\* A request that goes on keeps what it read.
LEMMA StepKeeps ==
  ASSUME TypeOK, NEW r \in Requests, NEW pc, NEW c, NEW s, Step(r, pc, c, s)
  PROVE  /\ \A q \in Requests :
              /\ req'[q].status = req[q].status
              /\ req'[q].op = req[q].op /\ req'[q].to = req[q].to
              /\ q # r => req'[q] = req[q]
         /\ req'[r].pc = pc
<1> DEFINE n == [req[r] EXCEPT !.pc = pc, !.count = c, !.stuck = s]
<1>1. req \in [Requests -> RequestState] /\ req[r] \in RequestState
  BY DEF TypeOK
<1>2. n.status = req[r].status /\ n.op = req[r].op /\ n.to = req[r].to /\ n.pc = pc
  BY <1>1 DEF RequestState
<1>3. req' = [req EXCEPT ![r] = n]
  BY DEF Step
<1> HIDE DEF n
<1> QED
  BY <1>1, <1>2, <1>3

\* The sets that are counted are finite.
LEMMA CountedSets ==
  /\ IsFiniteSet(Terminal) /\ Cardinality(Terminal) \in Nat
  /\ IsFiniteSet(Uncounted) /\ Cardinality(Uncounted) \in Nat
<1>1. Terminal \subseteq Turns /\ Uncounted \subseteq Turns
  BY DEF Terminal, Uncounted
<1> QED
  BY <1>1, FiniteAssumption, FS_Subset, FS_CardinalityType

\* An undisturbed step starts from an undisturbed state.
LEMMA UndisturbedBefore ==
  ASSUME TypeOK, faults <= MaxFaults, crashes <= MaxCrashes, [Next]_vars
  PROVE  /\ faults' <= MaxFaults /\ crashes' <= MaxCrashes
         /\ Undisturbed' => /\ Undisturbed
                            /\ faults' = faults /\ crashes' = crashes /\ overdue' = overdue
<1>1. faults \in Nat /\ crashes \in Nat /\ MaxFaults \in Nat /\ MaxCrashes \in Nat
  BY BoundsAssumption DEF TypeOK
<1> DEFINE Fewer == /\ faults' \in {faults, faults - 1}
                    /\ crashes' \in {crashes, crashes - 1}
                    /\ overdue \subseteq overdue'
<1>2. Fewer
  <2>1. CASE Restart \/ UNCHANGED vars
    BY <2>1 DEF Restart, vars, envVars
  <2>2. CASE LifecyclePass \/ Elapse
    BY <2>2
    DEF LifecyclePass, AbandonGame, ExpireGame, PauseIdleGame, Elapse, HalfHourPasses,
        DayPasses, MonthPasses, envVars
  <2>3. ASSUME NEW r \in Requests, RequestNext(r) PROVE Fewer
    <3>1. CASE Arrive(r)
      <4>1. PICK op \in AllOperations, k \in Keys \cup {NoKey}, to \in GameStatus :
              ReadGame(r, op, k, to)
        BY <3>1, OperationsAssumption DEF Arrive, Submit, Patch, GameStatus
      <4> QED BY <4>1 DEF ReadGame, envVars
    <3>2. CASE HandlerStep(r)
      BY <3>2
      DEF HandlerStep, RecountTurns, RecoverCount, RejectInactive, EndGame, RejectInProgress,
          LockTurns, AnswerDuplicate, WriteGame, CreateTurn, envVars
    <3>3. CASE RecoveryFails(r) \/ RequestFails(r)
      BY <3>3 DEF RecoveryFails, RequestFails, Fault
    <3> QED BY <2>3, <3>1, <3>2, <3>3 DEF RequestNext
  <2>4. ASSUME NEW t \in Turns, TaskNext(t) PROVE Fewer
    BY <2>4
    DEF TaskNext, TaskStep, TaskFault, EndPipeline, SaveTurn, SaveFailure, MarkModerated,
        FailSafe, CountTurn, FlagRecovery, ApplyWorldChanges, PersistFails, FailSafeFails,
        CountFails, FlagFails, BecomeOverdue, Fault, envVars
  <2> QED BY <2>1, <2>2, <2>3, <2>4 DEF Next
<1> QED BY <1>1, <1>2 DEF Undisturbed

LEMMA CountStep ==
  ASSUME IInv, CountInv, [Next]_vars
  PROVE  CountInv'
<1>0. /\ game \in GameRow /\ TypeOK /\ turnStatus \in [Turns -> TurnStatus]
      /\ task \in [Turns -> TaskPc] /\ req \in [Requests -> RequestState]
      /\ faults \in Nat /\ crashes \in Nat
      /\ \A r \in Requests : req[r].to \in GameStatus
  BY DEF IInv, TypeOK, RequestState
<1>c. game.turnCount \in Nat
  BY <1>0 DEF GameRow
<1>u. /\ faults' <= MaxFaults /\ crashes' <= MaxCrashes
      /\ Undisturbed' => /\ Undisturbed
                         /\ faults' = faults /\ crashes' = crashes /\ overdue' = overdue
  BY <1>0, UndisturbedBefore DEF CountInv
<1> SUFFICES ASSUME Undisturbed'
             PROVE  /\ NothingToRecover' /\ SavedOnce'
                    /\ game'.turnCount + Cardinality(Uncounted') = Cardinality(Terminal')
  BY <1>u DEF CountInv, PlayedIsCounted, TurnCount
<1>1. /\ overdue = {} /\ overdue' = {} /\ faults' = faults /\ crashes' = crashes
      /\ NothingToRecover /\ SavedOnce
      /\ game.turnCount + Cardinality(Uncounted) = Cardinality(Terminal)
  BY <1>u DEF CountInv, PlayedIsCounted, TurnCount, Undisturbed
<1>2. ~Restart /\ \A t \in Turns : ~TaskFault(t) /\ ~BecomeOverdue(t)
  BY <1>0, <1>1
  DEF Restart, TaskFault, PersistFails, FailSafeFails, CountFails, FlagFails, BecomeOverdue,
      Fault
<1>3. \A r \in Requests : ~RecoveryFails(r) /\ ~RequestFails(r)
  BY <1>0, <1>1 DEF RecoveryFails, RequestFails, Fault
<1> DEFINE Goal == /\ NothingToRecover' /\ SavedOnce'
                   /\ game'.turnCount + Cardinality(Uncounted') = Cardinality(Terminal')
\* A step that neither moves a task nor changes the status of a turn that has one.
<1>k. ASSUME NothingToRecover', game'.turnCount = game.turnCount,
             turnStatus' = turnStatus, task' = task
      PROVE  Goal
  BY <1>1, <1>k DEF SavedOnce, Uncounted, Terminal
<1>4. ASSUME NEW r \in Requests, RequestNext(r)
      PROVE  Goal
  <2>1. CASE Arrive(r)
    <3>1. PICK op \in AllOperations, k \in Keys \cup {NoKey}, to \in GameStatus :
            ReadGame(r, op, k, to)
      BY <2>1, OperationsAssumption DEF Arrive, Submit, Patch, GameStatus
    <3>2. /\ req'[r].pc \in {"write", "check"} /\ game' = game
          /\ \A q \in Requests \ {r} : req'[q] = req[q]
          /\ turnStatus' = turnStatus /\ task' = task
      BY <1>0, <1>1, <3>1 DEF ReadGame, NothingToRecover, turnVars
    <3>3. NothingToRecover'
      BY <1>1, <3>2 DEF NothingToRecover
    <3> QED BY <1>k, <3>2, <3>3
  <2>2. ~RecountTurns(r) /\ ~RecoverCount(r)
    BY <1>1 DEF RecountTurns, RecoverCount, NothingToRecover
  <2>3. CASE LockTurns(r)
    <3>1. PICK s : Step(r, "insert", 0, s)
      BY <2>3 DEF LockTurns
    <3>2. game' = game /\ turnStatus' = turnStatus /\ task' = task
      BY <2>3 DEF LockTurns, turnVars
    <3>3. req'[r].pc = "insert" /\ \A q \in Requests : q # r => req'[q] = req[q]
      BY <1>0, <3>1, StepKeeps
    <3>4. NothingToRecover'
      BY <1>1, <3>2, <3>3 DEF NothingToRecover
    <3> QED BY <1>k, <3>2, <3>4
  <2>f. ASSUME Finish(r), game'.needsRecovery = game.needsRecovery
        PROVE  NothingToRecover'
    <3>1. \A q \in Requests : req'[q] = req[q] \/ req'[q] = IdleRequest
      BY <1>0, <2>f DEF Finish
    <3> QED BY <1>1, <2>f, <3>1 DEF NothingToRecover, IdleRequest
  <2>4. CASE RejectInactive(r) \/ RejectInProgress(r) \/ AnswerDuplicate(r)
    <3>1. Finish(r) /\ game' = game /\ turnStatus' = turnStatus /\ task' = task
      BY <2>4 DEF RejectInactive, RejectInProgress, AnswerDuplicate, turnVars
    <3> QED BY <1>k, <2>f, <3>1
  <2>5. CASE EndGame(r) \/ WriteGame(r)
    <3>1. Finish(r) /\ turnStatus' = turnStatus /\ task' = task
      BY <2>5 DEF EndGame, WriteGame, turnVars
    <3>2. game'.turnCount = game.turnCount /\ game'.needsRecovery = game.needsRecovery
      <4>1. CASE EndGame(r)
        BY <1>0, <4>1, RowKeeps DEF EndGame, GameStatus
      <4>2. CASE WriteGame(r)
        <5>1. CASE req[r].op = "delete"
          <6>1. game' = [SetStatus(game, "abandoned") EXCEPT !.deleted = TRUE]
            BY <4>2, <5>1 DEF WriteGame
          <6> QED BY <1>0, <6>1 DEF GameRow, SetStatus, Touch
        <5>2. CASE req[r].op # "delete"
          <6>1. \/ game' = game \/ game' = Touch(game) \/ game' = SetStatus(game, "active")
                \/ game' = SetStatus(game, req[r].to)
            BY <4>2, <5>2 DEF WriteGame
          <6> QED BY <1>0, <6>1, RowKeeps DEF GameStatus
        <5> QED BY <5>1, <5>2
      <4> QED BY <2>5, <4>1, <4>2
    <3> QED BY <1>k, <2>f, <3>1, <3>2
  <2>6. ASSUME NEW t \in Turns, CreateTurn(r, t)
        PROVE  Goal
    <3>1. Cleared(r) = turnStatus
      <4>1. req[r].stuck \notin Turns
        BY <1>1, <2>6, NullsAssumption DEF IInv, LockDiscipline, CreateTurn
      <4> QED BY <1>0, <4>1 DEF Cleared
    <3>2. /\ turnStatus[t] = "absent" /\ turnStatus' = [turnStatus EXCEPT ![t] = "processing"]
          /\ task' = [task EXCEPT ![t] = "run"] /\ task[t] = "none"
          /\ game' = Played(r) /\ Finish(r)
      BY <2>6, <3>1 DEF CreateTurn, IInv, TasksHaveTurns
    <3>3. Terminal' = Terminal /\ Uncounted' = Uncounted /\ SavedOnce'
      BY <1>0, <1>1, <3>2 DEF Terminal, Uncounted, SavedOnce, Outcomes
    <3>4. game'.turnCount = game.turnCount /\ game'.needsRecovery = game.needsRecovery
      BY <1>0, <3>2, RowKeeps DEF Played, GameStatus
    <3> QED BY <1>1, <2>f, <3>2, <3>3, <3>4
  <2> QED
    BY <1>3, <1>4, <2>1, <2>2, <2>3, <2>4, <2>5, <2>6 DEF RequestNext, HandlerStep
<1>5. ASSUME NEW t \in Turns, TaskNext(t)
      PROVE  Goal
  <2>1. NothingToRecover' <=> ~game'.needsRecovery
    <3>1. req' = req
      BY <1>5
      DEF TaskNext, TaskStep, TaskFault, EndPipeline, SaveTurn, SaveFailure, MarkModerated,
          FailSafe, CountTurn, FlagRecovery, ApplyWorldChanges, PersistFails, FailSafeFails,
          CountFails, FlagFails, BecomeOverdue
    <3> QED BY <1>1, <3>1 DEF NothingToRecover
  <2>2. ASSUME NEW outcome \in Outcomes, EndPipeline(t, outcome)
        PROVE  Goal
    <3>1. Terminal' = Terminal /\ Uncounted' = Uncounted /\ SavedOnce' /\ game' = game
      BY <1>0, <1>1, <2>2 DEF EndPipeline, Terminal, Uncounted, SavedOnce, Outcomes, turnVars
    <3> QED BY <1>1, <2>1, <3>1 DEF NothingToRecover
  <2>3. CASE SaveTurn(t)
    <3>1. /\ t \notin Terminal /\ Terminal' = Terminal \cup {t}
          /\ t \notin Uncounted /\ Uncounted' = Uncounted \cup {t}
          /\ SavedOnce' /\ game' = game
      BY <1>0, <1>1, <2>3 DEF SaveTurn, SetTurn, Terminal, Uncounted, SavedOnce, Outcomes
    <3>2. /\ Cardinality(Terminal') = Cardinality(Terminal) + 1
          /\ Cardinality(Uncounted') = Cardinality(Uncounted) + 1
      BY <3>1, CountedSets, FS_AddElement
    <3> QED BY <1>1, <1>c, <2>1, <3>1, <3>2, CountedSets DEF NothingToRecover
  <2>4. CASE SaveFailure(t)
    <3>1. Terminal' = Terminal /\ Uncounted' = Uncounted /\ SavedOnce' /\ game' = game
      BY <1>0, <1>1, <2>4 DEF SaveFailure, SetTurn, Terminal, Uncounted, SavedOnce, Outcomes
    <3> QED BY <1>1, <2>1, <3>1 DEF NothingToRecover
  <2>5. CASE MarkModerated(t)
    <3>1. Terminal' = Terminal /\ Uncounted' = Uncounted /\ SavedOnce' /\ game' = game
      BY <1>0, <1>1, <2>5 DEF MarkModerated, SetTurn, Terminal, Uncounted, SavedOnce, Outcomes
    <3> QED BY <1>1, <2>1, <3>1 DEF NothingToRecover
  <2>6. ~FailSafe(t) /\ ~FlagRecovery(t)
    BY <1>1 DEF FailSafe, FlagRecovery, SavedOnce
  <2>7. CASE CountTurn(t)
    <3>1. /\ Terminal' = Terminal /\ t \in Uncounted /\ Uncounted' = Uncounted \ {t}
          /\ SavedOnce'
      BY <1>0, <1>1, <2>7 DEF CountTurn, Terminal, Uncounted, SavedOnce, Outcomes, turnVars
    <3>2. game'.turnCount = game.turnCount + 1 /\ game'.needsRecovery = game.needsRecovery
      <4> DEFINE g == Touch(game)
      <4>1. g \in GameRow /\ g.turnCount = game.turnCount /\ g.needsRecovery = game.needsRecovery
        BY <1>0, RowKeeps DEF GameRow, Touch
      <4>2. game' = [g EXCEPT !.turnCount = g.turnCount + 1]
        BY <2>7 DEF CountTurn
      <4> HIDE DEF g
      <4> QED BY <4>1, <4>2 DEF GameRow
    <3>3. Cardinality(Uncounted') = Cardinality(Uncounted) - 1
      BY <3>1, CountedSets, FS_RemoveElement
    <3> QED BY <1>1, <1>c, <2>1, <3>1, <3>2, <3>3, CountedSets DEF NothingToRecover
  <2>8. CASE ApplyWorldChanges(t)
    <3>1. Terminal' = Terminal /\ Uncounted' = Uncounted /\ SavedOnce' /\ game' = game
      BY <1>0, <1>1, <2>8
      DEF ApplyWorldChanges, Terminal, Uncounted, SavedOnce, Outcomes, turnVars
    <3> QED BY <1>1, <2>1, <3>1 DEF NothingToRecover
  <2> QED
    BY <1>2, <1>5, <2>2, <2>3, <2>4, <2>5, <2>6, <2>7, <2>8 DEF TaskNext, TaskStep
<1>6. CASE LifecyclePass \/ Elapse
  <2>1. req' = req /\ turnStatus' = turnStatus /\ task' = task
    BY <1>6
    DEF LifecyclePass, AbandonGame, ExpireGame, PauseIdleGame, Elapse, HalfHourPasses,
        DayPasses, MonthPasses, turnVars
  <2>2. game'.turnCount = game.turnCount /\ game'.needsRecovery = game.needsRecovery
    <3>1. CASE LifecyclePass
      BY <1>0, <3>1, RowKeeps
      DEF LifecyclePass, AbandonGame, ExpireGame, PauseIdleGame, GameStatus
    <3>2. CASE Elapse
      BY <1>0, <3>2 DEF Elapse, HalfHourPasses, DayPasses, MonthPasses, GameRow
    <3> QED BY <1>6, <3>1, <3>2
  <2> QED BY <1>1, <1>k, <2>1, <2>2 DEF NothingToRecover
<1>7. CASE UNCHANGED vars
  BY <1>1, <1>k, <1>7 DEF vars, turnVars, NothingToRecover
<1> QED
  BY <1>2, <1>4, <1>5, <1>6, <1>7 DEF Next

\* For every number of turns, requests, failures and restarts: turn_count and the
\* number of terminal turns differ by the increments under way, until a statement
\* fails, a server restarts or a turn is overdue.
THEOREM SpecPlayedIsCounted == Spec => []PlayedIsCounted
<1>1. Init => CountInv
  <2> SUFFICES ASSUME Init PROVE CountInv
    OBVIOUS
  <2>1. Terminal = {} /\ Uncounted = {}
    BY DEF Init, Terminal, Uncounted
  <2>2. game.turnCount + Cardinality(Uncounted) = TurnCount
    BY <2>1, FS_EmptySet DEF Init, TurnCount
  <2>3. NothingToRecover /\ SavedOnce
    BY DEF Init, NothingToRecover, SavedOnce, IdleRequest, Outcomes
  <2>4. faults <= MaxFaults /\ crashes <= MaxCrashes
    BY BoundsAssumption DEF Init
  <2> QED BY <2>2, <2>3, <2>4 DEF CountInv, PlayedIsCounted
<1>2. IInv /\ CountInv /\ [Next]_vars => CountInv'
  BY CountStep
<1>3. CountInv => PlayedIsCounted
  BY DEF CountInv
<1> QED
  BY <1>1, <1>2, <1>3, SpecIInv, PTL DEF Spec
=============================================================================
