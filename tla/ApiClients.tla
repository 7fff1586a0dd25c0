---------------------------- MODULE ApiClients ----------------------------
(* The programs that play over the API: playtester agents of an evaluation    *)
(* batch (playtest/agent.py, eval/pipeline.py) and the scripted scenarios of  *)
(* scripts/sim_runner.py.  The server is seen through what it answers: one    *)
(* turn at a time in a game, and a stream that tells the latest one.          *)
EXTENDS Naturals, FiniteSets, Sequences

CONSTANTS
  Runs,          \* planned sessions
  Scripted,      \* scenarios, rather than agents
  MinTurns,      \* PLAYTEST_MIN_TURNS, or the turns of a scenario
  MaxTimeouts,   \* MAX_CONSECUTIVE_TIMEOUTS
  Parallel,      \* max_parallel_runs
  SharedKey,     \* the runs have one key, of an anonymous player who may have one game
  None,
  MaxTurns       \* bound: turns of a game

VARIABLES
  game,     \* the games: who asked for each turn, and how the latest stands
  agent,    \* the client of each run
  result,   \* what the batch holds of each run
  verdict   \* of the batch, and its exit code

vars == <<game, agent, result, verdict>>

Game(latest) == [by |-> <<>>, latest |-> latest]
NoResult == [status |-> "none", told |-> 0]
Undecided == [batch |-> "none", exit |-> 0]

\* A client as it is built: asked is the turn it is at, told are the turns it has a narrative
\* of, done counts the turns on its record and silent the timeouts in a row.
Fresh(pc, try) ==
  [pc |-> pc, try |-> try, game |-> None, asked |-> 0, told |-> {}, done |-> 0, silent |-> 0, sound |-> TRUE]

Init ==
  /\ game = [r \in Runs |-> Game("not created")]
  /\ agent = [r \in Runs |-> Fresh("planned", 1)]
  /\ result = [r \in Runs |-> NoResult]
  /\ verdict = Undecided

At(r, pc) == agent[r].pc \in pc
Busy == {"connecting", "thinking", "submitting", "listening", "rating"}
Playing == Busy \ {"connecting"}
Created == {g \in Runs : game[g].latest # "not created"}
Goto(r, pc) == agent' = [agent EXCEPT ![r].pc = pc]

MaxTries == IF Scripted THEN 1 ELSE 2

\* The session is over.
Settle(r, status) ==
  /\ result' = [result EXCEPT ![r] = [status |-> status, told |-> Cardinality(agent[r].told)]]
  /\ Goto(r, "over")

\* An exception leaves run: the session is tried anew, and in the last try an error.
Raise(r) ==
  IF agent[r].try < MaxTries
  THEN agent' = [agent EXCEPT ![r] = Fresh("connecting", agent[r].try + 1)] /\ UNCHANGED result
  ELSE Settle(r, "error")
-----------------------------------------------------------------------------
Begin(r) ==
  /\ At(r, {"planned"})
  /\ Cardinality({s \in Runs : At(s, Busy)}) < IF Scripted THEN 1 ELSE Parallel
  /\ Goto(r, "connecting")
  /\ UNCHANGED <<game, result, verdict>>

\* A new player, or one whose other games do not matter, gets a game of its own.
CreateGame(r) ==
  /\ At(r, {"connecting"}) /\ (SharedKey => Created = {})
  /\ agent' = [agent EXCEPT ![r].pc = "thinking", ![r].game = r]
  /\ game' = [game EXCEPT ![r] = Game("none")]
  /\ UNCHANGED <<result, verdict>>

\* ANON_GAME_LIMIT: the game is there already and taken as it is.
ReuseGame(r) ==
  /\ At(r, {"connecting"}) /\ SharedKey
  /\ \E g \in Created : agent' = [agent EXCEPT ![r].pc = "thinking", ![r].game = g]
  /\ UNCHANGED <<game, result, verdict>>

\* No token, no consent or no game within the retries.
ConnectFails(r) ==
  /\ At(r, {"connecting"}) /\ Raise(r)
  /\ UNCHANGED <<game, verdict>>

Think(r) == At(r, {"thinking"}) /\ Goto(r, "submitting") /\ UNCHANGED <<game, result, verdict>>

\* The model that plays or rates fails for good.
ModelFails(r) ==
  /\ At(r, {"thinking", "rating"}) /\ ~Scripted /\ Raise(r)
  /\ UNCHANGED <<game, verdict>>

Submit(r) ==
  LET g == agent[r].game IN
  /\ At(r, {"submitting"}) /\ game[g].latest # "processing" /\ Len(game[g].by) < MaxTurns
  /\ game' = [game EXCEPT ![g] = [by |-> Append(@.by, r), latest |-> "processing"]]
  /\ agent' = [agent EXCEPT ![r].pc = "listening", ![r].asked = Len(game[g].by) + 1]
  /\ UNCHANGED <<result, verdict>>

\* A scenario goes on after a bad turn, to fail in the end.
BadTurn(r) ==
  IF agent[r].done + 1 < MinTurns
  THEN /\ agent' = [agent EXCEPT ![r].pc = "thinking", ![r].done = @ + 1, ![r].sound = FALSE]
       /\ UNCHANGED result
  ELSE Settle(r, "error")
Fails(r) == IF Scripted THEN BadTurn(r) ELSE Raise(r)

\* No server answers the health check, or a turn of a scenario: nothing of what was played
\* is told.
RequestFails(r) ==
  /\ Scripted /\ verdict = Undecided
  /\ At(r, {"submitting"}) \/ \A s \in Runs : At(s, {"planned"})
  /\ verdict' = [batch |-> "none", exit |-> 1]
  /\ agent' = [s \in Runs |-> [agent[s] EXCEPT !.pc = "over"]]
  /\ UNCHANGED <<game, result>>

\* 409: the turn before is still processing, for whoever asked for it.
Rejected(r) ==
  /\ At(r, {"submitting"}) /\ game[agent[r].game].latest = "processing"
  /\ Fails(r)
  /\ UNCHANGED <<game, verdict>>

IsAsked(r) == agent[r].asked = Len(game[agent[r].game].by)
Meant_Any(r) == TRUE
\* The scenario takes whatever its stream tells, up to the first end of a narrative.
Meant(r) == Scripted \/ IsAsked(r)

Hear(r) ==
  LET g == agent[r].game IN
  /\ At(r, {"listening"}) /\ game[g].latest = "done" /\ Meant(r)
  /\ agent' = [agent EXCEPT ![r].pc = "rating", ![r].asked = Len(game[g].by)]
  /\ UNCHANGED <<game, result, verdict>>

\* The turn failed, or ended without a narrative.
HearFailure(r) ==
  LET g == agent[r].game IN
  /\ At(r, {"listening"}) /\ game[g].latest \in {"done", "failed"} /\ Meant(r)
  /\ Fails(r)
  /\ UNCHANGED <<game, verdict>>

\* The turn goes on the record; the last one completes the session.
Rate(r) ==
  LET done == agent[r].done + 1
      told == agent[r].told \cup {agent[r].asked}
      over == done = MinTurns
  IN
  /\ At(r, {"rating"})
  /\ agent' = [agent EXCEPT ![r].pc = IF over THEN "over" ELSE "thinking",
                             ![r].told = told, ![r].done = done, ![r].silent = 0]
  /\ IF over
     THEN result' = [result EXCEPT ![r] = [status |-> IF agent[r].sound THEN "complete" ELSE "error",
                                           told |-> Cardinality(told)]]
     ELSE UNCHANGED result
  /\ UNCHANGED <<game, verdict>>

\* Enough timeouts in a row and the session is abandoned, which counts as an error.
CountTimeout(r) ==
  LET silent == agent[r].silent + 1 IN
  IF silent < MaxTimeouts
  THEN agent' = [agent EXCEPT ![r].pc = "thinking", ![r].silent = silent] /\ UNCHANGED result
  ELSE Raise(r)

\* The stream ended early, the retries are used up or the time of the turn is.
TimeOut(r) ==
  /\ IF Scripted THEN At(r, {"listening"}) /\ BadTurn(r) ELSE At(r, Playing) /\ CountTimeout(r)
  /\ UNCHANGED <<game, verdict>>

\* The server ends a turn, whether or not anybody still listens.
EndTurn(g) ==
  /\ game[g].latest = "processing"
  /\ \E latest \in {"done", "failed"} : game' = [game EXCEPT ![g].latest = latest]
  /\ UNCHANGED <<agent, result, verdict>>
-----------------------------------------------------------------------------
WithStatus(status) == {r \in Runs : result[r].status = status}

\* failing are the sessions whose evaluation fails, bad is whether one of the others, or
\* their median against the baseline, is.
BatchVerdict(failing, bad) ==
  IF WithStatus("complete") \subseteq failing THEN "inconclusive" ELSE IF bad THEN "fail" ELSE "pass"

\* More than a quarter of the runs in error, a bad or a good verdict.
ExitCode(batch) ==
  IF 4 * Cardinality(WithStatus("error")) > Cardinality(Runs) THEN 2 ELSE IF batch = "fail" THEN 1 ELSE 0

DecideBatch ==
  /\ verdict = Undecided /\ ~Scripted /\ WithStatus("none") = {}
  /\ \E failing \in SUBSET Runs, bad \in BOOLEAN :
       LET batch == BatchVerdict(failing, bad)
       IN  verdict' = [batch |-> batch, exit |-> ExitCode(batch)]
  /\ UNCHANGED <<game, agent, result>>

\* The scenarios passed if all did.
DecideScenarios ==
  /\ verdict = Undecided /\ Scripted /\ WithStatus("none") = {}
  /\ verdict' = IF WithStatus("error") = {}
                THEN [batch |-> "pass", exit |-> 0] ELSE [batch |-> "fail", exit |-> 1]
  /\ UNCHANGED <<game, agent, result>>

Next ==
  \/ \E r \in Runs :
       \/ Begin(r) \/ CreateGame(r) \/ ReuseGame(r) \/ ConnectFails(r) \/ Think(r) \/ ModelFails(r)
       \/ Submit(r) \/ RequestFails(r) \/ Rejected(r) \/ Hear(r) \/ HearFailure(r) \/ Rate(r) \/ TimeOut(r)
       \/ EndTurn(r)
  \/ DecideBatch \/ DecideScenarios

Spec == Init /\ [][Next]_vars
-----------------------------------------------------------------------------
\* FR-42.07: agents that share a game, for their key is one, do not hear each other's turns,
\* and no client takes one turn for two.
HearsItsOwn ==
  \A r \in Runs :
    /\ \A n \in agent[r].told : game[agent[r].game].by[n] = r
    /\ ~Scripted => Cardinality(agent[r].told) = agent[r].done

\* FR-42.01, FR-42.04: what the batch holds for a complete session is one that was played to
\* its end, whatever timed out, failed or was tried anew in between; and a batch passes only
\* on sessions played in full, three in four of which at least got to their end.
PassIsPlayed ==
  /\ \A r \in WithStatus("complete") : result[r].told = MinTurns
  /\ verdict.batch = "pass"
       => /\ \E r \in Runs : result[r].told = MinTurns
          /\ verdict.exit = 0 => 4 * Cardinality(WithStatus("complete")) >= 3 * Cardinality(Runs)
=============================================================================
