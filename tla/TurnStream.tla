----------------------------- MODULE TurnStream -----------------------------
(***************************************************************************)
(* How the result of a turn reaches the clients of one game:               *)
(* RedisTurnResultStore (api/turn_results.py), which the background task   *)
(* of a turn publishes to, and the stream endpoint                         *)
(* (api/routes/games_stream.py), which waits for the result of the turn    *)
(* that was the latest when the stream was opened, under a heartbeat and a *)
(* deadline, and replays what a reconnecting client has missed.            *)
(*                                                                         *)
(* A client is one tab: it has at most one stream, opens another one when  *)
(* that ends and names the last event it received, as EventSource does.    *)
(* The streams of all tabs share the replay buffer (module SseBuffer): of  *)
(* its content only the narrative_end events matter here, so the buffer is *)
(* kept as the set of those that lie ahead of each client.  The chunks of  *)
(* a narrative are one event.                                              *)
(***************************************************************************)
EXTENDS Naturals

CONSTANTS
  Clients,    \* tabs that show the game
  MaxTurns,   \* bound: turns of the game
  Rounds,     \* heartbeats before the deadline of a stream
  MaxLosses   \* bound: lost connections and failed Redis calls

VARIABLES
  latest,   \* number of the latest turn, 0 if there is none
  stage,    \* where the task of each turn is
  result,   \* the key tta:turn_result of each turn
  conn,     \* the stream of each client
  new,      \* clients that have no Last-Event-ID
  ahead,    \* turns whose end is in the buffer after the client's last event
  told,     \* history: clients that were told how the latest turn ended
  losses    \* losses so far

turnVars   == <<latest, stage, result>>
clientVars == <<new, ahead, told>>
vars == <<turnVars, conn, clientVars, losses>>

Turns == 1 .. MaxTurns
Stages == {"absent", "running", "saved", "stored", "done"}
ConnPc == {"closed", "replay", "subscribe", "get", "listen", "narrate"}

Closed == [pc |-> "closed", target |-> 0, checking |-> FALSE, sawEnd |-> FALSE,
           round |-> 0, message |-> FALSE]

Init ==
  /\ latest = 0
  /\ stage = [t \in Turns |-> "absent"]
  /\ result = [t \in Turns |-> "none"]
  /\ conn = [c \in Clients |-> Closed]
  /\ new = Clients
  /\ ahead = [c \in Clients |-> {}] /\ told = {}
  /\ losses = 0

Loss == losses < MaxLosses /\ losses' = losses + 1

Open == {c \in Clients : conn[c].pc # "closed"}

----------------------------------------------------------------------------
(* The task of a turn; GameTurns has its details.                          *)

Accept(t) ==
  /\ t = latest + 1 /\ (latest # 0 => stage[latest] # "running")
  /\ latest' = t
  /\ stage' = [stage EXCEPT ![t] = "running"]
  /\ told' = {}
  /\ UNCHANGED <<result, conn, new, ahead, losses>>

\* The turn leaves processing: the next one may be accepted.
Save(t) ==
  /\ stage[t] = "running"
  /\ stage' = [stage EXCEPT ![t] = "saved"]
  /\ UNCHANGED <<latest, result, conn, clientVars, losses>>

\* publish: SET ...
Store(t) ==
  /\ stage[t] = "saved"
  /\ stage' = [stage EXCEPT ![t] = "stored"]
  /\ \E r \in {"complete", "failed"} : result' = [result EXCEPT ![t] = r]
  /\ UNCHANGED <<latest, conn, clientVars, losses>>

Subscribed(c, t) == conn[c].target = t /\ conn[c].pc \in {"get", "listen"}

\* ... then PUBLISH, which reaches the present subscribers only.
Notify(t) ==
  /\ stage[t] = "stored"
  /\ stage' = [stage EXCEPT ![t] = "done"]
  /\ conn' = [c \in Clients |->
       IF Subscribed(c, t) THEN [conn[c] EXCEPT !.message = TRUE] ELSE conn[c]]
  /\ UNCHANGED <<latest, result, clientVars, losses>>

\* Either fails, or the server restarts before it.
PublishFails(t) ==
  /\ stage[t] \in {"saved", "stored"} /\ Loss
  /\ stage' = [stage EXCEPT ![t] = "done"]
  /\ UNCHANGED <<latest, result, conn, clientVars>>

\* The key lives for 300 s: longer than any stream that was open when it was set,
\* and one that opened later has found it with its first GET.  No stream opens for
\* an earlier turn, so that its key does not matter.
Forget(t) ==
  /\ t = latest /\ result[t] # "none"
  /\ \A c \in Open : conn[c].target # t
  /\ result' = [result EXCEPT ![t] = "none"]
  /\ UNCHANGED <<latest, stage, conn, clientVars, losses>>

----------------------------------------------------------------------------
(* event_stream                                                            *)

\* The client receives an event: what the buffer held before it is behind.
Receive(c) == new' = new \ {c} /\ ahead' = [ahead EXCEPT ![c] = {}]

Tell(c) == told' = told \cup {c}

Close(c) == conn' = [conn EXCEPT ![c] = Closed]
Proceed(c, pc) == [Closed EXCEPT !.pc = pc, !.target = conn[c].target]
Wait(c, checking, round) ==
  conn' = [conn EXCEPT ![c] =
    [Proceed(c, "subscribe") EXCEPT !.checking = checking, !.round = round]]

\* The latest turn is looked up once.  NO_TURN_FOUND ends the stream at once.
Connect(c) ==
  /\ conn[c].pc = "closed"
  /\ IF latest = 0
       THEN /\ Receive(c) /\ UNCHANGED conn
       ELSE /\ conn' = [conn EXCEPT ![c] = [Closed EXCEPT
                 !.target = latest, !.pc = IF c \in new THEN "subscribe" ELSE "replay"]]
            /\ UNCHANGED <<new, ahead>>
  /\ UNCHANGED <<turnVars, told, losses>>

\* A page that is loaded again starts without a Last-Event-ID.
Reload(c) ==
  /\ conn[c].pc = "closed" /\ c \notin new
  /\ new' = new \cup {c} /\ ahead' = [ahead EXCEPT ![c] = {}]
  /\ UNCHANGED <<turnVars, conn, told, losses>>

\* Nothing is replayed when the numbering has restarted since.
ReplayHit(c) ==
  /\ conn[c].pc = "replay"
  /\ \E ends \in {ahead[c], {}} :
       /\ IF latest \in ends THEN Tell(c) ELSE UNCHANGED told
       /\ conn' = [conn EXCEPT ![c] = [@ EXCEPT !.pc = "subscribe", !.checking = TRUE,
                                                !.sawEnd = ends # {}]]
  /\ ahead' = [ahead EXCEPT ![c] = {}]
  /\ UNCHANGED <<turnVars, new, losses>>

\* The events after the last one are evicted or expired: replay_unavailable.
ReplayMiss(c) ==
  /\ conn[c].pc = "replay"
  /\ Receive(c) /\ Wait(c, FALSE, 0)
  /\ UNCHANGED <<turnVars, told, losses>>

\* wait_for_result: SUBSCRIBE first ...
Subscribe(c) ==
  /\ conn[c].pc = "subscribe"
  /\ conn' = [conn EXCEPT ![c].pc = "get"]
  /\ UNCHANGED <<turnVars, clientVars, losses>>

\* What GET returns, and what the message holds.
Result(c) == result[conn[c].target]

\* The result is here.  While the stream checks after a replay it ends if a
\* narrative_end was replayed.
FoundInCheck_Always(c) ==
  /\ conn[c].checking
  /\ Close(c)
  /\ UNCHANGED clientVars
FoundInCheck(c) ==
  /\ conn[c].checking
  /\ IF conn[c].sawEnd THEN Close(c) ELSE Wait(c, FALSE, 0)
  /\ UNCHANGED clientVars
FoundFailed(c) ==
  /\ ~conn[c].checking /\ Result(c) = "failed"
  /\ Receive(c)
  /\ IF conn[c].target = latest THEN Tell(c) ELSE UNCHANGED told
  /\ Close(c)
FoundNarrative(c) ==
  /\ ~conn[c].checking /\ Result(c) = "complete"
  /\ conn' = [conn EXCEPT ![c] = Proceed(c, "narrate")]
  /\ UNCHANGED clientVars
Found(c) == FoundInCheck(c) \/ FoundFailed(c) \/ FoundNarrative(c)

\* ... then GET the key ...
GetHit(c) ==
  /\ conn[c].pc = "get" /\ Result(c) # "none"
  /\ Found(c)
  /\ UNCHANGED <<turnVars, losses>>
\* What a GET before the SUBSCRIBE may have answered.
GetMiss_ReadFirst(c) ==
  /\ conn[c].pc = "get"
  /\ conn' = [conn EXCEPT ![c].pc = "listen"]
  /\ UNCHANGED <<turnVars, clientVars, losses>>
GetMiss(c) ==
  /\ conn[c].pc = "get" /\ Result(c) = "none"
  /\ conn' = [conn EXCEPT ![c].pc = "listen"]
  /\ UNCHANGED <<turnVars, clientVars, losses>>

\* ... then wait for the message.
Hear(c) ==
  /\ conn[c].pc = "listen" /\ conn[c].message
  /\ Found(c)
  /\ UNCHANGED <<turnVars, losses>>

\* wait_for_result returns None.
CheckInVain(c) == conn[c].checking /\ Wait(c, FALSE, 0) /\ UNCHANGED <<new, ahead>>
Heartbeat(c) ==
  /\ ~conn[c].checking /\ conn[c].round < Rounds
  /\ Receive(c) /\ Wait(c, FALSE, conn[c].round + 1)
PipelineTimeout(c) ==
  /\ ~conn[c].checking /\ conn[c].round = Rounds
  /\ Receive(c) /\ Close(c)
InVain(c) == CheckInVain(c) \/ Heartbeat(c) \/ PipelineTimeout(c)

TimeOut(c) ==
  /\ conn[c].pc = "listen" /\ InVain(c)
  /\ UNCHANGED <<turnVars, told, losses>>

\* A Redis call fails, which looks the same.
WaitFails(c) ==
  /\ conn[c].pc \in {"subscribe", "get", "listen"} /\ Loss /\ InVain(c)
  /\ UNCHANGED <<turnVars, told>>

\* narrative_end is in the buffer, where the other tabs will find it; the client
\* of the stream has still to get what is in own.
BufferEnd(c, own) ==
  /\ new' = new \ {c}
  /\ ahead' = [d \in Clients |->
       IF d = c THEN own
       ELSE IF d \in new THEN {} ELSE ahead[d] \cup {conn[c].target}]

\* The narrative, narrative_end and a state_update are sent, and the stream ends.
Narrate(c) ==
  /\ conn[c].pc = "narrate"
  /\ BufferEnd(c, {})
  /\ IF conn[c].target = latest THEN Tell(c) ELSE UNCHANGED told
  /\ Close(c)
  /\ UNCHANGED <<turnVars, losses>>

\* The connection breaks: at once, amid the narrative, or when narrative_end was
\* buffered and not yet sent.
Disconnect(c) ==
  /\ conn[c].pc # "closed" /\ Loss
  /\ \/ UNCHANGED <<new, ahead>>
     \/ conn[c].pc = "narrate" /\ Receive(c)
     \/ conn[c].pc = "narrate" /\ BufferEnd(c, {conn[c].target})
  /\ Close(c)
  /\ UNCHANGED <<turnVars, told>>

StreamStep(c) ==
  \/ ReplayHit(c) \/ ReplayMiss(c) \/ Subscribe(c) \/ GetHit(c) \/ GetMiss(c)
  \/ Hear(c) \/ TimeOut(c) \/ Narrate(c)

TurnNext(t) == Accept(t) \/ Save(t) \/ Store(t) \/ Notify(t) \/ PublishFails(t) \/ Forget(t)
ClientNext(c) == Connect(c) \/ Reload(c) \/ StreamStep(c) \/ WaitFails(c) \/ Disconnect(c)

Next == (\E t \in Turns : TurnNext(t)) \/ (\E c \in Clients : ClientNext(c))

Spec == Init /\ [][Next]_vars

----------------------------------------------------------------------------
(* Properties                                                              *)

ConnState ==
  [pc : ConnPc, target : 0 .. MaxTurns, checking : BOOLEAN, sawEnd : BOOLEAN,
   round : 0 .. Rounds, message : BOOLEAN]

\* Every variable has its type; no stream outlives its deadline.
TypeOK ==
  /\ latest \in 0 .. MaxTurns
  /\ stage \in [Turns -> Stages]
  /\ result \in [Turns -> {"none", "complete", "failed"}]
  /\ conn \in [Clients -> ConnState]
  /\ new \subseteq Clients
  /\ ahead \in [Clients -> SUBSET Turns] /\ told \subseteq Clients
  /\ losses \in 0 .. MaxLosses

\* TurnResultStore, "Both orderings must deliver the result": nobody goes on
\* listening after the message was sent, unless it is in its mailbox, whatever
\* the order of SUBSCRIBE, GET, SET and PUBLISH.
ListenerIsTold ==
  \A c \in Clients :
    conn[c].pc = "listen" /\ stage[conn[c].target] = "done" /\ losses = 0
      => conn[c].message \/ Result(c) = "none"

Ended == latest # 0 /\ result[latest] # "none"

\* The outcome of the latest turn reaches every tab that reconnects, however its
\* streams broke off, what they replayed and which turn they waited for, unless
\* its key expires or the next turn comes first.
ReachesTab(c) == Ended ~> c \in told \/ ~Ended
OutcomeArrives == \A c \in Clients : ReachesTab(c)

=============================================================================
