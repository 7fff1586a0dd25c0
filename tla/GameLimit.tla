----------------------------- MODULE GameLimit -----------------------------
(* How many games a player has: the two counts before a creation, one of them  *)
(* for anonymous players only, and what adds a game to either without a count. *)
(* A game here is a place that a new one takes when the one before is over and *)
(* no handler has read it; created and active games are both live.             *)
EXTENDS Naturals, FiniteSets

CONSTANTS
  Games,      \* bound: games that are counted, can be again or are still referred to
  Requests,   \* handlers that may be running at once
  MaxGames,   \* max_active_games
  AnonGames   \* anon_max_active_games

VARIABLES
  anonymous,  \* players.is_anonymous
  status,     \* of each game
  request,    \* where each handler is, and what it writes where
  back        \* games made live again since they were last over: from a pause, or from
              \* where they were not counted

vars == <<anonymous, status, request, back>>

Idle == [pc |-> "idle"]
Writing(g, to) == [pc |-> "writing", game |-> g, to |-> to]
Goto(r, to) == request' = [request EXCEPT ![r] = to]
Having(states) == {g \in Games : status[g] \in states}
Live == Having({"live"})
Active == Having({"live", "paused"})

Init ==
  /\ anonymous \in BOOLEAN
  /\ status = [g \in Games |-> "none"] /\ back = [g \in Games |-> "no"]
  /\ request = [r \in Requests |-> Idle]
-----------------------------------------------------------------------------
\* create_game; first require_anonymous_game_limit, ...
RequireAnonymousGameLimit(r) ==
  /\ request[r] = Idle
  /\ anonymous => Cardinality(Live) < AnonGames
  /\ Goto(r, [pc |-> "counting"])
  /\ UNCHANGED <<anonymous, status, back>>

\* ... then _count_active_games, ...
CountActiveGames(r) ==
  /\ request[r].pc = "counting"
  /\ Goto(r, IF Cardinality(Active) < MaxGames THEN [pc |-> "inserting"] ELSE Idle)
  /\ UNCHANGED <<anonymous, status, back>>

\* ... then the row.
ReferredTo(g) == \E r \in Requests : request[r].pc = "writing" /\ request[r].game = g
Free == {g \in Games : status[g] \in {"none", "over"} /\ ~ReferredTo(g)}
InsertGame(r) ==
  /\ request[r].pc = "inserting" /\ Free # {}
  /\ status' = [status EXCEPT ![CHOOSE g \in Free : TRUE] = "live"]
  /\ Goto(r, Idle)
  /\ UNCHANGED <<anonymous, back>>

\* resume_game, update_game and the first turn of a game: nothing is counted, ...
From(to) == CASE to = "live" -> {"live", "paused", "expired"}
              [] to = "paused" -> {"live"}
              [] to = "expired" -> {"paused"}
              [] to = "over" -> {"live", "paused"}
ReadGame(r, g, to) ==
  /\ request[r] = Idle /\ status[g] \in From(to)
  /\ Goto(r, Writing(g, to))
  /\ UNCHANGED <<anonymous, status, back>>

\* ... and the status is written by id, whatever it has become since, but for a game that
\* was deleted.
Back(g, to) ==
  CASE to \in {"expired", "over"} -> "no"
    [] to \in {"live", "paused"} /\ status[g] \in {"expired", "over"} -> "uncounted"
    [] to = "live" /\ status[g] = "paused" /\ back[g] = "no" -> "paused"
    [] OTHER -> back[g]
Become(g, to) ==
  IF status[g] = "none" THEN UNCHANGED <<status, back>>
  ELSE status' = [status EXCEPT ![g] = to] /\ back' = [back EXCEPT ![g] = Back(g, to)]
WriteGame(r) ==
  /\ request[r].pc = "writing" /\ Become(request[r].game, request[r].to)
  /\ Goto(r, Idle)
  /\ UNCHANGED anonymous

\* The lifecycle pass, /end and deletion.
Leave(g, from, to) ==
  /\ status[g] \in from
  /\ status' = [status EXCEPT ![g] = to]
  /\ back' = [back EXCEPT ![g] = IF to = "paused" THEN @ ELSE "no"]
  /\ UNCHANGED <<anonymous, request>>
PauseIdleGame(g) == Leave(g, {"live"}, "paused")
ExpireGame(g) == Leave(g, {"paused"}, "expired")
EndGame(g) == Leave(g, {"live"}, "over")
DeleteGame(g) == Leave(g, {"live", "paused", "expired"}, "none")

UpgradeAnonymous ==
  /\ anonymous /\ anonymous' = FALSE
  /\ UNCHANGED <<status, request, back>>

Next ==
  \/ UpgradeAnonymous
  \/ \E r \in Requests :
       \/ RequireAnonymousGameLimit(r) \/ CountActiveGames(r) \/ InsertGame(r) \/ WriteGame(r)
       \/ \E g \in Games, to \in {"live", "paused", "expired", "over"} : ReadGame(r, g, to)
  \/ \E g \in Games : PauseIdleGame(g) \/ ExpireGame(g) \/ EndGame(g) \/ DeleteGame(g)

Spec == Init /\ [][Next]_vars
-----------------------------------------------------------------------------
\* FR-10.10, FR-11.56: a player exceeds a limit by no more than the creations that overlap
\* the one that reaches it, and by the games that came back without being counted.
LimitIsNearlyKept ==
  /\ Cardinality({g \in Active : back[g] # "uncounted"}) < MaxGames + Cardinality(Requests)
  /\ anonymous => Cardinality({g \in Live : back[g] = "no"}) < AnonGames + Cardinality(Requests)
=============================================================================
