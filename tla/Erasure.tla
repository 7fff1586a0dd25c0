------------------------------ MODULE Erasure ------------------------------
(***************************************************************************)
(* What a player leaves behind and what removes it: the account deletion   *)
(* of api/routes/players.py, the purge and lifecycle loops, the erasure    *)
(* job, and the handlers and background tasks that write while those run.  *)
(*                                                                         *)
(* One player's games.  kept says which store holds something of the       *)
(* player for which game.  A handler is one step per transaction and per   *)
(* call to another store.  The rules of turns are module GameTurns.        *)
(***************************************************************************)
EXTENDS Naturals

CONSTANTS
  Games,
  MaxFaults \* bound: calls to Redis and Neo4j that fail

VARIABLES
  account,     \* players.status, "erased" once the row is gone
  game,        \* status of each game's row: created, active and paused are "live"
  removed,     \* games with a deleted_at
  aged,        \* games whose deleted_at or updated_at is before the purge's cutoff
  kept,        \* pairs of a game and a store that holds the player's data
  task,        \* what runs for the game: a handler past its checks, or a turn
  summarizing, \* games whose turns a background task has read
  evicting,    \* games an operator has ended, whose keys in Redis are still to go
  deletion,    \* where a deletion is, and the games it has still to visit
  picked,      \* session_ids of the purge
  overtaken,   \* games something was under way in when the account was scrubbed
  reopened,    \* games resumed since the purge picked them
  faults       \* failures left

gameVars == <<game, removed, aged>>
taskVars == <<task, summarizing, evicting>>
historyVars == <<overtaken, reopened>>
vars == <<account, gameVars, kept, taskVars, deletion, picked, historyVars, faults>>

Tables == {"turns", "session", "title", "snapshots"}
Stores == Tables \cup {"cache", "replay", "graph"}
Idle == [pc |-> "idle", todo |-> {}]

Init ==
  /\ account = "active"
  /\ game = [g \in Games |-> "none"] /\ removed = {} /\ aged = {}
  /\ kept = {}
  /\ task = [g \in Games |-> "no"] /\ summarizing = {} /\ evicting = {}
  /\ deletion = Idle /\ picked = {}
  /\ overtaken = {} /\ reopened = {}
  /\ faults = 0

Holds(g, s) == <<g, s>> \in kept
Stored(gs, ss) == gs \X ss
\* _get_owned_game
Owned(g) == game[g] \notin {"none", "purged"} /\ g \notin removed /\ account # "erased"
Touch(gs) == aged' = aged \ (gs \ removed)

MayPlay_Known == account # "erased"
\* require_active_player, before the handler runs.
MayPlay == account = "active"

AdmitGame(g) ==
  /\ MayPlay /\ game[g] = "none" /\ task[g] = "no"
  /\ task' = [task EXCEPT ![g] = "creating"]
  /\ UNCHANGED <<account, gameVars, kept, summarizing, evicting, deletion, picked, historyVars, faults>>

\* create_game; the row refers to the player's.
CreateGame(g) ==
  /\ task[g] = "creating" /\ account # "erased"
  /\ task' = [task EXCEPT ![g] = "no"]
  /\ game' = [game EXCEPT ![g] = "live"]
  /\ kept' = kept \cup Stored({g}, {"session", "graph"})
  /\ UNCHANGED <<account, removed, aged, summarizing, evicting, deletion, picked, historyVars, faults>>

\* submit_turn up to the checks of the game's row.
AdmitTurn(g) ==
  /\ MayPlay /\ game[g] = "live" /\ Owned(g) /\ task[g] = "no"
  /\ task' = [task EXCEPT ![g] = "admitted"]
  /\ UNCHANGED <<account, gameVars, kept, summarizing, evicting, deletion, picked, historyVars, faults>>

AcceptTurn(g) ==
  /\ task[g] = "admitted" /\ game[g] # "purged"
  /\ task' = [task EXCEPT ![g] = "running"]
  /\ kept' = kept \cup {<<g, "turns">>}
  /\ Touch({g})
  /\ UNCHANGED <<account, game, removed, summarizing, evicting, deletion, picked, historyVars, faults>>

RejectTurn(g) ==
  /\ task[g] \in {"admitted", "creating"} /\ (game[g] = "purged" \/ account = "erased")
  /\ task' = [task EXCEPT ![g] = "no"]
  /\ UNCHANGED <<account, gameVars, kept, summarizing, evicting, deletion, picked, historyVars, faults>>

\* A snapshot refers to its game.
SaveSnapshot(g) == IF game[g] = "purged" THEN {} ELSE {"snapshots"}

\* The pipeline ends: result, replay buffer, title and snapshot.  An UPDATE or
\* INSERT for a row that is gone changes nothing.
FinishTurn(g) ==
  /\ task[g] = "running"
  /\ task' = [task EXCEPT ![g] = "no"]
  /\ kept' = kept \cup Stored({g}, {"replay"} \cup SaveSnapshot(g)
                                   \cup IF game[g] = "purged" THEN {} ELSE {"turns", "title"})
  /\ UNCHANGED <<account, gameVars, summarizing, evicting, deletion, picked, historyVars, faults>>

\* Any player may resume, one whose account is closed too.
ResumeGame(g) ==
  /\ game[g] \in {"live", "expired"} /\ Owned(g)
  /\ game' = [game EXCEPT ![g] = "live"]
  /\ Touch(IF game[g] = "live" THEN {} ELSE {g})
  /\ summarizing' = IF Holds(g, "turns") THEN summarizing \cup {g} ELSE summarizing
  /\ reopened' = reopened \cup ({g} \cap picked)
  /\ UNCHANGED <<account, removed, kept, task, evicting, deletion, picked, overtaken, faults>>

\* _regen_summary_bg
SaveSummary(g) ==
  /\ g \in summarizing /\ summarizing' = summarizing \ {g}
  /\ kept' = IF game[g] = "purged" THEN kept ELSE kept \cup {<<g, "session">>}
  /\ Touch({g})
  /\ UNCHANGED <<account, game, removed, task, evicting, deletion, picked, historyVars, faults>>

GetLatestSnapshot(g) == Holds(g, "snapshots")

RestoreSnapshot(g) ==
  /\ Owned(g) /\ GetLatestSnapshot(g)
  /\ kept' = kept \cup {<<g, "cache">>}
  /\ UNCHANGED <<account, gameVars, taskVars, deletion, picked, historyVars, faults>>

\* DELETE /games/{id}: the graph, best effort, then the row.
EndGame(g, cleared) ==
  /\ Owned(g) /\ game[g] # "over"
  /\ IF cleared THEN kept' = kept \ {<<g, "graph">>} /\ UNCHANGED faults
     ELSE UNCHANGED kept /\ faults < MaxFaults /\ faults' = faults + 1
  /\ game' = [game EXCEPT ![g] = "over"]
  /\ removed' = removed \cup {g}
  /\ aged' = aged \ {g}
  /\ UNCHANGED <<account, taskVars, deletion, picked, historyVars>>

\* POST /admin/games/{id}/terminate, which spares a game that was only created: neither
\* deleted_at nor updated_at is set, so that the purge counts from the last touch.
TerminateGame(g) ==
  /\ game[g] = "live"
  /\ game' = [game EXCEPT ![g] = "over"]
  /\ evicting' = evicting \cup {g}
  /\ UNCHANGED <<account, removed, aged, kept, task, summarizing, deletion, picked, historyVars, faults>>

\* Best effort, and the numbering of the stream goes with it.
EvictGameState(g, reached) ==
  /\ g \in evicting /\ evicting' = evicting \ {g}
  /\ IF reached THEN kept' = kept \ Stored({g}, {"cache", "replay"}) /\ UNCHANGED faults
     ELSE UNCHANGED kept /\ faults < MaxFaults /\ faults' = faults + 1
  /\ UNCHANGED <<account, gameVars, task, summarizing, deletion, picked, historyVars>>

\* A phantom, or another number of turns than the row has.
Consistent(g, turns) == game[g] # "purged" /\ turns

\* POST /admin/consistency-check
AuditCacheConsistency(g, turns) ==
  /\ Holds(g, "cache") /\ ~Consistent(g, turns)
  /\ kept' = kept \ {<<g, "cache">>}
  /\ UNCHANGED <<account, gameVars, taskVars, deletion, picked, historyVars, faults>>

\* run_lifecycle_pass, of a paused game.
ExpireGame(g) ==
  /\ game[g] = "live" /\ g \notin removed /\ task[g] = "no"
  /\ game' = [game EXCEPT ![g] = "expired"]
  /\ Touch({g})
  /\ UNCHANGED <<account, removed, kept, taskVars, deletion, picked, historyVars, faults>>

\* The transaction of request_account_deletion.  Expired games stay as they are, and
\* titles, snapshots and the replay buffer are not visited.
ScrubAccount ==
  /\ deletion = Idle /\ account # "erased"
  /\ account' = "pending_deletion"
  /\ game' = [g \in Games |-> IF game[g] = "live" THEN "over" ELSE game[g]]
  /\ Touch({g \in Games : game[g] = "live"})
  /\ kept' = kept \ Stored(Games, {"turns", "session"})
  /\ deletion' = [pc |-> "cache", todo |-> {g \in Games : game[g] \notin {"none", "purged"}}]
  /\ overtaken' = {g \in Games : task[g] # "no" \/ g \in summarizing}
  /\ UNCHANGED <<removed, taskVars, picked, reopened, faults>>

CleanStore(g, reached) ==
  /\ g \in deletion.todo
  /\ deletion' = [deletion EXCEPT !.todo = @ \ {g}]
  /\ IF reached THEN kept' = kept \ {<<g, deletion.pc>>} /\ UNCHANGED faults
     ELSE UNCHANGED kept /\ faults < MaxFaults /\ faults' = faults + 1
  /\ UNCHANGED <<account, gameVars, taskVars, picked, historyVars>>

\* First every game's cache, then every game's graph; nothing ever sets the queue
\* the last step would hand the erasure job to.
NextStore ==
  /\ deletion.pc # "idle" /\ deletion.todo = {}
  /\ deletion' = IF deletion.pc = "cache"
                 THEN [pc |-> "graph", todo |-> {g \in Games : game[g] \notin {"none", "purged"}}]
                 ELSE Idle
  /\ UNCHANGED <<account, gameVars, kept, taskVars, picked, historyVars, faults>>

\* gdpr_delete_player, started by an operator: the rows go by cascade; what its later
\* steps look for in Neo4j and Redis is nothing the program writes.
GdprDeletePlayer ==
  /\ account = "pending_deletion"
  /\ account' = "erased"
  /\ game' = [g \in Games |-> IF game[g] = "none" THEN "none" ELSE "purged"]
  /\ kept' = kept \ Stored(Games, Tables)
  /\ UNCHANGED <<removed, aged, taskVars, deletion, picked, historyVars, faults>>

Suspend ==
  /\ account \notin {"suspended", "erased"} /\ account' = "suspended"
  /\ UNCHANGED <<gameVars, kept, taskVars, deletion, picked, historyVars, faults>>

Unsuspend ==
  /\ account = "suspended" /\ account' = "active"
  /\ UNCHANGED <<gameVars, kept, taskVars, deletion, picked, historyVars, faults>>

Grow(g) ==
  /\ game[g] \notin {"none", "purged"} /\ aged' = aged \cup {g}
  /\ UNCHANGED <<account, game, removed, kept, taskVars, deletion, picked, historyVars, faults>>

CacheExpires(g, s) ==
  /\ s \in {"cache", "replay"} /\ Holds(g, s) /\ kept' = kept \ {<<g, s>>}
  /\ UNCHANGED <<account, gameVars, taskVars, deletion, picked, historyVars, faults>>

Purgeable_Aged(g) == g \in aged
Purgeable_Over(g) == g \in aged /\ game[g] \in {"over", "expired"} /\ g \notin removed
Purgeable(g) == g \in aged /\ (g \in removed \/ game[g] \in {"over", "expired"})

\* run_purge: _collect_session_ids, then _delete_sessions.
PurgeSelect ==
  /\ picked = {} /\ \E g \in Games : Purgeable(g) /\ game[g] # "purged"
  /\ picked' = {g \in Games : Purgeable(g) /\ game[g] # "purged"}
  /\ reopened' = {}
  /\ UNCHANGED <<account, gameVars, kept, taskVars, deletion, overtaken, faults>>

PurgeDelete ==
  /\ picked # {} /\ picked' = {}
  /\ game' = [g \in Games |-> IF g \in picked THEN "purged" ELSE game[g]]
  /\ kept' = kept \ Stored(picked, Tables)
  /\ UNCHANGED <<account, removed, aged, taskVars, deletion, historyVars, faults>>

GameNext(g) ==
  \/ AdmitGame(g) \/ CreateGame(g) \/ AdmitTurn(g) \/ AcceptTurn(g) \/ RejectTurn(g)
  \/ FinishTurn(g) \/ ResumeGame(g) \/ SaveSummary(g) \/ RestoreSnapshot(g)
  \/ ExpireGame(g) \/ Grow(g)
  \/ TerminateGame(g)
  \/ \E ok \in BOOLEAN :
       EndGame(g, ok) \/ CleanStore(g, ok) \/ EvictGameState(g, ok) \/ AuditCacheConsistency(g, ok)
  \/ \E s \in Stores : CacheExpires(g, s)

Next ==
  \/ \E g \in Games : GameNext(g)
  \/ ScrubAccount \/ NextStore \/ GdprDeletePlayer \/ Suspend \/ Unsuspend
  \/ PurgeSelect \/ PurgeDelete

Spec == Init /\ [][Next]_vars
-----------------------------------------------------------------------------
\* While an account is closed, the player's words come back into a table or the graph
\* only where a turn, a creation or a summary was under way when it was scrubbed.
OnlyWorkUnderWayReturns ==
  [][account = "pending_deletion" =>
       \A g \in Games, s \in {"turns", "session", "graph"} :
         (<<g, s>> \in kept' /\ ~Holds(g, s)) => g \in overtaken]_vars

\* The purge looks for what is past its retention and deletes it in a second query: a
\* game that is being played goes only if it was resumed between the two.
LiveGameIsPurgedOnlyIfReopened ==
  [][\A g \in Games :
       (picked' = {} /\ game[g] = "live" /\ g \notin removed /\ game'[g] = "purged"
        /\ account' # "erased") => g \in reopened]_vars

\* The rows of a game its player has deleted are gone some day, whatever is still
\* running for it.
RemovedIsPurged == \A g \in Games : g \in removed ~> game[g] = "purged"
=============================================================================
