---------------------------- MODULE GenesisLite ----------------------------
(***************************************************************************)
(* The creation of one game: POST /games and run_genesis_lite.             *)
(*                                                                         *)
(* The row of the game is committed first.  Its world is then enriched by  *)
(* the model, written to Neo4j, read back and introduced by the model,     *)
(* under a time budget; whatever goes wrong in that the game is kept and   *)
(* answered as degraded.  The row is public meanwhile: the player, from    *)
(* another tab, may end the game or delete the account before its world    *)
(* exists.                                                                 *)
(***************************************************************************)
VARIABLES
  row,       \* the game: absent, created or removed
  recorded,  \* the genesis status in its world_seed
  world,     \* its nodes are in Neo4j, and whose words they have
  creation,  \* the request that creates it
  clearing,  \* the request that removed it: to clear the graph, done or failed
  outrun     \* it was removed while its creation went on

vars == <<row, recorded, world, creation, clearing, outrun>>

Idle == [pc |-> "idle", answer |-> "none", words |-> "none"]
\* GenesisStatus, degraded with its error code
Degraded == {"timeout", "cancelled", "unavailable", "failed"}
Underway == {"choosing", "enriching", "retrying", "building", "locating", "introducing", "recording"}
Awaiting == Underway \ {"choosing"}

Init ==
  /\ row = "absent" /\ recorded = "none" /\ world = "none"
  /\ creation = Idle /\ clearing = "no" /\ outrun = FALSE

Goto(pc) == creation' = [creation EXCEPT !.pc = pc]

InsertGame ==
  /\ creation = Idle /\ row = "absent"
  /\ row' = "created" /\ Goto("choosing")
  /\ UNCHANGED <<recorded, world, clearing, outrun>>

\* The except clauses of create_game, which also records what they answer.
Degrade(why) ==
  /\ creation' = [creation EXCEPT !.pc = "degrading", !.answer = why]
  /\ UNCHANGED <<row, recorded, world, clearing, outrun>>

SelectTemplate ==
  /\ creation.pc = "choosing"
  /\ \/ Goto("enriching") /\ UNCHANGED <<row, recorded, world, clearing, outrun>>
     \/ Degrade("unavailable")  \* no registry is configured
     \/ Degrade("failed")       \* no template of that name

\* enrich_template: the answer is parsed; if it does not parse the model is asked
\* once more, and then the template's own words are used.
EnrichTemplate(parses) ==
  /\ creation.pc \in {"enriching", "retrying"}
  /\ creation' = IF parses THEN [creation EXCEPT !.pc = "building", !.words = "model"]
                 ELSE IF creation.pc = "enriching" THEN [creation EXCEPT !.pc = "retrying"]
                 ELSE [creation EXCEPT !.pc = "building", !.words = "template"]
  /\ UNCHANGED <<row, recorded, world, clearing, outrun>>

\* create_world_graph: one transaction, whoever removed the game meanwhile.
BuildWorld ==
  /\ creation.pc = "building"
  /\ world' = creation.words
  /\ Goto("locating")
  /\ UNCHANGED <<row, recorded, clearing, outrun>>

\* The request is given up while Neo4j commits.
BuildUnseen ==
  /\ creation.pc = "building"
  /\ world' = creation.words
  /\ \E why \in {"timeout", "cancelled"} :
       creation' = [creation EXCEPT !.pc = "degrading", !.answer = why]
  /\ UNCHANGED <<row, recorded, clearing, outrun>>

\* get_player_location
LocatePlayer ==
  /\ creation.pc = "locating"
  /\ IF world # "none" THEN Goto("introducing") /\ UNCHANGED <<row, recorded, world, clearing, outrun>>
     ELSE Degrade("failed")

\* _generate_intro
Introduce ==
  /\ creation.pc = "introducing"
  /\ Goto("recording")
  /\ UNCHANGED <<row, recorded, world, clearing, outrun>>

\* A call to the model or to Neo4j raises.
StepFails == creation.pc \in Awaiting \ {"recording"} /\ Degrade("failed")
\* The time budget of wait_for.
BudgetEnds == creation.pc \in Awaiting \ {"recording"} /\ Degrade("timeout")

\* The metadata of a complete genesis may have been committed when the cancellation arrives.
RequestCancelled ==
  /\ creation.pc \in Awaiting
  /\ creation' = [creation EXCEPT !.pc = "degrading", !.answer = "cancelled"]
  /\ \/ UNCHANGED recorded
     \/ creation.pc = "recording" /\ recorded' = "complete"
  /\ UNCHANGED <<row, world, clearing, outrun>>

\* _persist_genesis_metadata, whose failures are swallowed: the UPDATE has no other
\* condition than the id.
PersistMetadata(ok) ==
  /\ creation.pc \in {"recording", "degrading"}
  /\ LET answer == IF creation.pc = "recording" THEN "complete" ELSE creation.answer IN
       /\ creation' = [creation EXCEPT !.pc = "answered", !.answer = answer]
       /\ recorded' = IF ok THEN answer ELSE recorded
  /\ UNCHANGED <<row, world, clearing, outrun>>

\* DELETE /games/{id}, or the account: the nodes are deleted as well as can be.
RemoveGame ==
  /\ row = "created" /\ clearing = "no"
  /\ row' = "removed" /\ clearing' = "wanted"
  /\ outrun' = (creation.pc \in Underway)
  /\ UNCHANGED <<recorded, world, creation>>

CleanupSession(ok) ==
  /\ clearing = "wanted"
  /\ IF ok THEN world' = "none" /\ clearing' = "done"
     ELSE UNCHANGED world /\ clearing' = "failed"
  /\ UNCHANGED <<row, recorded, creation, outrun>>

CreationStep ==
  \/ InsertGame \/ SelectTemplate \/ \E parses \in BOOLEAN : EnrichTemplate(parses)
  \/ BuildWorld \/ BuildUnseen \/ LocatePlayer \/ Introduce
  \/ StepFails \/ BudgetEnds \/ RequestCancelled
  \/ \E ok \in BOOLEAN : PersistMetadata(ok)

Next ==
  \/ CreationStep
  \/ RemoveGame \/ \E ok \in BOOLEAN : CleanupSession(ok)

Spec == Init /\ [][Next]_vars
-----------------------------------------------------------------------------
Answered == creation.pc = "answered"

\* A game that the player is told, or its row says, to be complete has its world, a row says
\* what the player was told or nothing, but for a request that was cancelled when its row
\* said complete already, and the words of a world are those of the enrichment its request
\* ended with.  The world of a game that was removed and cleared is gone, unless its
\* creation was still going on: then it may be built, and nothing clears it.
GenesisIsHonest ==
  /\ Answered => \/ recorded \in {creation.answer, "none"}
                 \/ recorded = "complete" /\ creation.answer = "cancelled"
  /\ "complete" \in {creation.answer, recorded} /\ row = "created" => world # "none"
  /\ world # "none" => world = creation.words
  /\ row = "removed" /\ clearing = "done" /\ ~outrun => world = "none"
=============================================================================
