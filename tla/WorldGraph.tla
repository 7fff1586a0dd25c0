---------------------------- MODULE WorldGraph ----------------------------
(***************************************************************************)
(* The world of a game in Neo4j, the changes that a turn makes to it, and  *)
(* the fake the unit tests use in its place.                               *)
(*                                                                         *)
(* What the model extracted from a narrative is translated to a batch of   *)
(* changes; all are validated, each against the graph as it is then, and   *)
(* applied in one transaction.  The task of the next turn may do the same  *)
(* in between.  A world is a record: where the player is, what each item   *)
(* is in, which connections are locked, which items are hidden and what    *)
(* has got a new description or disposition.  The translation never yields *)
(* NPC_MOVED, NPC_STATE_CHANGED or NPC_TIER_CHANGED, and no node is a      *)
(* Quest: none of these is here.                                           *)
(***************************************************************************)
EXTENDS Naturals, Sequences

CONSTANTS
  Locations, Start,  \* of the template, and where the player begins
  Connections,       \* pairs of locations, with both directions of the two-way ones
  Items, Home,       \* where the template puts each: a location or an NPC
  Npcs, Post,        \* and where it puts the NPCs
  Turns, MaxChanges, \* tasks that apply changes, and how many each
  Unknown,           \* a name of nothing in the graph
  Extracted          \* changes that the model may extract, of those it can

VARIABLES
  exists,  \* the nodes of the session were created
  graph,   \* the world in Neo4j
  fake,    \* the world in InMemoryWorldService
  task,    \* the batch of each turn and how many of it are validated
  stray    \* items the two services are known to treat differently

vars == <<exists, graph, fake, task, stray>>

Held == "held by the player"
Nowhere == "nowhere"
NoTask == [pc |-> "idle", batch |-> <<>>, valid |-> 0]

Names == Locations \cup {Unknown}
\* translate_world_updates
Changes ==
  [type : {"move"}, from : Names, to : Names]
    \cup [type : {"take", "drop", "hide", "show"}, item : Items]
    \cup [type : {"lock", "unlock"}, from : Names, to : Names]
    \cup [type : {"describe"}, entity : Locations \cup Npcs]
Batches == UNION {[1 .. n -> Changes \cap Extracted] : n \in 1 .. MaxChanges}

\* create_world_graph: an NPC has its items on it, in the fake they lie beside it.
World(place) ==
  [player |-> Start, at |-> place, locked |-> {}, hidden |-> {}, changed |-> {}]
Beside(place) == [i \in Items |-> IF place[i] \in Npcs THEN Post[place[i]] ELSE place[i]]

Init ==
  /\ exists = FALSE
  /\ graph = World(Home) /\ fake = World(Beside(Home))
  /\ task = [t \in Turns |-> NoTask]
  /\ stray = {i \in Items : Home[i] \in Npcs}
Taken(w, i) == IF w.at[i] \in Locations THEN [w EXCEPT !.at[i] = Held] ELSE w
Dropped(w, i) == IF w.at[i] = Held THEN [w EXCEPT !.at[i] = w.player] ELSE w
FakeTaken(w, i) == [w EXCEPT !.at[i] = Held]
FakeDropped(w, i) == IF w.player \in Locations THEN [w EXCEPT !.at[i] = w.player] ELSE w

\* The statements, and branches, that the two services share.
Alike(w, c) ==
  CASE c.type = "move" -> [w EXCEPT !.player = IF c.to \in Locations THEN c.to ELSE Nowhere]
    [] c.type = "lock" -> [w EXCEPT !.locked = @ \cup ({<<c.from, c.to>>} \cap Connections)]
    [] c.type = "unlock" -> [w EXCEPT !.locked = @ \ {<<c.from, c.to>>}]
    [] c.type = "hide" -> [w EXCEPT !.hidden = @ \cup {c.item}]
    [] c.type = "show" -> [w EXCEPT !.hidden = @ \ {c.item}]
    [] c.type = "describe" -> [w EXCEPT !.changed = @ \cup {c.entity}]

\* _dispatch_change
ApplyOne(w, c) ==
  CASE c.type = "take" -> Taken(w, c.item)
    [] c.type = "drop" -> Dropped(w, c.item)
    [] OTHER -> Alike(w, c)

\* _apply_single
FakeApplyOne(w, c) ==
  CASE c.type = "take" -> FakeTaken(w, c.item)
    [] c.type = "drop" -> FakeDropped(w, c.item)
    [] OTHER -> Alike(w, c)

\* The worlds after each of the changes of a batch, in either service.
Worlds(w, batch) ==
  LET after[k \in 0 .. Len(batch)] == IF k = 0 THEN w ELSE ApplyOne(after[k - 1], batch[k]) IN after
FakeWorlds(w, batch) ==
  LET after[k \in 0 .. Len(batch)] == IF k = 0 THEN w ELSE FakeApplyOne(after[k - 1], batch[k]) IN after

\* Items dropped although they were not held.
StrayDrops(w, batch) ==
  {batch[k].item : k \in {k \in DOMAIN batch :
     batch[k].type = "drop" /\ Worlds(w, batch)[k - 1].at[batch[k].item] # Held}}
MayMove_Unlocked(w, from, to) == <<from, to>> \notin w.locked

\* validate_movement; where the player is does not matter.
MayMove(w, from, to) == <<from, to>> \in Connections \ w.locked
Valid(w, c) == c.type = "move" => exists /\ MayMove(w, c.from, c.to)

CreateWorld ==
  /\ ~exists /\ exists' = TRUE
  /\ graph' = World(Home) /\ fake' = World(Beside(Home))
  /\ stray' = {i \in Items : Home[i] \in Npcs}
  /\ UNCHANGED task

\* dispatch_pipeline, once the turn is complete.
Translate(t, batch) ==
  /\ task[t] = NoTask
  /\ task' = [task EXCEPT ![t] = [pc |-> "validating", batch |-> batch, valid |-> 0]]
  /\ UNCHANGED <<exists, graph, fake, stray>>

ValidateChange(t) ==
  /\ task[t].pc = "validating" /\ task[t].valid < Len(task[t].batch)
  /\ LET n == task[t].valid + 1 IN
       task' = [task EXCEPT ![t] =
                  IF Valid(graph, @.batch[n]) THEN [@ EXCEPT !.valid = n] ELSE NoTask]
  /\ UNCHANGED <<exists, graph, fake, stray>>

ApplyChanges(t) ==
  /\ task[t].pc = "validating" /\ task[t].valid = Len(task[t].batch)
  /\ task' = [task EXCEPT ![t] = NoTask]
  /\ IF exists
     THEN /\ graph' = Worlds(graph, task[t].batch)[Len(task[t].batch)]
          /\ fake' = FakeWorlds(fake, task[t].batch)[Len(task[t].batch)]
          /\ stray' = stray \cup StrayDrops(graph, task[t].batch)
     ELSE UNCHANGED <<graph, fake, stray>>
  /\ UNCHANGED exists

\* Neo4j fails, the transaction is rolled back and the failure swallowed.
ApplyFails(t) ==
  /\ task[t].pc = "validating"
  /\ task' = [task EXCEPT ![t] = NoTask]
  /\ UNCHANGED <<exists, graph, fake, stray>>

\* The game was ended or its player deleted.
CleanupSession ==
  /\ exists /\ exists' = FALSE
  /\ UNCHANGED <<graph, fake, task, stray>>

Next ==
  \/ CreateWorld \/ CleanupSession
  \/ \E t \in Turns : \/ \E b \in Batches : Translate(t, b)
                      \/ ValidateChange(t) \/ ApplyChanges(t) \/ ApplyFails(t)

Spec == Init /\ [][Next]_vars
-----------------------------------------------------------------------------
\* get_world_state, of either service, but for the items in except.
View(w, except) ==
  [here |-> w.player,
   exits |-> {l \in Locations : <<w.player, l>> \in Connections},
   npcs |-> {n \in Npcs : Post[n] = w.player},
   items |-> {i \in Items \ (w.hidden \cup except) : w.at[i] = w.player}]

\* Whatever the model extracts and however the tasks of two turns overlap, the player
\* is at a place of the world and no item has dropped out of it: a player without a
\* place could not be moved back, and every read of the world would fail.
WorldIsWhole ==
  exists => /\ graph.player \in Locations
            /\ \A i \in Items : graph.at[i] \in Locations \cup Npcs \cup {Held}

\* What a unit test sees in the fake the player sees in the graph, but for the items
\* an NPC began with and those dropped without being held.
FakeAgrees ==
  exists => /\ View(graph, stray) = View(fake, stray)
            /\ graph.locked = fake.locked /\ graph.changed = fake.changed
            /\ \A i \in Items \ stray : (graph.at[i] = Held) = (fake.at[i] = Held)
=============================================================================
