--------------------------- MODULE Relationships ---------------------------
(***************************************************************************)
(* What the characters of a game think of the player: the two              *)
(* implementations of RelationshipService, and the task of a turn that     *)
(* feeds them.                                                             *)
(*                                                                         *)
(* InMemoryRelationshipService, which the application wires, changes a     *)
(* relationship in one piece.  Neo4jRelationshipService reads it, waits,   *)
(* and writes it in another query; an unknown character's change is lost   *)
(* in silence.  Both are given the same changes here.                      *)
(***************************************************************************)
EXTENDS Integers, Sequences

CONSTANTS
  Npcs, Unknown,     \* the characters, and a name the model may extract instead
  Tasks,             \* of turns, which may overlap
  Axes,              \* of a relationship, but for familiarity
  Fearful,           \* the axis that has no negative side
  Limit,             \* of every axis: 100
  Step, Familiar,    \* the change a turn makes and the familiarity it adds: 5 and 3
  Clamp,             \* how far one change may go: 15
  MaxChanges,        \* bound on the changes a turn makes
  MaxApplied,        \* bound on the changes of a behaviour
  None               \* where there is no relationship yet

VARIABLES
  graph,   \* the RELATES_TO relationships, from the player to a character
  memory,  \* the relationships of the in-memory service
  task,    \* what each task has still to apply, and what it has read
  overrun, \* characters whose relationship a stale read may have overwritten
  applied

vars == <<graph, memory, task, overrun, applied>>

Dimensions == Axes \cup {"familiarity"}
Neutral == [d \in Dimensions |-> 0]
Low(d) == IF d = Fearful \/ d = "familiarity" THEN 0 ELSE -Limit

Within(n, low, high) == IF n < low THEN low ELSE IF n > high THEN high ELSE n

\* parse_relationship_delta: on what, and whether it got better; an axis that is not
\* named moves all those of the default.
Deltas == {[d \in Dimensions |-> IF d = "familiarity" THEN Familiar
                                 ELSE IF d \in on THEN sign * Step ELSE 0] :
             on \in {{a} : a \in Axes} \cup {Axes \ {Fearful}}, sign \in {-1, 1}}
\* RelationshipChange.clamped, apply_relationship_change
Applied(dims, delta) ==
  [d \in Dimensions |-> Within(dims[d] + Within(delta[d], -Clamp, Clamp), Low(d), Limit)]
Known(dims) == IF dims = None THEN Neutral ELSE dims

Changes == [npc : Npcs \cup {Unknown}, delta : Deltas]
NoTask == [pc |-> "idle", changes |-> <<>>, read |-> None]

Init ==
  /\ graph = [n \in Npcs |-> None]
  /\ memory = [n \in Npcs \cup {Unknown} |-> None]
  /\ task = [t \in Tasks |-> NoTask]
  /\ overrun = {} /\ applied = 0

\* The relationship changes among those of a turn, in dispatch_pipeline.
BeginChanges(t, changes) ==
  /\ task[t] = NoTask /\ applied + Len(changes) <= MaxApplied
  /\ task' = [task EXCEPT ![t] = [pc |-> "reading", changes |-> changes, read |-> None]]
  /\ applied' = applied + Len(changes)
  /\ UNCHANGED <<graph, memory, overrun>>

Subject(t) == Head(task[t].changes).npc
Rest(t) ==
  LET rest == Tail(task[t].changes) IN
    IF rest = <<>> THEN NoTask ELSE [pc |-> "reading", changes |-> rest, read |-> None]

\* update_relationship of the in-memory service, and the first query of the other one.
ReadRelationship(t) ==
  /\ task[t].pc = "reading"
  /\ LET change == Head(task[t].changes) IN
       /\ memory' = [memory EXCEPT ![change.npc] = Applied(Known(@), change.delta)]
       /\ task' = [task EXCEPT ![t].pc = "writing",
                               ![t].read = IF change.npc \in Npcs THEN graph[change.npc] ELSE None]
  /\ UNCHANGED <<graph, overrun, applied>>

\* _write_relationship: both nodes must match.  If another task has read the relationship
\* meanwhile, one of the two writes on top of what it does not know of.
WriteRelationship(t) ==
  /\ task[t].pc = "writing"
  /\ LET change == Head(task[t].changes) IN
       IF change.npc \in Npcs
       THEN /\ graph' = [graph EXCEPT ![change.npc] =
                           Applied(Known(task[t].read), change.delta)]
            /\ overrun' = IF \E u \in Tasks \ {t} : task[u].pc = "writing" /\ Subject(u) = change.npc
                          THEN overrun \cup {change.npc} ELSE overrun
       ELSE UNCHANGED <<graph, overrun>>
  /\ task' = [task EXCEPT ![t] = Rest(t)]
  /\ UNCHANGED <<memory, applied>>

\* A query fails; the change is skipped and the next one made.
ChangeSkipped(t) ==
  /\ task[t].pc = "writing"
  /\ overrun' = overrun \cup ({Subject(t)} \cap Npcs)
  /\ task' = [task EXCEPT ![t] = Rest(t)]
  /\ UNCHANGED <<graph, memory, applied>>

CleanupSession ==
  /\ graph' = [n \in Npcs |-> None]
  /\ memory' = [n \in Npcs \cup {Unknown} |-> None]
  /\ overrun' = {Subject(t) : t \in {t \in Tasks : task[t].pc = "writing"}} \cap Npcs
  /\ UNCHANGED <<task, applied>>

Next ==
  \/ \E t \in Tasks :
       \/ \E n \in 1 .. MaxChanges : \E changes \in [1 .. n -> Changes] : BeginChanges(t, changes)
       \/ ReadRelationship(t) \/ WriteRelationship(t) \/ ChangeSkipped(t)
  \/ CleanupSession

Spec == Init /\ [][Next]_vars
-----------------------------------------------------------------------------
\* A change of this character is read and not yet written.
Changing(n) == \E t \in Tasks : task[t].pc = "writing" /\ Subject(t) = n

\* Every relationship stays within its bounds and is the sum of the changes made to it,
\* each cut to the bounds as it was made: only where a write was lost, or made on top of
\* a stale read, does the graph say something else than the service of the tests.
RelationshipsAgree ==
  /\ \A n \in Npcs : graph[n] # None =>
       \A d \in Dimensions : graph[n][d] \in Low(d) .. Limit
  /\ \A n \in Npcs : n \notin overrun /\ ~Changing(n) => graph[n] = memory[n]
=============================================================================
