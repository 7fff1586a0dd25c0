----------------------------- MODULE GenesisV2 -----------------------------
(***************************************************************************)
(* The dialogue in which a player finds a world and a character:           *)
(* GenesisOrchestrator of genesis_v2.py.                                   *)
(*                                                                         *)
(* A call loads the whole state from the game's row, waits for the model,  *)
(* and writes the whole state back; nothing keeps a second call for the    *)
(* same game from doing so in between.  What was said is reduced to how    *)
(* many answers of the player the state holds, and what was found to       *)
(* whether it was.                                                         *)
(***************************************************************************)
EXTENDS Naturals, Sequences

CONSTANTS
  Calls,        \* overlapping requests
  MaxStarts     \* bound on how often the dialogue is begun

VARIABLES
  row,     \* genesis_state of the game
  call,    \* where each call is and the state it loaded
  stale,   \* calls whose state is not the row's any more
  starts

vars == <<row, call, stale, starts>>

PhaseOrder == <<"void", "building_world", "slip", "building_character",
                "first_light", "becoming", "threshold", "COMPLETE">>
MinInteractions == 2
MaxConfirmed == 2

\* How far a phase is from the first.
Rank(phase) == CHOOSE k \in DOMAIN PhaseOrder : PhaseOrder[k] = phase

\* A GenesisState: answers is the player's share of interactions, traits the number
\* inferred and confirmed, seed what first_turn_seed tells of.
Fresh ==
  [phase |-> "void", count |-> 0, answers |-> 0, slip |-> FALSE, inferred |-> 0,
   confirmed |-> 0, form |-> FALSE, named |-> FALSE, committed |-> FALSE,
   seed |-> {}, completed |-> FALSE]

Idle == [pc |-> "idle", state |-> Fresh]

Init ==
  /\ row = Fresh /\ call = [c \in Calls |-> Idle]
  /\ stale = {} /\ starts = 0

\* _phase_building_world, which extracts a composition once it has enough to go by.
BuildingWorld(s, extracted) ==
  IF s.count >= MinInteractions /\ ~s.committed THEN [s EXCEPT !.committed = extracted] ELSE s
\* _phase_slip
Slip(s) == [s EXCEPT !.slip = TRUE]
\* _phase_building_character: a failed inference leaves the traits as they were.
BuildingCharacter(s, traits) ==
  IF s.count >= MinInteractions /\ s.inferred = 0 THEN [s EXCEPT !.inferred = traits] ELSE s
\* _phase_first_light
FirstLight(s) ==
  [s EXCEPT !.form = TRUE,
     !.confirmed = IF @ # 0 THEN @ ELSE IF s.inferred < MaxConfirmed THEN s.inferred
                                   ELSE MaxConfirmed]
\* _phase_becoming
Becoming(s) == [s EXCEPT !.named = TRUE]
\* _phase_threshold
Told(s) ==
  {part \in {"name", "traits", "form", "slip"} :
     CASE part = "name" -> s.named [] part = "traits" -> s.confirmed > 0
       [] part = "form" -> s.form  [] part = "slip" -> s.slip}
Threshold(s) == IF s.seed = {} THEN [s EXCEPT !.seed = Told(s)] ELSE s

\* _process_phase
Processed(s, extracted, traits) ==
  CASE s.phase = "building_world" -> BuildingWorld(s, extracted)
    [] s.phase = "slip" -> Slip(s)
    [] s.phase = "building_character" -> BuildingCharacter(s, traits)
    [] s.phase = "first_light" -> FirstLight(s)
    [] s.phase = "becoming" -> Becoming(s)
    [] s.phase = "threshold" -> Threshold(s)
    [] OTHER -> s
Advanced_Keeping(s) ==
  LET next == PhaseOrder[Rank(s.phase) + 1] IN
    IF s.count < MinInteractions \/ s.phase = "COMPLETE" THEN s
    ELSE [s EXCEPT !.phase = next, !.completed = (next = "COMPLETE")]

\* _maybe_advance_phase
Advanced(s) ==
  LET next == PhaseOrder[Rank(s.phase) + 1] IN
    IF s.count < MinInteractions \/ s.phase = "COMPLETE" THEN s
    ELSE [s EXCEPT !.phase = next, !.count = 0, !.completed = (next = "COMPLETE")]

Heard(s) == [s EXCEPT !.answers = @ + 1, !.count = @ + 1]

\* _load_state
Load(c) ==
  /\ call[c].pc = "idle"
  /\ call' = [call EXCEPT ![c] = [pc |-> "loaded", state |-> row]]
  /\ stale' = stale \ {c}
  /\ UNCHANGED <<row, starts>>

Others(c) == {d \in Calls \ {c} : call[d].pc # "idle"}
Save(c, s) ==
  /\ row' = s
  /\ stale' = (stale \ {c}) \cup Others(c)

\* start: a fresh state, saved before and after the first prompt, whatever is there.
Start(c) ==
  /\ call[c].pc = "idle" /\ starts < MaxStarts /\ starts' = starts + 1
  /\ call' = [call EXCEPT ![c] = [pc |-> "started", state |-> Fresh]]
  /\ Save(c, Fresh)

Prompt(c) ==
  /\ call[c].pc = "started"
  /\ call' = [call EXCEPT ![c] = Idle]
  /\ Save(c, call[c].state)
  /\ UNCHANGED starts

\* Nothing is written: genesis is complete, or the model failed.
GiveUp(c) ==
  /\ call[c].pc = "loaded"
  /\ call' = [call EXCEPT ![c] = Idle] /\ stale' = stale \ {c}
  /\ UNCHANGED <<row, starts>>

\* Harmful words are answered and not counted.
Redirect(c) ==
  /\ call[c].pc = "loaded" /\ ~call[c].state.completed
  /\ call' = [call EXCEPT ![c] = Idle]
  /\ Save(c, call[c].state)
  /\ UNCHANGED starts

Advance(c, extracted, traits) ==
  /\ call[c].pc = "loaded" /\ ~call[c].state.completed
  /\ call' = [call EXCEPT ![c] = Idle]
  /\ Save(c, Advanced(Processed(Heard(call[c].state), extracted, traits)))
  /\ UNCHANGED starts

Next ==
  \E c \in Calls :
    \/ Load(c) \/ Start(c) \/ Prompt(c) \/ GiveUp(c) \/ Redirect(c)
    \/ \E extracted \in BOOLEAN, traits \in {0, 1, 3} : Advance(c, extracted, traits)

Spec == Init /\ [][Next]_vars
-----------------------------------------------------------------------------
Past(s, phase) == Rank(s.phase) > Rank(phase)

\* However calls overlap, the state saved is one that a dialogue without overlaps could
\* have reached: two answers for every phase, each phase's find made before the next
\* begins, complete exactly when the last phase is past and the story's first turn has
\* all that was found to go by.
Coherent(s) ==
  /\ s.answers = MinInteractions * (Rank(s.phase) - 1) + s.count
  /\ s.completed = (s.phase = "COMPLETE")
  /\ Past(s, "slip") => s.slip
  /\ Past(s, "first_light") =>
       s.form /\ s.confirmed <= s.inferred /\ (s.inferred > 0 => s.confirmed > 0)
  /\ Past(s, "becoming") => s.named
  /\ Past(s, "threshold") =>
       s.seed = {"name", "form", "slip"} \cup (IF s.inferred > 0 THEN {"traits"} ELSE {})

SavedIsCoherent == Coherent(row)

\* The dialogue loses an answer, or takes back that it is complete, only to a call that
\* another one overtook, or to one that begins it anew.
OnlyOvertakenLose ==
  row'.answers < row.answers \/ (row.completed /\ ~row'.completed) =>
    starts' # starts \/ \E c \in stale : call[c].pc # "idle" /\ call'[c] = Idle
=============================================================================
