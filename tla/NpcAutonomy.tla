---------------------------- MODULE NpcAutonomy ----------------------------
(***************************************************************************)
(* What the characters do by themselves: the clock of a world,             *)
(* DefaultAutonomyProcessor, which goes through their routines at a tick,  *)
(* and DefaultConsequencePropagator, which spreads an event.               *)
(*                                                                         *)
(* A processor remembers which steps that do not repeat it has fired; the  *)
(* characters are read anew at every tick.  SUPPORTING characters are      *)
(* deferred once the time budget is spent, KEY ones never are.  The        *)
(* conditions of steps are intervals in ticks and labels of the day; the   *)
(* triggers that are never evaluated are left out.                         *)
(***************************************************************************)
EXTENDS Integers, FiniteSets, Sequences, SequencesExt

CONSTANTS
  Order,        \* the characters, in the order they are read in
  Tier,         \* of each: "key", "supporting" or "background"
  Schedule,     \* and the labels of the day it is about; {} if it has none
  Routine,      \* its steps: every so many ticks or at a label, once, and what it does
  Idle,         \* the state that characters begin with
  Boundaries,   \* the labels in order and where they start, in thousandths of a day
  Dawn,         \* the label of the dawn
  Day,          \* minutes of a day, and of a tick
  MinutesPerTick,
  TicksPerTurn, MaxSkip, MaxRequest,  \* the latter bounds the skips that are asked for
  MaxTicks,       \* bound on the ticks
  MaxDepth,     \* of propagation: 3
  Places, Factions, None

VARIABLES
  ticks,
  state,    \* of each character
  fired,    \* _fired_non_repeating_steps: of the processor
  count,    \* how often the processor fired each step that does not repeat
  due,      \* steps of the KEY characters that were due when it ran
  result    \* of a propagation, until the next step

vars == <<ticks, state, fired, count, due, result>>

Npcs == ToSet(Order)
Once == {s \in Npcs \X (1 .. 4) : s[2] \in DOMAIN Routine[s[1]] /\ Routine[s[1]][s[2]].once}
NoResult == [records |-> {}, depth |-> 0]

Init ==
  /\ ticks = 0 /\ state = [n \in Npcs |-> Idle]
  /\ fired = {} /\ count = [s \in Once |-> 0] /\ due = {} /\ result = NoResult
-----------------------------------------------------------------------------
(* WorldTimeService                                                        *)

Minute(t) == (t * MinutesPerTick) % Day

\* compute_world_time: the last boundary that has been reached.
Label(t) ==
  Boundaries[CHOOSE k \in DOMAIN Boundaries :
    /\ Minute(t) * 1000 >= Boundaries[k].start * Day
    /\ \A j \in k + 1 .. Len(Boundaries) : Minute(t) * 1000 < Boundaries[j].start * Day].label

DawnMinute == LET b == CHOOSE b \in ToSet(Boundaries) : b.label = Dawn
              IN  (b.start * Day) \div 1000

CeilDiv(a, b) == (a + b - 1) \div b
TicksToNextDawn(t) ==
  LET now == Minute(t)
      left == IF now < DawnMinute THEN DawnMinute - now ELSE Day - now + DawnMinute
  IN  Max({1, CeilDiv(left, MinutesPerTick)})

Advance(n) ==
  /\ ticks + n <= MaxTicks /\ ticks' = ticks + n
  /\ result' = NoResult /\ UNCHANGED <<state, fired, count, due>>

Tick == Advance(IF TicksPerTurn > 0 THEN TicksPerTurn ELSE 1)
SkipAhead(requested) == Advance(Min({requested, MaxSkip}))
-----------------------------------------------------------------------------
(* DefaultAutonomyProcessor                                                *)

\* _in_salience_window, whose world_context process never passes.
InWindow(n) == Label(ticks) \in Schedule[n] \/ "always" \in Schedule[n]

Processed(late) ==
  {n \in Npcs : /\ Schedule[n] # {}
                /\ \/ Tier[n] = "key"
                   \/ Tier[n] = "supporting" /\ InWindow(n) /\ n \notin late}

Matched(step) ==
  \/ step.every > 0 /\ ticks % step.every = 0
  \/ step.every = 0 /\ step.at = Label(ticks)
Due(n) == {k \in DOMAIN Routine[n] : Matched(Routine[n][k])}
Firing(n) == {k \in Due(n) : Routine[n][k].once => <<n, k>> \notin fired}

\* The schedule alone decides what a character without a routine does.
ByLabel ==
  CASE Label(ticks) \in {"morning", "afternoon"} -> "active"
    [] Label(ticks) = "evening" -> "busy"
    [] Label(ticks) \in {"night", "midnight"} -> "sleeping"
    [] OTHER -> "as before"

\* _process_rule_based: the last of the steps that fire and change the state.
NewState(n) ==
  LET moves == {k \in Firing(n) : Routine[n][k].to # "an event"}
  IN  IF Routine[n] = <<>>
      THEN IF ByLabel = "as before" THEN state[n] ELSE ByLabel
      ELSE IF moves = {} THEN state[n] ELSE Routine[n][Max(moves)].to

\* process, whose budget is spent when it comes to the characters in late, and the
\* changes that run_npc_autonomy writes back.
Process(late) ==
  LET done == Processed(late)
      firing == (UNION {{n} \X Firing(n) : n \in done}) \cap Once
  IN  /\ state' = [n \in Npcs |-> IF n \in done THEN NewState(n) ELSE state[n]]
      /\ fired' = fired \cup firing
      /\ count' = [s \in Once |-> IF s \in firing THEN count[s] + 1 ELSE count[s]]
      /\ due' = due \cup ((UNION {{n} \X Due(n) : n \in {n \in Npcs : Tier[n] = "key" /\ Schedule[n] # {}}})
                            \cap Once)
      /\ result' = NoResult /\ UNCHANGED ticks

\* A restart; the job makes a new processor each time.
NewProcessor ==
  /\ fired' = {} /\ count' = [s \in Once |-> 0] /\ due' = {}
  /\ result' = NoResult /\ UNCHANGED <<ticks, state>>
-----------------------------------------------------------------------------
(* DefaultConsequencePropagator                                            *)

Severities == <<"minor", "notable", "major", "critical">>
Rank(severity) == CHOOSE r \in DOMAIN Severities : Severities[r] = severity

\* _decay_severity: 0 stands for none.
Decayed(severity, hop) == Max({0, Rank(severity) - hop})

\* The entities of the records: what was affected, the surroundings of its place hop by
\* hop, and the faction.
Hops(source) ==
  {h \in 1 .. Max({1, MaxDepth}) : Decayed(source.severity, h) > 0}
Records(source, overBudget) ==
  IF source.severity = "minor" \/ source.entity = None THEN {}
  ELSE {[hop |-> 0, entity |-> source.entity, rank |-> Rank(source.severity)]}
         \cup (IF overBudget THEN {}
               ELSE {[hop |-> h, entity |-> <<source.place, h>>,
                      rank |-> Decayed(source.severity, h)] : h \in Hops(source)}
                    \cup {[hop |-> 1, entity |-> source.faction,
                           rank |-> Decayed(source.severity, 1)] :
                            h \in Hops(source) \cap (IF source.faction = None THEN {} ELSE {1})})

\* _propagate_one
Propagate(source, overBudget) ==
  /\ result' = [records |-> Records(source, overBudget),
                depth |-> IF overBudget \/ source.entity = None \/ source.severity = "minor" THEN 0
                          ELSE Max({0} \cup Hops(source))]
  /\ UNCHANGED <<ticks, state, fired, count, due>>

Sources ==
  [severity : ToSet(Severities), place : Places, entity : Npcs \cup {None},
   faction : Factions \cup {None}]

Next ==
  \/ Tick \/ NewProcessor
  \/ \E n \in 1 .. MaxRequest : SkipAhead(n)
  \/ \E k \in 1 .. Len(Order) + 1 : Process({Order[j] : j \in k .. Len(Order)})
  \/ \E s \in Sources, b \in BOOLEAN : Propagate(s, b)

Spec == Init /\ [][Next]_vars
-----------------------------------------------------------------------------
\* Whoever is deferred and however often a tick is processed, a step that does not
\* repeat fires at most once, and one of a KEY character that was due has fired.
OnceFiresOnce == \A s \in Once : count[s] <= 1 /\ (s \in due => count[s] = 1)

\* The skip to the next dawn is the shortest after which a dawn has been passed.
DawnIsNext ==
  LET Dawns(t) == (t * MinutesPerTick - DawnMinute + Day) \div Day
  IN  /\ Dawns(ticks + TicksToNextDawn(ticks)) > Dawns(ticks)
      /\ Dawns(ticks + TicksToNextDawn(ticks) - 1) = Dawns(ticks)

\* An event spreads hop by hop, weaker at each, to no entity twice and no further than
\* its depth and its budget allow.
SpreadFades ==
  /\ \A r \in result.records : r.hop <= result.depth /\ r.hop <= Max({1, MaxDepth}) /\ r.rank \in DOMAIN Severities
  /\ \A r, o \in result.records :
       /\ r.entity = o.entity => r = o
       /\ r.hop < o.hop => r.rank > o.rank
  /\ \A h \in 0 .. result.depth : result.records # {} => \E r \in result.records : r.hop = h
=============================================================================
