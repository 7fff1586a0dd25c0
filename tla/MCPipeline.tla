----------------------------- MODULE MCPipeline -----------------------------
(* The turns of a session for TLC, and what is around them: a behaviour runs   *)
(* one part.  Those that have no theorems share the variables m1 to m6, the    *)
(* variables of the part's module in the order it declares them.               *)
EXTENDS TurnPipeline, MCWorlds, TLC

CONSTANTS A, B, C   \* names of whatever a part has several of

VARIABLES m1, m2, m3, m4, m5, m6

shared == <<m1, m2, m3, m4, m5, m6>>

\* Two tiers; a pattern that is punished at once and shortly, and one that is let pass once
\* and punished for longer; chains of one entry or two.
TwoProviders == <<"here", "there">>
ShortAndLong ==
  "rapid fire" :> [threshold |-> 0, window |-> 1, base |-> 1]
    @@ "credential stuffing" :> [threshold |-> 1, window |-> 1, base |-> 2]
Entry(when, hidden) == [timescale |-> when, hidden |-> hidden]
Chain(entries, important, permanent) ==
  [entries |-> entries, important |-> important, permanent |-> permanent]
FourChains ==
  {Chain(<<Entry("short", TRUE), Entry("long", FALSE)>>, FALSE, FALSE),
   Chain(<<Entry("short", FALSE)>>, TRUE, FALSE),
   Chain(<<Entry("immediate", FALSE)>>, FALSE, TRUE), Chain(<<>>, FALSE, FALSE)}

\* Two places and the ways between them, an item, and an NPC with a relic; of what the
\* model can extract, what leads to every case: one turn makes two changes, or each of two
\* turns one.
Drawn ==
  {[type |-> "move", from |-> A, to |-> B], [type |-> "move", from |-> A, to |-> "nowhere known"],
   [type |-> "lock", from |-> A, to |-> B], [type |-> "take", item |-> "item"]}
    \cup [type : {"drop"}, item : {"item", "relic"}]
Back == {[type |-> "move", from |-> B, to |-> A], [type |-> "unlock", from |-> A, to |-> B],
         [type |-> "describe", entity |-> "npc"]}
More == {[type |-> "hide", item |-> "item"], [type |-> "show", item |-> "item"],
         [type |-> "take", item |-> "relic"]}
TwoWays == {<<A, B>>, <<B, A>>}
FirstHome == [item |-> A, relic |-> "npc"]
FirstPost == [npc |-> B]
OneOrTwoTurns == [batch |-> {A}, tasks |-> {A, B}]
TwoChangesOrOne == [batch |-> 2, tasks |-> 1]
WhatTurnsExtract == [batch |-> Drawn \cup More, tasks |-> Drawn \cup Back]

\* Two characters, days of an hour and two of them.
Routined(every, at, once, to) == [every |-> every, at |-> at, once |-> once, to |-> to]
TwoCharacters == <<A, B>>
OneIsKey == A :> "key" @@ B :> "supporting"
TwoSchedules == A :> {"morning"} @@ B :> {"morning", "night"}
TwoRoutines ==
  A :> <<Routined(2, "-", TRUE, "busy"), Routined(0, "night", FALSE, "sleeping")>>
    @@ B :> <<Routined(0, "morning", TRUE, "an event")>>
PartsOfDays ==
  <<[label |-> "midnight", start |-> 0], [label |-> "dawn", start |-> 208],
    [label |-> "morning", start |-> 292], [label |-> "night", start |-> 917]>>

\* Edges of gossip, and how long memories stay important.
FourEdges == {<<A, B>>, <<B, C>>, <<B, A>>, <<A, C>>}
NeverOrOne == {-1, 1}

\* Includes that are circles, of one, two and three, or are not.
Includes(x, y, z) == A :> x @@ B :> y @@ C :> z
FourGraphs ==
  {Includes({B, "a fragment"}, {C}, {A}), Includes({B, C}, {C}, {"a fragment"}),
   Includes({}, {B}, {}), Includes({}, {C}, {B})}

\* A template, after a plain one: up to two ways between up to three places, or one way and
\* people and things that are somewhere, nowhere or of a key there is not.
Place(key, region, start) == [key |-> key, region |-> region, start |-> start]
Way(from, to, direction, both) == [from |-> from, to |-> to, direction |-> direction, both |-> both]
Template(key, places, links, npcs, items, knowledge) ==
  [key |-> key, regions |-> {"land"}, locations |-> places, connections |-> links, npcs |-> npcs,
   items |-> items, knowledge |-> knowledge]
Plain(key) == Template(key, <<Place(A, "land", TRUE)>>, <<>>, <<>>, <<>>, {})
Land == {<<Place(A, "land", TRUE), Place(B, "land", FALSE)>>,
         <<Place(A, "land", TRUE), Place(B, "land", FALSE), Place(C, "land", FALSE)>>}
Lands == Land \cup {<<>>, <<Place(A, "land", TRUE), Place(A, "land", FALSE)>>,
                   <<Place(A, "land", TRUE), Place(B, "sea", FALSE)>>,
                   <<Place(A, "land", TRUE), Place(B, "land", TRUE)>>}
Ways(places) == {Way(x, y, d, both) : x \in places, y \in places, d \in {"north", "south"}, both \in BOOLEAN}
Written ==
  {Template("one", land, <<v, w>>, <<>>, <<>>, {}) : land \in Land, v \in Ways({A, B, C}), w \in Ways({A, B, C})}
    \cup {Template("one", land, <<way>>, <<>>, <<>>, {}) : land \in Lands, way \in Ways({A, B})}
    \cup {Template(key, <<Place(A, "land", TRUE)>>, <<>>, <<[key |-> npc, at |-> at]>>,
                   <<[key |-> C, at |-> place, with |-> holder]>>, {[of |-> B, about |-> about]}) :
           key \in {"one", "plain"}, npc \in {A, B}, at \in {A, B}, place \in {A, B, None},
           holder \in {A, B, None}, about \in {C, "unknown"}}
Templates == INSTANCE WorldTemplates WITH
  Directories <- {<<Plain("plain"), t>> : t \in Written}, Opposite <- [north |-> "south", south |-> "north"],
  Nobody <- None, files <- m1, registry <- m2, world <- m3

\* Reports of up to three turns, with ratings on both sides of what counts as incoherent.
Rated(coherence, surprise, late) == [coherence |-> coherence, surprise |-> surprise, timedOut |-> late]
Rating == {Rated(3, 10, FALSE), Rated(4, 3, FALSE), Rated(10, 3, FALSE), Rated(10, 10, FALSE), Rated(0, 0, TRUE)}
Says(consequence, wonder, character) ==
  {[consequence |-> consequence, wonder |-> wonder, character |-> character]}
Verdicts == INSTANCE Quality WITH
  Reports <- UNION {[1..n -> Rating] : n \in 0..3}, Feedbacks <- {{}, Says(5, 5, 5), Says(1, 3, 5), Says(3, 2, 1)},
  Genres <- {{}, {2}, {5}}, Tellings <- {"nameless", "no name told", "no trait", "name lost", "told"},
  report <- m1, feedback <- m2, genre <- m3, character <- m4, counted <- m5, verdict <- m6

-----------------------------------------------------------------------------
Spare == m1 = None /\ m2 = None /\ m3 = None /\ m4 = None /\ m5 = None /\ m6 = None

MCInit ==
  /\ Init
  /\ \/ PartsInit /\ NoWorlds /\ Spare
     \/ WorldsInit /\ NoParts /\ Spare
     \/ /\ NoParts /\ NoWorlds
        /\ \/ part = "turns" /\ Spare
           \/ part = "verdicts" /\ Verdicts!Init
           \/ part = "templates" /\ Templates!Init /\ m4 = None /\ m5 = None /\ m6 = None

SharedStep ==
  \/ part = "verdicts" /\ Verdicts!Next
  \/ part = "templates" /\ Templates!Next /\ UNCHANGED <<m4, m5, m6>>

MCSpec ==
  /\ MCInit
  /\ [][\/ part = "turns" /\ Next /\ UNCHANGED <<partVars, worldVars, shared>>
        \/ PartsNext /\ UNCHANGED <<vars, worldVars, shared>>
        \/ WorldsNext /\ UNCHANGED <<vars, partVars, shared>>
        \/ SharedStep /\ UNCHANGED <<vars, partVars, worldVars>>]_<<partVars, worldVars, vars, shared>>
-----------------------------------------------------------------------------
\* See WorldTemplates, NpcAutonomy, WorldMemory, Prompts and Quality: whatever template a world
\* is made of, it is whole, the next dawn is where a skip ends, a context is the best that its
\* budget has room for, a server that starts can render, and the verdict on a session is as
\* good as its turns and its players say.
RulesAreSound ==
  /\ part = "templates" => Templates!WorldsAreWhole
  /\ part = "characters" => Characters!DawnIsNext
  /\ part = "memories" => Memories!ContextIsTheBest
  /\ part = "prompts" => Bridge!RenderingEnds
  /\ part = "verdicts" => Verdicts!PassIsDeserved
=============================================================================
