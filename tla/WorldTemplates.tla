--------------------------- MODULE WorldTemplates ---------------------------
(* The templates of worlds: read and validated when a server starts            *)
(* (world/template_registry.py, world/template_validator.py), chosen by the    *)
(* player's preferences, and made into the ways and places of a world          *)
(* (world/neo4j_service.py).                                                   *)
EXTENDS Naturals, FiniteSets, FiniteSetsExt, Sequences, SequencesExt

CONSTANTS
  Directories,   \* what the directory of templates may hold: sequences of templates
  Opposite,      \* _REVERSE_MAP, _REVERSE_DIRECTION
  Nobody         \* for "no key"

VARIABLES
  files,      \* templates not yet loaded
  registry,   \* those that are
  world       \* the template chosen for a game and the ways made of it, or what there is before

vars == <<files, registry, world>>

Starting == [of |-> "starting"]
Refused == [of |-> "refused"]

Init == files \in Directories /\ registry = {} /\ world = Starting

KeysOf(entries) == {e.key : e \in ToSet(entries)}
EntriesOf(t) == t.locations \o t.npcs \o t.items
AllKeys(t) == t.regions \cup KeysOf(EntriesOf(t))
Places(t) == KeysOf(t.locations)
-----------------------------------------------------------------------------
UniqueKeys(t) ==
  Cardinality(AllKeys(t)) = Cardinality(t.regions) + Len(EntriesOf(t))

RegionRefs(t) == \A l \in ToSet(t.locations) : l.region \in t.regions

LocationRefs(t) ==
  /\ \A n \in ToSet(t.npcs) : n.at \in Places(t)
  /\ \A i \in ToSet(t.items) : i.at \in Places(t) \cup {Nobody} /\ i.with \in KeysOf(t.npcs) \cup {Nobody}

KnowledgeRefs(t) == \A k \in t.knowledge : k.of \in KeysOf(t.npcs) /\ k.about \in AllKeys(t)

Starts(t) == SelectSeq(t.locations, LAMBDA l : l.start)
OneStartingLocation(t) == Len(Starts(t)) = 1

ConnectionRefs(t) == \A c \in ToSet(t.connections) : {c.from, c.to} \subseteq Places(t)

\* Exits are taken connection by connection; one taken twice is a conflict.
TakeExits(s, c) ==
  LET there == <<c.from, c.direction>>
      back == <<c.to, Opposite[c.direction]>>
  IN  [exits |-> s.exits \cup {there} \cup IF c.both THEN {back} ELSE {},
       clash |-> \/ s.clash \/ there \in s.exits
                 \/ c.both /\ back \in s.exits \cup {there}]
NoDirectionConflicts(t) == ~FoldLeft(TakeExits, [exits |-> {}, clash |-> FALSE], t.connections).clash

ItemPlacement(t) == \A i \in ToSet(t.items) : (i.at = Nobody) # (i.with = Nobody)

Beside_Undirected(t, node) ==
  {c.to : c \in {c \in ToSet(t.connections) : c.from = node}}
    \cup {c.from : c \in {c \in ToSet(t.connections) : c.to = node}}
Beside(t, node) ==
  {c.to : c \in {c \in ToSet(t.connections) : c.from = node}}
    \cup {c.from : c \in {c \in ToSet(t.connections) : c.both /\ c.to = node}}

RECURSIVE Walk(_, _, _)
Walk(t, stack, visited) ==
  IF stack = {} THEN visited
  ELSE LET node == CHOOSE n \in stack : TRUE
       IN  Walk(t, (stack \cup Beside(t, node)) \ (visited \cup {node}), visited \cup {node})

ConnectedGraph(t) == Places(t) \subseteq Walk(t, {Head(Starts(t)).key}, {})

ValidateTemplate(t) ==
  /\ UniqueKeys(t) /\ t.locations # <<>> /\ RegionRefs(t) /\ LocationRefs(t) /\ KnowledgeRefs(t)
  /\ OneStartingLocation(t) /\ ConnectionRefs(t) /\ NoDirectionConflicts(t) /\ ItemPlacement(t)
  /\ ConnectedGraph(t)
-----------------------------------------------------------------------------
\* A file that is no template, or another of a key, keeps the server from starting.
LoadOne ==
  /\ world = Starting /\ files # <<>>
  /\ LET t == Head(files) IN
       IF ValidateTemplate(t) /\ t.key \notin KeysOf(SetToSeq(registry))
       THEN registry' = registry \cup {t} /\ UNCHANGED world
       ELSE world' = Refused /\ UNCHANGED registry
  /\ files' = Tail(files)

\* One that matches the most preferences; which do is any number.
SelectByPreferences(score) == {t \in registry : \A u \in registry : score[u] <= score[t]}

WaysOf(c) ==
  <<[from |-> c.from, to |-> c.to, direction |-> c.direction]>>
    \o IF c.both THEN <<[from |-> c.to, to |-> c.from, direction |-> Opposite[c.direction]]>> ELSE <<>>

CreateWorld ==
  /\ world = Starting /\ files = <<>>
  /\ \E score \in [registry -> 0..1] : \E t \in SelectByPreferences(score) :
       world' = [of |-> "world", template |-> t,
                 ways |-> FoldLeft(LAMBDA ways, c : ways \o WaysOf(c), <<>>, t.connections)]
  /\ UNCHANGED <<files, registry>>

Next == LoadOne \/ CreateWorld
Spec == Init /\ [][Next]_vars
-----------------------------------------------------------------------------
\* Whichever template a game is made of, whoever wrote it: the player starts in one place
\* and can get to every other, a direction leads from a place one way at most, and
\* everybody and everything is in one place, or with somebody who is.
WorldsAreWhole ==
  world.of = "world" =>
    LET t == world.template
        ways == world.ways
    IN  /\ \E start \in Places(t) :
             /\ \A l \in ToSet(t.locations) : l.start <=> l.key = start
             /\ \A group \in SUBSET Places(t) :
                  start \in group /\ (\A w \in ToSet(ways) : w.from \in group => w.to \in group)
                    => group = Places(t)
        /\ \A i, j \in DOMAIN ways :
             ways[i].from = ways[j].from /\ ways[i].direction = ways[j].direction => i = j
        /\ \A n \in ToSet(t.npcs) : n.at \in Places(t)
        /\ \A i \in ToSet(t.items) :
             (i.at \in Places(t)) # (\E n \in ToSet(t.npcs) : n.key = i.with)
=============================================================================
