----------------------------- MODULE NpcMemory -----------------------------
(***************************************************************************)
(* What the characters remember and tell each other:                       *)
(* InMemorySocialMemoryWriter of npc_memory.py.                            *)
(*                                                                         *)
(* An episode happens to one character and is passed on along the edges    *)
(* that are strong enough, a bounded number of hops and with falling       *)
(* reliability (in tenths).  It may be propagated again at any time, over  *)
(* whatever the edges have become.                                         *)
(***************************************************************************)
EXTENDS Integers, FiniteSets

CONSTANTS
  Npcs,
  Episodes,   \* first-hand episodes that may happen
  MaxHops,    \* max_gossip_hops: 2
  Decrement,  \* of reliability per hop, and its floor, in tenths: 2 and 2
  Floor,
  Edges       \* the edges whose strength may change; the others are too weak

VARIABLES
  strong,   \* edges over the familiarity threshold
  origin,   \* whose each episode is
  told,     \* _gossip: who told whom of which episode, at which hop
  copies,   \* episodes the receivers were given, by origin
  seen,     \* _seen_gossip
  ways      \* edges that were ever strong

vars == <<strong, origin, told, copies, seen, ways>>

Nobody == "nobody"

Init ==
  /\ strong \in SUBSET Edges /\ ways = strong
  /\ origin = [e \in Episodes |-> Nobody]
  /\ told = {} /\ copies = [e \in Episodes |-> 0] /\ seen = {}

\* record_episode
RecordEpisode(e, n) ==
  /\ origin[e] = Nobody
  /\ origin' = [origin EXCEPT ![e] = n]
  /\ UNCHANGED <<strong, told, copies, seen, ways>>

\* update_relationship: gossip_weight crosses the threshold, or not.
UpdateEdge(edge) ==
  /\ strong' = IF edge \in strong THEN strong \ {edge} ELSE strong \cup {edge}
  /\ ways' = ways \cup {edge}
  /\ UNCHANGED <<origin, told, copies, seen>>

Reliability(hop) == 10 - hop * Decrement
Carries(hop) == hop <= MaxHops /\ Reliability(hop) >= Floor

\* The queue of propagate_gossip, hop by hop: who hears it first at each hop, from one
\* of those who heard it at the hop before, and all who heard it since.  Who has heard it
\* neither hears nor passes it on again; the origin is not among them.
NextWave(e, hop, wave) ==
  LET new == {n \in Npcs \ wave.heard : /\ Carries(hop) /\ <<n, e>> \notin seen
                                        /\ \E s \in wave.new : <<s, n>> \in strong}
  IN  [new |-> new, heard |-> wave.heard \cup new]
Waves(e) ==
  LET wave[hop \in 0 .. MaxHops] ==
        IF hop = 0 THEN [new |-> {origin[e]}, heard |-> {}] ELSE NextWave(e, hop, wave[hop - 1])
  IN  wave

Event(e, hop, n) ==
  [episode |-> e, receiver |-> n, hop |-> hop, reliability |-> Reliability(hop),
   sender |-> CHOOSE s \in Waves(e)[hop - 1].new : <<s, n>> \in strong]
Events(e) == UNION {{Event(e, hop, n) : n \in Waves(e)[hop].new} : hop \in 1 .. MaxHops}

PropagateGossip(e) ==
  /\ origin[e] # Nobody
  /\ told' = told \cup Events(e)
  /\ copies' = [copies EXCEPT ![e] = @ + Cardinality(Events(e))]
  /\ seen' = seen \cup {<<g.receiver, e>> : g \in Events(e)}
  /\ UNCHANGED <<strong, origin, ways>>

Next ==
  \/ \E e \in Episodes : PropagateGossip(e) \/ \E n \in Npcs : RecordEpisode(e, n)
  \/ \E edge \in Edges : UpdateEdge(edge)

Spec == Init /\ [][Next]_vars
-----------------------------------------------------------------------------
\* However often an episode is told and the edges change, nobody is told of it twice or
\* given more copies than tellings, every telling goes back to the one it happened to,
\* one hop and one loss of reliability at a time and over edges that were strong.
GossipGoesBack ==
  /\ \A e \in Episodes : copies[e] = Cardinality({g \in told : g.episode = e})
  /\ \A g \in told :
       /\ \A o \in told : o.episode = g.episode /\ o.receiver = g.receiver => o = g
       /\ g.hop \in 1 .. MaxHops /\ g.reliability = Reliability(g.hop) /\ g.reliability >= Floor
       /\ <<g.sender, g.receiver>> \in ways
       /\ IF g.hop = 1 THEN g.sender = origin[g.episode]
          ELSE \E o \in told : o.episode = g.episode /\ o.receiver = g.sender /\ o.hop = g.hop - 1
=============================================================================
