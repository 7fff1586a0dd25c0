------------------------------ MODULE MCWorlds ------------------------------
(* More parts of MCPipeline that have theorems: relationships, worlds,         *)
(* memories, gossip, characters, clients of the API and prompts.  As in        *)
(* MCParts a behaviour runs one part, and the variables of the others are None.*)
EXTENDS MCParts

CONSTANTS
  People, Stranger,   \* characters, and the name of none
  Feeding, Axes, Fearful, AxisLimit, AxisStep, Familiar, ClampAt, MaxDeltas, MaxApplied,
  Runs, MinTurns, MaxTimeouts, Parallel, PlayedTurns,  \* of clients of the API
  Locations, Entrance, Connections, Items, Home, Post,
  Tellers, BatchSize, Extracts,  \* turns, and what each makes of the world, by kind of part
  Cast, Standing, Schedule, Routine, Idling, Boundaries, Dawn, Day, MinutesPerTick, TicksPerTurn,
  MaxSkip, MaxRequest, MaxTicks, MaxDepth, Surroundings, Factions,  \* of what characters do
  Talkers, Episodes, MaxHops, Decrement, Floor, Edges,  \* of what they tell each other
  WorkingTurns, CompressAt, Lengths, SummaryLength, Lifetimes, MaxRecords,  \* of memories
  Servers, Hyphened, Deployments, Graphs, MaxVersions  \* of the template of a prompt

ASSUME RelationsAssumption ==
  /\ {AxisLimit, AxisStep, Familiar, ClampAt} \subseteq Nat
  /\ Stranger \notin People
ASSUME WorldAssumption ==
  /\ Entrance \in Locations /\ Connections \subseteq Locations \X Locations
  /\ Home \in [Items -> Locations \cup People] /\ Post \in [People -> Locations]
  /\ Locations \cap People = {}
  /\ {"held by the player", "nowhere"} \cap (Locations \cup People) = {}
ASSUME CastAssumption ==
  /\ MaxDepth \in Int /\ Factions \cap {Cast[k] : k \in DOMAIN Cast} = {}
  /\ \A place \in Surroundings, hop \in 1 .. 3 :  \* what is critical goes no further
       <<place, hop>> \notin Factions \cup {Cast[k] : k \in DOMAIN Cast}
ASSUME GossipAssumption ==
  /\ IsFiniteSet(Talkers) /\ "nobody" \notin Talkers
  /\ MaxHops \in Nat /\ {Decrement, Floor} \subseteq Int
ASSUME MemoryAssumption == WorkingTurns \in Nat \ {0} /\ MaxRecords \in Nat
ASSUME PromptsAssumption == "nobody" \notin Servers /\ Deployments \in Nat \ {0}
ASSUME ClientsAssumption == IsFiniteSet(Runs) /\ Runs # {} /\ None \notin Runs

VARIABLES
  bonds, mirrored, feeding, overrun, applied,
  plays, clients, outcomes, ruling,
  exists, graph, fake, changing, stray,
  ticks, doing, fired, fires, dueSteps, spread,
  strong, origin, tellings, copies, seen, ways,
  remembered, noted, compressions,
  deployed, langfuse, server, unseen, meddled

Relations == INSTANCE Relationships WITH
  Npcs <- People, Unknown <- Stranger, Tasks <- Feeding, Limit <- AxisLimit, Step <- AxisStep,
  Clamp <- ClampAt, MaxChanges <- MaxDeltas, graph <- bonds, memory <- mirrored, task <- feeding

\* Agents that share a key and its game, one after the other, or scenarios.
ClientKinds == {"sharing", "agents", "scenarios"}
Clients(kind) == INSTANCE ApiClients WITH
  Scripted <- kind = "scenarios", SharedKey <- kind = "sharing",
  Parallel <- IF kind = "agents" THEN 1 ELSE Parallel, MaxTurns <- PlayedTurns,
  game <- plays, agent <- clients, result <- outcomes, verdict <- ruling

\* The batch of one turn, or the tasks of several.
WorldKinds == {"batch", "tasks"}
World(kind) == INSTANCE WorldGraph WITH
  Start <- Entrance, Npcs <- People, Unknown <- Stranger, Turns <- Tellers[kind],
  MaxChanges <- BatchSize[kind], Extracted <- Extracts[kind], task <- changing

Characters == INSTANCE NpcAutonomy WITH
  Order <- Cast, Tier <- Standing, Idle <- Idling, Places <- Surroundings,
  state <- doing, count <- fires, due <- dueSteps, result <- spread

Gossip == INSTANCE NpcMemory WITH Npcs <- Talkers, told <- tellings

Memories == INSTANCE WorldMemory WITH
  Threshold <- CompressAt, records <- remembered, recorded <- noted, due <- compressions

Bridge == INSTANCE Prompts

relationVars == <<bonds, mirrored, feeding, overrun, applied>>
clientVars == <<plays, clients, outcomes, ruling>>
graphVars == <<exists, graph, fake, changing, stray>>
castVars == <<ticks, doing, fired, fires, dueSteps, spread>>
gossipVars == <<strong, origin, tellings, copies, seen, ways>>
memoryVars == <<remembered, noted, compressions>>
promptVars == <<deployed, langfuse, server, unseen, meddled>>
worldVars ==
  <<part, relationVars, clientVars, graphVars, castVars, gossipVars, memoryVars, promptVars>>

NoRelations == bonds = None /\ mirrored = None /\ feeding = None /\ overrun = None /\ applied = None
NoClients == plays = None /\ clients = None /\ outcomes = None /\ ruling = None
NoGraph == exists = None /\ graph = None /\ fake = None /\ changing = None /\ stray = None
NoCast == ticks = None /\ doing = None /\ fired = None /\ fires = None /\ dueSteps = None /\ spread = None
NoGossip == strong = None /\ origin = None /\ tellings = None /\ copies = None /\ seen = None /\ ways = None
NoMemories == remembered = None /\ noted = None /\ compressions = None
NoPrompts == deployed = None /\ langfuse = None /\ server = None /\ unseen = None /\ meddled = None
NoWorlds ==
  NoRelations /\ NoClients /\ NoGraph /\ NoCast /\ NoGossip /\ NoMemories /\ NoPrompts

WorldParts == {"relations", "characters", "gossip", "memories", "prompts"} \cup ClientKinds \cup WorldKinds
WorldsInit ==
  /\ part \in WorldParts
  /\ IF part = "relations" THEN Relations!Init ELSE NoRelations
  /\ IF part \in ClientKinds THEN \E kind \in ClientKinds : part = kind /\ Clients(kind)!Init ELSE NoClients
  /\ IF part \in WorldKinds THEN \E kind \in WorldKinds : part = kind /\ World(kind)!Init ELSE NoGraph
  /\ IF part = "characters" THEN Characters!Init ELSE NoCast
  /\ IF part = "gossip" THEN Gossip!Init ELSE NoGossip
  /\ IF part = "memories" THEN Memories!Init ELSE NoMemories
  /\ IF part = "prompts" THEN Bridge!Init ELSE NoPrompts

WorldsStep ==
  \/ part = "relations" /\ Relations!Next
     /\ UNCHANGED <<clientVars, graphVars, castVars, gossipVars, memoryVars, promptVars>>
  \/ \E kind \in ClientKinds : part = kind /\ Clients(kind)!Next
     /\ UNCHANGED <<relationVars, graphVars, castVars, gossipVars, memoryVars, promptVars>>
  \/ \E kind \in WorldKinds : part = kind /\ World(kind)!Next
     /\ UNCHANGED <<relationVars, clientVars, castVars, gossipVars, memoryVars, promptVars>>
  \/ part = "characters" /\ Characters!Next
     /\ UNCHANGED <<relationVars, clientVars, graphVars, gossipVars, memoryVars, promptVars>>
  \/ part = "gossip" /\ Gossip!Next
     /\ UNCHANGED <<relationVars, clientVars, graphVars, castVars, memoryVars, promptVars>>
  \/ part = "memories" /\ Memories!Next
     /\ UNCHANGED <<relationVars, clientVars, graphVars, castVars, gossipVars, promptVars>>
  \/ part = "prompts" /\ Bridge!Next
     /\ UNCHANGED <<relationVars, clientVars, graphVars, castVars, gossipVars, memoryVars>>
WorldsNext == WorldsStep /\ UNCHANGED part

WorldsSpec == WorldsInit /\ [][WorldsNext]_worldVars
-----------------------------------------------------------------------------
\* See WorldGraph and Relationships: whatever turns extract, the world stays whole, what is
\* between the player and the characters is the sum of the changes made to it, and the fakes
\* of the unit tests show what the graph does.
WorldIsWhole ==
  /\ \A kind \in WorldKinds : part = kind => World(kind)!WorldIsWhole /\ World(kind)!FakeAgrees
  /\ part = "relations" => Relations!RelationshipsAgree

\* See WorldMemory, NpcMemory and NpcAutonomy: nothing recorded is lost, nothing is told
\* twice, what characters do by themselves they do once, and what happens fades as it spreads.
MemoryIsKept ==
  /\ part = "memories" => Memories!NothingIsForgotten
  /\ part = "gossip" => Gossip!GossipGoesBack
  /\ part = "characters" => Characters!OnceFiresOnce /\ Characters!SpreadFades

\* See Prompts: which version of a prompt a server renders with, and tells of.
PromptsAreLive == part = "prompts" => Bridge!CacheIsExcused /\ Bridge!SeededRendersItsOwn

\* See ApiClients: what a batch or a simulation says of its sessions is what was played.
ClientsReportTruly ==
  \A kind \in ClientKinds :
    part = kind => Clients(kind)!HearsItsOwn /\ Clients(kind)!PassIsPlayed
=============================================================================
