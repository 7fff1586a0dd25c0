------------------------------- MODULE MCParts -------------------------------
(* Parts of MCPipeline that have theorems: model calls, limits, the games of a *)
(* player, creations, dialogues, universes and consequences.  A behaviour runs *)
(* one part; the variables of the others are None.                             *)
EXTENDS Integers, Sequences, FiniteSets

CONSTANTS
  None,
  Calls, Requests, Games,         \* what overlaps, and the games of a player
  Providers, Tries, CallRetries,  \* of the tiers
  RequestLimit, Window, PatternConfig, Longest, MaxTime,
  MaxGames, AnonGames,
  MaxStarts,                      \* of a dialogue
  Keys, Seeds,                    \* of a universe
  NewChains, ShortTerm, DormantAfter, MaxChains, Late, MaxTurn, MaxCreated

ASSUME NoneAssumption ==
  None \notin Calls /\ None # "invalid" /\ \A known \in SUBSET Keys : None # known
ASSUME ProviderAssumption ==
  Len(Providers) \in Nat \ {0} /\ Tries \in Nat \ {0} /\ CallRetries \in Nat
ASSUME LimitsAssumption ==
  /\ {RequestLimit, Window, Longest} \subseteq Nat
  /\ {"rapid fire", "credential stuffing"} \subseteq DOMAIN PatternConfig
  /\ "none" \notin DOMAIN PatternConfig
  /\ PatternConfig \in [DOMAIN PatternConfig -> [threshold : Nat, window : Nat, base : Nat]]
ASSUME PlayerAssumption ==
  /\ IsFiniteSet(Games) /\ IsFiniteSet(Calls)
  /\ MaxGames \in Nat \ {0} /\ AnonGames \in Nat \ {0}
ASSUME ChainsAssumption ==
  /\ {MaxChains, MaxTurn} \subseteq Nat
  /\ NewChains \subseteq
       [entries : Seq([timescale : {"immediate", "short", "long"}, hidden : BOOLEAN]),
        important : BOOLEAN, permanent : BOOLEAN]

VARIABLES
  part,
  call, request, outrun,  \* of more than one part
  load,
  now, window, violations, cooldown, unblock, cut, overwritten, unblocked,
  anonymous, status, back,
  game, recorded, nodes, creation, clearing,
  saved, stale, starts,
  universe, playing, state, lock, inserting,
  chains, turn, pruning

Provider == INSTANCE ProviderCalls WITH Callers <- Calls, Retries <- CallRetries
Limits == INSTANCE RequestLimits WITH Limit <- RequestLimit
Player == INSTANCE GameLimit WITH Requests <- Calls
Creation == INSTANCE GenesisLite WITH row <- game, world <- nodes
Dialogue == INSTANCE GenesisV2 WITH row <- saved
Multiverse == INSTANCE Universe WITH session <- playing
Chains == INSTANCE Consequences

windowVars == <<now, window, violations, cooldown, unblock, cut, overwritten, unblocked>>
gameVars == <<anonymous, status, back>>
creationVars == <<game, recorded, nodes, creation, clearing>>
dialogueVars == <<saved, stale, starts>>
universeVars == <<universe, playing, state, lock, inserting>>
chainVars == <<chains, turn, pruning>>
partVars ==
  <<part, call, request, outrun, load, windowVars, gameVars, creationVars, dialogueVars,
    universeVars, chainVars>>

NoWindows == /\ now = None /\ window = None /\ violations = None /\ cooldown = None
             /\ unblock = None /\ cut = None /\ overwritten = None /\ unblocked = None
NoGames == anonymous = None /\ status = None /\ back = None
NoCreation == game = None /\ recorded = None /\ nodes = None /\ creation = None /\ clearing = None
NoDialogue == saved = None /\ stale = None /\ starts = None
NoUniverse ==
  universe = None /\ playing = None /\ state = None /\ lock = None /\ inserting = None
NoChains == chains = None /\ turn = None /\ pruning = None
NoCalls == call = None /\ load = None /\ NoDialogue /\ NoUniverse
NoRequests == request = None /\ NoWindows /\ NoGames
NoParts == NoCalls /\ NoRequests /\ outrun = None /\ NoCreation /\ NoChains

PartsInit ==
  \/ /\ part = "calls" /\ Provider!Init
     /\ NoDialogue /\ NoUniverse /\ NoRequests /\ outrun = None /\ NoCreation /\ NoChains
  \/ /\ part = "limits" /\ Limits!Init
     /\ NoCalls /\ NoGames /\ NoCreation /\ NoChains
  \/ /\ part = "player" /\ Player!Init
     /\ NoCalls /\ NoWindows /\ outrun = None /\ NoCreation /\ NoChains
  \/ /\ part = "creation" /\ Creation!Init
     /\ NoCalls /\ NoRequests /\ NoChains
  \/ /\ part = "dialogue" /\ Dialogue!Init
     /\ load = None /\ NoUniverse /\ NoRequests /\ outrun = None /\ NoCreation /\ NoChains
  \/ /\ part = "universe" /\ Multiverse!Init
     /\ load = None /\ NoDialogue /\ NoRequests /\ outrun = None /\ NoCreation /\ NoChains
  \/ /\ part = "chains" /\ Chains!Init
     /\ NoCalls /\ NoRequests /\ outrun = None /\ NoCreation

PartsStep ==
  \/ /\ part = "calls" /\ Provider!Next
     /\ UNCHANGED <<request, outrun, windowVars, gameVars, creationVars, dialogueVars,
                    universeVars, chainVars>>
  \/ /\ part = "limits" /\ Limits!Next
     /\ UNCHANGED <<call, load, gameVars, creationVars, dialogueVars, universeVars,
                    chainVars>>
  \/ /\ part = "player" /\ Player!Next
     /\ UNCHANGED <<call, outrun, load, windowVars, creationVars, dialogueVars,
                    universeVars, chainVars>>
  \/ /\ part = "creation" /\ Creation!Next
     /\ UNCHANGED <<call, request, load, windowVars, gameVars, dialogueVars,
                    universeVars, chainVars>>
  \/ /\ part = "dialogue" /\ Dialogue!Next
     /\ UNCHANGED <<request, outrun, load, windowVars, gameVars, creationVars,
                    universeVars, chainVars>>
  \/ /\ part = "universe" /\ Multiverse!Next
     /\ UNCHANGED <<request, outrun, load, windowVars, gameVars, creationVars,
                    dialogueVars, chainVars>>
  \/ /\ part = "chains" /\ Chains!Next
     /\ UNCHANGED <<call, request, outrun, load, windowVars, gameVars, creationVars,
                    dialogueVars, universeVars>>
PartsNext == PartsStep /\ UNCHANGED part

PartsSpec == PartsInit /\ [][PartsNext]_partVars
-----------------------------------------------------------------------------
\* See ProviderCalls: nothing is left untried before the last resort.
GivesUpLast == part = "calls" => Provider!TypeOK /\ Provider!GivesUpLast

\* See RequestLimits and GameLimit: neither a limit nor a punishment is lost in an overlap,
\* but for the requests that make it.
LimitsHold ==
  /\ part = "limits" => Limits!WindowIsKept /\ Limits!BlockIsNotMissed
  /\ part = "player" => Player!LimitIsNearlyKept

\* See GenesisLite and GenesisV2: what was begun is what was said to be.
GenesisIsSound ==
  /\ part = "creation" => Creation!GenesisIsHonest
  /\ part = "dialogue" => Dialogue!SavedIsCoherent

\* See GenesisV2, Universe and Consequences: calls that overlap do and undo one another
\* only as they may, what is over stays over and what matters is kept.
WhatIsSettledStays ==
  [][/\ part = "dialogue" => Dialogue!OnlyOvertakenLose
     /\ part = "universe" => Multiverse!UniverseSettles
     /\ part = "chains" => Chains!WhatIsDoneStaysDone /\ Chains!PruningKeepsTheBest]_partVars
=============================================================================
