---------------------------- MODULE PartsProofs ----------------------------
(* What MCPipeline checks of the parts of MCParts on small instances, for every    *)
(* value of the constants that the assumptions of MCParts allow.                   *)
EXTENDS MCParts, FiniteSetTheorems, SequenceTheorems, TLAPS

-----------------------------------------------------------------------------
(* The games of a player                                                      *)

Statuses == {"none", "live", "paused", "expired", "over"}
RequestState ==
  [pc : {"idle", "counting", "inserting"}]
    \cup [pc : {"writing"}, game : Games, to : Statuses \ {"none"}]

PlayerType ==
  /\ anonymous \in BOOLEAN
  /\ status \in [Games -> Statuses]
  /\ request \in [Calls -> RequestState]
  /\ back \in [Games -> {"no", "paused", "uncounted"}]

\* A creation that has passed a count takes a place as long as it has not ended: the games
\* it has still to add are counted with those there are.
Counted == {g \in Player!Active : back[g] # "uncounted"}
Inserting == {r \in Calls : request[r].pc = "inserting"}
CountedInv == Cardinality(Counted) + Cardinality(Inserting) < MaxGames + Cardinality(Calls)

Fresh == {g \in Player!Live : back[g] = "no"}
Creating == {r \in Calls : request[r].pc \in {"counting", "inserting"}}
FreshInv ==
  anonymous => Cardinality(Fresh) + Cardinality(Creating) < AnonGames + Cardinality(Calls)

PlayerInv == PlayerType /\ CountedInv /\ FreshInv

\* GameLimit counts as this module does.
LEMMA SameSizes == \A S : Player!Cardinality(S) = Cardinality(S)
BY DEF Player!Cardinality, Cardinality

\* Nothing is counted more than once, and everything that is counted is finite.
LEMMA Sizes ==
  /\ \A S \in SUBSET Games : IsFiniteSet(S) /\ Cardinality(S) \in Nat
  /\ \A S, T \in SUBSET Games : S \subseteq T => Cardinality(S) <= Cardinality(T)
  /\ \A S \in SUBSET Games, g \in Games : Cardinality(S \cup {g}) <= Cardinality(S) + 1
  /\ \A S \in SUBSET Calls : IsFiniteSet(S) /\ Cardinality(S) \in 0 .. Cardinality(Calls)
  /\ \A S, T \in SUBSET Calls : S \subseteq T => Cardinality(S) <= Cardinality(T)
  /\ \A S \in SUBSET Calls : \A r \in S : Cardinality(S \ {r}) = Cardinality(S) - 1
<1> USE PlayerAssumption
<1>1. \A S \in SUBSET Games : IsFiniteSet(S) /\ Cardinality(S) \in Nat
  BY FS_Subset, FS_CardinalityType
<1>2. \A S, T \in SUBSET Games : S \subseteq T => Cardinality(S) <= Cardinality(T)
  BY <1>1, FS_Subset
<1>3. ASSUME NEW S \in SUBSET Games, NEW g \in Games
      PROVE  Cardinality(S \cup {g}) <= Cardinality(S) + 1
  <2>1. IsFiniteSet(S) /\ Cardinality(S) \in Nat
    BY <1>1
  <2>2. Cardinality(S \cup {g}) = IF g \in S THEN Cardinality(S) ELSE Cardinality(S) + 1
    BY <2>1, FS_AddElement
  <2> QED BY <2>1, <2>2
<1>4. \A S \in SUBSET Calls : IsFiniteSet(S) /\ Cardinality(S) \in Nat
  BY FS_Subset, FS_CardinalityType
<1>5. \A S, T \in SUBSET Calls : S \subseteq T => Cardinality(S) <= Cardinality(T)
  BY <1>4, FS_Subset
<1>6. ASSUME NEW S \in SUBSET Calls PROVE Cardinality(S) \in 0 .. Cardinality(Calls)
  <2>1. Cardinality(S) \in Nat /\ Cardinality(Calls) \in Nat
    BY <1>4
  <2>2. Cardinality(S) <= Cardinality(Calls)
    BY <1>5
  <2> QED BY <2>1, <2>2
<1>7. ASSUME NEW S \in SUBSET Calls, NEW r \in S
      PROVE  Cardinality(S \ {r}) = Cardinality(S) - 1
  <2>1. IsFiniteSet(S)
    BY <1>4
  <2> QED BY <2>1, FS_RemoveElement
<1> QED BY <1>1, <1>2, <1>3, <1>4, <1>5, <1>6, <1>7

LEMMA PlayerInit == ASSUME Player!Init PROVE PlayerInv
<1>1. PlayerType
  BY DEF PlayerType, Player!Init, Player!Idle, Statuses, RequestState
<1>2. Counted = {} /\ Fresh = {} /\ Inserting = {} /\ Creating = {}
  BY DEF Player!Init, Player!Idle, Counted, Fresh, Inserting, Creating,
         Player!Active, Player!Live, Player!Having
<1>3. Cardinality(Calls) \in Nat /\ Cardinality({}) = 0
  BY FS_CardinalityType, FS_EmptySet, PlayerAssumption
<1> QED BY <1>1, <1>2, <1>3, PlayerAssumption DEF PlayerInv, CountedInv, FreshInv

LEMMA PlayerTypeStep == ASSUME PlayerType, Player!Next PROVE PlayerType'
<1> USE DEF PlayerType
<1>i. /\ \A pc \in {"idle", "counting", "inserting"} : [pc |-> pc] \in RequestState
      /\ \A g \in Games, to \in Statuses \ {"none"} : Player!Writing(g, to) \in RequestState
      /\ Player!Idle \in RequestState
      /\ \A q \in RequestState : q.pc = "writing" => q.game \in Games /\ q.to \in Statuses
  BY DEF RequestState, Player!Writing, Player!Idle
<1>1. CASE Player!UpgradeAnonymous
  BY <1>1 DEF Player!UpgradeAnonymous
<1>2. ASSUME NEW r \in Calls, Player!RequireAnonymousGameLimit(r) PROVE PlayerType'
  BY <1>i, <1>2 DEF Player!RequireAnonymousGameLimit, Player!Goto
<1>3. ASSUME NEW r \in Calls, Player!CountActiveGames(r) PROVE PlayerType'
  BY <1>i, <1>3 DEF Player!CountActiveGames, Player!Goto
<1>4. ASSUME NEW r \in Calls, Player!InsertGame(r) PROVE PlayerType'
  BY <1>i, <1>4 DEF Player!InsertGame, Player!Goto, Statuses
<1>5. ASSUME NEW r \in Calls, Player!WriteGame(r) PROVE PlayerType'
  <2>1. request[r].game \in Games /\ request[r].to \in Statuses
    BY <1>i, <1>5 DEF Player!WriteGame
  <2>2. Player!Back(request[r].game, request[r].to) \in {"no", "paused", "uncounted"}
    BY <2>1 DEF Player!Back
  <2> QED BY <1>i, <1>5, <2>1, <2>2 DEF Player!WriteGame, Player!Become, Player!Goto
<1>6. ASSUME NEW r \in Calls, NEW g \in Games,
             NEW to \in {"live", "paused", "expired", "over"}, Player!ReadGame(r, g, to)
      PROVE  PlayerType'
  <2>1. Player!Writing(g, to) \in RequestState
    BY <1>i DEF Statuses
  <2> QED BY <1>6, <2>1 DEF Player!ReadGame, Player!Goto
<1>7. ASSUME NEW g \in Games, NEW from, NEW to \in Statuses, Player!Leave(g, from, to)
      PROVE  PlayerType'
  BY <1>7 DEF Player!Leave
<1> QED
  BY <1>1, <1>2, <1>3, <1>4, <1>5, <1>6, <1>7
  DEF Player!Next, Player!PauseIdleGame, Player!ExpireGame, Player!EndGame, Player!DeleteGame, Statuses

\* What has been checked with a count leaves the count true, whatever was read before.
LEMMA PlayerStep == ASSUME PlayerInv, [Player!Next]_(Player!vars) PROVE PlayerInv'
<1> DEFINE Max == MaxGames + Cardinality(Calls)
           Anon == AnonGames + Cardinality(Calls)
<1>0. /\ PlayerType /\ CountedInv /\ FreshInv
      /\ MaxGames \in Nat /\ AnonGames \in Nat /\ Cardinality(Calls) \in Nat
  BY FS_CardinalityType, PlayerAssumption DEF PlayerInv
<1>s. /\ Counted \in SUBSET Games /\ Counted' \in SUBSET Games
      /\ Fresh \in SUBSET Games /\ Fresh' \in SUBSET Games
      /\ Player!Active \in SUBSET Games /\ Player!Live \in SUBSET Games
      /\ Inserting \in SUBSET Calls /\ Inserting' \in SUBSET Calls
      /\ Creating \in SUBSET Calls /\ Creating' \in SUBSET Calls
  BY DEF Counted, Fresh, Inserting, Creating, Player!Active, Player!Live, Player!Having
<1>n. /\ Cardinality(Counted) \in Nat /\ Cardinality(Counted') \in Nat
      /\ Cardinality(Fresh) \in Nat /\ Cardinality(Fresh') \in Nat
      /\ Cardinality(Inserting) \in 0 .. Cardinality(Calls)
      /\ Cardinality(Inserting') \in 0 .. Cardinality(Calls)
      /\ Cardinality(Creating) \in 0 .. Cardinality(Calls)
      /\ Cardinality(Creating') \in 0 .. Cardinality(Calls)
  BY <1>s, Sizes
\* Neither more games nor more creations.
<1>c. Counted' \subseteq Counted /\ Inserting' \subseteq Inserting => CountedInv'
  <2> SUFFICES ASSUME Counted' \subseteq Counted, Inserting' \subseteq Inserting
               PROVE  CountedInv'
    OBVIOUS
  <2>1. /\ Cardinality(Counted') <= Cardinality(Counted)
        /\ Cardinality(Inserting') <= Cardinality(Inserting)
    BY <1>s, Sizes
  <2> QED BY <1>0, <1>n, <2>1 DEF CountedInv
<1>f. Fresh' \subseteq Fresh /\ Creating' \subseteq Creating /\ (anonymous' => anonymous) => FreshInv'
  <2> SUFFICES ASSUME Fresh' \subseteq Fresh, Creating' \subseteq Creating,
                      anonymous' => anonymous, anonymous'
               PROVE  Cardinality(Fresh') + Cardinality(Creating') < Anon
    BY DEF FreshInv
  <2>1. /\ Cardinality(Fresh') <= Cardinality(Fresh)
        /\ Cardinality(Creating') <= Cardinality(Creating)
    BY <1>s, Sizes
  <2>2. Cardinality(Fresh) + Cardinality(Creating) < Anon
    BY <1>0 DEF FreshInv
  <2> QED BY <1>0, <1>n, <2>1, <2>2
<1>k. ASSUME UNCHANGED <<status, back>>
      PROVE  Counted' = Counted /\ Fresh' = Fresh
  BY <1>k DEF Counted, Fresh, Player!Active, Player!Live, Player!Having
<1>q. ASSUME UNCHANGED request
      PROVE  Inserting' = Inserting /\ Creating' = Creating
  BY <1>q DEF Inserting, Creating
\* A game leaves what is live, or what is live or paused.
<1>l. ASSUME NEW g \in Games, NEW from, NEW to \in {"none", "paused", "expired", "over"},
             to = "paused" => from = {"live"}, Player!Leave(g, from, to)
      PROVE  CountedInv' /\ FreshInv'
  <2>1. Counted' \subseteq Counted /\ Fresh' \subseteq Fresh
    BY <1>0, <1>l
    DEF Player!Leave, Counted, Fresh, Player!Active, Player!Live, Player!Having, PlayerType
  <2> QED BY <1>c, <1>f, <1>l, <1>q, <2>1 DEF Player!Leave
<1>1. CASE UNCHANGED Player!vars
  <2>1. PlayerType'
    BY <1>0, <1>1 DEF PlayerType, Player!vars
  <2> QED BY <1>1, <1>c, <1>f, <1>k, <1>q, <2>1 DEF Player!vars, PlayerInv
<1>2. ASSUME Player!UpgradeAnonymous PROVE CountedInv' /\ FreshInv'
  <2>1. ~anonymous' /\ UNCHANGED <<status, request, back>>
    BY <1>2 DEF Player!UpgradeAnonymous
  <2>2. FreshInv'
    BY <2>1 DEF FreshInv
  <2> QED BY <1>c, <1>k, <1>q, <2>1, <2>2
<1>3. ASSUME NEW r \in Calls, Player!RequireAnonymousGameLimit(r)
      PROVE  CountedInv' /\ FreshInv'
  <2>1. Counted' = Counted /\ Fresh' = Fresh /\ (anonymous' => anonymous)
    BY <1>3, <1>k DEF Player!RequireAnonymousGameLimit
  <2>2. Inserting' \subseteq Inserting
    BY <1>0, <1>3 DEF Player!RequireAnonymousGameLimit, Player!Goto, Inserting, PlayerType
  <2>3. ASSUME anonymous PROVE Cardinality(Fresh) < AnonGames
    <3>1. Cardinality(Player!Live) < AnonGames
      BY <1>3, <2>3, SameSizes DEF Player!RequireAnonymousGameLimit
    <3>2. Fresh \subseteq Player!Live
      BY DEF Fresh
    <3>3. Cardinality(Player!Live) \in Nat /\ Cardinality(Fresh) <= Cardinality(Player!Live)
      BY <1>s, <3>2, Sizes
    <3> QED BY <1>0, <1>n, <3>1, <3>3
  <2> QED BY <1>0, <1>c, <1>n, <2>1, <2>2, <2>3 DEF FreshInv
<1>4. ASSUME NEW r \in Calls, Player!CountActiveGames(r)
      PROVE  CountedInv' /\ FreshInv'
  <2>1. Counted' = Counted /\ Fresh' = Fresh /\ (anonymous' => anonymous)
    BY <1>4, <1>k DEF Player!CountActiveGames
  <2>2. Creating' \subseteq Creating
    BY <1>0, <1>4 DEF Player!CountActiveGames, Player!Goto, Player!Idle, Creating, PlayerType
  <2>3. CASE Cardinality(Player!Active) < MaxGames
    <3>1. Counted \subseteq Player!Active
      BY DEF Counted
    <3>2. Cardinality(Player!Active) \in Nat /\ Cardinality(Counted) <= Cardinality(Player!Active)
      BY <1>s, <3>1, Sizes
    <3>3. Cardinality(Counted') < MaxGames
      BY <1>0, <1>n, <2>1, <2>3, <3>2
    <3>4. CountedInv'
      BY <1>0, <1>n, <3>3 DEF CountedInv
    <3> QED BY <1>f, <2>1, <2>2, <3>4
  <2>4. CASE ~(Cardinality(Player!Active) < MaxGames)
    <3>1. Inserting' \subseteq Inserting
      <4>1. request' = [request EXCEPT ![r] = Player!Idle]
        BY <1>4, <2>4, SameSizes DEF Player!CountActiveGames, Player!Goto
      <4> QED BY <1>0, <4>1 DEF Player!Idle, Inserting, PlayerType
    <3> QED BY <1>c, <1>f, <2>1, <2>2, <3>1
  <2> QED BY <2>3, <2>4
<1>5. ASSUME NEW r \in Calls, Player!InsertGame(r)
      PROVE  CountedInv' /\ FreshInv'
  <2>1. PICK g \in Player!Free : status' = [status EXCEPT ![g] = "live"]
    BY <1>5 DEF Player!InsertGame
  <2>2. g \in Games /\ Counted' \subseteq Counted \cup {g} /\ Fresh' \subseteq Fresh \cup {g}
    BY <1>0, <1>5, <2>1
    DEF Player!InsertGame, Player!Free, Counted, Fresh, Player!Active, Player!Live, Player!Having,
        PlayerType
  <2>3. /\ r \in Inserting /\ Inserting' = Inserting \ {r}
        /\ r \in Creating /\ Creating' = Creating \ {r}
    BY <1>0, <1>5 DEF Player!InsertGame, Player!Goto, Player!Idle, Inserting, Creating, PlayerType
  <2>4. Counted \cup {g} \in SUBSET Games /\ Fresh \cup {g} \in SUBSET Games
    BY <1>s, <2>2
  <2>5. /\ Cardinality(Counted') <= Cardinality(Counted) + 1
        /\ Cardinality(Fresh') <= Cardinality(Fresh) + 1
    <3>1. /\ Cardinality(Counted') <= Cardinality(Counted \cup {g})
          /\ Cardinality(Fresh') <= Cardinality(Fresh \cup {g})
          /\ Cardinality(Counted \cup {g}) \in Nat /\ Cardinality(Fresh \cup {g}) \in Nat
      BY <1>s, <2>2, <2>4, Sizes
    <3>2. /\ Cardinality(Counted \cup {g}) <= Cardinality(Counted) + 1
          /\ Cardinality(Fresh \cup {g}) <= Cardinality(Fresh) + 1
      BY <1>s, <2>2, Sizes
    <3> QED BY <1>n, <3>1, <3>2
  <2>6. /\ Cardinality(Inserting') = Cardinality(Inserting) - 1
        /\ Cardinality(Creating') = Cardinality(Creating) - 1
    BY <1>s, <2>3, Sizes
  <2>7. CountedInv'
    BY <1>0, <1>n, <2>5, <2>6 DEF CountedInv
  <2>8. anonymous' = anonymous
    BY <1>5 DEF Player!InsertGame
  <2>9. FreshInv'
    BY <1>0, <1>n, <2>5, <2>6, <2>8 DEF FreshInv
  <2> QED BY <2>7, <2>9
<1>6. ASSUME NEW r \in Calls, Player!WriteGame(r)
      PROVE  CountedInv' /\ FreshInv'
  <2> DEFINE g == request[r].game
             to == request[r].to
  <2>1. g \in Games /\ to \in Statuses \ {"none"}
    BY <1>0, <1>6 DEF Player!WriteGame, PlayerType, RequestState
  <2>2. Player!Become(g, to) /\ (anonymous' => anonymous)
    BY <1>6 DEF Player!WriteGame
  <2>3. Inserting' \subseteq Inserting /\ Creating' \subseteq Creating
    BY <1>0, <1>6 DEF Player!WriteGame, Player!Goto, Player!Idle, Inserting, Creating, PlayerType
  <2> HIDE DEF g, to
  <2>4. CASE status[g] = "none"
    BY <1>c, <1>f, <1>k, <2>2, <2>3, <2>4 DEF Player!Become
  <2>5. CASE status[g] # "none"
    <3>1. /\ status' = [status EXCEPT ![g] = to]
          /\ back' = [back EXCEPT ![g] = Player!Back(g, to)]
      BY <2>2, <2>5 DEF Player!Become
    <3>2. \A h \in Games \ {g} : status'[h] = status[h] /\ back'[h] = back[h]
      BY <1>0, <3>1 DEF PlayerType
    <3>3. status'[g] = to /\ back'[g] = Player!Back(g, to)
      BY <1>0, <2>1, <3>1 DEF PlayerType
    <3>4. status[g] \in Statuses \ {"none"} /\ back[g] \in {"no", "paused", "uncounted"}
      BY <1>0, <2>1, <2>5 DEF PlayerType
    <3>5. g \in Counted' => g \in Counted
      BY <2>1, <3>3, <3>4
      DEF Counted, Player!Active, Player!Having, Player!Back, Statuses
    <3>6. g \in Fresh' => g \in Fresh
      BY <2>1, <3>3, <3>4
      DEF Fresh, Player!Live, Player!Having, Player!Back, Statuses
    <3>7. Counted' \subseteq Counted /\ Fresh' \subseteq Fresh
      BY <3>2, <3>5, <3>6 DEF Counted, Fresh, Player!Active, Player!Live, Player!Having
    <3> QED BY <1>c, <1>f, <2>2, <2>3, <3>7
  <2> QED BY <2>4, <2>5
<1>7. ASSUME NEW r \in Calls, NEW g \in Games,
             NEW to \in {"live", "paused", "expired", "over"}, Player!ReadGame(r, g, to)
      PROVE  CountedInv' /\ FreshInv'
  <2>1. Inserting' \subseteq Inserting /\ Creating' \subseteq Creating
    BY <1>0, <1>7
    DEF Player!ReadGame, Player!Goto, Player!Writing, Inserting, Creating, PlayerType
  <2> QED BY <1>7, <1>c, <1>f, <1>k, <2>1 DEF Player!ReadGame
<1>8. CASE Player!Next
  <2>1. PlayerType'
    BY <1>0, <1>8, PlayerTypeStep
  <2>2. ASSUME NEW g \in Games,
               \/ Player!PauseIdleGame(g) \/ Player!ExpireGame(g)
               \/ Player!EndGame(g) \/ Player!DeleteGame(g)
        PROVE  CountedInv' /\ FreshInv'
    BY <1>l, <2>2
    DEF Player!PauseIdleGame, Player!ExpireGame, Player!EndGame, Player!DeleteGame
  <2>3. CountedInv' /\ FreshInv'
    BY <1>2, <1>3, <1>4, <1>5, <1>6, <1>7, <1>8, <2>2, Zenon DEF Player!Next
  <2> QED BY <2>1, <2>3 DEF PlayerInv
<1> QED BY <1>1, <1>8

LEMMA PlayerIsKept ==
  ASSUME PlayerInv
  PROVE  Player!LimitIsNearlyKept
<1>1. /\ Counted \in SUBSET Games /\ Fresh \in SUBSET Games
      /\ Inserting \in SUBSET Calls /\ Creating \in SUBSET Calls
  BY DEF Counted, Fresh, Inserting, Creating, Player!Active, Player!Live, Player!Having
<1>2. /\ Cardinality(Counted) \in Nat /\ Cardinality(Fresh) \in Nat
      /\ Cardinality(Inserting) \in 0 .. Cardinality(Calls)
      /\ Cardinality(Creating) \in 0 .. Cardinality(Calls)
      /\ Cardinality(Calls) \in Nat
  BY <1>1, Sizes
<1>3. Cardinality(Counted) < MaxGames + Cardinality(Calls)
  BY <1>2, PlayerAssumption DEF PlayerInv, CountedInv
<1>4. anonymous => Cardinality(Fresh) < AnonGames + Cardinality(Calls)
  BY <1>2, PlayerAssumption DEF PlayerInv, FreshInv
<1>5. /\ Counted = {g \in Player!Active : back[g] # "uncounted"}
      /\ Fresh = {g \in Player!Live : back[g] = "no"}
  BY DEF Counted, Fresh
<1> QED BY <1>3, <1>4, <1>5, SameSizes DEF Player!LimitIsNearlyKept

-----------------------------------------------------------------------------
(* The transactions on a universe                                             *)

Rows == [status : {"dormant", "active", "paused", "archived"}, config : Multiverse!Config]
Places == {"idle", "locked", "written", "inserted", "updated"}
Transactions == [pc : Places, row : Rows \cup {None}, fields : SUBSET Keys]

\* Whoever has locked the row has the lock, and will commit what the row allows next.
Continues(t, row) ==
  /\ t.pc = "locked" => t.row = row
  /\ t.pc = "written" => /\ t.row \in Rows /\ t.row.config = row.config
                         /\ <<row.status, t.row.status>> \in Multiverse!Transitions

UniverseInv ==
  /\ universe \in Rows
  /\ state \in (SUBSET Keys) \cup {None}
  /\ call \in [Calls -> Transactions]
  /\ \A c \in Calls :
       call[c].pc \in {"locked", "written"}
         => lock = c /\ Continues(call[c], universe)

LEMMA UniverseInit == ASSUME Multiverse!Init PROVE UniverseInv
<1>1. universe \in Rows
  BY DEF Multiverse!Init, Rows
<1>2. Multiverse!Idle \in Transactions /\ Multiverse!Idle.pc = "idle"
  BY DEF Multiverse!Idle, Transactions, Places
<1>3. call = [c \in Calls |-> Multiverse!Idle] /\ state = None
  BY DEF Multiverse!Init
<1>4. /\ call \in [Calls -> Transactions]
      /\ \A c \in Calls : call[c].pc \notin {"locked", "written"}
  BY <1>2, <1>3
<1>5. state \in (SUBSET Keys) \cup {None}
  BY <1>3
<1> QED BY <1>1, <1>4, <1>5 DEF UniverseInv

\* One call goes on: it changes the row and the lock only if the lock is its own,
\* but for a lock that is free.
LEMMA TransactionMoves ==
  ASSUME UniverseInv, NEW c \in Calls, NEW t \in Transactions,
         call' = [call EXCEPT ![c] = t],
         lock' # lock => lock \in {c, None}, universe' # universe => lock = c,
         universe' \in Rows, state' \in (SUBSET Keys) \cup {None},
         t.pc \in {"locked", "written"} => lock' = c /\ Continues(t, universe')
  PROVE  UniverseInv'
<1>0. call \in [Calls -> Transactions] /\ None \notin Calls
  BY NoneAssumption DEF UniverseInv
<1>1. call' \in [Calls -> Transactions]
  BY <1>0
<1>2. ASSUME NEW d \in Calls, call'[d].pc \in {"locked", "written"}
      PROVE  lock' = d /\ Continues(call'[d], universe')
  <2>1. CASE d = c
    BY <1>0, <1>2, <2>1
  <2>2. CASE d # c
    <3>1. call'[d] = call[d]
      BY <1>0, <2>2
    <3>2. lock = d /\ Continues(call[d], universe)
      BY <1>2, <3>1 DEF UniverseInv
    <3>3. lock' = lock /\ universe' = universe
      BY <1>0, <2>2, <3>2
    <3> QED BY <3>1, <3>2, <3>3
  <2> QED BY <2>1, <2>2
<1> QED BY <1>1, <1>2 DEF UniverseInv

LEMMA UniverseStep ==
  ASSUME UniverseInv, Multiverse!Next
  PROVE  UniverseInv' /\ Multiverse!UniverseSettles
<1> DEFINE Free == Multiverse!Idle
           Moves(c, t) == call' = [call EXCEPT ![c] = t]
           Settled == UNCHANGED <<universe, state>>
<1>0. /\ universe \in Rows /\ call \in [Calls -> Transactions]
      /\ state \in (SUBSET Keys) \cup {None}
      /\ None \notin SUBSET Keys /\ None # "invalid"
      /\ \A c \in Calls :
           /\ call[c] \in Transactions
           /\ call[c].pc \in {"locked", "written"}
                => lock = c /\ Continues(call[c], universe)
  BY NoneAssumption DEF UniverseInv
<1>i. Free \in Transactions /\ Free.pc = "idle"
  BY DEF Multiverse!Idle, Transactions, Places
<1>r. \A r \in Rows : r.config \in Multiverse!Config /\ r.status \in {"dormant", "active", "paused", "archived"}
  BY DEF Rows
\* Where nothing is committed, nothing is undone.
<1>s. Settled => Multiverse!UniverseSettles
  BY DEF Multiverse!UniverseSettles
\* The end of a call.
<1>e. ASSUME NEW c \in Calls, Multiverse!Release(c), universe' # universe => lock = c,
             universe' \in Rows, state' \in (SUBSET Keys) \cup {None}
      PROVE  UniverseInv'
  <2>1. Moves(c, Free) /\ (lock' # lock => lock = c)
    BY <1>e DEF Multiverse!Release
  <2> QED BY <1>e, <1>i, <2>1, TransactionMoves
\* A new config of the row that is locked.
<1>w. ASSUME NEW c \in Calls, call[c].pc = "locked", Multiverse!Release(c), state' = state,
             NEW config \in Multiverse!Config, universe' = [universe EXCEPT !.config = config],
             universe.config.seed # None => config.seed = universe.config.seed,
             universe.config.keys \subseteq config.keys,
             config.composition = "invalid" => universe.config.composition = "invalid"
      PROVE  UniverseInv' /\ Multiverse!UniverseSettles
  <2>1. lock = c
    BY <1>0, <1>w
  <2>2. universe' \in Rows /\ universe'.config = config /\ universe'.status = universe.status
    BY <1>0, <1>w DEF Rows
  <2>3. UniverseInv'
    BY <1>0, <1>e, <1>w, <2>1, <2>2
  <2>4. Multiverse!UniverseSettles
    BY <1>w, <2>2 DEF Multiverse!UniverseSettles
  <2> QED BY <2>3, <2>4
<1> HIDE DEF Free, Moves, Settled
<1>1. ASSUME NEW c \in Calls, Multiverse!LockRow(c)
      PROVE  UniverseInv' /\ Multiverse!UniverseSettles
  <2> DEFINE t == [pc |-> "locked", row |-> universe, fields |-> {}]
  <2>1. t \in Transactions /\ t.pc = "locked" /\ t.row = universe
    BY <1>0 DEF Transactions, Places
  <2>2. call' = [call EXCEPT ![c] = t] /\ lock = None /\ lock' = c /\ Settled
    BY <1>1 DEF Multiverse!LockRow, Settled
  <2>3. Continues(t, universe')
    BY <2>1, <2>2 DEF Continues, Settled
  <2> HIDE DEF t
  <2> QED BY <1>0, <1>s, <2>1, <2>2, <2>3, TransactionMoves DEF Settled
<1>2. ASSUME NEW c \in Calls, Multiverse!Rollback(c)
      PROVE  UniverseInv' /\ Multiverse!UniverseSettles
  BY <1>0, <1>2, <1>e, <1>s DEF Multiverse!Rollback, Settled
<1>3. ASSUME NEW c \in Calls, NEW to \in {"active", "paused", "archived"}, Multiverse!SetStatus(c, to)
      PROVE  UniverseInv' /\ Multiverse!UniverseSettles
  <2> DEFINE t == [call[c] EXCEPT !.pc = "written", !.row.status = to]
  <2>1. /\ call[c].pc = "locked" /\ call[c].row = universe /\ lock = c
        /\ <<universe.status, to>> \in Multiverse!Transitions
        /\ call' = [call EXCEPT ![c] = t] /\ lock' = lock /\ Settled
    BY <1>0, <1>3 DEF Multiverse!SetStatus, Continues, Settled
  <2>2. /\ t \in Transactions /\ t.pc = "written" /\ t.row \in Rows
        /\ t.row.status = to /\ t.row.config = universe.config
    BY <1>0, <2>1 DEF Transactions, Places, Rows
  <2> HIDE DEF t
  <2>3. Continues(t, universe')
    BY <2>1, <2>2 DEF Continues, Settled
  <2> QED BY <1>0, <1>s, <2>1, <2>2, <2>3, TransactionMoves DEF Settled
<1>4. ASSUME NEW c \in Calls, Multiverse!Commit(c)
      PROVE  UniverseInv' /\ Multiverse!UniverseSettles
  <2>1. /\ lock = c /\ universe' \in Rows /\ universe'.config = universe.config
        /\ <<universe.status, universe'.status>> \in Multiverse!Transitions
    BY <1>0, <1>4 DEF Multiverse!Commit, Continues
  <2>2. Multiverse!Release(c) /\ state' = state
    BY <1>4 DEF Multiverse!Commit
  <2> QED BY <1>0, <1>e, <2>1, <2>2 DEF Multiverse!UniverseSettles
<1>5. ASSUME NEW c \in Calls, NEW patch \in Multiverse!Patches, Multiverse!PatchConfig(c, patch)
      PROVE  UniverseInv' /\ Multiverse!UniverseSettles
  <2> DEFINE config == Multiverse!Merged(universe.config, patch)
  <2>1. call[c].pc = "locked" /\ call[c].row = universe
    BY <1>0, <1>5 DEF Multiverse!PatchConfig, Continues
  <2>2. /\ patch.seed # None => universe.config.seed = None
        /\ patch.composition # "invalid"
        /\ universe' = [universe EXCEPT !.config = config] /\ state' = state
        /\ Multiverse!Release(c)
    BY <1>5, <2>1 DEF Multiverse!PatchConfig, Multiverse!Validates
  <2>3. universe.config \in Multiverse!Config
    BY <1>0, <1>r
  <2>4. /\ config \in Multiverse!Config /\ universe.config.keys \subseteq config.keys
        /\ universe.config.seed # None => config.seed = universe.config.seed
        /\ config.composition = "invalid" => universe.config.composition = "invalid"
    BY <1>0, <2>2, <2>3
    DEF Multiverse!Merged, Multiverse!Config, Multiverse!Patches, Multiverse!Compositions
  <2> HIDE DEF config
  <2> QED BY <1>w, <2>1, <2>2, <2>4
<1>6. ASSUME NEW c \in Calls, Multiverse!EnsureSeed(c)
      PROVE  UniverseInv' /\ Multiverse!UniverseSettles
  <2>1. call[c].pc = "locked" /\ call[c].row = universe
    BY <1>0, <1>6 DEF Multiverse!EnsureSeed, Continues
  <2>2. PICK seed \in Seeds :
          universe' = [universe EXCEPT !.config = [universe.config EXCEPT !.seed = seed]]
    BY <1>6, <2>1 DEF Multiverse!EnsureSeed
  <2> DEFINE config == [universe.config EXCEPT !.seed = seed]
  <2>3. universe.config \in Multiverse!Config /\ universe.config.seed = None
    BY <1>0, <1>6, <1>r, <2>1 DEF Multiverse!EnsureSeed
  <2>4. /\ config \in Multiverse!Config /\ config.keys = universe.config.keys
        /\ config.composition = universe.config.composition
    BY <2>3 DEF Multiverse!Config
  <2>5. Multiverse!Release(c) /\ state' = state /\ universe' = [universe EXCEPT !.config = config]
    BY <1>6, <2>2 DEF Multiverse!EnsureSeed
  <2> HIDE DEF config
  <2> QED BY <1>w, <2>1, <2>3, <2>4, <2>5
<1>7. ASSUME NEW c \in Calls, Multiverse!GetOrCreate(c)
      PROVE  UniverseInv' /\ Multiverse!UniverseSettles
  <2> DEFINE t == [call[c] EXCEPT !.pc = "inserted"]
  <2>1. t \in Transactions /\ t.pc = "inserted"
    BY <1>0 DEF Transactions, Places
  <2>2. call' = [call EXCEPT ![c] = t] /\ lock' = lock /\ Settled
    BY <1>7 DEF Multiverse!GetOrCreate, Settled
  <2> HIDE DEF t
  <2> QED BY <1>0, <1>s, <2>1, <2>2, TransactionMoves DEF Settled
<1>8. ASSUME NEW c \in Calls, NEW field \in Keys, Multiverse!UpdateState(c, {field})
      PROVE  UniverseInv' /\ Multiverse!UniverseSettles
  <2> DEFINE t == [call[c] EXCEPT !.pc = "updated", !.fields = @ \cup {field}]
  <2>1. t \in Transactions /\ t.pc = "updated"
    BY <1>0 DEF Transactions, Places
  <2>2. call' = [call EXCEPT ![c] = t] /\ lock' = lock /\ Settled
    BY <1>8 DEF Multiverse!UpdateState, Settled
  <2> HIDE DEF t
  <2> QED BY <1>0, <1>s, <2>1, <2>2, TransactionMoves DEF Settled
<1>9. ASSUME NEW c \in Calls, Multiverse!CommitState(c)
      PROVE  UniverseInv' /\ Multiverse!UniverseSettles
  <2>1. call[c].fields \subseteq Keys
    BY <1>0 DEF Transactions
  <2>2. /\ state' = (IF state = None THEN {} ELSE state) \cup call[c].fields
        /\ Multiverse!Release(c) /\ universe' = universe
    BY <1>9 DEF Multiverse!CommitState
  <2>3. state' \in SUBSET Keys /\ (state # None => state \subseteq state')
    <3>1. CASE state = None
      BY <2>1, <2>2, <3>1
    <3>2. CASE state \in SUBSET Keys /\ state # None
      BY <2>1, <2>2, <3>2
    <3>3. state = None \/ state \in SUBSET Keys
      BY <1>0
    <3> QED BY <3>1, <3>2, <3>3
  <2>4. state' # None
    BY <1>0, <2>3
  <2> QED BY <1>0, <1>e, <2>2, <2>3, <2>4 DEF Multiverse!UniverseSettles
<1>10. ASSUME Multiverse!SessionComesOrGoes
       PROVE  UniverseInv' /\ Multiverse!UniverseSettles
  BY <1>10, <1>s DEF Multiverse!SessionComesOrGoes, UniverseInv, Settled
<1> QED
  BY <1>1, <1>2, <1>3, <1>4, <1>5, <1>6, <1>7, <1>8, <1>9, <1>10 DEF Multiverse!Next

LEMMA UniverseStays == ASSUME UniverseInv, UNCHANGED Multiverse!vars PROVE UniverseInv'
BY DEF UniverseInv, Multiverse!vars

-----------------------------------------------------------------------------
(* The tiers and tries of a model call                                        *)

Tiers == 1 .. Len(Providers)
CallPlaces == {"idle", "guard", "asked", "answered", "refused", "failed", "exhausted"}
Orders == [Tiers -> Tiers] \cup {<<>>}
Asks == SUBSET (Tiers \X (1 .. Tries))
Attempts == 0 .. CallRetries
CallState ==
  [pc : CallPlaces, cascade : BOOLEAN, low : BOOLEAN, attempt : Attempts, full : BOOLEAN,
   order : Orders, tier : Tiers, try : 1 .. Tries, tried : Asks, skipped : BOOLEAN]

\* What an attempt has asked is every try of the tiers it has left and, of the one it is
\* at, those before this try, in an order in which no tier is missing.
Reached(t) ==
  /\ \A i \in Tiers : \E j \in Tiers : t.order[j] = i
  /\ \A i \in Tiers, n \in 1 .. Tries :
       i < t.tier \/ (i = t.tier /\ n < t.try) => <<t.order[i], n>> \in t.tried

CallInv(t) == t.pc = "asked" => t.order \in [Tiers -> Tiers] /\ Reached(t)

ProviderInv ==
  /\ load \in [{Providers[i] : i \in Tiers} -> {"unknown", "near_limit", "exhausted"}]
  /\ call \in [Calls -> CallState]
  /\ \A c \in Calls : CallInv(call[c]) /\ ~call[c].skipped

\* One call goes on.
LEMMA CallMoves ==
  ASSUME ProviderInv, NEW c \in Calls, NEW t \in CallState, CallInv(t), ~t.skipped,
         call' = [call EXCEPT ![c] = t],
         load' \in [{Providers[i] : i \in Tiers} -> {"unknown", "near_limit", "exhausted"}]
  PROVE  ProviderInv'
<1>1. call \in [Calls -> CallState] /\ \A d \in Calls : CallInv(call[d]) /\ ~call[d].skipped
  BY DEF ProviderInv
<1>2. call' \in [Calls -> CallState]
  BY <1>1
<1>3. ASSUME NEW d \in Calls PROVE CallInv(call'[d]) /\ ~call'[d].skipped
  <2>1. CASE d = c
    BY <1>1, <2>1
  <2>2. CASE d # c
    <3>1. call'[d] = call[d]
      BY <1>1, <2>2
    <3> QED BY <1>1, <3>1
  <2> QED BY <2>1, <2>2
<1> QED BY <1>2, <1>3 DEF ProviderInv

LEMMA Beginning ==
  ASSUME NEW pc \in CallPlaces \ {"asked"}
  PROVE  LET t == [Provider!Unasked EXCEPT !.pc = pc, !.skipped = FALSE] IN
         t \in CallState /\ CallInv(t) /\ ~t.skipped
<1>1. 1 \in Tiers /\ 1 \in 1 .. Tries /\ 0 \in 0 .. CallRetries
  BY ProviderAssumption DEF Tiers
<1> QED BY <1>1 DEF Provider!Unasked, CallState, Orders, Asks, Attempts, CallInv, CallPlaces

LEMMA ProviderInit == ASSUME Provider!Init PROVE ProviderInv
<1>1. 1 \in Tiers /\ 1 \in 1 .. Tries /\ 0 \in 0 .. CallRetries
  BY ProviderAssumption DEF Tiers
<1>2. /\ Provider!Unasked \in CallState /\ CallInv(Provider!Unasked)
      /\ ~Provider!Unasked.skipped
  BY <1>1 DEF Provider!Unasked, CallState, Orders, Asks, Attempts, CallInv, CallPlaces
<1> QED BY <1>2 DEF Provider!Init, ProviderInv, Provider!Tiers, Tiers

\* What an attempt that is asked has asked once the answer is here.
LEMMA TriedSoFar ==
  ASSUME ProviderInv, NEW c \in Calls, call[c].pc = "asked"
  PROVE  /\ Provider!Tried(c) \in SUBSET (Tiers \X (1 .. Tries))
         /\ call[c].tried \subseteq Provider!Tried(c)
         /\ <<call[c].order[call[c].tier], call[c].try>> \in Provider!Tried(c)
         /\ call[c].order \in [Tiers -> Tiers] /\ Reached(call[c])
         /\ call[c].tier \in Tiers /\ call[c].try \in 1 .. Tries
<1>1. /\ call[c].tier \in Tiers /\ call[c].try \in 1 .. Tries
      /\ call[c].tried \in SUBSET (Tiers \X (1 .. Tries))
  BY DEF ProviderInv, CallState, Asks
<1>2. call[c].order \in [Tiers -> Tiers] /\ Reached(call[c])
  BY DEF ProviderInv, CallInv
<1>3. <<call[c].order[call[c].tier], call[c].try>> \in Tiers \X (1 .. Tries)
  BY <1>1, <1>2
<1> QED BY <1>1, <1>2, <1>3 DEF Provider!Tried, Provider!Asked

LEMMA ProviderStep ==
  ASSUME ProviderInv, [Provider!Next]_(Provider!vars)
  PROVE  ProviderInv'
<1> DEFINE Loads == [{Providers[i] : i \in Tiers} -> {"unknown", "near_limit", "exhausted"}]
           Moves(c, t) == call' = [call EXCEPT ![c] = t]
<1>0. /\ load \in Loads
      /\ \A c \in Calls : call[c] \in CallState /\ CallInv(call[c]) /\ ~call[c].skipped
  BY DEF ProviderInv
<1>n. Len(Providers) \in Nat \ {0} /\ Tries \in Nat \ {0} /\ CallRetries \in Nat
  BY ProviderAssumption
<1>g. ASSUME NEW c \in Calls, NEW t \in CallState, Moves(c, t), CallInv(t), ~t.skipped,
             load' \in Loads
      PROVE  ProviderInv'
  BY <1>g, CallMoves
\* The call ends.
<1>e. ASSUME NEW c \in Calls, NEW pc \in CallPlaces \ {"asked"},
             Provider!Ended(c, pc), load' \in Loads
      PROVE  ProviderInv'
  <2> DEFINE t == [Provider!Unasked EXCEPT !.pc = pc, !.skipped = FALSE]
  <2>1. call[c].skipped = FALSE
    BY <1>0 DEF CallState
  <2>2. Moves(c, t)
    BY <1>e, <2>1, Zenon DEF Provider!Ended
  <2>3. t \in CallState /\ CallInv(t) /\ ~t.skipped
    BY Beginning
  <2> HIDE DEF t
  <2> QED BY <1>e, <1>g, <2>2, <2>3
\* The attempt ends, and the cascade goes on or is at its end.
<1>a. ASSUME NEW c \in Calls, NEW full \in BOOLEAN,
             call' = Provider!Again(c, full, FALSE), load' \in Loads
      PROVE  ProviderInv'
  <2>1. CASE call[c].cascade /\ call[c].attempt < CallRetries
    <3> DEFINE t == [call[c] EXCEPT !.pc = "guard", !.attempt = @ + 1, !.full = full,
                                    !.skipped = @ \/ FALSE]
    <3>1. Moves(c, t)
      BY <1>a, <2>1 DEF Provider!Again
    <3>2. call[c].attempt + 1 \in Attempts /\ "guard" \in CallPlaces
      BY <1>0, <1>n, <2>1 DEF CallState, Attempts, CallPlaces
    <3>3. t \in CallState /\ t.pc = "guard" /\ ~t.skipped
      BY <1>0, <3>2 DEF CallState
    <3> HIDE DEF t
    <3> QED BY <1>a, <1>g, <3>1, <3>3 DEF CallInv
  <2>2. CASE ~(call[c].cascade /\ call[c].attempt < CallRetries)
    <3>1. Provider!Ended(c, "exhausted")
      <4>1. (call[c].skipped \/ FALSE) = call[c].skipped
        BY <1>0 DEF CallState
      <4>2. call' = [call EXCEPT ![c] = [Provider!Unasked EXCEPT
                       !.pc = "exhausted", !.skipped = call[c].skipped \/ FALSE]]
        BY <1>a, <2>2, Zenon DEF Provider!Again
      <4> QED BY <4>1, <4>2, Zenon DEF Provider!Ended
    <3>2. "exhausted" \in CallPlaces \ {"asked"}
      BY DEF CallPlaces
    <3> QED BY <1>a, <1>e, <3>1, <3>2
  <2> QED BY <2>1, <2>2
\* What the last try tells of its provider.
<1>l. ASSUME NEW c \in Calls, call[c].pc = "asked", Provider!Record(c) PROVE load' \in Loads
  <2>1. PICK l \in {"unknown", "near_limit", "exhausted"} :
          load' = [load EXCEPT ![Providers[Provider!Asked(c)]] = l]
    BY <1>l DEF Provider!Record, Provider!LoadOf
  <2> QED BY <1>0, <2>1
<1> HIDE DEF Loads, Moves
<1>1. ASSUME NEW c \in Calls, Provider!Start(c) PROVE ProviderInv'
  <2>1. PICK cascade \in BOOLEAN, low \in BOOLEAN :
          Moves(c, [call[c] EXCEPT !.pc = "guard", !.cascade = cascade, !.low = low])
    BY <1>1 DEF Provider!Start, Moves
  <2> DEFINE t == [call[c] EXCEPT !.pc = "guard", !.cascade = cascade, !.low = low]
  <2>2. t \in CallState /\ t.pc = "guard" /\ ~t.skipped
    BY <1>0 DEF CallState, CallPlaces
  <2>3. load' \in Loads
    BY <1>0, <1>1 DEF Provider!Start
  <2> HIDE DEF t
  <2> QED BY <1>g, <2>1, <2>2, <2>3 DEF t, CallInv
<1>2. ASSUME NEW c \in Calls, Provider!Admit(c) PROVE ProviderInv'
  <2>1. PICK order \in Provider!TierOrders(call[c].low) :
          Moves(c, [call[c] EXCEPT !.pc = "asked", !.order = order,
                                   !.tier = 1, !.try = 1, !.tried = {}])
    BY <1>2 DEF Provider!Admit, Moves
  <2> DEFINE t == [call[c] EXCEPT !.pc = "asked", !.order = order,
                                  !.tier = 1, !.try = 1, !.tried = {}]
  <2>2. order \in [Tiers -> Tiers] /\ \A i \in Tiers : \E j \in Tiers : order[j] = i
    BY DEF Provider!TierOrders, Provider!Bijection, Provider!Injection, Provider!Surjection,
           Provider!Tiers, Tiers
  <2>3. 1 \in Tiers /\ 1 \in 1 .. Tries /\ {} \in Asks /\ order \in Orders
    BY <1>n, <2>2 DEF Tiers, Asks, Orders
  <2>4. /\ t \in CallState /\ t.order = order /\ t.tier = 1 /\ t.try = 1 /\ ~t.skipped
    <3>1. call[c] \in CallState /\ ~call[c].skipped /\ "asked" \in CallPlaces
      BY <1>0 DEF CallPlaces
    <3>2. t \in CallState
      BY <2>3, <3>1 DEF CallState
    <3> QED BY <3>1, <3>2 DEF CallState
  <2> HIDE DEF t
  <2>5. \A i \in Tiers, n \in 1 .. Tries : ~(i < t.tier) /\ ~(n < t.try)
    BY <1>n, <2>4 DEF Tiers
  <2>6. CallInv(t)
    BY <2>2, <2>4, <2>5 DEF CallInv, Reached
  <2>7. load' \in Loads
    BY <1>0, <1>2 DEF Provider!Admit
  <2> QED BY <1>g, <2>1, <2>4, <2>6, <2>7 DEF t
\* The attempt goes on from one try to the next, which may be that of another tier.
<1>u. ASSUME NEW c \in Calls, call[c].pc = "asked", NEW tier \in Tiers, NEW try \in 1 .. Tries,
             Moves(c, [call[c] EXCEPT !.tier = tier, !.try = try, !.tried = Provider!Tried(c)]),
             load' \in Loads,
             \/ tier = call[c].tier /\ try = call[c].try + 1
             \/ tier = call[c].tier + 1 /\ try = 1 /\ call[c].try = Tries
      PROVE  ProviderInv'
  <2>t. /\ Provider!Tried(c) \in SUBSET (Tiers \X (1 .. Tries))
        /\ call[c].tried \subseteq Provider!Tried(c)
        /\ <<call[c].order[call[c].tier], call[c].try>> \in Provider!Tried(c)
        /\ call[c].order \in [Tiers -> Tiers] /\ Reached(call[c])
        /\ call[c].tier \in Tiers /\ call[c].try \in 1 .. Tries
    BY <1>u, TriedSoFar
  <2> DEFINE t == [call[c] EXCEPT !.tier = tier, !.try = try, !.tried = Provider!Tried(c)]
  <2>1. /\ t \in CallState /\ t.pc = "asked" /\ t.order = call[c].order
        /\ t.tier = tier /\ t.try = try /\ t.tried = Provider!Tried(c) /\ ~t.skipped
    <3>1. Provider!Tried(c) \in Asks
      BY <2>t DEF Asks
    <3> QED BY <1>0, <1>u, <3>1 DEF CallState
  <2> HIDE DEF t
  <2>2. ASSUME NEW i \in Tiers, NEW n \in 1 .. Tries, i < t.tier \/ (i = t.tier /\ n < t.try)
        PROVE  <<t.order[i], n>> \in t.tried
    <3>1. \/ i < call[c].tier
          \/ i = call[c].tier /\ n < call[c].try
          \/ i = call[c].tier /\ n = call[c].try
      <4>1. /\ i \in Nat /\ n \in Nat /\ call[c].tier \in Nat /\ call[c].try \in Nat
            /\ n <= Tries /\ Tries \in Nat
        BY <1>n, <2>t DEF Tiers
      <4>2. i < tier \/ (i = tier /\ n < try)
        BY <2>1, <2>2
      <4>3. CASE tier = call[c].tier /\ try = call[c].try + 1
        BY <4>1, <4>2, <4>3
      <4>4. CASE tier = call[c].tier + 1 /\ try = 1 /\ call[c].try = Tries
        BY <1>n, <4>1, <4>2, <4>4 DEF Tiers
      <4> QED BY <1>u, <4>3, <4>4
    <3> QED BY <1>u, <2>1, <2>t, <3>1 DEF Reached
  <2>3. CallInv(t)
    BY <1>u, <2>1, <2>2, <2>t DEF CallInv, Reached
  <2> QED BY <1>g, <1>u, <2>1, <2>3 DEF t
<1>3. ASSUME NEW c \in Calls, Provider!FailAndTryAgain(c) PROVE ProviderInv'
  <2>1. /\ call[c].pc = "asked" /\ call[c].try < Tries /\ load' \in Loads
        /\ Moves(c, [call[c] EXCEPT !.try = @ + 1, !.tried = Provider!Tried(c)])
    BY <1>0, <1>3 DEF Provider!FailAndTryAgain, Moves
  <2>2. call[c].tier \in Tiers /\ call[c].try + 1 \in 1 .. Tries
    <3>1. call[c].tier \in Tiers /\ call[c].try \in 1 .. Tries
      BY <2>1, TriedSoFar
    <3> QED BY <1>n, <2>1, <3>1
  <2>3. [call[c] EXCEPT !.try = @ + 1, !.tried = Provider!Tried(c)]
          = [call[c] EXCEPT !.tier = call[c].tier, !.try = call[c].try + 1,
                            !.tried = Provider!Tried(c)]
    BY <1>0 DEF CallState
  <2> QED BY <1>u, <2>1, <2>2, <2>3
<1>4. ASSUME NEW c \in Calls, Provider!NextTier(c) PROVE ProviderInv'
  <2>1. /\ call[c].pc = "asked" /\ call[c].try = Tries /\ call[c].tier < Len(Providers)
        /\ Moves(c, [call[c] EXCEPT !.tier = @ + 1, !.try = 1, !.tried = Provider!Tried(c)])
    BY <1>4 DEF Provider!NextTier, Moves
  <2>2. call[c].tier + 1 \in Tiers /\ 1 \in 1 .. Tries
    <3>1. call[c].tier \in Tiers
      BY <2>1, TriedSoFar
    <3> QED BY <1>n, <2>1, <3>1 DEF Tiers
  <2>3. load' \in Loads
    BY <1>4, <1>l, <2>1 DEF Provider!NextTier
  <2> QED BY <1>u, <2>1, <2>2, <2>3
<1>5. ASSUME NEW c \in Calls, Provider!FailAllTiers(c) PROVE ProviderInv'
  <2>1. /\ call[c].pc = "asked" /\ call[c].try = Tries /\ call[c].tier = Len(Providers)
        /\ Provider!Record(c)
    BY <1>5 DEF Provider!FailAllTiers
  <2>t. /\ Provider!Tried(c) \in SUBSET (Tiers \X (1 .. Tries))
        /\ call[c].tried \subseteq Provider!Tried(c)
        /\ <<call[c].order[call[c].tier], call[c].try>> \in Provider!Tried(c)
        /\ Reached(call[c])
    BY <2>1, TriedSoFar
  <2>2. ASSUME NEW i \in Tiers, NEW n \in 1 .. Tries PROVE <<i, n>> \in Provider!Tried(c)
    <3>1. PICK j \in Tiers : call[c].order[j] = i
      BY <2>t DEF Reached
    <3>2. \/ j < call[c].tier
          \/ j = call[c].tier /\ n < call[c].try
          \/ j = call[c].tier /\ n = call[c].try
      BY <1>n, <2>1 DEF Tiers
    <3> QED BY <2>t, <3>1, <3>2 DEF Reached
  <2>3. Provider!Tried(c) = Provider!Tiers \X (1 .. Tries)
    BY <2>2, <2>t DEF Provider!Tiers, Tiers
  <2> DEFINE full == call[c].full /\ call[c].attempt > 0
  <2>4. call' = Provider!Again(c, full, Provider!Tried(c) # Provider!Tiers \X (1 .. Tries))
    BY <1>5 DEF Provider!FailAllTiers
  <2>5. (Provider!Tried(c) # Provider!Tiers \X (1 .. Tries)) = FALSE
    BY <2>3
  <2>6. full \in BOOLEAN
    OBVIOUS
  <2> HIDE DEF full
  <2>7. call' = Provider!Again(c, full, FALSE)
    BY <2>4, <2>5
  <2> QED BY <1>a, <1>l, <2>1, <2>6, <2>7
<1>6. ASSUME NEW c \in Calls, Provider!FailOddly(c) PROVE ProviderInv'
  <2>1. call[c].full \in BOOLEAN /\ load' \in Loads
    BY <1>0, <1>6 DEF Provider!FailOddly, CallState
  <2> QED BY <1>6, <1>a, <2>1 DEF Provider!FailOddly
<1>7. ASSUME NEW c \in Calls,
             Provider!Refuse(c) \/ Provider!Answer(c) \/ Provider!FailPermanently(c)
      PROVE  ProviderInv'
  <2>1. PICK pc \in {"refused", "answered", "failed"} : Provider!Ended(c, pc)
    BY <1>7 DEF Provider!Refuse, Provider!Answer, Provider!FailPermanently
  <2>2. load' \in Loads
    BY <1>0, <1>7 DEF Provider!Refuse, Provider!Answer, Provider!FailPermanently
  <2>3. pc \in CallPlaces \ {"asked"}
    BY DEF CallPlaces
  <2> QED BY <1>e, <2>1, <2>2, <2>3
<1>8. CASE UNCHANGED Provider!vars
  BY <1>8 DEF ProviderInv, Provider!vars
<1> QED
  BY <1>1, <1>2, <1>3, <1>4, <1>5, <1>6, <1>7, <1>8 DEF Provider!Next

LEMMA ProviderIsSound ==
  ASSUME ProviderInv
  PROVE  Provider!TypeOK /\ Provider!GivesUpLast
<1>1. \A c \in Calls : call[c] \in CallState /\ ~call[c].skipped
  BY DEF ProviderInv
<1>2. Provider!GivesUpLast
  BY <1>1 DEF Provider!GivesUpLast
<1>3. Provider!TypeOK
  BY <1>1 DEF ProviderInv, Provider!TypeOK, Provider!Over, Provider!LoadOf, Provider!Tiers,
              Tiers, CallState, CallPlaces, Attempts
<1> QED BY <1>2, <1>3

-----------------------------------------------------------------------------
(* The creation of a game                                                     *)

CreationPlaces == {"idle", "degrading", "answered"} \cup Creation!Underway
Answers == {"none", "complete"} \cup Creation!Degraded
Unbuilt == {"idle", "choosing", "enriching", "retrying", "building"}

\* A creation that has found the player's place goes on with a world, as long as nobody
\* removes the game; one that was not outrun by the removal builds nothing after it.
CreationInv ==
  /\ creation \in [pc : CreationPlaces, answer : Answers, words : {"none", "model", "template"}]
  /\ game \in {"absent", "created", "removed"}
  /\ creation.pc = "idle" <=> game = "absent"
  /\ clearing # "no" => game = "removed"
  /\ creation.pc \notin {"degrading", "answered"} => recorded = "none" /\ creation.answer = "none"
  /\ creation.pc = "degrading" =>
       /\ creation.answer \in Creation!Degraded
       /\ recorded # "none" => recorded = "complete" /\ creation.answer = "cancelled"
  /\ creation.pc \in Unbuilt => nodes = "none"
  /\ creation.pc \in {"introducing", "recording"} /\ game = "created" => nodes # "none"
  /\ game = "removed" /\ ~outrun => creation.pc \in {"degrading", "answered"}
  /\ Creation!GenesisIsHonest

LEMMA CreationInit == ASSUME Creation!Init PROVE CreationInv
BY DEF Creation!Init, CreationInv, Creation!Idle, CreationPlaces, Answers, Creation!Underway,
       Creation!GenesisIsHonest, Creation!Answered

LEMMA CreationStep == ASSUME CreationInv, [Creation!Next]_(Creation!vars) PROVE CreationInv'
<1> USE DEF CreationInv, CreationPlaces, Answers, Unbuilt, Creation!Underway, Creation!Awaiting,
            Creation!Degraded, Creation!GenesisIsHonest, Creation!Answered
<1>d. ASSUME NEW why \in Creation!Degraded, creation.pc \in Creation!Underway,
             Creation!Degrade(why)
      PROVE  CreationInv'
  <2>1. /\ creation' = [creation EXCEPT !.pc = "degrading", !.answer = why]
        /\ UNCHANGED <<game, recorded, nodes, clearing, outrun>>
    BY <1>d DEF Creation!Degrade
  <2>2. creation' \in [pc : CreationPlaces, answer : Answers, words : {"none", "model", "template"}]
    BY <2>1
  <2>3. creation'.pc = "degrading" /\ creation'.answer = why /\ creation'.words = creation.words
    BY <2>1
  <2>4. creation.pc \notin {"degrading", "answered"} /\ recorded = "none" /\ why # "complete"
    BY <1>d
  <2>5. creation.pc # "idle" /\ game # "absent"
    BY <1>d
  <2> QED BY <2>1, <2>2, <2>3, <2>4, <2>5
<1>1. CASE Creation!InsertGame
  BY <1>1 DEF Creation!InsertGame, Creation!Goto, Creation!Idle
<1>2. CASE Creation!SelectTemplate
  BY <1>2, <1>d DEF Creation!SelectTemplate, Creation!Goto
<1>3. ASSUME NEW parses \in BOOLEAN, Creation!EnrichTemplate(parses)
      PROVE  CreationInv'
  BY <1>3 DEF Creation!EnrichTemplate
<1>4. CASE Creation!BuildWorld
  BY <1>4 DEF Creation!BuildWorld, Creation!Goto
<1>5. CASE Creation!BuildUnseen
  <2>1. PICK why \in {"timeout", "cancelled"} :
          creation' = [creation EXCEPT !.pc = "degrading", !.answer = why]
    BY <1>5 DEF Creation!BuildUnseen
  <2>2. creation.pc = "building" /\ nodes' = creation.words /\ UNCHANGED <<game, recorded, clearing, outrun>>
    BY <1>5 DEF Creation!BuildUnseen
  <2>3. /\ creation' \in [pc : CreationPlaces, answer : Answers, words : {"none", "model", "template"}]
        /\ creation'.pc = "degrading" /\ creation'.answer = why /\ creation'.words = creation.words
    BY <2>1
  <2>4. recorded = "none" /\ game # "absent" /\ why # "complete"
    BY <2>2
  <2> QED BY <2>2, <2>3, <2>4
<1>6. CASE Creation!LocatePlayer
  BY <1>6, <1>d DEF Creation!LocatePlayer, Creation!Goto
<1>7. CASE Creation!Introduce
  BY <1>7 DEF Creation!Introduce, Creation!Goto
<1>8. CASE Creation!StepFails \/ Creation!BudgetEnds
  BY <1>8, <1>d DEF Creation!StepFails, Creation!BudgetEnds
<1>13. CASE Creation!RequestCancelled
  <2>1. /\ creation.pc \in Creation!Awaiting
        /\ creation' = [creation EXCEPT !.pc = "degrading", !.answer = "cancelled"]
        /\ recorded' # recorded => recorded' = "complete" /\ creation.pc = "recording"
        /\ UNCHANGED <<game, nodes, clearing, outrun>>
    BY <1>13 DEF Creation!RequestCancelled
  <2>2. /\ creation' \in [pc : CreationPlaces, answer : Answers, words : {"none", "model", "template"}]
        /\ creation'.pc = "degrading" /\ creation'.answer = "cancelled" /\ creation'.words = creation.words
    BY <2>1
  <2> QED BY <2>1, <2>2
<1>9. ASSUME NEW ok \in BOOLEAN, Creation!PersistMetadata(ok)
      PROVE  CreationInv'
  BY <1>9 DEF Creation!PersistMetadata
<1>10. CASE Creation!RemoveGame
  BY <1>10 DEF Creation!RemoveGame
<1>11. ASSUME NEW ok \in BOOLEAN, Creation!CleanupSession(ok)
       PROVE  CreationInv'
  BY <1>11 DEF Creation!CleanupSession
<1>12. CASE UNCHANGED Creation!vars
  BY <1>12 DEF Creation!vars
<1> QED
  BY <1>1, <1>2, <1>3, <1>4, <1>5, <1>6, <1>7, <1>8, <1>9, <1>10, <1>11, <1>12, <1>13
  DEF Creation!Next, Creation!CreationStep

-----------------------------------------------------------------------------
(* The dialogue before a game                                                 *)

Phases == {Dialogue!PhaseOrder[k] : k \in 1 .. 8}
Everything == {"name", "traits", "form", "slip"}
DialogueState ==
  [phase : Phases, count : Nat, answers : Nat, slip : BOOLEAN, inferred : Nat, confirmed : Nat,
   form : BOOLEAN, named : BOOLEAN, committed : BOOLEAN, seed : SUBSET Everything,
   completed : BOOLEAN]

\* What the phases before the k-th have found.
Found(s, k) ==
  /\ k > 3 => s.slip
  /\ k < 5 => s.confirmed = 0
  /\ s.confirmed <= s.inferred
  /\ k > 5 => s.form /\ (s.inferred > 0 => s.confirmed > 0)
  /\ k > 6 => s.named
  /\ k < 7 => s.seed = {}
Seeded(s) ==
  s.seed = {"name", "form", "slip"} \cup (IF s.inferred > 0 THEN {"traits"} ELSE {})

\* A state in phase k that is saved, and one in which that phase has made its find.
Sound(s, k) ==
  /\ s \in DialogueState /\ s.phase = Dialogue!PhaseOrder[k]
  /\ s.count < 2 /\ s.answers = 2 * (k - 1) + s.count
  /\ Found(s, k)
  /\ k = 7 => s.seed = {} \/ Seeded(s)
  /\ k = 8 => Seeded(s)
  /\ s.completed <=> k = 8
Processed(s, k) ==
  /\ s \in DialogueState /\ s.phase = Dialogue!PhaseOrder[k]
  /\ s.count \in 1 .. 2 /\ s.answers = 2 * (k - 1) + s.count
  /\ Found(s, k)
  /\ k = 3 => s.slip
  /\ k = 5 => s.form /\ (s.inferred > 0 => s.confirmed > 0)
  /\ k = 6 => s.named
  /\ k = 7 => Seeded(s)
  /\ ~s.completed

\* The phases have their places in the order.
LEMMA Ranks ==
  \A k \in 1 .. 8 : Dialogue!PhaseOrder[k] \in Phases /\ Dialogue!Rank(Dialogue!PhaseOrder[k]) = k
<1>1. DOMAIN Dialogue!PhaseOrder = 1 .. 8
  BY DEF Dialogue!PhaseOrder
<1>2. \A j, k \in 1 .. 8 : Dialogue!PhaseOrder[j] = Dialogue!PhaseOrder[k] => j = k
  BY DEF Dialogue!PhaseOrder
<1>3. ASSUME NEW k \in 1 .. 8 PROVE Dialogue!Rank(Dialogue!PhaseOrder[k]) = k
  BY <1>1, <1>2 DEF Dialogue!Rank
<1> QED BY <1>3 DEF Phases

LEMMA Names ==
  /\ Dialogue!PhaseOrder[1] = "void" /\ Dialogue!PhaseOrder[2] = "building_world"
  /\ Dialogue!PhaseOrder[3] = "slip" /\ Dialogue!PhaseOrder[4] = "building_character"
  /\ Dialogue!PhaseOrder[5] = "first_light" /\ Dialogue!PhaseOrder[6] = "becoming"
  /\ Dialogue!PhaseOrder[7] = "threshold" /\ Dialogue!PhaseOrder[8] = "COMPLETE"
BY DEF Dialogue!PhaseOrder

LEMMA SoundIsCoherent ==
  ASSUME NEW k \in 1 .. 8, NEW s, Sound(s, k)
  PROVE  Dialogue!Coherent(s)
<1>1. Dialogue!Rank(s.phase) = k
  BY Ranks DEF Sound
<1>2. /\ Dialogue!Rank("slip") = 3 /\ Dialogue!Rank("first_light") = 5
      /\ Dialogue!Rank("becoming") = 6 /\ Dialogue!Rank("threshold") = 7
  BY Ranks, Names
<1>3. s.phase = "COMPLETE" <=> k = 8
  BY <1>1, Ranks, Names DEF Sound
<1>4. s.answers = Dialogue!MinInteractions * (Dialogue!Rank(s.phase) - 1) + s.count
  BY <1>1 DEF Sound, Dialogue!MinInteractions
<1>5. s.completed = (s.phase = "COMPLETE")
  BY <1>3 DEF Sound, DialogueState
<1>6. /\ k > 3 => s.slip
      /\ k > 5 => s.form /\ s.confirmed <= s.inferred /\ (s.inferred > 0 => s.confirmed > 0)
      /\ k > 6 => s.named
      /\ k > 7 => Seeded(s)
  BY DEF Sound, Found
<1> QED
  BY <1>1, <1>2, <1>4, <1>5, <1>6 DEF Dialogue!Coherent, Dialogue!Past, Seeded

\* What each step of the dialogue makes of a state.
Typed(s) ==
  /\ s.phase \in Phases /\ s.seed \in SUBSET Everything
  /\ s.count \in Nat /\ s.answers \in Nat /\ s.inferred \in Nat /\ s.confirmed \in Nat
  /\ s.slip \in BOOLEAN /\ s.form \in BOOLEAN /\ s.named \in BOOLEAN /\ s.completed \in BOOLEAN
SamePlace(p, s) ==
  p.phase = s.phase /\ p.count = s.count /\ p.answers = s.answers /\ p.completed = s.completed
SameTraits(p, s) == p.inferred = s.inferred /\ p.confirmed = s.confirmed

LEMMA StateIsTyped == ASSUME NEW s \in DialogueState PROVE Typed(s)
BY DEF DialogueState, Typed

LEMMA HeardState ==
  ASSUME NEW s \in DialogueState
  PROVE  LET h == Dialogue!Heard(s) IN
           /\ h \in DialogueState /\ SameTraits(h, s)
           /\ h.count = s.count + 1 /\ h.answers = s.answers + 1
           /\ h.phase = s.phase /\ h.completed = s.completed
           /\ h.slip = s.slip /\ h.form = s.form /\ h.named = s.named /\ h.seed = s.seed
<1>1. s.answers + 1 \in Nat /\ s.count + 1 \in Nat
  BY StateIsTyped DEF Typed
<1>2. \A x, y \in Nat : [s EXCEPT !.answers = x, !.count = y] \in DialogueState
  BY DEF DialogueState
<1>3. Dialogue!Heard(s) \in DialogueState
  BY <1>1, <1>2 DEF Dialogue!Heard
<1> QED BY <1>3 DEF Dialogue!Heard, DialogueState, SameTraits

LEMMA BuildingWorldState ==
  ASSUME NEW s \in DialogueState, NEW extracted \in BOOLEAN
  PROVE  LET p == Dialogue!BuildingWorld(s, extracted) IN
           /\ p \in DialogueState /\ SamePlace(p, s) /\ SameTraits(p, s)
           /\ p.slip = s.slip /\ p.form = s.form /\ p.named = s.named /\ p.seed = s.seed
<1>1. [s EXCEPT !.committed = extracted] \in DialogueState
  BY DEF DialogueState
<1> QED BY <1>1 DEF Dialogue!BuildingWorld, DialogueState, SamePlace, SameTraits

LEMMA SlipState ==
  ASSUME NEW s \in DialogueState
  PROVE  LET p == Dialogue!Slip(s) IN
           /\ p \in DialogueState /\ SamePlace(p, s) /\ SameTraits(p, s)
           /\ p.slip /\ p.form = s.form /\ p.named = s.named /\ p.seed = s.seed
<1>1. [s EXCEPT !.slip = TRUE] \in DialogueState
  BY DEF DialogueState
<1> QED BY <1>1 DEF Dialogue!Slip, DialogueState, SamePlace, SameTraits

LEMMA BuildingCharacterState ==
  ASSUME NEW s \in DialogueState, NEW traits \in Nat
  PROVE  LET p == Dialogue!BuildingCharacter(s, traits) IN
           /\ p \in DialogueState /\ SamePlace(p, s) /\ p.confirmed = s.confirmed
           /\ p.slip = s.slip /\ p.form = s.form /\ p.named = s.named /\ p.seed = s.seed
<1>1. [s EXCEPT !.inferred = traits] \in DialogueState
  BY DEF DialogueState
<1> QED BY <1>1 DEF Dialogue!BuildingCharacter, DialogueState, SamePlace

LEMMA FirstLightState ==
  ASSUME NEW s \in DialogueState, s.confirmed <= s.inferred
  PROVE  LET p == Dialogue!FirstLight(s) IN
           /\ p \in DialogueState /\ SamePlace(p, s) /\ p.inferred = s.inferred
           /\ p.confirmed <= s.inferred /\ (s.inferred > 0 => p.confirmed > 0)
           /\ p.slip = s.slip /\ p.form /\ p.named = s.named /\ p.seed = s.seed
<1> DEFINE n == IF s.confirmed # 0 THEN s.confirmed ELSE IF s.inferred < 2 THEN s.inferred ELSE 2
<1>1. n \in Nat /\ n <= s.inferred /\ (s.inferred > 0 => n > 0)
  BY StateIsTyped DEF Typed
<1>2. Dialogue!FirstLight(s) = [s EXCEPT !.form = TRUE, !.confirmed = n]
  BY DEF Dialogue!FirstLight, Dialogue!MaxConfirmed
<1> HIDE DEF n
<1>3. [s EXCEPT !.form = TRUE, !.confirmed = n] \in DialogueState
  BY <1>1 DEF DialogueState
<1> QED BY <1>1, <1>2, <1>3 DEF DialogueState, SamePlace

LEMMA BecomingState ==
  ASSUME NEW s \in DialogueState
  PROVE  LET p == Dialogue!Becoming(s) IN
           /\ p \in DialogueState /\ SamePlace(p, s) /\ SameTraits(p, s)
           /\ p.slip = s.slip /\ p.form = s.form /\ p.named /\ p.seed = s.seed
<1>1. [s EXCEPT !.named = TRUE] \in DialogueState
  BY DEF DialogueState
<1> QED BY <1>1 DEF Dialogue!Becoming, DialogueState, SamePlace, SameTraits

LEMMA ThresholdState ==
  ASSUME NEW s \in DialogueState
  PROVE  LET p == Dialogue!Threshold(s) IN
           /\ p \in DialogueState /\ SamePlace(p, s) /\ SameTraits(p, s)
           /\ p.slip = s.slip /\ p.form = s.form /\ p.named = s.named
           /\ p.seed = IF s.seed = {} THEN Dialogue!Told(s) ELSE s.seed
<1>1. Dialogue!Told(s) \in SUBSET Everything
  BY DEF Dialogue!Told, Everything
<1>2. \A x \in SUBSET Everything : [s EXCEPT !.seed = x] \in DialogueState
  BY DEF DialogueState
<1>3. [s EXCEPT !.seed = Dialogue!Told(s)] \in DialogueState
  BY <1>1, <1>2
<1> QED BY <1>3 DEF Dialogue!Threshold, DialogueState, SamePlace, SameTraits

\* The find of a phase, whatever the model says.
LEMMA PhaseIsProcessed ==
  ASSUME NEW k \in 1 .. 7, NEW s, Sound(s, k), NEW extracted \in BOOLEAN, NEW traits \in Nat
  PROVE  LET p == Dialogue!Processed(Dialogue!Heard(s), extracted, traits) IN
           Processed(p, k) /\ p.answers = s.answers + 1
<1> DEFINE h == Dialogue!Heard(s)
           p == Dialogue!Processed(h, extracted, traits)
<1>0. s \in DialogueState /\ s.answers \in Nat
  BY StateIsTyped DEF Sound, Typed
<1>1. /\ h \in DialogueState /\ h.phase = Dialogue!PhaseOrder[k]
      /\ h.count \in 1 .. 2 /\ h.answers = 2 * (k - 1) + h.count
      /\ Found(h, k) /\ ~h.completed
      /\ k = 7 => h.seed = {} \/ Seeded(h)
  BY <1>0, HeardState, StateIsTyped DEF Sound, Found, Seeded, SameTraits, Typed
<1>a. h.answers = s.answers + 1
  BY <1>0, HeardState
<1>t. Typed(h)
  BY <1>1, StateIsTyped
<1> HIDE DEF h
<1> SUFFICES Processed(p, k) /\ p.answers = h.answers
  BY <1>a DEF h
<1> USE DEF Processed, Found, SamePlace, SameTraits
<1>2. CASE k = 1
  <2>1. p = h
    BY <1>1, <1>2, Names DEF Dialogue!Processed
  <2> QED BY <1>1, <1>2, <2>1
<1>3. CASE k = 2
  <2>1. p = Dialogue!BuildingWorld(h, extracted)
    BY <1>1, <1>3, Names DEF Dialogue!Processed
  <2> HIDE DEF p
  <2> QED BY <1>1, <1>3, <2>1, BuildingWorldState
<1>4. CASE k = 3
  <2>1. p = Dialogue!Slip(h)
    BY <1>1, <1>4, Names DEF Dialogue!Processed
  <2> HIDE DEF p
  <2> QED BY <1>1, <1>4, <2>1, SlipState
<1>5. CASE k = 4
  <2>1. p = Dialogue!BuildingCharacter(h, traits)
    BY <1>1, <1>5, Names DEF Dialogue!Processed
  <2> HIDE DEF p
  <2>2. /\ p \in DialogueState /\ SamePlace(p, h) /\ p.confirmed = h.confirmed
        /\ p.slip = h.slip /\ p.form = h.form /\ p.named = h.named /\ p.seed = h.seed
    BY <1>1, <2>1, BuildingCharacterState
  <2>3. p.confirmed = 0 /\ p.inferred \in Nat
    BY <1>1, <1>5, <2>2, StateIsTyped DEF Typed
  <2> QED BY <1>1, <1>5, <2>2, <2>3
<1>6. CASE k = 5
  <2>1. p = Dialogue!FirstLight(h)
    BY <1>1, <1>6, Names DEF Dialogue!Processed
  <2> HIDE DEF p
  <2> QED BY <1>1, <1>6, <2>1, FirstLightState
<1>7. CASE k = 6
  <2>1. p = Dialogue!Becoming(h)
    BY <1>1, <1>7, Names DEF Dialogue!Processed
  <2> HIDE DEF p
  <2> QED BY <1>1, <1>7, <2>1, BecomingState
<1>8. CASE k = 7
  <2>1. p = Dialogue!Threshold(h)
    BY <1>1, <1>8, Names DEF Dialogue!Processed
  <2>2. h.slip /\ h.form /\ h.named /\ (h.confirmed > 0 <=> h.inferred > 0)
    BY <1>1, <1>8, <1>t DEF Typed
  <2>3. Dialogue!Told(h) = {"name", "form", "slip"} \cup (IF h.inferred > 0 THEN {"traits"} ELSE {})
    BY <2>2 DEF Dialogue!Told
  <2> HIDE DEF p
  <2>4. /\ p \in DialogueState /\ SamePlace(p, h) /\ SameTraits(p, h)
        /\ p.slip = h.slip /\ p.form = h.form /\ p.named = h.named
        /\ p.seed = IF h.seed = {} THEN Dialogue!Told(h) ELSE h.seed
    BY <1>1, <2>1, ThresholdState
  <2>5. Seeded(p)
    BY <1>1, <1>8, <2>3, <2>4 DEF Seeded
  <2> QED BY <1>1, <1>8, <2>4, <2>5
<1> QED BY <1>2, <1>3, <1>4, <1>5, <1>6, <1>7, <1>8

LEMMA PhaseAdvances ==
  ASSUME NEW k \in 1 .. 7, NEW s, Processed(s, k)
  PROVE  /\ \E m \in 1 .. 8 : Sound(Dialogue!Advanced(s), m)
         /\ Dialogue!Advanced(s).answers = s.answers
<1>1. /\ Dialogue!Rank(s.phase) = k /\ s.phase # "COMPLETE"
      /\ s \in DialogueState /\ Typed(s) /\ s.count \in 1 .. 2
  BY Ranks, Names, StateIsTyped DEF Processed
<1>2. k + 1 \in 1 .. 8 /\ Dialogue!PhaseOrder[k + 1] \in Phases
  BY Ranks
<1>3. Dialogue!PhaseOrder[k + 1] = "COMPLETE" <=> k + 1 = 8
  BY <1>2, Ranks, Names
<1>4. CASE s.count < 2
  <2>1. Dialogue!Advanced(s) = s
    BY <1>1, <1>4 DEF Dialogue!Advanced, Dialogue!MinInteractions
  <2>2. Sound(s, k)
    BY <1>1, <1>4 DEF Processed, Sound, Typed
  <2> QED BY <2>1, <2>2
<1>5. CASE s.count = 2
  <2> DEFINE last == Dialogue!PhaseOrder[k + 1] = "COMPLETE"
             a == Dialogue!Advanced(s)
  <2>1. a = [s EXCEPT !.phase = Dialogue!PhaseOrder[k + 1], !.count = 0, !.completed = last]
    BY <1>1, <1>5 DEF Dialogue!Advanced, Dialogue!MinInteractions
  <2>2. \A x \in Phases, y \in Nat, z \in BOOLEAN :
          [s EXCEPT !.phase = x, !.count = y, !.completed = z] \in DialogueState
    BY <1>1 DEF DialogueState
  <2>3. last \in BOOLEAN /\ (last <=> k + 1 = 8)
    BY <1>3
  <2> HIDE DEF last, a
  <2>4. a \in DialogueState
    BY <1>2, <2>1, <2>2, <2>3
  <2>5. /\ a.phase = Dialogue!PhaseOrder[k + 1] /\ a.count = 0
        /\ a.answers = s.answers /\ a.completed = last
        /\ a.slip = s.slip /\ a.confirmed = s.confirmed /\ a.inferred = s.inferred
        /\ a.form = s.form /\ a.named = s.named /\ a.seed = s.seed
    BY <1>1, <2>1 DEF DialogueState
  <2>6. Found(a, k + 1)
    BY <1>1, <2>5 DEF Processed, Found, Typed
  <2>7. k = 7 => Seeded(a)
    BY <2>5 DEF Processed, Seeded
  <2>8. a.count < 2 /\ a.answers = 2 * ((k + 1) - 1) + a.count
    BY <1>5, <2>5 DEF Processed
  <2>9. k + 1 = 7 => a.seed = {}
    BY <2>5 DEF Processed, Found
  <2>10. Sound(a, k + 1)
    BY <1>2, <2>3, <2>4, <2>5, <2>6, <2>7, <2>8, <2>9 DEF Sound
  <2> QED BY <1>2, <2>5, <2>10 DEF a
<1> QED BY <1>1, <1>4, <1>5

Sane(s) == \E k \in 1 .. 8 : Sound(s, k)

\* A call that no other one has overtaken knows the state that is saved.
DialogueInv ==
  /\ Sane(saved) /\ starts \in Nat
  /\ call = [c \in Calls |-> call[c]]
  /\ \A c \in Calls :
       /\ call[c].pc \in {"idle", "loaded", "started"} /\ Sane(call[c].state)
       /\ call[c].pc # "idle" /\ c \notin stale => call[c].state = saved

LEMMA FreshIsSane == Sane(Dialogue!Fresh)
<1>1. Dialogue!Fresh \in DialogueState
  BY Names, Ranks DEF Dialogue!Fresh, DialogueState
<1>2. Found(Dialogue!Fresh, 1)
  BY DEF Dialogue!Fresh, Found
<1>3. Dialogue!Fresh.phase = Dialogue!PhaseOrder[1] /\ Dialogue!Fresh.count = 0
  BY Names DEF Dialogue!Fresh
<1>4. Dialogue!Fresh.answers = 0 /\ Dialogue!Fresh.completed = FALSE
  BY DEF Dialogue!Fresh
<1>5. Sound(Dialogue!Fresh, 1)
  BY <1>1, <1>2, <1>3, <1>4 DEF Sound
<1> QED BY <1>5 DEF Sane

LEMMA DialogueInit == ASSUME Dialogue!Init PROVE DialogueInv
BY FreshIsSane DEF DialogueInv, Dialogue!Init, Dialogue!Idle

\* What a call saves is what it heard, or what it loaded, of a state that was saved once:
\* only if that is not the state saved now can an answer be lost.
LEMMA DialogueStep ==
  ASSUME DialogueInv, [Dialogue!Next]_(Dialogue!vars)
  PROVE  DialogueInv' /\ Dialogue!OnlyOvertakenLose
<1> USE DEF DialogueInv
<1>0. Sane(Dialogue!Fresh) /\ Sane(Dialogue!Idle.state) /\ Dialogue!Idle.pc = "idle"
  BY FreshIsSane DEF Dialogue!Idle
<1>n. \A s : Sane(s) => s.answers \in Nat /\ s.completed \in BOOLEAN
  BY DEF Sane, Sound, DialogueState
\* A call ends, saves a sane state and makes what the others know stale.
<1>s. ASSUME NEW c \in Calls, NEW s, Sane(s), call[c].pc # "idle",
             call' = [call EXCEPT ![c] = Dialogue!Idle], Dialogue!Save(c, s), starts' = starts,
             c \notin stale => s.answers >= saved.answers /\ (saved.completed => s.completed)
      PROVE  DialogueInv' /\ Dialogue!OnlyOvertakenLose
  <2>1. saved' = s /\ stale' = (stale \ {c}) \cup Dialogue!Others(c)
    BY <1>s DEF Dialogue!Save
  <2>2. \A d \in Calls : call'[d] = IF d = c THEN Dialogue!Idle ELSE call[d]
    BY <1>s
  <2>3. DialogueInv'
    BY <1>0, <1>s, <2>1, <2>2 DEF Dialogue!Others
  <2>4. Dialogue!OnlyOvertakenLose
    BY <1>n, <1>s, <2>1, <2>2 DEF Dialogue!OnlyOvertakenLose
  <2> QED BY <2>3, <2>4
\* Nothing is saved.
<1>k. ASSUME saved' = saved PROVE Dialogue!OnlyOvertakenLose
  BY <1>k, <1>n DEF Dialogue!OnlyOvertakenLose
<1>1. ASSUME NEW c \in Calls, Dialogue!Load(c)
      PROVE  DialogueInv' /\ Dialogue!OnlyOvertakenLose
  <2>1. DialogueInv'
    BY <1>1 DEF Dialogue!Load
  <2> QED BY <1>1, <1>k, <2>1 DEF Dialogue!Load
<1>2. ASSUME NEW c \in Calls, Dialogue!Start(c)
      PROVE  DialogueInv' /\ Dialogue!OnlyOvertakenLose
  <2>1. DialogueInv'
    BY <1>0, <1>2 DEF Dialogue!Start, Dialogue!Save, Dialogue!Others
  <2>2. starts' # starts
    BY <1>2 DEF Dialogue!Start
  <2> QED BY <2>1, <2>2 DEF Dialogue!OnlyOvertakenLose
<1>3. ASSUME NEW c \in Calls, Dialogue!Prompt(c)
      PROVE  DialogueInv' /\ Dialogue!OnlyOvertakenLose
  <2>1. /\ call[c].pc # "idle" /\ Sane(call[c].state)
        /\ c \notin stale => call[c].state = saved
    BY <1>3 DEF Dialogue!Prompt
  <2>2. ASSUME c \notin stale
        PROVE  /\ call[c].state.answers >= saved.answers
               /\ saved.completed => call[c].state.completed
    BY <1>n, <2>1, <2>2
  <2> QED BY <1>3, <1>s, <2>1, <2>2 DEF Dialogue!Prompt
<1>4. ASSUME NEW c \in Calls, Dialogue!GiveUp(c)
      PROVE  DialogueInv' /\ Dialogue!OnlyOvertakenLose
  <2>1. DialogueInv'
    BY <1>0, <1>4 DEF Dialogue!GiveUp
  <2> QED BY <1>4, <1>k, <2>1 DEF Dialogue!GiveUp
<1>5. ASSUME NEW c \in Calls, Dialogue!Redirect(c)
      PROVE  DialogueInv' /\ Dialogue!OnlyOvertakenLose
  <2>1. /\ call[c].pc # "idle" /\ Sane(call[c].state)
        /\ c \notin stale => call[c].state = saved
    BY <1>5 DEF Dialogue!Redirect
  <2>2. ASSUME c \notin stale
        PROVE  /\ call[c].state.answers >= saved.answers
               /\ saved.completed => call[c].state.completed
    BY <1>n, <2>1, <2>2
  <2> QED BY <1>5, <1>s, <2>1, <2>2 DEF Dialogue!Redirect
<1>6. ASSUME NEW c \in Calls, NEW extracted \in BOOLEAN, NEW traits \in {0, 1, 3},
             Dialogue!Advance(c, extracted, traits)
      PROVE  DialogueInv' /\ Dialogue!OnlyOvertakenLose
  <2> DEFINE s == call[c].state
             p == Dialogue!Processed(Dialogue!Heard(s), extracted, traits)
             a == Dialogue!Advanced(p)
  <2>1. /\ call[c].pc # "idle" /\ ~s.completed
        /\ c \notin stale => s = saved
        /\ call' = [call EXCEPT ![c] = Dialogue!Idle] /\ Dialogue!Save(c, a) /\ starts' = starts
    BY <1>6 DEF Dialogue!Advance
  <2>2. PICK k \in 1 .. 7 : Sound(s, k)
    <3>1. PICK k \in 1 .. 8 : Sound(s, k)
      BY DEF Sane
    <3>2. k # 8
      BY <2>1, <3>1 DEF Sound
    <3> QED BY <3>1, <3>2
  <2>3. Processed(p, k) /\ p.answers = s.answers + 1
    BY <2>2, PhaseIsProcessed
  <2>4. Sane(a) /\ a.answers = p.answers
    BY <2>3, PhaseAdvances DEF Sane
  <2> HIDE DEF a, p
  <2>5. a.answers = s.answers + 1 /\ s.answers \in Nat
    BY <1>n, <2>3, <2>4
  <2>6. c \notin stale => a.answers >= saved.answers /\ (saved.completed => a.completed)
    BY <2>1, <2>5
  <2> QED BY <1>s, <2>1, <2>4, <2>6
<1>7. CASE UNCHANGED Dialogue!vars
  <2>1. DialogueInv'
    BY <1>7 DEF Dialogue!vars
  <2> QED BY <1>7, <1>k, <2>1 DEF Dialogue!vars
<1> QED
  BY <1>1, <1>2, <1>3, <1>4, <1>5, <1>6, <1>7 DEF Dialogue!Next

-----------------------------------------------------------------------------
(* The limits of an address                                                   *)

Patterns == DOMAIN PatternConfig
Entry == [by : Requests, at : Nat]
Punishable == {"refused", "added", "punishing"}
Outside == {"new", "over"}
LimitPlaces == {"checking", "admitting", "served"} \cup Outside \cup Punishable
LimitState ==
  [pc : LimitPlaces, at : Nat, pattern : Patterns \cup {"none"}, count : Nat,
   overtaken : BOOLEAN, late : BOOLEAN]
CooldownState == [until : Nat, pattern : Patterns \cup {"none"}]

LimitsType ==
  /\ now \in Nat
  /\ window \in SUBSET Entry /\ IsFiniteSet(window)
  /\ violations \in [Patterns -> SUBSET Entry]
  /\ \A p \in Patterns : IsFiniteSet(violations[p]) /\ \A e \in violations[p] : e.at <= now
  /\ cooldown \in [Limits!Names -> CooldownState]
  /\ request \in [Requests -> LimitState]
  /\ \A r \in Requests : request[r].pc \in Punishable => request[r].pattern \in Patterns

\* What BlockIsNotMissed says of one pattern.
Settled(p) ==
  \A r \in Requests : request[r].pattern = p => request[r].pc \notin {"added", "punishing"}
Held(p) == IF p \in overwritten THEN cooldown[Limits!Identity].pattern ELSE p
Blocked(p) ==
  Settled(p) /\ Cardinality(violations[p]) > PatternConfig[p].threshold /\ p \notin cut
  => cooldown[Limits!Identity].until >=
       Limits!Max({e.at : e \in violations[p]}) + Limits!FirstCooldown(Held(p))

InWindow == Limits!Recent(window, Window)
Permitted == {e \in InWindow : e.by \notin outrun}

\* There is room for a request that was counted and that no other one has overtaken; and
\* a request that is not late was let through when no block was left, and none was made since.
HasRoom(r) ==
  request[r].pc = "admitting" /\ ~request[r].overtaken => Cardinality(InWindow) < RequestLimit
InTime(r) ==
  request[r].pc \notin Outside /\ ~request[r].late => cooldown[Limits!Identity].until <= now

LimitsInv ==
  /\ LimitsType
  /\ Cardinality(Permitted) <= RequestLimit
  /\ \A r \in Requests : HasRoom(r) /\ InTime(r)
  /\ \A p \in Patterns : Blocked(p)

\* RequestLimits counts, and names the patterns, as this module does.
LEMMA LimitsSizes == \A S : Limits!Cardinality(S) = Cardinality(S)
BY DEF Limits!Cardinality, Cardinality
LEMMA SamePatterns == Limits!Patterns = Patterns
BY DEF Limits!Patterns, Patterns

LEMMA ConfigType ==
  ASSUME NEW p \in Patterns
  PROVE  PatternConfig[p] \in [threshold : Nat, window : Nat, base : Nat]
BY LimitsAssumption DEF Patterns

LEMMA LeastNumber ==
  ASSUME NEW S \in SUBSET Nat, S # {}
  PROVE  \E n \in S : \A m \in S : n <= m
<1>1. \E n \in S : \A m \in S : ~(<<m, n>> \in OpToRel(<, Nat))
  BY NatLessThanWellFounded, WFMin
<1>2. PICK n \in S : \A m \in S : ~(<<m, n>> \in OpToRel(<, Nat))
  BY <1>1
<1>3. \A m \in S : ~(m < n)
  BY <1>2 DEF OpToRel
<1> QED BY <1>3

\* Of numbers none of which is greater than one, there is a greatest.
LEMMA MaxIsOne ==
  ASSUME NEW S \in SUBSET Nat, S # {}, NEW top \in Nat, \A x \in S : x <= top
  PROVE  Limits!Max(S) \in S
<1> DEFINE above == {n \in Nat : \A x \in S : x <= n}
<1>1. PICK n \in above : \A m \in above : n <= m
  <2>1. top \in above /\ above \in SUBSET Nat
    OBVIOUS
  <2> HIDE DEF above
  <2> QED BY <2>1, LeastNumber
<1>2. n \in S
  <2> SUFFICES ASSUME n \notin S PROVE FALSE
    OBVIOUS
  <2>1. PICK x \in S : TRUE
    OBVIOUS
  <2>2. n > 0
    BY <1>1, <2>1
  <2>3. \A y \in S : y <= n - 1
    BY <1>1
  <2>4. n - 1 \in above
    BY <2>2, <2>3
  <2> QED BY <1>1, <2>4
<1>3. \E m \in S : \A x \in S : m >= x
  BY <1>1, <1>2
<1> QED BY <1>3 DEF Limits!Max

LEMMA LeastOfTwo ==
  ASSUME NEW a \in Int, NEW b \in Int
  PROVE  Limits!Min({a, b}) = IF a <= b THEN a ELSE b
BY DEF Limits!Min
LEMMA GreatestOfTwo ==
  ASSUME NEW a \in Int, NEW b \in Int
  PROVE  Limits!Max({a, b}) = IF a >= b THEN a ELSE b
BY DEF Limits!Max

\* However many violations there were, the cooldown is at least the base one.
LEMMA CooldownIsLong ==
  ASSUME NEW n \in Nat, NEW p \in Patterns
  PROVE  /\ Limits!CalculateCooldown(n, PatternConfig[p]) \in Nat
         /\ Limits!FirstCooldown(p) \in Nat
         /\ Limits!CalculateCooldown(n, PatternConfig[p]) >= Limits!FirstCooldown(p)
<1> DEFINE base == PatternConfig[p].base
           threshold == PatternConfig[p].threshold
           excess == Limits!Max({0, n - threshold - 1})
           i == 1 + Limits!Min({10, excess})
           long == base * Limits!Doubled[i]
<1>0. base \in Nat /\ Longest \in Nat /\ threshold \in Nat
  BY ConfigType, LimitsAssumption
<1>6. Limits!CalculateCooldown(n, PatternConfig[p]) = Limits!Min({long, Longest})
  BY DEF Limits!CalculateCooldown
<1>7. Limits!FirstCooldown(p) = Limits!Min({base, Longest})
  BY DEF Limits!FirstCooldown
<1> HIDE DEF base, threshold
<1>1. excess \in Nat
  BY <1>0, GreatestOfTwo
<1> HIDE DEF excess
<1>2. i \in 1 .. 11
  BY <1>1, LeastOfTwo
<1>3. \A k \in 1 .. 11 : Limits!Doubled[k] \in {1, 2, 4, 8, 16, 32, 64, 128, 256, 512, 1024}
  BY DEF Limits!Doubled
<1>4. \A d \in {1, 2, 4, 8, 16, 32, 64, 128, 256, 512, 1024} : base * d \in Nat /\ base <= base * d
  BY <1>0
<1> HIDE DEF i
<1>5. long \in Nat /\ base <= long
  BY <1>2, <1>3, <1>4
<1> HIDE DEF long
<1> QED BY <1>0, <1>5, <1>6, <1>7, LeastOfTwo

LEMMA LimitsInit == ASSUME Limits!Init PROVE LimitsInv
<1>1. IsFiniteSet({}) /\ Cardinality({}) = 0
  BY FS_EmptySet
<1>2. Limits!New \in LimitState /\ Limits!NoCooldown \in CooldownState
  BY DEF Limits!New, Limits!NoCooldown, LimitState, LimitPlaces, Outside, CooldownState
<1>3. Limits!New.pc = "new" /\ Limits!New.pc \notin Punishable
  BY DEF Limits!New, Punishable
<1>4. LimitsType
  BY <1>1, <1>2, <1>3, SamePatterns DEF Limits!Init, LimitsType
<1>5. Permitted = {}
  BY DEF Limits!Init, Permitted, InWindow, Limits!Recent
<1>6. \A p \in Patterns : Cardinality(violations[p]) = 0 /\ PatternConfig[p].threshold \in Nat
  BY <1>1, ConfigType, SamePatterns DEF Limits!Init
<1>7. RequestLimit \in Nat
  BY LimitsAssumption
<1>8. Cardinality(Permitted) <= RequestLimit
  BY <1>1, <1>5, <1>7
<1>9. \A p \in Patterns : Blocked(p)
  BY <1>6 DEF Blocked
<1>10. \A r \in Requests : HasRoom(r) /\ InTime(r)
  BY <1>3 DEF Limits!Init, HasRoom, InTime, Outside
<1> QED BY <1>4, <1>8, <1>9, <1>10 DEF LimitsInv

\* What is recent in a window that nothing is added to shrinks as time passes.
LEMMA WindowShrinks ==
  ASSUME LimitsInv, LimitsType', now' >= now, outrun' = outrun, window' \subseteq window
  PROVE  /\ Cardinality(Permitted') <= RequestLimit
         /\ Cardinality(InWindow') <= Cardinality(InWindow)
         /\ Cardinality(InWindow') \in Nat /\ Cardinality(InWindow) \in Nat
<1>0. Window \in Nat /\ RequestLimit \in Nat /\ Cardinality(Permitted) <= RequestLimit
  BY LimitsAssumption DEF LimitsInv
<1>1. InWindow' \subseteq InWindow
  <2> SUFFICES ASSUME NEW e \in InWindow' PROVE e \in InWindow
    OBVIOUS
  <2>1. e \in window' /\ e.at > now' - Window
    BY DEF InWindow, Limits!Recent
  <2>2. e \in window /\ e.at \in Nat /\ now \in Nat /\ now' \in Nat
    BY <2>1 DEF LimitsInv, LimitsType, Entry
  <2>3. e.at > now - Window
    BY <1>0, <2>1, <2>2
  <2> QED BY <2>1, <2>2, <2>3 DEF InWindow, Limits!Recent
<1>2. Permitted' \subseteq Permitted
  BY <1>1 DEF Permitted
<1>3. IsFiniteSet(InWindow) /\ IsFiniteSet(Permitted)
  BY FS_Subset DEF LimitsInv, LimitsType, Permitted, InWindow, Limits!Recent
<1>4. /\ Cardinality(Permitted') <= Cardinality(Permitted)
      /\ Cardinality(Permitted) \in Nat /\ Cardinality(Permitted') \in Nat
  BY <1>2, <1>3, FS_Subset, FS_CardinalityType
<1>5. /\ Cardinality(InWindow') <= Cardinality(InWindow)
      /\ Cardinality(InWindow) \in Nat /\ Cardinality(InWindow') \in Nat
  BY <1>1, <1>3, FS_Subset, FS_CardinalityType
<1> QED BY <1>0, <1>4, <1>5

\* A pattern stays blocked when neither what is known of it nor the cooldown changes.
LEMMA BlockedStays ==
  ASSUME NEW p \in Patterns, Blocked(p),
         Settled(p)' => Settled(p), violations'[p] = violations[p], p \in cut => p \in cut',
         cooldown'[Limits!Identity] = cooldown[Limits!Identity], overwritten' = overwritten
  PROVE  Blocked(p)'
BY DEF Blocked, Held

LEMMA LimitsTypeStep == ASSUME LimitsType, Limits!Next PROVE LimitsType'
<1> USE DEF LimitsType
<1>0. /\ Limits!New \in LimitState /\ Limits!Over \in LimitState
      /\ Limits!New.pc = "new" /\ Limits!Over.pc = "over"
      /\ Limits!NoCooldown \in CooldownState
      /\ {"rapid fire", "credential stuffing"} \subseteq Patterns
  BY LimitsAssumption
  DEF Limits!New, Limits!Over, Limits!NoCooldown, LimitState, LimitPlaces, Outside, CooldownState,
      Patterns
\* A request goes from one place to another.
<1>g. ASSUME NEW r \in Requests, NEW q \in LimitState, request' = [request EXCEPT ![r] = q],
             q.pc \in Punishable => q.pattern \in Patterns
      PROVE  /\ request' \in [Requests -> LimitState]
             /\ \A s \in Requests : request'[s].pc \in Punishable => request'[s].pattern \in Patterns
  BY <1>g
<1>f. ASSUME NEW r \in Requests, Limits!Finish(r)
      PROVE  /\ request' \in [Requests -> LimitState]
             /\ \A s \in Requests : request'[s].pc \in Punishable => request'[s].pattern \in Patterns
  BY <1>0, <1>f, <1>g DEF Limits!Finish, Punishable
<1>t. ASSUME NEW r \in Requests, NEW pc \in LimitPlaces, Limits!Goto(r, pc),
             pc \in Punishable => request[r].pattern \in Patterns
      PROVE  /\ request' \in [Requests -> LimitState]
             /\ \A s \in Requests : request'[s].pc \in Punishable => request'[s].pattern \in Patterns
  <2>1. request[r] \in LimitState
    OBVIOUS
  <2>2. /\ [request[r] EXCEPT !.pc = pc] \in LimitState
        /\ [request[r] EXCEPT !.pc = pc].pc = pc
        /\ [request[r] EXCEPT !.pc = pc].pattern = request[r].pattern
    BY <2>1 DEF LimitState
  <2>3. request' = [request EXCEPT ![r] = [request[r] EXCEPT !.pc = pc]]
    BY <1>t DEF Limits!Goto
  <2> QED BY <1>g, <1>t, <2>2, <2>3
<1>1. CASE Limits!Tick
  <2>1. now' \in Nat /\ now' > now
    BY <1>1 DEF Limits!Tick
  <2>2. \A p \in Patterns : \A e \in violations[p] : e.at \in Nat /\ e.at <= now'
    BY <2>1 DEF Entry
  <2> QED BY <1>1, <2>1, <2>2 DEF Limits!Tick
<1>2. CASE Limits!ClearCooldown
  <2>1. cooldown' \in [Limits!Names -> CooldownState]
    BY <1>0, <1>2 DEF Limits!ClearCooldown
  <2> QED BY <1>2, <2>1 DEF Limits!ClearCooldown
<1>3. CASE Limits!ClearKey
  BY <1>3, FS_EmptySet DEF Limits!ClearKey
<1>4. ASSUME NEW r \in Requests, Limits!CheckCooldown(r)
      PROVE  LimitsType'
  <2>1. Limits!Goto(r, "checking") \/ Limits!Finish(r)
    BY <1>4 DEF Limits!CheckCooldown
  <2>2. UNCHANGED <<now, window, violations, cooldown>>
    BY <1>4 DEF Limits!CheckCooldown
  <2> QED BY <1>f, <1>t, <2>1, <2>2 DEF LimitPlaces, Punishable
<1>12. ASSUME NEW r \in Requests, Limits!DetectorFails(r)
       PROVE  LimitsType'
  <2> DEFINE late == [request[r] EXCEPT !.pc = "checking", !.late = TRUE]
  <2>1. late \in LimitState /\ late.pc = "checking"
    BY DEF LimitState, LimitPlaces
  <2>2. request' = [request EXCEPT ![r] = late]
    BY <1>12 DEF Limits!DetectorFails
  <2> HIDE DEF late
  <2> QED BY <1>12, <1>g, <2>1, <2>2 DEF Limits!DetectorFails, Punishable
<1>5. ASSUME NEW r \in Requests, Limits!Count(r) PROVE LimitsType'
  <2>1. window' \in SUBSET Entry /\ IsFiniteSet(window')
    BY <1>5, FS_Subset DEF Limits!Count, Limits!Recent
  <2> DEFINE in == [request[r] EXCEPT !.pc = "admitting", !.at = now]
             no == [request[r] EXCEPT !.pc = "refused", !.pattern = "rapid fire"]
  <2>2. in \in LimitState /\ in.pc = "admitting" /\ no \in LimitState /\ no.pattern \in Patterns
    BY <1>0 DEF LimitState, LimitPlaces, Punishable
  <2>3. request' = [request EXCEPT ![r] = in] \/ request' = [request EXCEPT ![r] = no]
    BY <1>5 DEF Limits!Count
  <2> HIDE DEF in, no
  <2> QED BY <1>5, <1>g, <2>1, <2>2, <2>3 DEF Limits!Count, Punishable
<1>6. ASSUME NEW r \in Requests, Limits!Admit(r) PROVE LimitsType'
  <2>1. [by |-> r, at |-> request[r].at] \in Entry
    BY DEF Entry, LimitState
  <2>2. window' \in SUBSET Entry /\ IsFiniteSet(window')
    <3> DEFINE e == [by |-> r, at |-> request[r].at]
    <3>1. window' = window \cup {e}
      BY <1>6 DEF Limits!Admit
    <3>2. e \in Entry
      BY <2>1
    <3> HIDE DEF e
    <3>3. IsFiniteSet(window \cup {e})
      BY FS_AddElement
    <3> QED BY <3>1, <3>2, <3>3
  <2> DEFINE in(q) == [request[q] EXCEPT !.pc = "served", !.at = 0, !.overtaken = FALSE]
             over(q) == [request[q] EXCEPT !.overtaken = TRUE]
  <2>3. ASSUME NEW q \in Requests
        PROVE  /\ in(q) \in LimitState /\ in(q).pc = "served"
               /\ over(q) \in LimitState /\ over(q).pc = request[q].pc /\ over(q).pattern = request[q].pattern
    BY DEF LimitState, LimitPlaces
  <2>4. request' = [q \in Requests |->
                      IF q = r THEN in(q) ELSE IF request[q].pc = "admitting" THEN over(q) ELSE request[q]]
    BY <1>6 DEF Limits!Admit
  <2> HIDE DEF in, over
  <2>5. \A q \in Requests :
           request'[q] \in LimitState /\ (request'[q].pc \in Punishable => request'[q].pattern \in Patterns)
    BY <2>3, <2>4 DEF Punishable
  <2>6. request' \in [Requests -> LimitState]
    BY <2>4, <2>5
  <2> QED BY <1>6, <2>2, <2>5, <2>6 DEF Limits!Admit
<1>7. ASSUME NEW r \in Requests, NEW u \in BOOLEAN, Limits!Answer(r, u) PROVE LimitsType'
  <2> DEFINE no == [request[r] EXCEPT !.pc = "refused", !.pattern = "credential stuffing"]
  <2>1. no \in LimitState /\ no.pattern \in Patterns
    BY <1>0 DEF LimitState, LimitPlaces, Punishable
  <2>2. request' = [request EXCEPT ![r] = no] \/ Limits!Finish(r)
    BY <1>7 DEF Limits!Answer, Limits!Finish
  <2> HIDE DEF no
  <2> QED BY <1>7, <1>f, <1>g, <2>1, <2>2 DEF Limits!Answer
<1>8. ASSUME NEW r \in Requests, Limits!AddViolation(r) PROVE LimitsType'
  <2> DEFINE p == request[r].pattern
             kept == Limits!Recent(violations[p], PatternConfig[p].window)
             new == kept \cup {[by |-> r, at |-> now]}
  <2>1. p \in Patterns /\ violations' = [violations EXCEPT ![p] = new]
    BY <1>8 DEF Limits!AddViolation, Punishable
  <2>2. new \in SUBSET Entry /\ \A e \in new : e.at <= now
    BY <2>1 DEF Limits!Recent, Entry
  <2>3. IsFiniteSet(new)
    <3>1. IsFiniteSet(kept)
      BY <2>1, FS_Subset DEF Limits!Recent
    <3> QED BY <3>1, FS_AddElement
  <2> HIDE DEF p, new
  <2>4. /\ violations' \in [Patterns -> SUBSET Entry] /\ now' = now
        /\ \A m \in Patterns : IsFiniteSet(violations'[m]) /\ \A e \in violations'[m] : e.at <= now
    BY <1>8, <2>1, <2>2, <2>3 DEF Limits!AddViolation
  <2>5. /\ request' \in [Requests -> LimitState]
        /\ \A s \in Requests : request'[s].pc \in Punishable => request'[s].pattern \in Patterns
    BY <1>8, <1>t, <2>1 DEF Limits!AddViolation, LimitPlaces, Punishable, p
  <2>6. UNCHANGED <<window, cooldown>>
    BY <1>8 DEF Limits!AddViolation
  <2> QED BY <2>4, <2>5, <2>6
<1>9. ASSUME NEW r \in Requests, Limits!CountViolations(r) PROVE LimitsType'
  <2> DEFINE n == Limits!Cardinality(violations[request[r].pattern])
             punished == [request[r] EXCEPT !.pc = "punishing", !.count = n]
  <2>1. request[r].pattern \in Patterns
    BY <1>9 DEF Limits!CountViolations, Punishable
  <2>2. n \in Nat
    BY <2>1, FS_CardinalityType, LimitsSizes
  <2>3. request' = [request EXCEPT ![r] = punished] \/ Limits!Finish(r)
    BY <1>9 DEF Limits!CountViolations, Limits!Finish
  <2> HIDE DEF n
  <2>4. punished \in LimitState /\ punished.pattern = request[r].pattern
    BY <2>2 DEF LimitState, LimitPlaces, Punishable
  <2> HIDE DEF punished
  <2> QED BY <1>9, <1>f, <1>g, <2>1, <2>3, <2>4 DEF Limits!CountViolations
<1>10. ASSUME NEW r \in Requests, Limits!SetCooldown(r) PROVE LimitsType'
  <2> DEFINE p == request[r].pattern
             long == Limits!CalculateCooldown(request[r].count, PatternConfig[p])
             late(q) == [request[q] EXCEPT !.late = TRUE]
  <2>1. request[r].count \in Nat /\ p \in Patterns
    BY <1>10 DEF LimitState, Limits!SetCooldown, Punishable
  <2>2. now + long \in Nat
    BY <2>1, CooldownIsLong
  <2>3. cooldown' = [cooldown EXCEPT ![Limits!Identity] = [until |-> now + long, pattern |-> p]]
    BY <1>10 DEF Limits!SetCooldown
  <2>4. request' = [q \in Requests |->
                      IF q = r THEN Limits!Over ELSE IF request[q].pc \in Outside THEN request[q] ELSE late(q)]
    BY <1>10 DEF Limits!SetCooldown, Outside
  <2>5. ASSUME NEW q \in Requests
        PROVE  late(q) \in LimitState /\ late(q).pc = request[q].pc /\ late(q).pattern = request[q].pattern
    BY DEF LimitState
  <2> HIDE DEF long, late, p
  <2>6. cooldown' \in [Limits!Names -> CooldownState]
    BY <2>1, <2>2, <2>3 DEF CooldownState
  <2>7. \A q \in Requests :
           request'[q] \in LimitState /\ (request'[q].pc \in Punishable => request'[q].pattern \in Patterns)
    BY <1>0, <2>4, <2>5 DEF Punishable
  <2>8. request' \in [Requests -> LimitState]
    BY <2>4, <2>7
  <2> QED BY <1>10, <2>6, <2>7, <2>8 DEF Limits!SetCooldown
<1>11. ASSUME NEW r \in Requests, Limits!Abort(r) PROVE LimitsType'
  BY <1>11, <1>f DEF Limits!Abort
<1> QED
  BY <1>1, <1>2, <1>3, <1>4, <1>5, <1>6, <1>7, <1>8, <1>9, <1>10, <1>11, <1>12 DEF Limits!Next

\* What a request does to the window leaves the limit kept, what it does about a pattern
\* leaves the block made or the pattern unsettled, and others' patterns are left alone.
LEMMA LimitsStep == ASSUME LimitsInv, [Limits!Next]_(Limits!vars) PROVE LimitsInv'
<1>0. /\ LimitsType /\ Cardinality(Permitted) <= RequestLimit
      /\ \A r \in Requests : HasRoom(r) /\ InTime(r)
      /\ \A p \in Patterns : Blocked(p)
  BY DEF LimitsInv
<1>t. LimitsType'
  <2>1. CASE UNCHANGED Limits!vars
    BY <1>0, <2>1 DEF LimitsType, Limits!vars
  <2> QED BY <1>0, <2>1, LimitsTypeStep
<1>n. now \in Nat /\ now' \in Nat /\ RequestLimit \in Nat
  BY <1>0, <1>t, LimitsAssumption DEF LimitsType
<1>c. /\ cooldown[Limits!Identity].until \in Nat /\ cooldown'[Limits!Identity].until \in Nat
      /\ \A r \in Requests : request[r] \in LimitState
  BY <1>0, <1>t DEF LimitsType, CooldownState, Limits!Names
\* Nothing is added to the window, and nobody is counted.
<1>w. ASSUME now' = now \/ now' = now + 1, outrun' = outrun, window' \subseteq window
      PROVE  /\ Cardinality(Permitted') <= RequestLimit
             /\ Cardinality(InWindow') <= Cardinality(InWindow)
             /\ Cardinality(InWindow') \in Nat /\ Cardinality(InWindow) \in Nat
  BY <1>n, <1>t, <1>w, WindowShrinks
<1>m. ASSUME NEW s \in Requests, now' = now \/ now' = now + 1, outrun' = outrun, window' \subseteq window,
             \/ request'[s] = request[s] \/ request'[s].pc # "admitting"
             \/ request'[s].pc = request[s].pc /\ request'[s].overtaken = request[s].overtaken
      PROVE  HasRoom(s)'
  <2>1. Cardinality(InWindow) < RequestLimit => Cardinality(InWindow') < RequestLimit
    BY <1>m, <1>n, <1>w
  <2> QED BY <1>0, <1>m, <2>1 DEF HasRoom
\* No cooldown is set.
<1>l. ASSUME NEW s \in Requests, now' = now \/ now' = now + 1,
             cooldown'[Limits!Identity] = cooldown[Limits!Identity],
             \/ request'[s] = request[s] \/ request'[s].pc \in Outside
             \/ request[s].pc \notin Outside /\ request'[s].late = request[s].late
      PROVE  InTime(s)'
  BY <1>0, <1>c, <1>l, <1>n DEF InTime
\* A request goes on, and is not one that has a violation to count.
<1>b. ASSUME NEW r \in Requests, \A s \in Requests \ {r} : request'[s].pc = request[s].pc /\ request'[s].pattern = request[s].pattern,
             request[r].pc \notin {"added", "punishing"},
             UNCHANGED <<violations, cooldown, cut, overwritten>>
      PROVE  \A p \in Patterns : Blocked(p)'
  <2> SUFFICES ASSUME NEW p \in Patterns PROVE Blocked(p)'
    OBVIOUS
  <2>1. Settled(p)' => Settled(p)
    BY <1>0, <1>b DEF LimitsType, Settled
  <2> QED BY <1>0, <1>b, <2>1, BlockedStays
<1>u. ASSUME UNCHANGED <<request, violations, cut, overwritten>>,
             cooldown'[Limits!Identity] = cooldown[Limits!Identity]
      PROVE  \A p \in Patterns : Blocked(p)'
  BY <1>0, <1>u, BlockedStays DEF Settled
\* One request goes from one place to another; it is q then.
<1>r. ASSUME NEW r \in Requests, NEW q, request' = [request EXCEPT ![r] = q]
      PROVE  request'[r] = q /\ \A s \in Requests \ {r} : request'[s] = request[s]
  BY <1>0, <1>r DEF LimitsType
<1>1. ASSUME Limits!Tick \/ Limits!ClearKey PROVE LimitsInv'
  <2>1. /\ now' = now \/ now' = now + 1
        /\ window' \subseteq window /\ UNCHANGED <<request, violations, cooldown, cut, outrun, overwritten>>
    BY <1>1 DEF Limits!Tick, Limits!ClearKey
  <2> QED BY <1>l, <1>m, <1>t, <1>u, <1>w, <2>1 DEF LimitsInv
<1>2. CASE Limits!ClearCooldown
  <2>1. cooldown'[Limits!Identity] = cooldown[Limits!Identity]
    BY <1>0, <1>2
    DEF Limits!ClearCooldown, LimitsType, Limits!Names, Limits!Identity, Limits!Address
  <2>2. UNCHANGED <<now, window, request, violations, cut, outrun, overwritten>>
    BY <1>2 DEF Limits!ClearCooldown
  <2> QED BY <1>l, <1>m, <1>t, <1>u, <1>w, <2>1, <2>2 DEF LimitsInv
<1>3. ASSUME NEW r \in Requests, Limits!CheckCooldown(r) \/ Limits!DetectorFails(r)
      PROVE  LimitsInv'
  <2>1. PICK q : request' = [request EXCEPT ![r] = q]
    BY <1>3 DEF Limits!CheckCooldown, Limits!DetectorFails, Limits!Goto, Limits!Finish
  <2>2. /\ request[r].pc \notin {"added", "punishing"}
        /\ UNCHANGED <<now, window, violations, cooldown, cut, outrun, overwritten>>
    BY <1>3 DEF Limits!CheckCooldown, Limits!DetectorFails
  <2>3. request'[r].pc \in {"checking", "over"}
    BY <1>0, <1>3 DEF Limits!CheckCooldown, Limits!DetectorFails, Limits!Goto, Limits!Finish,
                      Limits!Over, Limits!New, LimitsType, LimitState
  <2>4. InTime(r)'
    <3>1. CASE Limits!DetectorFails(r)
      <4>1. request'[r] = [request[r] EXCEPT !.pc = "checking", !.late = TRUE]
        BY <1>0, <3>1 DEF Limits!DetectorFails, LimitsType
      <4>2. request'[r].late
        BY <1>c, <4>1 DEF LimitState
      <4> QED BY <4>2 DEF InTime
    <3>2. CASE Limits!CheckCooldown(r)
      <4>1. request'[r].pc = "over" \/ cooldown[Limits!Identity].until <= now
        BY <1>0, <1>c, <1>n, <3>2, <1>r
        DEF Limits!CheckCooldown, Limits!Active, Limits!Finish, Limits!Over, Limits!New, LimitsType
      <4> QED BY <2>2, <4>1 DEF InTime, Outside
    <3> QED BY <1>3, <3>1, <3>2
  <2>5. \A s \in Requests : HasRoom(s)' /\ InTime(s)'
    BY <1>l, <1>m, <1>r, <2>1, <2>2, <2>3, <2>4
  <2> QED BY <1>b, <1>r, <1>t, <1>w, <2>1, <2>2, <2>5 DEF LimitsInv
<1>4. ASSUME NEW r \in Requests, Limits!Count(r) PROVE LimitsInv'
  <2> DEFINE in == [request[r] EXCEPT !.pc = "admitting", !.at = now]
             no == [request[r] EXCEPT !.pc = "refused", !.pattern = "rapid fire"]
  <2>1. /\ request[r].pc = "checking" /\ window' = InWindow
        /\ request' = [request EXCEPT ![r] = IF Cardinality(window') < RequestLimit THEN in ELSE no]
        /\ UNCHANGED <<now, violations, cooldown, cut, outrun, overwritten>>
    BY <1>4, LimitsSizes DEF Limits!Count, InWindow
  <2>2. /\ in.pc = "admitting" /\ in.late = request[r].late
        /\ no.pc = "refused" /\ no.late = request[r].late
    BY <1>c DEF LimitState
  <2> HIDE DEF in, no
  <2>3. InWindow' = window' /\ window' \subseteq window
    BY <2>1 DEF InWindow, Limits!Recent
  <2>4. HasRoom(r)'
    <3>1. request'[r] = IF Cardinality(window') < RequestLimit THEN in ELSE no
      BY <1>r, <2>1
    <3> QED BY <2>2, <2>3, <3>1 DEF HasRoom
  <2>5. request'[r].late = request[r].late /\ request[r].pc \notin Outside
    BY <1>r, <2>1, <2>2 DEF Outside
  <2>6. \A s \in Requests : HasRoom(s)' /\ InTime(s)'
    BY <1>l, <1>m, <1>r, <2>1, <2>3, <2>4, <2>5
  <2>7. \A p \in Patterns : Blocked(p)'
    BY <1>b, <1>r, <2>1
  <2> QED BY <1>t, <1>w, <2>1, <2>3, <2>6, <2>7 DEF LimitsInv
<1>5. ASSUME NEW r \in Requests, Limits!Admit(r) PROVE LimitsInv'
  <2> DEFINE e == [by |-> r, at |-> request[r].at]
             in == [request[r] EXCEPT !.pc = "served", !.at = 0, !.overtaken = FALSE]
             over(q) == [request[q] EXCEPT !.overtaken = TRUE]
  <2>1. /\ request[r].pc = "admitting" /\ window' = window \cup {e} /\ now' = now
        /\ outrun' = IF request[r].overtaken THEN outrun \cup {r} ELSE outrun
        /\ UNCHANGED <<violations, cooldown, cut, overwritten>>
    BY <1>5 DEF Limits!Admit
  <2>2. /\ request'[r] = in
        /\ \A s \in Requests \ {r} :
             request'[s] = IF request[s].pc = "admitting" THEN over(s) ELSE request[s]
    BY <1>5 DEF Limits!Admit
  <2>3. /\ in.pc = "served" /\ in.late = request[r].late
        /\ \A s \in Requests : /\ over(s).overtaken /\ over(s).late = request[s].late
                               /\ over(s).pc = request[s].pc /\ over(s).pattern = request[s].pattern
    BY <1>c DEF LimitState
  <2> HIDE DEF in, over
  <2>f. /\ IsFiniteSet(InWindow) /\ IsFiniteSet(Permitted) /\ Permitted \subseteq InWindow
        /\ Cardinality(InWindow) \in Nat /\ Cardinality(Permitted) \in Nat
    BY <1>0, FS_Subset, FS_CardinalityType DEF LimitsType, Permitted, InWindow, Limits!Recent
  <2>4. ASSUME request[r].overtaken
        PROVE  Cardinality(Permitted') <= RequestLimit
    <3>1. Permitted' \subseteq Permitted
      BY <2>1, <2>4 DEF Permitted, InWindow, Limits!Recent
    <3>2. Cardinality(Permitted') <= Cardinality(Permitted) /\ Cardinality(Permitted') \in Nat
      BY <2>f, <3>1, FS_Subset, FS_CardinalityType
    <3> QED BY <1>0, <1>n, <2>f, <3>2
  <2>5. ASSUME ~request[r].overtaken
        PROVE  Cardinality(Permitted') <= RequestLimit
    <3>0. Cardinality(InWindow) < RequestLimit
      BY <1>0, <2>1, <2>5 DEF HasRoom
    <3>1. Permitted' \subseteq InWindow \cup {e}
      BY <2>1 DEF Permitted, InWindow, Limits!Recent
    <3>2. /\ IsFiniteSet(InWindow \cup {e})
          /\ Cardinality(InWindow \cup {e}) = IF e \in InWindow THEN Cardinality(InWindow) ELSE Cardinality(InWindow) + 1
      BY <2>f, FS_AddElement
    <3>3. Cardinality(Permitted') <= Cardinality(InWindow \cup {e}) /\ Cardinality(Permitted') \in Nat
      BY <3>1, <3>2, FS_Subset, FS_CardinalityType
    <3> QED BY <1>n, <2>f, <3>0, <3>2, <3>3
  <2>6. ASSUME NEW s \in Requests PROVE HasRoom(s)'
    <3>1. CASE s = r
      BY <2>2, <2>3, <3>1 DEF HasRoom
    <3>2. CASE s # r
      BY <2>2, <2>3, <3>2 DEF HasRoom
    <3> QED BY <3>1, <3>2
  <2>7. ASSUME NEW s \in Requests PROVE InTime(s)'
    <3>1. request'[s].late = request[s].late /\ (request[s].pc \in Outside => request'[s] = request[s])
      BY <2>1, <2>2, <2>3 DEF Outside
    <3> QED BY <1>l, <2>1, <3>1
  <2>8. \A p \in Patterns : Blocked(p)'
    BY <1>b, <2>1, <2>2, <2>3
  <2> QED BY <1>t, <2>4, <2>5, <2>6, <2>7, <2>8 DEF LimitsInv
<1>6. ASSUME NEW r \in Requests, NEW u \in BOOLEAN, Limits!Answer(r, u) PROVE LimitsInv'
  <2> DEFINE no == [request[r] EXCEPT !.pc = "refused", !.pattern = "credential stuffing"]
  <2>1. /\ request[r].pc = "served" /\ request' = [request EXCEPT ![r] = IF u THEN no ELSE Limits!Over]
        /\ UNCHANGED <<now, window, violations, cooldown, cut, outrun, overwritten>>
    BY <1>6 DEF Limits!Answer
  <2>2. no.pc = "refused" /\ no.late = request[r].late /\ Limits!Over.pc = "over"
    BY <1>c DEF LimitState, Limits!Over, Limits!New
  <2> HIDE DEF no
  <2>3. /\ request'[r].pc # "admitting" /\ request[r].pc \notin Outside
        /\ request'[r].pc \in Outside \/ request'[r].late = request[r].late
    BY <1>r, <2>1, <2>2 DEF Outside
  <2>4. \A s \in Requests : HasRoom(s)' /\ InTime(s)'
    BY <1>l, <1>m, <1>r, <2>1, <2>3
  <2> QED BY <1>b, <1>r, <1>t, <1>w, <2>1, <2>4 DEF LimitsInv
<1>7. ASSUME NEW r \in Requests, Limits!AddViolation(r) PROVE LimitsInv'
  <2>1. /\ request[r].pc = "refused" /\ request[r].pattern \in Patterns
        /\ request' = [request EXCEPT ![r] = [@ EXCEPT !.pc = "added"]]
        /\ cut' = cut \ {request[r].pattern}
        /\ UNCHANGED <<now, window, cooldown, outrun, overwritten>>
    BY <1>0, <1>7 DEF Limits!AddViolation, Limits!Goto, LimitsType, Punishable
  <2>2. \A p \in Patterns \ {request[r].pattern} : violations'[p] = violations[p]
    BY <1>0, <1>7 DEF Limits!AddViolation, LimitsType
  <2>3. /\ request'[r].pc = "added" /\ request'[r].pattern = request[r].pattern
        /\ request'[r].late = request[r].late /\ request[r].pc \notin Outside
    BY <1>0, <2>1 DEF LimitsType, LimitState, Outside
  <2>4. ASSUME NEW p \in Patterns PROVE Blocked(p)'
    <3>1. CASE p = request[r].pattern
      BY <2>3, <3>1 DEF Blocked, Settled
    <3>2. CASE p # request[r].pattern
      <4>1. Settled(p)' => Settled(p)
        BY <1>0, <2>1, <3>2 DEF LimitsType, Settled
      <4> QED BY <1>0, <2>1, <2>2, <3>2, <4>1, BlockedStays
    <3> QED BY <3>1, <3>2
  <2>5. \A s \in Requests : HasRoom(s)' /\ InTime(s)'
    BY <1>l, <1>m, <1>r, <2>1, <2>3
  <2> QED BY <1>t, <1>w, <2>1, <2>4, <2>5 DEF LimitsInv
<1>8. ASSUME NEW r \in Requests, Limits!CountViolations(r) PROVE LimitsInv'
  <2> DEFINE n == Cardinality(violations[request[r].pattern])
             many == n > PatternConfig[request[r].pattern].threshold
             punished == [request[r] EXCEPT !.pc = "punishing", !.count = n]
  <2>1. /\ request[r].pc = "added" /\ request[r].pattern \in Patterns
        /\ UNCHANGED <<now, window, violations, cooldown, cut, outrun, overwritten>>
    BY <1>0, <1>8 DEF Limits!CountViolations, LimitsType, Punishable
  <2>2. request' = [request EXCEPT ![r] = IF many THEN punished ELSE Limits!Over]
    BY <1>8, LimitsSizes DEF Limits!CountViolations
  <2>3. /\ punished.pc = "punishing" /\ punished.pattern = request[r].pattern
        /\ punished.late = request[r].late /\ Limits!Over.pc = "over"
    <3> HIDE DEF n
    <3> QED BY <1>c DEF LimitState, Limits!Over, Limits!New
  <2> HIDE DEF punished
  <2>4. ASSUME NEW p \in Patterns PROVE Blocked(p)'
    <3>1. CASE p = request[r].pattern /\ many
      BY <1>r, <2>2, <2>3, <3>1 DEF Blocked, Settled
    <3>2. CASE p = request[r].pattern /\ ~many
      BY <2>1, <3>2 DEF Blocked
    <3>3. CASE p # request[r].pattern
      <4>1. Settled(p)' => Settled(p)
        BY <1>0, <2>2, <3>3 DEF LimitsType, Settled
      <4> QED BY <1>0, <2>1, <4>1, BlockedStays
    <3> QED BY <3>1, <3>2, <3>3
  <2> HIDE DEF many
  <2>5. /\ request'[r].pc # "admitting" /\ request[r].pc \notin Outside
        /\ request'[r].pc \in Outside \/ request'[r].late = request[r].late
    BY <1>r, <2>1, <2>2, <2>3 DEF Outside
  <2>6. \A s \in Requests : HasRoom(s)' /\ InTime(s)'
    BY <1>l, <1>m, <1>r, <2>1, <2>2, <2>5
  <2> QED BY <1>t, <1>w, <2>1, <2>4, <2>6 DEF LimitsInv
<1>9. ASSUME NEW r \in Requests, Limits!SetCooldown(r) PROVE LimitsInv'
  <2> DEFINE q == request[r].pattern
             long == Limits!CalculateCooldown(request[r].count, PatternConfig[q])
             late(s) == [request[s] EXCEPT !.late = TRUE]
  <2>1. /\ request[r].pc = "punishing" /\ UNCHANGED <<now, window, violations, cut, outrun>>
        /\ overwritten' = (IF request[r].late THEN Patterns ELSE overwritten) \ {q}
    BY <1>9, SamePatterns DEF Limits!SetCooldown
  <2>2. q \in Patterns /\ request[r].count \in Nat
    BY <1>0, <1>c, <2>1 DEF LimitsType, LimitState, Punishable
  <2>3. long \in Nat /\ Limits!FirstCooldown(q) \in Nat /\ long >= Limits!FirstCooldown(q)
    BY <2>2, CooldownIsLong
  <2>4. cooldown'[Limits!Identity] = [until |-> now + long, pattern |-> q]
    BY <1>0, <1>9 DEF Limits!SetCooldown, LimitsType, Limits!Names
  <2>5. /\ request'[r] = Limits!Over
        /\ \A s \in Requests \ {r} :
             request'[s] = IF request[s].pc \in Outside THEN request[s] ELSE late(s)
    BY <1>9 DEF Limits!SetCooldown, Outside
  <2>6. /\ Limits!Over.pc = "over"
        /\ \A s \in Requests : /\ late(s).late /\ late(s).overtaken = request[s].overtaken
                               /\ late(s).pc = request[s].pc /\ late(s).pattern = request[s].pattern
    BY <1>c DEF LimitState, Limits!Over, Limits!New
  <2> HIDE DEF long, late
  <2>7. cooldown'[Limits!Identity].until = now + long /\ cooldown'[Limits!Identity].pattern = q
    BY <2>4
  \* For the pattern of r the cooldown is long enough, ...
  <2>8. ASSUME NEW p \in Patterns, Held(p)' = q PROVE Blocked(p)'
    <3> DEFINE S == {e.at : e \in violations[p]}
    <3>0. PatternConfig[p].threshold \in Nat
      BY ConfigType
    <3>1. CASE violations[p] = {}
      <4>1. Cardinality(violations'[p]) = 0
        BY <2>1, <3>1, FS_EmptySet
      <4>2. ~(Cardinality(violations'[p]) > PatternConfig[p].threshold)
        BY <3>0, <4>1
      <4> QED BY <4>2 DEF Blocked
    <3>2. CASE violations[p] # {}
      <4>1. S \in SUBSET Nat /\ S # {} /\ \A x \in S : x <= now
        BY <1>0, <3>2 DEF LimitsType, Entry
      <4> HIDE DEF S
      <4>2. Limits!Max(S) \in Nat /\ Limits!Max(S) <= now
        BY <1>n, <4>1, MaxIsOne
      <4>3. cooldown'[Limits!Identity].until >= Limits!Max(S) + Limits!FirstCooldown(q)
        BY <1>n, <2>3, <2>7, <4>2
      <4> QED BY <2>1, <2>8, <4>3 DEF Blocked, S
    <3> QED BY <3>1, <3>2
  \* ... and for another it is no shorter than the one that is over.
  <2>9. ASSUME NEW p \in Patterns, Held(p)' # q PROVE Blocked(p)'
    <3>1. p # q /\ p \notin overwritten' /\ p \notin overwritten /\ ~request[r].late
      BY <2>1, <2>7, <2>9 DEF Held
    <3>2. cooldown[Limits!Identity].until <= now
      BY <1>0, <2>1, <3>1 DEF InTime, Outside
    <3>3. cooldown'[Limits!Identity].until >= cooldown[Limits!Identity].until
      BY <1>c, <1>n, <2>3, <2>7, <3>2
    <3>4. Settled(p)' => Settled(p)
      BY <2>5, <2>6, <3>1 DEF Settled
    <3>5. Held(p)' = p /\ Held(p) = p
      BY <3>1 DEF Held
    <3> DEFINE S == {e.at : e \in violations[p]}
    <3>6. Cardinality(violations[p]) > PatternConfig[p].threshold => Limits!Max(S) \in Nat
      <4>1. PatternConfig[p].threshold \in Nat
        BY ConfigType
      <4>2. violations[p] # {} \/ ~(Cardinality(violations[p]) > PatternConfig[p].threshold)
        BY <4>1, FS_EmptySet
      <4>3. violations[p] # {} => S \in SUBSET Nat /\ S # {} /\ \A x \in S : x <= now
        BY <1>0 DEF LimitsType, Entry
      <4> HIDE DEF S
      <4> QED BY <1>n, <4>2, <4>3, MaxIsOne
    <3>7. Limits!FirstCooldown(p) \in Nat
      BY CooldownIsLong
    <3>8. Blocked(p) /\ violations' = violations /\ cut' = cut
      BY <1>0, <2>1
    <3>9. ASSUME Settled(p)', Cardinality(violations[p]) > PatternConfig[p].threshold, p \notin cut
          PROVE  cooldown'[Limits!Identity].until >= Limits!Max(S) + Limits!FirstCooldown(p)
      <4>1. cooldown[Limits!Identity].until >= Limits!Max(S) + Limits!FirstCooldown(p)
        BY <3>4, <3>5, <3>8, <3>9 DEF Blocked
      <4> HIDE DEF S
      <4> QED BY <1>c, <3>3, <3>6, <3>7, <3>9, <4>1
    <3> QED BY <3>5, <3>8, <3>9 DEF Blocked
  <2>10. ASSUME NEW s \in Requests PROVE HasRoom(s)' /\ InTime(s)'
    <3>1. CASE s = r
      <4>1. request'[s].pc = "over"
        BY <2>5, <2>6, <3>1
      <4> QED BY <4>1 DEF HasRoom, InTime, Outside
    <3>2. CASE s # r
      <4>1. \/ request'[s] = request[s]
            \/ request'[s].pc = request[s].pc /\ request'[s].overtaken = request[s].overtaken
        BY <2>5, <2>6, <3>2
      <4>2. request'[s].pc \in Outside \/ request'[s].late
        BY <2>5, <2>6, <3>2
      <4>3. InTime(s)'
        BY <4>2 DEF InTime
      <4> QED BY <1>m, <2>1, <4>1, <4>3
    <3> QED BY <3>1, <3>2
  <2> QED BY <1>t, <1>w, <2>1, <2>8, <2>9, <2>10 DEF LimitsInv
<1>10. ASSUME NEW r \in Requests, Limits!Abort(r) PROVE LimitsInv'
  <2>1. /\ request' = [request EXCEPT ![r] = Limits!Over] /\ Limits!Over.pc = "over"
        /\ cut' = IF request[r].pc \in {"added", "punishing"} THEN cut \cup {request[r].pattern} ELSE cut
        /\ UNCHANGED <<now, window, violations, cooldown, outrun, overwritten>>
    BY <1>10 DEF Limits!Abort, Limits!Finish, Limits!Over, Limits!New
  <2>2. ASSUME NEW p \in Patterns PROVE Blocked(p)'
    <3>1. CASE p = request[r].pattern /\ request[r].pc \in {"added", "punishing"}
      BY <2>1, <3>1 DEF Blocked
    <3>2. CASE ~(p = request[r].pattern /\ request[r].pc \in {"added", "punishing"})
      <4>1. Settled(p)' => Settled(p)
        BY <1>0, <2>1, <3>2 DEF LimitsType, Settled
      <4> QED BY <1>0, <2>1, <4>1, BlockedStays
    <3> QED BY <3>1, <3>2
  <2>3. \A s \in Requests : HasRoom(s)' /\ InTime(s)'
    BY <1>l, <1>m, <1>r, <2>1 DEF Outside
  <2> QED BY <1>t, <1>w, <2>1, <2>2, <2>3 DEF LimitsInv
<1>11. CASE UNCHANGED Limits!vars
  <2>1. UNCHANGED <<now, window, request, violations, cooldown, cut, outrun, overwritten>>
    BY <1>11 DEF Limits!vars
  <2> QED BY <1>l, <1>m, <1>t, <1>u, <1>w, <2>1 DEF LimitsInv
<1> QED
  BY <1>1, <1>2, <1>3, <1>4, <1>5, <1>6, <1>7, <1>8, <1>9, <1>10, <1>11 DEF Limits!Next

LEMMA LimitsAreKept == LimitsInv => Limits!WindowIsKept /\ Limits!BlockIsNotMissed
<1> SUFFICES ASSUME LimitsInv PROVE Limits!WindowIsKept /\ Limits!BlockIsNotMissed
  OBVIOUS
<1>1. Limits!WindowIsKept
  BY LimitsSizes DEF LimitsInv, Limits!WindowIsKept, Permitted, InWindow
<1>2. Limits!BlockIsNotMissed
  BY LimitsSizes, SamePatterns DEF LimitsInv, Limits!BlockIsNotMissed, Blocked, Settled, Held
<1> QED BY <1>1, <1>2

-----------------------------------------------------------------------------
(* The consequences of choices                                                *)

EntryStatuses == {"pending", "active", "dormant", "resolved", "pruned"}
EntryState ==
  [timescale : {"immediate", "short", "long"}, hidden : BOOLEAN, status : EntryStatuses]
Entries == Seq(EntryState)
ChainState ==
  [entries : Entries, important : BOOLEAN, permanent : BOOLEAN, created : Int, lastActive : Int,
   dormant : BOOLEAN]

ChainsInv == chains \in Seq(ChainState) /\ turn \in Int

\* Consequences counts as this module does.
LEMMA ChainSizes == \A S : Chains!Cardinality(S) = Cardinality(S)
BY DEF Chains!Cardinality, Cardinality

\* Of what has scores, those with fewest before them are the excess over a number.
Before(listed, score, k) ==
  {m \in listed : score[m] < score[k] \/ (score[m] = score[k] /\ m < k)}
LeastOf(listed, score, n) ==
  {k \in listed : Cardinality(Before(listed, score, k)) < Cardinality(listed) - n}

LEMMA BestAreLeft ==
  ASSUME NEW L \in SUBSET Nat, IsFiniteSet(L), NEW score \in [L -> Int], NEW n \in Nat
  PROVE  /\ \A k \in LeastOf(L, score, n), m \in L \ LeastOf(L, score, n) : score[k] <= score[m]
         /\ Cardinality(L \ LeastOf(L, score, n)) <= n
<1> DEFINE least == LeastOf(L, score, n)
           left == L \ least
           size == [k \in L |-> Cardinality(Before(L, score, k))]
<1>f. \A S \in SUBSET L : IsFiniteSet(S) /\ Cardinality(S) \in Nat
  BY FS_Subset, FS_CardinalityType
<1>m. \A S, T \in SUBSET L : S \subseteq T => Cardinality(S) <= Cardinality(T)
  BY <1>f, FS_Subset
<1>b. \A k \in L : Before(L, score, k) \in SUBSET L
  BY DEF Before
<1>1. ASSUME NEW k \in least, NEW m \in left PROVE score[k] <= score[m]
  <2> SUFFICES ASSUME score[m] < score[k] PROVE FALSE
    BY DEF LeastOf
  <2>1. k \in L /\ m \in L /\ \A i \in L : score[i] \in Int /\ i \in Nat
    BY DEF LeastOf
  <2>2. ASSUME NEW i \in Before(L, score, m) PROVE i \in Before(L, score, k)
    <3>1. i \in L /\ (score[i] < score[m] \/ (score[i] = score[m] /\ i < m))
      BY DEF Before
    <3>2. score[i] \in Int /\ score[m] \in Int /\ score[k] \in Int
      BY <2>1, <3>1
    <3>3. score[i] < score[k]
      BY <3>1, <3>2
    <3> QED BY <3>1, <3>3 DEF Before
  <2>3. Cardinality(Before(L, score, m)) <= Cardinality(Before(L, score, k))
    <3>1. Before(L, score, m) \subseteq Before(L, score, k)
      BY <2>2
    <3> QED BY <1>b, <1>m, <2>1, <3>1
  <2>4. /\ Cardinality(Before(L, score, k)) < Cardinality(L) - n
        /\ ~(Cardinality(Before(L, score, m)) < Cardinality(L) - n)
    BY DEF LeastOf
  <2>5. /\ Cardinality(Before(L, score, k)) \in Nat /\ Cardinality(Before(L, score, m)) \in Nat
        /\ Cardinality(L) \in Nat
    BY <1>b, <1>f, <2>1
  <2> QED BY <2>3, <2>4, <2>5
<1>2. Cardinality(left) <= n
  <2>1. CASE left = {}
    BY <2>1, FS_EmptySet
  <2>2. CASE left # {}
    <3>1. PICK k \in left : \A m \in left : size[k] <= size[m]
      <4> DEFINE sizes == {size[m] : m \in left}
      <4>1. sizes \in SUBSET Nat /\ sizes # {}
        BY <1>b, <1>f, <2>2
      <4> HIDE DEF sizes
      <4>2. PICK s \in sizes : \A x \in sizes : s <= x
        BY <4>1, LeastNumber
      <4> QED BY <4>2 DEF sizes
    <3>2. k \in L /\ \A i \in L : score[i] \in Int /\ i \in Nat
      OBVIOUS
    \* Nothing that is left is before it.
    <3>3. ASSUME NEW m \in left, m \in Before(L, score, k) PROVE FALSE
      <4>0. /\ m \in L /\ m \in Nat /\ score[m] \in Int /\ score[k] \in Int
            /\ score[m] < score[k] \/ (score[m] = score[k] /\ m < k)
        BY <3>2, <3>3 DEF Before
      <4>1. m \in L /\ Before(L, score, m) \subseteq Before(L, score, k) /\ m \notin Before(L, score, m)
        <5>1. ASSUME NEW i \in Before(L, score, m) PROVE i \in Before(L, score, k)
          <6>1. i \in L /\ (score[i] < score[m] \/ (score[i] = score[m] /\ i < m))
            BY DEF Before
          <6>2. score[i] \in Int /\ i \in Nat /\ k \in Nat
            BY <3>2, <6>1
          <6>3. score[i] < score[k] \/ (score[i] = score[k] /\ i < k)
            BY <4>0, <6>1, <6>2
          <6> QED BY <6>1, <6>3 DEF Before
        <5>2. m \notin Before(L, score, m)
          BY <4>0 DEF Before
        <5> QED BY <4>0, <5>1, <5>2
      <4>2. Before(L, score, m) \subseteq Before(L, score, k) \ {m}
        BY <4>1
      <4>3. /\ IsFiniteSet(Before(L, score, k))
            /\ Before(L, score, k) \ {m} \in SUBSET L
        BY <1>b, <1>f, <3>2
      <4>4. Cardinality(Before(L, score, k) \ {m}) = Cardinality(Before(L, score, k)) - 1
        <5>1. m \in Before(L, score, k)
          BY <3>3
        <5> HIDE DEF left, size
        <5> QED BY <4>3, <5>1, FS_RemoveElement
      <4>5. Cardinality(Before(L, score, m)) <= Cardinality(Before(L, score, k) \ {m})
        BY <1>b, <1>m, <4>1, <4>2, <4>3
      <4>6. size[k] <= size[m] /\ size[k] = Cardinality(Before(L, score, k))
            /\ size[m] = Cardinality(Before(L, score, m)) /\ size[k] \in Nat /\ size[m] \in Nat
        BY <1>b, <1>f, <3>1, <3>2, <4>1
      <4> HIDE DEF size
      <4> QED BY <4>4, <4>5, <4>6
    <3>4. Before(L, score, k) \subseteq L \ left
      BY <3>3 DEF Before
    <3>5. Cardinality(Before(L, score, k)) <= Cardinality(L \ left)
      BY <1>b, <1>m, <3>2, <3>4
    <3>6. Cardinality(L \ left) = Cardinality(L) - Cardinality(left)
      <4>1. L \cap left = left
        OBVIOUS
      <4> HIDE DEF left
      <4> QED BY <4>1, FS_Difference
    <3>7. ~(Cardinality(Before(L, score, k)) < Cardinality(L) - n)
      BY <3>2 DEF LeastOf
    <3>8. /\ Cardinality(Before(L, score, k)) \in Nat /\ Cardinality(L) \in Nat
          /\ Cardinality(left) \in Nat
      BY <1>b, <1>f, <3>2
    <3> HIDE DEF left
    <3> QED BY <3>5, <3>6, <3>7, <3>8
  <2> QED BY <2>1, <2>2
<1> QED BY <1>1, <1>2

LEMMA EntriesAreTyped ==
  ASSUME NEW chain \in ChainState
  PROVE  /\ Chains!EntriesOf(chain) = 1 .. Len(chain.entries) /\ Len(chain.entries) \in Nat
         /\ chain.entries \in [Chains!EntriesOf(chain) -> EntryState]
         /\ \A e \in Chains!EntriesOf(chain) : chain.entries[e] \in EntryState
<1>1. chain.entries \in Seq(EntryState)
  BY DEF ChainState, Entries
<1> QED BY <1>1, LenProperties DEF Chains!EntriesOf

LEMMA EntriesAreSet ==
  ASSUME NEW chain \in ChainState, NEW f \in [Chains!EntriesOf(chain) -> EntryState]
  PROVE  f \in Entries
<1>1. f \in [1 .. Len(chain.entries) -> EntryState] /\ Len(chain.entries) \in Nat
  BY EntriesAreTyped
<1> QED BY <1>1, SeqDef DEF Entries

\* What a chain has in common with one made of it, but for what became of the entries.
Like(new, old) ==
  /\ new \in ChainState /\ Chains!EntriesOf(new) = Chains!EntriesOf(old)
  /\ \A e \in Chains!EntriesOf(old) : new.entries[e].hidden = old.entries[e].hidden

LEMMA StatusIsSet ==
  ASSUME NEW chain \in ChainState, NEW from, NEW to \in EntryStatuses
  PROVE  LET w == Chains!WithStatus(chain, from, to) IN
           /\ Like(w, chain)
           /\ \A e \in Chains!EntriesOf(chain) :
                w.entries[e].status =
                  IF chain.entries[e].status \in from THEN to ELSE chain.entries[e].status
<1> DEFINE f == [e \in Chains!EntriesOf(chain) |->
                   IF chain.entries[e].status \in from
                   THEN [chain.entries[e] EXCEPT !.status = to] ELSE chain.entries[e]]
           w == Chains!WithStatus(chain, from, to)
<1>1. w = [chain EXCEPT !.entries = f]
  BY DEF Chains!WithStatus, Chains!EntriesOf
<1>2. ASSUME NEW e \in Chains!EntriesOf(chain)
      PROVE  /\ f[e] \in EntryState /\ f[e].hidden = chain.entries[e].hidden
             /\ f[e].status = IF chain.entries[e].status \in from THEN to ELSE chain.entries[e].status
  <2>1. chain.entries[e] \in EntryState
    BY EntriesAreTyped
  <2> QED BY <2>1 DEF EntryState
<1>3. f \in [Chains!EntriesOf(chain) -> EntryState] /\ DOMAIN f = Chains!EntriesOf(chain)
  BY <1>2
<1> HIDE DEF f, w
<1>4. f \in Entries
  BY <1>3, EntriesAreSet
<1>5. w \in ChainState /\ w.entries = f
  BY <1>1, <1>4 DEF ChainState
<1>6. Chains!EntriesOf(w) = Chains!EntriesOf(chain)
  BY <1>3, <1>5 DEF Chains!EntriesOf
<1> QED BY <1>2, <1>5, <1>6 DEF Like, w

LEMMA FadedIsLike ==
  ASSUME NEW chain \in ChainState, NEW t
  PROVE  LET f == Chains!Faded(chain, t) IN
           /\ Like(f, chain)
           /\ \A e \in Chains!EntriesOf(chain) :
                \/ f.entries[e].status = chain.entries[e].status
                \/ chain.entries[e].status \in Chains!Open /\ f.entries[e].status = "dormant"
           /\ Chains!Listed(f) => f = chain
           /\ Chains!IsResolved(f) => Chains!IsResolved(chain)
<1> DEFINE w == Chains!WithStatus(chain, Chains!Open, "dormant")
           g == [w EXCEPT !.dormant = TRUE]
           f == Chains!Faded(chain, t)
<1>1. f = chain \/ f = g
  BY DEF Chains!Faded
<1>2. CASE f = chain
  BY <1>2 DEF Like
<1>3. CASE f = g
  <2>1. /\ Like(w, chain)
        /\ \A e \in Chains!EntriesOf(chain) :
             w.entries[e].status = IF chain.entries[e].status \in Chains!Open THEN "dormant"
                                   ELSE chain.entries[e].status
    BY StatusIsSet DEF EntryStatuses
  <2> HIDE DEF w
  <2>2. g \in ChainState /\ g.entries = w.entries /\ g.dormant
    BY <2>1 DEF Like, ChainState
  <2> HIDE DEF g, f
  <2>3. /\ Like(f, chain)
        /\ \A e \in Chains!EntriesOf(chain) :
             f.entries[e].status = IF chain.entries[e].status \in Chains!Open THEN "dormant"
                                   ELSE chain.entries[e].status
    BY <1>3, <2>1, <2>2 DEF Like, Chains!EntriesOf
  <2>4. ~Chains!Listed(f)
    BY <1>3, <2>2 DEF Chains!Listed
  <2>5. ASSUME Chains!IsResolved(f) PROVE Chains!IsResolved(chain)
    <3>1. f.entries # <<>> /\ \A e \in Chains!EntriesOf(chain) : f.entries[e].status \in {"resolved", "pruned"}
      BY <2>3, <2>5 DEF Chains!IsResolved, Chains!Closed, Like
    <3>2. \A e \in Chains!EntriesOf(chain) : chain.entries[e].status \in {"resolved", "pruned"}
      BY <2>3, <3>1
    <3>3. chain.entries # <<>>
      <4>1. f.entries \in Seq(EntryState) /\ chain.entries \in Seq(EntryState)
        BY <2>3 DEF Like, ChainState, Entries
      <4>2. Len(f.entries) \in Nat \ {0}
        BY <3>1, <4>1, EmptySeq
      <4>3. 1 \in Chains!EntriesOf(chain)
        BY <2>3, <4>2, EntriesAreTyped DEF Like
      <4>4. Chains!EntriesOf(chain) = 1 .. Len(chain.entries)
        BY EntriesAreTyped
      <4> QED BY <4>3, <4>4, EmptySeq
    <3> QED BY <3>2, <3>3 DEF Chains!IsResolved, Chains!Closed
  <2> QED BY <2>3, <2>4, <2>5 DEF f
<1> QED BY <1>1, <1>2, <1>3

LEMMA EvaluatedIsLike ==
  ASSUME NEW chain \in ChainState, NEW t \in Int
  PROVE  LET v == Chains!Evaluated(chain, t) IN
           /\ Like(v, chain)
           /\ \A e \in Chains!EntriesOf(chain) :
                \/ v.entries[e].status = chain.entries[e].status
                \/ /\ chain.entries[e].status = "pending" /\ ~chain.entries[e].hidden
                   /\ v.entries[e].status = "active"
<1> DEFINE firing == {e \in Chains!EntriesOf(chain) : Chains!Fires(chain, e, t)}
           f == [e \in Chains!EntriesOf(chain) |->
                   IF e \in firing THEN [chain.entries[e] EXCEPT !.status = "active"]
                   ELSE chain.entries[e]]
           last == IF firing = {} THEN chain.lastActive ELSE t
           v == Chains!Evaluated(chain, t)
<1>1. v = [chain EXCEPT !.entries = f, !.lastActive = last]
  BY DEF Chains!Evaluated, Chains!EntriesOf
<1>2. ASSUME NEW e \in Chains!EntriesOf(chain)
      PROVE  /\ f[e] \in EntryState /\ f[e].hidden = chain.entries[e].hidden
             /\ \/ f[e].status = chain.entries[e].status
                \/ /\ chain.entries[e].status = "pending" /\ ~chain.entries[e].hidden
                   /\ f[e].status = "active"
  <2>1. chain.entries[e] \in EntryState
    BY EntriesAreTyped
  <2>2. e \in firing => chain.entries[e].status = "pending" /\ ~chain.entries[e].hidden
    BY DEF Chains!Fires
  <2> HIDE DEF firing
  <2> QED BY <2>1, <2>2 DEF EntryState, EntryStatuses
<1>3. f \in [Chains!EntriesOf(chain) -> EntryState] /\ DOMAIN f = Chains!EntriesOf(chain)
  BY <1>2
<1>4. last \in Int
  BY DEF ChainState
<1> HIDE DEF f, v, last, firing
<1>5. f \in Entries
  BY <1>3, EntriesAreSet
<1>6. v \in ChainState /\ v.entries = f
  BY <1>1, <1>4, <1>5 DEF ChainState
<1>7. Chains!EntriesOf(v) = Chains!EntriesOf(chain)
  BY <1>3, <1>6 DEF Chains!EntriesOf
<1> QED BY <1>2, <1>6, <1>7 DEF Like, v

LEMMA ScoreIsInt == ASSUME NEW chain \in ChainState PROVE Chains!Score(chain) \in Int
<1> DEFINE entries == {chain.entries[e] : e \in Chains!EntriesOf(chain)}
           priorities == {Chains!Priority[x.status] : x \in entries}
           most == IF entries = {} THEN 0 ELSE CHOOSE p \in priorities : \A q \in priorities : p >= q
<1>1. \A s \in EntryStatuses : Chains!Priority[s] \in {-1, 0, 1, 3, 4}
  BY DEF EntryStatuses, Chains!Priority
<1>2. \A x \in entries : x.status \in EntryStatuses
  BY EntriesAreTyped DEF EntryState
<1>3. priorities \subseteq {-1, 0, 1, 3, 4} /\ (entries # {} => priorities # {})
  BY <1>1, <1>2
<1>4. most \in Int
  <2> SUFFICES ASSUME entries # {} PROVE most \in Int
    OBVIOUS
  <2> HIDE DEF priorities, entries
  <2>1. \A p \in priorities : p = -1 \/ p = 0 \/ p = 1 \/ p = 3 \/ p = 4
    BY <1>3
  <2>2. \A p \in priorities : p \in Int
    BY <2>1
  <2>3. PICK p \in priorities : TRUE
    BY <1>3
  <2>4. \E m \in priorities : \A q \in priorities : m >= q
    <3>1. CASE 4 \in priorities
      BY <2>1, <3>1
    <3>2. CASE 4 \notin priorities /\ 3 \in priorities
      BY <2>1, <3>2
    <3>3. CASE 4 \notin priorities /\ 3 \notin priorities /\ 1 \in priorities
      BY <2>1, <3>3
    <3>4. CASE 4 \notin priorities /\ 3 \notin priorities /\ 1 \notin priorities /\ 0 \in priorities
      BY <2>1, <3>4
    <3>5. CASE \A q \in priorities : q = -1
      BY <2>3, <3>5
    <3> QED BY <2>1, <3>1, <3>2, <3>3, <3>4, <3>5
  <2>5. most \in priorities
    BY <2>4
  <2> QED BY <2>2, <2>5
<1>5. Chains!Score(chain) =
        most + (IF \E x \in entries : x.timescale = "long" /\ x.status = "pending" THEN 10 ELSE 0)
          + (IF chain.important THEN 10 ELSE 0) + (IF chain.permanent THEN 5 ELSE 0)
  BY DEF Chains!Score
<1> HIDE DEF most, entries
<1> QED BY <1>4, <1>5


\* What pruning makes of the chains.
AllFaded(cs, t) == [k \in DOMAIN cs |-> Chains!Faded(cs[k], t)]
Pruned(cs, t, k) ==
  IF k \in Chains!Excess(AllFaded(cs, t))
  THEN Chains!WithStatus(AllFaded(cs, t)[k], Chains!Open \cup {"dormant", "resolved"}, "pruned")
  ELSE AllFaded(cs, t)[k]

LEMMA PrunedIsLike ==
  ASSUME NEW cs \in Seq(ChainState), NEW t, NEW k \in DOMAIN cs
  PROVE  LET p == Pruned(cs, t, k) IN
           /\ Like(p, cs[k])
           /\ \A e \in Chains!EntriesOf(cs[k]) :
                LET old == cs[k].entries[e].status  new == p.entries[e].status IN
                  \/ new = old
                  \/ old \in Chains!Open /\ new = "dormant"
                  \/ old # "pruned" /\ new = "pruned"
           /\ k \in Chains!Excess(AllFaded(cs, t)) => p.entries = <<>> \/ Chains!IsResolved(p)
<1> DEFINE faded == AllFaded(cs, t)
           f == Chains!Faded(cs[k], t)
           from == Chains!Open \cup {"dormant", "resolved"}
           w == Chains!WithStatus(f, from, "pruned")
<1>0. cs[k] \in ChainState /\ faded[k] = f
  BY LenProperties, ElementOfSeq DEF AllFaded
<1>1. /\ Like(f, cs[k])
      /\ \A e \in Chains!EntriesOf(cs[k]) :
           \/ f.entries[e].status = cs[k].entries[e].status
           \/ cs[k].entries[e].status \in Chains!Open /\ f.entries[e].status = "dormant"
  BY <1>0, FadedIsLike
<1>2. /\ Like(w, f)
      /\ \A e \in Chains!EntriesOf(f) :
           w.entries[e].status = IF f.entries[e].status \in from THEN "pruned" ELSE f.entries[e].status
  BY <1>1, StatusIsSet DEF Like, EntryStatuses
<1>3. \A e \in Chains!EntriesOf(f) : f.entries[e].status \in from \cup {"pruned"}
  BY <1>1, EntriesAreTyped DEF Like, EntryState, EntryStatuses, Chains!Open
<1>4. \A e \in Chains!EntriesOf(f) : w.entries[e].status = "pruned"
  BY <1>2, <1>3
<1> HIDE DEF f, w
<1>5. Like(w, cs[k])
  BY <1>1, <1>2 DEF Like
<1>6. w.entries = <<>> \/ Chains!IsResolved(w)
  BY <1>2, <1>4 DEF Chains!IsResolved, Chains!Closed, Like
<1>7. CASE k \in Chains!Excess(faded)
  <2>1. Pruned(cs, t, k) = w
    BY <1>0, <1>7 DEF Pruned, w
  <2> QED BY <1>1, <1>4, <1>5, <1>6, <2>1 DEF Like, Chains!Open
<1>8. CASE k \notin Chains!Excess(faded)
  <2>1. Pruned(cs, t, k) = f
    BY <1>0, <1>8 DEF Pruned
  <2> QED BY <1>1, <1>8, <2>1
<1> QED BY <1>7, <1>8

LEMMA ChainsInit == ASSUME Chains!Init PROVE ChainsInv
BY EmptySeq DEF Chains!Init, ChainsInv

\* What every step but a revelation may do to the entries of a chain.
MayBecome(new, old) ==
  /\ Like(new, old)
  /\ \A e \in Chains!EntriesOf(old) :
       LET s == old.entries[e].status  n == new.entries[e].status IN
         \/ n = s
         \/ s = "pending" /\ ~old.entries[e].hidden /\ n = "active"
         \/ s \in Chains!Open /\ n \in {"dormant", "resolved"}
         \/ s # "pruned" /\ n = "pruned"

LEMMA MayBecomeIsDone ==
  ASSUME ChainsInv, \A k \in DOMAIN chains : k \in DOMAIN chains' /\ MayBecome(chains'[k], chains[k])
  PROVE  Chains!WhatIsDoneStaysDone
BY DEF Chains!WhatIsDoneStaysDone, MayBecome, Chains!Open, Like

\* Of chains that have become what they may, and are as many, the invariant says as much.
LEMMA MayBecomeIsTyped ==
  ASSUME ChainsInv, DOMAIN chains' = DOMAIN chains, turn' \in Int,
         chains' = [k \in DOMAIN chains |-> chains'[k]],
         \A k \in DOMAIN chains : chains'[k] \in ChainState
  PROVE  ChainsInv'
<1>1. DOMAIN chains = 1 .. Len(chains) /\ Len(chains) \in Nat
  BY LenProperties DEF ChainsInv
<1>2. chains' \in [1 .. Len(chains) -> ChainState]
  BY <1>1
<1> QED BY <1>1, <1>2, SeqDef DEF ChainsInv


\* Pruning drops the excess, and what fades is not listed any more.
LEMMA PruningIsSound ==
  ASSUME ChainsInv, NEW t \in pruning, Chains!PruneChains(t)
  PROVE  Chains!PruningKeepsTheBest
<1> DEFINE faded == AllFaded(chains, t)
           listed == {k \in DOMAIN faded : Chains!Listed(faded[k])}
           score == [k \in listed |-> Chains!Score(faded[k])]
           excess == Chains!Excess(faded)
           dropped == {k \in DOMAIN chains : Chains!Listed(chains[k]) /\ Chains!IsResolved(chains'[k])}
           kept == {k \in DOMAIN chains' : Chains!Listed(chains'[k]) /\ chains'[k].entries # <<>>}
<1>0. /\ DOMAIN chains = 1 .. Len(chains) /\ Len(chains) \in Nat
      /\ \A k \in DOMAIN chains : chains[k] \in ChainState
  BY LenProperties, ElementOfSeq DEF ChainsInv
<1>1. /\ DOMAIN chains' = DOMAIN chains /\ DOMAIN faded = DOMAIN chains
      /\ \A k \in DOMAIN chains : chains'[k] = Pruned(chains, t, k) /\ faded[k] = Chains!Faded(chains[k], t)
  BY DEF Chains!PruneChains, Pruned, AllFaded
<1>2. ASSUME NEW k \in DOMAIN chains
      PROVE  /\ faded[k] \in ChainState
             /\ Chains!Listed(faded[k]) => faded[k] = chains[k]
             /\ Chains!IsResolved(faded[k]) => Chains!IsResolved(chains[k])
             /\ k \in excess => chains'[k].entries = <<>> \/ Chains!IsResolved(chains'[k])
             /\ k \notin excess => chains'[k] = faded[k]
  <2>1. k \in excess => \/ Pruned(chains, t, k).entries = <<>>
                        \/ Chains!IsResolved(Pruned(chains, t, k))
    BY PrunedIsLike DEF ChainsInv
  <2>2. Like(Chains!Faded(chains[k], t), chains[k])
    BY <1>0, FadedIsLike
  <2>3. k \notin excess => Pruned(chains, t, k) = faded[k]
    BY DEF Pruned
  <2> QED BY <1>0, <1>1, <2>1, <2>2, <2>3, FadedIsLike DEF Like
<1>3. /\ listed \in SUBSET Nat /\ IsFiniteSet(listed) /\ score \in [listed -> Int]
  <2>1. listed \subseteq 1 .. Len(chains)
    BY <1>0, <1>1
  <2>2. IsFiniteSet(1 .. Len(chains))
    BY <1>0, FS_Interval
  <2>3. \A k \in listed : Chains!Score(faded[k]) \in Int
    BY <1>1, <1>2, ScoreIsInt
  <2> HIDE DEF listed
  <2>4. IsFiniteSet(listed)
    BY <2>1, <2>2, FS_Subset
  <2>5. listed \in SUBSET Nat
    BY <1>0, <2>1
  <2> QED BY <2>3, <2>4, <2>5
<1>4. excess = LeastOf(listed, score, MaxChains)
  <2>1. \A k \in listed :
          Before(listed, score, k) =
            {m \in listed : \/ Chains!Score(faded[m]) < Chains!Score(faded[k])
                            \/ Chains!Score(faded[m]) = Chains!Score(faded[k]) /\ m < k}
    BY DEF Before
  <2>2. excess =
          {k \in listed :
             Cardinality({m \in listed :
                            \/ Chains!Score(faded[m]) < Chains!Score(faded[k])
                            \/ Chains!Score(faded[m]) = Chains!Score(faded[k]) /\ m < k})
               < Cardinality(listed) - MaxChains}
    BY ChainSizes DEF Chains!Excess
  <2> HIDE DEF excess, listed, score, faded
  <2> QED BY <2>1, <2>2 DEF LeastOf
<1>5. MaxChains \in Nat
  BY ChainsAssumption
<1> HIDE DEF excess, score
<1>6. /\ \A k \in excess, m \in listed \ excess : score[k] <= score[m]
      /\ Cardinality(listed \ excess) <= MaxChains
      /\ excess \subseteq listed
  <2> HIDE DEF listed
  <2>1. excess \subseteq listed
    BY <1>4 DEF LeastOf
  <2> QED BY <1>3, <1>4, <1>5, <2>1, BestAreLeft
<1>7. kept \subseteq listed \ excess
  <2> SUFFICES ASSUME NEW k \in kept PROVE k \in listed \ excess
    OBVIOUS
  <2>1. k \in DOMAIN chains /\ Chains!Listed(chains'[k]) /\ chains'[k].entries # <<>>
    BY <1>1
  <2>2. k \notin excess
    BY <1>2, <2>1 DEF Chains!Listed
  <2>3. Chains!Listed(faded[k])
    BY <1>2, <2>1, <2>2
  <2> QED BY <1>1, <2>1, <2>2, <2>3
<1>8. dropped \subseteq excess
  <2> SUFFICES ASSUME NEW k \in dropped, k \notin excess PROVE FALSE
    OBVIOUS
  <2> QED BY <1>2 DEF Chains!Listed
<1>9. Cardinality(kept) <= MaxChains
  <2> HIDE DEF kept, listed
  <2>1. IsFiniteSet(listed \ excess)
    BY <1>3, FS_Difference
  <2>2. /\ Cardinality(kept) <= Cardinality(listed \ excess)
        /\ Cardinality(kept) \in Nat /\ Cardinality(listed \ excess) \in Nat
    BY <1>7, <2>1, FS_Subset, FS_CardinalityType
  <2> QED BY <1>5, <1>6, <2>2
<1>10. ASSUME NEW k \in dropped, NEW m \in kept
       PROVE  Chains!Score(chains[k]) <= Chains!Score(chains[m])
  <2>1. score[k] <= score[m] /\ k \in listed /\ m \in listed
    BY <1>6, <1>7, <1>8
  <2>2. faded[k] = chains[k] /\ faded[m] = chains[m]
    BY <1>1, <1>2, <2>1
  <2>3. score[k] = Chains!Score(faded[k]) /\ score[m] = Chains!Score(faded[m])
    BY <2>1 DEF score
  <2> QED BY <2>1, <2>2, <2>3
<1> QED BY <1>9, <1>10, ChainSizes DEF Chains!PruningKeepsTheBest

LEMMA CreatedIsTyped ==
  ASSUME ChainsInv, NEW new \in NewChains, Chains!CreateChain(new)
  PROVE  \E c \in ChainState : chains' = Append(chains, c)
<1> DEFINE f == [e \in DOMAIN new.entries |->
                   [timescale |-> new.entries[e].timescale, hidden |-> new.entries[e].hidden,
                    status |-> "pending"]]
           c == [entries |-> f, important |-> new.important, permanent |-> new.permanent,
                 created |-> turn, lastActive |-> turn, dormant |-> FALSE]
<1>1. /\ new.entries \in Seq([timescale : {"immediate", "short", "long"}, hidden : BOOLEAN])
      /\ new.important \in BOOLEAN /\ new.permanent \in BOOLEAN
  BY ChainsAssumption
<1>2. DOMAIN new.entries = 1 .. Len(new.entries) /\ Len(new.entries) \in Nat
  BY <1>1, LenProperties
<1>3. ASSUME NEW e \in DOMAIN new.entries PROVE f[e] \in EntryState
  <2>1. new.entries[e] \in [timescale : {"immediate", "short", "long"}, hidden : BOOLEAN]
    BY <1>1, <1>2, ElementOfSeq
  <2> QED BY <2>1 DEF EntryState, EntryStatuses
<1>4. f \in Entries
  <2>1. f \in [1 .. Len(new.entries) -> EntryState]
    BY <1>2, <1>3
  <2> QED BY <1>2, <2>1, SeqDef DEF Entries
<1>5. chains' = Append(chains, c)
  BY DEF Chains!CreateChain
<1> HIDE DEF f
<1>6. c \in ChainState
  BY <1>1, <1>4 DEF ChainState, ChainsInv
<1> HIDE DEF c
<1> QED BY <1>5, <1>6

LEMMA ChainsStep ==
  ASSUME ChainsInv, [Chains!Next]_(Chains!vars)
  PROVE  ChainsInv' /\ Chains!WhatIsDoneStaysDone /\ Chains!PruningKeepsTheBest
<1>0. /\ DOMAIN chains = 1 .. Len(chains) /\ Len(chains) \in Nat
      /\ \A k \in DOMAIN chains : chains[k] \in ChainState
      /\ chains \in Seq(ChainState) /\ turn \in Int
  BY LenProperties, ElementOfSeq DEF ChainsInv
<1>m. \A k \in DOMAIN chains : MayBecome(chains[k], chains[k])
  BY <1>0 DEF MayBecome, Like
\* A turn is dropped from those to be pruned by nothing but its pruning.
<1>p. ASSUME pruning \subseteq pruning' PROVE Chains!PruningKeepsTheBest
  BY <1>p DEF Chains!PruningKeepsTheBest
<1>k. ASSUME DOMAIN chains' = DOMAIN chains, turn' \in Int,
             chains' = [k \in DOMAIN chains |-> chains'[k]],
             \A k \in DOMAIN chains : MayBecome(chains'[k], chains[k])
      PROVE  ChainsInv' /\ Chains!WhatIsDoneStaysDone
  <2>1. Chains!WhatIsDoneStaysDone
    BY <1>k, MayBecomeIsDone
  <2>2. \A k \in DOMAIN chains : chains'[k] \in ChainState
    BY <1>k DEF MayBecome, Like
  <2>3. ChainsInv'
    BY <1>k, <2>2, MayBecomeIsTyped
  <2> QED BY <2>1, <2>3
<1>1. ASSUME NEW new \in NewChains, Chains!CreateChain(new)
      PROVE  ChainsInv' /\ Chains!WhatIsDoneStaysDone /\ Chains!PruningKeepsTheBest
  <2>1. PICK c \in ChainState : chains' = Append(chains, c)
    BY <1>1, CreatedIsTyped
  <2>2. turn' = turn /\ pruning' = pruning
    BY <1>1 DEF Chains!CreateChain
  <2>3. /\ chains' \in Seq(ChainState) /\ Len(chains') = Len(chains) + 1
        /\ \A k \in 1 .. Len(chains) : chains'[k] = chains[k]
    BY <1>0, <2>1, AppendProperties
  <2>4. DOMAIN chains' = 1 .. Len(chains) + 1
    BY <2>3, LenProperties
  <2>5. \A k \in DOMAIN chains : k \in DOMAIN chains' /\ MayBecome(chains'[k], chains[k])
    BY <1>0, <1>m, <2>3, <2>4
  <2>6. Chains!WhatIsDoneStaysDone
    BY <2>5, MayBecomeIsDone
  <2> QED BY <1>0, <1>p, <2>2, <2>3, <2>6 DEF ChainsInv
<1>2. ASSUME NEW t \in 1 .. MaxTurn, Chains!Evaluate(t)
      PROVE  ChainsInv' /\ Chains!WhatIsDoneStaysDone /\ Chains!PruningKeepsTheBest
  <2>1. t \in Int
    OBVIOUS
  <2>2. /\ chains' = [k \in DOMAIN chains |-> Chains!Evaluated(chains[k], t)]
        /\ pruning \subseteq pruning' /\ turn' = turn
    BY <1>2 DEF Chains!Evaluate
  <2>3. ASSUME NEW k \in DOMAIN chains PROVE MayBecome(chains'[k], chains[k])
    BY <1>0, <2>1, <2>2, EvaluatedIsLike DEF MayBecome
  <2> QED BY <1>0, <1>k, <1>p, <2>2, <2>3
<1>3. ASSUME NEW t \in 1 .. MaxTurn, Chains!PruneChains(t)
      PROVE  ChainsInv' /\ Chains!WhatIsDoneStaysDone /\ Chains!PruningKeepsTheBest
  <2>1. t \in pruning /\ turn' = turn
    BY <1>3 DEF Chains!PruneChains
  <2>2. Chains!PruningKeepsTheBest
    BY <1>3, <2>1, PruningIsSound
  <2>3. chains' = [k \in DOMAIN chains |-> Pruned(chains, t, k)]
    BY <1>3 DEF Chains!PruneChains, Pruned, AllFaded
  <2>4. ASSUME NEW k \in DOMAIN chains PROVE MayBecome(Pruned(chains, t, k), chains[k])
    <3>1. /\ Like(Pruned(chains, t, k), chains[k])
          /\ \A e \in Chains!EntriesOf(chains[k]) :
               LET old == chains[k].entries[e].status  s == Pruned(chains, t, k).entries[e].status IN
                 \/ s = old
                 \/ old \in Chains!Open /\ s = "dormant"
                 \/ old # "pruned" /\ s = "pruned"
      BY <1>0, PrunedIsLike
    <3> QED BY <3>1 DEF MayBecome
  <2> QED BY <1>0, <1>k, <2>1, <2>2, <2>3, <2>4
<1>4. ASSUME NEW k \in DOMAIN chains, Chains!ResolveChain(k)
      PROVE  ChainsInv' /\ Chains!WhatIsDoneStaysDone /\ Chains!PruningKeepsTheBest
  <2> DEFINE w == Chains!WithStatus(chains[k], Chains!Open, "resolved")
  <2>1. /\ chains' = [chains EXCEPT ![k] = w] /\ pruning' = pruning /\ turn' = turn
    BY <1>4 DEF Chains!ResolveChain
  <2>2. MayBecome(w, chains[k])
    <3>1. /\ Like(w, chains[k])
          /\ \A e \in Chains!EntriesOf(chains[k]) :
               w.entries[e].status = IF chains[k].entries[e].status \in Chains!Open THEN "resolved"
                                     ELSE chains[k].entries[e].status
      BY <1>0, StatusIsSet DEF EntryStatuses
    <3> HIDE DEF w
    <3> QED BY <3>1 DEF MayBecome
  <2> HIDE DEF w
  <2>3. \A j \in DOMAIN chains : MayBecome(chains'[j], chains[j])
    BY <1>0, <1>m, <2>1, <2>2
  <2>4. DOMAIN chains' = DOMAIN chains /\ chains' = [j \in DOMAIN chains |-> chains'[j]]
    BY <2>1
  <2> QED BY <1>0, <1>k, <1>p, <2>1, <2>3, <2>4
<1>5. ASSUME NEW k \in DOMAIN chains, NEW e \in Chains!EntriesOf(chains[k]),
             Chains!RevealHiddenEntry(k, e)
      PROVE  ChainsInv' /\ Chains!WhatIsDoneStaysDone /\ Chains!PruningKeepsTheBest
  <2> DEFINE old == chains[k]
             x == [old.entries[e] EXCEPT !.hidden = FALSE, !.status = "active"]
             f == [old.entries EXCEPT ![e] = x]
             c == [old EXCEPT !.entries = f, !.lastActive = turn]
  <2>1. chains' = [chains EXCEPT ![k] = c] /\ pruning' = pruning /\ turn' = turn /\ old.entries[e].hidden
    BY <1>5 DEF Chains!RevealHiddenEntry
  <2>2. /\ old \in ChainState /\ old.entries \in [Chains!EntriesOf(old) -> EntryState]
        /\ old.entries[e] \in EntryState
    BY <1>0, EntriesAreTyped
  <2>3. x \in EntryState /\ ~x.hidden
    BY <2>2 DEF EntryState, EntryStatuses
  <2> HIDE DEF x
  <2>4. /\ f \in [Chains!EntriesOf(old) -> EntryState] /\ f[e] = x
        /\ \A i \in Chains!EntriesOf(old) \ {e} : f[i] = old.entries[i]
    BY <2>2, <2>3
  <2> HIDE DEF f
  <2>5. f \in Entries
    BY <2>2, <2>4, EntriesAreSet
  <2>6. c \in ChainState /\ c.entries = f
    BY <1>0, <2>2, <2>5 DEF ChainState
  <2> HIDE DEF c
  <2>7. /\ chains'[k] = c /\ DOMAIN chains' = DOMAIN chains
        /\ \A j \in DOMAIN chains \ {k} : chains'[j] = chains[j]
        /\ chains' = [j \in DOMAIN chains |-> chains'[j]]
    BY <1>0, <2>1
  <2>8. ChainsInv'
    BY <1>0, <2>1, <2>6, <2>7, MayBecomeIsTyped
  <2>9. Chains!WhatIsDoneStaysDone
    <3> SUFFICES ASSUME NEW j \in DOMAIN chains, NEW i \in Chains!EntriesOf(chains[j]),
                        ~(j = k /\ i = e)
                 PROVE  chains[j].entries[i].status = chains'[j].entries[i].status
      BY <2>1, <2>3, <2>4, <2>6, <2>7 DEF Chains!WhatIsDoneStaysDone, Chains!Revealed
    <3>1. CASE j = k
      BY <2>4, <2>6, <2>7, <3>1
    <3>2. CASE j # k
      BY <2>7, <3>2
    <3> QED BY <3>1, <3>2
  <2> QED BY <1>p, <2>1, <2>8, <2>9
<1>6. ASSUME Chains!NextTurn \/ UNCHANGED Chains!vars
      PROVE  ChainsInv' /\ Chains!WhatIsDoneStaysDone /\ Chains!PruningKeepsTheBest
  <2>1. chains' = chains /\ pruning' = pruning /\ turn' \in Int
    BY <1>0, <1>6 DEF Chains!NextTurn, Chains!vars
  <2>2. Chains!WhatIsDoneStaysDone
    BY <1>m, <2>1, MayBecomeIsDone
  <2> QED BY <1>0, <1>p, <2>1, <2>2 DEF ChainsInv
<1> QED
  BY <1>1, <1>2, <1>3, <1>4, <1>5, <1>6 DEF Chains!Next

-----------------------------------------------------------------------------
(* All of them, as the parts of one behaviour                                 *)

PartsInv ==
  /\ part \in {"calls", "limits", "player", "creation", "dialogue", "universe", "chains"}
  /\ part = "calls" => ProviderInv
  /\ part = "limits" => LimitsInv
  /\ part = "player" => PlayerInv
  /\ part = "creation" => CreationInv
  /\ part = "dialogue" => DialogueInv
  /\ part = "universe" => UniverseInv
  /\ part = "chains" => ChainsInv

LEMMA PartsStart == PartsInit => PartsInv
BY ProviderInit, LimitsInit, PlayerInit, CreationInit, DialogueInit, UniverseInit, ChainsInit
DEF PartsInit, PartsInv

\* Every step is one of its part, which keeps the part's invariant and settles nothing anew.
LEMMA PartsMove ==
  ASSUME PartsInv, PartsNext
  PROVE  /\ PartsInv'
         /\ part = "dialogue" => Dialogue!OnlyOvertakenLose
         /\ part = "universe" => Multiverse!UniverseSettles
         /\ part = "chains" => Chains!WhatIsDoneStaysDone /\ Chains!PruningKeepsTheBest
<1> USE DEF PartsInv
<1>0. part' = part /\ PartsStep
  BY DEF PartsNext
<1>1. CASE part = "calls" /\ Provider!Next
  BY <1>0, <1>1, ProviderStep
<1>2. CASE part = "limits" /\ Limits!Next
  BY <1>0, <1>2, LimitsStep
<1>3. CASE part = "player" /\ Player!Next
  BY <1>0, <1>3, PlayerStep
<1>4. CASE part = "creation" /\ Creation!Next
  BY <1>0, <1>4, CreationStep
<1>5. CASE part = "dialogue" /\ Dialogue!Next
  BY <1>0, <1>5, DialogueStep
<1>6. CASE part = "universe" /\ Multiverse!Next
  BY <1>0, <1>6, UniverseStep
<1>7. CASE part = "chains" /\ Chains!Next
  BY <1>0, <1>7, ChainsStep
<1> QED BY <1>0, <1>1, <1>2, <1>3, <1>4, <1>5, <1>6, <1>7 DEF PartsStep

LEMMA PartsRest == ASSUME PartsInv, UNCHANGED partVars PROVE PartsInv'
<1>1. /\ part' = part
      /\ UNCHANGED Provider!vars /\ UNCHANGED Limits!vars /\ UNCHANGED Player!vars
      /\ UNCHANGED Creation!vars /\ UNCHANGED Dialogue!vars /\ UNCHANGED Multiverse!vars
      /\ UNCHANGED Chains!vars
  BY DEF partVars, windowVars, gameVars, creationVars, dialogueVars, universeVars, chainVars,
         Provider!vars, Limits!vars, Player!vars, Creation!vars, Dialogue!vars, Multiverse!vars,
         Chains!vars
<1>2. /\ ProviderInv => ProviderInv'
      /\ LimitsInv => LimitsInv'
      /\ PlayerInv => PlayerInv'
      /\ CreationInv => CreationInv'
      /\ DialogueInv => DialogueInv'
      /\ UniverseInv => UniverseInv'
      /\ ChainsInv => ChainsInv'
  BY <1>1, ProviderStep, LimitsStep, PlayerStep, CreationStep, DialogueStep, UniverseStays,
     ChainsStep
<1> QED BY <1>1, <1>2 DEF PartsInv

THEOREM SpecPartsInv == PartsSpec => []PartsInv
<1>1. PartsInit => PartsInv
  BY PartsStart
<1>2. PartsInv /\ [PartsNext]_partVars => PartsInv'
  BY PartsMove, PartsRest
<1> QED BY <1>1, <1>2, PTL DEF PartsSpec

\* ProviderCalls, for every number of calls, of tiers and of tries: the last resort comes
\* last, whatever the calls do to the order of the tiers meanwhile.
THEOREM SpecGivesUpLast == PartsSpec => []GivesUpLast
<1>1. PartsInv => GivesUpLast
  BY ProviderIsSound DEF PartsInv, GivesUpLast
<1> QED BY <1>1, SpecPartsInv, PTL

\* RequestLimits and GameLimit (FR-10.10, FR-11.56), for every number of requests and of
\* games and every setting: a window lets no more through than its limit but for requests
\* whose count was overtaken, whoever is refused too often is blocked, and a player exceeds
\* a limit by no more than the creations that overlap, and what was made live again.
THEOREM SpecLimitsHold == PartsSpec => []LimitsHold
<1>1. PartsInv => LimitsHold
  BY LimitsAreKept, PlayerIsKept DEF PartsInv, LimitsHold
<1> QED BY <1>1, SpecPartsInv, PTL

\* GenesisLite and GenesisV2, wherever a creation fails, is cancelled or outrun, and for
\* every number of calls that overlap: what was begun is what was said to be.
THEOREM SpecGenesisIsSound == PartsSpec => []GenesisIsSound
<1>1. DialogueInv => Dialogue!SavedIsCoherent
  BY SoundIsCoherent DEF DialogueInv, Sane, Dialogue!SavedIsCoherent
<1>2. PartsInv => GenesisIsSound
  BY <1>1 DEF PartsInv, CreationInv, GenesisIsSound
<1> QED BY <1>2, SpecPartsInv, PTL

\* GenesisV2, Universe and Consequences, for every number of calls, keys, chains and turns:
\* calls that overlap undo one another only as they may, what is committed, resolved or
\* pruned stays so, and pruning drops nothing that matters more than what it keeps.
THEOREM SpecWhatIsSettledStays == PartsSpec => WhatIsSettledStays
<1> DEFINE Stays ==
      /\ part = "dialogue" => Dialogue!OnlyOvertakenLose
      /\ part = "universe" => Multiverse!UniverseSettles
      /\ part = "chains" => Chains!WhatIsDoneStaysDone /\ Chains!PruningKeepsTheBest
<1>1. PartsInv /\ [PartsNext]_partVars => [Stays]_partVars
  BY PartsMove
<1>2. WhatIsSettledStays <=> [][Stays]_partVars
  BY DEF WhatIsSettledStays
<1> HIDE DEF Stays
<1> QED BY <1>1, <1>2, SpecPartsInv, PTL DEF PartsSpec
=============================================================================
