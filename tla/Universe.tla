----------------------------- MODULE Universe -----------------------------
(***************************************************************************)
(* A universe, its owner's character in it and the transactions that       *)
(* change them: UniverseService and ActorService over Postgres.            *)
(*                                                                         *)
(* A transaction locks the row of the universe and holds the lock until it *)
(* ends.  patch_config and ensure_seed commit themselves; the caller of    *)
(* the other operations commits or rolls back.  Rows are created without a *)
(* lock: a second insert of an actor or a character state waits for the    *)
(* first one's transaction and then does nothing.  Game sessions of the    *)
(* universe come and go without touching its row, also between the check   *)
(* of an activation and its commit.                                        *)
(***************************************************************************)
EXTENDS FiniteSets

CONSTANTS
  Calls,        \* transactions
  Keys,         \* of a config, besides the seed and the composition
  Seeds,
  None

VARIABLES
  universe,     \* the committed row: its status and config
  session,      \* a created or active game session refers to it
  state,        \* the committed character state: the fields written so far
  lock,         \* the call that holds the row's lock
  inserting,    \* the call whose insert of the character state is not committed
  call          \* where each call is and what it will commit

vars == <<universe, session, state, lock, inserting, call>>

\* _TRANSITIONS
Transitions ==
  {<<"dormant", "active">>, <<"dormant", "archived">>, <<"active", "paused">>,
   <<"active", "archived">>, <<"paused", "active">>, <<"paused", "archived">>}

Compositions == {"valid", "invalid"}
Config == [seed : Seeds \cup {None}, composition : Compositions \cup {None}, keys : SUBSET Keys]
\* The keys of a patch that are given; a composition may be given as null.
Patches == [seed : Seeds \cup {None}, composition : Compositions \cup {None, "null"}, keys : SUBSET Keys]

Idle == [pc |-> "idle", row |-> None, fields |-> {}]

\* create and migration 011 start a universe with whatever config they are given.
Init ==
  /\ universe \in [status : {"dormant", "paused"}, config : {c \in Config : c.keys = {}}]
  /\ session \in BOOLEAN
  /\ state = None
  /\ lock = None /\ inserting = None
  /\ call = [c \in Calls |-> Idle]
LockRow_Unlocked(c) ==
  /\ call[c].pc = "idle"
  /\ lock' = c
  /\ call' = [call EXCEPT ![c] = [pc |-> "locked", row |-> universe, fields |-> {}]]
  /\ UNCHANGED <<universe, session, state, inserting>>


\* _lock_row: what the call sees is the last committed row.
LockRow(c) ==
  /\ call[c].pc = "idle" /\ lock = None
  /\ lock' = c
  /\ call' = [call EXCEPT ![c] = [pc |-> "locked", row |-> universe, fields |-> {}]]
  /\ UNCHANGED <<universe, session, state, inserting>>

Release(c) ==
  /\ lock' = IF lock = c THEN None ELSE lock
  /\ call' = [call EXCEPT ![c] = Idle]

\* A refusal raises, and the caller's transaction ends with nothing changed.
Rollback(c) ==
  /\ call[c].pc \in {"locked", "written", "inserted", "updated"}
  /\ Release(c)
  /\ inserting' = IF inserting = c THEN None ELSE inserting
  /\ UNCHANGED <<universe, session, state>>

\* activate, pause, archive: checked against the locked row, written and not committed.
SetStatus(c, to) ==
  /\ call[c].pc = "locked"
  /\ <<call[c].row.status, to>> \in Transitions
  /\ to = "active" => ~session
  /\ call' = [call EXCEPT ![c].pc = "written", ![c].row.status = to]
  /\ UNCHANGED <<universe, session, state, lock, inserting>>

Commit(c) ==
  /\ call[c].pc = "written"
  /\ universe' = call[c].row
  /\ Release(c)
  /\ UNCHANGED <<session, state, inserting>>

\* CompositionValidator.validate, for which no composition is an empty one.
Validates(patch) == patch.composition # "invalid"

Merged(config, patch) ==
  [seed |-> IF patch.seed # None THEN patch.seed ELSE config.seed,
   composition |-> IF patch.composition = None THEN config.composition
                   ELSE IF patch.composition = "null" THEN None ELSE patch.composition,
   keys |-> config.keys \cup patch.keys]

PatchConfig(c, patch) ==
  /\ call[c].pc = "locked"
  /\ patch.seed # None => call[c].row.config.seed = None
  /\ Validates(patch)
  /\ universe' = [universe EXCEPT !.config = Merged(call[c].row.config, patch)]
  /\ Release(c)
  /\ UNCHANGED <<session, state, inserting>>

EnsureSeed(c) ==
  /\ call[c].pc = "locked" /\ call[c].row.config.seed = None
  /\ \E seed \in Seeds :
       universe' = [universe EXCEPT !.config = [call[c].row.config EXCEPT !.seed = seed]]
  /\ Release(c)
  /\ UNCHANGED <<session, state, inserting>>

\* get_or_create_character_state and get_or_create_for_player: an insert that meets a
\* committed row does nothing, and one that meets another's waits for its end.
GetOrCreate(c) ==
  /\ call[c].pc = "idle" /\ inserting = None
  /\ call' = [call EXCEPT ![c].pc = "inserted"]
  /\ inserting' = IF state = None THEN c ELSE None
  /\ UNCHANGED <<universe, session, state, lock>>

\* upsert_character_state: only the given columns are written.
UpdateState(c, fields) ==
  /\ call[c].pc \in {"inserted", "updated"}
  /\ call' = [call EXCEPT ![c].pc = "updated", ![c].fields = @ \cup fields]
  /\ UNCHANGED <<universe, session, state, lock, inserting>>

CommitState(c) ==
  /\ call[c].pc \in {"inserted", "updated"}
  /\ state' = (IF state = None THEN {} ELSE state) \cup call[c].fields
  /\ inserting' = IF inserting = c THEN None ELSE inserting
  /\ Release(c)
  /\ UNCHANGED <<universe, session>>

SessionComesOrGoes ==
  /\ session' = ~session
  /\ UNCHANGED <<universe, state, lock, inserting, call>>

Next ==
  \/ \E c \in Calls :
       \/ LockRow(c) \/ Rollback(c) \/ Commit(c) \/ EnsureSeed(c)
       \/ \E to \in {"active", "paused", "archived"} : SetStatus(c, to)
       \/ \E patch \in Patches : PatchConfig(c, patch)
       \/ GetOrCreate(c) \/ CommitState(c)
       \/ \E field \in Keys : UpdateState(c, {field})
  \/ SessionComesOrGoes

Spec == Init /\ [][Next]_vars
-----------------------------------------------------------------------------
\* What two transactions do to a universe at the same time is what one after the other
\* would: the seed is given once, an archived universe stays archived, no patch undoes
\* another one's keys or stores a composition that does not validate, and no part of a
\* character state that was committed is lost.
UniverseSettles ==
  /\ universe.config.seed # None => universe'.config.seed = universe.config.seed
  /\ universe'.status # universe.status => <<universe.status, universe'.status>> \in Transitions
  /\ universe.config.keys \subseteq universe'.config.keys
  /\ universe'.config.composition = "invalid" => universe.config.composition = "invalid"
  /\ state # None => state' # None /\ state \subseteq state'
=============================================================================
