----------------------------- MODULE MCAccounts -----------------------------
(* Accounts and erasure for TLC: a behaviour is about what a player leaves     *)
(* behind, the tokens of a session, the account of a player, or the logins of a *)
(* player who registered before, with the column that login reads or as the    *)
(* migrations leave the table.                                                 *)
EXTENDS Accounts

CONSTANTS Email, Session, Spare, Games

VARIABLES part,
  account, game, removed, aged, kept, task, summarizing, evicting, deletion, picked,
  overtaken, reopened, failed

erasureVars == <<account, game, removed, aged, kept, task, summarizing, evicting, deletion, picked,
                 overtaken, reopened, failed>>

Account == INSTANCE Accounts WITH
  Emails <- {Email}, Sessions <- Sessions \cup {Session}, Tokens <- Tokens \ {Spare},
  Requests <- {}
Login == INSTANCE Accounts WITH
  Emails <- {Email}, Tokens <- {Spare}, Columns <- {"players.deleted_at"}
Migrated == INSTANCE Accounts WITH Emails <- {Email}, Tokens <- {Spare}

Erasure == INSTANCE Erasure WITH faults <- failed

\* Tokens of the time before are not counted, and one is left for the login.
Registered ==
  /\ status = [p \in Players |-> "active"]
  /\ email = [p \in Players |-> Email]
  /\ consent = [p \in Players |-> {"terms", "age"}]
  /\ owner = [s \in Sessions |-> NoPlayer] /\ revoked = {} /\ listed = {}
  /\ outrun = [s \in Sessions |-> 0]
  /\ holder = [t \in {Spare} |-> NoPlayer] /\ family = [t \in {Spare} |-> NoSession]
  /\ spent = {} /\ denied = {} /\ lapsed = {}
  /\ attempts = [e \in {Email} |-> 0] /\ timed = {}
  /\ request = [r \in Requests |-> Idle]
  /\ faults = MaxFaults

MCInit ==
  /\ Erasure!Init
  /\ \/ part \in {"tokens", "erasure"} /\ Init
     \/ part = "account" /\ Account!Init
     \/ part \in {"login", "migrated"} /\ Registered

AccountStep ==
  /\ \/ part = "tokens" /\ Next
     \/ part = "account" /\ Account!Next
     \/ part = "login" /\ Login!Next
     \/ part = "migrated" /\ Migrated!Next
  /\ UNCHANGED <<part, erasureVars>>

On(A) == part = "erasure" /\ A /\ UNCHANGED <<part, vars>>

\* The purge loop runs every hour, whatever its passes ran into.
MCSpec ==
  /\ MCInit
  /\ [][AccountStep \/ On(Erasure!Next)]_<<part, vars, erasureVars>>
  /\ \A g \in Games : WF_erasureVars(On(Erasure!Grow(g)))
  /\ WF_erasureVars(On(Erasure!PurgeSelect)) /\ WF_erasureVars(On(Erasure!PurgeDelete))

\* See Erasure: what was scrubbed comes back only through work under way.
OnlyWorkUnderWayReturns == Erasure!OnlyWorkUnderWayReturns
\* See Erasure: the purge and a resumption.
LiveGameIsPurgedOnlyIfReopened == Erasure!LiveGameIsPurgedOnlyIfReopened
\* See Erasure: what the player deleted goes.
RemovedIsPurged == Erasure!RemovedIsPurged
=============================================================================
