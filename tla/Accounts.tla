------------------------------ MODULE Accounts ------------------------------
(***************************************************************************)
(* Players and what they sign in with: the players, auth_sessions and      *)
(* refresh_tokens tables, the deny-list, the index of sessions and the     *)
(* login counters in Redis, and the handlers of api/routes/auth.py,        *)
(* players.py and admin_players.py that change them.                       *)
(*                                                                         *)
(* A handler that awaits between a read and a write is one step per        *)
(* transaction or Redis call, so handlers of several workers interleave;   *)
(* a query that a unique index guards is one step with it.  The two tokens *)
(* of a pair are minted together and share a name here: family, spent and  *)
(* holder are of the refresh token, denied and lapsed of the access token. *)
(* Passwords, handles and the wording of answers are left out.             *)
(***************************************************************************)
EXTENDS Naturals, FiniteSets

CONSTANTS
  Players, Emails, Sessions, Tokens,
  Requests,     \* handlers that may be running at once
  MaxAttempts,  \* failed logins before an email is locked
  Columns,      \* columns of the tables that handlers name and no migration creates
  MaxFaults     \* bound: handlers that die half-way

CONSTANTS NoPlayer, NoSession, NoEmail

ASSUME AccountsAssumption ==
  /\ MaxAttempts \in Nat \ {0} /\ MaxFaults \in Nat /\ IsFiniteSet(Requests)
  /\ Columns \subseteq {"players.deleted_at"}
  /\ NoPlayer \notin Players /\ NoSession \notin Sessions /\ NoEmail \notin Emails

VARIABLES
  status,    \* players.status, "absent" without a row
  email,     \* players.email; a player without one is anonymous
  consent,   \* which of the consent columns are filled
  owner,     \* auth_sessions.player_id
  revoked,   \* sessions with a revoked_at
  listed,    \* sorted sets tta:auth:player:*
  holder,    \* the sub claim of each token
  family,    \* its sfid claim, the session_id of the refresh token
  spent,     \* refresh tokens with used = true
  denied,    \* tta:deny:*
  lapsed,    \* access tokens past their exp
  attempts,  \* tta:auth:login_attempts:*
  timed,     \* the counters of those that have a TTL
  request,   \* where each running handler is, and on what
  outrun,    \* pairs minted in each session after it was revoked
  faults     \* deaths left

tokenVars == <<holder, family, spent, lapsed>>
sessionVars == <<owner, revoked, listed, outrun>>
playerVars == <<status, email, consent>>
loginVars == <<attempts, timed>>
vars == <<playerVars, sessionVars, tokenVars, loginVars, denied, request, faults>>

Statuses == {"absent", "active", "suspended", "pending_deletion", "deleted"}
Idle == [pc |-> "idle"]
RequestPc ==
  {Idle} \cup [pc : {"checked", "revoking"}, token : Tokens]
         \cup [pc : {"unlisting"}, session : Sessions]
         \cup [pc : {"selecting", "failing", "timing", "unlocking"}, email : Emails]

Init ==
  /\ status = [p \in Players |-> "absent"]
  /\ email = [p \in Players |-> NoEmail]
  /\ consent = [p \in Players |-> {}]
  /\ owner = [s \in Sessions |-> NoPlayer] /\ revoked = {} /\ listed = {}
  /\ outrun = [s \in Sessions |-> 0]
  /\ holder = [t \in Tokens |-> NoPlayer] /\ family = [t \in Tokens |-> NoSession]
  /\ spent = {} /\ denied = {} /\ lapsed = {}
  /\ attempts = [e \in Emails |-> 0] /\ timed = {}
  /\ request = [r \in Requests |-> Idle]
  /\ faults = MaxFaults

At(r, pc) == request[r].pc = pc
Goto(r, to) == request' = [request EXCEPT ![r] = to]

Minted(t) == holder[t] # NoPlayer

\* get_current_player: what the bearer of an access token is taken for, whatever
\* became of the session it was minted in.
Bearer(t, p) ==
  /\ holder[t] = p /\ status[p] # "absent"
  /\ t \notin lapsed /\ t \notin denied

Mint(t, p, s) ==
  /\ ~Minted(t)
  /\ holder' = [holder EXCEPT ![t] = p]
  /\ family' = [family EXCEPT ![t] = s]

\* _issue_token_pair: the index is written before the caller commits.
IssueTokenPair(p, s, t) ==
  /\ owner[s] = NoPlayer /\ s \notin listed
  /\ Mint(t, p, s)
  /\ owner' = [owner EXCEPT ![s] = p]
  /\ listed' = listed \cup {s}

CreateAnonymous(p, s, t) ==
  /\ status[p] = "absent"
  /\ status' = [status EXCEPT ![p] = "active"]
  /\ IssueTokenPair(p, s, t)
  /\ UNCHANGED <<email, consent, revoked, outrun, spent, lapsed, denied, loginVars, request, faults>>

\* The commit fails after the session was put into the index.
CreateRollsBack(p, s) ==
  /\ faults > 0 /\ faults' = faults - 1
  /\ status[p] = "absent" /\ owner[s] = NoPlayer
  /\ listed' = listed \cup {s}
  /\ UNCHANGED <<playerVars, owner, revoked, outrun, tokenVars, loginVars, denied, request>>

\* POST /players: an access token that belongs to no session.
RegisterPlayer(p, t) ==
  /\ status[p] = "absent"
  /\ status' = [status EXCEPT ![p] = "active"]
  /\ consent' = [consent EXCEPT ![p] = {"terms", "age"}]
  /\ Mint(t, p, NoSession)
  /\ UNCHANGED <<email, sessionVars, spent, lapsed, denied, loginVars, request, faults>>

\* PATCH /players/me/consent; the CHECK of the table refuses a partial consent.
UpdateConsent(p, t, given) ==
  /\ Bearer(t, p) /\ "terms" \in given
  /\ consent' = [consent EXCEPT ![p] = @ \cup given]
  /\ UNCHANGED <<status, email, sessionVars, tokenVars, loginVars, denied, request, faults>>

\* POST /auth/upgrade: a new session beside the anonymous ones.
UpgradeAnonymous(p, bearer, e, s, t) ==
  /\ Bearer(bearer, p) /\ email[p] = NoEmail
  /\ \A q \in Players : email[q] # e
  /\ email' = [email EXCEPT ![p] = e]
  /\ consent' = [consent EXCEPT ![p] = {"terms", "age"}]
  /\ IssueTokenPair(p, s, t)
  /\ UNCHANGED <<status, revoked, outrun, spent, lapsed, denied, loginVars, request, faults>>

CheckRefresh_UsedOnly(r, t) ==
  /\ At(r, "idle") /\ Minted(t) /\ family[t] # NoSession
  /\ t \notin spent
  /\ Goto(r, [pc |-> "checked", token |-> t])
  /\ UNCHANGED <<playerVars, sessionVars, tokenVars, loginVars, denied, faults>>
\* POST /auth/refresh up to its reads: the token is unused, its session stands.
CheckRefresh(r, t) ==
  /\ At(r, "idle") /\ Minted(t) /\ family[t] # NoSession
  /\ t \notin spent /\ family[t] \notin revoked
  /\ Goto(r, [pc |-> "checked", token |-> t])
  /\ UNCHANGED <<playerVars, sessionVars, tokenVars, loginVars, denied, faults>>

\* A used token ends its session.
DetectReuse(r, t) ==
  /\ At(r, "idle") /\ t \in spent
  /\ revoked' = revoked \cup {family[t]}
  /\ Goto(r, [pc |-> "unlisting", session |-> family[t]])
  /\ UNCHANGED <<playerVars, owner, listed, outrun, tokenVars, loginVars, denied, faults>>

ClaimToken_Any(t) == TRUE
\* UPDATE ... AND used = false
ClaimToken(t) == t \notin spent

RotateToken(r, t) ==
  /\ At(r, "checked")
  /\ LET old == request[r].token IN
       /\ ClaimToken(old)
       /\ Mint(t, holder[old], family[old])
       /\ spent' = spent \cup {old}
       /\ outrun' = [outrun EXCEPT ![family[old]] =
                       @ + (IF family[old] \in revoked THEN 1 ELSE 0)]
  /\ Goto(r, Idle)
  /\ UNCHANGED <<playerVars, owner, revoked, listed, lapsed, loginVars, denied, faults>>

\* Another request took the token first.  The UPDATE that should spend the rest of
\* the family names a column no migration creates: the request ends in an error and
\* its transaction is rolled back.
LoseToken(r) ==
  /\ At(r, "checked") /\ ~ClaimToken(request[r].token)
  /\ Goto(r, Idle)
  /\ UNCHANGED <<playerVars, sessionVars, tokenVars, loginVars, denied, faults>>

\* POST /auth/logout: the access token, then its session, then the index.
Logout(r, t) ==
  /\ At(r, "idle") /\ Minted(t) /\ t \notin lapsed
  /\ denied' = denied \cup {t}
  /\ Goto(r, IF family[t] = NoSession THEN Idle ELSE [pc |-> "revoking", token |-> t])
  /\ UNCHANGED <<playerVars, sessionVars, tokenVars, loginVars, faults>>

RevokeSession(r) ==
  /\ At(r, "revoking")
  /\ LET s == family[request[r].token] IN
       /\ revoked' = revoked \cup {s}
       /\ Goto(r, [pc |-> "unlisting", session |-> s])
  /\ UNCHANGED <<playerVars, owner, listed, outrun, tokenVars, loginVars, denied, faults>>

UnlistSession(r) ==
  /\ At(r, "unlisting")
  /\ listed' = listed \ {request[r].session}
  /\ Goto(r, Idle)
  /\ UNCHANGED <<playerVars, owner, revoked, outrun, tokenVars, loginVars, denied, faults>>

StartLogin_Uncounted(r, e) ==
  /\ At(r, "idle") /\ attempts[e] <= MaxAttempts
  /\ Goto(r, [pc |-> "selecting", email |-> e])
  /\ UNCHANGED <<playerVars, sessionVars, tokenVars, loginVars, denied, faults>>
\* POST /auth/login, first the counter.
StartLogin(r, e) ==
  /\ At(r, "idle") /\ attempts[e] < MaxAttempts
  /\ Goto(r, [pc |-> "selecting", email |-> e])
  /\ UNCHANGED <<playerVars, sessionVars, tokenVars, loginVars, denied, faults>>

\* Then the player's row, with a column the migrations do not create.
SelectFails(r) ==
  /\ At(r, "selecting") /\ "players.deleted_at" \notin Columns
  /\ Goto(r, Idle)
  /\ UNCHANGED <<playerVars, sessionVars, tokenVars, loginVars, denied, faults>>

VerifyPassword(r, right) ==
  /\ At(r, "selecting") /\ "players.deleted_at" \in Columns
  /\ right => \E p \in Players : email[p] = request[r].email
  /\ Goto(r, [request[r] EXCEPT !.pc = IF right THEN "unlocking" ELSE "failing"])
  /\ UNCHANGED <<playerVars, sessionVars, tokenVars, loginVars, denied, faults>>

\* _record_failed_login: INCR keeps the TTL a counter has and gives a new one none.
RecordFailedLogin(r) ==
  /\ At(r, "failing")
  /\ attempts' = [attempts EXCEPT ![request[r].email] = @ + 1]
  /\ Goto(r, [request[r] EXCEPT !.pc = "timing"])
  /\ UNCHANGED <<playerVars, sessionVars, tokenVars, timed, denied, faults>>

\* EXPIRE does nothing to a key that is gone.
SetLockoutTtl(r) ==
  /\ At(r, "timing")
  /\ timed' = IF attempts[request[r].email] = 0 THEN timed ELSE timed \cup {request[r].email}
  /\ Goto(r, Idle)
  /\ UNCHANGED <<playerVars, sessionVars, tokenVars, attempts, denied, faults>>

CompleteLogin(r, p, s, t) ==
  /\ At(r, "unlocking") /\ email[p] = request[r].email
  /\ attempts' = [attempts EXCEPT ![email[p]] = 0]
  /\ timed' = timed \ {email[p]}
  /\ IssueTokenPair(p, s, t)
  /\ Goto(r, Idle)
  /\ UNCHANGED <<playerVars, revoked, outrun, spent, lapsed, denied, faults>>

LockoutExpires(e) ==
  /\ e \in timed
  /\ attempts' = [attempts EXCEPT ![e] = 0]
  /\ timed' = timed \ {e}
  /\ UNCHANGED <<playerVars, sessionVars, tokenVars, denied, request, faults>>

AccessExpires(t) ==
  /\ Minted(t) /\ lapsed' = lapsed \cup {t} /\ denied' = denied \ {t}
  /\ UNCHANGED <<playerVars, sessionVars, holder, family, spent, loginVars, request, faults>>

\* The worker dies, or a store stops answering, between two steps of a handler.
RequestDies(r) ==
  /\ faults > 0 /\ faults' = faults - 1
  /\ ~At(r, "idle") /\ Goto(r, Idle)
  /\ UNCHANGED <<playerVars, sessionVars, tokenVars, loginVars, denied>>

SetStatus(p, to) ==
  /\ status' = [status EXCEPT ![p] = to]
  /\ UNCHANGED <<email, consent, sessionVars, tokenVars, loginVars, denied, request, faults>>

\* DELETE /players/me; what it does to the player's games is module Erasure.
RequestAccountDeletion(p, t) == Bearer(t, p) /\ SetStatus(p, "pending_deletion")

SuspendPlayer(p) == status[p] \notin {"absent", "suspended"} /\ SetStatus(p, "suspended")
UnsuspendPlayer(p) == status[p] = "suspended" /\ SetStatus(p, "active")

\* run_lifecycle_pass, of an anonymous player without a live game.
CleanAnonymous(p) ==
  /\ status[p] \notin {"absent", "deleted"} /\ email[p] = NoEmail
  /\ SetStatus(p, "deleted")

RequestStep(r) ==
  \/ \E t \in Tokens : CheckRefresh(r, t) \/ DetectReuse(r, t) \/ RotateToken(r, t) \/ Logout(r, t)
  \/ LoseToken(r) \/ RevokeSession(r) \/ UnlistSession(r)
  \/ \E e \in Emails : StartLogin(r, e)
  \/ SelectFails(r) \/ \E right \in BOOLEAN : VerifyPassword(r, right)
  \/ RecordFailedLogin(r) \/ SetLockoutTtl(r)
  \/ \E p \in Players, s \in Sessions, t \in Tokens : CompleteLogin(r, p, s, t)
  \/ RequestDies(r)

PlayerStep(p) ==
  \/ \E s \in Sessions : CreateRollsBack(p, s)
  \/ \E s \in Sessions, t \in Tokens : CreateAnonymous(p, s, t)
  \/ \E t \in Tokens : RegisterPlayer(p, t) \/ RequestAccountDeletion(p, t)
  \/ \E t \in Tokens : \E given \in {{"terms"}, {"terms", "age"}} : UpdateConsent(p, t, given)
  \/ \E b \in Tokens, e \in Emails, s \in Sessions, t \in Tokens : UpgradeAnonymous(p, b, e, s, t)
  \/ SuspendPlayer(p) \/ UnsuspendPlayer(p) \/ CleanAnonymous(p)

Next ==
  \/ \E r \in Requests : RequestStep(r)
  \/ \E p \in Players : PlayerStep(p)
  \/ \E e \in Emails : LockoutExpires(e)
  \/ \E t \in Tokens : AccessExpires(t)

Spec == Init /\ [][Next]_vars
-----------------------------------------------------------------------------
TypeOK ==
  /\ status \in [Players -> Statuses]
  /\ email \in [Players -> Emails \cup {NoEmail}]
  /\ consent \in [Players -> SUBSET {"terms", "age"}]
  /\ owner \in [Sessions -> Players \cup {NoPlayer}]
  /\ revoked \subseteq Sessions /\ listed \subseteq Sessions
  /\ outrun \in [Sessions -> Nat]
  /\ holder \in [Tokens -> Players \cup {NoPlayer}]
  /\ family \in [Tokens -> Sessions \cup {NoSession}]
  /\ spent \subseteq Tokens /\ denied \subseteq Tokens /\ lapsed \subseteq Tokens
  /\ attempts \in [Emails -> Nat] /\ timed \subseteq Emails
  /\ request \in [Requests -> RequestPc]
  /\ faults \in 0 .. MaxFaults

\* A session has at most one refresh token that can still be used, however many
\* refreshes of it run at once: a copied token and its original cannot both go on.
OneLiveRefresh ==
  \A t, u \in DOMAIN family \ spent :
    (family[t] = family[u] /\ family[t] # NoSession) => t = u

\* Refreshes that passed their checks before the session was revoked may still mint
\* tokens in it, but only one of them does, and what it mints goes no further.
RevocationIsOutrunOnce == \A s \in Sessions : outrun[s] <= 1

\* Logins running at once may all pass the counter before any has failed: an email is
\* tried at most that many times more than the limit says.
GuessesAreBounded ==
  \A e \in DOMAIN attempts : attempts[e] < MaxAttempts + Cardinality(Requests)

\* "4. Invalidates all session tokens": the player whose deletion was accepted has no
\* session left.  (The handler clears player_sessions, which nothing writes.)
DeletionEndsSessions ==
  \A s \in Sessions :
    (owner[s] # NoPlayer /\ status[owner[s]] = "pending_deletion") => s \in revoked
=============================================================================
