--------------------------- MODULE AccountsProofs ---------------------------
(***************************************************************************)
(* Theorems about Accounts, for any players, sessions, tokens and handlers *)
(* that run at once: a session has one refresh token that still works, a   *)
(* revocation is outrun by one pair at most, and a lockout lets through no *)
(* more guesses than there are handlers.  Then about Erasure, for every    *)
(* number of games and of failures: what a deleted account and a purge may *)
(* do.                                                                     *)
(***************************************************************************)
EXTENDS MCAccounts, FiniteSetTheorems, TLAPS

\* Tokens of a session are minted, and the session has its row; only they are spent.
TokenInv ==
  /\ \A t \in Tokens : family[t] # NoSession => Minted(t) /\ owner[family[t]] # NoPlayer
  /\ \A t \in spent : family[t] # NoSession

\* A handler goes on with a token of a session.
HandlerInv ==
  \A r \in Requests : request[r].pc \in {"checked", "revoking"} => family[request[r].token] # NoSession

\* A session that was outrun is revoked, and no handler holds a token of it that works.
OutrunInv ==
  \A s \in Sessions :
    /\ outrun[s] = 0 \/ (outrun[s] = 1 /\ s \in revoked)
    /\ outrun[s] = 1 => \A r \in Requests :
         request[r].pc = "checked" /\ family[request[r].token] = s => request[r].token \in spent

\* The logins for an email that passed the counter and may still add to it.
Guessing(e) ==
  {r \in Requests : request[r].pc \in {"selecting", "failing"} /\ request[r].email = e}

GuessInv ==
  \A e \in Emails : attempts[e] + Cardinality(Guessing(e)) < MaxAttempts + Cardinality(Requests)

IInv == TypeOK /\ TokenInv /\ HandlerInv /\ OneLiveRefresh /\ OutrunInv /\ GuessInv

-----------------------------------------------------------------------------
(* What a step does                                                         *)

\* Every column but the session's and the tokens' is left to these.
LEMMA PlayerWrites ==
  ASSUME TypeOK, Next
  PROVE  /\ status' \in [Players -> Statuses]
         /\ email' \in [Players -> Emails \cup {NoEmail}]
         /\ consent' \in [Players -> SUBSET {"terms", "age"}]
<1>1. \/ status' = status
      \/ \E p \in Players, to \in Statuses : status' = [status EXCEPT ![p] = to]
  BY ZenonT(60) DEF Next, RequestStep, PlayerStep, CheckRefresh, DetectReuse, RotateToken, Logout, LoseToken,
         RevokeSession, UnlistSession, StartLogin, SelectFails, VerifyPassword, RecordFailedLogin,
         SetLockoutTtl, CompleteLogin, RequestDies, CreateRollsBack, CreateAnonymous, RegisterPlayer,
         RequestAccountDeletion, UpdateConsent, UpgradeAnonymous, SuspendPlayer, UnsuspendPlayer,
         CleanAnonymous, SetStatus, LockoutExpires, AccessExpires, playerVars, Statuses
<1>2. \/ email' = email
      \/ \E p \in Players, e \in Emails : email' = [email EXCEPT ![p] = e]
  BY ZenonT(60) DEF Next, RequestStep, PlayerStep, CheckRefresh, DetectReuse, RotateToken, Logout, LoseToken,
         RevokeSession, UnlistSession, StartLogin, SelectFails, VerifyPassword, RecordFailedLogin,
         SetLockoutTtl, CompleteLogin, RequestDies, CreateRollsBack, CreateAnonymous, RegisterPlayer,
         RequestAccountDeletion, UpdateConsent, UpgradeAnonymous, SuspendPlayer, UnsuspendPlayer,
         CleanAnonymous, SetStatus, LockoutExpires, AccessExpires, playerVars
<1>3. \/ consent' = consent
      \/ \E p \in Players, given \in SUBSET {"terms", "age"} : consent' = [consent EXCEPT ![p] = given]
      \/ \E p \in Players, given \in SUBSET {"terms", "age"} :
           consent' = [consent EXCEPT ![p] = @ \cup given]
  BY ZenonT(60) DEF Next, RequestStep, PlayerStep, CheckRefresh, DetectReuse, RotateToken, Logout, LoseToken,
         RevokeSession, UnlistSession, StartLogin, SelectFails, VerifyPassword, RecordFailedLogin,
         SetLockoutTtl, CompleteLogin, RequestDies, CreateRollsBack, CreateAnonymous, RegisterPlayer,
         RequestAccountDeletion, UpdateConsent, UpgradeAnonymous, SuspendPlayer, UnsuspendPlayer,
         CleanAnonymous, SetStatus, LockoutExpires, AccessExpires, playerVars
<1>4. /\ status \in [Players -> Statuses] /\ email \in [Players -> Emails \cup {NoEmail}]
      /\ consent \in [Players -> SUBSET {"terms", "age"}]
  BY DEF TypeOK
<1>5. status' \in [Players -> Statuses]
  BY <1>1, <1>4
<1>6. email' \in [Players -> Emails \cup {NoEmail}]
  BY <1>2, <1>4
<1>7. consent' \in [Players -> SUBSET {"terms", "age"}]
  BY <1>3, <1>4
<1> QED BY <1>5, <1>6, <1>7

\* How pairs are minted: for a new session, for none, or in exchange for a token.
LEMMA Minting ==
  ASSUME Next
  PROVE  \/ UNCHANGED <<holder, family, spent, owner>>
         \/ \E p \in Players, s \in Sessions, t \in Tokens : IssueTokenPair(p, s, t) /\ spent' = spent
         \/ \E p \in Players, t \in Tokens : Mint(t, p, NoSession) /\ UNCHANGED <<spent, owner>>
         \/ \E r \in Requests, t \in Tokens : RotateToken(r, t)
<1>1. ASSUME NEW r \in Requests, RequestStep(r)
      PROVE  \/ UNCHANGED <<holder, family, spent, owner>>
             \/ \E p \in Players, s \in Sessions, t \in Tokens : IssueTokenPair(p, s, t) /\ spent' = spent
             \/ \E t \in Tokens : RotateToken(r, t)
  <2>1. CASE \E p \in Players, s \in Sessions, t \in Tokens : CompleteLogin(r, p, s, t)
    BY <2>1 DEF CompleteLogin
  <2>2. CASE ~\E p \in Players, s \in Sessions, t \in Tokens : CompleteLogin(r, p, s, t)
    BY <1>1, <2>2
       DEF RequestStep, CheckRefresh, DetectReuse, Logout, LoseToken, RevokeSession, UnlistSession, StartLogin,
           SelectFails, VerifyPassword, RecordFailedLogin, SetLockoutTtl, RequestDies, tokenVars, sessionVars
  <2> QED BY <2>1, <2>2
<1>2. ASSUME NEW p \in Players, PlayerStep(p)
      PROVE  \/ UNCHANGED <<holder, family, spent, owner>>
             \/ \E s \in Sessions, t \in Tokens : IssueTokenPair(p, s, t) /\ spent' = spent
             \/ \E t \in Tokens : Mint(t, p, NoSession) /\ UNCHANGED <<spent, owner>>
  BY <1>2
     DEF PlayerStep, CreateRollsBack, CreateAnonymous, RegisterPlayer, RequestAccountDeletion, UpdateConsent,
         UpgradeAnonymous, SuspendPlayer, UnsuspendPlayer, CleanAnonymous, SetStatus, tokenVars, sessionVars
<1>3. (\E e \in Emails : LockoutExpires(e)) \/ (\E t \in Tokens : AccessExpires(t))
        => UNCHANGED <<holder, family, spent, owner>>
  BY DEF LockoutExpires, AccessExpires, tokenVars, sessionVars
<1> QED BY <1>1, <1>2, <1>3 DEF Next

\* How handlers move.
LEMMA Moving ==
  ASSUME Next
  PROVE  \/ request' = request
         \/ \E r \in Requests :
              \/ Goto(r, Idle)
              \/ \E t \in Tokens : CheckRefresh(r, t) \/ DetectReuse(r, t)
              \/ \E t \in Tokens : family[t] # NoSession /\ Goto(r, [pc |-> "revoking", token |-> t])
              \/ RevokeSession(r)
              \/ \E e \in Emails : StartLogin(r, e)
              \/ \E right \in BOOLEAN : VerifyPassword(r, right)
              \/ RecordFailedLogin(r)
BY ZenonT(60) DEF Next, RequestStep, PlayerStep, RotateToken, Logout, LoseToken,
       UnlistSession, SelectFails,
       SetLockoutTtl, CompleteLogin, RequestDies, CreateRollsBack, CreateAnonymous, RegisterPlayer,
       RequestAccountDeletion, UpdateConsent, UpgradeAnonymous, SuspendPlayer, UnsuspendPlayer,
       CleanAnonymous, SetStatus, LockoutExpires, AccessExpires, At

\* How sessions end, and how they are outrun.
LEMMA Ending ==
  ASSUME Next
  PROVE  /\ \/ revoked' = revoked
            \/ \E r \in Requests : RevokeSession(r) \/ \E t \in Tokens : DetectReuse(r, t)
         /\ outrun' = outrun \/ \E r \in Requests, t \in Tokens : RotateToken(r, t)
BY ZenonT(60) DEF Next, RequestStep, PlayerStep, CheckRefresh, RotateToken, DetectReuse, Logout, LoseToken,
       RevokeSession, UnlistSession, StartLogin, SelectFails, VerifyPassword, RecordFailedLogin,
       SetLockoutTtl, CompleteLogin, RequestDies, CreateRollsBack, CreateAnonymous, RegisterPlayer,
       RequestAccountDeletion, UpdateConsent, UpgradeAnonymous, SuspendPlayer, UnsuspendPlayer,
       CleanAnonymous, SetStatus, LockoutExpires, AccessExpires, sessionVars

\* How failed logins are counted.
LEMMA Counting ==
  ASSUME Next
  PROVE  \/ attempts' = attempts
         \/ \E r \in Requests : RecordFailedLogin(r)
         \/ \E e : attempts' = [attempts EXCEPT ![e] = 0]
BY ZenonT(60) DEF Next, RequestStep, PlayerStep, CheckRefresh, RotateToken, DetectReuse, Logout, LoseToken,
       RevokeSession, UnlistSession, StartLogin, SelectFails, VerifyPassword,
       SetLockoutTtl, CompleteLogin, RequestDies, CreateRollsBack, CreateAnonymous, RegisterPlayer,
       RequestAccountDeletion, UpdateConsent, UpgradeAnonymous, SuspendPlayer, UnsuspendPlayer,
       CleanAnonymous, SetStatus, LockoutExpires, AccessExpires, loginVars

-----------------------------------------------------------------------------
(* Types                                                                    *)

\* What a handler holds at each place.
LEMMA Holding ==
  ASSUME TypeOK, NEW r \in Requests
  PROVE  /\ request[r].pc \in {"checked", "revoking"} => request[r].token \in Tokens
         /\ request[r].pc \in {"selecting", "failing", "timing", "unlocking"} =>
              /\ request[r].email \in Emails
              /\ \A pc \in {"selecting", "failing", "timing", "unlocking"} :
                   /\ [request[r] EXCEPT !.pc = pc] \in RequestPc
                   /\ [request[r] EXCEPT !.pc = pc].pc = pc
                   /\ [request[r] EXCEPT !.pc = pc].email = request[r].email
<1>1. request[r] \in RequestPc
  BY DEF TypeOK
<1>2. CASE request[r] = Idle
  BY <1>2 DEF Idle
<1>3. CASE request[r] \in [pc : {"checked", "revoking"}, token : Tokens]
  BY <1>3
<1>4. CASE request[r] \in [pc : {"unlisting"}, session : Sessions]
  BY <1>4
<1>5. CASE request[r] \in [pc : {"selecting", "failing", "timing", "unlocking"}, email : Emails]
  BY <1>5 DEF RequestPc
<1> QED BY <1>1, <1>2, <1>3, <1>4, <1>5 DEF RequestPc

\* A handler that moves to a place of its type keeps the type, and the others stay.
LEMMA Goes ==
  ASSUME TypeOK, NEW r \in Requests, NEW to, Goto(r, to)
  PROVE  /\ request'[r] = to /\ \A q \in Requests : q # r => request'[q] = request[q]
         /\ to \in RequestPc => request' \in [Requests -> RequestPc]
BY DEF TypeOK, Goto

LEMMA Places ==
  /\ Idle \in RequestPc
  /\ \A t \in Tokens, pc \in {"checked", "revoking"} : [pc |-> pc, token |-> t] \in RequestPc
  /\ \A s \in Sessions : [pc |-> "unlisting", session |-> s] \in RequestPc
  /\ \A e \in Emails : [pc |-> "selecting", email |-> e] \in RequestPc
BY DEF RequestPc

LEMMA RequestType ==
  ASSUME IInv, Next
  PROVE  request' \in [Requests -> RequestPc]
<1>0. TypeOK /\ request \in [Requests -> RequestPc] /\ family \in [Tokens -> Sessions \cup {NoSession}]
      /\ spent \in SUBSET Tokens
  BY DEF IInv, TypeOK
<1>1. CASE request' = request
  BY <1>0, <1>1
<1>2. ASSUME NEW r \in Requests, Goto(r, Idle) PROVE request' \in [Requests -> RequestPc]
  BY <1>0, <1>2, Goes, Places
<1>3. ASSUME NEW r \in Requests, NEW t \in Tokens, CheckRefresh(r, t) PROVE request' \in [Requests -> RequestPc]
  BY <1>0, <1>3, Goes, Places DEF CheckRefresh
<1>4. ASSUME NEW r \in Requests, NEW t \in Tokens, DetectReuse(r, t) PROVE request' \in [Requests -> RequestPc]
  <2>1. family[t] \in Sessions
    BY <1>0, <1>4 DEF DetectReuse, IInv, TokenInv
  <2> QED BY <1>0, <1>4, <2>1, Goes, Places DEF DetectReuse
<1>5. ASSUME NEW r \in Requests, NEW t \in Tokens, Goto(r, [pc |-> "revoking", token |-> t])
      PROVE request' \in [Requests -> RequestPc]
  BY <1>0, <1>5, Goes, Places
<1>6. ASSUME NEW r \in Requests, RevokeSession(r) PROVE request' \in [Requests -> RequestPc]
  <2>1. family[request[r].token] \in Sessions
    BY <1>0, <1>6, Holding DEF RevokeSession, At, IInv, HandlerInv
  <2> QED BY <1>0, <1>6, <2>1, Goes, Places DEF RevokeSession
<1>7. ASSUME NEW r \in Requests, NEW e \in Emails, StartLogin(r, e) PROVE request' \in [Requests -> RequestPc]
  BY <1>0, <1>7, Goes, Places DEF StartLogin
<1>8. ASSUME NEW r \in Requests, NEW right \in BOOLEAN, VerifyPassword(r, right)
      PROVE request' \in [Requests -> RequestPc]
  <2>1. [request[r] EXCEPT !.pc = IF right THEN "unlocking" ELSE "failing"] \in RequestPc
    BY <1>0, <1>8, Holding DEF VerifyPassword, At
  <2> QED BY <1>0, <1>8, <2>1, Goes DEF VerifyPassword
<1>9. ASSUME NEW r \in Requests, RecordFailedLogin(r) PROVE request' \in [Requests -> RequestPc]
  <2>1. [request[r] EXCEPT !.pc = "timing"] \in RequestPc
    BY <1>0, <1>9, Holding DEF RecordFailedLogin, At
  <2> QED BY <1>0, <1>9, <2>1, Goes DEF RecordFailedLogin
<1> QED BY <1>1, <1>2, <1>3, <1>4, <1>5, <1>6, <1>7, <1>8, <1>9, Moving

LEMMA TypeStep ==
  ASSUME IInv, Next
  PROVE  TypeOK'
<1>0. TypeOK /\ TokenInv /\ HandlerInv
  BY DEF IInv
<1>1. /\ owner' \in [Sessions -> Players \cup {NoPlayer}]
      /\ holder' \in [Tokens -> Players \cup {NoPlayer}]
      /\ family' \in [Tokens -> Sessions \cup {NoSession}]
      /\ spent' \in SUBSET Tokens
  <2>1. CASE UNCHANGED <<holder, family, spent, owner>>
    BY <1>0, <2>1 DEF TypeOK
  <2>2. ASSUME NEW p \in Players, NEW s \in Sessions, NEW t \in Tokens, IssueTokenPair(p, s, t), spent' = spent
        PROVE  <1>1
    BY <1>0, <2>2 DEF TypeOK, IssueTokenPair, Mint
  <2>3. ASSUME NEW p \in Players, NEW t \in Tokens, Mint(t, p, NoSession), UNCHANGED <<spent, owner>>
        PROVE  <1>1
    BY <1>0, <2>3 DEF TypeOK, Mint
  <2>4. ASSUME NEW r \in Requests, NEW t \in Tokens, RotateToken(r, t)
        PROVE  <1>1
    <3>1. request[r].token \in Tokens
      BY <1>0, <2>4, Holding DEF RotateToken, At
    <3> QED BY <1>0, <2>4, <3>1 DEF TypeOK, RotateToken, Mint
  <2> QED BY <2>1, <2>2, <2>3, <2>4, Minting
<1>2. revoked' \in SUBSET Sessions /\ outrun' \in [Sessions -> Nat]
  <2>1. ASSUME NEW r \in Requests, RevokeSession(r) PROVE revoked' \in SUBSET Sessions
    <3>1. family[request[r].token] \in Sessions
      BY <1>0, <2>1, Holding DEF RevokeSession, At, HandlerInv, TypeOK
    <3> QED BY <1>0, <2>1, <3>1 DEF RevokeSession, TypeOK
  <2>2. ASSUME NEW r \in Requests, NEW t \in Tokens, DetectReuse(r, t) PROVE revoked' \in SUBSET Sessions
    BY <1>0, <2>2 DEF DetectReuse, TokenInv, TypeOK
  <2>3. ASSUME NEW r \in Requests, NEW t \in Tokens, RotateToken(r, t) PROVE outrun' \in [Sessions -> Nat]
    <3>1. outrun \in [Sessions -> Nat]
      BY <1>0 DEF TypeOK
    <3>2. \A s \in Sessions : outrun[s] + 1 \in Nat /\ outrun[s] + 0 \in Nat
      BY <3>1
    <3>3. PICK f \in {0, 1} : \E s : outrun' = [outrun EXCEPT ![s] = @ + f]
      BY <2>3 DEF RotateToken
    <3> QED BY <3>1, <3>2, <3>3
  <2> QED BY <1>0, <2>1, <2>2, <2>3, Ending DEF TypeOK
<1>3. attempts' \in [Emails -> Nat]
  <2>0. attempts \in [Emails -> Nat]
    BY <1>0 DEF TypeOK
  <2>1. ASSUME NEW r \in Requests, RecordFailedLogin(r) PROVE attempts' \in [Emails -> Nat]
    <3>1. request[r].email \in Emails
      BY <1>0, <2>1, Holding DEF RecordFailedLogin, At
    <3>2. \A e \in Emails : attempts[e] + 1 \in Nat
      BY <2>0
    <3>3. PICK n : n = attempts[request[r].email] + 1 /\ attempts' = [attempts EXCEPT ![request[r].email] = n]
      BY <2>1 DEF RecordFailedLogin
    <3> QED BY <2>0, <3>1, <3>2, <3>3
  <2> QED BY <2>0, <2>1, Counting
<1>4. request' \in [Requests -> RequestPc]
  BY RequestType
<1>5. /\ listed' \in SUBSET Sessions /\ denied' \in SUBSET Tokens /\ lapsed' \in SUBSET Tokens
      /\ timed' \in SUBSET Emails
  <2>1. \/ listed' = listed \/ \E s \in Sessions : listed' = listed \cup {s}
        \/ \E s : listed' = listed \ {s}
    <3>1. ASSUME NEW r \in Requests, RequestStep(r) PROVE <2>1
      <4>1. CASE \E p \in Players, s \in Sessions, t \in Tokens : CompleteLogin(r, p, s, t)
        BY <4>1 DEF CompleteLogin, IssueTokenPair
      <4>2. CASE ~\E p \in Players, s \in Sessions, t \in Tokens : CompleteLogin(r, p, s, t)
        BY <3>1, <4>2
           DEF RequestStep, CheckRefresh, DetectReuse, RotateToken, Logout, LoseToken, RevokeSession,
               UnlistSession, StartLogin, SelectFails, VerifyPassword, RecordFailedLogin, SetLockoutTtl,
               RequestDies, sessionVars
      <4> QED BY <4>1, <4>2
    <3>2. ASSUME NEW p \in Players, PlayerStep(p) PROVE <2>1
      BY <3>2
         DEF PlayerStep, CreateRollsBack, CreateAnonymous, RegisterPlayer, RequestAccountDeletion,
             UpdateConsent, UpgradeAnonymous, SuspendPlayer, UnsuspendPlayer, CleanAnonymous, SetStatus,
             IssueTokenPair, sessionVars
    <3>3. (\E e \in Emails : LockoutExpires(e)) \/ (\E t \in Tokens : AccessExpires(t)) => listed' = listed
      BY DEF LockoutExpires, AccessExpires, sessionVars
    <3> QED BY <3>1, <3>2, <3>3 DEF Next
  <2>3. \/ denied' = denied \/ \E t \in Tokens : denied' = denied \cup {t}
        \/ \E t : denied' = denied \ {t}
    BY ZenonT(60) DEF Next, RequestStep, PlayerStep, CheckRefresh, RotateToken, DetectReuse, Logout, LoseToken,
           RevokeSession, UnlistSession, StartLogin, SelectFails, VerifyPassword, RecordFailedLogin,
           SetLockoutTtl, CompleteLogin, RequestDies, CreateRollsBack, CreateAnonymous, RegisterPlayer,
           RequestAccountDeletion, UpdateConsent, UpgradeAnonymous, SuspendPlayer, UnsuspendPlayer,
           CleanAnonymous, SetStatus, LockoutExpires, AccessExpires
  <2>4. lapsed' = lapsed \/ \E t \in Tokens : lapsed' = lapsed \cup {t}
    BY ZenonT(60) DEF Next, RequestStep, PlayerStep, CheckRefresh, RotateToken, DetectReuse, Logout, LoseToken,
           RevokeSession, UnlistSession, StartLogin, SelectFails, VerifyPassword, RecordFailedLogin,
           SetLockoutTtl, CompleteLogin, RequestDies, CreateRollsBack, CreateAnonymous, RegisterPlayer,
           RequestAccountDeletion, UpdateConsent, UpgradeAnonymous, SuspendPlayer, UnsuspendPlayer,
           CleanAnonymous, SetStatus, LockoutExpires, AccessExpires, tokenVars
  <2>5. \/ timed' = timed \/ \E e : timed' = timed \ {e}
        \/ \E r \in Requests : At(r, "timing") /\ timed' = timed \cup {request[r].email}
    BY ZenonT(60) DEF Next, RequestStep, PlayerStep, CheckRefresh, RotateToken, DetectReuse, Logout, LoseToken,
           RevokeSession, UnlistSession, StartLogin, SelectFails, VerifyPassword, RecordFailedLogin,
           SetLockoutTtl, CompleteLogin, RequestDies, CreateRollsBack, CreateAnonymous, RegisterPlayer,
           RequestAccountDeletion, UpdateConsent, UpgradeAnonymous, SuspendPlayer, UnsuspendPlayer,
           CleanAnonymous, SetStatus, LockoutExpires, AccessExpires, loginVars
  <2>2. \A r \in Requests : At(r, "timing") => request[r].email \in Emails
    BY <1>0, Holding DEF At
  <2> QED BY <1>0, <2>1, <2>2, <2>3, <2>4, <2>5 DEF TypeOK
<1>6. faults' \in 0 .. MaxFaults
  <2>1. faults' = faults \/ (faults > 0 /\ faults' = faults - 1)
    BY ZenonT(60) DEF Next, RequestStep, PlayerStep, CheckRefresh, RotateToken, DetectReuse, Logout, LoseToken,
           RevokeSession, UnlistSession, StartLogin, SelectFails, VerifyPassword, RecordFailedLogin,
           SetLockoutTtl, CompleteLogin, RequestDies, CreateRollsBack, CreateAnonymous, RegisterPlayer,
           RequestAccountDeletion, UpdateConsent, UpgradeAnonymous, SuspendPlayer, UnsuspendPlayer,
           CleanAnonymous, SetStatus, LockoutExpires, AccessExpires
  <2> QED BY <1>0, <2>1, AccountsAssumption DEF TypeOK
<1> QED BY <1>0, <1>1, <1>2, <1>3, <1>4, <1>5, <1>6, PlayerWrites DEF TypeOK

-----------------------------------------------------------------------------
(* Tokens                                                                   *)

\* A token that is minted keeps its session.
LEMMA MintingKeeps ==
  ASSUME TypeOK, NEW t \in Tokens, NEW p \in Players, NEW s, Mint(t, p, s)
  PROVE  /\ holder'[t] = p /\ family'[t] = s /\ holder[t] = NoPlayer
         /\ \A u \in Tokens : u # t => holder'[u] = holder[u] /\ family'[u] = family[u]
BY DEF TypeOK, Mint, Minted

\* A token given in exchange has the holder and the session of the one it replaces.
LEMMA Rotating ==
  ASSUME TypeOK, TokenInv, NEW r \in Requests, NEW t \in Tokens, HandlerInv, RotateToken(r, t)
  PROVE  \E old \in Tokens :
           /\ old = request[r].token /\ request[r].pc = "checked"
           /\ family[old] \in Sessions /\ old \notin spent /\ old # t
           /\ holder[t] = NoPlayer /\ holder'[t] = holder[old] /\ holder[old] \in Players
           /\ family'[t] = family[old] /\ spent' = spent \cup {old}
           /\ \A u \in Tokens : u # t => holder'[u] = holder[u] /\ family'[u] = family[u]
           /\ owner' = owner /\ revoked' = revoked
           /\ outrun' = [outrun EXCEPT ![family[old]] = @ + (IF family[old] \in revoked THEN 1 ELSE 0)]
           /\ request'[r] = Idle /\ \A q \in Requests : q # r => request'[q] = request[q]
<1>1. /\ request[r].token \in Tokens /\ request[r].pc = "checked"
      /\ family[request[r].token] # NoSession
  BY Holding DEF RotateToken, At, HandlerInv
<1>2. family[request[r].token] \in Sessions /\ holder[request[r].token] \in Players
  BY <1>1 DEF TypeOK, TokenInv, Minted
<1>3. holder[t] = NoPlayer /\ request[r].token # t
  BY <1>2, AccountsAssumption DEF RotateToken, Mint, Minted
<1>4. /\ \A u \in Tokens : u # t => holder'[u] = holder[u] /\ family'[u] = family[u]
      /\ holder'[t] = holder[request[r].token] /\ family'[t] = family[request[r].token]
  BY <1>2, MintingKeeps DEF RotateToken
<1>5. request'[r] = Idle /\ \A q \in Requests : q # r => request'[q] = request[q]
  BY Goes DEF RotateToken
<1> QED BY <1>1, <1>2, <1>3, <1>4, <1>5 DEF RotateToken, ClaimToken

\* Tokens of sessions, and one of each that works.
LEMMA TokensKeep ==
  ASSUME IInv, Next
  PROVE  TokenInv' /\ OneLiveRefresh'
<1>0. /\ TypeOK /\ TokenInv /\ HandlerInv /\ OneLiveRefresh
      /\ DOMAIN family = Tokens /\ NoPlayer \notin Players /\ NoSession \notin Sessions
  BY AccountsAssumption DEF IInv, TypeOK
<1>1. DOMAIN family' = Tokens
  BY <1>0, TypeStep DEF TypeOK
<1>2. CASE UNCHANGED <<holder, family, spent, owner>>
  BY <1>0, <1>2 DEF TokenInv, OneLiveRefresh, Minted
<1>3. ASSUME NEW p \in Players, NEW s \in Sessions, NEW t \in Tokens, IssueTokenPair(p, s, t), spent' = spent
      PROVE  TokenInv' /\ OneLiveRefresh'
  <2>1. /\ holder'[t] = p /\ family'[t] = s /\ holder[t] = NoPlayer
        /\ \A u \in Tokens : u # t => holder'[u] = holder[u] /\ family'[u] = family[u]
    BY <1>0, <1>3, MintingKeeps DEF IssueTokenPair
  <2>2. owner[s] = NoPlayer /\ owner'[s] = p /\ \A q \in Sessions : q # s => owner'[q] = owner[q]
    BY <1>0, <1>3 DEF IssueTokenPair, TypeOK
  <2>3. \A u \in Tokens : family[u] # s
    BY <1>0, <2>2 DEF TokenInv
  <2>4. t \notin spent /\ \A u \in Tokens : family[u] \in Sessions \cup {NoSession}
    BY <1>0, <2>1 DEF TokenInv, Minted, TypeOK
  <2>5. TokenInv'
    BY <1>0, <1>3, <2>1, <2>2, <2>3, <2>4 DEF TokenInv, Minted, TypeOK
  <2>6. OneLiveRefresh'
    BY <1>0, <1>1, <1>3, <2>1, <2>3 DEF OneLiveRefresh
  <2> QED BY <2>5, <2>6
<1>4. ASSUME NEW p \in Players, NEW t \in Tokens, Mint(t, p, NoSession), UNCHANGED <<spent, owner>>
      PROVE  TokenInv' /\ OneLiveRefresh'
  <2>1. /\ holder'[t] = p /\ family'[t] = NoSession /\ holder[t] = NoPlayer
        /\ \A u \in Tokens : u # t => holder'[u] = holder[u] /\ family'[u] = family[u]
    BY <1>0, <1>4, MintingKeeps
  <2>2. t \notin spent
    BY <1>0, <2>1 DEF TokenInv, Minted
  <2>3. TokenInv'
    BY <1>0, <1>4, <2>1, <2>2 DEF TokenInv, Minted, TypeOK
  <2>4. OneLiveRefresh'
    BY <1>0, <1>1, <1>4, <2>1 DEF OneLiveRefresh
  <2> QED BY <2>3, <2>4
<1>5. ASSUME NEW r \in Requests, NEW t \in Tokens, RotateToken(r, t)
      PROVE  TokenInv' /\ OneLiveRefresh'
  <2>1. PICK old \in Tokens :
           /\ family[old] \in Sessions /\ old \notin spent /\ old # t
           /\ holder[t] = NoPlayer /\ holder'[t] = holder[old] /\ holder[old] \in Players
           /\ family'[t] = family[old] /\ spent' = spent \cup {old}
           /\ \A u \in Tokens : u # t => holder'[u] = holder[u] /\ family'[u] = family[u]
           /\ owner' = owner
    BY <1>0, <1>5, Rotating
  <2>2. t \notin spent /\ family[old] # NoSession
    BY <1>0, <2>1 DEF TokenInv, Minted
  <2>3. TokenInv'
    BY <1>0, <2>1, <2>2 DEF TokenInv, Minted, TypeOK
  <2>4. \A u \in Tokens : u \notin spent /\ family[u] = family[old] => u = old
    BY <1>0, <2>1, <2>2 DEF OneLiveRefresh
  <2>5. OneLiveRefresh'
    BY <1>0, <1>1, <2>1, <2>4 DEF OneLiveRefresh
  <2> QED BY <2>3, <2>5
<1> QED BY <1>2, <1>3, <1>4, <1>5, Minting

\* Minting leaves the tokens of sessions where they are.
LEMMA FamilyStays ==
  ASSUME IInv, Next, NEW t \in Tokens, family[t] # NoSession
  PROVE  family'[t] = family[t]
<1>0. TypeOK /\ TokenInv /\ HandlerInv /\ Minted(t)
  BY DEF IInv, TokenInv
<1> QED BY <1>0, Minting, MintingKeeps, Rotating DEF IssueTokenPair, Minted

LEMMA HandlersKeep ==
  ASSUME IInv, Next
  PROVE  HandlerInv'
<1>0. TypeOK /\ TokenInv /\ HandlerInv
  BY DEF IInv
<1>1. ASSUME NEW r \in Requests, request[r].pc \in {"checked", "revoking"}
      PROVE  family'[request[r].token] # NoSession
  <2>1. request[r].token \in Tokens /\ family[request[r].token] # NoSession
    BY <1>0, <1>1, Holding DEF HandlerInv
  <2> QED BY <2>1, FamilyStays
<1>2. ASSUME NEW r \in Requests, NEW to, Goto(r, to),
             to.pc \in {"checked", "revoking"} => to.token \in Tokens /\ family[to.token] # NoSession
      PROVE  HandlerInv'
  <2>1. request'[r] = to /\ \A q \in Requests : q # r => request'[q] = request[q]
    BY <1>0, <1>2, Goes
  <2> QED BY <1>1, <1>2, <2>1, FamilyStays DEF HandlerInv
<1>3. CASE request' = request
  BY <1>1, <1>3 DEF HandlerInv
<1>4. ASSUME NEW r \in Requests, Goto(r, Idle) PROVE HandlerInv'
  BY <1>2, <1>4 DEF Idle
<1>5. ASSUME NEW r \in Requests, NEW t \in Tokens, CheckRefresh(r, t) PROVE HandlerInv'
  BY <1>2, <1>5 DEF CheckRefresh
<1>6. ASSUME NEW r \in Requests, NEW t \in Tokens, DetectReuse(r, t) PROVE HandlerInv'
  BY <1>2, <1>6 DEF DetectReuse
<1>7. ASSUME NEW r \in Requests, NEW t \in Tokens, family[t] # NoSession, Goto(r, [pc |-> "revoking", token |-> t])
      PROVE HandlerInv'
  BY <1>2, <1>7
<1>8. ASSUME NEW r \in Requests, RevokeSession(r) PROVE HandlerInv'
  BY <1>2, <1>8 DEF RevokeSession
<1>9. ASSUME NEW r \in Requests, NEW e \in Emails, StartLogin(r, e) PROVE HandlerInv'
  BY <1>2, <1>9 DEF StartLogin
<1>10. ASSUME NEW r \in Requests, NEW pc \in {"unlocking", "failing", "timing"},
              request[r].pc \in {"selecting", "failing"}, Goto(r, [request[r] EXCEPT !.pc = pc])
       PROVE  HandlerInv'
  <2>1. [request[r] EXCEPT !.pc = pc].pc = pc
    BY <1>0, <1>10, Holding
  <2> QED BY <1>2, <1>10, <2>1
<1>11. ASSUME NEW r \in Requests, NEW right \in BOOLEAN, VerifyPassword(r, right) PROVE HandlerInv'
  BY <1>10, <1>11 DEF VerifyPassword, At
<1>12. ASSUME NEW r \in Requests, RecordFailedLogin(r) PROVE HandlerInv'
  BY <1>10, <1>12 DEF RecordFailedLogin, At
<1> QED BY <1>3, <1>4, <1>5, <1>6, <1>7, <1>8, <1>9, <1>11, <1>12, Moving

-----------------------------------------------------------------------------
(* Revocation                                                               *)

\* A handler holds a token as working only when it has just looked.
LEMMA NewlyChecked ==
  ASSUME IInv, Next, NEW r \in Requests, request'[r].pc = "checked"
  PROVE  \/ request[r].pc = "checked" /\ request'[r].token = request[r].token
         \/ \E t \in Tokens : CheckRefresh(r, t) /\ request'[r].token = t
<1>0. TypeOK
  BY DEF IInv
<1>1. CASE request' = request
  BY <1>1
<1>2. ASSUME NEW q \in Requests, NEW to, Goto(q, to), q = r => to.pc # "checked"
      PROVE  request'[r] = request[r]
  BY <1>0, <1>2, Goes
<1>3. ASSUME NEW q \in Requests, NEW t \in Tokens, CheckRefresh(q, t)
      PROVE  request'[r] = request[r] \/ (CheckRefresh(r, t) /\ request'[r].token = t)
  BY <1>0, <1>3, Goes DEF CheckRefresh
<1>4. ASSUME NEW q \in Requests, NEW pc \in {"unlocking", "failing", "timing"},
             request[q].pc \in {"selecting", "failing"}, Goto(q, [request[q] EXCEPT !.pc = pc])
      PROVE  request'[r] = request[r]
  <2>1. [request[q] EXCEPT !.pc = pc].pc = pc
    BY <1>0, <1>4, Holding
  <2> QED BY <1>2, <1>4, <2>1
<1>5. ASSUME NEW q \in Requests,
             \/ Goto(q, Idle)
             \/ \E t \in Tokens : DetectReuse(q, t)
             \/ \E t \in Tokens : family[t] # NoSession /\ Goto(q, [pc |-> "revoking", token |-> t])
             \/ RevokeSession(q)
             \/ \E e \in Emails : StartLogin(q, e)
      PROVE  request'[r] = request[r]
  BY <1>2, <1>5 DEF Idle, DetectReuse, RevokeSession, StartLogin
<1>6. ASSUME NEW q \in Requests, (\E right \in BOOLEAN : VerifyPassword(q, right)) \/ RecordFailedLogin(q)
      PROVE  request'[r] = request[r]
  BY <1>4, <1>6 DEF VerifyPassword, RecordFailedLogin, At
<1> QED BY <1>1, <1>3, <1>5, <1>6, Moving

LEMMA OutrunKeeps ==
  ASSUME IInv, Next
  PROVE  OutrunInv'
<1>0. TypeOK /\ TokenInv /\ HandlerInv /\ OneLiveRefresh /\ OutrunInv /\ DOMAIN family = Tokens
  BY DEF IInv, TypeOK
\* What a handler went on with is still of its session.
<1>1. ASSUME NEW r \in Requests, request[r].pc = "checked"
      PROVE  request[r].token \in Tokens /\ family'[request[r].token] = family[request[r].token]
             /\ family[request[r].token] # NoSession
  <2>1. request[r].token \in Tokens /\ family[request[r].token] # NoSession
    BY <1>0, <1>1, Holding DEF HandlerInv
  <2> QED BY <2>1, FamilyStays
<1>2. revoked \subseteq revoked'
  BY Ending DEF RevokeSession, DetectReuse
<1>3. ASSUME NEW r \in Requests, NEW t \in Tokens, RotateToken(r, t)
      PROVE  OutrunInv'
  <2>1. PICK old \in Tokens :
           /\ old = request[r].token /\ request[r].pc = "checked"
           /\ family[old] \in Sessions /\ old \notin spent
           /\ spent' = spent \cup {old} /\ revoked' = revoked
           /\ outrun' = [outrun EXCEPT ![family[old]] = @ + (IF family[old] \in revoked THEN 1 ELSE 0)]
           /\ request'[r] = Idle /\ \A q \in Requests : q # r => request'[q] = request[q]
    BY <1>0, <1>3, Rotating
  <2>2. family[old] \in revoked => outrun[family[old]] = 0
    BY <1>0, <2>1 DEF OutrunInv
  <2>3. outrun'[family[old]] = outrun[family[old]] + (IF family[old] \in revoked THEN 1 ELSE 0)
        /\ \A s \in Sessions : s # family[old] => outrun'[s] = outrun[s]
    BY <1>0, <2>1 DEF TypeOK
  <2>4. ASSUME NEW s \in Sessions
        PROVE  outrun'[s] = 0 \/ (outrun'[s] = 1 /\ s \in revoked')
    BY <1>0, <2>1, <2>2, <2>3 DEF OutrunInv
  <2>5. ASSUME NEW s \in Sessions, outrun'[s] = 1, NEW q \in Requests,
               request'[q].pc = "checked", family'[request'[q].token] = s
        PROVE  request'[q].token \in spent'
    <3>1. q # r /\ request'[q] = request[q]
      BY <2>1, <2>5 DEF Idle
    <3>2. family[request[q].token] = s /\ request[q].token \in Tokens
      BY <1>1, <2>5, <3>1
    <3>3. CASE s = family[old]
      <4>1. request[q].token \notin spent => request[q].token = old
        BY <1>0, <2>1, <3>2, <3>3, AccountsAssumption DEF OneLiveRefresh
      <4> QED BY <2>1, <3>1, <4>1
    <3>4. CASE s # family[old]
      BY <1>0, <2>1, <2>3, <2>5, <3>1, <3>2, <3>4 DEF OutrunInv
    <3> QED BY <3>3, <3>4
  <2> QED BY <2>4, <2>5 DEF OutrunInv
<1>4. CASE ~\E r \in Requests, t \in Tokens : RotateToken(r, t)
  <2>1. outrun' = outrun
    BY <1>4, Ending
  <2>2. spent' = spent
    BY <1>4, Minting
  <2>3. ASSUME NEW s \in Sessions, outrun'[s] = 1, NEW r \in Requests,
               request'[r].pc = "checked", family'[request'[r].token] = s
        PROVE  request'[r].token \in spent'
    <3>1. CASE request[r].pc = "checked" /\ request'[r].token = request[r].token
      BY <1>0, <1>1, <2>1, <2>2, <2>3, <3>1 DEF OutrunInv
    <3>2. ASSUME NEW t \in Tokens, CheckRefresh(r, t), request'[r].token = t
          PROVE  FALSE
      <4>1. family[t] \notin revoked /\ family'[t] = family[t]
        BY <3>2, FamilyStays DEF CheckRefresh
      <4> QED BY <1>0, <2>1, <2>3, <3>2, <4>1 DEF OutrunInv
    <3> QED BY <2>3, <3>1, <3>2, NewlyChecked
  <2> QED BY <1>0, <1>2, <2>1, <2>3 DEF OutrunInv
<1> QED BY <1>3, <1>4

-----------------------------------------------------------------------------
(* Guesses                                                                  *)

LEMMA GuessersAreFinite ==
  ASSUME NEW e
  PROVE  /\ IsFiniteSet(Guessing(e)) /\ Cardinality(Guessing(e)) \in Nat
         /\ IsFiniteSet(Guessing(e)') /\ Cardinality(Guessing(e)') \in Nat
         /\ Cardinality(Requests) \in Nat /\ Cardinality(Guessing(e)') <= Cardinality(Requests)
<1>1. Guessing(e) \in SUBSET Requests /\ Guessing(e)' \in SUBSET Requests
  BY DEF Guessing
<1> QED BY <1>1, FS_Subset, FS_CardinalityType, AccountsAssumption

LEMMA GuessesKeep ==
  ASSUME IInv, Next
  PROVE  GuessInv'
<1>0. TypeOK /\ GuessInv /\ attempts \in [Emails -> Nat]
  BY DEF IInv, TypeOK
<1>1. SUFFICES ASSUME NEW e \in Emails
               PROVE  attempts'[e] + Cardinality(Guessing(e)') < MaxAttempts + Cardinality(Requests)
  BY DEF GuessInv
<1>2. /\ attempts[e] \in Nat
      /\ attempts[e] + Cardinality(Guessing(e)) < MaxAttempts + Cardinality(Requests)
  BY <1>0 DEF GuessInv
<1>f. ASSUME attempts'[e] \in Nat, attempts'[e] <= attempts[e], Guessing(e)' \in SUBSET Guessing(e)
      PROVE  attempts'[e] + Cardinality(Guessing(e)') < MaxAttempts + Cardinality(Requests)
  <2>1. Cardinality(Guessing(e)') <= Cardinality(Guessing(e))
    BY <1>f, GuessersAreFinite, FS_Subset
  <2> QED BY <1>2, <1>f, <2>1, GuessersAreFinite, AccountsAssumption
\* A handler that does not begin to guess.
<1>g. ASSUME NEW r \in Requests, NEW to, Goto(r, to),
             to.pc \in {"selecting", "failing"} /\ to.email = e => r \in Guessing(e)
      PROVE  Guessing(e)' \in SUBSET Guessing(e)
  <2>1. request'[r] = to /\ \A q \in Requests : q # r => request'[q] = request[q]
    BY <1>0, <1>g, Goes
  <2> QED BY <1>g, <2>1 DEF Guessing
<1>3. ASSUME NEW r \in Requests, NEW d \in Emails, StartLogin(r, d)
      PROVE  attempts'[e] + Cardinality(Guessing(e)') < MaxAttempts + Cardinality(Requests)
  <2>1. attempts' = attempts /\ attempts[d] < MaxAttempts
    BY <1>3 DEF StartLogin, loginVars
  <2>2. CASE d = e
    BY <1>2, <2>1, <2>2, GuessersAreFinite, AccountsAssumption
  <2>3. CASE d # e
    <3>1. Guessing(e)' \in SUBSET Guessing(e)
      BY <1>3, <1>g, <2>3 DEF StartLogin
    <3> QED BY <1>2, <1>f, <2>1, <3>1
  <2> QED BY <2>2, <2>3
<1>4. ASSUME NEW r \in Requests, RecordFailedLogin(r)
      PROVE  attempts'[e] + Cardinality(Guessing(e)') < MaxAttempts + Cardinality(Requests)
  <2>1. /\ request[r].pc = "failing" /\ request[r].email \in Emails
        /\ Goto(r, [request[r] EXCEPT !.pc = "timing"])
        /\ attempts' = [attempts EXCEPT ![request[r].email] = @ + 1]
    BY <1>0, <1>4, Holding DEF RecordFailedLogin, At
  <2>2. [request[r] EXCEPT !.pc = "timing"].pc = "timing"
    BY <1>0, <2>1, Holding
  <2>3. Guessing(e)' \in SUBSET Guessing(e)
    BY <1>g, <2>1, <2>2
  <2>4. CASE request[r].email # e
    <3>1. attempts'[e] = attempts[e]
      BY <1>0, <2>1, <2>4
    <3> QED BY <1>2, <1>f, <2>3, <3>1
  <2>5. CASE request[r].email = e
    <3>1. r \in Guessing(e) /\ r \notin Guessing(e)'
      <4>1. request'[r].pc = "timing"
        BY <1>0, <2>1, <2>2, Goes
      <4> QED BY <2>1, <2>5, <4>1 DEF Guessing
    <3>2. Guessing(e)' \in SUBSET (Guessing(e) \ {r})
      BY <2>3, <3>1
    <3>3. Cardinality(Guessing(e)') <= Cardinality(Guessing(e)) - 1
      <4>1. /\ IsFiniteSet(Guessing(e) \ {r})
            /\ Cardinality(Guessing(e) \ {r}) = Cardinality(Guessing(e)) - 1
        BY <3>1, GuessersAreFinite, FS_RemoveElement
      <4> QED BY <3>2, <4>1, FS_Subset
    <3>4. attempts'[e] = attempts[e] + 1
      BY <1>0, <2>1, <2>5
    <3> QED BY <1>2, <3>3, <3>4, GuessersAreFinite, AccountsAssumption
  <2> QED BY <2>4, <2>5
<1>5. CASE ~(\E r \in Requests : RecordFailedLogin(r)) /\ ~(\E r \in Requests, d \in Emails : StartLogin(r, d))
  <2>1. attempts'[e] \in {attempts[e], 0}
    BY <1>0, <1>5, Counting
  <2>2. Guessing(e)' \in SUBSET Guessing(e)
    <3>1. CASE request' = request
      BY <3>1 DEF Guessing
    <3>2. ASSUME NEW r \in Requests,
                 \/ Goto(r, Idle)
                 \/ \E t \in Tokens : CheckRefresh(r, t) \/ DetectReuse(r, t)
                 \/ \E t \in Tokens : family[t] # NoSession /\ Goto(r, [pc |-> "revoking", token |-> t])
                 \/ RevokeSession(r)
          PROVE  Guessing(e)' \in SUBSET Guessing(e)
      <4>1. ASSUME NEW to, Goto(r, to), to.pc \notin {"selecting", "failing"}
            PROVE  Guessing(e)' \in SUBSET Guessing(e)
        BY <1>g, <4>1
      <4> QED BY <3>2, <4>1 DEF Idle, CheckRefresh, DetectReuse, RevokeSession
    <3>3. ASSUME NEW r \in Requests, NEW right \in BOOLEAN, VerifyPassword(r, right)
          PROVE  Guessing(e)' \in SUBSET Guessing(e)
      <4>1. PICK pc \in {"unlocking", "failing"} :
              request[r].pc = "selecting" /\ Goto(r, [request[r] EXCEPT !.pc = pc])
        BY <3>3 DEF VerifyPassword, At
      <4>2. [request[r] EXCEPT !.pc = pc].email = request[r].email
        BY <1>0, <4>1, Holding
      <4> QED BY <1>g, <4>1, <4>2 DEF Guessing
    <3> QED BY <1>5, <3>1, <3>2, <3>3, Moving
  <2> QED BY <1>2, <1>f, <2>1, <2>2
<1> QED BY <1>3, <1>4, <1>5

-----------------------------------------------------------------------------
(* The theorems                                                             *)

LEMMA InitIInv == Init => IInv
<1>1. SUFFICES ASSUME Init PROVE IInv
  OBVIOUS
<1>2. TypeOK
  BY <1>1, Places, AccountsAssumption DEF Init, TypeOK, Statuses
<1>3. TokenInv /\ OneLiveRefresh
  BY <1>1 DEF Init, TokenInv, OneLiveRefresh
<1>4. HandlerInv /\ OutrunInv
  BY <1>1 DEF Init, HandlerInv, OutrunInv, Idle
<1>5. ASSUME NEW e \in Emails
      PROVE  attempts[e] + Cardinality(Guessing(e)) < MaxAttempts + Cardinality(Requests)
  <2>1. Guessing(e) = {} /\ attempts[e] = 0
    BY <1>1 DEF Init, Guessing, Idle
  <2> QED BY <2>1, FS_EmptySet, GuessersAreFinite, AccountsAssumption
<1> QED BY <1>2, <1>3, <1>4, <1>5 DEF IInv, GuessInv

\* The invariant: what tokens, handlers, sessions and counters know of each other.
THEOREM SpecIInv == Spec => []IInv
<1>1. IInv /\ [Next]_vars => IInv'
  <2>1. CASE UNCHANGED vars
    BY <2>1 DEF vars, playerVars, sessionVars, tokenVars, loginVars, IInv, TypeOK, TokenInv, HandlerInv,
                OneLiveRefresh, OutrunInv, GuessInv, Guessing, Minted
  <2>2. CASE Next
    BY <2>2, TypeStep, TokensKeep, HandlersKeep, OutrunKeeps, GuessesKeep DEF IInv
  <2> QED BY <2>1, <2>2
<1> QED BY <1>1, InitIInv, PTL DEF Spec

\* Every variable has its type.
THEOREM SpecTypeOK == Spec => []TypeOK
BY SpecIInv, PTL DEF IInv

\* A copied refresh token and its original do not both go on.
THEOREM SpecOneLiveRefresh == Spec => []OneLiveRefresh
BY SpecIInv, PTL DEF IInv

\* A revoked session mints one more pair at most.
THEOREM SpecRevocationIsOutrunOnce == Spec => []RevocationIsOutrunOnce
<1>1. IInv => RevocationIsOutrunOnce
  BY DEF IInv, OutrunInv, RevocationIsOutrunOnce
<1> QED BY <1>1, SpecIInv, PTL

\* A lockout lets through no more guesses than the limit and the handlers at work.
THEOREM SpecGuessesAreBounded == Spec => []GuessesAreBounded
<1>1. IInv => GuessesAreBounded
  <2>1. SUFFICES ASSUME IInv, NEW e \in Emails PROVE attempts[e] < MaxAttempts + Cardinality(Requests)
    BY DEF GuessesAreBounded, IInv, TypeOK
  <2>2. attempts[e] \in Nat /\ attempts[e] + Cardinality(Guessing(e)) < MaxAttempts + Cardinality(Requests)
    BY <2>1 DEF IInv, TypeOK, GuessInv
  <2> QED BY <2>2, GuessersAreFinite, AccountsAssumption
<1> QED BY <1>1, SpecIInv, PTL

-----------------------------------------------------------------------------
(* What a player leaves behind                                              *)

GameState == {"none", "live", "over", "expired", "purged"}
TaskState == {"no", "creating", "admitted", "running"}

\* The rows and what runs for them.
RowsInv ==
  /\ game \in [Games -> GameState] /\ task \in [Games -> TaskState]
  /\ \A g \in Games : task[g] = "creating" => game[g] = "none"
  /\ \A g \in removed : g \in Games /\ game[g] # "none"

\* Since the account was scrubbed nothing new was admitted, and the words of turns are
\* there only for games whose work was under way.
ClosedInv ==
  account = "pending_deletion" =>
    \A g \in Games :
      task[g] # "no" \/ g \in summarizing \/ Erasure!Holds(g, "turns") => g \in overtaken

\* What the purge has picked is out of play, unless its player took it up again.
PickedInv ==
  \A g \in picked :
    /\ g \in Games /\ game[g] # "none"
    /\ game[g] = "live" => g \in removed \cup reopened

ErasureInv == RowsInv /\ ClosedInv /\ PickedInv

LEMMA ErasureInvInit == Erasure!Init => ErasureInv
BY DEF Erasure!Init, ErasureInv, RowsInv, ClosedInv, PickedInv, GameState, TaskState

-----------------------------------------------------------------------------

LEMMA RowsStep ==
  ASSUME RowsInv, PickedInv, [Erasure!Next]_(Erasure!vars)
  PROVE  RowsInv'
<1>0. /\ game \in [Games -> GameState] /\ task \in [Games -> TaskState]
      /\ \A g \in Games : task[g] = "creating" => game[g] = "none"
      /\ \A g \in removed : g \in Games /\ game[g] # "none"
      /\ \A g \in picked : g \in Games /\ game[g] # "none"
  BY DEF RowsInv, PickedInv
<1>k. ASSUME game' = game, task' = task, removed' = removed
      PROVE  RowsInv'
  BY <1>k DEF RowsInv
<1>1. ASSUME NEW g \in Games, Erasure!GameNext(g)
      PROVE  RowsInv'
  <2>1. CASE Erasure!AdmitGame(g)
    BY <1>0, <2>1 DEF Erasure!AdmitGame, RowsInv, Erasure!gameVars, TaskState
  <2>2. CASE Erasure!CreateGame(g)
    BY <1>0, <2>2 DEF Erasure!CreateGame, RowsInv, GameState, TaskState
  <2>3. CASE Erasure!AdmitTurn(g) \/ Erasure!AcceptTurn(g) \/ Erasure!RejectTurn(g)
             \/ Erasure!FinishTurn(g)
    <3>1. /\ game' = game /\ removed' = removed
          /\ \E s \in TaskState \ {"creating"} : task' = [task EXCEPT ![g] = s]
      BY <2>3 DEF Erasure!AdmitTurn, Erasure!AcceptTurn, Erasure!RejectTurn,
                  Erasure!FinishTurn, Erasure!gameVars, TaskState
    <3> QED BY <1>0, <3>1 DEF RowsInv
  <2>4. CASE Erasure!ResumeGame(g) \/ Erasure!ExpireGame(g) \/ Erasure!TerminateGame(g)
    <3>1. /\ task' = task /\ removed' = removed /\ game[g] # "none"
          /\ \E s \in GameState \ {"none"} : game' = [game EXCEPT ![g] = s]
      BY <2>4 DEF Erasure!ResumeGame, Erasure!ExpireGame, Erasure!TerminateGame,
                  Erasure!gameVars, Erasure!taskVars, GameState
    <3> QED BY <1>0, <3>1 DEF RowsInv
  <2>5. ASSUME NEW ok \in BOOLEAN, Erasure!EndGame(g, ok)
        PROVE  RowsInv'
    BY <1>0, <2>5 DEF Erasure!EndGame, Erasure!Owned, RowsInv, Erasure!taskVars, GameState
  <2>6. CASE Erasure!SaveSummary(g) \/ Erasure!RestoreSnapshot(g) \/ Erasure!Grow(g)
    BY <1>k, <2>6 DEF Erasure!SaveSummary, Erasure!RestoreSnapshot, Erasure!Grow,
                      Erasure!gameVars, Erasure!taskVars
  <2>7. ASSUME NEW ok \in BOOLEAN, Erasure!CleanStore(g, ok)
                                   \/ Erasure!EvictGameState(g, ok)
                                   \/ Erasure!AuditCacheConsistency(g, ok)
        PROVE  RowsInv'
    BY <1>k, <2>7 DEF Erasure!CleanStore, Erasure!EvictGameState,
                      Erasure!AuditCacheConsistency, Erasure!gameVars, Erasure!taskVars
  <2>8. ASSUME NEW s \in Erasure!Stores, Erasure!CacheExpires(g, s)
        PROVE  RowsInv'
    BY <1>k, <2>8 DEF Erasure!CacheExpires, Erasure!gameVars, Erasure!taskVars
  <2> QED
    BY <1>1, <2>1, <2>2, <2>3, <2>4, <2>5, <2>6, <2>7, <2>8 DEF Erasure!GameNext
<1>2. CASE Erasure!ScrubAccount \/ Erasure!GdprDeletePlayer \/ Erasure!PurgeDelete
  <2>1. /\ task' = task /\ removed' = removed /\ game' \in [Games -> GameState]
        /\ \A g \in Games : game'[g] = "none" <=> game[g] = "none"
    BY <1>0, <1>2 DEF Erasure!ScrubAccount, Erasure!GdprDeletePlayer, Erasure!PurgeDelete,
                      Erasure!taskVars, GameState
  <2> QED BY <1>0, <2>1 DEF RowsInv
<1>3. CASE Erasure!NextStore \/ Erasure!Suspend \/ Erasure!Unsuspend \/ Erasure!PurgeSelect
  BY <1>k, <1>3 DEF Erasure!NextStore, Erasure!Suspend, Erasure!Unsuspend,
                    Erasure!PurgeSelect, Erasure!gameVars, Erasure!taskVars
<1>4. CASE UNCHANGED Erasure!vars
  BY <1>k, <1>4 DEF Erasure!vars, Erasure!gameVars, Erasure!taskVars
<1> QED
  BY <1>1, <1>2, <1>3, <1>4 DEF Erasure!Next

\* While the account is closed: what appears in the turns, the session and the graph,
\* and what work begins.
LEMMA ClosedStep ==
  ASSUME RowsInv, ClosedInv, [Erasure!Next]_(Erasure!vars)
  PROVE  /\ ClosedInv'
         /\ account = "pending_deletion" =>
              \A g \in Games, s \in {"turns", "session", "graph"} :
                (<<g, s>> \in kept' /\ ~Erasure!Holds(g, s)) => g \in overtaken
<1> DEFINE Work(g) == task[g] # "no" \/ g \in summarizing \/ Erasure!Holds(g, "turns")
           Words == {"turns", "session", "graph"}
           Returns == account = "pending_deletion" =>
                        \A g \in Games, s \in Words :
                          (<<g, s>> \in kept' /\ ~Erasure!Holds(g, s)) => g \in overtaken
<1>0. task \in [Games -> TaskState]
  BY DEF RowsInv
<1>1. account = "pending_deletion" => \A g \in Games : Work(g) => g \in overtaken
  BY DEF ClosedInv
\* A step that writes words and goes on with work only where some was under way.
<1>k. ASSUME overtaken' = overtaken,
             account' = "pending_deletion" => account = "pending_deletion",
             account = "pending_deletion" =>
               \A h \in Games : /\ Work(h)' => Work(h)
                                /\ \A s \in Words : <<h, s>> \in kept' => Erasure!Holds(h, s) \/ Work(h)
      PROVE  ClosedInv' /\ Returns
  BY <1>1, <1>k DEF ClosedInv
<1>2. ASSUME NEW g \in Games, Erasure!GameNext(g)
      PROVE  ClosedInv' /\ Returns
  <2>1. CASE Erasure!AdmitGame(g) \/ Erasure!AdmitTurn(g)
    <3>1. account = "active" /\ account' = account
      BY <2>1 DEF Erasure!AdmitGame, Erasure!AdmitTurn, Erasure!MayPlay
    <3> QED BY <3>1 DEF ClosedInv
  <2>2. CASE Erasure!CreateGame(g) \/ Erasure!AcceptTurn(g) \/ Erasure!RejectTurn(g)
             \/ Erasure!FinishTurn(g)
    <3>1. /\ task[g] # "no" /\ summarizing' = summarizing /\ overtaken' = overtaken
          /\ account' = account
          /\ \A h \in Games \ {g} : task'[h] = task[h]
      BY <1>0, <2>2
      DEF Erasure!CreateGame, Erasure!AcceptTurn, Erasure!RejectTurn, Erasure!FinishTurn,
          Erasure!historyVars
    <3>2. kept' \subseteq kept \cup ({g} \X (Erasure!Stores \cup Words))
      BY <2>2 DEF Erasure!CreateGame, Erasure!AcceptTurn, Erasure!RejectTurn,
                  Erasure!FinishTurn, Erasure!Stored, Erasure!SaveSnapshot,
                  Erasure!Stores, Erasure!Tables
    <3>3. \A h \in Games, s \in Words : <<h, s>> \in kept' => Erasure!Holds(h, s) \/ h = g
      BY <3>2 DEF Erasure!Holds
    <3>4. \A h \in Games : /\ Work(h)' => Work(h)
                           /\ \A s \in Words : <<h, s>> \in kept' => Erasure!Holds(h, s) \/ Work(h)
      BY <3>1, <3>3 DEF Erasure!Holds
    <3> QED BY <1>k, <3>1, <3>4
  <2>3. CASE Erasure!ResumeGame(g)
    <3>1. /\ task' = task /\ kept' = kept /\ overtaken' = overtaken /\ account' = account
          /\ summarizing' = IF Erasure!Holds(g, "turns") THEN summarizing \cup {g} ELSE summarizing
      BY <2>3 DEF Erasure!ResumeGame
    <3> QED BY <1>k, <3>1 DEF Erasure!Holds
  <2>4. CASE Erasure!SaveSummary(g)
    <3>1. /\ task' = task /\ overtaken' = overtaken /\ account' = account
          /\ g \in summarizing /\ summarizing' \subseteq summarizing
          /\ kept' \subseteq kept \cup {<<g, "session">>}
      BY <2>4 DEF Erasure!SaveSummary, Erasure!historyVars
    <3> QED BY <1>k, <3>1 DEF Erasure!Holds
  <2>5. CASE Erasure!RestoreSnapshot(g)
    <3>1. /\ task' = task /\ summarizing' = summarizing /\ overtaken' = overtaken
          /\ account' = account /\ kept' = kept \cup {<<g, "cache">>}
      BY <2>5 DEF Erasure!RestoreSnapshot, Erasure!taskVars, Erasure!historyVars
    <3> QED BY <1>k, <3>1 DEF Erasure!Holds
  \* The others remove.
  <2>r. ASSUME task' = task, summarizing' = summarizing, overtaken' = overtaken,
               account' = account, kept' \subseteq kept
        PROVE  ClosedInv' /\ Returns
    BY <1>k, <2>r DEF Erasure!Holds
  <2>6. CASE Erasure!ExpireGame(g) \/ Erasure!Grow(g) \/ Erasure!TerminateGame(g)
    BY <2>6, <2>r DEF Erasure!ExpireGame, Erasure!Grow, Erasure!TerminateGame,
                      Erasure!taskVars, Erasure!historyVars
  <2>7. ASSUME NEW ok \in BOOLEAN,
               Erasure!EndGame(g, ok) \/ Erasure!CleanStore(g, ok)
               \/ Erasure!EvictGameState(g, ok) \/ Erasure!AuditCacheConsistency(g, ok)
        PROVE  ClosedInv' /\ Returns
    BY <2>7, <2>r
    DEF Erasure!EndGame, Erasure!CleanStore, Erasure!EvictGameState,
        Erasure!AuditCacheConsistency, Erasure!taskVars, Erasure!historyVars
  <2>8. ASSUME NEW s \in Erasure!Stores, Erasure!CacheExpires(g, s)
        PROVE  ClosedInv' /\ Returns
    BY <2>8, <2>r DEF Erasure!CacheExpires, Erasure!taskVars, Erasure!historyVars
  <2> QED
    BY <1>2, <2>1, <2>2, <2>3, <2>4, <2>5, <2>6, <2>7, <2>8 DEF Erasure!GameNext
<1>3. CASE Erasure!ScrubAccount
  <2>1. /\ overtaken' = {g \in Games : task[g] # "no" \/ g \in summarizing}
        /\ task' = task /\ summarizing' = summarizing
        /\ kept' = kept \ Erasure!Stored(Games, {"turns", "session"})
    BY <1>3 DEF Erasure!ScrubAccount, Erasure!taskVars
  <2>2. \A g \in Games : ~Erasure!Holds(g, "turns")'
    BY <2>1 DEF Erasure!Stored, Erasure!Holds
  <2> QED BY <2>1, <2>2 DEF ClosedInv, Erasure!Holds
<1>4. CASE Erasure!NextStore \/ Erasure!GdprDeletePlayer \/ Erasure!Suspend
           \/ Erasure!Unsuspend \/ Erasure!PurgeSelect \/ Erasure!PurgeDelete
  <2>1. /\ task' = task /\ summarizing' = summarizing /\ overtaken' = overtaken
        /\ kept' \subseteq kept
        /\ account' = "pending_deletion" => account = "pending_deletion"
    BY <1>4
    DEF Erasure!NextStore, Erasure!GdprDeletePlayer, Erasure!Suspend, Erasure!Unsuspend,
        Erasure!PurgeSelect, Erasure!PurgeDelete, Erasure!taskVars,
        Erasure!historyVars
  <2> QED BY <1>k, <2>1 DEF Erasure!Holds
<1>5. CASE UNCHANGED Erasure!vars
  BY <1>k, <1>5 DEF Erasure!vars, Erasure!taskVars, Erasure!historyVars, Erasure!Holds
<1> QED
  BY <1>2, <1>3, <1>4, <1>5 DEF Erasure!Next

\* A game in play leaves its table only by a purge that picked it.
LEMMA PickedStep ==
  ASSUME RowsInv, PickedInv, [Erasure!Next]_(Erasure!vars)
  PROVE  /\ PickedInv'
         /\ \A g \in Games :
              (picked' = {} /\ game[g] = "live" /\ g \notin removed /\ game'[g] = "purged"
               /\ account' # "erased") => g \in reopened
<1> DEFINE Reopened ==
             \A g \in Games :
               (picked' = {} /\ game[g] = "live" /\ g \notin removed /\ game'[g] = "purged"
                /\ account' # "erased") => g \in reopened
           Goal == PickedInv' /\ Reopened
           Quiet == \A g \in Games :
                      /\ g \in picked => game'[g] # "none" /\ (game'[g] = "live" => game[g] = "live")
                      /\ game[g] = "live" => game'[g] # "purged" \/ account' = "erased"
<1>0. /\ game \in [Games -> GameState] /\ task \in [Games -> TaskState]
      /\ \A g \in Games : task[g] = "creating" => game[g] = "none"
      /\ \A g \in removed : g \in Games /\ game[g] # "none"
      /\ \A g \in picked :
           /\ g \in Games /\ game[g] # "none"
           /\ game[g] = "live" => g \in removed \cup reopened
  BY DEF RowsInv, PickedInv
\* A step that keeps what is picked and brings none of it into play.
<1>k. ASSUME picked' = picked, reopened' = reopened, removed \subseteq removed', Quiet
      PROVE  Goal
  BY <1>0, <1>k DEF PickedInv
<1>1. ASSUME NEW g \in Games, Erasure!GameNext(g)
      PROVE  Goal
  <2>1. CASE Erasure!CreateGame(g)
    <3>0. game[g] = "none"
      BY <1>0, <2>1 DEF Erasure!CreateGame
    <3>1. /\ g \notin picked /\ game' = [game EXCEPT ![g] = "live"] /\ game[g] = "none"
          /\ picked' = picked /\ reopened' = reopened /\ removed' = removed
      BY <1>0, <2>1, <3>0 DEF Erasure!CreateGame, Erasure!historyVars
    <3>2. Quiet
      BY <1>0, <3>1
    <3> QED BY <1>k, <3>1, <3>2
  <2>2. CASE Erasure!ResumeGame(g)
    <3>1. /\ game' = [game EXCEPT ![g] = "live"] /\ removed' = removed /\ picked' = picked
          /\ reopened' = reopened \cup ({g} \cap picked)
      BY <2>2 DEF Erasure!ResumeGame
    <3>2. PickedInv'
      BY <1>0, <3>1 DEF PickedInv
    <3>3. Reopened
      BY <1>0, <3>1
    <3> QED BY <3>2, <3>3
  <2>3. CASE Erasure!TerminateGame(g) \/ Erasure!ExpireGame(g)
    <3>1. /\ \E s \in {"over", "expired"} : game' = [game EXCEPT ![g] = s]
          /\ picked' = picked /\ reopened' = reopened /\ removed' = removed
      BY <2>3 DEF Erasure!TerminateGame, Erasure!ExpireGame, Erasure!historyVars
    <3>2. Quiet
      BY <1>0, <3>1
    <3> QED BY <1>k, <3>1, <3>2
  <2>4. ASSUME NEW ok \in BOOLEAN, Erasure!EndGame(g, ok)
        PROVE  Goal
    <3>1. /\ game' = [game EXCEPT ![g] = "over"] /\ removed' = removed \cup {g}
          /\ picked' = picked /\ reopened' = reopened
      BY <2>4 DEF Erasure!EndGame, Erasure!historyVars
    <3>2. Quiet
      BY <1>0, <3>1
    <3> QED BY <1>k, <3>1, <3>2
  <2>5. CASE Erasure!AdmitGame(g) \/ Erasure!AdmitTurn(g) \/ Erasure!AcceptTurn(g)
             \/ Erasure!RejectTurn(g) \/ Erasure!FinishTurn(g)
             \/ Erasure!SaveSummary(g) \/ Erasure!RestoreSnapshot(g) \/ Erasure!Grow(g)
    <3>1. game' = game /\ picked' = picked /\ reopened' = reopened /\ removed' = removed
      BY <2>5
      DEF Erasure!AdmitGame, Erasure!AdmitTurn, Erasure!AcceptTurn, Erasure!RejectTurn,
          Erasure!FinishTurn, Erasure!SaveSummary,
          Erasure!RestoreSnapshot, Erasure!Grow, Erasure!gameVars, Erasure!historyVars
    <3>2. Quiet
      BY <1>0, <3>1
    <3> QED BY <1>k, <3>1, <3>2
  <2>6. ASSUME NEW ok \in BOOLEAN,
               Erasure!CleanStore(g, ok) \/ Erasure!EvictGameState(g, ok)
               \/ Erasure!AuditCacheConsistency(g, ok)
        PROVE  Goal
    <3>1. game' = game /\ picked' = picked /\ reopened' = reopened /\ removed' = removed
      BY <2>6 DEF Erasure!CleanStore, Erasure!EvictGameState,
                  Erasure!AuditCacheConsistency, Erasure!gameVars, Erasure!historyVars
    <3>2. Quiet
      BY <1>0, <3>1
    <3> QED BY <1>k, <3>1, <3>2
  <2>7. ASSUME NEW s \in Erasure!Stores, Erasure!CacheExpires(g, s)
        PROVE  Goal
    <3>1. game' = game /\ picked' = picked /\ reopened' = reopened /\ removed' = removed
      BY <2>7 DEF Erasure!CacheExpires, Erasure!gameVars, Erasure!historyVars
    <3>2. Quiet
      BY <1>0, <3>1
    <3> QED BY <1>k, <3>1, <3>2
  <2> QED
    BY <1>1, <2>1, <2>2, <2>3, <2>4, <2>5, <2>6, <2>7 DEF Erasure!GameNext
<1>2. CASE Erasure!ScrubAccount
  <2>1. /\ game' = [g \in Games |-> IF game[g] = "live" THEN "over" ELSE game[g]]
        /\ picked' = picked /\ reopened' = reopened /\ removed' = removed
    BY <1>2 DEF Erasure!ScrubAccount
  <2>2. Quiet
    BY <1>0, <2>1
  <2> QED BY <1>k, <2>1, <2>2
<1>3. CASE Erasure!GdprDeletePlayer
  <2>1. /\ game' = [g \in Games |-> IF game[g] = "none" THEN "none" ELSE "purged"]
        /\ picked' = picked /\ reopened' = reopened /\ removed' = removed
        /\ account' = "erased"
    BY <1>3 DEF Erasure!GdprDeletePlayer, Erasure!historyVars
  <2>2. Quiet
    BY <1>0, <2>1
  <2> QED BY <1>k, <2>1, <2>2
<1>4. CASE Erasure!PurgeSelect
  <2>1. /\ game' = game /\ removed' = removed
        /\ picked' = {g \in Games : Erasure!Purgeable(g) /\ game[g] # "purged"}
    BY <1>4 DEF Erasure!PurgeSelect, Erasure!gameVars
  <2>2. \A g \in picked' : g \in Games /\ (g \in removed \/ game[g] \in {"over", "expired"})
    BY <2>1 DEF Erasure!Purgeable
  <2>3. PickedInv'
    BY <1>0, <2>1, <2>2 DEF PickedInv
  <2> QED BY <2>1, <2>3
<1>5. CASE Erasure!PurgeDelete
  <2>1. /\ game' = [g \in Games |-> IF g \in picked THEN "purged" ELSE game[g]]
        /\ picked' = {}
    BY <1>5 DEF Erasure!PurgeDelete
  <2> QED BY <1>0, <2>1 DEF PickedInv
<1>6. CASE Erasure!NextStore \/ Erasure!Suspend \/ Erasure!Unsuspend
           \/ UNCHANGED Erasure!vars
  <2>1. game' = game /\ picked' = picked /\ reopened' = reopened /\ removed' = removed
    BY <1>6 DEF Erasure!NextStore, Erasure!Suspend, Erasure!Unsuspend, Erasure!vars,
                Erasure!gameVars, Erasure!historyVars
  <2>2. Quiet
    BY <1>0, <2>1
  <2> QED BY <1>k, <2>1, <2>2
<1> QED
  BY <1>1, <1>2, <1>3, <1>4, <1>5, <1>6 DEF Erasure!Next

-----------------------------------------------------------------------------

\* For every number of games and of failures: what runs, what is kept and what the
\* purge has picked stay as the two properties below need them.
THEOREM SpecErasureInv == Erasure!Spec => []ErasureInv
<1>1. ErasureInv /\ [Erasure!Next]_(Erasure!vars) => ErasureInv'
  BY RowsStep, ClosedStep, PickedStep DEF ErasureInv
<1> QED BY ErasureInvInit, <1>1, PTL DEF Erasure!Spec

\* A closed account: whatever handlers and tasks still write, the player's words come
\* back only where work was under way when they were scrubbed.
THEOREM SpecOnlyWorkUnderWayReturns == Erasure!Spec => OnlyWorkUnderWayReturns
<1> DEFINE Returns == account = "pending_deletion" =>
                        \A g \in Games, s \in {"turns", "session", "graph"} :
                          (<<g, s>> \in kept' /\ ~Erasure!Holds(g, s)) => g \in overtaken
<1>1. ErasureInv /\ [Erasure!Next]_(Erasure!vars) => [Returns]_(Erasure!vars)
  BY ClosedStep DEF ErasureInv
<1> QED BY SpecErasureInv, <1>1, PTL
     DEF Erasure!Spec, Erasure!OnlyWorkUnderWayReturns, OnlyWorkUnderWayReturns

\* The two queries of the purge: a game in play is deleted only if its player resumed
\* it between them.
THEOREM SpecLiveGameIsPurgedOnlyIfReopened ==
  Erasure!Spec => LiveGameIsPurgedOnlyIfReopened
<1> DEFINE Reopened ==
             \A g \in Games :
               (picked' = {} /\ game[g] = "live" /\ g \notin removed /\ game'[g] = "purged"
                /\ account' # "erased") => g \in reopened
<1>1. ErasureInv /\ [Erasure!Next]_(Erasure!vars) => [Reopened]_(Erasure!vars)
  BY PickedStep DEF ErasureInv
<1> QED BY SpecErasureInv, <1>1, PTL
     DEF Erasure!Spec, Erasure!LiveGameIsPurgedOnlyIfReopened, LiveGameIsPurgedOnlyIfReopened
=============================================================================
