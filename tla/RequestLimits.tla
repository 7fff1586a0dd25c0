--------------------------- MODULE RequestLimits ---------------------------
(***************************************************************************)
(* RateLimitMiddleware with RedisRateLimiter and RedisAbuseDetector, for   *)
(* requests of one address and endpoint group: a sliding window, and a     *)
(* cooldown for addresses that are refused, or unauthorized, too often.    *)
(*                                                                         *)
(* Every round trip to Redis is one step, and LatencyBudgetMiddleware,     *)
(* which is outside, may abort a request between any two.  Pruning and     *)
(* counting commute with what others do in between and are one step.  The  *)
(* in-memory classes do the same steps without a pause: their behaviours   *)
(* are among these.  Errors of Redis let the request through.              *)
(***************************************************************************)
EXTENDS Integers, FiniteSets, FiniteSetsExt

CONSTANTS
  Requests,
  Limit, Window,          \* of the limiter, in ticks
  PatternConfig,          \* of each pattern: how many violations (threshold) within how many
                          \* ticks (window) are let pass, and the first cooldown after them
                          \* (base)
  Longest,                \* max_cooldown
  MaxTime                 \* bound on the ticks

VARIABLES
  now,
  window,      \* the members of the limiter's key and their times
  violations,  \* of each pattern, under the address as the middleware names it
  cooldown,    \* of each name, one for all patterns: until when, and for which of them
  request,     \* where each request is
  unblock,     \* where the administrator's unblocking is
  \* History: only the properties read these, and "overtaken" and "late" of a request.
  outrun,      \* requests admitted on a count that others had overtaken
  cut,         \* patterns whose latest violation may be that of an aborted request
  overwritten, \* patterns after whose latest cooldown one was set by a request that was late
  unblocked    \* the detector was told to unblock the address, and has not punished it since

vars ==
  <<now, window, violations, cooldown, request, unblock, outrun, cut, overwritten, unblocked>>

Patterns == DOMAIN PatternConfig

\* abuse_identity, and the name that admin_rate_limits gives to the detector.
Address == "address"
Identity == "ip:address"
Names == {Address, Identity}

\* A request is overtaken when others are admitted after it was counted, and late when it
\* is past the check of the cooldown, and one is set or was not seen.
New ==
  [pc |-> "new", at |-> 0, pattern |-> "none", count |-> 0, overtaken |-> FALSE, late |-> FALSE]
NoCooldown == [until |-> 0, pattern |-> "none"]

Init ==
  /\ now = 0 /\ window = {}
  /\ violations = [p \in Patterns |-> {}]
  /\ cooldown = [n \in Names |-> NoCooldown]
  /\ request = [r \in Requests |-> New]
  /\ unblock = "no" /\ outrun = {} /\ cut = {} /\ overwritten = {} /\ unblocked = FALSE

Goto(r, pc) == request' = [request EXCEPT ![r].pc = pc]
Over == [New EXCEPT !.pc = "over"]
Finish(r) == request' = [request EXCEPT ![r] = Over]
Recent(entries, span) == {e \in entries : e.at > now - span}
Active(name) == now < cooldown[name].until

\* 2 ^ n for each n of 0 .. 10, at n + 1
Doubled == <<1, 2, 4, 8, 16, 32, 64, 128, 256, 512, 1024>>
CalculateCooldown(count, config) ==
  Min({config.base * Doubled[1 + Min({10, Max({0, count - config.threshold - 1})})], Longest})

Tick ==
  /\ now < MaxTime /\ now' = now + 1
  /\ UNCHANGED <<window, violations, cooldown, request, unblock, outrun, cut, overwritten, unblocked>>
-----------------------------------------------------------------------------
\* check_cooldown; if that fails the request goes on.
CheckCooldown_Expired(r) ==
  /\ request[r].pc = "new" /\ Goto(r, "checking")
  /\ UNCHANGED <<now, window, violations, cooldown, unblock, outrun, cut, overwritten, unblocked>>
CheckCooldown(r) ==
  /\ request[r].pc = "new"
  /\ \/ ~Active(Identity) /\ Goto(r, "checking")
     \/ Active(Identity) /\ Finish(r)
  /\ UNCHANGED <<now, window, violations, cooldown, unblock, outrun, cut, overwritten, unblocked>>
DetectorFails(r) ==
  /\ request[r].pc = "new" /\ Active(Identity)
  /\ request' = [request EXCEPT ![r].pc = "checking", ![r].late = TRUE]
  /\ UNCHANGED <<now, window, violations, cooldown, unblock, outrun, cut, overwritten, unblocked>>

\* The first pipeline of check.
Count_AtLimit(r) ==
  /\ request[r].pc = "checking"
  /\ window' = Recent(window, Window)
  /\ request' = [request EXCEPT ![r] =
       IF Cardinality(window') <= Limit THEN [@ EXCEPT !.pc = "admitting", !.at = now]
       ELSE [@ EXCEPT !.pc = "refused", !.pattern = "rapid fire"]]
  /\ UNCHANGED <<now, violations, cooldown, unblock, outrun, cut, overwritten, unblocked>>
Count(r) ==
  /\ request[r].pc = "checking"
  /\ window' = Recent(window, Window)
  /\ request' = [request EXCEPT ![r] =
       IF Cardinality(window') < Limit THEN [@ EXCEPT !.pc = "admitting", !.at = now]
       ELSE [@ EXCEPT !.pc = "refused", !.pattern = "rapid fire"]]
  /\ UNCHANGED <<now, violations, cooldown, unblock, outrun, cut, overwritten, unblocked>>

\* The second one.
Admit(r) ==
  /\ request[r].pc = "admitting"
  /\ window' = window \cup {[by |-> r, at |-> request[r].at]}
  /\ outrun' = IF request[r].overtaken THEN outrun \cup {r} ELSE outrun
  /\ request' = [q \in Requests |->
       IF q = r THEN [request[q] EXCEPT !.pc = "served", !.at = 0, !.overtaken = FALSE]
       ELSE IF request[q].pc = "admitting" THEN [request[q] EXCEPT !.overtaken = TRUE]
       ELSE request[q]]
  /\ UNCHANGED <<now, violations, cooldown, unblock, cut, overwritten, unblocked>>

\* The application answers: 401, or anything else.
Answer(r, unauthorized) ==
  /\ request[r].pc = "served"
  /\ request' = [request EXCEPT ![r] =
       IF unauthorized THEN [@ EXCEPT !.pc = "refused", !.pattern = "credential stuffing"]
       ELSE Over]
  /\ UNCHANGED <<now, window, violations, cooldown, unblock, outrun, cut, overwritten, unblocked>>

-----------------------------------------------------------------------------
(* record_violation                                                        *)

AddViolation(r) ==
  /\ request[r].pc = "refused"
  /\ violations' = [violations EXCEPT ![request[r].pattern] =
       Recent(@, PatternConfig[request[r].pattern].window) \cup {[by |-> r, at |-> now]}]
  /\ cut' = cut \ {request[r].pattern}
  /\ Goto(r, "added")
  /\ UNCHANGED <<now, window, cooldown, unblock, outrun, overwritten, unblocked>>
CountViolations_Distinct(r) ==
  /\ request[r].pc = "added"
  /\ LET n == Cardinality({e.at : e \in violations[request[r].pattern]}) IN
       request' = [request EXCEPT ![r] =
         IF n > PatternConfig[request[r].pattern].threshold
           THEN [@ EXCEPT !.pc = "punishing", !.count = n] ELSE Over]
  /\ UNCHANGED <<now, window, violations, cooldown, unblock, outrun, cut, overwritten, unblocked>>
CountViolations(r) ==
  /\ request[r].pc = "added"
  /\ LET n == Cardinality(violations[request[r].pattern]) IN
       request' = [request EXCEPT ![r] =
         IF n > PatternConfig[request[r].pattern].threshold
           THEN [@ EXCEPT !.pc = "punishing", !.count = n] ELSE Over]
  /\ UNCHANGED <<now, window, violations, cooldown, unblock, outrun, cut, overwritten, unblocked>>

\* setex, whose key is the same for every pattern.
SetCooldown(r) ==
  /\ request[r].pc = "punishing"
  /\ LET pattern == request[r].pattern IN
       /\ cooldown' = [cooldown EXCEPT ![Identity] =
            [until |-> now + CalculateCooldown(request[r].count, PatternConfig[pattern]),
             pattern |-> pattern]]
       /\ overwritten' = (IF request[r].late THEN Patterns ELSE overwritten) \ {pattern}
  /\ unblocked' = FALSE
  /\ request' = [q \in Requests |->
       IF q = r THEN Over
       ELSE IF request[q].pc \in {"new", "over"} THEN request[q]
       ELSE [request[q] EXCEPT !.late = TRUE]]
  /\ UNCHANGED <<now, window, violations, unblock, outrun, cut>>

\* The latency budget is spent; or Redis fails, and the request goes on unlimited.
Abort(r) ==
  /\ request[r].pc \notin {"new", "over"} /\ Finish(r)
  /\ cut' = IF request[r].pc \in {"added", "punishing"} THEN cut \cup {request[r].pattern} ELSE cut
  /\ UNCHANGED <<now, window, violations, cooldown, unblock, outrun, overwritten, unblocked>>
-----------------------------------------------------------------------------
(* unblock_ip                                                              *)

\* clear_cooldown: the cooldown, then the violations, of that name; there are none.
ClearCooldown ==
  /\ unblock = "no" /\ unblock' = "cleared" /\ unblocked' = TRUE
  /\ cooldown' = [cooldown EXCEPT ![Address] = NoCooldown]
  /\ UNCHANGED <<now, window, violations, request, outrun, cut, overwritten>>

\* clear_key, whose key is the one that the middleware uses.
ClearKey ==
  /\ unblock = "cleared" /\ unblock' = "no"
  /\ window' = {}
  /\ UNCHANGED <<now, violations, cooldown, request, outrun, cut, overwritten, unblocked>>

Next ==
  \/ Tick \/ ClearCooldown \/ ClearKey
  \/ \E r \in Requests :
       \/ CheckCooldown(r) \/ DetectorFails(r) \/ Count(r) \/ Admit(r)
       \/ \E u \in BOOLEAN : Answer(r, u)
       \/ AddViolation(r) \/ CountViolations(r) \/ SetCooldown(r) \/ Abort(r)

Spec == Init /\ [][Next]_vars
-----------------------------------------------------------------------------
\* However requests overlap, no more of them than the limit are let through in a window, but
\* for those that were counted before, and let through after, another was.
WindowIsKept == Cardinality({e \in Recent(window, Window) : e.by \notin outrun}) <= Limit

\* However the violations of an address overlap: when the last one of a pattern is recorded
\* and there were too many, the address has been blocked for as long as that pattern asks
\* for, unless a request was aborted halfway; and where a request that was let through before
\* a block was made, or unseen, has set another, for as long as the latter's pattern asks for.
FirstCooldown(pattern) == Min({PatternConfig[pattern].base, Longest})
BlockIsNotMissed ==
  \A p \in Patterns :
    LET last == Max({e.at : e \in violations[p]})
        held == IF p \in overwritten THEN cooldown[Identity].pattern ELSE p IN
      (\A r \in Requests : request[r].pattern = p => request[r].pc \notin {"added", "punishing"})
        /\ Cardinality(violations[p]) > PatternConfig[p].threshold /\ p \notin cut
      => cooldown[Identity].until >= last + FirstCooldown(held)

\* FR-26.23 says that unblocking an address removes the block that the detector has set.
UnblockRemovesBlock == unblocked => ~Active(Identity)
=============================================================================
