------------------------ MODULE BreakersProofs ------------------------------
(***************************************************************************)
(* Proofs about CircuitBreaker for every number of calls and every         *)
(* configuration: type correctness, that a half-open circuit is always     *)
(* being probed, that probes enter a cooldown apart and that besides them  *)
(* only calls from before the opening decide.  The age of a call bounds    *)
(* what it can have seen: a call that is not older than the opening would  *)
(* have had to enter an open circuit.  Then about GuardedLLM: a call in the*)
(* breaker holds a permit, none of the permits is lost or idle, and only   *)
(* the end of such a call opens the circuit.                               *)
(***************************************************************************)
EXTENDS MCBreakers, FiniteSetTheorems, NaturalsInduction, WellFoundedInduction, TLAPS

\* The flag and the state agree, and a probe is under way.
IInv == TypeOK /\ HalfOpenIsProbed

----------------------------------------------------------------------------
(* Types                                                                   *)

LEMMA RecordedType ==
  ASSUME TypeOK
  PROVE  Recorded \in [0 .. Window -> 0 .. Threshold]
BY BreakerAssumption DEF Recorded, TypeOK, Least

LEMMA TripType ==
  ASSUME TypeOK, Trip
  PROVE  /\ state' \in CircuitState /\ openFor' \in 0 .. MaxCooldown
         /\ trips' \in 0 .. MaxTrips /\ cooldown' \in Cooldown .. MaxCooldown
<1>1. trips' \in 0 .. MaxTrips
  BY BreakerAssumption DEF Trip, TypeOK, Least
<1>2. cooldown' \in Cooldown .. MaxCooldown
  BY BreakerAssumption DEF Trip, TypeOK, Least
<1>3. state' \in CircuitState /\ openFor' \in 0 .. MaxCooldown
  BY BreakerAssumption DEF Trip, CircuitState
<1> QED BY <1>1, <1>2, <1>3

LEMMA NoFailuresType == NoFailures \in [0 .. Window -> 0 .. Threshold]
BY BreakerAssumption DEF NoFailures

LEMMA BeginType ==
  ASSUME TypeOK, NEW c \in Calls, NEW p \in BOOLEAN, Begin(c, p)
  PROVE  call' \in [Calls -> CallState]
<1> DEFINE q == [pc |-> "in", age |-> 0, probing |-> p]
<1>1. q \in CallState BY BreakerAssumption DEF CallState
<1> QED BY <1>1 DEF Begin, TypeOK

LEMMA EndType ==
  ASSUME TypeOK, NEW c \in Calls, End(c)
  PROVE  call' \in [Calls -> CallState]
<1>1. NoCall \in CallState BY BreakerAssumption DEF CallState, NoCall
<1> QED BY <1>1 DEF End, TypeOK

LEMMA InitIInv == Init => IInv
<1> SUFFICES ASSUME Init PROVE IInv OBVIOUS
<1>1. NoCall \in CallState BY BreakerAssumption DEF CallState, NoCall
<1>2. openFor \in 0 .. MaxCooldown /\ trips \in 0 .. MaxTrips
        /\ cooldown \in Cooldown .. MaxCooldown
  BY BreakerAssumption DEF Init
<1>3. call \in [Calls -> CallState] BY <1>1 DEF Init
<1>4. TypeOK
  BY <1>2, <1>3, NoFailuresType DEF Init, TypeOK, CircuitState
<1> QED BY <1>4 DEF IInv, Init, HalfOpenIsProbed

LEMMA TypeStep ==
  ASSUME TypeOK, [Next]_vars
  PROVE  TypeOK'
<1>1. ASSUME NEW c \in Calls, EnterClosed(c) PROVE TypeOK'
  BY <1>1, BeginType DEF EnterClosed, TypeOK
<1>2. ASSUME NEW c \in Calls, EnterProbe(c) PROVE TypeOK'
  BY <1>2, BeginType DEF EnterProbe, TypeOK, CircuitState
<1>3. ASSUME NEW c \in Calls, ExitFailed(c) PROVE TypeOK'
  <2>1. call' \in [Calls -> CallState] BY <1>3, EndType DEF ExitFailed
  <2>2. probe' \in BOOLEAN BY <1>3 DEF ExitFailed, ClearProbe
  <2>3. failures' \in [0 .. Window -> 0 .. Threshold]
    BY <1>3, RecordedType DEF ExitFailed
  <2>4. CASE Trip
    BY <1>3, <2>1, <2>2, <2>3, <2>4, TripType DEF ExitFailed, TypeOK
  <2>5. CASE UNCHANGED <<state, openFor, trips, cooldown>>
    BY <1>3, <2>1, <2>2, <2>3, <2>5 DEF ExitFailed, TypeOK
  <2> QED BY <1>3, <2>4, <2>5 DEF ExitFailed
<1>4. ASSUME NEW c \in Calls, ExitOk(c) PROVE TypeOK'
  <2>1. call' \in [Calls -> CallState] BY <1>4, EndType DEF ExitOk
  <2>2. probe' \in BOOLEAN BY <1>4 DEF ExitOk, ClearProbe
  <2>3. CASE state = "half_open"
    BY <1>4, <2>1, <2>2, <2>3, NoFailuresType, BreakerAssumption
    DEF ExitOk, TypeOK, CircuitState
  <2>4. CASE state # "half_open"
    BY <1>4, <2>1, <2>2, <2>4 DEF ExitOk, TypeOK
  <2> QED BY <2>3, <2>4
<1>5. CASE Tick
  <2>1. openFor' \in 0 .. MaxCooldown
    BY <1>5, BreakerAssumption DEF Tick, TypeOK, Least
  <2>2. failures' \in [0 .. Window -> 0 .. Threshold]
    BY <1>5, BreakerAssumption DEF Tick, TypeOK
  <2>3. call' \in [Calls -> CallState]
    <3>1. ASSUME NEW c \in Calls
          PROVE  (IF c \in InFlight THEN [call[c] EXCEPT !.age = @ + 1]
                  ELSE call[c]) \in CallState
      <4>1. call[c] \in CallState BY DEF TypeOK
      <4>2. c \in InFlight => call[c].age < CallTimeout BY <1>5 DEF Tick
      <4>3. c \in InFlight => [call[c] EXCEPT !.age = @ + 1] \in CallState
        BY <4>1, <4>2, BreakerAssumption DEF CallState
      <4> QED BY <4>1, <4>3
    <3> QED BY <1>5, <3>1 DEF Tick
  <2> QED BY <1>5, <2>1, <2>2, <2>3 DEF Tick, TypeOK
<1>6. CASE ServiceRecovers BY <1>6 DEF ServiceRecovers, TypeOK
<1>7. CASE UNCHANGED vars BY <1>7 DEF vars, TypeOK
<1> QED BY <1>1, <1>2, <1>3, <1>4, <1>5, <1>6, <1>7 DEF Next, Enter, Fails

----------------------------------------------------------------------------
(* Half-open circuits are probed                                           *)

LEMMA ProbedStep ==
  ASSUME IInv, [Next]_vars
  PROVE  HalfOpenIsProbed'
<1> USE DEF IInv
<1>1. ASSUME NEW c \in Calls, EnterClosed(c) PROVE HalfOpenIsProbed'
  BY <1>1 DEF EnterClosed, HalfOpenIsProbed
<1>2. ASSUME NEW c \in Calls, EnterProbe(c) PROVE HalfOpenIsProbed'
  <2>1. call'[c] = [pc |-> "in", age |-> 0, probing |-> TRUE]
    BY <1>2 DEF EnterProbe, Begin, TypeOK
  <2>2. c \in Probes' BY <2>1 DEF Probes, InFlight
  <2> QED BY <1>2, <2>2 DEF EnterProbe, HalfOpenIsProbed
<1>3. ASSUME NEW c \in Calls, ExitFailed(c) PROVE HalfOpenIsProbed'
  <2>1. CASE state = "half_open"
    <3>1. state' = "open" /\ probe' = FALSE
      BY <1>3, <2>1 DEF ExitFailed, Trip, ClearProbe
    <3> QED BY <3>1 DEF HalfOpenIsProbed
  <2>2. CASE state # "half_open"
    <3>1. state' # "half_open" /\ probe' = FALSE
      BY <1>3, <2>2 DEF ExitFailed, Trip, ClearProbe, HalfOpenIsProbed
    <3> QED BY <3>1 DEF HalfOpenIsProbed
  <2> QED BY <2>1, <2>2
<1>4. ASSUME NEW c \in Calls, ExitOk(c) PROVE HalfOpenIsProbed'
  <2>1. state' # "half_open" /\ probe' = FALSE
    BY <1>4 DEF ExitOk, ClearProbe, HalfOpenIsProbed
  <2> QED BY <2>1 DEF HalfOpenIsProbed
<1>5. CASE Tick
  <2>1. \A c \in Probes : c \in Probes'
    BY <1>5 DEF Tick, Probes, InFlight, TypeOK, CallState
  <2>2. state' = state /\ probe' = probe BY <1>5 DEF Tick
  <2> QED BY <2>1, <2>2 DEF HalfOpenIsProbed
<1>6. CASE ServiceRecovers
  BY <1>6 DEF ServiceRecovers, HalfOpenIsProbed, Probes, InFlight
<1>7. CASE UNCHANGED vars
  BY <1>7 DEF vars, HalfOpenIsProbed, Probes, InFlight
<1> QED BY <1>1, <1>2, <1>3, <1>4, <1>5, <1>6, <1>7 DEF Next, Enter, Fails

LEMMA NextIInv == IInv /\ [Next]_vars => IInv'
BY TypeStep, ProbedStep DEF IInv

\* The invariant that the theorems about single states follow from.
THEOREM SpecIInv == Spec => []IInv
BY InitIInv, NextIInv, PTL DEF Spec

\* Every variable of the breaker keeps its type for every configuration; in
\* particular _trip keeps the cooldown between the configured bounds.
THEOREM SpecTypeOK == Spec => []TypeOK
<1>1. IInv => TypeOK BY DEF IInv
<1> QED BY <1>1, SpecIInv, PTL

\* __aexit__ never leaves the circuit half-open without a probe under way.
THEOREM SpecHalfOpenIsProbed == Spec => []HalfOpenIsProbed
<1>1. IInv => HalfOpenIsProbed BY DEF IInv
<1> QED BY <1>1, SpecIInv, PTL

----------------------------------------------------------------------------
(* Failures of the window and the backoff                                  *)

LEMMA LeastNumber ==
  ASSUME NEW S \in SUBSET Nat, S # {}
  PROVE  \E n \in S : \A m \in S : n <= m
<1>1. \E n \in S : \A m \in S : ~(<<m, n>> \in OpToRel(<, Nat))
  BY NatLessThanWellFounded, WFMin
<1>2. PICK n \in S : \A m \in S : ~(<<m, n>> \in OpToRel(<, Nat))
  BY <1>1
<1>3. \A m \in S : ~(m < n)
  BY <1>2 DEF OpToRel
<1> QED BY <1>3

\* Induction, for a set of numbers.
LEMMA Induction ==
  ASSUME NEW N \in Nat, NEW S, 0 \in S, \A n \in 1 .. N : n - 1 \in S => n \in S
  PROVE  0 .. N \subseteq S
<1> DEFINE missing == {n \in 0 .. N : n \notin S}
<1> SUFFICES ASSUME missing # {} PROVE FALSE
  OBVIOUS
<1>1. PICK n \in missing : \A k \in missing : n <= k
  <2>1. missing \in SUBSET Nat
    OBVIOUS
  <2> HIDE DEF missing
  <2> QED BY <2>1, LeastNumber
<1>2. n \in 1 .. N /\ n - 1 \in 0 .. N /\ ~(n <= n - 1)
  OBVIOUS
<1>3. n - 1 \notin missing
  BY <1>1, <1>2
<1> QED BY <1>2, <1>3

Iterates(f, step, base, N) == f[0] = base /\ \A n \in 1 .. N : f[n] = step[n][f[n - 1]]

\* What is made of its predecessor is there after any number of steps.
LEMMA IterationExists ==
  ASSUME NEW N \in Nat, NEW S, NEW base \in S, NEW step \in [1 .. N -> [S -> S]]
  PROVE  \E f \in [0 .. N -> S] : Iterates(f, step, base, N)
<1> DEFINE Made(m, f) ==
             f \in [0 .. m -> S] /\ f[0] = base /\ \A n \in 1 .. m : f[n] = step[n][f[n - 1]]
           made == {m \in 0 .. N : \E f : Made(m, f)}
<1>1. 0 \in made
  <2>1. Made(0, [i \in 0 .. 0 |-> base])
    OBVIOUS
  <2> HIDE DEF Made
  <2> QED BY <2>1
<1>2. ASSUME NEW m \in 1 .. N, m - 1 \in made
      PROVE  m \in made
  <2>1. PICK f : Made(m - 1, f)
    <3> HIDE DEF Made
    <3> QED BY <1>2
  <2> DEFINE g == [n \in 0 .. m |-> IF n = m THEN step[m][f[m - 1]] ELSE f[n]]
  <2>2. step[m][f[m - 1]] \in S
    BY <2>1
  <2>3. g \in [0 .. m -> S] /\ g[0] = base
    BY <2>1, <2>2
  <2>4. ASSUME NEW n \in 1 .. m PROVE g[n] = step[n][g[n - 1]]
    <3>1. CASE n = m
      BY <3>1
    <3>2. CASE n # m
      BY <2>1, <3>2
    <3> QED BY <3>1, <3>2
  <2>5. Made(m, g)
    <3> HIDE DEF g
    <3> QED BY <2>3, <2>4
  <2> HIDE DEF Made, g
  <2> QED BY <2>5
<1>3. PICK f : Made(N, f)
  <2>1. \A m \in 1 .. N : m - 1 \in made => m \in made
    BY <1>2
  <2>2. 0 .. N \subseteq made
    <3> HIDE DEF made
    <3> QED BY <1>1, <2>1, Induction
  <2>3. N \in made
    BY <2>2
  <2> HIDE DEF Made
  <2> QED BY <2>3
<1>4. f \in [0 .. N -> S] /\ Iterates(f, step, base, N)
  BY <1>3 DEF Iterates
<1> QED BY <1>4

\* The failures up to an age are counted age by age.
LEMMA UptoCounts ==
  ASSUME NEW fs \in [0 .. Window -> Nat]
  PROVE  /\ Upto(fs)[0] = fs[0]
         /\ \A age \in 1 .. Window : Upto(fs)[age] = Upto(fs)[age - 1] + fs[age]
         /\ \A age \in 0 .. Window : Upto(fs)[age] \in Nat
<1> DEFINE F(f) == [age \in 0 .. Window |-> IF age = 0 THEN fs[0] ELSE f[age - 1] + fs[age]]
           step == [n \in 1 .. Window |-> [s \in Nat |-> s + fs[n]]]
<1>1. PICK f \in [0 .. Window -> Nat] : Iterates(f, step, fs[0], Window)
  <2>1. step \in [1 .. Window -> [Nat -> Nat]]
    OBVIOUS
  <2>2. fs[0] \in Nat /\ Window \in Nat
    BY BreakerAssumption
  <2> HIDE DEF step
  <2> QED BY <2>1, <2>2, IterationExists
<1>2. f = F(f)
  <2>1. ASSUME NEW n \in 1 .. Window PROVE f[n] = f[n - 1] + fs[n]
    <3>1. f[n - 1] \in Nat
      BY BreakerAssumption
    <3> QED BY <1>1, <3>1 DEF Iterates
  <2> QED BY <1>1, <2>1, BreakerAssumption DEF Iterates
<1>3. Upto(fs) = CHOOSE g : g = F(g)
  BY DEF Upto
<1>4. Upto(fs) = F(Upto(fs))
  <2> HIDE DEF F
  <2> QED BY <1>2, <1>3
<1>5. /\ Upto(fs)[0] = fs[0]
      /\ \A age \in 1 .. Window : Upto(fs)[age] = Upto(fs)[age - 1] + fs[age]
  BY <1>4, BreakerAssumption
<1> DEFINE counted == {n \in 0 .. Window : Upto(fs)[n] \in Nat}
<1>6. 0 \in counted /\ \A n \in 1 .. Window : n - 1 \in counted => n \in counted
  <2>1. 0 \in counted
    BY <1>5, BreakerAssumption
  <2>2. ASSUME NEW n \in 1 .. Window, Upto(fs)[n - 1] \in Nat
        PROVE  n \in 0 .. Window /\ Upto(fs)[n] \in Nat
    <3>1. Upto(fs)[n] = Upto(fs)[n - 1] + fs[n]
      BY <1>5
    <3>2. n \in 0 .. Window /\ fs[n] \in Nat
      BY BreakerAssumption
    <3> QED BY <2>2, <3>1, <3>2
  <2> QED BY <2>1, <2>2
<1>7. 0 .. Window \subseteq counted
  <2> HIDE DEF counted
  <2> QED BY <1>6, Induction, BreakerAssumption
<1> QED BY <1>5, <1>7

\* The backoff doubles with every failed probe.
LEMMA BackoffDoubles ==
  /\ Backoff[0] = Cooldown
  /\ \A n \in 1 .. MaxTrips : Backoff[n] = 2 * Backoff[n - 1]
  /\ \A n \in 0 .. MaxTrips : Backoff[n] \in Nat
<1> DEFINE F(f) == [n \in 0 .. MaxTrips |-> IF n = 0 THEN Cooldown ELSE 2 * f[n - 1]]
           step == [n \in 1 .. MaxTrips |-> [s \in Nat |-> 2 * s]]
<1>1. PICK f \in [0 .. MaxTrips -> Nat] : Iterates(f, step, Cooldown, MaxTrips)
  <2>1. step \in [1 .. MaxTrips -> [Nat -> Nat]]
    OBVIOUS
  <2>2. Cooldown \in Nat /\ MaxTrips \in Nat
    BY BreakerAssumption
  <2> HIDE DEF step
  <2> QED BY <2>1, <2>2, IterationExists
<1>2. f = F(f)
  <2>1. ASSUME NEW n \in 1 .. MaxTrips PROVE f[n] = 2 * f[n - 1]
    <3>1. f[n - 1] \in Nat
      BY BreakerAssumption
    <3> QED BY <1>1, <3>1 DEF Iterates
  <2>2. f[0] = Cooldown
    BY <1>1 DEF Iterates
  <2>3. f = [n \in 0 .. MaxTrips |-> f[n]]
    OBVIOUS
  <2>4. ASSUME NEW n \in 0 .. MaxTrips, n # 0 PROVE n \in 1 .. MaxTrips
    <3>1. MaxTrips \in Nat
      BY BreakerAssumption
    <3> HIDE DEF F, step
    <3> QED BY <2>4, <3>1
  <2> QED BY <2>1, <2>2, <2>3, <2>4
<1>3. Backoff = CHOOSE g : g = F(g)
  BY DEF Backoff
<1>4. Backoff = F(Backoff)
  <2> HIDE DEF F
  <2> QED BY <1>2, <1>3
<1>5. Backoff[0] = Cooldown /\ \A n \in 1 .. MaxTrips : Backoff[n] = 2 * Backoff[n - 1]
  BY <1>4, BreakerAssumption
<1> DEFINE doubled == {n \in 0 .. MaxTrips : Backoff[n] \in Nat}
<1>6. 0 \in doubled /\ \A n \in 1 .. MaxTrips : n - 1 \in doubled => n \in doubled
  <2>1. 0 \in doubled
    BY <1>5, BreakerAssumption
  <2>2. ASSUME NEW n \in 1 .. MaxTrips, n - 1 \in doubled
        PROVE  n \in doubled
    <3>1. Backoff[n] = 2 * Backoff[n - 1] /\ Backoff[n - 1] \in Nat /\ n \in 0 .. MaxTrips
      BY <1>5, <2>2, BreakerAssumption
    <3> QED BY <3>1
  <2> QED BY <2>1, <2>2
<1>7. 0 .. MaxTrips \subseteq doubled
  <2> HIDE DEF doubled
  <2> QED BY <1>6, Induction, BreakerAssumption
<1> QED BY <1>5, <1>7

\* As time passes the failures grow older, and the oldest leave the window.
LEMMA FewerAsTimePasses ==
  ASSUME NEW fs \in [0 .. Window -> Nat]
  PROVE  LET older == [age \in 0 .. Window |-> IF age = 0 THEN 0 ELSE fs[age - 1]]
         IN  WindowFailures(older) <= WindowFailures(fs)
<1> DEFINE older == [age \in 0 .. Window |-> IF age = 0 THEN 0 ELSE fs[age - 1]]
           moved == {n \in 0 .. Window : n > 0 => Upto(older)[n] = Upto(fs)[n - 1]}
<1>1. older \in [0 .. Window -> Nat]
  BY BreakerAssumption
<1>2. older[0] = 0 /\ \A n \in 1 .. Window : older[n] = fs[n - 1]
  BY BreakerAssumption
<1> HIDE DEF older
<1>3. /\ Upto(older)[0] = 0
      /\ \A n \in 1 .. Window : Upto(older)[n] = Upto(older)[n - 1] + fs[n - 1]
  BY <1>1, <1>2, UptoCounts, BreakerAssumption
<1>4. 0 .. Window \subseteq moved
  <2>1. 0 \in moved
    BY BreakerAssumption
  <2>2. ASSUME NEW n \in 1 .. Window, n - 1 \in moved
        PROVE  n \in moved
    <3>1. CASE n = 1
      <4>1. Upto(fs)[0] = fs[0] /\ fs[0] \in Nat
        BY UptoCounts, BreakerAssumption
      <4> QED BY <1>3, <3>1, <4>1
    <3>2. CASE n # 1
      <4>1. n - 1 \in 1 .. Window /\ n - 1 > 0
        BY <3>2, BreakerAssumption
      <4>2. Upto(fs)[n - 1] = Upto(fs)[(n - 1) - 1] + fs[n - 1]
        BY <4>1, UptoCounts
      <4>3. Upto(older)[n - 1] = Upto(fs)[(n - 1) - 1]
        BY <2>2, <4>1
      <4>4. Upto(older)[n] = Upto(older)[n - 1] + fs[n - 1]
        BY <1>3
      <4> QED BY <4>2, <4>3, <4>4
    <3> QED BY <3>1, <3>2
  <2>3. \A n \in 1 .. Window : n - 1 \in moved => n \in moved
    BY <2>2
  <2> HIDE DEF moved
  <2> QED BY <2>1, <2>3, Induction, BreakerAssumption
<1>5. CASE Window = 0
  BY <1>3, <1>5, UptoCounts DEF WindowFailures, older
<1>6. CASE Window # 0
  <2>1. Window \in 1 .. Window /\ Window > 0 /\ Window - 1 \in 0 .. Window
    BY <1>6, BreakerAssumption
  <2>2. Upto(older)[Window] = Upto(fs)[Window - 1]
    BY <1>4, <2>1
  <2>3. Upto(fs)[Window] = Upto(fs)[Window - 1] + fs[Window]
    BY <2>1, UptoCounts
  <2>4. Upto(fs)[Window - 1] \in Nat /\ fs[Window] \in Nat
    BY <2>1, UptoCounts
  <2> QED BY <2>2, <2>3, <2>4 DEF WindowFailures, older
<1> QED BY <1>5, <1>6

LEMMA NoneInWindow == WindowFailures(NoFailures) = 0
<1>1. NoFailures \in [0 .. Window -> Nat] /\ \A n \in 0 .. Window : NoFailures[n] = 0
  BY BreakerAssumption DEF NoFailures
<1> DEFINE none == {n \in 0 .. Window : Upto(NoFailures)[n] = 0}
<1>2. 0 \in none /\ \A n \in 1 .. Window : n - 1 \in none => n \in none
  BY <1>1, UptoCounts, BreakerAssumption
<1>3. 0 .. Window \subseteq none
  <2> HIDE DEF none
  <2> QED BY <1>2, Induction, BreakerAssumption
<1> QED BY <1>3, BreakerAssumption DEF WindowFailures

LEMMA CountersInit == Init => CountersFollowState
<1> SUFFICES ASSUME Init PROVE CountersFollowState
  OBVIOUS
<1>1. ClosedIsBelowThreshold
  BY NoneInWindow, BreakerAssumption DEF Init, ClosedIsBelowThreshold
<1>2. BackoffFollowsTrips
  BY BreakerAssumption DEF Init, BackoffFollowsTrips
<1> QED BY <1>1, <1>2 DEF CountersFollowState

\* What a trip makes of the backoff.
LEMMA TripBackoff ==
  ASSUME TypeOK, BackoffFollowsTrips, Trip
  PROVE  BackoffFollowsTrips' /\ state' # "closed"
<1>1. state' = "open" /\ trips' = Least(trips + 1, MaxTrips) /\ trips \in 0 .. MaxTrips
  BY DEF Trip, TypeOK
<1>2. trips' # 0 /\ (trips' <= 1 => trips = 0)
  BY <1>1, BreakerAssumption DEF Least
<1>3. ASSUME trips' < MaxTrips
      PROVE  cooldown' = Least(Backoff[trips' - 1], MaxCooldown)
  <2>1. trips' = trips + 1 /\ trips < MaxTrips
    BY <1>1, <1>3, BreakerAssumption DEF Least
  <2>2. CASE trips = 0
    BY <2>1, <2>2, BackoffDoubles, BreakerAssumption DEF Trip, BackoffFollowsTrips, Least
  <2>3. CASE trips # 0
    <3>1. trips \in 1 .. MaxTrips /\ trips - 1 \in 0 .. MaxTrips
      BY <1>1, <2>3, BreakerAssumption
    <3>2. cooldown = Least(Backoff[trips - 1], MaxCooldown)
      BY <2>1, <3>1 DEF BackoffFollowsTrips
    <3>3. cooldown' = Least(2 * cooldown, MaxCooldown)
      BY <3>1 DEF Trip
    <3>4. Backoff[trips] = 2 * Backoff[trips - 1] /\ Backoff[trips - 1] \in Nat
      BY <3>1, BackoffDoubles
    <3>5. cooldown' = Least(Backoff[trips], MaxCooldown)
      BY <3>2, <3>3, <3>4, BreakerAssumption DEF Least
    <3> QED BY <2>1, <3>1, <3>5
  <2> QED BY <2>2, <2>3
<1>4. trips' <= 1 => cooldown' = Cooldown
  BY <1>2, BreakerAssumption DEF Trip, BackoffFollowsTrips
<1> QED BY <1>1, <1>2, <1>3, <1>4 DEF BackoffFollowsTrips

LEMMA CountersStep ==
  ASSUME TypeOK, CountersFollowState, [Next]_vars
  PROVE  CountersFollowState'
<1> USE DEF CountersFollowState
<1>1. ASSUME NEW c \in Calls, EnterClosed(c) PROVE CountersFollowState'
  BY <1>1 DEF EnterClosed, ClosedIsBelowThreshold, BackoffFollowsTrips
<1>2. ASSUME NEW c \in Calls, EnterProbe(c) PROVE CountersFollowState'
  BY <1>2
  DEF EnterProbe, MayProbe, ClosedIsBelowThreshold, BackoffFollowsTrips
<1>3. ASSUME NEW c \in Calls, ExitFailed(c) PROVE CountersFollowState'
  <2>1. CASE Trip
    BY <2>1, TripBackoff DEF ClosedIsBelowThreshold
  <2>2. CASE ~Trip
    <3>1. UNCHANGED <<state, openFor, trips, cooldown>> /\ failures' = Recorded
      BY <1>3, <2>2 DEF ExitFailed
    <3>2. BackoffFollowsTrips'
      BY <3>1 DEF BackoffFollowsTrips
    <3>3. ASSUME state = "closed" PROVE WindowFailures(failures') < Threshold
      <4>1. ~(WindowFailures(Recorded) >= Threshold)
        BY <1>3, <2>2, <3>3 DEF ExitFailed
      <4>2. WindowFailures(Recorded) \in Nat
        <5>1. Recorded \in [0 .. Window -> Nat]
          BY RecordedType, BreakerAssumption
        <5> QED BY <5>1, UptoCounts, BreakerAssumption DEF WindowFailures
      <4> QED BY <3>1, <4>1, <4>2, BreakerAssumption
    <3> QED BY <3>1, <3>2, <3>3 DEF ClosedIsBelowThreshold
  <2> QED BY <2>1, <2>2
<1>4. ASSUME NEW c \in Calls, ExitOk(c) PROVE CountersFollowState'
  <2>1. CASE state = "half_open"
    <3>1. ClosedIsBelowThreshold'
      BY <1>4, <2>1, NoneInWindow, BreakerAssumption DEF ExitOk, ClosedIsBelowThreshold
    <3>2. BackoffFollowsTrips'
      BY <1>4, <2>1, BreakerAssumption DEF ExitOk, BackoffFollowsTrips
    <3> QED BY <3>1, <3>2
  <2>2. CASE state # "half_open"
    BY <1>4, <2>2 DEF ExitOk, ClosedIsBelowThreshold, BackoffFollowsTrips
  <2> QED BY <2>1, <2>2
<1>5. CASE Tick
  <2>1. BackoffFollowsTrips'
    BY <1>5 DEF Tick, BackoffFollowsTrips
  <2>2. failures \in [0 .. Window -> Nat] /\ failures' \in [0 .. Window -> Nat]
    BY <1>5, TypeStep, BreakerAssumption DEF TypeOK
  <2>3. WindowFailures(failures') <= WindowFailures(failures)
    BY <1>5, <2>2, FewerAsTimePasses DEF Tick
  <2>4. WindowFailures(failures') \in Nat /\ WindowFailures(failures) \in Nat
    <3>1. \A fs \in [0 .. Window -> Nat] : WindowFailures(fs) \in Nat
      BY UptoCounts, BreakerAssumption DEF WindowFailures
    <3> QED BY <2>2, <3>1
  <2>5. ClosedIsBelowThreshold'
    BY <1>5, <2>3, <2>4, BreakerAssumption DEF Tick, ClosedIsBelowThreshold
  <2> QED BY <2>1, <2>5
<1>6. CASE ServiceRecovers
  BY <1>6 DEF ServiceRecovers, ClosedIsBelowThreshold, BackoffFollowsTrips
<1>7. CASE UNCHANGED vars
  BY <1>7 DEF vars, ClosedIsBelowThreshold, BackoffFollowsTrips
<1> QED BY <1>1, <1>2, <1>3, <1>4, <1>5, <1>6, <1>7 DEF Next, Enter, Fails

\* FR-23.12 and EC-23.6, for every threshold, window and cooldown: a closed circuit has
\* seen fewer failures than the threshold within the window, and the cooldown is the one
\* that the consecutive trips call for.
THEOREM SpecCountersFollowState == Spec => []CountersFollowState
<1> DEFINE Counted == TypeOK /\ CountersFollowState
<1>1. Init => Counted
  BY InitIInv, CountersInit DEF IInv
<1>2. Counted /\ [Next]_vars => Counted'
  BY TypeStep, CountersStep
<1> QED BY <1>1, <1>2, PTL DEF Spec

----------------------------------------------------------------------------
(* Calls of any length                                                     *)

\* While the circuit is open every call in progress is older than the opening.
OpenAdmitsNobody ==
  state = "open" => \A c \in InFlight : call[c].age >= openFor

AgesInv == IInv /\ OpenAdmitsNobody /\ IntrudersAreOld /\ ProbesAreSpaced

LEMMA InitAges == Init => AgesInv
BY InitIInv
DEF Init, AgesInv, OpenAdmitsNobody, IntrudersAreOld, ProbesAreSpaced, Probes, InFlight, NoCall

LEMMA Ages ==
  ASSUME TypeOK, NEW c \in Calls
  PROVE  call[c].age \in Nat /\ cooldown \in Nat /\ openFor \in Nat /\ Cooldown <= cooldown
BY BreakerAssumption DEF TypeOK, CallState

\* Whoever is in progress when a probe is admitted has been for a cooldown.
LEMMA ProbeComesLate ==
  ASSUME AgesInv, MayProbe, NEW c \in InFlight
  PROVE  call[c].age >= cooldown /\ call[c].age >= Cooldown
<1>1. state = "open" /\ openFor >= cooldown
  BY DEF MayProbe, AgesInv, IInv, HalfOpenIsProbed, CooldownElapsed
<1>2. call[c].age >= openFor
  BY <1>1 DEF AgesInv, OpenAdmitsNobody
<1>3. /\ call[c].age \in Nat /\ cooldown \in Nat /\ openFor \in Nat /\ Cooldown \in Nat
      /\ Cooldown <= cooldown
  BY Ages, BreakerAssumption DEF AgesInv, IInv, InFlight
<1> QED BY <1>1, <1>2, <1>3

LEMMA EndCalls ==
  ASSUME TypeOK, NEW c \in Calls, End(c)
  PROVE  /\ InFlight' = InFlight \ {c}
         /\ \A d \in InFlight' : call'[d] = call[d]
BY DEF End, InFlight, NoCall, TypeOK

LEMMA BeginCalls ==
  ASSUME TypeOK, NEW c \in Calls, NEW p \in BOOLEAN, Begin(c, p)
  PROVE  /\ InFlight' = InFlight \cup {c}
         /\ call'[c] = [pc |-> "in", age |-> 0, probing |-> p]
         /\ \A d \in Calls \ {c} : call'[d] = call[d]
<1>1. call'[c] = [pc |-> "in", age |-> 0, probing |-> p] BY DEF Begin, TypeOK
<1> QED BY <1>1 DEF Begin, InFlight, TypeOK

\* The end of a call, whatever its outcome.
LEMMA ExitAges ==
  ASSUME AgesInv, NEW c \in Calls, ExitFailed(c) \/ ExitOk(c)
  PROVE  OpenAdmitsNobody' /\ IntrudersAreOld' /\ ProbesAreSpaced'
<1>t. TypeOK BY DEF AgesInv, IInv
<1>1. End(c) BY DEF ExitFailed, ExitOk
<1>2. InFlight' = InFlight \ {c} /\ \A d \in InFlight' : call'[d] = call[d]
  BY <1>1, <1>t, EndCalls
<1>3. ProbesAreSpaced'
  <2>1. \A d \in Probes' : d \in Probes /\ call'[d] = call[d]
    BY <1>2 DEF Probes
  <2> QED BY <2>1 DEF AgesInv, ProbesAreSpaced
<1>4. state' # "half_open"
  BY DEF ExitFailed, ExitOk, Trip
<1>5. OpenAdmitsNobody'
  <2>1. CASE Trip
    <3>1. openFor' = 0 BY <2>1 DEF Trip
    <3>2. \A d \in InFlight' : call'[d].age \in Nat
      BY <1>t, <1>2, Ages DEF InFlight
    <3> QED BY <3>1, <3>2 DEF OpenAdmitsNobody
  <2>2. CASE UNCHANGED <<state, openFor>>
    BY <1>2, <2>2 DEF AgesInv, OpenAdmitsNobody
  <2>3. CASE state' = "closed"
    BY <2>3 DEF OpenAdmitsNobody
  <2> QED BY <2>1, <2>2, <2>3 DEF ExitFailed, ExitOk
<1> QED BY <1>3, <1>4, <1>5 DEF IntrudersAreOld

LEMMA NextAges ==
  ASSUME AgesInv, [Next]_vars
  PROVE  AgesInv'
<1>0. IInv' BY NextIInv DEF AgesInv
<1>t. TypeOK BY DEF AgesInv, IInv
<1> SUFFICES OpenAdmitsNobody' /\ IntrudersAreOld' /\ ProbesAreSpaced' BY <1>0 DEF AgesInv
<1>1. ASSUME NEW c \in Calls, EnterClosed(c)
      PROVE  OpenAdmitsNobody' /\ IntrudersAreOld' /\ ProbesAreSpaced'
  <2>1. Begin(c, FALSE) /\ state' = "closed" BY <1>1 DEF EnterClosed
  <2>2. \A d \in Probes' : d \in Probes /\ call'[d] = call[d]
    <3>0. /\ InFlight' = InFlight \cup {c} /\ call'[c] = [pc |-> "in", age |-> 0, probing |-> FALSE]
          /\ \A d \in Calls \ {c} : call'[d] = call[d]
      BY <1>t, <2>1, BeginCalls
    <3>1. c \notin Probes' BY <3>0 DEF Probes
    <3>2. \A d \in Probes' : d \in InFlight /\ d \in Calls \ {c}
      BY <3>0, <3>1 DEF Probes, InFlight
    <3> QED BY <3>0, <3>2 DEF Probes
  <2> QED BY <2>1, <2>2 DEF AgesInv, OpenAdmitsNobody, IntrudersAreOld, ProbesAreSpaced
<1>2. ASSUME NEW c \in Calls, EnterProbe(c)
      PROVE  OpenAdmitsNobody' /\ IntrudersAreOld' /\ ProbesAreSpaced'
  <2>1. /\ Begin(c, TRUE) /\ MayProbe /\ c \notin InFlight
        /\ state' = "half_open" /\ cooldown' = cooldown
    BY <1>2 DEF EnterProbe
  <2>2. /\ InFlight' = InFlight \cup {c} /\ c \in InFlight'
        /\ call'[c].age = 0 /\ call'[c].probing = TRUE
    <3>1. InFlight' = InFlight \cup {c} /\ call'[c] = [pc |-> "in", age |-> 0, probing |-> TRUE]
      BY <1>t, <2>1, BeginCalls
    <3> QED BY <3>1
  <2>3. ASSUME NEW d \in InFlight' \ {c}
        PROVE  /\ d \in InFlight /\ call'[d] = call[d]
               /\ call'[d].age >= 0 + cooldown /\ call'[d].age >= 0 + Cooldown
    <3>1. d \in InFlight /\ d \in Calls \ {c} BY <2>2 DEF InFlight
    <3>2. call'[d] = call[d] BY <1>t, <2>1, <3>1, BeginCalls
    <3>3. call[d].age >= cooldown /\ call[d].age >= Cooldown
      BY <2>1, <3>1, ProbeComesLate
    <3>4. call[d].age \in Nat /\ cooldown \in Nat /\ Cooldown \in Nat
      BY <1>t, <3>1, Ages, BreakerAssumption
    <3> QED BY <3>1, <3>2, <3>3, <3>4
  <2>4. c \in Probes' BY <2>2 DEF Probes
  <2>5. IntrudersAreOld'
    BY <2>1, <2>2, <2>3, <2>4 DEF IntrudersAreOld
  <2>6. ProbesAreSpaced'
    <3>1. ASSUME NEW d \in Probes', NEW e \in Probes', d # e
          PROVE  \/ call'[d].age >= call'[e].age + Cooldown
                 \/ call'[e].age >= call'[d].age + Cooldown
      <4>1. d \in InFlight' /\ e \in InFlight' BY DEF Probes
      <4>2. CASE d = c BY <2>2, <2>3, <3>1, <4>1, <4>2
      <4>3. CASE e = c BY <2>2, <2>3, <3>1, <4>1, <4>3
      <4>4. CASE d # c /\ e # c
        <5>1. /\ call'[d] = call[d] /\ call'[e] = call[e] /\ d \in Probes /\ e \in Probes
          BY <2>3, <4>1, <4>4 DEF Probes
        <5> QED BY <3>1, <5>1 DEF AgesInv, ProbesAreSpaced
      <4> QED BY <4>2, <4>3, <4>4
    <3> QED BY <3>1 DEF ProbesAreSpaced
  <2> QED BY <2>1, <2>5, <2>6 DEF OpenAdmitsNobody
<1>3. ASSUME NEW c \in Calls, ExitFailed(c) \/ ExitOk(c)
      PROVE  OpenAdmitsNobody' /\ IntrudersAreOld' /\ ProbesAreSpaced'
  BY <1>3, ExitAges
<1>4. CASE Tick
  <2>1. InFlight' = InFlight
        /\ \A c \in InFlight : /\ call'[c].probing = call[c].probing
                               /\ call'[c].age = call[c].age + 1
    BY <1>4, <1>t DEF Tick, InFlight, TypeOK, CallState
  <2>2. Probes' = Probes BY <2>1 DEF Probes
  <2>3. state' = state /\ cooldown' = cooldown BY <1>4 DEF Tick
  <2>4. \A c \in InFlight : call[c].age \in Nat
    BY <1>t, Ages DEF InFlight
  <2>5. cooldown \in Nat /\ Cooldown \in Nat
    BY <1>t, BreakerAssumption DEF TypeOK
  <2>6. OpenAdmitsNobody'
    <3>1. state = "open" => openFor' <= openFor + 1 /\ openFor \in Nat /\ openFor' \in Nat
      BY <1>4, <1>t, BreakerAssumption DEF Tick, Least, TypeOK
    <3> QED BY <2>1, <2>3, <2>4, <3>1 DEF AgesInv, OpenAdmitsNobody
  <2>7. IntrudersAreOld'
    <3>1. SUFFICES ASSUME state = "half_open" PROVE IntrudersAreOld'
      BY <2>3 DEF IntrudersAreOld
    <3>2. PICK p \in Probes : \A c \in InFlight \ {p} : call[c].age >= call[p].age + cooldown
      BY <3>1 DEF AgesInv, IntrudersAreOld
    <3>3. \A c \in InFlight \ {p} : call'[c].age >= call'[p].age + cooldown
      BY <2>1, <2>4, <2>5, <3>2 DEF Probes
    <3> QED BY <2>1, <2>2, <2>3, <3>2, <3>3 DEF IntrudersAreOld
  <2>8. ProbesAreSpaced'
    <3>1. \A c \in Probes : call'[c].age = call[c].age + 1 /\ call[c].age \in Nat
      BY <2>1, <2>4 DEF Probes
    <3> QED BY <2>2, <2>5, <3>1 DEF AgesInv, ProbesAreSpaced
  <2> QED BY <2>6, <2>7, <2>8
<1>5. CASE ServiceRecovers
  BY <1>5
  DEF ServiceRecovers, AgesInv, OpenAdmitsNobody, IntrudersAreOld, ProbesAreSpaced, Probes, InFlight
<1>6. CASE UNCHANGED vars
  BY <1>6 DEF vars, AgesInv, OpenAdmitsNobody, IntrudersAreOld, ProbesAreSpaced, Probes, InFlight
<1> QED BY <1>1, <1>2, <1>3, <1>4, <1>5, <1>6 DEF Next, Enter, Fails

LEMMA AgesAreInvariant == Spec => []AgesInv
<1>1. AgesInv /\ [Next]_vars => AgesInv' BY NextAges
<1> QED BY <1>1, InitAges, PTL DEF Spec

\* What calls of any length leave of FR-23.13: the probes that are under way entered a
\* cooldown apart.  When no call outlives the cooldown there is one.
THEOREM SpecProbesAreSpaced == Spec => []ProbesAreSpaced
<1>1. AgesInv => ProbesAreSpaced BY DEF AgesInv
<1> QED BY <1>1, AgesAreInvariant, PTL

\* Besides its probe only calls from before the opening can decide a half-open circuit.
THEOREM SpecIntrudersAreOld == Spec => []IntrudersAreOld
<1>1. AgesInv => IntrudersAreOld BY DEF AgesInv
<1> QED BY <1>1, AgesAreInvariant, PTL

-----------------------------------------------------------------------------
(* The guarded calls                                                       *)

\* What a step of the composition is to the semaphore.
LEMMA SemaphorePart ==
  ASSUME [Guarded!Next]_(Guarded!vars)
  PROVE  [Guarded!Semaphore!Next]_(Guarded!Semaphore!vars)
<1> DEFINE Stutter == UNCHANGED Guarded!Semaphore!vars
<1>0. UNCHANGED Guarded!semaphoreVars => Stutter
  BY DEF Guarded!semaphoreVars, Guarded!Semaphore!vars
<1>1. ASSUME NEW c \in GuardedCalls,
             \/ Guarded!Arrive(c) \/ Guarded!Resume(c) \/ Guarded!GiveUp(c)
             \/ Guarded!Refuse(c) \/ Guarded!Leave(c)
      PROVE  Guarded!Semaphore!Next
  BY <1>1
  DEF Guarded!Arrive, Guarded!Resume, Guarded!GiveUp, Guarded!Refuse, Guarded!Leave,
      Guarded!Semaphore!Next
<1>2. ASSUME NEW c \in GuardedCalls, Guarded!Enter(c)
      PROVE  Stutter
  BY <1>0, <1>2 DEF Guarded!Enter
<1>3. CASE Guarded!Tick \/ Guarded!ServiceRecovers
  BY <1>0, <1>3 DEF Guarded!Tick, Guarded!ServiceRecovers
<1>4. CASE UNCHANGED Guarded!vars
  BY <1>0, <1>4 DEF Guarded!vars
<1> QED BY <1>1, <1>2, <1>3, <1>4 DEF Guarded!Next

\* A call in the breaker is one that holds a permit.
CallsHoldPermits == Guarded!Breaker!InFlight \subseteq Guarded!Semaphore!Running

GuardedCall == [pc : {"out", "in"}, age : Nat, probing : BOOLEAN]

GuardedInv ==
  /\ gCall \in [GuardedCalls -> GuardedCall]
  /\ pc \in [GuardedCalls -> {"out", "queued", "running"}]
  /\ CallsHoldPermits

LEMMA GuardedInvInit == Guarded!Init => GuardedInv
BY DEF Guarded!Init, Guarded!Semaphore!Init, Guarded!Breaker!Init, Guarded!Breaker!NoCall,
       GuardedInv, GuardedCall, CallsHoldPermits, Guarded!Breaker!InFlight,
       Guarded!Semaphore!Running

\* A call that a step lets go of the breaker.
LEMMA EndsGuarded ==
  ASSUME GuardedInv, NEW c \in GuardedCalls, Guarded!Leave(c)
  PROVE  /\ c \in Guarded!Breaker!InFlight
         /\ gCall' = [gCall EXCEPT ![c] = Guarded!Breaker!NoCall]
         /\ c \notin Guarded!Breaker!InFlight'
<1>1. Guarded!Breaker!End(c)
  BY DEF Guarded!Leave, Guarded!Breaker!Fails, Guarded!Breaker!ExitFailed, Guarded!Breaker!ExitOk
<1> QED
  BY <1>1
  DEF Guarded!Breaker!End, GuardedInv, Guarded!Breaker!InFlight, Guarded!Breaker!NoCall

LEMMA GuardedInvStep ==
  ASSUME GuardedInv, [Guarded!Next]_(Guarded!vars)
  PROVE  GuardedInv'
<1> DEFINE In == Guarded!Breaker!InFlight
           Run == Guarded!Semaphore!Running
<1>0. /\ gCall \in [GuardedCalls -> GuardedCall]
      /\ pc \in [GuardedCalls -> {"out", "queued", "running"}]
      /\ In \subseteq Run
  BY DEF GuardedInv, CallsHoldPermits
<1>i. In = {c \in GuardedCalls : gCall[c].pc = "in"}
  BY DEF Guarded!Breaker!InFlight
<1>r. Run = {c \in GuardedCalls : pc[c] = "running"}
  BY DEF Guarded!Semaphore!Running
<1>1. ASSUME NEW c \in GuardedCalls,
             Guarded!Arrive(c) \/ Guarded!Resume(c) \/ Guarded!GiveUp(c)
      PROVE  GuardedInv'
  <2>1. gCall' = gCall
    BY <1>1 DEF Guarded!Arrive, Guarded!Resume, Guarded!GiveUp, Guarded!breakerVars
  <2>2. \/ pc' = [pc EXCEPT ![c] = "queued"] /\ pc[c] = "out"
        \/ pc' = [pc EXCEPT ![c] = "running"]
        \/ pc' = [pc EXCEPT ![c] = "out"] /\ pc[c] = "queued"
    BY <1>1
    DEF Guarded!Arrive, Guarded!Resume, Guarded!GiveUp, Guarded!Semaphore!StartAtOnce,
        Guarded!Semaphore!Enqueue, Guarded!Semaphore!Resume, Guarded!Semaphore!TimeOut,
        Guarded!Semaphore!Move
  <2>3. pc' \in [GuardedCalls -> {"out", "queued", "running"}] /\ Run \subseteq Run'
    BY <1>0, <2>2 DEF Guarded!Semaphore!Running
  <2>4. In' = In
    BY <2>1 DEF Guarded!Breaker!InFlight
  <2> QED BY <1>0, <2>1, <2>3, <2>4 DEF GuardedInv, CallsHoldPermits
<1>2. ASSUME NEW c \in GuardedCalls, Guarded!Enter(c)
      PROVE  GuardedInv'
  <2>1. pc' = pc /\ c \in Run
    BY <1>2 DEF Guarded!Enter, Guarded!Entering, Guarded!semaphoreVars
  <2>2. PICK probing \in BOOLEAN :
          gCall' = [gCall EXCEPT ![c] = [pc |-> "in", age |-> 0, probing |-> probing]]
    BY <1>2
    DEF Guarded!Enter, Guarded!Breaker!Enter, Guarded!Breaker!EnterClosed,
        Guarded!Breaker!EnterProbe, Guarded!Breaker!Begin
  <2>3. gCall' \in [GuardedCalls -> GuardedCall] /\ In' \subseteq In \cup {c}
    BY <1>0, <2>2 DEF GuardedCall, Guarded!Breaker!InFlight
  <2>4. Run' = Run
    BY <2>1 DEF Guarded!Semaphore!Running
  <2> QED BY <1>0, <2>1, <2>3, <2>4 DEF GuardedInv, CallsHoldPermits
<1>3. ASSUME NEW c \in GuardedCalls, Guarded!Semaphore!Finish(c)
      PROVE  /\ pc' \in [GuardedCalls -> {"out", "queued", "running"}]
             /\ Run \subseteq Run' \cup {c}
  BY <1>0, <1>3 DEF Guarded!Semaphore!Finish, Guarded!Semaphore!Move, Guarded!Semaphore!Running
<1>4. ASSUME NEW c \in GuardedCalls, Guarded!Refuse(c)
      PROVE  GuardedInv'
  <2>1. gCall' = gCall /\ c \notin In /\ Guarded!Semaphore!Finish(c)
    BY <1>4 DEF Guarded!Refuse, Guarded!Entering, Guarded!breakerVars
  <2>2. In' = In
    BY <2>1 DEF Guarded!Breaker!InFlight
  <2> QED BY <1>0, <1>3, <2>1, <2>2 DEF GuardedInv, CallsHoldPermits
<1>5. ASSUME NEW c \in GuardedCalls, Guarded!Leave(c)
      PROVE  GuardedInv'
  <2>1. Guarded!Semaphore!Finish(c)
    BY <1>5 DEF Guarded!Leave
  <2>2. gCall' = [gCall EXCEPT ![c] = Guarded!Breaker!NoCall]
    BY <1>5, EndsGuarded
  <2>3. gCall' \in [GuardedCalls -> GuardedCall] /\ In' \subseteq In \ {c}
    BY <1>0, <2>2 DEF GuardedCall, Guarded!Breaker!NoCall, Guarded!Breaker!InFlight
  <2> QED BY <1>0, <1>3, <2>1, <2>3 DEF GuardedInv, CallsHoldPermits
<1>6. CASE Guarded!Tick
  <2>1. pc' = pc /\ gCall' = [c \in GuardedCalls |->
          IF c \in In THEN [gCall[c] EXCEPT !.age = @ + 1] ELSE gCall[c]]
    BY <1>6 DEF Guarded!Tick, Guarded!Breaker!Tick, Guarded!semaphoreVars
  <2>2. \A c \in GuardedCalls : gCall'[c] \in GuardedCall /\ gCall'[c].pc = gCall[c].pc
    BY <1>0, <2>1 DEF GuardedCall
  <2>3. gCall' \in [GuardedCalls -> GuardedCall]
    BY <2>1, <2>2
  <2>4. In' = In
    BY <2>2 DEF Guarded!Breaker!InFlight
  <2>5. Run' = Run
    BY <2>1 DEF Guarded!Semaphore!Running
  <2> QED BY <1>0, <2>1, <2>3, <2>4, <2>5 DEF GuardedInv, CallsHoldPermits
<1>7. CASE Guarded!ServiceRecovers \/ UNCHANGED Guarded!vars
  <2>1. pc' = pc /\ gCall' = gCall
    BY <1>7
    DEF Guarded!ServiceRecovers, Guarded!Breaker!ServiceRecovers, Guarded!semaphoreVars,
        Guarded!breakerVars, Guarded!vars
  <2>2. In' = In /\ Run' = Run
    BY <2>1 DEF Guarded!Breaker!InFlight, Guarded!Semaphore!Running
  <2> QED BY <1>0, <2>1, <2>2 DEF GuardedInv, CallsHoldPermits
<1> QED BY <1>1, <1>2, <1>4, <1>5, <1>6, <1>7 DEF Guarded!Next

LEMMA GuardedIsInvariant == Guarded!Spec => []GuardedInv
BY GuardedInvInit, GuardedInvStep, PTL DEF Guarded!Spec

\* FR-28.11 where it counts: with the permits conserved (SpecPermitsAndQueue), no more
\* than MaxConcurrent calls are with the provider.
THEOREM SpecCallsHoldPermits == Guarded!Spec => []CallsHoldPermits
<1>1. GuardedInv => CallsHoldPermits
  BY DEF GuardedInv
<1> QED BY <1>1, GuardedIsInvariant, PTL

\* What QueuesProofs shows of a semaphore, for the one of the guarded calls; the admission
\* queue that it shows the rest about has no calls here.
Queues == INSTANCE QueuesProofs WITH
  SemaphoreCalls <- GuardedCalls, at <- pc, running <- active,
  Calls <- {}, Tiers <- {}, Concurrency <- 1, Backpressure <- 0, Drift <- 0,
  tier <- part, permits <- value, queue <- waiters, pc <- gCall

LEMMA NoOtherCalls == Queues!IsFiniteSet({})
<1>1. \A S : Queues!IsFiniteSet(S) <=> IsFiniteSet(S)
  BY DEF Queues!IsFiniteSet, IsFiniteSet
<1> QED BY <1>1, FS_EmptySet

LEMMA QueueInvInit ==
  ASSUME Guarded!Init
  PROVE  Queues!SemaphoreInv
<1>1. Queues!Semaphore!Init
  BY DEF Guarded!Init, Guarded!Semaphore!Init, Queues!Semaphore!Init
<1> QED BY <1>1, NoOtherCalls, PermitsAssumption, Queues!SemaphoreStart

\* It is the same semaphore.
LEMMA SameSemaphore ==
  ASSUME [Guarded!Semaphore!Next]_(Guarded!Semaphore!vars)
  PROVE  [Queues!Semaphore!Next]_(Queues!Semaphore!vars)
<1>1. /\ \A S : Guarded!Semaphore!Cardinality(S) = Queues!Semaphore!Cardinality(S)
      /\ \A q : Guarded!Semaphore!ToSet(q) = Queues!Semaphore!ToSet(q)
      /\ \A q, k : Guarded!Semaphore!RemoveAt(q, k) = Queues!Semaphore!RemoveAt(q, k)
  BY DEF Guarded!Semaphore!Cardinality, Queues!Semaphore!Cardinality,
         Guarded!Semaphore!ToSet, Queues!Semaphore!ToSet,
         Guarded!Semaphore!RemoveAt, Queues!Semaphore!RemoveAt
<1>2. \A limit, v, ws, gs : Guarded!Semaphore!WakeUpNext(limit, v, ws, gs)
        => Queues!Semaphore!WakeUpNext(limit, v, ws, gs)
  BY <1>1 DEF Guarded!Semaphore!WakeUpNext, Queues!Semaphore!WakeUpNext
<1>3. \A c, v : Guarded!Semaphore!Leave(c, v) => Queues!Semaphore!Leave(c, v)
  BY <1>1, <1>2 DEF Guarded!Semaphore!Leave, Queues!Semaphore!Leave
<1>4. ASSUME NEW c \in GuardedCalls,
             Guarded!Semaphore!StartAtOnce(c) \/ Guarded!Semaphore!Enqueue(c)
      PROVE  Queues!Semaphore!Next
  BY <1>4
  DEF Guarded!Semaphore!StartAtOnce, Guarded!Semaphore!Enqueue, Guarded!Semaphore!QueueFull,
      Guarded!Semaphore!Locked, Guarded!Semaphore!Move, Queues!Semaphore!StartAtOnce,
      Queues!Semaphore!Enqueue, Queues!Semaphore!QueueFull, Queues!Semaphore!Locked,
      Queues!Semaphore!Move, Queues!Semaphore!Next
<1>5. ASSUME NEW c \in GuardedCalls,
             \/ Guarded!Semaphore!Resume(c) \/ Guarded!Semaphore!TimeOut(c)
             \/ Guarded!Semaphore!Finish(c)
      PROVE  Queues!Semaphore!Next
  BY <1>2, <1>3, <1>5
  DEF Guarded!Semaphore!Resume, Guarded!Semaphore!TimeOut, Guarded!Semaphore!Finish,
      Guarded!Semaphore!Move, Queues!Semaphore!Resume, Queues!Semaphore!TimeOut,
      Queues!Semaphore!Finish, Queues!Semaphore!Move, Queues!Semaphore!Next
<1>6. CASE UNCHANGED Guarded!Semaphore!vars
  BY <1>6 DEF Guarded!Semaphore!vars, Queues!Semaphore!vars
<1> QED BY <1>4, <1>5, <1>6 DEF Guarded!Semaphore!Next

LEMMA QueueInvStep ==
  ASSUME Queues!SemaphoreInv, [Guarded!Next]_(Guarded!vars)
  PROVE  Queues!SemaphoreInv'
<1>1. [Queues!Semaphore!Next]_(Queues!Semaphore!vars)
  BY SemaphorePart, SameSemaphore
<1> QED BY <1>1, NoOtherCalls, PermitsAssumption, Queues!SemaphoreInvStep

\* No permit goes down with a call that the breaker refuses or the provider fails: whenever
\* no call is on its way from the one to the other, the free permits, those granted and the
\* calls in the breaker make MaxConcurrent, and no permit is free beside a sleeping queue.
THEOREM SpecPermitsAreUsed == Guarded!Spec => []PermitsAreUsed
<1>1. GuardedInv /\ Queues!SemaphoreInv => PermitsAreUsed
  <2> SUFFICES ASSUME GuardedInv, Queues!SemaphoreInv PROVE PermitsAreUsed
    OBVIOUS
  <2> DEFINE In == Guarded!Breaker!InFlight
             Run == Guarded!Semaphore!Running
  <2>1. \A S : Queues!Cardinality(S) = Guarded!Cardinality(S)
    BY DEF Queues!Cardinality, Guarded!Cardinality
  <2>2. /\ value + Queues!Cardinality(granted) + active = MaxConcurrent
        /\ active = Queues!Cardinality(Queues!Running)
        /\ value > 0 /\ waiters # << >> => granted # {}
    BY DEF Queues!SemaphoreInv, Queues!Semaphore!NoLostWakeUp
  <2>3. Queues!Running = Run
    BY DEF Queues!Running, Queues!Semaphore!Running, Guarded!Semaphore!Running
  <2>4. In \subseteq Run
    BY DEF GuardedInv, CallsHoldPermits
  <2>5. Guarded!Awaiting => In = Run
    BY <2>4 DEF Guarded!Awaiting, Guarded!Entering
  <2>6. Guarded!Awaiting =>
          value + Guarded!Cardinality(granted) + Guarded!Cardinality(In) = MaxConcurrent
    BY <2>1, <2>2, <2>3, <2>5
  <2> QED BY <2>2, <2>4, <2>6 DEF PermitsAreUsed, Guarded!PermitsAreUsed
<1>2. Guarded!Spec => []Queues!SemaphoreInv
  BY QueueInvInit, QueueInvStep, PTL DEF Guarded!Spec
<1> QED BY <1>1, <1>2, GuardedIsInvariant, PTL

\* llm_guard.py, "Queue-full/timeout from semaphore does NOT trip the breaker": for every
\* number of calls and any delays the circuit opens only as a call of the provider ends.
THEOREM SpecOnlyProviderCallsTrip == Guarded!Spec => OnlyProviderCallsTrip
<1> DEFINE Trips == gState # "open" /\ gState' = "open"
           Leaves == \E c \in Guarded!Breaker!InFlight : c \notin Guarded!Breaker!InFlight'
<1>1. GuardedInv /\ [Guarded!Next]_(Guarded!vars) => (Trips => Leaves)
  <2> SUFFICES ASSUME GuardedInv, [Guarded!Next]_(Guarded!vars), Trips
               PROVE  Leaves
    OBVIOUS
  <2>1. ASSUME NEW c \in GuardedCalls, Guarded!Leave(c)
        PROVE  Leaves
    BY <2>1, EndsGuarded
  <2>2. ASSUME NEW c \in GuardedCalls,
               \/ Guarded!Arrive(c) \/ Guarded!Resume(c) \/ Guarded!GiveUp(c)
               \/ Guarded!Refuse(c)
        PROVE  FALSE
    BY <2>2
    DEF Guarded!Arrive, Guarded!Resume, Guarded!GiveUp, Guarded!Refuse, Guarded!breakerVars
  <2>3. ASSUME NEW c \in GuardedCalls, Guarded!Enter(c)
        PROVE  FALSE
    BY <2>3
    DEF Guarded!Enter, Guarded!Breaker!Enter, Guarded!Breaker!EnterClosed,
        Guarded!Breaker!EnterProbe
  <2>4. ASSUME Guarded!Tick \/ Guarded!ServiceRecovers \/ UNCHANGED Guarded!vars
        PROVE  FALSE
    BY <2>4
    DEF Guarded!Tick, Guarded!Breaker!Tick, Guarded!ServiceRecovers,
        Guarded!Breaker!ServiceRecovers, Guarded!vars, Guarded!breakerVars
  <2> QED BY <2>1, <2>2, <2>3, <2>4 DEF Guarded!Next
<1> QED
  BY <1>1, GuardedIsInvariant, PTL
  DEF Guarded!Spec, OnlyProviderCallsTrip, Guarded!OnlyProviderCallsTrip

=============================================================================
