---------------------------- MODULE WorldsProofs ----------------------------
(* What MCPipeline checks of the parts of MCWorlds on small instances, for every   *)
(* value of the constants that the assumptions of MCWorlds allow.                  *)
EXTENDS MCWorlds, FiniteSetTheorems, SequenceTheorems, NaturalsInduction, WellFoundedInduction, TLAPS

-----------------------------------------------------------------------------
(* Numbers of steps                                                           *)

LEMMA LeastNumber ==
  ASSUME NEW S \in SUBSET Nat, S # {}
  PROVE  \E n \in S : \A m \in S : n <= m
<1>1. \E n \in S : \A m \in S : ~(<<m, n>> \in OpToRel(<, Nat))
  BY NatLessThanWellFounded, WFMin
<1>2. PICK n \in S : \A m \in S : ~(<<m, n>> \in OpToRel(<, Nat))
  BY <1>1
<1>3. \A m \in S : ~(m < n)
  BY <1>2 DEF OpToRel
<1> QED BY <1>3

\* Induction, for a set of numbers.
LEMMA Induction ==
  ASSUME NEW N \in Nat, NEW S, 0 \in S, \A n \in 1 .. N : n - 1 \in S => n \in S
  PROVE  0 .. N \subseteq S
<1> DEFINE missing == {n \in 0 .. N : n \notin S}
<1> SUFFICES ASSUME missing # {} PROVE FALSE
  OBVIOUS
<1>1. PICK n \in missing : \A k \in missing : n <= k
  <2>1. missing \in SUBSET Nat
    OBVIOUS
  <2> HIDE DEF missing
  <2> QED BY <2>1, LeastNumber
<1>2. n \in 1 .. N /\ n - 1 \in 0 .. N /\ ~(n <= n - 1)
  OBVIOUS
<1>3. n - 1 \notin missing
  BY <1>1, <1>2
<1> QED BY <1>2, <1>3

Iterates(f, step, base, N) == f[0] = base /\ \A n \in 1 .. N : f[n] = step[n][f[n - 1]]

\* What is made of its predecessor is there after any number of steps.
LEMMA IterationExists ==
  ASSUME NEW N \in Nat, NEW S, NEW base \in S, NEW step \in [1 .. N -> [S -> S]]
  PROVE  \E f \in [0 .. N -> S] : Iterates(f, step, base, N)
<1> DEFINE Made(m, f) ==
             f \in [0 .. m -> S] /\ f[0] = base /\ \A n \in 1 .. m : f[n] = step[n][f[n - 1]]
           made == {m \in 0 .. N : \E f : Made(m, f)}
<1>1. 0 \in made
  <2>1. Made(0, [i \in 0 .. 0 |-> base])
    OBVIOUS
  <2> HIDE DEF Made
  <2> QED BY <2>1
<1>2. ASSUME NEW m \in 1 .. N, m - 1 \in made
      PROVE  m \in made
  <2>1. PICK f : Made(m - 1, f)
    <3> HIDE DEF Made
    <3> QED BY <1>2
  <2> DEFINE g == [n \in 0 .. m |-> IF n = m THEN step[m][f[m - 1]] ELSE f[n]]
  <2>2. step[m][f[m - 1]] \in S
    BY <2>1
  <2>3. g \in [0 .. m -> S] /\ g[0] = base
    BY <2>1, <2>2
  <2>4. ASSUME NEW n \in 1 .. m PROVE g[n] = step[n][g[n - 1]]
    <3>1. CASE n = m
      BY <3>1
    <3>2. CASE n # m
      BY <2>1, <3>2
    <3> QED BY <3>1, <3>2
  <2>5. Made(m, g)
    <3> HIDE DEF g
    <3> QED BY <2>3, <2>4
  <2> HIDE DEF Made, g
  <2> QED BY <2>5
<1>3. PICK f : Made(N, f)
  <2>1. \A m \in 1 .. N : m - 1 \in made => m \in made
    BY <1>2
  <2>2. 0 .. N \subseteq made
    <3> HIDE DEF made
    <3> QED BY <1>1, <2>1, Induction
  <2>3. N \in made
    BY <2>2
  <2> HIDE DEF Made
  <2> QED BY <2>3
<1>4. f \in [0 .. N -> S] /\ Iterates(f, step, base, N)
  BY <1>3 DEF Iterates
<1> QED BY <1>4

-----------------------------------------------------------------------------
(* Relationships                                                              *)

Bond == {f \in [Relations!Dimensions -> Int] :
           \A d \in Relations!Dimensions : f[d] \in Relations!Low(d) .. AxisLimit}
Delta == [Relations!Dimensions -> Int]
Change == [npc : People \cup {Stranger}, delta : Delta]
Feeder ==
  {Relations!NoTask} \cup
    [pc : {"reading", "writing"}, changes : Seq(Change) \ {<<>>}, read : Bond \cup {None}]

RelationsType ==
  /\ bonds \in [People -> Bond \cup {None}]
  /\ mirrored \in [People \cup {Stranger} -> Bond \cup {None}]
  /\ feeding \in [Feeding -> Feeder]

\* The tasks between reading and writing of the relationship with a character.
Writing(n) == {t \in Feeding : feeding[t].pc = "writing" /\ Relations!Subject(t) = n}

\* Unless one was overrun, the two services agree, but for a task that has still to write
\* in the graph what it has read there, changed as the other service was.
AgreeingInv ==
  \A n \in People \ overrun :
    /\ Writing(n) = {} => bonds[n] = mirrored[n]
    /\ \A t \in Feeding : Writing(n) = {t} =>
         /\ feeding[t].read = bonds[n]
         /\ mirrored[n] = Relations!Applied(Relations!Known(bonds[n]), Head(feeding[t].changes).delta)

RelationsInv == RelationsType /\ AgreeingInv

LEMMA AppliedIsBond ==
  ASSUME NEW dims \in Bond, NEW delta \in Delta
  PROVE  Relations!Applied(dims, delta) \in Bond
<1>1. ASSUME NEW d \in Relations!Dimensions
      PROVE  /\ Relations!Applied(dims, delta)[d] \in Int
             /\ Relations!Applied(dims, delta)[d] \in Relations!Low(d) .. AxisLimit
  <2>1. dims[d] \in Int /\ delta[d] \in Int
    BY DEF Bond, Delta
  <2>2. AxisLimit \in Nat /\ ClampAt \in Nat
    BY RelationsAssumption
  <2>3. Relations!Low(d) \in Int /\ Relations!Low(d) <= AxisLimit
    BY <2>2 DEF Relations!Low
  <2>4. Relations!Within(delta[d], -ClampAt, ClampAt) \in Int
    BY <2>1, <2>2 DEF Relations!Within
  <2>5. \A x \in Int : Relations!Within(x, Relations!Low(d), AxisLimit) \in Relations!Low(d) .. AxisLimit
    BY <2>2, <2>3 DEF Relations!Within
  <2>6. Relations!Applied(dims, delta)[d] \in Relations!Low(d) .. AxisLimit
    BY <2>1, <2>4, <2>5 DEF Relations!Applied
  <2> QED BY <2>3, <2>6, <2>2
<1>2. Relations!Applied(dims, delta) = [d \in Relations!Dimensions |-> Relations!Applied(dims, delta)[d]]
  BY DEF Relations!Applied
<1> QED BY <1>1, <1>2 DEF Bond

LEMMA KnownIsBond ==
  ASSUME NEW dims \in Bond \cup {None}
  PROVE  Relations!Known(dims) \in Bond
<1>1. Relations!Neutral \in Bond
  BY RelationsAssumption DEF Relations!Neutral, Bond, Relations!Low
<1> QED BY <1>1 DEF Relations!Known

LEMMA DeltasAreTyped == Relations!Changes \subseteq Change
<1>1. Relations!Deltas \subseteq Delta
  <2> DEFINE D(on, sign) == [d \in Relations!Dimensions |-> IF d = "familiarity" THEN Familiar
                                                     ELSE IF d \in on THEN sign * AxisStep ELSE 0]
  <2>1. ASSUME NEW on, NEW sign \in {-1, 1}
        PROVE  D(on, sign) \in Delta
    <3>1. Familiar \in Int /\ sign * AxisStep \in Int
      BY RelationsAssumption
    <3> QED BY <3>1 DEF Delta
  <2>2. Relations!Deltas = {D(on, sign) : on \in {{a} : a \in Axes} \cup {Axes \ {Fearful}}, sign \in {-1, 1}}
    BY DEF Relations!Deltas
  <2> HIDE DEF D
  <2> QED BY <2>1, <2>2
<1> QED BY <1>1 DEF Relations!Changes, Change

LEMMA RelationsInit == Relations!Init => RelationsInv
<1> SUFFICES ASSUME Relations!Init PROVE RelationsInv
  OBVIOUS
<1>1. RelationsType
  BY DEF Relations!Init, RelationsType, Feeder
<1>2. \A n \in People : bonds[n] = mirrored[n]
  BY DEF Relations!Init
<1>3. \A n : Writing(n) = {}
  BY DEF Relations!Init, Writing, Relations!NoTask
<1> QED BY <1>1, <1>2, <1>3 DEF RelationsInv, AgreeingInv

\* What a task at work has, and what is left of it when its change is made or skipped.
LEMMA FeederHas ==
  ASSUME RelationsType, NEW t \in Feeding, feeding[t].pc # "idle"
  PROVE  /\ feeding[t].pc \in {"reading", "writing"}
         /\ feeding[t].changes \in Seq(Change) /\ feeding[t].changes # <<>>
         /\ Head(feeding[t].changes) \in Change
         /\ Relations!Subject(t) \in People \cup {Stranger}
         /\ feeding[t].read \in Bond \cup {None}
         /\ Relations!Rest(t) \in Feeder /\ Relations!Rest(t).pc # "writing"
<1>1. feeding[t] \in [pc : {"reading", "writing"}, changes : Seq(Change) \ {<<>>}, read : Bond \cup {None}]
  BY DEF RelationsType, Feeder, Relations!NoTask
<1>2. /\ feeding[t].changes \in Seq(Change) /\ feeding[t].changes # <<>>
      /\ Head(feeding[t].changes) \in Change /\ Tail(feeding[t].changes) \in Seq(Change)
  BY <1>1
<1>3. Relations!Rest(t) \in Feeder /\ Relations!Rest(t).pc # "writing"
  BY <1>2 DEF Relations!Rest, Relations!NoTask, Feeder
<1>4. Relations!Subject(t) \in People \cup {Stranger}
  BY <1>2 DEF Relations!Subject, Change
<1> QED BY <1>1, <1>2, <1>3, <1>4

LEMMA RelationsStep ==
  ASSUME RelationsInv, [Relations!Next]_(Relations!vars)
  PROVE  RelationsInv'
<1>0. /\ RelationsType /\ AgreeingInv
      /\ bonds \in [People -> Bond \cup {None}]
      /\ mirrored \in [People \cup {Stranger} -> Bond \cup {None}]
      /\ feeding \in [Feeding -> Feeder]
  BY DEF RelationsInv, RelationsType
<1>1. ASSUME NEW t \in Feeding, NEW n \in 1 .. MaxDeltas, NEW changes \in [1 .. n -> Relations!Changes],
             Relations!BeginChanges(t, changes)
      PROVE  RelationsInv'
  <2>1. changes \in Seq(Change) \ {<<>>}
    BY DeltasAreTyped
  <2>2. [pc |-> "reading", changes |-> changes, read |-> None] \in Feeder
    BY <2>1 DEF Feeder
  <2>3. feeding' \in [Feeding -> Feeder] /\ feeding'[t].pc = "reading" /\ feeding[t].pc = "idle"
    BY <1>0, <1>1, <2>2 DEF Relations!BeginChanges, Relations!NoTask
  <2>4. \A u \in Feeding \ {t} : feeding'[u] = feeding[u]
    BY <1>0, <1>1 DEF Relations!BeginChanges
  <2>5. \A m : Writing(m)' = Writing(m) /\ t \notin Writing(m)
    BY <2>3, <2>4 DEF Writing, Relations!Subject
  <2>6. RelationsType'
    BY <1>0, <1>1, <2>3 DEF Relations!BeginChanges, RelationsType
  <2>7. AgreeingInv'
    <3> SUFFICES ASSUME NEW m \in People \ overrun
                 PROVE  /\ Writing(m) = {} => bonds[m] = mirrored[m]
                        /\ \A u \in Feeding : Writing(m) = {u} =>
                             /\ feeding'[u].read = bonds[m]
                             /\ mirrored[m] = Relations!Applied(Relations!Known(bonds[m]),
                                                                Head(feeding'[u].changes).delta)
      BY <1>1, <2>5 DEF AgreeingInv, Relations!BeginChanges
    <3> QED BY <1>0, <2>4, <2>5 DEF AgreeingInv
  <2> QED BY <2>6, <2>7 DEF RelationsInv
<1>2. ASSUME NEW t \in Feeding, Relations!ReadRelationship(t)
      PROVE  RelationsInv'
  <2> DEFINE c == Head(feeding[t].changes)
             n == c.npc
             b == Relations!Applied(Relations!Known(mirrored[n]), c.delta)
             r == IF n \in People THEN bonds[n] ELSE None
  <2>1. /\ feeding[t].pc = "reading" /\ mirrored' = [mirrored EXCEPT ![n] = b]
        /\ feeding' = [feeding EXCEPT ![t].pc = "writing", ![t].read = r]
        /\ bonds' = bonds /\ overrun' = overrun
    BY <1>2 DEF Relations!ReadRelationship
  <2>2. /\ c \in Change /\ n \in People \cup {Stranger} /\ c.delta \in Delta
        /\ feeding[t] \in [pc : {"reading", "writing"}, changes : Seq(Change) \ {<<>>}, read : Bond \cup {None}]
    <3>1. feeding[t] \in [pc : {"reading", "writing"}, changes : Seq(Change) \ {<<>>}, read : Bond \cup {None}]
      BY <1>0, <2>1 DEF Feeder, Relations!NoTask
    <3> QED BY <1>0, <2>1, <3>1, FeederHas DEF Change
  <2>3. b \in Bond /\ r \in Bond \cup {None}
    BY <1>0, <2>2, AppliedIsBond, KnownIsBond
  <2>4. /\ feeding'[t] = [pc |-> "writing", changes |-> feeding[t].changes, read |-> r]
        /\ \A u \in Feeding \ {t} : feeding'[u] = feeding[u]
        /\ feeding' = [u \in Feeding |-> feeding'[u]]
    <3> HIDE DEF r
    <3> QED BY <1>0, <2>1, <2>2
  <2>5. feeding'[t] \in Feeder
    BY <2>2, <2>3, <2>4 DEF Feeder
  <2>6. RelationsType'
    <3>1. feeding' \in [Feeding -> Feeder]
      BY <1>0, <2>4, <2>5
    <3> HIDE DEF b, r, n, c
    <3>2. mirrored' \in [People \cup {Stranger} -> Bond \cup {None}]
      BY <1>0, <2>1, <2>2, <2>3
    <3> QED BY <1>0, <2>1, <3>1, <3>2 DEF RelationsType
  <2>7. \A m : /\ t \notin Writing(m)
               /\ Writing(m)' = IF m = n THEN Writing(m) \cup {t} ELSE Writing(m)
    <3>1. /\ feeding[t].pc # "writing" /\ feeding'[t].pc = "writing" /\ Relations!Subject(t)' = n
          /\ \A u \in Feeding \ {t} : Relations!Subject(u)' = Relations!Subject(u)
      <4>1. feeding'[t].pc = "writing" /\ feeding'[t].changes = feeding[t].changes /\ feeding[t].pc = "reading"
        <5> HIDE DEF r, b
        <5> QED BY <2>1, <2>4
      <4> HIDE DEF r, b
      <4> QED BY <2>4, <4>1 DEF Relations!Subject, n, c
    <3> HIDE DEF n, r, c, b
    <3>2. \A u \in Feeding \ {t} : feeding'[u].pc = feeding[u].pc
      BY <2>4
    <3>3. ASSUME NEW m
          PROVE  \A u \in Feeding : u \in Writing(m)' <=> u \in Writing(m) \/ (u = t /\ m = n)
      BY <3>1, <3>2 DEF Writing
    <3>4. \A m : t \notin Writing(m) /\ Writing(m) \subseteq Feeding /\ Writing(m)' \subseteq Feeding
      BY <3>1 DEF Writing
    <3> SUFFICES ASSUME NEW m
                 PROVE  Writing(m)' = IF m = n THEN Writing(m) \cup {t} ELSE Writing(m)
      BY <3>4
    <3>5. Writing(m) \subseteq Feeding /\ Writing(m)' \subseteq Feeding
      BY <3>4
    <3>6. \A u \in Feeding : u \in Writing(m)' <=> u \in Writing(m) \/ (u = t /\ m = n)
      BY <3>3
    <3> QED BY <3>5, <3>6
  <2>8. ASSUME NEW m \in People \ overrun
        PROVE  /\ Writing(m)' = {} => bonds[m] = mirrored'[m]
               /\ \A u \in Feeding : Writing(m)' = {u} =>
                    /\ feeding'[u].read = bonds[m]
                    /\ mirrored'[m] = Relations!Applied(Relations!Known(bonds[m]),
                                                        Head(feeding'[u].changes).delta)
    <3>1. CASE m = n
      <4>1. ASSUME NEW u \in Feeding, Writing(m)' = {u}
            PROVE  u = t /\ Writing(m) = {}
        BY <2>7, <3>1, <4>1
      <4>2. ASSUME Writing(m) = {}
            PROVE  r = bonds[m] /\ b = Relations!Applied(Relations!Known(bonds[m]), c.delta)
        BY <1>0, <2>8, <3>1, <4>2 DEF AgreeingInv
      <4>3. mirrored'[m] = b /\ feeding'[t].read = r /\ Head(feeding'[t].changes).delta = c.delta
        <5> HIDE DEF b, r
        <5> QED BY <1>0, <2>1, <2>2, <2>4, <3>1
      <4> HIDE DEF b, r, c, n
      <4> QED BY <2>7, <3>1, <4>1, <4>2, <4>3
    <3>2. CASE m # n
      <4>1. mirrored'[m] = mirrored[m]
        <5> HIDE DEF b, n
        <5> QED BY <1>0, <2>1, <2>2, <3>2
      <4>2. Writing(m)' = Writing(m) /\ t \notin Writing(m)
        BY <2>7, <3>2
      <4> HIDE DEF n, b, r, c
      <4> QED BY <1>0, <2>4, <2>8, <4>1, <4>2 DEF AgreeingInv
    <3> QED BY <3>1, <3>2
  <2>9. AgreeingInv'
    <3> HIDE DEF b, r, n, c
    <3>1. bonds' = bonds /\ overrun' = overrun
      BY <2>1
    <3> QED BY <2>8, <3>1 DEF AgreeingInv
  <2> QED BY <2>6, <2>9 DEF RelationsInv
\* A task gives up the change it was to write.
<1>3. ASSUME NEW t \in Feeding, feeding[t].pc = "writing", feeding' = [feeding EXCEPT ![t] = Relations!Rest(t)]
      PROVE  /\ feeding' \in [Feeding -> Feeder]
             /\ \A m : Writing(m)' = Writing(m) \ {t}
             /\ \A m : t \in Writing(m) <=> m = Relations!Subject(t)
             /\ \A u \in Feeding \ {t} : feeding'[u] = feeding[u]
  <2>1. Relations!Rest(t) \in Feeder /\ Relations!Rest(t).pc # "writing"
    BY <1>0, <1>3, FeederHas
  <2>2. feeding'[t] = Relations!Rest(t) /\ \A u \in Feeding \ {t} : feeding'[u] = feeding[u]
    BY <1>0, <1>3
  <2>3. feeding' \in [Feeding -> Feeder]
    BY <1>0, <1>3, <2>1
  <2>4. \A m : Writing(m)' = Writing(m) \ {t}
    BY <2>1, <2>2 DEF Writing, Relations!Subject
  <2> QED BY <1>3, <2>2, <2>3, <2>4 DEF Writing
<1>4. ASSUME NEW t \in Feeding, Relations!WriteRelationship(t)
      PROVE  RelationsInv'
  <2> DEFINE n == Relations!Subject(t)
             b == Relations!Applied(Relations!Known(feeding[t].read), Head(feeding[t].changes).delta)
  <2>1. /\ feeding[t].pc = "writing" /\ feeding' = [feeding EXCEPT ![t] = Relations!Rest(t)]
        /\ mirrored' = mirrored
        /\ n \in People => /\ bonds' = [bonds EXCEPT ![n] = b]
                           /\ overrun' = IF \E u \in Feeding \ {t} : u \in Writing(n)
                                         THEN overrun \cup {n} ELSE overrun
        /\ n \notin People => bonds' = bonds /\ overrun' = overrun
    BY <1>4 DEF Relations!WriteRelationship, Relations!Subject, Writing
  <2>2. /\ feeding' \in [Feeding -> Feeder]
        /\ \A m : Writing(m)' = Writing(m) \ {t}
        /\ \A m : t \in Writing(m) <=> m = n
        /\ \A u \in Feeding \ {t} : feeding'[u] = feeding[u]
    BY <1>3, <2>1
  <2>3. b \in Bond
    BY <1>0, <2>1, FeederHas, AppliedIsBond, KnownIsBond DEF Change
  <2> HIDE DEF b
  <2>4. RelationsType'
    <3>1. bonds' \in [People -> Bond \cup {None}]
      BY <1>0, <2>1, <2>3
    <3> QED BY <1>0, <2>1, <2>2, <3>1 DEF RelationsType
  <2>5. ASSUME NEW m \in People \ overrun'
        PROVE  /\ Writing(m)' = {} => bonds'[m] = mirrored[m]
               /\ \A u \in Feeding : Writing(m)' = {u} =>
                    /\ feeding'[u].read = bonds'[m]
                    /\ mirrored[m] = Relations!Applied(Relations!Known(bonds'[m]),
                                                       Head(feeding'[u].changes).delta)
    <3>1. CASE m = n
      <4>1. m \notin overrun /\ Writing(n) = {t} /\ bonds'[m] = b
        <5>1. ~\E u \in Feeding \ {t} : u \in Writing(n)
          BY <2>1, <2>5, <3>1
        <5>2. Writing(n) \subseteq Feeding
          BY DEF Writing
        <5> QED BY <1>0, <2>1, <2>2, <2>5, <3>1, <5>1, <5>2
      <4>2. mirrored[m] = b
        BY <1>0, <2>5, <3>1, <4>1 DEF AgreeingInv, b
      <4>3. Writing(m)' = {}
        BY <2>2, <3>1, <4>1
      <4> QED BY <4>1, <4>2, <4>3
    <3>2. CASE m # n
      <4>1. m \notin overrun /\ bonds'[m] = bonds[m] /\ Writing(m)' = Writing(m) /\ t \notin Writing(m)
        BY <1>0, <2>1, <2>2, <2>5, <3>2
      <4> HIDE DEF n
      <4> QED BY <1>0, <2>2, <2>5, <4>1 DEF AgreeingInv
    <3> QED BY <3>1, <3>2
  <2>6. AgreeingInv'
    BY <2>1, <2>5 DEF AgreeingInv
  <2> QED BY <2>4, <2>6 DEF RelationsInv
<1>5. ASSUME NEW t \in Feeding, Relations!ChangeSkipped(t)
      PROVE  RelationsInv'
  <2> DEFINE n == Relations!Subject(t)
  <2>1. /\ feeding[t].pc = "writing" /\ feeding' = [feeding EXCEPT ![t] = Relations!Rest(t)]
        /\ mirrored' = mirrored /\ bonds' = bonds /\ overrun' = overrun \cup ({n} \cap People)
    BY <1>5 DEF Relations!ChangeSkipped
  <2>2. /\ feeding' \in [Feeding -> Feeder]
        /\ \A m : Writing(m)' = Writing(m) \ {t}
        /\ \A m : t \in Writing(m) <=> m = n
        /\ \A u \in Feeding \ {t} : feeding'[u] = feeding[u]
    BY <1>3, <2>1
  <2>3. ASSUME NEW m \in People \ overrun'
        PROVE  m \notin overrun /\ Writing(m)' = Writing(m) /\ t \notin Writing(m)
    BY <2>1, <2>2, <2>3
  <2> HIDE DEF n
  <2>4. AgreeingInv'
    BY <1>0, <2>1, <2>2, <2>3 DEF AgreeingInv
  <2> QED BY <1>0, <2>1, <2>2, <2>4 DEF RelationsInv, RelationsType
<1>6. CASE Relations!CleanupSession
  <2>1. /\ feeding' = feeding /\ RelationsType'
        /\ \A n \in People : bonds'[n] = None /\ mirrored'[n] = None
    BY <1>0, <1>6 DEF Relations!CleanupSession, RelationsType
  <2>2. \A m \in People \ overrun' : Writing(m)' = {}
    BY <1>6, <2>1 DEF Relations!CleanupSession, Writing, Relations!Subject
  <2>3. AgreeingInv'
    BY <2>1, <2>2 DEF AgreeingInv
  <2> QED BY <2>1, <2>3 DEF RelationsInv
<1>7. CASE UNCHANGED Relations!vars
  BY <1>0, <1>7 DEF Relations!vars, RelationsInv, RelationsType, AgreeingInv, Writing, Relations!Subject
<1> QED
  BY <1>1, <1>2, <1>4, <1>5, <1>6, <1>7 DEF Relations!Next

LEMMA RelationsAreSound == RelationsInv => Relations!RelationshipsAgree
<1> SUFFICES ASSUME RelationsInv PROVE Relations!RelationshipsAgree
  OBVIOUS
<1>1. \A n \in People : bonds[n] # None =>
        \A d \in Relations!Dimensions : bonds[n][d] \in Relations!Low(d) .. AxisLimit
  BY DEF RelationsInv, RelationsType, Bond
<1>2. \A n \in People : ~Relations!Changing(n) => Writing(n) = {}
  BY DEF Relations!Changing, Writing
<1> QED BY <1>1, <1>2 DEF RelationsInv, AgreeingInv, Relations!RelationshipsAgree

-----------------------------------------------------------------------------
(* Clients of the API                                                         *)

Play == [by : Seq(Runs), latest : {"not created", "none", "processing", "done", "failed"}]
Client ==
  [pc : {"planned", "connecting", "thinking", "submitting", "listening", "rating", "over"},
   try : Nat, game : Runs \cup {None}, asked : Nat, told : SUBSET Nat, done : Nat, silent : Nat,
   sound : BOOLEAN]

ClientsType ==
  /\ plays \in [Runs -> Play]
  /\ clients \in [Runs -> Client]
  /\ outcomes \in [Runs -> [status : {"none", "complete", "error"}, told : Nat]]

Created(g) == plays[g].latest # "not created"
Asked(g) == plays[g].by

\* What a client has been told are turns of its own, in the game it plays, and what it listens
\* to is a later one.
ClientOk(kind, r, c, by, created, outcome) ==
  /\ c.pc \in {"planned", "connecting"} => c.game = None
  /\ c.pc \in {"thinking", "submitting", "listening", "rating"} => c.game # None
  /\ c.game = None => c.told = {}
  /\ c.game # None => created
  /\ \A n \in c.told : n \in 1 .. Len(by) /\ by[n] = r
  /\ c.pc \in {"listening", "rating"} =>
       c.asked \in 1 .. Len(by) /\ by[c.asked] = r /\ \A n \in c.told : n < c.asked
  /\ IsFiniteSet(c.told)
  /\ c.sound => Cardinality(c.told) = c.done
  /\ kind # "scenarios" => c.sound
  /\ kind # "sharing" => c.game \in {None, r}
  /\ outcome.status = "complete" => outcome.told = MinTurns
  /\ outcome.status # "none" => c.pc = "over"

ClientInv(kind, r) ==
  ClientOk(kind, r, clients[r], Asked(clients[r].game), Created(clients[r].game), outcomes[r])

\* Without a shared key every game is asked for turns by the one client only.
OwnGames == \A g \in Runs : \A n \in 1 .. Len(Asked(g)) : Asked(g)[n] = g

RulingInv(kind) ==
  /\ ruling.batch # "none" => \A r \in Runs : outcomes[r].status # "none"
  /\ Clients(kind)!PassIsPlayed

ClientsInv(kind) ==
  /\ ClientsType
  /\ \A r \in Runs : ClientInv(kind, r)
  /\ kind # "sharing" => OwnGames
  /\ RulingInv(kind)

LEMMA ClientBecomes ==
  ASSUME NEW kind, NEW r, NEW c, NEW g, NEW by, NEW created, NEW outcome,
         clients'[r] = c, c.game = g, outcomes'[r] = outcome,
         plays'[g].by = by, plays'[g].latest # "not created" <=> created,
         ClientOk(kind, r, c, by, created, outcome)
  PROVE  ClientInv(kind, r)'
<1>1. Asked(clients[r].game)' = by /\ (Created(clients[r].game)' <=> created)
  BY DEF Asked, Created
<1>2. ClientOk(kind, r, clients'[r], Asked(clients[r].game)', Created(clients[r].game)', outcomes'[r])
  BY <1>1 DEF ClientOk
<1> QED BY <1>2 DEF ClientInv

LEMMA ClientsInit ==
  ASSUME NEW kind \in ClientKinds, Clients(kind)!Init
  PROVE  ClientsInv(kind)
<1>0. /\ \A r \in Runs : /\ Len(plays[r].by) = 0
                         /\ clients[r].pc = "planned" /\ clients[r].game = None /\ clients[r].told = {}
                         /\ clients[r].done = 0 /\ clients[r].sound = TRUE
                         /\ outcomes[r].status = "none"
      /\ ruling.batch = "none"
  BY DEF Clients!Init, Clients!Game, Clients!Fresh, Clients!NoResult, Clients!Undecided
<1>1. ClientsType
  <2>1. [by |-> <<>>, latest |-> "not created"] \in Play
    BY DEF Play
  <2>2. Clients(kind)!Fresh("planned", 1) \in Client
    BY DEF Clients!Fresh, Client
  <2> QED BY <2>1, <2>2 DEF ClientsType, Clients!Init, Clients!Game, Clients!NoResult
<1>2. ASSUME NEW r \in Runs PROVE ClientInv(kind, r)
  BY <1>0, FS_EmptySet DEF ClientInv, ClientOk, Clients!Fresh
<1>3. OwnGames
  BY <1>0 DEF OwnGames, Asked
<1>4. RulingInv(kind)
  BY <1>0 DEF RulingInv, Clients!PassIsPlayed, Clients!WithStatus
<1> QED BY <1>1, <1>2, <1>3, <1>4 DEF ClientsInv

\* ApiClients counts as this module does.
LEMMA ClientCounts == \A kind, S : Clients(kind)!Cardinality(S) = Cardinality(S)
BY DEF Clients!Cardinality, Cardinality

\* A game goes on: it is there, and what was asked for before still was.
GoesOn(g) ==
  /\ plays'[g].latest # "not created"
  /\ Len(Asked(g)) <= Len(plays'[g].by)
  /\ \A n \in 1 .. Len(Asked(g)) : plays'[g].by[n] = Asked(g)[n]

\* A client that does nothing stays as it is while its game goes on.
LEMMA ClientStays ==
  ASSUME NEW kind \in ClientKinds, NEW r \in Runs, ClientsType, ClientsType', ClientInv(kind, r),
         clients'[r] = clients[r], outcomes'[r] = outcomes[r],
         clients[r].game # None => GoesOn(clients[r].game)
  PROVE  ClientInv(kind, r)'
<1> DEFINE g == clients[r].game
           told == clients[r].told
<1>1. ASSUME g = None PROVE ClientInv(kind, r)'
  BY <1>1 DEF ClientInv, ClientOk
<1>2. ASSUME g # None PROVE ClientInv(kind, r)'
  <2>0. g \in Runs /\ plays[g] \in Play /\ plays'[g] \in Play
    BY <1>2 DEF ClientsType, Client
  <2>1. /\ Len(Asked(g)) <= Len(plays'[g].by)
        /\ \A n \in 1 .. Len(Asked(g)) : plays'[g].by[n] = plays[g].by[n]
        /\ plays'[g].latest # "not created"
    BY <1>2 DEF GoesOn, Asked
  <2>2. Len(Asked(g)) \in Nat /\ Len(plays'[g].by) \in Nat
    <3>1. plays[g].by \in Seq(Runs) /\ plays'[g].by \in Seq(Runs)
      BY <2>0 DEF Play
    <3> QED BY <3>1, SMTT(20) DEF Asked
  <2>3. 1 .. Len(Asked(g)) \subseteq 1 .. Len(plays'[g].by)
    <3>1. \A a, b \in Nat : a <= b => 1 .. a \subseteq 1 .. b
      OBVIOUS
    <3> HIDE DEF g
    <3> QED BY <2>1, <2>2, <3>1
  <2>4. ClientOk(kind, r, clients[r], Asked(g), Created(g), outcomes[r])
    BY DEF ClientInv
  <2>5. ClientOk(kind, r, clients[r], plays'[g].by, TRUE, outcomes[r])
    <3> HIDE DEF g
    <3>1. \A n \in 1 .. Len(Asked(g)) : n \in 1 .. Len(plays'[g].by) /\ plays'[g].by[n] = Asked(g)[n]
      BY <2>1, <2>3 DEF Asked
    <3> QED BY <2>4, <3>1 DEF ClientOk
  <2> QED BY <2>1, <2>5 DEF ClientInv, Asked, Created
<1> QED BY <1>1, <1>2

\* A client acts, and nothing else has to be shown than what becomes of it.
LEMMA ClientActs ==
  ASSUME NEW kind \in ClientKinds, NEW r \in Runs, ClientsInv(kind), clients[r].pc # "over",
         ClientsType', ClientInv(kind, r)', ruling' = ruling, kind # "sharing" => OwnGames',
         \A s \in Runs \ {r} : /\ clients'[s] = clients[s] /\ outcomes'[s] = outcomes[s]
                               /\ clients[s].game # None => GoesOn(clients[s].game)
  PROVE  ClientsInv(kind)'
<1>1. \A s \in Runs : ClientInv(kind, s)'
  BY ClientStays DEF ClientsInv
<1>2. ruling.batch = "none"
  BY DEF ClientsInv, RulingInv, ClientInv, ClientOk
<1>3. RulingInv(kind)'
  BY <1>1, <1>2 DEF RulingInv, Clients!PassIsPlayed, Clients!WithStatus, ClientInv, ClientOk
<1> QED BY <1>1, <1>3 DEF ClientsInv

\* And if the games stay as they are, only the client itself.
LEMMA ClientChanges ==
  ASSUME NEW kind \in ClientKinds, NEW r \in Runs, ClientsInv(kind), clients[r].pc # "over",
         NEW c \in Client, clients' = [clients EXCEPT ![r] = c],
         outcomes' = outcomes \/ \E n \in Nat, s \in {"complete", "error"} :
           outcomes' = [outcomes EXCEPT ![r] = [status |-> s, told |-> n]],
         UNCHANGED <<plays, ruling>>,
         ClientInv(kind, r)'
  PROVE  ClientsInv(kind)'
<1>1. ClientsType /\ (kind # "sharing" => OwnGames)
  BY DEF ClientsInv
<1>2. /\ outcomes' \in [Runs -> [status : {"none", "complete", "error"}, told : Nat]]
      /\ \A s \in Runs \ {r} : outcomes'[s] = outcomes[s]
  BY <1>1 DEF ClientsType
<1>3. ClientsType' /\ \A s \in Runs \ {r} : clients'[s] = clients[s]
  BY <1>1, <1>2 DEF ClientsType
<1>4. ASSUME NEW s \in Runs, clients[s].game # None PROVE GoesOn(clients[s].game)
  <2>1. clients[s].game \in Runs /\ Created(clients[s].game)
    BY <1>1, <1>4 DEF ClientsInv, ClientInv, ClientOk, ClientsType, Client
  <2>2. plays[clients[s].game].by \in Seq(Runs)
    BY <1>1, <2>1 DEF ClientsType, Play
  <2>3. Len(plays[clients[s].game].by) \in Nat
    BY <2>2
  <2>4. plays' = plays /\ \A a \in Nat : a <= a
    OBVIOUS
  <2> QED BY <2>1, <2>3, <2>4 DEF GoesOn, Created, Asked
<1>5. kind # "sharing" => OwnGames'
  BY <1>1 DEF OwnGames, Asked
<1> QED BY <1>2, <1>3, <1>4, <1>5, ClientActs

\* A session ends in an error, or goes on or begins anew without having heard anything.
LEMMA ClientGivesUp ==
  ASSUME NEW kind \in ClientKinds, NEW r \in Runs, ClientsInv(kind), clients[r].pc # "over",
         UNCHANGED <<plays, ruling>>
  PROVE  /\ Clients(kind)!Settle(r, "error") => ClientsInv(kind)'
         /\ Clients(kind)!Raise(r) => ClientsInv(kind)'
         /\ clients[r].pc \in Clients(kind)!Playing /\ Clients(kind)!CountTimeout(r)
              => ClientsInv(kind)'
         /\ kind = "scenarios" /\ clients[r].pc \in Clients(kind)!Playing /\ Clients(kind)!BadTurn(r)
              => ClientsInv(kind)'
<1>0. /\ ClientsType /\ clients[r] \in Client /\ ClientInv(kind, r) /\ outcomes[r].status = "none"
      /\ Clients(kind)!Playing = {"thinking", "submitting", "listening", "rating"}
  BY DEF ClientsInv, ClientsType, ClientInv, ClientOk, Clients!Playing, Clients!Busy
<1>1. ASSUME Clients(kind)!Settle(r, "error") PROVE ClientsInv(kind)'
  <2> DEFINE c == [clients[r] EXCEPT !.pc = "over"]
             n == Cardinality(clients[r].told)
  <2>1. clients' = [clients EXCEPT ![r] = c] /\ outcomes' = [outcomes EXCEPT ![r] = [status |-> "error", told |-> n]]
    BY <1>1, ClientCounts DEF Clients!Settle, Clients!Goto
  <2>2. c \in Client /\ n \in Nat
    BY <1>0, FS_CardinalityType DEF Client, ClientInv, ClientOk
  <2>3. /\ clients'[r] = c /\ outcomes'[r].status = "error"
    BY <1>0, <2>1 DEF ClientsType
  <2>4. /\ c.pc = "over" /\ c.game = clients[r].game /\ c.told = clients[r].told /\ c.done = clients[r].done
        /\ c.sound = clients[r].sound
    BY <1>0 DEF Client
  <2> HIDE DEF c, n
  <2>5. ClientInv(kind, r)'
    BY <1>0, <2>3, <2>4 DEF ClientInv, ClientOk, Created, Asked
  <2> QED BY <2>1, <2>2, <2>5, ClientChanges
<1>2. ASSUME NEW try \in Nat, clients' = [clients EXCEPT ![r] = Clients(kind)!Fresh("connecting", try)], UNCHANGED outcomes
      PROVE  ClientsInv(kind)'
  <2> DEFINE c == Clients(kind)!Fresh("connecting", try)
  <2>1. c \in Client
    BY DEF Clients!Fresh, Client
  <2>2. clients'[r] = c
    BY <1>0, <1>2 DEF ClientsType
  <2>3. c.pc = "connecting" /\ c.game = None /\ c.told = {} /\ c.done = 0 /\ c.sound = TRUE
    BY DEF Clients!Fresh
  <2> HIDE DEF c
  <2>4. ClientInv(kind, r)'
    BY <1>0, <1>2, <2>2, <2>3, FS_EmptySet DEF ClientInv, ClientOk
  <2> QED BY <1>2, <2>1, <2>4, ClientChanges DEF c
<1>3. ASSUME Clients(kind)!Raise(r) PROVE ClientsInv(kind)'
  <2>1. clients[r].try + 1 \in Nat
    BY <1>0 DEF Client
  <2> QED BY <1>1, <1>2, <1>3, <2>1 DEF Clients!Raise
\* On to the next turn: what counts the turns may change, and the session may not be sound now.
<1>4. ASSUME NEW done \in Nat, NEW silent \in Nat, NEW sound \in BOOLEAN,
             sound => clients[r].sound /\ done = clients[r].done, kind # "scenarios" => sound = clients[r].sound,
             clients[r].pc \in Clients(kind)!Playing,
             clients' = [clients EXCEPT ![r] = [clients[r] EXCEPT !.pc = "thinking", !.done = done,
                                                                  !.silent = silent, !.sound = sound]],
             UNCHANGED outcomes
      PROVE  ClientsInv(kind)'
  <2> DEFINE c == [clients[r] EXCEPT !.pc = "thinking", !.done = done, !.silent = silent, !.sound = sound]
  <2>1. c \in Client
    BY <1>0 DEF Client
  <2>2. clients'[r] = c
    BY <1>0, <1>4 DEF ClientsType
  <2>3. c.pc = "thinking" /\ c.game = clients[r].game /\ c.told = clients[r].told /\ c.done = done /\ c.sound = sound
    BY <1>0 DEF Client
  <2> HIDE DEF c
  <2>4. ClientInv(kind, r)'
    <3>1. clients'[r] = c /\ plays' = plays /\ outcomes' = outcomes
      BY <1>4, <2>2
    <3>2. /\ ClientOk(kind, r, clients[r], Asked(c.game), Created(c.game), outcomes[r])
          /\ clients[r].game # None
      BY <1>0, <1>4, <2>3 DEF ClientInv, ClientOk, Clients!Playing
    <3>3. ClientOk(kind, r, c, Asked(c.game), Created(c.game), outcomes[r])
      BY <1>4, <2>3, <3>2 DEF ClientOk, Clients!Playing
    <3> QED BY <3>1, <3>3 DEF ClientInv, Created, Asked
  <2> QED BY <1>4, <2>1, <2>4, ClientChanges DEF c
<1>5. ASSUME clients[r].pc \in Clients(kind)!Playing, Clients(kind)!CountTimeout(r)
      PROVE  ClientsInv(kind)'
  <2> DEFINE n == clients[r].silent + 1
  <2>1. n \in Nat /\ clients[r].done \in Nat /\ clients[r].sound \in BOOLEAN
    BY <1>0 DEF Client
  <2>2. CASE n < MaxTimeouts
    <3>1. clients' = [clients EXCEPT ![r] = [clients[r] EXCEPT !.pc = "thinking", !.silent = n]] /\ UNCHANGED outcomes
      BY <1>5, <2>2 DEF Clients!CountTimeout
    <3>2. [clients[r] EXCEPT !.pc = "thinking", !.silent = n]
            = [clients[r] EXCEPT !.pc = "thinking", !.done = clients[r].done, !.silent = n, !.sound = clients[r].sound]
      BY <1>0 DEF Client
    <3> HIDE DEF n
    <3> QED BY <1>4, <1>5, <2>1, <3>1, <3>2
  <2>3. CASE ~(n < MaxTimeouts)
    BY <1>3, <1>5, <2>3 DEF Clients!CountTimeout
  <2> QED BY <2>2, <2>3
<1>6. ASSUME kind = "scenarios", clients[r].pc \in Clients(kind)!Playing, Clients(kind)!BadTurn(r)
      PROVE  ClientsInv(kind)'
  <2>1. clients[r].done + 1 \in Nat /\ clients[r].silent \in Nat
    BY <1>0 DEF Client
  <2>2. CASE clients[r].done + 1 < MinTurns
    <3>1. clients' = [clients EXCEPT ![r] = [clients[r] EXCEPT !.pc = "thinking", !.done = clients[r].done + 1, !.sound = FALSE]]
          /\ UNCHANGED outcomes
      BY <1>6, <2>2 DEF Clients!BadTurn
    <3>2. [clients[r] EXCEPT !.pc = "thinking", !.done = clients[r].done + 1, !.sound = FALSE]
            = [clients[r] EXCEPT !.pc = "thinking", !.done = clients[r].done + 1, !.silent = clients[r].silent, !.sound = FALSE]
      BY <1>0 DEF Client
    <3> QED BY <1>4, <1>6, <2>1, <3>1, <3>2
  <2>3. CASE ~(clients[r].done + 1 < MinTurns)
    BY <1>1, <1>6, <2>3 DEF Clients!BadTurn
  <2> QED BY <2>2, <2>3
<1> QED BY <1>1, <1>3, <1>5, <1>6

LEMMA ClientsStep ==
  ASSUME NEW kind \in ClientKinds, ClientsInv(kind), [Clients(kind)!Next]_(Clients(kind)!vars)
  PROVE  ClientsInv(kind)'
<1>0. /\ ClientsType /\ (kind # "sharing" => OwnGames) /\ RulingInv(kind)
      /\ \A r \in Runs : /\ clients[r] \in Client /\ plays[r] \in Play /\ ClientInv(kind, r)
                         /\ plays[r].by \in Seq(Runs) /\ Len(plays[r].by) \in Nat
  <2>1. ClientsType /\ \A r \in Runs : clients[r] \in Client /\ plays[r] \in Play /\ ClientInv(kind, r)
    BY DEF ClientsInv, ClientsType
  <2>2. \A r \in Runs : plays[r].by \in Seq(Runs)
    BY <2>1 DEF Play
  <2> QED BY <2>1, <2>2 DEF ClientsInv
\* The client comes to another place in its loop.
<1>1. ASSUME NEW r \in Runs, NEW pc, clients' = [clients EXCEPT ![r].pc = pc], UNCHANGED <<plays, outcomes, ruling>>,
             \/ clients[r].pc = "planned" /\ pc = "connecting"
             \/ clients[r].pc = "thinking" /\ pc = "submitting"
      PROVE  ClientsInv(kind)'
  <2> DEFINE c == [clients[r] EXCEPT !.pc = pc]
  <2>1. c \in Client
    BY <1>0, <1>1 DEF Client
  <2>2. clients' = [clients EXCEPT ![r] = c] /\ clients'[r] = c
    BY <1>0, <1>1 DEF ClientsType
  <2>3. c.pc = pc /\ c.game = clients[r].game /\ c.told = clients[r].told /\ c.done = clients[r].done
        /\ c.sound = clients[r].sound
    BY <1>0 DEF Client
  <2> HIDE DEF c
  <2>4. /\ outcomes'[r].status = "none" /\ pc \in {"connecting", "submitting"}
        /\ pc = "connecting" => clients[r].game = None
        /\ pc = "submitting" => clients[r].game # None
    BY <1>0, <1>1 DEF ClientInv, ClientOk
  <2>5. plays' = plays
    BY <1>1
  <2>6. ClientInv(kind, r)'
    <3>1. ClientOk(kind, r, c, Asked(clients[r].game), Created(clients[r].game), outcomes'[r])
      BY <1>0, <2>3, <2>4 DEF ClientInv, ClientOk
    <3>2. plays'[clients[r].game].by = Asked(clients[r].game)
          /\ (plays'[clients[r].game].latest # "not created" <=> Created(clients[r].game))
      BY <2>5 DEF Asked, Created
    <3> QED BY <2>2, <2>3, <3>1, <3>2, ClientBecomes
  <2> QED BY <1>1, <2>1, <2>2, <2>6, ClientChanges
<1>2. ASSUME NEW r \in Runs, Clients(kind)!Begin(r) \/ Clients(kind)!Think(r)
      PROVE  ClientsInv(kind)'
  <2>1. CASE Clients(kind)!Begin(r)
    BY <1>1, <2>1 DEF Clients!Begin, Clients!Goto, Clients!At
  <2>2. CASE Clients(kind)!Think(r)
    BY <1>1, <2>2 DEF Clients!Think, Clients!Goto, Clients!At
  <2> QED BY <1>2, <2>1, <2>2
\* Where it begins or goes on: what it got so far does not count.
<1>3. ASSUME NEW r \in Runs, NEW g \in Runs, clients[r].pc = "connecting",
             kind # "sharing" => g = r, plays'[g].latest # "not created",
             clients' = [clients EXCEPT ![r].pc = "thinking", ![r].game = g], UNCHANGED <<outcomes, ruling>>
      PROVE  ClientInv(kind, r)' /\ clients' \in [Runs -> Client] /\ \A s \in Runs \ {r} : clients'[s] = clients[s]
  <2> DEFINE c == [clients[r] EXCEPT !.pc = "thinking", !.game = g]
  <2>1. c \in Client
    BY <1>0 DEF Client
  <2>2. clients' = [clients EXCEPT ![r] = c] /\ clients'[r] = c
    BY <1>0, <1>3 DEF ClientsType
  <2>3. c.pc = "thinking" /\ c.game = g /\ c.told = clients[r].told /\ c.done = clients[r].done
        /\ c.sound = clients[r].sound
    BY <1>0 DEF Client
  <2> HIDE DEF c
  <2>4. clients[r].told = {} /\ outcomes'[r].status = "none" /\ g # None
    BY <1>0, <1>3, ClientsAssumption DEF ClientInv, ClientOk
  <2>5. /\ Cardinality(clients[r].told) = clients[r].done \/ ~clients[r].sound
        /\ kind # "scenarios" => clients[r].sound
    BY <1>0 DEF ClientInv, ClientOk
  <2>6. ClientInv(kind, r)'
    BY <1>3, <2>2, <2>3, <2>4, <2>5, FS_EmptySet DEF ClientInv, ClientOk, Created
  <2> QED BY <1>0, <2>1, <2>2, <2>6 DEF ClientsType
<1>4. ASSUME NEW r \in Runs, Clients(kind)!CreateGame(r)
      PROVE  ClientsInv(kind)'
  <2>1. /\ clients[r].pc = "connecting"
        /\ clients' = [clients EXCEPT ![r].pc = "thinking", ![r].game = r]
        /\ plays' = [plays EXCEPT ![r] = [by |-> <<>>, latest |-> "none"]]
        /\ UNCHANGED <<outcomes, ruling>>
        /\ kind = "sharing" => \A g \in Runs : ~Created(g)
    BY <1>4 DEF Clients!CreateGame, Clients!At, Clients!Game, Clients!Created, Created
  <2>2. /\ plays' \in [Runs -> Play] /\ plays'[r].latest = "none" /\ plays'[r].by = <<>>
        /\ \A g \in Runs \ {r} : plays'[g] = plays[g]
    <3>1. [by |-> <<>>, latest |-> "none"] \in Play
      BY DEF Play
    <3> QED BY <1>0, <2>1, <3>1 DEF ClientsType
  <2>3. ClientInv(kind, r)' /\ clients' \in [Runs -> Client] /\ \A s \in Runs \ {r} : clients'[s] = clients[s]
    BY <1>3, <2>1, <2>2
  <2>4. ASSUME NEW s \in Runs \ {r}, clients[s].game # None PROVE GoesOn(clients[s].game)
    <3>1. clients[s].game \in Runs /\ clients[s].game # r /\ Created(clients[s].game)
      BY <1>0, <2>1, <2>4 DEF ClientInv, ClientOk, Client
    <3>2. \A a \in Nat : a <= a
      OBVIOUS
    <3> QED BY <1>0, <2>2, <3>1, <3>2 DEF GoesOn, Created, Asked
  <2>5. kind # "sharing" => OwnGames'
    <3>1. Len(<<>>) = 0
      OBVIOUS
    <3> QED BY <1>0, <2>2, <3>1 DEF OwnGames, Asked
  <2>6. ClientsType'
    BY <1>0, <2>1, <2>2, <2>3 DEF ClientsType
  <2> QED BY <2>1, <2>3, <2>4, <2>5, <2>6, ClientActs
<1>5. ASSUME NEW r \in Runs, Clients(kind)!ReuseGame(r)
      PROVE  ClientsInv(kind)'
  <2>1. PICK g \in Runs : /\ Created(g) /\ kind = "sharing" /\ clients[r].pc = "connecting"
                          /\ clients' = [clients EXCEPT ![r].pc = "thinking", ![r].game = g]
                          /\ UNCHANGED <<plays, outcomes, ruling>>
    BY <1>5 DEF Clients!ReuseGame, Clients!At, Clients!Created, Created
  <2>2. ClientInv(kind, r)'
    BY <1>3, <2>1 DEF Created
  <2>3. [clients[r] EXCEPT !.pc = "thinking", !.game = g] \in Client
    BY <1>0 DEF Client
  <2>4. clients' = [clients EXCEPT ![r] = [clients[r] EXCEPT !.pc = "thinking", !.game = g]]
    BY <2>1
  <2> QED BY <2>1, <2>2, <2>3, <2>4, ClientChanges
<1>6. ASSUME NEW r \in Runs, Clients(kind)!ConnectFails(r) \/ Clients(kind)!ModelFails(r)
      PROVE  ClientsInv(kind)'
  <2>1. Clients(kind)!Raise(r) /\ clients[r].pc # "over" /\ UNCHANGED <<plays, ruling>>
    BY <1>6 DEF Clients!ConnectFails, Clients!ModelFails, Clients!At
  <2> QED BY <2>1, ClientGivesUp
<1>7. ASSUME NEW r \in Runs, clients[r].pc \in {"submitting", "listening"}, Clients(kind)!Fails(r),
             UNCHANGED <<plays, ruling>>
      PROVE  ClientsInv(kind)'
  <2>1. clients[r].pc \in Clients(kind)!Playing /\ clients[r].pc # "over"
    BY <1>7 DEF Clients!Playing, Clients!Busy
  <2>2. CASE kind = "scenarios"
    <3>1. Clients(kind)!BadTurn(r)
      BY <1>7, <2>2 DEF Clients!Fails
    <3> QED BY <1>7, <2>1, <2>2, <3>1, ClientGivesUp
  <2>3. CASE kind # "scenarios"
    <3>1. Clients(kind)!Raise(r)
      BY <1>7, <2>3 DEF Clients!Fails
    <3> QED BY <1>7, <2>1, <3>1, ClientGivesUp
  <2> QED BY <2>2, <2>3
<1>8. ASSUME NEW r \in Runs, Clients(kind)!Rejected(r) \/ Clients(kind)!HearFailure(r)
      PROVE  ClientsInv(kind)'
  <2>1. CASE Clients(kind)!Rejected(r)
    BY <1>7, <2>1 DEF Clients!Rejected, Clients!At
  <2>2. CASE Clients(kind)!HearFailure(r)
    BY <1>7, <2>2 DEF Clients!HearFailure, Clients!At
  <2> QED BY <1>8, <2>1, <2>2
<1>9. ASSUME NEW r \in Runs, Clients(kind)!TimeOut(r)
      PROVE  ClientsInv(kind)'
  <2>1. UNCHANGED <<plays, ruling>> /\ Clients(kind)!Playing = {"thinking", "submitting", "listening", "rating"}
    BY <1>9 DEF Clients!TimeOut, Clients!Playing, Clients!Busy
  <2>2. CASE kind = "scenarios"
    <3>1. clients[r].pc = "listening" /\ Clients(kind)!BadTurn(r)
      BY <1>9, <2>2 DEF Clients!TimeOut, Clients!At
    <3> QED BY <2>1, <2>2, <3>1, ClientGivesUp
  <2>3. CASE kind # "scenarios"
    <3>1. clients[r].pc \in Clients(kind)!Playing /\ Clients(kind)!CountTimeout(r)
      BY <1>9, <2>3 DEF Clients!TimeOut, Clients!At
    <3>2. clients[r].pc # "over"
      BY <2>1, <3>1
    <3> QED BY <2>1, <3>1, <3>2, ClientGivesUp
  <2> QED BY <2>2, <2>3
\* A game goes on: the client that asks for a turn listens from now on.
<1>10. ASSUME NEW g \in Runs, NEW by \in Seq(Runs), NEW latest \in {"processing", "done", "failed"},
              Created(g), by = Asked(g) \/ \E r \in Runs : by = Append(Asked(g), r),
              plays' = [plays EXCEPT ![g] = [by |-> by, latest |-> latest]]
       PROVE  plays' \in [Runs -> Play] /\ \A h \in Runs : Created(h) => GoesOn(h)
  <2>1. [by |-> by, latest |-> latest] \in Play
    BY DEF Play
  <2>2. plays'[g] = [by |-> by, latest |-> latest] /\ \A h \in Runs \ {g} : plays'[h] = plays[h]
    BY <1>0, <1>10 DEF ClientsType
  <2>3. \A a \in Nat : a <= a
    OBVIOUS
  <2>4. Len(Asked(g)) <= Len(by) /\ \A n \in 1 .. Len(Asked(g)) : by[n] = Asked(g)[n]
    <3>1. Asked(g) \in Seq(Runs)
      BY <1>0 DEF ClientsType, Play, Asked
    <3> DEFINE old == Asked(g)
    <3>2. Len(old) <= Len(old) /\ \A r \in Runs : Len(old) <= Len(Append(old, r))
                              /\ \A n \in 1 .. Len(old) : Append(old, r)[n] = old[n]
      <4> HIDE DEF old
      <4> QED BY <3>1
    <3> QED BY <1>10, <3>2
  <2>5. \A h \in Runs \ {g} : Created(h) => GoesOn(h)
    BY <1>0, <2>2, <2>3 DEF GoesOn, Created, Asked
  <2>6. GoesOn(g)
    <3>1. plays'[g].by = by /\ plays'[g].latest = latest
      BY <2>2
    <3>2. latest # "not created"
      OBVIOUS
    <3> QED BY <2>4, <3>2, <3>1 DEF GoesOn
  <2>7. plays' \in [Runs -> Play]
    BY <1>0, <1>10, <2>1 DEF ClientsType
  <2> QED BY <2>5, <2>6, <2>7
<1>11. ASSUME NEW r \in Runs, Clients(kind)!Submit(r)
       PROVE  ClientsInv(kind)'
  <2> DEFINE g == clients[r].game
             n == Len(plays[g].by) + 1
             c == [clients[r] EXCEPT !.pc = "listening", !.asked = n]
             by == Append(plays[g].by, r)
  <2>1. /\ clients[r].pc = "submitting"
        /\ plays' = [plays EXCEPT ![g] = [by |-> by, latest |-> "processing"]]
        /\ clients' = [clients EXCEPT ![r] = c]
        /\ UNCHANGED <<outcomes, ruling>>
    BY <1>11 DEF Clients!Submit, Clients!At
  <2>2. g \in Runs /\ Created(g) /\ outcomes[r].status = "none" /\ (kind # "sharing" => g = r)
    BY <1>0, <2>1 DEF ClientInv, ClientOk, Client
  <2>3. by \in Seq(Runs) /\ n \in Nat /\ Len(by) = n /\ by[n] = r
        /\ \A m \in 1 .. Len(plays[g].by) : m < n /\ m \in 1 .. n /\ by[m] = plays[g].by[m]
    BY <1>0, <2>2
  <2>4. plays' \in [Runs -> Play] /\ \A h \in Runs : Created(h) => GoesOn(h)
    <3> HIDE DEF g
    <3> QED BY <1>10, <2>1, <2>2, <2>3 DEF Asked
  <2>5. plays'[g].by = by /\ plays'[g].latest = "processing" /\ \A h \in Runs \ {g} : plays'[h] = plays[h]
    BY <1>0, <2>1, <2>2 DEF ClientsType
  <2>6. c \in Client
    BY <1>0, <2>3, ZenonT(20) DEF Client
  <2>7. /\ clients' \in [Runs -> Client] /\ clients'[r] = c
        /\ \A s \in Runs \ {r} : clients'[s] = clients[s]
    BY <1>0, <2>1, <2>6 DEF ClientsType
  <2>8. c.pc = "listening" /\ c.game = g /\ c.told = clients[r].told /\ c.done = clients[r].done
        /\ c.sound = clients[r].sound /\ c.asked = n
    BY <1>0 DEF Client
  <2>9. ClientInv(kind, r)'
    <3>1. /\ \A m \in clients[r].told : m \in 1 .. Len(plays[g].by) /\ plays[g].by[m] = r
          /\ IsFiniteSet(clients[r].told) /\ (clients[r].sound => Cardinality(clients[r].told) = clients[r].done)
          /\ kind # "scenarios" => clients[r].sound
      BY <1>0 DEF ClientInv, ClientOk, Asked
    <3>2. \A m \in clients[r].told : m < n /\ m \in 1 .. n /\ by[m] = r
      BY <2>3, <3>1
    <3>3. n \in 1 .. n /\ g # None /\ outcomes'[r].status = "none"
      BY <2>1, <2>2, <2>3, ClientsAssumption
    <3> HIDE DEF c, by, n, g
    <3>4. ClientOk(kind, r, c, by, TRUE, outcomes'[r])
      BY <2>2, <2>3, <2>8, <3>1, <3>2, <3>3 DEF ClientOk
    <3>5. plays'[g].by = by /\ (plays'[g].latest # "not created" <=> TRUE)
      BY <2>5
    <3> QED BY <2>7, <2>8, <3>4, <3>5, ClientBecomes
  <2>10. kind # "sharing" => OwnGames'
    <3> SUFFICES ASSUME kind # "sharing", NEW h \in Runs, NEW m \in 1 .. Len(plays'[h].by)
                 PROVE  plays'[h].by[m] = h
      BY DEF OwnGames, Asked
    <3>1. CASE h # g
      BY <1>0, <2>5, <3>1 DEF OwnGames, Asked
    <3>2. CASE h = g
      <4>1. g = r /\ plays'[h].by = by /\ m \in 1 .. n
        BY <2>2, <2>3, <2>5, <3>2
      <4>2. \A k \in 1 .. Len(plays[g].by) : plays[g].by[k] = g
        BY <1>0, <2>2 DEF OwnGames, Asked
      <4>3. m = n \/ m \in 1 .. Len(plays[g].by)
        BY <1>0, <2>2, <4>1
      <4> QED BY <2>3, <3>2, <4>1, <4>2, <4>3
    <3> QED BY <3>1, <3>2
  <2>11. ClientsType' /\ ruling' = ruling
    BY <1>0, <2>1, <2>4, <2>7 DEF ClientsType
  <2>12. \A s \in Runs \ {r} : /\ clients'[s] = clients[s] /\ outcomes'[s] = outcomes[s]
                               /\ clients[s].game # None => GoesOn(clients[s].game)
    <3>1. \A s \in Runs : clients[s].game # None => clients[s].game \in Runs /\ Created(clients[s].game)
      BY <1>0 DEF ClientInv, ClientOk, Client
    <3> QED BY <2>1, <2>4, <2>7, <3>1
  <2> QED BY <2>1, <2>9, <2>10, <2>11, <2>12, ClientActs
<1>12. ASSUME NEW r \in Runs, Clients(kind)!Hear(r)
       PROVE  ClientsInv(kind)'
  <2> DEFINE g == clients[r].game
             n == Len(plays[g].by)
             c == [clients[r] EXCEPT !.pc = "rating", !.asked = n]
  <2>1. /\ clients[r].pc = "listening" /\ clients' = [clients EXCEPT ![r] = c]
        /\ kind = "scenarios" \/ clients[r].asked = n
        /\ UNCHANGED <<plays, outcomes, ruling>>
    BY <1>12 DEF Clients!Hear, Clients!At, Clients!Meant, Clients!IsAsked
  <2>2. g \in Runs /\ Created(g) /\ n \in Nat /\ (kind # "sharing" => g = r)
        /\ clients[r].asked \in 1 .. n /\ plays[g].by[clients[r].asked] = r
        /\ \A m \in clients[r].told : m < clients[r].asked /\ m \in 1 .. n /\ plays[g].by[m] = r
    BY <1>0, <2>1 DEF ClientInv, ClientOk, Client, Asked
  <2>3. n \in 1 .. n /\ plays[g].by[n] = r /\ \A m \in clients[r].told : m < n
    <3>1. n \in 1 .. n /\ \A m \in clients[r].told : m < n
      BY <2>2
    <3>2. CASE clients[r].asked = n
      BY <2>2, <3>1, <3>2
    <3>3. CASE kind = "scenarios"
      BY <1>0, <2>2, <3>1, <3>3 DEF OwnGames, Asked
    <3> QED BY <2>1, <3>1, <3>2, <3>3
  <2>4. c \in Client /\ clients'[r] = c
    <3>1. clients[r] \in Client /\ clients'[r] = c
      BY <1>0, <2>1 DEF ClientsType
    <3>2. c \in Client
      BY <2>2, <3>1 DEF Client
    <3> QED BY <3>1, <3>2
  <2>5. c.pc = "rating" /\ c.game = g /\ c.told = clients[r].told /\ c.done = clients[r].done
        /\ c.sound = clients[r].sound /\ c.asked = n
    BY <1>0 DEF Client
  <2>6. plays' = plays /\ outcomes' = outcomes
    BY <2>1
  <2>7. ClientInv(kind, r)'
    <3>1. ClientOk(kind, r, clients[r], plays[g].by, Created(g), outcomes[r])
      BY <1>0 DEF ClientInv, Asked
    <3>2. plays'[g].by = plays[g].by /\ (plays'[g].latest # "not created" <=> Created(g))
      BY <2>6 DEF Created
    <3>3. outcomes[r].status = "none" /\ g # None /\ c.game = g
      BY <2>1, <2>2, <2>5, <3>1, ClientsAssumption DEF ClientOk
    <3> HIDE DEF c, g
    <3>4. ClientOk(kind, r, c, plays[g].by, Created(g), outcomes'[r])
      BY <2>2, <2>3, <2>5, <2>6, <3>1, <3>3 DEF ClientOk, n
    <3> QED BY <2>4, <3>2, <3>3, <3>4, ClientBecomes
  <2> QED BY <2>1, <2>4, <2>7, ClientChanges
<1>13. ASSUME NEW r \in Runs, Clients(kind)!Rate(r)
       PROVE  ClientsInv(kind)'
  <2> DEFINE done == clients[r].done + 1
             told == clients[r].told \cup {clients[r].asked}
             over == done = MinTurns
             c == [clients[r] EXCEPT !.pc = IF over THEN "over" ELSE "thinking",
                                     !.told = told, !.done = done, !.silent = 0]
             how == IF clients[r].sound THEN "complete" ELSE "error"
  <2>1. /\ clients[r].pc = "rating" /\ clients' = [clients EXCEPT ![r] = c]
        /\ IF over THEN outcomes' = [outcomes EXCEPT ![r] = [status |-> how, told |-> Cardinality(told)]]
                   ELSE outcomes' = outcomes
        /\ UNCHANGED <<plays, ruling>>
    BY <1>13, ClientCounts DEF Clients!Rate, Clients!At
  <2>2. /\ clients[r].asked \in Nat /\ clients[r].asked \notin clients[r].told
        /\ clients[r].told \subseteq Nat /\ IsFiniteSet(clients[r].told) /\ clients[r].done \in Nat
        /\ outcomes[r].status = "none"
    BY <1>0, <2>1 DEF ClientInv, ClientOk, Client
  <2>3. /\ IsFiniteSet(told) /\ Cardinality(told) = Cardinality(clients[r].told) + 1
        /\ Cardinality(told) \in Nat /\ told \in SUBSET Nat /\ done \in Nat
    <3>1. IsFiniteSet(told) /\ Cardinality(told) = Cardinality(clients[r].told) + 1
      BY <2>2, FS_AddElement
    <3> QED BY <2>2, <3>1, FS_CardinalityType
  <2>4. c \in Client /\ clients'[r] = c
    <3>1. clients[r] \in Client /\ clients'[r] = c
      BY <1>0, <2>1 DEF ClientsType
    <3>2. c \in Client
      BY <2>3, <3>1 DEF Client
    <3> QED BY <3>1, <3>2
  <2>5. c.pc = (IF over THEN "over" ELSE "thinking") /\ c.game = clients[r].game /\ c.told = told
        /\ c.done = done /\ c.sound = clients[r].sound
    BY <1>0 DEF Client
  <2>6. IF over THEN outcomes'[r] = [status |-> how, told |-> Cardinality(told)] ELSE outcomes'[r].status = "none"
    BY <1>0, <2>1, <2>2 DEF ClientsType
  <2>7. \A m \in told : m \in 1 .. Len(Asked(clients[r].game)) /\ Asked(clients[r].game)[m] = r
    BY <1>0, <2>1 DEF ClientInv, ClientOk
  <2>8. clients[r].sound => Cardinality(told) = done
    BY <1>0, <2>3 DEF ClientInv, ClientOk
  <2>9. (over /\ how = "complete") => Cardinality(told) = MinTurns
    BY <2>8
  <2>10. ClientInv(kind, r)'
    <3> DEFINE g == clients[r].game
    <3>1. /\ plays'[g].by = plays[g].by /\ (plays'[g].latest # "not created" <=> Created(g))
          /\ ClientOk(kind, r, clients[r], plays[g].by, Created(g), outcomes[r])
      BY <1>0, <2>1 DEF ClientInv, Created, Asked
    <3>2. \A m \in told : m \in 1 .. Len(plays[g].by) /\ plays[g].by[m] = r
      BY <2>7 DEF Asked
    <3>3. CASE over
      <4>1. c.pc = "over" /\ outcomes'[r].status = how /\ outcomes'[r].told = Cardinality(told)
        BY <2>5, <2>6, <3>3
      <4>2. c.game = g
        BY <2>5
      <4> HIDE DEF c, how, told, done, g
      <4>3. ClientOk(kind, r, c, plays[g].by, Created(g), outcomes'[r])
        BY <2>1, <2>3, <2>5, <2>8, <2>9, <3>1, <3>2, <3>3, <4>1 DEF ClientOk, g
      <4> QED BY <2>4, <3>1, <4>2, <4>3, ClientBecomes
    <3>4. CASE ~over
      <4>1. c.pc = "thinking" /\ outcomes'[r].status = "none"
        BY <2>5, <2>6, <3>4
      <4>2. c.game = g
        BY <2>5
      <4> HIDE DEF c, how, told, done, over, g
      <4>3. ClientOk(kind, r, c, plays[g].by, Created(g), outcomes'[r])
        BY <2>1, <2>3, <2>5, <2>8, <3>1, <3>2, <4>1 DEF ClientOk, g
      <4> QED BY <2>4, <3>1, <4>2, <4>3, ClientBecomes
    <3> QED BY <3>3, <3>4
  <2>11. outcomes' = outcomes \/ \E m \in Nat, s \in {"complete", "error"} :
           outcomes' = [outcomes EXCEPT ![r] = [status |-> s, told |-> m]]
    <3>1. how \in {"complete", "error"}
      OBVIOUS
    <3> HIDE DEF how, told, done
    <3> QED BY <2>1, <2>3, <3>1
  <2> HIDE DEF c, told, done, how
  <2> QED BY <2>1, <2>4, <2>10, <2>11, ClientChanges
<1>14. ASSUME NEW g \in Runs, Clients(kind)!EndTurn(g)
       PROVE  ClientsInv(kind)'
  <2>1. PICK latest \in {"done", "failed"} :
          /\ plays' = [plays EXCEPT ![g] = [plays[g] EXCEPT !.latest = latest]]
          /\ plays[g].latest = "processing" /\ UNCHANGED <<clients, outcomes, ruling>>
    BY <1>14 DEF Clients!EndTurn
  <2>2. [plays[g] EXCEPT !.latest = latest] = [by |-> Asked(g), latest |-> latest]
    <3> DEFINE play == plays[g]
    <3>1. play = [by |-> play.by, latest |-> play.latest]
      BY <1>0 DEF Play
    <3> HIDE DEF play
    <3>2. [play EXCEPT !.latest = latest] = [by |-> play.by, latest |-> latest]
      BY <3>1
    <3> QED BY <3>2 DEF Asked, play
  <2>3. plays' \in [Runs -> Play] /\ \A h \in Runs : Created(h) => GoesOn(h)
    BY <1>0, <1>10, <2>1, <2>2 DEF Created, Asked
  <2>4. \A h \in Runs : plays'[h].by = plays[h].by
    BY <1>0, <2>1, <2>2 DEF ClientsType, Asked
  <2>5. ClientsType'
    BY <1>0, <2>1, <2>3 DEF ClientsType
  <2>6. \A r \in Runs : ClientInv(kind, r)'
    <3>1. \A r \in Runs : clients[r].game # None => GoesOn(clients[r].game)
      BY <1>0, <2>3 DEF ClientInv, ClientOk, Client
    <3> QED BY <1>0, <2>1, <2>5, <3>1, ClientStays
  <2>7. kind # "sharing" => OwnGames'
    BY <1>0, <2>4 DEF OwnGames, Asked
  <2>8. RulingInv(kind)'
    BY <1>0, <2>1 DEF RulingInv, Clients!PassIsPlayed, Clients!WithStatus
  <2> QED BY <2>5, <2>6, <2>7, <2>8 DEF ClientsInv
<1>15. ASSUME NEW r \in Runs, Clients(kind)!RequestFails(r)
       PROVE  ClientsInv(kind)'
  <2>1. /\ clients' = [s \in Runs |-> [clients[s] EXCEPT !.pc = "over"]]
        /\ ruling' = [batch |-> "none", exit |-> 1] /\ UNCHANGED <<plays, outcomes>>
    BY <1>15 DEF Clients!RequestFails
  <2>2. ASSUME NEW s \in Runs PROVE clients'[s] \in Client /\ ClientInv(kind, s)'
    <3>1. clients'[s] = [clients[s] EXCEPT !.pc = "over"]
      BY <2>1
    <3>2. /\ clients'[s] \in Client /\ clients'[s].pc = "over" /\ clients'[s].game = clients[s].game
          /\ clients'[s].told = clients[s].told /\ clients'[s].done = clients[s].done
          /\ clients'[s].sound = clients[s].sound
      BY <1>0, <3>1 DEF Client
    <3>3. ClientOk(kind, s, clients'[s], Asked(clients[s].game), Created(clients[s].game), outcomes'[s])
      BY <1>0, <2>1, <3>2 DEF ClientInv, ClientOk
    <3>4. plays'[clients[s].game].by = Asked(clients[s].game)
          /\ (plays'[clients[s].game].latest # "not created" <=> Created(clients[s].game))
      BY <2>1 DEF Asked, Created
    <3> QED BY <3>2, <3>3, <3>4, ClientBecomes
  <2>3. ClientsType'
    BY <1>0, <2>1, <2>2 DEF ClientsType
  <2>4. kind # "sharing" => OwnGames'
    BY <1>0, <2>1 DEF OwnGames, Asked
  <2>5. RulingInv(kind)'
    BY <2>1, <2>2 DEF RulingInv, Clients!PassIsPlayed, Clients!WithStatus, ClientInv, ClientOk
  <2> QED BY <2>2, <2>3, <2>4, <2>5 DEF ClientsInv
\* The batch, or the simulation, is judged: whoever is not in error is complete.
<1>16. ASSUME Clients(kind)!WithStatus("none") = {}, UNCHANGED <<plays, clients, outcomes>>,
              ruling'.batch = "pass" => \E r \in Runs : outcomes[r].status = "complete",
              ruling'.batch = "pass" /\ ruling'.exit = 0
                => 4 * Cardinality(Clients(kind)!WithStatus("error")) <= Cardinality(Runs)
       PROVE  ClientsInv(kind)'
  <2> DEFINE E == Clients(kind)!WithStatus("error")
             D == Clients(kind)!WithStatus("complete")
  <2>1. /\ \A r \in Runs : outcomes[r].status # "none"
        /\ E \cup D = Runs /\ E \cap D = {} /\ E \subseteq Runs /\ D \subseteq Runs
    BY <1>0, <1>16 DEF Clients!WithStatus, ClientsType
  <2> HIDE DEF E, D
  <2>2. /\ IsFiniteSet(E) /\ IsFiniteSet(D) /\ Cardinality(E) \in Nat /\ Cardinality(D) \in Nat
        /\ Cardinality(E) + Cardinality(D) = Cardinality(Runs)
    <3>1. IsFiniteSet(E) /\ IsFiniteSet(D)
      BY <2>1, FS_Subset, ClientsAssumption
    <3>2. Cardinality(E) \in Nat /\ Cardinality(D) \in Nat /\ Cardinality(E \cap D) = 0
      BY <2>1, <3>1, FS_CardinalityType, FS_EmptySet
    <3>3. Cardinality(E \cup D) = Cardinality(E) + Cardinality(D) - Cardinality(E \cap D)
      BY <3>1, FS_Union
    <3>4. Cardinality(Runs) = Cardinality(E) + Cardinality(D) - Cardinality(E \cap D)
      BY <2>1, <3>3
    <3> HIDE <3>3
    <3> QED BY <3>1, <3>2, <3>4
  <2>3. ruling'.batch = "pass" /\ ruling'.exit = 0
          => 4 * Clients(kind)!Cardinality(D) >= 3 * Clients(kind)!Cardinality(Runs)
    <3>1. 4 * Cardinality(E) <= Cardinality(Runs) => 4 * Cardinality(D) >= 3 * Cardinality(Runs)
      BY <2>2
    <3> QED BY <1>16, <3>1, ClientCounts DEF E
  <2>4. \A r \in Runs : outcomes[r].status = "complete" => outcomes[r].told = MinTurns
    BY <1>0 DEF ClientInv, ClientOk
  <2>5. RulingInv(kind)'
    BY <1>16, <2>1, <2>3, <2>4 DEF RulingInv, Clients!PassIsPlayed, Clients!WithStatus, D
  <2>6. ClientsType' /\ (kind # "sharing" => OwnGames') /\ \A r \in Runs : ClientInv(kind, r)'
    BY <1>0, <1>16 DEF ClientsType, OwnGames, ClientInv, Created, Asked
  <2> QED BY <2>5, <2>6 DEF ClientsInv
<1>17. CASE Clients(kind)!DecideBatch
  <2>1. PICK failing \in SUBSET Runs, bad \in BOOLEAN :
          LET batch == Clients(kind)!BatchVerdict(failing, bad)
          IN  ruling' = [batch |-> batch, exit |-> Clients(kind)!ExitCode(batch)]
    BY <1>17 DEF Clients!DecideBatch
  <2>2. ruling'.batch = "pass" => \E r \in Runs : outcomes[r].status = "complete"
    BY <2>1 DEF Clients!BatchVerdict, Clients!WithStatus
  <2>3. ruling'.exit = 0 => ~(4 * Cardinality(Clients(kind)!WithStatus("error")) > Cardinality(Runs))
    BY <2>1, ClientCounts DEF Clients!ExitCode
  <2>4. Cardinality(Clients(kind)!WithStatus("error")) \in Nat /\ Cardinality(Runs) \in Nat
    BY ClientsAssumption, FS_Subset, FS_CardinalityType DEF Clients!WithStatus
  <2>5. Clients(kind)!WithStatus("none") = {} /\ UNCHANGED <<plays, clients, outcomes>>
    BY <1>17 DEF Clients!DecideBatch
  <2>6. ruling'.exit = 0 => 4 * Cardinality(Clients(kind)!WithStatus("error")) <= Cardinality(Runs)
    BY <2>3, <2>4
  <2> QED BY <1>16, <2>2, <2>5, <2>6
<1>18. CASE Clients(kind)!DecideScenarios
  <2>1. /\ Clients(kind)!WithStatus("none") = {} /\ UNCHANGED <<plays, clients, outcomes>>
        /\ ruling'.batch = "pass" => Clients(kind)!WithStatus("error") = {}
    BY <1>18 DEF Clients!DecideScenarios
  <2>2. ASSUME ruling'.batch = "pass"
        PROVE  /\ \E r \in Runs : outcomes[r].status = "complete"
               /\ 4 * Cardinality(Clients(kind)!WithStatus("error")) <= Cardinality(Runs)
    <3>1. \A r \in Runs : outcomes[r].status = "complete"
      BY <1>0, <2>1, <2>2 DEF Clients!WithStatus, ClientsType
    <3>2. Cardinality(Clients(kind)!WithStatus("error")) = 0 /\ Cardinality(Runs) \in Nat
      BY <2>1, <2>2, ClientsAssumption, FS_EmptySet, FS_CardinalityType
    <3> QED BY <3>1, <3>2, ClientsAssumption
  <2> QED BY <1>16, <2>1, <2>2
<1>19. CASE UNCHANGED Clients(kind)!vars
  <2>1. UNCHANGED <<plays, clients, outcomes, ruling>>
    BY <1>19 DEF Clients!vars
  <2>2. ClientsType' /\ (kind # "sharing" => OwnGames') /\ \A r \in Runs : ClientInv(kind, r)'
    BY <1>0, <2>1 DEF ClientsType, OwnGames, ClientInv, Created, Asked
  <2>3. RulingInv(kind)'
    BY <1>0, <2>1 DEF RulingInv, Clients!PassIsPlayed, Clients!WithStatus
  <2> QED BY <2>2, <2>3 DEF ClientsInv
<1> QED
  BY <1>2, <1>4, <1>5, <1>6, <1>8, <1>9, <1>11, <1>12, <1>13, <1>14, <1>15, <1>17, <1>18, <1>19
  DEF Clients!Next

\* Agents that share a game do not hear each other's turns; a scenario has a game of its own.
LEMMA ClientsAreSound ==
  ASSUME NEW kind \in ClientKinds, ClientsInv(kind)
  PROVE  Clients(kind)!HearsItsOwn /\ Clients(kind)!PassIsPlayed
BY ClientCounts DEF ClientsInv, ClientInv, ClientOk, RulingInv, Clients!HearsItsOwn, Asked

-----------------------------------------------------------------------------
(* The graph of the world and its fake                                        *)

Spots == Locations \cup People \cup {"held by the player", "nowhere"}
Ground ==
  [player : Locations \cup {"nowhere"}, at : [Items -> Spots], locked : SUBSET Connections,
   hidden : SUBSET Items, changed : SUBSET (Locations \cup People)]

\* A change that may be applied: where it leads to is a place.
Leads(c) == c.type = "move" => c.to \in Locations

Whole(w) ==
  w.player \in Locations /\ \A i \in Items : w.at[i] \in Locations \cup People \cup {"held by the player"}

\* Two worlds look the same but for some items.
Alikeness(g, f, except) ==
  /\ g.player = f.player /\ g.locked = f.locked /\ g.hidden = f.hidden /\ g.changed = f.changed
  /\ \A i \in Items \ except : g.at[i] = f.at[i] /\ g.at[i] \notin People

Teller(kind) ==
  {World(kind)!NoTask} \cup [pc : {"validating"}, batch : Seq(World(kind)!Changes), valid : Nat]

GraphInv(kind) ==
  /\ graph \in Ground /\ fake \in Ground
  /\ changing \in [Tellers[kind] -> Teller(kind)]
  /\ \A t \in Tellers[kind] : changing[t].pc = "validating" =>
       /\ changing[t].valid <= Len(changing[t].batch)
       /\ \A k \in 1 .. changing[t].valid : Leads(changing[t].batch[k])
  /\ Whole(graph) /\ Alikeness(graph, fake, stray)

LEMMA ChangeKeeps ==
  ASSUME NEW kind \in WorldKinds, NEW c \in World(kind)!Changes, NEW g \in Ground, NEW f \in Ground
  PROVE  /\ World(kind)!ApplyOne(g, c) \in Ground /\ World(kind)!FakeApplyOne(f, c) \in Ground
         /\ Whole(g) /\ Leads(c) => Whole(World(kind)!ApplyOne(g, c))
         /\ \A except : /\ Whole(g) /\ Leads(c) /\ Alikeness(g, f, except)
                        /\ c.type = "drop" /\ g.at[c.item] # "held by the player" => c.item \in except
              => Alikeness(World(kind)!ApplyOne(g, c), World(kind)!FakeApplyOne(f, c), except)
<1> DEFINE G == World(kind)!ApplyOne(g, c)
           F == World(kind)!FakeApplyOne(f, c)
           Keeps == /\ G \in Ground /\ F \in Ground
                    /\ Whole(g) /\ Leads(c) => Whole(G)
                    /\ \A except : /\ Whole(g) /\ Leads(c) /\ Alikeness(g, f, except)
                                   /\ c.type = "drop" /\ g.at[c.item] # "held by the player" => c.item \in except
                         => Alikeness(G, F, except)
<1>1. CASE c \in [type : {"move"}, from : World(kind)!Names, to : World(kind)!Names]
  <2> DEFINE to == IF c.to \in Locations THEN c.to ELSE "nowhere"
  <2>1. G = [g EXCEPT !.player = to] /\ F = [f EXCEPT !.player = to] /\ c.type = "move"
    BY <1>1 DEF World!ApplyOne, World!FakeApplyOne, World!Alike, World!Nowhere
  <2>2. to \in Locations \cup {"nowhere"} /\ (Leads(c) => to \in Locations)
    BY <2>1 DEF Leads
  <2> HIDE DEF G, F, to
  <2>3. /\ G \in Ground /\ G.player = to /\ G.at = g.at /\ G.locked = g.locked /\ G.hidden = g.hidden /\ G.changed = g.changed
        /\ F \in Ground /\ F.player = to /\ F.at = f.at /\ F.locked = f.locked /\ F.hidden = f.hidden /\ F.changed = f.changed
    BY <2>1, <2>2 DEF Ground
  <2> QED BY <2>2, <2>3 DEF Whole, Alikeness, G, F
<1>2. CASE c \in [type : {"take"}, item : Items]
  <2>1. /\ G = IF g.at[c.item] \in Locations THEN [g EXCEPT !.at[c.item] = "held by the player"] ELSE g
        /\ F = [f EXCEPT !.at[c.item] = "held by the player"] /\ c.type = "take" /\ c.item \in Items
    BY <1>2 DEF World!ApplyOne, World!FakeApplyOne, World!Taken, World!FakeTaken, World!Held
  <2> HIDE DEF G, F
  <2>2. /\ G \in Ground /\ F \in Ground
        /\ G.player = g.player /\ G.locked = g.locked /\ G.hidden = g.hidden /\ G.changed = g.changed
        /\ F.player = f.player /\ F.locked = f.locked /\ F.hidden = f.hidden /\ F.changed = f.changed
    BY <2>1 DEF Ground, Spots
  <2>3. \A i \in Items : /\ F.at[i] = IF i = c.item THEN "held by the player" ELSE f.at[i]
                         /\ G.at[i] = IF i = c.item /\ g.at[i] \in Locations THEN "held by the player" ELSE g.at[i]
    BY <2>1 DEF Ground
  <2>4. "held by the player" \notin People
    BY WorldAssumption
  <2> QED BY <2>2, <2>3, <2>4, ZenonT(20) DEF Whole, Alikeness, G, F
<1>3. CASE c \in [type : {"drop"}, item : Items]
  <2>1. /\ G = IF g.at[c.item] = "held by the player" THEN [g EXCEPT !.at[c.item] = g.player] ELSE g
        /\ F = IF f.player \in Locations THEN [f EXCEPT !.at[c.item] = f.player] ELSE f
        /\ c.type = "drop" /\ c.item \in Items
    BY <1>3 DEF World!ApplyOne, World!FakeApplyOne, World!Dropped, World!FakeDropped, World!Held
  <2> HIDE DEF G, F
  <2>2. /\ G \in Ground /\ F \in Ground
        /\ G.player = g.player /\ G.locked = g.locked /\ G.hidden = g.hidden /\ G.changed = g.changed
        /\ F.player = f.player /\ F.locked = f.locked /\ F.hidden = f.hidden /\ F.changed = f.changed
    BY <2>1 DEF Ground, Spots
  <2>3. \A i \in Items : /\ F.at[i] = IF i = c.item /\ f.player \in Locations THEN f.player ELSE f.at[i]
                         /\ G.at[i] = IF i = c.item /\ g.at[i] = "held by the player" THEN g.player ELSE g.at[i]
    BY <2>1 DEF Ground
  <2>4. Locations \cap People = {}
    BY WorldAssumption
  <2> QED BY <2>1, <2>2, <2>3, <2>4 DEF Whole, Alikeness, G, F
<1>4. CASE c \in [type : {"lock", "unlock"}, from : World(kind)!Names, to : World(kind)!Names]
  <2> DEFINE new(w) == IF c.type = "lock" THEN w.locked \cup ({<<c.from, c.to>>} \cap Connections)
                                          ELSE w.locked \ {<<c.from, c.to>>}
  <2>1. G = [g EXCEPT !.locked = new(g)] /\ F = [f EXCEPT !.locked = new(f)] /\ c.type \notin {"move", "drop"}
    BY <1>4 DEF World!ApplyOne, World!FakeApplyOne, World!Alike
  <2>2. new(g) \in SUBSET Connections /\ new(f) \in SUBSET Connections /\ (g.locked = f.locked => new(g) = new(f))
    BY DEF Ground
  <2> HIDE DEF G, F, new
  <2>3. /\ G \in Ground /\ G.player = g.player /\ G.at = g.at /\ G.locked = new(g) /\ G.hidden = g.hidden /\ G.changed = g.changed
        /\ F \in Ground /\ F.player = f.player /\ F.at = f.at /\ F.locked = new(f) /\ F.hidden = f.hidden /\ F.changed = f.changed
    BY <2>1, <2>2 DEF Ground
  <2> QED BY <2>2, <2>3 DEF Whole, Alikeness, G, F
<1>5. CASE c \in [type : {"hide", "show"}, item : Items]
  <2> DEFINE new(w) == IF c.type = "hide" THEN w.hidden \cup {c.item} ELSE w.hidden \ {c.item}
  <2>1. G = [g EXCEPT !.hidden = new(g)] /\ F = [f EXCEPT !.hidden = new(f)] /\ c.type \notin {"move", "drop"}
    BY <1>5 DEF World!ApplyOne, World!FakeApplyOne, World!Alike
  <2>2. new(g) \in SUBSET Items /\ new(f) \in SUBSET Items /\ (g.hidden = f.hidden => new(g) = new(f))
    BY <1>5 DEF Ground
  <2> HIDE DEF G, F, new
  <2>3. /\ G \in Ground /\ G.player = g.player /\ G.at = g.at /\ G.locked = g.locked /\ G.hidden = new(g) /\ G.changed = g.changed
        /\ F \in Ground /\ F.player = f.player /\ F.at = f.at /\ F.locked = f.locked /\ F.hidden = new(f) /\ F.changed = f.changed
    BY <2>1, <2>2 DEF Ground
  <2> QED BY <2>2, <2>3 DEF Whole, Alikeness, G, F
<1>6. CASE c \in [type : {"describe"}, entity : Locations \cup People]
  <2> DEFINE new(w) == w.changed \cup {c.entity}
  <2>1. G = [g EXCEPT !.changed = new(g)] /\ F = [f EXCEPT !.changed = new(f)] /\ c.type \notin {"move", "drop"}
    BY <1>6 DEF World!ApplyOne, World!FakeApplyOne, World!Alike
  <2>2. new(g) \in SUBSET (Locations \cup People) /\ new(f) \in SUBSET (Locations \cup People)
        /\ (g.changed = f.changed => new(g) = new(f))
    BY <1>6 DEF Ground
  <2> HIDE DEF G, F, new
  <2>3. /\ G \in Ground /\ G.player = g.player /\ G.at = g.at /\ G.locked = g.locked /\ G.hidden = g.hidden /\ G.changed = new(g)
        /\ F \in Ground /\ F.player = f.player /\ F.at = f.at /\ F.locked = f.locked /\ F.hidden = f.hidden /\ F.changed = new(f)
    BY <2>1, <2>2 DEF Ground
  <2> QED BY <2>2, <2>3 DEF Whole, Alikeness, G, F
<1> QED
  <2>1. \/ c \in [type : {"move"}, from : World(kind)!Names, to : World(kind)!Names]
        \/ c \in [type : {"take"}, item : Items] \/ c \in [type : {"drop"}, item : Items]
        \/ c \in [type : {"lock", "unlock"}, from : World(kind)!Names, to : World(kind)!Names]
        \/ c \in [type : {"hide", "show"}, item : Items]
        \/ c \in [type : {"describe"}, entity : Locations \cup People]
    BY DEF World!Changes
  <2> HIDE DEF G, F
  <2> QED BY <1>1, <1>2, <1>3, <1>4, <1>5, <1>6, <2>1 DEF G, F

LEMMA ChangeIsTyped ==
  ASSUME NEW kind \in WorldKinds, NEW c \in World(kind)!Changes, NEW g \in Ground
  PROVE  World(kind)!ApplyOne(g, c) \in Ground /\ World(kind)!FakeApplyOne(g, c) \in Ground
BY ChangeKeeps

\* What the worlds after each of the changes of a batch are.
LEMMA WorldsUnfold ==
  ASSUME NEW kind \in WorldKinds, NEW batch \in Seq(World(kind)!Changes), NEW w \in Ground
  PROVE  /\ World(kind)!Worlds(w, batch)[0] = w
         /\ \A k \in 1 .. Len(batch) :
              World(kind)!Worlds(w, batch)[k] = World(kind)!ApplyOne(World(kind)!Worlds(w, batch)[k - 1], batch[k])
         /\ \A k \in 0 .. Len(batch) : World(kind)!Worlds(w, batch)[k] \in Ground
<1> DEFINE N == Len(batch)
           W == World(kind)!Worlds(w, batch)
           F(f) == [k \in 0 .. N |-> IF k = 0 THEN w ELSE World(kind)!ApplyOne(f[k - 1], batch[k])]
           step == [k \in 1 .. N |-> [g \in Ground |-> World(kind)!ApplyOne(g, batch[k])]]
<1>1. N \in Nat /\ \A k \in 1 .. N : batch[k] \in World(kind)!Changes
  OBVIOUS
<1>2. PICK f \in [0 .. N -> Ground] : Iterates(f, step, w, N)
  <2>1. step \in [1 .. N -> [Ground -> Ground]]
    <3>1. \A k \in 1 .. N : \A g \in Ground : World(kind)!ApplyOne(g, batch[k]) \in Ground
      BY <1>1, ChangeKeeps
    <3> QED BY <3>1
  <2> HIDE DEF step, N
  <2> QED BY <1>1, <2>1, IterationExists
<1>3. f = F(f)
  <2>1. ASSUME NEW k \in 1 .. N PROVE f[k] = World(kind)!ApplyOne(f[k - 1], batch[k])
    <3>1. f[k - 1] \in Ground
      <4> HIDE DEF N, step
      <4> QED BY <1>1, <1>2
    <3>2. f[k] = step[k][f[k - 1]]
      <4> HIDE DEF N, step
      <4> QED BY <1>2 DEF Iterates
    <3> QED BY <3>1, <3>2
  <2>2. f[0] = w
    BY <1>2 DEF Iterates
  <2> HIDE DEF N
  <2> QED BY <1>1, <1>2, <2>1, <2>2
<1>4. W = CHOOSE g : g = F(g)
  BY DEF World!Worlds
<1>5. W = F(W)
  <2> HIDE DEF F
  <2> QED BY <1>3, <1>4
<1>6. W[0] = w /\ \A k \in 1 .. N : W[k] = World(kind)!ApplyOne(W[k - 1], batch[k])
  <2> HIDE DEF N, W
  <2> QED BY <1>1, <1>5
<1> DEFINE typed == {k \in 0 .. N : W[k] \in Ground}
<1>7. 0 \in typed /\ \A k \in 1 .. N : k - 1 \in typed => k \in typed
  <2> HIDE DEF N, W
  <2>1. ASSUME NEW k \in 1 .. N, W[k - 1] \in Ground PROVE W[k] \in Ground
    <3>1. batch[k] \in World(kind)!Changes
      BY <1>1
    <3> HIDE DEF step
    <3> QED BY <1>6, <2>1, <3>1, ChangeIsTyped
  <2> QED BY <1>1, <1>6, <2>1
<1>8. 0 .. N \subseteq typed
  <2> HIDE DEF typed, N
  <2> QED BY <1>1, <1>7, Induction
<1> QED BY <1>6, <1>8

LEMMA FakeWorldsUnfold ==
  ASSUME NEW kind \in WorldKinds, NEW batch \in Seq(World(kind)!Changes), NEW w \in Ground
  PROVE  /\ World(kind)!FakeWorlds(w, batch)[0] = w
         /\ \A k \in 1 .. Len(batch) :
              World(kind)!FakeWorlds(w, batch)[k] = World(kind)!FakeApplyOne(World(kind)!FakeWorlds(w, batch)[k - 1], batch[k])
         /\ \A k \in 0 .. Len(batch) : World(kind)!FakeWorlds(w, batch)[k] \in Ground
<1> DEFINE N == Len(batch)
           W == World(kind)!FakeWorlds(w, batch)
           F(f) == [k \in 0 .. N |-> IF k = 0 THEN w ELSE World(kind)!FakeApplyOne(f[k - 1], batch[k])]
           step == [k \in 1 .. N |-> [g \in Ground |-> World(kind)!FakeApplyOne(g, batch[k])]]
<1>1. N \in Nat /\ \A k \in 1 .. N : batch[k] \in World(kind)!Changes
  OBVIOUS
<1>2. PICK f \in [0 .. N -> Ground] : Iterates(f, step, w, N)
  <2>1. step \in [1 .. N -> [Ground -> Ground]]
    <3>1. \A k \in 1 .. N : \A g \in Ground : World(kind)!FakeApplyOne(g, batch[k]) \in Ground
      BY <1>1, ChangeKeeps
    <3> QED BY <3>1
  <2> HIDE DEF step, N
  <2> QED BY <1>1, <2>1, IterationExists
<1>3. f = F(f)
  <2>1. ASSUME NEW k \in 1 .. N PROVE f[k] = World(kind)!FakeApplyOne(f[k - 1], batch[k])
    <3>1. f[k - 1] \in Ground
      <4> HIDE DEF N, step
      <4> QED BY <1>1, <1>2
    <3>2. f[k] = step[k][f[k - 1]]
      <4> HIDE DEF N, step
      <4> QED BY <1>2 DEF Iterates
    <3> QED BY <3>1, <3>2
  <2>2. f[0] = w
    BY <1>2 DEF Iterates
  <2> HIDE DEF N
  <2> QED BY <1>1, <1>2, <2>1, <2>2
<1>4. W = CHOOSE g : g = F(g)
  BY DEF World!FakeWorlds
<1>5. W = F(W)
  <2> HIDE DEF F
  <2> QED BY <1>3, <1>4
<1>6. W[0] = w /\ \A k \in 1 .. N : W[k] = World(kind)!FakeApplyOne(W[k - 1], batch[k])
  <2> HIDE DEF N, W
  <2> QED BY <1>1, <1>5
<1> DEFINE typed == {k \in 0 .. N : W[k] \in Ground}
<1>7. 0 \in typed /\ \A k \in 1 .. N : k - 1 \in typed => k \in typed
  <2> HIDE DEF N, W
  <2>1. ASSUME NEW k \in 1 .. N, W[k - 1] \in Ground PROVE W[k] \in Ground
    <3>1. batch[k] \in World(kind)!Changes
      BY <1>1
    <3> HIDE DEF step
    <3> QED BY <1>6, <2>1, <3>1, ChangeIsTyped
  <2> QED BY <1>1, <1>6, <2>1
<1>8. 0 .. N \subseteq typed
  <2> HIDE DEF typed, N
  <2> QED BY <1>1, <1>7, Induction
<1> QED BY <1>6, <1>8

\* A batch of changes that lead somewhere keeps a world whole, and the services alike but
\* for the items that it drops although they are not held.
LEMMA BatchKeeps ==
  ASSUME NEW kind \in WorldKinds, NEW batch \in Seq(World(kind)!Changes),
         \A k \in 1 .. Len(batch) : Leads(batch[k]),
         NEW g \in Ground, NEW f \in Ground, NEW except, Whole(g), Alikeness(g, f, except),
         World(kind)!StrayDrops(g, batch) \subseteq except
  PROVE  /\ World(kind)!Worlds(g, batch)[Len(batch)] \in Ground
         /\ World(kind)!FakeWorlds(f, batch)[Len(batch)] \in Ground
         /\ Whole(World(kind)!Worlds(g, batch)[Len(batch)])
         /\ Alikeness(World(kind)!Worlds(g, batch)[Len(batch)],
                      World(kind)!FakeWorlds(f, batch)[Len(batch)], except)
<1> DEFINE N == Len(batch)
           G == World(kind)!Worlds(g, batch)
           F == World(kind)!FakeWorlds(f, batch)
           same == {k \in 0 .. N : Whole(G[k]) /\ Alikeness(G[k], F[k], except)}
<1>1. N \in Nat /\ \A k \in 1 .. N : batch[k] \in World(kind)!Changes
  OBVIOUS
<1>2. /\ G[0] = g /\ \A k \in 1 .. N : G[k] = World(kind)!ApplyOne(G[k - 1], batch[k])
      /\ \A k \in 0 .. N : G[k] \in Ground
  BY WorldsUnfold
<1>3. /\ F[0] = f /\ \A k \in 1 .. N : F[k] = World(kind)!FakeApplyOne(F[k - 1], batch[k])
      /\ \A k \in 0 .. N : F[k] \in Ground
  BY FakeWorldsUnfold
<1>4. \A k \in 1 .. N : batch[k].type = "drop" /\ G[k - 1].at[batch[k].item] # "held by the player"
                          => batch[k].item \in except
  <2>1. DOMAIN batch = 1 .. N
    OBVIOUS
  <2>2. World(kind)!StrayDrops(g, batch)
          = {batch[k].item : k \in {k \in DOMAIN batch :
               batch[k].type = "drop" /\ G[k - 1].at[batch[k].item] # "held by the player"}}
    BY DEF World!StrayDrops, World!Held
  <2> HIDE DEF G, N
  <2> QED BY <2>1, <2>2
<1>5. ASSUME NEW k \in 1 .. N, k - 1 \in same
      PROVE  k \in same
  <2>1. /\ k - 1 \in 0 .. N /\ k \in 0 .. N /\ Whole(G[k - 1]) /\ Alikeness(G[k - 1], F[k - 1], except)
        /\ Leads(batch[k])
    BY <1>1, <1>5
  <2> HIDE DEF G, F, N
  <2>2. G[k - 1] \in Ground /\ F[k - 1] \in Ground /\ batch[k] \in World(kind)!Changes
    BY <1>1, <1>2, <1>3, <2>1
  <2>3. /\ Whole(World(kind)!ApplyOne(G[k - 1], batch[k]))
        /\ Alikeness(World(kind)!ApplyOne(G[k - 1], batch[k]), World(kind)!FakeApplyOne(F[k - 1], batch[k]), except)
    BY <1>4, <2>1, <2>2, ChangeKeeps
  <2> QED BY <1>2, <1>3, <2>1, <2>3
<1>6. 0 \in same
  BY <1>1, <1>2, <1>3
<1>7. 0 .. N \subseteq same
  <2> HIDE DEF same, N
  <2> QED BY <1>1, <1>5, <1>6, Induction
<1>8. N \in 0 .. N
  BY <1>1
<1> HIDE DEF N, G, F
<1>9. /\ N \in same /\ G[N] \in Ground /\ F[N] \in Ground
  BY <1>2, <1>3, <1>7, <1>8
<1> QED BY <1>9 DEF N, G, F

\* The world as the template has it, in either service.
LEMMA NewWorld ==
  ASSUME NEW kind \in WorldKinds
  PROVE  /\ World(kind)!World(Home) \in Ground /\ World(kind)!World(World(kind)!Beside(Home)) \in Ground
         /\ Whole(World(kind)!World(Home))
         /\ Alikeness(World(kind)!World(Home), World(kind)!World(World(kind)!Beside(Home)),
                      {i \in Items : Home[i] \in People})
<1> DEFINE beside == World(kind)!Beside(Home)
           G == World(kind)!World(Home)
           F == World(kind)!World(beside)
<1>1. Home \in [Items -> Locations \cup People] /\ beside \in [Items -> Locations]
      /\ \A i \in Items : Home[i] \notin People => beside[i] = Home[i]
  BY WorldAssumption DEF World!Beside
<1>2. /\ G = [player |-> Entrance, at |-> Home, locked |-> {}, hidden |-> {}, changed |-> {}]
      /\ F = [player |-> Entrance, at |-> beside, locked |-> {}, hidden |-> {}, changed |-> {}]
  BY DEF World!World
<1>3. Entrance \in Locations /\ Home \in [Items -> Spots] /\ beside \in [Items -> Spots]
  BY <1>1, WorldAssumption DEF Spots
<1> HIDE DEF G, F, beside
<1>4. G \in Ground /\ F \in Ground
  BY <1>2, <1>3 DEF Ground
<1>5. Whole(G) /\ Alikeness(G, F, {i \in Items : Home[i] \in People})
  BY <1>1, <1>2, <1>3 DEF Whole, Alikeness
<1> QED BY <1>4, <1>5 DEF G, F, beside

LEMMA GraphInit ==
  ASSUME NEW kind \in WorldKinds, World(kind)!Init
  PROVE  GraphInv(kind)
<1>1. \A t \in Tellers[kind] : changing[t] = World(kind)!NoTask
  BY DEF World!Init
<1>2. World(kind)!NoTask.pc = "idle"
  BY DEF World!NoTask
<1> QED BY <1>1, <1>2, NewWorld DEF World!Init, GraphInv, Teller

LEMMA GraphStep ==
  ASSUME NEW kind \in WorldKinds, GraphInv(kind), [World(kind)!Next]_(World(kind)!vars)
  PROVE  GraphInv(kind)'
<1> DEFINE TellerInv(t) ==
      changing[t].pc = "validating" =>
        /\ changing[t].valid <= Len(changing[t].batch)
        /\ \A k \in 1 .. changing[t].valid : Leads(changing[t].batch[k])
<1>0. /\ graph \in Ground /\ fake \in Ground /\ Whole(graph) /\ Alikeness(graph, fake, stray)
      /\ changing \in [Tellers[kind] -> Teller(kind)] /\ \A t \in Tellers[kind] : TellerInv(t)
  BY DEF GraphInv
\* A task becomes another one that is sound.
<1>1. ASSUME NEW t \in Tellers[kind], NEW c \in Teller(kind), changing' = [changing EXCEPT ![t] = c],
             c.pc = "validating" =>
               c.valid <= Len(c.batch) /\ \A k \in 1 .. c.valid : Leads(c.batch[k])
      PROVE  /\ changing' \in [Tellers[kind] -> Teller(kind)]
             /\ \A u \in Tellers[kind] : TellerInv(u)'
  <2>1. changing'[t] = c /\ \A u \in Tellers[kind] \ {t} : changing'[u] = changing[u]
    BY <1>0, <1>1
  <2> QED BY <1>0, <1>1, <2>1
<1>2. ASSUME NEW t \in Tellers[kind], changing' = [changing EXCEPT ![t] = World(kind)!NoTask]
      PROVE  /\ changing' \in [Tellers[kind] -> Teller(kind)]
             /\ \A u \in Tellers[kind] : TellerInv(u)'
  <2>1. World(kind)!NoTask \in Teller(kind) /\ World(kind)!NoTask.pc = "idle"
    BY DEF Teller, World!NoTask
  <2> QED BY <1>1, <1>2, <2>1
<1>3. CASE World(kind)!CreateWorld
  BY <1>0, <1>3, NewWorld DEF World!CreateWorld, GraphInv
<1>4. CASE World(kind)!CleanupSession \/ UNCHANGED World(kind)!vars
  BY <1>0, <1>4 DEF World!CleanupSession, World!vars, GraphInv
<1>5. ASSUME NEW t \in Tellers[kind], NEW b \in World(kind)!Batches, World(kind)!Translate(t, b)
      PROVE  GraphInv(kind)'
  <2> DEFINE c == [pc |-> "validating", batch |-> b, valid |-> 0]
  <2>1. b \in Seq(World(kind)!Changes)
    BY DEF World!Batches
  <2>2. c \in Teller(kind) /\ c.valid = 0 /\ c.batch = b /\ Len(b) \in Nat
    BY <2>1 DEF Teller
  <2>3. changing' = [changing EXCEPT ![t] = c] /\ UNCHANGED <<exists, graph, fake, stray>>
    BY <1>5 DEF World!Translate
  <2> HIDE DEF c
  <2>4. c.valid <= Len(c.batch) /\ \A k \in 1 .. c.valid : Leads(c.batch[k])
    BY <2>2
  <2>5. changing' \in [Tellers[kind] -> Teller(kind)] /\ \A u \in Tellers[kind] : TellerInv(u)'
    BY <1>1, <2>2, <2>3, <2>4
  <2> QED BY <1>0, <2>3, <2>5 DEF GraphInv
\* What a task at work is.
<1>6. ASSUME NEW t \in Tellers[kind], changing[t].pc = "validating"
      PROVE  /\ changing[t] \in [pc : {"validating"}, batch : Seq(World(kind)!Changes), valid : Nat]
             /\ changing[t].batch \in Seq(World(kind)!Changes) /\ Len(changing[t].batch) \in Nat
             /\ changing[t].valid \in Nat
             /\ \A k \in 1 .. changing[t].valid : Leads(changing[t].batch[k])
  <2>1. changing[t] \in [pc : {"validating"}, batch : Seq(World(kind)!Changes), valid : Nat]
    BY <1>0, <1>6 DEF Teller, World!NoTask
  <2>2. changing[t].batch \in Seq(World(kind)!Changes)
    BY <2>1
  <2> QED BY <1>0, <1>6, <2>1, <2>2
<1>7. ASSUME NEW t \in Tellers[kind], World(kind)!ValidateChange(t)
      PROVE  GraphInv(kind)'
  <2> DEFINE n == changing[t].valid + 1
             c == [changing[t] EXCEPT !.valid = n]
  <2>1. /\ changing[t].pc = "validating" /\ changing[t].valid < Len(changing[t].batch)
        /\ changing' = [changing EXCEPT ![t] = IF World(kind)!Valid(graph, changing[t].batch[n]) THEN c
                                               ELSE World(kind)!NoTask]
        /\ UNCHANGED <<exists, graph, fake, stray>>
    BY <1>7 DEF World!ValidateChange
  <2>2. CASE World(kind)!Valid(graph, changing[t].batch[n])
    <3>1. Leads(changing[t].batch[n])
      BY <2>2, WorldAssumption DEF World!Valid, World!MayMove, Leads
    <3>2. /\ c \in Teller(kind) /\ c.valid = n /\ c.batch = changing[t].batch
      BY <1>6, <2>1 DEF Teller
    <3>3. n \in Nat /\ n <= Len(changing[t].batch)
          /\ \A k \in 1 .. n : k = n \/ k \in 1 .. changing[t].valid
      BY <1>6, <2>1
    <3>4. c.valid <= Len(c.batch) /\ \A k \in 1 .. c.valid : Leads(c.batch[k])
      <4> HIDE DEF c, n
      <4> QED BY <1>6, <2>1, <3>1, <3>2, <3>3
    <3>5. changing' = [changing EXCEPT ![t] = c]
      BY <2>1, <2>2
    <3> HIDE DEF c
    <3>6. changing' \in [Tellers[kind] -> Teller(kind)] /\ \A u \in Tellers[kind] : TellerInv(u)'
      BY <1>1, <3>2, <3>4, <3>5
    <3> QED BY <1>0, <2>1, <3>6 DEF GraphInv
  <2>3. CASE ~World(kind)!Valid(graph, changing[t].batch[n])
    <3>1. changing' = [changing EXCEPT ![t] = World(kind)!NoTask]
      BY <2>1, <2>3
    <3> QED BY <1>0, <1>2, <2>1, <3>1 DEF GraphInv
  <2> QED BY <2>2, <2>3
<1>8. ASSUME NEW t \in Tellers[kind], World(kind)!ApplyChanges(t)
      PROVE  GraphInv(kind)'
  <2> DEFINE b == changing[t].batch
             G == World(kind)!Worlds(graph, b)[Len(b)]
             F == World(kind)!FakeWorlds(fake, b)[Len(b)]
             strays == stray \cup World(kind)!StrayDrops(graph, b)
  <2>1. /\ changing[t].pc = "validating" /\ changing[t].valid = Len(b)
        /\ changing' = [changing EXCEPT ![t] = World(kind)!NoTask]
        /\ \/ graph' = G /\ fake' = F /\ stray' = strays
           \/ UNCHANGED <<graph, fake, stray>>
    BY <1>8 DEF World!ApplyChanges
  <2>2. b \in Seq(World(kind)!Changes) /\ \A k \in 1 .. Len(b) : Leads(b[k])
    BY <1>6, <2>1
  <2>3. Alikeness(graph, fake, strays)
    BY <1>0 DEF Alikeness
  <2>4. G \in Ground /\ F \in Ground /\ Whole(G) /\ Alikeness(G, F, strays)
    <3> HIDE DEF b
    <3> QED BY <1>0, <2>2, <2>3, BatchKeeps
  <2> HIDE DEF G, F, strays, b
  <2>5. changing' \in [Tellers[kind] -> Teller(kind)] /\ \A u \in Tellers[kind] : TellerInv(u)'
    BY <1>2, <2>1
  <2> HIDE DEF TellerInv
  <2>6. graph' \in Ground /\ fake' \in Ground /\ Whole(graph') /\ Alikeness(graph', fake', stray')
    BY <1>0, <2>1, <2>4
  <2> QED BY <2>5, <2>6 DEF GraphInv, TellerInv
<1>9. ASSUME NEW t \in Tellers[kind], World(kind)!ApplyFails(t)
      PROVE  GraphInv(kind)'
  <2>1. changing' = [changing EXCEPT ![t] = World(kind)!NoTask] /\ UNCHANGED <<exists, graph, fake, stray>>
    BY <1>9 DEF World!ApplyFails
  <2> QED BY <1>0, <1>2, <2>1 DEF GraphInv
<1> QED
  BY <1>3, <1>4, <1>5, <1>7, <1>8, <1>9 DEF World!Next

\* Locations are a place for a player, and what looks the same is seen the same.
LEMMA GraphIsSound ==
  ASSUME NEW kind \in WorldKinds, GraphInv(kind)
  PROVE  World(kind)!WorldIsWhole /\ World(kind)!FakeAgrees
<1>1. World(kind)!WorldIsWhole
  BY DEF GraphInv, Whole, World!WorldIsWhole, World!Held
<1>2. World(kind)!View(graph, stray) = World(kind)!View(fake, stray)
  BY DEF GraphInv, Alikeness, World!View
<1> QED BY <1>1, <1>2 DEF GraphInv, Alikeness, World!FakeAgrees

-----------------------------------------------------------------------------
(* Characters                                                                 *)

CastNames == {Cast[k] : k \in DOMAIN Cast}

OnceInv ==
  /\ DOMAIN fires = Characters!Once
  /\ \A s \in Characters!Once : fires[s] = IF s \in fired THEN 1 ELSE 0
  /\ dueSteps \subseteq fired

CastInv == OnceInv /\ Characters!SpreadFades

LEMMA CastIsNpcs == Characters!Npcs = CastNames
BY DEF Characters!Npcs, Characters!ToSet, CastNames

LEMMA GreatestIs ==
  ASSUME NEW S \in SUBSET Int, NEW m \in S, \A n \in S : n <= m
  PROVE  Characters!Max(S) = m
<1>1. \A n \in S : (\A k \in S : n >= k) => n = m
  OBVIOUS
<1>2. \A k \in S : m >= k
  OBVIOUS
<1>3. Characters!Max(S) = CHOOSE n \in S : \A k \in S : n >= k
  BY DEF Characters!Max
<1> QED BY <1>1, <1>2, <1>3

LEMMA CharactersInit == Characters!Init => CastInv
<1> SUFFICES ASSUME Characters!Init PROVE CastInv
  OBVIOUS
<1>1. OnceInv
  BY DEF Characters!Init, OnceInv
<1>2. spread.records = {}
  BY DEF Characters!Init, Characters!NoResult
<1>3. Characters!SpreadFades
  BY <1>2 DEF Characters!SpreadFades
<1> QED BY <1>1, <1>3 DEF CastInv

\* A step that does not repeat fires only if it has not, and what was due has fired.
LEMMA ProcessKeeps ==
  ASSUME OnceInv, NEW late, Characters!Process(late)
  PROVE  OnceInv'
<1> DEFINE done == Characters!Processed(late)
           firing == (UNION {{n} \X Characters!Firing(n) : n \in done}) \cap Characters!Once
           keys == {n \in Characters!Npcs : Standing[n] = "key" /\ Schedule[n] # {}}
           ripe == (UNION {{n} \X Characters!Due(n) : n \in keys}) \cap Characters!Once
<1>1. /\ fired' = fired \cup firing /\ dueSteps' = dueSteps \cup ripe
      /\ fires' = [s \in Characters!Once |-> IF s \in firing THEN fires[s] + 1 ELSE fires[s]]
  BY DEF Characters!Process
<1>2. ASSUME NEW n, NEW k, <<n, k>> \in Characters!Once
      PROVE  Routine[n][k].once
  BY <1>2 DEF Characters!Once
<1>3. ASSUME NEW s \in firing PROVE s \notin fired
  <2>1. s \in Characters!Once /\ \E n \in done : s \in {n} \X Characters!Firing(n)
    BY <1>3
  <2>2. PICK n \in done : s \in {n} \X Characters!Firing(n)
    BY <2>1
  <2>3. PICK k \in Characters!Firing(n) : s = <<n, k>>
    BY <2>2
  <2>4. Routine[n][k].once
    BY <1>2, <2>1, <2>3
  <2>5. ~Routine[n][k].once \/ <<n, k>> \notin fired
    BY <2>3 DEF Characters!Firing
  <2> QED BY <2>3, <2>4, <2>5
<1>4. ASSUME NEW s \in ripe PROVE s \in fired \cup firing
  <2>0. s \in Characters!Once /\ \E n \in keys : s \in {n} \X Characters!Due(n)
    BY <1>4
  <2>1. PICK n \in keys : s \in {n} \X Characters!Due(n)
    BY <2>0
  <2>2. PICK k \in Characters!Due(n) : s = <<n, k>> /\ s \in Characters!Once
    <3> HIDE DEF keys, done
    <3> QED BY <2>0, <2>1
  <2>3. n \in done
    BY DEF Characters!Processed
  <2>4. s \in fired \/ k \in Characters!Firing(n)
    BY <2>2 DEF Characters!Firing
  <2>5. CASE k \in Characters!Firing(n)
    <3> HIDE DEF done
    <3>1. s \in {n} \X Characters!Firing(n)
      BY <2>2, <2>5
    <3>2. s \in UNION {{m} \X Characters!Firing(m) : m \in done}
      BY <2>3, <3>1
    <3>3. s \in firing
      BY <2>2, <3>2
    <3> QED BY <3>3
  <2> QED BY <2>4, <2>5
<1> HIDE DEF firing, ripe
<1>5. \A s \in Characters!Once : fires'[s] = IF s \in fired' THEN 1 ELSE 0
  BY <1>1, <1>3 DEF OnceInv
<1> QED BY <1>1, <1>4, <1>5 DEF OnceInv

\* An event spreads hop by hop, up to its depth, and loses a rank at each.
LEMMA SpreadIsSound ==
  ASSUME NEW source \in Characters!Sources, NEW overBudget \in BOOLEAN,
         Characters!Propagate(source, overBudget)
  PROVE  Characters!SpreadFades'
<1> DEFINE hops == Characters!Hops(source)
           rank == Characters!Rank(source.severity)
           limit == Characters!Max({1, MaxDepth})
           records == Characters!Records(source, overBudget)
<1>1. spread' = [records |-> records,
                 depth |-> IF overBudget \/ source.entity = None \/ source.severity = "minor" THEN 0
                           ELSE Characters!Max({0} \cup hops)]
  BY DEF Characters!Propagate
<1>2. CASE source.severity = "minor" \/ source.entity = None
  <2>1. spread'.records = {}
    BY <1>1, <1>2 DEF Characters!Records
  <2> QED BY <2>1 DEF Characters!SpreadFades
<1>3. CASE source.severity # "minor" /\ source.entity # None
  <2>1. rank \in 2 .. 4
    <3>1. source.severity \in {"notable", "major", "critical"}
      BY <1>3 DEF Characters!Sources, Characters!ToSet, Characters!Severities
    <3>2. DOMAIN Characters!Severities = 1 .. 4
      BY DEF Characters!Severities
    <3>3. \E n \in 1 .. 4 : Characters!Severities[n] = source.severity /\ n # 1
      BY <3>1 DEF Characters!Severities
    <3>4. \A n \in 1 .. 4 : Characters!Severities[n] = source.severity => n # 1
      BY <3>1 DEF Characters!Severities
    <3> QED BY <3>2, <3>3, <3>4 DEF Characters!Rank
  <2>2. limit \in Int /\ limit >= 1 /\ (limit = 1 \/ limit = MaxDepth) /\ limit >= MaxDepth
    <3>1. MaxDepth \in Int
      BY CastAssumption
    <3>2. CASE MaxDepth <= 1
      <4>1. limit = 1
        BY <3>1, <3>2, GreatestIs
      <4> QED BY <3>1, <3>2, <4>1
    <3>3. CASE MaxDepth > 1
      <4>1. limit = MaxDepth
        BY <3>1, <3>3, GreatestIs
      <4> QED BY <3>1, <3>3, <4>1
    <3> QED BY <3>1, <3>2, <3>3
  <2> HIDE DEF limit
  <2>3. \A h \in Nat : Characters!Decayed(source.severity, h) = IF h <= rank THEN rank - h ELSE 0
    <3> SUFFICES ASSUME NEW h \in Nat
                 PROVE  Characters!Decayed(source.severity, h) = IF h <= rank THEN rank - h ELSE 0
      OBVIOUS
    <3>1. Characters!Decayed(source.severity, h) = Characters!Max({0, rank - h})
      BY DEF Characters!Decayed
    <3> HIDE DEF rank
    <3>2. CASE h <= rank
      <4>1. Characters!Max({0, rank - h}) = rank - h
        BY <2>1, <3>2, GreatestIs
      <4> QED BY <3>1, <3>2, <4>1
    <3>3. CASE ~(h <= rank)
      <4>1. Characters!Max({0, rank - h}) = 0
        BY <2>1, <3>3, GreatestIs
      <4> QED BY <3>1, <3>3, <4>1
    <3> QED BY <3>2, <3>3
  <2>4. hops = {h \in 1 .. limit : h < rank}
    <3>1. hops = {h \in 1 .. limit : Characters!Decayed(source.severity, h) > 0}
      BY DEF Characters!Hops, limit
    <3> HIDE DEF hops, rank
    <3> QED BY <2>1, <2>2, <2>3, <3>1
  <2> HIDE DEF hops, rank
  <2>5. CASE overBudget
    <3>1. spread' = [records |-> {[hop |-> 0, entity |-> source.entity, rank |-> rank]}, depth |-> 0]
      BY <1>1, <1>3, <2>5 DEF Characters!Records, rank
    <3>2. DOMAIN Characters!Severities = 1 .. 4
      BY DEF Characters!Severities
    <3>3. 0 <= Characters!Max({1, MaxDepth})
      BY <2>2 DEF limit
    <3>4. spread'.records = {[hop |-> 0, entity |-> source.entity, rank |-> rank]} /\ spread'.depth = 0
      BY <3>1
    <3>5. \A h \in 0 .. 0 : h = 0
      OBVIOUS
    <3> QED BY <2>1, <3>2, <3>3, <3>4, <3>5 DEF Characters!SpreadFades
  <2>6. CASE ~overBudget
    <3> DEFINE depth == IF limit < rank THEN limit ELSE rank - 1
               around == {[hop |-> h, entity |-> <<source.place, h>>, rank |-> rank - h] : h \in 1 .. depth}
               factions == {r \in {[hop |-> 1, entity |-> source.faction, rank |-> rank - 1]} : source.faction # None}
               first == [hop |-> 0, entity |-> source.entity, rank |-> rank]
    <3>1. depth \in 1 .. 3 /\ depth <= limit /\ depth < rank /\ hops = 1 .. depth
      <4>1. limit \in Int /\ limit >= 1 /\ rank \in 2 .. 4
        BY <2>1, <2>2
      <4>2. depth \in 1 .. 3 /\ depth <= limit /\ depth < rank
        BY <4>1
      <4>3. \A h \in Int : h \in 1 .. limit /\ h < rank <=> h \in 1 .. depth
        BY <4>1
      <4> HIDE DEF depth
      <4>4. \A h : h \in 1 .. limit => h \in Int
        BY <4>1
      <4>5. \A h : h \in 1 .. depth => h \in Int
        BY <4>2
      <4>6. \A h : h \in hops <=> h \in 1 .. limit /\ h < rank
        BY <2>4
      <4>7. \A h : h \in hops <=> h \in 1 .. depth
        BY <4>3, <4>4, <4>5, <4>6
      <4>8. hops \subseteq Int /\ 1 .. depth \subseteq Int
        BY <4>4, <4>5, <4>6
      <4>9. hops = 1 .. depth
        BY <4>7, <4>8
      <4> QED BY <4>2, <4>9
    <3> HIDE DEF depth
    <3>2. Characters!Max({0} \cup hops) = depth
      <4>1. {0} \cup hops \in SUBSET Int /\ depth \in {0} \cup hops /\ \A n \in {0} \cup hops : n <= depth
        BY <3>1
      <4> QED BY <4>1, GreatestIs
    <3>3. \A h \in 1 .. depth : Characters!Decayed(source.severity, h) = rank - h
      BY <2>1, <2>3, <3>1
    <3>4. {[hop |-> h, entity |-> <<source.place, h>>, rank |-> Characters!Decayed(source.severity, h)] : h \in hops}
            = around
      BY <3>1, <3>3
    <3>5. {[hop |-> 1, entity |-> source.faction, rank |-> Characters!Decayed(source.severity, 1)] :
             h \in hops \cap (IF source.faction = None THEN {} ELSE {1})} = factions
      <4>1. Characters!Decayed(source.severity, 1) = rank - 1 /\ 1 \in hops
        BY <3>1, <3>3
      <4> QED BY <4>1
    <3>6. spread'.records = {first} \cup (around \cup factions) /\ spread'.depth = depth
      <4>1. records = {first} \cup (around \cup factions)
        BY <1>3, <2>6, <3>4, <3>5 DEF Characters!Records, rank, hops
      <4> HIDE DEF records
      <4> QED BY <1>1, <1>3, <2>6, <3>2, <4>1
    <3>7. /\ source.entity \in CastNames /\ source.place \in Surroundings
          /\ source.faction \in Factions \cup {None}
      BY <1>3, CastIsNpcs DEF Characters!Sources
    <3>8. /\ source.faction # None => source.entity # source.faction
          /\ \A h \in 1 .. 3 : <<source.place, h>> # source.entity /\ (source.faction # None => <<source.place, h>> # source.faction)
      BY <3>7, CastAssumption DEF CastNames
    \* A record is the first, one of the surroundings or the faction's.
    <3>9. ASSUME NEW r \in spread'.records
          PROVE  /\ r.hop \in 0 .. depth /\ r.rank = rank - r.hop
                 /\ r = [hop |-> r.hop, entity |-> r.entity, rank |-> r.rank]
                 /\ \/ r.hop = 0 /\ r.entity = source.entity
                    \/ r.hop \in 1 .. depth /\ r.entity = <<source.place, r.hop>>
                    \/ r.hop = 1 /\ source.faction # None /\ r.entity = source.faction
      <4>1. CASE r = first
        BY <2>1, <3>1, <4>1
      <4>2. CASE r \in around
        <5>1. PICK h \in 1 .. depth : r = [hop |-> h, entity |-> <<source.place, h>>, rank |-> rank - h]
          BY <4>2
        <5> QED BY <3>1, <5>1
      <4>3. CASE r \in factions
        BY <3>1, <4>3
      <4> QED BY <3>6, <3>9, <4>1, <4>2, <4>3
    <3>10. \A h \in 0 .. depth : \E r \in spread'.records : r.hop = h
      <4> SUFFICES ASSUME NEW h \in 0 .. depth PROVE \E r \in spread'.records : r.hop = h
        OBVIOUS
      <4>1. CASE h = 0
        <5>1. first \in spread'.records /\ first.hop = 0
          BY <3>6
        <5> QED BY <4>1, <5>1
      <4>2. CASE h # 0
        <5>1. h \in 1 .. depth
          BY <3>1, <4>2
        <5> DEFINE r == [hop |-> h, entity |-> <<source.place, h>>, rank |-> rank - h]
        <5>2. r \in around /\ r.hop = h
          BY <5>1
        <5> HIDE DEF r, around
        <5> QED BY <3>6, <5>2
      <4> QED BY <4>1, <4>2
    <3>11. \A r \in spread'.records :
             r.hop <= depth /\ r.hop <= limit /\ r.rank \in DOMAIN Characters!Severities
      <4>1. DOMAIN Characters!Severities = 1 .. 4
        BY DEF Characters!Severities
      <4> QED BY <2>1, <2>2, <3>1, <3>9, <4>1
    <3>12. ASSUME NEW r \in spread'.records, NEW o \in spread'.records
           PROVE  /\ r.entity = o.entity => r = o
                  /\ r.hop < o.hop => r.rank > o.rank
      <4>1. r.hop < o.hop => r.rank > o.rank
        BY <2>1, <3>1, <3>9
      <4>2. ASSUME r.entity = o.entity PROVE r.hop = o.hop
        BY <3>1, <3>8, <3>9, <4>2
      <4>3. r.hop = o.hop => r.rank = o.rank
        BY <3>9
      <4> QED BY <3>9, <4>1, <4>2, <4>3
    <3> QED BY <3>6, <3>10, <3>11, <3>12 DEF Characters!SpreadFades, limit
  <2> QED BY <2>5, <2>6
<1> QED BY <1>2, <1>3

LEMMA CharactersStep ==
  ASSUME CastInv, [Characters!Next]_(Characters!vars)
  PROVE  CastInv'
<1>0. OnceInv /\ Characters!SpreadFades
  BY DEF CastInv
\* Without a propagation there is nothing left to show of the last one.
<1>1. ASSUME spread' = Characters!NoResult PROVE Characters!SpreadFades'
  <2>1. spread'.records = {}
    BY <1>1 DEF Characters!NoResult
  <2> QED BY <2>1 DEF Characters!SpreadFades
<1>2. ASSUME NEW n, Characters!Advance(n) PROVE CastInv'
  BY <1>0, <1>1, <1>2 DEF Characters!Advance, CastInv, OnceInv
<1>3. CASE Characters!Tick \/ \E n \in 1 .. MaxRequest : Characters!SkipAhead(n)
  BY <1>2, <1>3 DEF Characters!Tick, Characters!SkipAhead
<1>4. CASE Characters!NewProcessor
  BY <1>1, <1>4 DEF Characters!NewProcessor, CastInv, OnceInv
<1>5. ASSUME NEW late, Characters!Process(late) PROVE CastInv'
  <2>1. spread' = Characters!NoResult
    BY <1>5 DEF Characters!Process
  <2> QED BY <1>0, <1>1, <1>5, <2>1, ProcessKeeps DEF CastInv
<1>6. ASSUME NEW s \in Characters!Sources, NEW b \in BOOLEAN, Characters!Propagate(s, b) PROVE CastInv'
  <2>1. OnceInv'
    BY <1>0, <1>6 DEF Characters!Propagate, OnceInv
  <2> QED BY <1>6, <2>1, SpreadIsSound DEF CastInv
<1>7. CASE UNCHANGED Characters!vars
  BY <1>0, <1>7 DEF Characters!vars, CastInv, OnceInv, Characters!SpreadFades
<1> QED
  BY <1>3, <1>4, <1>5, <1>6, <1>7 DEF Characters!Next

LEMMA CharactersAreSound == CastInv => Characters!OnceFiresOnce /\ Characters!SpreadFades
BY DEF CastInv, OnceInv, Characters!OnceFiresOnce

-----------------------------------------------------------------------------
(* Gossip                                                                     *)

About(e) == {g \in tellings : g.episode = e}

GossipInv ==
  /\ origin \in [Episodes -> Talkers \cup {"nobody"}] /\ copies \in [Episodes -> Nat]
  /\ strong \subseteq ways /\ IsFiniteSet(tellings)
  /\ seen = {<<g.receiver, g.episode>> : g \in tellings}
  /\ \A g \in tellings : g.episode \in Episodes /\ origin[g.episode] # "nobody"
  /\ Gossip!GossipGoesBack

Wave(e) == [new : SUBSET (Talkers \cup {origin[e]}), heard : SUBSET Talkers]

\* Who hears of an episode at each hop: none who has heard of it at an earlier one.
LEMMA WavesUnfold ==
  ASSUME NEW e \in Episodes
  PROVE  /\ Gossip!Waves(e)[0].new = {origin[e]}
         /\ \A h \in 1 .. MaxHops : \A n \in Gossip!Waves(e)[h].new :
              /\ n \in Talkers /\ Gossip!Carries(h) /\ <<n, e>> \notin seen
              /\ \E s \in Gossip!Waves(e)[h - 1].new : <<s, n>> \in strong
              /\ \A k \in 1 .. MaxHops : n \in Gossip!Waves(e)[k].new => k = h
<1> DEFINE N == MaxHops
           W == Gossip!Waves(e)
           base == [new |-> {origin[e]}, heard |-> {}]
           F(f) == [h \in 0 .. N |-> IF h = 0 THEN base ELSE Gossip!NextWave(e, h, f[h - 1])]
           step == [h \in 1 .. N |-> [w \in Wave(e) |-> Gossip!NextWave(e, h, w)]]
<1>1. N \in Nat
  BY GossipAssumption
<1>2. ASSUME NEW h \in 1 .. N, NEW w \in Wave(e)
      PROVE  Gossip!NextWave(e, h, w) \in Wave(e)
  BY DEF Gossip!NextWave, Wave
<1>3. base \in Wave(e)
  BY DEF Wave
<1>4. PICK f \in [0 .. N -> Wave(e)] : Iterates(f, step, base, N)
  <2>1. step \in [1 .. N -> [Wave(e) -> Wave(e)]]
    BY <1>2
  <2> HIDE DEF step, N, base
  <2> QED BY <1>1, <1>3, <2>1, IterationExists
<1>5. f = F(f)
  <2>1. ASSUME NEW h \in 1 .. N PROVE f[h] = Gossip!NextWave(e, h, f[h - 1])
    <3>1. f[h - 1] \in Wave(e)
      <4> HIDE DEF N, step, base
      <4> QED BY <1>1, <1>4
    <3>2. f[h] = step[h][f[h - 1]]
      <4> HIDE DEF N, step, base
      <4> QED BY <1>4 DEF Iterates
    <3> QED BY <3>1, <3>2
  <2>2. f[0] = base
    BY <1>4 DEF Iterates
  <2> HIDE DEF N, base
  <2> QED BY <1>1, <1>4, <2>1, <2>2
<1>6. W = CHOOSE g : g = F(g)
  BY DEF Gossip!Waves
<1>7. W = F(W)
  <2> HIDE DEF F
  <2> QED BY <1>5, <1>6
<1> HIDE DEF W
<1>8. W[0] = base /\ \A h \in 1 .. N : W[h] = Gossip!NextWave(e, h, W[h - 1])
  <2> HIDE DEF N, base
  <2> QED BY <1>1, <1>7
<1> DEFINE sound == {h \in 0 .. N : W[h] \in Wave(e) /\ \A k \in 1 .. h : W[k].new \subseteq W[h].heard}
<1> HIDE DEF N
<1>9. 0 \in sound
  BY <1>1, <1>3, <1>8
<1>10. ASSUME NEW h \in 1 .. N, h - 1 \in sound
       PROVE  /\ h \in sound /\ W[h].new = {n \in Talkers \ W[h - 1].heard :
                    /\ Gossip!Carries(h) /\ <<n, e>> \notin seen
                    /\ \E s \in W[h - 1].new : <<s, n>> \in strong}
              /\ W[h].heard = W[h - 1].heard \cup W[h].new
  <2>1. W[h - 1] \in Wave(e) /\ \A k \in 1 .. h - 1 : W[k].new \subseteq W[h - 1].heard
    BY <1>10
  <2>2. W[h] \in Wave(e)
    BY <1>2, <1>8, <2>1
  <2>3. /\ W[h].new = {n \in Talkers \ W[h - 1].heard :
                    /\ Gossip!Carries(h) /\ <<n, e>> \notin seen
                    /\ \E s \in W[h - 1].new : <<s, n>> \in strong}
        /\ W[h].heard = W[h - 1].heard \cup W[h].new
    <3> DEFINE new == {n \in Talkers \ W[h - 1].heard :
                    /\ Gossip!Carries(h) /\ <<n, e>> \notin seen
                    /\ \E s \in W[h - 1].new : <<s, n>> \in strong}
    <3>1. Gossip!NextWave(e, h, W[h - 1]) = [new |-> new, heard |-> W[h - 1].heard \cup new]
      BY DEF Gossip!NextWave
    <3>2. W[h] = Gossip!NextWave(e, h, W[h - 1])
      BY <1>8
    <3> HIDE DEF new
    <3>3. W[h].new = new /\ W[h].heard = W[h - 1].heard \cup new
      BY <3>1, <3>2
    <3> QED BY <3>3 DEF new
  <2>4. \A k \in 1 .. h : k = h \/ k \in 1 .. h - 1
    BY <1>1
  <2>5. \A k \in 1 .. h : W[k].new \subseteq W[h].heard
    BY <2>1, <2>3, <2>4
  <2>6. h \in 0 .. N
    BY <1>1
  <2> QED BY <2>2, <2>3, <2>5, <2>6
<1>11. 0 .. N \subseteq sound
  <2>1. \A h \in 1 .. N : h - 1 \in sound => h \in sound
    BY <1>10
  <2> HIDE DEF sound
  <2> QED BY <1>1, <1>9, <2>1, Induction
<1>12. \A h \in 1 .. N : h - 1 \in sound
  BY <1>1, <1>11
<1>13. \A h \in 1 .. N : \A n \in W[h].new :
         /\ n \in Talkers /\ Gossip!Carries(h) /\ <<n, e>> \notin seen
         /\ \E s \in W[h - 1].new : <<s, n>> \in strong
  <2> HIDE DEF sound
  <2> QED BY <1>10, <1>12
<1>14. ASSUME NEW h \in 1 .. N, NEW k \in 1 .. N, k < h, NEW n \in W[h].new
       PROVE  n \notin W[k].new
  <2>1. n \notin W[h - 1].heard
    <3> HIDE DEF sound
    <3> QED BY <1>10, <1>12
  <2>2. k \in 1 .. h - 1
    BY <1>1, <1>14
  <2>3. W[k].new \subseteq W[h - 1].heard
    BY <1>12, <2>2
  <2> QED BY <2>1, <2>3
<1>15. \A h \in 1 .. N, k \in 1 .. N : k < h \/ h < k \/ k = h
  BY <1>1
<1>16. \A h \in 1 .. N : \A n \in W[h].new : \A k \in 1 .. N : n \in W[k].new => k = h
  BY <1>14, <1>15
<1>17. W[0].new = {origin[e]}
  BY <1>8
<1> QED BY <1>13, <1>16, <1>17 DEF W, N

\* What a propagation tells: each who hears it once, of one who heard it a hop before.
LEMMA EventsAreSound ==
  ASSUME NEW e \in Episodes
  PROVE  /\ \A g \in Gossip!Events(e) :
              /\ g.episode = e /\ g.receiver \in Talkers /\ <<g.receiver, e>> \notin seen
              /\ g.hop \in 1 .. MaxHops /\ Gossip!Carries(g.hop) /\ g.reliability = Gossip!Reliability(g.hop)
              /\ <<g.sender, g.receiver>> \in strong
              /\ IF g.hop = 1 THEN g.sender = origin[e]
                 ELSE \E o \in Gossip!Events(e) : o.receiver = g.sender /\ o.hop = g.hop - 1
              /\ \A o \in Gossip!Events(e) : o.receiver = g.receiver => o = g
         /\ IsFiniteSet(Gossip!Events(e))
<1> DEFINE W == Gossip!Waves(e)
           E == Gossip!Events(e)
<1> USE GossipAssumption
<1>1. /\ W[0].new = {origin[e]}
      /\ \A h \in 1 .. MaxHops : \A n \in W[h].new :
           /\ n \in Talkers /\ Gossip!Carries(h) /\ <<n, e>> \notin seen
           /\ \E s \in W[h - 1].new : <<s, n>> \in strong
           /\ \A k \in 1 .. MaxHops : n \in W[k].new => k = h
  BY WavesUnfold
<1>2. ASSUME NEW h \in 1 .. MaxHops, NEW n \in W[h].new
      PROVE  /\ Gossip!Event(e, h, n).episode = e /\ Gossip!Event(e, h, n).receiver = n
             /\ Gossip!Event(e, h, n).hop = h
             /\ Gossip!Event(e, h, n).reliability = Gossip!Reliability(h)
             /\ Gossip!Event(e, h, n).sender \in W[h - 1].new
             /\ <<Gossip!Event(e, h, n).sender, n>> \in strong
             /\ Gossip!Event(e, h, n) \in E
  <2> DEFINE s == CHOOSE s \in W[h - 1].new : <<s, n>> \in strong
  <2>1. \E x \in W[h - 1].new : <<x, n>> \in strong
    BY <1>1
  <2>2. s \in W[h - 1].new /\ <<s, n>> \in strong
    <3> HIDE DEF W
    <3> QED BY <2>1
  <2>3. Gossip!Event(e, h, n) =
          [episode |-> e, receiver |-> n, hop |-> h, reliability |-> Gossip!Reliability(h), sender |-> s]
    BY DEF Gossip!Event
  <2>4. Gossip!Event(e, h, n) \in E
    <3> HIDE DEF W
    <3>1. Gossip!Event(e, h, n) \in {Gossip!Event(e, h, m) : m \in W[h].new}
      OBVIOUS
    <3> QED BY <3>1 DEF Gossip!Events, W
  <2> HIDE DEF s, W
  <2> QED BY <2>2, <2>3, <2>4
<1>3. ASSUME NEW g \in E PROVE \E h \in 1 .. MaxHops : \E n \in W[h].new : g = Gossip!Event(e, h, n)
  <2>1. E = UNION {{Gossip!Event(e, h, n) : n \in W[h].new} : h \in 1 .. MaxHops}
    BY DEF Gossip!Events
  <2> HIDE DEF E, W
  <2>2. PICK h \in 1 .. MaxHops : g \in {Gossip!Event(e, h, n) : n \in W[h].new}
    BY <2>1, <1>3
  <2> QED BY <2>2
<1> HIDE DEF E, W
<1>4. ASSUME NEW g \in E
      PROVE  /\ g.episode = e /\ g.receiver \in Talkers /\ <<g.receiver, e>> \notin seen
             /\ g.hop \in 1 .. MaxHops /\ Gossip!Carries(g.hop) /\ g.reliability = Gossip!Reliability(g.hop)
             /\ <<g.sender, g.receiver>> \in strong
             /\ IF g.hop = 1 THEN g.sender = origin[e]
                ELSE \E o \in E : o.receiver = g.sender /\ o.hop = g.hop - 1
             /\ \A o \in E : o.receiver = g.receiver => o = g
  <2>0. PICK h \in 1 .. MaxHops : \E n \in W[h].new : g = Gossip!Event(e, h, n)
    BY <1>3
  <2>1. PICK n \in W[h].new : g = Gossip!Event(e, h, n)
    BY <2>0
  <2>2. /\ g.episode = e /\ g.receiver = n /\ g.hop = h /\ g.reliability = Gossip!Reliability(h)
        /\ g.sender \in W[h - 1].new /\ <<g.sender, n>> \in strong
    BY <1>2, <2>1
  <2>3. n \in Talkers /\ Gossip!Carries(h) /\ <<n, e>> \notin seen
    BY <1>1
  <2>4. ASSUME h = 1 PROVE g.sender = origin[e]
    <3>1. h - 1 = 0
      BY <2>4
    <3> QED BY <1>1, <2>2, <3>1
  <2>5. ASSUME h # 1 PROVE \E o \in E : o.receiver = g.sender /\ o.hop = g.hop - 1
    <3>1. h - 1 \in 1 .. MaxHops
      BY <2>5
    <3> DEFINE o == Gossip!Event(e, h - 1, g.sender)
    <3>2. o \in E /\ o.receiver = g.sender /\ o.hop = h - 1
      BY <1>2, <2>2, <3>1
    <3> HIDE DEF o
    <3> QED BY <2>2, <3>2
  <2>6. ASSUME NEW o \in E, o.receiver = g.receiver PROVE o = g
    <3>0. PICK k \in 1 .. MaxHops : \E m \in W[k].new : o = Gossip!Event(e, k, m)
      BY <1>3
    <3>1. PICK m \in W[k].new : o = Gossip!Event(e, k, m)
      BY <3>0
    <3>2. m = n
      BY <1>2, <2>2, <2>6, <3>1
    <3>3. k = h
      BY <1>1, <3>2
    <3> QED BY <2>1, <3>1, <3>2, <3>3
  <2>7. IF g.hop = 1 THEN g.sender = origin[e] ELSE \E o \in E : o.receiver = g.sender /\ o.hop = g.hop - 1
    BY <2>2, <2>4, <2>5
  <2> QED BY <2>2, <2>3, <2>6, <2>7
<1>5. IsFiniteSet(E)
  <2> DEFINE f == [g \in E |-> g.receiver]
  <2>1. f \in [E -> Talkers] /\ \A g \in E, o \in E : f[g] = f[o] => g = o
    BY <1>4
  <2>2. f \in Injection(E, Talkers)
    <3> HIDE DEF f
    <3> QED BY <2>1 DEF Injection, IsInjective
  <2> HIDE DEF f
  <2> QED BY <2>2, FS_Injection
<1> QED BY <1>4, <1>5 DEF E

LEMMA GossipCounts == \A S : Gossip!Cardinality(S) = Cardinality(S)
BY DEF Gossip!Cardinality, Cardinality

LEMMA GossipInit == Gossip!Init => GossipInv
<1> SUFFICES ASSUME Gossip!Init PROVE GossipInv
  OBVIOUS
<1>1. IsFiniteSet({}) /\ Cardinality({}) = 0
  BY FS_EmptySet
<1>2. \A e \in Episodes : {g \in {} : g.episode = e} = {}
  OBVIOUS
<1>3. Gossip!GossipGoesBack
  BY <1>1, <1>2, GossipCounts DEF Gossip!GossipGoesBack, Gossip!Init
<1> QED BY <1>1, <1>3 DEF GossipInv, Gossip!Init, Gossip!Nobody

LEMMA GossipStep == ASSUME GossipInv, [Gossip!Next]_(Gossip!vars) PROVE GossipInv'
<1>0. /\ origin \in [Episodes -> Talkers \cup {"nobody"}] /\ copies \in [Episodes -> Nat]
      /\ strong \subseteq ways /\ IsFiniteSet(tellings)
      /\ seen = {<<g.receiver, g.episode>> : g \in tellings}
      /\ \A g \in tellings : g.episode \in Episodes /\ origin[g.episode] # "nobody"
      /\ \A e \in Episodes : copies[e] = Cardinality(About(e))
  BY GossipCounts DEF GossipInv, Gossip!GossipGoesBack, About
<1> DEFINE Told(g, T, O, Ways) ==
             /\ \A o \in T : o.episode = g.episode /\ o.receiver = g.receiver => o = g
             /\ g.hop \in 1 .. MaxHops /\ g.reliability = Gossip!Reliability(g.hop) /\ g.reliability >= Floor
             /\ <<g.sender, g.receiver>> \in Ways
             /\ IF g.hop = 1 THEN g.sender = O[g.episode]
                ELSE \E o \in T : o.episode = g.episode /\ o.receiver = g.sender /\ o.hop = g.hop - 1
<1>1. \A g \in tellings : Told(g, tellings, origin, ways)
  BY DEF GossipInv, Gossip!GossipGoesBack
<1>2. SUFFICES /\ origin' \in [Episodes -> Talkers \cup {"nobody"}] /\ copies' \in [Episodes -> Nat]
               /\ strong' \subseteq ways' /\ IsFiniteSet(tellings')
               /\ seen' = {<<g.receiver, g.episode>> : g \in tellings'}
               /\ \A g \in tellings' : g.episode \in Episodes /\ origin'[g.episode] # "nobody"
               /\ \A e \in Episodes : copies'[e] = Cardinality({g \in tellings' : g.episode = e})
               /\ \A g \in tellings' : Told(g, tellings', origin', ways')
  BY GossipCounts DEF GossipInv, Gossip!GossipGoesBack
<1>3. ASSUME NEW e \in Episodes, Gossip!PropagateGossip(e)
      PROVE  <1>2!1
  <2> DEFINE E == Gossip!Events(e)
  <2>1. /\ origin[e] # "nobody" /\ tellings' = tellings \cup E
        /\ copies' = [copies EXCEPT ![e] = copies[e] + Cardinality(E)]
        /\ seen' = seen \cup {<<g.receiver, e>> : g \in E}
        /\ strong' = strong /\ origin' = origin /\ ways' = ways
    BY <1>3, GossipCounts DEF Gossip!PropagateGossip, Gossip!Nobody
  <2>2. /\ \A g \in E :
              /\ g.episode = e /\ g.receiver \in Talkers /\ <<g.receiver, e>> \notin seen
              /\ g.hop \in 1 .. MaxHops /\ Gossip!Carries(g.hop) /\ g.reliability = Gossip!Reliability(g.hop)
              /\ <<g.sender, g.receiver>> \in strong
              /\ IF g.hop = 1 THEN g.sender = origin[e]
                 ELSE \E o \in E : o.receiver = g.sender /\ o.hop = g.hop - 1
              /\ \A o \in E : o.receiver = g.receiver => o = g
        /\ IsFiniteSet(E)
    BY EventsAreSound
  <2> HIDE DEF E
  <2>3. IsFiniteSet(tellings') /\ \A g \in tellings' : g.episode \in Episodes /\ origin'[g.episode] # "nobody"
    BY <1>0, <2>1, <2>2, FS_Union
  <2>4. /\ seen' = {<<g.receiver, g.episode>> : g \in tellings'}
        /\ \A g \in tellings : <<g.receiver, g.episode>> \in seen
    <3>1. \A g \in E : <<g.receiver, g.episode>> = <<g.receiver, e>>
      BY <2>2
    <3>2. {<<g.receiver, g.episode>> : g \in E} = {<<g.receiver, e>> : g \in E}
      BY <3>1
    <3>3. {<<g.receiver, g.episode>> : g \in tellings'}
            = {<<g.receiver, g.episode>> : g \in tellings} \cup {<<g.receiver, g.episode>> : g \in E}
      BY <2>1
    <3> QED BY <1>0, <2>1, <3>2, <3>3
  <2>5. ASSUME NEW x \in Episodes
        PROVE  copies'[x] = Cardinality({g \in tellings' : g.episode = x}) /\ copies'[x] \in Nat
    <3>1. IsFiniteSet(About(x)) /\ Cardinality(About(x)) \in Nat /\ Cardinality(E) \in Nat
      <4>1. About(x) \in SUBSET tellings
        BY DEF About
      <4>2. IsFiniteSet(About(x))
        BY <1>0, <4>1, FS_Subset
      <4> QED BY <2>2, <4>2, FS_CardinalityType
    <3>2. CASE x = e
      <4>1. {g \in tellings' : g.episode = x} = About(e) \cup E
        BY <2>1, <2>2, <3>2 DEF About
      <4>2. \A g \in E : g \notin About(e)
        BY <2>2, <2>4 DEF About
      <4>3. About(e) \cap E = {}
        BY <4>2
      <4>4. IsFiniteSet(About(e)) /\ Cardinality(About(e)) \in Nat /\ Cardinality({}) = 0
        BY <3>1, <3>2, FS_EmptySet
      <4>5. Cardinality(About(e) \cup E) = Cardinality(About(e)) + Cardinality(E) - Cardinality(About(e) \cap E)
        BY <2>2, <4>4, FS_Union
      <4>6. Cardinality(About(e) \cup E) = Cardinality(About(e)) + Cardinality(E)
        <5>1. Cardinality(About(e) \cap E) = 0
          BY <4>3, <4>4
        <5>2. \A a \in Nat, b \in Nat : a + b - 0 = a + b
          OBVIOUS
        <5>3. Cardinality(About(e) \cup E) = Cardinality(About(e)) + Cardinality(E) - 0
          BY <4>5, <5>1
        <5> QED BY <3>1, <4>4, <5>2, <5>3
      <4>7. copies'[e] = copies[e] + Cardinality(E) /\ copies[e] = Cardinality(About(e))
        BY <1>0, <2>1
      <4>8. copies'[e] \in Nat
        BY <3>1, <4>4, <4>7
      <4>9. copies'[e] = Cardinality({g \in tellings' : g.episode = e})
        BY <3>2, <4>1, <4>6, <4>7
      <4> QED BY <3>2, <4>8, <4>9
    <3>3. CASE x # e
      <4>1. {g \in tellings' : g.episode = x} = About(x)
        BY <2>1, <2>2, <3>3 DEF About
      <4> QED BY <1>0, <2>1, <3>1, <3>3, <4>1
    <3> QED BY <3>2, <3>3
  <2>6. copies' \in [Episodes -> Nat]
    BY <1>0, <2>1, <2>5
  <2>7. ASSUME NEW g \in tellings' PROVE Told(g, tellings', origin', ways')
    <3>1. CASE g \in tellings
      <4>1. ASSUME NEW o \in E, o.episode = g.episode, o.receiver = g.receiver PROVE FALSE
        BY <2>2, <2>4, <3>1, <4>1
      <4> QED BY <1>1, <2>1, <3>1, <4>1
    <3>2. CASE g \in E
      <4>1. ASSUME NEW o \in tellings, o.episode = g.episode, o.receiver = g.receiver PROVE FALSE
        BY <2>2, <2>4, <3>2, <4>1
      <4>2. g.reliability >= Floor
        BY <2>2, <3>2 DEF Gossip!Carries
      <4>3. <<g.sender, g.receiver>> \in ways'
        BY <1>0, <2>1, <2>2, <3>2
      <4>4. \A o \in tellings' : o.episode = g.episode /\ o.receiver = g.receiver => o = g
        BY <2>1, <2>2, <3>2, <4>1
      <4>5. IF g.hop = 1 THEN g.sender = origin'[g.episode]
            ELSE \E o \in tellings' : o.episode = g.episode /\ o.receiver = g.sender /\ o.hop = g.hop - 1
        BY <2>1, <2>2, <3>2
      <4> QED BY <2>2, <3>2, <4>2, <4>3, <4>4, <4>5
    <3> QED BY <2>1, <3>1, <3>2
  <2> HIDE DEF Told
  <2> QED BY <1>0, <2>1, <2>3, <2>4, <2>5, <2>6, <2>7
<1>4. ASSUME NEW e \in Episodes, NEW n \in Talkers, Gossip!RecordEpisode(e, n)
      PROVE  <1>2!1
  <2>1. /\ origin[e] = "nobody" /\ origin' = [origin EXCEPT ![e] = n]
        /\ UNCHANGED <<strong, tellings, copies, seen, ways>>
    BY <1>4 DEF Gossip!RecordEpisode, Gossip!Nobody
  <2>2. \A g \in tellings : origin'[g.episode] = origin[g.episode]
    BY <1>0, <2>1
  <2>3. \A g \in tellings : Told(g, tellings', origin', ways')
    BY <1>1, <2>1, <2>2
  <2> HIDE DEF Told
  <2> QED BY <1>0, <2>1, <2>2, <2>3 DEF About
<1>5. ASSUME NEW edge \in Edges, Gossip!UpdateEdge(edge)
      PROVE  <1>2!1
  <2>1. /\ strong' = IF edge \in strong THEN strong \ {edge} ELSE strong \cup {edge}
        /\ ways' = ways \cup {edge} /\ UNCHANGED <<origin, tellings, copies, seen>>
    BY <1>5 DEF Gossip!UpdateEdge
  <2>2. strong' \subseteq ways'
    BY <1>0, <2>1
  <2>3. \A g \in tellings : Told(g, tellings', origin', ways')
    BY <1>1, <2>1
  <2> HIDE DEF Told
  <2> QED BY <1>0, <2>1, <2>2, <2>3 DEF About
<1>6. ASSUME UNCHANGED Gossip!vars PROVE <1>2!1
  <2>1. UNCHANGED <<strong, origin, tellings, copies, seen, ways>>
    BY <1>6 DEF Gossip!vars
  <2>2. \A g \in tellings : Told(g, tellings', origin', ways')
    BY <1>1, <2>1
  <2> HIDE DEF Told
  <2> QED BY <1>0, <2>1, <2>2 DEF About
<1> QED
  BY <1>3, <1>4, <1>5, <1>6 DEF Gossip!Next

LEMMA GossipIsSound == GossipInv => Gossip!GossipGoesBack
BY DEF GossipInv

-----------------------------------------------------------------------------
(* Memories                                                                   *)

Memory ==
  [id : Nat, turn : Nat, tier : {"working", "active", "archived", "compressed"}, compressed : BOOLEAN,
   length : Lengths \cup {SummaryLength}, lasts : Lifetimes \cup {-1}, from : SUBSET Nat]

\* What was recorded has a number, each its own; what is archived is told by one summary.
Told(M, n) ==
  /\ \A id \in 1 .. n : \E r \in M : r.id = id
  /\ \A r \in M :
       /\ r \in Memory /\ r.from \subseteq 1 .. n
       /\ r.from # {} => r.id > MaxRecords /\ r.tier = "compressed" /\ r.compressed
       /\ r.from = {} =>
            /\ r.id \in 1 .. n /\ r.tier # "compressed"
            /\ r.compressed <=> r.tier = "archived"
            /\ r.tier = "archived" <=> \E s \in M : r.id \in s.from
            /\ \A q \in M : q.from = {} /\ q.id = r.id => q = r
  /\ \A s \in M, t \in M : s.from \cap t.from # {} => s = t

\* One of the latest turn is at work, and those that are not are of earlier turns.
Latest(q, M) ==
  /\ q.tier = "working" /\ ~q.compressed
  /\ \A r \in M : r.turn <= q.turn /\ (r.tier \in {"active", "archived"} => r.turn < q.turn)

MemoryInv ==
  /\ remembered \in Seq(Memory) /\ noted \in 0 .. MaxRecords
  /\ Told(Memories!All, noted)
  /\ Memories!All # {} => \E q \in Memories!All : Latest(q, Memories!All)

LEMMA GreatestExists ==
  ASSUME NEW S \in SUBSET Nat, S # {}, NEW n \in Nat, \A s \in S : s <= n
  PROVE  \E m \in S : \A s \in S : s <= m
<1> DEFINE above == {m \in Nat : \A s \in S : s <= m}
<1>1. PICK m \in above : \A k \in above : m <= k
  <2>1. above \in SUBSET Nat /\ above # {}
    OBVIOUS
  <2> HIDE DEF above
  <2> QED BY <2>1, LeastNumber
<1>2. m \in Nat /\ \A s \in S : s <= m
  OBVIOUS
<1>3. ASSUME m \notin S PROVE FALSE
  <2>1. PICK s \in S : TRUE
    OBVIOUS
  <2>2. m - 1 \in Nat /\ \A x \in S : x <= m - 1
    <3>1. \A x \in S : x < m
      BY <1>2, <1>3
    <3> QED BY <1>2, <2>1, <3>1
  <2>3. m - 1 \in above
    BY <2>2
  <2>4. ~(m <= m - 1)
    BY <1>2
  <2> QED BY <1>1, <2>3, <2>4
<1> QED BY <1>2, <1>3

LEMMA MemoryInit == Memories!Init => MemoryInv
<1> SUFFICES ASSUME Memories!Init PROVE MemoryInv
  OBVIOUS
<1>1. remembered = <<>> /\ noted = 0
  BY DEF Memories!Init
<1>2. Memories!All = {}
  BY <1>1 DEF Memories!All
<1>3. Told({}, noted)
  BY <1>1 DEF Told
<1> QED BY <1>1, <1>2, <1>3, MemoryAssumption DEF MemoryInv

\* A memory is at work unless it is of a turn before the latest.
LEMMA TierIsWorking ==
  ASSUME MemoryInv, NEW t \in Nat
  PROVE  /\ Memories!Tier(t) \in {"working", "active"}
         /\ Memories!All = {} => Memories!Tier(t) = "working"
         /\ \A q \in Memories!All : Latest(q, Memories!All) /\ Memories!Tier(t) = "active" => t < q.turn
<1> DEFINE M == Memories!All
           turns == {r.turn : r \in M}
           recent == {u \in turns : Memories!Cardinality({v \in turns : v > u}) < WorkingTurns}
<1>1. Memories!Tier(t) = IF recent = {} \/ t >= Memories!Min(recent) THEN "working" ELSE "active"
  BY DEF Memories!Tier, Memories!Latest, Memories!Turns
<1>2. \A r \in M : r.turn \in Nat
  BY DEF MemoryInv, Told, Memory
<1> HIDE DEF M
<1>3. M = {} => recent = {}
  OBVIOUS
<1>4. ASSUME NEW q \in M, Latest(q, M), ~(t < q.turn)
      PROVE  Memories!Tier(t) = "working"
  <2>1. q.turn \in turns /\ \A v \in turns : ~(v > q.turn)
    BY <1>2, <1>4 DEF Latest
  <2>2. {v \in turns : v > q.turn} = {}
    BY <2>1
  <2>3. Memories!Cardinality({}) = 0
    <3>1. \A S : Memories!Cardinality(S) = Cardinality(S)
      BY DEF Memories!Cardinality, Cardinality
    <3> QED BY <3>1, FS_EmptySet
  <2>4. q.turn \in recent
    <3>1. Memories!Cardinality({v \in turns : v > q.turn}) < WorkingTurns
      BY <2>2, <2>3, MemoryAssumption
    <3> QED BY <2>1, <3>1
  <2>5. recent \in SUBSET Nat
    BY <1>2
  <2> HIDE DEF recent
  <2>6. PICK m \in recent : \A k \in recent : m <= k
    BY <2>4, <2>5, LeastNumber
  <2>7. Memories!Min(recent) = CHOOSE x \in recent : \A y \in recent : x <= y
    BY DEF Memories!Min
  <2>8. Memories!Min(recent) \in recent /\ \A y \in recent : Memories!Min(recent) <= y
    BY <2>6, <2>7
  <2>9. t >= Memories!Min(recent)
    <3> DEFINE least == Memories!Min(recent)
    <3>1. least \in Nat /\ least <= q.turn
      BY <2>4, <2>5, <2>8
    <3>2. q.turn \in Nat /\ ~(t < q.turn)
      BY <1>2, <1>4
    <3> HIDE DEF least
    <3>3. t >= least
      BY <3>1, <3>2
    <3> QED BY <3>3 DEF least
  <2> QED BY <1>1, <2>9
<1>5. "working" # "active"
  OBVIOUS
<1> HIDE DEF recent
<1> QED BY <1>1, <1>3, <1>4, <1>5 DEF M

LEMMA AllAre == Memories!All = {remembered[k] : k \in DOMAIN remembered}
BY DEF Memories!All

LEMMA RecordKeeps ==
  ASSUME MemoryInv, NEW t \in 1 .. MaxTurn, NEW length \in Lengths, NEW lifetime \in Lifetimes,
         Memories!Record(t, length, lifetime)
  PROVE  MemoryInv'
<1> DEFINE M == Memories!All
           new == [id |-> noted + 1, turn |-> t, tier |-> Memories!Tier(t), compressed |-> FALSE,
                   length |-> length, lasts |-> lifetime, from |-> {}]
<1>1. /\ noted < MaxRecords /\ noted' = noted + 1 /\ remembered' = Append(remembered, new)
      /\ remembered \in Seq(Memory) /\ noted \in 0 .. MaxRecords /\ Told(M, noted)
      /\ M # {} => \E q \in M : Latest(q, M)
  BY DEF MemoryInv, Memories!Record
<1>2. Memories!Tier(t) \in {"working", "active"} /\ t \in Nat
  BY TierIsWorking
<1>3. noted \in Nat /\ noted < MaxRecords /\ MaxRecords \in Nat
  BY <1>1, MemoryAssumption
<1>4. /\ new \in Memory /\ new.id = noted + 1 /\ new.turn = t /\ new.tier = Memories!Tier(t)
      /\ ~new.compressed /\ new.from = {}
  BY <1>2, <1>3 DEF Memory
<1>5. M = Memories!All
  OBVIOUS
<1> HIDE DEF new, M
<1>6. remembered' \in Seq(Memory) /\ Memories!All' = M \cup {new}
  <2>1. /\ remembered' \in Seq(Memory) /\ DOMAIN remembered' = 1 .. Len(remembered) + 1
        /\ \A k \in 1 .. Len(remembered) : remembered'[k] = remembered[k]
        /\ remembered'[Len(remembered) + 1] = new /\ Len(remembered) \in Nat
        /\ DOMAIN remembered = 1 .. Len(remembered)
    BY <1>1, <1>4
  <2>2. {remembered'[k] : k \in DOMAIN remembered'} = {remembered[k] : k \in DOMAIN remembered} \cup {new}
    <3>1. 1 .. Len(remembered) + 1 = 1 .. Len(remembered) \cup {Len(remembered) + 1}
      BY <2>1
    <3> QED BY <2>1, <3>1
  <2>3. Memories!All' = {remembered'[k] : k \in DOMAIN remembered'}
    BY DEF Memories!All
  <2> QED BY <1>5, <2>1, <2>2, <2>3, AllAre
<1>7. \A id \in 1 .. noted + 1 : id = noted + 1 \/ id \in 1 .. noted
  BY <1>3
<1>8. 1 .. noted \subseteq 1 .. noted + 1 /\ noted + 1 \in 1 .. noted + 1 /\ noted + 1 \notin 1 .. noted
  BY <1>3
<1>9. Told(M \cup {new}, noted')
  <2> DEFINE N == M \cup {new}
  <2>1. \A id \in 1 .. noted' : \E r \in N : r.id = id
    BY <1>1, <1>4, <1>7 DEF Told
  <2>2. \A s \in N, u \in N : s.from \cap u.from # {} => s = u
    BY <1>1, <1>4 DEF Told
  <2>3. ASSUME NEW r \in N
        PROVE  /\ r \in Memory /\ r.from \subseteq 1 .. noted'
               /\ r.from # {} => r.id > MaxRecords /\ r.tier = "compressed" /\ r.compressed
               /\ r.from = {} =>
                    /\ r.id \in 1 .. noted' /\ r.tier # "compressed"
                    /\ r.compressed <=> r.tier = "archived"
                    /\ r.tier = "archived" <=> \E s \in N : r.id \in s.from
                    /\ \A q \in N : q.from = {} /\ q.id = r.id => q = r
    <3>1. CASE r \in M
      <4>1. \A s \in N : r.id \in s.from => s \in M
        BY <1>4
      <4> QED BY <1>1, <1>4, <1>8, <3>1, <4>1 DEF Told
    <3>2. CASE r = new
      <4>1. \A s \in N : noted + 1 \notin s.from
        BY <1>1, <1>4, <1>8 DEF Told
      <4>2. ASSUME NEW q \in N, q.from = {}, q.id = noted + 1 PROVE q = new
        BY <1>1, <1>8, <4>2 DEF Told
      <4>3. new.tier # "compressed" /\ new.tier # "archived"
        BY <1>2, <1>4
      <4> QED BY <1>1, <1>4, <1>8, <3>2, <4>1, <4>2, <4>3
    <3> QED BY <3>1, <3>2
  <2> QED BY <2>1, <2>2, <2>3 DEF Told
<1>10. \E q \in M \cup {new} : Latest(q, M \cup {new})
  <2>1. CASE M = {}
    <3>1. Memories!Tier(t) = "working"
      BY <1>5, <2>1, TierIsWorking
    <3>2. Latest(new, M \cup {new})
      BY <1>2, <1>4, <2>1, <3>1 DEF Latest
    <3> QED BY <3>2
  <2>2. CASE M # {}
    <3>1. PICK q \in M : Latest(q, M)
      BY <1>1, <2>2
    <3>2. \A r \in M : r.turn \in Nat
      BY <1>1 DEF Told, Memory
    <3>3. CASE t < q.turn
      <4>1. Latest(q, M \cup {new})
        BY <1>4, <3>1, <3>2, <3>3 DEF Latest
      <4> QED BY <4>1
    <3>4. CASE ~(t < q.turn)
      <4>1. new.tier = "working"
        BY <1>2, <1>4, <1>5, <3>1, <3>4, TierIsWorking
      <4>2. \A r \in M : r.turn <= t /\ (r.tier \in {"active", "archived"} => r.turn < t)
        BY <1>2, <3>1, <3>2, <3>4 DEF Latest
      <4>3. Latest(new, M \cup {new})
        BY <1>2, <1>4, <4>1, <4>2 DEF Latest
      <4> QED BY <4>3
    <3> QED BY <3>3, <3>4
  <2> QED BY <2>1, <2>2
<1>11. noted' \in 0 .. MaxRecords
  BY <1>1, <1>3
<1>12. Told(Memories!All', noted') /\ (Memories!All' # {} => \E q \in Memories!All' : Latest(q, Memories!All'))
  BY <1>6, <1>9, <1>10
<1> QED BY <1>6, <1>11, <1>12 DEF MemoryInv

\* What is chosen is not compressed yet, and not of the latest turn.
LEMMA ChosenAreEarlier ==
  ASSUME MemoryInv, NEW q \in Memories!All, Latest(q, Memories!All)
  PROVE  \A r \in Memories!ToCompress : r \in Memories!All /\ ~r.compressed /\ r.turn < q.turn
<1> DEFINE M == Memories!All
           live == {r \in M : ~r.compressed}
           active == {r \in live : r.tier = "active"}
           early == {r \in live : r.turn < Memories!Max(Memories!Turns(live)) - WorkingTurns + 1}
<1>1. \A r \in M : r.turn \in Nat
  BY DEF MemoryInv, Told, Memory
<1>2. q.tier = "working" /\ ~q.compressed /\ q \in M
      /\ \A r \in M : r.turn <= q.turn /\ (r.tier \in {"active", "archived"} => r.turn < q.turn)
  BY DEF Latest
<1>3. Memories!Compressible = IF active # {} \/ live = {} THEN active ELSE early
  BY DEF Memories!Compressible
<1>4. \A r \in Memories!ToCompress : r \in Memories!Compressible
  BY DEF Memories!ToCompress
<1> HIDE DEF M
<1>5. \A r \in active : r \in M /\ ~r.compressed /\ r.turn < q.turn
  BY <1>2
<1>6. \A r \in early : r \in M /\ ~r.compressed /\ r.turn < q.turn
  <2> DEFINE turns == Memories!Turns(live)
  <2>1. turns \in SUBSET Nat /\ q.turn \in turns /\ \A n \in turns : n <= q.turn
    BY <1>1, <1>2 DEF Memories!Turns
  <2>2. Memories!Max(turns) = CHOOSE n \in turns : \A k \in turns : n >= k
    BY DEF Memories!Max
  <2> HIDE DEF turns
  <2>3. Memories!Max(turns) = q.turn
    <3>0. q.turn \in Nat /\ \A n \in turns : n \in Nat
      BY <2>1
    <3>1. \A k \in turns : q.turn >= k
      BY <2>1, <3>0
    <3>2. \A n \in turns : (\A k \in turns : n >= k) => n = q.turn
      BY <2>1, <3>0
    <3> QED BY <2>1, <2>2, <3>1, <3>2
  <2>4. q.turn \in Nat /\ WorkingTurns \in Nat \ {0}
    BY <1>1, <1>2, MemoryAssumption
  <2>5. \A r \in early : r \in M /\ ~r.compressed /\ r.turn < q.turn - WorkingTurns + 1
    BY <2>3 DEF turns
  <2> HIDE DEF early
  <2> QED BY <1>1, <2>4, <2>5
<1> HIDE DEF active, early, live
<1> QED BY <1>3, <1>4, <1>5, <1>6 DEF M

\* What is compressed is told by its summary.
LEMMA CompressKeeps == ASSUME MemoryInv, Memories!CompressIfNeeded PROVE MemoryInv'
<1> DEFINE M == Memories!All
           T == Memories!ToCompress
           ids == {r.id : r \in T}
           last == Memories!Max(Memories!Turns(T))
           s == [id |-> MaxRecords + Len(remembered), turn |-> last, tier |-> "compressed",
                 compressed |-> TRUE, length |-> SummaryLength, lasts |-> -1, from |-> ids]
           A(r) == [r EXCEPT !.tier = "archived", !.compressed = TRUE]
           kept == [k \in DOMAIN remembered |-> IF remembered[k] \in T THEN A(remembered[k]) ELSE remembered[k]]
<1>1. /\ remembered \in Seq(Memory) /\ noted \in 0 .. MaxRecords /\ Told(M, noted)
      /\ M # {} => \E q \in M : Latest(q, M)
  BY DEF MemoryInv
<1>2. noted' = noted /\ remembered' = IF T = {} THEN remembered ELSE Append(kept, s)
  BY DEF Memories!CompressIfNeeded
<1>3. M = {remembered[k] : k \in DOMAIN remembered}
      /\ Memories!All' = {remembered'[k] : k \in DOMAIN remembered'}
  BY DEF Memories!All
<1>4. \A r \in T : r \in M
  BY DEF Memories!ToCompress, Memories!Compressible
<1>5. CASE T = {}
  <2>1. Memories!All' = M
    BY <1>2, <1>3, <1>5
  <2> HIDE DEF M
  <2> QED BY <1>1, <1>2, <1>5, <2>1 DEF MemoryInv
<1>6. CASE T # {}
  <2>1. PICK q \in M : Latest(q, M)
    BY <1>1, <1>4, <1>6
  <2>2. \A r \in T : r \in M /\ ~r.compressed /\ r.turn < q.turn
    BY <2>1, ChosenAreEarlier
  <2> DEFINE N == (M \ T) \cup {A(r) : r \in T} \cup {s}
  <2>3. \A r \in M : r \in Memory /\ r.turn \in Nat /\ r.id \in Nat
    BY <1>1 DEF Told, Memory
  <2>4. /\ ids \in SUBSET Nat /\ ids # {} /\ \A id \in ids : \E r \in T : r.id = id
    BY <1>4, <1>6, <2>3
  <2>5. last \in Nat /\ last < q.turn
    <3> DEFINE turns == Memories!Turns(T)
    <3>1. turns \in SUBSET Nat /\ turns # {} /\ q.turn \in Nat /\ \A n \in turns : n < q.turn
      BY <1>6, <2>1, <2>2, <2>3 DEF Memories!Turns
    <3>2. Memories!Max(turns) = CHOOSE n \in turns : \A k \in turns : n >= k
      BY DEF Memories!Max
    <3> HIDE DEF turns
    <3>3. PICK m \in turns : \A k \in turns : k <= m
      <4>1. \A n \in turns : n <= q.turn
        BY <3>1
      <4> QED BY <3>1, <4>1, GreatestExists
    <3>4. \A k \in turns : m >= k
      BY <3>1, <3>3
    <3>5. Memories!Max(turns) \in turns
      BY <3>2, <3>4
    <3>6. Memories!Max(turns) \in Nat /\ Memories!Max(turns) < q.turn
      BY <3>1, <3>5
    <3> QED BY <3>6 DEF turns
  <2>6. \A r \in T : /\ A(r) \in Memory /\ A(r).id = r.id /\ A(r).turn = r.turn /\ A(r).tier = "archived"
                     /\ A(r).compressed /\ A(r).from = r.from
    BY <1>4, <2>3 DEF Memory
  <2>7. /\ Len(remembered) \in Nat \ {0} /\ DOMAIN remembered = 1 .. Len(remembered)
    BY <1>1, <1>3, <2>1
  <2>8. /\ s.id > MaxRecords /\ s.turn = last /\ s.tier = "compressed" /\ s.compressed /\ s.from = ids
        /\ s \in Memory
    <3>1. MaxRecords + Len(remembered) \in Nat /\ MaxRecords + Len(remembered) > MaxRecords
      BY <2>7, MemoryAssumption
    <3> HIDE DEF ids, last
    <3> QED BY <2>4, <2>5, <3>1 DEF Memory
  <2> HIDE DEF A, s, ids, last, T, M
  <2>9. remembered' \in Seq(Memory) /\ Memories!All' = N
    <3> DEFINE n == Len(remembered)
    <3>1. kept \in Seq(Memory) /\ Len(kept) = n
      <4>1. \A k \in 1 .. n : kept[k] \in Memory
        BY <1>3, <2>3, <2>6, <2>7
      <4>2. kept \in [1 .. n -> Memory]
        BY <2>7, <4>1
      <4> HIDE DEF kept
      <4> QED BY <2>7, <4>2
    <3>2. \A k \in 1 .. n : kept[k] = IF remembered[k] \in T THEN A(remembered[k]) ELSE remembered[k]
      BY <2>7
    <3> HIDE DEF kept
    <3>3. /\ remembered' \in Seq(Memory) /\ DOMAIN remembered' = 1 .. n + 1
          /\ \A k \in 1 .. n : remembered'[k] = kept[k]
          /\ remembered'[n + 1] = s
      BY <1>2, <1>6, <2>8, <3>1
    <3>4. M = {remembered[k] : k \in 1 .. n}
      BY <1>3, <2>7
    <3>5. {kept[k] : k \in 1 .. n} = (M \ T) \cup {A(r) : r \in T}
      <4>1. ASSUME NEW k \in 1 .. n PROVE kept[k] \in (M \ T) \cup {A(r) : r \in T}
        BY <3>2, <3>4
      <4>2. ASSUME NEW r \in M \ T PROVE \E k \in 1 .. n : kept[k] = r
        BY <3>2, <3>4
      <4>3. ASSUME NEW r \in T PROVE \E k \in 1 .. n : kept[k] = A(r)
        BY <1>4, <3>2, <3>4
      <4> QED BY <4>1, <4>2, <4>3
    <3>6. {remembered'[k] : k \in 1 .. n + 1} = {kept[k] : k \in 1 .. n} \cup {s}
      <4>1. 1 .. n + 1 = 1 .. n \cup {n + 1}
        BY <2>7
      <4> QED BY <3>3, <4>1
    <3> QED BY <1>3, <3>3, <3>5, <3>6
  <2>10. Latest(q, N) /\ q \in N
    <3>1. q \notin T
      BY <2>1, <2>2, <2>3
    <3>2. \A r \in N : r.turn <= q.turn /\ (r.tier \in {"active", "archived"} => r.turn < q.turn)
      BY <2>1, <2>2, <2>3, <2>5, <2>6, <2>8 DEF Latest
    <3> QED BY <2>1, <3>1, <3>2 DEF Latest
  <2>11. Told(N, noted)
    <3>1. \A id \in 1 .. noted : \E r \in N : r.id = id
      BY <1>1, <2>6 DEF Told
    <3>2. \A r \in T : r.from = {} /\ r.id \in 1 .. noted /\ \A t \in M : r.id \notin t.from
      BY <1>1, <2>2 DEF Told
    <3>3. \A x \in N, t \in N : x.from \cap t.from # {} => x = t
      <4>1. \A t \in M \ T : t.from \cap s.from = {}
        <5>1. ASSUME NEW t \in M \ T, NEW x \in t.from, x \in s.from PROVE FALSE
          <6>1. PICK o \in T : o.id = x
            BY <2>4, <2>8, <5>1
          <6> QED BY <3>2, <5>1, <6>1
        <5> QED BY <5>1
      <4>2. \A r \in T : A(r).from = {}
        BY <2>6, <3>2
      <4>3. \A x \in M \ T, t \in M \ T : x.from \cap t.from # {} => x = t
        BY <1>1 DEF Told
      <4> QED BY <4>1, <4>2, <4>3
    <3>4. \A r \in M \ T : r.from = {} => r.id \notin s.from
      <4>1. ASSUME NEW r \in M \ T, r.from = {}, r.id \in s.from PROVE FALSE
        <5>1. PICK o \in T : o.id = r.id
          BY <2>4, <2>8, <4>1
        <5>2. \A x \in M : x.from = {} /\ x.id = r.id => x = r
          BY <1>1, <4>1 DEF Told
        <5> QED BY <1>4, <3>2, <4>1, <5>1, <5>2
      <4> QED BY <4>1
    <3>5. ASSUME NEW r \in N
          PROVE  /\ r \in Memory /\ r.from \subseteq 1 .. noted
                 /\ r.from # {} => r.id > MaxRecords /\ r.tier = "compressed" /\ r.compressed
                 /\ r.from = {} =>
                      /\ r.id \in 1 .. noted /\ r.tier # "compressed"
                      /\ r.compressed <=> r.tier = "archived"
                      /\ r.tier = "archived" <=> \E t \in N : r.id \in t.from
                      /\ \A x \in N : x.from = {} /\ x.id = r.id => x = r
      <4>1. CASE r \in M \ T
        <5>1. /\ r \in Memory /\ r.from \subseteq 1 .. noted
              /\ r.from # {} => r.id > MaxRecords /\ r.tier = "compressed" /\ r.compressed
              /\ r.from = {} =>
                   /\ r.id \in 1 .. noted /\ r.tier # "compressed"
                   /\ r.compressed <=> r.tier = "archived"
                   /\ r.tier = "archived" <=> \E t \in M : r.id \in t.from
                   /\ \A x \in M : x.from = {} /\ x.id = r.id => x = r
          BY <1>1, <4>1 DEF Told
        <5>2. r.from = {} => ((\E t \in N : r.id \in t.from) <=> \E t \in M : r.id \in t.from)
          BY <2>6, <3>2, <3>4, <4>1
        <5>3. ASSUME NEW x \in N, x.from = {}, r.from = {}, x.id = r.id PROVE x = r
          BY <2>4, <2>6, <2>8, <1>4, <3>2, <4>1, <5>1, <5>3
        <5> QED BY <5>1, <5>2, <5>3
      <4>2. ASSUME NEW o \in T, r = A(o) PROVE <3>5!2
        <5>1. r \in Memory /\ r.id = o.id /\ r.tier = "archived" /\ r.compressed /\ r.from = {}
          BY <2>6, <3>2, <4>2
        <5>2. r.id \in s.from /\ s \in N
          BY <2>8, <5>1 DEF ids
        <5>3. \A x \in M : x.from = {} /\ x.id = o.id => x = o
          BY <1>1, <1>4, <3>2 DEF Told
        <5>4. ASSUME NEW x \in N, x.from = {}, x.id = r.id PROVE x = r
          <6>1. CASE x \in M \ T
            BY <5>1, <5>3, <5>4, <6>1
          <6>2. ASSUME NEW y \in T, x = A(y) PROVE x = r
            BY <1>4, <2>6, <3>2, <4>2, <5>1, <5>3, <5>4, <6>2
          <6>3. x # s
            BY <2>4, <2>8, <5>4
          <6> QED BY <6>1, <6>2, <6>3
        <5>5. \E t \in N : r.id \in t.from
          BY <5>2
        <5> QED BY <3>2, <5>1, <5>4, <5>5
      <4>3. CASE r = s
        <5>1. s.from # {} /\ s.id > MaxRecords /\ s.tier = "compressed" /\ s.compressed /\ s \in Memory
          BY <2>4, <2>8
        <5>2. s.from \subseteq 1 .. noted
          BY <2>4, <2>8, <3>2
        <5> QED BY <4>3, <5>1, <5>2
      <4> QED BY <4>1, <4>2, <4>3
    <3> QED BY <3>1, <3>3, <3>5 DEF Told
  <2> HIDE DEF N
  <2> QED BY <1>1, <1>2, <2>9, <2>10, <2>11 DEF MemoryInv
<1> QED BY <1>5, <1>6

LEMMA MemoryStep == ASSUME MemoryInv, [Memories!Next]_(Memories!vars) PROVE MemoryInv'
<1>1. ASSUME UNCHANGED Memories!vars PROVE MemoryInv'
  <2>1. remembered' = remembered /\ noted' = noted
    BY <1>1 DEF Memories!vars
  <2>2. Memories!All' = Memories!All
    BY <2>1 DEF Memories!All
  <2> QED BY <2>1, <2>2 DEF MemoryInv
<1> QED BY <1>1, RecordKeeps, CompressKeeps DEF Memories!Next

\* What was recorded is there, or in what tells of it.
LEMMA MemoryIsSound == MemoryInv => Memories!NothingIsForgotten
<1> SUFFICES ASSUME MemoryInv PROVE Memories!NothingIsForgotten
  OBVIOUS
<1> DEFINE M == Memories!All
           P(id) == {r \in Memories!Present : r.id = id}
           S(id) == {r \in Memories!Summaries : id \in r.from}
<1>1. Told(M, noted) /\ noted \in 0 .. MaxRecords /\ (M # {} => \E q \in M : Latest(q, M))
  BY DEF MemoryInv
<1>2. /\ Memories!Present = {r \in M : r.tier # "archived"}
      /\ Memories!Summaries = {r \in M : r.from # {}}
  BY DEF Memories!Present, Memories!Summaries
<1> HIDE DEF M
<1>3. ASSUME NEW id \in 1 .. noted
      PROVE  Memories!Cardinality(P(id)) + Memories!Cardinality(S(id)) = 1
  <2>1. id <= MaxRecords /\ id \in Nat
    BY <1>1, MemoryAssumption
  <2>2. PICK r \in M : r.id = id
    BY <1>1 DEF Told
  <2>3. \A q \in M : q.id = id => q.from = {}
    <3>1. \A q \in M : q.from # {} => q.id > MaxRecords /\ q.id \in Nat
      BY <1>1 DEF Told, Memory
    <3> QED BY <2>1, <3>1, MemoryAssumption
  <2>4. /\ r.from = {} /\ \A q \in M : q.id = id => q = r
        /\ r.tier = "archived" <=> \E t \in M : id \in t.from
    BY <1>1, <2>2, <2>3 DEF Told
  <2>5. \A T : Memories!Cardinality(T) = Cardinality(T)
    BY DEF Memories!Cardinality, Cardinality
  <2>6. Cardinality({}) = 0 /\ \A x : Cardinality({x}) = 1
    BY FS_EmptySet, FS_Singleton
  <2>7. CASE r.tier = "archived"
    <3>1. PICK t \in M : id \in t.from
      BY <2>4, <2>7
    <3>2. \A x \in M : id \in x.from => x = t
      BY <1>1, <3>1 DEF Told
    <3>3. P(id) = {} /\ S(id) = {t}
      BY <1>2, <2>4, <2>7, <3>1, <3>2
    <3> HIDE DEF P, S
    <3>4. Memories!Cardinality(P(id)) = 0 /\ Memories!Cardinality(S(id)) = 1
      BY <2>5, <2>6, <3>3
    <3> QED BY <3>4
  <2>8. CASE r.tier # "archived"
    <3>1. P(id) = {r} /\ S(id) = {}
      BY <1>2, <2>2, <2>4, <2>8
    <3> HIDE DEF P, S
    <3>2. Memories!Cardinality(P(id)) = 1 /\ Memories!Cardinality(S(id)) = 0
      BY <2>5, <2>6, <3>1
    <3> QED BY <3>2
  <2> QED BY <2>7, <2>8
<1>4. ASSUME NEW r \in M, r.tier = "archived"
      PROVE  \E q \in Memories!Present : q.turn > r.turn /\ ~q.compressed
  <2>1. PICK q \in M : Latest(q, M)
    BY <1>1
  <2>2. q.tier = "working" /\ ~q.compressed /\ r.turn < q.turn
    BY <1>4, <2>1 DEF Latest
  <2>3. q.turn \in Nat /\ r.turn \in Nat
    BY <1>1 DEF Told, Memory
  <2> QED BY <1>2, <2>2, <2>3
<1> QED BY <1>3, <1>4 DEF Memories!NothingIsForgotten, M

-----------------------------------------------------------------------------
(* Prompts                                                                    *)

Cache == [Bridge!Labels -> Nat]
Replica ==
  [pc : {"down", "seeding", "creating", "up"}, body : Nat, cache : Cache, endless : BOOLEAN]

Langfuse == [bodies : Seq(Nat), label : Cache]

\* A server that caches another version of a label than the live one has not been told; the
\* one it seeded has the body of its file.
Excused(s, r, fuse, un, med) ==
  /\ \A l \in Bridge!Labels :
       /\ r.cache[l] <= Len(fuse.bodies)
       /\ r.cache[l] = 0 \/ r.cache[l] = fuse.label[l] \/ <<s, l>> \in un
  /\ r.pc = "up" /\ s \notin med /\ r.cache["production"] # 0
       => fuse.bodies[r.cache["production"]] = r.body

PromptsInv ==
  /\ deployed \in Nat /\ langfuse \in Langfuse /\ server \in [Servers -> Replica]
  /\ \A l \in Bridge!Labels : langfuse.label[l] <= Len(langfuse.bodies)
  /\ \A s \in Servers : Excused(s, server[s], langfuse, unseen, meddled)

LEMMA LabelsAre == Bridge!Labels = {"production", "staging"}
BY DEF Bridge!Labels

LEMMA PromptsInit == Bridge!Init => PromptsInv
<1> SUFFICES ASSUME Bridge!Init PROVE PromptsInv
  OBVIOUS
<1> USE DEF Bridge!Init, Bridge!Nothing, Bridge!NoVersion, Bridge!Down
<1>1. [l \in Bridge!Labels |-> 0] \in Cache
  BY DEF Cache
<1>2. Bridge!Down \in Replica /\ Bridge!Down.pc = "down" /\ \A l \in Bridge!Labels : Bridge!Down.cache[l] = 0
  BY <1>1 DEF Replica
<1>3. \A s \in Servers : server[s] = Bridge!Down
  OBVIOUS
<1>4. /\ langfuse.bodies = <<>> /\ Len(<<>>) = 0 /\ \A l \in Bridge!Labels : langfuse.label[l] = 0
      /\ langfuse \in Langfuse
  BY <1>1 DEF Langfuse
<1> HIDE DEF Bridge!Down
<1>5. \A s \in Servers : Excused(s, server[s], langfuse, unseen, meddled)
  BY <1>2, <1>3, <1>4, LabelsAre DEF Excused
<1> QED BY <1>2, <1>4, <1>5 DEF PromptsInv

\* What another server does not touch stays excused.
LEMMA OthersStay ==
  ASSUME NEW x, NEW r \in Replica, NEW fuse \in Langfuse, NEW un, NEW med,
         NEW fuse2 \in Langfuse, NEW un2, NEW med2,
         Excused(x, r, fuse, un, med),
         Len(fuse.bodies) <= Len(fuse2.bodies),
         \A k \in 1 .. Len(fuse.bodies) : fuse2.bodies[k] = fuse.bodies[k],
         \A l \in Bridge!Labels :
           /\ <<x, l>> \in un => <<x, l>> \in un2
           /\ fuse2.label[l] = fuse.label[l] \/ r.cache[l] = 0 \/ <<x, l>> \in un2,
         x \notin med2 => x \notin med
  PROVE  Excused(x, r, fuse2, un2, med2)
<1>1. /\ Len(fuse.bodies) \in Nat /\ Len(fuse2.bodies) \in Nat
      /\ \A l \in Bridge!Labels : r.cache[l] \in Nat
  BY DEF Langfuse, Replica, Cache
<1>2. \A l \in Bridge!Labels :
        /\ r.cache[l] <= Len(fuse2.bodies)
        /\ r.cache[l] = 0 \/ r.cache[l] = fuse2.label[l] \/ <<x, l>> \in un2
  BY <1>1 DEF Excused
<1>3. r.cache["production"] # 0 => r.cache["production"] \in 1 .. Len(fuse.bodies)
  BY <1>1, LabelsAre DEF Excused
<1> QED BY <1>2, <1>3 DEF Excused

\* What a server is after a step of it.
Running == {"seeding", "creating", "up"}
Stepped(old, pc, l, version) == [old EXCEPT !.pc = pc, !.cache[l] = version]
Fetched(old, l, version) == [old EXCEPT !.cache[l] = version]

LEMMA ServerBecomes ==
  ASSUME NEW old \in Replica, NEW l \in Bridge!Labels, NEW pc \in Running, NEW version \in Nat
  PROVE  /\ Stepped(old, pc, l, version) \in Replica
         /\ Stepped(old, pc, l, version).cache[l] = version
         /\ Stepped(old, pc, l, version).body = old.body
         /\ Stepped(old, pc, l, version).pc = pc
         /\ \A k \in Bridge!Labels \ {l} : Stepped(old, pc, l, version).cache[k] = old.cache[k]
         /\ old.pc = pc => Fetched(old, l, version) = Stepped(old, pc, l, version)
<1> DEFINE c == [old.cache EXCEPT ![l] = version]
           r == [pc |-> pc, body |-> old.body, cache |-> c, endless |-> old.endless]
<1>1. /\ old.cache \in Cache /\ old.body \in Nat /\ old.endless \in BOOLEAN
      /\ old = [pc |-> old.pc, body |-> old.body, cache |-> old.cache, endless |-> old.endless]
  BY DEF Replica
<1>2. c \in Cache /\ c[l] = version /\ \A k \in Bridge!Labels \ {l} : c[k] = old.cache[k]
  BY <1>1 DEF Cache
<1>3. r \in Replica
  <2> HIDE DEF c
  <2> QED BY <1>1, <1>2 DEF Replica, Running
<1>4. Stepped(old, pc, l, version) = [[old EXCEPT !.pc = pc] EXCEPT !.cache = c]
  BY <1>1 DEF Stepped
<1>5. Fetched(old, l, version) = [old EXCEPT !.cache = c]
  BY DEF Fetched
<1> HIDE DEF c
<1>6. [old EXCEPT !.pc = pc] = [pc |-> pc, body |-> old.body, cache |-> old.cache, endless |-> old.endless]
  BY <1>1
<1>7. [old EXCEPT !.cache = c] = [pc |-> old.pc, body |-> old.body, cache |-> c, endless |-> old.endless]
  BY <1>1
<1>8. Stepped(old, pc, l, version) = r
  BY <1>4, <1>6
<1>9. old.pc = pc => Fetched(old, l, version) = r
  BY <1>5, <1>7
<1>10. r.cache = c /\ r.body = old.body /\ r.pc = pc
  OBVIOUS
<1> HIDE DEF r
<1> QED BY <1>2, <1>3, <1>8, <1>9, <1>10

LEMMA PromptsStep == ASSUME PromptsInv, [Bridge!Next]_(Bridge!vars) PROVE PromptsInv'
<1> USE DEF Bridge!NoVersion
<1>0. /\ deployed \in Nat /\ langfuse \in Langfuse /\ server \in [Servers -> Replica]
      /\ \A l \in Bridge!Labels : langfuse.label[l] <= Len(langfuse.bodies)
      /\ \A s \in Servers : Excused(s, server[s], langfuse, unseen, meddled)
  BY DEF PromptsInv
<1>l. "production" \in Bridge!Labels
  BY LabelsAre
<1>t. /\ langfuse.bodies \in Seq(Nat) /\ langfuse.label \in Cache /\ Len(langfuse.bodies) \in Nat
      /\ langfuse = [bodies |-> langfuse.bodies, label |-> langfuse.label]
      /\ \A l \in Bridge!Labels : langfuse.label[l] \in Nat
  BY <1>0 DEF Langfuse, Cache
\* A server changes while the labels stay.
<1>1. ASSUME NEW s \in Servers, NEW r \in Replica, server' = [server EXCEPT ![s] = r],
             langfuse' = langfuse, deployed' = deployed,
             Excused(s, r, langfuse, unseen', meddled'),
             \A x \in Servers \ {s} : /\ x \notin meddled' => x \notin meddled
                                      /\ \A l \in Bridge!Labels : <<x, l>> \in unseen => <<x, l>> \in unseen'
      PROVE  PromptsInv'
  <2>1. server' \in [Servers -> Replica]
    BY <1>0, <1>1
  <2>2. ASSUME NEW x \in Servers PROVE Excused(x, server'[x], langfuse', unseen', meddled')
    <3>1. CASE x = s
      BY <1>0, <1>1, <3>1
    <3>2. CASE x # s
      <4>1. server'[x] = server[x] /\ server[x] \in Replica
        BY <1>0, <1>1, <3>2
      <4>2. Excused(x, server[x], langfuse, unseen', meddled')
        <5>1. Len(langfuse.bodies) <= Len(langfuse.bodies)
          BY <1>t
        <5> QED BY <1>0, <1>1, <3>2, <4>1, <5>1, OthersStay
      <4> QED BY <1>1, <4>1, <4>2
    <3> QED BY <3>1, <3>2
  <2> QED BY <1>0, <1>1, <2>1, <2>2 DEF PromptsInv
\* A label moves, and a server may change.
<1>2. ASSUME NEW s \in Servers, NEW r \in Replica, server' = [server EXCEPT ![s] = r],
             NEW l \in Bridge!Labels, NEW version \in 1 .. Len(langfuse'.bodies),
             langfuse' \in Langfuse, langfuse'.label = [langfuse.label EXCEPT ![l] = version],
             Len(langfuse.bodies) <= Len(langfuse'.bodies),
             \A k \in 1 .. Len(langfuse.bodies) : langfuse'.bodies[k] = langfuse.bodies[k],
             deployed' = deployed, meddled' = meddled,
             Excused(s, r, langfuse', unseen', meddled'),
             \A x \in Servers \ {s} :
               /\ \A k \in Bridge!Labels : <<x, k>> \in unseen => <<x, k>> \in unseen'
               /\ server[x].cache[l] = 0 \/ <<x, l>> \in unseen'
      PROVE  PromptsInv'
  <2>1. server' \in [Servers -> Replica]
    BY <1>0, <1>2
  <2>2. ASSUME NEW x \in Servers PROVE Excused(x, server'[x], langfuse', unseen', meddled')
    <3>1. CASE x = s
      BY <1>0, <1>2, <3>1
    <3>2. CASE x # s
      <4>1. server'[x] = server[x] /\ server[x] \in Replica
        BY <1>0, <1>2, <3>2
      <4>2. \A k \in Bridge!Labels : langfuse'.label[k] = langfuse.label[k] \/ k = l
        BY <1>2, <1>t DEF Cache
      <4>3. \A k \in Bridge!Labels :
              /\ <<x, k>> \in unseen => <<x, k>> \in unseen'
              /\ langfuse'.label[k] = langfuse.label[k] \/ server[x].cache[k] = 0 \/ <<x, k>> \in unseen'
        BY <1>2, <3>2, <4>2
      <4>4. Excused(x, server[x], langfuse', unseen', meddled')
        <5>1. /\ langfuse \in Langfuse /\ langfuse' \in Langfuse
              /\ Excused(x, server[x], langfuse, unseen, meddled)
          BY <1>0, <1>2
        <5>2. /\ Len(langfuse.bodies) <= Len(langfuse'.bodies)
              /\ \A k \in 1 .. Len(langfuse.bodies) : langfuse'.bodies[k] = langfuse.bodies[k]
              /\ x \notin meddled' => x \notin meddled
          BY <1>2
        <5> QED BY <4>1, <4>3, <5>1, <5>2, OthersStay
      <4> QED BY <4>1, <4>4
    <3> QED BY <3>1, <3>2
  <2>3. \A k \in Bridge!Labels : langfuse'.label[k] <= Len(langfuse'.bodies)
    <3>1. Len(langfuse'.bodies) \in Nat
      BY <1>2 DEF Langfuse
    <3>2. \A k \in Bridge!Labels : langfuse'.label[k] = IF k = l THEN version ELSE langfuse.label[k]
      BY <1>2, <1>t DEF Cache
    <3> QED BY <1>0, <1>2, <1>t, <3>1, <3>2
  <2>4. deployed' \in Nat /\ langfuse' \in Langfuse
    BY <1>0, <1>2
  <2> QED BY <2>1, <2>2, <2>3, <2>4 DEF PromptsInv

<1>b. ASSUME NEW s \in Servers
      PROVE  /\ server[s] = [pc |-> server[s].pc, body |-> server[s].body, cache |-> server[s].cache,
                             endless |-> server[s].endless]
             /\ server[s] \in Replica /\ server[s].cache \in Cache
  BY <1>0 DEF Replica, Cache
<1>3. ASSUME NEW s \in Servers, Bridge!Start(s) PROVE PromptsInv'
  <2>1. PICK files \in Graphs : server' = [server EXCEPT ![s] =
          [pc |-> "seeding", body |-> deployed, cache |-> Bridge!Nothing, endless |-> Bridge!Endless(files)]]
    BY <1>3 DEF Bridge!Start
  <2>2. deployed' = deployed /\ langfuse' = langfuse /\ unseen' = unseen /\ meddled' = meddled
    BY <1>3 DEF Bridge!Start
  <2>3. Bridge!Endless(files) \in BOOLEAN
    BY DEF Bridge!Endless
  <2>4. Bridge!Nothing \in Cache /\ \A l \in Bridge!Labels : Bridge!Nothing[l] = 0
    BY DEF Bridge!Nothing, Cache
  <2> DEFINE r == [pc |-> "seeding", body |-> deployed, cache |-> Bridge!Nothing,
                   endless |-> Bridge!Endless(files)]
  <2>5. r \in Replica /\ r.pc = "seeding" /\ \A l \in Bridge!Labels : r.cache[l] = 0
    BY <1>0, <2>3, <2>4 DEF Replica
  <2>6. server' = [server EXCEPT ![s] = r]
    BY <2>1
  <2> HIDE DEF r
  <2>7. Excused(s, r, langfuse, unseen', meddled')
    BY <1>t, <2>5 DEF Excused
  <2> QED BY <1>1, <2>2, <2>5, <2>6, <2>7
<1>4. ASSUME NEW s \in Servers, Bridge!Stop(s) PROVE PromptsInv'
  <2>1. /\ server' = [server EXCEPT ![s] = Bridge!Down] /\ deployed' = deployed /\ langfuse' = langfuse
        /\ unseen' = {u \in unseen : u[1] # s} /\ meddled' = meddled \ {s}
    BY <1>4 DEF Bridge!Stop
  <2>2. Bridge!Down \in Replica /\ Bridge!Down.pc = "down" /\ \A l \in Bridge!Labels : Bridge!Down.cache[l] = 0
    BY DEF Bridge!Down, Bridge!Nothing, Replica, Cache
  <2>3. Excused(s, Bridge!Down, langfuse, unseen', meddled')
    BY <1>t, <2>2 DEF Excused
  <2>4. \A x \in Servers \ {s} : \A l \in Bridge!Labels : <<x, l>> \in unseen => <<x, l>> \in unseen'
    BY <2>1
  <2> QED BY <1>1, <2>1, <2>2, <2>3, <2>4
<1>5. ASSUME NEW s \in Servers, Bridge!SeedSkips(s) PROVE PromptsInv'
  <2> DEFINE r == Stepped(server[s], "up", "production", langfuse.label["production"])
  <2>1. /\ langfuse.label["production"] # 0
        /\ langfuse.bodies[langfuse.label["production"]] = server[s].body
        /\ deployed' = deployed /\ langfuse' = langfuse /\ unseen' = unseen /\ meddled' = meddled
    BY <1>5 DEF Bridge!SeedSkips, Bridge!SameBody, Bridge!Live
  <2>0. langfuse.label["production"] \in Nat /\ "up" \in Running
    BY <1>l, <1>t DEF Running
  <2>2. server' = [server EXCEPT ![s] = r]
    <3>1. server' = [server EXCEPT ![s].pc = "up", ![s].cache["production"] = langfuse.label["production"]]
      BY <1>5 DEF Bridge!SeedSkips, Bridge!Seeded, Bridge!Live
    <3> QED BY <1>0, <3>1 DEF Stepped
  <2>3. /\ r \in Replica /\ r.cache["production"] = langfuse.label["production"] /\ r.body = server[s].body
        /\ \A k \in Bridge!Labels \ {"production"} : r.cache[k] = server[s].cache[k]
    <3>1. server[s] \in Replica /\ "up" \in Running /\ "production" \in Bridge!Labels /\ langfuse.label["production"] \in Nat
      BY <1>b, <1>l, <2>0
    <3> HIDE DEF r
    <3>2. /\ r \in Replica /\ r.cache["production"] = langfuse.label["production"] /\ r.body = server[s].body /\ r.pc = "up"
          /\ \A k \in Bridge!Labels \ {"production"} : r.cache[k] = server[s].cache[k]
      BY <3>1, ServerBecomes DEF r
    <3> QED BY <3>2
  <2> HIDE DEF r
  <2>4. Excused(s, r, langfuse, unseen', meddled')
    BY <1>0, <2>1, <2>3 DEF Excused
  <2> QED BY <1>1, <2>1, <2>2, <2>3, <2>4
<1>6. ASSUME NEW s \in Servers, Bridge!SeedDiffers(s) \/ Bridge!SeedFails(s) PROVE PromptsInv'
  <2> DEFINE pc == IF Bridge!SeedDiffers(s) THEN "creating" ELSE "up"
             r == [server[s] EXCEPT !.pc = pc]
  <2>1. /\ server' = [server EXCEPT ![s].pc = pc] /\ deployed' = deployed /\ langfuse' = langfuse
        /\ unseen' = unseen /\ meddled \subseteq meddled' /\ meddled' \subseteq meddled \cup {s}
        /\ pc = "up" => s \in meddled'
    BY <1>6 DEF Bridge!SeedDiffers, Bridge!SeedFails
  <2>2. pc \in {"creating", "up"}
    OBVIOUS
  <2> HIDE DEF pc
  <2>3. server' = [server EXCEPT ![s] = r] /\ r \in Replica /\ r.cache = server[s].cache /\ r.pc = pc
    BY <1>0, <1>b, <1>l, <2>1, <2>2 DEF Replica
  <2> HIDE DEF r
  <2>4. Excused(s, r, langfuse, unseen', meddled')
    BY <1>0, <2>1, <2>2, <2>3 DEF Excused
  <2> QED BY <1>1, <2>1, <2>3, <2>4
<1>7. ASSUME NEW s \in Servers, Bridge!SeedCreates(s) PROVE PromptsInv'
  <2> DEFINE version == Len(langfuse.bodies) + 1
             r == Stepped(server[s], "up", "production", version)
  <2>1. /\ langfuse' = [bodies |-> Append(langfuse.bodies, server[s].body),
                        label |-> [langfuse.label EXCEPT !["production"] = version]]
        /\ unseen' = unseen \cup {<<x, "production">> : x \in {x \in Servers \ {s} : server[x].cache["production"] # 0}}
        /\ deployed' = deployed /\ meddled' = meddled
    BY <1>7 DEF Bridge!SeedCreates, Bridge!Unseen
  <2>0. version \in Nat /\ "up" \in Running
    BY <1>t DEF Running
  <2>2. server' = [server EXCEPT ![s] = r]
    <3>1. server' = [server EXCEPT ![s].pc = "up", ![s].cache["production"] = version]
      BY <1>7 DEF Bridge!SeedCreates, Bridge!Seeded
    <3> QED BY <1>0, <3>1 DEF Stepped
  <2>3. version \in Nat /\ version = Len(langfuse.bodies) + 1
    BY <1>t
  <2> HIDE DEF version
  <2>4. /\ r \in Replica /\ r.cache["production"] = version /\ r.body = server[s].body
        /\ \A k \in Bridge!Labels \ {"production"} : r.cache[k] = server[s].cache[k]
    <3>1. server[s] \in Replica /\ "up" \in Running /\ "production" \in Bridge!Labels /\ version \in Nat
      BY <1>b, <1>l, <2>0
    <3> HIDE DEF r
    <3>2. /\ r \in Replica /\ r.cache["production"] = version /\ r.body = server[s].body /\ r.pc = "up"
          /\ \A k \in Bridge!Labels \ {"production"} : r.cache[k] = server[s].cache[k]
      BY <3>1, ServerBecomes DEF r
    <3> QED BY <3>2
  <2>5. server[s].body \in Nat
    BY <1>0 DEF Replica
  <2>6. /\ langfuse'.bodies = Append(langfuse.bodies, server[s].body)
        /\ langfuse'.label = [langfuse.label EXCEPT !["production"] = version]
    BY <2>1
  <2>7. langfuse' \in Langfuse
    <3>1. langfuse'.bodies \in Seq(Nat)
      BY <1>t, <2>5, <2>6
    <3>3. langfuse'.label \in Cache
      BY <1>t, <2>3, <2>6 DEF Cache
    <3>2. langfuse' = [bodies |-> langfuse'.bodies, label |-> langfuse'.label]
      BY <2>1
    <3> QED BY <3>1, <3>2, <3>3 DEF Langfuse
  <2>8. /\ Len(langfuse'.bodies) = version /\ langfuse'.bodies[version] = server[s].body
        /\ \A k \in 1 .. Len(langfuse.bodies) : langfuse'.bodies[k] = langfuse.bodies[k]
    BY <1>t, <2>3, <2>5, <2>6
  <2>9. /\ langfuse'.label["production"] = version
        /\ \A k \in Bridge!Labels \ {"production"} : langfuse'.label[k] = langfuse.label[k]
    BY <1>l, <1>t, <2>6 DEF Cache
  <2> HIDE DEF r
  <2>10. \A k \in Bridge!Labels : server[s].cache[k] \in Nat
    BY <1>0 DEF Replica, Cache
  <2>11. \A k \in Bridge!Labels : r.cache[k] <= Len(langfuse'.bodies)
    <3>1. \A k \in Bridge!Labels : server[s].cache[k] <= Len(langfuse.bodies)
      BY <1>0 DEF Excused
    <3>2. \A n \in Nat : n <= Len(langfuse.bodies) => n <= version
      BY <1>t, <2>3
    <3>3. version <= version
      BY <2>3
    <3> QED BY <2>4, <2>8, <2>10, <3>1, <3>2, <3>3
  <2>12. \A k \in Bridge!Labels : r.cache[k] = 0 \/ r.cache[k] = langfuse'.label[k] \/ <<s, k>> \in unseen'
    BY <1>0, <2>1, <2>4, <2>9 DEF Excused
  <2>13. Excused(s, r, langfuse', unseen', meddled')
    BY <2>4, <2>8, <2>11, <2>12 DEF Excused
  <2>14. /\ version \in 1 .. Len(langfuse'.bodies) /\ Len(langfuse.bodies) <= Len(langfuse'.bodies)
    BY <1>t, <2>3, <2>8
  <2>15. \A x \in Servers \ {s} :
           /\ \A k \in Bridge!Labels : <<x, k>> \in unseen => <<x, k>> \in unseen'
           /\ server[x].cache["production"] = 0 \/ <<x, "production">> \in unseen'
    BY <2>1
  <2>16. deployed' = deployed /\ meddled' = meddled /\ r \in Replica
    BY <2>1, <2>4
  <2> QED BY <1>2, <1>l, <2>2, <2>6, <2>7, <2>8, <2>13, <2>14, <2>15, <2>16
<1>8. ASSUME NEW s \in Servers, NEW l \in Bridge!Labels, Bridge!Refresh(s, l), Bridge!At(s, "up"),
             deployed' = deployed, langfuse' = langfuse
      PROVE  PromptsInv'
  <2> DEFINE r == Stepped(server[s], "up", l, langfuse.label[l])
  <2>0. langfuse.label[l] \in Nat /\ "up" \in Running
    BY <1>t DEF Running
  <2>1. /\ server' = [server EXCEPT ![s].cache[l] = langfuse.label[l]]
        /\ unseen' = unseen \ {<<s, l>>} /\ meddled' = meddled \cup {s} /\ server[s].pc = "up"
    BY <1>8 DEF Bridge!Refresh, Bridge!At
  <2>2. server' = [server EXCEPT ![s] = r]
    <3>1. server' = [server EXCEPT ![s] = Fetched(server[s], l, langfuse.label[l])]
      BY <1>0, <2>1 DEF Fetched
    <3>2. server[s] \in Replica /\ server[s].pc = "up" /\ "up" \in Running /\ langfuse.label[l] \in Nat
      BY <1>b, <2>0, <2>1
    <3>3. Fetched(server[s], l, langfuse.label[l]) = Stepped(server[s], "up", l, langfuse.label[l])
      BY <3>2, ServerBecomes
    <3> HIDE DEF r
    <3> QED BY <3>1, <3>3 DEF r
  <2>3. /\ r \in Replica /\ r.cache[l] = langfuse.label[l] /\ r.body = server[s].body
        /\ \A k \in Bridge!Labels \ {l} : r.cache[k] = server[s].cache[k]
    <3>1. server[s] \in Replica /\ "up" \in Running /\ l \in Bridge!Labels /\ langfuse.label[l] \in Nat
      BY <1>b, <1>l, <2>0
    <3> HIDE DEF r
    <3>2. /\ r \in Replica /\ r.cache[l] = langfuse.label[l] /\ r.body = server[s].body /\ r.pc = "up"
          /\ \A k \in Bridge!Labels \ {l} : r.cache[k] = server[s].cache[k]
      BY <3>1, ServerBecomes DEF r
    <3> QED BY <3>2
  <2> HIDE DEF r
  <2>4. Excused(s, r, langfuse, unseen', meddled')
    BY <1>0, <2>1, <2>3 DEF Excused
  <2>5. \A x \in Servers \ {s} : \A k \in Bridge!Labels : <<x, k>> \in unseen => <<x, k>> \in unseen'
    BY <2>1
  <2> QED BY <1>1, <1>8, <2>1, <2>2, <2>3, <2>4, <2>5
\* A label moves under a name the servers do not know, or in a call that breaks off.
<1>9. ASSUME NEW s \in Servers, NEW l \in Bridge!Labels, NEW version \in DOMAIN langfuse.bodies,
             Bridge!Label(version, l), server' = server, unseen' = Bridge!Unseen("nobody", l),
             deployed' = deployed, meddled' = meddled
      PROVE  PromptsInv'
  <2>1. /\ langfuse' = [langfuse EXCEPT !.label[l] = version]
        /\ unseen' = unseen \cup {<<x, l>> : x \in {x \in Servers \ {"nobody"} : server[x].cache[l] # 0}}
    BY <1>9 DEF Bridge!Label, Bridge!Unseen
  <2>2. /\ langfuse'.bodies = langfuse.bodies /\ langfuse'.label = [langfuse.label EXCEPT ![l] = version]
        /\ langfuse' = [bodies |-> langfuse'.bodies, label |-> langfuse'.label]
    BY <1>t, <2>1
  <2>3. version \in 1 .. Len(langfuse.bodies) /\ version \in Nat
    BY <1>t
  <2>4. langfuse' \in Langfuse
    BY <1>t, <2>2, <2>3 DEF Langfuse, Cache
  <2>5. \A x \in Servers : /\ \A k \in Bridge!Labels : <<x, k>> \in unseen => <<x, k>> \in unseen'
                           /\ server[x].cache[l] = 0 \/ <<x, l>> \in unseen'
    BY <2>1, PromptsAssumption
  <2>6. \A k \in Bridge!Labels \ {l} : langfuse'.label[k] = langfuse.label[k]
    BY <1>t, <2>2 DEF Cache
  <2>7. Excused(s, server[s], langfuse', unseen', meddled')
    BY <1>0, <1>9, <2>2, <2>5, <2>6 DEF Excused
  <2>8. server' = [server EXCEPT ![s] = server[s]] /\ server[s] \in Replica
    BY <1>0, <1>9
  <2>9. Len(langfuse.bodies) <= Len(langfuse'.bodies)
    BY <1>t, <2>2
  <2> QED BY <1>2, <1>9, <2>2, <2>3, <2>4, <2>5, <2>7, <2>8, <2>9
<1>10. ASSUME NEW s \in Servers, NEW l \in Bridge!Labels, NEW byName \in BOOLEAN,
              Bridge!Activate(s, l, byName)
       PROVE  PromptsInv'
  <2>1. PICK version \in DOMAIN langfuse.bodies : Bridge!Label(version, l)
    BY <1>10 DEF Bridge!Activate
  <2>2. /\ server' = Bridge!Cleared(s, byName) /\ deployed' = deployed /\ meddled' = meddled
        /\ unseen' = IF byName /\ Hyphened THEN Bridge!Unseen("nobody", l)
                     ELSE Bridge!Unseen(s, l) \ ({s} \X Bridge!Labels)
    BY <1>10 DEF Bridge!Activate
  <2>3. CASE byName /\ Hyphened
    <3>1. server' = server
      BY <2>2, <2>3 DEF Bridge!Cleared
    <3> QED BY <1>9, <2>1, <2>2, <2>3, <3>1
  <2>4. CASE ~(byName /\ Hyphened)
    <3> DEFINE r == [server[s] EXCEPT !.cache = Bridge!Nothing]
    <3>1. server' = [server EXCEPT ![s].cache = Bridge!Nothing]
      BY <2>2, <2>4 DEF Bridge!Cleared
    <3>2. Bridge!Nothing \in Cache /\ \A k \in Bridge!Labels : Bridge!Nothing[k] = 0
      BY DEF Bridge!Nothing, Cache
    <3>3. /\ server' = [server EXCEPT ![s] = r] /\ r \in Replica
          /\ \A k \in Bridge!Labels : r.cache[k] = 0
      BY <1>0, <1>b, <1>l, <3>1, <3>2 DEF Replica
    <3>4. /\ langfuse' = [langfuse EXCEPT !.label[l] = version]
          /\ unseen' = (unseen \cup {<<x, l>> : x \in {x \in Servers \ {s} : server[x].cache[l] # 0}})
                         \ ({s} \X Bridge!Labels)
      BY <2>1, <2>2, <2>4 DEF Bridge!Label, Bridge!Unseen
    <3>5. /\ langfuse'.bodies = langfuse.bodies /\ langfuse'.label = [langfuse.label EXCEPT ![l] = version]
          /\ langfuse' = [bodies |-> langfuse'.bodies, label |-> langfuse'.label]
      BY <1>t, <3>4
    <3>6. version \in 1 .. Len(langfuse.bodies) /\ version \in Nat
      BY <1>t
    <3>7. langfuse' \in Langfuse
      BY <1>t, <3>5, <3>6 DEF Langfuse, Cache
    <3> HIDE DEF r
    <3>8. Excused(s, r, langfuse', unseen', meddled')
      BY <1>l, <1>t, <3>3, <3>5 DEF Excused
    <3>9. \A x \in Servers \ {s} :
            /\ \A k \in Bridge!Labels : <<x, k>> \in unseen => <<x, k>> \in unseen'
            /\ server[x].cache[l] = 0 \/ <<x, l>> \in unseen'
      BY <3>4
    <3>10. Len(langfuse.bodies) <= Len(langfuse'.bodies)
      BY <1>t, <3>5
    <3> QED BY <1>2, <2>2, <3>3, <3>5, <3>6, <3>7, <3>8, <3>9, <3>10
  <2> QED BY <2>3, <2>4
<1>11. ASSUME Bridge!Deploy \/ UNCHANGED Bridge!vars PROVE PromptsInv'
  <2>1. /\ deployed' \in Nat /\ langfuse' = langfuse /\ server' = server /\ unseen' = unseen
        /\ meddled' = meddled
    BY <1>0, <1>11, PromptsAssumption DEF Bridge!Deploy, Bridge!vars
  <2> QED BY <1>0, <2>1 DEF PromptsInv
<1>12. ASSUME NEW s \in Servers, NEW l \in Bridge!Labels, Bridge!ActivationBreaks(s, l) PROVE PromptsInv'
  <2>1. PICK version \in DOMAIN langfuse.bodies : Bridge!Label(version, l)
    BY <1>12 DEF Bridge!ActivationBreaks
  <2> QED BY <1>9, <1>12, <2>1 DEF Bridge!ActivationBreaks
<1>13. ASSUME NEW s \in Servers, Bridge!Render(s) \/ \E l \in Bridge!Labels : Bridge!Preview(s, l)
       PROVE  PromptsInv'
  BY <1>8, <1>13, <1>l DEF Bridge!Render, Bridge!Preview
<1> QED
  BY <1>3, <1>4, <1>5, <1>6, <1>7, <1>10, <1>11, <1>12, <1>13 DEF Bridge!Next

\* Whatever is cached is live, or else the server was not told.
LEMMA PromptsAreSound == PromptsInv => Bridge!CacheIsExcused /\ Bridge!SeededRendersItsOwn
BY DEF PromptsInv, Excused, Bridge!CacheIsExcused, Bridge!SeededRendersItsOwn, Bridge!NoVersion,
       Bridge!At, Bridge!Text

-----------------------------------------------------------------------------
(* All of them, as the parts of one behaviour                                 *)

WorldsInv ==
  /\ part \in WorldParts
  /\ part = "relations" => RelationsInv
  /\ \A kind \in ClientKinds : part = kind => ClientsInv(kind)
  /\ \A kind \in WorldKinds : part = kind => GraphInv(kind)
  /\ part = "characters" => CastInv
  /\ part = "gossip" => GossipInv
  /\ part = "memories" => MemoryInv
  /\ part = "prompts" => PromptsInv

\* No kind of clients is one of worlds, or another part.
LEMMA PartsDiffer ==
  /\ ClientKinds \cap WorldKinds = {}
  /\ {"relations", "characters", "gossip", "memories", "prompts"} \cap (ClientKinds \cup WorldKinds) = {}
BY DEF ClientKinds, WorldKinds

LEMMA WorldsStart == WorldsInit => WorldsInv
<1> SUFFICES ASSUME WorldsInit PROVE WorldsInv
  OBVIOUS
<1>1. ASSUME NEW kind \in ClientKinds, part = kind PROVE ClientsInv(kind)
  BY <1>1, ClientsInit DEF WorldsInit
<1>2. ASSUME NEW kind \in WorldKinds, part = kind PROVE GraphInv(kind)
  BY <1>2, GraphInit DEF WorldsInit
<1> QED
  BY <1>1, <1>2, RelationsInit, CharactersInit, GossipInit, MemoryInit, PromptsInit
  DEF WorldsInit, WorldsInv

\* Every step is one of its part, which keeps the part's invariant.
LEMMA WorldsMove == ASSUME WorldsInv, WorldsNext PROVE WorldsInv'
<1> USE DEF WorldsInv
<1>0. part' = part /\ WorldsStep
  BY DEF WorldsNext
<1>1. CASE part = "relations" /\ Relations!Next
  BY <1>0, <1>1, RelationsStep, PartsDiffer
<1>2. ASSUME NEW kind \in ClientKinds, part = kind, Clients(kind)!Next PROVE WorldsInv'
  <2>1. ClientsInv(kind)'
    BY <1>2, ClientsStep
  <2>2. \A k \in ClientKinds : part = k => k = kind
    BY <1>2
  <2> QED BY <1>0, <1>2, <2>1, <2>2, PartsDiffer
<1>3. ASSUME NEW kind \in WorldKinds, part = kind, World(kind)!Next PROVE WorldsInv'
  <2>1. GraphInv(kind)'
    BY <1>3, GraphStep
  <2>2. \A k \in WorldKinds : part = k => k = kind
    BY <1>3
  <2> QED BY <1>0, <1>3, <2>1, <2>2, PartsDiffer
<1>4. CASE part = "characters" /\ Characters!Next
  BY <1>0, <1>4, CharactersStep, PartsDiffer
<1>5. CASE part = "gossip" /\ Gossip!Next
  BY <1>0, <1>5, GossipStep, PartsDiffer
<1>6. CASE part = "memories" /\ Memories!Next
  BY <1>0, <1>6, MemoryStep, PartsDiffer
<1>7. CASE part = "prompts" /\ Bridge!Next
  BY <1>0, <1>7, PromptsStep, PartsDiffer
<1> QED BY <1>0, <1>1, <1>2, <1>3, <1>4, <1>5, <1>6, <1>7 DEF WorldsStep

LEMMA WorldsRest == ASSUME WorldsInv, UNCHANGED worldVars PROVE WorldsInv'
<1>0. /\ part' = part
      /\ UNCHANGED Relations!vars /\ UNCHANGED Characters!vars /\ UNCHANGED Gossip!vars
      /\ UNCHANGED Memories!vars /\ UNCHANGED Bridge!vars
      /\ \A kind \in ClientKinds : UNCHANGED Clients(kind)!vars
      /\ \A kind \in WorldKinds : UNCHANGED World(kind)!vars
  BY DEF worldVars, relationVars, clientVars, graphVars, castVars, gossipVars, memoryVars, promptVars,
         Relations!vars, Characters!vars, Gossip!vars, Memories!vars, Bridge!vars, Clients!vars,
         World!vars
<1>1. \A kind \in ClientKinds : ClientsInv(kind) => ClientsInv(kind)'
  BY <1>0, ClientsStep
<1>2. \A kind \in WorldKinds : GraphInv(kind) => GraphInv(kind)'
  BY <1>0, GraphStep
<1>3. /\ RelationsInv => RelationsInv'
      /\ CastInv => CastInv'
      /\ GossipInv => GossipInv'
      /\ MemoryInv => MemoryInv'
      /\ PromptsInv => PromptsInv'
  BY <1>0, RelationsStep, CharactersStep, GossipStep, MemoryStep, PromptsStep
<1> QED BY <1>0, <1>1, <1>2, <1>3 DEF WorldsInv

\* Whatever a part is made of, its invariant holds: the inductive one that the next four rest on.
THEOREM SpecWorldsInv == WorldsSpec => []WorldsInv
<1>1. WorldsInit => WorldsInv
  BY WorldsStart
<1>2. WorldsInv /\ [WorldsNext]_worldVars => WorldsInv'
  BY WorldsMove, WorldsRest
<1> QED BY <1>1, <1>2, PTL DEF WorldsSpec

\* WorldGraph and Relationships, for every map, every number of turns, of changes and of
\* characters and every scale: whatever turns extract, the world stays whole, what is between
\* the player and a character is the sum of its changes, and the fakes show what the graph does.
THEOREM SpecWorldIsWhole == WorldsSpec => []WorldIsWhole
<1>1. WorldsInv => WorldIsWhole
  BY GraphIsSound, RelationsAreSound DEF WorldsInv, WorldIsWhole
<1> QED BY <1>1, SpecWorldsInv, PTL

\* WorldMemory, NpcMemory and NpcAutonomy, for every number of memories, turns, characters,
\* hops and steps of routines: what was recorded is there or told by one summary, no one is
\* told of an episode twice, a step that is not repeated fires once.
THEOREM SpecMemoryIsKept == WorldsSpec => []MemoryIsKept
<1>1. WorldsInv => MemoryIsKept
  BY MemoryIsSound, GossipIsSound, CharactersAreSound DEF WorldsInv, MemoryIsKept
<1> QED BY <1>1, SpecWorldsInv, PTL

\* Prompts (AC-09.02, AC-09.04), for every number of servers, deployments and versions: a
\* server that renders with another version than the live one has not been told, and one that
\* seeded tells of the version whose text it renders.
THEOREM SpecPromptsAreLive == WorldsSpec => []PromptsAreLive
<1>1. WorldsInv => PromptsAreLive
  BY PromptsAreSound DEF WorldsInv, PromptsAreLive
<1> QED BY <1>1, SpecWorldsInv, PTL

\* ApiClients, for every number of sessions, turns and timeouts: what a batch or a simulation
\* says of its sessions is what was played.
THEOREM SpecClientsReportTruly == WorldsSpec => []ClientsReportTruly
<1>1. WorldsInv => ClientsReportTruly
  BY ClientsAreSound DEF WorldsInv, ClientsReportTruly
<1> QED BY <1>1, SpecWorldsInv, PTL
=============================================================================
