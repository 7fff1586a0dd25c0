---------------------------- MODULE QueuesProofs ----------------------------
(***************************************************************************)
(* Theorems about the two queues in front of the model, AdmissionControl   *)
(* and LLMSemaphore, for every number of calls and every setting, with     *)
(* timeouts and cancellations at any moment.                               *)
(***************************************************************************)
EXTENDS MCQueues, FiniteSetTheorems, SequenceTheorems, TLAPS

(* The slots of a tier                                                      *)

CapInv ==
  /\ pc \in [Calls -> CallPc]
  /\ permits \in Nat
  /\ ~Droppable => permits + Slots <= Cap

\* The calls at a place of the program are finitely many.
LEMMA InIsFinite ==
  ASSUME NEW w
  PROVE  IsFiniteSet(In(w)) /\ Cardinality(In(w)) \in Nat
<1>1. IsFiniteSet(Calls) /\ In(w) \subseteq Calls
  BY AdmissionAssumption DEF In
<1> QED BY <1>1, FS_Subset, FS_CardinalityType

\* A set that gains at most one element grows by at most one.
LEMMA GainsOne ==
  ASSUME NEW S, IsFiniteSet(S), NEW x, NEW T, T \subseteq S \cup {x}
  PROVE  /\ IsFiniteSet(T) /\ Cardinality(T) \in Nat
         /\ Cardinality(T) <= Cardinality(S) + 1
<1>0. Cardinality(S) \in Nat
  BY FS_CardinalityType
<1>1. IsFiniteSet(S \cup {x}) /\ Cardinality(S \cup {x}) <= Cardinality(S) + 1
  <2>1. /\ IsFiniteSet(S \cup {x})
        /\ Cardinality(S \cup {x})
             = IF x \in S THEN Cardinality(S) ELSE Cardinality(S) + 1
    BY FS_AddElement
  <2> QED BY <2>1, <1>0
<1> QED BY <1>0, <1>1, FS_Subset, FS_CardinalityType

\* A set that loses an element at least shrinks by one.
LEMMA LosesOne ==
  ASSUME NEW S, IsFiniteSet(S), NEW x \in S, NEW T, T \subseteq S \ {x}
  PROVE  /\ IsFiniteSet(T) /\ Cardinality(T) \in Nat
         /\ Cardinality(T) <= Cardinality(S) - 1
<1>1. IsFiniteSet(S \ {x}) /\ Cardinality(S \ {x}) = Cardinality(S) - 1
  BY FS_RemoveElement
<1> QED BY <1>1, FS_Subset, FS_CardinalityType

\* A set that gains nothing does not grow.
LEMMA GainsNone ==
  ASSUME NEW S, IsFiniteSet(S), NEW T, T \subseteq S
  PROVE  /\ IsFiniteSet(T) /\ Cardinality(T) \in Nat
         /\ Cardinality(T) <= Cardinality(S)
BY FS_Subset, FS_CardinalityType

LEMMA CapInvInit == Init => CapInv
<1> SUFFICES ASSUME Init PROVE CapInv
  OBVIOUS
<1>1. In("admitted") = {} /\ In("running") = {}
  BY DEF Init, In
<1>2. Slots = 0
  BY <1>1, FS_EmptySet DEF Slots
<1> QED BY <1>2, AdmissionAssumption DEF Init, CapInv, CallPc, Cap

\* Only a dropped call uses a slot nobody freed: a call that is admitted pays with
\* a permit, one that ends pays for the one it hands over to.
LEMMA SlotsStep ==
  ASSUME CapInv, [Next]_vars
  PROVE  /\ pc' \in [Calls -> CallPc] /\ permits' \in Nat
         /\ Slots \in Nat /\ Slots' \in Nat
         /\ permits' + Slots' <= permits + Slots \/ \E c \in Calls : Drop(c)
<1> DEFINE A == In("admitted")
           R == In("running")
           Kept == /\ pc' \in [Calls -> CallPc] /\ permits' \in Nat
                   /\ Slots \in Nat /\ Slots' \in Nat
                   /\ permits' + Slots' <= permits + Slots \/ \E c \in Calls : Drop(c)
<1>0. /\ IsFiniteSet(A) /\ Cardinality(A) \in Nat
      /\ IsFiniteSet(R) /\ Cardinality(R) \in Nat
  BY InIsFinite
<1>t. pc \in [Calls -> CallPc] /\ permits \in Nat
  BY DEF CapInv
<1>1. ASSUME NEW c \in Calls, Admit(c) PROVE Kept
  <2>1. A' \subseteq A /\ R' \subseteq R \cup {c}
    BY <1>1, <1>t DEF Admit, Move, In
  <2>2. /\ Cardinality(A') \in Nat /\ Cardinality(A') <= Cardinality(A)
        /\ Cardinality(R') \in Nat /\ Cardinality(R') <= Cardinality(R) + 1
    BY <2>1, <1>0, GainsNone, GainsOne
  <2>3. pc' \in [Calls -> CallPc] /\ permits' = permits - 1 /\ permits > 0
    BY <1>1, <1>t DEF Admit, Move, CallPc
  <2> QED BY <2>2, <2>3, <1>0, <1>t DEF Slots
<1>2. ASSUME NEW c \in Calls, Drop(c) PROVE Kept
  <2>1. pc' \in [Calls -> CallPc] /\ permits' = permits
    BY <1>2, <1>t DEF Drop, Move, CallPc
  <2>2. Cardinality(A') \in Nat /\ Cardinality(R') \in Nat
    <3>1. A' \subseteq A /\ R' \subseteq R \cup {c}
      BY <1>2, <1>t DEF Drop, Move, In
    <3> QED BY <3>1, <1>0, GainsNone, GainsOne
  <2> QED BY <2>1, <2>2, <1>0, <1>2, <1>t DEF Slots
<1>3. ASSUME NEW c \in Calls, Enqueue(c) PROVE Kept
  <2>1. A' \subseteq A /\ R' \subseteq R
    BY <1>3, <1>t DEF Enqueue, Move, In
  <2>2. /\ Cardinality(A') \in Nat /\ Cardinality(A') <= Cardinality(A)
        /\ Cardinality(R') \in Nat /\ Cardinality(R') <= Cardinality(R)
    BY <2>1, <1>0, GainsNone
  <2>3. pc' \in [Calls -> CallPc] /\ permits' = permits
    BY <1>3, <1>t DEF Enqueue, Move, CallPc
  <2> QED BY <2>2, <2>3, <1>0, <1>t DEF Slots
<1>4. ASSUME NEW c \in Calls, Resume(c) PROVE Kept
  <2>1. c \in A /\ A' \subseteq A \ {c} /\ R' \subseteq R \cup {c}
    BY <1>4, <1>t DEF Resume, Move, In
  <2>2. /\ Cardinality(A') \in Nat /\ Cardinality(A') <= Cardinality(A) - 1
        /\ Cardinality(R') \in Nat /\ Cardinality(R') <= Cardinality(R) + 1
    BY <2>1, <1>0, LosesOne, GainsOne
  <2>3. pc' \in [Calls -> CallPc] /\ permits' = permits
    BY <1>4, <1>t DEF Resume, Move, CallPc
  <2> QED BY <2>2, <2>3, <1>0, <1>t DEF Slots
<1>5. ASSUME NEW c \in Calls, Expire(c) \/ Cancel(c) PROVE Kept
  <2>1. A' \subseteq A /\ R' \subseteq R
    BY <1>5, <1>t DEF Expire, Cancel, Move, In
  <2>2. /\ Cardinality(A') \in Nat /\ Cardinality(A') <= Cardinality(A)
        /\ Cardinality(R') \in Nat /\ Cardinality(R') <= Cardinality(R)
    BY <2>1, <1>0, GainsNone
  <2>3. pc' \in [Calls -> CallPc] /\ permits' = permits
    BY <1>5, <1>t DEF Expire, Cancel, Move, CallPc
  <2> QED BY <2>2, <2>3, <1>0, <1>t DEF Slots
<1>6. ASSUME NEW c \in Calls, pc[c] = "running", PassOn(c) PROVE Kept
  <2> DEFINE h == Head(queue)
  <2>1. c \in R /\ A' \subseteq A \cup {h} /\ R' \subseteq R \ {c}
    BY <1>6, <1>t DEF PassOn, In
  <2>2. /\ Cardinality(A') \in Nat /\ Cardinality(A') <= Cardinality(A) + 1
        /\ Cardinality(R') \in Nat /\ Cardinality(R') <= Cardinality(R) - 1
    BY <2>1, <1>0, LosesOne, GainsOne
  <2>3. pc' \in [Calls -> CallPc] /\ permits' = permits
    BY <1>6, <1>t DEF PassOn, CallPc
  <2> QED BY <2>2, <2>3, <1>0, <1>t DEF Slots
<1>7. ASSUME NEW c \in Calls, pc[c] = "running", PutBack(c) PROVE Kept
  <2>1. c \in R /\ A' \subseteq A /\ R' \subseteq R \ {c}
    BY <1>7, <1>t DEF PutBack, Move, In
  <2>2. /\ Cardinality(A') \in Nat /\ Cardinality(A') <= Cardinality(A)
        /\ Cardinality(R') \in Nat /\ Cardinality(R') <= Cardinality(R) - 1
    BY <2>1, <1>0, LosesOne, GainsNone
  <2>3. pc' \in [Calls -> CallPc] /\ permits' = permits + 1
    BY <1>7, <1>t DEF PutBack, Move, CallPc
  <2> QED BY <2>2, <2>3, <1>0, <1>t DEF Slots
<1>8. CASE UNCHANGED vars
  BY <1>0, <1>8, <1>t DEF vars, Slots, In
<1> QED
  BY <1>1, <1>2, <1>3, <1>4, <1>5, <1>6, <1>7, <1>8 DEF Next, Finish

\* Without dropped calls the slots never pass the cap.
LEMMA CapInvStep ==
  ASSUME CapInv, [Next]_vars
  PROVE  CapInv'
<1>1. tier' = tier
  BY DEF Next, Admit, Drop, Enqueue, Resume, Expire, Cancel, Finish, PassOn,
         PutBack, vars
<1>2. (Droppable <=> Droppable') /\ Cap' = Cap /\ Cap \in Nat
  BY <1>1, AdmissionAssumption DEF Droppable, Cap
<1>3. Droppable \/ ~(\E c \in Calls : Drop(c))
  BY DEF Drop, Overloaded
<1> QED BY <1>2, <1>3, SlotsStep DEF CapInv

\* FR-66.01 for a tier whose calls are never dropped: however many calls arrive,
\* expire and are cancelled, no more than Cap of them run.
THEOREM SpecCapHolds == Spec => []CapHolds
<1>1. CapInv => CapHolds
  BY DEF CapInv, CapHolds
<1>2. CapInv /\ [Next]_vars => CapInv'
  BY CapInvStep
<1> QED BY CapInvInit, <1>1, <1>2, PTL DEF Spec

-----------------------------------------------------------------------------
(* The queue                                                                *)

\* Nobody is in the queue twice, and everybody who waits is in it.
QueueInv ==
  /\ queue \in Seq(Calls) /\ pc \in [Calls -> CallPc] /\ permits \in Nat
  /\ NobodyOvertakes /\ QueueIsExact

\* What is left of a queue without one of its entries.
LEMMA RemovingOne ==
  ASSUME NEW S, NEW q \in Seq(S), IsInjective(q), NEW k \in DOMAIN q
  PROVE  /\ RemoveAt(q, k) \in Seq(S) /\ IsInjective(RemoveAt(q, k))
         /\ ToSet(RemoveAt(q, k)) = ToSet(q) \ {q[k]}
         /\ Len(RemoveAt(q, k)) = Len(q) - 1
         /\ \A i \in 1 .. Len(q) - 1 : RemoveAt(q, k)[i] = IF i < k THEN q[i] ELSE q[i + 1]
<1> DEFINE r == RemoveAt(q, k)
           before == SubSeq(q, 1, k - 1)
           after == SubSeq(q, k + 1, Len(q))
<1>0. /\ DOMAIN q = 1 .. Len(q) /\ Len(q) \in Nat /\ k \in 1 .. Len(q)
      /\ \A i \in 1 .. Len(q) : q[i] \in S
  OBVIOUS
<1>1. before \in Seq(S) /\ Len(before) = k - 1 /\ \A i \in 1 .. k - 1 : before[i] = q[i]
  BY <1>0, SubSeqProperties
<1>2. /\ after \in Seq(S) /\ Len(after) = Len(q) - k
      /\ \A i \in 1 .. Len(q) - k : after[i] = q[k + i]
  BY <1>0, SubSeqProperties
<1>3. /\ r \in Seq(S) /\ Len(r) = Len(q) - 1
      /\ \A i \in 1 .. Len(q) - 1 : r[i] = IF i < k THEN q[i] ELSE q[i + 1]
  <2>1. r = before \o after
    BY DEF RemoveAt
  <2> HIDE DEF r, before, after
  <2>2. /\ before \o after \in Seq(S) /\ Len(before \o after) = Len(before) + Len(after)
        /\ \A i \in 1 .. Len(before) + Len(after) :
             (before \o after)[i]
               = IF i <= Len(before) THEN before[i] ELSE after[i - Len(before)]
    BY <1>1, <1>2, ConcatProperties
  <2>3. r \in Seq(S) /\ Len(r) = Len(q) - 1
    BY <1>0, <1>1, <1>2, <2>1, <2>2
  <2>4. ASSUME NEW i \in 1 .. Len(q) - 1
        PROVE  r[i] = IF i < k THEN q[i] ELSE q[i + 1]
    <3>1. i \in 1 .. Len(before) + Len(after)
      BY <1>0, <1>1, <1>2
    <3>2. r[i] = IF i <= Len(before) THEN before[i] ELSE after[i - Len(before)]
      BY <2>1, <2>2, <3>1
    <3>3. CASE i < k
      <4>1. i \in 1 .. k - 1 /\ i <= Len(before)
        BY <1>0, <1>1, <3>3
      <4> QED BY <1>1, <3>2, <3>3, <4>1
    <3>4. CASE ~(i < k)
      <4>1. /\ i - (k - 1) \in 1 .. Len(q) - k /\ k + (i - (k - 1)) = i + 1
            /\ ~(i <= Len(before)) /\ Len(before) = k - 1
        BY <1>0, <1>1, <3>4
      <4> QED BY <1>2, <3>2, <3>4, <4>1
    <3> QED BY <3>3, <3>4
  <2> QED BY <2>3, <2>4
<1> HIDE DEF r
<1>4. DOMAIN r = 1 .. Len(q) - 1
  BY <1>3
\* Where an entry of the shorter queue comes from.
<1>p. ASSUME NEW i \in 1 .. Len(q) - 1
      PROVE  \E j \in 1 .. Len(q) : j # k /\ r[i] = q[j] /\ j = IF i < k THEN i ELSE i + 1
  BY <1>0, <1>3
<1>5. IsInjective(r)
  <2>1. ASSUME NEW a \in 1 .. Len(q) - 1, NEW b \in 1 .. Len(q) - 1, r[a] = r[b]
        PROVE  a = b
    <3>1. PICK i \in 1 .. Len(q) : r[a] = q[i] /\ i = IF a < k THEN a ELSE a + 1
      BY <1>p
    <3>2. PICK j \in 1 .. Len(q) : r[b] = q[j] /\ j = IF b < k THEN b ELSE b + 1
      BY <1>p
    <3>3. i = j
      BY <1>0, <2>1, <3>1, <3>2 DEF IsInjective
    <3> QED BY <1>0, <3>1, <3>2, <3>3
  <2> QED BY <1>4, <2>1 DEF IsInjective
<1>6. ToSet(r) = ToSet(q) \ {q[k]}
  <2>1. ASSUME NEW i \in 1 .. Len(q) - 1
        PROVE  \E j \in 1 .. Len(q) : j # k /\ r[i] = q[j]
    BY <1>p
  <2>2. ASSUME NEW j \in 1 .. Len(q), j # k
        PROVE  \E i \in 1 .. Len(q) - 1 : r[i] = q[j]
    <3>1. CASE j < k
      BY <1>0, <1>3, <3>1
    <3>2. CASE j > k
      <4>1. j - 1 \in 1 .. Len(q) - 1 /\ ~(j - 1 < k) /\ (j - 1) + 1 = j
        BY <1>0, <3>2
      <4> QED BY <1>3, <4>1
    <3> QED BY <1>0, <2>2, <3>1, <3>2
  <2>3. ToSet(r) \subseteq ToSet(q) \ {q[k]}
    BY <1>0, <1>4, <2>1 DEF ToSet, IsInjective
  <2>4. ToSet(q) \ {q[k]} \subseteq ToSet(r)
    BY <1>0, <1>4, <2>2 DEF ToSet
  <2> QED BY <2>3, <2>4
<1> QED BY <1>3, <1>5, <1>6 DEF r

\* The head leaves the queue.
LEMMA RemovingHead ==
  ASSUME NEW S, NEW q \in Seq(S), IsInjective(q), q # << >>
  PROVE  /\ Tail(q) \in Seq(S) /\ IsInjective(Tail(q))
         /\ Head(q) \in ToSet(q) /\ ToSet(Tail(q)) = ToSet(q) \ {Head(q)}
<1>1. /\ DOMAIN q = 1 .. Len(q) /\ Len(q) \in Nat /\ Len(q) >= 1 /\ Head(q) = q[1]
      /\ \A i \in 1 .. Len(q) : q[i] \in S
  OBVIOUS
<1>2. /\ Tail(q) \in Seq(S) /\ Len(Tail(q)) = Len(q) - 1
      /\ DOMAIN Tail(q) = 1 .. Len(q) - 1 /\ \A i \in 1 .. Len(q) - 1 : Tail(q)[i] = q[i + 1]
  BY HeadTailProperties
<1>3. IsInjective(Tail(q))
  BY <1>1, <1>2 DEF IsInjective
<1>4. ToSet(Tail(q)) \subseteq ToSet(q) \ {Head(q)}
  BY <1>1, <1>2 DEF ToSet, IsInjective
<1>5. ToSet(q) \ {Head(q)} \subseteq ToSet(Tail(q))
  <2>1. ASSUME NEW j \in 1 .. Len(q), q[j] # q[1]
        PROVE  q[j] \in ToSet(Tail(q))
    <3>1. j - 1 \in 1 .. Len(q) - 1 /\ (j - 1) + 1 = j
      BY <1>1, <2>1
    <3>2. Tail(q)[j - 1] = q[j]
      BY <1>2, <3>1
    <3> QED BY <1>2, <3>1, <3>2 DEF ToSet
  <2> QED BY <1>1, <2>1 DEF ToSet
<1>6. Head(q) \in ToSet(q)
  BY <1>1 DEF ToSet
<1> QED BY <1>2, <1>3, <1>4, <1>5, <1>6

\* A newcomer goes to the end.
LEMMA AddingOne ==
  ASSUME NEW S, NEW q \in Seq(S), IsInjective(q), NEW c \in S, c \notin ToSet(q)
  PROVE  /\ Append(q, c) \in Seq(S) /\ IsInjective(Append(q, c))
         /\ ToSet(Append(q, c)) = ToSet(q) \cup {c}
<1>1. /\ DOMAIN q = 1 .. Len(q) /\ Len(q) \in Nat
      /\ Append(q, c) \in Seq(S) /\ DOMAIN Append(q, c) = 1 .. Len(q) + 1
      /\ \A i \in 1 .. Len(q) : Append(q, c)[i] = q[i]
      /\ Append(q, c)[Len(q) + 1] = c
  OBVIOUS
<1>2. IsInjective(Append(q, c))
  BY <1>1 DEF IsInjective, ToSet
<1>3. ToSet(Append(q, c)) = ToSet(q) \cup {c}
  BY <1>1 DEF ToSet
<1> QED BY <1>1, <1>2, <1>3

LEMMA QueueInvStep ==
  ASSUME QueueInv, [Next]_vars
  PROVE  QueueInv'
<1> DEFINE Q == In("queued")
           G == In("ghost")
<1>t. /\ pc \in [Calls -> CallPc] /\ permits \in Nat /\ queue \in Seq(Calls) /\ IsInjective(queue)
      /\ ToSet(queue) = Q \cup G /\ (Q # {} => permits = 0)
  BY DEF QueueInv, NobodyOvertakes, QueueIsExact
\* What is left to show of a step.
<1>q. ASSUME pc' \in [Calls -> CallPc], permits' \in Nat, queue' \in Seq(Calls), IsInjective(queue'),
             ToSet(queue') = Q' \cup G', Q' # {} => permits' = 0
      PROVE  QueueInv'
  BY <1>q DEF QueueInv, NobodyOvertakes, QueueIsExact
<1>1. ASSUME NEW c \in Calls, Admit(c) PROVE QueueInv'
  <2>1. Q' = Q /\ G' = G
    BY <1>1, <1>t DEF Admit, Move, In
  <2>2. pc' \in [Calls -> CallPc] /\ permits' \in Nat /\ queue' = queue /\ Q = {}
    BY <1>1, <1>t DEF Admit, Move, CallPc
  <2> QED BY <1>t, <1>q, <2>1, <2>2
<1>2. ASSUME NEW c \in Calls, Drop(c) \/ Resume(c) PROVE QueueInv'
  <2>1. Q' = Q /\ G' = G
    BY <1>2, <1>t DEF Drop, Resume, Move, In
  <2>2. pc' \in [Calls -> CallPc] /\ permits' = permits /\ queue' = queue
    BY <1>2, <1>t DEF Drop, Resume, Move, CallPc
  <2> QED BY <1>t, <1>q, <2>1, <2>2
<1>3. ASSUME NEW c \in Calls, Enqueue(c) PROVE QueueInv'
  <2>1. Q' = Q \cup {c} /\ G' = G /\ c \notin ToSet(queue)
    BY <1>3, <1>t DEF Enqueue, Move, In
  <2>2. pc' \in [Calls -> CallPc] /\ permits' = permits /\ permits = 0 /\ queue' = Append(queue, c)
    BY <1>3, <1>t DEF Enqueue, Move, CallPc
  <2>3. queue' \in Seq(Calls) /\ IsInjective(queue') /\ ToSet(queue') = ToSet(queue) \cup {c}
    BY <1>t, <2>1, <2>2, AddingOne
  <2> QED BY <1>t, <1>q, <2>1, <2>2, <2>3
<1>4. ASSUME NEW c \in Calls, Expire(c) PROVE QueueInv'
  <2>1. Q' = Q \ {c} /\ G' = G /\ c \notin G
    BY <1>4, <1>t DEF Expire, Move, In
  <2>2. pc' \in [Calls -> CallPc] /\ permits' = permits
    BY <1>4, <1>t DEF Expire, Move, CallPc
  <2>3. queue' \in Seq(Calls) /\ IsInjective(queue') /\ ToSet(queue') = ToSet(queue) \ {c}
    <3>1. CASE c \notin ToSet(queue) /\ UNCHANGED queue
      BY <1>t, <3>1
    <3>2. ASSUME NEW i \in DOMAIN queue, queue[i] = c, queue' = RemoveAt(queue, i)
          PROVE  <2>3
      BY <1>t, <3>2, RemovingOne
    <3> QED BY <1>4, <3>1, <3>2 DEF Expire
  <2> QED BY <1>t, <1>q, <2>1, <2>2, <2>3
<1>5. ASSUME NEW c \in Calls, Cancel(c) PROVE QueueInv'
  <2>1. Q' \cup G' = Q \cup G /\ Q' \subseteq Q
    BY <1>5, <1>t DEF Cancel, Move, In
  <2>2. pc' \in [Calls -> CallPc] /\ permits' = permits /\ queue' = queue
    BY <1>5, <1>t DEF Cancel, Move, CallPc
  <2> QED BY <1>t, <1>q, <2>1, <2>2
<1>6. ASSUME NEW c \in Calls, pc[c] = "running", PassOn(c) PROVE QueueInv'
  <2> DEFINE h == Head(queue)
  <2>1. /\ Tail(queue) \in Seq(Calls) /\ IsInjective(Tail(queue))
        /\ h \in ToSet(queue) /\ ToSet(Tail(queue)) = ToSet(queue) \ {h}
    BY <1>6, <1>t, RemovingHead DEF PassOn
  <2>2. h \in Calls /\ pc[h] \in {"queued", "ghost"} /\ h # c
    BY <1>6, <1>t, <2>1 DEF In
  <2>3. pc' \in [Calls -> CallPc] /\ permits' = permits /\ queue' = Tail(queue)
    BY <1>6, <1>t DEF PassOn, CallPc
  <2>4. Q' = Q \ {h} /\ G' = G \ {h}
    BY <1>6, <1>t, <2>2 DEF PassOn, In
  <2> QED BY <1>t, <1>q, <2>1, <2>3, <2>4
<1>7. ASSUME NEW c \in Calls, pc[c] = "running", PutBack(c) PROVE QueueInv'
  <2>1. Q' = Q /\ G' = G
    BY <1>7, <1>t DEF PutBack, Move, In
  <2>2. pc' \in [Calls -> CallPc] /\ permits' \in Nat /\ queue' = queue /\ queue = << >>
    BY <1>7, <1>t DEF PutBack, Move, CallPc
  <2>3. Q = {}
    BY <1>t, <2>2 DEF ToSet
  <2> QED BY <1>t, <1>q, <2>1, <2>2, <2>3
<1>8. CASE UNCHANGED vars
  BY <1>8 DEF vars, QueueInv, NobodyOvertakes, QueueIsExact, In
<1> QED
  BY <1>1, <1>2, <1>3, <1>4, <1>5, <1>6, <1>7, <1>8 DEF Next, Finish

-----------------------------------------------------------------------------
(* The counters                                                             *)

\* Drops use slots without a permit, and _active is never counted up for them; both
\* are bounded by the number of calls.
CountInv ==
  /\ tier \in Tiers /\ active \in Int
  /\ permits + Slots <= Cap \/ permits + Slots <= Cardinality(Calls)
  /\ active <= Cardinality(In("running"))
  /\ active >= Cardinality(In("running")) - Drift - Cardinality(Calls)

IInv == CapInv /\ QueueInv /\ CountInv

\* The calls that hold a slot are calls.
LEMMA SlotsAreCalls ==
  ASSUME pc \in [Calls -> CallPc]
  PROVE  Slots <= Cardinality(Calls) /\ Cardinality(In("running")) <= Cardinality(Calls)
<1> DEFINE A == In("admitted")
           R == In("running")
<1>1. /\ IsFiniteSet(A) /\ Cardinality(A) \in Nat
      /\ IsFiniteSet(R) /\ Cardinality(R) \in Nat
  BY InIsFinite
<1>2. A \cap R = {} /\ A \cup R \subseteq Calls /\ R \subseteq Calls
  BY DEF In
<1>3. IsFiniteSet(Calls) /\ Cardinality(Calls) \in Nat
  BY AdmissionAssumption, FS_CardinalityType
<1>4. Cardinality(A \cup R) = Cardinality(A) + Cardinality(R) - Cardinality(A \cap R)
  BY <1>1, FS_Union
<1>5. Cardinality(A \cup R) <= Cardinality(Calls) /\ Cardinality(R) <= Cardinality(Calls)
  BY <1>2, <1>3, FS_Subset
<1>6. Cardinality(A \cap R) = 0
  BY <1>2, FS_EmptySet
<1> QED BY <1>1, <1>4, <1>5, <1>6 DEF Slots

\* active moves with the calls that run, except for a dropped one.
LEMMA RunningStep ==
  ASSUME CapInv, QueueInv, CountInv, [Next]_vars
  PROVE  LET R == In("running")
         IN  /\ active' \in Int /\ Cardinality(R) \in Nat /\ Cardinality(R') \in Nat
             /\ \/ active' - active = Cardinality(R') - Cardinality(R)
                \/ /\ active' = active /\ active >= -Drift
                   /\ Cardinality(R') = Cardinality(R) + 1
<1> DEFINE R == In("running")
           Counted == /\ active' \in Int /\ Cardinality(R) \in Nat /\ Cardinality(R') \in Nat
                      /\ \/ active' - active = Cardinality(R') - Cardinality(R)
                         \/ /\ active' = active /\ active >= -Drift
                            /\ Cardinality(R') = Cardinality(R) + 1
<1>0. IsFiniteSet(R) /\ Cardinality(R) \in Nat /\ active \in Int
  BY InIsFinite DEF CountInv
<1>t. pc \in [Calls -> CallPc]
  BY DEF CapInv
<1>g. ASSUME NEW c, c \notin R, R' = R \cup {c}
      PROVE  Cardinality(R') = Cardinality(R) + 1
  BY <1>0, <1>g, FS_AddElement
<1>l. ASSUME NEW c \in R, R' = R \ {c}
      PROVE  Cardinality(R') = Cardinality(R) - 1 /\ Cardinality(R') \in Nat
  <2>1. IsFiniteSet(R') /\ Cardinality(R') = Cardinality(R) - 1
    BY <1>0, <1>l, FS_RemoveElement
  <2> QED BY <2>1, FS_CardinalityType
<1>1. ASSUME NEW c \in Calls, Admit(c) \/ Resume(c) PROVE Counted
  <2>1. c \notin R /\ R' = R \cup {c}
    BY <1>1, <1>t DEF Admit, Resume, Move, In
  <2>2. active' = active + 1
    BY <1>1 DEF Admit, Resume
  <2>3. Cardinality(R') = Cardinality(R) + 1
    BY <1>g, <2>1
  <2> QED BY <1>0, <2>2, <2>3
<1>2. ASSUME NEW c \in Calls, Drop(c) PROVE Counted
  <2>1. c \notin R /\ R' = R \cup {c}
    BY <1>2, <1>t DEF Drop, Move, In
  <2>2. active' = active /\ active >= -Drift
    BY <1>2 DEF Drop
  <2>3. Cardinality(R') = Cardinality(R) + 1
    BY <1>g, <2>1
  <2> QED BY <1>0, <2>2, <2>3
<1>3. ASSUME NEW c \in Calls, Enqueue(c) \/ Expire(c) \/ Cancel(c) PROVE Counted
  <2>1. R' = R
    BY <1>3, <1>t DEF Enqueue, Expire, Cancel, Move, In
  <2>2. active' = active
    BY <1>3 DEF Enqueue, Expire, Cancel
  <2> QED BY <1>0, <2>1, <2>2
<1>4. ASSUME NEW c \in Calls, Finish(c) PROVE Counted
  <2>1. c \in R /\ R' = R \ {c}
    <3>1. CASE PassOn(c)
      <4>1. /\ queue \in Seq(Calls) /\ IsInjective(queue) /\ queue # << >>
            /\ ToSet(queue) = In("queued") \cup In("ghost")
        BY <3>1 DEF QueueInv, QueueIsExact, PassOn
      <4>2. Head(queue) \in In("queued") \cup In("ghost")
        BY <4>1, RemovingHead
      <4>3. pc[Head(queue)] \in {"queued", "ghost"}
        BY <4>2 DEF In
      <4> QED BY <1>4, <1>t, <3>1, <4>3 DEF Finish, PassOn, In
    <3>2. CASE PutBack(c)
      BY <1>4, <1>t, <3>2 DEF Finish, PutBack, Move, In
    <3> QED BY <1>4, <3>1, <3>2 DEF Finish
  <2>2. active' = active - 1
    BY <1>4 DEF Finish
  <2>3. Cardinality(R') = Cardinality(R) - 1 /\ Cardinality(R') \in Nat
    BY <1>l, <2>1
  <2> QED BY <1>0, <2>2, <2>3
<1>5. CASE UNCHANGED vars
  BY <1>0, <1>5 DEF vars, In
<1> QED
  BY <1>1, <1>2, <1>3, <1>4, <1>5 DEF Next

LEMMA CountInvStep ==
  ASSUME CapInv, QueueInv, CountInv, [Next]_vars
  PROVE  CountInv'
<1> DEFINE R == In("running")
<1>1. tier' = tier
  BY DEF Next, Admit, Drop, Enqueue, Resume, Expire, Cancel, Finish, PassOn,
         PutBack, vars
<1>2. Cap' = Cap /\ Cap \in Nat /\ Drift \in Nat /\ Cardinality(Calls) \in Nat
  BY <1>1, AdmissionAssumption, FS_CardinalityType DEF Droppable, Cap
<1>3. /\ pc' \in [Calls -> CallPc] /\ permits' \in Nat /\ permits \in Nat
      /\ Slots \in Nat /\ Slots' \in Nat
      /\ permits' + Slots' <= permits + Slots \/ \E c \in Calls : Drop(c)
  BY SlotsStep DEF CapInv
<1>4. Slots' <= Cardinality(Calls) /\ Cardinality(R') <= Cardinality(Calls)
  <2>1. (pc \in [Calls -> CallPc] => Slots <= Cardinality(Calls) /\ Cardinality(R) <= Cardinality(Calls))'
    BY SlotsAreCalls, PTL
  <2> QED BY <1>3, <2>1
<1>5. permits' + Slots' <= Cap' \/ permits' + Slots' <= Cardinality(Calls)
  <2>1. CASE permits' + Slots' <= permits + Slots
    <3>1. permits + Slots <= Cap \/ permits + Slots <= Cardinality(Calls)
      BY DEF CountInv
    <3>2. permits' \in Nat /\ Slots' \in Nat /\ permits \in Nat /\ Slots \in Nat
      BY <1>3
    <3>3. \A n \in Nat : permits + Slots <= n => permits' + Slots' <= n
      BY <2>1, <3>2 DEF Slots
    <3> QED BY <1>2, <3>1, <3>3
  <2>2. CASE \E c \in Calls : Drop(c)
    <3>1. permits' = 0
      BY <2>2 DEF Drop
    <3> QED BY <1>3, <1>4, <3>1
  <2> QED BY <1>3, <2>1, <2>2
<1>6. /\ active' \in Int
      /\ active' <= Cardinality(R')
      /\ active' >= Cardinality(R') - Drift - Cardinality(Calls)
  <2>1. /\ active' \in Int /\ Cardinality(R) \in Nat /\ Cardinality(R') \in Nat
        /\ \/ active' - active = Cardinality(R') - Cardinality(R)
           \/ /\ active' = active /\ active >= -Drift
              /\ Cardinality(R') = Cardinality(R) + 1
    BY RunningStep
  <2>2. /\ active \in Int /\ active <= Cardinality(R)
        /\ active >= Cardinality(R) - Drift - Cardinality(Calls)
    BY DEF CountInv
  <2> QED BY <1>2, <1>4, <2>1, <2>2
<1> QED BY <1>1, <1>5, <1>6 DEF CountInv

LEMMA IInvInit == Init => IInv
<1> SUFFICES ASSUME Init PROVE IInv
  OBVIOUS
<1>1. In("admitted") = {} /\ In("running") = {} /\ In("queued") = {} /\ In("ghost") = {}
  BY DEF Init, In
<1>2. Slots = 0 /\ Cardinality(In("running")) = 0
  BY <1>1, FS_EmptySet DEF Slots
<1>3. /\ queue = << >> /\ pc \in [Calls -> CallPc] /\ permits = Cap
      /\ tier \in Tiers /\ active = 0
  BY DEF Init, CallPc
<1>4. Cap \in Nat /\ Drift \in Nat /\ Cardinality(Calls) \in Nat
  BY AdmissionAssumption, FS_CardinalityType DEF Cap
<1>5. ToSet(queue) = {} /\ IsInjective(queue) /\ queue \in Seq(Calls)
  BY <1>3 DEF ToSet, IsInjective
<1>6. QueueInv
  BY <1>1, <1>3, <1>4, <1>5 DEF QueueInv, NobodyOvertakes, QueueIsExact
<1>7. CountInv
  BY <1>2, <1>3, <1>4 DEF CountInv
<1> QED BY <1>6, <1>7, CapInvInit DEF IInv

LEMMA IInvTypes == IInv => TypeOK
<1> SUFFICES ASSUME IInv PROVE TypeOK
  OBVIOUS
<1>1. Cap \in Nat /\ Drift \in Nat /\ Cardinality(Calls) \in Nat
  BY AdmissionAssumption, FS_CardinalityType DEF Cap
<1>2. Cardinality(In("admitted")) \in Nat /\ Cardinality(In("running")) \in Nat
  BY InIsFinite
<1>3. pc \in [Calls -> CallPc] /\ permits \in Nat /\ queue \in Seq(Calls)
  BY DEF IInv, CapInv, QueueInv
<1>4. permits \in (0 .. Cap) \cup (0 .. Cardinality(Calls))
  BY <1>1, <1>2, <1>3 DEF IInv, CountInv, Slots
<1>5. active \in (-Drift - Cardinality(Calls)) .. Cardinality(Calls)
  BY <1>1, <1>2, <1>3, SlotsAreCalls DEF IInv, CountInv
<1> QED BY <1>3, <1>4, <1>5 DEF TypeOK, IInv, CountInv

THEOREM SpecIInv == Spec => []IInv
<1>1. IInv /\ [Next]_vars => IInv'
  BY CapInvStep, QueueInvStep, CountInvStep DEF IInv
<1> QED BY IInvInit, <1>1, PTL DEF Spec

\* FR-66.02, for every number of calls: the queue holds every waiting call exactly
\* once, and no call that arrives is admitted before one that waits.
THEOREM SpecQueueIsKept == Spec => []QueueIsKept
<1>1. IInv => QueueIsKept
  BY IInvTypes DEF IInv, QueueInv, QueueIsKept
<1> QED BY SpecIInv, <1>1, PTL

-----------------------------------------------------------------------------
(* LLMSemaphore                                                             *)

\* What LLMSemaphore takes from the library is what this module takes from it.
LEMMA SameOperators ==
  /\ \A S : Semaphore!Cardinality(S) = Cardinality(S)
  /\ \A q : Semaphore!ToSet(q) = ToSet(q)
  /\ \A q, k : Semaphore!RemoveAt(q, k) = RemoveAt(q, k)
<1>1. \A S : Semaphore!Cardinality(S) = Cardinality(S)
  BY DEF Semaphore!Cardinality, Cardinality, Semaphore!ExistsBijection, ExistsBijection,
         Semaphore!Bijection, Bijection, Semaphore!Injection, Injection,
         Semaphore!Surjection, Surjection, Semaphore!IsInjective, IsInjective
<1>2. \A q : Semaphore!ToSet(q) = ToSet(q)
  BY DEF Semaphore!ToSet, ToSet
<1>3. \A q, k : Semaphore!RemoveAt(q, k) = RemoveAt(q, k)
  BY DEF Semaphore!RemoveAt, RemoveAt
<1> QED BY <1>1, <1>2, <1>3

Waiting == Semaphore!Queued
Running == Semaphore!Running

\* Permits are conserved and the queue is exact, in order and never asleep; a permit
\* is granted to none but a waiter.
SemaphoreInv ==
  /\ at \in [SemaphoreCalls -> {"out", "queued", "running"}]
  /\ value \in Nat /\ waiters \in Seq(SemaphoreCalls) /\ granted \subseteq Waiting
  /\ ToSet(waiters) = Waiting /\ IsInjective(waiters)
  /\ IsFiniteSet(Waiting) /\ IsFiniteSet(Running)
  /\ waiting = Cardinality(Waiting) /\ Len(waiters) = waiting /\ waiting <= QueueSize
  /\ running = Cardinality(Running)
  /\ value + Cardinality(granted) + running = MaxConcurrent
  /\ Semaphore!NoLostWakeUp /\ Semaphore!GrantedInOrder

\* The order of the grants in a queue.
InOrder(ws, gs) == \A i, j \in DOMAIN ws : i < j /\ ws[j] \in gs => ws[i] \in gs

\* _wake_up_next turns permits into grants, wakes somebody if it can, and keeps the
\* order.
LEMMA WakeUp ==
  ASSUME NEW limit \in Nat, NEW v \in Nat, limit <= v, limit = v \/ limit = 1,
         NEW ws \in Seq(SemaphoreCalls), IsFiniteSet(ToSet(ws)),
         NEW gs \in SUBSET ToSet(ws), InOrder(ws, gs),
         Semaphore!WakeUpNext(limit, v, ws, gs)
  PROVE  /\ value' \in Nat /\ waiters' = ws /\ granted' \subseteq ToSet(ws)
         /\ value' + Cardinality(granted') = v + Cardinality(gs)
         /\ Semaphore!NoLostWakeUp' /\ Semaphore!GrantedInOrder'
<1>1. PICK woken \in SUBSET (ToSet(ws) \ gs) :
        /\ Cardinality(woken) <= limit
        /\ Cardinality(woken) = limit \/ woken = ToSet(ws) \ gs
        /\ \A i, j \in DOMAIN ws : i < j /\ ws[j] \in woken => ws[i] \in woken \cup gs
        /\ value' = v - Cardinality(woken)
        /\ waiters' = ws
        /\ granted' = gs \cup woken
  BY SameOperators DEF Semaphore!WakeUpNext
<1>2. /\ IsFiniteSet(woken) /\ Cardinality(woken) \in Nat
      /\ IsFiniteSet(gs) /\ Cardinality(gs) \in Nat
  BY FS_Subset, FS_CardinalityType
<1>3. Cardinality(gs \cup woken) = Cardinality(gs) + Cardinality(woken)
  <2>1. Cardinality(gs \cup woken)
          = Cardinality(gs) + Cardinality(woken) - Cardinality(gs \cap woken)
    BY <1>2, FS_Union
  <2>2. Cardinality(gs \cap woken) = 0
    <3>1. gs \cap woken = {}
      OBVIOUS
    <3> QED BY <3>1, FS_EmptySet
  <2> QED BY <1>2, <2>1, <2>2
<1>4. value' \in Nat /\ value' + Cardinality(granted') = v + Cardinality(gs)
  BY <1>1, <1>2, <1>3
<1>5. value' > 0 /\ waiters' # << >> => granted' # {}
  <2> SUFFICES ASSUME value' > 0, ws # << >> PROVE granted' # {}
    BY <1>1
  <2>1. CASE woken = ToSet(ws) \ gs
    <3>1. 1 \in DOMAIN ws
      OBVIOUS
    <3>2. granted' = ToSet(ws) /\ ws[1] \in ToSet(ws)
      BY <1>1, <2>1, <3>1 DEF ToSet
    <3> QED BY <3>2
  <2>2. CASE Cardinality(woken) = limit
    <3>1. Cardinality(woken) # 0
      BY <1>1, <1>2, <2>2
    <3>2. woken # {}
      BY <3>1, FS_EmptySet
    <3> QED BY <1>1, <3>2
  <2> QED BY <1>1, <2>1, <2>2
<1>6. \A i, j \in DOMAIN waiters' : i < j /\ (waiters')[j] \in granted' => (waiters')[i] \in granted'
  BY <1>1 DEF InOrder
<1> QED
  BY <1>1, <1>4, <1>5, <1>6 DEF Semaphore!NoLostWakeUp, Semaphore!GrantedInOrder

\* A waiter that leaves takes its grant with it; the rest keep their order.
LEMMA LeavingKeepsOrder ==
  ASSUME NEW ws \in Seq(SemaphoreCalls), IsInjective(ws), NEW k \in DOMAIN ws,
         NEW gs \in SUBSET ToSet(ws), InOrder(ws, gs)
  PROVE  InOrder(RemoveAt(ws, k), gs \ {ws[k]})
<1> DEFINE r == RemoveAt(ws, k)
           Was(i) == IF i < k THEN i ELSE i + 1
<1>1. /\ DOMAIN ws = 1 .. Len(ws) /\ Len(ws) \in Nat /\ k \in 1 .. Len(ws)
      /\ r \in Seq(SemaphoreCalls) /\ Len(r) = Len(ws) - 1
      /\ \A i \in 1 .. Len(ws) - 1 : r[i] = IF i < k THEN ws[i] ELSE ws[i + 1]
  BY RemovingOne
<1> HIDE DEF r
<1>2. DOMAIN r = 1 .. Len(ws) - 1
  BY <1>1
<1>3. ASSUME NEW i \in DOMAIN r, NEW j \in DOMAIN r, i < j, r[j] \in gs \ {ws[k]}
      PROVE  r[i] \in gs \ {ws[k]}
  <2>1. /\ Was(i) \in DOMAIN ws /\ Was(j) \in DOMAIN ws /\ Was(i) < Was(j) /\ Was(i) # k
        /\ r[i] = ws[Was(i)] /\ r[j] = ws[Was(j)]
    BY <1>1, <1>2, <1>3
  <2> HIDE DEF Was
  <2>2. ws[Was(i)] \in gs
    BY <1>3, <2>1 DEF InOrder
  <2>3. ws[Was(i)] # ws[k]
    BY <2>1 DEF IsInjective
  <2> QED BY <2>1, <2>2, <2>3
<1> QED BY <1>3 DEF InOrder, r

\* A call leaves the queue, with v permits to hand out.
LEMMA LeaveStep ==
  ASSUME SemaphoreInv, NEW c \in SemaphoreCalls, NEW v \in Nat, Semaphore!Leave(c, v)
  PROVE  /\ value' \in Nat /\ waiters' \in Seq(SemaphoreCalls) /\ IsInjective(waiters')
         /\ ToSet(waiters') = Waiting \ {c} /\ Len(waiters') = Len(waiters) - 1
         /\ granted' \subseteq Waiting \ {c}
         /\ value' + Cardinality(granted') = v + Cardinality(granted \ {c})
         /\ Semaphore!NoLostWakeUp' /\ Semaphore!GrantedInOrder'
<1>1. PICK k \in DOMAIN waiters :
        /\ waiters[k] = c
        /\ Semaphore!WakeUpNext(v, v, RemoveAt(waiters, k), granted \ {c})
  BY SameOperators DEF Semaphore!Leave
<1> DEFINE ws == RemoveAt(waiters, k)
           gs == granted \ {c}
<1>2. /\ waiters \in Seq(SemaphoreCalls) /\ IsInjective(waiters) /\ ToSet(waiters) = Waiting
      /\ IsFiniteSet(Waiting) /\ granted \subseteq Waiting /\ InOrder(waiters, granted)
  BY DEF SemaphoreInv, InOrder, Semaphore!GrantedInOrder
<1>3. /\ ws \in Seq(SemaphoreCalls) /\ IsInjective(ws) /\ ToSet(ws) = Waiting \ {c}
      /\ Len(ws) = Len(waiters) - 1
  BY <1>1, <1>2, RemovingOne
<1>4. gs \in SUBSET ToSet(ws) /\ InOrder(ws, gs) /\ IsFiniteSet(ToSet(ws))
  <2>1. InOrder(ws, gs)
    BY <1>1, <1>2, LeavingKeepsOrder
  <2>2. IsFiniteSet(ToSet(ws))
    BY <1>2, <1>3, FS_Subset
  <2> QED BY <1>2, <1>3, <2>1, <2>2
<1> HIDE DEF ws, gs
<1>5. Semaphore!WakeUpNext(v, v, ws, gs)
  BY <1>1 DEF ws, gs
<1>6. /\ value' \in Nat /\ waiters' = ws /\ granted' \subseteq ToSet(ws)
      /\ value' + Cardinality(granted') = v + Cardinality(gs)
      /\ Semaphore!NoLostWakeUp' /\ Semaphore!GrantedInOrder'
  <2>1. v <= v
    OBVIOUS
  <2> QED BY <1>3, <1>4, <1>5, <2>1, WakeUp
<1> QED BY <1>3, <1>6 DEF gs

LEMMA SemaphoreStart ==
  ASSUME Semaphore!Init
  PROVE  SemaphoreInv
<1>1. Waiting = {} /\ Running = {}
  BY DEF Semaphore!Init, Waiting, Running, Semaphore!Queued, Semaphore!Running
<1>2. ToSet(waiters) = {} /\ IsInjective(waiters) /\ Len(waiters) = 0
      /\ waiters \in Seq(SemaphoreCalls)
  BY DEF Semaphore!Init, ToSet, IsInjective
<1>3. Cardinality({}) = 0 /\ IsFiniteSet({})
  BY FS_EmptySet
<1> QED
  BY <1>1, <1>2, <1>3, SemaphoreAssumption
  DEF SemaphoreInv, Semaphore!Init, Semaphore!NoLostWakeUp, Semaphore!GrantedInOrder

LEMMA SemaphoreInvStep ==
  ASSUME SemaphoreInv, [Semaphore!Next]_(Semaphore!vars)
  PROVE  SemaphoreInv'
<1> DEFINE Q == Waiting
           R == Running
           Places == {"out", "queued", "running"}
<1>0. /\ at \in [SemaphoreCalls -> Places]
      /\ value \in Nat /\ waiters \in Seq(SemaphoreCalls) /\ granted \subseteq Q
      /\ ToSet(waiters) = Q /\ IsInjective(waiters)
      /\ IsFiniteSet(Q) /\ IsFiniteSet(R)
      /\ waiting = Cardinality(Q) /\ Len(waiters) = waiting /\ waiting <= QueueSize
      /\ running = Cardinality(R)
      /\ value + Cardinality(granted) + running = MaxConcurrent
      /\ Semaphore!NoLostWakeUp /\ Semaphore!GrantedInOrder
      /\ MaxConcurrent \in Nat /\ QueueSize \in Nat
  BY SemaphoreAssumption DEF SemaphoreInv
<1>c. /\ waiting \in Nat /\ running \in Nat
      /\ IsFiniteSet(granted) /\ Cardinality(granted) \in Nat
  BY <1>0, FS_Subset, FS_CardinalityType
\* How the calls that wait and those that run change with the place of one call.
<1>q. ASSUME NEW c \in SemaphoreCalls, c \in Q
      PROVE  /\ IsFiniteSet(Q \ {c}) /\ Cardinality(Q \ {c}) = Cardinality(Q) - 1
             /\ Cardinality(Q \ {c}) \in Nat
  BY <1>0, <1>q, FS_RemoveElement, FS_CardinalityType
<1>a. ASSUME NEW c \in SemaphoreCalls, at[c] = "out"
      PROVE  /\ IsFiniteSet(Q \cup {c}) /\ Cardinality(Q \cup {c}) = Cardinality(Q) + 1
  BY <1>0, <1>a, FS_AddElement DEF Waiting, Semaphore!Queued
<1>r. ASSUME NEW c \in SemaphoreCalls, at[c] # "running"
      PROVE  /\ IsFiniteSet(R \cup {c}) /\ Cardinality(R \cup {c}) = Cardinality(R) + 1
  BY <1>0, <1>r, FS_AddElement DEF Running, Semaphore!Running
<1>e. ASSUME NEW c \in SemaphoreCalls, at[c] = "running"
      PROVE  /\ IsFiniteSet(R \ {c}) /\ Cardinality(R \ {c}) = Cardinality(R) - 1
  BY <1>0, <1>e, FS_RemoveElement DEF Running, Semaphore!Running
<1>1. ASSUME NEW c \in SemaphoreCalls, Semaphore!StartAtOnce(c)
      PROVE  SemaphoreInv'
  <2>1. /\ at[c] = "out" /\ value > 0 /\ waiters = << >> /\ value' = value - 1
        /\ waiters' = waiters /\ granted' = granted /\ waiting' = waiting
        /\ at' = [at EXCEPT ![c] = "running"] /\ running' = running + 1
    BY <1>0, <1>1 DEF Semaphore!StartAtOnce, Semaphore!Locked, Semaphore!Move
  <2>2. Q' = Q /\ R' = R \cup {c}
    BY <1>0, <2>1 DEF Waiting, Running, Semaphore!Queued, Semaphore!Running
  <2>3. IsFiniteSet(R') /\ Cardinality(R') = Cardinality(R) + 1
    BY <1>r, <2>1, <2>2
  <2>4. /\ at' \in [SemaphoreCalls -> Places] /\ value' \in Nat
        /\ value' + Cardinality(granted') + running' = MaxConcurrent
    BY <1>0, <1>c, <2>1
  <2>5. Semaphore!NoLostWakeUp' /\ Semaphore!GrantedInOrder'
    BY <1>0, <2>1 DEF Semaphore!NoLostWakeUp, Semaphore!GrantedInOrder
  <2> QED BY <1>0, <2>1, <2>2, <2>3, <2>4, <2>5 DEF SemaphoreInv
<1>2. ASSUME NEW c \in SemaphoreCalls, Semaphore!Enqueue(c)
      PROVE  SemaphoreInv'
  <2>1. /\ at[c] = "out" /\ waiting < QueueSize /\ (value = 0 \/ waiters # << >>)
        /\ waiters' = Append(waiters, c) /\ value' = value /\ granted' = granted
        /\ at' = [at EXCEPT ![c] = "queued"] /\ waiting' = waiting + 1 /\ running' = running
    BY <1>0, <1>c, <1>2
    DEF Semaphore!Enqueue, Semaphore!QueueFull, Semaphore!Locked, Semaphore!Move
  <2>2. Q' = Q \cup {c} /\ R' = R /\ c \notin Q
    BY <1>0, <2>1 DEF Waiting, Running, Semaphore!Queued, Semaphore!Running
  <2>3. IsFiniteSet(Q') /\ Cardinality(Q') = Cardinality(Q) + 1
    BY <1>a, <2>1, <2>2
  <2>4. /\ waiters' \in Seq(SemaphoreCalls) /\ IsInjective(waiters')
        /\ ToSet(waiters') = Q \cup {c} /\ Len(waiters') = Len(waiters) + 1
    BY <1>0, <2>1, <2>2, AddingOne
  <2>5. /\ at' \in [SemaphoreCalls -> Places] /\ waiting' <= QueueSize
        /\ Len(waiters') = waiting' /\ waiting' = Cardinality(Q')
    BY <1>0, <1>c, <2>1, <2>3, <2>4
  <2>6. Semaphore!NoLostWakeUp'
    BY <1>0, <2>1 DEF Semaphore!NoLostWakeUp
  <2>7. Semaphore!GrantedInOrder'
    <3>1. /\ DOMAIN waiters' = 1 .. Len(waiters) + 1 /\ DOMAIN waiters = 1 .. Len(waiters)
          /\ Len(waiters) \in Nat
          /\ \A i \in 1 .. Len(waiters) : (waiters')[i] = waiters[i]
          /\ (waiters')[Len(waiters) + 1] = c
      BY <1>0, <2>1
    <3>2. c \notin granted'
      BY <1>0, <2>1, <2>2
    <3>3. ASSUME NEW i \in DOMAIN waiters', NEW j \in DOMAIN waiters',
                 i < j, (waiters')[j] \in granted'
          PROVE  (waiters')[i] \in granted'
      <4>1. j # Len(waiters) + 1
        BY <3>1, <3>2, <3>3
      <4>2. i \in 1 .. Len(waiters) /\ j \in 1 .. Len(waiters)
        BY <3>1, <3>3, <4>1
      <4> QED BY <1>0, <2>1, <3>1, <3>3, <4>2 DEF Semaphore!GrantedInOrder
    <3> QED BY <3>3 DEF Semaphore!GrantedInOrder
  <2> QED BY <1>0, <2>1, <2>2, <2>3, <2>4, <2>5, <2>6, <2>7 DEF SemaphoreInv
<1>3. ASSUME NEW c \in SemaphoreCalls, Semaphore!Resume(c)
      PROVE  SemaphoreInv'
  <2>1. /\ c \in granted /\ Semaphore!Leave(c, value)
        /\ at' = [at EXCEPT ![c] = "running"] /\ waiting' = waiting - 1
        /\ running' = running + 1
    BY <1>3 DEF Semaphore!Resume, Semaphore!Move
  <2>2. c \in Q /\ Q' = Q \ {c} /\ R' = R \cup {c} /\ at[c] # "running"
    BY <1>0, <2>1 DEF Waiting, Running, Semaphore!Queued, Semaphore!Running
  <2>3. /\ value' \in Nat /\ waiters' \in Seq(SemaphoreCalls) /\ IsInjective(waiters')
        /\ ToSet(waiters') = Q \ {c} /\ Len(waiters') = Len(waiters) - 1
        /\ granted' \subseteq Q \ {c}
        /\ value' + Cardinality(granted') = value + Cardinality(granted \ {c})
        /\ Semaphore!NoLostWakeUp' /\ Semaphore!GrantedInOrder'
    BY <1>0, <2>1, LeaveStep
  <2>4. /\ IsFiniteSet(Q') /\ Cardinality(Q') = Cardinality(Q) - 1
        /\ IsFiniteSet(R') /\ Cardinality(R') = Cardinality(R) + 1
    BY <1>q, <1>r, <2>2
  <2>5. Cardinality(granted \ {c}) = Cardinality(granted) - 1 /\ Cardinality(granted') \in Nat
    <3>1. IsFiniteSet(granted')
      BY <2>2, <2>3, <2>4, FS_Subset
    <3> QED BY <1>c, <2>1, <3>1, FS_RemoveElement, FS_CardinalityType
  <2>6. at' \in [SemaphoreCalls -> Places]
    BY <1>0, <2>1
  <2>7. /\ waiting' <= QueueSize /\ waiting' = Cardinality(Q')
        /\ Len(waiters') = waiting' /\ running' = Cardinality(R')
    BY <1>0, <1>c, <2>1, <2>3, <2>4
  <2>8. value' + Cardinality(granted') + running' = MaxConcurrent
    <3>1. value' + Cardinality(granted') = value + (Cardinality(granted) - 1)
      BY <2>3, <2>5
    <3>2. running' = running + 1
      BY <2>1
    <3>3. value + Cardinality(granted) + running = MaxConcurrent /\ value \in Nat
      BY <1>0
    <3> QED BY <1>c, <3>1, <3>2, <3>3
  <2> QED BY <2>2, <2>3, <2>4, <2>6, <2>7, <2>8 DEF SemaphoreInv
<1>4. ASSUME NEW c \in SemaphoreCalls, Semaphore!TimeOut(c)
      PROVE  SemaphoreInv'
  <2> DEFINE v == IF c \in granted THEN value + 1 ELSE value
  <2>1. /\ at[c] = "queued" /\ Semaphore!Leave(c, v)
        /\ at' = [at EXCEPT ![c] = "out"] /\ waiting' = waiting - 1
        /\ running' = running
    BY <1>4 DEF Semaphore!TimeOut, Semaphore!Move
  <2>2. c \in Q /\ Q' = Q \ {c} /\ R' = R
    BY <1>0, <2>1 DEF Waiting, Running, Semaphore!Queued, Semaphore!Running
  <2>v. v \in Nat
    BY <1>0
  <2>w. v + Cardinality(granted \ {c}) = value + Cardinality(granted)
    <3>1. CASE c \in granted
      <4>1. Cardinality(granted \ {c}) = Cardinality(granted) - 1
        BY <1>c, <3>1, FS_RemoveElement
      <4> QED BY <1>0, <1>c, <3>1, <4>1
    <3>2. CASE c \notin granted
      <4>1. granted \ {c} = granted
        BY <3>2
      <4> QED BY <3>2, <4>1
    <3> QED BY <3>1, <3>2
  <2> HIDE DEF v
  <2>3. /\ value' \in Nat /\ waiters' \in Seq(SemaphoreCalls) /\ IsInjective(waiters')
        /\ ToSet(waiters') = Q \ {c} /\ Len(waiters') = Len(waiters) - 1
        /\ granted' \subseteq Q \ {c}
        /\ value' + Cardinality(granted') = v + Cardinality(granted \ {c})
        /\ Semaphore!NoLostWakeUp' /\ Semaphore!GrantedInOrder'
    BY <2>1, <2>v, LeaveStep
  <2>4. IsFiniteSet(Q') /\ Cardinality(Q') = Cardinality(Q) - 1
    BY <1>q, <2>2
  <2>5. Cardinality(granted') \in Nat
    <3>1. IsFiniteSet(granted')
      BY <2>2, <2>3, <2>4, FS_Subset
    <3> QED BY <3>1, FS_CardinalityType
  <2>6. /\ at' \in [SemaphoreCalls -> Places] /\ waiting' <= QueueSize
        /\ Len(waiters') = waiting' /\ waiting' = Cardinality(Q')
    BY <1>0, <1>c, <2>1, <2>3, <2>4
  <2>7. value' + Cardinality(granted') + running' = MaxConcurrent
    BY <1>0, <1>c, <2>1, <2>3, <2>5, <2>w
  <2> QED BY <1>0, <2>1, <2>2, <2>3, <2>4, <2>6, <2>7 DEF SemaphoreInv
<1>5. ASSUME NEW c \in SemaphoreCalls, Semaphore!Finish(c)
      PROVE  SemaphoreInv'
  <2>1. /\ at[c] = "running" /\ Semaphore!WakeUpNext(1, value + 1, waiters, granted)
        /\ at' = [at EXCEPT ![c] = "out"] /\ running' = running - 1 /\ waiting' = waiting
    BY <1>5 DEF Semaphore!Finish, Semaphore!Move
  <2>2. Q' = Q /\ R' = R \ {c}
    BY <1>0, <2>1 DEF Waiting, Running, Semaphore!Queued, Semaphore!Running
  <2>3. InOrder(waiters, granted) /\ granted \in SUBSET ToSet(waiters)
    BY <1>0 DEF InOrder, Semaphore!GrantedInOrder
  <2>4. value + 1 \in Nat /\ 1 <= value + 1 /\ 1 \in Nat
    BY <1>0
  <2>5. /\ value' \in Nat /\ waiters' = waiters /\ granted' \subseteq ToSet(waiters)
        /\ value' + Cardinality(granted') = (value + 1) + Cardinality(granted)
        /\ Semaphore!NoLostWakeUp' /\ Semaphore!GrantedInOrder'
    BY <1>0, <2>1, <2>3, <2>4, WakeUp
  <2>6. IsFiniteSet(R') /\ Cardinality(R') = Cardinality(R) - 1
    BY <1>e, <2>1, <2>2
  <2>7. Cardinality(granted') \in Nat
    <3>1. IsFiniteSet(granted')
      BY <1>0, <2>5, FS_Subset
    <3> QED BY <3>1, FS_CardinalityType
  <2>8. at' \in [SemaphoreCalls -> Places]
    BY <1>0, <2>1
  <2>9. running' = Cardinality(R')
    BY <1>0, <1>c, <2>1, <2>6
  <2>10. value' + Cardinality(granted') + running' = MaxConcurrent
    BY <1>0, <1>c, <2>1, <2>5, <2>7
  <2> QED BY <1>0, <2>1, <2>2, <2>5, <2>6, <2>8, <2>9, <2>10 DEF SemaphoreInv
<1>6. CASE UNCHANGED Semaphore!vars
  <2>1. UNCHANGED <<value, waiters, granted, at, waiting, running>>
    BY <1>6 DEF Semaphore!vars
  <2>2. Q' = Q /\ R' = R /\ Semaphore!NoLostWakeUp' /\ Semaphore!GrantedInOrder'
    BY <1>0, <2>1
    DEF Waiting, Running, Semaphore!Queued, Semaphore!Running, Semaphore!NoLostWakeUp,
        Semaphore!GrantedInOrder
  <2> QED BY <1>0, <2>1, <2>2 DEF SemaphoreInv
<1> QED
  BY <1>1, <1>2, <1>3, <1>4, <1>5, <1>6 DEF Semaphore!Next

\* FR-28.11 and FR-28.12, for every number of calls and every setting: no more than
\* MaxConcurrent calls run, no timeout loses or makes up a permit, the counter that
\* bounds the queue is its length, permits are granted in the order of arrival, and
\* no call waits for a wake-up that nobody owes it.
THEOREM SpecPermitsAndQueue == Semaphore!Spec => []PermitsAndQueue
<1>1. Semaphore!Init => SemaphoreInv
  BY SemaphoreStart
<1>2. SemaphoreInv /\ [Semaphore!Next]_(Semaphore!vars) => SemaphoreInv'
  BY SemaphoreInvStep
<1>3. SemaphoreInv => PermitsAndQueue
  <2> SUFFICES ASSUME SemaphoreInv PROVE PermitsAndQueue
    OBVIOUS
  <2>1. /\ Cardinality(granted) \in Nat /\ Cardinality(Running) \in Nat
        /\ Cardinality(Waiting) \in Nat
    BY FS_Subset, FS_CardinalityType DEF SemaphoreInv
  <2>2. Semaphore!TypeOK
    BY <2>1, SemaphoreAssumption
    DEF SemaphoreInv, Semaphore!TypeOK, Waiting, Semaphore!Queued
  <2>3. Semaphore!PermitsConserved
    BY SameOperators DEF SemaphoreInv, Running, Semaphore!PermitsConserved
  <2>4. Semaphore!QueueInOrder
    BY SameOperators
    DEF SemaphoreInv, Waiting, Semaphore!QueueInOrder, Semaphore!QueueIsCounted
  <2> QED BY <2>2, <2>3, <2>4 DEF PermitsAndQueue
<1> QED BY <1>1, <1>2, <1>3, PTL DEF Semaphore!Spec
=============================================================================
