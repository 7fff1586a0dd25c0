-------------------------- MODULE StreamsProofs ----------------------------
(***************************************************************************)
(* The replay buffer for every number of streams, every limit and every    *)
(* interleaving of their commands, and what the streams are told of the    *)
(* turns, for every number of tabs, turns and losses.                      *)
(***************************************************************************)
EXTENDS MCStreams, FiniteSetTheorems, TLAPS

\* Nothing is ahead of the counter.
BehindCounter ==
  /\ fresh \subseteq appended /\ appended \subseteq 1 .. counter
  /\ buffer \subseteq fresh
  /\ \A e \in Emitters : emit[e].at # "idle" => emit[e].id \in 1 .. counter

\* An emission under way is less than MaxEvents events behind the counter.
EmissionsPrompt == \A e \in Emitters : emit[e].at # "idle" => counter < emit[e].id + MaxEvents

\* What left the buffer is older than all that is in it, and than all that will
\* still get there.
Gone == appended \ buffer
GoneIsOlder ==
  /\ \A h \in Gone, j \in buffer : h < j
  /\ \A h \in Gone, e \in Emitters : emit[e].at = "numbered" => h < emit[e].id

\* What a reader has been promised and is not in the buffer any more left it since.
MissingIsLost ==
  \A r \in Readers : replay[r].at = "looked" =>
    \A i \in appended : i > replay[r].last => i \in buffer \/ i \in replay[r].lost

BufferInv ==
  /\ TypeOK
  /\ MissingIsLost
  /\ BehindCounter
  /\ EmissionsPrompt
  /\ GoneIsOlder
  /\ IdsAreUnique
  /\ NewestAreKept

ReplayState == [at : {"away", "looked", "missed", "replayed"},
                last : 0 .. MaxId, got : SUBSET Ids, lost : SUBSET Ids]

\* A hit: some event of the buffer is at most one after the client's last, and
\* what the buffer lacks is older still.
LEMMA BufferInvHit == BufferInv => HitIsComplete
<1> SUFFICES ASSUME BufferInv, NEW last \in appended, Hit(last), NEW i \in appended,
                    i > last, i \notin buffer
             PROVE  FALSE
  BY DEF HitIsComplete
<1>1. last \in Nat \ {0} /\ i \in Nat
  BY DEF BufferInv, TypeOK, Ids
<1>2. PICK j \in buffer : j <= last + 1
  BY <1>1 DEF Hit
<1>3. i < j /\ j \in Nat
  BY DEF BufferInv, GoneIsOlder, Gone, TypeOK, Ids
<1> QED BY <1>1, <1>2, <1>3

\* What leaves the buffer is added to what the readers have lost.
LEMMA KeepStep ==
  ASSUME BufferInv, NEW S, S \subseteq buffer, Keep(S), appended' = appended \/ appended' = {}
  PROVE  /\ replay' \in [Readers -> ReplayState] /\ buffer' = S
         /\ MissingIsLost'
<1>0. /\ replay \in [Readers -> ReplayState] /\ buffer \subseteq Ids /\ buffer' = S
      /\ \A r \in Readers :
           replay'[r] = IF replay[r].at = "looked"
                          THEN [replay[r] EXCEPT !.lost = @ \cup (buffer \ S)] ELSE replay[r]
  BY DEF BufferInv, TypeOK, Keep, ReplayState
<1>1. ASSUME NEW r \in Readers
      PROVE  /\ replay'[r] \in ReplayState
             /\ replay'[r].at = replay[r].at /\ replay'[r].last = replay[r].last
             /\ replay[r].at = "looked" => replay'[r].lost = replay[r].lost \cup (buffer \ S)
  <2> DEFINE more == replay[r].lost \cup (buffer \ S)
             n == [replay[r] EXCEPT !.lost = more]
  <2>1. replay[r] \in ReplayState /\ more \in SUBSET Ids
    BY <1>0 DEF ReplayState
  <2> HIDE DEF more
  <2>2. /\ n \in ReplayState /\ n.lost = more
        /\ n.at = replay[r].at /\ n.last = replay[r].last
    BY <2>1 DEF ReplayState
  <2>3. replay'[r] = IF replay[r].at = "looked" THEN n ELSE replay[r]
    BY <1>0 DEF more
  <2> HIDE DEF n
  <2> QED BY <2>1, <2>2, <2>3 DEF more
<1>2. replay' \in [Readers -> ReplayState]
  <2>1. replay' = [r \in Readers |-> replay'[r]]
    BY DEF Keep
  <2> QED BY <1>1, <2>1
<1>3. MissingIsLost'
  <2> SUFFICES ASSUME NEW r \in Readers, replay'[r].at = "looked",
                      NEW i \in appended', i > replay'[r].last
               PROVE  i \in buffer' \/ i \in replay'[r].lost
    BY DEF MissingIsLost
  <2>1. i \in appended /\ i > replay[r].last /\ replay[r].at = "looked"
    BY <1>1
  <2>2. i \in buffer \/ i \in replay[r].lost
    BY <2>1 DEF BufferInv, MissingIsLost
  <2> QED BY <1>0, <1>1, <2>1, <2>2
<1> QED BY <1>0, <1>2, <1>3

Above(S, i) == {j \in S : j > i}

\* An id with MaxEvents ids above it, none of them beyond n, is at least that
\* far behind n.
LEMMA ManyAbove ==
  ASSUME NEW n \in Nat, NEW S, S \subseteq 1 .. n, NEW i \in S,
         ~(Cardinality(Above(S, i)) < MaxEvents)
  PROVE  i + MaxEvents <= n
<1>1. i \in Int /\ i + 1 \in Int /\ i <= n
  OBVIOUS
<1>2. /\ IsFiniteSet((i + 1) .. n)
      /\ Cardinality((i + 1) .. n) = IF i + 1 > n THEN 0 ELSE n - (i + 1) + 1
  BY <1>1, FS_Interval
<1>3. Above(S, i) \subseteq (i + 1) .. n
  <2> SUFFICES ASSUME NEW x \in S, x > i PROVE x \in (i + 1) .. n
    BY DEF Above
  <2>1. x \in 1 .. n
    OBVIOUS
  <2> QED BY <1>1, <2>1
<1>4. /\ IsFiniteSet(Above(S, i))
      /\ Cardinality(Above(S, i)) <= Cardinality((i + 1) .. n)
  BY <1>2, <1>3, FS_Subset
<1>5. Cardinality(Above(S, i)) \in Nat
  BY <1>4, FS_CardinalityType
<1> QED BY <1>1, <1>2, <1>4, <1>5, BufferAssumption

\* The ids above one of two ids include those above the other.
LEMMA AboveShrinks ==
  ASSUME NEW n \in Nat, NEW S, S \subseteq 1 .. n, NEW T, T \subseteq S,
         NEW i \in S, NEW j \in S, j <= i
  PROVE  /\ Cardinality(Above(T, i)) \in Nat /\ Cardinality(Above(S, j)) \in Nat
         /\ Cardinality(Above(T, i)) <= Cardinality(Above(S, j))
<1>1. IsFiniteSet(1 .. n)
  BY FS_Interval
<1>2. Above(S, j) \subseteq 1 .. n
  BY DEF Above
<1>3. IsFiniteSet(Above(S, j))
  BY <1>1, <1>2, FS_Subset
<1>4. Above(T, i) \subseteq Above(S, j)
  <2> SUFFICES ASSUME NEW x \in T, x > i PROVE x \in S /\ x > j
    BY DEF Above
  <2>1. x \in S /\ x \in 1 .. n /\ i \in 1 .. n /\ j \in 1 .. n
    OBVIOUS
  <2> QED BY <2>1
<1>5. IsFiniteSet(Above(T, i)) /\ Cardinality(Above(T, i)) <= Cardinality(Above(S, j))
  BY <1>3, <1>4, FS_Subset
<1> QED BY <1>3, <1>5, FS_CardinalityType

LEMMA BufferInvInit == Init => BufferInv
<1> SUFFICES ASSUME Init PROVE BufferInv
  OBVIOUS
<1>1. TypeOK
  BY BufferAssumption DEF Init, TypeOK, Idle, Away
<1> QED BY <1>1 DEF Init, BufferInv, BehindCounter, EmissionsPrompt, GoneIsOlder,
          Gone, IdsAreUnique, NewestAreKept, Newest, Idle, MissingIsLost, Away

\* NextId: the new id is ahead of everything.
LEMMA NextIdStep ==
  ASSUME BufferInv, NEW e \in Emitters, NextId(e)
  PROVE  BufferInv'
<1>0. /\ counter \in Nat /\ counter' = counter + 1
      /\ \A d \in Emitters \ {e} : emit'[d] = emit[d]
      /\ emit'[e] = [at |-> "numbered", id |-> counter + 1]
      /\ buffer' = buffer /\ appended' = appended /\ fresh' = fresh
  BY DEF BufferInv, TypeOK, NextId
<1>1. TypeOK'
  BY BufferAssumption DEF BufferInv, TypeOK, NextId
<1>2. BehindCounter'
  BY <1>0 DEF BufferInv, BehindCounter
<1>3. EmissionsPrompt'
  BY <1>0, BufferAssumption DEF BufferInv, NextId, Prompt, EmissionsPrompt, TypeOK
<1>4. GoneIsOlder'
  <2>1. Gone' = Gone
    BY <1>0 DEF Gone
  <2>2. Gone \subseteq 1 .. counter
    BY DEF Gone, BufferInv, BehindCounter
  <2>3. ASSUME NEW h \in Gone PROVE h < counter + 1
    <3>1. h \in 1 .. counter
      BY <2>2
    <3> QED BY <1>0, <3>1
  <2> QED BY <1>0, <2>1, <2>3 DEF BufferInv, GoneIsOlder
<1>5. IdsAreUnique'
  <2>1. counter + 1 \notin appended
    BY <1>0 DEF BufferInv, BehindCounter
  <2>2. \A d \in Emitters : emit[d].at # "idle" => emit[d].id # counter + 1
    BY <1>0 DEF BufferInv, BehindCounter
  <2> QED BY <1>0, <2>1, <2>2 DEF BufferInv, IdsAreUnique
<1>6. NewestAreKept'
  BY <1>0 DEF BufferInv, NewestAreKept, Newest
<1>7. MissingIsLost'
  BY <1>0 DEF BufferInv, MissingIsLost, NextId
<1> QED BY <1>1, <1>2, <1>3, <1>4, <1>5, <1>6, <1>7 DEF BufferInv

\* Append: what was gone is older than the id that is added.
LEMMA AppendStep ==
  ASSUME BufferInv, NEW e \in Emitters, Append(e)
  PROVE  BufferInv'
<1> DEFINE id == emit[e].id
<1>0. /\ counter \in Nat /\ counter' = counter
      /\ emit[e].at = "numbered" /\ id \in 1 .. counter
      /\ \A d \in Emitters \ {e} : emit'[d] = emit[d]
      /\ emit'[e].at = "appended" /\ emit'[e].id = id
      /\ buffer' = buffer \cup {id} /\ appended' = appended \cup {id}
      /\ fresh' = fresh \cup {id}
  BY DEF BufferInv, TypeOK, Append, BehindCounter
<1>1. TypeOK'
  <2>1. id \in Ids
    BY <1>0 DEF BufferInv, TypeOK, Ids
  <2> QED BY <1>0, <2>1 DEF BufferInv, TypeOK, Append
<1>2. BehindCounter'
  BY <1>0 DEF BufferInv, BehindCounter
<1>3. EmissionsPrompt'
  BY <1>0 DEF BufferInv, EmissionsPrompt
<1>4. GoneIsOlder'
  BY <1>0 DEF BufferInv, GoneIsOlder, Gone
<1>5. IdsAreUnique'
  BY <1>0 DEF BufferInv, IdsAreUnique
<1>6. NewestAreKept'
  <2> SUFFICES ASSUME NEW i \in fresh', Cardinality(Above(fresh', i)) < MaxEvents
               PROVE  i \in buffer'
    BY DEF NewestAreKept, Newest, Above
  <2>1. CASE i = id
    BY <1>0, <2>1
  <2>2. CASE i # id
    <3>1. i \in fresh /\ fresh' \subseteq 1 .. counter
      BY <1>0, <2>2 DEF BufferInv, BehindCounter
    <3>2. i \in 1 .. counter
      BY <3>1
    <3>3. /\ Cardinality(Above(fresh, i)) \in Nat
          /\ Cardinality(Above(fresh', i)) \in Nat
          /\ Cardinality(Above(fresh, i)) <= Cardinality(Above(fresh', i))
      BY <1>0, <3>1, <3>2, AboveShrinks
    <3>4. Cardinality(Above(fresh, i)) < MaxEvents
      BY <3>3, BufferAssumption
    <3> QED BY <1>0, <3>1, <3>4 DEF BufferInv, NewestAreKept, Newest, Above
  <2> QED BY <2>1, <2>2
<1>7. MissingIsLost'
  BY <1>0 DEF BufferInv, MissingIsLost, Append
<1> QED BY <1>1, <1>2, <1>3, <1>4, <1>5, <1>6, <1>7 DEF BufferInv

\* Trim: what is removed has MaxEvents ids above it, so it is older than what
\* stays and, as emissions are prompt, than what is on its way.
LEMMA TrimStep ==
  ASSUME BufferInv, NEW e \in Emitters, Trim(e)
  PROVE  BufferInv'
<1>0. /\ counter \in Nat /\ counter' = counter
      /\ \A d \in Emitters \ {e} : emit'[d] = emit[d]
      /\ emit'[e] = Idle
      /\ buffer' \subseteq buffer /\ appended' = appended /\ fresh' = fresh
      /\ buffer \subseteq fresh /\ fresh \subseteq appended
      /\ fresh \subseteq 1 .. counter /\ buffer \subseteq 1 .. counter
  BY DEF BufferInv, TypeOK, Trim, Keep, BehindCounter, Newest
<1>r. replay' \in [Readers -> ReplayState] /\ MissingIsLost'
  <2>1. Newest(buffer) \subseteq buffer /\ Keep(Newest(buffer))
    BY DEF Newest, Trim
  <2> QED BY <1>0, <2>1, KeepStep
<1>1. TypeOK'
  <2>1. emit' \in [Emitters -> [at : {"idle", "numbered", "appended"}, id : 0 .. MaxId]]
    BY BufferAssumption DEF BufferInv, TypeOK, Trim, Idle
  <2> QED BY <1>0, <1>r, <2>1 DEF BufferInv, TypeOK, ReplayState
<1>2. BehindCounter'
  <2>1. \A d \in Emitters : emit'[d].at # "idle" => emit'[d].id \in 1 .. counter'
    BY <1>0 DEF BufferInv, BehindCounter, Idle
  <2>2. /\ fresh' \subseteq appended' /\ appended' \subseteq 1 .. counter'
        /\ buffer' \subseteq fresh'
    BY <1>0 DEF BufferInv, BehindCounter
  <2> QED BY <2>1, <2>2 DEF BehindCounter
<1>3. EmissionsPrompt'
  BY <1>0 DEF BufferInv, EmissionsPrompt, Idle
<1>4. \A h \in buffer \ buffer' : ~(Cardinality(Above(buffer, h)) < MaxEvents)
  BY DEF Trim, Keep, Newest, Above
<1>5. \A j \in buffer' : Cardinality(Above(buffer, j)) < MaxEvents
  BY DEF Trim, Keep, Newest, Above
<1>6. GoneIsOlder'
  <2>1. \A h \in Gone' : h \in Gone \/ h \in buffer \ buffer'
    BY <1>0 DEF Gone
  <2>2. ASSUME NEW h \in buffer \ buffer', NEW j \in buffer' PROVE h < j
    <3>1. h \in 1 .. counter /\ j \in 1 .. counter /\ h \in buffer /\ j \in buffer
      BY <1>0
    <3>2. CASE j <= h
      <4>1. /\ Cardinality(Above(buffer, h)) \in Nat
            /\ Cardinality(Above(buffer, j)) \in Nat
            /\ Cardinality(Above(buffer, h)) <= Cardinality(Above(buffer, j))
        BY <1>0, <3>1, <3>2, AboveShrinks
      <4> QED BY <4>1, <1>4, <1>5, BufferAssumption
    <3> QED BY <3>1, <3>2
  <2>3. ASSUME NEW h \in buffer \ buffer', NEW d \in Emitters, emit'[d].at = "numbered"
        PROVE  h < emit'[d].id
    <3>1. h + MaxEvents <= counter
      BY <1>0, <1>4, ManyAbove
    <3>2. emit'[d] = emit[d]
      BY <1>0, <2>3 DEF Idle
    <3>3. counter < emit[d].id + MaxEvents /\ emit[d].id \in 1 .. counter
      BY <2>3, <3>2 DEF BufferInv, EmissionsPrompt, BehindCounter
    <3>4. h \in 1 .. counter
      BY <1>0
    <3> QED BY <1>0, <3>1, <3>2, <3>3, <3>4, BufferAssumption
  <2>4. ASSUME NEW h \in Gone, NEW d \in Emitters, emit'[d].at = "numbered"
        PROVE  h < emit'[d].id
    <3>1. emit'[d] = emit[d]
      BY <1>0, <2>4 DEF Idle
    <3> QED BY <2>4, <3>1 DEF BufferInv, GoneIsOlder
  <2>5. ASSUME NEW h \in Gone, NEW j \in buffer' PROVE h < j
    BY <1>0 DEF BufferInv, GoneIsOlder
  <2> QED BY <2>1, <2>2, <2>3, <2>4, <2>5 DEF GoneIsOlder
<1>7. IdsAreUnique'
  BY <1>0 DEF BufferInv, IdsAreUnique, Idle
<1>8. NewestAreKept'
  <2> SUFFICES ASSUME NEW i \in fresh, Cardinality(Above(fresh, i)) < MaxEvents
               PROVE  i \in buffer'
    BY <1>0 DEF NewestAreKept, Newest, Above
  <2>1. i \in buffer
    BY DEF BufferInv, NewestAreKept, Newest, Above
  <2>2. i \in 1 .. counter
    BY <1>0
  <2>3. /\ Cardinality(Above(buffer, i)) \in Nat
        /\ Cardinality(Above(fresh, i)) \in Nat
        /\ Cardinality(Above(buffer, i)) <= Cardinality(Above(fresh, i))
    <3>1. i <= i /\ buffer \subseteq fresh /\ fresh \subseteq 1 .. counter /\ counter \in Nat
      BY <1>0, <2>2
    <3> QED BY <3>1, AboveShrinks
  <2>4. Cardinality(Above(buffer, i)) < MaxEvents
    BY <2>3, BufferAssumption
  <2> QED BY <2>1, <2>4 DEF Trim, Keep, Newest, Above
<1> QED BY <1>1, <1>2, <1>3, <1>6, <1>7, <1>8, <1>r DEF BufferInv

LEMMA AbandonStep ==
  ASSUME BufferInv, NEW e \in Emitters, Abandon(e)
  PROVE  BufferInv'
<1>0. /\ UNCHANGED <<counter, buffer, replay, appended, fresh>>
      /\ \A d \in Emitters \ {e} : emit'[d] = emit[d]
      /\ emit'[e] = Idle
  BY DEF BufferInv, TypeOK, Abandon
<1>1. TypeOK'
  <2>1. emit' \in [Emitters -> [at : {"idle", "numbered", "appended"}, id : 0 .. MaxId]]
    BY BufferAssumption DEF BufferInv, TypeOK, Abandon, Idle
  <2> QED BY <1>0, <2>1 DEF BufferInv, TypeOK, Abandon
<1>2. BehindCounter' /\ EmissionsPrompt'
  BY <1>0 DEF BufferInv, BehindCounter, EmissionsPrompt, Idle
<1>3. GoneIsOlder'
  BY <1>0 DEF BufferInv, GoneIsOlder, Gone, Idle
<1>4. IdsAreUnique'
  BY <1>0 DEF BufferInv, IdsAreUnique, Idle
<1>5. NewestAreKept' /\ MissingIsLost'
  BY <1>0 DEF BufferInv, NewestAreKept, Newest, MissingIsLost
<1> QED BY <1>1, <1>2, <1>3, <1>4, <1>5 DEF BufferInv

LEMMA ExpireStep == BufferInv /\ Expire => BufferInv'
<1> SUFFICES ASSUME BufferInv, Expire PROVE BufferInv'
  OBVIOUS
<1>0. /\ buffer' = {} /\ fresh' = {} /\ emit' = emit
      /\ \A e \in Emitters : emit[e].at = "idle"
      /\ \/ counter' = counter /\ appended' = appended
         \/ counter' = 0 /\ appended' = {}
  BY DEF Expire, Keep, Quiet
<1>r. replay' \in [Readers -> ReplayState] /\ MissingIsLost'
  <2>1. {} \subseteq buffer /\ Keep({})
    BY DEF Expire
  <2> QED BY <1>0, <2>1, KeepStep
<1>1. TypeOK'
  BY <1>0, <1>r, BufferAssumption DEF BufferInv, TypeOK, ReplayState
<1>2. BehindCounter' /\ EmissionsPrompt'
  BY <1>0 DEF BufferInv, BehindCounter, EmissionsPrompt
<1>3. GoneIsOlder' /\ IdsAreUnique'
  BY <1>0 DEF GoneIsOlder, IdsAreUnique
<1>4. NewestAreKept'
  BY <1>0 DEF NewestAreKept, Newest
<1> QED BY <1>1, <1>2, <1>3, <1>4, <1>r DEF BufferInv

\* replay_after changes nothing of the buffer.
LEMMA ReadStep ==
  ASSUME BufferInv, NEW r \in Readers, Look(r) \/ Fetch(r)
  PROVE  BufferInv'
<1>0. UNCHANGED <<counter, buffer, emit, appended, fresh>>
  BY DEF Look, Fetch
<1>t. replay \in [Readers -> ReplayState] /\ buffer \subseteq Ids /\ appended \subseteq Ids
  BY DEF BufferInv, TypeOK, ReplayState
<1>1. replay' \in [Readers -> ReplayState] /\ MissingIsLost'
  <2>1. CASE Look(r)
    <3> DEFINE to(last) == [Away EXCEPT !.at = IF Hit(last) THEN "looked" ELSE "missed",
                                        !.last = last]
    <3>1. PICK last \in appended : replay' = [replay EXCEPT ![r] = to(last)]
      BY <2>1 DEF Look
    <3>2. last \in 0 .. MaxId
      BY <1>t DEF Ids
    <3>3. to(last) \in ReplayState
      BY <3>2 DEF ReplayState, Away
    <3>4. Hit(last) => \A i \in appended : i > last => i \in buffer
      BY BufferInvHit DEF HitIsComplete
    <3>5. to(last).at = "looked" => Hit(last)
      BY DEF Away
    <3>6. to(last).last = last
      BY DEF Away
    <3> HIDE DEF to
    <3>7. replay' \in [Readers -> ReplayState] /\ replay'[r] = to(last)
      BY <1>t, <3>1, <3>3
    <3>8. \A s \in Readers \ {r} : replay'[s] = replay[s]
      BY <1>t, <3>1
    <3>9. MissingIsLost'
      <4> SUFFICES ASSUME NEW s \in Readers, replay'[s].at = "looked",
                          NEW i \in appended, i > replay'[s].last
                   PROVE  i \in buffer \/ i \in replay'[s].lost
        BY <1>0 DEF MissingIsLost
      <4>1. CASE s = r
        BY <3>4, <3>5, <3>6, <3>7, <4>1
      <4>2. CASE s # r
        BY <3>8, <4>2 DEF BufferInv, MissingIsLost
      <4> QED BY <4>1, <4>2
    <3> QED BY <3>7, <3>9
  <2>2. CASE Fetch(r)
    <3> DEFINE later == {i \in buffer : i > replay[r].last}
    <3>1. later \in SUBSET Ids
      BY <1>t
    <3>2. replay' = [replay EXCEPT ![r] =
                       [replay[r] EXCEPT !.at = "replayed", !.lost = {}, !.got = later]]
      BY <1>t, <2>2 DEF Fetch
    <3> HIDE DEF later
    <3>3. /\ [replay[r] EXCEPT !.at = "replayed", !.lost = {}, !.got = later] \in ReplayState
          /\ [replay[r] EXCEPT !.at = "replayed", !.lost = {}, !.got = later].at = "replayed"
      BY <1>t, <3>1 DEF ReplayState
    <3>4. replay'[r].at = "replayed" /\ \A s \in Readers \ {r} : replay'[s] = replay[s]
      BY <1>t, <3>2, <3>3
    <3>5. MissingIsLost'
      BY <1>0, <3>4 DEF BufferInv, MissingIsLost
    <3> QED BY <1>t, <3>2, <3>3, <3>5
  <2> QED BY <2>1, <2>2
<1>2. TypeOK'
  BY <1>0, <1>1 DEF BufferInv, TypeOK, ReplayState
<1>3. BehindCounter' /\ EmissionsPrompt'
  BY <1>0 DEF BufferInv, BehindCounter, EmissionsPrompt
<1>4. GoneIsOlder' /\ IdsAreUnique'
  BY <1>0 DEF BufferInv, GoneIsOlder, Gone, IdsAreUnique
<1>5. NewestAreKept'
  BY <1>0 DEF BufferInv, NewestAreKept, Newest
<1> QED BY <1>1, <1>2, <1>3, <1>4, <1>5 DEF BufferInv

LEMMA BufferInvNext == BufferInv /\ [Next]_vars => BufferInv'
<1> SUFFICES ASSUME BufferInv, [Next]_vars PROVE BufferInv'
  OBVIOUS
<1>1. ASSUME NEW e \in Emitters, NextId(e) \/ Append(e) \/ Trim(e) \/ Abandon(e)
      PROVE  BufferInv'
  BY <1>1, NextIdStep, AppendStep, TrimStep, AbandonStep
<1>2. ASSUME NEW r \in Readers, Look(r) \/ Fetch(r) PROVE BufferInv'
  BY <1>2, ReadStep
<1>3. CASE Expire
  BY <1>3, ExpireStep
<1>4. CASE UNCHANGED vars
  BY <1>4 DEF vars, BufferInv, TypeOK, BehindCounter, EmissionsPrompt, GoneIsOlder,
     Gone, IdsAreUnique, NewestAreKept, Newest, MissingIsLost
<1> QED BY <1>1, <1>2, <1>3, <1>4 DEF Next

\* The inductive invariant: what left the buffer is older than what is in it and
\* than what is on its way into it.
THEOREM SpecBufferInv == Spec => []BufferInv
BY BufferInvInit, BufferInvNext, PTL DEF Spec

\* Every variable has its type.
THEOREM SpecTypeOK == Spec => []TypeOK
<1>1. BufferInv => TypeOK
  BY DEF BufferInv
<1> QED BY <1>1, SpecBufferInv, PTL

\* replay_after: a hit for an event the client received holds every later one.
THEOREM SpecHitIsComplete == Spec => []HitIsComplete
BY BufferInvHit, SpecBufferInv, PTL

\* append: the newest MaxEvents events stay until the buffer expires.
THEOREM SpecNewestAreKept == Spec => []NewestAreKept
<1>1. BufferInv => NewestAreKept
  BY DEF BufferInv
<1> QED BY <1>1, SpecBufferInv, PTL

\* get_next_id: no two events share an id while the counter lives.
THEOREM SpecIdsAreUnique == Spec => []IdsAreUnique
<1>1. BufferInv => IdsAreUnique
  BY DEF BufferInv
<1> QED BY <1>1, SpecBufferInv, PTL

\* The three promises of the buffer together.
THEOREM SpecBufferIsSound == Spec => []BufferIsSound
<1>1. HitIsComplete /\ NewestAreKept /\ IdsAreUnique => BufferIsSound
  BY DEF BufferIsSound
<1> QED BY <1>1, SpecHitIsComplete, SpecNewestAreKept, SpecIdsAreUnique, PTL

\* FR-10.41: for every number of readers and of streams that emit and trim between the
\* two reads of a replay, what it misses left the buffer between them, and in front.
THEOREM SpecReplayHasNoHole == Spec => ReplayHasNoHole
<1> DEFINE Whole(r) == \A i \in appended : i > replay[r].last =>
                         \/ i \in replay'[r].got
                         \/ i \in replay[r].lost /\ \A j \in replay'[r].got : i < j
           NoHole == \A r \in Readers :
                       replay[r].at = "looked" /\ replay'[r].at = "replayed" => Whole(r)
<1>1. BufferInv /\ [Next]_vars => NoHole
  <2> SUFFICES ASSUME BufferInv, [Next]_vars, NEW r \in Readers,
                      replay[r].at = "looked", replay'[r].at = "replayed"
               PROVE  Whole(r)
    OBVIOUS
  <2>0. /\ replay \in [Readers -> ReplayState]
        /\ \A h \in appended \ buffer, j \in buffer : h < j
    BY DEF BufferInv, TypeOK, GoneIsOlder, Gone, ReplayState
  <2>1. Fetch(r)
    <3>1. replay' # replay
      OBVIOUS
    <3>2. ASSUME NEW s \in Readers, Look(s) PROVE FALSE
      <4>1. PICK at \in {"looked", "missed"}, last \in appended :
              replay' = [replay EXCEPT ![s] = [Away EXCEPT !.at = at, !.last = last]]
        BY <3>2 DEF Look
      <4>2. [Away EXCEPT !.at = at, !.last = last].at = at
        BY DEF Away
      <4> QED BY <2>0, <4>1, <4>2
    <3>3. \A s \in Readers : Fetch(s) => s = r
      BY <2>0 DEF Fetch
    <3>4. \A S : Keep(S) => replay'[r].at # "replayed"
      BY <2>0 DEF Keep, ReplayState
    <3> QED BY <3>1, <3>2, <3>3, <3>4 DEF Next, NextId, Append, Trim, Abandon, Expire, vars
  <2>2. replay'[r].got = {i \in buffer : i > replay[r].last}
    BY <2>0, <2>1 DEF Fetch, ReplayState
  <2> SUFFICES ASSUME NEW i \in appended, i > replay[r].last
               PROVE  \/ i \in replay'[r].got
                      \/ i \in replay[r].lost /\ \A j \in replay'[r].got : i < j
    OBVIOUS
  <2>3. CASE i \in buffer
    BY <2>2, <2>3
  <2>4. CASE i \notin buffer
    <3>1. i \in replay[r].lost
      BY <2>4 DEF BufferInv, MissingIsLost
    <3>2. \A j \in replay'[r].got : i < j
      BY <2>0, <2>2, <2>4
    <3> QED BY <3>1, <3>2
  <2> QED BY <2>3, <2>4
<1> QED BY <1>1, SpecBufferInv, PTL DEF Spec, ReplayHasNoHole

-----------------------------------------------------------------------------
(* The streams                                                              *)

\* A stream waits for a turn that there is.
StreamsHaveTurns == \A c \in Clients : conn[c].pc # "closed" => conn[c].target \in 1 .. latest

\* There is no result of a turn before it is published, and no task before it is accepted.
ResultsAreStored ==
  \A t \in Stream!Turns :
    /\ stage[t] \in {"absent", "running", "saved"} => result[t] = "none"
    /\ t > latest => stage[t] = "absent"

StreamInv == ListenerIsTold /\ StreamsHaveTurns /\ ResultsAreStored

LEMMA StreamInvInit == Stream!Init => StreamInv
<1> SUFFICES ASSUME Stream!Init PROVE StreamInv
  OBVIOUS
<1>1. Stream!Closed \in Stream!ConnState
  BY StreamAssumption DEF Stream!Closed, Stream!ConnState, Stream!ConnPc
<1>2. Stream!TypeOK
  BY <1>1, StreamAssumption DEF Stream!Init, Stream!TypeOK, Stream!Turns, Stream!Stages
<1>3. \A c \in Clients : conn[c].pc = "closed"
  BY DEF Stream!Init, Stream!Closed
<1>4. Stream!ListenerIsTold /\ StreamsHaveTurns
  BY <1>3 DEF Stream!ListenerIsTold, StreamsHaveTurns
<1>5. ResultsAreStored
  BY DEF Stream!Init, ResultsAreStored
<1> QED BY <1>2, <1>4, <1>5 DEF StreamInv, ListenerIsTold

\* Records a stream is moved to.
LEMMA Places ==
  ASSUME StreamInv, NEW c \in Clients
  PROVE  /\ Stream!Closed \in Stream!ConnState /\ Stream!Closed.pc = "closed"
         /\ conn[c] \in Stream!ConnState
         /\ \A p \in Stream!ConnPc : LET r == Stream!Proceed(c, p) IN
              r \in Stream!ConnState /\ r.pc = p /\ r.target = conn[c].target
         /\ \A p \in Stream!ConnPc : LET r == [conn[c] EXCEPT !.pc = p] IN
              r \in Stream!ConnState /\ r.pc = p /\ r.target = conn[c].target
<1>1. conn[c] \in Stream!ConnState /\ conn[c].target \in 0 .. MaxTurns
  BY DEF StreamInv, ListenerIsTold, Stream!TypeOK, Stream!ConnState
<1>2. 0 \in 0 .. Rounds /\ 0 \in 0 .. MaxTurns
  BY StreamAssumption
<1>3. Stream!Closed \in Stream!ConnState /\ Stream!Closed.pc = "closed"
  BY <1>2 DEF Stream!Closed, Stream!ConnState, Stream!ConnPc
<1>4. ASSUME NEW p \in Stream!ConnPc
      PROVE  LET r == Stream!Proceed(c, p) IN
             r \in Stream!ConnState /\ r.pc = p /\ r.target = conn[c].target
  BY <1>1, <1>2 DEF Stream!Closed, Stream!ConnState, Stream!Proceed
<1>5. ASSUME NEW p \in Stream!ConnPc
      PROVE  LET r == [conn[c] EXCEPT !.pc = p] IN
             r \in Stream!ConnState /\ r.pc = p /\ r.target = conn[c].target
  BY <1>1 DEF Stream!ConnState
<1> QED BY <1>1, <1>3, <1>4, <1>5

\* One stream moves, and nothing else that it is told by.
LEMMA StreamMoves ==
  ASSUME StreamInv, NEW c \in Clients, NEW r \in Stream!ConnState,
         conn' = [conn EXCEPT ![c] = r], UNCHANGED Stream!turnVars,
         r.pc # "closed" => r.target \in 1 .. latest,
         r.pc = "listen" => result[r.target] = "none",
         losses' \in {losses} \cup {n \in 1 .. MaxLosses : n = losses + 1},
         new' \subseteq Clients, told' \subseteq Clients,
         ahead' \in [Clients -> SUBSET Stream!Turns]
  PROVE  StreamInv'
<1>0. Stream!TypeOK /\ Stream!ListenerIsTold /\ StreamsHaveTurns /\ ResultsAreStored
  BY DEF StreamInv, ListenerIsTold
<1>1. UNCHANGED <<latest, stage, result>>
  BY DEF Stream!turnVars
<1>2. /\ conn \in [Clients -> Stream!ConnState] /\ conn' \in [Clients -> Stream!ConnState]
      /\ conn'[c] = r /\ \A d \in Clients : d # c => conn'[d] = conn[d]
  BY <1>0 DEF Stream!TypeOK
<1>3. losses' \in 0 .. MaxLosses /\ (losses' = 0 => losses = 0)
  BY <1>0, StreamAssumption DEF Stream!TypeOK
<1>4. Stream!TypeOK'
  BY <1>0, <1>1, <1>2, <1>3 DEF Stream!TypeOK
<1>5. Stream!ListenerIsTold'
  <2> SUFFICES ASSUME NEW d \in Clients, conn'[d].pc = "listen",
                      stage'[conn'[d].target] = "done", losses' = 0
               PROVE  conn'[d].message \/ result'[conn'[d].target] = "none"
    BY DEF Stream!ListenerIsTold, Stream!Result
  <2>1. CASE d = c
    BY <1>1, <1>2, <2>1
  <2>2. CASE d # c
    BY <1>0, <1>1, <1>2, <1>3, <2>2 DEF Stream!ListenerIsTold, Stream!Result
  <2> QED BY <2>1, <2>2
<1>6. StreamsHaveTurns'
  BY <1>0, <1>1, <1>2 DEF StreamsHaveTurns
<1>7. ResultsAreStored'
  BY <1>0, <1>1 DEF ResultsAreStored
<1> QED BY <1>4, <1>5, <1>6, <1>7 DEF StreamInv, ListenerIsTold

\* The turn goes on.
LEMMA TurnStep ==
  ASSUME StreamInv, NEW t \in Stream!Turns, Stream!TurnNext(t)
  PROVE  StreamInv'
<1>0. /\ Stream!TypeOK /\ Stream!ListenerIsTold /\ StreamsHaveTurns /\ ResultsAreStored
      /\ latest \in 0 .. MaxTurns /\ losses \in 0 .. MaxLosses /\ MaxLosses \in Nat
      /\ stage \in [Stream!Turns -> Stream!Stages]
      /\ result \in [Stream!Turns -> {"none", "complete", "failed"}]
      /\ Stream!Turns = 1 .. MaxTurns /\ MaxTurns \in Nat
      /\ conn \in [Clients -> Stream!ConnState]
  BY StreamAssumption DEF StreamInv, ListenerIsTold, Stream!TypeOK, Stream!Turns
<1>t. \A c \in Clients : conn[c].pc # "closed" => conn[c].target \in Stream!Turns
  BY <1>0 DEF StreamsHaveTurns
<1>1. CASE Stream!Accept(t)
  <2>1. /\ latest' = t /\ t = latest + 1 /\ stage' = [stage EXCEPT ![t] = "running"]
        /\ told' = {} /\ UNCHANGED <<result, conn, new, ahead, losses>>
    BY <1>1 DEF Stream!Accept
  <2>2. Stream!TypeOK'
    BY <1>0, <2>1 DEF Stream!TypeOK, Stream!Stages
  <2>3. StreamsHaveTurns'
    <3>1. \A n \in 1 .. latest : n \in 1 .. latest'
      BY <1>0, <2>1
    <3> QED BY <1>0, <2>1, <3>1 DEF StreamsHaveTurns
  <2>4. ResultsAreStored'
    <3>1. result[t] = "none" /\ \A u \in Stream!Turns : u > t => u > latest /\ u # t
      BY <1>0, <2>1 DEF ResultsAreStored
    <3> QED BY <1>0, <2>1, <3>1 DEF ResultsAreStored
  <2>5. Stream!ListenerIsTold'
    <3>1. \A c \in Clients : conn[c].pc = "listen" => conn[c].target # t
      BY <1>0, <2>1 DEF StreamsHaveTurns
    <3> QED BY <1>0, <1>t, <2>1, <3>1 DEF Stream!ListenerIsTold, Stream!Result
  <2> QED BY <2>2, <2>3, <2>4, <2>5 DEF StreamInv, ListenerIsTold
<1>2. CASE Stream!Save(t)
  <2>1. /\ stage[t] = "running" /\ stage' = [stage EXCEPT ![t] = "saved"]
        /\ UNCHANGED <<latest, result, conn, new, ahead, told, losses>>
    BY <1>2 DEF Stream!Save, Stream!clientVars
  <2>2. Stream!TypeOK'
    BY <1>0, <2>1 DEF Stream!TypeOK, Stream!Stages
  <2>3. StreamsHaveTurns' /\ ResultsAreStored'
    BY <1>0, <2>1 DEF StreamsHaveTurns, ResultsAreStored
  <2>4. Stream!ListenerIsTold'
    BY <1>0, <1>t, <2>1 DEF Stream!ListenerIsTold, Stream!Result
  <2> QED BY <2>2, <2>3, <2>4 DEF StreamInv, ListenerIsTold
<1>3. CASE Stream!Store(t)
  <2>1. /\ stage[t] = "saved" /\ stage' = [stage EXCEPT ![t] = "stored"]
        /\ UNCHANGED <<latest, conn, new, ahead, told, losses>>
        /\ \E x \in {"complete", "failed"} : result' = [result EXCEPT ![t] = x]
    BY <1>3 DEF Stream!Store, Stream!clientVars
  <2>2. Stream!TypeOK'
    BY <1>0, <2>1 DEF Stream!TypeOK, Stream!Stages
  <2>3. StreamsHaveTurns' /\ ResultsAreStored'
    BY <1>0, <2>1 DEF StreamsHaveTurns, ResultsAreStored
  <2>4. Stream!ListenerIsTold'
    BY <1>0, <1>t, <2>1 DEF Stream!ListenerIsTold, Stream!Result
  <2> QED BY <2>2, <2>3, <2>4 DEF StreamInv, ListenerIsTold
<1>4. CASE Stream!Notify(t)
  <2>1. /\ stage[t] = "stored" /\ stage' = [stage EXCEPT ![t] = "done"]
        /\ UNCHANGED <<latest, result, new, ahead, told, losses>>
        /\ conn' = [c \in Clients |-> IF Stream!Subscribed(c, t)
                      THEN [conn[c] EXCEPT !.message = TRUE] ELSE conn[c]]
    BY <1>4 DEF Stream!Notify, Stream!clientVars
  <2>2. \A c \in Clients :
          /\ conn'[c] \in Stream!ConnState
          /\ conn'[c].pc = conn[c].pc /\ conn'[c].target = conn[c].target
          /\ conn[c].message => conn'[c].message
          /\ conn[c].pc = "listen" /\ conn[c].target = t => conn'[c].message
    BY <1>0, <2>1 DEF Stream!ConnState, Stream!Subscribed
  <2>3. conn' \in [Clients -> Stream!ConnState]
    BY <2>1, <2>2
  <2>4. Stream!TypeOK'
    BY <1>0, <2>1, <2>3 DEF Stream!TypeOK, Stream!Stages
  <2>5. StreamsHaveTurns' /\ ResultsAreStored'
    BY <1>0, <2>1, <2>2 DEF StreamsHaveTurns, ResultsAreStored
  <2>6. Stream!ListenerIsTold'
    <3> SUFFICES ASSUME NEW c \in Clients, conn'[c].pc = "listen",
                        stage'[conn'[c].target] = "done", losses' = 0
                 PROVE  conn'[c].message \/ result'[conn'[c].target] = "none"
      BY DEF Stream!ListenerIsTold, Stream!Result
    <3>1. conn[c].pc = "listen" /\ conn[c].target \in Stream!Turns /\ losses = 0
      BY <1>t, <2>1, <2>2
    <3>2. CASE conn[c].target = t
      BY <2>2, <3>1, <3>2
    <3>3. CASE conn[c].target # t
      <4>1. stage[conn[c].target] = "done"
        BY <1>0, <2>1, <2>2, <3>1, <3>3
      <4> QED BY <1>0, <2>1, <2>2, <3>1, <4>1 DEF Stream!ListenerIsTold, Stream!Result
    <3> QED BY <3>2, <3>3
  <2> QED BY <2>4, <2>5, <2>6 DEF StreamInv, ListenerIsTold
<1>5. CASE Stream!PublishFails(t)
  <2>1. /\ stage[t] \in {"saved", "stored"} /\ stage' = [stage EXCEPT ![t] = "done"]
        /\ losses < MaxLosses /\ losses' = losses + 1
        /\ UNCHANGED <<latest, result, conn, new, ahead, told>>
    BY <1>5 DEF Stream!PublishFails, Stream!Loss, Stream!clientVars
  <2>2. losses' \in 0 .. MaxLosses /\ losses' # 0
    BY <1>0, <2>1
  <2>3. Stream!TypeOK'
    BY <1>0, <2>1, <2>2 DEF Stream!TypeOK, Stream!Stages
  <2>4. StreamsHaveTurns' /\ ResultsAreStored'
    BY <1>0, <2>1 DEF StreamsHaveTurns, ResultsAreStored
  <2>5. Stream!ListenerIsTold'
    BY <2>2 DEF Stream!ListenerIsTold
  <2> QED BY <2>3, <2>4, <2>5 DEF StreamInv, ListenerIsTold
<1>6. CASE Stream!Forget(t)
  <2>1. /\ result' = [result EXCEPT ![t] = "none"]
        /\ UNCHANGED <<latest, stage, conn, new, ahead, told, losses>>
    BY <1>6 DEF Stream!Forget, Stream!clientVars
  <2>2. Stream!TypeOK'
    BY <1>0, <2>1 DEF Stream!TypeOK
  <2>3. StreamsHaveTurns' /\ ResultsAreStored'
    BY <1>0, <2>1 DEF StreamsHaveTurns, ResultsAreStored
  <2>4. Stream!ListenerIsTold'
    BY <1>0, <1>t, <2>1 DEF Stream!ListenerIsTold, Stream!Result
  <2> QED BY <2>2, <2>3, <2>4 DEF StreamInv, ListenerIsTold
<1> QED BY <1>1, <1>2, <1>3, <1>4, <1>5, <1>6 DEF Stream!TurnNext

\* A stream goes on: it looks for the result, hears of it, tells it, or gives up.
LEMMA ClientStep ==
  ASSUME StreamInv, NEW c \in Clients, Stream!ClientNext(c)
  PROVE  StreamInv'
<1> DEFINE Lost == {losses} \cup {n \in 1 .. MaxLosses : n = losses + 1}
           Goes(r) == conn' = [conn EXCEPT ![c] = r]
           Still == UNCHANGED Stream!turnVars
           Told == /\ new' \subseteq Clients /\ told' \subseteq Clients
                   /\ ahead' \in [Clients -> SUBSET Stream!Turns]
<1>0. /\ Stream!TypeOK /\ Stream!ListenerIsTold /\ StreamsHaveTurns
      /\ latest \in 0 .. MaxTurns /\ Stream!Turns = 1 .. MaxTurns
      /\ MaxTurns \in Nat /\ Rounds \in Nat /\ MaxLosses \in Nat
      /\ losses \in 0 .. MaxLosses
      /\ conn \in [Clients -> Stream!ConnState]
      /\ new \subseteq Clients /\ told \subseteq Clients
      /\ ahead \in [Clients -> SUBSET Stream!Turns]
  BY StreamAssumption DEF StreamInv, ListenerIsTold, Stream!TypeOK, Stream!Turns
<1>p. /\ Stream!Closed \in Stream!ConnState /\ Stream!Closed.pc = "closed"
      /\ conn[c] \in Stream!ConnState
      /\ \A p \in Stream!ConnPc : LET r == Stream!Proceed(c, p) IN
           r \in Stream!ConnState /\ r.pc = p /\ r.target = conn[c].target
      /\ \A p \in Stream!ConnPc : LET r == [conn[c] EXCEPT !.pc = p] IN
           r \in Stream!ConnState /\ r.pc = p /\ r.target = conn[c].target
  BY Places
<1>t. conn[c].pc # "closed" => conn[c].target \in 1 .. latest /\ conn[c].target \in Stream!Turns
  BY <1>0 DEF StreamsHaveTurns
<1>l. losses \in Lost /\ (Stream!Loss => losses' \in Lost)
  BY <1>0 DEF Stream!Loss
\* A stream that ends or goes on without listening.
<1>m. ASSUME NEW r \in Stream!ConnState, Goes(r), Still, Told, losses' \in Lost,
             r.pc # "listen", r.pc # "closed" => r.target \in 1 .. latest
      PROVE  StreamInv'
  BY <1>m, StreamMoves
<1>c. ASSUME Stream!Close(c), Still, Told, losses' \in Lost
      PROVE  StreamInv'
  <2>1. Goes(Stream!Closed) /\ Stream!Closed.pc # "listen"
    BY <1>c, <1>p DEF Stream!Close
  <2> QED BY <1>c, <1>m, <1>p, <2>1
<1>w. ASSUME NEW checking \in BOOLEAN, NEW round \in 0 .. Rounds,
             Stream!Wait(c, checking, round), conn[c].pc # "closed",
             Still, Told, losses' \in Lost
      PROVE  StreamInv'
  <2> DEFINE r == [Stream!Proceed(c, "subscribe") EXCEPT !.checking = checking, !.round = round]
  <2>1. "subscribe" \in Stream!ConnPc
    BY DEF Stream!ConnPc
  <2>2. r \in Stream!ConnState /\ r.pc = "subscribe" /\ r.target = conn[c].target
    BY <1>p, <2>1 DEF Stream!ConnState
  <2>3. Goes(r)
    BY <1>w DEF Stream!Wait
  <2> HIDE DEF r
  <2> QED BY <1>m, <1>t, <1>w, <2>2, <2>3
\* What the client has seen stays a set of turns.
<1>r. /\ Stream!Receive(c) => new' \subseteq Clients /\ ahead' \in [Clients -> SUBSET Stream!Turns]
      /\ Stream!Tell(c) \/ UNCHANGED told => told' \subseteq Clients
  BY <1>0 DEF Stream!Receive, Stream!Tell
<1>b. ASSUME NEW own \in SUBSET Stream!Turns, conn[c].pc # "closed", Stream!BufferEnd(c, own)
      PROVE  new' \subseteq Clients /\ ahead' \in [Clients -> SUBSET Stream!Turns]
  BY <1>0, <1>t, <1>b DEF Stream!BufferEnd
<1>q. UNCHANGED Stream!clientVars => Told
  BY <1>0 DEF Stream!clientVars
<1> HIDE DEF Goes, Still, Told, Lost
<1>1. CASE Stream!Connect(c)
  <2>1. conn[c].pc = "closed" /\ UNCHANGED <<told, losses>> /\ Still
    BY <1>1 DEF Stream!Connect, Still
  <2>2. CASE latest = 0
    <3>1. Stream!Receive(c) /\ conn' = conn
      BY <1>1, <2>2 DEF Stream!Connect
    <3>2. Goes(conn[c])
      BY <1>0, <3>1 DEF Goes
    <3>3. Told
      BY <1>r, <2>1, <3>1 DEF Told
    <3> QED BY <1>l, <1>m, <1>p, <2>1, <3>2, <3>3
  <2>3. CASE latest # 0
    <3> DEFINE r == [Stream!Closed EXCEPT !.target = latest,
                                          !.pc = IF c \in new THEN "subscribe" ELSE "replay"]
    <3>1. Goes(r) /\ UNCHANGED <<new, ahead>>
      BY <1>1, <2>3 DEF Stream!Connect, Goes
    <3>2. r \in Stream!ConnState /\ r.pc \in {"subscribe", "replay"} /\ r.target = latest
      <4>1. (IF c \in new THEN "subscribe" ELSE "replay") \in {"subscribe", "replay"}
        OBVIOUS
      <4>2. 0 \in 0 .. Rounds /\ latest \in 0 .. MaxTurns
        BY <1>0
      <4> QED BY <4>1, <4>2 DEF Stream!ConnState, Stream!ConnPc, Stream!Closed
    <3>3. Told /\ latest \in 1 .. latest
      BY <1>0, <2>1, <2>3, <3>1 DEF Told
    <3> HIDE DEF r
    <3> QED BY <1>l, <1>m, <2>1, <3>1, <3>2, <3>3
  <2> QED BY <2>2, <2>3
<1>2. CASE Stream!Reload(c)
  <2>1. conn[c].pc = "closed" /\ conn' = conn /\ Still /\ UNCHANGED losses
    BY <1>2 DEF Stream!Reload, Still
  <2>2. Goes(conn[c])
    BY <1>0, <2>1 DEF Goes
  <2>3. Told
    BY <1>0, <1>2 DEF Stream!Reload, Told
  <2> QED BY <1>l, <1>m, <1>p, <2>1, <2>2, <2>3
<1>3. CASE Stream!ReplayHit(c)
  <2>1. PICK ends \in {ahead[c], {}} :
          /\ IF latest \in ends THEN Stream!Tell(c) ELSE UNCHANGED told
          /\ Goes([conn[c] EXCEPT !.pc = "subscribe", !.checking = TRUE, !.sawEnd = ends # {}])
    BY <1>0, <1>3 DEF Stream!ReplayHit, Goes
  <2> DEFINE r == [conn[c] EXCEPT !.pc = "subscribe", !.checking = TRUE, !.sawEnd = ends # {}]
  <2>2. r \in Stream!ConnState /\ r.pc = "subscribe" /\ r.target = conn[c].target
    <3>1. conn[c] \in Stream!ConnState /\ "subscribe" \in Stream!ConnPc
      BY <1>p DEF Stream!ConnPc
    <3>2. (ends # {}) \in BOOLEAN
      OBVIOUS
    <3> QED BY <3>1, <3>2 DEF Stream!ConnState
  <2>3. /\ conn[c].pc # "closed" /\ Still /\ UNCHANGED losses
        /\ UNCHANGED new /\ ahead' = [ahead EXCEPT ![c] = {}]
    BY <1>3 DEF Stream!ReplayHit, Still
  <2>4. Told
    BY <1>0, <1>r, <2>1, <2>3 DEF Told
  <2> HIDE DEF r
  <2> QED BY <1>l, <1>m, <1>t, <2>1, <2>2, <2>3, <2>4 DEF r
<1>4. CASE Stream!ReplayMiss(c)
  <2>1. /\ conn[c].pc # "closed" /\ Still /\ UNCHANGED <<told, losses>>
        /\ Stream!Receive(c) /\ Stream!Wait(c, FALSE, 0)
    BY <1>4 DEF Stream!ReplayMiss, Still
  <2>2. Told /\ 0 \in 0 .. Rounds
    BY <1>0, <1>r, <2>1 DEF Told
  <2> QED BY <1>l, <1>w, <2>1, <2>2
<1>5. CASE Stream!Subscribe(c)
  <2> DEFINE r == [conn[c] EXCEPT !.pc = "get"]
  <2>1. conn[c].pc # "closed" /\ Goes(r) /\ Still /\ UNCHANGED <<Stream!clientVars, losses>>
    BY <1>0, <1>5 DEF Stream!Subscribe, Goes, Still
  <2>2. r \in Stream!ConnState /\ r.pc = "get" /\ r.target = conn[c].target
    BY <1>p DEF Stream!ConnPc
  <2> HIDE DEF r
  <2> QED BY <1>l, <1>m, <1>q, <1>t, <2>1, <2>2
<1>6. ASSUME Stream!Found(c), conn[c].pc # "closed", Still, UNCHANGED losses
      PROVE  StreamInv'
  <2>1. CASE Stream!FoundInCheck(c)
    <3>1. Stream!Close(c) \/ Stream!Wait(c, FALSE, 0)
      BY <2>1 DEF Stream!FoundInCheck
    <3>2. Told /\ 0 \in 0 .. Rounds
      BY <1>0, <1>q, <2>1 DEF Stream!FoundInCheck
    <3> QED BY <1>c, <1>l, <1>w, <1>6, <3>1, <3>2
  <2>2. CASE Stream!FoundFailed(c)
    <3>1. Stream!Close(c) /\ Told
      BY <1>r, <2>2 DEF Stream!FoundFailed, Told
    <3> QED BY <1>c, <1>l, <1>6, <3>1
  <2>3. CASE Stream!FoundNarrative(c)
    <3>1. Goes(Stream!Proceed(c, "narrate")) /\ Told /\ "narrate" \in Stream!ConnPc
      BY <1>q, <2>3 DEF Stream!FoundNarrative, Goes, Stream!ConnPc
    <3> QED BY <1>l, <1>m, <1>p, <1>t, <1>6, <3>1
  <2> QED BY <1>6, <2>1, <2>2, <2>3 DEF Stream!Found
<1>7. CASE Stream!GetHit(c) \/ Stream!Hear(c)
  <2>1. Stream!Found(c) /\ conn[c].pc # "closed" /\ Still /\ UNCHANGED losses
    BY <1>7 DEF Stream!GetHit, Stream!Hear, Still
  <2> QED BY <1>6, <2>1
<1>8. CASE Stream!GetMiss(c)
  <2> DEFINE r == [conn[c] EXCEPT !.pc = "listen"]
  <2>1. /\ conn[c].pc # "closed" /\ Goes(r) /\ Still /\ UNCHANGED <<Stream!clientVars, losses>>
        /\ result[conn[c].target] = "none"
    BY <1>0, <1>8 DEF Stream!GetMiss, Goes, Still, Stream!Result
  <2>2. r \in Stream!ConnState /\ r.pc = "listen" /\ r.target = conn[c].target
    BY <1>p DEF Stream!ConnPc
  <2> HIDE DEF r
  <2>3. Told
    BY <1>q, <2>1
  <2> QED BY <1>t, <2>1, <2>2, <2>3, StreamMoves DEF Goes, Still, Told
<1>9. ASSUME Stream!InVain(c), conn[c].pc # "closed", Still, UNCHANGED told, losses' \in Lost
      PROVE  StreamInv'
  <2>1. conn[c].round \in 0 .. Rounds
    BY <1>p DEF Stream!ConnState
  <2>2. CASE Stream!CheckInVain(c)
    <3>1. Stream!Wait(c, FALSE, 0) /\ UNCHANGED <<new, ahead>>
      BY <2>2 DEF Stream!CheckInVain
    <3>2. Told
      BY <1>0, <1>9, <3>1 DEF Told
    <3>3. 0 \in 0 .. Rounds
      BY <1>0
    <3> QED BY <1>w, <1>9, <3>1, <3>2, <3>3
  <2>3. CASE Stream!Heartbeat(c)
    <3>1. /\ Stream!Wait(c, FALSE, conn[c].round + 1) /\ Stream!Receive(c)
          /\ conn[c].round < Rounds
      BY <2>3 DEF Stream!Heartbeat
    <3>2. Told
      BY <1>9, <1>r, <3>1 DEF Told
    <3>3. conn[c].round + 1 \in 0 .. Rounds
      BY <1>0, <2>1, <3>1
    <3> QED BY <1>w, <1>9, <3>1, <3>2, <3>3
  <2>4. CASE Stream!PipelineTimeout(c)
    <3>1. Stream!Close(c) /\ Told
      BY <1>9, <1>r, <2>4 DEF Stream!PipelineTimeout, Told
    <3> QED BY <1>c, <1>9, <3>1
  <2> QED BY <1>9, <2>2, <2>3, <2>4 DEF Stream!InVain
<1>10. CASE Stream!TimeOut(c) \/ Stream!WaitFails(c)
  <2>1. Stream!InVain(c) /\ conn[c].pc # "closed" /\ Still /\ UNCHANGED told
    BY <1>10 DEF Stream!TimeOut, Stream!WaitFails, Still
  <2>2. losses' \in Lost
    BY <1>l, <1>10 DEF Stream!TimeOut, Stream!WaitFails
  <2> QED BY <1>9, <2>1, <2>2
<1>11. CASE Stream!Narrate(c)
  <2>1. /\ conn[c].pc # "closed" /\ Stream!BufferEnd(c, {}) /\ Stream!Close(c)
        /\ Still /\ UNCHANGED losses /\ (Stream!Tell(c) \/ UNCHANGED told)
    BY <1>11 DEF Stream!Narrate, Still
  <2>2. Told
    BY <1>b, <1>r, <2>1 DEF Told
  <2> QED BY <1>c, <1>l, <2>1, <2>2
<1>12. CASE Stream!Disconnect(c)
  <2>1. /\ conn[c].pc # "closed" /\ Stream!Close(c) /\ Stream!Loss
        /\ Still /\ UNCHANGED told
    BY <1>12 DEF Stream!Disconnect, Still
  <2>2. new' \subseteq Clients /\ ahead' \in [Clients -> SUBSET Stream!Turns]
    <3>1. \/ UNCHANGED <<new, ahead>> \/ Stream!Receive(c)
          \/ Stream!BufferEnd(c, {conn[c].target})
      BY <1>12 DEF Stream!Disconnect
    <3>2. {conn[c].target} \in SUBSET Stream!Turns
      BY <1>t, <2>1
    <3> QED BY <1>0, <1>b, <1>r, <2>1, <3>1, <3>2
  <2>3. Told
    BY <1>r, <2>1, <2>2 DEF Told
  <2> QED BY <1>c, <1>l, <2>1, <2>3
<1> QED
  BY <1>1, <1>2, <1>3, <1>4, <1>5, <1>7, <1>8, <1>10, <1>11, <1>12
  DEF Stream!ClientNext, Stream!StreamStep

\* Both orderings of the result and the wait deliver the result: for every number of
\* tabs, turns, heartbeats and losses nobody listens for a message that has been sent.
THEOREM SpecListenerIsTold == Stream!Spec => []ListenerIsTold
<1>1. StreamInv /\ [Stream!Next]_(Stream!vars) => StreamInv'
  <2> SUFFICES ASSUME StreamInv, [Stream!Next]_(Stream!vars) PROVE StreamInv'
    OBVIOUS
  <2>1. CASE Stream!Next
    BY <2>1, TurnStep, ClientStep DEF Stream!Next
  <2>2. CASE UNCHANGED Stream!vars
    BY <2>2
    DEF StreamInv, ListenerIsTold, StreamsHaveTurns, ResultsAreStored, Stream!vars,
        Stream!turnVars, Stream!clientVars, Stream!TypeOK, Stream!ListenerIsTold, Stream!Result
  <2> QED BY <2>1, <2>2
<1>2. StreamInv => ListenerIsTold
  BY DEF StreamInv
<1> QED BY <1>1, <1>2, StreamInvInit, PTL DEF Stream!Spec
=============================================================================
