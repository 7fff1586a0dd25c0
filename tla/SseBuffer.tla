----------------------------- MODULE SseBuffer -----------------------------
(***************************************************************************)
(* api/sse.py: the replay buffer of one game, a sorted set in Redis, and   *)
(* the counter that numbers its events.  Any number of streams emit into   *)
(* it (several tabs, and streams whose client has left), and reconnecting  *)
(* clients read it.  Every Redis command is one step, and a stream may     *)
(* stop between two of them.                                               *)
(***************************************************************************)
EXTENDS Integers, FiniteSets

CONSTANTS
  Emitters,   \* streams of the game
  Readers,    \* clients that reconnect
  MaxEvents,  \* SSE_BUFFER_MAX_EVENTS
  MaxId       \* bound: event ids

ASSUME BufferAssumption ==
  /\ IsFiniteSet(Emitters)
  /\ MaxEvents \in Nat \ {0} /\ MaxId \in Nat

VARIABLES
  counter,   \* the counter key; 0 when it does not exist
  buffer,    \* ids in the sorted set
  emit,      \* [Emitters -> [at, id]]: the emission of each stream
  replay,    \* [Readers -> [at, last, got, lost]]: the call of replay_after of each;
             \* lost is history: ids that left the buffer since its first read
  appended,  \* history: ids that were in the buffer since the counter expired
  fresh      \* history: those since the buffer expired

vars == <<counter, buffer, emit, replay, appended, fresh>>

Ids == 1 .. MaxId
Idle == [at |-> "idle", id |-> 0]
Away == [at |-> "away", last |-> 0, got |-> {}, lost |-> {}]

\* What ZREMRANGEBYRANK key 0 -(MAX+1) keeps of a sorted set.
Newest_Oldest(S) == {i \in S : Cardinality({j \in S : j < i}) < MaxEvents}
Newest(S) == {i \in S : Cardinality({j \in S : j > i}) < MaxEvents}

Init ==
  /\ counter = 0 /\ buffer = {}
  /\ emit = [e \in Emitters |-> Idle]
  /\ replay = [r \in Readers |-> Away]
  /\ appended = {} /\ fresh = {}

\* The buffer becomes S, and what leaves it is lost to those who are reading.
Keep(S) ==
  /\ buffer' = S
  /\ replay' = [r \in Readers |->
       IF replay[r].at = "looked"
         THEN [replay[r] EXCEPT !.lost = @ \cup (buffer \ S)] ELSE replay[r]]

----------------------------------------------------------------------------
(* _emit: get_next_id, append, trim                                        *)

\* Assumed of the environment: while an emission makes its three round trips,
\* the other streams of the game emit fewer than MaxEvents (100) events.
Prompt == \A d \in Emitters : emit[d].at # "idle" => counter + 1 < emit[d].id + MaxEvents

\* INCR
NextId(e) ==
  /\ emit[e].at = "idle" /\ counter < MaxId /\ Prompt
  /\ counter' = counter + 1
  /\ emit' = [emit EXCEPT ![e] = [at |-> "numbered", id |-> counter + 1]]
  /\ UNCHANGED <<buffer, replay, appended, fresh>>

\* ZADD
Append(e) ==
  /\ emit[e].at = "numbered"
  /\ buffer' = buffer \cup {emit[e].id}
  /\ appended' = appended \cup {emit[e].id}
  /\ fresh' = fresh \cup {emit[e].id}
  /\ emit' = [emit EXCEPT ![e].at = "appended"]
  /\ UNCHANGED <<counter, replay>>

\* ZREMRANGEBYRANK
Trim_Newest(e) ==
  /\ emit[e].at = "appended"
  /\ Keep(Newest_Oldest(buffer))
  /\ emit' = [emit EXCEPT ![e] = Idle]
  /\ UNCHANGED <<counter, appended, fresh>>
Trim(e) ==
  /\ emit[e].at = "appended"
  /\ Keep(Newest(buffer))
  /\ emit' = [emit EXCEPT ![e] = Idle]
  /\ UNCHANGED <<counter, appended, fresh>>

\* The client leaves and the stream's generator is cancelled at an await.
Abandon(e) ==
  /\ emit[e].at # "idle"
  /\ emit' = [emit EXCEPT ![e] = Idle]
  /\ UNCHANGED <<counter, buffer, replay, appended, fresh>>

Quiet == \A e \in Emitters : emit[e].at = "idle"

\* 300 s without an event.  The counter may live on: an abandoned emission has
\* refreshed its TTL alone.
Expire ==
  /\ Quiet
  /\ Keep({}) /\ fresh' = {}
  /\ \/ UNCHANGED <<counter, appended>>
     \/ counter' = 0 /\ appended' = {}
  /\ UNCHANGED emit

----------------------------------------------------------------------------
(* replay_after                                                            *)

\* Not evicted: the oldest event is not ahead of where the client left off.
Hit_OffByOne(last) ==
  IF buffer = {} THEN last = 0 ELSE \E i \in buffer : i <= last + 2
Hit(last) ==
  IF buffer = {} THEN last = 0 ELSE \E i \in buffer : i <= last + 1

\* ZRANGE key 0 0.  The client names an event of the present numbering.
Look(r) ==
  /\ replay[r].at # "looked"
  /\ \E last \in appended :
       replay' = [replay EXCEPT ![r] =
         [Away EXCEPT !.at = IF Hit(last) THEN "looked" ELSE "missed", !.last = last]]
  /\ UNCHANGED <<counter, buffer, emit, appended, fresh>>

\* ZRANGEBYSCORE key last+1 +inf
Fetch(r) ==
  /\ replay[r].at = "looked"
  /\ replay' = [replay EXCEPT ![r].at = "replayed", ![r].lost = {},
                              ![r].got = {i \in buffer : i > replay[r].last}]
  /\ UNCHANGED <<counter, buffer, emit, appended, fresh>>

Next ==
  \/ \E e \in Emitters : NextId(e) \/ Append(e) \/ Trim(e) \/ Abandon(e)
  \/ \E r \in Readers : Look(r) \/ Fetch(r)
  \/ Expire

Spec == Init /\ [][Next]_vars

----------------------------------------------------------------------------
(* Properties                                                              *)

TypeOK ==
  /\ counter \in 0 .. MaxId
  /\ buffer \subseteq Ids /\ appended \subseteq Ids /\ fresh \subseteq Ids
  /\ emit \in [Emitters -> [at : {"idle", "numbered", "appended"}, id : 0 .. MaxId]]
  /\ replay \in [Readers -> [at : {"away", "looked", "missed", "replayed"},
                             last : 0 .. MaxId, got : SUBSET Ids, lost : SUBSET Ids]]

\* replay_after: where the buffer is a hit for an event that a client received,
\* it holds every later event that was ever emitted, in whatever order the
\* streams appended them and although they trimmed and abandoned it.
HitIsComplete ==
  \A last \in appended : Hit(last) => \A i \in appended : i > last => i \in buffer

\* FR-10.42: the last MaxEvents events stay in the buffer until it expires.
NewestAreKept == Newest(fresh) \subseteq buffer

\* One event per id: no two streams number their events alike, and no event in
\* the buffer shares its id with one that is on its way.
IdsAreUnique ==
  \A e \in Emitters : emit[e].at = "numbered"
    => /\ emit[e].id \notin appended
       /\ \A d \in Emitters \ {e} : emit[d].at # "idle" => emit[d].id # emit[e].id

\* What the buffer promises to a client that reconnects.
BufferIsSound == HitIsComplete /\ NewestAreKept /\ IdsAreUnique

\* FR-10.41: after a hit the client receives every event after its last one,
\* although the streams go on appending, trimming and abandoning between the two
\* reads.  What it misses left the buffer between them, and is older than all it
\* receives: no event is skipped between two that are replayed.
ReplayHasNoHole ==
  [][\A r \in Readers : replay[r].at = "looked" /\ replay'[r].at = "replayed"
       => \A i \in appended : i > replay[r].last =>
            \/ i \in replay'[r].got
            \/ i \in replay[r].lost /\ \A j \in replay'[r].got : i < j]_vars

=============================================================================
