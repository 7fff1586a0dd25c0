---------------------------- MODULE WorldMemory ----------------------------
(***************************************************************************)
(* What a session remembers: InMemoryMemoryWriter of world_memory.py.      *)
(*                                                                         *)
(* Every record schedules a task that compresses the session's memories    *)
(* when they have grown too long; it runs when the loop comes to it, after *)
(* any number of further records.  Records of one turn may come after      *)
(* those of a later one.  A memory has a length in tokens, and loses its   *)
(* importance after a time, or has none from the start.                    *)
(***************************************************************************)
EXTENDS Integers, Sequences, FiniteSets, FiniteSetsExt, SequencesExt

CONSTANTS
  WorkingTurns,   \* working_memory_size: 5
  Threshold,      \* compression_threshold_tokens: 4000
  Lengths,        \* of memories, in tokens
  SummaryLength,  \* of a summary
  Lifetimes,      \* ticks for which memories stay important; -1 if they never are
  MaxTurn,        \* bound on the turns
  MaxRecords      \* and on the memories recorded

VARIABLES
  records,   \* _records, in order; a summary is one of them
  recorded,  \* memories recorded by turns
  due        \* compressions scheduled and not yet run

vars == <<records, recorded, due>>

Init == records = <<>> /\ recorded = 0 /\ due = 0

All == {records[k] : k \in DOMAIN records}
Turns(rs) == {r.turn : r \in rs}

\* The n latest of a set of turns.
Latest(n, turns) == {t \in turns : Cardinality({u \in turns : u > t}) < n}

\* record: working if no earlier than the latest five turns that have memories.
Tier(t) ==
  LET recent == Latest(WorkingTurns, Turns(All)) IN
    IF recent = {} \/ t >= Min(recent) THEN "working" ELSE "active"

Record(t, length, lifetime) ==
  /\ recorded < MaxRecords
  /\ recorded' = recorded + 1
  /\ records' = Append(records,
       [id |-> recorded + 1, turn |-> t, tier |-> Tier(t), compressed |-> FALSE,
        length |-> length, lasts |-> lifetime, from |-> {}])
  /\ due' = due + 1

\* When current_importance falls below compression_importance_threshold; as all decay
\* at the same rate, the later the more important at any time.
Until(r) == r.turn + r.lasts
Faint(r, tick) == r.lasts < 0 \/ tick > Until(r)
Tokens(rs) == LET length(r) == r.length IN MapThenSumSet(length, rs)

\* What compress_if_needed chooses from: late memories, or those before the window.
Compressible ==
  LET live == {r \in All : ~r.compressed}
      active == {r \in live : r.tier = "active"} IN
    IF active # {} \/ live = {} THEN active
    ELSE {r \in live : r.turn < Max(Turns(live)) - WorkingTurns + 1}
ToCompress_All ==
  IF Tokens(Compressible) <= Threshold THEN {}
  ELSE {r \in All : Faint(r, Max(Turns(Compressible)))}

ToCompress ==
  IF Tokens(Compressible) <= Threshold THEN {}
  ELSE {r \in Compressible : Faint(r, Max(Turns(Compressible)))}

CompressIfNeeded ==
  /\ due > 0 /\ due' = due - 1
  /\ IF ToCompress = {} THEN UNCHANGED records
     ELSE records' = Append(
            [k \in DOMAIN records |->
               IF records[k] \in ToCompress
               THEN [records[k] EXCEPT !.tier = "archived", !.compressed = TRUE] ELSE records[k]],
            [id |-> MaxRecords + Len(records), turn |-> Max(Turns(ToCompress)), tier |-> "compressed",
             compressed |-> TRUE, length |-> SummaryLength, lasts |-> -1,
             from |-> {r.id : r \in ToCompress}])
  /\ UNCHANGED recorded

Next ==
  \/ \E t \in 1 .. MaxTurn, length \in Lengths, lifetime \in Lifetimes : Record(t, length, lifetime)
  \/ CompressIfNeeded

Spec == Init /\ [][Next]_vars
-----------------------------------------------------------------------------
\* get_context: the working turns, summaries, and of the rest what the budget still has
\* room for, the most important first; nothing of the rest if the working turns alone
\* exceed it.
Present == {r \in All : r.tier # "archived"}
Working == {r \in Present : r.turn \in Latest(WorkingTurns, Turns(Present))}
Compressed == {r \in Present : r.compressed}
Candidates == SetToSortSeq(Present \ (Working \cup Compressed),
                LAMBDA r, q : Until(r) > Until(q) \/ (Until(r) = Until(q) /\ r.id < q.id))
Chosen(budget) ==
  LET room == budget - Tokens(Working) - Tokens(Compressed)
      take(got, r) == IF Tokens(got \cup {r}) <= room THEN got \cup {r} ELSE got IN
    IF Tokens(Working) > budget THEN {} ELSE FoldLeft(take, {}, Candidates)

Summaries == {r \in All : r.from # {}}

\* Whatever was recorded is there or told by one summary that has room for it, and a
\* summary is never summarised; however late compressions run and memories come, the
\* latest turn is never compressed away.
NothingIsForgotten ==
  /\ \A id \in 1 .. recorded :
       Cardinality({r \in Present : r.id = id}) + Cardinality({r \in Summaries : id \in r.from}) = 1
  /\ \A r \in All : r.tier = "archived" => \E q \in Present : q.turn > r.turn /\ ~q.compressed

\* A context keeps to its budget unless the working turns and the summaries exceed it, and
\* leaves out nothing that would fit it alone while something less important is in.
ContextIsTheBest ==
  \A budget \in 0 .. Threshold + 2 :
    LET chosen == Chosen(budget) IN
      /\ chosen # {} => Tokens(Working) + Tokens(Compressed) + Tokens(chosen) <= budget
      /\ \A r \in ToSet(Candidates) \ chosen, q \in chosen :
           Until(r) > Until(q) => r.length > q.length
=============================================================================
