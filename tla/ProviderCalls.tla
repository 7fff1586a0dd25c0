---------------------------- MODULE ProviderCalls ----------------------------
(***************************************************************************)
(* One model call between guarded_llm_call and the provider: the cascade   *)
(* of _llm_with_retries (generation only), the tiers of LiteLLMClient and  *)
(* the tries tenacity gives each of them, with the utilization snapshot    *)
(* that all calls of the process share.                                    *)
(*                                                                         *)
(* A prompt, an answer and an exception are what classify_error tells      *)
(* apart; the serving policy only sets parameters of the request.          *)
(***************************************************************************)
EXTENDS Naturals, Sequences, FiniteSets, Functions

CONSTANTS
  Callers,   \* the calls that run at the same time
  Providers, \* the provider of each tier, the primary first
  Tries,     \* stop_after_attempt
  Retries    \* _MAX_TRANSIENT_RETRIES

VARIABLES
  call, \* the local variables of each call
  load  \* InMemoryProviderUtilizationSnapshot

vars == <<call, load>>

Tiers == 1 .. Len(Providers)
LoadOf == {"unknown", "near_limit", "exhausted"}
Rank == [unknown |-> 2, near_limit |-> 3, exhausted |-> 4]

Over == {"answered", "refused", "failed", "exhausted"}

Unasked == [pc |-> "idle", cascade |-> FALSE, low |-> FALSE, attempt |-> 0, full |-> TRUE,
            order |-> <<>>, tier |-> 1, try |-> 1, tried |-> {}, skipped |-> FALSE]

Init ==
  /\ call = [c \in Callers |-> Unasked]
  /\ load = [p \in {Providers[i] : i \in Tiers} |-> "unknown"]

Start(c) ==
  /\ call[c].pc = "idle"
  /\ \E cascade, low \in BOOLEAN :
       call' = [call EXCEPT ![c] = [@ EXCEPT !.pc = "guard", !.cascade = cascade, !.low = low]]
  /\ UNCHANGED load

\* Calls of low priority ask the provider first that has the most room left; of two with as
\* much room, and otherwise, the first tier is the first that is asked.
TierOrders(low) ==
  LET First(i, j) == \/ Rank[load[Providers[i]]] < Rank[load[Providers[j]]]
                     \/ Rank[load[Providers[i]]] = Rank[load[Providers[j]]] /\ i < j
      Sorted == low /\ Cardinality({Providers[i] : i \in Tiers}) >= 2
  IN {order \in Bijection(Tiers, Tiers) :
        \A i, j \in Tiers :
          i < j => IF Sorted THEN First(order[i], order[j]) ELSE order[i] < order[j]}

Admit(c) ==
  /\ call[c].pc = "guard"
  /\ \E order \in TierOrders(call[c].low) :
       call' = [call EXCEPT ![c] = [@ EXCEPT !.pc = "asked", !.order = order,
                                             !.tier = 1, !.try = 1, !.tried = {}]]
  /\ UNCHANGED load

\* The tier that is asked, and what this attempt has asked once it has answered.
Asked(c) == call[c].order[call[c].tier]
Tried(c) == call[c].tried \cup {<<Asked(c), call[c].try>>}

Ended(c, pc) == call' = [call EXCEPT ![c] = [Unasked EXCEPT !.pc = pc, !.skipped = call[c].skipped]]

\* The budget is spent, the queue is full or the circuit is open.
Refuse(c) == call[c].pc = "guard" /\ Ended(c, "refused") /\ UNCHANGED load

Answer(c) == call[c].pc = "asked" /\ Ended(c, "answered") /\ UNCHANGED load

\* An error that asking again cannot repair, on any tier.
FailPermanently(c) == call[c].pc = "asked" /\ Ended(c, "failed") /\ UNCHANGED load

FailAndTryAgain(c) ==
  /\ call[c].pc = "asked" /\ call[c].try < Tries
  /\ call' = [call EXCEPT ![c].try = @ + 1, ![c].tried = Tried(c)]
  /\ UNCHANGED load

\* The last try of a tier tells how loaded its provider is.
Record(c) == \E l \in LoadOf : load' = [load EXCEPT ![Providers[Asked(c)]] = l]

NextTier_SameCount(c) ==
  /\ call[c].pc = "asked" /\ call[c].try = Tries /\ call[c].tier < Len(Providers)
  /\ Record(c)
  /\ call' = [call EXCEPT ![c].tier = @ + 1, ![c].tried = Tried(c)]
NextTier(c) ==
  /\ call[c].pc = "asked" /\ call[c].try = Tries /\ call[c].tier < Len(Providers)
  /\ Record(c)
  /\ call' = [call EXCEPT ![c].tier = @ + 1, ![c].try = 1, ![c].tried = Tried(c)]

\* The cascade starts again, after its first failure with a shorter prompt.
Again(c, full, skipped) ==
  IF call[c].cascade /\ call[c].attempt < Retries
    THEN [call EXCEPT ![c].pc = "guard", ![c].attempt = @ + 1, ![c].full = full,
                      ![c].skipped = @ \/ skipped]
    ELSE [call EXCEPT ![c] = [Unasked EXCEPT !.pc = "exhausted",
                                             !.skipped = call[c].skipped \/ skipped]]

\* AllTiersFailedError; "skipped" notes that some tier was not asked all its tries.
FailAllTiers(c) ==
  /\ call[c].pc = "asked" /\ call[c].try = Tries /\ call[c].tier = Len(Providers)
  /\ Record(c)
  /\ call' = Again(c, call[c].full /\ call[c].attempt > 0, Tried(c) # Tiers \X (1 .. Tries))

\* An error after the answer has come, of no known class, ends the attempt.
FailOddly(c) ==
  /\ call[c].pc = "asked"
  /\ call' = Again(c, call[c].full, FALSE)
  /\ UNCHANGED load

Next == \E c \in Callers :
  \/ Start(c) \/ Refuse(c) \/ Admit(c)
  \/ Answer(c) \/ FailPermanently(c) \/ FailAndTryAgain(c) \/ NextTier(c)
  \/ FailAllTiers(c) \/ FailOddly(c)

Spec == Init /\ [][Next]_vars

----------------------------------------------------------------------------
(* Properties                                                              *)

TypeOK ==
  /\ \A c \in Callers :
       /\ call[c].pc \in {"idle", "guard", "asked"} \cup Over
       /\ call[c].tier \in Tiers /\ call[c].try \in 1 .. Tries
       /\ call[c].attempt \in 0 .. Retries
  /\ load \in [{Providers[i] : i \in Tiers} -> LoadOf]

\* Before the player is told the text of the last resort, every attempt that no
\* odd error cut short has asked every tier the full number of times, whatever the
\* other calls did to the order of the tiers meanwhile.
GivesUpLast == \A c \in Callers : call[c].pc = "exhausted" => ~call[c].skipped

=============================================================================
