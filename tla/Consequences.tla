--------------------------- MODULE Consequences ---------------------------
(***************************************************************************)
(* The consequences of a player's choices: InMemoryConsequenceService and  *)
(* what the understand and context stages of a turn ask of it.             *)
(*                                                                         *)
(* No call of the service awaits anything, so each is one step; between    *)
(* the evaluation and the pruning of one turn the task of another turn may *)
(* run, and a task that was held up evaluates an earlier turn.  A chain is *)
(* a sequence of entries; two windows of turns say when an entry comes     *)
(* true.                                                                   *)
(***************************************************************************)
EXTENDS Integers, Sequences, FiniteSets

CONSTANTS
  NewChains,    \* the chains that may be created: entries, and how important
  ShortTerm,    \* the last turn of the short-term window: 10
  DormantAfter, \* turns without activity until a chain fades: 50
  MaxChains,    \* MAX_ACTIVE_CHAINS: 30
  Late,         \* how many turns a task may be late
  MaxTurn,      \* bound on the turns of a behaviour
  MaxCreated    \* and on its chains

VARIABLES
  chains,   \* of the session, in the order of their creation
  turn,     \* the number of the latest turn
  pruning   \* turns evaluated and not yet pruned

vars == <<chains, turn, pruning>>

Open == {"pending", "active"}
Closed == {"resolved", "pruned"}

Init == chains = <<>> /\ turn = 1 /\ pruning = {}

EntriesOf(chain) == DOMAIN chain.entries
IsResolved(chain) ==
  chain.entries # <<>> /\ \A e \in EntriesOf(chain) : chain.entries[e].status \in Closed
\* get_active_chains
Listed(chain) == ~IsResolved(chain) /\ ~chain.dormant

\* create_chain, by whatever a turn decides.
CreateChain(new) ==
  /\ Len(chains) < MaxCreated
  /\ chains' = Append(chains,
       [entries |-> [e \in DOMAIN new.entries |->
                       [timescale |-> new.entries[e].timescale, hidden |-> new.entries[e].hidden,
                        status |-> "pending"]],
        important |-> new.important, permanent |-> new.permanent,
        created |-> turn, lastActive |-> turn, dormant |-> FALSE])
  /\ UNCHANGED <<turn, pruning>>

Due(timescale, elapsed) ==
  CASE timescale = "immediate" -> elapsed = 0
    [] timescale = "short" -> elapsed \in 1 .. ShortTerm
    [] timescale = "long" -> elapsed > ShortTerm

Fires(chain, e, t) ==
  LET entry == chain.entries[e] IN
    /\ Listed(chain) /\ entry.status = "pending" /\ ~entry.hidden
    /\ Due(entry.timescale, t - chain.created)

Evaluated(chain, t) ==
  LET firing == {e \in EntriesOf(chain) : Fires(chain, e, t)} IN
    [chain EXCEPT !.entries = [e \in DOMAIN @ |->
                                 IF e \in firing THEN [@[e] EXCEPT !.status = "active"] ELSE @[e]],
                  !.lastActive = IF firing = {} THEN @ ELSE t]

\* evaluate, in the understand stage of turn t.
Evaluate(t) ==
  /\ t > 0 /\ turn - t \in 0 .. Late /\ t \notin pruning
  /\ chains' = [k \in DOMAIN chains |-> Evaluated(chains[k], t)]
  /\ pruning' = pruning \cup {t}
  /\ UNCHANGED turn

WithStatus(chain, from, to) ==
  [chain EXCEPT !.entries = [e \in DOMAIN @ |-> IF @[e].status \in from
                                                THEN [@[e] EXCEPT !.status = to] ELSE @[e]]]

Faded(chain, t) ==
  IF Listed(chain) /\ t - chain.lastActive >= DormantAfter
  THEN [WithStatus(chain, Open, "dormant") EXCEPT !.dormant = TRUE] ELSE chain

Priority == [resolved |-> 0, dormant |-> 1, pruned |-> -1, active |-> 3, pending |-> 4]
\* _chain_prune_score; the greatest priority, or 0 without entries.
Score(chain) ==
  LET entries == {chain.entries[e] : e \in EntriesOf(chain)}
      priorities == {Priority[x.status] : x \in entries} IN
    (IF entries = {} THEN 0 ELSE CHOOSE p \in priorities : \A q \in priorities : p >= q)
      + (IF \E x \in entries : x.timescale = "long" /\ x.status = "pending" THEN 10 ELSE 0)
      + (IF chain.important THEN 10 ELSE 0) + (IF chain.permanent THEN 5 ELSE 0)
\* prune_chains: the listed ones in excess, least score and then eldest first.
Excess(cs) ==
  LET listed == {k \in DOMAIN cs : Listed(cs[k])}
      before(k, m) == \/ Score(cs[k]) < Score(cs[m])
                      \/ Score(cs[k]) = Score(cs[m]) /\ k < m IN
    {k \in listed : Cardinality({m \in listed : before(m, k)}) < Cardinality(listed) - MaxChains}

PruneChains(t) ==
  /\ t \in pruning /\ pruning' = pruning \ {t}
  /\ LET faded == [k \in DOMAIN chains |-> Faded(chains[k], t)] IN
       chains' = [k \in DOMAIN faded |->
                    IF k \in Excess(faded) THEN WithStatus(faded[k], Open \cup {"dormant", "resolved"}, "pruned")
                    ELSE faded[k]]
  /\ UNCHANGED turn

ResolveChain(k) ==
  /\ chains' = [chains EXCEPT ![k] = WithStatus(@, Open, "resolved")]
  /\ UNCHANGED <<turn, pruning>>

\* reveal_hidden_entry: whatever became of the entry, it is active from now on.
RevealHiddenEntry(k, e) ==
  /\ chains[k].entries[e].hidden
  /\ LET revealed == [chains[k].entries[e] EXCEPT !.hidden = FALSE, !.status = "active"] IN
       chains' = [chains EXCEPT ![k] = [@ EXCEPT !.entries[e] = revealed, !.lastActive = turn]]
  /\ UNCHANGED <<turn, pruning>>

NextTurn ==
  /\ turn < MaxTurn /\ turn' = turn + 1
  /\ UNCHANGED <<chains, pruning>>

Next ==
  \/ \E new \in NewChains : CreateChain(new)
  \/ \E t \in 1 .. MaxTurn : Evaluate(t) \/ PruneChains(t)
  \/ \E k \in DOMAIN chains : ResolveChain(k) \/ \E e \in EntriesOf(chains[k]) : RevealHiddenEntry(k, e)
  \/ NextTurn

Spec == Init /\ [][Next]_vars
-----------------------------------------------------------------------------
Revealed(k, e) == chains[k].entries[e].hidden /\ ~chains'[k].entries[e].hidden

\* Nothing but a revelation brings back what was resolved, pruned or had faded; what
\* is hidden never comes true unrevealed; and what came true is never pending again.
WhatIsDoneStaysDone ==
  \A k \in DOMAIN chains : \A e \in EntriesOf(chains[k]) :
    LET old == chains[k].entries[e].status  new == chains'[k].entries[e].status IN
      old # new /\ ~Revealed(k, e) =>
        /\ new # "pending" /\ old # "pruned"
        /\ new = "active" => old = "pending" /\ ~chains[k].entries[e].hidden
        /\ old = "resolved" => new = "pruned"

\* Pruning leaves no more than the maximum of chains that have entries, and drops
\* none while a less important one is kept.
PruningKeepsTheBest ==
  \A t \in pruning \ pruning' :
    LET dropped == {k \in DOMAIN chains : Listed(chains[k]) /\ IsResolved(chains'[k])}
        kept == {k \in DOMAIN chains' : Listed(chains'[k]) /\ chains'[k].entries # <<>>} IN
      /\ Cardinality(kept) <= MaxChains
      /\ \A k \in dropped, m \in kept : Score(chains[k]) <= Score(chains[m])
=============================================================================
