--------------------------- MODULE MCRequestLimits ---------------------------
(* RequestLimits alone for TLC, with values for its function of patterns.      *)
EXTENDS RequestLimits

OneEach ==
  [pattern \in {"rapid fire", "credential stuffing"} |->
    [threshold |-> 1, window |-> 1, base |-> 1]]
=============================================================================
