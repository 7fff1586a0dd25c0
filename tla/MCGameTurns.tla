----------------------------- MODULE MCGameTurns -----------------------------
(* Instances of GameTurns for TLC. *)
EXTENDS GameTurns, TLC

\* Rows, requests and keys are interchangeable.
Symmetry == Permutations(Turns) \cup Permutations(Requests) \cup Permutations(Keys)

SubmitOnly == {"submit"}
AllClocks == {"half hour", "day", "month"}
=============================================================================
