------------------------------ MODULE TurnLog ------------------------------
(***************************************************************************)
(* What the turn API of one game promises (FR-10.07, EC-10.03, FR-23.19):  *)
(* turns are numbered 1, 2, 3, ... in the order they are accepted, at most *)
(* one of them is open, and a new one is accepted only if none is open or  *)
(* the open one is late, in which case it is given up.  A turn that was    *)
(* settled never opens again.                                              *)
(***************************************************************************)
EXTENDS Naturals

VARIABLES
  accepted,  \* how many turns were accepted
  open,      \* the number of the open turn, 0 if there is none
  late       \* the open turn has been open for too long

logVars == <<accepted, open, late>>

LogInit == accepted = 0 /\ open = 0 /\ late = FALSE

Accept ==
  /\ open = 0 \/ late
  /\ accepted' = accepted + 1
  /\ open' = accepted'
  /\ late' = FALSE

Settle ==
  /\ open # 0
  /\ open' = 0 /\ late' = FALSE
  /\ UNCHANGED accepted

GoLate ==
  /\ open # 0 /\ late' = TRUE
  /\ UNCHANGED <<accepted, open>>

LogNext == Accept \/ Settle \/ GoLate
LogSpec == LogInit /\ [][LogNext]_logVars
=============================================================================
