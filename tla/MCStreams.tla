------------------------------ MODULE MCStreams ------------------------------
(* The replay buffer and the streams of a game for TLC: a behaviour runs the   *)
(* buffer, several tabs, or one that loses its connection.                     *)
EXTENDS SseBuffer

CONSTANTS Clients, MaxTurns, Rounds, MaxLosses, Tab

VARIABLES part, latest, stage, result, conn, new, ahead, told, losses

ASSUME StreamAssumption == MaxTurns \in Nat /\ Rounds \in Nat /\ MaxLosses \in Nat

Stream == INSTANCE TurnStream

streamVars == <<latest, stage, result, conn, new, ahead, told, losses>>
allVars == <<part, vars, streamVars>>

Rest == UNCHANGED <<part, vars>>
On(p, A) == part = p /\ A /\ Rest

\* Several tabs and no loss; one tab and some.
BufferStep == part = "buffer" /\ Next /\ UNCHANGED <<part, streamVars>>
StreamStep ==
  \/ On("tabs", Stream!Next /\ UNCHANGED losses)
  \/ On("lossy", (\E t \in Stream!Turns : Stream!TurnNext(t)) \/ Stream!ClientNext(Tab))

MCInit == part \in {"buffer", "tabs", "lossy"} /\ Init /\ Stream!Init

\* Streams are scheduled, waits time out, and a tab reconnects when its stream
\* has ended (FR-10.43 tells it after which delay).
MCSpec ==
  /\ MCInit
  /\ [][BufferStep \/ StreamStep]_allVars
  /\ \A c \in Clients : /\ WF_streamVars(On("tabs", Stream!StreamStep(c)))
                        /\ WF_streamVars(On("tabs", Stream!Connect(c)))
  /\ WF_streamVars(On("lossy", Stream!StreamStep(Tab)))
  /\ WF_streamVars(On("lossy", Stream!Connect(Tab)))

\* See TurnStream: both orderings of result and wait deliver the result.
ListenerIsTold == Stream!TypeOK /\ Stream!ListenerIsTold
\* See TurnStream: the outcome of the latest turn reaches every tab.
OutcomeArrives ==
  (part = "tabs" => Stream!OutcomeArrives) /\ (part = "lossy" => Stream!ReachesTab(Tab))
=============================================================================
