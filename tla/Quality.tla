------------------------------ MODULE Quality ------------------------------
(* The verdict on a session that agents played (quality/evaluator.py): six      *)
(* categories are scored from the agent's ratings of its turns, from what a     *)
(* person says of the session and by a model, as far as there are any.          *)
EXTENDS Integers, Sequences, SequencesExt

CONSTANTS
  Reports,     \* sequences of turns: what the agent says of each, blank for one that timed out
  Feedbacks,   \* what a person says: answers from 1 to 5, or none
  Genres,      \* what the model says: 1 to 5, or none
  Tellings     \* whether the genesis has a name, and the narratives it and its traits

VARIABLES
  report, feedback, genre, character,
  counted,     \* whether the caller counts consequences: one for every four turns played
  verdict

vars == <<report, feedback, genre, character, counted, verdict>>

\* Scores are in parts of Whole, ratings of the agent in tenths; reports have up to three turns.
Whole == 12000
NotEvaluated == -1
Clamp(score) == IF score < 0 THEN 0 ELSE IF score > Whole THEN Whole ELSE score
Total(S, Of(_)) == FoldLeft(LAMBDA sum, t : sum + Of(t), 0, S)
Mean(S, Of(_)) == (Total(S, Of) * (Whole \div 10)) \div Len(S)
Mix(parts, a, b) == (parts * a + (10 - parts) * b) \div 10

Normalized(answer) == answer * (Whole \div 5)
HasFeedback(f) == f # {}
Answer(f, q) == Normalized((CHOOSE a \in f : TRUE)[q])

Coherence(t) == t.coherence
Surprise(t) == t.surprise
CountWhere(S, Test(_)) == Len(SelectSeq(S, Test))
Halved(n) == n \div 2

\* One where the name disappears, one for two turns that are rated incoherent.
CountContradictions(turns, c) ==
  (IF c = "name lost" THEN 1 ELSE 0) + Halved(CountWhere(turns, LAMBDA t : t.coherence < 4))

\* Less 15 % for each contradiction.
CoherenceScore(turns, c) ==
  IF turns = <<>> THEN NotEvaluated
  ELSE Clamp((Mean(turns, Coherence) * (20 - 3 * CountContradictions(turns, c))) \div 20)

\* Less 10 % for each timeout.
TensionScore(turns, f) ==
  IF turns = <<>> THEN NotEvaluated
  ELSE LET timeouts == CountWhere(turns, LAMBDA t : t.timedOut)
           auto == Clamp(Mean(turns, Surprise) - timeouts * (Whole \div 10))
       IN  IF HasFeedback(f) THEN Mix(6, auto, Answer(f, "consequence")) ELSE auto

WonderScore(turns, f) ==
  IF ~HasFeedback(f) THEN NotEvaluated
  ELSE IF turns = <<>> THEN Answer(f, "wonder") ELSE Mix(7, Answer(f, "wonder"), Mean(turns, Surprise))

FirstTurnCharacter(turns, c) ==
  IF turns = <<>> \/ c = "no trait" THEN Whole \div 2 ELSE IF c = "no name told" THEN 0 ELSE Whole

CharacterScore(turns, f, c) ==
  IF c = "nameless" THEN NotEvaluated
  ELSE IF HasFeedback(f) THEN Mix(5, FirstTurnCharacter(turns, c), Answer(f, "character"))
  ELSE FirstTurnCharacter(turns, c)

Played(turns) == SelectSeq(turns, LAMBDA t : ~t.timedOut)

GenreScore(turns, g) ==
  IF g = {} \/ Played(turns) = <<>> THEN NotEvaluated
  ELSE ((CHOOSE score \in g : TRUE) - 1) * (Whole \div 4)

\* One is expected for every three turns.
CountedRatio(turns) ==
  LET expected == Max({1, Len(Played(turns)) \div 3})
      found == Min({expected, Len(Played(turns)) \div 4})
  IN  (Whole * found) \div expected

ConsequenceScore(turns, f, isCounted) ==
  CASE isCounted /\ HasFeedback(f) -> Mix(6, CountedRatio(turns), Answer(f, "consequence"))
    [] isCounted /\ ~HasFeedback(f) -> CountedRatio(turns)
    [] ~isCounted /\ HasFeedback(f) -> Answer(f, "consequence")
    [] OTHER -> NotEvaluated

\* Each with its weight, in twentieths.
Categories(turns, f, g, c, isCounted) ==
  <<[weight |-> 5, score |-> CoherenceScore(turns, c)], [weight |-> 3, score |-> TensionScore(turns, f)],
    [weight |-> 4, score |-> WonderScore(turns, f)], [weight |-> 4, score |-> CharacterScore(turns, f, c)],
    [weight |-> 2, score |-> GenreScore(turns, g)], [weight |-> 2, score |-> ConsequenceScore(turns, f, isCounted)]>>

Evaluated(cats) == SelectSeq(cats, LAMBDA k : k.score # NotEvaluated)

\* Rounded to the fourth decimal.
Composite(cats) ==
  LET weight == Total(Evaluated(cats), LAMBDA k : k.weight)
      sum == Total(Evaluated(cats), LAMBDA k : k.weight * k.score)
  IN  IF weight = 0 THEN 0 ELSE (sum * 10 + 6 * weight) \div (12 * weight)

Verdict(turns, f, g, c, isCounted) ==
  LET cats == Categories(turns, f, g, c, isCounted) IN
  IF Len(cats) - Len(Evaluated(cats)) >= 3 THEN "inconclusive"
  ELSE IF Composite(cats) < 6500 \/ \E k \in ToSet(Evaluated(cats)) : 10 * k.score < 4 * Whole
  THEN "fail" ELSE "pass"
-----------------------------------------------------------------------------
Init ==
  /\ report \in Reports /\ feedback \in Feedbacks /\ genre \in Genres
  /\ character \in Tellings /\ counted \in BOOLEAN
  /\ character = "name lost" => Len(Played(report)) > 2
  /\ report # <<>> /\ report[1].timedOut => character \in {"nameless", "no name told"}
  /\ verdict = "none"

Evaluate ==
  /\ verdict = "none"
  /\ verdict' = Verdict(report, feedback, genre, character, counted)
  /\ UNCHANGED <<report, feedback, genre, character, counted>>

Next == Evaluate
Spec == Init /\ [][Next]_vars
-----------------------------------------------------------------------------
Worse(t, rating) == [t EXCEPT ![rating] = @ - 1]

\* AC-44.02, AC-44.05: no session fails that would pass if its agent had thought worse of a
\* turn, and none that passes without a person would fail with one who thinks the best of it:
\* an answer that is there weighs as it says.
PassIsDeserved ==
  verdict = "fail" =>
    /\ \A i \in DOMAIN report, rating \in {"coherence", "surprise"} :
         report[i][rating] > 0
           => Verdict([report EXCEPT ![i] = Worse(@, rating)], feedback, genre, character, counted) # "pass"
    /\ \A f \in feedback : (\A q \in DOMAIN f : f[q] = 5) => Verdict(report, {}, genre, character, counted) # "pass"
=============================================================================
