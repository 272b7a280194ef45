------------------------------- MODULE Scorer -------------------------------
(***************************************************************************)
(* The verdict on a payment: HeuristicScorer, the bands, HttpScorer's fall *)
(* back to the heuristics, and the decision FraudGateway draws from it.    *)
(* Scores are in hundredths: the sums the code makes of its floating-point *)
(* constants fall in the same bands.                                       *)
(*                                                                         *)
(* An event is a record: count, the payments of the last hour; age, the    *)
(* time since the payee was activated, as the 30 minutes tell it apart;    *)
(* amount in rupees; dear, whether that is three times the mean or more;   *)
(* mismatch, whether the payee's name differs from the fetched one.        *)
(***************************************************************************)
EXTENDS Integers

Levels == {"LOW", "MEDIUM", "HIGH", "CRITICAL"}
Ages == {"never", "new", "aged"}     \* not activated, less than 30 minutes, longer

Big == 50000                         \* above it, a cooling payee weighs more
High == 1000000

Velocity(e) == IF e.count > 20 THEN 70 ELSE IF e.count > 8 THEN 20 ELSE 0

AnyAge(e) == IF e.age # "never" THEN 20 ELSE 0            \* mutant
Cooling(e) ==
  IF e.age # "new" THEN 0 ELSE IF e.amount > Big THEN 45 ELSE 20

Score(e) ==
  LET sum == 5 + Velocity(e) + Cooling(e)
             + (IF e.dear THEN 25 ELSE 0)
             + (IF e.amount >= High THEN 15 ELSE 0)
             + (IF e.mismatch THEN 40 ELSE 0)
  IN  IF sum > 99 THEN 99 ELSE sum

BandOf(s) ==
  CASE s < 25 -> "LOW" [] s \in 25 .. 49 -> "MEDIUM" [] s \in 50 .. 74 -> "HIGH" [] OTHER -> "CRITICAL"

Heuristic(e) == BandOf(Score(e))

\* What score() may answer: the model, when it is enabled, any level; and the
\* heuristics when it is disabled, fails, times out or leaves the event unscored.
Verdicts(e, enabled) ==
  {[level |-> Heuristic(e), by |-> "heuristic"]}
    \union (IF enabled THEN [level : Levels, by : {"model"}] ELSE {})

Decide(level) ==
  [LOW |-> "EXECUTE", MEDIUM |-> "CHALLENGE", HIGH |-> "HOLD", CRITICAL |-> "BLOCK"][level]

=============================================================================
