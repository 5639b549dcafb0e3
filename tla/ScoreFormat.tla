----------------------------- MODULE ScoreFormat -----------------------------
(***************************************************************************)
(* How one score is shown: FormatScore of template.cpp on every value of   *)
(* NUMERIC(5,2), next to formatScore of the PHP program it reproduces.     *)
(***************************************************************************)
EXTENDS Grades

CONSTANT SomePoints  \* the scores considered, in hundredths

PointsAssumption == SomePoints \subseteq Points

VARIABLE score  \* the value in scores.score

TheSubject == CHOOSE subj \in Subjects : TRUE

Shown == FormatScore([subj \in {TheSubject} |-> score], TheSubject)

\* formatScore gets the text of a NUMERIC(5,2), two decimals always, and cuts
\* off ".00" only.
PhpFormatScore ==
  LET a == IF score < 0 THEN - score ELSE score
      decimals == IF a % 100 = 0 THEN << >> ELSE <<(a % 100) \div 10, a % 10>>
  IN  [minus |-> score < 0, digits |-> <<a \div 100>> \o decimals]

Init == score \in SomePoints

\* UPDATE scores SET score = ...
Update == \E v \in SomePoints : score' = v

Spec == Init /\ [][Update]_score

-----------------------------------------------------------------------------
\* The number a reader sees in a cell.
ValueOf(text) ==
  LET digit(i) == IF i \in DOMAIN text.digits THEN text.digits[i] ELSE 0
      size == 100 * digit(1) + 10 * digit(2) + digit(3)
  IN  IF text.minus THEN - size ELSE size

\* No score is shown as another one, nor as the dash of a missing one: the
\* decimals dropped are zeros, and the sign is kept even of -0.50.
ShownExactly == Shown # Dash /\ ValueOf(Shown) = score

\* A score is shown as the PHP program shows it (design.md:15), except one
\* with a single decimal: 85.50 is shown as 85.5, where PHP shows 85.50.
SameAsPhpButTenths ==
  Shown = PhpFormatScore <=> (score % 10 # 0 \/ score % 100 = 0)
=============================================================================
