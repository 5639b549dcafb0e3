--------------------------- MODULE MCRequestPath ---------------------------
(***************************************************************************)
(* Small instances of RequestPath: two students in two classes, ...        *)
(***************************************************************************)
EXTENDS PathLifecycle

CONSTANTS w1, w2  \* threads

\* Texts 1 and 2 are the classes, 3 is a student name, 4 a class nobody is
\* in; ids are 11 and 12.
MCIds       == {11, 12}
MCTexts     == 0 .. 4
MCSubjects  == {"math", "art"}
MCkSubjects == <<"math">>

One == [id |-> 11, name |-> 3, class |-> 1]
Two == [id |-> 12, name |-> 3, class |-> 2]

Missing == [ready |-> FALSE, students |-> {}, scores |-> {}]
Empty   == [ready |-> TRUE, students |-> {}, scores |-> {}]
Seeded  == [ready |-> TRUE, students |-> {One, Two},
            scores |-> {[student_id |-> 11, subject |-> "math", score |-> 8550]}]
Moved   == [ready |-> TRUE, students |-> {One, [Two EXCEPT !.class = 1]},
            scores |-> {[student_id |-> 12, subject |-> "art", score |-> NULL]}]

Pool   == {w1, w2}
Single == {w1}

AllFilters == {0, 1, 2, 4}
SomeFilters == {0, 1}

AllStates   == {Missing, Empty, Seeded, Moved}
SeededOnly  == {Seeded}
\* The last two are tables that nobody changes, with as many students.
SomeStill   == AllStates \cup { [s EXCEPT !.scores = {}] : s \in {Seeded, Moved} }
SetUpMoves  == {<<Missing, Empty>>, <<Empty, Seeded>>, <<Seeded, Moved>>, <<Moved, Seeded>>}
NoMoves     == {}
=============================================================================
