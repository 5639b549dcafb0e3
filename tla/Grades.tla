------------------------------- MODULE Grades -------------------------------
(***************************************************************************)
(* The data of the grade report: the two tables of db/01-schema.sql, the   *)
(* two SELECT statements of dao.cpp, the mapping of a PGresult to C++      *)
(* values (dao.cpp) and the page drawn from them (template.cpp).           *)
(*                                                                         *)
(* A text (a student name or a class name) is a natural number and the     *)
(* collation order is the order of the numbers; 0 is the empty text.  A    *)
(* student id, which travels as text in a PGresult too, is a number that   *)
(* is no name or class, so a column read as the wrong thing is visible.    *)
(* Scores are NUMERIC(5,2), counted in hundredths.                         *)
(***************************************************************************)
EXTENDS Integers, Sequences, FiniteSets

CONSTANTS
  Ids,       \* students.id
  Texts,     \* names and classes, the empty text included
  Subjects,  \* texts found in scores.subject
  MaxPoints, \* the greatest NUMERIC(5,2), 999.99, in hundredths
  kSubjects, \* the subject columns, in order (dao.cpp and template.cpp)
  NULL       \* SQL NULL

EmptyText == 0

ASSUME DataAssumption ==
  /\ Ids \subseteq Nat
  /\ Texts \subseteq Nat
  /\ EmptyText \in Texts
  /\ Ids \cap Texts = {}
  /\ MaxPoints \in Nat
  /\ NULL \notin Int
  /\ NULL \notin Subjects
  /\ kSubjects \in Seq(Subjects)
  /\ \A i, j \in DOMAIN kSubjects : kSubjects[i] = kSubjects[j] => i = j

kSubjectCount == Len(kSubjects)

-----------------------------------------------------------------------------
(***************************************************************************)
(* The tables.  `ready' says whether they exist: a statement on a missing  *)
(* table fails.  Nothing in the schema makes (student_id, subject) unique, *)
(* a score may be NULL, and a subject may be outside the displayed ones.   *)
(***************************************************************************)
Student == [id : Ids, name : Texts, class : Texts]
Points  == (- MaxPoints) .. MaxPoints
Score   == [student_id : Ids, subject : Subjects, score : Points \cup {NULL}]

Database == [ready : BOOLEAN, students : SUBSET Student, scores : SUBSET Score]

\* What a column of a result holds, and the two shapes of tuple the
\* statements return: one class, or id, name, class and the subject columns.
SqlValue == Int \cup {NULL}
Tuple    == [1 .. 1 -> SqlValue] \cup [1 .. (3 + kSubjectCount) -> SqlValue]
Result   == [ok : BOOLEAN, tuples : Seq(Tuple)]

\* A row of models.h; `scores' has the subjects that have one.
IsRow(row) ==
  /\ DOMAIN row = {"studentId", "studentName", "className", "scores"}
  /\ {row.studentId, row.studentName, row.className} \subseteq Int
  /\ DOMAIN row.scores \subseteq Subjects
  /\ \A subj \in DOMAIN row.scores : row.scores[subj] \in Int

\* PRIMARY KEY of students and FOREIGN KEY of scores.
KeysHold(d) ==
  /\ \A s, t \in d.students : s.id = t.id => s = t
  /\ \A x \in d.scores : \E s \in d.students : s.id = x.student_id

-----------------------------------------------------------------------------
(***************************************************************************)
(* The statements.  A result is a sequence of tuples, a tuple a function   *)
(* from column numbers to values.                                          *)
(***************************************************************************)
\* All the ways to list the set S so that no element comes before one it
\* must follow: ORDER BY leaves ties in any order.
OrderBy(S, Precedes(_, _)) ==
  { o \in [1 .. Cardinality(S) -> S] :
      /\ \A i, j \in DOMAIN o : i # j => o[i] # o[j]
      /\ \A i, j \in DOMAIN o : i < j => ~ Precedes(o[j], o[i]) }

TextBefore(a, b) == a < b

\* Mutant: the classes of students who have scores.
ClassTuples_Graded(d) ==
  { [i \in DOMAIN o |-> <<o[i]>>] :
      o \in OrderBy({ s.class : s \in { t \in d.students :
                        \E x \in d.scores : x.student_id = t.id } }, TextBefore) }

\* SELECT DISTINCT class FROM students ORDER BY class
ClassTuples(d) ==
  { [i \in DOMAIN o |-> <<o[i]>>] :
      o \in OrderBy({ s.class : s \in d.students }, TextBefore) }

\* FROM students s LEFT JOIN scores sc ON s.id = sc.student_id [WHERE s.class = $1]
NoScore == [subject |-> NULL, score |-> NULL]

\* Mutant: no WHERE.
Joined_Unfiltered(d, filter) ==
  LET Of(s) == { x \in d.scores : x.student_id = s.id }
  IN  (UNION { { [s |-> s, sc |-> [subject |-> x.subject, score |-> x.score]] :
                   x \in Of(s) } : s \in d.students })
      \cup { [s |-> s, sc |-> NoScore] : s \in { t \in d.students : Of(t) = {} } }

Joined(d, filter) ==
  LET S == { s \in d.students : filter = EmptyText \/ s.class = filter }
      Of(s) == { x \in d.scores : x.student_id = s.id }
  IN  (UNION { { [s |-> s, sc |-> [subject |-> x.subject, score |-> x.score]] :
                   x \in Of(s) } : s \in S })
      \cup { [s |-> s, sc |-> NoScore] : s \in { t \in S : Of(t) = {} } }

\* MAX over a set of values, NULLs ignored, NULL when nothing is left.
SqlMax(V) ==
  LET W == V \ {NULL}
  IN  IF W = {} THEN NULL ELSE CHOOSE m \in W : \A v \in W : m >= v

\* MAX(CASE WHEN sc.subject = subj THEN sc.score END) over the rows J
SubjectColumn(J, subj) ==
  SqlMax({ IF j.sc.subject = subj THEN j.sc.score ELSE NULL : j \in J })

\* Mutant: GROUP BY s.name, s.class.
GroupTuple_ByName(J, s) ==
  [ c \in 1 .. (3 + kSubjectCount) |->
      IF c = 1 THEN s.id
      ELSE IF c = 2 THEN s.name
      ELSE IF c = 3 THEN s.class
      ELSE SubjectColumn({ j \in J : j.s.name = s.name /\ j.s.class = s.class },
                         kSubjects[c - 3]) ]

\* One tuple per group of joined rows with the same id, name, class.
GroupTuple(J, s) ==
  [ c \in 1 .. (3 + kSubjectCount) |->
      IF c = 1 THEN s.id
      ELSE IF c = 2 THEN s.name
      ELSE IF c = 3 THEN s.class
      ELSE SubjectColumn({ j \in J : j.s = s }, kSubjects[c - 3]) ]

StudentBefore(s, t) == s.class < t.class \/ (s.class = t.class /\ s.name < t.name)

\* The pivot query: GROUP BY s.id, s.name, s.class ORDER BY s.class, s.name
PivotTuples(d, filter) ==
  LET J == Joined(d, filter)
  IN  { [i \in DOMAIN o |-> GroupTuple(J, o[i])] :
          o \in OrderBy({ j.s : j \in J }, StudentBefore) }

-----------------------------------------------------------------------------
(***************************************************************************)
(* PGresult.  `ok' is PQresultStatus(res) == PGRES_TUPLES_OK; a null       *)
(* pointer and an error result both have another status.                   *)
(***************************************************************************)
Failed      == [ok |-> FALSE, tuples |-> << >>]
TuplesOk(t) == [ok |-> TRUE, tuples |-> t]

\* The results each of the two queries may have on the contents d.
QueryResults(d, call, filter) ==
  IF ~ d.ready THEN {Failed}
  ELSE { TuplesOk(t) : t \in IF call = "classes" THEN ClassTuples(d)
                                                 ELSE PivotTuples(d, filter) }

\* PQgetisnull answers "null" for a column the result does not have.
IsNull(tuple, c) == IF c \in DOMAIN tuple THEN tuple[c] = NULL ELSE TRUE

GetString(tuple, c) == IF IsNull(tuple, c) THEN EmptyText ELSE tuple[c]

\* std::atoi: the number of a text that is one, 0 for any other text.
Atoi(text) == IF text \in Ids THEN text ELSE 0

ReadClasses(res) ==
  IF res.ok THEN [i \in DOMAIN res.tuples |-> GetString(res.tuples[i], 1)]
  ELSE << >>

\* Mutant: NULL scores are put in the map too.
ReadScores_NoNullTest(tuple) ==
  LET column(subj) == CHOOSE c \in 4 .. (3 + kSubjectCount) : kSubjects[c - 3] = subj
  IN  [subj \in { kSubjects[i] : i \in 1 .. kSubjectCount } |->
         IF column(subj) \in DOMAIN tuple THEN tuple[column(subj)] ELSE NULL]

\* row.scores: the subjects whose column is not NULL, each with its score.
ReadScores(tuple) ==
  LET column(subj) == CHOOSE c \in 4 .. (3 + kSubjectCount) : kSubjects[c - 3] = subj
      present == { kSubjects[i] : i \in { k \in 1 .. kSubjectCount :
                                            ~ IsNull(tuple, 3 + k) } }
  IN  [subj \in present |-> tuple[column(subj)]]

ReadRow(tuple) ==
  [ studentId   |-> Atoi(GetString(tuple, 1)),
    studentName |-> GetString(tuple, 2),
    className   |-> GetString(tuple, 3),
    scores      |-> ReadScores(tuple) ]

ReadPivot(res) ==
  IF res.ok THEN [i \in DOMAIN res.tuples |-> ReadRow(res.tuples[i])]
  ELSE << >>

-----------------------------------------------------------------------------
(***************************************************************************)
(* The page.  Fixed markup, styling and HTML escaping are left out.  An    *)
(* empty `table' is the "no data" notice.                                  *)
(***************************************************************************)
\* The text of a cell: a sign, a whole part and the decimals shown, or no
\* digit at all, which is the dash.
Dash == [minus |-> FALSE, digits |-> << >>]

\* Mutant: one decimal.
FormatScore_Tenths(scores, subj) ==
  IF subj \notin DOMAIN scores THEN Dash
  ELSE LET v == scores[subj]
           a == IF v < 0 THEN - v ELSE v
           decimals == IF a % 100 = 0 THEN << >> ELSE <<(a % 100) \div 10>>
       IN  [minus |-> v < 0, digits |-> <<a \div 100>> \o decimals]

\* The decimal text of a score: its whole part alone when it is an integer,
\* otherwise the shortest decimals (operator<< drops trailing zeros; the six
\* digits it keeps are more than the five of NUMERIC(5,2)).
FormatScore(scores, subj) ==
  IF subj \notin DOMAIN scores THEN Dash
  ELSE LET v == scores[subj]
           a == IF v < 0 THEN - v ELSE v
           decimals == IF a % 100 = 0 THEN << >>
                       ELSE IF a % 10 = 0 THEN <<(a % 100) \div 10>>
                       ELSE <<(a % 100) \div 10, a % 10>>
       IN  [minus |-> v < 0, digits |-> <<a \div 100>> \o decimals]

RenderClassSelect(classes, selectedClass) ==
  [i \in DOMAIN classes |->
     [value |-> classes[i], selected |-> classes[i] = selectedClass]]

RenderTable(rows) ==
  [i \in DOMAIN rows |->
     [ name  |-> rows[i].studentName,
       class |-> rows[i].className,
       cells |-> [k \in 1 .. kSubjectCount |->
                    FormatScore(rows[i].scores, kSubjects[k])] ]]

RenderPage(classes, rows, selectedClass) ==
  [ options |-> RenderClassSelect(classes, selectedClass),
    table   |-> RenderTable(rows) ]
=============================================================================
