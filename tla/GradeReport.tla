----------------------------- MODULE GradeReport -----------------------------
(***************************************************************************)
(* The report as a function of the tables, whatever legal history they     *)
(* have.  The administrators' statements that change the tables are        *)
(* modelled from the constraints of db/01-schema.sql; after each of them   *)
(* the two SELECTs of dao.cpp and the page made of them are compared with  *)
(* what the tables say.                                                    *)
(***************************************************************************)
EXTENDS Grades

CONSTANTS
  SomePoints, \* values of scores.score, in hundredths
  MaxScores  \* bound on the rows of scores

ASSUME ReportAssumption == SomePoints \subseteq Points /\ MaxScores \in Nat

VARIABLE db

\* CREATE TABLE IF NOT EXISTS, on a new database.
Init == db = [ready |-> TRUE, students |-> {}, scores |-> {}]

InsertStudent ==
  \E s \in Student :
    /\ \A t \in db.students : t.id # s.id
    /\ db' = [db EXCEPT !.students = @ \cup {s}]

UpdateClass ==
  \E s \in db.students, c \in Texts :
    db' = [db EXCEPT !.students = (@ \ {s}) \cup {[s EXCEPT !.class = c]}]

\* Mutant: no ON DELETE CASCADE.
DeleteStudent_NoCascade ==
  \E s \in db.students : db' = [db EXCEPT !.students = @ \ {s}]

\* The scores of a deleted student go with it.
DeleteStudent ==
  \E s \in db.students :
    db' = [db EXCEPT !.students = @ \ {s},
                     !.scores = { x \in @ : x.student_id # s.id }]

\* A second score in the same subject, a NULL score and a subject outside
\* kSubjects are all accepted.
InsertScore ==
  /\ Cardinality(db.scores) < MaxScores
  /\ \E s \in db.students, subj \in Subjects, v \in SomePoints \cup {NULL} :
       db' = [db EXCEPT !.scores = @ \cup
                {[student_id |-> s.id, subject |-> subj, score |-> v]}]

Next == InsertStudent \/ UpdateClass \/ DeleteStudent \/ InsertScore

Spec == Init /\ [][Next]_db

-----------------------------------------------------------------------------
\* The pages the tables allow for a filter, without any failure.
Pages(filter) ==
  { RenderPage(ReadClasses(c), ReadPivot(r), filter) :
      c \in QueryResults(db, "classes", filter),
      r \in QueryResults(db, "pivot", filter) }

\* The keys of the schema hold.
TypeOK == db \in Database /\ KeysHold(db)

\* What QueryPivot returns, said without SQL: every student of the class
\* asked for is in it once, students without scores too; a cell is the best
\* of the student's scores in the subject, and is missing when there is
\* none; rows are ordered by class and then by name.
PivotCorrect ==
  \A filter \in Texts : \A res \in QueryResults(db, "pivot", filter) :
    LET table == ReadPivot(res)
        asked == { s \in db.students : filter \in {EmptyText, s.class} }
        scoresOf(s, subj) ==
          { x.score : x \in { y \in db.scores :
              y.student_id = s.id /\ y.subject = subj /\ y.score # NULL } }
    IN  /\ Len(table) = Cardinality(asked)
        /\ \A s \in asked : \E i \in DOMAIN table :
             /\ table[i].studentId = s.id
             /\ table[i].studentName = s.name
             /\ table[i].className = s.class
             /\ \A k \in 1 .. kSubjectCount :
                  LET subj == kSubjects[k] IN
                  IF scoresOf(s, subj) = {} THEN subj \notin DOMAIN table[i].scores
                  ELSE /\ table[i].scores[subj] \in scoresOf(s, subj)
                       /\ \A v \in scoresOf(s, subj) : v <= table[i].scores[subj]
        /\ \A i, j \in DOMAIN table : i < j =>
             \/ table[i].className < table[j].className
             \/ /\ table[i].className = table[j].className
                /\ table[i].studentName <= table[j].studentName

\* The menu of any page divides the students: the class of each has one
\* entry, and among the entries that filter, choosing that one, and no
\* other, shows as many rows of the class as it has students.  A class with
\* an empty name has an entry too, but it means "all classes".
MenuDividesStudents ==
  \A p \in Pages(EmptyText) : \A s \in db.students :
    LET entries == { i \in DOMAIN p.options : p.options[i].value = s.class }
    IN  /\ Cardinality(entries) = 1
        /\ \A i \in DOMAIN p.options : \A q \in Pages(p.options[i].value) :
             p.options[i].value # EmptyText =>
               Cardinality({ k \in DOMAIN q.table : q.table[k].class = s.class })
                 = IF i \in entries
                   THEN Cardinality({ t \in db.students : t.class = s.class })
                   ELSE 0
=============================================================================
