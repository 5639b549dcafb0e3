-------------------------- MODULE ConversionProofs --------------------------
(***************************************************************************)
(* Theorems about the conversions of MCConversions: the report, for any    *)
(* tables the statements of an administrator can make, any subjects with   *)
(* and without a column; a score and its cell; the loops of cpp-httplib    *)
(* that answer a Range header, for any header and any body; the class of a *)
(* query, for any order of its parameters; the texts of the page, whatever *)
(* their length.                                                           *)
(***************************************************************************)
EXTENDS MCConversions, GradesProofs, SequenceLemmas, FunctionTheorems,
        FiniteSetTheorems

-----------------------------------------------------------------------------
(* The pivot query, from the tables to the rows of the vector. *)

\* The students a request is about, and the scores a cell is about.
Asked(d, filter) == { s \in d.students : filter \in {EmptyText, s.class} }

ScoresOf(d, s, subj) ==
  { x.score : x \in { y \in d.scores :
      y.student_id = s.id /\ y.subject = subj /\ y.score # NULL } }

\* What PivotCorrect says of the row of one student.
Shows(d, row, s) ==
  /\ row.studentId = s.id
  /\ row.studentName = s.name
  /\ row.className = s.class
  /\ \A k \in 1 .. kSubjectCount :
       LET subj == kSubjects[k] IN
       IF ScoresOf(d, s, subj) = {} THEN subj \notin DOMAIN row.scores
       ELSE /\ row.scores[subj] \in ScoresOf(d, s, subj)
            /\ \A v \in ScoresOf(d, s, subj) : v <= row.scores[subj]

LEMMA JoinedRow ==
  ASSUME NEW d, NEW filter, NEW s \in Asked(d, filter),
         NEW x \in d.scores, x.student_id = s.id
  PROVE  [s |-> s, sc |-> [subject |-> x.subject, score |-> x.score]]
           \in Joined(d, filter)
<1> DEFINE A == { t \in d.students : filter = EmptyText \/ t.class = filter }
           Of(t) == { y \in d.scores : y.student_id = t.id }
           row(t, y) == [s |-> t, sc |-> [subject |-> y.subject, score |-> y.score]]
           rows == { { row(t, y) : y \in Of(t) } : t \in A }
<1>1. row(s, x) \in { row(s, y) : y \in Of(s) }
  OBVIOUS
<1>2. { row(s, y) : y \in Of(s) } \in rows
  BY DEF Asked
<1>3. UNION rows \subseteq Joined(d, filter)
  BY DEF Joined
<1> HIDE DEF rows
<1> QED
  BY <1>1, <1>2, <1>3

\* The outer join keeps every student asked for.
LEMMA JoinedStudents ==
  ASSUME NEW d, NEW filter
  PROVE  { j.s : j \in Joined(d, filter) } = Asked(d, filter)
<1> DEFINE A == { s \in d.students : filter = EmptyText \/ s.class = filter }
           Of(s) == { x \in d.scores : x.student_id = s.id }
           row(s, x) == [s |-> s, sc |-> [subject |-> x.subject, score |-> x.score]]
           left == { [s |-> s, sc |-> NoScore] : s \in { t \in A : Of(t) = {} } }
           J == (UNION { { row(s, x) : x \in Of(s) } : s \in A }) \cup left
<1>1. J = Joined(d, filter)
  BY DEF Joined
<1>2. \A j \in J : j.s \in A
  OBVIOUS
<1>3. ASSUME NEW s \in A PROVE \E j \in J : j.s = s
  <2>1. CASE Of(s) = {}
    <3>1. [s |-> s, sc |-> NoScore] \in J
      BY <2>1
    <3> QED
      BY <3>1
  <2>2. CASE Of(s) # {}
    <3>1. PICK x \in Of(s) : TRUE
      BY <2>2
    <3> DEFINE e == row(s, x)
    <3>2. e.s = s /\ s \in Asked(d, filter)
      BY DEF Asked
    <3>3. e \in J
      BY <1>1, <3>1, <3>2, JoinedRow
    <3> HIDE DEF e, J
    <3> QED
      BY <3>2, <3>3
  <2> QED
    BY <2>1, <2>2
<1>4. A = Asked(d, filter)
  BY DEF Asked
<1> HIDE DEF J, A
<1> QED
  BY <1>1, <1>2, <1>3, <1>4

\* The scores MAX sees for a student and a subject, NULLs aside.
LEMMA ColumnScores ==
  ASSUME NEW d \in Database, NEW filter, NEW s \in Asked(d, filter),
         NEW subj \in Subjects
  PROVE  LET G == { j \in Joined(d, filter) : j.s = s }
             V == { IF j.sc.subject = subj THEN j.sc.score ELSE NULL : j \in G }
         IN  V \in SUBSET (Points \cup {NULL}) /\ V \cap Points = ScoresOf(d, s, subj)
<1> DEFINE A == { t \in d.students : filter = EmptyText \/ t.class = filter }
           Of(t) == { x \in d.scores : x.student_id = t.id }
           row(t, x) == [s |-> t, sc |-> [subject |-> x.subject, score |-> x.score]]
           left == { [s |-> t, sc |-> NoScore] : t \in { u \in A : Of(u) = {} } }
           J == (UNION { { row(t, x) : x \in Of(t) } : t \in A }) \cup left
           G == { j \in J : j.s = s }
           V == { IF j.sc.subject = subj THEN j.sc.score ELSE NULL : j \in G }
<1>1. J = Joined(d, filter)
  BY DEF Joined
<1>2. s \in A
  BY DEF Asked
<1>3. \A x \in d.scores : x.score \in Points \cup {NULL}
  BY ScoreFields
<1>4. NULL \notin Points /\ subj # NULL
  <2>1. \A p \in Points : p \in Int
    BY DataAssumption DEF Points
  <2> QED
    BY <2>1, DataAssumption
<1>5. ASSUME NEW j \in G
      PROVE  \/ \E x \in Of(s) : j = row(s, x)
             \/ j = [s |-> s, sc |-> NoScore]
  OBVIOUS
<1>6. ASSUME NEW x \in Of(s) PROVE row(s, x) \in G
  <2>1. row(s, x).s = s
    OBVIOUS
  <2>2. row(s, x) \in J
    BY <1>1, JoinedRow
  <2> HIDE DEF J
  <2> QED
    BY <2>2
<1> HIDE DEF G, J
<1>7. ASSUME NEW j \in G
      PROVE  \/ j.sc.subject = subj /\ j.sc.score = NULL
             \/ j.sc.subject = subj /\ j.sc.score \in ScoresOf(d, s, subj) \cap Points
             \/ j.sc.subject # subj
  <2>1. CASE \E x \in Of(s) : j = row(s, x)
    <3>1. PICK x \in Of(s) : j = row(s, x)
      BY <2>1
    <3>2. j.sc.subject = x.subject /\ j.sc.score = x.score
      BY <3>1
    <3>3. x \in d.scores /\ x.student_id = s.id /\ x.score \in Points \cup {NULL}
      BY <1>3
    <3> QED
      BY <3>2, <3>3 DEF ScoresOf
  <2>2. CASE j = [s |-> s, sc |-> NoScore]
    BY <1>4, <2>2 DEF NoScore
  <2> QED
    BY <1>5, <2>1, <2>2
<1>8. V \in SUBSET (Points \cup {NULL}) /\ V \cap Points \subseteq ScoresOf(d, s, subj)
  BY <1>4, <1>7
<1>9. ASSUME NEW v \in ScoresOf(d, s, subj) PROVE v \in V \cap Points
  <2>1. PICK x \in d.scores : x.student_id = s.id /\ x.subject = subj /\ x.score # NULL
                              /\ v = x.score
    BY DEF ScoresOf
  <2>2. row(s, x) \in G
    BY <1>6, <2>1
  <2>3. row(s, x).sc.subject = subj /\ row(s, x).sc.score = v
    BY <2>1
  <2>4. v \in V
    BY <2>2, <2>3
  <2> QED
    BY <1>3, <2>1, <2>4
<1> HIDE DEF V
<1>10. V \in SUBSET (Points \cup {NULL}) /\ V \cap Points = ScoresOf(d, s, subj)
  BY <1>8, <1>9
<1> QED
  BY <1>1, <1>10 DEF V, G

LEMMA Columns ==
  ASSUME NEW d \in Database, NEW filter, NEW s \in Asked(d, filter),
         NEW k \in 1 .. kSubjectCount
  PROVE  LET cell == GroupTuple(Joined(d, filter), s)[3 + k]
             best == ScoresOf(d, s, kSubjects[k])
         IN  IF best = {} THEN cell = NULL
             ELSE cell # NULL /\ cell \in best /\ \A v \in best : v <= cell
<1> DEFINE G == { j \in Joined(d, filter) : j.s = s }
           V == { IF j.sc.subject = kSubjects[k] THEN j.sc.score ELSE NULL : j \in G }
           best == ScoresOf(d, s, kSubjects[k])
<1>1. kSubjectCount \in Nat /\ kSubjects[k] \in Subjects
  BY DataAssumption DEF kSubjectCount
<1>2. 3 + k \in 1 .. (3 + kSubjectCount) /\ (3 + k) - 3 = k
      /\ 3 + k # 1 /\ 3 + k # 2 /\ 3 + k # 3
  BY <1>1
<1>3. GroupTuple(Joined(d, filter), s)[3 + k] = SqlMax(V)
  BY <1>2 DEF GroupTuple, SubjectColumn
<1>4. V \in SUBSET (Points \cup {NULL}) /\ V \cap Points = best
  BY <1>1, ColumnScores
<1> HIDE DEF V, best
<1>5. /\ SqlMax(V) = NULL => V \subseteq {NULL}
      /\ SqlMax(V) # NULL => SqlMax(V) \in best /\ \A v \in best : SqlMax(V) >= v
  BY <1>4, SqlMaxValue
<1>6. NULL \notin Points /\ \A p \in Points : p \in Int
  BY DataAssumption DEF Points
<1>7. SqlMax(V) = NULL <=> best = {}
  BY <1>4, <1>5, <1>6
<1>8. \A v \in best : v \in Int
  BY <1>4, <1>6
<1> QED
  BY <1>3, <1>5, <1>7, <1>8 DEF best

\* What ReadPivot makes of the tuple of a student.
LEMMA RowOfStudent ==
  ASSUME NEW d \in Database, NEW filter, NEW s \in Asked(d, filter)
  PROVE  Shows(d, ReadRow(GroupTuple(Joined(d, filter), s)), s)
<1> DEFINE t == GroupTuple(Joined(d, filter), s)
           K == { k \in 1 .. kSubjectCount : ~ IsNull(t, 3 + k) }
           present == { kSubjects[i] : i \in K }
           column(subj) == CHOOSE c \in 4 .. (3 + kSubjectCount) : kSubjects[c - 3] = subj
<1>1. kSubjectCount \in Nat /\ DOMAIN kSubjects = 1 .. kSubjectCount
  BY DataAssumption DEF kSubjectCount
<1>2. DOMAIN t = 1 .. (3 + kSubjectCount) /\ t[1] = s.id /\ t[2] = s.name /\ t[3] = s.class
  BY <1>1 DEF GroupTuple
<1>3. s.id \in Ids /\ s.id # NULL /\ s.name # NULL /\ s.class # NULL
  <2>1. s \in d.students
    BY DEF Asked
  <2>2. s \in Student
    BY <2>1 DEF Database
  <2> QED
    BY <2>1, <2>2, StudentFields, DataAssumption DEF Student
<1>4. \A k \in 1 .. kSubjectCount :
        LET best == ScoresOf(d, s, kSubjects[k])
        IN  IF best = {} THEN t[3 + k] = NULL
            ELSE t[3 + k] # NULL /\ t[3 + k] \in best /\ \A v \in best : v <= t[3 + k]
  BY Columns
<1> HIDE DEF t
<1>5. ReadScores(t) = [subj \in present |-> t[column(subj)]]
  BY DEF ReadScores
<1>6. ASSUME NEW k \in 1 .. kSubjectCount
      PROVE  /\ column(kSubjects[k]) = 3 + k
             /\ kSubjects[k] \in present <=> t[3 + k] # NULL
  <2>1. 3 + k \in 4 .. (3 + kSubjectCount) /\ (3 + k) - 3 = k /\ 3 + k \in DOMAIN t
    BY <1>1, <1>2
  <2>2. \A i \in 1 .. kSubjectCount : kSubjects[i] = kSubjects[k] => i = k
    BY <1>1, DataAssumption
  <2>3. column(kSubjects[k]) = 3 + k
    <3>1. \E b \in 4 .. (3 + kSubjectCount) : kSubjects[b - 3] = kSubjects[k]
      BY <2>1
    <3> DEFINE c == column(kSubjects[k])
    <3>2. c \in 4 .. (3 + kSubjectCount) /\ kSubjects[c - 3] = kSubjects[k]
      BY <3>1
    <3> HIDE DEF c
    <3>3. c - 3 \in 1 .. kSubjectCount
      BY <1>1, <3>2
    <3>4. c - 3 = k
      BY <2>2, <3>2, <3>3
    <3>5. c = 3 + k
      BY <1>1, <3>2, <3>4
    <3> QED
      BY <3>5 DEF c
  <2>4. IsNull(t, 3 + k) <=> t[3 + k] = NULL
    BY <2>1 DEF IsNull
  <2>5. kSubjects[k] \in present <=> k \in K
    BY <2>2
  <2> QED
    BY <2>3, <2>4, <2>5
<1> HIDE DEF column, present, K
<1>7. ASSUME NEW k \in 1 .. kSubjectCount
      PROVE  IF ScoresOf(d, s, kSubjects[k]) = {}
             THEN kSubjects[k] \notin DOMAIN ReadScores(t)
             ELSE /\ ReadScores(t)[kSubjects[k]] \in ScoresOf(d, s, kSubjects[k])
                  /\ \A v \in ScoresOf(d, s, kSubjects[k]) :
                       v <= ReadScores(t)[kSubjects[k]]
  <2>1. CASE ScoresOf(d, s, kSubjects[k]) = {}
    BY <1>4, <1>5, <1>6, <2>1
  <2>2. CASE ScoresOf(d, s, kSubjects[k]) # {}
    <3>1. kSubjects[k] \in present
      BY <1>4, <1>6, <2>2
    <3>2. ReadScores(t)[kSubjects[k]] = t[3 + k]
      BY <1>5, <1>6, <3>1
    <3> QED
      BY <1>4, <2>2, <3>2
  <2> QED
    BY <2>1, <2>2
<1>8. 1 \in DOMAIN t /\ 2 \in DOMAIN t /\ 3 \in DOMAIN t
  BY <1>1, <1>2
<1>9. /\ ReadRow(t).studentId = s.id /\ ReadRow(t).studentName = s.name
      /\ ReadRow(t).className = s.class /\ ReadRow(t).scores = ReadScores(t)
  BY <1>2, <1>3, <1>8 DEF ReadRow, GetString, IsNull, Atoi
<1> QED
  BY <1>7, <1>9 DEF Shows, t

\* The rows of a vector are the students asked for, each once, in their order.
LEMMA PivotRows ==
  ASSUME NEW d \in Database, IsFiniteSet(d.students), d.ready, NEW filter,
         NEW res \in QueryResults(d, "pivot", filter)
  PROVE  /\ IsFiniteSet(Asked(d, filter)) /\ Cardinality(Asked(d, filter)) \in Nat
         /\ Len(ReadPivot(res)) = Cardinality(Asked(d, filter))
         /\ DOMAIN ReadPivot(res) = 1 .. Cardinality(Asked(d, filter))
         /\ \E o \in [1 .. Cardinality(Asked(d, filter)) -> Asked(d, filter)] :
              /\ \A i, j \in DOMAIN o : i # j => o[i] # o[j]
              /\ \A i, j \in DOMAIN o : i < j => ~ StudentBefore(o[j], o[i])
              /\ \A i \in DOMAIN o : Shows(d, ReadPivot(res)[i], o[i])
<1> DEFINE A == Asked(d, filter)
           J == Joined(d, filter)
           n == Cardinality(A)
<1>1. IsFiniteSet(A) /\ n \in Nat
  <2>1. A \subseteq d.students
    BY DEF Asked
  <2>2. IsFiniteSet(A)
    BY <2>1, FS_Subset
  <2> QED
    BY <2>2, FS_CardinalityType
<1>2. PICK t \in PivotTuples(d, filter) : res = TuplesOk(t)
  BY DEF QueryResults
<1>3. PICK o \in OrderBy(A, StudentBefore) : t = [i \in DOMAIN o |-> GroupTuple(J, o[i])]
  BY <1>2, JoinedStudents DEF PivotTuples
<1>4. /\ o \in [1 .. n -> A]
      /\ \A i, j \in DOMAIN o : i # j => o[i] # o[j]
      /\ \A i, j \in DOMAIN o : i < j => ~ StudentBefore(o[j], o[i])
  BY <1>3 DEF OrderBy
<1>5. \A i \in 1 .. n : Shows(d, ReadRow(GroupTuple(J, o[i])), o[i])
  BY <1>4, RowOfStudent
<1> HIDE DEF n, A
<1>6. res.ok /\ res.tuples = t
  BY <1>2 DEF TuplesOk
<1>7. DOMAIN t = 1 .. n /\ \A i \in 1 .. n : t[i] = GroupTuple(J, o[i])
  BY <1>3, <1>4
<1> HIDE DEF J
<1>8. ReadPivot(res) = [i \in 1 .. n |-> ReadRow(t[i])]
  BY <1>6, <1>7 DEF ReadPivot
<1>9. Len(ReadPivot(res)) = n
  <2> DEFINE T == { ReadRow(t[i]) : i \in 1 .. n }
  <2>1. ReadPivot(res) \in [1 .. n -> T]
    BY <1>8
  <2> HIDE DEF T
  <2> QED
    BY <1>1, <2>1, SeqFromFunction
<1>10. \A i \in 1 .. n : Shows(d, ReadPivot(res)[i], o[i])
  BY <1>5, <1>7, <1>8
<1> QED
  BY <1>1, <1>4, <1>8, <1>9, <1>10 DEF n, A

\* The entries of the menu are classes of students.
LEMMA EntriesOfStudents ==
  ASSUME NEW d \in Database, NEW filter, NEW r \in QueryResults(d, "classes", filter),
         NEW i \in DOMAIN ReadClasses(r)
  PROVE  \E s \in d.students : ReadClasses(r)[i] = s.class
<1> DEFINE S == { s.class : s \in d.students }
<1>1. r # Failed
  BY DEF ReadClasses, Failed
<1>2. PICK t \in ClassTuples(d) : r = TuplesOk(t)
  BY <1>1 DEF QueryResults
<1>3. PICK o \in OrderBy(S, TextBefore) : t = [k \in DOMAIN o |-> <<o[k]>>]
  BY <1>2 DEF ClassTuples
<1>4. o \in [1 .. Cardinality(S) -> S]
  BY <1>3 DEF OrderBy
<1>5. i \in DOMAIN t /\ ReadClasses(r)[i] = GetString(t[i], 1)
  BY <1>2 DEF ReadClasses, TuplesOk
<1>6. i \in DOMAIN o /\ t[i] = <<o[i]>> /\ o[i] \in S
  BY <1>3, <1>4, <1>5
<1>7. PICK s \in d.students : o[i] = s.class
  BY <1>6
<1>8. o[i] # NULL
  BY <1>7, StudentFields, DataAssumption
<1>9. 1 \in DOMAIN t[i] /\ t[i][1] = o[i]
  BY <1>6
<1>10. GetString(t[i], 1) = o[i]
  BY <1>8, <1>9 DEF GetString, IsNull
<1> QED
  BY <1>5, <1>7, <1>10

-----------------------------------------------------------------------------
(* The tables of a legal history. *)

Legal ==
  /\ db \in Database /\ KeysHold(db)
  /\ db.ready /\ IsFiniteSet(db.students)

LEMMA LegalInitially == Init => Legal
  BY FS_EmptySet DEF Init, Legal, Database, KeysHold

LEMMA LegalKept == Legal /\ Next => Legal'
<1> SUFFICES ASSUME Legal, Next PROVE Legal'
  OBVIOUS
<1>0. /\ db \in [ready : BOOLEAN, students : SUBSET Student, scores : SUBSET Score]
      /\ db.ready /\ IsFiniteSet(db.students)
      /\ \A s, t \in db.students : s.id = t.id => s = t
      /\ \A x \in db.scores : \E s \in db.students : s.id = x.student_id
  BY DEF Legal, Database, KeysHold
<1> SUFFICES /\ db' \in [ready : BOOLEAN, students : SUBSET Student, scores : SUBSET Score]
             /\ db'.ready /\ IsFiniteSet(db'.students)
             /\ \A s, t \in db'.students : s.id = t.id => s = t
             /\ \A x \in db'.scores : \E s \in db'.students : s.id = x.student_id
  BY DEF Legal, Database, KeysHold
<1>1. CASE InsertStudent
  <2>1. PICK s \in Student : /\ \A t \in db.students : t.id # s.id
                             /\ db' = [db EXCEPT !.students = @ \cup {s}]
    BY <1>1 DEF InsertStudent
  <2>2. /\ db'.students = db.students \cup {s} /\ db'.scores = db.scores
        /\ db'.ready = db.ready
    BY <1>0, <2>1
  <2>3. IsFiniteSet(db'.students)
    BY <1>0, <2>2, FS_AddElement
  <2> QED
    BY <1>0, <2>1, <2>2, <2>3
<1>2. CASE UpdateClass
  <2>1. PICK s \in db.students, c \in Texts :
          db' = [db EXCEPT !.students = (@ \ {s}) \cup {[s EXCEPT !.class = c]}]
    BY <1>2 DEF UpdateClass
  <2> DEFINE u == [s EXCEPT !.class = c]
  <2>2. u \in Student /\ u.id = s.id
    <3>1. s \in [id : Ids, name : Texts, class : Texts]
      BY <1>0 DEF Student
    <3> QED
      BY <3>1 DEF Student
  <2>3. /\ db'.students = (db.students \ {s}) \cup {u} /\ db'.scores = db.scores
        /\ db'.ready = db.ready
    BY <1>0, <2>1
  <2> HIDE DEF u
  <2>4. IsFiniteSet(db'.students)
    <3>1. IsFiniteSet(db.students \ {s})
      BY <1>0, FS_RemoveElement
    <3> QED
      BY <2>3, <3>1, FS_AddElement
  <2>5. \A x \in db'.scores : \E t \in db'.students : t.id = x.student_id
    <3> TAKE x \in db'.scores
    <3>1. PICK t \in db.students : t.id = x.student_id
      BY <1>0, <2>3
    <3>2. CASE t = s
      BY <2>2, <2>3, <3>1, <3>2
    <3>3. CASE t # s
      BY <2>3, <3>1, <3>3
    <3> QED
      BY <3>2, <3>3
  <2>6. \A t, v \in db'.students : t.id = v.id => t = v
    BY <1>0, <2>2, <2>3
  <2>7. db' \in [ready : BOOLEAN, students : SUBSET Student, scores : SUBSET Score]
    <3>1. (db.students \ {s}) \cup {u} \in SUBSET Student
      BY <1>0, <2>2
    <3> QED
      BY <1>0, <2>1, <3>1 DEF u
  <2> QED
    BY <1>0, <2>3, <2>4, <2>5, <2>6, <2>7
<1>3. CASE DeleteStudent
  <2>1. PICK s \in db.students :
          db' = [db EXCEPT !.students = @ \ {s},
                           !.scores = { x \in @ : x.student_id # s.id }]
    BY <1>3 DEF DeleteStudent
  <2>2. /\ db'.students = db.students \ {s} /\ db'.ready = db.ready
        /\ db'.scores = { x \in db.scores : x.student_id # s.id }
    BY <1>0, <2>1
  <2>3. IsFiniteSet(db'.students)
    BY <1>0, <2>2, FS_RemoveElement
  <2>4. db' \in [ready : BOOLEAN, students : SUBSET Student, scores : SUBSET Score]
    BY <1>0, <2>1
  <2> QED
    BY <1>0, <2>2, <2>3, <2>4
<1>4. CASE InsertScore
  <2>1. PICK s \in db.students, subj \in Subjects, v \in SomePoints \cup {NULL} :
          db' = [db EXCEPT !.scores = @ \cup
                   {[student_id |-> s.id, subject |-> subj, score |-> v]}]
    BY <1>4 DEF InsertScore
  <2> DEFINE x == [student_id |-> s.id, subject |-> subj, score |-> v]
  <2>2. x \in Score /\ x.student_id = s.id
    <3>1. s.id \in Ids
      BY <1>0 DEF Student
    <3>2. v \in Points \cup {NULL}
      BY ReportAssumption
    <3> QED
      BY <3>1, <3>2 DEF Score
  <2>3. /\ db'.students = db.students /\ db'.ready = db.ready
        /\ db'.scores = db.scores \cup {x}
    BY <1>0, <2>1
  <2>4. db' \in [ready : BOOLEAN, students : SUBSET Student, scores : SUBSET Score]
    BY <1>0, <2>1, <2>2
  <2> HIDE DEF x
  <2> QED
    BY <1>0, <2>2, <2>3, <2>4
<1> QED
  BY <1>1, <1>2, <1>3, <1>4 DEF Next

-----------------------------------------------------------------------------
LEMMA LegalPivot == Legal => PivotCorrect
<1> SUFFICES ASSUME Legal, NEW filter \in Texts,
                    NEW res \in QueryResults(db, "pivot", filter)
             PROVE  LET table == ReadPivot(res)
                    IN  /\ Len(table) = Cardinality(Asked(db, filter))
                        /\ \A s \in Asked(db, filter) :
                             \E i \in DOMAIN table : Shows(db, table[i], s)
                        /\ \A i, j \in DOMAIN table : i < j =>
                             \/ table[i].className < table[j].className
                             \/ /\ table[i].className = table[j].className
                                /\ table[i].studentName <= table[j].studentName
  BY DEF PivotCorrect, Asked, Shows, ScoresOf
<1> DEFINE table == ReadPivot(res)
           n == Cardinality(Asked(db, filter))
<1>1. /\ IsFiniteSet(Asked(db, filter)) /\ n \in Nat
      /\ Len(table) = n /\ DOMAIN table = 1 .. n
      /\ \E o \in [1 .. n -> Asked(db, filter)] :
           /\ \A i, j \in DOMAIN o : i # j => o[i] # o[j]
           /\ \A i, j \in DOMAIN o : i < j => ~ StudentBefore(o[j], o[i])
           /\ \A i \in DOMAIN o : Shows(db, table[i], o[i])
  BY PivotRows DEF Legal
<1>2. PICK o \in [1 .. n -> Asked(db, filter)] :
           /\ \A i, j \in DOMAIN o : i # j => o[i] # o[j]
           /\ \A i, j \in DOMAIN o : i < j => ~ StudentBefore(o[j], o[i])
           /\ \A i \in DOMAIN o : Shows(db, table[i], o[i])
  BY <1>1
<1>3. \A s \in Asked(db, filter) : \E i \in 1 .. n : o[i] = s
  BY <1>1, <1>2, ListedWhole
<1> HIDE DEF table, n
<1>4. \A s \in Asked(db, filter) : \E i \in DOMAIN table : Shows(db, table[i], s)
  BY <1>1, <1>2, <1>3
<1>5. ASSUME NEW i \in DOMAIN table, NEW j \in DOMAIN table, i < j
      PROVE  \/ table[i].className < table[j].className
             \/ /\ table[i].className = table[j].className
                /\ table[i].studentName <= table[j].studentName
  <2>1. /\ table[i].className = o[i].class /\ table[i].studentName = o[i].name
        /\ table[j].className = o[j].class /\ table[j].studentName = o[j].name
        /\ ~ StudentBefore(o[j], o[i])
    BY <1>1, <1>2, <1>5 DEF Shows
  <2>2. o[i] \in db.students /\ o[j] \in db.students
    BY <1>1, <1>2 DEF Asked
  <2>3. /\ o[i].class \in Int /\ o[i].name \in Int
        /\ o[j].class \in Int /\ o[j].name \in Int
    BY <2>2, StudentFields DEF Legal
  <2> QED
    BY <2>1, <2>3 DEF StudentBefore
<1> QED
  BY <1>1, <1>4, <1>5 DEF table, n

LEMMA LegalMenu == Legal => MenuDividesStudents
<1> SUFFICES ASSUME Legal, NEW p \in Pages(EmptyText), NEW s \in db.students
             PROVE  LET entries == { i \in DOMAIN p.options : p.options[i].value = s.class }
                    IN  /\ Cardinality(entries) = 1
                        /\ \A i \in DOMAIN p.options : \A q \in Pages(p.options[i].value) :
                             p.options[i].value # EmptyText =>
                               Cardinality({ k \in DOMAIN q.table :
                                               q.table[k].class = s.class })
                                 = IF i \in entries
                                   THEN Cardinality({ t \in db.students : t.class = s.class })
                                   ELSE 0
  BY DEF MenuDividesStudents
<1> DEFINE entries == { i \in DOMAIN p.options : p.options[i].value = s.class }
<1>1. PICK c \in QueryResults(db, "classes", EmptyText),
           r \in QueryResults(db, "pivot", EmptyText) :
        p = RenderPage(ReadClasses(c), ReadPivot(r), EmptyText)
  BY DEF Pages
<1>2. /\ DOMAIN p.options = DOMAIN ReadClasses(c)
      /\ \A i \in DOMAIN p.options : p.options[i].value = ReadClasses(c)[i]
  BY <1>1 DEF RenderPage, RenderClassSelect
<1>3. /\ \E j \in DOMAIN p.options : p.options[j].value = s.class
      /\ \A i, j \in DOMAIN p.options : p.options[i].value = p.options[j].value => i = j
  BY <1>1, <1>2, ClassesListed DEF Legal
<1>4. Cardinality(entries) = 1
  <2>1. PICK j : entries = {j}
    BY <1>3
  <2> QED
    BY <2>1, FS_Singleton
<1>5. ASSUME NEW i \in DOMAIN p.options, NEW q \in Pages(p.options[i].value),
             p.options[i].value # EmptyText
      PROVE  Cardinality({ k \in DOMAIN q.table : q.table[k].class = s.class })
               = IF i \in entries
                 THEN Cardinality({ t \in db.students : t.class = s.class }) ELSE 0
  <2> DEFINE f == p.options[i].value
             n == Cardinality(Asked(db, f))
             shown == { k \in DOMAIN q.table : q.table[k].class = s.class }
  <2>1. PICK r2 \in QueryResults(db, "pivot", f) : q.table = RenderTable(ReadPivot(r2))
    BY DEF Pages, RenderPage
  <2>2. Asked(db, f) = { t \in db.students : t.class = f }
    BY <1>5 DEF Asked
  <2> HIDE DEF f
  <2>3. /\ n \in Nat /\ DOMAIN ReadPivot(r2) = 1 .. n
        /\ \E o \in [1 .. n -> Asked(db, f)] :
             \A k \in DOMAIN o : Shows(db, ReadPivot(r2)[k], o[k])
    BY <2>1, PivotRows DEF Legal
  <2>4. \A k \in 1 .. n : ReadPivot(r2)[k].className = f
    BY <2>2, <2>3 DEF Shows
  <2>5. DOMAIN q.table = 1 .. n /\ \A k \in 1 .. n : q.table[k].class = f
    BY <2>1, <2>3, <2>4 DEF RenderTable
  <2>6. i \in entries <=> f = s.class
    BY DEF f
  <2>7. CASE f = s.class
    <3> HIDE DEF n
    <3>0. \A k \in 1 .. n : q.table[k].class = s.class
      BY <2>5, <2>7
    <3>1. shown = 1 .. n
      BY <2>5, <3>0
    <3> USE DEF n
    <3>2. Cardinality(1 .. n) = n
      <4>1. Cardinality(1 .. n) = IF 1 > n THEN 0 ELSE n - 1 + 1
        <5> HIDE DEF n
        <5> QED
          BY <2>3, FS_Interval
      <4> HIDE DEF n
      <4> QED
        BY <2>3, <4>1
    <3> QED
      BY <2>2, <2>6, <2>7, <3>1, <3>2
  <2>8. CASE f # s.class
    <3>1. shown = {}
      BY <2>5, <2>8
    <3> QED
      BY <2>6, <2>8, <3>1, FS_EmptySet
  <2> QED
    BY <2>7, <2>8
<1> QED
  BY <1>4, <1>5

LEMMA LegalHolds == MCSpec => [](turn = "report" => Legal)
<1> DEFINE Inv == turn = "report" => Legal
<1>1. MCInit => Inv
  BY LegalInitially DEF MCInit
<1>2. Inv /\ [MCNext]_all => Inv'
  <2> SUFFICES ASSUME Inv, [MCNext]_all, turn' = "report" PROVE Legal'
    OBVIOUS
  <2>1. CASE UNCHANGED all
    BY <2>1 DEF all, Legal
  <2>2. CASE MCNext
    <3>1. turn = "report" /\ Next
      BY <2>2 DEF MCNext
    <3> QED
      BY <3>1, LegalKept
  <2> QED
    BY <2>1, <2>2
<1> QED
  BY <1>1, <1>2, PTL DEF MCSpec

\* After any legal history of the tables, of any size and with any subjects:
\* the vector of QueryPivot has every student asked for once, in order, with
\* the best of its scores in each column and no other; and the menu divides
\* the students, one entry for a class, its rows as many as its students.
THEOREM ReportIsRight == MCSpec => []ReportRight
<1>1. (turn = "report" => Legal) => ReportRight
  BY LegalPivot, LegalMenu DEF ReportRight
<1> QED
  BY <1>1, LegalHolds, PTL

-----------------------------------------------------------------------------
(* One score. *)

\* The digits of a number of hundredths.
LEMMA Digits ==
  ASSUME NEW a \in Nat, NEW whole, NEW rest, NEW tenth, NEW unit,
         whole = a \div 100, rest = a % 100, tenth = rest \div 10, unit = a % 10
  PROVE  /\ whole \in Nat /\ tenth \in 0 .. 9 /\ unit \in 0 .. 9
         /\ a = 100 * whole + 10 * tenth + unit
         /\ rest = 0 <=> tenth = 0 /\ unit = 0
<1>1. whole \in Nat /\ rest \in 0 .. 99 /\ a = 100 * whole + rest
  OBVIOUS
<1>2. unit = rest % 10
  OBVIOUS
<1>3. tenth \in 0 .. 9 /\ unit \in 0 .. 9 /\ rest = 10 * tenth + unit
  BY <1>1, <1>2
<1> QED
  BY <1>1, <1>3

LEMMA SameDigits ==
  ASSUME NEW s \in Int, NEW a \in Nat, a = IF s < 0 THEN - s ELSE s
  PROVE  /\ s % 10 = 0 <=> a % 10 = 0
         /\ s % 100 = 0 <=> a % 100 = 0
<1>1. s = a \/ s = - a
  OBVIOUS
<1> QED
  BY <1>1

\* The decimals behind the whole part.
LEMMA Behind ==
  ASSUME NEW S, NEW w \in S, NEW t \in S, NEW u \in S
  PROVE  /\ <<w>> \o << >> = <<w>>
         /\ <<w>> \o <<t>> = <<w, t>>
         /\ <<w>> \o <<t, u>> = <<w, t, u>>
<1> DEFINE one == <<w>>  two == <<t>>  more == <<t, u>>
           a == <<w, t>>  b == <<w, t, u>>
<1>1. /\ one \in Seq(S) /\ Len(one) = 1 /\ one[1] = w
      /\ two \in Seq(S) /\ Len(two) = 1 /\ two[1] = t
  OBVIOUS
<1>2. more \in Seq(S) /\ Len(more) = 2 /\ more[1] = t /\ more[2] = u
  OBVIOUS
<1>3. a \in Seq(S) /\ Len(a) = 2 /\ a[1] = w /\ a[2] = t
  OBVIOUS
<1>4. b \in Seq(S) /\ Len(b) = 3 /\ b[1] = w /\ b[2] = t /\ b[3] = u
  OBVIOUS
<1> HIDE DEF one, two, more, a, b
<1>5. one \o << >> = one
  BY <1>1, ConcatEmptySeq
<1>6. one \o two = a
  <2>1. Len(one) + Len(two) = 2
    BY <1>1
  <2>2. /\ one \o two \in Seq(S) /\ Len(one \o two) = 2
        /\ \A i \in 1 .. Len(one) + Len(two) :
             (one \o two)[i] = IF i <= Len(one) THEN one[i] ELSE two[i - Len(one)]
    BY <1>1, <2>1, ConcatProperties
  <2>3. \A i \in 1 .. Len(one \o two) : (one \o two)[i] = a[i]
    BY <1>1, <1>3, <2>1, <2>2
  <2>4. Len(one \o two) = Len(a)
    BY <1>3, <2>2
  <2> QED
    BY <1>3, <2>2, <2>3, <2>4, SeqEqual
<1>7. one \o more = b
  <2>1. Len(one) + Len(more) = 3
    BY <1>1, <1>2
  <2>2. /\ one \o more \in Seq(S) /\ Len(one \o more) = 3
        /\ \A i \in 1 .. Len(one) + Len(more) :
             (one \o more)[i] = IF i <= Len(one) THEN one[i] ELSE more[i - Len(one)]
    BY <1>1, <1>2, <2>1, ConcatProperties
  <2>3. \A i \in 1 .. Len(one \o more) : (one \o more)[i] = b[i]
    BY <1>1, <1>2, <1>4, <2>1, <2>2
  <2>4. Len(one \o more) = Len(b)
    BY <1>4, <2>2
  <2> QED
    BY <1>4, <2>2, <2>3, <2>4, SeqEqual
<1> QED
  BY <1>5, <1>6, <1>7 DEF one, two, more, a, b

\* Any score at all is shown as the number it is, in the digits of the PHP
\* program unless it has exactly one decimal.
LEMMA EveryScore ==
  ASSUME score \in Int
  PROVE  Format!ShownExactly /\ Format!SameAsPhpButTenths
<1> DEFINE a == IF score < 0 THEN - score ELSE score
           whole == a \div 100
           rest == a % 100
           tenth == rest \div 10
           unit == a % 10
           decimals == IF rest = 0 THEN << >>
                       ELSE IF unit = 0 THEN <<tenth>> ELSE <<tenth, unit>>
           php == IF rest = 0 THEN << >> ELSE <<tenth, unit>>
           shown == [minus |-> score < 0, digits |-> <<whole>> \o decimals]
<1>1. Format!Shown = shown
  BY DEF Format!Shown, Format!FormatScore
<1>2. Format!PhpFormatScore = [minus |-> score < 0, digits |-> <<whole>> \o php]
  BY DEF Format!PhpFormatScore
<1>3. a \in Nat /\ score = IF score < 0 THEN - a ELSE a
  OBVIOUS
<1>4. (score % 10 = 0 <=> unit = 0) /\ (score % 100 = 0 <=> rest = 0)
  BY <1>3, SameDigits
<1> HIDE DEF a
<1>5. /\ whole \in Nat /\ tenth \in 0 .. 9 /\ unit \in 0 .. 9
      /\ a = 100 * whole + 10 * tenth + unit
      /\ rest = 0 <=> tenth = 0 /\ unit = 0
  BY <1>3, Digits
<1> HIDE DEF whole, rest, tenth, unit
<1>6. /\ <<whole>> \o << >> = <<whole>>
      /\ <<whole>> \o <<tenth>> = <<whole, tenth>>
      /\ <<whole>> \o <<tenth, unit>> = <<whole, tenth, unit>>
  <2>1. whole \in Nat /\ tenth \in Nat /\ unit \in Nat
    BY <1>5
  <2> QED
    BY <2>1, Behind
<1>7. shown.digits = IF rest = 0 THEN <<whole>>
                     ELSE IF unit = 0 THEN <<whole, tenth>> ELSE <<whole, tenth, unit>>
  BY <1>6
<1>8. Format!ShownExactly
  <2>1. shown.minus = (score < 0) /\ shown.digits # << >>
    BY <1>7
  <2>2. /\ shown.digits[1] = whole /\ 1 \in DOMAIN shown.digits
        /\ (IF 2 \in DOMAIN shown.digits THEN shown.digits[2] ELSE 0) = tenth
        /\ (IF 3 \in DOMAIN shown.digits THEN shown.digits[3] ELSE 0) = unit
    BY <1>5, <1>7
  <2> HIDE DEF shown
  <2>3. Format!ValueOf(shown) = IF score < 0 THEN - a ELSE a
    <3> DEFINE d == shown.digits
               two == IF 2 \in DOMAIN d THEN d[2] ELSE 0
               three == IF 3 \in DOMAIN d THEN d[3] ELSE 0
    <3>1. Format!ValueOf(shown) = IF shown.minus THEN - (100 * d[1] + 10 * two + three)
                                  ELSE 100 * d[1] + 10 * two + three
      BY <2>2 DEF Format!ValueOf
    <3>2. d[1] = whole /\ two = tenth /\ three = unit
      BY <2>2
    <3> HIDE DEF d, two, three
    <3> QED
      BY <1>5, <2>1, <3>1, <3>2
  <2> QED
    BY <1>1, <1>3, <2>1, <2>3 DEF Format!ShownExactly, Format!Dash
<1>9. Format!SameAsPhpButTenths
  <2>1. Format!PhpFormatScore.digits
          = IF rest = 0 THEN <<whole>> ELSE <<whole, tenth, unit>>
    BY <1>2, <1>6
  <2>2. Format!Shown = Format!PhpFormatScore
          <=> shown.digits = Format!PhpFormatScore.digits
    BY <1>1, <1>2
  <2> HIDE DEF shown
  <2>3. shown.digits = Format!PhpFormatScore.digits <=> (unit # 0 \/ rest = 0)
    BY <1>7, <2>1
  <2> QED
    BY <1>4, <2>2, <2>3 DEF Format!SameAsPhpButTenths
<1> QED
  BY <1>8, <1>9

\* Whatever score an administrator writes: the number in the cell is the
\* score, and it is written as the PHP program writes it but for the last zero
\* of a single decimal.
THEOREM ScoresShownRight == MCSpec => []ShownRight
<1> DEFINE Inv == turn = "score" => score \in Int
<1>1. MCInit => Inv
  BY DEF MCInit, Format!Init
<1>2. Inv /\ [MCNext]_all => Inv'
  <2> SUFFICES ASSUME Inv, [MCNext]_all, turn' = "score" PROVE score' \in Int
    OBVIOUS
  <2>1. CASE UNCHANGED all
    BY <2>1 DEF all
  <2>2. CASE MCNext
    BY <2>2 DEF MCNext, Format!Update
  <2> QED
    BY <2>1, <2>2
<1>3. Inv => ShownRight
  BY EveryScore DEF ShownRight
<1> QED
  BY <1>1, <1>2, <1>3, PTL DEF MCSpec

-----------------------------------------------------------------------------
(* The Range header: the loop invariants of parse_range_header, range_error, *)
(* coalesce_ranges and apply_ranges, and what they make of any header.       *)

\* The bytes of the first n ranges of s.
Bytes(s, n) == { b \in Int : \E i \in 1 .. n : s[i][1] <= b /\ b <= s[i][2] }

\* Every range of s lies inside a body of z bytes.
Inside(z, s) ==
  \A i \in 1 .. Len(s) : 0 <= s[i][1] /\ s[i][1] <= s[i][2] /\ s[i][2] <= z - 1

\* Between two ranges of s there is a gap, or they begin alike.
Apart(s) ==
  \A i, j \in 1 .. Len(s) :
    i < j => \/ s[i][2] + 1 < s[j][1]
             \/ s[i][1] = s[j][1] /\ s[i][2] <= s[j][2]

\* What the loop of coalesce_ranges has made of the first n - 1 ranges of s.
Merging(z, s, n, c) ==
  /\ c \in Seq(Int \X Int)
  /\ Inside(z, c) /\ Apart(c)
  /\ Bytes(c, Len(c)) = Bytes(s, n - 1)
  /\ c # << >> => \A i \in n .. Len(s) : c[Len(c)][1] <= s[i][1]

AllWanted == UNION { Wanted(asked[i]) : i \in DOMAIN asked }

\* The loop of range_error: what is behind it is turned round, and fits.
Checking ==
  /\ Len(ranges) = Len(asked) /\ next <= Len(asked) + 1
  /\ \A i \in 1 .. Len(asked) :
       /\ ~ Malformed(asked[i])
       /\ i < next => ranges[i] = Normal(asked[i]) /\ Fits(ranges[i])
       /\ i >= next => ranges[i] = asked[i]

\* All that is asked for is in the ranges, until the parts are made of them.
Held == Inside(size, ranges) /\ Bytes(ranges, Len(ranges)) = AllWanted

\* The inductive invariant of the part "range": what each stage may rely on.
RangesInv ==
  /\ RangesTypeOK
  /\ stage = "parse" => next = 1 /\ overlaps = 0
  /\ stage = "check" => Checking
  /\ stage \in {"parse", "check", "sort"} => coalesced = << >>
  /\ stage \in {"sort", "coalesce", "apply", "206"} => Held
  /\ stage = "coalesce" =>
       Ascending(ranges) /\ next <= Len(ranges) + 1 /\ Merging(size, ranges, next, coalesced)
  /\ stage \in {"apply", "206"} => Apart(ranges)
  /\ parts = IF stage = "206" THEN [i \in 1 .. Len(ranges) |-> OffsetAndLength(ranges[i])]
             ELSE << >>
  /\ RefusedForAReason

\* What a range asks for, once it is turned round and fits.
LEMMA FitsAsWanted ==
  ASSUME size \in Nat, NEW r \in (Nat \cup {-1}) \X (Nat \cup {-1}), ~ Malformed(r),
         Fits(Normal(r))
  PROVE  Wanted(r) = { b \in Int : Normal(r)[1] <= b /\ b <= Normal(r)[2] }
<1> DEFINE f == r[1]  l == r[2]
<1>1. f \in Nat \cup {-1} /\ l \in Nat \cup {-1}
  OBVIOUS
<1>2. ~ (f = -1 /\ l = -1) /\ (f # -1 /\ l # -1 => f <= l)
  BY <1>1 DEF Malformed
<1>3. Normal(r)[1] = IF f = -1 THEN size - l ELSE f
  BY DEF Normal
<1>4. Normal(r)[2] = IF f = -1 \/ l = -1 \/ l >= size THEN size - 1 ELSE l
  BY DEF Normal
<1>5. 0 <= Normal(r)[1] /\ Normal(r)[1] <= Normal(r)[2] /\ Normal(r)[2] <= size - 1
  BY DEF Fits
<1>6. Wanted(r) = { b \in 0 .. size - 1 :
                      IF f = -1 THEN b >= size - l
                      ELSE b >= f /\ (l = -1 \/ b <= l) }
  BY DEF Wanted
<1> DEFINE x == Normal(r)[1]  y == Normal(r)[2]
<1> HIDE DEF f, l, x, y
<1>7. ASSUME NEW b \in Int
      PROVE  x <= b /\ b <= y <=>
               b \in 0 .. size - 1 /\ IF f = -1 THEN b >= size - l
                                      ELSE b >= f /\ (l = -1 \/ b <= l)
  BY <1>1, <1>2, <1>3, <1>4, <1>5 DEF x, y
<1> QED
  BY <1>6, <1>7 DEF x, y

\* One that does not fit asks for nothing, or for more than there is.
LEMMA UnfitForAReason ==
  ASSUME size \in Nat, NEW r \in (Nat \cup {-1}) \X (Nat \cup {-1}), ~ Malformed(r),
         ~ Fits(Normal(r))
  PROVE  Wanted(r) = {} \/ (r[1] = -1 /\ r[2] > size)
<1> DEFINE f == r[1]  l == r[2]
<1>1. f \in Nat \cup {-1} /\ l \in Nat \cup {-1}
  OBVIOUS
<1>2. ~ (f = -1 /\ l = -1) /\ (f # -1 /\ l # -1 => f <= l)
  BY <1>1 DEF Malformed
<1>3. Normal(r)[1] = IF f = -1 THEN size - l ELSE f
  BY DEF Normal
<1>4. Normal(r)[2] = IF f = -1 \/ l = -1 \/ l >= size THEN size - 1 ELSE l
  BY DEF Normal
<1>5. ~ (0 <= Normal(r)[1] /\ Normal(r)[1] <= Normal(r)[2] /\ Normal(r)[2] <= size - 1)
  BY DEF Fits
<1>6. Wanted(r) = { b \in 0 .. size - 1 :
                      IF f = -1 THEN b >= size - l
                      ELSE b >= f /\ (l = -1 \/ b <= l) }
  BY DEF Wanted
<1> DEFINE x == Normal(r)[1]  y == Normal(r)[2]
<1> HIDE DEF f, l, x, y
<1>7. ASSUME ~ (f = -1 /\ l > size), NEW b \in 0 .. size - 1,
             IF f = -1 THEN b >= size - l ELSE b >= f /\ (l = -1 \/ b <= l)
      PROVE  FALSE
  BY <1>1, <1>2, <1>3, <1>4, <1>5, <1>7 DEF x, y
<1> QED
  BY <1>6, <1>7 DEF f, l

LEMMA NormalType ==
  ASSUME size \in Nat, NEW r \in (Nat \cup {-1}) \X (Nat \cup {-1})
  PROVE  Normal(r) \in Int \X Int
<1>1. r[1] \in Int /\ r[2] \in Int
  OBVIOUS
<1> DEFINE f == r[1]  l == r[2]
           x == IF f = -1 THEN size - l ELSE f
           y == IF f = -1 \/ l = -1 \/ l >= size THEN size - 1 ELSE l
<1>2. Normal(r) = <<x, y>>
  BY DEF Normal
<1>3. x \in Int /\ y \in Int
  BY <1>1
<1> QED
  BY <1>2, <1>3

IsPermutation(p, n) ==
  p \in [1 .. n -> 1 .. n] /\ \A i, j \in 1 .. n : p[i] = p[j] => i = j

\* One holds what the other holds.
SameElements(t, s) ==
  /\ Len(t) = Len(s)
  /\ \A i \in 1 .. Len(s) : \E j \in 1 .. Len(s) : t[i] = s[j]
  /\ \A j \in 1 .. Len(s) : \E i \in 1 .. Len(s) : t[i] = s[j]

\* A permutation of a sequence has the same elements.
LEMMA Permuted ==
  ASSUME NEW s, NEW t, NEW n \in Nat, Len(s) = n, Len(t) = n,
         NEW p, IsPermutation(p, n),
         \A i \in 1 .. n : t[i] = s[p[i]]
  PROVE  SameElements(t, s)
<1> DEFINE D == 1 .. n
<1>1. IsFiniteSet(D)
  <2>1. n \in Int /\ 1 \in Int
    OBVIOUS
  <2> QED
    BY <2>1, FS_Interval
<1>2. p \in [D -> D] /\ \A i, j \in D : p[i] = p[j] => i = j
  BY DEF IsPermutation
<1>3. \A i \in D : t[i] = s[p[i]]
  OBVIOUS
<1> HIDE DEF D
<1>4. p \in Injection(D, D)
  BY <1>2, Fun_IsInj
<1>5. p \in Surjection(D, D)
  BY <1>1, <1>4, FS_Injection
<1>6. \A j \in D : \E i \in D : p[i] = j
  BY <1>5 DEF Surjection
<1>7. \A i \in D : \E j \in D : t[i] = s[j]
  BY <1>2, <1>3
<1>8. \A j \in D : \E i \in D : t[i] = s[j]
  BY <1>3, <1>6
<1> QED
  BY <1>7, <1>8 DEF D, SameElements

\* One turn of the loop of coalesce_ranges.
LEMMA Merges ==
  ASSUME NEW z \in Nat, NEW s \in Seq(Int \X Int), Inside(z, s), Ascending(s),
         NEW n \in 1 .. Len(s), NEW c, Merging(z, s, n, c)
  PROVE  LET r == s[n]
             m == Len(c)
         IN  Merging(z, s, n + 1,
               IF m > 0 /\ r[1] <= c[m][2] + 1 /\ r # c[m]
               THEN [c EXCEPT ![m] = Join(@, r)]
               ELSE Append(c, r))
<1> DEFINE r == s[n]
           m == Len(c)
           a == r[1]
           b == r[2]
<1>1. /\ c \in Seq(Int \X Int) /\ m \in Nat /\ DOMAIN c = 1 .. m
      /\ \A i \in 1 .. m : c[i] \in Int \X Int /\ c[i][1] \in Int /\ c[i][2] \in Int
  <2>1. c \in Seq(Int \X Int) /\ m \in Nat /\ DOMAIN c = 1 .. m
    BY LenProperties DEF Merging
  <2>2. \A i \in 1 .. m : c[i] \in Int \X Int
    BY <2>1, ElementOfSeq
  <2> QED
    BY <2>1, <2>2
<1>2. /\ r \in Int \X Int /\ r = <<a, b>> /\ a \in Int /\ b \in Int
      /\ 0 <= a /\ a <= b /\ b <= z - 1
  BY DEF Inside
<1>3. \A i \in 1 .. m : 0 <= c[i][1] /\ c[i][1] <= c[i][2] /\ c[i][2] <= z - 1
  BY DEF Merging, Inside
<1>4. \A i, j \in 1 .. m :
        i < j => c[i][2] + 1 < c[j][1] \/ (c[i][1] = c[j][1] /\ c[i][2] <= c[j][2])
  BY DEF Merging, Apart
<1>5. \A x \in Int : (\E i \in 1 .. m : c[i][1] <= x /\ x <= c[i][2])
                       <=> (\E i \in 1 .. n - 1 : s[i][1] <= x /\ x <= s[i][2])
  BY DEF Merging, Bytes
<1>6. m > 0 => c[m][1] <= a
  <2>1. m > 0 => c # << >>
    BY <1>1
  <2>2. n \in n .. Len(s)
    OBVIOUS
  <2>3. c # << >> => \A i \in n .. Len(s) : c[Len(c)][1] <= s[i][1]
    BY DEF Merging
  <2> QED
    BY <2>1, <2>2, <2>3
<1>7. \A i \in n + 1 .. Len(s) : s[i][1] \in Int /\ a <= s[i][1]
  <2> TAKE i \in n + 1 .. Len(s)
  <2>1. n \in 1 .. Len(s) /\ i \in 1 .. Len(s) /\ n < i /\ DOMAIN s = 1 .. Len(s)
    OBVIOUS
  <2>2. s[n][1] <= s[i][1]
    BY <2>1 DEF Ascending
  <2>3. s[i] \in Int \X Int
    BY <2>1, ElementOfSeq
  <2> QED
    BY <2>2, <2>3
<1>8. \A x \in Int : (\E i \in 1 .. (n + 1) - 1 : s[i][1] <= x /\ x <= s[i][2])
        <=> (\E i \in 1 .. m : c[i][1] <= x /\ x <= c[i][2]) \/ (a <= x /\ x <= b)
  <2>1. 1 .. (n + 1) - 1 = (1 .. n - 1) \cup {n}
    OBVIOUS
  <2> HIDE DEF m
  <2> QED
    BY <1>5, <2>1
<1>9. CASE m > 0 /\ a <= c[m][2] + 1 /\ r # c[m]
  <2> DEFINE e == IF b > c[m][2] THEN b ELSE c[m][2]
             f == c[m][1]
             d == [c EXCEPT ![m] = Join(@, r)]
  <2>0. m \in 1 .. m
    BY <1>1, <1>9
  <2>1. /\ e \in Int /\ c[m][2] <= e /\ b <= e /\ f <= e /\ (e = b \/ e = c[m][2])
        /\ \A x \in Int : (f <= x /\ x <= e)
                             <=> (f <= x /\ x <= c[m][2]) \/ (a <= x /\ x <= b)
        /\ f \in Int /\ f <= a /\ e <= z - 1
    <3> DEFINE y == c[m][2]
    <3>1. f \in Int /\ y \in Int /\ f <= y /\ y <= z - 1
      BY <1>1, <1>3, <2>0
    <3>2. f <= a /\ a <= y + 1
      BY <1>6, <1>9
    <3>3. e = IF b > y THEN b ELSE y
      OBVIOUS
    <3> HIDE DEF e, f, y, a, b, m
    <3>4. a \in Int /\ b \in Int /\ a <= b /\ b <= z - 1
      BY <1>2
    <3>5. e \in Int /\ y <= e /\ b <= e /\ f <= e /\ (e = b \/ e = y)
      BY <3>1, <3>3, <3>4
    <3>6. \A x \in Int : (f <= x /\ x <= e) <=> (f <= x /\ x <= y) \/ (a <= x /\ x <= b)
      BY <3>1, <3>2, <3>4, <3>5
    <3>7. e <= z - 1
      BY <3>1, <3>4, <3>5
    <3> QED
      BY <3>1, <3>2, <3>5, <3>6, <3>7 DEF y
  <2>2. d[m] = <<f, e>> /\ \A i \in 1 .. m : i # m => d[i] = c[i]
    BY <1>1, <2>0 DEF Join
  <2>3. d \in Seq(Int \X Int) /\ Len(d) = m
    <3>1. d = [i \in 1 .. m |-> IF i = m THEN <<f, e>> ELSE c[i]]
      BY <1>1, <2>0 DEF Join
    <3>2. <<f, e>> \in Int \X Int
      BY <2>1
    <3> DEFINE P == Int \X Int
               g == <<f, e>>
    <3>3. g \in P /\ \A i \in 1 .. m : c[i] \in P
      BY <1>1, <3>2
    <3>4. d = [i \in 1 .. m |-> IF i = m THEN g ELSE c[i]]
      BY <3>1
    <3> HIDE DEF d, e, f, m, g, P
    <3>5. d \in Seq(P) /\ Len(d) = m
      BY <1>1, <3>3, <3>4
    <3> QED
      BY <3>5 DEF P
  <2> HIDE DEF d, e, r, a, b, m
  <2>4. d[m][1] = f /\ d[m][2] = e
    BY <2>2
  <2>5. Inside(z, d)
    BY <1>3, <2>0, <2>1, <2>2, <2>3, <2>4 DEF Inside
  <2>6. Apart(d)
    <3> SUFFICES ASSUME NEW i \in 1 .. m, NEW j \in 1 .. m, i < j
                 PROVE  d[i][2] + 1 < d[j][1] \/ (d[i][1] = d[j][1] /\ d[i][2] <= d[j][2])
      BY <2>3 DEF Apart
    <3>1. i # m /\ d[i] = c[i]
      <4>1. i # m
        BY <1>1
      <4> QED
        BY <2>2, <4>1
    <3>2. c[i][2] + 1 < c[j][1] \/ (c[i][1] = c[j][1] /\ c[i][2] <= c[j][2])
      BY <1>4
    <3>3. CASE j = m
      <4>1. d[j][1] = f /\ d[j][2] = e /\ d[i] = c[i]
        BY <2>4, <3>1, <3>3
      <4> DEFINE x == c[i][2]  y == c[m][2]
      <4>2. x \in Int /\ y \in Int /\ y <= e /\ e \in Int
        BY <1>1, <2>0, <2>1
      <4>3. (x + 1 < f) \/ (c[i][1] = f /\ x <= y)
        BY <3>2, <3>3 DEF f
      <4> HIDE DEF x, y
      <4>4. (x + 1 < f) \/ (c[i][1] = f /\ x <= e)
        BY <4>2, <4>3
      <4> QED
        BY <4>1, <4>4 DEF x
    <3>4. CASE j # m
      BY <2>2, <3>1, <3>2, <3>4
    <3> QED
      BY <3>3, <3>4
  <2>7. Bytes(d, Len(d)) = Bytes(s, (n + 1) - 1)
    <3>2. \A x \in Int : (\E i \in 1 .. m : d[i][1] <= x /\ x <= d[i][2])
            <=> (\E i \in 1 .. m : c[i][1] <= x /\ x <= c[i][2]) \/ (a <= x /\ x <= b)
      BY <2>0, <2>1, <2>2, <2>4 DEF f
    <3> QED
      BY <1>8, <2>3, <3>2 DEF Bytes
  <2>8. \A i \in n + 1 .. Len(s) : d[Len(d)][1] <= s[i][1]
    <3>1. d[Len(d)][1] = f
      BY <2>3, <2>4
    <3> HIDE DEF f
    <3>2. \A i \in n + 1 .. Len(s) : f <= s[i][1]
      <4> TAKE i \in n + 1 .. Len(s)
      <4> DEFINE x == s[i][1]
      <4>1. x \in Int /\ a <= x
        BY <1>7
      <4> HIDE DEF x
      <4>2. f <= x
        BY <1>2, <2>1, <4>1
      <4> QED
        BY <4>2 DEF x
    <3> QED
      BY <3>1, <3>2
  <2>9. Merging(z, s, n + 1, d)
    BY <2>3, <2>5, <2>6, <2>7, <2>8 DEF Merging
  <2> QED
    BY <1>9, <2>9 DEF d, r, a, m
<1>10. CASE ~ (m > 0 /\ a <= c[m][2] + 1 /\ r # c[m])
  <2> DEFINE d == Append(c, r)
  <2>1. /\ d \in Seq(Int \X Int) /\ Len(d) = m + 1 /\ d[m + 1] = r
        /\ \A i \in 1 .. m : d[i] = c[i]
    BY <1>1, <1>2, AppendProperties
  <2>2. m > 0 => m \in 1 .. m
    BY <1>1
  <2> HIDE DEF d, r, a, b, m
  <2>3. d[m + 1][1] = a /\ d[m + 1][2] = b
    BY <1>2, <2>1
  <2>4. \A i \in 1 .. m + 1 : i = m + 1 \/ i \in 1 .. m
    BY <1>1
  <2>5. Inside(z, d)
    BY <1>2, <1>3, <2>1, <2>3, <2>4 DEF Inside
  <2>6. Apart(d)
    <3> SUFFICES ASSUME NEW i \in 1 .. m + 1, NEW j \in 1 .. m + 1, i < j
                 PROVE  d[i][2] + 1 < d[j][1] \/ (d[i][1] = d[j][1] /\ d[i][2] <= d[j][2])
      BY <2>1 DEF Apart
    <3>1. i \in 1 .. m /\ m > 0
      <4>1. m \in Nat
        BY <1>1
      <4> QED
        BY <4>1
    <3>2. CASE j = m + 1
      <4>1. (i = m) \/ (c[i][2] + 1 < c[m][1]) \/ (c[i][1] = c[m][1] /\ c[i][2] <= c[m][2])
        <5>1. i = m \/ i < m
          BY <1>1, <3>1
        <5>2. m \in 1 .. m
          BY <2>2, <3>1
        <5> QED
          BY <1>4, <3>1, <5>1, <5>2
      <4>2. (c[m][1] = a /\ c[m][2] = b) \/ (c[m][2] + 1 < a)
        <5>1. CASE c[m] = r
          BY <1>2, <5>1
        <5>2. CASE c[m] # r
          <6>1. ~ (a <= c[m][2] + 1)
            BY <1>10, <3>1, <5>2
          <6>2. c[m][2] \in Int
            BY <1>1, <2>2, <3>1
          <6> DEFINE y == c[m][2]
          <6>3. y \in Int /\ ~ (a <= y + 1)
            BY <6>1, <6>2
          <6> HIDE DEF y
          <6>4. y + 1 < a
            BY <1>2, <6>3
          <6> QED
            BY <6>4 DEF y
        <5> QED
          BY <5>1, <5>2
      <4> DEFINE x1 == c[i][1]  x2 == c[i][2]  y1 == c[m][1]  y2 == c[m][2]
      <4>3. x1 \in Int /\ x2 \in Int /\ y1 \in Int /\ y2 \in Int /\ y1 <= y2
        BY <1>1, <1>3, <2>2, <3>1
      <4>4. (x1 = y1 /\ x2 = y2) \/ (x2 + 1 < y1) \/ (x1 = y1 /\ x2 <= y2)
        BY <4>1
      <4>5. d[i] = c[i] /\ d[j][1] = a /\ d[j][2] = b
        BY <2>1, <2>3, <3>1, <3>2
      <4>6. (y1 = a /\ y2 = b) \/ (y2 + 1 < a)
        BY <4>2
      <4> HIDE DEF x1, x2, y1, y2
      <4>7. (x2 + 1 < a) \/ (x1 = a /\ x2 <= b)
        BY <1>2, <4>3, <4>4, <4>6
      <4> QED
        BY <4>5, <4>7 DEF x1, x2
    <3>3. CASE j # m + 1
      <4>1. j \in 1 .. m
        BY <2>4, <3>3
      <4>2. c[i][2] + 1 < c[j][1] \/ (c[i][1] = c[j][1] /\ c[i][2] <= c[j][2])
        BY <1>4, <3>1, <4>1
      <4>3. d[i] = c[i] /\ d[j] = c[j]
        BY <2>1, <3>1, <4>1
      <4> QED
        BY <4>2, <4>3
    <3> QED
      BY <3>2, <3>3
  <2>7. Bytes(d, Len(d)) = Bytes(s, (n + 1) - 1)
    <3>1. m + 1 \in 1 .. m + 1 /\ \A i \in 1 .. m : i \in 1 .. m + 1
      BY <1>1
    <3>2. \A x \in Int : (\E i \in 1 .. m + 1 : d[i][1] <= x /\ x <= d[i][2])
            <=> (\E i \in 1 .. m : c[i][1] <= x /\ x <= c[i][2]) \/ (a <= x /\ x <= b)
      BY <2>1, <2>3, <2>4, <3>1
    <3> QED
      BY <1>8, <2>1, <3>2 DEF Bytes
  <2>8. \A i \in n + 1 .. Len(s) : d[Len(d)][1] <= s[i][1]
    BY <1>7, <2>1, <2>3
  <2>9. Merging(z, s, n + 1, d)
    BY <2>1, <2>5, <2>6, <2>7, <2>8 DEF Merging
  <2> QED
    BY <1>10, <2>9 DEF d, r, a, m
<1> QED
  BY <1>9, <1>10

\* The ranges as written are pairs of numbers or -1.
LEMMA AskedTypes ==
  ASSUME asked \in Headers
  PROVE  /\ asked \in Seq(Int \X Int) /\ asked # << >>
         /\ \A i \in 1 .. Len(asked) : asked[i] \in (Nat \cup {-1}) \X (Nat \cup {-1})
<1>1. PICK n \in 1 .. MaxAsked : asked \in [1 .. n -> Specs]
  BY DEF Headers
<1>2. n \in Nat /\ n >= 1
  BY <1>1, RangesAssumption
<1>3. asked \in Seq(Specs) /\ Len(asked) = n
  BY <1>1, <1>2
<1>4. (Nat \cup {-1}) \X (Nat \cup {-1}) \subseteq Int \X Int
  OBVIOUS
<1> QED
  BY <1>1, <1>2, <1>3, <1>4, RangesAssumption

LEMMA RangesInitially == RangesInit => RangesInv
<1> SUFFICES ASSUME RangesInit PROVE RangesInv
  OBVIOUS
<1>1. << >> \in Seq(Int \X Int)
  OBVIOUS
<1> QED
  BY <1>1 DEF RangesInit, RangesInv, RangesTypeOK, RefusedForAReason

\* What the loop of range_error refuses, it refuses for a reason.
LEMMA CheckRefuses ==
  ASSUME RangesTypeOK, Checking, next <= Len(ranges),
         LET r == Normal(ranges[next])
             more == IF \E i \in 1 .. next - 1 : Overlap(r, ranges[i]) THEN 1 ELSE 0
         IN  ~ Fits(r) \/ overlaps + more > 2
  PROVE  \/ \E i \in DOMAIN asked :
              Wanted(asked[i]) = {} \/ (asked[i][1] = -1 /\ asked[i][2] > size)
         \/ \E i, j \in DOMAIN asked :
              i # j /\ Wanted(asked[i]) \cap Wanted(asked[j]) # {}
<1> DEFINE r == Normal(asked[next])
<1>1. /\ size \in Nat /\ asked \in Headers /\ next \in Nat \ {0} /\ overlaps \in 0 .. 2
      /\ ranges \in Seq(Int \X Int)
  BY RangesAssumption DEF RangesTypeOK
<1>2. next \in 1 .. Len(asked) /\ DOMAIN asked = 1 .. Len(asked) /\ Len(asked) \in Nat
  BY <1>1, AskedTypes DEF Checking
<1>3. ranges[next] = asked[next] /\ ~ Malformed(asked[next])
      /\ asked[next] \in (Nat \cup {-1}) \X (Nat \cup {-1})
  BY <1>1, <1>2, AskedTypes DEF Checking
<1>4. CASE ~ Fits(r)
  BY <1>1, <1>2, <1>3, <1>4, UnfitForAReason
<1>5. CASE Fits(r) /\ \E i \in 1 .. next - 1 : Overlap(r, ranges[i])
  <2>1. PICK i \in 1 .. next - 1 : Overlap(r, ranges[i])
    BY <1>5
  <2>2. i \in 1 .. Len(asked) /\ i < next /\ i # next
    BY <1>1, <1>2, <2>1
  <2>3. /\ ranges[i] = Normal(asked[i]) /\ Fits(ranges[i]) /\ ~ Malformed(asked[i])
        /\ asked[i] \in (Nat \cup {-1}) \X (Nat \cup {-1})
    BY <1>1, <2>2, AskedTypes DEF Checking
  <2> DEFINE s == Normal(asked[i])
  <2>4. r[1] \in Int /\ r[2] \in Int /\ s[1] \in Int /\ s[2] \in Int
    <3>1. r \in Int \X Int /\ s \in Int \X Int
      BY <1>1, <1>3, <2>3, NormalType
    <3> HIDE DEF r, s
    <3> QED
      BY <3>1
  <2>5. /\ Wanted(asked[next]) = { b \in Int : r[1] <= b /\ b <= r[2] }
        /\ Wanted(asked[i]) = { b \in Int : s[1] <= b /\ b <= s[2] }
    BY <1>1, <1>3, <1>5, <2>3, FitsAsWanted
  <2>6. r[1] <= r[2] /\ s[1] <= s[2] /\ ~ (r[2] < s[1] \/ r[1] > s[2])
    BY <1>5, <2>1, <2>3 DEF Fits, Overlap
  <2> DEFINE b == IF r[1] <= s[1] THEN s[1] ELSE r[1]
  <2> HIDE DEF r, s
  <2>7. b \in Int /\ r[1] <= b /\ b <= r[2] /\ s[1] <= b /\ b <= s[2]
    BY <2>4, <2>6
  <2> HIDE DEF b
  <2>8. b \in Wanted(asked[i]) \cap Wanted(asked[next])
    BY <2>5, <2>7
  <2>9. next \in DOMAIN asked /\ i \in DOMAIN asked /\ i # next
    BY <1>2, <2>2
  <2> QED
    BY <2>8, <2>9
<1>6. ~ (Fits(r) /\ ~ \E i \in 1 .. next - 1 : Overlap(r, ranges[i]))
  <2> SUFFICES ASSUME Fits(r), ~ \E i \in 1 .. next - 1 : Overlap(r, ranges[i])
               PROVE  FALSE
    OBVIOUS
  <2> DEFINE more == IF \E i \in 1 .. next - 1 : Overlap(r, ranges[i]) THEN 1 ELSE 0
  <2> HIDE DEF r
  <2>1. more = 0
    OBVIOUS
  <2> HIDE DEF more
  <2>2. overlaps + more > 2
    BY <1>3 DEF more, r
  <2> QED
    BY <1>1, <2>1, <2>2
<1> QED
  BY <1>4, <1>5, <1>6

\* After the loop of range_error every byte that is asked for is in the ranges.
LEMMA CheckedHolds ==
  ASSUME RangesTypeOK, Checking, next > Len(ranges)
  PROVE  Held
<1>1. /\ size \in Nat /\ asked \in Headers /\ next \in Nat \ {0}
      /\ ranges \in Seq(Int \X Int) /\ Len(asked) = Len(ranges)
  BY RangesAssumption DEF RangesTypeOK, Checking
<1>2. Len(asked) \in Nat /\ DOMAIN asked = 1 .. Len(asked)
  BY <1>1, AskedTypes
<1>3. \A i \in 1 .. Len(asked) :
        ranges[i] = Normal(asked[i]) /\ Fits(ranges[i]) /\ ~ Malformed(asked[i])
  BY <1>1, <1>2 DEF Checking
<1>4. Inside(size, ranges)
  BY <1>1, <1>3 DEF Inside, Fits
<1>5. ASSUME NEW i \in 1 .. Len(asked)
      PROVE  Wanted(asked[i]) = { b \in Int : ranges[i][1] <= b /\ b <= ranges[i][2] }
  <2>1. asked[i] \in (Nat \cup {-1}) \X (Nat \cup {-1})
    BY <1>1, AskedTypes
  <2> QED
    BY <1>1, <1>3, <2>1, FitsAsWanted
<1>6. Bytes(ranges, Len(ranges)) = AllWanted
  <2>1. \A b \in AllWanted : \E i \in 1 .. Len(asked) : b \in Wanted(asked[i])
    BY <1>2 DEF AllWanted
  <2>2. \A i \in 1 .. Len(asked) : Wanted(asked[i]) \subseteq AllWanted
    BY <1>2 DEF AllWanted
  <2> HIDE DEF AllWanted
  <2> QED
    BY <1>1, <1>5, <2>1, <2>2 DEF Bytes
<1> QED
  BY <1>4, <1>6 DEF Held

LEMMA ParseKept == RangesInv /\ Parse => RangesInv'
<1> SUFFICES ASSUME RangesInv, Parse PROVE RangesInv'
  OBVIOUS
<1>1. RangesTypeOK /\ stage = "parse" /\ next = 1 /\ overlaps = 0
      /\ coalesced = << >> /\ parts = << >>
  BY DEF RangesInv, Parse
<1>2. asked \in Seq(Int \X Int) /\ DOMAIN asked = 1 .. Len(asked) /\ Len(asked) \in Nat
      /\ Len(asked) >= 1
  BY <1>1, AskedTypes DEF RangesTypeOK
<1>3. asked' = asked /\ size' = size /\ next' = next /\ overlaps' = overlaps
      /\ coalesced' = coalesced /\ parts' = parts
  BY DEF Parse, Refuse
<1>4. CASE \E i \in DOMAIN asked : Malformed(asked[i])
  <2>1. stage' = "416" /\ ranges' = ranges
    BY <1>4 DEF Parse, Refuse
  <2>2. RefusedForAReason'
    BY <1>3, <1>4 DEF RefusedForAReason, Malformed
  <2> QED
    BY <1>1, <1>3, <2>1, <2>2 DEF RangesInv, RangesTypeOK
<1>5. CASE ~ \E i \in DOMAIN asked : Malformed(asked[i])
  <2>1. stage' = "check" /\ ranges' = asked
    BY <1>5 DEF Parse
  <2>2. Checking'
    BY <1>1, <1>2, <1>3, <1>5, <2>1 DEF Checking, Malformed
  <2> QED
    BY <1>1, <1>2, <1>3, <2>1, <2>2 DEF RangesInv, RangesTypeOK, RefusedForAReason
<1> QED
  BY <1>4, <1>5

LEMMA RefuseKept ==
  RangesInv /\ (TooMany \/ (CheckOne /\ Refuse)) /\ RefusedForAReason' => RangesInv'
<1> SUFFICES ASSUME RangesInv, TooMany \/ CheckOne, Refuse, RefusedForAReason'
             PROVE  RangesInv'
  BY DEF TooMany
<1>1. RangesTypeOK /\ stage = "check" /\ coalesced = << >> /\ parts = << >>
  BY DEF RangesInv, TooMany, CheckOne
<1>2. stage' = "416" /\ UNCHANGED <<asked, size, ranges, next, overlaps, coalesced, parts>>
  BY DEF Refuse
<1> QED
  BY <1>1, <1>2 DEF RangesInv, RangesTypeOK

LEMMA TooManyKept == RangesInv /\ TooMany => RangesInv'
<1> SUFFICES ASSUME RangesInv, TooMany PROVE RefusedForAReason'
  BY RefuseKept
<1>1. Len(asked) > MaxRanges
  BY DEF RangesInv, TooMany, Checking
<1>2. asked' = asked
  BY DEF TooMany, Refuse
<1> QED
  BY <1>1, <1>2 DEF RefusedForAReason

LEMMA CheckOneKept == RangesInv /\ CheckOne => RangesInv'
<1> SUFFICES ASSUME RangesInv, CheckOne PROVE RangesInv'
  OBVIOUS
<1> DEFINE r == Normal(ranges[next])
           more == IF \E i \in 1 .. next - 1 : Overlap(r, ranges[i]) THEN 1 ELSE 0
<1>1. /\ RangesTypeOK /\ Checking /\ stage = "check" /\ next <= Len(ranges)
      /\ coalesced = << >> /\ parts = << >>
  BY DEF RangesInv, CheckOne
<1>2. /\ asked \in Headers /\ size \in Nat /\ next \in Nat \ {0} /\ overlaps \in 0 .. 2
      /\ ranges \in Seq(Int \X Int) /\ Len(ranges) = Len(asked)
  BY <1>1, RangesAssumption DEF RangesTypeOK, Checking
<1>3. asked' = asked /\ size' = size /\ coalesced' = coalesced /\ parts' = parts
  BY DEF CheckOne, Refuse
<1>4. CASE ~ Fits(r) \/ overlaps + more > 2
  <2>1. Refuse
    BY <1>4 DEF CheckOne
  <2>2. \/ \E i \in DOMAIN asked :
             Wanted(asked[i]) = {} \/ (asked[i][1] = -1 /\ asked[i][2] > size)
        \/ \E i, j \in DOMAIN asked :
             i # j /\ Wanted(asked[i]) \cap Wanted(asked[j]) # {}
    BY <1>1, <1>4, CheckRefuses
  <2>3. \A i \in DOMAIN asked : Wanted(asked[i])' = Wanted(asked[i])
    BY <1>3 DEF Wanted
  <2>4. RefusedForAReason'
    BY <1>3, <2>2, <2>3 DEF RefusedForAReason
  <2> QED
    BY <2>1, <2>4, RefuseKept
<1>5. CASE Fits(r) /\ ~ (overlaps + more > 2)
  <2>1. /\ ranges' = [ranges EXCEPT ![next] = r] /\ overlaps' = overlaps + more
        /\ next' = next + 1 /\ stage' = "check"
    BY <1>1, <1>5 DEF CheckOne
  <2>2. next \in 1 .. Len(asked) /\ Len(asked) \in Nat /\ DOMAIN asked = 1 .. Len(asked)
        /\ DOMAIN ranges = 1 .. Len(asked)
    BY <1>1, <1>2, AskedTypes
  <2>3. ranges[next] = asked[next] /\ asked[next] \in (Nat \cup {-1}) \X (Nat \cup {-1})
    BY <1>1, <1>2, <2>2, AskedTypes DEF Checking
  <2>4. r \in Int \X Int
    BY <1>2, <2>3, NormalType
  <2>5. overlaps' \in 0 .. 2
    BY <1>2, <1>5, <2>1
  <2>6. r = Normal(asked[next]) /\ Fits(r)
    BY <1>5, <2>3
  <2> HIDE DEF r
  <2>7. /\ ranges' \in Seq(Int \X Int) /\ Len(ranges') = Len(asked)
        /\ ranges'[next] = r /\ \A i \in 1 .. Len(asked) : i # next => ranges'[i] = ranges[i]
    <3>1. ranges' = [i \in 1 .. Len(asked) |-> IF i = next THEN r ELSE ranges[i]]
      BY <2>1, <2>2
    <3>2. \A i \in 1 .. Len(asked) : ranges[i] \in Int \X Int
      BY <1>2, <2>2
    <3> QED
      BY <2>2, <2>4, <3>1, <3>2
  <2>8. \A i \in 1 .. Len(asked) :
          /\ ~ Malformed(asked[i])
          /\ i < next + 1 => ranges'[i] = Normal(asked[i]) /\ Fits(ranges'[i])
          /\ i >= next + 1 => ranges'[i] = asked[i]
    <3> SUFFICES ASSUME NEW i \in 1 .. Len(asked)
                 PROVE  /\ ~ Malformed(asked[i])
                        /\ i < next + 1 => ranges'[i] = Normal(asked[i]) /\ Fits(ranges'[i])
                        /\ i >= next + 1 => ranges'[i] = asked[i]
      OBVIOUS
    <3>1. /\ ~ Malformed(asked[i])
          /\ i < next => ranges[i] = Normal(asked[i]) /\ Fits(ranges[i])
          /\ i >= next => ranges[i] = asked[i]
      BY <1>1 DEF Checking
    <3>2. CASE i = next
      BY <1>2, <2>6, <2>7, <3>1, <3>2
    <3>3. CASE i < next
      <4>1. ranges'[i] = ranges[i] /\ ~ (i >= next + 1)
        <5>1. i # next /\ ~ (i >= next + 1)
          BY <1>2, <2>2, <3>3
        <5> QED
          BY <2>7, <5>1
      <4> QED
        BY <3>1, <3>3, <4>1
    <3>4. CASE i > next
      <4>1. ranges'[i] = ranges[i] /\ ~ (i < next + 1) /\ i >= next
        <5>1. i # next /\ ~ (i < next + 1) /\ i >= next
          BY <1>2, <2>2, <3>4
        <5> QED
          BY <2>7, <5>1
      <4> QED
        BY <3>1, <4>1
    <3> QED
      BY <1>2, <3>2, <3>3, <3>4
  <2>9. Checking'
    <3>1. /\ \A x : Malformed(x)' = Malformed(x) /\ Normal(x)' = Normal(x)
          /\ \A i \in 1 .. Len(asked) : Fits(ranges[i])' = Fits(ranges'[i])
      BY <1>3 DEF Malformed, Normal, Fits
    <3>2. \A i \in 1 .. Len(asked) :
            /\ Malformed(asked[i])' = Malformed(asked[i])
            /\ Normal(asked[i])' = Normal(asked[i])
      BY <1>3 DEF Malformed, Normal
    <3> QED
      BY <1>2, <1>3, <2>1, <2>2, <2>7, <2>8, <3>1, <3>2 DEF Checking
  <2>10. RangesTypeOK'
    <3>1. next' \in Nat \ {0}
      BY <1>2, <2>1
    <3> QED
      BY <1>1, <1>3, <2>1, <2>5, <2>7, <3>1 DEF RangesTypeOK
  <2> HIDE DEF more
  <2> QED
    BY <1>1, <1>3, <2>1, <2>9, <2>10 DEF RangesInv, RefusedForAReason
<1> QED
  BY <1>4, <1>5

LEMMA AllWantedKept == asked' = asked /\ size' = size => AllWanted' = AllWanted
BY DEF AllWanted, Wanted

LEMMA CheckedKept == RangesInv /\ Checked => RangesInv'
<1> SUFFICES ASSUME RangesInv, Checked PROVE RangesInv'
  OBVIOUS
<1>1. /\ RangesTypeOK /\ Checking /\ stage = "check" /\ stage' = "sort"
      /\ coalesced = << >> /\ parts = << >> /\ next > Len(ranges)
      /\ UNCHANGED <<asked, size, ranges, next, overlaps, coalesced, parts>>
  BY DEF RangesInv, Checked
<1>2. Held'
  BY <1>1, CheckedHolds, AllWantedKept DEF Held
<1> QED
  BY <1>1, <1>2 DEF RangesInv, RangesTypeOK, RefusedForAReason

LEMMA SortKept == RangesInv /\ Sort => RangesInv'
<1> SUFFICES ASSUME RangesInv, Sort PROVE RangesInv'
  OBVIOUS
<1>1. /\ RangesTypeOK /\ Held /\ stage = "sort" /\ stage' = "coalesce" /\ next' = 1
      /\ coalesced = << >> /\ parts = << >>
      /\ UNCHANGED <<asked, size, overlaps, coalesced, parts>>
  BY DEF RangesInv, Sort
<1>2. PICK q \in [DOMAIN ranges -> DOMAIN ranges] :
        /\ \A i, j \in DOMAIN ranges : q[i] = q[j] => i = j
        /\ ranges' = [i \in DOMAIN ranges |-> ranges[q[i]]]
        /\ Ascending(ranges')
  BY DEF Sort
<1>3. /\ ranges \in Seq(Int \X Int) /\ size \in Nat
  BY <1>1, RangesAssumption DEF RangesTypeOK
<1>4. ranges' \in Seq(Int \X Int) /\ SameElements(ranges', ranges)
  <2> DEFINE P == Int \X Int
             n == Len(ranges)
             D == 1 .. n
  <2>1. ranges \in Seq(P) /\ DOMAIN ranges = D /\ n \in Nat
    BY <1>3
  <2>2. q \in [D -> D] /\ \A i, j \in D : q[i] = q[j] => i = j
    BY <1>2, <2>1
  <2>3. ranges' = [i \in D |-> ranges[q[i]]]
    BY <1>2, <2>1
  <2> HIDE DEF P
  <2>4. ranges' \in Seq(P) /\ Len(ranges') = n
        /\ \A i \in D : ranges'[i] = ranges[q[i]]
    <3>1. \A i \in D : q[i] \in D /\ ranges[q[i]] \in P
      BY <2>1, <2>2, ElementOfSeq
    <3> HIDE DEF n
    <3> QED
      BY <2>1, <2>3, <3>1
  <2>5. SameElements(ranges', ranges)
    <3> HIDE DEF n
    <3>1. Len(ranges) = n /\ n \in Nat
      BY <2>1 DEF n
    <3>2. IsPermutation(q, n)
      BY <2>2 DEF IsPermutation
    <3>3. PICK t : t = ranges'
      OBVIOUS
    <3>4. Len(t) = n /\ \A i \in 1 .. n : t[i] = ranges[q[i]]
      BY <2>4, <3>3
    <3>5. SameElements(t, ranges)
      BY <3>1, <3>2, <3>4, Permuted
    <3> QED
      BY <3>3, <3>5
  <2> QED
    BY <2>4, <2>5 DEF P
<1>5. Inside(size, ranges') /\ Bytes(ranges', Len(ranges')) = Bytes(ranges, Len(ranges))
  BY <1>1, <1>4 DEF Held, Inside, Bytes, SameElements
<1>6. Held'
  BY <1>1, <1>5, AllWantedKept DEF Held
<1>7. Merging(size, ranges', 1, << >>)
  <2>1. << >> \in Seq(Int \X Int) /\ Len(<< >>) = 0
    OBVIOUS
  <2>2. Bytes(<< >>, 0) = Bytes(ranges', 1 - 1)
    BY DEF Bytes
  <2> QED
    BY <2>1, <2>2 DEF Merging, Inside, Apart
<1>8. Len(ranges') \in Nat
  BY <1>4
<1> QED
  BY <1>1, <1>2, <1>4, <1>6, <1>7, <1>8
  DEF RangesInv, RangesTypeOK, RefusedForAReason, Ascending

LEMMA CoalesceOneKept == RangesInv /\ CoalesceOne => RangesInv'
<1> SUFFICES ASSUME RangesInv, CoalesceOne PROVE RangesInv'
  OBVIOUS
<1>1. /\ RangesTypeOK /\ Held /\ stage = "coalesce" /\ Ascending(ranges)
      /\ Merging(size, ranges, next, coalesced) /\ next <= Len(ranges) /\ parts = << >>
      /\ next' = next + 1 /\ UNCHANGED <<asked, size, stage, ranges, overlaps, parts>>
  BY DEF RangesInv, CoalesceOne
<1>2. /\ ranges \in Seq(Int \X Int) /\ size \in Nat /\ next \in 1 .. Len(ranges)
  BY <1>1, RangesAssumption DEF RangesTypeOK
<1>3. Merging(size, ranges, next + 1, coalesced')
  <2>1. Inside(size, ranges)
    BY <1>1 DEF Held
  <2> QED
    BY <1>1, <1>2, <2>1, Merges DEF CoalesceOne
<1>4. Merging(size, ranges, next, coalesced)'
  BY <1>1, <1>3
<1>5. Held'
  BY <1>1, AllWantedKept DEF Held
<1>6. coalesced' \in Seq(Int \X Int)
  BY <1>3 DEF Merging
<1>7. next' \in Nat \ {0} /\ next' <= Len(ranges) + 1
  BY <1>1, <1>2
<1> QED
  BY <1>1, <1>4, <1>5, <1>6, <1>7
  DEF RangesInv, RangesTypeOK, RefusedForAReason, Ascending

LEMMA CoalescedKept == RangesInv /\ Coalesced => RangesInv'
<1> SUFFICES ASSUME RangesInv, Coalesced PROVE RangesInv'
  OBVIOUS
<1>1. /\ RangesTypeOK /\ Held /\ stage = "coalesce" /\ stage' = "apply"
      /\ Merging(size, ranges, next, coalesced) /\ next > Len(ranges)
      /\ next <= Len(ranges) + 1 /\ parts = << >> /\ ranges' = coalesced
      /\ UNCHANGED <<asked, size, next, overlaps, coalesced, parts>>
  BY DEF RangesInv, Coalesced
<1>2. ranges \in Seq(Int \X Int) /\ next \in Nat /\ next - 1 = Len(ranges)
  BY <1>1 DEF RangesTypeOK
<1>3. /\ Inside(size, coalesced) /\ Apart(coalesced) /\ coalesced \in Seq(Int \X Int)
      /\ Bytes(coalesced, Len(coalesced)) = Bytes(ranges, Len(ranges))
  BY <1>1, <1>2 DEF Merging
<1>4. Held'
  BY <1>1, <1>3, AllWantedKept DEF Held
<1> QED
  BY <1>1, <1>3, <1>4 DEF RangesInv, RangesTypeOK, RefusedForAReason

LEMMA ApplyKept == RangesInv /\ Apply => RangesInv'
<1> SUFFICES ASSUME RangesInv, Apply PROVE RangesInv'
  OBVIOUS
<1>1. /\ RangesTypeOK /\ Held /\ stage = "apply" /\ stage' = "206" /\ Apart(ranges)
      /\ UNCHANGED <<asked, size, ranges, next, overlaps, coalesced>>
      /\ parts' = [i \in DOMAIN ranges |-> OffsetAndLength(ranges[i])]
  BY DEF RangesInv, Apply
<1>2. ranges \in Seq(Int \X Int) /\ DOMAIN ranges = 1 .. Len(ranges) /\ Len(ranges) \in Nat
  BY <1>1 DEF RangesTypeOK
<1>3. \A i \in 1 .. Len(ranges) : OffsetAndLength(ranges[i]) \in Int \X Int
  <2> TAKE i \in 1 .. Len(ranges)
  <2>1. ranges[i][1] \in Int /\ ranges[i][2] \in Int
    BY <1>2
  <2>2. ranges[i][2] - ranges[i][1] + 1 \in Int
    BY <2>1
  <2> QED
    BY <2>1, <2>2 DEF OffsetAndLength
<1>4. parts' \in Seq(Int \X Int)
  BY <1>1, <1>2, <1>3
<1>5. Held'
  BY <1>1, AllWantedKept DEF Held
<1>6. parts' = [i \in 1 .. Len(ranges') |-> OffsetAndLength(ranges'[i])]
  BY <1>1, <1>2
<1> QED
  BY <1>1, <1>4, <1>5, <1>6
  DEF RangesInv, RangesTypeOK, RefusedForAReason, OffsetAndLength

LEMMA RangesKept == RangesInv /\ RangesNext => RangesInv'
BY ParseKept, TooManyKept, CheckOneKept, CheckedKept, SortKept, CoalesceOneKept,
   CoalescedKept, ApplyKept DEF RangesNext

\* What the parts are, of ranges that hold what is asked for.
LEMMA PartsRight ==
  ASSUME RangesInv
  PROVE  PartsFit /\ ServedAsAsked /\ PartsInOrder /\ RefusedForAReason
<1>1. RefusedForAReason
  BY DEF RangesInv
<1>2. CASE stage # "206"
  <2>1. parts = << >>
    BY <1>2 DEF RangesInv
  <2> QED
    BY <1>1, <1>2, <2>1 DEF PartsFit, ServedAsAsked, PartsInOrder
<1>3. CASE stage = "206"
  <2>1. /\ parts = [i \in 1 .. Len(ranges) |-> OffsetAndLength(ranges[i])]
        /\ ranges \in Seq(Int \X Int) /\ Inside(size, ranges) /\ Apart(ranges)
        /\ Bytes(ranges, Len(ranges)) = AllWanted /\ size \in Nat
    BY <1>3, RangesAssumption DEF RangesInv, RangesTypeOK, Held
  <2> DEFINE n == Len(ranges)
  <2>2. DOMAIN parts = 1 .. n
    BY <2>1
  <2>3. \A i \in 1 .. n : /\ ranges[i][1] \in Int /\ ranges[i][2] \in Int
                          /\ 0 <= ranges[i][1] /\ ranges[i][1] <= ranges[i][2]
                          /\ ranges[i][2] <= size - 1
    BY <2>1 DEF Inside
  <2>4. \A i \in 1 .. n : /\ parts[i][1] = ranges[i][1]
                          /\ parts[i][2] = ranges[i][2] - ranges[i][1] + 1
    BY <2>1 DEF OffsetAndLength
  <2> HIDE DEF n
  <2>5. PartsFit
    <3> SUFFICES ASSUME NEW i \in 1 .. n
                 PROVE  /\ parts[i][1] >= 0 /\ parts[i][2] > 0
                        /\ parts[i][1] + parts[i][2] <= size
      BY <2>2 DEF PartsFit
    <3> DEFINE a == ranges[i][1]  b == ranges[i][2]
    <3>1. parts[i][1] = a /\ parts[i][2] = b - a + 1
      BY <2>4
    <3>2. a \in Int /\ b \in Int /\ 0 <= a /\ a <= b /\ b <= size - 1
      BY <2>3
    <3> HIDE DEF a, b
    <3>3. size \in Nat
      BY <2>1
    <3> QED
      BY <3>1, <3>2, <3>3
  <2>6. \A i \in 1 .. n : parts[i][1] + parts[i][2] = ranges[i][2] + 1
    BY <2>3, <2>4
  <2>7. PartsInOrder
    <3> SUFFICES ASSUME NEW i \in 1 .. n, NEW j \in 1 .. n, i < j
                 PROVE  \/ parts[i][1] + parts[i][2] < parts[j][1]
                        \/ parts[i][1] = parts[j][1] /\ parts[i][2] <= parts[j][2]
      BY <2>2 DEF PartsInOrder
    <3>1. ranges[i][2] + 1 < ranges[j][1]
          \/ (ranges[i][1] = ranges[j][1] /\ ranges[i][2] <= ranges[j][2])
      BY <2>1 DEF Apart, n
    <3>2. CASE ranges[i][2] + 1 < ranges[j][1]
      BY <2>4, <2>6, <3>2
    <3>3. CASE ranges[i][1] = ranges[j][1] /\ ranges[i][2] <= ranges[j][2]
      BY <2>3, <2>4, <3>3
    <3> QED
      BY <3>1, <3>2, <3>3
  <2>8. ServedAsAsked
    <3> DEFINE span(i) == parts[i][1] .. parts[i][1] + parts[i][2] - 1
               served == UNION { span(i) : i \in DOMAIN parts }
    <3>1. \A i \in 1 .. n : span(i) = { b \in Int : ranges[i][1] <= b /\ b <= ranges[i][2] }
      <4> TAKE i \in 1 .. n
      <4> DEFINE a == ranges[i][1]  b == ranges[i][2]
      <4>1. span(i) = parts[i][1] .. (parts[i][1] + (parts[i][2] - 1))
        OBVIOUS
      <4>2. parts[i][1] = a /\ parts[i][2] = b - a + 1
        BY <2>4
      <4>3. a \in Int /\ b \in Int
        BY <2>3
      <4> HIDE DEF a, b, span
      <4>4. a + ((b - a + 1) - 1) = b
        BY <4>3
      <4>5. span(i) = a .. b
        BY <4>1, <4>2, <4>4
      <4>6. a .. b = { x \in Int : a <= x /\ x <= b }
        BY <4>3
      <4> QED
        BY <4>5, <4>6 DEF a, b
    <3>2. \A b : b \in served <=> \E i \in 1 .. n : b \in span(i)
      BY <2>2
    <3> HIDE DEF served, span
    <3>3. served = Bytes(ranges, Len(ranges))
      BY <3>1, <3>2 DEF Bytes, n
    <3> QED
      BY <2>1, <3>3 DEF ServedAsAsked, AllWanted, served, span
  <2> QED
    BY <1>1, <2>5, <2>7, <2>8
<1> QED
  BY <1>2, <1>3

LEMMA RangesStutter == RangesInv /\ UNCHANGED rangeVars => RangesInv'
<1> SUFFICES ASSUME RangesInv, UNCHANGED rangeVars PROVE RangesInv'
  OBVIOUS
<1>1. UNCHANGED <<asked, size, stage, ranges, next, overlaps, coalesced, parts>>
  BY DEF rangeVars
<1>2. RangesTypeOK' <=> RangesTypeOK
  BY <1>1 DEF RangesTypeOK
<1>3. Checking' <=> Checking
  BY <1>1 DEF Checking, Malformed, Normal, Fits
<1>4. Held' <=> Held
  BY <1>1, AllWantedKept DEF Held
<1>5. RefusedForAReason' <=> RefusedForAReason
  BY <1>1 DEF RefusedForAReason, Malformed, Wanted
<1>6. /\ Ascending(ranges)' <=> Ascending(ranges)
      /\ Merging(size, ranges, next, coalesced)' <=> Merging(size, ranges, next, coalesced)
      /\ Apart(ranges)' <=> Apart(ranges)
      /\ [i \in 1 .. Len(ranges) |-> OffsetAndLength(ranges[i])]'
           = [i \in 1 .. Len(ranges) |-> OffsetAndLength(ranges[i])]
  BY <1>1 DEF Ascending
<1> QED
  BY <1>1, <1>2, <1>3, <1>4, <1>5, <1>6 DEF RangesInv

LEMMA RangesHold == MCSpec => [](turn = "range" => RangesInv)
<1> DEFINE Inv == turn = "range" => RangesInv
<1>1. MCInit => Inv
  BY RangesInitially DEF MCInit
<1>2. Inv /\ [MCNext]_all => Inv'
  <2> SUFFICES ASSUME Inv, [MCNext]_all, turn' = "range" PROVE RangesInv'
    OBVIOUS
  <2>1. CASE UNCHANGED all
    <3>1. UNCHANGED rangeVars /\ turn = "range"
      BY <2>1 DEF all, headerVars, bothVars, rangeVars
    <3> QED
      BY <3>1, RangesStutter
  <2>2. CASE MCNext
    <3>1. turn = "range" /\ RangesNext
      BY <2>2 DEF MCNext
    <3> QED
      BY <3>1, RangesKept
  <2> QED
    BY <2>1, <2>2
<1> QED
  BY <1>1, <1>2, PTL DEF MCSpec

\* Any Range header on a body of any length: every part lies inside the body,
\* the parts are the bytes asked for and no others, in the order of the body,
\* and a header is refused only for a reason.
THEOREM RangesAreAnswered == MCSpec => []RangesAnswered
<1>1. (turn = "range" => RangesInv) => RangesAnswered
  BY PartsRight DEF RangesAnswered
<1> QED
  BY <1>1, RangesHold, PTL

-----------------------------------------------------------------------------
(* The class parameter, for any texts over any characters. *)

Token == [ch : Chars, encoded : BOOLEAN]

ParamTypes ==
  /\ name \in Seq({ Param!Plain(c) : c \in Chars })
  /\ query \in Seq(Param!Tokens)

LEMMA TokenType ==
  /\ { Param!Plain(c) : c \in Chars } \subseteq Token
  /\ Param!Tokens \subseteq Token
<1>1. \A c \in Chars : Param!Plain(c) \in Token /\ Param!Encoded(c) \in Token
  BY DEF Token, Param!Plain, Param!Encoded
<1> QED
  BY <1>1 DEF Param!Tokens

LEMMA Special ==
  /\ Param!Plain(Param!Class) \in Token /\ Param!Plain(Param!Equals) \in Token
  /\ Param!Plain(Param!Ampersand) \in Token /\ Param!Plain(Param!Plus) \in Token
  /\ Param!Plain(Param!Space) \in Token
  /\ Param!Plain(Param!Class) # Param!Plain(Param!Equals)
  /\ Param!Plain(Param!Class) # Param!Plain(Param!Ampersand)
  /\ Param!Plain(Param!Class) # Param!Plain(Param!Plus)
  /\ Param!Plain(Param!Class) # Param!Plain(Param!Space)
  /\ Param!Plain(Param!Equals) # Param!Plain(Param!Ampersand)
  /\ Param!Plain(Param!Plus) # Param!Plain(Param!Space)
BY TokensAssumption DEF Param!CharsAssumption, Token, Param!Plain, Param!Class,
     Param!Equals, Param!Ampersand, Param!Plus, Param!Space

\* What one search finds.
IsFirst(q, t, i, p) ==
  /\ p = Len(q) + 1 \/ q[p] = t
  /\ \A k \in i .. (p - 1) : q[k] # t

LEMMA FindIs ==
  ASSUME NEW S, NEW q \in Seq(S), NEW t, NEW i \in Nat \ {0},
         NEW p \in i .. (Len(q) + 1), IsFirst(q, t, i, p)
  PROVE  Param!Find(q, t, i) = p
<1>1. Len(q) \in Nat
  BY LenProperties
<1>2. ASSUME NEW r \in i .. (Len(q) + 1), IsFirst(q, t, i, r) PROVE r = p
  <2>1. CASE r < p
    <3>1. r \in i .. (p - 1) /\ r # Len(q) + 1
      BY <1>1, <2>1
    <3> QED
      BY <1>2, <3>1 DEF IsFirst
  <2>2. CASE p < r
    <3>1. p \in i .. (r - 1) /\ p # Len(q) + 1
      BY <1>1, <2>2
    <3> QED
      BY <1>2, <3>1 DEF IsFirst
  <2> QED
    BY <1>1, <2>1, <2>2
<1>3. Param!Find(q, t, i) = CHOOSE r \in i .. (Len(q) + 1) : IsFirst(q, t, i, r)
  BY DEF Param!Find, IsFirst
<1> QED
  BY <1>2, <1>3

LEMMA FindExists ==
  ASSUME NEW S, NEW q \in Seq(S), NEW t, NEW i \in 1 .. (Len(q) + 1)
  PROVE  /\ Param!Find(q, t, i) \in i .. (Len(q) + 1)
         /\ IsFirst(q, t, i, Param!Find(q, t, i))
<1> DEFINE T == { p \in i .. (Len(q) + 1) : p = Len(q) + 1 \/ q[p] = t }
<1>1. Len(q) \in Nat
  BY LenProperties
<1>2. T \in SUBSET Nat /\ Len(q) + 1 \in T
  BY <1>1
<1>3. PICK p \in T : \A y \in T : p <= y
  <2> HIDE DEF T
  <2> QED
    BY <1>2, LeastOne
<1>4. p \in i .. (Len(q) + 1) /\ (p = Len(q) + 1 \/ q[p] = t)
  OBVIOUS
<1>5. ASSUME NEW k \in i .. (p - 1) PROVE q[k] # t
  <2>1. k \in i .. (Len(q) + 1) /\ ~ (p <= k)
    BY <1>1, <1>4
  <2> QED
    BY <1>3, <2>1
<1>6. IsFirst(q, t, i, p)
  BY <1>4, <1>5 DEF IsFirst
<1>7. i \in Nat \ {0}
  BY <1>1
<1> HIDE DEF T
<1>8. Param!Find(q, t, i) = p
  BY <1>4, <1>6, <1>7, FindIs
<1> QED
  BY <1>4, <1>6, <1>8

\* From a later place on the same is found, if it is not before.
LEMMA FindLater ==
  ASSUME NEW S, NEW q \in Seq(S), NEW t, NEW i \in 1 .. (Len(q) + 1),
         NEW j \in i .. (Len(q) + 1), \A k \in i .. (j - 1) : q[k] # t
  PROVE  Param!Find(q, t, i) = Param!Find(q, t, j)
<1> DEFINE p == Param!Find(q, t, j)
<1>1. Len(q) \in Nat
  BY LenProperties
<1>2. j \in 1 .. (Len(q) + 1) /\ i \in Nat \ {0}
  BY <1>1
<1>3. p \in j .. (Len(q) + 1) /\ IsFirst(q, t, j, p)
  BY <1>2, FindExists
<1> HIDE DEF p
<1>4. p \in i .. (Len(q) + 1)
  BY <1>1, <1>3
<1>5. \A k \in i .. (p - 1) : k \in i .. (j - 1) \/ k \in j .. (p - 1)
  BY <1>1, <1>3
<1>6. IsFirst(q, t, i, p)
  BY <1>3, <1>5 DEF IsFirst
<1> QED
  BY <1>2, <1>4, <1>6, FindIs DEF p

\* A parameter in a query string: its name is "class", what follows is its value.
ClassAt(q, b) ==
  /\ b \in Param!PartStarts(q) /\ b < Len(q)
  /\ q[b] = Param!Plain(Param!Class) /\ q[b + 1] = Param!Plain(Param!Equals)

ValueEnd(q, b) == Param!Find(q, Param!Plain(Param!Ampersand), b + 2)

LEMMA DecodeOne ==
  Param!Decode(<<Param!Plain(Param!Class)>>) = <<Param!Plain(Param!Class)>>
<1> DEFINE c == Param!Plain(Param!Class)
<1>1. DOMAIN <<c>> = {1} /\ <<c>>[1] = c
  OBVIOUS
<1>2. c # Param!Plain(Param!Plus) /\ Param!Plain(c.ch) = c
  BY Special DEF Param!Plain
<1>3. <<c>> = [i \in {1} |-> c]
  OBVIOUS
<1> HIDE DEF c
<1>4. Param!Decode(<<c>>) = <<c>>
  BY <1>1, <1>2, <1>3 DEF Param!Decode
<1> QED
  BY <1>4 DEF c

LEMMA TrimOne ==
  Param!LeftTrim(<<Param!Plain(Param!Class)>>) = <<Param!Plain(Param!Class)>>
<1> DEFINE s == <<Param!Plain(Param!Class)>>
<1>1. s \in Seq(Token) /\ Len(s) = 1 /\ s[1] = Param!Plain(Param!Class) /\ DOMAIN s = {1}
  BY Special
<1> HIDE DEF s
<1>2. { i \in DOMAIN s : ~ Param!Blank(s, i) } = {1}
  BY <1>1, Special DEF Param!Blank
<1>3. (CHOOSE i \in {1} : \A k \in {1} : i <= k) = 1
  OBVIOUS
<1>4. SubSeq(s, 1, Len(s)) = s
  BY <1>1, SubSeqFull
<1>5. Param!LeftTrim(s) = s
  BY <1>2, <1>3, <1>4 DEF Param!LeftTrim
<1> QED
  BY <1>5 DEF s

\* Divided at its first "=".
LEMMA ClassDivided ==
  ASSUME NEW q \in Seq(Token), NEW b, ClassAt(q, b)
  PROVE  /\ Param!PartEnd(q, b) = ValueEnd(q, b)
         /\ ValueEnd(q, b) \in b + 2 .. (Len(q) + 1)
         /\ Param!Divide(q, b).key = <<Param!Plain(Param!Class)>>
         /\ Param!Divide(q, b).value =
              Param!Decode(SubSeq(q, b + 2, ValueEnd(q, b) - 1))
<1> DEFINE e == ValueEnd(q, b)
           part == SubSeq(q, b, e - 1)
<1>1. Len(q) \in Nat /\ b \in Nat /\ b \in 1 .. (Len(q) + 1)
      /\ b + 2 \in b .. (Len(q) + 1) /\ b + 2 \in 1 .. (Len(q) + 1)
  BY LenProperties DEF ClassAt, Param!PartStarts
<1>2. \A k \in b .. (b + 2 - 1) : q[k] # Param!Plain(Param!Ampersand)
  <2>1. \A k \in b .. (b + 2 - 1) : k = b \/ k = b + 1
    BY <1>1
  <2> QED
    BY <2>1, Special DEF ClassAt
<1>3. Param!PartEnd(q, b) = e
  BY <1>1, <1>2, FindLater DEF Param!PartEnd, ValueEnd
<1>4. e \in b + 2 .. (Len(q) + 1)
  BY <1>1, FindExists DEF ValueEnd
<1> HIDE DEF e
<1>5. e \in b .. (Len(q) + 1) /\ e \in Nat /\ e - b \in Nat /\ 2 <= e - b
  BY <1>1, <1>4
<1>6. /\ part \in Seq(Token) /\ Len(part) = e - b
      /\ \A k \in 1 .. (e - b) : part[k] = q[b + k - 1]
  BY <1>1, <1>5, PieceIs
<1> HIDE DEF part
<1>7. part[1] = Param!Plain(Param!Class) /\ part[2] = Param!Plain(Param!Equals)
  <2>1. 1 \in 1 .. (e - b) /\ 2 \in 1 .. (e - b) /\ b + 1 - 1 = b /\ b + 2 - 1 = b + 1
    BY <1>1, <1>5
  <2> QED
    BY <2>1, <1>6 DEF ClassAt
<1>8. Param!Find(part, Param!Plain(Param!Equals), 1) = 2
  <2>1. 2 \in 1 .. (Len(part) + 1) /\ 1 \in Nat \ {0}
    BY <1>5, <1>6
  <2>2. \A k \in 1 .. (2 - 1) : k = 1
    OBVIOUS
  <2>3. IsFirst(part, Param!Plain(Param!Equals), 1, 2)
    BY <1>7, <2>2, Special DEF IsFirst
  <2> QED
    BY <1>6, <2>1, <2>3, FindIs
<1>9. SubSeq(part, 1, 2 - 1) = <<Param!Plain(Param!Class)>>
  <2> DEFINE one == SubSeq(part, 1, 2 - 1)
  <2>1. /\ one \in Seq(Token) /\ Len(one) = 2 - 1
        /\ \A k \in 1 .. (2 - 1) : one[k] = part[1 + k - 1]
    <3>1. 1 \in 1 .. (Len(part) + 1) /\ 2 \in 1 .. (Len(part) + 1)
      BY <1>5, <1>6
    <3> QED
      BY <1>6, <3>1, PieceIs
  <2> HIDE DEF one
  <2>2. Len(one) = 1 /\ one[1] = Param!Plain(Param!Class)
    BY <2>1, <1>7
  <2>3. one = <<Param!Plain(Param!Class)>>
    BY <2>1, <2>2
  <2> QED
    BY <2>3 DEF one
<1>10. SubSeq(part, 3, Len(part)) = SubSeq(q, b + 2, e - 1)
  <2> DEFINE n == Len(part) + 1
  <2>1. /\ 3 \in 1 .. (Len(part) + 1) /\ n \in 3 .. (Len(part) + 1)
        /\ e \in b + 2 .. (Len(q) + 1) /\ e - (b + 2) = n - 3
        /\ n - 1 = Len(part)
    BY <1>1, <1>4, <1>5, <1>6
  <2>2. \A k \in 1 .. (n - 3) : part[3 + k - 1] = q[(b + 2) + k - 1]
    <3>1. ASSUME NEW k \in 1 .. (n - 3) PROVE part[3 + k - 1] = q[(b + 2) + k - 1]
      <4>1. k + 2 \in 1 .. (e - b) /\ 3 + k - 1 = k + 2 /\ b + (k + 2) - 1 = (b + 2) + k - 1
        BY <1>1, <1>5, <1>6
      <4> QED
        BY <4>1, <1>6
    <3> QED
      BY <3>1
  <2> HIDE DEF n
  <2>3. SubSeq(part, 3, n - 1) = SubSeq(q, b + 2, e - 1)
    BY <1>1, <1>6, <2>1, <2>2, SamePiece
  <2> QED
    BY <2>1, <2>3
<1>11. /\ Param!Divide(q, b).key = Param!Decode(SubSeq(part, 1, 2 - 1))
       /\ Param!Divide(q, b).value = Param!Decode(SubSeq(part, 2 + 1, Len(part)))
  BY <1>3, <1>8 DEF Param!Divide, part
<1> QED
  <2>1. Param!Divide(q, b).key = <<Param!Plain(Param!Class)>>
    BY <1>9, <1>11, DecodeOne
  <2>2. Param!Divide(q, b).value = Param!Decode(SubSeq(q, b + 2, e - 1))
    <3>1. 2 + 1 = 3
      OBVIOUS
    <3> QED
      BY <1>10, <1>11, <3>1
  <2> QED
    BY <1>3, <1>4, <2>1, <2>2 DEF e

LEMMA NamedClass ==
  ASSUME NEW q \in Seq(Token), NEW b, ClassAt(q, b)
  PROVE  b \in Param!Named(q) /\ b \in Param!PhpNamed(q)
<1>1. Param!Divide(q, b).key = <<Param!Plain(Param!Class)>> /\ b \in Param!PartStarts(q)
  BY ClassDivided DEF ClassAt
<1>2. Param!LeftTrim(<<Param!Plain(Param!Class)>>) = <<Param!Plain(Param!Class)>>
  BY TrimOne
<1> QED
  BY <1>1, <1>2 DEF Param!Named, Param!PhpNamed

LEMMA NamedStarts ==
  ASSUME NEW q \in Seq(Token)
  PROVE  /\ Param!PartStarts(q) \subseteq 1 .. Len(q) /\ Len(q) \in Nat
         /\ Param!Named(q) \subseteq Param!PartStarts(q)
         /\ Param!PhpNamed(q) \subseteq Param!PartStarts(q)
         /\ Param!Named(q) \subseteq Param!PhpNamed(q)
BY LenProperties, TrimOne DEF Param!PartStarts, Param!Named, Param!PhpNamed

-----------------------------------------------------------------------------
(* The form, and what stands before or behind it. *)

Coded(t) == Param!EncodeToken(t)

LEMMA CodedToken ==
  ASSUME NEW t \in { Param!Plain(c) : c \in Chars }
  PROVE  /\ Coded(t) \in Token
         /\ Coded(t) # Param!Plain(Param!Ampersand)
         /\ (IF Coded(t) = Param!Plain(Param!Plus) THEN Param!Plain(Param!Space)
             ELSE Param!Plain(Coded(t).ch)) = t
         /\ Coded(t) = t <=> t.ch \in Safe
<1>1. PICK c \in Chars : t = [ch |-> c, encoded |-> FALSE]
  BY DEF Param!Plain
<1>2. /\ Param!Ampersand = "&" /\ Param!Plus = "+" /\ Param!Space = " "
      /\ "&" \notin Safe /\ "+" \notin Safe /\ " " \notin Safe
      /\ "+" \in Chars
  BY TokensAssumption DEF Param!CharsAssumption, Param!Class, Param!Equals,
       Param!Ampersand, Param!Plus, Param!Space
<1>3. t.ch = c /\ t.encoded = FALSE
  BY <1>1
<1>7. /\ Param!Plain(Param!Ampersand) = [ch |-> "&", encoded |-> FALSE]
      /\ Param!Plain(Param!Plus) = [ch |-> "+", encoded |-> FALSE]
      /\ Param!Plain(Param!Space) = [ch |-> " ", encoded |-> FALSE]
      /\ Param!Plain(c) = t
  BY <1>1, <1>2 DEF Param!Plain
<1>4. CASE c \in Safe
  <2>1. Coded(t) = t
    BY <1>3, <1>4 DEF Coded, Param!EncodeToken
  <2>2. c # "&" /\ c # "+"
    BY <1>2, <1>4
  <2>3. t # [ch |-> "&", encoded |-> FALSE] /\ t # [ch |-> "+", encoded |-> FALSE]
    BY <1>1, <2>2
  <2>4. t \in Token
    BY <1>1 DEF Token
  <2> QED
    BY <1>3, <1>4, <1>7, <2>1, <2>3, <2>4
<1>5. CASE c \notin Safe /\ c = " "
  <2>1. Coded(t) = [ch |-> "+", encoded |-> FALSE]
    <3>1. Coded(t) = Param!Plain(Param!Plus)
      BY <1>2, <1>3, <1>5 DEF Coded, Param!EncodeToken
    <3> QED
      BY <3>1, <1>7
  <2>2. Coded(t) \in Token
    <3>1. "+" \in Chars
      BY <1>2
    <3> QED
      BY <2>1, <3>1 DEF Token
  <2>3. Coded(t).ch = "+"
    BY <2>1
  <2>4. Coded(t) # t /\ Coded(t) # [ch |-> "&", encoded |-> FALSE]
    <3>1. t.ch # "+"
      BY <1>3, <1>5
    <3>2. [ch |-> "&", encoded |-> FALSE].ch # "+"
      OBVIOUS
    <3> QED
      BY <2>3, <3>1, <3>2
  <2>5. t = [ch |-> " ", encoded |-> FALSE]
    BY <1>1, <1>5
  <2> QED
    BY <1>3, <1>5, <1>7, <2>1, <2>2, <2>4, <2>5
<1>6. CASE c \notin Safe /\ c # " "
  <2>1. Coded(t) = [ch |-> c, encoded |-> TRUE]
    BY <1>2, <1>3, <1>6 DEF Coded, Param!EncodeToken, Param!Encoded
  <2>2. Coded(t).encoded = TRUE /\ Coded(t).ch = c
    BY <2>1
  <2>3. Coded(t) # t
    BY <1>3, <2>2
  <2>4. Coded(t) \in Token
    BY <2>1 DEF Token
  <2>5. /\ Coded(t) # [ch |-> "&", encoded |-> FALSE]
        /\ Coded(t) # [ch |-> "+", encoded |-> FALSE]
    BY <2>2
  <2> QED
    BY <1>3, <1>6, <1>7, <2>2, <2>3, <2>4, <2>5
<1> QED
  BY <1>4, <1>5, <1>6

LEMMA FormIs ==
  ASSUME ParamTypes
  PROVE  /\ Param!Form(name) \in Seq(Token) /\ Len(name) \in Nat
         /\ Len(Param!Form(name)) = 2 + Len(name)
         /\ Param!Form(name)[1] = Param!Plain(Param!Class)
         /\ Param!Form(name)[2] = Param!Plain(Param!Equals)
         /\ \A i \in 1 .. Len(name) : Param!Form(name)[2 + i] = Coded(name[i])
<1> DEFINE h == <<Param!Plain(Param!Class), Param!Plain(Param!Equals)>>
           v == [i \in DOMAIN name |-> Coded(name[i])]
<1>1. Len(name) \in Nat /\ DOMAIN name = 1 .. Len(name)
  BY LenProperties DEF ParamTypes
<1>2. \A i \in 1 .. Len(name) : name[i] \in { Param!Plain(c) : c \in Chars }
  BY ElementOfSeq DEF ParamTypes
<1>3. v \in Seq(Token) /\ Len(v) = Len(name) /\ \A i \in 1 .. Len(name) : v[i] = Coded(name[i])
  <2>1. \A i \in 1 .. Len(name) : Coded(name[i]) \in Token
    BY <1>2, CodedToken
  <2>2. v = [i \in 1 .. Len(name) |-> Coded(name[i])]
    BY <1>1
  <2> QED
    BY <1>1, <2>1, <2>2
<1>4. h \in Seq(Token) /\ Len(h) = 2 /\ h[1] = Param!Plain(Param!Class)
      /\ h[2] = Param!Plain(Param!Equals)
  BY Special
<1> DEFINE w == Param!Form(name)
<1>5. IsJoin(w, h, v)
  BY DEF IsJoin, Param!Form, Coded
<1> HIDE DEF h, v, w
<1>6. /\ w \in Seq(Token) /\ Len(w) = Len(h) + Len(v)
      /\ \A i \in 1 .. Len(h) : w[i] = h[i]
      /\ \A i \in 1 .. Len(v) : w[Len(h) + i] = v[i]
  <2>1. w \in Seq(Token) /\ Holds(w, h, v)
    BY <1>3, <1>4, <1>5, JoinIs
  <2> QED
    BY <2>1 DEF Holds
<1>7. 1 \in 1 .. 2 /\ 2 \in 1 .. 2
  OBVIOUS
<1> QED
  BY <1>1, <1>3, <1>4, <1>6, <1>7 DEF w

Amp == <<Param!Plain(Param!Ampersand)>>

\* The form behind a query string.
Last == query \o Amp \o Param!Form(name)

LEMMA AmpIs == Amp \in Seq(Token) /\ Len(Amp) = 1 /\ Amp[1] = Param!Plain(Param!Ampersand)
BY Special DEF Amp

LEMMA QueryIs ==
  ASSUME ParamTypes
  PROVE  query \in Seq(Token) /\ Len(query) \in Nat
<1>1. \A i \in 1 .. Len(query) : query[i] \in Token
  BY ElementOfSeq, TokenType DEF ParamTypes
<1>2. query \in Seq(Param!Tokens)
  BY DEF ParamTypes
<1> QED
  BY <1>1, <1>2, LenProperties

LEMMA LastIs ==
  ASSUME ParamTypes
  PROVE  /\ Last \in Seq(Token) /\ Len(Last) = Len(query) + 3 + Len(name)
         /\ \A i \in 1 .. Len(query) : Last[i] = query[i]
         /\ Last[Len(query) + 1] = Param!Plain(Param!Ampersand)
         /\ ClassAt(Last, Len(query) + 2)
         /\ \A i \in 1 .. Len(name) : Last[Len(query) + 3 + i] = Coded(name[i])
<1> DEFINE f == Param!Form(name)
           u == query \o Amp
           w == u \o f
           n == Len(query)
           m == Len(name)
<1>1. query \in Seq(Token) /\ n \in Nat
  BY QueryIs
<1>2. /\ f \in Seq(Token) /\ m \in Nat /\ Len(f) = 2 + m
      /\ f[1] = Param!Plain(Param!Class) /\ f[2] = Param!Plain(Param!Equals)
      /\ \A i \in 1 .. m : f[2 + i] = Coded(name[i])
  BY FormIs
<1>3. IsJoin(u, query, Amp) /\ IsJoin(w, u, f) /\ Last = w
  BY DEF Last, IsJoin
<1> HIDE DEF f, n, m, u, w
<1>4. /\ u \in Seq(Token) /\ Len(u) = n + 1
      /\ \A i \in 1 .. n : u[i] = query[i]
      /\ u[n + 1] = Param!Plain(Param!Ampersand)
  <2>1. /\ u \in Seq(Token) /\ Len(u) = Len(query) + Len(Amp)
        /\ \A i \in 1 .. Len(query) : u[i] = query[i]
        /\ \A i \in 1 .. Len(Amp) : u[Len(query) + i] = Amp[i]
    <3>1. u \in Seq(Token) /\ Holds(u, query, Amp)
      BY <1>1, <1>3, AmpIs, JoinIs
    <3> QED
      BY <3>1 DEF Holds
  <2>2. 1 \in 1 .. 1
    OBVIOUS
  <2> QED
    BY <2>1, <2>2, AmpIs DEF n
<1>5. /\ w \in Seq(Token) /\ Len(w) = (n + 1) + (2 + m)
      /\ \A i \in 1 .. n + 1 : w[i] = u[i]
      /\ \A i \in 1 .. 2 + m : w[(n + 1) + i] = f[i]
  <2>1. /\ w \in Seq(Token) /\ Len(w) = Len(u) + Len(f)
        /\ \A i \in 1 .. Len(u) : w[i] = u[i]
        /\ \A i \in 1 .. Len(f) : w[Len(u) + i] = f[i]
    <3>1. w \in Seq(Token) /\ Holds(w, u, f)
      BY <1>2, <1>3, <1>4, JoinIs
    <3> QED
      BY <3>1 DEF Holds
  <2> QED
    BY <1>2, <1>4, <2>1
<1>6. \A i \in 1 .. n : w[i] = query[i]
  <2>1. \A i \in 1 .. n : i \in 1 .. n + 1
    BY <1>1
  <2> QED
    BY <2>1, <1>4, <1>5
<1>7. w[n + 1] = Param!Plain(Param!Ampersand)
  <2>1. n + 1 \in 1 .. n + 1
    BY <1>1
  <2> QED
    BY <2>1, <1>4, <1>5
<1>8. \A i \in 1 .. 2 + m : w[(n + 1) + i] = f[i]
  BY <1>5
<1>9. w[n + 2] = Param!Plain(Param!Class) /\ w[(n + 2) + 1] = Param!Plain(Param!Equals)
  <2>1. /\ 1 \in 1 .. 2 + m /\ 2 \in 1 .. 2 + m /\ n + 2 = (n + 1) + 1
        /\ (n + 2) + 1 = (n + 1) + 2
    BY <1>1, <1>2
  <2> QED
    BY <2>1, <1>8, <1>2
<1>10. \A i \in 1 .. m : w[n + 3 + i] = Coded(name[i])
  <2>1. ASSUME NEW i \in 1 .. m PROVE w[n + 3 + i] = Coded(name[i])
    <3>1. 2 + i \in 1 .. 2 + m /\ n + 3 + i = (n + 1) + (2 + i)
      BY <1>1, <1>2
    <3> QED
      BY <3>1, <1>8, <1>2
  <2> QED
    BY <2>1
<1>11. ClassAt(w, n + 2)
  <2>1. n + 2 \in 1 .. Len(w) /\ (n + 2) - 1 = n + 1 /\ n + 2 < Len(w)
    BY <1>1, <1>2, <1>5
  <2> QED
    BY <2>1, <1>7, <1>9 DEF ClassAt, Param!PartStarts
<1>12. Len(w) = n + 3 + m
  BY <1>1, <1>2, <1>5
<1> QED
  BY <1>3, <1>5, <1>6, <1>7, <1>10, <1>11, <1>12 DEF n, m

\* The value that the form gave is read back as it was.
LEMMA LastValue ==
  ASSUME ParamTypes
  PROVE  Param!Divide(Last, Len(query) + 2).value = name
<1> DEFINE b == Len(query) + 2
           e == ValueEnd(Last, b)
           m == Len(name)
           v == SubSeq(Last, b + 2, e - 1)
<1>1. Len(query) \in Nat /\ m \in Nat /\ b \in Nat
      /\ Last \in Seq(Token) /\ Len(Last) = Len(query) + 3 + m
  BY QueryIs, LastIs, FormIs
<1>2. ClassAt(Last, b)
  BY LastIs
<1>3. \A i \in 1 .. m : name[i] \in { Param!Plain(c) : c \in Chars }
  BY ElementOfSeq DEF ParamTypes
<1>4. \A i \in 1 .. m : Last[Len(query) + 3 + i] = Coded(name[i])
  BY LastIs
<1>5. e = Len(Last) + 1
  <2>1. b + 2 \in Nat \ {0} /\ Len(Last) + 1 \in b + 2 .. (Len(Last) + 1)
    BY <1>1
  <2>2. ASSUME NEW k \in b + 2 .. Len(Last) + 1 - 1
        PROVE  Last[k] # Param!Plain(Param!Ampersand)
    <3>1. k - (Len(query) + 3) \in 1 .. m
          /\ Len(query) + 3 + (k - (Len(query) + 3)) = k
      BY <1>1
    <3> QED
      BY <3>1, <1>3, <1>4, CodedToken
  <2>3. IsFirst(Last, Param!Plain(Param!Ampersand), b + 2, Len(Last) + 1)
    BY <2>2 DEF IsFirst
  <2> QED
    BY <1>1, <2>1, <2>3, FindIs DEF ValueEnd
<1>6. /\ v \in Seq(Token) /\ Len(v) = m
      /\ \A k \in 1 .. m : v[k] = Coded(name[k])
  <2>1. /\ b + 2 \in 1 .. (Len(Last) + 1) /\ Len(Last) + 1 \in b + 2 .. (Len(Last) + 1)
        /\ (Len(Last) + 1) - (b + 2) = m
    BY <1>1
  <2>2. /\ v \in Seq(Token) /\ Len(v) = e - (b + 2)
        /\ \A k \in 1 .. (e - (b + 2)) : v[k] = Last[(b + 2) + k - 1]
    <3> HIDE DEF b, e
    <3> QED
      BY <1>1, <1>5, <2>1, PieceIs
  <2>3. e - (b + 2) = m
    BY <1>5, <2>1
  <2>4. \A k \in 1 .. m : (b + 2) + k - 1 = Len(query) + 3 + k
    BY <1>1
  <2> HIDE DEF v, e, b
  <2> QED
    BY <2>2, <2>3, <2>4, <1>4
<1>7. Param!Divide(Last, b).value = Param!Decode(v)
  BY <1>1, <1>2, ClassDivided
<1> HIDE DEF v
<1>8. Param!Decode(v) = [i \in 1 .. m |-> name[i]]
  <2>1. DOMAIN v = 1 .. m
    BY <1>6, LenProperties
  <2>2. \A i \in 1 .. m : (IF v[i] = Param!Plain(Param!Plus) THEN Param!Plain(Param!Space)
                           ELSE Param!Plain(v[i].ch)) = name[i]
    BY <1>3, <1>6, CodedToken
  <2> QED
    BY <2>1, <2>2 DEF Param!Decode
<1>9. name = [i \in 1 .. m |-> name[i]]
  BY LenProperties DEF ParamTypes
<1> QED
  BY <1>7, <1>8, <1>9

\* Nothing behind the query string begins a parameter but the form.
LEMMA LastStarts ==
  ASSUME ParamTypes, NEW b \in Param!PartStarts(Last)
  PROVE  b \in 1 .. Len(query) \/ b = Len(query) + 1 \/ b = Len(query) + 2
<1> DEFINE n == Len(query)
           m == Len(name)
<1>1. n \in Nat /\ m \in Nat /\ Len(Last) = n + 3 + m
  BY QueryIs, LastIs, FormIs
<1>2. b \in 1 .. Len(Last) /\ (b = 1 \/ Last[b - 1] = Param!Plain(Param!Ampersand))
  BY DEF Param!PartStarts
<1>3. \A i \in 1 .. m : Last[n + 3 + i] # Param!Plain(Param!Ampersand)
  <2>1. \A i \in 1 .. m : name[i] \in { Param!Plain(c) : c \in Chars }
    BY ElementOfSeq DEF ParamTypes
  <2> QED
    BY <2>1, LastIs, CodedToken
<1>4. Last[n + 2] # Param!Plain(Param!Ampersand) /\ Last[n + 3] # Param!Plain(Param!Ampersand)
  <2>1. (n + 2) + 1 = n + 3
    BY <1>1
  <2> QED
    BY <2>1, LastIs, Special DEF ClassAt
<1>5. SUFFICES ASSUME b > n + 2 PROVE FALSE
  BY <1>1, <1>2
<1>6. b - 1 = n + 2 \/ b - 1 = n + 3 \/ b - 1 - (n + 3) \in 1 .. m
  BY <1>1, <1>2, <1>5
<1>7. b # 1
  BY <1>1, <1>5
<1>8. CASE b - 1 - (n + 3) \in 1 .. m
  <2>1. n + 3 + (b - 1 - (n + 3)) = b - 1
    BY <1>1, <1>2
  <2> HIDE DEF n, m
  <2> QED
    BY <1>2, <1>3, <1>7, <1>8, <2>1
<1> QED
  BY <1>2, <1>4, <1>6, <1>7, <1>8

\* A parameter of the query string is none other for what follows it.
LEMMA LastBefore ==
  ASSUME ParamTypes, NEW b \in Param!PartStarts(Last), b <= Len(query)
  PROVE  b \in Param!PartStarts(query) /\ Param!Divide(Last, b) = Param!Divide(query, b)
<1> DEFINE n == Len(query)
           e == Param!PartEnd(query, b)
<1>1. n \in Nat /\ Len(name) \in Nat /\ Len(Last) = n + 3 + Len(name)
      /\ query \in Seq(Token) /\ Last \in Seq(Token)
  BY QueryIs, LastIs, FormIs
<1>2. b \in 1 .. n /\ (b = 1 \/ Last[b - 1] = Param!Plain(Param!Ampersand))
  BY <1>1 DEF Param!PartStarts
<1>3. \A i \in 1 .. n : Last[i] = query[i]
  BY LastIs
<1>4. b \in Param!PartStarts(query)
  <2>1. b # 1 => b - 1 \in 1 .. n
    BY <1>1, <1>2
  <2> QED
    BY <1>2, <1>3, <2>1 DEF Param!PartStarts
<1>5. e \in b .. (n + 1) /\ IsFirst(query, Param!Plain(Param!Ampersand), b, e)
  <2>1. b \in 1 .. (Len(query) + 1)
    BY <1>1, <1>2
  <2> QED
    BY <1>1, <2>1, FindExists DEF Param!PartEnd
<1> HIDE DEF e
<1>6. IsFirst(Last, Param!Plain(Param!Ampersand), b, e)
  <2>1. Last[e] = Param!Plain(Param!Ampersand)
    <3>1. CASE e = n + 1
      BY <3>1, LastIs
    <3>2. CASE e # n + 1
      <4>1. e \in 1 .. n
        BY <1>1, <1>2, <1>5, <3>2
      <4> QED
        BY <1>3, <1>5, <3>2, <4>1 DEF IsFirst
    <3> QED
      BY <3>1, <3>2
  <2>2. \A k \in b .. (e - 1) : k \in 1 .. n
    BY <1>1, <1>2, <1>5
  <2> QED
    BY <1>3, <1>5, <2>1, <2>2 DEF IsFirst
<1>7. Param!PartEnd(Last, b) = e
  <2>1. b \in Nat \ {0} /\ e \in b .. (Len(Last) + 1)
    BY <1>1, <1>2, <1>5
  <2> QED
    BY <1>1, <1>6, <2>1, FindIs DEF Param!PartEnd
<1>8. SubSeq(query, b, e - 1) = SubSeq(Last, b, e - 1)
  <2>1. query \in Seq(Token) /\ Last \in Seq(Token)
    BY <1>1
  <2>2. /\ b \in 1 .. (Len(query) + 1) /\ e \in b .. (Len(query) + 1)
        /\ e <= Len(Last) + 1
    BY <1>1, <1>2, <1>5
  <2>3. \A k \in b .. (e - 1) : query[k] = Last[k]
    <3>1. \A k \in b .. (e - 1) : k \in 1 .. n
      BY <1>1, <1>2, <1>5
    <3> QED
      BY <1>3, <3>1
  <2> QED
    BY <2>1, <2>2, <2>3, SameThere
<1> QED
  BY <1>4, <1>7, <1>8 DEF Param!Divide, e

\* Between the query string and the form is a part without a name.
LEMMA LastBetween ==
  ASSUME ParamTypes
  PROVE  Param!Divide(Last, Len(query) + 1).key = << >>
<1> DEFINE b == Len(query) + 1
           part == SubSeq(Last, b, b - 1)
<1>1. Len(query) \in Nat /\ Len(name) \in Nat /\ Len(Last) = Len(query) + 3 + Len(name)
      /\ Last \in Seq(Token) /\ b \in Nat /\ b - 1 < b
  BY QueryIs, LastIs, FormIs
<1>2. Param!PartEnd(Last, b) = b
  <2>1. b \in Nat \ {0} /\ b \in b .. (Len(Last) + 1)
    BY <1>1
  <2>2. \A k \in b .. (b - 1) : FALSE
    BY <1>1
  <2>3. IsFirst(Last, Param!Plain(Param!Ampersand), b, b)
    BY <2>2, LastIs DEF IsFirst
  <2> QED
    BY <1>1, <2>1, <2>3, FindIs DEF Param!PartEnd
<1>3. part = << >>
  <2>1. b \in Int /\ b - 1 \in Int
    BY <1>1
  <2> HIDE DEF b
  <2> QED
    BY <1>1, <2>1, SubSeqEmpty
<1>4. Param!Find(<< >>, Param!Plain(Param!Equals), 1) = 1
  <2>1. << >> \in Seq(Token) /\ Len(<< >>) = 0
    BY EmptySeq
  <2>2. 1 \in Nat \ {0} /\ 1 \in 1 .. (Len(<< >>) + 1) /\ 1 = Len(<< >>) + 1
    BY <2>1
  <2>3. \A k \in 1 .. (1 - 1) : FALSE
    OBVIOUS
  <2>4. IsFirst(<< >>, Param!Plain(Param!Equals), 1, 1)
    BY <2>2, <2>3 DEF IsFirst
  <2> QED
    BY <2>1, <2>2, <2>4, FindIs
<1>5. SubSeq(<< >>, 1, 1 - 1) = << >>
  BY SubSeqEmpty
<1>6. Param!Decode(<< >>) = << >>
  BY DEF Param!Decode
<1> HIDE DEF part, b
<1>7. Param!Divide(Last, b).key = << >>
  BY <1>2, <1>3, <1>4, <1>5, <1>6 DEF Param!Divide, part
<1> QED
  BY <1>7 DEF b

LEMMA SchemeAReads ==
  ASSUME ParamTypes, Param!Named(query) = {}
  PROVE  Param!ParamValue(Last) = name
<1> DEFINE b == Len(query) + 2
<1>1. b \in Param!Named(Last)
  BY LastIs, NamedClass
<1>2. ASSUME NEW c \in Param!Named(Last) PROVE c = b
  <2>1. c \in Param!PartStarts(Last) /\ Param!Divide(Last, c).key = <<Param!Plain(Param!Class)>>
    BY <1>2 DEF Param!Named
  <2>2. CASE c \in 1 .. Len(query)
    <3>1. c <= Len(query)
      BY <2>2, QueryIs
    <3>2. c \in Param!Named(query)
      BY <2>1, <3>1, LastBefore DEF Param!Named
    <3> QED
      BY <3>2
  <2>3. CASE c = Len(query) + 1
    <3>1. Param!Divide(Last, c).key = << >>
      BY <2>3, LastBetween
    <3>2. << >> /= <<Param!Plain(Param!Class)>>
      OBVIOUS
    <3> QED
      BY <2>1, <3>1, <3>2
  <2> QED
    BY <2>1, <2>2, <2>3, LastStarts
<1>3. Param!Named(Last) = {b}
  BY <1>1, <1>2
<1>4. (CHOOSE x \in {b} : \A c \in {b} : x <= c) = b
  <2>1. b \in Int
    BY QueryIs
  <2> HIDE DEF b
  <2> QED
    BY <2>1
<1> HIDE DEF b
<1>5. Param!ParamValue(Last) = Param!Divide(Last, b).value
  BY <1>3, <1>4 DEF Param!ParamValue
<1> QED
  BY <1>5, LastValue DEF b

LEMMA PhpReads ==
  ASSUME ParamTypes
  PROVE  Param!PhpParam(Last) = Param!trim(name)
<1> DEFINE b == Len(query) + 2
           T == Param!PhpNamed(Last)
<1>1. b \in T
  BY LastIs, NamedClass
<1>2. ASSUME NEW c \in T PROVE b >= c
  <2>1. c \in Param!PartStarts(Last)
    BY <1>2 DEF Param!PhpNamed
  <2> QED
    BY <2>1, LastStarts, QueryIs
<1>3. T \in SUBSET Int
  BY LastIs, NamedStarts
<1> HIDE DEF T, b
<1>4. (CHOOSE x \in T : \A c \in T : x >= c) = b
  BY <1>1, <1>2, <1>3, GreatestIs
<1>5. T # {}
  BY <1>1
<1>6. Param!PhpParam(Last) = Param!trim(Param!Divide(Last, b).value)
  BY <1>4, <1>5 DEF Param!PhpParam, T
<1> QED
  BY <1>6, LastValue DEF b

\* The form before a query string.
First == Param!Form(name) \o Amp \o query

LEMMA FirstIs ==
  ASSUME ParamTypes
  PROVE  /\ First \in Seq(Token) /\ Len(First) = Len(name) + 3 + Len(query)
         /\ ClassAt(First, 1)
         /\ \A i \in 1 .. Len(name) : First[2 + i] = Coded(name[i])
         /\ First[Len(name) + 3] = Param!Plain(Param!Ampersand)
<1> DEFINE f == Param!Form(name)
           u == f \o Amp
           w == u \o query
           n == Len(query)
           m == Len(name)
<1>1. query \in Seq(Token) /\ n \in Nat
  BY QueryIs
<1>2. /\ f \in Seq(Token) /\ m \in Nat /\ Len(f) = 2 + m
      /\ f[1] = Param!Plain(Param!Class) /\ f[2] = Param!Plain(Param!Equals)
      /\ \A i \in 1 .. m : f[2 + i] = Coded(name[i])
  BY FormIs
<1>3. IsJoin(u, f, Amp) /\ IsJoin(w, u, query) /\ First = w
  BY DEF First, IsJoin
<1> HIDE DEF f, n, m, u, w
<1>4. /\ u \in Seq(Token) /\ Len(u) = m + 3
      /\ \A i \in 1 .. 2 + m : u[i] = f[i]
      /\ u[m + 3] = Param!Plain(Param!Ampersand)
  <2>1. /\ u \in Seq(Token) /\ Len(u) = Len(f) + Len(Amp)
        /\ \A i \in 1 .. Len(f) : u[i] = f[i]
        /\ \A i \in 1 .. Len(Amp) : u[Len(f) + i] = Amp[i]
    <3>1. u \in Seq(Token) /\ Holds(u, f, Amp)
      BY <1>2, <1>3, AmpIs, JoinIs
    <3> QED
      BY <3>1 DEF Holds
  <2>2. 1 \in 1 .. 1 /\ (2 + m) + 1 = m + 3
    BY <1>2
  <2> QED
    BY <1>2, <2>1, <2>2, AmpIs
<1>5. /\ w \in Seq(Token) /\ Len(w) = (m + 3) + n
      /\ \A i \in 1 .. m + 3 : w[i] = u[i]
  <2>1. /\ w \in Seq(Token) /\ Len(w) = Len(u) + Len(query)
        /\ \A i \in 1 .. Len(u) : w[i] = u[i]
    <3>1. w \in Seq(Token) /\ Holds(w, u, query)
      BY <1>1, <1>3, <1>4, JoinIs
    <3> QED
      BY <3>1 DEF Holds
  <2> QED
    BY <1>4, <2>1 DEF n
<1>6. \A i \in 1 .. 2 + m : w[i] = f[i]
  <2>1. \A i \in 1 .. 2 + m : i \in 1 .. m + 3
    BY <1>2
  <2> QED
    BY <2>1, <1>4, <1>5
<1>7. w[m + 3] = Param!Plain(Param!Ampersand)
  <2>1. m + 3 \in 1 .. m + 3
    BY <1>2
  <2> QED
    BY <2>1, <1>4, <1>5
<1>8. ClassAt(w, 1)
  <2>1. /\ 1 \in 1 .. 2 + m /\ 2 \in 1 .. 2 + m /\ 1 + 1 = 2
        /\ 1 \in 1 .. Len(w) /\ 1 < Len(w)
    BY <1>1, <1>2, <1>5
  <2> QED
    BY <2>1, <1>2, <1>6 DEF ClassAt, Param!PartStarts
<1>9. \A i \in 1 .. m : 2 + i \in 1 .. 2 + m
  BY <1>2
<1> QED
  BY <1>2, <1>3, <1>5, <1>6, <1>7, <1>8, <1>9 DEF n, m

\* Where scheme D finds "class=".
ClassMarks(q) ==
  { p \in 1 .. (Len(q) - 1) :
      q[p] = Param!Plain(Param!Class) /\ q[p + 1] = Param!Plain(Param!Equals) }

LEMMA SchemeDIs ==
  ASSUME NEW q \in Seq(Token), NEW b \in ClassMarks(q), \A r \in ClassMarks(q) : b <= r
  PROVE  Param!ParseClassParam(q) = SubSeq(q, b + 2, ValueEnd(q, b) - 1)
<1>1. ClassMarks(q) \in SUBSET Int /\ b \in Int
  BY DEF ClassMarks
<1>2. (CHOOSE p \in ClassMarks(q) : \A r \in ClassMarks(q) : p <= r) = b
  BY <1>1, LeastIs
<1>3. 2 + b = b + 2 /\ ClassMarks(q) # {}
  BY <1>1
<1>4. Param!ParseClassParam(q) =
        IF ClassMarks(q) = {} THEN << >>
        ELSE SubSeq(q, 2 + (CHOOSE p \in ClassMarks(q) : \A r \in ClassMarks(q) : p <= r),
               Param!Find(q, Param!Plain(Param!Ampersand),
                 2 + (CHOOSE p \in ClassMarks(q) : \A r \in ClassMarks(q) : p <= r)) - 1)
  BY DEF Param!ParseClassParam, ClassMarks
<1> QED
  BY <1>2, <1>3, <1>4 DEF ValueEnd

LEMMA SchemeDReads ==
  ASSUME ParamTypes
  PROVE  Param!ParseClassParam(First) = name <=> \A i \in DOMAIN name : name[i].ch \in Safe
<1> DEFINE m == Len(name)
           e == ValueEnd(First, 1)
           v == SubSeq(First, 3, e - 1)
<1>1. /\ First \in Seq(Token) /\ m \in Nat /\ Len(query) \in Nat
      /\ Len(First) = m + 3 + Len(query)
  BY FirstIs, FormIs, QueryIs
<1>2. \A i \in 1 .. m : First[2 + i] = Coded(name[i])
  BY FirstIs
<1>3. \A i \in 1 .. m : name[i] \in { Param!Plain(c) : c \in Chars }
  BY ElementOfSeq DEF ParamTypes
<1>4. e = m + 3
  <2>1. m + 3 \in 3 .. (Len(First) + 1) /\ 3 \in Nat \ {0}
    BY <1>1
  <2>2. ASSUME NEW k \in 3 .. (m + 3 - 1)
        PROVE  First[k] # Param!Plain(Param!Ampersand)
    <3>1. k - 2 \in 1 .. m /\ 2 + (k - 2) = k
      BY <1>1
    <3> QED
      BY <3>1, <1>2, <1>3, CodedToken
  <2>3. IsFirst(First, Param!Plain(Param!Ampersand), 3, m + 3)
    BY <2>2, FirstIs DEF IsFirst
  <2>4. Param!Find(First, Param!Plain(Param!Ampersand), 3) = m + 3
    <3> HIDE DEF m
    <3> QED
      BY <1>1, <2>1, <2>3, FindIs
  <2>5. 1 + 2 = 3
    OBVIOUS
  <2> QED
    BY <2>4, <2>5 DEF ValueEnd
<1>5. /\ v \in Seq(Token) /\ Len(v) = m
      /\ \A k \in 1 .. m : v[k] = Coded(name[k])
  <2>1. 3 \in 1 .. (Len(First) + 1) /\ e \in 3 .. (Len(First) + 1) /\ e - 3 = m
    BY <1>1, <1>4
  <2>2. /\ v \in Seq(Token) /\ Len(v) = e - 3
        /\ \A k \in 1 .. (e - 3) : v[k] = First[3 + k - 1]
    <3> HIDE DEF e
    <3> QED
      BY <1>1, <2>1, PieceIs
  <2>3. \A k \in 1 .. m : 3 + k - 1 = 2 + k
    OBVIOUS
  <2> HIDE DEF v, e, m
  <2> QED
    BY <2>1, <2>2, <2>3, <1>2
<1>6. Param!ParseClassParam(First) = v
  <2>1. 1 \in ClassMarks(First) /\ \A r \in ClassMarks(First) : 1 <= r
    <3>1. 1 \in 1 .. (Len(First) - 1)
      BY <1>1
    <3> QED
      BY <3>1, FirstIs DEF ClassMarks, ClassAt
  <2>2. 1 + 2 = 3
    OBVIOUS
  <2> HIDE DEF e
  <2>3. Param!ParseClassParam(First) = SubSeq(First, 1 + 2, ValueEnd(First, 1) - 1)
    BY <1>1, <2>1, SchemeDIs
  <2> QED
    BY <2>2, <2>3 DEF e
<1>7. name \in Seq(Token) /\ DOMAIN name = 1 .. m
  BY <1>3, TokenType, LenProperties DEF ParamTypes
<1> HIDE DEF v, e, m
<1>8. v = name <=> \A i \in 1 .. m : v[i] = name[i]
  BY <1>5, <1>7, SeqEqual DEF m
<1>9. \A i \in 1 .. m : v[i] = name[i] <=> name[i].ch \in Safe
  BY <1>3, <1>5, CodedToken
<1> QED
  BY <1>6, <1>7, <1>8, <1>9

LEMMA TypesReachFilter == ParamTypes => Param!ChosenReachesFilter
<1> SUFFICES ASSUME ParamTypes PROVE Param!ChosenReachesFilter
  OBVIOUS
<1>1. query \o <<Param!Plain(Param!Ampersand)>> \o Param!Form(name) = Last
  BY DEF Last, Amp
<1>2. Param!Form(name) \o <<Param!Plain(Param!Ampersand)>> \o query = First
  BY DEF First, Amp
<1>3. Param!PhpParam(Last) = name <=> name = Param!trim(name)
  BY PhpReads
<1> QED
  BY <1>1, <1>2, <1>3, SchemeAReads, SchemeDReads DEF Param!ChosenReachesFilter

-----------------------------------------------------------------------------
(* One query string, read by the three programs. *)

LEMMA PhpAgrees ==
  ASSUME ParamTypes,
         \A b, c \in Param!PhpNamed(query) :
           b = c /\ b \in Param!Named(query)
             /\ Param!trim(Param!ParamValue(query)) = Param!ParamValue(query)
  PROVE  Param!ParamValue(query) = Param!PhpParam(query)
<1>1. Param!Named(query) \subseteq Param!PhpNamed(query)
  BY QueryIs, NamedStarts
<1>2. CASE Param!PhpNamed(query) = {}
  <2>1. Param!Named(query) = {}
    BY <1>1, <1>2
  <2> QED
    BY <1>2, <2>1 DEF Param!ParamValue, Param!PhpParam
<1>3. CASE Param!PhpNamed(query) # {}
  <2>1. PICK b : b \in Param!PhpNamed(query)
    BY <1>3
  <2>2. Param!PhpNamed(query) = {b} /\ Param!Named(query) = {b}
    BY <1>1, <2>1
  <2>3. b \in Int
    BY <2>1, QueryIs, NamedStarts
  <2>4. /\ (CHOOSE x \in {b} : \A c \in {b} : x <= c) = b
        /\ (CHOOSE x \in {b} : \A c \in {b} : x >= c) = b
    BY <2>3
  <2>5. /\ Param!ParamValue(query) = Param!Divide(query, b).value
        /\ Param!PhpParam(query) = Param!trim(Param!Divide(query, b).value)
    <3>1. {b} # {}
      OBVIOUS
    <3>2. Param!ParamValue(query) = Param!Divide(query, b).value
      BY <2>2, <2>4, <3>1 DEF Param!ParamValue
    <3>3. Param!PhpParam(query) = Param!trim(Param!Divide(query, b).value)
      BY <2>2, <2>4, <3>1 DEF Param!PhpParam
    <3> QED
      BY <3>2, <3>3
  <2> QED
    BY <2>1, <2>5
<1> QED
  BY <1>2, <1>3

\* Nothing is encoded, and "class" is the whole name of parameters with a value.
Clear(q) ==
  \A i \in DOMAIN q :
    /\ ~ q[i].encoded /\ q[i] # Param!Plain(Param!Plus)
    /\ q[i] = Param!Plain(Param!Class) =>
         i \in Param!PartStarts(q) /\ i < Len(q) /\ q[i + 1] = Param!Plain(Param!Equals)

LEMMA ClearDecoded ==
  ASSUME NEW s \in Seq(Token),
         \A i \in 1 .. Len(s) : ~ s[i].encoded /\ s[i] # Param!Plain(Param!Plus)
  PROVE  Param!Decode(s) = s
<1>1. DOMAIN s = 1 .. Len(s) /\ s = [i \in 1 .. Len(s) |-> s[i]]
  BY LenProperties
<1>2. ASSUME NEW i \in 1 .. Len(s)
      PROVE  (IF s[i] = Param!Plain(Param!Plus) THEN Param!Plain(Param!Space)
              ELSE Param!Plain(s[i].ch)) = s[i]
  <2>1. s[i] \in Token
    BY ElementOfSeq
  <2> QED
    BY <1>2, <2>1 DEF Token, Param!Plain
<1>3. Param!Decode(s) = [i \in 1 .. Len(s) |->
        IF s[i] = Param!Plain(Param!Plus) THEN Param!Plain(Param!Space)
        ELSE Param!Plain(s[i].ch)]
  BY <1>1 DEF Param!Decode
<1> QED
  BY <1>1, <1>2, <1>3

LEMMA ClearPiece ==
  ASSUME NEW q \in Seq(Token), Clear(q), NEW a \in 1 .. (Len(q) + 1),
         NEW e \in a .. (Len(q) + 1)
  PROVE  Param!Decode(SubSeq(q, a, e - 1)) = SubSeq(q, a, e - 1)
<1> DEFINE s == SubSeq(q, a, e - 1)
<1>1. s \in Seq(Token) /\ Len(s) = e - a /\ \A k \in 1 .. (e - a) : s[k] = q[a + k - 1]
  BY PieceIs
<1>2. \A k \in 1 .. (e - a) : a + k - 1 \in DOMAIN q
  BY LenProperties
<1> HIDE DEF s
<1>3. Param!Decode(s) = s
  BY <1>1, <1>2, ClearDecoded DEF Clear
<1> QED
  BY <1>3 DEF s

\* A part that is named "class" begins with that word.
LEMMA ClearNamed ==
  ASSUME NEW q \in Seq(Token), Clear(q)
  PROVE  Param!Named(q) = ClassMarks(q) /\ \A b \in ClassMarks(q) : ClassAt(q, b)
<1>1. Len(q) \in Nat /\ DOMAIN q = 1 .. Len(q)
  BY LenProperties
<1>2. ASSUME NEW b \in ClassMarks(q) PROVE ClassAt(q, b) /\ b \in Param!Named(q)
  <2>1. /\ b \in DOMAIN q /\ b < Len(q)
        /\ q[b] = Param!Plain(Param!Class) /\ q[b + 1] = Param!Plain(Param!Equals)
    BY <1>1 DEF ClassMarks
  <2>2. ClassAt(q, b)
    BY <2>1 DEF Clear, ClassAt
  <2> QED
    BY <2>2, NamedClass
<1>3. ASSUME NEW b \in Param!Named(q) PROVE b \in ClassMarks(q)
  <2> DEFINE e == Param!PartEnd(q, b)
             part == SubSeq(q, b, e - 1)
             at == Param!Find(part, Param!Plain(Param!Equals), 1)
             word == SubSeq(part, 1, at - 1)
  <2>1. b \in 1 .. Len(q) /\ b \in 1 .. (Len(q) + 1)
    BY <1>1, NamedStarts
  <2>2. e \in b .. (Len(q) + 1)
    BY <2>1, FindExists DEF Param!PartEnd
  <2> HIDE DEF e
  <2>3. /\ part \in Seq(Token) /\ Len(part) = e - b /\ e - b \in Nat
        /\ \A k \in 1 .. (e - b) : part[k] = q[b + k - 1]
    BY <1>1, <2>1, <2>2, PieceIs
  <2>4. \A k \in 1 .. Len(part) : b + k - 1 \in DOMAIN q
    BY <1>1, <2>1, <2>2, <2>3
  <2>5. Param!Divide(q, b).key = Param!Decode(word)
    BY DEF Param!Divide, e
  <2> HIDE DEF part
  <2>6. at \in 1 .. (Len(part) + 1)
    <3>1. 1 \in 1 .. (Len(part) + 1)
      BY <2>3
    <3> QED
      BY <2>3, <3>1, FindExists
  <2> HIDE DEF at
  <2>7. /\ word \in Seq(Token) /\ Len(word) = at - 1
        /\ \A k \in 1 .. (at - 1) : word[k] = part[1 + k - 1]
    <3>1. 1 \in 1 .. (Len(part) + 1)
      BY <2>3
    <3> QED
      BY <2>3, <2>6, <3>1, PieceIs
  <2> HIDE DEF word
  <2>8. Param!Decode(word) = word
    <3>1. ASSUME NEW k \in 1 .. Len(word)
          PROVE  ~ word[k].encoded /\ word[k] # Param!Plain(Param!Plus)
      <4>1. k \in 1 .. Len(part) /\ 1 + k - 1 = k /\ k \in 1 .. (at - 1)
        BY <2>3, <2>6, <2>7
      <4>2. word[k] = q[b + k - 1] /\ b + k - 1 \in DOMAIN q
        BY <4>1, <2>3, <2>4, <2>7
      <4> QED
        BY <4>2 DEF Clear
    <3> QED
      BY <3>1, <2>7, ClearDecoded
  <2>9. word = <<Param!Plain(Param!Class)>>
    BY <2>5, <2>8 DEF Param!Named
  <2>10. Len(word) = 1 /\ word[1] = Param!Plain(Param!Class)
    BY <2>9
  <2>11. q[b] = Param!Plain(Param!Class)
    <3>0. Len(part) \in Nat /\ Len(part) = e - b
      BY <2>3
    <3>2. at <= Len(part) + 1 /\ at - 1 = 1
      <4>1. at \in Nat /\ at <= Len(part) + 1
        BY <2>6, <3>0
      <4> HIDE DEF at
      <4> QED
        BY <2>7, <2>10, <4>1
    <3>1. 1 \in 1 .. (at - 1) /\ 1 + 1 - 1 = 1 /\ b + 1 - 1 = b
      BY <2>1, <3>2
    <3>3. 1 \in 1 .. (e - b)
      BY <3>0, <3>2
    <3> QED
      BY <3>1, <3>3, <2>3, <2>7, <2>10
  <2>12. b < Len(q) /\ q[b + 1] = Param!Plain(Param!Equals)
    BY <1>1, <2>1, <2>11 DEF Clear
  <2> QED
    BY <1>1, <2>1, <2>11, <2>12 DEF ClassMarks
<1> QED
  BY <1>2, <1>3

LEMMA SchemesAgree ==
  ASSUME NEW q \in Seq(Token), Clear(q)
  PROVE  Param!ParamValue(q) = Param!ParseClassParam(q)
<1>1. Param!Named(q) = ClassMarks(q) /\ \A b \in ClassMarks(q) : ClassAt(q, b)
  BY ClearNamed
<1>2. CASE ClassMarks(q) = {}
  BY <1>1, <1>2 DEF Param!ParamValue, Param!ParseClassParam, ClassMarks
<1>3. CASE ClassMarks(q) # {}
  <2>1. ClassMarks(q) \in SUBSET Nat /\ ClassMarks(q) \in SUBSET Int
    BY DEF ClassMarks
  <2>2. PICK b \in ClassMarks(q) : \A r \in ClassMarks(q) : b <= r
    BY <1>3, <2>1, LeastOne
  <2>3. (CHOOSE p \in ClassMarks(q) : \A r \in ClassMarks(q) : p <= r) = b
    BY <2>1, <2>2, LeastIs
  <2>4. Param!ParamValue(q) = Param!Divide(q, b).value
    BY <1>1, <1>3, <2>3 DEF Param!ParamValue
  <2>5. Param!Divide(q, b).value = Param!Decode(SubSeq(q, b + 2, ValueEnd(q, b) - 1))
        /\ ValueEnd(q, b) \in b + 2 .. (Len(q) + 1)
    BY <1>1, <2>2, ClassDivided
  <2>6. b + 2 \in 1 .. (Len(q) + 1)
    <3>1. Len(q) \in Nat
      BY LenProperties
    <3> QED
      BY <2>2, <3>1 DEF ClassMarks
  <2>7. Param!Divide(q, b).value = SubSeq(q, b + 2, ValueEnd(q, b) - 1)
    BY <2>5, <2>6, ClearPiece
  <2>8. Param!ParseClassParam(q) = SubSeq(q, b + 2, ValueEnd(q, b) - 1)
    BY <2>2, SchemeDIs
  <2> QED
    BY <2>4, <2>7, <2>8
<1> QED
  BY <1>2, <1>3

LEMMA TypesAgree == ParamTypes => Param!ProgramsAgree
<1> SUFFICES ASSUME ParamTypes PROVE Param!ProgramsAgree
  OBVIOUS
<1>1. Clear(query) => Param!ParamValue(query) = Param!ParseClassParam(query)
  BY QueryIs, SchemesAgree
<1> QED
  BY <1>1, PhpAgrees DEF Param!ProgramsAgree, Clear

LEMMA ParamTypesKept == MCSpec => [](turn = "param" => ParamTypes)
<1> DEFINE Inv == turn = "param" => ParamTypes
<1>1. MCInit => Inv
  BY EmptySeq DEF MCInit, Param!Init, ParamTypes
<1>2. Inv /\ [MCNext]_all => Inv'
  <2> SUFFICES ASSUME Inv, [MCNext]_all, turn' = "param" PROVE ParamTypes'
    OBVIOUS
  <2>1. CASE UNCHANGED all
    BY <2>1 DEF all, paramVars, ParamTypes, Param!Plain, Param!Tokens, Param!Encoded
  <2>2. CASE MCNext
    <3>1. turn = "param" /\ ParamTypes /\ Param!Next
      BY <2>2 DEF MCNext
    <3>2. CASE Param!ExtendName
      BY <3>1, <3>2, AppendProperties DEF Param!ExtendName, ParamTypes
    <3>3. CASE Param!ExtendQuery
      BY <3>1, <3>3, AppendProperties DEF Param!ExtendQuery, ParamTypes
    <3> QED
      BY <3>1, <3>2, <3>3 DEF Param!Next
  <2> QED
    BY <2>1, <2>2
<1> QED
  BY <1>1, <1>2, PTL DEF MCSpec

\* For any class name and any query string over any characters: the class
\* chosen in the menu is the one filtered by (httplib.h parse_query_text and
\* get_param_value in scheme A, ParseClassParam in scheme D, $_GET in PHP).
THEOREM ChosenClassArrives == MCSpec => []ChosenReachesFilter
<1>1. (turn = "param" => ParamTypes) => ChosenReachesFilter
  BY TypesReachFilter DEF ChosenReachesFilter
<1> QED
  BY <1>1, ParamTypesKept, PTL

\* For any query string over any characters: the three programs find the same
\* filter in it, under the conditions ProgramsAgree names.
THEOREM SameFilterFound == MCSpec => []ProgramsAgree
<1>1. (turn = "param" => ParamTypes) => ProgramsAgree
  BY TypesAgree DEF ProgramsAgree
<1> QED
  BY <1>1, ParamTypesKept, PTL

-----------------------------------------------------------------------------
(* The types of a form that is being parsed, for any forms. *)

FBytes == Seq(Form!Byte)

LEMMA FormLiterals ==
  /\ Form!dash_ \in FBytes /\ Form!crlf_ \in FBytes /\ Form!boundary_ \in FBytes
  /\ Form!crlf_dash_boundary_ \in FBytes /\ Form!dash_boundary_crlf_ \in FBytes
  /\ Len(Form!dash_boundary_crlf_) = 5 /\ Len(Form!crlf_dash_boundary_) = 5
  /\ Len(Form!crlf_) = 2
<1>1. Form!dash_ \in FBytes /\ Form!crlf_ \in FBytes /\ Form!boundary_ \in FBytes
      /\ Len(Form!dash_) = 2 /\ Len(Form!crlf_) = 2 /\ Len(Form!boundary_) = 1
  BY DEF Form!dash_, Form!crlf_, Form!boundary_, FBytes, Form!Byte
<1>2. \A s, t, u \in FBytes : s \o t \o u \in FBytes /\ Len(s \o t \o u) = Len(s) + Len(t) + Len(u)
  <2>1. ASSUME NEW s \in FBytes, NEW t \in FBytes, NEW u \in FBytes
        PROVE  s \o t \o u \in FBytes /\ Len(s \o t \o u) = Len(s) + Len(t) + Len(u)
    BY <2>1, ConcatProperties DEF FBytes
  <2> QED
    BY <2>1
<1>3. Form!crlf_dash_boundary_ \in FBytes
      /\ Len(Form!crlf_dash_boundary_) = Len(Form!crlf_) + Len(Form!dash_) + Len(Form!boundary_)
  BY <1>1, <1>2, Zenon DEF Form!crlf_dash_boundary_
<1>4. /\ (Form!dash_ \o Form!boundary_) \o Form!crlf_ \in FBytes
      /\ Len((Form!dash_ \o Form!boundary_) \o Form!crlf_)
           = Len(Form!dash_) + Len(Form!boundary_) + Len(Form!crlf_)
  BY <1>1, <1>2, Zenon
<1>5. Form!dash_boundary_crlf_ \in FBytes
      /\ Len(Form!dash_boundary_crlf_) = Len(Form!dash_) + Len(Form!boundary_) + Len(Form!crlf_)
  BY <1>4, Zenon DEF Form!dash_boundary_crlf_
<1> QED
  BY <1>1, <1>3, <1>5

LEMMA BytesJoin ==
  ASSUME NEW s \in FBytes, NEW t \in FBytes
  PROVE  s \o t \in FBytes
BY ConcatProperties DEF FBytes

LEMMA FormFlatten ==
  ASSUME NEW s \in Seq(FBytes)
  PROVE  Form!FlattenSeq(s) \in FBytes
<1>1. Form!FlattenSeq(s) = Seqs!FlattenSeq(s)
  BY DEF Form!FlattenSeq, Seqs!FlattenSeq
<1>2. s \in Seq(Seq(Form!Byte))
  BY DEF FBytes
<1>3. Seqs!FlattenSeq(s) \in Seq(Form!Byte)
  BY <1>2, FlattenType
<1> QED
  BY <1>1, <1>3 DEF FBytes

LEMMA WrittenType ==
  ASSUME NEW p \in Form!Part
  PROVE  Form!Written(p) \in FBytes
<1> DEFINE s == [i \in DOMAIN p.lines |-> p.lines[i] \o Form!crlf_]
<1>1. p.lines \in Seq(FBytes) /\ p.content \in FBytes
  BY DEF Form!Part, FBytes
<1>2. DOMAIN p.lines = 1 .. Len(p.lines) /\ Len(p.lines) \in Nat
  BY <1>1, LenProperties
<1>3. \A i \in 1 .. Len(p.lines) : p.lines[i] \o Form!crlf_ \in FBytes
  <2>1. ASSUME NEW i \in 1 .. Len(p.lines) PROVE p.lines[i] \o Form!crlf_ \in FBytes
    <3>1. p.lines[i] \in FBytes
      BY <1>1, ElementOfSeq
    <3> QED
      BY <3>1, FormLiterals, BytesJoin
  <2> QED
    BY <2>1
<1>4. s \in Seq(FBytes)
  <2>1. s = [i \in 1 .. Len(p.lines) |-> p.lines[i] \o Form!crlf_]
    BY <1>2
  <2>2. s \in [1 .. Len(p.lines) -> FBytes]
    BY <1>3, <2>1
  <2> HIDE DEF s
  <2> QED
    BY <1>2, <2>2
<1> HIDE DEF s
<1>5. Form!FlattenSeq(s) \in FBytes
  BY <1>4, FormFlatten
<1>6. Form!FlattenSeq(s) \o Form!crlf_ \in FBytes
  BY <1>5, FormLiterals, BytesJoin
<1>7. (Form!FlattenSeq(s) \o Form!crlf_) \o p.content \in FBytes
  BY <1>1, <1>6, BytesJoin
<1> QED
  BY <1>7, Zenon DEF Form!Written, s

LEMMA EncodedType ==
  ASSUME NEW b \in Form!Body
  PROVE  Form!Encoded(b) \in FBytes
<1> DEFINE each(i) == Form!crlf_ \o Form!Written(b.parts[i]) \o Form!crlf_dash_boundary_
           s == [i \in DOMAIN b.parts |-> each(i)]
           f == Form!FlattenSeq(s)
           everything == b.preamble \o Form!dash_ \o Form!boundary_ \o f \o Form!dash_ \o b.epilogue
<1>1. /\ b.parts \in Seq(Form!Part) /\ b.preamble \in FBytes /\ b.epilogue \in FBytes
      /\ b.cut \in Nat
  BY DEF Form!Body, FBytes
<1>2. DOMAIN b.parts = 1 .. Len(b.parts) /\ Len(b.parts) \in Nat
  BY <1>1, LenProperties
<1>3. ASSUME NEW i \in 1 .. Len(b.parts) PROVE each(i) \in FBytes
  <2>1. b.parts[i] \in Form!Part
    BY <1>1, ElementOfSeq
  <2>2. Form!Written(b.parts[i]) \in FBytes
    BY <2>1, WrittenType
  <2>3. Form!crlf_ \o Form!Written(b.parts[i]) \in FBytes
    BY <2>2, FormLiterals, BytesJoin
  <2> QED
    BY <2>3, FormLiterals, BytesJoin
<1>4. s \in Seq(FBytes)
  <2> HIDE DEF each
  <2>1. s = [i \in 1 .. Len(b.parts) |-> each(i)]
    BY <1>2
  <2>2. s \in [1 .. Len(b.parts) -> FBytes]
    BY <1>3, <2>1
  <2> HIDE DEF s
  <2> QED
    BY <1>2, <2>2
<1>5. f \in FBytes
  <2> HIDE DEF s
  <2> QED
    BY <1>4, FormFlatten
<1> HIDE DEF f
<1>6. b.preamble \o Form!dash_ \in FBytes
  BY <1>1, FormLiterals, BytesJoin
<1>7. (b.preamble \o Form!dash_) \o Form!boundary_ \in FBytes
  BY <1>6, FormLiterals, BytesJoin
<1>8. ((b.preamble \o Form!dash_) \o Form!boundary_) \o f \in FBytes
  BY <1>5, <1>7, BytesJoin
<1>9. (((b.preamble \o Form!dash_) \o Form!boundary_) \o f) \o Form!dash_ \in FBytes
  BY <1>8, FormLiterals, BytesJoin
<1>10. everything \in FBytes
  BY <1>1, <1>9, BytesJoin
<1> HIDE DEF everything
<1>11. SubSeq(everything, 1, Len(everything) - b.cut) \in FBytes
  <2>1. Len(everything) \in Nat /\ Len(everything) - b.cut \in Int
    BY <1>1, <1>10, LenProperties DEF FBytes
  <2>2. \A i \in 1 .. Len(everything) - b.cut : everything[i] \in Form!Byte
    <3>1. \A i \in 1 .. Len(everything) - b.cut : i \in 1 .. Len(everything)
      BY <1>1, <2>1
    <3> QED
      BY <1>10, <3>1, ElementOfSeq DEF FBytes
  <2> QED
    BY <2>1, <2>2, SubSeqProperties DEF FBytes
<1> QED
  BY <1>11, Zenon DEF Form!Encoded, everything, f, s, each

LEMMA FormTypeInitially == Form!Init => Form!TypeOK
<1> SUFFICES ASSUME Form!Init PROVE Form!TypeOK
  OBVIOUS
<1>1. body \in Bodies /\ body \in Form!Body
  BY FormsAssumption DEF Form!Init, Form!MultipartAssumption
<1>2. input \in Seq(Form!Byte)
  BY <1>1, EncodedType DEF Form!Init, FBytes
<1>3. << >> \in Seq(Form!Byte) /\ << >> \in Seq(Seq(Form!Byte)) /\ << >> \in Seq(Form!Part)
      /\ Len(<< >>) = 0
  BY EmptySeq
<1>4. /\ buf_ = << >> /\ lines = << >> /\ parts = << >> /\ stage = "feed" /\ state_ = 0
      /\ inner = FALSE /\ is_valid_ = FALSE
  BY DEF Form!Init
<1>5. buf_ \in Seq(Form!Byte) /\ lines \in Seq(Seq(Form!Byte)) /\ parts \in Seq(Form!Part)
      /\ Len(parts) = 0
  BY <1>3, <1>4, Zenon
<1>6. Len(parts) <= MaxFiles
  BY <1>5, FormsAssumption DEF Form!MultipartAssumption
<1>7. state_ \in 0 .. 4 /\ state_ \notin {3, 4}
  BY <1>4
<1> QED
  BY <1>1, <1>2, <1>4, <1>5, <1>6, <1>7 DEF Form!TypeOK

\* Beginnings and ends of the buffer.
LEMMA BufferPieces ==
  ASSUME Form!TypeOK, NEW n \in 0 .. Len(buf_)
  PROVE  SubSeq(buf_, 1, n) \in Seq(Form!Byte) /\ Form!Rest(n) \in Seq(Form!Byte)
<1>1. buf_ \in Seq(Form!Byte) /\ Len(buf_) \in Nat
  BY LenProperties DEF Form!TypeOK
<1>2. n \in Int /\ 1 \in Int /\ n + 1 \in Int /\ Len(buf_) \in Int
  BY <1>1
<1>3. \A i \in 1 .. Len(buf_) : buf_[i] \in Form!Byte
  BY <1>1, ElementOfSeq
<1>4. (\A i \in 1 .. n : buf_[i] \in Form!Byte)
      /\ (\A i \in n + 1 .. Len(buf_) : buf_[i] \in Form!Byte)
  <2>1. (\A i \in 1 .. n : i \in 1 .. Len(buf_))
        /\ (\A i \in n + 1 .. Len(buf_) : i \in 1 .. Len(buf_))
    BY <1>1
  <2> QED
    BY <1>3, <2>1
<1>5. SubSeq(buf_, 1, n) \in Seq(Form!Byte)
  BY <1>2, <1>4, SubSeqProperties
<1>6. SubSeq(buf_, n + 1, Len(buf_)) \in Seq(Form!Byte)
  BY <1>2, <1>4, SubSeqProperties
<1> QED
  BY <1>5, <1>6 DEF Form!Rest

\* What is found lies inside the buffer.
LEMMA PositionInside ==
  ASSUME Form!TypeOK, NEW s \in FBytes, Form!Found(s)
  PROVE  /\ Form!Position(s) \in 0 .. Len(buf_)
         /\ Form!Position(s) + Len(s) \in 0 .. Len(buf_)
<1> DEFINE T == { at \in 0 .. Len(buf_) : Form!StartsWith(s, at) }
<1>1. Len(buf_) \in Nat /\ Len(s) \in Nat
  BY LenProperties DEF Form!TypeOK, FBytes
<1>2. T \in SUBSET Nat /\ T # {}
  BY <1>1 DEF Form!Found
<1>3. PICK p \in T : \A y \in T : p <= y
  <2> HIDE DEF T
  <2> QED
    BY <1>2, LeastOne
<1>4. p \in 0 .. Len(buf_) /\ Form!StartsWith(s, p)
  OBVIOUS
<1>5. \A k \in 0 .. p - 1 : ~ Form!StartsWith(s, k)
  <2>1. \A k \in 0 .. p - 1 : k \in 0 .. Len(buf_) /\ ~ (p <= k)
    BY <1>1, <1>4
  <2> QED
    BY <1>3, <2>1
<1> HIDE DEF T
<1>6. Form!Position(s) \in 0 .. Len(buf_) /\ Form!StartsWith(s, Form!Position(s))
  BY <1>4, <1>5 DEF Form!Position
<1>7. Form!Position(s) + Len(s) <= Len(buf_)
  BY <1>6 DEF Form!StartsWith
<1> QED
  BY <1>1, <1>6, <1>7

LEMMA ContentType ==
  ASSUME Form!TypeOK, parts # << >>, NEW n \in 0 .. Len(buf_), Form!Content(n)
  PROVE  parts' \in Seq(Form!Part) /\ Len(parts') = Len(parts) /\ parts' # << >>
<1> DEFINE k == Len(parts)
           p == parts[k]
           c == p.content \o SubSeq(buf_, 1, n)
           q == [p EXCEPT !.content = c]
<1>1. parts \in Seq(Form!Part) /\ k \in Nat \ {0} /\ k \in 1 .. Len(parts)
  BY EmptySeq, LenProperties DEF Form!TypeOK
<1>2. p \in Form!Part
  BY <1>1, ElementOfSeq
<1>3. p.content \in FBytes /\ SubSeq(buf_, 1, n) \in FBytes
  <2>1. p.content \in FBytes
    BY <1>2 DEF Form!Part, FBytes
  <2> QED
    BY <2>1, BufferPieces DEF FBytes
<1>4. c \in FBytes
  BY <1>3, BytesJoin
<1>5. parts' = [parts EXCEPT ![k] = q]
  BY DEF Form!Content
<1> HIDE DEF c, p
<1>6. q \in Form!Part
  BY <1>2, <1>4 DEF Form!Part, FBytes
<1> HIDE DEF q, k
<1>7. /\ [parts EXCEPT ![k] = q] \in Seq(Form!Part)
      /\ Len([parts EXCEPT ![k] = q]) = Len(parts)
  BY <1>1, <1>6, ExceptSeq
<1>8. Len(parts) # 0
  BY <1>1 DEF k
<1> QED
  BY <1>5, <1>7, <1>8, EmptySeq

LEMMA FormTypeKept == Form!TypeOK /\ Form!Next => Form!TypeOK'
<1> SUFFICES ASSUME Form!TypeOK, Form!Next PROVE Form!TypeOK'
  OBVIOUS
<1>1. Len(buf_) \in Nat /\ Len(input) \in Nat /\ Len(parts) \in Nat
      /\ input \in Seq(Form!Byte) /\ buf_ \in Seq(Form!Byte)
  BY LenProperties DEF Form!TypeOK
<1>2. CASE Form!Feed
  <2>1. PICK n \in 1 .. Len(input) :
          /\ buf_' = buf_ \o SubSeq(input, 1, n)
          /\ input' = SubSeq(input, n + 1, Len(input))
    BY <1>2 DEF Form!Feed
  <2>2. \A i \in 1 .. Len(input) : input[i] \in Form!Byte
    BY <1>1, ElementOfSeq
  <2>3. n \in Int /\ n + 1 \in Int /\ Len(input) \in Int /\ 1 \in Int
        /\ (\A i \in 1 .. n : i \in 1 .. Len(input))
        /\ (\A i \in n + 1 .. Len(input) : i \in 1 .. Len(input))
    BY <1>1
  <2>4. SubSeq(input, 1, n) \in Seq(Form!Byte)
    BY <2>2, <2>3, SubSeqProperties
  <2>5. SubSeq(input, n + 1, Len(input)) \in Seq(Form!Byte)
    BY <2>2, <2>3, SubSeqProperties
  <2>6. buf_ \o SubSeq(input, 1, n) \in Seq(Form!Byte)
    BY <1>1, <2>4, BytesJoin DEF FBytes
  <2>7. buf_' \in Seq(Form!Byte) /\ input' \in Seq(Form!Byte)
    BY <2>1, <2>5, <2>6, Zenon
  <2> QED
    BY <1>2, <2>7 DEF Form!Feed, Form!TypeOK
<1>3. CASE Form!Finish \/ Form!BufferEmpty \/ Form!LineTooLong \/ Form!LineUnfinished
  BY <1>3 DEF Form!Finish, Form!BufferEmpty, Form!LineTooLong, Form!LineUnfinished,
       Form!Return, Form!Refuse, Form!TypeOK
<1>4. CASE Form!InitialBoundary
  <2>1. CASE Form!Found(Form!dash_boundary_crlf_)
    <3> DEFINE n == Form!Position(Form!dash_boundary_crlf_) + Len(Form!dash_boundary_crlf_)
    <3>1. n \in 0 .. Len(buf_)
      BY <2>1, FormLiterals, PositionInside
    <3>2. Form!Goto(1, n)
      BY <1>4, <2>1 DEF Form!InitialBoundary
    <3> HIDE DEF n
    <3>3. state_' = 1 /\ buf_' = Form!Rest(n) /\ UNCHANGED stage
      BY <3>2 DEF Form!Goto
    <3>4. buf_' \in Seq(Form!Byte)
      BY <3>1, <3>3, BufferPieces
    <3> QED
      BY <1>4, <3>3, <3>4 DEF Form!InitialBoundary, Form!TypeOK
  <2>2. CASE ~ Form!Found(Form!dash_boundary_crlf_)
    BY <1>4, <2>2 DEF Form!InitialBoundary, Form!Return, Form!TypeOK
  <2> QED
    BY <2>1, <2>2
<1>5. CASE Form!NewEntry
  <2>1. 0 \in 0 .. Len(buf_)
    BY <1>1
  <2>2. state_' = 2 /\ buf_' = Form!Rest(0) /\ UNCHANGED stage
    BY <1>5 DEF Form!NewEntry, Form!Goto
  <2>3. buf_' \in Seq(Form!Byte)
    BY <2>1, <2>2, BufferPieces
  <2>4. << >> \in Seq(Seq(Form!Byte))
    BY EmptySeq
  <2> QED
    BY <1>5, <2>2, <2>3, <2>4 DEF Form!NewEntry, Form!TypeOK
<1>6. CASE Form!HeaderLine
  <2> DEFINE line == SubSeq(buf_, 1, Form!LineEnd)
  <2>1. Form!LineEnd \in 0 .. Len(buf_) /\ Form!LineEnd + Len(Form!crlf_) \in 0 .. Len(buf_)
    BY <1>6, FormLiterals, PositionInside DEF Form!HeaderLine, Form!LineEnd
  <2>2. line \in Seq(Form!Byte)
    BY <2>1, BufferPieces
  <2>3. CASE line[1] = "g"
    BY <1>6, <2>3 DEF Form!HeaderLine, Form!Refuse, Form!TypeOK
  <2>4. CASE line[1] # "g"
    <3>1. /\ Form!Goto(2, Form!LineEnd + Len(Form!crlf_)) /\ inner' = TRUE
          /\ lines' = Append(lines, line) /\ UNCHANGED is_valid_
          /\ UNCHANGED <<body, input, parts>>
      BY <1>6, <2>4 DEF Form!HeaderLine
    <3> HIDE DEF line
    <3>2. lines' \in Seq(Seq(Form!Byte))
      BY <2>2, <3>1, AppendProperties DEF Form!TypeOK
    <3>3. state_' = 2 /\ buf_' = Form!Rest(Form!LineEnd + Len(Form!crlf_)) /\ UNCHANGED stage
      BY <3>1 DEF Form!Goto
    <3>4. buf_' \in Seq(Form!Byte)
      BY <2>1, <3>3, BufferPieces
    <3> QED
      BY <3>1, <3>2, <3>3, <3>4 DEF Form!TypeOK
  <2> QED
    BY <2>3, <2>4
<1>7. CASE Form!EmptyLine
  <2>1. CASE Len(parts) = MaxFiles
    BY <1>7, <2>1 DEF Form!EmptyLine, Form!Refuse, Form!TypeOK
  <2>2. CASE Len(parts) # MaxFiles
    <3> DEFINE p == [lines |-> lines, content |-> << >>]
    <3>1. /\ Form!Goto(3, Len(Form!crlf_)) /\ parts' = Append(parts, p)
          /\ UNCHANGED is_valid_ /\ UNCHANGED <<body, input, inner, lines>>
      BY <1>7, <2>2 DEF Form!EmptyLine
    <3>2. p \in Form!Part
      BY EmptySeq DEF Form!Part, Form!TypeOK
    <3> HIDE DEF p
    <3>3. parts' \in Seq(Form!Part) /\ parts' # << >> /\ Len(parts') = Len(parts) + 1
      BY <3>1, <3>2, AppendProperties DEF Form!TypeOK
    <3>4. Len(parts') <= MaxFiles
      <4>1. Len(parts) \in Nat /\ Len(parts) <= MaxFiles
        BY <1>1 DEF Form!TypeOK
      <4>2. Len(parts') = Len(parts) + 1
        BY <3>3
      <4>3. MaxFiles \in Nat
        BY FormsAssumption DEF Form!MultipartAssumption
      <4> QED
        BY <2>2, <4>1, <4>2, <4>3
    <3>5. Len(Form!crlf_) \in 0 .. Len(buf_)
      <4>1. Form!Found(Form!crlf_) /\ Form!Position(Form!crlf_) = 0
        BY <1>7 DEF Form!EmptyLine, Form!LineEnd
      <4>2. Form!Position(Form!crlf_) + Len(Form!crlf_) \in 0 .. Len(buf_)
        BY <4>1, FormLiterals, PositionInside
      <4> QED
        BY <4>1, <4>2, FormLiterals
    <3>6. state_' = 3 /\ buf_' = Form!Rest(Len(Form!crlf_)) /\ UNCHANGED stage
      BY <3>1 DEF Form!Goto
    <3>7. buf_' \in Seq(Form!Byte)
      BY <3>5, <3>6, BufferPieces
    <3> QED
      BY <3>1, <3>3, <3>4, <3>6, <3>7 DEF Form!TypeOK
  <2> QED
    BY <2>1, <2>2
<1>8. CASE Form!ReadContent
  <2> DEFINE d == Form!crlf_dash_boundary_
  <2>1. parts # << >> /\ state_ = 3 /\ UNCHANGED <<body, input, inner, is_valid_, lines>>
    BY <1>8 DEF Form!ReadContent, Form!Running, Form!TypeOK
  <2>2. Len(d) = 5 /\ d \in FBytes
    BY FormLiterals
  <2>3. CASE Len(d) > Len(buf_)
    BY <1>8, <2>1, <2>3 DEF Form!ReadContent, Form!Return, Form!TypeOK
  <2>4. CASE ~ (Len(d) > Len(buf_)) /\ Form!Found(d)
    <3> DEFINE n == Form!Position(d)
    <3>1. Form!Content(n) /\ Form!Goto(4, n + Len(d))
      BY <1>8, <2>4 DEF Form!ReadContent
    <3>2. n \in 0 .. Len(buf_) /\ n + Len(d) \in 0 .. Len(buf_)
      BY <2>2, <2>4, PositionInside
    <3> HIDE DEF n, d
    <3>3. parts' \in Seq(Form!Part) /\ Len(parts') = Len(parts) /\ parts' # << >>
      BY <2>1, <3>1, <3>2, ContentType
    <3>4. state_' = 4 /\ buf_' = Form!Rest(n + Len(d)) /\ UNCHANGED stage
      BY <3>1 DEF Form!Goto
    <3>5. buf_' \in Seq(Form!Byte)
      BY <3>2, <3>4, BufferPieces
    <3> QED
      BY <2>1, <3>3, <3>4, <3>5 DEF Form!TypeOK
  <2>5. CASE ~ (Len(d) > Len(buf_)) /\ ~ Form!Found(d)
    <3> DEFINE n == Len(buf_) - Len(d)
    <3>1. Form!Content(n) /\ buf_' = Form!Rest(n) /\ stage' = "feed" /\ UNCHANGED state_
      BY <1>8, <2>5 DEF Form!ReadContent
    <3>2. n \in 0 .. Len(buf_)
      BY <1>1, <2>2, <2>5
    <3> HIDE DEF n, d
    <3>3. parts' \in Seq(Form!Part) /\ Len(parts') = Len(parts) /\ parts' # << >>
      BY <2>1, <3>1, <3>2, ContentType
    <3>4. buf_' \in Seq(Form!Byte)
      BY <3>1, <3>2, BufferPieces
    <3> QED
      BY <2>1, <3>1, <3>3, <3>4 DEF Form!TypeOK
  <2> QED
    BY <2>3, <2>4, <2>5
<1>9. CASE Form!Boundary
  <2>1. CASE Form!StartsWith(Form!crlf_, 0)
    <3>1. Len(Form!crlf_) \in 0 .. Len(buf_)
      BY <1>1, <2>1, FormLiterals DEF Form!StartsWith
    <3>2. /\ state_' = 1 /\ buf_' = Form!Rest(Len(Form!crlf_)) /\ UNCHANGED stage
          /\ UNCHANGED is_valid_
      BY <1>9, <2>1 DEF Form!Boundary, Form!Goto
    <3>3. buf_' \in Seq(Form!Byte)
      BY <3>1, <3>2, BufferPieces
    <3> QED
      BY <1>9, <3>2, <3>3 DEF Form!Boundary, Form!TypeOK
  <2>2. CASE ~ Form!StartsWith(Form!crlf_, 0) /\ Form!StartsWith(Form!dash_, 0)
    <3>1. Len(buf_) \in 0 .. Len(buf_)
      BY <1>1
    <3>2. /\ state_' = 4 /\ buf_' = Form!Rest(Len(buf_)) /\ UNCHANGED stage
          /\ is_valid_' = TRUE /\ state_ = 4
      BY <1>9, <2>2 DEF Form!Boundary, Form!Goto, Form!Running
    <3>3. buf_' \in Seq(Form!Byte)
      BY <3>1, <3>2, BufferPieces
    <3> QED
      BY <1>9, <3>2, <3>3 DEF Form!Boundary, Form!TypeOK
  <2>3. CASE ~ Form!StartsWith(Form!crlf_, 0) /\ ~ Form!StartsWith(Form!dash_, 0)
    BY <1>9, <2>3 DEF Form!Boundary, Form!Return, Form!TypeOK
  <2> QED
    BY <2>1, <2>2, <2>3
<1> QED
  BY <1>2, <1>3, <1>4, <1>5, <1>6, <1>7, <1>8, <1>9 DEF Form!Next

LEMMA FormTypesHold == MCSpec => [](turn = "form" => Form!TypeOK)
<1> DEFINE Inv == turn = "form" => Form!TypeOK
<1>1. MCInit => Inv
  BY FormTypeInitially DEF MCInit
<1>2. Inv /\ [MCNext]_all => Inv'
  <2> SUFFICES ASSUME Inv, [MCNext]_all, turn' = "form" PROVE Form!TypeOK'
    OBVIOUS
  <2>1. CASE UNCHANGED all
    BY <2>1 DEF all, formVars, bothVars, Form!TypeOK
  <2>2. CASE MCNext
    <3>1. turn = "form" /\ Form!Next
      BY <2>2 DEF MCNext
    <3> QED
      BY <3>1, FormTypeKept
  <2> QED
    BY <2>1, <2>2
<1> QED
  BY <1>1, <1>2, PTL DEF MCSpec

\* The types of all the parts, for any tables, headers and forms: the keys of
\* the schema hold, the parser of a form (FormDataParser::parse) hands nothing
\* on before a part has begun, and never more parts than it may.
THEOREM ConversionTypesCorrect == MCSpec => []TypesOK
<1>1. (turn = "report" => Legal) /\ (turn = "range" => RangesInv)
        /\ (turn = "form" => Form!TypeOK) => TypesOK
  BY DEF TypesOK, Legal, RangesInv, TypeOK
<1> QED
  BY <1>1, LegalHolds, RangesHold, FormTypesHold, PTL

-----------------------------------------------------------------------------
(* The texts of the page.  Both programs write a character that means       *)
(* something in HTML as a reference; of such a table of references only     *)
(* this is used.                                                            *)

Escaped == {"&", "<", ">", "\"", "'"}

IsTable(ref) ==
  /\ DOMAIN ref = Escaped
  /\ \A c \in Escaped : /\ ref[c] \in DOMAIN Page!Reference \ Escaped
                        /\ Page!Reference[ref[c]] = c

\* What is written, and what is read of it.
Marks == Page!Tokens \cup DOMAIN Page!Reference

WrittenPieces(text, ref) ==
  [ i \in DOMAIN text |->
      IF text[i] \in DOMAIN ref THEN <<"&", ref[text[i]]>> ELSE <<text[i]>> ]

Begins(m, i) == m[i] = "&" /\ i < Len(m) /\ m[i + 1] \in DOMAIN Page!Reference

ReadPieces(m) ==
  [ i \in DOMAIN m |->
      IF Begins(m, i) THEN <<Page!Reference[m[i + 1]]>>
      ELSE IF i > 1 /\ Begins(m, i - 1) THEN << >> ELSE <<m[i]>> ]

\* Quote is a name for the solvers.
Quote == "\""

LEMMA SameFlattenText == \A s : Page!FlattenSeq(s) = Seqs!FlattenSeq(s)
BY DEF Page!FlattenSeq, Seqs!FlattenSeq

LEMMA SameCardinality == \A S : Page!Cardinality(S) = Cardinality(S)
BY DEF Page!Cardinality, Cardinality, Page!IsFiniteSet, IsFiniteSet

LEMMA WrittenOf ==
  ASSUME NEW text, NEW ref
  PROVE  Page!Written(text, ref) = Seqs!FlattenSeq(WrittenPieces(text, ref))
BY SameFlattenText DEF Page!Written, WrittenPieces

LEMMA PlainOf ==
  ASSUME NEW m
  PROVE  Page!Plain(m) = Seqs!FlattenSeq(ReadPieces(m))
BY SameFlattenText DEF Page!Plain, ReadPieces, Begins

\* Both tables are such.
LEMMA Tables ==
  /\ \E ref : IsTable(ref) /\ \A text : Page!EscapeHtml(text) = Page!Written(text, ref)
  /\ \E ref : IsTable(ref) /\ \A text : Page!htmlspecialchars(text) = Page!Written(text, ref)
<1>1. \E ref : IsTable(ref) /\ \A text : Page!EscapeHtml(text) = Page!Written(text, ref)
  <2> DEFINE ref == [ c \in {"&", "<", ">", "\"", "'"} |->
        CASE c = "&" -> "amp;" [] c = "<" -> "lt;" [] c = ">" -> "gt;"
          [] c = "\"" -> "quot;" [] c = "'" -> "#39;" ]
  <2>1. IsTable(ref)
    BY DEF IsTable, Escaped, Page!Reference
  <2>2. \A text : Page!EscapeHtml(text) = Page!Written(text, ref)
    BY DEF Page!EscapeHtml
  <2> QED
    BY <2>1, <2>2
<1>2. \E ref : IsTable(ref) /\ \A text : Page!htmlspecialchars(text) = Page!Written(text, ref)
  <2> DEFINE ref == [ c \in {"&", "<", ">", "\"", "'"} |->
        CASE c = "&" -> "amp;" [] c = "<" -> "lt;" [] c = ">" -> "gt;"
          [] c = "\"" -> "quot;" [] c = "'" -> "#039;" ]
  <2>1. IsTable(ref)
    BY DEF IsTable, Escaped, Page!Reference
  <2>2. \A text : Page!htmlspecialchars(text) = Page!Written(text, ref)
    BY DEF Page!htmlspecialchars
  <2> QED
    BY <2>1, <2>2
<1> QED
  BY <1>1, <1>2

\* What holds of a text in its written form.
ReadBack(text, m) ==
  /\ m \in Seq(Marks)
  /\ \A i \in 1 .. Len(m) : m[i] \notin {"<", ">", "\""}
  /\ Len(m) > 0 => m[Len(m)] # "&"
  /\ Page!Plain(m) = text

LEMMA PiecesType ==
  ASSUME NEW text \in Seq(Page!Tokens), NEW ref, IsTable(ref)
  PROVE  /\ WrittenPieces(text, ref) \in Seq(Seq(Marks))
         /\ Len(WrittenPieces(text, ref)) = Len(text)
<1>1. Len(text) \in Nat /\ DOMAIN text = 1 .. Len(text)
  BY LenProperties
<1>2. ASSUME NEW i \in 1 .. Len(text) PROVE WrittenPieces(text, ref)[i] \in Seq(Marks)
  <2>1. text[i] \in Page!Tokens
    BY ElementOfSeq
  <2>2. "&" \in Marks /\ text[i] \in Marks
    BY <2>1 DEF Marks, Page!Tokens
  <2>3. text[i] \in DOMAIN ref => ref[text[i]] \in Marks
    BY DEF IsTable, Marks
  <2> QED
    BY <1>1, <2>2, <2>3 DEF WrittenPieces
<1>3. WrittenPieces(text, ref) \in [1 .. Len(text) -> Seq(Marks)]
  BY <1>1, <1>2 DEF WrittenPieces
<1> QED
  BY <1>1, <1>3, LenProperties

LEMMA ShownType ==
  ASSUME NEW m \in Seq(Marks)
  PROVE  ReadPieces(m) \in Seq(Seq(Marks)) /\ Len(ReadPieces(m)) = Len(m)
<1>1. Len(m) \in Nat /\ DOMAIN m = 1 .. Len(m)
  BY LenProperties
<1>2. ASSUME NEW i \in 1 .. Len(m) PROVE ReadPieces(m)[i] \in Seq(Marks)
  <2>1. m[i] \in Marks
    BY ElementOfSeq
  <2>2. Begins(m, i) => Page!Reference[m[i + 1]] \in Marks
    BY DEF Begins, Page!Reference, Marks, Page!Tokens
  <2>3. CASE Begins(m, i)
    BY <1>1, <2>2, <2>3 DEF ReadPieces
  <2>4. CASE ~ Begins(m, i)
    BY <1>1, <2>1, <2>4 DEF ReadPieces
  <2> QED
    BY <2>3, <2>4
<1>3. ReadPieces(m) \in [1 .. Len(m) -> Seq(Marks)]
  BY <1>1, <1>2 DEF ReadPieces
<1> QED
  BY <1>1, <1>3, LenProperties

\* A text that is one token longer.
LEMMA OneMore ==
  ASSUME NEW text \in Seq(Page!Tokens), NEW front \in Seq(Page!Tokens), NEW t \in Page!Tokens,
         NEW ref, IsTable(ref), text = Append(front, t)
  PROVE  IsJoin(Page!Written(text, ref), Page!Written(front, ref),
                IF t \in Escaped THEN <<"&", ref[t]>> ELSE <<t>>)
<1> DEFINE n == Len(front)
<1>1. n \in Nat /\ Len(text) = n + 1 /\ text[n + 1] = t
      /\ \A i \in 1 .. n : text[i] = front[i]
  BY LenProperties, AppendProperties
<1>2. DOMAIN text = 1 .. (n + 1) /\ DOMAIN front = 1 .. n
  BY <1>1, LenProperties
<1>3. /\ WrittenPieces(text, ref) \in Seq(Seq(Marks)) /\ Len(WrittenPieces(text, ref)) = n + 1
      /\ WrittenPieces(front, ref) \in Seq(Seq(Marks)) /\ Len(WrittenPieces(front, ref)) = n
  BY <1>1, PiecesType
<1>4. \A i \in 1 .. n : WrittenPieces(text, ref)[i] = WrittenPieces(front, ref)[i]
  BY <1>1, <1>2 DEF WrittenPieces
<1>5. WrittenPieces(text, ref)[n + 1] = IF t \in Escaped THEN <<"&", ref[t]>> ELSE <<t>>
  BY <1>1, <1>2 DEF WrittenPieces, IsTable
<1> HIDE DEF n
<1>6. IsJoin(Seqs!FlattenSeq(WrittenPieces(text, ref)),
             Seqs!FlattenSeq(WrittenPieces(front, ref)),
             WrittenPieces(text, ref)[n + 1])
  BY <1>1, <1>3, <1>4, FlattenAdds
<1> QED
  BY <1>5, <1>6, WrittenOf

\* What stands behind a form that is complete is read for itself: a token that
\* is not special, or a reference.
LEMMA OneTokenMore ==
  ASSUME NEW w \in Seq(Marks), NEW v \in Seq(Marks), NEW t \in Marks, t # "&",
         Holds(v, w, <<t>>), Len(w) > 0 => w[Len(w)] # "&"
  PROVE  IsJoin(Page!Plain(v), Page!Plain(w), <<t>>)
<1> DEFINE n == Len(w)
<1>1. n \in Nat /\ Len(v) = n + 1 /\ v[n + 1] = t /\ \A i \in 1 .. n : v[i] = w[i]
  <2>1. Len(<<t>>) = 1 /\ <<t>>[1] = t
    OBVIOUS
  <2> QED
    BY <2>1, LenProperties DEF Holds
<1>2. DOMAIN v = 1 .. (n + 1) /\ DOMAIN w = 1 .. n
  BY <1>1, LenProperties
<1>3. /\ ReadPieces(v) \in Seq(Seq(Marks)) /\ Len(ReadPieces(v)) = n + 1
      /\ ReadPieces(w) \in Seq(Seq(Marks)) /\ Len(ReadPieces(w)) = n
  BY <1>1, ShownType
<1>4. \A i \in 1 .. n : Begins(v, i) <=> Begins(w, i)
  BY <1>1 DEF Begins
<1>5. ~ Begins(v, n + 1) /\ (n > 0 => ~ Begins(v, n))
  BY <1>1, <1>4 DEF Begins
<1>6. \A i \in 1 .. n : ReadPieces(v)[i] = ReadPieces(w)[i]
  <2> TAKE i \in 1 .. n
  <2>1. Begins(w, i) => i + 1 \in 1 .. n
    BY <1>1 DEF Begins
  <2>2. i > 1 => i - 1 \in 1 .. n
    BY <1>1
  <2>3. i \in 1 .. (n + 1)
    BY <1>1
  <2> HIDE DEF n
  <2>4. CASE Begins(w, i)
    <3>1. v[i + 1] = w[i + 1]
      BY <1>1, <2>1, <2>4
    <3> QED
      BY <1>2, <1>4, <2>3, <2>4, <3>1 DEF ReadPieces
  <2>5. CASE ~ Begins(w, i)
    <3>1. v[i] = w[i] /\ (i > 1 => (Begins(v, i - 1) <=> Begins(w, i - 1)))
      BY <1>1, <1>4, <2>2
    <3> QED
      BY <1>2, <1>4, <2>3, <2>5, <3>1 DEF ReadPieces
  <2> QED
    BY <2>4, <2>5
<1>7. ReadPieces(v)[n + 1] = <<t>>
  <2>1. n + 1 \in 1 .. (n + 1) /\ (n + 1 > 1 => n > 0) /\ n + 1 - 1 = n
    BY <1>1
  <2> HIDE DEF n
  <2> QED
    BY <1>1, <1>2, <1>5, <2>1 DEF ReadPieces
<1> HIDE DEF n
<1>8. IsJoin(Seqs!FlattenSeq(ReadPieces(v)), Seqs!FlattenSeq(ReadPieces(w)),
             ReadPieces(v)[n + 1])
  BY <1>1, <1>3, <1>6, FlattenAdds
<1> QED
  BY <1>7, <1>8, PlainOf

LEMMA OneReferenceMore ==
  ASSUME NEW w \in Seq(Marks), NEW v \in Seq(Marks), NEW r \in DOMAIN Page!Reference,
         Holds(v, w, <<"&", r>>), Len(w) > 0 => w[Len(w)] # "&"
  PROVE  IsJoin(Page!Plain(v), Page!Plain(w), <<Page!Reference[r]>>)
<1> DEFINE n == Len(w)
           u == SubSeq(ReadPieces(v), 1, n + 1)
<1>1. n \in Nat /\ Len(v) = n + 2 /\ v[n + 1] = "&" /\ v[n + 2] = r
      /\ \A i \in 1 .. n : v[i] = w[i]
  <2>1. Len(<<"&", r>>) = 2 /\ <<"&", r>>[1] = "&" /\ <<"&", r>>[2] = r
    OBVIOUS
  <2> QED
    BY <2>1, LenProperties DEF Holds
<1>2. DOMAIN v = 1 .. (n + 2) /\ DOMAIN w = 1 .. n
  BY <1>1, LenProperties
<1>3. /\ ReadPieces(v) \in Seq(Seq(Marks)) /\ Len(ReadPieces(v)) = n + 2
      /\ ReadPieces(w) \in Seq(Seq(Marks)) /\ Len(ReadPieces(w)) = n
  BY <1>1, ShownType
<1>4. \A i \in 1 .. n : Begins(v, i) <=> Begins(w, i)
  <2> TAKE i \in 1 .. n
  <2>1. CASE i = n
    <3>1. w[n] # "&" /\ v[n] = w[n]
      BY <1>1, <2>1
    <3> QED
      BY <2>1, <3>1 DEF Begins
  <2>2. CASE i # n
    <3>1. i < n /\ i < n + 2 /\ i + 1 \in 1 .. n
      BY <1>1, <2>2
    <3>2. v[i] = w[i] /\ v[i + 1] = w[i + 1]
      BY <1>1, <3>1
    <3> QED
      BY <1>1, <3>1, <3>2 DEF Begins
  <2> QED
    BY <2>1, <2>2
<1>5. Begins(v, n + 1) /\ ~ Begins(v, n + 2) /\ (n > 0 => ~ Begins(v, n))
  BY <1>1, <1>4 DEF Begins
<1>6. \A i \in 1 .. n : ReadPieces(v)[i] = ReadPieces(w)[i]
  <2> TAKE i \in 1 .. n
  <2>1. Begins(w, i) => i + 1 \in 1 .. n
    BY <1>1 DEF Begins
  <2>2. i > 1 => i - 1 \in 1 .. n
    BY <1>1
  <2>3. i \in 1 .. (n + 2)
    BY <1>1
  <2> HIDE DEF n
  <2>4. CASE Begins(w, i)
    <3>1. v[i + 1] = w[i + 1]
      BY <1>1, <2>1, <2>4
    <3> QED
      BY <1>2, <1>4, <2>3, <2>4, <3>1 DEF ReadPieces
  <2>5. CASE ~ Begins(w, i)
    <3>1. v[i] = w[i] /\ (i > 1 => (Begins(v, i - 1) <=> Begins(w, i - 1)))
      BY <1>1, <1>4, <2>2
    <3> QED
      BY <1>2, <1>4, <2>3, <2>5, <3>1 DEF ReadPieces
  <2> QED
    BY <2>4, <2>5
<1>7. ReadPieces(v)[n + 1] = <<Page!Reference[r]>> /\ ReadPieces(v)[n + 2] = << >>
  <2>1. n + 1 \in 1 .. (n + 2) /\ n + 2 \in 1 .. (n + 2) /\ n + 2 > 1
        /\ n + 2 - 1 = n + 1 /\ n + 1 + 1 = n + 2
    BY <1>1
  <2> HIDE DEF n
  <2>2. ReadPieces(v)[n + 1] = <<Page!Reference[r]>>
    BY <1>1, <1>2, <1>5, <2>1 DEF ReadPieces
  <2>3. ReadPieces(v)[n + 2] = << >>
    BY <1>2, <1>5, <2>1 DEF ReadPieces
  <2> QED
    BY <2>2, <2>3
<1>8. /\ u \in Seq(Seq(Marks)) /\ Len(u) = n + 1
      /\ \A i \in 1 .. (n + 1) : u[i] = ReadPieces(v)[i]
  <2>1. 1 \in 1 .. (Len(ReadPieces(v)) + 1) /\ n + 2 \in 1 .. (Len(ReadPieces(v)) + 1)
        /\ n + 2 - 1 = n + 1
    BY <1>1, <1>3
  <2>2. /\ SubSeq(ReadPieces(v), 1, n + 1) \in Seq(Seq(Marks))
        /\ Len(SubSeq(ReadPieces(v), 1, n + 1)) = n + 1
        /\ \A i \in 1 .. (n + 1) :
             SubSeq(ReadPieces(v), 1, n + 1)[i] = ReadPieces(v)[1 + i - 1]
    <3> HIDE DEF n
    <3>1. n + 2 \in 1 .. (Len(ReadPieces(v)) + 1) /\ n + 2 - 1 = n + 1 /\ n \in Nat
      BY <1>1, <2>1
    <3> DEFINE e == n + 2
    <3>3. /\ e \in 1 .. (Len(ReadPieces(v)) + 1) /\ e - 1 = n + 1
          /\ 1 \in 1 .. (Len(ReadPieces(v)) + 1)
      BY <2>1, <3>1
    <3> HIDE DEF e
    <3>4. /\ SubSeq(ReadPieces(v), 1, e - 1) \in Seq(Seq(Marks))
          /\ Len(SubSeq(ReadPieces(v), 1, e - 1)) = e - 1
          /\ \A i \in 1 .. (e - 1) :
               SubSeq(ReadPieces(v), 1, e - 1)[i] = ReadPieces(v)[1 + i - 1]
      BY <1>3, <3>3, PieceIs
    <3> QED
      BY <3>3, <3>4
  <2>3. \A i \in 1 .. (n + 1) : 1 + i - 1 = i
    BY <1>1
  <2> HIDE DEF n
  <2> QED
    BY <2>2, <2>3
<1> HIDE DEF n, u
<1>9. IsJoin(Seqs!FlattenSeq(u), Seqs!FlattenSeq(ReadPieces(w)), <<Page!Reference[r]>>)
  <2>1. \A i \in 1 .. n : u[i] = ReadPieces(w)[i]
    <3> TAKE i \in 1 .. n
    <3>1. i \in 1 .. (n + 1)
      BY <1>1
    <3> QED
      BY <1>6, <1>8, <3>1
  <2>2. u[n + 1] = <<Page!Reference[r]>>
    BY <1>1, <1>7, <1>8
  <2> QED
    BY <1>1, <1>3, <1>8, <2>1, <2>2, FlattenAdds
<1>10. IsJoin(Seqs!FlattenSeq(ReadPieces(v)), Seqs!FlattenSeq(u), << >>)
  <2>1. n + 1 \in Nat /\ Len(ReadPieces(v)) = n + 1 + 1 /\ ReadPieces(v)[n + 1 + 1] = << >>
        /\ \A i \in 1 .. (n + 1) : ReadPieces(v)[i] = u[i]
    BY <1>1, <1>3, <1>7, <1>8
  <2> QED
    BY <1>3, <1>8, <2>1, FlattenAdds
<1>11. Seqs!FlattenSeq(ReadPieces(v)) = Seqs!FlattenSeq(u)
  BY <1>8, <1>10, FlattenType, ConcatEmptySeq DEF IsJoin
<1> QED
  BY <1>9, <1>11, PlainOf

\* Any text is read back from its written form, as from either table.
LEMMA OneStepBack ==
  ASSUME NEW text \in Seq(Page!Tokens), NEW front \in Seq(Page!Tokens), NEW t \in Page!Tokens,
         NEW ref, IsTable(ref), text = Append(front, t),
         ReadBack(front, Page!Written(front, ref))
  PROVE  ReadBack(text, Page!Written(text, ref))
<1> DEFINE w == Page!Written(front, ref)
           v == Page!Written(text, ref)
           more == IF t \in Escaped THEN <<"&", ref[t]>> ELSE <<t>>
<1>1. w \in Seq(Marks) /\ (Len(w) > 0 => w[Len(w)] # "&") /\ Page!Plain(w) = front
      /\ \A i \in 1 .. Len(w) : w[i] \notin {"<", ">", "\""}
  BY DEF ReadBack
<1>2. IsJoin(v, w, more)
  BY OneMore
<1>3. \A x : IsJoin(x, front, <<t>>) => x = text
  BY AppendIsConcat DEF IsJoin
<1> HIDE DEF w, v
<1>12. Len(w) \in Nat
  BY <1>1, LenProperties
<1>4. CASE t \in Escaped
  <2>1. ref[t] \in DOMAIN Page!Reference \ Escaped /\ Page!Reference[ref[t]] = t
    BY <1>4 DEF IsTable
  <2>2. "&" \in Marks /\ ref[t] \in Marks
    BY <2>1 DEF Marks, Page!Tokens
  <2>3. <<"&", ref[t]>> \in Seq(Marks) /\ Len(<<"&", ref[t]>>) = 2
        /\ <<"&", ref[t]>>[1] = "&" /\ <<"&", ref[t]>>[2] = ref[t]
    BY <2>2
  <2>4. IsJoin(v, w, <<"&", ref[t]>>)
    BY <1>2, <1>4
  <2>5. v \in Seq(Marks) /\ Holds(v, w, <<"&", ref[t]>>)
    BY <1>1, <2>3, <2>4, JoinIs
  <2>6. Page!Plain(v) = text
    BY <1>1, <1>3, <2>1, <2>5, OneReferenceMore
  <2>7. Len(w) \in Nat /\ Len(v) = Len(w) + 2 /\ v[Len(w) + 1] = "&" /\ v[Len(w) + 2] = ref[t]
        /\ \A i \in 1 .. Len(w) : v[i] = w[i]
    <3>1. 1 \in 1 .. Len(<<"&", ref[t]>>) /\ 2 \in 1 .. Len(<<"&", ref[t]>>)
      BY <2>3
    <3> QED
      BY <1>12, <2>3, <2>5, <3>1 DEF Holds
  <2>8. ref[t] \notin {"<", ">", "\"", "&"}
    BY <2>1 DEF Escaped
  <2>9. \A i \in 1 .. Len(v) : v[i] \notin {"<", ">", "\""}
    <3> TAKE i \in 1 .. Len(v)
    <3>1. i \in 1 .. Len(w) \/ i = Len(w) + 1 \/ i = Len(w) + 2
      BY <2>7
    <3> QED
      BY <1>1, <2>7, <2>8, <3>1
  <2> QED
    BY <2>5, <2>6, <2>7, <2>8, <2>9 DEF ReadBack, v
<1>5. CASE t \notin Escaped
  <2>1. t \in Marks /\ t \notin {"<", ">", "\"", "&"}
    BY <1>5 DEF Marks, Escaped
  <2>2. <<t>> \in Seq(Marks) /\ Len(<<t>>) = 1 /\ <<t>>[1] = t
    <3>1. t \in Marks
      BY <2>1
    <3> HIDE DEF more
    <3> QED
      BY <3>1
  <2>3. IsJoin(v, w, <<t>>)
    BY <1>2, <1>5
  <2>4. v \in Seq(Marks) /\ Holds(v, w, <<t>>)
    BY <1>1, <2>2, <2>3, JoinIs
  <2>5. Page!Plain(v) = text
    BY <1>1, <1>3, <2>1, <2>4, OneTokenMore
  <2>6. Len(w) \in Nat /\ Len(v) = Len(w) + 1 /\ v[Len(w) + 1] = t
        /\ \A i \in 1 .. Len(w) : v[i] = w[i]
    <3>1. 1 \in 1 .. Len(<<t>>)
      BY <2>2
    <3> QED
      BY <1>12, <2>2, <2>4, <3>1 DEF Holds
  <2>7. \A i \in 1 .. Len(v) : v[i] \notin {"<", ">", "\""}
    <3> TAKE i \in 1 .. Len(v)
    <3>1. i \in 1 .. Len(w) \/ i = Len(w) + 1
      BY <2>6
    <3> QED
      BY <1>1, <2>1, <2>6, <3>1
  <2> QED
    BY <2>1, <2>4, <2>5, <2>6, <2>7 DEF ReadBack, v
<1> QED
  BY <1>4, <1>5

LEMMA EmptyBack ==
  ASSUME NEW ref
  PROVE  ReadBack(<< >>, Page!Written(<< >>, ref))
<1>1. DOMAIN << >> = {} /\ Len(<< >>) = 0 /\ << >> \in Seq(Marks)
  BY EmptySeq
<1>2. WrittenPieces(<< >>, ref) = << >> /\ ReadPieces(<< >>) = << >>
  BY <1>1 DEF WrittenPieces, ReadPieces
<1>3. Seqs!FlattenSeq(<< >>) = << >>
  BY DEF Seqs!FlattenSeq
<1>4. Page!Written(<< >>, ref) = << >> /\ Page!Plain(<< >>) = << >>
  BY <1>2, <1>3, WrittenOf, PlainOf
<1>5. 1 .. 0 = {} /\ ~ (0 > 0)
  OBVIOUS
<1>6. ReadBack(<< >>, << >>)
  BY <1>1, <1>4, <1>5 DEF ReadBack
<1> QED
  BY <1>4, <1>6

LEMMA AllBack ==
  ASSUME NEW ref, IsTable(ref)
  PROVE  \A text \in Seq(Page!Tokens) : ReadBack(text, Page!Written(text, ref))
<1> DEFINE Fails(n) == \E text \in Seq(Page!Tokens) :
             Len(text) = n /\ ~ ReadBack(text, Page!Written(text, ref))
           T == { n \in Nat : Fails(n) }
<1>1. SUFFICES ASSUME T # {} PROVE FALSE
  BY LenProperties
<1>2. PICK n \in T : \A y \in T : n <= y
  <2> HIDE DEF T
  <2>1. T \in SUBSET Nat
    BY DEF T
  <2> QED
    BY <1>1, <2>1, LeastOne
<1>3. PICK text \in Seq(Page!Tokens) :
        Len(text) = n /\ ~ ReadBack(text, Page!Written(text, ref))
  OBVIOUS
<1>4. text # << >>
  BY <1>3, EmptyBack
<1>5. PICK front \in Seq(Page!Tokens), t \in Page!Tokens : text = Append(front, t)
  BY <1>4, SequenceEmptyOrAppend
<1>6. Len(front) \in Nat /\ Len(front) < n
  BY <1>3, <1>5, LenProperties, AppendProperties
<1>7. ReadBack(front, Page!Written(front, ref))
  BY <1>2, <1>6
<1> QED
  BY <1>3, <1>5, <1>7, OneStepBack

-----------------------------------------------------------------------------
(* What a browser finds in the markup. *)

LEMMA FoundAt ==
  ASSUME NEW m, Len(m) \in Nat, NEW t, NEW i \in Nat, NEW p \in i .. Len(m),
         m[p] = t, \A k \in i .. (p - 1) : m[k] # t
  PROVE  Page!Find(m, t, i) = p
<1> DEFINE Here(r) == (r = Len(m) + 1 \/ m[r] = t) /\ \A k \in i .. (r - 1) : m[k] # t
<1>1. p \in i .. (Len(m) + 1) /\ Here(p)
  OBVIOUS
<1>2. ASSUME NEW r \in i .. (Len(m) + 1), Here(r) PROVE r = p
  <2>1. CASE r < p
    <3>1. r \in i .. (p - 1) /\ r # Len(m) + 1
      BY <2>1
    <3> QED
      BY <1>2, <3>1
  <2>2. CASE p < r
    <3>1. p \in i .. (r - 1)
      BY <2>2
    <3> QED
      BY <1>2, <3>1
  <2> QED
    BY <2>1, <2>2
<1>3. Page!Find(m, t, i) = CHOOSE r \in i .. (Len(m) + 1) : Here(r)
  BY DEF Page!Find
<1> HIDE DEF Here
<1> QED
  BY <1>1, <1>2, <1>3

LEMMA TwoInOrder ==
  ASSUME NEW a \in Nat, NEW b \in Nat, a < b
  PROVE  Page!InOrder({a, b}) = <<a, b>>
<1>1. Cardinality({a, b}) = 2
  <2>1. a # b
    OBVIOUS
  <2>2. Cardinality({a}) = 1 /\ IsFiniteSet({a})
    BY FS_Singleton
  <2>3. Cardinality({a} \cup {b}) = Cardinality({a}) + 1
    BY <2>1, <2>2, FS_AddElement
  <2>4. {a} \cup {b} = {a, b}
    OBVIOUS
  <2> QED
    BY <2>2, <2>3, <2>4
<1> DEFINE Up(s) == \A i, j \in DOMAIN s : i < j => s[i] < s[j]
<1>2. <<a, b>> \in [1 .. 2 -> {a, b}] /\ Up(<<a, b>>)
  <2>1. <<a, b>> = [ i \in 1 .. 2 |-> IF i = 1 THEN a ELSE b ]
    OBVIOUS
  <2> QED
    BY <2>1
<1>3. ASSUME NEW s \in [1 .. 2 -> {a, b}], Up(s) PROVE s = <<a, b>>
  <2>1. s[1] < s[2] /\ s[1] \in {a, b} /\ s[2] \in {a, b}
    BY <1>3
  <2>2. s[1] = a /\ s[2] = b
    BY <2>1
  <2>3. s = [ i \in 1 .. 2 |-> s[i] ] /\ <<a, b>> = [ i \in 1 .. 2 |-> IF i = 1 THEN a ELSE b ]
    OBVIOUS
  <2> QED
    BY <2>2, <2>3
<1> DEFINE n == Cardinality({a, b})
<1>4. Page!InOrder({a, b}) = CHOOSE s \in [1 .. Cardinality({a, b}) -> {a, b}] : Up(s)
  BY SameCardinality DEF Page!InOrder
<1>7. Page!InOrder({a, b}) = CHOOSE s \in [1 .. n -> {a, b}] : Up(s)
  BY <1>4
<1> HIDE DEF Up
<1>5. n = 2
  BY <1>1
<1> HIDE DEF n
<1>6. /\ <<a, b>> \in [1 .. n -> {a, b}] /\ Up(<<a, b>>)
      /\ \A s \in [1 .. n -> {a, b}] : Up(s) => s = <<a, b>>
  BY <1>2, <1>3, <1>5
<1> QED
  BY <1>6, <1>7

\* Two pieces, one behind the other.
LEMMA TwoFlatten ==
  ASSUME NEW S, NEW a \in Seq(S), NEW b \in Seq(S)
  PROVE  IsJoin(Seqs!FlattenSeq(<<a, b>>), a, b)
<1>1. /\ << >> \in Seq(Seq(S)) /\ <<a>> \in Seq(Seq(S)) /\ <<a, b>> \in Seq(Seq(S))
      /\ Len(<< >>) = 0 /\ Len(<<a>>) = 1 /\ Len(<<a, b>>) = 2
      /\ <<a>>[1] = a /\ <<a, b>>[1] = a /\ <<a, b>>[2] = b
  OBVIOUS
<1>2. Seqs!FlattenSeq(<< >>) = << >>
  BY DEF Seqs!FlattenSeq
<1>3. IsJoin(Seqs!FlattenSeq(<<a>>), << >>, a)
  <2>1. \A i \in 1 .. 0 : <<a>>[i] = << >>[i]
    OBVIOUS
  <2>2. 0 \in Nat /\ Len(<<a>>) = 0 + 1 /\ <<a>>[0 + 1] = a
    OBVIOUS
  <2> QED
    BY <1>1, <1>2, <2>1, <2>2, FlattenAdds
<1>4. Seqs!FlattenSeq(<<a>>) = a
  BY <1>3, ConcatEmptySeq DEF IsJoin
<1>5. IsJoin(Seqs!FlattenSeq(<<a, b>>), Seqs!FlattenSeq(<<a>>), b)
  <2>1. \A i \in 1 .. 1 : <<a, b>>[i] = <<a>>[i]
    OBVIOUS
  <2>2. 1 \in Nat /\ Len(<<a, b>>) = 1 + 1 /\ <<a, b>>[1 + 1] = b
    OBVIOUS
  <2> QED
    BY <1>1, <2>1, <2>2, FlattenAdds
<1> QED
  BY <1>4, <1>5

\* A text as it is written: nothing in it looks like markup.
Harmless(e) == e \in Seq(Marks) /\ \A i \in 1 .. Len(e) : e[i] \notin {"<", ">", Quote}

\* An option stands in m behind o, with marks of which nothing is required.
OptionAt(m, o, e, selected) ==
  LET n == Len(e)
      s == IF selected THEN 1 ELSE 0
  IN  /\ m[o + 1] = "<" /\ m[o + 2] = "option" /\ m[o + 3] = "value=" /\ m[o + 4] = Quote
      /\ \A i \in 1 .. n : m[o + 4 + i] = e[i]
      /\ m[o + 5 + n] = Quote /\ (selected => m[o + 6 + n] = "selected")
      /\ m[o + 6 + n + s] = ">"
      /\ \A i \in 1 .. n : m[o + 6 + n + s + i] = e[i]
      /\ m[o + 7 + 2 * n + s] = "<" /\ m[o + 8 + 2 * n + s] = "/option"
      /\ m[o + 9 + 2 * n + s] = ">"

OptionLength(e, selected) == 9 + 2 * Len(e) + (IF selected THEN 1 ELSE 0)

CellAt(m, o, e) ==
  /\ m[o + 1] = "<" /\ m[o + 2] = "td" /\ m[o + 3] = ">"
  /\ \A i \in 1 .. Len(e) : m[o + 3 + i] = e[i]
  /\ m[o + 4 + Len(e)] = "<" /\ m[o + 5 + Len(e)] = "/td" /\ m[o + 6 + Len(e)] = ">"

LEMMA CellIs ==
  ASSUME NEW e, Harmless(e)
  PROVE  /\ Page!Cell(e) \in Seq(Marks \cup {"td", "/td"})
         /\ Len(Page!Cell(e)) = 6 + Len(e) /\ CellAt(Page!Cell(e), 0, e)
<1> DEFINE S == Marks \cup {"td", "/td"}
           a == <<"<", "td", ">">>
           c == <<"<", "/td", ">">>
<1>1. Len(e) \in Nat /\ e \in Seq(S)
  BY LenProperties, SeqMonotonic DEF Harmless
<1>2. {"<", ">", "td", "/td"} \subseteq S
  BY DEF Marks, Page!Tokens
<1> HIDE DEF S
<1>3. /\ a \in Seq(S) /\ Len(a) = 3 /\ a[1] = "<" /\ a[2] = "td" /\ a[3] = ">"
      /\ c \in Seq(S) /\ Len(c) = 3 /\ c[1] = "<" /\ c[2] = "/td" /\ c[3] = ">"
  BY <1>2
<1> HIDE DEF a, c
<1>4. (a \o e) \in Seq(S) /\ Holds(a \o e, a, e)
  BY <1>1, <1>3, JoinIs DEF IsJoin
<1> DEFINE b == a \o e
<1>5. (b \o c) \in Seq(S) /\ Holds(b \o c, b, c)
  BY <1>3, <1>4, JoinIs DEF IsJoin
<1>6. Page!Cell(e) = b \o c
  BY DEF Page!Cell, a, c
<1> HIDE DEF b
<1>7. Len(b) = 3 + Len(e) /\ b[1] = "<" /\ b[2] = "td" /\ b[3] = ">"
      /\ \A i \in 1 .. Len(e) : b[3 + i] = e[i]
  BY <1>1, <1>3, <1>4 DEF Holds, b
<1> DEFINE m == Page!Cell(e)
<1>8. m \in Seq(S) /\ Holds(m, b, c)
  BY <1>5, <1>6
<1> HIDE DEF m
<1>9. Len(m) = 6 + Len(e) /\ m[1] = "<" /\ m[2] = "td" /\ m[3] = ">"
      /\ (\A i \in 1 .. Len(e) : m[3 + i] = e[i])
      /\ m[4 + Len(e)] = "<" /\ m[5 + Len(e)] = "/td" /\ m[6 + Len(e)] = ">"
  BY <1>1, <1>3, <1>7, <1>8 DEF Holds
<1> QED
  BY <1>8, <1>9 DEF CellAt, S, m

LEMMA OptionIs ==
  ASSUME NEW e, Harmless(e), NEW selected \in BOOLEAN
  PROVE  /\ Page!Option(e, selected)
              \in Seq(Marks \cup {"option", "value=", "selected", "/option"})
         /\ Len(Page!Option(e, selected)) = OptionLength(e, selected)
         /\ OptionAt(Page!Option(e, selected), 0, e, selected)
<1> DEFINE S == Marks \cup {"option", "value=", "selected", "/option"}
           a == <<"<", "option", "value=", Quote>>
           q == <<Quote>>
           z == IF selected THEN <<"selected">> ELSE << >>
           g == <<">">>
           c == <<"<", "/option", ">">>
           k == IF selected THEN 1 ELSE 0
<1>1. Len(e) \in Nat /\ e \in Seq(S)
  BY LenProperties, SeqMonotonic DEF Harmless
<1>2. {"<", ">", Quote, "option", "value=", "selected", "/option"} \subseteq S
  BY DEF Marks, Page!Tokens, Quote
<1> HIDE DEF S
<1>3. /\ a \in Seq(S) /\ Len(a) = 4 /\ a[1] = "<" /\ a[2] = "option"
      /\ a[3] = "value=" /\ a[4] = Quote
  BY <1>2
<1>4. q \in Seq(S) /\ Len(q) = 1 /\ q[1] = Quote /\ g \in Seq(S) /\ Len(g) = 1 /\ g[1] = ">"
  BY <1>2
<1>5. k \in 0 .. 1 /\ z \in Seq(S) /\ Len(z) = k /\ (selected => z[1] = "selected")
  <2>1. CASE selected
    BY <1>2, <2>1
  <2>2. CASE ~ selected
    BY <2>2
  <2> QED
    BY <2>1, <2>2
<1>6. c \in Seq(S) /\ Len(c) = 3 /\ c[1] = "<" /\ c[2] = "/option" /\ c[3] = ">"
  BY <1>2
<1>7. Page!Option(e, selected) = a \o e \o q \o z \o g \o e \o c
  BY DEF Page!Option, Quote
<1> HIDE DEF a, q, z, g, c
<1> DEFINE b1 == a \o e
<1>8. b1 \in Seq(S) /\ Holds(b1, a, e)
  BY <1>1, <1>3, JoinIs DEF IsJoin
<1> DEFINE b2 == b1 \o q
<1> HIDE DEF b1
<1>9. b2 \in Seq(S) /\ Holds(b2, b1, q)
  BY <1>4, <1>8, JoinIs DEF IsJoin
<1> DEFINE b3 == b2 \o z
<1> HIDE DEF b2
<1>10. b3 \in Seq(S) /\ Holds(b3, b2, z)
  BY <1>5, <1>9, JoinIs DEF IsJoin
<1> DEFINE b4 == b3 \o g
<1> HIDE DEF b3
<1>11. b4 \in Seq(S) /\ Holds(b4, b3, g)
  BY <1>4, <1>10, JoinIs DEF IsJoin
<1> DEFINE b5 == b4 \o e
<1> HIDE DEF b4
<1>12. b5 \in Seq(S) /\ Holds(b5, b4, e)
  BY <1>1, <1>11, JoinIs DEF IsJoin
<1> DEFINE m == b5 \o c
<1> HIDE DEF b5
<1>13. m \in Seq(S) /\ Holds(m, b5, c)
  BY <1>6, <1>12, JoinIs DEF IsJoin
<1>14. Page!Option(e, selected) = m
  BY <1>7 DEF m, b5, b4, b3, b2, b1
<1> HIDE DEF m, k
<1> DEFINE n == Len(e)
<1>15. n \in Nat /\ k \in 0 .. 1 /\ (selected => k = 1)
  BY <1>1, <1>5 DEF k
<1>16. /\ Len(b1) = 4 + n /\ b1[1] = "<" /\ b1[2] = "option" /\ b1[3] = "value=" /\ b1[4] = Quote
       /\ \A i \in 1 .. n : b1[4 + i] = e[i]
  BY <1>1, <1>3, <1>8 DEF Holds
<1>17. /\ Len(b2) = 5 + n /\ b2[5 + n] = Quote /\ \A i \in 1 .. (4 + n) : b2[i] = b1[i]
  BY <1>1, <1>4, <1>9, <1>16 DEF Holds
<1>18. /\ Len(b3) = 5 + n + k /\ (selected => b3[6 + n] = "selected")
       /\ \A i \in 1 .. (5 + n) : b3[i] = b2[i]
  BY <1>1, <1>5, <1>10, <1>15, <1>17 DEF Holds
<1>19. /\ Len(b4) = 6 + n + k /\ b4[6 + n + k] = ">"
       /\ \A i \in 1 .. (5 + n + k) : b4[i] = b3[i]
  BY <1>1, <1>4, <1>11, <1>15, <1>18 DEF Holds
<1>20. /\ Len(b5) = 6 + 2 * n + k /\ (\A i \in 1 .. n : b5[6 + n + k + i] = e[i])
       /\ \A i \in 1 .. (6 + n + k) : b5[i] = b4[i]
  BY <1>1, <1>12, <1>15, <1>19 DEF Holds
<1>21. /\ Len(m) = 9 + 2 * n + k /\ m[7 + 2 * n + k] = "<" /\ m[8 + 2 * n + k] = "/option"
       /\ m[9 + 2 * n + k] = ">" /\ \A i \in 1 .. (6 + 2 * n + k) : m[i] = b5[i]
  BY <1>1, <1>6, <1>13, <1>15, <1>20 DEF Holds
<1> HIDE DEF n
<1>22. \A i \in 1 .. (4 + n) : m[i] = b1[i]
  BY <1>15, <1>17, <1>18, <1>19, <1>20, <1>21
<1>23. m[1] = "<" /\ m[2] = "option" /\ m[3] = "value=" /\ m[4] = Quote
       /\ \A i \in 1 .. n : m[4 + i] = e[i]
  BY <1>15, <1>16, <1>22
<1>24. m[5 + n] = Quote /\ (selected => m[6 + n] = "selected") /\ m[6 + n + k] = ">"
  <2>1. m[5 + n] = Quote
    BY <1>15, <1>17, <1>18, <1>19, <1>20, <1>21
  <2>2. ASSUME selected PROVE m[6 + n] = "selected"
    BY <1>15, <1>18, <1>19, <1>20, <1>21, <2>2
  <2>3. m[6 + n + k] = ">"
    BY <1>15, <1>19, <1>20, <1>21
  <2> QED
    BY <2>1, <2>2, <2>3
<1>25. \A i \in 1 .. n : m[6 + n + k + i] = e[i]
  BY <1>15, <1>20, <1>21
<1>26. \A i \in Int : 0 + i = i
  OBVIOUS
<1>27. OptionAt(m, 0, e, selected)
  BY <1>15, <1>21, <1>23, <1>24, <1>25 DEF OptionAt, n, k
<1>28. Len(m) = OptionLength(e, selected)
  BY <1>15, <1>21 DEF OptionLength, n, k
<1> QED
  BY <1>13, <1>14, <1>27, <1>28 DEF S

LEMMA QuoteIs == Quote \notin {"<", ">", "option", "value=", "selected", "/option"}
BY DEF Quote

\* A part of m that is a given text.
LEMMA PartIs ==
  ASSUME NEW S, NEW m \in Seq(S), NEW e \in Seq(S), NEW o \in Nat, o + Len(e) <= Len(m),
         \A i \in 1 .. Len(e) : m[o + i] = e[i]
  PROVE  Page!Between(m, o, o + Len(e) + 1) = Page!Plain(e)
<1> DEFINE n == Len(e)
           b == o + 1
           f == o + n + 1
<1>1. Len(m) \in Nat /\ n \in Nat
  BY LenProperties
<1>2. b \in 1 .. (Len(m) + 1) /\ f \in b .. (Len(m) + 1) /\ f - b = n /\ f - 1 = o + n
  BY <1>1
<1>3. \A i \in 1 .. n : b + i - 1 = o + i
  BY <1>1
<1>4. \A i \in 1 .. n : m[b + i - 1] = e[i]
  BY <1>3
<1> HIDE DEF b, f, n
<1>5. /\ SubSeq(m, b, f - 1) \in Seq(S) /\ Len(SubSeq(m, b, f - 1)) = f - b
      /\ \A i \in 1 .. (f - b) : SubSeq(m, b, f - 1)[i] = m[b + i - 1]
  BY <1>2, PieceIs
<1>6. SubSeq(m, b, f - 1) = e
  BY <1>2, <1>4, <1>5, SeqEqual DEF n
<1>7. Page!Between(m, o, f) = Page!Plain(SubSeq(m, b, f - 1))
  BY DEF Page!Between, b
<1>8. Page!Between(m, o, f) = Page!Plain(e)
  BY <1>6, <1>7
<1> QED
  BY <1>8 DEF f, n

LEMMA OptionRead ==
  ASSUME NEW S, NEW m \in Seq(S), NEW e \in Seq(S), Harmless(e), NEW selected \in BOOLEAN,
         NEW o \in Nat, o + OptionLength(e, selected) <= Len(m), OptionAt(m, o, e, selected)
  PROVE  Page!ReadOption(m, o + 1)
           = [value |-> Page!Plain(e), selected |-> selected, text |-> Page!Plain(e)]
<1> DEFINE n == Len(e)
           k == IF selected THEN 1 ELSE 0
           open == o + 4
           close == o + 5 + n
           end == o + 6 + n + k
           last == o + 7 + 2 * n + k
<1>1. n \in Nat /\ k \in 0 .. 1 /\ Len(m) \in Nat /\ last + 2 <= Len(m)
      /\ (selected <=> k = 1)
  BY LenProperties DEF OptionLength
<1>2. /\ m[o + 1] = "<" /\ m[o + 2] = "option" /\ m[o + 3] = "value=" /\ m[open] = Quote
      /\ (\A i \in 1 .. n : m[open + i] = e[i])
      /\ m[close] = Quote /\ (k = 1 => m[close + 1] = "selected") /\ m[end] = ">"
      /\ (\A i \in 1 .. n : m[end + i] = e[i]) /\ m[last] = "<"
  <2>1. close + 1 = o + 6 + n
    BY <1>1
  <2> QED
    BY <1>1, <2>1 DEF OptionAt
<1>3. /\ o + 1 \in Nat /\ open \in (o + 1) .. Len(m) /\ open + 1 \in Nat
      /\ close \in (open + 1) .. Len(m) /\ close \in Nat /\ end \in close .. Len(m)
      /\ end \in Nat /\ last \in end .. Len(m)
      /\ close = open + n + 1 /\ end = close + 1 + k /\ last = end + n + 1
      /\ (o + 1) .. (open - 1) = {o + 1, o + 2, o + 3}
  BY <1>1
<1>4. \A i \in 1 .. n : e[i] \notin {"<", ">", Quote}
  BY DEF Harmless, Quote
<1> HIDE DEF n, k, open, close, end, last
<1>5. Page!Find(m, Quote, o + 1) = open
  <2>1. \A j \in (o + 1) .. (open - 1) : m[j] # Quote
    BY <1>2, <1>3, QuoteIs
  <2> QED
    BY <1>1, <1>2, <1>3, <2>1, FoundAt
<1>6. Page!Find(m, Quote, open + 1) = close
  <2>1. ASSUME NEW j \in (open + 1) .. (close - 1) PROVE m[j] # Quote
    <3>1. j - open \in 1 .. n /\ open + (j - open) = j
      BY <1>1, <1>3
    <3> QED
      BY <1>2, <1>4, <3>1
  <2> QED
    BY <1>1, <1>2, <1>3, <2>1, FoundAt
<1>7. Page!Find(m, ">", close) = end
  <2>1. ASSUME NEW j \in close .. (end - 1) PROVE m[j] # ">"
    <3>1. j = close \/ (k = 1 /\ j = close + 1)
      BY <1>1, <1>3
    <3> QED
      BY <1>2, <3>1, QuoteIs
  <2> QED
    BY <1>1, <1>2, <1>3, <2>1, FoundAt
<1>8. Page!Find(m, "<", end) = last
  <2>1. ASSUME NEW j \in end .. (last - 1) PROVE m[j] # "<"
    <3>1. j = end \/ (j - end \in 1 .. n /\ end + (j - end) = j)
      BY <1>1, <1>3
    <3> QED
      BY <1>2, <1>4, <3>1
  <2> QED
    BY <1>1, <1>2, <1>3, <2>1, FoundAt
<1>9. Page!Between(m, open, close) = Page!Plain(e)
  <2>1. open \in Nat /\ open + Len(e) <= Len(m) /\ close = open + Len(e) + 1
    BY <1>1, <1>3 DEF n
  <2>2. \A i \in 1 .. Len(e) : m[open + i] = e[i]
    BY <1>2 DEF n
  <2>3. Page!Between(m, open, open + Len(e) + 1) = Page!Plain(e)
    BY <2>1, <2>2, PartIs
  <2> QED
    BY <2>1, <2>3
<1>10. Page!Between(m, end, last) = Page!Plain(e)
  <2>1. end \in Nat /\ end + Len(e) <= Len(m) /\ last = end + Len(e) + 1
    BY <1>1, <1>3 DEF n
  <2>2. \A i \in 1 .. Len(e) : m[end + i] = e[i]
    BY <1>2 DEF n
  <2>3. Page!Between(m, end, end + Len(e) + 1) = Page!Plain(e)
    BY <2>1, <2>2, PartIs
  <2> QED
    BY <2>1, <2>3
<1>11. ("selected" \in { m[i] : i \in close + 1 .. end - 1 }) = selected
  <2>1. CASE k = 1
    <3>1. close + 1 \in close + 1 .. end - 1
      BY <1>1, <1>3, <2>1
    <3> QED
      BY <1>1, <1>2, <2>1, <3>1
  <2>2. CASE k = 0
    <3>1. close + 1 .. end - 1 = {}
      BY <1>1, <1>3, <2>2
    <3>2. ~ selected
      BY <1>1, <2>2
    <3> QED
      BY <3>1, <3>2
  <2> QED
    BY <1>1, <2>1, <2>2
<1>12. Page!ReadOption(m, o + 1) =
         [value |-> Page!Between(m, open, close),
          selected |-> "selected" \in { m[i] : i \in close + 1 .. end - 1 },
          text |-> Page!Between(m, end, last)]
  BY <1>5, <1>6, <1>7, <1>8 DEF Page!ReadOption, Quote
<1> QED
  BY <1>9, <1>10, <1>11, <1>12

LEMMA CellRead ==
  ASSUME NEW S, NEW m \in Seq(S), NEW e \in Seq(S), Harmless(e),
         NEW o \in Nat, o + 6 + Len(e) <= Len(m), CellAt(m, o, e)
  PROVE  Page!Between(m, Page!Find(m, ">", o + 1), Page!Find(m, "<", o + 1 + 1))
           = Page!Plain(e)
<1> DEFINE n == Len(e)
           end == o + 3
           last == o + 4 + n
<1>1. n \in Nat /\ Len(m) \in Nat /\ last + 2 <= Len(m)
  BY LenProperties
<1>2. /\ m[o + 1] = "<" /\ m[o + 2] = "td" /\ m[end] = ">"
      /\ (\A i \in 1 .. n : m[end + i] = e[i]) /\ m[last] = "<"
  BY DEF CellAt
<1>3. /\ o + 1 \in Nat /\ end \in (o + 1) .. Len(m) /\ o + 1 + 1 = o + 2 /\ o + 2 \in Nat
      /\ last \in (o + 2) .. Len(m) /\ last = end + n + 1 /\ end = o + 3
      /\ (o + 1) .. (end - 1) = {o + 1, o + 2}
  BY <1>1
<1>4. \A i \in 1 .. n : e[i] \notin {"<", ">"}
  BY DEF Harmless
<1> HIDE DEF n, end, last
<1>5. Page!Find(m, ">", o + 1) = end
  <2>1. \A j \in (o + 1) .. (end - 1) : m[j] # ">"
    BY <1>2, <1>3
  <2> QED
    BY <1>1, <1>2, <1>3, <2>1, FoundAt
<1>6. Page!Find(m, "<", o + 2) = last
  <2>1. ASSUME NEW j \in (o + 2) .. (last - 1) PROVE m[j] # "<"
    <3>1. j = o + 2 \/ j = end \/ (j - end \in 1 .. n /\ end + (j - end) = j)
      BY <1>1, <1>3
    <3> QED
      BY <1>2, <1>4, <3>1
  <2> QED
    BY <1>1, <1>2, <1>3, <2>1, FoundAt
<1>7. Page!Between(m, end, last) = Page!Plain(e)
  <2>1. end \in Nat /\ end + Len(e) <= Len(m) /\ last = end + Len(e) + 1
    BY <1>1, <1>3 DEF n
  <2>2. \A i \in 1 .. Len(e) : m[end + i] = e[i]
    BY <1>2 DEF n
  <2>3. Page!Between(m, end, end + Len(e) + 1) = Page!Plain(e)
    BY <2>1, <2>2, PartIs
  <2> QED
    BY <2>1, <2>3
<1>8. o + 1 + 1 = o + 2
  BY <1>3
<1> QED
  BY <1>5, <1>6, <1>7, <1>8

\* There is one tag of the name in an option, and one in a cell.
LEMMA OptionTag ==
  ASSUME NEW m, NEW e, Harmless(e), NEW selected \in BOOLEAN, NEW o \in Nat,
         OptionAt(m, o, e, selected),
         NEW p \in (o + 1) .. (o + OptionLength(e, selected)), m[p] = "<", m[p + 1] = "option"
  PROVE  p = o + 1
<1> DEFINE n == Len(e)
           k == IF selected THEN 1 ELSE 0
<1>1. n \in Nat /\ k \in 0 .. 1 /\ p \in (o + 1) .. (o + 9 + 2 * n + k) /\ p \in Int
  BY LenProperties DEF OptionLength, Harmless
<1>2. /\ m[o + 2] = "option" /\ m[o + 3] = "value=" /\ m[o + 4] = Quote
      /\ (\A i \in 1 .. n : m[o + 4 + i] = e[i])
      /\ m[o + 5 + n] = Quote /\ (k = 1 => m[o + 6 + n] = "selected") /\ m[o + 6 + n + k] = ">"
      /\ (\A i \in 1 .. n : m[o + 6 + n + k + i] = e[i])
      /\ m[o + 8 + 2 * n + k] = "/option" /\ m[o + 9 + 2 * n + k] = ">"
  BY DEF OptionAt
<1>3. \A i \in 1 .. n : e[i] # "<"
  BY DEF Harmless
<1>4. p + 1 = o + 8 + 2 * n + k => FALSE
  BY <1>2
<1> HIDE DEF n, k
<1>5. p - (o + 4) \notin 1 .. n
  <2> SUFFICES ASSUME p - (o + 4) \in 1 .. n PROVE FALSE
    OBVIOUS
  <2>1. PICK i \in 1 .. n : i = p - (o + 4)
    OBVIOUS
  <2>2. p = o + 4 + i
    BY <1>1, <2>1
  <2> QED
    BY <1>2, <1>3, <2>2
<1>6. p - (o + 6 + n + k) \notin 1 .. n
  <2> SUFFICES ASSUME p - (o + 6 + n + k) \in 1 .. n PROVE FALSE
    OBVIOUS
  <2>1. PICK i \in 1 .. n : i = p - (o + 6 + n + k)
    OBVIOUS
  <2>2. p = o + 6 + n + k + i
    BY <1>1, <2>1
  <2> QED
    BY <1>2, <1>3, <2>2
<1>7. /\ p # o + 2 /\ p # o + 3 /\ p # o + 4 /\ p # o + 5 + n /\ p # o + 6 + n + k
      /\ (k = 1 => p # o + 6 + n) /\ p # o + 7 + 2 * n + k /\ p # o + 8 + 2 * n + k
      /\ p # o + 9 + 2 * n + k
  <2>1. p = o + 7 + 2 * n + k => p + 1 = o + 8 + 2 * n + k
    BY <1>1
  <2> QED
    BY <1>2, <1>4, <2>1, QuoteIs
<1> QED
  BY <1>1, <1>5, <1>6, <1>7

LEMMA CellTag ==
  ASSUME NEW m, NEW e, Harmless(e), NEW o \in Nat, CellAt(m, o, e),
         NEW p \in (o + 1) .. (o + 6 + Len(e)), m[p] = "<", m[p + 1] = "td"
  PROVE  p = o + 1
<1> DEFINE n == Len(e)
<1>1. n \in Nat /\ p \in (o + 1) .. (o + 6 + n) /\ p \in Int
  BY LenProperties DEF Harmless
<1>2. /\ m[o + 2] = "td" /\ m[o + 3] = ">" /\ (\A i \in 1 .. n : m[o + 3 + i] = e[i])
      /\ m[o + 5 + n] = "/td" /\ m[o + 6 + n] = ">"
  BY DEF CellAt
<1>3. \A i \in 1 .. n : e[i] # "<"
  BY DEF Harmless
<1>4. p + 1 = o + 5 + n => FALSE
  BY <1>2
<1> HIDE DEF n
<1>5. p - (o + 3) \notin 1 .. n
  <2> SUFFICES ASSUME p - (o + 3) \in 1 .. n PROVE FALSE
    OBVIOUS
  <2>1. PICK i \in 1 .. n : i = p - (o + 3)
    OBVIOUS
  <2>2. p = o + 3 + i
    BY <1>1, <2>1
  <2> QED
    BY <1>2, <1>3, <2>2
<1>6. p # o + 2 /\ p # o + 3 /\ p # o + 4 + n /\ p # o + 5 + n /\ p # o + 6 + n
  <2>1. p = o + 4 + n => p + 1 = o + 5 + n
    BY <1>1
  <2> QED
    BY <1>2, <1>4, <2>1
<1> QED
  BY <1>1, <1>5, <1>6

-----------------------------------------------------------------------------
(* The menu, the row, and the texts in them. *)

\* Markup is the same behind other markup.
LEMMA OptionMoved ==
  ASSUME NEW m, NEW w, NEW e, Harmless(e), NEW selected \in BOOLEAN, NEW o \in Nat,
         Len(w) = OptionLength(e, selected), \A i \in 1 .. Len(w) : m[o + i] = w[i],
         OptionAt(w, 0, e, selected)
  PROVE  OptionAt(m, o, e, selected)
<1> DEFINE n == Len(e)
           k == IF selected THEN 1 ELSE 0
<1>1. n \in Nat /\ k \in 0 .. 1 /\ o \in Nat /\ Len(w) = 9 + 2 * n + k
      /\ (selected => k = 1)
  BY LenProperties DEF OptionLength, Harmless
<1>2. \A i \in 1 .. Len(w) : m[o + i] = w[i]
  OBVIOUS
<1>3. /\ w[1] = "<" /\ w[2] = "option" /\ w[3] = "value=" /\ w[4] = Quote
      /\ \A i \in 1 .. n : w[4 + i] = e[i]
      /\ w[5 + n] = Quote /\ (selected => w[6 + n] = "selected") /\ w[6 + n + k] = ">"
      /\ \A i \in 1 .. n : w[6 + n + k + i] = e[i]
      /\ w[7 + 2 * n + k] = "<" /\ w[8 + 2 * n + k] = "/option" /\ w[9 + 2 * n + k] = ">"
  <2>1. \A i \in Int : 0 + i = i
    OBVIOUS
  <2> QED
    BY <1>1, <2>1 DEF OptionAt
<1> HIDE DEF n, k
<1>4. /\ m[o + 1] = "<" /\ m[o + 2] = "option" /\ m[o + 3] = "value=" /\ m[o + 4] = Quote
  BY <1>1, <1>2, <1>3
<1>5. \A i \in 1 .. n : m[o + 4 + i] = e[i]
  <2> TAKE i \in 1 .. n
  <2>1. 4 + i \in 1 .. Len(w) /\ o + (4 + i) = o + 4 + i
    BY <1>1
  <2>2. m[o + (4 + i)] = w[4 + i]
    BY <1>2, <2>1
  <2> QED
    BY <1>3, <2>1, <2>2
<1>6. m[o + 5 + n] = Quote
  <2>1. 5 + n \in 1 .. Len(w) /\ o + (5 + n) = o + 5 + n
    BY <1>1
  <2>2. m[o + (5 + n)] = w[5 + n]
    BY <1>2, <2>1
  <2> QED
    BY <1>3, <2>1, <2>2
<1>7. selected => m[o + 6 + n] = "selected"
  <2>1. 6 + n \in 1 .. Len(w) /\ o + (6 + n) = o + 6 + n
    <3>1. n \in Nat /\ k \in 0 .. 1 /\ o \in Nat /\ Len(w) = 9 + 2 * n + k
      BY <1>1
    <3>2. 6 + n \in 1 .. (9 + 2 * n + k)
      BY <3>1
    <3> QED
      BY <3>1, <3>2
  <2>2. m[o + (6 + n)] = w[6 + n]
    BY <1>2, <2>1
  <2> QED
    BY <1>3, <2>1, <2>2
<1>8. m[o + 6 + n + k] = ">"
  <2>1. 6 + n + k \in 1 .. Len(w) /\ o + (6 + n + k) = o + 6 + n + k
    BY <1>1
  <2>2. m[o + (6 + n + k)] = w[6 + n + k]
    BY <1>2, <2>1
  <2> QED
    BY <1>3, <2>1, <2>2
<1>9. \A i \in 1 .. n : m[o + 6 + n + k + i] = e[i]
  <2> TAKE i \in 1 .. n
  <2>1. 6 + n + k + i \in 1 .. Len(w) /\ o + (6 + n + k + i) = o + 6 + n + k + i
    BY <1>1
  <2>2. m[o + (6 + n + k + i)] = w[6 + n + k + i]
    BY <1>2, <2>1
  <2> QED
    BY <1>3, <2>1, <2>2
<1>10. m[o + 7 + 2 * n + k] = "<" /\ m[o + 8 + 2 * n + k] = "/option"
       /\ m[o + 9 + 2 * n + k] = ">"
  <2>1. \A j \in 7 .. 9 : j + 2 * n + k \in 1 .. Len(w)
                          /\ o + (j + 2 * n + k) = o + j + 2 * n + k
    BY <1>1
  <2>2. \A j \in 7 .. 9 : m[o + j + 2 * n + k] = w[j + 2 * n + k]
    BY <1>2, <2>1
  <2>3. 7 \in 7 .. 9 /\ 8 \in 7 .. 9 /\ 9 \in 7 .. 9
    OBVIOUS
  <2> QED
    BY <1>3, <2>2, <2>3
<1> QED
  BY <1>4, <1>5, <1>6, <1>7, <1>8, <1>9, <1>10 DEF OptionAt, n, k

LEMMA CellMoved ==
  ASSUME NEW m, NEW w, NEW e, Harmless(e), NEW o \in Nat, Len(w) = 6 + Len(e),
         \A i \in 1 .. Len(w) : m[o + i] = w[i], CellAt(w, 0, e)
  PROVE  CellAt(m, o, e)
<1> DEFINE n == Len(e)
<1>1. n \in Nat /\ o \in Nat /\ Len(w) = 6 + n
  BY LenProperties DEF Harmless
<1>2. \A i \in 1 .. Len(w) : m[o + i] = w[i]
  OBVIOUS
<1>3. /\ w[1] = "<" /\ w[2] = "td" /\ w[3] = ">" /\ \A i \in 1 .. n : w[3 + i] = e[i]
      /\ w[4 + n] = "<" /\ w[5 + n] = "/td" /\ w[6 + n] = ">"
  <2>1. \A i \in Int : 0 + i = i
    OBVIOUS
  <2> QED
    BY <1>1, <2>1 DEF CellAt
<1> HIDE DEF n
<1>4. m[o + 1] = "<" /\ m[o + 2] = "td" /\ m[o + 3] = ">"
  BY <1>1, <1>2, <1>3
<1>5. \A i \in 1 .. n : m[o + 3 + i] = e[i]
  <2> TAKE i \in 1 .. n
  <2>1. 3 + i \in 1 .. Len(w) /\ o + (3 + i) = o + 3 + i
    BY <1>1
  <2>2. m[o + (3 + i)] = w[3 + i]
    BY <1>2, <2>1
  <2> QED
    BY <1>3, <2>1, <2>2
<1>6. m[o + 4 + n] = "<" /\ m[o + 5 + n] = "/td" /\ m[o + 6 + n] = ">"
  <2>1. \A j \in 4 .. 6 : j + n \in 1 .. Len(w) /\ o + (j + n) = o + j + n
    BY <1>1
  <2>2. \A j \in 4 .. 6 : m[o + j + n] = w[j + n]
    BY <1>2, <2>1
  <2>3. 4 \in 4 .. 6 /\ 5 \in 4 .. 6 /\ 6 \in 4 .. 6
    OBVIOUS
  <2> QED
    BY <1>3, <2>2, <2>3
<1> QED
  BY <1>4, <1>5, <1>6 DEF CellAt, n

LEMMA MenuIs ==
  ASSUME NEW a \in Seq(Marks), NEW b \in Seq(Marks), Harmless(a), Harmless(b),
         NEW s \in BOOLEAN, NEW t \in BOOLEAN, NEW m,
         IsJoin(m, Page!Option(a, s), Page!Option(b, t))
  PROVE  Page!ReadMenu(m) =
           [ i \in 1 .. 2 |->
               IF i = 1 THEN [value |-> Page!Plain(a), selected |-> s, text |-> Page!Plain(a)]
               ELSE [value |-> Page!Plain(b), selected |-> t, text |-> Page!Plain(b)] ]
<1> DEFINE S == Marks \cup {"option", "value=", "selected", "/option"}
           x == Page!Option(a, s)
           w == Page!Option(b, t)
           k == OptionLength(a, s)
           l == OptionLength(b, t)
<1>1. /\ x \in Seq(S) /\ Len(x) = k /\ OptionAt(x, 0, a, s)
      /\ w \in Seq(S) /\ Len(w) = l /\ OptionAt(w, 0, b, t)
  BY OptionIs
<1>2. a \in Seq(S) /\ b \in Seq(S)
  BY SeqMonotonic
<1>3. k \in Nat /\ k >= 9 /\ l \in Nat /\ l >= 9
  <2>1. Len(a) \in Nat /\ Len(b) \in Nat
    BY LenProperties
  <2> QED
    BY <2>1 DEF OptionLength
<1> HIDE DEF S, x, w, k, l
<1>4. m \in Seq(S) /\ Holds(m, x, w)
  BY <1>1, JoinIs DEF x, w
<1>5. Len(m) = k + l /\ \A i \in 1 .. k : m[i] = x[i]
  BY <1>1, <1>4 DEF Holds
<1>6. OptionAt(m, 0, a, s)
  <2>1. \A i \in 1 .. Len(x) : m[0 + i] = x[i]
    BY <1>1, <1>5
  <2> QED
    BY <1>1, <2>1, OptionMoved DEF k
<1>7. OptionAt(m, k, b, t)
  <2>1. \A i \in 1 .. Len(w) : m[k + i] = w[i]
    BY <1>1, <1>4 DEF Holds
  <2> QED
    BY <1>1, <1>3, <2>1, OptionMoved DEF l
<1>8. Page!Tags(m, "option") = {1, k + 1}
  <2>1. ASSUME NEW p \in 1 .. (Len(m) - 1), m[p] = "<", m[p + 1] = "option"
        PROVE  p \in {1, k + 1}
    <3>1. CASE p <= k
      <4>1. p \in (0 + 1) .. (0 + OptionLength(a, s)) /\ 0 \in Nat
        BY <1>3, <3>1 DEF k
      <4>2. p = 0 + 1
        BY <1>6, <2>1, <4>1, OptionTag
      <4> QED
        BY <4>2
    <3>2. CASE p > k
      <4>1. p \in (k + 1) .. (k + OptionLength(b, t))
        BY <1>3, <1>5, <3>2 DEF l
      <4>2. p = k + 1
        BY <1>3, <1>7, <2>1, <4>1, OptionTag
      <4> QED
        BY <4>2
    <3> QED
      BY <1>3, <3>1, <3>2
  <2>2. 1 \in 1 .. (Len(m) - 1) /\ k + 1 \in 1 .. (Len(m) - 1)
    BY <1>3, <1>5
  <2>3. m[1] = "<" /\ m[1 + 1] = "option"
    <3>1. m[0 + 1] = "<" /\ m[0 + 2] = "option" /\ 0 + 1 = 1 /\ 0 + 2 = 1 + 1
      BY <1>6 DEF OptionAt
    <3> QED
      BY <3>1
  <2>4. m[k + 1] = "<" /\ m[k + 1 + 1] = "option"
    <3>1. m[k + 1] = "<" /\ m[k + 2] = "option" /\ k + 2 = k + 1 + 1
      BY <1>3, <1>7 DEF OptionAt
    <3> QED
      BY <3>1
  <2> QED
    BY <2>1, <2>2, <2>3, <2>4 DEF Page!Tags
<1>9. Page!InOrder({1, k + 1}) = <<1, k + 1>>
  <2>1. 1 \in Nat /\ k + 1 \in Nat /\ 1 < k + 1
    BY <1>3
  <2> QED
    BY <2>1, TwoInOrder
<1>10. Page!ReadOption(m, 1)
         = [value |-> Page!Plain(a), selected |-> s, text |-> Page!Plain(a)]
  <2>1. 0 \in Nat /\ 0 + OptionLength(a, s) <= Len(m) /\ 0 + 1 = 1
    BY <1>3, <1>5 DEF k
  <2>2. Page!ReadOption(m, 0 + 1)
          = [value |-> Page!Plain(a), selected |-> s, text |-> Page!Plain(a)]
    BY <1>2, <1>4, <1>6, <2>1, OptionRead
  <2> QED
    BY <2>1, <2>2
<1>11. Page!ReadOption(m, k + 1)
         = [value |-> Page!Plain(b), selected |-> t, text |-> Page!Plain(b)]
  <2>1. k \in Nat /\ k + OptionLength(b, t) <= Len(m)
    BY <1>3, <1>5 DEF l
  <2> QED
    BY <1>2, <1>4, <1>7, <2>1, OptionRead
<1> DEFINE at == <<1, k + 1>>
<1>12. Page!ReadMenu(m) = [ i \in DOMAIN at |-> Page!ReadOption(m, at[i]) ]
  BY <1>8, <1>9 DEF Page!ReadMenu
<1>13. DOMAIN at = 1 .. 2 /\ at[1] = 1 /\ at[2] = k + 1
  OBVIOUS
<1> HIDE DEF at
<1>14. \A i \in 1 .. 2 : i = 1 \/ i = 2
  OBVIOUS
<1> QED
  BY <1>10, <1>11, <1>12, <1>13, <1>14

LEMMA RowIs ==
  ASSUME NEW a \in Seq(Marks), NEW b \in Seq(Marks), Harmless(a), Harmless(b), NEW m,
         IsJoin(m, Page!Cell(a), Page!Cell(b))
  PROVE  Page!ReadRow(m) = [ i \in 1 .. 2 |-> IF i = 1 THEN Page!Plain(a) ELSE Page!Plain(b) ]
<1> DEFINE S == Marks \cup {"td", "/td"}
           x == Page!Cell(a)
           w == Page!Cell(b)
           k == 6 + Len(a)
           l == 6 + Len(b)
<1>1. /\ x \in Seq(S) /\ Len(x) = k /\ CellAt(x, 0, a)
      /\ w \in Seq(S) /\ Len(w) = l /\ CellAt(w, 0, b)
  BY CellIs
<1>2. a \in Seq(S) /\ b \in Seq(S)
  BY SeqMonotonic
<1>3. k \in Nat /\ k >= 6 /\ l \in Nat /\ l >= 6
  <2>1. Len(a) \in Nat /\ Len(b) \in Nat
    BY LenProperties
  <2> QED
    BY <2>1
<1> HIDE DEF S, x, w, k, l
<1>4. m \in Seq(S) /\ Holds(m, x, w)
  BY <1>1, JoinIs DEF x, w
<1>5. Len(m) = k + l /\ \A i \in 1 .. k : m[i] = x[i]
  BY <1>1, <1>4 DEF Holds
<1>6. CellAt(m, 0, a)
  <2>1. \A i \in 1 .. Len(x) : m[0 + i] = x[i]
    BY <1>1, <1>5
  <2> QED
    BY <1>1, <2>1, CellMoved DEF k
<1>7. CellAt(m, k, b)
  <2>1. \A i \in 1 .. Len(w) : m[k + i] = w[i]
    BY <1>1, <1>4 DEF Holds
  <2> QED
    BY <1>1, <1>3, <2>1, CellMoved DEF l
<1>8. Page!Tags(m, "td") = {1, k + 1}
  <2>1. ASSUME NEW p \in 1 .. (Len(m) - 1), m[p] = "<", m[p + 1] = "td"
        PROVE  p \in {1, k + 1}
    <3>1. CASE p <= k
      <4>1. p \in (0 + 1) .. (0 + 6 + Len(a)) /\ 0 \in Nat
        BY <1>3, <3>1 DEF k
      <4>2. p = 0 + 1
        BY <1>6, <2>1, <4>1, CellTag
      <4> QED
        BY <4>2
    <3>2. CASE p > k
      <4>1. p \in (k + 1) .. (k + 6 + Len(b))
        BY <1>3, <1>5, <3>2 DEF l
      <4>2. p = k + 1
        BY <1>3, <1>7, <2>1, <4>1, CellTag
      <4> QED
        BY <4>2
    <3> QED
      BY <1>3, <3>1, <3>2
  <2>2. 1 \in 1 .. (Len(m) - 1) /\ k + 1 \in 1 .. (Len(m) - 1)
    BY <1>3, <1>5
  <2>3. m[1] = "<" /\ m[1 + 1] = "td"
    <3>1. m[0 + 1] = "<" /\ m[0 + 2] = "td" /\ 0 + 1 = 1 /\ 0 + 2 = 1 + 1
      BY <1>6 DEF CellAt
    <3> QED
      BY <3>1
  <2>4. m[k + 1] = "<" /\ m[k + 1 + 1] = "td"
    <3>1. m[k + 1] = "<" /\ m[k + 2] = "td" /\ k + 2 = k + 1 + 1
      BY <1>3, <1>7 DEF CellAt
    <3> QED
      BY <3>1
  <2> QED
    BY <2>1, <2>2, <2>3, <2>4 DEF Page!Tags
<1>9. Page!InOrder({1, k + 1}) = <<1, k + 1>>
  <2>1. 1 \in Nat /\ k + 1 \in Nat /\ 1 < k + 1
    BY <1>3
  <2> QED
    BY <2>1, TwoInOrder
<1> DEFINE Read(p) == Page!Between(m, Page!Find(m, ">", p), Page!Find(m, "<", p + 1))
<1>10. Read(1) = Page!Plain(a)
  <2>1. 0 \in Nat /\ 0 + 6 + Len(a) <= Len(m) /\ 0 + 1 = 1
    BY <1>3, <1>5 DEF k
  <2>2. Read(0 + 1) = Page!Plain(a)
    BY <1>2, <1>4, <1>6, <2>1, CellRead
  <2> QED
    BY <2>1, <2>2
<1>11. Read(k + 1) = Page!Plain(b)
  <2>1. k \in Nat /\ k + 6 + Len(b) <= Len(m)
    BY <1>3, <1>5 DEF l
  <2> QED
    BY <1>2, <1>4, <1>7, <2>1, CellRead
<1> DEFINE at == <<1, k + 1>>
<1>12. Page!ReadRow(m) = [ i \in DOMAIN at |-> Read(at[i]) ]
  BY <1>8, <1>9 DEF Page!ReadRow
<1>13. DOMAIN at = 1 .. 2 /\ at[1] = 1 /\ at[2] = k + 1
  OBVIOUS
<1> HIDE DEF at, Read
<1>14. \A i \in 1 .. 2 : i = 1 \/ i = 2
  OBVIOUS
<1> QED
  BY <1>10, <1>11, <1>12, <1>13, <1>14

\* A page with two texts, from a table of references.
LEMMA PageRead ==
  ASSUME NEW a \in Seq(Page!Tokens), NEW b \in Seq(Page!Tokens), NEW c, NEW d,
         ReadBack(a, c), ReadBack(b, d), NEW filter
  PROVE  /\ Page!ReadMenu(
              Page!RenderClassSelect(<<a, b>>, [ i \in 1 .. 2 |-> <<c, d>>[i] ], filter))
              = [ i \in 1 .. 2 |-> [value |-> <<a, b>>[i], selected |-> <<a, b>>[i] = filter,
                                     text |-> <<a, b>>[i]] ]
         /\ Page!ReadRow(Page!RenderRow([ i \in 1 .. 2 |-> <<c, d>>[i] ])) = <<a, b>>
<1> DEFINE s == a = filter
           t == b = filter
           e == [ i \in 1 .. 2 |-> <<c, d>>[i] ]
           texts == <<a, b>>
<1>1. c \in Seq(Marks) /\ Harmless(c) /\ d \in Seq(Marks) /\ Harmless(d)
      /\ Page!Plain(c) = a /\ Page!Plain(d) = b
  BY DEF ReadBack, Harmless, Quote
<1>2. DOMAIN texts = 1 .. 2 /\ texts[1] = a /\ texts[2] = b
      /\ DOMAIN e = 1 .. 2 /\ e[1] = c /\ e[2] = d
  OBVIOUS
<1>3. \A i \in 1 .. 2 : i = 1 \/ i = 2
  OBVIOUS
<1>4. \A u, w, f : f = [ i \in 1 .. 2 |-> IF i = 1 THEN u ELSE w ] => f = <<u, w>>
  OBVIOUS
<1>5. s \in BOOLEAN /\ t \in BOOLEAN
  OBVIOUS
<1> DEFINE x == Page!Option(c, s)
           y == Page!Option(d, t)
           menu == Page!RenderClassSelect(texts, e, filter)
           row == Page!RenderRow(e)
<1>6. IsJoin(menu, x, y)
  <2>1. menu = Seqs!FlattenSeq([ i \in 1 .. 2 |-> Page!Option(e[i], texts[i] = filter) ])
    BY <1>2, SameFlattenText DEF Page!RenderClassSelect
  <2>2. [ i \in 1 .. 2 |-> Page!Option(e[i], texts[i] = filter) ]
          = [ i \in 1 .. 2 |-> IF i = 1 THEN x ELSE y ]
    BY <1>2, <1>3
  <2>3. menu = Seqs!FlattenSeq(<<x, y>>)
    BY <1>4, <2>1, <2>2
  <2>4. PICK S : x \in Seq(S) /\ y \in Seq(S)
    BY <1>1, <1>5, OptionIs
  <2> HIDE DEF x, y, menu
  <2> QED
    BY <2>3, <2>4, TwoFlatten
<1>7. IsJoin(row, Page!Cell(c), Page!Cell(d))
  <2> DEFINE p == Page!Cell(c)
             q == Page!Cell(d)
  <2>1. row = Seqs!FlattenSeq([ i \in 1 .. 2 |-> Page!Cell(e[i]) ])
    BY <1>2, SameFlattenText DEF Page!RenderRow
  <2>2. [ i \in 1 .. 2 |-> Page!Cell(e[i]) ] = [ i \in 1 .. 2 |-> IF i = 1 THEN p ELSE q ]
    BY <1>2, <1>3
  <2>3. row = Seqs!FlattenSeq(<<p, q>>)
    BY <1>4, <2>1, <2>2
  <2>4. PICK S : p \in Seq(S) /\ q \in Seq(S)
    BY <1>1, CellIs
  <2> HIDE DEF p, q, row
  <2>5. IsJoin(row, p, q)
    BY <2>3, <2>4, TwoFlatten
  <2> QED
    BY <2>5 DEF p, q
<1> HIDE DEF s, t, menu, row
<1>8. Page!ReadMenu(menu) =
        [ i \in 1 .. 2 |-> IF i = 1 THEN [value |-> a, selected |-> s, text |-> a]
                            ELSE [value |-> b, selected |-> t, text |-> b] ]
  BY <1>1, <1>5, <1>6, MenuIs
<1>9. [ i \in 1 .. 2 |-> IF i = 1 THEN [value |-> a, selected |-> s, text |-> a]
                          ELSE [value |-> b, selected |-> t, text |-> b] ]
        = [ i \in 1 .. 2 |-> [value |-> texts[i], selected |-> texts[i] = filter,
                               text |-> texts[i]] ]
  BY <1>2, <1>3 DEF s, t
<1>10. Page!ReadRow(row) = <<a, b>>
  <2>1. Page!ReadRow(row) = [ i \in 1 .. 2 |-> IF i = 1 THEN a ELSE b ]
    BY <1>1, <1>7, RowIs
  <2> QED
    BY <1>4, <2>1
<1> QED
  BY <1>8, <1>9, <1>10 DEF menu, row

TextTypes == first \in Seq(Page!Tokens) /\ second \in Seq(Page!Tokens)

LEMMA TypesComeBack == TextTypes => Page!TextsComeBack
<1> SUFFICES ASSUME TextTypes PROVE Page!TextsComeBack
  OBVIOUS
<1> DEFINE texts == <<first, second>>
           pages == { [ i \in 1 .. 2 |-> Page!EscapeHtml(texts[i]) ],
                      [ i \in 1 .. 2 |-> Page!htmlspecialchars(texts[i]) ] }
<1>1. ASSUME NEW escaped \in pages
      PROVE  \E c, d : /\ escaped = [ i \in 1 .. 2 |-> <<c, d>>[i] ]
                       /\ ReadBack(first, c) /\ ReadBack(second, d)
  <2>1. \A i \in 1 .. 2 : i = 1 \/ i = 2
    OBVIOUS
  <2>2. CASE escaped = [ i \in 1 .. 2 |-> Page!EscapeHtml(texts[i]) ]
    <3>1. PICK ref : IsTable(ref) /\ \A text : Page!EscapeHtml(text) = Page!Written(text, ref)
      BY Tables
    <3>2. ReadBack(first, Page!EscapeHtml(first)) /\ ReadBack(second, Page!EscapeHtml(second))
      BY <3>1, AllBack DEF TextTypes
    <3>3. escaped = [ i \in 1 .. 2 |-> <<Page!EscapeHtml(first), Page!EscapeHtml(second)>>[i] ]
      BY <2>1, <2>2
    <3> QED
      BY <3>2, <3>3
  <2>3. CASE escaped = [ i \in 1 .. 2 |-> Page!htmlspecialchars(texts[i]) ]
    <3>1. PICK ref : IsTable(ref)
                     /\ \A text : Page!htmlspecialchars(text) = Page!Written(text, ref)
      BY Tables
    <3>2. ReadBack(first, Page!htmlspecialchars(first))
          /\ ReadBack(second, Page!htmlspecialchars(second))
      BY <3>1, AllBack DEF TextTypes
    <3>3. escaped = [ i \in 1 .. 2 |->
                        <<Page!htmlspecialchars(first), Page!htmlspecialchars(second)>>[i] ]
      BY <2>1, <2>3
    <3> QED
      BY <3>2, <3>3
  <2> QED
    BY <2>2, <2>3
<1>2. ASSUME NEW filter \in {first, second}, NEW escaped \in pages
      PROVE  /\ Page!ReadMenu(Page!RenderClassSelect(texts, escaped, filter))
                  = [ i \in 1 .. 2 |-> [value |-> texts[i], selected |-> texts[i] = filter,
                                         text |-> texts[i]] ]
             /\ Page!ReadRow(Page!RenderRow(escaped)) = texts
  <2>1. PICK c, d : /\ escaped = [ i \in 1 .. 2 |-> <<c, d>>[i] ]
                    /\ ReadBack(first, c) /\ ReadBack(second, d)
    BY <1>1
  <2>2. first \in Seq(Page!Tokens) /\ second \in Seq(Page!Tokens)
    BY DEF TextTypes
  <2> DEFINE e == [ i \in 1 .. 2 |-> <<c, d>>[i] ]
  <2>3. /\ Page!ReadMenu(Page!RenderClassSelect(texts, e, filter))
             = [ i \in 1 .. 2 |-> [value |-> texts[i], selected |-> texts[i] = filter,
                                    text |-> texts[i]] ]
        /\ Page!ReadRow(Page!RenderRow(e)) = texts
    BY <2>1, <2>2, PageRead
  <2>4. escaped = e
    BY <2>1
  <2> HIDE DEF pages, texts, e
  <2> QED
    BY <2>3, <2>4
<1> HIDE DEF pages, texts
<1> QED
  BY <1>2 DEF Page!TextsComeBack, pages, texts

LEMMA TextTypesKept == MCSpec => [](turn = "text" => TextTypes)
<1> DEFINE Inv == turn = "text" => TextTypes
<1>1. MCInit => Inv
  BY EmptySeq DEF MCInit, Page!HtmlInit, TextTypes
<1>2. Inv /\ [MCNext]_all => Inv'
  <2> SUFFICES ASSUME Inv, [MCNext]_all, turn' = "text" PROVE TextTypes'
    OBVIOUS
  <2>1. CASE UNCHANGED all
    BY <2>1 DEF all, pageVars, TextTypes, Page!Tokens
  <2>2. CASE MCNext
    <3>1. TextTypes /\ Page!HtmlNext
      BY <2>2 DEF MCNext
    <3>2. PICK t \in Page!Tokens :
            \/ first' = Append(first, t) /\ second' = second
            \/ second' = Append(second, t) /\ first' = first
      BY <3>1 DEF Page!HtmlNext
    <3>3. Append(first, t) \in Seq(Page!Tokens) /\ Append(second, t) \in Seq(Page!Tokens)
      BY <3>1, AppendProperties DEF TextTypes
    <3>4. first' \in Seq(Page!Tokens) /\ second' \in Seq(Page!Tokens)
      BY <3>1, <3>2, <3>3 DEF TextTypes
    <3>5. Page!Tokens' = Page!Tokens
      BY DEF Page!Tokens
    <3> QED
      BY <3>4, <3>5 DEF TextTypes
  <2> QED
    BY <2>1, <2>2
<1> QED
  BY <1>1, <1>2, PTL DEF MCSpec

\* Whatever the texts of the tables are, and however long: a browser reads the
\* menu and the rows of the page as the tables have them, and exactly the class
\* filtered by is selected (EscapeHtml, RenderClassSelect and RenderTable of
\* template.cpp; htmlspecialchars in index.php).
THEOREM TextsReadBack == MCSpec => []TextsComeBack
<1>1. (turn = "text" => TextTypes) => TextsComeBack
  BY TypesComeBack DEF TextsComeBack
<1> QED
  BY <1>1, TextTypesKept, PTL

=============================================================================
