---------------------------- MODULE GradesProofs ----------------------------
(***************************************************************************)
(* Lemmas about the statements, their results and what is read from them.  *)
(***************************************************************************)
EXTENDS Grades, FiniteSetTheorems, TLAPS

\* A set of scores has a greatest element, so MAX is defined on it.
LEMMA GreatestScore ==
  ASSUME NEW W \in SUBSET Points, W # {}
  PROVE  \E m \in W : \A v \in W : m >= v
<1> DEFINE T == { n \in Nat : MaxPoints - n \in W }
           R == OpToRel(<, Nat)
<1>1. T # {}
  <2>1. PICK v \in W : TRUE
    OBVIOUS
  <2>2. v \in Int /\ v <= MaxPoints
    BY DataAssumption DEF Points
  <2>3. MaxPoints - v \in T
    BY <2>2, DataAssumption
  <2> QED
    BY <2>3
<1>2. IsWellFoundedOn(R, Nat)
  BY NatLessThanWellFounded
<1>3. \E x \in T : \A y \in T : ~ (<<y, x>> \in R)
  <2>1. T \subseteq Nat
    OBVIOUS
  <2> HIDE DEF T, R
  <2> QED
    BY <1>1, <1>2, <2>1, WFMin
<1>4. PICK x \in T : \A y \in T : ~ (<<y, x>> \in R)
  BY <1>3
<1>5. \A v \in W : MaxPoints - x >= v
  <2> SUFFICES ASSUME NEW v \in W PROVE MaxPoints - x >= v
    OBVIOUS
  <2>1. v \in Int /\ v <= MaxPoints
    BY DataAssumption DEF Points
  <2>2. MaxPoints - v \in T
    BY <2>1, DataAssumption
  <2>3. ~ (MaxPoints - v < x)
    BY <1>4, <2>1, <2>2, DataAssumption DEF OpToRel
  <2> QED
    BY <2>1, <2>3, DataAssumption
<1> QED
  BY <1>5

\* What MAX returns: the greatest score, or NULL when there is no score.
LEMMA SqlMaxValue ==
  ASSUME NEW V \in SUBSET (Points \cup {NULL})
  PROVE  /\ SqlMax(V) = NULL => V \subseteq {NULL}
         /\ SqlMax(V) # NULL => /\ SqlMax(V) \in V \cap Points
                                /\ \A v \in V \cap Points : SqlMax(V) >= v
<1> DEFINE W == V \ {NULL}
<1>1. W \in SUBSET Points /\ NULL \notin W /\ V \cap Points \subseteq W
  <2>1. \A p \in Points : p \in Int
    BY DataAssumption DEF Points
  <2>2. NULL \notin Points
    BY <2>1, DataAssumption
  <2> QED
    BY <2>2
<1>2. CASE W = {}
  BY <1>1, <1>2 DEF SqlMax
<1>3. CASE W # {}
  <2> DEFINE m == CHOOSE k \in W : \A v \in W : k >= v
  <2>1. \E k \in W : \A v \in W : k >= v
    BY <1>1, <1>3, GreatestScore
  <2>2. m \in W /\ \A v \in W : m >= v
    BY <2>1
  <2>3. SqlMax(V) = m
    BY <1>3 DEF SqlMax
  <2> QED
    BY <1>1, <2>2, <2>3
<1> QED
  BY <1>2, <1>3

-----------------------------------------------------------------------------
LEMMA StudentFields ==
  ASSUME NEW d \in Database, NEW s \in d.students
  PROVE  /\ s.id \in Int /\ s.name \in Int /\ s.class \in Int
         /\ s.class \in Texts
<1>1. s \in Student
  BY DEF Database
<1>2. s.id \in Ids /\ s.name \in Texts /\ s.class \in Texts
  BY <1>1 DEF Student
<1>3. Ids \subseteq Int /\ Texts \subseteq Int
  BY DataAssumption
<1> QED
  BY <1>2, <1>3

LEMMA ScoreFields ==
  ASSUME NEW d \in Database, NEW x \in d.scores
  PROVE  x.score \in Points \cup {NULL}
<1>1. x \in Score
  BY DEF Database
<1> QED
  BY <1>1 DEF Score

LEMMA SeqFromFunction ==
  ASSUME NEW T, NEW n \in Nat, NEW q \in [1 .. n -> T]
  PROVE  q \in Seq(T) /\ Len(q) = n
OBVIOUS

\* What a query returns is a result, of tuples of the right shape.
LEMMA ClassTuplesType ==
  ASSUME NEW d \in Database, IsFiniteSet(d.students), NEW t \in ClassTuples(d)
  PROVE  t \in Seq(Tuple)
<1> DEFINE S == { s.class : s \in d.students }
           f == [s \in d.students |-> s.class]
<1>1. IsFiniteSet(S)
  <2>1. f \in Surjection(d.students, S)
    BY DEF Surjection
  <2> QED
    BY <2>1, FS_Surjection
<1>2. Cardinality(S) \in Nat
  BY <1>1, FS_CardinalityType
<1>3. S \subseteq Int
  BY StudentFields
<1>4. PICK o \in OrderBy(S, TextBefore) : t = [i \in DOMAIN o |-> <<o[i]>>]
  BY DEF ClassTuples
<1>5. o \in [1 .. Cardinality(S) -> S]
  BY <1>4 DEF OrderBy
<1>6. \A i \in 1 .. Cardinality(S) : <<o[i]>> \in Tuple
  <2> SUFFICES ASSUME NEW i \in 1 .. Cardinality(S) PROVE <<o[i]>> \in Tuple
    OBVIOUS
  <2>1. o[i] \in SqlValue
    BY <1>3, <1>5 DEF SqlValue
  <2>2. <<o[i]>> \in [1 .. 1 -> SqlValue]
    BY <2>1
  <2> QED
    BY <2>2 DEF Tuple
<1>7. t \in [1 .. Cardinality(S) -> Tuple]
  BY <1>4, <1>5, <1>6
<1> HIDE DEF S
<1> QED
  BY <1>2, <1>7, SeqFromFunction

\* A row of the pivot query is about one of the students asked for.
LEMMA PivotTuple ==
  ASSUME NEW d \in Database, IsFiniteSet(d.students), NEW filter \in Texts,
         NEW t \in PivotTuples(d, filter)
  PROVE  /\ t \in Seq(Tuple)
         /\ \A i \in DOMAIN t :
              /\ t[i] \in [1 .. (3 + kSubjectCount) -> SqlValue]
              /\ \E s \in d.students :
                   /\ filter # EmptyText => s.class = filter
                   /\ t[i][1] = s.id /\ t[i][2] = s.name /\ t[i][3] = s.class
<1> DEFINE J == Joined(d, filter)
           S == { j.s : j \in J }
<1>1. \A j \in J : /\ j.s \in d.students
                   /\ filter # EmptyText => j.s.class = filter
                   /\ j.sc.score \in Points \cup {NULL}
  <2> DEFINE Of(s) == { x \in d.scores : x.student_id = s.id }
             A == { s \in d.students : filter = EmptyText \/ s.class = filter }
  <2> SUFFICES ASSUME NEW j \in J
               PROVE  /\ j.s \in A
                      /\ j.sc.score \in Points \cup {NULL}
    OBVIOUS
  <2>1. CASE \E s \in A : \E x \in Of(s) :
               j = [s |-> s, sc |-> [subject |-> x.subject, score |-> x.score]]
    BY <2>1, ScoreFields
  <2>2. CASE \E s \in A : j = [s |-> s, sc |-> NoScore]
    BY <2>2 DEF NoScore
  <2>3. \/ \E s \in A : \E x \in Of(s) :
             j = [s |-> s, sc |-> [subject |-> x.subject, score |-> x.score]]
        \/ \E s \in A : j = [s |-> s, sc |-> NoScore]
    BY DEF Joined
  <2> QED
    BY <2>1, <2>2, <2>3
<1>2. IsFiniteSet(S) /\ Cardinality(S) \in Nat
  <2>1. S \in SUBSET d.students
    BY <1>1
  <2>2. IsFiniteSet(S)
    BY <2>1, FS_Subset
  <2> QED
    BY <2>2, FS_CardinalityType
<1>3. PICK o \in OrderBy(S, StudentBefore) : t = [i \in DOMAIN o |-> GroupTuple(J, o[i])]
  BY DEF PivotTuples
<1>4. o \in [1 .. Cardinality(S) -> S]
  BY <1>3 DEF OrderBy
<1>5. kSubjectCount \in Nat
  BY DataAssumption DEF kSubjectCount
<1>6. ASSUME NEW s \in S
      PROVE  /\ s \in d.students
             /\ filter # EmptyText => s.class = filter
             /\ GroupTuple(J, s) \in [1 .. (3 + kSubjectCount) -> SqlValue]
             /\ GroupTuple(J, s)[1] = s.id
             /\ GroupTuple(J, s)[2] = s.name
             /\ GroupTuple(J, s)[3] = s.class
  <2>1. s \in d.students /\ (filter # EmptyText => s.class = filter)
    BY <1>1
  <2>2. s.id \in Int /\ s.name \in Int /\ s.class \in Int
    BY <2>1, StudentFields
  <2>3. \A subj : SubjectColumn({ j \in J : j.s = s }, subj) \in SqlValue
    <3> SUFFICES ASSUME NEW subj
                 PROVE  SubjectColumn({ j \in J : j.s = s }, subj) \in SqlValue
      OBVIOUS
    <3> DEFINE V == { IF j.sc.subject = subj THEN j.sc.score ELSE NULL :
                        j \in { k \in J : k.s = s } }
    <3>1. V \in SUBSET (Points \cup {NULL})
      BY <1>1
    <3>2. SqlMax(V) \in Points \cup {NULL}
      BY <3>1, SqlMaxValue
    <3>3. Points \subseteq Int
      BY DataAssumption DEF Points
    <3> QED
      BY <3>2, <3>3 DEF SubjectColumn, SqlValue
  <2> QED
    BY <2>1, <2>2, <2>3, <1>5 DEF GroupTuple, SqlValue
<1>7. \A i \in 1 .. Cardinality(S) : t[i] = GroupTuple(J, o[i])
  BY <1>3, <1>4
<1>8. t \in [1 .. Cardinality(S) -> Tuple]
  BY <1>3, <1>4, <1>6 DEF Tuple
<1>9. t \in Seq(Tuple) /\ DOMAIN t = 1 .. Cardinality(S)
  <2> HIDE DEF S
  <2> QED
    BY <1>2, <1>8, SeqFromFunction
<1>10. \A i \in 1 .. Cardinality(S) : o[i] \in S
  BY <1>4
<1> HIDE DEF S, J
<1> QED
  BY <1>6, <1>7, <1>9, <1>10

LEMMA QueryResultsType ==
  ASSUME NEW d \in Database, IsFiniteSet(d.students), NEW call, NEW filter \in Texts,
         NEW r \in QueryResults(d, call, filter)
  PROVE  r \in Result
<1>1. Failed \in Result
  BY DEF Failed, Result
<1>2. ASSUME NEW t \in Seq(Tuple) PROVE TuplesOk(t) \in Result
  BY DEF TuplesOk, Result
<1> QED
  BY <1>1, <1>2, ClassTuplesType, PivotTuple DEF QueryResults

\* What the C++ code reads from any result has the types of its variables,
\* even when the result answers another statement.
LEMMA GetStringType ==
  ASSUME NEW tuple \in Tuple, NEW c \in Int
  PROVE  GetString(tuple, c) \in Int /\ (~ IsNull(tuple, c) => tuple[c] \in Int)
<1>1. \A k \in DOMAIN tuple : tuple[k] \in Int \cup {NULL}
  BY DEF Tuple, SqlValue
<1> QED
  BY <1>1 DEF GetString, IsNull, EmptyText

LEMMA ReadClassesType ==
  ASSUME NEW res \in Result
  PROVE  ReadClasses(res) \in Seq(Int)
<1>1. CASE res.ok
  <2> DEFINE e == [i \in DOMAIN res.tuples |-> GetString(res.tuples[i], 1)]
  <2>1. res.tuples \in Seq(Tuple)
    BY DEF Result
  <2>2. Len(res.tuples) \in Nat /\ DOMAIN res.tuples = 1 .. Len(res.tuples)
    BY <2>1
  <2>3. \A i \in DOMAIN res.tuples : GetString(res.tuples[i], 1) \in Int
    BY <2>1, GetStringType
  <2>4. e \in [1 .. Len(res.tuples) -> Int]
    BY <2>2, <2>3
  <2>5. e \in Seq(Int)
    BY <2>2, <2>4, SeqFromFunction
  <2> QED
    BY <1>1, <2>5 DEF ReadClasses
<1>2. CASE ~ res.ok
  BY <1>2 DEF ReadClasses
<1> QED
  BY <1>1, <1>2

LEMMA ReadScoresType ==
  ASSUME NEW tuple \in Tuple
  PROVE  /\ DOMAIN ReadScores(tuple) \subseteq Subjects
         /\ \A subj \in DOMAIN ReadScores(tuple) : ReadScores(tuple)[subj] \in Int
<1> DEFINE K == { k \in 1 .. kSubjectCount : ~ IsNull(tuple, 3 + k) }
           present == { kSubjects[i] : i \in K }
           column(subj) == CHOOSE c \in 4 .. (3 + kSubjectCount) : kSubjects[c - 3] = subj
<1>1. kSubjectCount \in Nat /\ DOMAIN kSubjects = 1 .. kSubjectCount
  BY DataAssumption DEF kSubjectCount
<1>2. \A i \in 1 .. kSubjectCount : kSubjects[i] \in Subjects
  BY <1>1, DataAssumption
<1>3. ReadScores(tuple) = [subj \in present |-> tuple[column(subj)]]
  BY DEF ReadScores
<1>4. ASSUME NEW k \in K
      PROVE  tuple[column(kSubjects[k])] \in Int
  <2> DEFINE c == column(kSubjects[k])
  <2>1. k \in 1 .. kSubjectCount /\ ~ IsNull(tuple, 3 + k)
    OBVIOUS
  <2>2. \E b \in 4 .. (3 + kSubjectCount) : kSubjects[b - 3] = kSubjects[k]
    <3>1. (3 + k) \in 4 .. (3 + kSubjectCount) /\ (3 + k) - 3 = k
      BY <1>1, <2>1
    <3> QED
      BY <3>1
  <2>3. c \in 4 .. (3 + kSubjectCount) /\ kSubjects[c - 3] = kSubjects[k]
    BY <2>2
  <2> HIDE DEF c
  <2>4. c - 3 \in 1 .. kSubjectCount
    BY <1>1, <2>3
  <2>5. c - 3 = k
    BY <1>1, <2>1, <2>3, <2>4, DataAssumption
  <2>6. c = 3 + k
    BY <2>3, <2>5, <1>1
  <2>7. tuple[c] \in Int
    BY <2>1, <2>6, GetStringType
  <2> QED
    BY <2>7 DEF c
<1> HIDE DEF K, column
<1>5. present \subseteq Subjects
  BY <1>2 DEF K
<1> QED
  BY <1>3, <1>4, <1>5

LEMMA ReadRowType ==
  ASSUME NEW tuple \in Tuple
  PROVE  IsRow(ReadRow(tuple))
<1>1. \A c \in Int : GetString(tuple, c) \in Int
  BY GetStringType
<1>2. Atoi(GetString(tuple, 1)) \in Int
  BY <1>1 DEF Atoi
<1> QED
  BY <1>1, <1>2, ReadScoresType DEF ReadRow, IsRow

LEMMA ReadPivotType ==
  ASSUME NEW res \in Result
  PROVE  \A i \in DOMAIN ReadPivot(res) : IsRow(ReadPivot(res)[i])
<1>1. CASE res.ok
  <2>1. res.tuples \in Seq(Tuple)
    BY DEF Result
  <2>2. \A i \in DOMAIN res.tuples : res.tuples[i] \in Tuple
    BY <2>1
  <2> QED
    BY <1>1, <2>2, ReadRowType DEF ReadPivot
<1>2. CASE ~ res.ok
  <2>1. DOMAIN ReadPivot(res) = {}
    BY <1>2 DEF ReadPivot
  <2> QED
    BY <2>1
<1> QED
  BY <1>1, <1>2

\* The rows read from the answer to a filtered query are of the class.
LEMMA PivotFiltered ==
  ASSUME NEW d \in Database, IsFiniteSet(d.students), NEW filter \in Texts,
         filter # EmptyText, NEW r \in QueryResults(d, "pivot", filter)
  PROVE  \A i \in DOMAIN ReadPivot(r) : ReadPivot(r)[i].className = filter
<1>1. CASE r = Failed
  <2>1. DOMAIN ReadPivot(r) = {}
    BY <1>1 DEF ReadPivot, Failed
  <2> QED
    BY <2>1
<1>2. CASE \E t \in PivotTuples(d, filter) : r = TuplesOk(t)
  <2>1. PICK t \in PivotTuples(d, filter) : r = TuplesOk(t)
    BY <1>2
  <2>2. r.ok /\ r.tuples = t
    BY <2>1 DEF TuplesOk
  <2>3. ASSUME NEW i \in DOMAIN t PROVE GetString(t[i], 3) = filter
    <3>1. kSubjectCount \in Nat
      BY DataAssumption DEF kSubjectCount
    <3>2. 3 \in DOMAIN t[i]
      BY <3>1, PivotTuple
    <3>3. t[i][3] = filter
      BY PivotTuple
    <3>4. filter # NULL
      BY DataAssumption
    <3> QED
      BY <3>2, <3>3, <3>4 DEF GetString, IsNull
  <2> QED
    BY <2>2, <2>3 DEF ReadPivot, ReadRow
<1> QED
  BY <1>1, <1>2 DEF QueryResults

-----------------------------------------------------------------------------
(* The menu and the table of one moment of the database. *)

\* A set listed without repetition in as many places as it has elements is
\* listed whole.
LEMMA ListedWhole ==
  ASSUME NEW S, IsFiniteSet(S), NEW o \in [1 .. Cardinality(S) -> S],
         \A i, j \in DOMAIN o : i # j => o[i] # o[j]
  PROVE  \A x \in S : \E i \in 1 .. Cardinality(S) : o[i] = x
<1>1. Cardinality(S) \in Nat
  BY FS_CardinalityType
<1>2. Cardinality(1 .. Cardinality(S)) = Cardinality(S)
  <2>1. ASSUME NEW n \in Nat PROVE Cardinality(1 .. n) = n
    BY FS_Interval
  <2> QED
    BY <1>1, <2>1
<1>3. o \in Injection(1 .. Cardinality(S), S)
  <2>1. \A a, b \in 1 .. Cardinality(S) : o[a] = o[b] => a = b
    OBVIOUS
  <2> QED
    BY <2>1 DEF Injection, IsInjective
<1>4. o \in Surjection(1 .. Cardinality(S), S)
  BY <1>2, <1>3, FS_Injection
<1> QED
  BY <1>4 DEF Surjection

\* The vector of QueryClasses has every class of a student, and no class twice.
LEMMA ClassesListed ==
  ASSUME NEW d \in Database, IsFiniteSet(d.students), d.ready, NEW filter,
         NEW r \in QueryResults(d, "classes", filter)
  PROVE  /\ \A s \in d.students :
              \E j \in DOMAIN ReadClasses(r) : ReadClasses(r)[j] = s.class
         /\ \A i, j \in DOMAIN ReadClasses(r) :
              ReadClasses(r)[i] = ReadClasses(r)[j] => i = j
<1> DEFINE S == { s.class : s \in d.students }
           f == [s \in d.students |-> s.class]
<1>1. IsFiniteSet(S)
  <2>1. f \in Surjection(d.students, S)
    BY DEF Surjection
  <2> QED
    BY <2>1, FS_Surjection
<1>2. PICK t \in ClassTuples(d) : r = TuplesOk(t)
  BY DEF QueryResults
<1>3. PICK o \in OrderBy(S, TextBefore) : t = [i \in DOMAIN o |-> <<o[i]>>]
  BY <1>2 DEF ClassTuples
<1>4. o \in [1 .. Cardinality(S) -> S] /\ \A i, j \in DOMAIN o : i # j => o[i] # o[j]
  BY <1>3 DEF OrderBy
<1>5. \A s \in d.students : s.class \in S
  OBVIOUS
<1>6. \A x \in S : x # NULL
  <2>1. \A x \in S : x \in Int
    BY StudentFields
  <2> QED
    BY <2>1, DataAssumption
<1> HIDE DEF S, f
<1>7. \A x \in S : \E i \in 1 .. Cardinality(S) : o[i] = x
  BY <1>1, <1>4, ListedWhole
<1>8. DOMAIN ReadClasses(r) = 1 .. Cardinality(S)
      /\ \A i \in 1 .. Cardinality(S) : ReadClasses(r)[i] = o[i]
  <2>1. r.ok /\ r.tuples = t
    BY <1>2 DEF TuplesOk
  <2>2. DOMAIN t = 1 .. Cardinality(S) /\ \A i \in 1 .. Cardinality(S) : t[i] = <<o[i]>>
    BY <1>3, <1>4
  <2>3. ASSUME NEW i \in 1 .. Cardinality(S) PROVE GetString(t[i], 1) = o[i]
    <3>1. t[i] = <<o[i]>> /\ o[i] # NULL
      BY <1>4, <1>6, <2>2
    <3>2. 1 \in DOMAIN t[i] /\ t[i][1] = o[i]
      BY <3>1
    <3> QED
      BY <3>1, <3>2 DEF GetString, IsNull
  <2> QED
    BY <2>1, <2>2, <2>3 DEF ReadClasses
<1> QED
  BY <1>4, <1>5, <1>7, <1>8

\* Every row of the vector of QueryPivot is of a student who is in the table.
LEMMA RowsOfStudents ==
  ASSUME NEW d \in Database, IsFiniteSet(d.students), NEW filter \in Texts,
         NEW r \in QueryResults(d, "pivot", filter)
  PROVE  /\ ReadPivot(r) # << >> => d.ready
         /\ \A i \in DOMAIN ReadPivot(r) :
              \E s \in d.students : ReadPivot(r)[i].className = s.class
<1>1. CASE r = Failed /\ ~ d.ready
  BY <1>1 DEF ReadPivot, Failed
<1>2. CASE d.ready /\ \E t \in PivotTuples(d, filter) : r = TuplesOk(t)
  <2>1. PICK t \in PivotTuples(d, filter) : r = TuplesOk(t)
    BY <1>2
  <2>2. r.ok /\ r.tuples = t
    BY <2>1 DEF TuplesOk
  <2>3. ASSUME NEW i \in DOMAIN t
        PROVE  \E s \in d.students : GetString(t[i], 3) = s.class
    <3>1. kSubjectCount \in Nat
      BY DataAssumption DEF kSubjectCount
    <3>2. 3 \in DOMAIN t[i]
      BY <3>1, PivotTuple
    <3>3. PICK s \in d.students : t[i][3] = s.class
      BY PivotTuple
    <3>4. s.class # NULL
      BY StudentFields, DataAssumption
    <3> QED
      BY <3>2, <3>3, <3>4 DEF GetString, IsNull
  <2> QED
    BY <1>2, <2>2, <2>3 DEF ReadPivot, ReadRow
<1> QED
  BY <1>1, <1>2 DEF QueryResults
=============================================================================
