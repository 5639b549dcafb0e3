--------------------------- MODULE SequenceLemmas ---------------------------
(***************************************************************************)
(* Facts about sequences that the proofs about streams and texts share:    *)
(* first and last positions, pieces, joins, and what FlattenSeq computes.  *)
(* The last is defined by recursion, so its facts hold for every length    *)
(* because there is no least length at which they fail.                    *)
(***************************************************************************)
EXTENDS Integers, Sequences, SequenceTheorems, NaturalsInduction,
        WellFoundedInduction, TLAPS

Seqs == INSTANCE SequencesExt

LEMMA LeastOne ==
  ASSUME NEW T \in SUBSET Nat, T # {}
  PROVE  \E x \in T : \A y \in T : x <= y
<1> DEFINE Less == OpToRel(<, Nat)
<1>1. IsWellFoundedOn(Less, Nat)
  BY NatLessThanWellFounded
<1>2. \E x \in T : \A y \in T : ~ (<<y, x>> \in Less)
  <2> HIDE DEF Less
  <2> QED
    BY <1>1, WFMin
<1>3. PICK x \in T : \A y \in T : ~ (<<y, x>> \in Less)
  BY <1>2
<1>4. ASSUME NEW y \in T PROVE x <= y
  <2>1. x \in Nat /\ y \in Nat
    OBVIOUS
  <2>2. ~ (y < x)
    BY <1>3, <2>1 DEF OpToRel
  <2> QED
    BY <2>1, <2>2
<1> QED
  BY <1>4

LEMMA LeastIs ==
  ASSUME NEW T \in SUBSET Int, NEW x \in T, \A y \in T : x <= y
  PROVE  (CHOOSE b \in T : \A c \in T : b <= c) = x
<1>1. \A b \in T : (\A c \in T : b <= c) => b = x
  <2>1. ASSUME NEW b \in T, \A c \in T : b <= c PROVE b = x
    <3>1. b <= x /\ x <= b /\ b \in Int /\ x \in Int
      BY <2>1
    <3> QED
      BY <3>1
  <2> QED
    BY <2>1
<1> QED
  BY <1>1

LEMMA GreatestIs ==
  ASSUME NEW T \in SUBSET Int, NEW x \in T, \A y \in T : x >= y
  PROVE  (CHOOSE b \in T : \A c \in T : b >= c) = x
<1>1. \A b \in T : (\A c \in T : b >= c) => b = x
  <2>1. ASSUME NEW b \in T, \A c \in T : b >= c PROVE b = x
    <3>1. b >= x /\ x >= b /\ b \in Int /\ x \in Int
      BY <2>1
    <3> QED
      BY <3>1
  <2> QED
    BY <2>1
<1> QED
  BY <1>1

-----------------------------------------------------------------------------
(* Pieces and joins. *)

LEMMA PieceIs ==
  ASSUME NEW S, NEW q \in Seq(S), NEW a \in 1 .. (Len(q) + 1), NEW e \in a .. (Len(q) + 1)
  PROVE  /\ SubSeq(q, a, e - 1) \in Seq(S)
         /\ Len(SubSeq(q, a, e - 1)) = e - a
         /\ \A k \in 1 .. (e - a) : SubSeq(q, a, e - 1)[k] = q[a + k - 1]
<1>1. Len(q) \in Nat
  BY LenProperties
<1>2. a \in Int /\ e - 1 \in Int /\ a \in Nat /\ e \in Nat
  BY <1>1
<1>3. \A i \in a .. (e - 1) : q[i] \in S
  <2>1. \A i \in a .. (e - 1) : i \in 1 .. Len(q)
    BY <1>1
  <2> QED
    BY <2>1, ElementOfSeq
<1>4. /\ SubSeq(q, a, e - 1) \in Seq(S)
      /\ Len(SubSeq(q, a, e - 1)) = IF a <= e - 1 THEN (e - 1) - a + 1 ELSE 0
      /\ \A i \in 1 .. (e - 1) - a + 1 : SubSeq(q, a, e - 1)[i] = q[a + i - 1]
  BY <1>2, <1>3, SubSeqProperties
<1> DEFINE s == SubSeq(q, a, e - 1)
<1>5. Len(s) = IF a <= e - 1 THEN (e - 1) - a + 1 ELSE 0
  BY <1>4
<1>6. \A i \in 1 .. (e - 1) - a + 1 : s[i] = q[a + i - 1]
  BY <1>4
<1>7. s \in Seq(S)
  BY <1>4
<1> HIDE DEF s
<1>8. Len(s) = e - a
  BY <1>1, <1>2, <1>5
<1>9. \A k \in 1 .. (e - a) : s[k] = q[a + k - 1]
  BY <1>1, <1>2, <1>6
<1> QED
  BY <1>7, <1>8, <1>9 DEF s

LEMMA SamePiece ==
  ASSUME NEW S, NEW q \in Seq(S), NEW r \in Seq(S),
         NEW a \in 1 .. (Len(q) + 1), NEW e \in a .. (Len(q) + 1),
         NEW b \in 1 .. (Len(r) + 1), NEW f \in b .. (Len(r) + 1), f - b = e - a,
         \A k \in 1 .. (e - a) : q[a + k - 1] = r[b + k - 1]
  PROVE  SubSeq(q, a, e - 1) = SubSeq(r, b, f - 1)
<1> DEFINE s == SubSeq(q, a, e - 1)
           t == SubSeq(r, b, f - 1)
<1>1. s \in Seq(S) /\ Len(s) = e - a /\ \A k \in 1 .. (e - a) : s[k] = q[a + k - 1]
  BY PieceIs
<1>2. t \in Seq(S) /\ Len(t) = f - b /\ \A k \in 1 .. (f - b) : t[k] = r[b + k - 1]
  BY PieceIs
<1> HIDE DEF s, t
<1>3. Len(s) = Len(t) /\ \A k \in 1 .. Len(s) : s[k] = t[k]
  BY <1>1, <1>2
<1>4. s = t
  BY <1>1, <1>2, <1>3, SeqEqual
<1> QED
  BY <1>4 DEF s, t

LEMMA SameThere ==
  ASSUME NEW S, NEW q \in Seq(S), NEW r \in Seq(S),
         NEW a \in 1 .. (Len(q) + 1), NEW e \in a .. (Len(q) + 1), e <= Len(r) + 1,
         \A k \in a .. (e - 1) : q[k] = r[k]
  PROVE  SubSeq(q, a, e - 1) = SubSeq(r, a, e - 1)
<1>1. Len(q) \in Nat /\ Len(r) \in Nat
  BY LenProperties
<1>2. a \in 1 .. (Len(r) + 1) /\ e \in a .. (Len(r) + 1)
  BY <1>1
<1>3. \A k \in 1 .. (e - a) : a + k - 1 \in a .. (e - 1)
  BY <1>1
<1>4. e - a = e - a /\ \A k \in 1 .. (e - a) : q[a + k - 1] = r[a + k - 1]
  BY <1>3
<1> QED
  BY <1>2, <1>4, SamePiece

IsJoin(w, s, t) == w = s \o t

\* What it means that w is s and then t.
Holds(w, s, t) ==
  /\ Len(w) = Len(s) + Len(t)
  /\ \A i \in 1 .. Len(s) : w[i] = s[i]
  /\ \A i \in 1 .. Len(t) : w[Len(s) + i] = t[i]

LEMMA JoinIs ==
  ASSUME NEW S, NEW s \in Seq(S), NEW t \in Seq(S), NEW w, IsJoin(w, s, t)
  PROVE  w \in Seq(S) /\ Holds(w, s, t)
<1>1. /\ s \o t \in Seq(S) /\ Len(s \o t) = Len(s) + Len(t)
      /\ \A i \in 1 .. Len(s) + Len(t) :
           (s \o t)[i] = IF i <= Len(s) THEN s[i] ELSE t[i - Len(s)]
  BY ConcatProperties
<1>2. w = s \o t
  BY DEF IsJoin
<1>3. /\ w \in Seq(S) /\ Len(w) = Len(s) + Len(t)
      /\ \A i \in 1 .. Len(s) + Len(t) : w[i] = IF i <= Len(s) THEN s[i] ELSE t[i - Len(s)]
  BY <1>1, <1>2, Zenon
<1>4. Len(s) \in Nat /\ Len(t) \in Nat
  BY LenProperties
<1>5. \A i \in 1 .. Len(s) : i \in 1 .. Len(s) + Len(t) /\ i <= Len(s)
  BY <1>4
<1>6. \A i \in 1 .. Len(t) : /\ Len(s) + i \in 1 .. Len(s) + Len(t)
                             /\ ~ (Len(s) + i <= Len(s)) /\ (Len(s) + i) - Len(s) = i
  BY <1>4
<1> QED
  BY <1>3, <1>5, <1>6 DEF Holds

-----------------------------------------------------------------------------
(* What FlattenSeq computes. *)

\* f is what FlattenSeq's recursive function over s has after n steps.
Joins(f, s, n) ==
  f = [ i \in 1 .. n |-> IF i = 1 THEN s[i] ELSE f[i - 1] \o s[i] ]

LEMMA JoinsAt ==
  ASSUME NEW s, NEW n \in Nat, NEW f, Joins(f, s, n), NEW i \in 1 .. n
  PROVE  f[i] = IF i = 1 THEN s[i] ELSE f[i - 1] \o s[i]
BY DEF Joins

LEMMA JoinsType ==
  ASSUME NEW S, NEW s \in Seq(Seq(S)), NEW n \in 0 .. Len(s), NEW f, Joins(f, s, n)
  PROVE  \A i \in 1 .. n : f[i] \in Seq(S)
<1> DEFINE T == { i \in Nat : i \in 1 .. n /\ f[i] \notin Seq(S) }
<1>1. SUFFICES ASSUME T # {} PROVE FALSE
  OBVIOUS
<1>2. PICK i \in T : \A y \in T : i <= y
  <2> HIDE DEF T
  <2>1. T \in SUBSET Nat
    BY DEF T
  <2> QED
    BY <1>1, <2>1, LeastOne
<1>3. i \in Nat /\ i \in 1 .. n /\ f[i] \notin Seq(S)
  OBVIOUS
<1>4. Len(s) \in Nat /\ n \in Nat /\ i \in 1 .. Len(s)
  BY <1>3, LenProperties
<1>9. s[i] \in Seq(S)
  BY <1>4, ElementOfSeq
<1>5. f[i] = IF i = 1 THEN s[i] ELSE f[i - 1] \o s[i]
  BY <1>3, <1>4, JoinsAt
<1>6. i # 1 => i - 1 \in 1 .. n /\ i - 1 \in Nat /\ ~ (i <= i - 1)
  BY <1>3, <1>4
<1>7. i # 1 => f[i - 1] \in Seq(S)
  BY <1>2, <1>6
<1>8. i # 1 => f[i - 1] \o s[i] \in Seq(S)
  BY <1>9, <1>7, ConcatProperties
<1> QED
  BY <1>3, <1>9, <1>5, <1>8

Agree(s, t, m) == \A i \in 1 .. m : s[i] = t[i]

\* Two of them agree as far as the sequences do.
LEMMA JoinsSame ==
  ASSUME NEW s, NEW t, NEW f, NEW g, NEW n \in Nat, NEW m \in Nat, m <= n,
         Joins(f, s, n), Joins(g, t, m), Agree(s, t, m)
  PROVE  Agree(f, g, m)
<1> DEFINE T == { i \in Nat : i \in 1 .. m /\ f[i] # g[i] }
<1>1. SUFFICES ASSUME T # {} PROVE FALSE
  BY DEF Agree
<1>2. PICK i \in T : \A y \in T : i <= y
  <2> HIDE DEF T
  <2>1. T \in SUBSET Nat
    BY DEF T
  <2> QED
    BY <1>1, <2>1, LeastOne
<1>3. i \in Nat /\ i \in 1 .. m /\ i \in 1 .. n /\ f[i] # g[i]
  OBVIOUS
<1>4. f[i] = IF i = 1 THEN s[i] ELSE f[i - 1] \o s[i]
  BY <1>3, JoinsAt
<1>5. g[i] = IF i = 1 THEN t[i] ELSE g[i - 1] \o t[i]
  BY <1>3, JoinsAt
<1>6. i # 1 => i - 1 \in 1 .. m /\ i - 1 \in Nat /\ ~ (i <= i - 1)
  BY <1>3
<1>7. i # 1 => f[i - 1] = g[i - 1]
  BY <1>2, <1>6
<1>8. s[i] = t[i]
  BY <1>3 DEF Agree
<1> QED
  BY <1>3, <1>4, <1>5, <1>7, <1>8

\* There is one to any length.
LEMMA JoinsExists ==
  ASSUME NEW s, NEW n \in Nat
  PROVE  \E f : Joins(f, s, n)
<1> DEFINE T == { i \in Nat : ~ \E f : Joins(f, s, i) }
<1>1. SUFFICES ASSUME T # {} PROVE FALSE
  OBVIOUS
<1>2. PICK i \in T : \A y \in T : i <= y
  <2> HIDE DEF T
  <2>1. T \in SUBSET Nat
    BY DEF T
  <2> QED
    BY <1>1, <2>1, LeastOne
<1>3. i \in Nat /\ ~ \E f : Joins(f, s, i)
  OBVIOUS
<1>4. CASE i = 0
  <2> DEFINE f == [ j \in 1 .. 0 |-> s[j] ]
  <2>1. Joins(f, s, 0)
    BY DEF Joins
  <2> QED
    BY <1>3, <1>4, <2>1
<1>5. CASE i # 0
  <2>1. i - 1 \in Nat /\ ~ (i <= i - 1)
    BY <1>3, <1>5
  <2>2. PICK g : Joins(g, s, i - 1)
    BY <1>2, <2>1
  <2> DEFINE f == [ j \in 1 .. i |->
                      IF j = 1 THEN s[j] ELSE g[j - 1] \o s[j] ]
  <2>3. \A j \in 1 .. i - 1 : f[j] = g[j]
    <3>1. ASSUME NEW j \in 1 .. i - 1
          PROVE  f[j] = g[j]
      <4>1. g[j] = IF j = 1 THEN s[j] ELSE g[j - 1] \o s[j]
        BY <2>1, <2>2, JoinsAt
      <4>2. j \in 1 .. i
        BY <1>3
      <4> QED
        BY <4>1, <4>2
    <3> QED
      BY <3>1
  <2>4. \A j \in 1 .. i : j # 1 => f[j - 1] = g[j - 1]
    <3>1. \A j \in 1 .. i : j # 1 => j - 1 \in 1 .. i - 1
      BY <1>3
    <3> HIDE DEF f
    <3> QED
      BY <2>3, <3>1
  <2>5. f = [ j \in 1 .. i |-> IF j = 1 THEN s[j] ELSE f[j - 1] \o s[j] ]
    <3>1. \A j \in 1 .. i : (IF j = 1 THEN s[j] ELSE g[j - 1] \o s[j])
                              = (IF j = 1 THEN s[j] ELSE f[j - 1] \o s[j])
      <4> HIDE DEF f
      <4> QED
        BY <2>4
    <3> QED
      BY <3>1, Zenon
  <2>6. Joins(f, s, i)
    <3> HIDE DEF f
    <3> QED
      BY <2>5 DEF Joins
  <2> QED
    BY <1>3, <2>6
<1> QED
  BY <1>4, <1>5

\* FlattenSeq(s) is what it has at the end.
LEMMA FlattenIs ==
  ASSUME NEW S, NEW s \in Seq(Seq(S)), Len(s) # 0
  PROVE  \E f : Joins(f, s, Len(s)) /\ Seqs!FlattenSeq(s) = f[Len(s)]
<1> DEFINE f == CHOOSE f : Joins(f, s, Len(s))
<1>1. Len(s) \in Nat
  BY LenProperties
<1>2. Joins(f, s, Len(s))
  BY <1>1, JoinsExists
<1>3. Seqs!FlattenSeq(s) = f[Len(s)]
  BY DEF Seqs!FlattenSeq, Joins
<1> QED
  BY <1>2, <1>3

LEMMA FlattenType ==
  ASSUME NEW S, NEW s \in Seq(Seq(S))
  PROVE  Seqs!FlattenSeq(s) \in Seq(S)
<1>1. Len(s) \in Nat
  BY LenProperties
<1>2. CASE Len(s) = 0
  <2>1. s = << >>
    BY <1>2, EmptySeq, LenProperties
  <2>2. Seqs!FlattenSeq(s) = << >>
    BY <1>2, <2>1 DEF Seqs!FlattenSeq
  <2> QED
    BY <2>2, EmptySeq
<1>3. CASE Len(s) # 0
  <2>1. PICK f : Joins(f, s, Len(s)) /\ Seqs!FlattenSeq(s) = f[Len(s)]
    BY <1>3, FlattenIs
  <2>2. Len(s) \in 0 .. Len(s) /\ Len(s) \in 1 .. Len(s)
    BY <1>1, <1>3
  <2>3. f[Len(s)] \in Seq(S)
    BY <2>1, <2>2, JoinsType
  <2> QED
    BY <2>1, <2>3
<1> QED
  BY <1>2, <1>3

\* One more sequence is joined at the end.
LEMMA FlattenLonger ==
  ASSUME NEW S, NEW s \in Seq(Seq(S)), NEW t \in Seq(Seq(S)), Len(t) = Len(s) + 1,
         \A i \in 1 .. Len(s) : t[i] = s[i]
  PROVE  Seqs!FlattenSeq(t) = Seqs!FlattenSeq(s) \o t[Len(t)]
<1>1. Len(s) \in Nat /\ Len(t) \in Nat /\ Len(t) # 0 /\ Len(t) \in 1 .. Len(t)
  BY LenProperties
<1>2. t[Len(t)] \in Seq(S)
  BY <1>1, ElementOfSeq
<1>3. PICK f : Joins(f, t, Len(t)) /\ Seqs!FlattenSeq(t) = f[Len(t)]
  BY <1>1, FlattenIs
<1>4. f[Len(t)] = IF Len(t) = 1 THEN t[Len(t)] ELSE f[Len(t) - 1] \o t[Len(t)]
  BY <1>1, <1>3, JoinsAt
<1>5. CASE Len(s) = 0
  <2>1. s = << >>
    BY <1>5, EmptySeq, LenProperties
  <2>2. Seqs!FlattenSeq(s) = << >>
    BY <1>5, <2>1 DEF Seqs!FlattenSeq
  <2>3. Seqs!FlattenSeq(t) = t[Len(t)]
    BY <1>3, <1>4, <1>5
  <2> QED
    BY <1>2, <2>2, <2>3, ConcatEmptySeq
<1>6. CASE Len(s) # 0
  <2>1. PICK g : Joins(g, s, Len(s)) /\ Seqs!FlattenSeq(s) = g[Len(s)]
    BY <1>6, FlattenIs
  <2>2. Len(s) <= Len(t) /\ Len(s) \in 1 .. Len(s) /\ Len(t) - 1 = Len(s) /\ Len(t) # 1
    BY <1>1, <1>6
  <2>3. \A i \in 1 .. Len(s) : f[i] = g[i]
    <3> DEFINE n == Len(t)
               m == Len(s)
    <3>1. n \in Nat /\ m \in Nat /\ m <= n /\ Agree(t, s, m)
      BY <1>1, <2>2 DEF Agree
    <3>2. Joins(f, t, n) /\ Joins(g, s, m)
      BY <1>3, <2>1
    <3> HIDE DEF n, m
    <3>3. Agree(f, g, m)
      BY <3>1, <3>2, JoinsSame
    <3> QED
      BY <3>3 DEF m, Agree
  <2>4. f[Len(t) - 1] = g[Len(s)]
    BY <2>2, <2>3
  <2>5. f[Len(t)] = f[Len(t) - 1] \o t[Len(t)]
    BY <1>4, <2>2
  <2> QED
    BY <1>3, <2>1, <2>4, <2>5
<1> QED
  BY <1>5, <1>6

LEMMA FlattenAdds ==
  ASSUME NEW S, NEW s \in Seq(Seq(S)), NEW t \in Seq(Seq(S)), NEW n \in Nat, NEW x,
         Len(s) = n, Len(t) = n + 1, \A i \in 1 .. n : t[i] = s[i], t[n + 1] = x
  PROVE  IsJoin(Seqs!FlattenSeq(t), Seqs!FlattenSeq(s), x)
<1>1. Seqs!FlattenSeq(t) = Seqs!FlattenSeq(s) \o t[Len(t)]
  <2>1. Len(t) = Len(s) + 1 /\ \A i \in 1 .. Len(s) : t[i] = s[i]
    OBVIOUS
  <2> QED
    BY <2>1, FlattenLonger
<1>2. t[Len(t)] = x
  OBVIOUS
<1> QED
  BY <1>1, <1>2 DEF IsJoin

=============================================================================
