--------------------------- MODULE ExchangeProofs ---------------------------
(***************************************************************************)
(* Theorems about MCHttpExchange, for any requests and any number of them, *)
(* responses of any size and any room in the socket.  In whatever pieces   *)
(* the bytes arrive and whatever is answered, responses match their        *)
(* requests and say when the connection closes (HttpExchange); however the *)
(* client reads, they go out whole and in order (ResponseWriter).          *)
(***************************************************************************)
EXTENDS MCHttpExchange, SequenceLemmas

\* What has arrived or is buffered, and no part of a request has been made of.
Stream == buf \o socket

-----------------------------------------------------------------------------
(* The stream as a sequence. *)

LEMMA Regroup ==
  ASSUME NEW x \in Seq(Unit), NEW y \in Seq(Unit), NEW z \in Seq(Unit)
  PROVE  (x \o y) \o z = x \o (y \o z)
BY ConcatAssociative

LEMMA TakeFirst ==
  ASSUME buf \in Seq(Unit), socket \in Seq(Unit), buf # << >>,
         buf' = Tail(buf), socket' = socket
  PROVE  /\ Stream \in Seq(Unit) /\ Stream # << >>
         /\ Head(buf) = Head(Stream) /\ Head(buf) = Stream[1] /\ Head(buf) \in Unit
         /\ Stream' = Tail(Stream)
<1>1. Stream \in Seq(Unit) /\ Len(Stream) = Len(buf) + Len(socket) /\ Len(buf) > 0
  BY ConcatProperties, EmptySeq, LenProperties DEF Stream
<1>2. Stream # << >> /\ Head(buf) = buf[1] /\ Head(Stream) = Stream[1]
  BY <1>1
<1>3. Tail(buf) \in Seq(Unit) /\ Len(Tail(buf)) = Len(buf) - 1
      /\ \A i \in 1 .. Len(Tail(buf)) : Tail(buf)[i] = buf[i + 1]
  BY HeadTailProperties
<1>4. \A i \in 1 .. Len(Stream) :
        Stream[i] = IF i <= Len(buf) THEN buf[i] ELSE socket[i - Len(buf)]
  BY <1>1, ConcatProperties DEF Stream
<1>5. /\ Stream' \in Seq(Unit) /\ Len(Stream') = Len(Stream) - 1
      /\ \A i \in 1 .. Len(Stream') : Stream'[i] =
           IF i <= Len(buf) - 1 THEN buf[i + 1] ELSE socket[i - (Len(buf) - 1)]
  <2>1. Stream' = Tail(buf) \o socket
    BY DEF Stream
  <2>2. Len(Stream') = Len(Tail(buf)) + Len(socket)
    BY <2>1, <1>3, ConcatProperties
  <2>3. \A i \in 1 .. Len(Tail(buf)) + Len(socket) : Stream'[i] =
          IF i <= Len(Tail(buf)) THEN Tail(buf)[i] ELSE socket[i - Len(Tail(buf))]
    BY <2>1, <1>3, ConcatProperties
  <2>4. Len(socket) \in Nat /\ Len(buf) \in Nat
    BY LenProperties
  <2> QED
    BY <1>1, <1>3, <2>1, <2>2, <2>3, <2>4, ConcatProperties
<1>6. /\ Tail(Stream) \in Seq(Unit) /\ Len(Tail(Stream)) = Len(Stream) - 1
      /\ \A i \in 1 .. Len(Tail(Stream)) : Tail(Stream)[i] = Stream[i + 1]
  BY <1>1, <1>2, HeadTailProperties
<1>7. ASSUME NEW i \in 1 .. Len(Stream') PROVE Stream'[i] = Tail(Stream)[i]
  <2>1. i \in 1 .. Len(Tail(Stream)) /\ i + 1 \in 1 .. Len(Stream)
        /\ Len(buf) \in Nat /\ i \in Nat
    BY <1>1, <1>5, <1>6, LenProperties
  <2>2. Tail(Stream)[i] =
          IF i + 1 <= Len(buf) THEN buf[i + 1] ELSE socket[(i + 1) - Len(buf)]
    BY <1>4, <1>6, <2>1
  <2> QED
    BY <1>5, <2>1, <2>2
<1>8. Stream' = Tail(Stream)
  BY <1>5, <1>6, <1>7, SeqEqual
<1> QED
  BY <1>1, <1>2, <1>4, <1>8, HeadTailProperties

LEMMA FillKeeps ==
  ASSUME buf = << >>, socket \in Seq(Unit), NEW n \in 1 .. Len(socket),
         buf' = SubSeq(socket, 1, n), socket' = SubSeq(socket, n + 1, Len(socket))
  PROVE  buf' \in Seq(Unit) /\ socket' \in Seq(Unit) /\ Stream' = Stream
<1>1. Len(socket) \in Nat /\ \A i \in 1 .. Len(socket) : socket[i] \in Unit
  BY LenProperties
<1>2. buf' \in Seq(Unit) /\ socket' \in Seq(Unit)
  BY <1>1, SubSeqProperties
<1>3. SubSeq(socket, 1, n) \o SubSeq(socket, n + 1, Len(socket))
        = SubSeq(socket, 1, Len(socket))
  BY <1>1, ConcatAdjacentSubSeq
<1>4. Stream = socket
  BY ConcatEmptySeq DEF Stream
<1> QED
  BY <1>2, <1>3, <1>4, SubSeqFull DEF Stream

LEMMA UnitsType ==
  ASSUME NEW k \in 1 .. MaxSent, NEW p \in {"line", "header", "end", "body"},
         NEW n \in Nat
  PROVE  /\ Units(k, p, n) \in Seq(Unit) /\ Len(Units(k, p, n)) = n
         /\ \A i \in 1 .. n : Units(k, p, n)[i] = [of |-> k, part |-> p]
<1>1. \A i \in 1 .. n : [of |-> k, part |-> p] \in Unit
  BY DEF Unit
<1>2. Units(k, p, n) \in [1 .. n -> Unit]
  BY <1>1 DEF Units
<1>3. Units(k, p, n) \in Seq(Unit)
  BY <1>2
<1> QED
  BY <1>2, <1>3 DEF Units

\* One unit behind a sequence.
LEMMA BehindOne ==
  ASSUME NEW s \in Seq(Unit), NEW u \in Seq(Unit), Len(u) = 1
  PROVE  /\ s \o u \in Seq(Unit) /\ Len(s \o u) = Len(s) + 1
         /\ \A i \in 1 .. Len(s) : (s \o u)[i] = s[i]
         /\ (s \o u)[Len(s) + 1] = u[1]
<1>1. /\ s \o u \in Seq(Unit) /\ Len(s \o u) = Len(s) + Len(u)
      /\ \A i \in 1 .. Len(s) + Len(u) :
           (s \o u)[i] = IF i <= Len(s) THEN s[i] ELSE u[i - Len(s)]
  BY ConcatProperties
<1>2. Len(s) \in Nat
  BY LenProperties
<1> QED
  BY <1>1, <1>2

LEMMA Head3Type ==
  ASSUME NEW k \in 1 .. MaxSent
  PROVE  /\ Head3(k) \in Seq(Unit) /\ Len(Head3(k)) = 3
         /\ Head3(k)[1] = [of |-> k, part |-> "line"]
         /\ Head3(k)[2] = [of |-> k, part |-> "header"]
         /\ Head3(k)[3] = [of |-> k, part |-> "end"]
<1> DEFINE a == Units(k, "line", 1)
           b == Units(k, "header", 1)
           c == Units(k, "end", 1)
<1>1. /\ a \in Seq(Unit) /\ Len(a) = 1 /\ a[1] = [of |-> k, part |-> "line"]
      /\ b \in Seq(Unit) /\ Len(b) = 1 /\ b[1] = [of |-> k, part |-> "header"]
      /\ c \in Seq(Unit) /\ Len(c) = 1 /\ c[1] = [of |-> k, part |-> "end"]
  <2>1. 1 \in Nat /\ 1 \in 1 .. 1
    OBVIOUS
  <2> QED
    BY <2>1, UnitsType
<1> HIDE DEF a, b, c
<1>2. /\ a \o b \in Seq(Unit) /\ Len(a \o b) = 2
      /\ (a \o b)[1] = a[1] /\ (a \o b)[2] = b[1]
  <2>1. 1 \in 1 .. 1 /\ 1 + 1 = 2
    OBVIOUS
  <2> QED
    BY <1>1, <2>1, BehindOne
<1>3. /\ (a \o b) \o c \in Seq(Unit) /\ Len((a \o b) \o c) = 3
      /\ ((a \o b) \o c)[1] = a[1] /\ ((a \o b) \o c)[2] = b[1]
      /\ ((a \o b) \o c)[3] = c[1]
  <2>1. 1 \in 1 .. 2 /\ 2 \in 1 .. 2 /\ 2 + 1 = 3
    OBVIOUS
  <2> HIDE DEF a, b, c
  <2> QED
    BY <1>1, <1>2, <2>1, BehindOne
<1> QED
  BY <1>1, <1>3 DEF Head3, a, b, c

-----------------------------------------------------------------------------
(***************************************************************************)
(* How the stream is cut.  Every unit is of a request that was sent, and   *)
(* behind the line of a request come its header and its empty line.  A     *)
(* SocketStream that is thrown away takes a beginning of the stream with   *)
(* it, so this is all that holds when requests leave bodies behind.        *)
(***************************************************************************)
WellCut(s, n) ==
  \A i \in 1 .. Len(s) :
    /\ s[i].of <= n
    /\ s[i].part = "line" =>
         i + 2 <= Len(s) /\ s[i + 1].part = "header" /\ s[i + 2].part = "end"

LEMMA CutTail ==
  ASSUME NEW s \in Seq(Unit), s # << >>, NEW n \in Nat, WellCut(s, n)
  PROVE  WellCut(Tail(s), n)
<1>1. /\ Len(s) \in Nat /\ Len(Tail(s)) = Len(s) - 1
      /\ \A i \in 1 .. Len(Tail(s)) : Tail(s)[i] = s[i + 1]
  BY HeadTailProperties, LenProperties
<1> SUFFICES ASSUME NEW i \in 1 .. Len(Tail(s))
             PROVE  /\ Tail(s)[i].of <= n
                    /\ Tail(s)[i].part = "line" =>
                         /\ i + 2 <= Len(Tail(s))
                         /\ Tail(s)[i + 1].part = "header"
                         /\ Tail(s)[i + 2].part = "end"
  BY DEF WellCut
<1>2. i + 1 \in 1 .. Len(s) /\ Tail(s)[i] = s[i + 1]
  BY <1>1
<1>3. CASE s[i + 1].part = "line"
  <2>1. /\ (i + 1) + 2 <= Len(s)
        /\ s[(i + 1) + 1].part = "header" /\ s[(i + 1) + 2].part = "end"
    BY <1>2, <1>3 DEF WellCut
  <2>2. i + 1 \in 1 .. Len(Tail(s)) /\ i + 2 \in 1 .. Len(Tail(s))
    BY <1>1, <2>1
  <2>3. Tail(s)[i + 1] = s[(i + 1) + 1] /\ Tail(s)[i + 2] = s[(i + 2) + 1]
    BY <1>1, <2>2
  <2>4. (i + 2) + 1 = (i + 1) + 2 /\ i + 2 <= Len(Tail(s))
    BY <2>2
  <2> QED
    BY <1>2, <2>1, <2>3, <2>4 DEF WellCut
<1> QED
  BY <1>2, <1>3 DEF WellCut

\* The rest of a stream whose beginning is thrown away.
LEMMA CutRest ==
  ASSUME NEW b \in Seq(Unit), NEW s \in Seq(Unit), NEW n \in Nat, WellCut(b \o s, n)
  PROVE  WellCut(s, n)
<1>1. /\ Len(b) \in Nat /\ Len(s) \in Nat /\ Len(b \o s) = Len(b) + Len(s)
      /\ \A i \in 1 .. Len(b) + Len(s) :
           (b \o s)[i] = IF i <= Len(b) THEN b[i] ELSE s[i - Len(b)]
  BY ConcatProperties, LenProperties
<1>2. ASSUME NEW i \in 1 .. Len(s)
      PROVE  i + Len(b) \in 1 .. Len(b \o s) /\ (b \o s)[i + Len(b)] = s[i]
  <2>1. i + Len(b) \in 1 .. Len(b) + Len(s) /\ ~ (i + Len(b) <= Len(b))
        /\ (i + Len(b)) - Len(b) = i
    BY <1>1
  <2> QED
    BY <1>1, <2>1
<1> SUFFICES ASSUME NEW i \in 1 .. Len(s)
             PROVE  /\ s[i].of <= n
                    /\ s[i].part = "line" =>
                         i + 2 <= Len(s) /\ s[i + 1].part = "header" /\ s[i + 2].part = "end"
  BY DEF WellCut
<1>3. s[i].of <= n
  BY <1>2 DEF WellCut
<1>4. CASE s[i].part = "line"
  <2>1. /\ (i + Len(b)) + 2 <= Len(b \o s)
        /\ (b \o s)[(i + Len(b)) + 1].part = "header"
        /\ (b \o s)[(i + Len(b)) + 2].part = "end"
    BY <1>2, <1>4 DEF WellCut
  <2>2. i + 1 \in 1 .. Len(s) /\ i + 2 \in 1 .. Len(s) /\ i + 2 <= Len(s)
    <3>1. i \in Nat /\ i >= 1 /\ (i + Len(b)) + 2 <= Len(b) + Len(s)
      BY <1>1, <2>1
    <3> QED
      BY <1>1, <3>1
  <2>3. (i + 1) + Len(b) = (i + Len(b)) + 1 /\ (i + 2) + Len(b) = (i + Len(b)) + 2
    BY <1>1
  <2>4. (b \o s)[(i + 1) + Len(b)] = s[i + 1] /\ (b \o s)[(i + 2) + Len(b)] = s[i + 2]
    <3>1. \A j \in 1 .. Len(s) : (b \o s)[j + Len(b)] = s[j]
      BY <1>2
    <3> QED
      BY <2>2, <3>1, Zenon
  <2> QED
    BY <1>3, <2>1, <2>2, <2>3, <2>4
<1> QED
  BY <1>3, <1>4

LEMMA CutConcat ==
  ASSUME NEW b \in Seq(Unit), NEW s \in Seq(Unit), NEW n \in Nat,
         WellCut(b, n), WellCut(s, n)
  PROVE  WellCut(b \o s, n)
<1>1. /\ Len(b) \in Nat /\ Len(s) \in Nat /\ Len(b \o s) = Len(b) + Len(s)
      /\ \A i \in 1 .. Len(b) + Len(s) :
           (b \o s)[i] = IF i <= Len(b) THEN b[i] ELSE s[i - Len(b)]
  BY ConcatProperties, LenProperties
<1> SUFFICES ASSUME NEW i \in 1 .. Len(b \o s)
             PROVE  /\ (b \o s)[i].of <= n
                    /\ (b \o s)[i].part = "line" =>
                         /\ i + 2 <= Len(b \o s)
                         /\ (b \o s)[i + 1].part = "header"
                         /\ (b \o s)[i + 2].part = "end"
  BY DEF WellCut
<1>2. CASE i <= Len(b)
  <2>1. i \in 1 .. Len(b) /\ (b \o s)[i] = b[i]
    BY <1>1, <1>2
  <2>2. ASSUME b[i].part = "line"
        PROVE  /\ i + 2 <= Len(b \o s)
               /\ (b \o s)[i + 1].part = "header" /\ (b \o s)[i + 2].part = "end"
    <3>1. i + 2 <= Len(b) /\ b[i + 1].part = "header" /\ b[i + 2].part = "end"
      BY <2>1, <2>2 DEF WellCut
    <3>2. (b \o s)[i + 1] = b[i + 1] /\ (b \o s)[i + 2] = b[i + 2]
      BY <1>1, <2>1, <3>1
    <3> QED
      BY <1>1, <2>1, <3>1, <3>2
  <2> QED
    BY <2>1, <2>2 DEF WellCut
<1>3. CASE i > Len(b)
  <2> DEFINE j == i - Len(b)
  <2>1. j \in 1 .. Len(s) /\ (b \o s)[i] = s[j]
    BY <1>1, <1>3
  <2>2. ASSUME s[j].part = "line"
        PROVE  /\ i + 2 <= Len(b \o s)
               /\ (b \o s)[i + 1].part = "header" /\ (b \o s)[i + 2].part = "end"
    <3>1. j + 2 <= Len(s) /\ s[j + 1].part = "header" /\ s[j + 2].part = "end"
      BY <2>1, <2>2 DEF WellCut
    <3>2. Len(b) \in Nat /\ Len(s) \in Nat /\ i \in Nat
      BY <1>1
    <3>3. i + 1 \in 1 .. Len(b) + Len(s) /\ i + 2 \in 1 .. Len(b) + Len(s)
          /\ (i + 1) - Len(b) = j + 1 /\ (i + 2) - Len(b) = j + 2
          /\ ~ (i + 1 <= Len(b)) /\ ~ (i + 2 <= Len(b))
      BY <1>3, <2>1, <3>1, <3>2
    <3> HIDE DEF j
    <3>4. (b \o s)[i + 1] = s[j + 1] /\ (b \o s)[i + 2] = s[j + 2]
      BY <1>1, <3>3
    <3> USE DEF j
    <3> QED
      BY <1>1, <3>1, <3>3, <3>4
  <2> QED
    BY <2>1, <2>2 DEF WellCut
<1> QED
  BY <1>1, <1>2, <1>3

LEMMA CutMore ==
  ASSUME NEW s \in Seq(Unit), NEW n \in Nat, WellCut(s, n)
  PROVE  WellCut(s, n + 1)
<1> SUFFICES ASSUME NEW i \in 1 .. Len(s) PROVE s[i].of <= n + 1
  BY DEF WellCut
<1>1. s[i] \in Unit
  BY ElementOfSeq
<1>2. s[i].of \in Nat
  BY <1>1, ExchangeAssumption DEF Unit
<1>3. s[i].of <= n
  BY DEF WellCut
<1> QED
  BY <1>2, <1>3

LEMMA CutUnits ==
  ASSUME NEW k \in 1 .. MaxSent, NEW n \in Nat
  PROVE  WellCut(Units(k, "body", n), k)
<1>1. /\ Len(Units(k, "body", n)) = n
      /\ \A i \in 1 .. n : Units(k, "body", n)[i] = [of |-> k, part |-> "body"]
  BY UnitsType
<1>2. k <= k /\ "body" # "line"
  BY ExchangeAssumption
<1> DEFINE u == Units(k, "body", n)
<1>3. Len(u) = n /\ \A i \in 1 .. n : u[i].of = k /\ u[i].part = "body"
  BY <1>1
<1> HIDE DEF u
<1>4. WellCut(u, k)
  BY <1>2, <1>3 DEF WellCut
<1> QED
  BY <1>4 DEF u

LEMMA CutHead3 ==
  ASSUME NEW k \in 1 .. MaxSent
  PROVE  WellCut(Head3(k), k)
<1> DEFINE h == Head3(k)
<1>1. /\ Len(h) = 3
      /\ h[1].of = k /\ h[1].part = "line"
      /\ h[2].of = k /\ h[2].part = "header"
      /\ h[3].of = k /\ h[3].part = "end"
  <2>1. /\ Len(h) = 3
        /\ h[1] = [of |-> k, part |-> "line"]
        /\ h[2] = [of |-> k, part |-> "header"]
        /\ h[3] = [of |-> k, part |-> "end"]
    BY Head3Type
  <2> HIDE DEF h
  <2> QED
    BY <2>1
<1>2. k <= k
  BY ExchangeAssumption
<1>3. \A i \in 1 .. 3 : i = 1 \/ i = 2 \/ i = 3
  OBVIOUS
<1>4. "header" # "line" /\ "end" # "line"
  OBVIOUS
<1> HIDE DEF h
<1>5. \A i \in 1 .. 3 :
        /\ h[i].of <= k
        /\ h[i].part = "line" =>
             i + 2 <= 3 /\ h[i + 1].part = "header" /\ h[i + 2].part = "end"
  BY <1>1, <1>2, <1>3, <1>4
<1>6. WellCut(h, k)
  BY <1>1, <1>5 DEF WellCut
<1> QED
  BY <1>6 DEF h

-----------------------------------------------------------------------------
(***************************************************************************)
(* The types, and what goes with them: requests are counted down and none  *)
(* is read at zero; the client is one request ahead at most; the stream is *)
(* well cut; and who has read the line of a request finds its headers.     *)
(***************************************************************************)
Codes == {200, 206, 400, 404, 414, 415, 416}

Response == [of : 0 .. MaxSent, status : Codes, close : BOOLEAN]

CountInv ==
  /\ Len(responses) + left = MaxCount
  /\ stage \notin {"await", "closed"} => left > 0
  /\ Len(sent) <= Len(responses) + 1

HeadersFollow ==
  stage = "head" =>
    \/ Len(Stream) >= 1 /\ Stream[1].part = "end"
    \/ Len(Stream) >= 2 /\ Stream[1].part = "header" /\ Stream[2].part = "end"

ShapeInv ==
  /\ TypeOK
  /\ responses \in Seq(Response)
  /\ \A k \in 1 .. Len(responses) : responses[k].of <= Len(sent)
  /\ CountInv
  /\ WellCut(Stream, Len(sent))
  /\ HeadersFollow
  /\ stage \in {"head", "dummy", "check", "body"} => cur # 0

LEMMA ShapeTypes ==
  ASSUME ShapeInv
  PROVE  /\ sent \in Seq(Requests) /\ Len(sent) \in 0 .. MaxSent
         /\ socket \in Seq(Unit) /\ buf \in Seq(Unit) /\ Stream \in Seq(Unit)
         /\ responses \in Seq(Response) /\ Len(responses) \in Nat
         /\ cur # 0 => R \in Request
         /\ held \in Nat /\ need \in Nat /\ left \in Nat
<1>1. Stream \in Seq(Unit)
  BY ConcatProperties DEF ShapeInv, TypeOK, Stream
<1>2. sent \in Seq(Requests) /\ Len(sent) \in 0 .. MaxSent
  BY LenProperties, ExchangeAssumption DEF ShapeInv, TypeOK
<1>3. cur # 0 => R \in Request
  <2>1. cur # 0 => cur \in 1 .. Len(sent)
    BY <1>2 DEF ShapeInv, TypeOK
  <2> QED
    BY <1>2, <2>1, ElementOfSeq, ExchangeAssumption DEF R
<1> QED
  BY <1>1, <1>2, <1>3, LenProperties DEF ShapeInv, TypeOK

\* What the steps that take a unit have in common.
LEMMA TakeShape ==
  ASSUME ShapeInv, buf # << >>, buf' = Tail(buf),
         UNCHANGED <<client, socket, left, responses>>
  PROVE  /\ Stream # << >> /\ Len(Stream) >= 1 /\ Stream' = Tail(Stream)
         /\ Head(buf) = Stream[1] /\ Head(buf) \in Unit /\ Head(buf).of \in 1 .. Len(sent)
         /\ socket' \in Seq(Unit) /\ buf' \in Seq(Unit)
         /\ WellCut(Stream', Len(sent'))
         /\ Len(Stream') = Len(Stream) - 1
         /\ \A i \in 1 .. Len(Stream') : Stream'[i] = Stream[i + 1]
<1>1. socket \in Seq(Unit) /\ buf \in Seq(Unit) /\ Stream \in Seq(Unit)
  BY ShapeTypes
<1>2. /\ Stream # << >> /\ Head(buf) = Stream[1] /\ Head(buf) \in Unit
      /\ Stream' = Tail(Stream)
  BY <1>1, TakeFirst
<1>3. /\ Len(Stream) >= 1 /\ Len(Tail(Stream)) = Len(Stream) - 1
      /\ \A i \in 1 .. Len(Tail(Stream)) : Tail(Stream)[i] = Stream[i + 1]
  BY <1>1, <1>2, EmptySeq, HeadTailProperties
<1>4. WellCut(Stream, Len(sent)) /\ Len(sent) \in Nat /\ sent' = sent
  BY ShapeTypes DEF ShapeInv, client
<1>5. WellCut(Stream', Len(sent'))
  BY <1>1, <1>2, <1>4, CutTail
<1>6. Head(buf).of \in 1 .. Len(sent)
  <2>1. 1 \in 1 .. Len(Stream)
    BY <1>1, <1>3, LenProperties
  <2>2. Stream[1].of <= Len(sent)
    BY <1>4, <2>1 DEF WellCut
  <2>3. Head(buf).of \in 1 .. MaxSent
    BY <1>2 DEF Unit
  <2> QED
    BY <1>2, <1>4, <2>2, <2>3
<1>7. buf' \in Seq(Unit) /\ socket' \in Seq(Unit)
  BY <1>1, HeadTailProperties
<1> QED
  BY <1>2, <1>3, <1>5, <1>6, <1>7

LEMMA ShapeReadLine ==
  ASSUME ShapeInv, ReadLine
  PROVE  ShapeInv'
<1> DEFINE u == Head(buf)
<1>1. /\ stage = "line" /\ buf # << >> /\ buf' = Tail(buf)
      /\ UNCHANGED <<client, socket, need, closing, left, responses>>
      /\ \/ u.part = "line" /\ cur' = u.of /\ stage' = "head" /\ status' = status
         \/ cur' = 0 /\ stage' = "respond" /\ status' = 400
  BY DEF ReadLine, Answer
<1>2. /\ Stream # << >> /\ Len(Stream) >= 1
      /\ u = Stream[1] /\ u \in Unit /\ u.of \in 1 .. Len(sent)
      /\ socket' \in Seq(Unit) /\ buf' \in Seq(Unit)
      /\ WellCut(Stream', Len(sent'))
      /\ Len(Stream') = Len(Stream) - 1
      /\ \A i \in 1 .. Len(Stream') : Stream'[i] = Stream[i + 1]
  BY <1>1, TakeShape
<1>3. Len(Stream) \in Nat /\ Len(sent) \in Nat
  BY ShapeTypes, LenProperties
<1>4. HeadersFollow'
  <2> SUFFICES ASSUME stage' = "head" PROVE HeadersFollow'
    BY DEF HeadersFollow
  <2>1. u.part = "line"
    BY <1>1
  <2>2. 1 \in 1 .. Len(Stream)
    BY <1>2, <1>3
  <2>3. 1 + 2 <= Len(Stream) /\ Stream[1 + 1].part = "header" /\ Stream[1 + 2].part = "end"
    BY <1>2, <2>1, <2>2 DEF ShapeInv, WellCut
  <2>4. 1 \in 1 .. Len(Stream') /\ 2 \in 1 .. Len(Stream') /\ Len(Stream') >= 2
    BY <1>2, <1>3, <2>3
  <2>5. Stream'[1] = Stream[1 + 1] /\ Stream'[2] = Stream[2 + 1]
    BY <1>2, <2>4
  <2> QED
    BY <2>3, <2>4, <2>5 DEF HeadersFollow
<1>5. CountInv'
  BY <1>1 DEF CountInv, ShapeInv, client
<1>6. TypeOK'
  <2>1. /\ cur' \in 0 .. Len(sent') /\ stage' \in Stages
        /\ status' \in {200, 206, 400, 404, 414, 415, 416}
    <3>1. status \in {200, 206, 400, 404, 414, 415, 416} /\ sent' = sent
      BY <1>1 DEF ShapeInv, TypeOK, client
    <3>2. u.of \in 1 .. Len(sent)
      BY <1>2
    <3> HIDE DEF u
    <3> QED
      BY <1>1, <1>3, <3>1, <3>2 DEF Stages
  <2>2. /\ sent' \in Seq(Requests) /\ Len(sent') <= MaxSent /\ held' \in Nat
        /\ need' \in Nat /\ closing' \in BOOLEAN /\ left' \in 0 .. MaxCount
    BY <1>1 DEF ShapeInv, TypeOK, client
  <2>3. /\ Len(responses') <= MaxCount
        /\ \A k \in DOMAIN responses' :
             responses'[k].status \in {200, 206, 400, 404, 414, 415, 416}
    BY <1>1 DEF ShapeInv, TypeOK
  <2> QED
    BY <1>2, <2>1, <2>2, <2>3 DEF TypeOK
<1> QED
  BY <1>1, <1>2, <1>3, <1>4, <1>5, <1>6 DEF ShapeInv, client

LEMMA ShapeReadHead ==
  ASSUME ShapeInv, ReadHead
  PROVE  ShapeInv'
<1>1. /\ stage = "head" /\ buf # << >> /\ buf' = Tail(buf)
      /\ UNCHANGED <<client, socket, cur, need, closing, left, responses>>
      /\ \/ Head(buf).part = "header" /\ stage' = stage /\ status' = status
         \/ /\ Head(buf).part # "header"
            /\ stage' \in {"dummy", "check"} /\ status' = status
         \/ stage' = "respond" /\ status' = 400
  BY DEF ReadHead, Answer
<1>2. /\ Stream # << >> /\ Len(Stream) >= 1 /\ Head(buf) = Stream[1]
      /\ socket' \in Seq(Unit) /\ buf' \in Seq(Unit)
      /\ WellCut(Stream', Len(sent'))
      /\ Len(Stream') = Len(Stream) - 1
      /\ \A i \in 1 .. Len(Stream') : Stream'[i] = Stream[i + 1]
  BY <1>1, TakeShape
<1>3. Len(Stream) \in Nat /\ Len(sent) \in Nat
  BY ShapeTypes, LenProperties
<1>4. HeadersFollow'
  <2> SUFFICES ASSUME stage' = "head" PROVE HeadersFollow'
    BY DEF HeadersFollow
  <2>1. Stream[1].part = "header"
    BY <1>1, <1>2
  <2>2. Len(Stream) >= 2 /\ Stream[2].part = "end"
    BY <1>1, <2>1 DEF ShapeInv, HeadersFollow
  <2>3. 1 \in 1 .. Len(Stream')
    BY <1>2, <1>3, <2>2
  <2>4. Stream'[1] = Stream[1 + 1] /\ Len(Stream') >= 1
    BY <1>2, <2>3
  <2> QED
    BY <2>2, <2>4 DEF HeadersFollow
<1>5. CountInv'
  BY <1>1 DEF CountInv, ShapeInv, client
<1>6. TypeOK' /\ cur' # 0
  <2>1. cur' \in 0 .. Len(sent') /\ cur' # 0
    BY <1>1 DEF ShapeInv, TypeOK, client
  <2>2. stage' \in Stages /\ status' \in {200, 206, 400, 404, 414, 415, 416}
    <3>1. stage' = stage \/ stage' = "dummy" \/ stage' = "check" \/ stage' = "respond"
      BY <1>1
    <3>2. status' = status \/ status' = 400
      BY <1>1
    <3> QED
      BY <3>1, <3>2 DEF ShapeInv, TypeOK, Stages
  <2>3. /\ sent' \in Seq(Requests) /\ Len(sent') <= MaxSent /\ held' \in Nat
        /\ need' \in Nat /\ closing' \in BOOLEAN /\ left' \in 0 .. MaxCount
    BY <1>1 DEF ShapeInv, TypeOK, client
  <2>4. /\ Len(responses') <= MaxCount
        /\ \A k \in DOMAIN responses' :
             responses'[k].status \in {200, 206, 400, 404, 414, 415, 416}
    BY <1>1 DEF ShapeInv, TypeOK
  <2> QED
    BY <1>2, <2>1, <2>2, <2>3, <2>4 DEF TypeOK
<1> QED
  BY <1>1, <1>2, <1>3, <1>4, <1>5, <1>6 DEF ShapeInv, client

\* ReadDummy, ReadBody and ReadOn take a unit and do not come to the headers.
LEMMA ShapeReadPart ==
  ASSUME ShapeInv, ReadDummy \/ ReadBody \/ ReadOn
  PROVE  ShapeInv'
<1>1. /\ stage \in {"dummy", "body"} /\ buf # << >> /\ buf' = Tail(buf)
      /\ UNCHANGED <<client, socket, cur, closing, left, responses>>
      /\ need' = need \/ (need > 0 /\ need' = need - 1)
      /\ \/ stage' = stage /\ status' = status
         \/ stage' = "respond" /\ status' \in {400, 414}
  BY DEF ReadDummy, ReadBody, ReadOn, Answer
<1>2. /\ socket' \in Seq(Unit) /\ buf' \in Seq(Unit)
      /\ WellCut(Stream', Len(sent'))
  BY <1>1, TakeShape
<1>3. HeadersFollow'
  BY <1>1 DEF HeadersFollow
<1>4. CountInv'
  BY <1>1 DEF CountInv, ShapeInv, client
<1>5. TypeOK'
  <2>1. stage' \in Stages /\ status' \in {200, 206, 400, 404, 414, 415, 416}
    <3>1. stage' = stage \/ stage' = "respond"
      BY <1>1
    <3>2. status' = status \/ status' = 400 \/ status' = 414
      BY <1>1
    <3> QED
      BY <3>1, <3>2 DEF ShapeInv, TypeOK, Stages
  <2>2. /\ sent' \in Seq(Requests) /\ Len(sent') <= MaxSent /\ held' \in Nat
        /\ need' \in Nat /\ closing' \in BOOLEAN /\ left' \in 0 .. MaxCount
        /\ cur' \in 0 .. Len(sent')
    BY <1>1 DEF ShapeInv, TypeOK, client
  <2>3. /\ Len(responses') <= MaxCount
        /\ \A k \in DOMAIN responses' :
             responses'[k].status \in {200, 206, 400, 404, 414, 415, 416}
    BY <1>1 DEF ShapeInv, TypeOK
  <2> QED
    BY <1>2, <2>1, <2>2, <2>3 DEF TypeOK
<1> QED
  BY <1>1, <1>2, <1>3, <1>4, <1>5 DEF ShapeInv, client

\* Steps that leave the stream alone and do not come to the headers.
LEMMA ShapeStill ==
  ASSUME ShapeInv, UNCHANGED <<sent, Stream, cur, left, responses>>,
         buf' \in Seq(Unit), socket' \in Seq(Unit), TypeOK',
         stage' \notin {"head", "await", "closed"} => stage \notin {"await", "closed"},
         stage' = "head" => stage = "head",
         stage' \in {"dummy", "check", "body"} => cur # 0
  PROVE  ShapeInv'
<1>1. HeadersFollow'
  BY DEF HeadersFollow, ShapeInv
<1>2. CountInv'
  BY DEF CountInv, ShapeInv
<1> QED
  BY <1>1, <1>2 DEF ShapeInv

LEMMA ShapeNextRequest ==
  ASSUME ShapeInv, NextRequest
  PROVE  ShapeInv'
<1>1. /\ stage = "await" /\ left > 0 /\ stage' = "line" /\ buf' = << >>
      /\ cur' = 0 /\ closing' = FALSE
      /\ UNCHANGED <<client, socket, need, status, left, responses>>
  BY DEF NextRequest
<1>2. Stream' = socket /\ socket \in Seq(Unit)
  BY <1>1, ShapeTypes, ConcatEmptySeq DEF Stream
<1>3. WellCut(Stream', Len(sent'))
  <2>1. buf \in Seq(Unit) /\ socket \in Seq(Unit) /\ Len(sent) \in Nat
        /\ WellCut(buf \o socket, Len(sent))
    BY ShapeTypes DEF ShapeInv, Stream
  <2>2. WellCut(socket, Len(sent))
    BY <2>1, CutRest
  <2> QED
    BY <1>1, <1>2, <2>2 DEF client
<1>4. CountInv' /\ HeadersFollow'
  BY <1>1 DEF CountInv, HeadersFollow, ShapeInv, client
<1>5. TypeOK'
  <2>1. buf' \in Seq(Unit) /\ cur' \in 0 .. Len(sent') /\ stage' \in Stages
    BY <1>1, ShapeTypes DEF Stages, client
  <2>2. /\ closing' \in BOOLEAN
        /\ UNCHANGED <<sent, held, socket, need, status, left, responses>>
    BY <1>1 DEF client
  <2> QED
    BY <2>1, <2>2 DEF ShapeInv, TypeOK
<1> QED
  BY <1>1, <1>3, <1>4, <1>5 DEF ShapeInv, client

LEMMA ShapeLeave ==
  ASSUME ShapeInv, Leave
  PROVE  ShapeInv'
<1>1. /\ stage = "await" /\ stage' = "closed"
      /\ UNCHANGED <<client, socket, buf, cur, need, status, closing, left, responses>>
  BY DEF Leave
<1>2. TypeOK'
  BY <1>1 DEF ShapeInv, TypeOK, Stages, client
<1> QED
  BY <1>1, <1>2, ShapeTypes, ShapeStill DEF Stream, client

LEMMA ShapeFill ==
  ASSUME ShapeInv, Fill
  PROVE  ShapeInv' /\ Stream' = Stream
<1>1. PICK n \in 1 .. Len(socket) :
        buf' = SubSeq(socket, 1, n) /\ socket' = SubSeq(socket, n + 1, Len(socket))
  BY DEF Fill
<1>2. buf = << >> /\ UNCHANGED <<client, stage, cur, need, status, closing, left, responses>>
  BY DEF Fill
<1>3. buf' \in Seq(Unit) /\ socket' \in Seq(Unit) /\ Stream' = Stream
  BY <1>1, <1>2, ShapeTypes, FillKeeps
<1>4. TypeOK'
  BY <1>2, <1>3 DEF ShapeInv, TypeOK, client
<1>5. ShapeInv'
  BY <1>2, <1>3, <1>4, ShapeStill DEF client, ShapeInv
<1> QED
  BY <1>3, <1>5

LEMMA ShapeAnswer ==
  ASSUME ShapeInv, BodyRead \/ TimeOut
  PROVE  ShapeInv'
<1>1. /\ stage \in {"head", "dummy", "body"} /\ stage' = "respond" /\ status' \in Codes
      /\ UNCHANGED <<client, socket, buf, cur, need, closing, left, responses>>
  BY DEF BodyRead, TimeOut, Answer, Dispatch, Codes
<1>2. TypeOK'
  BY <1>1 DEF ShapeInv, TypeOK, Stages, Codes, client
<1> QED
  BY <1>1, <1>2, ShapeTypes, ShapeStill DEF Stream, client

LEMMA ClosesType ==
  ASSUME NEW r \in Request
  PROVE  Closes(r) \in BOOLEAN /\ Dispatch(r) \in Codes
BY DEF Closes, Dispatch, Codes

LEMMA ShapeCheck ==
  ASSUME ShapeInv, Check
  PROVE  ShapeInv'
<1>1. /\ stage = "check" /\ cur # 0 /\ R \in Request
      /\ UNCHANGED <<sent, buf, cur, left, responses>>
  BY ShapeTypes DEF Check, ShapeInv
<1>2. /\ closing' \in BOOLEAN
      /\ stage' \in {"respond", "body"} /\ status' \in Codes /\ need' \in Nat
      /\ held' \in Nat
      /\ socket' = socket \/ socket' = socket \o Units(cur, "body", held)
  <2>1. closing' = Closes(R)
    BY DEF Check
  <2>2. R.body \in Nat
    BY <1>1 DEF Request
  <2>3. Dispatch(R) \in Codes /\ closing' \in BOOLEAN
    BY <1>1, <2>1, ClosesType
  <2>4. held \in Nat /\ need \in Nat /\ status \in Codes
    BY ShapeTypes DEF ShapeInv, TypeOK, Codes
  <2>5. 400 \in Codes /\ 415 \in Codes /\ 416 \in Codes
    BY DEF Codes
  <2> HIDE DEF Codes
  <2>6. stage' \in {"respond", "body"} /\ status' \in Codes /\ need' \in Nat
    BY <2>2, <2>3, <2>4, <2>5 DEF Check, Answer
  <2>7. held' \in Nat /\ (socket' = socket \/ socket' = socket \o Units(cur, "body", held))
    BY <2>4 DEF Check
  <2> QED
    BY <2>3, <2>6, <2>7
<1>3. cur \in 1 .. Len(sent) /\ cur \in 1 .. MaxSent /\ held \in Nat
  BY <1>1, ShapeTypes, ExchangeAssumption DEF ShapeInv, TypeOK
<1>4. /\ socket' \in Seq(Unit) /\ buf' \in Seq(Unit)
      /\ WellCut(Stream', Len(sent'))
  <2>1. socket \in Seq(Unit) /\ buf \in Seq(Unit) /\ Stream \in Seq(Unit)
        /\ Len(sent) \in Nat /\ WellCut(Stream, Len(sent))
    BY ShapeTypes DEF ShapeInv
  <2>2. CASE socket' = socket
    BY <1>1, <2>1, <2>2 DEF Stream
  <2>3. CASE socket' = socket \o Units(cur, "body", held)
    <3> DEFINE b == Units(cur, "body", held)
    <3>1. b \in Seq(Unit) /\ Len(b) = held
          /\ \A i \in 1 .. held : b[i] = [of |-> cur, part |-> "body"]
      BY <1>3, UnitsType
    <3>2. WellCut(b, Len(sent))
      <4>1. cur <= Len(sent) /\ "body" # "line"
        BY <1>3
      <4>2. \A i \in 1 .. held : b[i].of = cur /\ b[i].part = "body"
        BY <3>1
      <4> HIDE DEF b
      <4> QED
        BY <3>1, <4>1, <4>2 DEF WellCut
    <3> HIDE DEF b
    <3>3. Stream' = Stream \o b
      <4>1. buf' = buf /\ socket' = socket \o b
        BY <1>1, <2>3 DEF b
      <4>2. b \in Seq(Unit) /\ socket \in Seq(Unit) /\ buf \in Seq(Unit)
        BY <2>1, <3>1
      <4>3. (buf \o socket) \o b = buf \o (socket \o b)
        BY <4>2, Regroup, Zenon
      <4> QED
        BY <4>1, <4>3, Zenon DEF Stream
    <3>4. WellCut(Stream \o b, Len(sent))
      BY <2>1, <3>1, <3>2, CutConcat
    <3>5. socket' \in Seq(Unit)
      BY <2>1, <2>3, <3>1, ConcatProperties DEF b
    <3> QED
      BY <1>1, <2>1, <3>3, <3>4, <3>5
  <2> QED
    BY <1>2, <2>2, <2>3
<1>5. CountInv' /\ HeadersFollow'
  BY <1>1, <1>2 DEF CountInv, HeadersFollow, ShapeInv
<1>6. TypeOK'
  BY <1>1, <1>2, <1>4 DEF ShapeInv, TypeOK, Stages, Codes
<1> QED
  BY <1>1, <1>2, <1>4, <1>5, <1>6 DEF ShapeInv

LEMMA ShapeRespond ==
  ASSUME ShapeInv, Respond
  PROVE  ShapeInv'
<1> DEFINE r == [of |-> cur, status |-> status, close |-> AnnouncesClose]
<1>1. /\ stage = "respond" /\ responses' = Append(responses, r)
      /\ left' = left - 1 /\ stage' \in {"closed", "await"}
      /\ UNCHANGED <<client, socket, buf, cur, need, status, closing>>
  BY DEF Respond
<1>2. r \in Response /\ r.of <= Len(sent)
  <2>1. AnnouncesClose \in BOOLEAN
    BY DEF AnnouncesClose
  <2>2. cur \in 0 .. MaxSent /\ cur <= Len(sent) /\ status \in Codes
    BY ShapeTypes, ExchangeAssumption DEF ShapeInv, TypeOK, Codes
  <2> QED
    BY <2>1, <2>2 DEF Response
<1> HIDE DEF r
<1>3. /\ responses \in Seq(Response) /\ Len(responses) \in Nat /\ left \in Nat /\ left > 0
      /\ Len(responses) + left = MaxCount /\ MaxCount \in Nat
  BY <1>1, ShapeTypes, ExchangeAssumption DEF ShapeInv, CountInv
<1>4. /\ responses' \in Seq(Response) /\ Len(responses') = Len(responses) + 1
      /\ \A k \in 1 .. Len(responses) : responses'[k] = responses[k]
      /\ responses'[Len(responses) + 1] = r
  BY <1>1, <1>2, <1>3, AppendProperties
<1>5. \A k \in 1 .. Len(responses') : responses'[k].of <= Len(sent)
  <2> SUFFICES ASSUME NEW k \in 1 .. Len(responses') PROVE responses'[k].of <= Len(sent)
    OBVIOUS
  <2>1. k \in 1 .. Len(responses) \/ k = Len(responses) + 1
    BY <1>3, <1>4
  <2> QED
    BY <1>2, <1>4, <2>1 DEF ShapeInv
<1>6. CountInv'
  <2>1. Len(sent) \in Nat /\ Len(sent) <= Len(responses) + 1 /\ sent' = sent
    BY <1>1, ShapeTypes DEF ShapeInv, CountInv, client
  <2> QED
    BY <1>1, <1>3, <1>4, <2>1 DEF CountInv
<1>7. TypeOK'
  <2>1. DOMAIN responses' = 1 .. Len(responses')
    BY <1>4, LenProperties
  <2>2. \A k \in DOMAIN responses' : responses'[k].status \in Codes
    <3> TAKE k \in DOMAIN responses'
    <3>1. responses'[k] \in Response
      BY <1>4, <2>1, ElementOfSeq
    <3> QED
      BY <3>1 DEF Response
  <2>3. left' \in 0 .. MaxCount /\ Len(responses') <= MaxCount
    BY <1>1, <1>3, <1>4
  <2> QED
    BY <1>1, <2>2, <2>3 DEF ShapeInv, TypeOK, Stages, Codes, client
<1>8. HeadersFollow' /\ Stream' = Stream
  BY <1>1 DEF HeadersFollow, Stream
<1> QED
  BY <1>1, <1>4, <1>5, <1>6, <1>7, <1>8 DEF ShapeInv, client

LEMMA ShapeSend ==
  ASSUME ShapeInv, NEW r \in Requests, Send(r)
  PROVE  ShapeInv'
<1> DEFINE n == Len(sent) + 1
           h == Head3(n)
           b == IF r.expect THEN << >> ELSE Units(n, "body", r.body)
<1>1. /\ Len(sent) < MaxSent /\ Len(responses) >= Len(sent)
      /\ sent' = Append(sent, r) /\ socket' = (socket \o h) \o b
      /\ held' = IF r.expect THEN r.body ELSE 0
      /\ UNCHANGED <<buf, stage, cur, need, status, closing, left, responses>>
  BY DEF Send
<1>2. /\ sent \in Seq(Requests) /\ Len(sent) \in Nat /\ MaxSent \in Nat
      /\ socket \in Seq(Unit) /\ buf \in Seq(Unit) /\ Stream \in Seq(Unit)
      /\ r.body \in Nat
  <2>1. MaxSent \in Nat /\ r \in Request
    BY ExchangeAssumption
  <2>2. r.body \in Nat
    BY <2>1 DEF Request
  <2> QED
    BY <2>1, <2>2, ShapeTypes
<1>3. n \in 1 .. MaxSent /\ Len(sent') = n /\ sent' \in Seq(Requests)
  BY <1>1, <1>2, AppendProperties
<1>4. h \in Seq(Unit) /\ WellCut(h, n)
  BY <1>3, Head3Type, CutHead3
<1>5. b \in Seq(Unit) /\ WellCut(b, n)
  <2>1. CASE r.expect
    <3>1. b = << >> /\ b \in Seq(Unit) /\ Len(b) = 0
      BY <2>1, EmptySeq
    <3> HIDE DEF b, n
    <3> QED
      BY <3>1 DEF WellCut
  <2>2. CASE ~ r.expect
    BY <1>2, <1>3, <2>2, UnitsType, CutUnits
  <2> QED
    BY <2>1, <2>2
<1>6. WellCut(Stream, n)
  BY <1>2, CutMore DEF ShapeInv
<1> HIDE DEF h, b, n
<1>7. socket' \in Seq(Unit) /\ Stream' = (Stream \o h) \o b
  <2>1. socket \o h \in Seq(Unit) /\ Stream \o h \in Seq(Unit)
    BY <1>2, <1>4, ConcatProperties
  <2>2. socket' \in Seq(Unit)
    BY <1>1, <1>5, <2>1, ConcatProperties
  <2>3. buf \o (socket \o h) = Stream \o h
    <3>1. buf \in Seq(Unit) /\ socket \in Seq(Unit) /\ h \in Seq(Unit)
      BY <1>2, <1>4
    <3>2. (buf \o socket) \o h = buf \o (socket \o h)
      BY <3>1, Regroup, Zenon
    <3> QED
      BY <3>2, Zenon DEF Stream
  <2>4. buf \o ((socket \o h) \o b) = (buf \o (socket \o h)) \o b
    <3> DEFINE g == socket \o h
    <3>1. g \in Seq(Unit)
      BY <2>1
    <3> HIDE DEF g
    <3>2. buf \in Seq(Unit) /\ b \in Seq(Unit)
      BY <1>2, <1>5
    <3>3. (buf \o g) \o b = buf \o (g \o b)
      BY <3>1, <3>2, Regroup, Zenon
    <3> QED
      BY <3>3 DEF g
  <2> QED
    BY <1>1, <2>2, <2>3, <2>4 DEF Stream
<1>8. WellCut(Stream', Len(sent'))
  <2>1. Stream \o h \in Seq(Unit) /\ n \in Nat
    BY <1>2, <1>3, <1>4, ConcatProperties
  <2>2. WellCut(Stream \o h, n)
    BY <1>2, <1>4, <1>6, <2>1, CutConcat
  <2> QED
    BY <1>3, <1>5, <1>7, <2>1, <2>2, CutConcat
<1>9. HeadersFollow'
  <2> SUFFICES ASSUME stage = "head" PROVE HeadersFollow'
    BY <1>1 DEF HeadersFollow
  <2>1. /\ Len(Stream \o h) = Len(Stream) + Len(h)
        /\ Stream \o h \in Seq(Unit)
        /\ \A i \in 1 .. Len(Stream) : (Stream \o h)[i] = Stream[i]
    <3>1. Len(Stream) \in Nat /\ Len(h) \in Nat
      BY <1>2, <1>4, LenProperties
    <3>2. /\ Stream \o h \in Seq(Unit) /\ Len(Stream \o h) = Len(Stream) + Len(h)
          /\ \A i \in 1 .. Len(Stream) + Len(h) : (Stream \o h)[i] =
               IF i <= Len(Stream) THEN Stream[i] ELSE h[i - Len(Stream)]
      BY <1>2, <1>4, ConcatProperties
    <3> QED
      BY <3>1, <3>2
  <2>2. Len(Stream) \in Nat /\ Len(h) \in Nat /\ Len(b) \in Nat
    BY <1>2, <1>4, <1>5, LenProperties
  <2>3. /\ Len(Stream') = Len(Stream \o h) + Len(b)
        /\ \A i \in 1 .. Len(Stream \o h) + Len(b) : Stream'[i] =
             IF i <= Len(Stream \o h) THEN (Stream \o h)[i] ELSE b[i - Len(Stream \o h)]
    BY <1>5, <1>7, <2>1, ConcatProperties
  <2>4. \A i \in 1 .. Len(Stream) : Stream'[i] = Stream[i]
    BY <2>1, <2>2, <2>3
  <2>5. Len(Stream') >= Len(Stream)
    BY <2>1, <2>2, <2>3
  <2>6. Len(Stream) >= 1 => 1 \in 1 .. Len(Stream)
    BY <2>2
  <2>7. Len(Stream) >= 2 => 2 \in 1 .. Len(Stream) /\ Len(Stream) >= 1
    BY <2>2
  <2>8. Len(Stream') \in Nat
    BY <2>1, <2>2, <2>3
  <2> QED
    BY <2>2, <2>4, <2>5, <2>6, <2>7, <2>8 DEF ShapeInv, HeadersFollow
<1>10. CountInv' /\ \A k \in 1 .. Len(responses) : responses[k].of <= Len(sent')
  <2>1. CountInv'
    BY <1>1, <1>2, <1>3, ShapeTypes DEF ShapeInv, CountInv, n
  <2>2. ASSUME NEW k \in 1 .. Len(responses) PROVE responses[k].of <= Len(sent')
    <3>1. responses[k] \in Response
      BY ShapeTypes, ElementOfSeq
    <3>2. responses[k].of \in Nat
      BY <1>2, <3>1 DEF Response
    <3>3. responses[k].of <= Len(sent)
      BY DEF ShapeInv
    <3> QED
      BY <1>2, <1>3, <3>2, <3>3 DEF n
  <2> QED
    BY <2>1, <2>2
<1>11. TypeOK'
  <2>1. held' \in Nat
    BY <1>1, <1>2
  <2>2. Len(sent') <= MaxSent /\ cur' \in 0 .. Len(sent')
    BY <1>1, <1>2, <1>3 DEF ShapeInv, TypeOK, n
  <2> QED
    BY <1>1, <1>2, <1>3, <1>7, <2>1, <2>2 DEF ShapeInv, TypeOK
<1> QED
  BY <1>1, <1>8, <1>9, <1>10, <1>11 DEF ShapeInv

LEMMA ShapeInit == Init => ShapeInv
<1> SUFFICES ASSUME Init PROVE ShapeInv
  OBVIOUS
<1>1. /\ sent = << >> /\ held = 0 /\ socket = << >> /\ buf = << >> /\ stage = "await"
      /\ cur = 0 /\ need = 0 /\ status = 200 /\ closing = FALSE
      /\ left = MaxCount /\ responses = << >>
  BY DEF Init
<1>2. /\ sent \in Seq(Requests) /\ Len(sent) = 0
      /\ socket \in Seq(Unit) /\ buf \in Seq(Unit)
      /\ responses \in Seq(Response) /\ Len(responses) = 0
      /\ Stream = << >> /\ Len(Stream) = 0
  BY <1>1, EmptySeq, ConcatEmptySeq DEF Stream
<1>3. TypeOK
  <2>1. DOMAIN responses = {}
    BY <1>2, LenProperties
  <2>2. left \in 0 .. MaxCount /\ closing \in BOOLEAN /\ stage \in Stages
    <3>1. MaxCount \in Nat /\ MaxCount \in 0 .. MaxCount
      BY ExchangeAssumption
    <3> QED
      BY <1>1, <3>1 DEF Stages
  <2> QED
    BY <1>1, <1>2, <2>1, <2>2, ExchangeAssumption DEF TypeOK
<1>4. WellCut(Stream, Len(sent)) /\ HeadersFollow /\ CountInv
  BY <1>1, <1>2, ExchangeAssumption DEF WellCut, HeadersFollow, CountInv
<1> QED
  BY <1>1, <1>2, <1>3, <1>4 DEF ShapeInv

LEMMA ShapeStep == ShapeInv /\ [Next]_vars => ShapeInv'
<1> SUFFICES ASSUME ShapeInv, [Next]_vars PROVE ShapeInv'
  OBVIOUS
<1>1. CASE Serve
  BY <1>1, ShapeNextRequest, ShapeLeave, ShapeFill, ShapeReadLine, ShapeReadHead,
     ShapeReadPart, ShapeAnswer, ShapeCheck, ShapeRespond DEF Serve
<1>2. CASE \E r \in Requests : Send(r)
  BY <1>2, ShapeSend
<1>3. CASE UNCHANGED vars
  <2>1. Stream' = Stream
    BY <1>3 DEF Stream, vars
  <2>2. HeadersFollow' /\ CountInv' /\ TypeOK'
    BY <1>3, <2>1 DEF ShapeInv, HeadersFollow, CountInv, TypeOK, vars
  <2> QED
    BY <1>3, <2>1, <2>2 DEF ShapeInv, vars
<1> QED
  BY <1>1, <1>2, <1>3 DEF Next

\* The variables of the exchange keep their types: however the requests are cut
\* into pieces, the reader never hands on more lines than were received.
THEOREM ExchangeTypeCorrect == Spec => []TypeOK
<1>1. ShapeInv => TypeOK
  BY DEF ShapeInv
<1> QED
  BY <1>1, ShapeInit, ShapeStep, PTL DEF Spec

-----------------------------------------------------------------------------
(***************************************************************************)
(* What a response says of the connection.  While the thread waits nothing *)
(* is to be closed; from Check to Respond connection_closed is what the    *)
(* Connection header asks for; and a response announces the close just     *)
(* when it is the last.                                                    *)
(***************************************************************************)
Modern(k) == k # 0 /\ sent[k].version = "1.1" /\ sent[k].line = "ok"

LastSaysClose(k) ==
  /\ responses[k].close => k = Len(responses) /\ (stage = "closed" \/ left = 0)
  /\ k = Len(responses) /\ ((stage = "closed" /\ closing) \/ left = 0)
       => responses[k].close

ClosingInv ==
  /\ stage = "await" => ~ closing
  /\ stage = "dummy" => R.line = "long"
  /\ stage \in {"body", "respond"} /\ Modern(cur) => (closing <=> Closes(R))
  /\ \A k \in 1 .. Len(responses) : Modern(responses[k].of) => LastSaysClose(k)

\* A thread that reads the headers finds a header or the empty line.
LEMMA HeadersThere ==
  ASSUME ShapeInv, stage = "head"
  PROVE  /\ Stream # << >> /\ ~ Silence
         /\ buf # << >> => Head(buf).part \in {"header", "end"}
<1>1. buf \in Seq(Unit) /\ socket \in Seq(Unit) /\ Stream \in Seq(Unit)
  BY ShapeTypes
<1>2. Len(Stream) >= 1 /\ Stream[1].part \in {"header", "end"}
  BY DEF ShapeInv, HeadersFollow
<1>3. Stream # << >>
  BY <1>2
<1>4. ~ Silence
  BY <1>3, ConcatEmptySeq, EmptySeq DEF Silence, Stream
<1>5. ASSUME buf # << >> PROVE Head(buf) = Stream[1]
  <2>1. Len(buf) > 0 /\ Len(buf) \in Nat /\ Len(socket) \in Nat /\ Head(buf) = buf[1]
    BY <1>1, <1>5, EmptySeq, LenProperties
  <2>2. 1 \in 1 .. Len(buf) + Len(socket) /\ 1 <= Len(buf)
    BY <2>1
  <2> QED
    BY <1>1, <2>1, <2>2, ConcatProperties DEF Stream
<1> QED
  BY <1>2, <1>3, <1>4, <1>5

\* A step that answers, or reads on, and says nothing of the connection.
LEMMA ClosingStill ==
  ASSUME ClosingInv, UNCHANGED <<sent, closing, left, responses>>,
         stage # "closed", stage' \notin {"await", "closed"},
         stage' = "dummy" => R'.line = "long",
         stage' \in {"body", "respond"} =>
           \/ ~ Modern(cur')
           \/ stage \in {"body", "respond"} /\ cur' = cur
  PROVE  ClosingInv'
<1>1. \A k \in 1 .. Len(responses) : Modern(responses[k].of)' => LastSaysClose(k)'
  BY DEF ClosingInv, LastSaysClose, Modern
<1>2. stage' \in {"body", "respond"} /\ Modern(cur)' => (closing' <=> Closes(R)')
  BY DEF ClosingInv, Modern, R, Closes
<1> QED
  BY <1>1, <1>2 DEF ClosingInv

LEMMA ClosingStep ==
  ASSUME ShapeInv, ClosingInv, [Next]_vars
  PROVE  ClosingInv'
<1>1. CASE NextRequest \/ Leave
  <2>1. /\ stage = "await" /\ ~ closing /\ ~ closing'
        /\ stage' \in {"line", "closed"}
        /\ UNCHANGED <<sent, left, responses>>
    BY <1>1 DEF NextRequest, Leave, ClosingInv, client
  <2>2. \A k \in 1 .. Len(responses) : Modern(responses[k].of)' => LastSaysClose(k)'
    BY <2>1 DEF ClosingInv, LastSaysClose, Modern
  <2> QED
    BY <2>1, <2>2 DEF ClosingInv
<1>2. CASE Fill \/ ReadOn
  <2>1. UNCHANGED <<sent, closing, left, responses, stage, cur>>
        /\ stage \in {"line", "head", "dummy", "body"}
    BY <1>2 DEF Fill, ReadOn, Reading, client
  <2> QED
    BY <2>1, ClosingStill DEF ClosingInv, R
<1>3. CASE ReadLine
  <2>1. /\ UNCHANGED <<sent, closing, left, responses>> /\ stage = "line"
        /\ stage' = "head" \/ (stage' = "respond" /\ cur' = 0)
    BY <1>3 DEF ReadLine, Answer, client
  <2>2. cur' = 0 => ~ Modern(cur')
    BY DEF Modern
  <2> QED
    BY <2>1, <2>2, ClosingStill
<1>4. CASE ReadHead
  <2>1. /\ UNCHANGED <<sent, closing, left, responses, cur>> /\ stage = "head"
        /\ buf # << >>
    BY <1>4 DEF ReadHead, client
  <2>2. Head(buf).part \in {"header", "end"}
    BY <2>1, HeadersThere
  <2>3. stage' = stage \/ stage' = "check" \/ (stage' = "dummy" /\ R.line = "long")
    BY <1>4, <2>2 DEF ReadHead
  <2> QED
    BY <2>1, <2>3, ClosingStill DEF R
<1>5. CASE ReadDummy \/ (TimeOut /\ stage = "dummy")
  <2>1. /\ UNCHANGED <<sent, closing, left, responses, cur>> /\ stage = "dummy"
        /\ stage' = stage \/ stage' = "respond"
    BY <1>5 DEF ReadDummy, TimeOut, Answer, client
  <2>2. R.line = "long" /\ R' = R
    BY <2>1 DEF ClosingInv, R
  <2>3. ~ Modern(cur')
    BY <2>1, <2>2 DEF Modern, R
  <2> QED
    BY <2>1, <2>2, <2>3, ClosingStill
<1>6. CASE ReadBody \/ BodyRead \/ (TimeOut /\ stage = "body")
  <2>1. /\ UNCHANGED <<sent, closing, left, responses, cur>> /\ stage = "body"
        /\ stage' = stage \/ stage' = "respond"
    BY <1>6 DEF ReadBody, BodyRead, TimeOut, Answer, client
  <2> QED
    BY <2>1, ClosingStill
<1>7. CASE Check
  <2>1. /\ UNCHANGED <<sent, left, responses, cur>> /\ stage = "check"
        /\ stage' \in {"body", "respond"} /\ closing' = Closes(R) /\ R' = R
    BY <1>7 DEF Check, Answer, R
  <2>2. Closes(R)' <=> Closes(R)
    BY <2>1 DEF Closes
  <2>3. closing' <=> Closes(R)'
    BY <2>1, <2>2
  <2>4. \A k \in 1 .. Len(responses) : Modern(responses[k].of)' => LastSaysClose(k)'
    BY <2>1 DEF ClosingInv, LastSaysClose, Modern
  <2> QED
    BY <2>1, <2>3, <2>4 DEF ClosingInv
<1>8. CASE Respond
  <2> DEFINE a == [of |-> cur, status |-> status, close |-> AnnouncesClose]
  <2> PICK n : n = Len(responses) + 1
    OBVIOUS
  <2>1. /\ stage = "respond" /\ responses' = Append(responses, a)
        /\ left' = left - 1 /\ stage' = IF closing THEN "closed" ELSE "await"
        /\ UNCHANGED <<sent, cur, closing>>
    BY <1>8 DEF Respond, client
  <2>2. /\ responses \in Seq(Response) /\ Len(responses) \in Nat
        /\ left \in Nat /\ left > 0 /\ closing \in BOOLEAN
    BY <2>1, ShapeTypes DEF ShapeInv, CountInv, TypeOK
  <2>3. a.of = cur /\ a.close = AnnouncesClose
    OBVIOUS
  <2>4. a \in Response
    <3>1. AnnouncesClose \in BOOLEAN
      BY DEF AnnouncesClose
    <3>2. cur \in 0 .. MaxSent /\ status \in Codes
      BY ShapeTypes, ExchangeAssumption DEF ShapeInv, TypeOK, Codes
    <3> QED
      BY <3>1, <3>2 DEF Response
  <2> HIDE DEF a
  <2>5. /\ Len(responses') = n /\ responses'[n] = a
        /\ \A k \in 1 .. Len(responses) : responses'[k] = responses[k]
    BY <2>1, <2>2, <2>4, AppendProperties
  <2>6. \A k : Modern(k)' <=> Modern(k)
    BY <2>1 DEF Modern
  <2>7. ASSUME NEW k \in 1 .. Len(responses), Modern(responses[k].of)'
        PROVE  LastSaysClose(k)'
    <3>1. Modern(responses[k].of)
      BY <2>5, <2>6, <2>7
    <3>2. LastSaysClose(k) /\ ~ (stage = "closed" \/ left = 0)
      BY <2>1, <2>2, <3>1 DEF ClosingInv
    <3>3. ~ responses[k].close
      BY <3>2 DEF LastSaysClose
    <3>4. k # Len(responses') /\ ~ responses'[k].close
      BY <2>2, <2>5, <3>3
    <3> QED
      BY <3>4 DEF LastSaysClose
  <2>8. ASSUME Modern(cur)
        PROVE  a.close <=> (closing \/ left = 1)
    <3>1. cur # 0 /\ R.version = "1.1"
      BY <2>8 DEF Modern, R
    <3>2. closing <=> R.connection = "close"
      BY <2>1, <2>8, <3>1 DEF ClosingInv, Closes
    <3> QED
      BY <2>3, <3>1, <3>2 DEF AnnouncesClose
  <2>9. (left' = 0 <=> left = 1) /\ (stage' = "closed" <=> closing)
        /\ (closing' <=> closing)
    BY <2>1, <2>2
  <2>10. ASSUME Modern(responses[n].of)'
         PROVE  LastSaysClose(n)'
    <3>1. Modern(cur) /\ (responses'[n].close <=> a.close)
      BY <2>3, <2>5, <2>6, <2>10
    <3> QED
      BY <2>5, <2>8, <2>9, <3>1 DEF LastSaysClose
  <2>11. \A k \in 1 .. Len(responses') : Modern(responses[k].of)' => LastSaysClose(k)'
    <3> SUFFICES ASSUME NEW k \in 1 .. Len(responses'), Modern(responses[k].of)'
                 PROVE  LastSaysClose(k)'
      OBVIOUS
    <3>1. k \in 1 .. Len(responses) \/ k = n
      BY <2>2, <2>5
    <3> QED
      BY <2>7, <2>10, <3>1
  <2> QED
    BY <2>1, <2>9, <2>11 DEF ClosingInv
<1>9. ASSUME NEW r \in Requests, Send(r)
      PROVE  ClosingInv'
  <2>1. /\ sent' = Append(sent, r)
        /\ UNCHANGED <<stage, cur, closing, left, responses>>
    BY <1>9 DEF Send
  <2>2. sent \in Seq(Requests) /\ \A k \in 1 .. Len(sent) : sent'[k] = sent[k]
    BY <2>1, ShapeTypes, AppendProperties
  <2>3. \A k \in 1 .. Len(sent) : Modern(k)' <=> Modern(k)
    BY <2>2 DEF Modern
  <2>4. ~ Modern(0) /\ ~ Modern(0)'
    BY DEF Modern
  <2>5. cur \in 0 .. Len(sent) /\ Len(sent) \in Nat
    BY ShapeTypes DEF ShapeInv, TypeOK
  <2>6. cur # 0 => R' = R
    BY <2>1, <2>2, <2>5 DEF R
  <2>7. stage \in {"body", "respond"} /\ Modern(cur)' => (closing' <=> Closes(R)')
    <3> SUFFICES ASSUME stage \in {"body", "respond"}, Modern(cur)'
                 PROVE  closing' <=> Closes(R)'
      OBVIOUS
    <3>1. cur # 0 /\ Modern(cur)
      BY <2>1, <2>3, <2>4, <2>5
    <3>2. R' = R /\ closing' = closing
      BY <2>1, <2>6, <3>1
    <3>3. Closes(R)' <=> Closes(R)
      BY <3>2 DEF Closes
    <3> QED
      BY <3>1, <3>2, <3>3 DEF ClosingInv
  <2>8. ASSUME NEW k \in 1 .. Len(responses), Modern(responses[k].of)'
        PROVE  LastSaysClose(k)'
    <3>1. responses[k] \in Response
      BY ShapeTypes, ElementOfSeq
    <3>2. responses[k].of \in Nat /\ responses[k].of <= Len(sent)
      BY <3>1, ExchangeAssumption DEF Response, ShapeInv
    <3>3. responses[k].of = 0 \/ responses[k].of \in 1 .. Len(sent)
      BY <2>5, <3>2
    <3>4. Modern(responses[k].of)
      BY <2>1, <2>3, <2>4, <2>8, <3>3
    <3> QED
      BY <2>1, <3>4 DEF ClosingInv, LastSaysClose
  <2>9. stage = "dummy" => R'.line = "long"
    BY <2>6 DEF ClosingInv, ShapeInv
  <2> QED
    BY <2>1, <2>7, <2>8, <2>9 DEF ClosingInv
<1>10. CASE UNCHANGED vars
  <2>1. UNCHANGED <<sent, stage, cur, closing, left, responses>>
    BY <1>10 DEF vars
  <2>2. \A k \in 1 .. Len(responses) : Modern(responses[k].of)' => LastSaysClose(k)'
    BY <2>1 DEF ClosingInv, LastSaysClose, Modern
  <2>3. R' = R /\ (Modern(cur)' <=> Modern(cur)) /\ (Closes(R)' <=> Closes(R))
    BY <2>1 DEF Modern, R, Closes
  <2> QED
    BY <2>1, <2>2, <2>3 DEF ClosingInv
<1>11. TimeOut => stage \in {"dummy", "body"}
  BY HeadersThere DEF TimeOut
<1> QED
  BY <1>1, <1>2, <1>3, <1>4, <1>5, <1>6, <1>7, <1>8, <1>9, <1>10, <1>11
  DEF Next, Serve

\* CloseIsAnnounced holds for every number of requests and every
\* keep_alive_max_count_: whoever is answered on HTTP/1.1 knows whether the
\* connection stays open.
THEOREM CloseAnnounced == Spec => []CloseIsAnnounced
<1>1. Init => ClosingInv
  <2> SUFFICES ASSUME Init PROVE ClosingInv
    OBVIOUS
  <2>1. stage = "await" /\ ~ closing /\ Len(responses) = 0
    BY EmptySeq DEF Init
  <2> QED
    BY <2>1 DEF ClosingInv
<1>2. ShapeInv /\ ClosingInv => CloseIsAnnounced
  <2> SUFFICES ASSUME ShapeInv, ClosingInv,
                      NEW k \in DOMAIN responses,
                      responses[k].of # 0, sent[responses[k].of].version = "1.1",
                      sent[responses[k].of].line = "ok"
               PROVE  /\ k < Len(responses) => ~ responses[k].close
                      /\ k = Len(responses) /\ stage = "closed" /\ (closing \/ left = 0)
                           => responses[k].close
    BY DEF CloseIsAnnounced
  <2>1. k \in 1 .. Len(responses) /\ Len(responses) \in Nat
    BY ShapeTypes, LenProperties
  <2>2. LastSaysClose(k)
    BY <2>1 DEF ClosingInv, Modern
  <2> QED
    BY <2>1, <2>2 DEF LastSaysClose
<1>3. ShapeInv /\ ClosingInv /\ [Next]_vars => ClosingInv'
  BY ClosingStep
<1> QED
  BY <1>1, <1>2, <1>3, ShapeInit, ShapeStep, PTL DEF Spec

-----------------------------------------------------------------------------
(***************************************************************************)
(* What the stream holds while every request was orderly: what is left of  *)
(* the last one, as far as the stage says it has been read, and nothing of *)
(* the ones before.                                                        *)
(***************************************************************************)
Unasked(k) == IF sent[k].expect THEN << >> ELSE Units(k, "body", sent[k].body)
EndOn(k) == Units(k, "end", 1) \o Unasked(k)
HeaderOn(k) == Units(k, "header", 1) \o EndOn(k)
LineOn(k) == Units(k, "line", 1) \o HeaderOn(k)

LeftOf(n) ==
  /\ stage \in {"await", "line", "head", "check"} =>
       held = IF sent[n].expect THEN sent[n].body ELSE 0
  /\ stage \in {"dummy", "body", "respond"} => held = 0
  /\ stage = "await" => buf = << >>
  /\ stage \in {"head", "dummy", "check", "body", "respond"} => cur = n
  /\ stage \in {"await", "line"} => Stream = LineOn(n)
  /\ stage = "head" => Stream = HeaderOn(n) \/ Stream = EndOn(n)
  /\ stage = "check" => Stream = Unasked(n)
  /\ stage = "body" => Stream = Units(n, "body", need) /\ need <= sent[n].body
  /\ stage \in {"dummy", "respond"} => Stream = << >>

Tidy == \A i \in 1 .. Len(sent) : Orderly(sent[i])

AllAnswered == stage \in {"await", "closed"} /\ Stream = << >> /\ held = 0

TidyInv ==
  Tidy => /\ Len(responses) <= Len(sent)
          /\ Len(responses) = Len(sent) => AllAnswered
          /\ Len(responses) < Len(sent) => LeftOf(Len(sent))

-----------------------------------------------------------------------------
(* The units of one request. *)

Kind == {"line", "header", "end", "body"}

\* The sequence t is a unit of request k with s behind it.
Begins(t, k, p, s) ==
  t \in Seq(Unit) /\ t # << >> /\ Head(t).of = k /\ Head(t).part = p /\ Tail(t) = s

LEMMA OneUnit ==
  ASSUME NEW k \in 1 .. MaxSent, NEW p \in Kind,
         NEW s \in Seq(Unit)
  PROVE  Begins(Units(k, p, 1) \o s, k, p, s)
<1> DEFINE u == Units(k, p, 1)
           v == [of |-> k, part |-> p]
<1>1. 1 \in Nat /\ 1 \in 1 .. 1
  OBVIOUS
<1>2. u \in Seq(Unit) /\ Len(u) = 1 /\ u[1] = v
  BY <1>1, UnitsType DEF Kind
<1>3. v.of = k /\ v.part = p
  OBVIOUS
<1> HIDE DEF u, v
<1>4. Len(s) \in Nat
  BY LenProperties
<1>5. /\ u \o s \in Seq(Unit) /\ Len(u \o s) = 1 + Len(s)
      /\ \A i \in 1 .. 1 + Len(s) : (u \o s)[i] = IF i <= 1 THEN u[i] ELSE s[i - 1]
  <2>1. /\ u \o s \in Seq(Unit) /\ Len(u \o s) = Len(u) + Len(s)
        /\ \A i \in 1 .. Len(u) + Len(s) :
             (u \o s)[i] = IF i <= Len(u) THEN u[i] ELSE s[i - Len(u)]
    BY <1>2, ConcatProperties
  <2> QED
    BY <1>2, <2>1
<1>6. u \o s # << >> /\ Head(u \o s) = (u \o s)[1] /\ (u \o s)[1] = v
  BY <1>2, <1>4, <1>5, HeadTailProperties, EmptySeq
<1>7. /\ Tail(u \o s) \in Seq(Unit) /\ Len(Tail(u \o s)) = Len(s)
      /\ \A i \in 1 .. Len(s) : Tail(u \o s)[i] = (u \o s)[i + 1]
  BY <1>4, <1>5, <1>6, HeadTailProperties
<1>8. \A i \in 1 .. Len(s) : Tail(u \o s)[i] = s[i]
  <2> TAKE i \in 1 .. Len(s)
  <2>1. i + 1 \in 1 .. 1 + Len(s) /\ ~ (i + 1 <= 1) /\ (i + 1) - 1 = i
    BY <1>4
  <2> QED
    BY <1>5, <1>7, <2>1
<1>9. Tail(u \o s) = s
  BY <1>7, <1>8, SeqEqual
<1> QED
  BY <1>3, <1>5, <1>6, <1>9 DEF u, Begins

LEMMA BodyUnits ==
  ASSUME NEW k \in 1 .. MaxSent, NEW n \in Nat
  PROVE  /\ n = 0 <=> Units(k, "body", n) = << >>
         /\ n > 0 => /\ Head(Units(k, "body", n)).part = "body"
                     /\ Tail(Units(k, "body", n)) = Units(k, "body", n - 1)
<1> DEFINE u == Units(k, "body", n)
           v == [of |-> k, part |-> "body"]
<1>1. u \in Seq(Unit) /\ Len(u) = n /\ \A i \in 1 .. n : u[i] = v
  BY UnitsType
<1>2. v.part = "body"
  OBVIOUS
<1>3. n > 0 => LET w == Units(k, "body", n - 1) IN
                 w \in Seq(Unit) /\ Len(w) = n - 1 /\ \A i \in 1 .. n - 1 : w[i] = v
  <2> SUFFICES ASSUME n > 0
               PROVE  LET w == Units(k, "body", n - 1) IN
                 w \in Seq(Unit) /\ Len(w) = n - 1 /\ \A i \in 1 .. n - 1 : w[i] = v
    OBVIOUS
  <2>1. n - 1 \in Nat
    OBVIOUS
  <2> QED
    BY <2>1, UnitsType
<1> DEFINE w == Units(k, "body", n - 1)
<1> HIDE DEF u, v, w
<1>4. n = 0 <=> u = << >>
  BY <1>1, EmptySeq, LenProperties
<1>5. ASSUME n > 0 PROVE Head(u).part = "body" /\ Tail(u) = w
  <2>1. w \in Seq(Unit) /\ Len(w) = n - 1 /\ \A i \in 1 .. n - 1 : w[i] = v
    BY <1>3, <1>5 DEF w
  <2>2. /\ u # << >> /\ Head(u) = u[1] /\ Tail(u) \in Seq(Unit)
        /\ Len(Tail(u)) = n - 1 /\ \A i \in 1 .. n - 1 : Tail(u)[i] = u[i + 1]
    BY <1>1, <1>4, <1>5, HeadTailProperties
  <2>3. 1 \in 1 .. n /\ \A i \in 1 .. n - 1 : i + 1 \in 1 .. n
    BY <1>5
  <2>4. \A i \in 1 .. n - 1 : Tail(u)[i] = w[i]
    BY <1>1, <2>1, <2>2, <2>3
  <2>5. Tail(u) = w
    BY <2>1, <2>2, <2>4, SeqEqual
  <2> QED
    BY <1>1, <1>2, <2>2, <2>3, <2>5
<1> QED
  BY <1>4, <1>5 DEF u, w

LEMMA LeftTypes ==
  ASSUME NEW k \in 1 .. MaxSent, sent[k] \in Request
  PROVE  /\ sent[k].body \in Nat
         /\ Unasked(k) \in Seq(Unit) /\ EndOn(k) \in Seq(Unit)
         /\ HeaderOn(k) \in Seq(Unit)
         /\ Head3(k) \o Unasked(k) = LineOn(k)
         /\ sent[k].body = 0 => Unasked(k) = << >>
<1>1. sent[k].body \in Nat
  BY DEF Request
<1>2. Unasked(k) \in Seq(Unit) /\ (sent[k].body = 0 => Unasked(k) = << >>)
  BY <1>1, UnitsType, BodyUnits, EmptySeq DEF Unasked
<1> DEFINE a == Units(k, "line", 1)
           b == Units(k, "header", 1)
           c == Units(k, "end", 1)
           d == Unasked(k)
<1>3. EndOn(k) \in Seq(Unit)
  <2>1. Begins(EndOn(k), k, "end", Unasked(k))
    BY <1>2, OneUnit DEF EndOn, Kind
  <2> QED
    BY <2>1 DEF Begins
<1>4. HeaderOn(k) \in Seq(Unit)
  <2>1. Begins(HeaderOn(k), k, "header", EndOn(k))
    BY <1>3, OneUnit DEF HeaderOn, Kind
  <2> QED
    BY <2>1 DEF Begins
<1>5. a \in Seq(Unit) /\ b \in Seq(Unit) /\ c \in Seq(Unit) /\ d \in Seq(Unit)
  <2>1. 1 \in Nat
    OBVIOUS
  <2> QED
    BY <1>2, <2>1, UnitsType
<1>6. /\ EndOn(k) = c \o d /\ HeaderOn(k) = b \o (c \o d)
      /\ LineOn(k) = a \o (b \o (c \o d)) /\ Head3(k) = (a \o b) \o c
  BY DEF EndOn, HeaderOn, LineOn, Head3
<1> HIDE DEF a, b, c, d
<1>7. ((a \o b) \o c) \o d = (a \o b) \o (c \o d)
  <2>1. a \o b \in Seq(Unit)
    BY <1>5, ConcatProperties
  <2> DEFINE e == a \o b
  <2>2. e \in Seq(Unit)
    BY <2>1
  <2> HIDE DEF e
  <2>3. c \in Seq(Unit) /\ d \in Seq(Unit)
    BY <1>5
  <2>4. (e \o c) \o d = e \o (c \o d)
    BY <2>2, <2>3, Regroup, Zenon
  <2> QED
    BY <2>4 DEF e
<1>8. (a \o b) \o (c \o d) = a \o (b \o (c \o d))
  <2>1. c \o d \in Seq(Unit)
    BY <1>5, ConcatProperties
  <2> DEFINE e == c \o d
  <2>2. a \in Seq(Unit) /\ b \in Seq(Unit) /\ e \in Seq(Unit)
    BY <1>5, <2>1
  <2> HIDE DEF e
  <2>3. (a \o b) \o e = a \o (b \o e)
    BY <2>2, Regroup, Zenon
  <2> QED
    BY <2>3 DEF e
<1> QED
  BY <1>1, <1>2, <1>3, <1>4, <1>6, <1>7, <1>8 DEF d

-----------------------------------------------------------------------------
(* The steps of the server, with a request that is not answered. *)

LEMMA FirstUnits ==
  ASSUME NEW k \in 1 .. MaxSent, Unasked(k) \in Seq(Unit), EndOn(k) \in Seq(Unit),
         HeaderOn(k) \in Seq(Unit)
  PROVE  /\ Begins(LineOn(k), k, "line", HeaderOn(k))
         /\ Begins(HeaderOn(k), k, "header", EndOn(k))
         /\ Begins(EndOn(k), k, "end", Unasked(k))
<1>1. "line" \in Kind /\ "header" \in Kind /\ "end" \in Kind
  BY DEF Kind
<1>2. Begins(LineOn(k), k, "line", HeaderOn(k))
  BY <1>1, OneUnit DEF LineOn
<1>3. Begins(HeaderOn(k), k, "header", EndOn(k))
  BY <1>1, OneUnit DEF HeaderOn
<1>4. Begins(EndOn(k), k, "end", Unasked(k))
  BY <1>1, OneUnit DEF EndOn
<1> QED
  BY <1>2, <1>3, <1>4

LEMMA UnitTaken ==
  ASSUME ShapeInv, buf # << >>, buf' = Tail(buf), socket' = socket
  PROVE  Stream # << >> /\ Head(buf) = Head(Stream) /\ Stream' = Tail(Stream)
BY ShapeTypes, TakeFirst

LEMMA LeftRead ==
  ASSUME ShapeInv, NEW n \in 1 .. MaxSent, n = Len(sent), LeftOf(n), Orderly(sent[n]),
         ReadLine \/ ReadHead \/ ReadDummy \/ ReadBody \/ ReadOn
  PROVE  LeftOf(n)'
<1>1. /\ UNCHANGED <<sent, held, socket>>
      /\ buf # << >> /\ buf' = Tail(buf)
  BY DEF ReadLine, ReadHead, ReadDummy, ReadBody, ReadOn, client
<1>2. Stream # << >> /\ Head(buf) = Head(Stream) /\ Stream' = Tail(Stream)
  BY <1>1, UnitTaken
<1>3. sent[n] \in Request /\ sent[n] \in Requests
  <2>1. sent \in Seq(Requests) /\ n \in 1 .. Len(sent)
    BY ShapeTypes
  <2> QED
    BY <2>1, ElementOfSeq, ExchangeAssumption
<1>4. /\ sent[n].body \in Nat /\ Unasked(n) \in Seq(Unit) /\ EndOn(n) \in Seq(Unit)
      /\ HeaderOn(n) \in Seq(Unit) /\ (sent[n].body = 0 => Unasked(n) = << >>)
  BY <1>3, LeftTypes
<1>5. Unasked(n)' = Unasked(n) /\ EndOn(n)' = EndOn(n) /\ HeaderOn(n)' = HeaderOn(n)
  BY <1>1 DEF Unasked, EndOn, HeaderOn
<1>11. /\ Head(LineOn(n)).of = n /\ Head(LineOn(n)).part = "line"
       /\ Tail(LineOn(n)) = HeaderOn(n)
       /\ Head(HeaderOn(n)).part = "header" /\ Tail(HeaderOn(n)) = EndOn(n)
       /\ Head(EndOn(n)).part = "end" /\ Tail(EndOn(n)) = Unasked(n)
  BY <1>4, FirstUnits DEF Begins
<1>6. CASE ReadLine
  <2>1. stage = "line" /\ Stream = LineOn(n)
    BY <1>6 DEF ReadLine, LeftOf
  <2>2. Head(Stream).of = n /\ Head(Stream).part = "line" /\ Tail(Stream) = HeaderOn(n)
    BY <1>11, <2>1
  <2>3. cur' = n /\ stage' = "head"
    BY <1>2, <1>6, <2>2 DEF ReadLine, Orderly
  <2>4. Stream' = HeaderOn(n)' /\ held' = IF sent'[n].expect THEN sent'[n].body ELSE 0
    BY <1>1, <1>2, <1>5, <2>1, <2>2 DEF LeftOf
  <2> QED
    BY <2>3, <2>4 DEF LeftOf
<1>7. CASE ReadHead
  <2>1. /\ stage = "head" /\ cur = n /\ cur' = n /\ R = sent[n]
        /\ held' = IF sent'[n].expect THEN sent'[n].body ELSE 0
    BY <1>1, <1>7 DEF ReadHead, LeftOf, R
  <2>2. CASE Stream = HeaderOn(n)
    <3>1. Head(Stream).part = "header" /\ Tail(Stream) = EndOn(n)
      BY <1>11, <2>2
    <3>2. stage' = "head" /\ Stream' = EndOn(n)'
      BY <1>2, <1>5, <1>7, <2>1, <3>1 DEF ReadHead
    <3> QED
      BY <2>1, <3>2 DEF LeftOf
  <2>3. CASE Stream = EndOn(n)
    <3>1. Head(Stream).part = "end" /\ Tail(Stream) = Unasked(n)
      BY <1>11, <2>3
    <3>2. stage' = (IF sent[n].line = "long" THEN "dummy" ELSE "check")
      BY <1>2, <1>7, <2>1, <3>1 DEF ReadHead
    <3>3. Stream' = Unasked(n)'
      BY <1>2, <1>5, <3>1
    <3>4. CASE sent[n].line # "long"
      BY <2>1, <3>2, <3>3, <3>4 DEF LeftOf
    <3>5. CASE sent[n].line = "long"
      <4>1. sent[n].body = 0
        BY <1>4, <3>5 DEF Orderly
      <4>2. Stream' = << >> /\ held' = 0
        BY <1>1, <1>4, <1>5, <2>1, <3>3, <4>1
      <4> QED
        BY <2>1, <3>2, <3>5, <4>2 DEF LeftOf
    <3> QED
      BY <3>4, <3>5
  <2> QED
    BY <2>1, <2>2, <2>3 DEF LeftOf
<1>8. ~ ReadDummy
  BY <1>2 DEF ReadDummy, LeftOf
<1>9. CASE ReadBody
  <2>1. /\ stage = "body" /\ need > 0 /\ need \in Nat /\ cur = n /\ cur' = n
        /\ Stream = Units(n, "body", need) /\ need <= sent[n].body /\ held = 0
    BY <1>9, ShapeTypes DEF ReadBody, LeftOf
  <2>2. Head(Stream).part = "body" /\ Tail(Stream) = Units(n, "body", need - 1)
    BY <2>1, BodyUnits
  <2>3. stage' = "body" /\ need' = need - 1
    BY <1>2, <1>9, <2>1, <2>2 DEF ReadBody
  <2>4. Stream' = Units(n, "body", need)' /\ need' <= sent'[n].body /\ held' = 0
    <3>1. Units(n, "body", need)' = Units(n, "body", need - 1)
      BY <2>3 DEF Units
    <3>2. need' <= sent'[n].body
      BY <1>1, <1>4, <2>1, <2>3
    <3> QED
      BY <1>1, <1>2, <2>1, <2>2, <3>1, <3>2
  <2> QED
    BY <2>1, <2>3, <2>4 DEF LeftOf
<1>10. ~ ReadOn
  <2> SUFFICES ASSUME ReadOn PROVE FALSE
    OBVIOUS
  <2>1. /\ stage = "body" /\ need \in Nat /\ R = sent[n] /\ need <= sent[n].body
        /\ Stream = Units(n, "body", need) /\ sent[n].framing = "none"
    BY ShapeTypes DEF ReadOn, LeftOf, R
  <2>2. sent[n].body = 0
    BY <1>3, <2>1, ExchangeAssumption
  <2>3. need = 0
    BY <2>1, <2>2
  <2> QED
    BY <1>2, <2>1, <2>3, BodyUnits
<1> QED
  BY <1>6, <1>7, <1>8, <1>9, <1>10

LEMMA LeftCheck ==
  ASSUME ShapeInv, NEW n \in 1 .. MaxSent, n = Len(sent), LeftOf(n), Orderly(sent[n]),
         Check
  PROVE  LeftOf(n)'
<1>1. /\ stage = "check" /\ cur = n /\ cur' = n /\ R = sent[n] /\ UNCHANGED <<sent, buf>>
      /\ Stream = Unasked(n) /\ held = IF sent[n].expect THEN sent[n].body ELSE 0
  BY DEF Check, LeftOf, R
<1>2. sent[n] \in Request
  <2>1. sent \in Seq(Requests) /\ n \in 1 .. Len(sent)
    BY ShapeTypes
  <2> QED
    BY <2>1, ElementOfSeq, ExchangeAssumption
<1>3. /\ sent[n].body \in Nat /\ (sent[n].body = 0 => Unasked(n) = << >>)
  BY <1>2, LeftTypes
<1>4. CASE sent[n].accept = "bad" \/ sent[n].range = "bad"
  <2>1. sent[n].body = 0
    BY <1>3, <1>4 DEF Orderly
  <2>2. stage' = "respond" /\ held' = 0 /\ socket' = socket
    BY <1>1, <1>4, <2>1 DEF Check, Answer
  <2>3. Stream' = << >>
    BY <1>1, <1>3, <2>1, <2>2 DEF Stream
  <2> QED
    BY <1>1, <2>2, <2>3 DEF LeftOf
<1>5. CASE ~ (sent[n].accept = "bad" \/ sent[n].range = "bad")
  <2>1. held' = 0 /\ Stream' = Units(n, "body", sent[n].body)
    <3>1. CASE sent[n].expect
      <4>1. held' = 0 /\ socket' = socket \o Units(n, "body", sent[n].body)
        BY <1>1, <1>5, <3>1 DEF Check
      <4>2. Stream = << >>
        BY <1>1, <3>1 DEF Unasked
      <4>3. buf = << >> /\ socket = << >>
        BY <4>2, ShapeTypes, ConcatEmptySeq, EmptySeq, ConcatProperties, LenProperties
        DEF Stream
      <4>4. Units(n, "body", sent[n].body) \in Seq(Unit)
        BY <1>3, UnitsType
      <4>5. Stream' = << >> \o (<< >> \o Units(n, "body", sent[n].body))
        BY <1>1, <4>1, <4>3 DEF Stream
      <4> QED
        BY <4>1, <4>4, <4>5, ConcatEmptySeq
    <3>2. CASE ~ sent[n].expect
      BY <1>1, <1>5, <3>2 DEF Check, Stream, Unasked
    <3> QED
      BY <3>1, <3>2
  <2>2. \/ stage' = "respond" /\ sent[n].body = 0
        \/ stage' = "body" /\ need' = sent[n].body
    <3>1. CASE ~ ExpectContent(sent[n])
               \/ (sent[n].method = "DELETE" /\ sent[n].framing # "length")
      <4>1. sent[n].body = 0
        BY <1>3, <3>1 DEF ExpectContent, Orderly
      <4> QED
        BY <1>1, <1>5, <3>1, <4>1 DEF Check, Answer
    <3>2. CASE ~ (~ ExpectContent(sent[n])
                  \/ (sent[n].method = "DELETE" /\ sent[n].framing # "length"))
      <4>1. sent[n].encoded => sent[n].body = 0
        BY <1>3 DEF Orderly
      <4> QED
        BY <1>1, <1>5, <3>2, <4>1 DEF Check, Answer
    <3> QED
      BY <3>1, <3>2
  <2>3. sent[n].body = 0 => Units(n, "body", sent[n].body) = << >>
    BY <1>3, BodyUnits
  <2>4. CASE stage' = "respond" /\ sent[n].body = 0
    BY <1>1, <2>1, <2>3, <2>4 DEF LeftOf
  <2>5. CASE stage' = "body" /\ need' = sent[n].body
    <3>1. Stream' = Units(n, "body", need)' /\ need' <= sent'[n].body
      BY <1>1, <1>3, <2>1, <2>5 DEF Units
    <3> QED
      BY <1>1, <2>1, <2>5, <3>1 DEF LeftOf
  <2> QED
    BY <2>2, <2>4, <2>5
<1> QED
  BY <1>4, <1>5

LEMMA LeftAnswer ==
  ASSUME ShapeInv, NEW n \in 1 .. MaxSent, n = Len(sent), LeftOf(n),
         BodyRead \/ TimeOut
  PROVE  LeftOf(n)'
<1>1. /\ stage \in {"dummy", "body"} /\ stage' = "respond"
      /\ UNCHANGED <<held, buf, socket, cur>>
  BY HeadersThere DEF BodyRead, TimeOut, Answer, client
<1>2. Stream = << >>
  <2>1. CASE TimeOut
    BY <2>1, ConcatEmptySeq, ShapeTypes DEF TimeOut, Silence, Stream
  <2>2. CASE BodyRead
    <3>1. 0 \in Nat /\ need = 0 /\ Stream = Units(n, "body", need)
      BY <2>2 DEF BodyRead, LeftOf
    <3> QED
      BY <3>1, BodyUnits
  <2> QED
    BY <2>1, <2>2
<1> QED
  BY <1>1, <1>2 DEF LeftOf, Stream

LEMMA LeftMove ==
  ASSUME ShapeInv, NEW n \in 1 .. MaxSent, n = Len(sent), LeftOf(n),
         NextRequest \/ Leave \/ Fill
  PROVE  LeftOf(n)'
<1>1. UNCHANGED <<sent, held, need>>
  BY DEF NextRequest, Leave, Fill, client
<1>2. LineOn(n)' = LineOn(n) /\ HeaderOn(n)' = HeaderOn(n) /\ EndOn(n)' = EndOn(n)
      /\ Unasked(n)' = Unasked(n) /\ Units(n, "body", need)' = Units(n, "body", need)
  BY <1>1 DEF LineOn, HeaderOn, EndOn, Unasked, Units
<1>3. CASE NextRequest
  <2>1. /\ stage = "await" /\ stage' = "line" /\ buf = << >> /\ buf' = << >>
        /\ socket' = socket
    BY <1>3 DEF NextRequest, LeftOf
  <2>2. Stream' = Stream
    BY <2>1 DEF Stream
  <2> QED
    BY <1>1, <1>2, <2>1, <2>2 DEF LeftOf
<1>4. CASE Leave
  BY <1>4 DEF Leave, LeftOf
<1>5. CASE Fill
  <2>1. Stream' = Stream /\ stage' = stage /\ stage # "await" /\ cur' = cur
    BY <1>5, ShapeFill DEF Fill, Reading
  <2> QED
    BY <1>1, <1>2, <2>1 DEF LeftOf
<1> QED
  BY <1>3, <1>4, <1>5

-----------------------------------------------------------------------------
(* The induction: orderly requests leave nothing behind, and so responses  *)
(* match the requests they answer.                                         *)

\* AnswersMatch, of every response given so far.
MatchInv ==
  \A k \in 1 .. Len(responses) :
    (\A i \in 1 .. k : i <= Len(sent) => Orderly(sent[i])) => responses[k].of = k

LEMMA TidyServe ==
  ASSUME ShapeInv, TidyInv, Serve, ~ Respond
  PROVE  TidyInv'
<1>1. UNCHANGED <<sent, responses>>
  BY DEF Serve, Respond, NextRequest, Leave, Fill, ReadLine, ReadHead, ReadDummy, Check,
         ReadBody, ReadOn, BodyRead, TimeOut, client
<1> SUFFICES ASSUME Tidy
             PROVE  /\ Len(responses) <= Len(sent)
                    /\ Len(responses) = Len(sent) => AllAnswered'
                    /\ Len(responses) < Len(sent) => LeftOf(Len(sent))'
  BY <1>1 DEF TidyInv, Tidy
<1>2. ASSUME Len(responses) = Len(sent) PROVE AllAnswered'
  <2>1. stage \in {"await", "closed"} /\ Stream = << >> /\ held = 0
    BY <1>2 DEF TidyInv, AllAnswered
  <2>2. buf = << >> /\ socket = << >>
    BY <2>1, ShapeTypes, EmptySeq, ConcatProperties, LenProperties DEF Stream
  <2>3. Leave
    BY <2>1, <2>2 DEF Serve, Respond, NextRequest, Leave, Fill, Reading, ReadLine, ReadHead,
       ReadDummy, Check, ReadBody, ReadOn, BodyRead, TimeOut, Silence
  <2> QED
    BY <2>1, <2>3 DEF Leave, AllAnswered, Stream, client
<1>3. ASSUME Len(responses) < Len(sent) PROVE LeftOf(Len(sent))'
  <2>1. PICK n : n = Len(sent)
    OBVIOUS
  <2>2. n \in 1 .. MaxSent /\ n \in 1 .. Len(sent)
    BY <1>3, <2>1, ShapeTypes, LenProperties
  <2>3. LeftOf(n) /\ Orderly(sent[n])
    BY <1>3, <2>1, <2>2 DEF TidyInv, Tidy
  <2>4. LeftOf(n)'
    BY <2>1, <2>2, <2>3, LeftRead, LeftCheck, LeftAnswer, LeftMove DEF Serve
  <2>5. Len(sent)' = n
    BY <1>1, <2>1
  <2> QED
    BY <2>4, <2>5
<1> QED
  BY <1>2, <1>3 DEF TidyInv

LEMMA TidyRespond ==
  ASSUME ShapeInv, TidyInv, MatchInv, Respond
  PROVE  TidyInv' /\ MatchInv'
<1> DEFINE a == [of |-> cur, status |-> status, close |-> AnnouncesClose]
<1>1. /\ stage = "respond" /\ responses' = Append(responses, a)
      /\ stage' \in {"await", "closed"}
      /\ UNCHANGED <<sent, held, buf, socket>>
  BY DEF Respond, client
<1>2. a.of = cur
  OBVIOUS
<1>3. /\ responses \in Seq(Response) /\ Len(responses) \in Nat /\ Len(sent) \in Nat
      /\ Len(sent) <= Len(responses) + 1
  BY ShapeTypes DEF ShapeInv, CountInv
<1>4. a \in Response
  <2>1. AnnouncesClose \in BOOLEAN
    BY DEF AnnouncesClose
  <2>2. cur \in 0 .. MaxSent /\ status \in Codes
    BY ShapeTypes, ExchangeAssumption DEF ShapeInv, TypeOK, Codes
  <2> QED
    BY <2>1, <2>2 DEF Response
<1> HIDE DEF a
<1>5. /\ Len(responses') = Len(responses) + 1
      /\ responses'[Len(responses) + 1] = a
      /\ \A k \in 1 .. Len(responses) : responses'[k] = responses[k]
  BY <1>1, <1>3, <1>4, AppendProperties
<1>6. ASSUME Tidy
      PROVE  /\ Len(sent) = Len(responses) + 1 /\ Stream = << >> /\ held = 0
             /\ cur = Len(sent)
  <2>1. Len(responses) < Len(sent)
    BY <1>1, <1>3, <1>6 DEF TidyInv, AllAnswered
  <2>2. LeftOf(Len(sent))
    BY <1>6, <2>1 DEF TidyInv
  <2> QED
    BY <1>1, <1>3, <2>1, <2>2 DEF LeftOf
<1>7. TidyInv'
  <2> SUFFICES ASSUME Tidy
               PROVE  /\ Len(responses') <= Len(sent)
                      /\ Len(responses') = Len(sent) => AllAnswered'
                      /\ ~ (Len(responses') < Len(sent))
    BY <1>1 DEF TidyInv, Tidy
  <2>1. AllAnswered'
    BY <1>1, <1>6 DEF AllAnswered, Stream
  <2> QED
    BY <1>3, <1>5, <1>6, <2>1
<1>8. ASSUME NEW k \in 1 .. Len(responses'),
             \A i \in 1 .. k : i <= Len(sent) => Orderly(sent[i])
      PROVE  responses'[k].of = k
  <2>1. CASE k \in 1 .. Len(responses)
    BY <1>5, <1>8, <2>1 DEF MatchInv
  <2>2. CASE k = Len(responses) + 1
    <3>1. \A i \in 1 .. Len(sent) : i \in 1 .. k /\ i <= Len(sent)
      BY <1>3, <2>2
    <3>2. Tidy
      BY <1>8, <3>1 DEF Tidy
    <3> QED
      BY <1>2, <1>5, <1>6, <2>2, <3>2
  <2> QED
    BY <1>3, <1>5, <2>1, <2>2
<1>9. MatchInv'
  BY <1>1, <1>8 DEF MatchInv
<1> QED
  BY <1>7, <1>9

WholeRequests ==
  \A k \in 1 .. MaxSent :
    sent[k] \in Request =>
      Head3(k) \o Unasked(k) = LineOn(k) /\ Unasked(k) \in Seq(Unit)

LEMMA RequestsWhole == WholeRequests
BY LeftTypes DEF WholeRequests

LEMMA TidySend ==
  ASSUME ShapeInv, TidyInv, MatchInv, NEW r \in Requests, Send(r)
  PROVE  TidyInv' /\ MatchInv'
<1> PICK n : n = Len(sent) + 1
  OBVIOUS
<1>1. /\ Len(sent) < MaxSent /\ Len(responses) >= Len(sent) /\ stage # "closed"
      /\ sent' = Append(sent, r)
      /\ socket' = (socket \o Head3(n))
                     \o (IF r.expect THEN << >> ELSE Units(n, "body", r.body))
      /\ held' = IF r.expect THEN r.body ELSE 0
      /\ UNCHANGED <<buf, stage, responses>>
  BY DEF Send
<1>2. /\ sent \in Seq(Requests) /\ Len(sent) \in Nat /\ Len(responses) \in Nat
      /\ MaxSent \in Nat /\ socket \in Seq(Unit) /\ buf \in Seq(Unit)
  BY ShapeTypes, ExchangeAssumption
<1>3. /\ n \in 1 .. MaxSent /\ Len(sent') = n /\ sent'[n] = r
      /\ \A k \in 1 .. Len(sent) : sent'[k] = sent[k]
  BY <1>1, <1>2, AppendProperties
<1>4. sent'[n] \in Request
  BY <1>3, ExchangeAssumption
<1>5. Tidy' => Tidy
  BY <1>2, <1>3 DEF Tidy
<1>6. TidyInv'
  <2> SUFFICES ASSUME Tidy'
               PROVE  Len(responses) < n /\ LeftOf(n)'
    BY <1>1, <1>2, <1>3 DEF TidyInv
  <2>1. Len(responses) = Len(sent) /\ AllAnswered
    BY <1>1, <1>2, <1>5 DEF TidyInv
  <2>2. stage = "await" /\ Stream = << >>
    BY <1>1, <2>1 DEF AllAnswered
  <2>3. buf = << >> /\ socket = << >>
    BY <2>2, ShapeTypes, EmptySeq, ConcatProperties, LenProperties DEF Stream
  <2>4. Head3(n) \in Seq(Unit)
    BY <1>3, Head3Type
  <2>5. << >> \o Head3(n) = Head3(n)
    BY <2>4, ConcatEmptySeq
  <2>6. socket' = Head3(n) \o Unasked(n)'
    BY <1>1, <1>3, <2>3, <2>5 DEF Unasked, Units
  <2>7. Head3(n) \o Unasked(n)' = LineOn(n)' /\ Unasked(n)' \in Seq(Unit)
    <3>1. WholeRequests'
      BY RequestsWhole, PTL
    <3>2. (Head3(n) \o Unasked(n) = LineOn(n))' /\ (Unasked(n) \in Seq(Unit))'
      BY <1>3, <1>4, <3>1 DEF WholeRequests
    <3> QED
      BY <3>2 DEF Head3, Units, Unit
  <2>8. Head3(n) \o Unasked(n)' \in Seq(Unit)
    BY <2>4, <2>7, ConcatProperties
  <2>9. Stream' = LineOn(n)'
    BY <1>1, <2>3, <2>6, <2>7, <2>8, ConcatEmptySeq DEF Stream
  <2> QED
    BY <1>1, <1>2, <1>3, <2>1, <2>2, <2>3, <2>9 DEF LeftOf
<1>7. ASSUME NEW k \in 1 .. Len(responses),
             \A i \in 1 .. k : i <= Len(sent') => Orderly(sent'[i])
      PROVE  responses[k].of = k
  <2>1. \A i \in 1 .. k : i <= Len(sent) => Orderly(sent[i])
    <3> SUFFICES ASSUME NEW i \in 1 .. k, i <= Len(sent) PROVE Orderly(sent[i])
      OBVIOUS
    <3>1. i \in 1 .. Len(sent) /\ i <= Len(sent')
      BY <1>2, <1>3
    <3> QED
      BY <1>3, <1>7, <3>1
  <2> QED
    BY <2>1 DEF MatchInv
<1>8. MatchInv'
  BY <1>1, <1>7 DEF MatchInv
<1> QED
  BY <1>6, <1>8

LEMMA TidyStep ==
  ASSUME ShapeInv, TidyInv, MatchInv, [Next]_vars
  PROVE  TidyInv' /\ MatchInv'
<1>1. CASE Serve /\ ~ Respond
  <2>1. UNCHANGED <<sent, responses>>
    BY <1>1 DEF Serve, Respond, NextRequest, Leave, Fill, ReadLine, ReadHead, ReadDummy,
       Check, ReadBody, ReadOn, BodyRead, TimeOut, client
  <2> QED
    BY <1>1, <2>1, TidyServe DEF MatchInv
<1>2. CASE Respond
  BY <1>2, TidyRespond
<1>3. CASE \E r \in Requests : Send(r)
  BY <1>3, TidySend
<1>4. CASE UNCHANGED vars
  <2>1. \A n : LeftOf(n)' <=> LeftOf(n)
    BY <1>4 DEF vars, LeftOf, LineOn, HeaderOn, EndOn, Unasked, Units, Stream
  <2> QED
    BY <1>4, <2>1 DEF vars, TidyInv, Tidy, AllAnswered, MatchInv, Stream
<1> QED
  BY <1>1, <1>2, <1>3, <1>4 DEF Next, Serve

\* AnswersMatch holds for any requests, cut into any pieces: as long as
\* requests are orderly, the k-th response answers the k-th request.
THEOREM ResponsesMatch == Spec => []AnswersMatch
<1>1. Init => TidyInv /\ MatchInv
  <2> SUFFICES ASSUME Init PROVE TidyInv /\ MatchInv
    OBVIOUS
  <2>1. /\ stage = "await" /\ held = 0 /\ Len(responses) = 0 /\ Len(sent) = 0
        /\ Stream = << >>
    BY EmptySeq, ConcatEmptySeq DEF Init, Stream
  <2> QED
    BY <2>1 DEF TidyInv, AllAnswered, MatchInv
<1>2. ShapeInv /\ MatchInv => AnswersMatch
  <2> SUFFICES ASSUME ShapeInv, MatchInv PROVE AnswersMatch
    OBVIOUS
  <2>1. DOMAIN responses = 1 .. Len(responses)
    BY ShapeTypes, LenProperties
  <2> QED
    BY <2>1 DEF MatchInv, AnswersMatch
<1>3. ShapeInv /\ TidyInv /\ MatchInv /\ [Next]_vars => TidyInv' /\ MatchInv'
  BY TidyStep
<1> QED
  BY <1>1, <1>2, <1>3, ShapeInit, ShapeStep, PTL DEF Spec

-----------------------------------------------------------------------------
(* The module of the writer has FlattenSeq under a name of its own. *)

LEMMA SameFlatten == \A s : Writer!FlattenSeq(s) = Seqs!FlattenSeq(s)
BY DEF Writer!FlattenSeq, Seqs!FlattenSeq

-----------------------------------------------------------------------------
(* The responses, and what is sent of them. *)

Piece == [of : Nat, part : {"head", "body"}, unit : Nat]

Pieces(k, part, n) == [ i \in 1 .. n |-> [of |-> k, part |-> part, unit |-> i] ]

\* The response to the k-th request, and those to the first n of them.
Due(k) == Pieces(k, "head", Heads) \o Pieces(k, "body", Bodies)

FirstDue(n) == Writer!FlattenSeq([ k \in 1 .. n |-> Due(k) ])

Answers(k) == k * (Heads + Bodies)

\* t begins with s.
Starts(s, t) == Len(s) <= Len(t) /\ \A i \in 1 .. Len(s) : s[i] = t[i]

LEMMA Sizes ==
  /\ Heads \in Nat /\ Bodies \in Nat /\ MaxResponses \in Nat
  /\ Heads > 0 /\ Bodies > 0
BY SizesAssumption DEF Writer!WriterAssumption

LEMMA AnswersNext ==
  ASSUME NEW n \in Nat
  PROVE  Answers(n) \in Nat /\ Answers(n + 1) = Answers(n) + (Heads + Bodies)
<1> DEFINE L == Heads + Bodies
<1>1. L \in Nat
  BY Sizes
<1> HIDE DEF L
<1>2. n * L \in Nat /\ (n + 1) * L = n * L + L
  BY <1>1
<1> QED
  BY <1>2 DEF Answers, L

LEMMA AnswersGrow ==
  ASSUME NEW m \in Nat, NEW n \in Nat, m <= n
  PROVE  Answers(m) <= Answers(n)
<1> DEFINE L == Heads + Bodies
<1>1. L \in Nat
  BY Sizes
<1> HIDE DEF L
<1>2. PICK d \in Nat : n = m + d
  <2>1. n - m \in Nat /\ n = m + (n - m)
    OBVIOUS
  <2> QED
    BY <2>1
<1>3. m * L \in Nat /\ d * L \in Nat /\ (m + d) * L = m * L + d * L
  BY <1>1
<1>4. m * L <= n * L
  <2> DEFINE x == m * L
             y == d * L
             z == (m + d) * L
  <2>1. x \in Nat /\ y \in Nat /\ z = x + y
    BY <1>3
  <2> HIDE DEF x, y, z
  <2>2. x <= z
    BY <2>1
  <2> QED
    BY <1>2, <2>2 DEF x, z
<1> QED
  BY <1>4 DEF Answers, L

LEMMA PiecesType ==
  ASSUME NEW k \in Nat, NEW part \in {"head", "body"}, NEW n \in Nat
  PROVE  /\ Pieces(k, part, n) \in Seq(Piece) /\ Len(Pieces(k, part, n)) = n
         /\ \A i \in 1 .. n :
              Pieces(k, part, n)[i] = [of |-> k, part |-> part, unit |-> i]
<1>1. \A i \in 1 .. n : [of |-> k, part |-> part, unit |-> i] \in Piece
  BY DEF Piece
<1>2. Pieces(k, part, n) \in [1 .. n -> Piece]
  BY <1>1 DEF Pieces
<1>3. Pieces(k, part, n) \in Seq(Piece)
  BY <1>2, SeqDef
<1>4. DOMAIN Pieces(k, part, n) = 1 .. n
  BY DEF Pieces
<1>5. Len(Pieces(k, part, n)) = n
  BY <1>3, <1>4, LenProperties
<1> QED
  BY <1>3, <1>5 DEF Pieces

LEMMA DueType ==
  ASSUME NEW k \in Nat
  PROVE  /\ Due(k) \in Seq(Piece) /\ Len(Due(k)) = Heads + Bodies
         /\ \A i \in 1 .. Heads :
              Due(k)[i] = [of |-> k, part |-> "head", unit |-> i]
         /\ \A i \in 1 .. Bodies :
              Due(k)[Heads + i] = [of |-> k, part |-> "body", unit |-> i]
<1> DEFINE h == Pieces(k, "head", Heads)
           b == Pieces(k, "body", Bodies)
<1>1. h \in Seq(Piece) /\ Len(h) = Heads /\ b \in Seq(Piece) /\ Len(b) = Bodies
  BY Sizes, PiecesType
<1>2. /\ \A i \in 1 .. Heads : h[i] = [of |-> k, part |-> "head", unit |-> i]
      /\ \A i \in 1 .. Bodies : b[i] = [of |-> k, part |-> "body", unit |-> i]
  BY Sizes, PiecesType
<1>3. Due(k) = h \o b
  BY DEF Due
<1> HIDE DEF h, b
<1>4. /\ h \o b \in Seq(Piece) /\ Len(h \o b) = Heads + Bodies
      /\ \A i \in 1 .. Heads + Bodies :
           (h \o b)[i] = IF i <= Heads THEN h[i] ELSE b[i - Heads]
  BY <1>1, ConcatProperties
<1>5. \A i \in 1 .. Heads : i \in 1 .. Heads + Bodies /\ i <= Heads
  BY Sizes
<1>6. \A i \in 1 .. Bodies : /\ Heads + i \in 1 .. Heads + Bodies
                            /\ ~ (Heads + i <= Heads) /\ (Heads + i) - Heads = i
  BY Sizes
<1> QED
  BY <1>2, <1>3, <1>4, <1>5, <1>6

LEMMA DuesType ==
  ASSUME NEW n \in Nat
  PROVE  /\ [ k \in 1 .. n |-> Due(k) ] \in Seq(Seq(Piece))
         /\ Len([ k \in 1 .. n |-> Due(k) ]) = n
<1> DEFINE s == [ k \in 1 .. n |-> Due(k) ]
<1>1. \A k \in 1 .. n : Due(k) \in Seq(Piece)
  BY DueType
<1>2. s \in [1 .. n -> Seq(Piece)] /\ DOMAIN s = 1 .. n
  BY <1>1
<1> HIDE DEF s
<1>3. s \in Seq(Seq(Piece))
  BY <1>2, SeqDef
<1>4. Len(s) = n
  BY <1>2, <1>3, LenProperties
<1> QED
  BY <1>3, <1>4 DEF s

LEMMA FirstDueType ==
  ASSUME NEW n \in Nat
  PROVE  FirstDue(n) \in Seq(Piece)
BY DuesType, FlattenType, SameFlatten DEF FirstDue

LEMMA FirstDueNone == FirstDue(0) = << >>
<1> DEFINE s == [ k \in 1 .. 0 |-> Due(k) ]
<1>1. s \in Seq(Seq(Piece)) /\ Len(s) = 0
  BY DuesType
<1> HIDE DEF s
<1>2. s = << >>
  BY <1>1, EmptySeq, LenProperties
<1>3. Writer!FlattenSeq(s) = << >>
  BY <1>1, <1>2 DEF Writer!FlattenSeq
<1> QED
  BY <1>3 DEF FirstDue, s

LEMMA FirstDueNext ==
  ASSUME NEW n \in Nat
  PROVE  FirstDue(n + 1) = FirstDue(n) \o Due(n + 1)
<1> DEFINE s == [ k \in 1 .. n |-> Due(k) ]
           t == [ k \in 1 .. n + 1 |-> Due(k) ]
<1>1. s \in Seq(Seq(Piece)) /\ Len(s) = n
  BY DuesType
<1>2. t \in Seq(Seq(Piece)) /\ Len(t) = n + 1
  BY DuesType
<1>3. /\ \A i \in 1 .. n : t[i] = s[i]
      /\ t[n + 1] = Due(n + 1)
  OBVIOUS
<1> HIDE DEF s, t
<1>4. Writer!FlattenSeq(t) = Writer!FlattenSeq(s) \o t[Len(t)]
  <2>1. Len(t) = Len(s) + 1 /\ \A i \in 1 .. Len(s) : t[i] = s[i]
    BY <1>1, <1>2, <1>3
  <2> QED
    BY <1>1, <1>2, <2>1, FlattenLonger, SameFlatten
<1> QED
  BY <1>2, <1>3, <1>4 DEF FirstDue, s, t

LEMMA FirstDueLength ==
  ASSUME NEW n \in Nat
  PROVE  Len(FirstDue(n)) = Answers(n)
<1> DEFINE T == { i \in Nat : Len(FirstDue(i)) # Answers(i) }
<1>1. SUFFICES ASSUME T # {} PROVE FALSE
  OBVIOUS
<1>2. PICK i \in T : \A y \in T : i <= y
  <2> HIDE DEF T
  <2>1. T \in SUBSET Nat
    BY DEF T
  <2> QED
    BY <1>1, <2>1, LeastOne
<1>3. i \in Nat /\ Len(FirstDue(i)) # Answers(i)
  OBVIOUS
<1>4. i # 0
  <2>1. Answers(0) = 0
    BY Sizes DEF Answers
  <2>2. Len(FirstDue(0)) = 0
    BY FirstDueNone, EmptySeq
  <2> QED
    BY <1>3, <2>1, <2>2
<1> DEFINE j == i - 1
<1>5. j \in Nat /\ i = j + 1 /\ ~ (i <= j)
  BY <1>3, <1>4
<1>6. Len(FirstDue(j)) = Answers(j)
  BY <1>2, <1>5
<1> HIDE DEF j
<1>7. /\ FirstDue(i) = FirstDue(j) \o Due(i)
      /\ FirstDue(j) \in Seq(Piece) /\ Due(i) \in Seq(Piece)
      /\ Len(Due(i)) = Heads + Bodies
  BY <1>3, <1>5, FirstDueNext, FirstDueType, DueType
<1>8. Len(FirstDue(i)) = Len(FirstDue(j)) + (Heads + Bodies)
  BY <1>7, ConcatProperties
<1>9. Answers(i) = Answers(j) + (Heads + Bodies)
  BY <1>5, AnswersNext
<1> QED
  BY <1>3, <1>6, <1>8, <1>9

\* What begins the first n responses begins the first n + 1.
LEMMA StartsNext ==
  ASSUME NEW n \in Nat, NEW s \in Seq(Piece), Starts(s, FirstDue(n))
  PROVE  Starts(s, FirstDue(n + 1))
<1> DEFINE t == FirstDue(n)
           u == Due(n + 1)
           w == FirstDue(n + 1)
           N == Len(s)
           M == Len(t)
<1>1. t \in Seq(Piece) /\ u \in Seq(Piece) /\ w = t \o u
  <2>1. n + 1 \in Nat
    OBVIOUS
  <2>2. Due(n + 1) \in Seq(Piece)
    BY <2>1, DueType
  <2> QED
    BY <2>2, FirstDueType, FirstDueNext
<1>2. N <= M /\ N \in Nat /\ M \in Nat /\ \A i \in 1 .. N : s[i] = t[i]
  BY <1>1, LenProperties DEF Starts
<1>3. Len(u) \in Nat
  BY <1>1, LenProperties
<1> HIDE DEF t, u
<1> HIDE DEF w
<1>4. /\ Len(w) = M + Len(u)
      /\ \A i \in 1 .. M + Len(u) : w[i] = IF i <= M THEN t[i] ELSE u[i - M]
  BY <1>1, ConcatProperties
<1> HIDE DEF N, M
<1>5. N <= M + Len(u) /\ \A i \in 1 .. N : i \in 1 .. M + Len(u) /\ i <= M
  BY <1>2, <1>3
<1>6. \A i \in 1 .. N : s[i] = w[i]
  BY <1>2, <1>4, <1>5
<1> QED
  BY <1>4, <1>5, <1>6 DEF Starts, N, w

\* The next units of the n-th response continue what is sent.
LEMMA StartsLonger ==
  ASSUME NEW n \in Nat, n > 0, NEW p \in Nat, NEW s \in Seq(Piece),
         Starts(s, FirstDue(n)), Len(s) = Answers(n - 1) + p,
         NEW u \in Seq(Piece), p + Len(u) <= Heads + Bodies,
         \A i \in 1 .. Len(u) : u[i] = Due(n)[p + i]
  PROVE  Starts(s \o u, FirstDue(n))
<1> DEFINE j == n - 1
           t == FirstDue(j)
           d == Due(n)
           A == Answers(j)
           L == Heads + Bodies
           N == Len(u)
           w == FirstDue(n)
           v == s \o u
<1>1. j \in Nat /\ n = j + 1
  OBVIOUS
<1>2. t \in Seq(Piece) /\ d \in Seq(Piece) /\ w = t \o d
      /\ Len(t) = A /\ Len(d) = L
  BY <1>1, FirstDueType, DueType, FirstDueNext, FirstDueLength
<1>3. A \in Nat /\ L \in Nat /\ N \in Nat
  BY <1>1, AnswersNext, Sizes, LenProperties
<1>4. Len(s) = A + p /\ p + N <= L /\ \A i \in 1 .. N : u[i] = d[p + i]
  OBVIOUS
<1>10. Starts(s, w) /\ v = s \o u
  OBVIOUS
<1> HIDE DEF j, t, d, A, L, w, v
<1>5. /\ Len(w) = A + L
      /\ \A i \in 1 .. A + L : w[i] = IF i <= A THEN t[i] ELSE d[i - A]
  BY <1>2, ConcatProperties
<1>6. /\ Len(v) = (A + p) + N
      /\ \A i \in 1 .. (A + p) + N :
           v[i] = IF i <= A + p THEN s[i] ELSE u[i - (A + p)]
  <2>1. /\ Len(v) = Len(s) + Len(u)
        /\ \A i \in 1 .. Len(s) + Len(u) :
             v[i] = IF i <= Len(s) THEN s[i] ELSE u[i - Len(s)]
    BY <1>10, ConcatProperties
  <2> QED
    BY <1>4, <2>1
<1>7. \A i \in 1 .. A + p : s[i] = w[i]
  BY <1>4, <1>10 DEF Starts
<1> HIDE DEF N
<1>8. ASSUME NEW i \in 1 .. (A + p) + N
      PROVE  v[i] = w[i]
  <2>1. CASE i <= A + p
    <3>1. i \in 1 .. A + p
      BY <1>3, <2>1
    <3> QED
      BY <1>6, <1>7, <2>1, <3>1
  <2>2. CASE ~ (i <= A + p)
    <3> DEFINE k == i - (A + p)
    <3>1. k \in 1 .. N /\ i \in 1 .. A + L /\ ~ (i <= A) /\ i - A = p + k
      BY <1>3, <1>4, <2>2
    <3>2. v[i] = u[k]
      BY <1>6, <2>2
    <3>3. w[i] = d[p + k]
      BY <1>5, <3>1
    <3> HIDE DEF k
    <3> QED
      BY <1>4, <3>1, <3>2, <3>3
  <2> QED
    BY <2>1, <2>2
<1>9. (A + p) + N <= A + L
  BY <1>3, <1>4
<1> QED
  BY <1>5, <1>6, <1>8, <1>9 DEF Starts, w, v

-----------------------------------------------------------------------------
(* The invariant. *)

Alive == peer = "open" \/ (peer = "shut" /\ asked > nth)

WriterInv ==
  /\ writing \in {"await", "head", "body", "closed"}
  /\ nth \in Nat /\ asked \in 0 .. MaxResponses /\ nth <= asked /\ asked <= nth + 1
  /\ offset \in 0 .. (Heads + Bodies)
  /\ writing = "head" => nth > 0 /\ offset < Heads
  /\ writing = "body" => nth > 0 /\ offset < Bodies
  /\ stalled \in {"no", "body", "head"}
  /\ peer \in {"open", "shut", "gone"}
  /\ out \in Seq(Piece) /\ read \in 0 .. Len(out)

\* How much is sent if nothing fails.
Upto ==
  CASE writing = "head" -> Answers(nth - 1) + offset
    [] writing = "body" -> Answers(nth - 1) + (Heads + offset)
    [] OTHER -> Answers(nth)

\* What is sent begins the responses due, up to where the writer is, or less
\* if the client was lost or a response given up.
OutInv ==
  /\ Len(out) <= Upto
  /\ stalled # "head" =>
       /\ Starts(out, FirstDue(nth))
       /\ writing \in {"head", "await"} \/ (writing = "body" /\ Alive) => Len(out) = Upto
  /\ stalled = "no" /\ peer = "open" /\ writing = "closed" => Len(out) = Upto

LEMMA UptoType ==
  ASSUME WriterInv
  PROVE  Upto \in Nat
<1>1. nth > 0 => Answers(nth - 1) \in Nat
  <2>1. nth > 0 => nth - 1 \in Nat
    BY DEF WriterInv
  <2> QED
    BY <2>1, AnswersNext
<1>2. Answers(nth) \in Nat
  BY AnswersNext DEF WriterInv
<1>3. Heads \in Nat /\ offset \in Nat
  BY Sizes DEF WriterInv
<1> QED
  BY <1>1, <1>2, <1>3 DEF WriterInv, Upto

LEMMA OutInit == Writer!WriterInit => WriterInv /\ OutInv
<1> SUFFICES ASSUME Writer!WriterInit PROVE WriterInv /\ OutInv
  OBVIOUS
<1>1. out \in Seq(Piece) /\ Len(out) = 0
  <2>1. out = << >>
    BY DEF Writer!WriterInit
  <2> QED
    BY <2>1, EmptySeq
<1>2. WriterInv
  BY <1>1, Sizes DEF WriterInv, Writer!WriterInit
<1>3. Upto = 0
  BY Sizes DEF Upto, Answers, Writer!WriterInit
<1>4. Starts(out, FirstDue(nth))
  BY <1>1, FirstDueNone DEF Starts, Writer!WriterInit
<1> QED
  BY <1>1, <1>2, <1>3, <1>4 DEF OutInv, Writer!WriterInit

LEMMA OutClient ==
  ASSUME WriterInv, OutInv,
         Writer!Ask \/ Writer!Read \/ Writer!Shut \/ Writer!GoAway
  PROVE  WriterInv' /\ OutInv'
<1>1. UNCHANGED <<writing, nth, offset, stalled, out>>
  BY DEF Writer!Ask, Writer!Read, Writer!Shut, Writer!GoAway, Writer!server
<1>2. Upto' = Upto
  BY <1>1 DEF Upto, Answers
<1>3. Starts(out, FirstDue(nth))' <=> Starts(out, FirstDue(nth))
  <2>1. PICK s, n : s = out /\ n = nth /\ s = out' /\ n = nth'
    BY <1>1
  <2> QED
    BY <2>1 DEF Starts, FirstDue, Due, Pieces
<1>4. Alive' => Alive
  BY <1>1 DEF Alive, WriterInv, Writer!Ask, Writer!Read, Writer!Shut, Writer!GoAway,
     Writer!server
<1>5. peer' = "open" => peer = "open"
  BY DEF Writer!Ask, Writer!Read, Writer!Shut, Writer!GoAway
<1>6. OutInv'
  BY <1>1, <1>2, <1>3, <1>4, <1>5 DEF OutInv
<1>7. Len(out) \in Nat
  BY LenProperties DEF WriterInv
<1>8. WriterInv'
  BY <1>1, <1>7, Sizes DEF WriterInv, Writer!Ask, Writer!Read, Writer!Shut, Writer!GoAway,
     Writer!server
<1> QED
  BY <1>6, <1>8

LEMMA SentUnits ==
  ASSUME WriterInv, NEW part \in {"head", "body"}, NEW n \in Nat
  PROVE  /\ Writer!Units(part, n) \in Seq(Piece) /\ Len(Writer!Units(part, n)) = n
         /\ \A i \in 1 .. n :
              Writer!Units(part, n)[i] = [of |-> nth, part |-> part, unit |-> offset + i]
<1> DEFINE u == Writer!Units(part, n)
<1>1. nth \in Nat /\ offset \in Nat
  BY Sizes DEF WriterInv
<1>2. \A i \in 1 .. n : [of |-> nth, part |-> part, unit |-> offset + i] \in Piece
  BY <1>1 DEF Piece
<1>3. u = [ i \in 1 .. n |-> [of |-> nth, part |-> part, unit |-> offset + i] ]
  BY DEF Writer!Units
<1> HIDE DEF u
<1>4. u \in [1 .. n -> Piece] /\ DOMAIN u = 1 .. n
  BY <1>2, <1>3
<1>5. u \in Seq(Piece)
  BY <1>4, SeqDef
<1>6. Len(u) = n
  BY <1>4, <1>5, LenProperties
<1> QED
  BY <1>3, <1>5, <1>6 DEF u

LEMMA StillAlive == Writer!IsSocketAlive <=> Alive
BY DEF Writer!IsSocketAlive, Alive

\* What a write that goes through adds.
LEMMA Written ==
  ASSUME WriterInv, OutInv, NEW n \in Nat, n > 0,
         NEW part \in {"head", "body"}, writing = part,
         offset + n <= IF part = "head" THEN Heads ELSE Bodies,
         Writer!Writes(part, n)
  PROVE  /\ out' \in Seq(Piece) /\ Len(out') = Len(out) + n
         /\ stalled # "head" => Starts(out', FirstDue(nth)) /\ Len(out) = Upto
<1> DEFINE u == Writer!Units(part, n)
           p == IF part = "head" THEN offset ELSE Heads + offset
<1>1. u \in Seq(Piece) /\ Len(u) = n
      /\ \A i \in 1 .. n : u[i] = [of |-> nth, part |-> part, unit |-> offset + i]
  BY SentUnits
<1>2. out' = out \o u /\ Alive
  BY StillAlive DEF Writer!Writes
<1>3. out \in Seq(Piece) /\ nth \in Nat /\ nth > 0 /\ offset \in Nat
  BY Sizes DEF WriterInv
<1>4. p \in Nat /\ p + n <= Heads + Bodies
  BY <1>3, Sizes
<1> HIDE DEF u
<1>5. out' \in Seq(Piece) /\ Len(out') = Len(out) + n
  BY <1>1, <1>2, <1>3, ConcatProperties
<1>6. ASSUME stalled # "head"
      PROVE  Starts(out', FirstDue(nth)) /\ Len(out) = Upto
  <2>1. Len(out) = Upto /\ Starts(out, FirstDue(nth))
    BY <1>2, <1>6 DEF OutInv
  <2>2. Len(out) = Answers(nth - 1) + p
    BY <2>1 DEF Upto
  <2>3. ASSUME NEW i \in 1 .. n
        PROVE  u[i] = Due(nth)[p + i]
    <3>1. CASE part = "head"
      <4>1. p + i = offset + i /\ offset + i \in 1 .. Heads
        BY <1>3, <3>1, Sizes
      <4>2. Due(nth)[offset + i] = [of |-> nth, part |-> "head", unit |-> offset + i]
        BY <1>3, <4>1, DueType
      <4> QED
        BY <1>1, <3>1, <4>1, <4>2
    <3>2. CASE part = "body"
      <4>1. p + i = Heads + (offset + i) /\ offset + i \in 1 .. Bodies
        BY <1>3, <3>2, Sizes
      <4>2. Due(nth)[Heads + (offset + i)]
              = [of |-> nth, part |-> "body", unit |-> offset + i]
        BY <1>3, <4>1, DueType
      <4> QED
        BY <1>1, <3>2, <4>1, <4>2
    <3> QED
      BY <3>1, <3>2
  <2> HIDE DEF p
  <2>4. p + Len(u) <= Heads + Bodies /\ \A i \in 1 .. Len(u) : u[i] = Due(nth)[p + i]
    BY <1>1, <1>4, <2>3
  <2>5. Starts(out \o u, FirstDue(nth))
    BY <1>1, <1>3, <1>4, <2>1, <2>2, <2>4, StartsLonger
  <2> QED
    BY <1>2, <2>1, <2>5
<1> QED
  BY <1>5, <1>6

LEMMA OutStep ==
  ASSUME WriterInv, OutInv, Writer!WriteHead \/ Writer!WriteBody
  PROVE  WriterInv' /\ OutInv'
<1>1. UNCHANGED <<nth, stalled, read, asked, peer>>
  BY DEF Writer!WriteHead, Writer!WriteBody, Writer!client
<1>2. Alive' <=> Alive
  BY <1>1 DEF Alive
<1>3. FirstDue(nth)' = FirstDue(nth)
  BY <1>1 DEF FirstDue, Due, Pieces
<1> DEFINE A == Answers(nth - 1)
<1>4. nth > 0 => A \in Nat /\ Answers(nth) = A + (Heads + Bodies)
  <2>1. nth > 0 => nth - 1 \in Nat /\ (nth - 1) + 1 = nth
    BY DEF WriterInv
  <2> QED
    BY <2>1, AnswersNext
<1>5. A' = A /\ Answers(nth)' = Answers(nth)
  BY <1>1 DEF Answers
<1> HIDE DEF A
<1>6. CASE Writer!WriteHead
  <2>1. writing = "head" /\ nth > 0 /\ offset \in Nat /\ offset < Heads
    BY <1>6, Sizes DEF Writer!WriteHead, WriterInv
  <2>2. PICK n \in 1 .. (Heads - offset) :
          /\ Writer!Writes("head", n)
          /\ IF offset + n = Heads THEN writing' = "body" /\ offset' = 0
             ELSE writing' = "head" /\ offset' = offset + n
    BY <1>6 DEF Writer!WriteHead
  <2>3. n \in Nat /\ n > 0 /\ offset + n <= Heads
    BY <2>1, Sizes
  <2>4. /\ out' \in Seq(Piece) /\ Len(out') = Len(out) + n
        /\ stalled # "head" => Starts(out', FirstDue(nth)) /\ Len(out) = Upto
    BY <2>1, <2>2, <2>3, Written
  <2>5. Upto = A + offset /\ Upto' = A + (offset + n)
    BY <1>4, <1>5, <2>1, <2>2, <2>3, Sizes DEF Upto, A
  <2>6. Len(out) \in Nat
    BY LenProperties DEF WriterInv
  <2>7. WriterInv'
    BY <1>1, <2>1, <2>2, <2>3, <2>4, <2>6, Sizes DEF WriterInv
  <2>8. Starts(out, FirstDue(nth))' <=> Starts(out', FirstDue(nth))
    BY <1>3 DEF Starts
  <2>9. OutInv'
    BY <1>1, <1>4, <2>1, <2>2, <2>3, <2>4, <2>5, <2>6, <2>8 DEF OutInv
  <2> QED
    BY <2>7, <2>9
<1>7. CASE Writer!WriteBody
  <2>1. writing = "body" /\ nth > 0 /\ offset \in Nat /\ offset < Bodies
    BY <1>7, Sizes DEF Writer!WriteBody, WriterInv
  <2>2. PICK n \in 1 .. (Bodies - offset) :
          /\ Writer!Writes("body", n)
          /\ offset' = offset + n
          /\ writing' = IF offset + n = Bodies THEN "await" ELSE "body"
    BY <1>7 DEF Writer!WriteBody
  <2>3. n \in Nat /\ n > 0 /\ offset + n <= Bodies
    BY <2>1, Sizes
  <2>4. /\ out' \in Seq(Piece) /\ Len(out') = Len(out) + n
        /\ stalled # "head" => Starts(out', FirstDue(nth)) /\ Len(out) = Upto
    BY <2>1, <2>2, <2>3, Written
  <2>5. Upto = A + (Heads + offset) /\ Upto' = A + (Heads + (offset + n))
    BY <1>4, <1>5, <2>1, <2>2, <2>3, Sizes DEF Upto, A
  <2>6. Len(out) \in Nat
    BY LenProperties DEF WriterInv
  <2>7. WriterInv'
    BY <1>1, <2>1, <2>2, <2>3, <2>4, <2>6, Sizes DEF WriterInv
  <2>8. Starts(out, FirstDue(nth))' <=> Starts(out', FirstDue(nth))
    BY <1>3 DEF Starts
  <2>9. OutInv'
    BY <1>1, <1>4, <2>1, <2>2, <2>3, <2>4, <2>5, <2>6, <2>8, Sizes DEF OutInv
  <2> QED
    BY <2>7, <2>9
<1> QED
  BY <1>6, <1>7

LEMMA OutOther ==
  ASSUME WriterInv, OutInv,
         Writer!NextRequest \/ Writer!Leave \/ Writer!HeadFails \/ Writer!BodyFails
  PROVE  WriterInv' /\ OutInv'
<1>1. UNCHANGED <<out, read, asked, peer>>
  BY DEF Writer!NextRequest, Writer!Leave, Writer!HeadFails, Writer!BodyFails,
     Writer!client
<1> DEFINE A == Answers(nth - 1)
<1>2. nth > 0 => A \in Nat /\ Answers(nth) = A + (Heads + Bodies)
  <2>1. nth > 0 => nth - 1 \in Nat /\ (nth - 1) + 1 = nth
    BY DEF WriterInv
  <2> QED
    BY <2>1, AnswersNext
<1>3. /\ Len(out) \in Nat /\ out \in Seq(Piece) /\ nth \in Nat /\ Answers(nth) \in Nat
      /\ offset \in Nat
  <2>1. out \in Seq(Piece) /\ nth \in Nat /\ offset \in Nat
    BY Sizes DEF WriterInv
  <2>2. Answers(nth) \in Nat
    BY <2>1, AnswersNext
  <2> QED
    BY <2>1, <2>2, LenProperties
<1>4. CASE Writer!NextRequest
  <2>1. /\ writing = "await" /\ asked > nth /\ writing' = "head" /\ nth' = nth + 1
        /\ offset' = 0 /\ stalled' = stalled
    BY <1>4 DEF Writer!NextRequest
  <2>2. WriterInv'
    BY <1>1, <1>3, <2>1, Sizes DEF WriterInv
  <2>3. Upto = Answers(nth) /\ Upto' = Answers(nth)
    <3>1. Upto = Answers(nth)
      BY <2>1 DEF Upto
    <3>2. Upto' = Answers(nth' - 1) + 0
      BY <2>1 DEF Upto, Answers
    <3>3. nth' - 1 = nth
      BY <1>3, <2>1
    <3> QED
      BY <1>3, <3>1, <3>2, <3>3
  <2>4. stalled # "head" => Starts(out, FirstDue(nth))'
    <3>1. stalled # "head" => Starts(out, FirstDue(nth + 1))
      BY <1>3, StartsNext DEF OutInv
    <3>2. FirstDue(nth)' = FirstDue(nth + 1)
      BY <2>1 DEF FirstDue, Due, Pieces
    <3> QED
      BY <1>1, <3>1, <3>2 DEF Starts
  <2>5. OutInv'
    BY <1>1, <2>1, <2>3, <2>4 DEF OutInv
  <2> QED
    BY <2>2, <2>5
<1>5. ASSUME nth' = nth
      PROVE  Starts(out, FirstDue(nth))' <=> Starts(out, FirstDue(nth))
  <2>1. FirstDue(nth)' = FirstDue(nth)
    BY <1>5 DEF FirstDue, Due, Pieces
  <2> QED
    BY <1>1, <2>1 DEF Starts
<1>6. ASSUME nth' = nth
      PROVE  A' = A /\ Answers(nth)' = Answers(nth) /\ (Alive' <=> Alive)
  BY <1>1, <1>6 DEF Answers, Alive
<1> HIDE DEF A
<1>7. CASE Writer!Leave
  <2>1. writing = "await" /\ writing' = "closed" /\ UNCHANGED <<nth, offset, stalled>>
    BY <1>7 DEF Writer!Leave
  <2>2. WriterInv'
    BY <1>1, <2>1 DEF WriterInv
  <2>3. Upto = Answers(nth) /\ Upto' = Answers(nth)
    BY <1>6, <2>1 DEF Upto
  <2>4. OutInv'
    BY <1>1, <1>5, <2>1, <2>3 DEF OutInv
  <2> QED
    BY <2>2, <2>4
<1>8. CASE Writer!HeadFails
  <2>1. /\ writing = "head" /\ writing' = "body" /\ offset' = 0 /\ nth' = nth
        /\ stalled' = IF Alive THEN "head" ELSE stalled
    BY <1>8, StillAlive DEF Writer!HeadFails
  <2>2. WriterInv'
    BY <1>1, <2>1, Sizes DEF WriterInv
  <2>3. nth > 0 /\ offset < Heads
    BY <2>1 DEF WriterInv
  <2>4. Upto = A + offset /\ Upto' = A + (Heads + 0)
    BY <1>6, <2>1 DEF Upto, A
  <2>5. Len(out) <= Upto'
    BY <1>2, <1>3, <2>3, <2>4, Sizes, UptoType DEF OutInv
  <2>6. OutInv'
    BY <1>1, <1>5, <1>6, <2>1, <2>5 DEF OutInv
  <2> QED
    BY <2>2, <2>6
<1>9. CASE Writer!BodyFails
  <2>1. /\ writing = "body" /\ writing' = "closed" /\ UNCHANGED <<nth, offset>>
        /\ stalled' = IF Alive /\ stalled = "no" THEN "body" ELSE stalled
    BY <1>9, StillAlive DEF Writer!BodyFails
  <2>2. WriterInv'
    BY <1>1, <2>1 DEF WriterInv
  <2>3. nth > 0 /\ offset < Bodies
    BY <2>1 DEF WriterInv
  <2>4. Upto = A + (Heads + offset) /\ Upto' = A + (Heads + Bodies)
    BY <1>2, <1>6, <2>1, <2>3 DEF Upto, A
  <2>5. Len(out) <= Upto'
    BY <1>2, <1>3, <2>3, <2>4, Sizes DEF OutInv
  <2>6. OutInv'
    BY <1>1, <1>5, <1>6, <2>1, <2>5 DEF OutInv, Alive
  <2> QED
    BY <2>2, <2>6
<1> QED
  BY <1>4, <1>7, <1>8, <1>9

LEMMA OutNext ==
  ASSUME WriterInv, OutInv, [Writer!WriterNext]_writerVars
  PROVE  WriterInv' /\ OutInv'
<1>1. CASE Writer!Ask \/ Writer!Read \/ Writer!Shut \/ Writer!GoAway
  BY <1>1, OutClient
<1>2. CASE Writer!WriteHead \/ Writer!WriteBody
  BY <1>2, OutStep
<1>3. CASE Writer!NextRequest \/ Writer!Leave \/ Writer!HeadFails \/ Writer!BodyFails
  BY <1>3, OutOther
<1>4. CASE UNCHANGED writerVars
  <2>1. Upto' = Upto /\ (Alive' <=> Alive) /\ FirstDue(nth)' = FirstDue(nth)
    BY <1>4 DEF writerVars, Upto, Answers, Alive, FirstDue, Due, Pieces
  <2>2. Starts(out, FirstDue(nth))' <=> Starts(out, FirstDue(nth))
    BY <1>4, <2>1 DEF Starts, writerVars
  <2>3. OutInv'
    BY <1>4, <2>1, <2>2 DEF OutInv, writerVars
  <2>4. WriterInv'
    BY <1>4 DEF WriterInv, writerVars
  <2> QED
    BY <2>3, <2>4
<1> QED
  BY <1>1, <1>2, <1>3, <1>4 DEF Writer!WriterNext

LEMMA StartsIsPrefix ==
  ASSUME NEW s \in Seq(Piece), NEW t \in Seq(Piece), Starts(s, t)
  PROVE  Writer!IsPrefix(s, t)
<1> DEFINE n == Len(s)
           a == SubSeq(s, 1, n)
           b == SubSeq(t, 1, n)
<1>1. n \in Nat /\ Len(t) \in Nat /\ n <= Len(t) /\ \A i \in 1 .. n : s[i] = t[i]
  BY LenProperties DEF Starts
<1>2. \A i \in 1 .. n : s[i] \in Piece
  BY ElementOfSeq
<1> HIDE DEF n
<1>3. /\ a \in Seq(Piece) /\ Len(a) = (IF 1 <= n THEN n - 1 + 1 ELSE 0)
      /\ \A i \in 1 .. n - 1 + 1 : a[i] = s[1 + i - 1]
  BY <1>1, <1>2, SubSeqProperties
<1>4. /\ b \in Seq(Piece) /\ Len(b) = (IF 1 <= n THEN n - 1 + 1 ELSE 0)
      /\ \A i \in 1 .. n - 1 + 1 : b[i] = t[1 + i - 1]
  BY <1>1, <1>2, SubSeqProperties
<1> HIDE DEF a, b
<1>5. Len(a) = n /\ Len(b) = n
  BY <1>1, <1>3, <1>4
<1>7. \A i \in 1 .. n : a[i] = b[i]
  <2>1. ASSUME NEW i \in 1 .. n PROVE a[i] = b[i]
    <3>1. i \in 1 .. n - 1 + 1 /\ 1 + i - 1 = i
      BY <1>1
    <3>2. a[i] = s[i] /\ b[i] = t[i]
      BY <1>3, <1>4, <3>1
    <3> QED
      BY <1>1, <3>2
  <2> QED
    BY <2>1
<1>6. a = b
  BY <1>3, <1>4, <1>5, <1>7, SeqEqual
<1> QED
  BY <1>1, <1>6 DEF Writer!IsPrefix, n, a, b

LEMMA OutInOrder ==
  ASSUME WriterInv, OutInv
  PROVE  Writer!WriterTypeOK /\ Writer!ResponsesInOrder
<1>1. /\ nth \in Nat /\ asked \in Nat /\ nth <= asked /\ asked <= nth + 1
      /\ asked <= MaxResponses /\ out \in Seq(Piece)
  BY Sizes DEF WriterInv
<1>2. Writer!WriterTypeOK
  <2>1. Upto <= Answers(nth)
    <3>1. nth > 0 => /\ Answers(nth - 1) \in Nat
                     /\ Answers(nth) = Answers(nth - 1) + (Heads + Bodies)
      <4>1. nth > 0 => nth - 1 \in Nat /\ (nth - 1) + 1 = nth
        BY <1>1
      <4> QED
        BY <4>1, AnswersNext
    <3>2. Answers(nth) \in Nat
      BY <1>1, AnswersNext
    <3> DEFINE A == Answers(nth - 1)
               B == Answers(nth)
    <3>3. Upto = CASE writing = "head" -> A + offset
                   [] writing = "body" -> A + (Heads + offset)
                   [] OTHER -> B
      BY DEF Upto
    <3> SUFFICES Upto <= B
      OBVIOUS
    <3> HIDE DEF A, B
    <3>4. /\ nth > 0 => A \in Nat /\ B = A + (Heads + Bodies)
          /\ B \in Nat
      BY <3>1, <3>2 DEF A, B
    <3>5. /\ writing = "head" => nth > 0 /\ offset < Heads
          /\ writing = "body" => nth > 0 /\ offset < Bodies
          /\ offset \in Nat
      BY Sizes DEF WriterInv
    <3>6. CASE writing = "head"
      BY <3>3, <3>4, <3>5, <3>6, Sizes
    <3>7. CASE writing = "body"
      BY <3>3, <3>4, <3>5, <3>7, Sizes
    <3>8. CASE writing # "head" /\ writing # "body"
      BY <3>3, <3>4, <3>8
    <3> QED
      BY <3>6, <3>7, <3>8
  <2>2. Answers(nth) <= Answers(MaxResponses)
    BY <1>1, Sizes, AnswersGrow
  <2>3. /\ Len(out) \in Nat /\ Upto \in Nat /\ Answers(nth) \in Nat
        /\ Answers(MaxResponses) \in Nat
    BY <1>1, LenProperties, UptoType, AnswersNext, Sizes
  <2>4. Len(out) <= Answers(MaxResponses)
    BY <2>1, <2>2, <2>3 DEF OutInv
  <2>5. Len(out) <= MaxResponses * (Heads + Bodies)
    BY <2>4 DEF Answers
  <2> QED
    BY <1>1, <2>5, Sizes DEF WriterInv, Writer!WriterTypeOK
<1>3. stalled # "head" => Writer!IsPrefix(out, Writer!Whole)
  <2>1. Writer!Whole = FirstDue(asked)
    BY DEF Writer!Whole, FirstDue, Due, Pieces
  <2>2. ASSUME stalled # "head" PROVE Starts(out, FirstDue(asked))
    <3>1. Starts(out, FirstDue(nth))
      BY <2>2 DEF OutInv
    <3>2. Starts(out, FirstDue(nth + 1))
      BY <1>1, <3>1, StartsNext
    <3>3. asked = nth \/ asked = nth + 1
      BY <1>1
    <3> QED
      BY <3>1, <3>2, <3>3
  <2> QED
    BY <1>1, <2>1, <2>2, FirstDueType, StartsIsPrefix
<1>4. writing \in {"await", "closed"} => Upto = Writer!Answers(nth)
  BY DEF Upto, Answers, Writer!Answers
<1> QED
  BY <1>2, <1>3, <1>4 DEF OutInv, Writer!ResponsesInOrder

\* A step of the run is one of HttpExchange, one of ResponseWriter, or neither.
LEMMA SidesStep ==
  [MCNext]_all => [Next]_vars /\ [Writer!WriterNext]_writerVars
BY DEF MCNext, all

LEMMA WriterKeeps == MCSpec => [](WriterInv /\ OutInv)
<1>1. MCInit => WriterInv /\ OutInv
  BY OutInit DEF MCInit
<1>2. WriterInv /\ OutInv /\ [MCNext]_all => (WriterInv /\ OutInv)'
  BY OutNext, SidesStep
<1> QED
  BY <1>1, <1>2, PTL DEF MCSpec

\* ResponsesInOrder holds for responses of any size, any room in the socket and
\* any client: what is sent begins the responses due, in their order.
THEOREM ResponsesGoOut == MCSpec => []ResponsesInOrder
<1>1. WriterInv /\ OutInv => ResponsesInOrder
  BY OutInOrder DEF ResponsesInOrder
<1> QED
  BY <1>1, WriterKeeps, PTL

\* The types hold for any requests and any sizes.
THEOREM BothTypeCorrect == MCSpec => []TypesOK
<1>1. MCInit /\ [][MCNext]_all => Spec
  <2>1. MCInit => Init
    BY DEF MCInit
  <2> QED
    BY <2>1, SidesStep, PTL DEF Spec
<1>2. TypeOK /\ WriterInv /\ OutInv => TypesOK
  BY OutInOrder DEF TypesOK
<1> QED
  BY <1>1, <1>2, WriterKeeps, ExchangeTypeCorrect, PTL DEF MCSpec
=============================================================================
