----------------------------- MODULE Multipart -----------------------------
(***************************************************************************)
(* The parser of multipart/form-data bodies, FormDataParser, as            *)
(* Server::read_content drives it: the body comes in pieces, cut anywhere, *)
(* also inside a delimiter, and each piece is one call of parse(), whose   *)
(* loop is the steps here.                                                 *)
(*                                                                         *)
(* A byte is one of "r" and "n" (CR and LF), "-", "b" (the boundary, one   *)
(* byte long) or another one.  A line of headers is read by its first      *)
(* byte: "g" does not parse, or is a Content-Disposition without a name.   *)
(***************************************************************************)
EXTENDS Integers, Sequences, SequencesExt

CONSTANTS
  Bodies,     \* what clients send, see Body
  MaxLine,    \* CPPHTTPLIB_HEADER_MAX_LENGTH
  MaxFiles    \* CPPHTTPLIB_MULTIPART_FORM_DATA_FILE_MAX_COUNT

Byte == {"r", "n", "-", "b", "x", "h", "g"}

dash_ == <<"-", "-">>
crlf_ == <<"r", "n">>
boundary_ == <<"b">>
dash_boundary_crlf_ == dash_ \o boundary_ \o crlf_
crlf_dash_boundary_ == crlf_ \o dash_ \o boundary_

\* A body as its sender means it: what is before the first delimiter, the
\* parts, and what is after the last delimiter; cut bytes of it are missing
\* at the end.
Part == [lines : Seq(Seq(Byte)), content : Seq(Byte)]
Body == [preamble : Seq(Byte), parts : Seq(Part), epilogue : Seq(Byte), cut : Nat]

MultipartAssumption ==
  /\ Bodies \subseteq Body
  /\ MaxLine \in Nat /\ MaxFiles \in Nat

VARIABLES
  body,      \* the body being sent
  input,     \* what of it is still to come
  stage,     \* "feed" (outside parse), "parse", or the outcome: "ok" or "400"
  buf_,
  state_,    \* 0 .. 4
  inner,     \* the loop of state 2 has read a line in this call
  is_valid_,
  lines,     \* headers of the part being read
  parts      \* what the callbacks were given

vars == <<body, input, stage, buf_, state_, inner, is_valid_, lines, parts>>

TypeOK ==
  /\ body \in Bodies
  /\ input \in Seq(Byte) /\ buf_ \in Seq(Byte)
  /\ stage \in {"feed", "parse", "ok", "400"}
  /\ state_ \in 0 .. 4
  /\ inner \in BOOLEAN /\ is_valid_ \in BOOLEAN
  /\ lines \in Seq(Seq(Byte))
  /\ parts \in Seq(Part) /\ Len(parts) <= MaxFiles
  /\ state_ \in {3, 4} => parts # <<>>

Written(p) ==
  FlattenSeq([i \in DOMAIN p.lines |-> p.lines[i] \o crlf_]) \o crlf_ \o p.content

\* The bytes of a body, without what was cut off.
Encoded(b) ==
  LET all == b.preamble \o dash_ \o boundary_
               \o FlattenSeq([i \in DOMAIN b.parts |->
                    crlf_ \o Written(b.parts[i]) \o crlf_dash_boundary_])
               \o dash_ \o b.epilogue
  IN SubSeq(all, 1, Len(all) - b.cut)

Init ==
  /\ body \in Bodies
  /\ input = Encoded(body)
  /\ stage = "feed"
  /\ buf_ = <<>> /\ state_ = 0 /\ inner = FALSE /\ is_valid_ = FALSE
  /\ lines = <<>> /\ parts = <<>>

-----------------------------------------------------------------------------
\* read_content hands on a piece.
Feed ==
  /\ stage = "feed" /\ input # <<>>
  /\ \E n \in 1 .. Len(input) :
       /\ buf_' = buf_ \o SubSeq(input, 1, n)
       /\ input' = SubSeq(input, n + 1, Len(input))
  /\ stage' = "parse"
  /\ inner' = FALSE
  /\ UNCHANGED <<body, state_, is_valid_, lines, parts>>

\* read_content_core, after the last piece.
Finish ==
  /\ stage = "feed" /\ input = <<>>
  /\ stage' = IF is_valid_ THEN "ok" ELSE "400"
  /\ UNCHANGED <<body, input, buf_, state_, inner, is_valid_, lines, parts>>

StartsWith(s, at) ==
  at + Len(s) <= Len(buf_) /\ SubSeq(buf_, at + 1, at + Len(s)) = s

Found(s) == \E at \in 0 .. Len(buf_) : StartsWith(s, at)

\* buf_find, for what is there.
Position(s) ==
  CHOOSE at \in 0 .. Len(buf_) :
    StartsWith(s, at) /\ \A k \in 0 .. at - 1 : ~ StartsWith(s, k)

Rest(n) == SubSeq(buf_, n + 1, Len(buf_))

\* parse() waits for more, goes on, or refuses the body.
Return == stage' = "feed" /\ UNCHANGED <<buf_, state_>>
Goto(s, erased) == state_' = s /\ buf_' = Rest(erased) /\ UNCHANGED stage
Refuse == stage' = "400" /\ UNCHANGED <<buf_, state_>>

\* The loop is over when the buffer is empty.
BufferEmpty ==
  /\ stage = "parse" /\ buf_ = <<>>
  /\ Return
  /\ UNCHANGED <<body, input, inner, is_valid_, lines, parts>>

Running(s) == stage = "parse" /\ buf_ # <<>> /\ state_ = s

InitialBoundary ==
  /\ Running(0)
  /\ IF Found(dash_boundary_crlf_)
     THEN Goto(1, Position(dash_boundary_crlf_) + Len(dash_boundary_crlf_))
     ELSE Return
  /\ UNCHANGED <<body, input, inner, is_valid_, lines, parts>>

NewEntry ==
  /\ Running(1)
  /\ Goto(2, 0)
  /\ lines' = <<>>
  /\ UNCHANGED <<body, input, inner, is_valid_, parts>>

\* Where the line ends, or the buffer, if it has not come to its end.
LineEnd == IF Found(crlf_) THEN Position(crlf_) ELSE Len(buf_)

\* The limit is tested when the loop is entered, not for each line.
LineTooLong ==
  /\ Running(2) /\ ~ inner /\ LineEnd > MaxLine
  /\ Refuse
  /\ UNCHANGED <<body, input, inner, is_valid_, lines, parts>>

ReadingLines == Running(2) /\ (inner \/ LineEnd <= MaxLine)

LineUnfinished ==
  /\ ReadingLines /\ ~ Found(crlf_)
  /\ Return
  /\ UNCHANGED <<body, input, inner, is_valid_, lines, parts>>

HeaderLine ==
  /\ ReadingLines /\ Found(crlf_) /\ LineEnd > 0
  /\ LET line == SubSeq(buf_, 1, LineEnd) IN
     IF line[1] = "g"
     THEN /\ Refuse
          /\ is_valid_' = FALSE
          /\ UNCHANGED <<inner, lines>>
     ELSE /\ Goto(2, LineEnd + Len(crlf_))
          /\ inner' = TRUE
          /\ lines' = Append(lines, line)
          /\ UNCHANGED is_valid_
  /\ UNCHANGED <<body, input, parts>>

\* header_callback: a new part, unless there are too many.
EmptyLine ==
  /\ ReadingLines /\ Found(crlf_) /\ LineEnd = 0
  /\ IF Len(parts) = MaxFiles
     THEN Refuse /\ is_valid_' = FALSE /\ UNCHANGED parts
     ELSE /\ Goto(3, Len(crlf_))
          /\ parts' = Append(parts, [lines |-> lines, content |-> <<>>])
          /\ UNCHANGED is_valid_
  /\ UNCHANGED <<body, input, inner, lines>>

\* content_callback.
Content(n) ==
  parts' = [parts EXCEPT ![Len(parts)].content = @ \o SubSeq(buf_, 1, n)]

\* Mutant: all that does not hold a delimiter is handed on.
ReadContent_HoldsNothing ==
  /\ Running(3)
  /\ IF Len(crlf_dash_boundary_) > Len(buf_)
     THEN Return /\ UNCHANGED parts
     ELSE IF Found(crlf_dash_boundary_)
     THEN LET pos == Position(crlf_dash_boundary_) IN
          Content(pos) /\ Goto(4, pos + Len(crlf_dash_boundary_))
     ELSE /\ Content(Len(buf_))
          /\ buf_' = <<>>
          /\ stage' = "feed"
          /\ UNCHANGED state_
  /\ UNCHANGED <<body, input, inner, is_valid_, lines>>

\* What may be the beginning of a delimiter is held back.
ReadContent ==
  /\ Running(3)
  /\ IF Len(crlf_dash_boundary_) > Len(buf_)
     THEN Return /\ UNCHANGED parts
     ELSE IF Found(crlf_dash_boundary_)
     THEN LET pos == Position(crlf_dash_boundary_) IN
          Content(pos) /\ Goto(4, pos + Len(crlf_dash_boundary_))
     ELSE LET n == Len(buf_) - Len(crlf_dash_boundary_) IN
          /\ Content(n)
          /\ buf_' = Rest(n)
          /\ stage' = "feed"
          /\ UNCHANGED state_
  /\ UNCHANGED <<body, input, inner, is_valid_, lines>>

\* After the last delimiter the rest of the buffer goes; the state stays.
Boundary ==
  /\ Running(4)
  /\ IF StartsWith(crlf_, 0)
     THEN Goto(1, Len(crlf_)) /\ UNCHANGED is_valid_
     ELSE IF StartsWith(dash_, 0)
     THEN Goto(4, Len(buf_)) /\ is_valid_' = TRUE
     ELSE Return /\ UNCHANGED is_valid_
  /\ UNCHANGED <<body, input, inner, lines, parts>>

Next ==
  \/ Feed \/ Finish \/ BufferEmpty \/ InitialBoundary \/ NewEntry
  \/ LineTooLong \/ LineUnfinished \/ HeaderLine \/ EmptyLine
  \/ ReadContent \/ Boundary

Spec == Init /\ [][Next]_vars

-----------------------------------------------------------------------------
(* Properties *)

\* Its lines parse and are shorter than the limit, its parts not too many, and
\* it has come to its last delimiter.
WellFormed(b) ==
  /\ b.cut <= Len(b.epilogue)
  /\ Len(b.parts) \in 1 .. MaxFiles
  /\ \A i \in DOMAIN b.parts : \A j \in DOMAIN b.parts[i].lines :
       LET line == b.parts[i].lines[j] IN line[1] # "g" /\ Len(line) < MaxLine

\* What a browser sends after the last delimiter.
Usual(b) == b.epilogue \in {<<>>, crlf_}

\* However the body is cut into pieces, a body that is accepted has given the
\* parts its sender put into it.  (Not with any epilogue: one that comes in a
\* later piece than the last delimiter, and begins with CR LF, is read as the
\* headers of one more part.)
PartsAsSent == stage = "ok" /\ Usual(body) => parts = body.parts

\* However it is cut into pieces, a body is accepted only if its last
\* delimiter has come, and refused only if something is wrong with it.
AcceptedIfComplete ==
  Usual(body) =>
    /\ stage = "ok" => body.cut <= Len(body.epilogue)
    /\ stage = "400" => ~ WellFormed(body)

\* Nothing of a delimiter is ever handed on: at every moment the content of a
\* part is a beginning of what was sent, all of it in a part that is over.
ContentIsPrefix ==
  Usual(body) =>
    /\ Len(parts) <= Len(body.parts)
    /\ \A i \in DOMAIN parts :
         /\ IsPrefix(parts[i].content, body.parts[i].content)
         /\ i < Len(parts) => parts[i] = body.parts[i]
=============================================================================
