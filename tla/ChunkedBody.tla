----------------------------- MODULE ChunkedBody -----------------------------
(***************************************************************************)
(* A body in chunks as the server reads it: read_content_chunked and the   *)
(* lines of stream_line_reader.  Reading blocks, so what matters of the    *)
(* pieces in which the body arrives is only where it breaks off: the       *)
(* client closes the connection there, or falls silent.                    *)
(*                                                                         *)
(* A body is a sequence of tokens: a number (in a line of its own the size *)
(* of a chunk), CR, LF, a field of the trailer, a request line, or data.   *)
(***************************************************************************)
EXTENDS Integers, Sequences
LOCAL INSTANCE SequencesExt

CONSTANTS
  Datas,     \* what a chunk may hold
  MaxChunks, \* how many a body has at most
  MaxPayload \* payload_max_length_

CRLF    == <<"r", "n">>
Sizes   == <<"1", "2", "3", "4", "5">>
Line(t) == <<t>> \o CRLF

VARIABLES
  chunks,   \* [data, size]: a chunk and the size written before it
  fields,   \* the trailer
  gap,      \* where the body breaks off: so many tokens arrive
  silent,   \* and nothing else, or the end of the stream
  wire,     \* what has arrived and is not read yet
  reading,  \* "size", "data", "end", "last", "trailer", or the result:
            \* "success", "error" or "too large"
  chunk_len, total_len,
  received, \* what the receiver has got
  trailers  \* x.trailers

sentVars == <<chunks, fields, gap, silent>>
chunkVars == <<sentVars, wire, reading, chunk_len, total_len, received,
               trailers>>

\* The whole body, and the next request.
Body ==
  FlattenSeq([ i \in DOMAIN chunks |->
    Line(Sizes[chunks[i].size]) \o chunks[i].data \o CRLF ]) \o Line("0")
    \o FlattenSeq([ i \in DOMAIN fields |-> Line(fields[i]) ]) \o CRLF

Sent == Body \o Line("GET")

\* Sizes are right, or one too large or too small.
Sized == UNION { { [data |-> d, size |-> n] :
                     n \in (Len(d) - 1 .. Len(d) + 1) \cap DOMAIN Sizes } : d \in Datas }

ChunkedInit ==
  /\ chunks \in UNION { [1 .. n -> Sized] : n \in 0 .. MaxChunks }
  /\ fields \in { << >>, <<"declared">>, <<"other", "declared">> }
  /\ gap \in 0 .. Len(Sent)
  /\ silent \in BOOLEAN
  /\ wire = SubSeq(Sent, 1, gap)
  /\ reading = "size" /\ chunk_len = 0 /\ total_len = 0
  /\ received = << >> /\ trailers = << >>

-----------------------------------------------------------------------------
(* stream_line_reader::getline *)

LineEnds == { i \in 2 .. Len(wire) : wire[i - 1] = "r" /\ wire[i] = "n" }

Behind(n) == SubSeq(wire, n + 1, Len(wire))

\* The end of the stream ends a line that has begun; a timeout fails.
Got == IF LineEnds # {}
       THEN SubSeq(wire, 1, CHOOSE i \in LineEnds : \A k \in LineEnds : i <= k)
       ELSE IF silent THEN << >> ELSE wire

GetLine == Got # << >> /\ wire' = Behind(Len(Got))
NoLine  == Got = << >> /\ wire' = << >>

Fails(result) == reading' = result

-----------------------------------------------------------------------------
(* read_content_chunked *)

NumberOf(line) ==
  CASE line[1] = "0" -> 0
    [] line[1] \in Range(Sizes) -> CHOOSE n \in DOMAIN Sizes : Sizes[n] = line[1]
    [] OTHER -> -1

ReadSize ==
  /\ reading = "size"
  /\ \/ NoLine /\ Fails("error") /\ UNCHANGED <<chunk_len, total_len>>
     \/ /\ GetLine
        /\ LET n == NumberOf(Got) IN
           /\ chunk_len' = n
           /\ reading' = (CASE n = -1 -> "error"
                            [] n = 0 -> "last"
                            [] n > MaxPayload - total_len -> "too large"
                            [] OTHER -> "data")
           /\ total_len' = IF reading' = "data" THEN total_len + n ELSE total_len
  /\ UNCHANGED <<sentVars, received, trailers>>

\* read_content_with_length hands on what comes, also if it is not all.
ReadData ==
  /\ reading = "data"
  /\ LET n == IF chunk_len <= Len(wire) THEN chunk_len ELSE Len(wire) IN
     /\ received' = received \o SubSeq(wire, 1, n)
     /\ wire' = Behind(n)
     /\ reading' = IF n = chunk_len THEN "end" ELSE "error"
  /\ UNCHANGED <<sentVars, chunk_len, total_len, trailers>>

\* Mutant: what stands behind the data is skipped up to the end of the line.
ReadEnd_Skips ==
  /\ reading = "end"
  /\ \/ NoLine /\ Fails("error")
     \/ GetLine /\ reading' = "size"
  /\ UNCHANGED <<sentVars, chunk_len, total_len, received, trailers>>

ReadEnd ==
  /\ reading = "end"
  /\ \/ NoLine /\ Fails("error")
     \/ GetLine /\ reading' = IF Got = CRLF THEN "size" ELSE "error"
  /\ UNCHANGED <<sentVars, chunk_len, total_len, received, trailers>>

\* After the last chunk nothing more need come.
ReadLast ==
  /\ reading = "last"
  /\ \/ NoLine /\ reading' = "success" /\ UNCHANGED trailers
     \/ /\ GetLine
        /\ reading' = IF Got = CRLF THEN "success" ELSE "trailer"
        /\ trailers' = IF Got = Line("declared") THEN Append(trailers, "declared")
                       ELSE trailers
  /\ UNCHANGED <<sentVars, chunk_len, total_len, received>>

ReadTrailer ==
  /\ reading = "trailer"
  /\ \/ NoLine /\ Fails("error") /\ UNCHANGED trailers
     \/ /\ GetLine
        /\ reading' = IF Got = CRLF THEN "success" ELSE "trailer"
        /\ trailers' = IF Got = Line("declared") THEN Append(trailers, "declared")
                       ELSE trailers
  /\ UNCHANGED <<sentVars, chunk_len, total_len, received>>

ChunkedNext == ReadSize \/ ReadData \/ ReadEnd \/ ReadLast \/ ReadTrailer

-----------------------------------------------------------------------------
\* If the sizes are right, the receiver gets the data of all chunks and nothing
\* else: a beginning of them at any time, within the limit, and all of them if
\* the body is accepted.  It is accepted only if its last chunk has begun, and
\* always if it arrives whole and within the limit; then all of it is read, and
\* nothing of the next request.  A size that is wrong is noticed, if no data
\* look like the end of a line.
ChunksAsSent ==
  LET datas == FlattenSeq([ i \in DOMAIN chunks |-> chunks[i].data ])
      sized == \A i \in DOMAIN chunks : chunks[i].size = Len(chunks[i].data)
      plain == \A i \in DOMAIN chunks : ~ Contains(chunks[i].data, "n")
  IN  /\ sized => IsPrefix(received, datas) /\ Len(received) <= MaxPayload
      /\ sized /\ reading = "too large" => Len(datas) > MaxPayload
      /\ sized /\ reading = "error" => gap < Len(Body)
      /\ sized /\ reading = "success" =>
           /\ received = datas
           /\ gap > Len(Body) - Len(CRLF) - 3 * Len(fields) - Len(Line("0"))
           /\ gap >= Len(Body) =>
                /\ wire = SubSeq(Line("GET"), 1, gap - Len(Body))
                /\ trailers = SelectSeq(fields, LAMBDA f : f = "declared")
      /\ ~ sized /\ plain => reading # "success"
=============================================================================
