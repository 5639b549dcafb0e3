--------------------------- MODULE MCHttpExchange ---------------------------
(***************************************************************************)
(* HttpExchange with requests chosen for the paths of process_request, and *)
(* ResponseWriter.  They share nothing, so one run checks them side by     *)
(* side: turn says which of them a behaviour is of.                        *)
(***************************************************************************)
EXTENDS HttpExchange

\* Of ResponseWriter, like the variables below but turn.
CONSTANTS Heads, Bodies, MaxResponses, Room

VARIABLES turn, writing, nth, offset, stalled, out, read, asked, peer

Writer == INSTANCE ResponseWriter

ASSUME SizesAssumption == Writer!WriterAssumption

Get == [line |-> "ok", method |-> "GET", path |-> "/", version |-> "1.1",
        connection |-> "", accept |-> "ok", range |-> "none", expect |-> FALSE,
        framing |-> "none", encoded |-> FALSE, body |-> 0]

WithBody ==
  { [Get EXCEPT !.method = m, !.framing = "length", !.body = 2] :
      m \in {"GET", "POST", "DELETE", "TRACE"} }

Plain ==
  { Get,
    [Get EXCEPT !.connection = "close"],
    [Get EXCEPT !.version = "1.0"],
    [Get EXCEPT !.version = "1.0", !.connection = "Keep-Alive"],
    [Get EXCEPT !.method = "HEAD", !.range = "ok"],
    [Get EXCEPT !.range = "unsat"],
    [Get EXCEPT !.range = "bad"],
    [Get EXCEPT !.path = "/other"],
    [Get EXCEPT !.method = "POST"],
    [Get EXCEPT !.method = "POST", !.framing = "chunked", !.body = 2],
    [Get EXCEPT !.method = "POST", !.framing = "length", !.body = 2, !.expect = TRUE] }

Odd ==
  { [Get EXCEPT !.line = "bad"],
    [Get EXCEPT !.line = "long"],
    [Get EXCEPT !.accept = "bad", !.framing = "length", !.body = 2],
    [Get EXCEPT !.method = "POST", !.framing = "length", !.body = 2, !.encoded = TRUE],
    [Get EXCEPT !.method = "DELETE", !.framing = "chunked", !.body = 2],
    [Get EXCEPT !.accept = "bad", !.framing = "length", !.body = 2, !.expect = TRUE] }

All == Plain \cup WithBody \cup Odd

-----------------------------------------------------------------------------
writerVars == <<writing, nth, offset, stalled, out, read, asked, peer>>

MCInit == turn \in {"read", "write"} /\ Init /\ Writer!WriterInit

Serves == turn = "read" /\ Serve /\ UNCHANGED <<turn, writerVars>>

MCNext ==
  \/ turn = "read" /\ Next /\ UNCHANGED <<turn, writerVars>>
  \/ turn = "write" /\ Writer!WriterNext /\ UNCHANGED <<turn, vars>>

all == <<turn, vars, writerVars>>

\* FairSpec of HttpExchange; none for the writer.
MCSpec == MCInit /\ [][MCNext]_all /\ WF_all(Serves)

-----------------------------------------------------------------------------
\* The variables keep their types.
TypesOK == TypeOK /\ Writer!WriterTypeOK

\* Responses are sent whole and in order (ResponseWriter).
ResponsesInOrder == Writer!ResponsesInOrder

\* RequestAnswered of HttpExchange, where its server runs.
RequestsAnswered ==
  \A k \in 1 .. MaxSent :
    turn = "read" /\ Len(sent) = k ~> Len(responses) >= k \/ stage = "closed"
=============================================================================
