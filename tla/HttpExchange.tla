---------------------------- MODULE HttpExchange ----------------------------
(***************************************************************************)
(* One connection of scheme A as Server::process_request serves it: how    *)
(* requests are cut out of the stream of bytes, which of them are refused  *)
(* before they are read to their end, what is answered, and when the       *)
(* server closes.  app_a's server has one route, GET "/", and no other     *)
(* handler.                                                                *)
(*                                                                         *)
(* The stream is a sequence of units: the request line, the headers (one   *)
(* stands for all), the empty line, units of the body.  A SocketStream     *)
(* takes what has arrived into its buffer, as much as there is or less; it *)
(* is made for each request and its buffer goes with it.  The client sends *)
(* a request when it has a response for each one before.                   *)
(***************************************************************************)
EXTENDS Naturals, Sequences

CONSTANTS
  Requests,  \* the requests a client may send
  MaxSent,   \* how many it sends
  MaxCount   \* keep_alive_max_count_

\* What process_request looks at.  "bad" lines and headers do not parse.
Request ==
  [line : {"ok", "bad", "long"},             \* long: over the limit of 8192
   method : {"GET", "HEAD", "POST", "DELETE", "TRACE"},
   path : {"/", "/other"},
   version : {"1.1", "1.0"},
   connection : {"", "close", "Keep-Alive"},
   accept : {"ok", "bad"},
   range : {"none", "ok", "unsat", "bad"},   \* unsat: range_error
   expect : BOOLEAN,
   framing : {"none", "length", "chunked"},
   encoded : BOOLEAN,                        \* a Content-Encoding it cannot undo
   body : Nat]                               \* units of body

ASSUME ExchangeAssumption ==
  /\ Requests \subseteq Request
  /\ \A r \in Requests : r.framing = "none" => r.body = 0
  /\ \A r \in Requests : r.framing = "chunked" => r.body > 0
  /\ MaxSent \in Nat /\ MaxCount \in Nat \ {0}

VARIABLES
  sent,       \* the requests sent so far
  held,       \* body of the last one, held back for "100 Continue"
  socket,     \* units that have arrived and are not read
  buf,        \* units in the SocketStream
  stage,      \* what the server does: "await", "line", "head", "dummy",
              \* "check", "body", "respond" or "closed"
  cur,        \* the request whose line was read; 0 if it was no request line
  need,       \* units of its body still to be read
  status,     \* res.status
  closing,    \* connection_closed
  left,       \* count of process_server_socket_core
  responses   \* what the client got

vars == <<sent, held, socket, buf, stage, cur, need, status, closing, left,
          responses>>

client == <<sent, held>>

Stages == {"await", "line", "head", "dummy", "check", "body", "respond", "closed"}
Unit == [of : 1 .. MaxSent, part : {"line", "header", "end", "body"}]

TypeOK ==
  /\ sent \in Seq(Requests) /\ Len(sent) <= MaxSent
  /\ held \in Nat
  /\ socket \in Seq(Unit) /\ buf \in Seq(Unit)
  /\ stage \in Stages
  /\ cur \in 0 .. Len(sent)
  /\ need \in Nat
  /\ status \in {200, 206, 400, 404, 414, 415, 416}
  /\ closing \in BOOLEAN
  /\ left \in 0 .. MaxCount
  /\ Len(responses) <= MaxCount
  /\ \A k \in DOMAIN responses :
       responses[k].status \in {200, 206, 400, 404, 414, 415, 416}

Init ==
  /\ sent = << >> /\ held = 0
  /\ socket = << >> /\ buf = << >>
  /\ stage = "await"
  /\ cur = 0 /\ need = 0 /\ status = 200 /\ closing = FALSE
  /\ left = MaxCount
  /\ responses = << >>

-----------------------------------------------------------------------------
(* The client. *)

Units(k, part, n) == [i \in 1 .. n |-> [of |-> k, part |-> part]]

Head3(k) == Units(k, "line", 1) \o Units(k, "header", 1) \o Units(k, "end", 1)

Send(r) ==
  /\ Len(sent) < MaxSent /\ Len(responses) >= Len(sent)
  /\ stage # "closed"
  /\ sent' = Append(sent, r)
  /\ socket' = socket \o Head3(Len(sent) + 1)
                 \o (IF r.expect THEN << >> ELSE Units(Len(sent) + 1, "body", r.body))
  /\ held' = IF r.expect THEN r.body ELSE 0
  /\ UNCHANGED <<buf, stage, cur, need, status, closing, left, responses>>

-----------------------------------------------------------------------------
(* Reading.  keep_alive and process_server_socket_core are in HttpServer.  *)

\* Mutant: the requests of a connection are not counted down to none.
NextRequest_Uncounted ==
  /\ stage = "await" /\ socket # << >>
  /\ stage' = "line"
  /\ buf' = << >>
  /\ cur' = 0 /\ closing' = FALSE
  /\ UNCHANGED <<client, socket, need, status, left, responses>>

\* A new SocketStream, Request and Response.
NextRequest ==
  /\ stage = "await" /\ left > 0 /\ socket # << >>
  /\ stage' = "line"
  /\ buf' = << >>
  /\ cur' = 0 /\ closing' = FALSE
  /\ UNCHANGED <<client, socket, need, status, left, responses>>

\* keep_alive gives up, or the count is used up.
Leave ==
  /\ stage = "await" /\ (left = 0 \/ socket = << >>)
  /\ stage' = "closed"
  /\ UNCHANGED <<client, socket, buf, cur, need, status, closing, left, responses>>

Reading == stage \in {"line", "head", "dummy", "body"}

\* SocketStream::read finds its buffer empty: it takes some of what is there.
Fill ==
  /\ Reading /\ buf = << >> /\ socket # << >>
  /\ \E n \in 1 .. Len(socket) :
       /\ buf' = SubSeq(socket, 1, n)
       /\ socket' = SubSeq(socket, n + 1, Len(socket))
  /\ UNCHANGED <<client, stage, cur, need, status, closing, left, responses>>

\* Nothing comes within the read timeout.
Silence == Reading /\ buf = << >> /\ socket = << >>

Answer(code) == stage' = "respond" /\ status' = code

R == sent[cur]

\* parse_request_line; on a malformed line the headers are not read.
ReadLine ==
  /\ stage = "line" /\ buf # << >>
  /\ buf' = Tail(buf)
  /\ LET u == Head(buf) IN
     IF u.part = "line" /\ sent[u.of].line # "bad"
     THEN cur' = u.of /\ stage' = "head" /\ UNCHANGED status
     ELSE cur' = 0 /\ Answer(400)
  /\ UNCHANGED <<client, socket, need, closing, left, responses>>

\* read_headers.
ReadHead ==
  /\ stage = "head" /\ buf # << >>
  /\ buf' = Tail(buf)
  /\ CASE Head(buf).part = "header" -> UNCHANGED <<stage, status>>
       [] Head(buf).part = "end" ->
            stage' = (IF R.line = "long" THEN "dummy" ELSE "check") /\ UNCHANGED status
       [] OTHER -> Answer(400)
  /\ UNCHANGED <<client, socket, cur, need, closing, left, responses>>

\* Before 414, read_headers is called a second time.
ReadDummy ==
  /\ stage = "dummy" /\ buf # << >>
  /\ buf' = Tail(buf)
  /\ IF Head(buf).part = "header" THEN UNCHANGED <<stage, status>> ELSE Answer(414)
  /\ UNCHANGED <<client, socket, cur, need, closing, left, responses>>

-----------------------------------------------------------------------------
(* routing *)

ExpectContent(r) ==
  r.method \in {"POST", "DELETE"} \/ r.framing = "chunked" \/ r.body > 0

\* dispatch_request, with the one handler of main_a.cpp, and range_error.
Dispatch(r) ==
  IF r.method = "TRACE" THEN 400
  ELSE IF r.method \notin {"GET", "HEAD"} \/ r.path # "/" THEN 404
  ELSE IF r.range = "unsat" THEN 416
  ELSE IF r.range = "ok" THEN 206
  ELSE 200

Closes(r) ==
  r.connection = "close" \/ (r.version = "1.0" /\ r.connection # "Keep-Alive")

\* Mutant: the body of a request without a route is left alone.
Check_RoutesFirst ==
  /\ stage = "check"
  /\ closing' = Closes(R)
  /\ IF R.accept = "bad" THEN Answer(400) /\ UNCHANGED <<held, socket, need>>
     ELSE IF R.range = "bad" THEN Answer(416) /\ UNCHANGED <<held, socket, need>>
     ELSE /\ held' = IF R.expect THEN 0 ELSE held
          /\ socket' = IF R.expect THEN socket \o Units(cur, "body", held) ELSE socket
          /\ IF ExpectContent(R) /\ Dispatch(R) # 404
             THEN stage' = "body" /\ need' = R.body /\ UNCHANGED status
             ELSE Answer(Dispatch(R)) /\ UNCHANGED need
  /\ UNCHANGED <<sent, buf, cur, left, responses>>

\* From the Connection header to the end of the Expect header: a request is
\* refused, or its body is sent for and read, or it is dispatched.
Check ==
  /\ stage = "check"
  /\ closing' = Closes(R)
  /\ IF R.accept = "bad" THEN Answer(400) /\ UNCHANGED <<held, socket, need>>
     ELSE IF R.range = "bad" THEN Answer(416) /\ UNCHANGED <<held, socket, need>>
     ELSE /\ held' = IF R.expect THEN 0 ELSE held
          /\ socket' = IF R.expect THEN socket \o Units(cur, "body", held) ELSE socket
          /\ IF ~ ExpectContent(R) \/ (R.method = "DELETE" /\ R.framing # "length")
             THEN Answer(Dispatch(R)) /\ UNCHANGED need
             ELSE IF R.encoded THEN Answer(415) /\ UNCHANGED need
             ELSE stage' = "body" /\ need' = R.body /\ UNCHANGED status
  /\ UNCHANGED <<sent, buf, cur, left, responses>>

\* read_content takes the body, to its length or its last chunk.
ReadBody ==
  /\ stage = "body" /\ need > 0 /\ buf # << >>
  /\ buf' = Tail(buf)
  /\ IF Head(buf).part = "body" THEN need' = need - 1 /\ UNCHANGED <<stage, status>>
     ELSE Answer(400) /\ UNCHANGED need
  /\ UNCHANGED <<client, socket, cur, closing, left, responses>>

\* A body without a length is all that comes.
ReadOn ==
  /\ stage = "body" /\ R.framing = "none" /\ buf # << >>
  /\ buf' = Tail(buf)
  /\ UNCHANGED <<client, socket, stage, cur, need, status, closing, left, responses>>

BodyRead ==
  /\ stage = "body" /\ need = 0 /\ R.framing # "none"
  /\ Answer(Dispatch(R))
  /\ UNCHANGED <<client, socket, buf, cur, need, closing, left, responses>>

\* Mutant: only headers are read with a timeout.
TimeOut_HeadersOnly ==
  /\ Silence
  /\ \/ stage = "head" /\ Answer(400)
     \/ stage = "dummy" /\ Answer(414)
  /\ UNCHANGED <<client, socket, buf, cur, need, closing, left, responses>>

\* A POST without a length is read until the timeout, which is an error; so
\* are headers that end too early.  The second read_headers just ends.
TimeOut ==
  /\ Silence
  /\ \/ stage \in {"head", "body"} /\ ~ (stage = "body" /\ need = 0 /\ R.framing # "none")
        /\ Answer(400)
     \/ stage = "dummy" /\ Answer(414)
  /\ UNCHANGED <<client, socket, buf, cur, need, closing, left, responses>>

-----------------------------------------------------------------------------
\* Mutant: only the header of the request is looked at.
AnnouncesClose_HeaderOnly == cur # 0 /\ R.connection = "close"

\* write_response_core: what the Connection header of the response says.  A
\* line that did not parse leaves a Request without headers, and a request
\* whose URI is too long has been read this far.
AnnouncesClose == left = 1 \/ (cur # 0 /\ R.connection = "close")

Respond ==
  /\ stage = "respond"
  /\ responses' = Append(responses, [of |-> cur, status |-> status,
                                     close |-> AnnouncesClose])
  /\ left' = left - 1
  /\ stage' = IF closing THEN "closed" ELSE "await"
  /\ UNCHANGED <<client, socket, buf, cur, need, status, closing>>

Serve ==
  \/ NextRequest \/ Leave \/ Fill \/ ReadLine \/ ReadHead \/ ReadDummy
  \/ Check \/ ReadBody \/ ReadOn \/ BodyRead
  \/ TimeOut \/ Respond

Next == Serve \/ \E r \in Requests : Send(r)

Spec == Init /\ [][Next]_vars

\* The thread of the connection goes on, its timeouts pass.  The client owes
\* nothing.
FairSpec == Spec /\ WF_vars(Serve)

-----------------------------------------------------------------------------
(* Properties *)

\* A request whose response leaves nothing of it in the stream: it parses, and
\* its body, if it has one, is not refused unread.
Orderly(r) ==
  /\ r.line # "bad"
  /\ r.body > 0 =>
       /\ r.line = "ok" /\ r.accept = "ok" /\ r.range # "bad" /\ ~ r.encoded
       /\ r.method = "DELETE" => r.framing = "length"

\* The k-th response answers the k-th request, in whatever pieces the bytes
\* arrive and whatever is answered, as long as the requests before it were
\* orderly: no byte of one request is taken for a part of the next.
AnswersMatch ==
  \A k \in DOMAIN responses :
    (\A i \in 1 .. k : i <= Len(sent) => Orderly(sent[i])) => responses[k].of = k

\* On HTTP/1.1 a connection that is closed after a response was announced to
\* be, and one announced to be closed is: the client never sends the next
\* request into a closing connection unless it was idle.
CloseIsAnnounced ==
  \A k \in DOMAIN responses :
    responses[k].of # 0 /\ sent[responses[k].of].version = "1.1"
    /\ sent[responses[k].of].line = "ok" =>
      /\ k < Len(responses) => ~ responses[k].close
      /\ k = Len(responses) /\ stage = "closed" /\ (closing \/ left = 0)
           => responses[k].close

\* A request is answered, or the connection closed before it: the server never
\* waits for ever for what the client will not send.
RequestAnswered ==
  \A k \in 1 .. MaxSent :
    Len(sent) = k ~> Len(responses) >= k \/ stage = "closed"
=============================================================================
