---------------------------- MODULE ResponseWriter ----------------------------
(***************************************************************************)
(* The responses of one connection on their way out: the flush of the      *)
(* headers and the body in write_response_core, write_data, and the        *)
(* SocketStream below, against a client that reads when it likes, sends    *)
(* its next request before it has read the response, shuts its side down,  *)
(* or goes away.                                                           *)
(***************************************************************************)
EXTENDS Integers, Sequences, SequencesExt

CONSTANTS
  Heads, Bodies, \* units of the headers and of the body of a response
  MaxResponses,  \* requests on the connection
  Room           \* units the kernel keeps for the client

WriterAssumption ==
  /\ Heads \in Nat \ {0} /\ Bodies \in Nat \ {0}
  /\ MaxResponses \in Nat \ {0} /\ Room \in Nat \ {0}

VARIABLES
  writing, \* "await" a request, "head", "body", or "closed"
  nth,     \* the response that is written, or was
  offset,  \* units of its headers or body that are sent
  stalled, \* whether a response was given up because the client did not read:
           \* "no", in its "body", or in its "head"
  out,     \* all that was sent
  read,    \* how much of it the client has read
  asked,   \* requests the client has sent
  peer     \* the client is "open", its side is "shut", or it is "gone"

writerVars == <<writing, nth, offset, stalled, out, read, asked, peer>>
server == <<writing, nth, offset, stalled, out>>
client == <<read, asked, peer>>

WriterTypeOK ==
  /\ writing \in {"await", "head", "body", "closed"}
  /\ nth \in 0 .. MaxResponses
  /\ offset \in 0 .. (Heads + Bodies)
  /\ stalled \in {"no", "body", "head"}
  /\ read \in 0 .. Len(out) /\ Len(out) <= MaxResponses * (Heads + Bodies)
  /\ asked \in 0 .. MaxResponses /\ nth <= asked
  /\ peer \in {"open", "shut", "gone"}

WriterInit ==
  /\ writing = "await" /\ nth = 0 /\ offset = 0 /\ stalled = "no"
  /\ out = << >> /\ read = 0 /\ asked = 0 /\ peer = "open"

-----------------------------------------------------------------------------
(* The client. *)

\* Not a second one before the first is read (HttpExchange).
Ask ==
  /\ peer = "open" /\ asked = nth /\ asked < MaxResponses
  /\ asked' = asked + 1
  /\ UNCHANGED <<server, read, peer>>

Read ==
  /\ peer # "gone" /\ read < Len(out)
  /\ read' = read + 1
  /\ UNCHANGED <<server, asked, peer>>

Shut ==
  /\ peer = "open"
  /\ peer' = "shut"
  /\ UNCHANGED <<server, read, asked>>

GoAway ==
  /\ peer # "gone"
  /\ peer' = "gone"
  /\ UNCHANGED <<server, read, asked>>

-----------------------------------------------------------------------------
(* SocketStream. *)

Free == Room - (Len(out) - read)

\* is_socket_alive: the end of the stream is seen if nothing is to be read
\* before it.
IsSocketAlive == peer = "open" \/ (peer = "shut" /\ asked > nth)

Units(part, n) ==
  [ i \in 1 .. n |-> [of |-> nth, part |-> part, unit |-> offset + i] ]

\* write: some of what is left.
Writes(part, n) ==
  /\ IsSocketAlive
  /\ n <= Free /\ n > 0
  /\ out' = out \o Units(part, n)

\* It fails at once for a client that is no longer there, and after the write
\* timeout for one that does not read.
WriteFails == ~ IsSocketAlive \/ Free = 0

-----------------------------------------------------------------------------
(* Server. *)

\* keep_alive sees the next request, and it is read and handled, perhaps also
\* if its sender has gone away by then.
NextRequest ==
  /\ writing = "await" /\ asked > nth
  /\ writing' = "head" /\ nth' = nth + 1 /\ offset' = 0
  /\ UNCHANGED <<stalled, out, client>>

Leave ==
  /\ writing = "await" /\ (asked = nth \/ peer = "gone")
  /\ writing' = "closed"
  /\ UNCHANGED <<nth, offset, stalled, out, client>>

WriteHead ==
  /\ writing = "head"
  /\ \E n \in 1 .. (Heads - offset) :
       /\ Writes("head", n)
       /\ IF offset + n = Heads THEN writing' = "body" /\ offset' = 0
          ELSE writing' = "head" /\ offset' = offset + n
  /\ UNCHANGED <<nth, stalled, client>>

\* "Flush buffer": the result of write_data is not looked at.
HeadFails ==
  /\ writing = "head" /\ WriteFails
  /\ writing' = "body" /\ offset' = 0
  /\ stalled' = IF IsSocketAlive THEN "head" ELSE stalled
  /\ UNCHANGED <<nth, out, client>>

WriteBody ==
  /\ writing = "body"
  /\ \E n \in 1 .. (Bodies - offset) :
       /\ Writes("body", n)
       /\ offset' = offset + n
       /\ writing' = IF offset + n = Bodies THEN "await" ELSE "body"
  /\ UNCHANGED <<nth, stalled, client>>

\* Mutant: its result is not looked at, either.
BodyFails_Ignored ==
  /\ writing = "body" /\ WriteFails
  /\ writing' = "await"
  /\ UNCHANGED <<nth, offset, stalled, out, client>>

\* write_response_core returns false, which ends the connection.
BodyFails ==
  /\ writing = "body" /\ WriteFails
  /\ writing' = "closed"
  /\ stalled' = IF IsSocketAlive /\ stalled = "no" THEN "body" ELSE stalled
  /\ UNCHANGED <<nth, offset, out, client>>

WriterNext ==
  \/ Ask \/ Read \/ Shut \/ GoAway
  \/ NextRequest \/ Leave \/ WriteHead \/ HeadFails \/ WriteBody \/ BodyFails

-----------------------------------------------------------------------------
\* The responses to the requests sent so far, whole and in order.
Whole ==
  FlattenSeq([ k \in 1 .. asked |->
    [ i \in 1 .. Heads |-> [of |-> k, part |-> "head", unit |-> i] ]
      \o [ i \in 1 .. Bodies |-> [of |-> k, part |-> "body", unit |-> i] ] ])

Answers(k) == k * (Heads + Bodies)

\* What is sent is the responses to the requests in their order, nothing twice
\* and nothing behind a gap: a response that is cut is the last.  The only
\* exception is a client that lets the connection stall for the write timeout
\* in the middle of headers and then reads on: the body follows all the same.
\* No response is cut for a client that is there and reads.
ResponsesInOrder ==
  /\ stalled # "head" =>
       /\ IsPrefix(out, Whole)
       /\ writing = "await" => Len(out) = Answers(nth)
  /\ stalled = "no" /\ peer = "open" /\ writing = "closed" => Len(out) = Answers(nth)
=============================================================================
