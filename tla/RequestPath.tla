----------------------------- MODULE RequestPath -----------------------------
(***************************************************************************)
(* How a request is answered: HandleIndex (handler.cpp), the two queries   *)
(* it makes through service.cpp and dao.cpp, the one libpq connection they *)
(* share (g_conn), the PostgreSQL server at its other end and the life of  *)
(* the program around them (main_a.cpp, main_d.cpp).                       *)
(*                                                                         *)
(* A worker is a thread that runs HandleIndex: one of the threads of the   *)
(* cpp-httplib pool in scheme A (Pooled), the only thread in scheme D.     *)
(* Nothing in the code locks g_conn, so with several workers the steps of  *)
(* PQexec and PQexecParams on it interleave: each call first throws away   *)
(* what is left on the connection, then sends its statement, then takes    *)
(* whatever result the connection delivers.                                *)
(***************************************************************************)
EXTENDS Grades

CONSTANTS
  Workers,   \* threads that answer requests
  Filters,   \* values of the class parameter of a request
  DbStates,  \* contents the database may have
  DbMoves,   \* changes made to it by others: pairs of contents
  Pooled,    \* TRUE: scheme A, a thread pool; FALSE: scheme D, one loop
  Restarts   \* TRUE: a supervisor starts the program again when it ends

ASSUME PathAssumption ==
  /\ Filters \subseteq Texts
  /\ DbStates \subseteq Database
  /\ \A d \in DbStates : IsFiniteSet(d.students) /\ IsFiniteSet(d.scores)
  /\ \A d \in DbStates : KeysHold(d)
  /\ DbMoves \subseteq DbStates \X DbStates
  /\ Pooled \in BOOLEAN
  /\ Restarts \in BOOLEAN
  /\ Pooled \/ \A v, w \in Workers : v = w

VARIABLES
  app,       \* where main() is: "init", "serving", "draining" or "down"
  g_conn,    \* "null", "ok" or "bad" (PQstatus)
  link,      \* the TCP connection under g_conn: "none", "up" or "broken"
  exchange,  \* the statement in progress on the connection
  server,    \* PostgreSQL: "up" or "down"
  db,        \* contents of the database
  stage,     \* what each worker does next
  call,      \* the query each worker is at: "classes" or "pivot"
  req,       \* classFilter
  classes,   \* the vector QueryClasses returned
  rows,      \* the vector QueryPivot returned
  response   \* what the worker's last request got: a set, empty or of one

main   == <<app, g_conn, link>>
locals == <<stage, call, req, classes, rows, response>>
vars   == <<app, g_conn, link, exchange, server, db,
            stage, call, req, classes, rows, response>>

-----------------------------------------------------------------------------
NoExchange   == [kind |-> "none"]
Lost         == [kind |-> "lost"]
Query(c, f)  == [kind |-> "query", call |-> c, filter |-> f]
Reply(r)     == [kind |-> "reply", res |-> r]

Calls    == {"classes", "pivot"}
Exchange == {NoExchange, Lost}
            \cup { Query(c, f) : c \in Calls, f \in Texts }
            \cup [kind : {"reply"}, res : Result]

\* Inside one of the libpq calls, between its first and its last access to
\* the connection.
InLibpq(w) == g_conn # "null" /\ stage[w] \in {"start", "send", "get"}

AllIdle == \A w \in Workers : stage[w] = "idle"

Init ==
  /\ app = "init"
  /\ g_conn = "null"
  /\ link = "none"
  /\ exchange = NoExchange
  /\ server \in {"up", "down"}
  /\ db \in DbStates
  /\ stage = [w \in Workers |-> "idle"]
  /\ call = [w \in Workers |-> "classes"]
  /\ req = [w \in Workers |-> EmptyText]
  /\ classes = [w \in Workers |-> << >>]
  /\ rows = [w \in Workers |-> << >>]
  /\ response = [w \in Workers |-> {}]

-----------------------------------------------------------------------------
(* main() up to its accept loop: ConnectDb succeeds, or main returns 1. *)

ConnectDb ==
  /\ app = "init"
  /\ server = "up"
  /\ app' = "serving"
  /\ g_conn' = "ok"
  /\ link' = "up"
  /\ UNCHANGED <<exchange, server, db, locals>>

ConnectDbFails ==
  /\ app = "init"
  /\ server = "down"
  /\ app' = "down"
  /\ UNCHANGED <<g_conn, link, exchange, server, db, locals>>

-----------------------------------------------------------------------------
(* HandleIndex. *)

\* A request reaches HandleIndex, which calls QueryClasses first.  Closing
\* the listening socket does not stop the threads of the pool from reading
\* more requests on the connections they keep alive.
Receive(w, f) ==
  /\ app = "serving" \/ (Pooled /\ app = "draining")
  /\ stage[w] = "idle"
  /\ req' = [req EXCEPT ![w] = f]
  /\ call' = [call EXCEPT ![w] = "classes"]
  /\ stage' = [stage EXCEPT ![w] = "start"]
  /\ response' = [response EXCEPT ![w] = {}]
  /\ UNCHANGED <<main, exchange, server, db, classes, rows>>

\* Mutant: a failed query is tried again.
Return_Retries(w, res) ==
  \/ /\ ~ res.ok
     /\ stage' = [stage EXCEPT ![w] = "start"]
     /\ UNCHANGED <<call, req, classes, rows, response>>
  \/ /\ call[w] = "classes"
     /\ res.ok
     /\ classes' = [classes EXCEPT ![w] = ReadClasses(res)]
     /\ call' = [call EXCEPT ![w] = "pivot"]
     /\ stage' = [stage EXCEPT ![w] = "start"]
     /\ UNCHANGED <<req, rows, response>>
  \/ /\ call[w] = "pivot"
     /\ res.ok
     /\ rows' = [rows EXCEPT ![w] = ReadPivot(res)]
     /\ stage' = [stage EXCEPT ![w] = "render"]
     /\ UNCHANGED <<call, req, classes, response>>

\* The query in progress ends with the result res: its vector is filled, or
\* left empty when the status of res is not PGRES_TUPLES_OK, and HandleIndex
\* goes on with the next step.
Return(w, res) ==
  \/ /\ call[w] = "classes"
     /\ classes' = [classes EXCEPT ![w] = ReadClasses(res)]
     /\ call' = [call EXCEPT ![w] = "pivot"]
     /\ stage' = [stage EXCEPT ![w] = "start"]
     /\ UNCHANGED <<req, rows, response>>
  \/ /\ call[w] = "pivot"
     /\ rows' = [rows EXCEPT ![w] = ReadPivot(res)]
     /\ stage' = [stage EXCEPT ![w] = "render"]
     /\ UNCHANGED <<call, req, classes, response>>

\* RenderPage, and the response: both programs answer 200 with the page.
Respond(w) ==
  /\ stage[w] = "render"
  /\ response' = [response EXCEPT ![w] =
       {[ status |-> 200, filter |-> req[w],
          page |-> RenderPage(classes[w], rows[w], req[w]) ]}]
  /\ stage' = [stage EXCEPT ![w] = "idle"]
  /\ call' = [call EXCEPT ![w] = "classes"]
  /\ req' = [req EXCEPT ![w] = EmptyText]
  /\ classes' = [classes EXCEPT ![w] = << >>]
  /\ rows' = [rows EXCEPT ![w] = << >>]
  /\ UNCHANGED <<main, exchange, server, db>>

-----------------------------------------------------------------------------
(***************************************************************************)
(* PQexec and PQexecParams, in the steps that touch the connection.        *)
(***************************************************************************)
\* The query returns at once when g_conn is a null pointer.  Otherwise
\* PQexecStart waits for the end of the statement in progress, if there is
\* one, and discards its result; a broken connection is noticed here too.
StartQuery(w) ==
  /\ stage[w] = "start"
  /\ IF g_conn = "null"
     THEN Return(w, Failed) /\ UNCHANGED <<g_conn, exchange>>
     ELSE /\ exchange.kind # "query"
          /\ exchange' = NoExchange
          /\ g_conn' = IF exchange.kind = "lost" THEN "bad" ELSE g_conn
          /\ stage' = [stage EXCEPT ![w] = "send"]
          /\ UNCHANGED <<call, req, classes, rows, response>>
  /\ UNCHANGED <<app, link, server, db>>

\* PQsendQuery fails on a bad connection and while another command is in
\* progress: the result is a null pointer.
SendRefused(w) ==
  /\ stage[w] = "send"
  /\ g_conn # "ok" \/ exchange # NoExchange
  /\ Return(w, Failed)
  /\ UNCHANGED <<main, exchange, server, db>>

\* Mutant: a bad connection is made again before the statement is sent.
PQsendQuery_Reconnects(w) ==
  /\ stage[w] = "send"
  /\ server = "up"
  /\ exchange = NoExchange
  /\ exchange' = Query(call[w], req[w])
  /\ g_conn' = "ok"
  /\ link' = "up"
  /\ stage' = [stage EXCEPT ![w] = "get"]
  /\ UNCHANGED <<app, server, db, call, req, classes, rows, response>>

\* Otherwise the statement goes out; on a broken link it is lost.
PQsendQuery(w) ==
  /\ stage[w] = "send"
  /\ g_conn = "ok"
  /\ exchange = NoExchange
  /\ exchange' = IF link = "up" THEN Query(call[w], req[w]) ELSE Lost
  /\ stage' = [stage EXCEPT ![w] = "get"]
  /\ UNCHANGED <<main, server, db, call, req, classes, rows, response>>

\* Mutant: PQexec returns before it has read the end of the result.
TakeResult_LeavesEnd(w) ==
  /\ stage[w] = "get"
  /\ exchange.kind = "reply"
  /\ Return(w, exchange.res)
  /\ UNCHANGED <<main, exchange, server, db>>

\* PQgetResult takes the result that is there, whoever's statement it answers.
TakeResult(w) ==
  /\ stage[w] = "get"
  /\ exchange.kind = "reply"
  /\ exchange' = NoExchange
  /\ Return(w, exchange.res)
  /\ UNCHANGED <<main, server, db>>

\* Mutant: the end of the connection is taken for a result still to come.
TakeLoss_Waits(w) ==
  /\ stage[w] = "get"
  /\ exchange = Lost
  /\ g_conn' = "bad"
  /\ UNCHANGED <<app, link, exchange, server, db, locals>>

\* It finds the connection closed: an error result, and the status is bad.
TakeLoss(w) ==
  /\ stage[w] = "get"
  /\ exchange = Lost
  /\ exchange' = NoExchange
  /\ g_conn' = "bad"
  /\ Return(w, Failed)
  /\ UNCHANGED <<app, link, server, db>>

\* It finds no statement in progress, another worker having taken the
\* result: a null pointer.
TakeNothing(w) ==
  /\ stage[w] = "get"
  /\ exchange = NoExchange
  /\ Return(w, Failed)
  /\ UNCHANGED <<main, exchange, server, db>>

Serve(w) ==
  \/ StartQuery(w)
  \/ SendRefused(w)
  \/ PQsendQuery(w)
  \/ TakeResult(w)
  \/ TakeLoss(w)
  \/ TakeNothing(w)
  \/ Respond(w)

-----------------------------------------------------------------------------
(* PostgreSQL and whoever changes the tables. *)

ServerExecute ==
  /\ exchange.kind = "query"
  /\ \E r \in QueryResults(db, exchange.call, exchange.filter) :
       exchange' = Reply(r)
  /\ UNCHANGED <<main, server, db, locals>>

Write ==
  /\ server = "up"
  /\ \E m \in DbMoves : m[1] = db /\ db' = m[2]
  /\ UNCHANGED <<main, exchange, server, locals>>

\* The server stops: its connection breaks, the statement it had not yet
\* answered is lost; an answer already sent still arrives.
ServerStops ==
  /\ server = "up"
  /\ server' = "down"
  /\ link' = IF link = "up" THEN "broken" ELSE link
  /\ exchange' = IF exchange.kind = "query" THEN Lost ELSE exchange
  /\ UNCHANGED <<app, g_conn, db, locals>>

ServerStarts ==
  /\ server = "down"
  /\ server' = "up"
  /\ UNCHANGED <<main, exchange, db, locals>>

-----------------------------------------------------------------------------
(* The end of the program. *)

\* The accept loop ends: listen() closes the pool's queue and waits for its
\* threads, FCGX_Accept_r returns an error between two requests.
AcceptEnds ==
  /\ app = "serving"
  /\ Pooled \/ AllIdle
  /\ app' = "draining"
  /\ UNCHANGED <<g_conn, link, exchange, server, db, locals>>

\* Mutant: the threads of the pool are not joined.
DisconnectDb_NoJoin ==
  /\ app = "draining"
  /\ app' = "down"
  /\ g_conn' = "null"
  /\ link' = "none"
  /\ exchange' = NoExchange
  /\ UNCHANGED <<server, db, locals>>

\* Every thread is joined; DisconnectDb and return.
DisconnectDb ==
  /\ app = "draining"
  /\ AllIdle
  /\ app' = "down"
  /\ g_conn' = "null"
  /\ link' = "none"
  /\ exchange' = NoExchange
  /\ UNCHANGED <<server, db, locals>>

\* The process is gone; what it has answered stays answered.
Gone ==
  /\ app' = "down"
  /\ g_conn' = "null"
  /\ link' = "none"
  /\ exchange' = NoExchange
  /\ stage' = [w \in Workers |-> "idle"]
  /\ call' = [w \in Workers |-> "classes"]
  /\ req' = [w \in Workers |-> EmptyText]
  /\ classes' = [w \in Workers |-> << >>]
  /\ rows' = [w \in Workers |-> << >>]
  /\ UNCHANGED <<server, db, response>>

\* kill, by deploy/stop.sh or the container runtime.
Kill == app # "down" /\ Gone

\* Two threads inside libpq on the same PGconn race on its buffers, and may
\* bring the process down.
RaceCrash ==
  /\ \E v, w \in Workers : v # w /\ InLibpq(v) /\ InLibpq(w)
  /\ Gone

Restart ==
  /\ Restarts
  /\ app = "down"
  /\ app' = "init"
  /\ UNCHANGED <<g_conn, link, exchange, server, db, locals>>

-----------------------------------------------------------------------------
Environment == ServerExecute \/ Write \/ ServerStops \/ ServerStarts

Program == \/ ConnectDb \/ ConnectDbFails \/ AcceptEnds \/ DisconnectDb
           \/ Kill \/ RaceCrash \/ Restart

Next ==
  \/ Program
  \/ Environment
  \/ \E w \in Workers : Serve(w) \/ \E f \in Filters : Receive(w, f)

Spec == Init /\ [][Next]_vars

\* A thread that can run runs, and the server answers the statement it has.
\* Nothing is promised of arrivals, writes, stops, kills and restarts.
FairSpec ==
  /\ Spec
  /\ \A w \in Workers : WF_vars(Serve(w))
  /\ WF_vars(ServerExecute)
-----------------------------------------------------------------------------
(***************************************************************************)
(* Properties.                                                             *)
(***************************************************************************)
\* The values the variables take.
SharedOK ==
  /\ app \in {"init", "serving", "draining", "down"}
  /\ g_conn \in {"null", "ok", "bad"}
  /\ link \in {"none", "up", "broken"}
  /\ exchange \in Exchange
  /\ server \in {"up", "down"}
  /\ db \in DbStates

LocalsOK ==
  /\ stage \in [Workers -> {"idle", "start", "send", "get", "render"}]
  /\ call \in [Workers -> Calls]
  /\ req \in [Workers -> Texts]
  /\ classes \in [Workers -> Seq(Int)]
  /\ DOMAIN rows = Workers
  /\ \A w \in Workers : \A i \in DOMAIN rows[w] : IsRow(rows[w][i])
  /\ DOMAIN response = Workers
  /\ \A w \in Workers : \A r \in response[w] : r.filter \in Texts

TypeOK == SharedOK /\ LocalsOK

\* DisconnectDb (PQfinish, g_conn = nullptr) runs only when no thread is in a
\* request: no query uses the connection after it is freed or before it is
\* made, and the null test of the queries never hides a lost page.
NoUseAfterFinish == g_conn = "null" => AllIdle

\* A statement in progress, or a result not yet taken, always has a thread
\* that waits in PQgetResult: however the threads of the pool take results
\* from each other, none is left behind for a request that comes later.
NoAbandonedResult ==
  exchange # NoExchange => \E w \in Workers : stage[w] = "get"

\* The page answered to a request that names a class shows students of that
\* class only (test_service.cpp:55-57, test.sh:57).
FilterRespected ==
  \A w \in Workers : \A r \in response[w] :
    r.filter # EmptyText =>
      \A i \in DOMAIN r.page.table : r.page.table[i].class = r.filter

\* Tables that nobody changes.
Still == \A m \in DbMoves : db \notin {m[1], m[2]}

\* While nobody changes the tables, a page with a table is whole: the class
\* of each of its rows can be chosen in the menu, and the class asked for is
\* the one selected.  A failure between the two queries may empty the table,
\* never the menu alone.
PageConsistent ==
  Still => \A w \in Workers : \A r \in response[w] :
    LET options == r.page.options
        table == r.page.table
        selected == { i \in DOMAIN options : options[i].selected }
    IN  table # << >> =>
          /\ \A i \in DOMAIN table :
               \E j \in DOMAIN options : options[j].value = table[i].class
          /\ r.filter # EmptyText =>
               \E j \in selected : selected = {j} /\ options[j].value = r.filter

\* While nobody changes the tables, the page without data is answered with
\* 200 only when there is no student to show (design.md:186-188: an SQL
\* failure and a failed connection are answered with 500).
EmptyMeansNoData ==
  \A w \in Workers : \A r \in response[w] :
    (r.status = 200 /\ r.page.table = << >>) =>
      \A s \in db.students : r.filter # EmptyText /\ s.class # r.filter

\* A connection found broken is made again once the server stays up
\* (design.md:63).
Reconnects == <>[](server = "up") => []<>(app = "serving" => g_conn = "ok")

\* Every request that reaches HandleIndex is answered, or the process ends.
RequestServed == \A w \in Workers : stage[w] # "idle" ~> stage[w] = "idle"
=============================================================================
