-------------------------- MODULE RequestPathProofs --------------------------
(***************************************************************************)
(* Theorems about RequestPath, for any set of workers, any contents of the *)
(* database and any changes made to it by others.                          *)
(***************************************************************************)
EXTENDS PathLifecycle, LoopRefinement, GradesProofs

\* The parts of the constants' assumptions the steps use.
LEMMA Contents ==
  ASSUME NEW d \in DbStates
  PROVE  d \in Database /\ IsFiniteSet(d.students)
BY PathAssumption

LEMMA FilterTexts == Filters \subseteq Texts /\ EmptyText \in Texts
BY PathAssumption, DataAssumption

LEMMA RepliesAreExchanges ==
  ASSUME NEW r \in Result
  PROVE  Reply(r) \in Exchange
BY DEF Reply, Exchange

LEMMA ExchangeResult ==
  ASSUME NEW e \in Exchange, e.kind = "reply"
  PROVE  e.res \in Result
BY DEF Exchange, NoExchange, Lost, Query

LEMMA FailedIsResult == Failed \in Result
BY DEF Failed, Result

-----------------------------------------------------------------------------
(* Type correctness. *)

LEMMA InitType == Init => TypeOK
<1> SUFFICES ASSUME Init PROVE TypeOK
  OBVIOUS
<1>1. SharedOK
  BY DEF Init, SharedOK, Exchange
<1>2. LocalsOK
  BY FilterTexts DEF Init, LocalsOK, Calls
<1> QED
  BY <1>1, <1>2 DEF TypeOK

LEMMA ReturnType ==
  ASSUME LocalsOK, NEW w \in Workers, NEW res \in Result, Return(w, res)
  PROVE  LocalsOK'
<1>1. CASE /\ classes' = [classes EXCEPT ![w] = ReadClasses(res)]
           /\ call' = [call EXCEPT ![w] = "pivot"]
           /\ stage' = [stage EXCEPT ![w] = "start"]
           /\ UNCHANGED <<req, rows, response>>
  <2>1. ReadClasses(res) \in Seq(Int)
    BY ReadClassesType
  <2> QED
    BY <1>1, <2>1 DEF LocalsOK, Calls
<1>2. CASE /\ rows' = [rows EXCEPT ![w] = ReadPivot(res)]
           /\ stage' = [stage EXCEPT ![w] = "render"]
           /\ UNCHANGED <<call, req, classes, response>>
  <2>1. \A i \in DOMAIN ReadPivot(res) : IsRow(ReadPivot(res)[i])
    BY ReadPivotType
  <2> QED
    BY <1>2, <2>1 DEF LocalsOK
<1> QED
  BY <1>1, <1>2 DEF Return

LEMMA GoneType ==
  ASSUME TypeOK, Gone
  PROVE  TypeOK'
<1>1. SharedOK'
  BY DEF TypeOK, SharedOK, Gone, Exchange
<1>2. LocalsOK'
  BY FilterTexts DEF TypeOK, LocalsOK, Gone, Calls
<1> QED
  BY <1>1, <1>2 DEF TypeOK

LEMMA ServeType ==
  ASSUME TypeOK, NEW w \in Workers, Serve(w)
  PROVE  TypeOK'
<1> USE DEF TypeOK
<1>1. NoExchange \in Exchange /\ Lost \in Exchange
  BY DEF Exchange
<1>2. CASE StartQuery(w)
  <2>1. SharedOK'
    BY <1>1, <1>2 DEF SharedOK, StartQuery
  <2>2. LocalsOK'
    <3>1. CASE g_conn = "null"
      BY <1>2, <3>1, ReturnType, FailedIsResult DEF StartQuery
    <3>2. CASE g_conn # "null"
      BY <1>2, <3>2 DEF StartQuery, LocalsOK
    <3> QED
      BY <3>1, <3>2
  <2> QED
    BY <2>1, <2>2
<1>3. CASE SendRefused(w)
  <2>1. SharedOK'
    BY <1>3 DEF SharedOK, SendRefused, main
  <2> QED
    BY <1>3, <2>1, ReturnType, FailedIsResult DEF SendRefused
<1>4. CASE PQsendQuery(w)
  <2>1. Query(call[w], req[w]) \in Exchange
    BY DEF LocalsOK, Exchange
  <2>2. SharedOK'
    BY <1>1, <1>4, <2>1 DEF SharedOK, PQsendQuery, main
  <2>3. LocalsOK'
    BY <1>4 DEF LocalsOK, PQsendQuery
  <2> QED
    BY <2>2, <2>3
<1>5. CASE TakeResult(w)
  <2>1. exchange.res \in Result
    BY <1>5, ExchangeResult DEF SharedOK, TakeResult
  <2>2. SharedOK'
    BY <1>1, <1>5 DEF SharedOK, TakeResult, main
  <2> QED
    BY <1>5, <2>1, <2>2, ReturnType DEF TakeResult
<1>6. CASE TakeLoss(w)
  <2>1. SharedOK'
    BY <1>1, <1>6 DEF SharedOK, TakeLoss
  <2> QED
    BY <1>6, <2>1, ReturnType, FailedIsResult DEF TakeLoss
<1>7. CASE TakeNothing(w)
  <2>1. SharedOK'
    BY <1>7 DEF SharedOK, TakeNothing, main
  <2> QED
    BY <1>7, <2>1, ReturnType, FailedIsResult DEF TakeNothing
<1>8. CASE Respond(w)
  <2>1. SharedOK'
    BY <1>8 DEF SharedOK, Respond, main
  <2>2. LocalsOK'
    BY <1>8, FilterTexts DEF LocalsOK, Respond, Calls
  <2> QED
    BY <2>1, <2>2
<1> QED
  BY <1>2, <1>3, <1>4, <1>5, <1>6, <1>7, <1>8 DEF Serve

LEMMA EnvironmentType ==
  ASSUME TypeOK, Environment
  PROVE  TypeOK'
<1> USE DEF TypeOK
<1>1. CASE ServerExecute
  <2>1. exchange.call \in Calls /\ exchange.filter \in Texts
    BY <1>1 DEF ServerExecute, SharedOK, Exchange, NoExchange, Lost, Query
  <2>2. \A r \in QueryResults(db, exchange.call, exchange.filter) : r \in Result
    BY <2>1, Contents, QueryResultsType DEF SharedOK
  <2>3. exchange' \in Exchange
    BY <1>1, <2>2, RepliesAreExchanges DEF ServerExecute
  <2> QED
    BY <1>1, <2>3 DEF ServerExecute, SharedOK, LocalsOK, main, locals
<1>2. CASE Write
  BY <1>2, PathAssumption DEF Write, SharedOK, LocalsOK, main, locals
<1>3. CASE ServerStops
  BY <1>3 DEF ServerStops, SharedOK, LocalsOK, Exchange, locals
<1>4. CASE ServerStarts
  BY <1>4 DEF ServerStarts, SharedOK, LocalsOK, main, locals
<1> QED
  BY <1>1, <1>2, <1>3, <1>4 DEF Environment

LEMMA ProgramType ==
  ASSUME TypeOK, Program
  PROVE  TypeOK'
<1> USE DEF TypeOK
<1>1. CASE ConnectDb
  BY <1>1 DEF ConnectDb, SharedOK, LocalsOK, locals
<1>2. CASE ConnectDbFails
  BY <1>2 DEF ConnectDbFails, SharedOK, LocalsOK, locals
<1>3. CASE AcceptEnds
  BY <1>3 DEF AcceptEnds, SharedOK, LocalsOK, locals
<1>4. CASE DisconnectDb
  BY <1>4 DEF DisconnectDb, SharedOK, LocalsOK, locals, Exchange
<1>5. CASE Kill
  BY <1>5, GoneType DEF Kill
<1>6. CASE RaceCrash
  BY <1>6, GoneType DEF RaceCrash
<1>7. CASE Restart
  BY <1>7 DEF Restart, SharedOK, LocalsOK, locals
<1> QED
  BY <1>1, <1>2, <1>3, <1>4, <1>5, <1>6, <1>7 DEF Program

LEMMA ReceiveType ==
  ASSUME TypeOK, NEW w \in Workers, NEW f \in Filters, Receive(w, f)
  PROVE  TypeOK'
<1>1. SharedOK'
  BY DEF TypeOK, Receive, SharedOK, main
<1>2. LocalsOK'
  BY FilterTexts DEF TypeOK, Receive, LocalsOK, Calls
<1> QED
  BY <1>1, <1>2 DEF TypeOK

LEMMA NextType == TypeOK /\ [Next]_vars => TypeOK'
<1>1. ASSUME TypeOK, UNCHANGED vars PROVE TypeOK'
  BY <1>1 DEF TypeOK, SharedOK, LocalsOK, vars
<1> QED
  BY <1>1, ServeType, EnvironmentType, ProgramType, ReceiveType DEF Next

\* The variables keep their types, for any number of workers, any tables and
\* any interleaving on the shared connection: no result that a thread takes
\* in place of another's is read as something it is not.
THEOREM TypeCorrect == Spec => []TypeOK
<1>1. Init => TypeOK
  BY InitType
<1>2. TypeOK /\ [Next]_vars => TypeOK'
  BY NextType
<1> QED
  BY <1>1, <1>2, PTL DEF Spec

-----------------------------------------------------------------------------
(***************************************************************************)
(* The connection outlives every request.  The state of main() decides     *)
(* whether there is a connection at all, and the two go together.          *)
(***************************************************************************)
Lifecycle ==
  /\ g_conn = "null" <=> app \in {"init", "down"}
  /\ NoUseAfterFinish

LEMMA LifecycleStep ==
  ASSUME TypeOK, Lifecycle, Next
  PROVE  Lifecycle'
<1> USE DEF Lifecycle, NoUseAfterFinish, AllIdle
<1>1. ASSUME NEW w \in Workers, Serve(w)
      PROVE  Lifecycle'
  <2>1. stage[w] # "idle"
    BY <1>1 DEF Serve, StartQuery, SendRefused, PQsendQuery, TakeResult, TakeLoss,
                TakeNothing, Respond
  <2>2. g_conn # "null"
    BY <2>1
  <2>3. app' = app /\ g_conn' \in {g_conn, "bad"}
    BY <1>1 DEF Serve, StartQuery, SendRefused, PQsendQuery, TakeResult, TakeLoss,
                TakeNothing, Respond, main
  <2> QED
    BY <2>2, <2>3
<1>2. ASSUME NEW w \in Workers, NEW f \in Filters, Receive(w, f)
      PROVE  Lifecycle'
  BY <1>2 DEF Receive, main
<1>3. CASE Environment
  BY <1>3 DEF Environment, ServerExecute, Write, ServerStops, ServerStarts, main, locals
<1>4. CASE ConnectDb
  BY <1>4 DEF ConnectDb
<1>5. CASE ConnectDbFails
  BY <1>5 DEF ConnectDbFails, locals
<1>6. CASE AcceptEnds
  BY <1>6 DEF AcceptEnds, locals
<1>7. CASE DisconnectDb
  BY <1>7 DEF DisconnectDb, locals
<1>8. CASE Kill \/ RaceCrash
  BY <1>8 DEF Kill, RaceCrash, Gone
<1>9. CASE Restart
  BY <1>9 DEF Restart, locals
<1> QED
  BY <1>1, <1>2, <1>3, <1>4, <1>5, <1>6, <1>7, <1>8, <1>9 DEF Next, Program

\* PQfinish is never called, and g_conn is never null, while a thread is in a
\* request, whatever the number of threads: main() reaches DisconnectDb only
\* when listen() has joined the pool or the accept loop is over.
THEOREM ConnectionOutlivesRequests == Spec => []NoUseAfterFinish
<1>1. Init => Lifecycle
  BY DEF Init, Lifecycle, NoUseAfterFinish, AllIdle
<1>2. TypeOK /\ Lifecycle /\ [Next]_vars => Lifecycle'
  <2>1. CASE Next
    BY <2>1, LifecycleStep
  <2>2. CASE UNCHANGED vars
    BY <2>2 DEF vars, Lifecycle, NoUseAfterFinish, AllIdle
  <2> QED
    BY <2>1, <2>2
<1>3. Lifecycle => NoUseAfterFinish
  BY DEF Lifecycle
<1> QED
  BY <1>1, <1>2, <1>3, TypeCorrect, PTL DEF Spec

-----------------------------------------------------------------------------
(* No result is left on the connection. *)

LEMMA NoAbandonedStep ==
  ASSUME TypeOK, NoAbandonedResult, Next
  PROVE  NoAbandonedResult'
<1> USE DEF NoAbandonedResult
<1>0. DOMAIN stage = Workers
  BY DEF TypeOK, LocalsOK
<1>1. ASSUME NEW w \in Workers, StartQuery(w)
      PROVE  NoAbandonedResult'
  BY <1>0, <1>1 DEF StartQuery, Return
<1>2. ASSUME NEW w \in Workers, SendRefused(w)
      PROVE  NoAbandonedResult'
  BY <1>0, <1>2 DEF SendRefused, Return
<1>3. ASSUME NEW w \in Workers, PQsendQuery(w)
      PROVE  NoAbandonedResult'
  BY <1>0, <1>3 DEF PQsendQuery
<1>4. ASSUME NEW w \in Workers, TakeResult(w) \/ TakeLoss(w) \/ TakeNothing(w)
      PROVE  NoAbandonedResult'
  BY <1>4 DEF TakeResult, TakeLoss, TakeNothing
<1>5. ASSUME NEW w \in Workers, Respond(w)
      PROVE  NoAbandonedResult'
  BY <1>0, <1>5 DEF Respond
<1>6. ASSUME NEW w \in Workers, NEW f \in Filters, Receive(w, f)
      PROVE  NoAbandonedResult'
  BY <1>0, <1>6 DEF Receive
<1>7. CASE Environment
  <2>1. stage' = stage
    BY <1>7 DEF Environment, ServerExecute, Write, ServerStops, ServerStarts, locals
  <2>2. exchange' # NoExchange => exchange # NoExchange
    BY <1>7 DEF Environment, ServerExecute, Write, ServerStops, ServerStarts, NoExchange
  <2> QED
    BY <2>1, <2>2
<1>8. CASE Program
  BY <1>8 DEF Program, ConnectDb, ConnectDbFails, AcceptEnds, DisconnectDb, Kill,
              RaceCrash, Gone, Restart, locals
<1> QED
  BY <1>1, <1>2, <1>3, <1>4, <1>5, <1>6, <1>7, <1>8 DEF Next, Serve

\* However many threads share the connection and however they take results
\* from each other, a result is on it only while a thread waits for one.
THEOREM NoResultAbandoned == Spec => []NoAbandonedResult
<1>1. Init => NoAbandonedResult
  BY DEF Init, NoAbandonedResult
<1>2. TypeOK /\ NoAbandonedResult /\ [Next]_vars => NoAbandonedResult'
  <2>1. CASE Next
    BY <2>1, NoAbandonedStep
  <2>2. CASE UNCHANGED vars
    BY <2>2 DEF vars, NoAbandonedResult
  <2> QED
    BY <2>1, <2>2
<1> QED
  BY <1>1, <1>2, TypeCorrect, PTL DEF Spec

-----------------------------------------------------------------------------
(***************************************************************************)
(* The filter, with one worker.  What the server is asked for, what it     *)
(* answers and what has been read from the answer all fit the request that *)
(* the worker is at.                                                       *)
(***************************************************************************)
AllOfClass(table, f) ==
  f # EmptyText => \A i \in DOMAIN table : table[i].className = f

QueryFits ==
  exchange.kind = "query" =>
    \A w \in Workers : /\ stage[w] = "get"
                       /\ exchange.call = call[w] /\ exchange.filter = req[w]

ReplyFits ==
  exchange.kind = "reply" =>
    \A w \in Workers : /\ stage[w] = "get"
                       /\ call[w] = "pivot" => AllOfClass(ReadPivot(exchange.res), req[w])

RowsFit ==
  \A w \in Workers : /\ AllOfClass(rows[w], req[w])
                     /\ stage[w] # "render" => rows[w] = << >>

FilterInv == QueryFits /\ ReplyFits /\ RowsFit /\ FilterRespected

LEMMA NoRows == \A f : AllOfClass(<< >>, f) /\ AllOfClass(ReadPivot(Failed), f)
<1>1. DOMAIN << >> = {} /\ DOMAIN ReadPivot(Failed) = {}
  BY DEF ReadPivot, Failed
<1> QED
  BY <1>1 DEF AllOfClass

LEMMA ReturnFits ==
  ASSUME TypeOK, RowsFit, NEW w \in Workers, NEW res, Return(w, res),
         call[w] = "pivot" => AllOfClass(ReadPivot(res), req[w]),
         stage[w] # "render"
  PROVE  RowsFit'
<1>1. DOMAIN stage = Workers /\ DOMAIN rows = Workers
  BY DEF TypeOK, LocalsOK
<1>2. ASSUME NEW v \in Workers
      PROVE  AllOfClass(rows'[v], req'[v]) /\ (stage'[v] # "render" => rows'[v] = << >>)
  <2>1. req' = req
    BY DEF Return
  <2>2. CASE v = w
    BY <1>1, <2>1, <2>2 DEF Return, RowsFit
  <2>3. CASE v # w
    BY <1>1, <2>1, <2>3 DEF Return, RowsFit
  <2> QED
    BY <2>2, <2>3
<1> QED
  BY <1>2 DEF RowsFit, AllOfClass

LEMMA PageRows ==
  ASSUME NEW c, NEW table, NEW f, AllOfClass(table, f), f # EmptyText
  PROVE  \A i \in DOMAIN RenderPage(c, table, f).table :
           RenderPage(c, table, f).table[i].class = f
BY DEF RenderPage, RenderTable, AllOfClass

LEMMA ServeFilter ==
  ASSUME \A v, w \in Workers : v = w, TypeOK, FilterInv, NEW w \in Workers, Serve(w)
  PROVE  FilterInv'
<1> USE DEF FilterInv
<1>0. /\ DOMAIN stage = Workers /\ DOMAIN call = Workers
      /\ DOMAIN rows = Workers /\ DOMAIN response = Workers /\ DOMAIN req = Workers
  BY DEF TypeOK, LocalsOK
<1>1. NoExchange.kind = "none" /\ Lost.kind = "lost"
  BY DEF NoExchange, Lost
<1>2. ASSUME NEW res, Return(w, res), stage[w] # "render", exchange' = NoExchange,
             call[w] = "pivot" => AllOfClass(ReadPivot(res), req[w])
      PROVE  FilterInv'
  <2>1. RowsFit'
    BY <1>2, ReturnFits
  <2>2. response' = response
    BY <1>2 DEF Return
  <2> QED
    BY <1>1, <1>2, <2>1, <2>2 DEF QueryFits, ReplyFits, FilterRespected
<1>3. ASSUME stage[w] # "get" PROVE exchange.kind \notin {"query", "reply"}
  BY <1>3 DEF QueryFits, ReplyFits
<1>4. CASE StartQuery(w)
  <2>1. CASE g_conn = "null"
    <3>1. exchange' = exchange /\ Return(w, Failed) /\ stage[w] = "start"
      BY <1>4, <2>1 DEF StartQuery
    <3>2. RowsFit'
      BY <3>1, ReturnFits, NoRows
    <3>3. response' = response
      BY <3>1 DEF Return
    <3> QED
      BY <1>3, <3>1, <3>2, <3>3 DEF QueryFits, ReplyFits, FilterRespected
  <2>2. CASE g_conn # "null"
    <3>1. /\ exchange' = NoExchange /\ stage[w] = "start"
          /\ stage' = [stage EXCEPT ![w] = "send"]
          /\ UNCHANGED <<call, req, classes, rows, response>>
      BY <1>4, <2>2 DEF StartQuery
    <3> QED
      BY <1>0, <1>1, <3>1 DEF QueryFits, ReplyFits, RowsFit, FilterRespected, AllOfClass
  <2> QED
    BY <2>1, <2>2
<1>5. CASE SendRefused(w)
  <2>1. exchange' = exchange /\ Return(w, Failed) /\ stage[w] = "send"
    BY <1>5 DEF SendRefused
  <2>2. RowsFit'
    BY <2>1, ReturnFits, NoRows
  <2>3. response' = response
    BY <2>1 DEF Return
  <2> QED
    BY <1>3, <2>1, <2>2, <2>3 DEF QueryFits, ReplyFits, FilterRespected
<1>6. CASE PQsendQuery(w)
  <2>1. exchange' \in {Query(call[w], req[w]), Lost}
    BY <1>6 DEF PQsendQuery
  <2>2. /\ stage' = [stage EXCEPT ![w] = "get"]
        /\ UNCHANGED <<call, req, rows, response>>
    BY <1>6 DEF PQsendQuery
  <2>3. stage'[w] = "get" /\ stage[w] = "send"
    BY <1>0, <1>6, <2>2 DEF PQsendQuery
  <2>4. QueryFits' /\ ReplyFits'
    BY <1>1, <2>1, <2>2, <2>3 DEF QueryFits, ReplyFits, Query
  <2>5. RowsFit'
    BY <2>2, <2>3 DEF RowsFit, AllOfClass
  <2> QED
    BY <2>2, <2>4, <2>5 DEF FilterRespected
<1>7. CASE TakeResult(w)
  <2>1. /\ exchange.kind = "reply" /\ exchange' = NoExchange /\ stage[w] = "get"
        /\ Return(w, exchange.res)
    BY <1>7 DEF TakeResult
  <2> QED
    BY <1>2, <2>1 DEF ReplyFits
<1>8. CASE TakeLoss(w) \/ TakeNothing(w)
  <2>1. exchange' = NoExchange /\ stage[w] = "get" /\ Return(w, Failed)
    BY <1>8 DEF TakeLoss, TakeNothing
  <2> QED
    BY <1>2, <2>1, NoRows
<1>9. CASE Respond(w)
  <2>1. stage[w] = "render" /\ exchange' = exchange
    BY <1>9 DEF Respond
  <2>2. /\ stage' = [stage EXCEPT ![w] = "idle"]
        /\ rows' = [rows EXCEPT ![w] = << >>]
        /\ req' = [req EXCEPT ![w] = EmptyText]
        /\ response' = [response EXCEPT ![w] =
             {[ status |-> 200, filter |-> req[w],
                page |-> RenderPage(classes[w], rows[w], req[w]) ]}]
    BY <1>9 DEF Respond
  <2>3. rows'[w] = << >> /\ stage'[w] = "idle" /\ req'[w] = EmptyText
    BY <1>0, <2>2
  <2>4. RowsFit'
    BY <2>3, NoRows DEF RowsFit, AllOfClass
  <2>5. AllOfClass(rows[w], req[w])
    BY DEF RowsFit
  <2>6. response'[w] = {[ status |-> 200, filter |-> req[w],
                          page |-> RenderPage(classes[w], rows[w], req[w]) ]}
    BY <1>0, <2>2
  <2>7. FilterRespected'
    BY <2>5, <2>6, PageRows DEF FilterRespected
  <2> QED
    BY <1>3, <2>1, <2>4, <2>7 DEF QueryFits, ReplyFits
<1> QED
  BY <1>4, <1>5, <1>6, <1>7, <1>8, <1>9 DEF Serve

LEMMA ReceiveFilter ==
  ASSUME \A v, w \in Workers : v = w, TypeOK, FilterInv,
         NEW w \in Workers, NEW f \in Filters, Receive(w, f)
  PROVE  FilterInv'
<1>1. DOMAIN stage = Workers /\ DOMAIN req = Workers /\ DOMAIN response = Workers
  BY DEF TypeOK, LocalsOK
<1>2. /\ stage[w] = "idle" /\ stage'[w] = "start" /\ response'[w] = {}
      /\ rows' = rows /\ exchange' = exchange
  BY <1>1 DEF Receive
<1>3. exchange.kind \notin {"query", "reply"} /\ rows[w] = << >>
  BY <1>2 DEF FilterInv, QueryFits, ReplyFits, RowsFit
<1>4. QueryFits' /\ ReplyFits' /\ FilterRespected'
  BY <1>2, <1>3 DEF QueryFits, ReplyFits, FilterRespected
<1>5. RowsFit'
  BY <1>2, <1>3, NoRows DEF RowsFit, AllOfClass
<1> QED
  BY <1>4, <1>5 DEF FilterInv

LEMMA EnvironmentFilter ==
  ASSUME TypeOK, FilterInv, Environment
  PROVE  FilterInv'
<1>1. UNCHANGED locals
  BY DEF Environment, ServerExecute, Write, ServerStops, ServerStarts
<1>2. RowsFit' /\ FilterRespected'
  BY <1>1 DEF FilterInv, RowsFit, FilterRespected, AllOfClass, locals
<1>3. CASE ServerExecute
  <2>1. PICK r \in QueryResults(db, exchange.call, exchange.filter) : exchange' = Reply(r)
    BY <1>3 DEF ServerExecute
  <2>2. exchange.kind = "query"
    BY <1>3 DEF ServerExecute
  <2>3. ASSUME NEW w \in Workers
        PROVE  /\ stage[w] = "get"
               /\ call[w] = "pivot" => AllOfClass(ReadPivot(r), req[w])
    <3>1. stage[w] = "get" /\ exchange.call = call[w] /\ exchange.filter = req[w]
      BY <2>2 DEF FilterInv, QueryFits
    <3>2. req[w] \in Texts /\ db \in Database /\ IsFiniteSet(db.students)
      BY Contents DEF TypeOK, SharedOK, LocalsOK
    <3> QED
      BY <2>1, <3>1, <3>2, PivotFiltered DEF AllOfClass
  <2>4. exchange'.kind = "reply" /\ exchange'.res = r
    BY <2>1 DEF Reply
  <2> QED
    BY <1>1, <1>2, <2>3, <2>4 DEF FilterInv, QueryFits, ReplyFits, AllOfClass, locals
<1>4. CASE Write \/ ServerStarts
  BY <1>1, <1>2, <1>4
  DEF Write, ServerStarts, FilterInv, QueryFits, ReplyFits, AllOfClass, locals
<1>5. CASE ServerStops
  <2>1. exchange' = exchange \/ exchange'.kind = "lost"
    BY <1>5 DEF ServerStops, Lost
  <2> QED
    BY <1>1, <1>2, <2>1 DEF FilterInv, QueryFits, ReplyFits, AllOfClass, locals
<1> QED
  BY <1>3, <1>4, <1>5 DEF Environment

LEMMA ProgramFilter ==
  ASSUME TypeOK, FilterInv, Program
  PROVE  FilterInv'
<1> USE DEF FilterInv, QueryFits, ReplyFits, RowsFit, FilterRespected, AllOfClass
<1>1. CASE ConnectDb \/ ConnectDbFails \/ AcceptEnds \/ Restart
  BY <1>1 DEF ConnectDb, ConnectDbFails, AcceptEnds, Restart, locals
<1>2. CASE DisconnectDb
  BY <1>2 DEF DisconnectDb, locals, NoExchange
<1>3. CASE Gone
  <2>1. /\ exchange'.kind = "none" /\ response' = response
        /\ \A w \in Workers : rows'[w] = << >> /\ req'[w] = EmptyText
    BY <1>3 DEF Gone, NoExchange
  <2> QED
    BY <2>1
<1> QED
  BY <1>1, <1>2, <1>3 DEF Program, Kill, RaceCrash

\* With one worker, as in scheme D, a page asked for one class shows that
\* class only: across failures, restarts and changes of the tables, the
\* result taken from the connection is never that of another statement.
THEOREM OneWorkerRespectsFilter ==
  ASSUME \A v, w \in Workers : v = w
  PROVE  Spec => []FilterRespected
<1>1. Init => FilterInv
  BY NoRows DEF Init, FilterInv, QueryFits, ReplyFits, RowsFit, FilterRespected, NoExchange
<1>2. TypeOK /\ FilterInv /\ [Next]_vars => FilterInv'
  <2>1. ASSUME TypeOK, FilterInv, Next PROVE FilterInv'
    BY <2>1, ServeFilter, ReceiveFilter, EnvironmentFilter, ProgramFilter DEF Next
  <2>2. ASSUME FilterInv, UNCHANGED vars PROVE FilterInv'
    BY <2>2 DEF vars, FilterInv, QueryFits, ReplyFits, RowsFit, FilterRespected, AllOfClass
  <2> QED
    BY <2>1, <2>2
<1>3. FilterInv => FilterRespected
  BY DEF FilterInv
<1> QED
  BY <1>1, <1>2, <1>3, TypeCorrect, PTL DEF Spec

-----------------------------------------------------------------------------
(* The life of the process, as main() and cpp-httplib see it. *)

InRequest == { w \in Workers : stage[w] # "idle" }

LEMMA ServeLives ==
  ASSUME TypeOK, NEW w \in Workers, Serve(w)
  PROVE  [PathLife!Next]_(PathLife!vars)
<1>1. app' = app
  BY DEF Serve, StartQuery, SendRefused, PQsendQuery, TakeResult, TakeLoss,
     TakeNothing, Respond, main
<1>2. stage[w] # "idle"
  BY DEF Serve, StartQuery, SendRefused, PQsendQuery, TakeResult, TakeLoss,
     TakeNothing, Respond
<1>3. \E s \in {"idle", "start", "send", "get", "render"} :
        stage' = [stage EXCEPT ![w] = s]
  BY DEF Serve, StartQuery, SendRefused, PQsendQuery, TakeResult, TakeLoss,
     TakeNothing, Respond, Return
<1>4. PICK s \in {"idle", "start", "send", "get", "render"} :
        stage' = [stage EXCEPT ![w] = s]
  BY <1>3
<1>5. DOMAIN stage = Workers
  BY DEF TypeOK, LocalsOK
<1>6. CASE s = "idle"
  <2>1. w \in InRequest /\ InRequest' = InRequest \ {w}
    BY <1>2, <1>4, <1>5, <1>6 DEF InRequest
  <2>2. PathLife!Answer(w)
    BY <1>1, <2>1 DEF PathLife!Answer, InRequest
  <2> QED
    BY <2>2 DEF PathLife!Next
<1>7. CASE s # "idle"
  <2>1. InRequest' = InRequest
    BY <1>2, <1>4, <1>5, <1>7 DEF InRequest
  <2> QED
    BY <1>1, <2>1 DEF PathLife!vars, InRequest
<1> QED
  BY <1>6, <1>7

LEMMA ReceiveLives ==
  ASSUME TypeOK, NEW w \in Workers, NEW f \in Filters, Receive(w, f)
  PROVE  PathLife!Next
<1>1. /\ app \in {"serving", "draining"} /\ app' = app
      /\ stage[w] = "idle" /\ stage' = [stage EXCEPT ![w] = "start"]
      /\ DOMAIN stage = Workers
  BY DEF Receive, main, TypeOK, LocalsOK
<1>2. w \notin InRequest /\ InRequest' = InRequest \cup {w}
  BY <1>1 DEF InRequest
<1>3. PathLife!Receive(w)
  BY <1>1, <1>2 DEF PathLife!Receive, InRequest
<1> QED
  BY <1>3 DEF PathLife!Next

LEMMA ProgramLives ==
  ASSUME TypeOK, Lifecycle, Program
  PROVE  PathLife!Next
<1>1. CASE ConnectDb
  <2>1. PathLife!Listen
    BY <1>1 DEF ConnectDb, locals, PathLife!Listen
  <2> QED
    BY <2>1 DEF PathLife!Next
<1>2. CASE ConnectDbFails
  <2>1. \A w \in Workers : stage[w] = "idle" /\ stage' = stage
    BY <1>2 DEF ConnectDbFails, locals, Lifecycle, NoUseAfterFinish, AllIdle
  <2>2. InRequest' = {}
    BY <2>1 DEF InRequest
  <2>3. PathLife!Die
    BY <1>2, <2>2 DEF ConnectDbFails, PathLife!Die, InRequest
  <2> QED
    BY <2>3 DEF PathLife!Next
<1>3. CASE AcceptEnds
  <2>1. PathLife!StopListening
    BY <1>3 DEF AcceptEnds, locals, PathLife!StopListening
  <2> QED
    BY <2>1 DEF PathLife!Next
<1>4. CASE DisconnectDb
  <2>1. InRequest = {} /\ InRequest' = InRequest
    BY <1>4 DEF DisconnectDb, AllIdle, InRequest, locals
  <2>2. PathLife!Return
    BY <1>4, <2>1 DEF DisconnectDb, PathLife!Return, InRequest
  <2> QED
    BY <2>2 DEF PathLife!Next
<1>5. CASE Kill \/ RaceCrash
  <2>1. app # "down" /\ app' = "down"
    BY <1>5 DEF Kill, RaceCrash, Gone, InLibpq, Lifecycle
  <2>2. InRequest' = {}
    BY <1>5 DEF Kill, RaceCrash, Gone, InRequest
  <2>3. PathLife!Die
    BY <2>1, <2>2 DEF PathLife!Die, InRequest
  <2> QED
    BY <2>3 DEF PathLife!Next
<1>6. CASE Restart
  <2>1. PathLife!Start
    BY <1>6 DEF Restart, locals, PathLife!Start
  <2> QED
    BY <2>1 DEF PathLife!Next
<1> QED
  BY <1>1, <1>2, <1>3, <1>4, <1>5, <1>6 DEF Program

\* A request is in HandleIndex only between ConnectDb and DisconnectDb of one
\* life of the process, however many threads there are and however it ends:
\* the same abstract life that HttpServerProofs shows for the threads of
\* cpp-httplib.
THEOREM HandleIndexKeepsLifecycle == Spec => PathKeepsLifecycle
<1>1. Init => PathLife!Init
  <2> SUFFICES ASSUME Init PROVE PathLife!Init
    OBVIOUS
  <2>1. InRequest = {}
    BY DEF Init, InRequest
  <2> QED
    BY <2>1 DEF Init, InRequest, PathLife!Init
<1>2. Init => TypeOK /\ Lifecycle
  BY InitType DEF Init, Lifecycle, NoUseAfterFinish, AllIdle
<1>3. TypeOK /\ Lifecycle /\ [Next]_vars => (TypeOK /\ Lifecycle)'
  <2>1. CASE Next
    BY <2>1, LifecycleStep, NextType
  <2>2. CASE UNCHANGED vars
    BY <2>2, NextType DEF vars, Lifecycle, NoUseAfterFinish, AllIdle
  <2> QED
    BY <2>1, <2>2
<1>4. TypeOK /\ Lifecycle /\ [Next]_vars => [PathLife!Next]_(PathLife!vars)
  <2> SUFFICES ASSUME TypeOK, Lifecycle, [Next]_vars
               PROVE  [PathLife!Next]_(PathLife!vars)
    OBVIOUS
  <2>1. CASE UNCHANGED vars
    BY <2>1 DEF vars, PathLife!vars
  <2>2. CASE Environment
    <3>1. UNCHANGED <<app, stage>>
      BY <2>2 DEF Environment, ServerExecute, Write, ServerStops, ServerStarts,
         main, locals
    <3> QED
      BY <3>1 DEF PathLife!vars
  <2>3. CASE Program
    BY <2>3, ProgramLives
  <2>4. ASSUME NEW w \in Workers, Serve(w) \/ \E f \in Filters : Receive(w, f)
        PROVE  [PathLife!Next]_(PathLife!vars)
    BY <2>4, ServeLives, ReceiveLives
  <2> QED
    BY <2>1, <2>2, <2>3, <2>4 DEF Next
<1> QED
  BY <1>1, <1>2, <1>3, <1>4, PTL DEF Spec, PathKeepsLifecycle, PathLife!Spec

-----------------------------------------------------------------------------
(***************************************************************************)
(* One worker implements PageService.  The instance has the statements,    *)
(* the results and the page of Grades once more; they are the same.        *)
(***************************************************************************)
LEMMA SameJoined ==
  ASSUME NEW d, NEW f
  PROVE  Service!Joined(d, f) = Joined(d, f)
BY DEF Service!Joined, Service!NoScore, Service!EmptyText, Joined, NoScore, EmptyText

LEMMA SameTuple ==
  ASSUME NEW J, NEW s
  PROVE  Service!GroupTuple(J, s) = GroupTuple(J, s)
BY DEF Service!GroupTuple, Service!kSubjectCount, Service!SubjectColumn, Service!SqlMax,
   GroupTuple, kSubjectCount, SubjectColumn, SqlMax

LEMMA SameSize ==
  ASSUME NEW S
  PROVE  Service!Cardinality(S) = Cardinality(S)
BY DEF Service!Cardinality, Cardinality

LEMMA SameClassTuples ==
  ASSUME NEW d
  PROVE  Service!ClassTuples(d) = ClassTuples(d)
BY SameSize DEF Service!ClassTuples, Service!OrderBy, Service!TextBefore,
   ClassTuples, OrderBy, TextBefore

LEMMA SamePivotTuples ==
  ASSUME NEW d, NEW f
  PROVE  Service!PivotTuples(d, f) = PivotTuples(d, f)
<1> DEFINE J == Joined(d, f)
           S == { j.s : j \in J }
<1>1. PivotTuples(d, f) =
        { [i \in DOMAIN o |-> GroupTuple(J, o[i])] : o \in OrderBy(S, StudentBefore) }
  BY DEF PivotTuples
<1>2. Service!PivotTuples(d, f) =
        { [i \in DOMAIN o |-> GroupTuple(J, o[i])] :
            o \in Service!OrderBy(S, Service!StudentBefore) }
  BY SameJoined, SameTuple DEF Service!PivotTuples
<1> HIDE DEF S
<1>3. Service!OrderBy(S, Service!StudentBefore) = OrderBy(S, StudentBefore)
  BY SameSize DEF Service!OrderBy, OrderBy, StudentBefore, Service!StudentBefore
<1> QED
  BY <1>1, <1>2, <1>3

LEMMA SameReads ==
  ASSUME NEW d, NEW c, NEW f
  PROVE  Service!QueryResults(d, c, f) = QueryResults(d, c, f)
BY SameClassTuples, SamePivotTuples
DEF Service!QueryResults, Service!Failed, Service!TuplesOk, QueryResults, Failed, TuplesOk

LEMMA SameClasses ==
  ASSUME NEW r
  PROVE  Service!ReadClasses(r) = ReadClasses(r)
BY DEF Service!ReadClasses, Service!GetString, Service!IsNull, Service!EmptyText,
   ReadClasses, GetString, IsNull, EmptyText

LEMMA SamePivot ==
  ASSUME NEW r
  PROVE  Service!ReadPivot(r) = ReadPivot(r)
BY DEF Service!ReadPivot, Service!ReadRow, Service!ReadScores, Service!Atoi,
   Service!kSubjectCount, Service!GetString, Service!IsNull, Service!EmptyText,
   ReadPivot, ReadRow, ReadScores, Atoi, kSubjectCount, GetString, IsNull, EmptyText

LEMMA SamePage ==
  ASSUME NEW c, NEW t, NEW f
  PROVE  Service!RenderPage(c, t, f) = RenderPage(c, t, f)
BY DEF Service!RenderPage, Service!RenderClassSelect, Service!RenderTable,
   Service!kSubjectCount, Service!FormatScore, Service!Dash,
   RenderPage, RenderClassSelect, RenderTable, kSubjectCount, FormatScore, Dash

LEMMA SameNone == Service!Failed = Failed /\ Service!EmptyText = EmptyText
BY DEF Service!Failed, Failed, Service!EmptyText, EmptyText

\* What a read may give, in the words of RequestPath.
LEMMA ReadableHere ==
  ASSUME NEW c
  PROVE  Service!Readable(c) =
           IF link = "up" THEN QueryResults(db, c, req[TheWorker]) ELSE {Failed}
BY SameReads, SameNone DEF Service!Readable

(***************************************************************************)
(* What one worker knows of the connection.  Something is on it just while *)
(* the worker waits for it; a statement is on it only while the link is    *)
(* up; and whatever says that the link was lost says so truly, so a query  *)
(* that fails finds the database out of reach.                             *)
(***************************************************************************)
OneWorker == TheWorker \in Workers /\ \A w \in Workers : w = TheWorker

LoopInv ==
  /\ QueryFits
  /\ \A w \in Workers : stage[w] = "get" <=> exchange.kind # "none"
  /\ exchange.kind = "query" => link = "up"
  /\ exchange.kind = "lost" => link # "up"
  /\ g_conn = "bad" => link # "up"
  /\ app \in {"init", "down"} => link = "none"

LEMMA Kinds ==
  /\ NoExchange.kind = "none" /\ Lost.kind = "lost"
  /\ \A c, f : Query(c, f).kind = "query" /\ Query(c, f).call = c /\ Query(c, f).filter = f
  /\ \A r : Reply(r).kind = "reply" /\ Reply(r).res = r
BY DEF NoExchange, Lost, Query, Reply

LEMMA KindsOf ==
  ASSUME TypeOK
  PROVE  /\ exchange.kind \in {"none", "lost", "query", "reply"}
         /\ exchange = NoExchange <=> exchange.kind = "none"
         /\ exchange = Lost <=> exchange.kind = "lost"
<1>1. exchange \in Exchange
  BY DEF TypeOK, SharedOK
<1> QED
  BY <1>1 DEF Exchange, NoExchange, Lost, Query

LEMMA ReturnStage ==
  ASSUME NEW w \in Workers, NEW r, Return(w, r), DOMAIN stage = Workers
  PROVE  stage'[w] \in {"start", "render"} /\ UNCHANGED <<req, response>>
BY DEF Return

LEMMA ServeLoop ==
  ASSUME OneWorker, TypeOK, Lifecycle, LoopInv, NEW w \in Workers, Serve(w)
  PROVE  LoopInv'
<1>0. /\ DOMAIN stage = Workers /\ \A v \in Workers : v = w
      /\ stage[w] = "get" <=> exchange.kind # "none"
  BY DEF OneWorker, TypeOK, LocalsOK, LoopInv
<1>1. app' = app /\ link' = link
  BY DEF Serve, StartQuery, SendRefused, PQsendQuery, TakeResult, TakeLoss, TakeNothing,
     Respond, main
<1>2. stage[w] # "idle" /\ g_conn # "null"
  BY DEF Serve, StartQuery, SendRefused, PQsendQuery, TakeResult, TakeLoss, TakeNothing,
     Respond, Lifecycle, NoUseAfterFinish, AllIdle
<1>3. ASSUME stage'[w] # "get", exchange'.kind = "none", g_conn' = "bad" => link # "up"
      PROVE  LoopInv'
  BY <1>0, <1>1, <1>3 DEF LoopInv, QueryFits
<1>4. CASE StartQuery(w)
  <2>1. stage[w] = "start" /\ stage' = [stage EXCEPT ![w] = "send"] /\ exchange' = NoExchange
        /\ g_conn' = IF exchange.kind = "lost" THEN "bad" ELSE g_conn
    BY <1>2, <1>4 DEF StartQuery
  <2>2. stage'[w] = "send" /\ g_conn' = g_conn
    BY <1>0, <2>1
  <2> QED
    BY <1>3, <2>1, <2>2, Kinds DEF LoopInv
<1>5. CASE SendRefused(w) \/ TakeNothing(w) \/ TakeResult(w)
  <2>1. /\ g_conn' = g_conn /\ stage[w] \in {"send", "get"}
        /\ \E r : Return(w, r)
        /\ stage[w] = "send" => exchange' = exchange
        /\ stage[w] = "get" => exchange' = NoExchange
    BY <1>5 DEF SendRefused, TakeNothing, TakeResult, main
  <2>2. stage'[w] # "get"
    BY <1>0, <2>1, ReturnStage
  <2>3. exchange'.kind = "none"
    BY <1>0, <2>1, Kinds
  <2> QED
    BY <1>3, <2>1, <2>2, <2>3 DEF LoopInv
<1>6. CASE PQsendQuery(w)
  <2>1. /\ exchange' = IF link = "up" THEN Query(call[w], req[w]) ELSE Lost
        /\ stage' = [stage EXCEPT ![w] = "get"]
        /\ UNCHANGED <<g_conn, call, req>>
    BY <1>6 DEF PQsendQuery, main
  <2>2. stage'[w] = "get"
    BY <1>0, <2>1
  <2>3. CASE link = "up"
    BY <1>0, <1>1, <2>1, <2>2, <2>3, Kinds DEF LoopInv, QueryFits
  <2>4. CASE link # "up"
    BY <1>0, <1>1, <2>1, <2>2, <2>4, Kinds DEF LoopInv, QueryFits
  <2> QED
    BY <2>3, <2>4
<1>7. CASE TakeLoss(w)
  <2>1. exchange = Lost /\ exchange' = NoExchange /\ Return(w, Failed)
    BY <1>7 DEF TakeLoss
  <2>2. stage'[w] # "get" /\ link # "up"
    BY <1>0, <2>1, ReturnStage, Kinds DEF LoopInv
  <2> QED
    BY <1>3, <2>1, <2>2, Kinds
<1>8. CASE Respond(w)
  <2>1. /\ stage[w] = "render" /\ stage' = [stage EXCEPT ![w] = "idle"]
        /\ exchange' = exchange /\ g_conn' = g_conn
    BY <1>8 DEF Respond, main
  <2>2. stage'[w] = "idle"
    BY <1>0, <2>1
  <2> QED
    BY <1>0, <1>3, <2>1, <2>2 DEF LoopInv
<1> QED
  BY <1>4, <1>5, <1>6, <1>7, <1>8 DEF Serve

LEMMA ReceiveLoop ==
  ASSUME OneWorker, TypeOK, LoopInv, NEW w \in Workers, NEW f \in Filters, Receive(w, f)
  PROVE  LoopInv'
<1>1. /\ DOMAIN stage = Workers /\ \A v \in Workers : v = w
      /\ stage[w] = "idle" /\ stage' = [stage EXCEPT ![w] = "start"]
      /\ UNCHANGED <<app, g_conn, link, exchange>>
  BY DEF OneWorker, TypeOK, LocalsOK, Receive, main
<1>2. stage'[w] = "start"
  BY <1>1
<1> QED
  BY <1>1, <1>2 DEF LoopInv, QueryFits

LEMMA EnvironmentLoop ==
  ASSUME OneWorker, TypeOK, LoopInv, Environment
  PROVE  LoopInv'
<1>1. UNCHANGED <<app, g_conn, stage, call, req>>
  BY DEF Environment, ServerExecute, Write, ServerStops, ServerStarts, main, locals
<1>2. CASE ServerExecute
  <2>1. exchange.kind = "query" /\ exchange'.kind = "reply" /\ link' = link
    BY <1>2, Kinds DEF ServerExecute, main
  <2> QED
    BY <1>1, <2>1 DEF LoopInv, QueryFits
<1>3. CASE Write \/ ServerStarts
  BY <1>1, <1>3 DEF Write, ServerStarts, main, LoopInv, QueryFits
<1>4. CASE ServerStops
  <2>1. /\ link' = IF link = "up" THEN "broken" ELSE link
        /\ exchange' = IF exchange.kind = "query" THEN Lost ELSE exchange
    BY <1>4 DEF ServerStops
  <2>2. link' # "up" /\ (link = "none" => link' = "none")
    BY <2>1
  <2>3. exchange'.kind # "query" /\ (exchange'.kind # "none" <=> exchange.kind # "none")
    BY <2>1, Kinds
  <2> QED
    BY <1>1, <2>2, <2>3 DEF LoopInv, QueryFits
<1> QED
  BY <1>2, <1>3, <1>4 DEF Environment

LEMMA ProgramLoop ==
  ASSUME OneWorker, TypeOK, Lifecycle, LoopInv, Program
  PROVE  LoopInv'
<1>1. CASE ConnectDb
  <2>1. /\ app = "init" /\ app' = "serving" /\ g_conn' = "ok" /\ link' = "up"
        /\ UNCHANGED <<exchange, stage, call, req>>
    BY <1>1 DEF ConnectDb, locals
  <2>2. exchange.kind = "none"
    BY <2>1 DEF LoopInv, Lifecycle, NoUseAfterFinish, AllIdle, OneWorker
  <2> QED
    BY <2>1, <2>2 DEF LoopInv, QueryFits
<1>2. CASE ConnectDbFails \/ AcceptEnds \/ Restart
  BY <1>2 DEF ConnectDbFails, AcceptEnds, Restart, locals, LoopInv, QueryFits
<1>3. CASE DisconnectDb
  BY <1>3, Kinds DEF DisconnectDb, AllIdle, locals, LoopInv, QueryFits
<1>4. CASE Kill \/ RaceCrash
  <2>1. /\ app' = "down" /\ g_conn' = "null" /\ link' = "none" /\ exchange'.kind = "none"
        /\ \A w \in Workers : stage'[w] = "idle"
    BY <1>4, Kinds DEF Kill, RaceCrash, Gone
  <2> QED
    BY <2>1 DEF LoopInv, QueryFits
<1> QED
  BY <1>1, <1>2, <1>3, <1>4 DEF Program

LEMMA LoopStep ==
  ASSUME OneWorker, TypeOK, Lifecycle, LoopInv, [Next]_vars
  PROVE  LoopInv'
<1>1. CASE UNCHANGED vars
  BY <1>1 DEF vars, LoopInv, QueryFits
<1> QED
  BY <1>1, ServeLoop, ReceiveLoop, EnvironmentLoop, ProgramLoop DEF Next

-----------------------------------------------------------------------------
(* Every step of the program is a step of PageService, or none. *)

\* What the mapping sees of a state: a reply counts as read.
Seen ==
  /\ exchange.kind # "reply" =>
       /\ ReadListed = classes[TheWorker] /\ ReadFound = rows[TheWorker]
       /\ ReadPhase = IF stage[TheWorker] = "idle" THEN "idle"
                      ELSE IF stage[TheWorker] = "render" THEN "found"
                      ELSE IF call[TheWorker] = "pivot" THEN "listed" ELSE "asked"
  /\ exchange.kind = "reply" /\ stage[TheWorker] = "get" =>
       /\ call[TheWorker] = "classes" =>
            /\ ReadPhase = "listed" /\ ReadListed = ReadClasses(exchange.res)
            /\ ReadFound = rows[TheWorker]
       /\ call[TheWorker] = "pivot" =>
            /\ ReadPhase = "found" /\ ReadListed = classes[TheWorker]
            /\ ReadFound = ReadPivot(exchange.res)

LEMMA SeenNow == Seen
BY DEF Seen, ReadPhase, ReadListed, ReadFound, Executed

LEMMA SeenNext == Seen'
BY SeenNow, PTL

\* A step of one of the queries that leaves everything the mapping sees.
LEMMA SeenSame ==
  ASSUME UNCHANGED <<db, link, req, response, call, classes, rows>>,
         exchange.kind # "reply", exchange'.kind # "reply",
         stage[TheWorker] \in {"start", "send", "get"},
         stage'[TheWorker] \in {"start", "send", "get"}
  PROVE  UNCHANGED Service!vars
BY SeenNow, SeenNext DEF Seen, Service!vars

\* A query that fails while the link is not up is a read without connection.
LEMMA FailedRead ==
  ASSUME OneWorker, TypeOK, Return(TheWorker, Failed), link # "up",
         UNCHANGED <<db, link>>,
         exchange.kind # "reply", exchange'.kind = "none",
         stage[TheWorker] \in {"send", "get"}
  PROVE  Service!Next
<1>1. /\ DOMAIN stage = Workers /\ DOMAIN call = Workers /\ DOMAIN classes = Workers
      /\ DOMAIN rows = Workers /\ call[TheWorker] \in {"classes", "pivot"}
      /\ TheWorker \in Workers
  BY DEF OneWorker, TypeOK, LocalsOK, Calls
<1>2. \A c : Service!Readable(c) = {Failed}
  BY ReadableHere
<1>3. CASE call[TheWorker] = "classes"
  <2>1. /\ classes' = [classes EXCEPT ![TheWorker] = ReadClasses(Failed)]
        /\ call' = [call EXCEPT ![TheWorker] = "pivot"]
        /\ stage' = [stage EXCEPT ![TheWorker] = "start"]
        /\ UNCHANGED <<req, rows, response>>
    BY <1>3 DEF Return
  <2>2. /\ classes'[TheWorker] = ReadClasses(Failed)
        /\ call'[TheWorker] = "pivot" /\ stage'[TheWorker] = "start"
    BY <1>1, <2>1
  <2>3. ReadPhase = "asked" /\ ReadPhase' = "listed" /\ ReadFound' = ReadFound
        /\ ReadListed' = ReadClasses(Failed)
    BY <1>3, <2>1, <2>2, SeenNow, SeenNext DEF Seen
  <2>4. Service!ListClasses
    BY <1>2, <2>1, <2>3, SameClasses DEF Service!ListClasses
  <2> QED
    BY <2>4 DEF Service!Next
<1>4. CASE call[TheWorker] = "pivot"
  <2>1. /\ rows' = [rows EXCEPT ![TheWorker] = ReadPivot(Failed)]
        /\ stage' = [stage EXCEPT ![TheWorker] = "render"]
        /\ UNCHANGED <<call, req, classes, response>>
    BY <1>4 DEF Return
  <2>2. rows'[TheWorker] = ReadPivot(Failed) /\ stage'[TheWorker] = "render"
    BY <1>1, <2>1
  <2>3. ReadPhase = "listed" /\ ReadPhase' = "found" /\ ReadListed' = ReadListed
        /\ ReadFound' = ReadPivot(Failed)
    BY <1>4, <2>1, <2>2, SeenNow, SeenNext DEF Seen
  <2>4. Service!FindGrades
    BY <1>2, <2>1, <2>3, SamePivot DEF Service!FindGrades
  <2> QED
    BY <2>4 DEF Service!Next
<1> QED
  BY <1>1, <1>3, <1>4

LEMMA ServeRefines ==
  ASSUME OneWorker, TypeOK, Lifecycle, LoopInv, Serve(TheWorker)
  PROVE  [Service!Next]_(Service!vars)
<1>0. /\ DOMAIN stage = Workers /\ DOMAIN call = Workers /\ DOMAIN classes = Workers
      /\ DOMAIN rows = Workers /\ DOMAIN req = Workers /\ DOMAIN response = Workers
      /\ call[TheWorker] \in {"classes", "pivot"} /\ TheWorker \in Workers
  BY DEF OneWorker, TypeOK, LocalsOK, Calls
<1>1. stage[TheWorker] = "get" <=> exchange.kind # "none"
  BY <1>0 DEF LoopInv
<1>2. stage[TheWorker] # "idle" /\ g_conn # "null" /\ UNCHANGED <<db, link>>
  BY <1>0 DEF Serve, StartQuery, SendRefused, PQsendQuery, TakeResult, TakeLoss,
     TakeNothing, Respond, Lifecycle, NoUseAfterFinish, AllIdle, main
<1>3. CASE StartQuery(TheWorker)
  <2>1. /\ stage[TheWorker] = "start" /\ stage' = [stage EXCEPT ![TheWorker] = "send"]
        /\ exchange'.kind = "none" /\ UNCHANGED <<call, req, classes, rows, response>>
    BY <1>2, <1>3, Kinds DEF StartQuery
  <2>2. stage'[TheWorker] = "send" /\ exchange.kind = "none"
    BY <1>0, <1>1, <2>1
  <2> QED
    BY <1>2, <2>1, <2>2, SeenSame
<1>4. CASE SendRefused(TheWorker)
  <2>1. /\ stage[TheWorker] = "send" /\ exchange' = exchange /\ Return(TheWorker, Failed)
        /\ g_conn # "ok" \/ exchange # NoExchange
    BY <1>4 DEF SendRefused
  <2>2. exchange.kind = "none" /\ g_conn # "ok"
    BY <1>1, <2>1, KindsOf
  <2>3. link # "up"
    BY <1>2, <2>2 DEF LoopInv, TypeOK, SharedOK
  <2> QED
    BY <1>2, <2>1, <2>2, <2>3, FailedRead
<1>5. CASE PQsendQuery(TheWorker)
  <2>1. /\ stage[TheWorker] = "send" /\ stage' = [stage EXCEPT ![TheWorker] = "get"]
        /\ exchange'.kind \in {"query", "lost"}
        /\ UNCHANGED <<call, req, classes, rows, response>>
    BY <1>5, Kinds DEF PQsendQuery
  <2>2. stage'[TheWorker] = "get" /\ exchange.kind = "none"
    BY <1>0, <1>1, <2>1
  <2> QED
    BY <1>2, <2>1, <2>2, SeenSame
<1>6. CASE TakeResult(TheWorker)
  <2>1. /\ stage[TheWorker] = "get" /\ exchange.kind = "reply" /\ exchange'.kind = "none"
        /\ Return(TheWorker, exchange.res)
    BY <1>6, Kinds DEF TakeResult
  <2>2. CASE call[TheWorker] = "classes"
    <3>1. /\ classes' = [classes EXCEPT ![TheWorker] = ReadClasses(exchange.res)]
          /\ call' = [call EXCEPT ![TheWorker] = "pivot"]
          /\ stage' = [stage EXCEPT ![TheWorker] = "start"]
          /\ UNCHANGED <<req, rows, response>>
      BY <2>1, <2>2 DEF Return
    <3>2. /\ classes'[TheWorker] = ReadClasses(exchange.res)
          /\ call'[TheWorker] = "pivot" /\ stage'[TheWorker] = "start"
      BY <1>0, <3>1
    <3>3. UNCHANGED <<ReadPhase, ReadListed, ReadFound>>
      BY <2>1, <2>2, <3>1, <3>2, SeenNow, SeenNext DEF Seen
    <3> QED
      BY <1>2, <3>1, <3>3 DEF Service!vars
  <2>3. CASE call[TheWorker] = "pivot"
    <3>1. /\ rows' = [rows EXCEPT ![TheWorker] = ReadPivot(exchange.res)]
          /\ stage' = [stage EXCEPT ![TheWorker] = "render"]
          /\ UNCHANGED <<call, req, classes, response>>
      BY <2>1, <2>3 DEF Return
    <3>2. /\ rows'[TheWorker] = ReadPivot(exchange.res) /\ stage'[TheWorker] = "render"
      BY <1>0, <3>1
    <3>3. UNCHANGED <<ReadPhase, ReadListed, ReadFound>>
      BY <2>1, <2>3, <3>1, <3>2, SeenNow, SeenNext DEF Seen
    <3> QED
      BY <1>2, <3>1, <3>3 DEF Service!vars
  <2> QED
    BY <1>0, <2>2, <2>3
<1>7. CASE TakeLoss(TheWorker)
  <2>1. /\ stage[TheWorker] = "get" /\ exchange.kind = "lost" /\ exchange'.kind = "none"
        /\ Return(TheWorker, Failed)
    BY <1>7, Kinds DEF TakeLoss
  <2>2. link # "up"
    BY <2>1 DEF LoopInv
  <2> QED
    BY <1>2, <2>1, <2>2, FailedRead
<1>8. ~ TakeNothing(TheWorker)
  BY <1>1, Kinds DEF TakeNothing
<1>9. CASE Respond(TheWorker)
  <2>1. /\ stage[TheWorker] = "render"
        /\ response' = [response EXCEPT ![TheWorker] =
             {[ status |-> 200, filter |-> req[TheWorker],
                page |-> RenderPage(classes[TheWorker], rows[TheWorker], req[TheWorker]) ]}]
        /\ stage' = [stage EXCEPT ![TheWorker] = "idle"]
        /\ req' = [req EXCEPT ![TheWorker] = EmptyText]
        /\ classes' = [classes EXCEPT ![TheWorker] = << >>]
        /\ rows' = [rows EXCEPT ![TheWorker] = << >>]
        /\ exchange' = exchange
    BY <1>9 DEF Respond
  <2>2. /\ stage'[TheWorker] = "idle" /\ req'[TheWorker] = EmptyText
        /\ classes'[TheWorker] = << >> /\ rows'[TheWorker] = << >>
        /\ response'[TheWorker] =
             {[ status |-> 200, filter |-> req[TheWorker],
                page |-> RenderPage(classes[TheWorker], rows[TheWorker], req[TheWorker]) ]}
    BY <1>0, <2>1
  <2>3. exchange.kind = "none"
    BY <1>1, <2>1
  <2>4. /\ ReadPhase = "found" /\ ReadListed = classes[TheWorker]
        /\ ReadFound = rows[TheWorker]
        /\ ReadPhase' = "idle" /\ ReadListed' = << >> /\ ReadFound' = << >>
    BY <2>1, <2>2, <2>3, SeenNow, SeenNext DEF Seen
  <2>5. Service!Answer
    BY <1>2, <2>2, <2>4, SamePage, SameNone DEF Service!Answer, Service!Forget
  <2> QED
    BY <2>5 DEF Service!Next
<1> QED
  BY <1>3, <1>4, <1>5, <1>6, <1>7, <1>8, <1>9 DEF Serve

LEMMA ReceiveRefines ==
  ASSUME OneWorker, TypeOK, LoopInv, NEW f \in Filters, Receive(TheWorker, f)
  PROVE  Service!Next
<1>1. /\ DOMAIN stage = Workers /\ DOMAIN call = Workers /\ DOMAIN req = Workers
      /\ DOMAIN response = Workers /\ TheWorker \in Workers
  BY DEF OneWorker, TypeOK, LocalsOK
<1>2. /\ stage[TheWorker] = "idle" /\ stage'[TheWorker] = "start"
      /\ call'[TheWorker] = "classes" /\ req'[TheWorker] = f /\ response'[TheWorker] = {}
      /\ UNCHANGED <<link, exchange, db, classes, rows>>
  BY <1>1 DEF Receive, main
<1>3. exchange.kind = "none"
  BY <1>1, <1>2 DEF LoopInv
<1>4. ReadPhase = "idle" /\ ReadPhase' = "asked" /\ UNCHANGED <<ReadListed, ReadFound>>
  BY <1>2, <1>3, SeenNow, SeenNext DEF Seen
<1>5. Service!Ask(f)
  BY <1>2, <1>4 DEF Service!Ask
<1> QED
  BY <1>5 DEF Service!Next

LEMMA EnvironmentRefines ==
  ASSUME OneWorker, TypeOK, LoopInv, Environment
  PROVE  [Service!Next]_(Service!vars)
<1>1. UNCHANGED <<stage, call, req, classes, rows, response>>
  BY DEF Environment, ServerExecute, Write, ServerStops, ServerStarts, locals
<1>2. ASSUME exchange' = exchange \/ (exchange.kind = "query" /\ exchange'.kind = "lost")
      PROVE  UNCHANGED <<ReadPhase, ReadListed, ReadFound>>
  <2>1. CASE exchange' = exchange
    BY <1>1, <2>1 DEF ReadPhase, ReadListed, ReadFound, Executed
  <2>2. CASE exchange.kind = "query" /\ exchange'.kind = "lost"
    BY <1>1, <2>2, SeenNow, SeenNext DEF Seen
  <2> QED
    BY <1>2, <2>1, <2>2
<1>3. CASE ServerExecute
  <2>1. PICK r \in QueryResults(db, exchange.call, exchange.filter) : exchange' = Reply(r)
    BY <1>3 DEF ServerExecute
  <2>2. exchange.kind = "query" /\ UNCHANGED <<db, link>>
    BY <1>3 DEF ServerExecute, main
  <2>3. /\ link = "up" /\ stage[TheWorker] = "get"
        /\ exchange.call = call[TheWorker] /\ exchange.filter = req[TheWorker]
        /\ call[TheWorker] \in {"classes", "pivot"}
    BY <2>2 DEF OneWorker, LoopInv, QueryFits, TypeOK, LocalsOK, Calls
  <2>4. r \in Service!Readable(call[TheWorker])
    BY <2>1, <2>3, ReadableHere
  <2>5. exchange'.kind = "reply" /\ exchange'.res = r
    BY <2>1, Kinds
  <2>6. CASE call[TheWorker] = "classes"
    <3>1. /\ ReadPhase = "asked" /\ ReadPhase' = "listed"
          /\ ReadListed' = ReadClasses(r) /\ ReadFound' = ReadFound
      BY <1>1, <2>2, <2>3, <2>5, <2>6, SeenNow, SeenNext DEF Seen
    <3>2. Service!ListClasses
      BY <1>1, <2>2, <2>4, <2>6, <3>1, SameClasses DEF Service!ListClasses
    <3> QED
      BY <3>2 DEF Service!Next
  <2>7. CASE call[TheWorker] = "pivot"
    <3>1. /\ ReadPhase = "listed" /\ ReadPhase' = "found"
          /\ ReadFound' = ReadPivot(r) /\ ReadListed' = ReadListed
      BY <1>1, <2>2, <2>3, <2>5, <2>7, SeenNow, SeenNext DEF Seen
    <3>2. Service!FindGrades
      BY <1>1, <2>2, <2>4, <2>7, <3>1, SamePivot DEF Service!FindGrades
    <3> QED
      BY <3>2 DEF Service!Next
  <2> QED
    BY <2>3, <2>6, <2>7
<1>4. CASE Write
  <2>1. /\ \E m \in DbMoves : m[1] = db /\ db' = m[2]
        /\ UNCHANGED <<exchange, link>>
    BY <1>4 DEF Write, main
  <2>2. Service!Change
    BY <1>1, <1>2, <2>1 DEF Service!Change
  <2> QED
    BY <2>2 DEF Service!Next
<1>5. CASE ServerStops
  <2>1. /\ link' # "up" /\ db' = db
        /\ exchange' = exchange \/ (exchange.kind = "query" /\ exchange'.kind = "lost")
    BY <1>5, Kinds DEF ServerStops
  <2>2. CASE link = "up"
    <3>1. Service!Cut
      BY <1>1, <1>2, <2>1, <2>2 DEF Service!Cut
    <3> QED
      BY <3>1 DEF Service!Next
  <2>3. CASE link # "up"
    BY <1>1, <1>2, <2>1, <2>3 DEF Service!vars
  <2> QED
    BY <2>2, <2>3
<1>6. CASE ServerStarts
  <2>1. UNCHANGED <<exchange, link, db>>
    BY <1>6 DEF ServerStarts, main
  <2> QED
    BY <1>1, <1>2, <2>1 DEF Service!vars
<1> QED
  BY <1>3, <1>4, <1>5, <1>6 DEF Environment

LEMMA ProgramRefines ==
  ASSUME OneWorker, TypeOK, Lifecycle, LoopInv, Program
  PROVE  [Service!Next]_(Service!vars)
<1>1. CASE ConnectDb
  <2>1. /\ link # "up" /\ link' = "up" /\ stage[TheWorker] = "idle"
        /\ UNCHANGED <<exchange, db, stage, call, req, classes, rows, response>>
    BY <1>1 DEF ConnectDb, locals, LoopInv, Lifecycle, NoUseAfterFinish, AllIdle, OneWorker
  <2>2. ReadPhase = "idle" /\ UNCHANGED <<ReadPhase, ReadListed, ReadFound>>
    BY <2>1 DEF ReadPhase, ReadListed, ReadFound, Executed
  <2>3. Service!Connect
    BY <2>1, <2>2 DEF Service!Connect
  <2> QED
    BY <2>3 DEF Service!Next
<1>2. CASE ConnectDbFails \/ AcceptEnds \/ Restart
  <2>1. UNCHANGED <<link, exchange, db, stage, call, req, classes, rows, response>>
    BY <1>2 DEF ConnectDbFails, AcceptEnds, Restart, locals
  <2> QED
    BY <2>1 DEF Service!vars, ReadPhase, ReadListed, ReadFound, Executed
<1>3. CASE DisconnectDb
  <2>1. /\ stage[TheWorker] = "idle" /\ link' = "none" /\ exchange'.kind = "none"
        /\ UNCHANGED <<db, stage, call, req, classes, rows, response>>
    BY <1>3, Kinds DEF DisconnectDb, AllIdle, locals, OneWorker
  <2>2. exchange.kind = "none"
    BY <2>1 DEF LoopInv, OneWorker
  <2>3. UNCHANGED <<ReadPhase, ReadListed, ReadFound>>
    BY <2>1, <2>2, SeenNow, SeenNext DEF Seen
  <2>4. CASE link = "up"
    <3>1. Service!Cut
      BY <2>1, <2>3, <2>4 DEF Service!Cut
    <3> QED
      BY <3>1 DEF Service!Next
  <2>5. CASE link # "up"
    BY <2>1, <2>3, <2>5 DEF Service!vars
  <2> QED
    BY <2>4, <2>5
<1>4. CASE Kill \/ RaceCrash
  <2>1. /\ link' = "none" /\ exchange'.kind = "none" /\ UNCHANGED <<db, response>>
        /\ stage'[TheWorker] = "idle" /\ req'[TheWorker] = EmptyText
        /\ classes'[TheWorker] = << >> /\ rows'[TheWorker] = << >>
    BY <1>4, Kinds DEF Kill, RaceCrash, Gone, OneWorker
  <2>2. ReadPhase' = "idle" /\ ReadListed' = << >> /\ ReadFound' = << >>
    BY <2>1, SeenNext DEF Seen
  <2>3. Service!Abandon
    BY <2>1, <2>2, SameNone DEF Service!Abandon, Service!Forget
  <2> QED
    BY <2>3 DEF Service!Next
<1> QED
  BY <1>1, <1>2, <1>3, <1>4 DEF Program

LEMMA StepRefines ==
  ASSUME OneWorker, TypeOK, Lifecycle, LoopInv, [Next]_vars
  PROVE  [Service!Next]_(Service!vars)
<1>1. CASE UNCHANGED vars
  BY <1>1 DEF vars, Service!vars, ReadPhase, ReadListed, ReadFound, Executed
<1>2. \A w \in Workers : w = TheWorker
  BY DEF OneWorker
<1> QED
  BY <1>1, <1>2, ServeRefines, ReceiveRefines, EnvironmentRefines, ProgramRefines DEF Next

LEMMA InitRefines ==
  ASSUME OneWorker, Init
  PROVE  Service!Init /\ LoopInv
<1>1. /\ stage[TheWorker] = "idle" /\ req[TheWorker] = EmptyText
      /\ classes[TheWorker] = << >> /\ rows[TheWorker] = << >> /\ response[TheWorker] = {}
      /\ exchange.kind = "none" /\ link = "none" /\ db \in DbStates
      /\ g_conn = "null" /\ \A w \in Workers : stage[w] = "idle"
  BY Kinds DEF Init, OneWorker
<1>2. ReadPhase = "idle" /\ ReadListed = << >> /\ ReadFound = << >>
  BY <1>1, SeenNow DEF Seen
<1>3. Service!Init
  BY <1>1, <1>2, SameNone DEF Service!Init
<1>4. LoopInv
  BY <1>1 DEF LoopInv, QueryFits
<1> QED
  BY <1>3, <1>4

\* ImplementsService: with one worker, as in scheme D, the program is
\* PageService: whatever fails on the connection and however the program
\* ends, the menu and the table of a page are each read from the database as
\* it is at one moment of the request, or empty for want of a connection.
THEOREM OneWorkerImplementsService ==
  ASSUME \E w \in Workers : Workers = {w}
  PROVE  Spec => ImplementsService
<1>1. OneWorker
  BY DEF OneWorker, TheWorker
<1>2. Init => Service!Init /\ LoopInv /\ TypeOK /\ Lifecycle
  BY <1>1, InitRefines, InitType DEF Init, Lifecycle, NoUseAfterFinish, AllIdle
<1>3. TypeOK /\ Lifecycle /\ LoopInv /\ [Next]_vars
        => TypeOK' /\ Lifecycle' /\ LoopInv' /\ [Service!Next]_(Service!vars)
  <2> SUFFICES ASSUME TypeOK, Lifecycle, LoopInv, [Next]_vars
               PROVE  TypeOK' /\ Lifecycle' /\ LoopInv' /\ [Service!Next]_(Service!vars)
    OBVIOUS
  <2>1. TypeOK'
    BY NextType
  <2>2. Lifecycle'
    <3>1. CASE Next
      BY <3>1, LifecycleStep
    <3>2. CASE UNCHANGED vars
      BY <3>2 DEF vars, Lifecycle, NoUseAfterFinish, AllIdle
    <3> QED
      BY <3>1, <3>2
  <2> QED
    BY <1>1, <2>1, <2>2, LoopStep, StepRefines
<1> QED
  BY <1>2, <1>3, PTL DEF Spec, ImplementsService, Service!Spec

-----------------------------------------------------------------------------
(***************************************************************************)
(* Pages from tables that nobody changes.  The two reads of a request then *)
(* see the same contents, and a connection lost during a request is not    *)
(* made again before the next one: if the second read finds rows, the      *)
(* first one found the menu.                                               *)
(***************************************************************************)
\* A menu with every class of a student, and no class twice.
MenuWhole(d, menu) ==
  /\ \A s \in d.students : \E j \in DOMAIN menu : menu[j] = s.class
  /\ \A i, j \in DOMAIN menu : menu[i] = menu[j] => i = j

\* Rows of students, all of the class asked for.
TableFits(d, table, f) ==
  \A i \in DOMAIN table :
    /\ \E s \in d.students : table[i].className = s.class
    /\ f # EmptyText => table[i].className = f

\* What PageConsistent says of one answer.
PageWhole(r) ==
  LET options == r.page.options
      table == r.page.table
      selected == { i \in DOMAIN options : options[i].selected }
  IN  table # << >> =>
        /\ \A i \in DOMAIN table :
             \E j \in DOMAIN options : options[j].value = table[i].class
        /\ r.filter # EmptyText =>
             \E j \in selected : selected = {j} /\ options[j].value = r.filter

MenuRead ==
  ReadPhase = "listed" /\ link = "up" /\ db.ready => MenuWhole(db, ReadListed)

TableRead ==
  ReadPhase = "found" /\ ReadFound # << >> =>
    MenuWhole(db, ReadListed) /\ TableFits(db, ReadFound, req[TheWorker])

Answered == \A r \in response[TheWorker] : PageWhole(r)

PageInv == Still => MenuRead /\ TableRead /\ Answered

\* A page made of such a menu and such rows is whole.
LEMMA PageMade ==
  ASSUME NEW d, NEW menu, NEW table, NEW f,
         table # << >> => MenuWhole(d, menu) /\ TableFits(d, table, f)
  PROVE  PageWhole([status |-> 200, filter |-> f, page |-> RenderPage(menu, table, f)])
<1> DEFINE shown == RenderTable(table)
           options == RenderClassSelect(menu, f)
           selected == { i \in DOMAIN options : options[i].selected }
<1>1. /\ DOMAIN shown = DOMAIN table
      /\ \A i \in DOMAIN table : shown[i].class = table[i].className
  BY DEF RenderTable
<1>2. /\ DOMAIN options = DOMAIN menu
      /\ \A i \in DOMAIN menu : /\ options[i].value = menu[i]
                                /\ options[i].selected <=> menu[i] = f
  BY DEF RenderClassSelect
<1>3. shown # << >> => table # << >> /\ \E i \in DOMAIN table : TRUE
  <2>1. ASSUME DOMAIN table = {} PROVE shown = << >>
    <3>1. shown \in [1 .. 0 -> {0}]
      BY <2>1 DEF RenderTable
    <3>2. shown \in Seq({0}) /\ Len(shown) = 0
      BY <3>1, SeqFromFunction
    <3> QED
      BY <3>2
  <2> HIDE DEF shown
  <2>2. shown # << >> => \E i \in DOMAIN table : TRUE
    BY <2>1
  <2>3. DOMAIN << >> = {}
    OBVIOUS
  <2> QED
    BY <2>2, <2>3
<1> HIDE DEF shown, options
<1>4. ASSUME shown # << >>
      PROVE  /\ \A i \in DOMAIN shown :
                  \E j \in DOMAIN options : options[j].value = shown[i].class
             /\ f # EmptyText => \E j \in selected : selected = {j} /\ options[j].value = f
  <2>1. /\ \A s \in d.students : \E j \in DOMAIN menu : menu[j] = s.class
        /\ \A i, j \in DOMAIN menu : menu[i] = menu[j] => i = j
        /\ \A i \in DOMAIN table :
             /\ \E s \in d.students : table[i].className = s.class
             /\ f # EmptyText => table[i].className = f
    BY <1>3, <1>4 DEF MenuWhole, TableFits
  <2>2. \A i \in DOMAIN shown :
          \E j \in DOMAIN options : options[j].value = shown[i].class
    BY <1>1, <1>2, <2>1
  <2>3. ASSUME f # EmptyText
        PROVE  \E j \in selected : selected = {j} /\ options[j].value = f
    <3>1. PICK j \in DOMAIN menu : menu[j] = f
      BY <1>3, <1>4, <2>1, <2>3
    <3>2. selected = {j} /\ options[j].value = f
      BY <1>2, <2>1, <3>1
    <3> QED
      BY <3>2
  <2> QED
    BY <2>2, <2>3
<1> QED
  BY <1>4 DEF PageWhole, RenderPage, shown, options

\* A step at whose end the tables are not among those that change has not
\* changed them.
LEMMA StillStays ==
  ASSUME Still', [Service!Next]_(Service!vars)
  PROVE  Still /\ db' = db
<1>1. ~ Service!Change
  BY DEF Service!Change, Still
<1>2. db' = db
  BY <1>1 DEF Service!Next, Service!vars, Service!Connect, Service!Cut, Service!Ask,
     Service!ListClasses, Service!FindGrades, Service!Answer, Service!Abandon
<1> QED
  BY <1>2 DEF Still

LEMMA PageStep ==
  ASSUME OneWorker, TypeOK, PageInv, [Service!Next]_(Service!vars)
  PROVE  PageInv'
<1> SUFFICES ASSUME Still' PROVE MenuRead' /\ TableRead' /\ Answered'
  BY DEF PageInv
<1>1. MenuRead /\ TableRead /\ Answered /\ db' = db
  BY StillStays DEF PageInv
<1>2. db \in Database /\ IsFiniteSet(db.students) /\ req[TheWorker] \in Texts
  BY Contents DEF OneWorker, TypeOK, SharedOK, LocalsOK
<1>3. CASE UNCHANGED Service!vars \/ Service!Cut
  BY <1>1, <1>3 DEF Service!vars, Service!Cut, MenuRead, TableRead, Answered
<1>4. CASE Service!Connect \/ Service!Abandon \/ \E f \in Filters : Service!Ask(f)
  <2>1. ReadPhase' \notin {"listed", "found"}
    BY <1>4 DEF Service!Connect, Service!Abandon, Service!Ask
  <2>2. \A r \in response'[TheWorker] : r \in response[TheWorker]
    BY <1>4 DEF Service!Connect, Service!Abandon, Service!Ask
  <2> QED
    BY <1>1, <2>1, <2>2 DEF MenuRead, TableRead, Answered
<1>5. CASE Service!ListClasses
  <2>1. PICK r \in Service!Readable("classes") : ReadListed' = ReadClasses(r)
    BY <1>5, SameClasses DEF Service!ListClasses
  <2>2. /\ ReadPhase' = "listed" /\ (link' = "up" => link = "up")
        /\ response'[TheWorker] = response[TheWorker]
    BY <1>5 DEF Service!ListClasses
  <2>3. ASSUME link = "up", db.ready PROVE MenuWhole(db, ReadListed')
    <3>1. r \in QueryResults(db, "classes", req[TheWorker])
      BY <2>1, <2>3, ReadableHere
    <3> QED
      BY <1>2, <2>1, <2>3, <3>1, ClassesListed DEF MenuWhole
  <2> QED
    BY <1>1, <2>2, <2>3 DEF MenuRead, TableRead, Answered
<1>6. CASE Service!FindGrades
  <2>1. PICK r \in Service!Readable("pivot") : ReadFound' = ReadPivot(r)
    BY <1>6, SamePivot DEF Service!FindGrades
  <2>2. /\ ReadPhase = "listed" /\ ReadPhase' = "found" /\ ReadListed' = ReadListed
        /\ req'[TheWorker] = req[TheWorker] /\ response'[TheWorker] = response[TheWorker]
    BY <1>6 DEF Service!FindGrades
  <2>3. ASSUME ReadFound' # << >>
        PROVE  MenuWhole(db, ReadListed) /\ TableFits(db, ReadFound', req[TheWorker])
    <3>1. link = "up"
      <4>1. ReadPivot(Failed) = << >>
        BY DEF ReadPivot, Failed
      <4> QED
        BY <2>1, <2>3, <4>1, ReadableHere
    <3>2. r \in QueryResults(db, "pivot", req[TheWorker])
      BY <2>1, <3>1, ReadableHere
    <3>3. db.ready /\ \A i \in DOMAIN ReadFound' :
                        \E s \in db.students : ReadFound'[i].className = s.class
      BY <1>2, <2>1, <2>3, <3>2, RowsOfStudents
    <3>4. req[TheWorker] # EmptyText =>
            \A i \in DOMAIN ReadFound' : ReadFound'[i].className = req[TheWorker]
      BY <1>2, <2>1, <3>2, PivotFiltered
    <3> QED
      BY <1>1, <2>2, <3>1, <3>3, <3>4 DEF MenuRead, TableFits
  <2> QED
    BY <1>1, <2>2, <2>3 DEF MenuRead, TableRead, Answered
<1>7. CASE Service!Answer
  <2>1. /\ ReadPhase = "found" /\ ReadPhase' = "idle"
        /\ response'[TheWorker] =
             {[ status |-> 200, filter |-> req[TheWorker],
                page |-> RenderPage(ReadListed, ReadFound, req[TheWorker]) ]}
    BY <1>7, SamePage DEF Service!Answer
  <2>2. \A r \in response'[TheWorker] : PageWhole(r)
    BY <1>1, <2>1, PageMade DEF TableRead
  <2> QED
    BY <2>1, <2>2 DEF MenuRead, TableRead, Answered
<1>8. ~ Service!Change
  BY <1>1 DEF Service!Change, Still
<1> QED
  BY <1>3, <1>4, <1>5, <1>6, <1>7, <1>8 DEF Service!Next

\* With one worker, while nobody changes the tables, a page with a table is
\* whole: whatever happens to the connection and to the process, a failure
\* may empty the table, never the menu beside a table.
THEOREM OneWorkerPageConsistent ==
  ASSUME \E w \in Workers : Workers = {w}
  PROVE  Spec => []PageConsistent
<1>1. OneWorker
  BY DEF OneWorker, TheWorker
<1>2. Init => PageInv
  <2> SUFFICES ASSUME Init PROVE PageInv
    OBVIOUS
  <2>1. ReadPhase = "idle" /\ response[TheWorker] = {}
    BY <1>1 DEF Init, ReadPhase, OneWorker
  <2> QED
    BY <2>1 DEF PageInv, MenuRead, TableRead, Answered
<1>3. TypeOK /\ PageInv /\ [Service!Next]_(Service!vars) => PageInv'
  BY <1>1, PageStep
<1>4. PageInv => PageConsistent
  BY <1>1 DEF PageInv, Answered, PageWhole, PageConsistent, OneWorker
<1>5. Spec => [][Service!Next]_(Service!vars)
  BY OneWorkerImplementsService, PTL DEF ImplementsService, Service!Spec
<1> QED
  BY <1>2, <1>3, <1>4, <1>5, TypeCorrect, PTL DEF Spec
=============================================================================
