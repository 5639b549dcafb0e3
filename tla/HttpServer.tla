----------------------------- MODULE HttpServer -----------------------------
(***************************************************************************)
(* The server of scheme A as cpp-httplib runs it: listen_internal accepts  *)
(* connections and gives them to the thread pool, a worker keeps one until *)
(* it is closed (process_and_close_socket), and listen() returns when the  *)
(* pool has shut down.  A job of ThreadPool is a connection here; its list *)
(* is the queue of connections no thread has time for yet.                 *)
(*                                                                         *)
(* Time is left out: a worker that finds no input may always come to the   *)
(* end of its keep-alive timeout.  What is in a request, and what is       *)
(* answered, is module HttpExchange.                                       *)
(***************************************************************************)
EXTENDS ThreadPool

CONSTANT MaxCount  \* keep_alive_max_count_, 100

ASSUME CountAssumption == MaxCount \in Nat \ {0}

VARIABLES
  svr_sock_,  \* "open", "invalid" (stop() was called), or "stale": closed
              \* after an error of accept(), and not reset
  conn,       \* "none", "backlog", "open", or "closed" by either side
  input,      \* what a connection holds for the server: "", "request", "end"
  serving,    \* what a worker does: "", "await", "request" or "close"
  count,      \* requests a worker may still take on its connection
  answered    \* requests handled, per connection

pool == vars
http == <<svr_sock_, conn, input, serving, count, answered>>
all  == <<pool, http>>

HttpTypeOK ==
  /\ TypeOK
  /\ svr_sock_ \in {"open", "invalid", "stale"}
  /\ conn \in [Jobs -> {"none", "backlog", "open", "closed"}]
  /\ input \in [Jobs -> {"", "request", "end"}]
  /\ serving \in [Threads -> {"", "await", "request", "close"}]
  /\ count \in [Threads -> 0 .. MaxCount]
  /\ answered \in [Jobs -> 0 .. MaxCount]
  /\ \A w \in Threads : serving[w] # "" <=> fn[w] # None
  /\ \A w \in Threads : fn[w] # None => conn[fn[w]] = "open"

HttpInit ==
  /\ Init
  /\ svr_sock_ = "open"
  /\ conn = [c \in Jobs |-> "none"]
  /\ input = [c \in Jobs |-> ""]
  /\ serving = [w \in Threads |-> ""]
  /\ count = [w \in Threads |-> 0]
  /\ answered = [c \in Jobs |-> 0]

-----------------------------------------------------------------------------
(* Clients. *)

Connect(c) ==
  /\ svr_sock_ = "open" /\ conn[c] = "none"
  /\ conn' = [conn EXCEPT ![c] = "backlog"]
  /\ UNCHANGED <<pool, svr_sock_, input, serving, count, answered>>

Send(c) ==
  /\ conn[c] \in {"backlog", "open"} /\ input[c] = ""
  /\ input' \in { [input EXCEPT ![c] = i] : i \in {"request", "end"} }
  /\ UNCHANGED <<pool, svr_sock_, conn, serving, count, answered>>

-----------------------------------------------------------------------------
(* listen_internal.  EMFILE, EINTR and EAGAIN only repeat the accept. *)

Accept(c) ==
  /\ svr_sock_ = "open" /\ conn[c] = "backlog"
  /\ CallEnqueue(c)
  /\ conn' = [conn EXCEPT ![c] = "open"]
  /\ UNCHANGED <<svr_sock_, input, serving, count, answered>>

\* The pool takes the connection, or the listener closes it.
Enqueued ==
  /\ MainLocks \/ Push \/ NotifyOne
  /\ UNCHANGED http

\* Mutant: the socket the pool refused is forgotten.
NotEnqueued_Leaks == Refused /\ UNCHANGED http

NotEnqueued ==
  /\ Refused
  /\ conn' = [conn EXCEPT ![arg] = "closed"]
  /\ UNCHANGED <<svr_sock_, input, serving, count, answered>>

\* The kernel resets what was not accepted when the socket is closed.
CloseListener(how) ==
  /\ svr_sock_ = "open"
  /\ svr_sock_' = how
  /\ conn' = [c \in Jobs |-> IF conn[c] = "backlog" THEN "closed" ELSE conn[c]]
  /\ UNCHANGED <<pool, input, serving, count, answered>>

\* An error of accept(): the descriptor is closed, svr_sock_ keeps its value.
AcceptFails == main = "free" /\ CloseListener("stale")

\* Server::stop, from any thread.  main_a.cpp does not call it.
StopServer == CloseListener("invalid")

EndLoop ==
  /\ svr_sock_ # "open"
  /\ CallShutdown
  /\ UNCHANGED http

ShutDown ==
  /\ SetShutdown \/ NotifyAll \/ Join
  /\ UNCHANGED http

-----------------------------------------------------------------------------
(* A worker. *)

PoolStep(w) ==
  /\ Lock(w) \/ Sleep(w) \/ Spurious(w) \/ Leave(w)
  /\ UNCHANGED http

Serve(w) ==
  /\ Pop(w)
  /\ serving' = [serving EXCEPT ![w] = "await"]
  /\ count' = [count EXCEPT ![w] = MaxCount]
  /\ UNCHANGED <<svr_sock_, conn, input, answered>>

Goto(w, s) ==
  /\ serving' = [serving EXCEPT ![w] = s]
  /\ UNCHANGED <<pool, svr_sock_, conn, input>>

\* Mutant: the count is tested after the request only.
Readable_PastLast(w) ==
  /\ serving[w] = "await" /\ input[fn[w]] # ""
  /\ Goto(w, "request")
  /\ UNCHANGED <<count, answered>>

\* keep_alive finds something to read.
Readable(w) ==
  /\ serving[w] = "await" /\ count[w] > 0 /\ input[fn[w]] # ""
  /\ Goto(w, "request")
  /\ UNCHANGED <<count, answered>>

\* Mutant: an idle connection is kept for ever.
GiveUp_NoTimeout(w) ==
  /\ serving[w] = "await"
  /\ count[w] = 0 \/ svr_sock_ = "invalid"
  /\ Goto(w, "close")
  /\ UNCHANGED <<count, answered>>

\* All requests are used up; keep_alive comes to its timeout, or to the end
\* of the server, which it may see before it looks for input.
GiveUp(w) ==
  /\ serving[w] = "await"
  /\ count[w] = 0 \/ input[fn[w]] = "" \/ svr_sock_ = "invalid"
  /\ Goto(w, "close")
  /\ UNCHANGED <<count, answered>>

\* Mutant: the requests of a connection are not counted.
Handle_Uncounted(w) ==
  /\ serving[w] = "request" /\ input[fn[w]] = "request"
  /\ input' = [input EXCEPT ![fn[w]] = ""]
  /\ answered' = [answered EXCEPT ![fn[w]] = IF @ < MaxCount THEN @ + 1 ELSE @]
  /\ serving' \in { [serving EXCEPT ![w] = s] : s \in {"await", "close"} }
  /\ UNCHANGED <<pool, svr_sock_, conn, count>>

\* process_request: it may return false, or report the connection closed.
Handle(w) ==
  /\ serving[w] = "request" /\ input[fn[w]] = "request"
  /\ input' = [input EXCEPT ![fn[w]] = ""]
  /\ answered' = [answered EXCEPT ![fn[w]] = @ + 1]
  /\ \/ /\ serving' = [serving EXCEPT ![w] = "await"]
        /\ count' = [count EXCEPT ![w] = @ - 1]
     \/ /\ serving' = [serving EXCEPT ![w] = "close"]
        /\ UNCHANGED count
  /\ UNCHANGED <<pool, svr_sock_, conn>>

\* There is no request line to read: process_request returns false.
ReadFails(w) ==
  /\ serving[w] = "request" /\ input[fn[w]] = "end"
  /\ Goto(w, "close")
  /\ UNCHANGED <<count, answered>>

CloseSocket(w) ==
  /\ serving[w] = "close"
  /\ FinishJob(w)
  /\ conn' = [conn EXCEPT ![fn[w]] = "closed"]
  /\ serving' = [serving EXCEPT ![w] = ""]
  /\ UNCHANGED <<svr_sock_, input, count, answered>>

-----------------------------------------------------------------------------
Exchange(w) ==
  Readable(w) \/ GiveUp(w) \/ Handle(w) \/ ReadFails(w) \/ CloseSocket(w)

HttpNext ==
  \/ \E c \in Jobs : Connect(c) \/ Send(c) \/ Accept(c)
  \/ Enqueued \/ NotEnqueued \/ AcceptFails \/ StopServer \/ EndLoop \/ ShutDown
  \/ \E w \in Threads : PoolStep(w) \/ Serve(w) \/ Exchange(w)

HttpSpec == HttpInit /\ [][HttpNext]_all

\* Threads that can go on do, and a mutex that is free again and again is not
\* withheld from one thread for ever.  A worker at an idle connection goes on
\* when its timeout has passed; a client owes nothing.
FairHttpSpec ==
  /\ HttpSpec
  /\ \A w \in Threads :
       /\ SF_all(Lock(w) /\ UNCHANGED http)
       /\ WF_all(PoolStep(w) /\ at[w] = "test")
       /\ WF_all(Serve(w)) /\ WF_all(Exchange(w))
  /\ SF_all(Enqueued \/ NotEnqueued) /\ SF_all(ShutDown)
  /\ WF_all(EndLoop) /\ WF_all(\E c \in Jobs : Accept(c))

-----------------------------------------------------------------------------
(* Properties *)

\* When listen() has returned, no connection is open: neither one the pool
\* had, nor one it refused.
ReturnLeavesNone == main = "returned" => \A c \in Jobs : conn[c] # "open"

\* An open connection has somebody who will close it: it is in the list, with
\* a worker, or in the hands of the listener.
NoConnectionLost ==
  \A c \in Jobs : conn[c] = "open" =>
    \/ \E i \in DOMAIN jobs_ : jobs_[i] = c
    \/ \E w \in Threads : fn[w] = c
    \/ main \in {"enqueue", "push"} /\ arg = c

\* A client that connected is served in the end, and its connection closed,
\* though others hold all threads for as long as keep-alive allows.
ConnectionEnds == \A c \in Jobs : conn[c] = "backlog" ~> conn[c] = "closed"

\* listen() returns once the listening socket is gone, whatever the clients
\* do with the connections they hold.
ListenReturns == svr_sock_ # "open" ~> main = "returned"

\* The server keeps what main() relies on: a request is handled only before
\* listen() returns.
Life ==
  INSTANCE Lifecycle WITH
    Workers <- Threads,
    busy <- { w \in Threads : serving[w] = "request" },
    phase <- IF main = "returned" THEN "down"
             ELSE IF main \in {"shutdown", "set", "notify_all", "join"}
             THEN "draining" ELSE "serving"

KeepsLifecycle == Life!Spec
=============================================================================
