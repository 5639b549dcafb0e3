----------------------------- MODULE ThreadPool -----------------------------
(***************************************************************************)
(* httplib::ThreadPool (httplib.h:865): a list of jobs, a mutex, a         *)
(* condition variable and worker threads.  One thread, the one that        *)
(* accepts connections, calls enqueue() and at last shutdown().            *)
(*                                                                         *)
(* A critical section is two steps, the lock and what is done under it     *)
(* with the unlock: nobody else sees what is in between.  A wait gives the *)
(* mutex back, sleeps until it is notified (or wakes without, which the    *)
(* standard allows), takes the mutex and tests its predicate again.        *)
(***************************************************************************)
EXTENDS Naturals, Sequences

CONSTANTS
  Threads,     \* the workers
  Jobs,        \* what enqueue() may be called with, each at most once
  None,        \* nobody, nothing
  MaxQueued,   \* max_queued_requests_; 0 for no limit
  Main         \* the thread that feeds the pool

ASSUME PoolAssumption ==
  /\ MaxQueued \in Nat
  /\ Threads # {}
  /\ Main \notin Threads
  /\ None \notin Threads \cup Jobs \cup {Main}

VARIABLES
  mutex_,     \* its owner, or None
  jobs_,      \* the list
  shutdown_,
  at,         \* where a worker is
  fn,         \* the job a worker has taken
  main,       \* where Main is
  arg,        \* the job enqueue() was called with
  given       \* jobs enqueue() was called with so far

vars == <<mutex_, jobs_, shutdown_, at, fn, main, arg, given>>

WorkerStages == {"lock", "test", "asleep", "run", "ended"}
MainStages == {"free", "enqueue", "push", "notify", "shutdown", "set",
               "notify_all", "join", "returned"}

TypeOK ==
  /\ mutex_ \in Threads \cup {Main, None}
  /\ jobs_ \in Seq(Jobs)
  /\ shutdown_ \in BOOLEAN
  /\ at \in [Threads -> WorkerStages]
  /\ fn \in [Threads -> Jobs \cup {None}]
  /\ main \in MainStages
  /\ arg \in Jobs \cup {None}
  /\ given \subseteq Jobs
  /\ \A w \in Threads : at[w] = "run" <=> fn[w] # None
  /\ \A w \in Threads : at[w] = "test" <=> mutex_ = w
  /\ main \in {"push", "set"} <=> mutex_ = Main
  /\ main \in {"enqueue", "push", "notify"} <=> arg # None

Init ==
  /\ mutex_ = None
  /\ jobs_ = <<>>
  /\ shutdown_ = FALSE
  /\ at = [w \in Threads |-> "lock"]
  /\ fn = [w \in Threads |-> None]
  /\ main = "free"
  /\ arg = None
  /\ given = {}

-----------------------------------------------------------------------------
(* worker::operator() *)

Lock(w) ==
  /\ at[w] = "lock" /\ mutex_ = None
  /\ mutex_' = w
  /\ at' = [at EXCEPT ![w] = "test"]
  /\ UNCHANGED <<jobs_, shutdown_, fn, main, arg, given>>

\* The predicate of the wait does not hold.
Sleep(w) ==
  /\ at[w] = "test" /\ jobs_ = <<>> /\ ~ shutdown_
  /\ mutex_' = None
  /\ at' = [at EXCEPT ![w] = "asleep"]
  /\ UNCHANGED <<jobs_, shutdown_, fn, main, arg, given>>

Spurious(w) ==
  /\ at[w] = "asleep"
  /\ at' = [at EXCEPT ![w] = "lock"]
  /\ UNCHANGED <<mutex_, jobs_, shutdown_, fn, main, arg, given>>

\* Mutant: the last job is taken first.
Pop_Last(w) ==
  /\ at[w] = "test" /\ jobs_ # <<>>
  /\ mutex_' = None
  /\ fn' = [fn EXCEPT ![w] = jobs_[Len(jobs_)]]
  /\ jobs_' = SubSeq(jobs_, 1, Len(jobs_) - 1)
  /\ at' = [at EXCEPT ![w] = "run"]
  /\ UNCHANGED <<shutdown_, main, arg, given>>

Pop(w) ==
  /\ at[w] = "test" /\ jobs_ # <<>>
  /\ mutex_' = None
  /\ fn' = [fn EXCEPT ![w] = Head(jobs_)]
  /\ jobs_' = Tail(jobs_)
  /\ at' = [at EXCEPT ![w] = "run"]
  /\ UNCHANGED <<shutdown_, main, arg, given>>

\* fn() returns.
FinishJob(w) ==
  /\ at[w] = "run"
  /\ fn' = [fn EXCEPT ![w] = None]
  /\ at' = [at EXCEPT ![w] = "lock"]
  /\ UNCHANGED <<mutex_, jobs_, shutdown_, main, arg, given>>

\* Mutant: a worker leaves the loop as soon as shutdown_ is set.
Leave_Early(w) ==
  /\ at[w] = "test" /\ shutdown_
  /\ mutex_' = None
  /\ at' = [at EXCEPT ![w] = "ended"]
  /\ UNCHANGED <<jobs_, shutdown_, fn, main, arg, given>>

Leave(w) ==
  /\ at[w] = "test" /\ shutdown_ /\ jobs_ = <<>>
  /\ mutex_' = None
  /\ at' = [at EXCEPT ![w] = "ended"]
  /\ UNCHANGED <<jobs_, shutdown_, fn, main, arg, given>>

-----------------------------------------------------------------------------
(* enqueue and shutdown *)

CallEnqueue(j) ==
  /\ main = "free" /\ j \notin given
  /\ main' = "enqueue"
  /\ arg' = j
  /\ given' = given \cup {j}
  /\ UNCHANGED <<mutex_, jobs_, shutdown_, at, fn>>

MainLocks ==
  /\ main \in {"enqueue", "shutdown"} /\ mutex_ = None
  /\ mutex_' = Main
  /\ main' = IF main = "enqueue" THEN "push" ELSE "set"
  /\ UNCHANGED <<jobs_, shutdown_, at, fn, arg, given>>

Full == MaxQueued > 0 /\ Len(jobs_) >= MaxQueued

Push ==
  /\ main = "push" /\ ~ Full
  /\ mutex_' = None
  /\ jobs_' = Append(jobs_, arg)
  /\ main' = "notify"
  /\ UNCHANGED <<shutdown_, at, fn, arg, given>>

\* enqueue() returns false.
Refused ==
  /\ main = "push" /\ Full
  /\ mutex_' = None
  /\ main' = "free"
  /\ arg' = None
  /\ UNCHANGED <<jobs_, shutdown_, at, fn, given>>

Asleep == { w \in Threads : at[w] = "asleep" }

\* notify_one: without the mutex.
NotifyOne ==
  /\ main = "notify"
  /\ IF Asleep = {} THEN UNCHANGED at
     ELSE \E w \in Asleep : at' = [at EXCEPT ![w] = "lock"]
  /\ main' = "free"
  /\ arg' = None
  /\ UNCHANGED <<mutex_, jobs_, shutdown_, fn, given>>

CallShutdown ==
  /\ main = "free"
  /\ main' = "shutdown"
  /\ UNCHANGED <<mutex_, jobs_, shutdown_, at, fn, arg, given>>

SetShutdown ==
  /\ main = "set"
  /\ mutex_' = None
  /\ shutdown_' = TRUE
  /\ main' = "notify_all"
  /\ UNCHANGED <<jobs_, at, fn, arg, given>>

\* Mutant: notify_one where all workers have to be woken.
NotifyAll_One ==
  /\ main = "notify_all"
  /\ IF Asleep = {} THEN UNCHANGED at
     ELSE \E w \in Asleep : at' = [at EXCEPT ![w] = "lock"]
  /\ main' = "join"
  /\ UNCHANGED <<mutex_, jobs_, shutdown_, fn, arg, given>>

NotifyAll ==
  /\ main = "notify_all"
  /\ at' = [w \in Threads |-> IF at[w] = "asleep" THEN "lock" ELSE at[w]]
  /\ main' = "join"
  /\ UNCHANGED <<mutex_, jobs_, shutdown_, fn, arg, given>>

\* Mutant: shutdown() returns without joining the workers.
Join_NotAtAll ==
  /\ main = "join"
  /\ main' = "returned"
  /\ UNCHANGED <<mutex_, jobs_, shutdown_, at, fn, arg, given>>

\* The joins of all threads.
Join ==
  /\ main = "join" /\ \A w \in Threads : at[w] = "ended"
  /\ main' = "returned"
  /\ UNCHANGED <<mutex_, jobs_, shutdown_, at, fn, arg, given>>

-----------------------------------------------------------------------------
\* A worker by itself; being woken is not its doing.
WorkerStep(w) == Lock(w) \/ Sleep(w) \/ Pop(w) \/ Leave(w)

MainStep ==
  \/ MainLocks \/ Push \/ Refused \/ NotifyOne
  \/ SetShutdown \/ NotifyAll \/ Join

Next ==
  \/ \E w \in Threads : WorkerStep(w) \/ Spurious(w) \/ FinishJob(w)
  \/ \E j \in Jobs : CallEnqueue(j)
  \/ CallShutdown
  \/ MainStep

Spec == Init /\ [][Next]_vars

\* Threads that can go on do.  That the jobs return is an assumption here,
\* and a theorem about connections in HttpServer; that shutdown() is called
\* is not assumed, nor is any spurious wake-up.
FairSpec ==
  /\ Spec
  /\ \A w \in Threads : WF_vars(WorkerStep(w)) /\ WF_vars(FinishJob(w))
  /\ WF_vars(MainStep)

-----------------------------------------------------------------------------
(* Properties *)

Running == { fn[w] : w \in { v \in Threads : at[v] = "run" } }

\* The pool does what TaskQueue promises, and with fair threads it does so
\* with TaskQueue's fairness: no wake-up is lost, so no job is left on the
\* list while a worker sleeps, and shutdown() returns.
Abstract ==
  INSTANCE TaskQueue WITH
    queue <- jobs_,
    running <- Running,
    given <- IF main \in {"enqueue", "push"} THEN given \ {arg} ELSE given,
    phase <- IF main = "returned" THEN "closed"
             ELSE IF shutdown_ THEN "closing" ELSE "open"

ImplementsTaskQueue == Abstract!Spec
ImplementsFairTaskQueue == Abstract!FairSpec
=============================================================================
