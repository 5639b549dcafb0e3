-------------------------- MODULE HttpServerProofs --------------------------
(***************************************************************************)
(* The pool keeps its types and does what TaskQueue promises, for any      *)
(* number of workers and jobs and any limit of the list.                   *)
(*                                                                         *)
(* The refinement needs to know that a job is in one place only: a job     *)
(* that was twice on the list, or with two workers, would begin or end     *)
(* twice.  And a worker that has ended leaves nothing behind.              *)
(*                                                                         *)
(* The server of scheme A, for any number of threads and connections, any  *)
(* limit of the list and any keep-alive count: no open connection is left  *)
(* without somebody who will close it, none is open when listen() returns, *)
(* and requests are handled only before that, as main() relies on.         *)
(*                                                                         *)
(* A step of the server is a step of the pool (or none), so what is proved *)
(* of the pool holds for it.                                               *)
(***************************************************************************)
EXTENDS HttpServer, TLAPS

-----------------------------------------------------------------------------
(* The pool. *)

USE PoolAssumption DEF vars, WorkerStages, MainStages

\* What a worker does, one action each.
WorkerActions(w) ==
  Lock(w) \/ Sleep(w) \/ Spurious(w) \/ Pop(w) \/ FinishJob(w) \/ Leave(w)

LEMMA PoolNextCases ==
  ASSUME Next
  PROVE  \/ \E w \in Threads : WorkerActions(w)
         \/ \E j \in Jobs : CallEnqueue(j)
         \/ CallShutdown
         \/ MainStep
<1>1. ASSUME NEW w \in Threads, WorkerStep(w) \/ Spurious(w) \/ FinishJob(w)
      PROVE  WorkerActions(w)
  BY <1>1 DEF WorkerStep, WorkerActions
<1>2. CASE \E w \in Threads : WorkerStep(w) \/ Spurious(w) \/ FinishJob(w)
  <2> PICK w \in Threads : WorkerStep(w) \/ Spurious(w) \/ FinishJob(w)
    BY <1>2
  <2> QED
    BY <1>1
<1> QED
  BY <1>2 DEF Next

LEMMA PoolTypeInitially == Init => TypeOK
<1> SUFFICES ASSUME Init PROVE TypeOK
  OBVIOUS
<1>1. jobs_ \in Seq(Jobs) /\ given \subseteq Jobs
  BY DEF Init
<1>2. /\ at \in [Threads -> WorkerStages]
      /\ fn \in [Threads -> Jobs \cup {None}]
      /\ \A w \in Threads : at[w] = "lock" /\ fn[w] = None
  BY DEF Init
<1> QED
  BY <1>1, <1>2 DEF Init, TypeOK

LEMMA PoolTypeKept == TypeOK /\ [Next]_vars => TypeOK'
<1> SUFFICES ASSUME TypeOK, [Next]_vars PROVE TypeOK'
  OBVIOUS
<1>1. CASE UNCHANGED vars
  BY <1>1 DEF TypeOK
<1>2. ASSUME NEW w \in Threads, WorkerActions(w) PROVE TypeOK'
  <2>1. CASE Lock(w)
    BY <2>1 DEF TypeOK, Lock
  <2>2. CASE Sleep(w)
    BY <2>2 DEF TypeOK, Sleep
  <2>3. CASE Spurious(w)
    BY <2>3 DEF TypeOK, Spurious
  <2>4. CASE Pop(w)
    <3>1. jobs_ # <<>> /\ Head(jobs_) \in Jobs /\ Tail(jobs_) \in Seq(Jobs)
      BY <2>4 DEF TypeOK, Pop
    <3> QED
      BY <2>4, <3>1 DEF TypeOK, Pop
  <2>5. CASE FinishJob(w)
    BY <2>5 DEF TypeOK, FinishJob
  <2>6. CASE Leave(w)
    BY <2>6 DEF TypeOK, Leave
  <2> QED
    BY <1>2, <2>1, <2>2, <2>3, <2>4, <2>5, <2>6 DEF WorkerActions
<1>3. ASSUME NEW j \in Jobs, CallEnqueue(j) PROVE TypeOK'
  BY <1>3 DEF TypeOK, CallEnqueue
<1>4. CASE CallShutdown
  BY <1>4 DEF TypeOK, CallShutdown
<1>5. CASE MainStep
  <2>1. CASE MainLocks
    BY <2>1 DEF TypeOK, MainLocks
  <2>2. CASE Push
    BY <2>2 DEF TypeOK, Push
  <2>3. CASE Refused
    BY <2>3 DEF TypeOK, Refused
  <2>4. CASE NotifyOne
    BY <2>4 DEF TypeOK, NotifyOne, Asleep
  <2>5. CASE SetShutdown
    BY <2>5 DEF TypeOK, SetShutdown
  <2>6. CASE NotifyAll
    BY <2>6 DEF TypeOK, NotifyAll
  <2>7. CASE Join
    BY <2>7 DEF TypeOK, Join
  <2> QED
    BY <1>5, <2>1, <2>2, <2>3, <2>4, <2>5, <2>6, <2>7 DEF MainStep
<1> QED
  BY <1>1, <1>2, <1>3, <1>4, <1>5, PoolNextCases

\* The variables keep their types, the mutex is with the thread that thinks it
\* has it, and a worker has a job when it runs one.
THEOREM PoolTypeCorrect == Spec => []TypeOK
  BY PoolTypeInitially, PoolTypeKept, PTL DEF Spec

-----------------------------------------------------------------------------
\* Main has a job that the list does not have yet.
Holding == main \in {"enqueue", "push"}

Places == 1 .. Len(jobs_)

\* A job is in one place: once on the list, with one worker, or with Main.
OnePlace ==
  /\ \A i, k \in Places : jobs_[i] = jobs_[k] => i = k
  /\ \A i \in Places, w \in Threads : fn[w] # jobs_[i]
  /\ \A v, w \in Threads : fn[v] # None /\ fn[v] = fn[w] => v = w
  /\ Holding => /\ arg \in given
                /\ \A i \in Places : jobs_[i] # arg
                /\ \A w \in Threads : fn[w] # arg

\* Only what enqueue() was called with is anywhere.
AllGiven ==
  /\ \A i \in Places : jobs_[i] \in given
  /\ \A w \in Threads : fn[w] \in given \cup {None}

\* A worker ends when there is nothing left to do, for ever.
EndedLast ==
  /\ shutdown_ <=> main \in {"notify_all", "join", "returned"}
  /\ \A w \in Threads : at[w] = "ended" => shutdown_ /\ jobs_ = <<>>

PoolInv == TypeOK /\ OnePlace /\ AllGiven /\ EndedLast

LEMMA PoolInvInitially == Init => PoolInv
<1> SUFFICES ASSUME Init PROVE PoolInv
  OBVIOUS
<1>1. Len(jobs_) = 0 /\ \A w \in Threads : fn[w] = None /\ at[w] = "lock"
  BY DEF Init
<1>2. Places = {}
  BY <1>1 DEF Places
<1>3. main = "free" /\ shutdown_ = FALSE
  BY DEF Init
<1> QED
  BY <1>1, <1>2, <1>3, PoolTypeInitially
  DEF PoolInv, OnePlace, AllGiven, EndedLast, Holding

\* What is on the list after its head was taken, or a job was added to it.
LEMMA TailPlaces ==
  ASSUME NEW S, NEW s \in Seq(S), s # <<>>
  PROVE  /\ Len(Tail(s)) = Len(s) - 1
         /\ Len(s) \in Nat \ {0}
         /\ Head(s) = s[1]
         /\ \A i \in 1 .. Len(s) - 1 : Tail(s)[i] = s[i + 1]
  OBVIOUS

LEMMA AppendPlaces ==
  ASSUME NEW S, NEW s \in Seq(S), NEW x \in S
  PROVE  /\ Len(Append(s, x)) = Len(s) + 1
         /\ Len(s) \in Nat
         /\ \A i \in 1 .. Len(s) : Append(s, x)[i] = s[i]
         /\ Append(s, x)[Len(s) + 1] = x
  OBVIOUS

\* Steps that move no job.
LEMMA JobsUntouched ==
  ASSUME PoolInv, UNCHANGED <<jobs_, fn, given>>,
         ~ Holding' \/ (Holding /\ arg' = arg)
  PROVE  OnePlace' /\ AllGiven'
  BY DEF PoolInv, OnePlace, AllGiven, Places, Holding

LEMMA PopKeeps ==
  ASSUME PoolInv, NEW w \in Threads, Pop(w)
  PROVE  OnePlace' /\ AllGiven'
<1>1. /\ jobs_ # <<>> /\ jobs_ \in Seq(Jobs) /\ jobs_' = Tail(jobs_)
      /\ fn' = [fn EXCEPT ![w] = jobs_[1]]
      /\ UNCHANGED <<main, arg, given>>
      /\ fn \in [Threads -> Jobs \cup {None}]
  BY TailPlaces DEF Pop, PoolInv, TypeOK
<1>2. /\ Len(jobs_') = Len(jobs_) - 1 /\ Len(jobs_) \in Nat \ {0}
      /\ \A i \in 1 .. Len(jobs_) - 1 : jobs_'[i] = jobs_[i + 1]
  BY <1>1, TailPlaces
<1>3. \A i \in Places' : i + 1 \in Places /\ jobs_'[i] = jobs_[i + 1]
  BY <1>2 DEF Places
<1>4. 1 \in Places /\ \A i \in Places' : i + 1 # 1 /\ i \in Nat
  BY <1>2 DEF Places
<1>5. /\ fn'[w] = jobs_[1]
      /\ \A v \in Threads : v # w => fn'[v] = fn[v]
  BY <1>1
<1>6. \A i, k \in Places' : jobs_'[i] = jobs_'[k] => i = k
  BY <1>3, <1>4 DEF PoolInv, OnePlace
<1>7. \A i \in Places', v \in Threads : fn'[v] # jobs_'[i]
  BY <1>3, <1>4, <1>5 DEF PoolInv, OnePlace
<1>8. \A u, v \in Threads : fn'[u] # None /\ fn'[u] = fn'[v] => u = v
  BY <1>4, <1>5 DEF PoolInv, OnePlace
<1>9. Holding' => /\ arg' \in given'
                  /\ \A i \in Places' : jobs_'[i] # arg'
                  /\ \A v \in Threads : fn'[v] # arg'
  <2>1. Holding' => Holding /\ arg' = arg /\ given' = given
    BY <1>1 DEF Holding
  <2>2. Holding => /\ arg \in given
                   /\ \A i \in Places : jobs_[i] # arg
                   /\ \A v \in Threads : fn[v] # arg
    BY DEF PoolInv, OnePlace
  <2> QED
    BY <2>1, <2>2, <1>3, <1>4, <1>5
<1>10. AllGiven'
  <2>1. /\ \A i \in Places : jobs_[i] \in given
        /\ \A v \in Threads : fn[v] \in given \cup {None}
        /\ given' = given
    BY <1>1 DEF PoolInv, AllGiven
  <2>2. \A i \in Places' : jobs_'[i] \in given'
    BY <2>1, <1>3
  <2>3. \A v \in Threads : fn'[v] \in given' \cup {None}
    BY <2>1, <1>4, <1>5
  <2> QED
    BY <2>2, <2>3 DEF AllGiven
<1> QED
  BY <1>6, <1>7, <1>8, <1>9, <1>10 DEF OnePlace

LEMMA PushKeeps ==
  ASSUME PoolInv, Push
  PROVE  OnePlace' /\ AllGiven'
<1>1. /\ jobs_ \in Seq(Jobs) /\ arg \in Jobs /\ jobs_' = Append(jobs_, arg)
      /\ UNCHANGED <<fn, arg, given>>
      /\ Holding /\ ~ Holding'
  BY DEF Push, PoolInv, TypeOK, Holding
<1>2. /\ Len(jobs_') = Len(jobs_) + 1 /\ Len(jobs_) \in Nat
      /\ \A i \in 1 .. Len(jobs_) : jobs_'[i] = jobs_[i]
      /\ jobs_'[Len(jobs_) + 1] = arg
  BY <1>1, AppendPlaces
<1>3. \A i \in Places' : \/ i \in Places /\ jobs_'[i] = jobs_[i]
                         \/ i = Len(jobs_) + 1 /\ jobs_'[i] = arg
  BY <1>2 DEF Places
<1>4. /\ \A i \in Places : jobs_[i] # arg /\ jobs_[i] \in given
      /\ \A w \in Threads : fn[w] # arg
      /\ arg \in given
  BY <1>1 DEF PoolInv, OnePlace, AllGiven
<1>5. \A i, k \in Places' : jobs_'[i] = jobs_'[k] => i = k
  BY <1>3, <1>4 DEF PoolInv, OnePlace
<1>6. \A i \in Places', w \in Threads : fn'[w] # jobs_'[i]
  BY <1>1, <1>3, <1>4 DEF PoolInv, OnePlace
<1>7. AllGiven'
  BY <1>1, <1>3, <1>4 DEF PoolInv, AllGiven
<1> QED
  BY <1>1, <1>5, <1>6, <1>7 DEF OnePlace, PoolInv

LEMMA FinishKeeps ==
  ASSUME PoolInv, NEW w \in Threads, FinishJob(w)
  PROVE  OnePlace' /\ AllGiven'
<1>1. /\ UNCHANGED <<jobs_, main, arg, given>>
      /\ \A v \in Threads : fn'[v] = IF v = w THEN None ELSE fn[v]
  BY DEF FinishJob, PoolInv, TypeOK
<1>2. /\ \A i \in Places : jobs_[i] # None
      /\ Holding => arg # None
  BY DEF PoolInv, TypeOK, Places, Holding
<1>3. /\ Places' = Places
      /\ Holding' <=> Holding
  BY <1>1 DEF Places, Holding
<1>4. AllGiven'
  BY <1>1, <1>3 DEF PoolInv, AllGiven
<1>5. \A u, v \in Threads : fn'[u] # None /\ fn'[u] = fn'[v] => u = v
  BY <1>1 DEF PoolInv, OnePlace
<1>6. \A i \in Places', v \in Threads : fn'[v] # jobs_'[i]
  BY <1>1, <1>2, <1>3 DEF PoolInv, OnePlace
<1> QED
  BY <1>1, <1>2, <1>3, <1>4, <1>5, <1>6 DEF PoolInv, OnePlace

LEMMA EnqueueKeeps ==
  ASSUME PoolInv, NEW j \in Jobs, CallEnqueue(j)
  PROVE  OnePlace' /\ AllGiven'
<1>1. /\ UNCHANGED <<jobs_, fn>>
      /\ arg' = j /\ j \notin given /\ given' = given \cup {j}
      /\ j # None
  BY DEF CallEnqueue
<1>2. /\ \A i \in Places : jobs_[i] \in given
      /\ \A w \in Threads : fn[w] \in given \cup {None}
      /\ Places' = Places
  BY <1>1 DEF PoolInv, AllGiven, Places
<1>3. AllGiven'
  BY <1>1, <1>2 DEF AllGiven
<1> QED
  BY <1>1, <1>2, <1>3 DEF PoolInv, OnePlace

LEMMA PoolInvKept == PoolInv /\ [Next]_vars => PoolInv'
<1> SUFFICES ASSUME PoolInv, [Next]_vars PROVE PoolInv'
  OBVIOUS
<1>1. TypeOK'
  BY PoolTypeKept DEF PoolInv
<1>2. OnePlace' /\ AllGiven' /\ EndedLast'
  <2>1. CASE UNCHANGED vars
    BY <2>1 DEF PoolInv, OnePlace, AllGiven, EndedLast, Places, Holding
  <2>2. ASSUME NEW w \in Threads, WorkerActions(w)
        PROVE  OnePlace' /\ AllGiven' /\ EndedLast'
    <3>1. CASE Lock(w)
      BY <3>1, JobsUntouched DEF Lock, PoolInv, TypeOK, EndedLast, Holding
    <3>2. CASE Sleep(w)
      BY <3>2, JobsUntouched DEF Sleep, PoolInv, TypeOK, EndedLast, Holding
    <3>3. CASE Spurious(w)
      BY <3>3, JobsUntouched DEF Spurious, PoolInv, TypeOK, EndedLast, Holding
    <3>4. CASE Pop(w)
      <4>1. EndedLast'
        BY <3>4 DEF Pop, PoolInv, TypeOK, EndedLast
      <4> QED
        BY <3>4, <4>1, PopKeeps
    <3>5. CASE FinishJob(w)
      <4>1. EndedLast'
        BY <3>5 DEF FinishJob, PoolInv, TypeOK, EndedLast
      <4> QED
        BY <3>5, <4>1, FinishKeeps
    <3>6. CASE Leave(w)
      BY <3>6, JobsUntouched DEF Leave, PoolInv, TypeOK, EndedLast, Holding
    <3> QED
      BY <2>2, <3>1, <3>2, <3>3, <3>4, <3>5, <3>6 DEF WorkerActions
  <2>3. ASSUME NEW j \in Jobs, CallEnqueue(j)
        PROVE  OnePlace' /\ AllGiven' /\ EndedLast'
    <3>1. EndedLast'
      BY <2>3 DEF CallEnqueue, PoolInv, EndedLast
    <3> QED
      BY <2>3, <3>1, EnqueueKeeps
  <2>4. CASE CallShutdown
    BY <2>4, JobsUntouched DEF CallShutdown, PoolInv, EndedLast, Holding
  <2>5. CASE MainStep
    <3>1. CASE MainLocks
      BY <3>1, JobsUntouched DEF MainLocks, PoolInv, EndedLast, Holding
    <3>2. CASE Push
      <4>1. EndedLast'
        BY <3>2 DEF Push, PoolInv, EndedLast
      <4> QED
        BY <3>2, <4>1, PushKeeps
    <3>3. CASE Refused
      BY <3>3, JobsUntouched DEF Refused, PoolInv, EndedLast, Holding
    <3>4. CASE NotifyOne
      BY <3>4, JobsUntouched DEF NotifyOne, Asleep, PoolInv, TypeOK, EndedLast, Holding
    <3>5. CASE SetShutdown
      BY <3>5, JobsUntouched DEF SetShutdown, PoolInv, EndedLast, Holding
    <3>6. CASE NotifyAll
      BY <3>6, JobsUntouched DEF NotifyAll, PoolInv, TypeOK, EndedLast, Holding
    <3>7. CASE Join
      BY <3>7, JobsUntouched DEF Join, PoolInv, EndedLast, Holding
    <3> QED
      BY <2>5, <3>1, <3>2, <3>3, <3>4, <3>5, <3>6, <3>7 DEF MainStep
  <2> QED
    BY <2>1, <2>2, <2>3, <2>4, <2>5, PoolNextCases
<1> QED
  BY <1>1, <1>2 DEF PoolInv

-----------------------------------------------------------------------------
(* The refinement. *)

Given == IF main \in {"enqueue", "push"} THEN given \ {arg} ELSE given

Phase == IF main = "returned" THEN "closed"
         ELSE IF shutdown_ THEN "closing" ELSE "open"

USE DEF Given, Phase

LEMMA RunningIs ==
  ASSUME TypeOK
  PROVE  /\ Running \subseteq Jobs
         /\ \A j : j \in Running <=> \E w \in Threads : fn[w] = j /\ j # None
  BY DEF Running, TypeOK

\* The workers run what they ran, if fn is the same.
LEMMA SameRunning ==
  ASSUME TypeOK, TypeOK', UNCHANGED fn
  PROVE  Running' = Running
<1>1. \A j : j \in Running' <=> \E w \in Threads : fn'[w] = j /\ j # None
  BY DEF Running, TypeOK
<1> QED
  BY <1>1, RunningIs

\* The list and the workers keep what they have, and so do given and phase.
LEMMA Stutters ==
  ASSUME TypeOK, TypeOK', UNCHANGED <<jobs_, fn>>, Given' = Given, Phase' = Phase
  PROVE  UNCHANGED Abstract!vars
  BY SameRunning DEF Abstract!vars

LEMMA PopBegins ==
  ASSUME PoolInv, TypeOK', NEW w \in Threads, Pop(w)
  PROVE  Abstract!BeginJob
<1>1. /\ jobs_ # <<>> /\ jobs_' = Tail(jobs_)
      /\ fn' = [fn EXCEPT ![w] = Head(jobs_)]
      /\ UNCHANGED <<shutdown_, main, arg, given>>
      /\ at[w] = "test"
  BY DEF Pop
<1>2. /\ fn[w] = None
      /\ fn'[w] = Head(jobs_)
      /\ \A v \in Threads : v # w => fn'[v] = fn[v]
  BY <1>1 DEF PoolInv, TypeOK
<1>3. Head(jobs_) \in Jobs
  BY <1>1 DEF PoolInv, TypeOK
<1>4. \A j : j \in Running' <=> \E v \in Threads : fn'[v] = j /\ j # None
  BY DEF Running, TypeOK
<1>5. Running' = Running \cup {Head(jobs_)}
  BY <1>2, <1>3, <1>4, RunningIs DEF PoolInv
<1> QED
  BY <1>1, <1>5 DEF Abstract!BeginJob

LEMMA FinishEnds ==
  ASSUME PoolInv, TypeOK', NEW w \in Threads, FinishJob(w)
  PROVE  \E j \in Jobs : Abstract!EndJob(j)
<1>1. /\ UNCHANGED <<jobs_, shutdown_, main, arg, given>>
      /\ \A v \in Threads : fn'[v] = IF v = w THEN None ELSE fn[v]
      /\ fn[w] # None /\ fn[w] \in Jobs
  BY DEF FinishJob, PoolInv, TypeOK
<1>2. \A j : j \in Running' <=> \E v \in Threads : fn'[v] = j /\ j # None
  BY DEF Running, TypeOK
<1>3. \A v \in Threads : fn[v] = fn[w] => v = w
  BY <1>1 DEF PoolInv, OnePlace
<1>4. Running' = Running \ {fn[w]} /\ fn[w] \in Running
  BY <1>1, <1>2, <1>3, RunningIs DEF PoolInv
<1> QED
  BY <1>1, <1>4 DEF Abstract!EndJob

LEMMA PushTakes ==
  ASSUME PoolInv, TypeOK', Push
  PROVE  Abstract!Take(arg) /\ arg \in Jobs
<1>1. /\ main = "push" /\ main' = "notify" /\ ~ Full
      /\ jobs_' = Append(jobs_, arg)
      /\ UNCHANGED <<shutdown_, fn, given>>
      /\ arg \in Jobs
  BY DEF Push, PoolInv, TypeOK
<1>2. ~ shutdown_ /\ arg \in given
  BY <1>1 DEF PoolInv, EndedLast, OnePlace, Holding
<1>3. Running' = Running
  BY <1>1, SameRunning DEF PoolInv
<1> QED
  BY <1>1, <1>2, <1>3 DEF Abstract!Take, Abstract!Full, Full

LEMMA RefusedRefuses ==
  ASSUME PoolInv, TypeOK', Refused
  PROVE  Abstract!Refuse(arg) /\ arg \in Jobs
<1>1. /\ main = "push" /\ main' = "free" /\ Full
      /\ UNCHANGED <<jobs_, shutdown_, fn, given>>
      /\ arg \in Jobs
  BY DEF Refused, PoolInv, TypeOK
<1>2. ~ shutdown_ /\ arg \in given
  BY <1>1 DEF PoolInv, EndedLast, OnePlace, Holding
<1>3. Running' = Running
  BY <1>1, SameRunning DEF PoolInv
<1> QED
  BY <1>1, <1>2, <1>3 DEF Abstract!Refuse, Abstract!Full, Full

LEMMA JoinReturns ==
  ASSUME PoolInv, TypeOK', Join
  PROVE  Abstract!Return
<1>1. /\ main = "join" /\ main' = "returned"
      /\ \A w \in Threads : at[w] = "ended"
      /\ UNCHANGED <<jobs_, shutdown_, fn, given>>
  BY DEF Join
<1>2. shutdown_ /\ jobs_ = <<>>
  BY <1>1 DEF PoolInv, EndedLast
<1>3. \A w \in Threads : fn[w] = None
  BY <1>1 DEF PoolInv, TypeOK
<1>4. Running = {}
  BY <1>3, RunningIs DEF PoolInv
<1>5. Running' = Running
  BY <1>1, SameRunning DEF PoolInv
<1> QED
  BY <1>1, <1>2, <1>4, <1>5 DEF Abstract!Return

LEMMA PoolStepRefines ==
  ASSUME PoolInv, PoolInv', [Next]_vars
  PROVE  [Abstract!Next]_(Abstract!vars)
<1> USE DEF PoolInv
<1>1. CASE UNCHANGED vars
  BY <1>1, Stutters
<1>2. ASSUME NEW w \in Threads, WorkerActions(w)
      PROVE  [Abstract!Next]_(Abstract!vars)
  <2>1. CASE Pop(w)
    BY <2>1, PopBegins DEF Abstract!Next
  <2>2. CASE FinishJob(w)
    BY <2>2, FinishEnds DEF Abstract!Next
  <2>3. CASE Lock(w) \/ Sleep(w) \/ Spurious(w) \/ Leave(w)
    <3>1. UNCHANGED <<jobs_, shutdown_, fn, main, arg, given>>
      BY <2>3 DEF Lock, Sleep, Spurious, Leave
    <3> QED
      BY <3>1, Stutters
  <2> QED
    BY <1>2, <2>1, <2>2, <2>3 DEF WorkerActions
<1>3. ASSUME NEW j \in Jobs, CallEnqueue(j)
      PROVE  [Abstract!Next]_(Abstract!vars)
  <2>1. Given' = Given
    BY <1>3 DEF CallEnqueue
  <2> QED
    BY <1>3, <2>1, Stutters DEF CallEnqueue
<1>4. CASE CallShutdown
  BY <1>4, Stutters DEF CallShutdown
<1>5. CASE MainStep
  <2>1. CASE MainLocks \/ NotifyOne \/ NotifyAll
    BY <2>1, Stutters DEF MainLocks, NotifyOne, NotifyAll
  <2>2. CASE Push
    BY <2>2, PushTakes DEF Abstract!Next
  <2>3. CASE Refused
    BY <2>3, RefusedRefuses DEF Abstract!Next
  <2>4. CASE SetShutdown
    <3>1. Running' = Running
      BY <2>4, SameRunning DEF SetShutdown
    <3>2. /\ ~ shutdown_ /\ shutdown_' = TRUE
          /\ main = "set" /\ main' = "notify_all"
          /\ UNCHANGED <<jobs_, given>>
      BY <2>4 DEF SetShutdown, EndedLast
    <3>3. Abstract!Shutdown
      BY <3>1, <3>2 DEF Abstract!Shutdown
    <3> QED
      BY <3>3 DEF Abstract!Next
  <2>5. CASE Join
    BY <2>5, JoinReturns DEF Abstract!Next
  <2> QED
    BY <1>5, <2>1, <2>2, <2>3, <2>4, <2>5 DEF MainStep
<1> QED
  BY <1>1, <1>2, <1>3, <1>4, <1>5, PoolNextCases

\* Jobs begin in the order they were given, each is run once, a job is refused
\* only by a full list, and shutdown() returns when all that were taken have
\* ended: for any number of workers, whatever wakes them and in any order.
THEOREM PoolRefines == Spec => ImplementsTaskQueue
<1>1. Init => Abstract!Init
  <2> SUFFICES ASSUME Init PROVE Abstract!Init
    OBVIOUS
  <2>1. TypeOK
    BY PoolTypeInitially
  <2>2. \A w \in Threads : fn[w] = None
    BY DEF Init
  <2>3. Running = {}
    BY <2>1, <2>2, RunningIs
  <2> QED
    BY <2>3 DEF Init, Abstract!Init
<1>2. PoolInv /\ PoolInv' /\ [Next]_vars => [Abstract!Next]_(Abstract!vars)
  BY PoolStepRefines
<1> QED
  BY <1>1, <1>2, PoolInvInitially, PoolInvKept, PTL
  DEF Spec, ImplementsTaskQueue, Abstract!Spec

HIDE DEF WorkerStages, MainStages, Given, Phase

-----------------------------------------------------------------------------
(* The server around it. *)

USE PoolAssumption, CountAssumption DEF vars, pool, http, all

LEMMA HttpStepIsPool ==
  ASSUME [HttpNext]_all
  PROVE  [Next]_vars
<1>1. CASE UNCHANGED all
  BY <1>1 DEF all
<1>2. CASE HttpNext
  <2>1. ASSUME NEW c \in Jobs, Connect(c) \/ Send(c) PROVE UNCHANGED vars
    BY <2>1 DEF Connect, Send
  <2>2. ASSUME NEW c \in Jobs, Accept(c) PROVE Next
    BY <2>2 DEF Accept, Next
  <2>3. ASSUME Enqueued \/ NotEnqueued \/ EndLoop \/ ShutDown PROVE Next
    BY <2>3 DEF Enqueued, NotEnqueued, EndLoop, ShutDown, Next, MainStep
  <2>4. ASSUME AcceptFails \/ StopServer PROVE UNCHANGED vars
    BY <2>4 DEF AcceptFails, StopServer, CloseListener
  <2>5. ASSUME NEW w \in Threads, PoolStep(w) \/ Serve(w) PROVE Next
    BY <2>5 DEF PoolStep, Serve, Next, WorkerStep
  <2>6. ASSUME NEW w \in Threads, Exchange(w) PROVE [Next]_vars
    BY <2>6 DEF Exchange, Readable, GiveUp, Handle, ReadFails, CloseSocket,
       Goto, Next
  <2> QED
    BY <1>2, <2>1, <2>2, <2>3, <2>4, <2>5, <2>6 DEF HttpNext
<1> QED
  BY <1>1, <1>2

\* With the server around it the pool is still the pool, so it still does what
\* TaskQueue promises.
THEOREM ServerRunsPool == HttpSpec => Spec /\ ImplementsTaskQueue
<1>1. HttpInit => Init
  BY DEF HttpInit
<1>2. [HttpNext]_all => [Next]_vars
  BY HttpStepIsPool
<1> QED
  BY <1>1, <1>2, PoolRefines, PTL DEF HttpSpec, Spec

-----------------------------------------------------------------------------
\* HttpTypeOK without the pool's part.
ServerTypes ==
  /\ svr_sock_ \in {"open", "invalid", "stale"}
  /\ conn \in [Jobs -> {"none", "backlog", "open", "closed"}]
  /\ input \in [Jobs -> {"", "request", "end"}]
  /\ serving \in [Threads -> {"", "await", "request", "close"}]
  /\ count \in [Threads -> 0 .. MaxCount]
  /\ answered \in [Jobs -> 0 .. MaxCount]
  /\ \A w \in Threads : serving[w] # "" <=> fn[w] # None

\* Whoever has a connection finds it open.
HeldOpen ==
  /\ \A w \in Threads : fn[w] # None => conn[fn[w]] = "open"
  /\ \A i \in Places : conn[jobs_[i]] = "open"
  /\ Holding => conn[arg] = "open"

\* The count of a worker and what it has answered add up, from nothing for a
\* connection no worker has had.
Counted ==
  /\ \A i \in Places : answered[jobs_[i]] = 0
  /\ Holding => answered[arg] = 0
  /\ \A c \in Jobs : c \notin given => answered[c] = 0
  /\ \A w \in Threads : serving[w] \in {"await", "request"} =>
       answered[fn[w]] + count[w] = MaxCount
  /\ \A w \in Threads : serving[w] = "request" => count[w] > 0

AllEnded == main = "returned" => \A w \in Threads : at[w] = "ended"

HttpInv ==
  PoolInv /\ ServerTypes /\ HeldOpen /\ Counted /\ NoConnectionLost /\ AllEnded

LEMMA HttpInvInitially == HttpInit => HttpInv
<1> SUFFICES ASSUME HttpInit PROVE HttpInv
  OBVIOUS
<1>1. Init /\ PoolInv
  BY PoolInvInitially DEF HttpInit
<1>2. /\ \A w \in Threads : fn[w] = None
      /\ Places = {} /\ ~ Holding /\ main = "free"
  BY <1>1 DEF Init, Places, Holding
<1>3. ServerTypes
  <2>1. 0 \in 0 .. MaxCount
    OBVIOUS
  <2>2. \A w \in Threads : serving[w] = ""
    BY DEF HttpInit
  <2> QED
    BY <1>2, <2>1, <2>2 DEF HttpInit, ServerTypes
<1>4. HeldOpen /\ AllEnded
  BY <1>2 DEF HeldOpen, AllEnded
<1>5. Counted
  BY <1>2 DEF HttpInit, Counted
<1>6. NoConnectionLost
  BY DEF HttpInit, NoConnectionLost
<1> QED
  BY <1>1, <1>3, <1>4, <1>5, <1>6 DEF HttpInv

-----------------------------------------------------------------------------
\* Steps of the pool that move no job.
LEMMA ServerUntouched ==
  ASSUME HttpInv, UNCHANGED http, UNCHANGED <<jobs_, fn, given>>,
         Holding' <=> Holding, Holding => arg' = arg
  PROVE  ServerTypes' /\ HeldOpen' /\ Counted' /\ NoConnectionLost'
<1>1. Places' = Places /\ DOMAIN jobs_ = DOMAIN jobs_'
  BY DEF Places
<1>2. ServerTypes'
  BY DEF HttpInv, ServerTypes
<1>3. HeldOpen' /\ Counted'
  BY <1>1 DEF HttpInv, HeldOpen, Counted
<1>4. NoConnectionLost'
  BY <1>1 DEF HttpInv, NoConnectionLost, Holding
<1> QED
  BY <1>2, <1>3, <1>4

\* Steps that leave the pool alone and no connection open that was not.
LEMMA PoolUntouched ==
  ASSUME HttpInv, UNCHANGED pool, UNCHANGED <<serving, count, answered>>,
         \A c \in Jobs : conn'[c] = "open" <=> conn[c] = "open"
  PROVE  HeldOpen' /\ Counted' /\ NoConnectionLost' /\ AllEnded'
<1>1. /\ Places' = Places
      /\ Holding' <=> Holding
      /\ UNCHANGED <<fn, jobs_, arg, given, main>>
  BY DEF Places, Holding
<1>2. /\ \A i \in Places : jobs_[i] \in Jobs
      /\ \A w \in Threads : fn[w] # None => fn[w] \in Jobs
      /\ Holding => arg \in Jobs
  BY DEF HttpInv, PoolInv, TypeOK, Places, Holding
<1>3. HeldOpen'
  BY <1>1, <1>2 DEF HttpInv, HeldOpen
<1>4. Counted'
  BY <1>1 DEF HttpInv, Counted
<1>5. NoConnectionLost'
  BY <1>1 DEF HttpInv, NoConnectionLost
<1>6. AllEnded'
  BY DEF HttpInv, AllEnded
<1> QED
  BY <1>3, <1>4, <1>5, <1>6

\* What is known of the jobs of a pool that keeps PoolInv.
LEMMA JobFacts ==
  ASSUME HttpInv
  PROVE  /\ jobs_ \in Seq(Jobs) /\ Len(jobs_) \in Nat /\ DOMAIN jobs_ = Places
         /\ \A i \in Places : jobs_[i] \in Jobs
         /\ \A w \in Threads : fn[w] # None => fn[w] \in Jobs
         /\ Holding => arg \in Jobs
  BY DEF HttpInv, PoolInv, TypeOK, Places, Holding

-----------------------------------------------------------------------------
(* Steps of the listener. *)

LEMMA AcceptKeeps ==
  ASSUME HttpInv, NEW c \in Jobs, Accept(c)
  PROVE  ServerTypes' /\ HeldOpen' /\ Counted' /\ NoConnectionLost' /\ AllEnded'
<1>1. /\ UNCHANGED <<jobs_, fn, svr_sock_, input, serving, count, answered>>
      /\ conn[c] = "backlog" /\ c \notin given
      /\ arg' = c /\ given' = given \cup {c} /\ main' = "enqueue"
  BY DEF Accept, CallEnqueue
<1>2. /\ conn' \in [Jobs -> {"none", "backlog", "open", "closed"}]
      /\ \A d \in Jobs : conn'[d] = IF d = c THEN "open" ELSE conn[d]
  BY DEF Accept, HttpInv, ServerTypes
<1>3. Places' = Places /\ Holding'
  BY <1>1 DEF Places, Holding
<1>4. ServerTypes'
  BY <1>1, <1>2 DEF HttpInv, ServerTypes
<1>5. HeldOpen'
  BY <1>1, <1>2, <1>3, JobFacts DEF HttpInv, HeldOpen
<1>6. Counted'
  BY <1>1, <1>3 DEF HttpInv, Counted
<1>7. NoConnectionLost'
  <2> SUFFICES ASSUME NEW d \in Jobs, conn'[d] = "open", d # c
               PROVE  \/ \E i \in DOMAIN jobs_' : jobs_'[i] = d
                      \/ \E w \in Threads : fn'[w] = d
    BY <1>1 DEF NoConnectionLost
  <2>1. ~ Holding
    BY DEF Accept, CallEnqueue, Holding
  <2> QED
    BY <1>1, <1>2, <2>1 DEF HttpInv, NoConnectionLost, Holding
<1>8. AllEnded'
  BY <1>1 DEF AllEnded
<1> QED
  BY <1>4, <1>5, <1>6, <1>7, <1>8

LEMMA PushKeepsServer ==
  ASSUME HttpInv, Push, UNCHANGED http
  PROVE  ServerTypes' /\ HeldOpen' /\ Counted' /\ NoConnectionLost'
<1>1. /\ UNCHANGED <<fn, arg, given>>
      /\ jobs_' = Append(jobs_, arg)
      /\ Holding /\ ~ Holding'
      /\ arg \in Jobs
  BY JobFacts DEF Push, Holding
<1>2. /\ Len(jobs_') = Len(jobs_) + 1 /\ Len(jobs_) \in Nat
      /\ \A i \in 1 .. Len(jobs_) : jobs_'[i] = jobs_[i]
      /\ jobs_'[Len(jobs_) + 1] = arg
      /\ DOMAIN jobs_' = Places'
  BY <1>1, JobFacts, AppendPlaces DEF Places
<1>3. /\ \A i \in Places' : \/ i \in Places /\ jobs_'[i] = jobs_[i]
                           \/ jobs_'[i] = arg
      /\ \A i \in Places : i \in Places' /\ jobs_'[i] = jobs_[i]
      /\ \E i \in Places' : jobs_'[i] = arg
  <2>1. Len(jobs_) + 1 \in Places'
    BY <1>2 DEF Places
  <2> QED
    BY <1>2, <2>1 DEF Places
<1>4. ServerTypes'
  BY <1>1 DEF HttpInv, ServerTypes
<1>5. HeldOpen'
  BY <1>1, <1>3 DEF HttpInv, HeldOpen
<1>6. Counted'
  BY <1>1, <1>3 DEF HttpInv, Counted
<1>7. NoConnectionLost'
  <2> SUFFICES ASSUME NEW c \in Jobs, conn[c] = "open"
               PROVE  \/ \E i \in Places' : jobs_'[i] = c
                      \/ \E w \in Threads : fn[w] = c
    BY <1>1, <1>2 DEF NoConnectionLost
  <2> QED
    BY <1>3, JobFacts DEF HttpInv, NoConnectionLost
<1> QED
  BY <1>4, <1>5, <1>6, <1>7

LEMMA RefusalKeeps ==
  ASSUME HttpInv, NotEnqueued
  PROVE  ServerTypes' /\ HeldOpen' /\ Counted' /\ NoConnectionLost' /\ AllEnded'
<1>1. /\ UNCHANGED <<jobs_, fn, given, svr_sock_, input, serving, count, answered>>
      /\ Holding /\ ~ Holding' /\ main' = "free"
      /\ Places' = Places /\ DOMAIN jobs_' = DOMAIN jobs_
      /\ arg \in Jobs
  BY JobFacts DEF NotEnqueued, Refused, Holding, Places
<1>2. /\ conn' \in [Jobs -> {"none", "backlog", "open", "closed"}]
      /\ \A d \in Jobs : conn'[d] = IF d = arg THEN "closed" ELSE conn[d]
  BY <1>1 DEF NotEnqueued, HttpInv, ServerTypes
<1>3. /\ \A i \in Places : jobs_[i] # arg
      /\ \A w \in Threads : fn[w] # arg
  BY <1>1 DEF HttpInv, PoolInv, OnePlace
<1>4. ServerTypes'
  BY <1>1, <1>2 DEF HttpInv, ServerTypes
<1>5. HeldOpen'
  BY <1>1, <1>2, <1>3, JobFacts DEF HttpInv, HeldOpen
<1>6. Counted'
  BY <1>1 DEF HttpInv, Counted
<1>7. NoConnectionLost'
  BY <1>1, <1>2 DEF HttpInv, NoConnectionLost
<1>8. AllEnded'
  BY <1>1 DEF AllEnded
<1> QED
  BY <1>4, <1>5, <1>6, <1>7, <1>8

-----------------------------------------------------------------------------
(* Steps of a worker. *)

LEMMA ServeKeeps ==
  ASSUME HttpInv, NEW w \in Threads, Serve(w)
  PROVE  ServerTypes' /\ HeldOpen' /\ Counted' /\ NoConnectionLost' /\ AllEnded'
<1>1. /\ UNCHANGED <<main, arg, given, svr_sock_, conn, input, answered>>
      /\ jobs_ # <<>> /\ jobs_' = Tail(jobs_) /\ Head(jobs_) = jobs_[1]
  BY JobFacts, TailPlaces DEF Serve, Pop
<1>2. /\ Len(jobs_') = Len(jobs_) - 1 /\ Len(jobs_) \in Nat \ {0}
      /\ \A i \in 1 .. Len(jobs_) - 1 : jobs_'[i] = jobs_[i + 1]
      /\ jobs_' \in Seq(Jobs)
  BY <1>1, JobFacts, TailPlaces
<1>3. /\ DOMAIN jobs_' = Places' /\ 1 \in Places
      /\ \A i \in Places' : i + 1 \in Places /\ jobs_'[i] = jobs_[i + 1]
      /\ \A i \in Places : i = 1 \/ (i - 1 \in Places' /\ jobs_'[i - 1] = jobs_[i])
  BY <1>2 DEF Places
<1>4. /\ \A v \in Threads : fn'[v] = IF v = w THEN jobs_[1] ELSE fn[v]
      /\ fn[w] = None /\ jobs_[1] # None
      /\ \A v \in Threads : serving'[v] = IF v = w THEN "await" ELSE serving[v]
      /\ \A v \in Threads : count'[v] = IF v = w THEN MaxCount ELSE count[v]
      /\ serving' \in [Threads -> {"", "await", "request", "close"}]
      /\ count' \in [Threads -> 0 .. MaxCount]
  <2>1. fn' = [fn EXCEPT ![w] = jobs_[1]] /\ at[w] = "test"
    BY <1>1 DEF Serve, Pop
  <2>2. fn[w] = None /\ fn \in [Threads -> Jobs \cup {None}]
    BY <2>1 DEF HttpInv, PoolInv, TypeOK
  <2>3. jobs_[1] # None
    BY <1>3, JobFacts
  <2>4. /\ serving \in [Threads -> {"", "await", "request", "close"}]
        /\ count \in [Threads -> 0 .. MaxCount]
        /\ serving' = [serving EXCEPT ![w] = "await"]
        /\ count' = [count EXCEPT ![w] = MaxCount]
    BY DEF Serve, HttpInv, ServerTypes
  <2>5. \A v \in Threads : fn'[v] = IF v = w THEN jobs_[1] ELSE fn[v]
    BY <2>1, <2>2
  <2>6. /\ \A v \in Threads : serving'[v] = IF v = w THEN "await" ELSE serving[v]
        /\ serving' \in [Threads -> {"", "await", "request", "close"}]
    BY <2>4
  <2>7. /\ \A v \in Threads : count'[v] = IF v = w THEN MaxCount ELSE count[v]
        /\ count' \in [Threads -> 0 .. MaxCount]
    <3>1. MaxCount \in 0 .. MaxCount
      OBVIOUS
    <3> QED
      BY <2>4, <3>1
  <2> QED
    BY <2>2, <2>3, <2>5, <2>6, <2>7
<1>5. ServerTypes'
  BY <1>1, <1>4 DEF HttpInv, ServerTypes
<1>6. Holding' <=> Holding
  BY <1>1 DEF Holding
<1>7. HeldOpen'
  <2>1. \A v \in Threads : fn'[v] # None => conn[fn'[v]] = "open"
    <3>1. conn[jobs_[1]] = "open"
      BY <1>3 DEF HttpInv, HeldOpen
    <3>2. \A v \in Threads : fn[v] # None => conn[fn[v]] = "open"
      BY DEF HttpInv, HeldOpen
    <3> QED
      BY <1>4, <3>1, <3>2
  <2>2. \A i \in Places' : conn[jobs_'[i]] = "open"
    BY <1>3 DEF HttpInv, HeldOpen
  <2> QED
    BY <1>1, <1>6, <2>1, <2>2 DEF HttpInv, HeldOpen
<1>8. Counted'
  <2>1. \A i \in Places' : answered'[jobs_'[i]] = 0
    BY <1>1, <1>3 DEF HttpInv, Counted
  <2>2. \A v \in Threads : serving'[v] \in {"await", "request"} =>
          answered'[fn'[v]] + count'[v] = MaxCount
    <3>1. answered[jobs_[1]] = 0 /\ 0 + MaxCount = MaxCount
      BY <1>3 DEF HttpInv, Counted
    <3>2. \A v \in Threads : serving[v] \in {"await", "request"} =>
            answered[fn[v]] + count[v] = MaxCount
      BY DEF HttpInv, Counted
    <3> QED
      BY <1>1, <1>4, <3>1, <3>2
  <2>3. \A v \in Threads : serving'[v] = "request" => count'[v] > 0
    BY <1>4 DEF HttpInv, Counted
  <2> QED
    BY <1>1, <1>6, <2>1, <2>2, <2>3 DEF HttpInv, Counted
<1>9. NoConnectionLost'
  <2> SUFFICES ASSUME NEW c \in Jobs, conn[c] = "open"
               PROVE  \/ \E i \in Places' : jobs_'[i] = c
                      \/ \E v \in Threads : fn'[v] = c
                      \/ main \in {"enqueue", "push"} /\ arg = c
    BY <1>1, <1>3 DEF NoConnectionLost
  <2>1. CASE \E i \in Places : jobs_[i] = c
    <3> PICK i \in Places : jobs_[i] = c
      BY <2>1
    <3>1. CASE i = 1
      BY <3>1, <1>4
    <3>2. CASE i # 1
      BY <3>2, <1>3
    <3> QED
      BY <3>1, <3>2
  <2>2. CASE \E v \in Threads : fn[v] = c
    BY <2>2, <1>4
  <2> QED
    BY <2>1, <2>2, JobFacts DEF HttpInv, NoConnectionLost
<1>10. AllEnded'
  BY <1>1 DEF Serve, Pop, HttpInv, AllEnded
<1> QED
  BY <1>5, <1>7, <1>8, <1>9, <1>10

LEMMA CloseKeeps ==
  ASSUME HttpInv, NEW w \in Threads, CloseSocket(w)
  PROVE  ServerTypes' /\ HeldOpen' /\ Counted' /\ NoConnectionLost' /\ AllEnded'
<1>1. /\ UNCHANGED <<jobs_, main, arg, given, svr_sock_, input, count, answered>>
      /\ Places' = Places /\ DOMAIN jobs_' = DOMAIN jobs_
      /\ Holding' <=> Holding
  BY DEF CloseSocket, FinishJob, Places, Holding
<1>2. fn[w] \in Jobs /\ fn[w] # None /\ at[w] = "run" /\ main # "returned"
  BY DEF CloseSocket, FinishJob, HttpInv, PoolInv, TypeOK, AllEnded
<1>3. /\ \A v \in Threads : fn'[v] = IF v = w THEN None ELSE fn[v]
      /\ \A v \in Threads : serving'[v] = IF v = w THEN "" ELSE serving[v]
      /\ \A c \in Jobs : conn'[c] = IF c = fn[w] THEN "closed" ELSE conn[c]
      /\ serving' \in [Threads -> {"", "await", "request", "close"}]
      /\ conn' \in [Jobs -> {"none", "backlog", "open", "closed"}]
  BY DEF CloseSocket, FinishJob, HttpInv, PoolInv, TypeOK, ServerTypes
<1>4. /\ \A v \in Threads : fn[v] = fn[w] => v = w
      /\ \A i \in Places : jobs_[i] # fn[w]
      /\ Holding => arg # fn[w]
  BY <1>2 DEF HttpInv, PoolInv, OnePlace
<1>5. ServerTypes'
  BY <1>1, <1>3 DEF HttpInv, ServerTypes
<1>6. HeldOpen'
  <2>1. \A v \in Threads : fn'[v] # None =>
          fn[v] # None /\ fn'[v] = fn[v] /\ fn[v] # fn[w] /\ fn[v] \in Jobs
    BY <1>3, <1>4, JobFacts
  <2>2. \A v \in Threads : fn'[v] # None => conn'[fn'[v]] = "open"
    <3>1. \A v \in Threads : fn[v] # None => conn[fn[v]] = "open"
      BY DEF HttpInv, HeldOpen
    <3> QED
      BY <1>3, <2>1, <3>1
  <2>3. \A i \in Places : conn'[jobs_[i]] = "open"
    BY <1>3, <1>4, JobFacts DEF HttpInv, HeldOpen
  <2>4. Holding => conn'[arg] = "open"
    BY <1>3, <1>4, JobFacts DEF HttpInv, HeldOpen
  <2> QED
    BY <1>1, <2>2, <2>3, <2>4 DEF HeldOpen
<1>7. Counted'
  BY <1>1, <1>3 DEF HttpInv, Counted
<1>8. NoConnectionLost'
  BY <1>1, <1>3 DEF HttpInv, NoConnectionLost
<1>9. AllEnded'
  BY <1>1, <1>2 DEF AllEnded
<1> QED
  BY <1>5, <1>6, <1>7, <1>8, <1>9

\* Between two requests, and in one, a worker keeps its connection.
LEMMA ExchangeKeeps ==
  ASSUME HttpInv, NEW w \in Threads, Readable(w) \/ GiveUp(w) \/ Handle(w) \/ ReadFails(w)
  PROVE  ServerTypes' /\ HeldOpen' /\ Counted' /\ NoConnectionLost' /\ AllEnded'
<1>1. /\ UNCHANGED <<jobs_, fn, main, arg, given, at, svr_sock_, conn>>
      /\ Places' = Places /\ DOMAIN jobs_' = DOMAIN jobs_
      /\ Holding' <=> Holding
  BY DEF Readable, GiveUp, Handle, ReadFails, Goto, Places, Holding
<1>2. HeldOpen' /\ NoConnectionLost' /\ AllEnded'
  BY <1>1 DEF HttpInv, HeldOpen, NoConnectionLost, AllEnded
<1>3. serving[w] # ""
  BY DEF Readable, GiveUp, Handle, ReadFails
<1>4. fn[w] \in Jobs /\ fn[w] # None
  BY <1>3, JobFacts DEF HttpInv, ServerTypes
<1>5. ASSUME NEW s \in {"request", "close"}, serving' = [serving EXCEPT ![w] = s],
             UNCHANGED <<input, count, answered>>,
             s = "request" => serving[w] = "await" /\ count[w] > 0
      PROVE  ServerTypes' /\ Counted'
  <2>1. /\ serving' \in [Threads -> {"", "await", "request", "close"}]
        /\ \A v \in Threads : serving'[v] = IF v = w THEN s ELSE serving[v]
    BY <1>5 DEF HttpInv, ServerTypes
  <2>2. ServerTypes'
    BY <1>1, <1>4, <1>5, <2>1 DEF HttpInv, ServerTypes
  <2>3. Counted'
    BY <1>1, <1>5, <2>1 DEF HttpInv, Counted
  <2> QED
    BY <2>2, <2>3
<1>6. CASE Readable(w) \/ GiveUp(w) \/ ReadFails(w)
  <2>1. \E s \in {"request", "close"} :
          /\ serving' = [serving EXCEPT ![w] = s]
          /\ s = "request" => serving[w] = "await" /\ count[w] > 0
    BY <1>6 DEF Readable, GiveUp, ReadFails, Goto
  <2>2. UNCHANGED <<input, count, answered>>
    BY <1>6 DEF Readable, GiveUp, ReadFails, Goto
  <2> QED
    BY <1>2, <1>5, <2>1, <2>2
<1>7. CASE Handle(w)
  <2>1. /\ serving[w] = "request" /\ count[w] \in 1 .. MaxCount
        /\ answered[fn[w]] + count[w] = MaxCount
        /\ answered[fn[w]] \in 0 .. MaxCount
    <3>1. serving[w] = "request"
      BY <1>7 DEF Handle
    <3>2. /\ count[w] \in 0 .. MaxCount
          /\ answered[fn[w]] \in 0 .. MaxCount
      BY <1>4 DEF HttpInv, ServerTypes
    <3>3. count[w] > 0 /\ answered[fn[w]] + count[w] = MaxCount
      BY <3>1 DEF HttpInv, Counted
    <3> QED
      BY <3>1, <3>2, <3>3
  <2>2. /\ \A c \in Jobs : answered'[c] = IF c = fn[w] THEN answered[c] + 1
                                         ELSE answered[c]
        /\ answered' \in [Jobs -> 0 .. MaxCount]
    <3>1. answered[fn[w]] + 1 \in 0 .. MaxCount
      BY <2>1
    <3> QED
      BY <3>1, <1>4, <1>7 DEF Handle, HttpInv, ServerTypes
  <2>3. \/ /\ \A v \in Threads : serving'[v] = IF v = w THEN "await" ELSE serving[v]
           /\ \A v \in Threads : count'[v] = IF v = w THEN count[v] - 1 ELSE count[v]
        \/ /\ \A v \in Threads : serving'[v] = IF v = w THEN "close" ELSE serving[v]
           /\ count' = count
    <3>1. /\ serving \in [Threads -> {"", "await", "request", "close"}]
          /\ count \in [Threads -> 0 .. MaxCount]
      BY DEF HttpInv, ServerTypes
    <3>2. \/ /\ serving' = [serving EXCEPT ![w] = "await"]
             /\ count' = [count EXCEPT ![w] = @ - 1]
          \/ serving' = [serving EXCEPT ![w] = "close"] /\ count' = count
      BY <1>7 DEF Handle
    <3> QED
      BY <3>1, <3>2
  <2>4. /\ serving' \in [Threads -> {"", "await", "request", "close"}]
        /\ count' \in [Threads -> 0 .. MaxCount]
        /\ input' \in [Jobs -> {"", "request", "end"}]
    <3>1. count[w] - 1 \in 0 .. MaxCount
      BY <2>1
    <3>2. /\ serving \in [Threads -> {"", "await", "request", "close"}]
          /\ count \in [Threads -> 0 .. MaxCount]
          /\ input \in [Jobs -> {"", "request", "end"}]
      BY DEF HttpInv, ServerTypes
    <3>3. /\ serving' \in [Threads -> {"", "await", "request", "close"}]
          /\ count' = count \/ count' = [count EXCEPT ![w] = @ - 1]
          /\ input' = [input EXCEPT ![fn[w]] = ""]
      BY <3>2, <1>7 DEF Handle
    <3>4. count' \in [Threads -> 0 .. MaxCount]
      BY <3>1, <3>2, <3>3
    <3>5. input' \in [Jobs -> {"", "request", "end"}]
      BY <3>2, <3>3
    <3> QED
      BY <3>3, <3>4, <3>5
  <2>5. ServerTypes'
    BY <1>1, <1>4, <2>2, <2>3, <2>4 DEF HttpInv, ServerTypes
  <2>6. /\ \A v \in Threads : fn[v] = fn[w] => v = w
        /\ \A i \in Places : jobs_[i] # fn[w]
        /\ Holding => arg # fn[w]
        /\ fn[w] \in given
    BY <1>4 DEF HttpInv, PoolInv, OnePlace, AllGiven
  <2>7. /\ \A i \in Places : answered'[jobs_[i]] = 0
        /\ Holding => answered'[arg] = 0
        /\ \A c \in Jobs : c \notin given => answered'[c] = 0
    BY <2>2, <2>6, JobFacts DEF HttpInv, Counted
  <2>8. \A v \in Threads : serving'[v] \in {"await", "request"} =>
          answered'[fn[v]] + count'[v] = MaxCount
    <3> SUFFICES ASSUME NEW v \in Threads, serving'[v] \in {"await", "request"}
                 PROVE  answered'[fn[v]] + count'[v] = MaxCount
      OBVIOUS
    <3>1. CASE v = w
      BY <3>1, <1>4, <2>1, <2>2, <2>3
    <3>2. CASE v # w
      <4>1. serving[v] \in {"await", "request"} /\ count'[v] = count[v]
        BY <3>2, <2>3
      <4>2. fn[v] \in Jobs /\ fn[v] # fn[w]
        BY <3>2, <4>1, <2>6, JobFacts DEF HttpInv, ServerTypes
      <4> QED
        BY <4>1, <4>2, <2>2 DEF HttpInv, Counted
    <3> QED
      BY <3>1, <3>2
  <2>9. \A v \in Threads : serving'[v] = "request" => count'[v] > 0
    BY <2>3 DEF HttpInv, Counted
  <2>10. Counted'
    BY <1>1, <2>7, <2>8, <2>9 DEF Counted
  <2> QED
    BY <1>2, <2>5, <2>10
<1> QED
  BY <1>6, <1>7

LEMMA HttpInvKept == HttpInv /\ [HttpNext]_all => HttpInv'
<1> SUFFICES ASSUME HttpInv, [HttpNext]_all PROVE HttpInv'
  OBVIOUS
<1> DEFINE Kept == ServerTypes /\ HeldOpen /\ Counted /\ NoConnectionLost /\ AllEnded
<1>1. PoolInv'
  BY HttpStepIsPool, PoolInvKept DEF HttpInv
<1>2. CASE UNCHANGED all
  <2>1. ServerTypes' /\ UNCHANGED pool
    BY <1>2 DEF HttpInv, ServerTypes
  <2>2. Kept'
    BY <1>2, <2>1, PoolUntouched
  <2> QED
    BY <1>1, <2>2 DEF HttpInv
<1>3. CASE HttpNext
  <2> SUFFICES Kept'
    BY <1>1 DEF HttpInv
  <2>1. ASSUME NEW c \in Jobs, Connect(c) \/ Send(c) PROVE Kept'
    <3>1. ServerTypes' /\ UNCHANGED pool
      BY <2>1 DEF Connect, Send, HttpInv, ServerTypes
    <3>2. \A d \in Jobs : conn'[d] = "open" <=> conn[d] = "open"
      BY <2>1 DEF Connect, Send, HttpInv, ServerTypes
    <3>3. UNCHANGED <<serving, count, answered>>
      BY <2>1 DEF Connect, Send
    <3> QED
      BY <3>1, <3>2, <3>3, PoolUntouched
  <2>2. ASSUME NEW c \in Jobs, Accept(c) PROVE Kept'
    BY <2>2, AcceptKeeps
  <2>3. CASE Enqueued
    <3>1. CASE Push
      <4>1. AllEnded'
        BY <3>1 DEF Push, AllEnded
      <4> QED
        BY <2>3, <3>1, <4>1, PushKeepsServer DEF Enqueued
    <3>2. CASE MainLocks \/ NotifyOne
      <4>1. AllEnded'
        BY <3>2 DEF MainLocks, NotifyOne, AllEnded
      <4>2. UNCHANGED <<jobs_, fn, given>> /\ (Holding' <=> Holding)
        BY <3>2 DEF MainLocks, NotifyOne, Holding
      <4>3. Holding => arg' = arg
        BY <3>2 DEF MainLocks, NotifyOne, Holding
      <4> QED
        BY <2>3, <4>1, <4>2, <4>3, ServerUntouched DEF Enqueued
    <3> QED
      BY <2>3, <3>1, <3>2 DEF Enqueued
  <2>4. CASE NotEnqueued
    BY <2>4, RefusalKeeps
  <2>5. CASE AcceptFails \/ StopServer
    <3>1. PICK how \in {"stale", "invalid"} : CloseListener(how)
      BY <2>5 DEF AcceptFails, StopServer
    <3>2. ServerTypes' /\ UNCHANGED pool
      BY <3>1 DEF CloseListener, HttpInv, ServerTypes
    <3>3. \A d \in Jobs : conn'[d] = "open" <=> conn[d] = "open"
      BY <3>1 DEF CloseListener, HttpInv, ServerTypes
    <3>4. UNCHANGED <<serving, count, answered>>
      BY <3>1 DEF CloseListener
    <3> QED
      BY <3>2, <3>3, <3>4, PoolUntouched
  <2>6. CASE EndLoop
    <3>1. AllEnded' /\ UNCHANGED <<jobs_, fn, given>> /\ ~ Holding /\ ~ Holding'
      BY <2>6 DEF EndLoop, CallShutdown, AllEnded, Holding
    <3> QED
      BY <2>6, <3>1, ServerUntouched DEF EndLoop
  <2>7. CASE ShutDown
    <3>1. AllEnded' /\ UNCHANGED <<jobs_, fn, given>> /\ ~ Holding /\ ~ Holding'
      BY <2>7 DEF ShutDown, SetShutdown, NotifyAll, Join, AllEnded, Holding
    <3> QED
      BY <2>7, <3>1, ServerUntouched DEF ShutDown
  <2>8. ASSUME NEW w \in Threads, PoolStep(w) PROVE Kept'
    <3>1. UNCHANGED <<jobs_, fn, given, main, arg>>
      BY <2>8 DEF PoolStep, Lock, Sleep, Spurious, Leave
    <3>2. \A v \in Threads : at[v] = "ended" => at'[v] = "ended"
      BY <2>8 DEF PoolStep, Lock, Sleep, Spurious, Leave, HttpInv, PoolInv, TypeOK
    <3>3. AllEnded'
      BY <3>1, <3>2 DEF HttpInv, AllEnded
    <3>4. UNCHANGED http /\ (Holding' <=> Holding)
      BY <2>8, <3>1 DEF PoolStep, Holding
    <3> QED
      BY <3>1, <3>3, <3>4, ServerUntouched
  <2>9. ASSUME NEW w \in Threads, Serve(w) PROVE Kept'
    BY <2>9, ServeKeeps
  <2>10. ASSUME NEW w \in Threads, Exchange(w) PROVE Kept'
    BY <2>10, ExchangeKeeps, CloseKeeps DEF Exchange
  <2> QED
    BY <1>3, <2>1, <2>2, <2>3, <2>4, <2>5, <2>6, <2>7, <2>8, <2>9, <2>10
    DEF HttpNext
<1> QED
  BY <1>2, <1>3

LEMMA HttpInvHolds == HttpSpec => []HttpInv
  BY HttpInvInitially, HttpInvKept, PTL DEF HttpSpec

\* The variables of the server and the pool keep their types; no connection is
\* with a worker unless it is open, nor answered more often than keep-alive
\* allows.
THEOREM HttpTypeCorrect == HttpSpec => []HttpTypeOK
<1>1. HttpInv => HttpTypeOK
  BY DEF HttpInv, PoolInv, ServerTypes, HeldOpen, HttpTypeOK
<1> QED
  BY <1>1, HttpInvHolds, PTL

\* Accepted, refused, waiting or served: an open connection has somebody who
\* will close it.
THEOREM NoneLost == HttpSpec => []NoConnectionLost
<1>1. HttpInv => NoConnectionLost
  BY DEF HttpInv
<1> QED
  BY <1>1, HttpInvHolds, PTL

\* When listen() has returned, the list is empty and every worker has ended, so
\* there is nobody who could have a connection open.
THEOREM ReturnClosesAll == HttpSpec => []ReturnLeavesNone
<1>1. HttpInv => ReturnLeavesNone
  <2> SUFFICES ASSUME HttpInv, main = "returned", NEW c \in Jobs
               PROVE  conn[c] # "open"
    BY DEF ReturnLeavesNone
  <2>1. \A w \in Threads : at[w] = "ended" /\ fn[w] = None
    BY DEF HttpInv, AllEnded, PoolInv, TypeOK
  <2>2. jobs_ = <<>>
    BY <2>1 DEF HttpInv, PoolInv, EndedLast
  <2>3. Places = {} /\ DOMAIN jobs_ = Places
    BY <2>2 DEF Places
  <2> QED
    BY <2>1, <2>3 DEF HttpInv, NoConnectionLost
<1> QED
  BY <1>1, HttpInvHolds, PTL

-----------------------------------------------------------------------------
(* The life of the server, as main() sees it. *)

InRequest == { w \in Threads : serving[w] = "request" }

LifePhase == IF main = "returned" THEN "down"
             ELSE IF main \in {"shutdown", "set", "notify_all", "join"}
             THEN "draining" ELSE "serving"

USE DEF InRequest, LifePhase

LEMMA LifeStutters ==
  ASSUME UNCHANGED serving, LifePhase' = LifePhase
  PROVE  UNCHANGED Life!vars
  BY DEF Life!vars

\* A worker that is in a request is one of a server that has not returned.
LEMMA InRequestIsUp ==
  ASSUME HttpInv, NEW w \in Threads, serving[w] # ""
  PROVE  main # "returned"
<1>1. fn[w] # None
  BY DEF HttpInv, ServerTypes
<1>2. at[w] = "run"
  BY <1>1 DEF HttpInv, PoolInv, TypeOK
<1> QED
  BY <1>2 DEF HttpInv, AllEnded

LEMMA ExchangeLives ==
  ASSUME HttpInv, NEW w \in Threads, Exchange(w)
  PROVE  [Life!Next]_(Life!vars)
<1>1. main' = main /\ serving[w] # ""
  BY DEF Exchange, Readable, GiveUp, Handle, ReadFails, CloseSocket, Goto, FinishJob
<1>2. serving \in [Threads -> {"", "await", "request", "close"}] /\ main # "returned"
  BY <1>1, InRequestIsUp DEF HttpInv, ServerTypes
<1>3. CASE Readable(w)
  <2>1. serving[w] = "await" /\ serving' = [serving EXCEPT ![w] = "request"]
    BY <1>3 DEF Readable, Goto
  <2>2. w \notin InRequest /\ InRequest' = InRequest \cup {w}
    BY <1>2, <2>1
  <2>3. Life!Receive(w)
    BY <1>1, <1>2, <2>2 DEF Life!Receive
  <2> QED
    BY <2>3 DEF Life!Next
<1>4. CASE Handle(w) \/ ReadFails(w)
  <2>1. PICK s \in {"await", "close"} : /\ serving[w] = "request"
                                       /\ serving' = [serving EXCEPT ![w] = s]
    BY <1>4 DEF Handle, ReadFails, Goto
  <2>2. w \in InRequest /\ InRequest' = InRequest \ {w}
    BY <1>2, <2>1
  <2>3. Life!Answer(w)
    BY <1>1, <2>2 DEF Life!Answer
  <2> QED
    BY <2>3 DEF Life!Next
<1>5. CASE GiveUp(w) \/ CloseSocket(w)
  <2>1. PICK s \in {"", "close"} : /\ serving[w] # "request"
                                  /\ serving' = [serving EXCEPT ![w] = s]
    BY <1>5 DEF GiveUp, CloseSocket, Goto
  <2>2. InRequest' = InRequest
    BY <1>2, <2>1
  <2> QED
    BY <1>1, <2>2 DEF Life!vars
<1> QED
  BY <1>3, <1>4, <1>5 DEF Exchange

LEMMA ServerLives ==
  ASSUME HttpInv, [HttpNext]_all
  PROVE  [Life!Next]_(Life!vars)
<1>1. CASE UNCHANGED all
  BY <1>1, LifeStutters
<1>2. CASE HttpNext
  <2>1. ASSUME NEW c \in Jobs, Connect(c) \/ Send(c) \/ Accept(c)
        PROVE  UNCHANGED serving /\ LifePhase' = LifePhase
    BY <2>1 DEF Connect, Send, Accept, CallEnqueue
  <2>2. ASSUME Enqueued \/ NotEnqueued \/ AcceptFails \/ StopServer
        PROVE  UNCHANGED serving /\ LifePhase' = LifePhase
    BY <2>2 DEF Enqueued, NotEnqueued, AcceptFails, StopServer, CloseListener,
       MainLocks, Push, NotifyOne, Refused
  <2>3. CASE EndLoop
    <3>1. Life!StopListening
      BY <2>3 DEF EndLoop, CallShutdown, Life!StopListening
    <3> QED
      BY <3>1 DEF Life!Next
  <2>4. CASE ShutDown
    <3>1. CASE SetShutdown \/ NotifyAll
      <4>1. UNCHANGED serving /\ LifePhase' = LifePhase
        BY <2>4, <3>1 DEF ShutDown, SetShutdown, NotifyAll
      <4> QED
        BY <4>1, LifeStutters
    <3>2. CASE Join
      <4>1. \A w \in Threads : fn[w] = None
        BY <3>2 DEF Join, HttpInv, PoolInv, TypeOK
      <4>2. InRequest = {}
        BY <4>1 DEF HttpInv, ServerTypes
      <4>3. Life!Return
        BY <2>4, <3>2, <4>2 DEF ShutDown, Join, Life!Return
      <4> QED
        BY <4>3 DEF Life!Next
    <3> QED
      BY <2>4, <3>1, <3>2 DEF ShutDown
  <2>5. ASSUME NEW w \in Threads, PoolStep(w)
        PROVE  UNCHANGED serving /\ LifePhase' = LifePhase
    BY <2>5 DEF PoolStep, Lock, Sleep, Spurious, Leave
  <2>6. ASSUME NEW w \in Threads, Serve(w)
        PROVE  UNCHANGED Life!vars
    <3>1. fn[w] = None /\ main' = main /\ serving' = [serving EXCEPT ![w] = "await"]
      BY <2>6 DEF Serve, Pop, HttpInv, PoolInv, TypeOK
    <3>2. serving[w] = "" /\ serving \in [Threads -> {"", "await", "request", "close"}]
      BY <3>1 DEF HttpInv, ServerTypes
    <3>3. InRequest' = InRequest
      BY <3>1, <3>2
    <3> QED
      BY <3>1, <3>3 DEF Life!vars
  <2>7. ASSUME NEW w \in Threads, Exchange(w)
        PROVE  [Life!Next]_(Life!vars)
    BY <2>7, ExchangeLives
  <2> QED
    BY <1>2, <2>1, <2>2, <2>3, <2>4, <2>5, <2>6, <2>7, LifeStutters DEF HttpNext
<1> QED
  BY <1>1, <1>2

\* A request is handled only between listen() being called and its return:
\* what DisconnectDb after listen() in main() needs.
THEOREM ServerKeepsLifecycle == HttpSpec => KeepsLifecycle
<1>1. HttpInit => Life!Init
  BY DEF HttpInit, Init, Life!Init
<1>2. HttpInv /\ [HttpNext]_all => [Life!Next]_(Life!vars)
  BY ServerLives
<1> QED
  BY <1>1, <1>2, HttpInvHolds, PTL DEF HttpSpec, KeepsLifecycle, Life!Spec
=============================================================================
