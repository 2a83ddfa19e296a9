----------------------------- MODULE ThreadPool -----------------------------
(***************************************************************************)
(* glz::pool (thread/threadpool.hpp): a queue of jobs and `working' jobs   *)
(* in hand under the mutex mtx, workers that sleep on work_cv, callers of  *)
(* wait() that sleep on done_cv, and an owner that changes the number of   *)
(* threads or destroys the pool.  A critical section on mtx is one step; a *)
(* condition variable is the set of threads asleep on it.                  *)
(***************************************************************************)
EXTENDS Naturals, Sequences, FiniteSets

CONSTANTS
    Task,         \* jobs, each submitted at most once
    MaxThreads,   \* bound on the argument of n_threads
    User,         \* threads that use the pool
    Submitters,   \* the users that call emplace_back()
    Waiters,      \* the users that call wait()
    Owner,        \* the user that calls n_threads and the destructor
    MaxResizes,   \* bound on the calls of n_threads
    Nested        \* may a job submit another job?

Worker == 0..(MaxThreads - 1)

ASSUME JobsAssumption == Task # {}
ASSUME ThreadsAssumption == MaxThreads \in Nat \ {0}
ASSUME UsersAssumption == Owner \in User /\ Waiters \cup Submitters \subseteq User
ASSUME ResizesAssumption == MaxResizes \in Nat /\ Nested \in BOOLEAN

VARIABLES
    queue,          \* jobs waiting, oldest first
    working,        \* the counter of jobs in hand
    closed,
    work_cv,        \* workers asleep
    done_cv,        \* users asleep
    worker,         \* where each worker is
    job,            \* the job each worker has in hand, meaningful while it has one
    user,           \* where each user is
    before,         \* the jobs submitted before the user's call of wait()
    done,           \* jobs whose future is ready
    dying,          \* the destructor has been entered
    resizes         \* calls of n_threads that may still be made

vars == <<queue, working, closed, work_cv, done_cv, worker, job, user, before, done, dying, resizes>>

(* A worker is "none" (not spawned), at "check" (about to lock mtx and test *)
(* the predicate), "asleep", at "run", at "finish" (the future is ready,    *)
(* --working is next), at "notify" (about to lock mtx again), or "exited".  *)
WorkerLabels == {"none", "check", "asleep", "run", "finish", "notify", "exited"}

(* A user is "idle", at "wait" or asleep in it, or inside finish_work(): at *)
(* "fw_wait" or asleep in it, at "join"; "gone" is the owner of a dead pool. *)
UserLabels == {"idle", "wait", "wait_asleep", "fw_wait", "fw_asleep", "join", "gone"}

Queued == {queue[i] : i \in DOMAIN queue}
InHand == {w \in Worker : worker[w] \in {"run", "finish"}}
Held == {w \in Worker : worker[w] = "run"}
Submitted == Queued \cup {job[w] : w \in Held} \cup done
\* Faulty predicate of wait(): the jobs in hand are forgotten.
QueueEmpty == queue = <<>>

AllDone == queue = <<>> /\ working = 0

TypeOK ==
    /\ queue \in Seq(Task)
    /\ working \in Nat
    /\ closed \in BOOLEAN
    /\ work_cv \in SUBSET Worker /\ done_cv \in SUBSET User
    /\ worker \in [Worker -> WorkerLabels]
    /\ job \in [Worker -> Task]
    /\ user \in [User -> UserLabels]
    /\ before \in [User -> SUBSET Task]
    /\ done \in SUBSET Task
    /\ dying \in BOOLEAN
    /\ resizes \in Nat

-----------------------------------------------------------------------------
\* notify_one on a condition variable: it wakes one sleeper, any one, if there is one.
NotifyOne(cv) == IF cv = {} THEN {{}} ELSE {{t} : t \in cv}

WakeWorkers(woken) ==
    /\ work_cv' = work_cv \ woken
    /\ worker' = [w \in Worker |-> IF w \in woken THEN "check" ELSE worker[w]]

Awake(label) == IF label = "wait_asleep" THEN "wait" ELSE "fw_wait"
WakeUsers(woken) ==
    /\ done_cv' = done_cv \ woken
    /\ user' = [u \in User |-> IF u \in woken THEN Awake(user[u]) ELSE user[u]]

-----------------------------------------------------------------------------
(* emplace_back, from a user or from inside a job.                         *)

\* Faulty emplace_back(): no worker is woken.
EmplaceBackSilently ==
    /\ \E t \in Task \ Submitted : queue' = Append(queue, t)
    /\ UNCHANGED <<work_cv, worker>>
    /\ UNCHANGED <<working, closed, done_cv, job, user, before, done, dying, resizes>>

EmplaceBack ==
    /\ \E t \in Task \ Submitted : queue' = Append(queue, t)
    /\ \E woken \in NotifyOne(work_cv) : WakeWorkers(woken)
    /\ UNCHANGED <<working, closed, done_cv, job, user, before, done, dying, resizes>>

\* No call is made on a pool whose destructor has begun.
UserSubmits(u) == u \in Submitters /\ user[u] = "idle" /\ ~dying /\ EmplaceBack
JobSubmits(w) == Nested /\ worker[w] = "run" /\ EmplaceBack

-----------------------------------------------------------------------------
(* The loop of a worker.                                                   *)

\* The predicate is false: sleep on work_cv.
Sleep(w) ==
    /\ worker[w] = "check" /\ queue = <<>> /\ ~closed
    /\ worker' = [worker EXCEPT ![w] = "asleep"]
    /\ work_cv' = work_cv \cup {w}
    /\ UNCHANGED <<queue, working, closed, done_cv, job, user, before, done, dying, resizes>>

Exit(w) ==
    /\ worker[w] = "check" /\ queue = <<>> /\ closed
    /\ worker' = [worker EXCEPT ![w] = "exited"]
    /\ UNCHANGED <<queue, working, closed, work_cv, done_cv, job, user, before, done, dying, resizes>>

\* Faulty worker: the job it takes is not counted.
GrabWorkUncounted(w) ==
    /\ worker[w] = "check" /\ queue # <<>>
    /\ job' = [job EXCEPT ![w] = Head(queue)]
    /\ queue' = Tail(queue)
    /\ worker' = [worker EXCEPT ![w] = "run"]
    /\ UNCHANGED <<working, closed, work_cv, done_cv, user, before, done, dying, resizes>>

\* Faulty worker: the job it takes stays in the queue.
GrabWorkKeepsJob(w) ==
    /\ worker[w] = "check" /\ queue # <<>>
    /\ working' = working + 1
    /\ job' = [job EXCEPT ![w] = Head(queue)]
    /\ worker' = [worker EXCEPT ![w] = "run"]
    /\ UNCHANGED <<queue, closed, work_cv, done_cv, user, before, done, dying, resizes>>

GrabWork(w) ==
    /\ worker[w] = "check" /\ queue # <<>>
    /\ working' = working + 1
    /\ job' = [job EXCEPT ![w] = Head(queue)]
    /\ queue' = Tail(queue)
    /\ worker' = [worker EXCEPT ![w] = "run"]
    /\ UNCHANGED <<closed, work_cv, done_cv, user, before, done, dying, resizes>>

\* The job returns or throws: either way its future becomes ready.
RunJob(w) ==
    /\ worker[w] = "run"
    /\ done' = done \cup {job[w]}
    /\ worker' = [worker EXCEPT ![w] = "finish"]
    /\ UNCHANGED <<queue, working, closed, work_cv, done_cv, job, user, before, dying, resizes>>

\* --working, without the mutex.
Finish(w) ==
    /\ worker[w] = "finish"
    /\ working' = working - 1
    /\ worker' = [worker EXCEPT ![w] = "notify"]
    /\ UNCHANGED <<queue, closed, work_cv, done_cv, job, user, before, done, dying, resizes>>

\* Faulty worker: it does not say that it was the last.
NotifyNobody(w) ==
    /\ worker[w] = "notify"
    /\ worker' = [worker EXCEPT ![w] = "check"]
    /\ UNCHANGED <<queue, working, closed, work_cv, done_cv, job, user, before, done, dying, resizes>>

NotifyDone(w) ==
    /\ worker[w] = "notify"
    /\ worker' = [worker EXCEPT ![w] = "check"]
    /\ \/ AllDone /\ \E woken \in NotifyOne(done_cv) : WakeUsers(woken)
       \/ ~AllDone /\ UNCHANGED <<done_cv, user>>
    /\ UNCHANGED <<queue, working, closed, work_cv, job, before, done, dying, resizes>>

\* A condition variable may wake a thread for no reason.
SpuriousWake ==
    \/ /\ \E w \in work_cv : WakeWorkers({w})
       /\ UNCHANGED <<queue, working, closed, done_cv, job, user, before, done, dying, resizes>>
    \/ /\ \E u \in done_cv : WakeUsers({u})
       /\ UNCHANGED <<queue, working, closed, work_cv, worker, job, before, done, dying, resizes>>

-----------------------------------------------------------------------------
(* wait(), on its own or inside finish_work().                             *)

CallWait(u) ==
    /\ u \in Waiters /\ user[u] = "idle" /\ ~dying
    /\ user' = [user EXCEPT ![u] = "wait"]
    /\ before' = [before EXCEPT ![u] = Submitted]
    /\ UNCHANGED <<queue, working, closed, work_cv, done_cv, worker, job, done, dying, resizes>>

Wait(u, here, asleep, next) ==
    /\ user[u] = here
    /\ IF AllDone
       THEN user' = [user EXCEPT ![u] = next] /\ UNCHANGED done_cv
       ELSE user' = [user EXCEPT ![u] = asleep] /\ done_cv' = done_cv \cup {u}
    /\ UNCHANGED <<queue, working, closed, work_cv, worker, job, before, done, dying, resizes>>

UserWaits(u) == Wait(u, "wait", "wait_asleep", "idle")

-----------------------------------------------------------------------------
(* n_threads() and ~pool(): finish_work() closes the queue, wakes every    *)
(* worker, waits and joins; n_threads() then opens the pool again.         *)

\* Faulty finish_work(): the workers asleep are not woken.
FinishWorkSilently ==
    /\ user[Owner] = "idle" /\ ~dying
    /\ dying' = TRUE /\ closed' = TRUE
    /\ user' = [user EXCEPT ![Owner] = "fw_wait"]
    /\ before' = [before EXCEPT ![Owner] = Submitted]
    /\ UNCHANGED <<queue, working, work_cv, done_cv, worker, job, done, resizes>>

FinishWork ==
    /\ user[Owner] = "idle" /\ ~dying
    /\ \/ resizes > 0 /\ resizes' = resizes - 1 /\ UNCHANGED dying
       \/ /\ \A u \in User \ {Owner} : user[u] = "idle"
          /\ dying' = TRUE
          /\ UNCHANGED resizes
    /\ closed' = TRUE
    /\ WakeWorkers(work_cv)
    /\ user' = [user EXCEPT ![Owner] = "fw_wait"]
    /\ before' = [before EXCEPT ![Owner] = Submitted]
    /\ UNCHANGED <<queue, working, done_cv, job, done>>

OwnerWaits == Wait(Owner, "fw_wait", "fw_asleep", "join")

\* Faulty finish_work(): the threads are not joined.
JoinableAtOnce == user[Owner] = "join"

Joinable == user[Owner] = "join" /\ \A w \in Worker : worker[w] \in {"none", "exited"}

SpawnThreads ==
    /\ Joinable /\ ~dying
    /\ closed' = FALSE
    /\ \E n \in 1..MaxThreads :
        worker' = [w \in Worker |-> IF w < n THEN "check" ELSE "none"]
    /\ user' = [user EXCEPT ![Owner] = "idle"]
    /\ UNCHANGED <<queue, working, work_cv, done_cv, job, before, done, dying, resizes>>

Destroyed ==
    /\ Joinable /\ dying
    /\ user' = [user EXCEPT ![Owner] = "gone"]
    /\ UNCHANGED <<queue, working, closed, work_cv, done_cv, worker, job, before, done, dying, resizes>>

-----------------------------------------------------------------------------
Init ==
    /\ queue = <<>> /\ working = 0 /\ closed = FALSE
    /\ work_cv = {} /\ done_cv = {}
    /\ \E n \in 1..MaxThreads :
        worker = [w \in Worker |-> IF w < n THEN "check" ELSE "none"]
    /\ job = [w \in Worker |-> CHOOSE t \in Task : TRUE]
    /\ user = [u \in User |-> "idle"]
    /\ before = [u \in User |-> {}]
    /\ done = {} /\ dying = FALSE /\ resizes = MaxResizes

WorkerStep(w) ==
    Sleep(w) \/ Exit(w) \/ GrabWork(w) \/ RunJob(w) \/ Finish(w) \/ NotifyDone(w)
OwnerStep == OwnerWaits \/ SpawnThreads \/ Destroyed

Next ==
    \/ \E w \in Worker : WorkerStep(w) \/ JobSubmits(w)
    \/ \E u \in User : UserSubmits(u) \/ CallWait(u) \/ UserWaits(u)
    \/ FinishWork \/ OwnerStep
    \/ SpuriousWake

Spec == Init /\ [][Next]_vars

\* Every thread that can run does; nothing is assumed of who calls what, nor of
\* spurious wake-ups.
FairSpec ==
    /\ Spec
    /\ \A w \in Worker : WF_vars(WorkerStep(w))
    /\ \A u \in User : WF_vars(UserWaits(u))
    /\ WF_vars(OwnerWaits) /\ WF_vars(SpawnThreads \/ Destroyed)

-----------------------------------------------------------------------------
(* Safety.                                                                 *)

\* `working' counts the jobs in hand, though it is decremented outside the mutex.
WorkingIsExact == working = Cardinality(InHand)

\* A thread is on a condition variable exactly while it is asleep.
SleepersAreListed ==
    /\ work_cv = {w \in Worker : worker[w] = "asleep"}
    /\ done_cv = {u \in User : user[u] \in {"wait_asleep", "fw_asleep"}}

\* wait() returns only when every job submitted before the call has run.
WaitIsComplete ==
    [][\A u \in User : user[u] \in {"wait", "fw_wait"} /\ user'[u] \in {"idle", "join"}
          => before[u] \subseteq done]_vars

\* A pool that is destroyed has run every job it was ever given, and no worker
\* outlives it.
NothingIsAbandoned ==
    user[Owner] = "gone" =>
        queue = <<>> /\ working = 0 /\ \A w \in Worker : worker[w] \in {"none", "exited"}

\* The pool implements the abstract one: each job is taken once, in order, and
\* finished once.
Jobs == INSTANCE TaskPool WITH
    pending <- queue, running <- {job[w] : w \in Held}
ImplementsTaskPool == Jobs!Spec

-----------------------------------------------------------------------------
(* Liveness.                                                               *)

\* wait() returns.
WaitReturns == \A u \in User : (user[u] = "wait") ~> (user[u] = "idle")

\* Every job submitted runs, even one submitted while the threads are replaced.
JobsRun == \A t \in Task : (t \in Queued) ~> (t \in done)

\* n_threads() and the destructor come to an end.
FinishWorkEnds == (user[Owner] = "fw_wait") ~> (user[Owner] \in {"idle", "gone"})
=============================================================================
