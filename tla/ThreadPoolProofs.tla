-------------------------- MODULE ThreadPoolProofs --------------------------
(***************************************************************************)
(* What is proved of the thread pool for any set of jobs, any number of    *)
(* threads and any users.                                                  *)
(***************************************************************************)
EXTENDS ThreadPool, FiniteSetTheorems, TLAPS

\* The inductive invariant of the counter: --working stays in Nat because the
\* counter is exact, and it stays exact because a wake-up reaches sleepers only.
CounterInv == TypeOK /\ WorkingIsExact /\ SleepersAreListed

-----------------------------------------------------------------------------
(* The set of workers with a job in hand, and its cardinality.             *)

\* The workers are finitely many, and so are those with a job in hand.
LEMMA InHandIsFinite == IsFiniteSet(InHand)
<1>1. IsFiniteSet(Worker)
  BY ThreadsAssumption, FS_Interval DEF Worker
<1>2. InHand \subseteq Worker
  BY DEF InHand
<1> QED
  BY <1>1, <1>2, FS_Subset

\* One worker more takes a job in hand: the cardinality grows by one.
LEMMA InHandGrows ==
  ASSUME NEW w, w \notin InHand, InHand' = InHand \cup {w}
  PROVE  Cardinality(InHand') = Cardinality(InHand) + 1
BY InHandIsFinite, FS_AddElement

\* One worker lays its job down: it was counted, and the cardinality shrinks by one.
LEMMA InHandShrinks ==
  ASSUME NEW w, w \in InHand, InHand' = InHand \ {w}
  PROVE  /\ Cardinality(InHand') = Cardinality(InHand) - 1
         /\ Cardinality(InHand) \in Nat \ {0}
<1>1. Cardinality(InHand) \in Nat /\ Cardinality(InHand') = Cardinality(InHand) - 1
  BY InHandIsFinite, FS_RemoveElement, FS_CardinalityType
<1>2. Cardinality(InHand) # 0
  BY InHandIsFinite, FS_EmptySet
<1> QED
  BY <1>1, <1>2

\* Waking workers that are asleep leaves the jobs in hand alone and the list of
\* sleepers exact.
LEMMA WakingWorkers ==
  ASSUME TypeOK, SleepersAreListed, NEW woken \in SUBSET work_cv, WakeWorkers(woken)
  PROVE  /\ InHand' = InHand
         /\ work_cv' \in SUBSET Worker
         /\ worker' \in [Worker -> WorkerLabels]
         /\ work_cv' = {w \in Worker : worker'[w] = "asleep"}
<1> USE DEF TypeOK, SleepersAreListed, WakeWorkers
<1>1. \A w \in Worker : w \in woken => worker[w] = "asleep"
  OBVIOUS
<1>2. \A w \in Worker : worker'[w] = IF w \in woken THEN "check" ELSE worker[w]
  OBVIOUS
<1>3. worker' \in [Worker -> WorkerLabels]
  BY DEF WorkerLabels
<1>4. InHand' = InHand
  BY <1>1, <1>2 DEF InHand
<1>5. work_cv' = {w \in Worker : worker'[w] = "asleep"}
  BY <1>1, <1>2
<1> QED
  BY <1>3, <1>4, <1>5

\* Waking users leaves the list of sleepers exact.
LEMMA WakingUsers ==
  ASSUME TypeOK, SleepersAreListed, NEW woken \in SUBSET done_cv, WakeUsers(woken)
  PROVE  /\ done_cv' \in SUBSET User
         /\ user' \in [User -> UserLabels]
         /\ done_cv' = {u \in User : user'[u] \in {"wait_asleep", "fw_asleep"}}
<1> USE DEF TypeOK, SleepersAreListed, WakeUsers, Awake
<1>1. \A u \in User : user'[u] = IF u \in woken THEN Awake(user[u]) ELSE user[u]
  OBVIOUS
<1>2. user' \in [User -> UserLabels]
  BY DEF UserLabels
<1>3. done_cv' = {u \in User : user'[u] \in {"wait_asleep", "fw_asleep"}}
  BY <1>1
<1> QED
  BY <1>2, <1>3

\* notify_one wakes sleepers.
LEMMA NotifiedSleep ==
  ASSUME NEW cv, NEW woken \in NotifyOne(cv)
  PROVE  woken \in SUBSET cv
BY DEF NotifyOne

-----------------------------------------------------------------------------
(* CounterInv is inductive.                                                *)

\* CounterInv holds at first.
LEMMA CounterInit == Init => CounterInv
<1> SUFFICES ASSUME Init PROVE CounterInv
  OBVIOUS
<1> USE DEF Init
<1>1. (CHOOSE t \in Task : TRUE) \in Task
  BY JobsAssumption
<1>2. TypeOK
  <2>1. worker \in [Worker -> WorkerLabels]
    BY DEF WorkerLabels
  <2>2. job \in [Worker -> Task]
    BY <1>1
  <2>3. user \in [User -> UserLabels] /\ before \in [User -> SUBSET Task]
    BY DEF UserLabels
  <2>4. queue \in Seq(Task)
    OBVIOUS
  <2> QED
    BY <2>1, <2>2, <2>3, <2>4, ResizesAssumption DEF TypeOK
<1>3. InHand = {}
  BY DEF InHand
<1>4. WorkingIsExact
  BY <1>3, FS_EmptySet DEF WorkingIsExact
<1>5. SleepersAreListed
  BY DEF SleepersAreListed
<1> QED
  BY <1>2, <1>4, <1>5 DEF CounterInv

\* And every step keeps it.
LEMMA CounterNext == CounterInv /\ [Next]_vars => CounterInv'
<1> SUFFICES ASSUME CounterInv, [Next]_vars PROVE CounterInv'
  OBVIOUS
<1> USE DEF CounterInv
<1> DEFINE Sleepers == {u \in User : user[u] \in {"wait_asleep", "fw_asleep"}}
<1>1. ASSUME EmplaceBack PROVE CounterInv'
  <2>1. PICK t \in Task, woken \in NotifyOne(work_cv) :
           queue' = Append(queue, t) /\ WakeWorkers(woken)
    BY <1>1 DEF EmplaceBack
  <2>2. woken \in SUBSET work_cv
    BY <2>1, NotifiedSleep
  <2>3. TypeOK'
    BY <1>1, <2>1, <2>2, WakingWorkers DEF EmplaceBack, TypeOK
  <2>4. WorkingIsExact'
    BY <1>1, <2>1, <2>2, WakingWorkers DEF EmplaceBack, WorkingIsExact
  <2>5. SleepersAreListed'
    BY <1>1, <2>1, <2>2, WakingWorkers DEF EmplaceBack, SleepersAreListed
  <2> QED
    BY <2>3, <2>4, <2>5
<1>2. ASSUME NEW w \in Worker, Sleep(w) \/ Exit(w) PROVE CounterInv'
  <2>1. TypeOK'
    BY <1>2 DEF Sleep, Exit, TypeOK, WorkerLabels
  <2>2. InHand' = InHand
    BY <1>2 DEF Sleep, Exit, TypeOK, InHand
  <2>3. WorkingIsExact'
    BY <1>2, <2>2 DEF Sleep, Exit, WorkingIsExact
  <2>4. SleepersAreListed'
    BY <1>2 DEF Sleep, Exit, TypeOK, SleepersAreListed
  <2> QED
    BY <2>1, <2>3, <2>4
<1>3. ASSUME NEW w \in Worker, GrabWork(w) PROVE CounterInv'
  <2>1. Head(queue) \in Task /\ Tail(queue) \in Seq(Task)
    BY <1>3 DEF GrabWork, TypeOK
  <2>2. TypeOK'
    BY <1>3, <2>1 DEF GrabWork, TypeOK, WorkerLabels
  <2>3. w \notin InHand /\ InHand' = InHand \cup {w}
    BY <1>3 DEF GrabWork, TypeOK, InHand
  <2>4. WorkingIsExact'
    BY <1>3, <2>3, InHandGrows DEF GrabWork, WorkingIsExact
  <2>5. SleepersAreListed'
    BY <1>3 DEF GrabWork, TypeOK, SleepersAreListed
  <2> QED
    BY <2>2, <2>4, <2>5
<1>4. ASSUME NEW w \in Worker, RunJob(w) PROVE CounterInv'
  <2>1. TypeOK'
    BY <1>4 DEF RunJob, TypeOK, WorkerLabels
  <2>2. InHand' = InHand
    BY <1>4 DEF RunJob, TypeOK, InHand
  <2>3. WorkingIsExact'
    BY <1>4, <2>2 DEF RunJob, WorkingIsExact
  <2>4. SleepersAreListed'
    BY <1>4 DEF RunJob, TypeOK, SleepersAreListed
  <2> QED
    BY <2>1, <2>3, <2>4
<1>5. ASSUME NEW w \in Worker, Finish(w) PROVE CounterInv'
  <2>1. w \in InHand /\ InHand' = InHand \ {w}
    BY <1>5 DEF Finish, TypeOK, InHand
  <2>2. WorkingIsExact' /\ working' \in Nat
    BY <1>5, <2>1, InHandShrinks DEF Finish, WorkingIsExact
  <2>3. TypeOK'
    BY <1>5, <2>2 DEF Finish, TypeOK, WorkerLabels
  <2>4. SleepersAreListed'
    BY <1>5 DEF Finish, TypeOK, SleepersAreListed
  <2> QED
    BY <2>2, <2>3, <2>4
<1>6. ASSUME NEW w \in Worker, NotifyDone(w) PROVE CounterInv'
  <2>1. InHand' = InHand /\ worker' \in [Worker -> WorkerLabels]
    BY <1>6 DEF NotifyDone, TypeOK, InHand, WorkerLabels
  <2>2. work_cv' = {v \in Worker : worker'[v] = "asleep"}
    BY <1>6 DEF NotifyDone, TypeOK, SleepersAreListed
  <2>3. /\ done_cv' \in SUBSET User
        /\ user' \in [User -> UserLabels]
        /\ done_cv' = Sleepers'
    <3>1. CASE AllDone /\ \E woken \in NotifyOne(done_cv) : WakeUsers(woken)
      BY <3>1, NotifiedSleep, WakingUsers
    <3>2. CASE UNCHANGED <<done_cv, user>>
      BY <3>2 DEF TypeOK, SleepersAreListed
    <3> QED
      BY <1>6, <3>1, <3>2 DEF NotifyDone
  <2>4. TypeOK'
    BY <1>6, <2>1, <2>3 DEF NotifyDone, TypeOK
  <2>5. WorkingIsExact'
    BY <1>6, <2>1 DEF NotifyDone, WorkingIsExact
  <2> QED
    BY <2>2, <2>3, <2>4, <2>5 DEF SleepersAreListed
<1>7. ASSUME SpuriousWake PROVE CounterInv'
  <2>1. CASE /\ \E w \in work_cv : WakeWorkers({w})
             /\ UNCHANGED <<queue, working, closed, done_cv, job, user, before, done, dying, resizes>>
    <3>1. PICK w \in work_cv : WakeWorkers({w})
      BY <2>1
    <3>2. {w} \in SUBSET work_cv
      OBVIOUS
    <3> QED
      BY <2>1, <3>1, <3>2, WakingWorkers DEF TypeOK, WorkingIsExact, SleepersAreListed
  <2>2. CASE /\ \E u \in done_cv : WakeUsers({u})
             /\ UNCHANGED <<queue, working, closed, work_cv, worker, job, before, done, dying, resizes>>
    <3>1. PICK u \in done_cv : WakeUsers({u})
      BY <2>2
    <3>2. {u} \in SUBSET done_cv
      OBVIOUS
    <3>3. InHand' = InHand
      BY <2>2 DEF InHand
    <3> QED
      BY <2>2, <3>1, <3>2, <3>3, WakingUsers DEF TypeOK, WorkingIsExact, SleepersAreListed
  <2> QED
    BY <1>7, <2>1, <2>2 DEF SpuriousWake
<1>8. ASSUME NEW u \in User, CallWait(u) PROVE CounterInv'
  <2>1. Submitted \subseteq Task
    BY DEF Submitted, Queued, Held, TypeOK
  <2>2. TypeOK'
    BY <1>8, <2>1 DEF CallWait, TypeOK, UserLabels
  <2>3. InHand' = InHand
    BY <1>8 DEF CallWait, InHand
  <2>4. SleepersAreListed'
    BY <1>8 DEF CallWait, TypeOK, SleepersAreListed
  <2> QED
    BY <1>8, <2>2, <2>3, <2>4 DEF CallWait, WorkingIsExact
<1>9. ASSUME NEW u \in User, UserWaits(u) PROVE CounterInv'
  <2>1. TypeOK'
    BY <1>9 DEF UserWaits, Wait, TypeOK, UserLabels
  <2>2. InHand' = InHand
    BY <1>9 DEF UserWaits, Wait, InHand
  <2>3. SleepersAreListed'
    BY <1>9 DEF UserWaits, Wait, TypeOK, SleepersAreListed
  <2> QED
    BY <1>9, <2>1, <2>2, <2>3 DEF UserWaits, Wait, WorkingIsExact
<1>10. ASSUME FinishWork PROVE CounterInv'
  <2>1. Owner \in User /\ Submitted \subseteq Task
    BY UsersAssumption DEF Submitted, Queued, Held, TypeOK
  <2>2. WakeWorkers(work_cv) /\ work_cv \in SUBSET work_cv
    BY <1>10 DEF FinishWork
  <2>3. /\ InHand' = InHand
        /\ work_cv' \in SUBSET Worker
        /\ worker' \in [Worker -> WorkerLabels]
        /\ work_cv' = {w \in Worker : worker'[w] = "asleep"}
    BY <2>2, WakingWorkers
  <2>4. TypeOK'
    <3>1. user' \in [User -> UserLabels] /\ before' \in [User -> SUBSET Task]
      BY <1>10, <2>1 DEF FinishWork, TypeOK, UserLabels
    <3>2. dying' = dying \/ dying' = TRUE
      BY <1>10, Zenon DEF FinishWork
    <3>3. (resizes > 0 /\ resizes' = resizes - 1) \/ resizes' = resizes
      BY <1>10, Zenon DEF FinishWork
    <3>4. resizes' \in Nat
      BY <3>3 DEF TypeOK
    <3>5. dying' \in BOOLEAN
      BY <3>2, Zenon DEF TypeOK
    <3>6. closed' = TRUE /\ UNCHANGED <<queue, working, done_cv, job, done>>
      BY <1>10 DEF FinishWork
    <3> QED
      BY <2>3, <3>1, <3>4, <3>5, <3>6 DEF TypeOK
  <2>5. SleepersAreListed'
    BY <1>10, <2>3 DEF FinishWork, TypeOK, SleepersAreListed
  <2> QED
    BY <1>10, <2>3, <2>4, <2>5 DEF FinishWork, WorkingIsExact
<1>11. ASSUME OwnerWaits PROVE CounterInv'
  <2>1. Owner \in User
    BY UsersAssumption
  <2>2. TypeOK'
    BY <1>11, <2>1 DEF OwnerWaits, Wait, TypeOK, UserLabels
  <2>3. InHand' = InHand
    BY <1>11 DEF OwnerWaits, Wait, InHand
  <2>4. SleepersAreListed'
    BY <1>11, <2>1 DEF OwnerWaits, Wait, TypeOK, SleepersAreListed
  <2> QED
    BY <1>11, <2>2, <2>3, <2>4 DEF OwnerWaits, Wait, WorkingIsExact
<1>12. ASSUME SpawnThreads PROVE CounterInv'
  <2>1. PICK n \in 1..MaxThreads :
           worker' = [w \in Worker |-> IF w < n THEN "check" ELSE "none"]
    BY <1>12 DEF SpawnThreads
  <2>2. TypeOK'
    BY <1>12, <2>1 DEF SpawnThreads, TypeOK, WorkerLabels, UserLabels
  <2>3. InHand = {} /\ InHand' = {}
    BY <1>12, <2>1 DEF SpawnThreads, Joinable, InHand
  <2>4. work_cv = {} /\ SleepersAreListed'
    BY <1>12, <2>1 DEF SpawnThreads, Joinable, TypeOK, SleepersAreListed
  <2> QED
    BY <1>12, <2>2, <2>3, <2>4 DEF SpawnThreads, WorkingIsExact
<1>13. ASSUME Destroyed PROVE CounterInv'
  <2>1. TypeOK'
    BY <1>13 DEF Destroyed, TypeOK, UserLabels
  <2>2. InHand' = InHand
    BY <1>13 DEF Destroyed, InHand
  <2>3. SleepersAreListed'
    BY <1>13 DEF Destroyed, Joinable, TypeOK, SleepersAreListed
  <2> QED
    BY <1>13, <2>1, <2>2, <2>3 DEF Destroyed, WorkingIsExact
<1>14. CASE UNCHANGED vars
  <2>1. InHand' = InHand
    BY <1>14 DEF vars, InHand
  <2> QED
    BY <1>14, <2>1 DEF vars, TypeOK, WorkingIsExact, SleepersAreListed
<1> QED
  BY <1>1, <1>2, <1>3, <1>4, <1>5, <1>6, <1>7, <1>8, <1>9, <1>10, <1>11, <1>12, <1>13, <1>14
  DEF Next, WorkerStep, JobSubmits, UserSubmits, OwnerStep

\* So it holds always.
LEMMA CounterInvariant == Spec => []CounterInv
<1> QED
  BY CounterInit, CounterNext, PTL DEF Spec

\* The variables keep their types: in particular --working never goes below zero
\* (threadpool.hpp, the counter is unsigned).
THEOREM TypeCorrect == Spec => []TypeOK
<1>1. CounterInv => TypeOK
  BY DEF CounterInv
<1> QED
  BY <1>1, CounterInvariant, PTL

\* The atomic counter `working' is the number of jobs in hand in every state,
\* though it is decremented without the mutex under which wait() reads it.
THEOREM WorkingIsAlwaysExact == Spec => []WorkingIsExact
<1>1. CounterInv => WorkingIsExact
  BY DEF CounterInv
<1> QED
  BY <1>1, CounterInvariant, PTL

-----------------------------------------------------------------------------
(* wait() is complete.                                                     *)

\* When the counter is zero no worker has a job in hand.
LEMMA NothingInHand ==
  ASSUME CounterInv, working = 0
  PROVE  InHand = {}
BY InHandIsFinite, FS_EmptySet DEF CounterInv, WorkingIsExact

\* Waking users does not move one that is awake, and a sleeper only goes back to
\* the test it slept in.
LEMMA WokenUsersWait ==
  ASSUME CounterInv, NEW woken \in SUBSET done_cv, WakeUsers(woken), NEW u \in User
  PROVE  \/ user'[u] = user[u]
         \/ user[u] = "wait_asleep" /\ user'[u] = "wait"
         \/ user[u] = "fw_asleep" /\ user'[u] = "fw_wait"
BY DEF CounterInv, TypeOK, SleepersAreListed, WakeUsers, Awake

\* Waking workers does not touch one that has a job to run.
LEMMA WokenWorkersHold ==
  ASSUME CounterInv, NEW woken \in SUBSET work_cv, WakeWorkers(woken)
  PROVE  Held' = Held
<1>1. \A w \in Worker : w \in woken => worker[w] = "asleep"
  BY DEF CounterInv, SleepersAreListed
<1>2. \A w \in Worker : worker'[w] = IF w \in woken THEN "check" ELSE worker[w]
  BY DEF WakeWorkers
<1> QED
  BY <1>1, <1>2 DEF Held

\* What a step can do to the jobs: one is submitted, taken by a worker, or done, or
\* nothing happens to any.
Submits(t) ==
    queue' = Append(queue, t) /\ Held' = Held /\ UNCHANGED <<job, done>>
Takes(w) ==
    /\ queue # <<>> /\ queue' = Tail(queue)
    /\ w \notin Held /\ Held' = Held \cup {w}
    /\ job' = [job EXCEPT ![w] = Head(queue)]
    /\ UNCHANGED done
Ends(w) ==
    Held' = Held \ {w} /\ done' = done \cup {job[w]} /\ UNCHANGED <<queue, job>>
NoJobMoves == Held' = Held /\ UNCHANGED <<queue, job, done>>

JobStep ==
    \/ \E t \in Task \ Submitted : Submits(t)
    \/ \E w \in Worker : Takes(w)
    \/ \E w \in Held : Ends(w)
    \/ NoJobMoves

\* What a step does to the jobs.
LEMMA StepsOfJobs == CounterInv /\ [Next]_vars => JobStep
<1> SUFFICES ASSUME CounterInv, [Next]_vars PROVE JobStep
  OBVIOUS
<1>0. TypeOK
  BY DEF CounterInv
<1>1. ASSUME EmplaceBack PROVE JobStep
  <2>1. PICK t \in Task \ Submitted : queue' = Append(queue, t)
    BY <1>1 DEF EmplaceBack
  <2>2. Held' = Held
    BY <1>1, NotifiedSleep, WokenWorkersHold DEF EmplaceBack
  <2> QED
    BY <1>1, <2>1, <2>2 DEF EmplaceBack, JobStep, Submits
<1>2. ASSUME NEW w \in Worker, GrabWork(w) PROVE JobStep
  <2>1. w \notin Held /\ Held' = Held \cup {w}
    BY <1>0, <1>2 DEF GrabWork, TypeOK, Held
  <2> QED
    BY <1>2, <2>1 DEF GrabWork, JobStep, Takes
<1>3. ASSUME NEW w \in Worker, RunJob(w) PROVE JobStep
  <2>1. w \in Held /\ Held' = Held \ {w}
    BY <1>0, <1>3 DEF RunJob, TypeOK, Held
  <2> QED
    BY <1>3, <2>1 DEF RunJob, JobStep, Ends
<1>4. ASSUME NEW w \in Worker, Sleep(w) \/ Exit(w) \/ Finish(w) \/ NotifyDone(w)
      PROVE  JobStep
  <2>1. Held' = Held
    BY <1>0, <1>4 DEF Sleep, Exit, Finish, NotifyDone, TypeOK, Held
  <2> QED
    BY <1>4, <2>1 DEF Sleep, Exit, Finish, NotifyDone, JobStep, NoJobMoves
<1>5. ASSUME SpuriousWake PROVE JobStep
  <2>1. Held' = Held
    <3>1. CASE \E w \in work_cv : WakeWorkers({w})
      BY <3>1, WokenWorkersHold
    <3>2. CASE UNCHANGED worker
      BY <3>2 DEF Held
    <3> QED
      BY <1>5, <3>1, <3>2 DEF SpuriousWake
  <2> QED
    BY <1>5, <2>1 DEF SpuriousWake, JobStep, NoJobMoves
<1>6. ASSUME FinishWork PROVE JobStep
  <2>1. Held' = Held
    BY <1>6, WokenWorkersHold DEF FinishWork
  <2> QED
    BY <1>6, <2>1 DEF FinishWork, JobStep, NoJobMoves
<1>7. ASSUME SpawnThreads PROVE JobStep
  <2>1. Held = {} /\ Held' = {}
    BY <1>7, <1>0 DEF SpawnThreads, Joinable, Held
  <2> QED
    BY <1>7, <2>1 DEF SpawnThreads, JobStep, NoJobMoves
<1>8. ASSUME UNCHANGED <<queue, worker, job, done>> PROVE JobStep
  BY <1>8 DEF JobStep, NoJobMoves, Held
<1> QED
  BY <1>1, <1>2, <1>3, <1>4, <1>5, <1>6, <1>7, <1>8
  DEF Next, vars, WorkerStep, JobSubmits, UserSubmits, OwnerStep, OwnerWaits, CallWait,
      UserWaits, Wait, Destroyed

\* The jobs in a queue are its first one and those of its tail.
LEMMA HeadAndTail ==
  ASSUME NEW q \in Seq(Task), q # <<>>
  PROVE  {q[i] : i \in DOMAIN q} = {Head(q)} \cup {Tail(q)[i] : i \in DOMAIN Tail(q)}
<1>1. ASSUME NEW i \in DOMAIN q, i # 1
      PROVE  i - 1 \in DOMAIN Tail(q) /\ Tail(q)[i - 1] = q[i]
  BY <1>1
<1>2. ASSUME NEW i \in DOMAIN Tail(q)
      PROVE  i + 1 \in DOMAIN q /\ Tail(q)[i] = q[i + 1]
  OBVIOUS
<1>3. 1 \in DOMAIN q /\ Head(q) = q[1]
  OBVIOUS
<1>4. ASSUME NEW i \in DOMAIN q
      PROVE  q[i] \in {Head(q)} \cup {Tail(q)[j] : j \in DOMAIN Tail(q)}
  <2>1. CASE i = 1
    BY <1>3, <2>1
  <2>2. CASE i # 1
    BY <1>1, <2>2
  <2> QED
    BY <2>1, <2>2
<1> QED
  BY <1>2, <1>3, <1>4

\* No step loses a job: it is in the queue, then in the hand of one worker, then done.
LEMMA NoJobIsLost == CounterInv /\ [Next]_vars => Submitted \subseteq Submitted'
<1> SUFFICES ASSUME CounterInv, [Next]_vars PROVE Submitted \subseteq Submitted'
  OBVIOUS
<1>0. queue \in Seq(Task) /\ job \in [Worker -> Task]
  BY DEF CounterInv, TypeOK
<1>1. ASSUME NEW t \in Task, Submits(t) PROVE Submitted \subseteq Submitted'
  <2>1. Queued \subseteq Queued'
    BY <1>0, <1>1 DEF Submits, Queued
  <2> QED
    BY <1>1, <2>1 DEF Submits, Submitted
<1>2. ASSUME NEW w \in Worker, Takes(w) PROVE Submitted \subseteq Submitted'
  <2>1. Queued = {Head(queue)} \cup Queued'
    BY <1>0, <1>2, HeadAndTail DEF Takes, Queued
  <2>2. job'[w] = Head(queue) /\ \A v \in Held : job'[v] = job[v]
    BY <1>0, <1>2 DEF Takes, Held
  <2> QED
    BY <1>2, <2>1, <2>2 DEF Takes, Submitted
<1>3. ASSUME NEW w \in Held, Ends(w) PROVE Submitted \subseteq Submitted'
  BY <1>3 DEF Ends, Submitted, Queued
<1>4. ASSUME NoJobMoves PROVE Submitted \subseteq Submitted'
  BY <1>4 DEF NoJobMoves, Submitted, Queued
<1> QED
  BY <1>1, <1>2, <1>3, <1>4, StepsOfJobs DEF JobStep

\* A thread inside wait() waits for jobs that the pool still knows of.
Waiting(u) == user[u] \in {"wait", "wait_asleep", "fw_wait", "fw_asleep"}
WaitInv == CounterInv /\ \A u \in User : Waiting(u) => before[u] \subseteq Submitted

\* WaitInv holds at first.
LEMMA WaitInvInit == Init => WaitInv
<1> SUFFICES ASSUME Init PROVE \A u \in User : Waiting(u) => before[u] \subseteq Submitted
  BY CounterInit DEF WaitInv
<1> QED
  BY DEF Init, Waiting

\* A user that is waiting after a step was waiting before, for the same jobs, or has
\* just called wait(), for all the jobs submitted by then.
LEMMA WaitingBegins ==
  ASSUME CounterInv, [Next]_vars, NEW u \in User, Waiting(u)'
  PROVE  (Waiting(u) /\ before'[u] = before[u]) \/ before'[u] = Submitted
<1>0. TypeOK
  BY DEF CounterInv
<1> DEFINE Goal == (Waiting(u) /\ before'[u] = before[u]) \/ before'[u] = Submitted
<1>1. ASSUME NEW w \in Worker, NotifyDone(w) PROVE Goal
  <2>1. user'[u] = user[u] \/ Waiting(u)
    BY <1>1, NotifiedSleep, WokenUsersWait DEF NotifyDone, Waiting
  <2> QED
    BY <1>1, <2>1 DEF NotifyDone, Waiting
<1>2. ASSUME SpuriousWake PROVE Goal
  <2>1. user'[u] = user[u] \/ Waiting(u)
    <3>1. CASE \E v \in done_cv : WakeUsers({v})
      BY <3>1, WokenUsersWait DEF Waiting
    <3>2. CASE UNCHANGED user
      BY <3>2
    <3> QED
      BY <1>2, <3>1, <3>2 DEF SpuriousWake
  <2> QED
    BY <1>2, <2>1 DEF SpuriousWake, Waiting
<1>3. ASSUME NEW v \in User, CallWait(v) PROVE Goal
  BY <1>0, <1>3 DEF CallWait, TypeOK, Waiting
<1>4. ASSUME NEW v \in User, UserWaits(v) PROVE Goal
  BY <1>0, <1>4 DEF UserWaits, Wait, TypeOK, Waiting
<1>5. ASSUME FinishWork PROVE Goal
  BY <1>0, <1>5, UsersAssumption DEF FinishWork, TypeOK, Waiting
<1>6. ASSUME OwnerWaits PROVE Goal
  BY <1>0, <1>6, UsersAssumption DEF OwnerWaits, Wait, TypeOK, Waiting
<1>7. ASSUME SpawnThreads \/ Destroyed PROVE Goal
  BY <1>0, <1>7, UsersAssumption DEF SpawnThreads, Destroyed, TypeOK, Waiting
<1>8. ASSUME UNCHANGED <<user, before>> PROVE Goal
  BY <1>8 DEF Waiting
<1>9. ASSUME NEW w \in Worker, Sleep(w) \/ Exit(w) \/ GrabWork(w) \/ RunJob(w) \/ Finish(w)
      PROVE  Goal
  BY <1>8, <1>9 DEF Sleep, Exit, GrabWork, RunJob, Finish
<1>10. ASSUME EmplaceBack PROVE Goal
  BY <1>8, <1>10 DEF EmplaceBack
<1> QED
  BY <1>1, <1>2, <1>3, <1>4, <1>5, <1>6, <1>7, <1>8, <1>9, <1>10
  DEF Next, vars, WorkerStep, JobSubmits, UserSubmits, OwnerStep

\* And every step keeps it.
LEMMA WaitInvNext == WaitInv /\ [Next]_vars => WaitInv'
<1> SUFFICES ASSUME WaitInv, [Next]_vars PROVE WaitInv'
  OBVIOUS
<1>1. CounterInv'
  BY CounterNext DEF WaitInv
<1>2. ASSUME NEW u \in User, Waiting(u)' PROVE before'[u] \subseteq Submitted'
  BY <1>2, WaitingBegins, NoJobIsLost DEF WaitInv
<1> QED
  BY <1>1, <1>2 DEF WaitInv

\* wait(), alone or in finish_work(), is left only when the queue is empty and the
\* counter zero, and then every job known to the pool is done.
LEMMA WaitEnds ==
  ASSUME WaitInv, [Next]_vars, NEW u \in User,
         user[u] \in {"wait", "fw_wait"}, user'[u] \in {"idle", "join"}
  PROVE  before[u] \subseteq done
<1>0. CounterInv /\ TypeOK
  BY DEF WaitInv, CounterInv
<1>1. AllDone
  <2>1. ASSUME NEW w \in Worker, NotifyDone(w) PROVE FALSE
    BY <1>0, <2>1, NotifiedSleep, WokenUsersWait DEF NotifyDone
  <2>2. ASSUME SpuriousWake PROVE FALSE
    <3>1. ASSUME NEW v \in done_cv, WakeUsers({v}) PROVE FALSE
      BY <1>0, <3>1, WokenUsersWait
    <3> QED
      BY <2>2, <3>1 DEF SpuriousWake
  <2>3. ASSUME NEW v \in User, CallWait(v) \/ UserWaits(v) PROVE AllDone
    BY <1>0, <2>3 DEF CallWait, UserWaits, Wait, TypeOK
  <2>4. ASSUME FinishWork PROVE FALSE
    BY <1>0, <2>4, UsersAssumption DEF FinishWork, TypeOK
  <2>5. ASSUME OwnerStep PROVE AllDone
    BY <1>0, <2>5, UsersAssumption
    DEF OwnerStep, OwnerWaits, Wait, SpawnThreads, Destroyed, Joinable, TypeOK
  <2>6. ASSUME UNCHANGED user PROVE FALSE
    BY <2>6
  <2>7. ASSUME NEW w \in Worker, Sleep(w) \/ Exit(w) \/ GrabWork(w) \/ RunJob(w) \/ Finish(w)
        PROVE  FALSE
    BY <2>6, <2>7 DEF Sleep, Exit, GrabWork, RunJob, Finish
  <2>8. ASSUME EmplaceBack PROVE FALSE
    BY <2>6, <2>8 DEF EmplaceBack
  <2> QED
    BY <2>1, <2>2, <2>3, <2>4, <2>5, <2>6, <2>7, <2>8
    DEF Next, vars, WorkerStep, JobSubmits, UserSubmits
<1>2. InHand = {} /\ Queued = {}
  BY <1>0, <1>1, NothingInHand DEF AllDone, Queued
<1>3. Submitted = done
  BY <1>2 DEF Submitted, Held, InHand
<1> QED
  BY <1>3 DEF WaitInv, Waiting

\* wait() returns only when every job submitted before the call has run, for any
\* number of threads, users and waiters, with jobs that submit jobs and threads
\* that are replaced meanwhile.
THEOREM WaitIsAlwaysComplete == Spec => WaitIsComplete
<1> DEFINE Complete ==
      \A u \in User : user[u] \in {"wait", "fw_wait"} /\ user'[u] \in {"idle", "join"}
                        => before[u] \subseteq done
<1>1. Spec => []WaitInv
  BY WaitInvInit, WaitInvNext, PTL DEF Spec
<1>2. WaitInv /\ [Next]_vars => [Complete]_vars
  BY WaitEnds
<1> QED
  BY <1>1, <1>2, PTL DEF Spec, WaitIsComplete

-----------------------------------------------------------------------------
(* The destructor.                                                         *)

\* Once the destructor is past its wait the pool is drained, and stays so: nobody
\* submits to a dying pool, and no job is left to submit another.  Once it is past
\* the joins no worker is there.
DrainInv ==
    /\ CounterInv
    /\ dying /\ user[Owner] \in {"join", "gone"} => AllDone
    /\ user[Owner] = "gone" => dying /\ \A w \in Worker : worker[w] \in {"none", "exited"}

\* Every step keeps DrainInv.
LEMMA DrainInvNext == DrainInv /\ [Next]_vars => DrainInv'
<1> SUFFICES ASSUME DrainInv, [Next]_vars PROVE DrainInv'
  OBVIOUS
<1> DEFINE Past == dying /\ user[Owner] \in {"join", "gone"}
           Over == user[Owner] = "gone"
           NoWorker == \A w \in Worker : worker[w] \in {"none", "exited"}
           Drained == (Past' => AllDone') /\ (Over' => dying' /\ NoWorker')
<1>0. CounterInv /\ TypeOK /\ Owner \in User
  BY UsersAssumption DEF DrainInv, CounterInv
<1>1. Past => AllDone /\ InHand = {}
  BY <1>0, NothingInHand DEF DrainInv, AllDone
<1>2. Over => dying /\ NoWorker /\ work_cv = {}
  BY <1>0 DEF DrainInv, CounterInv, SleepersAreListed
<1> HIDE DEF Past, Over, NoWorker
<1>3. ASSUME EmplaceBack, ~dying \/ \E w \in Worker : worker[w] = "run" PROVE Drained
  <2>1. dying' = dying /\ user' = user
    BY <1>3 DEF EmplaceBack
  <2>2. ~Past
    BY <1>1, <1>3 DEF Past, InHand
  <2> QED
    BY <1>2, <2>1, <2>2 DEF Past, Over
<1>4. ASSUME NEW w \in Worker, Sleep(w) \/ Exit(w) PROVE Drained
  <2>1. ~Over
    BY <1>2, <1>4 DEF NoWorker, Sleep, Exit
  <2> QED
    BY <1>1, <1>4, <2>1 DEF Sleep, Exit, AllDone, Past, Over
<1>5. ASSUME NEW w \in Worker, GrabWork(w) \/ RunJob(w) \/ Finish(w) PROVE Drained
  <2>1. ~Past
    BY <1>1, <1>5 DEF GrabWork, RunJob, Finish, AllDone, InHand
  <2> QED
    BY <1>2, <1>5, <2>1 DEF GrabWork, RunJob, Finish, Past, Over
<1>6. ASSUME NEW w \in Worker, NotifyDone(w) PROVE Drained
  <2>1. ~Over
    BY <1>2, <1>6 DEF NoWorker, NotifyDone
  <2>2. user'[Owner] \in {"join", "gone"} => user'[Owner] = user[Owner]
    BY <1>0, <1>6, NotifiedSleep, WokenUsersWait DEF NotifyDone
  <2> QED
    BY <1>1, <1>6, <2>1, <2>2 DEF NotifyDone, AllDone, Past, Over
<1>7. ASSUME SpuriousWake PROVE Drained
  <2>1. UNCHANGED <<queue, working, dying>>
    BY <1>7 DEF SpuriousWake
  <2>2. user'[Owner] \in {"join", "gone"} => user'[Owner] = user[Owner]
    <3>1. ASSUME NEW u \in done_cv, WakeUsers({u})
          PROVE  user'[Owner] \in {"join", "gone"} => user'[Owner] = user[Owner]
      BY <1>0, <3>1, WokenUsersWait
    <3> QED
      BY <1>7, <3>1 DEF SpuriousWake
  <2>3. Over => worker' = worker
    BY <1>2, <1>7 DEF SpuriousWake
  <2> QED
    BY <1>1, <1>2, <2>1, <2>2, <2>3 DEF AllDone, Past, Over, NoWorker
<1>8. ASSUME NEW u \in User, CallWait(u) \/ UserWaits(u) PROVE Drained
  <2>1. UNCHANGED <<queue, working, dying, worker>>
    BY <1>8 DEF CallWait, UserWaits, Wait
  <2>2. user'[Owner] \in {"join", "gone"} => user'[Owner] = user[Owner]
    BY <1>0, <1>8 DEF CallWait, UserWaits, Wait, TypeOK
  <2> QED
    BY <1>1, <1>2, <2>1, <2>2 DEF AllDone, Past, Over, NoWorker
<1>9. ASSUME FinishWork PROVE Drained
  <2>1. user'[Owner] = "fw_wait"
    BY <1>0, <1>9 DEF FinishWork, TypeOK
  <2> QED
    BY <2>1 DEF Past, Over
<1>10. ASSUME OwnerWaits PROVE Drained
  <2>1. UNCHANGED <<queue, working, dying, worker>>
    BY <1>10 DEF OwnerWaits, Wait
  <2>2. user'[Owner] = "fw_asleep" \/ (user'[Owner] = "join" /\ AllDone)
    BY <1>0, <1>10 DEF OwnerWaits, Wait, TypeOK
  <2> QED
    BY <2>1, <2>2 DEF AllDone, Past, Over
<1>11. ASSUME SpawnThreads PROVE Drained
  <2>1. user'[Owner] = "idle"
    BY <1>0, <1>11 DEF SpawnThreads, TypeOK
  <2> QED
    BY <2>1 DEF Past, Over
<1>12. ASSUME Destroyed PROVE Drained
  <2>1. Past /\ NoWorker /\ UNCHANGED <<queue, working, dying, worker>>
    BY <1>12 DEF Destroyed, Joinable, Past, NoWorker
  <2> QED
    BY <1>1, <2>1 DEF AllDone, Past, NoWorker
<1>13. ASSUME UNCHANGED vars PROVE Drained
  BY <1>1, <1>2, <1>13 DEF vars, AllDone, Past, Over, NoWorker
<1>14. Drained
  BY <1>3, <1>4, <1>5, <1>6, <1>7, <1>8, <1>9, <1>10, <1>11, <1>12, <1>13
  DEF Next, WorkerStep, JobSubmits, UserSubmits, OwnerStep
<1>15. CounterInv'
  BY <1>0, CounterNext
<1> QED
  BY <1>14, <1>15 DEF DrainInv, Past, Over, NoWorker

\* A pool that is destroyed has run every job it was given, and no worker outlives
\* it: whatever jobs submit other jobs, and however often n_threads() was called.
THEOREM NothingIsEverAbandoned == Spec => []NothingIsAbandoned
<1>1. Init => DrainInv
  BY CounterInit, UsersAssumption DEF Init, DrainInv
<1>2. DrainInv => NothingIsAbandoned
  BY DEF DrainInv, NothingIsAbandoned, AllDone
<1> QED
  BY <1>1, <1>2, DrainInvNext, PTL DEF Spec

-----------------------------------------------------------------------------
(* The refinement of TaskPool.                                             *)

\* A job is in one place only: queued once, and never both queued and held or held
\* by two workers.
JobsAreApart ==
    /\ \A i, j \in DOMAIN queue : queue[i] = queue[j] => i = j
    /\ \A v, w \in Held : job[v] = job[w] => v = w
    /\ \A i \in DOMAIN queue, w \in Held : queue[i] # job[w]
RefinementInv == CounterInv /\ JobsAreApart

\* RefinementInv holds at first.
LEMMA RefinementInvInit == Init => RefinementInv
<1> SUFFICES ASSUME Init PROVE JobsAreApart
  BY CounterInit DEF RefinementInv
<1>1. Held = {} /\ DOMAIN queue = {}
  BY DEF Init, Held
<1> QED
  BY <1>1 DEF JobsAreApart

\* And every step keeps it.
LEMMA RefinementInvNext == RefinementInv /\ [Next]_vars => RefinementInv'
<1> SUFFICES ASSUME RefinementInv, [Next]_vars PROVE JobsAreApart'
  BY CounterNext DEF RefinementInv
<1>0. /\ queue \in Seq(Task) /\ job \in [Worker -> Task] /\ JobsAreApart
      /\ Held \subseteq Worker
  BY DEF RefinementInv, CounterInv, TypeOK, Held
<1>1. ASSUME NEW t \in Task \ Submitted, Submits(t) PROVE JobsAreApart'
  <2>1. /\ DOMAIN queue' = DOMAIN queue \cup {Len(queue) + 1}
        /\ queue'[Len(queue) + 1] = t
        /\ \A i \in DOMAIN queue : queue'[i] = queue[i]
    BY <1>0, <1>1 DEF Submits
  <2>2. (\A i \in DOMAIN queue : queue[i] # t) /\ \A w \in Held : job[w] # t
    BY DEF Submitted, Queued
  <2> QED
    BY <1>0, <1>1, <2>1, <2>2 DEF Submits, JobsAreApart
<1>2. ASSUME NEW w \in Worker, Takes(w) PROVE JobsAreApart'
  <2>1. /\ 1 \in DOMAIN queue /\ Head(queue) = queue[1]
        /\ \A i \in DOMAIN queue' :
             i \in Nat /\ i + 1 # 1 /\ i + 1 \in DOMAIN queue /\ queue'[i] = queue[i + 1]
    BY <1>0, <1>2 DEF Takes
  <2>2. job'[w] = queue[1] /\ \A v \in Held : v # w /\ job'[v] = job[v]
    BY <1>0, <1>2, <2>1 DEF Takes
  <2>3. ASSUME NEW i \in DOMAIN queue', NEW j \in DOMAIN queue', queue'[i] = queue'[j]
        PROVE  i = j
    BY <1>0, <2>1, <2>3 DEF JobsAreApart
  <2>4. ASSUME NEW u \in Held', NEW v \in Held', job'[u] = job'[v] PROVE u = v
    BY <1>0, <1>2, <2>1, <2>2, <2>4 DEF Takes, JobsAreApart
  <2>5. ASSUME NEW i \in DOMAIN queue', NEW v \in Held' PROVE queue'[i] # job'[v]
    BY <1>0, <1>2, <2>1, <2>2 DEF Takes, JobsAreApart
  <2> QED
    BY <2>3, <2>4, <2>5 DEF JobsAreApart
<1>3. ASSUME NEW w \in Held, Ends(w) PROVE JobsAreApart'
  BY <1>0, <1>3 DEF Ends, JobsAreApart
<1>4. ASSUME NoJobMoves PROVE JobsAreApart'
  BY <1>0, <1>4 DEF NoJobMoves, JobsAreApart
<1> QED
  BY <1>1, <1>2, <1>3, <1>4, StepsOfJobs DEF JobStep, RefinementInv

\* The jobs held by workers: `running' of the abstract pool.
Running == {job[w] : w \in Held}

\* Every step of the pool is a step of the abstract pool, or changes nothing there.
LEMMA StepRefines == RefinementInv /\ [Next]_vars => [Jobs!Next]_(Jobs!vars)
<1> SUFFICES ASSUME RefinementInv, [Next]_vars PROVE [Jobs!Next]_(Jobs!vars)
  OBVIOUS
<1>0. job \in [Worker -> Task] /\ JobsAreApart /\ Held \subseteq Worker
  BY DEF RefinementInv, CounterInv, TypeOK, Held
<1>1. ASSUME NEW t \in Task \ Submitted, Submits(t) PROVE Jobs!Submit(t)
  <2>1. t \notin Jobs!Submitted
    BY DEF Submitted, Queued, Jobs!Submitted
  <2> QED
    BY <1>1, <2>1 DEF Submits, Jobs!Submit
<1>2. ASSUME NEW w \in Worker, Takes(w) PROVE Jobs!Take
  <2>1. job'[w] = Head(queue) /\ \A v \in Held : v # w /\ job'[v] = job[v]
    BY <1>0, <1>2 DEF Takes
  <2>2. Running' = Running \cup {Head(queue)}
    BY <1>2, <2>1 DEF Takes, Running
  <2> QED
    BY <1>2, <2>2 DEF Takes, Running, Jobs!Take
<1>3. ASSUME NEW w \in Held, Ends(w) PROVE \E t \in Task : Jobs!Finish(t)
  <2>1. PICK t \in Task : t = job[w]
    BY <1>0
  <2>2. Running' = Running \ {t}
    BY <1>0, <1>3, <2>1 DEF Ends, Running, JobsAreApart
  <2>3. Jobs!Finish(t)
    BY <1>3, <2>1, <2>2 DEF Ends, Running, Jobs!Finish
  <2> QED
    BY <2>3
<1>4. ASSUME NoJobMoves PROVE UNCHANGED Jobs!vars
  BY <1>4 DEF NoJobMoves, Jobs!vars
<1>5. CASE \E t \in Task \ Submitted : Submits(t)
  BY <1>1, <1>5 DEF Jobs!Next
<1>6. CASE \E w \in Worker : Takes(w)
  BY <1>2, <1>6 DEF Jobs!Next
<1>7. CASE \E w \in Held : Ends(w)
  BY <1>3, <1>7 DEF Jobs!Next
<1> QED
  BY <1>4, <1>5, <1>6, <1>7, StepsOfJobs DEF JobStep, RefinementInv

\* The pool implements the abstract one: whatever its threads, locks and condition
\* variables do, each job is taken once, in the order of submission, and done once.
THEOREM PoolImplementsTaskPool == Spec => ImplementsTaskPool
<1>1. Init => Jobs!Init
  BY DEF Init, Held, Jobs!Init
<1> QED
  BY <1>1, RefinementInvInit, RefinementInvNext, StepRefines, PTL
  DEF Spec, ImplementsTaskPool, Jobs!Spec
=============================================================================
