-------------------------- MODULE ThreadPoolProofs --------------------------
(***************************************************************************)
(* Theorems about ThreadPool, for every number of clients, threads and     *)
(* calls, and for every choice of the calls made: its types and its locks, *)
(* and that it is a TaskExecutor: every task is in one place, and every    *)
(* step of the pool accepts, starts or finishes a task, changes the mode,  *)
(* or is nothing to its callers.                                           *)
(***************************************************************************)
EXTENDS ThreadPool, TLAPS

-----------------------------------------------------------------------------
(* Types, and what keeps a task a task: the worker at one of the places in *)
(* Holding owns task_queue_mutex, so a task that was seen in the queue is  *)
(* still there when it is taken.                                           *)

Holding == {"precheck", "to_wait", "postcheck", "take"}
Submitting == {"limit", "count", "compare", "push", "notify"}

QueueLock == \A w \in Worker : wpc[w] \in Holding <=> queue_writer = w
TakesATask == \A w \in Worker : wpc[w] = "take" => task_queue # <<>>
RunsATask == \A w \in Worker : wpc[w] = "run" => wtask[w] \in Task
SubmitsATask ==
    \A c \in Client : /\ pc[c] \in Submitting => op[c] = "submit"
                      /\ op[c] = "submit" => /\ pc[c] \in Submitting \cup {"status"}
                                             /\ arg[c] \in Task
Unborn == \A w \in Worker : w > created => wpc[w] = "unborn"

TInv == TypeOK /\ QueueLock /\ TakesATask /\ RunsATask /\ SubmitsATask /\ Unborn

\* What a call leaves when it returns: an outermost guard that is not its own.
LEMMA LeaveTyped ==
    ASSUME TypeOK, NEW c \in Client, Leave(c)
    PROVE /\ op' \in [Client -> SharedOps \cup ExclusiveOps \cup {"none"}]
          /\ pc' \in [Client -> ClientPcs]
BY DEF TypeOK, Leave, ExclusiveOps, ClientPcs

\* The guards of a call that returns leave the locks well typed.
LEMMA UnlockTyped ==
    ASSUME TypeOK, NEW c \in Client, UnlockAll(c)
    PROVE /\ status_writer' \in Client \cup {NoOne} /\ status_readers' \subseteq Client
          /\ list_writer' \in Client \cup {NoOne}
          /\ queue_writer' \in Worker \cup {NoOne} /\ queue_readers' \subseteq Client
BY DEF TypeOK, UnlockAll

\* Any outcome of a release keeps the semaphores natural numbers.
LEMMA ReleaseTyped ==
    ASSUME TypeOK, NEW w \in Worker, Release(w)
    PROVE sem' \in [Worker -> Nat]
BY DEF TypeOK, Release

\* What the loops do to a worker keeps statuses and semaphores well typed.
LEMMA EffectTyped ==
    ASSUME TypeOK, NEW w \in Worker,
           WorkerPause(w) \/ WorkerResume(w) \/ WorkerTerminate(w)
    PROVE wstatus' \in [Worker -> WorkerStatus] /\ sem' \in [Worker -> Nat]
<1>1. CASE WorkerPause(w)
  BY <1>1 DEF WorkerPause, TypeOK, WorkerStatus
<1>2. CASE WorkerResume(w)
  BY <1>2, ReleaseTyped DEF WorkerResume, TypeOK, WorkerStatus
<1>3. CASE WorkerTerminate(w)
  <2>1. wstatus' \in [Worker -> WorkerStatus]
    BY <1>3 DEF WorkerTerminate, TypeOK, WorkerStatus
  <2>2. sem' \in [Worker -> Nat]
    BY <1>3, ReleaseTyped DEF WorkerTerminate, TypeOK
  <2> QED BY <2>1, <2>2
<1> QED BY <1>1, <1>2, <1>3

\* A client that leaves a call submits nothing.
LEMMA LeaveSubmits ==
    ASSUME TypeOK, SubmitsATask, NEW c \in Client, Leave(c), UNCHANGED arg
    PROVE SubmitsATask'
<1> USE DEF TypeOK, SubmitsATask
<1>1. /\ op' = [op EXCEPT ![c] = IF op[c] = "close" THEN "destroy" ELSE "none"]
      /\ pc' = [pc EXCEPT ![c] = IF op[c] = "close" THEN "status" ELSE "idle"]
  BY DEF Leave
<1>2. op'[c] # "submit" /\ pc'[c] \notin Submitting
  BY <1>1 DEF Submitting
<1>3. \A d \in Client : d # c => op'[d] = op[d] /\ pc'[d] = pc[d]
  BY <1>1
<1> QED BY <1>2, <1>3

\* Every reachable state is well typed, and its queue lock is held as its
\* workers' places say (worker_thread.cpp:67-150).
LEMMA Typing == Spec => []TInv
<1> USE PoolAssumption DEF TypeOK, QueueLock, TakesATask, RunsATask, SubmitsATask, Unborn,
        Holding, Submitting, WorkerPcs, SemPcs, WorkerStatus, ClientPcs,
        pool, locks, tasks, list, workers, locals, bounds
<1>1. Init => TInv
  BY DEF Init, Worker, Task, NoTask, TInv
<1>2. TInv /\ [Next]_vars => TInv'
  <2> SUFFICES ASSUME TInv, [Next]_vars PROVE TInv'
    OBVIOUS
  <2>1. ASSUME NEW c \in Client, NEW o \in Ops, Call(c, o) PROVE TInv'
    <3> USE <2>1 DEF TInv, Call
    <3>1. PICK n \in Arguments(o) : arg' = [arg EXCEPT ![c] = n]
      OBVIOUS
    <3>2. n \in Nat /\ calls + 1 \in 0 .. MaxCalls /\ (o = "submit" => n \in Task)
      BY DEF Arguments, Task
    <3>3. o \in SharedOps \cup ExclusiveOps
      OBVIOUS
    <3>4. TypeOK'
      BY <3>1, <3>2, <3>3
    <3>5. QueueLock' /\ TakesATask' /\ RunsATask' /\ Unborn'
      OBVIOUS
    <3>6. SubmitsATask'
      BY <3>1, <3>2
    <3> QED BY <3>4, <3>5, <3>6
  <2>2. ASSUME NEW c \in Client, SetMaxTaskCount(c) PROVE TInv'
    BY <2>2 DEF TInv, SetMaxTaskCount
  <2>3. ASSUME NEW c \in Client, Enter(c) PROVE TInv'
    <3> USE <2>3 DEF TInv
    <3>1. PICK allowed \in SUBSET {"RUNNING", "PAUSED", "SHUTDOWN", "TERMINATING"},
               next \in {"limit", "drain", "list"} :
            /\ EnterShared(c, allowed, next)
            /\ next = "limit" <=> op[c] = "submit"
      BY DEF Enter, SubmitAllowed, ResizeAllowed
    <3>2. CASE status \in allowed
      <4>1. TypeOK'
        BY <3>1, <3>2 DEF EnterShared
      <4>2. QueueLock' /\ TakesATask' /\ RunsATask' /\ SubmitsATask' /\ Unborn'
        BY <3>1, <3>2 DEF EnterShared
      <4> QED BY <4>1, <4>2
    <3>3. CASE status \notin allowed
      <4>1. TypeOK'
        BY <3>1, <3>3, LeaveTyped DEF EnterShared
      <4>2. QueueLock' /\ TakesATask' /\ RunsATask' /\ SubmitsATask' /\ Unborn'
        BY <3>1, <3>3 DEF EnterShared, Leave
      <4> QED BY <4>1, <4>2
    <3> QED BY <3>2, <3>3
  <2>4. ASSUME NEW c \in Client, EnterAlone(c) PROVE TInv'
    <3> USE <2>4 DEF TInv
    <3>1. \/ NothingToDo(c)
          \/ \E s \in {"RUNNING", "PAUSED", "SHUTDOWN", "TERMINATING"}, next \in {"list", "drain"} :
                EnterExclusive(c, s, next)
      BY DEF EnterAlone
    <3>2. UNCHANGED <<max_task_count, status_readers, list_writer, queue_writer,
                     queue_readers, tasks, list, workers, arg, seen, bounds>>
      BY DEF EnterAlone
    <3>3. CASE NothingToDo(c)
      <4>1. /\ op' \in [Client -> SharedOps \cup ExclusiveOps \cup {"none"}]
            /\ pc' \in [Client -> ClientPcs]
            /\ todo' \in [Client -> SUBSET Worker]
        <5>1. CASE op[c] = "destroy"
          <6>1. worker_list \in SUBSET Worker
            OBVIOUS
          <6>3. pc' = [pc EXCEPT ![c] = "erase"] /\ todo' = [todo EXCEPT ![c] = worker_list] /\ op' = op
            BY <3>3, <5>1 DEF NothingToDo
          <6> QED BY <6>1, <6>3
        <5>2. CASE op[c] # "destroy"
          BY <3>3, <5>2, LeaveTyped DEF NothingToDo
        <5> QED BY <5>1, <5>2
      <4>2. TypeOK'
        BY <3>2, <3>3, <4>1 DEF NothingToDo
      <4>3. QueueLock' /\ TakesATask' /\ RunsATask' /\ SubmitsATask' /\ Unborn'
        BY <3>2, <3>3 DEF NothingToDo, Leave
      <4> QED BY <4>2, <4>3
    <3>4. ASSUME NEW s \in {"RUNNING", "PAUSED", "SHUTDOWN", "TERMINATING"},
                 NEW next \in {"list", "drain"}, EnterExclusive(c, s, next)
          PROVE TInv'
      <4>1. TypeOK'
        BY <3>2, <3>4 DEF EnterExclusive
      <4>2. op[c] # "submit"
        BY DEF EnterAlone, ExclusiveOps
      <4>3. QueueLock' /\ TakesATask' /\ RunsATask' /\ SubmitsATask' /\ Unborn'
        BY <3>2, <3>4, <4>2 DEF EnterExclusive
      <4> QED BY <4>1, <4>3
    <3> QED BY <3>1, <3>3, <3>4
  <2>5. ASSUME NEW c \in Client, Limited(c) PROVE TInv'
    BY <2>5 DEF TInv, Limited
  <2>6. ASSUME NEW c \in Client, GetTaskCount(c) PROVE TInv'
    BY <2>6 DEF TInv, GetTaskCount
  <2>7. ASSUME NEW c \in Client, Compare(c) PROVE TInv'
    <3> USE <2>7 DEF TInv, Compare, Full, Return
    <3>1. TypeOK'
      BY LeaveTyped, UnlockTyped
    <3>2. QueueLock' /\ TakesATask' /\ RunsATask' /\ Unborn'
      BY DEF UnlockAll
    <3>3. SubmitsATask'
      BY LeaveSubmits
    <3> QED BY <3>1, <3>2, <3>3
  <2>8. ASSUME NEW c \in Client, Push(c) PROVE TInv'
    BY <2>8 DEF TInv, Push, Pushed, QueueFree
  <2>9. ASSUME NEW c \in Client, Notify(c) PROVE TInv'
    <3> USE <2>9 DEF TInv, Notify, Return
    <3>1. wpc' \in [Worker -> WorkerPcs]
      BY DEF NotifyOne
    <3>2. TypeOK'
      BY <3>1, LeaveTyped, UnlockTyped
    <3>3. QueueLock' /\ TakesATask' /\ RunsATask' /\ Unborn'
      BY DEF UnlockAll, NotifyOne
    <3>4. SubmitsATask'
      BY DEF Leave
    <3> QED BY <3>2, <3>3, <3>4
  <2>10. ASSUME NEW c \in Client, Drain(c) PROVE TInv'
    <3> USE <2>10 DEF TInv, Drain, Drained, Return
    <3>1. TypeOK'
      <4>1. CASE Drained /\ op[c] = "wait"
        BY <4>1, LeaveTyped, UnlockTyped
      <4>2. CASE ~ (Drained /\ op[c] = "wait")
        BY <4>2
      <4> QED BY <4>1, <4>2
    <3>2. QueueLock' /\ TakesATask' /\ RunsATask' /\ Unborn'
      BY DEF UnlockAll
    <3>3. SubmitsATask'
      <4>1. CASE Drained /\ op[c] = "wait"
        BY <4>1, LeaveSubmits
      <4>2. CASE ~ (Drained /\ op[c] = "wait")
        BY <4>2
      <4> QED BY <4>1, <4>2
    <3> QED BY <3>1, <3>2, <3>3
  <2>11. ASSUME NEW c \in Client, LockList(c) PROVE TInv'
    BY <2>11 DEF TInv, LockList, Youngest
  <2>12. ASSUME NEW c \in Client, Each(c) PROVE TInv'
    <3> USE <2>12 DEF TInv, Each
    <3>1. PICK w \in todo[c] : Effect(c, w) /\ todo' = [todo EXCEPT ![c] = @ \ {w}]
      OBVIOUS
    <3>2. w \in Worker /\ (WorkerPause(w) \/ WorkerResume(w) \/ WorkerTerminate(w))
      BY <3>1 DEF Effect
    <3>3. wstatus' \in [Worker -> WorkerStatus] /\ sem' \in [Worker -> Nat]
      BY <3>2, EffectTyped
    <3>4. TypeOK'
      BY <3>1, <3>3
    <3>5. QueueLock' /\ TakesATask' /\ RunsATask' /\ SubmitsATask' /\ Unborn'
      OBVIOUS
    <3> QED BY <3>4, <3>5
  <2>13. ASSUME NEW c \in Client, EndPauseOrResume(c) PROVE TInv'
    BY <2>13 DEF TInv, EndPauseOrResume, Return, UnlockAll, Leave, ExclusiveOps
  <2>14. ASSUME NEW c \in Client, EndResumeForShutdown(c) PROVE TInv'
    BY <2>14 DEF TInv, EndResumeForShutdown
  <2>15. ASSUME NEW c \in Client, EndTerminate(c) PROVE TInv'
    <3> USE <2>15 DEF TInv, EndTerminate, FinalStatus, WokenAll
    <3>1. /\ op' \in [Client -> SharedOps \cup ExclusiveOps \cup {"none"}]
          /\ pc' \in [Client -> ClientPcs]
          /\ UnlockAll(c)
      BY LeaveTyped DEF Return
    <3>2. todo' \in [Client -> SUBSET Worker]
      <4>1. CASE op[c] = "destroy"
        <5>1. worker_list \in SUBSET Worker
          OBVIOUS
        <5>2. todo' = [todo EXCEPT ![c] = worker_list]
          BY <4>1
        <5> QED BY <5>1, <5>2
      <4>2. CASE op[c] # "destroy"
        BY <4>2
      <4> QED BY <4>1, <4>2
    <3>6. wpc' \in [Worker -> WorkerPcs]
      OBVIOUS
    <3>3. TypeOK'
      BY <3>1, <3>2, <3>6, UnlockTyped
    <3>4. QueueLock' /\ TakesATask' /\ RunsATask' /\ Unborn'
      BY <3>1 DEF UnlockAll
    <3>5. SubmitsATask'
      BY DEF Return, Leave
    <3> QED BY <3>3, <3>4, <3>5
  <2>16. ASSUME NEW c \in Client, EndTerminateRemoved(c) PROVE TInv'
    BY <2>16 DEF TInv, EndTerminateRemoved, WokenAll, Youngest
  <2>17. ASSUME NEW c \in Client, AddOne(c) PROVE TInv'
    <3> USE <2>17 DEF TInv, AddOne, CanStart
    <3>1. created + 1 \in Worker /\ created + 1 \in 0 .. MaxThreads /\ arg[c] - 1 \in Nat
      BY DEF Worker
    <3>2. TypeOK'
      BY <3>1
    <3>6. wpc[created + 1] = "unborn" /\ queue_writer # created + 1
      BY <3>1
    <3>7. /\ wpc'[created + 1] = "check"
          /\ \A w \in Worker : w # created + 1 => wpc'[w] = wpc[w]
      BY <3>1
    <3>3. QueueLock' /\ TakesATask' /\ RunsATask' /\ Unborn'
      <4>1. QueueLock'
        BY <3>6, <3>7
      <4>2. TakesATask' /\ RunsATask'
        BY <3>7
      <4>3. Unborn'
        BY <3>1, <3>7 DEF Worker
      <4> QED BY <4>1, <4>2, <4>3
    <3>4. op[c] # "submit"
      OBVIOUS
    <3>5. SubmitsATask'
      BY <3>1, <3>4
    <3> QED BY <3>2, <3>3, <3>5
  <2>18. ASSUME NEW c \in Client, EndAdd(c) PROVE TInv'
    BY <2>18 DEF TInv, EndAdd, Return, UnlockAll, Leave, ExclusiveOps
  <2>19. ASSUME NEW c \in Client, Erase(c) PROVE TInv'
    <3> USE <2>19 DEF TInv, Erase, WokenAll
    <3>1. PICK w \in todo[c] :
            /\ worker_list' = worker_list \ {w}
            /\ WorkerTerminate(w)
            /\ wpc' = IF wstatus[w] = "BLOCKED" THEN WokenAll ELSE wpc
      OBVIOUS
    <3>2. wstatus' \in [Worker -> WorkerStatus] /\ sem' \in [Worker -> Nat]
      BY <3>1, EffectTyped
    <3>3. wpc' \in [Worker -> WorkerPcs]
      BY <3>1
    <3>4. TypeOK'
      BY <3>1, <3>2, <3>3
    <3>5. QueueLock' /\ TakesATask' /\ RunsATask' /\ SubmitsATask' /\ Unborn'
      BY <3>1
    <3> QED BY <3>4, <3>5
  <2>20. ASSUME NEW c \in Client, Join(c) PROVE TInv'
    BY <2>20 DEF TInv, Join, Joined
  <2>21. ASSUME NEW c \in Client, EndErase(c) PROVE TInv'
    <3> USE <2>21 DEF TInv, EndErase, Return
    <3>1. TypeOK'
      BY LeaveTyped, UnlockTyped
    <3>2. QueueLock' /\ TakesATask' /\ RunsATask' /\ Unborn'
      BY DEF UnlockAll
    <3>3. SubmitsATask'
      BY LeaveSubmits
    <3> QED BY <3>1, <3>2, <3>3
  <2>22. ASSUME NEW w \in Worker, Check(w) PROVE TInv'
    BY <2>22 DEF TInv, Check, AfterCheck, StatusAfterExit, StopSeen
  <2>23. ASSUME NEW w \in Worker, Acquire(w) PROVE TInv'
    <3> USE <2>23 DEF TInv, Acquire, TokenReady
    <3>1. sem[w] - 1 \in Nat /\ AfterAcquire(wpc[w]) \in WorkerPcs \ (Holding \cup {"run"})
      BY DEF AfterAcquire
    <3>2. TypeOK'
      BY <3>1
    <3>3. QueueLock' /\ TakesATask' /\ RunsATask' /\ SubmitsATask' /\ Unborn'
      BY <3>1
    <3> QED BY <3>2, <3>3
  <2>24. ASSUME NEW w \in Worker, Lock(w) PROVE TInv'
    BY <2>24 DEF TInv, Lock, AfterLock, TestQueue, QueueFree
  <2>25. ASSUME NEW w \in Worker, Precheck(w) PROVE TInv'
    BY <2>25 DEF TInv, Precheck, AfterPrecheck, StatusAfterPrecheck, StatusAfterExit, StopSeen
  <2>26. ASSUME NEW w \in Worker, Wait(w) PROVE TInv'
    BY <2>26 DEF TInv, Wait
  <2>27. ASSUME NEW w \in Worker, Postcheck(w) PROVE TInv'
    BY <2>27 DEF TInv, Postcheck, AfterPostcheck, TestQueue, StatusAfterPostcheck, StatusAfterExit, StopSeen
  <2>28. ASSUME NEW w \in Worker, Take(w) PROVE TInv'
    BY <2>28 DEF TInv, Take, Popped, WokenDrainers
  <2>29. ASSUME NEW w \in Worker, Run(w) PROVE TInv'
    BY <2>29 DEF TInv, Run
  <2>30. CASE SpuriousWake
    <3> USE DEF TInv, SpuriousWake
    <3>1. spurious' \in 0 .. MaxSpurious
      BY <2>30
    <3>2. CASE \E w \in Worker : wpc[w] = "waiting" /\ wpc' = [wpc EXCEPT ![w] = "relock_post"]
                              /\ UNCHANGED pc
      <4>1. TypeOK'
        BY <2>30, <3>1, <3>2
      <4>2. QueueLock' /\ TakesATask' /\ RunsATask' /\ SubmitsATask' /\ Unborn'
        BY <2>30, <3>2
      <4> QED BY <4>1, <4>2
    <3>3. CASE \E c \in Client : pc[c] = "drain_wait" /\ pc' = [pc EXCEPT ![c] = "drain"]
                              /\ UNCHANGED wpc
      BY <2>30, <3>1, <3>3
    <3> QED BY <2>30, <3>2, <3>3
  <2>31. CASE UNCHANGED vars
    BY <2>31 DEF vars, TInv
  <2>32. QED
    BY <2>1, <2>2, <2>3, <2>4, <2>5, <2>6, <2>7, <2>8, <2>9, <2>10, <2>11, <2>12, <2>13, <2>14, <2>15, <2>16, <2>17, <2>18, <2>19, <2>20, <2>21, <2>22, <2>23, <2>24, <2>25, <2>26, <2>27, <2>28, <2>29, <2>30, <2>31
       DEF Next, ClientStep, WorkerStep
<1>3. QED
  BY <1>1, <1>2, PTL DEF Spec

\* The type invariant holds in every reachable state of the pool.
THEOREM TypeCorrect == Spec => []TypeOK
<1>1. TInv => TypeOK
  BY DEF TInv
<1> QED BY <1>1, Typing, PTL

-----------------------------------------------------------------------------
(* What a step can do to the workers: one of them acts, some of them wake, *)
(* a client changes the status of one, or a new thread starts.             *)

Wakes ==
    \A w \in Worker :
        wpc'[w] = wpc[w] \/ (wpc[w] = "waiting" /\ wpc'[w] = "relock_post")
Controls(w) == WorkerPause(w) \/ WorkerResume(w) \/ WorkerTerminate(w)
Starts(w) ==
    /\ wpc[w] = "unborn" /\ wpc' = [wpc EXCEPT ![w] = "check"]
    /\ UNCHANGED <<wstatus, sem>>

\* Every step of the pool is one of these, seen from its workers.
LEMMA WorkerView ==
    ASSUME TInv, [Next]_vars
    PROVE \/ \E w \in Worker : WorkerStep(w)
          \/ Wakes /\ UNCHANGED <<wstatus, sem>>
          \/ Wakes /\ \E w \in Worker : Controls(w)
          \/ \E w \in Worker : Starts(w)
<1> USE DEF workers
<1>1. ASSUME NEW c \in Client, NEW o \in Ops, Call(c, o)
      PROVE Wakes /\ UNCHANGED <<wstatus, sem>>
  BY <1>1 DEF Call, Wakes
<1>2. ASSUME NEW c \in Client, SetMaxTaskCount(c)
      PROVE Wakes /\ UNCHANGED <<wstatus, sem>>
  BY <1>2 DEF SetMaxTaskCount, Wakes
<1>3. ASSUME NEW c \in Client,
             \/ Enter(c) \/ EnterAlone(c) \/ Limited(c) \/ GetTaskCount(c) \/ Compare(c)
             \/ Push(c) \/ Drain(c) \/ LockList(c) \/ EndPauseOrResume(c)
             \/ EndResumeForShutdown(c) \/ EndAdd(c) \/ Join(c) \/ EndErase(c)
      PROVE Wakes /\ UNCHANGED <<wstatus, sem>>
  BY <1>3 DEF Enter, EnterShared, EnterAlone, Limited, GetTaskCount, Compare, Push, Drain,
              LockList, EndPauseOrResume, EndResumeForShutdown, EndAdd, Join, EndErase, Wakes
<1>4. ASSUME NEW c \in Client, Notify(c) \/ EndTerminate(c) \/ EndTerminateRemoved(c)
      PROVE Wakes /\ UNCHANGED <<wstatus, sem>>
  <2>1. wpc \in [Worker -> WorkerPcs]
    BY DEF TInv, TypeOK
  <2>2. CASE Notify(c)
    BY <2>1, <2>2 DEF Notify, NotifyOne, Wakes
  <2>3. CASE EndTerminate(c) \/ EndTerminateRemoved(c)
    BY <2>1, <2>3 DEF EndTerminate, EndTerminateRemoved, WokenAll, Wakes
  <2> QED BY <1>4, <2>2, <2>3
<1>5. ASSUME NEW c \in Client, Each(c) \/ Erase(c)
      PROVE Wakes /\ \E w \in Worker : Controls(w)
  <2>1. wpc \in [Worker -> WorkerPcs] /\ todo[c] \subseteq Worker
    BY DEF TInv, TypeOK
  <2>2. CASE Each(c)
    BY <2>1, <2>2 DEF Each, Effect, Wakes, Controls
  <2>3. CASE Erase(c)
    BY <2>1, <2>3 DEF Erase, WokenAll, Wakes, Controls
  <2> QED BY <1>5, <2>2, <2>3
<1>6. ASSUME NEW c \in Client, AddOne(c)
      PROVE \E w \in Worker : Starts(w)
  <2>1. created + 1 \in Worker /\ created + 1 > created
    BY <1>6, PoolAssumption DEF TInv, TypeOK, AddOne, CanStart, Worker
  <2>2. wpc[created + 1] = "unborn"
    BY <2>1 DEF TInv, Unborn
  <2> QED BY <1>6, <2>1, <2>2 DEF AddOne, Starts
<1>7. CASE SpuriousWake
  <2>1. wpc \in [Worker -> WorkerPcs]
    BY DEF TInv, TypeOK
  <2> QED BY <1>7, <2>1 DEF SpuriousWake, Wakes
<1>8. CASE UNCHANGED vars
  BY <1>8 DEF vars, Wakes
<1> QED BY <1>1, <1>2, <1>3, <1>4, <1>5, <1>6, <1>7, <1>8 DEF Next, ClientStep

-----------------------------------------------------------------------------
(* The status of a worker against the place it has reached.  A worker is   *)
(* BLOCKED only around its sleep, so that the head of its loop never finds *)
(* that status.                                                            *)

AroundSleep == {"to_wait", "waiting", "relock_post", "postcheck"}
BlockedAroundSleep == \A w \in Worker : wstatus[w] = "BLOCKED" => wpc[w] \in AroundSleep

WInv == BlockedAroundSleep /\ NoUndefinedStatus /\ NoLostResume

\* The statuses, places and semaphores of the workers stay in step, whatever
\* the clients do (worker_thread.cpp:31-159 against 185-260).
LEMMA WorkerInvariant == Spec => [](TInv /\ WInv)
<1> USE DEF WInv, BlockedAroundSleep, NoUndefinedStatus, NoLostResume, SemPcs, AroundSleep
<1>1. Init => WInv
  BY DEF Init
<1>2. TInv /\ WInv /\ [Next]_vars => WInv'
  <2> SUFFICES ASSUME TInv, WInv, [Next]_vars PROVE WInv'
    OBVIOUS
  <2>1. /\ wpc \in [Worker -> WorkerPcs] /\ wstatus \in [Worker -> WorkerStatus]
        /\ sem \in [Worker -> Nat]
    BY DEF TInv, TypeOK
  <2>2. ASSUME NEW w \in Worker, WorkerStep(w) PROVE WInv'
    <3>1. CASE Check(w)
      BY <2>1, <3>1 DEF Check, AfterCheck, StatusAfterExit, StopSeen, WorkerStatus
    <3>2. CASE Acquire(w)
      BY <2>1, <3>2 DEF Acquire, AfterAcquire, TokenReady
    <3>3. CASE Lock(w)
      BY <2>1, <3>3 DEF Lock, AfterLock, TestQueue
    <3>4. CASE Precheck(w)
      BY <2>1, <3>4 DEF Precheck, AfterPrecheck, StatusAfterPrecheck, StatusAfterExit, StopSeen
    <3>5. CASE Wait(w)
      BY <2>1, <3>5 DEF Wait
    <3>6. CASE Postcheck(w)
      BY <2>1, <3>6 DEF Postcheck, AfterPostcheck, TestQueue, StatusAfterPostcheck,
                        StatusAfterExit, StopSeen
    <3>7. CASE Take(w)
      BY <2>1, <3>7 DEF Take
    <3>8. CASE Run(w)
      BY <2>1, <3>8 DEF Run
    <3> QED BY <2>2, <3>1, <3>2, <3>3, <3>4, <3>5, <3>6, <3>7, <3>8 DEF WorkerStep
  <2>3. CASE Wakes /\ UNCHANGED <<wstatus, sem>>
    BY <2>3 DEF Wakes
  <2>4. ASSUME Wakes, NEW w \in Worker, Controls(w) PROVE WInv'
    <3>1. CASE WorkerPause(w)
      BY <2>1, <2>4, <3>1 DEF WorkerPause, Wakes
    <3>2. CASE WorkerResume(w)
      BY <2>1, <2>4, <3>2 DEF WorkerResume, Release, Wakes
    <3>3. CASE WorkerTerminate(w)
      BY <2>1, <2>4, <3>3 DEF WorkerTerminate, Release, Wakes
    <3> QED BY <2>4, <3>1, <3>2, <3>3 DEF Controls
  <2>5. ASSUME NEW w \in Worker, Starts(w) PROVE WInv'
    BY <2>1, <2>5 DEF Starts
  <2> QED BY <2>2, <2>3, <2>4, <2>5, WorkerView
<1>3. QED
  BY <1>1, <1>2, Typing, PTL DEF Spec

\* No worker ever dies of the "undefined status" exception
\* (worker_thread.cpp:55-58).
THEOREM NeverThrows == Spec => []NoUndefinedStatus
<1>1. WInv => NoUndefinedStatus
  BY DEF WInv
<1> QED BY <1>1, WorkerInvariant, PTL

\* No resume and no termination is lost on a worker that was going to sleep
\* on its pause semaphore (worker_thread.cpp:42-46, 84-92, 128-135, 203-218).
THEOREM ResumeReaches == Spec => []NoLostResume
<1>1. WInv => NoLostResume
  BY DEF WInv
<1> QED BY <1>1, WorkerInvariant, PTL

\* A worker that stays PAUSED does not get past the checks around the queue,
\* a token left over in its semaphore notwithstanding.
THEOREM PauseHolds == Spec => PausedStaysOut
<1> DEFINE Stays ==
      \A w \in Worker :
          wstatus[w] = "PAUSED" /\ wstatus'[w] = "PAUSED" /\ wpc[w] \in Gates
             => wpc'[w] \in Gates
<1>1. TInv /\ [Next]_vars => [Stays]_vars
  <2> SUFFICES ASSUME TInv, [Next]_vars PROVE Stays
    OBVIOUS
  <2> USE DEF Gates, SemPcs
  <2>1. wpc \in [Worker -> WorkerPcs] /\ wstatus \in [Worker -> WorkerStatus]
    BY DEF TInv, TypeOK
  <2>2. ASSUME NEW w \in Worker, WorkerStep(w) PROVE Stays
    <3>1. CASE Check(w)
      BY <2>1, <3>1 DEF Check, AfterCheck, StopSeen
    <3>2. CASE Acquire(w)
      BY <2>1, <3>2 DEF Acquire, AfterAcquire
    <3>3. CASE Lock(w)
      BY <2>1, <3>3 DEF Lock, AfterLock
    <3>4. CASE Precheck(w)
      BY <2>1, <3>4 DEF Precheck, AfterPrecheck, StopSeen
    <3>5. CASE Wait(w)
      BY <2>1, <3>5 DEF Wait
    <3>6. CASE Postcheck(w)
      BY <2>1, <3>6 DEF Postcheck, AfterPostcheck, StopSeen
    <3>7. CASE Take(w) \/ Run(w)
      BY <2>1, <3>7 DEF Take, Run
    <3> QED BY <2>2, <3>1, <3>2, <3>3, <3>4, <3>5, <3>6, <3>7 DEF WorkerStep
  <2>3. CASE Wakes
    BY <2>3 DEF Wakes
  <2>4. ASSUME NEW w \in Worker, Starts(w) PROVE Stays
    BY <2>1, <2>4 DEF Starts
  <2> QED BY <2>2, <2>3, <2>4, WorkerView
<1>2. Spec => [][Stays]_vars
  BY <1>1, Typing, PTL DEF Spec
<1> QED BY <1>2 DEF PausedStaysOut

-----------------------------------------------------------------------------
(* status_mutex.  A call owns the mutex, shared or alone, from its status   *)
(* check to its return (a destruction: until the workers are terminated),   *)
(* so the status it has seen is still the status when it acts on it.        *)

Draining == {"drain", "drain_wait"}
Looping == {"list", "each"}

\* The places a call can be at.
Places ==
    \A c \in Client :
        /\ pc[c] \in Draining => op[c] \in {"wait", "shutdown", "close"}
        /\ pc[c] \in Looping => op[c] \in {"add", "remove"} \cup ExclusiveOps
        /\ pc[c] = "adding" => op[c] = "add"
        /\ pc[c] \in {"erase", "join"} => op[c] \in {"remove", "destroy"}
        /\ op[c] = "wait" => pc[c] \in Draining \cup {"status"}
        /\ op[c] = "pause" \/ op[c] = "resume" => pc[c] \in Looping \cup {"status"}

\* The calls that hold status_mutex shared, and alone.
Reads(c) ==
    \/ pc[c] \in Submitting \cup {"adding"}
    \/ pc[c] \in Draining /\ op[c] = "wait"
    \/ pc[c] \in Looping \cup {"erase", "join"} /\ op[c] \in {"add", "remove"}
Writes(c) == pc[c] \in Draining \cup Looping /\ op[c] \in ExclusiveOps

StatusLock ==
    /\ \A c \in Client : Reads(c) => c \in status_readers
    /\ \A c \in Client : Writes(c) <=> status_writer = c
    /\ status_writer # NoOne => status_readers = {}

\* What a holder knows of the status.
Known ==
    \A c \in Client :
        /\ pc[c] \in Submitting => status = "RUNNING"
        /\ Writes(c) /\ op[c] = "pause" => status = "PAUSED"
        /\ Writes(c) /\ op[c] = "resume" => status = "RUNNING"

LInv == Places /\ StatusLock /\ Known /\ TransientHidden

\* A call that ends gives back all it holds, and the status it leaves is one
\* that others may see.
LEMMA ReturnKeeps ==
    ASSUME TypeOK, LInv, NEW c \in Client, Return(c), UNCHANGED status,
           Reads(c) \/ (Writes(c) /\ status \notin {"SHUTDOWN", "TERMINATING"})
    PROVE LInv'
<1> USE PoolAssumption DEF LInv, TypeOK
<1>1. /\ op' = [op EXCEPT ![c] = IF op[c] = "close" THEN "destroy" ELSE "none"]
      /\ pc' = [pc EXCEPT ![c] = IF op[c] = "close" THEN "status" ELSE "idle"]
      /\ status_writer' = IF status_writer = c THEN NoOne ELSE status_writer
      /\ status_readers' = status_readers \ {c}
  BY DEF Return, Leave, UnlockAll
<1>2. Places'
  BY <1>1 DEF Places, Draining, Looping
<1>3. StatusLock'
  BY <1>1 DEF StatusLock, Reads, Writes, Submitting, Draining, Looping
<1>4. Known'
  BY <1>1 DEF Known, Writes, Submitting, Draining, Looping
<1>5. TransientHidden'
  BY <1>1 DEF TransientHidden, StatusLock
<1> QED BY <1>2, <1>3, <1>4, <1>5

\* A call that is refused, or has nothing to do, leaves all as it was.
LEMMA LeaveKeeps ==
    ASSUME TypeOK, LInv, NEW c \in Client, pc[c] = "status", Leave(c),
           UNCHANGED <<status, status_writer, status_readers>>
    PROVE LInv'
<1> USE PoolAssumption DEF LInv, TypeOK
<1>1. /\ op' = [op EXCEPT ![c] = IF op[c] = "close" THEN "destroy" ELSE "none"]
      /\ pc' = [pc EXCEPT ![c] = IF op[c] = "close" THEN "status" ELSE "idle"]
  BY DEF Leave
<1>2. Places'
  BY <1>1 DEF Places, Draining, Looping
<1>3. StatusLock'
  BY <1>1 DEF StatusLock, Reads, Writes, Submitting, Draining, Looping
<1>4. Known'
  BY <1>1 DEF Known, Writes, Submitting, Draining, Looping
<1>5. TransientHidden'
  BY DEF TransientHidden
<1> QED BY <1>2, <1>3, <1>4, <1>5

\* A step that moves a call within its critical section keeps the invariant.
LEMMA MoveKeeps ==
    ASSUME TypeOK, LInv, NEW c \in Client, NEW p \in ClientPcs,
           pc' = [pc EXCEPT ![c] = p],
           UNCHANGED <<op, status, status_writer, status_readers>>,
           \/ pc[c] \in Submitting /\ p \in Submitting
           \/ pc[c] \in Draining /\ p \in Draining
           \/ pc[c] = "list" /\ p = IF op[c] = "add" THEN "adding" ELSE "each"
           \/ pc[c] = "each" /\ op[c] = "remove" /\ p = "erase"
           \/ pc[c] \in {"erase", "join"} /\ p \in {"erase", "join"}
           \/ pc[c] = "erase" /\ op[c] = "destroy" /\ p = "gone"
    PROVE LInv'
<1> USE DEF LInv, TypeOK, Submitting, Draining, Looping
<1>1. Places'
  BY DEF Places
<1>2. StatusLock'
  BY DEF StatusLock, Places, Reads, Writes, ExclusiveOps
<1>3. Known'
  BY DEF Known, Writes
<1>4. TransientHidden'
  BY DEF TransientHidden
<1> QED BY <1>1, <1>2, <1>3, <1>4

\* Any number of sleeping drainers may wake up.
LEMMA DrainersKeep ==
    ASSUME TypeOK, LInv, UNCHANGED <<op, status, status_writer, status_readers>>,
           \A c \in Client : pc'[c] = pc[c] \/ (pc[c] = "drain_wait" /\ pc'[c] = "drain")
    PROVE LInv'
<1> USE DEF LInv, TypeOK, Submitting, Draining, Looping
<1>1. Places'
  BY DEF Places
<1>2. StatusLock'
  BY DEF StatusLock, Reads, Writes
<1>3. Known'
  BY DEF Known, Writes
<1>4. TransientHidden'
  BY DEF TransientHidden
<1> QED BY <1>1, <1>2, <1>3, <1>4

\* status_mutex is held as the calls' places say, in every reachable state.
LEMMA Locking == Spec => [](TInv /\ LInv)
<1> USE DEF workers, locks, pool, locals
<1>1. Init => LInv
  BY PoolAssumption DEF Init, LInv, Places, StatusLock, Known, TransientHidden, Reads,
     Writes, Submitting, Draining, Looping
<1>2. TInv /\ LInv /\ [Next]_vars => LInv'
  <2> SUFFICES ASSUME TInv, LInv, [Next]_vars PROVE LInv'
    OBVIOUS
  <2>0. TypeOK
    BY DEF TInv
  <2>1. ASSUME NEW c \in Client, NEW o \in Ops, Call(c, o) PROVE LInv'
    <3> USE <2>0, <2>1 DEF Call, LInv, TypeOK
    <3>1. Places'
      BY DEF Places, Draining, Looping
    <3>2. StatusLock'
      BY DEF StatusLock, Reads, Writes, Submitting, Draining, Looping
    <3>3. Known'
      BY DEF Known, Writes, Submitting, Draining, Looping
    <3>4. TransientHidden'
      BY DEF TransientHidden
    <3> QED BY <3>1, <3>2, <3>3, <3>4
  <2>2. ASSUME NEW c \in Client, Enter(c) PROVE LInv'
    <3>1. PICK allowed \in SUBSET {"RUNNING", "PAUSED", "SHUTDOWN", "TERMINATING"},
               next \in {"limit", "drain", "list"} :
            /\ EnterShared(c, allowed, next)
            /\ next = "limit" => op[c] = "submit" /\ allowed = {"RUNNING"}
            /\ next = "drain" => op[c] = "wait"
            /\ next = "list" => op[c] \in {"add", "remove"}
      BY <2>2 DEF Enter, SubmitAllowed, ResizeAllowed
    <3>2. CASE status \in allowed
      <4> USE <2>0, <3>1, <3>2, PoolAssumption
          DEF EnterShared, LInv, TypeOK, Submitting, Draining, Looping, ExclusiveOps
      <4>1. Places'
        BY DEF Places
      <4>2. StatusLock'
        BY DEF StatusLock, Reads, Writes
      <4>3. Known'
        BY DEF Known, Writes
      <4>4. TransientHidden'
        BY DEF TransientHidden
      <4> QED BY <4>1, <4>2, <4>3, <4>4
    <3>3. CASE status \notin allowed
      BY <2>0, <3>1, <3>3, LeaveKeeps DEF EnterShared
    <3> QED BY <3>2, <3>3
  <2>3. ASSUME NEW c \in Client, EnterAlone(c) PROVE LInv'
    <3>1. /\ pc[c] = "status" /\ op[c] \in ExclusiveOps
          /\ status_writer = NoOne /\ status_readers = {} /\ status_readers' = {}
      BY <2>3 DEF EnterAlone, StatusFree
    <3>2. \/ NothingToDo(c)
          \/ \E s \in {"RUNNING", "PAUSED", "SHUTDOWN", "TERMINATING"}, next \in {"list", "drain"} :
                /\ EnterExclusive(c, s, next)
                /\ op[c] = "pause" => s = "PAUSED"
                /\ op[c] = "resume" => s = "RUNNING"
                /\ next = "drain" => op[c] \in {"shutdown", "close"}
      BY <2>3 DEF EnterAlone
    <3>3. CASE NothingToDo(c)
      <4>1. CASE op[c] = "destroy"
        <5> USE <2>0, <3>1, <3>3, <4>1, PoolAssumption
            DEF NothingToDo, LInv, TypeOK, Submitting, Draining, Looping
        <5>1. Places'
          BY DEF Places
        <5>2. StatusLock'
          BY DEF StatusLock, Reads, Writes
        <5>3. Known'
          BY DEF Known, Writes
        <5>4. TransientHidden'
          BY DEF TransientHidden
        <5> QED BY <5>1, <5>2, <5>3, <5>4
      <4>2. CASE op[c] # "destroy"
        BY <2>0, <3>1, <3>3, <4>2, LeaveKeeps DEF NothingToDo
      <4> QED BY <4>1, <4>2
    <3>4. ASSUME NEW s \in {"RUNNING", "PAUSED", "SHUTDOWN", "TERMINATING"},
                 NEW next \in {"list", "drain"}, EnterExclusive(c, s, next),
                 op[c] = "pause" => s = "PAUSED",
                 op[c] = "resume" => s = "RUNNING",
                 next = "drain" => op[c] \in {"shutdown", "close"}
          PROVE LInv'
      <4> USE <2>0, <3>1, <3>4, PoolAssumption
          DEF EnterExclusive, LInv, TypeOK, Submitting, Draining, Looping, ExclusiveOps
      <4>1. Places'
        BY DEF Places
      <4>2. StatusLock'
        BY DEF StatusLock, Reads, Writes
      <4>3. Known'
        BY DEF Known, Writes, StatusLock, Reads
      <4>4. TransientHidden'
        BY DEF TransientHidden
      <4> QED BY <4>1, <4>2, <4>3, <4>4
    <3> QED BY <3>2, <3>3, <3>4
  <2>4. ASSUME NEW c \in Client,
               \/ Limited(c) \/ GetTaskCount(c) \/ Push(c) \/ LockList(c)
               \/ EndTerminateRemoved(c) \/ Erase(c) \/ Join(c)
        PROVE LInv'
    <3>1. PICK p \in ClientPcs :
            /\ pc' = [pc EXCEPT ![c] = p]
            /\ UNCHANGED <<op, status, status_writer, status_readers>>
            /\ \/ pc[c] \in Submitting /\ p \in Submitting
               \/ pc[c] = "list" /\ p = IF op[c] = "add" THEN "adding" ELSE "each"
               \/ pc[c] = "each" /\ op[c] = "remove" /\ p = "erase"
               \/ pc[c] \in {"erase", "join"} /\ p \in {"erase", "join"}
      BY <2>4 DEF Limited, GetTaskCount, Push, LockList, EndTerminateRemoved, Erase, Join,
                  ClientPcs, Submitting
    <3> QED BY <2>0, <3>1, MoveKeeps
  <2>5. ASSUME NEW c \in Client, Compare(c) PROVE LInv'
    <3>1. pc[c] = "compare" /\ UNCHANGED status
      BY <2>5 DEF Compare
    <3>2. CASE Full(seen[c])
      BY <2>0, <2>5, <3>1, <3>2, ReturnKeeps DEF Compare, Reads, Submitting
    <3>3. CASE ~ Full(seen[c])
      <4>1. pc' = [pc EXCEPT ![c] = "push"] /\ UNCHANGED <<op, status_writer, status_readers>>
        BY <2>5, <3>3 DEF Compare
      <4> QED BY <2>0, <3>1, <4>1, MoveKeeps DEF Submitting, ClientPcs
    <3> QED BY <3>2, <3>3
  <2>6. ASSUME NEW c \in Client, Notify(c) PROVE LInv'
    BY <2>0, <2>6, ReturnKeeps DEF Notify, Reads, Submitting
  <2>7. ASSUME NEW c \in Client, Drain(c) PROVE LInv'
    <3>1. pc[c] = "drain" /\ op[c] \in {"wait", "shutdown", "close"}
      BY <2>7 DEF Drain, LInv, Places, Draining
    <3>2. CASE ~ Drained
      <4>1. pc' = [pc EXCEPT ![c] = "drain_wait"]
            /\ UNCHANGED <<op, status, status_writer, status_readers>>
        BY <2>7, <3>2 DEF Drain
      <4> QED BY <2>0, <3>1, <4>1, MoveKeeps DEF Draining, ClientPcs
    <3>3. CASE Drained /\ op[c] = "wait"
      BY <2>0, <2>7, <3>1, <3>3, ReturnKeeps DEF Drain, Reads, Draining
    <3>4. CASE Drained /\ op[c] # "wait"
      <4> USE <2>0, <2>7, <3>1, <3>4, PoolAssumption
          DEF Drain, LInv, TypeOK, Submitting, Draining, Looping, ExclusiveOps
      <4>1. Writes(c) /\ status_writer = c /\ status_writer' = c /\ status_readers = {}
        BY DEF Writes, StatusLock
      <4>2. Places'
        BY DEF Places
      <4>3. StatusLock'
        BY <4>1 DEF StatusLock, Reads, Writes
      <4>4. Known'
        BY <4>1 DEF Known, Writes, StatusLock, Reads
      <4>5. TransientHidden'
        BY <4>1 DEF TransientHidden
      <4> QED BY <4>2, <4>3, <4>4, <4>5
    <3> QED BY <3>2, <3>3, <3>4
  <2>8. ASSUME NEW c \in Client, EndPauseOrResume(c) PROVE LInv'
    <3>1. Writes(c) /\ status \notin {"SHUTDOWN", "TERMINATING"}
      BY <2>8 DEF EndPauseOrResume, Writes, LInv, Known, Looping, ExclusiveOps
    <3> QED BY <2>0, <2>8, <3>1, ReturnKeeps DEF EndPauseOrResume
  <2>9. ASSUME NEW c \in Client, EndResumeForShutdown(c) PROVE LInv'
    <3> USE <2>0, <2>9, PoolAssumption
        DEF EndResumeForShutdown, LInv, TypeOK, Submitting, Draining, Looping, ExclusiveOps
    <3>1. Writes(c) /\ status_writer = c /\ status_readers = {}
      BY DEF Writes, StatusLock
    <3>2. Places'
      BY DEF Places
    <3>3. StatusLock'
      BY <3>1 DEF StatusLock, Reads, Writes
    <3>4. Known'
      BY <3>1 DEF Known, Writes, StatusLock, Reads
    <3>5. TransientHidden'
      BY <3>1 DEF TransientHidden
    <3> QED BY <3>2, <3>3, <3>4, <3>5
  <2>10. ASSUME NEW c \in Client, EndTerminate(c) PROVE LInv'
    <3> USE <2>0, PoolAssumption
        DEF LInv, TypeOK, Submitting, Draining, Looping, ExclusiveOps
    <3>1. pc[c] = "each" /\ status = "TERMINATING" /\ status' = "TERMINATED"
      BY <2>10 DEF EndTerminate, FinalStatus
    <3>2. status_readers = {} /\ Writes(c) /\ status_writer = c
      BY <3>1 DEF TransientHidden, StatusLock, Reads, Writes, Places
    <3>3. status_writer' = NoOne /\ status_readers' = {}
      BY <2>10, <3>2 DEF EndTerminate, Return, UnlockAll
    <3>4. PICK p \in {"erase", "status", "idle"}, o \in {"destroy", "none"} :
            /\ pc' = [pc EXCEPT ![c] = p] /\ op' = [op EXCEPT ![c] = o]
            /\ p = "erase" => o = "destroy"
      <4>1. CASE op[c] = "destroy"
        BY <2>10, <4>1 DEF EndTerminate
      <4>2. CASE op[c] # "destroy"
        BY <2>10, <4>2 DEF EndTerminate, Return, Leave
      <4> QED BY <4>1, <4>2
    <3>5. Places'
      BY <3>4 DEF Places
    <3>6. StatusLock'
      BY <3>1, <3>2, <3>3, <3>4 DEF StatusLock, Reads, Writes
    <3>7. Known'
      BY <3>1, <3>2, <3>3, <3>4 DEF Known, Writes, StatusLock, Reads
    <3>8. TransientHidden'
      BY <3>1 DEF TransientHidden
    <3> QED BY <3>5, <3>6, <3>7, <3>8
  <2>11. ASSUME NEW c \in Client, EndAdd(c) PROVE LInv'
    BY <2>0, <2>11, ReturnKeeps DEF EndAdd, Reads
  <2>12. ASSUME NEW c \in Client, EndErase(c) PROVE LInv'
    <3>1. CASE op[c] = "remove" /\ Return(c)
      BY <2>0, <2>12, <3>1, ReturnKeeps DEF EndErase, Reads, Looping
    <3>2. CASE op[c] = "destroy" /\ pc' = [pc EXCEPT ![c] = "gone"] /\ UNCHANGED <<op, locks>>
      BY <2>0, <2>12, <3>2, MoveKeeps DEF EndErase, ClientPcs
    <3> QED BY <2>12, <3>1, <3>2 DEF EndErase
  <2>13. ASSUME NEW w \in Worker, Take(w) PROVE LInv'
    BY <2>0, <2>13, DrainersKeep DEF Take, WokenDrainers, TypeOK
  <2>14. CASE SpuriousWake
    BY <2>0, <2>14, DrainersKeep DEF SpuriousWake, TypeOK
  <2>15. CASE \/ \E c \in Client : SetMaxTaskCount(c) \/ Each(c) \/ AddOne(c)
              \/ \E w \in Worker : \/ Check(w) \/ Acquire(w) \/ Lock(w) \/ Precheck(w)
                                   \/ Wait(w) \/ Postcheck(w) \/ Run(w)
              \/ UNCHANGED vars
    <3>1. UNCHANGED <<pc, op, status, status_writer, status_readers>>
      BY <2>15 DEF SetMaxTaskCount, Each, AddOne, Check, Acquire, Lock, Precheck, Wait,
                   Postcheck, Run, vars
    <3> QED BY <2>0, <3>1, DrainersKeep
  <2> QED BY <2>1, <2>2, <2>3, <2>4, <2>5, <2>6, <2>7, <2>8, <2>9, <2>10, <2>11, <2>12,
             <2>13, <2>14, <2>15
          DEF Next, ClientStep, WorkerStep
<1>3. QED
  BY <1>1, <1>2, Typing, PTL DEF Spec

\* SHUTDOWN and TERMINATING are seen only by the call that set them
\* (thread_pool.cpp:112-135, 184-205).
THEOREM TransientUnseen == Spec => []TransientHidden
<1>1. LInv => TransientHidden
  BY DEF LInv
<1> QED BY <1>1, Locking, PTL

\* A task enters the queue only while the pool is RUNNING: the shared lock
\* spans the status check and the push (thread_pool.h:150-185).
THEOREM AcceptsOnlyWhileRunning == Spec => AcceptOnlyRunning
<1>1. TInv /\ LInv /\ [Next]_vars => [accepted' # accepted => status = "RUNNING"]_vars
  <2> SUFFICES ASSUME TInv, LInv, [Next]_vars, accepted' # accepted PROVE status = "RUNNING"
    OBVIOUS
  <2> USE DEF pool, locks, tasks, list, workers, locals, bounds
  <2>1. \E c \in Client : Push(c)
    <3>1. ASSUME NEW c \in Client, ClientStep(c), ~ Push(c) PROVE UNCHANGED accepted
      BY <3>1 DEF ClientStep, Enter, EnterShared, EnterAlone, Limited, GetTaskCount, Compare,
         Notify, Drain, LockList, Each, EndPauseOrResume, EndResumeForShutdown, EndTerminate,
         EndTerminateRemoved, AddOne, EndAdd, Erase, Join, EndErase
    <3>2. ASSUME NEW w \in Worker, WorkerStep(w) PROVE UNCHANGED accepted
      BY <3>2 DEF WorkerStep, Check, Acquire, Lock, Precheck, Wait, Postcheck, Take, Run
    <3>3. CASE \/ \E c \in Client, o \in Ops : Call(c, o)
               \/ \E c \in Client : SetMaxTaskCount(c)
               \/ SpuriousWake \/ UNCHANGED vars
      BY <3>3 DEF Call, SetMaxTaskCount, SpuriousWake, vars
    <3> QED BY <3>1, <3>2, <3>3 DEF Next
  <2> QED BY <2>1 DEF Push, LInv, Known, Submitting
<1> QED BY <1>1, Locking, PTL DEF Spec, AcceptOnlyRunning

-----------------------------------------------------------------------------
(* The queue as a sequence without repetitions.                            *)

Members(q) == {q[i] : i \in DOMAIN q}
Distinct(q) == \A i, j \in DOMAIN q : q[i] = q[j] => i = j

\* Append adds one member, and no repetition if it is new.
LEMMA AppendMembers ==
    ASSUME NEW S, NEW q \in Seq(S), NEW t \in S
    PROVE /\ Members(Append(q, t)) = Members(q) \cup {t}
          /\ Distinct(q) /\ t \notin Members(q) => Distinct(Append(q, t))
<1> DEFINE a == Append(q, t)
<1>1. /\ DOMAIN q = 1 .. Len(q) /\ DOMAIN a = 1 .. Len(q) + 1 /\ Len(q) \in Nat
      /\ \A i \in DOMAIN q : a[i] = q[i]
      /\ a[Len(q) + 1] = t
  OBVIOUS
<1> HIDE DEF a
<1>2. Members(a) \subseteq Members(q) \cup {t}
  BY <1>1 DEF Members
<1>3. Members(q) \subseteq Members(a) /\ t \in Members(a)
  BY <1>1 DEF Members
<1>4. ASSUME Distinct(q), t \notin Members(q), NEW i \in DOMAIN a, NEW j \in DOMAIN a,
             a[i] = a[j]
      PROVE i = j
  <2>1. \A k \in DOMAIN a : k \in DOMAIN q \/ k = Len(q) + 1
    BY <1>1
  <2>2. \A k \in DOMAIN q : q[k] # t
    BY <1>4 DEF Members
  <2> QED BY <1>1, <1>4, <2>1, <2>2 DEF Distinct
<1> QED BY <1>2, <1>3, <1>4 DEF Distinct, a

\* Tail removes one member, when there are no repetitions.
LEMMA TailMembers ==
    ASSUME NEW S, NEW q \in Seq(S), q # <<>>, Distinct(q)
    PROVE /\ Head(q) \in S /\ Head(q) \in Members(q)
          /\ Members(Tail(q)) = Members(q) \ {Head(q)}
          /\ Distinct(Tail(q))
<1> DEFINE b == Tail(q)
           n == Len(q)
<1>1. /\ n \in Nat /\ n >= 1 /\ DOMAIN q = 1 .. n /\ DOMAIN b = 1 .. n - 1
      /\ \A i \in DOMAIN b : b[i] = q[i + 1]
      /\ Head(q) = q[1] /\ q[1] \in S
  OBVIOUS
<1> HIDE DEF b, n
<1>2. Head(q) \in Members(q)
  BY <1>1 DEF Members
<1>3. Members(b) \subseteq Members(q) \ {Head(q)}
  <2>1. ASSUME NEW i \in DOMAIN b PROVE b[i] \in Members(q) /\ b[i] # q[1]
    <3>1. i + 1 \in DOMAIN q /\ 1 \in DOMAIN q /\ i + 1 # 1
      BY <1>1
    <3> QED BY <1>1, <3>1 DEF Members, Distinct
  <2> QED BY <1>1, <2>1 DEF Members
<1>4. Members(q) \ {Head(q)} \subseteq Members(b)
  <2>1. ASSUME NEW i \in DOMAIN q, i # 1 PROVE q[i] \in Members(b)
    <3>1. i \in Nat /\ 1 <= i /\ i <= n
      BY <1>1
    <3>2. i - 1 \in DOMAIN b
      BY <1>1, <2>1, <3>1
    <3>3. b[i - 1] = q[(i - 1) + 1] /\ (i - 1) + 1 = i
      BY <1>1, <3>1, <3>2
    <3> QED BY <3>2, <3>3 DEF Members
  <2> QED BY <1>1, <2>1 DEF Members
<1>5. Distinct(b)
  <2>1. ASSUME NEW i \in DOMAIN b, NEW j \in DOMAIN b, b[i] = b[j] PROVE i = j
    <3>1. i + 1 \in DOMAIN q /\ j + 1 \in DOMAIN q /\ i \in Nat /\ j \in Nat
      BY <1>1
    <3> QED BY <1>1, <2>1, <3>1 DEF Distinct
  <2> QED BY <2>1 DEF Distinct
<1> QED BY <1>1, <1>2, <1>3, <1>4, <1>5 DEF b

-----------------------------------------------------------------------------
(* What makes a submitted task new, and the hands that take it empty.      *)

IdleHasNone == \A w \in Worker : wpc[w] # "run" => wtask[w] = NoTask

FreshTasks ==
    /\ \A t \in accepted : t <= calls
    /\ \A c \in Client : op[c] = "submit" =>
          arg[c] <= calls /\ (pc[c] # "notify" => arg[c] \notin accepted)
    /\ \A c, d \in Client :
          op[c] = "submit" /\ op[d] = "submit" /\ arg[c] = arg[d] => c = d

\* A step that moves no task.
Untouched ==
    /\ UNCHANGED <<tasks, wtask>>
    /\ \A w \in Worker : wpc[w] = "run" => wpc'[w] = "run"

\* Tasks move in three ways only.
LEMMA TaskView ==
    ASSUME TInv, [Next]_vars
    PROVE \/ Untouched
          \/ \E c \in Client : Push(c)
          \/ \E w \in Worker : Take(w) \/ Run(w)
<1> USE DEF tasks, workers
<1>0. wpc \in [Worker -> WorkerPcs]
  BY DEF TInv, TypeOK
<1>1. SUFFICES ASSUME \A c \in Client : ~ Push(c),
                      \A w \in Worker : ~ Take(w) /\ ~ Run(w)
               PROVE Untouched
  OBVIOUS
<1>2. UNCHANGED <<tasks, wtask>>
  <2>1. ASSUME NEW c \in Client, ClientStep(c) PROVE UNCHANGED <<tasks, wtask>>
    BY <1>1, <2>1 DEF ClientStep, Enter, EnterShared, EnterAlone, Limited, GetTaskCount,
       Compare, Notify, Drain, LockList, Each, EndPauseOrResume, EndResumeForShutdown,
       EndTerminate, EndTerminateRemoved, AddOne, EndAdd, Erase, Join, EndErase
  <2>2. ASSUME NEW w \in Worker, WorkerStep(w) PROVE UNCHANGED <<tasks, wtask>>
    BY <1>1, <2>2 DEF WorkerStep, Check, Acquire, Lock, Precheck, Wait, Postcheck
  <2>3. CASE \/ \E c \in Client, o \in Ops : Call(c, o)
             \/ \E c \in Client : SetMaxTaskCount(c)
             \/ SpuriousWake \/ UNCHANGED vars
    BY <2>3 DEF Call, SetMaxTaskCount, SpuriousWake, vars
  <2> QED BY <2>1, <2>2, <2>3 DEF Next
<1>3. \A w \in Worker : wpc[w] = "run" => wpc'[w] = "run"
  <2>1. ASSUME NEW w \in Worker, WorkerStep(w)
        PROVE \E p \in WorkerPcs : wpc[w] # "run" /\ wpc' = [wpc EXCEPT ![w] = p]
    <3> USE DEF WorkerPcs, SemPcs
    <3>1. CASE Check(w)
      BY <3>1 DEF Check, AfterCheck
    <3>2. CASE Acquire(w)
      BY <3>2 DEF Acquire, AfterAcquire
    <3>3. CASE Lock(w)
      BY <3>3 DEF Lock, AfterLock, TestQueue
    <3>4. CASE Precheck(w)
      BY <3>4 DEF Precheck, AfterPrecheck
    <3>5. CASE Wait(w)
      BY <3>5 DEF Wait
    <3>6. CASE Postcheck(w)
      BY <3>6 DEF Postcheck, AfterPostcheck, TestQueue
    <3> QED BY <1>1, <2>1, <3>1, <3>2, <3>3, <3>4, <3>5, <3>6 DEF WorkerStep
  <2>2. ASSUME NEW w \in Worker, WorkerStep(w) PROVE \A v \in Worker : wpc[v] = "run" => wpc'[v] = "run"
    BY <1>0, <2>1, <2>2
  <2>3. CASE Wakes
    BY <2>3 DEF Wakes
  <2>4. ASSUME NEW w \in Worker, Starts(w) PROVE \A v \in Worker : wpc[v] = "run" => wpc'[v] = "run"
    BY <1>0, <2>4 DEF Starts
  <2> QED BY <2>2, <2>3, <2>4, WorkerView
<1> QED BY <1>2, <1>3 DEF Untouched

\* A task identity is given when a submit begins, and kept until it returns.
LEMMA CallView ==
    ASSUME TInv, LInv, [Next]_vars
    PROVE \/ \E c \in Client : Call(c, "submit")
          \/ /\ calls <= calls'
             /\ \A c \in Client : op'[c] = "submit" =>
                   /\ op[c] = "submit" /\ arg'[c] = arg[c]
                   /\ pc[c] = "notify" => pc'[c] = "notify"
<1> USE DEF bounds, locals, workers
<1>0. TypeOK
  BY DEF TInv
<1>1. ASSUME NEW c \in Client, NEW o \in Ops, Call(c, o), o # "submit"
      PROVE /\ calls <= calls'
            /\ \A d \in Client : op'[d] = "submit" =>
                  op[d] = "submit" /\ arg'[d] = arg[d] /\ (pc[d] = "notify" => pc'[d] = "notify")
  BY <1>0, <1>1 DEF Call, TypeOK
<1>2. ASSUME NEW c \in Client, SetMaxTaskCount(c)
      PROVE calls <= calls' /\ UNCHANGED <<op, arg, pc>>
  BY <1>0, <1>2 DEF SetMaxTaskCount, TypeOK
<1>3. ASSUME NEW c \in Client, ClientStep(c)
      PROVE /\ calls' = calls
            /\ \A d \in Client : op'[d] = "submit" =>
                  op[d] = "submit" /\ arg'[d] = arg[d] /\ (pc[d] = "notify" => pc'[d] = "notify")
  <2>0. calls' = calls /\ calls <= calls
    BY <1>0, <1>3 DEF TypeOK, ClientStep, Enter, EnterShared, EnterAlone, Limited, GetTaskCount,
       Compare, Push, Notify, Drain, LockList, Each, EndPauseOrResume, EndResumeForShutdown,
       EndTerminate, EndTerminateRemoved, AddOne, EndAdd, Erase, Join, EndErase
  <2>1. CASE AddOne(c)
    <3>1. op[c] # "submit" /\ UNCHANGED <<op, pc>> /\ arg' = [arg EXCEPT ![c] = @ - 1]
      BY <2>1 DEF AddOne, LInv, Places
    <3> QED BY <1>0, <2>0, <3>1 DEF TypeOK
  <2>2. CASE ~ AddOne(c)
    <3>1. UNCHANGED arg
      BY <1>3, <2>2 DEF ClientStep, Enter, EnterShared, EnterAlone, Limited, GetTaskCount,
         Compare, Push, Notify, Drain, LockList, Each, EndPauseOrResume, EndResumeForShutdown,
         EndTerminate, EndTerminateRemoved, EndAdd, Erase, Join, EndErase
    <3>2. op' = op \/ \E o \in {"destroy", "none"} : op' = [op EXCEPT ![c] = o]
      BY <1>3, <2>2 DEF ClientStep, Enter, EnterShared, EnterAlone, NothingToDo, EnterExclusive,
         Limited, GetTaskCount,
         Compare, Push, Notify, Drain, LockList, Each, EndPauseOrResume, EndResumeForShutdown,
         EndTerminate, EndTerminateRemoved, EndAdd, Erase, Join, EndErase, Return, Leave
    <3>3. pc' = pc \/ \E p \in ClientPcs : pc' = [pc EXCEPT ![c] = p]
      <4>1. CASE Enter(c)
        BY <4>1 DEF Enter, EnterShared, Leave, ClientPcs
      <4>2. CASE EnterAlone(c)
        BY <4>2 DEF EnterAlone, NothingToDo, EnterExclusive, Leave, ClientPcs
      <4>3. CASE Limited(c) \/ GetTaskCount(c) \/ Compare(c) \/ Push(c) \/ Notify(c)
        BY <4>3 DEF Limited, GetTaskCount, Compare, Push, Notify, Return, Leave, ClientPcs
      <4>4. CASE Drain(c) \/ LockList(c) \/ Each(c) \/ EndPauseOrResume(c)
        BY <4>4 DEF Drain, LockList, Each, EndPauseOrResume, Return, Leave, ClientPcs
      <4>5. CASE EndResumeForShutdown(c) \/ EndTerminate(c) \/ EndTerminateRemoved(c)
        BY <4>5 DEF EndResumeForShutdown, EndTerminate, EndTerminateRemoved, Return, Leave, ClientPcs
      <4>6. CASE EndAdd(c) \/ Erase(c) \/ Join(c) \/ EndErase(c)
        BY <4>6 DEF EndAdd, Erase, Join, EndErase, Return, Leave, ClientPcs
      <4> QED BY <1>3, <2>2, <4>1, <4>2, <4>3, <4>4, <4>5, <4>6 DEF ClientStep
    <3>4. pc[c] = "notify" => op'[c] # "submit"
      <4> SUFFICES ASSUME pc[c] = "notify" PROVE op'[c] # "submit"
        OBVIOUS
      <4>1. Notify(c)
        BY <1>3 DEF ClientStep, Enter, EnterShared, EnterAlone, Limited, GetTaskCount,
           Compare, Push, Drain, LockList, Each, EndPauseOrResume, EndResumeForShutdown,
           EndTerminate, EndTerminateRemoved, AddOne, EndAdd, Erase, Join, EndErase
      <4> QED BY <1>0, <4>1 DEF Notify, Return, Leave, TypeOK
    <3> QED BY <1>0, <2>0, <3>1, <3>2, <3>3, <3>4 DEF TypeOK
  <2> QED BY <2>1, <2>2
<1>4. ASSUME NEW w \in Worker, WorkerStep(w)
      PROVE UNCHANGED <<op, arg, calls>> /\ \A d \in Client : pc[d] = "notify" => pc'[d] = "notify"
  <2>1. CASE Take(w)
    BY <1>0, <2>1 DEF Take, WokenDrainers, TypeOK
  <2>2. CASE ~ Take(w)
    BY <1>4, <2>2 DEF WorkerStep, Check, Acquire, Lock, Precheck, Wait, Postcheck, Run
  <2> QED BY <2>1, <2>2
<1>5. CASE SpuriousWake
  BY <1>0, <1>5 DEF SpuriousWake, TypeOK
<1>6. CASE UNCHANGED vars
  BY <1>0, <1>6 DEF vars, TypeOK
<1>7. calls <= calls
  BY <1>0 DEF TypeOK
<1> QED BY <1>1, <1>2, <1>3, <1>4, <1>5, <1>6, <1>7 DEF Next

-----------------------------------------------------------------------------
(* Every task is in one place.                                             *)

CInv == IdleHasNone /\ FreshTasks /\ TaskConservation

\* Tasks that do not move stay where they are.
LEMMA UntouchedKeeps ==
    ASSUME TInv, TaskConservation, Untouched
    PROVE TaskConservation'
BY DEF TaskConservation, Untouched, tasks, Queued, Running

\* A new task goes to the queue and is nowhere else.
LEMMA PushKeeps ==
    ASSUME TInv, LInv, CInv, NEW c \in Client, Push(c)
    PROVE /\ arg[c] \in Task /\ arg[c] \notin accepted
          /\ task_queue' = Append(task_queue, arg[c])
          /\ UNCHANGED <<wtask, wpc, done, status>>
          /\ TaskConservation'
<1>1. arg[c] \in Task /\ arg[c] \notin accepted /\ task_queue \in Seq(Task)
  BY DEF Push, TInv, TypeOK, SubmitsATask, Submitting, CInv, FreshTasks
<1>2. /\ task_queue' = Append(task_queue, arg[c]) /\ accepted' = accepted \cup {arg[c]}
      /\ UNCHANGED <<wtask, wpc, done, status>>
  BY DEF Push, Pushed, workers, pool
<1>3. TaskConservation'
  <2>1. Queued = Members(task_queue) /\ Queued' = Members(task_queue')
    BY DEF Queued, Members
  <2>2. Distinct(task_queue) /\ accepted = Queued \cup Running \cup done
    BY DEF CInv, TaskConservation, Distinct
  <2>3. Queued' = Queued \cup {arg[c]} /\ Distinct(task_queue')
    BY <1>1, <1>2, <2>1, <2>2, AppendMembers
  <2>4. Running' = Running
    BY <1>2 DEF Running
  <2> QED BY <1>1, <1>2, <2>2, <2>3, <2>4 DEF CInv, TaskConservation, Distinct
<1> QED BY <1>1, <1>2, <1>3

\* The head of the queue goes to hands that were empty.
LEMMA TakeKeeps ==
    ASSUME TInv, CInv, NEW w \in Worker, Take(w)
    PROVE /\ task_queue # <<>> /\ task_queue' = Tail(task_queue)
          /\ Running' = Running \cup {Head(task_queue)}
          /\ UNCHANGED <<accepted, done, status>>
          /\ TaskConservation'
<1> USE DEF TInv, TypeOK, NoTask, Task
<1>1. task_queue # <<>> /\ task_queue \in Seq(Task) /\ wtask[w] = NoTask
  BY DEF Take, TakesATask, CInv, IdleHasNone
<1>2. /\ task_queue' = Tail(task_queue) /\ wtask' = [wtask EXCEPT ![w] = Head(task_queue)]
      /\ UNCHANGED <<accepted, done, status>>
  BY DEF Take, Popped, pool
<1>3. Queued = Members(task_queue) /\ Queued' = Members(task_queue') /\ Distinct(task_queue)
  BY DEF Queued, Members, CInv, TaskConservation, Distinct
<1>4. /\ Head(task_queue) \in Task /\ Head(task_queue) \in Queued
      /\ Queued' = Queued \ {Head(task_queue)} /\ Distinct(task_queue')
  BY <1>1, <1>2, <1>3, TailMembers
<1>5. Running' = Running \cup {Head(task_queue)}
  BY <1>1, <1>2, <1>4 DEF Running
<1>6. \A v \in Worker : wtask[v] # Head(task_queue)
  <2>1. Head(task_queue) \notin Running
    BY <1>4 DEF CInv, TaskConservation
  <2> QED BY <1>4, <2>1 DEF Running
<1>7. TaskConservation'
  <2>1. \A u, v \in Worker : wtask'[u] = wtask'[v] /\ wtask'[u] # NoTask => u = v
    BY <1>2, <1>6 DEF CInv, TaskConservation
  <2> QED BY <1>2, <1>4, <1>5, <2>1 DEF CInv, TaskConservation, Distinct
<1> QED BY <1>1, <1>2, <1>5, <1>7

\* A task that returns leaves the hands of its only holder.
LEMMA RunKeeps ==
    ASSUME TInv, CInv, NEW w \in Worker, Run(w)
    PROVE /\ wtask[w] \in Running
          /\ Running' = Running \ {wtask[w]} /\ done' = done \cup {wtask[w]}
          /\ UNCHANGED <<task_queue, accepted, status>>
          /\ TaskConservation'
<1> USE DEF TInv, TypeOK, NoTask, Task
<1>1. wtask[w] \in Task /\ wtask[w] # NoTask
  BY DEF Run, RunsATask
<1>2. /\ done' = done \cup {wtask[w]} /\ wtask' = [wtask EXCEPT ![w] = NoTask]
      /\ UNCHANGED <<task_queue, accepted, status>>
  BY DEF Run, pool
<1>3. \A v \in Worker : wtask[v] = wtask[w] => v = w
  BY <1>1 DEF CInv, TaskConservation
<1>4. wtask[w] \in Running
  BY <1>1 DEF Running
<1>5. Running' = Running \ {wtask[w]}
  BY <1>1, <1>2, <1>3 DEF Running
<1>6. Queued' = Queued
  BY <1>2 DEF Queued
<1>7. TaskConservation'
  <2>1. \A u, v \in Worker : wtask'[u] = wtask'[v] /\ wtask'[u] # NoTask => u = v
    BY <1>2 DEF CInv, TaskConservation
  <2> QED BY <1>2, <1>4, <1>5, <1>6, <2>1 DEF CInv, TaskConservation
<1> QED BY <1>2, <1>4, <1>5, <1>7

\* Tasks are conserved in every reachable state.
LEMMA Conserving == Spec => [](TInv /\ LInv /\ CInv)
<1>1. Init => CInv
  BY DEF Init, CInv, IdleHasNone, FreshTasks, TaskConservation, Queued, Running
<1>2. TInv /\ LInv /\ CInv /\ [Next]_vars => CInv'
  <2> SUFFICES ASSUME TInv, LInv, CInv, [Next]_vars PROVE CInv'
    OBVIOUS
  <2>0. TypeOK /\ IdleHasNone /\ FreshTasks /\ TaskConservation
    BY DEF TInv, CInv
  <2>1. CASE Untouched
    <3>1. IdleHasNone'
      BY <2>0, <2>1 DEF Untouched, IdleHasNone
    <3>2. TaskConservation'
      BY <2>0, <2>1, UntouchedKeeps
    <3>3. FreshTasks'
      <4>1. accepted' = accepted /\ \A t \in accepted : t \in Nat
        BY <2>0, <2>1 DEF Untouched, tasks, TypeOK, Task
      <4>2. ASSUME NEW c \in Client, Call(c, "submit") PROVE FreshTasks'
        <5>1. arg' = [arg EXCEPT ![c] = calls + 1] /\ op' = [op EXCEPT ![c] = "submit"]
              /\ calls' = calls + 1 /\ pc' = [pc EXCEPT ![c] = "status"]
          BY <4>2 DEF Call, Arguments
        <5>2. calls \in Nat /\ \A t \in accepted' : t <= calls'
          BY <2>0, <4>1, <5>1 DEF TypeOK, FreshTasks
        <5>3. calls + 1 \notin accepted
          BY <2>0, <4>1, <5>2 DEF FreshTasks
        <5>4. \A d \in Client : op[d] = "submit" => arg[d] <= calls /\ arg[d] # calls + 1
          BY <2>0, <5>2 DEF FreshTasks, TypeOK
        <5>5. \A d \in Client : op'[d] = "submit" =>
                arg'[d] <= calls' /\ (pc'[d] # "notify" => arg'[d] \notin accepted')
          BY <2>0, <4>1, <5>1, <5>2, <5>3, <5>4 DEF FreshTasks, TypeOK
        <5>6. \A d, e \in Client :
                op'[d] = "submit" /\ op'[e] = "submit" /\ arg'[d] = arg'[e] => d = e
          BY <2>0, <5>1, <5>4 DEF FreshTasks, TypeOK
        <5> QED BY <5>2, <5>5, <5>6 DEF FreshTasks
      <4>3. CASE /\ calls <= calls'
                 /\ \A c \in Client : op'[c] = "submit" =>
                       /\ op[c] = "submit" /\ arg'[c] = arg[c]
                       /\ pc[c] = "notify" => pc'[c] = "notify"
        <5>1. calls \in Nat /\ calls' \in Nat
          <6>1. calls' \in {calls, calls + 1}
            BY DEF Next, vars, bounds, Call, SetMaxTaskCount, SpuriousWake, ClientStep, Enter,
               EnterShared, EnterAlone, Limited, GetTaskCount, Compare, Push, Notify, Drain,
               LockList, Each, EndPauseOrResume, EndResumeForShutdown, EndTerminate,
               EndTerminateRemoved, AddOne, EndAdd, Erase, Join, EndErase, WorkerStep, Check,
               Acquire, Lock, Precheck, Wait, Postcheck, Take, Run
          <6> QED BY <2>0, <6>1 DEF TypeOK
        <5>2. \A t \in accepted' : t <= calls'
          BY <2>0, <4>1, <4>3, <5>1 DEF FreshTasks
        <5>3. \A c \in Client : op'[c] = "submit" => arg'[c] \in Nat
          BY <2>0, <4>3 DEF TypeOK
        <5> QED BY <2>0, <4>1, <4>3, <5>1, <5>2, <5>3 DEF FreshTasks
      <4> QED BY <4>2, <4>3, CallView
    <3> QED BY <3>1, <3>2, <3>3 DEF CInv
  <2>2. ASSUME NEW c \in Client, Push(c) PROVE CInv'
    <3>1. /\ accepted' = accepted \cup {arg[c]} /\ UNCHANGED <<op, arg, calls>>
          /\ pc' = [pc EXCEPT ![c] = "notify"] /\ op[c] = "submit"
      BY <2>2 DEF Push, locals, bounds, TInv, SubmitsATask, Submitting
    <3>2. IdleHasNone'
      BY <2>0, <2>2, PushKeeps DEF IdleHasNone
    <3>3. FreshTasks'
      BY <2>0, <3>1 DEF FreshTasks, TypeOK
    <3> QED BY <2>2, <3>2, <3>3, PushKeeps DEF CInv
  <2>3. ASSUME NEW w \in Worker, Take(w) \/ Run(w) PROVE CInv'
    <3>1. /\ UNCHANGED <<accepted, op, arg, calls>>
          /\ \A c \in Client : pc[c] = "notify" => pc'[c] = "notify"
      BY <2>0, <2>3 DEF Take, Run, WokenDrainers, locals, bounds, TypeOK
    <3>2. FreshTasks'
      BY <2>0, <3>1 DEF FreshTasks
    <3>3. IdleHasNone'
      <4>1. CASE Take(w)
        BY <2>0, <4>1 DEF Take, IdleHasNone, TypeOK
      <4>2. CASE Run(w)
        BY <2>0, <4>2 DEF Run, IdleHasNone, TypeOK
      <4> QED BY <2>3, <4>1, <4>2
    <3> QED BY <2>3, <3>2, <3>3, TakeKeeps, RunKeeps DEF CInv
  <2> QED BY <2>1, <2>2, <2>3, TaskView
<1>3. QED
  BY <1>1, <1>2, Locking, PTL DEF Spec

\* Every accepted task is in exactly one place, the queue, one worker's hands
\* or among the finished (thread_pool.h:150-185, worker_thread.cpp:31-159).
THEOREM TasksConserved == Spec => []TaskConservation
<1>1. CInv => TaskConservation
  BY DEF CInv
<1> QED BY <1>1, Conserving, PTL

-----------------------------------------------------------------------------
(* The refinement.                                                         *)

ClosedStatus == {"SHUTDOWN", "TERMINATING", "TERMINATED"}

\* How a step may change the status of the pool.
ModeStep ==
    \/ UNCHANGED status
    \/ status = "RUNNING" /\ status' = "PAUSED"
    \/ status = "PAUSED" /\ status' = "RUNNING"
    \/ status' \in ClosedStatus

\* The status moves by calls that move no task.
LEMMA StatusView ==
    ASSUME TInv, [Next]_vars, Untouched
    PROVE ModeStep
<1> USE DEF pool, ModeStep, ClosedStatus
<1>1. ASSUME NEW c \in Client, EnterAlone(c) PROVE ModeStep
  BY <1>1 DEF EnterAlone, EnterExclusive, NothingToDo
<1>2. ASSUME NEW c \in Client, Drain(c) \/ EndResumeForShutdown(c) \/ EndTerminate(c)
      PROVE ModeStep
  BY <1>2 DEF Drain, EndResumeForShutdown, EndTerminate, FinalStatus
<1>3. ASSUME NEW c \in Client, ClientStep(c), ~ EnterAlone(c),
             ~ (Drain(c) \/ EndResumeForShutdown(c) \/ EndTerminate(c))
      PROVE UNCHANGED status
  BY <1>3 DEF ClientStep, Enter, EnterShared, Limited, GetTaskCount, Compare, Push, Notify,
     LockList, Each, EndPauseOrResume, EndTerminateRemoved, AddOne, EndAdd, Erase, Join, EndErase
<1>4. ASSUME NEW w \in Worker, WorkerStep(w) PROVE UNCHANGED status
  BY <1>4 DEF WorkerStep, Check, Acquire, Lock, Precheck, Wait, Postcheck, Take, Run
<1>5. CASE \/ \E c \in Client, o \in Ops : Call(c, o)
           \/ \E c \in Client : SetMaxTaskCount(c)
           \/ SpuriousWake \/ UNCHANGED vars
  BY <1>5 DEF Call, SetMaxTaskCount, SpuriousWake, vars
<1> QED BY <1>1, <1>2, <1>3, <1>4, <1>5 DEF Next

\* The pool implements TaskExecutor: under every operation of its interface it
\* accepts only while RUNNING, starts tasks in the order of their acceptance,
\* each at most once, and never reopens once it is shut down.
THEOREM Refines == Spec => ExecutesTasks
<1> DEFINE Mode == CASE status = "RUNNING" -> "open" [] status = "PAUSED" -> "held"
                     [] OTHER -> "closed"
<1>1. Init => Executor!Init
  BY DEF Init, Executor!Init, Running
<1>2. TInv /\ LInv /\ CInv /\ [Next]_vars => [Executor!Next]_(Executor!vars)
  <2> SUFFICES ASSUME TInv, LInv, CInv, [Next]_vars
               PROVE Executor!Next \/ UNCHANGED Executor!vars
    OBVIOUS
  <2>0. accepted = Members(task_queue) \cup Running \cup done
    BY DEF CInv, TaskConservation, Queued, Members
  <2>1. CASE Untouched
    <3>1. UNCHANGED <<task_queue, done>> /\ Running' = Running
      BY <2>1 DEF Untouched, tasks, Running
    <3>2. ModeStep
      BY <2>1, StatusView
    <3>3. CASE UNCHANGED status
      BY <3>1, <3>3 DEF Executor!vars
    <3>4. CASE status = "RUNNING" /\ status' = "PAUSED"
      <4>1. Executor!Hold
        BY <3>1, <3>4 DEF Executor!Hold
      <4> QED BY <4>1 DEF Executor!Next
    <3>5. CASE status = "PAUSED" /\ status' = "RUNNING"
      <4>1. Executor!Reopen
        BY <3>1, <3>5 DEF Executor!Reopen
      <4> QED BY <4>1 DEF Executor!Next
    <3>6. CASE status' \in ClosedStatus
      <4>1. CASE status \in {"RUNNING", "PAUSED"}
        <5>1. Executor!Close
          BY <3>1, <3>6, <4>1 DEF Executor!Close, ClosedStatus
        <5> QED BY <5>1 DEF Executor!Next
      <4>2. CASE status \notin {"RUNNING", "PAUSED"}
        BY <3>1, <3>6, <4>2 DEF Executor!vars, ClosedStatus
      <4> QED BY <4>1, <4>2
    <3> QED BY <3>2, <3>3, <3>4, <3>5, <3>6 DEF ModeStep
  <2>2. ASSUME NEW c \in Client, Push(c) PROVE Executor!Next
    <3>1. status = "RUNNING"
      BY <2>2 DEF Push, LInv, Known, Submitting
    <3>2. ~ Executor!Known(arg[c])
      BY <2>0, <2>2, PushKeeps DEF Executor!Known, Members
    <3>3. Executor!Accept(arg[c])
      BY <2>2, <3>1, <3>2, PushKeeps DEF Executor!Accept, Running
    <3> QED BY <2>2, <3>3, PushKeeps DEF Executor!Next
  <2>3. ASSUME NEW w \in Worker, Take(w) PROVE Executor!Next
    <3>1. Executor!Start
      BY <2>3, TakeKeeps DEF Executor!Start
    <3> QED BY <3>1 DEF Executor!Next
  <2>4. ASSUME NEW w \in Worker, Run(w) PROVE Executor!Next
    <3>1. wtask[w] \in Task
      BY <2>4 DEF Run, TInv, RunsATask
    <3>2. Executor!Finish(wtask[w])
      BY <2>4, RunKeeps DEF Executor!Finish
    <3> QED BY <3>1, <3>2 DEF Executor!Next
  <2> QED BY <2>1, <2>2, <2>3, <2>4, TaskView
<1> QED BY <1>1, <1>2, Conserving, PTL DEF Spec, ExecutesTasks, Executor!Spec

=============================================================================
