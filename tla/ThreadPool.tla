----------------------------- MODULE ThreadPool -----------------------------
(***************************************************************************)
(* The thread pool of week9/EnhancedSocketServer (thread_pool.h,           *)
(* thread_pool.cpp, worker_thread.cpp): client threads submit tasks and    *)
(* pause, resume, resize, drain, terminate and destroy the pool while its  *)
(* worker threads take tasks from the queue.                               *)
(*                                                                         *)
(* One action is one critical section of the C++ code, so every place      *)
(* where a thread can be preempted between two locks is a state here.  The *)
(* status_mutex of a single worker is held only inside such a section and  *)
(* needs no variable.                                                      *)
(***************************************************************************)
EXTENDS Naturals, Sequences, FiniteSets

CONSTANTS
    Client,      \* threads that call the pool
    NoOne,       \* owner of a free lock
    Ops,         \* the calls the clients make
    InitThreads, \* initial_thread_count of the constructor
    MaxThreads,  \* threads the operating system lets the pool start, ever
    Batches,     \* arguments of add_thread and remove_thread
    InitLimit,   \* max_task_count of the constructor, 0: no limit
    Limits,      \* arguments of set_max_task_count
    MaxCalls,    \* bound on the number of calls (and of task identities)
    MaxSpurious  \* bound on spurious wakeups of the condition variables

SharedOps == {"submit", "wait", "add", "remove"}
ExclusiveOps == {"pause", "resume", "shutdown", "terminate", "destroy", "close"}

Worker == 1 .. MaxThreads       \* in the order of their creation
Task == 1 .. MaxCalls           \* a task is named by the call that brings it
NoTask == 0

ASSUME PoolAssumption ==
    /\ InitThreads \in Nat /\ MaxThreads \in Nat /\ InitThreads <= MaxThreads
    /\ InitLimit \in Nat /\ Limits \subseteq Nat /\ Batches \subseteq Nat
    /\ MaxCalls \in Nat /\ MaxSpurious \in Nat
    /\ Ops \subseteq SharedOps \cup ExclusiveOps
    /\ NoOne \notin Client \cup Worker
    /\ Client \cap Worker = {}

ASSUME FinitelyMany == IsFiniteSet(Client)

VARIABLES
    status, max_task_count,                    \* members of thread_pool
    status_writer, status_readers,             \* status_mutex
    list_writer,                               \* worker_list_mutex
    queue_writer, queue_readers,               \* task_queue_mutex
    task_queue, accepted, done,                \* tasks: queued, ever queued, run
    worker_list, created,                      \* worker_list, threads started
    wstatus, sem, wpc, wtask,                  \* per worker_thread
    pc, op, arg, seen, todo,                   \* per client
    calls, spurious                            \* what the bounds count

pool == <<status, max_task_count>>
locks == <<status_writer, status_readers, list_writer, queue_writer, queue_readers>>
tasks == <<task_queue, accepted, done>>
list == <<worker_list, created>>
workers == <<wstatus, sem, wpc, wtask>>
locals == <<arg, seen, todo>>
bounds == <<calls, spurious>>
vars == <<pool, locks, tasks, list, workers, pc, op, locals, bounds>>

Init ==
    /\ status = "RUNNING" /\ max_task_count = InitLimit
    /\ status_writer = NoOne /\ status_readers = {} /\ list_writer = NoOne
    /\ queue_writer = NoOne /\ queue_readers = {}
    /\ task_queue = <<>> /\ accepted = {} /\ done = {}
    /\ worker_list = 1 .. InitThreads /\ created = InitThreads
    /\ wstatus = [w \in Worker |-> "RUNNING"]
    /\ sem = [w \in Worker |-> 0]
    /\ wpc = [w \in Worker |-> IF w <= InitThreads THEN "check" ELSE "unborn"]
    /\ wtask = [w \in Worker |-> NoTask]
    /\ pc = [c \in Client |-> "idle"]
    /\ op = [c \in Client |-> "none"]
    /\ arg = [c \in Client |-> 0]
    /\ seen = [c \in Client |-> 0]
    /\ todo = [c \in Client |-> {}]
    /\ calls = 0 /\ spurious = 0

-----------------------------------------------------------------------------
(* Locks, condition variables and the pause semaphore.                     *)

\* Definitions named Mut... are the faulty variants a reviewer might fear; no
\* specification uses them.  Each stands before the definition it spoils.
QueueFree == queue_writer = NoOne /\ queue_readers = {}

MutWokenAll == wpc                                   \* notify_all forgotten
\* What the wait set of task_queue_cv becomes: all of it, or one of it, wakes.
WokenAll == [w \in Worker |-> IF wpc[w] = "waiting" THEN "relock_post" ELSE wpc[w]]
MutNotifyOne == UNCHANGED wpc                        \* notify_one forgotten
NotifyOne ==
    \/ \E w \in Worker : wpc[w] = "waiting" /\ wpc' = [wpc EXCEPT ![w] = "relock_post"]
    \/ (\A w \in Worker : wpc[w] # "waiting") /\ UNCHANGED wpc

MutWokenDrainers == pc                               \* the drainers forgotten
\* Clients asleep on task_queue_empty_cv test the queue again.
WokenDrainers == [c \in Client |-> IF pc[c] = "drain_wait" THEN "drain" ELSE pc[c]]

\* pause_sem.release().  Releasing a binary_semaphore that is already 1 is
\* undefined: the count saturates or grows, as the standard library chose.
Release(w) == \E n \in {1, sem[w] + 1} : sem' = [sem EXCEPT ![w] = n]

\* The locks a client still holds are released when its guards go out of scope.
UnlockAll(c) ==
    /\ status_writer' = IF status_writer = c THEN NoOne ELSE status_writer
    /\ status_readers' = status_readers \ {c}
    /\ list_writer' = IF list_writer = c THEN NoOne ELSE list_writer
    /\ queue_readers' = queue_readers \ {c}
    /\ UNCHANGED queue_writer

\* ~Server() runs shutdown() and then, with the members, ~thread_pool().
Leave(c) ==
    /\ op' = [op EXCEPT ![c] = IF op[c] = "close" THEN "destroy" ELSE "none"]
    /\ pc' = [pc EXCEPT ![c] = IF op[c] = "close" THEN "status" ELSE "idle"]

Return(c) == UnlockAll(c) /\ Leave(c)

-----------------------------------------------------------------------------
(* worker_thread::pause, resume and terminate, on the worker's status.     *)

WorkerPause(w) ==
    /\ wstatus' = [wstatus EXCEPT
                     ![w] = IF @ \in {"RUNNING", "BLOCKED"} THEN "PAUSED" ELSE @]
    /\ UNCHANGED sem

WorkerResume(w) ==
    \/ /\ wstatus[w] = "PAUSED"
       /\ wstatus' = [wstatus EXCEPT ![w] = "RUNNING"]
       /\ Release(w)
    \/ wstatus[w] # "PAUSED" /\ UNCHANGED <<wstatus, sem>>

MutWorkerTerminate(w) ==                             \* a paused worker not released
    /\ wstatus' = [wstatus EXCEPT ![w] = IF @ = "TERMINATED" THEN @ ELSE "TERMINATING"]
    /\ UNCHANGED sem
WorkerTerminate(w) ==
    /\ wstatus' = [wstatus EXCEPT ![w] = IF @ = "TERMINATED" THEN @ ELSE "TERMINATING"]
    /\ IF wstatus[w] = "PAUSED" THEN Release(w) ELSE UNCHANGED sem

-----------------------------------------------------------------------------
(* The thread of a worker (the lambda of worker_thread's constructor).     *)

\* Every status check ends the thread when it finds TERMINATING or TERMINATED.
StatusAfterExit(s) == IF s = "TERMINATING" THEN "TERMINATED" ELSE s
StopSeen(s) == s \in {"TERMINATING", "TERMINATED"}

\* The check before a task, at the head of the loop.
AfterCheck(s) ==
    CASE StopSeen(s) -> "exited"
      [] s = "PAUSED" -> "sem_check"
      [] s = "RUNNING" -> "lock"
      [] OTHER -> "threw"            \* BLOCKED: "undefined status"

Check(w) ==
    /\ wpc[w] = "check"
    /\ wpc' = [wpc EXCEPT ![w] = AfterCheck(wstatus[w])]
    /\ wstatus' = [wstatus EXCEPT ![w] = StatusAfterExit(@)]
    /\ UNCHANGED <<pool, locks, tasks, list, sem, wtask, pc, op, locals, bounds>>

SemPcs == {"sem_check", "sem_pre", "sem_post"}

MutAfterAcquire(p) == IF p = "sem_check" THEN "lock" ELSE "relock_post"  \* no second check
\* Where the thread goes on when pause_sem.acquire() returns.
AfterAcquire(p) ==
    CASE p = "sem_check" -> "check" [] p = "sem_pre" -> "relock_pre"
      [] OTHER -> "relock_post"

MutTokenReady(w) == TRUE                             \* acquire() that does not block
TokenReady(w) == sem[w] > 0

Acquire(w) ==
    /\ wpc[w] \in SemPcs /\ TokenReady(w)
    /\ sem' = [sem EXCEPT ![w] = @ - 1]
    /\ wpc' = [wpc EXCEPT ![w] = AfterAcquire(wpc[w])]
    /\ UNCHANGED <<pool, locks, tasks, list, wstatus, wtask, pc, op, locals, bounds>>

\* Lock task_queue_mutex: first to look for a task, or again after a sleep.
\* Only the first time, and after postcheck, is task_queue.empty() tested.
TestQueue == IF task_queue = <<>> THEN "precheck" ELSE "take"
AfterLock(p) ==
    CASE p = "lock" -> TestQueue [] p = "relock_pre" -> "precheck" [] OTHER -> "postcheck"

Lock(w) ==
    /\ wpc[w] \in {"lock", "relock_pre", "relock_post"} /\ QueueFree
    /\ queue_writer' = w
    /\ wpc' = [wpc EXCEPT ![w] = AfterLock(wpc[w])]
    /\ UNCHANGED <<pool, status_writer, status_readers, list_writer, queue_readers,
                   tasks, list, wstatus, sem, wtask, pc, op, locals, bounds>>

\* The status checks before and after task_queue_cv.wait, queue locked.
AfterPrecheck(s) ==
    CASE StopSeen(s) -> "exited" [] s = "PAUSED" -> "sem_pre" [] OTHER -> "to_wait"
StatusAfterPrecheck(s) == IF s = "RUNNING" THEN "BLOCKED" ELSE StatusAfterExit(s)

Precheck(w) ==
    /\ wpc[w] = "precheck"
    /\ wpc' = [wpc EXCEPT ![w] = AfterPrecheck(wstatus[w])]
    /\ wstatus' = [wstatus EXCEPT ![w] = StatusAfterPrecheck(@)]
    /\ queue_writer' = IF wstatus[w] \in {"RUNNING", "BLOCKED"} THEN w ELSE NoOne
    /\ UNCHANGED <<pool, status_writer, status_readers, list_writer, queue_readers,
                   tasks, list, sem, wtask, pc, op, locals, bounds>>

\* task_queue_cv.wait: unlock and sleep in one step.
Wait(w) ==
    /\ wpc[w] = "to_wait"
    /\ wpc' = [wpc EXCEPT ![w] = "waiting"]
    /\ queue_writer' = NoOne
    /\ UNCHANGED <<pool, status_writer, status_readers, list_writer, queue_readers,
                   tasks, list, wstatus, sem, wtask, pc, op, locals, bounds>>

AfterPostcheck(s) ==
    CASE StopSeen(s) -> "exited" [] s = "PAUSED" -> "sem_post" [] OTHER -> TestQueue
MutStatusAfterPostcheck(s) == StatusAfterExit(s)     \* stays BLOCKED
StatusAfterPostcheck(s) == IF s = "BLOCKED" THEN "RUNNING" ELSE StatusAfterExit(s)

Postcheck(w) ==
    /\ wpc[w] = "postcheck"
    /\ wpc' = [wpc EXCEPT ![w] = AfterPostcheck(wstatus[w])]
    /\ wstatus' = [wstatus EXCEPT ![w] = StatusAfterPostcheck(@)]
    /\ queue_writer' = IF wstatus[w] \in {"RUNNING", "BLOCKED"} THEN w ELSE NoOne
    /\ UNCHANGED <<pool, status_writer, status_readers, list_writer, queue_readers,
                   tasks, list, sem, wtask, pc, op, locals, bounds>>

MutPopped == task_queue                              \* front() without pop()
Popped == Tail(task_queue)

\* Pop a task, tell the drainers when it was the last one, unlock.
Take(w) ==
    /\ wpc[w] = "take"
    /\ wtask' = [wtask EXCEPT ![w] = Head(task_queue)]
    /\ task_queue' = Popped
    /\ pc' = IF Len(task_queue) = 1 THEN WokenDrainers ELSE pc
    /\ queue_writer' = NoOne
    /\ wpc' = [wpc EXCEPT ![w] = "run"]
    /\ UNCHANGED <<pool, status_writer, status_readers, list_writer, queue_readers,
                   accepted, done, list, wstatus, sem, op, locals, bounds>>

\* The task returns (or throws: packaged_task keeps what it throws).
Run(w) ==
    /\ wpc[w] = "run"
    /\ done' = done \cup {wtask[w]}
    /\ wtask' = [wtask EXCEPT ![w] = NoTask]
    /\ wpc' = [wpc EXCEPT ![w] = "check"]
    /\ UNCHANGED <<pool, locks, task_queue, accepted, list, wstatus, sem, pc, op,
                   locals, bounds>>

WorkerStep(w) ==
    \/ Check(w) \/ Acquire(w) \/ Lock(w) \/ Precheck(w) \/ Wait(w)
    \/ Postcheck(w) \/ Take(w) \/ Run(w)

SpuriousWake ==
    /\ spurious < MaxSpurious
    /\ spurious' = spurious + 1
    /\ \/ /\ \E w \in Worker : /\ wpc[w] = "waiting"
                               /\ wpc' = [wpc EXCEPT ![w] = "relock_post"]
          /\ UNCHANGED pc
       \/ /\ \E c \in Client : /\ pc[c] = "drain_wait"
                               /\ pc' = [pc EXCEPT ![c] = "drain"]
          /\ UNCHANGED wpc
    /\ UNCHANGED <<pool, locks, tasks, list, wstatus, sem, wtask, op, locals, calls>>

-----------------------------------------------------------------------------
(* Clients: a call begins.  The owner destroys the pool when nobody else   *)
(* uses it, and nobody uses it afterwards.                                 *)

Destroying == \E c \in Client : op[c] \in {"destroy", "close"}

Arguments(o) ==
    IF o = "submit" THEN {calls + 1} ELSE IF o \in {"add", "remove"} THEN Batches ELSE {0}

Call(c, o) ==
    /\ pc[c] = "idle" /\ calls < MaxCalls /\ ~ Destroying
    /\ o \in {"destroy", "close"} => \A d \in Client : pc[d] = "idle"
    /\ \E n \in Arguments(o) : arg' = [arg EXCEPT ![c] = n]
    /\ pc' = [pc EXCEPT ![c] = "status"]
    /\ op' = [op EXCEPT ![c] = o]
    /\ calls' = calls + 1
    /\ UNCHANGED <<pool, locks, tasks, list, workers, seen, todo, spurious>>

\* set_max_task_count: one atomic store, no lock.
SetMaxTaskCount(c) ==
    /\ pc[c] = "idle" /\ calls < MaxCalls /\ ~ Destroying
    /\ \E n \in Limits : max_task_count' = n
    /\ calls' = calls + 1
    /\ UNCHANGED <<status, locks, tasks, list, workers, pc, op, locals, spurious>>

\* A shared lock of status_mutex, and the switch over the status: the call
\* goes on to "next", or throws (wait: returns) and leaves no lock behind.
EnterShared(c, allowed, next) ==
    /\ pc[c] = "status" /\ status_writer = NoOne
    /\ IF status \in allowed
       THEN /\ status_readers' = status_readers \cup {c}
            /\ pc' = [pc EXCEPT ![c] = next]
            /\ UNCHANGED op
       ELSE Leave(c) /\ UNCHANGED status_readers
    /\ UNCHANGED <<pool, status_writer, list_writer, queue_writer, queue_readers,
                   tasks, list, workers, locals, bounds>>

MutSubmitAllowed == {"RUNNING", "PAUSED"}
SubmitAllowed == {"RUNNING"}
MutResizeAllowed == {"RUNNING", "SHUTDOWN", "PAUSED"}
ResizeAllowed == {"RUNNING", "SHUTDOWN"}

Enter(c) ==
    \/ op[c] = "submit" /\ EnterShared(c, SubmitAllowed, "limit")
    \/ op[c] = "wait" /\ EnterShared(c, {"RUNNING", "PAUSED", "SHUTDOWN", "TERMINATING"}, "drain")
    \/ op[c] \in {"add", "remove"} /\ EnterShared(c, ResizeAllowed, "list")

-----------------------------------------------------------------------------
(* submit, in the five steps between which another thread can act.         *)

\* max_task_count > 0, read without a lock.
Limited(c) ==
    /\ pc[c] = "limit"
    /\ pc' = [pc EXCEPT ![c] = IF max_task_count > 0 THEN "count" ELSE "push"]
    /\ UNCHANGED <<pool, locks, tasks, list, workers, op, locals, bounds>>

\* get_task_count(), under a shared lock of task_queue_mutex.
GetTaskCount(c) ==
    /\ pc[c] = "count" /\ queue_writer = NoOne
    /\ seen' = [seen EXCEPT ![c] = Len(task_queue)]
    /\ pc' = [pc EXCEPT ![c] = "compare"]
    /\ UNCHANGED <<pool, locks, tasks, list, workers, op, arg, todo, bounds>>

MutFull(n) == n > max_task_count                     \* off by one
\* The count is compared with max_task_count, which is read again.
Full(n) == n >= max_task_count

Compare(c) ==
    /\ pc[c] = "compare"
    /\ seen' = [seen EXCEPT ![c] = 0]
    /\ IF Full(seen[c]) THEN Return(c)
       ELSE pc' = [pc EXCEPT ![c] = "push"] /\ UNCHANGED <<op, locks>>
    /\ UNCHANGED <<pool, tasks, list, workers, arg, todo, bounds>>

MutPushed(t) == <<t>> \o task_queue                  \* a stack
Pushed(t) == Append(task_queue, t)

Push(c) ==
    /\ pc[c] = "push" /\ QueueFree
    /\ task_queue' = Pushed(arg[c])
    /\ accepted' = accepted \cup {arg[c]}
    /\ pc' = [pc EXCEPT ![c] = "notify"]
    /\ UNCHANGED <<pool, locks, done, list, workers, op, locals, bounds>>

Notify(c) ==
    /\ pc[c] = "notify"
    /\ NotifyOne
    /\ Return(c)
    /\ UNCHANGED <<pool, tasks, list, wstatus, sem, wtask, locals, bounds>>

-----------------------------------------------------------------------------
(* wait and shutdown: sleep on task_queue_empty_cv until the queue is      *)
(* empty.  shutdown keeps its shared lock of the queue while it terminates *)
(* the workers.                                                            *)

MutDrained == Len(task_queue) <= 1                   \* the last task forgotten
Drained == task_queue = <<>>

Drain(c) ==
    /\ pc[c] = "drain" /\ queue_writer = NoOne
    /\ UNCHANGED <<max_task_count, tasks, list, workers, locals, bounds>>
    /\ \/ /\ ~ Drained
          /\ pc' = [pc EXCEPT ![c] = "drain_wait"]
          /\ UNCHANGED <<status, op, locks>>
       \/ /\ Drained /\ op[c] = "wait"
          /\ Return(c)
          /\ UNCHANGED status
       \/ /\ Drained /\ op[c] # "wait"
          /\ status' = "TERMINATING"
          /\ queue_readers' = queue_readers \cup {c}
          /\ pc' = [pc EXCEPT ![c] = "list"]
          /\ UNCHANGED <<op, status_writer, status_readers, list_writer, queue_writer>>

-----------------------------------------------------------------------------
(* pause, resume, shutdown, terminate (shutdown_now) and ~thread_pool: an  *)
(* exclusive lock of status_mutex, and the switch over the status.         *)

EnterExclusive(c, newStatus, next) ==
    /\ status' = newStatus
    /\ status_writer' = c
    /\ pc' = [pc EXCEPT ![c] = next]
    /\ UNCHANGED <<op, todo>>

\* The status says there is nothing to do; ~thread_pool goes on to its members.
NothingToDo(c) ==
    /\ UNCHANGED <<status, status_writer>>
    /\ IF op[c] = "destroy"
       THEN pc' = [pc EXCEPT ![c] = "erase"] /\ todo' = [todo EXCEPT ![c] = worker_list]
            /\ UNCHANGED op
       ELSE Leave(c) /\ UNCHANGED todo

MutStatusFree == status_writer = NoOne               \* readers not waited for
StatusFree == status_writer = NoOne /\ status_readers = {}

\* The code names a case for SHUTDOWN and TERMINATING in every switch; with
\* status_mutex alone no call finds them (TransientHidden), so they have none here.
EnterAlone(c) ==
    /\ pc[c] = "status" /\ op[c] \in ExclusiveOps /\ StatusFree
    /\ CASE op[c] = "pause" /\ status = "RUNNING" -> EnterExclusive(c, "PAUSED", "list")
         [] op[c] = "resume" /\ status = "PAUSED" -> EnterExclusive(c, "RUNNING", "list")
         [] op[c] \in {"shutdown", "close"} /\ status = "PAUSED" ->
                EnterExclusive(c, "RUNNING", "list")        \* resume_with_status_lock
         [] op[c] \in {"shutdown", "close"} /\ status = "RUNNING" ->
                EnterExclusive(c, "SHUTDOWN", "drain")
         [] op[c] \in {"terminate", "destroy"} /\ status # "TERMINATED" ->
                EnterExclusive(c, "TERMINATING", "list")
         [] OTHER -> NothingToDo(c)
    /\ UNCHANGED <<max_task_count, status_readers, list_writer, queue_writer,
                   queue_readers, tasks, list, workers, arg, seen, bounds>>

-----------------------------------------------------------------------------
(* The loops over worker_list, under worker_list_mutex.                    *)

\* The last n workers of the list, or all of them: remove_thread counts back
\* from worker_list.end().
Youngest(n) == {w \in worker_list : Cardinality({v \in worker_list : v > w}) < n}

LockList(c) ==
    /\ pc[c] = "list" /\ list_writer = NoOne
    /\ list_writer' = c
    /\ pc' = [pc EXCEPT ![c] = IF op[c] = "add" THEN "adding" ELSE "each"]
    /\ todo' = [todo EXCEPT ![c] =
                  CASE op[c] = "add" -> {}
                    [] op[c] = "remove" -> Youngest(arg[c])
                    [] OTHER -> worker_list]
    /\ UNCHANGED <<pool, status_writer, status_readers, queue_writer, queue_readers,
                   tasks, list, workers, op, arg, seen, bounds>>

\* What the loop of a call does to a worker: shutdown resumes a paused pool
\* before it drains it, and terminates it afterwards.
Effect(c, w) ==
    CASE op[c] = "pause" -> WorkerPause(w)
      [] op[c] = "resume" \/ (op[c] \in {"shutdown", "close"} /\ status = "RUNNING")
           -> WorkerResume(w)
      [] OTHER -> WorkerTerminate(w)

\* Front to back, except remove_thread.
NextInLoop(c, w) ==
    \A v \in todo[c] : IF op[c] = "remove" THEN v <= w ELSE w <= v

Each(c) ==
    /\ pc[c] = "each"
    /\ \E w \in todo[c] :
         /\ NextInLoop(c, w)
         /\ Effect(c, w)
         /\ todo' = [todo EXCEPT ![c] = @ \ {w}]
    /\ UNCHANGED <<pool, locks, tasks, list, wpc, wtask, pc, op, arg, seen, bounds>>

EndPauseOrResume(c) ==
    /\ pc[c] = "each" /\ todo[c] = {} /\ op[c] \in {"pause", "resume"}
    /\ Return(c)
    /\ UNCHANGED <<pool, tasks, list, workers, locals, bounds>>

\* shutdown of a paused pool: resumed, now it drains.
EndResumeForShutdown(c) ==
    /\ pc[c] = "each" /\ todo[c] = {}
    /\ op[c] \in {"shutdown", "close"} /\ status = "RUNNING"
    /\ status' = "SHUTDOWN"
    /\ list_writer' = NoOne
    /\ pc' = [pc EXCEPT ![c] = "drain"]
    /\ UNCHANGED <<max_task_count, status_writer, status_readers, queue_writer,
                   queue_readers, tasks, list, workers, op, locals, bounds>>

\* terminate_with_status_lock ends: notify_all, TERMINATED, locks released.
MutFinalStatus == "TERMINATING"                      \* the last store forgotten
FinalStatus == "TERMINATED"

EndTerminate(c) ==
    /\ pc[c] = "each" /\ todo[c] = {} /\ status = "TERMINATING"
    /\ wpc' = WokenAll
    /\ status' = FinalStatus
    /\ IF op[c] = "destroy"
       THEN /\ UnlockAll(c)
            /\ pc' = [pc EXCEPT ![c] = "erase"]
            /\ todo' = [todo EXCEPT ![c] = worker_list]
            /\ UNCHANGED op
       ELSE Return(c) /\ UNCHANGED todo
    /\ UNCHANGED <<max_task_count, tasks, list, wstatus, sem, wtask, arg, seen, bounds>>

\* remove_thread: notify_all, then worker_list.erase of the same workers.
EndTerminateRemoved(c) ==
    /\ pc[c] = "each" /\ todo[c] = {} /\ op[c] = "remove"
    /\ wpc' = WokenAll
    /\ pc' = [pc EXCEPT ![c] = "erase"]
    /\ todo' = [todo EXCEPT ![c] = Youngest(arg[c])]
    /\ UNCHANGED <<pool, locks, tasks, list, wstatus, sem, wtask, op, arg, seen, bounds>>

-----------------------------------------------------------------------------
(* add_thread, and the destructor of workers in remove_thread and in       *)
(* ~thread_pool.                                                           *)

CanStart == created < MaxThreads

AddOne(c) ==
    /\ pc[c] = "adding" /\ arg[c] > 0 /\ CanStart
    /\ created' = created + 1
    /\ worker_list' = worker_list \cup {created + 1}
    /\ wpc' = [wpc EXCEPT ![created + 1] = "check"]
    /\ arg' = [arg EXCEPT ![c] = @ - 1]
    /\ UNCHANGED <<pool, locks, tasks, wstatus, sem, wtask, pc, op, seen, todo, bounds>>

\* All are started, or std::thread throws because no more can be.
EndAdd(c) ==
    /\ pc[c] = "adding" /\ (arg[c] = 0 \/ ~ CanStart)
    /\ Return(c)
    /\ UNCHANGED <<pool, tasks, list, workers, locals, bounds>>

\* ~worker_thread: terminate, a notify_all if the worker was BLOCKED, join.
Erase(c) ==
    /\ pc[c] = "erase"
    /\ \E w \in todo[c] :
         /\ \A v \in todo[c] : w <= v
         /\ worker_list' = worker_list \ {w}
         /\ WorkerTerminate(w)
         /\ wpc' = IF wstatus[w] = "BLOCKED" THEN WokenAll ELSE wpc
    /\ pc' = [pc EXCEPT ![c] = "join"]
    /\ UNCHANGED <<pool, locks, tasks, created, wtask, op, locals, bounds>>

MutJoined(w) == TRUE                                 \* detached instead
Joined(w) == wpc[w] = "exited"

Join(c) ==
    /\ pc[c] = "join"
    /\ \E w \in todo[c] :
         /\ \A v \in todo[c] : w <= v
         /\ Joined(w)
         /\ todo' = [todo EXCEPT ![c] = @ \ {w}]
    /\ pc' = [pc EXCEPT ![c] = "erase"]
    /\ UNCHANGED <<pool, locks, tasks, list, workers, op, arg, seen, bounds>>

EndErase(c) ==
    /\ pc[c] = "erase" /\ todo[c] = {}
    /\ UNCHANGED <<pool, tasks, list, workers, locals, bounds>>
    /\ \/ op[c] = "remove" /\ Return(c)
       \/ /\ op[c] = "destroy"
          /\ pc' = [pc EXCEPT ![c] = "gone"]
          /\ UNCHANGED <<op, locks>>

-----------------------------------------------------------------------------
ClientStep(c) ==
    \/ Enter(c) \/ EnterAlone(c)
    \/ Limited(c) \/ GetTaskCount(c) \/ Compare(c) \/ Push(c) \/ Notify(c)
    \/ Drain(c) \/ LockList(c) \/ Each(c) \/ EndPauseOrResume(c)
    \/ EndResumeForShutdown(c) \/ EndTerminate(c) \/ EndTerminateRemoved(c)
    \/ AddOne(c) \/ EndAdd(c) \/ Erase(c) \/ Join(c) \/ EndErase(c)

Next ==
    \/ \E c \in Client, o \in Ops : Call(c, o)
    \/ \E c \in Client : SetMaxTaskCount(c)
    \/ \E c \in Client : ClientStep(c)
    \/ \E w \in Worker : WorkerStep(w)
    \/ SpuriousWake

Spec == Init /\ [][Next]_vars

\* Every thread that can go on is scheduled.  Calls are the clients' choice
\* and spurious wakeups the implementation's: neither is promised.
Fairness ==
    /\ \A c \in Client : WF_vars(ClientStep(c))
    /\ \A w \in Worker : WF_vars(WorkerStep(w))

FairSpec == Spec /\ Fairness

-----------------------------------------------------------------------------
(* Properties.                                                             *)

WorkerStatus == {"RUNNING", "BLOCKED", "PAUSED", "TERMINATING", "TERMINATED"}
WorkerPcs == SemPcs \cup {"unborn", "check", "lock", "precheck", "to_wait", "waiting",
                          "relock_pre", "relock_post", "postcheck", "take", "run",
                          "exited", "threw"}
ClientPcs == {"idle", "status", "limit", "count", "compare", "push", "notify", "drain",
              "drain_wait", "list", "each", "adding", "erase", "join", "gone"}

\* Type invariant of the state above.
TypeOK ==
    /\ status \in {"RUNNING", "PAUSED", "SHUTDOWN", "TERMINATING", "TERMINATED"}
    /\ max_task_count \in Nat
    /\ status_writer \in Client \cup {NoOne} /\ status_readers \subseteq Client
    /\ list_writer \in Client \cup {NoOne}
    /\ queue_writer \in Worker \cup {NoOne} /\ queue_readers \subseteq Client
    /\ task_queue \in Seq(Task) /\ accepted \subseteq Task /\ done \subseteq Task
    /\ worker_list \subseteq Worker /\ created \in 0 .. MaxThreads
    /\ wstatus \in [Worker -> WorkerStatus]
    /\ sem \in [Worker -> Nat]
    /\ wpc \in [Worker -> WorkerPcs]
    /\ wtask \in [Worker -> Task \cup {NoTask}]
    /\ pc \in [Client -> ClientPcs]
    /\ op \in [Client -> SharedOps \cup ExclusiveOps \cup {"none"}]
    /\ arg \in [Client -> Nat] /\ seen \in [Client -> Nat]
    /\ todo \in [Client -> SUBSET Worker]
    /\ calls \in 0 .. MaxCalls /\ spurious \in 0 .. MaxSpurious

\* No worker thread ever ends by the exception of the "undefined status"
\* branch at the head of its loop (worker_thread.cpp:55-58), which would take
\* the process down: a worker is never BLOCKED when it is back there, however
\* pauses, resumes, terminations and spurious wakeups meet its own checks.
NoUndefinedStatus == \A w \in Worker : wpc[w] # "threw"

\* A worker sleeps on its pause semaphore with no token in it only while it is
\* PAUSED: whatever pauses and resumes came between its status check and its
\* acquire(), no resume or termination is lost on it.
NoLostResume ==
    \A w \in Worker : wpc[w] \in SemPcs /\ sem[w] = 0 => wstatus[w] = "PAUSED"

\* Whenever no call is changing the pool, the status of the pool and those of
\* the workers in its list agree, threads added meanwhile included.
PoolAndWorkersAgree ==
    status_writer = NoOne /\ list_writer = NoOne =>
        \A w \in worker_list :
            /\ status = "RUNNING" => wstatus[w] \in {"RUNNING", "BLOCKED"}
            /\ status = "PAUSED" => wstatus[w] = "PAUSED"
            /\ status = "TERMINATED" => wstatus[w] \in {"TERMINATING", "TERMINATED"}

\* A call that holds status_mutex shared never meets a half-made change:
\* SHUTDOWN and TERMINATING are seen only by the call that set them.
TransientHidden == status \in {"SHUTDOWN", "TERMINATING"} => status_writer # NoOne

\* Every task ever pushed is in exactly one place: once in the queue, in the
\* hands of one worker, or done.
Queued == {task_queue[i] : i \in DOMAIN task_queue}
Running == {wtask[w] : w \in Worker} \ {NoTask}
TaskConservation ==
    /\ accepted = Queued \cup Running \cup done
    /\ Queued \cap (Running \cup done) = {} /\ Running \cap done = {}
    /\ \A i, j \in DOMAIN task_queue : task_queue[i] = task_queue[j] => i = j
    /\ \A v, w \in Worker : wtask[v] = wtask[w] /\ wtask[v] # NoTask => v = w

\* While a worker stays PAUSED it does not get past the status checks around
\* the queue, even with a token left over in its semaphore by an earlier
\* resume: after pause() a worker starts at most the one task it had already
\* gone to fetch.
Gates == SemPcs \cup {"check", "precheck", "relock_pre", "relock_post", "postcheck"}
PausedStaysOut ==
    [][\A w \in Worker :
          wstatus[w] = "PAUSED" /\ wstatus'[w] = "PAUSED" /\ wpc[w] \in Gates
             => wpc'[w] \in Gates]_vars

\* A task enters the queue only while the pool is RUNNING, although submit
\* tests the status several steps before it pushes.
AcceptOnlyRunning == [][accepted' # accepted => status = "RUNNING"]_vars

\* shutdown() (and ~Server) leaves no task behind: a pool that is terminated
\* only by shutdown has an empty queue when it is.
ShutdownDrains == status = "TERMINATED" => task_queue = <<>>

\* ~Server() runs shutdown() and then destroys the pool: when that is over
\* every task ever accepted has been run to its end, those still running when
\* shutdown() returned included.
CloseFinishesAll == (\E c \in Client : pc[c] = "gone") => done = accepted

\* Nobody sleeps in wait() or shutdown() on an empty queue: whoever takes the
\* last task wakes all who wait for that (worker_thread.cpp:146-149 with
\* thread_pool.cpp:129-132, 162-165).
NoDrainerForgotten == \A c \in Client : pc[c] = "drain_wait" => task_queue # <<>>

\* One notify_one per push is enough: while a worker sleeps, every queued task
\* has a worker of its own that is awake and on its way to take it, or a submit
\* that is about to wake one; no task waits behind one that runs
\* (thread_pool.h:183, worker_thread.cpp:72-141).  A pause or a removal breaks
\* this: see ResumedTasksRun.
Asleep == {w \in Worker : wpc[w] = "waiting"}
OnTheWay == {w \in Worker : wpc[w] \in {"check", "lock", "relock_post", "postcheck", "take"}}
Notifying == {c \in Client : pc[c] = "notify"}
EveryTaskHasATaker ==
    Asleep # {} => Len(task_queue) <= Cardinality(OnTheWay) + Cardinality(Notifying)

\* What the limit is worth, count and push being apart: each thread that submits
\* can exceed it by one task and no more, because a submit that counts anew
\* finds the queue full (thread_pool.h:170, 244-252).
OvershootBounded ==
    InitLimit > 0 => Len(task_queue) < InitLimit + Cardinality(Client)

\* Every call comes back: submit, wait, shutdown, add_thread, and the
\* destruction of the pool, which joins every worker.
CallsReturn ==
    \A c \in Client : pc[c] # "idle" ~> pc[c] \in {"idle", "gone"}

\* The pool is a TaskExecutor.
Executor == INSTANCE TaskExecutor WITH
    mode <- CASE status = "RUNNING" -> "open" [] status = "PAUSED" -> "held"
              [] OTHER -> "closed",
    queue <- task_queue, running <- Running, finished <- done

\* Safety: acceptance, order and at-most-once execution (thread_pool.h:150-185
\* with worker_thread.cpp:31-159) under every operation of the pool.
ExecutesTasks == Executor!Spec

\* The same, and every accepted task is run, when the pool is used as Server
\* uses it: never paused, shut down before it is destroyed.
ExecutesEveryTask == Executor!WorkingSpec

\* worker_thread.cpp:166-168: a worker still blocked when it is destroyed is
\* woken "to avoid blocking the destruction process".
DestructionCompletes ==
    \A c \in Client : op[c] = "destroy" ~> pc[c] = "gone"

\* thread_pool.cpp:73: resume() "resumes all worker threads"; a task that was
\* accepted is run, unless the pool is paused again.
ResumedTasksRun ==
    \A t \in Task : t \in accepted ~> (t \in done \/ status = "PAUSED")

\* thread_pool.h:52: "when the number of queued tasks would exceed or exceeds
\* this value, a new task is rejected" (no set_max_task_count here).
QueueWithinLimit == InitLimit > 0 => Len(task_queue) <= InitLimit

=============================================================================
