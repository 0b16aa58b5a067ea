------------------------ MODULE ThreadPoolAgreement -------------------------
(***************************************************************************)
(* The status of the pool and the statuses of its workers agree whenever   *)
(* no call is changing them: the loops over worker_list, the threads that  *)
(* are added and removed meanwhile, and the workers' own status changes    *)
(* all keep them in step.  And what a shutdown leaves behind: an empty     *)
(* queue, and, when ~Server() is over, no task that has not run.           *)
(*                                                                         *)
(* And the sleepers: those who wait for the end of the queue are woken by  *)
(* it, each queued task has a worker awake to take it, and the limit of    *)
(* the queue is exceeded by less than one task per client.                 *)
(***************************************************************************)
EXTENDS ThreadPoolProofs, FiniteSetTheorems, SequenceTheorems

\* What a worker's status may be while the pool's is s ("any": no demand).
Fits(s, x) ==
    /\ s = "RUNNING" => x \in {"RUNNING", "BLOCKED"}
    /\ s = "PAUSED" => x = "PAUSED"
    /\ s = "TERMINATED" => x \in {"TERMINATING", "TERMINATED"}
Agree(s) == \A w \in worker_list : Fits(s, wstatus[w])

\* The calls that hold worker_list_mutex.
HoldsList(c) ==
    \/ pc[c] \in {"each", "adding"}
    \/ pc[c] \in {"erase", "join"} /\ op[c] = "remove"
ListLock == \A c \in Client : HoldsList(c) <=> list_writer = c

\* A thread that is not yet started has the status it will start with.
Born ==
    /\ \A w \in worker_list : w <= created
    /\ \A c \in Client : \A w \in todo[c] : w <= created
    /\ \A w \in Worker : w > created => wstatus[w] = "RUNNING"

\* More of what a call knows of the status.
StatusKnown ==
    \A c \in Client :
        /\ pc[c] \in Looping \cup {"adding", "erase", "join"} /\ op[c] \in {"add", "remove"}
              => status = "RUNNING"
        /\ pc[c] \in Draining /\ op[c] \in {"shutdown", "close"} => status = "SHUTDOWN"
        /\ pc[c] \in Looping /\ op[c] \in {"shutdown", "close"}
              => status \in {"RUNNING", "TERMINATING"}
        /\ pc[c] \in Looping /\ op[c] \in {"terminate", "destroy"} => status = "TERMINATING"
        /\ pc[c] \in {"erase", "join"} /\ op[c] = "destroy" => status = "TERMINATED"
        /\ pc[c] = "each" => op[c] # "add"

\* A loop under the exclusive lock takes the workers from one status to the
\* other, those in todo being still at the first.
From(c) == IF op[c] = "pause" THEN "RUNNING" ELSE IF status = "RUNNING" THEN "PAUSED" ELSE "any"
To == IF status = "TERMINATING" THEN "TERMINATED" ELSE status
LoopProgress ==
    \A c \in Client : op[c] \in ExclusiveOps =>
        /\ pc[c] = "list" => Agree(From(c))
        /\ pc[c] = "each" =>
              \A w \in worker_list : Fits(IF w \in todo[c] THEN From(c) ELSE To, wstatus[w])

\* add_thread and remove_thread disturb no worker that stays.
ResizeProgress ==
    \A c \in Client :
        /\ pc[c] = "adding" => Agree("RUNNING")
        /\ pc[c] = "each" /\ op[c] = "remove" =>
              /\ todo[c] \subseteq Youngest(arg[c])
              /\ \A w \in worker_list \ Youngest(arg[c]) : Fits("RUNNING", wstatus[w])
        /\ pc[c] \in {"erase", "join"} /\ op[c] = "remove" =>
              \A w \in worker_list \ todo[c] : Fits("RUNNING", wstatus[w])
        /\ pc[c] = "join" =>
              \A w \in todo[c] : (\A v \in todo[c] : w <= v) => w \notin worker_list

Settled == status_writer = NoOne /\ list_writer = NoOne => Agree(status)

BInv == ListLock /\ Born /\ StatusKnown /\ LoopProgress /\ ResizeProgress /\ Settled

-----------------------------------------------------------------------------
\* A worker that changes its own status stays in its class.
OwnChange ==
    \A w \in Worker :
        \/ wstatus'[w] = wstatus[w]
        \/ {wstatus[w], wstatus'[w]} \subseteq {"RUNNING", "BLOCKED"} /\ w <= created
        \/ wstatus[w] = "TERMINATING" /\ wstatus'[w] = "TERMINATED"

Plain == {"idle", "status", "limit", "count", "compare", "push", "notify", "gone"}

\* A step after which a client has no part in the loops.
Outside(c) ==
    /\ ~ HoldsList(c)
    /\ pc'[c] \in Plain \/ (pc'[c] \in Draining /\ op'[c] = "wait")

\* A step that stays out of the loops, and changes no status but a worker's own.
LEMMA QuietKeeps ==
    ASSUME TInv, LInv, BInv, OwnChange,
           UNCHANGED <<status, status_writer, list_writer, worker_list, created, todo>>,
           \A c \in Client :
               \/ pc'[c] = pc[c] /\ op'[c] = op[c] /\ arg'[c] = arg[c]
               \/ Outside(c)
               \/ pc[c] \in Draining /\ pc'[c] \in Draining /\ op'[c] = op[c]
    PROVE BInv'
<1> USE PoolAssumption DEF TInv, TypeOK, BInv, Plain, Draining, Looping, Outside
<1>1. ListLock'
  BY DEF ListLock, HoldsList
<1>2. Born'
  BY DEF Born, OwnChange, Worker
<1>3. StatusKnown'
  BY DEF StatusKnown
<1>4. \A s : Agree(s) => Agree(s)'
  BY DEF Agree, Fits, OwnChange
<1>5. LoopProgress'
  <2> SUFFICES ASSUME NEW c \in Client, op'[c] \in ExclusiveOps, pc'[c] \in {"list", "each"}
               PROVE /\ pc'[c] = "list" => Agree(From(c))'
                     /\ pc'[c] = "each" => \A w \in worker_list :
                           Fits(IF w \in todo[c] THEN From(c)' ELSE To, wstatus'[w])
    BY DEF LoopProgress, Looping, To
  <2>1. pc'[c] = pc[c] /\ op'[c] = op[c]
    OBVIOUS
  <2>2. From(c)' = From(c)
    BY <2>1 DEF From
  <2>3. \A s : \A w \in worker_list : Fits(s, wstatus[w]) => Fits(s, wstatus'[w])
    BY DEF Fits, OwnChange
  <2>4. ASSUME pc'[c] = "list" PROVE Agree(From(c))'
    <3>1. Agree(From(c))
      BY <2>1, <2>4 DEF LoopProgress
    <3> QED BY <2>2, <2>3, <3>1 DEF Agree
  <2>5. ASSUME pc'[c] = "each", NEW w \in worker_list
        PROVE Fits(IF w \in todo[c] THEN From(c)' ELSE To, wstatus'[w])
    <3>1. Fits(IF w \in todo[c] THEN From(c) ELSE To, wstatus[w])
      BY <2>1, <2>5 DEF LoopProgress
    <3> QED BY <2>2, <2>3, <3>1
  <2> QED BY <2>4, <2>5
<1>6. ResizeProgress'
  <2>1. \A n : Youngest(n)' = Youngest(n)
    BY DEF Youngest
  <2>2. \A w \in worker_list : Fits("RUNNING", wstatus[w]) => Fits("RUNNING", wstatus'[w])
    BY DEF Fits, OwnChange
  <2> QED BY <1>4, <2>1, <2>2 DEF ResizeProgress
<1>7. Settled'
  BY <1>4 DEF Settled
<1> QED BY <1>1, <1>2, <1>3, <1>5, <1>6, <1>7

\* A call that returns, or leaves the loops, with all workers as they should be.
LEMMA EndKeeps ==
    ASSUME TInv, LInv, BInv, NEW c \in Client, Agree(status)',
           UNCHANGED <<worker_list, created, wstatus>>,
           HoldsList(c), list_writer' = NoOne,
           \A d \in Client : todo'[d] = todo[d] \/ todo'[d] = worker_list,
           \A d \in Client : d # c => pc'[d] = pc[d] /\ op'[d] = op[d]
                                      /\ arg'[d] = arg[d] /\ todo'[d] = todo[d],
           \/ pc'[c] \in {"idle", "status"}
           \/ pc'[c] = "erase" /\ op'[c] = "destroy" /\ status' = "TERMINATED"
           \/ pc'[c] = "drain" /\ op'[c] \in {"shutdown", "close"} /\ status' = "SHUTDOWN",
           status' = status \/ (status_writer = c /\ status # "TERMINATED")
    PROVE BInv'
<1> USE PoolAssumption DEF TInv, TypeOK, BInv, Draining, Looping
<1>1. ListLock'
  BY DEF ListLock, HoldsList
<1>2. Born'
  BY DEF Born
<1>3. StatusKnown'
  <2>1. CASE status' = status
    BY <2>1 DEF StatusKnown
  <2>2. CASE status_writer = c /\ status # "TERMINATED"
    <3>1. status_readers = {} /\ \A d \in Client : d # c => ~ Reads(d) /\ ~ Writes(d)
      BY <2>2 DEF LInv, StatusLock
    <3>2. \A d \in Client : d # c =>
            /\ ~ (pc[d] \in Looping \cup {"adding", "erase", "join"} /\ op[d] \in {"add", "remove"})
            /\ ~ (pc[d] \in Draining \cup Looping /\ op[d] \in ExclusiveOps)
      BY <3>1 DEF Reads, Writes, LInv, Places
    <3> QED BY <2>2, <3>2 DEF StatusKnown, ExclusiveOps
  <2> QED BY <2>1, <2>2
<1>4. \A d \in Client : d # c => ~ HoldsList(d)
  BY DEF ListLock
<1>5. LoopProgress'
  <2>1. ASSUME NEW d \in Client, d # c, pc[d] = "list", op[d] \in ExclusiveOps
        PROVE status' = status
    BY <2>1 DEF LInv, StatusLock, Writes
  <2>2. ASSUME NEW d \in Client, d # c, pc[d] = "list", op[d] \in ExclusiveOps
        PROVE Agree(From(d))'
    BY <2>1, <2>2 DEF LoopProgress, Agree, From
  <2> QED BY <1>4, <2>2 DEF LoopProgress, HoldsList
<1>6. ResizeProgress'
  <2>1. \A n : Youngest(n)' = Youngest(n)
    BY DEF Youngest
  <2> QED BY <1>4, <2>1 DEF ResizeProgress, HoldsList
<1>7. Settled'
  BY DEF Settled
<1> QED BY <1>1, <1>2, <1>3, <1>5, <1>6, <1>7

-----------------------------------------------------------------------------
\* The steps of the workers are out of the loops.
LEMMA WorkersQuiet ==
    ASSUME TInv, LInv, BInv, (\E w \in Worker : WorkerStep(w)) \/ SpuriousWake \/ UNCHANGED vars
    PROVE BInv'
<1> USE PoolAssumption DEF TInv, TypeOK, pool, locks, tasks, list, workers, locals, bounds
<1>1. /\ UNCHANGED <<status, status_writer, list_writer, worker_list, created, todo, op, arg>>
      /\ \A c \in Client : pc'[c] = pc[c] \/ (pc[c] = "drain_wait" /\ pc'[c] = "drain")
  <2>1. ASSUME NEW w \in Worker, Take(w)
        PROVE \A c \in Client : pc'[c] = pc[c] \/ (pc[c] = "drain_wait" /\ pc'[c] = "drain")
    BY <2>1 DEF Take, WokenDrainers
  <2> QED BY <2>1 DEF vars, WorkerStep, Check, Acquire, Lock, Precheck, Wait, Postcheck, Take,
                      Run, SpuriousWake
<1>2. OwnChange
  <2>1. ASSUME NEW w \in Worker, Check(w) \/ Precheck(w) \/ Postcheck(w) PROVE OwnChange
    <3>1. w <= created
      BY <2>1 DEF Unborn, Check, Precheck, Postcheck, Worker
    <3> QED BY <2>1, <3>1 DEF Check, Precheck, Postcheck, StatusAfterExit, StatusAfterPrecheck,
                              StatusAfterPostcheck, OwnChange
  <2>2. CASE UNCHANGED wstatus
    BY <2>2 DEF OwnChange
  <2> QED BY <2>1, <2>2 DEF vars, WorkerStep, Acquire, Lock, Wait, Take, Run, SpuriousWake
<1> QED BY <1>1, <1>2, QuietKeeps DEF Draining

\* A submit, a wait and the beginning of a call are out of the loops.
LEMMA CallersQuiet ==
    ASSUME TInv, LInv, BInv, NEW c \in Client,
           \/ \E o \in Ops : Call(c, o)
           \/ SetMaxTaskCount(c) \/ Limited(c) \/ GetTaskCount(c) \/ Compare(c)
           \/ Push(c) \/ Notify(c)
           \/ Drain(c) /\ (Drained => op[c] = "wait")
    PROVE BInv'
<1> USE PoolAssumption DEF TInv, TypeOK, pool, locks, tasks, list, workers, locals, bounds
<1>0. ~ HoldsList(c) /\ list_writer # c
  BY DEF Call, SetMaxTaskCount, Limited, GetTaskCount, Compare, Push, Notify, Drain, HoldsList,
         BInv, ListLock
<1>1. UNCHANGED <<status, worker_list, created, todo, wstatus>>
  BY DEF Call, SetMaxTaskCount, Limited, GetTaskCount, Compare, Push, Notify, Drain
<1>2. list_writer' = list_writer
  BY <1>0 DEF Call, SetMaxTaskCount, Limited, GetTaskCount, Compare, Push, Notify, Drain,
              Return, UnlockAll
<1>3. status_writer' = status_writer
  <2>1. CASE status_writer = c
    <3>1. Writes(c)
      BY <2>1 DEF LInv, StatusLock
    <3> QED BY <2>1, <3>1 DEF Writes, Draining, Looping, ExclusiveOps, Call, SetMaxTaskCount,
                 Limited, GetTaskCount, Compare, Push, Notify, Drain
  <2>2. CASE status_writer # c
    BY <2>2 DEF Call, SetMaxTaskCount, Limited, GetTaskCount, Compare, Push, Notify, Drain,
                Return, UnlockAll
  <2> QED BY <2>1, <2>2
<1>4. \A d \in Client : d # c => pc'[d] = pc[d] /\ op'[d] = op[d] /\ arg'[d] = arg[d]
  BY DEF Call, SetMaxTaskCount, Limited, GetTaskCount, Compare, Push, Notify, Drain, Return, Leave
<1>5. \/ pc'[c] = pc[c] /\ op'[c] = op[c] /\ arg'[c] = arg[c]
      \/ pc'[c] \in Plain
      \/ pc[c] \in Draining /\ pc'[c] \in Draining /\ op'[c] = op[c]
  BY DEF Call, SetMaxTaskCount, Limited, GetTaskCount, Compare, Push, Notify, Drain, Return,
         Leave, Plain, Draining
<1>6. OwnChange
  BY <1>1 DEF OwnChange
<1> QED BY <1>0, <1>1, <1>2, <1>3, <1>4, <1>5, <1>6, QuietKeeps DEF Outside

\* A call that passes, or does not pass, the shared status check.
LEMMA EnterKeeps ==
    ASSUME TInv, LInv, BInv, NEW c \in Client, Enter(c)
    PROVE BInv'
<1> USE PoolAssumption DEF TInv, TypeOK, pool, locks, tasks, list, workers, locals, bounds
<1>1. /\ pc[c] = "status" /\ ~ HoldsList(c) /\ status_writer = NoOne
      /\ UNCHANGED <<status, status_writer, list_writer, worker_list, created, todo, wstatus, arg>>
      /\ \A d \in Client : d # c => pc'[d] = pc[d] /\ op'[d] = op[d]
  BY DEF Enter, EnterShared, HoldsList, Leave
<1>2. OwnChange
  BY <1>1 DEF OwnChange
<1>3. \/ pc'[c] \in Plain
      \/ pc'[c] = "drain" /\ op'[c] = "wait"
      \/ pc'[c] = "list" /\ op'[c] = op[c] /\ op[c] \in {"add", "remove"}
         /\ status \in {"RUNNING", "SHUTDOWN"}
  BY DEF Enter, EnterShared, Leave, Plain, ResizeAllowed
<1>4. CASE pc'[c] \in Plain \/ (pc'[c] = "drain" /\ op'[c] = "wait")
  BY <1>1, <1>2, <1>4, QuietKeeps DEF Outside, Draining
<1>5. CASE pc'[c] = "list" /\ op'[c] = op[c] /\ op[c] \in {"add", "remove"} /\ status \in {"RUNNING", "SHUTDOWN"}
  <2> USE <1>1, <1>5 DEF BInv, Draining, Looping
  <2>1. status = "RUNNING"
    BY DEF LInv, TransientHidden
  <2>2. ListLock'
    BY DEF ListLock, HoldsList
  <2>3. Born'
    BY DEF Born
  <2>4. StatusKnown'
    BY <2>1 DEF StatusKnown
  <2>5. LoopProgress'
    <3> SUFFICES ASSUME NEW d \in Client, d # c
                 PROVE (op[d] \in ExclusiveOps =>
                    /\ pc[d] = "list" => Agree(From(d))
                    /\ pc[d] = "each" =>
                          \A w \in worker_list : Fits(IF w \in todo[d] THEN From(d) ELSE To, wstatus[w]))'
      BY DEF LoopProgress, ExclusiveOps
    <3> QED BY DEF LoopProgress, Agree, From, To
  <2>6. ResizeProgress'
    <3>1. \A n : Youngest(n)' = Youngest(n)
      BY DEF Youngest
    <3> QED BY <3>1 DEF ResizeProgress, Agree
  <2>7. Settled'
    BY DEF Settled, Agree
  <2> QED BY <2>2, <2>3, <2>4, <2>5, <2>6, <2>7
<1> QED BY <1>3, <1>4, <1>5

-----------------------------------------------------------------------------
(* The exclusive calls.                                                    *)

InLoops(d) ==
    \/ pc[d] \in Looping \cup {"adding", "erase", "join"} /\ op[d] \in {"add", "remove"}
    \/ pc[d] \in Draining \cup Looping /\ op[d] \in ExclusiveOps

\* The owner of status_mutex, or one about to own it, is alone in the loops.
LEMMA Alone ==
    ASSUME TInv, LInv, BInv, NEW c \in Client, status_readers = {},
           status_writer \in {c, NoOne}
    PROVE /\ \A d \in Client : d # c \/ status_writer = NoOne => ~ InLoops(d)
          /\ \A d \in Client : d # c \/ status_writer = NoOne =>
                ~ HoldsList(d) /\ list_writer # d
          /\ status_writer = NoOne => list_writer = NoOne /\ Agree(status)
<1> USE PoolAssumption DEF TInv, TypeOK
<1>1. \A d \in Client : d # c \/ status_writer = NoOne => ~ Reads(d) /\ ~ Writes(d)
  BY DEF LInv, StatusLock
<1>2. \A d \in Client : d # c \/ status_writer = NoOne => ~ InLoops(d)
  BY <1>1 DEF InLoops, Reads, Writes, LInv, Places, Looping, Draining
<1>3. \A d \in Client : HoldsList(d) => InLoops(d)
  BY DEF HoldsList, InLoops, LInv, Places, Looping
<1> QED BY <1>2, <1>3 DEF BInv, ListLock, Settled

\* A call that passes, or does not pass, the exclusive status check.
LEMMA EnterAloneKeeps ==
    ASSUME TInv, LInv, BInv, NEW c \in Client, EnterAlone(c)
    PROVE BInv'
<1> USE PoolAssumption DEF TInv, TypeOK, pool, locks, tasks, list, workers, locals, bounds
<1>1. /\ pc[c] = "status" /\ op[c] \in ExclusiveOps /\ status_writer = NoOne
      /\ status_readers = {}
      /\ UNCHANGED <<list_writer, worker_list, created, wstatus, arg>>
  BY DEF EnterAlone, StatusFree
<1>2. /\ \A d \in Client : ~ InLoops(d) /\ ~ HoldsList(d)
      /\ list_writer = NoOne /\ Agree(status)
  BY <1>1, Alone
<1>3. CASE NothingToDo(c)
  <2>1. CASE op[c] # "destroy"
    <3>1. pc'[c] \in Plain /\ UNCHANGED <<status, status_writer, todo>>
          /\ \A d \in Client : d # c => pc'[d] = pc[d] /\ op'[d] = op[d]
      BY <1>1, <1>3, <2>1 DEF NothingToDo, Leave, Plain
    <3>2. OwnChange
      BY <1>1 DEF OwnChange
    <3> QED BY <1>1, <1>2, <3>1, <3>2, QuietKeeps DEF Outside
  <2>2. CASE op[c] = "destroy"
    <3>1. status = "TERMINATED"
      BY <1>1, <1>3, <2>2 DEF EnterAlone, NothingToDo, EnterExclusive
    <3> USE <1>1, <1>2, <2>2, <3>1 DEF BInv, Looping, Draining
    <3>2. /\ UNCHANGED <<status, status_writer, op>>
          /\ pc' = [pc EXCEPT ![c] = "erase"] /\ todo' = [todo EXCEPT ![c] = worker_list]
      BY <1>3 DEF NothingToDo
    <3>3. ListLock'
      BY <3>2 DEF ListLock, HoldsList
    <3>4. Born'
      BY <3>2 DEF Born
    <3>5. StatusKnown'
      BY <3>2 DEF StatusKnown
    <3>6. LoopProgress'
      BY <3>2 DEF LoopProgress, InLoops
    <3>7. ResizeProgress'
      BY <3>2 DEF ResizeProgress, HoldsList
    <3>8. Settled'
      BY <3>2 DEF Settled, Agree
    <3> QED BY <3>3, <3>4, <3>5, <3>6, <3>7, <3>8
  <2> QED BY <2>1, <2>2
<1>4. ASSUME NEW s \in {"RUNNING", "PAUSED", "SHUTDOWN", "TERMINATING"},
             NEW next \in {"list", "drain"}, EnterExclusive(c, s, next),
             status # "TERMINATED",
             next = "drain" <=> s = "SHUTDOWN",
             next = "drain" => op[c] \in {"shutdown", "close"},
             op[c] = "pause" => status = "RUNNING" /\ s = "PAUSED",
             op[c] = "resume" => status = "PAUSED" /\ s = "RUNNING",
             op[c] \in {"shutdown", "close"} /\ next = "list" => status = "PAUSED" /\ s = "RUNNING",
             op[c] \in {"terminate", "destroy"} => s = "TERMINATING"
      PROVE BInv'
  <2> USE <1>1, <1>2, <1>4 DEF BInv, Looping, Draining
  <2>1. /\ status' = s /\ status_writer' = c /\ UNCHANGED <<op, todo>>
        /\ pc' = [pc EXCEPT ![c] = next]
    BY DEF EnterExclusive
  <2>2. ListLock'
    BY <2>1 DEF ListLock, HoldsList
  <2>3. Born'
    BY <2>1 DEF Born
  <2>4. StatusKnown'
    BY <2>1 DEF StatusKnown, InLoops, ExclusiveOps
  <2>5. LoopProgress'
    <3>1. next = "list" => Agree(From(c))'
      BY <2>1 DEF Agree, From, Fits, ExclusiveOps
    <3> QED BY <2>1, <3>1 DEF LoopProgress, InLoops
  <2>6. ResizeProgress'
    BY <2>1 DEF ResizeProgress, HoldsList
  <2>7. Settled'
    BY <2>1 DEF Settled
  <2> QED BY <2>2, <2>3, <2>4, <2>5, <2>6, <2>7
<1>5. \/ NothingToDo(c)
      \/ \E s \in {"RUNNING", "PAUSED", "SHUTDOWN", "TERMINATING"}, next \in {"list", "drain"} :
            /\ EnterExclusive(c, s, next)
            /\ status # "TERMINATED"
            /\ next = "drain" <=> s = "SHUTDOWN"
            /\ next = "drain" => op[c] \in {"shutdown", "close"}
            /\ op[c] = "pause" => status = "RUNNING" /\ s = "PAUSED"
            /\ op[c] = "resume" => status = "PAUSED" /\ s = "RUNNING"
            /\ op[c] \in {"shutdown", "close"} /\ next = "list" => status = "PAUSED" /\ s = "RUNNING"
            /\ op[c] \in {"terminate", "destroy"} => s = "TERMINATING"
  BY DEF EnterAlone
<1> QED BY <1>3, <1>4, <1>5

\* shutdown, drained, goes on to terminate; or goes on to drain once resumed.
LEMMA DrainedKeeps ==
    ASSUME TInv, LInv, BInv, NEW c \in Client, Drain(c), Drained, op[c] # "wait"
    PROVE BInv'
<1> USE PoolAssumption DEF TInv, TypeOK, pool, locks, tasks, list, workers, locals, bounds,
        BInv, Looping, Draining
<1>1. /\ pc[c] = "drain" /\ op[c] \in {"shutdown", "close"} /\ status' = "TERMINATING"
      /\ pc' = [pc EXCEPT ![c] = "list"]
      /\ UNCHANGED <<op, status_writer, list_writer, worker_list, created, todo, wstatus, arg>>
  BY DEF Drain, LInv, Places
<1>2. status_writer = c /\ status_readers = {} /\ status = "SHUTDOWN"
  BY <1>1 DEF LInv, StatusLock, Writes, ExclusiveOps, StatusKnown
<1>3. \A d \in Client : d # c => ~ InLoops(d) /\ ~ HoldsList(d) /\ list_writer # d
  BY <1>2, Alone
<1>4. ListLock'
  BY <1>1 DEF ListLock, HoldsList
<1>5. Born'
  BY <1>1 DEF Born
<1>6. StatusKnown'
  BY <1>1, <1>2, <1>3 DEF StatusKnown, InLoops, ExclusiveOps
<1>7. LoopProgress'
  <2>1. Agree(From(c))'
    BY <1>1 DEF Agree, From, Fits
  <2> QED BY <1>1, <1>3, <2>1 DEF LoopProgress, InLoops
<1>8. ResizeProgress'
  BY <1>1, <1>3 DEF ResizeProgress, HoldsList
<1>9. Settled'
  BY <1>1, <1>2 DEF Settled
<1> QED BY <1>4, <1>5, <1>6, <1>7, <1>8, <1>9

-----------------------------------------------------------------------------
(* The loops.                                                              *)

\* A loop begins with every worker at the first status, a resize with every
\* worker RUNNING.
LEMMA LockListKeeps ==
    ASSUME TInv, LInv, BInv, NEW c \in Client, LockList(c)
    PROVE BInv'
<1> USE PoolAssumption DEF TInv, TypeOK, pool, locks, tasks, list, workers, locals, bounds,
        BInv, Looping, Draining
<1>1. /\ pc[c] = "list" /\ list_writer = NoOne /\ list_writer' = c
      /\ pc' = [pc EXCEPT ![c] = IF op[c] = "add" THEN "adding" ELSE "each"]
      /\ UNCHANGED <<status, status_writer, op, worker_list, created, wstatus, arg>>
  BY DEF LockList
<1>2. todo' = [todo EXCEPT ![c] = CASE op[c] = "add" -> {} [] op[c] = "remove" -> Youngest(arg[c])
                                    [] OTHER -> worker_list]
  BY DEF LockList
<1>3. \A n : Youngest(n) \subseteq worker_list /\ Youngest(n)' = Youngest(n)
  BY <1>1 DEF Youngest
<1>4. op[c] \in {"add", "remove"} \cup ExclusiveOps
  BY <1>1 DEF LInv, Places
<1>5. \A d \in Client : ~ HoldsList(d)
  BY <1>1 DEF ListLock
<1>6. ListLock'
  BY <1>1, <1>5 DEF ListLock, HoldsList
<1>7. Born'
  <2>1. todo'[c] \subseteq worker_list
    BY <1>2, <1>3
  <2> QED BY <1>1, <1>2, <2>1 DEF Born
<1>8. StatusKnown'
  BY <1>1 DEF StatusKnown
<1>9. op[c] \in {"add", "remove"} => Agree("RUNNING")
  <2> SUFFICES ASSUME op[c] \in {"add", "remove"} PROVE Agree("RUNNING")
    OBVIOUS
  <2>1. status = "RUNNING" /\ status_writer = NoOne
    BY <1>1 DEF StatusKnown, LInv, StatusLock, Reads
  <2> QED BY <1>1, <2>1 DEF Settled
<1>10. LoopProgress'
  <2>1. ASSUME op[c] \in ExclusiveOps
        PROVE \A w \in worker_list : Fits(IF w \in todo'[c] THEN From(c)' ELSE To', wstatus'[w])
    <3>1. todo'[c] = worker_list
      BY <1>2, <2>1 DEF ExclusiveOps
    <3>2. Agree(From(c)) /\ From(c)' = From(c)
      BY <1>1, <2>1 DEF LoopProgress, From
    <3> QED BY <1>1, <3>1, <3>2 DEF Agree
  <2>2. ASSUME NEW d \in Client, d # c, op[d] \in ExclusiveOps, pc[d] = "list"
        PROVE Agree(From(d))'
    BY <1>1, <2>2 DEF LoopProgress, Agree, From
  <2> QED BY <1>1, <1>5, <2>1, <2>2 DEF LoopProgress, HoldsList
<1>11. ResizeProgress'
  <2>1. pc'[c] = "adding" => Agree("RUNNING")'
    BY <1>1, <1>9 DEF Agree
  <2>2. pc'[c] = "each" /\ op'[c] = "remove" =>
              /\ todo'[c] = Youngest(arg[c])
              /\ \A w \in worker_list : Fits("RUNNING", wstatus'[w])
    <3>1. CASE op[c] = "remove"
      BY <1>1, <1>2, <1>9, <3>1 DEF Agree
    <3>2. CASE op[c] # "remove"
      BY <1>1, <3>2
    <3> QED BY <3>1, <3>2
  <2>3. Youngest(arg[c])' = Youngest(arg[c])
    BY <1>1 DEF Youngest
  <2>4. \A d \in Client : d # c =>
          /\ pc'[d] \notin {"adding", "each"} /\ todo'[d] = todo[d]
          /\ ~ (pc'[d] \in {"erase", "join"} /\ op'[d] = "remove")
    BY <1>1, <1>2, <1>5 DEF HoldsList
  <2>5. pc'[c] \in {"adding", "each"}
    BY <1>1
  <2> QED BY <1>1, <2>1, <2>2, <2>3, <2>4, <2>5 DEF ResizeProgress
<1>12. Settled'
  BY <1>1 DEF Settled
<1> QED BY <1>6, <1>7, <1>8, <1>10, <1>11, <1>12

\* The owner of worker_list_mutex is alone in the part it guards.
LEMMA HolderAlone ==
    ASSUME TInv, LInv, BInv, NEW c \in Client, HoldsList(c)
    PROVE /\ list_writer = c /\ list_writer # NoOne
          /\ \A d \in Client : d # c => ~ HoldsList(d)
BY PoolAssumption DEF BInv, ListLock

\* One turn of a loop brings one worker to the status the loop aims at.
LEMMA EachKeeps ==
    ASSUME TInv, LInv, BInv, NEW c \in Client, Each(c)
    PROVE BInv'
<1> USE PoolAssumption DEF TInv, TypeOK, pool, locks, tasks, list, workers, locals, bounds,
        BInv, Looping, Draining
<1>1. PICK w \in todo[c] : Effect(c, w) /\ todo' = [todo EXCEPT ![c] = @ \ {w}]
  BY DEF Each
<1>2. /\ pc[c] = "each" /\ w \in Worker /\ w <= created
      /\ UNCHANGED <<status, status_writer, list_writer, op, pc, worker_list, created, arg>>
  BY <1>1 DEF Each, Born
<1>3. HoldsList(c) /\ list_writer # NoOne /\ \A d \in Client : d # c => ~ HoldsList(d)
  BY <1>2, HolderAlone DEF HoldsList
<1>4. wstatus' \in [Worker -> WorkerStatus] /\ \A v \in Worker : v # w => wstatus'[v] = wstatus[v]
  BY <1>1, <1>2 DEF Effect, WorkerPause, WorkerResume, WorkerTerminate, WorkerStatus
<1>5. op[c] \in {"remove"} \cup ExclusiveOps
  BY <1>2, <1>3 DEF LInv, Places, StatusKnown, ListLock, HoldsList
<1>6. ListLock' /\ StatusKnown' /\ Settled'
  BY <1>2, <1>3 DEF ListLock, HoldsList, StatusKnown, Settled
<1>7. Born'
  BY <1>1, <1>2, <1>4 DEF Born, Worker
<1>8. LoopProgress'
  <2>1. ASSUME op[c] \in ExclusiveOps
        PROVE \A v \in worker_list : Fits(IF v \in todo'[c] THEN From(c)' ELSE To', wstatus'[v])
    <3>1. From(c)' = From(c) /\ To' = To
      BY <1>2 DEF From, To
    <3>2. \A v \in worker_list : Fits(IF v \in todo[c] THEN From(c) ELSE To, wstatus[v])
      BY <1>2, <2>1 DEF LoopProgress
    <3>3. w \in worker_list => Fits(To, wstatus'[w])
      <4> SUFFICES ASSUME w \in worker_list PROVE Fits(To, wstatus'[w])
        OBVIOUS
      <4>1. Fits(From(c), wstatus[w])
        BY <1>1, <3>2
      <4>2. CASE op[c] = "pause"
        <5>1. status = "PAUSED"
          BY <1>2, <2>1, <4>2 DEF LInv, Known, Writes
        <5> QED BY <1>1, <1>2, <4>1, <4>2, <5>1 DEF From, To, Fits, Effect, WorkerPause
      <4>3. CASE op[c] = "resume" \/ (op[c] \in {"shutdown", "close"} /\ status = "RUNNING")
        <5>1. status = "RUNNING"
          BY <1>2, <2>1, <4>3 DEF LInv, Known, Writes
        <5> QED BY <1>1, <1>2, <4>1, <4>3, <5>1 DEF From, To, Fits, Effect, WorkerResume
      <4>4. CASE ~ (op[c] \in {"pause", "resume"} \/ (op[c] \in {"shutdown", "close"} /\ status = "RUNNING"))
        <5>1. status = "TERMINATING"
          BY <1>2, <2>1, <4>4 DEF StatusKnown, ExclusiveOps
        <5>2. wstatus'[w] \in {"TERMINATED", "TERMINATING"}
          BY <1>1, <1>2, <4>4 DEF Effect, WorkerTerminate
        <5> QED BY <5>1, <5>2 DEF To, Fits
      <4> QED BY <4>2, <4>3, <4>4
    <3> QED BY <1>1, <1>2, <1>4, <3>1, <3>2, <3>3
  <2>2. ASSUME NEW d \in Client, d # c, op[d] \in ExclusiveOps, pc[d] = "list"
        PROVE Agree(From(d))'
    <3>1. ~ Writes(c) /\ Writes(d)
      BY <2>2 DEF LInv, StatusLock, Writes
    <3>2. op[c] = "remove"
      BY <1>2, <1>5, <3>1 DEF Writes
    <3>3. Reads(c)
      BY <1>2, <3>2 DEF Reads
    <3> QED BY <3>1, <3>3 DEF LInv, StatusLock
  <2> QED BY <1>2, <1>3, <2>1, <2>2 DEF LoopProgress, HoldsList
<1>9. ResizeProgress'
  <2>1. \A n : Youngest(n)' = Youngest(n)
    BY <1>2 DEF Youngest
  <2>2. op[c] = "remove" =>
              /\ todo'[c] \subseteq Youngest(arg[c])
              /\ \A v \in worker_list \ Youngest(arg[c]) : Fits("RUNNING", wstatus'[v])
    BY <1>1, <1>2, <1>4 DEF ResizeProgress
  <2>3. \A d \in Client : d # c => pc[d] \notin {"adding", "each"} /\ todo'[d] = todo[d]
    BY <1>1, <1>3 DEF HoldsList
  <2> QED BY <1>2, <1>3, <2>1, <2>2, <2>3 DEF ResizeProgress, HoldsList
<1> QED BY <1>6, <1>7, <1>8, <1>9

\* The loops of pause, resume and terminate end.
LEMMA EndLoopKeeps ==
    ASSUME TInv, LInv, BInv, NEW c \in Client,
           EndPauseOrResume(c) \/ EndResumeForShutdown(c) \/ EndTerminate(c)
    PROVE BInv'
<1> USE PoolAssumption DEF TInv, TypeOK, pool, locks, tasks, list, workers, locals, bounds
<1>1. /\ pc[c] = "each" /\ todo[c] = {} /\ UNCHANGED <<worker_list, created, wstatus, arg>>
      /\ op[c] \in {"remove"} \cup ExclusiveOps
  BY DEF EndPauseOrResume, EndResumeForShutdown, EndTerminate, LInv, Places, Looping, BInv,
         StatusKnown
<1>2. HoldsList(c) /\ list_writer = c
  BY <1>1, HolderAlone DEF HoldsList
<1>3. op[c] \in ExclusiveOps
  <2>1. CASE op[c] = "remove"
    <3>1. status = "RUNNING"
      BY <1>1, <2>1 DEF BInv, StatusKnown, Looping
    <3> QED BY <2>1, <3>1 DEF EndPauseOrResume, EndResumeForShutdown, EndTerminate
  <2> QED BY <1>1, <2>1
<1>4. Agree(To) /\ status_writer = c
  BY <1>1, <1>3 DEF BInv, LoopProgress, Agree, LInv, StatusLock, Writes, Looping
<1>5. \A d \in Client : d # c => pc'[d] = pc[d] /\ op'[d] = op[d]
                                 /\ arg'[d] = arg[d] /\ todo'[d] = todo[d]
  BY <1>1 DEF EndPauseOrResume, EndResumeForShutdown, EndTerminate, Return, Leave
<1>6. list_writer' = NoOne /\ \A d \in Client : todo'[d] = todo[d] \/ todo'[d] = worker_list
  BY <1>2 DEF EndPauseOrResume, EndResumeForShutdown, EndTerminate, Return, UnlockAll
<1>7. CASE EndPauseOrResume(c)
  <2>1. status \in {"RUNNING", "PAUSED"} /\ status' = status /\ pc'[c] \in {"idle", "status"}
    BY <1>1, <1>7 DEF EndPauseOrResume, LInv, Known, Writes, Looping, ExclusiveOps, Return, Leave
  <2>2. Agree(status)'
    BY <1>1, <1>4, <2>1 DEF Agree, To
  <2> QED BY <1>1, <1>2, <1>5, <1>6, <2>1, <2>2, EndKeeps
<1>8. CASE EndResumeForShutdown(c)
  <2>1. /\ status = "RUNNING" /\ status' = "SHUTDOWN"
        /\ pc'[c] = "drain" /\ op'[c] \in {"shutdown", "close"}
    BY <1>8 DEF EndResumeForShutdown
  <2>2. Agree(status)'
    BY <2>1 DEF Agree, Fits
  <2> QED BY <1>1, <1>2, <1>4, <1>5, <1>6, <2>1, <2>2, EndKeeps
<1>9. CASE EndTerminate(c)
  <2>1. status = "TERMINATING" /\ status' = "TERMINATED"
    BY <1>9 DEF EndTerminate, FinalStatus
  <2>2. Agree(status)'
    BY <1>1, <1>4, <2>1 DEF Agree, To
  <2>3. pc'[c] \in {"idle", "status"} \/ (pc'[c] = "erase" /\ op'[c] = "destroy")
    BY <1>9 DEF EndTerminate, Return, Leave
  <2> QED BY <1>1, <1>2, <1>4, <1>5, <1>6, <2>1, <2>2, <2>3, EndKeeps
<1> QED BY <1>7, <1>8, <1>9

\* add_thread and remove_thread end, and so does ~thread_pool.
LEMMA EndResizeKeeps ==
    ASSUME TInv, LInv, BInv, NEW c \in Client, EndAdd(c) \/ EndErase(c)
    PROVE BInv'
<1> USE PoolAssumption DEF TInv, TypeOK, pool, locks, tasks, list, workers, locals, bounds
<1>1. /\ UNCHANGED <<status, worker_list, created, wstatus, arg, todo>>
      /\ \A d \in Client : d # c => pc'[d] = pc[d] /\ op'[d] = op[d]
  BY DEF EndAdd, EndErase, Return, Leave
<1>2. CASE EndAdd(c) \/ op[c] = "remove"
  <2>1. HoldsList(c) /\ list_writer = c
    BY <1>2, HolderAlone DEF EndAdd, EndErase, HoldsList
  <2>2. Agree("RUNNING") /\ status = "RUNNING"
    BY <1>2 DEF EndAdd, EndErase, BInv, ResizeProgress, StatusKnown, Agree, LInv, Places
  <2>3. Agree(status)'
    BY <1>1, <2>2 DEF Agree
  <2>4. list_writer' = NoOne /\ pc'[c] \in {"idle", "status"}
    BY <1>2, <2>1 DEF EndAdd, EndErase, Return, Leave, UnlockAll
  <2> QED BY <1>1, <2>1, <2>3, <2>4, EndKeeps
<1>3. CASE EndErase(c) /\ op[c] = "destroy"
  <2>1. ~ HoldsList(c) /\ pc'[c] \in Plain /\ UNCHANGED <<status_writer, list_writer>>
    BY <1>3 DEF EndErase, HoldsList, Plain
  <2>2. OwnChange
    BY <1>1 DEF OwnChange
  <2> QED BY <1>1, <2>1, <2>2, QuietKeeps DEF Outside
<1> QED BY <1>2, <1>3 DEF EndErase

\* A call of the resize kind excludes the exclusive calls.
LEMMA ResizeAlone ==
    ASSUME TInv, LInv, NEW c \in Client, Reads(c)
    PROVE \A d \in Client : ~ Writes(d)
BY PoolAssumption DEF LInv, StatusLock

\* remove_thread goes on to erase the workers it has terminated.
LEMMA EndTerminateRemovedKeeps ==
    ASSUME TInv, LInv, BInv, NEW c \in Client, EndTerminateRemoved(c)
    PROVE BInv'
<1> USE PoolAssumption DEF TInv, TypeOK, pool, locks, tasks, list, workers, locals, bounds,
        BInv, Looping, Draining
<1>1. /\ pc[c] = "each" /\ op[c] = "remove" /\ pc' = [pc EXCEPT ![c] = "erase"]
      /\ todo' = [todo EXCEPT ![c] = Youngest(arg[c])]
      /\ UNCHANGED <<status, status_writer, list_writer, op, worker_list, created, wstatus, arg>>
  BY DEF EndTerminateRemoved
<1>2. HoldsList(c) /\ list_writer # NoOne /\ \A d \in Client : d # c => ~ HoldsList(d)
  BY <1>1, HolderAlone DEF HoldsList
<1>3. Youngest(arg[c]) \subseteq worker_list
  BY DEF Youngest
<1>4. ListLock'
  BY <1>1, <1>2 DEF ListLock, HoldsList
<1>5. Born'
  BY <1>1, <1>3 DEF Born
<1>6. StatusKnown'
  BY <1>1 DEF StatusKnown
<1>7. LoopProgress'
  <2>1. \A d \in Client : ~ Writes(d)
    BY <1>1, ResizeAlone DEF Reads
  <2> QED BY <1>1, <2>1 DEF LoopProgress, Writes, ExclusiveOps
<1>8. ResizeProgress'
  <2>1. \A w \in worker_list \ todo'[c] : Fits("RUNNING", wstatus'[w])
    BY <1>1 DEF ResizeProgress
  <2>2. \A d \in Client : d # c => pc[d] \notin {"adding", "each"} /\ todo'[d] = todo[d]
    BY <1>1, <1>2 DEF HoldsList
  <2> QED BY <1>1, <1>2, <2>1, <2>2 DEF ResizeProgress, HoldsList
<1>9. Settled'
  BY <1>1, <1>2 DEF Settled
<1> QED BY <1>4, <1>5, <1>6, <1>7, <1>8, <1>9

\* add_thread starts a thread that is RUNNING, as the pool is.
LEMMA AddOneKeeps ==
    ASSUME TInv, LInv, BInv, NEW c \in Client, AddOne(c)
    PROVE BInv'
<1> USE PoolAssumption DEF TInv, TypeOK, pool, locks, tasks, list, workers, locals, bounds,
        BInv, Looping, Draining
<1>1. /\ pc[c] = "adding" /\ op[c] = "add" /\ created' = created + 1
      /\ worker_list' = worker_list \cup {created + 1} /\ created + 1 \in Worker
      /\ arg' = [arg EXCEPT ![c] = @ - 1]
      /\ UNCHANGED <<status, status_writer, list_writer, op, pc, wstatus, todo>>
  BY DEF AddOne, CanStart, Worker, LInv, Places
<1>2. HoldsList(c) /\ list_writer # NoOne /\ \A d \in Client : d # c => ~ HoldsList(d)
  BY <1>1, HolderAlone DEF HoldsList
<1>3. ListLock' /\ StatusKnown' /\ Settled'
  BY <1>1, <1>2 DEF ListLock, HoldsList, StatusKnown, Settled
<1>4. Born'
  BY <1>1 DEF Born, Worker
<1>5. LoopProgress'
  <2>1. \A d \in Client : ~ Writes(d)
    BY <1>1, ResizeAlone DEF Reads
  <2> QED BY <1>1, <2>1 DEF LoopProgress, Writes, ExclusiveOps
<1>6. ResizeProgress'
  <2>1. wstatus[created + 1] = "RUNNING"
    BY <1>1 DEF Born
  <2>2. Agree("RUNNING")'
    BY <1>1, <2>1 DEF ResizeProgress, Agree, Fits
  <2>3. \A d \in Client : d # c => pc[d] \notin {"adding", "each"}
    BY <1>2 DEF HoldsList
  <2>4. \A d \in Client : pc[d] = "join" =>
          \A w \in todo[d] : (\A v \in todo[d] : w <= v) => w \notin worker_list'
    BY <1>1 DEF ResizeProgress, Born, Worker
  <2> QED BY <1>1, <1>2, <2>2, <2>3, <2>4 DEF ResizeProgress, HoldsList
<1> QED BY <1>3, <1>4, <1>5, <1>6

\* The destructor of a worker, in remove_thread and in ~thread_pool: it leaves
\* the list before it is joined.
LEMMA EraseKeeps ==
    ASSUME TInv, LInv, BInv, NEW c \in Client, Erase(c)
    PROVE BInv'
<1> USE PoolAssumption DEF TInv, TypeOK, pool, locks, tasks, list, workers, locals, bounds,
        BInv, Looping, Draining
<1>1. PICK w \in todo[c] :
        /\ \A v \in todo[c] : w <= v
        /\ worker_list' = worker_list \ {w}
        /\ WorkerTerminate(w)
  BY DEF Erase
<1>2. /\ pc[c] = "erase" /\ pc' = [pc EXCEPT ![c] = "join"] /\ op[c] \in {"remove", "destroy"}
      /\ w \in Worker /\ w <= created
      /\ UNCHANGED <<status, status_writer, list_writer, op, created, todo, arg>>
  BY <1>1 DEF Erase, LInv, Places, Born
<1>3. /\ wstatus' \in [Worker -> WorkerStatus]
      /\ wstatus'[w] \in {"TERMINATING", "TERMINATED"}
      /\ \A v \in Worker : v # w => wstatus'[v] = wstatus[v]
  BY <1>1, <1>2 DEF WorkerTerminate, WorkerStatus
<1>4. ListLock' /\ StatusKnown'
  BY <1>2 DEF ListLock, HoldsList, StatusKnown
<1>5. Born'
  BY <1>1, <1>2, <1>3 DEF Born, Worker
<1>6. /\ status \in {"RUNNING", "TERMINATED"} /\ \A d \in Client : ~ Writes(d)
      /\ op[c] = "remove" => HoldsList(c) /\ list_writer = c /\ status = "RUNNING"
      /\ op[c] = "destroy" => status = "TERMINATED"
  <2>1. CASE op[c] = "remove"
    <3>1. status = "RUNNING" /\ Reads(c) /\ HoldsList(c)
      BY <1>2, <2>1 DEF StatusKnown, Reads, HoldsList
    <3> QED BY <2>1, <3>1, ResizeAlone, HolderAlone
  <2>2. CASE op[c] = "destroy"
    <3>1. status = "TERMINATED"
      BY <1>2, <2>2 DEF StatusKnown
    <3>2. \A d \in Client : ~ Writes(d)
      BY <3>1 DEF Writes, StatusKnown, LInv, Known, Places, ExclusiveOps
    <3> QED BY <2>2, <3>1, <3>2
  <2> QED BY <1>2, <2>1, <2>2
<1>7. LoopProgress'
  BY <1>2, <1>6 DEF LoopProgress, Writes, ExclusiveOps
<1>8. ResizeProgress'
  <2>1. ASSUME NEW d \in Client, d # c, pc[d] = "adding" PROVE FALSE
    <3>1. HoldsList(d) /\ status = "RUNNING"
      BY <2>1 DEF HoldsList, LInv, Places, StatusKnown
    <3> QED BY <1>2, <1>6, <2>1, <3>1, HolderAlone
  <2>2. ASSUME NEW d \in Client, d # c, op[d] = "remove", pc[d] \in {"each", "erase", "join"}
        PROVE FALSE
    <3>1. HoldsList(d) /\ status = "RUNNING"
      BY <2>2 DEF HoldsList, StatusKnown
    <3> QED BY <1>2, <1>6, <2>2, <3>1, HolderAlone
  <2>3. op[c] = "remove" => \A v \in worker_list' \ todo[c] : Fits("RUNNING", wstatus'[v])
    BY <1>1, <1>2, <1>3 DEF ResizeProgress
  <2>4. \A v \in todo[c] : (\A u \in todo[c] : v <= u) => v \notin worker_list'
    BY <1>1, <1>2 DEF Worker
  <2>5. \A d \in Client : d # c /\ pc[d] = "join" =>
          \A v \in todo[d] : (\A u \in todo[d] : v <= u) => v \notin worker_list'
    BY <1>1 DEF ResizeProgress
  <2> QED BY <1>2, <2>1, <2>2, <2>3, <2>4, <2>5 DEF ResizeProgress
<1>9. Settled'
  BY <1>1, <1>2, <1>3, <1>6 DEF Settled, Agree, Fits
<1> QED BY <1>4, <1>5, <1>7, <1>8, <1>9

\* The worker that is joined has left the list.
LEMMA JoinKeeps ==
    ASSUME TInv, LInv, BInv, NEW c \in Client, Join(c)
    PROVE BInv'
<1> USE PoolAssumption DEF TInv, TypeOK, pool, locks, tasks, list, workers, locals, bounds,
        BInv, Looping, Draining
<1>1. PICK w \in todo[c] :
        (\A v \in todo[c] : w <= v) /\ todo' = [todo EXCEPT ![c] = @ \ {w}]
  BY DEF Join
<1>2. /\ pc[c] = "join" /\ pc' = [pc EXCEPT ![c] = "erase"] /\ op[c] \in {"remove", "destroy"}
      /\ UNCHANGED <<status, status_writer, list_writer, op, worker_list, created, wstatus, arg>>
  BY DEF Join, LInv, Places
<1>3. w \notin worker_list
  BY <1>1, <1>2 DEF ResizeProgress
<1>4. ListLock' /\ StatusKnown'
  BY <1>2 DEF ListLock, HoldsList, StatusKnown
<1>5. Born'
  BY <1>1, <1>2 DEF Born
<1>6. LoopProgress'
  <2>1. \A d \in Client : d # c => todo'[d] = todo[d] /\ pc'[d] = pc[d]
    BY <1>1, <1>2
  <2>2. ASSUME NEW d \in Client, d # c, op[d] \in ExclusiveOps, pc[d] = "list"
        PROVE Agree(From(d))'
    BY <1>2, <2>2 DEF LoopProgress, Agree, From
  <2>3. ASSUME NEW d \in Client, d # c, op[d] \in ExclusiveOps, pc[d] = "each", NEW v \in worker_list
        PROVE Fits(IF v \in todo'[d] THEN From(d)' ELSE To', wstatus'[v])
    BY <1>2, <2>1, <2>3 DEF LoopProgress, From, To
  <2> QED BY <1>2, <2>2, <2>3 DEF LoopProgress
<1>7. ResizeProgress'
  <2>1. \A n : Youngest(n)' = Youngest(n)
    BY <1>2 DEF Youngest
  <2>2. Agree("RUNNING")' <=> Agree("RUNNING")
    BY <1>2 DEF Agree
  <2>3. op[c] = "remove" => \A v \in worker_list \ todo'[c] : Fits("RUNNING", wstatus[v])
    BY <1>1, <1>2, <1>3 DEF ResizeProgress
  <2> QED BY <1>1, <1>2, <2>1, <2>2, <2>3 DEF ResizeProgress
<1>8. Settled'
  BY <1>2 DEF Settled, Agree
<1> QED BY <1>4, <1>5, <1>6, <1>7, <1>8

-----------------------------------------------------------------------------
\* BInv holds in every reachable state.
LEMMA Agreeing == Spec => [](TInv /\ LInv /\ BInv)
<1>1. Init => BInv
  <2> SUFFICES ASSUME Init PROVE BInv
    OBVIOUS
  <2> USE PoolAssumption DEF Init, Looping, Draining
  <2>1. ListLock /\ StatusKnown /\ LoopProgress /\ ResizeProgress
    BY DEF ListLock, HoldsList, StatusKnown, LoopProgress, ResizeProgress
  <2>2. Born
    BY DEF Born, Worker
  <2>3. Settled
    BY DEF Settled, Agree, Fits, Worker
  <2> QED BY <2>1, <2>2, <2>3 DEF BInv
<1>2. TInv /\ LInv /\ BInv /\ [Next]_vars => BInv'
  <2> SUFFICES ASSUME TInv, LInv, BInv, [Next]_vars PROVE BInv'
    OBVIOUS
  <2>1. ASSUME NEW c \in Client, ClientStep(c) PROVE BInv'
    BY <2>1, CallersQuiet, EnterKeeps, EnterAloneKeeps, DrainedKeeps, LockListKeeps, EachKeeps,
       EndLoopKeeps, EndResizeKeeps, EndTerminateRemovedKeeps, AddOneKeeps, EraseKeeps, JoinKeeps
       DEF ClientStep
  <2> QED BY <2>1, CallersQuiet, WorkersQuiet DEF Next
<1>3. QED
  BY <1>1, <1>2, Locking, PTL DEF Spec

\* Between calls every worker in the list has the status that the pool's
\* promises: running or asleep on the queue, paused, or told to stop
\* (thread_pool.cpp:49-205 with worker_thread.cpp:31-260).
THEOREM PoolAgrees == Spec => []PoolAndWorkersAgree
<1>1. BInv => PoolAndWorkersAgree
  BY DEF BInv, Settled, Agree, Fits, PoolAndWorkersAgree
<1> QED BY <1>1, Agreeing, PTL

-----------------------------------------------------------------------------
(* The pool as Server uses it, never terminated and never destroyed but    *)
(* after a shutdown: no task is left behind.                               *)

\* ~thread_pool runs only after shutdown(), as in ~Server (call close).
InOrder == Ops \cap {"terminate", "destroy"} = {}

\* Nothing is queued once the drain is over, and nobody else is there to
\* submit when the pool goes.
Stopped == status \in {"TERMINATING", "TERMINATED"} => task_queue = <<>>
DestroysLast ==
    \A c \in Client :
        /\ op[c] # "terminate"
        /\ op[c] = "destroy" => status = "TERMINATED"

DInv == Stopped /\ DestroysLast

\* How the status moves when it is only shut down.
LEMMA ShutdownView ==
    ASSUME TInv, LInv, BInv, DInv, InOrder, [Next]_vars
    PROVE /\ status = "TERMINATED" => status' = "TERMINATED"
          /\ status' \in {"TERMINATING", "TERMINATED"} =>
                status \in {"TERMINATING", "TERMINATED"} \/ (Untouched /\ task_queue = <<>>)
          /\ \A c \in Client : op'[c] \in {"terminate", "destroy"} =>
                op[c] = op'[c] \/ (op'[c] = "destroy" /\ op[c] = "close" /\ status' = "TERMINATED")
<1> USE PoolAssumption
    DEF TInv, TypeOK, pool, locks, tasks, list, workers, locals, bounds, InOrder
<1> DEFINE Moves ==
      /\ status = "TERMINATED" => status' = "TERMINATED"
      /\ status' \in {"TERMINATING", "TERMINATED"} =>
            status \in {"TERMINATING", "TERMINATED"} \/ (Untouched /\ task_queue = <<>>)
      /\ \A c \in Client : op'[c] \in {"terminate", "destroy"} =>
            op[c] = op'[c] \/ (op'[c] = "destroy" /\ op[c] = "close" /\ status' = "TERMINATED")
<1>1. CASE UNCHANGED <<status, op>>
  BY <1>1
<1>2. ASSUME NEW c \in Client, NEW o \in Ops, Call(c, o) PROVE Moves
  BY <1>2 DEF Call
<1>3. ASSUME NEW c \in Client, EnterAlone(c) PROVE Moves
  <2>1. /\ status_writer = NoOne /\ op[c] \in ExclusiveOps \ {"terminate"}
        /\ op[c] = "destroy" => status = "TERMINATED"
        /\ status \in {"RUNNING", "PAUSED", "TERMINATED"}
    BY <1>3 DEF EnterAlone, StatusFree, DInv, DestroysLast, LInv, TransientHidden
  <2>2. \/ /\ status # "TERMINATED" /\ status' \in {"RUNNING", "PAUSED", "SHUTDOWN"} /\ op' = op
        \/ /\ status' = status
           /\ op[c] \in {"shutdown", "close"} => status = "TERMINATED"
           /\ op' = op \/ op' = [op EXCEPT ![c] = IF op[c] = "close" THEN "destroy" ELSE "none"]
    BY <1>3, <2>1 DEF EnterAlone, EnterExclusive, NothingToDo, Leave, ExclusiveOps
  <2> QED BY <2>2
<1>4. ASSUME NEW c \in Client, Drain(c) PROVE Moves
  <2>1. CASE Drained /\ op[c] # "wait"
    <3>1. op[c] \in {"shutdown", "close"} /\ status = "SHUTDOWN"
      BY <1>4, <2>1 DEF Drain, LInv, Places, BInv, StatusKnown, Draining
    <3>2. Untouched /\ task_queue = <<>> /\ op' = op
      BY <1>4, <2>1 DEF Drain, Drained, Untouched
    <3> QED BY <3>1, <3>2
  <2>2. CASE ~ (Drained /\ op[c] # "wait")
    <3>1. status' = status /\ (op' = op \/ op' = [op EXCEPT ![c] = "none"])
      BY <1>4, <2>2 DEF Drain, Return, Leave
    <3> QED BY <3>1
  <2> QED BY <2>1, <2>2
<1>5. ASSUME NEW c \in Client, EndResumeForShutdown(c) \/ EndTerminate(c) PROVE Moves
  BY <1>5 DEF EndResumeForShutdown, EndTerminate, FinalStatus, Return, Leave
<1>6. ASSUME NEW c \in Client,
             \/ Enter(c) \/ Compare(c) \/ Notify(c) \/ EndPauseOrResume(c) \/ EndAdd(c)
             \/ EndErase(c)
      PROVE Moves
  <2>1. status' = status /\ (op' = op \/ op' = [op EXCEPT ![c] = "none"])
    BY <1>6 DEF Enter, EnterShared, Compare, Notify, EndPauseOrResume, EndAdd, EndErase, Return,
                Leave, SubmitsATask, Submitting, LInv, Places
  <2> QED BY <2>1
<1>7. ASSUME NEW c \in Client,
             \/ SetMaxTaskCount(c) \/ Limited(c) \/ GetTaskCount(c) \/ Push(c) \/ LockList(c)
             \/ Each(c) \/ EndTerminateRemoved(c) \/ AddOne(c) \/ Erase(c) \/ Join(c)
      PROVE UNCHANGED <<status, op>>
  BY <1>7 DEF SetMaxTaskCount, Limited, GetTaskCount, Push, LockList, Each, EndTerminateRemoved,
              AddOne, Erase, Join
<1>8. CASE (\E w \in Worker : WorkerStep(w)) \/ SpuriousWake \/ UNCHANGED vars
  <2>1. UNCHANGED <<status, op>>
    BY <1>8 DEF WorkerStep, Check, Acquire, Lock, Precheck, Wait, Postcheck, Take, Run,
                SpuriousWake, vars
  <2> QED BY <1>1, <2>1
<1> QED BY <1>1, <1>2, <1>3, <1>4, <1>5, <1>6, <1>7, <1>8 DEF Next, ClientStep

\* A pool that is only shut down has an empty queue when it is terminated.
LEMMA Stopping == ASSUME InOrder PROVE Spec => [](TInv /\ LInv /\ BInv /\ CInv /\ DInv)
<1>1. Init => DInv
  BY DEF Init, DInv, Stopped, DestroysLast
<1>2. TInv /\ LInv /\ BInv /\ CInv /\ DInv /\ [Next]_vars => DInv'
  <2> SUFFICES ASSUME TInv, LInv, BInv, CInv, DInv, [Next]_vars PROVE DInv'
    OBVIOUS
  <2>1. DestroysLast'
    BY ShutdownView DEF DInv, DestroysLast
  <2>2. Stopped'
    <3>1. CASE Untouched
      BY <3>1, ShutdownView DEF Untouched, tasks, DInv, Stopped
    <3>2. ASSUME NEW c \in Client, Push(c) PROVE Stopped'
      <4>1. status = "RUNNING" /\ status' = status
        BY <3>2, PushKeeps DEF Push, LInv, Known, Submitting
      <4> QED BY <4>1 DEF Stopped
    <3>3. ASSUME NEW w \in Worker, Take(w) PROVE Stopped'
      BY <3>3, TakeKeeps DEF DInv, Stopped
    <3>4. ASSUME NEW w \in Worker, Run(w) PROVE Stopped'
      BY <3>4, RunKeeps DEF DInv, Stopped
    <3> QED BY <3>1, <3>2, <3>3, <3>4, TaskView
  <2> QED BY <2>1, <2>2 DEF DInv
<1>3. QED
  BY <1>1, <1>2, Agreeing, Conserving, PTL DEF Spec

\* shutdown() leaves no task in the queue (thread_pool.cpp:112-135).
THEOREM ShutdownEmpties == ASSUME InOrder PROVE Spec => []ShutdownDrains
<1>1. DInv => ShutdownDrains
  BY DEF DInv, Stopped, ShutdownDrains
<1> QED BY <1>1, Stopping, PTL

-----------------------------------------------------------------------------
(* The destruction: alone, and of every worker.                            *)

Solo ==
    \A c \in Client : op[c] \in {"destroy", "close"} =>
        \A d \in Client : d # c => pc[d] = "idle"

First(c, w) == w \in todo[c] /\ \A v \in todo[c] : w <= v

\* A started worker is in the list, or has ended, or is being joined.
Reaped ==
    \A w \in Worker : w <= created /\ w \notin worker_list =>
        wpc[w] = "exited" \/ \E c \in Client : pc[c] = "join" /\ First(c, w)

Erasing ==
    \A c \in Client :
        /\ pc[c] = "erase" => todo[c] \subseteq worker_list
        /\ pc[c] = "join" => \A w \in todo[c] : w \in worker_list \/ First(c, w)
        /\ pc[c] \in {"erase", "join"} /\ op[c] = "destroy" => worker_list \subseteq todo[c]
        /\ pc[c] = "gone" => op[c] = "destroy" /\ worker_list = {}

GInv == Solo /\ Reaped /\ Erasing

\* A client's step is its own.
LEMMA Own ==
    ASSUME TInv, NEW c \in Client, ClientStep(c)
    PROVE /\ pc[c] \notin {"idle", "gone"}
          /\ \A d \in Client : d # c => pc'[d] = pc[d] /\ op'[d] = op[d] /\ todo'[d] = todo[d]
<1> USE DEF TInv, TypeOK, locals
<1>1. CASE Enter(c) \/ Limited(c) \/ GetTaskCount(c) \/ Compare(c) \/ Push(c) \/ Notify(c)
  BY <1>1 DEF Enter, EnterShared, Limited, GetTaskCount, Compare, Push, Notify, Return, Leave
<1>2. CASE EnterAlone(c)
  BY <1>2 DEF EnterAlone, EnterExclusive, NothingToDo, Leave
<1>3. CASE Drain(c) \/ LockList(c) \/ Each(c) \/ EndPauseOrResume(c) \/ EndResumeForShutdown(c)
  BY <1>3 DEF Drain, LockList, Each, EndPauseOrResume, EndResumeForShutdown, Return, Leave
<1>4. CASE EndTerminate(c) \/ EndTerminateRemoved(c) \/ AddOne(c) \/ EndAdd(c)
  BY <1>4 DEF EndTerminate, EndTerminateRemoved, AddOne, EndAdd, Return, Leave
<1>5. CASE Erase(c) \/ Join(c) \/ EndErase(c)
  BY <1>5 DEF Erase, Join, EndErase, Return, Leave
<1> QED BY <1>1, <1>2, <1>3, <1>4, <1>5 DEF ClientStep

\* A worker that has ended stays so.
LEMMA ExitedStays ==
    ASSUME TInv, [Next]_vars, NEW w \in Worker, wpc[w] = "exited"
    PROVE wpc'[w] = "exited"
<1>1. wpc \in [Worker -> WorkerPcs]
  BY DEF TInv, TypeOK
<1>2. ASSUME NEW v \in Worker, WorkerStep(v) PROVE wpc'[w] = "exited"
  BY <1>1, <1>2 DEF WorkerStep, Check, Acquire, Lock, Precheck, Wait, Postcheck, Take, Run, SemPcs
<1>3. CASE Wakes
  BY <1>3 DEF Wakes
<1>4. ASSUME NEW v \in Worker, Starts(v) PROVE wpc'[w] = "exited"
  BY <1>1, <1>4 DEF Starts
<1> QED BY <1>2, <1>3, <1>4, WorkerView

\* A step of a client that neither erases nor joins, and adds no worker.
LEMMA PlainKeeps ==
    ASSUME TInv, GInv, [Next]_vars, NEW c \in Client,
           UNCHANGED <<worker_list, created>>,
           \A d \in Client : d # c => pc'[d] = pc[d] /\ op'[d] = op[d] /\ todo'[d] = todo[d],
           op'[c] \in {"destroy", "close"} => op[c] \in {"destroy", "close"},
           pc[c] \notin {"idle", "join"},
           \/ pc'[c] \notin {"erase", "join", "gone"}
           \/ pc'[c] = "erase" /\ op'[c] = "destroy" /\ todo'[c] = worker_list
           \/ pc'[c] = "erase" /\ op'[c] = "remove" /\ todo'[c] \subseteq worker_list
           \/ pc'[c] = "gone" /\ op'[c] = "destroy" /\ worker_list = {}
    PROVE GInv'
<1> USE DEF TInv, TypeOK, GInv
<1>1. Solo'
  BY DEF Solo
<1>2. Reaped'
  BY ExitedStays DEF Reaped, First
<1>3. Erasing'
  BY DEF Erasing, First
<1> QED BY <1>1, <1>2, <1>3

\* The steps of a client in the list of workers.
LEMMA ListStepKeeps ==
    ASSUME TInv, LInv, BInv, GInv, [Next]_vars, NEW c \in Client, ClientStep(c),
           AddOne(c) \/ Erase(c) \/ Join(c)
    PROVE GInv'
<1> USE PoolAssumption
    DEF TInv, TypeOK, GInv, pool, locks, tasks, list, workers, locals, bounds
<1>1. /\ pc[c] \notin {"idle", "gone"} /\ op' = op
      /\ \A d \in Client : d # c => pc'[d] = pc[d] /\ op'[d] = op[d] /\ todo'[d] = todo[d]
  BY Own DEF AddOne, Erase, Join
<1>2. Solo'
  BY <1>1 DEF Solo
<1>3. \A d \in Client : d # c => op[d] \notin {"destroy", "close"} /\ pc[d] # "gone"
  BY <1>1 DEF Solo, Erasing
<1>4. \A d \in Client : pc[d] \in {"erase", "join"} => op[d] \in {"remove", "destroy"}
  BY DEF LInv, Places
<1>5. ASSUME HoldsList(c), NEW d \in Client, d # c PROVE pc[d] \notin {"erase", "join"}
  BY <1>3, <1>4, <1>5, HolderAlone DEF HoldsList
<1>6. \A d \in Client : d # c => pc[d] \notin {"erase", "join"}
  <2>1. CASE op[c] = "destroy"
    BY <2>1 DEF Solo
  <2>2. CASE op[c] # "destroy"
    BY <1>4, <1>5, <2>2 DEF AddOne, Erase, Join, HoldsList
  <2> QED BY <2>1, <2>2
<1>7. CASE AddOne(c)
  <2>1. /\ pc[c] = "adding" /\ op[c] = "add" /\ UNCHANGED <<pc, todo>>
        /\ created' = created + 1 /\ worker_list' = worker_list \cup {created + 1}
    BY <1>7 DEF AddOne, LInv, Places
  <2>2. Reaped'
    BY <1>6, <2>1, ExitedStays DEF Reaped, First, Worker
  <2>3. Erasing'
    BY <1>3, <1>6, <2>1 DEF Erasing
  <2> QED BY <1>2, <2>2, <2>3
<1>8. CASE Erase(c)
  <2>1. PICK w \in todo[c] : (\A v \in todo[c] : w <= v) /\ worker_list' = worker_list \ {w}
    BY <1>8 DEF Erase
  <2>2. /\ pc[c] = "erase" /\ pc' = [pc EXCEPT ![c] = "join"] /\ UNCHANGED <<todo, created>>
    BY <1>8 DEF Erase
  <2>3. First(c, w) /\ First(c, w)'
    BY <2>1, <2>2 DEF First
  <2>4. Reaped'
    <3> SUFFICES ASSUME NEW v \in Worker, v <= created, v \notin worker_list', wpc'[v] # "exited"
                 PROVE pc'[c] = "join" /\ First(c, v)'
      BY <2>2 DEF Reaped
    <3>1. CASE v = w
      BY <2>2, <2>3, <3>1
    <3>2. CASE v # w
      <4>1. wpc[v] # "exited" /\ v \notin worker_list
        BY <2>1, <3>2, ExitedStays
      <4>2. \E d \in Client : pc[d] = "join" /\ First(d, v)
        BY <4>1 DEF Reaped
      <4> QED BY <1>6, <2>2, <4>2
    <3> QED BY <3>1, <3>2
  <2>5. Erasing'
    <3>1. \A d \in Client : d # c => pc'[d] \notin {"erase", "join", "gone"}
      BY <1>3, <1>6, <2>2
    <3>2. \A v \in todo[c] : v \in worker_list' \/ First(c, v)'
      BY <2>1, <2>2, <2>3 DEF Erasing
    <3>3. op[c] = "destroy" => worker_list' \subseteq todo[c]
      BY <2>1, <2>2 DEF Erasing
    <3> QED BY <1>1, <2>2, <3>1, <3>2, <3>3 DEF Erasing
  <2> QED BY <1>2, <2>4, <2>5
<1>9. CASE Join(c)
  <2>1. PICK w \in todo[c] : /\ \A v \in todo[c] : w <= v
                             /\ wpc[w] = "exited" /\ todo' = [todo EXCEPT ![c] = @ \ {w}]
    BY <1>9 DEF Join, Joined
  <2>2. /\ pc[c] = "join" /\ pc' = [pc EXCEPT ![c] = "erase"]
        /\ UNCHANGED <<worker_list, created, wpc>>
    BY <1>9 DEF Join
  <2>3. w \notin worker_list
    BY <2>1, <2>2 DEF BInv, ResizeProgress
  <2>4. \A v \in todo[c] : First(c, v) => v = w
    BY <2>1 DEF First, Worker
  <2>5. Reaped'
    <3> SUFFICES ASSUME NEW v \in Worker, v <= created, v \notin worker_list
                 PROVE wpc[v] = "exited"
      BY <2>2 DEF Reaped
    <3>1. wpc[v] = "exited" \/ First(c, v)
      BY <1>6 DEF Reaped
    <3> QED BY <2>1, <2>4, <3>1 DEF First
  <2>6. Erasing'
    <3>1. \A d \in Client : d # c => pc'[d] \notin {"erase", "join", "gone"}
      BY <1>3, <1>6, <2>2
    <3>2. todo'[c] \subseteq worker_list
      BY <2>1, <2>2, <2>4 DEF Erasing
    <3>3. op[c] = "destroy" => worker_list \subseteq todo'[c]
      BY <2>1, <2>2, <2>3 DEF Erasing
    <3> QED BY <1>1, <2>2, <3>1, <3>2, <3>3 DEF Erasing
  <2> QED BY <1>2, <2>5, <2>6
<1> QED BY <1>7, <1>8, <1>9

\* Every other step of a client leaves the list alone.
LEMMA ClientKeeps ==
    ASSUME TInv, LInv, BInv, GInv, [Next]_vars, NEW c \in Client, ClientStep(c)
    PROVE GInv'
<1> USE PoolAssumption
    DEF TInv, TypeOK, pool, locks, tasks, list, workers, locals, bounds
<1>1. /\ pc[c] \notin {"idle", "gone"}
      /\ \A d \in Client : d # c => pc'[d] = pc[d] /\ op'[d] = op[d] /\ todo'[d] = todo[d]
  BY Own
<1>2. CASE \/ Enter(c) \/ Limited(c) \/ GetTaskCount(c) \/ Compare(c) \/ Push(c) \/ Notify(c)
           \/ Drain(c) \/ LockList(c) \/ Each(c) \/ EndPauseOrResume(c)
           \/ EndResumeForShutdown(c) \/ EndAdd(c)
  <2>1. /\ UNCHANGED <<worker_list, created>>
        /\ pc[c] # "join" /\ pc'[c] \notin {"erase", "join", "gone"}
    <3>1. CASE Enter(c) \/ Limited(c) \/ GetTaskCount(c) \/ Compare(c) \/ Push(c) \/ Notify(c)
      BY <3>1 DEF Enter, EnterShared, Limited, GetTaskCount, Compare, Push, Notify, Return, Leave
    <3>2. CASE \/ Drain(c) \/ LockList(c) \/ Each(c) \/ EndPauseOrResume(c)
               \/ EndResumeForShutdown(c) \/ EndAdd(c)
      BY <3>2 DEF Drain, LockList, Each, EndPauseOrResume, EndResumeForShutdown, EndAdd,
                  Return, Leave
    <3> QED BY <1>2, <3>1, <3>2
  <2>2. op'[c] \in {"destroy", "close"} => op[c] \in {"destroy", "close"}
    BY <1>2 DEF Enter, EnterShared, Limited, GetTaskCount, Compare, Push, Notify, Drain, LockList,
       Each, EndPauseOrResume, EndResumeForShutdown, EndAdd, Return, Leave
  <2> QED BY <1>1, <2>1, <2>2, PlainKeeps
<1>3. CASE EnterAlone(c)
  <2>1. /\ UNCHANGED <<worker_list, created>> /\ pc[c] = "status"
        /\ op'[c] \in {"destroy", "close"} => op[c] \in {"destroy", "close"}
        /\ \/ pc'[c] \notin {"erase", "join", "gone"}
           \/ pc'[c] = "erase" /\ op'[c] = "destroy" /\ todo'[c] = worker_list
    BY <1>3 DEF EnterAlone, EnterExclusive, NothingToDo, Leave
  <2> QED BY <1>1, <2>1, PlainKeeps
<1>4. CASE EndTerminate(c)
  <2>1. /\ UNCHANGED <<worker_list, created>> /\ pc[c] = "each"
        /\ op'[c] \in {"destroy", "close"} => op[c] \in {"destroy", "close"}
        /\ \/ pc'[c] \notin {"erase", "join", "gone"}
           \/ pc'[c] = "erase" /\ op'[c] = "destroy" /\ todo'[c] = worker_list
    BY <1>4 DEF EndTerminate, Return, Leave
  <2> QED BY <1>1, <2>1, PlainKeeps
<1>5. CASE EndTerminateRemoved(c)
  <2>1. /\ UNCHANGED <<worker_list, created, op>> /\ pc[c] = "each"
        /\ pc'[c] = "erase" /\ op[c] = "remove" /\ todo'[c] \subseteq worker_list
    BY <1>5 DEF EndTerminateRemoved, Youngest
  <2> QED BY <1>1, <2>1, PlainKeeps
<1>6. CASE EndErase(c)
  <2>1. /\ UNCHANGED <<worker_list, created>> /\ pc[c] = "erase" /\ todo[c] = {}
        /\ op'[c] \in {"destroy", "close"} => op[c] \in {"destroy", "close"}
        /\ \/ pc'[c] \notin {"erase", "join", "gone"}
           \/ pc'[c] = "gone" /\ op'[c] = "destroy" /\ op[c] = "destroy"
    BY <1>6 DEF EndErase, Return, Leave
  <2>2. op[c] = "destroy" => worker_list = {}
    BY <2>1 DEF GInv, Erasing
  <2> QED BY <1>1, <2>1, <2>2, PlainKeeps
<1> QED BY <1>2, <1>3, <1>4, <1>5, <1>6, ListStepKeeps DEF ClientStep

\* The destruction is alone and leaves no worker behind.
LEMMA Reaping == Spec => [](TInv /\ LInv /\ BInv /\ GInv)
<1>1. Init => GInv
  BY PoolAssumption DEF Init, GInv, Solo, Reaped, Erasing, Worker
<1>2. TInv /\ LInv /\ BInv /\ GInv /\ [Next]_vars => GInv'
  <2> SUFFICES ASSUME TInv, LInv, BInv, GInv, [Next]_vars PROVE GInv'
    OBVIOUS
  <2> USE DEF TInv, TypeOK, list, locals
  <2>1. ASSUME NEW c \in Client, NEW o \in Ops, Call(c, o) PROVE GInv'
    <3>1. /\ UNCHANGED <<worker_list, created, wpc, todo>> /\ pc[c] = "idle" /\ ~ Destroying
          /\ pc' = [pc EXCEPT ![c] = "status"] /\ op' = [op EXCEPT ![c] = o]
          /\ o \in {"destroy", "close"} => \A d \in Client : pc[d] = "idle"
      BY <2>1 DEF Call, workers
    <3>2. Solo'
      BY <3>1 DEF Solo, Destroying
    <3>3. Reaped' /\ Erasing'
      BY <3>1 DEF GInv, Reaped, Erasing, First, Destroying
    <3> QED BY <3>2, <3>3 DEF GInv
  <2>2. CASE \/ \E c \in Client : SetMaxTaskCount(c)
             \/ \E w \in Worker : WorkerStep(w)
             \/ SpuriousWake \/ UNCHANGED vars
    <3>1. /\ UNCHANGED <<worker_list, created, op, todo>>
          /\ \A c \in Client : pc'[c] = pc[c] \/ (pc[c] = "drain_wait" /\ pc'[c] = "drain")
      <4>1. ASSUME NEW w \in Worker, Take(w)
            PROVE \A c \in Client : pc'[c] = pc[c] \/ (pc[c] = "drain_wait" /\ pc'[c] = "drain")
        BY <4>1 DEF Take, WokenDrainers
      <4> QED BY <2>2, <4>1 DEF SetMaxTaskCount, WorkerStep, Check, Acquire, Lock, Precheck, Wait,
                 Postcheck, Take, Run, SpuriousWake, vars
    <3>2. Solo'
      BY <3>1 DEF GInv, Solo
    <3>3. Reaped'
      BY <3>1, ExitedStays DEF GInv, Reaped, First
    <3>4. Erasing'
      BY <3>1 DEF GInv, Erasing, First
    <3> QED BY <3>2, <3>3, <3>4 DEF GInv
  <2> QED BY <2>1, <2>2, ClientKeeps DEF Next
<1>3. QED
  BY <1>1, <1>2, Agreeing, PTL DEF Spec

\* When ~Server() is over, every task that was ever accepted has been run to
\* its end (server_windows.cpp:144-146, thread_pool.cpp:37-40 and 112-135,
\* worker_thread.cpp:170-181).
THEOREM CloseRunsAll == ASSUME InOrder PROVE Spec => []CloseFinishesAll
<1>1. TInv /\ LInv /\ BInv /\ CInv /\ DInv /\ GInv => CloseFinishesAll
  <2> SUFFICES ASSUME TInv, CInv, DInv, GInv, NEW c \in Client, pc[c] = "gone"
               PROVE done = accepted
    BY DEF CloseFinishesAll
  <2> USE DEF TInv, TypeOK
  <2>1. op[c] = "destroy" /\ worker_list = {}
    BY DEF GInv, Erasing
  <2>2. task_queue = <<>>
    BY <2>1 DEF DInv, DestroysLast, Stopped
  <2>3. \A d \in Client : pc[d] # "join"
    BY <2>1 DEF GInv, Solo
  <2>4. \A w \in Worker : wpc[w] \in {"exited", "unborn"}
    BY <2>1, <2>3, PoolAssumption DEF GInv, Reaped, Unborn, Worker
  <2>5. Running = {} /\ Queued = {}
    <3>1. \A w \in Worker : wtask[w] = NoTask
      BY <2>4 DEF CInv, IdleHasNone
    <3>2. Running = {}
      BY <3>1 DEF Running
    <3>3. DOMAIN task_queue = {}
      BY <2>2
    <3> QED BY <3>2, <3>3 DEF Queued
  <2> QED BY <2>5 DEF CInv, TaskConservation
<1> QED BY <1>1, Stopping, Reaping, PTL

-----------------------------------------------------------------------------
(* The queue's sleepers and its counters: wait() and shutdown() on one     *)
(* condition variable, the workers on the other, and the limit.            *)

\* A call moves by its own steps, but for the drainers, whom a Take or the
\* system may wake.
LEMMA OwnMoves ==
    ASSUME TInv, [Next]_vars, NEW d \in Client, pc'[d] # pc[d]
    PROVE \/ ClientStep(d)
          \/ pc[d] = "drain_wait" /\ pc'[d] = "drain"
          \/ pc[d] = "idle" /\ pc'[d] = "status"
<1> USE DEF TInv, TypeOK
<1>1. ASSUME NEW c \in Client, ClientStep(c), c # d PROVE pc'[d] = pc[d]
  BY <1>1 DEF ClientStep, Enter, EnterShared, EnterAlone, EnterExclusive, NothingToDo, Limited,
     GetTaskCount, Compare, Push, Notify, Drain, LockList, Each, EndPauseOrResume,
     EndResumeForShutdown, EndTerminate, EndTerminateRemoved, AddOne, EndAdd, Erase, Join,
     EndErase, Return, Leave
<1>2. CASE \E c \in Client, o \in Ops : Call(c, o)
  BY <1>2 DEF Call
<1>3. CASE \E w \in Worker : WorkerStep(w)
  BY <1>3 DEF WorkerStep, Check, Acquire, Lock, Precheck, Wait, Postcheck, Take, Run, WokenDrainers
<1>4. CASE SpuriousWake
  BY <1>4 DEF SpuriousWake
<1>5. CASE (\E c \in Client : SetMaxTaskCount(c)) \/ UNCHANGED vars
  BY <1>5 DEF SetMaxTaskCount, vars
<1> QED BY <1>1, <1>2, <1>3, <1>4, <1>5 DEF Next

\* The steps by which a call gets to the places that matter here.
LEMMA MovesView ==
    ASSUME TInv, [Next]_vars, NEW d \in Client, pc'[d] # pc[d]
    PROVE /\ pc[d] = "notify" => Notify(d)
          /\ pc'[d] = "drain_wait" => Drain(d) /\ task_queue # <<>> /\ task_queue' = task_queue
          /\ pc'[d] = "compare" => GetTaskCount(d)
          /\ pc'[d] = "push" => Limited(d) \/ Compare(d)
<1> USE DEF TInv, TypeOK
<1> DEFINE Named ==
      /\ pc[d] = "notify" => Notify(d)
      /\ pc'[d] = "drain_wait" => Drain(d) /\ task_queue # <<>> /\ task_queue' = task_queue
      /\ pc'[d] = "compare" => GetTaskCount(d)
      /\ pc'[d] = "push" => Limited(d) \/ Compare(d)
<1>1. CASE Limited(d) \/ GetTaskCount(d) \/ Compare(d) \/ Push(d) \/ Notify(d)
  BY <1>1 DEF Limited, GetTaskCount, Compare, Push, Notify, Return, Leave
<1>2. CASE Drain(d)
  BY <1>2 DEF Drain, Drained, Return, Leave, tasks
<1>3. CASE Enter(d) \/ EnterAlone(d)
  BY <1>3 DEF Enter, EnterShared, EnterAlone, EnterExclusive, NothingToDo, Leave
<1>4. CASE \/ LockList(d) \/ Each(d) \/ EndPauseOrResume(d) \/ EndResumeForShutdown(d)
           \/ EndTerminate(d) \/ EndTerminateRemoved(d) \/ AddOne(d) \/ EndAdd(d) \/ Erase(d)
           \/ Join(d) \/ EndErase(d)
  BY <1>4 DEF LockList, Each, EndPauseOrResume, EndResumeForShutdown, EndTerminate,
     EndTerminateRemoved, AddOne, EndAdd, Erase, Join, EndErase, Return, Leave
<1> QED BY <1>1, <1>2, <1>3, <1>4, OwnMoves DEF ClientStep

\* What a push and a take do to the length of the queue.
LEMMA LengthView ==
    ASSUME TInv, [Next]_vars
    PROVE \/ task_queue' = task_queue /\ \A w \in Worker : ~ Take(w)
          \/ \E c \in Client : Push(c) /\ Len(task_queue') = Len(task_queue) + 1
          \/ \E w \in Worker : /\ Take(w) /\ task_queue # <<>>
                               /\ Len(task_queue') = Len(task_queue) - 1
<1>1. task_queue \in Seq(Task)
  BY DEF TInv, TypeOK
<1>2. ASSUME NEW c \in Client, Push(c) PROVE Len(task_queue') = Len(task_queue) + 1
  BY <1>1, <1>2 DEF Push, Pushed, TInv, SubmitsATask, Submitting
<1>3. ASSUME NEW w \in Worker, Take(w)
      PROVE  task_queue # <<>> /\ Len(task_queue') = Len(task_queue) - 1
  BY <1>1, <1>3 DEF Take, Popped, TInv, TakesATask
<1>4. ASSUME Untouched PROVE task_queue' = task_queue
  BY <1>4 DEF Untouched, tasks
<1>5. ASSUME NEW w \in Worker, Run(w) PROVE task_queue' = task_queue
  BY <1>5 DEF Run
<1> QED BY <1>2, <1>3, <1>4, <1>5, TaskView

\* NoDrainerForgotten, under every operation: whoever sleeps until the queue is
\* empty has tasks to sleep for.
THEOREM DrainersWoken == Spec => []NoDrainerForgotten
<1>1. Init => NoDrainerForgotten
  BY DEF Init, NoDrainerForgotten
<1>2. ASSUME TInv, NoDrainerForgotten, [Next]_vars, NEW c \in Client, pc'[c] = "drain_wait"
      PROVE  task_queue' # <<>>
  <2>1. pc[c] = "drain_wait" \/ (task_queue # <<>> /\ task_queue' = task_queue)
    BY <1>2, MovesView
  <2>2. task_queue \in Seq(Task) /\ task_queue # <<>>
    BY <1>2, <2>1 DEF NoDrainerForgotten, TInv, TypeOK
  <2>3. ASSUME NEW d \in Client, Push(d) PROVE task_queue' # <<>>
    BY <1>2, <2>2, <2>3 DEF Push, Pushed, TInv, SubmitsATask, Submitting
  <2>4. ASSUME NEW w \in Worker, Take(w) PROVE task_queue' # <<>>
    <3>1. Len(task_queue) # 1
      BY <1>2, <2>4 DEF Take, WokenDrainers, TInv, TypeOK
    <3>2. Len(task_queue) \in Nat /\ Len(task_queue) # 0
      BY <2>2, EmptySeq, LenProperties
    <3>3. Len(task_queue') = Len(task_queue) - 1
      BY <2>2, <2>4, HeadTailProperties DEF Take, Popped
    <3>4. Len(task_queue') # 0
      BY <3>1, <3>2, <3>3
    <3> QED BY <3>4, EmptySeq
  <2> QED BY <1>2, <2>2, <2>3, <2>4, LengthView
<1>3. TInv /\ NoDrainerForgotten /\ [Next]_vars => NoDrainerForgotten'
  BY <1>2 DEF NoDrainerForgotten
<1> QED BY <1>1, <1>3, Typing, PTL DEF Spec

-----------------------------------------------------------------------------
(* The limit: how far concurrent submits can exceed it.                    *)

\* The submits that will push whatever the queue holds by then.
Passing == {c \in Client : pc[c] = "push" \/ (pc[c] = "compare" /\ seen[c] < InitLimit)}

\* They are counted with the queue they will be in.
OInv ==
    InitLimit > 0 =>
        /\ max_task_count = InitLimit
        /\ Len(task_queue) + Cardinality(Passing) < InitLimit + Cardinality(Client)

LEMMA PassingFinite ==
    /\ IsFiniteSet(Client) /\ Cardinality(Client) \in Nat
    /\ IsFiniteSet(Passing) /\ Cardinality(Passing) \in Nat
    /\ Cardinality(Passing) <= Cardinality(Client)
<1>1. Passing \subseteq Client
  BY DEF Passing
<1> QED BY <1>1, FinitelyMany, FS_Subset, FS_CardinalityType

\* Who passes: whoever counts a queue that is not full, until the push.
LEMMA PassingView ==
    ASSUME TInv, [Next]_vars, InitLimit > 0, max_task_count = InitLimit, NEW d \in Client,
           d \in Passing', d \notin Passing
    PROVE  GetTaskCount(d) /\ Len(task_queue) < InitLimit
<1> USE DEF TInv, TypeOK
<1>1. CASE pc'[d] # pc[d]
  <2>1. CASE pc'[d] = "compare"
    BY <1>1, <2>1, MovesView DEF GetTaskCount, Passing
  <2>2. CASE pc'[d] = "push"
    <3>1. ~ Limited(d)
      BY <2>2 DEF Limited
    <3>2. pc[d] = "compare" /\ ~ Full(seen[d])
      BY <1>1, <2>2, <3>1, MovesView DEF Compare, Return, Leave
    <3>3. seen[d] \in Nat /\ InitLimit \in Nat
      BY PoolAssumption
    <3> QED BY <3>2, <3>3 DEF Full, Passing
  <2> QED BY <2>1, <2>2 DEF Passing
<1>2. CASE pc'[d] = pc[d]
  <2>1. pc[d] = "compare" /\ pc'[d] = "compare" /\ seen'[d] # seen[d]
    BY <1>2 DEF Passing
  <2>2. ASSUME NEW c \in Client, GetTaskCount(c) \/ Compare(c) PROVE FALSE
    <3>1. (c = d => pc'[d] # "compare") /\ \A x \in Client : x # c => seen'[x] = seen[x]
      <4>1. CASE GetTaskCount(c)
        BY <2>1, <4>1 DEF GetTaskCount
      <4>2. CASE Compare(c)
        BY <4>2 DEF Compare, Return, Leave
      <4> QED BY <2>2, <4>1, <4>2
    <3> QED BY <2>1, <3>1
  <2>3. ASSUME NEW c \in Client, ClientStep(c), ~ GetTaskCount(c), ~ Compare(c)
        PROVE  seen' = seen
    BY <2>3 DEF ClientStep, Enter, EnterShared, EnterAlone, Limited, Push, Notify, Drain,
       LockList, Each, EndPauseOrResume, EndResumeForShutdown, EndTerminate,
       EndTerminateRemoved, AddOne, EndAdd, Erase, Join, EndErase, locals
  <2>4. CASE \/ \E c \in Client, o \in Ops : Call(c, o)
             \/ \E c \in Client : SetMaxTaskCount(c)
             \/ SpuriousWake \/ UNCHANGED vars
    BY <2>1, <2>4 DEF Call, SetMaxTaskCount, SpuriousWake, vars, locals
  <2>5. ASSUME NEW w \in Worker, WorkerStep(w) PROVE seen' = seen
    BY <2>5 DEF WorkerStep, Check, Acquire, Lock, Precheck, Wait, Postcheck, Take, Run, locals
  <2> QED BY <2>1, <2>2, <2>3, <2>4, <2>5 DEF Next
<1> QED BY <1>1, <1>2

\* OvershootBounded, for any number of submitting threads, while nobody sets
\* the limit anew.
THEOREM LimitWorth == ASSUME Limits = {} PROVE Spec => []OvershootBounded
<1>1. Init => OInv
  <2> SUFFICES ASSUME Init, InitLimit > 0 PROVE OInv
    BY DEF OInv
  <2>1. Passing = {} /\ Len(task_queue) = 0 /\ max_task_count = InitLimit
    BY DEF Init, Passing
  <2> QED BY <2>1, FS_EmptySet, PassingFinite, PoolAssumption DEF OInv
<1>2. ASSUME TInv, OInv, [Next]_vars, InitLimit > 0
      PROVE  /\ max_task_count' = InitLimit
             /\ Len(task_queue') + Cardinality(Passing') < InitLimit + Cardinality(Client)
  <2>0. InitLimit \in Nat /\ max_task_count = InitLimit /\ Len(task_queue) \in Nat
        /\ Len(task_queue) + Cardinality(Passing) < InitLimit + Cardinality(Client)
    BY <1>2, PoolAssumption DEF OInv, TInv, TypeOK
  <2>1. max_task_count' = InitLimit
    <3>1. \A c \in Client : ~ SetMaxTaskCount(c)
      BY DEF SetMaxTaskCount
    <3>2. ASSUME NEW c \in Client, ClientStep(c) PROVE max_task_count' = max_task_count
      BY <3>2 DEF ClientStep, Enter, EnterShared, EnterAlone, Limited, GetTaskCount, Compare,
         Push, Notify, Drain, LockList, Each, EndPauseOrResume, EndResumeForShutdown,
         EndTerminate, EndTerminateRemoved, AddOne, EndAdd, Erase, Join, EndErase, pool
    <3>3. ASSUME NEW w \in Worker, WorkerStep(w) PROVE max_task_count' = max_task_count
      BY <3>3 DEF WorkerStep, Check, Acquire, Lock, Precheck, Wait, Postcheck, Take, Run, pool
    <3>4. CASE (\E c \in Client, o \in Ops : Call(c, o)) \/ SpuriousWake \/ UNCHANGED vars
      <4>1. max_task_count' = max_task_count
        BY <3>4 DEF Call, SpuriousWake, vars, pool
      <4> QED BY <2>0, <4>1
    <3> QED BY <1>2, <2>0, <3>1, <3>2, <3>3, <3>4 DEF Next
  <2>2. IsFiniteSet(Passing) /\ Cardinality(Passing) \in Nat /\ Cardinality(Client) \in Nat
    BY PassingFinite
  <2>3. Cardinality(Passing') \in Nat /\ Cardinality(Passing') <= Cardinality(Client)
    <3>1. Passing' \subseteq Client
      BY DEF Passing
    <3> QED BY <3>1, FinitelyMany, FS_Subset, FS_CardinalityType
  <2>4. ASSUME Passing' \subseteq Passing
        PROVE  Cardinality(Passing') <= Cardinality(Passing)
    BY <2>2, <2>4, FS_Subset
  <2>5. CASE \E d \in Passing' : d \notin Passing
    <3>1. PICK d \in Client : GetTaskCount(d) /\ Len(task_queue) < InitLimit
      BY <1>2, <2>0, <2>5, PassingView DEF Passing
    <3>2. task_queue' = task_queue
      BY <3>1 DEF GetTaskCount, tasks
    <3> QED BY <2>0, <2>1, <2>2, <2>3, <3>1, <3>2
  <2>6. CASE Passing' \subseteq Passing
    <3>1. ASSUME NEW c \in Client, Push(c)
          PROVE  Cardinality(Passing') <= Cardinality(Passing) - 1
      <4>1. c \in Passing /\ c \notin Passing'
        BY <1>2, <3>1 DEF Push, Passing, TInv, TypeOK
      <4>2. IsFiniteSet(Passing \ {c}) /\ Cardinality(Passing \ {c}) = Cardinality(Passing) - 1
        BY <2>2, <4>1, FS_RemoveElement
      <4>3. Passing' \subseteq Passing \ {c}
        BY <2>6, <4>1
      <4> QED BY <4>2, <4>3, FS_Subset
    <3>2. CASE task_queue' = task_queue
      BY <2>0, <2>1, <2>2, <2>3, <2>4, <2>6, <3>2
    <3>3. ASSUME NEW c \in Client, Push(c), Len(task_queue') = Len(task_queue) + 1
          PROVE  Len(task_queue') + Cardinality(Passing') < InitLimit + Cardinality(Client)
      BY <2>0, <2>2, <2>3, <3>1, <3>3
    <3>4. CASE Len(task_queue') = Len(task_queue) - 1
      BY <2>0, <2>1, <2>2, <2>3, <2>4, <2>6, <3>4
    <3> QED BY <1>2, <2>1, <3>2, <3>3, <3>4, LengthView
  <2> QED BY <2>5, <2>6
<1>3. TInv /\ OInv /\ [Next]_vars => OInv'
  BY <1>2 DEF OInv
<1>4. TInv /\ OInv => OvershootBounded
  <2> SUFFICES ASSUME TInv, OInv, InitLimit > 0
               PROVE  Len(task_queue) < InitLimit + Cardinality(Client)
    BY DEF OvershootBounded
  <2>1. Len(task_queue) \in Nat /\ InitLimit \in Nat
    BY PoolAssumption DEF TInv, TypeOK
  <2>2. Len(task_queue) + Cardinality(Passing) < InitLimit + Cardinality(Client)
    BY DEF OInv
  <2> QED BY <2>1, <2>2, PassingFinite
<1> QED BY <1>1, <1>3, <1>4, Typing, PTL DEF Spec

-----------------------------------------------------------------------------
(* The workers' wakeups, in a pool whose workers are neither paused nor    *)
(* removed: Server's, which submits and shuts down.                        *)

NeverHeld == Ops \subseteq {"submit", "wait", "add", "resume", "shutdown", "close"}

\* Nobody is PAUSED, a worker is stopped only with the pool, and who goes to
\* sleep has seen an empty queue and kept it empty.
Stops == {"TERMINATING", "TERMINATED"}
Free ==
    /\ status # "PAUSED"
    /\ \A c \in Client : op[c] \notin {"pause", "remove"}
    /\ \A w \in Worker : wstatus[w] # "PAUSED" /\ (wstatus[w] \in Stops => status \in Stops)
    /\ \A w \in Worker : wpc[w] \notin SemPcs \cup {"relock_pre"}
    /\ \A w \in Worker : wpc[w] \in {"precheck", "to_wait"} => task_queue = <<>>

\* What the callers do to the statuses.
LEMMA FreeCalls ==
    ASSUME NeverHeld, TInv, LInv, BInv, DInv, Free, [Next]_vars
    PROVE  /\ status' # "PAUSED" /\ (status \in Stops => status' \in Stops)
           /\ \A c \in Client : op'[c] \notin {"pause", "remove"}
<1> USE DEF TInv, TypeOK
<1> DEFINE Goes == status' # "PAUSED" /\ (status \in Stops => status' \in Stops)
           Keeps == \A d \in Client : op'[d] \in {op[d], "none", "destroy"}
<1>0. status # "PAUSED" /\ \A c \in Client : op[c] \notin {"pause", "remove"}
  BY DEF Free
<1>1. ASSUME NEW c \in Client, EnterAlone(c) PROVE Goes /\ Keeps
  <2>1. status_writer = NoOne /\ op[c] # "pause" /\ op[c] # "terminate" /\ op[c] # "remove"
        /\ (status \in Stops => status = "TERMINATED")
        /\ (op[c] = "destroy" => status = "TERMINATED")
    BY <1>0, <1>1 DEF EnterAlone, StatusFree, DInv, DestroysLast, LInv, TransientHidden, Stops
  <2>2. Goes
    BY <1>0, <1>1, <2>1 DEF EnterAlone, EnterExclusive, NothingToDo, Stops
  <2>3. Keeps
    BY <1>1 DEF EnterAlone, EnterExclusive, NothingToDo, Leave
  <2> QED BY <2>2, <2>3
<1>2. ASSUME NEW c \in Client, Drain(c) \/ EndResumeForShutdown(c) \/ EndTerminate(c)
      PROVE  Goes /\ Keeps
  <2>1. Goes
    BY <1>0, <1>2 DEF Drain, EndResumeForShutdown, EndTerminate, FinalStatus, Stops
  <2>2. Keeps
    BY <1>2 DEF Drain, EndResumeForShutdown, EndTerminate, Return, Leave
  <2> QED BY <2>1, <2>2
<1>3. ASSUME NEW c \in Client,
             \/ Enter(c) \/ Compare(c) \/ Notify(c) \/ EndPauseOrResume(c) \/ EndAdd(c)
             \/ EndErase(c)
      PROVE Goes /\ Keeps
  <2>1. status' = status
    BY <1>3 DEF Enter, EnterShared, Compare, Notify, EndPauseOrResume, EndAdd, EndErase, pool
  <2>2. Keeps
    BY <1>3 DEF Enter, EnterShared, Compare, Notify, EndPauseOrResume, EndAdd, EndErase,
                Return, Leave
  <2> QED BY <1>0, <2>1, <2>2
<1>4. ASSUME NEW c \in Client,
             \/ SetMaxTaskCount(c) \/ Limited(c) \/ GetTaskCount(c) \/ Push(c) \/ LockList(c)
             \/ Each(c) \/ EndTerminateRemoved(c) \/ AddOne(c) \/ Erase(c) \/ Join(c)
      PROVE UNCHANGED <<status, op>>
  BY <1>4 DEF SetMaxTaskCount, Limited, GetTaskCount, Push, LockList, Each, EndTerminateRemoved,
              AddOne, Erase, Join, pool
<1>5. CASE (\E w \in Worker : WorkerStep(w)) \/ SpuriousWake \/ UNCHANGED vars
  <2>1. UNCHANGED <<status, op>>
    BY <1>5 DEF WorkerStep, Check, Acquire, Lock, Precheck, Wait, Postcheck, Take, Run,
                SpuriousWake, vars, pool
  <2> QED BY <1>0, <2>1
<1>6. ASSUME NEW c \in Client, NEW o \in Ops, Call(c, o)
      PROVE  status' = status /\ \A d \in Client : op'[d] \in {op[d], o}
  BY <1>6 DEF Call, pool
<1> QED BY <1>0, <1>1, <1>2, <1>3, <1>4, <1>5, <1>6 DEF Next, ClientStep, NeverHeld

\* What they do to the workers: nothing is paused, and only a stopping pool
\* stops one.
LEMMA FreeControls ==
    ASSUME TInv, LInv, BInv, DInv, Free, NEW c \in Client, Each(c) \/ Erase(c)
    PROVE  \A v \in Worker : wstatus'[v] = wstatus[v] \/ (wstatus'[v] \in Stops /\ status \in Stops)
<1> USE DEF TInv, TypeOK
<1>1. op[c] \notin {"pause", "remove", "terminate"} /\ (op[c] = "destroy" => status = "TERMINATED")
  BY DEF Free, DInv, DestroysLast
<1>2. \A v \in Worker : wstatus[v] # "PAUSED"
  BY DEF Free
<1>3. CASE Erase(c)
  <2>1. PICK w \in Worker : WorkerTerminate(w)
    BY <1>3 DEF Erase
  <2>2. status \in Stops
    BY <1>1, <1>3 DEF Erase, LInv, Places, Stops
  <2> QED BY <2>1, <2>2 DEF WorkerTerminate, Stops
<1>4. CASE Each(c)
  <2>1. PICK w \in Worker : Effect(c, w)
    BY <1>4 DEF Each
  <2>2. CASE op[c] = "resume" \/ (op[c] \in {"shutdown", "close"} /\ status = "RUNNING")
    BY <1>2, <2>1, <2>2 DEF Effect, WorkerResume
  <2>3. CASE ~ (op[c] = "resume" \/ (op[c] \in {"shutdown", "close"} /\ status = "RUNNING"))
    <3>1. WorkerTerminate(w)
      BY <1>1, <2>1, <2>3 DEF Effect
    <3>2. status \in Stops
      BY <1>1, <1>4, <2>3 DEF Each, LInv, Places, Looping, BInv, StatusKnown, ExclusiveOps, Stops
    <3> QED BY <3>1, <3>2 DEF WorkerTerminate, Stops
  <2> QED BY <2>2, <2>3
<1> QED BY <1>3, <1>4

\* A worker's step, when nobody is PAUSED: where it leads, and its status.
LEMMA FreeWorker ==
    ASSUME TInv, WInv, Free, NEW w \in Worker, WorkerStep(w)
    PROVE  \E p \in WorkerPcs, s \in WorkerStatus :
             /\ wpc' = [wpc EXCEPT ![w] = p] /\ wstatus' = [wstatus EXCEPT ![w] = s]
             /\ s \in {"RUNNING", "BLOCKED"} \/ (wstatus[w] \in Stops /\ s \in Stops)
             /\ \/ wpc[w] = "check" /\ (p = "lock" \/ (p = "exited" /\ s \in Stops))
                \/ wpc[w] = "lock" /\ p = TestQueue
                \/ wpc[w] = "relock_post" /\ p = "postcheck"
                \/ wpc[w] = "precheck" /\ p \in {"to_wait", "exited"}
                \/ wpc[w] = "to_wait" /\ p = "waiting"
                \/ wpc[w] = "postcheck" /\ (p = TestQueue \/ (p = "exited" /\ s \in Stops))
                \/ wpc[w] = "take" /\ p = "run" /\ Take(w)
                \/ wpc[w] = "run" /\ p = "check"
<1> USE DEF TInv, TypeOK, WorkerPcs, WorkerStatus, SemPcs, Stops, TestQueue
<1>0. /\ wstatus[w] # "PAUSED" /\ wpc[w] \notin SemPcs \cup {"relock_pre"}
      /\ wpc[w] = "check" => wstatus[w] # "BLOCKED"
  BY DEF Free, WInv, BlockedAroundSleep, AroundSleep
<1>1. CASE Check(w)
  BY <1>0, <1>1 DEF Check, AfterCheck, StatusAfterExit, StopSeen
<1>2. CASE Acquire(w)
  BY <1>0, <1>2 DEF Acquire
<1>3. CASE Lock(w)
  <2>1. UNCHANGED wstatus /\ wstatus' = [wstatus EXCEPT ![w] = wstatus[w]]
    BY <1>3 DEF Lock
  <2> QED BY <1>0, <1>3, <2>1 DEF Lock, AfterLock
<1>4. CASE Precheck(w)
  BY <1>0, <1>4 DEF Precheck, AfterPrecheck, StatusAfterPrecheck, StatusAfterExit, StopSeen
<1>5. CASE Wait(w)
  <2>1. wstatus' = [wstatus EXCEPT ![w] = wstatus[w]]
    BY <1>5 DEF Wait
  <2> QED BY <1>0, <1>5, <2>1 DEF Wait
<1>6. CASE Postcheck(w)
  BY <1>0, <1>6 DEF Postcheck, AfterPostcheck, StatusAfterPostcheck, StatusAfterExit, StopSeen
<1>7. CASE Take(w)
  <2>1. wstatus' = [wstatus EXCEPT ![w] = wstatus[w]]
    BY <1>7 DEF Take
  <2> QED BY <1>0, <1>7, <2>1 DEF Take
<1>8. CASE Run(w)
  <2>1. wstatus' = [wstatus EXCEPT ![w] = wstatus[w]]
    BY <1>8 DEF Run
  <2> QED BY <1>0, <1>8, <2>1 DEF Run
<1> QED BY <1>1, <1>2, <1>3, <1>4, <1>5, <1>6, <1>7, <1>8 DEF WorkerStep

LEMMA FreeStep ==
    ASSUME NeverHeld, TInv, WInv, LInv, BInv, DInv, Free, [Next]_vars
    PROVE  Free'
<1>1. status' # "PAUSED" /\ \A c \in Client : op'[c] \notin {"pause", "remove"}
  BY FreeCalls
<1>2. status \in Stops => status' \in Stops
  BY FreeCalls
<1>3. /\ wpc \in [Worker -> WorkerPcs] /\ wstatus \in [Worker -> WorkerStatus]
      /\ \A w \in Worker :
           /\ wstatus[w] # "PAUSED" /\ (wstatus[w] \in Stops => status \in Stops)
           /\ wpc[w] \notin SemPcs \cup {"relock_pre"}
           /\ wpc[w] \in {"precheck", "to_wait"} => task_queue = <<>>
  BY DEF Free, TInv, TypeOK
<1>4. ASSUME NEW v \in Worker
      PROVE  wstatus'[v] # "PAUSED" /\ (wstatus'[v] \in Stops => status' \in Stops)
  <2>1. CASE \E w \in Worker : WorkerStep(w)
    BY <1>2, <1>3, <2>1, FreeWorker DEF Stops
  <2>2. CASE \E c \in Client : Each(c) \/ Erase(c)
    BY <1>2, <1>3, <2>2, FreeControls DEF Stops
  <2>3. CASE UNCHANGED wstatus
    BY <1>2, <1>3, <2>3
  <2>4. ASSUME NEW c \in Client, ClientStep(c), ~ (Each(c) \/ Erase(c)) PROVE UNCHANGED wstatus
    BY <2>4 DEF ClientStep, Enter, EnterShared, EnterAlone, Limited, GetTaskCount, Compare, Push,
       Notify, Drain, LockList, EndPauseOrResume, EndResumeForShutdown, EndTerminate,
       EndTerminateRemoved, AddOne, EndAdd, Join, EndErase, workers
  <2>5. CASE \/ \E c \in Client, o \in Ops : Call(c, o)
             \/ \E c \in Client : SetMaxTaskCount(c)
             \/ SpuriousWake \/ UNCHANGED vars
    <3>1. UNCHANGED wstatus
      BY <2>5 DEF Call, SetMaxTaskCount, SpuriousWake, vars, workers
    <3> QED BY <2>3, <3>1
  <2> QED BY <2>1, <2>2, <2>3, <2>4, <2>5 DEF Next
<1>5. ASSUME NEW v \in Worker
      PROVE  /\ wpc'[v] \notin SemPcs \cup {"relock_pre"}
             /\ wpc'[v] \in {"precheck", "to_wait"} =>
                  task_queue = <<>> /\ (wpc[v] \in {"precheck", "to_wait"} \/ task_queue' = task_queue)
  <2>1. ASSUME NEW w \in Worker, WorkerStep(w)
        PROVE  /\ wpc'[v] \notin SemPcs \cup {"relock_pre"}
               /\ wpc'[v] \in {"precheck", "to_wait"} =>
                    task_queue = <<>> /\ (wpc[v] \in {"precheck", "to_wait"} \/ task_queue' = task_queue)
    <3>1. ~ Take(w) => task_queue' = task_queue
      BY <2>1 DEF WorkerStep, Check, Acquire, Lock, Precheck, Wait, Postcheck, Run, tasks
    <3> QED BY <1>3, <2>1, <3>1, FreeWorker DEF TestQueue, SemPcs, Take
  <2>2. CASE Wakes
    BY <1>3, <2>2 DEF Wakes, SemPcs
  <2>3. ASSUME NEW w \in Worker, Starts(w)
        PROVE  wpc'[v] \in {wpc[v], "check"}
    BY <1>3, <2>3 DEF Starts
  <2> QED BY <1>3, <2>1, <2>2, <2>3, WorkerView DEF SemPcs
<1>6. ASSUME NEW v \in Worker, wpc'[v] \in {"precheck", "to_wait"} PROVE task_queue' = <<>>
  <2>1. task_queue = <<>>
    BY <1>5, <1>6
  <2>2. ASSUME NEW c \in Client, Push(c) PROVE task_queue' = task_queue
    <3>1. queue_writer = v \/ task_queue' = task_queue
      BY <1>5, <1>6 DEF TInv, QueueLock, Holding
    <3>2. queue_writer = NoOne /\ NoOne # v
      BY <2>2, PoolAssumption DEF Push, QueueFree
    <3> QED BY <3>1, <3>2
  <2>3. ASSUME NEW w \in Worker, Take(w) PROVE FALSE
    BY <2>1, <2>3 DEF Take, TInv, TakesATask
  <2> QED BY <2>1, <2>2, <2>3, LengthView
<1> QED BY <1>1, <1>4, <1>5, <1>6 DEF Free

LEMMA Counts ==
    /\ \A S \in SUBSET Worker : IsFiniteSet(S) /\ Cardinality(S) \in Nat
    /\ \A S \in SUBSET Client : IsFiniteSet(S) /\ Cardinality(S) \in Nat
<1>1. IsFiniteSet(Worker)
  BY FS_Interval, PoolAssumption DEF Worker
<1> QED BY <1>1, FinitelyMany, FS_Subset, FS_CardinalityType

\* While there are tasks nobody falls asleep, and nobody leaves the way to them
\* but who takes one.
LEMMA TakersView ==
    ASSUME TInv, WInv, DInv, Free, [Next]_vars, task_queue # <<>>
    PROVE  /\ Asleep' \subseteq Asleep
           /\ \/ OnTheWay \subseteq OnTheWay'
              \/ \E w \in OnTheWay : Take(w) /\ OnTheWay \ {w} \subseteq OnTheWay'
<1>0. wpc \in [Worker -> WorkerPcs]
  BY DEF TInv, TypeOK
<1>1. CASE Wakes
  BY <1>0, <1>1 DEF Wakes, Asleep, OnTheWay
<1>2. CASE \E w \in Worker : Starts(w)
  BY <1>0, <1>2 DEF Starts, Asleep, OnTheWay
<1>3. ASSUME NEW w \in Worker, WorkerStep(w)
      PROVE  /\ Asleep' \subseteq Asleep
             /\ \/ OnTheWay \subseteq OnTheWay'
                \/ Take(w) /\ w \in OnTheWay /\ OnTheWay \ {w} \subseteq OnTheWay'
  <2>1. wstatus[w] \notin Stops /\ wpc[w] # "to_wait" /\ TestQueue = "take"
    BY DEF Free, DInv, Stopped, Stops, TestQueue
  <2>2. PICK p \in WorkerPcs :
          /\ wpc' = [wpc EXCEPT ![w] = p]
          /\ \/ wpc[w] \in {"precheck", "run"} /\ p # "waiting"
             \/ p \in {"lock", "postcheck", "take"}
             \/ wpc[w] = "take" /\ p = "run" /\ Take(w)
    <3>1. PICK p \in WorkerPcs, s \in WorkerStatus :
            /\ wpc' = [wpc EXCEPT ![w] = p]
            /\ s \in {"RUNNING", "BLOCKED"} \/ (wstatus[w] \in Stops /\ s \in Stops)
            /\ \/ wpc[w] = "check" /\ (p = "lock" \/ (p = "exited" /\ s \in Stops))
               \/ wpc[w] = "lock" /\ p = TestQueue
               \/ wpc[w] = "relock_post" /\ p = "postcheck"
               \/ wpc[w] = "precheck" /\ p \in {"to_wait", "exited"}
               \/ wpc[w] = "to_wait" /\ p = "waiting"
               \/ wpc[w] = "postcheck" /\ (p = TestQueue \/ (p = "exited" /\ s \in Stops))
               \/ wpc[w] = "take" /\ p = "run" /\ Take(w)
               \/ wpc[w] = "run" /\ p = "check"
      BY <1>3, FreeWorker
    <3>2. s \notin Stops
      BY <2>1, <3>1 DEF Stops
    <3> QED BY <2>1, <3>1, <3>2
  <2>3. \A v \in Worker : wpc'[v] = IF v = w THEN p ELSE wpc[v]
    BY <1>0, <2>2
  <2>4. p # "waiting"
    BY <2>2
  <2>5. Asleep' \subseteq Asleep /\ OnTheWay \ {w} \subseteq OnTheWay'
    BY <2>3, <2>4 DEF Asleep, OnTheWay
  <2>6. CASE wpc[w] = "take" /\ Take(w)
    BY <2>5, <2>6 DEF OnTheWay
  <2>7. CASE wpc[w] \in {"precheck", "run"} \/ p \in {"lock", "postcheck", "take"}
    <3>1. w \in OnTheWay => w \in OnTheWay'
      BY <2>3, <2>7 DEF OnTheWay
    <3> QED BY <2>5, <3>1
  <2> QED BY <2>2, <2>6, <2>7
<1> QED BY <1>1, <1>2, <1>3, WorkerView

\* A notify_one turns a sleeper into a taker, or finds nobody asleep.
LEMMA NotifyView ==
    ASSUME TInv, NEW c \in Client, Notify(c)
    PROVE  /\ c \in Notifying /\ Notifying \ {c} \subseteq Notifying'
           /\ \/ Asleep' = {}
              \/ \E w \in Worker : w \notin OnTheWay /\ OnTheWay \cup {w} \subseteq OnTheWay'
<1> USE DEF TInv, TypeOK
<1>1. c \in Notifying /\ Notifying \ {c} \subseteq Notifying'
  BY DEF Notify, Return, Leave, Notifying
<1>2. CASE \E w \in Worker : wpc[w] = "waiting" /\ wpc' = [wpc EXCEPT ![w] = "relock_post"]
  <2>1. PICK w \in Worker : wpc[w] = "waiting" /\ wpc' = [wpc EXCEPT ![w] = "relock_post"]
    BY <1>2
  <2>2. w \notin OnTheWay /\ OnTheWay \cup {w} \subseteq OnTheWay'
    BY <2>1 DEF OnTheWay
  <2> QED BY <1>1, <2>2
<1>3. CASE (\A w \in Worker : wpc[w] # "waiting") /\ UNCHANGED wpc
  <2>1. Asleep' = {}
    BY <1>3 DEF Asleep
  <2> QED BY <1>1, <2>1
<1> QED BY <1>2, <1>3 DEF Notify, NotifyOne

\* EveryTaskHasATaker is kept: a push brings its own notifier, a notifier hands
\* over to a worker, and a worker that goes takes a task with it.
LEMMA Balance ==
    ASSUME TInv, WInv, DInv, Free, EveryTaskHasATaker, [Next]_vars
    PROVE  EveryTaskHasATaker'
<1> DEFINE n == Cardinality(OnTheWay)     n1 == Cardinality(OnTheWay')
           k == Cardinality(Notifying)    k1 == Cardinality(Notifying')
           q == Len(task_queue)           q1 == Len(task_queue')
<1> SUFFICES ASSUME Asleep' # {}, task_queue' # <<>> PROVE q1 <= n1 + k1
  <2>1. n1 \in Nat /\ k1 \in Nat
    BY Counts DEF OnTheWay, Notifying
  <2>2. task_queue' = <<>> => q1 = 0
    OBVIOUS
  <2>3. q1 = 0 => q1 <= n1 + k1
    BY <2>1
  <2> QED BY <2>2, <2>3 DEF EveryTaskHasATaker
<1>1. /\ OnTheWay \subseteq Worker /\ OnTheWay' \subseteq Worker
      /\ Notifying \subseteq Client /\ Notifying' \subseteq Client
  BY DEF OnTheWay, Notifying
<1>2. n \in Nat /\ n1 \in Nat /\ k \in Nat /\ k1 \in Nat /\ q \in Nat
  BY <1>1, Counts DEF TInv, TypeOK
<1>3. Asleep # {} => q <= n + k
  BY DEF EveryTaskHasATaker
<1>4. OnTheWay \subseteq OnTheWay' => n <= n1
  BY <1>1, Counts, FS_Subset
<1>5. Notifying \subseteq Notifying' => k <= k1
  BY <1>1, Counts, FS_Subset
<1>6. ASSUME NEW w \in OnTheWay, OnTheWay \ {w} \subseteq OnTheWay' PROVE n - 1 <= n1
  <2>1. Cardinality(OnTheWay \ {w}) = n - 1
    BY <1>1, Counts, FS_RemoveElement
  <2> QED BY <1>1, <1>6, <2>1, Counts, FS_Subset
<1>7. ASSUME NEW c \in Notifying, Notifying \ {c} \subseteq Notifying' PROVE k - 1 <= k1
  <2>1. Cardinality(Notifying \ {c}) = k - 1
    BY <1>1, Counts, FS_RemoveElement
  <2> QED BY <1>1, <1>7, <2>1, Counts, FS_Subset
<1>8. ASSUME NEW w \in Worker, w \notin OnTheWay, OnTheWay \cup {w} \subseteq OnTheWay'
      PROVE  n + 1 <= n1
  <2>1. Cardinality(OnTheWay \cup {w}) = n + 1
    BY <1>1, <1>8, Counts, FS_AddElement
  <2> QED BY <1>1, <1>8, <2>1, Counts, FS_Subset
<1>9. ASSUME NEW c \in Client, Push(c) PROVE q1 <= n1 + k1
  <2>1. UNCHANGED <<Asleep, OnTheWay>>
    BY <1>9 DEF Push, workers, Asleep, OnTheWay
  <2>2. c \notin Notifying /\ Notifying' = Notifying \cup {c}
    BY <1>9 DEF Push, Notifying, TInv, TypeOK
  <2>3. k1 = k + 1
    BY <1>1, <2>2, Counts, FS_AddElement
  <2>4. n1 = n
    BY <2>1
  <2>5. q1 = q + 1
    BY <1>9 DEF Push, Pushed, TInv, TypeOK, SubmitsATask, Submitting
  <2>6. Asleep # {}
    BY <2>1
  <2> HIDE DEF n, n1, k, k1, q, q1
  <2> QED BY <1>2, <1>3, <2>3, <2>4, <2>5, <2>6
<1>10. ASSUME NEW w \in Worker, Take(w) PROVE q1 <= n1 + k1
  <2>1. task_queue # <<>>
    BY <1>10 DEF Take, TInv, TakesATask
  <2>2. q1 = q - 1
    BY <1>10, <2>1 DEF Take, Popped, TInv, TypeOK
  <2>3. Notifying \subseteq Notifying'
    BY <1>10 DEF Take, WokenDrainers, Notifying, TInv, TypeOK
  <2>4. Asleep # {} /\ n - 1 <= n1
    BY <1>2, <1>4, <1>6, <2>1, TakersView
  <2> HIDE DEF n, n1, k, k1, q, q1
  <2> QED BY <1>2, <1>3, <1>5, <2>2, <2>3, <2>4
<1>11. CASE /\ task_queue' = task_queue /\ \A w \in Worker : ~ Take(w)
  <2>1. Asleep # {} /\ n <= n1
    BY <1>4, <1>11, TakersView DEF OnTheWay
  <2>2. ASSUME NEW c \in Client, Notify(c) PROVE q1 <= n1 + k1
    <3>1. k - 1 <= k1
      BY <1>7, <2>2, NotifyView
    <3>2. n + 1 <= n1
      BY <1>8, <2>2, NotifyView
    <3>3. q1 = q
      BY <1>11
    <3> HIDE DEF n, n1, k, k1, q, q1
    <3> QED BY <1>2, <1>3, <2>1, <3>1, <3>2, <3>3
  <2>3. CASE \A c \in Client : ~ Notify(c)
    <3>1. Notifying \subseteq Notifying'
      BY <2>3, MovesView DEF Notifying
    <3>2. q1 = q
      BY <1>11
    <3> HIDE DEF n, n1, k, k1, q, q1
    <3> QED BY <1>2, <1>3, <1>5, <2>1, <3>1, <3>2
  <2> QED BY <2>2, <2>3
<1> QED BY <1>9, <1>10, <1>11, LengthView

\* EveryTaskHasATaker, for any number of workers and clients, threads that are
\* added and threads that end with the shutdown included.
THEOREM EachTaskTaken == ASSUME NeverHeld PROVE Spec => []EveryTaskHasATaker
<1>1. Init => Free /\ EveryTaskHasATaker
  <2>1. Init => Free
    BY DEF Init, Free, Stops, SemPcs, NeverHeld
  <2>2. Init => Asleep = {}
    BY DEF Init, Asleep
  <2> QED BY <2>1, <2>2 DEF EveryTaskHasATaker
<1>2. TInv /\ WInv /\ LInv /\ BInv /\ DInv /\ Free /\ EveryTaskHasATaker /\ [Next]_vars
         => Free' /\ EveryTaskHasATaker'
  BY FreeStep, Balance
<1>3. InOrder
  BY DEF NeverHeld, InOrder
<1>4. Spec => [](TInv /\ LInv /\ BInv /\ CInv /\ DInv)
  BY <1>3, Stopping
<1> QED BY <1>1, <1>2, <1>4, WorkerInvariant, PTL DEF Spec

=============================================================================
