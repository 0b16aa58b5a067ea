# Verification of Parallel_Computing

TLA+ models, TLC runs and TLAPS proofs for the concurrent programs of this
repository. The course weeks under `src/` hold independent programs. The one
with the most depth is the thread pool of `src/week9/EnhancedSocketServer`, a
reusable class with its own life cycle (pause, resume, resize, drain, terminate,
destroy); it is the core of this project. Around it stand the servers that use
it or do without it (weeks 7 and 9), the producer/consumer lab (week 7), the
message programs of weeks 10, 11 and 13, and the parallel Game of Life (week 6).
What is left out, and why, is in section 6.

`PROJECT.json` lists the components, the runs, the mutants, the map from each
definition to its lines, the findings, the hazards and the theorems.

## 1. Inventory

### 1.1 Thread pool (week9/EnhancedSocketServer)

*State.* The pool has a status (RUNNING, PAUSED, SHUTDOWN, TERMINATING,
TERMINATED), `max_task_count`, the list of workers and the queue of packaged
tasks. Three shared mutexes (`status_mutex`, `worker_list_mutex`,
`task_queue_mutex`) guard them; two condition variables announce "a task was
queued" and "the queue is empty". Each `worker_thread` has a status of its own
(RUNNING, PAUSED, BLOCKED, TERMINATING, TERMINATED) under its own mutex, and a
binary semaphore it sleeps on while paused.

*Operations.* `submit` (a template: status check, limit, push, notify), `pause`,
`resume`, `shutdown`, `terminate` / `shutdown_now`, `wait`, `add_thread`,
`remove_thread`, `set_max_task_count`, the constructor, the destructor; and the
thread function of a worker, a loop of three status checks around the queue.

*Interaction.* Callers and workers meet at the queue and at the workers'
statuses. A worker never takes `status_mutex`; the callers change a worker's
status at any point of its loop.

*Hard behaviour.* Status checks and the waits they guard are in different
critical sections; pauses and resumes leave tokens in a semaphore that is
defined only for 0 and 1; `terminate` does not take the queue lock before it
notifies; the limit is counted in one section and enforced in another; a call
owns `status_mutex` across several sections, so what it saw must still hold
when it acts.

*Correct means.* Tasks run once, in order, none lost; only a RUNNING pool
accepts; statuses of pool and workers agree between calls; pause holds a worker
and resume always lets it go; shutdown drains; every call returns.

### 1.2 Request servers (week9/EnhancedSocketServer, week9/lab3, week7/socket)

*State.* A listening socket with its backlog; the connections handed over to
handlers. *Operations.* `start` (socket, bind, listen, accept loop),
`handle_client` (one `recv`, `process_request`, one `send`, close), the
destructor. The enhanced server submits one task per connection to a pool of
four workers; lab3 starts one detached thread per connection; the date/time
server of week 7 accepts once and ends. *Interaction.* The server calls
`submit`, and `~Server()` shuts the pool down before it destroys it. *Hard.*
`recv` has no timeout: silent clients keep their workers, and the queue of the
pool grows without limit behind them. *Correct means.* A request is answered as
long as one worker is not held by a silent client; every connection is in one
place; nothing accepted is lost when the server goes.

### 1.3 Producer/consumer lab (week7/lab2)

A `Buffer` (queue, mutex, condition variable, flag `finished`), producers that
push their share of the numbers, consumers that pop and test them, and a
`run()` that joins all. Hard: the flag of the end is neither part of the wait's
predicate nor notified; it is set by the last-numbered producer whatever the
others do; it is tested after the pop; `printed` is a data race, and set before
the words are out.

### 1.4 Queue server (week10/lab4)

*State.* One queue of ints shared by all connections, with a mutex and a
condition variable; per producer connection a local vector `received_data`.
*Operations.* The first read of a connection names its role. A producer's
handler cuts what it reads into ints, starts a batch once ten are there (a loop
over a hundred), and pushes the rest when the connection ends; a consumer's
handler pops one int at a time and sends it. *Interaction.* Handlers meet at the
queue only; clients come and go. *Hard.* Numbers that straddle two reads;
numbers that arrive with the role; a batch beyond the end of the vector; a
popped number whose consumer is gone; SIGPIPE. *Correct means.* Every number is
in one place or accounted for as lost; no handler sleeps while there is work for
it; the queue drains while somebody listens.

### 1.5 Message center (week11/lab5) and message broker (week13)

Both broadcast what producers send to all registered consumers. In week 11 every
message has a connection and a thread of its own, and that thread numbers it
(under `queueMutex`) and broadcasts it (under `consumersMutex`). In week 13 a
producer keeps its connection and streams; its handler queues what each
`read_some` returns and notifies, and one processing thread pops and broadcasts.
*Hard.* A number given under one lock and a broadcast under another; one read
taken for one message of a stream; consumers that left and stay registered;
a broadcast that holds the consumers' lock while it sends; SIGPIPE (week 11) and
a `deserialize` that is right for one whole line only, and throws or mixes the
fields otherwise (week 13). *Correct means.* One order of the messages for all;
each consumer gets all of it from where it joined; what is made of a stream
follows it, and no number of it is lost; nobody waits for ever.

### 1.6 Parallel Game of Life (week6), serial Life (weeks 5, 6)

Rows divided among threads that write `nextBoard`, then joined, once per
generation. *Hard.* The division with a remainder, with more threads than rows
or with none; `swapBoard`, which nobody calls; the border, which is a torus in
the parallel program and dead outside in the serial ones. *Correct means.* No
row is written by two threads and none is left out; the joined generation
follows the rule; inside the border it is the serial one.

### 1.7 The rest

Parallel pi (weeks 4, 5), the HTTP clients (week 12) and the demonstrations of
thread primitives (week 3): section 6.

## 2. Modules

| module | models | proofs |
|---|---|---|
| `ThreadPool` | the pool, its workers and its callers (1.1), `~Server()` as call `close` | `ThreadPoolProofs`, `ThreadPoolAgreement` |
| `TaskExecutor` | abstract: what a pool promises its callers | |
| `Server` | the three request servers (1.2), over `TaskExecutor` | `ServerProofs` |
| `ProducerConsumer` | the buffer, its threads and `run()` (1.3) | `ProducerConsumerProofs` |
| `QueueServer` | the queue server and both its clients (1.4) | `QueueServerProofs` |
| `Multicast` | abstract: what a publish/subscribe server promises | |
| `MessageCenter` | week 11 (1.5), implements `Multicast` | `MessageCenterProofs` |
| `MessageBroker` | week 13 (1.5), implements `Multicast` | `MessageBrokerProofs` |
| `ParallelLife` | the parallel Life, the serial rule beside it (1.6) | `ParallelLifeProofs` |
| `MC...` | instances for TLC | |

Two abstract specifications tie the modules together. `ThreadPool` is proved to
implement `TaskExecutor`, and `Server` is written over `TaskExecutor`: the pool's
locks need not be seen again to reason about connections, and what `Server` does
to its pool is proved to be a behaviour of `TaskExecutor`. `MessageCenter` and
`MessageBroker` are two programs with one promise, `Multicast`, and both are
proved to keep it.

### 2.1 ThreadPool and the code

One action is one critical section: the state between two actions is a point at
which the C++ thread holds no *additional* lock and can be preempted. A lock
that spans several sections is a variable with an owner (`status_writer`,
`status_readers`, `list_writer`, `queue_writer`, `queue_readers`); the mutex of
a single worker spans none and has no variable. A shared lock of
`worker_list_mutex` does not occur in the calls modelled.

| worker thread (`worker_thread.cpp`) | action |
|---|---|
| head of the loop, 33-59: status check, maybe ends | `Check` |
| `pause_sem.acquire()`, at three places | `Acquire` (`sem_check`, `sem_pre`, `sem_post`) |
| lock of the queue, first test of `empty()` | `Lock` |
| check before the wait, stores BLOCKED | `Precheck` |
| `task_queue_cv.wait`: unlock and sleep | `Wait` |
| check after the wait, stores RUNNING | `Postcheck` |
| pop, tell the drainers, unlock | `Take` |
| the task | `Run` |

`wpc[w]` is where the worker is; the two `unlock_guard` blocks give the places
`relock_pre` and `relock_post`, which differ in what is tested afterwards: after
`relock_pre` the queue is not tested again (finding below).

| caller (`thread_pool.h`, `thread_pool.cpp`) | actions |
|---|---|
| any call begins | `Call` |
| `submit` | `Enter`, `Limited`, `GetTaskCount`, `Compare`, `Push`, `Notify` |
| `wait` | `Enter`, `Drain` |
| `shutdown` | `EnterAlone`, (`LockList`, `Each`, `EndResumeForShutdown`), `Drain`, `LockList`, `Each`, `EndTerminate` |
| `pause`, `resume` | `EnterAlone`, `LockList`, `Each`, `EndPauseOrResume` |
| `terminate`, `shutdown_now` | `EnterAlone`, `LockList`, `Each`, `EndTerminate` |
| `add_thread` | `Enter`, `LockList`, `AddOne`, `EndAdd` |
| `remove_thread` | `Enter`, `LockList`, `Each`, `EndTerminateRemoved`, `Erase`, `Join`, `EndErase` |
| `~thread_pool` | as `terminate`, then `Erase`, `Join`, `EndErase` |
| `~Server` (`close`) | `shutdown`, then `~thread_pool` |
| `set_max_task_count` | `SetMaxTaskCount` |

Where the code leaves the outcome open, so does the model: `Release` on a
semaphore that is already 1 (undefined behaviour) leaves 1 or grows; a wait may
end spuriously; `notify_one` wakes any sleeper. `std::thread` may fail:
`MaxThreads` is what the operating system grants.

Left out: the future and the return value of a task, logging, and
`get_thread_count`, `get_task_count` as calls of their own (they only read).
Tasks do not call the pool: none of the repository does, and `submit` inside a
task that runs while another thread waits for the exclusive status lock is the
caller's error. Several pools, and moving one, are not modelled (the move
operations are deleted).

### 2.2 TaskExecutor

The abstract pool: `mode` (open, held, closed), a queue, the tasks running and
those finished. It accepts only while open, starts tasks in order, each at most
once, never reopens once closed. `ThreadPool!Executor` maps status to mode,
`wtask` to running and `done` to finished. `ExecutesTasks` (safety, the whole
interface) and `ExecutesEveryTask` (with liveness, for the pool as the server
uses it) are checked as properties of the detailed specification.

### 2.3 ProducerConsumer

`Push`, `EndProduction` (producer.cpp), `Pop`, `Sleep` (buffer.cpp),
`CheckFinished`, `TestPrinted`, `LoadPrinted`, `StorePrinted`, `Announce`
(consumer.cpp) and the joins of `ThreadManager::run`. A number is a pair of its
producer and its rank; its value and the primality test change nothing the
program keeps. The unlocked `printed` is tested, read again, and written in
separate steps, and the words come after the write, as in the source.

### 2.4 Server

`Connect`, `SendRequest`, `Leave` are the clients (`client.cpp` of week 7 is one
of them); `Listen`, `StartFails`, `Accept` are `start()`, `StartHandler` is the
worker or thread that takes the connection, `HandleClient` is `handle_client`
from the return of its `recv` to the close. `variant` tells the three servers
apart: `pool` (at most `Slots` handlers), `detached` (as many as there are
clients), `once`. Commands are pairs of a name and an argument; each
variant answers the commands its source knows, and week 7 leaves a command it
does not know without an answer. `StartFails` closes the pool, as the destructor
does when `main` returns; the destruction of a server that is working is the call
`close` of `ThreadPool`.

### 2.5 QueueServer

| code | actions |
|---|---|
| `connect_to_server` of the clients | `ConnectProducer`, `ConnectConsumer` |
| `produce_data` | `ProducerSend` |
| `start_server`, the first read | `ReadProducerRole`, `ReadConsumerRole` |
| `handle_producer`, a read | `ReadNumbers` |
| `handle_producer`, the batch loop | `PushBatch`; beyond its data `PushBeyond`, `Crash` |
| `handle_producer`, the rest after the end of the stream | `PushRest` |
| `pop()` | `Pop`, `Sleep` |
| `handle_consumer`, the send | `Send`, `SendFails`, `BrokenPipe` |
| a consumer that ends or is killed | `ConsumerDies` |

An int is the pair of its halves, so that a read can end inside one: the loop
drops the odd half, and what follows is cut one half later (`Numbers`, `CutOff`).
Nothing depends on a number's value. The batch loop past the end of the vector
is undefined behaviour: foreign ints (`Junk`) enter the queue, and after it the
process may crash at any moment or live on (its handler neither reads nor pushes
any more). The batch gives up each number as it pushes it (`Unpushed`), where
the code erases all of them after the loop; the vector is local to the handler,
so nobody can tell. `peer` distinguishes a client that is `dead` (the kernel may
accept any number of sends to it, until its reset arrives) from a connection that
was `reset` (the next send is SIGPIPE).

### 2.6 Multicast, MessageCenter, MessageBroker

`Multicast` has one log, the length it had when each subscriber joined, and what
each was sent: `Publish`, `Join`, `Deliver`. `MessageCenter`:

| code | actions |
|---|---|
| `Producer::sendMessage` | `SendMessage` |
| `Consumer`: connect, `registerConsumer`; its end | `Connect`, `RegisterConsumer`, `ConsumerDies` |
| `handleClient` | `HandleRegister`, `HandleUnknown`, `HandleMessage` (the numbering) |
| `broadcastMessage` | `BeginBroadcast`, `SendTo`, `SendLost`, `BrokenPipe`, `EndBroadcast` |
| `stop` | `Stop` |

`consumersMutex` is held from `BeginBroadcast` to `EndBroadcast`; who holds it is
read off `handler`. `MessageBroker`:

| code | actions |
|---|---|
| `handle_producer` | `HandleProducer` (read and push), `DeserializeThrows`, `Notify`, `ProducerEof` |
| `handle_consumer` | `HandleConsumer` (accept and insertion) |
| a consumer: its connection, its end | `Connect`, `ConsumerDies` |
| `Message::deserialize` | `Deserialize`, `Throws` (operators) |
| `process_messages` | `Sleep`, `Pop` |
| `broadcast_message` | `BeginBroadcast`, `Write`, `EndBroadcast` |

What a producer writes is the constant `Text`, a sequence of kinds of characters
(`id`, `timestamp`, `tag`, `body`, the bar, the newline), made of lines as
`serialize` makes them (`Serialize`). A text is the set of its positions in that
stream, so that no character is mistaken for another one and a doubled or lost
character shows. A read returns the next 1 to `MaxRead` positions, and
`Deserialize` does with them what `deserialize` does: three searches for a bar
(`Separator`), of which the second starts at the beginning again when the first
found nothing (`npos + 1` is 0), four substrings (`Between`), and `stoi` and
`stol`, which skip leading white space, stop at what is not a digit, and throw
when there is none (`Number`, `Throws`). So a text without a bar goes into all
four fields, one that begins with the end of a line and goes on with the next
loses the id of that, and one that begins with a bar or inside a tag ends the
process (`DeserializeThrows`): nothing catches the exception. That a number may be
too large for `stoi` or `stol` is left out (the ids and times written are not, and
a text never glues two of them together without a bar or a newline).
`log`, `since` and `got` are history variables, named as in `Multicast` so that
the refinement mapping is the identity.

### 2.7 ParallelLife

`CreateThread` is one turn of the loop of `run()`, with `startRow` carried from
thread to thread; `UpdateRow` computes one row (a thread reads only `board`, and
nobody writes that, so finer steps show nothing more); `Join` is the joins and
`threads.clear()`; `Crash` the division by a `hardware_concurrency()` of zero;
`Compare` the comparison at the end. `SerialNeighbors` and `SerialNext` translate
the serial program.

### 2.8 Assumptions

- A request of `MessageCenter` or `Server`, and a role of `QueueServer`, is one
  small send and is read whole: each is far below a segment and is read by a
  `recv` of its own. The streams, where sends follow each other, are cut and
  merged at will.
- A client that lives reads in a loop, so that a full socket only delays a send.
- SIGPIPE is not handled by any program. `Server` sends once per connection, and
  asio (week 13) sends with MSG_NOSIGNAL, so only weeks 10 and 11 die of it.
- Spurious wakeups are modelled in `ThreadPool` only: `pop()` of week 10 and
  `process_messages` of week 13 test their predicate in a loop, and a spurious
  turn of it is a stutter.
- In `MessageBroker` the whole stream is on the wire from the start: reads return
  any part of what is there, so it does not matter how far the writer is. A
  producer may die inside a line: its text ends there. `FormatAssumption` is what
  the proofs use of the format of the lines: between two bars nothing but an id
  follows a newline, and a letter of a tag follows only letters. TLC evaluates it
  for the lines of the run. The thread that reads from a consumer changes no state
  and has no action (consumers of the repository never write). A write to a
  consumer never blocks for good: that consumers which stop reading hold up
  everybody is outside the model.
- `stop()` of `MessageCenter` closes the socket and ends the process in one step:
  what its detached threads do between the destruction of the object and the end
  of the process is not modelled.
- `Listen` of `Server` always listens in the end or fails: the Linux variants
  ignore the result of `listen()` (server_linux.cpp:30), after which `accept()`
  would fail for ever. `Backlog` stands for the length each server asks for (3 in
  week 7).
- Failures of `accept`, and of the creation of a thread by a server, are left
  out: the programs log the one and do not handle the other.

## 3. Runs

| run | expects | asks |
|---|---|---|
| `pool_control` | pass | two callers make any four calls of the whole interface but `close` |
| `pool_work` | pass | two callers, three calls of submit, wait, shutdown, close; two workers, a limit of one; liveness |
| `pool_destroy` | violation | does destruction without shutdown always complete? |
| `pool_resume` | violation | does a resumed pool run the tasks it accepts? |
| `pool_limit` | violation | does the limit hold under concurrent submits? |
| `lab2_buffer` | pass | two producers, three consumers, five numbers |
| `lab2_hang` | violation | does `run()` end? |
| `queue_server` | pass | two producers, two consumers that die, reads cut anywhere, batches beyond their data |
| `message_center` | pass | three messages, two consumers that come and die at any time |
| `message_broker` | pass | two streams cut and merged by the reads, two consumers that die |
| `life` | pass | boards of five rows on 0, 2, 3 and 6 threads |
| `server` | pass | three clients of each of the three servers |

**pool_control** checks `TypeOK`, `NoUndefinedStatus` (no worker dies of an
exception in its own status check), `NoLostResume`, `PoolAndWorkersAgree`,
`TransientHidden`, `TaskConservation`, `NoDrainerForgotten` (nobody sleeps in
`wait` or `shutdown` on an empty queue), `PausedStaysOut`, `AcceptOnlyRunning`
and the refinement `ExecutesTasks`. It starts with one worker; `add` brings a second
and `remove` can take either away.

**pool_work** checks `ShutdownDrains`, `CloseFinishesAll`, `EveryTaskHasATaker`
(while a worker sleeps, each queued task has a worker of its own on its way, or a
`submit` that is about to wake one: no task waits behind one that runs),
`OvershootBounded` (the limit is exceeded by less than one task per client), and,
under fairness, `CallsReturn` and `ExecutesEveryTask`. `EveryTaskHasATaker` is
asked of a pool that is neither paused nor shrunk: `pool_resume` shows what a
pause does to it, and with `remove` among the calls a worker that `notify_one`
chose may be the one that is removed.

**Findings.**
- `pool_destroy`: a worker that has stored BLOCKED but does not yet sleep misses
  the `notify_all` of `terminate`, which is made without `task_queue_mutex`; the
  destructor's own notification never happens because the status is
  TERMINATING by then; `join()` waits for ever. `shutdown` is safe: it keeps the
  queue lock while it terminates the workers. `Server` shuts down first.
- `pool_resume`: a worker paused at its check before the wait goes on to wait
  after the resume without testing the queue again, and a task submitted in
  between stays there with every worker asleep.
- `pool_limit`: the count and the push are two sections under a shared lock. How
  far the queue can grow beyond the limit is `OvershootBounded`, which holds.
- `lab2_hang`: consumers asleep at the end are never woken.

Findings without a run of their own (each is in `PROJECT.json` with its lines):
- lab2 consumers throw away the number they hold, and leave what is in the
  buffer, once the flag is set (`consumer.cpp:12`).
- `wait()` on a paused pool with queued tasks keeps `status_mutex` shared, so
  that the `resume()` it needs never gets it (`thread_pool.cpp:178`). The states
  are among those of `pool_control`; under `FairSpec` with calls of submit, wait,
  pause and resume, `resume() returns` is violated after twenty steps.
- `remove_thread` can wait for ever: its `notify_all` is made without
  `task_queue_mutex` (`thread_pool.cpp:308`), as that of `terminate` is, and a
  worker between BLOCKED and its sleep misses it; the destructor then finds it
  TERMINATING and does not notify again. Under `FairSpec` with calls of submit and
  remove, `CallsReturn` is violated after twelve steps.
- `queueServer.cpp:95`: a batch takes a hundred numbers once ten are there
  (`PushBeyond`); with its own producer client the server runs into it at once.
- `message_center.cpp:40` of week 13: a read is handed to `deserialize` whatever
  TCP made of the lines; anything but one whole line comes out altered, or ends the
  process (2.6). What is certain all the same is `InStreamOrder` and `OnlyIdsLost`.
- `consumerClient.cpp:22`: the port is not converted; it connects elsewhere.
- `MessageCenter.cpp:69`: a consumer that disconnected stays registered and the
  second send to it is SIGPIPE, although `README.md:11` of the lab promises that
  every subscriber gets every message (`BrokenPipe`).
- `main.cpp:21` of the parallel Life: `swapBoard` has no caller, every generation
  is computed from the first board.
- `task_decomposition.cpp:11`: an atomic that is loaded and stored, not added to.

Not a finding, but easily misread: `wait` and `shutdown` return while the last
tasks still run; only the destruction waits for them (`CloseFinishesAll`).

**lab2_buffer** (61,026 states) checks that numbers are neither lost nor doubled
(those that consumers throw away at the end are booked as such), that no consumer
sleeps on work, that no consumer is gone with the end unsaid and nobody about to
say it (`EndIsAnnounced`: the flag is raced for and set before the words are out),
and that finally the buffer is drained or every consumer has left it.

**queue_server** (1,064,452 states) checks `EveryHalfSomewhere` (each half of each
number sent is in one place: socket, `received_data`, queue, popped, delivered,
or lost to a read or to a client that had gone), `WorkHasATaker` (no wakeup is
lost: while a handler sleeps in `pop()`, every queued number has a handler that
is awake), `InSendOrder` (of each producer, what clients have or are about to get
was sent before what is queued, that before what waits in `received_data`, that
before what is in the socket; and a number is made of two neighbouring halves,
however wrongly the reads have cut it), and `Drained` (the queue is emptied again and again while the process
lives and some client listens).

**message_center** (197,194 states) and **message_broker** (1,269,561) check that
each program implements `Multicast` (`PromiseSpec`). For week 11 also
`EachGetsAll`, which is more than the promise (between two broadcasts nobody who
lives lacks anything), and `EveryoneServed`, its liveness. For week 13
`InStreamOrder` (the messages made of one stream follow it, from the first
broadcast to the last queued: all text of a message comes after all text of those
before it, so that what `deserialize` doubles is doubled within one message only),
`OnlyIdsLost` (of what was read, every timestamp, tag and body is in some message;
an id need not be) and `ServedOut` (unless an exception ends the process,
everything written is read and broadcast, who connected is registered, and every
consumer that lives has all since it registered).

**life** (120,120 states) checks `RowsApart`, `NextFollowsRule`, `InsideAgrees`.

**server** (190,864 states) checks in `TypeOK` that a connection is in one place
and that the handlers are within their number, and `RequestsAnswered`: a request
is answered unless its client leaves, the week 7 server has ended, or from some
time on every worker is held by a silent client. A silent client short of all of
them harms nobody, and lab3 is harmed by none.

### 3.1 Bounds, and why they are enough

- `MaxCalls` = 4 calls (3 with liveness): a call is a whole operation of several
  actions, and two callers interleave freely inside them. The known faults need
  two (destroy: one submit is not even needed) or three calls (pause, resume,
  submit); four leave room for a pause and a resume before a submit and a
  resize, or two pauses with a left-over token between them. It also bounds the
  task identities, one per call.
- `MaxThreads` = 2 and `InitThreads` = 1 or 2: with two workers a
  `notify_one` can pick the wrong one, one can be paused while the other takes,
  `remove_thread` has one to leave. `CanStart` fails at the bound, which is the
  failure of `std::thread`.
- `MaxSpurious` = 1: one spurious wakeup brings a worker to its second check with
  an empty queue; a second repeats that state.
- `Batches` = {1}, `Limits` = {1} (`pool_control`; starts unlimited, so the limit
  appears while a submit is under way), `InitLimit` = 1 (`pool_work`).
- lab2: `Total` = 5 with two producers leaves a remainder; three consumers are
  more than the numbers left at the end.
- queue_server: `Count` = 3 and 1, `Burst` = 2, `MinBatch` = 2, `Batch` = 3,
  `MaxRead` = 6 halves stand for 50, 10, 10, 100 and 512 bytes. They keep what
  matters: a burst is cut short at the end (3 is no multiple of 2), the batch
  starts with fewer numbers than it takes, so it runs beyond its data, or with
  exactly as many; the other producer never starts a batch; a read takes
  anything from half a number to all. Two consumers: one sleeps while the other
  works, one dies while the other lives.
- message_center: two messages of one producer and one of another, so that two
  can overtake each other between numbering and broadcast and a third comes
  after; two consumers, one of which can be dead or reset while the other still
  has to be served.
- message_broker: fields of one character; one producer writes a line and the
  first two fields of another before it dies, the other one digit, which
  `deserialize` accepts as a message. `MaxRead` = 10 is a line and a little more:
  reads take a whole line, cut in any field, and merge the end of the first line
  with the head of the second, the lost id included. Two consumers as above. The
  proofs are for lines of any length.
- life: boards of 5 by 3 with three or five live cells, (1,1) among them: five
  rows on two and three threads leave a remainder, six threads exceed the rows,
  zero crashes; three columns make every border rule visible, and the three
  inside cells see all their neighbours. Two generations: the second runs with a
  `nextBoard` that is not empty.
- server: three clients for `Slots` = 2 and `Backlog` = 2: two silent ones hold
  the pool and the third waits, and the backlog can be full. The requests are one
  that all of week 9 and lab3 know, one of week 9 only, one with a wrong
  argument and that of week 7.
- Clients are a symmetry set where no liveness is checked.

`CHECK_DEADLOCK FALSE` in every run: a pool whose callers have made their calls
rests with its workers asleep, a destroyed pool and an ended program stop, a
server rests when its clients have done what they want or is killed by a signal;
the hang of lab2 is stated as the liveness property `RunEnds`.

### 3.2 Fairness

Weak fairness for each caller's steps within a call and for each thread's steps:
the threads are scheduled by the operating system, and a mutex that stays free
is eventually obtained. Beginning a call is not fair (a program may never call),
nor are spurious wakeups. A task is assumed to return. Nothing needs strong
fairness: with bounded calls no mutex is taken and released for ever.

The other modules follow the same rule: weak fairness of every thread of the
program, none of what clients may or may not do. A handler is one thread, so
fairness is of the disjunction of its actions. In `QueueServer` a producer that
has connected goes on sending (its program is a loop without input), but a
consumer may die at any time; `Drained` asks for one that does not. In
`MessageBroker` a consumer need not connect, but who has is accepted. In
`MessageCenter` and `MessageBroker` weak fairness is enough for the threads that
want `consumersMutex`: there are finitely many messages, and the mutex is free
for good once the others are through. In `Server`, `Accept`, `StartHandler` and
`HandleClient` are fair (that a queued task is started when a worker is free is
the liveness of the pool, `ExecutesEveryTask`), and `HandleClient` waits for a
client that may stay silent.

### 3.3 Mutants

Each property of a passing run has a definition `Mut...` in the module, standing
before the definition it replaces: a notification forgotten, an order reversed, a
status not reset, a lock not waited for. TLC finds the property violated with it.

## 4. Proofs

Eight modules hold theorems, each about every value of the constants that
satisfies the module's assumption.

### 4.1 The thread pool: statuses and locks (`ThreadPoolProofs`)

For every set of clients, every number of threads, calls, limits and spurious
wakeups that satisfy `PoolAssumption` (numbers are natural, `InitThreads <=
MaxThreads`, the lock-free owner `NoOne` is nobody, clients are not workers):

| theorem | says |
|---|---|
| `TypeCorrect` | `Spec => []TypeOK` |
| `NeverThrows` | `Spec => []NoUndefinedStatus` |
| `ResumeReaches` | `Spec => []NoLostResume` |
| `PauseHolds` | `Spec => PausedStaysOut` |
| `TransientUnseen` | `Spec => []TransientHidden` |
| `AcceptsOnlyWhileRunning` | `Spec => AcceptOnlyRunning` |

*Types* (`Typing`). `TypeOK` is not inductive: `Take` uses the head of the queue,
which exists only because the worker has kept the queue lock since it saw it.
`TInv` adds who owns the lock at which place of the loop (`QueueLock`), that a
worker about to take has a task (`TakesATask`), that a worker that runs one has
one (`RunsATask`), what a submit carries (`SubmitsATask`), and that threads not
yet started do nothing (`Unborn`).

*Workers* (`WorkerInvariant`). `WorkerView` reduces every step to four kinds as
the workers see it: one of them acts, some wake up, a caller sets one's status,
a thread starts. `NoUndefinedStatus` becomes inductive with
`BlockedAroundSleep`: BLOCKED is stored only between the two checks of the
sleep, and pause, resume and terminate never store it. `NoLostResume` is
inductive as it stands. `PausedStaysOut` follows step by step from `WorkerView`.

*status_mutex* (`Locking`). `LInv` says which operation can be at which place
(`Places`), who holds `status_mutex` shared or alone there (`StatusLock`), and
what a holder knows of the status (`Known`: a submitter after its check, RUNNING;
a pause, PAUSED; a resume, RUNNING). A reader keeps writers out and a writer is
alone, so what a holder knows stays true until it acts. `TransientHidden` is part
of it, and `AcceptOnlyRunning` follows because only `Push` accepts.

### 4.2 The thread pool: tasks (`ThreadPoolProofs`)

| theorem | says |
|---|---|
| `TasksConserved` | `Spec => []TaskConservation` |
| `Refines` | `Spec => ExecutesTasks`, that is `TaskExecutor!Spec` |

`TaskView` reduces every step to three moves of tasks (`Push`, `Take`, `Run`) or
none, `CallView` to the one call that brings an identity. The invariant `CInv`
adds to conservation that an idle worker has no task (`IdleHasNone`) and that a
call's identity is not in use before its push (`FreshTasks`): this is what makes
the accepted task of the abstract `Accept` a new one. Queues without repetitions
need two lemmas on `Append` and `Tail`. For the refinement, `StatusView` gives the
changes of status that can occur; with `TransientHidden` and `AcceptOnlyRunning`
from above each step is an abstract one or a stutter.

### 4.3 The thread pool: pool and workers (`ThreadPoolAgreement`)

`PoolAgrees`: `Spec => []PoolAndWorkersAgree`. The property speaks of the moments
when no call is at work; the invariant `BInv` says how far the call at work has
got. `LoopProgress`: a loop over the workers has given those behind it the new
status, and those in `todo` still have one it started from. `ResizeProgress`: the
same for `add_thread` and `remove_thread`, which run under a shared lock of the
status and so beside submits, but keep each other out by the list lock.
`ListLock`, `Born` and `StatusKnown` tie lock, list and status; `Settled` is the
property itself. One lemma per kind of step.

### 4.4 The thread pool: shutdown (`ThreadPoolAgreement`)

Under `InOrder` (nobody calls `terminate` or destroys without shutdown, as in
`Server`): `ShutdownEmpties` (`[]ShutdownDrains`) and `CloseRunsAll`
(`[]CloseFinishesAll`). `DInv`: once the pool is stopped nothing is pushed, and
the drain left nothing. `GInv`: in the destructor its caller is alone (`Solo`),
the workers it has joined are out of their loops (`Reaped`) and those it erases
are in the list (`Erasing`); a worker that left its loop has no task, and
`TaskConservation` leaves only "done" for every accepted task.

### 4.5 The thread pool: sleepers and the limit (`ThreadPoolAgreement`)

| theorem | says | assumes |
|---|---|---|
| `DrainersWoken` | `Spec => []NoDrainerForgotten` | |
| `EachTaskTaken` | `Spec => []EveryTaskHasATaker` | `NeverHeld`: no call pauses, removes threads, terminates, or destroys without shutdown |
| `LimitWorth` | `Spec => []OvershootBounded` | `Limits = {}`: nobody sets the limit anew |

They count threads, and need `FinitelyMany` (the set of clients is finite) beside
`PoolAssumption`. `MovesView` says by which step a call gets to the places that
matter (asleep in `wait`, past the count, at the push, away from the
notification) and `LengthView` which step changes the length of the queue, and by
one.

*Takers.* `EveryTaskHasATaker` compares two counts and is inductive only with
`Free`: nobody is PAUSED, a worker is stopped only when the pool is (and then, by
`DInv` of 4.4, the queue is empty), and a worker between its test of the queue and
its sleep finds the queue still empty, because it has kept `task_queue_mutex`.
`FreeCalls`, `FreeControls` and `FreeWorker` give what callers and workers do to
the statuses there. Then (`Balance`) a push adds a task and a notifier; a notifier
that goes has turned a sleeper into a taker, or found nobody asleep; a worker that
leaves the way takes a task with it; and nobody falls asleep while there are tasks
(`TakersView`, `NotifyView`).

*The limit.* The invariant `OInv` bounds the length of the queue together with the
number of calls past a count that found room (`Passing`): a call joins them only
when the queue is below the limit, and a push takes one of them away.

### 4.6 The buffer (`ProducerConsumerProofs`)

`TypeCorrect`, `NobodySleepsOnWork`, `AnnouncesTheEnd` (with `Spoken`: whoever has
set the flag, has left on it, or is about to clear it again, saw it after somebody
reached the words; the race can announce more than once, never not at all; this
holds of every state, of the runs that `lab2_hang` shows never to end as well),
`NumbersConserved`: every number is
in one place, by counting a finite set of them; `AppendBuffered` and
`TailBuffered` say what a push and a pop do to the members of the buffer.

### 4.7 The queue server (`QueueServerProofs`)

`TypeCorrect` and `NoWakeupLost` (`[]WorkHasATaker`). Types need `RoundsLeft`: as
long as a batch has data it has rounds left, so `left` never goes below zero, and
the loop that runs beyond its data has none to lose. For the wakeups every step
is one of five kinds: a push (one sleeper more awake, if there is one), a pop
(one number and one taker less), a sleep (on an empty queue), a return to
`pop()`, or none of it; each keeps the balance.

`HalvesConserved` (`[]EveryHalfSomewhere`): a half is in one place if it was
sent, in none if not. `Places(b)` is the set of places, and the inductive form
(`Kept`) says that it is a singleton or empty instead of counting it. It rests on
the types alone: no reachability beyond them is needed, the batch that runs past
its data included, because what it invents is `Junk` and belongs to nobody. Each
step either leaves the places of a half as they are or moves them one to one
(`Moved`): a push from `received_data` to the queue shifts the places behind it
(`PushMoves`), a pop shifts the queue (`PopMoves`), a read carries an even
stretch of the socket over and loses what is cut off (`NumbersMove`). Only
`ProducerSend` makes places, for the halves it sends and for no other
(`SendKeeps`).

`StreamsInOrder` (`[]InSendOrder`): `InSendOrder` compares the places of the
server pairwise and is not inductive, because it does not say what the next half
sent or read will be. `OrderInv` adds that. `Stream`: the socket of a producer
holds the last halves it sent, without a gap, so that a half's rank (twice the
number plus the half) follows from its index and from `sent`. `LeftTheSocket`:
whatever is in `received_data`, in the queue, popped or delivered ranks below the
first half of that stretch. With these two the new halves of a send rank above
everything (`SendOrdered`), and what a read makes into numbers, whole or
one half off, ranks above `received_data` and the queue (`RisingNumbers`,
`ReadOrdered`). `Ordered` compares the places past the socket, and is kept by a
push because the head of `received_data` is below its tail and above the queue
(`PushOrdered`), by a pop likewise (`PopOrdered`), and by `Junk` because it ranks
nowhere. Several clients that pop do not harm the order, because each takes what
is below all that stays queued; between two clients nothing is promised, and the
property says nothing of it.

### 4.8 The message center (`MessageCenterProofs`)

`TypeCorrect`, `AllReachAll` (`[]EachGetsAll`), `Implements` (`PromiseSpec`). The
invariant `MInv`: at most one thread holds `consumersMutex` (`Holder`); the log is
made of the messages whose broadcast has begun, so the next one is new
(`Logged`); a registered consumer that lives has all of the log since it
registered, but for the last message while it is still in `todo` (`Delivered`);
and registration agrees with the link (`Linked`). A consumer that is dead or
reset stopped short: it has a prefix, which is what `Multicast` allows. Lemmas
`SuffixEmpty`, `SuffixOfAppend` and `SuffixGrows` give the end of a sequence.

### 4.9 The message broker (`MessageBrokerProofs`)

`TypeCorrect`, `InOrder` (`[]InStreamOrder`), `NothingElseLost` (`[]OnlyIdsLost`),
`Implements` (`PromiseSpec`), from `Invariant` (`BInv`). Two lemmas are about
`Deserialize` alone, for any text: `PartsOf`, that all it returns is part of what
was read; and `OnlyIdsMissing`, that if it does not throw, every character of a
timestamp, a tag or a body that was read is in a field. The latter splits on which
of the three searches succeed (`SeparatorIs`): without a bar, or with one or two,
some field is a copy of everything from the last bar found or from the beginning,
and with three the four fields are disjoint, `FormatAssumption` says what can stand
before the first and the second bar, and `NumberTakesAll` that `stoi` and `stol`
take all of it. The messages broadcast, in hand and queued form one sequence,
`Chain`: a read appends to it (`ChainGrows`), and pop and broadcast only move its
boundary (`ChainPassesOn`). `StreamsKept` is what the two properties say and that
no message has text beyond `read`, so a new one comes after all others
(`KeptByRead`). For the refinement `Counted` says what each registered consumer was
sent; that a published message is a new one follows from `StreamsKept`, as its id
is not empty and comes after every id of its stream in the log (`PublishStep`).
`JoinStep` and `DeliverStep` are the other steps of `Multicast`; a read, an
exception, a notification, a connection and a sleep are stutters.

### 4.10 The rows (`ParallelLifeProofs`)

`ThreadsKeepApart` (`[]RowsApart`) and `JoinedGenerationIsNext`
(`[]NextFollowsRule`), for every board and number of threads. `Quotient`,
`OneShare` and `NextShare` are the arithmetic of the division: `startRow` is the
number of threads created times the quotient, the last thread ends at `Rows`.
The rest is that a row behind a thread's `row` is the rule's.

`InsideIsSerial` (`[]InsideAgrees`): `NoWrap`, a row or column away from the
border plus an offset is not reduced by the modulus; so the offsets of
`countNeighbors` reach exactly the cells of `getAliveNumber`, and a bijection
between the two sets of living neighbours gives equal counts (`SameCount`).

### 4.11 The servers (`ServerProofs`)

| theorem | says |
|---|---|
| `TypeCorrect` | `Spec => []TypeOK`, with `OnePlaceEach` |
| `SubmitNeverRefused` | when `accept()` returns, the pool is open and does not know the connection |
| `UsesThePool` | `Spec => Pool!Spec`: what a server does to its pool is a behaviour of `TaskExecutor` |

`SInv` adds to `TypeOK` that nothing is queued before `listen`. A connection
moves from the backlog to the queue to a handler and is then finished;
`OnePlaceEach` says that these are disjoint, that neither queue holds one twice,
and that together they hold all that ever connected. `InAppend` and `InTail` say
what the two queues gain and lose. `SubmitNeverRefused` is why the model may use
the guarded `Pool!Accept` for a `submit` whose refusal `start()` does not handle,
and `UsesThePool` closes the composition: `Server` over the promise, `ThreadPool`
under it (4.2).

### 4.12 Only model-checked

- Everything under fairness: `CallsReturn`, `ExecutesEveryTask`,
  `DrainedOrAbandoned`, `Drained`, `EveryoneServed`, `ServedOut`,
  `RequestsAnswered`, and the violations. Liveness and ENABLED are out of the
  prover's reach.

Every safety invariant and action property of a passing run, and both
refinements of `Multicast` and the safety part of that of `TaskExecutor`, are
proved for every value of the constants.

## 5. Plan

All components that hold state of their own are modelled, and every safety
property that a run checks is a theorem. What is worth adding next:

- `ProducerConsumer`: numbers leave the buffer in the order each producer put
  them in. The run checks that none is lost or doubled, not their order; the
  argument would be that of `StreamsInOrder` without the socket.
- `MessageCenter` and `MessageBroker`: a registration is never undone (the hazard
  of dead consumers that stay registered rests on it), as an action property.
- `MessageBroker`: a consumer that stops reading without closing. `Write` would
  block with `consumers_mutex` held, and `ServedOut` would have to except it.
- `ThreadPool`: the bounds of 4.5 are proved for pools that nobody pauses
  (`EachTaskTaken`) or sets the limit of anew (`LimitWorth`); with these calls
  another statement is needed, since the present ones do not hold.

## 6. Not modelled

- *Parallel pi* (weeks 4, 5): threads that share one sum. `pi.cpp` and `pi_2.cpp`
  add to it under a lock; `task_decomposition.cpp` adds with a load and a store (a
  finding, two threads of one addition each). The rest is the rounding of
  doubles, which is not a matter of interleaving.
- *HTTP clients* (week 12): straight-line calls of libcurl against a service that
  is not in the repository; one thread, and no state between requests.
- *Thread primitives* (week 3): demonstrations of the standard library of some
  twenty lines each.
- *Serial Life* (weeks 5, 6): its rule is in `ParallelLife`, the sequential loop
  around it is not.
- *Conversions and displays*: wide strings and code pages, menus, timings, the
  values of numbers, timestamps and tags.
