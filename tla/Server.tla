------------------------------- MODULE Server --------------------------------
(***************************************************************************)
(* The request servers: week9/EnhancedSocketServer hands each connection   *)
(* to the thread pool, week9/lab3 to a detached thread of its own, and     *)
(* week7/socket serves one connection and ends.  The pool is what          *)
(* ThreadPool is proved to implement, with a limit on the tasks that run   *)
(* at once; a detached thread is a pool without that limit.  The           *)
(* definitions named Mut... are faulty variants no specification uses.     *)
(***************************************************************************)
EXTENDS Naturals, Sequences, FiniteSets

CONSTANTS Client,
          Request,       \* what clients send: a command and its argument
          Slots,         \* threads of the pool                          (4)
          Backlog        \* argument of listen()                         (5)

ASSUME ServerAssumption ==
    IsFiniteSet(Client) /\ Slots \in Nat \ {0} /\ Backlog \in Nat \ {0}

VARIABLES
    variant,             \* which of the three servers this is
    server,              \* starting, listening, or ended
    backlog,             \* connections the kernel has completed
    mode, queue, running, finished,   \* the executor: see TaskExecutor
    client, wire, reply  \* per client: its end; what it sent; what it was sent

exec == <<mode, queue, running, finished>>
ends == <<client, wire, reply>>
vars == <<variant, server, backlog, mode, queue, running, finished, client, wire, reply>>

Pool == INSTANCE TaskExecutor WITH Task <- Client

Nothing == <<>>

Init ==
    /\ variant \in {"pool", "detached", "once"}
    /\ server = "starting" /\ backlog = <<>> /\ Pool!Init
    /\ client = [c \in Client |-> "new"]
    /\ wire = [c \in Client |-> Nothing] /\ reply = [c \in Client |-> Nothing]

-----------------------------------------------------------------------------
\* The clients: of the week 7 pair, client.cpp; others are not in the
\* repository.  None has to send, or to leave.
Connect(c) ==
    /\ server = "listening" /\ client[c] = "new" /\ Len(backlog) < Backlog
    /\ client' = [client EXCEPT ![c] = "connected"] /\ backlog' = Append(backlog, c)
    /\ UNCHANGED <<variant, server, exec, wire, reply>>

SendRequest(c) ==
    /\ client[c] = "connected" /\ wire[c] = Nothing
    /\ \E r \in Request : wire' = [wire EXCEPT ![c] = r]
    /\ UNCHANGED <<variant, server, backlog, exec, client, reply>>

Leave(c) ==
    /\ client[c] = "connected"
    /\ client' = [client EXCEPT ![c] = "left"]
    /\ UNCHANGED <<variant, server, backlog, exec, wire, reply>>

-----------------------------------------------------------------------------
\* start(): socket, bind and listen may fail; then main returns, and the
\* destructor of the pooled server shuts its pool down.
Listen ==
    /\ server = "starting" /\ server' = "listening"
    /\ UNCHANGED <<variant, backlog, exec, ends>>

StartFails ==
    /\ server = "starting" /\ server' = "ended"
    /\ IF variant = "pool" THEN Pool!Close ELSE UNCHANGED exec
    /\ UNCHANGED <<variant, backlog, ends>>

Accepted == running \cup finished \cup {queue[i] : i \in DOMAIN queue}

MutMayAccept == server = "listening"                 \* week 7: a loop added
MayAccept == server = "listening" /\ (variant = "once" => Accepted = {})

\* accept(), and submit() or the creation of a thread.
Accept ==
    /\ MayAccept /\ backlog # <<>>
    /\ Pool!Accept(Head(backlog)) /\ backlog' = Tail(backlog)
    /\ UNCHANGED <<variant, server, ends>>

Capacity ==
    CASE variant = "pool" -> Slots
      [] variant = "detached" -> Cardinality(Client)
      [] variant = "once" -> 1

MutHasThread == Cardinality(running) + 1 < Capacity  \* a worker never started
HasThread == Cardinality(running) < Capacity

StartHandler ==
    /\ HasThread /\ Pool!Start
    /\ UNCHANGED <<variant, server, backlog, ends>>

-----------------------------------------------------------------------------
\* What each server answers; the one of week 7 is silent on what it does not know.
CommonAnswer(r) ==
    CASE r[1] = "gettime" -> <<"time">>
      [] r[1] = "test" -> <<r[2]>>
      [] r[1] = "auth" -> <<IF r[2] = "id" THEN "ok" ELSE "error">>
      [] OTHER -> <<"unknown command">>

PooledAnswer(r) ==
    IF r[1] = "auth2" THEN <<IF r[2] = "id,name" THEN "ok" ELSE "error">> ELSE CommonAnswer(r)

DatetimeAnswer(r) == IF r[1] = "getdatetime" THEN <<"time">> ELSE Nothing

ProcessRequest(r) ==
    CASE variant = "pool" -> PooledAnswer(r)
      [] variant = "detached" -> CommonAnswer(r)
      [] variant = "once" -> DatetimeAnswer(r)

\* recv blocks until the client has sent something, or has left without; there
\* is no timeout (the one in server_windows.cpp is commented out).
RecvReturns(c) == wire[c] # Nothing \/ client[c] = "left"

\* handle_client: one recv, the answer, the connection closed.  In week 7 the
\* program ends with it.
HandleClient(c) ==
    /\ RecvReturns(c) /\ Pool!Finish(c)
    /\ reply' = IF wire[c] = Nothing THEN reply
                ELSE [reply EXCEPT ![c] = ProcessRequest(wire[c])]
    /\ server' = IF variant = "once" THEN "ended" ELSE server
    /\ UNCHANGED <<variant, backlog, client, wire>>

-----------------------------------------------------------------------------
Next ==
    \/ Listen \/ StartFails \/ Accept \/ StartHandler
    \/ \E c \in Client : HandleClient(c) \/ Connect(c) \/ SendRequest(c) \/ Leave(c)

Spec == Init /\ [][Next]_vars

\* The accepting thread and the handlers are scheduled; a queued task is
\* started when a worker is free (the liveness of ThreadPool).  Clients owe
\* nothing.
FairSpec ==
    /\ Spec /\ WF_vars(Accept) /\ WF_vars(StartHandler)
    /\ \A c \in Client : WF_vars(HandleClient(c))

-----------------------------------------------------------------------------
(* Properties.                                                             *)

\* Where the connections are: in the kernel's queue or with the executor.
In(s) == {s[i] : i \in DOMAIN s}
NoneTwice(s) == \A i, j \in DOMAIN s : s[i] = s[j] => i = j

OnePlaceEach ==
    /\ NoneTwice(backlog) /\ NoneTwice(queue)
    /\ In(backlog) \cap Accepted = {}
    /\ In(queue) \cap (running \cup finished) = {} /\ running \cap finished = {}
    /\ \A c \in Client : client[c] # "new" <=> c \in In(backlog) \cup Accepted

\* Type invariant; every connection is in one place, so that the executor never
\* refuses one (accept() has no such guard); the threads are not oversubscribed,
\* only what was handled is answered, and the server of week 7 accepts one.
TypeOK ==
    /\ variant \in {"pool", "detached", "once"}
    /\ server \in {"starting", "listening", "ended"}
    /\ mode \in {"open", "closed"} /\ (mode = "closed" => server = "ended" /\ Accepted = {})
    /\ backlog \in Seq(Client) /\ queue \in Seq(Client) /\ running \cup finished \subseteq Client
    /\ client \in [Client -> {"new", "connected", "left"}]
    /\ wire \in [Client -> Request \cup {Nothing}]
    /\ Len(backlog) <= Backlog /\ Cardinality(running) <= Capacity
    /\ OnePlaceEach
    /\ \A c \in Client : reply[c] # Nothing => c \in finished
    /\ variant = "once" => Cardinality(Accepted) <= 1

\* A request is answered unless the client leaves, or the server of week 7 has
\* ended, or, from some time on, every thread the server has is held by a client that
\* says nothing: with Slots - 1 such clients all the others are served, and
\* the server of lab3 serves them whatever the number
\* (server_windows.cpp:71, 82-95; lab3/server_windows.cpp:55).
Silent == {c \in running : wire[c] = Nothing /\ client[c] # "left"}
RequestsAnswered ==
    \/ \A c \in Client :
         wire[c] # Nothing ~> (reply[c] # Nothing \/ client[c] = "left" \/ server = "ended")
    \/ variant # "detached" /\ <>[](Cardinality(Silent) = Capacity)

=============================================================================
