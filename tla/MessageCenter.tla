--------------------------- MODULE MessageCenter ----------------------------
(***************************************************************************)
(* week11/lab5: consumers register over a connection they keep, every      *)
(* message comes over a connection of its own, and the thread that read it *)
(* numbers it and sends it to every registered consumer.  A request is one *)
(* small send and is read whole.  The definitions named Mut... are faulty  *)
(* variants that no specification uses.                                    *)
(***************************************************************************)
EXTENDS Naturals, Sequences, FiniteSets

CONSTANTS Producer, Consumer,
          Sends          \* per producer: how many messages it sends (5)

ASSUME CenterAssumption == Sends \in [Producer -> Nat]

Message == UNION {{p} \X (1 .. Sends[p]) : p \in Producer}

VARIABLES
    server,        \* the process: running, stopped by main, or killed
    sent,          \* per producer: messages sent
    handler,       \* per message: where the thread of its connection is
    messageQueue,  \* every message so far; its place there is its sequence
    link, peer,    \* per consumer: how far it is; whether its end lives
    todo,          \* consumers the broadcast in progress has still to serve
    log, since, got \* history: messages in the order of their broadcasts; its
                   \* length when a consumer registered; what each was sent

vars == <<server, sent, handler, messageQueue, link, peer, todo, log, since, got>>
clientVars == <<sent, peer>>
history == <<log, since, got>>

Init ==
    /\ server = "running" /\ sent = [p \in Producer |-> 0]
    /\ handler = [m \in Message |-> "none"] /\ messageQueue = <<>>
    /\ link = [c \in Consumer |-> "off"] /\ peer = [c \in Consumer |-> "alive"]
    /\ todo = {}
    /\ log = <<>> /\ since = [c \in {} |-> 0] /\ got = [c \in Consumer |-> <<>>]

Running == server = "running"
Registered == DOMAIN since
Sending == {m \in Message : handler[m] = "sending"}

MutMutexFree == TRUE                       \* broadcasts without consumersMutex
MutexFree == Sending = {}

-----------------------------------------------------------------------------
\* Producer::sendMessage connects, sends and closes, and does not wait.
SendMessage(p) ==
    /\ Running /\ sent[p] < Sends[p]
    /\ sent' = [sent EXCEPT ![p] = @ + 1]
    /\ handler' = [handler EXCEPT ![<<p, sent[p] + 1>>] = "accepted"]
    /\ UNCHANGED <<server, messageQueue, link, peer, todo, history>>

\* Consumer: connect, then send REGISTER; it may die at any time.
Connect(c) ==
    /\ Running /\ link[c] = "off" /\ peer[c] = "alive"
    /\ link' = [link EXCEPT ![c] = "connected"]
    /\ UNCHANGED <<server, handler, messageQueue, todo, clientVars, history>>

RegisterConsumer(c) ==
    /\ Running /\ link[c] = "connected" /\ peer[c] = "alive"
    /\ link' = [link EXCEPT ![c] = "asked"]
    /\ UNCHANGED <<server, handler, messageQueue, todo, clientVars, history>>

ConsumerDies(c) ==
    /\ peer[c] = "alive"
    /\ peer' = [peer EXCEPT ![c] = "dead"]
    /\ UNCHANGED <<server, sent, handler, messageQueue, link, todo, history>>

-----------------------------------------------------------------------------
\* handleClient: REGISTER, of a client that may be gone by now; or nothing, of
\* one that went before it asked.
HandleRegister(c) ==
    /\ Running /\ link[c] = "asked" /\ MutexFree
    /\ link' = [link EXCEPT ![c] = "registered"]
    /\ since' = [d \in Registered \cup {c} |-> IF d = c THEN Len(log) ELSE since[d]]
    /\ UNCHANGED <<server, handler, messageQueue, todo, clientVars, log, got>>

HandleUnknown(c) ==
    /\ Running /\ link[c] = "connected" /\ peer[c] = "dead"
    /\ link' = [link EXCEPT ![c] = "unknown"]
    /\ UNCHANGED <<server, handler, messageQueue, todo, clientVars, history>>

\* handleClient and handleProducerMessage: the number is given under
\* queueMutex, and nothing ever leaves the queue.
HandleMessage(m) ==
    /\ Running /\ handler[m] = "accepted"
    /\ messageQueue' = Append(messageQueue, m)
    /\ handler' = [handler EXCEPT ![m] = "numbered"]
    /\ UNCHANGED <<server, link, todo, clientVars, history>>

\* broadcastMessage holds consumersMutex from the first send to the last.
MutAudience == {c \in Consumer : link[c] # "off"}   \* whoever has connected
Audience == Registered

BeginBroadcast(m) ==
    /\ Running /\ handler[m] = "numbered" /\ MutexFree
    /\ handler' = [handler EXCEPT ![m] = "sending"]
    /\ todo' = Audience /\ log' = Append(log, m)
    /\ UNCHANGED <<server, messageQueue, link, clientVars, since, got>>

\* A consumer that lives reads in a loop: a full socket delays the send only.
SendTo(m, c) ==
    /\ Running /\ handler[m] = "sending" /\ c \in todo /\ peer[c] = "alive"
    /\ got' = [got EXCEPT ![c] = Append(@, m)]
    /\ todo' = todo \ {c}
    /\ UNCHANGED <<server, handler, messageQueue, link, clientVars, log, since>>

\* A send to a consumer that is gone is lost and its result not looked at; once
\* the connection is reset it raises SIGPIPE, which nobody handles.
MutStillServed(m, c) == {}                 \* the loop ends at the first failed send
StillServed(m, c) == todo \ {c}

SendLost(m, c) ==
    /\ Running /\ handler[m] = "sending" /\ c \in todo /\ peer[c] # "alive"
    /\ peer' = [peer EXCEPT ![c] = "reset"]
    /\ todo' = StillServed(m, c)
    /\ UNCHANGED <<server, sent, handler, messageQueue, link, history>>

BrokenPipe(m, c) ==
    /\ Running /\ handler[m] = "sending" /\ c \in todo /\ peer[c] = "reset"
    /\ server' = "killed"
    /\ UNCHANGED <<handler, messageQueue, link, todo, clientVars, history>>

EndBroadcast(m) ==
    /\ Running /\ handler[m] = "sending" /\ todo = {}
    /\ handler' = [handler EXCEPT ![m] = "done"]
    /\ UNCHANGED <<server, messageQueue, link, todo, clientVars, history>>

\* main: stop() after Enter, then the process ends with all its threads.
Stop ==
    /\ Running /\ server' = "stopped"
    /\ UNCHANGED <<handler, messageQueue, link, todo, clientVars, history>>

-----------------------------------------------------------------------------
MessageThread(m) ==
    \/ HandleMessage(m) \/ BeginBroadcast(m) \/ EndBroadcast(m)
    \/ \E c \in Consumer : SendTo(m, c) \/ SendLost(m, c) \/ BrokenPipe(m, c)
ConsumerThread(c) == HandleRegister(c) \/ HandleUnknown(c)

Next ==
    \/ \E p \in Producer : SendMessage(p)
    \/ \E c \in Consumer : Connect(c) \/ RegisterConsumer(c) \/ ConsumerDies(c) \/ ConsumerThread(c)
    \/ \E m \in Message : MessageThread(m)
    \/ Stop

Spec == Init /\ [][Next]_vars

\* The scheduler runs every thread.  Nobody takes consumersMutex for ever: it is
\* free for good once the other messages and registrations are through.
FairSpec ==
    /\ Spec
    /\ \A m \in Message : WF_vars(MessageThread(m))
    /\ \A c \in Consumer : WF_vars(ConsumerThread(c))

-----------------------------------------------------------------------------
(* Properties.                                                             *)

\* Type invariant of the state above.
TypeOK ==
    /\ server \in {"running", "stopped", "killed"}
    /\ sent \in [Producer -> Nat] /\ \A p \in Producer : sent[p] <= Sends[p]
    /\ handler \in [Message -> {"none", "accepted", "numbered", "sending", "done"}]
    /\ link \in [Consumer -> {"off", "connected", "asked", "registered", "unknown"}]
    /\ peer \in [Consumer -> {"alive", "dead", "reset"}]
    /\ messageQueue \in Seq(Message) /\ log \in Seq(Message)
    /\ todo \subseteq Registered /\ since \in [Registered -> Nat] /\ Registered \subseteq Consumer
    /\ got \in [Consumer -> Seq(Message)]

\* One broadcast at a time (consumersMutex, MessageCenter.cpp:64), and between
\* two of them every registered consumer that lives was sent all that was
\* broadcast since it registered, in the common order (README.md:11).
OneAtATime == Cardinality(Sending) <= 1
EachGetsAll ==
    /\ OneAtATime
    /\ \A c \in Registered :
         peer[c] = "alive" /\ c \notin todo => got[c] = SubSeq(log, since[c] + 1, Len(log))

\* The threads, the two mutexes and the sockets implement the promise.
Promise == INSTANCE Multicast WITH Subscriber <- Consumer
PromiseSpec == Promise!Spec

\* A message that was read is sent to every consumer then registered, unless
\* that consumer or the server goes first: no broadcast is stuck.
Received(m, c) == \E i \in DOMAIN got[c] : got[c][i] = m
EveryoneServed ==
    \A m \in Message, c \in Consumer :
        handler[m] \in {"accepted", "numbered"} /\ c \in Registered
            ~> Received(m, c) \/ peer[c] # "alive" \/ ~ Running

=============================================================================
