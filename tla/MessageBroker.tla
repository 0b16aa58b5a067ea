--------------------------- MODULE MessageBroker ----------------------------
(***************************************************************************)
(* week13: producers stream messages into a queue, one thread pops them    *)
(* and writes each to every registered consumer.  What read_some returns   *)
(* is taken for one message, whatever TCP made of the stream, and          *)
(* Message::deserialize cuts its fields out of it.  A text is the set of   *)
(* the positions it takes in its producer's stream.  The definitions named *)
(* Mut... are faulty variants that no specification uses.                  *)
(***************************************************************************)
EXTENDS Naturals, Sequences

CONSTANTS Producer, Consumer,
          Text,          \* per producer: what it writes, character by character
          MaxRead        \* characters that fit into the buffer  (1024)

Kind == {"id", "timestamp", "tag", "body", "bar", "newline"}

ASSUME BrokerAssumption ==
    Text \in [Producer -> Seq(Kind)] /\ MaxRead \in Nat \ {0}

\* serialize() of fields of the given lengths.  producer.cpp writes such lines
\* without a pause and ends, or dies inside one.
Run(kind, n) == [i \in 1 .. n |-> kind]
Serialize(len) ==
    Run("id", len.id) \o <<"bar">> \o Run("timestamp", len.timestamp) \o <<"bar">>
    \o Run("tag", len.tag) \o <<"bar">> \o Run("body", len.body) \o <<"newline">>

Positions(p) == 1 .. Len(Text[p])
IsBar(p, i) == Text[p][i] = "bar"
IsNewline(p, i) == Text[p][i] = "newline"
IsDigit(p, i) == Text[p][i] \in {"id", "timestamp", "body"}

\* What is true of such lines: between two bars only an id follows a newline,
\* and no letter of a tag follows anything but a letter.
ASSUME FormatAssumption ==
    \A p \in Producer : \A i, j \in Positions(p) :
        i < j /\ (\A h \in i .. j : ~IsBar(p, h)) =>
            /\ IsNewline(p, i) => Text[p][j] = "id"
            /\ Text[p][j] = "tag" => Text[p][i] = "tag"

VARIABLES
    server,          \* the process: running, or killed by an exception
    read,            \* per producer: how much of its stream was read
    reader,          \* per producer: where its handler thread is
    message_queue,   \* what was read, as Message::deserialize understood it
    processor, msg,  \* the broadcasting thread; the message it has popped
    peer,            \* per consumer: not yet connected, alive or dead
    todo,            \* consumers the broadcast in progress has still to serve
    log, since, got  \* history: messages in the order of their broadcasts; its
                     \* length when a consumer registered; what each was sent

vars == <<server, read, reader, message_queue, processor, msg, peer, todo, log, since, got>>
history == <<log, since, got>>

Init ==
    /\ server = "running"
    /\ read = [p \in Producer |-> 0] /\ reader = [p \in Producer |-> "read"]
    /\ message_queue = <<>> /\ processor = "check" /\ msg = <<>>
    /\ peer = [c \in Consumer |-> "off"] /\ todo = {}
    /\ log = <<>> /\ since = [c \in {} |-> 0] /\ got = [c \in Consumer |-> <<>>]

Running == server = "running"
Registered == DOMAIN since

-----------------------------------------------------------------------------
\* consumer.cpp connects and only reads; it may die, of an exception of its own
\* or killed.
Connect(c) ==
    /\ Running /\ peer[c] = "off"
    /\ peer' = [peer EXCEPT ![c] = "alive"]
    /\ UNCHANGED <<server, reader, message_queue, processor, msg, todo, read, history>>

ConsumerDies(c) ==
    /\ peer[c] = "alive"
    /\ peer' = [peer EXCEPT ![c] = "dead"]
    /\ UNCHANGED <<server, reader, message_queue, processor, msg, todo, read, history>>

-----------------------------------------------------------------------------
(* Message::deserialize.  npos + 1 is 0: a search after npos starts at the *)
(* beginning, and a substring from npos + 1 does so too.                   *)
npos == 0

\* data.find('|', d + 1), and data.substr(d + 1, e - d - 1).
Separator(p, data, d) ==
    LET bars == {i \in data : i > d /\ IsBar(p, i)}
    IN  IF bars = {} THEN npos ELSE CHOOSE i \in bars : \A j \in bars : i <= j
Between(data, d, e) == {i \in data : i > d /\ (e = npos \/ i < e)}

\* The digits stoi and stol take, after white space; they throw if there are none.
Number(p, data) ==
    {i \in data : /\ IsDigit(p, i)
                  /\ \A j \in data : j < i => \/ IsDigit(p, j)
                                              \/ \A h \in data : h <= j => IsNewline(p, h)}

MutDeserialize(p, data) ==       \* the body in place of the tag
    LET d1 == Separator(p, data, npos)
        d2 == Separator(p, data, d1)
        d3 == Separator(p, data, d2)
    IN  [of |-> p,
         id |-> Number(p, Between(data, npos, d1)),
         timestamp |-> Number(p, Between(data, d1, d2)),
         tag |-> Between(data, d3, npos),
         body |-> Between(data, d3, npos)]

Deserialize(p, data) ==
    LET d1 == Separator(p, data, npos)
        d2 == Separator(p, data, d1)
        d3 == Separator(p, data, d2)
    IN  [of |-> p,
         id |-> Number(p, Between(data, npos, d1)),
         timestamp |-> Number(p, Between(data, d1, d2)),
         tag |-> Between(data, d2, d3),
         body |-> Between(data, d3, npos)]

Throws(m) == m.id = {} \/ m.timestamp = {}

\* What becomes of the characters a to b of a stream.
Parsed == [p \in Producer |-> [a \in Positions(p) |-> [b \in Positions(p) |-> Deserialize(p, a .. b)]]]

-----------------------------------------------------------------------------
\* handle_producer: any part of what is left may have arrived, up to the buffer.
Ends(p) == {e \in Positions(p) : read[p] < e /\ e <= read[p] + MaxRead}
Received(p, e) == Parsed[p][read[p] + 1][e]

HandleProducer(p) ==
    /\ Running /\ reader[p] = "read"
    /\ \E e \in Ends(p) :
         /\ ~Throws(Received(p, e))
         /\ message_queue' = Append(message_queue, Received(p, e))
         /\ read' = [read EXCEPT ![p] = e]
    /\ reader' = [reader EXCEPT ![p] = "notify"]
    /\ UNCHANGED <<server, processor, msg, todo, peer, history>>

\* Nothing catches what stoi throws: the process ends.
DeserializeThrows(p) ==
    /\ Running /\ reader[p] = "read"
    /\ \E e \in Ends(p) : Throws(Received(p, e))
    /\ server' = "killed"
    /\ UNCHANGED <<reader, message_queue, processor, msg, todo, read, peer, history>>

\* notify_all comes after the unlock.
MutWoken == processor                      \* the notify forgotten
Woken == IF processor = "asleep" THEN "check" ELSE processor

Notify(p) ==
    /\ Running /\ reader[p] = "notify"
    /\ reader' = [reader EXCEPT ![p] = "read"]
    /\ processor' = Woken
    /\ UNCHANGED <<server, message_queue, msg, todo, read, peer, history>>

ProducerEof(p) ==
    /\ Running /\ reader[p] = "read" /\ read[p] = Len(Text[p])
    /\ reader' = [reader EXCEPT ![p] = "ended"]
    /\ UNCHANGED <<server, message_queue, processor, msg, todo, read, peer, history>>

\* handle_consumer accepts who has connected, dead since or not, and inserts it
\* under consumers_mutex, which a broadcast holds; nobody is taken out again.
HandleConsumer(c) ==
    /\ Running /\ peer[c] # "off" /\ c \notin Registered /\ processor # "sending"
    /\ since' = [d \in Registered \cup {c} |-> IF d = c THEN Len(log) ELSE since[d]]
    /\ UNCHANGED <<server, reader, message_queue, processor, msg, todo, read, peer, log, got>>

-----------------------------------------------------------------------------
\* process_messages and broadcast_message.
Sleep ==
    /\ Running /\ processor = "check" /\ message_queue = <<>>
    /\ processor' = "asleep"
    /\ UNCHANGED <<server, reader, message_queue, msg, todo, read, peer, history>>

MutRest == message_queue                   \* front() without pop()
Rest == Tail(message_queue)

Pop ==
    /\ Running /\ processor = "check" /\ message_queue # <<>>
    /\ msg' = Head(message_queue) /\ message_queue' = Rest
    /\ processor' = "popped"
    /\ UNCHANGED <<server, reader, todo, read, peer, history>>

MutAudience == Consumer                    \* whoever has connected
Audience == Registered

BeginBroadcast ==
    /\ Running /\ processor = "popped"
    /\ processor' = "sending" /\ todo' = Audience /\ log' = Append(log, msg)
    /\ UNCHANGED <<server, reader, message_queue, msg, since, got, read, peer>>

\* A write to a consumer that is gone fails, is logged, and the loop goes on.
Write(c) ==
    /\ Running /\ processor = "sending" /\ c \in todo
    /\ got' = IF peer[c] = "alive" THEN [got EXCEPT ![c] = Append(@, msg)] ELSE got
    /\ todo' = todo \ {c}
    /\ UNCHANGED <<server, reader, message_queue, processor, msg, log, since, read, peer>>

EndBroadcast ==
    /\ Running /\ processor = "sending" /\ todo = {}
    /\ processor' = "check" /\ msg' = <<>>
    /\ UNCHANGED <<server, reader, message_queue, todo, read, peer, history>>

-----------------------------------------------------------------------------
Processor == Sleep \/ Pop \/ BeginBroadcast \/ EndBroadcast \/ \E c \in Consumer : Write(c)
ProducerHandler(p) == HandleProducer(p) \/ DeserializeThrows(p) \/ Notify(p) \/ ProducerEof(p)

Next ==
    \/ \E p \in Producer : ProducerHandler(p)
    \/ \E c \in Consumer : Connect(c) \/ HandleConsumer(c) \/ ConsumerDies(c)
    \/ Processor

Spec == Init /\ [][Next]_vars

\* The scheduler runs every thread.  The broadcaster lets go of consumers_mutex
\* after every message, and for good once all are sent.
FairSpec ==
    /\ Spec /\ WF_vars(Processor)
    /\ \A p \in Producer : WF_vars(ProducerHandler(p))
    /\ \A c \in Consumer : WF_vars(HandleConsumer(c))

-----------------------------------------------------------------------------
(* Properties.                                                             *)

\* What deserialize can return, and the characters a message is made of.
Message ==
    {m \in UNION {{Parsed[p][a][b] : a, b \in Positions(p)} : p \in Producer} : ~Throws(m)}
Characters(m) == m.id \cup m.timestamp \cup m.tag \cup m.body

\* Type invariant of the state above.
TypeOK ==
    /\ server \in {"running", "killed"}
    /\ read \in [Producer -> Nat] /\ \A p \in Producer : read[p] <= Len(Text[p])
    /\ reader \in [Producer -> {"read", "notify", "ended"}]
    /\ processor \in {"check", "asleep", "popped", "sending"}
    /\ message_queue \in Seq(Message) /\ log \in Seq(Message)
    /\ msg \in Message \cup {<<>>} /\ (msg = <<>> <=> processor \in {"check", "asleep"})
    /\ peer \in [Consumer -> {"off", "alive", "dead"}]
    /\ Registered \subseteq {c \in Consumer : peer[c] # "off"}
    /\ since \in [Registered -> Nat]
    /\ todo \subseteq Registered /\ (processor # "sending" => todo = {})
    /\ got \in [Consumer -> Seq(Message)]

\* All messages read, from the first broadcast to the last queued.
Chain == log \o (IF processor = "popped" THEN <<msg>> ELSE <<>>) \o message_queue
Of(p) == {i \in DOMAIN Chain : Chain[i].of = p}

\* However the reads cut the streams, whatever deserialize makes of the pieces
\* and however the threads interleave, the messages in the queue and in the
\* broadcasts follow their producer's stream: each is made of text that comes
\* after the text of those before it.  Text that deserialize doubles is doubled
\* within one message only (message_center.cpp:28-46, 105-120, common.hpp:40-50).
InStreamOrder ==
    \A p \in Producer : \A i, j \in Of(p) : i < j =>
        \A x \in Characters(Chain[i]), y \in Characters(Chain[j]) : x < y

\* Of what was read, only separators and ids are ever missing from the messages:
\* no timestamp, tag or number is lost, not even in part.  (An id is, when a read
\* ends inside a body: it comes after the rest of that body, where stoi has
\* stopped; message_center.cpp:39-45, common.hpp:40-50.)
OnlyIdsLost ==
    \A p \in Producer : \A x \in 1 .. read[p] :
        Text[p][x] \in {"timestamp", "tag", "body"} =>
            \E i \in Of(p) : x \in Characters(Chain[i])

\* The queue, the broadcasting thread and the two mutexes implement the promise.
Promise == INSTANCE Multicast WITH Subscriber <- Consumer
PromiseSpec == Promise!Spec

\* Unless an exception ends the process, all that was written is read, queued
\* and broadcast, every consumer that connected is registered in the end, and one
\* that lives was sent everything since: no wakeup is lost, and no consumer that
\* died holds up the others (message_center.cpp:46, 79-82, 92-95, 110).
Settled ==
    /\ message_queue = <<>> /\ \A p \in Producer : read[p] = Len(Text[p])
    /\ Registered = {c \in Consumer : peer[c] # "off"}
    /\ \A c \in Registered : peer[c] = "alive" => got[c] = SubSeq(log, since[c] + 1, Len(log))
ServedOut == <>[](Running => Settled)

=============================================================================
