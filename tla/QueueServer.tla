---------------------------- MODULE QueueServer -----------------------------
(***************************************************************************)
(* week10/lab4: a queue of ints behind a TCP port.  A connection first     *)
(* names its role.  What a producer sends is read in whatever pieces TCP   *)
(* delivers, cut into ints and queued; a consumer is sent what is popped.  *)
(* An int is the pair of its two halves, so that a read may end inside     *)
(* one; nothing depends on its value.  The definitions named Mut... are    *)
(* faulty variants that no specification uses.                             *)
(***************************************************************************)
EXTENDS Naturals, Sequences, FiniteSets

CONSTANTS
    Producer, Consumer, \* the clients, one connection each
    Count,     \* numbers each producer sends              (50)
    Burst,     \* numbers of one send                      (10)
    MinBatch,  \* received numbers that start a batch      (10)
    Batch,     \* numbers the batch loop takes             (100)
    MaxRead    \* halves one read returns at most          (2 * 256)

ASSUME QueueAssumption ==
    /\ Count \in [Producer -> Nat] /\ {Burst, MinBatch, Batch, MaxRead} \subseteq Nat \ {0}
    /\ Producer \cap Consumer = {} /\ IsFiniteSet(Consumer)

Half(p) == {p} \X (1 .. Count[p]) \X {1, 2}
Byte == UNION {Half(p) : p \in Producer}    \* every half of every number
Junk == <<>>                                \* an int from outside the vector
Int4 == (Byte \X Byte) \cup {Junk}

VARIABLES
    up,            \* the server process lives
    sent, wire,    \* per producer: numbers sent; the halves in its socket
    ph,            \* per producer: where its handler thread is
    receivedData,  \* per producer: numbers not pushed yet
    left,          \* per producer: rounds left in the loop of a batch
    queue,         \* queueServer::queue
    ch, msg,       \* per consumer: where its handler is; the number popped
    got, peer,     \* per consumer: the halves sent to it; how its end is
    lost           \* halves that reached the server and no queue or client

vars == <<up, sent, wire, ph, receivedData, left, queue, ch, msg, got, peer, lost>>
producerVars == <<sent, wire, ph, receivedData, left>>
consumerVars == <<ch, msg, got, peer>>

Init ==
    /\ up = TRUE /\ queue = <<>> /\ lost = {}
    /\ sent = [p \in Producer |-> 0] /\ wire = [p \in Producer |-> <<>>]
    /\ ph = [p \in Producer |-> "off"]
    /\ receivedData = [p \in Producer |-> <<>>] /\ left = [p \in Producer |-> 0]
    /\ ch = [c \in Consumer |-> "off"] /\ msg = [c \in Consumer |-> <<>>]
    /\ got = [c \in Consumer |-> {}]
    /\ peer = [c \in Consumer |-> "alive"]

-----------------------------------------------------------------------------
\* connect_to_server: connect, then send the role.
ConnectProducer(p) ==
    /\ up /\ ph[p] = "off"
    /\ ph' = [ph EXCEPT ![p] = "role"]
    /\ UNCHANGED <<up, sent, wire, receivedData, left, queue, lost, consumerVars>>

ConnectConsumer(c) ==
    /\ up /\ ch[c] = "off"
    /\ ch' = [ch EXCEPT ![c] = "role"]
    /\ UNCHANGED <<up, queue, lost, msg, got, peer, producerVars>>

\* produce_data: the ranks of the next burst, and its halves in order.
Least(a, b) == IF a < b THEN a ELSE b
MutBurstHalves(p) ==                       \* the last send not cut short
    [j \in 1 .. 2 * Burst |-> <<p, sent[p] + (j + 1) \div 2, 2 - (j % 2)>>]
BurstHalves(p) ==
    LET k == Least(Burst, Count[p] - sent[p])
    IN  [j \in 1 .. 2 * k |-> <<p, sent[p] + (j + 1) \div 2, 2 - (j % 2)>>]

ProducerSend(p) ==
    /\ ph[p] # "off" /\ sent[p] < Count[p]
    /\ wire' = [wire EXCEPT ![p] = @ \o BurstHalves(p)]
    /\ sent' = [sent EXCEPT ![p] = Least(@ + Burst, Count[p])]
    /\ UNCHANGED <<up, ph, receivedData, left, queue, lost, consumerVars>>

\* A client that lives calls recv() in a loop, so that a socket that is full
\* only delays a send to it.
Receives(c) == peer[c] = "alive"

ConsumerDies(c) ==
    /\ ch[c] # "off" /\ peer[c] = "alive"
    /\ peer' = [peer EXCEPT ![c] = "dead"]
    /\ UNCHANGED <<up, queue, lost, ch, msg, got, producerVars>>

-----------------------------------------------------------------------------
\* start_server: the first read of a connection.  Numbers that arrived with
\* the role are dropped, and a client that died has sent none.
SetOf(s) == {s[i] : i \in DOMAIN s}
HalvesOf(s) == UNION {SetOf(n) : n \in SetOf(s)}
Cuts(p) == 0 .. Least(MaxRead, Len(wire[p]))

ReadProducerRole(p) ==
    /\ up /\ ph[p] = "role"
    /\ \E k \in Cuts(p) :
         /\ wire' = [wire EXCEPT ![p] = SubSeq(@, k + 1, Len(@))]
         /\ lost' = lost \cup SetOf(SubSeq(wire[p], 1, k))
    /\ ph' = [ph EXCEPT ![p] = "read"]
    /\ UNCHANGED <<up, sent, receivedData, left, queue, consumerVars>>

ReadConsumerRole(c) ==
    /\ up /\ ch[c] = "role"
    /\ ch' = [ch EXCEPT ![c] = IF peer[c] = "alive" THEN "pop" ELSE "ended"]
    /\ UNCHANGED <<up, queue, lost, msg, got, peer, producerVars>>

\* handle_producer: k halves make k \div 2 numbers; the halves of a number
\* the read cut are dropped, and the next read starts in its middle.
Numbers(s) == [i \in 1 .. Len(s) \div 2 |-> <<s[2 * i - 1], s[2 * i]>>]
CutOff(s) == IF Len(s) % 2 = 1 THEN {s[Len(s)]} ELSE {}

BatchDue(d) == Len(d) >= MinBatch

ReadNumbers(p) ==
    /\ up /\ ph[p] = "read" /\ wire[p] # <<>>
    /\ \E k \in Cuts(p) \ {0} :
         LET piece == SubSeq(wire[p], 1, k)
             data == receivedData[p] \o Numbers(piece)
         IN  /\ wire' = [wire EXCEPT ![p] = SubSeq(@, k + 1, Len(@))]
             /\ receivedData' = [receivedData EXCEPT ![p] = data]
             /\ lost' = lost \cup CutOff(piece)
             /\ IF BatchDue(data)
                THEN ph' = [ph EXCEPT ![p] = "batch"] /\ left' = [left EXCEPT ![p] = Batch]
                ELSE UNCHANGED <<ph, left>>
    /\ UNCHANGED <<up, sent, queue, consumerVars>>

\* push(): notify_one wakes any one of the handlers asleep in pop().
MutNotified ==                             \* only when the queue was empty
    IF queue = <<>> THEN {c \in Consumer : ch[c] = "asleep"} ELSE {}
MutNobody == {}                            \* no notify at all
Notified == {c \in Consumer : ch[c] = "asleep"}

MutPush(n) ==                              \* a stack
    /\ queue' = <<n>> \o queue
    /\ \/ \E c \in Notified : ch' = [ch EXCEPT ![c] = "pop"]
       \/ Notified = {} /\ UNCHANGED ch
Push(n) ==
    /\ queue' = Append(queue, n)
    /\ \/ \E c \in Notified : ch' = [ch EXCEPT ![c] = "pop"]
       \/ Notified = {} /\ UNCHANGED ch

\* What the batch has pushed goes: here with each push, in the code with one
\* erase(begin(), begin() + 100) after the loop, and nobody else sees the vector.
MutUnpushed(p) ==                          \* erase one too few
    IF left[p] = 1 THEN receivedData[p] ELSE Tail(receivedData[p])
Unpushed(p) == Tail(receivedData[p])

PushBatch(p) ==
    /\ up /\ ph[p] = "batch" /\ receivedData[p] # <<>>
    /\ Push(Head(receivedData[p]))
    /\ receivedData' = [receivedData EXCEPT ![p] = Unpushed(p)]
    /\ left' = [left EXCEPT ![p] = @ - 1]
    /\ ph' = [ph EXCEPT ![p] = IF left[p] = 1 THEN "read" ELSE "batch"]
    /\ UNCHANGED <<up, sent, wire, lost, msg, got, peer>>

\* The loop runs past the end of the vector and the erase behind it wrecks it:
\* foreign ints are queued, and the process may fail at any moment after.
PushBeyond(p) ==
    /\ up /\ ph[p] = "batch" /\ receivedData[p] = <<>>
    /\ IF left[p] > 0 THEN Push(Junk) /\ left' = [left EXCEPT ![p] = @ - 1] /\ UNCHANGED ph
                      ELSE ph' = [ph EXCEPT ![p] = "wrecked"] /\ UNCHANGED <<left, queue, ch>>
    /\ UNCHANGED <<up, sent, wire, receivedData, lost, msg, got, peer>>

Crash(p) ==
    /\ up /\ ph[p] \in {"batch", "wrecked"} /\ receivedData[p] = <<>>
    /\ up' = FALSE
    /\ UNCHANGED <<queue, lost, producerVars, consumerVars>>

\* The producer has closed its end: what is left is pushed, one by one.
PushRest(p) ==
    /\ up /\ ph[p] \in {"read", "rest"} /\ wire[p] = <<>> /\ sent[p] = Count[p]
    /\ IF receivedData[p] # <<>>
       THEN /\ Push(Head(receivedData[p])) /\ ph' = [ph EXCEPT ![p] = "rest"]
            /\ receivedData' = [receivedData EXCEPT ![p] = Tail(@)]
       ELSE ph' = [ph EXCEPT ![p] = "ended"] /\ UNCHANGED <<receivedData, queue, ch>>
    /\ UNCHANGED <<up, sent, wire, left, lost, msg, got, peer>>

\* pop() under the lock, then send() without it.
Pop(c) ==
    /\ up /\ ch[c] = "pop" /\ queue # <<>>
    /\ msg' = [msg EXCEPT ![c] = <<Head(queue)>>]
    /\ queue' = Tail(queue)
    /\ ch' = [ch EXCEPT ![c] = "send"]
    /\ UNCHANGED <<up, lost, got, peer, producerVars>>

Sleep(c) ==
    /\ up /\ ch[c] = "pop" /\ queue = <<>>
    /\ ch' = [ch EXCEPT ![c] = "asleep"]
    /\ UNCHANGED <<up, queue, lost, msg, got, peer, producerVars>>

Send(c) ==
    /\ up /\ ch[c] = "send" /\ Receives(c)
    /\ got' = [got EXCEPT ![c] = @ \cup HalvesOf(msg[c])]
    /\ msg' = [msg EXCEPT ![c] = <<>>]
    /\ ch' = [ch EXCEPT ![c] = "pop"]
    /\ UNCHANGED <<up, queue, lost, peer, producerVars>>

\* A send to a client that is gone is accepted by the kernel as long as its
\* reset has not arrived, or fails; the number is lost and not put back.
SendFails(c) ==
    /\ up /\ ch[c] = "send" /\ peer[c] = "dead"
    /\ lost' = lost \cup HalvesOf(msg[c])
    /\ msg' = [msg EXCEPT ![c] = <<>>]
    /\ \/ /\ ch' = [ch EXCEPT ![c] = "pop"]
          /\ \E r \in {"dead", "reset"} : peer' = [peer EXCEPT ![c] = r]
       \/ ch' = [ch EXCEPT ![c] = "ended"] /\ UNCHANGED peer
    /\ UNCHANGED <<up, queue, got, producerVars>>

\* send() without MSG_NOSIGNAL to a connection that was reset: SIGPIPE.
BrokenPipe(c) ==
    /\ up /\ ch[c] = "send" /\ peer[c] = "reset"
    /\ up' = FALSE
    /\ UNCHANGED <<queue, lost, producerVars, consumerVars>>

-----------------------------------------------------------------------------
ProducerHandler(p) ==
    ReadProducerRole(p) \/ ReadNumbers(p) \/ PushBatch(p) \/ PushBeyond(p) \/ PushRest(p)
ConsumerHandler(c) ==
    ReadConsumerRole(c) \/ Pop(c) \/ Sleep(c) \/ Send(c) \/ SendFails(c) \/ BrokenPipe(c)

Next ==
    \/ \E p \in Producer :
         ConnectProducer(p) \/ ProducerSend(p) \/ ProducerHandler(p) \/ Crash(p)
    \/ \E c \in Consumer : ConnectConsumer(c) \/ ConsumerHandler(c) \/ ConsumerDies(c)

Spec == Init /\ [][Next]_vars

\* The scheduler runs every thread, and a client that lives takes what is sent.
FairSpec ==
    /\ Spec
    /\ \A p \in Producer : WF_vars(ProducerHandler(p)) /\ WF_vars(ProducerSend(p))
    /\ \A c \in Consumer : WF_vars(ConsumerHandler(c))

-----------------------------------------------------------------------------
(* Properties.                                                             *)

\* Type invariant of the state above.
TypeOK ==
    /\ up \in BOOLEAN /\ queue \in Seq(Int4) /\ lost \subseteq Byte
    /\ sent \in [Producer -> Nat] /\ \A p \in Producer : sent[p] <= Count[p]
    /\ wire \in [Producer -> Seq(Byte)]
    /\ ph \in [Producer -> {"off", "role", "read", "batch", "wrecked", "rest", "ended"}]
    /\ receivedData \in [Producer -> Seq(Byte \X Byte)] /\ left \in [Producer -> 0 .. Batch]
    /\ ch \in [Consumer -> {"off", "role", "pop", "asleep", "send", "ended"}]
    /\ msg \in [Consumer -> Seq(Int4)]
    /\ \A c \in Consumer : Len(msg[c]) = (IF ch[c] = "send" THEN 1 ELSE 0)
    /\ got \in [Consumer -> SUBSET Byte] /\ peer \in [Consumer -> {"alive", "dead", "reset"}]

\* The places half b is in: its position in a socket, in received_data, in the
\* queue or in a popped number, the client it was sent to, or the lost ones.
InNumbers(s, b) == {x \in (DOMAIN s) \X {1, 2} : s[x[1]] # Junk /\ s[x[1]][x[2]] = b}
Places(b) == UNION (
    {{<<"wire", p, i, 0>> : i \in {j \in DOMAIN wire[p] : wire[p][j] = b}} : p \in Producer}
    \cup {{<<"data", p, x[1], x[2]>> : x \in InNumbers(receivedData[p], b)} : p \in Producer}
    \cup {{<<"msg", c, x[1], x[2]>> : x \in InNumbers(msg[c], b)} : c \in Consumer}
    \cup {{<<"queue", "server", x[1], x[2]>> : x \in InNumbers(queue, b)},
          {<<"got", c, 0, 0>> : c \in {c \in Consumer : b \in got[c]}},
          {<<"lost", "server", 0, 0>> : x \in {b} \cap lost}})

\* Every half a producer sent is in exactly one place: in its socket, waiting
\* in received_data, in the queue, popped, sent to a client, or lost to a read
\* or a client that had gone; and no half is anywhere before it is sent
\* (queueServer.cpp:49, 87, 96, 105, 111-113).
EveryHalfSomewhere ==
    \A b \in Byte : Cardinality(Places(b)) = IF b[2] <= sent[b[1]] THEN 1 ELSE 0

\* However the reads cut its stream and whoever else uses the queue, what a
\* producer sent passes in order: of one producer, all that clients have or are
\* about to get was sent before all that is queued, that before what waits in
\* received_data, and that before what is in the socket; and a number is made of
\* two neighbouring halves, if not of one number (queueServer.cpp:85-107, 111).
Rank(b) == 2 * b[2] + b[3]
Precede(S, T) == \A b \in S, c \in T : b[1] = c[1] => Rank(b) < Rank(c)
Neighbours(n) == n = Junk \/ (n[1][1] = n[2][1] /\ Rank(n[2]) = Rank(n[1]) + 1)
Rising(s) ==
    /\ \A i \in DOMAIN s : Neighbours(s[i])
    /\ \A i, j \in DOMAIN s : i < j => Precede(SetOf(s[i]), SetOf(s[j]))
InSendOrder ==
    /\ Rising(queue)
    /\ \A p \in Producer :
         /\ Rising(receivedData[p])
         /\ Precede(HalvesOf(receivedData[p]), SetOf(wire[p]))
         /\ Precede(HalvesOf(queue), HalvesOf(receivedData[p]) \cup SetOf(wire[p]))
    /\ \A c \in Consumer : \A p \in Producer :
         Precede(got[c] \cup HalvesOf(msg[c]),
                 HalvesOf(queue) \cup HalvesOf(receivedData[p]) \cup SetOf(wire[p]))

\* No wakeup is lost: while a handler sleeps in pop(), every queued number has
\* a handler that is awake and on its way to take it (queueServer.cpp:124, 133).
Popping == {c \in Consumer : ch[c] = "pop"}
Asleep == {c \in Consumer : ch[c] = "asleep"}
WorkHasATaker == Asleep # {} => Len(queue) <= Cardinality(Popping)

\* While the process lives and some client stays and listens, the queue is
\* emptied again and again, however the other clients come and go.
Drained ==
    (\E c \in Consumer : []<>(ch[c] # "off" /\ peer[c] = "alive")) /\ []up => []<>(queue = <<>>)

=============================================================================
