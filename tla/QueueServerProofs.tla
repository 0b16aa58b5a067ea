-------------------------- MODULE QueueServerProofs --------------------------
(***************************************************************************)
(* Proofs about QueueServer, for any clients, any numbers and any sizes of *)
(* bursts, batches and reads: its types, that no wakeup of a handler       *)
(* asleep in pop() is lost, that every half of every number a producer     *)
(* sent stays in one place until it is delivered or accounted for, and     *)
(* that what one producer sent passes through the server in order.         *)
(***************************************************************************)
EXTENDS QueueServer, FiniteSetTheorems, SequenceTheorems, TLAPS

\* The part of a stream that stays in the socket, and the part that is read.
LEMMA Split ==
    ASSUME NEW S, NEW s \in Seq(S), NEW k \in 0 .. Len(s)
    PROVE  SubSeq(s, k + 1, Len(s)) \in Seq(S) /\ SubSeq(s, 1, k) \in Seq(S)
<1>1. ASSUME NEW i \in (k + 1) .. Len(s) PROVE s[i] \in S
  BY <1>1
<1>2. ASSUME NEW i \in 1 .. k PROVE s[i] \in S
  BY <1>2
<1> QED
  BY <1>1, <1>2, SubSeqProperties

LEMMA FromFunction ==
    ASSUME NEW S, NEW n \in Nat, NEW f \in [1 .. n -> S]
    PROVE  f \in Seq(S)
OBVIOUS

LEMMA CutsWithin ==
    ASSUME NEW p \in Producer, TypeOK, NEW k \in Cuts(p)
    PROVE  k \in 0 .. Len(wire[p])
BY QueueAssumption DEF Cuts, Least, TypeOK

\* Two halves make a number.
LEMMA NumbersTyped ==
    ASSUME NEW H, NEW s \in Seq(H)
    PROVE  Numbers(s) \in Seq(H \X H)
<1>1. Len(s) \div 2 \in Nat
  OBVIOUS
<1>2. ASSUME NEW i \in 1 .. Len(s) \div 2 PROVE <<s[2 * i - 1], s[2 * i]>> \in H \X H
  <2>1. 2 * i - 1 \in 1 .. Len(s) /\ 2 * i \in 1 .. Len(s)
    OBVIOUS
  <2> QED
    BY <2>1
<1> QED
  BY <1>1, <1>2 DEF Numbers

\* What a producer sends next are halves of its numbers.
LEMMA BurstTyped ==
    ASSUME NEW p \in Producer, TypeOK, sent[p] < Count[p]
    PROVE  /\ BurstHalves(p) \in Seq(Byte)
           /\ Least(sent[p] + Burst, Count[p]) \in 0 .. Count[p]
<1> DEFINE k == Least(Burst, Count[p] - sent[p])
<1>1. Burst \in Nat \ {0} /\ Count[p] \in Nat /\ sent[p] \in Nat
  BY QueueAssumption DEF TypeOK
<1>2. k \in Nat /\ sent[p] + k <= Count[p]
  BY <1>1 DEF Least
<1>3. ASSUME NEW j \in 1 .. 2 * k
      PROVE  <<p, sent[p] + (j + 1) \div 2, 2 - (j % 2)>> \in Byte
  <2>1. (j + 1) \div 2 \in 1 .. k /\ 2 - (j % 2) \in {1, 2}
    <3> HIDE DEF k
    <3> QED
      BY <1>2
  <2>2. sent[p] + (j + 1) \div 2 \in 1 .. Count[p]
    <3> HIDE DEF k
    <3> QED
      BY <1>1, <1>2, <2>1
  <2>3. <<p, sent[p] + (j + 1) \div 2, 2 - (j % 2)>> \in Half(p)
    BY <2>1, <2>2 DEF Half
  <2> QED
    BY <2>3 DEF Byte
<1>4. BurstHalves(p) \in Seq(Byte)
  <2> HIDE DEF k
  <2>1. 2 * k \in Nat
    BY <1>2
  <2>2. [j \in 1 .. 2 * k |-> <<p, sent[p] + (j + 1) \div 2, 2 - (j % 2)>>] \in [1 .. 2 * k -> Byte]
    BY <1>3, Zenon
  <2>3. [j \in 1 .. 2 * k |-> <<p, sent[p] + (j + 1) \div 2, 2 - (j % 2)>>] \in Seq(Byte)
    BY <2>1, <2>2, FromFunction
  <2> QED
    BY <2>3 DEF BurstHalves, k
<1> QED
  BY <1>1, <1>4 DEF Least

-----------------------------------------------------------------------------
\* While a batch has rounds left it may push; when it has none, the vector is
\* used up, and the loop has run past its end (queueServer.cpp:95-100).
RoundsLeft == \A p \in Producer : ph[p] = "batch" /\ receivedData[p] # <<>> => left[p] > 0

QInv == TypeOK /\ RoundsLeft /\ WorkHasATaker

LEMMA InitQInv == Init => QInv
<1> SUFFICES ASSUME Init PROVE QInv
  OBVIOUS
<1> USE DEF Init
<1>1. TypeOK
  BY QueueAssumption DEF TypeOK
<1>2. RoundsLeft
  BY DEF RoundsLeft
<1>3. WorkHasATaker
  BY DEF WorkHasATaker, Asleep
<1> QED
  BY <1>1, <1>2, <1>3 DEF QInv

\* A handler that wakes or comes back to pop() is one more to take a number; one
\* that leaves it is one less.
LEMMA OneMore ==
    ASSUME TypeOK, NEW c \in Consumer, ch[c] # "pop", NEW f,
           ch' = [ch EXCEPT ![c] = f]
    PROVE  /\ f = "pop" => /\ Popping' = Popping \cup {c}
                           /\ Cardinality(Popping') = Cardinality(Popping) + 1
           /\ f # "pop" => Popping' = Popping
           /\ Cardinality(Popping) \in Nat
<1>1. IsFiniteSet(Popping) /\ c \notin Popping
  BY QueueAssumption, FS_Subset DEF Popping
<1>2. Cardinality(Popping) \in Nat
  BY <1>1, FS_CardinalityType
<1>3. ASSUME f = "pop" PROVE Popping' = Popping \cup {c}
  BY <1>3 DEF Popping, TypeOK
<1>4. Cardinality(Popping \cup {c}) = Cardinality(Popping) + 1
  BY <1>1, FS_AddElement
<1>5. ASSUME f # "pop" PROVE Popping' = Popping
  BY <1>5 DEF Popping, TypeOK
<1> QED
  BY <1>2, <1>3, <1>4, <1>5

LEMMA OneLess ==
    ASSUME TypeOK, NEW c \in Consumer, ch[c] = "pop", NEW f, f # "pop",
           ch' = [ch EXCEPT ![c] = f]
    PROVE  /\ Cardinality(Popping') = Cardinality(Popping) - 1
           /\ Cardinality(Popping) \in Nat
<1>1. IsFiniteSet(Popping) /\ c \in Popping
  BY QueueAssumption, FS_Subset DEF Popping
<1>2. Cardinality(Popping) \in Nat
  BY <1>1, FS_CardinalityType
<1>3. Popping' = Popping \ {c}
  BY DEF Popping, TypeOK
<1> QED
  BY <1>1, <1>2, <1>3, FS_RemoveElement

\* The kinds of steps, as sleepers and queue see them: a push wakes one sleeper
\* if there is one; a pop, a sleep, a return to pop(); the rest leaves both alone.
Pushing == \E n \in Int4 : Push(n)
Aside == queue' = queue /\ Asleep' = Asleep /\ Popping' = Popping
Return(c) == /\ queue' = queue /\ ch[c] \in {"role", "send"}
             /\ \E f \in {"pop", "ended"} : ch' = [ch EXCEPT ![c] = f]

LEMMA PushKeeps == TypeOK /\ WorkHasATaker /\ Pushing => WorkHasATaker'
<1> SUFFICES ASSUME TypeOK, WorkHasATaker, NEW n \in Int4, Push(n), Asleep' # {}
             PROVE  Len(queue') <= Cardinality(Popping')
  BY DEF Pushing, WorkHasATaker
<1>1. queue' = Append(queue, n) /\ Len(queue') = Len(queue) + 1 /\ Len(queue) \in Nat
  BY DEF Push, TypeOK
<1>2. Asleep # {}
  BY DEF Push, Notified, Asleep, TypeOK
<1>3. PICK c \in Notified : ch' = [ch EXCEPT ![c] = "pop"]
  BY <1>2 DEF Push, Notified, Asleep
<1>4. c \in Consumer /\ ch[c] # "pop"
  BY <1>3 DEF Notified
<1>5. Cardinality(Popping') = Cardinality(Popping) + 1 /\ Cardinality(Popping) \in Nat
  BY <1>3, <1>4, OneMore
<1> QED
  BY <1>1, <1>2, <1>5 DEF WorkHasATaker

LEMMA PopKeeps ==
    ASSUME NEW c \in Consumer, TypeOK, WorkHasATaker, Pop(c)
    PROVE  WorkHasATaker'
<1> SUFFICES ASSUME Asleep' # {} PROVE Len(queue') <= Cardinality(Popping')
  BY DEF WorkHasATaker
<1>1. queue # <<>> /\ Len(queue') = Len(queue) - 1 /\ Len(queue) \in Nat
  BY DEF Pop, TypeOK
<1>2. Asleep # {}
  BY DEF Pop, Asleep, TypeOK
<1>3. Cardinality(Popping') = Cardinality(Popping) - 1 /\ Cardinality(Popping) \in Nat
  BY OneLess DEF Pop
<1> QED
  BY <1>1, <1>2, <1>3 DEF WorkHasATaker

LEMMA SleepKeeps ==
    ASSUME NEW c \in Consumer, TypeOK, Sleep(c)
    PROVE  WorkHasATaker'
<1>1. queue' = <<>> /\ Len(queue') = 0
  BY DEF Sleep
<1>2. Cardinality(Popping') \in Nat
  BY QueueAssumption, FS_Subset, FS_CardinalityType DEF Popping
<1> QED
  BY <1>1, <1>2 DEF WorkHasATaker

LEMMA ReturnKeeps ==
    ASSUME NEW c \in Consumer, TypeOK, WorkHasATaker, Return(c)
    PROVE  WorkHasATaker'
<1>1. PICK f \in {"pop", "ended"} : ch' = [ch EXCEPT ![c] = f]
  BY DEF Return
<1>2. Asleep' = Asleep
  BY <1>1 DEF Return, Asleep, TypeOK
<1>3. /\ Cardinality(Popping) \in Nat
      /\ Cardinality(Popping') \in {Cardinality(Popping), Cardinality(Popping) + 1}
  BY <1>1, OneMore DEF Return
<1>4. queue' = queue /\ Len(queue) \in Nat
  BY DEF Return, TypeOK
<1> QED
  BY <1>2, <1>3, <1>4 DEF WorkHasATaker

LEMMA AsideKeeps == WorkHasATaker /\ Aside => WorkHasATaker'
BY DEF Aside, WorkHasATaker

-----------------------------------------------------------------------------
\* Every step is one of those kinds, keeps the types, and keeps RoundsLeft.
LEMMA PushTyped ==
    ASSUME TypeOK, NEW n \in Int4, Push(n), UNCHANGED <<msg, got, peer>>
    PROVE  /\ queue' \in Seq(Int4)
           /\ ch' \in [Consumer -> {"off", "role", "pop", "asleep", "send", "ended"}]
           /\ \A c \in Consumer : Len(msg'[c]) = (IF ch'[c] = "send" THEN 1 ELSE 0)
<1>1. queue' \in Seq(Int4)
  BY DEF Push, TypeOK
<1>2. CASE UNCHANGED ch
  BY <1>1, <1>2 DEF TypeOK
<1>3. ASSUME NEW c \in Notified, ch' = [ch EXCEPT ![c] = "pop"]
      PROVE  /\ ch' \in [Consumer -> {"off", "role", "pop", "asleep", "send", "ended"}]
             /\ \A d \in Consumer : Len(msg'[d]) = (IF ch'[d] = "send" THEN 1 ELSE 0)
  BY <1>3 DEF TypeOK, Notified
<1> QED
  BY <1>1, <1>2, <1>3 DEF Push

LEMMA ProducerStep ==
    ASSUME TypeOK, RoundsLeft, NEW p \in Producer,
           ConnectProducer(p) \/ ProducerSend(p) \/ ProducerHandler(p) \/ Crash(p)
    PROVE  TypeOK' /\ RoundsLeft' /\ (Pushing \/ Aside)
<1> USE DEF producerVars, consumerVars
<1>1. CASE ConnectProducer(p)
  BY <1>1 DEF ConnectProducer, TypeOK, RoundsLeft, Aside, Asleep, Popping
<1>2. CASE ProducerSend(p)
  <2>1. BurstHalves(p) \in Seq(Byte) /\ Least(sent[p] + Burst, Count[p]) \in 0 .. Count[p]
    BY <1>2, BurstTyped DEF ProducerSend
  <2>2. wire' \in [Producer -> Seq(Byte)]
    BY <1>2, <2>1 DEF ProducerSend, TypeOK
  <2>3. sent' \in [Producer -> Nat] /\ \A q \in Producer : sent'[q] <= Count[q]
    <3>1. Count[p] \in Nat
      BY QueueAssumption
    <3>2. sent' = [sent EXCEPT ![p] = Least(sent[p] + Burst, Count[p])]
      BY <1>2 DEF ProducerSend
    <3> QED
      BY <2>1, <3>1, <3>2 DEF TypeOK
  <2> QED
    BY <1>2, <2>2, <2>3 DEF ProducerSend, TypeOK, RoundsLeft, Aside, Asleep, Popping
<1>3. CASE ReadProducerRole(p)
  <2>1. PICK k \in Cuts(p) :
          /\ wire' = [wire EXCEPT ![p] = SubSeq(wire[p], k + 1, Len(wire[p]))]
          /\ lost' = lost \cup SetOf(SubSeq(wire[p], 1, k))
    BY <1>3 DEF ReadProducerRole
  <2>2. wire[p] \in Seq(Byte) /\ k \in 0 .. Len(wire[p])
    BY CutsWithin DEF TypeOK
  <2>3. SubSeq(wire[p], k + 1, Len(wire[p])) \in Seq(Byte) /\ SubSeq(wire[p], 1, k) \in Seq(Byte)
    BY <2>2, Split
  <2>4. SetOf(SubSeq(wire[p], 1, k)) \subseteq Byte
    BY <2>3 DEF SetOf
  <2>5. wire' \in [Producer -> Seq(Byte)] /\ lost' \subseteq Byte
    BY <2>1, <2>3, <2>4 DEF TypeOK
  <2> QED
    BY <1>3, <2>5 DEF ReadProducerRole, TypeOK, RoundsLeft, Aside, Asleep, Popping
<1>4. CASE ReadNumbers(p)
  <2>1. PICK k \in Cuts(p) \ {0} :
          LET piece == SubSeq(wire[p], 1, k)
              data == receivedData[p] \o Numbers(piece)
          IN  /\ wire' = [wire EXCEPT ![p] = SubSeq(wire[p], k + 1, Len(wire[p]))]
              /\ receivedData' = [receivedData EXCEPT ![p] = data]
              /\ lost' = lost \cup CutOff(piece)
              /\ IF BatchDue(data)
                 THEN ph' = [ph EXCEPT ![p] = "batch"] /\ left' = [left EXCEPT ![p] = Batch]
                 ELSE UNCHANGED <<ph, left>>
    BY <1>4 DEF ReadNumbers
  <2> DEFINE piece == SubSeq(wire[p], 1, k)
             data == receivedData[p] \o Numbers(piece)
  <2>2. wire[p] \in Seq(Byte) /\ k \in 0 .. Len(wire[p])
    BY CutsWithin DEF TypeOK
  <2>3. SubSeq(wire[p], k + 1, Len(wire[p])) \in Seq(Byte) /\ piece \in Seq(Byte)
    BY <2>2, Split
  <2>4. Numbers(piece) \in Seq(Byte \X Byte)
    BY <2>3, NumbersTyped
  <2>5. data \in Seq(Byte \X Byte)
    BY <2>4 DEF TypeOK
  <2>6. CutOff(piece) \subseteq Byte
    <3> HIDE DEF piece
    <3> QED
      BY <2>3 DEF CutOff
  <2> HIDE DEF piece, data
  <2>7. /\ wire' = [wire EXCEPT ![p] = SubSeq(wire[p], k + 1, Len(wire[p]))]
        /\ receivedData' = [receivedData EXCEPT ![p] = data]
        /\ lost' = lost \cup CutOff(piece)
        /\ \/ ph' = [ph EXCEPT ![p] = "batch"] /\ left' = [left EXCEPT ![p] = Batch]
           \/ UNCHANGED <<ph, left>>
    BY <2>1 DEF piece, data
  <2>8. Batch \in Nat /\ Batch > 0
    BY QueueAssumption
  <2>9. /\ ph' \in [Producer -> {"off", "role", "read", "batch", "wrecked", "rest", "ended"}]
        /\ left' \in [Producer -> 0 .. Batch]
    <3>1. Batch \in 0 .. Batch /\ left \in [Producer -> 0 .. Batch]
          /\ ph \in [Producer -> {"off", "role", "read", "batch", "wrecked", "rest", "ended"}]
      BY <2>8 DEF TypeOK
    <3>2. CASE ph' = [ph EXCEPT ![p] = "batch"] /\ left' = [left EXCEPT ![p] = Batch]
      <4> DEFINE S == 0 .. Batch
      <4> HIDE DEF S
      <4>1. Batch \in S /\ left \in [Producer -> S]
        BY <3>1 DEF S
      <4>2. left' \in [Producer -> S]
        BY <3>2, <4>1
      <4> QED
        BY <3>1, <3>2, <4>2 DEF S
    <3>3. CASE UNCHANGED <<ph, left>>
      BY <3>1, <3>3
    <3> QED
      BY <2>7, <3>2, <3>3
  <2>10. RoundsLeft'
    <3>1. ph[p] = "read"
      BY <1>4 DEF ReadNumbers
    <3> QED
      BY <2>7, <2>8, <3>1 DEF RoundsLeft, TypeOK
  <2>11. wire' \in [Producer -> Seq(Byte)] /\ receivedData' \in [Producer -> Seq(Byte \X Byte)]
         /\ lost' \subseteq Byte
    BY <2>3, <2>5, <2>6, <2>7 DEF TypeOK
  <2> QED
    BY <1>4, <2>9, <2>10, <2>11 DEF ReadNumbers, TypeOK, Aside, Asleep, Popping
<1>5. CASE PushBatch(p)
  <2>1. Head(receivedData[p]) \in Int4 /\ Tail(receivedData[p]) \in Seq(Byte \X Byte)
    BY <1>5 DEF PushBatch, Unpushed, TypeOK, Int4
  <2>2. /\ queue' \in Seq(Int4)
        /\ ch' \in [Consumer -> {"off", "role", "pop", "asleep", "send", "ended"}]
        /\ \A c \in Consumer : Len(msg'[c]) = (IF ch'[c] = "send" THEN 1 ELSE 0)
    BY <1>5, <2>1, PushTyped DEF PushBatch, Unpushed
  <2>3. left[p] \in 1 .. Batch /\ Batch \in Nat
    BY <1>5, QueueAssumption DEF PushBatch, RoundsLeft, TypeOK
  <2>4. left' \in [Producer -> 0 .. Batch]
        /\ receivedData' \in [Producer -> Seq(Byte \X Byte)]
        /\ ph' \in [Producer -> {"off", "role", "read", "batch", "wrecked", "rest", "ended"}]
    BY <1>5, <2>1, <2>3 DEF PushBatch, Unpushed, TypeOK
  <2>5. RoundsLeft'
    BY <1>5, <2>3 DEF PushBatch, RoundsLeft, TypeOK
  <2>6. Pushing
    BY <1>5, <2>1 DEF Pushing, PushBatch
  <2> QED
    BY <1>5, <2>2, <2>4, <2>5, <2>6 DEF PushBatch, Unpushed, TypeOK
<1>6. CASE PushBeyond(p)
  <2>1. CASE left[p] > 0
    <3>1. Push(Junk) /\ left' = [left EXCEPT ![p] = left[p] - 1] /\ ph' = ph
      BY <1>6, <2>1 DEF PushBeyond
    <3>2. Junk \in Int4
      BY DEF Int4
    <3>3. /\ queue' \in Seq(Int4)
          /\ ch' \in [Consumer -> {"off", "role", "pop", "asleep", "send", "ended"}]
          /\ \A c \in Consumer : Len(msg'[c]) = (IF ch'[c] = "send" THEN 1 ELSE 0)
      BY <1>6, <3>1, <3>2, PushTyped DEF PushBeyond
    <3>4. Batch \in Nat
      BY QueueAssumption
    <3>5. left' \in [Producer -> 0 .. Batch]
      BY <2>1, <3>1, <3>4 DEF TypeOK
    <3>6. RoundsLeft'
      BY <1>6, <3>1 DEF PushBeyond, RoundsLeft, TypeOK
    <3>7. Pushing
      BY <3>1, <3>2 DEF Pushing
    <3> QED
      BY <1>6, <3>1, <3>3, <3>5, <3>6, <3>7 DEF PushBeyond, TypeOK
  <2>2. CASE ~ (left[p] > 0)
    BY <1>6, <2>2 DEF PushBeyond, TypeOK, RoundsLeft, Aside, Asleep, Popping
  <2> QED
    BY <2>1, <2>2
<1>7. CASE PushRest(p)
  <2>1. CASE receivedData[p] # <<>>
    <3>1. Head(receivedData[p]) \in Int4 /\ Tail(receivedData[p]) \in Seq(Byte \X Byte)
      BY <2>1 DEF TypeOK, Int4
    <3>2. /\ Push(Head(receivedData[p])) /\ ph' = [ph EXCEPT ![p] = "rest"]
          /\ receivedData' = [receivedData EXCEPT ![p] = Tail(receivedData[p])]
      BY <1>7, <2>1 DEF PushRest
    <3>3. /\ queue' \in Seq(Int4)
          /\ ch' \in [Consumer -> {"off", "role", "pop", "asleep", "send", "ended"}]
          /\ \A c \in Consumer : Len(msg'[c]) = (IF ch'[c] = "send" THEN 1 ELSE 0)
      BY <1>7, <3>1, <3>2, PushTyped DEF PushRest
    <3>4. Pushing
      BY <3>1, <3>2 DEF Pushing
    <3>5. RoundsLeft'
      BY <1>7, <3>2 DEF PushRest, RoundsLeft, TypeOK
    <3> QED
      BY <1>7, <3>1, <3>2, <3>3, <3>4, <3>5 DEF PushRest, TypeOK
  <2>2. CASE receivedData[p] = <<>>
    BY <1>7, <2>2 DEF PushRest, TypeOK, RoundsLeft, Aside, Asleep, Popping
  <2> QED
    BY <2>1, <2>2
<1>8. CASE Crash(p)
  BY <1>8 DEF Crash, TypeOK, RoundsLeft, Aside, Asleep, Popping
<1> QED
  BY <1>1, <1>2, <1>3, <1>4, <1>5, <1>6, <1>7, <1>8 DEF ProducerHandler

LEMMA ConsumerStep ==
    ASSUME TypeOK, RoundsLeft, NEW c \in Consumer,
           ConnectConsumer(c) \/ ConsumerHandler(c) \/ ConsumerDies(c)
    PROVE  TypeOK' /\ RoundsLeft' /\ (Pop(c) \/ Sleep(c) \/ Return(c) \/ Aside)
<1> USE DEF producerVars
<1>1. CASE ConnectConsumer(c)
  BY <1>1 DEF ConnectConsumer, TypeOK, RoundsLeft, Aside, Asleep, Popping
<1>2. CASE ConsumerDies(c)
  BY <1>2 DEF ConsumerDies, TypeOK, RoundsLeft, Aside, Asleep, Popping
<1>3. CASE ReadConsumerRole(c)
  BY <1>3 DEF ReadConsumerRole, TypeOK, RoundsLeft, Return
<1>4. CASE Pop(c)
  <2>1. Head(queue) \in Int4 /\ Tail(queue) \in Seq(Int4)
    BY <1>4 DEF Pop, TypeOK
  <2>2. <<Head(queue)>> \in Seq(Int4) /\ Len(<<Head(queue)>>) = 1
    BY <2>1
  <2>3. msg' = [msg EXCEPT ![c] = <<Head(queue)>>] /\ ch' = [ch EXCEPT ![c] = "send"]
    BY <1>4 DEF Pop
  <2>4. msg' \in [Consumer -> Seq(Int4)]
        /\ \A d \in Consumer : Len(msg'[d]) = (IF ch'[d] = "send" THEN 1 ELSE 0)
    BY <2>2, <2>3 DEF TypeOK
  <2> QED
    BY <1>4, <2>1, <2>4 DEF Pop, TypeOK, RoundsLeft
<1>5. CASE Sleep(c)
  BY <1>5 DEF Sleep, TypeOK, RoundsLeft
<1>6. HalvesOf(msg[c]) \subseteq Byte
  <2>1. msg[c] \in Seq(Int4)
    BY DEF TypeOK
  <2>2. SetOf(msg[c]) \subseteq Int4
    BY <2>1 DEF SetOf
  <2>3. ASSUME NEW n \in Int4 PROVE SetOf(n) \subseteq Byte
    BY DEF SetOf, Int4, Junk
  <2> QED
    BY <2>2, <2>3 DEF HalvesOf
<1> DEFINE Emptied(f) == msg' = [msg EXCEPT ![c] = <<>>] /\ ch' = [ch EXCEPT ![c] = f]
<1>7. ASSUME NEW f \in {"pop", "ended"}, Emptied(f)
       PROVE  /\ msg' \in [Consumer -> Seq(Int4)]
              /\ ch' \in [Consumer -> {"off", "role", "pop", "asleep", "send", "ended"}]
              /\ \A d \in Consumer : Len(msg'[d]) = (IF ch'[d] = "send" THEN 1 ELSE 0)
  <2>1. <<>> \in Seq(Int4) /\ Len(<<>>) = 0 /\ f # "send"
    OBVIOUS
  <2>2. msg' \in [Consumer -> Seq(Int4)]
    BY <1>7, <2>1 DEF TypeOK
  <2>3. ch' \in [Consumer -> {"off", "role", "pop", "asleep", "send", "ended"}]
    BY <1>7 DEF TypeOK
  <2>4. ASSUME NEW d \in Consumer PROVE Len(msg'[d]) = (IF ch'[d] = "send" THEN 1 ELSE 0)
    <3>1. CASE d = c
      <4>1. msg'[d] = <<>> /\ ch'[d] = f
        BY <1>7, <3>1 DEF TypeOK
      <4> QED
        BY <2>1, <4>1
    <3>2. CASE d # c
      <4>1. msg'[d] = msg[d] /\ ch'[d] = ch[d]
        BY <1>7, <3>2 DEF TypeOK
      <4> QED
        BY <4>1 DEF TypeOK
    <3> QED
      BY <3>1, <3>2
  <2> QED
    BY <2>2, <2>3, <2>4
<1>8. CASE Send(c)
  <2>1. got' \in [Consumer -> SUBSET Byte]
    BY <1>6, <1>8 DEF Send, TypeOK
  <2>2. Emptied("pop") /\ Return(c)
    BY <1>8 DEF Send, Return
  <2> QED
    BY <1>8, <1>7, <2>1, <2>2 DEF Send, TypeOK, RoundsLeft
<1>9. CASE SendFails(c)
  <2>1. PICK f \in {"pop", "ended"} : Emptied(f)
    BY <1>9 DEF SendFails
  <2>2. Return(c)
    BY <1>9 DEF SendFails, Return
  <2>3. lost' \subseteq Byte /\ peer' \in [Consumer -> {"alive", "dead", "reset"}]
    BY <1>6, <1>9 DEF SendFails, TypeOK
  <2> QED
    BY <1>9, <1>7, <2>1, <2>2, <2>3 DEF SendFails, TypeOK, RoundsLeft
<1>10. CASE BrokenPipe(c)
  BY <1>10 DEF BrokenPipe, consumerVars, TypeOK, RoundsLeft, Aside, Asleep, Popping
<1> QED
  BY <1>1, <1>2, <1>3, <1>4, <1>5, <1>8, <1>9, <1>10 DEF ConsumerHandler

LEMMA Inductive == QInv /\ [Next]_vars => QInv'
<1> SUFFICES ASSUME QInv, [Next]_vars PROVE QInv'
  OBVIOUS
<1>1. ASSUME NEW p \in Producer,
             ConnectProducer(p) \/ ProducerSend(p) \/ ProducerHandler(p) \/ Crash(p)
      PROVE  QInv'
  BY <1>1, ProducerStep, PushKeeps, AsideKeeps DEF QInv
<1>2. ASSUME NEW c \in Consumer, ConnectConsumer(c) \/ ConsumerHandler(c) \/ ConsumerDies(c)
      PROVE  QInv'
  BY <1>2, ConsumerStep, PopKeeps, SleepKeeps, ReturnKeeps, AsideKeeps DEF QInv
<1>3. CASE UNCHANGED vars
  BY <1>3 DEF vars, QInv, TypeOK, RoundsLeft, WorkHasATaker, Asleep, Popping
<1> QED
  BY <1>1, <1>2, <1>3 DEF Next

THEOREM Invariant == Spec => []QInv
BY InitQInv, Inductive, PTL DEF Spec

\* The type invariant of queueServer.cpp, however the reads cut the streams.
THEOREM TypeCorrect == Spec => []TypeOK
<1>1. QInv => TypeOK
  BY DEF QInv
<1> QED
  BY <1>1, Invariant, PTL

\* WorkHasATaker for any number of producers and handlers: one notify_one per
\* push is enough (queueServer.cpp:124, 133), the handlers it wakes in vain
\* included.
THEOREM NoWakeupLost == Spec => []WorkHasATaker
<1>1. QInv => WorkHasATaker
  BY DEF QInv
<1> QED
  BY <1>1, Invariant, PTL

-----------------------------------------------------------------------------
\* What makes half b be at position i of a sequence of numbers, h of the number.
Has(s, b, i, h) == i \in DOMAIN s /\ h \in {1, 2} /\ s[i] # Junk /\ s[i][h] = b

\* The places of a half, one kind after the other.
PlacesByKind(b) ==
    /\ \A p, i : <<"wire", p, i, 0>> \in Places(b) <=>
                   p \in Producer /\ i \in DOMAIN wire[p] /\ wire[p][i] = b
    /\ \A p, i, h : <<"data", p, i, h>> \in Places(b) <=>
                   p \in Producer /\ Has(receivedData[p], b, i, h)
    /\ \A i, h : <<"queue", "server", i, h>> \in Places(b) <=> Has(queue, b, i, h)
    /\ \A c, i, h : <<"msg", c, i, h>> \in Places(b) <=> c \in Consumer /\ Has(msg[c], b, i, h)
    /\ \A c : <<"got", c, 0, 0>> \in Places(b) <=> c \in Consumer /\ b \in got[c]
    /\ <<"lost", "server", 0, 0>> \in Places(b) <=> b \in lost
    /\ \A s \in Places(b) :
         \/ \E p \in Producer : \E i \in DOMAIN wire[p] : s = <<"wire", p, i, 0>>
         \/ \E p \in Producer : \E i \in DOMAIN receivedData[p] : \E h \in {1, 2} :
              s = <<"data", p, i, h>>
         \/ \E i \in DOMAIN queue : \E h \in {1, 2} : s = <<"queue", "server", i, h>>
         \/ \E c \in Consumer : \E i \in DOMAIN msg[c] : \E h \in {1, 2} : s = <<"msg", c, i, h>>
         \/ \E c \in Consumer : s = <<"got", c, 0, 0>>
         \/ s = <<"lost", "server", 0, 0>>

LEMMA PlacesAre == \A b : PlacesByKind(b)
<1> SUFFICES ASSUME NEW b PROVE PlacesByKind(b)
  OBVIOUS
<1> DEFINE A(p) == {<<"wire", p, i, 0>> : i \in {j \in DOMAIN wire[p] : wire[p][j] = b}}
           B(p) == {<<"data", p, x[1], x[2]>> : x \in InNumbers(receivedData[p], b)}
           C(c) == {<<"msg", c, x[1], x[2]>> : x \in InNumbers(msg[c], b)}
           D == {<<"queue", "server", x[1], x[2]>> : x \in InNumbers(queue, b)}
           E == {<<"got", c, 0, 0>> : c \in {c \in Consumer : b \in got[c]}}
           G == {<<"lost", "server", 0, 0>> : x \in {b} \cap lost}
<1>1. ASSUME NEW q, NEW i, NEW h, Has(q, b, i, h) PROVE <<i, h>> \in InNumbers(q, b)
  BY <1>1 DEF InNumbers, Has
<1>2. ASSUME NEW q, NEW x \in InNumbers(q, b)
      PROVE  Has(q, b, x[1], x[2])
  BY <1>2 DEF InNumbers, Has
<1>3. ASSUME NEW s, NEW p
      PROVE s \in A(p) <=> \E i \in DOMAIN wire[p] : wire[p][i] = b /\ s = <<"wire", p, i, 0>>
  OBVIOUS
<1>4. ASSUME NEW s, NEW p
      PROVE  s \in B(p) <=> \E i, h : Has(receivedData[p], b, i, h) /\ s = <<"data", p, i, h>>
  <2>1. ASSUME NEW i, NEW h, Has(receivedData[p], b, i, h), s = <<"data", p, i, h>> PROVE s \in B(p)
    <3>1. <<i, h>> \in InNumbers(receivedData[p], b)
      BY <1>1, <2>1
    <3>2. <<i, h>>[1] = i /\ <<i, h>>[2] = h
      OBVIOUS
    <3> QED
      BY <2>1, <3>1, <3>2
  <2> QED
    BY <1>2, <2>1
<1>5. ASSUME NEW s, NEW c
      PROVE  s \in C(c) <=> \E i, h : Has(msg[c], b, i, h) /\ s = <<"msg", c, i, h>>
  <2>1. ASSUME NEW i, NEW h, Has(msg[c], b, i, h), s = <<"msg", c, i, h>> PROVE s \in C(c)
    <3>1. <<i, h>> \in InNumbers(msg[c], b)
      BY <1>1, <2>1
    <3>2. <<i, h>>[1] = i /\ <<i, h>>[2] = h
      OBVIOUS
    <3> QED
      BY <2>1, <3>1, <3>2
  <2> QED
    BY <1>2, <2>1
<1>6. ASSUME NEW s
      PROVE  s \in D <=> \E i, h : Has(queue, b, i, h) /\ s = <<"queue", "server", i, h>>
  <2>1. ASSUME NEW i, NEW h, Has(queue, b, i, h), s = <<"queue", "server", i, h>> PROVE s \in D
    <3>1. <<i, h>> \in InNumbers(queue, b)
      BY <1>1, <2>1
    <3>2. <<i, h>>[1] = i /\ <<i, h>>[2] = h
      OBVIOUS
    <3> QED
      BY <2>1, <3>1, <3>2
  <2> QED
    BY <1>2, <2>1
<1>7. ASSUME NEW s PROVE s \in E <=> \E c \in Consumer : b \in got[c] /\ s = <<"got", c, 0, 0>>
  OBVIOUS
<1>8. ASSUME NEW s PROVE s \in G <=> b \in lost /\ s = <<"lost", "server", 0, 0>>
  OBVIOUS
<1>9. Places(b) = UNION ({A(p) : p \in Producer} \cup {B(p) : p \in Producer}
                         \cup {C(c) : c \in Consumer} \cup {D, E, G})
  BY DEF Places
<1> HIDE DEF A, B, C, D, E, G
<1>10. ASSUME NEW s
       PROVE  s \in Places(b) <=> \/ \E p \in Producer : s \in A(p) \/ s \in B(p)
                                  \/ \E c \in Consumer : s \in C(c)
                                  \/ s \in D \/ s \in E \/ s \in G
  BY <1>9, Zenon
<1>11. \A p, i : <<"wire", p, i, 0>> \in Places(b) <=>
                   p \in Producer /\ i \in DOMAIN wire[p] /\ wire[p][i] = b
  BY <1>3, <1>4, <1>5, <1>6, <1>7, <1>8, <1>10
<1>12. \A p, i, h : <<"data", p, i, h>> \in Places(b) <=>
                   p \in Producer /\ Has(receivedData[p], b, i, h)
  BY <1>3, <1>4, <1>5, <1>6, <1>7, <1>8, <1>10
<1>13. \A i, h : <<"queue", "server", i, h>> \in Places(b) <=> Has(queue, b, i, h)
  BY <1>3, <1>4, <1>5, <1>6, <1>7, <1>8, <1>10
<1>14. \A c, i, h : <<"msg", c, i, h>> \in Places(b) <=> c \in Consumer /\ Has(msg[c], b, i, h)
  BY <1>3, <1>4, <1>5, <1>6, <1>7, <1>8, <1>10
<1>15. \A c : <<"got", c, 0, 0>> \in Places(b) <=> c \in Consumer /\ b \in got[c]
  BY <1>3, <1>4, <1>5, <1>6, <1>7, <1>8, <1>10
<1>16. <<"lost", "server", 0, 0>> \in Places(b) <=> b \in lost
  BY <1>3, <1>4, <1>5, <1>6, <1>7, <1>8, <1>10
<1> QED
  BY <1>3, <1>4, <1>5, <1>6, <1>7, <1>8, <1>10, <1>11, <1>12, <1>13, <1>14, <1>15, <1>16
     DEF PlacesByKind, Has

LEMMA NewPlacesAre == \A b : PlacesByKind(b)'
<1>1. (\A b : PlacesByKind(b))'
  BY PlacesAre, PTL
<1> QED
  BY <1>1

\* A number at the end, or at the head, of a sequence.
LEMMA HasAppend ==
    ASSUME NEW q \in Seq(Int4), NEW n \in Int4, NEW b
    PROVE  /\ \A i, h : Has(Append(q, n), b, i, h) <=>
                \/ Has(q, b, i, h)
                \/ i = Len(q) + 1 /\ h \in {1, 2} /\ n # Junk /\ n[h] = b
           /\ Len(q) + 1 \notin DOMAIN q
BY DEF Has

LEMMA HasTail ==
    ASSUME NEW q \in Seq(Int4), q # <<>>, NEW b
    PROVE  /\ \A i, h : Has(Tail(q), b, i, h) <=> i \in 1 .. Len(q) - 1 /\ Has(q, b, i + 1, h)
           /\ \A h : Has(q, b, 1, h) <=> h \in {1, 2} /\ Head(q) # Junk /\ Head(q)[h] = b
BY DEF Has

-----------------------------------------------------------------------------
\* A step carries every place of a half over to a place of the next state, and
\* makes no other: a half that was in one place is in one place.
Moved(b) ==
    /\ Places(b) = {} => Places(b)' = {}
    /\ (\E s : Places(b) = {s}) => \E s : Places(b)' = {s}

LEMMA MovedBy ==
    ASSUME NEW b, NEW f,
           \A s \in Places(b) : f[s] \in Places(b)',
           \A t \in Places(b)' : \E s \in Places(b) : f[s] = t
    PROVE  Moved(b)
<1>1. ASSUME Places(b) = {} PROVE Places(b)' = {}
  BY <1>1
<1>2. ASSUME NEW s, Places(b) = {s} PROVE Places(b)' = {f[s]}
  <2>1. f[s] \in Places(b)' /\ \A t \in Places(b)' : t = f[s]
    BY <1>2
  <2> QED
    BY <2>1
<1> QED
  BY <1>1, <1>2 DEF Moved

\* A place tells its kind.
LEMMA FormOf ==
    ASSUME NEW b, NEW s \in Places(b)
    PROVE  /\ s[1] = "wire" => \E p \in Producer : \E i \in DOMAIN wire[p] : s = <<"wire", p, i, 0>>
           /\ s[1] = "data" => \E p \in Producer : \E i \in DOMAIN receivedData[p] : \E h \in {1, 2} :
                                 s = <<"data", p, i, h>>
           /\ s[1] = "queue" => \E i \in DOMAIN queue : \E h \in {1, 2} : s = <<"queue", "server", i, h>>
           /\ s[1] = "msg" => \E c \in Consumer : \E i \in DOMAIN msg[c] : \E h \in {1, 2} :
                                 s = <<"msg", c, i, h>>
           /\ s[1] = "got" => \E c \in Consumer : s = <<"got", c, 0, 0>>
           /\ s[1] = "lost" => s = <<"lost", "server", 0, 0>>
<1>1. PlacesByKind(b)
  BY PlacesAre
<1> QED
  BY <1>1 DEF PlacesByKind

LEMMA NewFormOf ==
    ASSUME NEW b, NEW s \in Places(b)'
    PROVE  /\ s[1] = "wire" => \E p \in Producer : \E i \in DOMAIN wire'[p] : s = <<"wire", p, i, 0>>
           /\ s[1] = "data" => \E p \in Producer : \E i \in DOMAIN receivedData'[p] : \E h \in {1, 2} :
                                 s = <<"data", p, i, h>>
           /\ s[1] = "queue" => \E i \in DOMAIN queue' : \E h \in {1, 2} : s = <<"queue", "server", i, h>>
           /\ s[1] = "msg" => \E c \in Consumer : \E i \in DOMAIN msg'[c] : \E h \in {1, 2} :
                                 s = <<"msg", c, i, h>>
           /\ s[1] = "got" => \E c \in Consumer : s = <<"got", c, 0, 0>>
           /\ s[1] = "lost" => s = <<"lost", "server", 0, 0>>
<1>1. PlacesByKind(b)'
  BY NewPlacesAre
<1> QED
  BY <1>1 DEF PlacesByKind

LEMMA NewDataOf ==
    ASSUME NEW b, NEW s \in Places(b)', s[1] = "data"
    PROVE  \E p \in Producer : \E i, h : s = <<"data", p, i, h>>
BY NewFormOf

\* Where a step changes nothing it moves nothing.
LEMMA StaysIn ==
    ASSUME NEW b, NEW s
    PROVE  /\ s \in Places(b) => s[1] \in {"wire", "data", "queue", "msg", "got", "lost"}
           /\ s \in Places(b)' => s[1] \in {"wire", "data", "queue", "msg", "got", "lost"}
           /\ wire' = wire /\ s[1] = "wire" => (s \in Places(b) <=> s \in Places(b)')
           /\ receivedData' = receivedData /\ s[1] = "data" => (s \in Places(b) <=> s \in Places(b)')
           /\ queue' = queue /\ s[1] = "queue" => (s \in Places(b) <=> s \in Places(b)')
           /\ msg' = msg /\ s[1] = "msg" => (s \in Places(b) <=> s \in Places(b)')
           /\ got' = got /\ s[1] = "got" => (s \in Places(b) <=> s \in Places(b)')
           /\ lost' = lost /\ s[1] = "lost" => (s \in Places(b) <=> s \in Places(b)')
<1>1. PlacesByKind(b) /\ PlacesByKind(b)'
  BY PlacesAre, NewPlacesAre
<1>2. /\ s \in Places(b) => s[1] \in {"wire", "data", "queue", "msg", "got", "lost"}
      /\ s \in Places(b)' => s[1] \in {"wire", "data", "queue", "msg", "got", "lost"}
  BY <1>1 DEF PlacesByKind
<1>3. wire' = wire /\ s[1] = "wire" => (s \in Places(b) <=> s \in Places(b)')
  BY <1>1 DEF PlacesByKind
<1>4. receivedData' = receivedData /\ s[1] = "data" => (s \in Places(b) <=> s \in Places(b)')
  BY <1>1 DEF PlacesByKind
<1>5. queue' = queue /\ s[1] = "queue" => (s \in Places(b) <=> s \in Places(b)')
  BY <1>1 DEF PlacesByKind
<1>6. msg' = msg /\ s[1] = "msg" => (s \in Places(b) <=> s \in Places(b)')
  BY <1>1 DEF PlacesByKind
<1>7. got' = got /\ s[1] = "got" => (s \in Places(b) <=> s \in Places(b)')
  BY <1>1 DEF PlacesByKind
<1>8. lost' = lost /\ s[1] = "lost" => (s \in Places(b) <=> s \in Places(b)')
  BY <1>1 DEF PlacesByKind
<1> QED
  BY <1>2, <1>3, <1>4, <1>5, <1>6, <1>7, <1>8

\* push() of the first number of receivedData.
LEMMA PushMoves ==
    ASSUME TypeOK, NEW b, NEW p \in Producer, receivedData[p] # <<>>,
           queue' = Append(queue, Head(receivedData[p])),
           receivedData' = [receivedData EXCEPT ![p] = Tail(receivedData[p])],
           UNCHANGED <<wire, msg, got, lost>>
    PROVE  Moved(b)
<1> DEFINE d == receivedData[p]
           f == [s \in Places(b) |->
                   IF s[1] = "data" /\ s[2] = p
                   THEN IF s[3] = 1 THEN <<"queue", "server", Len(queue) + 1, s[4]>>
                                    ELSE <<"data", p, s[3] - 1, s[4]>>
                   ELSE s]
<1>1. d \in Seq(Byte \X Byte) /\ d # <<>> /\ d \in Seq(Int4) /\ Head(d) \in Int4 /\ queue \in Seq(Int4)
  BY DEF TypeOK, Int4
<1>2. /\ receivedData'[p] = Tail(d)
      /\ \A q \in Producer : q # p => receivedData'[q] = receivedData[q]
  BY DEF TypeOK
<1>3. \A i, h : Has(Tail(d), b, i, h) <=> i \in 1 .. Len(d) - 1 /\ Has(d, b, i + 1, h)
  BY <1>1, HasTail
<1>4. \A h : Has(d, b, 1, h) <=> h \in {1, 2} /\ Head(d) # Junk /\ Head(d)[h] = b
  BY <1>1, HasTail
<1>5. ASSUME NEW i, NEW h
      PROVE  Has(queue', b, i, h) <=> Has(queue, b, i, h) \/ (i = Len(queue) + 1 /\ Has(d, b, 1, h))
  <2>1. Has(Append(queue, Head(d)), b, i, h) <=>
                \/ Has(queue, b, i, h)
                \/ i = Len(queue) + 1 /\ h \in {1, 2} /\ Head(d) # Junk /\ Head(d)[h] = b
    BY <1>1, HasAppend
  <2>2. queue' = Append(queue, Head(d))
    OBVIOUS
  <2> HIDE DEF d
  <2> QED
    BY <1>4, <2>1, <2>2, Zenon
<1>6. PlacesByKind(b) /\ PlacesByKind(b)'
  BY PlacesAre, NewPlacesAre
<1>7. DOMAIN d = 1 .. Len(d) /\ Len(d) \in Nat \ {0}
  BY <1>1
<1>8. ASSUME NEW s \in Places(b) PROVE f[s] \in Places(b)'
  <2>1. ASSUME s[1] \notin {"data", "queue"} PROVE f[s] \in Places(b)'
    BY <2>1, StaysIn
  <2>2. ASSUME NEW q \in Producer, NEW i \in DOMAIN receivedData[q], NEW h \in {1, 2},
               s = <<"data", q, i, h>>
        PROVE  f[s] \in Places(b)'
    <3>1. Has(receivedData[q], b, i, h)
      BY <1>6, <2>2 DEF PlacesByKind
    <3>2. CASE q # p
      <4>1. f[s] = s
        BY <2>2, <3>2
      <4> QED
        BY <1>2, <1>6, <2>2, <3>1, <3>2, <4>1 DEF PlacesByKind
    <3>3. CASE q = p /\ i = 1
      <4>1. f[s] = <<"queue", "server", Len(queue) + 1, h>>
        BY <2>2, <3>3
      <4> QED
        BY <1>5, <1>6, <3>1, <3>3, <4>1 DEF PlacesByKind
    <3>4. CASE q = p /\ i # 1
      <4>1. f[s] = <<"data", p, i - 1, h>>
        BY <2>2, <3>4
      <4>2. i - 1 \in 1 .. Len(d) - 1 /\ i - 1 + 1 = i
        BY <1>7, <3>4
      <4>3. Has(Tail(d), b, i - 1, h)
        BY <1>3, <3>1, <3>4, <4>2
      <4> QED
        BY <1>2, <1>6, <4>1, <4>3 DEF PlacesByKind
    <3> QED
      BY <3>2, <3>3, <3>4
  <2>3. ASSUME NEW i, NEW h, s = <<"queue", "server", i, h>> PROVE f[s] \in Places(b)'
    <3>1. f[s] = s
      BY <2>3
    <3>2. Has(queue', b, i, h)
      BY <1>5, <1>6, <2>3 DEF PlacesByKind
    <3> QED
      BY <1>6, <2>3, <3>1, <3>2 DEF PlacesByKind
  <2> HIDE DEF f
  <2> QED
    BY <2>1, <2>2, <2>3, FormOf
<1>9. ASSUME NEW t \in Places(b)' PROVE \E s \in Places(b) : f[s] = t
  <2>1. ASSUME t[1] \notin {"data", "queue"} PROVE t \in Places(b) /\ f[t] = t
    <3>1. t \in Places(b)
      BY <2>1, StaysIn
    <3> QED
      BY <2>1, <3>1
  <2>2. ASSUME NEW q \in Producer, NEW i, NEW h, t = <<"data", q, i, h>>
        PROVE  \E s \in Places(b) : f[s] = t
    <3>1. CASE q = p
      <4>1. <<"data", p, i + 1, h>> \in Places(b) /\ i \in Nat /\ i # 0
        BY <1>2, <1>3, <1>6, <1>7, <2>2, <3>1, SMTT(30) DEF PlacesByKind
      <4>2. f[<<"data", p, i + 1, h>>] = t
        BY <2>2, <3>1, <4>1
      <4> QED
        BY <4>1, <4>2
    <3>2. CASE q # p
      BY <1>2, <1>6, <2>2, <3>2 DEF PlacesByKind
    <3> QED
      BY <3>1, <3>2
  <2>3. ASSUME NEW i, NEW h, t = <<"queue", "server", i, h>>
        PROVE  \E s \in Places(b) : f[s] = t
    <3>1. CASE Has(queue, b, i, h)
      BY <1>6, <2>3, <3>1 DEF PlacesByKind
    <3>2. CASE i = Len(queue) + 1 /\ Has(d, b, 1, h)
      <4>1. <<"data", p, 1, h>> \in Places(b)
        BY <1>6, <3>2 DEF PlacesByKind
      <4>2. f[<<"data", p, 1, h>>] = t
        BY <2>3, <3>2, <4>1
      <4> QED
        BY <4>1, <4>2
    <3> QED
      BY <1>5, <1>6, <2>3, <3>1, <3>2 DEF PlacesByKind
  <2> HIDE DEF f
  <2> QED
    BY <2>1, <2>2, <2>3, NewFormOf
<1> HIDE DEF f
<1> QED
  BY <1>8, <1>9, MovedBy

\* push() of an int from outside the vector: it is no half of anything.
LEMMA JunkMovesNothing ==
    ASSUME TypeOK, NEW b, queue' = Append(queue, Junk),
           UNCHANGED <<wire, receivedData, msg, got, lost>>
    PROVE  Moved(b)
<1>1. PlacesByKind(b) /\ PlacesByKind(b)'
  BY PlacesAre, NewPlacesAre
<1>2. \A i, h : Has(queue', b, i, h) <=> Has(queue, b, i, h)
  BY HasAppend DEF TypeOK, Int4
<1>3. ASSUME NEW s PROVE s \in Places(b) <=> s \in Places(b)'
  <2>1. CASE s[1] # "queue"
    BY <2>1, StaysIn
  <2>2. ASSUME NEW i, NEW h, s = <<"queue", "server", i, h>>
        PROVE  s \in Places(b) <=> s \in Places(b)'
    BY <1>1, <1>2, <2>2 DEF PlacesByKind
  <2> QED
    BY <2>1, <2>2, FormOf, NewFormOf
<1>4. Places(b)' = Places(b)
  BY <1>3
<1> QED
  BY <1>4 DEF Moved

\* pop() by handler c.
LEMMA PopMoves ==
    ASSUME TypeOK, NEW b, NEW c \in Consumer, ch[c] # "send", queue # <<>>,
           queue' = Tail(queue), msg' = [msg EXCEPT ![c] = <<Head(queue)>>],
           UNCHANGED <<wire, receivedData, got, lost>>
    PROVE  Moved(b)
<1> DEFINE f == [s \in Places(b) |->
                   IF s[1] = "queue" THEN IF s[3] = 1 THEN <<"msg", c, 1, s[4]>>
                                                      ELSE <<"queue", "server", s[3] - 1, s[4]>>
                   ELSE s]
<1>1. queue \in Seq(Int4) /\ Head(queue) \in Int4 /\ DOMAIN queue = 1 .. Len(queue) /\ Len(queue) \in Nat
  BY DEF TypeOK
<1>2. \A i, h : Has(queue', b, i, h) <=> i \in 1 .. Len(queue) - 1 /\ Has(queue, b, i + 1, h)
  BY <1>1, HasTail
<1>3. \A h : Has(queue, b, 1, h) <=> h \in {1, 2} /\ Head(queue) # Junk /\ Head(queue)[h] = b
  BY <1>1, HasTail
<1>4. /\ \A d \in Consumer : d # c => msg'[d] = msg[d]
      /\ msg'[c] = <<Head(queue)>> /\ msg[c] \in Seq(Int4) /\ Len(msg[c]) = 0
  BY DEF TypeOK
<1>5. \A i, h : ~ Has(msg[c], b, i, h)
  BY <1>4 DEF Has
<1>6. \A i, h : Has(msg'[c], b, i, h) <=> i = 1 /\ Has(queue, b, 1, h)
  BY <1>3, <1>4 DEF Has
<1>7. PlacesByKind(b) /\ PlacesByKind(b)'
  BY PlacesAre, NewPlacesAre
<1>8. ASSUME NEW s \in Places(b) PROVE f[s] \in Places(b)'
  <2>1. ASSUME s[1] \notin {"queue", "msg"} PROVE f[s] \in Places(b)'
    BY <2>1, StaysIn
  <2>2. ASSUME NEW i, NEW h, s = <<"queue", "server", i, h>> PROVE f[s] \in Places(b)'
    <3>1. Has(queue, b, i, h) /\ i \in 1 .. Len(queue)
      BY <1>1, <1>7, <2>2 DEF PlacesByKind, Has
    <3>2. CASE i = 1
      <4>1. f[s] = <<"msg", c, 1, h>>
        BY <2>2, <3>2
      <4> QED
        BY <1>6, <1>7, <3>1, <3>2, <4>1 DEF PlacesByKind
    <3>3. CASE i # 1
      <4>1. f[s] = <<"queue", "server", i - 1, h>>
        BY <2>2, <3>3
      <4>2. i - 1 \in 1 .. Len(queue) - 1 /\ i - 1 + 1 = i
        BY <1>1, <3>1, <3>3
      <4>3. Has(queue', b, i - 1, h)
        BY <1>2, <3>1, <4>2
      <4> QED
        BY <1>7, <4>1, <4>3 DEF PlacesByKind
    <3> QED
      BY <3>2, <3>3
  <2>3. ASSUME NEW d \in Consumer, NEW i, NEW h, s = <<"msg", d, i, h>> PROVE f[s] \in Places(b)'
    <3>1. f[s] = s
      BY <2>3
    <3>2. Has(msg[d], b, i, h) /\ d # c
      BY <1>5, <1>7, <2>3 DEF PlacesByKind
    <3> QED
      BY <1>4, <1>7, <2>3, <3>1, <3>2 DEF PlacesByKind
  <2> HIDE DEF f
  <2> QED
    BY <2>1, <2>2, <2>3, FormOf
<1>9. ASSUME NEW t \in Places(b)' PROVE \E s \in Places(b) : f[s] = t
  <2>1. ASSUME t[1] \notin {"queue", "msg"} PROVE t \in Places(b) /\ f[t] = t
    <3>1. t \in Places(b)
      BY <2>1, StaysIn
    <3> QED
      BY <2>1, <3>1
  <2>2. ASSUME NEW i, NEW h, t = <<"queue", "server", i, h>> PROVE \E s \in Places(b) : f[s] = t
    <3>1. <<"queue", "server", i + 1, h>> \in Places(b) /\ i \in Nat /\ i # 0
      BY <1>1, <1>2, <1>7, <2>2 DEF PlacesByKind
    <3>2. f[<<"queue", "server", i + 1, h>>] = t
      BY <2>2, <3>1
    <3> QED
      BY <3>1, <3>2
  <2>3. ASSUME NEW d \in Consumer, NEW i, NEW h, t = <<"msg", d, i, h>>
        PROVE  \E s \in Places(b) : f[s] = t
    <3>1. CASE d = c
      <4>1. <<"queue", "server", 1, h>> \in Places(b) /\ i = 1
        BY <1>6, <1>7, <2>3, <3>1 DEF PlacesByKind
      <4>2. f[<<"queue", "server", 1, h>>] = t
        BY <2>3, <3>1, <4>1
      <4> QED
        BY <4>1, <4>2
    <3>2. CASE d # c
      <4>1. t \in Places(b)
        BY <1>4, <1>7, <2>3, <3>2 DEF PlacesByKind
      <4>2. f[t] = t
        BY <2>3, <4>1
      <4> QED
        BY <4>1, <4>2
    <3> QED
      BY <3>1, <3>2
  <2> HIDE DEF f
  <2> QED
    BY <2>1, <2>2, <2>3, NewFormOf
<1> HIDE DEF f
<1> QED
  BY <1>8, <1>9, MovedBy

\* The halves of a popped number.
LEMMA HalvesOfMsg ==
    ASSUME TypeOK, NEW c \in Consumer, NEW b
    PROVE  b \in HalvesOf(msg[c]) <=> \E i, h : Has(msg[c], b, i, h)
<1>1. msg[c] \in Seq(Int4)
  BY DEF TypeOK
<1>2. ASSUME NEW n \in Int4 PROVE b \in SetOf(n) <=> n # Junk /\ \E h \in {1, 2} : n[h] = b
  <2>1. CASE n = Junk
    BY <2>1 DEF SetOf, Junk
  <2>2. CASE n \in Byte \X Byte
    <3>1. DOMAIN n = {1, 2} /\ n # Junk
      BY <2>2 DEF Junk
    <3> QED
      BY <3>1 DEF SetOf
  <2> QED
    BY <2>1, <2>2 DEF Int4
<1>3. b \in HalvesOf(msg[c]) <=> \E i \in DOMAIN msg[c] : b \in SetOf(msg[c][i])
  BY DEF HalvesOf, SetOf
<1>4. \A i \in DOMAIN msg[c] : msg[c][i] \in Int4
  BY <1>1
<1> QED
  BY <1>2, <1>3, <1>4 DEF Has

\* A popped number goes where a set of halves grows by it.
LEMMA HandMoves ==
    ASSUME TypeOK, NEW b, NEW c \in Consumer, NEW to, to[1] # "msg",
           msg' = [msg EXCEPT ![c] = <<>>],
           \A s : s[1] # "msg" =>
             (s \in Places(b)' <=> s \in Places(b) \/ (s = to /\ b \in HalvesOf(msg[c])))
    PROVE  Moved(b)
<1> DEFINE f == [s \in Places(b) |-> IF s[1] = "msg" /\ s[2] = c THEN to ELSE s]
<1>1. b \in HalvesOf(msg[c]) <=> \E i, h : Has(msg[c], b, i, h)
  BY HalvesOfMsg
<1>2. /\ \A d \in Consumer : d # c => msg'[d] = msg[d]
      /\ msg'[c] = <<>>
  BY DEF TypeOK
<1>3. \A i, h : ~ Has(msg'[c], b, i, h)
  BY <1>2 DEF Has
<1>4. PlacesByKind(b) /\ PlacesByKind(b)'
  BY PlacesAre, NewPlacesAre
<1>5. ASSUME NEW s \in Places(b) PROVE f[s] \in Places(b)'
  <2>1. ASSUME s[1] # "msg" PROVE f[s] \in Places(b)'
    BY <2>1
  <2>2. ASSUME NEW d \in Consumer, NEW i, NEW h, s = <<"msg", d, i, h>> PROVE f[s] \in Places(b)'
    <3>1. Has(msg[d], b, i, h)
      BY <1>4, <2>2 DEF PlacesByKind
    <3>2. CASE d = c
      <4>1. f[s] = to
        BY <2>2, <3>2
      <4> QED
        BY <1>1, <3>1, <3>2, <4>1
    <3>3. CASE d # c
      <4>1. f[s] = s
        BY <2>2, <3>3
      <4> QED
        BY <1>2, <1>4, <2>2, <3>1, <3>3, <4>1 DEF PlacesByKind
    <3> QED
      BY <3>2, <3>3
  <2> HIDE DEF f
  <2> QED
    BY <2>1, <2>2, FormOf
<1>6. ASSUME NEW t \in Places(b)' PROVE \E s \in Places(b) : f[s] = t
  <2>1. ASSUME t[1] # "msg", t \in Places(b) PROVE f[t] = t
    BY <2>1
  <2>2. ASSUME t = to, b \in HalvesOf(msg[c]) PROVE \E s \in Places(b) : f[s] = t
    <3>1. PICK i, h : Has(msg[c], b, i, h)
      BY <1>1, <2>2
    <3>2. <<"msg", c, i, h>> \in Places(b)
      BY <1>4, <3>1 DEF PlacesByKind
    <3>3. f[<<"msg", c, i, h>>] = t
      BY <2>2, <3>2
    <3> QED
      BY <3>2, <3>3
  <2>3. ASSUME NEW d \in Consumer, NEW i, NEW h, t = <<"msg", d, i, h>>
        PROVE  \E s \in Places(b) : f[s] = t
    <3>1. d # c /\ Has(msg'[d], b, i, h)
      BY <1>3, <1>4, <2>3 DEF PlacesByKind
    <3>2. t \in Places(b)
      BY <1>2, <1>4, <2>3, <3>1 DEF PlacesByKind
    <3>3. f[t] = t
      BY <2>3, <3>1, <3>2
    <3> QED
      BY <3>2, <3>3
  <2> HIDE DEF f
  <2> QED
    BY <2>1, <2>2, <2>3, NewFormOf
<1> HIDE DEF f
<1> QED
  BY <1>5, <1>6, MovedBy

\* send() to consumer c.
LEMMA SendMoves ==
    ASSUME TypeOK, NEW b, NEW c \in Consumer, msg' = [msg EXCEPT ![c] = <<>>],
           got' = [got EXCEPT ![c] = got[c] \cup HalvesOf(msg[c])],
           UNCHANGED <<wire, receivedData, queue, lost>>
    PROVE  Moved(b)
<1>1. PlacesByKind(b) /\ PlacesByKind(b)'
  BY PlacesAre, NewPlacesAre
<1>2. \A d \in Consumer : b \in got'[d] <=> b \in got[d] \/ (d = c /\ b \in HalvesOf(msg[c]))
  BY DEF TypeOK
<1>3. ASSUME NEW s, s[1] # "msg"
      PROVE  s \in Places(b)' <=>
               s \in Places(b) \/ (s = <<"got", c, 0, 0>> /\ b \in HalvesOf(msg[c]))
  <2>1. CASE s[1] # "got"
    <3>1. s # <<"got", c, 0, 0>>
      BY <2>1
    <3> QED
      BY <1>3, <2>1, <3>1, StaysIn
  <2>2. ASSUME NEW d \in Consumer, s = <<"got", d, 0, 0>>
        PROVE  s \in Places(b)' <=>
                 s \in Places(b) \/ (s = <<"got", c, 0, 0>> /\ b \in HalvesOf(msg[c]))
    <3>1. s = <<"got", c, 0, 0>> <=> d = c
      BY <2>2
    <3> QED
      BY <1>1, <1>2, <2>2, <3>1 DEF PlacesByKind
  <2> QED
    BY <2>1, <2>2, FormOf, NewFormOf
<1>4. <<"got", c, 0, 0>>[1] # "msg"
  OBVIOUS
<1> QED
  BY <1>3, <1>4, HandMoves

\* The send to a client that is gone.
LEMMA LossMoves ==
    ASSUME TypeOK, NEW b, NEW c \in Consumer, msg' = [msg EXCEPT ![c] = <<>>],
           lost' = lost \cup HalvesOf(msg[c]),
           UNCHANGED <<wire, receivedData, queue, got>>
    PROVE  Moved(b)
<1>1. PlacesByKind(b) /\ PlacesByKind(b)'
  BY PlacesAre, NewPlacesAre
<1>2. ASSUME NEW s, s[1] # "msg"
      PROVE  s \in Places(b)' <=>
               s \in Places(b) \/ (s = <<"lost", "server", 0, 0>> /\ b \in HalvesOf(msg[c]))
  <2>1. CASE s[1] # "lost"
    <3>1. s # <<"lost", "server", 0, 0>>
      BY <2>1
    <3> QED
      BY <1>2, <2>1, <3>1, StaysIn
  <2>2. CASE s = <<"lost", "server", 0, 0>>
    BY <1>1, <2>2 DEF PlacesByKind
  <2>3. CASE s[1] = "lost" /\ s # <<"lost", "server", 0, 0>>
    BY <2>3, FormOf, NewFormOf
  <2> QED
    BY <2>1, <2>2, <2>3
<1>3. <<"lost", "server", 0, 0>>[1] # "msg"
  OBVIOUS
<1> QED
  BY <1>2, <1>3, HandMoves

\* A read of the first k halves of the stream of p: what is left in the socket
\* moves up, and the others go where the handler puts them.
LEMMA ReadShifts ==
    ASSUME TypeOK, NEW p \in Producer, NEW k \in 0 .. Len(wire[p]),
           wire' = [wire EXCEPT ![p] = SubSeq(wire[p], k + 1, Len(wire[p]))]
    PROVE  /\ wire[p] \in Seq(Byte) /\ DOMAIN wire[p] = 1 .. Len(wire[p]) /\ Len(wire[p]) \in Nat
           /\ \A q \in Producer : q # p => wire'[q] = wire[q]
           /\ DOMAIN wire'[p] = 1 .. Len(wire[p]) - k
           /\ \A i \in 1 .. Len(wire[p]) - k : wire'[p][i] = wire[p][i + k]
           /\ Len(SubSeq(wire[p], 1, k)) = k /\ SubSeq(wire[p], 1, k) \in Seq(Byte)
           /\ \A i \in 1 .. k : SubSeq(wire[p], 1, k)[i] = wire[p][i]
<1> DEFINE w == wire[p]
<1>1. w \in Seq(Byte) /\ Len(w) \in Nat /\ DOMAIN w = 1 .. Len(w)
  BY DEF TypeOK
<1>2. \A q \in Producer : q # p => wire'[q] = wire[q]
  BY DEF TypeOK
<1>3. wire'[p] = SubSeq(w, k + 1, Len(w))
  BY DEF TypeOK
<1> HIDE DEF w
<1>4. \A i \in (k + 1) .. Len(w) : w[i] \in Byte
  BY <1>1
<1>5. /\ SubSeq(w, k + 1, Len(w)) \in Seq(Byte)
      /\ Len(SubSeq(w, k + 1, Len(w))) = Len(w) - k
      /\ \A i \in 1 .. Len(w) - k : SubSeq(w, k + 1, Len(w))[i] = w[i + k]
  <2>1. /\ SubSeq(w, k + 1, Len(w)) \in Seq(Byte)
        /\ Len(SubSeq(w, k + 1, Len(w))) = IF k + 1 <= Len(w) THEN Len(w) - (k + 1) + 1 ELSE 0
        /\ \A i \in 1 .. Len(w) - (k + 1) + 1 : SubSeq(w, k + 1, Len(w))[i] = w[k + 1 + i - 1]
    BY <1>1, <1>4, SubSeqProperties DEF w
  <2> QED
    BY <1>1, <2>1 DEF w
<1>6. Len(SubSeq(w, 1, k)) = k /\ SubSeq(w, 1, k) \in Seq(Byte) /\ \A i \in 1 .. k : SubSeq(w, 1, k)[i] = w[i]
  BY <1>1 DEF w
<1>7. DOMAIN wire'[p] = 1 .. Len(w) - k
  BY <1>3, <1>5
<1> QED
  BY <1>1, <1>2, <1>3, <1>5, <1>6, <1>7 DEF w

\* start_server: what arrived with the role.
LEMMA RoleMoves ==
    ASSUME TypeOK, NEW b, NEW p \in Producer, NEW k \in 0 .. Len(wire[p]),
           wire' = [wire EXCEPT ![p] = SubSeq(wire[p], k + 1, Len(wire[p]))],
           lost' = lost \cup SetOf(SubSeq(wire[p], 1, k)),
           UNCHANGED <<receivedData, queue, msg, got>>
    PROVE  Moved(b)
<1> DEFINE w == wire[p]
           L == <<"lost", "server", 0, 0>>
           f == [s \in Places(b) |->
                   IF s[1] = "wire" /\ s[2] = p
                   THEN IF s[3] <= k THEN L ELSE <<"wire", p, s[3] - k, 0>>
                   ELSE s]
<1>1. PlacesByKind(b) /\ PlacesByKind(b)'
  BY PlacesAre, NewPlacesAre
<1>2. /\ DOMAIN w = 1 .. Len(w) /\ Len(w) \in Nat /\ k \in Nat
      /\ \A q \in Producer : q # p => wire'[q] = wire[q]
      /\ DOMAIN wire'[p] = 1 .. Len(w) - k
      /\ \A i \in 1 .. Len(w) - k : wire'[p][i] = w[i + k]
  <2>1. /\ DOMAIN w = 1 .. Len(w) /\ Len(w) \in Nat
        /\ \A q \in Producer : q # p => wire'[q] = wire[q]
        /\ DOMAIN wire'[p] = 1 .. Len(w) - k
        /\ \A i \in 1 .. Len(w) - k : wire'[p][i] = w[i + k]
    BY ReadShifts, Zenon
  <2> QED
    BY <2>1
<1>3. b \in lost' <=> b \in lost \/ \E i \in 1 .. k : w[i] = b
  <2>1. /\ SubSeq(w, 1, k) \in Seq(Byte) /\ Len(SubSeq(w, 1, k)) = k
        /\ \A i \in 1 .. k : SubSeq(w, 1, k)[i] = w[i]
    BY ReadShifts
  <2>2. DOMAIN SubSeq(w, 1, k) = 1 .. k
    BY <2>1
  <2> QED
    BY <2>1, <2>2 DEF SetOf
<1>4. ASSUME NEW s \in Places(b) PROVE f[s] \in Places(b)'
  <2>1. ASSUME s[1] \notin {"wire", "lost"} PROVE f[s] \in Places(b)'
    BY <2>1, StaysIn
  <2>2. ASSUME NEW q \in Producer, NEW i, s = <<"wire", q, i, 0>> PROVE f[s] \in Places(b)'
    <3>1. i \in DOMAIN wire[q] /\ wire[q][i] = b
      BY <1>1, <2>2 DEF PlacesByKind
    <3>2. CASE q # p
      <4>1. f[s] = s
        BY <2>2, <3>2
      <4> QED
        BY <1>1, <1>2, <2>2, <3>1, <3>2, <4>1 DEF PlacesByKind
    <3>3. CASE q = p /\ i <= k
      <4>1. f[s] = L
        BY <2>2, <3>3
      <4>2. b \in lost'
        BY <1>2, <1>3, <3>1, <3>3
      <4> QED
        BY <1>1, <4>1, <4>2 DEF PlacesByKind
    <3>4. CASE q = p /\ ~ (i <= k)
      <4>1. f[s] = <<"wire", p, i - k, 0>>
        BY <2>2, <3>4
      <4>2. i - k \in 1 .. Len(w) - k /\ (i - k) + k = i
        BY <1>2, <3>1, <3>4
      <4>3. i - k \in DOMAIN wire'[p] /\ wire'[p][i - k] = b
        BY <1>2, <3>1, <3>4, <4>2
      <4> QED
        BY <1>1, <4>1, <4>3 DEF PlacesByKind
    <3> QED
      BY <3>2, <3>3, <3>4
  <2>3. ASSUME s = L PROVE f[s] \in Places(b)'
    <3>1. f[s] = L
      BY <2>3
    <3> QED
      BY <1>1, <2>3, <3>1 DEF PlacesByKind
  <2> HIDE DEF f
  <2> QED
    BY <2>1, <2>2, <2>3, FormOf
<1>5. ASSUME NEW t \in Places(b)' PROVE \E s \in Places(b) : f[s] = t
  <2>1. ASSUME t[1] \notin {"wire", "lost"} PROVE t \in Places(b) /\ f[t] = t
    <3>1. t \in Places(b)
      BY <2>1, StaysIn
    <3> QED
      BY <2>1, <3>1
  <2>2. ASSUME NEW q \in Producer, NEW i, t = <<"wire", q, i, 0>>
        PROVE  \E s \in Places(b) : f[s] = t
    <3>1. i \in DOMAIN wire'[q] /\ wire'[q][i] = b
      BY <1>1, <2>2 DEF PlacesByKind
    <3>2. CASE q = p
      <4> DEFINE v == i + k
      <4>1. v \in DOMAIN w /\ w[v] = b /\ ~ (v <= k) /\ v - k = i
        BY <1>2, <3>1, <3>2
      <4> HIDE DEF v
      <4>2. <<"wire", p, v, 0>> \in Places(b)
        BY <1>1, <4>1 DEF PlacesByKind
      <4>3. f[<<"wire", p, v, 0>>] = <<"wire", p, v - k, 0>>
        BY <4>1, <4>2
      <4> HIDE DEF f
      <4>4. f[<<"wire", p, v, 0>>] = t
        BY <2>2, <3>2, <4>1, <4>3
      <4> QED
        BY <4>2, <4>4
    <3>3. CASE q # p
      <4>1. t \in Places(b)
        BY <1>1, <1>2, <2>2, <3>1, <3>3 DEF PlacesByKind
      <4>2. f[t] = t
        BY <2>2, <3>3, <4>1
      <4> QED
        BY <4>1, <4>2
    <3> QED
      BY <3>2, <3>3
  <2>3. ASSUME t = L PROVE \E s \in Places(b) : f[s] = t
    <3>1. CASE b \in lost
      <4>1. L \in Places(b)
        BY <1>1, <3>1 DEF PlacesByKind
      <4>2. f[L] = L
        BY <4>1
      <4> QED
        BY <2>3, <4>1, <4>2
    <3>2. CASE \E i \in 1 .. k : w[i] = b
      <4>1. PICK i \in 1 .. k : w[i] = b
        BY <3>2
      <4>2. <<"wire", p, i, 0>> \in Places(b)
        <5>1. i \in DOMAIN wire[p]
          BY <1>2
        <5> QED
          BY <1>1, <4>1, <5>1 DEF PlacesByKind
      <4>3. f[<<"wire", p, i, 0>>] = L
        BY <4>1, <4>2
      <4> QED
        BY <2>3, <4>2, <4>3
    <3> QED
      BY <1>1, <1>3, <2>3, <3>1, <3>2 DEF PlacesByKind
  <2> HIDE DEF f
  <2> QED
    BY <2>1, <2>2, <2>3, NewFormOf
<1> HIDE DEF f
<1> QED
  BY <1>4, <1>5, MovedBy

\* The numbers of a piece behind those received before.
LEMMA NumbersBehind ==
    ASSUME NEW d \in Seq(Byte \X Byte), NEW s \in Seq(Byte), NEW b
    PROVE  \A i, h : Has(d \o Numbers(s), b, i, h) <=>
                       \/ Has(d, b, i, h)
                       \/ /\ h \in {1, 2} /\ i \in (Len(d) + 1) .. (Len(d) + Len(s) \div 2)
                          /\ s[2 * (i - Len(d) - 1) + h] = b
<1> DEFINE n == Numbers(s)
           D == Len(d)
           N == Len(s) \div 2
<1>1. n \in Seq(Byte \X Byte) /\ Len(n) = N /\ N \in Nat /\ D \in Nat
  BY NumbersTyped DEF Numbers
<1>2. ASSUME NEW i \in 1 .. N PROVE n[i] = <<s[2 * i - 1], s[2 * i]>> /\ n[i] # Junk
  BY DEF Numbers, Junk
<1> HIDE DEF n, N
<1>3. /\ d \o n \in Seq(Byte \X Byte) /\ Len(d \o n) = D + N
      /\ DOMAIN (d \o n) = 1 .. (D + N) /\ DOMAIN d = 1 .. D
  <2>1. d \o n \in Seq(Byte \X Byte) /\ Len(d \o n) = D + N
    BY <1>1, ConcatProperties
  <2> QED
    BY <2>1, LenProperties
<1>4. /\ \A i \in 1 .. D : (d \o n)[i] = d[i]
      /\ \A i \in (D + 1) .. (D + N) : (d \o n)[i] = n[i - D]
  <2>1. \A i \in 1 .. D + N : (d \o n)[i] = IF i <= D THEN d[i] ELSE n[i - D]
    BY <1>1, ConcatProperties
  <2> QED
    BY <1>1, <2>1
<1> HIDE DEF D
<1> DEFINE c == d \o n
<1> HIDE DEF c
<1>5. /\ DOMAIN c = 1 .. (D + N) /\ DOMAIN d = 1 .. D
      /\ \A i \in 1 .. D : c[i] = d[i]
      /\ \A i \in (D + 1) .. (D + N) : c[i] = n[i - D]
  BY <1>3, <1>4 DEF c
<1>6. ASSUME NEW i, NEW h
      PROVE  Has(c, b, i, h) <=>
               \/ Has(d, b, i, h)
               \/ h \in {1, 2} /\ i \in (D + 1) .. (D + N) /\ s[2 * (i - D - 1) + h] = b
  <2>1. CASE i \in 1 .. D
    <3>1. i \in DOMAIN c /\ i \in DOMAIN d /\ c[i] = d[i] /\ i \notin (D + 1) .. (D + N)
      BY <1>1, <1>5, <2>1
    <3> QED
      BY <3>1 DEF Has
  <2>2. CASE i \in (D + 1) .. (D + N)
    <3>1. i - D \in 1 .. N /\ c[i] = n[i - D] /\ i \in DOMAIN c /\ i \notin DOMAIN d
      BY <1>1, <1>5, <2>2
    <3>2. c[i] = <<s[2 * (i - D) - 1], s[2 * (i - D)]>> /\ c[i] # Junk
      BY <1>2, <3>1
    <3>3. 2 * (i - D) - 1 = 2 * (i - D - 1) + 1 /\ 2 * (i - D) = 2 * (i - D - 1) + 2
      BY <1>1, <2>2
    <3>4. c[i][1] = s[2 * (i - D - 1) + 1] /\ c[i][2] = s[2 * (i - D - 1) + 2]
      BY <3>2, <3>3
    <3> QED
      BY <2>2, <3>1, <3>2, <3>4 DEF Has
  <2>3. CASE i \notin 1 .. D /\ i \notin (D + 1) .. (D + N)
    <3>1. i \notin DOMAIN c /\ i \notin DOMAIN d
      BY <1>1, <1>5, <2>3
    <3> QED
      BY <2>3, <3>1 DEF Has
  <2> QED
    BY <2>1, <2>2, <2>3
<1> QED
  BY <1>6 DEF c, n, D, N

\* Which half of which number a half of the piece becomes, and back.
LEMMA RankOfHalf ==
    ASSUME NEW k \in Nat, NEW i \in 1 .. k, ~ (i = k /\ k % 2 = 1)
    PROVE  /\ (i + 1) \div 2 \in 1 .. k \div 2 /\ 2 - (i % 2) \in {1, 2}
           /\ 2 * ((i + 1) \div 2 - 1) + (2 - (i % 2)) = i
  OBVIOUS

LEMMA HalfOfRank ==
    ASSUME NEW k \in Nat, NEW m \in 1 .. k \div 2, NEW h \in {1, 2}
    PROVE  /\ 2 * (m - 1) + h \in 1 .. k /\ ~ (2 * (m - 1) + h = k /\ k % 2 = 1)
           /\ (2 * (m - 1) + h + 1) \div 2 = m /\ 2 - ((2 * (m - 1) + h) % 2) = h
  OBVIOUS

\* handle_producer: what a read of k halves makes of them.
LEMMA NumbersMove ==
    ASSUME TypeOK, NEW b, NEW p \in Producer, NEW k \in 0 .. Len(wire[p]),
           wire' = [wire EXCEPT ![p] = SubSeq(wire[p], k + 1, Len(wire[p]))],
           receivedData' = [receivedData EXCEPT
                              ![p] = receivedData[p] \o Numbers(SubSeq(wire[p], 1, k))],
           lost' = lost \cup CutOff(SubSeq(wire[p], 1, k)),
           UNCHANGED <<queue, msg, got>>
    PROVE  Moved(b)
<1> DEFINE w == wire[p]
           d == receivedData[p]
           L == <<"lost", "server", 0, 0>>
           new(j) == <<"data", p, Len(d) + (j + 1) \div 2, 2 - (j % 2)>>
           f == [s \in Places(b) |->
                   IF s[1] = "wire" /\ s[2] = p
                   THEN IF s[3] > k THEN <<"wire", p, s[3] - k, 0>>
                        ELSE IF s[3] = k /\ k % 2 = 1 THEN L ELSE new(s[3])
                   ELSE s]
<1>1. PlacesByKind(b) /\ PlacesByKind(b)'
  BY PlacesAre, NewPlacesAre
<1>2. /\ DOMAIN w = 1 .. Len(w) /\ Len(w) \in Nat /\ k \in Nat
      /\ \A q \in Producer : q # p => wire'[q] = wire[q]
      /\ DOMAIN wire'[p] = 1 .. Len(w) - k
      /\ \A i \in 1 .. Len(w) - k : wire'[p][i] = w[i + k]
  <2>1. /\ DOMAIN w = 1 .. Len(w) /\ Len(w) \in Nat
        /\ \A q \in Producer : q # p => wire'[q] = wire[q]
        /\ DOMAIN wire'[p] = 1 .. Len(w) - k
        /\ \A i \in 1 .. Len(w) - k : wire'[p][i] = w[i + k]
    BY ReadShifts, Zenon
  <2> QED
    BY <2>1
<1> DEFINE s0 == SubSeq(w, 1, k)
<1>3. s0 \in Seq(Byte) /\ Len(s0) = k /\ \A i \in 1 .. k : s0[i] = w[i]
  BY ReadShifts
<1>4. b \in lost' <=> b \in lost \/ (k % 2 = 1 /\ w[k] = b)
  <2>1. lost' = lost \cup CutOff(s0)
    OBVIOUS
  <2> HIDE DEF s0
  <2>2. b \in CutOff(s0) <=> k % 2 = 1 /\ w[k] = b
    <3>1. k % 2 = 1 => s0[k] = w[k]
      BY <1>2, <1>3
    <3> QED
      BY <1>3, <3>1 DEF CutOff
  <2> QED
    BY <2>1, <2>2
<1>5. /\ d \in Seq(Byte \X Byte) /\ Len(d) \in Nat /\ DOMAIN d = 1 .. Len(d)
      /\ receivedData'[p] = d \o Numbers(s0)
      /\ \A q \in Producer : q # p => receivedData'[q] = receivedData[q]
  BY DEF TypeOK
<1>6. \A i, h : Has(receivedData'[p], b, i, h) <=>
        \/ Has(d, b, i, h)
        \/ /\ h \in {1, 2} /\ i \in (Len(d) + 1) .. (Len(d) + k \div 2)
           /\ s0[2 * (i - Len(d) - 1) + h] = b
  <2> HIDE DEF s0, d
  <2>1. \A i, h : Has(d \o Numbers(s0), b, i, h) <=>
                       \/ Has(d, b, i, h)
                       \/ /\ h \in {1, 2} /\ i \in (Len(d) + 1) .. (Len(d) + Len(s0) \div 2)
                          /\ s0[2 * (i - Len(d) - 1) + h] = b
    BY <1>3, <1>5, NumbersBehind, SMTT(30)
  <2>2. receivedData'[p] = d \o Numbers(s0) /\ Len(s0) = k
    BY <1>3, <1>5
  <2> QED
    BY <2>1, <2>2
<1> HIDE DEF s0
<1>7. ASSUME NEW s \in Places(b) PROVE f[s] \in Places(b)'
  <2>1. ASSUME s[1] \notin {"wire", "data", "lost"} PROVE f[s] \in Places(b)'
    BY <2>1, StaysIn
  <2>2. ASSUME NEW q \in Producer, NEW i, s = <<"wire", q, i, 0>> PROVE f[s] \in Places(b)'
    <3>1. i \in DOMAIN wire[q] /\ wire[q][i] = b
      BY <1>1, <2>2 DEF PlacesByKind
    <3>2. CASE q # p
      <4>1. f[s] = s
        BY <2>2, <3>2
      <4> QED
        BY <1>1, <1>2, <2>2, <3>1, <3>2, <4>1 DEF PlacesByKind
    <3>3. CASE q = p /\ i > k
      <4>1. f[s] = <<"wire", p, i - k, 0>>
        BY <2>2, <3>3
      <4>2. i - k \in 1 .. Len(w) - k /\ (i - k) + k = i
        BY <1>2, <3>1, <3>3
      <4>3. i - k \in DOMAIN wire'[p] /\ wire'[p][i - k] = b
        BY <1>2, <3>1, <3>3, <4>2
      <4> HIDE DEF f
      <4> QED
        BY <1>1, <4>1, <4>3 DEF PlacesByKind
    <3>4. CASE q = p /\ i = k /\ k % 2 = 1
      <4>1. ~ (i > k)
        BY <1>2, <3>4
      <4>2. f[s] = L
        BY <2>2, <3>4, <4>1
      <4>3. b \in lost'
        BY <1>4, <3>1, <3>4
      <4> QED
        BY <1>1, <4>2, <4>3 DEF PlacesByKind
    <3>5. CASE q = p /\ ~ (i > k) /\ ~ (i = k /\ k % 2 = 1)
      <4> DEFINE D == Len(d)
                 e == (i + 1) \div 2
                 j == D + e
                 h == 2 - (i % 2)
      <4>1. f[s] = <<"data", p, j, h>>
        BY <2>2, <3>5
      <4>2. i \in 1 .. k
        BY <1>2, <3>1, <3>5
      <4>3. e \in 1 .. k \div 2 /\ h \in {1, 2} /\ 2 * (e - 1) + h = i
        BY <1>2, <3>5, <4>2, RankOfHalf
      <4>4. D \in Nat /\ k \div 2 \in Nat
        BY <1>2, <1>5
      <4> HIDE DEF f, d, D, e, h
      <4>5. j \in (D + 1) .. (D + k \div 2) /\ j - D - 1 = e - 1
        BY <4>3, <4>4
      <4>6. s0[2 * (j - D - 1) + h] = b
        BY <1>3, <3>1, <3>5, <4>2, <4>3, <4>5
      <4> HIDE DEF j
      <4>7. Has(receivedData'[p], b, j, h)
        BY <1>6, <4>3, <4>5, <4>6 DEF D
      <4> QED
        BY <1>1, <4>1, <4>7 DEF PlacesByKind
    <3> QED
      BY <3>2, <3>3, <3>4, <3>5
  <2>3. ASSUME s = L PROVE f[s] \in Places(b)'
    <3>1. f[s] = L
      BY <2>3
    <3> QED
      BY <1>1, <2>3, <3>1 DEF PlacesByKind
  <2>4. ASSUME NEW q \in Producer, NEW i, NEW h, s = <<"data", q, i, h>>
        PROVE  f[s] \in Places(b)'
    <3>1. f[s] = s
      BY <2>4
    <3>2. Has(receivedData[q], b, i, h)
      BY <1>1, <2>4 DEF PlacesByKind
    <3>3. Has(receivedData'[q], b, i, h)
      <4>1. CASE q = p
        BY <1>6, <3>2, <4>1
      <4>2. CASE q # p
        BY <1>5, <3>2, <4>2
      <4> QED
        BY <4>1, <4>2
    <3> HIDE DEF f
    <3> QED
      BY <1>1, <2>4, <3>1, <3>3 DEF PlacesByKind
  <2> HIDE DEF f
  <2> QED
    BY <2>1, <2>2, <2>3, <2>4, FormOf
<1>8. ASSUME NEW t \in Places(b)' PROVE \E s \in Places(b) : f[s] = t
  <2>1. ASSUME t[1] \notin {"wire", "data", "lost"} PROVE t \in Places(b) /\ f[t] = t
    <3>1. t \in Places(b)
      BY <2>1, StaysIn
    <3> QED
      BY <2>1, <3>1
  <2>2. ASSUME NEW q \in Producer, NEW i, t = <<"wire", q, i, 0>>
        PROVE  \E s \in Places(b) : f[s] = t
    <3>1. i \in DOMAIN wire'[q] /\ wire'[q][i] = b
      BY <1>1, <2>2 DEF PlacesByKind
    <3>2. CASE q = p
      <4> DEFINE v == i + k
      <4>1. v \in DOMAIN w /\ w[v] = b /\ v > k /\ v - k = i
        BY <1>2, <3>1, <3>2
      <4> HIDE DEF v
      <4>2. <<"wire", p, v, 0>> \in Places(b)
        BY <1>1, <4>1 DEF PlacesByKind
      <4>3. f[<<"wire", p, v, 0>>] = <<"wire", p, v - k, 0>>
        BY <4>1, <4>2
      <4> HIDE DEF f
      <4>4. f[<<"wire", p, v, 0>>] = t
        BY <2>2, <3>2, <4>1, <4>3
      <4> QED
        BY <4>2, <4>4
    <3>3. CASE q # p
      <4>1. t \in Places(b)
        BY <1>1, <1>2, <2>2, <3>1, <3>3 DEF PlacesByKind
      <4>2. f[t] = t
        BY <2>2, <3>3, <4>1
      <4> QED
        BY <4>1, <4>2
    <3> QED
      BY <3>2, <3>3
  <2>3. ASSUME t = L PROVE \E s \in Places(b) : f[s] = t
    <3>1. CASE b \in lost
      <4>1. L \in Places(b)
        BY <1>1, <3>1 DEF PlacesByKind
      <4>2. f[L] = L
        BY <4>1
      <4> QED
        BY <2>3, <4>1, <4>2
    <3>2. CASE k % 2 = 1 /\ w[k] = b
      <4>1. k \in DOMAIN wire[p] /\ ~ (k > k)
        BY <1>2, <3>2
      <4>2. <<"wire", p, k, 0>> \in Places(b)
        BY <1>1, <3>2, <4>1 DEF PlacesByKind
      <4>3. f[<<"wire", p, k, 0>>] = L
        BY <3>2, <4>1, <4>2
      <4> QED
        BY <2>3, <4>2, <4>3
    <3> QED
      BY <1>1, <1>4, <2>3, <3>1, <3>2 DEF PlacesByKind
  <2>4. ASSUME NEW q \in Producer, NEW i, NEW h, t = <<"data", q, i, h>>
        PROVE  \E s \in Places(b) : f[s] = t
    <3>1. Has(receivedData'[q], b, i, h)
      BY <1>1, <2>4 DEF PlacesByKind
    <3>2. CASE Has(receivedData[q], b, i, h)
      <4>1. t \in Places(b)
        BY <1>1, <2>4, <3>2 DEF PlacesByKind
      <4>2. f[t] = t
        BY <2>4, <4>1
      <4> QED
        BY <4>1, <4>2
    <3>3. CASE /\ q = p /\ h \in {1, 2} /\ i \in (Len(d) + 1) .. (Len(d) + k \div 2)
               /\ s0[2 * (i - Len(d) - 1) + h] = b
      <4> DEFINE j == 2 * (i - Len(d) - 1) + h
      <4>1. /\ j \in 1 .. k /\ ~ (j > k) /\ ~ (j = k /\ k % 2 = 1)
            /\ Len(d) + (j + 1) \div 2 = i /\ 2 - (j % 2) = h
        <5> DEFINE m == i - Len(d)
        <5>1. m \in 1 .. k \div 2 /\ i - Len(d) - 1 = m - 1 /\ Len(d) + m = i
          <6> DEFINE D == Len(d)
                     N == k \div 2
          <6> HIDE DEF f, d
          <6>1. D \in Nat /\ N \in Nat
            BY <1>2, <1>5
          <6>3. i \in (D + 1) .. (D + N)
            BY <3>3, Zenon
          <6> HIDE DEF D, N
          <6>2. i - D \in 1 .. N /\ i - D - 1 = (i - D) - 1 /\ D + (i - D) = i
            BY <6>1, <6>3
          <6> QED
            BY <6>2 DEF D, N
        <5> HIDE DEF m
        <5>2. /\ 2 * (m - 1) + h \in 1 .. k /\ ~ (2 * (m - 1) + h = k /\ k % 2 = 1)
              /\ (2 * (m - 1) + h + 1) \div 2 = m /\ 2 - ((2 * (m - 1) + h) % 2) = h
          BY <1>2, <3>3, <5>1, HalfOfRank
        <5>3. j = 2 * (m - 1) + h
          BY <5>1
        <5> HIDE DEF j
        <5>4. j \in 1 .. k /\ ~ (j = k /\ k % 2 = 1) /\ (j + 1) \div 2 = m /\ 2 - (j % 2) = h
          BY <5>2, <5>3
        <5>5. ~ (j > k)
          BY <1>2, <5>4
        <5> HIDE DEF d
        <5> QED
          BY <5>1, <5>4, <5>5
      <4> HIDE DEF j
      <4>2. j \in DOMAIN w /\ w[j] = b
        BY <1>2, <1>3, <3>3, <4>1 DEF j
      <4>3. <<"wire", p, j, 0>> \in Places(b)
        BY <1>1, <4>2 DEF PlacesByKind
      <4>4. f[<<"wire", p, j, 0>>] = new(j)
        BY <4>1, <4>3
      <4>5. new(j) = t
        BY <2>4, <3>3, <4>1
      <4> QED
        BY <4>3, <4>4, <4>5
    <3>4. CASE q # p
      <4>1. Has(receivedData[q], b, i, h)
        BY <1>5, <3>1, <3>4
      <4> QED
        BY <3>2, <4>1
    <3> HIDE DEF f, d
    <3> QED
      BY <1>6, <3>1, <3>2, <3>3, <3>4 DEF d
  <2> HIDE DEF f
  <2>5. CASE t[1] = "data"
    <3>1. \E q \in Producer : \E i, h : t = <<"data", q, i, h>>
      BY <2>5, NewDataOf
    <3> QED
      BY <2>4, <3>1, Zenon
  <2>6. CASE t[1] = "lost"
    BY <2>3, <2>6, NewFormOf
  <2>7. CASE t[1] = "wire"
    BY <2>2, <2>7, NewFormOf, ZenonT(40)
  <2> QED
    BY <2>1, <2>5, <2>6, <2>7
<1> HIDE DEF f
<1> QED
  BY <1>7, <1>8, MovedBy

-----------------------------------------------------------------------------
\* A half that was sent is in one place, one that was not is nowhere.
Kept(b) == IF b[2] <= sent[b[1]] THEN \E s : Places(b) = {s} ELSE Places(b) = {}

LEMMA KeptByMove ==
    ASSUME NEW b, Kept(b), Moved(b), sent' = sent
    PROVE  Kept(b)'
<1>1. CASE b[2] <= sent[b[1]]
  BY <1>1 DEF Kept, Moved
<1>2. CASE ~ (b[2] <= sent[b[1]])
  BY <1>2 DEF Kept, Moved
<1> QED
  BY <1>1, <1>2

\* The j-th half of a burst is half 2 - j % 2 of its number (j + 1) \div 2.
LEMMA BurstIndex ==
    ASSUME NEW k \in Nat, NEW j \in 1 .. 2 * k
    PROVE  /\ (j + 1) \div 2 \in 1 .. k /\ 2 - (j % 2) \in {1, 2}
           /\ j = 2 * ((j + 1) \div 2 - 1) + (2 - (j % 2))
OBVIOUS

LEMMA IndexInBurst ==
    ASSUME NEW k \in Nat, NEW m \in 1 .. k, NEW h \in {1, 2}
    PROVE  /\ 2 * (m - 1) + h \in 1 .. 2 * k
           /\ (2 * (m - 1) + h + 1) \div 2 = m /\ 2 - ((2 * (m - 1) + h) % 2) = h
OBVIOUS

\* What a burst adds to the stream of p.
LEMMA BurstAdds ==
    ASSUME TypeOK, NEW p \in Producer, sent[p] < Count[p],
           wire' = [wire EXCEPT ![p] = @ \o BurstHalves(p)],
           sent' = [sent EXCEPT ![p] = Least(@ + Burst, Count[p])]
    PROVE  \E k \in Nat :
             /\ Len(wire[p]) \in Nat /\ DOMAIN wire[p] = 1 .. Len(wire[p])
             /\ \A q \in Producer : q # p => wire'[q] = wire[q] /\ sent'[q] = sent[q]
             /\ sent[p] \in Nat /\ sent'[p] = sent[p] + k
             /\ DOMAIN wire'[p] = 1 .. (Len(wire[p]) + 2 * k)
             /\ \A i \in 1 .. Len(wire[p]) : wire'[p][i] = wire[p][i]
             /\ \A j \in 1 .. 2 * k :
                  wire'[p][Len(wire[p]) + j] = <<p, sent[p] + (j + 1) \div 2, 2 - (j % 2)>>
<1> DEFINE w == wire[p]
           n == sent[p]
           k == Least(Burst, Count[p] - n)
           B == BurstHalves(p)
<1>1. /\ n \in Nat /\ Count[p] \in Nat /\ Burst \in Nat /\ n < Count[p]
      /\ w \in Seq(Byte)
  BY QueueAssumption DEF TypeOK
<1>2. k \in Nat /\ Least(n + Burst, Count[p]) = n + k
  BY <1>1 DEF Least
<1>3. /\ B = [j \in 1 .. 2 * k |-> <<p, n + (j + 1) \div 2, 2 - (j % 2)>>]
  BY DEF BurstHalves
<1>4. B \in Seq(Byte)
  BY <1>1, BurstTyped
<1>5. /\ wire'[p] = w \o B /\ sent'[p] = Least(n + Burst, Count[p])
      /\ \A q \in Producer : q # p => wire'[q] = wire[q] /\ sent'[q] = sent[q]
  BY DEF TypeOK
<1> HIDE DEF k, B, w, n
<1>6. Len(B) = 2 * k /\ \A j \in 1 .. 2 * k : B[j] = <<p, n + (j + 1) \div 2, 2 - (j % 2)>>
  BY <1>2, <1>3
<1> DEFINE D == Len(w)
<1>7. /\ D \in Nat /\ DOMAIN w = 1 .. D
      /\ w \o B \in Seq(Byte) /\ Len(w \o B) = D + 2 * k
  BY <1>1, <1>4, <1>6, ConcatProperties, LenProperties
<1>8. DOMAIN (w \o B) = 1 .. (D + 2 * k)
  BY <1>7, LenProperties
<1>9. \A i \in 1 .. D + 2 * k : (w \o B)[i] = IF i <= D THEN w[i] ELSE B[i - D]
  BY <1>1, <1>4, <1>6, ConcatProperties
<1> HIDE DEF D
<1>10. \A i \in 1 .. D : (w \o B)[i] = w[i]
  BY <1>2, <1>7, <1>9
<1>11. ASSUME NEW j \in 1 .. 2 * k
       PROVE  (w \o B)[D + j] = <<p, n + (j + 1) \div 2, 2 - (j % 2)>>
  <2> DEFINE v == D + j
             c == w \o B
  <2>1. v \in 1 .. D + 2 * k /\ ~ (v <= D) /\ v - D = j
    BY <1>2, <1>7
  <2> HIDE DEF v, c
  <2>2. \A i \in 1 .. D + 2 * k : c[i] = IF i <= D THEN w[i] ELSE B[i - D]
    BY <1>9 DEF c
  <2>3. c[v] = B[j]
    BY <2>1, <2>2
  <2> QED
    BY <1>6, <2>3 DEF v, c
<1>12. /\ D \in Nat /\ DOMAIN w = 1 .. D
       /\ \A q \in Producer : q # p => wire'[q] = wire[q] /\ sent'[q] = sent[q]
       /\ n \in Nat /\ sent'[p] = n + k
       /\ DOMAIN wire'[p] = 1 .. (D + 2 * k)
       /\ \A i \in 1 .. D : wire'[p][i] = w[i]
       /\ \A j \in 1 .. 2 * k : wire'[p][D + j] = <<p, n + (j + 1) \div 2, 2 - (j % 2)>>
  BY <1>1, <1>2, <1>5, <1>7, <1>8, <1>10, <1>11
<1> QED
  BY <1>2, <1>12, Zenon DEF D, w, n

\* produce_data: the halves of the burst, and only they, get a place.
LEMMA SendKeeps ==
    ASSUME TypeOK, NEW p \in Producer, ProducerSend(p), NEW b \in Byte, Kept(b)
    PROVE  Kept(b)'
<1> DEFINE w == wire[p]
           D == Len(w)
           n == sent[p]
<1>1. PICK k \in Nat :
        /\ D \in Nat /\ DOMAIN w = 1 .. D
        /\ \A q \in Producer : q # p => wire'[q] = wire[q] /\ sent'[q] = sent[q]
        /\ n \in Nat /\ sent'[p] = n + k
        /\ DOMAIN wire'[p] = 1 .. (D + 2 * k)
        /\ \A i \in 1 .. D : wire'[p][i] = w[i]
        /\ \A j \in 1 .. 2 * k : wire'[p][D + j] = <<p, n + (j + 1) \div 2, 2 - (j % 2)>>
  BY BurstAdds DEF ProducerSend
<1>2. PlacesByKind(b) /\ PlacesByKind(b)'
  BY PlacesAre, NewPlacesAre
<1>3. PICK q \in Producer, r \in Nat, h \in {1, 2} : r \in 1 .. Count[q] /\ b = <<q, r, h>>
  <2>1. PICK q \in Producer : b \in {q} \X (1 .. Count[q]) \X {1, 2}
    BY DEF Byte, Half
  <2> DEFINE C == 1 .. Count[q]
  <2> HIDE DEF C
  <2>2. b \in {q} \X C \X {1, 2}
    BY <2>1 DEF C
  <2>3. b = <<b[1], b[2], b[3]>> /\ b[1] = q /\ b[2] \in C /\ b[3] \in {1, 2}
    BY <2>2
  <2>4. b = <<q, b[2], b[3]>> /\ b[2] \in Nat /\ b[2] \in 1 .. Count[q] /\ b[3] \in {1, 2}
    BY <2>3, QueueAssumption DEF C
  <2> QED
    BY <2>4, Zenon
<1>4. ASSUME NEW s, s[1] # "wire" PROVE s \in Places(b)' <=> s \in Places(b)
  BY <1>4, StaysIn DEF ProducerSend, consumerVars
<1>5. r \in Nat /\ sent[q] \in Nat /\ sent'[q] \in Nat
  <2>1. r \in Nat /\ sent[q] \in Nat
    BY <1>3, QueueAssumption DEF TypeOK
  <2> QED
    BY <1>1, <2>1
<1> HIDE DEF w, D
<1>6. ASSUME NEW i, i \in 1 .. D
      PROVE  <<"wire", p, i, 0>> \in Places(b)' <=> <<"wire", p, i, 0>> \in Places(b)
  <2>1. i \in DOMAIN wire'[p] /\ i \in DOMAIN wire[p] /\ wire'[p][i] = wire[p][i]
    BY <1>1, <1>6 DEF w
  <2> QED
    BY <1>2, <2>1 DEF PlacesByKind
<1>7. ASSUME NEW o \in Producer, o # p, NEW i
      PROVE  <<"wire", o, i, 0>> \in Places(b)' <=> <<"wire", o, i, 0>> \in Places(b)
  BY <1>1, <1>2, <1>7 DEF PlacesByKind
<1>8. ASSUME NEW j \in 1 .. 2 * k
      PROVE  /\ <<"wire", p, D + j, 0>> \in Places(b)' <=>
                  b = <<p, n + (j + 1) \div 2, 2 - (j % 2)>>
             /\ <<"wire", p, D + j, 0>> \notin Places(b)
  <2> DEFINE v == D + j
  <2>1. v \in 1 .. (D + 2 * k) /\ v \notin 1 .. D /\ wire'[p][v] = <<p, n + (j + 1) \div 2, 2 - (j % 2)>>
    BY <1>1, SMTT(30)
  <2> HIDE DEF v
  <2>2. v \in DOMAIN wire'[p] /\ v \notin DOMAIN wire[p]
    BY <1>1, <2>1 DEF w
  <2>3. /\ <<"wire", p, v, 0>> \in Places(b)' <=> wire'[p][v] = b
        /\ <<"wire", p, v, 0>> \notin Places(b)
    BY <1>2, <2>2 DEF PlacesByKind
  <2> QED
    BY <2>1, <2>3 DEF v
<1>9. ASSUME NEW s \in Places(b)', s \notin Places(b)
      PROVE  \E j \in 1 .. 2 * k : /\ s = <<"wire", p, D + j, 0>>
                                   /\ b = <<p, n + (j + 1) \div 2, 2 - (j % 2)>>
  <2>1. PICK o, i : o \in Producer /\ s = <<"wire", o, i, 0>> /\ i \in DOMAIN wire'[o]
    BY <1>4, <1>9, NewFormOf
  <2>2. o = p /\ i \notin 1 .. D
    BY <1>6, <1>7, <1>9, <2>1
  <2>3. i \in 1 .. (D + 2 * k)
    BY <1>1, <2>1, <2>2
  <2>4. i - D \in 1 .. 2 * k /\ D + (i - D) = i
    BY <1>1, <2>2, <2>3
  <2> DEFINE j == i - D
  <2>5. j \in 1 .. 2 * k /\ s = <<"wire", p, D + j, 0>>
    BY <2>1, <2>2, <2>4
  <2> HIDE DEF j
  <2>6. b = <<p, n + (j + 1) \div 2, 2 - (j % 2)>>
    BY <1>8, <1>9, <2>5
  <2> QED
    BY <2>5, <2>6
<1>10. ASSUME NEW s \in Places(b) PROVE s \in Places(b)'
  <2>1. CASE s[1] # "wire"
    BY <1>4, <2>1
  <2>2. CASE s[1] = "wire"
    <3>1. PICK o, i : o \in Producer /\ s = <<"wire", o, i, 0>> /\ i \in DOMAIN wire[o]
      BY <2>2, FormOf
    <3>2. CASE o # p
      BY <1>7, <3>1, <3>2
    <3>3. CASE o = p
      <4>1. i \in 1 .. D
        BY <1>1, <3>1, <3>3 DEF w
      <4> QED
        BY <1>6, <3>1, <3>3, <4>1
    <3> QED
      BY <3>2, <3>3
  <2> QED
    BY <2>1, <2>2
<1>11. CASE q = p /\ r \in (n + 1) .. (n + k)
  <2> DEFINE m == r - n
             j == 2 * (m - 1) + h
             t == <<"wire", p, D + j, 0>>
  <2>1. m \in 1 .. k /\ n + m = r /\ ~ (r <= n) /\ r <= n + k
    BY <1>1, <1>5, <1>11, SMTT(30)
  <2>2. Places(b) = {} /\ b[2] <= sent'[b[1]]
    BY <1>1, <1>3, <1>11, <2>1 DEF Kept
  <2> HIDE DEF m
  <2>3. j \in 1 .. 2 * k /\ (j + 1) \div 2 = m /\ 2 - (j % 2) = h
    BY <1>3, <2>1, IndexInBurst
  <2> HIDE DEF j
  <2>4. b = <<p, n + (j + 1) \div 2, 2 - (j % 2)>>
    BY <1>3, <1>11, <2>1, <2>3
  <2>5. t \in Places(b)'
    BY <1>8, <2>3, <2>4
  <2>6. ASSUME NEW s \in Places(b)' PROVE s = t
    <3>1. PICK i \in 1 .. 2 * k : /\ s = <<"wire", p, D + i, 0>>
                                  /\ b = <<p, n + (i + 1) \div 2, 2 - (i % 2)>>
      BY <1>9, <2>2, <2>6
    <3>2. (i + 1) \div 2 \in 1 .. k /\ i = 2 * ((i + 1) \div 2 - 1) + (2 - (i % 2))
      BY <3>1, BurstIndex
    <3>3. n + (i + 1) \div 2 = r /\ 2 - (i % 2) = h
      BY <1>3, <3>1
    <3>4. (i + 1) \div 2 = m
      BY <1>1, <1>5, <2>1, <3>2, <3>3 DEF m
    <3>5. i = j
      BY <3>2, <3>3, <3>4 DEF j
    <3> QED
      BY <3>1, <3>5
  <2>7. Places(b)' = {t}
    BY <2>5, <2>6
  <2> HIDE DEF t
  <2> QED
    BY <2>2, <2>7 DEF Kept
<1>12. CASE ~ (q = p /\ r \in (n + 1) .. (n + k))
  <2>1. ASSUME NEW j \in 1 .. 2 * k PROVE b # <<p, n + (j + 1) \div 2, 2 - (j % 2)>>
    <3>1. (j + 1) \div 2 \in 1 .. k
      BY BurstIndex
    <3> DEFINE e == (j + 1) \div 2
    <3> HIDE DEF e
    <3>2. n + e \in (n + 1) .. (n + k)
      BY <1>1, <3>1 DEF e
    <3> QED
      BY <1>3, <1>12, <3>2 DEF e
  <2>2. Places(b)' = Places(b)
    BY <1>9, <1>10, <2>1
  <2>3. r <= sent'[q] <=> r <= sent[q]
    BY <1>1, <1>5, <1>12
  <2>4. b[2] = r /\ b[1] = q
    BY <1>3
  <2> QED
    BY <2>2, <2>3, <2>4 DEF Kept
<1> QED
  BY <1>11, <1>12

-----------------------------------------------------------------------------
\* Every half is kept, in every reachable state.
HalvesKept == \A b \in Byte : Kept(b)

LEMMA NothingMoves ==
    ASSUME NEW b, UNCHANGED <<wire, receivedData, queue, msg, got, lost>>
    PROVE  Moved(b)
<1>1. ASSUME NEW s PROVE s \in Places(b)' <=> s \in Places(b)
  BY StaysIn
<1>2. Places(b)' = Places(b)
  BY <1>1
<1> QED
  BY <1>2 DEF Moved

LEMMA HalvesAtInit == Init => HalvesKept
<1> SUFFICES ASSUME Init, NEW b \in Byte PROVE Kept(b)
  BY DEF HalvesKept
<1>1. PlacesByKind(b)
  BY PlacesAre
<1>2. PICK p \in Producer : b \in {p} \X (1 .. Count[p]) \X {1, 2}
  BY DEF Byte, Half
<1>3. b[1] = p /\ b[2] \in 1 .. Count[p]
  BY <1>2
<1>4. sent[b[1]] = 0 /\ ~ (b[2] <= sent[b[1]])
  <2>1. sent[p] = 0 /\ Count[p] \in Nat
    BY QueueAssumption DEF Init
  <2> QED
    BY <1>3, <2>1
<1>5. ASSUME NEW s \in Places(b) PROVE FALSE
  BY <1>1 DEF Init, PlacesByKind, Has
<1>6. Places(b) = {}
  BY <1>5
<1> QED
  BY <1>4, <1>6 DEF Kept

\* Every step but a producer's send only moves halves.
LEMMA ProducerMoves ==
    ASSUME TypeOK, NEW b, NEW p \in Producer,
           ConnectProducer(p) \/ ProducerHandler(p) \/ Crash(p)
    PROVE  Moved(b) /\ sent' = sent
<1>1. CASE ConnectProducer(p) \/ Crash(p)
  BY <1>1, NothingMoves DEF ConnectProducer, Crash, consumerVars, producerVars
<1>2. CASE ReadProducerRole(p)
  <2>1. PICK k \in Cuts(p) : /\ wire' = [wire EXCEPT ![p] = SubSeq(@, k + 1, Len(@))]
                             /\ lost' = lost \cup SetOf(SubSeq(wire[p], 1, k))
    BY <1>2 DEF ReadProducerRole
  <2>2. k \in 0 .. Len(wire[p])
    BY CutsWithin
  <2> QED
    BY <1>2, <2>1, <2>2, RoleMoves DEF ReadProducerRole, consumerVars
<1>3. CASE ReadNumbers(p)
  <2>1. PICK k \in Cuts(p) \ {0} :
          /\ wire' = [wire EXCEPT ![p] = SubSeq(@, k + 1, Len(@))]
          /\ receivedData' = [receivedData EXCEPT
                                ![p] = receivedData[p] \o Numbers(SubSeq(wire[p], 1, k))]
          /\ lost' = lost \cup CutOff(SubSeq(wire[p], 1, k))
    BY <1>3 DEF ReadNumbers
  <2>2. k \in 0 .. Len(wire[p])
    BY CutsWithin
  <2> QED
    BY <1>3, <2>1, <2>2, NumbersMove DEF ReadNumbers, consumerVars
<1>4. CASE PushBatch(p)
  BY <1>4, PushMoves DEF PushBatch, Unpushed, Push
<1>5. CASE PushBeyond(p)
  <2>1. CASE left[p] > 0
    BY <1>5, <2>1, JunkMovesNothing DEF PushBeyond, Push
  <2>2. CASE ~ (left[p] > 0)
    BY <1>5, <2>2, NothingMoves DEF PushBeyond
  <2> QED
    BY <1>5, <2>1, <2>2 DEF PushBeyond
<1>6. CASE PushRest(p)
  <2>1. CASE receivedData[p] # <<>>
    BY <1>6, <2>1, PushMoves DEF PushRest, Push
  <2>2. CASE receivedData[p] = <<>>
    BY <1>6, <2>2, NothingMoves DEF PushRest
  <2> QED
    BY <2>1, <2>2
<1> QED
  BY <1>1, <1>2, <1>3, <1>4, <1>5, <1>6 DEF ProducerHandler

LEMMA ConsumerMoves ==
    ASSUME TypeOK, NEW b, NEW c \in Consumer,
           ConnectConsumer(c) \/ ConsumerHandler(c) \/ ConsumerDies(c)
    PROVE  Moved(b) /\ sent' = sent
<1>1. CASE ConnectConsumer(c) \/ ConsumerDies(c) \/ ReadConsumerRole(c) \/ Sleep(c) \/ BrokenPipe(c)
  BY <1>1, NothingMoves
     DEF ConnectConsumer, ConsumerDies, ReadConsumerRole, Sleep, BrokenPipe,
         consumerVars, producerVars
<1>2. CASE Pop(c)
  <2>1. ch[c] # "send"
    BY <1>2 DEF Pop
  <2> QED
    BY <1>2, <2>1, PopMoves DEF Pop, producerVars
<1>3. CASE Send(c)
  BY <1>3, SendMoves DEF Send, producerVars
<1>4. CASE SendFails(c)
  BY <1>4, LossMoves DEF SendFails, producerVars
<1> QED
  BY <1>1, <1>2, <1>3, <1>4 DEF ConsumerHandler

LEMMA HalvesStep == TypeOK /\ HalvesKept /\ [Next]_vars => HalvesKept'
<1> SUFFICES ASSUME TypeOK, HalvesKept, [Next]_vars, NEW b \in Byte' PROVE Kept(b)'
  BY DEF HalvesKept
<1>1. b \in Byte /\ Kept(b)
  BY DEF HalvesKept, Byte, Half
<1>2. ASSUME NEW p \in Producer, ProducerSend(p) PROVE Kept(b)'
  BY <1>1, <1>2, SendKeeps
<1>3. ASSUME NEW p \in Producer, ConnectProducer(p) \/ ProducerHandler(p) \/ Crash(p)
      PROVE  Kept(b)'
  BY <1>1, <1>3, ProducerMoves, KeptByMove
<1>4. ASSUME NEW c \in Consumer, ConnectConsumer(c) \/ ConsumerHandler(c) \/ ConsumerDies(c)
      PROVE  Kept(b)'
  BY <1>1, <1>4, ConsumerMoves, KeptByMove
<1>5. CASE UNCHANGED vars
  BY <1>1, <1>5, NothingMoves, KeptByMove DEF vars
<1> QED
  BY <1>2, <1>3, <1>4, <1>5 DEF Next

LEMMA KeptIsOnePlace == HalvesKept => EveryHalfSomewhere
<1> SUFFICES ASSUME HalvesKept, NEW b \in Byte
             PROVE  Cardinality(Places(b)) = IF b[2] <= sent[b[1]] THEN 1 ELSE 0
  BY DEF EveryHalfSomewhere
<1>1. CASE b[2] <= sent[b[1]]
  <2>1. PICK s : Places(b) = {s}
    BY <1>1 DEF HalvesKept, Kept
  <2> QED
    BY <1>1, <2>1, FS_Singleton
<1>2. CASE ~ (b[2] <= sent[b[1]])
  BY <1>2, FS_EmptySet DEF HalvesKept, Kept
<1> QED
  BY <1>1, <1>2

\* Every half a producer sent is in exactly one place, and no half is anywhere
\* before it is sent: no read, push, pop or send loses or copies one, however
\* TCP cuts the stream (queueServer.cpp:49, 87, 96, 105, 111-113).
THEOREM HalvesConserved == Spec => []EveryHalfSomewhere
<1>1. QInv => TypeOK
  BY DEF QInv
<1> QED
  BY <1>1, Invariant, HalvesAtInit, HalvesStep, KeptIsOnePlace, PTL DEF Spec

-----------------------------------------------------------------------------
(* The order of a producer's stream, from its socket to the clients.       *)

\* Halves are ranked without gaps in the socket of their producer, up to the
\* last one sent; all that has left the socket has a lower rank.
Stream ==
    \A p \in Producer : \A i \in DOMAIN wire[p] :
        wire[p][i][1] = p /\ Rank(wire[p][i]) + Len(wire[p]) = 2 * sent[p] + 2 + i
Left(b) == Rank(b) + Len(wire[b[1]]) <= 2 * sent[b[1]] + 2

Data(p) == HalvesOf(receivedData[p])
Taken(c) == got[c] \cup HalvesOf(msg[c])

LeftTheSocket ==
    /\ \A p \in Producer : \A b \in Data(p) : b[1] = p /\ Left(b)
    /\ \A b \in HalvesOf(queue) : Left(b)
    /\ \A c \in Consumer : \A b \in Taken(c) : Left(b)

\* The same places in order: clients, queue, received_data.
Ordered ==
    /\ Rising(queue)
    /\ \A p \in Producer : Rising(receivedData[p]) /\ Precede(HalvesOf(queue), Data(p))
    /\ \A c \in Consumer : /\ Precede(Taken(c), HalvesOf(queue))
                           /\ \A p \in Producer : Precede(Taken(c), Data(p))

OrderInv == Stream /\ LeftTheSocket /\ Ordered

LEMMA ByteParts ==
    ASSUME NEW b \in Byte
    PROVE  b[1] \in Producer /\ Rank(b) \in Nat
<1>1. PICK p \in Producer : b \in {p} \X (1 .. Count[p]) \X {1, 2}
  BY DEF Byte, Half
<1>2. b[1] = p /\ b[2] \in Nat /\ b[3] \in Nat
  BY <1>1, QueueAssumption
<1> QED BY <1>2 DEF Rank

\* The halves of the numbers of a sequence.
LEMMA HalvesAre ==
    ASSUME NEW s, NEW b
    PROVE  b \in HalvesOf(s) <=> \E i \in DOMAIN s : b \in SetOf(s[i])
BY DEF HalvesOf, SetOf

LEMMA HalvesTyped ==
    ASSUME NEW s \in Seq(Int4)
    PROVE  HalvesOf(s) \subseteq Byte
<1>1. ASSUME NEW n \in Int4 PROVE SetOf(n) \subseteq Byte
  <2>1. CASE n = Junk
    BY <2>1 DEF SetOf, Junk
  <2>2. CASE n \in Byte \X Byte
    <3>1. DOMAIN n = {1, 2} /\ n[1] \in Byte /\ n[2] \in Byte
      BY <2>2
    <3> QED BY <3>1 DEF SetOf
  <2> QED BY <2>1, <2>2 DEF Int4
<1>2. \A i \in DOMAIN s : s[i] \in Int4
  OBVIOUS
<1> QED BY <1>1, <1>2, HalvesAre

LEMMA DataAreInts == Seq(Byte \X Byte) \subseteq Seq(Int4)
BY DEF Int4

\* A number behind all others.
LEMMA RisingAppend ==
    ASSUME NEW q \in Seq(Int4), NEW n \in Int4
    PROVE  /\ HalvesOf(Append(q, n)) = HalvesOf(q) \cup SetOf(n)
           /\ Rising(q) /\ Neighbours(n) /\ Precede(HalvesOf(q), SetOf(n)) => Rising(Append(q, n))
<1> DEFINE a == Append(q, n)
           L == Len(q)
<1>1. /\ L \in Nat /\ DOMAIN q = 1 .. L /\ DOMAIN a = 1 .. L + 1
      /\ a[L + 1] = n /\ \A i \in 1 .. L : a[i] = q[i]
  OBVIOUS
<1> HIDE DEF a, L
<1>2. DOMAIN a = DOMAIN q \cup {L + 1} /\ \A i, j \in DOMAIN a : i < j => i \in DOMAIN q
  BY <1>1
<1>3. \A b : b \in HalvesOf(a) <=> b \in HalvesOf(q) \cup SetOf(n)
  BY <1>1, <1>2, HalvesAre
<1>4. ASSUME Rising(q), Neighbours(n), Precede(HalvesOf(q), SetOf(n)) PROVE Rising(a)
  <2>1. ASSUME NEW i \in DOMAIN a PROVE Neighbours(a[i])
    BY <1>1, <1>2, <1>4 DEF Rising
  <2>2. ASSUME NEW i \in DOMAIN a, NEW j \in DOMAIN a, i < j PROVE Precede(SetOf(a[i]), SetOf(a[j]))
    <3>1. i \in DOMAIN q /\ a[i] = q[i]
      BY <1>1, <1>2, <2>2
    <3>2. CASE j \in DOMAIN q
      BY <1>1, <1>4, <2>2, <3>1, <3>2 DEF Rising
    <3>3. CASE j = L + 1
      <4>1. SetOf(a[i]) \subseteq HalvesOf(q)
        BY <3>1, HalvesAre
      <4> QED BY <1>1, <1>4, <3>3, <4>1 DEF Precede
    <3> QED BY <1>2, <3>2, <3>3
  <2> QED BY <2>1, <2>2 DEF Rising
<1> QED BY <1>3, <1>4 DEF a

\* The number at the head of all others.
LEMMA RisingTail ==
    ASSUME NEW q \in Seq(Int4), q # <<>>
    PROVE  /\ HalvesOf(q) = SetOf(Head(q)) \cup HalvesOf(Tail(q))
           /\ Rising(q) => /\ Rising(Tail(q)) /\ Neighbours(Head(q))
                           /\ Precede(SetOf(Head(q)), HalvesOf(Tail(q)))
<1> DEFINE t == Tail(q)
           L == Len(q)
<1>1. /\ L \in Nat \ {0} /\ DOMAIN q = 1 .. L /\ DOMAIN t = 1 .. L - 1
      /\ Head(q) = q[1] /\ \A i \in 1 .. L - 1 : t[i] = q[i + 1]
  OBVIOUS
<1> HIDE DEF t, L
<1>2. /\ 1 \in DOMAIN q
      /\ \A i \in DOMAIN t : i + 1 \in DOMAIN q /\ 1 < i + 1 /\ t[i] = q[i + 1]
      /\ \A i \in DOMAIN q : i = 1 \/ (i - 1 \in DOMAIN t /\ t[i - 1] = q[i])
      /\ \A i, j \in DOMAIN t : i < j => i + 1 < j + 1
  BY <1>1
<1>3. \A b : b \in HalvesOf(q) <=> b \in SetOf(q[1]) \cup HalvesOf(t)
  BY <1>2, HalvesAre
<1>4. ASSUME Rising(q) PROVE Rising(t) /\ Neighbours(q[1]) /\ Precede(SetOf(q[1]), HalvesOf(t))
  <2>1. Rising(t) /\ Neighbours(q[1])
    BY <1>2, <1>4 DEF Rising
  <2>2. \A i \in DOMAIN t : Precede(SetOf(q[1]), SetOf(t[i]))
    BY <1>2, <1>4 DEF Rising
  <2> QED BY <2>1, <2>2, HalvesAre DEF Precede
<1> QED BY <1>1, <1>3, <1>4 DEF t

\* A piece of a gapless stream behind the numbers received before.
LEMMA RisingNumbers ==
    ASSUME NEW p, NEW d \in Seq(Byte \X Byte), NEW s \in Seq(Byte), NEW r \in Int,
           \A i \in DOMAIN s : s[i][1] = p /\ Rank(s[i]) = r + i,
           Rising(d), Precede(HalvesOf(d), SetOf(s))
    PROVE  /\ Rising(d \o Numbers(s))
           /\ HalvesOf(d \o Numbers(s)) \subseteq HalvesOf(d) \cup SetOf(s)
<1> DEFINE n == Numbers(s)
           c == d \o n
           D == Len(d)
           N == Len(s) \div 2
<1>1. n \in Seq(Byte \X Byte) /\ Len(n) = N /\ N \in Nat /\ D \in Nat
      /\ DOMAIN s = 1 .. Len(s) /\ Len(s) \in Nat /\ DOMAIN d = 1 .. D
  BY NumbersTyped DEF Numbers
<1>2. ASSUME NEW i \in 1 .. N
      PROVE /\ 2 * i - 1 \in DOMAIN s /\ 2 * i \in DOMAIN s
            /\ n[i] = <<s[2 * i - 1], s[2 * i]>>
            /\ SetOf(n[i]) = {s[2 * i - 1], s[2 * i]}
  <2>1. n[i] = <<s[2 * i - 1], s[2 * i]>>
    BY DEF Numbers
  <2>2. SetOf(<<s[2 * i - 1], s[2 * i]>>) = {s[2 * i - 1], s[2 * i]}
    <3>1. ASSUME NEW x, NEW y PROVE SetOf(<<x, y>>) = {x, y}
      <4>1. DOMAIN <<x, y>> = {1, 2} /\ <<x, y>>[1] = x /\ <<x, y>>[2] = y
        OBVIOUS
      <4> DEFINE t == <<x, y>>
      <4> HIDE DEF t
      <4>2. {t[j] : j \in {1, 2}} = {t[1], t[2]}
        OBVIOUS
      <4> QED BY <4>1, <4>2 DEF SetOf, t
    <3> QED BY <3>1
  <2>3. 2 * i - 1 \in DOMAIN s /\ 2 * i \in DOMAIN s
    BY <1>1
  <2> QED BY <2>1, <2>2, <2>3
<1>3. /\ DOMAIN c = 1 .. D + N
      /\ \A i \in 1 .. D + N : c[i] = IF i <= D THEN d[i] ELSE n[i - D]
  BY <1>1, ConcatProperties, LenProperties
<1> HIDE DEF n, c, D, N
<1>4. ASSUME NEW i \in DOMAIN c
      PROVE  \/ i \in DOMAIN d /\ c[i] = d[i]
             \/ i \notin DOMAIN d /\ i - D \in 1 .. N /\ c[i] = n[i - D]
  BY <1>1, <1>3
<1>5. ASSUME NEW i \in 1 .. N PROVE Neighbours(n[i]) /\ SetOf(n[i]) \subseteq SetOf(s)
  <2>1. n[i] = <<s[2 * i - 1], s[2 * i]>> /\ SetOf(n[i]) \subseteq SetOf(s)
    BY <1>2, ZenonT(40) DEF SetOf
  <2>2. s[2 * i - 1][1] = s[2 * i][1] /\ Rank(s[2 * i]) = Rank(s[2 * i - 1]) + 1
    <3>1. Rank(s[2 * i]) = r + 2 * i /\ Rank(s[2 * i - 1]) = r + (2 * i - 1)
          /\ s[2 * i - 1][1] = s[2 * i][1]
      BY <1>2
    <3> HIDE DEF Rank
    <3> QED BY <3>1
  <2> QED BY <2>1, <2>2, SMTT(30) DEF Neighbours
<1>6. ASSUME NEW i \in 1 .. N, NEW j \in 1 .. N, i < j PROVE Precede(SetOf(n[i]), SetOf(n[j]))
  <2>1. ASSUME NEW k \in {2 * i - 1, 2 * i}, NEW m \in {2 * j - 1, 2 * j} PROVE Rank(s[k]) < Rank(s[m])
    <3>1. k \in DOMAIN s /\ m \in DOMAIN s /\ k < m /\ k \in Int /\ m \in Int
      BY <1>1, <1>2, <1>6
    <3>2. Rank(s[k]) = r + k /\ Rank(s[m]) = r + m
      BY <3>1
    <3> QED BY <3>1, <3>2
  <2> QED BY <1>2, <2>1 DEF Precede
<1>7. Rising(c)
  <2>1. ASSUME NEW i \in DOMAIN c PROVE Neighbours(c[i])
    BY <1>4, <1>5 DEF Rising
  <2>2. ASSUME NEW i \in DOMAIN c, NEW j \in DOMAIN c, i < j PROVE Precede(SetOf(c[i]), SetOf(c[j]))
    <3>1. CASE i \in DOMAIN d /\ j \in DOMAIN d
      BY <1>4, <2>2, <3>1 DEF Rising
    <3>2. CASE i \in DOMAIN d /\ j \notin DOMAIN d
      <4>1. SetOf(c[i]) \subseteq HalvesOf(d)
        BY <1>4, <3>2, HalvesAre
      <4>2. SetOf(c[j]) \subseteq SetOf(s)
        BY <1>4, <1>5, <3>2
      <4> QED BY <4>1, <4>2 DEF Precede
    <3>3. CASE i \notin DOMAIN d
      <4>1. i - D \in 1 .. N /\ j - D \in 1 .. N /\ i - D < j - D /\ c[i] = n[i - D] /\ c[j] = n[j - D]
        BY <1>1, <1>3, <1>4, <2>2, <3>3
      <4> QED BY <1>6, <4>1
    <3> QED BY <3>1, <3>2, <3>3
  <2> QED BY <2>1, <2>2 DEF Rising
<1>8. ASSUME NEW b \in HalvesOf(c) PROVE b \in HalvesOf(d) \cup SetOf(s)
  <2>1. PICK i \in DOMAIN c : b \in SetOf(c[i])
    BY <1>8, HalvesAre
  <2> QED BY <1>4, <1>5, <2>1, HalvesAre
<1> QED BY <1>7, <1>8 DEF c, n

\* Halves of the same ranks, taken from fewer places, are still in order.
LEMMA PrecedeLess ==
    ASSUME NEW S, NEW T, NEW U \in SUBSET S, NEW V \in SUBSET T, Precede(S, T)
    PROVE  Precede(U, V)
BY DEF Precede

LEMMA PrecedeBoth ==
    ASSUME NEW S, NEW T, NEW U
    PROVE  /\ Precede(S, T) /\ Precede(S, U) => Precede(S, T \cup U)
           /\ Precede(S, U) /\ Precede(T, U) => Precede(S \cup T, U)
BY DEF Precede

LEMMA Typed ==
    ASSUME TypeOK
    PROVE  /\ \A p \in Producer : Data(p) \subseteq Byte
           /\ HalvesOf(queue) \subseteq Byte
           /\ \A c \in Consumer : Taken(c) \subseteq Byte
<1>1. /\ queue \in Seq(Int4) /\ \A c \in Consumer : msg[c] \in Seq(Int4) /\ got[c] \subseteq Byte
      /\ \A p \in Producer : receivedData[p] \in Seq(Int4)
  BY DataAreInts DEF TypeOK
<1> QED BY <1>1, HalvesTyped DEF Data, Taken

\* A step that only moves a producer's stream on, or does nothing of interest.
LEMMA LeftKept ==
    ASSUME TypeOK, LeftTheSocket, Ordered,
           UNCHANGED <<receivedData, queue, msg, got>>,
           \A b \in Byte : Left(b) => Left(b)'
    PROVE  LeftTheSocket' /\ Ordered'
<1>1. UNCHANGED <<HalvesOf(queue)>> /\ \A p : Data(p)' = Data(p)
  BY DEF Data, HalvesOf, SetOf
<1>2. \A c : Taken(c)' = Taken(c)
  BY DEF Taken, HalvesOf, SetOf
<1>3. LeftTheSocket'
  BY <1>1, <1>2, Typed DEF LeftTheSocket
<1>4. Ordered'
  BY <1>1, <1>2 DEF Ordered, Rising, Neighbours, Precede, Rank, SetOf, Junk
<1> QED BY <1>3, <1>4

LEMMA SameLength ==
    ASSUME NEW m \in Nat, NEW n \in Nat, 1 .. m = 1 .. n
    PROVE  m = n
<1>1. (m \in 1 .. m /\ n \in 1 .. n) \/ m = 0 \/ n = 0
  OBVIOUS
<1> QED BY <1>1

\* produce_data: the ranks of a burst go on where those before it ended.
LEMMA SendOrdered ==
    ASSUME TypeOK, OrderInv, NEW p \in Producer, ProducerSend(p)
    PROVE  OrderInv'
<1> DEFINE D == Len(wire[p])
<1>1. PICK k \in Nat :
        /\ D \in Nat /\ DOMAIN wire[p] = 1 .. D
        /\ \A q \in Producer : q # p => wire'[q] = wire[q] /\ sent'[q] = sent[q]
        /\ sent[p] \in Nat /\ sent'[p] = sent[p] + k
        /\ DOMAIN wire'[p] = 1 .. (D + 2 * k)
        /\ \A i \in 1 .. D : wire'[p][i] = wire[p][i]
        /\ \A j \in 1 .. 2 * k :
             wire'[p][D + j] = <<p, sent[p] + (j + 1) \div 2, 2 - (j % 2)>>
  BY BurstAdds DEF ProducerSend
<1>2. Len(wire'[p]) = D + 2 * k
  <2>1. wire'[p] = wire[p] \o BurstHalves(p) /\ BurstHalves(p) \in Seq(Byte) /\ wire[p] \in Seq(Byte)
    BY BurstTyped DEF ProducerSend, TypeOK
  <2>2. Len(wire'[p]) \in Nat /\ DOMAIN wire'[p] = 1 .. Len(wire'[p])
    BY <2>1, ConcatProperties, LenProperties
  <2> HIDE DEF D
  <2>3. DOMAIN wire'[p] = 1 .. (D + 2 * k) /\ D + 2 * k \in Nat
    BY <1>1
  <2> QED BY <2>2, <2>3, SameLength
<1> HIDE DEF D
<1>0. /\ D \in Nat /\ k \in Nat /\ sent[p] \in Nat /\ sent'[p] = sent[p] + k
      /\ \A i \in 1 .. D : wire'[p][i] = wire[p][i]
  BY <1>1
<1>3. Stream'
  <2> SUFFICES ASSUME NEW q \in Producer, NEW i \in DOMAIN wire'[q]
               PROVE  /\ wire'[q][i][1] = q
                      /\ Rank(wire'[q][i]) + Len(wire'[q]) = 2 * sent'[q] + 2 + i
    BY DEF Stream, Rank
  <2>1. CASE q # p
    BY <1>1, <2>1, ZenonT(40) DEF OrderInv, Stream
  <2>2. CASE q = p /\ i \in 1 .. D
    <3>1. /\ wire[p][i][1] = p /\ Rank(wire[p][i]) + D = 2 * sent[p] + 2 + i
          /\ wire[p][i] \in Byte
      BY <1>1, <2>2 DEF OrderInv, Stream, D, TypeOK
    <3>2. Rank(wire[p][i]) \in Nat
      BY <3>1, ByteParts
    <3>3. wire'[p][i] = wire[p][i] /\ i \in Nat
      BY <1>0, <2>2
    <3> DEFINE x == Rank(wire[p][i])   m == Len(wire'[p])   n == sent[p]   n1 == sent'[p]
    <3>4. x \in Nat /\ x + D = 2 * n + 2 + i /\ m = D + 2 * k /\ n1 = n + k /\ n \in Nat
          /\ D \in Nat /\ k \in Nat /\ i \in Nat
      BY <1>0, <1>2, <3>1, <3>2, <3>3
    <3> HIDE DEF x, m, n, n1
    <3>5. x + m = 2 * n1 + 2 + i
      BY <3>4
    <3> QED BY <2>2, <3>1, <3>3, <3>5 DEF x, m, n1
  <2>3. CASE q = p /\ i \notin 1 .. D
    <3>1. i - D \in 1 .. 2 * k /\ i = D + (i - D)
      <4>1. i \in 1 .. (D + 2 * k) /\ i \notin 1 .. D /\ D \in Nat
        BY ONLY <1>1, <2>3, i \in DOMAIN wire'[q], Zenon
      <4> QED BY <4>1
    <3> DEFINE j == i - D
    <3>2. wire'[p][i] = <<p, sent[p] + (j + 1) \div 2, 2 - (j % 2)>>
      BY <1>1, <3>1
    <3>3. j = 2 * ((j + 1) \div 2 - 1) + (2 - (j % 2)) /\ (j + 1) \div 2 \in 1 .. k /\ 2 - (j % 2) \in {1, 2}
      BY <3>1, BurstIndex
    <3> HIDE DEF j
    <3>4. Rank(wire'[p][i]) = 2 * (sent[p] + (j + 1) \div 2) + (2 - (j % 2))
      BY <3>2 DEF Rank
    <3>5. Rank(wire'[p][i]) = 2 * sent[p] + j + 2
      <4> DEFINE x == Rank(wire'[p][i])   n == sent[p]   h == (j + 1) \div 2   r == 2 - (j % 2)
      <4>1. j = 2 * (h - 1) + r /\ x = 2 * (n + h) + r
        BY ONLY <3>3, <3>4, Zenon
      <4>2. h \in 1 .. k /\ r \in {1, 2}
        BY ONLY <3>3, Zenon
      <4>3. n \in Nat /\ k \in Nat
        BY <1>0
      <4> HIDE DEF x, n, h, r
      <4>4. x = 2 * n + j + 2
        BY <4>1, <4>2, <4>3
      <4> QED BY <4>4 DEF x, n
    <3>6. Rank(wire'[p][i]) + Len(wire'[p]) = 2 * sent'[p] + 2 + i
      BY <1>0, <1>2, <3>1, <3>5 DEF j
    <3>7. wire'[p][i][1] = p
      BY <3>2
    <3> QED BY <2>3, <3>6, <3>7
  <2> QED BY <2>1, <2>2, <2>3
<1>4. ASSUME NEW b \in Byte, Left(b) PROVE Left(b)'
  <2>1. b[1] \in Producer /\ Rank(b) \in Nat
    BY ByteParts
  <2>2. CASE b[1] = p
    <3>1. Rank(b) + D <= 2 * sent[p] + 2
      BY <1>4, <2>2 DEF Left, D
    <3>2. Rank(b) + Len(wire'[p]) <= 2 * sent'[p] + 2
      BY <1>0, <1>2, <2>1, <3>1
    <3> QED BY <2>2, <3>2 DEF Left, Rank
  <2>3. CASE b[1] # p
    BY <1>1, <1>4, <2>1, <2>3 DEF Left, Rank
  <2> QED BY <2>2, <2>3
<1> QED BY <1>3, <1>4, LeftKept DEF OrderInv, ProducerSend, consumerVars

\* A read of k halves of p: the ranks left in the socket follow theirs.
LEMMA ReadOrdered ==
    ASSUME TypeOK, OrderInv, NEW p \in Producer, NEW k \in 0 .. Len(wire[p]),
           wire' = [wire EXCEPT ![p] = SubSeq(wire[p], k + 1, Len(wire[p]))], sent' = sent
    PROVE  /\ Stream'
           /\ \A b \in Byte : Left(b) => Left(b)'
           /\ \A i \in 1 .. k : \A b : b = wire[p][i] =>
                /\ b[1] = p /\ Left(b)'
                /\ Rank(b) = 2 * sent[p] + 2 - Len(wire[p]) + i
<1> DEFINE D == Len(wire[p])
<1>1. /\ wire[p] \in Seq(Byte) /\ DOMAIN wire[p] = 1 .. D /\ D \in Nat /\ k \in Nat /\ k <= D
      /\ \A q \in Producer : q # p => wire'[q] = wire[q]
      /\ DOMAIN wire'[p] = 1 .. D - k
      /\ \A i \in 1 .. D - k : wire'[p][i] = wire[p][i + k]
  BY ReadShifts DEF TypeOK
<1>2. Len(wire'[p]) = D - k
  <2>1. wire'[p] = SubSeq(wire[p], k + 1, D) /\ SubSeq(wire[p], k + 1, D) \in Seq(Byte)
    BY Split DEF TypeOK
  <2>2. Len(wire'[p]) \in Nat /\ DOMAIN wire'[p] = 1 .. Len(wire'[p])
    BY <2>1, LenProperties
  <2> QED BY <1>1, <2>2
<1>3. sent[p] \in Nat
  BY DEF TypeOK
<1>4. ASSUME NEW i \in 1 .. D
      PROVE  /\ wire[p][i][1] = p /\ Rank(wire[p][i]) \in Nat
             /\ Rank(wire[p][i]) + D = 2 * sent[p] + 2 + i
  BY <1>1, ByteParts DEF OrderInv, Stream
<1> HIDE DEF D
<1>5. Stream'
  <2> SUFFICES ASSUME NEW q \in Producer, NEW i \in DOMAIN wire'[q]
               PROVE  /\ wire'[q][i][1] = q
                      /\ Rank(wire'[q][i]) + Len(wire'[q]) = 2 * sent[q] + 2 + i
    BY DEF Stream, Rank
  <2>1. CASE q # p
    BY <1>1, <2>1 DEF OrderInv, Stream
  <2>2. CASE q = p
    <3>1. i \in 1 .. D - k /\ i + k \in 1 .. D /\ wire'[p][i] = wire[p][i + k]
      BY <1>1, <2>2
    <3> DEFINE x == Rank(wire[p][i + k])   m == Len(wire'[p])   n == sent[p]
    <3>5. x \in Nat /\ x + D = 2 * n + 2 + (i + k)
      BY <1>4, <3>1
    <3>6. m = D - k /\ n \in Nat /\ D \in Nat /\ k \in Nat /\ i \in Nat
      BY <1>1, <1>2, <1>3, <3>1
    <3>3. wire'[p][i][1] = p
      BY <1>4, <3>1
    <3> HIDE DEF x, m, n
    <3>4. x + m = 2 * n + 2 + i
      BY <3>5, <3>6
    <3> QED BY <2>2, <3>1, <3>3, <3>4 DEF x, m, n
  <2> QED BY <2>1, <2>2
<1>6. ASSUME NEW b \in Byte, Left(b) PROVE Left(b)'
  <2>1. b[1] \in Producer /\ Rank(b) \in Nat
    BY ByteParts
  <2>2. CASE b[1] = p
    BY <1>1, <1>2, <1>3, <1>6, <2>1, <2>2 DEF Left, D, Rank
  <2>3. CASE b[1] # p
    BY <1>1, <1>6, <2>1, <2>3 DEF Left, Rank
  <2> QED BY <2>2, <2>3
<1>7. ASSUME NEW i \in 1 .. k, NEW b, b = wire[p][i]
      PROVE  b[1] = p /\ Left(b)' /\ Rank(b) = 2 * sent[p] + 2 - D + i
  <2>1. i \in 1 .. D /\ i \in Nat /\ D \in Nat /\ k \in Nat /\ k <= D /\ i <= k
    BY <1>1
  <2>2. b[1] = p /\ Rank(b) \in Nat /\ Rank(b) + D = 2 * sent[p] + 2 + i
    BY <1>4, <1>7, <2>1
  <2> DEFINE x == Rank(b)   m == Len(wire'[p])   n == sent[p]
  <2>3. x \in Nat /\ x + D = 2 * n + 2 + i /\ m = D - k /\ n \in Nat
    BY <1>2, <1>3, <2>2
  <2> HIDE DEF x, m, n
  <2>4. x + m <= 2 * n + 2 /\ x = 2 * n + 2 - D + i
    BY <2>1, <2>3
  <2>5. Rank(b) + Len(wire'[b[1]]) <= 2 * sent'[b[1]] + 2
    BY <2>2, <2>4 DEF x, m, n
  <2>6. Left(b)'
    BY <2>5 DEF Left, Rank
  <2> QED BY <2>2, <2>4, <2>6 DEF x, n
<1> QED BY <1>5, <1>6, <1>7 DEF D

\* handle_producer: what is received has been sent after all that was before.
LEMMA ReceiveOrdered ==
    ASSUME TypeOK, OrderInv, NEW p \in Producer, ReadNumbers(p)
    PROVE  OrderInv'
<1>1. PICK k \in Cuts(p) \ {0} :
        /\ wire' = [wire EXCEPT ![p] = SubSeq(wire[p], k + 1, Len(wire[p]))]
        /\ receivedData' = [receivedData EXCEPT
                              ![p] = receivedData[p] \o Numbers(SubSeq(wire[p], 1, k))]
  BY DEF ReadNumbers
<1>2. k \in 0 .. Len(wire[p]) /\ UNCHANGED <<sent, queue, msg, got>>
  BY CutsWithin DEF ReadNumbers, consumerVars
<1>3. /\ Stream' /\ \A b \in Byte : Left(b) => Left(b)'
      /\ \A i \in 1 .. k : \A b : b = wire[p][i] =>
           /\ b[1] = p /\ Left(b)'
           /\ Rank(b) = 2 * sent[p] + 2 - Len(wire[p]) + i
  BY <1>1, <1>2, ReadOrdered
<1> DEFINE s == SubSeq(wire[p], 1, k)
           d == receivedData[p]
           r == 2 * sent[p] + 2 - Len(wire[p])
<1>4. s \in Seq(Byte) /\ Len(s) = k /\ \A i \in 1 .. k : s[i] = wire[p][i]
  BY <1>1, <1>2, ReadShifts
<1>5. d \in Seq(Byte \X Byte) /\ sent[p] \in Nat /\ Len(wire[p]) \in Nat /\ r \in Int
  BY DEF TypeOK
<1>6. /\ \A i \in DOMAIN s : s[i][1] = p /\ Rank(s[i]) = r + i
      /\ \A b \in SetOf(s) : b[1] = p /\ Left(b)'
  <2>1. \A i \in DOMAIN s : i \in 1 .. k /\ s[i] = wire[p][i]
    BY <1>4
  <2> HIDE DEF s
  <2>2. \A i \in DOMAIN s : s[i][1] = p /\ Rank(s[i]) = r + i
    BY <1>3, <2>1
  <2>3. ASSUME NEW b \in SetOf(s) PROVE b[1] = p /\ Left(b)'
    <3>1. PICK i \in DOMAIN s : b = s[i]
      BY <2>3 DEF SetOf
    <3> QED BY <1>3, <2>1, <3>1
  <2> QED BY <2>2, <2>3
<1>7. /\ \A q \in Producer : q # p => Data(q)' = Data(q) /\ receivedData'[q] = receivedData[q]
      /\ receivedData'[p] = d \o Numbers(s)
  BY <1>1 DEF Data, HalvesOf, SetOf, TypeOK
<1>8. ASSUME NEW b \in Byte, Left(b), NEW c \in SetOf(s), b[1] = c[1] PROVE Rank(b) < Rank(c)
  <2>1. PICK i \in DOMAIN s : c = s[i]
    BY <1>8 DEF SetOf
  <2>2. c[1] = p /\ Rank(c) = r + i /\ i \in Nat \ {0}
    BY <1>4, <1>6, <2>1
  <2>3. Rank(b) + Len(wire[p]) <= 2 * sent[p] + 2 /\ Rank(b) \in Nat
    BY <1>8, <2>2, ByteParts DEF Left
  <2> DEFINE m == Len(wire[p])   n == sent[p]   x == Rank(b)   y == Rank(c)
  <2>4. m \in Nat /\ n \in Nat /\ x \in Nat /\ x + m <= 2 * n + 2 /\ y = 2 * n + 2 - m + i
    BY <1>5, <2>2, <2>3
  <2> HIDE DEF m, n, x, y
  <2>5. x < y
    BY <2>2, <2>4
  <2> QED BY <2>5 DEF x, y
<1> HIDE DEF s, d, r
<1>9. \A S \in SUBSET Byte : (\A b \in S : Left(b)) => Precede(S, SetOf(s))
  BY <1>8 DEF Precede
<1>10. /\ Precede(Data(p), SetOf(s)) /\ Precede(HalvesOf(queue), SetOf(s))
       /\ \A c \in Consumer : Precede(Taken(c), SetOf(s))
  BY <1>9, Typed DEF OrderInv, LeftTheSocket
<1>11. Rising(receivedData'[p]) /\ Data(p)' \subseteq Data(p) \cup SetOf(s)
  <2>1. Rising(d) /\ Precede(HalvesOf(d), SetOf(s))
    BY <1>10 DEF OrderInv, Ordered, d, Data
  <2>2. Rising(d \o Numbers(s)) /\ HalvesOf(d \o Numbers(s)) \subseteq HalvesOf(d) \cup SetOf(s)
    BY <1>4, <1>5, <1>6, <2>1, RisingNumbers
  <2>3. Data(p)' = HalvesOf(receivedData'[p])
    BY DEF Data, HalvesOf, SetOf
  <2> QED BY <1>7, <2>2, <2>3 DEF Data, d
<1>12. UNCHANGED <<HalvesOf(queue)>> /\ \A c : Taken(c)' = Taken(c)
  BY <1>2 DEF Taken, HalvesOf, SetOf
<1>13. LeftTheSocket'
  <2>1. \A q \in Producer : \A b \in Data(q)' : b[1] = q /\ Left(b)'
    <3>2. ASSUME NEW q \in Producer, NEW b \in Data(q) PROVE b[1] = q /\ Left(b)'
      BY <1>3, <3>2, Typed DEF OrderInv, LeftTheSocket
    <3> QED BY <1>6, <1>7, <1>11, <3>2
  <2>2. \A b \in HalvesOf(queue) : Left(b)'
    BY <1>3, Typed DEF OrderInv, LeftTheSocket
  <2>3. \A c \in Consumer : \A b \in Taken(c) : Left(b)'
    BY <1>3, Typed DEF OrderInv, LeftTheSocket
  <2> QED BY <1>12, <2>1, <2>2, <2>3 DEF LeftTheSocket
<1>14. Ordered'
  <2>1. \A q \in Producer : Rising(receivedData'[q])
    BY <1>7, <1>11 DEF OrderInv, Ordered
  <2>2. ASSUME NEW q \in Producer
        PROVE  /\ Precede(HalvesOf(queue), Data(q)')
               /\ \A c \in Consumer : Precede(Taken(c), Data(q)')
    <3>1. CASE q # p
      BY <1>7, <3>1 DEF OrderInv, Ordered
    <3>2. CASE q = p
      <4>1. Precede(HalvesOf(queue), Data(p) \cup SetOf(s))
        BY <1>10, PrecedeBoth DEF OrderInv, Ordered
      <4>2. \A c \in Consumer : Precede(Taken(c), Data(p) \cup SetOf(s))
        BY <1>10, PrecedeBoth DEF OrderInv, Ordered
      <4> QED BY <1>11, <3>2, <4>1, <4>2, PrecedeLess
    <3> QED BY <3>1, <3>2
  <2>3. Rising(queue) /\ \A c \in Consumer : Precede(Taken(c), HalvesOf(queue))
    BY DEF OrderInv, Ordered
  <2> QED BY <1>2, <1>12, <2>1, <2>2, <2>3 DEF Ordered, Rising, Neighbours, Precede, Rank, SetOf, Junk
<1> QED BY <1>3, <1>13, <1>14 DEF OrderInv

\* push() of a producer's first number: it was sent after all that is queued of
\* its producer, and before all that waits.
LEMMA PushOrdered ==
    ASSUME TypeOK, OrderInv, NEW p \in Producer, receivedData[p] # <<>>,
           Push(Head(receivedData[p])),
           receivedData' = [receivedData EXCEPT ![p] = Tail(receivedData[p])],
           UNCHANGED <<wire, sent, msg, got>>
    PROVE  OrderInv'
<1> DEFINE d == receivedData[p]
           n == Head(d)
           Q == HalvesOf(queue)
<1>1. d \in Seq(Int4) /\ d # <<>> /\ n \in Int4 /\ queue \in Seq(Int4) /\ queue' = Append(queue, n)
  <2>1. d \in Seq(Int4)
    BY DataAreInts DEF TypeOK
  <2> QED BY <2>1 DEF TypeOK, Push
<1>2. /\ \A q \in Producer : q # p => Data(q)' = Data(q) /\ receivedData'[q] = receivedData[q]
      /\ receivedData'[p] = Tail(d) /\ Data(p)' = HalvesOf(Tail(d))
  BY ZenonT(40) DEF Data, HalvesOf, SetOf, TypeOK
<1>3. \A c : Taken(c)' = Taken(c)
  BY DEF Taken, HalvesOf, SetOf
<1>4. HalvesOf(queue)' = HalvesOf(Append(queue, n))
  BY <1>1 DEF HalvesOf, SetOf
<1> HIDE DEF d, n
<1>5. Data(p) = SetOf(n) \cup HalvesOf(Tail(d)) /\ Rising(d)
  <2>1. Rising(d)
    BY DEF OrderInv, Ordered, d
  <2> QED BY <1>1, <2>1, RisingTail DEF Data, d, n
<1>6. Rising(Tail(d)) /\ Neighbours(n) /\ Precede(SetOf(n), HalvesOf(Tail(d)))
  BY <1>1, <1>5, RisingTail DEF n
<1>7. /\ Precede(Q, Data(p)) /\ Rising(queue)
      /\ \A c \in Consumer : Precede(Taken(c), Q) /\ Precede(Taken(c), Data(p))
  BY DEF OrderInv, Ordered
<1>8. /\ Precede(Q, SetOf(n)) /\ Precede(Q, HalvesOf(Tail(d)))
      /\ \A c \in Consumer : /\ Precede(Taken(c), SetOf(n))
                             /\ Precede(Taken(c), HalvesOf(Tail(d)))
  BY <1>5, <1>7, PrecedeLess
<1>9. HalvesOf(Append(queue, n)) = Q \cup SetOf(n) /\ Rising(Append(queue, n))
  BY <1>1, <1>6, <1>7, <1>8, RisingAppend
<1>10. \A b \in Data(p) : b[1] = p /\ Left(b)
  BY DEF OrderInv, LeftTheSocket
<1> HIDE DEF Q
<1>11. Stream'
  BY DEF OrderInv, Stream, Rank
<1>12. LeftTheSocket'
  <2>1. \A b : Left(b)' = Left(b)
    BY DEF Left, Rank
  <2>2. \A q \in Producer : \A b \in Data(q)' : b[1] = q /\ Left(b)
    BY <1>2, <1>5, <1>10 DEF OrderInv, LeftTheSocket
  <2>3. \A b \in HalvesOf(queue)' : Left(b)
    BY <1>4, <1>5, <1>9, <1>10 DEF OrderInv, LeftTheSocket, Q
  <2>4. \A c \in Consumer : \A b \in Taken(c) : Left(b)
    BY DEF OrderInv, LeftTheSocket
  <2> QED BY <1>3, <2>1, <2>2, <2>3, <2>4 DEF LeftTheSocket
<1>13. Ordered'
  <2>1. ASSUME NEW q \in Producer, q # p PROVE Precede(Q \cup SetOf(n), Data(q))
    <3>1. Precede(SetOf(n), Data(q))
      <4>1. \A b \in Data(q) : b[1] = q
        BY DEF OrderInv, LeftTheSocket
      <4> QED BY <1>5, <1>10, <2>1, <4>1 DEF Precede
    <3>2. Precede(Q, Data(q))
      BY DEF OrderInv, Ordered, Q
    <3> QED BY <3>1, <3>2, PrecedeBoth
  <2>2. Precede(Q \cup SetOf(n), HalvesOf(Tail(d)))
    BY <1>6, <1>8, PrecedeBoth
  <2>3. \A c \in Consumer : Precede(Taken(c), Q \cup SetOf(n))
    BY <1>7, <1>8, PrecedeBoth
  <2>4. \A q \in Producer : q # p => Rising(receivedData[q])
                                      /\ \A c \in Consumer : Precede(Taken(c), Data(q))
    BY DEF OrderInv, Ordered
  <2>5. Rising(queue') /\ HalvesOf(queue)' = Q \cup SetOf(n)
    BY <1>1, <1>4, <1>9
  <2>6. \A q \in Producer : Rising(receivedData'[q]) /\ Precede(HalvesOf(queue)', Data(q)')
    BY <1>2, <1>6, <2>1, <2>2, <2>4, <2>5
  <2>7. \A c \in Consumer : /\ Precede(Taken(c)', HalvesOf(queue)')
                            /\ \A q \in Producer : Precede(Taken(c)', Data(q)')
    BY <1>2, <1>3, <1>8, <2>3, <2>4, <2>5
  <2> QED BY <2>5, <2>6, <2>7 DEF Ordered, Rising, Neighbours, Precede, Rank, SetOf, Junk
<1> QED BY <1>11, <1>12, <1>13 DEF OrderInv

\* A foreign int has no half of anybody.
LEMMA JunkOrdered ==
    ASSUME TypeOK, OrderInv, Push(Junk), UNCHANGED <<wire, sent, receivedData, msg, got>>
    PROVE  OrderInv'
<1>1. queue \in Seq(Int4) /\ Junk \in Int4 /\ queue' = Append(queue, Junk)
  BY DEF Push, TypeOK, Int4
<1>2. SetOf(Junk) = {} /\ Neighbours(Junk) /\ Precede(HalvesOf(queue), SetOf(Junk))
  BY DEF SetOf, Junk, Neighbours, Precede
<1>3. Rising(queue') /\ HalvesOf(queue') = HalvesOf(queue)
  BY <1>1, <1>2, RisingAppend DEF OrderInv, Ordered
<1>4. HalvesOf(queue)' = HalvesOf(queue) /\ \A q : Data(q)' = Data(q)
  BY <1>3 DEF Data, HalvesOf, SetOf
<1>5. \A c : Taken(c)' = Taken(c)
  BY DEF Taken, HalvesOf, SetOf
<1>6. \A b : Left(b)' = Left(b)
  BY DEF Left, Rank
<1>7. Stream'
  BY DEF OrderInv, Stream, Rank
<1>8. LeftTheSocket'
  BY <1>4, <1>5, <1>6 DEF OrderInv, LeftTheSocket
<1>9. Ordered'
  BY <1>3, <1>4, <1>5 DEF OrderInv, Ordered, Rising, Neighbours, Precede, Rank, SetOf, Junk
<1> QED BY <1>7, <1>8, <1>9 DEF OrderInv

\* pop(): what a client is about to get was sent before what is still queued.
LEMMA PopOrdered ==
    ASSUME TypeOK, OrderInv, NEW c \in Consumer, Pop(c)
    PROVE  OrderInv'
<1> DEFINE n == Head(queue)
           t == Tail(queue)
<1>1. queue \in Seq(Int4) /\ queue # <<>> /\ queue' = t
      /\ UNCHANGED <<wire, sent, receivedData, got>>
  BY DEF Pop, TypeOK, producerVars
<1>2. /\ HalvesOf(queue) = SetOf(n) \cup HalvesOf(t)
      /\ Rising(t) /\ Precede(SetOf(n), HalvesOf(t))
  BY <1>1, RisingTail DEF OrderInv, Ordered
<1>3. \A d \in Consumer : Taken(d)' \subseteq Taken(d) \cup (IF d = c THEN SetOf(n) ELSE {})
  <2>1. \A d \in Consumer : msg'[d] = IF d = c THEN <<n>> ELSE msg[d]
    BY DEF Pop, TypeOK
  <2>2. HalvesOf(<<n>>) = SetOf(n)
    <3>1. DOMAIN <<n>> = {1} /\ <<n>>[1] = n
      OBVIOUS
    <3>2. ASSUME NEW b PROVE b \in HalvesOf(<<n>>) <=> b \in SetOf(n)
      BY <3>1, HalvesAre
    <3>3. \A b : b \in HalvesOf(<<n>>) <=> b \in SetOf(n)
      BY <3>2
    <3> HIDE DEF n
    <3> QED BY <3>3
  <2>3. \A d \in Consumer : Taken(d)' = got[d] \cup HalvesOf(msg'[d])
    BY <1>1 DEF Taken, HalvesOf, SetOf
  <2> QED BY <2>1, <2>2, <2>3 DEF Taken
<1>4. HalvesOf(queue)' = HalvesOf(t) /\ \A q : Data(q)' = Data(q)
  BY <1>1 DEF Data, HalvesOf, SetOf
<1>5. \A b : Left(b)' = Left(b)
  BY <1>1 DEF Left, Rank
<1> HIDE DEF n, t
<1>6. Stream'
  BY <1>1 DEF OrderInv, Stream, Rank
<1>7. LeftTheSocket'
  BY <1>2, <1>3, <1>4, <1>5 DEF OrderInv, LeftTheSocket
<1>8. Ordered'
  <2>1. \A q \in Producer : /\ Rising(receivedData[q]) /\ Precede(HalvesOf(queue), Data(q))
                            /\ \A d \in Consumer : Precede(Taken(d), Data(q))
    BY DEF OrderInv, Ordered
  <2>2. \A q \in Producer : /\ Precede(SetOf(n), Data(q)) /\ Precede(HalvesOf(t), Data(q))
    BY <1>2, <2>1, PrecedeLess
  <2>3. \A d \in Consumer : Precede(Taken(d), HalvesOf(t))
    BY <1>2, PrecedeLess DEF OrderInv, Ordered
  <2>4. ASSUME NEW d \in Consumer
        PROVE  /\ Precede(Taken(d)', HalvesOf(t))
               /\ \A q \in Producer : Precede(Taken(d)', Data(q))
    <3>1. Taken(d)' \subseteq Taken(d) \cup SetOf(n)
      BY <1>3
    <3>2. Precede(Taken(d) \cup SetOf(n), HalvesOf(t))
      BY <1>2, <2>3, PrecedeBoth
    <3>3. \A q \in Producer : Precede(Taken(d) \cup SetOf(n), Data(q))
      BY <2>1, <2>2, PrecedeBoth
    <3> QED BY <3>1, <3>2, <3>3, PrecedeLess
  <2>5. \A q \in Producer : Rising(receivedData'[q]) /\ Precede(HalvesOf(queue)', Data(q)')
    BY <1>1, <1>4, <2>1, <2>2
  <2>6. \A d \in Consumer : /\ Precede(Taken(d)', HalvesOf(queue)')
                            /\ \A q \in Producer : Precede(Taken(d)', Data(q)')
    BY <1>4, <2>4
  <2>7. Rising(queue')
    BY <1>1, <1>2
  <2> QED BY <2>5, <2>6, <2>7 DEF Ordered, Rising, Neighbours, Precede, Rank, SetOf, Junk
<1> QED BY <1>6, <1>7, <1>8 DEF OrderInv

\* send(): the number is handed over, or lost.
LEMMA HandOrdered ==
    ASSUME TypeOK, OrderInv, UNCHANGED <<wire, sent, receivedData, queue>>,
           \A c \in Consumer : Taken(c)' \subseteq Taken(c)
    PROVE  OrderInv'
<1>1. HalvesOf(queue)' = HalvesOf(queue) /\ \A q : Data(q)' = Data(q)
  BY DEF Data, HalvesOf, SetOf
<1>2. \A b : Left(b)' = Left(b)
  BY DEF Left, Rank
<1>3. Stream'
  BY DEF OrderInv, Stream, Rank
<1>4. LeftTheSocket'
  BY <1>1, <1>2 DEF OrderInv, LeftTheSocket
<1>5. Ordered'
  <2>1. \A c \in Consumer : /\ Precede(Taken(c)', HalvesOf(queue)')
                            /\ \A q \in Producer : Precede(Taken(c)', Data(q)')
    BY <1>1, PrecedeLess DEF OrderInv, Ordered
  <2>2. \A q \in Producer : Rising(receivedData[q]) /\ Precede(HalvesOf(queue), Data(q))
    BY DEF OrderInv, Ordered
  <2>3. Rising(queue)
    BY DEF OrderInv, Ordered
  <2> QED BY <1>1, <2>1, <2>2, <2>3 DEF Ordered, Rising, Neighbours, Precede, Rank, SetOf, Junk
<1> QED BY <1>3, <1>4, <1>5 DEF OrderInv

LEMMA OrderStep == TypeOK /\ OrderInv /\ [Next]_vars => OrderInv'
<1> SUFFICES ASSUME TypeOK, OrderInv, [Next]_vars PROVE OrderInv'
  OBVIOUS
<1>1. ASSUME UNCHANGED <<wire, sent, receivedData, queue, msg, got>> PROVE OrderInv'
  <2>1. \A c \in Consumer : Taken(c)' \subseteq Taken(c)
    BY <1>1 DEF Taken, HalvesOf, SetOf
  <2> QED BY <1>1, <2>1, HandOrdered
<1>2. ASSUME NEW p \in Producer, ReadProducerRole(p) PROVE OrderInv'
  <2>1. PICK k \in Cuts(p) : wire' = [wire EXCEPT ![p] = SubSeq(wire[p], k + 1, Len(wire[p]))]
    BY <1>2 DEF ReadProducerRole
  <2>2. UNCHANGED <<sent, receivedData, queue, msg, got>>
    BY <1>2 DEF ReadProducerRole, consumerVars
  <2>3. Stream' /\ \A b \in Byte : Left(b) => Left(b)'
    BY <2>1, <2>2, CutsWithin, ReadOrdered
  <2> QED BY <2>2, <2>3, LeftKept DEF OrderInv
<1>3. ASSUME NEW p \in Producer, PushBatch(p) \/ PushBeyond(p) \/ PushRest(p) PROVE OrderInv'
  BY <1>1, <1>3, PushOrdered, JunkOrdered DEF PushBatch, Unpushed, PushBeyond, PushRest
<1>4. ASSUME NEW p \in Producer, ConnectProducer(p) \/ Crash(p) PROVE OrderInv'
  BY <1>1, <1>4 DEF ConnectProducer, Crash, consumerVars, producerVars
<1>5. ASSUME NEW c \in Consumer, Send(c) \/ SendFails(c) PROVE OrderInv'
  <2>1. UNCHANGED <<wire, sent, receivedData, queue>>
        /\ \A d \in Consumer : /\ msg'[d] = IF d = c THEN <<>> ELSE msg[d]
                               /\ got'[d] \subseteq IF d = c THEN got[d] \cup HalvesOf(msg[d]) ELSE got[d]
    BY <1>5 DEF Send, SendFails, producerVars, TypeOK
  <2>2. HalvesOf(<<>>) = {}
    BY DEF HalvesOf, SetOf
  <2>3. \A d \in Consumer : Taken(d)' = got'[d] \cup HalvesOf(msg'[d])
    BY DEF Taken, HalvesOf, SetOf
  <2>4. \A d \in Consumer : Taken(d)' \subseteq Taken(d)
    BY <2>1, <2>2, <2>3 DEF Taken
  <2> QED BY <2>1, <2>4, HandOrdered
<1>6. ASSUME NEW c \in Consumer,
             \/ ConnectConsumer(c) \/ ReadConsumerRole(c) \/ Sleep(c) \/ BrokenPipe(c)
             \/ ConsumerDies(c)
      PROVE OrderInv'
  BY <1>1, <1>6 DEF ConnectConsumer, ReadConsumerRole, Sleep, BrokenPipe, ConsumerDies, producerVars,
                    consumerVars
<1>7. CASE UNCHANGED vars
  BY <1>1, <1>7 DEF vars
<1> QED BY <1>2, <1>3, <1>4, <1>5, <1>6, <1>7, SendOrdered, ReceiveOrdered, PopOrdered
        DEF Next, ProducerHandler, ConsumerHandler

LEMMA OrderAtInit == Init => OrderInv
<1> SUFFICES ASSUME Init PROVE OrderInv
  OBVIOUS
<1>1. queue = <<>> /\ (\A p \in Producer : wire[p] = <<>> /\ receivedData[p] = <<>>)
      /\ \A c \in Consumer : msg[c] = <<>> /\ got[c] = {}
  BY DEF Init
<1>2. HalvesOf(<<>>) = {} /\ Rising(<<>>)
  BY DEF HalvesOf, SetOf, Rising
<1>3. /\ HalvesOf(queue) = {} /\ (\A p \in Producer : Data(p) = {})
      /\ \A c \in Consumer : Taken(c) = {}
  BY <1>1, <1>2 DEF Data, Taken
<1>4. Stream
  BY <1>1 DEF Stream
<1> QED BY <1>1, <1>2, <1>3, <1>4 DEF OrderInv, LeftTheSocket, Ordered, Precede

\* InSendOrder: however the reads cut a stream, whatever other producers push in
\* between and whichever clients pop, what one producer sent passes in order.
THEOREM StreamsInOrder == Spec => []InSendOrder
<1>1. TypeOK /\ OrderInv => InSendOrder
  <2> SUFFICES ASSUME TypeOK, OrderInv PROVE InSendOrder
    OBVIOUS
  <2>1. ASSUME NEW p \in Producer, NEW S \in SUBSET Byte, \A b \in S : Left(b)
        PROVE  Precede(S, SetOf(wire[p]))
    <3> SUFFICES ASSUME NEW b \in S, NEW i \in DOMAIN wire[p], b[1] = wire[p][i][1]
                 PROVE  Rank(b) < Rank(wire[p][i])
      BY DEF Precede, SetOf
    <3> DEFINE m == Len(wire[p])   n == sent[p]   x == Rank(b)   y == Rank(wire[p][i])
    <3>1. wire[p] \in Seq(Byte) /\ m \in Nat /\ n \in Nat /\ i \in 1 .. m
      BY DEF TypeOK
    <3>2. b[1] = p /\ y + m = 2 * n + 2 + i
      BY DEF OrderInv, Stream
    <3>3. x \in Nat /\ x + m <= 2 * n + 2
      BY <2>1, <3>2, ByteParts DEF Left
    <3>4. y \in Nat
      BY <3>1, ByteParts
    <3> HIDE DEF m, n, x, y
    <3>5. x < y
      BY <3>1, <3>2, <3>3, <3>4
    <3> QED BY <3>5 DEF x, y
  <2>2. ASSUME NEW p \in Producer
        PROVE  /\ Precede(Data(p), SetOf(wire[p])) /\ Precede(HalvesOf(queue), SetOf(wire[p]))
               /\ \A c \in Consumer : Precede(Taken(c), SetOf(wire[p]))
    BY <2>1, Typed DEF OrderInv, LeftTheSocket
  <2>3. Ordered
    BY DEF OrderInv
  <2>4. ASSUME NEW p \in Producer
        PROVE  Precede(HalvesOf(queue), Data(p) \cup SetOf(wire[p]))
    BY <2>2, <2>3, PrecedeBoth DEF Ordered
  <2>5. ASSUME NEW c \in Consumer, NEW p \in Producer
        PROVE  Precede(Taken(c), HalvesOf(queue) \cup Data(p) \cup SetOf(wire[p]))
    <3>1. Precede(Taken(c), HalvesOf(queue) \cup Data(p))
      BY <2>3, PrecedeBoth DEF Ordered
    <3> QED BY <2>2, <3>1, PrecedeBoth
  <2> QED BY <2>2, <2>3, <2>4, <2>5 DEF InSendOrder, Ordered, Data, Taken
<1>2. QInv => TypeOK
  BY DEF QInv
<1> QED BY <1>1, <1>2, Invariant, OrderAtInit, OrderStep, PTL DEF Spec

=============================================================================
