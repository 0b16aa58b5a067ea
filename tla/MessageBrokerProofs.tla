------------------------ MODULE MessageBrokerProofs -------------------------
(***************************************************************************)
(* Proofs about MessageBroker, for any producers, texts, sizes of reads    *)
(* and consumers: its types, that what the messages carry keeps the order  *)
(* of its stream and that only separators and ids of it are ever missing,  *)
(* and that it implements Multicast.                                       *)
(***************************************************************************)
EXTENDS MessageBroker, SequenceTheorems, WellFoundedInduction, TLAPS

-----------------------------------------------------------------------------
(* What Message::deserialize makes of a text.                              *)

LEMMA Least ==
    ASSUME NEW S, S \subseteq Nat, S # {}
    PROVE  \E x \in S : \A y \in S : x <= y
<1> DEFINE R == OpToRel(<, Nat)
<1>1. IsWellFoundedOn(R, Nat)
  BY NatLessThanWellFounded
<1>2. \A x, y \in Nat : x < y => <<x, y>> \in R
  BY DEF OpToRel
<1> HIDE DEF R
<1>3. PICK x \in S : \A y \in S : ~ (<<y, x>> \in R)
  BY <1>1, WFMin
<1>4. ASSUME NEW y \in S PROVE x <= y
  <2>1. x \in Nat /\ y \in Nat /\ ~ (y < x)
    BY <1>2, <1>3, Zenon
  <2> QED
    BY <2>1
<1> QED
  BY <1>4

LEMMA TextIs ==
    ASSUME NEW p \in Producer
    PROVE  Len(Text[p]) \in Nat /\ \A i \in Positions(p) : i \in Nat \ {0} /\ Text[p][i] \in Kind
<1>1. Text[p] \in Seq(Kind)
  BY BrokerAssumption
<1> QED
  BY <1>1, LenProperties, ElementOfSeq DEF Positions

\* find returns npos, or the next separator.
LEMMA SeparatorIs ==
    ASSUME NEW p \in Producer, NEW data \in SUBSET Positions(p), NEW d \in Nat
    PROVE  \E s \in Nat :
             /\ s = Separator(p, data, d)
             /\ \/ s = 0 /\ \A i \in data : i > d => ~IsBar(p, i)
                \/ /\ s \in data /\ s > d /\ IsBar(p, s)
                   /\ \A i \in data : d < i /\ i < s => ~IsBar(p, i)
<1> DEFINE s == Separator(p, data, d)
<1> DEFINE bars == {i \in data : i > d /\ IsBar(p, i)}
<1>1. CASE bars = {}
  BY <1>1 DEF Separator, npos
<1>2. CASE bars # {}
  <2>1. bars \subseteq Nat
    BY TextIs
  <2>2. \E i \in bars : \A j \in bars : i <= j
    <3> HIDE DEF bars
    <3> QED
      BY <1>2, <2>1, Least
  <2>3. s = CHOOSE i \in bars : \A j \in bars : i <= j
    BY <1>2 DEF Separator
  <2>4. s \in bars /\ \A j \in bars : s <= j
    <3> HIDE DEF bars, s
    <3> QED
      BY <2>2, <2>3
  <2>5. s \in Nat
    <3> HIDE DEF s
    <3> QED
      BY <2>4, TextIs
  <2> HIDE DEF s
  <2>6. ASSUME NEW i \in data, d < i, i < s PROVE ~IsBar(p, i)
    <3>1. i \in Nat
      BY TextIs
    <3>2. i \notin bars
      BY <2>4, <2>5, <2>6, <3>1
    <3> QED
      BY <2>6, <3>1, <3>2
  <2> QED
    BY <2>4, <2>5, <2>6 DEF s
<1> QED
  BY <1>1, <1>2

\* A message is made of the text it was read from.
LEMMA PartsOf ==
    ASSUME NEW p, NEW data
    PROVE  LET m == Deserialize(p, data)
           IN  /\ m.of = p /\ Characters(m) \subseteq data
               /\ m.id \subseteq data /\ m.timestamp \subseteq data
               /\ m.tag \subseteq data /\ m.body \subseteq data
BY DEF Deserialize, Between, Number, Characters

\* stoi and stol throw or take all the digits that stand before a separator, but
\* for an id that follows a newline.
LEMMA NumberTakesAll ==
    ASSUME NEW p \in Producer, NEW data \in SUBSET Positions(p),
           \A i, j \in data : \A h \in i .. j : h \in data,
           \A i \in data : ~IsBar(p, i),
           Number(p, data) # {}, NEW x \in data, Text[p][x] \in {"timestamp", "tag", "body"}
    PROVE  x \in Number(p, data)
<1>1. \A j \in data : j \in Positions(p) /\ j \in Nat /\ Text[p][j] \in Kind
  BY TextIs
<1>2. PICK i \in Number(p, data) : TRUE
  OBVIOUS
<1>3. /\ i \in data /\ IsDigit(p, i)
      /\ \A j \in data : j < i => IsDigit(p, j) \/ \A h \in data : h <= j => IsNewline(p, h)
  BY <1>2 DEF Number
<1>4. ASSUME NEW j \in data, NEW k \in data, j < k
      PROVE  /\ IsNewline(p, j) => Text[p][k] = "id"
             /\ Text[p][k] = "tag" => Text[p][j] = "tag"
  <2>1. \A h \in j .. k : ~IsBar(p, h)
    OBVIOUS
  <2> QED
    BY <1>1, <1>4, <2>1, FormatAssumption
<1>5. ASSUME NEW j \in data, Text[p][j] = "tag" PROVE FALSE
  <2>1. ~IsDigit(p, j) /\ ~IsNewline(p, j)
    BY <1>5 DEF IsDigit, IsNewline
  <2>2. i # j
    BY <1>3, <2>1
  <2>3. CASE i < j
    <3>1. Text[p][i] = "tag"
      BY <1>3, <1>4, <1>5, <2>3
    <3> QED
      BY <1>3, <3>1 DEF IsDigit
  <2>4. CASE j < i
    <3>1. \A h \in data : h <= j => IsNewline(p, h)
      BY <1>3, <2>1, <2>4
    <3>2. j <= j
      BY <1>1
    <3> QED
      BY <2>1, <3>1, <3>2
  <2> QED
    BY <1>1, <1>3, <2>2, <2>3, <2>4
<1>6. IsDigit(p, x)
  BY <1>5 DEF IsDigit
<1>7. ASSUME NEW j \in data, j < x PROVE IsDigit(p, j)
  <2>1. Text[p][j] # "newline"
    BY <1>4, <1>7 DEF IsNewline
  <2>2. Text[p][j] # "tag"
    BY <1>5
  <2>3. Text[p][j] # "bar"
    BY DEF IsBar
  <2> QED
    BY <1>1, <2>1, <2>2, <2>3 DEF Kind, IsDigit
<1> QED
  BY <1>6, <1>7 DEF Number

\* deserialize throws, or leaves out nothing but separators and ids.
LEMMA OnlyIdsMissing ==
    ASSUME NEW p \in Producer, NEW a \in Positions(p), NEW b \in Positions(p),
           ~Throws(Deserialize(p, a .. b)), NEW x \in a .. b,
           Text[p][x] \in {"timestamp", "tag", "body"}
    PROVE  x \in Characters(Deserialize(p, a .. b))
<1>1. PICK data \in SUBSET Positions(p) : data = a .. b
  BY TextIs DEF Positions
<1>2. /\ \A i \in data : i \in Positions(p) /\ i \in Nat /\ i > 0
      /\ \A i, j \in data : \A h \in i .. j : h \in data
      /\ x \in data /\ x \in Nat /\ x > 0
  BY <1>1, TextIs DEF Positions
<1>3. PICK d1 \in Nat :
        /\ d1 = Separator(p, data, 0)
        /\ \/ d1 = 0 /\ \A i \in data : i > 0 => ~IsBar(p, i)
           \/ d1 \in data /\ d1 > 0 /\ IsBar(p, d1) /\ \A i \in data : 0 < i /\ i < d1 => ~IsBar(p, i)
  BY SeparatorIs
<1>4. PICK d2 \in Nat :
        /\ d2 = Separator(p, data, d1)
        /\ \/ d2 = 0 /\ \A i \in data : i > d1 => ~IsBar(p, i)
           \/ d2 \in data /\ d2 > d1 /\ IsBar(p, d2) /\ \A i \in data : d1 < i /\ i < d2 => ~IsBar(p, i)
  BY SeparatorIs
<1>5. PICK d3 \in Nat :
        /\ d3 = Separator(p, data, d2)
        /\ \/ d3 = 0 /\ \A i \in data : i > d2 => ~IsBar(p, i)
           \/ d3 \in data /\ d3 > d2 /\ IsBar(p, d3) /\ \A i \in data : d2 < i /\ i < d3 => ~IsBar(p, i)
  BY SeparatorIs
<1>6. PICK m : m = Deserialize(p, data)
  OBVIOUS
<1>7. /\ m.id = Number(p, Between(data, 0, d1))
      /\ m.timestamp = Number(p, Between(data, d1, d2))
      /\ m.tag = Between(data, d2, d3) /\ m.body = Between(data, d3, 0)
      /\ m.id # {} /\ m.timestamp # {}
  BY <1>1, <1>3, <1>4, <1>5, <1>6 DEF Deserialize, Throws, npos
<1>8. \/ x \in Number(p, Between(data, 0, d1)) \/ x \in Number(p, Between(data, d1, d2))
      \/ x \in Between(data, d2, d3) \/ x \in Between(data, d3, 0)
      => x \in Characters(m)
  BY <1>7 DEF Characters
<1>9. ~IsBar(p, x)
  BY DEF IsBar
<1> SUFFICES x \in Characters(m)
  BY <1>1, <1>6
<1>10. d1 = 0 => d2 = 0
  BY <1>3, <1>4
<1>11. d2 = 0 => d3 = d1
  BY <1>3, <1>5
<1>12. CASE d3 = 0
  <2>1. x \in Between(data, d3, 0)
    BY <1>2, <1>12 DEF Between, npos
  <2> QED
    BY <1>8, <2>1, Zenon
<1>13. CASE d3 # 0 /\ d2 = 0
  <2>1. d3 = d1 /\ d1 # 0 /\ IsBar(p, d1)
    BY <1>3, <1>11, <1>13
  <2>2. x < d1 \/ x > d1
    <3>1. x # d1
      BY <1>9, <2>1
    <3> QED
      BY <3>1
  <2>3. x \in Between(data, d2, d3) \/ x \in Between(data, d3, 0)
    BY <1>2, <1>13, <2>1, <2>2 DEF Between, npos
  <2> QED
    BY <1>8, <2>3, Zenon
<1>14. CASE d3 # 0 /\ d2 # 0
  <2>1. /\ d1 \in data /\ d2 \in data /\ d3 \in data /\ d1 < d2 /\ d2 < d3
        /\ x # d1 /\ x # d2 /\ x # d3
        /\ \A i \in data : i < d1 => ~IsBar(p, i)
        /\ \A i \in data : d1 < i /\ i < d2 => ~IsBar(p, i)
    BY <1>2, <1>3, <1>4, <1>5, <1>9, <1>10, <1>14
  <2>2. CASE x < d1
    <3> DEFINE part == Between(data, 0, d1)
    <3>1. part \subseteq data /\ \A i \in data : i \in part <=> i < d1
      <4>1. part = {i \in data : i > 0 /\ (d1 = 0 \/ i < d1)}
        BY Zenon DEF Between, npos
      <4>2. d1 # 0 /\ \A i \in data : i > 0
        BY <1>2, <2>1
      <4> HIDE DEF part
      <4> QED
        BY <4>1, <4>2, Zenon
    <3> HIDE DEF part
    <3>2. part \in SUBSET Positions(p) /\ x \in part /\ \A i \in part : ~IsBar(p, i)
      BY <1>2, <2>1, <2>2, <3>1
    <3>3. ASSUME NEW i \in part, NEW j \in part, NEW h \in i .. j PROVE h \in part
      BY <1>2, <3>1
    <3>4. x \in Number(p, part)
      BY <1>7, <3>2, <3>3, NumberTakesAll DEF part
    <3> QED
      BY <1>8, <3>4, Zenon DEF part
  <2>3. CASE d1 < x /\ x < d2
    <3> DEFINE part == Between(data, d1, d2)
    <3>1. part \subseteq data /\ \A i \in data : i \in part <=> d1 < i /\ i < d2
      <4>1. part = {i \in data : i > d1 /\ (d2 = 0 \/ i < d2)}
        BY Zenon DEF Between, npos
      <4>2. \A i \in data : i > d1 <=> d1 < i
        BY <1>2, <2>1
      <4> HIDE DEF part
      <4> QED
        BY <1>14, <4>1, <4>2, Zenon
    <3> HIDE DEF part
    <3>2. part \in SUBSET Positions(p) /\ x \in part /\ \A i \in part : ~IsBar(p, i)
      BY <1>2, <2>1, <2>3, <3>1
    <3>3. ASSUME NEW i \in part, NEW j \in part, NEW h \in i .. j PROVE h \in part
      BY <1>2, <3>1
    <3>4. x \in Number(p, part)
      BY <1>7, <3>2, <3>3, NumberTakesAll DEF part
    <3> QED
      BY <1>8, <3>4, Zenon DEF part
  <2>4. CASE d2 < x /\ x < d3
    <3>1. x \in Between(data, d2, d3)
      BY <1>2, <1>14, <2>1, <2>4 DEF Between, npos
    <3> QED
      BY <1>8, <3>1, Zenon
  <2>5. CASE d3 < x
    <3>1. x \in Between(data, d3, 0)
      BY <1>2, <1>14, <2>1, <2>5 DEF Between, npos
    <3> QED
      BY <1>8, <3>1, Zenon
  <2>6. x < d1 \/ (d1 < x /\ x < d2) \/ (d2 < x /\ x < d3) \/ d3 < x
    BY <1>2, <2>1
  <2> QED
    BY <2>2, <2>3, <2>4, <2>5, <2>6
<1> QED
  BY <1>12, <1>13, <1>14

LEMMA MessageIs ==
    ASSUME NEW m \in Message
    PROVE  m.of \in Producer /\ m.id # {} /\ m.id \subseteq Characters(m) /\ m # <<>>
<1>1. PICK p \in Producer : \E a, b \in Positions(p) : m = Parsed[p][a][b] /\ ~Throws(m)
  BY DEF Message
<1>2. PICK a \in Positions(p), b \in Positions(p) : m = Parsed[p][a][b]
  BY <1>1
<1>3. m = Deserialize(p, a .. b)
  BY <1>2 DEF Parsed
<1>4. m.of = p
  BY <1>3, PartsOf
<1>5. m.id # {}
  BY <1>1 DEF Throws
<1>6. m # <<>>
  BY <1>3 DEF Deserialize
<1> QED
  BY <1>4, <1>5, <1>6 DEF Characters

-----------------------------------------------------------------------------
(* Types: TypeOK is inductive as it stands.                                *)

\* What a read hands to the queue.
LEMMA ReadMessage ==
    ASSUME TypeOK, NEW p \in Producer, NEW e \in Ends(p), ~Throws(Received(p, e))
    PROVE  LET m == Received(p, e)
           IN  /\ m \in Message /\ m.of = p /\ Characters(m) \subseteq read[p] + 1 .. e
               /\ \A x \in read[p] + 1 .. e :
                    Text[p][x] \in {"timestamp", "tag", "body"} => x \in Characters(m)
               /\ e \in Nat /\ read[p] \in Nat /\ read[p] < e /\ e <= Len(Text[p])
<1>1. /\ e \in Positions(p) /\ e \in Nat /\ read[p] < e /\ read[p] \in Nat
      /\ Len(Text[p]) \in Nat /\ e \in 1 .. Len(Text[p])
  BY TextIs DEF Ends, Positions, TypeOK
<1> DEFINE a == read[p] + 1
           m == Received(p, e)
<1>2. a \in Positions(p) /\ e <= Len(Text[p])
  BY <1>1 DEF Positions
<1> HIDE DEF a
<1>3. Parsed[p][a][e] = Deserialize(p, a .. e)
  BY <1>1, <1>2 DEF Parsed
<1>4. m = Parsed[p][a][e]
  BY DEF Received, a
<1>5. m = Deserialize(p, a .. e)
  BY <1>3, <1>4, Zenon
<1>6. ~Throws(m)
  OBVIOUS
<1> HIDE DEF m
<1>7. m \in Message
  BY <1>1, <1>2, <1>4, <1>6 DEF Message
<1>8. m.of = p /\ Characters(m) \subseteq a .. e
  BY <1>5, PartsOf
<1>9. ASSUME NEW x \in a .. e, Text[p][x] \in {"timestamp", "tag", "body"} PROVE x \in Characters(m)
  BY <1>1, <1>2, <1>5, <1>6, <1>9, OnlyIdsMissing
<1> QED
  BY <1>1, <1>2, <1>7, <1>8, <1>9 DEF a, m

LEMMA TypeStep == TypeOK /\ [Next]_vars => TypeOK'
<1> SUFFICES ASSUME TypeOK, [Next]_vars PROVE TypeOK'
  OBVIOUS
<1>1. ASSUME NEW p \in Producer, HandleProducer(p) PROVE TypeOK'
  <2>1. PICK e \in Ends(p) : /\ ~Throws(Received(p, e))
                             /\ message_queue' = Append(message_queue, Received(p, e))
                             /\ read' = [read EXCEPT ![p] = e]
    BY <1>1 DEF HandleProducer
  <2>2. Received(p, e) \in Message /\ e \in Nat /\ e <= Len(Text[p])
    BY <2>1, ReadMessage
  <2>3. message_queue' \in Seq(Message)
    BY <2>1, <2>2, AppendProperties DEF TypeOK
  <2>4. read' \in [Producer -> Nat] /\ \A q \in Producer : read'[q] <= Len(Text[q])
    BY <2>1, <2>2 DEF TypeOK
  <2>5. reader' \in [Producer -> {"read", "notify", "ended"}]
        /\ UNCHANGED <<server, processor, msg, todo, peer, log, since, got>>
    BY <1>1 DEF HandleProducer, TypeOK, history
  <2> QED
    BY <2>3, <2>4, <2>5 DEF TypeOK, Registered
<1>2. ASSUME NEW p \in Producer, DeserializeThrows(p) \/ Notify(p) \/ ProducerEof(p)
      PROVE  TypeOK'
  BY <1>2 DEF DeserializeThrows, Notify, ProducerEof, Woken, TypeOK, Registered, history
<1>3. ASSUME NEW c \in Consumer, HandleConsumer(c) PROVE TypeOK'
  <2>1. Len(log) \in Nat
    BY DEF TypeOK
  <2>2. since' \in [DOMAIN since' -> Nat] /\ DOMAIN since' = DOMAIN since \cup {c}
    BY <1>3, <2>1 DEF HandleConsumer, TypeOK, Registered
  <2> QED
    BY <1>3, <2>2 DEF HandleConsumer, TypeOK, Registered
<1>4. ASSUME NEW c \in Consumer, Connect(c) \/ ConsumerDies(c) PROVE TypeOK'
  <2>1. /\ peer' \in [Consumer -> {"off", "alive", "dead"}]
        /\ \A d \in Consumer : peer[d] # "off" => peer'[d] # "off"
        /\ UNCHANGED <<server, read, reader, message_queue, processor, msg, todo, log, since, got>>
    BY <1>4 DEF Connect, ConsumerDies, TypeOK, history
  <2> QED
    BY <2>1 DEF TypeOK, Registered
<1>5. CASE Sleep
  BY <1>5 DEF Sleep, TypeOK, Registered, history
<1>6. CASE Pop
  <2>1. Head(message_queue) \in Message /\ Tail(message_queue) \in Seq(Message)
    BY <1>6, HeadTailProperties DEF Pop, TypeOK
  <2>2. Head(message_queue) # <<>>
    BY <2>1, MessageIs
  <2> QED
    BY <1>6, <2>1, <2>2 DEF Pop, Rest, TypeOK, Registered, history
<1>7. CASE BeginBroadcast
  <2>1. msg \in Message
    BY <1>7 DEF BeginBroadcast, TypeOK
  <2>2. Append(log, msg) \in Seq(Message)
    BY <2>1, AppendProperties DEF TypeOK
  <2> QED
    BY <1>7, <2>2 DEF BeginBroadcast, Audience, TypeOK, Registered
<1>8. ASSUME NEW c \in Consumer, Write(c) PROVE TypeOK'
  <2>1. msg \in Message
    BY <1>8 DEF Write, TypeOK
  <2>2. got' \in [Consumer -> Seq(Message)]
    BY <1>8, <2>1, AppendProperties DEF Write, TypeOK
  <2> QED
    BY <1>8, <2>2 DEF Write, TypeOK, Registered
<1>9. CASE EndBroadcast
  BY <1>9 DEF EndBroadcast, TypeOK, Registered, history
<1>10. CASE UNCHANGED vars
  BY <1>10 DEF vars, TypeOK, Registered
<1> QED
  BY <1>1, <1>2, <1>3, <1>4, <1>5, <1>6, <1>7, <1>8, <1>9, <1>10
     DEF Next, Processor, ProducerHandler

-----------------------------------------------------------------------------
(* The chain of messages, from the first broadcast to the last queued: only *)
(* a read makes it longer, whatever the broadcasting thread does.          *)

LEMMA ChainTyped ==
    ASSUME TypeOK
    PROVE  /\ Chain \in Seq(Message) /\ Len(Chain) \in Nat /\ DOMAIN Chain = 1 .. Len(Chain)
           /\ \A i \in DOMAIN Chain : Chain[i] \in Message
<1> DEFINE middle == IF processor = "popped" THEN <<msg>> ELSE <<>>
<1>1. middle \in Seq(Message) /\ log \in Seq(Message) /\ message_queue \in Seq(Message)
  BY DEF TypeOK
<1> HIDE DEF middle
<1>2. log \o middle \o message_queue \in Seq(Message)
  BY <1>1, ConcatProperties
<1>3. Chain \in Seq(Message)
  BY <1>2 DEF Chain, middle
<1> QED
  BY <1>3, LenProperties, ElementOfSeq

LEMMA ChainGrows ==
    ASSUME TypeOK, NEW m \in Message, message_queue' = Append(message_queue, m),
           UNCHANGED <<log, processor, msg>>
    PROVE  Chain' = Append(Chain, m)
<1> DEFINE middle == IF processor = "popped" THEN <<msg>> ELSE <<>>
           front == log \o middle
<1>1. middle \in Seq(Message) /\ log \in Seq(Message) /\ message_queue \in Seq(Message)
      /\ <<m>> \in Seq(Message)
  BY DEF TypeOK
<1>2. Chain = log \o middle \o message_queue /\ Chain' = log \o middle \o Append(message_queue, m)
  BY DEF Chain
<1> HIDE DEF middle
<1>3. front \in Seq(Message)
  BY <1>1, ConcatProperties
<1> HIDE DEF front
<1>4. Append(message_queue, m) = message_queue \o <<m>>
  BY <1>1, AppendIsConcat
<1>5. front \o (message_queue \o <<m>>) = (front \o message_queue) \o <<m>>
  BY <1>1, <1>3, ConcatAssociative
<1>6. front \o message_queue \in Seq(Message)
  BY <1>1, <1>3, ConcatProperties
<1>7. (front \o message_queue) \o <<m>> = Append(front \o message_queue, m)
  BY <1>6, AppendIsConcat
<1>8. front \o Append(message_queue, m) = Append(front \o message_queue, m)
  BY <1>4, <1>5, <1>7
<1> QED
  BY <1>2, <1>8, Zenon DEF front

\* pop(), and the broadcast of what was popped.
LEMMA ChainPassesOn ==
    ASSUME TypeOK, Pop \/ BeginBroadcast
    PROVE  Chain' = Chain
<1>1. log \in Seq(Message) /\ message_queue \in Seq(Message)
  BY DEF TypeOK
<1>2. CASE Pop
  <2> DEFINE h == Head(message_queue)
             t == Tail(message_queue)
  <2>1. h \in Message /\ t \in Seq(Message) /\ <<h>> \in Seq(Message)
    BY <1>1, <1>2, HeadTailProperties DEF Pop
  <2>2. Chain = log \o <<>> \o message_queue /\ Chain' = log \o <<h>> \o t
    BY <1>2 DEF Chain, Pop, Rest, history
  <2>3. message_queue = <<h>> \o t
    BY <1>1, <1>2 DEF Pop
  <2> HIDE DEF h, t
  <2>4. (log \o <<h>>) \o t = log \o (<<h>> \o t)
    BY <1>1, <2>1, ConcatAssociative
  <2>5. log \o <<>> = log
    BY <1>1, ConcatEmptySeq
  <2> QED
    BY <2>2, <2>3, <2>4, <2>5, Zenon
<1>3. CASE BeginBroadcast
  <2>1. msg \in Message /\ Append(log, msg) \in Seq(Message)
    BY <1>1, <1>3, AppendProperties DEF BeginBroadcast, TypeOK
  <2>2. Chain = log \o <<msg>> \o message_queue /\ Chain' = Append(log, msg) \o <<>> \o message_queue
    BY <1>3 DEF Chain, BeginBroadcast
  <2>3. Append(log, msg) \o <<>> = Append(log, msg) /\ Append(log, msg) = log \o <<msg>>
    BY <1>1, <2>1, ConcatEmptySeq, AppendIsConcat
  <2> QED
    BY <2>2, <2>3, Zenon
<1> QED
  BY <1>2, <1>3

-----------------------------------------------------------------------------
(* The streams go through the chain in order, and what it leaves out.      *)

Kept(p) ==
    /\ \A i \in Of(p) : Characters(Chain[i]) \subseteq 1 .. read[p]
    /\ \A i, j \in Of(p) : i < j =>
         \A x \in Characters(Chain[i]), y \in Characters(Chain[j]) : x < y
    /\ \A x \in 1 .. read[p] :
         Text[p][x] \in {"timestamp", "tag", "body"} => \E i \in Of(p) : x \in Characters(Chain[i])

StreamsKept == \A p \in Producer : Kept(p)

LEMMA KeptApart ==
    ASSUME StreamsKept, Chain' = Chain, read' = read
    PROVE  StreamsKept'
BY DEF StreamsKept, Kept, Of

\* A message that a read queues stands at the end of the chain.
LEMMA OfGrows ==
    ASSUME TypeOK, NEW q \in Producer, NEW m \in Message, Chain' = Append(Chain, m)
    PROVE  /\ \A i \in Of(q) : i \in Of(q)' /\ Chain'[i] = Chain[i] /\ i < Len(Chain) + 1
           /\ \A i \in Of(q)' : \/ i \in Of(q)
                                \/ i = Len(Chain) + 1 /\ Chain'[i] = m /\ m.of = q
           /\ m.of = q => Len(Chain) + 1 \in Of(q)'
           /\ Len(Chain) + 1 \notin Of(q) /\ Of(q) \subseteq Nat /\ Len(Chain) \in Nat
<1> DEFINE c == Chain
           d == Chain'
           n == Len(Chain)
<1>1. n \in Nat /\ DOMAIN c = 1 .. n
  BY ChainTyped
<1>2. DOMAIN d = 1 .. n + 1 /\ d[n + 1] = m /\ \A i \in 1 .. n : d[i] = c[i]
  <2>1. Chain \in Seq(Message) /\ d = Append(Chain, m)
    BY ChainTyped
  <2>2. d \in Seq(Message) /\ Len(d) = n + 1 /\ d[n + 1] = m /\ \A i \in 1 .. n : d[i] = c[i]
    BY <2>1, AppendProperties
  <2> QED
    BY <2>2, LenProperties
<1>3. Of(q)' = {i \in DOMAIN d : d[i].of = q} /\ Of(q) = {i \in DOMAIN c : c[i].of = q}
  BY DEF Of
<1> HIDE DEF c, d, n
<1>4. \A i \in Of(q) : i \in Of(q)' /\ d[i] = c[i] /\ i < n + 1
  BY <1>1, <1>2, <1>3
<1>5. \A i \in Of(q)' : i \in Of(q) \/ (i = n + 1 /\ d[i] = m /\ m.of = q)
  BY <1>1, <1>2, <1>3
<1>6. (m.of = q => n + 1 \in Of(q)') /\ n + 1 \notin Of(q) /\ Of(q) \subseteq Nat
  BY <1>1, <1>2, <1>3
<1> QED
  BY <1>1, <1>4, <1>5, <1>6 DEF c, d, n

\* Its text comes after what was read before.
LEMMA KeptByRead ==
    ASSUME TypeOK, NEW p \in Producer, Kept(p), NEW m \in Message, NEW e \in Nat,
           Chain' = Append(Chain, m), m.of = p, read[p] \in Nat, read[p] < e, read'[p] = e,
           Characters(m) \subseteq read[p] + 1 .. e,
           \A x \in read[p] + 1 .. e :
             Text[p][x] \in {"timestamp", "tag", "body"} => x \in Characters(m)
    PROVE  Kept(p)'
<1> DEFINE c == Chain
           d == Chain'
           n == Len(Chain)
           r == read[p]
           before == Of(p)
           after == Of(p)'
<1>1. /\ \A i \in before : i \in after /\ d[i] = c[i] /\ i < n + 1
      /\ \A i \in after : i \in before \/ (i = n + 1 /\ d[i] = m)
      /\ n + 1 \in after /\ n + 1 \notin before /\ before \subseteq Nat /\ n \in Nat
      /\ d[n + 1] = m
  BY OfGrows
<1>2. /\ \A i \in before : Characters(c[i]) \subseteq 1 .. r
      /\ \A i, j \in before : i < j =>
           \A x \in Characters(c[i]), y \in Characters(c[j]) : x < y
      /\ \A x \in 1 .. r :
           Text[p][x] \in {"timestamp", "tag", "body"} => \E i \in before : x \in Characters(c[i])
  BY DEF Kept
<1>3. Characters(m) \subseteq r + 1 .. e /\ r \in Nat /\ r < e
  OBVIOUS
<1>4. \A x \in r + 1 .. e : Text[p][x] \in {"timestamp", "tag", "body"} => x \in Characters(m)
  OBVIOUS
<1> HIDE DEF c, d, n, r, before, after
<1>5. ASSUME NEW i \in after PROVE Characters(d[i]) \subseteq 1 .. e
  <2>1. CASE i \in before
    <3>1. Characters(d[i]) \subseteq 1 .. r
      BY <1>1, <1>2, <2>1
    <3>2. 1 .. r \subseteq 1 .. e
      BY <1>3
    <3> QED
      BY <3>1, <3>2, Zenon
  <2>2. CASE i \notin before
    <3>1. r + 1 .. e \subseteq 1 .. e
      BY <1>3
    <3> QED
      BY <1>1, <1>3, <2>2, <3>1, Zenon
  <2> QED
    BY <2>1, <2>2
<1>6. ASSUME NEW i \in after, NEW j \in after, i < j,
             NEW x \in Characters(d[i]), NEW y \in Characters(d[j])
      PROVE  x < y
  <2>1. i \in before
    <3>1. CASE i = n + 1
      <4>1. j \in before \/ j = n + 1
        BY <1>1
      <4> QED
        BY <1>1, <1>6, <3>1, <4>1
    <3> QED
      BY <1>1, <3>1
  <2>2. d[i] = c[i]
    BY <1>1, <2>1
  <2>3. CASE j \in before
    BY <1>1, <1>2, <1>6, <2>1, <2>2, <2>3
  <2>4. CASE j \notin before
    <3>1. y \in r + 1 .. e
      BY <1>1, <1>3, <1>6, <2>4
    <3>2. x \in 1 .. r
      BY <1>2, <1>6, <2>1, <2>2
    <3> QED
      BY <1>3, <3>1, <3>2
  <2> QED
    BY <2>3, <2>4
<1>7. ASSUME NEW x \in 1 .. e, Text[p][x] \in {"timestamp", "tag", "body"}
      PROVE  \E i \in after : x \in Characters(d[i])
  <2>1. x \in 1 .. r \/ x \in r + 1 .. e
    BY <1>3
  <2>2. CASE x \in 1 .. r
    <3>1. PICK i \in before : x \in Characters(c[i])
      BY <1>2, <1>7, <2>2
    <3> QED
      BY <1>1, <3>1
  <2>3. CASE x \in r + 1 .. e
    BY <1>1, <1>4, <1>7, <2>3
  <2> QED
    BY <2>1, <2>2, <2>3
<1> QED
  BY <1>5, <1>6, <1>7 DEF Kept, d, after

LEMMA KeptElsewhere ==
    ASSUME TypeOK, NEW q \in Producer, Kept(q), NEW m \in Message,
           Chain' = Append(Chain, m), m.of # q, read'[q] = read[q]
    PROVE  Kept(q)'
<1>1. /\ \A i \in Of(q) : i \in Of(q)' /\ Chain'[i] = Chain[i]
      /\ \A i \in Of(q)' : i \in Of(q)
  BY OfGrows
<1>2. Of(q)' = Of(q) /\ \A i \in Of(q) : Chain'[i] = Chain[i]
  BY <1>1
<1> QED
  BY <1>2 DEF Kept

LEMMA KeptStep == TypeOK /\ StreamsKept /\ [Next]_vars => StreamsKept'
<1> SUFFICES ASSUME TypeOK, StreamsKept, [Next]_vars PROVE StreamsKept'
  OBVIOUS
<1>1. ASSUME NEW p \in Producer, HandleProducer(p) PROVE StreamsKept'
  <2>1. PICK e \in Ends(p) : /\ ~Throws(Received(p, e))
                             /\ message_queue' = Append(message_queue, Received(p, e))
                             /\ read' = [read EXCEPT ![p] = e]
    BY <1>1 DEF HandleProducer
  <2>2. UNCHANGED <<log, processor, msg>>
    BY <1>1 DEF HandleProducer, history
  <2> DEFINE m == Received(p, e)
  <2>3. /\ m \in Message /\ m.of = p /\ Characters(m) \subseteq read[p] + 1 .. e
        /\ \A x \in read[p] + 1 .. e :
             Text[p][x] \in {"timestamp", "tag", "body"} => x \in Characters(m)
        /\ e \in Nat /\ read[p] \in Nat /\ read[p] < e
    BY <2>1, ReadMessage
  <2>4. Chain' = Append(Chain, m)
    BY <2>1, <2>2, <2>3, ChainGrows
  <2>5. read'[p] = e /\ \A q \in Producer : q # p => read'[q] = read[q]
    BY <2>1 DEF TypeOK
  <2> HIDE DEF m
  <2>6. Kept(p)'
    BY <2>3, <2>4, <2>5, KeptByRead DEF StreamsKept
  <2>7. \A q \in Producer : q # p => Kept(q)'
    BY <2>3, <2>4, <2>5, KeptElsewhere DEF StreamsKept
  <2> QED
    BY <2>6, <2>7 DEF StreamsKept
<1>2. CASE Pop \/ BeginBroadcast
  BY <1>2, ChainPassesOn, KeptApart DEF Pop, BeginBroadcast
<1>3. ASSUME UNCHANGED <<log, message_queue, read>>,
             UNCHANGED <<processor, msg>> \/ (processor # "popped" /\ processor' # "popped")
      PROVE  StreamsKept'
  <2>1. Chain' = Chain
    BY <1>3 DEF Chain
  <2> QED
    BY <1>3, <2>1, KeptApart
<1>4. ASSUME NEW p \in Producer, DeserializeThrows(p) \/ Notify(p) \/ ProducerEof(p)
      PROVE  StreamsKept'
  BY <1>3, <1>4 DEF DeserializeThrows, Notify, ProducerEof, Woken, history
<1>5. ASSUME NEW c \in Consumer, Connect(c) \/ HandleConsumer(c) \/ ConsumerDies(c) \/ Write(c)
      PROVE  StreamsKept'
  BY <1>3, <1>5 DEF Connect, HandleConsumer, ConsumerDies, Write, history
<1>6. CASE Sleep \/ EndBroadcast \/ UNCHANGED vars
  BY <1>3, <1>6 DEF Sleep, EndBroadcast, vars, history
<1> QED
  BY <1>1, <1>2, <1>4, <1>5, <1>6 DEF Next, Processor, ProducerHandler

-----------------------------------------------------------------------------
(* What the consumers are sent.                                            *)

\* A consumer that lives was sent one message for each broadcast since it
\* registered, the one in progress left out while it is still to be served.
Counted ==
    /\ \A c \in Registered : since[c] <= Len(log)
    /\ \A c \in Consumer : c \notin Registered => got[c] = <<>>
    /\ processor = "sending" => log # <<>> /\ log[Len(log)] = msg
    /\ \A c \in todo : since[c] < Len(log)
    /\ \A c \in Registered : peer[c] = "alive" =>
         since[c] + Len(got[c]) = Len(log) - IF c \in todo THEN 1 ELSE 0

BInv == TypeOK /\ StreamsKept /\ Counted

LEMMA InitBInv == Init => BInv
<1> SUFFICES ASSUME Init PROVE BInv
  OBVIOUS
<1>1. Registered = {} /\ since \in [Registered -> Nat]
  BY DEF Init, Registered
<1>2. read \in [Producer -> Nat] /\ \A p \in Producer : read[p] = 0 /\ read[p] <= Len(Text[p])
  BY TextIs DEF Init
<1>3. message_queue \in Seq(Message) /\ log \in Seq(Message) /\ got \in [Consumer -> Seq(Message)]
  BY DEF Init
<1>4. TypeOK
  BY <1>1, <1>2, <1>3 DEF Init, TypeOK
<1>5. StreamsKept
  <2>1. Chain = <<>>
    BY DEF Init, Chain
  <2>2. ASSUME NEW p \in Producer PROVE Of(p) = {} /\ 1 .. read[p] = {}
    <3>1. Of(p) = {}
      BY <2>1 DEF Of
    <3>2. read[p] = 0
      BY <1>2
    <3>3. 1 .. read[p] = {}
      BY <3>2
    <3> QED
      BY <3>1, <3>3
  <2> QED
    BY <2>2 DEF StreamsKept, Kept
<1>6. Counted
  BY <1>1 DEF Init, Counted
<1> QED
  BY <1>4, <1>5, <1>6 DEF BInv

\* Steps that no consumer sees.
LEMMA Unseen ==
    ASSUME Counted, UNCHANGED <<todo, history>>,
           processor' = "sending" => processor = "sending" /\ msg' = msg,
           \A c \in Registered : peer'[c] = "alive" => peer[c] = "alive",
           Registered \subseteq Consumer
    PROVE  Counted'
BY DEF Counted, Registered, history

LEMMA JoinStep ==
    ASSUME TypeOK, Counted, NEW c \in Consumer, HandleConsumer(c)
    PROVE  Counted' /\ Promise!Join(c)
<1>1. c \notin Registered /\ todo = {} /\ Len(log) \in Nat /\ got[c] = <<>> /\ processor # "sending"
  BY DEF HandleConsumer, TypeOK, Counted
<1>2. /\ Registered' = Registered \cup {c} /\ since'[c] = Len(log)
      /\ \A d \in Registered : since'[d] = since[d]
      /\ UNCHANGED <<todo, processor, peer, log, got, msg>>
  BY <1>1 DEF HandleConsumer, Registered
<1>3. Len(got[c]) = 0
  BY <1>1
<1>4. Counted'
  BY <1>1, <1>2, <1>3 DEF Counted
<1>5. Promise!Join(c)
  BY DEF HandleConsumer, Promise!Join, Registered
<1> QED
  BY <1>4, <1>5

\* The message was not broadcast before: its stretch comes after theirs.
LEMMA PublishStep ==
    ASSUME TypeOK, StreamsKept, Counted, BeginBroadcast
    PROVE  Counted' /\ Promise!Publish(msg) /\ msg \in Message
<1>1. /\ processor = "popped" /\ processor' = "sending" /\ todo = {} /\ todo' = Registered
      /\ log' = Append(log, msg) /\ log \in Seq(Message) /\ msg \in Message
      /\ UNCHANGED <<msg, since, got, peer>>
  BY DEF BeginBroadcast, Audience, TypeOK
<1>2. /\ Len(log) \in Nat /\ DOMAIN log = 1 .. Len(log)
      /\ log' # <<>> /\ Len(log') = Len(log) + 1 /\ log'[Len(log) + 1] = msg
  BY <1>1, AppendProperties, LenProperties
<1>3. Counted'
  <2>1. \A c \in Registered : since[c] \in Nat /\ since[c] <= Len(log) /\ Len(got[c]) \in Nat
    BY DEF TypeOK, Counted
  <2>2. \A c \in Registered : peer[c] = "alive" => since[c] + Len(got[c]) = Len(log)
    BY <1>1, <1>2, <2>1 DEF Counted
  <2>3. Registered' = Registered
    BY <1>1 DEF Registered
  <2> QED
    BY <1>1, <1>2, <2>1, <2>2, <2>3 DEF Counted
<1>4. ASSUME NEW i \in DOMAIN log PROVE log[i] # msg
  <2> DEFINE n == Len(log)
             middle == <<msg>>
  <2>1. Chain = log \o <<msg>> \o message_queue /\ message_queue \in Seq(Message)
        /\ <<msg>> \in Seq(Message) /\ Len(<<msg>>) = 1
    BY <1>1 DEF Chain, TypeOK
  <2>2. /\ log \o middle \in Seq(Message) /\ Len(log \o middle) = n + 1
        /\ \A j \in 1 .. n : (log \o middle)[j] = log[j]
        /\ (log \o middle)[n + 1] = msg
    BY <1>1, <1>2, AppendIsConcat, AppendProperties
  <2> DEFINE front == log \o middle
  <2> HIDE DEF n, front
  <2>3. /\ front \o message_queue \in Seq(Message)
        /\ Len(front \o message_queue) = n + 1 + Len(message_queue)
        /\ \A j \in 1 .. n + 1 + Len(message_queue) :
             (front \o message_queue)[j] = IF j <= n + 1 THEN front[j] ELSE message_queue[j - (n + 1)]
    <3>1. front \in Seq(Message) /\ Len(front) = n + 1
      BY <2>2 DEF front
    <3>2. /\ front \o message_queue \in Seq(Message)
          /\ Len(front \o message_queue) = Len(front) + Len(message_queue)
          /\ \A j \in 1 .. Len(front) + Len(message_queue) :
               (front \o message_queue)[j] =
                 IF j <= Len(front) THEN front[j] ELSE message_queue[j - Len(front)]
      BY <2>1, <3>1, ConcatProperties
    <3> QED
      BY <3>1, <3>2, Zenon
  <2>4. Len(message_queue) \in Nat /\ n \in Nat /\ i \in 1 .. n
    BY <1>2, <2>1, LenProperties DEF n
  <2> DEFINE c == front \o message_queue
  <2> HIDE DEF c
  <2>5. Chain = c
    BY <2>1 DEF c, front
  <2>6. /\ i \in 1 .. n + 1 + Len(message_queue) /\ i <= n + 1 /\ i < n + 1
        /\ n + 1 \in 1 .. n + 1 + Len(message_queue)
    BY <2>4
  <2>7. Chain[i] = log[i] /\ Chain[n + 1] = msg
    BY <2>2, <2>3, <2>5, <2>6, <2>4 DEF c, front
  <2>8. DOMAIN Chain = 1 .. n + 1 + Len(message_queue)
    BY <2>3, <2>5, LenProperties DEF c
  <2>9. msg.of \in Producer /\ msg.id # {} /\ msg.id \subseteq Characters(msg)
    BY <1>1, MessageIs
  <2>10. ASSUME log[i] = msg PROVE FALSE
    <3>1. i \in Of(msg.of) /\ n + 1 \in Of(msg.of)
      BY <2>6, <2>7, <2>8, <2>9, <2>10 DEF Of
    <3>2. \A x \in Characters(msg), y \in Characters(msg) : x < y
      BY <2>6, <2>7, <2>9, <2>10, <3>1 DEF StreamsKept, Kept
    <3>3. Characters(msg) \subseteq Nat
      <4>1. Characters(msg) \subseteq 1 .. read[msg.of]
        BY <2>7, <2>9, <3>1 DEF StreamsKept, Kept
      <4> QED
        BY <4>1
    <3>4. PICK x \in Characters(msg) : TRUE
      BY <2>9
    <3>5. x < x /\ x \in Nat
      BY <3>2, <3>3
    <3> QED
      BY <3>5
  <2> QED
    BY <2>10
<1>5. Promise!Publish(msg)
  BY <1>1, <1>4 DEF Promise!Publish
<1> QED
  BY <1>1, <1>3, <1>5

LEMMA DeliverStep ==
    ASSUME TypeOK, Counted, NEW c \in Consumer, Write(c)
    PROVE  Counted' /\ (UNCHANGED history \/ Promise!Deliver(c))
<1>1. /\ c \in todo /\ c \in Registered /\ todo' = todo \ {c} /\ processor = "sending"
      /\ log # <<>> /\ log[Len(log)] = msg /\ log \in Seq(Message) /\ msg \in Message
      /\ UNCHANGED <<processor, msg, log, since, peer>> /\ since[c] \in Nat /\ Len(got[c]) \in Nat
      /\ Registered' = Registered
  BY DEF Write, TypeOK, Counted, Registered
<1>2. Len(log) \in Nat
  BY <1>1, LenProperties
<1>3. CASE peer[c] # "alive"
  <2>1. got' = got
    BY <1>3 DEF Write
  <2>2. Counted'
    BY <1>1, <1>3, <2>1 DEF Counted
  <2> QED
    BY <1>1, <2>1, <2>2 DEF history
<1>4. CASE peer[c] = "alive"
  <2>1. got' = [got EXCEPT ![c] = Append(@, msg)]
    BY <1>4 DEF Write
  <2>2. since[c] + Len(got[c]) = Len(log) - 1
    BY <1>1, <1>4 DEF Counted
  <2>3. since[c] + Len(got[c]) < Len(log) /\ since[c] + Len(got[c]) + 1 = Len(log)
    BY <1>1, <1>2, <2>2
  <2>4. got'[c] = Append(got[c], msg) /\ got[c] \in Seq(Message)
        /\ \A d \in Consumer : d # c => got'[d] = got[d]
    BY <2>1 DEF TypeOK
  <2>5. Len(got'[c]) = Len(got[c]) + 1
    BY <1>1, <2>4, AppendProperties
  <2>6. since[c] + Len(got'[c]) = Len(log)
    BY <1>1, <1>2, <2>3, <2>5
  <2>7. Counted'
    <3>1. ASSUME NEW d \in Registered, peer[d] = "alive"
          PROVE  since[d] + Len(got'[d]) = Len(log) - IF d \in todo' THEN 1 ELSE 0
      <4>1. CASE d = c
        BY <1>1, <1>2, <2>6, <4>1
      <4>2. CASE d # c
        <5>1. got'[d] = got[d] /\ (d \in todo' <=> d \in todo)
          BY <1>1, <2>4, <4>2 DEF TypeOK
        <5> QED
          BY <3>1, <5>1 DEF Counted
      <4> QED
        BY <4>1, <4>2
    <3>2. \A d \in Consumer : d \notin Registered => got'[d] = <<>>
      BY <1>1, <2>4 DEF Counted
    <3> QED
      BY <1>1, <3>1, <3>2 DEF Counted
  <2>8. got' = [got EXCEPT ![c] = Append(@, log[since[c] + Len(@) + 1])]
    BY <1>1, <2>1, <2>3
  <2>9. Promise!Deliver(c)
    BY <1>1, <2>3, <2>8 DEF Promise!Deliver, Registered
  <2> QED
    BY <2>7, <2>9
<1> QED
  BY <1>3, <1>4

LEMMA Step == BInv /\ [Next]_vars => BInv' /\ [Promise!Next]_history
<1> SUFFICES ASSUME BInv, [Next]_vars PROVE BInv' /\ (UNCHANGED history \/ Promise!Next)
  OBVIOUS
<1>1. TypeOK' /\ StreamsKept'
  BY TypeStep, KeptStep DEF BInv
<1>2. Registered \subseteq Consumer /\ peer \in [Consumer -> {"off", "alive", "dead"}]
  BY DEF BInv, TypeOK
<1>3. ASSUME NEW p \in Producer, ProducerHandler(p) PROVE Counted' /\ UNCHANGED history
  <2>1. UNCHANGED <<todo, peer, msg, history>> /\ (processor' = "sending" => processor = "sending")
    BY <1>3 DEF ProducerHandler, HandleProducer, DeserializeThrows, Notify, ProducerEof, Woken
  <2> QED
    BY <1>2, <2>1, Unseen DEF BInv
<1>4. ASSUME NEW c \in Consumer, Connect(c) \/ ConsumerDies(c) PROVE Counted' /\ UNCHANGED history
  <2>1. /\ UNCHANGED <<todo, processor, msg, history>>
        /\ \A d \in Registered : peer'[d] = "alive" => peer[d] = "alive"
    BY <1>2, <1>4 DEF Connect, ConsumerDies, BInv, TypeOK
  <2> QED
    BY <1>2, <2>1, Unseen DEF BInv
<1>5. CASE Sleep \/ Pop \/ EndBroadcast \/ UNCHANGED vars
  <2>1. /\ UNCHANGED <<todo, peer, history>>
        /\ processor' = "sending" => processor = "sending" /\ msg' = msg
    BY <1>5 DEF Sleep, Pop, EndBroadcast, vars, history
  <2>2. Counted'
    BY <1>2, <2>1, Unseen DEF BInv
  <2> QED
    BY <1>1, <2>1, <2>2 DEF BInv
<1>6. ASSUME NEW c \in Consumer, HandleConsumer(c) PROVE Counted' /\ Promise!Next
  BY <1>6, JoinStep DEF BInv, Promise!Next
<1>7. CASE BeginBroadcast
  BY <1>1, <1>7, PublishStep DEF BInv, Promise!Next
<1>8. ASSUME NEW c \in Consumer, Write(c)
      PROVE  Counted' /\ (UNCHANGED history \/ Promise!Next)
  BY <1>8, DeliverStep DEF BInv, Promise!Next
<1> QED
  BY <1>1, <1>3, <1>4, <1>5, <1>6, <1>7, <1>8 DEF BInv, Next, Processor

THEOREM Invariant == Spec => []BInv
BY InitBInv, Step, PTL DEF Spec

\* TypeOK for any clients and reads.
THEOREM TypeCorrect == Spec => []TypeOK
<1>1. BInv => TypeOK
  BY DEF BInv
<1> QED
  BY Invariant, <1>1, PTL

\* InStreamOrder: however the reads cut the streams and the threads interleave,
\* the text in the messages follows its stream through the queue and the
\* broadcasts (message_center.cpp:28-46, 105-120, common.hpp:40-50).
THEOREM InOrder == Spec => []InStreamOrder
<1>1. BInv => InStreamOrder
  BY DEF BInv, StreamsKept, Kept, InStreamOrder
<1> QED
  BY Invariant, <1>1, PTL

\* OnlyIdsLost: of all that is read, deserialize and the queue lose separators
\* and ids, never a part of a timestamp, a tag or a body
\* (message_center.cpp:39-45, common.hpp:40-50).
THEOREM NothingElseLost == Spec => []OnlyIdsLost
<1>1. BInv => OnlyIdsLost
  BY DEF BInv, StreamsKept, Kept, OnlyIdsLost
<1> QED
  BY Invariant, <1>1, PTL

\* PromiseSpec: the queue, its thread and the two mutexes implement the promise.
THEOREM Implements == Spec => PromiseSpec
<1>1. Init => Promise!Init
  BY DEF Init, Promise!Init, Promise!Nobody
<1>2. BInv /\ [Next]_vars => [Promise!Next]_(Promise!vars)
  BY Step DEF history, Promise!vars
<1> QED
  BY Invariant, <1>1, <1>2, PTL DEF Spec, PromiseSpec, Promise!Spec

=============================================================================
