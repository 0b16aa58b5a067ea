------------------------- MODULE MessageCenterProofs -------------------------
(***************************************************************************)
(* Proofs about MessageCenter, for any producers, consumers and numbers of *)
(* messages: it implements Multicast, and between two broadcasts every     *)
(* registered consumer that lives has all.                                 *)
(***************************************************************************)
EXTENDS MessageCenter, SequenceTheorems, FiniteSetTheorems, TLAPS

-----------------------------------------------------------------------------
\* Facts about the end of a sequence: what was published since a consumer joined.

\* Nothing was published since the last message.
LEMMA SuffixEmpty ==
    ASSUME NEW S, NEW s \in Seq(S)
    PROVE  SubSeq(s, Len(s) + 1, Len(s)) = <<>>
BY SubSeqEmpty, LenProperties

\* A new message is all that a subscriber that was served still lacks.
LEMMA SuffixOfAppend ==
    ASSUME NEW S, NEW s \in Seq(S), NEW e \in S, NEW k \in 0 .. Len(s)
    PROVE  SubSeq(Append(s, e), k + 1, Len(Append(s, e)) - 1) = SubSeq(s, k + 1, Len(s))
<1> DEFINE t == Append(s, e)
           a == SubSeq(t, k + 1, Len(s))
           b == SubSeq(s, k + 1, Len(s))
<1>1. /\ Len(s) \in Nat /\ Len(t) - 1 = Len(s) /\ \A i \in 1 .. Len(s) : t[i] = s[i] /\ s[i] \in S
  BY AppendProperties, LenProperties, ElementOfSeq
<1>2. \A i \in k + 1 .. Len(s) : t[i] = s[i] /\ s[i] \in S
  BY <1>1
<1> HIDE DEF t
<1>3. /\ a \in Seq(S) /\ Len(a) = (IF k + 1 <= Len(s) THEN Len(s) - (k + 1) + 1 ELSE 0)
      /\ \A i \in 1 .. Len(s) - (k + 1) + 1 : a[i] = t[(k + 1) + i - 1]
  BY <1>1, <1>2, SubSeqProperties
<1>4. /\ b \in Seq(S) /\ Len(b) = (IF k + 1 <= Len(s) THEN Len(s) - (k + 1) + 1 ELSE 0)
      /\ \A i \in 1 .. Len(s) - (k + 1) + 1 : b[i] = s[(k + 1) + i - 1]
  BY <1>1, <1>2, SubSeqProperties
<1> HIDE DEF a, b
<1>5. ASSUME NEW i \in 1 .. Len(a) PROVE a[i] = b[i]
  <2>1. i \in 1 .. Len(s) - (k + 1) + 1 /\ (k + 1) + i - 1 \in k + 1 .. Len(s)
    BY <1>1, <1>3
  <2> QED
    BY <1>2, <1>3, <1>4, <2>1
<1>6. a = b
  BY <1>3, <1>4, <1>5, SeqEqual
<1> QED
  BY <1>1, <1>6 DEF a, b, t

\* A subscriber that lacked the last message has all when it is sent that.
LEMMA SuffixGrows ==
    ASSUME NEW S, NEW s \in Seq(S), NEW k \in 0 .. Len(s) - 1
    PROVE  /\ Append(SubSeq(s, k + 1, Len(s) - 1), s[Len(s)]) = SubSeq(s, k + 1, Len(s))
           /\ Len(SubSeq(s, k + 1, Len(s) - 1)) = Len(s) - 1 - k
           /\ s[Len(s)] \in S
<1> DEFINE c == SubSeq(s, k + 1, Len(s) - 1)
           a == Append(c, s[Len(s)])
           b == SubSeq(s, k + 1, Len(s))
<1>1. Len(s) \in Nat \ {0} /\ \A i \in 1 .. Len(s) : s[i] \in S
  BY LenProperties, ElementOfSeq
<1>2. \A i \in k + 1 .. Len(s) : s[i] \in S
  BY <1>1
<1>3. /\ c \in Seq(S) /\ Len(c) = Len(s) - 1 - k
      /\ \A i \in 1 .. Len(s) - 1 - k : c[i] = s[k + i]
  <2>1. /\ c \in Seq(S) /\ Len(c) = (IF k + 1 <= Len(s) - 1 THEN (Len(s) - 1) - (k + 1) + 1 ELSE 0)
        /\ \A i \in 1 .. (Len(s) - 1) - (k + 1) + 1 : c[i] = s[(k + 1) + i - 1]
    BY <1>1, <1>2, SubSeqProperties
  <2> HIDE DEF c
  <2> QED
    BY <1>1, <2>1
<1>4. /\ b \in Seq(S) /\ Len(b) = Len(s) - k
      /\ \A i \in 1 .. Len(s) - k : b[i] = s[k + i]
  <2>1. /\ b \in Seq(S) /\ Len(b) = (IF k + 1 <= Len(s) THEN Len(s) - (k + 1) + 1 ELSE 0)
        /\ \A i \in 1 .. Len(s) - (k + 1) + 1 : b[i] = s[(k + 1) + i - 1]
    BY <1>1, <1>2, SubSeqProperties
  <2> HIDE DEF b
  <2> QED
    BY <1>1, <2>1
<1> HIDE DEF c, b
<1>5. /\ a \in Seq(S) /\ Len(a) = Len(s) - k /\ a[Len(c) + 1] = s[Len(s)]
      /\ \A i \in 1 .. Len(c) : a[i] = c[i]
  BY <1>1, <1>3, AppendProperties
<1> HIDE DEF a
<1>6. ASSUME NEW i \in 1 .. Len(a) PROVE a[i] = b[i]
  <2>1. CASE i = Len(s) - k
    BY <1>1, <1>3, <1>4, <1>5, <2>1
  <2>2. CASE i # Len(s) - k
    <3>1. i \in 1 .. Len(c) /\ i \in 1 .. Len(s) - 1 - k /\ i \in 1 .. Len(s) - k
      <4>1. Len(c) = Len(s) - 1 - k /\ Len(a) = Len(s) - k /\ Len(s) \in Nat
        BY <1>1, <1>3, <1>5
      <4> QED
        BY <4>1, <2>2
    <3>2. a[i] = c[i] /\ c[i] = s[k + i] /\ b[i] = s[k + i]
      BY <1>3, <1>4, <1>5, <3>1
    <3> QED
      BY <3>2
  <2> QED
    BY <2>1, <2>2
<1>7. a = b
  BY <1>4, <1>5, <1>6, SeqEqual
<1>8. s[Len(s)] \in S /\ Len(c) = Len(s) - 1 - k
  BY <1>1, <1>3
<1> QED
  BY <1>7, <1>8 DEF a, b, c

-----------------------------------------------------------------------------
\* Types, first: TypeOK is inductive as it stands.
LEMMA TypeStep == TypeOK /\ [Next]_vars => TypeOK'
<1> SUFFICES ASSUME TypeOK, [Next]_vars PROVE TypeOK'
  OBVIOUS
<1> USE DEF TypeOK, Registered, clientVars, history
<1>1. ASSUME NEW p \in Producer, SendMessage(p) PROVE TypeOK'
  <2>1. sent' \in [Producer -> Nat] /\ \A q \in Producer : sent'[q] <= Sends[q]
    <3>1. sent' = [sent EXCEPT ![p] = sent[p] + 1] /\ sent[p] \in Nat
      BY <1>1 DEF SendMessage
    <3>2. sent' \in [Producer -> Nat]
      BY <3>1
    <3>3. ASSUME NEW q \in Producer PROVE sent'[q] <= Sends[q]
      <4>1. Sends[p] \in Nat /\ sent[p] < Sends[p]
        BY <1>1, CenterAssumption DEF SendMessage
      <4>2. CASE q = p
        BY <3>1, <4>1, <4>2
      <4>3. CASE q # p
        BY <3>1, <4>3
      <4> QED
        BY <4>2, <4>3
    <3> QED
      BY <3>2, <3>3
  <2>2. handler' \in [Message -> {"none", "accepted", "numbered", "sending", "done"}]
    BY <1>1 DEF SendMessage
  <2> QED
    BY <1>1, <2>1, <2>2 DEF SendMessage
<1>2. ASSUME NEW c \in Consumer,
             Connect(c) \/ RegisterConsumer(c) \/ ConsumerDies(c) \/ HandleUnknown(c)
      PROVE  TypeOK'
  BY <1>2 DEF Connect, RegisterConsumer, ConsumerDies, HandleUnknown
<1>3. ASSUME NEW c \in Consumer, HandleRegister(c) PROVE TypeOK'
  <2>1. Len(log) \in Nat
    OBVIOUS
  <2>2. since' \in [DOMAIN since' -> Nat] /\ DOMAIN since' = DOMAIN since \cup {c}
    BY <1>3, <2>1 DEF HandleRegister
  <2> QED
    BY <1>3, <2>2 DEF HandleRegister
<1>4. ASSUME NEW m \in Message, HandleMessage(m) PROVE TypeOK'
  BY <1>4 DEF HandleMessage
<1>5. ASSUME NEW m \in Message, BeginBroadcast(m) PROVE TypeOK'
  BY <1>5 DEF BeginBroadcast, Audience
<1>6. ASSUME NEW m \in Message, NEW c \in Consumer, SendTo(m, c) PROVE TypeOK'
  BY <1>6 DEF SendTo
<1>7. ASSUME NEW m \in Message, NEW c \in Consumer, SendLost(m, c) PROVE TypeOK'
  BY <1>7 DEF SendLost, StillServed
<1>8. ASSUME NEW m \in Message, NEW c \in Consumer, BrokenPipe(m, c) PROVE TypeOK'
  BY <1>8 DEF BrokenPipe
<1>9. ASSUME NEW m \in Message, EndBroadcast(m) PROVE TypeOK'
  BY <1>9 DEF EndBroadcast
<1>10. CASE Stop
  BY <1>10 DEF Stop
<1>11. CASE UNCHANGED vars
  BY <1>11 DEF vars
<1> QED
  BY <1>1, <1>2, <1>3, <1>4, <1>5, <1>6, <1>7, <1>8, <1>9, <1>10, <1>11
     DEF Next, MessageThread, ConsumerThread

-----------------------------------------------------------------------------
(* The inductive invariant.                                                *)

\* The thread that holds consumersMutex: one at most, and nobody is waiting for
\* a send of its own when there is none.
Holder ==
    /\ \A m, n \in Message : handler[m] = "sending" /\ handler[n] = "sending" => m = n
    /\ (\A m \in Message : handler[m] # "sending") => todo = {}
    /\ \A m \in Message : handler[m] = "sending" => log # <<>> /\ log[Len(log)] = m

\* A message is broadcast once, by the thread of its own connection.
Logged ==
    /\ \A i \in DOMAIN log : handler[log[i]] \in {"sending", "done"}
    /\ \A p \in Producer, i \in Nat :
         i > sent[p] /\ <<p, i>> \in Message => handler[<<p, i>>] = "none"

\* What a consumer has: all since it registered, less the message that is being
\* sent when it is still to be served.
Has(c) ==
    IF c \in todo
    THEN since[c] < Len(log) /\ got[c] = SubSeq(log, since[c] + 1, Len(log) - 1)
    ELSE since[c] <= Len(log) /\ got[c] = SubSeq(log, since[c] + 1, Len(log))
Delivered ==
    /\ \A c \in Registered : peer[c] = "alive" => Has(c)
    /\ \A c \in Consumer : c \notin Registered => got[c] = <<>>
    /\ \A c \in Registered : since[c] <= Len(log)

Linked == \A c \in Registered : link[c] = "registered"

MInv == TypeOK /\ Holder /\ Logged /\ Delivered /\ Linked

LEMMA InitMInv == Init => MInv
<1> SUFFICES ASSUME Init PROVE MInv
  OBVIOUS
<1>1. Registered = {} /\ since \in [Registered -> Nat]
  BY DEF Init, Registered
<1>2. sent \in [Producer -> Nat] /\ \A p \in Producer : sent[p] <= Sends[p]
  BY CenterAssumption DEF Init
<1>3. messageQueue \in Seq(Message) /\ log \in Seq(Message) /\ got \in [Consumer -> Seq(Message)]
  BY DEF Init
<1>4. TypeOK
  BY <1>1, <1>2, <1>3 DEF Init, TypeOK
<1> QED
  BY <1>1, <1>4 DEF Init, MInv, Holder, Logged, Delivered, Linked

\* Steps that leave the order and the deliveries alone.
LEMMA Aside ==
    ASSUME MInv, TypeOK', UNCHANGED <<sent, handler, todo, history>>,
           \A c \in Consumer : /\ peer'[c] = "alive" => peer[c] = "alive"
                               /\ link[c] = "registered" => link'[c] = "registered"
    PROVE  MInv'
BY DEF MInv, TypeOK, Holder, Logged, Delivered, Has, Linked, Registered, history

\* A message that was not logged moves on without being sent.
LEMMA Moves ==
    ASSUME MInv, TypeOK', NEW m \in Message, handler[m] \in {"none", "accepted"},
           handler'[m] \in {"accepted", "numbered"},
           \A n \in Message : n # m => handler'[n] = handler[n],
           UNCHANGED <<link, todo, peer, history>>,
           \A p \in Producer, i \in Nat :
               i > sent'[p] /\ <<p, i>> \in Message => <<p, i>> # m /\ i > sent[p]
    PROVE  MInv'
<1>1. Holder'
  BY DEF MInv, Holder, history
<1>2. Logged'
  <2>1. \A i \in DOMAIN log : log[i] \in Message
    BY DEF MInv, TypeOK
  <2> QED
    BY <2>1 DEF MInv, Logged, history
<1>3. Delivered'
  BY DEF MInv, TypeOK, Delivered, Has, Registered, history
<1>4. Linked'
  BY DEF MInv, Linked, Registered, history
<1> QED
  BY <1>1, <1>2, <1>3, <1>4 DEF MInv


-----------------------------------------------------------------------------
(* The steps that a subscriber can see.                                    *)

LEMMA JoinStep ==
    ASSUME MInv, TypeOK', NEW c \in Consumer, HandleRegister(c)
    PROVE  MInv' /\ Promise!Join(c)
<1>1. c \notin Registered /\ Sending = {} /\ todo = {} /\ Len(log) \in Nat
  BY DEF HandleRegister, MutexFree, Sending, MInv, TypeOK, Linked, Holder
<1>2. /\ DOMAIN since' = Registered \cup {c} /\ since'[c] = Len(log)
      /\ \A d \in Registered : since'[d] = since[d]
      /\ link' = [link EXCEPT ![c] = "registered"]
      /\ UNCHANGED <<handler, todo, sent, peer, log, got>>
  BY <1>1 DEF HandleRegister, Registered, clientVars
<1>3. Delivered'
  <2>1. got[c] = SubSeq(log, Len(log) + 1, Len(log))
    BY <1>1, SuffixEmpty DEF MInv, TypeOK, Delivered
  <2> QED
    BY <1>1, <1>2, <2>1 DEF MInv, Delivered, Has, Registered
<1>4. Holder' /\ Logged'
  BY <1>2 DEF MInv, Holder, Logged
<1>5. Linked'
  BY <1>2 DEF MInv, TypeOK, Linked, Registered
<1>6. Promise!Join(c)
  BY <1>1 DEF HandleRegister, Promise!Join, Registered
<1> QED
  BY <1>3, <1>4, <1>5, <1>6 DEF MInv

LEMMA PublishStep ==
    ASSUME MInv, TypeOK', NEW m \in Message, BeginBroadcast(m)
    PROVE  MInv' /\ Promise!Publish(m)
<1>1. /\ Sending = {} /\ todo = {} /\ handler[m] = "numbered" /\ todo' = Registered
      /\ handler' = [handler EXCEPT ![m] = "sending"] /\ log' = Append(log, m)
      /\ UNCHANGED <<sent, link, peer, since, got>> /\ log \in Seq(Message) /\ Len(log) \in Nat
  BY DEF BeginBroadcast, MutexFree, Sending, MInv, TypeOK, Holder, Audience, clientVars
<1>2. \A n \in Message : handler'[n] = IF n = m THEN "sending" ELSE handler[n]
  BY <1>1 DEF MInv, TypeOK
<1>3. /\ Len(log') = Len(log) + 1 /\ log'[Len(log')] = m /\ DOMAIN log' = 1 .. Len(log) + 1
      /\ \A i \in 1 .. Len(log) : log'[i] = log[i] /\ log[i] \in Message
  BY <1>1
<1>4. Holder'
  BY <1>1, <1>2, <1>3 DEF Sending, Holder
<1>5. Logged'
  BY <1>1, <1>2, <1>3 DEF MInv, Logged
<1>6. Delivered'
  <2>1. ASSUME NEW c \in Registered, peer'[c] = "alive" PROVE Has(c)'
    <3>1. since[c] \in 0 .. Len(log) /\ got[c] = SubSeq(log, since[c] + 1, Len(log))
      BY <1>1, <2>1 DEF MInv, TypeOK, Delivered, Has
    <3>2. SubSeq(log', since[c] + 1, Len(log') - 1) = SubSeq(log, since[c] + 1, Len(log))
      BY <1>1, <3>1, SuffixOfAppend
    <3>3. c \in todo' /\ since'[c] < Len(log')
      BY <1>1, <1>3, <3>1
    <3> QED
      BY <1>1, <3>1, <3>2, <3>3 DEF Has
  <2>2. \A c \in Registered : since'[c] <= Len(log')
    BY <1>1, <1>3 DEF MInv, TypeOK, Delivered
  <2> QED
    BY <1>1, <2>1, <2>2 DEF MInv, Delivered, Registered
<1>7. Linked'
  BY <1>1 DEF MInv, Linked, Registered
<1>8. Promise!Publish(m)
  BY <1>1, <1>3 DEF Promise!Publish, MInv, Logged
<1> QED
  BY <1>4, <1>5, <1>6, <1>7, <1>8 DEF MInv

LEMMA DeliverStep ==
    ASSUME MInv, TypeOK', NEW m \in Message, NEW c \in Consumer, SendTo(m, c)
    PROVE  MInv' /\ Promise!Deliver(c)
<1>1. /\ c \in todo /\ c \in Registered /\ peer[c] = "alive" /\ handler[m] = "sending"
      /\ got' = [got EXCEPT ![c] = Append(@, m)] /\ todo' = todo \ {c}
      /\ UNCHANGED <<sent, handler, link, peer, log, since>>
      /\ log \in Seq(Message) /\ Len(log) \in Nat /\ since[c] \in Nat
  BY DEF SendTo, MInv, TypeOK, clientVars
<1>2. /\ log[Len(log)] = m /\ since[c] \in 0 .. Len(log) - 1
      /\ got[c] = SubSeq(log, since[c] + 1, Len(log) - 1)
  BY <1>1 DEF MInv, Holder, Delivered, Has
<1>3. /\ Append(got[c], m) = SubSeq(log, since[c] + 1, Len(log))
      /\ Len(got[c]) = Len(log) - 1 - since[c]
  BY <1>1, <1>2, SuffixGrows
<1>4. \A d \in Consumer : got'[d] = IF d = c THEN Append(got[c], m) ELSE got[d]
  BY <1>1 DEF MInv, TypeOK
<1>5. Delivered'
  <2>1. Has(c)'
    <3>1. c \notin todo' /\ since'[c] <= Len(log')
      BY <1>1, <1>2
    <3>2. got'[c] = SubSeq(log', since'[c] + 1, Len(log'))
      BY <1>1, <1>3, <1>4, Zenon
    <3> QED
      BY <3>1, <3>2 DEF Has
  <2>2. ASSUME NEW d \in Registered, d # c, peer[d] = "alive" PROVE Has(d)'
    BY <1>1, <1>4, <2>2 DEF MInv, TypeOK, Delivered, Has
  <2> QED
    BY <1>1, <1>4, <2>1, <2>2 DEF MInv, TypeOK, Delivered, Registered
<1>6. Holder' /\ Logged' /\ Linked'
  BY <1>1 DEF MInv, Holder, Logged, Linked, Registered
<1>7. Promise!Deliver(c)
  <2>1. since[c] + Len(got[c]) < Len(log) /\ since[c] + Len(got[c]) + 1 = Len(log)
    BY <1>1, <1>2, <1>3
  <2>2. got' = [got EXCEPT ![c] = Append(@, log[since[c] + Len(@) + 1])]
    BY <1>1, <1>2, <2>1
  <2> QED
    BY <1>1, <2>1, <2>2 DEF Promise!Deliver, Registered
<1> QED
  BY <1>5, <1>6, <1>7 DEF MInv

-----------------------------------------------------------------------------
(* All steps.                                                              *)

Seen == UNCHANGED history \/ Promise!Next

LEMMA AsideStep ==
    ASSUME MInv, TypeOK', NEW c \in Consumer,
           Connect(c) \/ RegisterConsumer(c) \/ ConsumerDies(c) \/ HandleUnknown(c)
    PROVE  MInv' /\ UNCHANGED history
<1>1. UNCHANGED <<sent, handler, todo, history>>
  BY DEF Connect, RegisterConsumer, ConsumerDies, HandleUnknown, clientVars
<1>2. \A d \in Consumer : /\ peer'[d] = "alive" => peer[d] = "alive"
                          /\ link[d] = "registered" => link'[d] = "registered"
  BY DEF Connect, RegisterConsumer, ConsumerDies, HandleUnknown, clientVars, MInv, TypeOK
<1>3. MInv'
  BY <1>1, <1>2, Aside
<1> QED
  BY <1>1, <1>3 DEF history

LEMMA SendStep ==
    ASSUME MInv, TypeOK', NEW p \in Producer, SendMessage(p)
    PROVE  MInv' /\ UNCHANGED history
<1> DEFINE m == <<p, sent[p] + 1>>
<1>1. sent[p] \in Nat /\ Sends[p] \in Nat /\ sent[p] < Sends[p]
  BY CenterAssumption DEF SendMessage, MInv, TypeOK
<1>2. m \in Message
  BY <1>1 DEF Message
<1>3. handler[m] = "none" /\ handler'[m] = "accepted"
  BY <1>1, <1>2 DEF SendMessage, MInv, TypeOK, Logged
<1>4. \A n \in Message : n # m => handler'[n] = handler[n]
  BY <1>2 DEF SendMessage, MInv, TypeOK
<1>5. UNCHANGED <<link, todo, peer, history>>
  BY DEF SendMessage
<1>6. ASSUME NEW q \in Producer, NEW i \in Nat, i > sent'[q], <<q, i>> \in Message
      PROVE  <<q, i>> # m /\ i > sent[q]
  <2>1. CASE q = p
    <3>1. sent'[q] = sent[p] + 1
      BY <2>1 DEF SendMessage, MInv, TypeOK
    <3> QED
      BY <1>1, <1>6, <2>1, <3>1
  <2>2. CASE q # p
    <3>1. sent'[q] = sent[q]
      BY <2>2 DEF SendMessage, MInv, TypeOK
    <3> QED
      BY <1>6, <2>2, <3>1
  <2> QED
    BY <2>1, <2>2
<1> HIDE DEF m
<1> QED
  BY <1>2, <1>3, <1>4, <1>5, <1>6, Moves DEF history

LEMMA NumberStep ==
    ASSUME MInv, TypeOK', NEW m \in Message, HandleMessage(m)
    PROVE  MInv' /\ UNCHANGED history
<1>1. handler[m] = "accepted" /\ handler'[m] = "numbered"
  BY DEF HandleMessage, MInv, TypeOK
<1>2. /\ \A n \in Message : n # m => handler'[n] = handler[n]
      /\ UNCHANGED <<link, todo, peer, sent, history>>
  BY DEF HandleMessage, MInv, TypeOK, clientVars
<1>3. \A p \in Producer, i \in Nat :
          i > sent'[p] /\ <<p, i>> \in Message => <<p, i>> # m /\ i > sent[p]
  BY <1>1, <1>2 DEF MInv, Logged
<1> QED
  BY <1>1, <1>2, <1>3, Moves DEF history

LEMMA LostStep ==
    ASSUME MInv, TypeOK', NEW m \in Message, NEW c \in Consumer, SendLost(m, c)
    PROVE  MInv' /\ UNCHANGED history
<1>1. /\ c \in todo /\ peer[c] # "alive" /\ todo' = todo \ {c}
      /\ peer' = [peer EXCEPT ![c] = "reset"]
      /\ UNCHANGED <<sent, handler, link, log, since, got>>
  BY DEF SendLost, StillServed, history
<1>2. \A d \in Consumer : peer'[d] = "alive" => d # c /\ peer[d] = "alive"
  BY <1>1 DEF MInv, TypeOK
<1>3. Delivered'
  BY <1>1, <1>2 DEF MInv, TypeOK, Delivered, Has, Registered
<1> QED
  BY <1>1, <1>3 DEF MInv, Holder, Logged, Linked, Registered, history

LEMMA EndStep ==
    ASSUME MInv, TypeOK', NEW m \in Message, EndBroadcast(m)
    PROVE  MInv' /\ UNCHANGED history
<1>1. /\ handler[m] = "sending" /\ todo = {} /\ handler' = [handler EXCEPT ![m] = "done"]
      /\ UNCHANGED <<sent, todo, link, peer, log, since, got>>
  BY DEF EndBroadcast, clientVars, history
<1>2. \A n \in Message : handler'[n] = IF n = m THEN "done" ELSE handler[n]
  BY <1>1 DEF MInv, TypeOK
<1>3. \A i \in DOMAIN log : log[i] \in Message
  BY DEF MInv, TypeOK
<1>4. Holder' /\ Logged'
  BY <1>1, <1>2, <1>3 DEF MInv, Holder, Logged
<1> QED
  BY <1>1, <1>4 DEF MInv, Delivered, Has, Linked, Registered, history

LEMMA Step == MInv /\ [Next]_vars => MInv' /\ [Promise!Next]_history
<1> SUFFICES ASSUME MInv, [Next]_vars PROVE MInv' /\ (UNCHANGED history \/ Promise!Next)
  OBVIOUS
<1>1. TypeOK'
  BY TypeStep DEF MInv
<1>2. ASSUME NEW c \in Consumer, HandleRegister(c) PROVE MInv' /\ Promise!Next
  BY <1>1, <1>2, JoinStep DEF Promise!Next
<1>3. ASSUME NEW m \in Message, BeginBroadcast(m) PROVE MInv' /\ Promise!Next
  BY <1>1, <1>3, PublishStep DEF Promise!Next
<1>4. ASSUME NEW m \in Message, NEW c \in Consumer, SendTo(m, c) PROVE MInv' /\ Promise!Next
  BY <1>1, <1>4, DeliverStep DEF Promise!Next
<1>5. ASSUME NEW m \in Message, NEW c \in Consumer, BrokenPipe(m, c)
      PROVE  MInv' /\ UNCHANGED history
  BY <1>1, <1>5, Aside DEF BrokenPipe, clientVars
<1>6. CASE Stop \/ UNCHANGED vars
  BY <1>1, <1>6, Aside DEF Stop, vars, clientVars, history
<1> QED
  BY <1>1, <1>2, <1>3, <1>4, <1>5, <1>6, AsideStep, SendStep, NumberStep, LostStep, EndStep
     DEF Next, MessageThread, ConsumerThread

THEOREM Invariant == Spec => []MInv
BY InitMInv, Step, PTL DEF Spec

\* TypeOK for any clients.
THEOREM TypeCorrect == Spec => []TypeOK
<1>1. MInv => TypeOK
  BY DEF MInv
<1> QED
  BY Invariant, <1>1, PTL

\* EachGetsAll: one broadcast at a time, and whoever is not being served has
\* every message since it registered, whoever else died.
THEOREM AllReachAll == Spec => []EachGetsAll
<1>1. MInv => EachGetsAll
  <2> SUFFICES ASSUME MInv PROVE EachGetsAll
    OBVIOUS
  <2>1. Cardinality(Sending) <= 1
    <3>1. CASE Sending = {}
      BY <3>1, FS_EmptySet
    <3>2. CASE Sending # {}
      <4>1. PICK m \in Message : m \in Sending
        BY <3>2 DEF Sending
      <4>2. Sending = {m}
        BY <4>1 DEF Sending, MInv, Holder
      <4> QED
        BY <4>2, FS_Singleton
    <3> QED
      BY <3>1, <3>2
  <2> QED
    BY <2>1 DEF EachGetsAll, OneAtATime, MInv, Delivered, Has
<1> QED
  BY Invariant, <1>1, PTL

\* PromiseSpec: threads, mutexes and sockets implement the promise.
THEOREM Implements == Spec => PromiseSpec
<1>1. Init => Promise!Init
  BY DEF Init, Promise!Init, Promise!Nobody
<1>2. MInv /\ [Next]_vars => [Promise!Next]_(Promise!vars)
  BY Step DEF history, Promise!vars
<1> QED
  BY Invariant, <1>1, <1>2, PTL DEF Spec, PromiseSpec, Promise!Spec

=============================================================================
