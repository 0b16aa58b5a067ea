----------------------- MODULE ProducerConsumerProofs -----------------------
(***************************************************************************)
(* Proofs about ProducerConsumer, for any number of producers, any set of  *)
(* consumers and any total.                                                *)
(***************************************************************************)
EXTENDS ProducerConsumer, FiniteSetTheorems, TLAPS

-----------------------------------------------------------------------------
(* Types.                                                                  *)

LEMMA QuotaIsNat == Quota \in Nat
BY LabAssumption DEF Quota

LEMMA WokenTyped ==
    ASSUME TypeOK
    PROVE  /\ Woken \in [Consumer -> {"pop", "check"} \cup Off]
           /\ \A c \in Consumer : Woken[c] = IF cpc[c] = "waiting" THEN "pop" ELSE cpc[c]
BY DEF TypeOK, Woken, Off

LEMMA TypeStep == TypeOK /\ [Next]_vars => TypeOK'
<1> SUFFICES ASSUME TypeOK, [Next]_vars PROVE TypeOK'
  OBVIOUS
<1> USE QuotaIsNat DEF TypeOK, Off
<1>1. ASSUME NEW p \in Producer, Push(p) PROVE TypeOK'
  <2>1. produced[p] + 1 \in 1 .. Quota
    BY <1>1 DEF Push, More
  <2>2. numBuffer' \in Seq(Number)
    BY <1>1, <2>1 DEF Push, Number
  <2>3. cpc' \in [Consumer -> {"pop", "waiting", "check"} \cup Off]
    BY <1>1, WokenTyped DEF Push
  <2> QED
    BY <1>1, <2>1, <2>2, <2>3 DEF Push
<1>2. ASSUME NEW p \in Producer, EndProduction(p) PROVE TypeOK'
  BY <1>2 DEF EndProduction, Declares
<1>3. ASSUME NEW c \in Consumer, Pop(c) PROVE TypeOK'
  BY <1>3 DEF Pop, Rest
<1>4. ASSUME NEW c \in Consumer, Sleep(c) PROVE TypeOK'
  BY <1>4 DEF Sleep
<1>5. ASSUME NEW c \in Consumer, CheckFinished(c) PROVE TypeOK'
  BY <1>5 DEF CheckFinished
<1>6. ASSUME NEW c \in Consumer, TestPrinted(c) PROVE TypeOK'
  BY <1>6 DEF TestPrinted
<1>7. ASSUME NEW c \in Consumer, LoadPrinted(c) PROVE TypeOK'
  BY <1>7 DEF LoadPrinted
<1>8. ASSUME NEW c \in Consumer, StorePrinted(c) PROVE TypeOK'
  BY <1>8 DEF StorePrinted
<1>9. ASSUME NEW c \in Consumer, Announce(c) PROVE TypeOK'
  BY <1>9 DEF Announce
<1>10. ASSUME NEW c \in Consumer, SpuriousWake(c) PROVE TypeOK'
  BY <1>10, LabAssumption DEF SpuriousWake
<1>11. CASE JoinProducers
  BY <1>11 DEF JoinProducers
<1>12. CASE JoinConsumers
  BY <1>12 DEF JoinConsumers
<1>13. CASE UNCHANGED vars
  BY <1>13 DEF vars
<1> QED
  BY <1>1, <1>2, <1>3, <1>4, <1>5, <1>6, <1>7, <1>8, <1>9, <1>10, <1>11, <1>12, <1>13
     DEF Next, ProducerStep, ConsumerStep, Leave

LEMMA InitTyped == Init => TypeOK
<1> SUFFICES ASSUME Init PROVE TypeOK
  OBVIOUS
<1>1. numBuffer \in Seq(Number) /\ spurious \in 0 .. MaxSpurious
  BY LabAssumption DEF Init
<1>2. produced \in [Producer -> 0 .. Quota] /\ num \in [Consumer -> SUBSET Number]
  BY QuotaIsNat DEF Init
<1> QED
  BY <1>1, <1>2 DEF Init, TypeOK

\* The type invariant, for every number of threads and every total.
THEOREM TypeCorrect == Spec => []TypeOK
BY InitTyped, TypeStep, PTL DEF Spec

-----------------------------------------------------------------------------
(* Sleeping.                                                               *)

LEMMA SleepStep == TypeOK /\ NoSleepOnWork /\ [Next]_vars => NoSleepOnWork'
<1> SUFFICES ASSUME TypeOK, NoSleepOnWork, [Next]_vars PROVE NoSleepOnWork'
  OBVIOUS
<1> USE DEF NoSleepOnWork
<1>1. ASSUME NEW p \in Producer, Push(p) PROVE NoSleepOnWork'
  BY <1>1, WokenTyped DEF Push
<1>2. ASSUME NEW p \in Producer, EndProduction(p) PROVE NoSleepOnWork'
  BY <1>2 DEF EndProduction
<1>3. ASSUME NEW c \in Consumer, Pop(c) PROVE NoSleepOnWork'
  BY <1>3 DEF Pop, TypeOK
<1>4. ASSUME NEW c \in Consumer, Sleep(c) PROVE NoSleepOnWork'
  BY <1>4 DEF Sleep, MustWait
<1>5. ASSUME NEW c \in Consumer, CheckFinished(c) PROVE NoSleepOnWork'
  BY <1>5 DEF CheckFinished, TypeOK
<1>6. ASSUME NEW c \in Consumer, TestPrinted(c) PROVE NoSleepOnWork'
  BY <1>6 DEF TestPrinted, TypeOK
<1>7. ASSUME NEW c \in Consumer, LoadPrinted(c) PROVE NoSleepOnWork'
  BY <1>7 DEF LoadPrinted, TypeOK
<1>8. ASSUME NEW c \in Consumer, StorePrinted(c) PROVE NoSleepOnWork'
  BY <1>8 DEF StorePrinted, TypeOK
<1>9. ASSUME NEW c \in Consumer, Announce(c) PROVE NoSleepOnWork'
  BY <1>9 DEF Announce, TypeOK
<1>10. ASSUME NEW c \in Consumer, SpuriousWake(c) PROVE NoSleepOnWork'
  BY <1>10 DEF SpuriousWake, TypeOK
<1>11. CASE JoinProducers \/ JoinConsumers \/ UNCHANGED vars
  BY <1>11 DEF JoinProducers, JoinConsumers, vars
<1> QED
  BY <1>1, <1>2, <1>3, <1>4, <1>5, <1>6, <1>7, <1>8, <1>9, <1>10, <1>11
     DEF Next, ProducerStep, ConsumerStep, Leave

\* No consumer sleeps on a number: no wakeup of push is lost.
THEOREM NobodySleepsOnWork == Spec => []NoSleepOnWork
<1>1. Init => NoSleepOnWork
  BY DEF Init, NoSleepOnWork
<1> QED
  BY TypeCorrect, <1>1, SleepStep, PTL DEF Spec

-----------------------------------------------------------------------------
(* The announcement.  A consumer that finds the flag set leaves in silence, *)
(* and one that finds it set while it turns it round clears it again: both  *)
(* saw the flag of a consumer whose words are out, or just about to be.     *)

Said == announced > 0 \/ \E c \in Consumer : cpc[c] = "say"
Spoken ==
    /\ printed \/ (\E c \in Consumer : cpc[c] \in {"clear", "gone"}) => Said
    /\ main = "done" => \A c \in Consumer : cpc[c] = "gone"

LEMMA SpokenStep == TypeOK /\ Spoken /\ [Next]_vars => Spoken'
<1> SUFFICES ASSUME TypeOK, Spoken, [Next]_vars PROVE Spoken'
  OBVIOUS
<1> USE DEF Spoken, Said
<1>1. ASSUME NEW p \in Producer, Push(p) PROVE Spoken'
  BY <1>1, WokenTyped DEF Push, TypeOK
<1>2. ASSUME NEW p \in Producer, EndProduction(p) PROVE Spoken'
  BY <1>2 DEF EndProduction
<1>3. ASSUME NEW c \in Consumer, Pop(c) PROVE Spoken'
  BY <1>3 DEF Pop, TypeOK
<1>4. ASSUME NEW c \in Consumer, Sleep(c) PROVE Spoken'
  BY <1>4 DEF Sleep, TypeOK
<1>5. ASSUME NEW c \in Consumer, CheckFinished(c) PROVE Spoken'
  BY <1>5 DEF CheckFinished, TypeOK
<1>6. ASSUME NEW c \in Consumer, TestPrinted(c) PROVE Spoken'
  BY <1>6 DEF TestPrinted, SaysNothing, TypeOK
<1>7. ASSUME NEW c \in Consumer, LoadPrinted(c) PROVE Spoken'
  BY <1>7 DEF LoadPrinted, TypeOK
<1>8. ASSUME NEW c \in Consumer, StorePrinted(c) PROVE Spoken'
  BY <1>8 DEF StorePrinted, TypeOK
<1>9. ASSUME NEW c \in Consumer, Announce(c) PROVE Spoken'
  BY <1>9 DEF Announce, TypeOK
<1>10. ASSUME NEW c \in Consumer, SpuriousWake(c) PROVE Spoken'
  BY <1>10 DEF SpuriousWake, TypeOK
<1>11. CASE JoinProducers \/ JoinConsumers \/ UNCHANGED vars
  BY <1>11 DEF JoinProducers, JoinConsumers, vars
<1> QED
  BY <1>1, <1>2, <1>3, <1>4, <1>5, <1>6, <1>7, <1>8, <1>9, <1>10, <1>11
     DEF Next, ProducerStep, ConsumerStep, Leave

\* No consumer leaves with the end unsaid and with nobody about to say it, and
\* a run that ends has announced it, whatever the race on printed does.
THEOREM AnnouncesTheEnd == Spec => []EndIsAnnounced
<1>1. Init => Spoken
  BY DEF Init, Spoken
<1>2. Spoken => EndIsAnnounced
  BY DEF Spoken, Said, EndIsAnnounced
<1> QED
  BY TypeCorrect, <1>1, <1>2, SpokenStep, PTL DEF Spec

-----------------------------------------------------------------------------
(* Conservation.  Places says that a number is in one place only, and how  *)
(* many a consumer holds; the rest is counting.                            *)

LEMMA AppendBuffered ==
    ASSUME NEW S, NEW s \in Seq(S), NEW n \in S
    PROVE  {Append(s, n)[i] : i \in DOMAIN Append(s, n)} = {s[i] : i \in DOMAIN s} \cup {n}
<1>1. /\ DOMAIN Append(s, n) = 1 .. Len(s) + 1 /\ DOMAIN s = 1 .. Len(s) /\ Len(s) \in Nat
      /\ \A i \in 1 .. Len(s) : Append(s, n)[i] = s[i]
      /\ Append(s, n)[Len(s) + 1] = n
  OBVIOUS
<1>2. ASSUME NEW i \in 1 .. Len(s) + 1 PROVE i \in 1 .. Len(s) \/ i = Len(s) + 1
  BY <1>1
<1>3. \A i \in 1 .. Len(s) : i \in 1 .. Len(s) + 1
  BY <1>1
<1>4. Len(s) + 1 \in 1 .. Len(s) + 1
  BY <1>1
<1> QED
  BY <1>1, <1>2, <1>3, <1>4, Zenon

Once(s) == \A i, j \in 1 .. Len(s) : s[i] = s[j] => i = j

LEMMA TailBuffered ==
    ASSUME NEW S, NEW s \in Seq(S), s # <<>>, Once(s)
    PROVE  /\ {Tail(s)[i] : i \in DOMAIN Tail(s)} = {s[i] : i \in DOMAIN s} \ {Head(s)}
           /\ Once(Tail(s))
<1>1. /\ DOMAIN Tail(s) = 1 .. Len(s) - 1 /\ DOMAIN s = 1 .. Len(s) /\ Len(s) \in Nat \ {0}
      /\ \A i \in 1 .. Len(s) - 1 : Tail(s)[i] = s[i + 1]
      /\ Head(s) = s[1] /\ Len(Tail(s)) = Len(s) - 1
  OBVIOUS
<1>2. Once(Tail(s))
  BY <1>1 DEF Once
<1>3. \A i \in DOMAIN Tail(s) : Tail(s)[i] \in {s[j] : j \in DOMAIN s} /\ Tail(s)[i] # Head(s)
  BY <1>1 DEF Once
<1>4. ASSUME NEW j \in DOMAIN s, s[j] # Head(s)
      PROVE  \E i \in DOMAIN Tail(s) : Tail(s)[i] = s[j]
  <2>1. j - 1 \in 1 .. Len(s) - 1 /\ s[j] = Tail(s)[j - 1]
    BY <1>1, <1>4
  <2> QED
    BY <1>1, <2>1
<1> QED
  BY <1>2, <1>3, <1>4

LEMMA NumbersFinite == IsFiniteSet(Number)
<1>1. IsFiniteSet(Producer)
  BY FS_Interval, LabAssumption DEF Producer
<1>2. IsFiniteSet(1 .. Quota)
  BY FS_Interval, QuotaIsNat
<1> QED
  BY <1>1, <1>2, FS_Product DEF Number

Gone == tested \cup discarded
Places ==
    /\ Once(numBuffer)
    /\ Buffered \cap Held = {} /\ Buffered \cap Gone = {} /\ Held \cap Gone = {}
    /\ tested \cap discarded = {}
    /\ \A c \in Consumer : IF cpc[c] = "check" THEN \E n \in Number : num[c] = {n}
                                               ELSE num[c] = {}

CInv == TypeOK /\ NumberConservation /\ Places

\* The counted sets are finite.
LEMMA Countable ==
    ASSUME TypeOK
    PROVE  /\ IsFiniteSet(Held) /\ IsFiniteSet(tested) /\ IsFiniteSet(discarded)
           /\ IsFiniteSet(Pushed) /\ Held \subseteq Number /\ Len(numBuffer) \in Nat
           /\ Cardinality(Held) \in Nat /\ Cardinality(tested) \in Nat
           /\ Cardinality(discarded) \in Nat /\ Cardinality(Pushed) \in Nat
<1>1. Held \subseteq Number /\ Pushed \subseteq Number /\ Len(numBuffer) \in Nat
  BY DEF Held, TypeOK, Pushed
<1>2. IsFiniteSet(Held) /\ IsFiniteSet(tested) /\ IsFiniteSet(discarded) /\ IsFiniteSet(Pushed)
  BY <1>1, NumbersFinite, FS_Subset DEF TypeOK
<1> QED
  BY <1>1, <1>2, FS_CardinalityType

LEMMA PushKeeps == ASSUME NEW p \in Producer, CInv, Push(p), TypeOK' PROVE CInv'
<1> DEFINE n == <<p, produced[p] + 1>>
<1>1. n \in Number /\ n \notin Pushed /\ produced[p] \in Nat
  BY QuotaIsNat DEF Push, More, CInv, TypeOK, Number, Pushed
<1>2. numBuffer' = Append(numBuffer, n) /\ numBuffer \in Seq(Number)
  BY DEF Push, CInv, TypeOK
<1>3. Buffered' = Buffered \cup {n} /\ Len(numBuffer') = Len(numBuffer) + 1
  <2> HIDE DEF n
  <2>1. {Append(numBuffer, n)[i] : i \in DOMAIN Append(numBuffer, n)} = Buffered \cup {n}
    BY <1>1, <1>2, AppendBuffered DEF Buffered
  <2>2. Buffered' = {Append(numBuffer, n)[i] : i \in DOMAIN Append(numBuffer, n)}
    BY <1>2, Zenon DEF Buffered
  <2>3. Len(Append(numBuffer, n)) = Len(numBuffer) + 1
    BY <1>1, <1>2
  <2> QED
    BY <1>2, <2>1, <2>2, <2>3, Zenon
<1>4. Pushed' = Pushed \cup {n}
  <2>1. \A q \in Producer : produced'[q] = IF q = p THEN produced[p] + 1 ELSE produced[q]
    BY DEF Push, CInv, TypeOK
  <2>2. ASSUME NEW m \in Number
        PROVE  m[2] <= produced'[m[1]] <=> (m[2] <= produced[m[1]] \/ m = n)
    <3>1. m = <<m[1], m[2]>> /\ m[1] \in Producer /\ m[2] \in 1 .. Quota
      BY DEF Number
    <3>2. CASE m[1] = p
      <4>1. m = n <=> m[2] = produced[p] + 1
        BY <3>1, <3>2
      <4>2. m[2] \in Nat /\ produced'[m[1]] = produced[p] + 1 /\ produced[m[1]] = produced[p]
        BY <2>1, <3>1, <3>2, QuotaIsNat
      <4> QED
        BY <1>1, <4>1, <4>2
    <3>3. CASE m[1] # p
      BY <2>1, <3>1, <3>3
    <3> QED
      BY <3>2, <3>3
  <2> QED
    BY <1>1, <2>2 DEF Pushed
<1>5. Held' = Held /\ tested' = tested /\ discarded' = discarded /\ num' = num
  BY DEF Push, Held
<1>6. n \notin Buffered /\ n \notin Held /\ n \notin Gone
  BY <1>1 DEF CInv, NumberConservation, Gone
<1>7. Once(numBuffer')
  <2>1. \A i \in 1 .. Len(numBuffer) : numBuffer[i] # n
    BY <1>2, <1>6 DEF Buffered
  <2> QED
    BY <1>2, <2>1 DEF Once, CInv, Places
<1>8. \A c \in Consumer : (cpc'[c] = "check") = (cpc[c] = "check")
  BY WokenTyped DEF Push, CInv
<1>9. Places'
  BY <1>3, <1>5, <1>6, <1>7, <1>8 DEF Places, CInv, Gone
<1>10. NumberConservation'
  <2>1. Cardinality(Pushed') = Cardinality(Pushed) + 1
    BY <1>1, <1>4, Countable, FS_AddElement DEF CInv
  <2>2. Pushed' = Buffered' \cup Held' \cup tested' \cup discarded'
    BY <1>3, <1>4, <1>5 DEF CInv, NumberConservation
  <2>3. Len(numBuffer') + Cardinality(Held') + Cardinality(tested') + Cardinality(discarded')
          = Cardinality(Pushed')
    BY <1>3, <1>5, <2>1, Countable DEF CInv, NumberConservation
  <2> QED
    BY <1>5, <2>2, <2>3 DEF CInv, NumberConservation
<1> QED
  BY <1>9, <1>10 DEF CInv

LEMMA PopKeeps == ASSUME NEW c \in Consumer, CInv, Pop(c), TypeOK' PROVE CInv'
<1> DEFINE n == Head(numBuffer)
<1>1. numBuffer \in Seq(Number) /\ numBuffer # <<>> /\ n \in Buffered /\ n \in Number
  BY DEF Pop, CInv, TypeOK, Buffered
<1>2. Buffered' = Buffered \ {n} /\ Once(numBuffer') /\ Len(numBuffer') = Len(numBuffer) - 1
  <2>1. /\ {Tail(numBuffer)[i] : i \in DOMAIN Tail(numBuffer)} = Buffered \ {n}
        /\ Once(Tail(numBuffer))
    BY <1>1, TailBuffered DEF CInv, Places, Buffered
  <2>2. numBuffer' = Tail(numBuffer)
    BY DEF Pop, Rest
  <2>3. Len(Tail(numBuffer)) = Len(numBuffer) - 1
    BY <1>1
  <2> QED
    BY <2>1, <2>2, <2>3, Zenon DEF Buffered, Once
<1>3. num[c] = {} /\ num' = [num EXCEPT ![c] = {n}] /\ cpc' = [cpc EXCEPT ![c] = "check"]
  BY DEF Pop, CInv, Places
<1>4. \A d \in Consumer : /\ num'[d] = IF d = c THEN {n} ELSE num[d]
                          /\ cpc'[d] = IF d = c THEN "check" ELSE cpc[d]
  BY <1>3 DEF CInv, TypeOK
<1>5. Held' = Held \cup {n}
  BY <1>3, <1>4 DEF Held
<1>6. tested' = tested /\ discarded' = discarded /\ Pushed' = Pushed
  BY DEF Pop, Pushed
<1>7. n \notin Held /\ n \notin Gone
  BY <1>1 DEF CInv, Places
<1>8. Places'
  BY <1>1, <1>2, <1>4, <1>5, <1>6, <1>7 DEF Places, CInv, Gone
<1>9. NumberConservation'
  <2>1. Cardinality(Held') = Cardinality(Held) + 1
    BY <1>5, <1>7, Countable, FS_AddElement DEF CInv
  <2>2. Pushed' = Buffered' \cup Held' \cup tested' \cup discarded'
    BY <1>1, <1>2, <1>5, <1>6 DEF CInv, NumberConservation
  <2>3. Len(numBuffer') + Cardinality(Held') + Cardinality(tested') + Cardinality(discarded')
          = Cardinality(Pushed')
    BY <1>2, <1>6, <2>1, Countable DEF CInv, NumberConservation
  <2>4. \A d, e \in Consumer : num'[d] \cap num'[e] # {} => d = e
    BY <1>4, <1>7 DEF CInv, NumberConservation, Held
  <2> QED
    BY <2>2, <2>3, <2>4 DEF NumberConservation
<1> QED
  BY <1>8, <1>9 DEF CInv

LEMMA CheckKeeps == ASSUME NEW c \in Consumer, CInv, CheckFinished(c), TypeOK' PROVE CInv'
<1>1. PICK n \in Number : num[c] = {n}
  BY DEF CheckFinished, CInv, Places
<1>2. \A d \in Consumer : /\ num'[d] = IF d = c THEN {} ELSE num[d]
                          /\ d # c => cpc'[d] = cpc[d]
                          /\ cpc'[c] # "check"
  BY DEF CheckFinished, CInv, TypeOK
<1>3. n \in Held /\ n \notin Buffered /\ n \notin Gone /\ Held' = Held \ {n}
  <2>1. n \in Held
    BY <1>1 DEF Held
  <2>2. \A d \in Consumer : d # c => n \notin num[d]
    BY <1>1 DEF CInv, NumberConservation
  <2>3. Held' = Held \ {n}
    BY <1>1, <1>2, <2>2 DEF Held
  <2> QED
    BY <2>1, <2>3 DEF CInv, Places
<1>4. numBuffer' = numBuffer /\ Buffered' = Buffered /\ Pushed' = Pushed
  BY DEF CheckFinished, Buffered, Pushed
<1>5. \/ tested' = tested \cup {n} /\ discarded' = discarded
      \/ discarded' = discarded \cup {n} /\ tested' = tested
  BY <1>1 DEF CheckFinished
<1>6. Places'
  BY <1>2, <1>3, <1>4, <1>5 DEF Places, CInv, Gone
<1>7. NumberConservation'
  <2>1. Cardinality(Held') = Cardinality(Held) - 1
    BY <1>3, Countable, FS_RemoveElement DEF CInv
  <2>2. Cardinality(tested \cup {n}) = Cardinality(tested) + 1
        /\ Cardinality(discarded \cup {n}) = Cardinality(discarded) + 1
    BY <1>3, Countable, FS_AddElement DEF CInv, Gone
  <2>3. Pushed' = Buffered' \cup Held' \cup tested' \cup discarded'
    BY <1>3, <1>4, <1>5 DEF CInv, NumberConservation
  <2>4. Len(numBuffer') + Cardinality(Held') + Cardinality(tested') + Cardinality(discarded')
          = Cardinality(Pushed')
    <3>1. Len(numBuffer) + Cardinality(Held) + Cardinality(tested) + Cardinality(discarded)
            = Cardinality(Pushed)
      BY DEF CInv, NumberConservation
    <3>2. Cardinality(tested') + Cardinality(discarded')
            = Cardinality(tested) + Cardinality(discarded) + 1
      <4>1. CASE tested' = tested \cup {n} /\ discarded' = discarded
        <5>1. /\ Cardinality(tested') = Cardinality(tested) + 1
              /\ Cardinality(discarded') = Cardinality(discarded)
          BY <4>1, <2>2, Zenon
        <5> QED
          BY <5>1, Countable DEF CInv
      <4>2. CASE discarded' = discarded \cup {n} /\ tested' = tested
        <5>1. /\ Cardinality(discarded') = Cardinality(discarded) + 1
              /\ Cardinality(tested') = Cardinality(tested)
          BY <4>2, <2>2, Zenon
        <5> QED
          BY <5>1, Countable DEF CInv
      <4> QED
        BY <1>5, <4>1, <4>2
    <3>3. /\ Cardinality(tested') \in Nat /\ Cardinality(discarded') \in Nat
      BY NumbersFinite, FS_Subset, FS_CardinalityType DEF TypeOK
    <3>4. Len(numBuffer') = Len(numBuffer) /\ Cardinality(Pushed') = Cardinality(Pushed)
      BY <1>4, Zenon
    <3> QED
      BY <2>1, <3>1, <3>2, <3>3, <3>4, Countable DEF CInv
  <2>5. \A d, e \in Consumer : num'[d] \cap num'[e] # {} => d = e
    BY <1>2 DEF CInv, NumberConservation
  <2> QED
    BY <2>3, <2>4, <2>5 DEF NumberConservation
<1> QED
  BY <1>6, <1>7 DEF CInv

LEMMA ConservationStep == CInv /\ [Next]_vars => CInv'
<1> SUFFICES ASSUME CInv, [Next]_vars PROVE CInv'
  OBVIOUS
<1>1. TypeOK'
  BY TypeStep DEF CInv
<1>2. ASSUME /\ UNCHANGED <<numBuffer, produced, num, tested, discarded>>
             /\ \A c \in Consumer : (cpc'[c] = "check") = (cpc[c] = "check")
      PROVE  CInv'
  <2>1. Buffered' = Buffered /\ Held' = Held /\ Pushed' = Pushed /\ Gone' = Gone
    BY <1>2 DEF Buffered, Held, Pushed, Gone
  <2>2. Places'
    BY <1>2, <2>1 DEF CInv, Places, Once
  <2>3. NumberConservation'
    BY <1>2, <2>1 DEF CInv, NumberConservation
  <2> QED
    BY <1>1, <2>2, <2>3 DEF CInv
<1>3. ASSUME NEW p \in Producer, EndProduction(p) PROVE CInv'
  BY <1>2, <1>3 DEF EndProduction
<1>4. ASSUME NEW c \in Consumer, Sleep(c) \/ Leave(c) \/ SpuriousWake(c)
      PROVE  CInv'
  <2>1. \A d \in Consumer : (cpc'[d] = "check") = (cpc[d] = "check")
    BY <1>4 DEF Sleep, Leave, TestPrinted, LoadPrinted, StorePrinted, Announce,
                SpuriousWake, CInv, TypeOK
  <2> QED
    BY <1>2, <1>4, <2>1
       DEF Sleep, Leave, TestPrinted, LoadPrinted, StorePrinted, Announce, SpuriousWake
<1>5. CASE JoinProducers \/ JoinConsumers \/ UNCHANGED vars
  BY <1>2, <1>5 DEF JoinProducers, JoinConsumers, vars
<1> QED
  BY <1>1, <1>3, <1>4, <1>5, PushKeeps, PopKeeps, CheckKeeps DEF Next, ProducerStep, ConsumerStep

\* Every number pushed is in exactly one place, for any threads and total.
THEOREM NumbersConserved == Spec => []NumberConservation
<1>1. Init => CInv
  <2> SUFFICES ASSUME Init PROVE CInv
    OBVIOUS
  <2>1. TypeOK
    BY InitTyped
  <2>2. Buffered = {} /\ Len(numBuffer) = 0
    BY DEF Init, Buffered
  <2>3. Held = {}
    BY DEF Init, Held
  <2>4. Pushed = {}
    BY QuotaIsNat DEF Init, Pushed, Number
  <2>5. NumberConservation
    BY <2>2, <2>3, <2>4, FS_EmptySet DEF Init, NumberConservation
  <2>6. Places
    BY <2>2, <2>3 DEF Init, Places, Gone, Once
  <2> QED
    BY <2>1, <2>5, <2>6 DEF CInv
<1>2. CInv => NumberConservation
  BY DEF CInv
<1> QED
  BY <1>1, <1>2, ConservationStep, PTL DEF Spec

=============================================================================
