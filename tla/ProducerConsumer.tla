-------------------------- MODULE ProducerConsumer --------------------------
(***************************************************************************)
(* week7/lab2: producers put numbers into a Buffer, consumers take them    *)
(* and test them for primality, ThreadManager::run joins them all.  A      *)
(* number is the pair of its producer and its rank there: nothing depends  *)
(* on its value.                                                           *)
(***************************************************************************)
EXTENDS Naturals, Sequences, FiniteSets

CONSTANTS
    NumProducers, \* numProducers; the producers are 0 .. NumProducers - 1
    Consumer,     \* the consumer threads
    Total,        \* how many numbers are wanted (1000000 in the program)
    MaxSpurious   \* bound on spurious wakeups

ASSUME LabAssumption ==
    /\ NumProducers \in Nat \ {0} /\ Total \in Nat /\ MaxSpurious \in Nat

Producer == 0 .. NumProducers - 1
Quota == Total \div NumProducers
Number == Producer \X (1 .. Quota)

VARIABLES
    numBuffer, finished,  \* Buffer
    produced, ppc,        \* per producer: numbers pushed; where it is
    cpc, num,             \* per consumer: where it is; the numbers it holds
    tested, discarded,    \* numbers that were tested, or thrown away
    printed, announced,   \* the global flag; times the end was announced
    main,                 \* what ThreadManager::run waits for
    spurious

vars == <<numBuffer, finished, produced, ppc, cpc, num, tested, discarded,
          printed, announced, main, spurious>>

Init ==
    /\ numBuffer = <<>> /\ finished = FALSE
    /\ produced = [p \in Producer |-> 0] /\ ppc = [p \in Producer |-> "produce"]
    /\ cpc = [c \in Consumer |-> "pop"] /\ num = [c \in Consumer |-> {}]
    /\ tested = {} /\ discarded = {}
    /\ printed = FALSE /\ announced = 0
    /\ main = "join_producers" /\ spurious = 0

-----------------------------------------------------------------------------
\* Buffer::push notifies all.  The definitions named Mut... are faulty variants
\* that no specification uses, each before the definition it spoils.
MutWoken == cpc                                      \* notify_all forgotten
Woken == [c \in Consumer |-> IF cpc[c] = "waiting" THEN "pop" ELSE cpc[c]]

MutMore(p) == produced[p] <= Quota                   \* one number too many
More(p) == produced[p] < Quota

Push(p) ==
    /\ ppc[p] = "produce" /\ More(p)
    /\ produced' = [produced EXCEPT ![p] = @ + 1]
    /\ numBuffer' = Append(numBuffer, <<p, produced[p] + 1>>)
    /\ cpc' = Woken
    /\ UNCHANGED <<finished, ppc, num, tested, discarded, printed, announced, main, spurious>>

\* Only the producer started last sets finished, and it notifies nobody.
Declares(p) == p = NumProducers - 1

EndProduction(p) ==
    /\ ppc[p] = "produce" /\ ~ More(p)
    /\ ppc' = [ppc EXCEPT ![p] = "done"]
    /\ finished' = (finished \/ Declares(p))
    /\ UNCHANGED <<numBuffer, produced, cpc, num, tested, discarded, printed,
                   announced, main, spurious>>

\* Buffer::pop: the predicate of the wait is that the buffer is not empty,
\* so the branch that returns -1 is never taken.
MutRest == numBuffer                                 \* front() without pop()
Rest == Tail(numBuffer)

Pop(c) ==
    /\ cpc[c] = "pop" /\ numBuffer # <<>>
    /\ num' = [num EXCEPT ![c] = {Head(numBuffer)}]
    /\ numBuffer' = Rest
    /\ cpc' = [cpc EXCEPT ![c] = "check"]
    /\ UNCHANGED <<finished, produced, ppc, tested, discarded, printed, announced,
                   main, spurious>>

MutMustWait == TRUE                                  \* a wait without predicate
MustWait == numBuffer = <<>>

Sleep(c) ==
    /\ cpc[c] = "pop" /\ MustWait
    /\ cpc' = [cpc EXCEPT ![c] = "waiting"]
    /\ UNCHANGED <<numBuffer, finished, produced, ppc, num, tested, discarded,
                   printed, announced, main, spurious>>

SpuriousWake(c) ==
    /\ cpc[c] = "waiting" /\ spurious < MaxSpurious
    /\ spurious' = spurious + 1
    /\ cpc' = [cpc EXCEPT ![c] = "pop"]
    /\ UNCHANGED <<numBuffer, finished, produced, ppc, num, tested, discarded,
                   printed, announced, main>>

\* getFinished() without a lock, after the pop.
CheckFinished(c) ==
    /\ cpc[c] = "check"
    /\ num' = [num EXCEPT ![c] = {}]
    /\ IF finished
       THEN /\ cpc' = [cpc EXCEPT ![c] = "leaving"]
            /\ discarded' = discarded \cup num[c] /\ UNCHANGED tested
       ELSE /\ cpc' = [cpc EXCEPT ![c] = "pop"]
            /\ tested' = tested \cup num[c] /\ UNCHANGED discarded
    /\ UNCHANGED <<numBuffer, finished, produced, ppc, printed, announced, main, spurious>>

\* if (!printed) { printed = !printed; say } without a lock: the flag is read
\* once for the test, read again and turned round, and written; only then is
\* the end announced.
MutSaysNothing == finished                           \* the wrong flag tested
SaysNothing == printed

TestPrinted(c) ==
    /\ cpc[c] = "leaving"
    /\ cpc' = [cpc EXCEPT ![c] = IF SaysNothing THEN "gone" ELSE "announce"]
    /\ UNCHANGED <<numBuffer, finished, produced, ppc, num, tested, discarded,
                   printed, announced, main, spurious>>

LoadPrinted(c) ==
    /\ cpc[c] = "announce"
    /\ cpc' = [cpc EXCEPT ![c] = IF printed THEN "clear" ELSE "set"]
    /\ UNCHANGED <<numBuffer, finished, produced, ppc, num, tested, discarded,
                   printed, announced, main, spurious>>

StorePrinted(c) ==
    /\ cpc[c] \in {"set", "clear"}
    /\ printed' = (cpc[c] = "set")
    /\ cpc' = [cpc EXCEPT ![c] = "say"]
    /\ UNCHANGED <<numBuffer, finished, produced, ppc, num, tested, discarded,
                   announced, main, spurious>>

Announce(c) ==
    /\ cpc[c] = "say"
    /\ announced' = announced + 1
    /\ cpc' = [cpc EXCEPT ![c] = "gone"]
    /\ UNCHANGED <<numBuffer, finished, produced, ppc, num, tested, discarded,
                   printed, main, spurious>>

\* The joins of ThreadManager::run.
JoinProducers ==
    /\ main = "join_producers" /\ \A p \in Producer : ppc[p] = "done"
    /\ main' = "join_consumers"
    /\ UNCHANGED <<numBuffer, finished, produced, ppc, cpc, num, tested, discarded,
                   printed, announced, spurious>>

JoinConsumers ==
    /\ main = "join_consumers" /\ \A c \in Consumer : cpc[c] = "gone"
    /\ main' = "done"
    /\ UNCHANGED <<numBuffer, finished, produced, ppc, cpc, num, tested, discarded,
                   printed, announced, spurious>>

-----------------------------------------------------------------------------
ProducerStep(p) == Push(p) \/ EndProduction(p)
Leave(c) == TestPrinted(c) \/ LoadPrinted(c) \/ StorePrinted(c) \/ Announce(c)
ConsumerStep(c) == Pop(c) \/ Sleep(c) \/ CheckFinished(c) \/ Leave(c)

Next ==
    \/ \E p \in Producer : ProducerStep(p)
    \/ \E c \in Consumer : ConsumerStep(c) \/ SpuriousWake(c)
    \/ JoinProducers \/ JoinConsumers

Spec == Init /\ [][Next]_vars

\* Every thread that can run is scheduled.
FairSpec ==
    /\ Spec /\ WF_vars(JoinProducers) /\ WF_vars(JoinConsumers)
    /\ \A p \in Producer : WF_vars(ProducerStep(p))
    /\ \A c \in Consumer : WF_vars(ConsumerStep(c))

-----------------------------------------------------------------------------
(* Properties.                                                             *)

\* Where a consumer is that has seen the end.
Off == {"leaving", "announce", "set", "clear", "say", "gone"}

\* Type invariant of the state above.
TypeOK ==
    /\ numBuffer \in Seq(Number) /\ finished \in BOOLEAN
    /\ produced \in [Producer -> 0 .. Quota]
    /\ ppc \in [Producer -> {"produce", "done"}]
    /\ cpc \in [Consumer -> {"pop", "waiting", "check"} \cup Off]
    /\ num \in [Consumer -> SUBSET Number]
    /\ tested \subseteq Number /\ discarded \subseteq Number
    /\ printed \in BOOLEAN /\ announced \in Nat
    /\ main \in {"join_producers", "join_consumers", "done"}
    /\ spurious \in 0 .. MaxSpurious

\* Every number that was pushed is in exactly one place: once in the buffer,
\* held by one consumer, tested, or thrown away (buffer.cpp:5-9, 16-24).
Buffered == {numBuffer[i] : i \in DOMAIN numBuffer}
Held == UNION {num[c] : c \in Consumer}
Pushed == {n \in Number : n[2] <= produced[n[1]]}
NumberConservation ==
    /\ Pushed = Buffered \cup Held \cup tested \cup discarded
    /\ Len(numBuffer) + Cardinality(Held) + Cardinality(tested) + Cardinality(discarded)
         = Cardinality(Pushed)
    /\ \A c, d \in Consumer : num[c] \cap num[d] # {} => c = d

\* No consumer sleeps while the buffer holds a number: push wakes them all,
\* and pop tests the buffer under the lock it sleeps with (buffer.cpp:6-8, 17-18).
NoSleepOnWork == numBuffer # <<>> => \A c \in Consumer : cpc[c] # "waiting"

\* No consumer leaves with the end unsaid, although the flag is a data race and
\* set before the words are out: once one has gone the end was announced or a
\* consumer is just about to, and a run that ends has announced it
\* (consumer.cpp:13-17).
EndIsAnnounced ==
    /\ (\E c \in Consumer : cpc[c] = "gone")
         => announced > 0 \/ \E c \in Consumer : cpc[c] = "say"
    /\ main = "done" /\ Consumer # {} => announced > 0

\* The buffer is emptied for good, or every consumer has left it.
DrainedOrAbandoned ==
    <>[](numBuffer = <<>> \/ \A c \in Consumer : cpc[c] \notin {"pop", "waiting", "check"})

\* my_thread.cpp:37 "wait for all consumers to complete": run() ends.
RunEnds == <>(main = "done")

=============================================================================
