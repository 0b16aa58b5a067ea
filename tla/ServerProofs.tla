---------------------------- MODULE ServerProofs -----------------------------
(***************************************************************************)
(* Proofs about Server, for any clients, requests, number of threads and   *)
(* length of the kernel's queue: each connection is in one place from      *)
(* connect() to close(), however the clients come, speak and leave.        *)
(***************************************************************************)
EXTENDS Server, FiniteSetTheorems, SequenceTheorems, TLAPS

-----------------------------------------------------------------------------
\* The elements of a sequence that grows at its end or loses its head.
LEMMA InAppend ==
    ASSUME NEW S, NEW s \in Seq(S), NEW e \in S
    PROVE  /\ In(Append(s, e)) = In(s) \cup {e}
           /\ NoneTwice(s) /\ e \notin In(s) => NoneTwice(Append(s, e))
<1> DEFINE t == Append(s, e)
           n == Len(s)
<1>1. /\ n \in Nat /\ DOMAIN s = 1 .. n /\ DOMAIN t = 1 .. n + 1
      /\ t[n + 1] = e /\ \A i \in 1 .. n : t[i] = s[i]
  <2>1. t \in Seq(S) /\ Len(t) = n + 1
    BY AppendProperties
  <2> QED
    BY <2>1, AppendProperties, LenProperties
<1> HIDE DEF t, n
<1>2. In(t) = In(s) \cup {e}
  <2>1. ASSUME NEW x \in In(t) PROVE x \in In(s) \cup {e}
    BY <1>1 DEF In
  <2>2. ASSUME NEW x \in In(s) \cup {e} PROVE x \in In(t)
    BY <1>1 DEF In
  <2> QED
    BY <2>1, <2>2
<1>3. ASSUME NoneTwice(s), e \notin In(s) PROVE NoneTwice(t)
  <2>1. ASSUME NEW i \in 1 .. n + 1, NEW j \in 1 .. n + 1, t[i] = t[j] PROVE i = j
    <3>1. (i \in 1 .. n \/ i = n + 1) /\ (j \in 1 .. n \/ j = n + 1)
      BY <1>1
    <3>2. \A k \in 1 .. n : s[k] # e
      BY <1>1, <1>3 DEF In
    <3> QED
      BY <1>1, <1>3, <2>1, <3>1, <3>2 DEF NoneTwice
  <2> QED
    BY <1>1, <2>1 DEF NoneTwice
<1> QED
  BY <1>2, <1>3 DEF t

LEMMA InTail ==
    ASSUME NEW S, NEW s \in Seq(S), s # <<>>, NoneTwice(s)
    PROVE  /\ Head(s) \in In(s) /\ In(Tail(s)) = In(s) \ {Head(s)} /\ NoneTwice(Tail(s))
<1> DEFINE t == Tail(s)
           h == Head(s)
           n == Len(s)
<1>1. /\ n \in Nat \ {0} /\ DOMAIN s = 1 .. n /\ DOMAIN t = 1 .. n - 1 /\ h = s[1]
      /\ \A i \in 1 .. n - 1 : t[i] = s[i + 1]
  <2>1. n \in Nat \ {0} /\ DOMAIN s = 1 .. n /\ h = s[1]
    BY EmptySeq, LenProperties
  <2>2. t \in Seq(S) /\ Len(t) = n - 1 /\ \A i \in 1 .. Len(t) : t[i] = s[i + 1]
    BY HeadTailProperties
  <2> QED
    BY <2>1, <2>2, LenProperties
<1> HIDE DEF t, h, n
<1>2. h \in In(s)
  BY <1>1 DEF In
<1>3. \A i, j \in 1 .. n : s[i] = s[j] => i = j
  BY <1>1 DEF NoneTwice
<1>4. ASSUME NEW x \in In(t) PROVE x \in In(s) \ {h}
  <2>1. PICK i \in 1 .. n - 1 : x = s[i + 1]
    BY <1>1 DEF In
  <2>2. i + 1 \in 1 .. n /\ 1 \in 1 .. n /\ i + 1 # 1
    BY <1>1
  <2> QED
    BY <1>1, <1>3, <2>1, <2>2 DEF In
<1>5. ASSUME NEW x \in In(s) \ {h} PROVE x \in In(t)
  <2>1. PICK i \in 1 .. n : x = s[i]
    BY <1>1 DEF In
  <2>2. i - 1 \in 1 .. n - 1 /\ (i - 1) + 1 = i
    BY <1>1, <2>1
  <2> QED
    BY <1>1, <2>1, <2>2 DEF In
<1>6. NoneTwice(t)
  <2>1. ASSUME NEW i \in 1 .. n - 1, NEW j \in 1 .. n - 1, t[i] = t[j] PROVE i = j
    <3>1. i + 1 \in 1 .. n /\ j + 1 \in 1 .. n /\ s[i + 1] = s[j + 1]
      BY <1>1, <2>1
    <3>2. i + 1 = j + 1
      BY <1>3, <3>1
    <3> QED
      BY <3>2
  <2> QED
    BY <1>1, <2>1 DEF NoneTwice
<1> QED
  BY <1>2, <1>4, <1>5, <1>6 DEF t, h

-----------------------------------------------------------------------------
(* The inductive invariant: TypeOK, and nothing happens before listen().   *)

SInv ==
    /\ TypeOK /\ DOMAIN reply = Client
    /\ server = "starting" => backlog = <<>> /\ Accepted = {}

\* What the places are, for short.
LEMMA AcceptedIs == Accepted = running \cup finished \cup In(queue)
BY DEF Accepted, In

LEMMA CapacityIs ==
    ASSUME TypeOK
    PROVE  Capacity \in Nat /\ IsFiniteSet(running) /\ Cardinality(running) \in Nat
<1>1. Capacity \in Nat
  BY ServerAssumption, FS_CardinalityType DEF Capacity, TypeOK
<1>2. IsFiniteSet(running)
  BY ServerAssumption, FS_Subset DEF TypeOK
<1> QED
  BY <1>1, <1>2, FS_CardinalityType

LEMMA InitSInv == Init => SInv
<1> SUFFICES ASSUME Init PROVE SInv
  OBVIOUS
<1>1. Accepted = {} /\ In(backlog) = {} /\ In(queue) = {}
  BY DEF Init, Pool!Init, Accepted, In
<1>2. NoneTwice(backlog) /\ NoneTwice(queue) /\ Len(backlog) = 0
  BY DEF Init, Pool!Init, NoneTwice
<1>3. OnePlaceEach
  BY <1>1, <1>2 DEF Init, Pool!Init, OnePlaceEach
<1>4. Cardinality(running) = 0 /\ Cardinality(Accepted) = 0 /\ Backlog \in Nat
  BY <1>1, FS_EmptySet, ServerAssumption DEF Init, Pool!Init
<1>5. Capacity \in Nat
  BY ServerAssumption, FS_CardinalityType DEF Capacity, Init
<1>6. wire \in [Client -> Request \cup {Nothing}] /\ \A c \in Client : reply[c] = Nothing
  BY DEF Init
<1> QED
  BY <1>1, <1>2, <1>3, <1>4, <1>5, <1>6 DEF Init, Pool!Init, SInv, TypeOK

\* The server's own steps.
LEMMA ListenStep == SInv /\ (Listen \/ StartFails) => SInv'
<1> SUFFICES ASSUME SInv, Listen \/ StartFails PROVE SInv'
  OBVIOUS
<1>1. /\ UNCHANGED <<variant, backlog, queue, running, finished, client, wire, reply>>
      /\ mode' \in {"open", "closed"} /\ server' \in {"listening", "ended"} /\ Accepted = {}
      /\ mode' = "closed" => server' = "ended"
  BY DEF Listen, StartFails, Pool!Close, exec, ends, SInv, TypeOK
<1>2. Accepted' = Accepted /\ Capacity' = Capacity /\ In(backlog)' = In(backlog) /\ In(queue)' = In(queue)
  BY <1>1 DEF Accepted, Capacity, In
<1>3. OnePlaceEach'
  BY <1>1, <1>2 DEF SInv, TypeOK, OnePlaceEach
<1> QED
  BY <1>1, <1>2, <1>3 DEF SInv, TypeOK

LEMMA AcceptStep == SInv /\ Accept => SInv'
<1> SUFFICES ASSUME SInv, Accept PROVE SInv'
  OBVIOUS
<1> DEFINE c == Head(backlog)
<1>1. /\ backlog # <<>> /\ backlog' = Tail(backlog) /\ queue' = Append(queue, c)
      /\ mode = "open" /\ server = "listening" /\ (variant = "once" => Accepted = {})
      /\ UNCHANGED <<variant, server, mode, running, finished, client, wire, reply>>
  BY DEF Accept, MayAccept, Pool!Accept, ends
<1>2. backlog \in Seq(Client) /\ queue \in Seq(Client) /\ OnePlaceEach
  BY DEF SInv, TypeOK
<1>3. /\ c \in Client /\ Tail(backlog) \in Seq(Client) /\ Len(Tail(backlog)) = Len(backlog) - 1
      /\ Append(queue, c) \in Seq(Client)
  BY <1>1, <1>2, HeadTailProperties, AppendProperties
<1>4. c \in In(backlog) /\ In(backlog') = In(backlog) \ {c} /\ NoneTwice(backlog')
  BY <1>1, <1>2, InTail DEF OnePlaceEach
<1>5. c \notin Accepted /\ c \notin running \cup finished /\ c \notin In(queue)
  BY <1>2, <1>4, AcceptedIs DEF OnePlaceEach
<1>6. In(queue') = In(queue) \cup {c} /\ NoneTwice(queue')
  BY <1>1, <1>2, <1>3, <1>5, InAppend DEF OnePlaceEach
<1>7. Accepted' = Accepted \cup {c}
  <2>1. Accepted' = running' \cup finished' \cup In(queue')
    BY DEF Accepted, In
  <2> QED
    BY <1>1, <1>6, <2>1, AcceptedIs
<1> HIDE DEF c
<1>8. OnePlaceEach'
  <2>1. In(backlog') \cap Accepted' = {}
    BY <1>2, <1>4, <1>7 DEF OnePlaceEach
  <2>2. In(queue') \cap (running' \cup finished') = {} /\ running' \cap finished' = {}
    BY <1>1, <1>2, <1>5, <1>6 DEF OnePlaceEach
  <2>3. \A d \in Client : client'[d] # "new" <=> d \in In(backlog') \cup Accepted'
    BY <1>1, <1>2, <1>4, <1>7 DEF OnePlaceEach
  <2> QED
    BY <1>4, <1>6, <2>1, <2>2, <2>3 DEF OnePlaceEach, NoneTwice, In
<1>9. Len(backlog') <= Backlog /\ Capacity' = Capacity
  <2>1. Len(backlog) \in Nat /\ Len(backlog) <= Backlog /\ Backlog \in Nat
    BY <1>2, LenProperties, ServerAssumption DEF SInv, TypeOK
  <2>2. Len(backlog') = Len(backlog) - 1
    BY <1>1, <1>3
  <2> QED
    BY <1>1, <2>1, <2>2 DEF Capacity
<1>10. variant' = "once" => Cardinality(Accepted') <= 1
  <2>1. ASSUME variant = "once" PROVE Cardinality(Accepted') = 1
    BY <1>1, <1>7, <2>1, FS_Singleton
  <2> QED
    BY <1>1, <2>1
<1> QED
  BY <1>1, <1>3, <1>8, <1>9, <1>10 DEF SInv, TypeOK

LEMMA StartStep == SInv /\ StartHandler => SInv'
<1> SUFFICES ASSUME SInv, StartHandler PROVE SInv'
  OBVIOUS
<1> DEFINE c == Head(queue)
<1>1. /\ queue # <<>> /\ queue' = Tail(queue) /\ running' = running \cup {c}
      /\ Cardinality(running) < Capacity
      /\ UNCHANGED <<variant, server, backlog, mode, finished, client, wire, reply>>
  BY DEF StartHandler, HasThread, Pool!Start, ends
<1>2. queue \in Seq(Client) /\ OnePlaceEach
  BY DEF SInv, TypeOK
<1>3. c \in Client /\ Tail(queue) \in Seq(Client)
  BY <1>1, <1>2, HeadTailProperties
<1>4. c \in In(queue) /\ In(queue') = In(queue) \ {c} /\ NoneTwice(queue')
  BY <1>1, <1>2, InTail DEF OnePlaceEach
<1>5. Accepted' = Accepted
  <2>1. Accepted' = running' \cup finished' \cup In(queue')
    BY DEF Accepted, In
  <2> QED
    BY <1>1, <1>4, <2>1, AcceptedIs
<1> HIDE DEF c
<1>6. OnePlaceEach'
  <2>1. In(queue') \cap (running' \cup finished') = {} /\ running' \cap finished' = {}
    BY <1>1, <1>2, <1>4 DEF OnePlaceEach
  <2> QED
    BY <1>1, <1>2, <1>4, <1>5, <2>1 DEF OnePlaceEach, NoneTwice, In
<1>7. Cardinality(running') <= Capacity'
  <2>1. Capacity' = Capacity
    BY <1>1 DEF Capacity
  <2>2. Capacity \in Nat /\ IsFiniteSet(running) /\ Cardinality(running) \in Nat
    BY CapacityIs DEF SInv
  <2>3. Cardinality(running') = Cardinality(running) + 1
    <3>1. c \notin running
      BY <1>2, <1>4 DEF OnePlaceEach
    <3>2. Cardinality(running \cup {c}) = Cardinality(running) + 1
      BY <2>2, <3>1, FS_AddElement
    <3> QED
      BY <1>1, <3>2
  <2> QED
    BY <1>1, <2>1, <2>2, <2>3
<1> QED
  BY <1>1, <1>3, <1>5, <1>6, <1>7 DEF SInv, TypeOK

LEMMA HandleStep == ASSUME SInv, NEW c \in Client, HandleClient(c) PROVE SInv'
<1>1. /\ c \in running /\ running' = running \ {c} /\ finished' = finished \cup {c}
      /\ server' = (IF variant = "once" THEN "ended" ELSE server)
      /\ UNCHANGED <<variant, backlog, mode, queue, client, wire>>
  BY DEF HandleClient, Pool!Finish
<1>2. Accepted' = Accepted
  <2>1. Accepted' = running' \cup finished' \cup In(queue')
    BY DEF Accepted, In
  <2> QED
    BY <1>1, <2>1, AcceptedIs
<1>3. OnePlaceEach'
  <2>1. OnePlaceEach
    BY DEF SInv, TypeOK
  <2>2. In(queue) \cap (running' \cup finished') = {} /\ running' \cap finished' = {}
    BY <1>1, <2>1 DEF OnePlaceEach
  <2> QED
    BY <1>1, <1>2, <2>1, <2>2 DEF OnePlaceEach, NoneTwice, In
<1>4. Cardinality(running') <= Capacity'
  <2>1. Capacity' = Capacity
    BY <1>1 DEF Capacity
  <2>2. Capacity \in Nat /\ IsFiniteSet(running) /\ Cardinality(running) \in Nat
        /\ Cardinality(running) <= Capacity
    BY CapacityIs DEF SInv, TypeOK
  <2>3. Cardinality(running') = Cardinality(running) - 1
    BY <1>1, <2>2, FS_RemoveElement
  <2> QED
    BY <2>1, <2>2, <2>3
<1>5. DOMAIN reply' = Client /\ \A d \in Client : reply'[d] # Nothing => d \in finished'
  BY <1>1 DEF HandleClient, SInv, TypeOK
<1>6. c \in Accepted
  BY <1>1, AcceptedIs
<1> QED
  BY <1>1, <1>2, <1>3, <1>4, <1>5, <1>6 DEF SInv, TypeOK

\* The clients.
LEMMA ConnectStep == ASSUME SInv, NEW c \in Client, Connect(c) PROVE SInv'
<1>1. /\ server = "listening" /\ client[c] = "new" /\ Len(backlog) < Backlog
      /\ client' = [client EXCEPT ![c] = "connected"] /\ backlog' = Append(backlog, c)
      /\ UNCHANGED <<variant, server, mode, queue, running, finished, wire, reply>>
  BY DEF Connect, exec
<1>2. backlog \in Seq(Client) /\ OnePlaceEach
  BY DEF SInv, TypeOK
<1>3. c \notin In(backlog) /\ c \notin Accepted
  BY <1>1, <1>2 DEF OnePlaceEach
<1>4. /\ In(backlog') = In(backlog) \cup {c} /\ NoneTwice(backlog')
      /\ backlog' \in Seq(Client) /\ Len(backlog') = Len(backlog) + 1
  BY <1>1, <1>2, <1>3, InAppend, AppendProperties DEF OnePlaceEach
<1>5. Accepted' = Accepted /\ Capacity' = Capacity
  BY <1>1 DEF Accepted, Capacity
<1>6. OnePlaceEach'
  <2>1. \A d \in Client : client'[d] = IF d = c THEN "connected" ELSE client[d]
    BY <1>1 DEF SInv, TypeOK
  <2>2. \A d \in Client : client'[d] # "new" <=> d \in In(backlog') \cup Accepted'
    BY <1>2, <1>4, <1>5, <2>1 DEF OnePlaceEach
  <2>3. In(backlog') \cap Accepted' = {}
    BY <1>2, <1>3, <1>4, <1>5 DEF OnePlaceEach
  <2> QED
    BY <1>1, <1>2, <1>4, <2>2, <2>3 DEF OnePlaceEach, NoneTwice, In
<1>7. Len(backlog') <= Backlog
  <2>1. Len(backlog) \in Nat /\ Backlog \in Nat
    BY <1>2, LenProperties, ServerAssumption
  <2> QED
    BY <1>1, <1>4, <2>1
<1> QED
  BY <1>1, <1>4, <1>5, <1>6, <1>7 DEF SInv, TypeOK

LEMMA ClientStep ==
    ASSUME SInv, NEW c \in Client, SendRequest(c) \/ Leave(c) PROVE SInv'
<1>1. /\ UNCHANGED <<variant, server, backlog, mode, queue, running, finished, reply>>
      /\ wire' \in [Client -> Request \cup {Nothing}]
      /\ client' \in [Client -> {"new", "connected", "left"}]
      /\ \A d \in Client : client'[d] # "new" <=> client[d] # "new"
  BY DEF SendRequest, Leave, exec, SInv, TypeOK
<1>2. Accepted' = Accepted /\ Capacity' = Capacity /\ In(backlog)' = In(backlog) /\ In(queue)' = In(queue)
  BY <1>1 DEF Accepted, Capacity, In
<1>3. OnePlaceEach'
  BY <1>1, <1>2 DEF SInv, TypeOK, OnePlaceEach, NoneTwice
<1> QED
  BY <1>1, <1>2, <1>3 DEF SInv, TypeOK

LEMMA SInvStep == SInv /\ [Next]_vars => SInv'
<1> SUFFICES ASSUME SInv, [Next]_vars PROVE SInv'
  OBVIOUS
<1>1. CASE UNCHANGED vars
  <2>1. Accepted' = Accepted /\ Capacity' = Capacity /\ In(backlog)' = In(backlog) /\ In(queue)' = In(queue)
    BY <1>1 DEF vars, Accepted, Capacity, In
  <2>2. OnePlaceEach'
    BY <1>1, <2>1 DEF vars, SInv, TypeOK, OnePlaceEach, NoneTwice
  <2> QED
    BY <1>1, <2>1, <2>2 DEF vars, SInv, TypeOK
<1> QED
  BY <1>1, ListenStep, AcceptStep, StartStep, HandleStep, ConnectStep, ClientStep DEF Next

THEOREM Invariant == Spec => []SInv
BY InitSInv, SInvStep, PTL DEF Spec

\* TypeOK for any clients and sizes: every connection is in one place, the
\* threads are not oversubscribed, only what was handled is answered, and the
\* server of week 7 accepts one connection.
THEOREM TypeCorrect == Spec => []TypeOK
<1>1. SInv => TypeOK
  BY DEF SInv
<1> QED
  BY Invariant, <1>1, PTL

\* The pool never turns a connection away, although start() submits without
\* looking: when accept() can return, the pool is open and does not know the
\* connection yet.  So the guards of Pool!Accept take nothing from Accept.
THEOREM SubmitNeverRefused ==
    Spec => [](MayAccept /\ backlog # <<>> => mode = "open" /\ ~ Pool!Known(Head(backlog)))
<1>1. ASSUME SInv, MayAccept, backlog # <<>>
      PROVE  mode = "open" /\ ~ Pool!Known(Head(backlog))
  <2>1. Head(backlog) \in In(backlog)
    BY <1>1, InTail DEF SInv, TypeOK, OnePlaceEach
  <2>2. Head(backlog) \notin Accepted
    BY <1>1, <2>1 DEF SInv, TypeOK, OnePlaceEach
  <2> QED
    BY <1>1, <2>2 DEF MayAccept, SInv, TypeOK, Pool!Known, Accepted
<1> QED
  BY Invariant, <1>1, PTL

\* The servers use the pool only as it promises to be used: what they do to it,
\* the destructor after a failed start included, is a behaviour of TaskExecutor,
\* which ThreadPool implements.
THEOREM UsesThePool == Spec => Pool!Spec
<1>1. Init => Pool!Init
  BY DEF Init
<1>2. ASSUME SInv, [Next]_vars PROVE [Pool!Next]_(Pool!vars)
  <2>1. ASSUME Accept PROVE \E c \in Client : Pool!Accept(c)
    <3>1. Head(backlog) \in Client
      BY <2>1, <1>2, HeadTailProperties DEF Accept, SInv, TypeOK
    <3> QED
      BY <2>1, <3>1 DEF Accept
  <2>2. CASE Accept
    BY <2>1, <2>2 DEF Pool!Next
  <2>3. CASE StartHandler
    BY <2>3 DEF StartHandler, Pool!Next
  <2>4. CASE \E c \in Client : HandleClient(c)
    BY <2>4 DEF HandleClient, Pool!Next
  <2>5. CASE StartFails
    BY <2>5 DEF StartFails, exec, Pool!Next, Pool!vars
  <2>6. CASE Listen \/ (\E c \in Client : Connect(c) \/ SendRequest(c) \/ Leave(c))
    BY <2>6 DEF Listen, Connect, SendRequest, Leave, exec, Pool!vars
  <2>7. CASE UNCHANGED vars
    BY <2>7 DEF vars, Pool!vars
  <2> QED
    BY <1>2, <2>2, <2>3, <2>4, <2>5, <2>6, <2>7 DEF Next
<1> QED
  BY <1>1, <1>2, Invariant, PTL DEF Spec, Pool!Spec

=============================================================================
