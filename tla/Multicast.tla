----------------------------- MODULE Multicast ------------------------------
(***************************************************************************)
(* What a publish/subscribe server promises its subscribers, without       *)
(* threads, locks or sockets: there is one order of the messages for all,  *)
(* and a subscriber gets every message of it from the point where it       *)
(* joined, in that order, each once.  A subscriber may stop short (it, or  *)
(* the server, may die); it never skips.                                   *)
(***************************************************************************)
EXTENDS Naturals, Sequences

CONSTANTS Message, Subscriber

VARIABLES log, since, got
vars == <<log, since, got>>

Nobody == [s \in {} |-> 0]

\* since is defined for those who joined: how long the order was then.
Init == log = <<>> /\ since = Nobody /\ got = [s \in Subscriber |-> <<>>]

Publish(m) ==
    /\ \A i \in DOMAIN log : log[i] # m
    /\ log' = Append(log, m)
    /\ UNCHANGED <<since, got>>

Join(s) ==
    /\ s \notin DOMAIN since
    /\ since' = [t \in DOMAIN since \cup {s} |-> IF t = s THEN Len(log) ELSE since[t]]
    /\ UNCHANGED <<log, got>>

Deliver(s) ==
    /\ s \in DOMAIN since
    /\ since[s] + Len(got[s]) < Len(log)
    /\ got' = [got EXCEPT ![s] = Append(@, log[since[s] + Len(@) + 1])]
    /\ UNCHANGED <<log, since>>

Next ==
    \/ \E m \in Message : Publish(m)
    \/ \E s \in Subscriber : Join(s) \/ Deliver(s)

Spec == Init /\ [][Next]_vars

=============================================================================
