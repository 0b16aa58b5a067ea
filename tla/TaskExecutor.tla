---------------------------- MODULE TaskExecutor ----------------------------
(***************************************************************************)
(* What a task pool promises its callers, without threads, locks or        *)
(* condition variables: a task is accepted only while the pool is open,    *)
(* accepted tasks start in the order of their acceptance, each at most     *)
(* once, and a closed pool never opens again.                              *)
(***************************************************************************)
EXTENDS Naturals, Sequences

CONSTANT Task

VARIABLES mode, queue, running, finished
vars == <<mode, queue, running, finished>>

Init == mode = "open" /\ queue = <<>> /\ running = {} /\ finished = {}

Known(t) == t \in running \cup finished \/ \E i \in DOMAIN queue : queue[i] = t

Accept(t) ==
    /\ mode = "open" /\ ~ Known(t)
    /\ queue' = Append(queue, t)
    /\ UNCHANGED <<mode, running, finished>>

\* A pool that is held or closed may still start what is queued.
Start ==
    /\ queue # <<>>
    /\ running' = running \cup {Head(queue)}
    /\ queue' = Tail(queue)
    /\ UNCHANGED <<mode, finished>>

Finish(t) ==
    /\ t \in running
    /\ running' = running \ {t}
    /\ finished' = finished \cup {t}
    /\ UNCHANGED <<mode, queue>>

Hold == mode = "open" /\ mode' = "held" /\ UNCHANGED <<queue, running, finished>>
Reopen == mode = "held" /\ mode' = "open" /\ UNCHANGED <<queue, running, finished>>
Close == mode # "closed" /\ mode' = "closed" /\ UNCHANGED <<queue, running, finished>>

Next ==
    \/ \E t \in Task : Accept(t) \/ Finish(t)
    \/ Start \/ Hold \/ Reopen \/ Close

Spec == Init /\ [][Next]_vars

\* A pool that is never held and only shut down in order also starts every
\* task it accepted and lets it finish.
WorkingSpec == Spec /\ WF_vars(Start) /\ \A t \in Task : WF_vars(Finish(t))

=============================================================================
