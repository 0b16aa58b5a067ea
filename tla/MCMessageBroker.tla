-------------------------- MODULE MCMessageBroker ---------------------------
(* Small instances of MessageBroker for TLC. *)
EXTENDS MessageBroker, TLC

CONSTANTS p1, p2, k1, k2

\* Reads can cut and merge what p1 writes, which dies inside its second message;
\* p2 writes at the same time and dies after one digit.
Short == [id |-> 1, timestamp |-> 1, tag |-> 1, body |-> 1]
MCText == (p1 :> SubSeq(Serialize(Short) \o Serialize(Short), 1, 11))
          @@ (p2 :> SubSeq(Serialize(Short), 1, 1))

=============================================================================
