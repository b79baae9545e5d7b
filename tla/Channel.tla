------------------------------ MODULE Channel ------------------------------
(***************************************************************************)
(* What a mailbox, a message queue and a data queue promise, whatever the  *)
(* offsets and lists they are built from: messages come out once, in the   *)
(* order they went in, an urgent one first, and never more than Capacity   *)
(* are kept.                                                               *)
(***************************************************************************)
EXTENDS Naturals, Sequences

CONSTANTS Messages, NoMessage, Capacity

VARIABLES queue,      \* the messages kept
          delivered   \* the message the last receive delivered

Init == queue = <<>> /\ delivered = NoMessage

Send(m) == Len(queue) < Capacity /\ queue' = Append(queue, m) /\ UNCHANGED delivered

Urgent(m) == Len(queue) < Capacity /\ queue' = <<m>> \o queue /\ UNCHANGED delivered

Receive == queue # <<>> /\ queue' = Tail(queue) /\ delivered' = Head(queue)

Reset == queue' = <<>> /\ UNCHANGED delivered

Next == (\E m \in Messages : Send(m) \/ Urgent(m)) \/ Receive \/ Reset

Spec == Init /\ [][Next]_<<queue, delivered>>
=============================================================================
