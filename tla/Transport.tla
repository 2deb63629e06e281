------------------------------ MODULE Transport ------------------------------
(* What a byte stream of NAL units promises: the units arrive one by one,   *)
(* in the order they were sent and as they were sent.                       *)
EXTENDS Naturals, Sequences

CONSTANT Units

VARIABLES queue,        \* the units sent and not yet received
          received      \* the unit received last

Init == queue = <<>> /\ received = <<>>

Send ==
  /\ Len(queue') = Len(queue) + 1
  /\ queue' = Append(queue, queue'[Len(queue')]) /\ queue'[Len(queue')] \in Units
  /\ UNCHANGED received

Receive == queue # <<>> /\ received' = Head(queue) /\ queue' = Tail(queue)

Spec == Init /\ [][Send \/ Receive]_<<queue, received>>
=============================================================================
