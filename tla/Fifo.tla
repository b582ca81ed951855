-------------------------------- MODULE Fifo --------------------------------
(* What a pipe promises: a bounded queue of bytes, first in, first out. *)
EXTENDS Naturals, Sequences

CONSTANTS Byte, Capacity

VARIABLE queue

Init == queue = <<>>

Put(v) == Len(queue) < Capacity /\ queue' = Append(queue, v)

Get == queue # <<>> /\ queue' = Tail(queue)

Next == Get \/ \E v \in Byte : Put(v)

Spec == Init /\ [][Next]_queue
=============================================================================
