-------------------------------- MODULE Fifo --------------------------------
(***************************************************************************)
(* What queues of one producer and one consumer promise: what is put into  *)
(* one comes out of it once, in the order it was put.                      *)
(***************************************************************************)
EXTENDS Sequences

CONSTANTS Queue, Item

VARIABLE waiting   \* of each queue, what was put and not yet taken, oldest first

Init == waiting = [q \in Queue |-> <<>>]

Put(q) == \E x \in Item : waiting' = [waiting EXCEPT ![q] = Append(@, x)]

Take(q) == waiting[q] # <<>> /\ waiting' = [waiting EXCEPT ![q] = Tail(@)]

Next == \E q \in Queue : Put(q) \/ Take(q)

Spec == Init /\ [][Next]_waiting
=============================================================================
