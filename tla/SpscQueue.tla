----------------------------- MODULE SpscQueue ------------------------------
(***************************************************************************)
(* The queue cryptoTools keeps between the threads that call a channel and *)
(* the strand that serves it (IoBuffer.h, SpscQueue).  A queue is a list   *)
(* of rings.  A full last ring is followed by one four times its size; the *)
(* first ring is dropped once it is drained and another follows.           *)
(*                                                                         *)
(* All calls hold the queue's mutex, so each is one operator on the value  *)
(* of the queue.  front and pop_front throw on an empty queue: here their  *)
(* operators are applied to queues that hold something.                    *)
(***************************************************************************)
EXTENDS Integers, Sequences

CONSTANT Item

Nil == <<>>            \* what a slot holds before and after an item

GrowBy == 4

-----------------------------------------------------------------------------
(* One ring: popIdx and pushIdx only grow and are reduced when used.        *)
EmptyRing(cap) ==
  [cap |-> cap, popIdx |-> 0, pushIdx |-> 0, slots |-> [k \in 0..(cap - 1) |-> Nil]]

RingSize(r) == r.pushIdx - r.popIdx

RingIsFullOneLate(r) == RingSize(r) > r.cap

RingIsFull(r) == RingSize(r) = r.cap

RingPush(r, x) ==
  [cap |-> r.cap, popIdx |-> r.popIdx, pushIdx |-> r.pushIdx + 1,
   slots |-> [r.slots EXCEPT ![r.pushIdx % r.cap] = x]]

RingFront(r) == r.slots[r.popIdx % r.cap]

RingPop(r) ==
  [cap |-> r.cap, popIdx |-> r.popIdx + 1, pushIdx |-> r.pushIdx,
   slots |-> [r.slots EXCEPT ![r.popIdx % r.cap] = Nil]]

(* What the ring holds, oldest first.                                       *)
RingItems(r) == [k \in 1..RingSize(r) |-> r.slots[(r.popIdx + k - 1) % r.cap]]

-----------------------------------------------------------------------------
(* The list of rings.                                                       *)

NewQueue(cap) == <<EmptyRing(cap)>>

Back(q) == q[Len(q)]

IsEmpty(q) == RingSize(Back(q)) = 0

PushBack(q, x) ==
  IF RingIsFull(Back(q))
  THEN Append(q, RingPush(EmptyRing(Back(q).cap * GrowBy), x))
  ELSE [q EXCEPT ![Len(q)] = RingPush(@, x)]

Front(q) == RingFront(q[1])

PopFrontKeepingRing(q) == [q EXCEPT ![1] = RingPop(@)]

PopFront(q) ==
  LET p == [q EXCEPT ![1] = RingPop(@)]
  IN  IF RingSize(p[1]) = 0 /\ Len(p) > 1 THEN Tail(p) ELSE p

(* What the queue holds, oldest first.                                      *)
Items(q) ==
  LET f[k \in 0..Len(q)] == IF k = 0 THEN <<>> ELSE f[k - 1] \o RingItems(q[k])
  IN  f[Len(q)]

-----------------------------------------------------------------------------
(* What every queue made by these calls is like.                            *)

RingOK(r) ==
  /\ r = [cap |-> r.cap, popIdx |-> r.popIdx, pushIdx |-> r.pushIdx, slots |-> r.slots]
  /\ r.cap \in Nat \ {0} /\ r.popIdx \in Nat /\ r.pushIdx \in Nat
  /\ r.popIdx <= r.pushIdx /\ r.pushIdx <= r.popIdx + r.cap
  /\ r.slots \in [0..(r.cap - 1) -> Item \cup {Nil}]

(* With more than one ring, no ring is drained: the last one alone tells    *)
(* whether the queue holds anything.                                        *)
QueueOK(q) ==
  /\ Len(q) > 0
  /\ \A k \in 1..Len(q) : RingOK(q[k])
  /\ Len(q) > 1 => \A k \in 1..Len(q) : RingSize(q[k]) > 0
=============================================================================
