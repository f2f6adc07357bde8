--------------------------- MODULE Channel_proofs ---------------------------
(***************************************************************************)
(* Safety of a channel, for every load and every capacity of its queues:   *)
(* its type invariant, the right to use the socket that is in one place,   *)
(* what is left when a side is given up, what can end the process, and     *)
(* that its queues of rings are first-in first-out queues.                 *)
(*                                                                         *)
(* A side is described by its values: what the lemmas say of a handler,    *)
(* they say of the values it reads and leaves, and an action is what its   *)
(* handlers do to the values of its side.                                  *)
(***************************************************************************)
EXTENDS Channel, SequenceTheorems, FiniteSetTheorems, WellFoundedInduction, TLAPS

-----------------------------------------------------------------------------
(* Induction over the natural numbers and what follows from it: functions  *)
(* defined by recursion exist.  A predicate is given by the set of numbers *)
(* that satisfy it and a recursion by a function, so that the facts can be *)
(* cited for any predicate and any recursion.                              *)

(* A set of numbers has a least one: there are no infinite descents among  *)
(* the finite sets of the numbers below each.                              *)
LEMMA LeastNumber ==
  ASSUME NEW T \in SUBSET Nat, T # {}
  PROVE  \E n \in T : \A m \in T : n <= m
<1>. DEFINE Initials == {0 .. (n - 1) : n \in T}
<1>1. Initials \subseteq FiniteSubsetsOf(Nat) /\ Initials # {}
  <2>1. ASSUME NEW n \in T PROVE 0 .. (n - 1) \in SUBSET Nat /\ IsFiniteSet(0 .. (n - 1))
    BY FS_Interval
  <2>. QED BY <2>1 DEF FiniteSubsetsOf
<1>2. IsWellFoundedOn(StrictSubsetOrdering(Nat), FiniteSubsetsOf(Nat))
  BY FS_StrictSubsetOrderingWellFounded
<1>3. \E x \in Initials : \A y \in Initials : ~ (<<y, x>> \in StrictSubsetOrdering(Nat))
  BY <1>1, <1>2, WFMin
<1>4. PICK n \in T :
        \A m \in T : ~ (<<0 .. (m - 1), 0 .. (n - 1)>> \in StrictSubsetOrdering(Nat))
  BY <1>3
<1>5. ASSUME NEW m \in T, ~ (n <= m) PROVE FALSE
  <2>1. m \in Nat /\ n \in Nat OBVIOUS
  <2>2. 0 .. (m - 1) \in SUBSET Nat /\ 0 .. (n - 1) \in SUBSET Nat BY <2>1
  <2>3. /\ 0 .. (m - 1) \subseteq 0 .. (n - 1)
        /\ m \in 0 .. (n - 1) /\ m \notin 0 .. (m - 1)
    BY <2>1, <1>5
  <2>. QED BY <1>4, <2>2, <2>3 DEF StrictSubsetOrdering
<1>. QED BY <1>5

(* Induction: T is the set of the numbers of which something is to be shown.*)
LEMMA SetInduction ==
  ASSUME NEW T, 0 \in T, \A n \in Nat : n \in T => n + 1 \in T
  PROVE  Nat \subseteq T
<1>. DEFINE Out == Nat \ T
<1>1. SUFFICES ASSUME Out # {} PROVE FALSE OBVIOUS
<1>2. PICK n \in Out : \A m \in Out : n <= m
  <2>1. Out \in SUBSET Nat OBVIOUS
  <2>. HIDE DEF Out
  <2>. QED BY <1>1, <2>1, LeastNumber
<1>3. n \in Nat /\ n # 0 OBVIOUS
<1>4. n - 1 \in Nat /\ n - 1 \notin Out BY <1>2, <1>3
<1>. QED BY <1>3, <1>4

(* The functions on 0 .. n with a given first value and a given step from  *)
(* each value to the next: there is one.                                   *)
Iterations(S, base, step, n) ==
  {f \in [0 .. n -> S] : f[0] = base /\ \A k \in 1 .. n : f[k] = step[<<f[k - 1], k>>]}

LEMMA RecursionExists ==
  ASSUME NEW S, NEW base \in S, NEW step \in [S \X Nat -> S], NEW n \in Nat
  PROVE  Iterations(S, base, step, n) # {}
<1>. DEFINE Iterates(f, m) == f[0] = base /\ \A k \in 1 .. m : f[k] = step[<<f[k - 1], k>>]
            T == {m \in Nat : \E f \in [0 .. m -> S] : Iterates(f, m)}
<1>1. 0 \in T
  <2>1. [k \in 0 .. 0 |-> base] \in [0 .. 0 -> S] /\ Iterates([k \in 0 .. 0 |-> base], 0)
    OBVIOUS
  <2>. QED BY <2>1
<1>2. ASSUME NEW m \in Nat, m \in T PROVE m + 1 \in T
  <2>1. PICK f \in [0 .. m -> S] : Iterates(f, m) BY <1>2
  <2>. DEFINE g == [k \in 0 .. m + 1 |-> IF k = m + 1 THEN step[<<f[m], m + 1>>] ELSE f[k]]
  <2>2. f[m] \in S /\ <<f[m], m + 1>> \in S \X Nat OBVIOUS
  <2>3. g \in [0 .. m + 1 -> S] BY <2>2
  <2>4. g[0] = base BY <2>1
  <2>5. ASSUME NEW k \in 1 .. m + 1 PROVE g[k] = step[<<g[k - 1], k>>]
    <3>1. CASE k = m + 1 BY <3>1, SMTT(20)
    <3>2. CASE k # m + 1
      <4>1. k \in 1 .. m /\ k - 1 \in 0 .. m BY <3>2
      <4>2. g[k] = f[k] /\ g[k - 1] = f[k - 1] BY <4>1
      <4>. QED BY <2>1, <4>1, <4>2
    <3>. QED BY <3>1, <3>2
  <2>. HIDE DEF g
  <2>6. Iterates(g, m + 1) BY <2>4, <2>5
  <2>. QED BY <2>3, <2>6
<1>. HIDE DEF T
<1>3. Nat \subseteq T BY <1>1, <1>2, SetInduction
<1>4. n \in T BY <1>3
<1>. QED BY <1>4 DEF T, Iterations

-----------------------------------------------------------------------------
(* Arithmetic: two counts less than cap apart use different slots.          *)

LEMMA SlotInRange ==
  ASSUME NEW cap \in Nat \ {0}, NEW a \in Nat
  PROVE  a % cap \in 0..(cap - 1)
  OBVIOUS

LEMMA Multiples ==
  ASSUME NEW cap \in Nat \ {0}, NEW a \in Nat, NEW b \in Nat, a < b,
         NEW p \in Int, NEW q \in Int, NEW r \in Nat, a = p * cap + r, b = q * cap + r
  PROVE  b >= a + cap
  OBVIOUS

LEMMA SlotsDiffer ==
  ASSUME NEW cap \in Nat \ {0}, NEW a \in Nat, NEW b \in Nat, a < b, b < a + cap
  PROVE  a % cap # b % cap
<1> SUFFICES ASSUME a % cap = b % cap PROVE FALSE
  OBVIOUS
<1>1. a = (a \div cap) * cap + (a % cap) /\ b = (b \div cap) * cap + (b % cap)
  OBVIOUS
<1>2. a \div cap \in Int /\ b \div cap \in Int /\ a % cap \in Nat
  OBVIOUS
<1>3. b >= a + cap
  BY <1>1, <1>2, Multiples
<1> QED
  BY <1>3

-----------------------------------------------------------------------------
(* One ring.                                                                *)

(* A new ring is in order and holds nothing.                                *)
LEMMA EmptyRingIsOK ==
  ASSUME NEW cap \in Nat \ {0}
  PROVE  RingOK(EmptyRing(cap)) /\ RingSize(EmptyRing(cap)) = 0 /\ EmptyRing(cap).cap = cap
  BY DEF RingOK, EmptyRing, RingSize, Nil

(* An item goes behind those the ring holds, and the ring stays in order.   *)
LEMMA RingPushAppends ==
  ASSUME NEW r, NEW x \in Op, RingOK(r), ~RingIsFull(r)
  PROVE  /\ RingOK(RingPush(r, x)) /\ RingPush(r, x).cap = r.cap
         /\ RingSize(RingPush(r, x)) = RingSize(r) + 1
         /\ RingItems(RingPush(r, x)) = Append(RingItems(r), x)
<1> DEFINE p == RingPush(r, x)
           n == RingSize(r)
<1>1. /\ r.cap \in Nat \ {0} /\ r.popIdx \in Nat /\ r.pushIdx \in Nat
      /\ r.popIdx <= r.pushIdx /\ r.pushIdx < r.popIdx + r.cap
      /\ r.slots \in [0..(r.cap - 1) -> Op \cup {Nil}]
  BY DEF RingOK, RingIsFull, RingSize
<1>2. p = [cap |-> r.cap, popIdx |-> r.popIdx, pushIdx |-> r.pushIdx + 1,
           slots |-> [r.slots EXCEPT ![r.pushIdx % r.cap] = x]]
  BY DEF RingPush
<1>3. n \in Nat /\ RingSize(p) = n + 1
  BY <1>1, <1>2 DEF RingSize
<1>4. r.pushIdx % r.cap \in 0..(r.cap - 1)
  BY <1>1, SlotInRange
<1>5. RingOK(p)
  BY <1>1, <1>2, <1>4 DEF RingOK
<1>6. ASSUME NEW k \in 1..n
      PROVE  p.slots[(r.popIdx + k - 1) % r.cap] = r.slots[(r.popIdx + k - 1) % r.cap]
  <2>1. r.popIdx + k - 1 \in Nat /\ r.popIdx + k - 1 < r.pushIdx /\ r.pushIdx < r.popIdx + k - 1 + r.cap
    BY <1>1 DEF RingSize
  <2>2. (r.popIdx + k - 1) % r.cap # r.pushIdx % r.cap /\ (r.popIdx + k - 1) % r.cap \in 0..(r.cap - 1)
    BY <1>1, <2>1, SlotsDiffer, SlotInRange
  <2> QED
    BY <1>1, <1>2, <2>2
<1>7. p.slots[(r.popIdx + (n + 1) - 1) % r.cap] = x
  <2>1. r.popIdx + (n + 1) - 1 = r.pushIdx
    BY <1>1 DEF RingSize
  <2> QED
    BY <1>1, <1>2, <1>4, <2>1
<1>8. RingItems(p) = [k \in 1..(n + 1) |-> p.slots[(r.popIdx + k - 1) % r.cap]]
  BY <1>2, <1>3 DEF RingItems
<1>9. Append(RingItems(r), x) = [k \in 1..(n + 1) |-> IF k = n + 1 THEN x ELSE r.slots[(r.popIdx + k - 1) % r.cap]]
  BY <1>3 DEF RingItems
<1>10. RingItems(p) = Append(RingItems(r), x)
  <2>1. ASSUME NEW k \in 1..(n + 1)
        PROVE  p.slots[(r.popIdx + k - 1) % r.cap]
                 = IF k = n + 1 THEN x ELSE r.slots[(r.popIdx + k - 1) % r.cap]
    BY <1>3, <1>6, <1>7
  <2> QED
    BY <1>8, <1>9, <2>1
<1>11. p.cap = r.cap
  BY <1>2
<1> QED
  BY <1>3, <1>5, <1>10, <1>11

(* The oldest item leaves, and the ring stays in order.                     *)
LEMMA RingPopTakes ==
  ASSUME NEW r, RingOK(r), RingSize(r) > 0
  PROVE  /\ RingOK(RingPop(r)) /\ RingPop(r).cap = r.cap
         /\ RingSize(RingPop(r)) = RingSize(r) - 1
         /\ RingItems(r) # <<>> /\ RingFront(r) = Head(RingItems(r))
         /\ RingItems(RingPop(r)) = Tail(RingItems(r))
<1> DEFINE p == RingPop(r)
           n == RingSize(r)
<1>1. /\ r.cap \in Nat \ {0} /\ r.popIdx \in Nat /\ r.pushIdx \in Nat
      /\ r.popIdx < r.pushIdx /\ r.pushIdx <= r.popIdx + r.cap
      /\ r.slots \in [0..(r.cap - 1) -> Op \cup {Nil}]
  BY DEF RingOK, RingSize
<1>2. p = [cap |-> r.cap, popIdx |-> r.popIdx + 1, pushIdx |-> r.pushIdx,
           slots |-> [r.slots EXCEPT ![r.popIdx % r.cap] = Nil]]
  BY DEF RingPop
<1>3. n \in Nat \ {0} /\ RingSize(p) = n - 1
  BY <1>1, <1>2 DEF RingSize
<1>4. r.popIdx % r.cap \in 0..(r.cap - 1)
  BY <1>1, SlotInRange
<1>5. RingOK(p)
  BY <1>1, <1>2, <1>4 DEF RingOK
<1>6. ASSUME NEW k \in 1..(n - 1)
      PROVE  p.slots[(r.popIdx + 1 + k - 1) % r.cap] = r.slots[(r.popIdx + (k + 1) - 1) % r.cap]
  <2>1. /\ r.popIdx + 1 + k - 1 = r.popIdx + (k + 1) - 1
        /\ r.popIdx + k \in Nat /\ r.popIdx < r.popIdx + k /\ r.popIdx + k < r.popIdx + r.cap
        /\ r.popIdx + 1 + k - 1 = r.popIdx + k
    BY <1>1, SMTT(20) DEF RingSize
  <2>2. r.popIdx % r.cap # (r.popIdx + k) % r.cap /\ (r.popIdx + k) % r.cap \in 0..(r.cap - 1)
    BY <1>1, <2>1, SlotsDiffer, SlotInRange
  <2>3. PICK i, j : i = r.popIdx % r.cap /\ j = (r.popIdx + k) % r.cap
    OBVIOUS
  <2>4. p.slots = [r.slots EXCEPT ![i] = Nil]
    BY <1>2, <2>3
  <2>5. j \in 0..(r.cap - 1) /\ j # i /\ r.slots \in [0..(r.cap - 1) -> Op \cup {Nil}]
    BY <1>1, <2>2, <2>3
  <2>6. p.slots[j] = r.slots[j]
    BY <2>4, <2>5
  <2> QED
    BY <2>1, <2>3, <2>6
<1>7. RingItems(p) = [k \in 1..(n - 1) |-> p.slots[(r.popIdx + 1 + k - 1) % r.cap]]
  BY <1>2, <1>3 DEF RingItems
<1>8. /\ RingItems(r) = [k \in 1..n |-> r.slots[(r.popIdx + k - 1) % r.cap]]
      /\ RingItems(r) \in Seq(Op \cup {Nil}) /\ Len(RingItems(r)) = n
  <2>1. ASSUME NEW k \in 1..n PROVE r.slots[(r.popIdx + k - 1) % r.cap] \in Op \cup {Nil}
    <3>1. r.popIdx + k - 1 \in Nat
      BY <1>1 DEF RingSize
    <3>2. (r.popIdx + k - 1) % r.cap \in 0..(r.cap - 1)
      BY <1>1, <3>1, SlotInRange
    <3> QED
      BY <1>1, <3>2
  <2> QED
    BY <1>3, <2>1 DEF RingItems
<1>9. Tail(RingItems(r)) = [k \in 1..(n - 1) |-> r.slots[(r.popIdx + (k + 1) - 1) % r.cap]]
  BY <1>3, <1>8
<1>10. RingItems(p) = Tail(RingItems(r))
  BY <1>6, <1>7, <1>9
<1>11. RingFront(r) = Head(RingItems(r)) /\ RingItems(r) # <<>>
  <2>1. r.popIdx + 1 - 1 = r.popIdx /\ 1 \in 1..n
    BY <1>1, <1>3
  <2> QED
    BY <1>3, <1>8, <2>1 DEF RingFront
<1>12. p.cap = r.cap
  BY <1>2
<1> QED
  BY <1>3, <1>5, <1>10, <1>11, <1>12

LEMMA RingIsEmpty ==
  ASSUME NEW r, RingOK(r)
  PROVE  RingSize(r) \in Nat /\ (RingSize(r) = 0 <=> RingItems(r) = <<>>)
<1>1. RingSize(r) \in Nat
  BY DEF RingOK, RingSize
<1>2. CASE RingSize(r) = 0
  BY <1>2 DEF RingItems
<1>3. CASE RingSize(r) > 0
  BY <1>1, <1>3, RingPopTakes
<1> QED
  BY <1>1, <1>2, <1>3

-----------------------------------------------------------------------------
(* The list of rings.                                                       *)

(* isEmpty looks at the last ring only, and is right: no ring that another  *)
(* follows is drained (SpscQueue::isEmpty).                                 *)
THEOREM IsEmptyIsExact ==
  ASSUME NEW S, NEW q \in Seq(S), QueueOK(q)
  PROVE  IsEmpty(q) <=> \A k \in 1..Len(q) : RingItems(q[k]) = <<>>
<1>1. Len(q) \in 1..Len(q) /\ \A k \in 1..Len(q) : RingOK(q[k])
  BY DEF QueueOK
<1>2. ASSUME IsEmpty(q), NEW k \in 1..Len(q) PROVE RingItems(q[k]) = <<>>
  <2>1. RingSize(q[Len(q)]) = 0 /\ RingSize(q[Len(q)]) \in Nat
    BY <1>1, <1>2, RingIsEmpty DEF IsEmpty, Back
  <2>2. k = Len(q)
    BY <1>1, <2>1 DEF QueueOK
  <2> QED
    BY <1>1, <2>1, <2>2, RingIsEmpty
<1>3. ASSUME \A k \in 1..Len(q) : RingItems(q[k]) = <<>> PROVE IsEmpty(q)
  BY <1>1, <1>3, RingIsEmpty DEF IsEmpty, Back
<1> QED
  BY <1>2, <1>3

(* push_back puts the item behind those of the last ring, or alone into a   *)
(* larger ring that follows, and keeps the queue in order.                  *)
THEOREM PushKeepsQueue ==
  ASSUME NEW S, NEW q \in Seq(S), NEW x \in Op, QueueOK(q)
  PROVE  LET p == PushBack(q, x)
         IN  /\ QueueOK(p) /\ ~IsEmpty(p)
             /\ Len(p) >= Len(q) /\ \A k \in 1..(Len(q) - 1) : p[k] = q[k]
             /\ \/ /\ Len(p) = Len(q)
                   /\ RingItems(Back(p)) = Append(RingItems(Back(q)), x)
                \/ /\ Len(p) = Len(q) + 1 /\ p[Len(q)] = Back(q)
                   /\ RingItems(Back(p)) = <<x>>
<1> DEFINE p == PushBack(q, x)
<1>1. /\ Len(q) \in Nat /\ Len(q) \in 1..Len(q)
      /\ \A k \in 1..Len(q) : RingOK(q[k]) /\ RingSize(q[k]) \in Nat
      /\ Len(q) > 1 => \A k \in 1..Len(q) : RingSize(q[k]) > 0
      /\ q[Len(q)].cap \in Nat \ {0}
  <2>1. /\ Len(q) \in Nat /\ Len(q) \in 1..Len(q)
        /\ \A k \in 1..Len(q) : RingOK(q[k])
        /\ Len(q) > 1 => \A k \in 1..Len(q) : RingSize(q[k]) > 0
    BY DEF QueueOK
  <2>2. \A k \in 1..Len(q) : RingSize(q[k]) \in Nat
    BY <2>1, RingIsEmpty
  <2>3. RingOK(q[Len(q)])
    BY <2>1
  <2>4. q[Len(q)].cap \in Nat \ {0}
    BY <2>3 DEF RingOK
  <2> QED
    BY <2>1, <2>2, <2>4
<1>2. CASE RingIsFull(Back(q))
  <2> DEFINE r == EmptyRing(q[Len(q)].cap * GrowBy)
  <2>1. q[Len(q)].cap * GrowBy \in Nat \ {0}
    BY <1>1 DEF GrowBy
  <2>2. RingOK(r) /\ RingSize(r) = 0 /\ r.cap # 0
    BY <2>1, EmptyRingIsOK
  <2>3. ~RingIsFull(r) /\ RingItems(r) = <<>>
    BY <2>2, RingIsEmpty DEF RingIsFull
  <2> HIDE DEF r
  <2>4. /\ RingOK(RingPush(r, x)) /\ RingSize(RingPush(r, x)) = 1
        /\ RingItems(RingPush(r, x)) = <<x>>
    <3>1. /\ RingOK(RingPush(r, x)) /\ RingSize(RingPush(r, x)) = RingSize(r) + 1
          /\ RingItems(RingPush(r, x)) = Append(RingItems(r), x)
      BY <2>2, <2>3, RingPushAppends
    <3>2. Append(<<>>, x) = <<x>>
      OBVIOUS
    <3> QED
      BY <2>2, <2>3, <3>1, <3>2
  <2>5. p = Append(q, RingPush(r, x))
    BY <1>2 DEF PushBack, Back, r
  <2>6. /\ Len(p) = Len(q) + 1 /\ p[Len(q) + 1] = RingPush(r, x)
        /\ \A k \in 1..Len(q) : p[k] = q[k]
    BY <1>1, <2>5
  <2>7. RingSize(q[Len(q)]) > 0
    BY <1>1, <1>2 DEF RingIsFull, Back
  <2> HIDE DEF p
  <2>8. \A k \in 1..Len(p) : RingOK(p[k]) /\ RingSize(p[k]) > 0
    BY <1>1, <2>4, <2>6, <2>7
  <2>9. QueueOK(p) /\ ~IsEmpty(p)
    BY <1>1, <2>6, <2>8 DEF QueueOK, IsEmpty, Back
  <2> QED
    BY <1>1, <2>4, <2>6, <2>9 DEF Back, p
<1>3. CASE ~RingIsFull(Back(q))
  <2> DEFINE r == RingPush(q[Len(q)], x)
  <2>1. /\ RingOK(r) /\ RingSize(r) = RingSize(q[Len(q)]) + 1
        /\ RingItems(r) = Append(RingItems(q[Len(q)]), x)
    BY <1>1, <1>3, RingPushAppends DEF Back
  <2>2. p = [q EXCEPT ![Len(q)] = r]
    BY <1>3 DEF PushBack, Back
  <2> HIDE DEF r
  <2>3. /\ Len(p) = Len(q) /\ p[Len(q)] = r
        /\ \A k \in 1..(Len(q) - 1) : p[k] = q[k]
    BY <1>1, <2>2
  <2> HIDE DEF p
  <2>4. ASSUME NEW k \in 1..Len(p)
        PROVE  RingOK(p[k]) /\ (Len(p) > 1 => RingSize(p[k]) > 0)
    <3>1. RingSize(r) > 0
      BY <1>1, <2>1
    <3>2. CASE k = Len(q)
      BY <2>1, <2>3, <3>1, <3>2
    <3>3. CASE k # Len(q)
      <4>1. k \in 1..(Len(q) - 1)
        BY <1>1, <2>3, <3>3
      <4>2. k \in 1..Len(q) /\ p[k] = q[k] /\ Len(p) = Len(q)
        BY <1>1, <2>3, <4>1
      <4>3. RingOK(q[k]) /\ (Len(q) > 1 => RingSize(q[k]) > 0)
        BY <1>1, <4>2
      <4> QED
        BY <4>2, <4>3
    <3> QED
      BY <3>2, <3>3
  <2>5. QueueOK(p) /\ ~IsEmpty(p)
    BY <1>1, <2>1, <2>3, <2>4 DEF QueueOK, IsEmpty, Back
  <2> QED
    BY <1>1, <2>1, <2>3, <2>5 DEF Back, p
<1> QED
  BY <1>2, <1>3

(* pop_front takes the oldest item of the first ring, the one that front    *)
(* answers, drops the ring if that was its last item and another follows,   *)
(* and keeps the queue in order.                                            *)
THEOREM PopKeepsQueue ==
  ASSUME NEW S, NEW q \in Seq(S), QueueOK(q), ~IsEmpty(q)
  PROVE  LET p == PopFront(q)
         IN  /\ QueueOK(p)
             /\ RingItems(q[1]) # <<>> /\ Front(q) = Head(RingItems(q[1]))
             /\ \/ /\ Len(p) = Len(q) /\ \A k \in 2..Len(q) : p[k] = q[k]
                   /\ RingItems(p[1]) = Tail(RingItems(q[1]))
                \/ p = Tail(q) /\ Tail(RingItems(q[1])) = <<>>
<1> DEFINE r == RingPop(q[1])
           m == [q EXCEPT ![1] = r]
<1>1. /\ Len(q) \in Nat /\ Len(q) >= 1 /\ 1 \in 1..Len(q)
      /\ \A k \in 1..Len(q) : RingOK(q[k]) /\ RingSize(q[k]) \in Nat
      /\ Len(q) > 1 => \A k \in 1..Len(q) : RingSize(q[k]) > 0
  BY RingIsEmpty DEF QueueOK
<1>2. RingSize(q[1]) > 0
  BY <1>1 DEF IsEmpty, Back
<1>3. /\ RingOK(r) /\ RingSize(r) \in Nat
      /\ RingItems(q[1]) # <<>> /\ Front(q) = Head(RingItems(q[1]))
      /\ RingItems(r) = Tail(RingItems(q[1]))
  BY <1>1, <1>2, RingPopTakes, RingIsEmpty DEF Front
<1> HIDE DEF r
<1>4. /\ Len(m) = Len(q) /\ m[1] = r /\ m \in Seq(S \cup {r})
      /\ \A k \in 2..Len(q) : m[k] = q[k]
  BY <1>1
<1>5. PopFront(q) = IF RingSize(r) = 0 /\ Len(q) > 1 THEN Tail(m) ELSE m
  BY <1>4 DEF PopFront, r
<1> HIDE DEF m
<1>6. CASE RingSize(r) = 0 /\ Len(q) > 1
  <2>1. Tail(m) = Tail(q)
    BY <1>1, <1>4, <1>6 DEF m
  <2>2. /\ Len(Tail(q)) = Len(q) - 1
        /\ \A k \in 1..(Len(q) - 1) : Tail(q)[k] = q[k + 1] /\ k + 1 \in 1..Len(q)
    BY <1>1, <1>6
  <2>3. QueueOK(Tail(q))
    BY <1>1, <1>6, <2>2 DEF QueueOK
  <2>4. Tail(RingItems(q[1])) = <<>>
    BY <1>3, <1>6, RingIsEmpty
  <2> QED
    BY <1>3, <1>5, <1>6, <2>1, <2>3, <2>4
<1>7. CASE ~(RingSize(r) = 0 /\ Len(q) > 1)
  <2>1. ASSUME NEW k \in 1..Len(m)
        PROVE  RingOK(m[k]) /\ (Len(m) > 1 => RingSize(m[k]) > 0)
    <3>1. CASE k = 1
      <4>1. Len(m) > 1 => RingSize(r) > 0
        BY <1>1, <1>3, <1>4, <1>7
      <4> QED
        BY <1>3, <1>4, <3>1, <4>1
    <3>2. CASE k # 1
      <4>1. k \in 1..Len(q) /\ m[k] = q[k] /\ Len(m) = Len(q)
        BY <1>1, <1>4, <3>2
      <4> QED
        BY <1>1, <4>1
    <3> QED
      BY <3>1, <3>2
  <2>2. QueueOK(m)
    BY <1>1, <1>4, <2>1 DEF QueueOK
  <2> QED
    BY <1>3, <1>4, <1>5, <1>7, <2>2
<1> QED
  BY <1>6, <1>7

-----------------------------------------------------------------------------
(* The queue as one sequence.                                               *)

Slot == Op \cup {Nil}

(* A ring in order holds a sequence.                                        *)
LEMMA RingItemsAreSeq ==
  ASSUME NEW r, RingOK(r)
  PROVE  RingItems(r) \in Seq(Slot)
<1>1. /\ r.cap \in Nat \ {0} /\ r.popIdx \in Nat /\ RingSize(r) \in Nat
      /\ r.slots \in [0..(r.cap - 1) -> Slot]
  BY RingIsEmpty DEF RingOK, Slot
<1>2. ASSUME NEW k \in 1..RingSize(r) PROVE r.slots[(r.popIdx + k - 1) % r.cap] \in Slot
  <2>1. r.popIdx + k - 1 \in Nat
    BY <1>1
  <2> QED
    BY <1>1, <2>1, SlotInRange
<1> QED
  BY <1>1, <1>2, SMTT(20) DEF RingItems

(* What the first rings hold, one ring more at a time.                      *)
Joins(q) ==
  {f \in [0..Len(q) -> Seq(Slot)] :
     f[0] = <<>> /\ \A k \in 1..Len(q) : f[k] = f[k - 1] \o RingItems(q[k])}

LEMMA ItemsJoin ==
  ASSUME NEW q, Len(q) \in Nat, \A k \in 1..Len(q) : RingOK(q[k])
  PROVE  \E f \in Joins(q) : Items(q) = f[Len(q)]
<1> DEFINE n == Len(q)
           Body(g) == [k \in 0..n |-> IF k = 0 THEN <<>> ELSE g[k - 1] \o RingItems(q[k])]
           f == CHOOSE g : g = Body(g)
           SS == Seq(Slot)
           step == [p \in SS \X Nat |-> IF p[2] \in 1..n THEN p[1] \o RingItems(q[p[2]]) ELSE p[1]]
<1>1. n \in Nat /\ \A k \in 1..n : RingItems(q[k]) \in SS
  BY RingItemsAreSeq
<1>2. Items(q) = f[n]
  BY DEF Items
<1>3. step \in [SS \X Nat -> SS] /\ <<>> \in SS
  <2>1. ASSUME NEW s \in SS, NEW k \in 1..n PROVE s \o RingItems(q[k]) \in SS
    BY <1>1, <2>1, ConcatProperties
  <2> QED
    BY <2>1
<1>4. PICK g \in [0..n -> SS] :
        g[0] = <<>> /\ \A k \in 1..n : g[k] = step[<<g[k - 1], k>>]
  <2> HIDE DEF step, n, SS
  <2>1. Iterations(SS, <<>>, step, n) # {}
    BY <1>1, <1>3, RecursionExists
  <2> QED
    BY <2>1 DEF Iterations
<1>5. \A k \in 1..n : g[k] = g[k - 1] \o RingItems(q[k])
  <2> SUFFICES ASSUME NEW k \in 1..n PROVE g[k] = g[k - 1] \o RingItems(q[k])
    OBVIOUS
  <2>1. k \in Nat /\ k - 1 \in 0..n
    BY <1>1
  <2> HIDE DEF SS, n
  <2>2. g[k - 1] \in SS
    BY <1>4, <2>1
  <2>3. step[<<g[k - 1], k>>] = g[k - 1] \o RingItems(q[k])
    BY <2>1, <2>2
  <2> HIDE DEF step
  <2> QED
    BY <1>4, <2>3
<1>6. g = Body(g)
  <2>1. \A k \in 0..n : k # 0 => k \in 1..n
    BY <1>1
  <2> HIDE DEF n, SS
  <2>2. g = [k \in 0..n |-> g[k]]
    BY <1>4
  <2>3. \A k \in 0..n : g[k] = IF k = 0 THEN <<>> ELSE g[k - 1] \o RingItems(q[k])
    BY <1>4, <1>5, <2>1
  <2> QED
    BY <2>2, <2>3
<1>7. f = Body(f)
  <2> HIDE DEF Body
  <2> QED
    BY <1>6
<1> HIDE DEF f
<1>8. f[0] = <<>> /\ \A k \in 1..n : f[k] = f[k - 1] \o RingItems(q[k])
  <2>1. 0 \in 0..n /\ \A k \in 1..n : k \in 0..n /\ k # 0
    BY <1>1
  <2> QED
    BY <1>7, <2>1
<1>9. f \in [0..n -> SS]
  <2> DEFINE T == {k \in Nat : k <= n => f[k] \in SS}
  <2>1. 0 \in T
    BY <1>3, <1>8
  <2>2. ASSUME NEW k \in Nat, k \in T PROVE k + 1 \in T
    <3> SUFFICES ASSUME k + 1 <= n PROVE f[k + 1] \in SS
      OBVIOUS
    <3>1. k + 1 \in 1..n /\ k <= n /\ (k + 1) - 1 = k
      BY <1>1
    <3>2. f[k] \in SS /\ f[k + 1] = f[k] \o RingItems(q[k + 1]) /\ RingItems(q[k + 1]) \in SS
      BY <1>1, <1>8, <2>2, <3>1
    <3> QED
      BY <3>2, ConcatProperties
  <2> HIDE DEF T
  <2>3. Nat \subseteq T
    BY <2>1, <2>2, SetInduction
  <2>4. \A k \in 0..n : f[k] \in SS
    BY <1>1, <2>3 DEF T
  <2>5. DOMAIN f = 0..n /\ f = [k \in 0..n |-> f[k]]
    <3>1. DOMAIN f = 0..n
      BY <1>7
    <3>2. f = [k \in DOMAIN f |-> f[k]]
      BY <1>7
    <3> QED
      BY <3>1, <3>2
  <2> QED
    BY <2>4, <2>5
<1>10. f \in Joins(q)
  BY <1>8, <1>9 DEF Joins
<1>11. Items(q) = f[Len(q)]
  BY <1>2
<1> QED
  BY <1>10, <1>11, Zenon

(* Queues with the same first rings hold the same in them.                  *)
LEMMA JoinsAgree ==
  ASSUME NEW q, NEW p, NEW f \in Joins(q), NEW g \in Joins(p),
         NEW m \in Nat, Len(q) \in Nat, Len(p) \in Nat, m <= Len(q), m <= Len(p),
         \A k \in 1..m : RingItems(p[k]) = RingItems(q[k])
  PROVE  g[m] = f[m]
<1> DEFINE T == {k \in Nat : k <= m => g[k] = f[k]}
<1>1. 0 \in T
  BY DEF Joins
<1>2. ASSUME NEW k \in Nat, k \in T PROVE k + 1 \in T
  <2> SUFFICES ASSUME k + 1 <= m PROVE g[k + 1] = f[k + 1]
    OBVIOUS
  <2>1. /\ k + 1 \in 1..m /\ k + 1 \in 1..Len(q) /\ k + 1 \in 1..Len(p)
        /\ (k + 1) - 1 = k /\ k <= m
    OBVIOUS
  <2>2. f[k + 1] = f[k] \o RingItems(q[k + 1]) /\ g[k + 1] = g[k] \o RingItems(p[k + 1])
    BY <2>1 DEF Joins
  <2> QED
    BY <1>2, <2>1, <2>2
<1> HIDE DEF T
<1>3. Nat \subseteq T
  BY <1>1, <1>2, SetInduction
<1> QED
  BY <1>3 DEF T

(* Taking the first item of what the first ring holds takes it from what    *)
(* the queue holds; d rings of q are gone in p.                             *)
LEMMA JoinsTail ==
  ASSUME NEW q, NEW p, NEW f \in Joins(q), NEW g \in Joins(p), NEW d \in {0, 1},
         Len(q) \in Nat, Len(p) = Len(q) - d, 1 <= Len(q),
         f[1] # <<>>, g[1 - d] = Tail(f[1]),
         \A k \in 1..Len(q) : RingItems(q[k]) \in Seq(Slot),
         \A k \in 2..Len(q) : RingItems(p[k - d]) = RingItems(q[k])
  PROVE  g[Len(p)] = Tail(f[Len(q)])
<1> DEFINE m == Len(q)
           Good(k) == f[k] # <<>> /\ g[k - d] = Tail(f[k])
           T == {k \in Nat : k + 1 <= m => Good(k + 1)}
<1>1. 0 \in T
  OBVIOUS
<1>2. ASSUME NEW k \in Nat, k \in T PROVE k + 1 \in T
  <2> DEFINE j == k + 2
  <2> SUFFICES ASSUME j <= m PROVE Good(j)
    BY (k + 1) + 1 = j
  <2>1. /\ j \in 2..m /\ j \in 1..Len(q) /\ j - 1 \in 0..Len(q) /\ j - 1 = k + 1
        /\ j - d \in 1..Len(p) /\ (j - d) - 1 = (j - 1) - d
    OBVIOUS
  <2>2. f[j - 1] # <<>> /\ g[(j - 1) - d] = Tail(f[j - 1])
    BY <1>2, <2>1
  <2>3. f[j] = f[j - 1] \o RingItems(q[j]) /\ g[j - d] = g[(j - d) - 1] \o RingItems(p[j - d])
    BY <2>1 DEF Joins
  <2>4. f[j - 1] \in Seq(Slot) /\ RingItems(q[j]) \in Seq(Slot) /\ RingItems(p[j - d]) = RingItems(q[j])
    BY <2>1 DEF Joins
  <2> DEFINE a == f[j - 1]
             b == RingItems(q[j])
  <2>5. a \in Seq(Slot) /\ b \in Seq(Slot) /\ a # <<>>
    BY <2>2, <2>4
  <2>6. f[j] = a \o b /\ g[j - d] = Tail(a) \o b
    BY <2>1, <2>2, <2>3, <2>4
  <2> HIDE DEF a, b, j
  <2>7. a \o b # <<>> /\ Tail(a \o b) = Tail(a) \o b
    BY <2>5
  <2> QED
    BY <2>6, <2>7
<1> HIDE DEF T
<1>3. Nat \subseteq T
  BY <1>1, <1>2, SetInduction
<1>4. m - 1 \in T /\ (m - 1) + 1 = m
  BY <1>3
<1> QED
  BY <1>4 DEF T

(* A queue made by these calls.                                             *)
Rings ==
  [cap : Nat \ {0}, popIdx : Nat, pushIdx : Nat,
   slots : UNION {[0..(c - 1) -> Slot] : c \in Nat \ {0}}]

IsQueue(q) == q \in Seq(Rings) /\ QueueOK(q)

LEMMA RingsInOrder ==
  ASSUME NEW r, RingOK(r)
  PROVE  r \in Rings
<1>1. r = [cap |-> r.cap, popIdx |-> r.popIdx, pushIdx |-> r.pushIdx, slots |-> r.slots]
  BY DEF RingOK
<1>2. r.cap \in Nat \ {0} /\ r.popIdx \in Nat /\ r.pushIdx \in Nat
  BY DEF RingOK
<1>3. r.slots \in UNION {[0..(c - 1) -> Slot] : c \in Nat \ {0}}
  BY <1>2 DEF RingOK, Slot
<1> QED
  BY <1>1, <1>2, <1>3 DEF Rings

LEMMA QueueInOrder ==
  ASSUME NEW S, NEW q \in Seq(S), QueueOK(q)
  PROVE  IsQueue(q)
<1>1. \A k \in 1..Len(q) : q[k] \in Rings
  BY RingsInOrder DEF QueueOK
<1>2. q = [k \in 1..Len(q) |-> q[k]] /\ Len(q) \in Nat
  OBVIOUS
<1>3. q \in Seq(Rings)
  BY <1>1, <1>2
<1> QED
  BY <1>3 DEF IsQueue

(* A new queue holds nothing (SpscQueue::SpscQueue).                        *)
THEOREM NewQueueIsEmpty ==
  ASSUME NEW cap \in Nat \ {0}
  PROVE  IsQueue(NewQueue(cap)) /\ Items(NewQueue(cap)) = <<>>
<1> DEFINE q == NewQueue(cap)
           r == EmptyRing(cap)
<1>1. RingOK(r) /\ RingSize(r) = 0
  BY EmptyRingIsOK
<1>2. q = <<r>>
  BY DEF NewQueue
<1> HIDE DEF r, q
<1>3. q \in Seq({r}) /\ Len(q) = 1 /\ q[1] = r
  BY <1>2
<1>4. QueueOK(q)
  BY <1>1, <1>3 DEF QueueOK
<1>5. PICK f \in Joins(q) : Items(q) = f[Len(q)]
  <2>1. Len(q) \in Nat /\ \A k \in 1..Len(q) : RingOK(q[k])
    BY <1>3, <1>4 DEF QueueOK
  <2> QED
    BY <2>1, ItemsJoin
<1>6. f[0] = <<>> /\ f[1] = f[1 - 1] \o RingItems(q[1])
  BY <1>3 DEF Joins
<1>7. RingItems(r) = <<>>
  BY <1>1, RingIsEmpty
<1>8. <<>> \o <<>> = <<>>
  OBVIOUS
<1>9. Items(q) = <<>>
  BY <1>3, <1>5, <1>6, <1>7, <1>8
<1> QED
  BY <1>3, <1>4, <1>9, QueueInOrder DEF q

(* isEmpty answers whether the queue holds anything (SpscQueue::isEmpty).   *)
THEOREM IsEmptyIsRight ==
  ASSUME NEW q, IsQueue(q)
  PROVE  Items(q) \in Seq(Slot) /\ (IsEmpty(q) <=> Items(q) = <<>>)
<1>1. /\ q \in Seq(Rings) /\ QueueOK(q) /\ Len(q) \in Nat /\ Len(q) > 0
      /\ \A k \in 1..Len(q) : RingOK(q[k])
  BY DEF IsQueue, QueueOK
<1>2. PICK f \in Joins(q) : Items(q) = f[Len(q)]
  BY <1>1, ItemsJoin
<1>3. /\ f \in [0..Len(q) -> Seq(Slot)] /\ f[0] = <<>>
      /\ \A k \in 1..Len(q) : f[k] = f[k - 1] \o RingItems(q[k])
  BY DEF Joins
<1>4. \A k \in 1..Len(q) : RingItems(q[k]) \in Seq(Slot)
  BY <1>1, RingItemsAreSeq
<1>5. ASSUME IsEmpty(q) PROVE Items(q) = <<>>
  <2>1. \A k \in 1..Len(q) : RingItems(q[k]) = <<>>
    BY <1>1, <1>5, IsEmptyIsExact
  <2> DEFINE T == {k \in Nat : k <= Len(q) => f[k] = <<>>}
  <2>2. 0 \in T
    BY <1>3
  <2>3. ASSUME NEW k \in Nat, k \in T PROVE k + 1 \in T
    <3> SUFFICES ASSUME k + 1 <= Len(q) PROVE f[k + 1] = <<>>
      OBVIOUS
    <3>1. k + 1 \in 1..Len(q) /\ (k + 1) - 1 = k /\ k <= Len(q)
      BY <1>1
    <3>2. f[k] = <<>> /\ f[k + 1] = f[k] \o RingItems(q[k + 1]) /\ RingItems(q[k + 1]) = <<>>
      BY <1>3, <2>1, <2>3, <3>1
    <3>3. <<>> \o <<>> = <<>>
      OBVIOUS
    <3> QED
      BY <3>2, <3>3
  <2> HIDE DEF T
  <2>4. Nat \subseteq T
    BY <2>2, <2>3, SetInduction
  <2> QED
    BY <1>1, <1>2, <2>4 DEF T
<1>6. ASSUME ~IsEmpty(q) PROVE Items(q) # <<>>
  <2> DEFINE n == Len(q)
             a == f[n - 1]
             b == RingItems(q[n])
  <2>1. n \in 1..n /\ n - 1 \in 0..n
    BY <1>1
  <2>2. a \in Seq(Slot) /\ b \in Seq(Slot) /\ Items(q) = a \o b
    BY <1>2, <1>3, <1>4, <2>1
  <2>3. b # <<>>
    BY <1>1, <1>6, <2>1, RingIsEmpty DEF IsEmpty, Back
  <2> HIDE DEF a, b
  <2> QED
    BY <2>2, <2>3
<1>7. Items(q) \in Seq(Slot)
  BY <1>1, <1>2, <1>3
<1> QED
  BY <1>5, <1>6, <1>7

(* push_back puts the item behind all that the queue holds, a new ring or   *)
(* not (SpscQueue::push_back).                                              *)
THEOREM PushAppends ==
  ASSUME NEW q, IsQueue(q), NEW x \in Op
  PROVE  IsQueue(PushBack(q, x)) /\ Items(PushBack(q, x)) = Append(Items(q), x)
<1> DEFINE p == PushBack(q, x)
           n == Len(q)
           r == RingPush(EmptyRing(Back(q).cap * GrowBy), x)
           t == RingPush(q[n], x)
           A == RingItems(q[n])
           B == RingItems(Back(p))
<1>1. /\ q \in Seq(Rings) /\ QueueOK(q) /\ n \in Nat /\ n > 0
      /\ \A k \in 1..n : RingOK(q[k])
  BY DEF IsQueue, QueueOK
<1>2. p = Append(q, r) \/ p = [q EXCEPT ![n] = t]
  BY <1>1 DEF PushBack
<1>3. p \in Seq(Rings \cup {r, t})
  <2> HIDE DEF r, t, p
  <2> QED
    BY <1>1, <1>2
<1>4. /\ QueueOK(p) /\ Len(p) >= n /\ \A k \in 1..(n - 1) : p[k] = q[k]
      /\ \/ Len(p) = n /\ B = Append(A, x)
         \/ Len(p) = n + 1 /\ p[n] = q[n] /\ B = <<x>>
  <2> HIDE DEF r, t, p, A, B
  <2> QED
    BY <1>1, PushKeepsQueue DEF p, A, B, Back
<1>5. Back(p) = p[Len(p)]
  BY DEF Back
<1> HIDE DEF r, t, p
<1>6. Len(p) \in Nat /\ \A k \in 1..Len(p) : RingOK(p[k])
  BY <1>3, <1>4 DEF QueueOK
<1>7. PICK f \in Joins(q) : Items(q) = f[n]
  BY <1>1, ItemsJoin
<1>8. PICK g \in Joins(p) : Items(p) = g[Len(p)]
  BY <1>6, ItemsJoin
<1>9. A \in Seq(Slot)
  BY <1>1, RingItemsAreSeq
<1>10. CASE Len(p) = n /\ B = Append(A, x)
  <2>1. g[n - 1] = f[n - 1]
    BY <1>1, <1>4, <1>6, JoinsAgree, SMTT(20)
  <2>2. f[n] = f[n - 1] \o A /\ g[n] = g[n - 1] \o B /\ f[n - 1] \in Seq(Slot)
    <3>1. n \in 1..n /\ n \in 1..Len(p) /\ n - 1 \in 0..n
      BY <1>1, <1>10
    <3> QED
      BY <1>1, <1>5, <1>10, <3>1 DEF Joins
  <2> DEFINE u == f[n - 1]
  <2>3. Items(q) = u \o A /\ Items(p) = u \o Append(A, x) /\ u \in Seq(Slot)
    BY <1>7, <1>8, <1>10, <2>1, <2>2
  <2>4. x \in Slot
    BY DEF Slot
  <2> HIDE DEF u, A, B
  <2>5. u \o Append(A, x) = Append(u \o A, x)
    BY <1>9, <2>3, <2>4
  <2> QED
    BY <1>3, <1>4, <2>3, <2>5, QueueInOrder DEF p
<1>11. CASE Len(p) = n + 1 /\ p[n] = q[n] /\ B = <<x>>
  <2>1. \A k \in 1..n : p[k] = q[k]
    BY <1>1, <1>4, <1>11
  <2>2. g[n] = f[n]
    BY <1>1, <1>4, <1>6, <2>1, JoinsAgree
  <2>3. g[n + 1] = g[n] \o B /\ f[n] \in Seq(Slot)
    <3>1. n + 1 \in 1..Len(p) /\ (n + 1) - 1 = n /\ n \in 0..n
      BY <1>1, <1>11
    <3> QED
      BY <1>1, <1>5, <1>11, <3>1 DEF Joins
  <2> DEFINE u == f[n]
  <2>4. Items(q) = u /\ Items(p) = u \o <<x>> /\ u \in Seq(Slot)
    BY <1>7, <1>8, <1>11, <2>2, <2>3
  <2> HIDE DEF u
  <2>5. u \o <<x>> = Append(u, x)
    BY <2>4
  <2> QED
    BY <1>3, <1>4, <2>4, <2>5, QueueInOrder DEF p
<1> QED
  BY <1>4, <1>10, <1>11

(* front answers the oldest item and pop_front takes it, whichever ring it  *)
(* is in and whether or not the ring goes with it (SpscQueue::front,        *)
(* SpscQueue::pop_front).                                                   *)
THEOREM PopTakes ==
  ASSUME NEW q, IsQueue(q), Items(q) # <<>>
  PROVE  /\ IsQueue(PopFront(q)) /\ Front(q) = Head(Items(q))
         /\ Items(PopFront(q)) = Tail(Items(q))
<1> DEFINE p == PopFront(q)
           n == Len(q)
           A == RingItems(q[1])
           t == RingPop(q[1])
<1>1. /\ q \in Seq(Rings) /\ QueueOK(q) /\ n \in Nat /\ n > 0
      /\ \A k \in 1..n : RingOK(q[k])
  BY DEF IsQueue, QueueOK
<1>2. ~IsEmpty(q)
  BY IsEmptyIsRight
<1>3. p = [q EXCEPT ![1] = t] \/ p = Tail([q EXCEPT ![1] = t])
  BY DEF PopFront
<1>4. p \in Seq(Rings \cup {t})
  <2> DEFINE m == [q EXCEPT ![1] = t]
  <2>1. m \in Seq(Rings \cup {t}) /\ m # <<>>
    <3> HIDE DEF t
    <3> QED
      BY <1>1
  <2> HIDE DEF m
  <2>2. Tail(m) \in Seq(Rings \cup {t})
    BY <2>1, HeadTailProperties
  <2>3. p = m \/ p = Tail(m)
    BY <1>3 DEF m
  <2> HIDE DEF p
  <2> QED
    BY <2>1, <2>2, <2>3
<1>5. /\ QueueOK(p) /\ A # <<>> /\ Front(q) = Head(A)
      /\ \/ Len(p) = n /\ (\A k \in 2..n : p[k] = q[k]) /\ RingItems(p[1]) = Tail(A)
         \/ p = Tail(q) /\ Tail(A) = <<>>
  <2> HIDE DEF p, A
  <2> QED
    BY <1>1, <1>2, PopKeepsQueue DEF p, A
<1> HIDE DEF p, t
<1>6. Len(p) \in Nat /\ \A k \in 1..Len(p) : RingOK(p[k])
  BY <1>4, <1>5 DEF QueueOK
<1>7. PICK f \in Joins(q) : Items(q) = f[n]
  BY <1>1, ItemsJoin
<1>8. PICK g \in Joins(p) : Items(p) = g[Len(p)]
  BY <1>6, ItemsJoin
<1>9. \A k \in 1..n : RingItems(q[k]) \in Seq(Slot)
  BY <1>1, RingItemsAreSeq
<1>10. f[1] = A
  <2>1. 1 \in 1..n /\ 1 - 1 = 0 /\ A \in Seq(Slot)
    BY <1>1, <1>9
  <2>2. f[0] = <<>> /\ f[1] = f[1 - 1] \o A
    BY <2>1 DEF Joins
  <2> HIDE DEF A
  <2>3. <<>> \o A = A
    BY <2>1
  <2> QED
    BY <2>1, <2>2, <2>3
<1>11. Front(q) = Head(Items(q))
  <2> DEFINE T == {k \in Nat : k + 1 <= n => f[k + 1] # <<>> /\ Head(f[k + 1]) = Head(A)}
  <2>1. 0 \in T
    BY <1>5, <1>10
  <2>2. ASSUME NEW k \in Nat, k \in T PROVE k + 1 \in T
    <3> DEFINE a == f[k + 1]
               b == RingItems(q[k + 2])
    <3> SUFFICES ASSUME k + 2 <= n PROVE f[k + 2] # <<>> /\ Head(f[k + 2]) = Head(A)
      BY (k + 1) + 1 = k + 2
    <3>1. /\ k + 2 \in 1..n /\ k + 1 <= n /\ k + 1 \in 0..n /\ (k + 2) - 1 = k + 1
      BY <1>1
    <3>2. a # <<>> /\ Head(a) = Head(A)
      BY <2>2, <3>1
    <3>3. a \in Seq(Slot) /\ b \in Seq(Slot) /\ f[k + 2] = a \o b
      BY <1>9, <3>1 DEF Joins
    <3> HIDE DEF a, b, A
    <3>4. a \o b # <<>> /\ Head(a \o b) = Head(a)
      BY <3>2, <3>3
    <3> QED
      BY <3>2, <3>3, <3>4
  <2> HIDE DEF T
  <2>3. Nat \subseteq T
    BY <2>1, <2>2, SetInduction
  <2>4. n - 1 \in T /\ (n - 1) + 1 = n
    BY <1>1, <2>3
  <2> QED
    BY <1>5, <1>7, <2>4 DEF T
<1>12. Items(p) = Tail(Items(q))
  <2>1. CASE Len(p) = n /\ (\A k \in 2..n : p[k] = q[k]) /\ RingItems(p[1]) = Tail(A)
    <3>1. g[1] = Tail(A)
      <4>1. g[0] = <<>> /\ g[1] = g[1 - 1] \o Tail(A)
        <5>1. 1 \in 1..Len(p) /\ RingItems(p[1]) = Tail(A)
          BY <1>1, <2>1
        <5> HIDE DEF A
        <5> QED
          BY <5>1 DEF Joins
      <4>2. Tail(A) \in Seq(Slot)
        BY <1>1, <1>5, <1>9, HeadTailProperties
      <4> DEFINE b == Tail(A)
      <4> HIDE DEF b
      <4>3. <<>> \o b = b
        BY <4>2, ConcatEmptySeq DEF b
      <4> HIDE DEF A
      <4>4. g[0] = <<>> /\ g[1] = g[0] \o b
        <5>1. 1 - 1 = 0
          OBVIOUS
        <5> QED
          BY <4>1, <5>1, Zenon DEF b
      <4> QED
        BY <4>3, <4>4 DEF b
    <3>2. g[Len(p)] = Tail(f[n])
      <4>1. \A k \in 2..n : RingItems(p[k - 0]) = RingItems(q[k])
        BY <2>1
      <4>2. g[1 - 0] = Tail(f[1]) /\ f[1] # <<>> /\ Len(p) = n - 0 /\ 1 <= n
        BY <1>1, <1>5, <1>10, <2>1, <3>1
      <4> HIDE DEF A
      <4> QED
        BY <1>1, <1>6, <1>9, <4>1, <4>2, JoinsTail
    <3> QED
      BY <1>1, <1>7, <1>8, <2>1, <3>2
  <2>2. CASE p = Tail(q) /\ Tail(A) = <<>>
    <3>1. Len(p) = n - 1 /\ \A k \in 2..n : p[k - 1] = q[k]
      BY <1>1, <2>2
    <3>2. g[0] = <<>> /\ 1 - 1 = 0
      BY DEF Joins
    <3>3. g[1 - 1] = Tail(f[1]) /\ f[1] # <<>>
      <4> HIDE DEF A
      <4> QED
        BY <1>5, <1>10, <2>2, <3>2
    <3>4. \A k \in 2..n : RingItems(p[k - 1]) = RingItems(q[k])
      BY <3>1
    <3>5. g[Len(p)] = Tail(f[n])
      <4> HIDE DEF A
      <4> QED
        BY <1>1, <1>9, <3>1, <3>3, <3>4, JoinsTail
    <3> QED
      BY <1>7, <1>8, <3>5
  <2> QED
    BY <1>5, <2>1, <2>2
<1> QED
  BY <1>4, <1>5, <1>11, <1>12, QueueInOrder DEF p

LEMMA QueueHolds ==
  ASSUME NEW q, IsQueue(q)
  PROVE  QueueOK(q) /\ (IsEmpty(q) <=> Items(q) = <<>>)
BY IsEmptyIsRight DEF IsQueue

-----------------------------------------------------------------------------
(* The inductive invariant.  cn is the state of the connection; of a side,  *)
(* st is the status, av whether the socket is available, w what the queue   *)
(* holds, qe whether it was given up, sd its strand, i what the socket      *)
(* works on, an the answers, lt and mv the operations pushed late and moved.*)

Handlers == {"kick", "complete", "fatal", "drain", "close", "cancel", "open", "sent"}
Ends == {"complete", "sent", "fatal"}
Answers == {"none", "value", "exception"}

Has(sd, C) == \E k \in DOMAIN sd : sd[k] \in C
Once(sd, C) == \A j, k \in DOMAIN sd : sd[j] \in C /\ sd[k] \in C => j = k

Typed(st, av, w, qe, sd, i, an, lt, mv) ==
  /\ st \in {"Normal", "Stopped"} /\ av \in BOOLEAN /\ qe \in BOOLEAN
  /\ w \in Seq(Op) /\ sd \in Seq(Handlers) /\ an \in Seq(Answers)
  /\ i \in [op : Op \cup {Nil}, phase : Phases]
  /\ lt \subseteq Op /\ mv \in Seq(Op)

(* Operations are numbered as they are pushed.                              *)
Numbered(w, an) ==
  /\ Len(w) <= Len(an)
  /\ \A k \in DOMAIN w : w[k][1] = Len(an) - Len(w) + k

(* The right to start an operation is nowhere, ...                          *)
Unheld(av, sd, i) == ~av /\ i.phase = "idle" /\ ~Has(sd, Ends)

(* ... before the side is open and once a failure was dealt with, and       *)
(* otherwise it is free, with the operation under way or on its way back.   *)
Right(cn, st, av, w, sd, i) ==
  /\ Once(sd, Ends) /\ Once(sd, {"open"})
  /\ av => i.phase = "idle" /\ ~Has(sd, Ends)
  /\ i.phase # "idle" => ~Has(sd, Ends)
  /\ cn # "open" \/ Has(sd, {"open"}) \/ Has(sd, {"drain"}) => Unheld(av, sd, i)
  /\ cn # "open" => ~Has(sd, {"open"})
  /\ Has(sd, {"drain"}) => ~Has(sd, {"open"}) /\ cn \in {"open", "failed"} /\ st = "Stopped"

(* Whoever has the right has it for the first operation of the queue.       *)
ForTheFirst(w, sd, i) ==
  /\ i.phase # "idle" => \/ i.op = ConnString /\ i.phase = "data"
                         \/ w # <<>> /\ i.op = Head(w)
  /\ Has(sd, {"complete"}) => w # <<>>

(* What the socket carried is what left the queue, but for an operation on  *)
(* its way back and for those cancelled after a failure.                    *)
Carried(cn, av, w, sd, i, an, mv) ==
  /\ \A k \in DOMAIN mv : mv[k][1] = k
  /\ cn \notin {"open", "failed"} \/ Has(sd, {"open"}) => mv = <<>> /\ Len(w) = Len(an)
  /\ av \/ i.phase # "idle" \/ Has(sd, {"sent"}) => Len(mv) + Len(w) = Len(an)
  /\ Has(sd, {"complete"}) => Len(mv) + Len(w) = Len(an) + 1

(* Of the queued operations only the first one may be answered: when it     *)
(* ended, or waits for a buffer of the right size.                          *)
FirstAnswered(cn, av, w, sd, i, an) ==
  \A k \in DOMAIN w : w[k][2] = "promise" =>
    /\ an[w[k][1]] # "none" =>
         k = 1 /\ cn = "open" /\ ~av /\ i.phase \in {"idle", "parked"} /\ ~Has(sd, {"open"}) /\ ~Has(sd, {"sent"})
    /\ ~Has(sd, {"complete"}) => an[w[k][1]] # "value"

(* A queue given up holds only what was pushed too late.                    *)
OnlyLate(w, qe, lt) == qe => \A k \in DOMAIN w : w[k] \in lt

SideOK(cn, st, av, w, qe, sd, i, an, lt, mv) ==
  /\ Typed(st, av, w, qe, sd, i, an, lt, mv)
  /\ Numbered(w, an)
  /\ Right(cn, st, av, w, sd, i)
  /\ ForTheFirst(w, sd, i)
  /\ Carried(cn, av, w, sd, i, an, mv)
  /\ FirstAnswered(cn, av, w, sd, i, an)
  /\ OnlyLate(w, qe, lt)

SideInv(s) ==
  SideOK(conn, status[s], available[s], Items(queue[s]), queueEmpty[s], strand[s], io[s],
         answers[s], late[s], moved[s])

PerSide(f) == f = [s \in Side |-> f[s]]

Shape ==
  /\ <<role, load>> \in Cases
  /\ conn \in {"connecting", "retrying", "pending", "open", "failed"}
  /\ handle \in {"none", "open", "closed", "reset"}
  /\ openCount \in 0..2 /\ openProm \in {"none", "value", "exception"}
  /\ acceptor \in {"idle", "asked"}
  /\ PerSide(status) /\ PerSide(available) /\ PerSide(queue) /\ PerSide(queueEmpty)
  /\ PerSide(strand) /\ PerSide(io) /\ PerSide(answers) /\ PerSide(late) /\ PerSide(moved)
  /\ \A s \in Side : IsQueue(queue[s])

Waits(s) == IF Has(strand[s], {"open"}) THEN 1 ELSE 0

(* Each side is opened once.                                                *)
OpenOnce ==
  /\ conn # "open" => openCount = 0
  /\ role = "given" => conn = "open" /\ openCount = 0 /\ \A s \in Side : ~Has(strand[s], {"open"})
  /\ role # "given" /\ conn = "open" => openCount + Waits("send") + Waits("recv") = 2
  /\ openProm = "exception" <=> conn = "failed"
  /\ conn = "failed" \/ acceptor = "asked" => Stopped

(* The side is given up or its strand is busy cancelling what is queued.    *)
Doomed(s) == queueEmpty[s] \/ (strand[s] # <<>> /\ Head(strand[s]) = "drain")

Closers ==
  {<<"none">>} \cup ({"close", "cancel"} \X {"opening", "send", "recv"})
  \cup ({"done"} \X {"close", "cancel"})

ClosingOK ==
  /\ closer \in Closers
  /\ closer[1] \in {"close", "cancel"} /\ closer[2] = "recv" => queueEmpty["send"]
  /\ handle = "reset" => \A s \in Side : queueEmpty[s]
  /\ closer = <<"none">> => \A s \in Side :
       ~Has(strand[s], {"close"}) /\ (status[s] = "Stopped" => Doomed(s))
  /\ closer = <<"done", "close">> => \A s \in Side : Doomed(s)

Users ==
  {<<"idle">>} \cup ({"checked", "waiting"} \X Side \X Op)

UserOK ==
  /\ user \in Users
  /\ user[1] = "checked" =>
       /\ user[3][1] = Len(answers[user[2]]) + 1 /\ user[3][1] <= load[user[2]]
       /\ user[3][2] \in Kind(user[2])

CrashOK ==
  /\ crash \in {"none", "promise set twice", "no socket"}
  /\ CrashesAreKnown

IInv ==
  /\ Shape /\ OpenOnce /\ ClosingOK /\ UserOK /\ CrashOK
  /\ \A s \in Side : SideInv(s)

-----------------------------------------------------------------------------
(* Strands and queues as sequences.                                         *)

LEMMA HasTail ==
  ASSUME NEW S, NEW sd \in Seq(S), sd # <<>>, NEW C
  PROVE  /\ Has(sd, C) <=> Head(sd) \in C \/ Has(Tail(sd), C)
         /\ Once(sd, C) => Once(Tail(sd), C) /\ (Head(sd) \in C => ~Has(Tail(sd), C))
<1>1. /\ Len(sd) \in Nat /\ Len(sd) >= 1 /\ DOMAIN sd = 1..Len(sd) /\ Head(sd) = sd[1]
      /\ DOMAIN Tail(sd) = 1..(Len(sd) - 1) /\ 1 \in DOMAIN sd
      /\ \A k \in DOMAIN Tail(sd) : Tail(sd)[k] = sd[k + 1] /\ k + 1 \in DOMAIN sd /\ k + 1 # 1
      /\ \A k \in DOMAIN sd : k # 1 => k - 1 \in DOMAIN Tail(sd) /\ Tail(sd)[k - 1] = sd[k]
  OBVIOUS
<1>2. Has(sd, C) <=> Head(sd) \in C \/ Has(Tail(sd), C)
  BY <1>1 DEF Has
<1>3. ASSUME Once(sd, C), NEW j \in DOMAIN Tail(sd), NEW k \in DOMAIN Tail(sd),
             Tail(sd)[j] \in C, Tail(sd)[k] \in C
      PROVE  j = k
  <2>1. j + 1 = k + 1 /\ j \in Nat /\ k \in Nat
    BY <1>1, <1>3 DEF Once
  <2> QED
    BY <2>1
<1>4. ASSUME Once(sd, C), Head(sd) \in C, NEW j \in DOMAIN Tail(sd), Tail(sd)[j] \in C
      PROVE  FALSE
  BY <1>1, <1>4 DEF Once
<1> QED
  BY <1>2, <1>3, <1>4 DEF Has, Once

LEMMA HasAppend ==
  ASSUME NEW S, NEW sd \in Seq(S), NEW h \in S, NEW C
  PROVE  /\ Has(Append(sd, h), C) <=> h \in C \/ Has(sd, C)
         /\ Once(sd, C) /\ (h \in C => ~Has(sd, C)) => Once(Append(sd, h), C)
<1>1. /\ Len(sd) \in Nat /\ DOMAIN sd = 1..Len(sd)
      /\ DOMAIN Append(sd, h) = 1..(Len(sd) + 1)
      /\ Append(sd, h)[Len(sd) + 1] = h /\ Len(sd) + 1 \in DOMAIN Append(sd, h)
      /\ \A k \in DOMAIN sd : k \in DOMAIN Append(sd, h) /\ Append(sd, h)[k] = sd[k]
      /\ \A k \in DOMAIN Append(sd, h) : k # Len(sd) + 1 => k \in DOMAIN sd /\ Append(sd, h)[k] = sd[k]
  OBVIOUS
<1> DEFINE p == Append(sd, h)
<1> HIDE DEF p
<1>2. Has(p, C) <=> h \in C \/ Has(sd, C)
  BY <1>1 DEF Has, p
<1>3. Once(sd, C) /\ (h \in C => ~Has(sd, C)) => Once(p, C)
  BY <1>1 DEF Has, Once, p
<1> QED
  BY <1>2, <1>3 DEF p

(* A handler that starts with another takes its place in the strand.        *)
LEMMA HasHead ==
  ASSUME NEW S, NEW sd \in Seq(S), sd # <<>>, NEW h \in S, NEW C
  PROVE  LET p == <<h>> \o Tail(sd)
         IN  /\ p \in Seq(S) /\ p # <<>> /\ Head(p) = h
             /\ Has(p, C) <=> h \in C \/ Has(Tail(sd), C)
             /\ Once(Tail(sd), C) /\ (h \in C => ~Has(Tail(sd), C)) => Once(p, C)
<1> DEFINE p == <<h>> \o Tail(sd)
           t == Tail(sd)
<1>1. t \in Seq(S) /\ Len(t) \in Nat /\ DOMAIN t = 1..Len(t)
  OBVIOUS
<1> HIDE DEF t
<1>2. p = <<h>> \o t
  BY DEF t
<1> HIDE DEF p
<1>3. /\ p \in Seq(S) /\ Len(p) = Len(t) + 1 /\ p[1] = h /\ DOMAIN p = 1..(Len(t) + 1)
      /\ \A k \in 1..Len(t) : p[k + 1] = t[k]
  BY <1>1, <1>2
<1>4. /\ 1 \in DOMAIN p
      /\ \A k \in DOMAIN t : k + 1 \in DOMAIN p /\ p[k + 1] = t[k]
      /\ \A k \in DOMAIN p : k # 1 => k - 1 \in DOMAIN t /\ p[k] = t[k - 1]
  <2>1. ASSUME NEW k \in DOMAIN p, k # 1 PROVE k - 1 \in DOMAIN t /\ p[k] = t[k - 1]
    <3>1. k - 1 \in 1..Len(t) /\ (k - 1) + 1 = k
      BY <1>1, <1>3, <2>1
    <3> QED
      BY <1>1, <1>3, <3>1
  <2> QED
    BY <1>1, <1>3, <2>1
<1>5. Has(p, C) <=> h \in C \/ Has(t, C)
  BY <1>3, <1>4 DEF Has
<1>6. ASSUME Once(t, C), h \in C => ~Has(t, C), NEW j \in DOMAIN p, NEW k \in DOMAIN p,
             p[j] \in C, p[k] \in C
      PROVE  j = k
  <2>1. CASE j = 1 \/ k = 1
    BY <1>3, <1>4, <1>6, <2>1 DEF Has
  <2>2. CASE j # 1 /\ k # 1
    <3>1. j - 1 = k - 1 /\ j \in Int /\ k \in Int
      BY <1>1, <1>3, <1>4, <1>6, <2>2 DEF Once
    <3> QED
      BY <3>1
  <2> QED
    BY <2>1, <2>2
<1>7. p # <<>> /\ Head(p) = h
  BY <1>1, <1>3
<1> QED
  BY <1>3, <1>5, <1>6, <1>7 DEF p, t, Once

-----------------------------------------------------------------------------
(* What handlers do to the values of a side.                                *)

(* What a strand holds, once its first handler is done.                     *)
LEMMA StrandTail ==
  ASSUME NEW sd \in Seq(Handlers), sd # <<>>, Once(sd, Ends), Once(sd, {"open"})
  PROVE  /\ Tail(sd) \in Seq(Handlers) /\ Once(Tail(sd), Ends) /\ Once(Tail(sd), {"open"})
         /\ \A C : Has(sd, C) <=> Head(sd) \in C \/ Has(Tail(sd), C)
         /\ Head(sd) \in Ends => ~Has(Tail(sd), Ends)
         /\ Head(sd) = "open" => ~Has(Tail(sd), {"open"})
<1>1. Tail(sd) \in Seq(Handlers)
  BY HeadTailProperties
<1> QED
  BY <1>1, HasTail

LEMMA EndsAre ==
  ASSUME NEW sd
  PROVE  /\ Has(sd, {"complete"}) => Has(sd, Ends)
         /\ Has(sd, {"sent"}) => Has(sd, Ends)
  BY DEF Has, Ends

(* What a queue holds, once its first operation is gone.                    *)
LEMMA QueueTail ==
  ASSUME NEW w \in Seq(Op), w # <<>>
  PROVE  /\ Tail(w) \in Seq(Op) /\ Len(Tail(w)) = Len(w) - 1 /\ Len(w) \in Nat /\ Head(w) \in Op
         /\ 1 \in DOMAIN w /\ Head(w) = w[1]
         /\ \A k \in DOMAIN Tail(w) :
              k \in Nat \ {0} /\ k + 1 \in DOMAIN w /\ k + 1 # 1 /\ Tail(w)[k] = w[k + 1]
  OBVIOUS

(* A handler that has not the right, nor brings it, is done.                *)
LEMMA PlainDone ==
  ASSUME NEW cn, NEW st, NEW av, NEW w, NEW qe, NEW sd, NEW i, NEW an, NEW lt, NEW mv,
         SideOK(cn, st, av, w, qe, sd, i, an, lt, mv),
         sd # <<>>, Head(sd) \notin Ends \cup {"open"}
  PROVE  SideOK(cn, st, av, w, qe, Tail(sd), i, an, lt, mv)
<1> DEFINE t == Tail(sd)
<1>1. sd \in Seq(Handlers) /\ Once(sd, Ends) /\ Once(sd, {"open"})
  BY DEF SideOK, Typed, Right
<1>2. /\ t \in Seq(Handlers) /\ Once(t, Ends) /\ Once(t, {"open"})
      /\ \A C : Has(sd, C) <=> Head(sd) \in C \/ Has(t, C)
      /\ Head(sd) \in Ends => ~Has(t, Ends)
      /\ Head(sd) = "open" => ~Has(t, {"open"})
  BY <1>1, StrandTail
<1> HIDE DEF t
<1>3. /\ Has(t, Ends) => Has(sd, Ends)
      /\ Has(t, {"open"}) => Has(sd, {"open"})
      /\ Has(t, {"drain"}) => Has(sd, {"drain"})
      /\ Has(t, {"sent"}) => Has(sd, {"sent"})
      /\ Has(t, {"complete"}) => Has(sd, {"complete"})
  BY <1>2
<1>4. (Has(t, Ends) <=> Has(sd, Ends)) /\ (Has(t, {"open"}) <=> Has(sd, {"open"}))
  BY <1>2
<1>5. (Has(t, {"sent"}) <=> Has(sd, {"sent"})) /\ (Has(t, {"complete"}) <=> Has(sd, {"complete"}))
  BY <1>2 DEF Ends
<1>6. SideOK(cn, st, av, w, qe, t, i, an, lt, mv)
  BY <1>2, <1>3, <1>4, <1>5 DEF SideOK, Typed, Right, ForTheFirst, Carried, FirstAnswered, Unheld
<1> QED
  BY <1>6 DEF t

(* An operation that ended well leaves the queue, and the right to start    *)
(* one is free.                                                             *)
LEMMA CompleteDone ==
  ASSUME NEW cn, NEW st, NEW av, NEW w, NEW qe, NEW sd, NEW i, NEW an, NEW lt, NEW mv,
         SideOK(cn, st, av, w, qe, sd, i, an, lt, mv),
         sd # <<>>, Head(sd) = "complete"
  PROVE  w # <<>> /\ SideOK(cn, st, TRUE, Tail(w), qe, Tail(sd), i, an, lt, mv)
<1> DEFINE t == Tail(sd)
<1>1. sd \in Seq(Handlers) /\ Once(sd, Ends) /\ Once(sd, {"open"})
  BY DEF SideOK, Typed, Right
<1>2. /\ t \in Seq(Handlers) /\ Once(t, Ends) /\ Once(t, {"open"})
      /\ \A C : Has(sd, C) <=> Head(sd) \in C \/ Has(t, C)
      /\ Head(sd) \in Ends => ~Has(t, Ends)
      /\ Head(sd) = "open" => ~Has(t, {"open"})
  BY <1>1, StrandTail
<1> HIDE DEF t
<1>3. Has(sd, {"complete"}) /\ Has(sd, Ends) /\ ~Has(t, Ends)
  BY <1>2 DEF Ends
<1>4. ~Has(t, {"complete"}) /\ ~Has(t, {"sent"})
  BY <1>3, EndsAre
<1>5. /\ w # <<>> /\ w \in Seq(Op) /\ cn = "open" /\ ~Has(sd, {"open"}) /\ ~Has(sd, {"drain"})
      /\ i.phase = "idle"
  BY <1>3 DEF SideOK, Typed, Right, ForTheFirst, Unheld
<1>6. ~Has(t, {"open"}) /\ ~Has(t, {"drain"})
  BY <1>2, <1>5
<1> DEFINE v == Tail(w)
<1>7. /\ v \in Seq(Op) /\ Len(v) = Len(w) - 1 /\ Len(w) \in Nat
      /\ \A k \in DOMAIN v :
           k \in Nat \ {0} /\ k + 1 \in DOMAIN w /\ k + 1 # 1 /\ v[k] = w[k + 1]
  BY <1>5, QueueTail
<1>8. Len(an) \in Nat /\ Len(mv) \in Nat
  BY DEF SideOK, Typed
<1> HIDE DEF v
<1>9. Typed(st, TRUE, v, qe, t, i, an, lt, mv) /\ Right(cn, st, TRUE, v, t, i)
  BY <1>2, <1>3, <1>5, <1>6, <1>7 DEF SideOK, Typed, Right, Unheld
<1>10. Numbered(v, an) /\ OnlyLate(v, qe, lt)
  <2>1. ASSUME NEW k \in DOMAIN v PROVE v[k][1] = Len(an) - Len(v) + k /\ (qe => v[k] \in lt)
    <3>1. /\ k \in Nat /\ k + 1 \in DOMAIN w /\ v[k] = w[k + 1]
          /\ w[k + 1][1] = Len(an) - Len(w) + (k + 1) /\ (qe => w[k + 1] \in lt)
      BY <1>7 DEF SideOK, Numbered, OnlyLate
    <3> QED
      BY <1>7, <1>8, <3>1
  <2> QED
    BY <1>7, <1>8, <2>1 DEF SideOK, Numbered, OnlyLate
<1>11. Carried(cn, TRUE, v, t, i, an, mv) /\ ForTheFirst(v, t, i)
  BY <1>3, <1>4, <1>5, <1>6, <1>7, <1>8 DEF SideOK, Carried, ForTheFirst
<1>12. FirstAnswered(cn, TRUE, v, t, i, an)
  BY <1>7 DEF SideOK, FirstAnswered
<1> QED
  BY <1>5, <1>9, <1>10, <1>11, <1>12 DEF SideOK, t, v

(* The connection string was sent, and the right to start an operation is   *)
(* free.                                                                    *)
LEMMA SentDone ==
  ASSUME NEW cn, NEW st, NEW av, NEW w, NEW qe, NEW sd, NEW i, NEW an, NEW lt, NEW mv,
         SideOK(cn, st, av, w, qe, sd, i, an, lt, mv),
         sd # <<>>, Head(sd) = "sent"
  PROVE  SideOK(cn, st, TRUE, w, qe, Tail(sd), i, an, lt, mv)
<1> DEFINE t == Tail(sd)
<1>1. sd \in Seq(Handlers) /\ Once(sd, Ends) /\ Once(sd, {"open"})
  BY DEF SideOK, Typed, Right
<1>2. /\ t \in Seq(Handlers) /\ Once(t, Ends) /\ Once(t, {"open"})
      /\ \A C : Has(sd, C) <=> Head(sd) \in C \/ Has(t, C)
      /\ Head(sd) \in Ends => ~Has(t, Ends)
      /\ Head(sd) = "open" => ~Has(t, {"open"})
  BY <1>1, StrandTail
<1> HIDE DEF t
<1>3. Has(sd, {"sent"}) /\ Has(sd, Ends) /\ ~Has(t, Ends)
  BY <1>2 DEF Ends
<1>4. ~Has(t, {"complete"}) /\ ~Has(t, {"sent"})
  BY <1>3, EndsAre
<1>5. cn = "open" /\ ~Has(sd, {"open"}) /\ ~Has(sd, {"drain"}) /\ i.phase = "idle"
  BY <1>3 DEF SideOK, Typed, Right, ForTheFirst, Unheld
<1>6. ~Has(t, {"open"}) /\ ~Has(t, {"drain"})
  BY <1>2, <1>5
<1>7. SideOK(cn, st, TRUE, w, qe, t, i, an, lt, mv)
  BY <1>2, <1>3, <1>4, <1>5, <1>6 DEF SideOK, Typed, Right, ForTheFirst, Carried, FirstAnswered, Unheld
<1> QED
  BY <1>7 DEF t

(* The side is open, and the right to start an operation is free.           *)
LEMMA OpenDone ==
  ASSUME NEW cn, NEW st, NEW av, NEW w, NEW qe, NEW sd, NEW i, NEW an, NEW lt, NEW mv,
         SideOK(cn, st, av, w, qe, sd, i, an, lt, mv),
         sd # <<>>, Head(sd) = "open"
  PROVE  /\ cn = "open" /\ ~Has(Tail(sd), {"open"}) /\ ~av
         /\ SideOK(cn, st, TRUE, w, qe, Tail(sd), i, an, lt, mv)
<1> DEFINE t == Tail(sd)
<1>1. sd \in Seq(Handlers) /\ Once(sd, Ends) /\ Once(sd, {"open"})
  BY DEF SideOK, Typed, Right
<1>2. /\ t \in Seq(Handlers) /\ Once(t, Ends) /\ Once(t, {"open"})
      /\ \A C : Has(sd, C) <=> Head(sd) \in C \/ Has(t, C)
      /\ Head(sd) \in Ends => ~Has(t, Ends)
      /\ Head(sd) = "open" => ~Has(t, {"open"})
  BY <1>1, StrandTail
<1> HIDE DEF t
<1>3. Has(sd, {"open"}) /\ ~Has(t, {"open"})
  BY <1>2
<1>4. /\ cn = "open" /\ ~Has(sd, {"drain"}) /\ ~Has(sd, Ends) /\ i.phase = "idle" /\ ~av
      /\ mv = <<>> /\ Len(w) = Len(an)
  BY <1>3 DEF SideOK, Typed, Right, Carried, Unheld
<1>5. ~Has(t, {"drain"}) /\ ~Has(t, Ends)
  BY <1>2, <1>4
<1>6. ~Has(t, {"complete"}) /\ ~Has(t, {"sent"})
  BY <1>5, EndsAre
<1>7. Len(mv) + Len(w) = Len(an)
  BY <1>4 DEF SideOK, Typed
<1>8. SideOK(cn, st, TRUE, w, qe, t, i, an, lt, mv)
  BY <1>2, <1>3, <1>4, <1>5, <1>6, <1>7
  DEF SideOK, Typed, Right, ForTheFirst, Carried, FirstAnswered, Unheld
<1> QED
  BY <1>3, <1>4, <1>8 DEF t

(* The side is open and the connection string is under way.                 *)
LEMMA OpenSends ==
  ASSUME NEW cn, NEW st, NEW av, NEW w, NEW qe, NEW sd, NEW i, NEW an, NEW lt, NEW mv,
         SideOK(cn, st, av, w, qe, sd, i, an, lt, mv),
         sd # <<>>, Head(sd) = "open"
  PROVE  SideOK(cn, st, av, w, qe, Tail(sd), [op |-> ConnString, phase |-> "data"], an, lt, mv)
<1> DEFINE t == Tail(sd)
<1>1. sd \in Seq(Handlers) /\ Once(sd, Ends) /\ Once(sd, {"open"})
  BY DEF SideOK, Typed, Right
<1>2. /\ t \in Seq(Handlers) /\ Once(t, Ends) /\ Once(t, {"open"})
      /\ \A C : Has(sd, C) <=> Head(sd) \in C \/ Has(t, C)
      /\ Head(sd) \in Ends => ~Has(t, Ends)
      /\ Head(sd) = "open" => ~Has(t, {"open"})
  BY <1>1, StrandTail
<1> HIDE DEF t
<1>3. Has(sd, {"open"}) /\ ~Has(t, {"open"})
  BY <1>2
<1>4. /\ cn = "open" /\ ~Has(sd, {"drain"}) /\ ~Has(sd, Ends) /\ i.phase = "idle" /\ ~av
      /\ mv = <<>> /\ Len(w) = Len(an)
  BY <1>3 DEF SideOK, Typed, Right, Carried, Unheld
<1>5. ~Has(t, {"drain"}) /\ ~Has(t, Ends)
  BY <1>2, <1>4
<1>6. ~Has(t, {"complete"}) /\ ~Has(t, {"sent"})
  BY <1>5, EndsAre
<1>7. Len(mv) + Len(w) = Len(an)
  BY <1>4 DEF SideOK, Typed
<1> DEFINE j == [op |-> ConnString, phase |-> "data"]
<1>8. j \in [op : Op \cup {Nil}, phase : Phases] /\ j.phase = "data" /\ j.op = ConnString
  BY DEF ConnString, Op, Phases
<1> HIDE DEF j
<1>9. SideOK(cn, st, av, w, qe, t, j, an, lt, mv)
  BY <1>2, <1>3, <1>4, <1>5, <1>6, <1>7, <1>8
  DEF SideOK, Typed, Right, ForTheFirst, Carried, FirstAnswered, Unheld
<1> QED
  BY <1>9 DEF t, j

(* A failure stops the side and goes on to cancel what is queued; the right *)
(* to start an operation is gone.                                           *)
LEMMA FatalDone ==
  ASSUME NEW cn, NEW st, NEW av, NEW w, NEW qe, NEW sd, NEW i, NEW an, NEW lt, NEW mv,
         SideOK(cn, st, av, w, qe, sd, i, an, lt, mv),
         sd # <<>>, Head(sd) = "fatal"
  PROVE  LET p == <<"drain">> \o Tail(sd)
         IN  p # <<>> /\ Head(p) = "drain" /\ Has(p, {"close"}) = Has(sd, {"close"})
             /\ Has(p, {"open"}) = Has(sd, {"open"})
             /\ SideOK(cn, "Stopped", av, w, qe, p, i, an, lt, mv)
<1> DEFINE t == Tail(sd)
<1>1. sd \in Seq(Handlers) /\ Once(sd, Ends) /\ Once(sd, {"open"})
  BY DEF SideOK, Typed, Right
<1>2. /\ t \in Seq(Handlers) /\ Once(t, Ends) /\ Once(t, {"open"})
      /\ \A C : Has(sd, C) <=> Head(sd) \in C \/ Has(t, C)
      /\ Head(sd) \in Ends => ~Has(t, Ends)
      /\ Head(sd) = "open" => ~Has(t, {"open"})
  BY <1>1, StrandTail
<1> HIDE DEF t
<1>3. Has(sd, Ends) /\ ~Has(t, Ends)
  BY <1>2 DEF Ends
<1>4. cn = "open" /\ ~Has(sd, {"open"}) /\ ~Has(sd, {"drain"}) /\ i.phase = "idle" /\ ~av
  BY <1>3 DEF SideOK, Typed, Right, ForTheFirst, Unheld
<1>5. ~Has(t, {"open"}) /\ ~Has(t, {"drain"}) /\ ~Has(t, {"complete"}) /\ ~Has(t, {"sent"})
  BY <1>2, <1>3, <1>4, EndsAre
<1> DEFINE p == <<"drain">> \o Tail(sd)
<1>6. "drain" \in Handlers /\ "drain" \notin Ends
  BY DEF Handlers, Ends
<1>7. /\ p \in Seq(Handlers) /\ p # <<>> /\ Head(p) = "drain"
      /\ \A C : Has(p, C) <=> "drain" \in C \/ Has(t, C)
      /\ \A C : Once(t, C) /\ ("drain" \in C => ~Has(t, C)) => Once(p, C)
  BY <1>1, <1>6, HasHead DEF t
<1> HIDE DEF p
<1>8. /\ Once(p, Ends) /\ Once(p, {"open"}) /\ Has(p, {"drain"})
      /\ ~Has(p, Ends) /\ ~Has(p, {"open"}) /\ ~Has(p, {"complete"}) /\ ~Has(p, {"sent"})
  BY <1>2, <1>3, <1>5, <1>6, <1>7
<1>9. ~Has(sd, {"complete"})
  BY <1>2, <1>5
<1>10. SideOK(cn, "Stopped", av, w, qe, p, i, an, lt, mv)
  BY <1>4, <1>7, <1>8, <1>9 DEF SideOK, Typed, Right, ForTheFirst, Carried, FirstAnswered, Unheld
<1>11. (Has(p, {"close"}) <=> Has(sd, {"close"})) /\ (Has(p, {"open"}) <=> Has(sd, {"open"}))
  BY <1>2, <1>7
<1>12. Has(p, {"close"}) = Has(sd, {"close"}) /\ Has(p, {"open"}) = Has(sd, {"open"})
  BY <1>11 DEF Has
<1> QED
  BY <1>7, <1>10, <1>12 DEF p

(* What a strand holds with one more handler.                               *)
LEMMA StrandAppend ==
  ASSUME NEW sd \in Seq(Handlers), NEW h \in Handlers
  PROVE  /\ Append(sd, h) \in Seq(Handlers) /\ Append(sd, h) # <<>>
         /\ \A C : Has(Append(sd, h), C) <=> h \in C \/ Has(sd, C)
         /\ \A C : Once(sd, C) /\ (h \in C => ~Has(sd, C)) => Once(Append(sd, h), C)
         /\ sd # <<>> => Head(Append(sd, h)) = Head(sd)
<1>1. Append(sd, h) \in Seq(Handlers) /\ Append(sd, h) # <<>>
  BY AppendProperties
<1>2. sd # <<>> => Head(Append(sd, h)) = Head(sd)
  BY HeadTailAppend
<1> QED
  BY <1>1, <1>2, HasAppend

(* A handler that has not the right, nor brings it, is posted.              *)
LEMMA PlainPosted ==
  ASSUME NEW cn, NEW st, NEW av, NEW w, NEW qe, NEW sd, NEW i, NEW an, NEW lt, NEW mv,
         SideOK(cn, st, av, w, qe, sd, i, an, lt, mv),
         NEW h \in {"kick", "close", "cancel"}
  PROVE  SideOK(cn, st, av, w, qe, Append(sd, h), i, an, lt, mv)
<1> DEFINE t == Append(sd, h)
<1>1. sd \in Seq(Handlers) /\ Once(sd, Ends) /\ Once(sd, {"open"}) /\ h \in Handlers
  BY DEF SideOK, Typed, Right, Handlers
<1>2. /\ t \in Seq(Handlers)
      /\ \A C : Has(t, C) <=> h \in C \/ Has(sd, C)
      /\ \A C : Once(sd, C) /\ (h \in C => ~Has(sd, C)) => Once(t, C)
  BY <1>1, StrandAppend
<1> HIDE DEF t
<1>3. /\ Has(t, Ends) <=> Has(sd, Ends)
      /\ Has(t, {"open"}) <=> Has(sd, {"open"})
      /\ Has(t, {"drain"}) <=> Has(sd, {"drain"})
      /\ Has(t, {"sent"}) <=> Has(sd, {"sent"})
      /\ Has(t, {"complete"}) <=> Has(sd, {"complete"})
  BY <1>2 DEF Ends
<1>4. Once(t, Ends) /\ Once(t, {"open"})
  BY <1>1, <1>2 DEF Ends
<1>5. SideOK(cn, st, av, w, qe, t, i, an, lt, mv)
  BY <1>2, <1>3, <1>4 DEF SideOK, Typed, Right, ForTheFirst, Carried, FirstAnswered, OnlyLate, Unheld
<1> QED
  BY <1>5 DEF t

(* A channel that never opened cancels what is queued.                      *)
LEMMA DrainPosted ==
  ASSUME NEW cn, NEW st, NEW av, NEW w, NEW qe, NEW sd, NEW i, NEW an, NEW lt, NEW mv,
         SideOK(cn, st, av, w, qe, sd, i, an, lt, mv),
         cn = "failed", st = "Stopped"
  PROVE  SideOK(cn, st, av, w, qe, Append(sd, "drain"), i, an, lt, mv)
<1> DEFINE t == Append(sd, "drain")
<1>1. sd \in Seq(Handlers) /\ Once(sd, Ends) /\ Once(sd, {"open"}) /\ "drain" \in Handlers
  BY DEF SideOK, Typed, Right, Handlers
<1>2. /\ t \in Seq(Handlers)
      /\ \A C : Has(t, C) <=> "drain" \in C \/ Has(sd, C)
      /\ \A C : Once(sd, C) /\ ("drain" \in C => ~Has(sd, C)) => Once(t, C)
  BY <1>1, StrandAppend
<1> HIDE DEF t
<1>3. /\ Has(t, Ends) <=> Has(sd, Ends)
      /\ Has(t, {"open"}) <=> Has(sd, {"open"})
      /\ Has(t, {"sent"}) <=> Has(sd, {"sent"})
      /\ Has(t, {"complete"}) <=> Has(sd, {"complete"})
  BY <1>2 DEF Ends
<1>4. Once(t, Ends) /\ Once(t, {"open"})
  BY <1>1, <1>2 DEF Ends
<1>5. SideOK(cn, st, av, w, qe, t, i, an, lt, mv)
  BY <1>2, <1>3, <1>4 DEF SideOK, Typed, Right, ForTheFirst, Carried, FirstAnswered, OnlyLate, Unheld
<1> QED
  BY <1>5 DEF t

(* The connection is made, and the side is to be opened.                    *)
LEMMA OpenPosted ==
  ASSUME NEW cn, NEW st, NEW av, NEW w, NEW qe, NEW sd, NEW i, NEW an, NEW lt, NEW mv,
         SideOK(cn, st, av, w, qe, sd, i, an, lt, mv),
         cn \notin {"open", "failed"}
  PROVE  SideOK("open", st, av, w, qe, Append(sd, "open"), i, an, lt, mv)
<1> DEFINE t == Append(sd, "open")
<1>1. sd \in Seq(Handlers) /\ Once(sd, Ends) /\ Once(sd, {"open"}) /\ "open" \in Handlers
  BY DEF SideOK, Typed, Right, Handlers
<1>2. /\ t \in Seq(Handlers)
      /\ \A C : Has(t, C) <=> "open" \in C \/ Has(sd, C)
      /\ \A C : Once(sd, C) /\ ("open" \in C => ~Has(sd, C)) => Once(t, C)
  BY <1>1, StrandAppend
<1> HIDE DEF t
<1>3. ~av /\ i.phase = "idle" /\ ~Has(sd, Ends) /\ ~Has(sd, {"open"}) /\ ~Has(sd, {"drain"})
  BY DEF SideOK, Right, Unheld
<1>4. /\ ~Has(t, Ends) /\ Has(t, {"open"}) /\ ~Has(t, {"drain"})
      /\ (Has(t, {"sent"}) <=> Has(sd, {"sent"})) /\ (Has(t, {"complete"}) <=> Has(sd, {"complete"}))
  BY <1>2, <1>3 DEF Ends
<1>5. Once(t, Ends) /\ Once(t, {"open"})
  BY <1>1, <1>2, <1>3 DEF Ends
<1>6. SideOK("open", st, av, w, qe, t, i, an, lt, mv)
  BY <1>2, <1>3, <1>4, <1>5 DEF SideOK, Typed, Right, ForTheFirst, Carried, FirstAnswered, OnlyLate, Unheld
<1> QED
  BY <1>6 DEF t

(* An attempt to connect ends, or another one begins.                       *)
LEMMA StillClosed ==
  ASSUME NEW cn, NEW st, NEW av, NEW w, NEW qe, NEW sd, NEW i, NEW an, NEW lt, NEW mv,
         SideOK(cn, st, av, w, qe, sd, i, an, lt, mv),
         cn \notin {"open", "failed"}, NEW c, c # "open"
  PROVE  SideOK(c, st, av, w, qe, sd, i, an, lt, mv)
  BY DEF SideOK, Typed, Right, ForTheFirst, Carried, FirstAnswered, OnlyLate, Unheld

(* The side is stopped.                                                     *)
LEMMA StopSide ==
  ASSUME NEW cn, NEW st, NEW av, NEW w, NEW qe, NEW sd, NEW i, NEW an, NEW lt, NEW mv,
         SideOK(cn, st, av, w, qe, sd, i, an, lt, mv)
  PROVE  SideOK(cn, "Stopped", av, w, qe, sd, i, an, lt, mv)
  BY DEF SideOK, Typed, Right, ForTheFirst, Carried, FirstAnswered, OnlyLate, Unheld

(* A side with nothing queued is given up.                                  *)
LEMMA GiveUpSide ==
  ASSUME NEW cn, NEW st, NEW av, NEW w, NEW qe, NEW sd, NEW i, NEW an, NEW lt, NEW mv,
         SideOK(cn, st, av, w, qe, sd, i, an, lt, mv),
         w = <<>>
  PROVE  SideOK(cn, st, av, w, TRUE, sd, i, an, lt, mv)
  BY DEF SideOK, Typed, Right, ForTheFirst, Carried, FirstAnswered, OnlyLate, Unheld

(* The right to start an operation is lost when the process ends.           *)
LEMMA LoseRight ==
  ASSUME NEW cn, NEW st, NEW av, NEW w, NEW qe, NEW sd, NEW i, NEW an, NEW lt, NEW mv,
         SideOK(cn, st, av, w, qe, sd, i, an, lt, mv),
         av
  PROVE  SideOK(cn, st, FALSE, w, qe, sd, i, an, lt, mv)
  BY DEF SideOK, Typed, Right, ForTheFirst, Carried, FirstAnswered, OnlyLate, Unheld

(* The socket is free and works on the first operation from now on.         *)
LEMMA StartFirst ==
  ASSUME NEW cn, NEW st, NEW av, NEW w, NEW qe, NEW sd, NEW i, NEW an, NEW lt, NEW mv,
         SideOK(cn, st, av, w, qe, sd, i, an, lt, mv),
         av, w # <<>>, NEW p \in {"header", "data"}
  PROVE  SideOK(cn, st, FALSE, w, qe, sd, [op |-> Head(w), phase |-> p], an, lt, mv)
<1> DEFINE j == [op |-> Head(w), phase |-> p]
<1>1. Head(w) \in Op
  BY QueueTail DEF SideOK, Typed
<1>2. /\ j \in [op : Op \cup {Nil}, phase : Phases] /\ j.phase \notin {"idle", "parked"}
      /\ j.op = Head(w)
  BY <1>1 DEF Phases
<1> HIDE DEF j
<1>3. SideOK(cn, st, FALSE, w, qe, sd, j, an, lt, mv)
  BY <1>2 DEF SideOK, Typed, Right, ForTheFirst, Carried, FirstAnswered, OnlyLate, Unheld
<1> QED
  BY <1>3 DEF j

(* The header of a receive is in and its buffer fits.                       *)
LEMMA HeaderRead ==
  ASSUME NEW cn, NEW st, NEW av, NEW w, NEW qe, NEW sd, NEW i, NEW an, NEW lt, NEW mv,
         SideOK(cn, st, av, w, qe, sd, i, an, lt, mv),
         i.phase = "header"
  PROVE  SideOK(cn, st, av, w, qe, sd, [i EXCEPT !.phase = "body"], an, lt, mv)
<1> DEFINE j == [i EXCEPT !.phase = "body"]
<1>1. j \in [op : Op \cup {Nil}, phase : Phases] /\ j.phase = "body" /\ j.op = i.op
  BY DEF SideOK, Typed, Phases
<1> HIDE DEF j
<1>2. SideOK(cn, st, av, w, qe, sd, j, an, lt, mv)
  BY <1>1 DEF SideOK, Typed, Right, ForTheFirst, Carried, FirstAnswered, OnlyLate, Unheld
<1> QED
  BY <1>2 DEF j

(* The operation under way is the first of the queue, or the connection     *)
(* string, which no queue holds.                                            *)
LEMMA UnderWayIsFirst ==
  ASSUME NEW cn, NEW st, NEW av, NEW w, NEW qe, NEW sd, NEW i, NEW an, NEW lt, NEW mv,
         SideOK(cn, st, av, w, qe, sd, i, an, lt, mv), i.phase # "idle"
  PROVE  /\ cn = "open" /\ ~av /\ ~Has(sd, Ends) /\ ~Has(sd, {"open"}) /\ ~Has(sd, {"drain"})
         /\ Len(mv) + Len(w) = Len(an)
         /\ w # <<>> => Head(w)[1] \in DOMAIN an /\ Head(w) # ConnString /\ Head(w)[1] = Len(mv) + 1
         /\ i.op # ConnString \/ i.phase # "data" => w # <<>> /\ i.op = Head(w) /\ i.op # ConnString
<1>1. /\ cn = "open" /\ ~av /\ ~Has(sd, Ends) /\ ~Has(sd, {"open"}) /\ ~Has(sd, {"drain"})
      /\ Len(mv) + Len(w) = Len(an)
  BY DEF SideOK, Right, Unheld, Carried
<1>2. w \in Seq(Op) /\ Len(an) \in Nat /\ Len(mv) \in Nat /\ DOMAIN an = 1..Len(an)
  BY DEF SideOK, Typed
<1>3. ASSUME w # <<>>
      PROVE  Head(w)[1] \in DOMAIN an /\ Head(w) # ConnString /\ Head(w)[1] = Len(mv) + 1
  <2>1. Len(w) \in Nat /\ Len(w) >= 1 /\ 1 \in DOMAIN w /\ Head(w) = w[1]
    BY <1>2, <1>3
  <2>2. Head(w)[1] = Len(an) - Len(w) + 1
    BY <2>1 DEF SideOK, Numbered
  <2>3. Head(w)[1] # 0 /\ Head(w)[1] \in 1..Len(an) /\ Head(w)[1] = Len(mv) + 1
    BY <1>1, <1>2, <2>1, <2>2
  <2>4. ConnString[1] = 0
    BY DEF ConnString
  <2> QED
    BY <1>2, <2>3, <2>4
<1> QED
  BY <1>1, <1>3 DEF SideOK, ForTheFirst

(* Answers after that of the operation under way.                           *)
AnswersOnly(an, b, x, how) ==
  /\ b \in Seq(Answers) /\ Len(b) = Len(an)
  /\ \A k \in DOMAIN an : b[k] = an[k] \/ (k = x /\ b[k] = how)

(* The connection string is through, and a handler brings the right back.   *)
LEMMA StringSent ==
  ASSUME NEW cn, NEW st, NEW av, NEW w, NEW qe, NEW sd, NEW i, NEW an, NEW lt, NEW mv,
         SideOK(cn, st, av, w, qe, sd, i, an, lt, mv),
         i.phase = "data", i.op = ConnString
  PROVE  SideOK(cn, st, av, w, qe, Append(sd, "sent"), NoIo, an, lt, mv)
<1> DEFINE t == Append(sd, "sent")
<1>1. sd \in Seq(Handlers) /\ Once(sd, Ends) /\ Once(sd, {"open"}) /\ "sent" \in Handlers
  BY DEF SideOK, Typed, Right, Handlers
<1>2. /\ t \in Seq(Handlers)
      /\ \A C : Has(t, C) <=> "sent" \in C \/ Has(sd, C)
      /\ \A C : Once(sd, C) /\ ("sent" \in C => ~Has(sd, C)) => Once(t, C)
  BY <1>1, StrandAppend
<1> HIDE DEF t
<1>3. /\ cn = "open" /\ ~av /\ ~Has(sd, Ends) /\ ~Has(sd, {"open"}) /\ ~Has(sd, {"drain"})
      /\ Len(mv) + Len(w) = Len(an)
  BY UnderWayIsFirst
<1>4. /\ ~Has(t, {"open"}) /\ ~Has(t, {"drain"}) /\ (Has(t, {"complete"}) <=> Has(sd, {"complete"}))
      /\ Once(t, Ends) /\ Once(t, {"open"})
  BY <1>1, <1>2, <1>3
<1>5. NoIo \in [op : Op \cup {Nil}, phase : Phases] /\ NoIo.phase = "idle"
  BY DEF NoIo, Nil, Phases
<1>6. ASSUME NEW k \in DOMAIN w, w[k][2] = "promise" PROVE an[w[k][1]] = "none"
  BY <1>6 DEF SideOK, FirstAnswered
<1>7. ~Has(sd, {"complete"})
  BY <1>3, EndsAre
<1>8. Right(cn, st, av, w, t, NoIo) /\ Typed(st, av, w, qe, t, NoIo, an, lt, mv)
  BY <1>2, <1>3, <1>4, <1>5 DEF SideOK, Right, Typed, Unheld
<1>9. Carried(cn, av, w, t, NoIo, an, mv) /\ ForTheFirst(w, t, NoIo)
  BY <1>3, <1>4, <1>5, <1>7 DEF SideOK, Carried, ForTheFirst
<1>10. FirstAnswered(cn, av, w, t, NoIo, an)
  BY <1>6 DEF FirstAnswered
<1> QED
  BY <1>8, <1>9, <1>10 DEF SideOK, t

(* An operation is through; a handler takes it from the queue and brings    *)
(* the right back.                                                          *)
LEMMA OperationMoved ==
  ASSUME NEW cn, NEW st, NEW av, NEW w, NEW qe, NEW sd, NEW i, NEW an, NEW lt, NEW mv,
         SideOK(cn, st, av, w, qe, sd, i, an, lt, mv),
         i.phase \in {"data", "body", "parked"}, i.op # ConnString,
         NEW b, AnswersOnly(an, b, i.op[1], "value")
  PROVE  SideOK(cn, st, av, w, qe, Append(sd, "complete"), NoIo, b, lt, Append(mv, i.op))
<1> DEFINE t == Append(sd, "complete")
<1>1. sd \in Seq(Handlers) /\ Once(sd, Ends) /\ Once(sd, {"open"}) /\ "complete" \in Handlers
  BY DEF SideOK, Typed, Right, Handlers
<1>2. /\ t \in Seq(Handlers)
      /\ \A C : Has(t, C) <=> "complete" \in C \/ Has(sd, C)
      /\ \A C : Once(sd, C) /\ ("complete" \in C => ~Has(sd, C)) => Once(t, C)
  BY <1>1, StrandAppend
<1> HIDE DEF t
<1>3. /\ cn = "open" /\ ~av /\ ~Has(sd, Ends) /\ ~Has(sd, {"open"}) /\ ~Has(sd, {"drain"})
      /\ Len(mv) + Len(w) = Len(an)
  BY UnderWayIsFirst
<1>4. /\ w \in Seq(Op) /\ mv \in Seq(Op) /\ Len(an) \in Nat /\ Len(mv) \in Nat /\ Len(w) \in Nat
      /\ b \in Seq(Answers) /\ Len(b) = Len(an) /\ DOMAIN an = 1..Len(an) /\ DOMAIN w = 1..Len(w)
      /\ i \in [op : Op \cup {Nil}, phase : Phases]
  BY DEF SideOK, Typed, AnswersOnly
<1>5. \A k \in DOMAIN w : w[k][1] = Len(an) - Len(w) + k /\ w[k][1] \in DOMAIN an
  BY <1>4 DEF SideOK, Numbered
<1>6. w # <<>> /\ i.op = Head(w) /\ i.op = w[1] /\ i.op \in Op /\ i.op[1] = Len(mv) + 1
  BY <1>4, UnderWayIsFirst, QueueTail
<1>7. /\ ~Has(t, {"open"}) /\ ~Has(t, {"drain"}) /\ Has(t, {"complete"})
      /\ Once(t, Ends) /\ Once(t, {"open"}) /\ ~Has(t, {"sent"})
  BY <1>1, <1>2, <1>3, EndsAre
<1>8. NoIo \in [op : Op \cup {Nil}, phase : Phases] /\ NoIo.phase = "idle"
  BY DEF NoIo, Nil, Phases
<1> DEFINE m == Append(mv, i.op)
<1>9. /\ m \in Seq(Op) /\ Len(m) = Len(mv) + 1 /\ DOMAIN m = 1..(Len(mv) + 1)
      /\ \A k \in 1..Len(mv) : m[k] = mv[k] /\ k \in DOMAIN mv
      /\ m[Len(mv) + 1] = i.op
  BY <1>4, <1>6
<1> HIDE DEF m
<1>10. \A k \in DOMAIN m : m[k][1] = k
  BY <1>4, <1>6, <1>9 DEF SideOK, Carried
<1>11. ASSUME NEW k \in DOMAIN w, w[k][2] = "promise", b[w[k][1]] # "none" PROVE k = 1
  <2>1. CASE b[w[k][1]] = an[w[k][1]]
    BY <1>11, <2>1 DEF SideOK, FirstAnswered
  <2>2. CASE w[k][1] = i.op[1]
    BY <1>4, <1>5, <1>6, <2>2, SMTT(20)
  <2> QED
    BY <1>5, <2>1, <2>2 DEF AnswersOnly
<1>12. Right(cn, st, av, w, t, NoIo) /\ Typed(st, av, w, qe, t, NoIo, b, lt, m)
  BY <1>2, <1>3, <1>4, <1>7, <1>8, <1>9 DEF SideOK, Right, Typed, Unheld
<1>13. Carried(cn, av, w, t, NoIo, b, m) /\ ForTheFirst(w, t, NoIo)
  <2>1. Len(m) + Len(w) = Len(b) + 1
    BY <1>3, <1>4, <1>9
  <2> QED
    BY <1>3, <1>6, <1>7, <1>8, <1>10, <2>1 DEF Carried, ForTheFirst
<1>14. FirstAnswered(cn, av, w, t, NoIo, b)
  BY <1>3, <1>7, <1>8, <1>11 DEF FirstAnswered
<1>15. Numbered(w, b)
  BY <1>4 DEF SideOK, Numbered
<1> QED
  BY <1>12, <1>13, <1>14, <1>15 DEF SideOK, t, m

(* The operation under way fails, and a handler goes on to deal with it.    *)
LEMMA OperationFailed ==
  ASSUME NEW cn, NEW st, NEW av, NEW w, NEW qe, NEW sd, NEW i, NEW an, NEW lt, NEW mv,
         SideOK(cn, st, av, w, qe, sd, i, an, lt, mv),
         i.phase # "idle",
         NEW b, AnswersOnly(an, b, i.op[1], "exception"), i.op = ConnString => b = an
  PROVE  SideOK(cn, st, av, w, qe, Append(sd, "fatal"), NoIo, b, lt, mv)
<1> DEFINE t == Append(sd, "fatal")
<1>1. sd \in Seq(Handlers) /\ Once(sd, Ends) /\ Once(sd, {"open"}) /\ "fatal" \in Handlers
  BY DEF SideOK, Typed, Right, Handlers
<1>2. /\ t \in Seq(Handlers)
      /\ \A C : Has(t, C) <=> "fatal" \in C \/ Has(sd, C)
      /\ \A C : Once(sd, C) /\ ("fatal" \in C => ~Has(sd, C)) => Once(t, C)
  BY <1>1, StrandAppend
<1> HIDE DEF t
<1>3. /\ cn = "open" /\ ~av /\ ~Has(sd, Ends) /\ ~Has(sd, {"open"}) /\ ~Has(sd, {"drain"})
      /\ Len(mv) + Len(w) = Len(an)
  BY UnderWayIsFirst
<1>4. /\ w \in Seq(Op) /\ mv \in Seq(Op) /\ Len(an) \in Nat /\ Len(mv) \in Nat /\ Len(w) \in Nat
      /\ b \in Seq(Answers) /\ Len(b) = Len(an) /\ DOMAIN an = 1..Len(an) /\ DOMAIN w = 1..Len(w)
      /\ i \in [op : Op \cup {Nil}, phase : Phases]
  BY DEF SideOK, Typed, AnswersOnly
<1>5. \A k \in DOMAIN w : w[k][1] = Len(an) - Len(w) + k /\ w[k][1] \in DOMAIN an
  BY <1>4 DEF SideOK, Numbered
<1>6. ASSUME NEW k \in DOMAIN w, w[k][2] = "promise", b[w[k][1]] # "none"
      PROVE  k = 1 /\ b[w[k][1]] # "value"
  <2>1. CASE b[w[k][1]] = an[w[k][1]]
    <3>1. ~Has(sd, {"complete"})
      BY <1>3, EndsAre
    <3> QED
      BY <1>6, <2>1, <3>1 DEF SideOK, FirstAnswered
  <2>2. CASE w[k][1] = i.op[1] /\ b[w[k][1]] = "exception" /\ b # an
    <3>1. i.op = Head(w) /\ w # <<>>
      BY <2>2, UnderWayIsFirst
    <3>2. Head(w) = w[1] /\ 1 \in DOMAIN w
      BY <1>4, <3>1
    <3>3. Len(an) - Len(w) + k = Len(an) - Len(w) + 1
      BY <1>5, <2>2, <3>1, <3>2
    <3>4. k = 1
      BY <1>4, <3>3
    <3> QED
      BY <2>2, <3>4
  <2> QED
    BY <1>5, <2>1, <2>2 DEF AnswersOnly
<1>7. /\ ~Has(t, {"open"}) /\ ~Has(t, {"drain"}) /\ ~Has(t, {"complete"})
      /\ Once(t, Ends) /\ Once(t, {"open"}) /\ ~Has(t, {"sent"})
  BY <1>1, <1>2, <1>3, EndsAre
<1>8. NoIo \in [op : Op \cup {Nil}, phase : Phases] /\ NoIo.phase = "idle"
  BY DEF NoIo, Nil, Phases
<1>9. Right(cn, st, av, w, t, NoIo) /\ Typed(st, av, w, qe, t, NoIo, b, lt, mv)
  BY <1>2, <1>3, <1>4, <1>7, <1>8 DEF SideOK, Right, Typed, Unheld
<1>10. Carried(cn, av, w, t, NoIo, b, mv) /\ ForTheFirst(w, t, NoIo)
  BY <1>3, <1>4, <1>7, <1>8 DEF SideOK, Carried, ForTheFirst
<1>11. FirstAnswered(cn, av, w, t, NoIo, b)
  BY <1>3, <1>6, <1>7, <1>8 DEF FirstAnswered
<1>12. Numbered(w, b)
  BY <1>4 DEF SideOK, Numbered
<1> QED
  BY <1>9, <1>10, <1>11, <1>12 DEF SideOK, t

(* The buffer of a receive does not fit: the receive waits for another.     *)
LEMMA OperationParked ==
  ASSUME NEW cn, NEW st, NEW av, NEW w, NEW qe, NEW sd, NEW i, NEW an, NEW lt, NEW mv,
         SideOK(cn, st, av, w, qe, sd, i, an, lt, mv),
         i.phase = "header",
         NEW b, AnswersOnly(an, b, i.op[1], "exception")
  PROVE  SideOK(cn, st, av, w, qe, sd, [i EXCEPT !.phase = "parked"], b, lt, mv)
<1>3. /\ cn = "open" /\ ~av /\ ~Has(sd, Ends) /\ ~Has(sd, {"open"}) /\ ~Has(sd, {"drain"})
      /\ Len(mv) + Len(w) = Len(an)
  BY UnderWayIsFirst
<1>4. /\ w \in Seq(Op) /\ mv \in Seq(Op) /\ Len(an) \in Nat /\ Len(mv) \in Nat /\ Len(w) \in Nat
      /\ b \in Seq(Answers) /\ Len(b) = Len(an) /\ DOMAIN an = 1..Len(an) /\ DOMAIN w = 1..Len(w)
      /\ i \in [op : Op \cup {Nil}, phase : Phases]
  BY DEF SideOK, Typed, AnswersOnly
<1>5. \A k \in DOMAIN w : w[k][1] = Len(an) - Len(w) + k /\ w[k][1] \in DOMAIN an
  BY <1>4 DEF SideOK, Numbered
<1>6. ASSUME NEW k \in DOMAIN w, w[k][2] = "promise", b[w[k][1]] # "none"
      PROVE  k = 1 /\ b[w[k][1]] # "value"
  <2>1. CASE b[w[k][1]] = an[w[k][1]]
    <3>1. ~Has(sd, {"complete"})
      BY <1>3, EndsAre
    <3> QED
      BY <1>6, <2>1, <3>1 DEF SideOK, FirstAnswered
  <2>2. CASE w[k][1] = i.op[1] /\ b[w[k][1]] = "exception" 
    <3>1. i.op = Head(w) /\ w # <<>>
      BY <2>2, UnderWayIsFirst
    <3>2. Head(w) = w[1] /\ 1 \in DOMAIN w
      BY <1>4, <3>1
    <3>3. Len(an) - Len(w) + k = Len(an) - Len(w) + 1
      BY <1>5, <2>2, <3>1, <3>2
    <3>4. k = 1
      BY <1>4, <3>3
    <3> QED
      BY <2>2, <3>4
  <2> QED
    BY <1>5, <2>1, <2>2 DEF AnswersOnly
<1> DEFINE j == [i EXCEPT !.phase = "parked"]
<1>7. j \in [op : Op \cup {Nil}, phase : Phases] /\ j.phase = "parked" /\ j.op = i.op
  BY <1>4 DEF Phases
<1> HIDE DEF j
<1>8. i.op # ConnString \/ i.phase # "data"
  OBVIOUS
<1>9. Right(cn, st, av, w, sd, j) /\ Typed(st, av, w, qe, sd, j, b, lt, mv)
  BY <1>3, <1>4, <1>7 DEF SideOK, Right, Typed, Unheld
<1>10. Carried(cn, av, w, sd, j, b, mv) /\ ForTheFirst(w, sd, j)
  BY <1>3, <1>4, <1>7, UnderWayIsFirst DEF SideOK, Carried, ForTheFirst
<1>11. FirstAnswered(cn, av, w, sd, j, b)
  <2>1. ~Has(sd, {"sent"})
    BY <1>3, EndsAre
  <2> QED
    BY <1>3, <1>6, <1>7, <2>1 DEF FirstAnswered
<1>12. Numbered(w, b)
  BY <1>4 DEF SideOK, Numbered
<1> QED
  BY <1>9, <1>10, <1>11, <1>12 DEF SideOK, j

(* The first operation of the queue is cancelled and leaves it.             *)
LEMMA FirstCancelled ==
  ASSUME NEW cn, NEW st, NEW av, NEW w, NEW qe, NEW sd, NEW i, NEW an, NEW lt, NEW mv,
         SideOK(cn, st, av, w, qe, sd, i, an, lt, mv),
         sd # <<>>, Head(sd) = "drain", w # <<>>,
         NEW b, AnswersOnly(an, b, Head(w)[1], "exception")
  PROVE  SideOK(cn, st, av, Tail(w), qe, sd, i, b, lt, mv)
<1> DEFINE v == Tail(w)
<1>1. sd \in Seq(Handlers) /\ w \in Seq(Op) /\ Len(an) \in Nat /\ DOMAIN an = 1..Len(an)
  BY DEF SideOK, Typed
<1>2. Has(sd, {"drain"})
  BY <1>1, HasTail
<1>3. ~av /\ i.phase = "idle" /\ ~Has(sd, Ends) /\ ~Has(sd, {"open"}) /\ cn \in {"open", "failed"}
  BY <1>2 DEF SideOK, Right, Unheld
<1>4. ~Has(sd, {"complete"}) /\ ~Has(sd, {"sent"})
  BY <1>3, EndsAre
<1>5. /\ v \in Seq(Op) /\ Len(v) = Len(w) - 1 /\ Len(w) \in Nat
      /\ 1 \in DOMAIN w /\ Head(w) = w[1]
      /\ \A k \in DOMAIN v :
           k \in Nat \ {0} /\ k + 1 \in DOMAIN w /\ k + 1 # 1 /\ v[k] = w[k + 1]
  BY <1>1, QueueTail
<1>6. Len(b) = Len(an) /\ b \in Seq(Answers)
  BY DEF AnswersOnly
<1> HIDE DEF v
<1>7. Len(w) <= Len(an)
  BY DEF SideOK, Numbered
<1>8. ASSUME NEW k \in DOMAIN v
      PROVE  /\ v[k][1] = Len(an) - Len(v) + k /\ (qe => v[k] \in lt)
             /\ v[k][2] = "promise" => b[v[k][1]] = "none"
  <2>1. /\ k \in Nat /\ k + 1 \in DOMAIN w /\ v[k] = w[k + 1]
        /\ w[k + 1][1] = Len(an) - Len(w) + (k + 1) /\ (qe => w[k + 1] \in lt)
        /\ w[1][1] = Len(an) - Len(w) + 1
    BY <1>5 DEF SideOK, Numbered, OnlyLate
  <2>2. v[k][2] = "promise" => an[v[k][1]] = "none"
    BY <1>5, <2>1 DEF SideOK, FirstAnswered
  <2>3. v[k][1] = Len(an) - Len(v) + k /\ v[k][1] # Head(w)[1] /\ k <= Len(v) /\ k >= 1
    BY <1>1, <1>5, <2>1, SMTT(20)
  <2>4. v[k][1] \in 1..Len(an)
    <3>1. Len(v) = Len(w) - 1 /\ Len(w) \in Nat /\ k \in Nat
      BY <1>5, <2>1
    <3> QED
      BY <1>1, <1>7, <2>3, <3>1
  <2>5. b[v[k][1]] = an[v[k][1]]
    BY <1>1, <2>3, <2>4 DEF AnswersOnly
  <2> QED
    BY <2>1, <2>2, <2>3, <2>5
<1>9. Typed(st, av, v, qe, sd, i, b, lt, mv) /\ Right(cn, st, av, v, sd, i)
  BY <1>5, <1>6 DEF SideOK, Typed, Right
<1>10. Numbered(v, b) /\ OnlyLate(v, qe, lt) /\ FirstAnswered(cn, av, v, sd, i, b)
  BY <1>1, <1>5, <1>6, <1>7, <1>8 DEF Numbered, OnlyLate, FirstAnswered
<1>11. Carried(cn, av, v, sd, i, b, mv) /\ ForTheFirst(v, sd, i)
  BY <1>3, <1>4 DEF SideOK, Carried, ForTheFirst
<1> QED
  BY <1>9, <1>10, <1>11 DEF SideOK, v

(* An operation is pushed; if its queue was given up it is late.            *)
LEMMA OperationPushed ==
  ASSUME NEW cn, NEW st, NEW av, NEW w, NEW qe, NEW sd, NEW i, NEW an, NEW lt, NEW mv,
         SideOK(cn, st, av, w, qe, sd, i, an, lt, mv),
         NEW x \in Op, x[1] = Len(an) + 1
  PROVE  SideOK(cn, st, av, Append(w, x), qe, sd, i, Append(an, "none"), IF qe THEN lt \cup {x} ELSE lt, mv)
<1> DEFINE v == Append(w, x)
           b == Append(an, "none")
           l == IF qe THEN lt \cup {x} ELSE lt
<1>1. w \in Seq(Op) /\ an \in Seq(Answers) /\ "none" \in Answers /\ mv \in Seq(Op) /\ lt \subseteq Op
  BY DEF SideOK, Typed, Answers
<1>2. /\ v \in Seq(Op) /\ Len(v) = Len(w) + 1 /\ Len(w) \in Nat /\ v # <<>>
      /\ (w # <<>> => Head(v) = Head(w))
      /\ \A k \in DOMAIN v : k \in 1..(Len(w) + 1) /\ ((k \in DOMAIN w /\ v[k] = w[k]) \/ (k = Len(w) + 1 /\ v[k] = x))
  <2>1. v \in Seq(Op) /\ Len(v) = Len(w) + 1 /\ Len(w) \in Nat /\ v # <<>>
    BY <1>1, AppendProperties
  <2>2. w # <<>> => Head(v) = Head(w)
    BY <1>1, HeadTailAppend
  <2>3. \A k \in DOMAIN v : k \in 1..(Len(w) + 1)
                        /\ ((k \in DOMAIN w /\ v[k] = w[k]) \/ (k = Len(w) + 1 /\ v[k] = x))
    <3>1. /\ \A k \in 1..Len(w) : v[k] = w[k]
          /\ v[Len(w) + 1] = x /\ DOMAIN w = 1..Len(w)
      BY <1>1, AppendProperties
    <3>2. DOMAIN v = 1..(Len(w) + 1)
      BY <1>1, <2>1
    <3> HIDE DEF v
    <3> SUFFICES ASSUME NEW k \in DOMAIN v
                 PROVE  /\ k \in 1..(Len(w) + 1)
                        /\ ((k \in DOMAIN w /\ v[k] = w[k]) \/ (k = Len(w) + 1 /\ v[k] = x))
      OBVIOUS
    <3>3. CASE k = Len(w) + 1
      BY <3>1, <3>2, <3>3
    <3>4. CASE k # Len(w) + 1
      <4>1. k \in 1..Len(w)
        BY <2>1, <3>2, <3>4
      <4> QED
        BY <3>1, <3>2, <4>1
    <3> QED
      BY <3>3, <3>4
  <2> QED
    BY <2>1, <2>2, <2>3
<1>3. /\ b \in Seq(Answers) /\ Len(b) = Len(an) + 1 /\ Len(an) \in Nat /\ b[Len(an) + 1] = "none"
      /\ \A k \in 1..Len(an) : b[k] = an[k]
  BY <1>1
<1>4. l \subseteq Op /\ (qe => x \in l) /\ lt \subseteq l
  BY <1>1
<1> HIDE DEF v, b, l
<1>5. Len(w) <= Len(an) /\ \A k \in DOMAIN w : w[k][1] = Len(an) - Len(w) + k
  BY DEF SideOK, Numbered
<1>6. ASSUME NEW k \in DOMAIN v
      PROVE  /\ v[k][1] = Len(b) - Len(v) + k /\ (qe => v[k] \in l)
             /\ v[k][2] = "promise" /\ b[v[k][1]] # "none" =>
                  k \in DOMAIN w /\ v[k] = w[k] /\ b[v[k][1]] = an[w[k][1]]
  <2>1. CASE k \in DOMAIN w /\ v[k] = w[k]
    <3>1. w[k][1] = Len(an) - Len(w) + k /\ k \in 1..Len(w)
      BY <1>1, <1>5, <2>1
    <3>2. w[k][1] \in 1..Len(an)
      BY <1>2, <1>3, <1>5, <3>1
    <3>3. qe => w[k] \in lt
      BY <2>1 DEF SideOK, OnlyLate
    <3> QED
      BY <1>2, <1>3, <1>4, <2>1, <3>1, <3>2, <3>3
  <2>2. CASE k = Len(w) + 1 /\ v[k] = x
    BY <1>2, <1>3, <1>4, <2>2
  <2> QED
    BY <1>2, <2>1, <2>2
<1>7. Typed(st, av, v, qe, sd, i, b, l, mv) /\ Right(cn, st, av, v, sd, i) /\ ForTheFirst(v, sd, i)
  BY <1>2, <1>3, <1>4 DEF SideOK, Typed, Right, ForTheFirst
<1>8. Numbered(v, b) /\ OnlyLate(v, qe, l)
  BY <1>2, <1>3, <1>5, <1>6 DEF Numbered, OnlyLate
<1>9. FirstAnswered(cn, av, v, sd, i, b)
  BY <1>6 DEF SideOK, FirstAnswered
<1>10. Carried(cn, av, v, sd, i, b, mv)
  <2>1. /\ Len(mv) \in Nat /\ Len(v) = Len(w) + 1 /\ Len(w) \in Nat
        /\ Len(b) = Len(an) + 1 /\ Len(an) \in Nat
    BY <1>1, <1>2, <1>3
  <2>2. /\ Len(w) = Len(an) => Len(v) = Len(b)
        /\ Len(mv) + Len(w) = Len(an) => Len(mv) + Len(v) = Len(b)
        /\ Len(mv) + Len(w) = Len(an) + 1 => Len(mv) + Len(v) = Len(b) + 1
    BY <2>1
  <2> QED
    BY <2>2 DEF SideOK, Carried
<1> QED
  BY <1>7, <1>8, <1>9, <1>10 DEF SideOK, v, b, l

-----------------------------------------------------------------------------
(* Steps that change one side.                                              *)

(* g is f but for side s.                                                   *)
Sided(g, f, s) == g = [t \in Side |-> IF t = s THEN g[s] ELSE f[t]]

LEMMA SidedExcept ==
  ASSUME NEW f, PerSide(f), NEW s \in Side, NEW v
  PROVE  /\ Sided(f, f, s)
         /\ Sided([f EXCEPT ![s] = v], f, s) /\ [f EXCEPT ![s] = v][s] = v
<1> HIDE DEF Side
<1> QED
  BY DEF Sided, PerSide

LEMMA SidedSplit ==
  ASSUME NEW g, NEW f, NEW s \in Side, Sided(g, f, s)
  PROVE  PerSide(g) /\ \A t \in Side : t # s => g[t] = f[t]
<1>1. DOMAIN g = Side
  BY DEF Sided
<1>2. \A t \in Side : t # s => g[t] = f[t]
  BY DEF Sided
<1>3. g = [t \in DOMAIN g |-> g[t]]
  BY DEF Sided
<1> QED
  BY <1>1, <1>2, <1>3 DEF PerSide

(* Every variable of a side stays what it was on the other one.             *)
OnlySide(s) ==
  /\ Sided(status', status, s) /\ Sided(available', available, s) /\ Sided(queue', queue, s)
  /\ Sided(queueEmpty', queueEmpty, s) /\ Sided(strand', strand, s) /\ Sided(io', io, s)
  /\ Sided(answers', answers, s) /\ Sided(late', late, s) /\ Sided(moved', moved, s)

LEMMA OtherSides ==
  ASSUME Shape, \A t \in Side : SideInv(t), NEW s \in Side, OnlySide(s), conn' = conn,
         IsQueue(queue'[s]), SideInv(s)'
  PROVE  /\ \A t \in Side : SideInv(t)'
         /\ \A t \in Side : t # s =>
              /\ status'[t] = status[t] /\ queueEmpty'[t] = queueEmpty[t]
              /\ strand'[t] = strand[t] /\ answers'[t] = answers[t]
         /\ PerSide(status') /\ PerSide(available') /\ PerSide(queue') /\ PerSide(queueEmpty')
         /\ PerSide(strand') /\ PerSide(io') /\ PerSide(answers') /\ PerSide(late') /\ PerSide(moved')
         /\ \A t \in Side : IsQueue(queue'[t])
<1>1. /\ PerSide(status') /\ PerSide(available') /\ PerSide(queue') /\ PerSide(queueEmpty')
      /\ PerSide(strand') /\ PerSide(io') /\ PerSide(answers') /\ PerSide(late') /\ PerSide(moved')
  BY SidedSplit DEF OnlySide
<1>2. ASSUME NEW t \in Side, t # s
      PROVE  /\ status'[t] = status[t] /\ available'[t] = available[t] /\ queue'[t] = queue[t]
             /\ queueEmpty'[t] = queueEmpty[t] /\ strand'[t] = strand[t] /\ io'[t] = io[t]
             /\ answers'[t] = answers[t] /\ late'[t] = late[t] /\ moved'[t] = moved[t]
  <2> HIDE DEF Side
  <2> QED
    BY <1>2, SidedSplit DEF OnlySide
<1>3. ASSUME NEW t \in Side, t # s PROVE SideInv(t)' /\ IsQueue(queue'[t])
  BY <1>2, <1>3 DEF SideInv, Shape
<1> QED
  BY <1>1, <1>2, <1>3

LEMMA SideStep ==
  ASSUME IInv, NEW s \in Side, OnlySide(s), UNCHANGED <<openVars, user, closer>>,
         IsQueue(queue'[s]), SideInv(s)', CrashOK',
         Has(strand'[s], {"open"}) <=> Has(strand[s], {"open"}),
         Has(strand'[s], {"close"}) => Has(strand[s], {"close"}),
         queueEmpty[s] => queueEmpty'[s], status[s] = "Stopped" => status'[s] = "Stopped",
         Doomed(s) => Doomed(s)', Len(answers'[s]) = Len(answers[s]),
         status'[s] = "Stopped" => status[s] = "Stopped" \/ Doomed(s)' \/ Has(strand[s], {"close"})
  PROVE  IInv'
<1>1. /\ Shape /\ OpenOnce /\ ClosingOK /\ UserOK /\ \A t \in Side : SideInv(t)
      /\ conn' = conn /\ role' = role /\ load' = load /\ handle' = handle /\ openCount' = openCount
      /\ openProm' = openProm /\ acceptor' = acceptor /\ user' = user /\ closer' = closer
  BY DEF IInv, openVars
<1>2. /\ \A t \in Side : SideInv(t)'
      /\ \A t \in Side : t # s =>
           /\ status'[t] = status[t] /\ queueEmpty'[t] = queueEmpty[t]
           /\ strand'[t] = strand[t] /\ answers'[t] = answers[t]
      /\ PerSide(status') /\ PerSide(available') /\ PerSide(queue') /\ PerSide(queueEmpty')
      /\ PerSide(strand') /\ PerSide(io') /\ PerSide(answers') /\ PerSide(late') /\ PerSide(moved')
      /\ \A t \in Side : IsQueue(queue'[t])
  BY <1>1, OtherSides
<1>3. Shape'
  BY <1>1, <1>2 DEF Shape
<1>4. ASSUME NEW t \in Side
      PROVE  /\ Has(strand'[t], {"open"}) <=> Has(strand[t], {"open"})
             /\ Has(strand'[t], {"close"}) => Has(strand[t], {"close"})
             /\ queueEmpty[t] => queueEmpty'[t]
             /\ status[t] = "Stopped" => status'[t] = "Stopped"
             /\ Doomed(t) => Doomed(t)'
             /\ status'[t] = "Stopped" => status[t] = "Stopped" \/ Doomed(t)' \/ Has(strand[t], {"close"})
             /\ Len(answers'[t]) = Len(answers[t])
  <2>1. CASE t = s
    BY <2>1
  <2>2. CASE t # s
    <3>1. /\ status'[t] = status[t] /\ queueEmpty'[t] = queueEmpty[t]
          /\ strand'[t] = strand[t] /\ answers'[t] = answers[t]
      BY <1>2, <2>2
    <3> QED
      BY <3>1 DEF Doomed
  <2> QED
    BY <2>1, <2>2
<1>5. OpenOnce'
  <2>1. Waits("send")' = Waits("send") /\ Waits("recv")' = Waits("recv")
    BY <1>4 DEF Waits, Side
  <2>2. Stopped => Stopped'
    BY <1>4 DEF Stopped
  <2> QED
    BY <1>1, <1>4, <2>1, <2>2 DEF OpenOnce
<1>6. ClosingOK'
  <2>1. "send" \in Side
    BY DEF Side
  <2> QED
    BY <1>1, <1>4, <2>1 DEF ClosingOK
<1>7. UserOK'
  <2>1. user[1] = "checked" => user[2] \in Side
    BY <1>1 DEF UserOK, Users
  <2> QED
    BY <1>1, <1>4, <2>1 DEF UserOK
<1> QED
  BY <1>2, <1>3, <1>5, <1>6, <1>7 DEF IInv

(* The process goes on.                                                     *)
LEMMA GoesOn ==
  ASSUME crash' = "none"
  PROVE  CrashOK'
  BY DEF CrashOK, CrashesAreKnown

(* Only an operation pushed too late can want the socket that is gone.      *)
LEMMA OnlyLateCrash ==
  ASSUME IInv, NEW s \in Side, SideInv(s)', crash' = "no socket", handle = "reset",
         Items(queue'[s]) # <<>>, queueEmpty[s] => queueEmpty'[s]
  PROVE  CrashOK'
<1>1. queueEmpty'[s]
  BY DEF IInv, ClosingOK
<1>2. Items(queue'[s]) \in Seq(Op) /\ \A k \in DOMAIN Items(queue'[s]) : Items(queue'[s])[k] \in late'[s]
  BY <1>1 DEF SideInv, SideOK, Typed, OnlyLate
<1>3. 1 \in DOMAIN Items(queue'[s])
  <2> DEFINE w == Items(queue'[s])
  <2>1. w \in Seq(Op) /\ w # <<>>
    BY <1>2
  <2> HIDE DEF w
  <2>2. 1 \in DOMAIN w
    BY <2>1, QueueTail
  <2> QED
    BY <2>2 DEF w
<1>4. late'[s] # {}
  BY <1>2, <1>3
<1> QED
  BY <1>4 DEF CrashOK, CrashesAreKnown

(* The right to start an operation is used if there is one to start.        *)
LEMMA StartsOrFree ==
  ASSUME Shape, NEW s \in Side, NEW q, IsQueue(q), NEW st, NEW qe, NEW sd, NEW an, NEW lt, NEW mv,
         SideOK(conn, st, TRUE, Items(q), qe, sd, io[s], an, lt, mv), available[s] \in BOOLEAN,
         \/ IsEmpty(q) /\ available' = [available EXCEPT ![s] = TRUE] /\ UNCHANGED <<io, crash>>
         \/ ~IsEmpty(q) /\ Perform(s, TRUE, q)
  PROVE  /\ Sided(available', available, s) /\ Sided(io', io, s)
         /\ SideOK(conn, st, available'[s], Items(q), qe, sd, io'[s], an, lt, mv)
         /\ crash' = crash \/ (crash' = "no socket" /\ handle = "reset" /\ Items(q) # <<>>)
<1>1. PerSide(available) /\ PerSide(io) /\ (IsEmpty(q) <=> Items(q) = <<>>)
  BY QueueHolds DEF Shape
<1>2. CASE IsEmpty(q) /\ available' = [available EXCEPT ![s] = TRUE] /\ UNCHANGED <<io, crash>>
  <2>1. Sided(available', available, s) /\ available'[s] = TRUE /\ Sided(io', io, s)
    BY <1>1, <1>2, SidedExcept
  <2> QED
    BY <1>2, <2>1
<1>3. CASE ~IsEmpty(q) /\ handle = "reset" /\ Perform(s, TRUE, q)
  <2>1. crash' = "no socket" /\ available' = available /\ io' = io
    BY <1>3 DEF Perform
  <2>2. SideOK(conn, st, FALSE, Items(q), qe, sd, io[s], an, lt, mv)
    BY LoseRight
  <2>3. SideOK(conn, st, available[s], Items(q), qe, sd, io[s], an, lt, mv)
    BY <2>2
  <2>4. Sided(available', available, s) /\ Sided(io', io, s)
    BY <1>1, <2>1, SidedExcept
  <2> QED
    BY <1>1, <1>3, <2>1, <2>3, <2>4
<1>4. CASE ~IsEmpty(q) /\ handle # "reset" /\ Perform(s, TRUE, q)
  <2> DEFINE p == IF s = "recv" THEN "header" ELSE "data"
             j == [op |-> Front(q), phase |-> p]
  <2>1. /\ available' = [available EXCEPT ![s] = FALSE] /\ io' = [io EXCEPT ![s] = j] /\ crash' = crash
    BY <1>4 DEF Perform
  <2>2. Items(q) # <<>> /\ Front(q) = Head(Items(q)) /\ p \in {"header", "data"}
    BY <1>1, <1>4, PopTakes
  <2>3. SideOK(conn, st, FALSE, Items(q), qe, sd, j, an, lt, mv)
    BY <2>2, StartFirst
  <2> HIDE DEF j
  <2>4. /\ Sided(available', available, s) /\ available'[s] = FALSE
        /\ Sided(io', io, s) /\ io'[s] = j
    BY <1>1, <2>1, SidedExcept
  <2> QED
    BY <2>1, <2>3, <2>4
<1> QED
  BY <1>2, <1>3, <1>4

-----------------------------------------------------------------------------
(* The handlers of a strand.                                                *)

(* The side of a handler, before it runs.                                   *)
LEMMA Before ==
  ASSUME IInv, NEW s \in Side
  PROVE  /\ Shape /\ ClosingOK /\ CrashOK /\ SideInv(s) /\ IsQueue(queue[s])
         /\ strand[s] \in Seq(Handlers) /\ available[s] \in BOOLEAN /\ answers[s] \in Seq(Answers)
         /\ Len(answers[s]) \in Nat
         /\ Sided(status, status, s) /\ Sided(available, available, s) /\ Sided(queue, queue, s)
         /\ Sided(queueEmpty, queueEmpty, s) /\ Sided(strand, strand, s) /\ Sided(io, io, s)
         /\ Sided(answers, answers, s) /\ Sided(late, late, s) /\ Sided(moved, moved, s)
         /\ \A v : /\ Sided([status EXCEPT ![s] = v], status, s) /\ [status EXCEPT ![s] = v][s] = v
                   /\ Sided([queue EXCEPT ![s] = v], queue, s) /\ [queue EXCEPT ![s] = v][s] = v
                   /\ Sided([queueEmpty EXCEPT ![s] = v], queueEmpty, s)
                   /\ [queueEmpty EXCEPT ![s] = v][s] = v
                   /\ Sided([strand EXCEPT ![s] = v], strand, s) /\ [strand EXCEPT ![s] = v][s] = v
                   /\ Sided([io EXCEPT ![s] = v], io, s) /\ [io EXCEPT ![s] = v][s] = v
                   /\ Sided([answers EXCEPT ![s] = v], answers, s) /\ [answers EXCEPT ![s] = v][s] = v
                   /\ Sided([moved EXCEPT ![s] = v], moved, s) /\ [moved EXCEPT ![s] = v][s] = v
<1>1. Shape /\ ClosingOK /\ CrashOK /\ SideInv(s) /\ IsQueue(queue[s])
  BY DEF IInv, Shape
<1>2. /\ strand[s] \in Seq(Handlers) /\ available[s] \in BOOLEAN /\ answers[s] \in Seq(Answers)
      /\ Len(answers[s]) \in Nat
  BY <1>1 DEF SideInv, SideOK, Typed
<1>3. /\ PerSide(status) /\ PerSide(available) /\ PerSide(queue) /\ PerSide(queueEmpty)
      /\ PerSide(strand) /\ PerSide(io) /\ PerSide(answers) /\ PerSide(late) /\ PerSide(moved)
  BY <1>1 DEF Shape
<1> QED
  BY <1>1, <1>2, <1>3, SidedExcept

(* The first handler is done.                                               *)
LEMMA Finished ==
  ASSUME IInv, NEW s \in Side, NEW h, Runs(s, h), Finish(s)
  PROVE  /\ Sided(strand', strand, s) /\ strand'[s] = Tail(strand[s])
         /\ strand[s] # <<>> /\ Head(strand[s]) = h /\ crash = "none"
         /\ Has(strand'[s], {"open"}) => Has(strand[s], {"open"})
         /\ h # "open" => (Has(strand'[s], {"open"}) <=> Has(strand[s], {"open"}))
         /\ Has(strand'[s], {"close"}) => Has(strand[s], {"close"})
         /\ h = "close" => Has(strand[s], {"close"})
         /\ h # "drain" /\ Doomed(s) => queueEmpty[s]
<1>1. /\ Sided(strand', strand, s) /\ strand'[s] = Tail(strand[s])
      /\ strand[s] # <<>> /\ Head(strand[s]) = h /\ crash = "none" /\ strand[s] \in Seq(Handlers)
  BY Before DEF Finish, Runs, Running
<1>2. \A C : Has(strand[s], C) <=> Head(strand[s]) \in C \/ Has(Tail(strand[s]), C)
  BY <1>1, HasTail
<1> QED
  BY <1>1, <1>2 DEF Doomed

(* A queue may be given up, or was already.                                 *)
LEMMA MayGiveUp ==
  ASSUME IInv, NEW s \in Side, NEW c \in BOOLEAN, GiveUpIf(s, c)
  PROVE  /\ Sided(queueEmpty', queueEmpty, s) /\ (queueEmpty[s] => queueEmpty'[s])
         /\ queueEmpty'[s] = queueEmpty[s] \/ (queueEmpty'[s] = TRUE /\ c)
         /\ c => queueEmpty'[s]
<1>1. CASE c /\ ~queueEmpty[s]
  <2>1. queueEmpty' = [queueEmpty EXCEPT ![s] = TRUE]
    BY <1>1 DEF GiveUpIf, SetQueueEmpty
  <2>2. Sided(queueEmpty', queueEmpty, s) /\ queueEmpty'[s] = TRUE
    BY <2>1, Before
  <2> QED
    BY <1>1, <2>2
<1>2. CASE ~(c /\ ~queueEmpty[s])
  <2>1. queueEmpty' = queueEmpty
    BY <1>2 DEF GiveUpIf
  <2>2. Sided(queueEmpty', queueEmpty, s)
    BY <2>1, Before
  <2> QED
    BY <1>2, <2>1, <2>2
<1> QED
  BY <1>1, <1>2

LEMMA KickKeeps == ASSUME IInv, NEW s \in Side, Kick(s) PROVE IInv'
<1>1. /\ Runs(s, "kick") /\ Finish(s)
      /\ UNCHANGED <<openVars, status, queue, queueEmpty, answers, late, moved, user, closer>>
  BY DEF Kick
<1>2. /\ SideInv(s) /\ IsQueue(queue[s]) /\ Shape /\ available[s] \in BOOLEAN
      /\ Sided(status', status, s) /\ Sided(queue', queue, s) /\ Sided(queueEmpty', queueEmpty, s)
      /\ Sided(answers', answers, s) /\ Sided(late', late, s) /\ Sided(moved', moved, s)
  BY <1>1, Before
<1>3. /\ Sided(strand', strand, s) /\ strand'[s] = Tail(strand[s])
      /\ strand[s] # <<>> /\ Head(strand[s]) = "kick" /\ crash = "none"
      /\ Has(strand'[s], {"open"}) <=> Has(strand[s], {"open"})
      /\ Has(strand'[s], {"close"}) => Has(strand[s], {"close"})
      /\ Doomed(s) => queueEmpty[s]
  BY <1>1, Finished
<1>4. SideOK(conn, status[s], available[s], Items(queue[s]), queueEmpty[s], strand'[s], io[s],
             answers[s], late[s], moved[s])
  BY <1>2, <1>3, PlainDone DEF SideInv, Ends
<1>5. /\ Sided(available', available, s) /\ Sided(io', io, s)
      /\ SideOK(conn, status[s], available'[s], Items(queue[s]), queueEmpty[s], strand'[s], io'[s],
                answers[s], late[s], moved[s])
      /\ crash' = "none" \/ (crash' = "no socket" /\ handle = "reset" /\ Items(queue[s]) # <<>>)
  <2>1. CASE ~IsEmpty(queue[s]) /\ available[s]
    <3>1. available[s] = TRUE
      BY <2>1, <1>2
    <3>2. Perform(s, TRUE, queue[s])
      BY <2>1, <3>1 DEF Kick
    <3>3. SideOK(conn, status[s], TRUE, Items(queue[s]), queueEmpty[s], strand'[s], io[s],
                 answers[s], late[s], moved[s])
      BY <1>4, <3>1
    <3> QED
      BY <1>2, <1>3, <2>1, <3>2, <3>3, StartsOrFree
  <2>2. CASE ~(~IsEmpty(queue[s]) /\ available[s])
    <3>1. available' = available /\ io' = io /\ crash' = crash
      BY <2>2 DEF Kick
    <3> QED
      BY <1>3, <1>4, <3>1, Before
  <2> QED
    BY <2>1, <2>2
<1>6. SideInv(s)' /\ OnlySide(s)
  BY <1>1, <1>2, <1>3, <1>5 DEF SideInv, OnlySide, openVars
<1>7. CrashOK'
  BY <1>1, <1>5, <1>6, GoesOn, OnlyLateCrash
<1>8. Doomed(s) => Doomed(s)'
  BY <1>1, <1>3 DEF Doomed
<1> QED
  BY <1>1, <1>2, <1>3, <1>6, <1>7, <1>8, SideStep

LEMMA CompleteKeeps == ASSUME IInv, NEW s \in Side, Complete(s) PROVE IInv'
<1> DEFINE q == PopFront(queue[s])
<1>1. /\ Runs(s, "complete") /\ Finish(s) /\ queue' = [queue EXCEPT ![s] = q]
      /\ UNCHANGED <<openVars, status, answers, late, moved, user, closer>>
      /\ GiveUpIf(s, IsEmpty(q) /\ status[s] = "Stopped")
      /\ \/ IsEmpty(q) /\ available' = [available EXCEPT ![s] = TRUE] /\ UNCHANGED <<io, crash>>
         \/ ~IsEmpty(q) /\ Perform(s, TRUE, q)
  BY DEF Complete
<1>2. /\ SideInv(s) /\ IsQueue(queue[s]) /\ Shape /\ available[s] \in BOOLEAN
      /\ Sided(status', status, s) /\ Sided(queue', queue, s) /\ queue'[s] = q
      /\ Sided(answers', answers, s) /\ Sided(late', late, s) /\ Sided(moved', moved, s)
  BY <1>1, Before
<1>3. /\ Sided(strand', strand, s) /\ strand'[s] = Tail(strand[s])
      /\ strand[s] # <<>> /\ Head(strand[s]) = "complete" /\ crash = "none"
      /\ Has(strand'[s], {"open"}) <=> Has(strand[s], {"open"})
      /\ Has(strand'[s], {"close"}) => Has(strand[s], {"close"})
      /\ Doomed(s) => queueEmpty[s]
  BY <1>1, Finished
<1>4. /\ Items(queue[s]) # <<>>
      /\ SideOK(conn, status[s], TRUE, Tail(Items(queue[s])), queueEmpty[s], strand'[s], io[s],
                answers[s], late[s], moved[s])
  <2>1. SideOK(conn, status[s], available[s], Items(queue[s]), queueEmpty[s], strand[s], io[s],
               answers[s], late[s], moved[s])
    BY <1>2 DEF SideInv
  <2>2. /\ Items(queue[s]) # <<>>
        /\ SideOK(conn, status[s], TRUE, Tail(Items(queue[s])), queueEmpty[s], Tail(strand[s]), io[s],
                  answers[s], late[s], moved[s])
    BY <1>3, <2>1, CompleteDone
  <2> QED
    BY <1>3, <2>2
<1>5. IsQueue(q) /\ Items(q) = Tail(Items(queue[s]))
  BY <1>2, <1>4, PopTakes
<1> HIDE DEF q
<1>6. /\ Sided(available', available, s) /\ Sided(io', io, s)
      /\ SideOK(conn, status[s], available'[s], Items(q), queueEmpty[s], strand'[s], io'[s],
                answers[s], late[s], moved[s])
      /\ crash' = "none" \/ (crash' = "no socket" /\ handle = "reset" /\ Items(q) # <<>>)
  <2>1. SideOK(conn, status[s], TRUE, Items(q), queueEmpty[s], strand'[s], io[s],
               answers[s], late[s], moved[s])
    BY <1>4, <1>5
  <2> QED
    BY <1>1, <1>2, <1>3, <1>5, <2>1, StartsOrFree, ZenonT(30)
<1>7. /\ Sided(queueEmpty', queueEmpty, s) /\ (queueEmpty[s] => queueEmpty'[s])
      /\ queueEmpty'[s] = queueEmpty[s] \/ (queueEmpty'[s] = TRUE /\ Items(q) = <<>>)
  <2> DEFINE c == IsEmpty(q) /\ status[s] = "Stopped"
  <2>1. c \in BOOLEAN /\ GiveUpIf(s, c) /\ (c => IsEmpty(q))
    BY <1>1
  <2> HIDE DEF c
  <2> QED
    BY <1>5, <2>1, MayGiveUp, QueueHolds
<1>8. SideOK(conn, status[s], available'[s], Items(q), queueEmpty'[s], strand'[s], io'[s],
             answers[s], late[s], moved[s])
  BY <1>6, <1>7, GiveUpSide
<1>9. SideInv(s)' /\ OnlySide(s)
  BY <1>1, <1>2, <1>3, <1>6, <1>7, <1>8 DEF SideInv, OnlySide, openVars
<1>10. CrashOK'
  BY <1>2, <1>6, <1>7, <1>9, GoesOn, OnlyLateCrash
<1>11. Doomed(s) => Doomed(s)'
  BY <1>3, <1>7 DEF Doomed
<1> QED
  BY <1>1, <1>2, <1>3, <1>5, <1>7, <1>9, <1>10, <1>11, SideStep

LEMMA FatalKeeps == ASSUME IInv, NEW s \in Side, Fatal(s) PROVE IInv'
<1> DEFINE p == <<"drain">> \o Tail(strand[s])
<1>1. /\ strand[s] # <<>> /\ Head(strand[s]) = "fatal" /\ crash = "none"
      /\ status' = [status EXCEPT ![s] = "Stopped"] /\ strand' = [strand EXCEPT ![s] = p]
      /\ UNCHANGED <<openVars, available, queue, queueEmpty, io, answers, late, moved, user, closer, crash>>
  BY DEF Fatal, Runs, Running
<1>2. /\ SideInv(s) /\ IsQueue(queue[s])
      /\ Sided(available', available, s) /\ Sided(queue', queue, s) /\ Sided(queueEmpty', queueEmpty, s)
      /\ Sided(io', io, s)
      /\ Sided(answers', answers, s) /\ Sided(late', late, s) /\ Sided(moved', moved, s)
      /\ Sided(status', status, s) /\ status'[s] = "Stopped"
      /\ Sided(strand', strand, s) /\ strand'[s] = p
  <2> HIDE DEF p
  <2> QED
    BY <1>1, Before
<1>3. /\ p # <<>> /\ Head(p) = "drain" /\ Has(p, {"close"}) = Has(strand[s], {"close"})
      /\ Has(p, {"open"}) = Has(strand[s], {"open"})
      /\ SideOK(conn, "Stopped", available[s], Items(queue[s]), queueEmpty[s], p, io[s],
                answers[s], late[s], moved[s])
  <2>1. SideOK(conn, status[s], available[s], Items(queue[s]), queueEmpty[s], strand[s], io[s],
               answers[s], late[s], moved[s])
    BY <1>2 DEF SideInv
  <2> QED
    BY <1>1, <2>1, FatalDone
<1> HIDE DEF p
<1>4. SideInv(s)' /\ OnlySide(s)
  BY <1>1, <1>2, <1>3 DEF SideInv, OnlySide, openVars
<1>5. CrashOK'
  BY <1>1, GoesOn
<1>6. Doomed(s)'
  BY <1>2, <1>3 DEF Doomed
<1>7. UNCHANGED <<openVars, user, closer>> /\ IsQueue(queue'[s]) /\ Len(answers'[s]) = Len(answers[s])
      /\ queueEmpty'[s] = queueEmpty[s]
  BY <1>1, <1>2
<1> QED
  BY <1>2, <1>3, <1>4, <1>5, <1>6, <1>7, SideStep

(* A promise is answered, unless it was: then the process ends.             *)
LEMMA AnswerGiven ==
  ASSUME IInv, NEW s \in Side, NEW x \in Op, NEW how \in Answers, Answer(s, x, how), crash = "none"
  PROVE  \/ crash' = "promise set twice" /\ answers' = answers /\ Answered(s, x)
         \/ /\ crash' = "none" /\ ~Answered(s, x) /\ Sided(answers', answers, s)
            /\ AnswersOnly(answers[s], answers'[s], x[1], how)
            /\ x[2] = "plain" => answers'[s] = answers[s]
            /\ Len(answers'[s]) = Len(answers[s])
<1>1. answers[s] \in Seq(Answers) /\ Sided(answers, answers, s)
  BY Before
<1>2. CASE x[2] = "plain"
  <2>1. answers' = answers /\ crash' = "none" /\ ~Answered(s, x)
    BY <1>2 DEF Answer, Answered
  <2> QED
    BY <1>1, <2>1 DEF AnswersOnly
<1>3. CASE x[2] # "plain" /\ Answered(s, x)
  BY <1>3 DEF Answer
<1>4. CASE x[2] # "plain" /\ ~Answered(s, x)
  <2> DEFINE a == answers[s]
             b == [a EXCEPT ![x[1]] = how]
  <2>1. answers' = [answers EXCEPT ![s] = b] /\ crash' = "none"
    BY <1>4 DEF Answer
  <2>2. a \in Seq(Answers)
    BY <1>1
  <2> HIDE DEF a
  <2>3. AnswersOnly(a, b, x[1], how)
    <3>1. DOMAIN a = 1..Len(a)
      BY <2>2
    <3>2. CASE x[1] \in 1..Len(a)
      <4>1. /\ b \in Seq(Answers) /\ Len(b) = Len(a)
            /\ \A k \in 1..Len(a) : b[k] = IF k = x[1] THEN how ELSE a[k]
        BY <2>2, <3>2, ExceptSeq
      <4> HIDE DEF b
      <4> QED
        BY <3>1, <4>1 DEF AnswersOnly
    <3>3. CASE x[1] \notin 1..Len(a)
      <4>1. b = a
        BY <2>2, <3>1, <3>3
      <4> HIDE DEF b
      <4> QED
        BY <2>2, <4>1 DEF AnswersOnly
    <3> QED
      BY <3>2, <3>3
  <2> HIDE DEF b
  <2>4. Sided(answers', answers, s) /\ answers'[s] = b
    BY <2>1, Before
  <2> QED
    BY <1>4, <2>1, <2>3, <2>4 DEF a, AnswersOnly
<1> QED
  BY <1>2, <1>3, <1>4

LEMMA DrainOneKeeps == ASSUME IInv, NEW s \in Side, DrainOne(s) PROVE IInv'
<1> DEFINE w == Items(queue[s])
<1>1. /\ strand[s] # <<>> /\ Head(strand[s]) = "drain" /\ crash = "none" /\ ~IsEmpty(queue[s])
      /\ Answer(s, Front(queue[s]), "exception")
      /\ queue' = IF Answered(s, Front(queue[s])) THEN queue ELSE [queue EXCEPT ![s] = PopFront(@)]
      /\ UNCHANGED <<openVars, status, available, queueEmpty, strand, io, late, moved, user, closer>>
  BY DEF DrainOne, Runs, Running
<1>2. /\ SideInv(s) /\ IsQueue(queue[s]) /\ strand[s] \in Seq(Handlers)
      /\ Sided(available', available, s) /\ Sided(queue, queue, s) /\ Sided(queueEmpty', queueEmpty, s)
      /\ Sided(io', io, s) /\ Sided(answers, answers, s) /\ Sided(late', late, s) /\ Sided(moved', moved, s)
      /\ Sided(status', status, s) /\ Sided(strand', strand, s)
  BY <1>1, Before
<1>3. SideOK(conn, status[s], available[s], w, queueEmpty[s], strand[s], io[s],
             answers[s], late[s], moved[s])
  BY <1>2 DEF SideInv
<1>4. w # <<>> /\ Front(queue[s]) = Head(w) /\ w \in Seq(Op)
  BY <1>1, <1>2, <1>3, QueueHolds, PopTakes DEF SideOK, Typed
<1>5. Has(strand[s], {"drain"})
  BY <1>1, <1>2, HasTail
<1>6. status[s] = "Stopped" /\ ~Has(strand[s], {"complete"})
  BY <1>3, <1>5, EndsAre DEF SideOK, Right, Unheld
<1>7. Head(w) \in Op /\ 1 \in DOMAIN w /\ Head(w) = w[1]
  BY <1>4, QueueTail
<1>8. ASSUME Answered(s, Head(w)) PROVE answers[s][Head(w)[1]] = "exception"
  <2>1. Head(w)[2] = "promise" /\ answers[s][Head(w)[1]] # "none"
    BY <1>8 DEF Answered
  <2>2. answers[s][Head(w)[1]] # "value"
    <3> HIDE DEF w
    <3> QED
      BY <1>3, <1>6, <1>7, <2>1 DEF SideOK, FirstAnswered
  <2>3. answers[s] \in Seq(Answers) /\ Head(w)[1] \in DOMAIN answers[s]
    <3> HIDE DEF w
    <3>1. w[1][1] = Len(answers[s]) - Len(w) + 1 /\ Len(w) <= Len(answers[s])
      BY <1>3, <1>7 DEF SideOK, Numbered
    <3>2. answers[s] \in Seq(Answers) /\ Len(answers[s]) \in Nat /\ DOMAIN answers[s] = 1..Len(answers[s])
      BY Before
    <3>3. Len(w) \in Nat /\ Len(w) >= 1
      BY <1>4
    <3>4. w[1][1] \in 1..Len(answers[s])
      BY <3>1, <3>2, <3>3
    <3> QED
      BY <1>7, <3>2, <3>4
  <2>4. answers[s][Head(w)[1]] \in Answers
    BY <2>3
  <2> QED
    BY <2>1, <2>2, <2>4 DEF Answers
<1> HIDE DEF w
<1>9. CASE crash' = "promise set twice" /\ answers' = answers /\ Answered(s, Head(w))
  <2>1. queue' = queue
    BY <1>1, <1>4, <1>9
  <2>2. CrashOK'
    <3>1. ~IsEmpty(queue[s]) /\ status[s] = "Stopped" /\ answers[s][Front(queue[s])[1]] = "exception"
      BY <1>1, <1>4, <1>6, <1>8, <1>9
    <3>2. status' = status
      BY <1>1
    <3> QED
      BY <1>9, <2>1, <3>1, <3>2 DEF CrashOK, CrashesAreKnown
  <2>3. SideInv(s)' /\ OnlySide(s) /\ IsQueue(queue'[s])
    BY <1>1, <1>2, <1>9, <2>1 DEF SideInv, OnlySide, openVars
  <2> QED
    BY <1>1, <1>9, <2>1, <2>2, <2>3, SideStep DEF Doomed
<1>10. CASE /\ crash' = "none" /\ ~Answered(s, Head(w)) /\ Sided(answers', answers, s)
            /\ AnswersOnly(answers[s], answers'[s], Head(w)[1], "exception")
            /\ Len(answers'[s]) = Len(answers[s])
  <2>1. queue' = [queue EXCEPT ![s] = PopFront(queue[s])]
    BY <1>1, <1>4, <1>10
  <2>2. Sided(queue', queue, s) /\ queue'[s] = PopFront(queue[s])
    BY <2>1, Before
  <2>3. IsQueue(queue'[s]) /\ Items(queue'[s]) = Tail(w)
    BY <1>2, <1>4, <2>2, PopTakes DEF w
  <2>4. SideOK(conn, status[s], available[s], Tail(w), queueEmpty[s], strand[s], io[s],
               answers'[s], late[s], moved[s])
    BY <1>1, <1>3, <1>4, <1>10, FirstCancelled
  <2>5. SideInv(s)' /\ OnlySide(s)
    BY <1>1, <1>2, <1>10, <2>2, <2>3, <2>4 DEF SideInv, OnlySide, openVars
  <2>6. CrashOK'
    BY <1>10, GoesOn
  <2> QED
    BY <1>1, <1>10, <2>3, <2>5, <2>6, SideStep DEF Doomed
<1> QED
  <2>1. "exception" \in Answers
    BY DEF Answers
  <2> QED
    BY <1>1, <1>4, <1>7, <1>9, <1>10, <2>1, AnswerGiven

LEMMA DrainEndKeeps == ASSUME IInv, NEW s \in Side, DrainEnd(s) PROVE IInv'
<1>1. /\ Runs(s, "drain") /\ Finish(s) /\ GiveUpIf(s, TRUE)
      /\ queueEmpty[s] \/ IsEmpty(queue[s])
      /\ UNCHANGED <<openVars, status, available, queue, io, answers, late, moved, user, closer, crash>>
  BY DEF DrainEnd
<1>2. /\ SideInv(s) /\ IsQueue(queue[s])
      /\ Sided(status', status, s) /\ Sided(available', available, s) /\ Sided(queue', queue, s)
      /\ Sided(io', io, s)
      /\ Sided(answers', answers, s) /\ Sided(late', late, s) /\ Sided(moved', moved, s)
  BY <1>1, Before
<1>3. /\ Sided(strand', strand, s) /\ strand'[s] = Tail(strand[s])
      /\ strand[s] # <<>> /\ Head(strand[s]) = "drain" /\ crash = "none"
      /\ Has(strand'[s], {"open"}) <=> Has(strand[s], {"open"})
      /\ Has(strand'[s], {"close"}) => Has(strand[s], {"close"})
  BY <1>1, Finished
<1>4. Sided(queueEmpty', queueEmpty, s) /\ queueEmpty'[s]
  BY <1>1, MayGiveUp
<1>5. SideOK(conn, status[s], available[s], Items(queue[s]), queueEmpty[s], strand'[s], io[s],
             answers[s], late[s], moved[s])
  BY <1>2, <1>3, PlainDone DEF SideInv, Ends
<1>6. queueEmpty'[s] = TRUE /\ (queueEmpty[s] = TRUE \/ Items(queue[s]) = <<>>)
  <2>1. queueEmpty[s] \in BOOLEAN
    BY <1>5 DEF SideOK, Typed
  <2>2. queueEmpty'[s] \in BOOLEAN
    BY <1>1, <2>1, MayGiveUp
  <2> QED
    BY <1>1, <1>2, <1>4, <2>1, <2>2, QueueHolds
<1>7. SideOK(conn, status[s], available[s], Items(queue[s]), queueEmpty'[s], strand'[s], io[s],
             answers[s], late[s], moved[s])
  BY <1>5, <1>6, GiveUpSide
<1>8. SideInv(s)' /\ OnlySide(s)
  BY <1>1, <1>2, <1>3, <1>4, <1>7 DEF SideInv, OnlySide, openVars
<1>9. CrashOK' /\ Doomed(s)'
  BY <1>1, <1>3, <1>4, GoesOn DEF Doomed
<1> QED
  BY <1>1, <1>2, <1>3, <1>4, <1>8, <1>9, SideStep

LEMMA CloseSideKeeps == ASSUME IInv, NEW s \in Side, CloseSide(s) PROVE IInv'
<1>1. /\ Runs(s, "close") /\ Finish(s) /\ GiveUpIf(s, IsEmpty(queue[s])) /\ status' = [status EXCEPT ![s] = "Stopped"]
      /\ UNCHANGED <<openVars, available, queue, io, answers, late, moved, user, closer, crash>>
  BY DEF CloseSide
<1>2. /\ SideInv(s) /\ IsQueue(queue[s])
      /\ Sided(available', available, s) /\ Sided(queue', queue, s) /\ Sided(io', io, s)
      /\ Sided(answers', answers, s) /\ Sided(late', late, s) /\ Sided(moved', moved, s)
      /\ Sided(status', status, s) /\ status'[s] = "Stopped"
  BY <1>1, Before
<1>3. /\ Sided(strand', strand, s) /\ strand'[s] = Tail(strand[s])
      /\ strand[s] # <<>> /\ Head(strand[s]) = "close" /\ crash = "none"
      /\ Has(strand'[s], {"open"}) <=> Has(strand[s], {"open"})
      /\ Has(strand'[s], {"close"}) => Has(strand[s], {"close"})
      /\ "close" = "close" => Has(strand[s], {"close"})
      /\ Doomed(s) => queueEmpty[s]
  BY <1>1, Finished
<1>4. /\ Sided(queueEmpty', queueEmpty, s) /\ (queueEmpty[s] => queueEmpty'[s])
      /\ queueEmpty'[s] = queueEmpty[s] \/ (queueEmpty'[s] = TRUE /\ Items(queue[s]) = <<>>)
  <2> DEFINE c == IsEmpty(queue[s])
  <2>1. c \in BOOLEAN /\ GiveUpIf(s, c) /\ (c <=> Items(queue[s]) = <<>>)
    BY <1>1, <1>2, QueueHolds DEF IsEmpty
  <2> HIDE DEF c
  <2> QED
    BY <2>1, MayGiveUp
<1>5. SideOK(conn, status[s], available[s], Items(queue[s]), queueEmpty[s], strand'[s], io[s],
             answers[s], late[s], moved[s])
  BY <1>2, <1>3, PlainDone DEF SideInv, Ends
<1>6. SideOK(conn, status'[s], available[s], Items(queue[s]), queueEmpty[s], strand'[s], io[s],
             answers[s], late[s], moved[s])
  BY <1>2, <1>5, StopSide
<1>7. SideOK(conn, status'[s], available[s], Items(queue[s]), queueEmpty'[s], strand'[s], io[s],
             answers[s], late[s], moved[s])
  BY <1>4, <1>6, GiveUpSide
<1>8. SideInv(s)' /\ OnlySide(s)
  BY <1>1, <1>2, <1>3, <1>4, <1>7 DEF SideInv, OnlySide, openVars
<1>9. CrashOK' /\ (Doomed(s) => Doomed(s)')
  BY <1>1, <1>3, <1>4, GoesOn DEF Doomed
<1> QED
  BY <1>1, <1>2, <1>3, <1>4, <1>8, <1>9, SideStep

LEMMA CancelSideKeeps == ASSUME IInv, NEW s \in Side, CancelSide(s) PROVE IInv'
<1>1. /\ Runs(s, "cancel") /\ Finish(s) /\ GiveUpIf(s, IsEmpty(queue[s])) /\ status' = status
      /\ UNCHANGED <<openVars, available, queue, io, answers, late, moved, user, closer, crash>>
  BY DEF CancelSide
<1>2. /\ SideInv(s) /\ IsQueue(queue[s])
      /\ Sided(available', available, s) /\ Sided(queue', queue, s) /\ Sided(io', io, s)
      /\ Sided(answers', answers, s) /\ Sided(late', late, s) /\ Sided(moved', moved, s)
      /\ Sided(status', status, s) /\ status'[s] = status[s]
  BY <1>1, Before
<1>3. /\ Sided(strand', strand, s) /\ strand'[s] = Tail(strand[s])
      /\ strand[s] # <<>> /\ Head(strand[s]) = "cancel" /\ crash = "none"
      /\ Has(strand'[s], {"open"}) <=> Has(strand[s], {"open"})
      /\ Has(strand'[s], {"close"}) => Has(strand[s], {"close"})
      /\ "cancel" = "close" => Has(strand[s], {"close"})
      /\ Doomed(s) => queueEmpty[s]
  BY <1>1, Finished
<1>4. /\ Sided(queueEmpty', queueEmpty, s) /\ (queueEmpty[s] => queueEmpty'[s])
      /\ queueEmpty'[s] = queueEmpty[s] \/ (queueEmpty'[s] = TRUE /\ Items(queue[s]) = <<>>)
  <2> DEFINE c == IsEmpty(queue[s])
  <2>1. c \in BOOLEAN /\ GiveUpIf(s, c) /\ (c <=> Items(queue[s]) = <<>>)
    BY <1>1, <1>2, QueueHolds DEF IsEmpty
  <2> HIDE DEF c
  <2> QED
    BY <2>1, MayGiveUp
<1>5. SideOK(conn, status[s], available[s], Items(queue[s]), queueEmpty[s], strand'[s], io[s],
             answers[s], late[s], moved[s])
  BY <1>2, <1>3, PlainDone DEF SideInv, Ends
<1>6. SideOK(conn, status'[s], available[s], Items(queue[s]), queueEmpty[s], strand'[s], io[s],
             answers[s], late[s], moved[s])
  BY <1>2, <1>5, StopSide
<1>7. SideOK(conn, status'[s], available[s], Items(queue[s]), queueEmpty'[s], strand'[s], io[s],
             answers[s], late[s], moved[s])
  BY <1>4, <1>6, GiveUpSide
<1>8. SideInv(s)' /\ OnlySide(s)
  BY <1>1, <1>2, <1>3, <1>4, <1>7 DEF SideInv, OnlySide, openVars
<1>9. CrashOK' /\ (Doomed(s) => Doomed(s)')
  BY <1>1, <1>3, <1>4, GoesOn DEF Doomed
<1> QED
  BY <1>1, <1>2, <1>3, <1>4, <1>8, <1>9, SideStep

(* The connection string is through: a client's sends begin.                *)
LEMMA ConnStringSentKeeps == ASSUME IInv, ConnStringSent PROVE IInv'
<1> DEFINE s == "send"
<1>0. s \in Side
  BY DEF Side
<1>1. /\ Runs(s, "sent") /\ Finish(s)
      /\ UNCHANGED <<openVars, status, queue, answers, late, moved, user, closer>>
      /\ GiveUpIf(s, IsEmpty(queue[s]) /\ status[s] = "Stopped")
      /\ \/ IsEmpty(queue[s]) /\ available' = [available EXCEPT ![s] = TRUE] /\ UNCHANGED <<io, crash>>
         \/ ~IsEmpty(queue[s]) /\ Perform(s, TRUE, queue[s])
  BY DEF ConnStringSent, PerformIfAny
<1> HIDE DEF s
<1>2. /\ SideInv(s) /\ IsQueue(queue[s]) /\ Shape /\ available[s] \in BOOLEAN
      /\ Sided(status', status, s) /\ Sided(queue', queue, s)
      /\ Sided(answers', answers, s) /\ Sided(late', late, s) /\ Sided(moved', moved, s)
  BY <1>0, <1>1, Before
<1>3. /\ Sided(strand', strand, s) /\ strand'[s] = Tail(strand[s])
      /\ strand[s] # <<>> /\ Head(strand[s]) = "sent" /\ crash = "none"
      /\ Has(strand'[s], {"open"}) <=> Has(strand[s], {"open"})
      /\ Has(strand'[s], {"close"}) => Has(strand[s], {"close"})
      /\ Doomed(s) => queueEmpty[s]
  BY <1>0, <1>1, Finished
<1>4. SideOK(conn, status[s], TRUE, Items(queue[s]), queueEmpty[s], strand'[s], io[s],
             answers[s], late[s], moved[s])
  <2>1. SideOK(conn, status[s], available[s], Items(queue[s]), queueEmpty[s], strand[s], io[s],
               answers[s], late[s], moved[s])
    BY <1>2 DEF SideInv
  <2>2. SideOK(conn, status[s], TRUE, Items(queue[s]), queueEmpty[s], Tail(strand[s]), io[s],
               answers[s], late[s], moved[s])
    BY <1>3, <2>1, SentDone
  <2> QED
    BY <1>3, <2>2
<1>5. /\ Sided(available', available, s) /\ Sided(io', io, s)
      /\ SideOK(conn, status[s], available'[s], Items(queue[s]), queueEmpty[s], strand'[s], io'[s],
                answers[s], late[s], moved[s])
      /\ crash' = "none" \/ (crash' = "no socket" /\ handle = "reset" /\ Items(queue[s]) # <<>>)
  BY <1>0, <1>1, <1>2, <1>3, <1>4, StartsOrFree
<1>6. /\ Sided(queueEmpty', queueEmpty, s) /\ (queueEmpty[s] => queueEmpty'[s])
      /\ queueEmpty'[s] = queueEmpty[s] \/ (queueEmpty'[s] = TRUE /\ Items(queue[s]) = <<>>)
  <2> DEFINE c == IsEmpty(queue[s]) /\ status[s] = "Stopped"
  <2>1. c \in BOOLEAN /\ GiveUpIf(s, c) /\ (c => IsEmpty(queue[s]))
    BY <1>1
  <2> HIDE DEF c
  <2> QED
    BY <1>0, <1>2, <2>1, MayGiveUp, QueueHolds
<1>7. SideOK(conn, status[s], available'[s], Items(queue[s]), queueEmpty'[s], strand'[s], io'[s],
             answers[s], late[s], moved[s])
  BY <1>5, <1>6, GiveUpSide
<1>8. SideInv(s)' /\ OnlySide(s)
  BY <1>1, <1>2, <1>3, <1>5, <1>6, <1>7 DEF SideInv, OnlySide, openVars
<1>9. CrashOK'
  <2>1. queue'[s] = queue[s]
    BY <1>1
  <2> QED
    BY <1>0, <1>2, <1>5, <1>6, <1>8, <2>1, GoesOn, OnlyLateCrash
<1>10. Doomed(s) => Doomed(s)'
  BY <1>3, <1>6 DEF Doomed
<1> QED
  BY <1>0, <1>1, <1>2, <1>3, <1>6, <1>8, <1>9, <1>10, SideStep

-----------------------------------------------------------------------------
(* The completions of the socket.                                           *)

(* What the socket works on is of the right shape, and unanswered.          *)
LEMMA Working ==
  ASSUME IInv, NEW s \in Side, io[s].phase # "idle"
  PROVE  /\ SideOK(conn, status[s], available[s], Items(queue[s]), queueEmpty[s], strand[s], io[s],
                   answers[s], late[s], moved[s])
         /\ io[s].op \in Op /\ strand[s] \in Seq(Handlers)
         /\ io[s].phase # "parked" => ~Answered(s, io[s].op)
<1> DEFINE w == Items(queue[s])
           x == io[s].op
<1>1. SideOK(conn, status[s], available[s], w, queueEmpty[s], strand[s], io[s],
             answers[s], late[s], moved[s])
  BY DEF IInv, SideInv
<1> HIDE DEF w
<1>2. w \in Seq(Op) /\ strand[s] \in Seq(Handlers)
  BY <1>1 DEF SideOK, Typed
<1>3. CASE x = ConnString /\ io[s].phase = "data"
  BY <1>1, <1>2, <1>3 DEF ConnString, Op, Answered, w
<1>4. CASE w # <<>> /\ x = Head(w)
  <2>1. x \in Op /\ 1 \in DOMAIN w /\ x = w[1]
    BY <1>2, <1>4, QueueTail
  <2>2. ASSUME Answered(s, x), io[s].phase # "parked" PROVE FALSE
    <3>1. x[2] = "promise" /\ answers[s][x[1]] # "none"
      BY <2>2 DEF Answered
    <3> QED
      BY <1>1, <2>1, <2>2, <3>1 DEF SideOK, FirstAnswered
  <2> QED
    BY <1>1, <1>2, <2>1, <2>2 DEF w
<1> QED
  BY <1>1, <1>3, <1>4 DEF SideOK, ForTheFirst

(* A step of the socket on side s, which may post a handler.                *)
LEMMA SocketStep ==
  ASSUME IInv, NEW s \in Side, crash' = "none",
         UNCHANGED <<openVars, status, available, queue, queueEmpty, late, user, closer>>,
         Sided(io', io, s), Sided(answers', answers, s), Sided(moved', moved, s),
         Len(answers'[s]) = Len(answers[s]),
         strand' = strand \/ \E h \in {"complete", "sent", "fatal"} : Post(s, h),
         SideOK(conn, status[s], available[s], Items(queue[s]), queueEmpty[s], strand'[s], io'[s],
                answers'[s], late[s], moved'[s])
  PROVE  IInv'
<1>1. /\ SideInv(s) /\ IsQueue(queue[s]) /\ strand[s] \in Seq(Handlers)
      /\ Sided(status', status, s) /\ Sided(available', available, s) /\ Sided(queue', queue, s)
      /\ Sided(queueEmpty', queueEmpty, s) /\ Sided(late', late, s)
  BY Before
<1>2. /\ Sided(strand', strand, s)
      /\ Has(strand'[s], {"open"}) <=> Has(strand[s], {"open"})
      /\ Has(strand'[s], {"close"}) <=> Has(strand[s], {"close"})
      /\ strand[s] # <<>> => strand'[s] # <<>> /\ Head(strand'[s]) = Head(strand[s])
  <2>1. CASE strand' = strand
    BY <2>1, Before
  <2>2. ASSUME NEW h \in {"complete", "sent", "fatal"}, Post(s, h)
        PROVE  /\ Sided(strand', strand, s)
               /\ Has(strand'[s], {"open"}) <=> Has(strand[s], {"open"})
               /\ Has(strand'[s], {"close"}) <=> Has(strand[s], {"close"})
               /\ strand[s] # <<>> => strand'[s] # <<>> /\ Head(strand'[s]) = Head(strand[s])
    <3>1. strand' = [strand EXCEPT ![s] = Append(strand[s], h)]
      BY <2>2 DEF Post
    <3>2. Sided(strand', strand, s) /\ strand'[s] = Append(strand[s], h)
      BY <3>1, Before
    <3>3. h \in Handlers
      BY DEF Handlers
    <3>4. /\ \A C : Has(strand'[s], C) <=> h \in C \/ Has(strand[s], C)
          /\ strand'[s] # <<>> /\ (strand[s] # <<>> => Head(strand'[s]) = Head(strand[s]))
      BY <1>1, <3>2, <3>3, StrandAppend
    <3> QED
      BY <3>2, <3>4
  <2> QED
    BY <2>1, <2>2
<1>3. SideInv(s)' /\ OnlySide(s)
  BY <1>1, <1>2 DEF SideInv, OnlySide, openVars
<1>4. CrashOK' /\ (Doomed(s) => Doomed(s)')
  BY <1>2, GoesOn DEF Doomed
<1> QED
  BY <1>1, <1>2, <1>3, <1>4, SideStep

LEMMA HeaderFitsKeeps == ASSUME IInv, HeaderFits PROVE IInv'
<1> DEFINE s == "recv"
<1>1. s \in Side
  BY DEF Side
<1>2. /\ io[s].phase = "header" /\ crash = "none" /\ io' = [io EXCEPT ![s].phase = "body"]
      /\ UNCHANGED <<openVars, status, available, queue, queueEmpty, strand, answers, late, moved, user, closer, crash>>
  BY DEF HeaderFits, Running
<1> HIDE DEF s
<1> DEFINE j == [io[s] EXCEPT !.phase = "body"]
<1>3. io' = [io EXCEPT ![s] = j]
  BY <1>2
<1>4. SideOK(conn, status[s], available[s], Items(queue[s]), queueEmpty[s], strand[s], j,
             answers[s], late[s], moved[s])
  BY <1>1, <1>2, Working, HeaderRead
<1> HIDE DEF j
<1>5. /\ Sided(io', io, s) /\ io'[s] = j /\ Sided(answers', answers, s) /\ Sided(moved', moved, s)
      /\ answers'[s] = answers[s] /\ moved'[s] = moved[s] /\ strand'[s] = strand[s]
  <2>1. Sided(io', io, s) /\ io'[s] = j
    BY <1>1, <1>3, Before
  <2>2. answers' = answers /\ moved' = moved /\ strand' = strand
    BY <1>2
  <2>3. Sided(answers', answers, s) /\ Sided(moved', moved, s)
    BY <1>1, <2>2, Before
  <2> QED
    BY <2>1, <2>2, <2>3
<1> QED
  BY <1>1, <1>2, <1>4, <1>5, SocketStep

LEMMA HeaderMisfitsKeeps == ASSUME IInv, HeaderMisfits PROVE IInv'
<1> DEFINE s == "recv"
<1>1. s \in Side
  BY DEF Side
<1>2. /\ io[s].phase = "header" /\ crash = "none" /\ io' = [io EXCEPT ![s].phase = "parked"]
      /\ Answer(s, io[s].op, "exception")
      /\ UNCHANGED <<openVars, status, available, queue, queueEmpty, strand, late, moved, user, closer>>
  BY DEF HeaderMisfits, Running
<1> HIDE DEF s
<1> DEFINE j == [io[s] EXCEPT !.phase = "parked"]
<1>3. io' = [io EXCEPT ![s] = j]
  BY <1>2
<1>4. io[s].op \in Op /\ ~Answered(s, io[s].op) /\ "exception" \in Answers
  BY <1>1, <1>2, Working DEF Answers
<1>5. /\ crash' = "none" /\ Sided(answers', answers, s) /\ Len(answers'[s]) = Len(answers[s])
      /\ AnswersOnly(answers[s], answers'[s], io[s].op[1], "exception")
  BY <1>1, <1>2, <1>4, AnswerGiven
<1>6. SideOK(conn, status[s], available[s], Items(queue[s]), queueEmpty[s], strand[s], j,
             answers'[s], late[s], moved[s])
  <2>1. SideOK(conn, status[s], available[s], Items(queue[s]), queueEmpty[s], strand[s], io[s],
               answers[s], late[s], moved[s])
    BY <1>1, <1>2, Working
  <2> QED
    BY <1>2, <1>5, <2>1, OperationParked
<1> HIDE DEF j
<1>7. /\ Sided(io', io, s) /\ io'[s] = j /\ Sided(moved', moved, s)
      /\ moved'[s] = moved[s] /\ strand'[s] = strand[s]
  <2>1. Sided(io', io, s) /\ io'[s] = j
    BY <1>1, <1>3, Before
  <2>2. moved' = moved /\ strand' = strand
    BY <1>2
  <2>3. Sided(moved', moved, s)
    BY <1>1, <2>2, Before
  <2> QED
    BY <2>1, <2>2, <2>3
<1> QED
  BY <1>1, <1>2, <1>5, <1>6, <1>7, SocketStep

LEMMA TransferSucceedsKeeps == ASSUME IInv, NEW s \in Side, TransferSucceeds(s) PROVE IInv'
<1> DEFINE x == io[s].op
<1>1. /\ io[s].phase \in {"data", "body"} /\ crash = "none" /\ io' = [io EXCEPT ![s] = NoIo]
      /\ Answer(s, x, "value")
      /\ UNCHANGED <<openVars, status, available, queue, queueEmpty, late, user, closer>>
  BY DEF TransferSucceeds, Running
<1>2. /\ x \in Op /\ ~Answered(s, x) /\ "value" \in Answers /\ strand[s] \in Seq(Handlers)
      /\ SideOK(conn, status[s], available[s], Items(queue[s]), queueEmpty[s], strand[s], io[s],
                answers[s], late[s], moved[s])
  BY <1>1, Working DEF Answers
<1>3. /\ crash' = "none" /\ Sided(answers', answers, s) /\ Len(answers'[s]) = Len(answers[s])
      /\ AnswersOnly(answers[s], answers'[s], x[1], "value")
      /\ x[2] = "plain" => answers'[s] = answers[s]
  BY <1>1, <1>2, AnswerGiven
<1>4. Sided(io', io, s) /\ io'[s] = NoIo
  BY <1>1, Before
<1>5. CASE x = ConnString
  <2>1. Post(s, "sent") /\ moved' = moved
    BY <1>5 DEF TransferSucceeds
  <2>2. strand'[s] = Append(strand[s], "sent") /\ Sided(moved', moved, s) /\ answers'[s] = answers[s]
    <3>1. strand' = [strand EXCEPT ![s] = Append(strand[s], "sent")]
      BY <2>1 DEF Post
    <3>2. strand'[s] = Append(strand[s], "sent") /\ Sided(moved', moved, s)
      BY <2>1, <3>1, Before
    <3>3. x[2] = "plain"
      BY <1>5 DEF ConnString
    <3> HIDE DEF x
    <3> QED
      BY <1>3, <3>2, <3>3
  <2>3. io[s].phase = "data"
    BY <1>1, <1>2, <1>5, UnderWayIsFirst
  <2>4. SideOK(conn, status[s], available[s], Items(queue[s]), queueEmpty[s], Append(strand[s], "sent"), NoIo,
               answers[s], late[s], moved[s])
    BY <1>2, <1>5, <2>3, StringSent
  <2> QED
    BY <1>1, <1>3, <1>4, <2>1, <2>2, <2>4, SocketStep
<1>6. CASE x # ConnString
  <2>1. Post(s, "complete") /\ moved' = [moved EXCEPT ![s] = Append(moved[s], x)]
    BY <1>6 DEF TransferSucceeds, Moved
  <2>2. /\ strand'[s] = Append(strand[s], "complete") /\ Sided(moved', moved, s)
        /\ moved'[s] = Append(moved[s], x)
    BY <2>1, Before DEF Post
  <2>3. SideOK(conn, status[s], available[s], Items(queue[s]), queueEmpty[s], Append(strand[s], "complete"), NoIo,
               answers'[s], late[s], Append(moved[s], x))
    BY <1>1, <1>2, <1>3, <1>6, OperationMoved
  <2> QED
    BY <1>1, <1>3, <1>4, <2>1, <2>2, <2>3, SocketStep
<1> QED
  BY <1>5, <1>6

LEMMA TransferFailsKeeps == ASSUME IInv, NEW s \in Side, TransferFails(s) PROVE IInv'
<1> DEFINE x == io[s].op
<1>1. /\ io[s].phase \in {"header", "body", "data"} /\ crash = "none" /\ io' = [io EXCEPT ![s] = NoIo]
      /\ Post(s, "fatal")
      /\ UNCHANGED <<openVars, status, available, queue, queueEmpty, late, moved, user, closer>>
  BY DEF TransferFails, Running, UnderWay
<1>2. /\ x \in Op /\ ~Answered(s, x) /\ "exception" \in Answers /\ strand[s] \in Seq(Handlers)
      /\ SideOK(conn, status[s], available[s], Items(queue[s]), queueEmpty[s], strand[s], io[s],
                answers[s], late[s], moved[s])
  BY <1>1, Working DEF Answers
<1>3. /\ crash' = "none" /\ Sided(answers', answers, s) /\ Len(answers'[s]) = Len(answers[s])
      /\ AnswersOnly(answers[s], answers'[s], x[1], "exception")
      /\ x[2] = "plain" => answers'[s] = answers[s]
  <2>1. CASE s = "send"
    <3>1. Answer(s, x, "exception")
      BY <2>1 DEF TransferFails
    <3> QED
      BY <1>1, <1>2, <3>1, AnswerGiven
  <2>2. CASE s # "send"
    <3>1. answers' = answers /\ crash' = crash
      BY <2>2 DEF TransferFails
    <3> QED
      BY <1>1, <3>1, Before DEF AnswersOnly
  <2> QED
    BY <2>1, <2>2
<1>4. Sided(io', io, s) /\ io'[s] = NoIo /\ Sided(moved', moved, s) /\ moved'[s] = moved[s]
  BY <1>1, Before
<1>5. strand'[s] = Append(strand[s], "fatal")
  BY <1>1, Before DEF Post
<1>6. x = ConnString => answers'[s] = answers[s]
  BY <1>3 DEF ConnString
<1>7. SideOK(conn, status[s], available[s], Items(queue[s]), queueEmpty[s], Append(strand[s], "fatal"), NoIo,
             answers'[s], late[s], moved[s])
  BY <1>1, <1>2, <1>3, <1>6, OperationFailed
<1> QED
  BY <1>1, <1>3, <1>4, <1>5, <1>7, SocketStep

LEMMA RescheduleKeeps == ASSUME IInv, Reschedule PROVE IInv'
<1> DEFINE s == "recv"
           x == io[s].op
<1>1. s \in Side
  BY DEF Side
<1>2. /\ io[s].phase = "parked" /\ crash = "none" /\ io' = [io EXCEPT ![s] = NoIo]
      /\ \/ Post(s, "complete") /\ moved' = [moved EXCEPT ![s] = Append(moved[s], x)]
         \/ Post(s, "fatal") /\ moved' = moved
      /\ UNCHANGED <<openVars, status, available, queue, queueEmpty, answers, late, user, closer, crash>>
  BY DEF Reschedule, Running, Moved
<1> HIDE DEF s
<1>3. /\ strand[s] \in Seq(Handlers)
      /\ SideOK(conn, status[s], available[s], Items(queue[s]), queueEmpty[s], strand[s], io[s],
                answers[s], late[s], moved[s])
  BY <1>1, <1>2, Working
<1>4. Sided(io', io, s) /\ io'[s] = NoIo /\ Sided(answers', answers, s) /\ answers'[s] = answers[s]
  BY <1>1, <1>2, Before
<1>5. /\ x # ConnString /\ AnswersOnly(answers[s], answers[s], x[1], "value")
      /\ AnswersOnly(answers[s], answers[s], x[1], "exception")
  BY <1>1, <1>2, <1>3, UnderWayIsFirst, Before DEF AnswersOnly
<1>6. CASE Post(s, "complete") /\ moved' = [moved EXCEPT ![s] = Append(moved[s], x)]
  <2>1. /\ strand'[s] = Append(strand[s], "complete") /\ Sided(moved', moved, s)
        /\ moved'[s] = Append(moved[s], x)
    BY <1>1, <1>6, Before DEF Post
  <2>2. SideOK(conn, status[s], available[s], Items(queue[s]), queueEmpty[s], Append(strand[s], "complete"), NoIo,
               answers[s], late[s], Append(moved[s], x))
    BY <1>2, <1>3, <1>5, OperationMoved
  <2> QED
    BY <1>1, <1>2, <1>4, <1>6, <2>1, <2>2, SocketStep
<1>7. CASE Post(s, "fatal") /\ moved' = moved
  <2>1. strand'[s] = Append(strand[s], "fatal") /\ Sided(moved', moved, s)
    BY <1>1, <1>7, Before DEF Post
  <2>2. SideOK(conn, status[s], available[s], Items(queue[s]), queueEmpty[s], Append(strand[s], "fatal"), NoIo,
               answers[s], late[s], moved[s])
    BY <1>2, <1>3, <1>5, OperationFailed
  <2> QED
    BY <1>1, <1>2, <1>4, <1>7, <2>1, <2>2, SocketStep
<1> QED
  BY <1>2, <1>6, <1>7

-----------------------------------------------------------------------------
(* Opening, pushing, and the steps of the other threads.                    *)

(* What a step of one side leaves true, whoever opens or calls.             *)
LEMMA OneSide ==
  ASSUME IInv, NEW s \in Side, OnlySide(s), UNCHANGED <<role, load, conn, handle, acceptor, closer>>,
         openCount' \in 0..2, openProm' \in {"none", "value", "exception"},
         IsQueue(queue'[s]), SideInv(s)', status'[s] = status[s], queueEmpty'[s] = queueEmpty[s],
         Has(strand'[s], {"close"}) => Has(strand[s], {"close"}), Doomed(s) => Doomed(s)'
  PROVE  /\ Shape' /\ ClosingOK' /\ (\A t \in Side : SideInv(t)') /\ (Stopped => Stopped')
         /\ \A t \in Side : t # s => strand'[t] = strand[t] /\ answers'[t] = answers[t]
<1>1. /\ Shape /\ ClosingOK /\ \A t \in Side : SideInv(t)
      /\ conn' = conn /\ role' = role /\ load' = load /\ handle' = handle
      /\ acceptor' = acceptor /\ closer' = closer
  BY DEF IInv
<1>2. /\ \A t \in Side : SideInv(t)'
      /\ \A t \in Side : t # s =>
           /\ status'[t] = status[t] /\ queueEmpty'[t] = queueEmpty[t]
           /\ strand'[t] = strand[t] /\ answers'[t] = answers[t]
      /\ PerSide(status') /\ PerSide(available') /\ PerSide(queue') /\ PerSide(queueEmpty')
      /\ PerSide(strand') /\ PerSide(io') /\ PerSide(answers') /\ PerSide(late') /\ PerSide(moved')
      /\ \A t \in Side : IsQueue(queue'[t])
  BY <1>1, OtherSides
<1>3. Shape'
  BY <1>1, <1>2 DEF Shape
<1>4. ASSUME NEW t \in Side
      PROVE  /\ Has(strand'[t], {"close"}) => Has(strand[t], {"close"})
             /\ queueEmpty'[t] = queueEmpty[t] /\ status'[t] = status[t]
             /\ Doomed(t) => Doomed(t)'
  <2>1. CASE t = s
    BY <2>1
  <2>2. CASE t # s
    <3>1. status'[t] = status[t] /\ queueEmpty'[t] = queueEmpty[t] /\ strand'[t] = strand[t]
      BY <1>2, <2>2
    <3> QED
      BY <3>1 DEF Doomed
  <2> QED
    BY <2>1, <2>2
<1>5. ClosingOK'
  <2>1. "send" \in Side
    BY DEF Side
  <2> QED
    BY <1>1, <1>4, <2>1 DEF ClosingOK
<1> QED
  BY <1>2, <1>3, <1>4, <1>5 DEF Stopped

LEMMA OpenSideKeeps == ASSUME IInv, NEW s \in Side, OpenSide(s) PROVE IInv'
<1>1. /\ Runs(s, "open") /\ Finish(s) /\ openCount' = openCount + 1
      /\ openProm' = IF openCount = 1 THEN "value" ELSE openProm
      /\ UNCHANGED <<role, load, conn, handle, acceptor, status, queue, queueEmpty, answers, late, moved, user, closer>>
  BY DEF OpenSide
<1>2. /\ SideInv(s) /\ IsQueue(queue[s]) /\ Shape /\ OpenOnce /\ UserOK
      /\ available[s] \in BOOLEAN /\ strand[s] \in Seq(Handlers)
      /\ Sided(status', status, s) /\ Sided(queue', queue, s) /\ Sided(queueEmpty', queueEmpty, s)
      /\ Sided(answers', answers, s) /\ Sided(late', late, s) /\ Sided(moved', moved, s)
  BY <1>1, Before DEF IInv
<1>3. /\ Sided(strand', strand, s) /\ strand'[s] = Tail(strand[s])
      /\ strand[s] # <<>> /\ Head(strand[s]) = "open" /\ crash = "none"
      /\ Has(strand'[s], {"close"}) => Has(strand[s], {"close"})
      /\ Doomed(s) => queueEmpty[s]
  BY <1>1, Finished
<1>4. SideOK(conn, status[s], available[s], Items(queue[s]), queueEmpty[s], strand[s], io[s],
             answers[s], late[s], moved[s])
  BY <1>2 DEF SideInv
<1>5. /\ conn = "open" /\ Has(strand[s], {"open"}) /\ ~Has(strand'[s], {"open"})
      /\ SideOK(conn, status[s], TRUE, Items(queue[s]), queueEmpty[s], strand'[s], io[s],
                answers[s], late[s], moved[s])
  <2>1. Has(strand[s], {"open"})
    BY <1>2, <1>3, HasTail
  <2>2. /\ conn = "open" /\ ~Has(Tail(strand[s]), {"open"})
        /\ SideOK(conn, status[s], TRUE, Items(queue[s]), queueEmpty[s], Tail(strand[s]), io[s],
                  answers[s], late[s], moved[s])
    BY <1>3, <1>4, OpenDone
  <2> QED
    BY <1>3, <2>1, <2>2
<1>6. /\ Sided(available', available, s) /\ Sided(io', io, s)
      /\ SideOK(conn, status[s], available'[s], Items(queue[s]), queueEmpty[s], strand'[s], io'[s],
                answers[s], late[s], moved[s])
      /\ crash' = "none" \/ (crash' = "no socket" /\ handle = "reset" /\ Items(queue[s]) # <<>>)
  <2>1. CASE role = "client" /\ s = "send"
    <3> DEFINE j == [op |-> ConnString, phase |-> "data"]
    <3>1. SideOK(conn, status[s], available[s], Items(queue[s]), queueEmpty[s], Tail(strand[s]), j,
                 answers[s], late[s], moved[s])
      BY <1>3, <1>4, OpenSends
    <3>2. io' = [io EXCEPT ![s] = j] /\ available' = available /\ crash' = crash
      BY <2>1 DEF OpenSide
    <3> HIDE DEF j
    <3>3. Sided(io', io, s) /\ io'[s] = j /\ Sided(available', available, s) /\ available'[s] = available[s]
      BY <3>2, Before
    <3> QED
      BY <1>3, <3>1, <3>2, <3>3
  <2>2. CASE ~(role = "client" /\ s = "send")
    <3>1. PerformIfAny(s)
      BY <2>2 DEF OpenSide
    <3>2. \/ IsEmpty(queue[s]) /\ available' = [available EXCEPT ![s] = TRUE] /\ UNCHANGED <<io, crash>>
          \/ ~IsEmpty(queue[s]) /\ Perform(s, TRUE, queue[s])
      BY <3>1 DEF PerformIfAny
    <3> QED
      BY <1>2, <1>3, <1>5, <3>2, StartsOrFree
  <2> QED
    BY <2>1, <2>2
<1>7. SideInv(s)' /\ OnlySide(s)
  BY <1>1, <1>2, <1>3, <1>6 DEF SideInv, OnlySide
<1>8. CrashOK'
  <2>1. queue'[s] = queue[s] /\ queueEmpty'[s] = queueEmpty[s]
    BY <1>1
  <2> QED
    BY <1>6, <1>7, <2>1, GoesOn, OnlyLateCrash
<1>9. /\ role # "given" /\ openCount + Waits("send") + Waits("recv") = 2 /\ Waits(s) = 1
      /\ openCount \in 0..2 /\ openProm \in {"none", "value"}
  BY <1>2, <1>5 DEF OpenOnce, Waits, Shape
<1>10. openCount' \in 0..2 /\ openProm' \in {"none", "value"}
  <2>1. Waits("send") \in {0, 1} /\ Waits("recv") \in {0, 1}
    BY DEF Waits
  <2> QED
    BY <1>1, <1>9, <2>1 DEF Side
<1>11. /\ Shape' /\ ClosingOK' /\ (\A t \in Side : SideInv(t)') /\ (Stopped => Stopped')
       /\ \A t \in Side : t # s => strand'[t] = strand[t] /\ answers'[t] = answers[t]
  <2>1. Doomed(s) => Doomed(s)'
    BY <1>1, <1>3 DEF Doomed
  <2>2. openProm' \in {"none", "value", "exception"} /\ IsQueue(queue'[s])
    BY <1>1, <1>2, <1>10
  <2>3. status'[s] = status[s] /\ queueEmpty'[s] = queueEmpty[s]
    BY <1>1
  <2> QED
    BY <1>1, <1>3, <1>7, <1>10, <2>1, <2>2, <2>3, OneSide
<1>12. OpenOnce'
  <2>1. openCount' + Waits("send")' + Waits("recv")' = 2
    <3>1. Waits(s)' = 0
      BY <1>5 DEF Waits
    <3>2. \A t \in Side : t # s => Waits(t)' = Waits(t)
      BY <1>11 DEF Waits
    <3>3. Waits("send") \in {0, 1} /\ Waits("recv") \in {0, 1}
      BY DEF Waits
    <3> QED
      BY <1>1, <1>9, <3>1, <3>2, <3>3 DEF Side
  <2>2. conn' = "open" /\ role' # "given" /\ openProm' # "exception" /\ acceptor' = acceptor
    BY <1>1, <1>5, <1>9, <1>10
  <2>3. acceptor = "asked" => Stopped'
    BY <1>2, <1>11 DEF OpenOnce
  <2> QED
    BY <2>1, <2>2, <2>3 DEF OpenOnce
<1>13. UserOK'
  <2>1. user' = user /\ answers' = answers /\ load' = load
    BY <1>1
  <2> QED
    BY <1>2, <2>1 DEF UserOK
<1> QED
  BY <1>8, <1>11, <1>12, <1>13 DEF IInv

LEMMA PushKeeps == ASSUME IInv, Push PROVE IInv'
<1>1. user \in Users /\ user[1] = "checked" /\ UserOK /\ OpenOnce /\ crash = "none"
  BY DEF IInv, UserOK, Push, Running
<1>2. PICK s \in Side, x \in Op : s = user[2] /\ x = user[3] /\ x[1] = Len(answers[s]) + 1
  BY <1>1 DEF UserOK, Users
<1>3. /\ queue' = [queue EXCEPT ![s] = PushBack(queue[s], x)]
      /\ answers' = [answers EXCEPT ![s] = Append(answers[s], "none")]
      /\ late' = [late EXCEPT ![s] = IF queueEmpty[s] THEN late[s] \cup {x} ELSE late[s]]
      /\ strand' = [strand EXCEPT ![s] = Append(strand[s], "kick")]
      /\ user' = <<"waiting", s, x>> \/ user' = <<"idle">>
      /\ UNCHANGED <<openVars, status, available, queueEmpty, io, moved, closer, crash>>
  BY <1>2 DEF Push, Post
<1>4. /\ SideInv(s) /\ IsQueue(queue[s]) /\ strand[s] \in Seq(Handlers) /\ Shape
      /\ Sided(status', status, s) /\ Sided(available', available, s) /\ Sided(queueEmpty', queueEmpty, s)
      /\ Sided(io', io, s) /\ Sided(moved', moved, s)
      /\ Sided(queue', queue, s) /\ queue'[s] = PushBack(queue[s], x)
      /\ Sided(answers', answers, s) /\ answers'[s] = Append(answers[s], "none")
      /\ Sided(strand', strand, s) /\ strand'[s] = Append(strand[s], "kick")
  BY <1>2, <1>3, Before, ZenonT(30)
<1>5. /\ Sided(late', late, s)
      /\ late'[s] = IF queueEmpty[s] THEN late[s] \cup {x} ELSE late[s]
  <2> DEFINE v == IF queueEmpty[s] THEN late[s] \cup {x} ELSE late[s]
  <2>1. PerSide(late) /\ late' = [late EXCEPT ![s] = v]
    BY <1>3, <1>4 DEF Shape
  <2> HIDE DEF v
  <2>2. Sided([late EXCEPT ![s] = v], late, s) /\ [late EXCEPT ![s] = v][s] = v
    BY <2>1, SidedExcept
  <2>3. Sided(late', late, s) /\ late'[s] = v
    BY <2>1, <2>2
  <2> QED
    BY <2>3 DEF v
<1>6. IsQueue(queue'[s]) /\ Items(queue'[s]) = Append(Items(queue[s]), x)
  BY <1>2, <1>4, PushAppends
<1>7. SideOK(conn, status[s], available[s], Append(Items(queue[s]), x), queueEmpty[s], strand[s], io[s],
             answers'[s], late'[s], moved[s])
  <2> DEFINE w == Items(queue[s])
             an == answers[s]
             lt == late[s]
             qe == queueEmpty[s]
  <2>1. SideOK(conn, status[s], available[s], w, qe, strand[s], io[s], an, lt, moved[s])
    BY <1>4 DEF SideInv
  <2>2. x \in Op /\ x[1] = Len(an) + 1
    BY <1>2
  <2> HIDE DEF w, an, lt, qe
  <2>3. SideOK(conn, status[s], available[s], Append(w, x), qe, strand[s], io[s], Append(an, "none"),
               IF qe THEN lt \cup {x} ELSE lt, moved[s])
    BY <2>1, <2>2, OperationPushed
  <2> QED
    BY <1>4, <1>5, <2>3 DEF w, an, lt, qe
<1>8. SideOK(conn, status[s], available[s], Items(queue'[s]), queueEmpty[s], strand'[s], io[s],
             answers'[s], late'[s], moved[s])
  <2> DEFINE v == Append(Items(queue[s]), x)
  <2>1. /\ Items(queue'[s]) = v /\ strand'[s] = Append(strand[s], "kick")
        /\ SideOK(conn, status[s], available[s], v, queueEmpty[s], strand[s], io[s],
                  answers'[s], late'[s], moved[s])
    BY <1>4, <1>6, <1>7
  <2> HIDE DEF v
  <2>2. SideOK(conn, status[s], available[s], v, queueEmpty[s], Append(strand[s], "kick"), io[s],
               answers'[s], late'[s], moved[s])
    BY <2>1, PlainPosted
  <2> QED
    BY <2>1, <2>2
<1>9. /\ UNCHANGED <<role, load, conn, handle, acceptor, closer>>
      /\ openCount' = openCount /\ openProm' = openProm /\ crash' = "none"
      /\ status'[s] = status[s] /\ available'[s] = available[s] /\ queueEmpty'[s] = queueEmpty[s]
      /\ io'[s] = io[s] /\ moved'[s] = moved[s]
  BY <1>1, <1>3 DEF openVars
<1>10. SideInv(s)' /\ OnlySide(s)
  <2>1. OnlySide(s)
    BY <1>4, <1>5 DEF OnlySide
  <2>2. SideInv(s)'
    BY <1>8, <1>9 DEF SideInv
  <2> QED
    BY <2>1, <2>2
<1>11. /\ Has(strand'[s], {"close"}) <=> Has(strand[s], {"close"})
       /\ Has(strand'[s], {"open"}) <=> Has(strand[s], {"open"})
       /\ strand[s] # <<>> => strand'[s] # <<>> /\ Head(strand'[s]) = Head(strand[s])
  <2>1. "kick" \in Handlers
    BY DEF Handlers
  <2>2. /\ \A C : Has(strand'[s], C) <=> "kick" \in C \/ Has(strand[s], C)
        /\ strand'[s] # <<>> /\ (strand[s] # <<>> => Head(strand'[s]) = Head(strand[s]))
    BY <1>4, <2>1, StrandAppend
  <2> QED
    BY <2>2
<1>12. /\ Shape' /\ ClosingOK' /\ (\A t \in Side : SideInv(t)') /\ (Stopped => Stopped')
       /\ \A t \in Side : t # s => strand'[t] = strand[t] /\ answers'[t] = answers[t]
  <2>1. Doomed(s) => Doomed(s)'
    BY <1>9, <1>11 DEF Doomed
  <2>2. openCount' \in 0..2 /\ openProm' \in {"none", "value", "exception"}
    BY <1>4, <1>9 DEF Shape
  <2> QED
    BY <1>2, <1>6, <1>9, <1>11, <1>10, <2>1, <2>2, OneSide
<1>13. OpenOnce'
  <2>1. \A t \in Side : Has(strand'[t], {"open"}) <=> Has(strand[t], {"open"})
    BY <1>11, <1>12
  <2>2. Waits("send")' = Waits("send") /\ Waits("recv")' = Waits("recv")
    BY <2>1 DEF Waits, Side
  <2> QED
    BY <1>1, <1>9, <1>12, <2>1, <2>2 DEF OpenOnce
<1>14. UserOK'
  BY <1>2, <1>3 DEF UserOK, Users
<1>15. CrashOK'
  BY <1>9, GoesOn
<1> QED
  BY <1>12, <1>13, <1>14, <1>15 DEF IInv

(* What stays true on both sides when each gets one more handler.           *)
LEMMA PostedOnBoth ==
  ASSUME IInv, NEW h \in Handlers, h # "close",
         strand' = [s \in Side |-> Append(strand[s], h)], UNCHANGED <<status, queueEmpty>>
  PROVE  /\ PerSide(strand') /\ (Stopped <=> Stopped')
         /\ \A s \in Side : /\ strand[s] \in Seq(Handlers)
                            /\ \A C : Has(strand'[s], C) <=> h \in C \/ Has(strand[s], C)
                            /\ Doomed(s) => Doomed(s)'
<1>1. ASSUME NEW s \in Side
      PROVE  /\ strand[s] \in Seq(Handlers)
             /\ \A C : Has(strand'[s], C) <=> h \in C \/ Has(strand[s], C)
             /\ Doomed(s) => Doomed(s)'
  <2>1. strand[s] \in Seq(Handlers) /\ strand'[s] = Append(strand[s], h) /\ queueEmpty'[s] = queueEmpty[s]
    BY Before
  <2>2. /\ \A C : Has(strand'[s], C) <=> h \in C \/ Has(strand[s], C)
        /\ strand'[s] # <<>> /\ (strand[s] # <<>> => Head(strand'[s]) = Head(strand[s]))
    BY <2>1, StrandAppend
  <2> QED
    BY <2>1, <2>2 DEF Doomed
<1>2. PerSide(strand')
  BY DEF PerSide
<1>3. Stopped <=> Stopped'
  BY DEF Stopped
<1> QED
  BY <1>1, <1>2, <1>3

(* The connection is made, by either end.                                   *)
LEMMA Opens ==
  ASSUME IInv, conn \in {"connecting", "retrying", "pending"}, conn' = "open", handle' = "open",
         crash = "none", strand' = [s \in Side |-> Append(strand[s], "open")],
         UNCHANGED <<role, load, openCount, openProm, acceptor, status, available, queue,
                     queueEmpty, io, answers, late, moved, user, closer, crash>>
  PROVE  IInv'
<1>1. Shape /\ OpenOnce /\ ClosingOK /\ UserOK /\ \A s \in Side : SideInv(s)
  BY DEF IInv
<1>2. "open" \in Handlers
  BY DEF Handlers
<1>3. /\ PerSide(strand') /\ (Stopped <=> Stopped')
      /\ \A s \in Side : /\ strand[s] \in Seq(Handlers)
                         /\ \A C : Has(strand'[s], C) <=> "open" \in C \/ Has(strand[s], C)
                         /\ Doomed(s) => Doomed(s)'
  BY <1>2, PostedOnBoth
<1>4. ASSUME NEW s \in Side PROVE SideInv(s)'
  <2>1. SideOK(conn, status[s], available[s], Items(queue[s]), queueEmpty[s], strand[s], io[s],
               answers[s], late[s], moved[s])
    BY <1>1 DEF SideInv
  <2>2. SideOK("open", status[s], available[s], Items(queue[s]), queueEmpty[s], Append(strand[s], "open"), io[s],
               answers[s], late[s], moved[s])
    BY <2>1, OpenPosted
  <2>3. strand'[s] = Append(strand[s], "open")
    OBVIOUS
  <2> QED
    BY <2>2, <2>3 DEF SideInv
<1>5. Shape'
  BY <1>1, <1>3 DEF Shape
<1>6. OpenOnce'
  <2>1. Waits("send")' = 1 /\ Waits("recv")' = 1
    BY <1>3 DEF Waits, Side
  <2>2. openCount = 0 /\ role # "given" /\ openProm # "exception"
    BY <1>1 DEF OpenOnce
  <2>3. acceptor = "asked" => Stopped'
    BY <1>1, <1>3 DEF OpenOnce
  <2> QED
    BY <2>1, <2>2, <2>3 DEF OpenOnce
<1>7. ClosingOK'
  <2>1. \A s \in Side : Has(strand'[s], {"close"}) <=> Has(strand[s], {"close"})
    BY <1>3
  <2> QED
    BY <1>1, <1>3, <2>1 DEF ClosingOK
<1>8. UserOK'
  BY <1>1 DEF UserOK
<1>9. CrashOK'
  BY GoesOn
<1> QED
  BY <1>4, <1>5, <1>6, <1>7, <1>8, <1>9 DEF IInv

LEMMA ConnectSucceedsKeeps == ASSUME IInv, ConnectSucceeds PROVE IInv'
  BY Opens DEF ConnectSucceeds, Running

LEMMA StartSocketKeeps == ASSUME IInv, StartSocket PROVE IInv'
  BY Opens DEF StartSocket, Running

(* A connection that is not made: nothing moves on the sides.               *)
LEMMA StaysClosed ==
  ASSUME IInv, conn \notin {"open", "failed"},
         conn' \in {"connecting", "retrying", "pending", "failed"}, crash = "none",
         handle' = handle \/ handle' = "open",
         \/ conn' # "failed" /\ openProm' = openProm
         \/ conn' = "failed" /\ openProm' = "exception" /\ Stopped,
         acceptor' = acceptor \/ acceptor' = "idle",
         UNCHANGED <<role, load, openCount, sideVars, user, closer, crash>>
  PROVE  IInv'
<1>1. Shape /\ OpenOnce /\ ClosingOK /\ UserOK /\ \A s \in Side : SideInv(s)
  BY DEF IInv
<1>2. UNCHANGED <<status, available, queue, queueEmpty, strand, io, answers, late, moved>>
  BY DEF sideVars
<1>3. ASSUME NEW s \in Side PROVE SideInv(s)'
  <2>1. SideOK(conn, status[s], available[s], Items(queue[s]), queueEmpty[s], strand[s], io[s],
               answers[s], late[s], moved[s])
    BY <1>1 DEF SideInv
  <2>2. SideOK(conn', status[s], available[s], Items(queue[s]), queueEmpty[s], strand[s], io[s],
               answers[s], late[s], moved[s])
    BY <2>1, StillClosed
  <2> QED
    BY <1>2, <2>2 DEF SideInv
<1>4. Shape'
  BY <1>1, <1>2 DEF Shape
<1>5. OpenOnce'
  <2>1. /\ role # "given" /\ openCount = 0 /\ (openProm = "exception" <=> conn = "failed")
        /\ acceptor = "asked" => Stopped
    BY <1>1 DEF OpenOnce
  <2>2. Stopped <=> Stopped'
    BY <1>2 DEF Stopped
  <2>3. conn' # "open" /\ role' # "given" /\ openCount' = 0 /\ (openProm' = "exception" <=> conn' = "failed")
    BY <2>1
  <2>4. conn' = "failed" \/ acceptor' = "asked" => Stopped'
    BY <2>1, <2>2
  <2> QED
    BY <2>3, <2>4 DEF OpenOnce
<1>6. ClosingOK'
  BY <1>1, <1>2 DEF ClosingOK, Doomed
<1>7. UserOK'
  BY <1>1, <1>2 DEF UserOK
<1>8. CrashOK'
  BY GoesOn
<1> QED
  BY <1>3, <1>4, <1>5, <1>6, <1>7, <1>8 DEF IInv

LEMMA ConnectFailsKeeps == ASSUME IInv, ConnectFails PROVE IInv'
  BY StaysClosed DEF ConnectFails, Running

LEMMA RetryTimerKeeps == ASSUME IInv, RetryTimer PROVE IInv'
  BY StaysClosed DEF RetryTimer, Running

(* A step that only the user or the closing thread sees, and the acceptor's *)
(* flag when there is nothing to cancel.                                    *)
LEMMA Aside ==
  ASSUME IInv, UNCHANGED <<role, load, conn, openCount, openProm, sideVars, crash>>,
         acceptor' = acceptor \/ acceptor' = "idle",
         handle' = handle \/ (handle' = "reset" /\ \A s \in Side : queueEmpty[s]),
         UserOK', closer' \in Closers,
         closer'[1] \in {"close", "cancel"} /\ closer'[2] = "recv" => queueEmpty["send"],
         closer' = <<"none">> => closer = <<"none">>,
         closer' = <<"done", "close">> => \A s \in Side : Doomed(s)
  PROVE  IInv'
<1>1. Shape /\ OpenOnce /\ ClosingOK /\ CrashOK /\ \A s \in Side : SideInv(s)
  BY DEF IInv
<1>2. UNCHANGED <<status, available, queue, queueEmpty, strand, io, answers, late, moved>>
  BY DEF sideVars
<1>3. \A s \in Side : SideInv(s)'
  BY <1>1, <1>2 DEF SideInv
<1>4. Shape'
  BY <1>1, <1>2 DEF Shape
<1>5. OpenOnce'
  <2>1. Waits("send")' = Waits("send") /\ Waits("recv")' = Waits("recv")
    BY <1>2 DEF Waits
  <2>2. Stopped <=> Stopped'
    BY <1>2 DEF Stopped
  <2>3. \A s \in Side : Has(strand[s], {"open"})' <=> Has(strand[s], {"open"})
    BY <1>2
  <2> QED
    BY <1>1, <2>1, <2>2, <2>3 DEF OpenOnce
<1>6. ClosingOK'
  BY <1>1, <1>2 DEF ClosingOK, Doomed
<1>7. CrashOK'
  BY <1>1, <1>2 DEF CrashOK, CrashesAreKnown
<1> QED
  BY <1>3, <1>4, <1>5, <1>6, <1>7 DEF IInv

LEMMA CancelPendingKeeps == ASSUME IInv, CancelPending PROVE IInv'
<1>1. Shape /\ OpenOnce /\ ClosingOK /\ UserOK /\ crash = "none"
  BY DEF IInv, CancelPending, Running
<1>2. CASE conn = "pending"
  <2>1. acceptor = "asked" /\ Stopped
    BY <1>1 DEF CancelPending, OpenOnce
  <2> QED
    BY <1>1, <1>2, <2>1, StaysClosed DEF CancelPending
<1>3. CASE conn # "pending"
  <2>1. /\ UNCHANGED <<role, load, conn, openCount, openProm, sideVars, crash, handle, closer, user>>
        /\ acceptor' = "idle"
    BY <1>3 DEF CancelPending
  <2>2. UserOK'
    BY <1>1, <2>1 DEF UserOK, sideVars
  <2> QED
    BY <1>1, <2>1, <2>2, Aside DEF ClosingOK
<1> QED
  BY <1>2, <1>3

-----------------------------------------------------------------------------
(* The calls of the user, and what closes the channel.                      *)

LEMMA CheckStatusKeeps ==
  ASSUME IInv, NEW s \in Side, NEW kind \in Kind(s), CheckStatus(s, kind), ConstantsOK PROVE IInv'
<1> DEFINE x == <<Len(answers[s]) + 1, kind>>
<1>1. /\ user' = <<"checked", s, x>> /\ Len(answers[s]) < load[s]
      /\ UNCHANGED <<openVars, sideVars, closer, crash>>
  BY DEF CheckStatus
<1>2. Len(answers[s]) \in Nat /\ ClosingOK
  BY Before
<1>3. load[s] \in Nat
  <2>1. <<role, load>> \in {"given", "client", "server"} \X [Side -> Nat]
    BY DEF IInv, Shape, ConstantsOK
  <2> QED
    BY <2>1
<1>4. x \in Op /\ x[1] = Len(answers[s]) + 1 /\ x[1] <= load[s] /\ x[2] \in Kind(s)
  BY <1>1, <1>2, <1>3 DEF Op, Kind
<1> HIDE DEF x
<1>5. user' \in Users /\ user'[2] = s /\ user'[3] = x /\ answers' = answers /\ load' = load
  BY <1>1, <1>4 DEF Users, openVars, sideVars
<1>6. UserOK'
  BY <1>4, <1>5 DEF UserOK
<1> QED
  BY <1>1, <1>2, <1>6, Aside DEF ClosingOK, openVars

LEMMA WakeKeeps == ASSUME IInv, Wake PROVE IInv'
<1>1. user' = <<"idle">> /\ UNCHANGED <<openVars, sideVars, closer, crash>> /\ ClosingOK
  BY DEF Wake, IInv
<1>2. UserOK'
  BY <1>1 DEF UserOK, Users
<1> QED
  BY <1>1, <1>2, Aside DEF ClosingOK, openVars

LEMMA UserWaits ==
  ASSUME UserOK, UNCHANGED <<user, load, answers>>
  PROVE  UserOK'
  BY DEF UserOK

LEMMA CloseKeeps == ASSUME IInv, Close PROVE IInv'
<1>1. /\ closer = <<"none">> /\ ClosingOK /\ UserOK
      /\ closer' = (IF Stopped THEN <<"done", "close">> ELSE <<"close", "opening">>)
      /\ UNCHANGED <<openVars, sideVars, user, crash>>
  BY DEF Close, IInv
<1>2. Stopped => \A s \in Side : Doomed(s)
  BY <1>1 DEF ClosingOK, Stopped
<1>3. UserOK'
  BY <1>1, UserWaits DEF openVars, sideVars
<1>4. closer' \in Closers
  BY <1>1 DEF Closers
<1> QED
  BY <1>1, <1>2, <1>3, <1>4, Aside DEF openVars

LEMMA CloserSendKeeps == ASSUME IInv, CloserSend PROVE IInv'
<1>1. /\ closer \in Closers /\ closer[1] \in {"close", "cancel"} /\ UserOK
      /\ closer' = <<closer[1], "recv">> /\ queueEmpty["send"]
      /\ UNCHANGED <<openVars, sideVars, user, crash>>
  BY DEF CloserSend, IInv, ClosingOK
<1>2. UserOK'
  BY <1>1, UserWaits DEF openVars, sideVars
<1>3. closer' \in Closers
  BY <1>1 DEF Closers
<1> QED
  BY <1>1, <1>2, <1>3, Aside DEF openVars

LEMMA CloserRecvKeeps == ASSUME IInv, CloserRecv PROVE IInv'
<1>1. /\ closer[1] \in {"close", "cancel"} /\ closer[2] = "recv" /\ ClosingOK /\ UserOK
      /\ closer' = <<"done", closer[1]>> /\ queueEmpty["recv"] /\ handle' = "reset"
      /\ UNCHANGED <<role, load, conn, openCount, openProm, acceptor, sideVars, user, crash>>
  BY DEF CloserRecv, IInv
<1>2. \A s \in Side : queueEmpty[s]
  BY <1>1 DEF ClosingOK, Side
<1>3. UserOK'
  BY <1>1, UserWaits DEF sideVars
<1>4. closer' \in Closers
  BY <1>1 DEF Closers
<1>5. \A s \in Side : Doomed(s)
  BY <1>2 DEF Doomed
<1> QED
  BY <1>1, <1>2, <1>3, <1>4, <1>5, Aside

LEMMA CancelKeeps == ASSUME IInv, Cancel PROVE IInv'
<1>1. /\ closer = <<"none">> /\ crash = "none"
      /\ Shape /\ OpenOnce /\ ClosingOK /\ UserOK /\ \A s \in Side : SideInv(s)
      /\ UNCHANGED <<role, load, conn, openCount, openProm, available, queue, queueEmpty, strand, io,
                     answers, late, moved, user, crash>>
  BY DEF Cancel, IInv, Running
<1>2. CASE Stopped
  <2>1. closer' = <<"done", "cancel">> /\ UNCHANGED <<status, handle, acceptor>>
    BY <1>2 DEF Cancel
  <2>2. UserOK'
    BY <1>1, UserWaits
  <2>3. closer' \in Closers
    BY <2>1 DEF Closers
  <2> QED
    BY <1>1, <2>1, <2>2, <2>3, Aside DEF sideVars
<1>3. CASE ~Stopped
  <2>1. /\ closer' = <<"cancel", "opening">> /\ status' = [s \in Side |-> "Stopped"]
        /\ handle' = IF handle = "none" THEN "none" ELSE "closed"
        /\ acceptor' = IF role = "server" THEN "asked" ELSE "idle"
    BY <1>3 DEF Cancel
  <2>2. ASSUME NEW s \in Side PROVE SideInv(s)'
    <3>1. SideOK(conn, "Stopped", available[s], Items(queue[s]), queueEmpty[s], strand[s], io[s],
                 answers[s], late[s], moved[s])
      BY <1>1, StopSide DEF SideInv
    <3> QED
      BY <1>1, <2>1, <3>1 DEF SideInv
  <2>3. Stopped' /\ PerSide(status')
    BY <2>1 DEF Stopped, PerSide
  <2>4. Shape'
    BY <1>1, <2>1, <2>3 DEF Shape
  <2>5. OpenOnce'
    BY <1>1, <2>3 DEF OpenOnce, Waits
  <2>6. ClosingOK'
    BY <1>1, <2>1 DEF ClosingOK, Closers
  <2>7. UserOK'
    BY <1>1, UserWaits
  <2>8. CrashOK'
    BY <1>1, GoesOn
  <2> QED
    BY <2>2, <2>4, <2>5, <2>6, <2>7, <2>8 DEF IInv
<1> QED
  BY <1>2, <1>3

(* Each strand is asked, and before that told to cancel what is queued if   *)
(* the channel never opened.                                                *)
LEMMA CloserOpenKeeps == ASSUME IInv, CloserOpen PROVE IInv'
<1>1. /\ closer[1] \in {"close", "cancel"} /\ crash = "none"
      /\ Shape /\ OpenOnce /\ ClosingOK /\ UserOK /\ \A s \in Side : SideInv(s)
      /\ closer' = <<closer[1], "send">>
      /\ UNCHANGED <<openVars, status, available, queue, queueEmpty, io, answers, late, moved, user, crash>>
  BY DEF CloserOpen, IInv, Running
<1>2. PICK h \in {"close", "cancel"} : h = closer[1]
  BY <1>1
<1>3. strand' = [s \in Side |-> strand[s] \o IF openProm = "exception" THEN <<"drain", h>> ELSE <<h>>]
  BY <1>2 DEF CloserOpen
<1>4. h \in Handlers /\ "drain" \in Handlers
  BY DEF Handlers
<1>5. /\ UNCHANGED <<role, load, conn, handle, openCount, openProm, acceptor>>
      /\ UNCHANGED <<status, available, queue, queueEmpty, io, answers, late, moved, user, crash>>
  BY <1>1 DEF openVars
<1>6. ASSUME NEW s \in Side
      PROVE  /\ SideInv(s)' /\ (Doomed(s) => Doomed(s)')
             /\ Has(strand'[s], {"open"}) <=> Has(strand[s], {"open"})
  <2>1. /\ strand[s] \in Seq(Handlers)
        /\ SideOK(conn, status[s], available[s], Items(queue[s]), queueEmpty[s], strand[s], io[s],
                  answers[s], late[s], moved[s])
    BY <1>1, Before DEF SideInv
  <2>2. CASE openProm = "exception"
    <3> DEFINE sd == Append(strand[s], "drain")
    <3>1. conn = "failed" /\ status[s] = "Stopped"
      BY <1>1, <2>2 DEF OpenOnce, Stopped
    <3>2. SideOK(conn, status[s], available[s], Items(queue[s]), queueEmpty[s], sd, io[s],
                 answers[s], late[s], moved[s])
      BY <2>1, <3>1, DrainPosted
    <3>3. /\ sd \in Seq(Handlers) /\ sd # <<>>
          /\ \A C : Has(sd, C) <=> "drain" \in C \/ Has(strand[s], C)
          /\ strand[s] # <<>> => Head(sd) = Head(strand[s])
      BY <1>4, <2>1, StrandAppend
    <3>4. strand'[s] = Append(sd, h)
      <4>1. strand'[s] = strand[s] \o <<"drain", h>>
        BY <1>3, <2>2
      <4>2. strand[s] \o <<"drain", h>> = Append(sd, h)
        BY <1>4, <2>1
      <4> QED
        BY <4>1, <4>2
    <3> HIDE DEF sd
    <3>5. SideOK(conn, status[s], available[s], Items(queue[s]), queueEmpty[s], Append(sd, h), io[s],
                 answers[s], late[s], moved[s])
      BY <3>2, PlainPosted
    <3>6. /\ \A C : Has(strand'[s], C) <=> h \in C \/ Has(sd, C)
          /\ strand'[s] # <<>> /\ Head(strand'[s]) = Head(sd)
      BY <1>4, <3>3, <3>4, StrandAppend
    <3>7. SideInv(s)'
      BY <1>5, <3>4, <3>5 DEF SideInv
    <3> QED
      BY <1>5, <3>3, <3>6, <3>7 DEF Doomed
  <2>3. CASE openProm # "exception"
    <3>1. strand'[s] = Append(strand[s], h)
      <4>1. strand'[s] = strand[s] \o <<h>>
        BY <1>3, <2>3
      <4>2. strand[s] \o <<h>> = Append(strand[s], h)
        BY <1>4, <2>1
      <4> QED
        BY <4>1, <4>2
    <3>2. SideOK(conn, status[s], available[s], Items(queue[s]), queueEmpty[s], Append(strand[s], h), io[s],
                 answers[s], late[s], moved[s])
      BY <2>1, PlainPosted
    <3>3. /\ \A C : Has(strand'[s], C) <=> h \in C \/ Has(strand[s], C)
          /\ strand'[s] # <<>> /\ (strand[s] # <<>> => Head(strand'[s]) = Head(strand[s]))
      BY <1>4, <2>1, <3>1, StrandAppend
    <3>4. SideInv(s)'
      BY <1>5, <3>1, <3>2 DEF SideInv
    <3> QED
      BY <1>5, <3>3, <3>4 DEF Doomed
  <2> QED
    BY <2>2, <2>3
<1>7. Shape'
  <2>1. PerSide(strand')
    BY <1>3 DEF PerSide
  <2> QED
    BY <1>1, <1>5, <2>1 DEF Shape
<1>8. OpenOnce'
  <2>1. Waits("send")' = Waits("send") /\ Waits("recv")' = Waits("recv")
    BY <1>6 DEF Waits, Side
  <2>2. Stopped <=> Stopped'
    BY <1>5 DEF Stopped
  <2> QED
    BY <1>1, <1>5, <1>6, <2>1, <2>2 DEF OpenOnce
<1>9. ClosingOK'
  <2>1. closer'[1] = h /\ closer'[2] = "send" /\ closer' \in Closers /\ closer' # <<"none">>
        /\ closer' # <<"done", "close">>
    BY <1>1, <1>2 DEF Closers
  <2> QED
    BY <1>1, <1>5, <2>1 DEF ClosingOK
<1>10. UserOK'
  BY <1>1, <1>5, UserWaits
<1>11. CrashOK'
  BY <1>1, <1>5, GoesOn
<1> QED
  BY <1>6, <1>7, <1>8, <1>9, <1>10, <1>11 DEF IInv

-----------------------------------------------------------------------------
(* The invariant.                                                           *)

LEMMA InitInv == ASSUME ConstantsOK, Init PROVE IInv
<1>1. QueueCap \in Nat \ {0} /\ <<role, load>> \in Cases /\ role \in {"given", "client", "server"}
  <2>1. PICK c \in Cases : role = c[1] /\ load = c[2]
    BY DEF Init
  <2>2. c \in {"given", "client", "server"} \X [Side -> Nat] /\ c = <<c[1], c[2]>>
    BY <2>1 DEF ConstantsOK
  <2> QED
    BY <2>1, <2>2 DEF ConstantsOK
<1>2. IsQueue(NewQueue(QueueCap)) /\ Items(NewQueue(QueueCap)) = <<>>
  BY <1>1, NewQueueIsEmpty
<1>3. /\ conn = CASE role = "given" -> "open" [] role = "client" -> "connecting" [] OTHER -> "pending"
      /\ handle = IF role = "server" THEN "none" ELSE "open"
      /\ openCount = 0 /\ openProm = IF role = "given" THEN "value" ELSE "none"
      /\ status = [s \in Side |-> "Normal"] /\ available = [s \in Side |-> role = "given"]
      /\ queueEmpty = [s \in Side |-> FALSE] /\ strand = [s \in Side |-> <<>>]
      /\ io = [s \in Side |-> NoIo] /\ answers = [s \in Side |-> <<>>]
      /\ late = [s \in Side |-> {}] /\ moved = [s \in Side |-> <<>>]
  BY DEF Init
<1>4. queue = [s \in Side |-> NewQueue(QueueCap)]
  BY DEF Init
<1>5. /\ conn \in {"connecting", "pending", "open"} /\ (conn = "open" <=> role = "given")
      /\ openProm \in {"none", "value"} /\ handle \in {"none", "open"}
  BY <1>1, <1>3
<1>6. Shape
  <2>1. /\ PerSide(status) /\ PerSide(available) /\ PerSide(queue) /\ PerSide(queueEmpty)
        /\ PerSide(strand) /\ PerSide(io) /\ PerSide(answers) /\ PerSide(late) /\ PerSide(moved)
    BY <1>3, <1>4 DEF PerSide
  <2>2. \A s \in Side : IsQueue(queue[s])
    BY <1>2, <1>4
  <2> QED
    BY <1>1, <1>3, <1>5, <2>1, <2>2 DEF Shape, Init
<1>7. \A C : ~Has(<<>>, C) /\ Once(<<>>, C)
  BY DEF Has, Once
<1>8. OpenOnce
  BY <1>3, <1>5, <1>7 DEF OpenOnce, Init
<1>9. ClosingOK
  BY <1>3, <1>5, <1>7 DEF ClosingOK, Closers, Init
<1>10. UserOK
  BY DEF UserOK, Users, Init
<1>11. CrashOK
  BY DEF CrashOK, CrashesAreKnown, Init
<1>12. ASSUME NEW s \in Side PROVE SideInv(s)
  <2> DEFINE av == role = "given"
  <2>1. /\ status[s] = "Normal" /\ available[s] = av /\ queueEmpty[s] = FALSE /\ strand[s] = <<>>
        /\ io[s] = NoIo /\ answers[s] = <<>> /\ late[s] = {} /\ moved[s] = <<>> /\ Items(queue[s]) = <<>>
    BY <1>2, <1>3, <1>4
  <2>2. av \in BOOLEAN /\ (conn = "open" <=> av)
    BY <1>5
  <2>3. NoIo \in [op : Op \cup {Nil}, phase : Phases] /\ NoIo.phase = "idle"
    BY DEF NoIo, Nil, Phases
  <2> HIDE DEF av
  <2>4. SideOK(conn, "Normal", av, <<>>, FALSE, <<>>, NoIo, <<>>, {}, <<>>)
    BY <1>7, <2>2, <2>3 DEF SideOK, Typed, Numbered, Right, ForTheFirst, Carried, FirstAnswered, OnlyLate, Unheld
  <2> QED
    BY <2>1, <2>4 DEF SideInv
<1> QED
  BY <1>6, <1>8, <1>9, <1>10, <1>11, <1>12 DEF IInv

LEMMA NextKeeps == ASSUME ConstantsOK, IInv, [Next]_vars PROVE IInv'
<1>1. CASE \E s \in Side : StrandStep(s)
  BY <1>1, KickKeeps, CompleteKeeps, FatalKeeps, DrainOneKeeps, DrainEndKeeps, CloseSideKeeps,
     CancelSideKeeps, OpenSideKeeps, ConnStringSentKeeps DEF StrandStep
<1>2. CASE \E s \in Side : TransferSucceeds(s) \/ TransferFails(s)
  BY <1>2, TransferSucceedsKeeps, TransferFailsKeeps
<1>3. CASE HeaderFits \/ HeaderMisfits \/ Reschedule
  BY <1>3, HeaderFitsKeeps, HeaderMisfitsKeeps, RescheduleKeeps
<1>4. CASE ConnectSucceeds \/ ConnectFails \/ RetryTimer \/ StartSocket \/ CancelPending
  BY <1>4, ConnectSucceedsKeeps, ConnectFailsKeeps, RetryTimerKeeps, StartSocketKeeps, CancelPendingKeeps
<1>5. CASE \E s \in Side : \E kind \in Kind(s) : CheckStatus(s, kind)
  BY <1>5, CheckStatusKeeps
<1>6. CASE Push \/ Wake \/ Close \/ Cancel \/ CloserStep
  BY <1>6, PushKeeps, WakeKeeps, CloseKeeps, CancelKeeps, CloserOpenKeeps, CloserSendKeeps, CloserRecvKeeps
  DEF CloserStep
<1>7. CASE UNCHANGED vars
  <2>1. /\ UNCHANGED <<role, load, conn, handle, openCount, openProm, acceptor>>
        /\ UNCHANGED <<status, available, queue, queueEmpty, strand, io, answers, late, moved>>
        /\ UNCHANGED <<sideVars, user, closer, crash>>
    BY <1>7 DEF vars, openVars, sideVars
  <2>2. ClosingOK /\ UserOK
    BY DEF IInv
  <2>3. UserOK'
    BY <2>1, <2>2, UserWaits
  <2> QED
    BY <2>1, <2>2, <2>3, Aside DEF ClosingOK
<1> QED
  BY <1>1, <1>2, <1>3, <1>4, <1>5, <1>6, <1>7 DEF Next

LEMMA Invariance == Spec => []IInv
<1>1. Init => IInv
  BY ConstantsOK, InitInv
<1>2. IInv /\ [Next]_vars => IInv'
  BY ConstantsOK, NextKeeps
<1> QED
  BY <1>1, <1>2, PTL DEF Spec

-----------------------------------------------------------------------------
(* What the invariant says.                                                 *)

LEMMA RingsTyped == ASSUME IInv, NEW s \in Side PROVE QueueOK(queue[s])
  BY Before, QueueHolds

(* The variables of the channel have their types.                           *)
THEOREM TypeCorrect == Spec => []TypeOK
<1>1. ASSUME IInv PROVE TypeOK
  <2>1. ASSUME NEW s \in Side
        PROVE  /\ QueueOK(queue[s])
               /\ status[s] \in {"Normal", "Stopped"} /\ available[s] \in BOOLEAN /\ queueEmpty[s] \in BOOLEAN
               /\ strand[s] \in Seq(Handlers)
               /\ io[s].phase \in Phases /\ io[s].op \in Op \cup {Nil}
               /\ answers[s] \in Seq(Answers)
               /\ moved[s] \in Seq(Op) /\ late[s] \subseteq Op
    <3>1. Typed(status[s], available[s], Items(queue[s]), queueEmpty[s], strand[s], io[s],
                answers[s], late[s], moved[s])
      BY <1>1 DEF IInv, SideInv, SideOK
    <3> QED
      BY <1>1, <3>1, RingsTyped DEF Typed
  <2>2. Shape /\ closer \in Closers /\ user \in Users /\ crash \in {"none", "promise set twice", "no socket"}
    BY <1>1 DEF IInv, ClosingOK, UserOK, CrashOK
  <2>3. /\ status \in [Side -> {"Normal", "Stopped"}] /\ available \in [Side -> BOOLEAN]
        /\ queueEmpty \in [Side -> BOOLEAN]
    BY <2>1, <2>2 DEF Shape, PerSide
  <2>4. closer[1] \in {"none", "close", "cancel", "done"} /\ user[1] \in {"idle", "checked", "waiting"}
    <3>1. closer[1] \in {"none", "close", "cancel", "done"}
      <4>1. CASE closer = <<"none">>
        BY <4>1
      <4>2. CASE closer \in {"close", "cancel"} \X {"opening", "send", "recv"}
        BY <4>2
      <4>3. CASE closer \in {"done"} \X {"close", "cancel"}
        BY <4>3
      <4> QED
        BY <2>2, <4>1, <4>2, <4>3 DEF Closers
    <3>2. user[1] \in {"idle", "checked", "waiting"}
      <4>1. CASE user = <<"idle">>
        BY <4>1
      <4>2. CASE user \in {"checked", "waiting"} \X Side \X Op
        BY <4>2
      <4> QED
        BY <2>2, <4>1, <4>2 DEF Users
    <3> QED
      BY <3>1, <3>2
  <2> QED
    BY <2>1, <2>2, <2>3, <2>4 DEF TypeOK, Shape, Handlers, Answers
<1> QED
  BY <1>1, Invariance, PTL

(* At most one handler of a strand has the right.                           *)
LEMMA AtMostOne ==
  ASSUME NEW sd \in Seq(Handlers), Once(sd, Ends)
  PROVE  LET C == {k \in DOMAIN sd : sd[k] \in Ends}
         IN  /\ Cardinality(C) \in {0, 1}
             /\ ~Has(sd, Ends) => Cardinality(C) = 0
<1> DEFINE C == {k \in DOMAIN sd : sd[k] \in Ends}
<1>1. CASE C = {}
  BY <1>1, FS_EmptySet
<1>2. CASE C # {}
  <2>1. PICK k \in DOMAIN sd : sd[k] \in Ends
    BY <1>2
  <2>2. C = {k}
    BY <2>1 DEF Once
  <2>3. Cardinality(C) = 1
    BY <2>2, FS_Singleton
  <2> QED
    BY <2>1, <2>3 DEF Has
<1> QED
  BY <1>1, <1>2

(* Operations cross the socket one after the other, in the order they were  *)
(* queued, and each at most once: the right to start one is in one place.   *)
THEOREM OneAfterTheOther == Spec => []OneAtATime
<1>1. ASSUME IInv, NEW s \in Side
      PROVE  /\ Cardinality(Completions(s)) + (IF available[s] THEN 1 ELSE 0)
                  + (IF io[s].phase # "idle" THEN 1 ELSE 0) <= 1
             /\ io[s].phase # "idle" /\ io[s].op # ConnString =>
                  ~IsEmpty(queue[s]) /\ io[s].op = Front(queue[s])
             /\ \A k \in DOMAIN moved[s] : moved[s][k][1] = k
  <2>1. /\ SideOK(conn, status[s], available[s], Items(queue[s]), queueEmpty[s], strand[s], io[s],
                  answers[s], late[s], moved[s])
        /\ IsQueue(queue[s])
    BY <1>1, Before DEF SideInv
  <2>2. /\ strand[s] \in Seq(Handlers) /\ Once(strand[s], Ends) /\ available[s] \in BOOLEAN
        /\ available[s] => io[s].phase = "idle" /\ ~Has(strand[s], Ends)
        /\ io[s].phase # "idle" => ~Has(strand[s], Ends)
    BY <2>1 DEF SideOK, Typed, Right
  <2>3. Completions(s) = {k \in DOMAIN strand[s] : strand[s][k] \in Ends}
    BY DEF Completions, Ends
  <2>4. /\ Cardinality(Completions(s)) \in {0, 1}
        /\ ~Has(strand[s], Ends) => Cardinality(Completions(s)) = 0
    BY <2>2, <2>3, AtMostOne
  <2>5. ASSUME io[s].phase # "idle", io[s].op # ConnString
        PROVE  ~IsEmpty(queue[s]) /\ io[s].op = Front(queue[s])
    <3>1. Items(queue[s]) # <<>> /\ io[s].op = Head(Items(queue[s]))
      BY <2>1, <2>5 DEF SideOK, ForTheFirst
    <3> QED
      BY <2>1, <3>1, QueueHolds, PopTakes
  <2>6. \A k \in DOMAIN moved[s] : moved[s][k][1] = k
    BY <2>1 DEF SideOK, Carried
  <2> QED
    BY <2>2, <2>4, <2>5, <2>6
<1>2. IInv => OneAtATime
  BY <1>1 DEF OneAtATime
<1> QED
  BY <1>2, Invariance, PTL

(* What a queue holds is not the connection string.                         *)
LEMMA FrontIsQueued ==
  ASSUME NEW q, IsQueue(q), ~IsEmpty(q), Items(q) \in Seq(Op),
         NEW an \in Seq(Answers), Numbered(Items(q), an)
  PROVE  Front(q) # ConnString
<1>1. Items(q) # <<>>
  BY QueueHolds
<1>2. Front(q) = Items(q)[1] /\ 1 \in DOMAIN Items(q)
  BY <1>1, PopTakes, QueueTail
<1>3. PICK n \in Nat : n = Len(Items(q)) /\ n >= 1
  BY <1>1, QueueTail
<1>4. Items(q)[1][1] = Len(an) - n + 1 /\ n <= Len(an) /\ Len(an) \in Nat
  BY <1>2, <1>3 DEF Numbered
<1>5. Items(q)[1][1] # 0
  BY <1>3, <1>4
<1> QED
  BY <1>2, <1>5 DEF ConnString

(* The connection string is sent by a client and before anything else.      *)
StringFirst == \A s \in Side : io[s].phase # "idle" /\ io[s].op = ConnString => ConnStringFirst(s)

(* The socket of a side starts on a queued operation, goes on, or ends.     *)
Onwards(s) ==
  /\ \/ io'[s] = io[s]
     \/ io'[s].phase = "idle"
     \/ io'[s].op = io[s].op /\ io[s].phase # "idle"
     \/ ~IsEmpty(queue'[s]) /\ io'[s].op = Front(queue'[s])
  /\ moved'[s] = moved[s] \/ io'[s].phase = "idle"

LEMMA StringStaysFirst ==
  ASSUME StringFirst, IInv', role' = role, NEW s \in Side, Onwards(s),
         io'[s].phase # "idle", io'[s].op = ConnString
  PROVE  ConnStringFirst(s)'
<1>1. /\ SideOK(conn', status'[s], available'[s], Items(queue'[s]), queueEmpty'[s], strand'[s], io'[s],
                answers'[s], late'[s], moved'[s])
      /\ IsQueue(queue'[s])
  BY DEF IInv, Shape, SideInv
<1>2. /\ Items(queue'[s]) \in Seq(Op) /\ answers'[s] \in Seq(Answers)
      /\ Numbered(Items(queue'[s]), answers'[s])
  BY <1>1 DEF SideOK, Typed
<1>3. ~IsEmpty(queue'[s]) => Front(queue'[s]) # ConnString
  BY <1>1, <1>2, FrontIsQueued
<1>4. io[s].phase # "idle" /\ io[s].op = ConnString /\ moved'[s] = moved[s]
  BY <1>3 DEF Onwards
<1> QED
  BY <1>4 DEF StringFirst, ConnStringFirst

(* What a handler starts is the first operation of the queue it leaves.     *)
LEMMA StartsOnQueued ==
  ASSUME IInv, NEW t \in Side
  PROVE  /\ \A b, q : Perform(t, b, q) /\ ~IsEmpty(q) /\ queue'[t] = q =>
              \A u \in Side : io'[u] = io[u] \/ (~IsEmpty(queue'[u]) /\ io'[u].op = Front(queue'[u]))
         /\ PerformIfAny(t) /\ queue' = queue =>
              \A u \in Side : io'[u] = io[u] \/ (~IsEmpty(queue'[u]) /\ io'[u].op = Front(queue'[u]))
<1>1. io = [u \in Side |-> io[u]]
  BY DEF IInv, Shape, PerSide
<1>2. ASSUME NEW b, NEW q, Perform(t, b, q), ~IsEmpty(q), queue'[t] = q
      PROVE  \A u \in Side : io'[u] = io[u] \/ (~IsEmpty(queue'[u]) /\ io'[u].op = Front(queue'[u]))
  <2>0. PICK f : f = Front(q)
    OBVIOUS
  <2>1. PICK x : x = [op |-> f, phase |-> IF t = "recv" THEN "header" ELSE "data"]
    OBVIOUS
  <2>a. x.op = f
    BY <2>1
  <2>2. UNCHANGED io \/ io' = [io EXCEPT ![t] = x]
    BY <1>2, <2>0, <2>1 DEF Perform
  <2>3. \A u \in Side : u # t => [io EXCEPT ![t] = x][u] = io[u]
    BY <1>1
  <2>4. [io EXCEPT ![t] = x][t] = x
    BY <1>1
  <2> QED
    BY <1>2, <2>0, <2>a, <2>2, <2>3, <2>4
<1>3. ASSUME PerformIfAny(t), queue' = queue
      PROVE  \A u \in Side : io'[u] = io[u] \/ (~IsEmpty(queue'[u]) /\ io'[u].op = Front(queue'[u]))
  <2>1. CASE IsEmpty(queue[t])
    BY <1>3, <2>1 DEF PerformIfAny
  <2>2. CASE ~IsEmpty(queue[t])
    <3>1. Perform(t, TRUE, queue[t]) /\ queue'[t] = queue[t]
      BY <1>3, <2>2 DEF PerformIfAny
    <3> QED
      BY <1>2, <2>2, <3>1
  <2> QED
    BY <2>1, <2>2
<1> QED
  BY <1>2, <1>3

LEMMA SocketGoesOn ==
  ASSUME IInv, NEW s \in Side, Next, ~OpenSide("send")
  PROVE  role' = role /\ Onwards(s)
<1>1. /\ io = [t \in Side |-> io[t]] /\ moved = [t \in Side |-> moved[t]]
      /\ queue = [t \in Side |-> queue[t]]
  BY DEF IInv, Shape, PerSide
<1>2. CASE \E t \in Side : StrandStep(t)
  <2>0. PICK t \in Side : StrandStep(t)
    BY <1>2
  <2>1. CASE Kick(t)
    <3>1. CASE ~IsEmpty(queue[t]) /\ available[t]
      BY <2>1, <3>1, StartsOnQueued DEF Kick, openVars, Onwards
    <3>2. CASE ~(~IsEmpty(queue[t]) /\ available[t])
      BY <2>1, <3>2 DEF Kick, openVars, Onwards
    <3> QED
      BY <3>1, <3>2
  <2>2. CASE Complete(t)
    <3> DEFINE q == PopFront(queue[t])
    <3>1. queue'[t] = q /\ moved' = moved /\ role' = role
      BY <1>1, <2>2 DEF Complete, openVars
    <3>2. IsEmpty(q) => io' = io
      BY <2>2 DEF Complete
    <3>3. ~IsEmpty(q) => Perform(t, TRUE, q)
      BY <2>2 DEF Complete
    <3> HIDE DEF q
    <3> QED
      BY <3>1, <3>2, <3>3, StartsOnQueued DEF Onwards
  <2>3. CASE OpenSide(t)
    <3>1. PerformIfAny(t) /\ queue' = queue /\ moved' = moved /\ role' = role
      BY <2>3 DEF OpenSide, Side
    <3> QED
      BY <3>1, StartsOnQueued DEF Onwards
  <2>4. CASE ConnStringSent
    <3>1. PerformIfAny("send") /\ queue' = queue /\ moved' = moved /\ role' = role
      BY <2>4 DEF ConnStringSent, openVars
    <3> QED
      BY <3>1, StartsOnQueued DEF Onwards, Side
  <2>5. CASE Fatal(t) \/ DrainOne(t) \/ DrainEnd(t) \/ CloseSide(t) \/ CancelSide(t)
    BY <2>5 DEF Fatal, DrainOne, DrainEnd, CloseSide, CancelSide, openVars, Onwards
  <2> QED
    BY <2>0, <2>1, <2>2, <2>3, <2>4, <2>5 DEF StrandStep
<1>3. CASE \E t \in Side : TransferSucceeds(t)
  BY <1>1, <1>3 DEF TransferSucceeds, Moved, NoIo, openVars, Onwards
<1>4. CASE \E t \in Side : TransferFails(t)
  BY <1>1, <1>4 DEF TransferFails, NoIo, openVars, Onwards
<1>5. CASE HeaderFits
  BY <1>1, <1>5 DEF HeaderFits, openVars, Onwards, Side
<1>6. CASE HeaderMisfits
  BY <1>1, <1>6 DEF HeaderMisfits, openVars, Onwards, Side
<1>7. CASE Reschedule
  BY <1>1, <1>7 DEF Reschedule, Moved, NoIo, openVars, Onwards, Side
<1>8. CASE ConnectSucceeds \/ StartSocket
  BY <1>8 DEF ConnectSucceeds, StartSocket, Onwards
<1>9. CASE ConnectFails \/ RetryTimer \/ CancelPending
  BY <1>9 DEF ConnectFails, RetryTimer, CancelPending, sideVars, Onwards
<1>10. CASE \E t \in Side : \E kind \in Kind(t) : CheckStatus(t, kind)
  BY <1>10 DEF CheckStatus, openVars, sideVars, Onwards
<1>11. CASE Push \/ Wake
  BY <1>11 DEF Push, Wake, openVars, sideVars, Onwards
<1>12. CASE Close \/ Cancel \/ CloserStep
  BY <1>12 DEF Close, Cancel, CloserStep, CloserOpen, CloserSend, CloserRecv, openVars, sideVars, Onwards
<1> QED
  BY <1>2, <1>3, <1>4, <1>5, <1>6, <1>7, <1>8, <1>9, <1>10, <1>11, <1>12 DEF Next

LEMMA StringFirstAlways == Spec => [](IInv /\ StringFirst)
<1>1. Init => StringFirst
  BY DEF Init, NoIo, StringFirst
<1>2. ASSUME IInv, StringFirst, [Next]_vars, IInv' PROVE StringFirst'
  <2>1. CASE OpenSide("send")
    <3>1. UNCHANGED <<role, moved>> /\ strand["send"] \in Seq(Handlers)
      BY <1>2, <2>1, Before DEF OpenSide, Side
    <3>2. moved["send"] = <<>>
      <4>1. Has(strand["send"], {"open"})
        BY <2>1, <3>1, HasTail DEF OpenSide, Runs
      <4> QED
        BY <1>2, <4>1 DEF IInv, SideInv, SideOK, Carried, Side
    <3>3. CASE role = "client"
      <4>1. io' = [io EXCEPT !["send"] = [op |-> ConnString, phase |-> "data"]]
        BY <2>1, <3>3 DEF OpenSide
      <4>2. io'["recv"] = io["recv"]
        BY <4>1
      <4>3. io'["send"].op = ConnString
        BY <1>2, <4>1 DEF IInv, Shape, PerSide, Side
      <4>4. ASSUME NEW s \in Side, io'[s].phase # "idle", io'[s].op = ConnString
            PROVE  ConnStringFirst(s)'
        <5>1. CASE s = "send"
          BY <3>1, <3>2, <3>3, <4>3, <5>1 DEF ConnStringFirst
        <5>2. CASE s = "recv"
          BY <1>2, <3>1, <4>2, <4>4, <5>2 DEF StringFirst, ConnStringFirst
        <5> QED
          BY <5>1, <5>2 DEF Side
      <4> QED
        BY <4>4 DEF StringFirst
    <3>4. CASE role # "client"
      <4>1. PerformIfAny("send") /\ queue' = queue
        BY <2>1, <3>4 DEF OpenSide
      <4>2. ASSUME NEW s \in Side PROVE Onwards(s)
        BY <1>2, <3>1, <4>1, StartsOnQueued DEF Onwards, Side
      <4> QED
        BY <1>2, <3>1, <4>2, StringStaysFirst DEF StringFirst
    <3> QED
      BY <3>3, <3>4
  <2>2. CASE Next /\ ~OpenSide("send")
    BY <1>2, <2>2, SocketGoesOn, StringStaysFirst DEF StringFirst
  <2>3. CASE UNCHANGED vars
    BY <1>2, <2>3 DEF vars, openVars, sideVars, StringFirst, ConnStringFirst
  <2> QED
    BY <1>2, <2>1, <2>2, <2>3
<1>3. IInv /\ StringFirst /\ [Next]_vars => (IInv /\ StringFirst)'
  BY <1>2, ConstantsOK, NextKeeps
<1>4. Init => IInv
  BY ConstantsOK, InitInv
<1> QED
  BY <1>1, <1>3, <1>4, PTL DEF Spec

(* When the promise that close and cancel wait for is set, no operation     *)
(* pushed in time is queued or under way, though a client's connection      *)
(* string may be; and nothing is cancelled that the socket still works on.  *)
THEOREM GivenUpMeansFinished == Spec => []GivenUpIsFinished
<1>1. ASSUME IInv, StringFirst, NEW s \in Side
      PROVE  /\ queueEmpty[s] =>
                  /\ \A k \in DOMAIN Items(queue[s]) : Items(queue[s])[k] \in late[s]
                  /\ io[s].phase # "idle" => io[s].op \in late[s] \/ ConnStringFirst(s)
             /\ Runs(s, "drain") => io[s].phase = "idle"
  <2> DEFINE w == Items(queue[s])
  <2>1. SideOK(conn, status[s], available[s], w, queueEmpty[s], strand[s], io[s],
               answers[s], late[s], moved[s])
    BY <1>1, Before DEF SideInv
  <2> HIDE DEF w
  <2>2. w \in Seq(Op) /\ strand[s] \in Seq(Handlers)
    BY <2>1 DEF SideOK, Typed
  <2>3. queueEmpty[s] => \A k \in DOMAIN w : w[k] \in late[s]
    BY <2>1 DEF SideOK, OnlyLate
  <2>4. io[s].phase # "idle" => ConnStringFirst(s) \/ (w # <<>> /\ io[s].op = Head(w))
    BY <1>1, <2>1 DEF SideOK, ForTheFirst, StringFirst
  <2>5. w # <<>> => 1 \in DOMAIN w /\ Head(w) = w[1]
    BY <2>2, QueueTail
  <2>6. ASSUME Runs(s, "drain") PROVE io[s].phase = "idle"
    <3>1. Has(strand[s], {"drain"})
      BY <2>2, <2>6, HasTail DEF Runs
    <3> QED
      BY <2>1, <3>1 DEF SideOK, Right, Unheld
  <2> QED
    BY <2>3, <2>4, <2>5, <2>6 DEF w
<1>2. IInv /\ StringFirst => GivenUpIsFinished
  BY <1>1 DEF GivenUpIsFinished
<1> QED
  BY <1>2, StringFirstAlways, PTL

(* Only an answer given twice and an operation pushed too late end the      *)
(* process; the throws of asyncPerformSend and asyncPerformRecv do not.     *)
THEOREM OnlyKnownCrashes == Spec => []CrashesAreKnown
<1>1. IInv => CrashesAreKnown
  BY DEF IInv, CrashOK
<1> QED
  BY <1>1, Invariance, PTL

(* close leaves behind only operations pushed too late and those a failure  *)
(* has doomed.                                                              *)
THEOREM CloseLeavesTheDoomed == Spec => []CloseLeavesOnlyTheDoomed
<1>1. ASSUME IInv, closer = <<"done", "close">>, NEW s \in Side
      PROVE  \/ \A k \in DOMAIN Items(queue[s]) : Items(queue[s])[k] \in late[s]
             \/ strand[s] # <<>> /\ Head(strand[s]) = "drain"
  <2>1. Doomed(s)
    BY <1>1 DEF IInv, ClosingOK
  <2>2. OnlyLate(Items(queue[s]), queueEmpty[s], late[s])
    BY <1>1 DEF IInv, SideInv, SideOK
  <2> QED
    BY <2>1, <2>2 DEF Doomed, OnlyLate
<1>2. IInv => CloseLeavesOnlyTheDoomed
  BY <1>1 DEF CloseLeavesOnlyTheDoomed
<1> QED
  BY <1>2, Invariance, PTL

-----------------------------------------------------------------------------
(* The queues of rings implement first-in first-out queues.                 *)

(* A queue changes on one side, by an operation put or taken.               *)
LEMMA QueueMoves ==
  ASSUME IInv, NEW s \in Side, NEW q, queue' = [queue EXCEPT ![s] = q],
         \/ \E x \in Started : Items(q) = Append(Items(queue[s]), x)
         \/ Items(queue[s]) # <<>> /\ Items(q) = Tail(Items(queue[s]))
  PROVE  Pending!Next
<1> DEFINE f == [t \in Side |-> Items(queue[t])]
           g == [t \in Side |-> Items(queue'[t])]
           v == Items(q)
<1>1. queue'[s] = q /\ \A t \in Side : t # s => queue'[t] = queue[t]
  <2>1. Sided(queue', queue, s) /\ queue'[s] = q
    BY Before
  <2> HIDE DEF Side
  <2> QED
    BY <2>1, SidedSplit
<1>2. g = [f EXCEPT ![s] = v]
  <2> HIDE DEF Side
  <2>1. g = [t \in Side |-> IF t = s THEN v ELSE f[t]]
    BY <1>1
  <2>2. DOMAIN f = Side
    OBVIOUS
  <2> HIDE DEF f, g, v
  <2> QED
    BY <2>1, <2>2
<1>3. f[s] = Items(queue[s])
  OBVIOUS
<1> HIDE DEF f, g, v
<1>4. (\E x \in Started : v = Append(f[s], x)) \/ (f[s] # <<>> /\ v = Tail(f[s]))
  BY <1>3 DEF v
<1>5. (\E x \in Started : g = [f EXCEPT ![s] = Append(f[s], x)])
      \/ (f[s] # <<>> /\ g = [f EXCEPT ![s] = Tail(f[s])])
  BY <1>2, <1>4
<1>6. (Pending!Put(s) <=> \E x \in Started : g = [f EXCEPT ![s] = Append(f[s], x)])
  BY Zenon DEF Pending!Put, f, g
<1>7. (Pending!Take(s) <=> (f[s] # <<>> /\ g = [f EXCEPT ![s] = Tail(f[s])]))
  BY Zenon DEF Pending!Take, f, g
<1> QED
  BY <1>5, <1>6, <1>7, Zenon DEF Pending!Next

LEMMA PushPuts == ASSUME IInv, Push PROVE Pending!Next
<1>1. user \in Users /\ user[1] = "checked" /\ UserOK /\ Shape
  BY DEF IInv, UserOK, Push
<1>2. PICK s \in Side, x \in Op :
        /\ s = user[2] /\ x = user[3] /\ x[1] = Len(answers[s]) + 1 /\ x[1] <= load[s] /\ x[2] \in Kind(s)
  BY <1>1 DEF UserOK, Users
<1>3. queue' = [queue EXCEPT ![s] = PushBack(queue[s], x)]
  BY <1>2 DEF Push
<1>4. Items(PushBack(queue[s], x)) = Append(Items(queue[s]), x)
  BY Before, PushAppends
<1>5. x \in Started
  <2>1. Len(answers[s]) \in Nat
    BY Before
  <2> DEFINE c == <<role, load>>
  <2>2. c \in Cases /\ c[2] = load
    BY <1>1 DEF Shape
  <2>3. load[s] \in Nat
    <3>1. c \in {"given", "client", "server"} \X [Side -> Nat]
      BY <2>2, ConstantsOK
    <3> QED
      BY <3>1
  <2>4. x \in (1..load[s]) \X Kind(s)
    <3>1. x[1] \in 1..load[s] /\ x = <<x[1], x[2]>>
      BY <1>2, <2>1, <2>3 DEF Op
    <3> QED
      BY <1>2, <3>1
  <2> HIDE DEF c
  <2>5. x \in (1..c[2][s]) \X Kind(s)
    BY <2>2, <2>4
  <2> QED
    BY <2>2, <2>5 DEF Started
<1> DEFINE q == PushBack(queue[s], x)
<1> HIDE DEF q
<1> QED
  BY <1>3, <1>4, <1>5, QueueMoves DEF q

LEMMA CompleteTakes == ASSUME IInv, NEW s \in Side, Complete(s) PROVE Pending!Next
<1> DEFINE q == PopFront(queue[s])
<1>1. queue' = [queue EXCEPT ![s] = q] /\ strand[s] # <<>> /\ Head(strand[s]) = "complete"
  BY DEF Complete, Runs
<1>2. Items(queue[s]) # <<>>
  BY <1>1, CompleteDone DEF IInv, SideInv
<1>3. Items(q) = Tail(Items(queue[s]))
  BY <1>2, Before, PopTakes
<1> HIDE DEF q
<1> QED
  BY <1>1, <1>2, <1>3, QueueMoves

LEMMA DrainTakes == ASSUME IInv, NEW s \in Side, DrainOne(s), queue' # queue PROVE Pending!Next
<1> DEFINE q == PopFront(queue[s])
<1>1. queue' = [queue EXCEPT ![s] = q] /\ ~IsEmpty(queue[s])
  BY DEF DrainOne
<1>2. Items(queue[s]) # <<>>
  BY <1>1, Before, QueueHolds
<1>3. Items(q) = Tail(Items(queue[s]))
  BY <1>2, Before, PopTakes
<1> HIDE DEF q
<1> QED
  BY <1>1, <1>2, <1>3, QueueMoves

LEMMA QueuesMove ==
  ASSUME IInv, [Next]_vars
  PROVE  queue' = queue \/ Pending!Next
<1>1. ASSUME NEW s \in Side, StrandStep(s) PROVE queue' = queue \/ Pending!Next
  <2>1. CASE Complete(s)
    BY <2>1, CompleteTakes
  <2>2. CASE DrainOne(s)
    BY <2>2, DrainTakes
  <2>3. CASE Kick(s) \/ Fatal(s) \/ DrainEnd(s) \/ CloseSide(s) \/ CancelSide(s) \/ OpenSide(s) \/ ConnStringSent
    BY <2>3 DEF Kick, Fatal, DrainEnd, CloseSide, CancelSide, OpenSide, ConnStringSent
  <2> QED
    BY <1>1, <2>1, <2>2, <2>3 DEF StrandStep
<1>2. CASE \E s \in Side : TransferSucceeds(s) \/ TransferFails(s)
  BY <1>2 DEF TransferSucceeds, TransferFails
<1>3. CASE HeaderFits \/ HeaderMisfits \/ Reschedule
  BY <1>3 DEF HeaderFits, HeaderMisfits, Reschedule
<1>4. CASE ConnectSucceeds \/ ConnectFails \/ RetryTimer \/ StartSocket \/ CancelPending
  BY <1>4 DEF ConnectSucceeds, ConnectFails, RetryTimer, StartSocket, CancelPending, sideVars
<1>5. CASE \E s \in Side : \E kind \in Kind(s) : CheckStatus(s, kind)
  BY <1>5 DEF CheckStatus, sideVars
<1>6. CASE Wake \/ Close \/ Cancel \/ CloserStep
  BY <1>6 DEF Wake, Close, Cancel, CloserStep, CloserOpen, CloserSend, CloserRecv, sideVars
<1>7. CASE UNCHANGED vars
  BY <1>7 DEF vars, sideVars
<1> QED
  BY <1>1, <1>2, <1>3, <1>4, <1>5, <1>6, <1>7, PushPuts DEF Next

(* Each queue of rings, migration between rings included, is a first-in     *)
(* first-out queue to the two threads that use it.                          *)
THEOREM QueuesImplementFifo == Spec => QueuesAreFifo
<1>1. Init => Pending!Init
  <2>1. ASSUME Init PROVE [s \in Side |-> Items(queue[s])] = [s \in Side |-> <<>>]
    <3>1. queue = [s \in Side |-> NewQueue(QueueCap)] /\ Items(NewQueue(QueueCap)) = <<>>
      BY <2>1, ConstantsOK, NewQueueIsEmpty DEF Init
    <3> QED
      BY <3>1
  <2> QED
    BY <2>1, Zenon DEF Pending!Init
<1>2. IInv /\ [Next]_vars => [Pending!Next]_([s \in Side |-> Items(queue[s])])
  BY QueuesMove
<1> QED
  BY <1>1, <1>2, Invariance, PTL DEF Spec, QueuesAreFifo, Pending!Spec
=============================================================================
