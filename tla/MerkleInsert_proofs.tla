------------------------ MODULE MerkleInsert_proofs -------------------------
(***************************************************************************)
(* What insert, complete_insertion and compute_root do to a tree, for every *)
(* number of leaves.                                                       *)
(*                                                                         *)
(* A tree in a heap is described by what its leaves say (Good): S is the set *)
(* of its nodes, par[n] the parent of n, and the nodes under n are over the *)
(* cnt[n] leaves from off[n].  How many leaves there are decides the height *)
(* and the size of every node and how they split between its children, and *)
(* the leaves decide the hash of every node that is not dirty.  Insertion  *)
(* interrupts that along the right edge: what is on the insertion stack is *)
(* Placed under the node it waits for.  Holds says that a tree and the leaves *)
(* that wait are those of a log, and the lemmas on the calls, that they keep *)
(* it.  At the end are the lemmas on paths: what the turns of a walk to a  *)
(* leaf give in a tree whose hashes are right.                             *)
(***************************************************************************)
EXTENDS MerkleTree, SequenceTheorems, FiniteSetTheorems, WellFoundedInduction, TLAPS

-----------------------------------------------------------------------------
(* Induction over the natural numbers and what follows from it: functions  *)
(* defined by recursion exist.  A predicate is given by the set of numbers *)
(* that satisfy it and a recursion by a function, so that the facts can be *)
(* cited for any predicate and any recursion.                              *)

(* A set of numbers has a least one: there are no infinite descents among  *)
(* the finite sets of the numbers below each.                              *)
LEMMA LeastNumber ==
  ASSUME NEW T \in SUBSET Nat, T # {}
  PROVE  \E n \in T : \A m \in T : n <= m
<1>. DEFINE Initials == {0 .. (n - 1) : n \in T}
<1>1. Initials \subseteq FiniteSubsetsOf(Nat) /\ Initials # {}
  <2>1. ASSUME NEW n \in T PROVE 0 .. (n - 1) \in SUBSET Nat /\ IsFiniteSet(0 .. (n - 1))
    BY FS_Interval
  <2>. QED BY <2>1 DEF FiniteSubsetsOf
<1>2. IsWellFoundedOn(StrictSubsetOrdering(Nat), FiniteSubsetsOf(Nat))
  BY FS_StrictSubsetOrderingWellFounded
<1>3. \E x \in Initials : \A y \in Initials : ~ (<<y, x>> \in StrictSubsetOrdering(Nat))
  BY <1>1, <1>2, WFMin
<1>4. PICK n \in T :
        \A m \in T : ~ (<<0 .. (m - 1), 0 .. (n - 1)>> \in StrictSubsetOrdering(Nat))
  BY <1>3
<1>5. ASSUME NEW m \in T, ~ (n <= m) PROVE FALSE
  <2>1. m \in Nat /\ n \in Nat OBVIOUS
  <2>2. 0 .. (m - 1) \in SUBSET Nat /\ 0 .. (n - 1) \in SUBSET Nat BY <2>1
  <2>3. /\ 0 .. (m - 1) \subseteq 0 .. (n - 1)
        /\ m \in 0 .. (n - 1) /\ m \notin 0 .. (m - 1)
    BY <2>1, <1>5
  <2>. QED BY <1>4, <2>2, <2>3 DEF StrictSubsetOrdering
<1>. QED BY <1>5

(* Induction: T is the set of the numbers of which something is to be shown.*)
LEMMA SetInduction ==
  ASSUME NEW T, 0 \in T, \A n \in Nat : n \in T => n + 1 \in T
  PROVE  Nat \subseteq T
<1>. DEFINE Out == Nat \ T
<1>1. SUFFICES ASSUME Out # {} PROVE FALSE OBVIOUS
<1>2. PICK n \in Out : \A m \in Out : n <= m
  <2>1. Out \in SUBSET Nat OBVIOUS
  <2>. HIDE DEF Out
  <2>. QED BY <1>1, <2>1, LeastNumber
<1>3. n \in Nat /\ n # 0 OBVIOUS
<1>4. n - 1 \in Nat /\ n - 1 \notin Out BY <1>2, <1>3
<1>. QED BY <1>3, <1>4

(* The functions on 0 .. n with a given first value and a given step from  *)
(* each value to the next: there is one.                                   *)
Iterations(S, base, step, n) ==
  {f \in [0 .. n -> S] : f[0] = base /\ \A k \in 1 .. n : f[k] = step[<<f[k - 1], k>>]}

LEMMA RecursionExists ==
  ASSUME NEW S, NEW base \in S, NEW step \in [S \X Nat -> S], NEW n \in Nat
  PROVE  Iterations(S, base, step, n) # {}
<1>. DEFINE Iterates(f, m) == f[0] = base /\ \A k \in 1 .. m : f[k] = step[<<f[k - 1], k>>]
            T == {m \in Nat : \E f \in [0 .. m -> S] : Iterates(f, m)}
<1>1. 0 \in T
  <2>1. [k \in 0 .. 0 |-> base] \in [0 .. 0 -> S] /\ Iterates([k \in 0 .. 0 |-> base], 0)
    OBVIOUS
  <2>. QED BY <2>1
<1>2. ASSUME NEW m \in Nat, m \in T PROVE m + 1 \in T
  <2>1. PICK f \in [0 .. m -> S] : Iterates(f, m) BY <1>2
  <2>. DEFINE g == [k \in 0 .. m + 1 |-> IF k = m + 1 THEN step[<<f[m], m + 1>>] ELSE f[k]]
  <2>2. f[m] \in S /\ <<f[m], m + 1>> \in S \X Nat OBVIOUS
  <2>3. g \in [0 .. m + 1 -> S] BY <2>2
  <2>4. g[0] = base BY <2>1
  <2>5. ASSUME NEW k \in 1 .. m + 1 PROVE g[k] = step[<<g[k - 1], k>>]
    <3>1. CASE k = m + 1 BY <3>1, SMTT(20)
    <3>2. CASE k # m + 1
      <4>1. k \in 1 .. m /\ k - 1 \in 0 .. m BY <3>2
      <4>2. g[k] = f[k] /\ g[k - 1] = f[k - 1] BY <4>1
      <4>. QED BY <2>1, <4>1, <4>2
    <3>. QED BY <3>1, <3>2
  <2>. HIDE DEF g
  <2>6. Iterates(g, m + 1) BY <2>4, <2>5
  <2>. QED BY <2>3, <2>6
<1>. HIDE DEF T
<1>3. Nat \subseteq T BY <1>1, <1>2, SetInduction
<1>4. n \in T BY <1>3
<1>. QED BY <1>4 DEF T, Iterations

-----------------------------------------------------------------------------
(* Powers of two.                                                          *)

(* The tables of the first powers: there is one of each length, and they   *)
(* agree.                                                                  *)
Doubles(f, m) == f[0] = 1 /\ \A k \in 1 .. m : f[k] = 2 * f[k - 1]

LEMMA DoublesExists ==
  ASSUME NEW m \in Nat
  PROVE  \E f \in [0 .. m -> Nat] : Doubles(f, m)
<1> DEFINE step == [x \in Nat \X Nat |-> 2 * x[1]]
<1>1. step \in [Nat \X Nat -> Nat]
  OBVIOUS
<1>2. \A a, k \in Nat : step[<<a, k>>] = 2 * a
  OBVIOUS
<1> HIDE DEF step
<1>3. Iterations(Nat, 1, step, m) # {}
  BY <1>1, RecursionExists
<1>4. PICK f \in [0 .. m -> Nat] : f[0] = 1 /\ \A k \in 1 .. m : f[k] = step[<<f[k - 1], k>>]
  BY <1>3 DEF Iterations
<1>5. ASSUME NEW k \in 1 .. m PROVE f[k] = 2 * f[k - 1]
  <2>1. k \in Nat /\ k - 1 \in 0 .. m
    OBVIOUS
  <2>2. f[k - 1] \in Nat
    BY <1>4, <2>1
  <2> QED
    BY <1>2, <1>4, <2>1, <2>2
<1> QED
  BY <1>4, <1>5 DEF Doubles

LEMMA DoublesAgree ==
  ASSUME NEW m \in Nat, NEW n \in Nat, NEW f, NEW g, Doubles(f, m), Doubles(g, n)
  PROVE  \A k \in Nat : k <= m /\ k <= n => f[k] = g[k]
<1> DEFINE T == {k \in Nat : k <= m /\ k <= n => f[k] = g[k]}
<1>1. 0 \in T
  BY DEF Doubles
<1>2. ASSUME NEW k \in Nat, k \in T PROVE k + 1 \in T
  <2>1. SUFFICES ASSUME k + 1 <= m, k + 1 <= n PROVE f[k + 1] = g[k + 1]
    OBVIOUS
  <2>2. k + 1 \in 1 .. m /\ k + 1 \in 1 .. n /\ (k + 1) - 1 = k /\ k <= m /\ k <= n
    BY <2>1
  <2>3. f[k] = g[k]
    BY <1>2, <2>2
  <2>4. f[k + 1] = 2 * f[(k + 1) - 1] /\ g[k + 1] = 2 * g[(k + 1) - 1]
    BY <2>2 DEF Doubles
  <2> QED
    BY <2>2, <2>3, <2>4
<1> HIDE DEF T
<1>3. Nat \subseteq T
  BY <1>1, <1>2, SetInduction
<1> QED
  BY <1>3 DEF T

LEMMA Pow2Table ==
  pow2 = [k \in Nat |-> IF k = 0 THEN 1 ELSE 2 * pow2[k - 1]]
<1> DEFINE Is(m, f) == f \in [0 .. m -> Nat] /\ Doubles(f, m)
           table == [m \in Nat |-> CHOOSE f : Is(m, f)]
           p == [k \in Nat |-> table[k][k]]
<1>1. ASSUME NEW m \in Nat PROVE Is(m, table[m])
  <2>1. \E f : Is(m, f)
    BY DoublesExists
  <2> HIDE DEF Is
  <2> QED
    BY <2>1
<1> HIDE DEF table
<1>2. ASSUME NEW k \in Nat PROVE p[k] = IF k = 0 THEN 1 ELSE 2 * p[k - 1]
  <2>1. CASE k = 0
    BY <1>1, <2>1 DEF Doubles
  <2>2. CASE k # 0
    <3>1. k - 1 \in Nat /\ k \in 1 .. k /\ k - 1 <= k /\ k - 1 <= k - 1
      BY <2>2
    <3>2. table[k][k] = 2 * table[k][k - 1]
      BY <1>1, <3>1 DEF Doubles
    <3>3. Doubles(table[k], k) /\ Doubles(table[k - 1], k - 1)
      BY <1>1, <3>1
    <3>4. table[k][k - 1] = table[k - 1][k - 1]
      BY <3>1, <3>3, DoublesAgree
    <3> QED
      BY <2>2, <3>1, <3>2, <3>4
  <2> QED
    BY <2>1, <2>2
<1>3. p = [k \in Nat |-> IF k = 0 THEN 1 ELSE 2 * p[k - 1]]
  <2>1. p = [k \in Nat |-> p[k]]
    OBVIOUS
  <2> HIDE DEF p
  <2> QED
    BY <1>2, <2>1
<1>4. \E f : f = [k \in Nat |-> IF k = 0 THEN 1 ELSE 2 * f[k - 1]]
  <2> HIDE DEF p
  <2> QED
    BY <1>3
<1> QED
  BY <1>4 DEF pow2

LEMMA Pow2Step ==
  pow2[0] = 1 /\ \A k \in Nat : pow2[k + 1] = 2 * pow2[k]
<1> DEFINE p == pow2
<1>1. p = [k \in Nat |-> IF k = 0 THEN 1 ELSE 2 * p[k - 1]]
  BY Pow2Table
<1> HIDE DEF p
<1>2. p[0] = 1
  BY <1>1
<1>3. ASSUME NEW k \in Nat PROVE p[k + 1] = 2 * p[k]
  <2>1. k + 1 \in Nat /\ k + 1 # 0 /\ (k + 1) - 1 = k
    OBVIOUS
  <2> QED
    BY <1>1, <2>1
<1> QED
  BY <1>2, <1>3 DEF p

LEMMA Pow2Nat ==
  \A k \in Nat : pow2[k] \in Nat /\ pow2[k] >= 1
<1> DEFINE T == {k \in Nat : pow2[k] \in Nat /\ pow2[k] >= 1}
<1>1. 0 \in T
  BY Pow2Step
<1>2. ASSUME NEW k \in Nat, k \in T PROVE k + 1 \in T
  BY <1>2, Pow2Step
<1> HIDE DEF T
<1>3. Nat \subseteq T
  BY <1>1, <1>2, SetInduction
<1> QED
  BY <1>3 DEF T

(* The numbers are below their powers.                                     *)
LEMMA Pow2Above ==
  \A k \in Nat : k < pow2[k]
<1> DEFINE T == {k \in Nat : k < pow2[k]}
<1>1. 0 \in T
  BY Pow2Step
<1>2. ASSUME NEW k \in Nat, k \in T PROVE k + 1 \in T
  <2>1. pow2[k] \in Nat /\ k < pow2[k] /\ pow2[k + 1] = 2 * pow2[k]
    BY <1>2, Pow2Step, Pow2Nat
  <2> QED
    BY <2>1
<1> HIDE DEF T
<1>3. Nat \subseteq T
  BY <1>1, <1>2, SetInduction
<1> QED
  BY <1>3 DEF T

LEMMA Pow2Grows ==
  ASSUME NEW j \in Nat, NEW k \in Nat, j < k
  PROVE  2 * pow2[j] <= pow2[k]
<1> DEFINE T == {d \in Nat : 2 * pow2[j] <= pow2[j + 1 + d]}
<1>1. 0 \in T
  <2>1. pow2[j + 1] = 2 * pow2[j] /\ pow2[j] \in Nat /\ j + 1 + 0 = j + 1
    BY Pow2Step, Pow2Nat
  <2> QED
    BY <2>1
<1>2. ASSUME NEW d \in Nat, d \in T PROVE d + 1 \in T
  <2>1. j + 1 + d \in Nat /\ j + 1 + (d + 1) = (j + 1 + d) + 1
    OBVIOUS
  <2>2. pow2[j + 1 + (d + 1)] = 2 * pow2[j + 1 + d] /\ pow2[j + 1 + d] \in Nat
    BY <2>1, Pow2Step, Pow2Nat
  <2>3. 2 * pow2[j] <= pow2[j + 1 + d] /\ pow2[j] \in Nat
    BY <1>2, Pow2Nat
  <2> QED
    BY <2>2, <2>3
<1> HIDE DEF T
<1>3. Nat \subseteq T
  BY <1>1, <1>2, SetInduction
<1>4. k - j - 1 \in Nat /\ j + 1 + (k - j - 1) = k
  OBVIOUS
<1> QED
  BY <1>3, <1>4 DEF T

(* A smaller power is at most half, and powers grow with their exponent.   *)
LEMMA Pow2Order ==
  ASSUME NEW j \in Nat, NEW k \in Nat
  PROVE  /\ pow2[j] < pow2[k] <=> j < k
         /\ pow2[j] <= pow2[k] <=> j <= k
         /\ pow2[j] = pow2[k] <=> j = k
<1>1. pow2[j] \in Nat /\ pow2[k] \in Nat /\ pow2[j] >= 1 /\ pow2[k] >= 1
  BY Pow2Nat
<1>2. j < k => 2 * pow2[j] <= pow2[k]
  BY Pow2Grows
<1>3. k < j => 2 * pow2[k] <= pow2[j]
  BY Pow2Grows
<1> QED
  BY <1>1, <1>2, <1>3

LEMMA SamePower ==
  ASSUME NEW j \in Nat, NEW k \in Nat, pow2[j] = pow2[k]
  PROVE  j = k
BY Pow2Order

Powers == {pow2[k] : k \in Nat}

LEMMA PowersNat ==
  Powers \subseteq Nat \ {0} /\ 1 \in Powers
<1>1. Powers \subseteq Nat \ {0}
  BY Pow2Nat DEF Powers
<1>2. pow2[0] \in Powers
  BY DEF Powers
<1> QED
  BY <1>1, <1>2, Pow2Step

(* a + b is a power of two, for a power a and b no greater, only when b is *)
(* a.                                                                      *)
LEMMA PowerSum ==
  ASSUME NEW a \in Powers, NEW b \in Nat \ {0}, b <= a
  PROVE  a + b \in Powers <=> b = a
<1>1. PICK j \in Nat : a = pow2[j]
  BY DEF Powers
<1>2. a \in Nat /\ pow2[j + 1] = 2 * a
  BY <1>1, Pow2Nat, Pow2Step
<1>3. ASSUME a + b \in Powers PROVE b = a
  <2>1. PICK k \in Nat : a + b = pow2[k]
    BY <1>3 DEF Powers
  <2>2. j < k
    BY <1>1, <1>2, <2>1, Pow2Order
  <2>3. 2 * a <= a + b
    BY <1>1, <2>1, <2>2, Pow2Grows
  <2> QED
    BY <1>2, <2>3
<1>4. ASSUME b = a PROVE a + b \in Powers
  <2>1. a + b = pow2[j + 1] /\ j + 1 \in Nat
    BY <1>2, <1>4
  <2> QED
    BY <2>1 DEF Powers
<1> QED
  BY <1>3, <1>4

(* Half of a power but 1 is a power.                                       *)
(* Every number above 1 is a power of two and a smaller or equal rest.     *)
LEMMA EverySplit ==
  ASSUME NEW c \in Nat, c >= 2
  PROVE  \E a \in Powers : \E b \in Nat \ {0} : b <= a /\ c = a + b
<1> DEFINE T == {k \in Nat : c <= pow2[k]}
<1>1. c \in T
  <2>1. c < pow2[c] /\ pow2[c] \in Nat
    BY Pow2Above, Pow2Nat
  <2> QED
    BY <2>1
<1>2. T \in SUBSET Nat /\ T # {}
  BY <1>1
<1>3. PICK k \in T : \A m \in T : k <= m
  <2> HIDE DEF T
  <2> QED
    BY <1>2, LeastNumber
<1>4. k \in Nat /\ c <= pow2[k] /\ k # 0
  BY <1>3, Pow2Step
<1>5. k - 1 \in Nat /\ k - 1 \notin T
  BY <1>3, <1>4
<1>6. pow2[k - 1] \in Powers /\ pow2[k - 1] \in Nat
  BY <1>5, Pow2Nat DEF Powers
<1>7. pow2[k] = 2 * pow2[k - 1]
  <2>1. (k - 1) + 1 = k
    BY <1>4
  <2> QED
    BY <1>5, <2>1, Pow2Step
<1>8. pow2[k - 1] < c
  BY <1>5, <1>6
<1>9. c - pow2[k - 1] \in Nat \ {0} /\ c - pow2[k - 1] <= pow2[k - 1] /\ c = pow2[k - 1] + (c - pow2[k - 1])
  BY <1>4, <1>6, <1>7, <1>8
<1> QED
  BY <1>6, <1>9

LEMMA SplitIs ==
  ASSUME NEW a \in Powers, NEW b \in Nat \ {0}, b <= a
  PROVE  Split(a + b) = a
<1>1. PICK j \in Nat : a = pow2[j]
  BY DEF Powers
<1>2. a \in Nat \ {0}
  BY PowersNat
<1> DEFINE S == {pow2[e] : e \in 0 .. a + b}
           Fits(k) == k < a + b /\ a + b <= 2 * k
<1>3. a \in S
  <2>1. j < pow2[j]
    BY Pow2Above
  <2>2. j \in 0 .. a + b
    BY <1>1, <1>2, <2>1
  <2> QED
    BY <1>1, <2>2
<1>4. Fits(a)
  BY <1>2
<1>5. ASSUME NEW k \in S, Fits(k) PROVE k = a
  <2>1. PICK e \in Nat : k = pow2[e]
    BY <1>2
  <2>2. k \in Nat
    BY <2>1, Pow2Nat
  <2>3. CASE e < j
    <3>1. 2 * k <= a
      BY <1>1, <2>1, <2>3, Pow2Grows
    <3> QED
      BY <1>2, <1>5, <2>2, <3>1
  <2>4. CASE j < e
    <3>1. 2 * a <= k
      BY <1>1, <2>1, <2>4, Pow2Grows
    <3> QED
      BY <1>2, <1>5, <2>2, <3>1
  <2> QED
    BY <1>1, <2>1, <2>3, <2>4
<1> HIDE DEF S
<1>6. (CHOOSE k \in S : Fits(k)) = a
  <2> HIDE DEF Fits
  <2> QED
    BY <1>3, <1>4, <1>5
<1> QED
  BY <1>6 DEF Split, S, Fits

-----------------------------------------------------------------------------
(* h is the height of a tree over c leaves.                                *)
HeightIs(h, c) ==
  /\ h \in Nat \ {0} /\ c \in Nat \ {0}
  /\ c <= pow2[h - 1]
  /\ h # 1 => pow2[h - 2] < c

(* A tree over c leaves is full for its height when c is a power of two.   *)
LEMMA FullIsPower ==
  ASSUME NEW h, NEW c, HeightIs(h, c)
  PROVE  2 * c - 1 = pow2[h] - 1 <=> c \in Powers
<1>1. h \in Nat /\ c \in Nat /\ c >= 1 /\ h - 1 \in Nat /\ c <= pow2[h - 1]
  BY DEF HeightIs
<1>2. pow2[h] = 2 * pow2[h - 1] /\ pow2[h - 1] \in Nat
  <2>1. (h - 1) + 1 = h
    BY <1>1
  <2> QED
    BY <1>1, <2>1, Pow2Step, Pow2Nat
<1>3. c = pow2[h - 1] => c \in Powers
  BY <1>1 DEF Powers
<1>4. ASSUME c \in Powers PROVE c = pow2[h - 1]
  <2>1. PICK k \in Nat : c = pow2[k]
    BY <1>4 DEF Powers
  <2>2. k <= h - 1
    BY <1>1, <2>1, Pow2Order
  <2>3. CASE h = 1
    <3>1. k = h - 1
      BY <2>2, <2>3
    <3> QED
      BY <2>1, <3>1
  <2>4. CASE h # 1
    <3>1. h - 2 \in Nat /\ pow2[h - 2] < pow2[k]
      BY <1>1, <2>1, <2>4 DEF HeightIs
    <3>2. h - 2 < k
      BY <3>1, Pow2Order
    <3>3. k = h - 1
      BY <1>1, <2>2, <3>1, <3>2
    <3> QED
      BY <2>1, <3>3
  <2> QED
    BY <2>3, <2>4
<1> QED
  BY <1>1, <1>2, <1>3, <1>4

LEMMA LeafHeight ==
  HeightIs(1, 1)
BY Pow2Step DEF HeightIs

(* The height of a full tree.                                              *)
LEMMA PowerHeight ==
  ASSUME NEW a \in Powers, NEW h, HeightIs(h, a)
  PROVE  a = pow2[h - 1]
<1>1. h \in Nat /\ a \in Nat /\ h - 1 \in Nat /\ (h - 1) + 1 = h
  BY DEF HeightIs
<1>2. pow2[h] = 2 * pow2[h - 1] /\ pow2[h - 1] \in Nat /\ pow2[h] \in Nat
  BY <1>1, Pow2Step, Pow2Nat
<1>3. 2 * a - 1 = pow2[h] - 1
  BY FullIsPower
<1> QED
  BY <1>1, <1>2, <1>3

(* A smaller tree is not higher.                                           *)
LEMMA HeightsOrder ==
  ASSUME NEW g, NEW b, HeightIs(g, b), NEW h, NEW c, HeightIs(h, c), b <= c
  PROVE  g <= h
<1>1. g \in Nat /\ h \in Nat /\ b \in Nat /\ c \in Nat /\ g >= 1 /\ h >= 1 /\ h - 1 \in Nat
  BY DEF HeightIs
<1>2. SUFFICES ASSUME h < g PROVE FALSE
  BY <1>1
<1>3. g - 2 \in Nat /\ g # 1 /\ h - 1 <= g - 2
  BY <1>1, <1>2
<1>4. pow2[g - 2] < b /\ c <= pow2[h - 1]
  BY <1>3 DEF HeightIs
<1>5. pow2[h - 1] <= pow2[g - 2] /\ pow2[h - 1] \in Nat /\ pow2[g - 2] \in Nat
  BY <1>1, <1>3, Pow2Order, Pow2Nat
<1> QED
  BY <1>1, <1>4, <1>5

(* The height of a tree over a full left and a no larger right subtree.    *)
LEMMA JoinHeight ==
  ASSUME NEW a \in Powers, NEW b, b <= a, NEW g, NEW h, HeightIs(h, a), HeightIs(g, b)
  PROVE  g <= h /\ HeightIs(h + 1, a + b)
<1>1. h \in Nat /\ a \in Nat /\ b \in Nat /\ b >= 1 /\ h - 1 \in Nat /\ h >= 1
  BY DEF HeightIs
<1>2. a = pow2[h - 1]
  BY PowerHeight
<1>3. pow2[h] = 2 * pow2[h - 1] /\ (h + 1) - 1 = h /\ (h + 1) - 2 = h - 1
  <2>1. (h - 1) + 1 = h /\ (h + 1) - 1 = h /\ (h + 1) - 2 = h - 1
    BY <1>1
  <2> QED
    BY <1>1, <2>1, Pow2Step
<1>4. HeightIs(h + 1, a + b)
  BY <1>1, <1>2, <1>3 DEF HeightIs
<1> QED
  BY <1>4, HeightsOrder

-----------------------------------------------------------------------------
(* The reference hash of c leaves from o.                                   *)

IsHash(leaves, hash, m) ==
  hash = [c \in 1 .. m |->
            [o \in 0 .. Len(leaves) - c |->
               IF c = 1 THEN leaves[o + 1]
               ELSE HashFunction(hash[Split(c)][o], hash[c - Split(c)][o + Split(c)])]]

(* The two parts of a tree over c leaves.                                  *)
LEMMA SplitBounds ==
  ASSUME NEW c \in Nat, c >= 2
  PROVE  /\ Split(c) \in Powers /\ Split(c) \in Nat \ {0} /\ Split(c) < c
         /\ c - Split(c) \in Nat \ {0} /\ c - Split(c) <= Split(c)
<1>1. PICK a \in Powers : \E b \in Nat \ {0} : b <= a /\ c = a + b
  BY EverySplit
<1>2. PICK b \in Nat \ {0} : b <= a /\ c = a + b
  BY <1>1
<1>3. Split(c) = a
  BY <1>2, SplitIs
<1>4. a \in Nat \ {0}
  BY PowersNat
<1> QED
  BY <1>2, <1>3, <1>4

LEMMA HashExists ==
  ASSUME NEW leaves, NEW m \in Nat
  PROVE  \E hash : IsHash(leaves, hash, m)
<1> DEFINE Row(f, c) == [o \in 0 .. Len(leaves) - c |->
                           IF c = 1 THEN leaves[o + 1]
                           ELSE HashFunction(f[Split(c)][o], f[c - Split(c)][o + Split(c)])]
           T == {k \in Nat : \E f : f = [c \in 1 .. k |-> Row(f, c)]}
<1>1. 0 \in T
  <2>1. \A f : [c \in 1 .. 0 |-> Row(f, c)] = <<>>
    OBVIOUS
  <2> HIDE DEF Row
  <2> QED
    BY <2>1
<1>2. ASSUME NEW k \in Nat, k \in T PROVE k + 1 \in T
  <2>1. PICK f : f = [c \in 1 .. k |-> Row(f, c)]
    BY <1>2
  <2> DEFINE g == [c \in 1 .. k + 1 |-> IF c = k + 1 THEN Row(f, k + 1) ELSE f[c]]
  <2>2. ASSUME NEW c \in 1 .. k + 1 PROVE g[c] = Row(g, c)
    <3>1. g[c] = Row(f, c)
      <4>1. CASE c = k + 1
        BY <4>1
      <4>2. CASE c # k + 1
        <5>1. c \in 1 .. k
          BY <4>2
        <5>2. f[c] = Row(f, c)
          <6> HIDE DEF Row
          <6> QED
            BY <2>1, <5>1
        <5>3. g[c] = f[c]
          BY <4>2
        <5> QED
          BY <5>2, <5>3
      <4> QED
        BY <4>1, <4>2
    <3>2. Row(f, c) = Row(g, c)
      <4>1. CASE c = 1
        BY <4>1
      <4>2. CASE c # 1
        <5>1. Split(c) \in 1 .. k /\ c - Split(c) \in 1 .. k
          <6>1. c \in Nat /\ c >= 2
            BY <4>2
          <6> QED
            BY <6>1, SplitBounds
        <5>2. \A x \in 1 .. k : g[x] = f[x]
          OBVIOUS
        <5> HIDE DEF g
        <5>3. g[Split(c)] = f[Split(c)] /\ g[c - Split(c)] = f[c - Split(c)]
          BY <5>1, <5>2
        <5> QED
          BY <5>3
      <4> QED
        BY <4>1, <4>2
    <3> QED
      BY <3>1, <3>2
  <2>3. g = [c \in 1 .. k + 1 |-> g[c]]
    OBVIOUS
  <2> HIDE DEF g, Row
  <2>4. g = [c \in 1 .. k + 1 |-> Row(g, c)]
    BY <2>2, <2>3
  <2> QED
    BY <2>4
<1> HIDE DEF T
<1>3. Nat \subseteq T
  BY <1>1, <1>2, SetInduction
<1>4. \E f : f = [c \in 1 .. m |-> Row(f, c)]
  BY <1>3 DEF T
<1> QED
  BY <1>4 DEF IsHash

LEMMA SubtreeHashIs ==
  ASSUME NEW leaves, Len(leaves) \in Nat
  PROVE  IsHash(leaves, SubtreeHash(leaves), Len(leaves))
<1>1. \E hash : IsHash(leaves, hash, Len(leaves))
  BY HashExists
<1> QED
  BY <1>1 DEF SubtreeHash, IsHash

LEMMA HashOfLeaf ==
  ASSUME NEW leaves, Len(leaves) \in Nat, NEW o \in Nat, o < Len(leaves)
  PROVE  SubtreeHash(leaves)[1][o] = leaves[o + 1]
<1> DEFINE H == SubtreeHash(leaves)
<1>1. IsHash(leaves, H, Len(leaves))
  BY SubtreeHashIs
<1>2. 1 \in 1 .. Len(leaves) /\ o \in 0 .. Len(leaves) - 1
  OBVIOUS
<1> HIDE DEF H
<1> QED
  BY <1>1, <1>2 DEF IsHash, H

LEMMA HashOfInner ==
  ASSUME NEW leaves, Len(leaves) \in Nat,
         NEW a \in Powers, NEW b \in Nat \ {0}, b <= a, NEW o \in Nat, o + a + b <= Len(leaves)
  PROVE  SubtreeHash(leaves)[a + b][o]
           = HashFunction(SubtreeHash(leaves)[a][o], SubtreeHash(leaves)[b][o + a])
<1> DEFINE H == SubtreeHash(leaves)
           c == a + b
<1>1. IsHash(leaves, H, Len(leaves))
  BY SubtreeHashIs
<1>2. a \in Nat \ {0} /\ Split(c) = a
  BY PowersNat, SplitIs
<1>3. c \in 1 .. Len(leaves) /\ c # 1 /\ o \in 0 .. Len(leaves) - c /\ c - a = b
  BY <1>2
<1> HIDE DEF H, c
<1>4. H[c] = [x \in 0 .. Len(leaves) - c |->
               IF c = 1 THEN leaves[x + 1]
               ELSE HashFunction(H[Split(c)][x], H[c - Split(c)][x + Split(c)])]
  BY <1>1, <1>3 DEF IsHash
<1>5. H[c][o] = HashFunction(H[a][o], H[b][o + a])
  BY <1>2, <1>3, <1>4
<1> QED
  BY <1>5 DEF H, c

(* Strong induction.                                                       *)
LEMMA SetStrongInduction ==
  ASSUME NEW T, \A n \in Nat : (\A k \in Nat : k < n => k \in T) => n \in T
  PROVE  Nat \subseteq T
<1> DEFINE U == {n \in Nat : \A k \in Nat : k < n => k \in T}
<1>1. 0 \in U
  OBVIOUS
<1>2. ASSUME NEW n \in Nat, n \in U PROVE n + 1 \in U
  <2>1. n \in T
    BY <1>2
  <2>2. \A k \in Nat : k < n + 1 => k < n \/ k = n
    OBVIOUS
  <2> QED
    BY <1>2, <2>1, <2>2
<1> HIDE DEF U
<1>3. Nat \subseteq U
  BY <1>1, <1>2, SetInduction
<1>4. \A n \in Nat : n + 1 \in Nat /\ n < n + 1
  OBVIOUS
<1> QED
  BY <1>3, <1>4 DEF U

(* The hash of leaves two lists share does not depend on the list.          *)
LEMMA HashOfShared ==
  ASSUME NEW l, NEW k, NEW m \in Nat, Len(l) \in Nat, Len(k) \in Nat,
         m <= Len(l), m <= Len(k), \A i \in 1 .. m : l[i] = k[i]
  PROVE  \A c \in 1 .. m : \A o \in 0 .. m - c : SubtreeHash(l)[c][o] = SubtreeHash(k)[c][o]
<1> DEFINE Same(c) == \A o \in Nat : c >= 1 /\ o + c <= m => SubtreeHash(l)[c][o] = SubtreeHash(k)[c][o]
           T == {c \in Nat : Same(c)}
<1>1. ASSUME NEW c \in Nat, \A d \in Nat : d < c => d \in T PROVE c \in T
  <2>1. SUFFICES ASSUME NEW o \in Nat, c >= 1, o + c <= m
                 PROVE  SubtreeHash(l)[c][o] = SubtreeHash(k)[c][o]
    OBVIOUS
  <2>2. CASE c = 1
    <3>1. o < Len(l) /\ o < Len(k) /\ o + 1 \in 1 .. m
      BY <2>1, <2>2
    <3>2. l[o + 1] = k[o + 1]
      BY <3>1
    <3> QED
      BY <2>2, <3>1, <3>2, HashOfLeaf
  <2>3. CASE c # 1
    <3>1. PICK a \in Powers : \E b \in Nat \ {0} : b <= a /\ c = a + b
      BY <2>1, <2>3, EverySplit
    <3>2. PICK b \in Nat \ {0} : b <= a /\ c = a + b
      BY <3>1
    <3>3. a \in Nat \ {0}
      BY PowersNat
    <3>4. a < c /\ b < c /\ a >= 1 /\ b >= 1 /\ o + a <= m /\ (o + a) + b <= m /\ o + a \in Nat
      BY <2>1, <3>2, <3>3
    <3>5. Same(a) /\ Same(b)
      BY <1>1, <3>3, <3>4
    <3>6. SubtreeHash(l)[a][o] = SubtreeHash(k)[a][o]
      BY <3>4, <3>5
    <3>7. SubtreeHash(l)[b][o + a] = SubtreeHash(k)[b][o + a]
      BY <3>4, <3>5
    <3>8. o + a + b <= Len(l) /\ o + a + b <= Len(k)
      BY <3>3, <3>4
    <3>9. /\ SubtreeHash(l)[a + b][o] = HashFunction(SubtreeHash(l)[a][o], SubtreeHash(l)[b][o + a])
          /\ SubtreeHash(k)[a + b][o] = HashFunction(SubtreeHash(k)[a][o], SubtreeHash(k)[b][o + a])
      BY <3>2, <3>8, HashOfInner
    <3> QED
      BY <3>2, <3>6, <3>7, <3>9
  <2> QED
    BY <2>2, <2>3
<1> HIDE DEF T
<1>2. Nat \subseteq T
  BY <1>1, SetStrongInduction
<1>3. ASSUME NEW c \in 1 .. m, NEW o \in 0 .. m - c
      PROVE  SubtreeHash(l)[c][o] = SubtreeHash(k)[c][o]
  <2>1. c \in Nat /\ c >= 1 /\ o \in Nat /\ o + c <= m
    OBVIOUS
  <2>2. Same(c)
    BY <1>2, <2>1 DEF T
  <2> QED
    BY <2>1, <2>2
<1> QED
  BY <1>3

-----------------------------------------------------------------------------
(* The nodes of a heap.                                                    *)

IsNode(x) ==
  /\ x = [hash |-> x.hash, left |-> x.left, right |-> x.right,
          size |-> x.size, height |-> x.height, dirty |-> x.dirty]
  /\ x.left \in Nat /\ x.right \in Nat /\ x.size \in Nat /\ x.height \in Nat
  /\ x.dirty \in BOOLEAN

LEMMA DirtyNode ==
  ASSUME NEW x, IsNode(x), NEW y, y = [x EXCEPT !.dirty = TRUE]
  PROVE  IsNode(y) /\ y.left = x.left /\ y.right = x.right /\ y.size = x.size
         /\ y.height = x.height /\ y.hash = x.hash /\ y.dirty = TRUE
BY DEF IsNode

LEMMA StrippedNode ==
  ASSUME NEW x, IsNode(x), NEW y, y = [x EXCEPT !.left = Nil, !.right = Nil]
  PROVE  IsNode(y) /\ y.left = Nil /\ y.right = Nil /\ y.size = x.size
         /\ y.height = x.height /\ y.hash = x.hash /\ y.dirty = x.dirty
BY DEF IsNode, Nil

LEMMA LeafNode ==
  ASSUME NEW h, NEW y, y = NewLeaf(h)
  PROVE  IsNode(y) /\ y.left = Nil /\ y.right = Nil /\ y.size = 1 /\ y.height = 1
         /\ y.hash = h /\ y.dirty = FALSE
BY DEF IsNode, NewLeaf, Nil

(* A heap is a finite set of nodes, and no child is a deleted node.         *)
Heap(heap) ==
  /\ IsFiniteSet(DOMAIN heap) /\ DOMAIN heap \subseteq Nat \ {0}
  /\ heap = [n \in DOMAIN heap |-> heap[n]]
  /\ \A n \in DOMAIN heap : IsNode(heap[n])

Closed(heap) ==
  \A n \in DOMAIN heap :
    heap[n].left \in DOMAIN heap \cup {Nil} /\ heap[n].right \in DOMAIN heap \cup {Nil}

-----------------------------------------------------------------------------
(* Reached: what a walk down the tree visits.                               *)

ReachedTable(heap, open, r) ==
  r = [m \in DOMAIN heap \cup {Nil} |->
         IF m \notin open THEN {} ELSE {m} \cup r[heap[m].left] \cup r[heap[m].right]]

LEMMA ReachedExists ==
  ASSUME NEW heap, Closed(heap), NEW open \in SUBSET DOMAIN heap
  PROVE  \E r : ReachedTable(heap, open, r)
<1> DEFINE D == DOMAIN heap \cup {Nil}
           Down(C) == \A x \in C : (heap[x].left \in open => heap[x].left \in C)
                                   /\ (heap[x].right \in open => heap[x].right \in C)
           W(m) == {k \in open : \A C \in SUBSET open : m \in C /\ Down(C) => k \in C}
           V(m) == IF m \in open THEN W(m) ELSE {}
           r == [m \in D |-> V(m)]
<1>1. ASSUME NEW m \in open
      PROVE  W(m) = {m} \cup V(heap[m].left) \cup V(heap[m].right)
  <2>1. m \in W(m)
    OBVIOUS
  <2>2. V(heap[m].left) \subseteq W(m) /\ V(heap[m].right) \subseteq W(m)
    OBVIOUS
  <2>3. ASSUME NEW k \in W(m) PROVE k \in {m} \cup V(heap[m].left) \cup V(heap[m].right)
    <3> DEFINE U == {m} \cup V(heap[m].left) \cup V(heap[m].right)
    <3>1. U \in SUBSET open /\ m \in U
      OBVIOUS
    <3>2. \A x \in open : Down(W(x))
      OBVIOUS
    <3>3. \A x : Down(V(x))
      BY <3>2
    <3>4. heap[m].left \in open => heap[m].left \in V(heap[m].left)
      OBVIOUS
    <3>5. heap[m].right \in open => heap[m].right \in V(heap[m].right)
      OBVIOUS
    <3>6. Down(U)
      <4>1. SUFFICES ASSUME NEW x \in U
                     PROVE  (heap[x].left \in open => heap[x].left \in U)
                            /\ (heap[x].right \in open => heap[x].right \in U)
        OBVIOUS
      <4>2. CASE x = m
        BY <3>4, <3>5, <4>2
      <4>3. CASE x \in V(heap[m].left)
        <5> HIDE DEF V
        <5> QED
          BY <3>3, <4>3
      <4>4. CASE x \in V(heap[m].right)
        <5> HIDE DEF V
        <5> QED
          BY <3>3, <4>4
      <4> QED
        BY <4>2, <4>3, <4>4
    <3> HIDE DEF U, Down, V
    <3>7. k \in U
      BY <3>1, <3>6
    <3> QED
      BY <3>7 DEF U
  <2> HIDE DEF W, V
  <2> QED
    BY <2>1, <2>2, <2>3
<1>2. ASSUME NEW m \in D
      PROVE  r[m] = IF m \notin open THEN {} ELSE {m} \cup r[heap[m].left] \cup r[heap[m].right]
  <2>1. CASE m \notin open
    BY <2>1
  <2>2. CASE m \in open
    <3>1. heap[m].left \in D /\ heap[m].right \in D
      BY <2>2 DEF Closed
    <3>2. r[m] = V(m) /\ r[heap[m].left] = V(heap[m].left) /\ r[heap[m].right] = V(heap[m].right)
      <4> HIDE DEF V, D
      <4> QED
        BY <3>1
    <3>3. V(m) = W(m)
      <4> HIDE DEF W
      <4> QED
        BY <2>2
    <3> HIDE DEF r, V, W
    <3> QED
      BY <1>1, <2>2, <3>2, <3>3
  <2> QED
    BY <2>1, <2>2
<1>3. r = [m \in D |-> r[m]]
  OBVIOUS
<1>4. r = [m \in D |-> IF m \notin open THEN {} ELSE {m} \cup r[heap[m].left] \cup r[heap[m].right]]
  <2> HIDE DEF r
  <2> QED
    BY <1>2, <1>3
<1> HIDE DEF r
<1> QED
  BY <1>4 DEF ReachedTable

LEMMA ReachedStep ==
  ASSUME NEW heap, Closed(heap), NEW open \in SUBSET DOMAIN heap,
         NEW n \in DOMAIN heap \cup {Nil}
  PROVE  Reached(heap, n, open)
           = IF n \notin open THEN {}
             ELSE {n} \cup Reached(heap, heap[n].left, open)
                      \cup Reached(heap, heap[n].right, open)
<1> DEFINE r == CHOOSE r : ReachedTable(heap, open, r)
<1>1. ReachedTable(heap, open, r)
  BY ReachedExists
<1>2. \A m : Reached(heap, m, open) = r[m]
  BY DEF Reached, ReachedTable
<1> HIDE DEF r
<1>3. r[n] = IF n \notin open THEN {} ELSE {n} \cup r[heap[n].left] \cup r[heap[n].right]
  BY <1>1 DEF ReachedTable
<1>4. /\ Reached(heap, n, open) = r[n]
      /\ Reached(heap, heap[n].left, open) = r[heap[n].left]
      /\ Reached(heap, heap[n].right, open) = r[heap[n].right]
  BY <1>2
<1> QED
  BY <1>3, <1>4

-----------------------------------------------------------------------------
(* The tree in a heap.  S is the set of its nodes, top the root and par[n] *)
(* the parent of n.                                                        *)
Linked(heap, S, par, top) ==
  /\ S \subseteq DOMAIN heap /\ top \in S /\ par[top] = Nil
  /\ \A n \in S : heap[n].left = Nil => heap[n].right = Nil
  /\ \A n \in S : heap[n].left # Nil =>
       /\ heap[n].left \in S /\ heap[n].right \in S /\ heap[n].left # heap[n].right
       /\ par[heap[n].left] = n /\ par[heap[n].right] = n
  /\ \A n \in S : n # top =>
       /\ par[n] \in S /\ heap[par[n]].left # Nil
       /\ n \in {heap[par[n]].left, heap[par[n]].right}

(* Numbers that decrease down the tree.                                    *)
Ranked(heap, S, rank) ==
  /\ \A n \in S : rank[n] \in Nat
  /\ \A n \in S : heap[n].left # Nil =>
       rank[heap[n].left] < rank[n] /\ rank[heap[n].right] < rank[n]

(* What is reached from n: n itself, only open nodes of the tree, each with*)
(* its parent but n, and each with its open children.                      *)
IsReached(heap, S, par, open, n, R) ==
  /\ n \in R /\ R \subseteq S \cap open
  /\ \A m \in R : m # n => par[m] \in R
  /\ \A m \in R : (heap[m].left \in open => heap[m].left \in R)
                  /\ (heap[m].right \in open => heap[m].right \in R)

LEMMA ReachedIs ==
  ASSUME NEW heap, Heap(heap), Closed(heap), NEW open \in SUBSET DOMAIN heap,
         NEW S, NEW par, NEW top, Linked(heap, S, par, top),
         NEW rank, Ranked(heap, S, rank)
  PROVE  \A n \in S \cap open : IsReached(heap, S, par, open, n, Reached(heap, n, open))
<1> DEFINE R(n) == Reached(heap, n, open)
           T == {k \in Nat : \A n \in S \cap open : rank[n] = k => IsReached(heap, S, par, open, n, R(n))}
<1>1. ASSUME NEW k \in Nat, \A j \in Nat : j < k => j \in T PROVE k \in T
  <2>1. SUFFICES ASSUME NEW n \in S \cap open, rank[n] = k
                 PROVE  IsReached(heap, S, par, open, n, R(n))
    OBVIOUS
  <2>2. S \subseteq DOMAIN heap /\ Nil \notin DOMAIN heap /\ n \in DOMAIN heap
    BY DEF Linked, Heap, Nil
  <2>3. \A m \in DOMAIN heap \cup {Nil} : R(m) = IF m \notin open THEN {} ELSE {m} \cup R(heap[m].left) \cup R(heap[m].right)
    BY ReachedStep
  <2>4. R(n) = {n} \cup R(heap[n].left) \cup R(heap[n].right)
    <3> HIDE DEF R
    <3> QED
      BY <2>2, <2>3
  <2>5. CASE heap[n].left = Nil
    <3>1. heap[n].right = Nil
      BY <2>5 DEF Linked
    <3>2. R(Nil) = {}
      <4> HIDE DEF R
      <4> QED
        BY <2>2, <2>3
    <3>3. R(n) = {n}
      <4> HIDE DEF R
      <4> QED
        BY <2>4, <2>5, <3>1, <3>2
    <3> HIDE DEF R
    <3> QED
      BY <2>2, <2>5, <3>1, <3>3 DEF IsReached
  <2>6. CASE heap[n].left # Nil
    <3> DEFINE Sub(c) == IF c \in open THEN IsReached(heap, S, par, open, c, R(c)) ELSE R(c) = {}
    <3>1. /\ heap[n].left \in S /\ heap[n].right \in S /\ par[heap[n].left] = n /\ par[heap[n].right] = n
      BY <2>6 DEF Linked
    <3>2. ASSUME NEW c \in S, rank[c] < rank[n] PROVE Sub(c)
      <4>1. CASE c \in open
        <5>1. rank[c] \in Nat /\ rank[c] < k
          BY <2>1, <3>2 DEF Ranked
        <5>2. rank[c] \in T
          BY <1>1, <5>1
        <5> HIDE DEF R
        <5> QED
          BY <4>1, <5>2
      <4>2. CASE c \notin open
        <5>1. c \in DOMAIN heap \cup {Nil}
          BY <2>2
        <5> HIDE DEF R
        <5> QED
          BY <2>3, <4>2, <5>1
      <4> QED
        BY <4>1, <4>2
    <3>3. Sub(heap[n].left) /\ Sub(heap[n].right)
      <4>1. rank[heap[n].left] < rank[n] /\ rank[heap[n].right] < rank[n]
        BY <2>6 DEF Ranked
      <4> HIDE DEF Sub
      <4> QED
        BY <3>1, <3>2, <4>1
    <3> HIDE DEF R
    <3>4. n \in R(n) /\ R(n) \subseteq S \cap open
      BY <2>4, <3>3 DEF IsReached
    <3>5. ASSUME NEW m \in R(n), m # n PROVE par[m] \in R(n)
      <4>1. CASE m \in R(heap[n].left)
        <5>1. m # heap[n].left => par[m] \in R(heap[n].left)
          BY <3>3, <4>1 DEF IsReached
        <5> QED
          BY <2>4, <3>1, <5>1
      <4>2. CASE m \in R(heap[n].right)
        <5>1. m # heap[n].right => par[m] \in R(heap[n].right)
          BY <3>3, <4>2 DEF IsReached
        <5> QED
          BY <2>4, <3>1, <5>1
      <4> QED
        BY <2>4, <3>5, <4>1, <4>2
    <3>6. ASSUME NEW m \in R(n)
          PROVE  (heap[m].left \in open => heap[m].left \in R(n))
                 /\ (heap[m].right \in open => heap[m].right \in R(n))
      <4>1. CASE m = n
        <5>1. heap[n].left \in open => heap[n].left \in R(heap[n].left)
          BY <3>3 DEF IsReached
        <5>2. heap[n].right \in open => heap[n].right \in R(heap[n].right)
          BY <3>3 DEF IsReached
        <5> QED
          BY <2>4, <4>1, <5>1, <5>2
      <4>2. CASE m \in R(heap[n].left)
        BY <2>4, <3>3, <4>2 DEF IsReached
      <4>3. CASE m \in R(heap[n].right)
        BY <2>4, <3>3, <4>3 DEF IsReached
      <4> QED
        BY <2>4, <4>1, <4>2, <4>3
    <3> QED
      BY <3>4, <3>5, <3>6 DEF IsReached
  <2> QED
    BY <2>5, <2>6
<1> HIDE DEF T
<1>2. Nat \subseteq T
  BY <1>1, SetStrongInduction
<1>3. \A n \in S : rank[n] \in Nat
  BY DEF Ranked
<1> HIDE DEF R
<1>4. ASSUME NEW n \in S \cap open PROVE IsReached(heap, S, par, open, n, R(n))
  <2>1. rank[n] \in T
    BY <1>2, <1>3
  <2> QED
    BY <2>1 DEF T
<1> QED
  BY <1>4 DEF R

(* Every open node is reached from the top when its parent is always open. *)
LEMMA ReachedCovers ==
  ASSUME NEW heap, NEW open, NEW S, NEW par, NEW top, Linked(heap, S, par, top),
         NEW rank, Ranked(heap, S, rank), NEW bound \in Nat, \A n \in S : rank[n] <= bound,
         \A n \in S \cap open : n # top => par[n] \in open,
         NEW R, IsReached(heap, S, par, open, top, R)
  PROVE  R = S \cap open
<1> DEFINE Left == {n \in S \cap open : n \notin R}
           T == {bound - rank[n] : n \in Left}
<1>1. SUFFICES ASSUME Left # {} PROVE FALSE
  BY DEF IsReached
<1>2. \A n \in S : rank[n] \in Nat
  BY DEF Ranked
<1>3. T \in SUBSET Nat /\ T # {}
  BY <1>1, <1>2
<1>4. PICK b \in T : \A c \in T : b <= c
  <2> HIDE DEF T
  <2> QED
    BY <1>3, LeastNumber
<1>5. PICK n \in Left : b = bound - rank[n]
  OBVIOUS
<1>6. n \in S /\ n \in open /\ n \notin R /\ n # top
  BY DEF IsReached
<1>7. par[n] \in S /\ par[n] \in open /\ heap[par[n]].left # Nil /\ n \in {heap[par[n]].left, heap[par[n]].right}
  BY <1>6 DEF Linked
<1>8. rank[n] < rank[par[n]]
  BY <1>7 DEF Ranked
<1>9. par[n] \in R
  <2>1. SUFFICES ASSUME par[n] \in Left PROVE FALSE
    BY <1>7
  <2>2. bound - rank[par[n]] \in T
    BY <2>1
  <2>3. bound - rank[n] <= bound - rank[par[n]]
    BY <1>4, <1>5, <2>2
  <2> QED
    BY <1>2, <1>6, <1>7, <1>8, <2>3
<1>10. n \in R
  BY <1>6, <1>7, <1>9 DEF IsReached
<1> QED
  BY <1>6, <1>10

-----------------------------------------------------------------------------
(* The leaves under the nodes: the cnt[n] leaves from off[n] are those under*)
(* n.  A left subtree is full and no smaller than its sibling; a node      *)
(* without children is a leaf, or all it stands for is flushed.  The node  *)
(* "loose" is exempt from counting what is under its children.             *)
Spans(heap, S, off, cnt, loose, nf) ==
  /\ \A n \in S : off[n] \in Nat /\ cnt[n] \in Nat \ {0}
  /\ \A n \in S : heap[n].left # Nil =>
       /\ off[heap[n].left] = off[n] /\ off[heap[n].right] = off[n] + cnt[heap[n].left]
       /\ cnt[heap[n].left] \in Powers /\ cnt[heap[n].right] <= cnt[heap[n].left]
       /\ n # loose => cnt[n] = cnt[heap[n].left] + cnt[heap[n].right]
  /\ \A n \in S : heap[n].left = Nil => cnt[n] \in Powers /\ (cnt[n] = 1 \/ off[n] + cnt[n] <= nf)

(* The root stands for all leaves.                                         *)
Fits(S, off, cnt, top, m) ==
  /\ off[top] = 0 /\ cnt[top] = m
  /\ \A n \in S : off[n] + cnt[n] <= m

(* Sizes and heights are right but for the stale nodes.                    *)
Measured(heap, S, cnt, stale) ==
  \A n \in S : n \notin stale =>
    heap[n].size = 2 * cnt[n] - 1 /\ HeightIs(heap[n].height, cnt[n])

(* A node that is not dirty has the hash of its leaves and no dirty node   *)
(* under it.                                                               *)
HashesRight(heap, S, off, cnt, L) ==
  \A n \in S :
    /\ ~heap[n].dirty => heap[n].hash = SubtreeHash(L)[cnt[n]][off[n]]
    /\ heap[n].left # Nil /\ ~heap[n].dirty =>
         ~heap[heap[n].left].dirty /\ ~heap[heap[n].right].dirty
    /\ heap[n].left = Nil => ~heap[n].dirty

Good(heap, S, par, off, cnt, top, L, nf, stale) ==
  /\ Heap(heap) /\ Closed(heap) /\ Linked(heap, S, par, top)
  /\ Spans(heap, S, off, cnt, Nil, nf) /\ Fits(S, off, cnt, top, Len(L))
  /\ Measured(heap, S, cnt, stale) /\ HashesRight(heap, S, off, cnt, L)

(* Two heaps with the same tree in them.                                   *)
SameLinks(g, h) ==
  /\ DOMAIN g = DOMAIN h
  /\ \A n \in DOMAIN h : g[n].left = h[n].left /\ g[n].right = h[n].right

LEMMA LinksCarry ==
  ASSUME NEW g, NEW h, SameLinks(g, h), Closed(h),
         NEW S, NEW par, NEW top, Linked(h, S, par, top)
  PROVE  /\ Closed(g) /\ Linked(g, S, par, top)
         /\ \A off, cnt, loose, nf :
              Spans(h, S, off, cnt, loose, nf) => Spans(g, S, off, cnt, loose, nf)
<1>1. S \subseteq DOMAIN h /\ \A n \in S : g[n].left = h[n].left /\ g[n].right = h[n].right
  BY DEF SameLinks, Linked
<1>2. Closed(g)
  BY DEF Closed, SameLinks
<1>3. Linked(g, S, par, top)
  BY <1>1 DEF Linked, SameLinks
<1>4. ASSUME NEW off, NEW cnt, NEW loose, NEW nf, Spans(h, S, off, cnt, loose, nf)
      PROVE  Spans(g, S, off, cnt, loose, nf)
  BY <1>1, <1>4 DEF Spans
<1> QED
  BY <1>2, <1>3, <1>4

(* The counts decrease down the tree.                                      *)
LEMMA CountsRank ==
  ASSUME NEW heap, NEW S, NEW par, NEW top, Linked(heap, S, par, top),
         NEW off, NEW cnt, NEW nf, Nil \notin S, Spans(heap, S, off, cnt, Nil, nf)
  PROVE  Ranked(heap, S, cnt)
<1>1. ASSUME NEW n \in S, heap[n].left # Nil
      PROVE  cnt[heap[n].left] < cnt[n] /\ cnt[heap[n].right] < cnt[n]
  <2>1. heap[n].left \in S /\ heap[n].right \in S
    BY <1>1 DEF Linked
  <2>2. cnt[heap[n].left] \in Nat \ {0} /\ cnt[heap[n].right] \in Nat \ {0} /\ cnt[n] \in Nat
    BY <2>1 DEF Spans
  <2>3. cnt[n] = cnt[heap[n].left] + cnt[heap[n].right]
    BY <1>1 DEF Spans
  <2> QED
    BY <2>2, <2>3
<1> QED
  BY <1>1 DEF Ranked, Spans

-----------------------------------------------------------------------------
(* hash(): every dirty node gets the hash of its leaves.                    *)

HashTable(heap, hash) ==
  hash = [m \in DOMAIN heap |->
            IF heap[m].dirty THEN HashFunction(hash[heap[m].left], hash[heap[m].right])
            ELSE heap[m].hash]

Rehashed(heap, off, cnt, L) ==
  [m \in DOMAIN heap |->
     IF heap[m].dirty
     THEN [heap[m] EXCEPT !.hash = SubtreeHash(L)[cnt[m]][off[m]], !.dirty = FALSE]
     ELSE heap[m]]

LEMMA HashOfSpan ==
  ASSUME NEW heap, NEW S, NEW par, NEW top, Linked(heap, S, par, top),
         NEW off, NEW cnt, NEW nf, Spans(heap, S, off, cnt, Nil, nf), Nil \notin S,
         NEW L, Len(L) \in Nat, \A n \in S : off[n] + cnt[n] <= Len(L),
         NEW n \in S, heap[n].left # Nil
  PROVE  SubtreeHash(L)[cnt[n]][off[n]]
           = HashFunction(SubtreeHash(L)[cnt[heap[n].left]][off[heap[n].left]],
                          SubtreeHash(L)[cnt[heap[n].right]][off[heap[n].right]])
<1>1. heap[n].left \in S /\ heap[n].right \in S
  BY DEF Linked
<1>2. PICK a, b, o : a = cnt[heap[n].left] /\ b = cnt[heap[n].right] /\ o = off[n]
  OBVIOUS
<1>3. a \in Powers /\ b \in Nat \ {0} /\ b <= a /\ o \in Nat
  <2>1. a \in Powers /\ b <= a
    BY <1>2 DEF Spans
  <2>2. cnt[heap[n].right] \in Nat \ {0} /\ off[n] \in Nat
    BY <1>1 DEF Spans
  <2> QED
    BY <1>2, <2>1, <2>2
<1>4. cnt[n] = a + b /\ off[heap[n].left] = o /\ off[heap[n].right] = o + a
  BY <1>2 DEF Spans
<1>5. a \in Nat
  BY <1>3, PowersNat
<1>6. o + a + b <= Len(L)
  <2>1. off[n] + cnt[n] <= Len(L)
    OBVIOUS
  <2> QED
    BY <1>2, <1>3, <1>4, <1>5, <2>1
<1>7. SubtreeHash(L)[a + b][o] = HashFunction(SubtreeHash(L)[a][o], SubtreeHash(L)[b][o + a])
  BY <1>3, <1>6, HashOfInner
<1> QED
  BY <1>2, <1>4, <1>7

LEMMA HashIs ==
  ASSUME NEW heap, NEW S, NEW par, NEW top, Linked(heap, S, par, top), Nil \notin S,
         NEW off, NEW cnt, NEW nf, Spans(heap, S, off, cnt, Nil, nf),
         NEW L, Len(L) \in Nat, \A n \in S : off[n] + cnt[n] <= Len(L),
         HashesRight(heap, S, off, cnt, L), \A n \in DOMAIN heap : n \notin S => ~heap[n].dirty,
         NEW hash, hash = CHOOSE f : HashTable(heap, f)
  PROVE  \A n \in S : hash[n] = SubtreeHash(L)[cnt[n]][off[n]]
<1> DEFINE H(n) == SubtreeHash(L)[cnt[n]][off[n]]
           g == [m \in DOMAIN heap |-> IF m \in S THEN H(m) ELSE heap[m].hash]
<1>1. S \subseteq DOMAIN heap
  BY DEF Linked
<1>2. \A n \in S : heap[n].dirty =>
        /\ heap[n].left \in S /\ heap[n].right \in S
        /\ H(n) = HashFunction(H(heap[n].left), H(heap[n].right))
  <2>1. ASSUME NEW n \in S, heap[n].dirty
        PROVE  /\ heap[n].left \in S /\ heap[n].right \in S
               /\ H(n) = HashFunction(H(heap[n].left), H(heap[n].right))
    <3>1. heap[n].left # Nil
      BY <2>1 DEF HashesRight
    <3>2. heap[n].left \in S /\ heap[n].right \in S
      BY <3>1 DEF Linked
    <3> QED
      BY <3>1, <3>2, HashOfSpan
  <2> QED
    BY <2>1
<1>3. \A n \in S : ~heap[n].dirty => heap[n].hash = H(n)
  BY DEF HashesRight
<1> HIDE DEF H
<1>4. ASSUME NEW m \in DOMAIN heap
      PROVE  g[m] = IF heap[m].dirty THEN HashFunction(g[heap[m].left], g[heap[m].right])
                    ELSE heap[m].hash
  <2>1. CASE m \in S /\ heap[m].dirty
    <3>1. heap[m].left \in S /\ heap[m].right \in S /\ H(m) = HashFunction(H(heap[m].left), H(heap[m].right))
      BY <1>2, <2>1
    <3>2. g[m] = H(m) /\ g[heap[m].left] = H(heap[m].left) /\ g[heap[m].right] = H(heap[m].right)
      BY <1>1, <2>1, <3>1
    <3> HIDE DEF g
    <3> QED
      BY <2>1, <3>1, <3>2
  <2>2. CASE m \in S /\ ~heap[m].dirty
    BY <1>3, <2>2
  <2>3. CASE m \notin S
    BY <2>3
  <2> QED
    BY <2>1, <2>2, <2>3
<1>5. HashTable(heap, g)
  <2>1. g = [m \in DOMAIN heap |-> g[m]]
    OBVIOUS
  <2> HIDE DEF g
  <2>2. g = [m \in DOMAIN heap |-> IF heap[m].dirty THEN HashFunction(g[heap[m].left], g[heap[m].right])
                                   ELSE heap[m].hash]
    BY <1>4, <2>1
  <2> QED
    BY <2>2 DEF HashTable
<1> HIDE DEF g
<1>6. HashTable(heap, hash)
  BY <1>5
<1>7. \A m \in S : hash[m] = IF heap[m].dirty THEN HashFunction(hash[heap[m].left], hash[heap[m].right])
                             ELSE heap[m].hash
  BY <1>1, <1>6 DEF HashTable
<1> DEFINE T == {k \in Nat : \A n \in S : cnt[n] = k => hash[n] = H(n)}
<1>8. ASSUME NEW k \in Nat, \A j \in Nat : j < k => j \in T PROVE k \in T
  <2>1. SUFFICES ASSUME NEW n \in S, cnt[n] = k PROVE hash[n] = H(n)
    OBVIOUS
  <2>2. CASE ~heap[n].dirty
    BY <1>3, <1>7, <2>2
  <2>3. CASE heap[n].dirty
    <3>1. heap[n].left \in S /\ heap[n].right \in S /\ H(n) = HashFunction(H(heap[n].left), H(heap[n].right))
      BY <1>2, <2>3
    <3>2. heap[n].left # Nil
      BY <3>1
    <3>3. cnt[heap[n].left] < cnt[n] /\ cnt[heap[n].right] < cnt[n]
          /\ cnt[heap[n].left] \in Nat /\ cnt[heap[n].right] \in Nat
      BY <3>1, <3>2, CountsRank DEF Ranked
    <3>4. hash[heap[n].left] = H(heap[n].left) /\ hash[heap[n].right] = H(heap[n].right)
      BY <1>8, <2>1, <3>1, <3>3
    <3>5. hash[n] = HashFunction(hash[heap[n].left], hash[heap[n].right])
      BY <1>7, <2>3
    <3> QED
      BY <3>1, <3>4, <3>5
  <2> QED
    BY <2>2, <2>3
<1> HIDE DEF T
<1>9. Nat \subseteq T
  BY <1>8, SetStrongInduction
<1>10. \A n \in S : cnt[n] \in Nat
  BY DEF Spans
<1>11. \A n \in S : hash[n] = H(n)
  BY <1>9, <1>10 DEF T
<1> QED
  BY <1>11 DEF H

LEMMA HashIfDirtyIs ==
  ASSUME NEW heap, NEW S, NEW par, NEW off, NEW cnt, NEW top, NEW L, NEW nf, NEW stale,
         Good(heap, S, par, off, cnt, top, L, nf, stale), Len(L) \in Nat,
         \A n \in DOMAIN heap : n \notin S => ~heap[n].dirty
  PROVE  HashIfDirty(heap, top) = Rehashed(heap, off, cnt, L)
<1> DEFINE hash == CHOOSE f : HashTable(heap, f)
           open == Dirty(heap)
           R == Reached(heap, top, open)
<1>1. /\ Heap(heap) /\ Closed(heap) /\ Linked(heap, S, par, top)
      /\ Spans(heap, S, off, cnt, Nil, nf) /\ HashesRight(heap, S, off, cnt, L)
      /\ \A n \in S : off[n] + cnt[n] <= Len(L)
  BY DEF Good, Fits
<1>2. Nil \notin S /\ S \subseteq DOMAIN heap /\ top \in S
  BY <1>1 DEF Linked, Heap, Nil
<1>3. \A n \in S : hash[n] = SubtreeHash(L)[cnt[n]][off[n]]
  <2> HIDE DEF hash
  <2>1. hash = CHOOSE f : HashTable(heap, f)
    BY DEF hash
  <2> QED
    BY <1>1, <1>2, <2>1, HashIs
<1>4. open \in SUBSET DOMAIN heap /\ open \subseteq S
  BY DEF Dirty
<1>5. Ranked(heap, S, cnt) /\ \A n \in S : cnt[n] <= Len(L)
  <2>1. \A n \in S : off[n] \in Nat /\ cnt[n] \in Nat
    BY <1>1 DEF Spans
  <2> QED
    BY <1>1, <1>2, <2>1, CountsRank
<1>6. R = open
  <2>1. CASE top \in open
    <3>1. \A n \in S \cap open : IsReached(heap, S, par, open, n, Reached(heap, n, open))
      BY <1>1, <1>4, <1>5, ReachedIs
    <3>2. IsReached(heap, S, par, open, top, R)
      BY <1>2, <2>1, <3>1
    <3>3. ASSUME NEW n \in S \cap open, n # top PROVE par[n] \in open
      <4>1. par[n] \in S /\ heap[par[n]].left # Nil /\ n \in {heap[par[n]].left, heap[par[n]].right}
        BY <1>1, <3>3 DEF Linked
      <4>2. heap[n].dirty
        BY DEF Dirty
      <4>3. heap[par[n]].dirty
        BY <1>1, <4>1, <4>2 DEF HashesRight
      <4> QED
        BY <1>2, <4>1, <4>3 DEF Dirty
    <3> HIDE DEF R, open
    <3>4. R = S \cap open
      BY <1>1, <1>5, <3>2, <3>3, ReachedCovers
    <3> QED
      BY <1>4, <3>4
  <2>2. CASE top \notin open
    <3>1. R = {}
      BY <1>1, <1>2, <1>4, <2>2, ReachedStep
    <3>2. ASSUME NEW n \in open PROVE FALSE
      <4> DEFINE Gaps == {m \in Nat : \E x \in open : m = Len(L) - cnt[x]}
      <4>1. \A x \in open : x \in S /\ cnt[x] \in Nat /\ cnt[x] <= Len(L)
        BY <1>1, <1>4, <1>5 DEF Spans
      <4>2. Gaps \in SUBSET Nat /\ Gaps # {}
        <5>1. Len(L) - cnt[n] \in Nat
          BY <4>1
        <5>2. Len(L) - cnt[n] \in Gaps
          BY <5>1
        <5> QED
          BY <5>2
      <4>3. PICK m \in Gaps : \A j \in Gaps : m <= j
        <5> HIDE DEF Gaps
        <5> QED
          BY <4>2, LeastNumber
      <4>4. PICK x \in open : m = Len(L) - cnt[x]
        OBVIOUS
      <4>5. x \in S /\ x # top /\ heap[x].dirty
        BY <1>4, <2>2 DEF Dirty
      <4>6. par[x] \in S /\ heap[par[x]].left # Nil /\ x \in {heap[par[x]].left, heap[par[x]].right}
        BY <1>1, <4>5 DEF Linked
      <4>7. heap[par[x]].dirty
        BY <1>1, <4>5, <4>6 DEF HashesRight
      <4>8. par[x] \in open
        BY <1>2, <4>6, <4>7 DEF Dirty
      <4>9. cnt[x] < cnt[par[x]]
        BY <1>5, <4>6 DEF Ranked
      <4>10. Len(L) - cnt[par[x]] \in Gaps
        BY <4>1, <4>8
      <4>11. m <= Len(L) - cnt[par[x]]
        BY <4>3, <4>10
      <4> QED
        BY <4>1, <4>4, <4>8, <4>9, <4>11
    <3> QED
      BY <3>1, <3>2
  <2> QED
    BY <2>1, <2>2
<1>7. HashIfDirty(heap, top)
        = [m \in DOMAIN heap |-> IF m \in R THEN [heap[m] EXCEPT !.hash = hash[m], !.dirty = FALSE]
                                 ELSE heap[m]]
  BY DEF HashIfDirty, HashTable
<1>8. \A m \in DOMAIN heap : m \in R <=> heap[m].dirty
  BY <1>6 DEF Dirty
<1>9. \A m \in R : hash[m] = SubtreeHash(L)[cnt[m]][off[m]]
  BY <1>3, <1>4, <1>6
<1> HIDE DEF hash, R
<1> QED
  BY <1>7, <1>8, <1>9 DEF Rehashed

(* What hash() leaves: the same tree, clean.                                *)
LEMMA RehashedGood ==
  ASSUME NEW heap, NEW S, NEW par, NEW off, NEW cnt, NEW top, NEW L, NEW nf, NEW stale,
         Good(heap, S, par, off, cnt, top, L, nf, stale),
         NEW g, g = Rehashed(heap, off, cnt, L)
  PROVE  /\ Good(g, S, par, off, cnt, top, L, nf, stale)
         /\ SameLinks(g, heap) /\ \A n \in S : ~g[n].dirty
         /\ \A n \in DOMAIN heap : ~heap[n].dirty => g[n] = heap[n]
<1>1. /\ Heap(heap) /\ Closed(heap) /\ Linked(heap, S, par, top)
      /\ Spans(heap, S, off, cnt, Nil, nf) /\ HashesRight(heap, S, off, cnt, L)
      /\ Measured(heap, S, cnt, stale)
  BY DEF Good
<1>2. DOMAIN g = DOMAIN heap /\ g = [n \in DOMAIN g |-> g[n]]
  BY DEF Rehashed
<1>3. ASSUME NEW n \in DOMAIN heap
      PROVE  /\ IsNode(g[n]) /\ g[n].left = heap[n].left /\ g[n].right = heap[n].right
             /\ g[n].size = heap[n].size /\ g[n].height = heap[n].height /\ g[n].dirty = FALSE
             /\ heap[n].dirty => g[n].hash = SubtreeHash(L)[cnt[n]][off[n]]
             /\ ~heap[n].dirty => g[n] = heap[n]
  <2>1. IsNode(heap[n])
    BY <1>1 DEF Heap
  <2>2. CASE heap[n].dirty
    <3>1. g[n] = [heap[n] EXCEPT !.hash = SubtreeHash(L)[cnt[n]][off[n]], !.dirty = FALSE]
      BY <2>2 DEF Rehashed
    <3>2. /\ IsNode(g[n]) /\ g[n].left = heap[n].left /\ g[n].right = heap[n].right
          /\ g[n].size = heap[n].size /\ g[n].height = heap[n].height
          /\ g[n].hash = SubtreeHash(L)[cnt[n]][off[n]] /\ g[n].dirty = FALSE
      <4>1. PICK x, h, y : x = heap[n] /\ h = SubtreeHash(L)[cnt[n]][off[n]] /\ y = g[n]
        OBVIOUS
      <4>2. IsNode(x) /\ y = [x EXCEPT !.hash = h, !.dirty = FALSE]
        BY <2>1, <3>1, <4>1
      <4>3. /\ IsNode(y) /\ y.left = x.left /\ y.right = x.right /\ y.size = x.size
            /\ y.height = x.height /\ y.hash = h /\ y.dirty = FALSE
        BY <4>2 DEF IsNode
      <4> QED
        BY <4>1, <4>3
    <3> QED
      BY <2>2, <3>2
  <2>3. CASE ~heap[n].dirty
    <3>1. g[n] = heap[n]
      BY <2>3 DEF Rehashed
    <3>2. heap[n].dirty \in BOOLEAN
      BY <2>1 DEF IsNode
    <3> QED
      BY <2>1, <2>3, <3>1, <3>2
  <2> QED
    BY <2>2, <2>3
<1>4. SameLinks(g, heap)
  BY <1>2, <1>3 DEF SameLinks
<1>5. Closed(g) /\ Linked(g, S, par, top) /\ Spans(g, S, off, cnt, Nil, nf)
  BY <1>1, <1>4, LinksCarry
<1>6. Heap(g)
  BY <1>1, <1>2, <1>3 DEF Heap
<1>7. S \subseteq DOMAIN heap
  BY <1>1 DEF Linked
<1>8. Measured(g, S, cnt, stale)
  BY <1>1, <1>3, <1>7 DEF Measured
<1>9. HashesRight(g, S, off, cnt, L)
  <2>1. ASSUME NEW n \in S
        PROVE  /\ g[n].hash = SubtreeHash(L)[cnt[n]][off[n]] /\ ~g[n].dirty
               /\ g[n].left # Nil => ~g[g[n].left].dirty /\ ~g[g[n].right].dirty
    <3>1. n \in DOMAIN heap /\ (~heap[n].dirty => heap[n].hash = SubtreeHash(L)[cnt[n]][off[n]])
      BY <1>1, <1>7 DEF HashesRight
    <3>2. g[n].left # Nil => g[n].left \in S /\ g[n].right \in S
      BY <1>5 DEF Linked
    <3> QED
      BY <1>3, <1>7, <3>1, <3>2
  <2> QED
    BY <2>1 DEF HashesRight
<1> QED
  BY <1>3, <1>4, <1>5, <1>6, <1>7, <1>8, <1>9 DEF Good

-----------------------------------------------------------------------------
(* Least and greatest, and the name of a new node.                          *)
LEMMA MinIs ==
  ASSUME NEW T \in SUBSET Nat, T # {}
  PROVE  Min(T) \in T /\ \A k \in T : Min(T) <= k
<1>1. \E n \in T : \A m \in T : n <= m
  BY LeastNumber
<1> QED
  BY <1>1 DEF Min

LEMMA MaxOfTwo ==
  ASSUME NEW a \in Nat, NEW b \in Nat, b <= a
  PROVE  Max({a, b}) = a
<1>1. a \in {a, b} /\ \A y \in {a, b} : a >= y
  OBVIOUS
<1>2. \A x \in {a, b} : (\A y \in {a, b} : x >= y) => x = a
  OBVIOUS
<1> QED
  BY <1>1, <1>2 DEF Max

LEMMA FreshIs ==
  ASSUME NEW heap, Heap(heap)
  PROVE  Fresh(heap) \in Nat \ {0} /\ Fresh(heap) \notin DOMAIN heap
<1> DEFINE n == Cardinality(DOMAIN heap)
           T == (1 .. n + 1) \ DOMAIN heap
<1>1. IsFiniteSet(DOMAIN heap) /\ n \in Nat
  BY FS_CardinalityType DEF Heap
<1>2. T # {}
  <2>1. SUFFICES ASSUME 1 .. n + 1 \subseteq DOMAIN heap PROVE FALSE
    OBVIOUS
  <2>2. Cardinality(1 .. n + 1) <= n
    BY <1>1, <2>1, FS_Subset
  <2>3. Cardinality(1 .. n + 1) = n + 1
    <3>1. 1 \in Int /\ n + 1 \in Int
      BY <1>1
    <3> HIDE DEF n
    <3> QED
      BY <1>1, <3>1, FS_Interval
  <2> HIDE DEF n
  <2> QED
    BY <1>1, <2>2, <2>3
<1>3. T \in SUBSET Nat
  BY <1>1
<1>4. Fresh(heap) = Min(T)
  BY DEF Fresh
<1>5. Min(T) \in T
  <2> HIDE DEF T
  <2> QED
    BY <1>2, <1>3, MinIs
<1> QED
  BY <1>1, <1>4, <1>5

-----------------------------------------------------------------------------
(* update_sizes()                                                           *)

(* The same tree, but for the sizes.                                       *)
SameTree(g, h) ==
  /\ SameLinks(g, h)
  /\ \A n \in DOMAIN h : g[n].hash = h[n].hash /\ g[n].dirty = h[n].dirty

LEMMA SizedGood ==
  ASSUME NEW heap, NEW S, NEW par, NEW off, NEW cnt, NEW top, NEW L, NEW nf, NEW stale,
         Good(heap, S, par, off, cnt, top, L, nf, stale),
         NEW g, Heap(g), SameTree(g, heap), NEW rest, Measured(g, S, cnt, rest)
  PROVE  Good(g, S, par, off, cnt, top, L, nf, rest)
<1>1. /\ Heap(heap) /\ Closed(heap) /\ Linked(heap, S, par, top)
      /\ Spans(heap, S, off, cnt, Nil, nf) /\ Fits(S, off, cnt, top, Len(L))
      /\ HashesRight(heap, S, off, cnt, L)
  BY DEF Good
<1>2. SameLinks(g, heap) /\ \A n \in DOMAIN heap : g[n].hash = heap[n].hash /\ g[n].dirty = heap[n].dirty
  BY DEF SameTree
<1>3. Closed(g) /\ Linked(g, S, par, top) /\ Spans(g, S, off, cnt, Nil, nf)
  BY <1>1, <1>2, LinksCarry
<1>4. HashesRight(g, S, off, cnt, L)
  <2>1. S \subseteq DOMAIN heap /\ \A n \in S : g[n].left = heap[n].left /\ g[n].right = heap[n].right
    BY <1>1, <1>2 DEF Linked, SameLinks
  <2>2. \A n \in S : heap[n].left # Nil => heap[n].left \in S /\ heap[n].right \in S
    BY <1>1 DEF Linked
  <2> QED
    BY <1>1, <1>2, <2>1, <2>2 DEF HashesRight
<1> QED
  BY <1>1, <1>3, <1>4 DEF Good

(* A node with two children gets the size and the height of what it spans. *)
LEMMA SizedNodeIs ==
  ASSUME NEW heap, NEW x, IsNode(x), NEW y, y = Sized(heap, x), x.left # Nil, x.right # Nil,
         NEW a \in Powers, NEW b \in Nat \ {0}, b <= a,
         heap[x.left].size = 2 * a - 1, HeightIs(heap[x.left].height, a),
         heap[x.right].size = 2 * b - 1, HeightIs(heap[x.right].height, b)
  PROVE  /\ IsNode(y) /\ y.left = x.left /\ y.right = x.right /\ y.hash = x.hash /\ y.dirty = x.dirty
         /\ y.size = 2 * (a + b) - 1 /\ y.height = heap[x.left].height + 1
         /\ HeightIs(y.height, a + b)
<1>1. PICK l, r, h, i : l = heap[x.left].size /\ r = heap[x.right].size
                        /\ h = heap[x.left].height /\ i = heap[x.right].height
  OBVIOUS
<1>2. a \in Nat \ {0}
  BY PowersNat
<1>3. h \in Nat /\ i \in Nat /\ i <= h /\ HeightIs(h + 1, a + b)
  <2>1. HeightIs(h, a) /\ HeightIs(i, b)
    BY <1>1
  <2>2. h \in Nat /\ i \in Nat
    BY <2>1 DEF HeightIs
  <2> QED
    BY <2>1, <2>2, JoinHeight
<1>4. Max({h, i}) = h
  BY <1>3, MaxOfTwo
<1>5. y = [x EXCEPT !.size = l + r + 1, !.height = h + 1]
  BY <1>1, <1>4 DEF Sized
<1>6. l + r + 1 = 2 * (a + b) - 1 /\ l + r + 1 \in Nat /\ h + 1 \in Nat
  BY <1>1, <1>2, <1>3
<1>7. PICK s, k : s = l + r + 1 /\ k = h + 1
  OBVIOUS
<1>8. y = [x EXCEPT !.size = s, !.height = k] /\ s \in Nat /\ k \in Nat
  BY <1>5, <1>6, <1>7
<1>9. /\ IsNode(y) /\ y.left = x.left /\ y.right = x.right /\ y.hash = x.hash /\ y.dirty = x.dirty
      /\ y.size = s /\ y.height = k
  BY <1>8 DEF IsNode
<1> QED
  BY <1>1, <1>3, <1>6, <1>7, <1>9

LEMMA UpdateSizesGood ==
  ASSUME NEW heap, NEW S, NEW par, NEW off, NEW cnt, NEW top, NEW L, NEW nf, NEW stale,
         Good(heap, S, par, off, cnt, top, L, nf, stale),
         NEW x \in S, heap[x].left # Nil, heap[x].left \notin stale, heap[x].right \notin stale,
         NEW rest, \A n \in S : n \in stale => n = x \/ n \in rest,
         NEW g, g = UpdateSizes(heap, x)
  PROVE  /\ Good(g, S, par, off, cnt, top, L, nf, rest) /\ SameTree(g, heap)
         /\ \A n \in DOMAIN heap : n \notin S => g[n] = heap[n]
<1>1. /\ Heap(heap) /\ Closed(heap) /\ Linked(heap, S, par, top)
      /\ Spans(heap, S, off, cnt, Nil, nf) /\ Measured(heap, S, cnt, stale)
  BY DEF Good
<1>2. /\ x \in DOMAIN heap /\ heap[x].left \in S /\ heap[x].right \in S /\ IsNode(heap[x])
      /\ S \subseteq DOMAIN heap /\ Nil \notin DOMAIN heap
  BY <1>1 DEF Linked, Heap, Nil
<1>3. PICK a, b, y : a = cnt[heap[x].left] /\ b = cnt[heap[x].right] /\ y = Sized(heap, heap[x])
  OBVIOUS
<1>4. a \in Powers /\ b <= a /\ cnt[x] = a + b /\ b \in Nat \ {0}
  <2>1. a \in Powers /\ b <= a
    BY <1>1, <1>3 DEF Spans
  <2>2. cnt[x] = a + b
    <3>1. x # Nil
      BY <1>2
    <3> QED
      BY <1>1, <1>3, <3>1 DEF Spans
  <2>3. b \in Nat \ {0}
    BY <1>1, <1>2, <1>3 DEF Spans
  <2> QED
    BY <2>1, <2>2, <2>3
<1>5. /\ heap[heap[x].left].size = 2 * a - 1 /\ HeightIs(heap[heap[x].left].height, a)
      /\ heap[heap[x].right].size = 2 * b - 1 /\ HeightIs(heap[heap[x].right].height, b)
  BY <1>1, <1>2, <1>3 DEF Measured
<1>6. /\ IsNode(y) /\ y.left = heap[x].left /\ y.right = heap[x].right
      /\ y.hash = heap[x].hash /\ y.dirty = heap[x].dirty
      /\ y.size = 2 * (a + b) - 1 /\ HeightIs(y.height, a + b)
  <2>1. heap[x].right # Nil
    BY <1>2
  <2> QED
    BY <1>2, <1>3, <1>4, <1>5, <2>1, SizedNodeIs
<1>7. g = [n \in DOMAIN heap |-> IF n = x THEN y ELSE heap[n]]
  <2>1. g = [heap EXCEPT ![x] = Sized(heap, heap[x])]
    BY DEF UpdateSizes
  <2>2. heap = [n \in DOMAIN heap |-> heap[n]]
    BY <1>1 DEF Heap
  <2> QED
    BY <1>3, <2>1, <2>2
<1>8. DOMAIN g = DOMAIN heap /\ g[x] = y /\ \A n \in DOMAIN heap : n # x => g[n] = heap[n]
  BY <1>2, <1>7
<1>9. Heap(g)
  BY <1>1, <1>6, <1>7, <1>8 DEF Heap
<1>10. SameTree(g, heap)
  BY <1>6, <1>8 DEF SameTree, SameLinks
<1>11. Measured(g, S, cnt, rest)
  <2>1. SUFFICES ASSUME NEW n \in S, n \notin rest
                 PROVE  g[n].size = 2 * cnt[n] - 1 /\ HeightIs(g[n].height, cnt[n])
    BY DEF Measured
  <2>2. CASE n = x
    BY <1>4, <1>6, <1>8, <2>2
  <2>3. CASE n # x
    <3>1. n \notin stale /\ g[n] = heap[n]
      BY <1>2, <1>8, <2>1, <2>3
    <3> QED
      BY <1>1, <3>1 DEF Measured
  <2> QED
    BY <2>2, <2>3
<1>12. Good(g, S, par, off, cnt, top, L, nf, rest)
  BY <1>9, <1>10, <1>11, SizedGood
<1>13. \A n \in DOMAIN heap : n \notin S => g[n] = heap[n]
  BY <1>8
<1> QED
  BY <1>10, <1>12, <1>13

LEMMA Decreasing ==
  ASSUME NEW m \in Nat, NEW f, \A i \in 0 .. m : f[i] \in Nat,
         \A i \in Nat : i < m => f[i + 1] < f[i]
  PROVE  \A i \in 0 .. m : \A j \in 0 .. m : i < j => f[j] < f[i]
<1> DEFINE T == {j \in Nat : j <= m => \A i \in 0 .. m : i < j => f[j] < f[i]}
<1>1. 0 \in T
  OBVIOUS
<1>2. ASSUME NEW j \in Nat, j \in T PROVE j + 1 \in T
  <2>1. SUFFICES ASSUME j + 1 <= m, NEW i \in 0 .. m, i < j + 1 PROVE f[j + 1] < f[i]
    OBVIOUS
  <2>2. f[j + 1] < f[j] /\ j \in 0 .. m /\ j + 1 \in 0 .. m
    BY <2>1
  <2>3. f[j] \in Nat /\ f[j + 1] \in Nat /\ f[i] \in Nat
    BY <2>2
  <2>4. CASE i = j
    BY <2>2, <2>4
  <2>5. CASE i < j
    <3>1. f[j] < f[i]
      BY <1>2, <2>1, <2>5
    <3> QED
      BY <2>2, <2>3, <3>1
  <2> QED
    BY <2>1, <2>4, <2>5
<1> HIDE DEF T
<1>3. Nat \subseteq T
  BY <1>1, <1>2, SetInduction
<1> QED
  BY <1>3 DEF T

-----------------------------------------------------------------------------
(* continue_insertion_stack(): the walk down the right edge.                *)

(* The nodes d[1], .., d[k + 1] are on the right edge, each but the last   *)
(* the parent of the next.                                                 *)
Edge(heap, S, off, cnt, m, d, k) ==
  /\ \A i \in 1 .. k + 1 : d[i] \in S /\ off[d[i]] + cnt[d[i]] = m
  /\ \A i \in 1 .. k : heap[d[i]].left # Nil /\ heap[d[i]].right = d[i + 1]
  /\ \A i \in 1 .. k + 1 : \A j \in 1 .. k + 1 : i < j => cnt[d[j]] < cnt[d[i]]

LEMMA FullIs ==
  ASSUME NEW heap, NEW S, NEW cnt, NEW stale, Measured(heap, S, cnt, stale),
         NEW x \in S, x \notin stale
  PROVE  IsFull(heap[x]) <=> cnt[x] \in Powers
<1>1. PICK h, c : h = heap[x].height /\ c = cnt[x]
  OBVIOUS
<1>2. heap[x].size = 2 * c - 1 /\ HeightIs(h, c)
  BY <1>1 DEF Measured
<1> QED
  BY <1>1, <1>2, FullIsPower DEF IsFull

(* A node that is not full has two children, the left one full.             *)
LEMMA OpenNode ==
  ASSUME NEW heap, NEW S, NEW par, NEW off, NEW cnt, NEW top, NEW L, NEW nf, NEW stale,
         Good(heap, S, par, off, cnt, top, L, nf, stale),
         NEW x \in S, cnt[x] \notin Powers
  PROVE  /\ heap[x].left # Nil /\ heap[x].left \in S /\ heap[x].right \in S
         /\ cnt[heap[x].left] \in Powers /\ cnt[heap[x].left] < cnt[x]
         /\ cnt[heap[x].right] < cnt[x] /\ cnt[heap[x].right] < cnt[heap[x].left]
         /\ off[heap[x].right] + cnt[heap[x].right] = off[x] + cnt[x]
<1>1. /\ Linked(heap, S, par, top) /\ Spans(heap, S, off, cnt, Nil, nf) /\ Nil \notin S
  BY DEF Good, Linked, Heap, Nil
<1>2. heap[x].left # Nil
  BY <1>1 DEF Spans
<1>3. heap[x].left \in S /\ heap[x].right \in S
  BY <1>1, <1>2 DEF Linked
<1>4. PICK a, b, c, o, w : a = cnt[heap[x].left] /\ b = cnt[heap[x].right] /\ c = cnt[x]
                           /\ o = off[x] /\ w = off[heap[x].right]
  OBVIOUS
<1>5. a \in Powers /\ b <= a /\ c = a + b /\ w = o + a
  BY <1>1, <1>2, <1>4 DEF Spans
<1>6. b \in Nat \ {0} /\ o \in Nat
  BY <1>1, <1>3, <1>4 DEF Spans
<1>7. a \in Nat \ {0}
  BY <1>5, PowersNat
<1>8. b # a
  BY <1>4, <1>5, <1>6, PowerSum
<1> QED
  BY <1>2, <1>3, <1>4, <1>5, <1>6, <1>7, <1>8

LEMMA LowerIs ==
  ASSUME NEW heap, NEW S, NEW par, NEW off, NEW cnt, NEW top, NEW L, NEW nf, NEW stale,
         Good(heap, S, par, off, cnt, top, L, nf, stale),
         NEW x \in S, \A y \in S : cnt[y] <= cnt[x] => y \notin stale
  PROVE  /\ Lower(heap, x) = IF cnt[x] \in Powers THEN x ELSE heap[x].right
         /\ cnt[x] \notin Powers => ~GoLeft(heap, x) /\ heap[heap[x].right].height < heap[x].height
<1>1. Measured(heap, S, cnt, stale) /\ \A y \in S : cnt[y] \in Nat
  BY DEF Good, Spans
<1>2. x \notin stale
  BY <1>1
<1>3. IsFull(heap[x]) <=> cnt[x] \in Powers
  BY <1>1, <1>2, FullIs
<1>4. CASE cnt[x] \in Powers
  BY <1>3, <1>4 DEF Lower
<1>5. CASE cnt[x] \notin Powers
  <2>1. /\ heap[x].left # Nil /\ heap[x].left \in S /\ heap[x].right \in S
        /\ cnt[heap[x].left] \in Powers /\ cnt[heap[x].left] < cnt[x]
        /\ cnt[heap[x].right] < cnt[x] /\ cnt[heap[x].right] < cnt[heap[x].left]
    BY <1>5, OpenNode
  <2>2. heap[x].left \notin stale /\ heap[x].right \notin stale
    BY <1>1, <2>1
  <2>3. IsFull(heap[heap[x].left])
    BY <1>1, <2>1, <2>2, FullIs
  <2>4. ~GoLeft(heap, x)
    BY <2>3 DEF GoLeft
  <2>5. PICK a, b, c, h, g, k : a = cnt[heap[x].left] /\ b = cnt[heap[x].right] /\ c = cnt[x]
                        /\ h = heap[heap[x].left].height /\ g = heap[heap[x].right].height
                        /\ k = heap[x].height
    OBVIOUS
  <2>6. HeightIs(h, a) /\ HeightIs(g, b) /\ HeightIs(k, c)
    BY <1>1, <1>2, <2>1, <2>2, <2>5 DEF Measured
  <2>7. c = a + b
    <3>1. x # Nil
      BY DEF Good, Linked, Heap, Nil
    <3> QED
      BY <2>1, <2>5, <3>1 DEF Good, Spans
  <2>8. a \in Powers /\ b <= a /\ a \in Nat /\ b \in Nat /\ c \in Nat
    BY <1>1, <2>1, <2>5
  <2>9. HeightIs(h + 1, a + b) /\ g <= h
    BY <2>6, <2>8, JoinHeight
  <2>10. h + 1 <= k
    BY <2>6, <2>7, <2>8, <2>9, HeightsOrder
  <2>11. h \in Nat /\ g \in Nat /\ k \in Nat
    BY <2>6 DEF HeightIs
  <2>12. g < k
    BY <2>9, <2>10, <2>11
  <2> QED
    BY <1>3, <1>5, <2>4, <2>5, <2>12 DEF Lower
<1> QED
  BY <1>4, <1>5

LowerTable(heap, n, m, at) ==
  at = [k \in 0 .. m |-> IF k = 0 THEN n ELSE Lower(heap, at[k - 1])]

LEMMA LowerExists ==
  ASSUME NEW heap, NEW n, NEW m \in Nat
  PROVE  \E at : LowerTable(heap, n, m, at)
<1> DEFINE T == {k \in Nat : \E at : LowerTable(heap, n, k, at)}
<1>1. 0 \in T
  <2> DEFINE f == [k \in 0 .. 0 |-> n]
  <2>1. f = [k \in 0 .. 0 |-> IF k = 0 THEN n ELSE Lower(heap, f[k - 1])]
    OBVIOUS
  <2> HIDE DEF f
  <2>2. LowerTable(heap, n, 0, f)
    BY <2>1 DEF LowerTable
  <2> QED
    BY <2>2
<1>2. ASSUME NEW k \in Nat, k \in T PROVE k + 1 \in T
  <2>1. PICK f : LowerTable(heap, n, k, f)
    BY <1>2
  <2> DEFINE g == [j \in 0 .. k + 1 |-> IF j = k + 1 THEN Lower(heap, f[k]) ELSE f[j]]
  <2>2. \A j \in 0 .. k : f[j] = IF j = 0 THEN n ELSE Lower(heap, f[j - 1])
    BY <2>1 DEF LowerTable
  <2>3. g[k + 1] = Lower(heap, f[k]) /\ \A j \in 0 .. k : g[j] = f[j]
    OBVIOUS
  <2>4. ASSUME NEW j \in 0 .. k + 1 PROVE g[j] = IF j = 0 THEN n ELSE Lower(heap, g[j - 1])
    <3> HIDE DEF g
    <3>1. CASE j = k + 1
      <4>1. j # 0 /\ j - 1 = k /\ k \in 0 .. k
        BY <3>1
      <4> QED
        BY <2>3, <3>1, <4>1
    <3>2. CASE j # k + 1
      <4>1. j \in 0 .. k /\ (j # 0 => j - 1 \in 0 .. k)
        BY <3>2
      <4> QED
        BY <2>2, <2>3, <4>1
    <3> QED
      BY <3>1, <3>2
  <2>5. g = [j \in 0 .. k + 1 |-> g[j]]
    OBVIOUS
  <2> HIDE DEF g
  <2>6. g = [j \in 0 .. k + 1 |-> IF j = 0 THEN n ELSE Lower(heap, g[j - 1])]
    BY <2>4, <2>5
  <2>7. LowerTable(heap, n, k + 1, g)
    BY <2>6 DEF LowerTable
  <2> QED
    BY <2>7
<1> HIDE DEF T
<1>3. Nat \subseteq T
  BY <1>1, <1>2, SetInduction
<1> QED
  BY <1>3 DEF T

(* The open nodes of the descent, and the full one it ends at.              *)
Descends(heap, S, off, cnt, m, r, d, k) ==
  /\ k \in Nat /\ d \in [1 .. k + 1 -> S] /\ d[1] = r
  /\ Edge(heap, S, off, cnt, m, d, k)
  /\ \A i \in 1 .. k : cnt[d[i]] \notin Powers /\ ~GoLeft(heap, d[i])
  /\ cnt[d[k + 1]] \in Powers

LEMMA DescentIs ==
  ASSUME NEW heap, NEW S, NEW par, NEW off, NEW cnt, NEW top, NEW L, NEW nf, NEW stale,
         Good(heap, S, par, off, cnt, top, L, nf, stale), Len(L) \in Nat,
         NEW r \in S, off[r] + cnt[r] = Len(L), \A y \in S : cnt[y] <= cnt[r] => y \notin stale
  PROVE  \E k : Descends(heap, S, off, cnt, Len(L), r, Descent(heap, r), k)
<1> DEFINE h == heap[r].height
           at == CHOOSE f : LowerTable(heap, r, h - 1, f)
           Full == {k \in DOMAIN at : IsFull(heap[at[k]])}
           depth == Min(Full)
<1>1. Measured(heap, S, cnt, stale) /\ \A y \in S : cnt[y] \in Nat /\ off[y] \in Nat
  BY DEF Good, Spans
<1>2. r \notin stale
  BY <1>1
<1>3. HeightIs(h, cnt[r])
  BY <1>1, <1>2 DEF Measured
<1>4. h \in Nat /\ h - 1 \in Nat
  BY <1>3 DEF HeightIs
<1>5. LowerTable(heap, r, h - 1, at)
  BY <1>4, LowerExists
<1>6. Descent(heap, r) = [k \in 1 .. depth + 1 |-> at[k - 1]]
  BY DEF Descent, LowerTable
<1> HIDE DEF at
<1>7. DOMAIN at = 0 .. h - 1 /\ at[0] = r /\ \A k \in 1 .. h - 1 : at[k] = Lower(heap, at[k - 1])
  <2>1. at = [k \in 0 .. h - 1 |-> IF k = 0 THEN r ELSE Lower(heap, at[k - 1])]
    BY <1>5 DEF LowerTable
  <2> HIDE DEF h
  <2> QED
    BY <1>4, <2>1
<1> HIDE DEF h
<1> DEFINE On(x) == x \in S /\ off[x] + cnt[x] = Len(L) /\ cnt[x] <= cnt[r]
           T == {k \in Nat : k <= h - 1 => On(at[k])}
<1>8. ASSUME NEW x, On(x)
      PROVE  /\ x \notin stale /\ \A y \in S : cnt[y] <= cnt[x] => y \notin stale
             /\ On(Lower(heap, x))
             /\ IsFull(heap[x]) <=> cnt[x] \in Powers
             /\ cnt[x] \notin Powers =>
                  /\ heap[x].left # Nil /\ Lower(heap, x) = heap[x].right /\ ~GoLeft(heap, x)
                  /\ cnt[Lower(heap, x)] < cnt[x] /\ heap[Lower(heap, x)].height < heap[x].height
  <2>1. x \in S /\ off[x] + cnt[x] = Len(L) /\ cnt[x] <= cnt[r]
    BY <1>8
  <2>2. \A y \in S : cnt[y] <= cnt[x] => y \notin stale
    <3>1. SUFFICES ASSUME NEW y \in S, cnt[y] <= cnt[x] PROVE y \notin stale
      OBVIOUS
    <3>2. cnt[y] <= cnt[r]
      BY <1>1, <2>1, <3>1
    <3> QED
      BY <3>2
  <2>3. x \notin stale
    BY <1>1, <2>1, <2>2
  <2>4. IsFull(heap[x]) <=> cnt[x] \in Powers
    BY <1>1, <2>1, <2>3, FullIs
  <2>5. /\ Lower(heap, x) = IF cnt[x] \in Powers THEN x ELSE heap[x].right
        /\ cnt[x] \notin Powers => ~GoLeft(heap, x) /\ heap[heap[x].right].height < heap[x].height
    BY <2>1, <2>2, LowerIs
  <2>6. CASE cnt[x] \in Powers
    BY <1>8, <2>2, <2>3, <2>4, <2>5, <2>6
  <2>7. CASE cnt[x] \notin Powers
    <3>1. /\ heap[x].left # Nil /\ heap[x].right \in S
          /\ cnt[heap[x].right] < cnt[x]
          /\ off[heap[x].right] + cnt[heap[x].right] = off[x] + cnt[x]
      BY <2>1, <2>7, OpenNode
    <3>2. cnt[heap[x].right] <= cnt[r]
      BY <1>1, <2>1, <3>1
    <3> QED
      BY <2>1, <2>2, <2>3, <2>4, <2>5, <2>7, <3>1, <3>2
  <2> QED
    BY <2>6, <2>7
<1>9. 0 \in T
  BY <1>1, <1>7
<1>10. ASSUME NEW k \in Nat, k \in T PROVE k + 1 \in T
  <2>1. SUFFICES ASSUME k + 1 <= h - 1 PROVE On(at[k + 1])
    OBVIOUS
  <2>2. On(at[k])
    BY <1>4, <1>10, <2>1
  <2>3. at[k + 1] = Lower(heap, at[k])
    <3>1. k + 1 \in 1 .. h - 1 /\ (k + 1) - 1 = k
      BY <1>4, <2>1
    <3> QED
      BY <1>7, <3>1
  <2> HIDE DEF On
  <2> QED
    BY <1>8, <2>2, <2>3
<1> HIDE DEF T
<1>11. Nat \subseteq T
  BY <1>9, <1>10, SetInduction
<1>12. \A k \in 0 .. h - 1 : On(at[k])
  <2> HIDE DEF On
  <2> QED
    BY <1>4, <1>11 DEF T
<1> HIDE DEF On
<1>13. ASSUME NEW k \in Nat, k + 1 <= h - 1, cnt[at[k]] \notin Powers
       PROVE  /\ heap[at[k]].left # Nil /\ at[k + 1] = heap[at[k]].right /\ ~GoLeft(heap, at[k])
              /\ cnt[at[k + 1]] < cnt[at[k]] /\ heap[at[k + 1]].height < heap[at[k]].height
  <2>1. k + 1 \in 1 .. h - 1 /\ (k + 1) - 1 = k /\ k \in 0 .. h - 1
    BY <1>4, <1>13
  <2>2. at[k + 1] = Lower(heap, at[k])
    BY <1>7, <2>1
  <2>3. On(at[k])
    BY <1>12, <2>1
  <2> QED
    BY <1>8, <1>13, <2>2, <2>3
<1>14. Full # {}
  <2>1. SUFFICES ASSUME \A k \in 0 .. h - 1 : cnt[at[k]] \notin Powers PROVE FALSE
    <3>1. \A k \in 0 .. h - 1 : IsFull(heap[at[k]]) <=> cnt[at[k]] \in Powers
      BY <1>8, <1>12
    <3> QED
      BY <1>7, <3>1
  <2> DEFINE H == {k \in Nat : k <= h - 1 => heap[at[k]].height + k <= h}
  <2>2. \A k \in 0 .. h - 1 : heap[at[k]].height \in Nat /\ HeightIs(heap[at[k]].height, cnt[at[k]])
    <3>1. SUFFICES ASSUME NEW k \in 0 .. h - 1
                   PROVE heap[at[k]].height \in Nat /\ HeightIs(heap[at[k]].height, cnt[at[k]])
      OBVIOUS
    <3>2. at[k] \in S /\ at[k] \notin stale
      BY <1>8, <1>12 DEF On
    <3>3. HeightIs(heap[at[k]].height, cnt[at[k]])
      BY <1>1, <3>2 DEF Measured
    <3> QED
      BY <3>3 DEF HeightIs
  <2>3. 0 \in H
    BY <1>4, <1>7 DEF h
  <2>4. ASSUME NEW k \in Nat, k \in H PROVE k + 1 \in H
    <3>1. SUFFICES ASSUME k + 1 <= h - 1 PROVE heap[at[k + 1]].height + (k + 1) <= h
      OBVIOUS
    <3>2. k \in 0 .. h - 1 /\ k + 1 \in 0 .. h - 1
      BY <1>4, <3>1
    <3>3. heap[at[k + 1]].height < heap[at[k]].height
      BY <1>13, <2>1, <3>1, <3>2
    <3>4. heap[at[k]].height + k <= h
      BY <1>4, <2>4, <3>2
    <3>5. heap[at[k]].height \in Nat /\ heap[at[k + 1]].height \in Nat
      BY <2>2, <3>2
    <3> QED
      BY <1>4, <3>3, <3>4, <3>5
  <2> HIDE DEF H
  <2>5. Nat \subseteq H
    BY <2>3, <2>4, SetInduction
  <2>6. heap[at[h - 1]].height + (h - 1) <= h
    BY <1>4, <2>5 DEF H
  <2>7. PICK g, c : g = heap[at[h - 1]].height /\ c = cnt[at[h - 1]]
    OBVIOUS
  <2>8. h - 1 \in 0 .. h - 1
    BY <1>4
  <2>9. g \in Nat /\ HeightIs(g, c) /\ g + (h - 1) <= h
    BY <2>2, <2>6, <2>7, <2>8
  <2>10. g = 1
    BY <1>4, <2>9 DEF HeightIs
  <2>11. c = 1
    <3>1. PICK z : z = g - 1
      OBVIOUS
    <3>2. c <= pow2[z] /\ c \in Nat \ {0}
      BY <2>9, <3>1 DEF HeightIs
    <3>3. z = 0
      BY <2>10, <3>1
    <3>4. c <= pow2[0]
      BY <3>2, <3>3
    <3>5. pow2[0] = 1
      BY Pow2Step
    <3> QED
      BY <3>2, <3>4, <3>5
  <2> QED
    BY <2>1, <2>7, <2>8, <2>11, PowersNat
<1>15. Full \in SUBSET Nat
  BY <1>4, <1>7
<1>16. depth \in Full /\ \A k \in Full : depth <= k
  <2> HIDE DEF Full
  <2> QED
    BY <1>14, <1>15, MinIs
<1>17. depth \in 0 .. h - 1 /\ IsFull(heap[at[depth]])
  <2> HIDE DEF depth
  <2> QED
    BY <1>7, <1>16
<1>18. \A k \in 0 .. h - 1 : k < depth => cnt[at[k]] \notin Powers
  <2>1. SUFFICES ASSUME NEW k \in 0 .. h - 1, k < depth, cnt[at[k]] \in Powers PROVE FALSE
    OBVIOUS
  <2>2. IsFull(heap[at[k]])
    BY <1>8, <1>12, <2>1
  <2>3. k \in Full
    BY <1>7, <2>2
  <2>4. depth <= k
    BY <1>16, <2>3
  <2> HIDE DEF depth
  <2> QED
    BY <1>4, <1>17, <2>1, <2>4
<1>19. cnt[at[depth]] \in Powers
  <2>1. On(at[depth])
    <3> HIDE DEF depth
    <3> QED
      BY <1>12, <1>17
  <2> HIDE DEF depth
  <2> QED
    BY <1>8, <1>17, <2>1
<1> DEFINE d == [k \in 1 .. depth + 1 |-> at[k - 1]]
<1> HIDE DEF depth
<1>20. depth \in Nat /\ depth <= h - 1
  BY <1>4, <1>17
<1>21. \A i \in 1 .. depth + 1 : d[i] = at[i - 1] /\ i - 1 \in 0 .. h - 1
  BY <1>4, <1>20
<1>22. d \in [1 .. depth + 1 -> S] /\ d[1] = r
  <2>1. \A i \in 1 .. depth + 1 : at[i - 1] \in S
    BY <1>12, <1>21 DEF On
  <2> QED
    BY <1>7, <1>20, <2>1
<1>23. \A i \in Nat : i < depth => cnt[at[i + 1]] < cnt[at[i]]
  <2>1. SUFFICES ASSUME NEW i \in Nat, i < depth PROVE cnt[at[i + 1]] < cnt[at[i]]
    OBVIOUS
  <2>2. i \in 0 .. h - 1 /\ i + 1 <= h - 1
    BY <1>4, <1>20, <2>1
  <2>3. cnt[at[i]] \notin Powers
    BY <1>18, <2>1, <2>2
  <2> QED
    BY <1>13, <2>2, <2>3
<1>24. \A i \in 0 .. depth : \A j \in 0 .. depth : i < j => cnt[at[j]] < cnt[at[i]]
  <2> DEFINE f == [i \in 0 .. depth |-> cnt[at[i]]]
  <2>1. \A i \in 0 .. depth : f[i] \in Nat
    <3>1. SUFFICES ASSUME NEW i \in 0 .. depth PROVE f[i] \in Nat
      OBVIOUS
    <3>2. i \in 0 .. h - 1
      BY <1>4, <1>20
    <3>3. at[i] \in S
      BY <1>12, <3>2 DEF On
    <3> QED
      BY <1>1, <3>3
  <2>2. \A i \in Nat : i < depth => f[i + 1] < f[i]
    BY <1>20, <1>23
  <2>3. \A i \in 0 .. depth : f[i] = cnt[at[i]]
    OBVIOUS
  <2> HIDE DEF f
  <2>4. \A i \in 0 .. depth : \A j \in 0 .. depth : i < j => f[j] < f[i]
    BY <1>20, <2>1, <2>2, Decreasing
  <2> QED
    BY <2>3, <2>4
<1>25. Edge(heap, S, off, cnt, Len(L), d, depth)
  <2>1. \A i \in 1 .. depth + 1 : d[i] \in S /\ off[d[i]] + cnt[d[i]] = Len(L)
    BY <1>12, <1>21 DEF On
  <2>2. ASSUME NEW i \in 1 .. depth PROVE heap[d[i]].left # Nil /\ heap[d[i]].right = d[i + 1]
    <3>1. i - 1 \in Nat /\ i - 1 \in 0 .. h - 1 /\ (i - 1) + 1 <= h - 1 /\ i - 1 < depth
      BY <1>4, <1>20
    <3>2. heap[at[i - 1]].left # Nil /\ at[(i - 1) + 1] = heap[at[i - 1]].right
      BY <1>13, <1>18, <3>1
    <3>3. d[i] = at[i - 1] /\ d[i + 1] = at[i] /\ (i - 1) + 1 = i
      <4>1. i \in 1 .. depth + 1 /\ i + 1 \in 1 .. depth + 1 /\ (i + 1) - 1 = i /\ (i - 1) + 1 = i
        BY <1>20
      <4> HIDE DEF d
      <4> QED
        BY <1>21, <4>1
    <3> HIDE DEF d
    <3> QED
      BY <3>2, <3>3
  <2>3. ASSUME NEW i \in 1 .. depth + 1, NEW j \in 1 .. depth + 1, i < j PROVE cnt[d[j]] < cnt[d[i]]
    <3>1. i - 1 \in 0 .. depth /\ j - 1 \in 0 .. depth /\ i - 1 < j - 1
      BY <1>20, <2>3
    <3> HIDE DEF d
    <3> QED
      BY <1>21, <1>24, <3>1
  <2> HIDE DEF d
  <2> QED
    BY <2>1, <2>2, <2>3 DEF Edge
<1>26. \A i \in 1 .. depth : cnt[d[i]] \notin Powers /\ ~GoLeft(heap, d[i])
  <2>1. SUFFICES ASSUME NEW i \in 1 .. depth PROVE cnt[d[i]] \notin Powers /\ ~GoLeft(heap, d[i])
    OBVIOUS
  <2>2. i - 1 \in Nat /\ i - 1 \in 0 .. h - 1 /\ (i - 1) + 1 <= h - 1 /\ i - 1 < depth /\ i \in 1 .. depth + 1
    BY <1>4, <1>20
  <2>3. cnt[at[i - 1]] \notin Powers
    BY <1>18, <2>2
  <2>4. ~GoLeft(heap, at[i - 1])
    BY <1>13, <2>2, <2>3
  <2> HIDE DEF d
  <2> QED
    BY <1>21, <2>2, <2>3, <2>4
<1>27. cnt[d[depth + 1]] \in Powers
  <2>1. depth + 1 \in 1 .. depth + 1 /\ (depth + 1) - 1 = depth
    BY <1>20
  <2> HIDE DEF d
  <2> QED
    BY <1>19, <1>21, <2>1
<1> HIDE DEF d
<1>28. Descends(heap, S, off, cnt, Len(L), r, d, depth)
  BY <1>20, <1>22, <1>25, <1>26, <1>27 DEF Descends
<1> QED
  BY <1>6, <1>28 DEF d

-----------------------------------------------------------------------------
(* A leaf n joins the tree: D, the full node at the end of the right edge, *)
(* gets the parent X with the leaf as its sibling, and the nodes p[1], ..,  *)
(* p[k] above it span one leaf more.                                        *)
NodesAt(p, k) == {p[i] : i \in 1 .. k}

Hangs(heap, S, off, cnt, top, L, stale, p, k, D) ==
  /\ k \in Nat /\ D \in S /\ cnt[D] \in Powers /\ off[D] + cnt[D] = Len(L) /\ D \notin stale
  /\ \A i \in 1 .. k : p[i] \in S /\ heap[p[i]].left # Nil /\ cnt[p[i]] \notin Powers
                       /\ off[p[i]] + cnt[p[i]] = Len(L)
  /\ \A i \in 1 .. k : heap[p[i]].right = IF i = k THEN D ELSE p[i + 1]
  /\ IF k = 0 THEN D = top ELSE p[1] = top
  /\ \A m \in S : m \in stale => m \in NodesAt(p, k)

GrownPar(S, par, p, k, D, X, n) ==
  [m \in S \cup {X, n} |->
     IF m = X THEN (IF k = 0 THEN Nil ELSE p[k]) ELSE IF m \in {D, n} THEN X ELSE par[m]]

GrownOff(S, off, L, D, X, n) ==
  [m \in S \cup {X, n} |-> IF m = X THEN off[D] ELSE IF m = n THEN Len(L) ELSE off[m]]

GrownCnt(S, cnt, p, k, D, X, n) ==
  [m \in S \cup {X, n} |->
     IF m = X THEN cnt[D] + 1 ELSE IF m = n THEN 1
     ELSE IF m \in NodesAt(p, k) THEN cnt[m] + 1 ELSE cnt[m]]

GrownTop(top, k, X) == IF k = 0 THEN X ELSE top

(* The heap with the leaf hung, the sizes above X still what they were.    *)
GrownHeap(heap, p, k, D, X, n, g) ==
  /\ g = [m \in DOMAIN heap \cup {X} |-> g[m]]
  /\ \A m \in DOMAIN heap \cup {X} : IsNode(g[m])
  /\ g[X].left = D /\ g[X].right = n /\ g[X].dirty = TRUE
  /\ g[X].size = heap[D].size + 2 /\ g[X].height = heap[D].height + 1
  /\ \A m \in DOMAIN heap :
       /\ g[m].left = heap[m].left /\ g[m].size = heap[m].size
       /\ g[m].height = heap[m].height /\ g[m].hash = heap[m].hash
       /\ g[m].right = IF k > 0 /\ m = p[k] THEN X ELSE heap[m].right
       /\ g[m].dirty = (IF m \in NodesAt(p, k) THEN TRUE ELSE heap[m].dirty)

(* Where D and the nodes above it are among the children of the tree.       *)
LEMMA HangsChildren ==
  ASSUME NEW heap, NEW S, NEW par, NEW off, NEW cnt, NEW top, NEW L, NEW nf, NEW stale,
         Good(heap, S, par, off, cnt, top, L, nf, stale),
         NEW p, NEW k, NEW D, Hangs(heap, S, off, cnt, top, L, stale, p, k, D)
  PROVE  /\ D \notin NodesAt(p, k) /\ NodesAt(p, k) \subseteq S
         /\ \A m \in S : heap[m].left # Nil =>
              /\ heap[m].left \notin NodesAt(p, k) /\ heap[m].left # D
              /\ m \notin NodesAt(p, k) => heap[m].right \notin NodesAt(p, k) /\ heap[m].right # D
              /\ m \in NodesAt(p, k) =>
                   IF k > 0 /\ m = p[k] THEN heap[m].right = D
                   ELSE heap[m].right \in NodesAt(p, k) /\ heap[m].right # D
<1> DEFINE P == NodesAt(p, k)
<1>1. /\ Linked(heap, S, par, top) /\ Spans(heap, S, off, cnt, Nil, nf) /\ Nil \notin S
  BY DEF Good, Linked, Heap, Nil
<1>2. \A m \in P : m \in S /\ heap[m].left # Nil /\ cnt[m] \notin Powers
  BY DEF Hangs, NodesAt
<1>3. D \in S /\ D \notin P
  BY <1>2 DEF Hangs
<1>4. k \in Nat
  BY DEF Hangs
<1>5. k = 0 => par[D] = Nil
  BY <1>1 DEF Hangs, Linked
<1>6. k # 0 => p[k] \in S /\ heap[p[k]].left # Nil /\ heap[p[k]].right = D /\ par[D] = p[k]
               /\ heap[p[k]].left # D
  <2>1. SUFFICES ASSUME k # 0
                 PROVE p[k] \in S /\ heap[p[k]].left # Nil /\ heap[p[k]].right = D /\ par[D] = p[k]
                       /\ heap[p[k]].left # D
    OBVIOUS
  <2>2. k \in 1 .. k
    BY <1>4, <2>1
  <2>3. p[k] \in S /\ heap[p[k]].left # Nil /\ heap[p[k]].right = D
    BY <2>2 DEF Hangs
  <2> QED
    BY <1>1, <2>3 DEF Linked
<1>7. ASSUME NEW m \in P PROVE par[m] = Nil \/ (par[m] \in P /\ heap[par[m]].right = m)
  <2>1. PICK i \in 1 .. k : m = p[i]
    BY DEF NodesAt
  <2>2. CASE i = 1
    <3>1. m = top
      BY <1>4, <2>1, <2>2 DEF Hangs
    <3> QED
      BY <1>1, <3>1 DEF Linked
  <2>3. CASE i # 1
    <3>1. i - 1 \in 1 .. k /\ i - 1 # k /\ (i - 1) + 1 = i
      BY <1>4, <2>3
    <3>2. p[i - 1] \in S /\ heap[p[i - 1]].left # Nil /\ heap[p[i - 1]].right = m
      BY <2>1, <3>1 DEF Hangs
    <3>3. par[m] = p[i - 1]
      BY <1>1, <3>2 DEF Linked
    <3>4. p[i - 1] \in P
      BY <3>1 DEF NodesAt
    <3> QED
      BY <3>2, <3>3, <3>4
  <2> QED
    BY <2>2, <2>3
<1>8. ASSUME NEW m \in P
      PROVE  IF k > 0 /\ m = p[k] THEN heap[m].right = D ELSE heap[m].right \in P
  <2>1. PICK i \in 1 .. k : m = p[i]
    BY DEF NodesAt
  <2>2. CASE i = k
    BY <1>4, <2>1, <2>2 DEF Hangs
  <2>3. CASE i # k
    <3>1. i + 1 \in 1 .. k
      BY <1>4, <2>3
    <3>2. heap[m].right = p[i + 1]
      BY <2>1, <2>3 DEF Hangs
    <3>3. heap[m].right \in P
      BY <3>1, <3>2 DEF NodesAt
    <3>4. m = p[k] => heap[m].right = D
      <4>1. k # 0
        BY <1>4, <2>1
      <4> QED
        BY <1>6, <4>1
    <3> QED
      BY <3>3, <3>4
  <2> QED
    BY <2>2, <2>3
<1>9. P \subseteq S
  BY <1>2
<1> HIDE DEF P
<1>10. ASSUME NEW m \in S, heap[m].left # Nil
       PROVE  /\ heap[m].left \notin P /\ heap[m].left # D
              /\ m \notin P => heap[m].right \notin P /\ heap[m].right # D
              /\ m \in P => IF k > 0 /\ m = p[k] THEN heap[m].right = D
                            ELSE heap[m].right \in P /\ heap[m].right # D
  <2>1. /\ heap[m].left \in S /\ heap[m].right \in S /\ heap[m].left # heap[m].right
        /\ par[heap[m].left] = m /\ par[heap[m].right] = m /\ m # Nil
    BY <1>1, <1>10 DEF Linked
  <2>2. heap[m].left \notin P
    BY <1>1, <1>2, <1>10 DEF Spans
  <2>3. heap[m].left # D
    BY <1>5, <1>6, <2>1
  <2>4. m \notin P => heap[m].right \notin P
    BY <1>7, <2>1
  <2>5. m \notin P => heap[m].right # D
    <3>1. k # 0 => p[k] \in P
      <4>1. k # 0 => k \in 1 .. k
        BY <1>4
      <4> QED
        BY <4>1 DEF P, NodesAt
    <3> QED
      BY <1>5, <1>6, <2>1, <3>1
  <2>6. m \in P => IF k > 0 /\ m = p[k] THEN heap[m].right = D
                   ELSE heap[m].right \in P /\ heap[m].right # D
    BY <1>3, <1>8
  <2> QED
    BY <2>2, <2>3, <2>4, <2>5, <2>6
<1> QED
  BY <1>3, <1>9, <1>10 DEF P

LEMMA GrownGood ==
  ASSUME NEW heap, NEW S, NEW par, NEW off, NEW cnt, NEW top, NEW L, NEW nf, NEW stale,
         Good(heap, S, par, off, cnt, top, L, nf, stale), NEW LS, L \in Seq(LS), NEW hash \in LS,
         NEW p, NEW k, NEW D, Hangs(heap, S, off, cnt, top, L, stale, p, k, D),
         NEW n \in DOMAIN heap, n \notin S, heap[n] = NewLeaf(hash),
         NEW X \in Nat \ {0}, X \notin DOMAIN heap,
         NEW g, GrownHeap(heap, p, k, D, X, n, g)
  PROVE  Good(g, S \cup {X, n}, GrownPar(S, par, p, k, D, X, n), GrownOff(S, off, L, D, X, n),
              GrownCnt(S, cnt, p, k, D, X, n), GrownTop(top, k, X), Append(L, hash), nf,
              NodesAt(p, k))
<1> DEFINE P == NodesAt(p, k)
           NS == S \cup {X, n}
           NPar == GrownPar(S, par, p, k, D, X, n)
           NOff == GrownOff(S, off, L, D, X, n)
           NCnt == GrownCnt(S, cnt, p, k, D, X, n)
           NTop == GrownTop(top, k, X)
           NL == Append(L, hash)
           N == Len(L)
<1>1. /\ Heap(heap) /\ Closed(heap) /\ Linked(heap, S, par, top)
      /\ Spans(heap, S, off, cnt, Nil, nf) /\ Fits(S, off, cnt, top, N)
      /\ Measured(heap, S, cnt, stale) /\ HashesRight(heap, S, off, cnt, L)
  BY DEF Good
<1>2. S \subseteq DOMAIN heap /\ Nil \notin DOMAIN heap /\ X # n /\ X \notin S /\ X # Nil /\ n # Nil
  BY <1>1 DEF Linked, Heap, Nil
<1>3. /\ D \notin P /\ P \subseteq S
      /\ \A m \in S : heap[m].left # Nil =>
              /\ heap[m].left \notin P /\ heap[m].left # D
              /\ m \notin P => heap[m].right \notin P /\ heap[m].right # D
              /\ m \in P => IF k > 0 /\ m = p[k] THEN heap[m].right = D
                            ELSE heap[m].right \in P /\ heap[m].right # D
  BY HangsChildren
<1>4. /\ k \in Nat /\ D \in S /\ cnt[D] \in Powers /\ off[D] + cnt[D] = N /\ D \notin stale
      /\ \A m \in S : m \in stale => m \in P
  BY DEF Hangs
<1>5. \A m \in P : m \in S /\ heap[m].left # Nil /\ cnt[m] \notin Powers /\ off[m] + cnt[m] = N
  BY DEF Hangs, NodesAt
<1>6. k # 0 => p[k] \in P
  <2>1. k # 0 => k \in 1 .. k
    BY <1>4
  <2> QED
    BY <2>1 DEF NodesAt
<1>7. N \in Nat /\ Len(NL) = N + 1 /\ NL[N + 1] = hash /\ \A i \in 1 .. N : NL[i] = L[i]
  OBVIOUS
<1>8. /\ DOMAIN g = DOMAIN heap \cup {X}
      /\ \A m \in DOMAIN heap \cup {X} : IsNode(g[m])
      /\ g[X].left = D /\ g[X].right = n /\ g[X].dirty = TRUE
      /\ g[X].size = heap[D].size + 2 /\ g[X].height = heap[D].height + 1
  BY DEF GrownHeap
<1>9. \A m \in DOMAIN heap :
       /\ g[m].left = heap[m].left /\ g[m].size = heap[m].size
       /\ g[m].height = heap[m].height /\ g[m].hash = heap[m].hash
       /\ g[m].right = IF k > 0 /\ m = p[k] THEN X ELSE heap[m].right
       /\ g[m].dirty = (IF m \in P THEN TRUE ELSE heap[m].dirty)
  BY DEF GrownHeap
<1>10. /\ NPar[X] = (IF k = 0 THEN Nil ELSE p[k]) /\ NPar[n] = X /\ NPar[D] = X
       /\ \A m \in S : m # D => NPar[m] = par[m]
  BY <1>2, <1>4 DEF GrownPar
<1>11. /\ NOff[X] = off[D] /\ NOff[n] = N /\ \A m \in S : NOff[m] = off[m]
  BY <1>2 DEF GrownOff
<1>12. /\ NCnt[X] = cnt[D] + 1 /\ NCnt[n] = 1
       /\ \A m \in S : NCnt[m] = IF m \in P THEN cnt[m] + 1 ELSE cnt[m]
  BY <1>2 DEF GrownCnt
<1>13. /\ heap[n].left = Nil /\ heap[n].right = Nil /\ heap[n].size = 1 /\ heap[n].height = 1
       /\ heap[n].dirty = FALSE /\ heap[n].hash = hash
  BY DEF NewLeaf
<1>14. /\ g[n].left = Nil /\ g[n].right = Nil /\ g[n].size = 1 /\ g[n].height = 1
       /\ g[n].dirty = FALSE /\ g[n].hash = hash
  <2>1. n \notin P /\ ~(k > 0 /\ n = p[k])
    BY <1>3, <1>4, <1>6
  <2> QED
    BY <1>9, <1>13, <2>1
<1>15. \A m \in S : off[m] \in Nat /\ cnt[m] \in Nat \ {0}
  BY <1>1 DEF Spans
<1>16. \A m \in S : heap[m].left # Nil =>
         heap[m].left \in S /\ heap[m].right \in S /\ heap[m].left # heap[m].right
         /\ par[heap[m].left] = m /\ par[heap[m].right] = m /\ m # Nil
  BY <1>1, <1>2 DEF Linked
<1> HIDE DEF P, NPar, NOff, NCnt, NL, N
<1>17. Heap(g) /\ Closed(g)
  <2>1. IsFiniteSet(DOMAIN g) /\ DOMAIN g \subseteq Nat \ {0}
    <3>1. IsFiniteSet(DOMAIN heap) /\ DOMAIN heap \subseteq Nat \ {0}
      BY <1>1 DEF Heap
    <3> QED
      BY <1>8, <3>1, FS_AddElement
  <2>2. g = [m \in DOMAIN g |-> g[m]]
    BY <1>8 DEF GrownHeap
  <2>3. Heap(g)
    BY <1>8, <2>1, <2>2 DEF Heap
  <2>4. ASSUME NEW m \in DOMAIN g
        PROVE  g[m].left \in DOMAIN g \cup {Nil} /\ g[m].right \in DOMAIN g \cup {Nil}
    <3>1. CASE m = X
      BY <1>2, <1>4, <1>8, <3>1
    <3>2. CASE m # X
      <4>1. m \in DOMAIN heap
        BY <1>8, <3>2
      <4>2. heap[m].left \in DOMAIN heap \cup {Nil} /\ heap[m].right \in DOMAIN heap \cup {Nil}
        BY <1>1, <4>1 DEF Closed
      <4> QED
        BY <1>8, <1>9, <4>1, <4>2
    <3> QED
      BY <3>1, <3>2
  <2> QED
    BY <2>3, <2>4 DEF Closed
<1>18. Linked(g, NS, NPar, NTop)
  <2>1. NS \subseteq DOMAIN g
    BY <1>2, <1>8
  <2>2. NTop \in NS /\ NPar[NTop] = Nil
    <3>1. CASE k = 0
      BY <1>10, <3>1 DEF GrownTop
    <3>2. CASE k # 0
      <4>1. NTop = top /\ top \in S /\ par[top] = Nil
        BY <1>1, <3>2 DEF GrownTop, Linked
      <4>2. p[k] \in S /\ heap[p[k]].left # Nil /\ heap[p[k]].right = D
        BY <1>3, <1>4, <1>5, <1>6, <3>2
      <4>3. par[D] # Nil
        BY <1>2, <1>16, <4>2
      <4> QED
        BY <1>10, <4>1, <4>3
    <3> QED
      BY <3>1, <3>2
  <2>3. ASSUME NEW m \in NS, g[m].left = Nil PROVE g[m].right = Nil
    <3>1. CASE m = n
      BY <1>14, <3>1
    <3>2. CASE m = X
      BY <1>2, <1>4, <1>8, <2>3, <3>2
    <3>3. CASE m \in S
      <4>1. heap[m].left = Nil /\ m \notin P
        BY <1>2, <1>5, <1>9, <2>3, <3>3
      <4>2. heap[m].right = Nil
        BY <1>1, <3>3, <4>1 DEF Linked
      <4>3. ~(k > 0 /\ m = p[k])
        BY <1>4, <1>6, <4>1
      <4> QED
        BY <1>2, <1>9, <3>3, <4>2, <4>3
    <3> QED
      BY <3>1, <3>2, <3>3
  <2>4. ASSUME NEW m \in NS, g[m].left # Nil
        PROVE  /\ g[m].left \in NS /\ g[m].right \in NS /\ g[m].left # g[m].right
               /\ NPar[g[m].left] = m /\ NPar[g[m].right] = m
    <3>1. CASE m = n
      BY <1>14, <2>4, <3>1
    <3>2. CASE m = X
      BY <1>4, <1>8, <1>10, <3>2
    <3>3. CASE m \in S
      <4>1. heap[m].left # Nil /\ g[m].left = heap[m].left
        BY <1>2, <1>9, <2>4, <3>3
      <4>2. heap[m].left \in S /\ heap[m].right \in S /\ heap[m].left # heap[m].right
            /\ par[heap[m].left] = m /\ par[heap[m].right] = m
        BY <1>16, <3>3, <4>1
      <4>3. NPar[g[m].left] = m
        BY <1>3, <1>10, <3>3, <4>1, <4>2
      <4>4. CASE k > 0 /\ m = p[k]
        <5>1. g[m].right = X
          BY <1>2, <1>9, <3>3, <4>4
        <5>2. NPar[X] = m
          BY <1>10, <4>4
        <5> QED
          BY <1>2, <4>1, <4>2, <4>3, <5>1, <5>2
      <4>5. CASE ~(k > 0 /\ m = p[k])
        <5>1. g[m].right = heap[m].right
          BY <1>2, <1>9, <3>3, <4>5
        <5>2. heap[m].right # D
          BY <1>3, <3>3, <4>1, <4>5
        <5>3. NPar[heap[m].right] = m
          BY <1>10, <4>2, <5>2
        <5> QED
          BY <4>1, <4>2, <4>3, <5>1, <5>3
      <4> QED
        BY <4>4, <4>5
    <3> QED
      BY <3>1, <3>2, <3>3
  <2>5. ASSUME NEW m \in NS, m # NTop
        PROVE  /\ NPar[m] \in NS /\ g[NPar[m]].left # Nil
               /\ m \in {g[NPar[m]].left, g[NPar[m]].right}
    <3>1. CASE m \in {D, n}
      BY <1>2, <1>4, <1>8, <1>10, <3>1
    <3>2. CASE m = X
      <4>1. k # 0
        BY <2>5, <3>2 DEF GrownTop
      <4>2. NPar[X] = p[k] /\ p[k] \in P /\ p[k] \in S /\ heap[p[k]].left # Nil
        BY <1>5, <1>6, <1>10, <4>1
      <4>3. g[p[k]].left = heap[p[k]].left /\ g[p[k]].right = X
        <5>1. k > 0
          BY <1>4, <4>1
        <5>2. p[k] \in DOMAIN heap
          BY <1>2, <4>2
        <5> QED
          BY <1>9, <5>1, <5>2
      <4> QED
        BY <3>2, <4>2, <4>3
    <3>3. CASE m \in S /\ m # D
      <4>1. m # top
        <5>1. k = 0 => D = top
          BY DEF Hangs
        <5>2. k # 0 => NTop = top
          BY DEF GrownTop
        <5> QED
          BY <2>5, <3>3, <5>1, <5>2
      <4>2. NPar[m] = par[m]
        BY <1>10, <3>3
      <4>3. par[m] \in S /\ heap[par[m]].left # Nil /\ m \in {heap[par[m]].left, heap[par[m]].right}
        BY <1>1, <3>3, <4>1 DEF Linked
      <4>4. g[par[m]].left = heap[par[m]].left
        BY <1>2, <1>9, <4>3
      <4>5. m = heap[par[m]].right => g[par[m]].right = m
        <5>1. SUFFICES ASSUME m = heap[par[m]].right PROVE g[par[m]].right = m
          OBVIOUS
        <5>2. ~(k > 0 /\ par[m] = p[k])
          BY <1>3, <1>4, <1>6, <3>3, <4>3, <5>1
        <5> QED
          BY <1>2, <1>9, <4>3, <5>1, <5>2
      <4> QED
        BY <4>2, <4>3, <4>4, <4>5
    <3> QED
      BY <3>1, <3>2, <3>3
  <2> HIDE DEF NTop, NS
  <2> QED
    BY <2>1, <2>2, <2>3, <2>4, <2>5 DEF Linked
<1>19. Spans(g, NS, NOff, NCnt, Nil, nf)
  <2>1. \A m \in NS : NOff[m] \in Nat /\ NCnt[m] \in Nat \ {0}
    <3>1. ASSUME NEW m \in NS PROVE NOff[m] \in Nat /\ NCnt[m] \in Nat \ {0}
      <4>1. CASE m \in S
        <5>1. off[m] \in Nat /\ cnt[m] \in Nat \ {0} /\ NOff[m] = off[m] /\ NCnt[m] \in {cnt[m], cnt[m] + 1}
          BY <1>11, <1>12, <1>15, <4>1
        <5> QED
          BY <5>1
      <4>2. CASE m = X
        <5>1. off[D] \in Nat /\ cnt[D] \in Nat \ {0} /\ NOff[m] = off[D] /\ NCnt[m] = cnt[D] + 1
          BY <1>4, <1>11, <1>12, <1>15, <4>2
        <5> QED
          BY <5>1
      <4>3. CASE m = n
        BY <1>7, <1>11, <1>12, <4>3 DEF N
      <4> QED
        BY <4>1, <4>2, <4>3
    <3> QED
      BY <3>1
  <2>2. ASSUME NEW m \in NS, g[m].left # Nil
        PROVE  /\ NOff[g[m].left] = NOff[m] /\ NOff[g[m].right] = NOff[m] + NCnt[g[m].left]
               /\ NCnt[g[m].left] \in Powers /\ NCnt[g[m].right] <= NCnt[g[m].left]
               /\ NCnt[m] = NCnt[g[m].left] + NCnt[g[m].right]
    <3>1. CASE m = n
      BY <1>14, <2>2, <3>1
    <3>2. CASE m = X
      <4>1. NCnt[D] = cnt[D] /\ NOff[D] = off[D] /\ cnt[D] \in Nat \ {0} /\ off[D] \in Nat
        BY <1>3, <1>4, <1>11, <1>12, <1>15
      <4>2. 1 <= cnt[D]
        BY <4>1
      <4> QED
        BY <1>4, <1>8, <1>11, <1>12, <3>2, <4>1, <4>2
    <3>3. CASE m \in S
      <4>1. heap[m].left # Nil /\ g[m].left = heap[m].left
        BY <1>2, <1>9, <2>2, <3>3
      <4>2. heap[m].left \in S /\ heap[m].right \in S /\ heap[m].left \notin P /\ m # Nil
        BY <1>3, <1>16, <3>3, <4>1
      <4>3. PICK a, b, o : a = cnt[heap[m].left] /\ b = cnt[heap[m].right] /\ o = off[m]
        OBVIOUS
      <4>4. /\ off[heap[m].left] = o /\ off[heap[m].right] = o + a
            /\ a \in Powers /\ b <= a /\ cnt[m] = a + b
        BY <1>1, <3>3, <4>1, <4>2, <4>3 DEF Spans
      <4>5. o \in Nat /\ a \in Nat \ {0} /\ b \in Nat \ {0}
        BY <1>15, <3>3, <4>2, <4>3
      <4>6. NOff[m] = o /\ NOff[heap[m].left] = o /\ NCnt[heap[m].left] = a
        BY <1>11, <1>12, <3>3, <4>2, <4>3, <4>4
      <4>7. CASE m \notin P
        <5>1. heap[m].right \notin P /\ ~(k > 0 /\ m = p[k])
          BY <1>3, <1>4, <1>6, <3>3, <4>1, <4>7
        <5>2. g[m].right = heap[m].right
          BY <1>2, <1>9, <3>3, <5>1
        <5>3. NCnt[heap[m].right] = b /\ NOff[heap[m].right] = o + a /\ NCnt[m] = a + b
          BY <1>11, <1>12, <3>3, <4>2, <4>3, <4>4, <4>7, <5>1
        <5> QED
          BY <4>1, <4>4, <4>6, <5>2, <5>3
      <4>8. CASE m \in P
        <5>1. b < a
          <6>1. a + b \notin Powers
            BY <1>5, <4>4, <4>8
          <6>2. b # a
            BY <4>4, <4>5, <6>1, PowerSum
          <6> QED
            BY <4>4, <4>5, <6>2
        <5>2. NCnt[m] = a + b + 1
          BY <1>12, <3>3, <4>4, <4>8
        <5>3. NOff[g[m].right] = o + a /\ NCnt[g[m].right] = b + 1
          <6>1. CASE k > 0 /\ m = p[k]
            <7>1. g[m].right = X /\ heap[m].right = D
              BY <1>2, <1>3, <1>9, <3>3, <4>1, <4>8, <6>1
            <7> QED
              BY <1>11, <1>12, <4>3, <4>4, <7>1
          <6>2. CASE ~(k > 0 /\ m = p[k])
            <7>1. g[m].right = heap[m].right /\ heap[m].right \in P
              BY <1>2, <1>3, <1>9, <3>3, <4>1, <4>8, <6>2
            <7> QED
              BY <1>11, <1>12, <4>2, <4>3, <4>4, <7>1
          <6> QED
            BY <6>1, <6>2
        <5>4. b + 1 <= a /\ a + b + 1 = a + (b + 1)
          BY <4>5, <5>1
        <5> QED
          BY <4>1, <4>4, <4>6, <5>2, <5>3, <5>4
      <4> QED
        BY <4>7, <4>8
    <3> QED
      BY <3>1, <3>2, <3>3
  <2>3. ASSUME NEW m \in NS, g[m].left = Nil
        PROVE  NCnt[m] \in Powers /\ (NCnt[m] = 1 \/ NOff[m] + NCnt[m] <= nf)
    <3>1. CASE m = n
      BY <1>12, <3>1, PowersNat
    <3>2. CASE m = X
      BY <1>2, <1>4, <1>8, <2>3, <3>2
    <3>3. CASE m \in S
      <4>1. heap[m].left = Nil /\ m \notin P
        BY <1>2, <1>5, <1>9, <2>3, <3>3
      <4>2. NOff[m] = off[m] /\ NCnt[m] = cnt[m]
        BY <1>11, <1>12, <3>3, <4>1
      <4>3. cnt[m] \in Powers /\ (cnt[m] = 1 \/ off[m] + cnt[m] <= nf)
        BY <1>1, <3>3, <4>1 DEF Spans
      <4> QED
        BY <4>2, <4>3
    <3> QED
      BY <3>1, <3>2, <3>3
  <2> HIDE DEF NS
  <2>4. \A m \in NS : g[m].left # Nil =>
          /\ NOff[g[m].left] = NOff[m] /\ NOff[g[m].right] = NOff[m] + NCnt[g[m].left]
          /\ NCnt[g[m].left] \in Powers /\ NCnt[g[m].right] <= NCnt[g[m].left]
          /\ m # Nil => NCnt[m] = NCnt[g[m].left] + NCnt[g[m].right]
    BY <2>2
  <2>5. \A m \in NS : g[m].left = Nil => NCnt[m] \in Powers /\ (NCnt[m] = 1 \/ NOff[m] + NCnt[m] <= nf)
    BY <2>3
  <2> QED
    BY <2>1, <2>4, <2>5 DEF Spans
<1>20. Fits(NS, NOff, NCnt, NTop, Len(NL))
  <2>1. NOff[NTop] = 0 /\ NCnt[NTop] = N + 1
    <3>1. off[top] = 0 /\ cnt[top] = N /\ top \in S
      BY <1>1 DEF Fits, Linked
    <3>2. CASE k = 0
      <4>1. D = top /\ NTop = X
        BY <3>2 DEF Hangs, GrownTop
      <4> QED
        BY <1>11, <1>12, <3>1, <4>1
    <3>3. CASE k # 0
      <4>1. NTop = top /\ top = p[1] /\ 1 \in 1 .. k
        BY <1>4, <3>3 DEF Hangs, GrownTop
      <4>2. top \in P
        BY <4>1 DEF P, NodesAt
      <4> QED
        BY <1>11, <1>12, <3>1, <4>1, <4>2
    <3> QED
      BY <3>2, <3>3
  <2>2. ASSUME NEW m \in NS PROVE NOff[m] + NCnt[m] <= N + 1
    <3>1. CASE m \in S
      <4>1. off[m] + cnt[m] <= N /\ off[m] \in Nat /\ cnt[m] \in Nat /\ N \in Nat
        BY <1>1, <1>7, <1>15, <3>1 DEF Fits, N
      <4>2. NOff[m] = off[m] /\ NCnt[m] \in {cnt[m], cnt[m] + 1}
        BY <1>11, <1>12, <3>1
      <4> QED
        BY <4>1, <4>2
    <3>2. CASE m = X
      <4>1. off[D] \in Nat /\ cnt[D] \in Nat /\ off[D] + cnt[D] = N
        BY <1>4, <1>15
      <4> QED
        BY <1>11, <1>12, <3>2, <4>1
    <3>3. CASE m = n
      BY <1>7, <1>11, <1>12, <3>3 DEF N
    <3> QED
      BY <3>1, <3>2, <3>3
  <2>3. Len(NL) = N + 1
    BY <1>7
  <2> HIDE DEF NTop, NS
  <2> QED
    BY <2>1, <2>2, <2>3 DEF Fits
<1>21. Measured(g, NS, NCnt, P)
  <2>1. SUFFICES ASSUME NEW m \in NS, m \notin P
                 PROVE  g[m].size = 2 * NCnt[m] - 1 /\ HeightIs(g[m].height, NCnt[m])
    BY DEF Measured
  <2>2. CASE m = n
    BY <1>12, <1>14, <2>2, LeafHeight
  <2>3. CASE m = X
    <3>1. PICK a, h : a = cnt[D] /\ h = heap[D].height
      OBVIOUS
    <3>2. heap[D].size = 2 * a - 1 /\ HeightIs(h, a) /\ a \in Powers /\ a \in Nat \ {0}
      BY <1>1, <1>4, <1>15, <3>1 DEF Measured
    <3>3. HeightIs(h + 1, a + 1)
      <4>1. 1 <= a /\ HeightIs(1, 1)
        BY <3>2, LeafHeight
      <4> QED
        BY <3>2, <4>1, JoinHeight
    <3>4. g[X].size = (2 * a - 1) + 2 /\ g[X].height = h + 1 /\ NCnt[X] = a + 1
      BY <1>8, <1>12, <3>1, <3>2
    <3>5. (2 * a - 1) + 2 = 2 * (a + 1) - 1
      BY <3>2
    <3> QED
      BY <2>3, <3>3, <3>4, <3>5
  <2>4. CASE m \in S
    <3>1. m \notin stale /\ NCnt[m] = cnt[m]
      BY <1>4, <1>12, <2>1, <2>4
    <3>2. heap[m].size = 2 * cnt[m] - 1 /\ HeightIs(heap[m].height, cnt[m])
      BY <1>1, <2>4, <3>1 DEF Measured
    <3>3. g[m].size = heap[m].size /\ g[m].height = heap[m].height
      BY <1>2, <1>9, <2>4
    <3> QED
      BY <3>1, <3>2, <3>3
  <2> QED
    BY <2>2, <2>3, <2>4
<1>22. HashesRight(g, NS, NOff, NCnt, NL)
  <2>1. ASSUME NEW m \in NS, ~g[m].dirty
        PROVE  g[m].hash = SubtreeHash(NL)[NCnt[m]][NOff[m]]
    <3>1. CASE m = n
      <4>1. SubtreeHash(NL)[1][N] = hash
        <5>1. Len(NL) \in Nat /\ N \in Nat /\ N < Len(NL)
          BY <1>7 DEF N
        <5> QED
          BY <1>7, <5>1, HashOfLeaf
      <4> QED
        BY <1>11, <1>12, <1>14, <3>1, <4>1
    <3>2. CASE m = X
      BY <1>8, <2>1, <3>2
    <3>3. CASE m \in S
      <4>1. m \notin P /\ ~heap[m].dirty /\ g[m].hash = heap[m].hash
        BY <1>2, <1>9, <2>1, <3>3
      <4>2. heap[m].hash = SubtreeHash(L)[cnt[m]][off[m]]
        BY <1>1, <3>3, <4>1 DEF HashesRight
      <4>3. PICK c, o : c = cnt[m] /\ o = off[m]
        OBVIOUS
      <4>4. c \in Nat \ {0} /\ o \in Nat /\ o + c <= N /\ N \in Nat
        BY <1>1, <1>7, <1>15, <3>3, <4>3 DEF Fits, N
      <4>5. c \in 1 .. N /\ o \in 0 .. N - c
        BY <4>4
      <4>6. SubtreeHash(L)[c][o] = SubtreeHash(NL)[c][o]
        <5>1. Len(L) \in Nat /\ Len(NL) \in Nat /\ N <= Len(L) /\ N <= Len(NL)
          BY <1>7 DEF N
        <5>2. \A i \in 1 .. N : L[i] = NL[i]
          BY <1>7
        <5> QED
          BY <4>4, <4>5, <5>1, <5>2, HashOfShared
      <4> QED
        BY <1>11, <1>12, <3>3, <4>1, <4>2, <4>3, <4>6
    <3> QED
      BY <3>1, <3>2, <3>3
  <2>2. ASSUME NEW m \in NS, g[m].left # Nil, ~g[m].dirty
        PROVE  ~g[g[m].left].dirty /\ ~g[g[m].right].dirty
    <3>1. CASE m = n
      BY <1>14, <2>2, <3>1
    <3>2. CASE m = X
      BY <1>8, <2>2, <3>2
    <3>3. CASE m \in S
      <4>1. m \notin P /\ ~heap[m].dirty /\ heap[m].left # Nil /\ g[m].left = heap[m].left
        BY <1>2, <1>9, <2>2, <3>3
      <4>2. heap[m].left \notin P /\ heap[m].right \notin P
        BY <1>3, <3>3, <4>1
      <4>3. ~heap[heap[m].left].dirty /\ ~heap[heap[m].right].dirty
        BY <1>1, <3>3, <4>1 DEF HashesRight
      <4>4. heap[m].left \in DOMAIN heap /\ heap[m].right \in DOMAIN heap
        BY <1>2, <1>16, <3>3, <4>1
      <4>5. ~(k > 0 /\ m = p[k])
        BY <1>4, <1>6, <4>1
      <4>6. g[m].right = heap[m].right
        BY <1>2, <1>9, <3>3, <4>5
      <4>7. PICK l, r : l = heap[m].left /\ r = heap[m].right
        OBVIOUS
      <4>8. l \in DOMAIN heap /\ r \in DOMAIN heap /\ l \notin P /\ r \notin P
            /\ ~heap[l].dirty /\ ~heap[r].dirty
        BY <4>2, <4>3, <4>4, <4>7
      <4>9. ~g[l].dirty /\ ~g[r].dirty
        BY <1>9, <4>8
      <4> QED
        BY <4>1, <4>6, <4>7, <4>9
    <3> QED
      BY <3>1, <3>2, <3>3
  <2>3. ASSUME NEW m \in NS, g[m].left = Nil PROVE ~g[m].dirty
    <3>1. CASE m = n
      BY <1>14, <3>1
    <3>2. CASE m = X
      BY <1>2, <1>4, <1>8, <2>3, <3>2
    <3>3. CASE m \in S
      <4>1. heap[m].left = Nil /\ m \notin P
        BY <1>2, <1>5, <1>9, <2>3, <3>3
      <4>2. ~heap[m].dirty
        BY <1>1, <3>3, <4>1 DEF HashesRight
      <4> QED
        BY <1>2, <1>9, <3>3, <4>1, <4>2
    <3> QED
      BY <3>1, <3>2, <3>3
  <2> HIDE DEF NS
  <2> QED
    BY <2>1, <2>2, <2>3 DEF HashesRight
<1>23. Good(g, NS, NPar, NOff, NCnt, NTop, NL, nf, P)
  <2> HIDE DEF NTop, NS
  <2> QED
    BY <1>17, <1>18, <1>19, <1>20, <1>21, <1>22 DEF Good
<1> QED
  BY <1>23 DEF P, NPar, NOff, NCnt, NL

-----------------------------------------------------------------------------
(* process_insertion_stack()                                                *)

LEMMA AttachSame ==
  ASSUME NEW heap, Heap(heap), NEW e, NEW x \in DOMAIN heap, e.n = x, ~e.left,
         NEW r, heap[x].right = r, heap[x].dirty
  PROVE  Attach(heap, e, r) = UpdateSizes(heap, x)
<1> DEFINE h == [heap EXCEPT ![x].right = r, ![x].dirty = TRUE]
<1>1. IsNode(heap[x]) /\ heap = [n \in DOMAIN heap |-> heap[n]]
  BY DEF Heap
<1>2. h = heap
  <2>1. PICK y : y = heap[x]
    OBVIOUS
  <2>2. [[y EXCEPT !.right = r] EXCEPT !.dirty = TRUE] = y
    BY <1>1, <2>1 DEF IsNode
  <2>3. h = [[heap EXCEPT ![x] = [heap[x] EXCEPT !.right = r]]
               EXCEPT ![x] = [[heap[x] EXCEPT !.right = r] EXCEPT !.dirty = TRUE]]
    OBVIOUS
  <2>4. h = [heap EXCEPT ![x] = [[heap[x] EXCEPT !.right = r] EXCEPT !.dirty = TRUE]]
    BY <2>3
  <2>5. h = [heap EXCEPT ![x] = y]
    BY <2>1, <2>2, <2>4
  <2>6. [heap EXCEPT ![x] = y] = heap
    BY <1>1, <2>1
  <2> QED
    BY <2>5, <2>6
<1> HIDE DEF h
<1>3. Attach(heap, e, r) = UpdateSizes(h, x)
  BY DEF Attach, h
<1> QED
  BY <1>2, <1>3

(* Sizing the node p[j] of the edge, when those below it have the right size.*)
SizedEdge(h, g, heap, S, par, off, cnt, top, L, nf, above) ==
  /\ Good(h, S, par, off, cnt, top, L, nf, above) /\ SameTree(h, heap)
  /\ \A n \in DOMAIN heap : n \notin S => h[n] = g[n]

LEMMA SizeEdge ==
  ASSUME NEW heap, NEW S, NEW par, NEW off, NEW cnt, NEW top, NEW L, NEW nf, NEW p, NEW b \in Nat,
         NEW j \in 1 .. b, Edge(heap, S, off, cnt, Len(L), p, b),
         NEW g, Good(g, S, par, off, cnt, top, L, nf, NodesAt(p, j)), SameTree(g, heap),
         NEW h, h = UpdateSizes(g, p[j])
  PROVE  SizedEdge(h, g, heap, S, par, off, cnt, top, L, nf, NodesAt(p, j - 1))
<1> DEFINE x == p[j]
<1>1. /\ Linked(g, S, par, top) /\ Spans(g, S, off, cnt, Nil, nf) /\ Nil \notin S
      /\ DOMAIN g = DOMAIN heap /\ S \subseteq DOMAIN heap
  BY DEF Good, Linked, Heap, Nil, SameTree, SameLinks
<1>2. x \in S /\ heap[x].left # Nil
  <2>1. j \in 1 .. b + 1
    OBVIOUS
  <2> QED
    BY <2>1 DEF Edge
<1>3. g[x].left # Nil
  BY <1>1, <1>2 DEF SameTree, SameLinks
<1>4. Ranked(g, S, cnt)
  BY <1>1, CountsRank
<1>5. /\ cnt[g[x].left] < cnt[x] /\ cnt[g[x].right] < cnt[x]
      /\ cnt[g[x].left] \in Nat /\ cnt[g[x].right] \in Nat /\ cnt[x] \in Nat
  BY <1>1, <1>2, <1>3, <1>4 DEF Ranked, Linked
<1>6. \A y \in NodesAt(p, j) : cnt[x] <= cnt[y] /\ cnt[y] \in Nat
  <2>1. SUFFICES ASSUME NEW i \in 1 .. j PROVE cnt[x] <= cnt[p[i]] /\ cnt[p[i]] \in Nat
    BY DEF NodesAt
  <2>2. i \in 1 .. b + 1 /\ j \in 1 .. b + 1
    OBVIOUS
  <2>3. p[i] \in S
    BY <2>2 DEF Edge
  <2>4. cnt[p[i]] \in Nat
    BY <1>4, <2>3 DEF Ranked
  <2>5. i < j => cnt[x] < cnt[p[i]]
    BY <2>2 DEF Edge
  <2>6. i = j \/ i < j
    OBVIOUS
  <2> QED
    BY <1>5, <2>4, <2>5, <2>6
<1>7. g[x].left \notin NodesAt(p, j) /\ g[x].right \notin NodesAt(p, j)
  BY <1>5, <1>6
<1>8. \A n \in S : n \in NodesAt(p, j) => n = x \/ n \in NodesAt(p, j - 1)
  <2>1. SUFFICES ASSUME NEW i \in 1 .. j PROVE p[i] = x \/ p[i] \in NodesAt(p, j - 1)
    BY DEF NodesAt
  <2>2. i = j \/ i \in 1 .. j - 1
    OBVIOUS
  <2> QED
    BY <2>2 DEF NodesAt
<1> HIDE DEF x
<1>9. h = UpdateSizes(g, x)
  BY DEF x
<1>10. /\ Good(h, S, par, off, cnt, top, L, nf, NodesAt(p, j - 1)) /\ SameTree(h, g)
       /\ \A n \in DOMAIN g : n \notin S => h[n] = g[n]
  <2>1. PICK a, c : a = NodesAt(p, j) /\ c = NodesAt(p, j - 1)
    OBVIOUS
  <2>2. Good(g, S, par, off, cnt, top, L, nf, a)
    BY <2>1
  <2>3. g[x].left \notin a /\ g[x].right \notin a /\ \A n \in S : n \in a => n = x \/ n \in c
    BY <1>7, <1>8, <2>1
  <2>4. /\ Good(h, S, par, off, cnt, top, L, nf, c) /\ SameTree(h, g)
        /\ \A n \in DOMAIN g : n \notin S => h[n] = g[n]
    BY <1>2, <1>3, <1>9, <2>2, <2>3, UpdateSizesGood
  <2> QED
    BY <2>1, <2>4
<1>11. SameTree(h, heap)
  BY <1>10 DEF SameTree, SameLinks
<1> QED
  BY <1>1, <1>10, <1>11 DEF SizedEdge

PopTable(h0, r, e, b, f) ==
  f = [k \in 0 .. b |-> IF k = 0 THEN [heap |-> h0, result |-> r]
                        ELSE Pop(f[k - 1], e[b + 1 - k])]

Popped(h0, r, e, b) == CHOOSE f : PopTable(h0, r, e, b, f)

StopOf(f, b, complete) ==
  Min({k \in 1 .. b : StopsAt(f[k].heap[f[k].result], complete)} \cup {b})

LEMMA PopExists ==
  ASSUME NEW h0, NEW r, NEW e, NEW b \in Nat
  PROVE  \E f : PopTable(h0, r, e, b, f)
<1> DEFINE base == [heap |-> h0, result |-> r]
           Is(m, f) == f = [k \in 0 .. m |-> IF k = 0 THEN base ELSE Pop(f[k - 1], e[b + 1 - k])]
           T == {k \in Nat : \E f : Is(k, f)}
<1>1. 0 \in T
  <2> DEFINE f == [k \in 0 .. 0 |-> base]
  <2>1. f = [k \in 0 .. 0 |-> IF k = 0 THEN base ELSE Pop(f[k - 1], e[b + 1 - k])]
    <3> HIDE DEF base
    <3> QED
      OBVIOUS
  <2> HIDE DEF f
  <2>2. Is(0, f)
    BY <2>1
  <2> QED
    BY <2>2
<1> HIDE DEF base
<1>2. ASSUME NEW k \in Nat, k \in T PROVE k + 1 \in T
  <2>1. PICK f : Is(k, f)
    BY <1>2
  <2> DEFINE g == [j \in 0 .. k + 1 |-> IF j = k + 1 THEN Pop(f[k], e[b + 1 - (k + 1)]) ELSE f[j]]
  <2>2. \A j \in 0 .. k : f[j] = IF j = 0 THEN base ELSE Pop(f[j - 1], e[b + 1 - j])
    BY <2>1
  <2>3. g[k + 1] = Pop(f[k], e[b + 1 - (k + 1)]) /\ \A j \in 0 .. k : g[j] = f[j]
    OBVIOUS
  <2>4. ASSUME NEW j \in 0 .. k + 1 PROVE g[j] = IF j = 0 THEN base ELSE Pop(g[j - 1], e[b + 1 - j])
    <3> HIDE DEF g
    <3>1. CASE j = k + 1
      <4>1. j # 0 /\ j - 1 = k /\ k \in 0 .. k
        BY <3>1
      <4> QED
        BY <2>3, <3>1, <4>1
    <3>2. CASE j # k + 1
      <4>1. j \in 0 .. k /\ (j # 0 => j - 1 \in 0 .. k)
        BY <3>2
      <4> QED
        BY <2>2, <2>3, <4>1
    <3> QED
      BY <3>1, <3>2
  <2>5. g = [j \in 0 .. k + 1 |-> g[j]]
    OBVIOUS
  <2> HIDE DEF g
  <2>6. g = [j \in 0 .. k + 1 |-> IF j = 0 THEN base ELSE Pop(g[j - 1], e[b + 1 - j])]
    BY <2>4, <2>5
  <2>7. Is(k + 1, g)
    BY <2>6
  <2> QED
    BY <2>7
<1> HIDE DEF T
<1>3. Nat \subseteq T
  BY <1>1, <1>2, SetInduction
<1>4. PICK f : Is(b, f)
  BY <1>3 DEF T
<1> QED
  BY <1>4 DEF base, PopTable

(* The stack's elements, top last: nodes of the right edge, linked, dirty,  *)
(* each entered to the right.                                               *)
StackIs(heap, e, p, b) ==
  /\ \A i \in 1 .. b + 1 : e[i].n = p[i]
  /\ \A i \in 1 .. b : ~e[i].left /\ heap[p[i]].dirty

PoppedWell(heap, S, par, off, cnt, top, L, nf, p, b, f, k) ==
  /\ f[k].result = p[b + 1 - k]
  /\ Good(f[k].heap, S, par, off, cnt, top, L, nf, NodesAt(p, b - k))
  /\ SameTree(f[k].heap, heap)
  /\ \A n \in DOMAIN heap : n \notin S => f[k].heap[n] = heap[n]

LEMMA PoppedIs ==
  ASSUME NEW heap, NEW S, NEW par, NEW off, NEW cnt, NEW top, NEW L, NEW nf, NEW p, NEW b \in Nat,
         Good(heap, S, par, off, cnt, top, L, nf, NodesAt(p, b)),
         Edge(heap, S, off, cnt, Len(L), p, b),
         NEW e, StackIs(heap, e, p, b), NEW h0, NEW f, PopTable(h0, p[b + 1], e, b, f),
         b = 0 => h0 = heap,
         b # 0 => Attach(h0, e[b], p[b + 1]) = UpdateSizes(heap, p[b])
  PROVE  \A k \in 0 .. b : k # 0 \/ b = 0 =>
           PoppedWell(heap, S, par, off, cnt, top, L, nf, p, b, f, k)
<1>1. /\ f[0] = [heap |-> h0, result |-> p[b + 1]]
      /\ \A k \in 1 .. b : f[k] = Pop(f[k - 1], e[b + 1 - k])
  <2>1. f = [k \in 0 .. b |-> IF k = 0 THEN [heap |-> h0, result |-> p[b + 1]]
                        ELSE Pop(f[k - 1], e[b + 1 - k])]
    BY DEF PopTable
  <2>2. 0 \in 0 .. b /\ \A k \in 1 .. b : k \in 0 .. b /\ k # 0
    OBVIOUS
  <2>3. \A k \in 0 .. b : f[k] = IF k = 0 THEN [heap |-> h0, result |-> p[b + 1]]
                        ELSE Pop(f[k - 1], e[b + 1 - k])
    BY <2>1
  <2> QED
    BY <2>2, <2>3
<1>2. b + 1 \in 1 .. b + 1 /\ e[b + 1].n = p[b + 1]
  BY DEF StackIs
<1>3. SameTree(heap, heap)
  BY DEF SameTree, SameLinks
<1>4. CASE b = 0
  <2>1. f[0].heap = heap /\ f[0].result = p[b + 1 - 0] /\ b - 0 = b
    BY <1>1, <1>2, <1>4
  <2>2. PoppedWell(heap, S, par, off, cnt, top, L, nf, p, b, f, 0)
    BY <1>3, <2>1 DEF PoppedWell
  <2> QED
    BY <1>4, <2>2
<1>5. CASE b # 0
  <2> DEFINE W(k) == PoppedWell(heap, S, par, off, cnt, top, L, nf, p, b, f, k)
             T == {k \in Nat : k + 1 <= b => W(k + 1)}
  <2>1. 0 \in T
    <3>1. 1 \in 1 .. b /\ b + 1 - 1 = b /\ b \in 1 .. b /\ 1 - 1 = 0 /\ b \in 1 .. b + 1
      BY <1>5
    <3>2. f[1] = Pop(f[0], e[b])
      BY <1>1, <3>1
    <3>3. f[1] = [heap |-> Attach(h0, e[b], p[b + 1]), result |-> p[b]]
      <4>1. e[b].n = p[b]
        BY <3>1 DEF StackIs
      <4>2. f[0].heap = h0 /\ f[0].result = p[b + 1]
        BY <1>1, <1>2
      <4> QED
        BY <3>2, <4>1, <4>2 DEF Pop
    <3>4. f[1].heap = UpdateSizes(heap, p[b]) /\ f[1].result = p[b]
      BY <1>5, <3>3
    <3>5. /\ Good(f[1].heap, S, par, off, cnt, top, L, nf, NodesAt(p, b - 1)) /\ SameTree(f[1].heap, heap)
          /\ \A n \in DOMAIN heap : n \notin S => f[1].heap[n] = heap[n]
      <4>1. PICK h : h = f[1].heap
        OBVIOUS
      <4>2. h = UpdateSizes(heap, p[b])
        BY <3>4, <4>1
      <4>3. SizedEdge(h, heap, heap, S, par, off, cnt, top, L, nf, NodesAt(p, b - 1))
        BY <1>3, <3>1, <4>2, SizeEdge
      <4> QED
        BY <4>1, <4>3 DEF SizedEdge
    <3>6. W(1)
      BY <3>1, <3>4, <3>5 DEF PoppedWell
    <3> QED
      BY <3>6
  <2>2. ASSUME NEW k \in Nat, k \in T PROVE k + 1 \in T
    <3>1. SUFFICES ASSUME (k + 1) + 1 <= b PROVE W((k + 1) + 1)
      OBVIOUS
    <3>2. PICK i \in Nat : i = k + 1
      OBVIOUS
    <3>3. i >= 1 /\ i < b /\ W(i)
      BY <2>2, <3>1, <3>2
    <3>4. PICK j : j = b - i
      OBVIOUS
    <3>5. /\ j \in 1 .. b /\ j \in 1 .. b + 1 /\ j + 1 \in 1 .. b + 1 /\ j + 1 = b + 1 - i /\ i + 1 \in 1 .. b
          /\ b + 1 - (i + 1) = j /\ (i + 1) - 1 = i /\ b - (i + 1) = j - 1
      BY <3>3, <3>4
    <3>6. f[i + 1] = Pop(f[i], e[j])
      BY <1>1, <3>5
    <3>7. /\ f[i].result = p[j + 1] /\ Good(f[i].heap, S, par, off, cnt, top, L, nf, NodesAt(p, j))
          /\ SameTree(f[i].heap, heap)
          /\ \A n \in DOMAIN heap : n \notin S => f[i].heap[n] = heap[n]
      BY <3>3, <3>4, <3>5 DEF PoppedWell
    <3>8. /\ e[j].n = p[j] /\ ~e[j].left /\ heap[p[j]].dirty /\ p[j] \in S /\ heap[p[j]].right = p[j + 1]
      BY <3>5 DEF StackIs, Edge
    <3>9. p[j] \in DOMAIN heap /\ p[j] \in DOMAIN f[i].heap /\ Heap(f[i].heap)
      BY <3>7, <3>8 DEF Good, Linked, SameTree, SameLinks
    <3>10. f[i].heap[p[j]].right = p[j + 1] /\ f[i].heap[p[j]].dirty
      BY <3>7, <3>8, <3>9 DEF SameTree, SameLinks
    <3>11. Attach(f[i].heap, e[j], p[j + 1]) = UpdateSizes(f[i].heap, p[j])
      BY <3>8, <3>9, <3>10, AttachSame
    <3>12. f[i + 1] = [heap |-> UpdateSizes(f[i].heap, p[j]), result |-> p[j]]
      BY <3>6, <3>7, <3>8, <3>11 DEF Pop
    <3>13. f[i + 1].heap = UpdateSizes(f[i].heap, p[j]) /\ f[i + 1].result = p[j]
      BY <3>12
    <3>14. /\ Good(f[i + 1].heap, S, par, off, cnt, top, L, nf, NodesAt(p, j - 1)) /\ SameTree(f[i + 1].heap, heap)
           /\ \A n \in DOMAIN heap : n \notin S => f[i + 1].heap[n] = f[i].heap[n]
      <4>1. PICK g, h : g = f[i].heap /\ h = f[i + 1].heap
        OBVIOUS
      <4>2. /\ Good(g, S, par, off, cnt, top, L, nf, NodesAt(p, j)) /\ SameTree(g, heap)
            /\ h = UpdateSizes(g, p[j])
        BY <3>7, <3>13, <4>1
      <4>3. SizedEdge(h, g, heap, S, par, off, cnt, top, L, nf, NodesAt(p, j - 1))
        BY <3>5, <4>2, SizeEdge
      <4> QED
        BY <4>1, <4>3 DEF SizedEdge
    <3>15. W(i + 1)
      BY <3>5, <3>7, <3>13, <3>14 DEF PoppedWell
    <3> QED
      BY <3>2, <3>15
  <2> HIDE DEF T
  <2>3. Nat \subseteq T
    BY <2>1, <2>2, SetInduction
  <2>4. ASSUME NEW k \in 0 .. b, k # 0 PROVE W(k)
    <3>1. k - 1 \in Nat /\ (k - 1) + 1 = k /\ k <= b
      BY <2>4
    <3>2. k - 1 \in T
      BY <2>3, <3>1
    <3> QED
      BY <3>1, <3>2 DEF T
  <2> HIDE DEF W
  <2> QED
    BY <1>5, <2>4 DEF W
<1> QED
  BY <1>4, <1>5

(* What the stack's top is hung to; the rest waits below a node that is not *)
(* full.                                                                    *)
Processed(t, complete, heap, S, par, off, cnt, top, L, nf, p, b, hh, k) ==
  /\ k \in 0 .. b /\ (complete => k = b) /\ (k = 0 => b = 0)
  /\ ProcessInsertionStack(t, complete)
       = [t EXCEPT !.heap = hh, !.root = p[b + 1 - k], !.insertion_stack = SubSeq(@, 1, b - k)]
  /\ Good(hh, S, par, off, cnt, top, L, nf, NodesAt(p, b - k))
  /\ SameTree(hh, heap) /\ \A n \in DOMAIN heap : n \notin S => hh[n] = heap[n]
  /\ k # b => cnt[p[b + 1 - k]] \notin Powers

LEMMA ProcessIs ==
  ASSUME NEW heap, NEW S, NEW par, NEW off, NEW cnt, NEW top, NEW L, NEW nf, NEW p, NEW b \in Nat,
         Good(heap, S, par, off, cnt, top, L, nf, NodesAt(p, b)),
         Edge(heap, S, off, cnt, Len(L), p, b),
         NEW t, NEW complete \in BOOLEAN, Len(t.insertion_stack) = b + 1,
         StackIs(heap, t.insertion_stack, p, b),
         NEW h0, h0 = UpdateSizes(t.heap, p[b + 1]),
         b = 0 => h0 = heap,
         b # 0 => Attach(h0, t.insertion_stack[b], p[b + 1]) = UpdateSizes(heap, p[b])
  PROVE  \E hh, k : Processed(t, complete, heap, S, par, off, cnt, top, L, nf, p, b, hh, k)
<1> DEFINE e == t.insertion_stack
           r == p[b + 1]
           f == Popped(h0, r, e, b)
           T == {k \in 1 .. b : StopsAt(f[k].heap[f[k].result], complete)}
           stop == StopOf(f, b, complete)
<1>1. Len(e) - 1 = b /\ Last(e).n = r
  <2>1. b + 1 \in 1 .. b + 1 /\ (b + 1) - 1 = b
    OBVIOUS
  <2> QED
    BY <2>1 DEF Last, StackIs
<1>2. ProcessInsertionStack(t, complete)
        = [t EXCEPT !.heap = f[stop].heap, !.root = f[stop].result,
                    !.insertion_stack = SubSeq(@, 1, b - stop)]
  <2> DEFINE F(m, k) == Popped(UpdateSizes(t.heap, m), m, e, k)
             Z(m, k) == StopOf(F(m, k), k, complete)
             Y(m, k) == [t EXCEPT !.heap = F(m, k)[Z(m, k)].heap, !.root = F(m, k)[Z(m, k)].result,
                                  !.insertion_stack = SubSeq(@, 1, k - Z(m, k))]
  <2>1. ProcessInsertionStack(t, complete) = Y(Last(e).n, Len(e) - 1)
    BY DEF ProcessInsertionStack, Popped, PopTable, StopOf
  <2> HIDE DEF Y
  <2>2. Y(Last(e).n, Len(e) - 1) = Y(r, b)
    <3>1. PICK m, k : m = Last(e).n /\ k = Len(e) - 1
      OBVIOUS
    <3>2. m = r /\ k = b
      BY <1>1, <3>1
    <3> HIDE DEF r, e
    <3> QED
      BY <3>1, <3>2
  <2>3. h0 = UpdateSizes(t.heap, r)
    OBVIOUS
  <2> QED
    BY <2>1, <2>2, <2>3 DEF Y
<1>3. PopTable(h0, r, e, b, f)
  <2> HIDE DEF e, r
  <2> QED
    BY PopExists DEF Popped
<1> HIDE DEF f
<1>4. \A k \in 0 .. b : k # 0 \/ b = 0 => PoppedWell(heap, S, par, off, cnt, top, L, nf, p, b, f, k)
  BY <1>3, PoppedIs
<1>5. stop \in T \cup {b} /\ \A k \in T \cup {b} : stop <= k
  <2>1. T \cup {b} \in SUBSET Nat /\ T \cup {b} # {}
    OBVIOUS
  <2>2. stop = Min(T \cup {b})
    BY DEF StopOf
  <2> HIDE DEF T, stop
  <2> QED
    BY <2>1, <2>2, MinIs
<1> HIDE DEF stop
<1>6. stop \in 0 .. b /\ (stop = 0 => b = 0)
  BY <1>5
<1>7. complete => stop = b
  <2>1. complete => T = {}
    BY DEF StopsAt
  <2> QED
    BY <1>5, <2>1
<1>8. PoppedWell(heap, S, par, off, cnt, top, L, nf, p, b, f, stop)
  BY <1>4, <1>6
<1>9. ASSUME stop # b PROVE cnt[p[b + 1 - stop]] \notin Powers
  <2>1. stop \in 1 .. b /\ StopsAt(f[stop].heap[f[stop].result], complete)
    BY <1>5, <1>9
  <2>2. PICK i : i = b + 1 - stop
    OBVIOUS
  <2>3. i \in 1 .. b + 1 /\ i = (b - stop) + 1 /\ b - stop \in Nat
    BY <1>6, <2>2
  <2>4. ~IsFull(f[stop].heap[p[i]])
    BY <1>8, <2>1, <2>2 DEF StopsAt, PoppedWell
  <2>5. p[i] \in S /\ \A y \in S : cnt[y] \in Nat
    BY <1>8, <2>3 DEF Edge, PoppedWell, Good, Spans
  <2>6. p[i] \notin NodesAt(p, b - stop)
    <3>1. SUFFICES ASSUME NEW j \in 1 .. b - stop PROVE p[i] # p[j]
      BY DEF NodesAt
    <3>2. j \in 1 .. b + 1 /\ j < i
      BY <2>3
    <3>3. cnt[p[i]] < cnt[p[j]] /\ p[j] \in S
      BY <2>3, <3>2 DEF Edge
    <3> QED
      BY <2>5, <3>3
  <2>7. Measured(f[stop].heap, S, cnt, NodesAt(p, b - stop))
    BY <1>8 DEF PoppedWell, Good
  <2>8. IsFull(f[stop].heap[p[i]]) <=> cnt[p[i]] \in Powers
    BY <2>5, <2>6, <2>7, FullIs
  <2> QED
    BY <2>2, <2>4, <2>8
<1>10. Processed(t, complete, heap, S, par, off, cnt, top, L, nf, p, b, f[stop].heap, stop)
  <2>1. f[stop].result = p[b + 1 - stop]
    BY <1>8 DEF PoppedWell
  <2> QED
    BY <1>2, <1>6, <1>7, <1>8, <1>9, <2>1 DEF Processed, PoppedWell
<1> QED
  BY <1>10

-----------------------------------------------------------------------------
(* continue_insertion_stack() and process_insertion_stack() together        *)

(* Above a node of the right edge that is not full none is.                 *)
LEMMA EdgeOpen ==
  ASSUME NEW heap, NEW S, NEW par, NEW off, NEW cnt, NEW top, NEW L, NEW nf, NEW stale,
         Good(heap, S, par, off, cnt, top, L, nf, stale),
         NEW m, NEW p, NEW b \in Nat, Edge(heap, S, off, cnt, m, p, b), cnt[p[b + 1]] \notin Powers
  PROVE  \A i \in 1 .. b + 1 : cnt[p[i]] \notin Powers
<1> DEFINE T == {j \in Nat : j <= b => cnt[p[b + 1 - j]] \notin Powers}
<1>1. 0 \in T
  <2>1. b + 1 - 0 = b + 1
    OBVIOUS
  <2> QED
    BY <2>1
<1>2. ASSUME NEW j \in Nat, j \in T PROVE j + 1 \in T
  <2>1. SUFFICES ASSUME j + 1 <= b PROVE cnt[p[b + 1 - (j + 1)]] \notin Powers
    OBVIOUS
  <2>2. PICK i : i = b - j
    OBVIOUS
  <2>3. i \in 1 .. b /\ i \in 1 .. b + 1 /\ i + 1 \in 1 .. b + 1 /\ b + 1 - j = i + 1 /\ b + 1 - (j + 1) = i /\ j <= b
    BY <2>1, <2>2
  <2>4. cnt[p[i + 1]] \notin Powers
    BY <1>2, <2>3
  <2>5. p[i] \in S /\ heap[p[i]].left # Nil /\ heap[p[i]].right = p[i + 1] /\ p[i + 1] \in S
    BY <2>3 DEF Edge
  <2>6. PICK a, c, x : a = cnt[heap[p[i]].left] /\ c = cnt[p[i + 1]] /\ x = p[i]
    OBVIOUS
  <2>7. Spans(heap, S, off, cnt, Nil, nf) /\ x # Nil /\ x \in S
    BY <2>5, <2>6 DEF Good, Linked, Heap, Nil
  <2>8. a \in Powers /\ c <= a /\ cnt[x] = a + c
    BY <2>5, <2>6, <2>7 DEF Spans
  <2>9. c \in Nat \ {0}
    BY <2>5, <2>6, <2>7 DEF Spans
  <2>10. a + c \notin Powers
    BY <2>4, <2>6, <2>8, <2>9, PowerSum
  <2> QED
    BY <2>3, <2>6, <2>8, <2>10
<1> HIDE DEF T
<1>3. Nat \subseteq T
  BY <1>1, <1>2, SetInduction
<1>4. ASSUME NEW i \in 1 .. b + 1 PROVE cnt[p[i]] \notin Powers
  <2>1. b + 1 - i \in Nat /\ b + 1 - i <= b /\ b + 1 - (b + 1 - i) = i
    OBVIOUS
  <2>2. b + 1 - i \in T
    BY <1>3, <2>1
  <2> QED
    BY <2>1, <2>2 DEF T
<1> QED
  BY <1>4

(* An edge that goes on where another ends.                                 *)
JoinedEdge(p, b, d, k) == [i \in 1 .. b + k + 1 |-> IF i <= b THEN p[i] ELSE d[i - b]]

LEMMA JoinedEdgeIs ==
  ASSUME NEW heap, NEW S, NEW off, NEW cnt, NEW m, NEW p, NEW b \in Nat, NEW d, NEW k \in Nat,
         Edge(heap, S, off, cnt, m, p, b), Edge(heap, S, off, cnt, m, d, k), d[1] = p[b + 1],
         \A x \in S : cnt[x] \in Nat
  PROVE  /\ Edge(heap, S, off, cnt, m, JoinedEdge(p, b, d, k), b + k)
         /\ \A i \in 1 .. b + 1 : JoinedEdge(p, b, d, k)[i] = p[i]
         /\ \A i \in 1 .. k + 1 : JoinedEdge(p, b, d, k)[b + i] = d[i]
<1> DEFINE q == JoinedEdge(p, b, d, k)
<1>1. \A i \in 1 .. b + 1 : q[i] = p[i]
  <2>1. SUFFICES ASSUME NEW i \in 1 .. b + 1 PROVE q[i] = p[i]
    OBVIOUS
  <2>2. CASE i <= b
    <3>1. i \in 1 .. b + k + 1
      BY <2>2
    <3> QED
      BY <2>2, <3>1 DEF JoinedEdge
  <2>3. CASE i = b + 1
    <3>1. i \in 1 .. b + k + 1 /\ ~(i <= b) /\ i - b = 1
      BY <2>3
    <3> QED
      BY <2>3, <3>1 DEF JoinedEdge
  <2>4. i <= b \/ i = b + 1
    OBVIOUS
  <2> QED
    BY <2>2, <2>3, <2>4
<1>2. \A i \in 1 .. k + 1 : q[b + i] = d[i]
  <2>1. SUFFICES ASSUME NEW i \in 1 .. k + 1 PROVE q[b + i] = d[i]
    OBVIOUS
  <2>2. b + i \in 1 .. b + k + 1 /\ ~(b + i <= b) /\ (b + i) - b = i
    OBVIOUS
  <2> QED
    BY <2>2 DEF JoinedEdge
<1> HIDE DEF q
<1>3. \A i \in 1 .. b + k + 1 : i \in 1 .. b + 1 \/ (i - b \in 1 .. k + 1 /\ b + (i - b) = i)
  OBVIOUS
<1>4. \A i \in 1 .. b + k + 1 : q[i] \in S /\ off[q[i]] + cnt[q[i]] = m
  <2>1. SUFFICES ASSUME NEW i \in 1 .. b + k + 1 PROVE q[i] \in S /\ off[q[i]] + cnt[q[i]] = m
    OBVIOUS
  <2>2. CASE i \in 1 .. b + 1
    BY <1>1, <2>2 DEF Edge
  <2>3. CASE i - b \in 1 .. k + 1 /\ b + (i - b) = i
    <3>1. q[i] = d[i - b]
      BY <1>2, <2>3
    <3> QED
      BY <2>3, <3>1 DEF Edge
  <2> QED
    BY <1>3, <2>2, <2>3
<1>5. \A i \in 1 .. b + k : heap[q[i]].left # Nil /\ heap[q[i]].right = q[i + 1]
  <2>1. SUFFICES ASSUME NEW i \in 1 .. b + k PROVE heap[q[i]].left # Nil /\ heap[q[i]].right = q[i + 1]
    OBVIOUS
  <2>2. CASE i <= b
    <3>1. i \in 1 .. b /\ i \in 1 .. b + 1 /\ i + 1 \in 1 .. b + 1
      BY <2>2
    <3> QED
      BY <1>1, <3>1 DEF Edge
  <2>3. CASE i > b
    <3>1. PICK j : j = i - b
      OBVIOUS
    <3>2. j \in 1 .. k /\ j \in 1 .. k + 1 /\ j + 1 \in 1 .. k + 1 /\ b + j = i /\ b + (j + 1) = i + 1
      BY <2>3, <3>1
    <3>3. q[i] = d[j] /\ q[i + 1] = d[j + 1]
      BY <1>2, <3>2
    <3> QED
      BY <3>2, <3>3 DEF Edge
  <2> QED
    BY <2>2, <2>3
<1>6. ASSUME NEW i \in 1 .. b + k + 1, NEW j \in 1 .. b + k + 1, i < j PROVE cnt[q[j]] < cnt[q[i]]
  <2>1. CASE j <= b + 1
    <3>1. i \in 1 .. b + 1 /\ j \in 1 .. b + 1
      BY <1>6, <2>1
    <3> QED
      BY <1>1, <1>6, <3>1 DEF Edge
  <2>2. CASE i > b
    <3>1. i - b \in 1 .. k + 1 /\ j - b \in 1 .. k + 1 /\ i - b < j - b /\ b + (i - b) = i /\ b + (j - b) = j
      BY <1>6, <2>2
    <3>2. q[i] = d[i - b] /\ q[j] = d[j - b]
      BY <1>2, <3>1
    <3> QED
      BY <3>1, <3>2 DEF Edge
  <2>3. CASE i <= b /\ j > b + 1
    <3>1. /\ i \in 1 .. b + 1 /\ b + 1 \in 1 .. b + 1 /\ i < b + 1
          /\ j - b \in 1 .. k + 1 /\ 1 \in 1 .. k + 1 /\ 1 < j - b /\ b + (j - b) = j
      BY <1>6, <2>3
    <3>2. cnt[p[b + 1]] < cnt[p[i]] /\ cnt[d[j - b]] < cnt[d[1]]
      BY <3>1 DEF Edge
    <3>3. q[i] = p[i] /\ q[j] = d[j - b]
      BY <1>1, <1>2, <3>1
    <3>4. q[i] \in S /\ q[j] \in S /\ p[b + 1] \in S
      BY <1>4, <3>1 DEF Edge
    <3>5. cnt[q[i]] \in Nat /\ cnt[q[j]] \in Nat /\ cnt[p[b + 1]] \in Nat
      BY <3>4
    <3> QED
      BY <3>2, <3>3, <3>5
  <2> QED
    BY <2>1, <2>2, <2>3
<1>7. Edge(heap, S, off, cnt, m, q, b + k)
  BY <1>4, <1>5, <1>6 DEF Edge
<1> QED
  BY <1>1, <1>2, <1>7 DEF q

-----------------------------------------------------------------------------
(* The heap continue_insertion_stack() leaves: the nodes on the way down   *)
(* are dirty, and X is the parent of D and the leaf n.                      *)
ContinuedHeap(heap, nodes, D, n) ==
  Allocate(MarkDirty(heap, nodes), NewInner(MarkDirty(heap, nodes), D, n))

Continued(heap, nodes, D, X, n, g) ==
  /\ g = [m \in DOMAIN heap \cup {X} |-> g[m]]
  /\ \A m \in DOMAIN heap \cup {X} : IsNode(g[m])
  /\ g[X].left = D /\ g[X].right = n /\ g[X].dirty = TRUE
  /\ g[X].size = heap[D].size + 2 /\ g[X].height = heap[D].height + 1
  /\ \A m \in DOMAIN heap :
       /\ g[m].left = heap[m].left /\ g[m].right = heap[m].right /\ g[m].size = heap[m].size
       /\ g[m].height = heap[m].height /\ g[m].hash = heap[m].hash
       /\ g[m].dirty = (IF m \in nodes THEN TRUE ELSE heap[m].dirty)

LEMMA SizedOverLeaf ==
  ASSUME NEW heap, NEW x, IsNode(x), x.left # Nil, x.right # Nil, NEW y, y = Sized(heap, x),
         heap[x.left].size \in Nat, heap[x.left].height \in Nat \ {0},
         heap[x.right].size = 1, heap[x.right].height = 1
  PROVE  /\ IsNode(y) /\ y.left = x.left /\ y.right = x.right /\ y.hash = x.hash /\ y.dirty = x.dirty
         /\ y.size = heap[x.left].size + 2 /\ y.height = heap[x.left].height + 1
<1>1. PICK l, h : l = heap[x.left].size /\ h = heap[x.left].height
  OBVIOUS
<1>2. l \in Nat /\ h \in Nat /\ 1 <= h /\ 1 \in Nat
  BY <1>1
<1>3. Max({h, 1}) = h
  BY <1>2, MaxOfTwo
<1>4. y = [x EXCEPT !.size = l + 1 + 1, !.height = h + 1]
  BY <1>1, <1>3 DEF Sized
<1>5. PICK s, k : s = l + 1 + 1 /\ k = h + 1
  OBVIOUS
<1>6. y = [x EXCEPT !.size = s, !.height = k] /\ s \in Nat /\ k \in Nat
  BY <1>2, <1>4, <1>5
<1>7. /\ IsNode(y) /\ y.left = x.left /\ y.right = x.right /\ y.hash = x.hash /\ y.dirty = x.dirty
      /\ y.size = s /\ y.height = k
  BY <1>6 DEF IsNode
<1> QED
  BY <1>1, <1>2, <1>5, <1>7

LEMMA ContinuedIs ==
  ASSUME NEW heap, Heap(heap), NEW nodes, NEW D \in DOMAIN heap, NEW n \in DOMAIN heap, NEW hash,
         heap[n] = NewLeaf(hash), heap[D].height # 0,
         NEW X, X = Fresh(heap), NEW g, g = ContinuedHeap(heap, nodes, D, n)
  PROVE  /\ X \in Nat \ {0} /\ X \notin DOMAIN heap /\ Continued(heap, nodes, D, X, n, g)
         /\ UpdateSizes(g, X) = g
<1> DEFINE h == MarkDirty(heap, nodes)
           x == NewInner(h, D, n)
<1>1. X \in Nat \ {0} /\ X \notin DOMAIN heap
  BY FreshIs
<1>2. DOMAIN h = DOMAIN heap /\ h = [m \in DOMAIN heap |-> h[m]]
  BY DEF MarkDirty
<1>3. ASSUME NEW m \in DOMAIN heap
      PROVE  /\ IsNode(h[m]) /\ h[m].left = heap[m].left /\ h[m].right = heap[m].right
             /\ h[m].size = heap[m].size /\ h[m].height = heap[m].height /\ h[m].hash = heap[m].hash
             /\ h[m].dirty = (IF m \in nodes THEN TRUE ELSE heap[m].dirty)
  <2>1. PICK y, z : y = heap[m] /\ z = h[m]
    OBVIOUS
  <2>2. IsNode(y)
    BY <2>1 DEF Heap
  <2>3. CASE m \in nodes
    <3>1. z = [y EXCEPT !.dirty = TRUE]
      BY <2>1, <2>3 DEF MarkDirty
    <3>2. /\ IsNode(z) /\ z.left = y.left /\ z.right = y.right /\ z.size = y.size
          /\ z.height = y.height /\ z.hash = y.hash /\ z.dirty = TRUE
      BY <2>2, <3>1 DEF IsNode
    <3> HIDE DEF h
    <3> QED
      BY <2>1, <2>3, <3>2
  <2>4. CASE m \notin nodes
    <3>1. z = y
      BY <2>1, <2>4 DEF MarkDirty
    <3> HIDE DEF h
    <3> QED
      BY <2>1, <2>2, <2>4, <3>1
  <2> QED
    BY <2>3, <2>4
<1> HIDE DEF h
<1>4. IsNode(heap[D]) /\ Nil \notin DOMAIN heap
  BY DEF Heap, Nil
<1>5. heap[n].size = 1 /\ heap[n].height = 1
  BY DEF NewLeaf
<1>6. PICK w : w = [NewLeaf(ZeroHash) EXCEPT !.left = D, !.right = n, !.dirty = TRUE]
  OBVIOUS
<1>7. D \in Nat /\ n \in Nat
  BY DEF Heap
<1>8. IsNode(w) /\ w.left = D /\ w.right = n /\ w.dirty = TRUE
  BY <1>6, <1>7 DEF IsNode, NewLeaf, Nil
<1>9. x = Sized(h, w)
  BY <1>6 DEF NewInner
<1> HIDE DEF x
<1>10. heap[D].size \in Nat /\ heap[D].height \in Nat \ {0}
  BY <1>4 DEF IsNode
<1>11. /\ IsNode(x) /\ x.left = D /\ x.right = n /\ x.dirty = TRUE
       /\ x.size = heap[D].size + 2 /\ x.height = heap[D].height + 1
  <2>1. w.left # Nil /\ w.right # Nil
    BY <1>4, <1>8
  <2>2. h[w.left].size = heap[D].size /\ h[w.left].height = heap[D].height
        /\ h[w.right].size = 1 /\ h[w.right].height = 1
    BY <1>3, <1>5, <1>8
  <2>3. h[w.left].size \in Nat /\ h[w.left].height \in Nat \ {0}
    BY <1>10, <2>2
  <2>4. /\ IsNode(x) /\ x.left = w.left /\ x.right = w.right /\ x.dirty = w.dirty
        /\ x.size = h[w.left].size + 2 /\ x.height = h[w.left].height + 1
    BY <1>8, <1>9, <2>1, <2>2, <2>3, SizedOverLeaf
  <2> QED
    BY <1>8, <2>2, <2>4
<1>12. g = [m \in DOMAIN heap \cup {X} |-> IF m = X THEN x ELSE h[m]]
  <2>1. Fresh(h) = X
    BY <1>2 DEF Fresh
  <2> QED
    BY <1>2, <2>1 DEF ContinuedHeap, Allocate, h, x
<1>13. DOMAIN g = DOMAIN heap \cup {X} /\ g[X] = x /\ \A m \in DOMAIN heap : g[m] = h[m]
  BY <1>1, <1>12
<1>14. Continued(heap, nodes, D, X, n, g)
  <2>1. g = [m \in DOMAIN heap \cup {X} |-> g[m]]
    BY <1>12
  <2>2. \A m \in DOMAIN heap \cup {X} : IsNode(g[m])
    <3>1. SUFFICES ASSUME NEW m \in DOMAIN heap \cup {X} PROVE IsNode(g[m])
      OBVIOUS
    <3>2. CASE m = X
      BY <1>11, <1>13, <3>2
    <3>3. CASE m \in DOMAIN heap
      <4>1. IsNode(h[m]) /\ g[m] = h[m]
        BY <1>3, <1>13, <3>3
      <4> QED
        BY <4>1
    <3> QED
      BY <3>2, <3>3
  <2>3. \A m \in DOMAIN heap :
       /\ g[m].left = heap[m].left /\ g[m].right = heap[m].right /\ g[m].size = heap[m].size
       /\ g[m].height = heap[m].height /\ g[m].hash = heap[m].hash
       /\ g[m].dirty = (IF m \in nodes THEN TRUE ELSE heap[m].dirty)
    <3>1. SUFFICES ASSUME NEW m \in DOMAIN heap
                   PROVE /\ g[m].left = heap[m].left /\ g[m].right = heap[m].right
                         /\ g[m].size = heap[m].size /\ g[m].height = heap[m].height
                         /\ g[m].hash = heap[m].hash
                         /\ g[m].dirty = (IF m \in nodes THEN TRUE ELSE heap[m].dirty)
      OBVIOUS
    <3>2. g[m] = h[m]
      BY <1>13
    <3> QED
      BY <1>3, <3>2
  <2> QED
    BY <1>11, <1>13, <2>1, <2>2, <2>3 DEF Continued
<1>15. UpdateSizes(g, X) = g
  <2>1. PICK y : y = Sized(g, x)
    OBVIOUS
  <2>2. x.left # Nil /\ x.right # Nil
    BY <1>4, <1>11
  <2>3. /\ g[x.left].size = heap[D].size /\ g[x.left].height = heap[D].height
        /\ g[x.right].size = 1 /\ g[x.right].height = 1
    <3>1. x.left = D /\ x.right = n /\ g[D] = h[D] /\ g[n] = h[n]
      BY <1>11, <1>13
    <3>2. h[D].size = heap[D].size /\ h[D].height = heap[D].height /\ h[n].size = 1 /\ h[n].height = 1
      BY <1>3, <1>5
    <3> QED
      BY <3>1, <3>2
  <2>4. g[x.left].size \in Nat /\ g[x.left].height \in Nat \ {0}
    BY <1>10, <2>3
  <2>5. /\ IsNode(y) /\ y.left = x.left /\ y.right = x.right /\ y.hash = x.hash /\ y.dirty = x.dirty
        /\ y.size = x.size /\ y.height = x.height
    <3>1. /\ IsNode(y) /\ y.left = x.left /\ y.right = x.right /\ y.hash = x.hash /\ y.dirty = x.dirty
          /\ y.size = g[x.left].size + 2 /\ y.height = g[x.left].height + 1
      BY <1>11, <2>1, <2>2, <2>3, <2>4, SizedOverLeaf
    <3> QED
      BY <1>11, <2>3, <3>1
  <2>6. y = x
    BY <1>11, <2>5 DEF IsNode
  <2>7. UpdateSizes(g, X) = [g EXCEPT ![X] = Sized(g, g[X])]
    BY DEF UpdateSizes
  <2>8. g = [m \in DOMAIN g |-> g[m]]
    BY <1>12, <1>13
  <2>9. [g EXCEPT ![X] = g[X]] = g
    BY <2>8
  <2> QED
    BY <1>13, <2>1, <2>6, <2>7, <2>9
<1> QED
  BY <1>1, <1>14, <1>15

(* The last node of the way down linked to X.                               *)
LinkedHeap(g, p, k, X) ==
  IF k = 0 THEN g ELSE [g EXCEPT ![p[k]].right = X, ![p[k]].dirty = TRUE]

LEMMA LinkedHeapIs ==
  ASSUME NEW heap, Heap(heap), NEW nodes, NEW D, NEW n, NEW X, NEW g,
         Continued(heap, nodes, D, X, n, g), NEW k \in Nat, NEW p,
         \A i \in 1 .. k : p[i] \in DOMAIN heap, X \notin DOMAIN heap, X \in Nat,
         nodes \subseteq NodesAt(p, k), \A i \in 1 .. k : p[i] \notin nodes => heap[p[i]].dirty = TRUE
  PROVE  GrownHeap(heap, p, k, D, X, n, LinkedHeap(g, p, k, X))
<1> DEFINE P == NodesAt(p, k)
           h == LinkedHeap(g, p, k, X)
<1>1. /\ g = [m \in DOMAIN heap \cup {X} |-> g[m]]
      /\ \A m \in DOMAIN heap \cup {X} : IsNode(g[m])
      /\ g[X].left = D /\ g[X].right = n /\ g[X].dirty = TRUE
      /\ g[X].size = heap[D].size + 2 /\ g[X].height = heap[D].height + 1
  BY DEF Continued
<1>2. \A m \in DOMAIN heap :
       /\ g[m].left = heap[m].left /\ g[m].right = heap[m].right /\ g[m].size = heap[m].size
       /\ g[m].height = heap[m].height /\ g[m].hash = heap[m].hash
       /\ g[m].dirty = (IF m \in P THEN TRUE ELSE heap[m].dirty)
  <2>1. SUFFICES ASSUME NEW m \in DOMAIN heap
                 PROVE  /\ g[m].left = heap[m].left /\ g[m].right = heap[m].right /\ g[m].size = heap[m].size
                        /\ g[m].height = heap[m].height /\ g[m].hash = heap[m].hash
                        /\ g[m].dirty = (IF m \in P THEN TRUE ELSE heap[m].dirty)
    OBVIOUS
  <2>2. /\ g[m].left = heap[m].left /\ g[m].right = heap[m].right /\ g[m].size = heap[m].size
        /\ g[m].height = heap[m].height /\ g[m].hash = heap[m].hash
        /\ g[m].dirty = (IF m \in nodes THEN TRUE ELSE heap[m].dirty)
    BY DEF Continued
  <2>3. m \in P /\ m \notin nodes => heap[m].dirty = TRUE
    BY DEF NodesAt
  <2> QED
    BY <2>2, <2>3
<1>3. CASE k = 0
  <2>1. h = g
    BY <1>3 DEF LinkedHeap
  <2>2. ~(k > 0)
    BY <1>3
  <2> HIDE DEF h, P
  <2>3. ASSUME NEW m \in DOMAIN heap
        PROVE  /\ h[m].left = heap[m].left /\ h[m].size = heap[m].size
               /\ h[m].height = heap[m].height /\ h[m].hash = heap[m].hash
               /\ h[m].right = IF k > 0 /\ m = p[k] THEN X ELSE heap[m].right
               /\ h[m].dirty = (IF m \in P THEN TRUE ELSE heap[m].dirty)
    <3>1. h[m].right = heap[m].right
      BY <1>2, <2>1
    <3> QED
      BY <1>2, <2>1, <2>2, <3>1
  <2>4. GrownHeap(heap, p, k, D, X, n, h)
    BY <1>1, <2>1, <2>3 DEF GrownHeap, P
  <2> QED
    BY <2>4 DEF h
<1>4. CASE k # 0
  <2>1. k \in 1 .. k /\ k > 0
    BY <1>4
  <2>2. PICK x : x = p[k]
    OBVIOUS
  <2>3. x \in DOMAIN heap /\ x # X /\ x \in P
    BY <2>1, <2>2 DEF NodesAt
  <2>4. PICK y : y = [[g[x] EXCEPT !.right = X] EXCEPT !.dirty = TRUE]
    OBVIOUS
  <2>5. h = [m \in DOMAIN heap \cup {X} |-> IF m = x THEN y ELSE g[m]]
    <3>1. h = [g EXCEPT ![x].right = X, ![x].dirty = TRUE]
      BY <1>4, <2>2 DEF LinkedHeap
    <3>2. h = [[g EXCEPT ![x] = [g[x] EXCEPT !.right = X]]
                 EXCEPT ![x] = [[g[x] EXCEPT !.right = X] EXCEPT !.dirty = TRUE]]
      BY <1>1, <2>3, <3>1
    <3>3. h = [g EXCEPT ![x] = y]
      BY <2>4, <3>2
    <3>4. DOMAIN g = DOMAIN heap \cup {X}
      BY <1>1
    <3> QED
      BY <1>1, <2>3, <3>3, <3>4
  <2>6. /\ IsNode(y) /\ y.left = g[x].left /\ y.right = X /\ y.size = g[x].size
        /\ y.height = g[x].height /\ y.hash = g[x].hash /\ y.dirty = TRUE
    <3>1. IsNode(g[x])
      BY <1>1, <2>3
    <3>2. PICK z : z = g[x]
      OBVIOUS
    <3>3. IsNode(z) /\ y = [[z EXCEPT !.right = X] EXCEPT !.dirty = TRUE]
      BY <2>4, <3>1, <3>2
    <3>4. /\ IsNode(y) /\ y.left = z.left /\ y.right = X /\ y.size = z.size
          /\ y.height = z.height /\ y.hash = z.hash /\ y.dirty = TRUE
      BY <3>3 DEF IsNode
    <3> QED
      BY <3>2, <3>4
  <2>7. h[x] = y /\ \A m \in DOMAIN heap \cup {X} : m # x => h[m] = g[m]
    BY <2>3, <2>5
  <2>8. h = [m \in DOMAIN heap \cup {X} |-> h[m]]
    BY <2>5
  <2> HIDE DEF h, P
  <2>9. \A m \in DOMAIN heap \cup {X} : IsNode(h[m])
    BY <1>1, <2>6, <2>7
  <2>10. h[X] = g[X]
    BY <2>3, <2>7
  <2>11. ASSUME NEW m \in DOMAIN heap
         PROVE  /\ h[m].left = heap[m].left /\ h[m].size = heap[m].size
                /\ h[m].height = heap[m].height /\ h[m].hash = heap[m].hash
                /\ h[m].right = IF k > 0 /\ m = p[k] THEN X ELSE heap[m].right
                /\ h[m].dirty = (IF m \in P THEN TRUE ELSE heap[m].dirty)
    <3>1. CASE m = x
      BY <1>2, <2>1, <2>2, <2>3, <2>6, <2>7, <3>1
    <3>2. CASE m # x
      BY <1>2, <2>2, <2>7, <3>2
    <3> QED
      BY <3>1, <3>2
  <2>12. GrownHeap(heap, p, k, D, X, n, h)
    BY <1>1, <2>8, <2>9, <2>10, <2>11 DEF GrownHeap, P
  <2> QED
    BY <2>12 DEF h
<1> QED
  BY <1>3, <1>4

-----------------------------------------------------------------------------
(* insert_leaf(), on a tree with a root                                     *)

(* What the tree keeps between calls: p is the right edge from the top of  *)
(* the tree to _root, the elements of the stack e above it.  A _root under *)
(* a waiting element is not full.                                          *)
Standing(heap, e, r, L, nf, S, par, off, cnt, p, b) ==
  /\ b \in Nat /\ Len(e) = b /\ p[b + 1] = r
  /\ \A i \in 1 .. b : e[i].n = p[i] /\ ~e[i].left /\ heap[p[i]].dirty
  /\ Good(heap, S, par, off, cnt, p[1], L, nf, NodesAt(p, b))
  /\ Edge(heap, S, off, cnt, Len(L), p, b)
  /\ b # 0 => cnt[r] \notin Powers

Opened(d, k) == [i \in 1 .. k |-> d[i]]

LEMMA OpenedIs ==
  ASSUME NEW T, NEW k \in Nat, NEW d \in [1 .. k + 1 -> T]
  PROVE  /\ Len(d) = k + 1 /\ Last(d) = d[k + 1]
         /\ Front(d) = Opened(d, k) /\ DOMAIN Front(d) = 1 .. k
         /\ Range(Front(d)) = NodesAt(d, k)
<1>1. d \in Seq(T) /\ Len(d) = k + 1
  BY SeqDef, LenProperties
<1>2. Front(d) = [i \in 1 .. k |-> d[i]]
  <2>1. Front(d) = SubSeq(d, 1, k)
    BY <1>1 DEF Front
  <2>2. SubSeq(d, 1, k) = [i \in 1 .. k |-> d[i]]
    BY <1>1
  <2> QED
    BY <2>1, <2>2
<1>3. Range(Front(d)) = NodesAt(d, k)
  BY <1>2 DEF Range, NodesAt
<1> QED
  BY <1>1, <1>2, <1>3 DEF Last, Opened

(* The way down from _root goes on where the stack ends.                    *)
LEMMA DescendsFrom ==
  ASSUME NEW heap, NEW e, NEW r, NEW L, NEW nf, NEW S, NEW par, NEW off, NEW cnt, NEW p, NEW b,
         Standing(heap, e, r, L, nf, S, par, off, cnt, p, b), Len(L) \in Nat,
         NEW d, d = Descent(heap, r)
  PROVE  \E k : /\ Descends(heap, S, off, cnt, Len(L), r, d, k)
                /\ Edge(heap, S, off, cnt, Len(L), JoinedEdge(p, b, d, k), b + k)
                /\ \A i \in 1 .. b + 1 : JoinedEdge(p, b, d, k)[i] = p[i]
                /\ \A i \in 1 .. k + 1 : JoinedEdge(p, b, d, k)[b + i] = d[i]
                /\ Hangs(heap, S, off, cnt, p[1], L, NodesAt(p, b), JoinedEdge(p, b, d, k), b + k, d[k + 1])
<1>1. b \in Nat /\ p[b + 1] = r /\ (b # 0 => cnt[r] \notin Powers)
  BY DEF Standing
<1>2. Good(heap, S, par, off, cnt, p[1], L, nf, NodesAt(p, b)) /\ Edge(heap, S, off, cnt, Len(L), p, b)
  BY DEF Standing
<1>3. \A x \in S : cnt[x] \in Nat /\ off[x] \in Nat
  BY <1>2 DEF Good, Spans
<1>4. b + 1 \in 1 .. b + 1
  BY <1>1
<1>5. r \in S /\ off[r] + cnt[r] = Len(L)
  BY <1>1, <1>2, <1>4 DEF Edge
<1>6. ASSUME NEW y \in S, cnt[y] <= cnt[r] PROVE y \notin NodesAt(p, b)
  <2>1. SUFFICES ASSUME NEW i \in 1 .. b, y = p[i] PROVE FALSE
    BY DEF NodesAt
  <2>2. i \in 1 .. b + 1 /\ i < b + 1
    BY <1>1
  <2>3. cnt[p[b + 1]] < cnt[p[i]]
    BY <1>2, <1>4, <2>2 DEF Edge
  <2> QED
    BY <1>1, <1>3, <1>5, <1>6, <2>1, <2>3
<1>7. PICK k : Descends(heap, S, off, cnt, Len(L), r, d, k)
  BY <1>2, <1>5, <1>6, DescentIs
<1>8. /\ k \in Nat /\ d \in [1 .. k + 1 -> S] /\ d[1] = p[b + 1]
      /\ Edge(heap, S, off, cnt, Len(L), d, k)
      /\ \A i \in 1 .. k : cnt[d[i]] \notin Powers
      /\ cnt[d[k + 1]] \in Powers
  BY <1>1, <1>7 DEF Descends
<1> DEFINE q == JoinedEdge(p, b, d, k)
<1>9. /\ Edge(heap, S, off, cnt, Len(L), q, b + k)
      /\ \A i \in 1 .. b + 1 : q[i] = p[i]
      /\ \A i \in 1 .. k + 1 : q[b + i] = d[i]
  <2>1. \A x \in S : cnt[x] \in Nat
    BY <1>3
  <2>2. k \in Nat /\ Edge(heap, S, off, cnt, Len(L), d, k) /\ d[1] = p[b + 1]
    BY <1>8
  <2> QED
    <3>1. PICK m : m = Len(L)
      OBVIOUS
    <3>2. b \in Nat /\ Edge(heap, S, off, cnt, m, p, b) /\ Edge(heap, S, off, cnt, m, d, k)
      BY <1>1, <1>2, <2>2, <3>1
    <3>3. d[1] = p[b + 1] /\ k \in Nat
      BY <2>2
    <3> HIDE DEF q
    <3>4. /\ Edge(heap, S, off, cnt, m, JoinedEdge(p, b, d, k), b + k)
          /\ \A i \in 1 .. b + 1 : JoinedEdge(p, b, d, k)[i] = p[i]
          /\ \A i \in 1 .. k + 1 : JoinedEdge(p, b, d, k)[b + i] = d[i]
      BY <2>1, <3>2, <3>3, JoinedEdgeIs
    <3> QED
      BY <3>1, <3>4 DEF q
<1>10. Hangs(heap, S, off, cnt, p[1], L, NodesAt(p, b), q, b + k, d[k + 1])
  <2> HIDE DEF q
  <2>1. b + k \in Nat /\ b + k + 1 = b + (k + 1) /\ k + 1 \in 1 .. k + 1
    BY <1>1, <1>8
  <2>2. q[b + k + 1] = d[k + 1]
    BY <1>9, <2>1
  <2>3. d[k + 1] \in S /\ cnt[d[k + 1]] \in Powers /\ off[d[k + 1]] + cnt[d[k + 1]] = Len(L)
    BY <1>8, <2>1 DEF Edge
  <2>4. b # 0 => k # 0
    BY <1>1, <1>8
  <2>5. ASSUME NEW i \in 1 .. b + k PROVE cnt[q[i]] \notin Powers
    <3>1. CASE i <= b
      <4>1. i \in 1 .. b + 1 /\ b # 0 /\ q[i] = p[i]
        BY <1>1, <1>8, <1>9, <3>1
      <4>2. cnt[p[b + 1]] \notin Powers
        BY <1>1, <4>1
      <4>3. \A j \in 1 .. b + 1 : cnt[p[j]] \notin Powers
        BY <1>1, <1>2, <4>2, EdgeOpen
      <4> QED
        BY <4>1, <4>3
    <3>2. CASE i > b
      <4>1. i - b \in 1 .. k /\ i - b \in 1 .. k + 1 /\ b + (i - b) = i
        BY <1>1, <1>8, <3>2
      <4> QED
        BY <1>8, <1>9, <4>1
    <3> QED
      BY <1>1, <1>8, <3>1, <3>2
  <2>6. ASSUME NEW i \in 1 .. b + k
        PROVE  /\ q[i] \in S /\ heap[q[i]].left # Nil /\ off[q[i]] + cnt[q[i]] = Len(L)
               /\ heap[q[i]].right = IF i = b + k THEN d[k + 1] ELSE q[i + 1]
    <3>1. i \in 1 .. (b + k) + 1
      BY <2>1
    <3>2. heap[q[i]].left # Nil /\ heap[q[i]].right = q[i + 1]
      BY <1>9 DEF Edge
    <3>3. q[i] \in S /\ off[q[i]] + cnt[q[i]] = Len(L)
      BY <1>9, <3>1 DEF Edge
    <3> QED
      BY <2>2, <3>2, <3>3
  <2>7. d[k + 1] \notin NodesAt(p, b)
    <3>1. k + 1 = 1 \/ cnt[d[k + 1]] < cnt[d[1]]
      <4>1. 1 \in 1 .. k + 1
        BY <1>8
      <4>2. CASE k = 0
        BY <4>2
      <4>3. CASE k # 0
        <5>1. 1 < k + 1
          BY <1>8, <4>3
        <5> QED
          BY <1>8, <2>1, <4>1, <5>1 DEF Edge
      <4> QED
        BY <4>2, <4>3
    <3>2. cnt[d[k + 1]] <= cnt[r]
      BY <1>1, <1>3, <1>5, <1>8, <2>3, <3>1
    <3> QED
      BY <1>6, <2>3, <3>2
  <2>8. IF b + k = 0 THEN d[k + 1] = p[1] ELSE q[1] = p[1]
    <3>1. b + k = 0 => b = 0 /\ k = 0
      BY <1>1, <1>8
    <3>2. 1 \in 1 .. b + 1
      BY <1>1
    <3>3. b + k = 0 => d[k + 1] = p[1]
      BY <1>8, <3>1
    <3> QED
      BY <1>9, <3>2, <3>3
  <2>9. ASSUME NEW m \in S, m \in NodesAt(p, b) PROVE m \in NodesAt(q, b + k)
    <3>1. PICK i \in 1 .. b : m = p[i]
      BY <2>9 DEF NodesAt
    <3>2. i \in 1 .. b + k /\ i \in 1 .. b + 1
      BY <1>1, <1>8
    <3> QED
      BY <1>9, <3>1, <3>2 DEF NodesAt
  <2> QED
    BY <2>1, <2>3, <2>5, <2>6, <2>7, <2>8, <2>9 DEF Hangs
<1> QED
  BY <1>7, <1>9, <1>10

(* The edge with X in place of the full node it ended at.                   *)
NewEdge(q, m, X) == [i \in 1 .. m + 1 |-> IF i <= m THEN q[i] ELSE X]

LEMMA NewEdgeIs ==
  ASSUME NEW heap, NEW S, NEW off, NEW cnt, NEW L, Len(L) \in Nat, NEW q, NEW m \in Nat,
         Edge(heap, S, off, cnt, Len(L), q, m), \A x \in S : cnt[x] \in Nat /\ off[x] \in Nat,
         S \subseteq DOMAIN heap,
         NEW n, n \notin S, NEW X, X \notin DOMAIN heap, NEW g, GrownHeap(heap, q, m, q[m + 1], X, n, g),
         q[m + 1] \notin NodesAt(q, m)
  PROVE  /\ Edge(g, S \cup {X, n}, GrownOff(S, off, L, q[m + 1], X, n),
                 GrownCnt(S, cnt, q, m, q[m + 1], X, n), Len(L) + 1, NewEdge(q, m, X), m)
         /\ NodesAt(NewEdge(q, m, X), m) = NodesAt(q, m)
         /\ NewEdge(q, m, X)[m + 1] = X /\ \A i \in 1 .. m : NewEdge(q, m, X)[i] = q[i]
<1> DEFINE D == q[m + 1]
           of == GrownOff(S, off, L, D, X, n)
           ct == GrownCnt(S, cnt, q, m, D, X, n)
           s == NewEdge(q, m, X)
<1>1. s[m + 1] = X /\ \A i \in 1 .. m : s[i] = q[i]
  <2>1. m + 1 \in 1 .. m + 1 /\ ~(m + 1 <= m)
    OBVIOUS
  <2> QED
    BY <2>1 DEF NewEdge
<1>2. NodesAt(s, m) = NodesAt(q, m)
  BY <1>1 DEF NodesAt
<1>3. /\ \A i \in 1 .. m + 1 : q[i] \in S /\ off[q[i]] + cnt[q[i]] = Len(L)
      /\ \A i \in 1 .. m : heap[q[i]].left # Nil /\ heap[q[i]].right = q[i + 1]
      /\ \A i \in 1 .. m + 1 : \A j \in 1 .. m + 1 : i < j => cnt[q[j]] < cnt[q[i]]
  BY DEF Edge
<1>4. m + 1 \in 1 .. m + 1 /\ \A i \in 1 .. m : i \in 1 .. m + 1 /\ i < m + 1
  OBVIOUS
<1>5. D \in S /\ off[D] + cnt[D] = Len(L) /\ X \notin S
  BY <1>3, <1>4
<1>6. \A i \in 1 .. m : of[q[i]] = off[q[i]] /\ ct[q[i]] = cnt[q[i]] + 1
  <2>1. SUFFICES ASSUME NEW i \in 1 .. m PROVE of[q[i]] = off[q[i]] /\ ct[q[i]] = cnt[q[i]] + 1
    OBVIOUS
  <2>2. PICK x : x = q[i]
    OBVIOUS
  <2>3. x \in S /\ x # X /\ x # n /\ x \in NodesAt(q, m)
    BY <1>3, <1>4, <1>5, <2>2 DEF NodesAt
  <2>4. of[x] = off[x]
    BY <2>3 DEF GrownOff
  <2>5. ct[x] = cnt[x] + 1
    BY <2>3 DEF GrownCnt
  <2> QED
    BY <2>2, <2>4, <2>5
<1>7. of[X] = off[D] /\ ct[X] = cnt[D] + 1
  BY DEF GrownOff, GrownCnt
<1> HIDE DEF of, ct
<1>8. ASSUME NEW i \in 1 .. m + 1
      PROVE  s[i] \in S \cup {X, n} /\ of[s[i]] + ct[s[i]] = Len(L) + 1
  <2>1. CASE i = m + 1
    <3>1. s[i] = X
      BY <1>1, <2>1
    <3>2. off[D] \in Nat /\ cnt[D] \in Nat
      BY <1>5
    <3> HIDE DEF D, s
    <3>3. off[D] + (cnt[D] + 1) = Len(L) + 1
      BY <1>5, <3>2
    <3> QED
      BY <1>7, <3>1, <3>3
  <2>2. CASE i # m + 1
    <3>1. i \in 1 .. m
      BY <2>2
    <3>2. PICK x : x = q[i]
      OBVIOUS
    <3>3. s[i] = x /\ x \in S /\ off[x] + cnt[x] = Len(L) /\ of[x] = off[x] /\ ct[x] = cnt[x] + 1
      BY <1>1, <1>3, <1>6, <3>1, <3>2
    <3>4. off[x] \in Nat /\ cnt[x] \in Nat
      BY <3>3
    <3> HIDE DEF s
    <3> QED
      BY <3>3, <3>4
  <2> QED
    BY <2>1, <2>2
<1>9. ASSUME NEW i \in 1 .. m PROVE g[s[i]].left # Nil /\ g[s[i]].right = s[i + 1]
  <2>1. PICK x : x = q[i]
    OBVIOUS
  <2>2. s[i] = x /\ x \in S /\ x \in DOMAIN heap /\ heap[x].left # Nil /\ heap[x].right = q[i + 1]
    BY <1>1, <1>3, <1>4, <2>1
  <2>3. g[x].left = heap[x].left /\ g[x].right = IF m > 0 /\ x = q[m] THEN X ELSE heap[x].right
    BY <2>2 DEF GrownHeap
  <2>4. CASE i = m
    <3>1. m > 0 /\ x = q[m] /\ s[i + 1] = X
      BY <1>1, <2>1, <2>4
    <3> QED
      BY <2>2, <2>3, <3>1
  <2>5. CASE i # m
    <3>1. m \in 1 .. m + 1 /\ i \in 1 .. m + 1 /\ i < m /\ i + 1 \in 1 .. m
      BY <2>5
    <3>2. cnt[q[m]] < cnt[q[i]] /\ q[m] \in S /\ q[i] \in S
      BY <1>3, <3>1
    <3>3. q[m] # q[i]
      <4>1. PICK y : y = q[m]
        OBVIOUS
      <4>2. cnt[y] < cnt[x] /\ cnt[x] \in Nat
        BY <2>1, <3>2, <4>1
      <4> QED
        BY <2>1, <4>1, <4>2
    <3>4. s[i + 1] = q[i + 1]
      BY <1>1, <3>1
    <3> QED
      BY <2>1, <2>2, <2>3, <3>3, <3>4
  <2> QED
    BY <2>4, <2>5
<1>10. ASSUME NEW i \in 1 .. m + 1, NEW j \in 1 .. m + 1, i < j PROVE ct[s[j]] < ct[s[i]]
  <2>1. i \in 1 .. m
    BY <1>10
  <2>2. PICK x : x = q[i]
    OBVIOUS
  <2>3. s[i] = x /\ x \in S /\ ct[x] = cnt[x] + 1 /\ cnt[x] \in Nat
    BY <1>1, <1>3, <1>6, <2>1, <2>2
  <2>4. PICK y : y = q[j]
    OBVIOUS
  <2>5. y \in S /\ cnt[y] < cnt[x] /\ cnt[y] \in Nat
    BY <1>3, <1>10, <2>2, <2>4
  <2>6. ct[s[j]] = cnt[y] + 1
    <3>1. CASE j = m + 1
      BY <1>1, <1>7, <2>4, <3>1
    <3>2. CASE j # m + 1
      <4>1. j \in 1 .. m
        BY <3>2
      <4> QED
        BY <1>1, <1>6, <2>4, <4>1
    <3> QED
      BY <3>1, <3>2
  <2> HIDE DEF s
  <2> QED
    BY <2>3, <2>5, <2>6
<1> HIDE DEF s
<1>11. Edge(g, S \cup {X, n}, of, ct, Len(L) + 1, s, m)
  BY <1>8, <1>9, <1>10 DEF Edge
<1> QED
  BY <1>1, <1>2, <1>11 DEF s, of, ct

StackElement == [n : Nat, left : BOOLEAN]

IsTree(t) ==
  /\ t = [heap |-> t.heap, root |-> t.root, leaf_nodes |-> t.leaf_nodes,
          uninserted_leaf_nodes |-> t.uninserted_leaf_nodes, num_flushed |-> t.num_flushed,
          insertion_stack |-> t.insertion_stack]
  /\ t.leaf_nodes \in Seq(Nat) /\ t.uninserted_leaf_nodes \in Seq(Nat)
  /\ t.num_flushed \in Nat /\ t.root \in Nat /\ t.insertion_stack \in Seq(StackElement)

(* A tree with another heap, root and stack.                               *)
Rebuilt(t, heap, r, e) == [t EXCEPT !.heap = heap, !.root = r, !.insertion_stack = e]

IsRebuilt(u, t, heap, r, e) ==
  /\ u.heap = heap /\ u.root = r /\ u.insertion_stack = e
  /\ u.leaf_nodes = t.leaf_nodes /\ u.uninserted_leaf_nodes = t.uninserted_leaf_nodes
  /\ u.num_flushed = t.num_flushed

LEMMA RebuiltRecord ==
  ASSUME NEW t, IsTree(t), NEW heap, NEW r, NEW e, NEW u, u = Rebuilt(t, heap, r, e)
  PROVE  u = [heap |-> heap, root |-> r, leaf_nodes |-> t.leaf_nodes,
              uninserted_leaf_nodes |-> t.uninserted_leaf_nodes, num_flushed |-> t.num_flushed,
              insertion_stack |-> e]
BY DEF Rebuilt, IsTree

LEMMA RebuiltIs ==
  ASSUME NEW t, IsTree(t), NEW heap, NEW r \in Nat, NEW e \in Seq(StackElement),
         NEW u, u = Rebuilt(t, heap, r, e)
  PROVE  IsRebuilt(u, t, heap, r, e) /\ IsTree(u)
<1>1. u = [heap |-> heap, root |-> r, leaf_nodes |-> t.leaf_nodes,
           uninserted_leaf_nodes |-> t.uninserted_leaf_nodes, num_flushed |-> t.num_flushed,
           insertion_stack |-> e]
  BY RebuiltRecord
<1>2. /\ t.leaf_nodes \in Seq(Nat) /\ t.uninserted_leaf_nodes \in Seq(Nat) /\ t.num_flushed \in Nat
  BY DEF IsTree
<1>3. IsTree(u)
  BY <1>1, <1>2 DEF IsTree
<1> QED
  BY <1>1, <1>3 DEF IsRebuilt

LEMMA RebuiltAgain ==
  ASSUME NEW t, IsTree(t), NEW heap, NEW r \in Nat, NEW e \in Seq(StackElement),
         NEW heap2, NEW r2, NEW e2
  PROVE  Rebuilt(Rebuilt(t, heap, r, e), heap2, r2, e2) = Rebuilt(t, heap2, r2, e2)
<1>1. PICK u : u = Rebuilt(t, heap, r, e)
  OBVIOUS
<1>2. IsTree(u) /\ IsRebuilt(u, t, heap, r, e)
  BY <1>1, RebuiltIs
<1>3. PICK v, x : v = Rebuilt(u, heap2, r2, e2) /\ x = Rebuilt(t, heap2, r2, e2)
  OBVIOUS
<1>4. v = [heap |-> heap2, root |-> r2, leaf_nodes |-> u.leaf_nodes,
           uninserted_leaf_nodes |-> u.uninserted_leaf_nodes, num_flushed |-> u.num_flushed,
           insertion_stack |-> e2]
  BY <1>2, <1>3, RebuiltRecord
<1>5. x = [heap |-> heap2, root |-> r2, leaf_nodes |-> t.leaf_nodes,
           uninserted_leaf_nodes |-> t.uninserted_leaf_nodes, num_flushed |-> t.num_flushed,
           insertion_stack |-> e2]
  BY <1>3, RebuiltRecord
<1>6. v = x
  BY <1>2, <1>4, <1>5 DEF IsRebuilt
<1> QED
  BY <1>1, <1>3, <1>6

OneAfter(f, a, m, c, k) ==
  /\ Len(f) = m + k
  /\ \A i \in 1 .. m : f[i] = a[i]
  /\ \A i \in 1 .. k : f[m + i] = c[i]

LEMMA OneAfterOther ==
  ASSUME NEW T, NEW a \in Seq(T), NEW c \in Seq(T)
  PROVE  a \o c \in Seq(T) /\ OneAfter(a \o c, a, Len(a), c, Len(c))
<1> DEFINE m == Len(a)
           k == Len(c)
<1>1. m \in Nat /\ k \in Nat
  OBVIOUS
<1>2. a \o c \in Seq(T) /\ Len(a \o c) = m + k
  BY ConcatProperties
<1>3. \A i \in 1 .. m + k : (a \o c)[i] = IF i <= m THEN a[i] ELSE c[i - m]
  BY ConcatProperties
<1> HIDE DEF m, k
<1>4. ASSUME NEW i \in 1 .. m PROVE (a \o c)[i] = a[i]
  <2>1. i \in 1 .. m + k /\ i <= m
    BY <1>1
  <2> QED
    BY <1>3, <2>1
<1>5. ASSUME NEW i \in 1 .. k PROVE (a \o c)[m + i] = c[i]
  <2>1. m + i \in 1 .. m + k /\ ~(m + i <= m) /\ (m + i) - m = i
    BY <1>1
  <2> QED
    BY <1>3, <2>1
<1> QED
  BY <1>2, <1>4, <1>5 DEF OneAfter

(* The stack continue_insertion_stack() leaves.                             *)
Turned(heap, d, k) == [i \in 1 .. k |-> [n |-> d[i], left |-> GoLeft(heap, d[i])]]

Stacked(heap, e, d, k, X) ==
  e \o Turned(heap, d, k) \o <<[n |-> X, left |-> FALSE]>>

IsStacked(f, heap, e, d, k, X, b) ==
  /\ f \in Seq(StackElement) /\ Len(f) = b + k + 1
  /\ \A i \in 1 .. b : f[i] = e[i]
  /\ \A i \in 1 .. k : f[b + i] = [n |-> d[i], left |-> GoLeft(heap, d[i])]
  /\ f[b + k + 1] = [n |-> X, left |-> FALSE]

LEMMA StackedIs ==
  ASSUME NEW heap, NEW e \in Seq(StackElement), NEW k \in Nat, NEW d, \A i \in 1 .. k : d[i] \in Nat,
         NEW X \in Nat, NEW b \in Nat, Len(e) = b
  PROVE  IsStacked(Stacked(heap, e, d, k, X), heap, e, d, k, X, b)
<1> DEFINE o == Turned(heap, d, k)
           x == <<[n |-> X, left |-> FALSE]>>
<1>1. o \in Seq(StackElement) /\ Len(o) = k /\ \A i \in 1 .. k : o[i] = [n |-> d[i], left |-> GoLeft(heap, d[i])]
  <2>1. \A i \in 1 .. k : [n |-> d[i], left |-> GoLeft(heap, d[i])] \in StackElement
    BY DEF StackElement, GoLeft
  <2>2. o \in [1 .. k -> StackElement]
    BY <2>1 DEF Turned
  <2>3. o \in Seq(StackElement)
    BY <2>2, SeqDef
  <2>4. DOMAIN o = 1 .. k
    BY DEF Turned
  <2>5. Len(o) = k
    BY <2>3, <2>4, LenProperties
  <2> QED
    BY <2>3, <2>5 DEF Turned
<1>2. x \in Seq(StackElement) /\ Len(x) = 1 /\ x[1] = [n |-> X, left |-> FALSE]
  <2>1. [n |-> X, left |-> FALSE] \in StackElement
    BY DEF StackElement
  <2> QED
    BY <2>1
<1> HIDE DEF o, x
<1>3. /\ e \o o \in Seq(StackElement) /\ Len(e \o o) = b + k
      /\ \A i \in 1 .. b : (e \o o)[i] = e[i]
      /\ \A i \in 1 .. k : (e \o o)[b + i] = o[i]
  <2>1. e \o o \in Seq(StackElement) /\ OneAfter(e \o o, e, b, o, k)
    BY <1>1, OneAfterOther
  <2> QED
    BY <2>1 DEF OneAfter
<1>4. PICK f : f = e \o o
  OBVIOUS
<1>5. f \in Seq(StackElement) /\ Len(f) = b + k
  BY <1>3, <1>4
<1>6. /\ f \o x \in Seq(StackElement) /\ Len(f \o x) = b + k + 1
      /\ \A i \in 1 .. b + k : (f \o x)[i] = f[i]
      /\ (f \o x)[b + k + 1] = x[1]
  <2>1. PICK m : m = b + k
    OBVIOUS
  <2>2. m \in Nat /\ f \in Seq(StackElement) /\ Len(f) = m /\ x \in Seq(StackElement) /\ Len(x) = 1
    BY <1>2, <1>5, <2>1
  <2>3. /\ f \o x \in Seq(StackElement) /\ Len(f \o x) = m + 1
        /\ \A i \in 1 .. m : (f \o x)[i] = f[i]
        /\ \A i \in 1 .. 1 : (f \o x)[m + i] = x[i]
    <3>1. f \o x \in Seq(StackElement) /\ OneAfter(f \o x, f, m, x, 1)
      BY <2>2, OneAfterOther
    <3> QED
      BY <3>1 DEF OneAfter
  <2>4. 1 \in 1 .. 1
    OBVIOUS
  <2> QED
    BY <2>1, <2>3, <2>4
<1>7. Stacked(heap, e, d, k, X) = f \o x
  BY <1>4 DEF Stacked, o, x
<1>8. ASSUME NEW i \in 1 .. b PROVE (f \o x)[i] = e[i]
  <2>1. i \in 1 .. b + k
    OBVIOUS
  <2> QED
    BY <1>3, <1>4, <1>6, <2>1
<1>9. ASSUME NEW i \in 1 .. k PROVE (f \o x)[b + i] = [n |-> d[i], left |-> GoLeft(heap, d[i])]
  <2>1. b + i \in 1 .. b + k
    OBVIOUS
  <2> QED
    BY <1>1, <1>3, <1>4, <1>6, <2>1
<1> QED
  BY <1>2, <1>6, <1>7, <1>8, <1>9 DEF IsStacked

LEMMA ContinueInsertionStackIs ==
  ASSUME NEW t, IsTree(t), NEW r, NEW n, NEW S, NEW off, NEW cnt, NEW m, NEW k, NEW d,
         Descends(t.heap, S, off, cnt, m, r, d, k), d = Descent(t.heap, r),
         NEW u, u = ContinueInsertionStack(t, r, n)
  PROVE  u = Rebuilt(t, ContinuedHeap(t.heap, NodesAt(d, k), d[k + 1], n), t.root,
                     Stacked(t.heap, t.insertion_stack, d, k, Fresh(t.heap)))
<1>1. k \in Nat /\ d \in [1 .. k + 1 -> S]
  BY DEF Descends
<1>2. /\ Last(d) = d[k + 1] /\ DOMAIN Front(d) = 1 .. k /\ Range(Front(d)) = NodesAt(d, k)
      /\ Front(d) = Opened(d, k)
  <2>1. Last(d) = d[k + 1] /\ DOMAIN Front(d) = 1 .. k
    BY <1>1, OpenedIs
  <2>2. Range(Front(d)) = NodesAt(d, k)
    BY <1>1, OpenedIs
  <2>3. Front(d) = Opened(d, k)
    BY <1>1, OpenedIs
  <2> QED
    BY <2>1, <2>2, <2>3
<1>3. [i \in DOMAIN Front(d) |-> [n |-> Front(d)[i], left |-> GoLeft(t.heap, Front(d)[i])]]
        = Turned(t.heap, d, k)
  BY <1>2 DEF Turned, Opened
<1>4. ContinueInsertionStack(t, r, n)
        = [t EXCEPT !.heap = Allocate(MarkDirty(t.heap, Range(Front(d))),
                                      NewInner(MarkDirty(t.heap, Range(Front(d))), Last(d), n)),
                    !.insertion_stack =
                       @ \o [i \in DOMAIN Front(d) |-> [n |-> Front(d)[i], left |-> GoLeft(t.heap, Front(d)[i])]]
                         \o <<[n |-> Fresh(t.heap), left |-> FALSE]>>]
  BY DEF ContinueInsertionStack
<1>5. ContinueInsertionStack(t, r, n)
        = [t EXCEPT !.heap = ContinuedHeap(t.heap, NodesAt(d, k), d[k + 1], n),
                    !.insertion_stack = Stacked(t.heap, t.insertion_stack, d, k, Fresh(t.heap))]
  BY <1>2, <1>3, <1>4 DEF ContinuedHeap, Stacked
<1>6. t = [heap |-> t.heap, root |-> t.root, leaf_nodes |-> t.leaf_nodes,
           uninserted_leaf_nodes |-> t.uninserted_leaf_nodes, num_flushed |-> t.num_flushed,
           insertion_stack |-> t.insertion_stack]
  BY DEF IsTree
<1>7. PICK h, e : /\ h = ContinuedHeap(t.heap, NodesAt(d, k), d[k + 1], n)
                  /\ e = Stacked(t.heap, t.insertion_stack, d, k, Fresh(t.heap))
  OBVIOUS
<1>8. ContinueInsertionStack(t, r, n) = [t EXCEPT !.heap = h, !.insertion_stack = e]
  BY <1>5, <1>7
<1>9. [t EXCEPT !.heap = h, !.insertion_stack = e] = Rebuilt(t, h, t.root, e)
  BY <1>6 DEF Rebuilt
<1> QED
  BY <1>7, <1>8, <1>9

-----------------------------------------------------------------------------
(* A leaf n joins the tree: X and n are new in it, and what the other      *)
(* leaves and the nodes outside the tree are does not change.              *)
Joins(heap, S, off, cnt, m, n, h2, S2, off2, cnt2) ==
  /\ S \cup {n} \subseteq S2 /\ S2 \cap DOMAIN heap = S \cup {n} /\ DOMAIN h2 = DOMAIN heap \cup S2
  /\ off2[n] = m /\ cnt2[n] = 1
  /\ \A x \in S : off2[x] = off[x] /\ (cnt[x] = 1 => cnt2[x] = 1)
  /\ \A x \in DOMAIN heap : x \notin S /\ x # n => h2[x] = heap[x]

LEMMA StandingParts ==
  ASSUME NEW heap, NEW e, NEW r, NEW L, NEW nf, NEW S, NEW par, NEW off, NEW cnt, NEW p, NEW b,
         Standing(heap, e, r, L, nf, S, par, off, cnt, p, b)
  PROVE  /\ Heap(heap) /\ Closed(heap) /\ S \subseteq DOMAIN heap /\ DOMAIN heap \subseteq Nat \ {0}
         /\ Linked(heap, S, par, p[1]) /\ Spans(heap, S, off, cnt, Nil, nf)
         /\ \A x \in S : off[x] \in Nat /\ cnt[x] \in Nat \ {0}
         /\ r \in S /\ p[1] \in S /\ r # Nil
         /\ b \in Nat /\ Good(heap, S, par, off, cnt, p[1], L, nf, NodesAt(p, b))
         /\ Edge(heap, S, off, cnt, Len(L), p, b)
<1>1. /\ b \in Nat /\ p[b + 1] = r
      /\ Good(heap, S, par, off, cnt, p[1], L, nf, NodesAt(p, b))
      /\ Edge(heap, S, off, cnt, Len(L), p, b)
  BY DEF Standing
<1>2. /\ Heap(heap) /\ Closed(heap) /\ Linked(heap, S, par, p[1]) /\ Spans(heap, S, off, cnt, Nil, nf)
  BY <1>1 DEF Good
<1>3. S \subseteq DOMAIN heap /\ p[1] \in S /\ DOMAIN heap \subseteq Nat \ {0}
  BY <1>2 DEF Linked, Heap
<1>4. \A x \in S : off[x] \in Nat /\ cnt[x] \in Nat \ {0}
  BY <1>2 DEF Spans
<1>5. r \in S
  <2>1. b + 1 \in 1 .. b + 1
    BY <1>1
  <2> QED
    BY <1>1, <2>1 DEF Edge
<1>6. r # Nil
  BY <1>3, <1>5 DEF Nil
<1> QED
  BY <1>1, <1>2, <1>3, <1>4, <1>5, <1>6

(* The heap once the new leaf hangs from X, with the edge to X.             *)
Linking(h, L, nf, S, off, cnt, heap, n, hash, q, M, X) ==
  \E S2, par2, off2, cnt2, g :
    /\ g = LinkedHeap(h, q, M, X)
    /\ Joins(heap, S, off, cnt, Len(L), n, g, S2, off2, cnt2)
    /\ Good(g, S2, par2, off2, cnt2, NewEdge(q, M, X)[1], Append(L, hash), nf,
            NodesAt(NewEdge(q, M, X), M))
    /\ Edge(g, S2, off2, cnt2, Len(Append(L, hash)), NewEdge(q, M, X), M)
    /\ UpdateSizes(h, X) = h
    /\ \A i \in 1 .. M : g[q[i]].dirty
    /\ X \in Nat /\ X \in S2 /\ \A i \in 1 .. M : q[i] \in S

LEMMA LinkedGood ==
  ASSUME NEW heap, NEW e, NEW r, NEW L, NEW nf, NEW S, NEW par, NEW off, NEW cnt, NEW p, NEW b,
         Standing(heap, e, r, L, nf, S, par, off, cnt, p, b),
         NEW LS, L \in Seq(LS), NEW hash \in LS, Len(L) \in Nat,
         NEW n \in DOMAIN heap, n \notin S, heap[n] = NewLeaf(hash),
         NEW d, NEW k \in Nat, NEW q, NEW D, Hangs(heap, S, off, cnt, p[1], L, NodesAt(p, b), q, b + k, D),
         Edge(heap, S, off, cnt, Len(L), q, b + k), q[b + k + 1] = D,
         \A i \in 1 .. b + 1 : q[i] = p[i], \A i \in 1 .. k + 1 : q[b + i] = d[i],
         NEW X, X = Fresh(heap), NEW h, h = ContinuedHeap(heap, NodesAt(d, k), D, n)
  PROVE  Linking(h, L, nf, S, off, cnt, heap, n, hash, q, b + k, X)
<1> DEFINE M == b + k
           S2 == S \cup {X, n}
           par2 == GrownPar(S, par, q, M, D, X, n)
           off2 == GrownOff(S, off, L, D, X, n)
           cnt2 == GrownCnt(S, cnt, q, M, D, X, n)
           g == LinkedHeap(h, q, M, X)
           s == NewEdge(q, M, X)
           L2 == Append(L, hash)
<1>1. /\ Heap(heap) /\ S \subseteq DOMAIN heap /\ DOMAIN heap \subseteq Nat \ {0}
      /\ \A x \in S : off[x] \in Nat /\ cnt[x] \in Nat \ {0}
      /\ b \in Nat /\ Good(heap, S, par, off, cnt, p[1], L, nf, NodesAt(p, b))
      /\ Linked(heap, S, par, p[1])
  <2> HIDE DEF M, S2, par2, off2, cnt2, g, s, L2
  <2> QED
    BY StandingParts
<1>2. M \in Nat /\ Len(L2) = Len(L) + 1
  BY <1>1
<1>3. D \in S /\ D \notin NodesAt(p, b) /\ cnt[D] \in Powers
  BY DEF Hangs
<1>4. heap[D].height # 0
  BY <1>1, <1>3 DEF Good, Measured, HeightIs
<1>5. X \in Nat \ {0} /\ X \notin DOMAIN heap /\ Continued(heap, NodesAt(d, k), D, X, n, h)
      /\ UpdateSizes(h, X) = h
  BY <1>1, <1>3, <1>4, ContinuedIs
<1>6. \A i \in 1 .. M : q[i] \in S /\ cnt[q[i]] \notin Powers
  BY DEF Hangs
<1>7. NodesAt(d, k) \subseteq NodesAt(q, M)
  <2>1. ASSUME NEW i \in 1 .. k PROVE d[i] \in NodesAt(q, M)
    <3>1. b + i \in 1 .. M /\ i \in 1 .. k + 1
      BY <1>1
    <3>2. q[b + i] = d[i]
      BY <3>1
    <3> QED
      BY <3>1, <3>2 DEF NodesAt
  <2> QED
    BY <2>1 DEF NodesAt
<1>8. ASSUME NEW i \in 1 .. M, q[i] \notin NodesAt(d, k) PROVE heap[q[i]].dirty = TRUE
  <2>1. CASE i <= b
    <3>1. i \in 1 .. b /\ i \in 1 .. b + 1
      BY <1>1, <2>1
    <3>2. heap[p[i]].dirty /\ q[i] = p[i]
      BY <3>1 DEF Standing
    <3>3. IsNode(heap[q[i]])
      BY <1>1, <1>6 DEF Heap
    <3> QED
      BY <3>2, <3>3 DEF IsNode
  <2>2. CASE i > b
    <3>1. i - b \in 1 .. k /\ i - b \in 1 .. k + 1 /\ b + (i - b) = i
      BY <1>1, <2>2
    <3>2. q[i] = d[i - b]
      BY <3>1
    <3> QED
      BY <1>8, <3>1, <3>2 DEF NodesAt
  <2>3. i <= b \/ i > b
    BY <1>1
  <2> QED
    BY <2>1, <2>2, <2>3
<1>9. GrownHeap(heap, q, M, D, X, n, g)
  <2>1. \A i \in 1 .. M : q[i] \in DOMAIN heap
    BY <1>1, <1>6
  <2> HIDE DEF M
  <2> QED
    BY <1>1, <1>2, <1>5, <1>7, <1>8, <2>1, LinkedHeapIs
<1>10. Hangs(heap, S, off, cnt, p[1], L, NodesAt(p, b), q, M, D)
  OBVIOUS
<1>11. Good(g, S2, par2, off2, cnt2, GrownTop(p[1], M, X), L2, nf, NodesAt(q, M))
  <2> HIDE DEF M, g
  <2> QED
    BY <1>1, <1>5, <1>9, <1>10, GrownGood
<1>12. D \notin NodesAt(q, M)
  <2>1. ASSUME NEW i \in 1 .. M PROVE q[i] # D
    BY <1>3, <1>6
  <2> QED
    BY <2>1 DEF NodesAt
<1>13. /\ Edge(g, S2, off2, cnt2, Len(L) + 1, s, M) /\ NodesAt(s, M) = NodesAt(q, M)
       /\ s[M + 1] = X /\ \A i \in 1 .. M : s[i] = q[i]
  <2>1. \A x \in S : cnt[x] \in Nat /\ off[x] \in Nat
    BY <1>1
  <2>2. n \notin S /\ X \notin DOMAIN heap /\ S \subseteq DOMAIN heap
    BY <1>1, <1>5
  <2>3. Edge(heap, S, off, cnt, Len(L), q, M) /\ q[M + 1] = D
    OBVIOUS
  <2> HIDE DEF M, g, s, S2, off2, cnt2
  <2>4. GrownHeap(heap, q, M, q[M + 1], X, n, g) /\ q[M + 1] \notin NodesAt(q, M)
    BY <1>9, <1>12, <2>3
  <2>5. Edge(g, S \cup {X, n}, GrownOff(S, off, L, q[M + 1], X, n),
             GrownCnt(S, cnt, q, M, q[M + 1], X, n), Len(L) + 1, NewEdge(q, M, X), M)
    BY <1>2, <2>1, <2>2, <2>3, <2>4, NewEdgeIs
  <2>6. NewEdge(q, M, X)[M + 1] = X /\ \A i \in 1 .. M : NewEdge(q, M, X)[i] = q[i]
    BY <1>2 DEF NewEdge
  <2>7. NodesAt(NewEdge(q, M, X), M) = NodesAt(q, M)
    BY <2>6 DEF NodesAt
  <2>8. Edge(g, S2, off2, cnt2, Len(L) + 1, s, M)
    BY <2>3, <2>5 DEF s, S2, off2, cnt2
  <2> QED
    BY <2>6, <2>7, <2>8 DEF s
<1>14. s[1] = GrownTop(p[1], M, X)
  <2>1. CASE M = 0
    <3>1. s[1] = X
      BY <1>13, <2>1
    <3> QED
      BY <2>1, <3>1 DEF GrownTop
  <2>2. CASE M # 0
    <3>1. 1 \in 1 .. M /\ 1 \in 1 .. b + 1
      BY <1>1, <1>2, <2>2
    <3>2. s[1] = q[1] /\ q[1] = p[1]
      BY <1>13, <3>1
    <3> QED
      BY <2>2, <3>2 DEF GrownTop
  <2> QED
    BY <2>1, <2>2
<1>15. Joins(heap, S, off, cnt, Len(L), n, g, S2, off2, cnt2)
  <2>1. DOMAIN g = DOMAIN heap \cup S2
    <3>1. DOMAIN g = DOMAIN heap \cup {X}
      BY <1>9 DEF GrownHeap
    <3> QED
      BY <1>1, <3>1
  <2>2. S2 \cap DOMAIN heap = S \cup {n} /\ S \cup {n} \subseteq S2
    BY <1>1, <1>5
  <2>3. off2[n] = Len(L) /\ cnt2[n] = 1
    <3>1. n # X
      BY <1>5
    <3> QED
      BY <3>1 DEF GrownOff, GrownCnt
  <2>4. ASSUME NEW x \in S PROVE off2[x] = off[x] /\ (cnt[x] = 1 => cnt2[x] = 1)
    <3>1. x # X /\ x # n
      BY <1>1, <1>5
    <3>2. off2[x] = off[x]
      BY <3>1 DEF GrownOff
    <3>3. cnt2[x] = IF x \in NodesAt(q, M) THEN cnt[x] + 1 ELSE cnt[x]
      BY <3>1 DEF GrownCnt
    <3>4. cnt[x] = 1 => x \notin NodesAt(q, M)
      <4>1. ASSUME cnt[x] = 1, NEW i \in 1 .. M, x = q[i] PROVE FALSE
        BY <1>6, <4>1, PowersNat
      <4> QED
        BY <4>1 DEF NodesAt
    <3> QED
      BY <3>2, <3>3, <3>4
  <2>5. ASSUME NEW x \in DOMAIN heap, x \notin S, x # n PROVE g[x] = heap[x]
    <3>1. x \notin NodesAt(q, M)
      BY <1>6, <2>5 DEF NodesAt
    <3>2. ~(M > 0 /\ x = q[M])
      <4>1. ASSUME M > 0, x = q[M] PROVE FALSE
        <5>1. M \in 1 .. M
          BY <1>2, <4>1
        <5> QED
          BY <1>6, <2>5, <4>1, <5>1
      <4> QED
        BY <4>1
    <3>3. PICK y, z : y = g[x] /\ z = heap[x]
      OBVIOUS
    <3>4. IsNode(y) /\ IsNode(z)
      BY <1>1, <1>9, <3>3 DEF GrownHeap, Heap
    <3>5. /\ g[x].left = heap[x].left /\ g[x].size = heap[x].size
          /\ g[x].height = heap[x].height /\ g[x].hash = heap[x].hash
          /\ g[x].right = IF M > 0 /\ x = q[M] THEN X ELSE heap[x].right
          /\ g[x].dirty = (IF x \in NodesAt(q, M) THEN TRUE ELSE heap[x].dirty)
      BY <1>9 DEF GrownHeap
    <3>6. /\ y.left = z.left /\ y.size = z.size /\ y.height = z.height /\ y.hash = z.hash
          /\ y.right = z.right /\ y.dirty = z.dirty
      BY <3>1, <3>2, <3>3, <3>5
    <3>7. y = z
      BY <3>4, <3>6 DEF IsNode
    <3> QED
      BY <3>3, <3>7
  <2> HIDE DEF g, S2, off2, cnt2
  <2> QED
    BY <2>1, <2>2, <2>3, <2>4, <2>5 DEF Joins
<1>16. ASSUME NEW i \in 1 .. M PROVE g[q[i]].dirty
  <2>1. q[i] \in NodesAt(q, M) /\ q[i] \in DOMAIN heap
    BY <1>1, <1>6 DEF NodesAt
  <2>2. g[q[i]].dirty = TRUE
    BY <1>9, <2>1 DEF GrownHeap
  <2> QED
    BY <2>2
<1>17. X \in Nat /\ X \in S2
  BY <1>5
<1> HIDE DEF M, S2, par2, off2, cnt2, g, s, L2
<1>18. /\ Good(g, S2, par2, off2, cnt2, s[1], L2, nf, NodesAt(s, M))
       /\ Edge(g, S2, off2, cnt2, Len(L2), s, M)
  BY <1>2, <1>11, <1>13, <1>14
<1>19. \A i \in 1 .. M : q[i] \in S
  BY <1>6
<1> QED
  BY <1>5, <1>15, <1>16, <1>17, <1>18, <1>19 DEF M, g, s, L2, Linking

Settled(t, complete, heap, S, par, off, cnt, L, nf, p, b, hh, r, e, u) ==
  /\ u = Rebuilt(t, hh, r, e) /\ r \in Nat /\ e \in Seq(StackElement)
  /\ (complete => e = <<>>)
  /\ Standing(hh, e, r, L, nf, S, par, off, cnt, p, b)
  /\ DOMAIN hh = DOMAIN heap /\ \A n \in DOMAIN heap : n \notin S => hh[n] = heap[n]

(* A run of process_insertion_stack() that leaves a tree of the same leaves.*)
LEMMA ProcessedStands ==
  ASSUME NEW t, IsTree(t), NEW complete \in BOOLEAN, NEW heap, NEW S, NEW par, NEW off, NEW cnt, NEW L,
         NEW nf, NEW p, NEW b \in Nat, NEW hh, NEW k,
         Processed(t, complete, heap, S, par, off, cnt, p[1], L, nf, p, b, hh, k),
         Edge(heap, S, off, cnt, Len(L), p, b), Len(t.insertion_stack) = b + 1,
         S \subseteq DOMAIN heap,
         StackIs(heap, t.insertion_stack, p, b), NEW u, u = ProcessInsertionStack(t, complete)
  PROVE  \E r, e : Settled(t, complete, heap, S, par, off, cnt, L, nf, p, b - k, hh, r, e, u)
<1> DEFINE r == p[b + 1 - k]
           e == SubSeq(t.insertion_stack, 1, b - k)
<1>1. /\ k \in 0 .. b /\ (complete => k = b)
      /\ u = [t EXCEPT !.heap = hh, !.root = p[b + 1 - k], !.insertion_stack = SubSeq(@, 1, b - k)]
      /\ Good(hh, S, par, off, cnt, p[1], L, nf, NodesAt(p, b - k))
      /\ SameTree(hh, heap) /\ \A n \in DOMAIN heap : n \notin S => hh[n] = heap[n]
      /\ k # b => cnt[p[b + 1 - k]] \notin Powers
  BY DEF Processed
<1>2. u = Rebuilt(t, hh, r, e)
  BY <1>1 DEF Rebuilt
<1>3. b - k \in Nat /\ b - k <= b /\ b + 1 - k \in 1 .. b + 1 /\ b + 1 - k = (b - k) + 1
  BY <1>1
<1>4. DOMAIN hh = DOMAIN heap /\ Heap(hh) /\ DOMAIN hh \subseteq Nat
  BY <1>1 DEF SameTree, SameLinks, Good, Heap
<1>5. r \in S /\ r \in Nat
  BY <1>3, <1>4 DEF Edge
<1>6. t.insertion_stack \in Seq(StackElement)
  BY DEF IsTree
<1>7. PICK f : f = t.insertion_stack
  OBVIOUS
<1>8. e \in Seq(StackElement) /\ Len(e) = b - k /\ \A i \in 1 .. b - k : e[i] = f[i]
  <2>1. f \in Seq(StackElement) /\ Len(f) = b + 1 /\ e = SubSeq(f, 1, b - k)
    BY <1>6, <1>7
  <2>2. PICK j : j = b - k
    OBVIOUS
  <2>3. j \in Nat /\ j <= Len(f)
    BY <1>3, <2>1, <2>2
  <2>4. SubSeq(f, 1, j) \in Seq(StackElement) /\ Len(SubSeq(f, 1, j)) = j
        /\ \A i \in 1 .. j : SubSeq(f, 1, j)[i] = f[i]
    BY <2>1, <2>3
  <2> QED
    BY <2>1, <2>2, <2>4
<1>9. complete => e = <<>>
  <2>1. complete => b - k = 0
    BY <1>1
  <2> HIDE DEF e
  <2> QED
    BY <1>8, <2>1
<1>10. ASSUME NEW i \in 1 .. b - k PROVE e[i].n = p[i] /\ ~e[i].left /\ hh[p[i]].dirty
  <2>1. i \in 1 .. b /\ i \in 1 .. b + 1
    BY <1>3
  <2>2. f[i].n = p[i] /\ ~f[i].left /\ heap[p[i]].dirty
    BY <1>7, <2>1 DEF StackIs
  <2>3. p[i] \in DOMAIN heap
    BY <2>1 DEF Edge
  <2>4. hh[p[i]].dirty = heap[p[i]].dirty
    BY <1>1, <2>3 DEF SameTree
  <2> QED
    BY <1>8, <2>2, <2>4
<1>11. Edge(hh, S, off, cnt, Len(L), p, b - k)
  <2>1. PICK j : j = b - k
    OBVIOUS
  <2>2. j \in Nat /\ j <= b
    BY <1>3, <2>1
  <2>3. ASSUME NEW i \in 1 .. j PROVE hh[p[i]].left # Nil /\ hh[p[i]].right = p[i + 1]
    <3>1. i \in 1 .. b /\ i \in 1 .. b + 1
      BY <2>2
    <3>2. heap[p[i]].left # Nil /\ heap[p[i]].right = p[i + 1] /\ p[i] \in DOMAIN heap
      BY <3>1 DEF Edge
    <3> QED
      BY <1>1, <3>2 DEF SameTree, SameLinks
  <2>4. ASSUME NEW i \in 1 .. j + 1
        PROVE  /\ p[i] \in S /\ off[p[i]] + cnt[p[i]] = Len(L)
               /\ \A l \in 1 .. j + 1 : i < l => cnt[p[l]] < cnt[p[i]]
    <3>1. i \in 1 .. b + 1 /\ \A l \in 1 .. j + 1 : l \in 1 .. b + 1
      BY <2>2
    <3> QED
      BY <3>1 DEF Edge
  <2>5. Edge(hh, S, off, cnt, Len(L), p, j)
    BY <2>3, <2>4 DEF Edge
  <2> QED
    BY <2>1, <2>5
<1>12. b - k # 0 => cnt[r] \notin Powers
  <2>1. b - k # 0 => k # b
    BY <1>1
  <2> QED
    BY <1>1, <2>1
<1>13. p[(b - k) + 1] = r
  BY <1>3
<1>14. Standing(hh, e, r, L, nf, S, par, off, cnt, p, b - k)
  <2> HIDE DEF e, r
  <2> QED
    BY <1>1, <1>3, <1>8, <1>10, <1>11, <1>12, <1>13 DEF Standing
<1> HIDE DEF e, r
<1> QED
  BY <1>1, <1>2, <1>4, <1>5, <1>8, <1>9, <1>14 DEF Settled

Takes(t, L, hash, nf, S, off, cnt, n, hh, r, e, S2, par2, off2, cnt2, p2, b2) ==
  /\ Hang(t, n) = Rebuilt(t, hh, r, e) /\ r \in Nat /\ e \in Seq(StackElement)
  /\ Standing(hh, e, r, Append(L, hash), nf, S2, par2, off2, cnt2, p2, b2)
  /\ Joins(t.heap, S, off, cnt, Len(L), n, hh, S2, off2, cnt2)

(* insert_leaf() of n, into a tree that has a leaf.                         *)
LEMMA HangIs ==
  ASSUME NEW t, IsTree(t), NEW L, NEW nf, NEW S, NEW par, NEW off, NEW cnt, NEW p, NEW b,
         Standing(t.heap, t.insertion_stack, t.root, L, nf, S, par, off, cnt, p, b),
         NEW LS, L \in Seq(LS), NEW hash \in LS,
         NEW n \in DOMAIN t.heap, n \notin S, t.heap[n] = NewLeaf(hash)
  PROVE  \E hh, r, e, S2, par2, off2, cnt2, p2, b2 :
           Takes(t, L, hash, nf, S, off, cnt, n, hh, r, e, S2, par2, off2, cnt2, p2, b2)
<1>1. PICK heap, es, ro : heap = t.heap /\ es = t.insertion_stack /\ ro = t.root
  OBVIOUS
<1>2. Standing(heap, es, ro, L, nf, S, par, off, cnt, p, b)
  BY <1>1
<1>3. /\ Heap(heap) /\ S \subseteq DOMAIN heap /\ DOMAIN heap \subseteq Nat \ {0}
      /\ ro \in S /\ ro # Nil /\ b \in Nat
  BY <1>2, StandingParts
<1>4. Len(L) \in Nat
  OBVIOUS
<1>5. PICK d : d = Descent(heap, ro)
  OBVIOUS
<1>6. PICK k : /\ Descends(heap, S, off, cnt, Len(L), ro, d, k)
               /\ Edge(heap, S, off, cnt, Len(L), JoinedEdge(p, b, d, k), b + k)
               /\ \A i \in 1 .. b + 1 : JoinedEdge(p, b, d, k)[i] = p[i]
               /\ \A i \in 1 .. k + 1 : JoinedEdge(p, b, d, k)[b + i] = d[i]
               /\ Hangs(heap, S, off, cnt, p[1], L, NodesAt(p, b), JoinedEdge(p, b, d, k), b + k, d[k + 1])
  BY <1>2, <1>4, <1>5, DescendsFrom
<1>7. k \in Nat /\ d \in [1 .. k + 1 -> S] /\ \A i \in 1 .. k : ~GoLeft(heap, d[i])
  BY <1>6 DEF Descends
<1>8. PICK q, D, X, M : q = JoinedEdge(p, b, d, k) /\ D = d[k + 1] /\ X = Fresh(heap) /\ M = b + k
  OBVIOUS
<1>9. /\ Edge(heap, S, off, cnt, Len(L), q, M)
      /\ \A i \in 1 .. b + 1 : q[i] = p[i]
      /\ \A i \in 1 .. k + 1 : q[b + i] = d[i]
      /\ Hangs(heap, S, off, cnt, p[1], L, NodesAt(p, b), q, M, D)
      /\ M \in Nat
  BY <1>3, <1>6, <1>7, <1>8
<1>10. q[M + 1] = D
  <2>1. k + 1 \in 1 .. k + 1 /\ b + (k + 1) = M + 1
    BY <1>3, <1>7, <1>8
  <2> QED
    BY <1>8, <1>9, <2>1
<1>11. n \in DOMAIN heap /\ heap[n] = NewLeaf(hash)
  BY <1>1
<1>12. PICK h : h = ContinuedHeap(heap, NodesAt(d, k), D, n)
  OBVIOUS
<1>13. PICK S2, par2, off2, cnt2, g :
           /\ g = LinkedHeap(h, q, M, X)
           /\ Joins(heap, S, off, cnt, Len(L), n, g, S2, off2, cnt2)
           /\ Good(g, S2, par2, off2, cnt2, NewEdge(q, M, X)[1], Append(L, hash), nf,
                   NodesAt(NewEdge(q, M, X), M))
           /\ Edge(g, S2, off2, cnt2, Len(Append(L, hash)), NewEdge(q, M, X), M)
           /\ UpdateSizes(h, X) = h
           /\ \A i \in 1 .. M : g[q[i]].dirty
           /\ X \in Nat /\ X \in S2 /\ \A i \in 1 .. M : q[i] \in S
  <2>1. Edge(heap, S, off, cnt, Len(L), q, b + k) /\ q[b + k + 1] = D
        /\ Hangs(heap, S, off, cnt, p[1], L, NodesAt(p, b), q, b + k, D)
    BY <1>8, <1>9, <1>10
  <2>2. Linking(h, L, nf, S, off, cnt, heap, n, hash, q, b + k, X)
    BY <1>2, <1>4, <1>7, <1>8, <1>9, <1>11, <1>12, <2>1, LinkedGood
  <2>3. Linking(h, L, nf, S, off, cnt, heap, n, hash, q, M, X)
    BY <1>8, <2>2
  <2> QED
    BY <2>3 DEF Linking
<1>14. PICK s, L2 : s = NewEdge(q, M, X) /\ L2 = Append(L, hash)
  OBVIOUS
<1>15. s[M + 1] = X /\ \A i \in 1 .. M : s[i] = q[i]
  BY <1>9, <1>14 DEF NewEdge
<1>16. PICK e2 : e2 = Stacked(heap, es, d, k, X)
  OBVIOUS
<1>17. es \in Seq(StackElement) /\ Len(es) = b
  BY <1>1, <1>2 DEF IsTree, Standing
<1>18. /\ e2 \in Seq(StackElement) /\ Len(e2) = M + 1
       /\ \A i \in 1 .. b : e2[i] = es[i]
       /\ \A i \in 1 .. k : e2[b + i] = [n |-> d[i], left |-> GoLeft(heap, d[i])]
       /\ e2[M + 1] = [n |-> X, left |-> FALSE]
  <2>1. \A i \in 1 .. k : d[i] \in Nat
    BY <1>3, <1>7
  <2>2. IsStacked(e2, heap, es, d, k, X, b)
    BY <1>3, <1>7, <1>13, <1>16, <1>17, <2>1, StackedIs
  <2> QED
    BY <1>8, <2>2 DEF IsStacked
<1>19. PICK t2 : t2 = Rebuilt(t, h, t.root, e2)
  OBVIOUS
<1>20. ContinueInsertionStack(t, t.root, n) = t2
  <2>1. d = Descent(t.heap, t.root)
    BY <1>1, <1>5
  <2>2. Descends(t.heap, S, off, cnt, Len(L), t.root, d, k)
    BY <1>1, <1>6
  <2>3. PICK u : u = ContinueInsertionStack(t, t.root, n)
    OBVIOUS
  <2>4. u = Rebuilt(t, ContinuedHeap(t.heap, NodesAt(d, k), d[k + 1], n), t.root,
                    Stacked(t.heap, t.insertion_stack, d, k, Fresh(t.heap)))
    BY <2>1, <2>2, <2>3, ContinueInsertionStackIs
  <2> QED
    BY <1>1, <1>8, <1>12, <1>16, <1>19, <2>3, <2>4
<1>21. Hang(t, n) = ProcessInsertionStack(t2, FALSE)
  <2>1. t.root # Nil
    BY <1>1, <1>3
  <2> QED
    BY <1>20, <2>1 DEF Hang
<1>22. IsTree(t2) /\ t2.heap = h /\ t2.insertion_stack = e2
  <2>1. t.root \in Nat
    BY DEF IsTree
  <2>2. IsRebuilt(t2, t, h, t.root, e2) /\ IsTree(t2)
    BY <1>18, <1>19, <2>1, RebuiltIs
  <2> QED
    BY <2>2 DEF IsRebuilt
<1>23. StackIs(g, e2, s, M)
  <2>1. ASSUME NEW i \in 1 .. M PROVE e2[i].n = s[i] /\ ~e2[i].left /\ g[s[i]].dirty
    <3>1. g[s[i]].dirty /\ s[i] = q[i]
      BY <1>13, <1>15
    <3>2. CASE i <= b
      <4>1. i \in 1 .. b /\ i \in 1 .. b + 1
        BY <1>3, <1>9, <3>2
      <4>2. es[i].n = p[i] /\ ~es[i].left
        BY <1>2, <4>1 DEF Standing
      <4> QED
        BY <1>9, <1>18, <3>1, <4>1, <4>2
    <3>3. CASE i > b
      <4>1. i - b \in 1 .. k /\ i - b \in 1 .. k + 1 /\ b + (i - b) = i
        BY <1>3, <1>7, <1>8, <3>3
      <4>2. e2[i] = [n |-> d[i - b], left |-> GoLeft(heap, d[i - b])] /\ q[i] = d[i - b]
        BY <1>9, <1>18, <4>1
      <4>3. ~GoLeft(heap, d[i - b])
        BY <1>7, <4>1
      <4> QED
        BY <3>1, <4>2, <4>3
    <3>4. i <= b \/ i > b
      BY <1>3
    <3> QED
      BY <3>2, <3>3, <3>4
  <2>2. ASSUME NEW i \in 1 .. M + 1 PROVE e2[i].n = s[i]
    <3>1. CASE i = M + 1
      BY <1>15, <1>18, <3>1
    <3>2. CASE i # M + 1
      <4>1. i \in 1 .. M
        BY <1>9, <3>2
      <4> QED
        BY <2>1, <4>1
    <3> QED
      BY <3>1, <3>2
  <2> QED
    BY <2>1, <2>2 DEF StackIs
<1>24. ASSUME M # 0 PROVE Attach(h, e2[M], s[M + 1]) = UpdateSizes(g, s[M])
  <2>1. M \in 1 .. M
    BY <1>9, <1>24
  <2>2. e2[M].n = s[M] /\ ~e2[M].left /\ s[M] = q[M]
    BY <1>15, <1>23, <2>1 DEF StackIs
  <2>3. g = [h EXCEPT ![q[M]].right = X, ![q[M]].dirty = TRUE]
    BY <1>13, <1>24 DEF LinkedHeap
  <2> QED
    BY <1>15, <2>2, <2>3 DEF Attach
<1>25. UpdateSizes(t2.heap, s[M + 1]) = h
  BY <1>13, <1>15, <1>22
<1>26. M = 0 => h = g
  BY <1>13 DEF LinkedHeap
<1>27. Good(g, S2, par2, off2, cnt2, s[1], L2, nf, NodesAt(s, M)) /\ Edge(g, S2, off2, cnt2, Len(L2), s, M)
  BY <1>13, <1>14
<1>28. PICK hh, kk : Processed(t2, FALSE, g, S2, par2, off2, cnt2, s[1], L2, nf, s, M, hh, kk)
  <2>1. Len(t2.insertion_stack) = M + 1 /\ StackIs(g, t2.insertion_stack, s, M)
    BY <1>18, <1>22, <1>23
  <2>2. h = UpdateSizes(t2.heap, s[M + 1])
    BY <1>25
  <2>3. M # 0 => Attach(h, t2.insertion_stack[M], s[M + 1]) = UpdateSizes(g, s[M])
    BY <1>22, <1>24
  <2>4. M = 0 => h = g
    BY <1>26
  <2>5. FALSE \in BOOLEAN
    OBVIOUS
  <2> QED
    BY <1>9, <1>27, <2>1, <2>2, <2>3, <2>4, <2>5, ProcessIs
<1>29. PICK u : u = ProcessInsertionStack(t2, FALSE)
  OBVIOUS
<1>30. S2 \subseteq DOMAIN g
  BY <1>27 DEF Good, Linked
<1>31. PICK r, e : Settled(t2, FALSE, g, S2, par2, off2, cnt2, L2, nf, s, M - kk, hh, r, e, u)
  <2>1. Len(t2.insertion_stack) = M + 1 /\ StackIs(g, t2.insertion_stack, s, M)
    BY <1>18, <1>22, <1>23
  <2>2. FALSE \in BOOLEAN
    OBVIOUS
  <2> QED
    BY <1>9, <1>22, <1>27, <1>28, <1>29, <1>30, <2>1, <2>2, ProcessedStands
<1>32. /\ u = Rebuilt(t2, hh, r, e) /\ r \in Nat /\ e \in Seq(StackElement)
       /\ Standing(hh, e, r, L2, nf, S2, par2, off2, cnt2, s, M - kk)
       /\ DOMAIN hh = DOMAIN g /\ \A m \in DOMAIN g : m \notin S2 => hh[m] = g[m]
  BY <1>31 DEF Settled
<1>33. Joins(heap, S, off, cnt, Len(L), n, hh, S2, off2, cnt2)
  <2>1. Joins(heap, S, off, cnt, Len(L), n, g, S2, off2, cnt2)
    BY <1>13
  <2>2. ASSUME NEW x \in DOMAIN heap, x \notin S, x # n PROVE hh[x] = heap[x]
    <3>1. x \in DOMAIN g /\ x \notin S2 /\ g[x] = heap[x]
      BY <2>1, <2>2 DEF Joins
    <3> QED
      BY <1>32, <3>1
  <2> QED
    BY <1>32, <2>1, <2>2 DEF Joins
<1>34. Hang(t, n) = Rebuilt(t, hh, r, e)
  <2>1. Rebuilt(t2, hh, r, e) = Rebuilt(t, hh, r, e)
    <3>1. t.root \in Nat
      BY DEF IsTree
    <3> QED
      BY <1>18, <1>19, <3>1, RebuiltAgain
  <2> QED
    BY <1>21, <1>29, <1>32, <2>1
<1> QED
  <2>1. Standing(hh, e, r, Append(L, hash), nf, S2, par2, off2, cnt2, s, M - kk)
    BY <1>14, <1>32
  <2>2. Joins(t.heap, S, off, cnt, Len(L), n, hh, S2, off2, cnt2)
    BY <1>1, <1>33
  <2>3. Takes(t, L, hash, nf, S, off, cnt, n, hh, r, e, S2, par2, off2, cnt2, s, M - kk)
    BY <1>32, <1>34, <2>1, <2>2 DEF Takes
  <2> QED
    BY <2>3

-----------------------------------------------------------------------------
(* The tree of a state: the leaves L hang from it, those that wait do not.  *)

LeafHashes == {LeafHash(<<i, v>>) : i \in Nat, v \in Values}

Rooted(t, L, S, par, off, cnt, p, b) ==
  \/ /\ L = <<>> /\ S = {} /\ t.root = Nil /\ t.insertion_stack = <<>>
     /\ Heap(t.heap) /\ Closed(t.heap)
  \/ L # <<>> /\ Standing(t.heap, t.insertion_stack, t.root, L, t.num_flushed, S, par, off, cnt, p, b)

(* leaf_nodes are the leaves that are not flushed.                          *)
LeavesHang(t, L, S, off, cnt) ==
  /\ Len(L) = t.num_flushed + Len(t.leaf_nodes)
  /\ \A i \in 1 .. Len(t.leaf_nodes) :
       /\ t.leaf_nodes[i] \in S
       /\ off[t.leaf_nodes[i]] = t.num_flushed + i - 1 /\ cnt[t.leaf_nodes[i]] = 1

(* The leaves w[k + 1], .. wait: nodes of their own with the last leaves.   *)
LeavesWait(heap, S, w, k, leaves) ==
  /\ DOMAIN heap = S \cup {w[i] : i \in k + 1 .. Len(w)}
  /\ \A i \in k + 1 .. Len(w) :
       w[i] \notin S /\ heap[w[i]] = NewLeaf(leaves[Len(leaves) - Len(w) + i])
  /\ \A i \in k + 1 .. Len(w) : \A j \in k + 1 .. Len(w) : i # j => w[i] # w[j]

(* The leaves that hang once k of those in w do.                            *)
Hanging(leaves, w, k) == SubSeq(leaves, 1, Len(leaves) - Len(w) + k)

Holds(t, w, k, leaves, S, par, off, cnt, p, b) ==
  /\ IsTree(t) /\ leaves \in Seq(LeafHashes) /\ w \in Seq(Nat)
  /\ k \in 0 .. Len(w) /\ Len(w) <= Len(leaves) /\ t.uninserted_leaf_nodes = w
  /\ Rooted(t, Hanging(leaves, w, k), S, par, off, cnt, p, b)
  /\ LeavesHang(t, Hanging(leaves, w, k), S, off, cnt)
  /\ LeavesWait(t.heap, S, w, k, leaves)

LEMMA HangingIs ==
  ASSUME NEW leaves \in Seq(LeafHashes), NEW w \in Seq(Nat), Len(w) <= Len(leaves), NEW k \in 0 .. Len(w)
  PROVE  /\ Hanging(leaves, w, k) \in Seq(LeafHashes)
         /\ Len(Hanging(leaves, w, k)) = Len(leaves) - Len(w) + k
         /\ \A i \in 1 .. Len(leaves) - Len(w) + k : Hanging(leaves, w, k)[i] = leaves[i]
<1>1. PICK m : m = Len(leaves) - Len(w) + k
  OBVIOUS
<1>2. m \in Nat /\ m <= Len(leaves)
  BY <1>1
<1>3. SubSeq(leaves, 1, m) \in Seq(LeafHashes) /\ Len(SubSeq(leaves, 1, m)) = m
      /\ \A i \in 1 .. m : SubSeq(leaves, 1, m)[i] = leaves[i]
  BY <1>2
<1> QED
  BY <1>1, <1>3 DEF Hanging

LEMMA SameSeq ==
  ASSUME NEW T, NEW a \in Seq(T), NEW c \in Seq(T), NEW m \in Nat, Len(a) = m, Len(c) = m,
         \A i \in 1 .. m : a[i] = c[i]
  PROVE  a = c
BY SeqEqual

LEMMA HangingNext ==
  ASSUME NEW leaves \in Seq(LeafHashes), NEW w \in Seq(Nat), Len(w) <= Len(leaves), NEW k \in 0 .. Len(w),
         k < Len(w)
  PROVE  /\ leaves[Len(leaves) - Len(w) + (k + 1)] \in LeafHashes
         /\ Hanging(leaves, w, k + 1)
              = Append(Hanging(leaves, w, k), leaves[Len(leaves) - Len(w) + (k + 1)])
<1>1. PICK m : m = Len(leaves) - Len(w) + k
  OBVIOUS
<1>2. m \in Nat /\ m + 1 <= Len(leaves) /\ m + 1 = Len(leaves) - Len(w) + (k + 1) /\ k + 1 \in 0 .. Len(w)
  BY <1>1
<1>3. PICK a, c : a = Hanging(leaves, w, k) /\ c = Hanging(leaves, w, k + 1)
  OBVIOUS
<1>4. a \in Seq(LeafHashes) /\ Len(a) = m /\ \A i \in 1 .. m : a[i] = leaves[i]
  BY <1>1, <1>3, HangingIs
<1>5. c \in Seq(LeafHashes) /\ Len(c) = m + 1 /\ \A i \in 1 .. m + 1 : c[i] = leaves[i]
  BY <1>2, <1>3, HangingIs
<1>6. leaves[m + 1] \in LeafHashes
  BY <1>2
<1>7. PICK x : x = leaves[m + 1]
  OBVIOUS
<1>8. Append(a, x) \in Seq(LeafHashes) /\ Len(Append(a, x)) = m + 1
      /\ \A i \in 1 .. m + 1 : Append(a, x)[i] = IF i = m + 1 THEN x ELSE a[i]
  BY <1>2, <1>4, <1>6, <1>7, AppendProperties
<1>9. \A i \in 1 .. m + 1 : Append(a, x)[i] = c[i]
  <2>1. SUFFICES ASSUME NEW i \in 1 .. m + 1 PROVE Append(a, x)[i] = c[i]
    OBVIOUS
  <2>2. CASE i = m + 1
    BY <1>5, <1>7, <1>8, <2>2
  <2>3. CASE i # m + 1
    <3>1. i \in 1 .. m
      BY <1>2, <2>3
    <3> QED
      BY <1>4, <1>5, <1>8, <2>3, <3>1
  <2> QED
    BY <2>2, <2>3
<1>10. Append(a, x) = c
  <2>1. m + 1 \in Nat
    BY <1>2
  <2> QED
    BY <1>5, <1>8, <1>9, <2>1, SameSeq
<1> QED
  BY <1>2, <1>3, <1>6, <1>7, <1>10

-----------------------------------------------------------------------------
(* insert_leaf() into a tree without a root.                               *)

(* The leaf n is the whole tree.                                           *)
StandsAlone(heap, n, L, nf, par, off, cnt, p) ==
  Standing(heap, <<>>, n, L, nf, {n}, par, off, cnt, p, 0) /\ off[n] = 0 /\ cnt[n] = 1

(* The first leaf of a tree.                                                *)
LEMMA FirstLeafStands ==
  ASSUME NEW heap, Heap(heap), Closed(heap), NEW n \in DOMAIN heap, NEW hash, heap[n] = NewLeaf(hash),
         NEW L, Len(L) = 1, L[1] = hash, NEW nf
  PROVE  \E par, off, cnt, p : StandsAlone(heap, n, L, nf, par, off, cnt, p)
<1> DEFINE S == {n}
           par == [x \in S |-> Nil]
           off == [x \in S |-> 0]
           cnt == [x \in S |-> 1]
           p == [i \in 1 .. 1 |-> n]
<1>1. p[1] = n /\ p[0 + 1] = n /\ off[n] = 0 /\ cnt[n] = 1 /\ par[n] = Nil
  OBVIOUS
<1> HIDE DEF p, par, off, cnt
<1>2. /\ heap[n].left = Nil /\ heap[n].right = Nil /\ heap[n].size = 1 /\ heap[n].height = 1
      /\ heap[n].hash = hash /\ heap[n].dirty = FALSE
  <2>1. PICK y : y = heap[n]
    OBVIOUS
  <2>2. y.left = Nil /\ y.right = Nil /\ y.size = 1 /\ y.height = 1 /\ y.hash = hash /\ y.dirty = FALSE
    BY <2>1 DEF NewLeaf
  <2> QED
    BY <2>1, <2>2
<1>3. Linked(heap, S, par, n)
  BY <1>1, <1>2 DEF Linked
<1>4. 1 \in Powers
  BY PowersNat
<1>5. Spans(heap, S, off, cnt, Nil, nf)
  BY <1>1, <1>2, <1>4 DEF Spans
<1>6. Fits(S, off, cnt, n, Len(L))
  BY <1>1 DEF Fits
<1>7. Measured(heap, S, cnt, NodesAt(p, 0))
  BY <1>1, <1>2, LeafHeight DEF Measured
<1>8. SubtreeHash(L)[1][0] = hash
  <2>1. SubtreeHash(L)[1][0] = L[0 + 1]
    <3>1. Len(L) \in Nat /\ 0 \in Nat /\ 0 < Len(L)
      OBVIOUS
    <3> QED
      BY <3>1, HashOfLeaf
  <2> QED
    BY <2>1
<1>9. HashesRight(heap, S, off, cnt, L)
  BY <1>1, <1>2, <1>8 DEF HashesRight
<1>10. Good(heap, S, par, off, cnt, p[1], L, nf, NodesAt(p, 0))
  BY <1>1, <1>3, <1>5, <1>6, <1>7, <1>9 DEF Good
<1>11. Edge(heap, S, off, cnt, Len(L), p, 0)
  BY <1>1 DEF Edge
<1>12. Standing(heap, <<>>, n, L, nf, S, par, off, cnt, p, 0)
  BY <1>1, <1>10, <1>11 DEF Standing
<1>13. StandsAlone(heap, n, L, nf, par, off, cnt, p)
  BY <1>1, <1>12 DEF StandsAlone
<1> QED
  BY <1>13

-----------------------------------------------------------------------------
(* insert_leaf() of the first leaf that waits.                              *)
LEMMA JoinedHolds ==
  ASSUME NEW t, NEW w, NEW k, NEW leaves, NEW S, NEW par, NEW off, NEW cnt, NEW p, NEW b,
         Holds(t, w, k, leaves, S, par, off, cnt, p, b), k < Len(w),
         NEW h2, NEW r2 \in Nat, NEW e2 \in Seq(StackElement), NEW S2, NEW par2, NEW off2, NEW cnt2,
         NEW p2, NEW b2,
         Joins(t.heap, S, off, cnt, Len(Hanging(leaves, w, k)), w[k + 1], h2, S2, off2, cnt2),
         Standing(h2, e2, r2, Hanging(leaves, w, k + 1), t.num_flushed, S2, par2, off2, cnt2, p2, b2),
         NEW u, u = Rebuilt([t EXCEPT !.leaf_nodes = Append(@, w[k + 1])], h2, r2, e2)
  PROVE  Holds(u, w, k + 1, leaves, S2, par2, off2, cnt2, p2, b2)
<1>1. /\ IsTree(t) /\ leaves \in Seq(LeafHashes) /\ w \in Seq(Nat)
      /\ k \in 0 .. Len(w) /\ Len(w) <= Len(leaves) /\ t.uninserted_leaf_nodes = w
      /\ Rooted(t, Hanging(leaves, w, k), S, par, off, cnt, p, b)
      /\ LeavesHang(t, Hanging(leaves, w, k), S, off, cnt)
      /\ LeavesWait(t.heap, S, w, k, leaves)
  BY DEF Holds
<1>2. k + 1 \in 0 .. Len(w) /\ k + 1 \in k + 1 .. Len(w) /\ k + 1 \in 1 .. Len(w)
  BY <1>1
<1>3. PICK n : n = w[k + 1]
  OBVIOUS
<1>4. n \in Nat /\ n \in DOMAIN t.heap /\ n \notin S
  <2>1. n \in Nat
    BY <1>1, <1>2, <1>3
  <2>2. /\ DOMAIN t.heap = S \cup {w[i] : i \in k + 1 .. Len(w)}
        /\ \A i \in k + 1 .. Len(w) : w[i] \notin S
    BY <1>1 DEF LeavesWait
  <2> QED
    BY <1>2, <1>3, <2>1, <2>2
<1>5. PICK ln : ln = t.leaf_nodes
  OBVIOUS
<1>6. ln \in Seq(Nat)
  BY <1>1, <1>5 DEF IsTree
<1>7. PICK m : m = Len(ln)
  OBVIOUS
<1>8. /\ m \in Nat /\ Append(ln, n) \in Seq(Nat) /\ Len(Append(ln, n)) = m + 1
      /\ \A i \in 1 .. m + 1 : Append(ln, n)[i] = IF i = m + 1 THEN n ELSE ln[i]
  BY <1>4, <1>6, <1>7, AppendProperties
<1>9. PICK v : v = [t EXCEPT !.leaf_nodes = Append(@, n)]
  OBVIOUS
<1>10. /\ IsTree(v) /\ v.leaf_nodes = Append(ln, n) /\ v.heap = t.heap /\ v.root = t.root
       /\ v.insertion_stack = t.insertion_stack /\ v.uninserted_leaf_nodes = w
       /\ v.num_flushed = t.num_flushed
  <2>1. v = [heap |-> t.heap, root |-> t.root, leaf_nodes |-> Append(ln, n),
             uninserted_leaf_nodes |-> t.uninserted_leaf_nodes, num_flushed |-> t.num_flushed,
             insertion_stack |-> t.insertion_stack]
    BY <1>1, <1>5, <1>9 DEF IsTree
  <2> QED
    BY <1>1, <1>8, <2>1 DEF IsTree
<1>11. u = Rebuilt(v, h2, r2, e2)
  BY <1>3, <1>9
<1>12. /\ u.heap = h2 /\ u.root = r2 /\ u.insertion_stack = e2 /\ u.leaf_nodes = Append(ln, n)
       /\ u.uninserted_leaf_nodes = w /\ u.num_flushed = t.num_flushed /\ IsTree(u)
  <2>1. IsRebuilt(u, v, h2, r2, e2) /\ IsTree(u)
    BY <1>10, <1>11, RebuiltIs
  <2> QED
    BY <1>10, <2>1 DEF IsRebuilt
<1>13. PICK a, c : a = Hanging(leaves, w, k) /\ c = Hanging(leaves, w, k + 1)
  OBVIOUS
<1>14. /\ a \in Seq(LeafHashes) /\ Len(a) = Len(leaves) - Len(w) + k
       /\ c \in Seq(LeafHashes) /\ Len(c) = Len(leaves) - Len(w) + (k + 1)
  BY <1>1, <1>2, <1>13, HangingIs
<1>15. Joins(t.heap, S, off, cnt, Len(a), n, h2, S2, off2, cnt2)
  BY <1>3, <1>13
<1>16. Len(c) = Len(a) + 1 /\ Len(a) = t.num_flushed + m /\ Len(c) # 0
  <2>1. Len(c) = Len(a) + 1 /\ Len(a) \in Nat
    BY <1>1, <1>14
  <2>2. Len(a) = t.num_flushed + m
    BY <1>1, <1>5, <1>7, <1>13 DEF LeavesHang
  <2> QED
    BY <2>1, <2>2
<1>17. Rooted(u, c, S2, par2, off2, cnt2, p2, b2)
  <2>1. c # <<>>
    BY <1>14, <1>16
  <2>2. Standing(u.heap, u.insertion_stack, u.root, c, u.num_flushed, S2, par2, off2, cnt2, p2, b2)
    BY <1>12, <1>13
  <2> QED
    BY <2>1, <2>2 DEF Rooted
<1>18. LeavesHang(u, c, S2, off2, cnt2)
  <2>1. t.num_flushed \in Nat
    BY <1>1 DEF IsTree
  <2>2. Len(c) = u.num_flushed + Len(u.leaf_nodes)
    <3>1. PICK f, z, l : f = t.num_flushed /\ z = Len(c) /\ l = Len(u.leaf_nodes)
      OBVIOUS
    <3>2. f \in Nat /\ z = (f + m) + 1
      BY <1>16, <2>1, <3>1
    <3>3. u.num_flushed = f /\ l = m + 1
      BY <1>8, <1>12, <3>1
    <3>4. m \in Nat
      BY <1>8
    <3>5. z = f + l
      <4>1. l = m + 1
        BY <3>3
      <4> QED
        BY <3>2, <3>4, <4>1
    <3> QED
      BY <3>1, <3>3, <3>5
  <2>3. ASSUME NEW i \in 1 .. m + 1
        PROVE  /\ u.leaf_nodes[i] \in S2
               /\ off2[u.leaf_nodes[i]] = u.num_flushed + i - 1 /\ cnt2[u.leaf_nodes[i]] = 1
    <3>1. CASE i = m + 1
      <4>1. u.leaf_nodes[i] = n
        BY <1>8, <1>12, <3>1
      <4>2. n \in S2 /\ off2[n] = Len(a) /\ cnt2[n] = 1
        BY <1>15 DEF Joins
      <4>3. Len(a) = u.num_flushed + i - 1
        BY <1>8, <1>12, <1>16, <2>1, <3>1
      <4> QED
        BY <4>1, <4>2, <4>3
    <3>2. CASE i # m + 1
      <4>1. i \in 1 .. m
        BY <1>8, <3>2
      <4>2. u.leaf_nodes[i] = ln[i]
        BY <1>8, <1>12, <3>2
      <4>3. ln[i] \in S /\ off[ln[i]] = t.num_flushed + i - 1 /\ cnt[ln[i]] = 1
        BY <1>1, <1>5, <1>7, <4>1 DEF LeavesHang
      <4>4. ln[i] \in S2 /\ off2[ln[i]] = off[ln[i]] /\ cnt2[ln[i]] = 1
        BY <1>15, <4>3 DEF Joins
      <4> QED
        BY <1>12, <4>2, <4>3, <4>4
    <3> QED
      BY <3>1, <3>2
  <2>4. Len(u.leaf_nodes) = m + 1
    BY <1>8, <1>12
  <2> QED
    BY <2>2, <2>3, <2>4 DEF LeavesHang
<1>19. LeavesWait(h2, S2, w, k + 1, leaves)
  <2>1. Len(w) \in Nat
    BY <1>1
  <2>2. \A i \in (k + 1) + 1 .. Len(w) : i \in k + 1 .. Len(w) /\ i # k + 1
    BY <1>1, <2>1
  <2>3. DOMAIN t.heap = S \cup {w[i] : i \in k + 1 .. Len(w)}
    BY <1>1 DEF LeavesWait
  <2>4. \A i \in k + 1 .. Len(w) : i = k + 1 \/ i \in (k + 1) + 1 .. Len(w)
    BY <1>1, <2>1
  <2>5. DOMAIN t.heap = S \cup {n} \cup {w[i] : i \in (k + 1) + 1 .. Len(w)}
    <3>1. {w[i] : i \in k + 1 .. Len(w)} = {n} \cup {w[i] : i \in (k + 1) + 1 .. Len(w)}
      BY <1>2, <1>3, <2>2, <2>4
    <3> QED
      BY <2>3, <3>1
  <2>6. DOMAIN h2 = S2 \cup {w[i] : i \in (k + 1) + 1 .. Len(w)}
    <3>1. DOMAIN h2 = DOMAIN t.heap \cup S2 /\ S \cup {n} \subseteq S2
      BY <1>15 DEF Joins
    <3> QED
      BY <2>5, <3>1
  <2>7. ASSUME NEW i \in (k + 1) + 1 .. Len(w)
        PROVE  w[i] \notin S2 /\ h2[w[i]] = NewLeaf(leaves[Len(leaves) - Len(w) + i])
    <3>1. w[i] \notin S /\ t.heap[w[i]] = NewLeaf(leaves[Len(leaves) - Len(w) + i]) /\ w[i] # n
      BY <1>1, <1>2, <1>3, <2>2 DEF LeavesWait
    <3>2. w[i] \in DOMAIN t.heap
      BY <2>5
    <3>3. S2 \cap DOMAIN t.heap = S \cup {n} /\ \A x \in DOMAIN t.heap : x \notin S /\ x # n => h2[x] = t.heap[x]
      BY <1>15 DEF Joins
    <3> QED
      BY <3>1, <3>2, <3>3
  <2>8. \A i \in (k + 1) + 1 .. Len(w) : \A j \in (k + 1) + 1 .. Len(w) : i # j => w[i] # w[j]
    BY <1>1, <2>2 DEF LeavesWait
  <2> QED
    BY <2>6, <2>7, <2>8 DEF LeavesWait
<1>20. /\ Rooted(u, Hanging(leaves, w, k + 1), S2, par2, off2, cnt2, p2, b2)
       /\ LeavesHang(u, Hanging(leaves, w, k + 1), S2, off2, cnt2)
       /\ LeavesWait(u.heap, S2, w, k + 1, leaves)
  BY <1>12, <1>13, <1>17, <1>18, <1>19
<1> QED
  BY <1>1, <1>2, <1>12, <1>20 DEF Holds

LEMMA InsertLeafHolds ==
  ASSUME NEW t, NEW w, NEW k, NEW leaves, NEW S, NEW par, NEW off, NEW cnt, NEW p, NEW b,
         Holds(t, w, k, leaves, S, par, off, cnt, p, b), k < Len(w),
         NEW u, u = InsertLeaf(t, w[k + 1])
  PROVE  \E S2, par2, off2, cnt2, p2, b2 : Holds(u, w, k + 1, leaves, S2, par2, off2, cnt2, p2, b2)
<1>1. /\ IsTree(t) /\ leaves \in Seq(LeafHashes) /\ w \in Seq(Nat)
      /\ k \in 0 .. Len(w) /\ Len(w) <= Len(leaves) /\ t.uninserted_leaf_nodes = w
      /\ Rooted(t, Hanging(leaves, w, k), S, par, off, cnt, p, b)
      /\ LeavesWait(t.heap, S, w, k, leaves)
  BY DEF Holds
<1>2. PICK a, hash, n : /\ a = Hanging(leaves, w, k) /\ n = w[k + 1]
                        /\ hash = leaves[Len(leaves) - Len(w) + (k + 1)]
  OBVIOUS
<1>3. /\ a \in Seq(LeafHashes) /\ Len(a) = Len(leaves) - Len(w) + k
      /\ hash \in LeafHashes /\ Hanging(leaves, w, k + 1) = Append(a, hash)
  BY <1>1, <1>2, HangingIs, HangingNext
<1>4. /\ n \in DOMAIN t.heap /\ n \notin S /\ t.heap[n] = NewLeaf(hash)
  <2>1. k + 1 \in k + 1 .. Len(w)
    BY <1>1
  <2> QED
    BY <1>1, <1>2, <2>1 DEF LeavesWait
<1>5. n \in Nat
  <2>1. k + 1 \in 1 .. Len(w)
    BY <1>1
  <2> QED
    BY <1>1, <1>2, <2>1
<1>6. PICK v : v = [t EXCEPT !.leaf_nodes = Append(@, n)]
  OBVIOUS
<1>7. /\ IsTree(v) /\ v.heap = t.heap /\ v.root = t.root
      /\ v.insertion_stack = t.insertion_stack /\ v.num_flushed = t.num_flushed
  <2>1. PICK c : c = Append(t.leaf_nodes, n)
    OBVIOUS
  <2>2. c \in Seq(Nat)
    BY <1>1, <1>5, <2>1 DEF IsTree
  <2>3. v = [heap |-> t.heap, root |-> t.root, leaf_nodes |-> c,
             uninserted_leaf_nodes |-> t.uninserted_leaf_nodes, num_flushed |-> t.num_flushed,
             insertion_stack |-> t.insertion_stack]
    BY <1>1, <1>6, <2>1 DEF IsTree
  <2> QED
    BY <1>1, <2>2, <2>3 DEF IsTree
<1>8. u = Hang(v, n)
  BY <1>2, <1>6 DEF InsertLeaf
<1>9. CASE a = <<>>
  <2>1. /\ S = {} /\ t.root = Nil /\ t.insertion_stack = <<>> /\ Heap(t.heap) /\ Closed(t.heap)
    BY <1>1, <1>2, <1>9 DEF Rooted
  <2>2. u = [v EXCEPT !.root = n]
    BY <1>7, <1>8, <2>1 DEF Hang
  <2>3. u = Rebuilt(v, t.heap, n, <<>>)
    <3>1. u = [heap |-> t.heap, root |-> n, leaf_nodes |-> v.leaf_nodes,
               uninserted_leaf_nodes |-> v.uninserted_leaf_nodes, num_flushed |-> v.num_flushed,
               insertion_stack |-> <<>>]
      BY <1>7, <2>1, <2>2 DEF IsTree
    <3>2. PICK x : x = Rebuilt(v, t.heap, n, <<>>)
      OBVIOUS
    <3>3. x = [heap |-> t.heap, root |-> n, leaf_nodes |-> v.leaf_nodes,
               uninserted_leaf_nodes |-> v.uninserted_leaf_nodes, num_flushed |-> v.num_flushed,
               insertion_stack |-> <<>>]
      BY <1>7, <3>2, RebuiltRecord
    <3> QED
      BY <3>1, <3>2, <3>3
  <2>4. PICK L2 : L2 = Append(a, hash)
    OBVIOUS
  <2>5. Len(L2) = 1 /\ L2[1] = hash
    BY <1>9, <2>4
  <2>6. PICK par2, off2, cnt2, p2 :
          /\ Standing(t.heap, <<>>, n, L2, t.num_flushed, {n}, par2, off2, cnt2, p2, 0)
          /\ off2[n] = 0 /\ cnt2[n] = 1
    <3>1. PICK par2, off2, cnt2, p2 : StandsAlone(t.heap, n, L2, t.num_flushed, par2, off2, cnt2, p2)
      BY <1>4, <2>1, <2>5, FirstLeafStands
    <3> QED
      BY <3>1 DEF StandsAlone
  <2>7. Joins(t.heap, S, off, cnt, Len(a), n, t.heap, {n}, off2, cnt2)
    <3>1. Len(a) = 0
      BY <1>9
    <3> QED
      BY <1>4, <2>1, <2>6, <3>1 DEF Joins
  <2>8. <<>> \in Seq(StackElement)
    OBVIOUS
  <2>9. Joins(t.heap, S, off, cnt, Len(Hanging(leaves, w, k)), w[k + 1], t.heap, {n}, off2, cnt2)
    BY <1>2, <2>7
  <2>10. Standing(t.heap, <<>>, n, Hanging(leaves, w, k + 1), t.num_flushed, {n}, par2, off2, cnt2, p2, 0)
    BY <1>3, <2>4, <2>6
  <2>11. u = Rebuilt([t EXCEPT !.leaf_nodes = Append(@, w[k + 1])], t.heap, n, <<>>)
    BY <1>2, <1>6, <2>3
  <2>12. Holds(u, w, k + 1, leaves, {n}, par2, off2, cnt2, p2, 0)
    BY <1>5, <2>8, <2>9, <2>10, <2>11, JoinedHolds
  <2> QED
    BY <2>12
<1>10. CASE a # <<>>
  <2>1. Standing(v.heap, v.insertion_stack, v.root, a, t.num_flushed, S, par, off, cnt, p, b)
    BY <1>1, <1>2, <1>7, <1>10 DEF Rooted
  <2>2. n \in DOMAIN v.heap /\ n \notin S /\ v.heap[n] = NewLeaf(hash)
    BY <1>4, <1>7
  <2>3. PICK hh, r, e, S2, par2, off2, cnt2, p2, b2 :
           Takes(v, a, hash, t.num_flushed, S, off, cnt, n, hh, r, e, S2, par2, off2, cnt2, p2, b2)
    BY <1>3, <1>7, <2>1, <2>2, HangIs
  <2>4. Joins(t.heap, S, off, cnt, Len(Hanging(leaves, w, k)), w[k + 1], hh, S2, off2, cnt2)
    BY <1>2, <1>7, <2>3 DEF Takes
  <2>5. Standing(hh, e, r, Hanging(leaves, w, k + 1), t.num_flushed, S2, par2, off2, cnt2, p2, b2)
    BY <1>3, <2>3 DEF Takes
  <2>6. u = Rebuilt([t EXCEPT !.leaf_nodes = Append(@, w[k + 1])], hh, r, e)
    BY <1>2, <1>6, <1>8, <2>3 DEF Takes
  <2>7. r \in Nat /\ e \in Seq(StackElement)
    BY <2>3 DEF Takes
  <2>8. Holds(u, w, k + 1, leaves, S2, par2, off2, cnt2, p2, b2)
    BY <2>4, <2>5, <2>6, <2>7, JoinedHolds
  <2> QED
    BY <2>8
<1> QED
  BY <1>9, <1>10

-----------------------------------------------------------------------------
(* insert_leaves(false)                                                     *)

HungTable(t, f) ==
  f = [k \in 0 .. Len(t.uninserted_leaf_nodes) |->
         IF k = 0 THEN t ELSE InsertLeaf(f[k - 1], t.uninserted_leaf_nodes[k])]

LEMMA HungExists ==
  ASSUME NEW t, Len(t.uninserted_leaf_nodes) \in Nat
  PROVE  \E f : HungTable(t, f)
<1>1. PICK w, m : w = t.uninserted_leaf_nodes /\ m = Len(w)
  OBVIOUS
<1> DEFINE Upto(f, j) == f = [k \in 0 .. j |-> IF k = 0 THEN t ELSE InsertLeaf(f[k - 1], w[k])]
           T == {j \in Nat : \E f : Upto(f, j)}
<1>2. 0 \in T
  <2>1. Upto([k \in 0 .. 0 |-> t], 0)
    OBVIOUS
  <2> QED
    BY <2>1
<1>3. ASSUME NEW j \in Nat, j \in T PROVE j + 1 \in T
  <2>1. PICK f : Upto(f, j)
    BY <1>3
  <2> DEFINE g == [k \in 0 .. j + 1 |-> IF k = j + 1 THEN InsertLeaf(f[j], w[j + 1]) ELSE f[k]]
  <2>2. ASSUME NEW k \in 0 .. j + 1 PROVE g[k] = IF k = 0 THEN t ELSE InsertLeaf(g[k - 1], w[k])
    <3>1. CASE k = 0
      BY <2>1, <3>1
    <3>2. CASE k = j + 1
      <4>1. g[k] = InsertLeaf(f[j], w[j + 1]) /\ g[j] = f[j] /\ k - 1 = j /\ k # 0
        BY <3>2
      <4> HIDE DEF g
      <4> QED
        BY <3>2, <4>1
    <3>3. CASE k # 0 /\ k # j + 1
      <4>1. k \in 0 .. j /\ k - 1 \in 0 .. j
        BY <3>3
      <4>2. g[k] = f[k] /\ g[k - 1] = f[k - 1]
        BY <3>3, <4>1
      <4>3. f[k] = InsertLeaf(f[k - 1], w[k])
        BY <2>1, <3>3, <4>1
      <4> HIDE DEF g
      <4> QED
        BY <3>3, <4>2, <4>3
    <3> QED
      BY <3>1, <3>2, <3>3
  <2>3. g = [k \in 0 .. j + 1 |-> g[k]]
    OBVIOUS
  <2> HIDE DEF g
  <2>4. Upto(g, j + 1)
    BY <2>2, <2>3
  <2> QED
    BY <2>4
<1>4. m \in T
  <2>1. m \in Nat
    BY <1>1
  <2> HIDE DEF T
  <2> QED
    BY <1>2, <1>3, <2>1, SetInduction
<1> QED
  BY <1>1, <1>4 DEF HungTable

LEMMA HangWaitingHolds ==
  ASSUME NEW t, NEW leaves, NEW S, NEW par, NEW off, NEW cnt, NEW p, NEW b,
         Holds(t, t.uninserted_leaf_nodes, 0, leaves, S, par, off, cnt, p, b),
         NEW u, u = HangWaiting(t)
  PROVE  \E S2, par2, off2, cnt2, p2, b2 : Holds(u, <<>>, 0, leaves, S2, par2, off2, cnt2, p2, b2)
<1>1. PICK w, m : w = t.uninserted_leaf_nodes /\ m = Len(w)
  OBVIOUS
<1>2. m \in Nat /\ w \in Seq(Nat)
  BY <1>1 DEF Holds
<1>3. PICK f : f = CHOOSE g : HungTable(t, g)
  OBVIOUS
<1>4. HungTable(t, f)
  <2>1. \E h : HungTable(t, h)
    BY <1>1, <1>2, HungExists
  <2> QED
    BY <1>3, <2>1
<1>5. f = [k \in 0 .. m |-> IF k = 0 THEN t ELSE InsertLeaf(f[k - 1], w[k])]
  BY <1>1, <1>4 DEF HungTable
<1>6. u = [f[m] EXCEPT !.uninserted_leaf_nodes = <<>>]
  BY <1>1, <1>3 DEF HangWaiting, HungTable
<1> DEFINE Well(k) == \E S2, par2, off2, cnt2, p2, b2 :
                        Holds(f[k], w, k, leaves, S2, par2, off2, cnt2, p2, b2)
           T == {k \in Nat : k <= m => Well(k)}
<1>7. 0 \in T
  <2>1. f[0] = t
    BY <1>2, <1>5
  <2>2. Well(0)
    BY <1>1, <2>1
  <2> QED
    BY <2>2
<1>8. ASSUME NEW k \in Nat, k \in T PROVE k + 1 \in T
  <2>1. SUFFICES ASSUME k + 1 <= m PROVE Well(k + 1)
    OBVIOUS
  <2>2. PICK S2, par2, off2, cnt2, p2, b2 : Holds(f[k], w, k, leaves, S2, par2, off2, cnt2, p2, b2)
    BY <1>2, <1>8, <2>1
  <2>3. PICK y, z : y = f[k] /\ z = f[k + 1]
    OBVIOUS
  <2>4. z = InsertLeaf(y, w[k + 1])
    <3>1. k + 1 \in 0 .. m /\ k + 1 # 0 /\ (k + 1) - 1 = k
      BY <1>2, <2>1
    <3> QED
      BY <1>5, <2>3, <3>1
  <2>5. k < Len(w) /\ Holds(y, w, k, leaves, S2, par2, off2, cnt2, p2, b2)
    BY <1>1, <1>2, <2>1, <2>2, <2>3
  <2>6. \E S3, par3, off3, cnt3, p3, b3 : Holds(z, w, k + 1, leaves, S3, par3, off3, cnt3, p3, b3)
    BY <2>4, <2>5, InsertLeafHolds
  <2> QED
    BY <2>3, <2>6
<1>9. m \in T
  <2> HIDE DEF T
  <2> QED
    BY <1>2, <1>7, <1>8, SetInduction
<1>10. PICK S2, par2, off2, cnt2, p2, b2 : Holds(f[m], w, m, leaves, S2, par2, off2, cnt2, p2, b2)
  BY <1>9
<1>11. PICK v : v = f[m]
  OBVIOUS
<1>12. Holds(v, w, m, leaves, S2, par2, off2, cnt2, p2, b2)
  BY <1>10, <1>11
<1>13. /\ IsTree(v) /\ leaves \in Seq(LeafHashes)
       /\ Rooted(v, Hanging(leaves, w, m), S2, par2, off2, cnt2, p2, b2)
       /\ LeavesHang(v, Hanging(leaves, w, m), S2, off2, cnt2)
       /\ LeavesWait(v.heap, S2, w, m, leaves)
  BY <1>12 DEF Holds
<1>14. /\ IsTree(u) /\ u.heap = v.heap /\ u.root = v.root /\ u.leaf_nodes = v.leaf_nodes
       /\ u.num_flushed = v.num_flushed /\ u.insertion_stack = v.insertion_stack
       /\ u.uninserted_leaf_nodes = <<>>
  <2>1. u = [heap |-> v.heap, root |-> v.root, leaf_nodes |-> v.leaf_nodes,
             uninserted_leaf_nodes |-> <<>>, num_flushed |-> v.num_flushed,
             insertion_stack |-> v.insertion_stack]
    BY <1>6, <1>11, <1>13 DEF IsTree
  <2> QED
    BY <1>13, <2>1 DEF IsTree
<1>15. Hanging(leaves, w, m) = Hanging(leaves, <<>>, 0)
  <2>1. Len(leaves) - Len(w) + m = Len(leaves) - Len(<<>>) + 0
    BY <1>1, <1>2, <1>13
  <2> QED
    BY <2>1 DEF Hanging
<1>16. PICK a : a = Hanging(leaves, <<>>, 0)
  OBVIOUS
<1>17. Rooted(u, a, S2, par2, off2, cnt2, p2, b2)
  BY <1>13, <1>14, <1>15, <1>16 DEF Rooted
<1>18. LeavesHang(u, a, S2, off2, cnt2)
  BY <1>13, <1>14, <1>15, <1>16 DEF LeavesHang
<1>19. LeavesWait(u.heap, S2, <<>>, 0, leaves)
  <2>1. DOMAIN v.heap = S2
    <3>1. DOMAIN v.heap = S2 \cup {w[i] : i \in m + 1 .. m}
      BY <1>1, <1>13 DEF LeavesWait
    <3>2. m + 1 .. m = {}
      BY <1>2
    <3> QED
      BY <3>1, <3>2
  <2>2. 0 + 1 .. Len(<<>>) = {}
    OBVIOUS
  <2> QED
    BY <1>14, <2>1, <2>2 DEF LeavesWait
<1>20. <<>> \in Seq(Nat) /\ 0 \in 0 .. Len(<<>>) /\ Len(<<>>) <= Len(leaves)
  BY <1>13
<1>21. Holds(u, <<>>, 0, leaves, S2, par2, off2, cnt2, p2, b2)
  BY <1>13, <1>14, <1>16, <1>17, <1>18, <1>19, <1>20 DEF Holds
<1> QED
  BY <1>21

-----------------------------------------------------------------------------
(* complete_insertion()                                                     *)

LEMMA EdgeCarries ==
  ASSUME NEW heap, NEW S, NEW off, NEW cnt, NEW m, NEW p, NEW b \in Nat, Edge(heap, S, off, cnt, m, p, b),
         S \subseteq DOMAIN heap, NEW g, SameTree(g, heap), NEW j \in Nat, j <= b
  PROVE  Edge(g, S, off, cnt, m, p, j)
<1>1. ASSUME NEW i \in 1 .. j PROVE g[p[i]].left # Nil /\ g[p[i]].right = p[i + 1]
  <2>1. i \in 1 .. b /\ i \in 1 .. b + 1
    OBVIOUS
  <2>2. heap[p[i]].left # Nil /\ heap[p[i]].right = p[i + 1] /\ p[i] \in DOMAIN heap
    BY <2>1 DEF Edge
  <2> QED
    BY <2>2 DEF SameTree, SameLinks
<1>2. ASSUME NEW i \in 1 .. j + 1
      PROVE  /\ p[i] \in S /\ off[p[i]] + cnt[p[i]] = m
             /\ \A l \in 1 .. j + 1 : i < l => cnt[p[l]] < cnt[p[i]]
  <2>1. i \in 1 .. b + 1 /\ \A l \in 1 .. j + 1 : l \in 1 .. b + 1
    OBVIOUS
  <2> QED
    BY <2>1 DEF Edge
<1> QED
  BY <1>1, <1>2 DEF Edge

LEMMA CompleteStands ==
  ASSUME NEW t, IsTree(t), NEW L, NEW nf, NEW S, NEW par, NEW off, NEW cnt, NEW p, NEW b,
         Standing(t.heap, t.insertion_stack, t.root, L, nf, S, par, off, cnt, p, b),
         t.insertion_stack # <<>>, NEW u, u = ProcessInsertionStack(t, TRUE)
  PROVE  \E hh, r : Settled(t, TRUE, t.heap, S, par, off, cnt, L, nf, p, 0, hh, r, <<>>, u)
<1>1. PICK heap, e : heap = t.heap /\ e = t.insertion_stack
  OBVIOUS
<1>2. Standing(heap, e, t.root, L, nf, S, par, off, cnt, p, b)
  BY <1>1
<1>3. /\ Heap(heap) /\ S \subseteq DOMAIN heap /\ b \in Nat
      /\ Good(heap, S, par, off, cnt, p[1], L, nf, NodesAt(p, b))
      /\ Edge(heap, S, off, cnt, Len(L), p, b)
  BY <1>2, StandingParts
<1>4. Len(e) = b /\ \A i \in 1 .. b : e[i].n = p[i] /\ ~e[i].left /\ heap[p[i]].dirty
  BY <1>2 DEF Standing
<1>5. e \in Seq(StackElement)
  BY <1>1 DEF IsTree
<1>6. b # 0
  BY <1>1, <1>4, <1>5
<1>7. PICK c : c = b - 1
  OBVIOUS
<1>8. c \in Nat /\ b = c + 1 /\ b \in 1 .. b /\ b - 1 = c /\ c <= b
  BY <1>3, <1>6, <1>7
<1>9. SameTree(heap, heap)
  BY DEF SameTree, SameLinks
<1>10. PICK g : g = UpdateSizes(heap, p[b])
  OBVIOUS
<1>11. /\ Good(g, S, par, off, cnt, p[1], L, nf, NodesAt(p, c)) /\ SameTree(g, heap)
       /\ \A n \in DOMAIN heap : n \notin S => g[n] = heap[n]
  <2>1. SizedEdge(g, heap, heap, S, par, off, cnt, p[1], L, nf, NodesAt(p, b - 1))
    BY <1>3, <1>8, <1>9, <1>10, SizeEdge
  <2> QED
    BY <1>8, <2>1 DEF SizedEdge
<1>12. Edge(g, S, off, cnt, Len(L), p, c)
  BY <1>3, <1>8, <1>11, EdgeCarries
<1>13. StackIs(g, e, p, c)
  <2>1. ASSUME NEW i \in 1 .. c + 1 PROVE e[i].n = p[i]
    BY <1>4, <1>8
  <2>2. ASSUME NEW i \in 1 .. c PROVE ~e[i].left /\ g[p[i]].dirty
    <3>1. i \in 1 .. b /\ i \in 1 .. b + 1
      BY <1>8
    <3>2. p[i] \in DOMAIN heap
      BY <1>3, <3>1 DEF Edge
    <3>3. g[p[i]].dirty = heap[p[i]].dirty
      BY <1>11, <3>2 DEF SameTree
    <3> QED
      BY <1>4, <3>1, <3>3
  <2> QED
    BY <2>1, <2>2 DEF StackIs
<1>14. ASSUME c # 0 PROVE Attach(g, e[c], p[c + 1]) = UpdateSizes(g, p[c])
  <2>1. c \in 1 .. c /\ c \in 1 .. c + 1
    BY <1>8, <1>14
  <2>2. PICK x : x = p[c]
    OBVIOUS
  <2>3. PICK a : a = e[c]
    OBVIOUS
  <2>4. a.n = x /\ ~a.left /\ g[x].dirty
    BY <1>13, <2>1, <2>2, <2>3 DEF StackIs
  <2>5. g[x].right = p[c + 1] /\ x \in S
    BY <1>12, <2>1, <2>2 DEF Edge
  <2>6. Heap(g) /\ x \in DOMAIN g
    BY <1>11, <2>5 DEF Good, Linked
  <2>7. Attach(g, a, p[c + 1]) = UpdateSizes(g, x)
    BY <2>4, <2>5, <2>6, AttachSame
  <2> QED
    BY <2>2, <2>3, <2>7
<1>15. PICK hh, k : Processed(t, TRUE, g, S, par, off, cnt, p[1], L, nf, p, c, hh, k)
  <2>1. TRUE \in BOOLEAN /\ Len(t.insertion_stack) = c + 1 /\ StackIs(g, t.insertion_stack, p, c)
    BY <1>1, <1>4, <1>8, <1>13
  <2>2. g = UpdateSizes(t.heap, p[c + 1])
    BY <1>1, <1>8, <1>10
  <2>3. c # 0 => Attach(g, t.insertion_stack[c], p[c + 1]) = UpdateSizes(g, p[c])
    BY <1>1, <1>14
  <2>4. TRUE \in BOOLEAN
    OBVIOUS
  <2> QED
    BY <1>8, <1>11, <1>12, <2>1, <2>2, <2>3, <2>4, ProcessIs
<1>16. S \subseteq DOMAIN g
  BY <1>11 DEF Good, Linked
<1>17. PICK r, e2 : Settled(t, TRUE, g, S, par, off, cnt, L, nf, p, c - k, hh, r, e2, u)
  <2>1. Len(t.insertion_stack) = c + 1 /\ StackIs(g, t.insertion_stack, p, c)
    BY <1>1, <1>4, <1>8, <1>13
  <2>2. TRUE \in BOOLEAN
    OBVIOUS
  <2> QED
    BY <1>8, <1>11, <1>12, <1>15, <1>16, <2>1, <2>2, ProcessedStands
<1>18. c - k = 0
  <2>1. k = c
    BY <1>15 DEF Processed
  <2> QED
    BY <1>8, <2>1
<1>19. e2 = <<>> /\ DOMAIN g = DOMAIN heap
  BY <1>11, <1>17 DEF Settled, SameTree, SameLinks
<1>20. Settled(t, TRUE, heap, S, par, off, cnt, L, nf, p, 0, hh, r, <<>>, u)
  BY <1>11, <1>17, <1>18, <1>19 DEF Settled
<1> QED
  BY <1>1, <1>20

(* No leaf waits and no insertion is pending.                               *)
Whole(t, leaves, S, par, off, cnt, p) ==
  Holds(t, <<>>, 0, leaves, S, par, off, cnt, p, 0) /\ t.insertion_stack = <<>>

LEMMA CompleteHolds ==
  ASSUME NEW t, NEW leaves, NEW S, NEW par, NEW off, NEW cnt, NEW p, NEW b,
         Holds(t, <<>>, 0, leaves, S, par, off, cnt, p, b),
         NEW u, u = CompleteInsertion(t)
  PROVE  Whole(u, leaves, S, par, off, cnt, p)
<1>1. PICK a : a = Hanging(leaves, <<>>, 0)
  OBVIOUS
<1>2. /\ IsTree(t) /\ leaves \in Seq(LeafHashes) /\ t.uninserted_leaf_nodes = <<>>
      /\ Rooted(t, a, S, par, off, cnt, p, b)
      /\ LeavesHang(t, a, S, off, cnt)
      /\ LeavesWait(t.heap, S, <<>>, 0, leaves)
  BY <1>1 DEF Holds
<1>3. CASE t.insertion_stack = <<>>
  <2>1. u = t
    BY <1>3 DEF CompleteInsertion
  <2>2. Rooted(t, a, S, par, off, cnt, p, 0)
    <3>1. CASE a = <<>>
      BY <1>2, <3>1 DEF Rooted
    <3>2. CASE a # <<>>
      <4>1. Standing(t.heap, t.insertion_stack, t.root, a, t.num_flushed, S, par, off, cnt, p, b)
        BY <1>2, <3>2 DEF Rooted
      <4>2. b = 0
        <5>1. b = Len(t.insertion_stack)
          BY <4>1 DEF Standing
        <5> QED
          BY <1>3, <5>1
      <4> QED
        BY <3>2, <4>1, <4>2 DEF Rooted
    <3> QED
      BY <3>1, <3>2
  <2>3. Holds(t, <<>>, 0, leaves, S, par, off, cnt, p, 0)
    BY <1>1, <2>2 DEF Holds
  <2> QED
    BY <1>3, <2>1, <2>3 DEF Whole
<1>4. CASE t.insertion_stack # <<>>
  <2>1. u = ProcessInsertionStack(t, TRUE)
    BY <1>4 DEF CompleteInsertion
  <2>2. a # <<>> /\ Standing(t.heap, t.insertion_stack, t.root, a, t.num_flushed, S, par, off, cnt, p, b)
    BY <1>2, <1>4 DEF Rooted
  <2>3. PICK hh, r : Settled(t, TRUE, t.heap, S, par, off, cnt, a, t.num_flushed, p, 0, hh, r, <<>>, u)
    BY <1>2, <1>4, <2>1, <2>2, CompleteStands
  <2>4. /\ u = Rebuilt(t, hh, r, <<>>) /\ r \in Nat
        /\ Standing(hh, <<>>, r, a, t.num_flushed, S, par, off, cnt, p, 0)
        /\ DOMAIN hh = DOMAIN t.heap /\ \A n \in DOMAIN t.heap : n \notin S => hh[n] = t.heap[n]
    BY <2>3 DEF Settled
  <2>5. <<>> \in Seq(StackElement)
    OBVIOUS
  <2>6. IsRebuilt(u, t, hh, r, <<>>) /\ IsTree(u)
    BY <1>2, <2>4, <2>5, RebuiltIs
  <2>7. /\ u.heap = hh /\ u.root = r /\ u.insertion_stack = <<>> /\ u.leaf_nodes = t.leaf_nodes
        /\ u.num_flushed = t.num_flushed /\ u.uninserted_leaf_nodes = <<>>
    BY <1>2, <2>6 DEF IsRebuilt
  <2>8. Rooted(u, a, S, par, off, cnt, p, 0)
    BY <2>2, <2>4, <2>7 DEF Rooted
  <2>9. LeavesHang(u, a, S, off, cnt)
    BY <1>2, <2>7 DEF LeavesHang
  <2>10. LeavesWait(u.heap, S, <<>>, 0, leaves)
    <3>1. 0 + 1 .. Len(<<>>) = {}
      OBVIOUS
    <3>2. DOMAIN u.heap = S \cup {<<>>[i] : i \in 0 + 1 .. Len(<<>>)}
      BY <1>2, <2>4, <2>7 DEF LeavesWait
    <3> QED
      BY <3>1, <3>2 DEF LeavesWait
  <2>11. Holds(u, <<>>, 0, leaves, S, par, off, cnt, p, 0)
    BY <1>1, <2>6, <2>7, <2>8, <2>9, <2>10 DEF Holds
  <2> QED
    BY <2>7, <2>11 DEF Whole
<1> QED
  BY <1>3, <1>4

LEMMA HangingAll ==
  ASSUME NEW leaves \in Seq(LeafHashes)
  PROVE  Hanging(leaves, <<>>, 0) = leaves
<1>1. PICK w, k : w = <<>> /\ k = 0
  OBVIOUS
<1>2. w \in Seq(Nat) /\ Len(w) = 0 /\ Len(w) <= Len(leaves) /\ k \in 0 .. Len(w)
  BY <1>1
<1>3. PICK a : a = Hanging(leaves, w, k)
  OBVIOUS
<1>4. /\ Hanging(leaves, w, k) \in Seq(LeafHashes)
      /\ Len(Hanging(leaves, w, k)) = Len(leaves) - Len(w) + k
      /\ \A i \in 1 .. Len(leaves) - Len(w) + k : Hanging(leaves, w, k)[i] = leaves[i]
  BY <1>2, HangingIs
<1>5. PICK m \in Nat : m = Len(leaves)
  OBVIOUS
<1>6. Len(leaves) - Len(w) + k = m
  BY <1>1, <1>2, <1>5
<1>7. a \in Seq(LeafHashes) /\ Len(a) = m /\ \A i \in 1 .. m : a[i] = leaves[i]
  BY <1>3, <1>4, <1>6
<1>8. a = leaves
  BY <1>5, <1>7, SameSeq
<1> QED
  BY <1>1, <1>3, <1>8

-----------------------------------------------------------------------------
(* compute_root()                                                           *)

Clean(t, leaves, S, par, off, cnt, p) ==
  Whole(t, leaves, S, par, off, cnt, p) /\ \A n \in S : ~t.heap[n].dirty

(* The parts of a whole tree that has a leaf.                               *)
LEMMA WholeParts ==
  ASSUME NEW t, NEW leaves, leaves # <<>>, NEW S, NEW par, NEW off, NEW cnt, NEW p,
         Whole(t, leaves, S, par, off, cnt, p)
  PROVE  /\ IsTree(t) /\ leaves \in Seq(LeafHashes) /\ Len(leaves) \in Nat
         /\ t.uninserted_leaf_nodes = <<>> /\ t.insertion_stack = <<>>
         /\ DOMAIN t.heap = S /\ S \subseteq Nat \ {0} /\ t.root \in S /\ t.root = p[1]
         /\ Good(t.heap, S, par, off, cnt, t.root, leaves, t.num_flushed, {})
         /\ LeavesHang(t, leaves, S, off, cnt)
<1>1. /\ IsTree(t) /\ leaves \in Seq(LeafHashes) /\ t.uninserted_leaf_nodes = <<>>
      /\ Rooted(t, Hanging(leaves, <<>>, 0), S, par, off, cnt, p, 0)
      /\ LeavesHang(t, Hanging(leaves, <<>>, 0), S, off, cnt)
      /\ LeavesWait(t.heap, S, <<>>, 0, leaves)
  BY DEF Whole, Holds
<1>2. Hanging(leaves, <<>>, 0) = leaves
  BY <1>1, HangingAll
<1>3. Rooted(t, leaves, S, par, off, cnt, p, 0)
  BY <1>1, <1>2
<1>4. Standing(t.heap, t.insertion_stack, t.root, leaves, t.num_flushed, S, par, off, cnt, p, 0)
  BY <1>3 DEF Rooted
<1>5. /\ S \subseteq DOMAIN t.heap /\ DOMAIN t.heap \subseteq Nat \ {0}
      /\ t.root \in S /\ Good(t.heap, S, par, off, cnt, p[1], leaves, t.num_flushed, NodesAt(p, 0))
  BY <1>4, StandingParts
<1>6. p[1] = t.root
  BY <1>4 DEF Standing
<1>7. NodesAt(p, 0) = {}
  BY DEF NodesAt
<1>8. DOMAIN t.heap = S
  <2>1. 0 + 1 .. Len(<<>>) = {}
    OBVIOUS
  <2> QED
    BY <1>1, <2>1 DEF LeavesWait
<1>9. t.insertion_stack = <<>>
  BY DEF Whole
<1>10. Good(t.heap, S, par, off, cnt, t.root, leaves, t.num_flushed, {})
  BY <1>5, <1>6, <1>7
<1>11. LeavesHang(t, leaves, S, off, cnt)
  BY <1>1, <1>2
<1> QED
  BY <1>1, <1>5, <1>6, <1>8, <1>9, <1>10, <1>11

(* A whole tree of the same shape.                                          *)
LEMMA WholeFrom ==
  ASSUME NEW t, IsTree(t), NEW leaves \in Seq(LeafHashes), leaves # <<>>,
         NEW S, NEW par, NEW off, NEW cnt, NEW p,
         t.uninserted_leaf_nodes = <<>>, t.insertion_stack = <<>>, DOMAIN t.heap = S, t.root = p[1],
         Good(t.heap, S, par, off, cnt, t.root, leaves, t.num_flushed, {}),
         LeavesHang(t, leaves, S, off, cnt)
  PROVE  Whole(t, leaves, S, par, off, cnt, p)
<1>1. Hanging(leaves, <<>>, 0) = leaves
  BY HangingAll
<1>2. NodesAt(p, 0) = {} /\ p[0 + 1] = t.root
  BY DEF NodesAt
<1>3. t.root \in S /\ off[t.root] = 0 /\ cnt[t.root] = Len(leaves) /\ Len(leaves) \in Nat
  BY DEF Good, Linked, Fits
<1>4. Edge(t.heap, S, off, cnt, Len(leaves), p, 0)
  BY <1>2, <1>3 DEF Edge
<1>5. Standing(t.heap, t.insertion_stack, t.root, leaves, t.num_flushed, S, par, off, cnt, p, 0)
  <2>1. Len(t.insertion_stack) = 0
    OBVIOUS
  <2>2. Good(t.heap, S, par, off, cnt, p[1], leaves, t.num_flushed, NodesAt(p, 0))
    BY <1>2
  <2> QED
    BY <1>2, <1>4, <2>1, <2>2 DEF Standing
<1>6. Rooted(t, leaves, S, par, off, cnt, p, 0)
  BY <1>5 DEF Rooted
<1>7. LeavesWait(t.heap, S, <<>>, 0, leaves)
  <2>1. 0 + 1 .. Len(<<>>) = {}
    OBVIOUS
  <2> QED
    BY <2>1 DEF LeavesWait
<1>8. <<>> \in Seq(Nat) /\ 0 \in 0 .. Len(<<>>) /\ Len(<<>>) <= Len(leaves)
  BY <1>3
<1>9. Holds(t, <<>>, 0, leaves, S, par, off, cnt, p, 0)
  BY <1>1, <1>6, <1>7, <1>8 DEF Holds
<1> QED
  BY <1>9 DEF Whole

LEMMA HashedHolds ==
  ASSUME NEW t, NEW leaves, leaves # <<>>, NEW S, NEW par, NEW off, NEW cnt, NEW p,
         Whole(t, leaves, S, par, off, cnt, p), NEW u, u = Hashed(t)
  PROVE  Clean(u, leaves, S, par, off, cnt, p) /\ HashAtRoot(u) = MTH(leaves)
<1>1. /\ IsTree(t) /\ leaves \in Seq(LeafHashes) /\ Len(leaves) \in Nat
      /\ t.uninserted_leaf_nodes = <<>> /\ t.insertion_stack = <<>>
      /\ DOMAIN t.heap = S /\ S \subseteq Nat \ {0} /\ t.root \in S /\ t.root = p[1]
      /\ Good(t.heap, S, par, off, cnt, t.root, leaves, t.num_flushed, {})
      /\ LeavesHang(t, leaves, S, off, cnt)
  BY WholeParts
<1>2. PICK heap, top : heap = t.heap /\ top = t.root
  OBVIOUS
<1>3. PICK g : g = Rehashed(heap, off, cnt, leaves)
  OBVIOUS
<1>4. HashIfDirty(heap, top) = g
  <2>1. \A n \in DOMAIN heap : n \notin S => ~heap[n].dirty
    BY <1>1, <1>2
  <2>2. Good(heap, S, par, off, cnt, top, leaves, t.num_flushed, {})
    BY <1>1, <1>2
  <2> QED
    BY <1>1, <1>3, <2>1, <2>2, HashIfDirtyIs
<1>5. Good(g, S, par, off, cnt, top, leaves, t.num_flushed, {}) /\ SameLinks(g, heap)
      /\ \A n \in S : ~g[n].dirty
  <2>1. Good(heap, S, par, off, cnt, top, leaves, t.num_flushed, {})
    BY <1>1, <1>2
  <2> QED
    BY <1>3, <2>1, RehashedGood
<1>6. /\ IsTree(u) /\ u.heap = g /\ u.root = t.root /\ u.leaf_nodes = t.leaf_nodes
      /\ u.num_flushed = t.num_flushed /\ u.insertion_stack = t.insertion_stack
      /\ u.uninserted_leaf_nodes = t.uninserted_leaf_nodes
  <2>1. u = [heap |-> g, root |-> t.root, leaf_nodes |-> t.leaf_nodes,
             uninserted_leaf_nodes |-> t.uninserted_leaf_nodes, num_flushed |-> t.num_flushed,
             insertion_stack |-> t.insertion_stack]
    BY <1>1, <1>2, <1>4 DEF Hashed, IsTree
  <2> QED
    BY <1>1, <2>1 DEF IsTree
<1>7. DOMAIN u.heap = S
  BY <1>1, <1>2, <1>5, <1>6 DEF SameLinks
<1>8. LeavesHang(u, leaves, S, off, cnt)
  BY <1>1, <1>6 DEF LeavesHang
<1>9. Good(u.heap, S, par, off, cnt, u.root, leaves, u.num_flushed, {})
  BY <1>2, <1>5, <1>6
<1>10. Whole(u, leaves, S, par, off, cnt, p)
  BY <1>1, <1>6, <1>7, <1>8, <1>9, WholeFrom
<1>11. HashAtRoot(u) = MTH(leaves)
  <2>1. g[top].hash = SubtreeHash(leaves)[cnt[top]][off[top]]
    BY <1>1, <1>2, <1>5 DEF Good, HashesRight
  <2>2. off[top] = 0 /\ cnt[top] = Len(leaves)
    BY <1>5 DEF Good, Fits
  <2> QED
    BY <1>2, <1>6, <2>1, <2>2 DEF HashAtRoot, MTH
<1> QED
  BY <1>5, <1>6, <1>10, <1>11 DEF Clean

LEMMA ComputeRootHolds ==
  ASSUME NEW t, NEW leaves, leaves # <<>>, NEW S, NEW par, NEW off, NEW cnt, NEW p, NEW b,
         Holds(t, t.uninserted_leaf_nodes, 0, leaves, S, par, off, cnt, p, b),
         NEW u, u = ComputeRoot(t)
  PROVE  (\E S2, par2, off2, cnt2, p2 : Clean(u, leaves, S2, par2, off2, cnt2, p2))
         /\ HashAtRoot(u) = MTH(leaves)
<1>1. PICK x, y : x = HangWaiting(t) /\ y = CompleteInsertion(x)
  OBVIOUS
<1>2. PICK S2, par2, off2, cnt2, p2, b2 : Holds(x, <<>>, 0, leaves, S2, par2, off2, cnt2, p2, b2)
  BY <1>1, HangWaitingHolds
<1>3. Whole(y, leaves, S2, par2, off2, cnt2, p2)
  BY <1>1, <1>2, CompleteHolds
<1>4. u = Hashed(y)
  BY <1>1 DEF ComputeRoot, InsertLeaves
<1>5. Clean(u, leaves, S2, par2, off2, cnt2, p2) /\ HashAtRoot(u) = MTH(leaves)
  BY <1>3, <1>4, HashedHolds
<1> QED
  BY <1>5

-----------------------------------------------------------------------------
(* insert()                                                                 *)

(* What stands in a heap stands in a heap with the same tree in it.         *)
LEMMA StandingCarries ==
  ASSUME NEW heap, NEW e, NEW r, NEW L, NEW nf, NEW S, NEW par, NEW off, NEW cnt, NEW p, NEW b,
         Standing(heap, e, r, L, nf, S, par, off, cnt, p, b),
         NEW g, Heap(g), Closed(g), \A n \in S : n \in DOMAIN g /\ g[n] = heap[n]
  PROVE  Standing(g, e, r, L, nf, S, par, off, cnt, p, b)
<1>1. /\ b \in Nat /\ Len(e) = b /\ p[b + 1] = r
      /\ \A i \in 1 .. b : e[i].n = p[i] /\ ~e[i].left /\ heap[p[i]].dirty
      /\ Good(heap, S, par, off, cnt, p[1], L, nf, NodesAt(p, b))
      /\ Edge(heap, S, off, cnt, Len(L), p, b)
      /\ (b # 0 => cnt[r] \notin Powers)
  BY DEF Standing
<1>2. \A i \in 1 .. b : p[i] \in S
  <2>1. \A i \in 1 .. b : i \in 1 .. b + 1
    BY <1>1
  <2> QED
    BY <1>1, <2>1 DEF Edge
<1>3. Edge(g, S, off, cnt, Len(L), p, b)
  BY <1>1, <1>2 DEF Edge
<1>4. /\ Linked(heap, S, par, p[1]) /\ Spans(heap, S, off, cnt, Nil, nf)
      /\ Fits(S, off, cnt, p[1], Len(L)) /\ Measured(heap, S, cnt, NodesAt(p, b))
      /\ HashesRight(heap, S, off, cnt, L)
  BY <1>1 DEF Good
<1>5. Linked(g, S, par, p[1])
  <2>1. S \subseteq DOMAIN g
    OBVIOUS
  <2>2. \A n \in S : n # p[1] =>
           par[n] \in S /\ g[par[n]].left # Nil /\ n \in {g[par[n]].left, g[par[n]].right}
    BY <1>4 DEF Linked
  <2>3. \A n \in S : g[n].left # Nil =>
       /\ g[n].left \in S /\ g[n].right \in S /\ g[n].left # g[n].right
       /\ par[g[n].left] = n /\ par[g[n].right] = n
    BY <1>4 DEF Linked
  <2>4. \A n \in S : g[n].left = Nil => g[n].right = Nil
    BY <1>4 DEF Linked
  <2>5. p[1] \in S /\ par[p[1]] = Nil
    BY <1>4 DEF Linked
  <2> QED
    BY <2>1, <2>2, <2>3, <2>4, <2>5 DEF Linked
<1>6. Spans(g, S, off, cnt, Nil, nf)
  BY <1>4 DEF Spans
<1>7. Measured(g, S, cnt, NodesAt(p, b))
  BY <1>4 DEF Measured
<1>8. HashesRight(g, S, off, cnt, L)
  <2>1. SUFFICES ASSUME NEW n \in S
                 PROVE  /\ ~g[n].dirty => g[n].hash = SubtreeHash(L)[cnt[n]][off[n]]
                        /\ g[n].left # Nil /\ ~g[n].dirty =>
                             ~g[g[n].left].dirty /\ ~g[g[n].right].dirty
                        /\ g[n].left = Nil => ~g[n].dirty
    BY DEF HashesRight
  <2>2. g[n].left # Nil => g[n].left \in S /\ g[n].right \in S
    BY <1>5 DEF Linked
  <2> QED
    BY <1>4, <2>2 DEF HashesRight
<1>9. Good(g, S, par, off, cnt, p[1], L, nf, NodesAt(p, b))
  BY <1>4, <1>5, <1>6, <1>7, <1>8 DEF Good
<1>10. \A i \in 1 .. b : g[p[i]].dirty
  BY <1>1, <1>2
<1> QED
  BY <1>1, <1>3, <1>9, <1>10 DEF Standing

LEMMA RootedHeap ==
  ASSUME NEW t, NEW L, NEW S, NEW par, NEW off, NEW cnt, NEW p, NEW b,
         Rooted(t, L, S, par, off, cnt, p, b)
  PROVE  Heap(t.heap) /\ Closed(t.heap) /\ S \subseteq DOMAIN t.heap
<1>1. CASE L # <<>> /\ Standing(t.heap, t.insertion_stack, t.root, L, t.num_flushed, S, par, off, cnt, p, b)
  BY <1>1, StandingParts
<1>2. CASE S = {} /\ Heap(t.heap) /\ Closed(t.heap)
  BY <1>2
<1> QED
  BY <1>1, <1>2 DEF Rooted

LEMMA AllocatedLeaf ==
  ASSUME NEW heap, Heap(heap), Closed(heap), NEW hash, NEW X, X = Fresh(heap),
         NEW y, y = NewLeaf(hash), NEW g, g = Allocate(heap, y)
  PROVE  /\ Heap(g) /\ Closed(g) /\ DOMAIN g = DOMAIN heap \cup {X} /\ g[X] = y
         /\ X \in Nat \ {0} /\ X \notin DOMAIN heap
         /\ \A n \in DOMAIN heap : g[n] = heap[n]
<1>1. X \in Nat \ {0} /\ X \notin DOMAIN heap
  BY FreshIs
<1>2. IsNode(y) /\ y.left = Nil /\ y.right = Nil
  BY LeafNode
<1>3. g = [n \in DOMAIN heap \cup {X} |-> IF n = X THEN y ELSE heap[n]]
  BY DEF Allocate
<1>4. DOMAIN g = DOMAIN heap \cup {X} /\ g[X] = y /\ \A n \in DOMAIN heap : g[n] = heap[n]
  BY <1>1, <1>3
<1>5. Heap(g)
  <2>1. IsFiniteSet(DOMAIN g)
    BY <1>4, FS_AddElement DEF Heap
  <2>2. g = [n \in DOMAIN g |-> g[n]]
    BY <1>3
  <2>3. \A n \in DOMAIN g : IsNode(g[n])
    BY <1>2, <1>4 DEF Heap
  <2>4. DOMAIN g \subseteq Nat \ {0}
    BY <1>1, <1>4 DEF Heap
  <2> QED
    BY <2>1, <2>2, <2>3, <2>4 DEF Heap
<1>6. Closed(g)
  BY <1>2, <1>4 DEF Closed
<1> QED
  BY <1>1, <1>4, <1>5, <1>6

(* insert() of one more leaf.                                              *)
LEMMA PushHolds ==
  ASSUME NEW t, NEW w, NEW leaves, NEW S, NEW par, NEW off, NEW cnt, NEW p, NEW b,
         Holds(t, w, 0, leaves, S, par, off, cnt, p, b), NEW hash \in LeafHashes,
         NEW u, u = Push(t, hash)
  PROVE  Holds(u, u.uninserted_leaf_nodes, 0, Append(leaves, hash), S, par, off, cnt, p, b)
<1>1. /\ IsTree(t) /\ leaves \in Seq(LeafHashes) /\ w \in Seq(Nat)
      /\ Len(w) <= Len(leaves) /\ t.uninserted_leaf_nodes = w
      /\ Rooted(t, Hanging(leaves, w, 0), S, par, off, cnt, p, b)
      /\ LeavesHang(t, Hanging(leaves, w, 0), S, off, cnt)
      /\ LeavesWait(t.heap, S, w, 0, leaves)
  BY DEF Holds
<1>2. PICK heap, X, y, g : heap = t.heap /\ X = Fresh(heap) /\ y = NewLeaf(hash) /\ g = Allocate(heap, y)
  OBVIOUS
<1>3. Heap(heap) /\ Closed(heap) /\ S \subseteq DOMAIN heap
  BY <1>1, <1>2, RootedHeap
<1>4. /\ Heap(g) /\ Closed(g) /\ DOMAIN g = DOMAIN heap \cup {X} /\ g[X] = y
      /\ X \in Nat \ {0} /\ X \notin DOMAIN heap
      /\ \A n \in DOMAIN heap : g[n] = heap[n]
  BY <1>2, <1>3, AllocatedLeaf
<1>5. /\ IsTree(u) /\ u.heap = g /\ u.root = t.root /\ u.leaf_nodes = t.leaf_nodes
      /\ u.num_flushed = t.num_flushed /\ u.insertion_stack = t.insertion_stack
      /\ u.uninserted_leaf_nodes = Append(w, X)
  <2>1. u = [heap |-> g, root |-> t.root, leaf_nodes |-> t.leaf_nodes,
             uninserted_leaf_nodes |-> Append(w, X), num_flushed |-> t.num_flushed,
             insertion_stack |-> t.insertion_stack]
    BY <1>1, <1>2 DEF Push, IsTree
  <2>2. Append(w, X) \in Seq(Nat)
    BY <1>1, <1>4
  <2> QED
    BY <1>1, <2>1, <2>2 DEF IsTree
<1>6. PICK c, m, w2 : c = Append(leaves, hash) /\ m = Len(w) /\ w2 = Append(w, X)
  OBVIOUS
<1>7. /\ w2 = Append(w, X) /\ w2 \in Seq(Nat) /\ Len(w2) = m + 1 /\ w2[m + 1] = X /\ m \in Nat
      /\ \A i \in 1 .. m : w2[i] = w[i]
  BY <1>1, <1>4, <1>5, <1>6
<1>8. PICK l \in Nat : l = Len(leaves)
  BY <1>1
<1>9. /\ c \in Seq(LeafHashes) /\ Len(c) = l + 1 /\ c[l + 1] = hash
      /\ \A i \in 1 .. l : c[i] = leaves[i]
  BY <1>1, <1>6, <1>8
<1>10. m <= l
  BY <1>1, <1>6, <1>8
<1>11. Hanging(c, w2, 0) = Hanging(leaves, w, 0)
  <2>1. PICK A, B, j : A = Hanging(leaves, w, 0) /\ B = Hanging(c, w2, 0) /\ j = l - m
    OBVIOUS
  <2>2. /\ Hanging(leaves, w, 0) \in Seq(LeafHashes)
        /\ Len(Hanging(leaves, w, 0)) = Len(leaves) - Len(w) + 0
        /\ \A i \in 1 .. Len(leaves) - Len(w) + 0 : Hanging(leaves, w, 0)[i] = leaves[i]
    <3>1. PICK z : z = 0
      OBVIOUS
    <3>2. z \in 0 .. Len(w)
      BY <1>1, <3>1
    <3>3. /\ Hanging(leaves, w, z) \in Seq(LeafHashes)
          /\ Len(Hanging(leaves, w, z)) = Len(leaves) - Len(w) + z
          /\ \A i \in 1 .. Len(leaves) - Len(w) + z : Hanging(leaves, w, z)[i] = leaves[i]
      BY <1>1, <3>2, HangingIs
    <3> QED
      BY <3>1, <3>3
  <2>3. /\ Hanging(c, w2, 0) \in Seq(LeafHashes)
        /\ Len(Hanging(c, w2, 0)) = Len(c) - Len(w2) + 0
        /\ \A i \in 1 .. Len(c) - Len(w2) + 0 : Hanging(c, w2, 0)[i] = c[i]
    <3>1. PICK z : z = 0
      OBVIOUS
    <3>2. z \in 0 .. Len(w2) /\ Len(w2) <= Len(c)
      BY <1>7, <1>9, <1>10, <3>1
    <3>3. /\ Hanging(c, w2, z) \in Seq(LeafHashes)
          /\ Len(Hanging(c, w2, z)) = Len(c) - Len(w2) + z
          /\ \A i \in 1 .. Len(c) - Len(w2) + z : Hanging(c, w2, z)[i] = c[i]
      BY <1>7, <1>9, <3>2, HangingIs
    <3> QED
      BY <3>1, <3>3
  <2>4. j \in Nat /\ Len(leaves) - Len(w) + 0 = j /\ Len(c) - Len(w2) + 0 = j /\ j <= l
    BY <1>6, <1>7, <1>8, <1>9, <1>10, <2>1
  <2>5. A \in Seq(LeafHashes) /\ Len(A) = j /\ \A i \in 1 .. j : A[i] = leaves[i]
    BY <2>1, <2>2, <2>4
  <2>6. B \in Seq(LeafHashes) /\ Len(B) = j /\ \A i \in 1 .. j : B[i] = c[i]
    BY <2>1, <2>3, <2>4
  <2>7. \A i \in 1 .. j : A[i] = B[i]
    <3>1. \A i \in 1 .. j : i \in 1 .. l
      BY <2>4
    <3> QED
      BY <1>9, <2>5, <2>6, <3>1
  <2>8. A = B
    BY <2>4, <2>5, <2>6, <2>7, SameSeq
  <2> QED
    BY <2>1, <2>8
<1>12. Rooted(u, Hanging(leaves, w, 0), S, par, off, cnt, p, b)
  <2>1. PICK L : L = Hanging(leaves, w, 0)
    OBVIOUS
  <2>2. CASE L # <<>> /\ Standing(heap, t.insertion_stack, t.root, L, t.num_flushed, S, par, off, cnt, p, b)
    <3>1. \A n \in S : n \in DOMAIN g /\ g[n] = heap[n]
      BY <1>3, <1>4
    <3>2. Standing(g, t.insertion_stack, t.root, L, t.num_flushed, S, par, off, cnt, p, b)
      BY <1>4, <2>2, <3>1, StandingCarries
    <3> QED
      BY <1>5, <2>1, <2>2, <3>2 DEF Rooted
  <2>3. CASE L = <<>> /\ S = {} /\ t.root = Nil /\ t.insertion_stack = <<>>
    BY <1>4, <1>5, <2>1, <2>3 DEF Rooted
  <2> QED
    BY <1>1, <1>2, <2>1, <2>2, <2>3 DEF Rooted
<1>13. LeavesHang(u, Hanging(leaves, w, 0), S, off, cnt)
  BY <1>1, <1>5 DEF LeavesHang
<1>14. LeavesWait(g, S, w2, 0, c)
  <2>1. /\ DOMAIN heap = S \cup {w[i] : i \in 1 .. m}
        /\ \A i \in 1 .. m : w[i] \notin S /\ heap[w[i]] = NewLeaf(leaves[l - m + i])
        /\ \A i \in 1 .. m : \A j \in 1 .. m : i # j => w[i] # w[j]
    <3>1. 0 + 1 = 1
      OBVIOUS
    <3> QED
      BY <1>1, <1>2, <1>6, <1>8, <3>1 DEF LeavesWait
  <2>2. \A i \in 1 .. m + 1 : i \in 1 .. m \/ i = m + 1
    BY <1>7
  <2>3. \A i \in 1 .. m : i \in 1 .. m + 1 /\ w[i] \in DOMAIN heap
    BY <1>7, <2>1
  <2>4. m + 1 \in 1 .. m + 1
    BY <1>7
  <2>5. {w2[i] : i \in 1 .. m + 1} = {w[i] : i \in 1 .. m} \cup {X}
    <3>1. ASSUME NEW z \in {w2[i] : i \in 1 .. m + 1} PROVE z \in {w[i] : i \in 1 .. m} \cup {X}
      <4>1. PICK i \in 1 .. m + 1 : z = w2[i]
        BY <3>1
      <4> QED
        BY <1>7, <2>2, <4>1
    <3>2. ASSUME NEW z \in {w[i] : i \in 1 .. m} PROVE z \in {w2[i] : i \in 1 .. m + 1}
      <4>1. PICK i \in 1 .. m : z = w[i]
        BY <3>2
      <4> QED
        BY <1>7, <2>3, <4>1
    <3>3. X \in {w2[i] : i \in 1 .. m + 1}
      BY <1>7, <2>4
    <3> QED
      BY <3>1, <3>2, <3>3
  <2>6. DOMAIN g = S \cup {w2[i] : i \in 1 .. m + 1}
    BY <1>4, <2>1, <2>5
  <2>7. \A i \in 1 .. m + 1 : w2[i] \notin S /\ g[w2[i]] = NewLeaf(c[l + 1 - (m + 1) + i])
    <3>1. SUFFICES ASSUME NEW i \in 1 .. m + 1
                   PROVE  w2[i] \notin S /\ g[w2[i]] = NewLeaf(c[l + 1 - (m + 1) + i])
      OBVIOUS
    <3>2. CASE i = m + 1
      <4>1. l + 1 - (m + 1) + i = l + 1
        BY <1>7, <1>8, <3>2
      <4> QED
        BY <1>2, <1>3, <1>4, <1>7, <1>9, <3>2, <4>1
    <3>3. CASE i \in 1 .. m
      <4>1. PICK j : j = l - m + i
        OBVIOUS
      <4>2. l + 1 - (m + 1) + i = j /\ j \in 1 .. l
        BY <1>7, <1>8, <1>10, <3>3, <4>1
      <4>3. w2[i] = w[i] /\ w[i] \in DOMAIN heap /\ w[i] \notin S /\ heap[w[i]] = NewLeaf(leaves[j])
        BY <1>7, <2>1, <2>3, <3>3, <4>1
      <4> QED
        BY <1>4, <1>9, <4>2, <4>3
    <3> QED
      BY <2>2, <3>2, <3>3
  <2>8. \A i \in 1 .. m + 1 : \A j \in 1 .. m + 1 : i # j => w2[i] # w2[j]
    BY <1>4, <1>7, <2>1, <2>2, <2>3
  <2>9. PICK z : z = 0
    OBVIOUS
  <2>10. 1 .. m + 1 = z + 1 .. Len(w2) /\ Len(c) - Len(w2) = l + 1 - (m + 1)
    BY <1>7, <1>9, <2>9
  <2>11. DOMAIN g = S \cup {w2[i] : i \in z + 1 .. Len(w2)}
    BY <2>6, <2>10
  <2>12. \A i \in z + 1 .. Len(w2) : w2[i] \notin S /\ g[w2[i]] = NewLeaf(c[Len(c) - Len(w2) + i])
    BY <2>7, <2>10
  <2>13. \A i \in z + 1 .. Len(w2) : \A j \in z + 1 .. Len(w2) : i # j => w2[i] # w2[j]
    BY <2>8, <2>10
  <2>14. LeavesWait(g, S, w2, z, c)
    BY <2>11, <2>12, <2>13 DEF LeavesWait
  <2> QED
    BY <2>9, <2>14
<1>15. 0 \in 0 .. Len(w2) /\ Len(w2) <= Len(c)
  BY <1>7, <1>9, <1>10
<1>16. Holds(u, w2, 0, c, S, par, off, cnt, p, b)
  <2>1. Rooted(u, Hanging(c, w2, 0), S, par, off, cnt, p, b) /\ LeavesHang(u, Hanging(c, w2, 0), S, off, cnt)
    BY <1>11, <1>12, <1>13
  <2>2. LeavesWait(u.heap, S, w2, 0, c)
    BY <1>5, <1>14
  <2> QED
    BY <1>5, <1>7, <1>9, <1>15, <2>1, <2>2 DEF Holds
<1> QED
  BY <1>5, <1>6, <1>16
-----------------------------------------------------------------------------
(* Paths: the reference's audit path by recursion over its trees, the loops *)
(* of path() and past_path() over the turns of a walk, and what one turn    *)
(* adds to a path, and to the root and path of the leaves up to as_of.      *)

WalkTurn == [n : Nat, right : BOOLEAN]

(* The elements of the audit path from the leaf at i, inside every tree of *)
(* the reference.                                                          *)
IsPaths(leaves, i, path, m) ==
  path = [c \in 1 .. m |->
            [o \in 0 .. Len(leaves) - c |->
               IF c = 1 THEN <<>>
               ELSE IF i < o + Split(c)
               THEN Append(path[Split(c)][o],
                           Element(SubtreeHash(leaves)[c - Split(c)][o + Split(c)], PATH_RIGHT))
               ELSE Append(path[c - Split(c)][o + Split(c)],
                           Element(SubtreeHash(leaves)[Split(c)][o], PATH_LEFT))]]

Paths(leaves, i) == CHOOSE path : IsPaths(leaves, i, path, Len(leaves))

LEMMA PathsExist ==
  ASSUME NEW leaves, NEW i, NEW m \in Nat
  PROVE  \E path : IsPaths(leaves, i, path, m)
<1> DEFINE Right(c, o) == Element(SubtreeHash(leaves)[c - Split(c)][o + Split(c)], PATH_RIGHT)
           Left(c, o) == Element(SubtreeHash(leaves)[Split(c)][o], PATH_LEFT)
           Row(f, c) == [o \in 0 .. Len(leaves) - c |->
                           IF c = 1 THEN <<>>
                           ELSE IF i < o + Split(c) THEN Append(f[Split(c)][o], Right(c, o))
                           ELSE Append(f[c - Split(c)][o + Split(c)], Left(c, o))]
           T == {k \in Nat : \E f : f = [c \in 1 .. k |-> Row(f, c)]}
<1>1. 0 \in T
  <2>1. \A f : [c \in 1 .. 0 |-> Row(f, c)] = <<>>
    OBVIOUS
  <2> HIDE DEF Row
  <2> QED
    BY <2>1
<1>2. ASSUME NEW k \in Nat, k \in T PROVE k + 1 \in T
  <2>1. PICK f : f = [c \in 1 .. k |-> Row(f, c)]
    BY <1>2
  <2> DEFINE g == [c \in 1 .. k + 1 |-> IF c = k + 1 THEN Row(f, k + 1) ELSE f[c]]
  <2>2. ASSUME NEW c \in 1 .. k + 1 PROVE g[c] = Row(g, c)
    <3>1. g[c] = Row(f, c)
      <4> HIDE DEF Row
      <4>1. CASE c = k + 1
        BY <4>1
      <4>2. CASE c # k + 1
        <5>1. c \in 1 .. k
          BY <4>2
        <5>2. f[c] = Row(f, c)
          BY <2>1, <5>1
        <5>3. g[c] = f[c]
          BY <4>2
        <5> QED
          BY <5>2, <5>3
      <4> QED
        BY <4>1, <4>2
    <3>2. Row(f, c) = Row(g, c)
      <4> HIDE DEF Left, Right
      <4>1. CASE c = 1
        BY <4>1
      <4>2. CASE c # 1
        <5>1. Split(c) \in 1 .. k /\ c - Split(c) \in 1 .. k
          <6>1. c \in Nat /\ c >= 2
            BY <4>2
          <6> QED
            BY <6>1, SplitBounds
        <5>2. \A x \in 1 .. k : g[x] = f[x]
          OBVIOUS
        <5> HIDE DEF g
        <5>3. g[Split(c)] = f[Split(c)] /\ g[c - Split(c)] = f[c - Split(c)]
          BY <5>1, <5>2
        <5> QED
          BY <5>3
      <4> QED
        BY <4>1, <4>2
    <3> QED
      BY <3>1, <3>2
  <2>3. g = [c \in 1 .. k + 1 |-> g[c]]
    OBVIOUS
  <2> HIDE DEF g, Row
  <2>4. g = [c \in 1 .. k + 1 |-> Row(g, c)]
    BY <2>2, <2>3
  <2> QED
    BY <2>4
<1> HIDE DEF T
<1>3. Nat \subseteq T
  BY <1>1, <1>2, SetInduction
<1>4. \E f : f = [c \in 1 .. m |-> Row(f, c)]
  BY <1>3 DEF T
<1> QED
  BY <1>4 DEF IsPaths

LEMMA PathsAre ==
  ASSUME NEW leaves, NEW i, Len(leaves) \in Nat
  PROVE  /\ IsPaths(leaves, i, Paths(leaves, i), Len(leaves))
         /\ AuditPath(leaves, i) = Paths(leaves, i)[Len(leaves)][0]
<1>1. \E path : IsPaths(leaves, i, path, Len(leaves))
  BY PathsExist
<1>2. IsPaths(leaves, i, Paths(leaves, i), Len(leaves))
  BY <1>1 DEF Paths
<1>3. AuditPath(leaves, i) = Paths(leaves, i)[Len(leaves)][0]
  BY DEF AuditPath, Paths, IsPaths
<1> QED
  BY <1>2, <1>3

LEMMA PathOfLeaf ==
  ASSUME NEW leaves, Len(leaves) \in Nat, NEW i, NEW o \in Nat, o < Len(leaves)
  PROVE  Paths(leaves, i)[1][o] = <<>>
<1> DEFINE P == Paths(leaves, i)
<1>1. IsPaths(leaves, i, P, Len(leaves))
  BY PathsAre
<1>2. 1 \in 1 .. Len(leaves) /\ o \in 0 .. Len(leaves) - 1
  OBVIOUS
<1> HIDE DEF P
<1> QED
  BY <1>1, <1>2 DEF IsPaths, P

(* The path goes on in the subtree that has the leaf.                      *)
PathGoesOn(leaves, i, a, b, o) ==
  Paths(leaves, i)[a + b][o]
    = IF i < o + a
      THEN Append(Paths(leaves, i)[a][o], Element(SubtreeHash(leaves)[b][o + a], PATH_RIGHT))
      ELSE Append(Paths(leaves, i)[b][o + a], Element(SubtreeHash(leaves)[a][o], PATH_LEFT))

LEMMA PathOfInner ==
  ASSUME NEW leaves, Len(leaves) \in Nat, NEW i,
         NEW a \in Powers, NEW b \in Nat \ {0}, b <= a, NEW o \in Nat, o + a + b <= Len(leaves)
  PROVE  PathGoesOn(leaves, i, a, b, o)
<1> DEFINE P == Paths(leaves, i)
           c == a + b
           H == SubtreeHash(leaves)
           Right(d, x) == Element(H[d - Split(d)][x + Split(d)], PATH_RIGHT)
           Left(d, x) == Element(H[Split(d)][x], PATH_LEFT)
<1>1. IsPaths(leaves, i, P, Len(leaves))
  BY PathsAre
<1>2. a \in Nat \ {0} /\ Split(c) = a
  BY PowersNat, SplitIs
<1>3. c \in 1 .. Len(leaves) /\ c # 1 /\ o \in 0 .. Len(leaves) - c /\ c - a = b
  BY <1>2
<1>4. P = [d \in 1 .. Len(leaves) |->
            [x \in 0 .. Len(leaves) - d |->
               IF d = 1 THEN <<>>
               ELSE IF i < x + Split(d) THEN Append(P[Split(d)][x], Right(d, x))
               ELSE Append(P[d - Split(d)][x + Split(d)], Left(d, x))]]
  BY <1>1 DEF IsPaths
<1> HIDE DEF P, H, Left, Right, c
<1>5. P[c] = [x \in 0 .. Len(leaves) - c |->
               IF c = 1 THEN <<>>
               ELSE IF i < x + Split(c) THEN Append(P[Split(c)][x], Right(c, x))
               ELSE Append(P[c - Split(c)][x + Split(c)], Left(c, x))]
  BY <1>3, <1>4
<1>6. P[c][o] = IF i < o + a THEN Append(P[a][o], Right(c, o)) ELSE Append(P[b][o + a], Left(c, o))
  BY <1>2, <1>3, <1>5
<1>7. Right(c, o) = Element(H[b][o + a], PATH_RIGHT) /\ Left(c, o) = Element(H[a][o], PATH_LEFT)
  BY <1>2, <1>3 DEF Right, Left
<1> QED
  BY <1>6, <1>7 DEF PathGoesOn, P, H, c

(* The nodes of a walk from its end to its start.                          *)
Passing(a, k) == IF k = 0 THEN a.n ELSE a.turns[k].n

(* Each turn leads to the node passed next, to the side of the index.      *)
TurnsTo(heap, off, index, turn, n) ==
  /\ heap[turn.n].left # Nil
  /\ turn.right = (off[heap[turn.n].right] <= index)
  /\ n = IF turn.right THEN heap[turn.n].right ELSE heap[turn.n].left

Traced(heap, off, index, r, a) ==
  /\ Passing(a, Len(a.turns)) = r
  /\ \A k \in 1 .. Len(a.turns) : TurnsTo(heap, off, index, a.turns[k], Passing(a, k - 1))

(* The turns of a walk to a leaf, one under the other.                     *)
LeadTo(heap, S, off, cnt, index, r, turns, leaf) ==
  /\ turns \in Seq(WalkTurn) /\ leaf \in S /\ off[leaf] = index /\ cnt[leaf] = 1
  /\ \A k \in 1 .. Len(turns) : turns[k].n \in S
  /\ Traced(heap, off, index, r, [n |-> leaf, turns |-> turns])

Covers(off, cnt, index, n) == off[n] <= index /\ index < off[n] + cnt[n]
StepsUp(t, heap, S, off, cnt, L, index, turn, n) ==
  /\ n \in S /\ Covers(off, cnt, index, turn.n)
  /\ Paths(L, index)[cnt[turn.n]][off[turn.n]]
       = Append(Paths(L, index)[cnt[n]][off[n]], Step(t, turn))
  /\ heap[turn.n].hash = Join(heap[n].hash, Step(t, turn))

(* One turn: the path inside the tree over what is under the parent ends   *)
(* with the sibling's hash.                                                *)
LEMMA TurnIsStep ==
  ASSUME NEW t, NEW heap, heap = t.heap, NEW S, NEW par, NEW off, NEW cnt, NEW top, NEW L, NEW nf,
         Good(heap, S, par, off, cnt, top, L, nf, {}), Len(L) \in Nat, \A x \in S : ~heap[x].dirty,
         NEW index \in Nat, NEW turn, turn.n \in S, turn.right \in BOOLEAN,
         NEW n, TurnsTo(heap, off, index, turn, n), Covers(off, cnt, index, n)
  PROVE  StepsUp(t, heap, S, off, cnt, L, index, turn, n)
<1>1. /\ Heap(heap) /\ Linked(heap, S, par, top) /\ Spans(heap, S, off, cnt, Nil, nf)
      /\ S \subseteq Nat /\ Nil \notin S /\ HashesRight(heap, S, off, cnt, L)
      /\ Fits(S, off, cnt, top, Len(L))
  BY DEF Good, Linked, Heap, Nil
<1>2. PICK m, right, l, r : m = turn.n /\ right = turn.right /\ l = heap[m].left /\ r = heap[m].right
  OBVIOUS
<1>3. m \in S /\ right \in BOOLEAN /\ l # Nil /\ right = (off[r] <= index) /\ n = IF right THEN r ELSE l
  BY <1>2 DEF TurnsTo
<1>4. l \in S /\ r \in S
  BY <1>1, <1>2, <1>3 DEF Linked
<1>5. PICK a, b, o, H, P : a = cnt[l] /\ b = cnt[r] /\ o = off[m] /\ H = SubtreeHash(L) /\ P = Paths(L, index)
  OBVIOUS
<1>6. /\ a \in Powers /\ b \in Nat \ {0} /\ b <= a /\ o \in Nat
      /\ cnt[m] = a + b /\ off[l] = o /\ off[r] = o + a
  BY <1>1, <1>2, <1>3, <1>4, <1>5 DEF Spans
<1>7. a \in Nat \ {0} /\ o + a + b <= Len(L)
  <2>1. a \in Nat \ {0}
    BY <1>6, PowersNat
  <2>2. off[m] + cnt[m] <= Len(L)
    BY <1>1, <1>3 DEF Fits
  <2>3. o + (a + b) <= Len(L)
    BY <1>5, <1>6, <2>2
  <2> QED
    BY <1>6, <2>1, <2>3
<1>8. heap[m].hash = H[a + b][o] /\ heap[l].hash = H[a][o] /\ heap[r].hash = H[b][o + a]
  BY <1>1, <1>3, <1>4, <1>5, <1>6 DEF HashesRight
<1>9. H[a + b][o] = HashFunction(H[a][o], H[b][o + a])
  <2>1. SubtreeHash(L)[a + b][o] = HashFunction(SubtreeHash(L)[a][o], SubtreeHash(L)[b][o + a])
    BY <1>6, <1>7, HashOfInner
  <2> QED
    BY <1>5, <2>1
<1>10. P[a + b][o] = IF index < o + a THEN Append(P[a][o], Element(H[b][o + a], PATH_RIGHT))
                                     ELSE Append(P[b][o + a], Element(H[a][o], PATH_LEFT))
  <2>1. PathGoesOn(L, index, a, b, o)
    BY <1>6, <1>7, PathOfInner
  <2> QED
    BY <1>5, <2>1 DEF PathGoesOn
<1>11. PICK e : e = Step(t, turn)
  OBVIOUS
<1>12. CASE right
  <2>1. n = r /\ o + a <= index /\ index < o + a + b
    BY <1>3, <1>5, <1>6, <1>12 DEF Covers
  <2>2. ~(index < o + a) /\ o <= index /\ index < o + (a + b)
    BY <1>6, <1>7, <2>1
  <2>3. e = Element(H[a][o], PATH_LEFT)
    BY <1>2, <1>8, <1>11, <1>12 DEF Step, LeftHash
  <2>4. P[a + b][o] = Append(P[b][o + a], e)
    BY <1>10, <2>2, <2>3
  <2>5. Join(heap[n].hash, e) = HashFunction(H[a][o], heap[n].hash)
    BY <2>3 DEF Join, Element
  <2>6. heap[m].hash = Join(heap[n].hash, e)
    BY <1>8, <1>9, <2>1, <2>5
  <2>7. Covers(off, cnt, index, m)
    BY <1>5, <1>6, <2>2 DEF Covers
  <2> QED
    BY <1>2, <1>4, <1>5, <1>6, <1>11, <2>1, <2>4, <2>6, <2>7 DEF StepsUp
<1>13. CASE ~right
  <2>1. n = l /\ ~(o + a <= index) /\ o <= index
    BY <1>3, <1>5, <1>6, <1>13 DEF Covers
  <2>2. index < o + a /\ index < o + (a + b)
    BY <1>6, <1>7, <2>1
  <2>3. e = Element(H[b][o + a], PATH_RIGHT)
    BY <1>2, <1>8, <1>11, <1>13 DEF Step, RightHash
  <2>4. P[a + b][o] = Append(P[a][o], e)
    BY <1>10, <2>2, <2>3
  <2>5. Join(heap[n].hash, e) = HashFunction(heap[n].hash, H[b][o + a])
    BY <2>3 DEF Join, Element, PATH_LEFT, PATH_RIGHT
  <2>6. heap[m].hash = Join(heap[n].hash, e)
    BY <1>8, <1>9, <2>1, <2>5
  <2>7. Covers(off, cnt, index, m)
    BY <1>5, <1>6, <2>1, <2>2 DEF Covers
  <2> QED
    BY <1>2, <1>4, <1>5, <1>6, <1>11, <2>1, <2>4, <2>6, <2>7 DEF StepsUp
<1> QED
  BY <1>3, <1>12, <1>13

(* The first k elements of a path.                                         *)
UpTurns(t, turns, k) == [j \in 1 .. k |-> Step(t, turns[j])]

LEMMA UpTurnsGrow ==
  ASSUME NEW t, NEW turns, NEW k \in Nat
  PROVE  UpTurns(t, turns, k + 1) = Append(UpTurns(t, turns, k), Step(t, turns[k + 1]))
<1> DEFINE x(j) == Step(t, turns[j])
           T == {x(j) : j \in 1 .. k + 1}
<1>1. PICK s, e : s = UpTurns(t, turns, k) /\ e = x(k + 1)
  OBVIOUS
<1>2. s = [j \in 1 .. k |-> x(j)] /\ UpTurns(t, turns, k + 1) = [j \in 1 .. k + 1 |-> x(j)]
  BY <1>1 DEF UpTurns
<1> HIDE DEF x
<1>3. \A j \in 1 .. k : x(j) \in T
  OBVIOUS
<1> HIDE DEF T
<1>4. s \in Seq(T) /\ Len(s) = k
  BY <1>2, <1>3
<1>5. PICK u : u = Append(s, e)
  OBVIOUS
<1>6. u = [j \in 1 .. k + 1 |-> x(j)]
  <2>1. e \in {e} \cup T /\ s \in Seq({e} \cup T)
    BY <1>4
  <2>2. u \in Seq({e} \cup T) /\ Len(u) = k + 1
    BY <1>4, <1>5, <2>1
  <2>3. \A j \in 1 .. k + 1 : u[j] = x(j)
    BY <1>1, <1>2, <1>4, <1>5
  <2>4. u = [j \in 1 .. k + 1 |-> u[j]]
    BY <2>2
  <2> QED
    BY <2>3, <2>4
<1> QED
  BY <1>1, <1>2, <1>5, <1>6 DEF x

LeadsUp(t, off, cnt, S, L, index, turns, a, k) ==
  LET n == Passing(a, k)
  IN  /\ n \in S /\ Covers(off, cnt, index, n)
      /\ Paths(L, index)[cnt[n]][off[n]] = UpTurns(t, turns, k)

(* The elements of a path are the audit path's, and join to the hashes of  *)
(* the nodes passed.                                                       *)
ClimbsTo(t, heap, S, off, cnt, L, index, turns, leaf) ==
  /\ Elements(t, turns) = AuditPath(L, index)
  /\ Elements(t, turns) = UpTurns(t, turns, Len(turns))
  /\ \A k \in 1 .. Len(turns) :
       heap[turns[k].n].hash
         = Join(heap[Passing([n |-> leaf, turns |-> turns], k - 1)].hash, Step(t, turns[k]))
  /\ \A k \in 0 .. Len(turns) :
       LeadsUp(t, off, cnt, S, L, index, turns, [n |-> leaf, turns |-> turns], k)

LEMMA ElementsAre ==
  ASSUME NEW t, NEW heap, heap = t.heap, NEW S, NEW par, NEW off, NEW cnt, NEW top, NEW L, NEW nf,
         Good(heap, S, par, off, cnt, top, L, nf, {}), Len(L) \in Nat, \A x \in S : ~heap[x].dirty,
         NEW index \in Nat, NEW turns, NEW leaf, LeadTo(heap, S, off, cnt, index, top, turns, leaf)
  PROVE  ClimbsTo(t, heap, S, off, cnt, L, index, turns, leaf)
<1>1. PICK a, m : a = [n |-> leaf, turns |-> turns] /\ m = Len(turns)
  OBVIOUS
<1>2. /\ turns \in Seq(WalkTurn) /\ m \in Nat /\ leaf \in S /\ off[leaf] = index /\ cnt[leaf] = 1
      /\ (\A k \in 1 .. m : turns[k].n \in S) /\ Traced(heap, off, index, top, a)
  BY <1>1 DEF LeadTo
<1>3. a.n = leaf /\ a.turns = turns
  BY <1>1
<1>4. Passing(a, m) = top /\ \A k \in 1 .. m : TurnsTo(heap, off, index, turns[k], Passing(a, k - 1))
  BY <1>1, <1>2, <1>3 DEF Traced
<1> DEFINE T == {k \in Nat : k <= m => LeadsUp(t, off, cnt, S, L, index, turns, a, k)}
<1>5. 0 \in T
  <2>1. Passing(a, 0) = leaf
    BY <1>3 DEF Passing
  <2>2. Covers(off, cnt, index, leaf)
    BY <1>2 DEF Covers
  <2>3. index < Len(L)
    <3>1. off[leaf] + cnt[leaf] <= Len(L)
      BY <1>2 DEF Good, Fits
    <3> QED
      BY <1>2, <3>1
  <2>4. Paths(L, index)[1][index] = <<>>
    BY <2>3, PathOfLeaf
  <2>5. UpTurns(t, turns, 0) = <<>>
    BY DEF UpTurns
  <2> QED
    BY <1>2, <2>1, <2>2, <2>4, <2>5 DEF LeadsUp
<1>6. ASSUME NEW k \in Nat, k + 1 <= m, LeadsUp(t, off, cnt, S, L, index, turns, a, k)
      PROVE  /\ LeadsUp(t, off, cnt, S, L, index, turns, a, k + 1)
             /\ heap[turns[k + 1].n].hash = Join(heap[Passing(a, k)].hash, Step(t, turns[k + 1]))
  <2>1. PICK n, turn, j : n = Passing(a, k) /\ turn = turns[k + 1] /\ j = k + 1
    OBVIOUS
  <2>2. j \in 1 .. m /\ j - 1 = k /\ j # 0
    <3>1. j = k + 1 /\ k + 1 <= m /\ m \in Nat
      BY <1>2, <1>6, <2>1
    <3> QED
      BY <3>1
  <2>3. turn = turns[j] /\ turn \in WalkTurn /\ turn.n \in S
    BY <1>1, <1>2, <2>1, <2>2
  <2>4. turn.right \in BOOLEAN
    BY <2>3 DEF WalkTurn
  <2>5. TurnsTo(heap, off, index, turn, n)
    BY <1>4, <2>1, <2>2, <2>3
  <2>6. Covers(off, cnt, index, n) /\ Paths(L, index)[cnt[n]][off[n]] = UpTurns(t, turns, k)
    BY <1>6, <2>1 DEF LeadsUp
  <2>7. /\ Covers(off, cnt, index, turn.n)
        /\ Paths(L, index)[cnt[turn.n]][off[turn.n]]
              = Append(Paths(L, index)[cnt[n]][off[n]], Step(t, turn))
        /\ heap[turn.n].hash = Join(heap[n].hash, Step(t, turn))
    <3>1. StepsUp(t, heap, S, off, cnt, L, index, turn, n)
      BY <2>3, <2>4, <2>5, <2>6, TurnIsStep
    <3> QED
      BY <3>1 DEF StepsUp
  <2>8. Passing(a, j) = turn.n
    BY <1>3, <2>2, <2>3 DEF Passing
  <2>9. UpTurns(t, turns, k + 1) = Append(UpTurns(t, turns, k), Step(t, turn))
    BY <2>1, UpTurnsGrow
  <2>10. LeadsUp(t, off, cnt, S, L, index, turns, a, j)
    BY <2>1, <2>3, <2>6, <2>7, <2>8, <2>9 DEF LeadsUp
  <2> QED
    BY <2>1, <2>7, <2>10
<1>7. ASSUME NEW k \in Nat, k \in T PROVE k + 1 \in T
  <2>1. SUFFICES ASSUME k + 1 <= m PROVE LeadsUp(t, off, cnt, S, L, index, turns, a, k + 1)
    OBVIOUS
  <2>2. k <= m
    BY <1>2, <2>1
  <2> QED
    BY <1>6, <1>7, <2>1, <2>2
<1> HIDE DEF T
<1>8. Nat \subseteq T
  BY <1>5, <1>7, SetInduction
<1>9. \A k \in Nat : k <= m => LeadsUp(t, off, cnt, S, L, index, turns, a, k)
  BY <1>8 DEF T
<1>10. Elements(t, turns) = UpTurns(t, turns, m)
  <2>1. DOMAIN turns = 1 .. m
    BY <1>1, <1>2
  <2> QED
    BY <2>1 DEF Elements, UpTurns
<1>11. UpTurns(t, turns, m) = AuditPath(L, index)
  <2>1. LeadsUp(t, off, cnt, S, L, index, turns, a, m)
    BY <1>2, <1>9
  <2>2. Paths(L, index)[cnt[top]][off[top]] = UpTurns(t, turns, m)
    BY <1>4, <2>1 DEF LeadsUp
  <2>3. cnt[top] = Len(L) /\ off[top] = 0
    BY DEF Good, Fits
  <2> QED
    BY <2>2, <2>3, PathsAre
<1>12. ASSUME NEW k \in 1 .. m PROVE heap[turns[k].n].hash = Join(heap[Passing(a, k - 1)].hash, Step(t, turns[k]))
  <2>1. PICK j : j = k - 1
    OBVIOUS
  <2>2. j \in Nat /\ j + 1 = k /\ j + 1 <= m /\ j <= m
    BY <1>2, <2>1
  <2>3. LeadsUp(t, off, cnt, S, L, index, turns, a, j)
    BY <1>9, <2>2
  <2>4. heap[turns[j + 1].n].hash = Join(heap[Passing(a, j)].hash, Step(t, turns[j + 1]))
    BY <1>6, <2>2, <2>3
  <2> QED
    BY <2>1, <2>2, <2>4
<1>13. \A k \in 0 .. m : LeadsUp(t, off, cnt, S, L, index, turns, a, k)
  BY <1>2, <1>9
<1> QED
  BY <1>1, <1>10, <1>11, <1>12, <1>13 DEF ClimbsTo

(* The hash of a path from a leaf: the values of PathRoot's loop.          *)
Roots(leaf, e, m, result) ==
  result = [k \in 0 .. m |-> IF k = 0 THEN leaf ELSE Join(result[k - 1], e[k])]

LEMMA RootsExist ==
  ASSUME NEW leaf, NEW e, NEW m \in Nat
  PROVE  \E result : Roots(leaf, e, m, result)
<1> DEFINE Is(f, k) == f = [j \in 0 .. k |-> IF j = 0 THEN leaf ELSE Join(f[j - 1], e[j])]
           T == {k \in Nat : \E f : Is(f, k)}
<1>1. 0 \in T
  <2> DEFINE f == [j \in 0 .. 0 |-> leaf]
  <2>1. f = [j \in 0 .. 0 |-> IF j = 0 THEN leaf ELSE Join(f[j - 1], e[j])]
    OBVIOUS
  <2> HIDE DEF f
  <2> QED
    BY <2>1
<1>2. ASSUME NEW k \in Nat, k \in T PROVE k + 1 \in T
  <2>1. PICK f : Is(f, k)
    BY <1>2
  <2> DEFINE g == [j \in 0 .. k + 1 |-> IF j = k + 1 THEN Join(f[k], e[j]) ELSE f[j]]
  <2>2. \A j \in 0 .. k : f[j] = IF j = 0 THEN leaf ELSE Join(f[j - 1], e[j])
    BY <2>1
  <2>3. g[k + 1] = Join(f[k], e[k + 1]) /\ \A j \in 0 .. k : g[j] = f[j]
    OBVIOUS
  <2>4. ASSUME NEW j \in 0 .. k + 1 PROVE g[j] = IF j = 0 THEN leaf ELSE Join(g[j - 1], e[j])
    <3> HIDE DEF g
    <3>1. CASE j = k + 1
      <4>1. j # 0 /\ j - 1 = k /\ k \in 0 .. k
        BY <3>1
      <4> QED
        BY <2>3, <3>1, <4>1
    <3>2. CASE j # k + 1
      <4>1. j \in 0 .. k /\ (j # 0 => j - 1 \in 0 .. k)
        BY <3>2
      <4> QED
        BY <2>2, <2>3, <4>1
    <3> QED
      BY <3>1, <3>2
  <2>5. g = [j \in 0 .. k + 1 |-> g[j]]
    OBVIOUS
  <2> HIDE DEF g
  <2>6. Is(g, k + 1)
    BY <2>4, <2>5
  <2> QED
    BY <2>6
<1> HIDE DEF T
<1>3. Nat \subseteq T
  BY <1>1, <1>2, SetInduction
<1> QED
  BY <1>3 DEF T, Roots

LEMMA PathRootIs ==
  ASSUME NEW p, NEW m \in Nat, Len(p.elements) = m
  PROVE  \E result : /\ result[0] = p.leaf /\ PathRoot(p) = result[m]
                     /\ \A k \in 1 .. m : result[k] = Join(result[k - 1], p.elements[k])
<1> DEFINE result == CHOOSE f : Roots(p.leaf, p.elements, Len(p.elements), f)
<1>1. PathRoot(p) = result[m]
  BY DEF PathRoot, Roots
<1>2. \E f : Roots(p.leaf, p.elements, Len(p.elements), f)
  BY RootsExist
<1>3. Roots(p.leaf, p.elements, Len(p.elements), result)
  BY <1>2
<1> HIDE DEF result
<1>4. result = [k \in 0 .. m |-> IF k = 0 THEN p.leaf ELSE Join(result[k - 1], p.elements[k])]
  BY <1>3 DEF Roots
<1> QED
  BY <1>1, <1>4

(* The loop that keeps the right turns.                                    *)
Keeping(s, m, f) ==
  f = [k \in 0 .. m |-> IF k = 0 THEN <<>> ELSE IF s[k].right THEN Append(f[k - 1], s[k]) ELSE f[k - 1]]

LEMMA KeepingExist ==
  ASSUME NEW s, NEW m \in Nat
  PROVE  \E f : Keeping(s, m, f)
<1> DEFINE Go(f, k) == IF s[k].right THEN Append(f[k - 1], s[k]) ELSE f[k - 1]
           T == {k \in Nat : \E f : Keeping(s, k, f)}
<1>1. 0 \in T
  <2> DEFINE f == [k \in 0 .. 0 |-> <<>>]
  <2>1. f = [k \in 0 .. 0 |-> IF k = 0 THEN <<>> ELSE Go(f, k)]
    OBVIOUS
  <2> HIDE DEF f
  <2>2. Keeping(s, 0, f)
    BY <2>1 DEF Keeping
  <2> QED
    BY <2>2
<1>2. ASSUME NEW k \in Nat, k \in T PROVE k + 1 \in T
  <2>1. PICK f : Keeping(s, k, f)
    BY <1>2
  <2> DEFINE g == [j \in 0 .. k + 1 |-> IF j = k + 1 THEN Go(f, j) ELSE f[j]]
  <2>2. \A j \in 0 .. k : f[j] = IF j = 0 THEN <<>> ELSE Go(f, j)
    BY <2>1 DEF Keeping
  <2>3. ASSUME NEW j \in 0 .. k + 1, j # 0 PROVE Go(g, j) = Go(f, j)
    <3>1. g[j - 1] = f[j - 1]
      BY <2>3
    <3> HIDE DEF g
    <3> QED
      BY <3>1
  <2>4. g[k + 1] = Go(f, k + 1) /\ \A j \in 0 .. k : g[j] = f[j]
    OBVIOUS
  <2>5. g = [j \in 0 .. k + 1 |-> g[j]]
    OBVIOUS
  <2> HIDE DEF g, Go
  <2>6. ASSUME NEW j \in 0 .. k + 1 PROVE g[j] = IF j = 0 THEN <<>> ELSE Go(g, j)
    <3>1. CASE j = k + 1
      BY <2>3, <2>4, <3>1
    <3>2. CASE j # k + 1
      <4>1. j \in 0 .. k
        BY <3>2
      <4> QED
        BY <2>2, <2>3, <2>4, <4>1
    <3> QED
      BY <3>1, <3>2
  <2>7. g = [j \in 0 .. k + 1 |-> IF j = 0 THEN <<>> ELSE Go(g, j)]
    BY <2>5, <2>6
  <2>8. Keeping(s, k + 1, g)
    BY <2>7 DEF Keeping, Go
  <2> QED
    BY <2>8
<1> HIDE DEF T
<1>3. Nat \subseteq T
  BY <1>1, <1>2, SetInduction
<1> QED
  BY <1>3 DEF T

LEMMA RightTurnsIs ==
  ASSUME NEW s, Len(s) \in Nat
  PROVE  \E f : Keeping(s, Len(s), f) /\ RightTurns(s) = f[Len(s)]
<1> DEFINE f == CHOOSE g : Keeping(s, Len(s), g)
<1>1. RightTurns(s) = f[Len(s)]
  BY DEF RightTurns, Keeping
<1>2. \E g : Keeping(s, Len(s), g)
  BY KeepingExist
<1>3. Keeping(s, Len(s), f)
  BY <1>2
<1> HIDE DEF f
<1> QED
  BY <1>1, <1>3

LEMMA RightTurnsNone ==
  RightTurns(<<>>) = <<>>
<1>1. PICK e : e = <<>>
  OBVIOUS
<1>2. Len(e) = 0
  BY <1>1
<1>3. PICK z : Keeping(e, 0, z) /\ RightTurns(e) = z[0]
  BY <1>2, RightTurnsIs
<1>4. z[0] = <<>>
  BY <1>3 DEF Keeping
<1> QED
  BY <1>1, <1>3, <1>4

LEMMA RightTurnsMore ==
  ASSUME NEW T, NEW s \in Seq(T), NEW x \in T
  PROVE  RightTurns(Append(s, x)) = IF x.right THEN Append(RightTurns(s), x) ELSE RightTurns(s)
<1> DEFINE Go(f, e, k) == IF e[k].right THEN Append(f[k - 1], e[k]) ELSE f[k - 1]
<1>1. PICK m, u : m = Len(s) /\ u = Append(s, x)
  OBVIOUS
<1>2. m \in Nat /\ Len(u) = m + 1 /\ u[m + 1] = x /\ \A k \in 1 .. m : u[k] = s[k]
  BY <1>1
<1>3. PICK f : Keeping(s, m, f) /\ RightTurns(s) = f[m]
  BY <1>1, <1>2, RightTurnsIs
<1>4. PICK g : Keeping(u, m + 1, g) /\ RightTurns(u) = g[m + 1]
  <2>1. Len(u) \in Nat
    BY <1>2
  <2> QED
    BY <1>2, <2>1, RightTurnsIs
<1>5. \A k \in 0 .. m : f[k] = IF k = 0 THEN <<>> ELSE Go(f, s, k)
  BY <1>2, <1>3 DEF Keeping
<1>6. \A k \in 0 .. m + 1 : g[k] = IF k = 0 THEN <<>> ELSE Go(g, u, k)
  BY <1>2, <1>4 DEF Keeping
<1>7. ASSUME NEW k \in 1 .. m, f[k - 1] = g[k - 1] PROVE Go(f, s, k) = Go(g, u, k)
  BY <1>2, <1>7
<1>8. Go(g, u, m + 1) = IF x.right THEN Append(g[m], x) ELSE g[m]
  <2>1. (m + 1) - 1 = m
    BY <1>2
  <2> QED
    BY <1>2, <2>1
<1> HIDE DEF Go
<1> DEFINE U == {k \in Nat : k <= m => f[k] = g[k]}
<1>9. 0 \in U
  BY <1>2, <1>5, <1>6
<1>10. ASSUME NEW k \in Nat, k \in U PROVE k + 1 \in U
  <2>1. SUFFICES ASSUME k + 1 <= m PROVE f[k + 1] = g[k + 1]
    OBVIOUS
  <2>2. PICK j : j = k + 1
    OBVIOUS
  <2>3. j \in 1 .. m /\ j \in 0 .. m /\ j \in 0 .. m + 1 /\ j # 0 /\ j - 1 = k /\ k <= m
    BY <1>2, <2>1, <2>2
  <2>4. f[j - 1] = g[j - 1]
    BY <1>10, <2>3
  <2> QED
    BY <1>5, <1>6, <1>7, <2>2, <2>3, <2>4
<1> HIDE DEF U
<1>11. Nat \subseteq U
  BY <1>9, <1>10, SetInduction
<1>12. f[m] = g[m]
  BY <1>2, <1>11 DEF U
<1>13. g[m + 1] = IF x.right THEN Append(f[m], x) ELSE f[m]
  <2>1. m + 1 \in 0 .. m + 1 /\ m + 1 # 0
    BY <1>2
  <2> QED
    BY <1>6, <1>8, <1>12, <2>1
<1> QED
  BY <1>1, <1>3, <1>4, <1>13

(* The loop that joins the hashes on the left.                             *)
Joining(t, h, s, m, f) ==
  f = [k \in 0 .. m |-> IF k = 0 THEN h ELSE HashFunction(LeftHash(t, s[k]), f[k - 1])]

LEMMA JoiningExist ==
  ASSUME NEW t, NEW h, NEW s, NEW m \in Nat
  PROVE  \E f : Joining(t, h, s, m, f)
<1> DEFINE Go(f, k) == HashFunction(LeftHash(t, s[k]), f[k - 1])
           T == {k \in Nat : \E f : Joining(t, h, s, k, f)}
<1>1. 0 \in T
  <2> DEFINE f == [k \in 0 .. 0 |-> h]
  <2>1. f = [k \in 0 .. 0 |-> IF k = 0 THEN h ELSE Go(f, k)]
    OBVIOUS
  <2> HIDE DEF f
  <2>2. Joining(t, h, s, 0, f)
    BY <2>1 DEF Joining
  <2> QED
    BY <2>2
<1>2. ASSUME NEW k \in Nat, k \in T PROVE k + 1 \in T
  <2>1. PICK f : Joining(t, h, s, k, f)
    BY <1>2
  <2> DEFINE g == [j \in 0 .. k + 1 |-> IF j = k + 1 THEN Go(f, j) ELSE f[j]]
  <2>2. \A j \in 0 .. k : f[j] = IF j = 0 THEN h ELSE Go(f, j)
    BY <2>1 DEF Joining
  <2>3. ASSUME NEW j \in 0 .. k + 1, j # 0 PROVE Go(g, j) = Go(f, j)
    <3>1. g[j - 1] = f[j - 1]
      BY <2>3
    <3> HIDE DEF g
    <3> QED
      BY <3>1
  <2>4. g[k + 1] = Go(f, k + 1) /\ \A j \in 0 .. k : g[j] = f[j]
    OBVIOUS
  <2>5. g = [j \in 0 .. k + 1 |-> g[j]]
    OBVIOUS
  <2> HIDE DEF g, Go
  <2>6. ASSUME NEW j \in 0 .. k + 1 PROVE g[j] = IF j = 0 THEN h ELSE Go(g, j)
    <3>1. CASE j = k + 1
      BY <2>3, <2>4, <3>1
    <3>2. CASE j # k + 1
      <4>1. j \in 0 .. k
        BY <3>2
      <4> QED
        BY <2>2, <2>3, <2>4, <4>1
    <3> QED
      BY <3>1, <3>2
  <2>7. g = [j \in 0 .. k + 1 |-> IF j = 0 THEN h ELSE Go(g, j)]
    BY <2>5, <2>6
  <2>8. Joining(t, h, s, k + 1, g)
    BY <2>7 DEF Joining, Go
  <2> QED
    BY <2>8
<1> HIDE DEF T
<1>3. Nat \subseteq T
  BY <1>1, <1>2, SetInduction
<1> QED
  BY <1>3 DEF T

LEMMA JoinLeftsIs ==
  ASSUME NEW t, NEW h, NEW s, Len(s) \in Nat
  PROVE  \E f : Joining(t, h, s, Len(s), f) /\ JoinLefts(t, h, s) = f[Len(s)]
<1> DEFINE f == CHOOSE g : Joining(t, h, s, Len(s), g)
<1>1. JoinLefts(t, h, s) = f[Len(s)]
  BY DEF JoinLefts, Joining
<1>2. \E g : Joining(t, h, s, Len(s), g)
  BY JoiningExist
<1>3. Joining(t, h, s, Len(s), f)
  BY <1>2
<1> HIDE DEF f
<1> QED
  BY <1>1, <1>3

LEMMA JoinLeftsNone ==
  ASSUME NEW t, NEW h
  PROVE  JoinLefts(t, h, <<>>) = h
<1>1. PICK e : e = <<>>
  OBVIOUS
<1>2. Len(e) = 0
  BY <1>1
<1>3. PICK z : Joining(t, h, e, 0, z) /\ JoinLefts(t, h, e) = z[0]
  BY <1>2, JoinLeftsIs
<1>4. z[0] = h
  BY <1>3 DEF Joining
<1> QED
  BY <1>1, <1>3, <1>4

LEMMA JoinLeftsMore ==
  ASSUME NEW t, NEW h, NEW T, NEW s \in Seq(T), NEW x \in T
  PROVE  JoinLefts(t, h, Append(s, x)) = HashFunction(LeftHash(t, x), JoinLefts(t, h, s))
<1> DEFINE Go(f, e, k) == HashFunction(LeftHash(t, e[k]), f[k - 1])
<1>1. PICK m, u : m = Len(s) /\ u = Append(s, x)
  OBVIOUS
<1>2. m \in Nat /\ Len(u) = m + 1 /\ u[m + 1] = x /\ \A k \in 1 .. m : u[k] = s[k]
  BY <1>1
<1>3. PICK f : Joining(t, h, s, m, f) /\ JoinLefts(t, h, s) = f[m]
  BY <1>1, <1>2, JoinLeftsIs
<1>4. PICK g : Joining(t, h, u, m + 1, g) /\ JoinLefts(t, h, u) = g[m + 1]
  <2>1. Len(u) \in Nat
    BY <1>2
  <2> QED
    BY <1>2, <2>1, JoinLeftsIs
<1>5. \A k \in 0 .. m : f[k] = IF k = 0 THEN h ELSE Go(f, s, k)
  BY <1>2, <1>3 DEF Joining
<1>6. \A k \in 0 .. m + 1 : g[k] = IF k = 0 THEN h ELSE Go(g, u, k)
  BY <1>2, <1>4 DEF Joining
<1>7. ASSUME NEW k \in 1 .. m, f[k - 1] = g[k - 1] PROVE Go(f, s, k) = Go(g, u, k)
  BY <1>2, <1>7
<1>8. Go(g, u, m + 1) = HashFunction(LeftHash(t, x), g[m])
  <2>1. (m + 1) - 1 = m
    BY <1>2
  <2> QED
    BY <1>2, <2>1
<1> HIDE DEF Go
<1> DEFINE U == {k \in Nat : k <= m => f[k] = g[k]}
<1>9. 0 \in U
  BY <1>2, <1>5, <1>6
<1>10. ASSUME NEW k \in Nat, k \in U PROVE k + 1 \in U
  <2>1. SUFFICES ASSUME k + 1 <= m PROVE f[k + 1] = g[k + 1]
    OBVIOUS
  <2>2. PICK j : j = k + 1
    OBVIOUS
  <2>3. j \in 1 .. m /\ j \in 0 .. m /\ j \in 0 .. m + 1 /\ j # 0 /\ j - 1 = k /\ k <= m
    BY <1>2, <2>1, <2>2
  <2>4. f[j - 1] = g[j - 1]
    BY <1>10, <2>3
  <2> QED
    BY <1>5, <1>6, <1>7, <2>2, <2>3, <2>4
<1> HIDE DEF U
<1>11. Nat \subseteq U
  BY <1>9, <1>10, SetInduction
<1>12. f[m] = g[m]
  BY <1>2, <1>11 DEF U
<1>13. g[m + 1] = HashFunction(LeftHash(t, x), f[m])
  <2>1. m + 1 \in 0 .. m + 1 /\ m + 1 # 0
    BY <1>2
  <2> QED
    BY <1>6, <1>8, <1>12, <2>1
<1> QED
  BY <1>1, <1>3, <1>4, <1>13

(* The audit path inside leaves that two lists share does not depend on    *)
(* the list.                                                               *)
LEMMA PathsOfShared ==
  ASSUME NEW l, NEW k, NEW i, NEW m \in Nat, Len(l) \in Nat, Len(k) \in Nat,
         m <= Len(l), m <= Len(k), \A j \in 1 .. m : l[j] = k[j]
  PROVE  \A c \in 1 .. m : \A o \in 0 .. m - c : Paths(l, i)[c][o] = Paths(k, i)[c][o]
<1> DEFINE P == Paths(l, i)
           Q == Paths(k, i)
           Same(c) == \A o \in Nat : c >= 1 /\ o + c <= m => P[c][o] = Q[c][o]
           T == {c \in Nat : Same(c)}
<1>1. ASSUME NEW c \in Nat, \A d \in Nat : d < c => d \in T PROVE c \in T
  <2>1. SUFFICES ASSUME NEW o \in Nat, c >= 1, o + c <= m PROVE P[c][o] = Q[c][o]
    OBVIOUS
  <2>2. CASE c = 1
    <3>1. o < Len(l) /\ o < Len(k)
      BY <2>1, <2>2
    <3>2. Paths(l, i)[1][o] = <<>> /\ Paths(k, i)[1][o] = <<>>
      BY <3>1, PathOfLeaf
    <3> QED
      BY <2>2, <3>2
  <2>3. CASE c # 1
    <3>1. PICK a \in Powers : \E b \in Nat \ {0} : b <= a /\ c = a + b
      BY <2>1, <2>3, EverySplit
    <3>2. PICK b \in Nat \ {0} : b <= a /\ c = a + b
      BY <3>1
    <3>3. a \in Nat \ {0} /\ b <= a
      BY <3>2, PowersNat
    <3>4. a < c /\ b < c /\ a >= 1 /\ b >= 1 /\ o + a <= m /\ (o + a) + b <= m /\ o + a \in Nat
      BY <2>1, <3>2, <3>3
    <3>5. Same(a) /\ Same(b)
      BY <1>1, <3>3, <3>4
    <3>6. P[a][o] = Q[a][o] /\ P[b][o + a] = Q[b][o + a]
      BY <3>4, <3>5
    <3>7. PICK x, y : x = Element(SubtreeHash(l)[b][o + a], PATH_RIGHT)
                      /\ y = Element(SubtreeHash(l)[a][o], PATH_LEFT)
      OBVIOUS
    <3>8. SubtreeHash(l)[b][o + a] = SubtreeHash(k)[b][o + a] /\ SubtreeHash(l)[a][o] = SubtreeHash(k)[a][o]
      <4>1. \A e \in 1 .. m : \A z \in 0 .. m - e : SubtreeHash(l)[e][z] = SubtreeHash(k)[e][z]
        BY HashOfShared
      <4>2. a \in 1 .. m /\ o \in 0 .. m - a /\ b \in 1 .. m /\ o + a \in 0 .. m - b
        BY <3>3, <3>4
      <4> QED
        BY <4>1, <4>2
    <3>9. o + a + b <= Len(l) /\ o + a + b <= Len(k)
      BY <3>3, <3>4
    <3>10. PathGoesOn(l, i, a, b, o) /\ PathGoesOn(k, i, a, b, o)
      BY <3>3, <3>4, <3>9, PathOfInner
    <3>11. Paths(l, i)[a + b][o] = IF i < o + a THEN Append(Paths(l, i)[a][o], x)
                                                ELSE Append(Paths(l, i)[b][o + a], y)
      BY <3>7, <3>10 DEF PathGoesOn
    <3>12. Paths(k, i)[a + b][o] = IF i < o + a THEN Append(Paths(k, i)[a][o], x)
                                                ELSE Append(Paths(k, i)[b][o + a], y)
      <4>1. x = Element(SubtreeHash(k)[b][o + a], PATH_RIGHT) /\ y = Element(SubtreeHash(k)[a][o], PATH_LEFT)
        BY <3>7, <3>8
      <4> QED
        BY <3>10, <4>1 DEF PathGoesOn
    <3> QED
      BY <3>2, <3>6, <3>11, <3>12
  <2> QED
    BY <2>2, <2>3
<1> HIDE DEF T
<1>2. Nat \subseteq T
  BY <1>1, SetStrongInduction
<1>3. ASSUME NEW c \in 1 .. m, NEW o \in 0 .. m - c PROVE P[c][o] = Q[c][o]
  <2>1. c \in Nat /\ c >= 1 /\ o \in Nat /\ o + c <= m
    OBVIOUS
  <2>2. Same(c)
    BY <1>2, <2>1 DEF T
  <2> QED
    BY <2>1, <2>2
<1> QED
  BY <1>3

(* How many of the leaves under n there were when as_of was the last one,  *)
(* the hash of the tree over them, and the path to i inside it.            *)
Then(off, as_of, n) == as_of + 1 - off[n]

HashThen(off, d, as_of, n) == SubtreeHash(d)[Then(off, as_of, n)][off[n]]
PathThen(off, d, as_of, i, n) == Paths(d, i)[Then(off, as_of, n)][off[n]]

(* What one turn of the walk to as_of adds, in the tree over the leaves d  *)
(* that there were: the hash on the left of a right turn, or nothing.      *)
PastStep(t, off, d, as_of, turn, n) ==
  IF turn.right
  THEN /\ HashThen(off, d, as_of, turn.n)
            = HashFunction(LeftHash(t, turn), HashThen(off, d, as_of, n))
       /\ \A i \in Nat : off[n] <= i =>
            PathThen(off, d, as_of, i, turn.n)
              = Append(PathThen(off, d, as_of, i, n), Step(t, turn))
  ELSE off[turn.n] = off[n]

(* A subtree of the tree over d that d ends in: its left part is full, so  *)
(* it is the same in the longer list.                                      *)
EndsIn(l, d, a, e, o) ==
  /\ SubtreeHash(d)[a + e][o] = HashFunction(SubtreeHash(l)[a][o], SubtreeHash(d)[e][o + a])
  /\ \A i \in Nat : o + a <= i =>
       Paths(d, i)[a + e][o] = Append(Paths(d, i)[e][o + a], Element(SubtreeHash(l)[a][o], PATH_LEFT))

LEMMA PastJoin ==
  ASSUME NEW l, NEW d, Len(l) \in Nat, Len(d) \in Nat, Len(d) <= Len(l),
         \A j \in 1 .. Len(d) : l[j] = d[j],
         NEW a \in Powers, NEW e \in Nat \ {0}, e <= a, NEW o \in Nat, o + a + e <= Len(d)
  PROVE  EndsIn(l, d, a, e, o)
<1>1. a \in Nat \ {0}
  BY PowersNat
<1>2. SubtreeHash(d)[a + e][o] = HashFunction(SubtreeHash(d)[a][o], SubtreeHash(d)[e][o + a])
  BY <1>1, HashOfInner
<1>3. SubtreeHash(l)[a][o] = SubtreeHash(d)[a][o]
  <2>1. \A c \in 1 .. Len(d) : \A x \in 0 .. Len(d) - c : SubtreeHash(l)[c][x] = SubtreeHash(d)[c][x]
    BY HashOfShared
  <2>2. a \in 1 .. Len(d) /\ o \in 0 .. Len(d) - a
    BY <1>1
  <2> QED
    BY <2>1, <2>2
<1>4. ASSUME NEW i \in Nat, o + a <= i
      PROVE  Paths(d, i)[a + e][o] = Append(Paths(d, i)[e][o + a], Element(SubtreeHash(d)[a][o], PATH_LEFT))
  <2>1. PathGoesOn(d, i, a, e, o)
    BY PathOfInner
  <2>2. ~(i < o + a)
    BY <1>1, <1>4
  <2> QED
    BY <2>1, <2>2 DEF PathGoesOn
<1> QED
  BY <1>2, <1>3, <1>4 DEF EndsIn

(* The leaves up to as_of.                                                 *)
CutAt(L, d, as_of) == Len(d) = as_of + 1 /\ \A j \in 1 .. as_of + 1 : L[j] = d[j]

LEMMA PastTurn ==
  ASSUME NEW t, NEW heap, heap = t.heap, NEW S, NEW par, NEW off, NEW cnt, NEW top, NEW L, NEW nf,
         Good(heap, S, par, off, cnt, top, L, nf, {}), Len(L) \in Nat, \A x \in S : ~heap[x].dirty,
         NEW as_of \in Nat, as_of < Len(L),
         NEW d, CutAt(L, d, as_of),
         NEW turn, turn.n \in S, turn.right \in BOOLEAN,
         NEW n, TurnsTo(heap, off, as_of, turn, n), Covers(off, cnt, as_of, n)
  PROVE  PastStep(t, off, d, as_of, turn, n)
<1>1. /\ Heap(heap) /\ Linked(heap, S, par, top) /\ Spans(heap, S, off, cnt, Nil, nf)
      /\ S \subseteq Nat /\ Nil \notin S /\ HashesRight(heap, S, off, cnt, L)
  BY DEF Good, Linked, Heap, Nil
<1>2. PICK m, right, l, r : m = turn.n /\ right = turn.right /\ l = heap[m].left /\ r = heap[m].right
  OBVIOUS
<1>3. m \in S /\ right \in BOOLEAN /\ l # Nil /\ n = IF right THEN r ELSE l
  BY <1>2 DEF TurnsTo
<1>4. l \in S /\ r \in S
  BY <1>1, <1>2, <1>3 DEF Linked
<1>5. PICK a, b, o : a = cnt[l] /\ b = cnt[r] /\ o = off[m]
  OBVIOUS
<1>6. /\ a \in Powers /\ b \in Nat \ {0} /\ b <= a /\ o \in Nat
      /\ off[l] = o /\ off[r] = o + a
  BY <1>1, <1>2, <1>3, <1>4, <1>5 DEF Spans
<1>7. CASE ~right
  BY <1>2, <1>3, <1>5, <1>6, <1>7 DEF PastStep
<1>8. CASE right
  <2>1. a \in Nat \ {0}
    BY <1>6, PowersNat
  <2>2. n = r /\ o + a <= as_of /\ as_of < (o + a) + b
    BY <1>3, <1>5, <1>6, <1>8 DEF Covers
  <2>3. PICK e, g : e = as_of + 1 - (o + a) /\ g = as_of + 1 - o
    OBVIOUS
  <2>4. /\ e \in Nat \ {0} /\ e <= a /\ g = a + e /\ o + a + e = as_of + 1 /\ o + a + e <= Len(d)
        /\ Len(d) \in Nat /\ o <= as_of /\ o + a <= as_of
    <3>1. Len(d) = as_of + 1
      BY DEF CutAt
    <3> QED
      BY <1>6, <2>1, <2>2, <2>3, <3>1
  <2>5. PICK x : x = SubtreeHash(L)[a][o]
    OBVIOUS
  <2>6. /\ SubtreeHash(d)[a + e][o] = HashFunction(x, SubtreeHash(d)[e][o + a])
        /\ \A i \in Nat : o + a <= i =>
             Paths(d, i)[a + e][o] = Append(Paths(d, i)[e][o + a], Element(x, PATH_LEFT))
    <3>1. Len(d) \in Nat /\ Len(d) <= Len(L) /\ o + a + e <= Len(d)
      BY <2>4 DEF CutAt
    <3>2. \A j \in 1 .. Len(d) : L[j] = d[j]
      BY DEF CutAt
    <3>3. e \in Nat \ {0} /\ e <= a /\ a \in Powers /\ o \in Nat
      BY <1>6, <2>4
    <3>4. EndsIn(L, d, a, e, o)
      BY <3>1, <3>2, <3>3, PastJoin
    <3> QED
      BY <2>5, <3>4 DEF EndsIn
  <2>7. LeftHash(t, turn) = x
    <3>1. heap[l].hash = SubtreeHash(L)[a][o]
      BY <1>1, <1>4, <1>5, <1>6 DEF HashesRight
    <3> QED
      BY <1>2, <2>5, <3>1 DEF LeftHash
  <2>8. Step(t, turn) = Element(x, PATH_LEFT)
    BY <1>2, <1>8, <2>7 DEF Step
  <2>10. Then(off, as_of, m) = a + e /\ Then(off, as_of, n) = e /\ off[n] = o + a /\ off[m] = o
    BY <1>5, <1>6, <2>2, <2>3, <2>4 DEF Then
  <2>11. HashThen(off, d, as_of, m) = HashFunction(LeftHash(t, turn), HashThen(off, d, as_of, n))
    BY <2>6, <2>7, <2>10 DEF HashThen
  <2>12. \A i \in Nat : off[n] <= i =>
            PathThen(off, d, as_of, i, m) = Append(PathThen(off, d, as_of, i, n), Step(t, turn))
    BY <2>6, <2>8, <2>10 DEF PathThen
  <2> QED
    BY <1>2, <1>8, <2>11, <2>12 DEF PastStep
<1> QED
  BY <1>3, <1>7, <1>8

LEMMA SubSeqMore ==
  ASSUME NEW T, NEW s \in Seq(T), NEW m \in Nat \ {0}, NEW n \in Nat, m - 1 <= n, n < Len(s)
  PROVE  /\ SubSeq(s, m, n) \in Seq(T) /\ s[n + 1] \in T
         /\ SubSeq(s, m, n + 1) = Append(SubSeq(s, m, n), s[n + 1])
<1>1. PICK q, x, u : q = SubSeq(s, m, n) /\ x = s[n + 1] /\ u = SubSeq(s, m, n + 1)
  OBVIOUS
<1>2. x \in T
  BY <1>1
<1>3. q \in Seq(T) /\ Len(q) = n - m + 1 /\ \A k \in 1 .. Len(q) : q[k] = s[m + k - 1]
  <2>1. \A i \in m .. n : s[i] \in T
    OBVIOUS
  <2>2. /\ q \in Seq(T) /\ Len(q) = IF m <= n THEN n - m + 1 ELSE 0
        /\ \A k \in 1 .. n - m + 1 : q[k] = s[m + k - 1]
    BY <1>1, <2>1, SubSeqProperties
  <2>3. Len(q) = n - m + 1
    BY <2>2
  <2> QED
    BY <2>2, <2>3
<1>4. u \in Seq(T) /\ Len(u) = n - m + 2 /\ \A k \in 1 .. Len(u) : u[k] = s[m + k - 1]
  <2>1. PICK z : z = n + 1
    OBVIOUS
  <2>2. z \in Nat /\ m <= z /\ z - m + 1 = n - m + 2
    BY <2>1
  <2>3. \A i \in m .. z : s[i] \in T
    BY <2>1
  <2>4. /\ SubSeq(s, m, z) \in Seq(T) /\ Len(SubSeq(s, m, z)) = IF m <= z THEN z - m + 1 ELSE 0
        /\ \A k \in 1 .. z - m + 1 : SubSeq(s, m, z)[k] = s[m + k - 1]
    <3>1. m \in Int /\ z \in Int
      BY <2>2
    <3> QED
      BY <2>3, <3>1, SubSeqProperties
  <2>5. u = SubSeq(s, m, z)
    BY <1>1, <2>1
  <2>6. /\ u \in Seq(T) /\ Len(u) = IF m <= z THEN z - m + 1 ELSE 0
        /\ \A k \in 1 .. z - m + 1 : u[k] = s[m + k - 1]
    BY <2>4, <2>5
  <2>7. Len(u) = z - m + 1
    BY <2>2, <2>6
  <2> QED
    BY <2>2, <2>6, <2>7
<1>5. PICK v, k : v = Append(q, x) /\ k = Len(q)
  OBVIOUS
<1>6. /\ v \in Seq(T) /\ Len(v) = k + 1 /\ v[k + 1] = x /\ k \in Nat
      /\ \A j \in 1 .. k : v[j] = q[j]
  BY <1>2, <1>3, <1>5
<1>7. k = n - m + 1 /\ Len(u) = k + 1
  BY <1>3, <1>4, <1>5
<1>8. u[k + 1] = x
  <2>1. k + 1 \in 1 .. Len(u) /\ m + (k + 1) - 1 = n + 1
    BY <1>6, <1>7
  <2> QED
    BY <1>1, <1>4, <2>1
<1>9. ASSUME NEW j \in 1 .. k + 1 PROVE u[j] = v[j]
  <2>1. CASE j = k + 1
    BY <1>6, <1>8, <2>1
  <2>2. CASE j # k + 1
    <3>1. j \in 1 .. k /\ j \in 1 .. Len(u)
      BY <1>6, <1>7, <2>2
    <3>2. q[j] = s[m + j - 1] /\ u[j] = s[m + j - 1]
      BY <1>3, <1>4, <1>5, <3>1
    <3> QED
      BY <1>6, <3>1, <3>2
  <2> QED
    BY <2>1, <2>2
<1>10. u = v
  BY <1>4, <1>6, <1>7, <1>9, SameSeq
<1> QED
  BY <1>1, <1>2, <1>3, <1>5, <1>10

LEMMA RightTurnsType ==
  ASSUME NEW T, NEW s \in Seq(T)
  PROVE  RightTurns(s) \in Seq(T)
<1>1. PICK m : m = Len(s)
  OBVIOUS
<1>2. PICK f : Keeping(s, m, f) /\ RightTurns(s) = f[m]
  BY <1>1, RightTurnsIs
<1> DEFINE Go(k) == IF s[k].right THEN Append(f[k - 1], s[k]) ELSE f[k - 1]
<1>3. \A k \in 0 .. m : f[k] = IF k = 0 THEN <<>> ELSE Go(k)
  BY <1>2 DEF Keeping
<1> HIDE DEF Go
<1>4. m \in Nat /\ f[0] = <<>>
  BY <1>1, <1>3
<1> DEFINE U == {k \in Nat : k <= m => f[k] \in Seq(T)}
<1>5. 0 \in U
  <2>1. <<>> \in Seq(T)
    OBVIOUS
  <2> QED
    BY <1>4, <2>1
<1>6. ASSUME NEW k \in Nat, k \in U PROVE k + 1 \in U
  <2>1. SUFFICES ASSUME k + 1 <= m PROVE f[k + 1] \in Seq(T)
    OBVIOUS
  <2>2. PICK j, g : j = k + 1 /\ g = f[k]
    OBVIOUS
  <2>3. j \in 1 .. m /\ j \in 0 .. m /\ j - 1 = k /\ j # 0 /\ g \in Seq(T)
    BY <1>4, <1>6, <2>1, <2>2
  <2>4. PICK x : x = s[j]
    OBVIOUS
  <2>5. x \in T
    BY <1>1, <2>3, <2>4
  <2>6. f[j] = Go(j)
    BY <1>3, <2>3
  <2>7. f[j] = g \/ f[j] = Append(g, x)
    BY <2>2, <2>3, <2>4, <2>6 DEF Go
  <2>8. Append(g, x) \in Seq(T)
    BY <2>3, <2>5
  <2> QED
    BY <2>2, <2>3, <2>7, <2>8
<1> HIDE DEF U
<1>7. Nat \subseteq U
  BY <1>5, <1>6, SetInduction
<1> QED
  BY <1>1, <1>2, <1>4, <1>7 DEF U

Retraces(t, off, d, as_of, turns, leaf) ==
  \A k \in 1 .. Len(turns) :
    PastStep(t, off, d, as_of, turns[k], Passing([n |-> leaf, turns |-> turns], k - 1))

LEMMA RetracesIs ==
  ASSUME NEW t, NEW heap, heap = t.heap, NEW S, NEW par, NEW off, NEW cnt, NEW top, NEW L, NEW nf,
         Good(heap, S, par, off, cnt, top, L, nf, {}), Len(L) \in Nat, \A x \in S : ~heap[x].dirty,
         NEW as_of \in Nat, as_of < Len(L),
         NEW d, CutAt(L, d, as_of),
         NEW turns, NEW leaf, LeadTo(heap, S, off, cnt, as_of, top, turns, leaf)
  PROVE  Retraces(t, off, d, as_of, turns, leaf)
<1>1. PICK a, m : a = [n |-> leaf, turns |-> turns] /\ m = Len(turns)
  OBVIOUS
<1>2. \A k \in 0 .. m : LeadsUp(t, off, cnt, S, L, as_of, turns, a, k)
  <2>1. ClimbsTo(t, heap, S, off, cnt, L, as_of, turns, leaf)
    BY ElementsAre
  <2> QED
    BY <1>1, <2>1 DEF ClimbsTo
<1>3. /\ turns \in Seq(WalkTurn) /\ m \in Nat /\ (\A k \in 1 .. m : turns[k].n \in S)
      /\ \A k \in 1 .. m : TurnsTo(heap, off, as_of, turns[k], Passing(a, k - 1))
  <2>1. a.turns = turns
    BY <1>1
  <2> QED
    BY <1>1, <2>1 DEF LeadTo, Traced
<1>4. ASSUME NEW k \in 1 .. m PROVE PastStep(t, off, d, as_of, turns[k], Passing(a, k - 1))
  <2>1. PICK turn, n, j : turn = turns[k] /\ j = k - 1 /\ n = Passing(a, j)
    OBVIOUS
  <2>2. j \in 0 .. m
    BY <1>3, <2>1
  <2>3. Covers(off, cnt, as_of, n)
    BY <1>2, <2>1, <2>2 DEF LeadsUp
  <2>4. turn \in WalkTurn /\ turn.n \in S /\ TurnsTo(heap, off, as_of, turn, n)
    BY <1>1, <1>3, <2>1
  <2>5. turn.right \in BOOLEAN
    BY <2>4 DEF WalkTurn
  <2>6. PastStep(t, off, d, as_of, turn, n)
    BY <2>3, <2>4, <2>5, PastTurn
  <2> QED
    BY <2>1, <2>6
<1> QED
  BY <1>1, <1>4 DEF Retraces

(* The nodes passed, one more turn up.                                     *)
LEMMA PassingUp ==
  ASSUME NEW turns \in Seq(WalkTurn), NEW leaf, NEW a, a = [n |-> leaf, turns |-> turns]
  PROVE  /\ Passing(a, 0) = leaf
         /\ \A k \in 1 .. Len(turns) : Passing(a, k) = turns[k].n
<1>1. a.n = leaf /\ a.turns = turns
  OBVIOUS
<1>2. \A k \in 1 .. Len(turns) : k # 0
  OBVIOUS
<1> QED
  BY <1>1, <1>2 DEF Passing

(* What past_path() joins as_of's leaf with on the way up.                 *)
LEMMA JoinAlong ==
  ASSUME NEW t, NEW off, NEW d, NEW as_of, NEW turns \in Seq(WalkTurn), NEW leaf,
         Retraces(t, off, d, as_of, turns, leaf),
         NEW h, h = HashThen(off, d, as_of, leaf),
         NEW a, a = [n |-> leaf, turns |-> turns]
  PROVE  \A k \in 0 .. Len(turns) :
           JoinLefts(t, h, RightTurns(SubSeq(turns, 1, k))) = HashThen(off, d, as_of, Passing(a, k))
<1>1. PICK m : m = Len(turns)
  OBVIOUS
<1>2. m \in Nat /\ Passing(a, 0) = leaf /\ \A k \in 1 .. m : Passing(a, k) = turns[k].n
  BY <1>1, PassingUp
<1> DEFINE Is(k) == JoinLefts(t, h, RightTurns(SubSeq(turns, 1, k))) = HashThen(off, d, as_of, Passing(a, k))
           T == {k \in Nat : k <= m => Is(k)}
<1>3. 0 \in T
  <2>1. SubSeq(turns, 1, 0) = <<>>
    OBVIOUS
  <2>2. RightTurns(<<>>) = <<>>
    BY RightTurnsNone
  <2>3. JoinLefts(t, h, <<>>) = h
    BY JoinLeftsNone
  <2> QED
    BY <1>2, <2>1, <2>2, <2>3
<1>4. ASSUME NEW k \in Nat, k \in T PROVE k + 1 \in T
  <2>1. SUFFICES ASSUME k + 1 <= m PROVE Is(k + 1)
    OBVIOUS
  <2>2. PICK j, n, turn, q, p : j = k + 1 /\ n = Passing(a, k) /\ turn = turns[j]
                                /\ q = SubSeq(turns, 1, k) /\ p = RightTurns(q)
    OBVIOUS
  <2>3. j \in 1 .. m /\ j - 1 = k /\ k <= m /\ k < m
    BY <1>2, <2>1, <2>2
  <2>4. q \in Seq(WalkTurn) /\ turn \in WalkTurn /\ SubSeq(turns, 1, j) = Append(q, turn)
    <3>1. /\ SubSeq(turns, 1, k) \in Seq(WalkTurn) /\ turns[k + 1] \in WalkTurn
          /\ SubSeq(turns, 1, k + 1) = Append(SubSeq(turns, 1, k), turns[k + 1])
      BY <1>1, <2>3, SubSeqMore
    <3> QED
      BY <2>2, <3>1
  <2>5. p \in Seq(WalkTurn)
    BY <2>2, <2>4, RightTurnsType
  <2>6. RightTurns(Append(q, turn)) = IF turn.right THEN Append(p, turn) ELSE p
    BY <2>2, <2>4, RightTurnsMore
  <2>7. JoinLefts(t, h, Append(p, turn)) = HashFunction(LeftHash(t, turn), JoinLefts(t, h, p))
    BY <2>4, <2>5, JoinLeftsMore
  <2>8. JoinLefts(t, h, p) = HashThen(off, d, as_of, n)
    BY <1>4, <2>2, <2>3
  <2>9. PastStep(t, off, d, as_of, turn, n)
    <3>1. \A i \in 1 .. m : PastStep(t, off, d, as_of, turns[i], Passing(a, i - 1))
      BY <1>1 DEF Retraces
    <3> QED
      BY <2>2, <2>3, <3>1
  <2>10. Passing(a, j) = turn.n
    BY <1>2, <2>2, <2>3
  <2>11. CASE turn.right
    <3>1. HashThen(off, d, as_of, turn.n) = HashFunction(LeftHash(t, turn), HashThen(off, d, as_of, n))
      BY <2>9, <2>11 DEF PastStep
    <3> QED
      BY <2>2, <2>4, <2>6, <2>7, <2>8, <2>10, <2>11, <3>1
  <2>12. CASE ~turn.right
    <3>1. HashThen(off, d, as_of, turn.n) = HashThen(off, d, as_of, n)
      BY <2>9, <2>12 DEF PastStep, HashThen, Then
    <3> QED
      BY <2>2, <2>4, <2>6, <2>8, <2>10, <2>12, <3>1
  <2> QED
    BY <2>11, <2>12
<1> HIDE DEF T
<1>5. Nat \subseteq T
  BY <1>3, <1>4, SetInduction
<1> QED
  BY <1>1, <1>5 DEF T

(* The loop of past_root().                                                *)
PastRoots(leaf, e, m, f) ==
  f = [k \in 0 .. m |-> IF k = 0 THEN leaf
                        ELSE IF e[k].direction = PATH_LEFT THEN Join(f[k - 1], e[k]) ELSE f[k - 1]]

LEMMA PastRootsExist ==
  ASSUME NEW leaf, NEW e, NEW m \in Nat
  PROVE  \E f : PastRoots(leaf, e, m, f)
<1> DEFINE Go(f, k) == IF e[k].direction = PATH_LEFT THEN Join(f[k - 1], e[k]) ELSE f[k - 1]
           T == {k \in Nat : \E f : PastRoots(leaf, e, k, f)}
<1>1. 0 \in T
  <2> DEFINE f == [k \in 0 .. 0 |-> leaf]
  <2>1. f = [k \in 0 .. 0 |-> IF k = 0 THEN leaf ELSE Go(f, k)]
    OBVIOUS
  <2> HIDE DEF f
  <2>2. PastRoots(leaf, e, 0, f)
    BY <2>1 DEF PastRoots
  <2> QED
    BY <2>2
<1>2. ASSUME NEW k \in Nat, k \in T PROVE k + 1 \in T
  <2>1. PICK f : PastRoots(leaf, e, k, f)
    BY <1>2
  <2> DEFINE g == [j \in 0 .. k + 1 |-> IF j = k + 1 THEN Go(f, j) ELSE f[j]]
  <2>2. \A j \in 0 .. k : f[j] = IF j = 0 THEN leaf ELSE Go(f, j)
    BY <2>1 DEF PastRoots
  <2>3. ASSUME NEW j \in 0 .. k + 1, j # 0 PROVE Go(g, j) = Go(f, j)
    <3>1. g[j - 1] = f[j - 1]
      BY <2>3
    <3> HIDE DEF g
    <3> QED
      BY <3>1
  <2>4. g[k + 1] = Go(f, k + 1) /\ \A j \in 0 .. k : g[j] = f[j]
    OBVIOUS
  <2>5. g = [j \in 0 .. k + 1 |-> g[j]]
    OBVIOUS
  <2> HIDE DEF g, Go
  <2>6. ASSUME NEW j \in 0 .. k + 1 PROVE g[j] = IF j = 0 THEN leaf ELSE Go(g, j)
    <3>1. CASE j = k + 1
      BY <2>3, <2>4, <3>1
    <3>2. CASE j # k + 1
      <4>1. j \in 0 .. k
        BY <3>2
      <4> QED
        BY <2>2, <2>3, <2>4, <4>1
    <3> QED
      BY <3>1, <3>2
  <2>7. g = [j \in 0 .. k + 1 |-> IF j = 0 THEN leaf ELSE Go(g, j)]
    BY <2>5, <2>6
  <2>8. PastRoots(leaf, e, k + 1, g)
    BY <2>7 DEF PastRoots, Go
  <2> QED
    BY <2>8
<1> HIDE DEF T
<1>3. Nat \subseteq T
  BY <1>1, <1>2, SetInduction
<1> QED
  BY <1>3 DEF T

LEMMA PastRootOfIs ==
  ASSUME NEW p, Len(p.elements) \in Nat
  PROVE  \E f : PastRoots(p.leaf, p.elements, Len(p.elements), f) /\ PastRootOf(p) = f[Len(p.elements)]
<1> DEFINE f == CHOOSE g : PastRoots(p.leaf, p.elements, Len(p.elements), g)
<1>1. PastRootOf(p) = f[Len(p.elements)]
  BY DEF PastRootOf, PastRoots
<1>2. \E g : PastRoots(p.leaf, p.elements, Len(p.elements), g)
  BY PastRootsExist
<1>3. PastRoots(p.leaf, p.elements, Len(p.elements), f)
  BY <1>2
<1> HIDE DEF f
<1> QED
  BY <1>1, <1>3

(* past_root() climbs the tree over the leaves up to as_of.                *)
LEMMA PastRootAlong ==
  ASSUME NEW t, NEW off, NEW d, NEW as_of, NEW turns \in Seq(WalkTurn), NEW leaf,
         Retraces(t, off, d, as_of, turns, leaf),
         NEW p, p.elements = UpTurns(t, turns, Len(turns)), p.leaf = HashThen(off, d, as_of, leaf),
         NEW a, a = [n |-> leaf, turns |-> turns]
  PROVE  PastRootOf(p) = HashThen(off, d, as_of, Passing(a, Len(turns)))
<1>1. PICK m, e : m = Len(turns) /\ e = p.elements
  OBVIOUS
<1>2. m \in Nat /\ Passing(a, 0) = leaf /\ \A k \in 1 .. m : Passing(a, k) = turns[k].n
  BY <1>1, PassingUp
<1>3. e = [k \in 1 .. m |-> Step(t, turns[k])]
  BY <1>1 DEF UpTurns
<1>4. Len(e) = m /\ \A k \in 1 .. m : e[k] = Step(t, turns[k])
  BY <1>2, <1>3
<1>5. PICK f : PastRoots(p.leaf, e, m, f) /\ PastRootOf(p) = f[m]
  <2>1. Len(p.elements) = m /\ Len(p.elements) \in Nat
    BY <1>1, <1>2, <1>4
  <2> QED
    BY <1>1, <2>1, PastRootOfIs
<1> DEFINE Go(k) == IF e[k].direction = PATH_LEFT THEN Join(f[k - 1], e[k]) ELSE f[k - 1]
           T == {k \in Nat : k <= m => f[k] = HashThen(off, d, as_of, Passing(a, k))}
<1>6. f = [k \in 0 .. m |-> IF k = 0 THEN p.leaf ELSE Go(k)]
  BY <1>5 DEF PastRoots
<1> HIDE DEF Go
<1>7. f[0] = p.leaf /\ \A k \in 1 .. m : f[k] = Go(k)
  BY <1>2, <1>6
<1>8. 0 \in T
  BY <1>2, <1>7
<1>9. ASSUME NEW k \in Nat, k \in T PROVE k + 1 \in T
  <2>1. SUFFICES ASSUME k + 1 <= m PROVE f[k + 1] = HashThen(off, d, as_of, Passing(a, k + 1))
    OBVIOUS
  <2>2. PICK j, n, turn, x : j = k + 1 /\ n = Passing(a, k) /\ turn = turns[j] /\ x = Step(t, turn)
    OBVIOUS
  <2>3. j \in 1 .. m /\ j - 1 = k /\ k <= m
    BY <1>2, <2>1, <2>2
  <2>4. PastStep(t, off, d, as_of, turn, n)
    <3>1. \A i \in 1 .. m : PastStep(t, off, d, as_of, turns[i], Passing(a, i - 1))
      BY <1>1 DEF Retraces
    <3> QED
      BY <2>2, <2>3, <3>1
  <2>5. Passing(a, j) = turn.n
    BY <1>2, <2>2, <2>3
  <2>6. e[j] = x /\ f[k] = HashThen(off, d, as_of, n)
    BY <1>4, <1>9, <2>2, <2>3
  <2>7. f[j] = IF x.direction = PATH_LEFT THEN Join(f[k], x) ELSE f[k]
    BY <1>7, <2>3, <2>6 DEF Go
  <2>8. CASE turn.right
    <3>1. x = Element(LeftHash(t, turn), PATH_LEFT)
      BY <2>2, <2>8 DEF Step
    <3>2. x.direction = PATH_LEFT /\ Join(f[k], x) = HashFunction(LeftHash(t, turn), f[k])
      BY <3>1 DEF Element, Join
    <3>3. HashThen(off, d, as_of, turn.n) = HashFunction(LeftHash(t, turn), HashThen(off, d, as_of, n))
      BY <2>4, <2>8 DEF PastStep
    <3> QED
      BY <2>2, <2>5, <2>6, <2>7, <3>2, <3>3
  <2>9. CASE ~turn.right
    <3>1. x = Element(RightHash(t, turn), PATH_RIGHT)
      BY <2>2, <2>9 DEF Step
    <3>2. x.direction # PATH_LEFT
      BY <3>1 DEF Element, PATH_LEFT, PATH_RIGHT
    <3>3. HashThen(off, d, as_of, turn.n) = HashThen(off, d, as_of, n)
      BY <2>4, <2>9 DEF PastStep, HashThen, Then
    <3> QED
      BY <2>2, <2>5, <2>6, <2>7, <3>2, <3>3
  <2> QED
    BY <2>8, <2>9
<1> HIDE DEF T
<1>10. Nat \subseteq T
  BY <1>8, <1>9, SetInduction
<1> QED
  BY <1>1, <1>2, <1>5, <1>10 DEF T

(* The turns the two walks share, counted from the root.                   *)
SharesTurns(ti, ta, s) ==
  /\ s \in 0 .. Len(ti)
  /\ \A k \in 1 .. s : k <= Len(ta) => ti[Len(ti) - k + 1].right = ta[Len(ta) - k + 1].right
  /\ s # Len(ti) => s < Len(ta) /\ ti[Len(ti) - s].right # ta[Len(ta) - s].right

LEMMA SharedIs ==
  ASSUME NEW T, NEW ti \in Seq(T), NEW ta \in Seq(T)
  PROVE  SharesTurns(ti, ta, Shared(ti, ta))
<1>1. PICK mi, ma, di, da : mi = Len(ti) /\ ma = Len(ta) /\ di = Reverse(ti) /\ da = Reverse(ta)
  OBVIOUS
<1>2. mi \in Nat /\ ma \in Nat /\ DOMAIN ti = 1 .. mi /\ DOMAIN ta = 1 .. ma
  BY <1>1
<1>3. (\A k \in 1 .. mi : di[k] = ti[mi - k + 1]) /\ \A k \in 1 .. ma : da[k] = ta[ma - k + 1]
  BY <1>1 DEF Reverse
<1> DEFINE J == {j \in DOMAIN ti \cap DOMAIN ta : di[j].right # da[j].right}
           K == {k - 1 : k \in J} \cup {mi}
<1>4. PICK s : s = Min(K)
  OBVIOUS
<1>5. Shared(ti, ta) = s
  BY <1>1, <1>4 DEF Shared
<1>6. \A j : j \in J <=> j \in 1 .. mi /\ j \in 1 .. ma /\ di[j].right # da[j].right
  BY <1>2
<1>7. K \in SUBSET Nat /\ K # {} /\ \A k \in K : k <= mi
  BY <1>2, <1>6
<1>8. s \in K /\ \A k \in K : s <= k
  <2> HIDE DEF K
  <2> QED
    BY <1>4, <1>7, MinIs
<1>9. s \in 0 .. mi
  BY <1>2, <1>7, <1>8
<1>10. ASSUME NEW k \in 1 .. s, k <= ma PROVE ti[mi - k + 1].right = ta[ma - k + 1].right
  <2>1. k \in 1 .. mi /\ k \in 1 .. ma /\ k - 1 < s
    BY <1>2, <1>9, <1>10
  <2>2. k - 1 \notin K
    <3> HIDE DEF K
    <3>1. PICK x : x = k - 1
      OBVIOUS
    <3>2. x \in Nat /\ s \in Nat /\ ~(s <= x)
      BY <1>9, <2>1, <3>1
    <3> QED
      BY <1>8, <3>1, <3>2
  <2>3. k \notin J
    BY <2>2
  <2>4. di[k].right = da[k].right
    BY <1>6, <2>1, <2>3
  <2> QED
    BY <1>3, <2>1, <2>4
<1>11. ASSUME s # mi PROVE s < ma /\ ti[mi - s].right # ta[ma - s].right
  <2>1. PICK j \in J : s = j - 1
    BY <1>8, <1>11
  <2>2. j \in 1 .. mi /\ j \in 1 .. ma /\ di[j].right # da[j].right
    BY <1>6, <2>1
  <2>3. mi - j + 1 = mi - s /\ ma - j + 1 = ma - s /\ s < ma
    BY <1>2, <2>1, <2>2
  <2> QED
    BY <1>3, <2>2, <2>3
<1> QED
  BY <1>1, <1>5, <1>9, <1>10, <1>11 DEF SharesTurns

(* No turn is taken at a leaf.                                             *)
LEMMA TurnsInside ==
  ASSUME NEW heap, NEW S, NEW par, NEW off, NEW cnt, NEW top, NEW L, NEW nf,
         Good(heap, S, par, off, cnt, top, L, nf, {}),
         NEW n \in S, heap[n].left # Nil
  PROVE  cnt[n] # 1 /\ heap[n].right \in S /\ off[heap[n].right] \in Nat
<1>1. Linked(heap, S, par, top) /\ Spans(heap, S, off, cnt, Nil, nf) /\ Nil \notin S
  BY DEF Good, Linked, Heap, Nil
<1>2. PICK l, r : l = heap[n].left /\ r = heap[n].right
  OBVIOUS
<1>3. l \in S /\ r \in S
  BY <1>1, <1>2 DEF Linked
<1>4. cnt[l] \in Nat \ {0} /\ cnt[r] \in Nat \ {0} /\ cnt[n] = cnt[l] + cnt[r] /\ off[r] \in Nat
  BY <1>1, <1>2, <1>3 DEF Spans
<1>5. cnt[n] # 1
  <2>1. PICK a, b : a = cnt[l] /\ b = cnt[r]
    OBVIOUS
  <2>2. a \in Nat \ {0} /\ b \in Nat \ {0} /\ cnt[n] = a + b
    BY <1>4, <2>1
  <2> QED
    BY <2>2
<1> QED
  BY <1>2, <1>3, <1>4, <1>5

(* The walks to an index and to a later one: where they part, the first    *)
(* goes left and the second right.                                         *)
ForksAt(ti, ta, ai, aa, s, i, as_of) ==
  /\ s \in 0 .. Len(ti) /\ s <= Len(ta)
  /\ \A k \in 0 .. s : Passing(ai, Len(ti) - k) = Passing(aa, Len(ta) - k)
  /\ \A k \in 1 .. s : ti[Len(ti) - k + 1].right = ta[Len(ta) - k + 1].right
  /\ IF i = as_of THEN s = Len(ti) /\ s = Len(ta)
     ELSE s < Len(ti) /\ s < Len(ta) /\ ~ti[Len(ti) - s].right /\ ta[Len(ta) - s].right

LEMMA ForkIs ==
  ASSUME NEW heap, NEW S, NEW par, NEW off, NEW cnt, NEW top, NEW L, NEW nf,
         Good(heap, S, par, off, cnt, top, L, nf, {}),
         NEW i \in Nat, NEW as_of \in Nat, i <= as_of,
         NEW ti, NEW li, LeadTo(heap, S, off, cnt, i, top, ti, li),
         NEW ta, NEW la, LeadTo(heap, S, off, cnt, as_of, top, ta, la),
         NEW ai, ai = [n |-> li, turns |-> ti], NEW aa, aa = [n |-> la, turns |-> ta]
  PROVE  ForksAt(ti, ta, ai, aa, Shared(ti, ta), i, as_of)
<1>1. PICK mi, ma, s : mi = Len(ti) /\ ma = Len(ta) /\ s = Shared(ti, ta)
  OBVIOUS
<1>2. /\ ti \in Seq(WalkTurn) /\ mi \in Nat /\ li \in S /\ off[li] = i /\ cnt[li] = 1
      /\ ta \in Seq(WalkTurn) /\ ma \in Nat /\ la \in S /\ off[la] = as_of /\ cnt[la] = 1
      /\ (\A k \in 1 .. mi : ti[k].n \in S) /\ (\A k \in 1 .. ma : ta[k].n \in S)
  BY <1>1 DEF LeadTo
<1>3. /\ ai.turns = ti /\ aa.turns = ta
      /\ Passing(ai, 0) = li /\ (\A k \in 1 .. mi : Passing(ai, k) = ti[k].n)
      /\ Passing(aa, 0) = la /\ (\A k \in 1 .. ma : Passing(aa, k) = ta[k].n)
  <2>1. Passing(ai, 0) = li /\ (\A k \in 1 .. mi : Passing(ai, k) = ti[k].n)
    BY <1>1, <1>2, PassingUp
  <2>2. Passing(aa, 0) = la /\ (\A k \in 1 .. ma : Passing(aa, k) = ta[k].n)
    BY <1>1, <1>2, PassingUp
  <2> QED
    BY <2>1, <2>2
<1>4. /\ Passing(ai, mi) = top /\ (\A k \in 1 .. mi : TurnsTo(heap, off, i, ti[k], Passing(ai, k - 1)))
      /\ Passing(aa, ma) = top /\ (\A k \in 1 .. ma : TurnsTo(heap, off, as_of, ta[k], Passing(aa, k - 1)))
  <2>1. Traced(heap, off, i, top, ai) /\ Traced(heap, off, as_of, top, aa)
    BY DEF LeadTo
  <2> QED
    BY <1>1, <1>3, <2>1 DEF Traced
<1>5. /\ s \in 0 .. mi
      /\ \A k \in 1 .. s : k <= ma => ti[mi - k + 1].right = ta[ma - k + 1].right
      /\ s # mi => s < ma /\ ti[mi - s].right # ta[ma - s].right
  <2>1. SharesTurns(ti, ta, s)
    BY <1>1, <1>2, SharedIs
  <2> QED
    BY <1>1, <2>1 DEF SharesTurns
<1> DEFINE Same(k) == Passing(ai, mi - k) = Passing(aa, ma - k)
           T == {k \in Nat : k <= s /\ k <= ma => Same(k)}
<1>6. 0 \in T
  BY <1>2, <1>4
<1>7. ASSUME NEW k \in Nat, k \in T PROVE k + 1 \in T
  <2>1. SUFFICES ASSUME k + 1 <= s, k + 1 <= ma PROVE Same(k + 1)
    OBVIOUS
  <2>2. PICK x, y : x = mi - k /\ y = ma - k
    OBVIOUS
  <2>3. /\ x \in 1 .. mi /\ y \in 1 .. ma /\ x - 1 = mi - (k + 1) /\ y - 1 = ma - (k + 1)
        /\ k <= s /\ k <= ma /\ k + 1 \in 1 .. s /\ mi - (k + 1) + 1 = x /\ ma - (k + 1) + 1 = y
    BY <1>2, <1>5, <2>1, <2>2
  <2>4. ti[x].n = ta[y].n
    BY <1>3, <1>7, <2>2, <2>3
  <2>5. ti[x].right = ta[y].right
    BY <1>5, <2>1, <2>3
  <2>6. TurnsTo(heap, off, i, ti[x], Passing(ai, x - 1)) /\ TurnsTo(heap, off, as_of, ta[y], Passing(aa, y - 1))
    BY <1>4, <2>3
  <2>7. Passing(ai, x - 1) = Passing(aa, y - 1)
    BY <2>4, <2>5, <2>6 DEF TurnsTo
  <2> QED
    BY <2>3, <2>7
<1> HIDE DEF T
<1>8. Nat \subseteq T
  BY <1>6, <1>7, SetInduction
<1>9. \A k \in Nat : k <= s /\ k <= ma => Passing(ai, mi - k) = Passing(aa, ma - k)
  BY <1>8 DEF T
<1>10. /\ \A k \in 1 .. mi : cnt[ti[k].n] # 1
       /\ \A k \in 1 .. ma : cnt[ta[k].n] # 1
  <2>1. ASSUME NEW k \in 1 .. mi PROVE cnt[ti[k].n] # 1
    <3>1. ti[k].n \in S /\ heap[ti[k].n].left # Nil
      BY <1>2, <1>4 DEF TurnsTo
    <3> QED
      BY <3>1, TurnsInside
  <2>2. ASSUME NEW k \in 1 .. ma PROVE cnt[ta[k].n] # 1
    <3>1. ta[k].n \in S /\ heap[ta[k].n].left # Nil
      BY <1>2, <1>4 DEF TurnsTo
    <3> QED
      BY <3>1, TurnsInside
  <2> QED
    BY <2>1, <2>2
<1>11. s <= ma
  <2>1. SUFFICES ASSUME ma < s PROVE FALSE
    BY <1>2, <1>5
  <2>2. PICK x : x = mi - ma
    OBVIOUS
  <2>3. x \in 1 .. mi /\ ma <= s /\ ma - ma = 0
    BY <1>2, <1>5, <2>1, <2>2
  <2>4. Passing(ai, x) = la
    BY <1>2, <1>3, <1>9, <2>2, <2>3
  <2> QED
    BY <1>2, <1>3, <1>10, <2>3, <2>4
<1>12. s = mi => ma = mi /\ i = as_of
  <2>1. SUFFICES ASSUME s = mi PROVE ma = mi /\ i = as_of
    OBVIOUS
  <2>2. PICK y : y = ma - mi
    OBVIOUS
  <2>3. y \in Nat /\ mi - mi = 0 /\ mi <= s /\ mi <= ma /\ y <= ma
    BY <1>2, <1>11, <2>1, <2>2
  <2>4. li = Passing(aa, y)
    BY <1>2, <1>3, <1>9, <2>2, <2>3
  <2>5. y = 0
    <3>1. CASE y = 0
      BY <3>1
    <3>2. CASE y # 0
      <4>1. y \in 1 .. ma
        BY <1>2, <2>3, <3>2
      <4> QED
        BY <1>2, <1>3, <1>10, <2>4, <4>1
    <3> QED
      BY <3>1, <3>2
  <2>6. li = la
    BY <1>3, <2>4, <2>5
  <2> QED
    BY <1>2, <2>2, <2>5, <2>6
<1>13. s # mi => i # as_of /\ ~ti[mi - s].right /\ ta[ma - s].right
  <2>1. SUFFICES ASSUME s # mi PROVE i # as_of /\ ~ti[mi - s].right /\ ta[ma - s].right
    OBVIOUS
  <2>2. PICK x, y : x = mi - s /\ y = ma - s
    OBVIOUS
  <2>3. x \in 1 .. mi /\ y \in 1 .. ma /\ s \in Nat /\ s <= s
    BY <1>2, <1>5, <2>1, <2>2
  <2>4. PICK n, r : n = ti[x].n /\ r = heap[n].right
    OBVIOUS
  <2>5. ti[x].n = ta[y].n
    BY <1>3, <1>9, <1>11, <2>2, <2>3
  <2>6. n \in S /\ heap[n].left # Nil /\ ti[x].right = (off[r] <= i) /\ ta[y].right = (off[r] <= as_of)
    <3>1. TurnsTo(heap, off, i, ti[x], Passing(ai, x - 1)) /\ TurnsTo(heap, off, as_of, ta[y], Passing(aa, y - 1))
      BY <1>4, <2>3
    <3> QED
      BY <1>2, <2>3, <2>4, <2>5, <3>1 DEF TurnsTo
  <2>7. off[r] \in Nat
    BY <2>4, <2>6, TurnsInside
  <2>8. ti[x].right # ta[y].right
    BY <1>5, <2>1, <2>2
  <2>9. PICK o : o = off[r]
    OBVIOUS
  <2>10. o \in Nat /\ (o <= i) # (o <= as_of)
    BY <2>6, <2>7, <2>8, <2>9
  <2>11. i # as_of /\ ~(o <= i) /\ o <= as_of
    BY <2>10
  <2> QED
    BY <2>2, <2>6, <2>9, <2>11
<1>14. \A k \in 0 .. s : Passing(ai, mi - k) = Passing(aa, ma - k)
  <2>1. \A k \in 0 .. s : k \in Nat /\ k <= s /\ k <= ma
    BY <1>2, <1>5, <1>11
  <2> QED
    BY <1>9, <2>1
<1>15. \A k \in 1 .. s : ti[mi - k + 1].right = ta[ma - k + 1].right
  <2>1. \A k \in 1 .. s : k <= ma
    BY <1>2, <1>5, <1>11
  <2> QED
    BY <1>5, <2>1
<1>16. CASE s = mi
  BY <1>1, <1>5, <1>11, <1>12, <1>14, <1>15, <1>16 DEF ForksAt
<1>17. CASE s # mi
  <2>1. s < mi /\ s < ma
    BY <1>2, <1>5, <1>17
  <2> QED
    BY <1>1, <1>5, <1>11, <1>13, <1>14, <1>15, <1>17, <2>1 DEF ForksAt
<1> QED
  BY <1>16, <1>17

Steps(t) == {Step(t, turn) : turn \in WalkTurn}

LEMMA ElementsType ==
  ASSUME NEW t, NEW q \in Seq(WalkTurn)
  PROVE  Elements(t, q) \in Seq(Steps(t))
<1> DEFINE m == Len(q)
           y(k) == Step(t, q[k])
<1>1. m \in Nat /\ DOMAIN q = 1 .. m
  OBVIOUS
<1>2. Elements(t, q) = [k \in 1 .. m |-> y(k)]
  BY <1>1 DEF Elements
<1>3. \A k \in 1 .. m : y(k) \in Steps(t)
  <2>1. \A k \in 1 .. m : q[k] \in WalkTurn
    OBVIOUS
  <2> QED
    BY <2>1 DEF Steps
<1> HIDE DEF m, y
<1> QED
  BY <1>1, <1>2, <1>3

LEMMA ElementsMore ==
  ASSUME NEW t, NEW q \in Seq(WalkTurn), NEW x \in WalkTurn
  PROVE  /\ Step(t, x) \in Steps(t)
         /\ Elements(t, Append(q, x)) = Append(Elements(t, q), Step(t, x))
<1>1. PICK m, u : m = Len(q) /\ u = Append(q, x)
  OBVIOUS
<1>2. /\ m \in Nat /\ u \in Seq(WalkTurn) /\ DOMAIN q = 1 .. m /\ DOMAIN u = 1 .. m + 1
      /\ u[m + 1] = x /\ \A k \in 1 .. m : u[k] = q[k]
  BY <1>1
<1>3. Elements(t, q) = UpTurns(t, q, m)
  BY <1>2 DEF Elements, UpTurns
<1>4. Elements(t, u) = UpTurns(t, u, m + 1)
  BY <1>2 DEF Elements, UpTurns
<1>5. UpTurns(t, u, m) = UpTurns(t, q, m)
  <2>1. \A k \in 1 .. m : Step(t, u[k]) = Step(t, q[k])
    BY <1>2
  <2> QED
    BY <2>1 DEF UpTurns
<1>6. UpTurns(t, u, m + 1) = Append(UpTurns(t, u, m), Step(t, u[m + 1]))
  BY <1>2, UpTurnsGrow
<1>7. Step(t, x) \in Steps(t)
  BY DEF Steps
<1> QED
  BY <1>1, <1>2, <1>3, <1>4, <1>5, <1>6, <1>7

LEMMA ElementsNone ==
  ASSUME NEW t
  PROVE  Elements(t, <<>>) = <<>>
<1>1. PICK e : e = <<>>
  OBVIOUS
<1>2. DOMAIN e = 1 .. 0
  BY <1>1
<1>3. Elements(t, e) = [i \in 1 .. 0 |-> Step(t, e[i])]
  BY <1>2 DEF Elements
<1> DEFINE y(i) == Step(t, e[i])
<1>4. [i \in 1 .. 0 |-> y(i)] = <<>>
  <2> HIDE DEF y
  <2> QED
    OBVIOUS
<1> QED
  BY <1>1, <1>3, <1>4

LEMMA ElementsPrefix ==
  ASSUME NEW t, NEW turns \in Seq(WalkTurn), NEW k \in 0 .. Len(turns)
  PROVE  Elements(t, SubSeq(turns, 1, k)) = UpTurns(t, turns, k)
<1>1. PICK q : q = SubSeq(turns, 1, k)
  OBVIOUS
<1>2. DOMAIN q = 1 .. k /\ \A i \in 1 .. k : q[i] = turns[i]
  BY <1>1
<1>3. \A i \in 1 .. k : Step(t, q[i]) = Step(t, turns[i])
  BY <1>2
<1> QED
  BY <1>1, <1>2, <1>3 DEF Elements, UpTurns

LEMMA ConcatMore ==
  ASSUME NEW T, NEW b \in Seq(T), NEW q \in Seq(T), NEW e \in T
  PROVE  b \o Append(q, e) = Append(b \o q, e)
<1>1. Append(q, e) = q \o <<e>> /\ <<e>> \in Seq(T)
  BY AppendIsConcat
<1>2. (b \o q) \o <<e>> = b \o (q \o <<e>>)
  BY <1>1, ConcatAssociative
<1>3. b \o q \in Seq(T)
  OBVIOUS
<1>4. Append(b \o q, e) = (b \o q) \o <<e>>
  BY <1>3, AppendIsConcat
<1> QED
  BY <1>1, <1>2, <1>4

(* The path to a leaf of the left part.                                    *)
ForksIn(l, d, i, a, e, o) ==
  Paths(d, i)[a + e][o] = Append(Paths(l, i)[a][o], Element(SubtreeHash(d)[e][o + a], PATH_RIGHT))

LEMMA PastSplit ==
  ASSUME NEW l, NEW d, Len(l) \in Nat, Len(d) \in Nat, Len(d) <= Len(l),
         \A j \in 1 .. Len(d) : l[j] = d[j],
         NEW a \in Powers, NEW e \in Nat \ {0}, e <= a, NEW o \in Nat, o + a + e <= Len(d),
         NEW i
  PROVE  i < o + a => ForksIn(l, d, i, a, e, o)
<1>1. a \in Nat \ {0}
  BY PowersNat
<1>2. PathGoesOn(d, i, a, e, o)
  BY PathOfInner
<1>3. Paths(l, i)[a][o] = Paths(d, i)[a][o]
  <2>1. \A c \in 1 .. Len(d) : \A x \in 0 .. Len(d) - c : Paths(l, i)[c][x] = Paths(d, i)[c][x]
    BY PathsOfShared
  <2>2. a \in 1 .. Len(d) /\ o \in 0 .. Len(d) - a
    BY <1>1
  <2> QED
    BY <2>1, <2>2
<1> QED
  BY <1>2, <1>3 DEF ForksIn, PathGoesOn

(* At the fork: what index joins with is the hash of the leaves up to      *)
(* as_of under the right child.                                            *)
JoinsAt(off, cnt, L, d, i, as_of, m, l, r) ==
  PathThen(off, d, as_of, i, m)
    = Append(Paths(L, i)[cnt[l]][off[l]], Element(HashThen(off, d, as_of, r), PATH_RIGHT))

LEMMA PastFork ==
  ASSUME NEW heap, NEW S, NEW par, NEW off, NEW cnt, NEW top, NEW L, NEW nf,
         Good(heap, S, par, off, cnt, top, L, nf, {}), Len(L) \in Nat,
         NEW as_of \in Nat, as_of < Len(L),
         NEW d, CutAt(L, d, as_of),
         NEW m \in S, heap[m].left # Nil,
         NEW i \in Nat, ~(off[heap[m].right] <= i), off[heap[m].right] <= as_of,
         Covers(off, cnt, as_of, heap[m].right)
  PROVE  JoinsAt(off, cnt, L, d, i, as_of, m, heap[m].left, heap[m].right)
<1>1. Linked(heap, S, par, top) /\ Spans(heap, S, off, cnt, Nil, nf) /\ Nil \notin S
  BY DEF Good, Linked, Heap, Nil
<1> DEFINE l == heap[m].left
           r == heap[m].right
<1>2. l \in S /\ r \in S
  BY <1>1 DEF Linked
<1>3. PICK a, b, o : a = cnt[l] /\ b = cnt[r] /\ o = off[m]
  OBVIOUS
<1>4. a \in Powers /\ b \in Nat \ {0} /\ b <= a /\ o \in Nat /\ off[l] = o /\ off[r] = o + a
  BY <1>1, <1>2, <1>3 DEF Spans
<1>5. a \in Nat \ {0} /\ as_of < (o + a) + b /\ o + a <= as_of /\ i < o + a
  <2>1. a \in Nat \ {0}
    BY <1>4, PowersNat
  <2>2. as_of < off[r] + b
    BY <1>3 DEF Covers
  <2>3. as_of < (o + a) + b
    BY <1>4, <2>2
  <2> QED
    BY <1>4, <2>1, <2>3
<1>6. PICK e : e = as_of + 1 - (o + a)
  OBVIOUS
<1>7. e \in Nat \ {0} /\ e <= a /\ o + a + e <= Len(d) /\ Len(d) \in Nat /\ Len(d) <= Len(L)
  <2>1. Len(d) = as_of + 1
    BY DEF CutAt
  <2> QED
    BY <1>4, <1>5, <1>6, <2>1
<1>8. Then(off, as_of, m) = a + e /\ Then(off, as_of, r) = e
  <2>1. as_of + 1 - o = a + e
    BY <1>4, <1>5, <1>6
  <2> QED
    BY <1>3, <1>4, <1>6, <2>1 DEF Then
<1>9. ForksIn(L, d, i, a, e, o)
  <2>1. \A j \in 1 .. Len(d) : L[j] = d[j]
    BY DEF CutAt
  <2>2. i < o + a => ForksIn(L, d, i, a, e, o)
    BY <1>4, <1>7, <2>1, PastSplit
  <2> QED
    BY <1>5, <2>2
<1>10. HashThen(off, d, as_of, r) = SubtreeHash(d)[e][o + a] /\ PathThen(off, d, as_of, i, m) = Paths(d, i)[a + e][o]
  BY <1>3, <1>4, <1>8 DEF HashThen, PathThen
<1> QED
  BY <1>3, <1>4, <1>9, <1>10 DEF ForksIn, JoinsAt

LEMMA SameTurn ==
  ASSUME NEW a \in WalkTurn, NEW b \in WalkTurn, a.n = b.n, a.right = b.right
  PROVE  a = b
<1>1. a = [n |-> a.n, right |-> a.right] /\ b = [n |-> b.n, right |-> b.right]
  BY DEF WalkTurn
<1> QED
  BY <1>1

(* Above the fork only the right turns add to the path at as_of.           *)
OnPast(t, off, d, i, as_of, ti, ai, s, b) ==
  b \o Elements(t, RightsAbove(ti, s)) = PathThen(off, d, as_of, i, Passing(ai, Len(ti)))

LEMMA PastAbove ==
  ASSUME NEW t, NEW off, NEW d, NEW i \in Nat, NEW as_of, NEW s,
         NEW ti \in Seq(WalkTurn), NEW li, NEW ai, ai = [n |-> li, turns |-> ti],
         NEW ta \in Seq(WalkTurn), NEW la, NEW aa, aa = [n |-> la, turns |-> ta],
         ForksAt(ti, ta, ai, aa, s, i, as_of), Retraces(t, off, d, as_of, ta, la),
         \A k \in 0 .. Len(ti) : off[Passing(ai, k)] <= i,
         NEW T, Steps(t) \subseteq T,
         NEW b \in Seq(T), b = PathThen(off, d, as_of, i, Passing(ai, Len(ti) - s))
  PROVE  OnPast(t, off, d, i, as_of, ti, ai, s, b)
<1>1. PICK mi, ma, low, up : mi = Len(ti) /\ ma = Len(ta) /\ low = mi - s /\ up = ma - s
  OBVIOUS
<1>2. /\ mi \in Nat /\ ma \in Nat /\ s \in 0 .. mi /\ s <= ma
      /\ \A k \in 0 .. s : Passing(ai, mi - k) = Passing(aa, ma - k)
      /\ \A k \in 1 .. s : ti[mi - k + 1].right = ta[ma - k + 1].right
  BY <1>1 DEF ForksAt
<1>3. low \in Nat /\ up \in Nat /\ low + s = mi /\ up + s = ma
  BY <1>1, <1>2
<1>4. mi \in Nat /\ ma \in Nat /\ s \in Nat /\ s <= mi /\ s <= ma
  BY <1>2
<1>5. /\ \A k \in 1 .. mi : Passing(ai, k) = ti[k].n
      /\ \A k \in 1 .. ma : Passing(aa, k) = ta[k].n
  BY <1>1, PassingUp
<1>6. \A k \in 1 .. ma : PastStep(t, off, d, as_of, ta[k], Passing(aa, k - 1))
  BY <1>1 DEF Retraces
<1> DEFINE Part(k) == SubSeq(ti, low + 1, low + k)
           AtK(k) == PathThen(off, d, as_of, i, Passing(ai, low + k))
           Is(k) == b \o Elements(t, RightTurns(Part(k))) = AtK(k)
           U == {k \in Nat : k <= s => Is(k)}
<1>7. 0 \in U
  <2>1. Part(0) = <<>>
    BY <1>3
  <2>2. RightTurns(<<>>) = <<>> /\ Elements(t, <<>>) = <<>>
    BY RightTurnsNone, ElementsNone
  <2>3. b \o <<>> = b
    BY ConcatEmptySeq
  <2>4. low + 0 = Len(ti) - s
    BY <1>1, <1>3
  <2> QED
    BY <2>1, <2>2, <2>3, <2>4
<1>8. ASSUME NEW k \in Nat, k \in U PROVE k + 1 \in U
  <2>1. SUFFICES ASSUME k + 1 <= s PROVE Is(k + 1)
    <3> HIDE DEF Is
    <3> QED
      OBVIOUS
  <2>2. PICK x : x = low + k
    OBVIOUS
  <2>3. PICK y : y = up + k /\ x = low + k
    BY <2>2
  <2>4. PICK n, turn : n = Passing(ai, x) /\ turn = ti[x + 1]
    OBVIOUS
  <2>5. PICK q : q = Part(k)
    OBVIOUS
  <2>6. PICK p : p = RightTurns(q)
    OBVIOUS
  <2>7. /\ x \in 0 .. mi /\ x + 1 \in 1 .. mi /\ y + 1 \in 1 .. ma /\ x < mi /\ (y + 1) - 1 = y
        /\ k <= s /\ low + (k + 1) = x + 1 /\ low + 1 \in Nat \ {0} /\ (low + 1) - 1 <= x
    BY <1>2, <1>3, <2>1, <2>3
  <2>8. q \in Seq(WalkTurn) /\ turn \in WalkTurn /\ Part(k + 1) = Append(q, turn)
    <3>1. /\ SubSeq(ti, low + 1, x) \in Seq(WalkTurn) /\ ti[x + 1] \in WalkTurn
          /\ SubSeq(ti, low + 1, x + 1) = Append(SubSeq(ti, low + 1, x), ti[x + 1])
      <4>1. PICK f : f = low + 1
        OBVIOUS
      <4>2. f \in Nat \ {0} /\ f - 1 <= x /\ x \in Nat /\ x < Len(ti)
        BY <1>1, <1>3, <2>7, <4>1
      <4>3. /\ SubSeq(ti, f, x) \in Seq(WalkTurn) /\ ti[x + 1] \in WalkTurn
            /\ SubSeq(ti, f, x + 1) = Append(SubSeq(ti, f, x), ti[x + 1])
        BY <4>2, SubSeqMore
      <4> QED
        BY <4>1, <4>3
    <3>2. q = SubSeq(ti, low + 1, x) /\ Part(k + 1) = SubSeq(ti, low + 1, x + 1) /\ turn = ti[x + 1]
      BY <2>3, <2>7, <2>4, <2>5
    <3> QED
      BY <3>1, <3>2
  <2>9. n = Passing(aa, y) /\ turn.right = ta[y + 1].right
    <3>1. PICK j : j = s - k
      OBVIOUS
    <3>2. j \in 0 .. s /\ j \in 1 .. s /\ mi - j = x /\ ma - j = y /\ mi - j + 1 = x + 1 /\ ma - j + 1 = y + 1
      BY <1>4, <1>3, <2>1, <2>3, <3>1
    <3>3. Passing(ai, mi - j) = Passing(aa, ma - j) /\ ti[mi - j + 1].right = ta[ma - j + 1].right
      BY <1>2, <3>2
    <3> QED
      BY <2>4, <3>2, <3>3
  <2>10. turn.n = ta[y + 1].n /\ Passing(ai, x + 1) = turn.n
    <3>1. PICK j : j = s - (k + 1)
      OBVIOUS
    <3>2. j \in 0 .. s /\ mi - j = x + 1 /\ ma - j = y + 1
      BY <1>4, <1>3, <2>1, <2>3, <3>1
    <3>3. Passing(ai, x + 1) = Passing(aa, y + 1)
      BY <1>2, <3>2
    <3>4. Passing(ai, x + 1) = ti[x + 1].n /\ Passing(aa, y + 1) = ta[y + 1].n
      BY <1>5, <2>7
    <3> QED
      BY <2>4, <3>3, <3>4
  <2>11. turn = ta[y + 1]
    <3>1. y + 1 \in 1 .. Len(ta)
      BY <1>1, <2>7
    <3>2. PICK z : z = y + 1
      OBVIOUS
    <3>3. ta[z] \in WalkTurn
      BY <3>1, <3>2
    <3> QED
      BY <2>8, <2>9, <2>10, <3>2, <3>3, SameTurn
  <2>12. PastStep(t, off, d, as_of, turn, n)
    BY <1>6, <2>7, <2>9, <2>11
  <2>13. off[n] <= i
    BY <1>1, <2>7, <2>4
  <2>14. b \o Elements(t, p) = PathThen(off, d, as_of, i, n)
    BY <1>8, <2>3, <2>7, <2>4, <2>5, <2>6
  <2>15. p \in Seq(WalkTurn)
    BY <2>8, <2>6, RightTurnsType
  <2>16. RightTurns(Append(q, turn)) = IF turn.right THEN Append(p, turn) ELSE p
    BY <2>8, <2>6, RightTurnsMore
  <2>17. CASE turn.right
    <3>1. PathThen(off, d, as_of, i, turn.n) = Append(PathThen(off, d, as_of, i, n), Step(t, turn))
      BY <2>12, <2>13, <2>17 DEF PastStep
    <3>2. /\ Elements(t, p) \in Seq(Steps(t)) /\ Step(t, turn) \in Steps(t)
          /\ Elements(t, Append(p, turn)) = Append(Elements(t, p), Step(t, turn))
      BY <2>8, <2>15, ElementsMore, ElementsType
    <3>3. PICK e, g : e = Step(t, turn) /\ g = Elements(t, p)
      OBVIOUS
    <3>4. e \in T /\ g \in Seq(T)
      BY <3>2, <3>3
    <3>5. b \o Append(g, e) = Append(b \o g, e)
      BY <3>4, ConcatMore
    <3> QED
      BY <2>7, <2>8, <2>10, <2>14, <2>16, <2>17, <3>1, <3>2, <3>3, <3>5
  <2>18. CASE ~turn.right
    <3>1. PathThen(off, d, as_of, i, turn.n) = PathThen(off, d, as_of, i, n)
      BY <2>12, <2>18 DEF PastStep, PathThen, Then
    <3> QED
      BY <2>7, <2>8, <2>10, <2>14, <2>16, <2>18, <3>1
  <2> QED
    BY <2>17, <2>18
<1> HIDE DEF U
<1>9. Nat \subseteq U
  BY <1>7, <1>8, SetInduction
<1>10. b \o Elements(t, RightTurns(Part(s))) = AtK(s)
  <2>1. s \in Nat /\ s <= s
    BY <1>4
  <2> QED
    BY <1>9, <2>1 DEF U
<1>11. RightsAbove(ti, s) = RightTurns(Part(s))
  <2>1. Part(s) = SubSeq(ti, Len(ti) - s + 1, Len(ti))
    BY <1>1, <1>3
  <2> QED
    BY <2>1 DEF RightsAbove, Above
<1> QED
  BY <1>1, <1>3, <1>10, <1>11 DEF OnPast

(* The path up to the fork, and what it joins with there.                  *)
AtFork(t, as_of, ti, ta, s) ==
  Elements(t, Below(ti, s))
    \o (IF s = Len(ti) THEN <<>>
        ELSE <<Element(AsOfHash(t, as_of, RightsBelow(ta, s)), PATH_RIGHT)>>)

ForkSteps(t, as_of, ta, s) ==
  Steps(t) \cup {Element(AsOfHash(t, as_of, RightsBelow(ta, s)), PATH_RIGHT)}

(* The leaf that was the last one.                                         *)
LEMMA LastLeaf ==
  ASSUME NEW heap, NEW S, NEW off, NEW cnt, NEW index \in Nat, NEW top, NEW turns, NEW leaf,
         LeadTo(heap, S, off, cnt, index, top, turns, leaf),
         NEW d, Len(d) \in Nat, index < Len(d), NEW as_of, Then(off, as_of, leaf) = 1
  PROVE  /\ HashThen(off, d, as_of, leaf) = d[index + 1]
         /\ PathThen(off, d, as_of, index, leaf) = <<>>
<1>1. off[leaf] = index
  BY DEF LeadTo
<1>2. SubtreeHash(d)[1][index] = d[index + 1]
  BY HashOfLeaf
<1>3. Paths(d, index)[1][index] = <<>>
  BY PathOfLeaf
<1> QED
  BY <1>1, <1>2, <1>3 DEF HashThen, PathThen

(* The path so far, at the fork, is the path at as_of.                     *)
ForkPast(t, off, d, i, as_of, ti, ta, ai, s) ==
  /\ AtFork(t, as_of, ti, ta, s) \in Seq(ForkSteps(t, as_of, ta, s))
  /\ AtFork(t, as_of, ti, ta, s) = PathThen(off, d, as_of, i, Passing(ai, Len(ti) - s))

LEMMA PastBelow ==
  ASSUME NEW t, NEW heap, heap = t.heap, NEW S, NEW par, NEW off, NEW cnt, NEW top, NEW L, NEW nf,
         Good(heap, S, par, off, cnt, top, L, nf, {}), Len(L) \in Nat, \A x \in S : ~heap[x].dirty,
         NEW i \in Nat, NEW as_of \in Nat, i <= as_of, as_of < Len(L), LeafAt(t, as_of) = L[as_of + 1],
         NEW d, CutAt(L, d, as_of),
         NEW ti, NEW li, LeadTo(heap, S, off, cnt, i, top, ti, li),
         NEW ta, NEW la, LeadTo(heap, S, off, cnt, as_of, top, ta, la),
         NEW ai, ai = [n |-> li, turns |-> ti], NEW aa, aa = [n |-> la, turns |-> ta],
         NEW s, ForksAt(ti, ta, ai, aa, s, i, as_of)
  PROVE  ForkPast(t, off, d, i, as_of, ti, ta, ai, s)
<1>1. PICK mi, ma, low, up : mi = Len(ti) /\ ma = Len(ta) /\ low = mi - s /\ up = ma - s
  OBVIOUS
<1>2. /\ ti \in Seq(WalkTurn) /\ mi \in Nat /\ li \in S /\ off[li] = i /\ cnt[li] = 1
      /\ ta \in Seq(WalkTurn) /\ ma \in Nat /\ la \in S /\ off[la] = as_of /\ cnt[la] = 1
      /\ (\A k \in 1 .. mi : ti[k].n \in S) /\ (\A k \in 1 .. ma : ta[k].n \in S)
  BY <1>1 DEF LeadTo
<1>3. /\ Passing(ai, 0) = li /\ (\A k \in 1 .. mi : Passing(ai, k) = ti[k].n)
      /\ Passing(aa, 0) = la /\ (\A k \in 1 .. ma : Passing(aa, k) = ta[k].n)
  <2>1. Passing(ai, 0) = li /\ (\A k \in 1 .. Len(ti) : Passing(ai, k) = ti[k].n)
    BY <1>2, PassingUp
  <2>2. Passing(aa, 0) = la /\ (\A k \in 1 .. Len(ta) : Passing(aa, k) = ta[k].n)
    BY <1>2, PassingUp
  <2> QED
    BY <1>1, <2>1, <2>2
<1>4. s \in Nat /\ s <= mi /\ s <= ma
  BY <1>1, <1>2 DEF ForksAt
<1>5. low \in Nat /\ up \in Nat
  BY <1>1, <1>2, <1>4
<1>6. PICK e, E, T : e = Element(AsOfHash(t, as_of, RightsBelow(ta, s)), PATH_RIGHT)
                     /\ E = Elements(t, Below(ti, s)) /\ T = ForkSteps(t, as_of, ta, s)
  OBVIOUS
<1>7. AtFork(t, as_of, ti, ta, s) = E \o (IF s = mi THEN <<>> ELSE <<e>>)
  BY <1>1, <1>6 DEF AtFork
<1>8. T = Steps(t) \cup {e}
  BY <1>6 DEF ForkSteps
<1>9. CASE i = as_of
  <2>1. s = mi /\ low = 0
    BY <1>1, <1>2, <1>9 DEF ForksAt
  <2>2. Below(ti, s) = <<>>
    <3>1. Len(ti) - s - 1 = -1
      BY <1>1, <1>2, <2>1
    <3>2. SubSeq(ti, 1, -1) = <<>>
      BY <1>2
    <3> QED
      BY <3>1, <3>2 DEF Below
  <2>3. E = <<>>
    BY <1>6, <2>2, ElementsNone
  <2>4. AtFork(t, as_of, ti, ta, s) = <<>>
    <3>1. <<>> \o <<>> = <<>>
      OBVIOUS
    <3> QED
      BY <1>7, <2>1, <2>3, <3>1
  <2>5. PathThen(off, d, as_of, i, li) = <<>>
    <3>1. Then(off, as_of, li) = 1
      BY <1>2, <1>9 DEF Then
    <3>2. Len(d) \in Nat /\ i < Len(d)
      BY <1>9 DEF CutAt
    <3> QED
      BY <3>1, <3>2, LastLeaf
  <2>6. Passing(ai, low) = li
    BY <1>3, <2>1
  <2> QED
    BY <1>1, <2>4, <2>5, <2>6 DEF ForkPast
<1>10. CASE i # as_of
  <2>1. s < mi /\ s < ma /\ ~ti[low].right /\ ta[up].right
    BY <1>1, <1>10 DEF ForksAt
  <2>2. low \in 1 .. mi /\ up \in 1 .. ma /\ low - 1 \in 0 .. mi /\ up - 1 \in 0 .. ma
    BY <1>1, <1>2, <1>4, <2>1
  <2>3. PICK m, l, r : m = ti[low].n /\ l = heap[ti[low].n].left /\ r = heap[ti[low].n].right
    OBVIOUS
  <2>4. ta[up].n = m /\ Passing(ai, low) = m
    <3>1. Passing(ai, low) = Passing(aa, up)
      <4>1. \A k \in 0 .. s : Passing(ai, mi - k) = Passing(aa, ma - k)
        BY <1>1 DEF ForksAt
      <4>2. s \in 0 .. s
        BY <1>4
      <4> QED
        BY <1>1, <4>1, <4>2
    <3> QED
      BY <1>3, <2>2, <2>3, <3>1
  <2>5. TurnsTo(heap, off, i, ti[low], Passing(ai, low - 1)) /\ TurnsTo(heap, off, as_of, ta[up], Passing(aa, up - 1))
    <3>1. Traced(heap, off, i, top, ai) /\ Traced(heap, off, as_of, top, aa)
      BY DEF LeadTo
    <3>2. ai.turns = ti /\ aa.turns = ta
      OBVIOUS
    <3> QED
      BY <1>1, <2>2, <3>1, <3>2 DEF Traced
  <2>6. /\ l # Nil /\ ~(off[r] <= i) /\ off[r] <= as_of /\ m \in S
        /\ Passing(ai, low - 1) = l /\ Passing(aa, up - 1) = r
    BY <1>2, <2>1, <2>2, <2>3, <2>4, <2>5 DEF TurnsTo
  <2>7. PICK g, h : g = low - 1 /\ h = up - 1
    OBVIOUS
  <2>8. g \in 0 .. mi /\ h \in 0 .. ma /\ g = mi - s - 1 /\ h = ma - s - 1
    BY <1>1, <2>2, <2>7
  <2>9. LeadsUp(t, off, cnt, S, L, i, ti, ai, g)
    <3>1. ClimbsTo(t, heap, S, off, cnt, L, i, ti, li)
      BY ElementsAre
    <3> QED
      BY <1>1, <2>8, <3>1 DEF ClimbsTo
  <2>10. LeadsUp(t, off, cnt, S, L, as_of, ta, aa, h)
    <3>1. ClimbsTo(t, heap, S, off, cnt, L, as_of, ta, la)
      BY ElementsAre
    <3> QED
      BY <1>1, <2>8, <3>1 DEF ClimbsTo
  <2>11. Paths(L, i)[cnt[l]][off[l]] = UpTurns(t, ti, g)
    BY <2>6, <2>7, <2>9 DEF LeadsUp
  <2>12. Covers(off, cnt, as_of, r)
    BY <2>6, <2>7, <2>10 DEF LeadsUp
  <2>13. E = UpTurns(t, ti, g)
    <3>1. Below(ti, s) = SubSeq(ti, 1, g)
      BY <1>1, <2>8 DEF Below
    <3>2. Elements(t, SubSeq(ti, 1, g)) = UpTurns(t, ti, g)
      BY <1>1, <1>2, <2>8, ElementsPrefix
    <3> QED
      BY <1>6, <3>1, <3>2
  <2>14. AsOfHash(t, as_of, RightsBelow(ta, s)) = HashThen(off, d, as_of, r)
    <3>1. HashThen(off, d, as_of, la) = d[as_of + 1] /\ PathThen(off, d, as_of, as_of, la) = <<>>
      <4>1. Then(off, as_of, la) = 1
        BY <1>2 DEF Then
      <4>2. Len(d) \in Nat /\ as_of < Len(d)
        BY DEF CutAt
      <4> QED
        BY <4>1, <4>2, LastLeaf
    <3>2. LeafAt(t, as_of) = HashThen(off, d, as_of, la)
      BY <3>1 DEF CutAt
    <3>3. Retraces(t, off, d, as_of, ta, la)
      BY RetracesIs
    <3>4. PICK x : x = LeafAt(t, as_of)
      OBVIOUS
    <3>5. \A k \in 0 .. Len(ta) :
             JoinLefts(t, x, RightTurns(SubSeq(ta, 1, k))) = HashThen(off, d, as_of, Passing(aa, k))
      BY <1>2, <3>2, <3>3, <3>4, JoinAlong
    <3>6. JoinLefts(t, x, RightTurns(SubSeq(ta, 1, h))) = HashThen(off, d, as_of, r)
      BY <1>1, <2>6, <2>7, <2>8, <3>5
    <3>7. RightsBelow(ta, s) = RightTurns(SubSeq(ta, 1, h))
      BY <1>1, <2>8 DEF RightsBelow, Below
    <3> QED
      BY <3>4, <3>6, <3>7 DEF AsOfHash
  <2>15. PathThen(off, d, as_of, i, m)
           = Append(Paths(L, i)[cnt[l]][off[l]], Element(HashThen(off, d, as_of, r), PATH_RIGHT))
    <3>1. l = heap[m].left /\ r = heap[m].right
      BY <2>3
    <3>2. heap[m].left # Nil /\ ~(off[heap[m].right] <= i) /\ off[heap[m].right] <= as_of
      BY <2>6, <3>1
    <3>3. Covers(off, cnt, as_of, heap[m].right)
      BY <2>12, <3>1
    <3>4. JoinsAt(off, cnt, L, d, i, as_of, m, heap[m].left, heap[m].right)
      BY <2>6, <3>2, <3>3, PastFork
    <3> QED
      BY <3>1, <3>4 DEF JoinsAt
  <2>16. PathThen(off, d, as_of, i, m) = Append(E, e)
    BY <1>6, <2>11, <2>13, <2>14, <2>15
  <2>17. E \in Seq(T) /\ e \in T
    <3>1. SubSeq(ti, 1, g) \in Seq(WalkTurn)
      BY <1>1, <1>2, <2>8
    <3>2. Elements(t, SubSeq(ti, 1, g)) \in Seq(Steps(t))
      BY <3>1, ElementsType
    <3>3. Elements(t, SubSeq(ti, 1, g)) = UpTurns(t, ti, g)
      BY <1>1, <1>2, <2>8, ElementsPrefix
    <3> QED
      BY <1>8, <2>13, <3>2, <3>3
  <2>18. AtFork(t, as_of, ti, ta, s) = Append(E, e)
    <3>1. Append(E, e) = E \o <<e>>
      BY <2>17, AppendIsConcat
    <3> QED
      BY <1>4, <1>7, <2>1, <3>1
  <2>19. Append(E, e) \in Seq(T)
    BY <2>17
  <2> QED
    BY <1>1, <1>6, <2>4, <2>16, <2>18, <2>19 DEF ForkPast
<1> QED
  BY <1>9, <1>10

(* past_root() and past_path(), on a tree whose root is computed, are the  *)
(* root and the path of the reference tree over the leaves up to as_of.    *)
PastsAre(u, d, i, as_of) ==
  /\ PastRootOf(PathComputed(u, as_of)) = MTH(d)
  /\ PastPathComputed(u, i, as_of) = Path(d[i + 1], i, AuditPath(d, i), as_of)

TopPast(off, d, i, as_of, top) ==
  /\ HashThen(off, d, as_of, top) = MTH(d)
  /\ PathThen(off, d, as_of, i, top) = AuditPath(d, i)

LEMMA TopIs ==
  ASSUME NEW off, NEW top, off[top] = 0, NEW d, NEW as_of \in Nat, Len(d) = as_of + 1, NEW i
  PROVE  TopPast(off, d, i, as_of, top)
<1>1. Then(off, as_of, top) = Len(d) /\ Len(d) \in Nat
  BY DEF Then
<1>2. AuditPath(d, i) = Paths(d, i)[Len(d)][0]
  BY <1>1, PathsAre
<1>3. HashThen(off, d, as_of, top) = SubtreeHash(d)[Len(d)][0]
  BY <1>1 DEF HashThen
<1>4. PathThen(off, d, as_of, i, top) = Paths(d, i)[Len(d)][0]
  BY <1>1 DEF PathThen
<1> QED
  BY <1>2, <1>3, <1>4 DEF MTH, TopPast
=============================================================================
