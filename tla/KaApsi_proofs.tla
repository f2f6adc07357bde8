---------------------------- MODULE KaApsi_proofs ----------------------------
(***************************************************************************)
(* Proofs about the key-agreement protocol (KaApsi), for any inputs of the *)
(* two parties and any hash function.                                      *)
(***************************************************************************)
EXTENDS KaApsi, SequenceTheorems, FiniteSetTheorems, WellFoundedInduction, TLAPS

-----------------------------------------------------------------------------
(* Induction over the natural numbers and what follows from it: functions  *)
(* defined by recursion exist.  A predicate is given by the set of numbers *)
(* that satisfy it and a recursion by a function, so that the facts can be *)
(* cited for any predicate and any recursion.                              *)

(* A set of numbers has a least one: there are no infinite descents among  *)
(* the finite sets of the numbers below each.                              *)
LEMMA LeastNumber ==
  ASSUME NEW T \in SUBSET Nat, T # {}
  PROVE  \E n \in T : \A m \in T : n <= m
<1>. DEFINE Initials == {0 .. (n - 1) : n \in T}
<1>1. Initials \subseteq FiniteSubsetsOf(Nat) /\ Initials # {}
  <2>1. ASSUME NEW n \in T PROVE 0 .. (n - 1) \in SUBSET Nat /\ IsFiniteSet(0 .. (n - 1))
    BY FS_Interval
  <2>. QED BY <2>1 DEF FiniteSubsetsOf
<1>2. IsWellFoundedOn(StrictSubsetOrdering(Nat), FiniteSubsetsOf(Nat))
  BY FS_StrictSubsetOrderingWellFounded
<1>3. \E x \in Initials : \A y \in Initials : ~ (<<y, x>> \in StrictSubsetOrdering(Nat))
  BY <1>1, <1>2, WFMin
<1>4. PICK n \in T :
        \A m \in T : ~ (<<0 .. (m - 1), 0 .. (n - 1)>> \in StrictSubsetOrdering(Nat))
  BY <1>3
<1>5. ASSUME NEW m \in T, ~ (n <= m) PROVE FALSE
  <2>1. m \in Nat /\ n \in Nat OBVIOUS
  <2>2. 0 .. (m - 1) \in SUBSET Nat /\ 0 .. (n - 1) \in SUBSET Nat BY <2>1
  <2>3. /\ 0 .. (m - 1) \subseteq 0 .. (n - 1)
        /\ m \in 0 .. (n - 1) /\ m \notin 0 .. (m - 1)
    BY <2>1, <1>5
  <2>. QED BY <1>4, <2>2, <2>3 DEF StrictSubsetOrdering
<1>. QED BY <1>5

(* Induction: T is the set of the numbers of which something is to be shown.*)
LEMMA SetInduction ==
  ASSUME NEW T, 0 \in T, \A n \in Nat : n \in T => n + 1 \in T
  PROVE  Nat \subseteq T
<1>. DEFINE Out == Nat \ T
<1>1. SUFFICES ASSUME Out # {} PROVE FALSE OBVIOUS
<1>2. PICK n \in Out : \A m \in Out : n <= m
  <2>1. Out \in SUBSET Nat OBVIOUS
  <2>. HIDE DEF Out
  <2>. QED BY <1>1, <2>1, LeastNumber
<1>3. n \in Nat /\ n # 0 OBVIOUS
<1>4. n - 1 \in Nat /\ n - 1 \notin Out BY <1>2, <1>3
<1>. QED BY <1>3, <1>4

(* The functions on 0 .. n with a given first value and a given step from  *)
(* each value to the next: there is one.                                   *)
Iterations(S, base, step, n) ==
  {f \in [0 .. n -> S] : f[0] = base /\ \A k \in 1 .. n : f[k] = step[<<f[k - 1], k>>]}

LEMMA RecursionExists ==
  ASSUME NEW S, NEW base \in S, NEW step \in [S \X Nat -> S], NEW n \in Nat
  PROVE  Iterations(S, base, step, n) # {}
<1>. DEFINE Iterates(f, m) == f[0] = base /\ \A k \in 1 .. m : f[k] = step[<<f[k - 1], k>>]
            T == {m \in Nat : \E f \in [0 .. m -> S] : Iterates(f, m)}
<1>1. 0 \in T
  <2>1. [k \in 0 .. 0 |-> base] \in [0 .. 0 -> S] /\ Iterates([k \in 0 .. 0 |-> base], 0)
    OBVIOUS
  <2>. QED BY <2>1
<1>2. ASSUME NEW m \in Nat, m \in T PROVE m + 1 \in T
  <2>1. PICK f \in [0 .. m -> S] : Iterates(f, m) BY <1>2
  <2>. DEFINE g == [k \in 0 .. m + 1 |-> IF k = m + 1 THEN step[<<f[m], m + 1>>] ELSE f[k]]
  <2>2. f[m] \in S /\ <<f[m], m + 1>> \in S \X Nat OBVIOUS
  <2>3. g \in [0 .. m + 1 -> S] BY <2>2
  <2>4. g[0] = base BY <2>1
  <2>5. ASSUME NEW k \in 1 .. m + 1 PROVE g[k] = step[<<g[k - 1], k>>]
    <3>1. CASE k = m + 1 BY <3>1, SMTT(20)
    <3>2. CASE k # m + 1
      <4>1. k \in 1 .. m /\ k - 1 \in 0 .. m BY <3>2
      <4>2. g[k] = f[k] /\ g[k - 1] = f[k - 1] BY <4>1
      <4>. QED BY <2>1, <4>1, <4>2
    <3>. QED BY <3>1, <3>2
  <2>. HIDE DEF g
  <2>6. Iterates(g, m + 1) BY <2>4, <2>5
  <2>. QED BY <2>3, <2>6
<1>. HIDE DEF T
<1>3. Nat \subseteq T BY <1>1, <1>2, SetInduction
<1>4. n \in T BY <1>3
<1>. QED BY <1>4 DEF T, Iterations

-----------------------------------------------------------------------------
(* The elements of a sequence that are in a set: Only by recursion on the   *)
(* length of the sequence.                                                  *)

Selects(s, S, f) ==
  /\ DOMAIN f = 0 .. Len(s) /\ f[0] = <<>>
  /\ \A k \in 1 .. Len(s) : s[k] \in S => f[k] = Append(f[k - 1], s[k])
  /\ \A k \in 1 .. Len(s) : s[k] \notin S => f[k] = f[k - 1]

(* The recursive function that Only is defined by exists.                   *)
LEMMA OnlySelects ==
  ASSUME NEW A, NEW s \in Seq(A), NEW S
  PROVE  \E f \in [0 .. Len(s) -> Seq(A)] : Selects(s, S, f) /\ Only(s, S) = f[Len(s)]
<1> DEFINE n == Len(s)
           Body(g) == [i \in 0 .. n |->
                         IF i = 0 THEN <<>>
                         ELSE IF s[i] \in S THEN Append(g[i - 1], s[i]) ELSE g[i - 1]]
           f == CHOOSE g : g = Body(g)
           step == [x \in Seq(A) \X Nat |->
                      IF x[2] \in 1 .. n
                      THEN IF s[x[2]] \in S THEN Append(x[1], s[x[2]]) ELSE x[1]
                      ELSE x[1]]
<1>1. n \in Nat /\ \A k \in 1 .. n : s[k] \in A
  OBVIOUS
<1>2. Only(s, S) = f[n]
  BY DEF Only
<1>3. step \in [Seq(A) \X Nat -> Seq(A)] /\ <<>> \in Seq(A)
  <2>1. ASSUME NEW x \in Seq(A) \X Nat
        PROVE  (IF x[2] \in 1 .. n
                THEN IF s[x[2]] \in S THEN Append(x[1], s[x[2]]) ELSE x[1]
                ELSE x[1]) \in Seq(A)
    <3>1. x[1] \in Seq(A)
      OBVIOUS
    <3> HIDE DEF n
    <3> QED
      BY <1>1, <3>1
  <2> QED
    BY <2>1
<1>4. PICK g \in [0 .. n -> Seq(A)] :
        g[0] = <<>> /\ \A k \in 1 .. n : g[k] = step[<<g[k - 1], k>>]
  <2> HIDE DEF step, n
  <2>1. Iterations(Seq(A), <<>>, step, n) # {}
    BY <1>1, <1>3, RecursionExists
  <2> QED
    BY <2>1 DEF Iterations
<1>5. ASSUME NEW k \in 1 .. n
      PROVE  g[k] = IF s[k] \in S THEN Append(g[k - 1], s[k]) ELSE g[k - 1]
  <2>1. k \in Nat /\ k - 1 \in 0 .. n
    BY <1>1
  <2> HIDE DEF n
  <2>2. g[k - 1] \in Seq(A) /\ <<g[k - 1], k>> \in Seq(A) \X Nat
    BY <1>4, <2>1
  <2>3. step[<<g[k - 1], k>>] = IF s[k] \in S THEN Append(g[k - 1], s[k]) ELSE g[k - 1]
    BY <2>1, <2>2
  <2> HIDE DEF step
  <2> QED
    BY <1>4, <2>3
<1>6. g = Body(g)
  <2>1. \A k \in 0 .. n : k # 0 => k \in 1 .. n
    BY <1>1
  <2> HIDE DEF n, step
  <2> QED
    BY <1>4, <1>5, <2>1
<1>7. f = Body(f)
  <2> HIDE DEF Body
  <2> QED
    BY <1>6
<1>8. \A k \in 0 .. n : f[k] = g[k]
  <2> DEFINE T == {k \in Nat : k \in 0 .. n => f[k] = g[k]}
  <2>1. 0 \in 0 .. n
    BY <1>1
  <2>2. f[0] = <<>>
    <3> HIDE DEF f, n
    <3> QED
      BY <1>7, <2>1
  <2>3. 0 \in T
    <3> HIDE DEF f, n
    <3> QED
      BY <1>4, <2>2
  <2>4. ASSUME NEW k \in Nat, k \in T PROVE k + 1 \in T
    <3>1. SUFFICES ASSUME k + 1 \in 0 .. n PROVE f[k + 1] = g[k + 1]
      OBVIOUS
    <3>2. k \in 0 .. n /\ k + 1 \in 1 .. n /\ k + 1 # 0 /\ (k + 1) - 1 = k
      BY <1>1, <3>1
    <3>3. f[k] = g[k]
      BY <2>4, <3>2
    <3>4. f[k + 1] = IF s[k + 1] \in S THEN Append(f[k], s[k + 1]) ELSE f[k]
      <4> HIDE DEF f, n
      <4> QED
        BY <1>7, <3>1, <3>2
    <3>5. g[k + 1] = IF s[k + 1] \in S THEN Append(g[k], s[k + 1]) ELSE g[k]
      <4> HIDE DEF f, n
      <4> QED
        BY <1>5, <3>2
    <3> HIDE DEF f, n
    <3> QED
      BY <3>3, <3>4, <3>5
  <2> HIDE DEF T
  <2>5. Nat \subseteq T
    BY <2>3, <2>4, SetInduction
  <2>6. ASSUME NEW k \in 0 .. n PROVE f[k] = g[k]
    <3>1. k \in Nat
      BY <1>1
    <3>2. k \in T
      BY <2>5, <3>1
    <3> HIDE DEF f, n
    <3> QED
      BY <3>2 DEF T
  <2> QED
    BY <2>6
<1>9. n \in 0 .. n
  BY <1>1
<1>10. Only(s, S) = g[n]
  <2> HIDE DEF f, n
  <2> QED
    BY <1>2, <1>8, <1>9
<1>11. Selects(s, S, g)
  <2> HIDE DEF step
  <2> QED
    BY <1>4, <1>5 DEF Selects
<1> QED
  BY <1>10, <1>11

(* A sequence that is not empty is another with an element appended.        *)
OneLonger(s, r, e, n) == Len(r) = n /\ s = Append(r, e)

LEMMA LastOff ==
  ASSUME NEW A, NEW n \in Nat, NEW s \in Seq(A), Len(s) = n + 1
  PROVE  \E r \in Seq(A), e \in A : OneLonger(s, r, e, n)
<1>1. SubSeq(s, 1, n) \in Seq(A) /\ Len(SubSeq(s, 1, n)) = n /\ s[n + 1] \in A
  OBVIOUS
<1>2. s = Append(SubSeq(s, 1, n), s[n + 1])
  OBVIOUS
<1>3. OneLonger(s, SubSeq(s, 1, n), s[n + 1], n)
  BY <1>1, <1>2 DEF OneLonger
<1> QED
  BY <1>1, <1>3

Appends(s, e, more, n) ==
  /\ more = Append(s, e) /\ n = Len(s)
  /\ Len(more) = n + 1 /\ DOMAIN more = 1 .. (n + 1) /\ DOMAIN s = 1 .. n
  /\ more[n + 1] = e
  /\ \A k \in 1 .. n : more[k] = s[k]

LEMMA Appended ==
  ASSUME NEW A, NEW s \in Seq(A), NEW e \in A
  PROVE  \E more \in Seq(A), n \in Nat : Appends(s, e, more, n)
<1>1. Append(s, e) \in Seq(A) /\ Len(s) \in Nat
  OBVIOUS
<1>2. /\ Append(s, e)[Len(s) + 1] = e
      /\ \A k \in 1 .. Len(s) : Append(s, e)[k] = s[k]
      /\ Len(Append(s, e)) = Len(s) + 1
      /\ DOMAIN Append(s, e) = 1 .. (Len(s) + 1) /\ DOMAIN s = 1 .. Len(s)
  OBVIOUS
<1>3. Appends(s, e, Append(s, e), Len(s))
  BY <1>2 DEF Appends
<1> QED
  BY <1>1, <1>3

LEMMA NoElements ==
  ASSUME NEW A
  PROVE  \E none \in Seq(A) : none = <<>> /\ Len(none) = 0
<1>1. <<>> \in Seq(A) /\ Len(<<>>) = 0
  OBVIOUS
<1> QED
  BY <1>1

LEMMA OnlyOfNone ==
  ASSUME NEW S
  PROVE  Only(<<>>, S) = <<>>
<1>1. PICK none \in Seq({}) : none = <<>> /\ Len(none) = 0
  BY NoElements
<1>2. PICK f \in [0 .. Len(none) -> Seq({})] : Selects(none, S, f) /\ Only(none, S) = f[Len(none)]
  BY OnlySelects
<1> QED
  BY <1>1, <1>2 DEF Selects

LEMMA OnlyOfAppend ==
  ASSUME NEW A, NEW s \in Seq(A), NEW e \in A, NEW S
  PROVE  /\ e \in S => Only(Append(s, e), S) = Append(Only(s, S), e)
         /\ e \notin S => Only(Append(s, e), S) = Only(s, S)
<1>1. PICK more \in Seq(A), n \in Nat : Appends(s, e, more, n)
  BY Appended
<1>2. more = Append(s, e) /\ n = Len(s)
  BY <1>1 DEF Appends
<1>3. /\ Len(more) = n + 1 /\ more[n + 1] = e
      /\ \A k \in 1 .. n : more[k] = s[k]
  BY <1>1 DEF Appends
<1>4. PICK f \in [0 .. Len(more) -> Seq(A)] : Selects(more, S, f) /\ Only(more, S) = f[Len(more)]
  BY OnlySelects
<1>5. PICK g \in [0 .. Len(s) -> Seq(A)] : Selects(s, S, g) /\ Only(s, S) = g[Len(s)]
  BY OnlySelects
<1>6. /\ f[0] = <<>> /\ g[0] = <<>>
      /\ \A k \in 1 .. (n + 1) : more[k] \in S => f[k] = Append(f[k - 1], more[k])
      /\ \A k \in 1 .. (n + 1) : more[k] \notin S => f[k] = f[k - 1]
      /\ \A k \in 1 .. n : s[k] \in S => g[k] = Append(g[k - 1], s[k])
      /\ \A k \in 1 .. n : s[k] \notin S => g[k] = g[k - 1]
  BY <1>2, <1>3, <1>4, <1>5 DEF Selects
<1> DEFINE T == {k \in Nat : k \in 0 .. n => f[k] = g[k]}
<1>7. 0 \in T
  BY <1>6
<1>8. ASSUME NEW k \in Nat, k \in T PROVE k + 1 \in T
  <2>1. SUFFICES ASSUME k + 1 \in 0 .. n PROVE f[k + 1] = g[k + 1]
    OBVIOUS
  <2>2. k \in 0 .. n /\ k + 1 \in 1 .. n /\ k + 1 \in 1 .. (n + 1) /\ (k + 1) - 1 = k
    BY <2>1
  <2>3. f[k] = g[k] /\ more[k + 1] = s[k + 1]
    BY <1>3, <1>8, <2>2
  <2> QED
    BY <1>6, <2>2, <2>3
<1> HIDE DEF T
<1>9. n \in T
  BY <1>7, <1>8, SetInduction
<1>10. f[n] = g[n]
  BY <1>9 DEF T
<1>11. n + 1 \in 1 .. (n + 1) /\ (n + 1) - 1 = n
  OBVIOUS
<1>12. /\ e \in S => Only(more, S) = Append(Only(s, S), e)
       /\ e \notin S => Only(more, S) = Only(s, S)
  <2>1. Only(more, S) = f[n + 1] /\ Only(s, S) = f[n]
    BY <1>2, <1>3, <1>4, <1>5, <1>10
  <2>2. /\ more[n + 1] \in S => f[n + 1] = Append(f[n], more[n + 1])
        /\ more[n + 1] \notin S => f[n + 1] = f[n]
    BY <1>6, <1>11
  <2> QED
    BY <1>3, <2>1, <2>2
<1> QED
  BY <1>2, <1>12

-----------------------------------------------------------------------------
(* Sums.                                                                    *)

Adds(numbers, f) ==
  /\ f[0] = 0
  /\ \A k \in 1 .. Len(numbers) : f[k] = f[k - 1] + numbers[k]

(* The recursive function that Total is defined by exists.                  *)
LEMMA TotalAdds ==
  ASSUME NEW numbers \in Seq(Nat)
  PROVE  \E f \in [0 .. Len(numbers) -> Nat] :
           Adds(numbers, f) /\ Total(numbers) = f[Len(numbers)]
<1> DEFINE n == Len(numbers)
           Body(g) == [i \in 0 .. n |-> IF i = 0 THEN 0 ELSE g[i - 1] + numbers[i]]
           f == CHOOSE g : g = Body(g)
           step == [x \in Nat \X Nat |-> IF x[2] \in 1 .. n THEN x[1] + numbers[x[2]] ELSE x[1]]
<1>1. n \in Nat /\ \A k \in 1 .. n : numbers[k] \in Nat
  OBVIOUS
<1>2. Total(numbers) = f[n]
  BY DEF Total
<1>3. step \in [Nat \X Nat -> Nat] /\ 0 \in Nat
  <2>1. ASSUME NEW x \in Nat \X Nat
        PROVE  (IF x[2] \in 1 .. n THEN x[1] + numbers[x[2]] ELSE x[1]) \in Nat
    <3>1. x[1] \in Nat
      OBVIOUS
    <3> HIDE DEF n
    <3> QED
      BY <1>1, <3>1
  <2> QED
    BY <2>1
<1>4. PICK g \in [0 .. n -> Nat] : g[0] = 0 /\ \A k \in 1 .. n : g[k] = step[<<g[k - 1], k>>]
  <2> HIDE DEF step, n
  <2>1. Iterations(Nat, 0, step, n) # {}
    BY <1>1, <1>3, RecursionExists
  <2> QED
    BY <2>1 DEF Iterations
<1>5. ASSUME NEW k \in 1 .. n PROVE g[k] = g[k - 1] + numbers[k]
  <2>1. k \in Nat /\ k - 1 \in 0 .. n
    BY <1>1
  <2> HIDE DEF n
  <2>2. g[k - 1] \in Nat /\ <<g[k - 1], k>> \in Nat \X Nat
    BY <1>4, <2>1
  <2>3. step[<<g[k - 1], k>>] = g[k - 1] + numbers[k]
    BY <2>1, <2>2
  <2> HIDE DEF step
  <2> QED
    BY <1>4, <2>3
<1>6. g = Body(g)
  <2>1. \A k \in 0 .. n : k # 0 => k \in 1 .. n
    BY <1>1
  <2> HIDE DEF n, step
  <2> QED
    BY <1>4, <1>5, <2>1
<1>7. f = Body(f)
  <2> HIDE DEF Body
  <2> QED
    BY <1>6
<1>8. \A k \in 0 .. n : f[k] = g[k]
  <2> DEFINE T == {k \in Nat : k \in 0 .. n => f[k] = g[k]}
  <2>1. 0 \in 0 .. n
    BY <1>1
  <2>2. f[0] = 0
    <3> HIDE DEF f, n
    <3> QED
      BY <1>7, <2>1
  <2>3. 0 \in T
    <3> HIDE DEF f, n
    <3> QED
      BY <1>4, <2>2
  <2>4. ASSUME NEW k \in Nat, k \in T PROVE k + 1 \in T
    <3>1. SUFFICES ASSUME k + 1 \in 0 .. n PROVE f[k + 1] = g[k + 1]
      OBVIOUS
    <3>2. k \in 0 .. n /\ k + 1 \in 1 .. n /\ k + 1 # 0 /\ (k + 1) - 1 = k
      BY <1>1, <3>1
    <3>3. f[k] = g[k]
      BY <2>4, <3>2
    <3>4. f[k + 1] = f[k] + numbers[k + 1]
      <4> HIDE DEF f, n
      <4> QED
        BY <1>7, <3>1, <3>2
    <3>5. g[k + 1] = g[k] + numbers[k + 1]
      <4> HIDE DEF f, n
      <4> QED
        BY <1>5, <3>2
    <3> HIDE DEF f, n
    <3> QED
      BY <3>3, <3>4, <3>5
  <2> HIDE DEF T
  <2>5. Nat \subseteq T
    BY <2>3, <2>4, SetInduction
  <2>6. ASSUME NEW k \in 0 .. n PROVE f[k] = g[k]
    <3>1. k \in Nat
      BY <1>1
    <3>2. k \in T
      BY <2>5, <3>1
    <3> HIDE DEF f, n
    <3> QED
      BY <3>2 DEF T
  <2> QED
    BY <2>6
<1>9. n \in 0 .. n
  BY <1>1
<1>10. Total(numbers) = g[n]
  <2> HIDE DEF f, n
  <2> QED
    BY <1>2, <1>8, <1>9
<1>11. Adds(numbers, g)
  <2> HIDE DEF step
  <2> QED
    BY <1>4, <1>5 DEF Adds
<1> QED
  BY <1>10, <1>11

LEMMA TotalOfNone == Total(<<>>) = 0
<1>1. PICK none \in Seq(Nat) : none = <<>> /\ Len(none) = 0
  BY NoElements
<1>2. PICK f \in [0 .. Len(none) -> Nat] : Adds(none, f) /\ Total(none) = f[Len(none)]
  BY TotalAdds
<1> QED
  BY <1>1, <1>2 DEF Adds

LEMMA TotalOfAppend ==
  ASSUME NEW numbers \in Seq(Nat), NEW e \in Nat
  PROVE  /\ Total(Append(numbers, e)) = Total(numbers) + e
         /\ Total(numbers) \in Nat
<1>1. PICK more \in Seq(Nat), n \in Nat : Appends(numbers, e, more, n)
  BY Appended
<1>2. more = Append(numbers, e) /\ n = Len(numbers)
  BY <1>1 DEF Appends
<1>3. /\ Len(more) = n + 1 /\ more[n + 1] = e
      /\ \A k \in 1 .. n : more[k] = numbers[k]
  BY <1>1 DEF Appends
<1>4. PICK f \in [0 .. Len(more) -> Nat] : Adds(more, f) /\ Total(more) = f[Len(more)]
  BY TotalAdds
<1>5. PICK g \in [0 .. Len(numbers) -> Nat] : Adds(numbers, g) /\ Total(numbers) = g[Len(numbers)]
  BY TotalAdds
<1>6. /\ f[0] = 0 /\ g[0] = 0
      /\ \A k \in 1 .. (n + 1) : f[k] = f[k - 1] + more[k]
      /\ \A k \in 1 .. n : g[k] = g[k - 1] + numbers[k]
  BY <1>2, <1>3, <1>4, <1>5 DEF Adds
<1> DEFINE T == {k \in Nat : k \in 0 .. n => f[k] = g[k]}
<1>7. 0 \in T
  BY <1>6
<1>8. ASSUME NEW k \in Nat, k \in T PROVE k + 1 \in T
  <2>1. SUFFICES ASSUME k + 1 \in 0 .. n PROVE f[k + 1] = g[k + 1]
    OBVIOUS
  <2>2. k \in 0 .. n /\ k + 1 \in 1 .. n /\ k + 1 \in 1 .. (n + 1) /\ (k + 1) - 1 = k
    BY <2>1
  <2>3. f[k] = g[k] /\ more[k + 1] = numbers[k + 1]
    BY <1>3, <1>8, <2>2
  <2> QED
    BY <1>6, <2>2, <2>3
<1> HIDE DEF T
<1>9. n \in T
  BY <1>7, <1>8, SetInduction
<1>10. f[n] = g[n]
  BY <1>9 DEF T
<1>11. n + 1 \in 1 .. (n + 1) /\ (n + 1) - 1 = n
  OBVIOUS
<1>12. Total(more) = Total(numbers) + e
  <2>1. Total(more) = f[n + 1] /\ Total(numbers) = f[n]
    BY <1>2, <1>3, <1>4, <1>5, <1>10
  <2>2. f[n + 1] = f[n] + more[n + 1]
    BY <1>6, <1>11
  <2> QED
    BY <1>3, <2>1, <2>2
<1>13. Total(numbers) \in Nat
  <2>1. n \in 0 .. Len(numbers)
    BY <1>2
  <2> QED
    BY <1>2, <1>5, <2>1
<1> QED
  BY <1>2, <1>12, <1>13
-----------------------------------------------------------------------------
(* Which elements are selected: the k-th one is at from[k], and the k-th  *)
(* of those that are in the set.                                            *)

Held(s, S, n) == {i \in 1 .. n : s[i] \in S}

Picked(s, S, o, from) ==
  /\ from \in [DOMAIN o -> DOMAIN s]
  /\ \A k \in DOMAIN o : o[k] = s[from[k]] /\ s[from[k]] \in S
  /\ \A k \in DOMAIN o : Cardinality(Held(s, S, from[k])) = k
  /\ \A i \in DOMAIN s : s[i] \in S => \E k \in DOMAIN o : from[k] = i
  /\ Len(o) = Cardinality(Held(s, S, Len(s)))

LEMMA HeldIsFinite ==
  ASSUME NEW s, NEW S, NEW n \in Nat
  PROVE  /\ IsFiniteSet(Held(s, S, n)) /\ Cardinality(Held(s, S, n)) \in Nat
         /\ s[n + 1] \in S => Cardinality(Held(s, S, n + 1)) = Cardinality(Held(s, S, n)) + 1
         /\ s[n + 1] \notin S => Held(s, S, n + 1) = Held(s, S, n)
<1>1. IsFiniteSet(1 .. n) /\ Held(s, S, n) \in SUBSET (1 .. n)
  BY FS_Interval DEF Held
<1>2. IsFiniteSet(Held(s, S, n)) /\ Cardinality(Held(s, S, n)) \in Nat
  BY <1>1, FS_Subset, FS_CardinalityType
<1>3. n + 1 \notin Held(s, S, n)
  BY DEF Held
<1>4. s[n + 1] \in S => Held(s, S, n + 1) = Held(s, S, n) \cup {n + 1}
  BY DEF Held
<1>5. s[n + 1] \notin S => Held(s, S, n + 1) = Held(s, S, n)
  BY DEF Held
<1>6. Cardinality(Held(s, S, n) \cup {n + 1}) = Cardinality(Held(s, S, n)) + 1
  BY <1>2, <1>3, FS_AddElement
<1> QED
  BY <1>2, <1>4, <1>5, <1>6

LEMMA PickedNone ==
  ASSUME NEW S, NEW none, none = <<>>, Len(none) = 0
  PROVE  Picked(none, S, none, none)
<1>1. DOMAIN none = {} /\ 1 .. 0 = {} /\ none \in [{} -> {}]
  OBVIOUS
<1>2. Held(none, S, 0) = {}
  BY DEF Held
<1> QED
  BY <1>1, <1>2, FS_EmptySet DEF Picked

(* One more element, which is in the set or not.                            *)
LEMMA PickedMore ==
  ASSUME NEW A, NEW s \in Seq(A), NEW e \in A, NEW S, NEW o \in Seq(A), NEW from, Picked(s, S, o, from),
         NEW more \in Seq(A), NEW n \in Nat, Appends(s, e, more, n), e \notin S
  PROVE  Picked(more, S, o, from)
<1>1. /\ Len(more) = n + 1 /\ DOMAIN more = 1 .. (n + 1) /\ DOMAIN s = 1 .. n /\ n = Len(s)
      /\ more[n + 1] = e
      /\ \A k \in 1 .. n : more[k] = s[k]
  BY DEF Appends
<1>2. /\ from \in [DOMAIN o -> DOMAIN s]
      /\ \A k \in DOMAIN o : o[k] = s[from[k]] /\ s[from[k]] \in S
      /\ \A k \in DOMAIN o : Cardinality(Held(s, S, from[k])) = k
      /\ \A i \in DOMAIN s : s[i] \in S => \E k \in DOMAIN o : from[k] = i
      /\ Len(o) = Cardinality(Held(s, S, Len(s)))
  BY DEF Picked
<1>3. \A m \in 1 .. n : Held(more, S, m) = Held(s, S, m)
  BY <1>1 DEF Held
<1>4. Held(more, S, n + 1) = Held(s, S, n)
  BY <1>1 DEF Held
<1>5. \A i \in DOMAIN more : i \in DOMAIN s \/ i = n + 1
  BY <1>1
<1>6. from \in [DOMAIN o -> DOMAIN more]
  BY <1>1, <1>2
<1>7. \A k \in DOMAIN o : from[k] \in 1 .. n
  BY <1>1, <1>2
<1>8. \A k \in DOMAIN o : o[k] = more[from[k]] /\ more[from[k]] \in S
  BY <1>1, <1>2, <1>7
<1>9. \A k \in DOMAIN o : Cardinality(Held(more, S, from[k])) = k
  BY <1>2, <1>3, <1>7
<1>10. \A i \in DOMAIN more : more[i] \in S => \E k \in DOMAIN o : from[k] = i
  BY <1>1, <1>2, <1>5
<1>11. Len(o) = Cardinality(Held(more, S, Len(more)))
  BY <1>1, <1>2, <1>4
<1> QED
  BY <1>6, <1>8, <1>9, <1>10, <1>11 DEF Picked

LEMMA PickedOneMore ==
  ASSUME NEW A, NEW s \in Seq(A), NEW e \in A, NEW S, NEW o \in Seq(A), NEW from, Picked(s, S, o, from),
         NEW more \in Seq(A), NEW n \in Nat, Appends(s, e, more, n), e \in S,
         NEW p \in Seq(A), NEW l \in Nat, Appends(o, e, p, l)
  PROVE  \E to : Picked(more, S, p, to)
<1>1. /\ Len(more) = n + 1 /\ DOMAIN more = 1 .. (n + 1) /\ DOMAIN s = 1 .. n /\ n = Len(s)
      /\ more[n + 1] = e
      /\ \A k \in 1 .. n : more[k] = s[k]
  BY DEF Appends
<1>2. /\ Len(p) = l + 1 /\ DOMAIN p = 1 .. (l + 1) /\ DOMAIN o = 1 .. l /\ l = Len(o)
      /\ p[l + 1] = e
      /\ \A k \in 1 .. l : p[k] = o[k]
  BY DEF Appends
<1>3. /\ from \in [1 .. l -> 1 .. n]
      /\ \A k \in 1 .. l : o[k] = s[from[k]] /\ s[from[k]] \in S
      /\ \A k \in 1 .. l : Cardinality(Held(s, S, from[k])) = k
      /\ \A i \in 1 .. n : s[i] \in S => \E k \in 1 .. l : from[k] = i
      /\ l = Cardinality(Held(s, S, n))
  BY <1>1, <1>2 DEF Picked
<1>4. \A m \in 1 .. n : Held(more, S, m) = Held(s, S, m)
  BY <1>1 DEF Held
<1>5. Held(more, S, n) = Held(s, S, n)
  BY <1>1 DEF Held
<1>6. Cardinality(Held(more, S, n + 1)) = l + 1
  BY <1>1, <1>3, <1>5, HeldIsFinite
<1>7. PICK to : to = [k \in 1 .. (l + 1) |-> IF k = l + 1 THEN n + 1 ELSE from[k]]
  OBVIOUS
<1>8. /\ DOMAIN to = 1 .. (l + 1) /\ to[l + 1] = n + 1
      /\ \A k \in 1 .. l : to[k] = from[k] /\ from[k] \in 1 .. n
      /\ l + 1 \in 1 .. (l + 1) /\ n + 1 \in 1 .. (n + 1)
  BY <1>3, <1>7
<1>9. \A k \in 1 .. (l + 1) : k \in 1 .. l \/ k = l + 1
  OBVIOUS
<1>10. \A i \in 1 .. (n + 1) : i \in 1 .. n \/ i = n + 1
  OBVIOUS
<1>11. \A k \in 1 .. l : k \in 1 .. (l + 1)
  OBVIOUS
<1>12. to \in [1 .. (l + 1) -> 1 .. (n + 1)]
  BY <1>3, <1>7, <1>9
<1>13. \A k \in 1 .. (l + 1) : p[k] = more[to[k]] /\ more[to[k]] \in S
  BY <1>1, <1>2, <1>3, <1>8, <1>9
<1>14. \A k \in 1 .. (l + 1) : Cardinality(Held(more, S, to[k])) = k
  <2>1. ASSUME NEW k \in 1 .. l PROVE Cardinality(Held(more, S, to[k])) = k
    BY <1>3, <1>4, <1>8
  <2>2. Cardinality(Held(more, S, to[l + 1])) = l + 1
    BY <1>6, <1>8
  <2>3. ASSUME NEW k \in 1 .. (l + 1) PROVE Cardinality(Held(more, S, to[k])) = k
    <3>1. CASE k = l + 1
      BY <2>2, <3>1
    <3>2. CASE k \in 1 .. l
      BY <2>1, <3>2
    <3> QED
      BY <1>9, <3>1, <3>2
  <2> QED
    BY <2>3
<1>15. \A i \in 1 .. (n + 1) : more[i] \in S => \E k \in 1 .. (l + 1) : to[k] = i
  <2>1. SUFFICES ASSUME NEW i \in 1 .. (n + 1), more[i] \in S
                 PROVE  \E k \in 1 .. (l + 1) : to[k] = i
    OBVIOUS
  <2>2. CASE i = n + 1
    BY <1>8, <2>2
  <2>3. CASE i \in 1 .. n
    <3>1. PICK k \in 1 .. l : from[k] = i
      BY <1>1, <1>3, <2>1, <2>3
    <3> QED
      BY <1>8, <1>11, <3>1
  <2> QED
    BY <1>10, <2>2, <2>3
<1>16. Picked(more, S, p, to)
  BY <1>1, <1>2, <1>6, <1>12, <1>13, <1>14, <1>15 DEF Picked
<1> QED
  BY <1>16

LEMMA OnlyPicks ==
  ASSUME NEW A, NEW s \in Seq(A), NEW S
  PROVE  /\ Only(s, S) \in Seq(A)
         /\ \E from : Picked(s, S, Only(s, S), from)
<1> DEFINE Right(r) == Only(r, S) \in Seq(A) /\ \E from : Picked(r, S, Only(r, S), from)
           T == {n \in Nat : \A r \in Seq(A) : Len(r) = n => Right(r)}
<1>1. 0 \in T
  <2>1. ASSUME NEW r \in Seq(A), Len(r) = 0 PROVE Right(r)
    <3>1. r = <<>>
      BY <2>1
    <3>2. Only(r, S) = r
      BY <3>1, OnlyOfNone
    <3> QED
      BY <2>1, <3>1, <3>2, PickedNone
  <2> QED
    BY <2>1
<1>2. ASSUME NEW n \in Nat, n \in T PROVE n + 1 \in T
  <2>1. SUFFICES ASSUME NEW r \in Seq(A), Len(r) = n + 1 PROVE Right(r)
    OBVIOUS
  <2>0. PICK q \in Seq(A), e \in A : OneLonger(r, q, e, n)
    BY <2>1, LastOff
  <2>2. Len(q) = n /\ r = Append(q, e)
    BY <2>0 DEF OneLonger
  <2>3. Right(q)
    BY <1>2, <2>2
  <2>4. PICK o \in Seq(A) : o = Only(q, S)
    BY <2>3
  <2>5. PICK from : Picked(q, S, o, from)
    BY <2>3, <2>4
  <2>6. PICK more \in Seq(A), m \in Nat : Appends(q, e, more, m)
    BY Appended
  <2>7. r = more
    BY <2>2, <2>6 DEF Appends
  <2>8. CASE e \notin S
    <3>1. Only(r, S) = o
      BY <2>2, <2>4, <2>8, OnlyOfAppend
    <3>2. Picked(more, S, o, from)
      BY <2>5, <2>6, <2>8, PickedMore
    <3> QED
      BY <2>7, <3>1, <3>2
  <2>9. CASE e \in S
    <3>1. PICK p \in Seq(A), l \in Nat : Appends(o, e, p, l)
      BY Appended
    <3>2. Only(r, S) = p
      <4>1. p = Append(o, e)
        BY <3>1 DEF Appends
      <4>2. Only(Append(q, e), S) = Append(Only(q, S), e)
        BY <2>9, OnlyOfAppend
      <4> QED
        BY <2>2, <2>4, <4>1, <4>2
    <3>3. \E to : Picked(more, S, p, to)
      BY <2>5, <2>6, <2>9, <3>1, PickedOneMore
    <3> QED
      BY <2>7, <3>2, <3>3
  <2> QED
    BY <2>8, <2>9
<1> HIDE DEF T
<1>3. Nat \subseteq T
  BY <1>1, <1>2, SetInduction
<1>4. PICK n \in Nat : n = Len(s)
  OBVIOUS
<1>5. n \in T
  BY <1>3
<1> QED
  BY <1>4, <1>5 DEF T

(* What is selected is what is in the set, and a repetition in it is one in *)
(* the sequence.                                                            *)
LEMMA OnlyIs ==
  ASSUME NEW A, NEW s \in Seq(A), NEW S
  PROVE  /\ Only(s, S) \in Seq(A)
         /\ ToSet(Only(s, S)) = {x \in ToSet(s) : x \in S}
         /\ IsInjective(s) => IsInjective(Only(s, S))
         /\ Len(Only(s, S)) = Cardinality(Held(s, S, Len(s)))
<1>1. PICK o \in Seq(A) : o = Only(s, S)
  BY OnlyPicks
<1>2. PICK from : Picked(s, S, o, from)
  BY <1>1, OnlyPicks
<1>3. /\ from \in [DOMAIN o -> DOMAIN s]
      /\ \A k \in DOMAIN o : o[k] = s[from[k]] /\ s[from[k]] \in S
      /\ \A k \in DOMAIN o : Cardinality(Held(s, S, from[k])) = k
      /\ \A i \in DOMAIN s : s[i] \in S => \E k \in DOMAIN o : from[k] = i
      /\ Len(o) = Cardinality(Held(s, S, Len(s)))
  BY <1>2 DEF Picked
<1>4. ToSet(o) = {x \in ToSet(s) : x \in S}
  <2>1. ASSUME NEW x \in ToSet(o) PROVE x \in ToSet(s) /\ x \in S
    BY <1>3 DEF ToSet
  <2>2. ASSUME NEW x \in ToSet(s), x \in S PROVE x \in ToSet(o)
    <3>1. PICK i \in DOMAIN s : s[i] = x
      BY DEF ToSet
    <3>2. PICK k \in DOMAIN o : from[k] = i
      BY <1>3, <2>2, <3>1
    <3> QED
      BY <1>3, <3>1, <3>2 DEF ToSet
  <2> QED
    BY <2>1, <2>2
<1>5. ASSUME IsInjective(s) PROVE IsInjective(o)
  <2>1. ASSUME NEW j \in DOMAIN o, NEW k \in DOMAIN o, o[j] = o[k] PROVE j = k
    <3>1. from[j] = from[k]
      BY <1>3, <1>5, <2>1 DEF IsInjective
    <3> QED
      BY <1>3, <3>1
  <2> QED
    BY <2>1 DEF IsInjective
<1> QED
  BY <1>1, <1>3, <1>4, <1>5

(* If the first elements are in the set, they are the first that are        *)
(* selected.                                                                *)
LEMMA OnlyPrefix ==
  ASSUME NEW A, NEW s \in Seq(A), NEW S, NEW m \in Nat, m <= Len(s), \A i \in 1 .. m : s[i] \in S
  PROVE  /\ m <= Len(Only(s, S))
         /\ \A i \in 1 .. m : Only(s, S)[i] = s[i]
<1>1. PICK o \in Seq(A) : o = Only(s, S)
  BY OnlyPicks
<1>2. PICK from : Picked(s, S, o, from)
  BY <1>1, OnlyPicks
<1>3. /\ \A k \in DOMAIN o : o[k] = s[from[k]]
      /\ \A k \in DOMAIN o : Cardinality(Held(s, S, from[k])) = k
      /\ \A i \in DOMAIN s : s[i] \in S => \E k \in DOMAIN o : from[k] = i
  BY <1>2 DEF Picked
<1>4. ASSUME NEW i \in 1 .. m PROVE i \in DOMAIN o /\ o[i] = s[i]
  <2>1. i \in DOMAIN s /\ s[i] \in S /\ i \in Nat
    OBVIOUS
  <2>2. PICK k \in DOMAIN o : from[k] = i
    BY <1>3, <2>1
  <2>3. Held(s, S, i) = 1 .. i
    BY DEF Held
  <2>4. Cardinality(1 .. i) = i
    BY <2>1, FS_Interval
  <2>5. k = i
    BY <1>3, <2>2, <2>3, <2>4
  <2> QED
    BY <1>3, <2>2, <2>5
<1>5. m <= Len(o)
  <2>1. CASE m = 0
    BY <2>1
  <2>2. CASE m # 0
    <3>1. m \in 1 .. m
      BY <2>2
    <3>2. m \in DOMAIN o
      BY <1>4, <3>1
    <3> QED
      BY <3>2
  <2> QED
    BY <2>1, <2>2
<1> QED
  BY <1>1, <1>4, <1>5

(* A sequence has as many different elements as it is long exactly when it  *)
(* repeats none.                                                            *)
LEMMA ElementsOf ==
  ASSUME NEW A, NEW s \in Seq(A)
  PROVE  /\ IsFiniteSet(ToSet(s)) /\ Cardinality(ToSet(s)) \in Nat
         /\ Cardinality(ToSet(s)) <= Len(s)
         /\ IsInjective(s) <=> Cardinality(ToSet(s)) = Len(s)
<1>1. PICK n \in Nat : n = Len(s) /\ DOMAIN s = 1 .. n
  OBVIOUS
<1>2. IsFiniteSet(1 .. n) /\ Cardinality(1 .. n) = n
  BY FS_Interval
<1>3. s \in Surjection(1 .. n, ToSet(s))
  <2>1. s \in [1 .. n -> ToSet(s)]
    BY <1>1 DEF ToSet
  <2>2. \A x \in ToSet(s) : \E i \in 1 .. n : s[i] = x
    BY <1>1 DEF ToSet
  <2> QED
    BY <2>1, <2>2 DEF Surjection
<1>4. /\ IsFiniteSet(ToSet(s)) /\ Cardinality(ToSet(s)) <= n
      /\ Cardinality(ToSet(s)) = n <=> s \in Injection(1 .. n, ToSet(s))
  BY <1>2, <1>3, FS_Surjection
<1>5. s \in Injection(1 .. n, ToSet(s)) <=> IsInjective(s)
  <2>1. s \in [1 .. n -> ToSet(s)]
    BY <1>1 DEF ToSet
  <2> QED
    BY <1>1, <2>1 DEF Injection, IsInjective
<1> QED
  BY <1>1, <1>4, <1>5, FS_CardinalityType

-----------------------------------------------------------------------------
(* How many elements precede a bin, and how many there are in all.          *)

LEMMA CounterSteps ==
  ASSUME NEW B, \A x \in B : Len(x) \in Nat, NEW bins \in Seq(B), NEW j \in 1 .. Len(bins)
  PROVE  /\ Counter(bins, j + 1) = Counter(bins, j) + Len(bins[j])
         /\ Counter(bins, j) \in Nat
<1>1. j \in Nat /\ (j + 1) - 1 = j /\ bins[j] \in B /\ Len(bins[j]) \in Nat
  OBVIOUS
<1>2. PICK f \in Seq(Nat) : f = [i \in 1 .. j - 1 |-> Len(bins[i])] /\ Len(f) = j - 1
  <2>1. \A i \in 1 .. j - 1 : bins[i] \in B /\ Len(bins[i]) \in Nat
    OBVIOUS
  <2>2. [i \in 1 .. j - 1 |-> Len(bins[i])] \in Seq(Nat)
    BY <2>1
  <2>3. \A f \in Seq(Nat) : f = [i \in 1 .. j - 1 |-> Len(bins[i])] => Len(f) = j - 1
    OBVIOUS
  <2> QED
    BY <2>2, <2>3
<1>3. PICK e \in Nat : e = Len(bins[j])
  BY <1>1
<1>4. PICK more \in Seq(Nat), n \in Nat : Appends(f, e, more, n)
  BY Appended
<1>5. [i \in 1 .. j |-> Len(bins[i])] = more
  <2>1. /\ DOMAIN more = 1 .. j /\ more[j] = e /\ \A k \in 1 .. j - 1 : more[k] = f[k]
    BY <1>2, <1>4 DEF Appends
  <2>2. \A k \in 1 .. j : k \in 1 .. j - 1 \/ k = j
    OBVIOUS
  <2>3. \A k \in 1 .. j : more[k] = Len(bins[k])
    BY <1>2, <1>3, <2>1, <2>2
  <2> QED
    BY <2>1, <2>3
<1>6. Total(more) = Total(f) + e /\ Total(f) \in Nat
  BY <1>4, TotalOfAppend DEF Appends
<1> QED
  BY <1>1, <1>2, <1>3, <1>5, <1>6 DEF Counter

LEMMA CounterOfFirst == \A bins : Counter(bins, 1) = 0
<1>1. ASSUME NEW bins PROVE [i \in 1 .. 1 - 1 |-> Len(bins[i])] = <<>>
  OBVIOUS
<1> QED
  BY <1>1, TotalOfNone DEF Counter

LEMMA CounterIsLocal ==
  ASSUME NEW bins, NEW others, NEW j \in Nat, \A i \in 1 .. j - 1 : bins[i] = others[i]
  PROVE  Counter(bins, j) = Counter(others, j)
<1>1. [i \in 1 .. j - 1 |-> Len(bins[i])] = [i \in 1 .. j - 1 |-> Len(others[i])]
  OBVIOUS
<1> QED
  BY <1>1 DEF Counter

Elements(bins) == Counter(bins, Len(bins) + 1)

LEMMA ElementsOfNone == Elements(<<>>) = 0
<1>1. PICK none \in Seq({}) : none = <<>> /\ Len(none) = 0
  BY NoElements
<1> QED
  BY <1>1, CounterOfFirst DEF Elements

LEMMA ElementsOfAppend ==
  ASSUME NEW B, \A x \in B : Len(x) \in Nat, NEW bins \in Seq(B), NEW bin \in B
  PROVE  Elements(Append(bins, bin)) = Elements(bins) + Len(bin)
<1>1. PICK more \in Seq(B), n \in Nat : Appends(bins, bin, more, n)
  BY Appended
<1>2. /\ more = Append(bins, bin) /\ n = Len(bins) /\ Len(more) = n + 1 /\ more[n + 1] = bin
      /\ \A k \in 1 .. n : more[k] = bins[k]
  BY <1>1 DEF Appends
<1>3. n + 1 \in 1 .. Len(more) /\ n + 1 \in Nat /\ (n + 1) - 1 = n
  BY <1>2
<1>4. Counter(more, (n + 1) + 1) = Counter(more, n + 1) + Len(bin)
  <2>1. Counter(more, (n + 1) + 1) = Counter(more, n + 1) + Len(more[n + 1])
    BY <1>3, CounterSteps
  <2> QED
    BY <1>2, <2>1
<1>5. Counter(more, n + 1) = Counter(bins, n + 1)
  <2>1. \A k \in 1 .. (n + 1) - 1 : more[k] = bins[k]
    BY <1>2, <1>3
  <2> QED
    BY <1>3, <2>1, CounterIsLocal
<1> QED
  BY <1>2, <1>4, <1>5 DEF Elements

(* Leaving out empty bins leaves out no element.                            *)
LEMMA ElementsOfFilled ==
  ASSUME NEW B, \A x \in B : Len(x) \in Nat, NEW bins \in Seq(B)
  PROVE  Elements(Only(bins, B \ {<<>>})) = Elements(bins) /\ Elements(bins) \in Nat
<1> DEFINE S == B \ {<<>>}
           Right(r) == Elements(Only(r, S)) = Elements(r) /\ Elements(r) \in Nat
           T == {n \in Nat : \A r \in Seq(B) : Len(r) = n => Right(r)}
<1>1. 0 \in T
  <2>1. ASSUME NEW r \in Seq(B), Len(r) = 0 PROVE Right(r)
    <3>1. r = <<>>
      BY <2>1
    <3> QED
      BY <3>1, OnlyOfNone, ElementsOfNone
  <2> QED
    BY <2>1
<1>2. ASSUME NEW n \in Nat, n \in T PROVE n + 1 \in T
  <2>0. \A r \in Seq(B) : Len(r) = n => Right(r)
    BY <1>2
  <2> HIDE DEF T, S
  <2>1. SUFFICES ASSUME NEW r \in Seq(B), Len(r) = n + 1 PROVE Right(r)
    BY DEF T
  <2>8. PICK q \in Seq(B), e \in B : OneLonger(r, q, e, n)
    BY <2>1, LastOff
  <2>2. Len(q) = n /\ r = Append(q, e)
    BY <2>8 DEF OneLonger
  <2>3. Right(q)
    BY <2>0, <2>2
  <2>4. PICK o \in Seq(B) : o = Only(q, S)
    BY OnlyPicks
  <2>5. Elements(r) = Elements(q) + Len(e) /\ Len(e) \in Nat
    BY <2>2, ElementsOfAppend
  <2>6. CASE e \in S
    <3>1. Only(r, S) = Append(o, e)
      BY <2>2, <2>4, <2>6, OnlyOfAppend
    <3>2. Elements(Append(o, e)) = Elements(o) + Len(e)
      BY ElementsOfAppend
    <3> QED
      BY <2>3, <2>4, <2>5, <3>1, <3>2
  <2>7. CASE e \notin S
    <3>1. Only(r, S) = o
      BY <2>2, <2>4, <2>7, OnlyOfAppend
    <3>2. e = <<>> /\ Len(e) = 0
      BY <2>7 DEF S
    <3> QED
      BY <2>3, <2>4, <2>5, <3>1, <3>2
  <2> QED
    BY <2>6, <2>7
<1> HIDE DEF T
<1>3. Nat \subseteq T
  BY <1>1, <1>2, SetInduction
<1>4. PICK n \in Nat : n = Len(bins)
  OBVIOUS
<1>5. n \in T
  BY <1>3
<1> QED
  BY <1>4, <1>5 DEF T


-----------------------------------------------------------------------------
(* The hashing tables.                                                      *)

LEMMA MaxIs ==
  ASSUME NEW S \in SUBSET Nat, NEW m \in Nat, \A x \in S : x <= m, 1 \in S
  PROVE  Max(S) \in Nat \ {0} /\ Max(S) \in S
<1> DEFINE Below(k) == \A x \in S : x <= k
           T == {k \in Nat : Below(k)}
<1>1. m \in T /\ T \in SUBSET Nat
  OBVIOUS
<1>2. PICK k \in T : \A j \in T : k <= j
  <2> HIDE DEF T
  <2> QED
    BY <1>1, LeastNumber
<1>3. k \in Nat /\ (\A x \in S : x <= k) /\ 1 <= k
  OBVIOUS
<1>4. k \in S
  <2>1. SUFFICES ASSUME k \notin S PROVE FALSE
    OBVIOUS
  <2>2. k - 1 \in Nat
    BY <1>3
  <2>3. \A x \in S : x <= k - 1
    BY <1>3, <2>1
  <2>4. k - 1 \in T
    BY <2>2, <2>3
  <2> HIDE DEF T
  <2> QED
    BY <1>2, <1>3, <2>4
<1>5. k \in S /\ \A y \in S : k >= y
  BY <1>3, <1>4
<1>6. Max(S) \in S /\ \A y \in S : Max(S) >= y
  <2> HIDE DEF T
  <2> QED
    BY <1>5 DEF Max
<1>7. Max(S) \in Nat
  BY <1>6
<1>8. Max(S) # 0
  BY <1>6
<1> QED
  BY <1>6, <1>7, <1>8

LEMMA BinSizeIs ==
  ASSUME NEW n \in Nat
  PROVE  BinSize(n) \in Nat \ {0}
<1> DEFINE Few(b) == n ^ b <= 2 ^ n
           S == {1} \cup {b \in 2 .. n \div 2 + 1 : Few(b)}
<1>1. BinSize(n) = Max(S)
  BY DEF BinSize
<1> HIDE DEF Few
<1>2. S \in SUBSET Nat /\ 1 \in S
  OBVIOUS
<1>3. PICK h \in Nat : h = n \div 2
  OBVIOUS
<1>4. \A x \in S : x <= h + 1
  BY <1>3
<1>5. h + 1 \in Nat
  BY <1>3
<1> HIDE DEF S
<1> QED
  BY <1>1, <1>2, <1>4, <1>5, MaxIs

(* What is chosen at the start.                                             *)
Given ==
  receiverInput \in ReceiverInputs /\ senderInput \in SenderInputs /\ hash \in HashFunctions

Bin == 1 .. Bins

LEMMA HashingIs ==
  ASSUME Given
  PROVE  /\ receiverInput \in Seq(Items) /\ Len(receiverInput) >= 2
         /\ senderInput \in Seq(Items) /\ Len(senderInput) >= 1
         /\ Bins \in Nat \ {0}
         /\ \A x \in Items : H_bin(x) \in 0 .. Bins - 1 /\ H_bin(x) + 1 \in Bin
         /\ \A x \in Items, i \in Bin : x \in Hashing(i) <=> H_bin(x) = i - 1
<1>1. /\ receiverInput \in Seq(Items) /\ Len(receiverInput) >= 2
      /\ senderInput \in Seq(Items) /\ Len(senderInput) >= 1
  BY InputsAssumption DEF Given
<1>2. Bins \in Nat \ {0}
  <2>1. Len(receiverInput) \in Nat
    BY <1>1
  <2> QED
    BY <2>1, BinSizeIs DEF Bins
<1>3. ASSUME NEW x \in Items PROVE H_bin(x) \in 0 .. Bins - 1 /\ H_bin(x) + 1 \in 1 .. Bins
  <2>1. hash[x] \in Nat
    BY HashAssumption DEF Given
  <2>2. PICK h \in Nat, b \in Nat \ {0} : h = hash[x] /\ b = Bins
    BY <1>2, <2>1
  <2>3. h % b \in 0 .. b - 1
    OBVIOUS
  <2> QED
    BY <2>2, <2>3 DEF H_bin
<1> QED
  BY <1>1, <1>2, <1>3 DEF Hashing, Bin

LEMMA TableIs ==
  ASSUME Given, NEW input \in Seq(Items)
  PROVE  /\ Table(input) \in Seq(Seq(Items)) /\ Len(Table(input)) = Bins
         /\ DOMAIN Table(input) = Bin
         /\ \A i \in Bin :
              /\ Table(input)[i] = Only(input, Hashing(i)) /\ Table(input)[i] \in Seq(Items)
              /\ Len(Table(input)[i]) = Cardinality(Held(input, Hashing(i), Len(input)))
              /\ ToSet(Table(input)[i]) = InBin(input, i - 1)
              /\ IsInjective(input) => IsInjective(Table(input)[i])
<1>1. Bins \in Nat \ {0}
  BY HashingIs
<1>2. ASSUME NEW i \in Bin
      PROVE  /\ Table(input)[i] = Only(input, Hashing(i)) /\ Table(input)[i] \in Seq(Items)
             /\ Len(Table(input)[i]) = Cardinality(Held(input, Hashing(i), Len(input)))
             /\ ToSet(Table(input)[i]) = InBin(input, i - 1)
             /\ IsInjective(input) => IsInjective(Table(input)[i])
  <2>1. Table(input)[i] = Only(input, Hashing(i))
    BY DEF Table, Bin
  <2>2. PICK o : o = Only(input, Hashing(i))
    OBVIOUS
  <2>3. /\ o \in Seq(Items) /\ ToSet(o) = {x \in ToSet(input) : x \in Hashing(i)}
        /\ IsInjective(input) => IsInjective(o)
        /\ Len(o) = Cardinality(Held(input, Hashing(i), Len(input)))
    BY <2>2, OnlyIs
  <2>4. \A x \in ToSet(input) : x \in Items
    BY DEF ToSet
  <2>5. {x \in ToSet(input) : x \in Hashing(i)} = InBin(input, i - 1)
    BY <2>4, HashingIs DEF InBin
  <2> QED
    BY <2>1, <2>2, <2>3, <2>5
<1>3. Table(input) \in [1 .. Bins -> Seq(Items)]
  BY <1>2 DEF Table, Bin
<1>4. PICK t : t = Table(input)
  OBVIOUS
<1>0. PICK n \in Nat : n = Bins
  BY <1>1
<1>5. t \in [1 .. n -> Seq(Items)]
  BY <1>0, <1>3, <1>4
<1>6. t \in Seq(Seq(Items)) /\ Len(t) = n /\ DOMAIN t = 1 .. n
  BY <1>5
<1> QED
  BY <1>0, <1>2, <1>4, <1>6 DEF Bin

LEMMA LengthsAreNumbers == \A A : \A x \in Seq(A) : Len(x) \in Nat
OBVIOUS

(* The elements of the bins before the j-th are those with a smaller hash.  *)
Smaller(input, b) == {i \in 1 .. Len(input) : H_bin(input[i]) < b}
Equal(input, b, n) == {i \in 1 .. n : H_bin(input[i]) = b}

LEMMA HeldAreEqual ==
  ASSUME Given, NEW input \in Seq(Items), NEW i \in Bin, NEW n \in 0 .. Len(input)
  PROVE  Held(input, Hashing(i), n) = Equal(input, i - 1, n)
<1>1. \A k \in 1 .. n : input[k] \in Items
  OBVIOUS
<1> QED
  BY <1>1, HashingIs DEF Held, Equal

LEMMA SmallerIsFinite ==
  ASSUME NEW input \in Seq(Items), NEW b, NEW n \in 0 .. Len(input)
  PROVE  /\ IsFiniteSet(Smaller(input, b)) /\ Cardinality(Smaller(input, b)) \in Nat
         /\ IsFiniteSet(Equal(input, b, n)) /\ Cardinality(Equal(input, b, n)) \in Nat
<1>1. Len(input) \in Nat /\ n \in Nat
  OBVIOUS
<1>2. IsFiniteSet(1 .. Len(input)) /\ IsFiniteSet(1 .. n)
  BY <1>1, FS_Interval
<1>3. Smaller(input, b) \in SUBSET (1 .. Len(input)) /\ Equal(input, b, n) \in SUBSET (1 .. n)
  BY DEF Smaller, Equal
<1> QED
  BY <1>2, <1>3, FS_Subset, FS_CardinalityType

(* Sizes of disjoint sets add up.                                           *)
LEMMA DisjointUnion ==
  ASSUME NEW S, NEW U, IsFiniteSet(S), IsFiniteSet(U), S \cap U = {}
  PROVE  Cardinality(S \cup U) = Cardinality(S) + Cardinality(U)
<1>1. Cardinality(S \cap U) = 0
  BY FS_EmptySet
<1>2. Cardinality(S) \in Nat /\ Cardinality(U) \in Nat
  BY FS_CardinalityType
<1> QED
  <2>1. Cardinality(S \cup U) = Cardinality(S) + Cardinality(U) - Cardinality(S \cap U)
    BY FS_Union
  <2>2. PICK s \in Nat, u \in Nat : s = Cardinality(S) /\ u = Cardinality(U)
    BY <1>2
  <2>3. Cardinality(S \cup U) = s + u - 0
    BY <1>1, <2>1, <2>2
  <2> QED
    BY <2>2, <2>3

LEMMA CounterIs ==
  ASSUME Given, NEW input \in Seq(Items), NEW j \in 1 .. Bins + 1
  PROVE  Counter(Table(input), j) = Cardinality(Smaller(input, j - 1))
<1> DEFINE T == {m \in Nat : m <= Bins => Counter(Table(input), m + 1) = Cardinality(Smaller(input, m))}
<1>0. Bins \in Nat /\ \A i \in 1 .. Len(input) : H_bin(input[i]) \in Nat
  <2>1. \A i \in 1 .. Len(input) : input[i] \in Items
    OBVIOUS
  <2>2. \A x \in Items : H_bin(x) \in 0 .. Bins - 1
    BY HashingIs
  <2>3. Bins \in Nat
    BY HashingIs
  <2> QED
    BY <2>1, <2>2, <2>3
<1>1. 0 \in T
  <2>1. Smaller(input, 0) = {}
    BY <1>0 DEF Smaller
  <2> QED
    <3>1. Counter(Table(input), 1) = 0
      BY CounterOfFirst
    <3>2. Cardinality(Smaller(input, 0)) = 0
      BY <2>1, FS_EmptySet
    <3> QED
      BY <3>1, <3>2
<1>2. ASSUME NEW m \in Nat, m \in T PROVE m + 1 \in T
  <2>1. m <= Bins => Counter(Table(input), m + 1) = Cardinality(Smaller(input, m))
    BY <1>2
  <2> HIDE DEF T
  <2>2. SUFFICES ASSUME m + 1 <= Bins
        PROVE  Counter(Table(input), (m + 1) + 1) = Cardinality(Smaller(input, m + 1))
    BY DEF T
  <2>3. m + 1 \in Bin /\ m + 1 \in 1 .. Bins /\ m <= Bins
    BY <1>0, <2>2 DEF Bin
  <2>4. PICK B : B = Seq(Items)
    OBVIOUS
  <2>5. \A x \in B : Len(x) \in Nat
    BY <2>4, LengthsAreNumbers
  <2>6. Table(input) \in Seq(B) /\ m + 1 \in 1 .. Len(Table(input))
    BY <2>3, <2>4, TableIs
  <2>7. Counter(Table(input), (m + 1) + 1) = Counter(Table(input), m + 1) + Len(Table(input)[m + 1])
    BY <2>5, <2>6, CounterSteps
  <2>8. Len(input) \in 0 .. Len(input) /\ (m + 1) - 1 = m
    OBVIOUS
  <2>9. Len(Table(input)[m + 1]) = Cardinality(Equal(input, m, Len(input)))
    <3>1. Held(input, Hashing(m + 1), Len(input)) = Equal(input, (m + 1) - 1, Len(input))
      BY <2>3, <2>8, HeldAreEqual
    <3>2. Len(Table(input)[m + 1]) = Cardinality(Held(input, Hashing(m + 1), Len(input)))
      BY <2>3, TableIs
    <3> QED
      BY <2>8, <3>1, <3>2
  <2>10. /\ Smaller(input, m + 1) = Smaller(input, m) \cup Equal(input, m, Len(input))
         /\ Smaller(input, m) \cap Equal(input, m, Len(input)) = {}
    <3>1. ASSUME NEW i \in 1 .. Len(input)
          PROVE  /\ H_bin(input[i]) < m + 1 <=> H_bin(input[i]) < m \/ H_bin(input[i]) = m
                 /\ ~ (H_bin(input[i]) < m /\ H_bin(input[i]) = m)
      <4>1. PICK h \in Nat : h = H_bin(input[i])
        BY <1>0
      <4>2. (h < m + 1 <=> h < m \/ h = m) /\ ~ (h < m /\ h = m)
        OBVIOUS
      <4> QED
        BY <4>1, <4>2
    <3> QED
      BY <3>1 DEF Smaller, Equal
  <2>11. Cardinality(Smaller(input, m + 1))
           = Cardinality(Smaller(input, m)) + Cardinality(Equal(input, m, Len(input)))
    BY <2>8, <2>10, SmallerIsFinite, DisjointUnion
  <2> QED
    BY <2>1, <2>3, <2>7, <2>9, <2>11
<1> HIDE DEF T
<1>3. Nat \subseteq T
  BY <1>1, <1>2, SetInduction
<1>4. j - 1 \in Nat /\ j - 1 <= Bins /\ (j - 1) + 1 = j
  BY <1>0
<1>5. j - 1 \in T
  BY <1>3, <1>4
<1> QED
  BY <1>4, <1>5 DEF T

(* All of the input is in the table.                                        *)
LEMMA TableHoldsAll ==
  ASSUME Given, NEW input \in Seq(Items)
  PROVE  Elements(Table(input)) = Len(input)
<1>0. Bins \in Nat
  BY HashingIs
<1>1. Bins \in Nat /\ Len(Table(input)) = Bins /\ Bins + 1 \in 1 .. Bins + 1 /\ (Bins + 1) - 1 = Bins
  <2>1. Len(Table(input)) = Bins
    BY TableIs
  <2> QED
    BY <1>0, <2>1
<1>2. Elements(Table(input)) = Cardinality(Smaller(input, Bins))
  BY <1>1, CounterIs DEF Elements
<1>3. \A i \in 1 .. Len(input) : H_bin(input[i]) < Bins
  <2>1. \A i \in 1 .. Len(input) : input[i] \in Items
    OBVIOUS
  <2>2. \A x \in Items : H_bin(x) \in 0 .. Bins - 1
    BY HashingIs
  <2> QED
    BY <1>1, <2>1, <2>2
<1>4. Smaller(input, Bins) = 1 .. Len(input)
  BY <1>3 DEF Smaller
<1>5. Len(input) \in Nat
  OBVIOUS
<1>6. Cardinality(1 .. Len(input)) = Len(input)
  <2>1. \A n \in Nat : Cardinality(1 .. n) = n
    BY FS_Interval
  <2> QED
    BY <1>5, <2>1
<1> QED
  BY <1>2, <1>4, <1>6

-----------------------------------------------------------------------------
(* What a bin that can or cannot be interpolated says of the input.         *)

Few(input, least, most) ==
  \E b \in 0 .. Bins - 1 : Cardinality(InBin(input, b)) \in least .. most

(* A repetition in the sequence is one in the selection.                    *)
LEMMA OnlyRepeats ==
  ASSUME NEW A, NEW s \in Seq(A), NEW S, NEW i \in DOMAIN s, NEW j \in DOMAIN s,
         i # j, s[i] = s[j], s[i] \in S
  PROVE  ~ IsInjective(Only(s, S))
<1>1. PICK o : o = Only(s, S)
  OBVIOUS
<1>2. PICK from : Picked(s, S, o, from)
  BY <1>1, OnlyPicks
<1>3. /\ \A k \in DOMAIN o : o[k] = s[from[k]]
      /\ \A m \in DOMAIN s : s[m] \in S => \E k \in DOMAIN o : from[k] = m
  BY <1>2 DEF Picked
<1>4. PICK k \in DOMAIN o : from[k] = i
  BY <1>3
<1>5. PICK l \in DOMAIN o : from[l] = j
  BY <1>3
<1>6. o[k] = o[l] /\ k # l
  BY <1>3, <1>4, <1>5
<1> QED
  BY <1>1, <1>6 DEF IsInjective

LEMMA RepeatsAre ==
  ASSUME Given, NEW input \in Seq(Items)
  PROVE  /\ Repeats(input) <=> ~ IsInjective(input)
         /\ (\A i \in Bin : IsInjective(Table(input)[i])) <=> IsInjective(input)
<1>1. Repeats(input) <=> ~ IsInjective(input)
  <2>1. PICK c \in Nat, n \in Nat : c = Cardinality(ToSet(input)) /\ n = Len(input)
    BY ElementsOf
  <2>2. c <= n /\ (IsInjective(input) <=> c = n)
    BY <2>1, ElementsOf
  <2>3. c < n <=> c # n
    BY <2>2
  <2> QED
    BY <2>1, <2>2, <2>3 DEF Repeats
<1>2. ASSUME ~ IsInjective(input) PROVE \E i \in Bin : ~ IsInjective(Table(input)[i])
  <2>1. PICK j \in DOMAIN input, k \in DOMAIN input : input[j] = input[k] /\ j # k
    BY <1>2 DEF IsInjective
  <2>2. input[j] \in Items
    OBVIOUS
  <2>3. PICK i \in Bin : input[j] \in Hashing(i)
    <3>1. H_bin(input[j]) + 1 \in Bin /\ H_bin(input[j]) \in 0 .. Bins - 1
      BY <2>2, HashingIs
    <3>2. H_bin(input[j]) = (H_bin(input[j]) + 1) - 1
      BY <3>1
    <3>3. input[j] \in Hashing(H_bin(input[j]) + 1)
      BY <2>2, <3>2 DEF Hashing
    <3> QED
      BY <3>1, <3>3
  <2>4. ~ IsInjective(Only(input, Hashing(i)))
    BY <2>1, <2>3, OnlyRepeats
  <2> QED
    BY <2>4, TableIs
<1>3. IsInjective(input) => \A i \in Bin : IsInjective(Table(input)[i])
  BY TableIs
<1> QED
  BY <1>1, <1>2, <1>3

LEMMA BinIs ==
  ASSUME Given, NEW input \in Seq(Items), NEW i \in Bin
  PROVE  \E c \in Nat, n \in Nat :
           /\ c = Cardinality(InBin(input, i - 1)) /\ n = Len(Table(input)[i])
           /\ c <= n /\ (IsInjective(Table(input)[i]) <=> c = n)
           /\ c = 0 <=> Table(input)[i] = <<>>
<1>1. PICK o \in Seq(Items) : o = Table(input)[i]
  BY TableIs
<1>2. ToSet(o) = InBin(input, i - 1)
  BY <1>1, TableIs
<1>3. PICK c \in Nat, n \in Nat : c = Cardinality(ToSet(o)) /\ n = Len(o)
  BY ElementsOf
<1>4. c <= n /\ (IsInjective(o) <=> c = n) /\ IsFiniteSet(ToSet(o))
  BY <1>3, ElementsOf
<1>5. c = 0 <=> o = <<>>
  <2>1. c = 0 <=> ToSet(o) = {}
    BY <1>3, <1>4, FS_EmptySet
  <2>2. ToSet(o) = {} <=> DOMAIN o = {}
    BY DEF ToSet
  <2>3. DOMAIN o = {} <=> o = <<>>
    OBVIOUS
  <2> QED
    BY <2>1, <2>2, <2>3
<1> QED
  BY <1>1, <1>2, <1>3, <1>4, <1>5

(* A bin that cannot be interpolated.                                       *)
LEMMA TooFew ==
  ASSUME Given, NEW input \in Seq(Items), NEW i \in Bin, ~ Interpolates(Table(input)[i])
  PROVE  /\ Few(input, 0, 1) \/ Repeats(input)
         /\ Table(input)[i] # <<>> => Few(input, 1, 1) \/ Repeats(input)
<1>1. PICK c \in Nat, n \in Nat :
        /\ c = Cardinality(InBin(input, i - 1)) /\ n = Len(Table(input)[i])
        /\ c <= n /\ (IsInjective(Table(input)[i]) <=> c = n)
        /\ c = 0 <=> Table(input)[i] = <<>>
  BY BinIs
<1>2. i - 1 \in 0 .. Bins - 1
  BY HashingIs DEF Bin
<1>3. CASE ~ IsInjective(Table(input)[i])
  BY <1>3, RepeatsAre
<1>4. CASE IsInjective(Table(input)[i])
  <2>1. n < 2
    BY <1>1, <1>4 DEF Interpolates
  <2>2. c \in 0 .. 1 /\ (Table(input)[i] # <<>> => c \in 1 .. 1)
    BY <1>1, <2>1
  <2> QED
    BY <1>1, <1>2, <2>2 DEF Few
<1> QED
  BY <1>3, <1>4

(* Bins that all can be.                                                    *)
LEMMA Enough ==
  ASSUME Given, NEW input \in Seq(Items), \A i \in Bin : Interpolates(Table(input)[i])
  PROVE  ~ Few(input, 0, 1) /\ ~ Repeats(input)
<1>1. ~ Repeats(input)
  BY RepeatsAre DEF Interpolates
<1>2. ASSUME NEW b \in 0 .. Bins - 1 PROVE Cardinality(InBin(input, b)) \notin 0 .. 1
  <2>1. b + 1 \in Bin /\ (b + 1) - 1 = b
    BY HashingIs DEF Bin
  <2>2. PICK c \in Nat, n \in Nat :
          /\ c = Cardinality(InBin(input, (b + 1) - 1)) /\ n = Len(Table(input)[b + 1])
          /\ c <= n /\ (IsInjective(Table(input)[b + 1]) <=> c = n)
          /\ c = 0 <=> Table(input)[b + 1] = <<>>
    BY <2>1, BinIs
  <2>3. n >= 2 /\ IsInjective(Table(input)[b + 1])
    BY <2>1, <2>2 DEF Interpolates
  <2>4. c \notin 0 .. 1
    BY <2>2, <2>3
  <2> QED
    BY <2>1, <2>2, <2>4
<1> QED
  BY <1>1, <1>2 DEF Few

-----------------------------------------------------------------------------
(* The receiver's bins that get a polynomial.                               *)

LEMMA ReceiverBinsAre ==
  ASSUME Given
  PROVE  /\ ReceiverBins \in Seq(Seq(Items))
         /\ \A j \in DOMAIN ReceiverBins :
              \E i \in Bin : Table(receiverInput)[i] # <<>> /\ ReceiverBins[j] = Table(receiverInput)[i]
         /\ \A i \in Bin : Table(receiverInput)[i] # <<>> =>
              \E j \in DOMAIN ReceiverBins : ReceiverBins[j] = Table(receiverInput)[i]
         /\ Elements(ReceiverBins) = Len(receiverInput)
         /\ Len(ReceiverBins) = Cardinality({i \in Bin : Table(receiverInput)[i] # <<>>})
<1>1. PICK t : t = Table(receiverInput)
  OBVIOUS
<1>2. PICK B : B = Seq(Items)
  OBVIOUS
<1>3. t \in Seq(B) /\ Len(t) = Bins /\ DOMAIN t = Bin /\ \A i \in Bin : t[i] \in B
  BY <1>1, <1>2, HashingIs, TableIs
<1>4. PICK S : S = B \ {<<>>}
  OBVIOUS
<1>5. ReceiverBins = Only(t, S)
  BY <1>1, <1>2, <1>4 DEF ReceiverBins
<1>6. PICK o \in Seq(B) : o = Only(t, S)
  BY <1>3, OnlyPicks
<1>7. PICK from : Picked(t, S, o, from)
  BY <1>3, <1>6, OnlyPicks
<1>8. /\ from \in [DOMAIN o -> DOMAIN t]
      /\ \A k \in DOMAIN o : o[k] = t[from[k]] /\ t[from[k]] \in S
      /\ \A i \in DOMAIN t : t[i] \in S => \E k \in DOMAIN o : from[k] = i
      /\ Len(o) = Cardinality(Held(t, S, Len(t)))
  BY <1>7 DEF Picked
<1>9. \A j \in DOMAIN o : from[j] \in Bin /\ t[from[j]] # <<>> /\ o[j] = t[from[j]]
  BY <1>3, <1>4, <1>8
<1>10. \A i \in Bin : t[i] # <<>> => \E j \in DOMAIN o : o[j] = t[i]
  <2>1. ASSUME NEW i \in Bin, t[i] # <<>> PROVE \E j \in DOMAIN o : o[j] = t[i]
    <3>1. t[i] \in S /\ i \in DOMAIN t
      BY <1>3, <1>4, <2>1
    <3>2. PICK j \in DOMAIN o : from[j] = i
      BY <1>8, <3>1
    <3> QED
      BY <1>8, <3>2
  <2> QED
    BY <2>1
<1>11. \A x \in B : Len(x) \in Nat
  BY <1>2, LengthsAreNumbers
<1>12. Elements(o) = Elements(t)
  BY <1>3, <1>4, <1>6, <1>11, ElementsOfFilled
<1>13. Elements(t) = Len(receiverInput)
  BY <1>1, HashingIs, TableHoldsAll
<1>14. Held(t, S, Len(t)) = {i \in Bin : t[i] # <<>>}
  BY <1>3, <1>4 DEF Held, Bin
<1> QED
  BY <1>1, <1>2, <1>5, <1>6, <1>8, <1>9, <1>10, <1>12, <1>13, <1>14

(* Bins in front of which none is empty are where they were.                *)
LEMMA FirstBins ==
  ASSUME Given, NEW m \in 0 .. Bins, \A i \in 1 .. m : Table(receiverInput)[i] # <<>>
  PROVE  /\ m <= Len(ReceiverBins)
         /\ \A i \in 1 .. m : ReceiverBins[i] = Table(receiverInput)[i]
         /\ \A j \in 1 .. m + 1 : Counter(ReceiverBins, j) = Counter(Table(receiverInput), j)
<1>1. PICK t : t = Table(receiverInput)
  OBVIOUS
<1>2. PICK B : B = Seq(Items)
  OBVIOUS
<1>0. Bins \in Nat
  BY HashingIs
<1>3. t \in Seq(B) /\ Len(t) = Bins /\ \A i \in Bin : t[i] \in B
  BY <1>1, <1>2, HashingIs, TableIs
<1>4. PICK S : S = B \ {<<>>}
  OBVIOUS
<1>5. ReceiverBins = Only(t, S)
  BY <1>1, <1>2, <1>4 DEF ReceiverBins
<1>6. m \in Nat /\ m <= Len(t) /\ \A i \in 1 .. m : i \in Bin
  BY <1>0, <1>3 DEF Bin
<1>7. \A i \in 1 .. m : t[i] \in S
  BY <1>1, <1>3, <1>4, <1>6
<1>8. m <= Len(Only(t, S)) /\ \A i \in 1 .. m : Only(t, S)[i] = t[i]
  BY <1>3, <1>6, <1>7, OnlyPrefix
<1>9. ASSUME NEW j \in 1 .. m + 1 PROVE Counter(ReceiverBins, j) = Counter(t, j)
  <2>1. j \in Nat /\ \A i \in 1 .. j - 1 : ReceiverBins[i] = t[i]
    BY <1>5, <1>6, <1>8
  <2> QED
    BY <2>1, CounterIsLocal
<1> QED
  BY <1>1, <1>5, <1>8, <1>9

(* Where an input of the receiver is in the order of its bins.              *)
LEMMA PlaceIs ==
  ASSUME Given, IsInjective(receiverInput), NEW b \in Bin, NEW k \in DOMAIN Table(receiverInput)[b]
  PROVE  Counter(Table(receiverInput), b) + k = Place(Table(receiverInput)[b][k])
<1>1. PICK s \in Seq(Items) : s = receiverInput
  BY HashingIs
<1>2. PICK o \in Seq(Items) : o = Table(s)[b] /\ o = Only(s, Hashing(b))
  BY <1>1, TableIs
<1>3. PICK from : Picked(s, Hashing(b), o, from)
  BY <1>2, OnlyPicks
<1>4. PICK x : x = o[k]
  OBVIOUS
<1>5. k \in DOMAIN o /\ k \in Nat
  BY <1>1, <1>2
<1>6. PICK i \in DOMAIN s : from[k] = i
  BY <1>3, <1>5 DEF Picked
<1>7. x = s[i] /\ x \in Hashing(b) /\ Cardinality(Held(s, Hashing(b), i)) = k
  BY <1>3, <1>4, <1>5, <1>6 DEF Picked
<1>8. (CHOOSE j \in DOMAIN receiverInput : receiverInput[j] = x) = i
  BY <1>1, <1>7 DEF IsInjective
<1>9. /\ H_bin(x) = b - 1 /\ b - 1 \in Nat /\ i \in Nat /\ i - 1 \in Nat /\ i - 1 \in 0 .. Len(s)
      /\ i \in 0 .. Len(s) /\ (i - 1) + 1 = i /\ DOMAIN s = 1 .. Len(s)
  <2>1. b \in Nat /\ b >= 1
    BY HashingIs DEF Bin
  <2>2. H_bin(x) = b - 1
    BY <1>7 DEF Hashing
  <2>3. i \in 1 .. Len(s) /\ DOMAIN s = 1 .. Len(s) /\ Len(s) \in Nat
    BY <1>6
  <2> QED
    BY <2>1, <2>2, <2>3
<1>10. Held(s, Hashing(b), i) = Equal(s, b - 1, i)
  BY <1>9, HeldAreEqual
<1>11. k = Cardinality(Equal(s, b - 1, i - 1)) + 1
  <2>1. Held(s, Hashing(b), i - 1) = Equal(s, b - 1, i - 1)
    BY <1>9, HeldAreEqual
  <2>2. s[(i - 1) + 1] \in Hashing(b)
    BY <1>7, <1>9
  <2>3. Cardinality(Held(s, Hashing(b), (i - 1) + 1)) = Cardinality(Held(s, Hashing(b), i - 1)) + 1
    BY <1>9, <2>2, HeldIsFinite
  <2> QED
    BY <1>7, <1>9, <2>1, <2>3
<1>12. Counter(Table(s), b) = Cardinality(Smaller(s, b - 1))
  <2>1. b \in 1 .. Bins + 1
    BY HashingIs DEF Bin
  <2> QED
    BY <2>1, CounterIs
<1>13. {j \in DOMAIN receiverInput :
          LET c == H_bin(receiverInput[j]) IN c < H_bin(x) \/ (c = H_bin(x) /\ j < i)}
         = Smaller(s, b - 1) \cup Equal(s, b - 1, i - 1)
  <2>1. \A j \in 1 .. i - 1 : j \in 1 .. Len(s) /\ j < i
    BY <1>9
  <2>2. \A j \in 1 .. Len(s) : j < i => j \in 1 .. i - 1
    BY <1>9
  <2> QED
    BY <1>1, <1>9, <2>1, <2>2 DEF Smaller, Equal
<1>14. Smaller(s, b - 1) \cap Equal(s, b - 1, i - 1) = {}
  <2>1. ~ (b - 1 < b - 1)
    BY <1>9
  <2> QED
    BY <2>1 DEF Smaller, Equal
<1>15. Cardinality(Smaller(s, b - 1) \cup Equal(s, b - 1, i - 1))
         = Cardinality(Smaller(s, b - 1)) + Cardinality(Equal(s, b - 1, i - 1))
  BY <1>9, <1>14, SmallerIsFinite, DisjointUnion
<1>16. Place(x) = 1 + Cardinality(Smaller(s, b - 1) \cup Equal(s, b - 1, i - 1))
  BY <1>8, <1>13 DEF Place
<1>17. PICK c \in Nat, d \in Nat :
         c = Cardinality(Smaller(s, b - 1)) /\ d = Cardinality(Equal(s, b - 1, i - 1))
  BY <1>9, SmallerIsFinite
<1>18. Counter(Table(s), b) + k = Place(x)
  <2>1. Counter(Table(s), b) = c /\ k = d + 1 /\ Place(x) = 1 + (c + d)
    BY <1>11, <1>12, <1>15, <1>16, <1>17
  <2> QED
    BY <2>1
<1> QED
  BY <1>1, <1>2, <1>4, <1>18

-----------------------------------------------------------------------------
(* The invariant.                                                           *)

(* The polynomials of the receiver's bins, which all can be interpolated.   *)
Polynomials ==
  [j \in DOMAIN ReceiverBins |->
     Through(ReceiverBins[j],
             [k \in DOMAIN ReceiverBins[j] |-> Message(Counter(ReceiverBins, j) + k)])]

Committed ==
  at \in {"commit_Sender", "check", "evaluate", "interpolate", "intersect", "returned"} =>
    /\ \A j \in DOMAIN ReceiverBins : Interpolates(ReceiverBins[j])
    /\ polys = Polynomials
    /\ receiverRoot = Merkle_Root_Receiver(polys)

SenderCommitted ==
  at \in {"check", "evaluate", "interpolate", "intersect"} =>
    senderRoot = Merkle_Root_Sender(senderInput, merkle_leaves)

(* After n of the sender's inputs its table holds those, each found in a    *)
(* bin with a polynomial, and keys were put behind as many zero keys as     *)
(* there are inputs.                                                        *)
EvaluatedTo(n) ==
  /\ T_Sender = Table(SubSeq(senderInput, 1, n))
  /\ \A i \in 1 .. n : H_bin(senderInput[i]) + 1 \in DOMAIN polys
  /\ k_values \in Seq(ToSet(k_values))
  /\ Len(k_values) = Len(senderInput) + n
  /\ \A m \in 1 .. Len(senderInput) : k_values[m] = ZeroKey

Evaluating ==
  /\ at = "evaluate" => \E n \in 0 .. Len(senderInput) - 1 : EvaluatedTo(n)
  /\ at = "interpolate" => EvaluatedTo(Len(senderInput))

Full(input) == ~ Few(input, 0, 1) /\ ~ Repeats(input)

(* How the program ends.                                                    *)
Passed == at \in {"intersect", "returned"} => Full(receiverInput) /\ Full(senderInput)

Failed ==
  /\ at = "threw" => \/ Few(receiverInput, 1, 1) \/ Repeats(receiverInput)
                     \/ Few(senderInput, 0, 1) \/ Repeats(senderInput)
  /\ at = "undefined" => Few(receiverInput, 0, 0)

IInv ==
  /\ TypeOK /\ Committed /\ SenderCommitted /\ Evaluating
  /\ Passed /\ Failed /\ SenderRecoversMessages

LEMMA OutcomeIs == Passed /\ Failed => TablesDecideTheOutcome
BY DEF Passed, Failed, Full, Few, TablesDecideTheOutcome

LEMMA GivenIs == TypeOK => Given
BY DEF TypeOK, Given

(* What depends on the inputs only does not change with anything else.      *)
LEMMA InputsStay ==
  ASSUME UNCHANGED inputs
  PROVE  /\ receiverInput' = receiverInput /\ senderInput' = senderInput /\ hash' = hash
         /\ Bins' = Bins /\ Bin' = Bin /\ (\A x : H_bin(x)' = H_bin(x))
         /\ (\A s : Table(s)' = Table(s)) /\ (\A s, b : InBin(s, b)' = InBin(s, b))
         /\ ReceiverBins' = ReceiverBins /\ Polynomials' = Polynomials
         /\ (\A s, l, m : Few(s, l, m)' = Few(s, l, m)) /\ (\A x : Place(x)' = Place(x))
<1>1. receiverInput' = receiverInput /\ senderInput' = senderInput /\ hash' = hash
  BY DEF inputs
<1>2. Bins' = Bins /\ Bin' = Bin
  BY <1>1 DEF Bins, Bin
<1>3. ASSUME NEW x PROVE H_bin(x)' = H_bin(x)
  BY <1>1, <1>2 DEF H_bin
<1>4. ASSUME NEW s PROVE Table(s)' = Table(s)
  BY <1>1, <1>2 DEF Table, Hashing, H_bin
<1>5. ReceiverBins' = ReceiverBins
  BY <1>1, <1>4 DEF ReceiverBins
<1>6. Polynomials' = Polynomials
  BY <1>5 DEF Polynomials
<1>7. ASSUME NEW s, NEW b PROVE InBin(s, b)' = InBin(s, b)
  BY <1>1, <1>2 DEF InBin, H_bin
<1>8. ASSUME NEW s, NEW l, NEW m PROVE Few(s, l, m)' = Few(s, l, m)
  BY <1>2, <1>7 DEF Few
<1>9. ASSUME NEW x PROVE Place(x)' = Place(x)
  BY <1>1, <1>2 DEF Place, H_bin
<1> QED
  BY <1>1, <1>2, <1>3, <1>4, <1>5, <1>6, <1>7, <1>8, <1>9

(* An evaluated prefix of the sender's inputs.                              *)
LEMMA EvaluatedIs ==
  ASSUME Given, NEW n \in 0 .. Len(senderInput), EvaluatedTo(n)
  PROVE  /\ SubSeq(senderInput, 1, n) \in Seq(Items) /\ Len(SubSeq(senderInput, 1, n)) = n
         /\ T_Sender \in [1 .. Bins -> Seq(Items)] /\ Evaluated = n
<1>1. PICK s \in Seq(Items) : s = senderInput
  BY HashingIs
<1>2. SubSeq(s, 1, n) \in Seq(Items) /\ Len(SubSeq(s, 1, n)) = n
  BY <1>1
<1>3. PICK p \in Seq(Items) : p = SubSeq(senderInput, 1, n) /\ Len(p) = n
  BY <1>1, <1>2
<1>4. T_Sender = Table(p)
  BY <1>3 DEF EvaluatedTo
<1>5. Elements(T_Sender) = n
  BY <1>3, <1>4, TableHoldsAll
<1>6. T_Sender \in [Bin -> Seq(Items)]
  <2>1. DOMAIN Table(p) = Bin /\ \A i \in Bin : Table(p)[i] \in Seq(Items)
    BY TableIs
  <2>2. Table(p) = [i \in 1 .. Bins |-> Only(p, Hashing(i))]
    BY DEF Table
  <2> QED
    BY <1>4, <2>1, <2>2
<1>7. Evaluated = Elements(T_Sender)
  <2>1. PICK B : B = Seq(Items)
    OBVIOUS
  <2>2. PICK t \in Seq(B) : t = T_Sender
    BY <1>4, <2>1, TableIs
  <2>3. DOMAIN t = 1 .. (Len(t) + 1) - 1
    OBVIOUS
  <2> QED
    BY <2>2, <2>3 DEF Evaluated, Elements, Counter
<1> QED
  BY <1>3, <1>5, <1>6, <1>7 DEF Bin

LEMMA TableOfNone == Table(<<>>) = [i \in 1 .. Bins |-> <<>>]
BY OnlyOfNone DEF Table

LEMMA TableOfAppend ==
  ASSUME Given, NEW s \in Seq(Items), NEW x \in Items
  PROVE  Table(Append(s, x)) = [Table(s) EXCEPT ![H_bin(x) + 1] = Append(@, x)]
<1>1. H_bin(x) + 1 \in Bin /\ \A i \in Bin : x \in Hashing(i) <=> H_bin(x) = i - 1
  BY HashingIs
<1>2. H_bin(x) \in Nat /\ Bins \in Nat
  BY HashingIs
<1>3. \A i \in Bin : x \in Hashing(i) <=> i = H_bin(x) + 1
  BY <1>1, <1>2 DEF Bin
<1>4. \A i \in Bin : /\ i = H_bin(x) + 1 => Only(Append(s, x), Hashing(i)) = Append(Only(s, Hashing(i)), x)
                     /\ i # H_bin(x) + 1 => Only(Append(s, x), Hashing(i)) = Only(s, Hashing(i))
  BY <1>3, OnlyOfAppend
<1>5. PICK r : r = Append(s, x)
  OBVIOUS
<1>6. \A i \in Bin : /\ i = H_bin(x) + 1 => Only(r, Hashing(i)) = Append(Only(s, Hashing(i)), x)
                     /\ i # H_bin(x) + 1 => Only(r, Hashing(i)) = Only(s, Hashing(i))
  BY <1>4, <1>5
<1>7. Table(r) = [Table(s) EXCEPT ![H_bin(x) + 1] = Append(@, x)]
  BY <1>1, <1>6 DEF Table, Bin
<1> QED
  BY <1>5, <1>7

-----------------------------------------------------------------------------
(* The receiver's polynomials.                                              *)

LEMMA PolynomialsAre ==
  ASSUME Given, \A j \in DOMAIN ReceiverBins : Interpolates(ReceiverBins[j])
  PROVE  /\ IsInjective(receiverInput)
         /\ DOMAIN Polynomials = DOMAIN ReceiverBins
         /\ \A j \in DOMAIN Polynomials :
              /\ Coefficients(Polynomials[j]) = Len(ReceiverBins[j])
              /\ Coefficients(Polynomials[j]) >= 2
              /\ DOMAIN Polynomials[j] = ToSet(ReceiverBins[j])
              /\ \A k \in DOMAIN ReceiverBins[j] :
                   Polynomials[j][ReceiverBins[j][k]] = Message(Counter(ReceiverBins, j) + k)
         /\ Total([j \in DOMAIN Polynomials |-> Coefficients(Polynomials[j])]) = Len(receiverInput)
<1>1. IsInjective(receiverInput)
  <2>1. SUFFICES ASSUME NEW i \in Bin PROVE IsInjective(Table(receiverInput)[i])
    BY HashingIs, RepeatsAre
  <2>2. CASE Table(receiverInput)[i] = <<>>
    BY <2>2 DEF IsInjective
  <2>3. CASE Table(receiverInput)[i] # <<>>
    BY <2>3, ReceiverBinsAre DEF Interpolates
  <2> QED
    BY <2>2, <2>3
<1>2. DOMAIN Polynomials = DOMAIN ReceiverBins
  BY DEF Polynomials
<1>3. ASSUME NEW j \in DOMAIN ReceiverBins
      PROVE  /\ Coefficients(Polynomials[j]) = Len(ReceiverBins[j])
             /\ Coefficients(Polynomials[j]) >= 2
             /\ DOMAIN Polynomials[j] = ToSet(ReceiverBins[j])
             /\ \A k \in DOMAIN ReceiverBins[j] :
                  Polynomials[j][ReceiverBins[j][k]] = Message(Counter(ReceiverBins, j) + k)
  <2>1. PICK xs \in Seq(Items) : xs = ReceiverBins[j]
    <3>1. ReceiverBins \in Seq(Seq(Items))
      BY ReceiverBinsAre
    <3> QED
      BY <3>1
  <2>2. PICK ys : ys = [k \in DOMAIN xs |-> Message(Counter(ReceiverBins, j) + k)]
    OBVIOUS
  <2>3. PICK poly : poly = Polynomials[j]
    OBVIOUS
  <2>4. poly = Through(xs, ys)
    BY <2>1, <2>2, <2>3 DEF Polynomials
  <2>5. IsInjective(xs) /\ Len(xs) >= 2
    BY <2>1 DEF Interpolates
  <2>6. DOMAIN poly = ToSet(xs)
    BY <2>4 DEF Through
  <2>7. Cardinality(ToSet(xs)) = Len(xs)
    BY <2>5, ElementsOf
  <2>8. ASSUME NEW k \in DOMAIN xs PROVE poly[xs[k]] = Message(Counter(ReceiverBins, j) + k)
    <3>1. xs[k] \in ToSet(xs)
      BY DEF ToSet
    <3>2. (CHOOSE i \in DOMAIN xs : xs[i] = xs[k]) = k
      BY <2>5 DEF IsInjective
    <3>3. poly[xs[k]] = ys[k]
      BY <2>4, <3>1, <3>2 DEF Through
    <3> QED
      BY <2>2, <3>3
  <2> QED
    BY <2>1, <2>3, <2>5, <2>6, <2>7, <2>8 DEF Coefficients
<1>4. Total([j \in DOMAIN Polynomials |-> Coefficients(Polynomials[j])]) = Len(receiverInput)
  <2>1. PICK B : B = Seq(Items)
    OBVIOUS
  <2>2. PICK r \in Seq(B) : r = ReceiverBins
    BY <2>1, ReceiverBinsAre
  <2>3. DOMAIN r = 1 .. (Len(r) + 1) - 1
    OBVIOUS
  <2>4. [j \in DOMAIN Polynomials |-> Coefficients(Polynomials[j])]
          = [i \in 1 .. (Len(r) + 1) - 1 |-> Len(r[i])]
    BY <1>2, <1>3, <2>2, <2>3
  <2>5. Elements(r) = Len(receiverInput)
    BY <2>2, ReceiverBinsAre
  <2> QED
    BY <2>4, <2>5 DEF Elements, Counter
<1> QED
  BY <1>1, <1>2, <1>3, <1>4

-----------------------------------------------------------------------------
(* The steps.                                                               *)

LEMMA InitIs == Init => IInv
<1> SUFFICES ASSUME Init PROVE IInv
  OBVIOUS
<1>1. Given
  BY DEF Init, Given
<1>2. TypeOK
  BY DEF Init, TypeOK
<1>3. Committed /\ SenderCommitted /\ Evaluating /\ Passed /\ Failed
  BY DEF Init, Committed, SenderCommitted, Evaluating, Passed, Failed
<1>4. SenderRecoversMessages
  <2>1. Len(senderInput) \in Nat /\ Len(k_values) = 0
    BY <1>1, HashingIs DEF Init
  <2>2. Len(senderInput) + 1 .. Len(k_values) = {}
    BY <2>1
  <2> QED
    BY <2>2 DEF SenderRecoversMessages
<1> QED
  BY <1>2, <1>3, <1>4 DEF IInv

(* A step that leaves keys and inputs alone leaves the recovered messages.  *)
LEMMA RecoveredStays ==
  ASSUME SenderRecoversMessages, UNCHANGED inputs, k_values' = k_values
  PROVE  SenderRecoversMessages'
BY InputsStay DEF SenderRecoversMessages

LEMMA StutterKeeps == IInv /\ UNCHANGED vars => IInv'
<1> SUFFICES ASSUME IInv, UNCHANGED vars PROVE IInv'
  OBVIOUS
<1>1. /\ UNCHANGED inputs /\ at' = at /\ polys' = polys /\ receiverRoot' = receiverRoot
      /\ merkle_leaves' = merkle_leaves /\ senderRoot' = senderRoot /\ T_Sender' = T_Sender
      /\ k_values' = k_values /\ P_Sender' = P_Sender
  BY DEF vars, commitments, locals
<1>2. TypeOK'
  BY <1>1, InputsStay DEF IInv, TypeOK, Evaluated
<1>3. Committed'
  BY <1>1, InputsStay DEF IInv, Committed
<1>4. SenderCommitted'
  BY <1>1, InputsStay DEF IInv, SenderCommitted
<1>5. Evaluating'
  <2>1. \A x : H_bin(x)' = H_bin(x)
    BY <1>1, InputsStay
  <2>2. \A s : Table(s)' = Table(s)
    BY <1>1, InputsStay
  <2>3. senderInput' = senderInput
    BY <1>1, InputsStay
  <2>4. ASSUME NEW n PROVE EvaluatedTo(n)' = EvaluatedTo(n)
    BY <1>1, <2>1, <2>2, <2>3 DEF EvaluatedTo
  <2> QED
    BY <1>1, <2>3, <2>4 DEF IInv, Evaluating
<1>6. Passed' /\ Failed'
  BY <1>1, InputsStay DEF IInv, Passed, Failed, Full, Repeats
<1>7. SenderRecoversMessages'
  BY <1>1, RecoveredStays DEF IInv
<1> QED
  BY <1>2, <1>3, <1>4, <1>5, <1>6, <1>7 DEF IInv

LEMMA CommitReceiverKeeps == IInv /\ CommitReceiver => IInv'
<1> SUFFICES ASSUME IInv, CommitReceiver PROVE IInv'
  OBVIOUS
<1>0. /\ at = "commit_Receiver" /\ UNCHANGED inputs /\ k_values' = k_values
      /\ at' \in {"commit_Sender", "threw"}
  BY DEF CommitReceiver, Throw, locals
<1>1. Given /\ receiverInput \in Seq(Items)
  BY GivenIs, HashingIs DEF IInv
<1>2. TypeOK'
  BY <1>0, InputsStay DEF IInv, TypeOK
<1>3. SenderCommitted' /\ Evaluating' /\ Passed'
  BY <1>0 DEF SenderCommitted, Evaluating, Passed
<1>4. SenderRecoversMessages'
  BY <1>0, RecoveredStays DEF IInv
<1>5. CASE \A j \in DOMAIN ReceiverBins : Interpolates(ReceiverBins[j])
  <2>1. /\ at' = "commit_Sender" /\ polys' = Polynomials
        /\ receiverRoot' = Merkle_Root_Receiver(polys')
    BY <1>5 DEF CommitReceiver, Polynomials
  <2>2. Committed'
    BY <1>0, <1>5, <2>1, InputsStay DEF Committed
  <2>3. Failed'
    BY <2>1 DEF Failed
  <2> QED
    BY <1>2, <1>3, <1>4, <2>2, <2>3 DEF IInv
<1>6. CASE ~ \A j \in DOMAIN ReceiverBins : Interpolates(ReceiverBins[j])
  <2>1. at' = "threw"
    BY <1>6 DEF CommitReceiver, Throw
  <2>2. PICK i \in Bin : Table(receiverInput)[i] # <<>> /\ ~ Interpolates(Table(receiverInput)[i])
    BY <1>1, <1>6, ReceiverBinsAre
  <2>3. Few(receiverInput, 1, 1) \/ Repeats(receiverInput)
    BY <1>1, <2>2, TooFew
  <2>4. Committed'
    BY <2>1 DEF Committed
  <2>5. Failed'
    BY <1>0, <2>1, <2>3, InputsStay DEF Failed, Repeats
  <2> QED
    BY <1>2, <1>3, <1>4, <2>4, <2>5 DEF IInv
<1> QED
  BY <1>5, <1>6

LEMMA CommitSenderKeeps == IInv /\ CommitSender => IInv'
<1> SUFFICES ASSUME IInv, CommitSender PROVE IInv'
  OBVIOUS
<1>0. /\ at = "commit_Sender" /\ UNCHANGED inputs /\ k_values' = k_values /\ at' = "check"
      /\ polys' = polys /\ receiverRoot' = receiverRoot
  BY DEF CommitSender, locals
<1>1. TypeOK'
  BY <1>0, InputsStay DEF IInv, TypeOK
<1>2. Committed'
  BY <1>0, InputsStay DEF IInv, Committed
<1>3. SenderCommitted'
  BY <1>0, InputsStay DEF CommitSender, SenderCommitted
<1>4. Evaluating' /\ Passed' /\ Failed'
  BY <1>0 DEF Evaluating, Passed, Failed
<1>5. SenderRecoversMessages'
  BY <1>0, RecoveredStays DEF IInv
<1> QED
  BY <1>1, <1>2, <1>3, <1>4, <1>5 DEF IInv

(* While the sender evaluates, the types follow from how far it is.         *)
EvaluatedTypes ==
  \A n \in Nat : Given /\ n <= Len(senderInput) /\ EvaluatedTo(n) =>
    T_Sender \in [1 .. Bins -> Seq(Items)] /\ Evaluated = n

LEMMA EvaluatedFor == EvaluatedTypes
<1> SUFFICES ASSUME NEW n \in Nat, Given, n <= Len(senderInput), EvaluatedTo(n)
             PROVE  T_Sender \in [1 .. Bins -> Seq(Items)] /\ Evaluated = n
  BY DEF EvaluatedTypes
<1>1. Len(senderInput) \in Nat
  BY HashingIs
<1>2. n \in 0 .. Len(senderInput)
  BY <1>1
<1> QED
  BY <1>2, EvaluatedIs

LEMMA EvaluatingTypes ==
  ASSUME TypeOK, UNCHANGED inputs, at' \in {"evaluate", "interpolate"},
         NEW n \in Nat, n <= Len(senderInput), EvaluatedTo(n)'
  PROVE  TypeOK'
<1>1. senderInput' = senderInput /\ receiverInput' = receiverInput /\ hash' = hash /\ Bins' = Bins
  BY InputsStay
<1>2. Given'
  BY <1>1 DEF TypeOK, Given
<1>3. Len(senderInput) \in Nat
  BY GivenIs, HashingIs
<1>4. EvaluatedTypes'
  BY EvaluatedFor, PTL
<1>5. T_Sender' \in [1 .. Bins' -> Seq(Items)] /\ Evaluated' = n
  BY <1>1, <1>2, <1>4 DEF EvaluatedTypes
<1>6. Len(k_values)' = Len(senderInput)' + n
  BY DEF EvaluatedTo
<1>7. Evaluated' \in 0 .. Len(senderInput')
  BY <1>1, <1>3, <1>5
<1>8. Len(k_values') = Len(senderInput') + Evaluated'
  BY <1>5, <1>6
<1>9. receiverInput' \in ReceiverInputs /\ senderInput' \in SenderInputs /\ hash' \in HashFunctions
  BY <1>2 DEF Given
<1> QED
  BY <1>5, <1>7, <1>8, <1>9 DEF TypeOK

LEMMA OfItsElements ==
  ASSUME NEW A, NEW s \in Seq(A)
  PROVE  s \in Seq(ToSet(s))
<1>1. s \in [1 .. Len(s) -> ToSet(s)] /\ Len(s) \in Nat
  BY DEF ToSet
<1> QED
  BY <1>1

(* The checks of an honest receiver's polynomials succeed.                  *)
LEMMA SenderChecksKeeps == IInv /\ SenderChecks => IInv'
<1> SUFFICES ASSUME IInv, SenderChecks PROVE IInv'
  OBVIOUS
<1>0. at = "check" /\ TypeOK /\ Given
  BY GivenIs DEF SenderChecks, IInv
<1>1. /\ \A j \in DOMAIN ReceiverBins : Interpolates(ReceiverBins[j])
      /\ polys = Polynomials /\ receiverRoot = Merkle_Root_Receiver(polys)
  BY <1>0 DEF IInv, Committed
<1>2. /\ \A j \in DOMAIN polys : Coefficients(polys[j]) >= 2
      /\ Total([j \in DOMAIN polys |-> Coefficients(polys[j])]) = Len(receiverInput)
  BY <1>0, <1>1, PolynomialsAre
<1>3. /\ T_Sender' = [i \in 1 .. Bins |-> <<>>]
      /\ k_values' = [i \in DOMAIN senderInput |-> ZeroKey]
      /\ at' = "evaluate" /\ UNCHANGED inputs
      /\ polys' = polys /\ receiverRoot' = receiverRoot
      /\ merkle_leaves' = merkle_leaves /\ senderRoot' = senderRoot
  BY <1>1, <1>2 DEF SenderChecks, commitments
<1>4. PICK s \in Seq(Items) : s = senderInput /\ Len(s) >= 1 /\ Len(s) \in Nat
  BY <1>0, HashingIs
<1>5. k_values' \in Seq({ZeroKey}) /\ Len(k_values') = Len(s) /\ \A m \in 1 .. Len(s) : k_values'[m] = ZeroKey
  BY <1>3, <1>4
<1>6. k_values' \in Seq(ToSet(k_values'))
  BY <1>5, OfItsElements
<1>7. EvaluatedTo(0)'
  <2>1. SubSeq(s, 1, 0) = <<>>
    BY <1>4
  <2>2. T_Sender' = Table(SubSeq(s, 1, 0))
    BY <1>3, <2>1, TableOfNone
  <2>3. senderInput' = s /\ \A t : Table(t)' = Table(t)
    BY <1>3, <1>4, InputsStay
  <2>4. T_Sender' = Table(SubSeq(senderInput, 1, 0))'
    BY <2>2, <2>3
  <2>5. Len(k_values') = Len(senderInput') + 0 /\ \A m \in 1 .. Len(senderInput') : k_values'[m] = ZeroKey
    BY <1>4, <1>5, <2>3
  <2>6. \A i \in 1 .. 0 : FALSE
    OBVIOUS
  <2> QED
    BY <1>6, <2>4, <2>5, <2>6 DEF EvaluatedTo
<1>8. TypeOK'
  BY <1>0, <1>3, <1>4, <1>7, EvaluatingTypes
<1>9. Committed'
  BY <1>1, <1>3, InputsStay DEF Committed
<1>10. SenderCommitted'
  BY <1>0, <1>3, InputsStay DEF IInv, SenderCommitted
<1>11. Evaluating'
  <2>1. 0 \in 0 .. Len(senderInput') - 1
    BY <1>3, <1>4, InputsStay
  <2> QED
    BY <1>3, <1>7, <2>1 DEF Evaluating
<1>12. Passed' /\ Failed'
  BY <1>3 DEF Passed, Failed
<1>13. SenderRecoversMessages'
  <2>1. Len(senderInput') + 1 .. Len(k_values') = {}
    BY <1>3, <1>4, <1>5, InputsStay
  <2> QED
    BY <2>1 DEF SenderRecoversMessages
<1> QED
  BY <1>8, <1>9, <1>10, <1>11, <1>12, <1>13 DEF IInv

(* The bin of an input has a polynomial unless a bin up to it is empty.     *)
LEMMA FilledUpTo ==
  ASSUME Given, NEW i \in Bin, \A h \in 1 .. i : Table(receiverInput)[h] # <<>>
  PROVE  /\ i \in DOMAIN ReceiverBins /\ ReceiverBins[i] = Table(receiverInput)[i]
         /\ Counter(ReceiverBins, i) = Counter(Table(receiverInput), i)
<1>1. Bins \in Nat /\ i \in 0 .. Bins /\ i \in 1 .. i /\ i \in 1 .. i + 1 /\ i \in Nat \ {0}
  <2>1. PICK n \in Nat : n = Bins
    BY HashingIs
  <2>2. i \in 1 .. n
    BY <2>1 DEF Bin
  <2> QED
    BY <2>1, <2>2
<1>2. /\ i <= Len(ReceiverBins) /\ ReceiverBins[i] = Table(receiverInput)[i]
      /\ Counter(ReceiverBins, i) = Counter(Table(receiverInput), i)
  BY <1>1, FirstBins
<1>3. i \in DOMAIN ReceiverBins
  <2>1. ReceiverBins \in Seq(Seq(Items))
    BY ReceiverBinsAre
  <2> QED
    BY <1>1, <1>2, <2>1
<1> QED
  BY <1>2, <1>3

LEMMA NoPolynomial ==
  ASSUME Given, NEW i \in Bin, i \notin DOMAIN ReceiverBins
  PROVE  Few(receiverInput, 0, 0)
<1>1. PICK h \in 1 .. i : Table(receiverInput)[h] = <<>>
  BY FilledUpTo
<1>2. Bins \in Nat /\ h \in Bin /\ h - 1 \in 0 .. Bins - 1
  <2>1. Bins \in Nat
    BY HashingIs
  <2> QED
    BY <2>1 DEF Bin
<1>3. Cardinality(InBin(receiverInput, h - 1)) = 0
  BY <1>1, <1>2, HashingIs, BinIs
<1> QED
  BY <1>2, <1>3 DEF Few

(* The polynomial of its bin has, at an input of the receiver, the message  *)
(* assigned to it.                                                          *)
LEMMA MessageIs ==
  ASSUME Given, \A j \in DOMAIN ReceiverBins : Interpolates(ReceiverBins[j]),
         NEW x \in ToSet(receiverInput),
         \A b \in 0 .. H_bin(x) : InBin(receiverInput, b) # {}
  PROVE  evaluate_poly(Polynomials[H_bin(x) + 1], x) = Message(Place(x))
<1>1. receiverInput \in Seq(Items) /\ x \in Items
  BY HashingIs DEF ToSet
<1>2. PICK i \in Bin : i = H_bin(x) + 1
  BY <1>1, HashingIs
<1>3. Bins \in Nat /\ i \in 1 .. Bins /\ H_bin(x) = i - 1
  BY <1>1, <1>2, HashingIs DEF Bin
<1>4. ASSUME NEW h \in 1 .. i PROVE Table(receiverInput)[h] # <<>>
  <2>1. h \in Bin /\ h - 1 \in 0 .. H_bin(x)
    BY <1>3 DEF Bin
  <2>2. ToSet(Table(receiverInput)[h]) = InBin(receiverInput, h - 1)
    BY <1>1, <2>1, TableIs
  <2>3. ToSet(<<>>) = {}
    BY DEF ToSet
  <2> QED
    BY <2>1, <2>2, <2>3
<1>5. /\ i \in DOMAIN ReceiverBins /\ ReceiverBins[i] = Table(receiverInput)[i]
      /\ Counter(ReceiverBins, i) = Counter(Table(receiverInput), i)
  BY <1>4, FilledUpTo
<1>6. x \in ToSet(Table(receiverInput)[i])
  <2>1. ToSet(Table(receiverInput)[i]) = InBin(receiverInput, i - 1)
    BY <1>1, TableIs
  <2> QED
    BY <1>3, <2>1 DEF InBin
<1>7. PICK k \in DOMAIN Table(receiverInput)[i] : Table(receiverInput)[i][k] = x
  BY <1>6 DEF ToSet
<1>8. /\ IsInjective(receiverInput) /\ DOMAIN Polynomials[i] = ToSet(ReceiverBins[i])
      /\ Polynomials[i][ReceiverBins[i][k]] = Message(Counter(ReceiverBins, i) + k)
  BY <1>5, <1>7, PolynomialsAre
<1>9. Polynomials[i][x] = Message(Place(x))
  <2>1. Counter(Table(receiverInput), i) + k = Place(Table(receiverInput)[i][k])
    BY <1>7, <1>8, PlaceIs
  <2> QED
    BY <1>5, <1>7, <1>8, <2>1
<1> QED
  BY <1>2, <1>5, <1>6, <1>8, <1>9 DEF evaluate_poly

LEMMA NextOfPrefix ==
  ASSUME NEW A, NEW s \in Seq(A), NEW n \in 0 .. Len(s) - 1
  PROVE  SubSeq(s, 1, n + 1) = Append(SubSeq(s, 1, n), s[n + 1])
<1>1. Len(s) \in Nat /\ n \in Nat /\ n + 1 <= Len(s)
  OBVIOUS
<1>2. /\ SubSeq(s, 1, n) \in Seq(A) /\ Len(SubSeq(s, 1, n)) = n /\ s[n + 1] \in A
      /\ \A i \in 1 .. n : SubSeq(s, 1, n)[i] = s[i]
  BY <1>1
<1>3. PICK more \in Seq(A), m \in Nat : Appends(SubSeq(s, 1, n), s[n + 1], more, m)
  BY <1>2, Appended
<1>4. /\ more = Append(SubSeq(s, 1, n), s[n + 1]) /\ Len(more) = n + 1 /\ more[n + 1] = s[n + 1]
      /\ \A i \in 1 .. n : more[i] = s[i]
  BY <1>2, <1>3 DEF Appends
<1>5. PICK prefix \in Seq(A) : prefix = SubSeq(s, 1, n + 1)
  <2>1. SubSeq(s, 1, n + 1) \in Seq(A)
    BY <1>1
  <2> QED
    BY <2>1
<1>6. Len(prefix) = n + 1 /\ \A i \in 1 .. n + 1 : prefix[i] = s[i]
  BY <1>1, <1>5
<1>7. \A i \in 1 .. n + 1 : prefix[i] = more[i]
  BY <1>1, <1>4, <1>6
<1>8. prefix = more
  BY <1>4, <1>6, <1>7
<1> QED
  BY <1>4, <1>5, <1>8

(* A step of the loop: the next input goes into its bin, its key behind the *)
(* others.                                                                  *)
LEMMA EvaluateKeeps == IInv /\ Evaluate => IInv'
<1> SUFFICES ASSUME IInv, Evaluate PROVE IInv'
  OBVIOUS
<1>0. at = "evaluate" /\ TypeOK /\ Given
  BY GivenIs DEF Evaluate, IInv
<1>1. /\ \A j \in DOMAIN ReceiverBins : Interpolates(ReceiverBins[j])
      /\ polys = Polynomials /\ receiverRoot = Merkle_Root_Receiver(polys)
  BY <1>0 DEF IInv, Committed
<1>2. PICK n \in 0 .. Len(senderInput) - 1 : EvaluatedTo(n)
  BY <1>0 DEF IInv, Evaluating
<1>3. PICK s \in Seq(Items), l \in Nat : s = senderInput /\ l = Len(s) /\ l >= 1
  BY <1>0, HashingIs
<1>4. n \in Nat /\ n + 1 <= l /\ n \in 0 .. Len(s) - 1 /\ n \in 0 .. Len(senderInput)
  BY <1>2, <1>3
<1>5. Evaluated = n
  BY <1>0, <1>2, <1>4, EvaluatedIs
<1>6. PICK x \in Items : x = senderInput[n + 1]
  BY <1>3, <1>4
<1>7. H_bin(x) + 1 \in Bin
  BY <1>0, HashingIs
<1>8. UNCHANGED inputs /\ polys' = polys /\ receiverRoot' = receiverRoot
      /\ merkle_leaves' = merkle_leaves /\ senderRoot' = senderRoot
  BY DEF Evaluate, commitments
<1>9. DOMAIN polys = DOMAIN ReceiverBins
  BY <1>1 DEF Polynomials
<1>10. senderInput' = s /\ receiverInput' = receiverInput
  BY <1>3, <1>8, InputsStay
<1>11. CASE H_bin(x) + 1 \notin DOMAIN polys
  <2>1. at' = "undefined" /\ k_values' = k_values
    BY <1>5, <1>6, <1>11 DEF Evaluate
  <2>2. Few(receiverInput, 0, 0)
    BY <1>0, <1>7, <1>9, <1>11, NoPolynomial
  <2>3. TypeOK'
    BY <1>0, <1>8, <2>1, InputsStay DEF TypeOK
  <2>4. Failed'
    BY <1>8, <1>10, <2>1, <2>2, InputsStay DEF Failed
  <2>5. Committed' /\ SenderCommitted' /\ Evaluating' /\ Passed'
    BY <2>1 DEF Committed, SenderCommitted, Evaluating, Passed
  <2>6. SenderRecoversMessages'
    BY <1>8, <2>1, RecoveredStays DEF IInv
  <2> QED
    BY <2>3, <2>4, <2>5, <2>6 DEF IInv
<1>12. CASE H_bin(x) + 1 \in DOMAIN polys
  <2>1. PICK key : key = Key(Power(evaluate_poly(polys[H_bin(x) + 1], x)))
    OBVIOUS
  <2>2. /\ k_values' = Append(k_values, key)
        /\ T_Sender' = [T_Sender EXCEPT ![H_bin(x) + 1] = Append(@, x)]
        /\ at' = IF n + 1 = Len(senderInput) THEN "interpolate" ELSE at
    BY <1>5, <1>6, <1>12, <2>1 DEF Evaluate
  <2>3. PICK k \in Seq(ToSet(k_values)) : k = k_values
    BY <1>2 DEF EvaluatedTo
  <2>4. Len(k) = l + n /\ \A m \in 1 .. l : k[m] = ZeroKey
    BY <1>2, <1>3, <2>3 DEF EvaluatedTo
  <2>5. PICK K : K = ToSet(k_values) \cup {key}
    OBVIOUS
  <2>6. k \in Seq(K) /\ key \in K
    BY <2>3, <2>5
  <2>7. PICK more \in Seq(K), len \in Nat : Appends(k, key, more, len)
    BY <2>6, Appended
  <2>8. /\ k_values' = more /\ len = l + n /\ Len(more) = l + n + 1 /\ more[l + n + 1] = key
        /\ \A m \in 1 .. l + n : more[m] = k[m]
    BY <1>3, <1>4, <2>2, <2>3, <2>4, <2>7 DEF Appends
  <2>9. EvaluatedTo(n + 1)'
    <3>1. T_Sender' = Table(SubSeq(senderInput, 1, n + 1))'
      <4>1. PICK p \in Seq(Items) : p = SubSeq(s, 1, n)
        <5>1. SubSeq(s, 1, n) \in Seq(Items)
          BY <1>3, <1>4
        <5> QED
          BY <5>1
      <4>2. SubSeq(s, 1, n + 1) = Append(p, x)
        BY <1>3, <1>4, <1>6, <4>1, NextOfPrefix
      <4>3. T_Sender = Table(p)
        BY <1>2, <1>3, <4>1 DEF EvaluatedTo
      <4>4. T_Sender' = Table(Append(p, x))
        BY <1>0, <2>2, <4>3, TableOfAppend
      <4>5. PICK q : q = Append(p, x)
        OBVIOUS
      <4>6. T_Sender' = Table(q)'
        BY <1>8, <4>4, <4>5, InputsStay
      <4> QED
        BY <1>10, <4>2, <4>5, <4>6
    <3>2. ASSUME NEW i \in 1 .. n + 1 PROVE H_bin(senderInput[i]) + 1 \in DOMAIN polys
      <4>1. CASE i = n + 1
        BY <1>6, <1>12, <4>1
      <4>2. CASE i # n + 1
        <5>1. i \in 1 .. n
          BY <1>4, <4>2
        <5> QED
          BY <1>2, <5>1 DEF EvaluatedTo
      <4> QED
        BY <4>1, <4>2
    <3>3. \A i \in 1 .. n + 1 : H_bin(senderInput[i])' + 1 \in DOMAIN polys'
      <4>1. \A y : H_bin(y)' = H_bin(y)
        BY <1>8, InputsStay
      <4> QED
        BY <1>3, <1>8, <1>10, <3>2, <4>1
    <3>4. k_values' \in Seq(ToSet(k_values'))
      BY <2>7, <2>8, OfItsElements
    <3>5. Len(k_values') = Len(senderInput') + (n + 1)
      BY <1>3, <1>4, <1>10, <2>8
    <3>6. \A m \in 1 .. Len(senderInput') : k_values'[m] = ZeroKey
      <4>1. \A m \in 1 .. l : m \in 1 .. l + n
        BY <1>4
      <4> QED
        BY <1>3, <1>10, <2>4, <2>8, <4>1
    <3> QED
      BY <3>1, <3>3, <3>4, <3>5, <3>6 DEF EvaluatedTo
  <2>10. at' \in {"evaluate", "interpolate"}
    BY <1>0, <2>2
  <2>11. TypeOK'
    BY <1>0, <1>3, <1>4, <1>8, <2>9, <2>10, EvaluatingTypes
  <2>12. Committed'
    BY <1>1, <1>8, InputsStay DEF Committed
  <2>13. SenderCommitted'
    BY <1>0, <1>8, <1>10, <1>3 DEF IInv, SenderCommitted
  <2>14. Evaluating'
    <3>1. CASE n + 1 = l
      BY <1>3, <1>10, <2>2, <2>9, <3>1 DEF Evaluating
    <3>2. CASE n + 1 # l
      <4>1. n + 1 \in 0 .. Len(senderInput') - 1
        BY <1>3, <1>4, <1>10, <3>2
      <4>2. at' = "evaluate"
        BY <1>0, <1>3, <2>2, <3>2
      <4> QED
        BY <2>9, <4>1, <4>2 DEF Evaluating
    <3> QED
      BY <3>1, <3>2
  <2>15. Passed' /\ Failed'
    BY <2>10 DEF Passed, Failed
  <2>16. SenderRecoversMessages'
    <3>1. ASSUME NEW m \in l + 1 .. l + n + 1, NEW y, y = s[m - l], y \in ToSet(receiverInput),
                 \A b \in 0 .. H_bin(y) : InBin(receiverInput, b) # {}
          PROVE  more[m] = Key(Power(Message(Place(y))))
      <4>1. CASE m = l + n + 1
        <5>1. m - l = n + 1
          BY <1>4, <4>1
        <5>2. y = x
          BY <1>3, <1>6, <3>1, <5>1
        <5>3. evaluate_poly(polys[H_bin(x) + 1], x) = Message(Place(x))
          BY <1>0, <1>1, <3>1, <5>2, MessageIs
        <5> QED
          BY <2>1, <2>8, <4>1, <5>2, <5>3
      <4>2. CASE m # l + n + 1
        <5>1. m \in l + 1 .. l + n /\ m \in 1 .. l + n
          BY <1>4, <4>2
        <5>2. k_values[m] = Key(Power(Message(Place(y))))
          <6>1. m \in Len(senderInput) + 1 .. Len(k_values)
            BY <1>3, <2>3, <2>4, <5>1
          <6>2. SenderRecoversMessages
            BY DEF IInv
          <6>3. y = senderInput[m - Len(senderInput)]
            BY <1>3, <3>1
          <6> QED
            BY <3>1, <6>1, <6>2, <6>3 DEF SenderRecoversMessages
        <5> QED
          BY <2>3, <2>8, <5>1, <5>2
      <4> QED
        BY <4>1, <4>2
    <3>2. Len(senderInput') + 1 .. Len(k_values') = l + 1 .. l + n + 1
      BY <1>3, <1>10, <2>8
    <3>3. \A y, b : InBin(y, b)' = InBin(y, b)
      BY <1>8, InputsStay
    <3>4. \A y : H_bin(y)' = H_bin(y) /\ Place(y)' = Place(y)
      BY <1>8, InputsStay
    <3> QED
      BY <1>3, <1>10, <2>8, <3>1, <3>2, <3>3, <3>4 DEF SenderRecoversMessages
  <2> QED
    BY <2>11, <2>12, <2>13, <2>14, <2>15, <2>16 DEF IInv
<1> QED
  BY <1>11, <1>12

(* The keys that the sender's polynomials are made of are the zero keys     *)
(* that the vector begins with.                                             *)
LEMMA KeysAreZero ==
  ASSUME Given, EvaluatedTo(Len(senderInput)), NEW i \in Bin
  PROVE  /\ T_Sender = Table(senderInput)
         /\ H_2_values(i) = [j \in DOMAIN Table(senderInput)[i] |->
                               H_2(Table(senderInput)[i][j], ZeroKey)]
<1>1. PICK s \in Seq(Items), l \in Nat : s = senderInput /\ l = Len(s)
  BY HashingIs
<1>2. SubSeq(s, 1, l) = s
  BY <1>1
<1>3. T_Sender = Table(s)
  BY <1>1, <1>2 DEF EvaluatedTo
<1>4. \A m \in 1 .. l : k_values[m] = ZeroKey
  BY <1>1 DEF EvaluatedTo
<1>5. Bins \in Nat \ {0}
  BY HashingIs
<1>6. i \in 1 .. Bins + 1 /\ i + 1 \in 1 .. Bins + 1 /\ (i + 1) - 1 = i /\ i \in Nat
  BY <1>5 DEF Bin
<1>7. PICK c \in Nat, d \in Nat : c = Counter(T_Sender, i) /\ d = Counter(T_Sender, i + 1) /\ d <= l
  <2>1. Counter(T_Sender, i) = Cardinality(Smaller(s, i - 1)) /\ Counter(T_Sender, i + 1) = Cardinality(Smaller(s, i))
    BY <1>3, <1>6, CounterIs
  <2>2. 0 \in 0 .. Len(s)
    BY <1>1
  <2>3. Cardinality(Smaller(s, i - 1)) \in Nat /\ Cardinality(Smaller(s, i)) \in Nat
    BY <2>2, SmallerIsFinite
  <2>4. Smaller(s, i) \subseteq 1 .. l /\ IsFiniteSet(1 .. l) /\ Cardinality(1 .. l) = l
    <3>1. Smaller(s, i) \subseteq 1 .. l
      BY <1>1 DEF Smaller
    <3>2. IsFiniteSet(1 .. l) /\ Cardinality(1 .. l) = l
      BY FS_Interval
    <3> QED
      BY <3>1, <3>2
  <2>5. Cardinality(Smaller(s, i)) <= l
    BY <2>4, FS_Subset
  <2> QED
    BY <2>1, <2>3, <2>5
<1>8. PICK t \in Seq(Items) : t = T_Sender[i]
  BY <1>1, <1>3, TableIs
<1>9. d = c + Len(t)
  <2>1. PICK B : B = Seq(Items)
    OBVIOUS
  <2>2. PICK bins \in Seq(B) : bins = T_Sender /\ Len(bins) = Bins
    BY <1>3, <2>1, TableIs
  <2>3. \A x \in B : Len(x) \in Nat
    BY <2>1, LengthsAreNumbers
  <2>4. i \in 1 .. Len(bins)
    BY <2>2 DEF Bin
  <2>5. Counter(bins, i + 1) = Counter(bins, i) + Len(bins[i])
    BY <2>3, <2>4, CounterSteps
  <2> QED
    BY <1>7, <1>8, <2>2, <2>5
<1>10. ASSUME NEW j \in DOMAIN t PROVE k_values[c + j] = ZeroKey
  <2>1. c + j \in 1 .. l
    BY <1>7, <1>9
  <2> QED
    BY <1>4, <2>1
<1> QED
  BY <1>1, <1>3, <1>7, <1>8, <1>10 DEF H_2_values

LEMMA SameTerms ==
  ASSUME NEW t \in Seq(Items)
  PROVE  Interpolates([j \in DOMAIN t |-> H_2(t[j], ZeroKey)]) <=> Interpolates(t)
<1>1. PICK u : u = [j \in DOMAIN t |-> H_2(t[j], ZeroKey)]
  OBVIOUS
<1>2. Len(u) = Len(t) /\ DOMAIN u = DOMAIN t
  BY <1>1
<1>3. \A i, j \in DOMAIN t : u[i] = u[j] <=> t[i] = t[j]
  BY <1>1 DEF H_2
<1>4. IsInjective(u) <=> IsInjective(t)
  BY <1>2, <1>3 DEF IsInjective
<1> QED
  BY <1>1, <1>2, <1>4 DEF Interpolates

(* If every input of the sender found a polynomial and none of its bins is  *)
(* empty, none of the receiver's is.                                        *)
LEMMA AllFilled ==
  ASSUME Given, \A i \in Bin : i \in DOMAIN ReceiverBins
  PROVE  \A i \in Bin : Table(receiverInput)[i] # <<>> /\ i \in DOMAIN ReceiverBins
                          /\ ReceiverBins[i] = Table(receiverInput)[i]
<1>1. PICK bins \in Nat : bins = Bins /\ Bin = 1 .. bins
  BY HashingIs DEF Bin
<1>2. PICK filled : filled = {i \in Bin : Table(receiverInput)[i] # <<>>}
  OBVIOUS
<1>3. PICK r \in Seq(Seq(Items)) : r = ReceiverBins
  BY ReceiverBinsAre
<1>4. PICK l \in Nat : l = Len(r) /\ l = Cardinality(filled)
  <2>1. Len(r) = Cardinality(filled)
    BY <1>2, <1>3, ReceiverBinsAre
  <2>2. Len(r) \in Nat /\ DOMAIN r = 1 .. Len(r)
    OBVIOUS
  <2> QED
    BY <2>1, <2>2
<1>5. bins <= l
  <2>1. CASE bins = 0
    BY <2>1
  <2>2. CASE bins # 0
    <3>1. bins \in DOMAIN r
      BY <1>1, <1>3, <2>2
    <3>2. DOMAIN r = 1 .. Len(r)
      OBVIOUS
    <3> QED
      BY <1>4, <3>1, <3>2
  <2> QED
    BY <2>1, <2>2
<1>6. IsFiniteSet(1 .. bins) /\ Cardinality(1 .. bins) = bins /\ filled \subseteq 1 .. bins
  BY <1>1, <1>2, FS_Interval
<1>7. filled = 1 .. bins
  <2>1. l <= bins /\ (l = bins => filled = 1 .. bins)
    BY <1>4, <1>6, FS_Subset
  <2> QED
    BY <1>5, <2>1
<1>8. \A i \in Bin : Table(receiverInput)[i] # <<>>
  BY <1>1, <1>2, <1>7
<1>9. ASSUME NEW i \in Bin
      PROVE  i \in DOMAIN ReceiverBins /\ ReceiverBins[i] = Table(receiverInput)[i]
  <2>1. \A h \in 1 .. i : h \in Bin
    BY <1>1
  <2> QED
    BY <1>8, <2>1, FilledUpTo
<1> QED
  BY <1>8, <1>9

LEMMA InterpolateKeeps == IInv /\ Interpolate => IInv'
<1> SUFFICES ASSUME IInv, Interpolate PROVE IInv'
  OBVIOUS
<1>0. at = "interpolate" /\ TypeOK /\ Given
  BY GivenIs DEF Interpolate, IInv
<1>1. /\ \A j \in DOMAIN ReceiverBins : Interpolates(ReceiverBins[j])
      /\ polys = Polynomials /\ receiverRoot = Merkle_Root_Receiver(polys)
  BY <1>0 DEF IInv, Committed
<1>2. EvaluatedTo(Len(senderInput))
  BY <1>0 DEF IInv, Evaluating
<1>3. receiverInput \in Seq(Items) /\ senderInput \in Seq(Items)
  BY <1>0, HashingIs
<1>4. /\ UNCHANGED inputs /\ k_values' = k_values /\ polys' = polys /\ receiverRoot' = receiverRoot
      /\ merkle_leaves' = merkle_leaves /\ senderRoot' = senderRoot
      /\ at' \in {"intersect", "threw"}
  BY DEF Interpolate, Throw, commitments, locals
<1>5. DOMAIN T_Sender = Bin
  BY <1>0 DEF TypeOK, Bin
<1>6. \A i \in Bin : Interpolates(H_2_values(i)) <=> Interpolates(Table(senderInput)[i])
  <2>1. SUFFICES ASSUME NEW i \in Bin
                 PROVE  Interpolates(H_2_values(i)) <=> Interpolates(Table(senderInput)[i])
    OBVIOUS
  <2>2. PICK t \in Seq(Items) : t = Table(senderInput)[i]
    BY <1>0, <1>3, TableIs
  <2>3. H_2_values(i) = [j \in DOMAIN t |-> H_2(t[j], ZeroKey)]
    BY <1>0, <1>2, <2>2, KeysAreZero
  <2> QED
    BY <2>2, <2>3, SameTerms
<1>7. SenderRecoversMessages'
  BY <1>4, RecoveredStays DEF IInv
<1>8. Evaluating'
  BY <1>4 DEF Evaluating
<1>9. CASE \A i \in DOMAIN T_Sender : Interpolates(H_2_values(i))
  <2>1. at' = "intersect" /\ DOMAIN P_Sender' = Bin
    BY <1>5, <1>9 DEF Interpolate
  <2>2. TypeOK'
    BY <1>0, <1>4, <2>1, InputsStay DEF TypeOK, Bin
  <2>3. Committed'
    BY <1>1, <1>4, InputsStay DEF Committed
  <2>4. SenderCommitted'
    BY <1>0, <1>4, InputsStay DEF IInv, SenderCommitted
  <2>5. Failed'
    BY <2>1 DEF Failed
  <2>6. \A i \in Bin : Interpolates(Table(senderInput)[i])
    BY <1>5, <1>6, <1>9
  <2>7. Full(senderInput)
    BY <1>0, <1>3, <2>6, Enough DEF Full
  <2>8. ASSUME NEW i \in Bin PROVE i \in DOMAIN ReceiverBins
    <3>1. PICK t \in Seq(Items) : t = Table(senderInput)[i] /\ ToSet(t) = InBin(senderInput, i - 1)
      BY <1>0, <1>3, TableIs
    <3>2. Len(t) >= 2
      BY <2>6, <3>1 DEF Interpolates
    <3>3. t[1] \in ToSet(t)
      BY <3>2 DEF ToSet
    <3>4. t[1] \in ToSet(senderInput) /\ H_bin(t[1]) = i - 1
      BY <3>1, <3>3 DEF InBin
    <3>5. PICK m \in DOMAIN senderInput : senderInput[m] = t[1]
      BY <3>4 DEF ToSet
    <3>6. H_bin(senderInput[m]) + 1 \in DOMAIN polys
      <4>1. m \in 1 .. Len(senderInput)
        BY <1>3
      <4> QED
        BY <1>2, <4>1 DEF EvaluatedTo
    <3>7. i - 1 + 1 = i
      BY DEF Bin
    <3> QED
      BY <1>1, <3>4, <3>5, <3>6, <3>7 DEF Polynomials
  <2>9. \A i \in Bin : Interpolates(Table(receiverInput)[i])
    <3>1. \A i \in Bin : i \in DOMAIN ReceiverBins /\ ReceiverBins[i] = Table(receiverInput)[i]
      BY <1>0, <2>8, AllFilled
    <3> QED
      BY <1>1, <3>1
  <2>10. Full(receiverInput)
    BY <1>0, <1>3, <2>9, Enough DEF Full
  <2>11. Passed'
    BY <1>4, <2>7, <2>10, InputsStay DEF Passed, Full, Repeats
  <2> QED
    BY <1>7, <1>8, <2>2, <2>3, <2>4, <2>5, <2>11 DEF IInv
<1>10. CASE ~ \A i \in DOMAIN T_Sender : Interpolates(H_2_values(i))
  <2>1. at' = "threw"
    BY <1>10 DEF Interpolate, Throw
  <2>2. PICK i \in Bin : ~ Interpolates(Table(senderInput)[i])
    BY <1>5, <1>6, <1>10
  <2>3. Few(senderInput, 0, 1) \/ Repeats(senderInput)
    BY <1>0, <1>3, <2>2, TooFew
  <2>4. TypeOK'
    BY <1>0, <1>4, <2>1, InputsStay DEF TypeOK
  <2>5. Committed' /\ SenderCommitted' /\ Passed'
    BY <2>1 DEF Committed, SenderCommitted, Passed
  <2>6. Failed'
    BY <1>4, <2>1, <2>3, InputsStay DEF Failed, Repeats
  <2> QED
    BY <1>7, <1>8, <2>4, <2>5, <2>6 DEF IInv
<1> QED
  BY <1>9, <1>10

LEMMA IntersectKeeps == IInv /\ Intersect => IInv'
<1> SUFFICES ASSUME IInv, Intersect PROVE IInv'
  OBVIOUS
<1>0. at = "intersect" /\ senderRoot = Merkle_Root_Sender(senderInput, merkle_leaves)
  BY DEF Intersect, IInv, SenderCommitted
<1>1. /\ UNCHANGED inputs /\ k_values' = k_values /\ at' = "returned"
      /\ polys' = polys /\ receiverRoot' = receiverRoot
  BY <1>0 DEF Intersect, commitments, locals
<1>2. TypeOK'
  BY <1>1, InputsStay DEF IInv, TypeOK
<1>3. Committed'
  BY <1>0, <1>1, InputsStay DEF IInv, Committed
<1>4. Passed'
  BY <1>0, <1>1, InputsStay DEF IInv, Passed, Full, Repeats
<1>5. SenderCommitted' /\ Evaluating' /\ Failed'
  BY <1>1 DEF SenderCommitted, Evaluating, Failed
<1>6. SenderRecoversMessages'
  BY <1>1, RecoveredStays DEF IInv
<1> QED
  BY <1>2, <1>3, <1>4, <1>5, <1>6 DEF IInv

-----------------------------------------------------------------------------
LEMMA Invariance == Spec => []IInv
<1>1. Init => IInv
  BY InitIs
<1>2. IInv /\ [Next]_vars => IInv'
  <2> SUFFICES ASSUME IInv, [Next]_vars PROVE IInv'
    OBVIOUS
  <2>1. CASE CommitReceiver
    BY <2>1, CommitReceiverKeeps
  <2>2. CASE CommitSender
    BY <2>2, CommitSenderKeeps
  <2>3. CASE SenderChecks
    BY <2>3, SenderChecksKeeps
  <2>4. CASE Evaluate
    BY <2>4, EvaluateKeeps
  <2>5. CASE Interpolate
    BY <2>5, InterpolateKeeps
  <2>6. CASE Intersect
    BY <2>6, IntersectKeeps
  <2>7. CASE Over
    BY <2>7, StutterKeeps DEF Over
  <2>8. CASE UNCHANGED vars
    BY <2>8, StutterKeeps
  <2> QED
    BY <2>1, <2>2, <2>3, <2>4, <2>5, <2>6, <2>7, <2>8 DEF Next
<1> QED
  BY <1>1, <1>2, PTL DEF Spec

(* The vectors that intersect() indexes are as long as its loops take them  *)
(* to be: a bin's place in the sender's table exists when an input goes     *)
(* there, and a key has been pushed for each input that was evaluated.      *)
THEOREM TypeCorrect == Spec => []TypeOK
<1>1. IInv => TypeOK
  BY DEF IInv
<1> QED
  BY <1>1, Invariance, PTL

(* For any inputs and any hash function, how intersect() ends depends on    *)
(* the bins of the two parties alone, and no check of an honest party       *)
(* fails.                                                                   *)
THEOREM TablesDecide == Spec => []TablesDecideTheOutcome
<1>1. IInv => TablesDecideTheOutcome
  BY OutcomeIs DEF IInv
<1> QED
  BY <1>1, Invariance, PTL

(* The sender's evaluation of the polynomial of a common input's bin gives  *)
(* the message that commit_Receiver assigned to the input, if no bin up to  *)
(* that one was left out.                                                   *)
THEOREM MessagesRecovered == Spec => []SenderRecoversMessages
<1>1. IInv => SenderRecoversMessages
  BY DEF IInv
<1> QED
  BY <1>1, Invariance, PTL
=============================================================================
