---------------------------- MODULE RsPsi_proofs ----------------------------
(***************************************************************************)
(* Proofs about RsPsi for every number of inputs and of threads.           *)
(***************************************************************************)
EXTENDS RsPsi, SequenceTheorems, FiniteSetTheorems, WellFoundedInduction, TLAPS

-----------------------------------------------------------------------------
(* Induction over the natural numbers and what follows from it: functions  *)
(* defined by recursion exist.  A predicate is given by the set of numbers *)
(* that satisfy it and a recursion by a function, so that the facts can be *)
(* cited for any predicate and any recursion.                              *)

(* A set of numbers has a least one: there are no infinite descents among  *)
(* the finite sets of the numbers below each.                              *)
LEMMA LeastNumber ==
  ASSUME NEW T \in SUBSET Nat, T # {}
  PROVE  \E n \in T : \A m \in T : n <= m
<1>. DEFINE Initials == {0 .. (n - 1) : n \in T}
<1>1. Initials \subseteq FiniteSubsetsOf(Nat) /\ Initials # {}
  <2>1. ASSUME NEW n \in T PROVE 0 .. (n - 1) \in SUBSET Nat /\ IsFiniteSet(0 .. (n - 1))
    BY FS_Interval
  <2>. QED BY <2>1 DEF FiniteSubsetsOf
<1>2. IsWellFoundedOn(StrictSubsetOrdering(Nat), FiniteSubsetsOf(Nat))
  BY FS_StrictSubsetOrderingWellFounded
<1>3. \E x \in Initials : \A y \in Initials : ~ (<<y, x>> \in StrictSubsetOrdering(Nat))
  BY <1>1, <1>2, WFMin
<1>4. PICK n \in T :
        \A m \in T : ~ (<<0 .. (m - 1), 0 .. (n - 1)>> \in StrictSubsetOrdering(Nat))
  BY <1>3
<1>5. ASSUME NEW m \in T, ~ (n <= m) PROVE FALSE
  <2>1. m \in Nat /\ n \in Nat OBVIOUS
  <2>2. 0 .. (m - 1) \in SUBSET Nat /\ 0 .. (n - 1) \in SUBSET Nat BY <2>1
  <2>3. /\ 0 .. (m - 1) \subseteq 0 .. (n - 1)
        /\ m \in 0 .. (n - 1) /\ m \notin 0 .. (m - 1)
    BY <2>1, <1>5
  <2>. QED BY <1>4, <2>2, <2>3 DEF StrictSubsetOrdering
<1>. QED BY <1>5

(* Induction: T is the set of the numbers of which something is to be shown.*)
LEMMA SetInduction ==
  ASSUME NEW T, 0 \in T, \A n \in Nat : n \in T => n + 1 \in T
  PROVE  Nat \subseteq T
<1>. DEFINE Out == Nat \ T
<1>1. SUFFICES ASSUME Out # {} PROVE FALSE OBVIOUS
<1>2. PICK n \in Out : \A m \in Out : n <= m
  <2>1. Out \in SUBSET Nat OBVIOUS
  <2>. HIDE DEF Out
  <2>. QED BY <1>1, <2>1, LeastNumber
<1>3. n \in Nat /\ n # 0 OBVIOUS
<1>4. n - 1 \in Nat /\ n - 1 \notin Out BY <1>2, <1>3
<1>. QED BY <1>3, <1>4

(* The functions on 0 .. n with a given first value and a given step from  *)
(* each value to the next: there is one.                                   *)
Iterations(S, base, step, n) ==
  {f \in [0 .. n -> S] : f[0] = base /\ \A k \in 1 .. n : f[k] = step[<<f[k - 1], k>>]}

LEMMA RecursionExists ==
  ASSUME NEW S, NEW base \in S, NEW step \in [S \X Nat -> S], NEW n \in Nat
  PROVE  Iterations(S, base, step, n) # {}
<1>. DEFINE Iterates(f, m) == f[0] = base /\ \A k \in 1 .. m : f[k] = step[<<f[k - 1], k>>]
            T == {m \in Nat : \E f \in [0 .. m -> S] : Iterates(f, m)}
<1>1. 0 \in T
  <2>1. [k \in 0 .. 0 |-> base] \in [0 .. 0 -> S] /\ Iterates([k \in 0 .. 0 |-> base], 0)
    OBVIOUS
  <2>. QED BY <2>1
<1>2. ASSUME NEW m \in Nat, m \in T PROVE m + 1 \in T
  <2>1. PICK f \in [0 .. m -> S] : Iterates(f, m) BY <1>2
  <2>. DEFINE g == [k \in 0 .. m + 1 |-> IF k = m + 1 THEN step[<<f[m], m + 1>>] ELSE f[k]]
  <2>2. f[m] \in S /\ <<f[m], m + 1>> \in S \X Nat OBVIOUS
  <2>3. g \in [0 .. m + 1 -> S] BY <2>2
  <2>4. g[0] = base BY <2>1
  <2>5. ASSUME NEW k \in 1 .. m + 1 PROVE g[k] = step[<<g[k - 1], k>>]
    <3>1. CASE k = m + 1 BY <3>1, SMTT(20)
    <3>2. CASE k # m + 1
      <4>1. k \in 1 .. m /\ k - 1 \in 0 .. m BY <3>2
      <4>2. g[k] = f[k] /\ g[k - 1] = f[k - 1] BY <4>1
      <4>. QED BY <2>1, <4>1, <4>2
    <3>. QED BY <3>1, <3>2
  <2>. HIDE DEF g
  <2>6. Iterates(g, m + 1) BY <2>4, <2>5
  <2>. QED BY <2>3, <2>6
<1>. HIDE DEF T
<1>3. Nat \subseteq T BY <1>1, <1>2, SetInduction
<1>4. n \in T BY <1>3
<1>. QED BY <1>4 DEF T, Iterations

-----------------------------------------------------------------------------
USE DEF Indices, Foreign, Untouched, MyWords

Hashes == Indices \cup {Foreign}

InputsOK == /\ numThreads \in ThreadCounts
            /\ bin \in [Indices -> 0 .. numThreads - 1]
            /\ sent \in SenderInputs

Arrived == {t \in Threads : pc[t] # "hashing"}

(* The barrier: nobody is past it while somebody reads hashes, and nothing *)
(* is written before somebody is past it.                                  *)
Barrier ==
  /\ \A t \in Threads : pc[t] = "hashing" => ~hashingDone /\ cursor[t] <= RecverSize
  /\ \A t \in Threads : pc[t] \in {"waiting", "finding", "done"} => hashingDone
  /\ \A t \in Threads : pc[t] \in {"finding", "done"} => main \in {"joining", "returned"}
  /\ \A t \in Threads : pc[t] = "finding" => cursor[t] <= Len(sent) /\ found[t] <= cursor[t]
  /\ \A t \in Threads : pc[t] \in {"hashing", "barrier", "waiting"} => found[t] = 0
  /\ (\A t \in Threads : pc[t] \notin {"finding", "done"})
        => \A w \in 0 .. MyWords - 1 : words[w] = Untouched

IInv == InputsOK /\ TypeOK /\ Barrier

(* The conjuncts of TypeOK but the last, which an action seldom disturbs.  *)
Typed ==
  /\ words \in [0 .. MyWords + Len(sent) - 1 -> Indices \cup {Untouched}]
  /\ theirHashes \in Seq(Hashes)
  /\ Len(theirHashes) = IF main \in {"joining", "returned"} THEN Len(sent) ELSE 0
  /\ main \in {"receiving", "joining", "returned", "failed", "terminated"}
  /\ pc \in [Threads -> Labels]
  /\ cursor \in [Threads -> 0 .. RecverSize + Len(sent)]
  /\ map \in [Threads -> SUBSET Indices]
  /\ found \in [Threads -> 0 .. Len(sent)]
  /\ hashingDone \in BOOLEAN

-----------------------------------------------------------------------------
LEMMA ConstantsOK ==
  /\ RecverSize \in Nat \ {0}
  /\ \A n \in ThreadCounts : n \in Nat \ {0}
  /\ \A s \in SenderInputs : s \in Seq(Hashes) /\ Len(s) \in Nat
BY RecverSizeAssumption, ThreadCountsAssumption, SenderInputsAssumption DEF Hashes

(* There are finitely many threads, as many as numThreads says.            *)
LEMMA ThreadsAreFinite ==
  ASSUME numThreads \in Nat \ {0}
  PROVE  /\ IsFiniteSet(Threads)
         /\ Threads # {} => Cardinality(Threads) = numThreads
<1>1. IsFiniteSet({}) BY FS_EmptySet
<1>2. /\ IsFiniteSet(0 .. numThreads - 1)
      /\ Cardinality(0 .. numThreads - 1) = numThreads
  <2>1. 0 \in Int /\ numThreads - 1 \in Int OBVIOUS
  <2>2. Cardinality(0 .. numThreads - 1) =
          IF 0 > numThreads - 1 THEN 0 ELSE (numThreads - 1) - 0 + 1
    BY <2>1, FS_Interval
  <2>3. IsFiniteSet(0 .. numThreads - 1) BY <2>1, FS_Interval
  <2>. QED BY <2>2, <2>3
<1>. QED BY <1>1, <1>2 DEF Threads

LEMMA TypeOKSplit == TypeOK <=> Typed /\ numDone = Cardinality(Arrived)
BY DEF TypeOK, Typed, Arrived, Hashes

LEMMA TypeOKSplitPrime == TypeOK' <=> Typed' /\ numDone' = Cardinality(Arrived')
BY DEF TypeOK, Typed, Arrived, Hashes

LEMMA InitHolds == Init => IInv
<1>. SUFFICES ASSUME Init PROVE IInv OBVIOUS
<1>. USE ConstantsOK
<1>1. InputsOK BY DEF Init, InputsOK
<1>2. Len(sent) \in Nat BY <1>1 DEF InputsOK
<1>3. numDone = Cardinality(Arrived)
  <2>1. Arrived = {} BY DEF Init, Arrived
  <2>2. Cardinality(Arrived) = 0 BY <2>1, FS_EmptySet
  <2>. QED BY <2>2 DEF Init
<1>4. Typed
  <2>1. /\ words \in [0 .. MyWords + Len(sent) - 1 -> Indices \cup {Untouched}]
        /\ main = "receiving" /\ hashingDone = FALSE
    BY DEF Init
  <2>2. theirHashes = <<>> BY DEF Init
  <2>3. theirHashes \in Seq(Hashes) /\ Len(theirHashes) = 0 BY <2>2
  <2>4. pc \in [Threads -> Labels] BY DEF Init, Labels
  <2>5. 0 \in 0 .. RecverSize + Len(sent) /\ 0 \in 0 .. Len(sent) BY <1>2
  <2>6. /\ cursor \in [Threads -> 0 .. RecverSize + Len(sent)]
        /\ found \in [Threads -> 0 .. Len(sent)]
    BY <2>5 DEF Init
  <2>7. map \in [Threads -> SUBSET Indices] BY DEF Init
  <2>. QED BY <2>1, <2>3, <2>4, <2>6, <2>7 DEF Typed
<1>5. Barrier
  <2>1. \A w \in 0 .. MyWords - 1 : w \in 0 .. MyWords + Len(sent) - 1 BY <1>2
  <2>2. \A w \in 0 .. MyWords - 1 : words[w] = Untouched BY <2>1 DEF Init
  <2>. QED BY <2>2 DEF Init, Barrier
<1>. QED BY <1>1, <1>3, <1>4, <1>5, TypeOKSplit DEF IInv

-----------------------------------------------------------------------------
(* Writing a result changes no type and no length.                         *)
LEMMA StoreKeepsTypes ==
  ASSUME InputsOK, Typed, NEW word, NEW index \in Indices, Store(word, index),
         UNCHANGED inputs
  PROVE  /\ words' \in [0 .. MyWords + Len(sent) - 1 -> Indices \cup {Untouched}]
         /\ theirHashes' \in Seq(Hashes)
         /\ Len(theirHashes') = Len(theirHashes)
<1>1. words' \in [0 .. MyWords + Len(sent) - 1 -> Indices \cup {Untouched}]
  BY DEF Store, Typed
<1>2. DOMAIN theirHashes = 1 .. Len(theirHashes) /\ Len(theirHashes) \in Nat
  BY DEF Typed
<1>3. theirHashes' \in [1 .. Len(theirHashes) -> Hashes]
  BY <1>2 DEF Store, Typed, Hashes
<1>4. theirHashes' \in Seq(Hashes) /\ Len(theirHashes') = Len(theirHashes)
  BY <1>2, <1>3
<1>. QED BY <1>1, <1>4

(* The inputs are chosen once, and with them the threads.                  *)
LEMMA InputsStay ==
  ASSUME InputsOK, UNCHANGED inputs
  PROVE  InputsOK' /\ Threads' = Threads /\ Len(sent) \in Nat
BY ConstantsOK DEF InputsOK, inputs, Threads

LEMMA HashHolds ==
  ASSUME IInv, NEW t \in Threads, Hash(t) PROVE IInv'
<1>. USE InputsOK DEF IInv
<1>0. InputsOK' /\ Threads' = Threads /\ Len(sent) \in Nat
  BY InputsStay DEF Hash
<1>1. Typed' /\ Arrived' = Arrived
  <2>1. Typed BY TypeOKSplit
  <2>2. map' \in [Threads -> SUBSET Indices]
    <3>1. cursor[t] \in Indices BY <2>1, <1>0, ConstantsOK DEF Hash, Typed
    <3>. QED BY <2>1, <3>1 DEF Hash, Typed
  <2>3. cursor' \in [Threads -> 0 .. RecverSize + Len(sent)]
    <3>1. cursor[t] + 1 \in 0 .. RecverSize + Len(sent)
      BY <2>1, <1>0, ConstantsOK DEF Hash, Typed
    <3>. QED BY <2>1, <3>1 DEF Hash, Typed
  <2>. QED BY <1>0, <2>1, <2>2, <2>3 DEF Hash, Typed, Arrived, inputs, memory
<1>2. Barrier'
  <2>1. cursor \in [Threads -> 0 .. RecverSize + Len(sent)] /\ pc \in [Threads -> Labels]
    BY DEF TypeOK
  <2>2. pc[t] = "hashing" /\ cursor'[t] <= RecverSize
        /\ \A u \in Threads \ {t} : cursor'[u] = cursor[u]
    BY <2>1, <1>0, ConstantsOK DEF Hash, At
  <2>. QED BY <2>2, <1>0 DEF Hash, Barrier, inputs, memory
<1>3. numDone' = Cardinality(Arrived')
  BY <1>1, TypeOKSplit DEF Hash
<1>. QED BY <1>0, <1>1, <1>2, <1>3, TypeOKSplitPrime

(* The last to arrive finds everybody else there.                          *)
LEMMA ArriveHolds ==
  ASSUME IInv, NEW t \in Threads, Arrive(t) PROVE IInv'
<1>. USE InputsOK DEF IInv
<1>0. InputsOK' /\ Threads' = Threads /\ Len(sent) \in Nat
  BY InputsStay DEF Arrive
<1>1. Typed'
  <2>1. Typed BY TypeOKSplit
  <2>2. pc' \in [Threads -> Labels] /\ hashingDone' \in BOOLEAN
    BY <2>1 DEF Arrive, Goto, Typed, Labels
  <2>. QED BY <1>0, <2>1, <2>2 DEF Arrive, Typed, inputs, memory
<1>2. Arrived' = Arrived \cup {t} /\ t \notin Arrived
  BY <1>0 DEF Arrive, At, Goto, Arrived, TypeOK
<1>3. IsFiniteSet(Threads) /\ Cardinality(Threads) = numThreads /\ numThreads \in Nat
  BY ThreadsAreFinite, ConstantsOK DEF InputsOK
<1>4. /\ IsFiniteSet(Arrived) /\ Cardinality(Arrived) \in Nat
      /\ IsFiniteSet(Arrived')
      /\ Cardinality(Arrived') = Cardinality(Arrived) + 1
  <2>1. Arrived \subseteq Threads BY DEF Arrived
  <2>2. IsFiniteSet(Arrived) BY <2>1, <1>3, FS_Subset
  <2>3. Cardinality(Arrived) \in Nat BY <2>2, FS_CardinalityType
  <2>. QED BY <1>2, <2>2, <2>3, FS_AddElement
<1>5. numDone' = Cardinality(Arrived')
  BY <1>4, TypeOKSplit DEF Arrive
<1>6. numDone + 1 = numThreads => Arrived' = Threads
  <2>. SUFFICES ASSUME numDone + 1 = numThreads PROVE Arrived' = Threads OBVIOUS
  <2>1. Arrived' \subseteq Threads BY <1>0 DEF Arrived
  <2>2. Cardinality(Arrived') = Cardinality(Threads) BY <1>3, <1>4, TypeOKSplit
  <2>. QED BY <2>1, <2>2, <1>3, FS_Subset
<1>7. Barrier'
  <2>1. pc \in [Threads -> Labels] BY DEF TypeOK
  <2>2. /\ \A u \in Threads \ {t} : pc'[u] = pc[u]
        /\ pc'[t] \in {"waiting", "barrier"} /\ pc[t] = "hashing"
        /\ pc'[t] = "waiting" => hashingDone'
        /\ hashingDone => hashingDone'
    BY <2>1 DEF Arrive, At, Goto
  <2>3. \A u \in Threads : pc'[u] = "hashing" => ~hashingDone' /\ cursor'[u] <= RecverSize
    <3>1. \A u \in Threads : pc'[u] = "hashing" => u \notin Arrived'
      BY DEF Arrived
    <3>2. \A u \in Threads : pc'[u] = "hashing" => numDone + 1 # numThreads
      BY <3>1, <1>6
    <3>3. \A u \in Threads : pc'[u] = "hashing" => hashingDone' = hashingDone
      BY <3>2 DEF Arrive
    <3>. QED BY <2>2, <3>3 DEF Arrive, Barrier
  <2>. QED BY <2>2, <2>3, <1>0 DEF Arrive, Barrier, inputs, memory
<1>. QED BY <1>0, <1>1, <1>5, <1>7, TypeOKSplitPrime

LEMMA PassBarrierHolds ==
  ASSUME IInv, NEW t \in Threads, PassBarrier(t) PROVE IInv'
<1>. USE InputsOK DEF IInv
<1>0. InputsOK' /\ Threads' = Threads /\ Len(sent) \in Nat
  BY InputsStay DEF PassBarrier
<1>1. Typed' /\ Arrived' = Arrived
  <2>1. Typed BY TypeOKSplit
  <2>2. pc' \in [Threads -> Labels] BY <2>1 DEF PassBarrier, Goto, Typed, Labels
  <2>3. Arrived' = Arrived
    BY <1>0, <2>1, <2>2 DEF PassBarrier, At, Goto, Typed, Arrived
  <2>. QED BY <1>0, <2>1, <2>2, <2>3 DEF PassBarrier, Typed, inputs, memory
<1>2. Barrier'
  <2>1. pc \in [Threads -> Labels] BY DEF TypeOK
  <2>2. /\ \A u \in Threads \ {t} : pc'[u] = pc[u]
        /\ pc[t] = "barrier" /\ pc'[t] = "waiting" /\ hashingDone
    BY <2>1 DEF PassBarrier, At, Goto
  <2>. QED BY <2>2, <1>0 DEF PassBarrier, Barrier, inputs, memory
<1>3. numDone' = Cardinality(Arrived')
  BY <1>1, TypeOKSplit DEF PassBarrier
<1>. QED BY <1>0, <1>1, <1>2, <1>3, TypeOKSplitPrime

LEMMA StartFindingHolds ==
  ASSUME IInv, NEW t \in Threads, StartFinding(t) PROVE IInv'
<1>. USE InputsOK DEF IInv
<1>0. InputsOK' /\ Threads' = Threads /\ Len(sent) \in Nat
  BY InputsStay DEF StartFinding
<1>1. Typed' /\ Arrived' = Arrived
  <2>1. Typed BY TypeOKSplit
  <2>2. pc' \in [Threads -> Labels] BY <2>1 DEF StartFinding, Goto, Typed, Labels
  <2>3. cursor' \in [Threads -> 0 .. RecverSize + Len(sent)]
    <3>1. 0 \in 0 .. RecverSize + Len(sent) BY <1>0, ConstantsOK
    <3>. QED BY <2>1, <3>1 DEF StartFinding, Typed
  <2>4. Arrived' = Arrived
    BY <1>0, <2>1 DEF StartFinding, At, Goto, Typed, Arrived
  <2>. QED BY <1>0, <2>1, <2>2, <2>3, <2>4 DEF StartFinding, Typed, inputs, memory
<1>2. Barrier'
  <2>1. pc \in [Threads -> Labels] /\ cursor \in [Threads -> 0 .. RecverSize + Len(sent)]
    BY DEF TypeOK
  <2>2. /\ \A u \in Threads \ {t} : pc'[u] = pc[u] /\ cursor'[u] = cursor[u]
        /\ pc[t] = "waiting" /\ pc'[t] = "finding" /\ cursor'[t] = 0
        /\ main = "joining" /\ found[t] = 0
    BY <2>1 DEF StartFinding, At, Goto, Barrier
  <2>. QED BY <2>2, <1>0 DEF StartFinding, Barrier, inputs, memory
<1>3. numDone' = Cardinality(Arrived')
  BY <1>1, TypeOKSplit DEF StartFinding
<1>. QED BY <1>0, <1>1, <1>2, <1>3, TypeOKSplitPrime

LEMMA FindHolds ==
  ASSUME IInv, NEW t \in Threads, Find(t) PROVE IInv'
<1>. USE InputsOK DEF IInv
<1>0. InputsOK' /\ Threads' = Threads /\ Len(sent) \in Nat
  BY InputsStay DEF Find
<1>. DEFINE h == theirHashes[cursor[t] + 1]
<1>1. Typed BY TypeOKSplit
<1>2. /\ main \in {"joining", "returned"} /\ Len(theirHashes) = Len(sent)
      /\ cursor[t] \in Nat /\ cursor[t] < Len(sent)
      /\ found[t] \in Nat /\ found[t] <= cursor[t] /\ pc[t] = "finding"
  BY <1>0, <1>1 DEF Find, At, Barrier, Typed
<1>3. Matches(t, h) => h \in Indices
  <2>1. cursor[t] + 1 \in 1 .. Len(theirHashes) BY <1>0, <1>2
  <2>2. h \in Hashes BY <1>1, <2>1 DEF Typed
  <2>. QED BY <2>2 DEF Matches, Hashes
<1>4. /\ words' \in [0 .. MyWords + Len(sent) - 1 -> Indices \cup {Untouched}]
      /\ theirHashes' \in Seq(Hashes)
      /\ Len(theirHashes') = Len(theirHashes)
  <2>1. CASE Matches(t, h)
    <3>1. Store(Word(t, found[t]), h) /\ UNCHANGED inputs BY <2>1 DEF Find
    <3>. QED BY <1>1, <1>3, <2>1, <3>1, StoreKeepsTypes
  <2>2. CASE ~Matches(t, h)
    BY <1>1, <2>2 DEF Find, Typed, memory
  <2>. QED BY <2>1, <2>2
<1>5. /\ found' \in [Threads -> 0 .. Len(sent)]
      /\ found'[t] \in {found[t], found[t] + 1}
      /\ \A u \in Threads \ {t} : found'[u] = found[u]
  <2>1. found[t] + 1 \in 0 .. Len(sent) BY <1>0, <1>2
  <2>2. found \in [Threads -> 0 .. Len(sent)] BY <1>1 DEF Typed
  <2>3. found' \in {found, [found EXCEPT ![t] = @ + 1]}
    BY DEF Find
  <2>. QED BY <2>1, <2>2, <2>3
<1>6. /\ cursor' \in [Threads -> 0 .. RecverSize + Len(sent)]
      /\ cursor'[t] = cursor[t] + 1
      /\ \A u \in Threads \ {t} : cursor'[u] = cursor[u]
  <2>1. cursor[t] + 1 \in 0 .. RecverSize + Len(sent) BY <1>0, <1>2, ConstantsOK
  <2>2. cursor \in [Threads -> 0 .. RecverSize + Len(sent)] BY <1>1 DEF Typed
  <2>3. cursor' = [cursor EXCEPT ![t] = @ + 1] BY DEF Find
  <2>. QED BY <2>1, <2>2, <2>3
<1>7. /\ sent' = sent /\ main' = main /\ pc' = pc /\ map' = map
      /\ hashingDone' = hashingDone /\ numDone' = numDone
  BY DEF Find, inputs
<1>8. Typed'
  <2>1. /\ main \in {"receiving", "joining", "returned", "failed", "terminated"}
        /\ pc \in [Threads -> Labels] /\ map \in [Threads -> SUBSET Indices]
        /\ hashingDone \in BOOLEAN
    BY <1>1 DEF Typed
  <2>. QED BY <1>0, <1>2, <1>4, <1>5, <1>6, <1>7, <2>1 DEF Typed
<1>9. Barrier'
  <2>1. \A u \in Threads : pc'[u] = "finding" =>
          cursor'[u] <= Len(sent') /\ found'[u] <= cursor'[u]
    <3>1. cursor'[t] <= Len(sent') /\ found'[t] <= cursor'[t]
      BY <1>0, <1>2, <1>5, <1>6, <1>7
    <3>2. ASSUME NEW u \in Threads \ {t}, pc'[u] = "finding"
          PROVE  cursor'[u] <= Len(sent') /\ found'[u] <= cursor'[u]
      BY <3>2, <1>5, <1>6, <1>7 DEF Barrier
    <3>. QED BY <3>1, <3>2
  <2>2. pc'[t] = "finding" BY <1>2, <1>7
  <2>3. \A u \in Threads : pc[u] \in {"hashing", "barrier", "waiting"} =>
          found'[u] = 0 /\ cursor'[u] = cursor[u]
    BY <1>2, <1>5, <1>6 DEF Barrier
  <2>. QED BY <1>0, <1>7, <2>1, <2>2, <2>3 DEF Barrier
<1>10. numDone' = Cardinality(Arrived')
  <2>1. Arrived' = Arrived BY <1>0, <1>7 DEF Arrived
  <2>. QED BY <1>7, <2>1, TypeOKSplit
<1>. QED BY <1>0, <1>8, <1>9, <1>10, TypeOKSplitPrime

LEMMA MergeHolds ==
  ASSUME IInv, NEW t \in Threads, Merge(t) PROVE IInv'
<1>. USE InputsOK DEF IInv
<1>0. InputsOK' /\ Threads' = Threads /\ Len(sent) \in Nat
  BY InputsStay DEF Merge
<1>1. Typed' /\ Arrived' = Arrived
  <2>1. Typed BY TypeOKSplit
  <2>2. pc' \in [Threads -> Labels] BY <2>1 DEF Merge, Goto, Typed, Labels
  <2>3. Arrived' = Arrived
    BY <1>0, <2>1 DEF Merge, At, Goto, Typed, Arrived
  <2>. QED BY <1>0, <2>1, <2>2, <2>3 DEF Merge, Typed, inputs, memory
<1>2. Barrier'
  <2>1. pc \in [Threads -> Labels] BY DEF TypeOK
  <2>2. /\ \A u \in Threads \ {t} : pc'[u] = pc[u]
        /\ pc[t] = "finding" /\ pc'[t] = "done"
    BY <2>1 DEF Merge, At, Goto
  <2>. QED BY <2>2, <1>0 DEF Merge, Barrier, inputs, memory
<1>3. numDone' = Cardinality(Arrived')
  BY <1>1, TypeOKSplit DEF Merge
<1>. QED BY <1>0, <1>1, <1>2, <1>3, TypeOKSplitPrime

-----------------------------------------------------------------------------
Coroutine == Receive \/ ReceiveFails \/ FindAlone \/ Join

(* The coroutine moves main, fills theirHashes and leaves the threads be.  *)
LEMMA CoroutineHolds == ASSUME IInv, Coroutine PROVE IInv'
<1>. USE InputsOK DEF IInv
<1>1. UNCHANGED <<inputs, words, pc, cursor, map, found, hashingDone, numDone>>
  BY DEF Coroutine, Receive, ReceiveFails, FindAlone, Join, memory
<1>0. InputsOK' /\ Threads' = Threads /\ Len(sent) \in Nat
  BY <1>1, InputsStay
<1>2. Typed BY TypeOKSplit
<1>3. sent \in Seq(Hashes) BY ConstantsOK DEF InputsOK
<1>4. /\ theirHashes' \in Seq(Hashes)
      /\ Len(theirHashes') = IF main' \in {"joining", "returned"} THEN Len(sent) ELSE 0
      /\ main' \in {"receiving", "joining", "returned", "failed", "terminated"}
      /\ main \in {"joining", "returned"} => main' \in {"joining", "returned"}
  <2>1. CASE Receive BY <1>2, <1>3, <2>1 DEF Receive, Typed
  <2>2. CASE ReceiveFails BY <1>2, <2>2 DEF ReceiveFails, Typed, memory
  <2>3. CASE FindAlone BY <1>2, <2>3 DEF FindAlone, Typed, memory
  <2>4. CASE Join BY <1>2, <2>4 DEF Join, Typed, memory
  <2>. QED BY <2>1, <2>2, <2>3, <2>4 DEF Coroutine
<1>5. Typed' /\ Arrived' = Arrived
  BY <1>0, <1>1, <1>2, <1>4 DEF Typed, Arrived, inputs
<1>6. Barrier' BY <1>0, <1>1, <1>4 DEF Barrier, inputs
<1>7. numDone' = Cardinality(Arrived') BY <1>1, <1>5, TypeOKSplit
<1>. QED BY <1>0, <1>5, <1>6, <1>7, TypeOKSplitPrime

LEMMA StutterHolds == ASSUME IInv, UNCHANGED vars PROVE IInv'
<1>. USE InputsOK DEF IInv
<1>0. InputsOK' /\ Threads' = Threads /\ Len(sent) \in Nat
  BY InputsStay DEF vars
<1>1. Typed' /\ Arrived' = Arrived
  BY <1>0, TypeOKSplit DEF vars, inputs, memory, Typed, Arrived
<1>2. Barrier' BY <1>0 DEF vars, inputs, memory, Barrier
<1>3. numDone' = Cardinality(Arrived') BY <1>1, TypeOKSplit DEF vars
<1>. QED BY <1>0, <1>1, <1>2, <1>3, TypeOKSplitPrime

LEMMA NextHolds == IInv /\ [Next]_vars => IInv'
<1>. SUFFICES ASSUME IInv, [Next]_vars PROVE IInv' OBVIOUS
<1>1. ASSUME NEW t \in Threads, Thread(t) PROVE IInv'
  BY <1>1, HashHolds, ArriveHolds, PassBarrierHolds, StartFindingHolds, FindHolds,
     MergeHolds DEF Thread
<1>2. CASE Coroutine BY <1>2, CoroutineHolds
<1>3. CASE Over BY <1>3, StutterHolds DEF Over
<1>4. CASE UNCHANGED vars BY <1>4, StutterHolds
<1>. QED BY <1>1, <1>2, <1>3, <1>4 DEF Next, Coroutine

THEOREM Invariance == Spec => []IInv
BY InitHolds, NextHolds, PTL DEF Spec

(* However many inputs and threads there are, no variable of a run leaves  *)
(* its type, theirHashes is there exactly when the coroutine has received  *)
(* it, and the atomic counter is the number of threads past their hashes.  *)
THEOREM TypeCorrect == Spec => []TypeOK
<1>1. IInv => TypeOK BY DEF IInv
<1>. QED BY <1>1, Invariance, PTL

(* However many inputs and threads there are, the counter and the two      *)
(* futures keep the results off the hashes that a thread has yet to read.  *)
THEOREM HashesAreSafe == Spec => []HashesOutliveTheMaps
<1>1. IInv => HashesOutliveTheMaps
  <2>. SUFFICES ASSUME IInv, NEW t \in Threads, pc[t] = "hashing",
                       NEW i \in cursor[t] .. RecverSize - 1
                PROVE  Intact(i)
    BY DEF HashesOutliveTheMaps
  <2>1. \A u \in Threads : pc[u] \notin {"finding", "done"}
    BY DEF IInv, Barrier
  <2>2. \A w \in 0 .. MyWords - 1 : words[w] = Untouched
    BY <2>1 DEF IInv, Barrier
  <2>3. i \in Indices BY ConstantsOK DEF IInv, TypeOK
  <2>4. 2 * i \in 0 .. MyWords - 1 /\ 2 * i + 1 \in 0 .. MyWords - 1
    BY <2>3, ConstantsOK
  <2>. QED BY <2>2, <2>4 DEF Intact
<1>. QED BY <1>1, Invariance, PTL

-----------------------------------------------------------------------------
(* The stretches.  Thread t's results go to the words from Begin(t) up to  *)
(* Begin(t + 1): the stretches lie within the receiver's hashes, one after *)
(* the other.                                                              *)

LEMMA DivMonotone ==
  ASSUME NEW n \in Nat \ {0}, NEW a \in Nat, NEW b \in Nat, a <= b
  PROVE  a \div n \in Nat /\ a \div n <= b \div n
OBVIOUS

LEMMA TimesMonotone ==
  ASSUME NEW r \in Nat, NEW t \in Nat, NEW u \in Nat, t <= u
  PROVE  t * r \in Nat /\ t * r <= u * r
OBVIOUS

LEMMA DivExact ==
  ASSUME NEW n \in Nat \ {0}, NEW r \in Nat
  PROVE  (n * r) \div n = r
OBVIOUS

LEMMA Stretches ==
  ASSUME InputsOK, NEW t \in 0 .. numThreads, NEW u \in 0 .. numThreads, t <= u
  PROVE  /\ Begin(t) \in Nat /\ Begin(u) \in Nat
         /\ Begin(t) <= Begin(u) /\ Begin(u) <= MyWords
<1>1. numThreads \in Nat \ {0} /\ RecverSize \in Nat BY ConstantsOK DEF InputsOK
<1>2. ASSUME NEW v \in 0 .. numThreads, NEW w \in 0 .. numThreads, v <= w
      PROVE  /\ (v * RecverSize) \div numThreads \in Nat
             /\ (v * RecverSize) \div numThreads <= (w * RecverSize) \div numThreads
  <2>1. v \in Nat /\ w \in Nat BY <1>1
  <2>2. v * RecverSize \in Nat /\ w * RecverSize \in Nat /\ v * RecverSize <= w * RecverSize
    BY <1>1, <1>2, <2>1, TimesMonotone
  <2>. QED BY <1>1, <2>2, DivMonotone
<1>3. numThreads \in 0 .. numThreads BY <1>1
<1>4. (numThreads * RecverSize) \div numThreads = RecverSize BY <1>1, DivExact
<1>5. (u * RecverSize) \div numThreads <= RecverSize
  BY <1>1, <1>2, <1>3, <1>4
<1>6. /\ (t * RecverSize) \div numThreads \in Nat /\ (u * RecverSize) \div numThreads \in Nat
      /\ (t * RecverSize) \div numThreads <= (u * RecverSize) \div numThreads
  BY <1>2, <1>3, <1>1
<1>. HIDE DEF InputsOK
<1>. QED BY <1>1, <1>5, <1>6 DEF Begin

-----------------------------------------------------------------------------
(* Runs in which every thread's results fit its stretch.                   *)

(* The receiver's hashes below k that belong to thread t.                  *)
Mine(t, k) == {i \in Indices : bin[i] = t /\ i < k}

(* A thread's map has what it has read and owns, and the sender's hashes   *)
(* stay as they were sent.                                                 *)
Maps ==
  /\ \A t \in Threads : map[t] = Mine(t, IF pc[t] = "hashing" THEN cursor[t] ELSE RecverSize)
  /\ main \in {"joining", "returned"} => theirHashes = sent

FitInv == IInv /\ Fit /\ Maps /\ ResultsStayPut

MineInCommon(t) == {i \in Common : bin[i] = t}

(* What a thread has found fits its stretch, as long as what it has to     *)
(* find does; one more match is one more index.                            *)
LEMMA SeenFits ==
  ASSUME InputsOK, Fit, NEW t \in Threads, NEW k \in 0 .. Len(sent)
  PROVE  /\ IsFiniteSet(Seen(t, k)) /\ Cardinality(Seen(t, k)) \in Nat
         /\ Seen(t, k) \subseteq MineInCommon(t)
         /\ IsFiniteSet(MineInCommon(t)) /\ Cardinality(MineInCommon(t)) \in Nat
         /\ Cardinality(Seen(t, k)) <= Cardinality(MineInCommon(t))
         /\ Cardinality(MineInCommon(t)) <= Begin(t + 1) - Begin(t)
<1>1. Len(sent) \in Nat /\ sent \in Seq(Hashes) BY ConstantsOK DEF InputsOK
<1>2. Seen(t, k) \subseteq MineInCommon(t) BY <1>1 DEF Seen, Common, MineInCommon
<1>3. MineInCommon(t) \subseteq Indices
  <2>1. \A j \in DOMAIN sent : sent[j] \in Hashes BY <1>1
  <2>. QED BY <2>1 DEF MineInCommon, Common, Hashes
<1>4. IsFiniteSet(Indices)
  <2>1. 0 \in Int /\ RecverSize - 1 \in Int BY ConstantsOK
  <2>. QED BY <2>1, FS_Interval
<1>5. IsFiniteSet(MineInCommon(t)) BY <1>3, <1>4, FS_Subset
<1>6. IsFiniteSet(Seen(t, k)) /\ Cardinality(Seen(t, k)) <= Cardinality(MineInCommon(t))
  BY <1>2, <1>5, FS_Subset
<1>7. Cardinality(MineInCommon(t)) <= Begin(t + 1) - Begin(t) BY DEF Fit, MineInCommon
<1>. QED BY <1>2, <1>5, <1>6, <1>7, FS_CardinalityType

LEMMA SeenGrows ==
  ASSUME InputsOK, NEW t \in Threads, NEW k \in 0 .. Len(sent) - 1, Fit
  PROVE  /\ sent[k + 1] \in Indices /\ bin[sent[k + 1]] = t =>
              /\ Seen(t, k + 1) = Seen(t, k) \cup {sent[k + 1]}
              /\ sent[k + 1] \notin Seen(t, k)
              /\ Cardinality(Seen(t, k + 1)) = Cardinality(Seen(t, k)) + 1
         /\ ~ (sent[k + 1] \in Indices /\ bin[sent[k + 1]] = t) => Seen(t, k + 1) = Seen(t, k)
<1>1. Len(sent) \in Nat /\ sent \in Seq(Hashes) BY ConstantsOK DEF InputsOK
<1>2. \A j, l \in DOMAIN sent : sent[j] = sent[l] /\ sent[j] # Foreign => j = l
  BY SenderInputsAssumption DEF InputsOK
<1>3. 1 .. k + 1 = 1 .. k \cup {k + 1} /\ k + 1 \notin 1 .. k BY <1>1
<1>4. Seen(t, k + 1) = Seen(t, k) \cup {i \in Indices : bin[i] = t /\ sent[k + 1] = i}
  BY <1>3 DEF Seen
<1>5. ASSUME sent[k + 1] \in Indices, bin[sent[k + 1]] = t
      PROVE  /\ Seen(t, k + 1) = Seen(t, k) \cup {sent[k + 1]}
             /\ sent[k + 1] \notin Seen(t, k)
             /\ Cardinality(Seen(t, k + 1)) = Cardinality(Seen(t, k)) + 1
  <2>1. Seen(t, k + 1) = Seen(t, k) \cup {sent[k + 1]} BY <1>4, <1>5
  <2>2. sent[k + 1] \notin Seen(t, k)
    <3>. SUFFICES ASSUME NEW j \in 1 .. k, sent[j] = sent[k + 1] PROVE FALSE BY DEF Seen
    <3>1. j \in DOMAIN sent /\ k + 1 \in DOMAIN sent BY <1>1
    <3>2. sent[j] # Foreign BY <1>5, ConstantsOK
    <3>. QED BY <1>2, <3>1, <3>2
  <2>3. IsFiniteSet(Seen(t, k))
    <3>1. k \in 0 .. Len(sent) BY <1>1
    <3>. QED BY <3>1, SeenFits
  <2>. QED BY <2>1, <2>2, <2>3, FS_AddElement
<1>. QED BY <1>4, <1>5

LEMMA FitInitHolds == AssumeFit /\ Init => FitInv
<1>. SUFFICES ASSUME AssumeFit, Init PROVE FitInv OBVIOUS
<1>1. IInv BY InitHolds
<1>2. Fit BY DEF Init
<1>3. Maps
  <2>1. \A t \in Threads : Mine(t, 0) = {} BY ConstantsOK DEF Mine
  <2>. QED BY <2>1 DEF Init, Maps
<1>4. ResultsStayPut BY DEF Init, ResultsStayPut
<1>. QED BY <1>1, <1>2, <1>3, <1>4 DEF FitInv

(* What a thread stores lies in its own stretch, behind what it found.     *)
LEMMA StoreInStretch ==
  ASSUME FitInv, NEW t \in Threads, pc[t] = "finding", cursor[t] < Len(sent),
         sent[cursor[t] + 1] \in Indices, bin[sent[cursor[t] + 1]] = t
  PROVE  /\ Begin(t) \in Nat /\ found[t] \in Nat
         /\ Word(t, found[t]) \in Begin(t) .. Begin(t + 1) - 1
         /\ Begin(t + 1) \in Nat /\ Begin(t + 1) <= MyWords
<1>. USE DEF FitInv, IInv
<1>1. cursor[t] \in 0 .. Len(sent) - 1 /\ cursor[t] + 1 \in 0 .. Len(sent)
      /\ found[t] = Cardinality(Seen(t, cursor[t])) /\ cursor[t] \in 0 .. Len(sent)
  <2>1. Len(sent) \in Nat BY ConstantsOK DEF InputsOK
  <2>2. cursor[t] \in Nat BY <2>1, ConstantsOK DEF TypeOK
  <2>. QED BY <2>1, <2>2 DEF ResultsStayPut
<1>2. Cardinality(Seen(t, cursor[t] + 1)) = found[t] + 1 BY <1>1, SeenGrows, SMTT(20)
<1>3. found[t] \in Nat /\ found[t] + 1 <= Begin(t + 1) - Begin(t)
  <2>1. /\ Cardinality(Seen(t, cursor[t])) \in Nat
        /\ Cardinality(Seen(t, cursor[t] + 1)) <= Cardinality(MineInCommon(t))
        /\ Cardinality(MineInCommon(t)) <= Begin(t + 1) - Begin(t)
        /\ Cardinality(MineInCommon(t)) \in Nat
    BY <1>1, SeenFits
  <2>2. Begin(t) \in Nat /\ Begin(t + 1) \in Nat
    <3>1. t \in 0 .. numThreads /\ t + 1 \in 0 .. numThreads
      BY ConstantsOK DEF InputsOK, Threads
    <3>. QED BY <3>1, Stretches
  <2>. QED BY <1>1, <1>2, <2>1, <2>2
<1>4. Begin(t) \in Nat /\ Begin(t + 1) \in Nat /\ Begin(t + 1) <= MyWords
  <2>1. t \in 0 .. numThreads /\ t + 1 \in 0 .. numThreads /\ t <= t + 1
    BY ConstantsOK DEF InputsOK, Threads
  <2>. QED BY <2>1, Stretches
<1>. QED BY <1>3, <1>4 DEF Word

(* Another thread's results are not in this thread's stretch.              *)
LEMMA StretchesApart ==
  ASSUME FitInv, NEW t \in Threads, NEW u \in Threads, t # u, pc[u] = "finding",
         NEW k \in 0 .. found[u] - 1, NEW w \in Begin(t) .. Begin(t + 1) - 1
  PROVE  Word(u, k) # w /\ Word(u, k) \in 0 .. MyWords - 1
<1>. USE DEF FitInv, IInv
<1>1. /\ t \in 0 .. numThreads /\ t + 1 \in 0 .. numThreads
      /\ u \in 0 .. numThreads /\ u + 1 \in 0 .. numThreads
      /\ t + 1 <= u \/ u + 1 <= t
  <2>1. numThreads \in Nat BY ConstantsOK DEF InputsOK
  <2>2. t \in 0 .. numThreads - 1 /\ u \in 0 .. numThreads - 1 BY DEF Threads
  <2>. QED BY <2>1, <2>2
<1>2. cursor[u] \in 0 .. Len(sent) /\ found[u] = Cardinality(Seen(u, cursor[u]))
  <2>1. Len(sent) \in Nat BY ConstantsOK DEF InputsOK
  <2>2. cursor[u] \in Nat BY <2>1, ConstantsOK DEF TypeOK
  <2>. QED BY <2>1, <2>2 DEF ResultsStayPut, Barrier
<1>3. /\ found[u] \in Nat /\ found[u] <= Begin(u + 1) - Begin(u)
  <2>1. /\ Cardinality(Seen(u, cursor[u])) \in Nat
        /\ Cardinality(Seen(u, cursor[u])) <= Cardinality(MineInCommon(u))
        /\ Cardinality(MineInCommon(u)) <= Begin(u + 1) - Begin(u)
        /\ Cardinality(MineInCommon(u)) \in Nat
    BY <1>2, SeenFits
  <2>2. Begin(u) \in Nat /\ Begin(u + 1) \in Nat
    <3>1. u <= u + 1 BY <1>1
    <3>. QED BY <1>1, <3>1, Stretches
  <2>. QED BY <1>2, <2>1, <2>2
<1>4. /\ Begin(t) \in Nat /\ Begin(t + 1) \in Nat
      /\ Begin(u) \in Nat /\ Begin(u + 1) \in Nat /\ Begin(u + 1) <= MyWords
  <2>1. t <= t + 1 /\ u <= u + 1 BY <1>1
  <2>. QED BY <1>1, <2>1, Stretches
<1>5. Begin(t + 1) <= Begin(u) \/ Begin(u + 1) <= Begin(t)
  BY <1>1, Stretches
<1>6. Word(u, k) \in Begin(u) .. Begin(u + 1) - 1
  BY <1>3, <1>4 DEF Word
<1>7. ASSUME NEW x \in Begin(u) .. Begin(u + 1) - 1 PROVE x # w /\ x \in 0 .. 2 * RecverSize - 1
  <2>1. RecverSize \in Nat BY ConstantsOK
  <2>2. x \in Int /\ w \in Int BY <1>4
  <2>3. Begin(u) <= x /\ x < Begin(u + 1) /\ Begin(t) <= w /\ w < Begin(t + 1)
    BY <1>4, <2>2
  <2>. QED BY <1>4, <1>5, <2>1, <2>2, <2>3
<1>. QED BY <1>6, <1>7

(* Everything that is stated of the inputs alone stays true.               *)
LEMMA FitStays ==
  ASSUME FitInv, UNCHANGED inputs
  PROVE  /\ Fit' /\ Threads' = Threads
         /\ \A t \in Threads, k \in Int :
              Seen(t, k)' = Seen(t, k) /\ Mine(t, k)' = Mine(t, k)
         /\ \A t \in Threads, k \in Int : Word(t, k)' = Word(t, k)
<1>1. numThreads' = numThreads /\ bin' = bin /\ sent' = sent BY DEF inputs
<1>2. Threads' = Threads BY <1>1 DEF Threads
<1>3. Common' = Common BY <1>1 DEF Common
<1>4. Fit' BY <1>1, <1>2, <1>3 DEF FitInv, Fit, Begin
<1>. QED BY <1>1, <1>2, <1>4 DEF Seen, Mine, Word, Begin

(* ResultsStayPut in terms of values, so that a step that keeps them keeps *)
(* it: what n words from b on hold, and what is among the first k of s.    *)
Held(w, b, n) == {w[b + k] : k \in 0 .. n - 1}
SeenBy(s, owner, t, k) == {i \in Indices : owner[i] = t /\ \E j \in 1 .. k : s[j] = i}

PutBy(w, b, n, s, owner, t, k) ==
  Held(w, b, n) = SeenBy(s, owner, t, k) /\ n = Cardinality(SeenBy(s, owner, t, k))

LEMMA StayPutSplit ==
  ResultsStayPut <=> \A t \in Threads : pc[t] = "finding" =>
                       PutBy(words, Begin(t), found[t], sent, bin, t, cursor[t])
BY DEF ResultsStayPut, PutBy, Held, SeenBy, Seen, Word

LEMMA StayPutSplitPrime ==
  ResultsStayPut' <=> \A t \in Threads' : pc'[t] = "finding" =>
                        PutBy(words', Begin(t)', found'[t], sent', bin', t, cursor'[t])
BY DEF ResultsStayPut, PutBy, Held, SeenBy, Seen, Word

(* A step that moves no thread that is finding and writes no results.      *)
LEMMA ResultsUntouched ==
  ASSUME FitInv, UNCHANGED <<inputs, words, found>>,
         \A t \in Threads : pc'[t] = "finding" => pc[t] = "finding" /\ cursor'[t] = cursor[t]
  PROVE  ResultsStayPut'
<1>1. Threads' = Threads BY FitStays
<1>2. bin' = bin /\ sent' = sent /\ words' = words /\ found' = found BY DEF inputs
<1>3. \A t : Begin(t)' = Begin(t) BY DEF inputs, Begin
<1>. QED BY <1>1, <1>2, <1>3, StayPutSplit, StayPutSplitPrime DEF FitInv

(* A step that leaves the maps, and what each thread has read, alone.      *)
LEMMA MapsUntouched ==
  ASSUME FitInv, UNCHANGED <<inputs, map>>,
         \A t \in Threads : (IF pc[t] = "hashing" THEN cursor[t] ELSE RecverSize)'
                              = IF pc[t] = "hashing" THEN cursor[t] ELSE RecverSize,
         main' \in {"joining", "returned"} => theirHashes' = sent'
  PROVE  Maps'
<1>1. Threads' = Threads BY FitStays
<1>2. bin' = bin /\ map' = map BY DEF inputs
<1>. QED BY <1>1, <1>2 DEF FitInv, Maps, Mine

LEMMA FitHashHolds ==
  ASSUME FitInv, NEW t \in Threads, Hash(t) PROVE Maps' /\ ResultsStayPut'
<1>1. UNCHANGED <<inputs, memory, words, theirHashes, main, pc, found>> /\ Threads' = Threads
  BY FitStays DEF Hash, memory
<1>2. pc[t] = "hashing" /\ \A u \in Threads \ {t} : cursor'[u] = cursor[u] /\ map'[u] = map[u]
  BY DEF Hash, At, FitInv, IInv, TypeOK
<1>3. ResultsStayPut' BY <1>1, <1>2, ResultsUntouched
<1>4. cursor[t] \in Indices /\ cursor'[t] = cursor[t] + 1
  BY ConstantsOK DEF Hash, FitInv, IInv, TypeOK
<1>5. map'[t] = Mine(t, cursor[t] + 1)
  <2>1. \A w \in 0 .. MyWords - 1 : words[w] = Untouched
    BY <1>2 DEF FitInv, IInv, Barrier
  <2>2. 2 * cursor[t] \in 0 .. MyWords - 1 /\ 2 * cursor[t] + 1 \in 0 .. MyWords - 1
    BY <1>4, ConstantsOK
  <2>3. Intact(cursor[t]) BY <2>1, <2>2 DEF Intact
  <2>4. map[t] = Mine(t, cursor[t]) BY <1>2 DEF FitInv, Maps
  <2>5. map'[t] = IF bin[cursor[t]] = t THEN map[t] \cup {cursor[t]} ELSE map[t]
    BY <2>3 DEF Hash, FitInv, IInv, TypeOK
  <2>6. Mine(t, cursor[t] + 1) = IF bin[cursor[t]] = t THEN Mine(t, cursor[t]) \cup {cursor[t]}
                                 ELSE Mine(t, cursor[t])
    BY <1>4, ConstantsOK DEF Mine
  <2>. QED BY <2>4, <2>5, <2>6
<1>6. \A u \in Threads \ {t} :
        map'[u] = Mine(u, IF pc[u] = "hashing" THEN cursor'[u] ELSE RecverSize)
  BY <1>2 DEF FitInv, Maps
<1>7. Maps'
  <2>1. bin' = bin /\ sent' = sent BY <1>1 DEF inputs
  <2>2. \A u \in Threads :
          map'[u] = Mine(u, IF pc[u] = "hashing" THEN cursor'[u] ELSE RecverSize)
    BY <1>2, <1>4, <1>5, <1>6
  <2>. QED BY <1>1, <2>1, <2>2 DEF FitInv, Maps, Mine
<1>. QED BY <1>3, <1>7

(* The steps between the loops move pc alone, or set cursor to 0.          *)
LEMMA FitBetweenHolds ==
  ASSUME FitInv, NEW t \in Threads, Arrive(t) \/ PassBarrier(t) \/ StartFinding(t) \/ Merge(t)
  PROVE  Maps' /\ ResultsStayPut'
<1>1. /\ UNCHANGED <<inputs, memory, words, theirHashes, main, map, found>>
      /\ Threads' = Threads /\ \A u \in Threads \ {t} : pc'[u] = pc[u] /\ cursor'[u] = cursor[u]
  <2>1. UNCHANGED <<inputs, memory, main, map, found>> /\ pc \in [Threads -> Labels]
        /\ cursor \in [Threads -> 0 .. RecverSize + Len(sent)]
    BY DEF Arrive, PassBarrier, StartFinding, Merge, FitInv, IInv, TypeOK
  <2>2. \A u \in Threads \ {t} : pc'[u] = pc[u] /\ cursor'[u] = cursor[u]
    BY <2>1 DEF Arrive, PassBarrier, StartFinding, Merge, Goto
  <2>. QED BY <2>1, <2>2, FitStays DEF memory
<1>2. /\ pc'[t] # "hashing"
      /\ (IF pc[t] = "hashing" THEN cursor[t] ELSE RecverSize) = RecverSize
      /\ pc'[t] = "finding" => cursor'[t] = 0 /\ found[t] = 0
  BY DEF Arrive, PassBarrier, StartFinding, Merge, At, Goto, FitInv, IInv, TypeOK, Barrier
<1>3. Maps'
  <2>1. \A u \in Threads : (IF pc'[u] = "hashing" THEN cursor'[u] ELSE RecverSize)
                             = IF pc[u] = "hashing" THEN cursor[u] ELSE RecverSize
    BY <1>1, <1>2
  <2>2. main' \in {"joining", "returned"} => theirHashes' = sent'
    BY <1>1 DEF FitInv, Maps, inputs
  <2>. QED BY <1>1, <2>1, <2>2, MapsUntouched
<1>4. CASE pc'[t] # "finding"
  BY <1>1, <1>3, <1>4, ResultsUntouched
<1>5. CASE pc'[t] = "finding"
  <2>1. PutBy(words, Begin(t), 0, sent, bin, t, 0)
    BY FS_EmptySet DEF PutBy, Held, SeenBy
  <2>2. bin' = bin /\ sent' = sent BY <1>1 DEF inputs
  <2>3. \A u : Begin(u)' = Begin(u) BY <1>1 DEF inputs, Begin
  <2>4. \A u \in Threads : pc'[u] = "finding" =>
          PutBy(words, Begin(u), found[u], sent, bin, u, cursor'[u])
    BY <1>1, <1>2, <1>5, <2>1, StayPutSplit DEF FitInv
  <2>5. ResultsStayPut' BY <1>1, <2>2, <2>3, <2>4, StayPutSplitPrime
  <2>. QED BY <1>3, <2>5
<1>. QED BY <1>4, <1>5

(* A store elsewhere leaves what is held.                                  *)
LEMMA HeldElsewhere ==
  ASSUME NEW v, NEW w, NEW b, NEW n, \A k \in 0 .. n - 1 : v[b + k] = w[b + k]
  PROVE  Held(v, b, n) = Held(w, b, n)
BY DEF Held

(* A thread finds the next hash if it is one of the receiver's that it owns. *)
LEMMA MatchesMine ==
  ASSUME FitInv, NEW t \in Threads, pc[t] = "finding", cursor[t] < Len(theirHashes)
  PROVE  /\ theirHashes = sent /\ cursor[t] \in 0 .. Len(sent) - 1
         /\ cursor[t] + 1 \in DOMAIN sent
         /\ LET h == sent[cursor[t] + 1]
            IN  Matches(t, h) <=> h \in Indices /\ bin[h] = t
<1>. USE DEF FitInv, IInv
<1>1. theirHashes = sent BY DEF Barrier, Maps
<1>2. Len(sent) \in Nat /\ sent \in Seq(Hashes) BY ConstantsOK DEF InputsOK
<1>3. cursor[t] \in 0 .. Len(sent) - 1 BY <1>1, <1>2, ConstantsOK DEF TypeOK
<1>4. cursor[t] + 1 \in DOMAIN sent /\ sent[cursor[t] + 1] \in Hashes BY <1>2, <1>3
<1>5. map[t] = Mine(t, RecverSize) BY DEF Maps
<1>6. ASSUME NEW h \in Hashes PROVE Matches(t, h) <=> h \in Indices /\ bin[h] = t
  <2>1. Foreign \notin Indices BY ConstantsOK
  <2>2. h \in Indices => h < RecverSize BY ConstantsOK
  <2>. QED BY <1>5, <2>1, <2>2 DEF Matches, Hashes, Mine
<1>. QED BY <1>1, <1>3, <1>4, <1>6

LEMMA FitFindHolds ==
  ASSUME FitInv, NEW t \in Threads, Find(t) PROVE Maps' /\ ResultsStayPut'
<1>. DEFINE h == sent[cursor[t] + 1]
            Others == Threads \ {t}
<1>1. /\ pc[t] = "finding" /\ cursor[t] < Len(theirHashes) /\ pc' = pc /\ map' = map
      /\ UNCHANGED inputs /\ bin' = bin /\ sent' = sent /\ main' = main
      /\ Threads' = Threads
  BY FitStays DEF Find, At, inputs
<1>2. /\ theirHashes = sent /\ cursor[t] \in 0 .. Len(sent) - 1
      /\ Matches(t, h) <=> h \in Indices /\ bin[h] = t
  BY <1>1, MatchesMine
<1>3. Len(sent) \in Nat BY ConstantsOK DEF FitInv, IInv, InputsOK
<1>4. /\ cursor'[t] = cursor[t] + 1
      /\ \A u \in Others : cursor'[u] = cursor[u]
  BY DEF Find, FitInv, IInv, TypeOK
<1>5. \A u : Begin(u)' = Begin(u) BY <1>1 DEF inputs, Begin
<1>6. PutBy(words, Begin(t), found[t], sent, bin, t, cursor[t])
  BY <1>1, StayPutSplit DEF FitInv
<1>7. theirHashes' = sent /\ ResultsStayPut'
  <2>1. CASE Matches(t, h)
    <3>. DEFINE c == Begin(t) + found[t]
    <3>1. /\ Begin(t) \in Nat /\ found[t] \in Nat /\ c \in 0 .. MyWords - 1
      <4>1. cursor[t] < Len(sent) BY <1>2, <1>3
      <4>2. /\ Begin(t) \in Nat /\ found[t] \in Nat
            /\ c \in Begin(t) .. Begin(t + 1) - 1
            /\ Begin(t + 1) \in Nat /\ Begin(t + 1) <= MyWords
        BY <1>1, <1>2, <2>1, <4>1, StoreInStretch DEF Word
      <4>. QED BY <4>2, ConstantsOK
    <3>2. Store(c, h) /\ found' = [found EXCEPT ![t] = @ + 1]
      BY <1>2, <2>1 DEF Find, Word
    <3>3. theirHashes' = sent
      <4>1. ~ (c >= MyWords) BY <3>1, ConstantsOK
      <4>2. theirHashes' = [k \in DOMAIN theirHashes |-> theirHashes[k]]
        BY <3>2, <4>1 DEF Store
      <4>3. sent \in Seq(Hashes) BY ConstantsOK DEF FitInv, IInv, InputsOK
      <4>. QED BY <1>2, <4>2, <4>3
    <3>4. words' = [words EXCEPT ![c] = h] BY <3>2 DEF Store
    <3>5. found'[t] = found[t] + 1 /\ \A u \in Others : found'[u] = found[u]
      BY <3>2 DEF FitInv, IInv, TypeOK
    <3>6. PutBy(words', Begin(t), found'[t], sent, bin, t, cursor'[t])
      <4>1. c \in DOMAIN words BY <1>3, <3>1, ConstantsOK DEF FitInv, IInv, TypeOK
      <4>2. Held(words', Begin(t), found[t] + 1) = Held(words, Begin(t), found[t]) \cup {h}
        <5>1. ASSUME NEW k \in 0 .. found[t] - 1
              PROVE  words'[Begin(t) + k] = words[Begin(t) + k]
          <6>1. Begin(t) + k # c BY <3>1
          <6>. HIDE DEF c, h
          <6>. QED BY <3>4, <6>1
        <5>2. words'[Begin(t) + found[t]] = h BY <3>4, <4>1
        <5>3. found[t] \in Nat BY <3>1
        <5>. HIDE DEF h
        <5>4. Held(words', Begin(t), found[t] + 1)
                = Held(words, Begin(t), found[t]) \cup {words'[Begin(t) + found[t]]}
          <6>. HIDE DEF c
          <6>1. 0 .. (found[t] + 1) - 1 = 0 .. found[t] - 1 \cup {found[t]} BY <5>3
          <6>. QED BY <5>1, <6>1, ZenonT(30) DEF Held
        <5>. QED BY <5>2, <5>4
      <4>3. /\ Seen(t, cursor[t] + 1) = Seen(t, cursor[t]) \cup {h}
            /\ Cardinality(Seen(t, cursor[t] + 1)) = Cardinality(Seen(t, cursor[t])) + 1
        BY <1>2, <2>1, SeenGrows DEF h, FitInv, IInv
      <4>4. \A k : Seen(t, k) = SeenBy(sent, bin, t, k) BY DEF Seen, SeenBy
      <4>. QED BY <1>4, <1>6, <3>5, <4>2, <4>3, <4>4 DEF PutBy
    <3>7. ASSUME NEW u \in Others, pc[u] = "finding"
          PROVE  PutBy(words', Begin(u), found'[u], sent, bin, u, cursor'[u])
      <4>1. \A k \in 0 .. found[u] - 1 : Begin(u) + k # c
        <5>1. c \in Begin(t) .. Begin(t + 1) - 1
          <6>1. cursor[t] < Len(sent) BY <1>2, <1>3
          <6>. QED BY <1>1, <1>2, <2>1, <6>1, StoreInStretch DEF Word
        <5>. HIDE DEF c
        <5>. QED BY <3>7, <5>1, StretchesApart DEF Word
      <4>2. Held(words', Begin(u), found[u]) = Held(words, Begin(u), found[u])
        <5>1. ASSUME NEW k \in 0 .. found[u] - 1
              PROVE  words'[Begin(u) + k] = words[Begin(u) + k]
          <6>1. Begin(u) + k # c BY <4>1
          <6>. HIDE DEF c, h
          <6>. QED BY <3>4, <6>1
        <5>. QED BY <5>1, HeldElsewhere
      <4>3. PutBy(words, Begin(u), found[u], sent, bin, u, cursor[u])
        BY <3>7, StayPutSplit DEF FitInv
      <4>. QED BY <1>4, <3>5, <4>2, <4>3 DEF PutBy
    <3>8. \A u \in Threads' : pc'[u] = "finding" =>
            PutBy(words', Begin(u)', found'[u], sent', bin', u, cursor'[u])
      BY <1>1, <1>5, <3>6, <3>7
    <3>. QED BY <3>3, <3>8, StayPutSplitPrime
  <2>2. CASE ~ Matches(t, h)
    <3>1. words' = words /\ theirHashes' = theirHashes /\ found' = found
      BY <1>2, <2>2 DEF Find, memory
    <3>2. PutBy(words, Begin(t), found[t], sent, bin, t, cursor'[t])
      <4>1. Seen(t, cursor[t] + 1) = Seen(t, cursor[t])
        BY <1>2, <2>2, SeenGrows DEF FitInv, IInv
      <4>2. \A k : Seen(t, k) = SeenBy(sent, bin, t, k) BY DEF Seen, SeenBy
      <4>. QED BY <1>4, <1>6, <4>1, <4>2 DEF PutBy
    <3>3. \A u \in Others : pc[u] = "finding" =>
            PutBy(words, Begin(u), found[u], sent, bin, u, cursor'[u])
      BY <1>4, StayPutSplit DEF FitInv
    <3>4. \A u \in Threads' : pc'[u] = "finding" =>
            PutBy(words', Begin(u)', found'[u], sent', bin', u, cursor'[u])
      BY <1>1, <1>5, <3>1, <3>2, <3>3
    <3>. QED BY <1>2, <3>1, <3>4, StayPutSplitPrime
  <2>. QED BY <2>1, <2>2
<1>8. Maps'
  <2>1. \A u \in Threads : (IF pc[u] = "hashing" THEN cursor[u] ELSE RecverSize)'
                             = IF pc[u] = "hashing" THEN cursor[u] ELSE RecverSize
    BY <1>1, <1>4
  <2>. QED BY <1>1, <1>7, <2>1, MapsUntouched
<1>. QED BY <1>7, <1>8

LEMMA FitCoroutineHolds ==
  ASSUME FitInv, Coroutine \/ UNCHANGED vars PROVE Maps' /\ ResultsStayPut'
<1>1. UNCHANGED <<inputs, words, pc, cursor, map, found>>
  BY DEF Coroutine, Receive, ReceiveFails, FindAlone, Join, memory, vars
<1>2. ResultsStayPut' BY <1>1, ResultsUntouched
<1>3. main' \in {"joining", "returned"} => theirHashes' = sent
  BY DEF Coroutine, Receive, ReceiveFails, FindAlone, Join, memory, vars, FitInv, Maps
<1>4. sent' = sent BY <1>1 DEF inputs
<1>5. \A u \in Threads : (IF pc[u] = "hashing" THEN cursor[u] ELSE RecverSize)'
                             = IF pc[u] = "hashing" THEN cursor[u] ELSE RecverSize
  BY <1>1
<1>6. Maps' BY <1>1, <1>3, <1>4, <1>5, MapsUntouched
<1>. QED BY <1>2, <1>6

LEMMA FitNextHolds == FitInv /\ [Next]_vars => FitInv'
<1>. SUFFICES ASSUME FitInv, [Next]_vars PROVE FitInv' OBVIOUS
<1>1. IInv' BY NextHolds DEF FitInv
<1>2. UNCHANGED inputs
  <2>1. ASSUME NEW t \in Threads, Thread(t) PROVE UNCHANGED inputs
    BY <2>1 DEF Thread, Hash, Arrive, PassBarrier, StartFinding, Find, Merge
  <2>. QED BY <2>1 DEF Next, Receive, ReceiveFails, FindAlone, Join, Over, vars
<1>3. Fit' BY <1>2, FitStays
<1>4. Maps' /\ ResultsStayPut'
  <2>1. ASSUME NEW t \in Threads, Thread(t) PROVE Maps' /\ ResultsStayPut'
    BY <2>1, FitHashHolds, FitBetweenHolds, FitFindHolds DEF Thread
  <2>2. CASE Coroutine \/ UNCHANGED vars BY <2>2, FitCoroutineHolds
  <2>. QED BY <2>1, <2>2 DEF Next, Coroutine, Over
<1>. QED BY <1>1, <1>3, <1>4 DEF FitInv

THEOREM FitInvariance == ASSUME AssumeFit PROVE Spec => []FitInv
BY AssumeFit, FitInitHolds, FitNextHolds, PTL DEF Spec

(* In a run in which no thread has more results than its stretch has       *)
(* words, a thread's results are still what it found when it merges them,  *)
(* however many threads write next to it.                                  *)
THEOREM ResultsAreSafe == ASSUME AssumeFit PROVE Spec => []ResultsStayPut
<1>1. FitInv => ResultsStayPut BY DEF FitInv
<1>. QED BY <1>1, FitInvariance, PTL

-----------------------------------------------------------------------------
(* The run implements the abstract intersection.                           *)

(* What has been reported are, each once, the common indices of the        *)
(* threads that have merged; a run without threads reports all at the end. *)
Reported ==
  /\ mIntersection \in Seq(Indices) /\ IsInjective(mIntersection)
  /\ Threads # {} => ToSet(mIntersection) = {i \in Common : pc[bin[i]] = "done"}
  /\ Threads = {} => IF main = "returned" THEN ToSet(mIntersection) = Common
                                          ELSE mIntersection = <<>>
  /\ main = "returned" => \A t \in Threads : pc[t] = "done"

ReportInv == FitInv /\ Reported

LEMMA FunctionIsSeq ==
  ASSUME NEW S, NEW n \in Nat, NEW s \in [1 .. n -> S] PROVE s \in Seq(S)
OBVIOUS

(* Two sequences without repetition and with nothing in common.            *)
LEMMA ConcatDistinct ==
  ASSUME NEW S, NEW s \in Seq(S), NEW t \in Seq(S), IsInjective(s), IsInjective(t),
         ToSet(s) \cap ToSet(t) = {}
  PROVE  /\ s \o t \in Seq(S) /\ IsInjective(s \o t)
         /\ ToSet(s \o t) = ToSet(s) \cup ToSet(t)
         /\ IsPrefix(s, s \o t)
<1>. DEFINE u == s \o t
<1>1. /\ u \in Seq(S) /\ Len(u) = Len(s) + Len(t)
      /\ Len(s) \in Nat /\ Len(t) \in Nat
      /\ DOMAIN s = 1 .. Len(s) /\ DOMAIN t = 1 .. Len(t) /\ DOMAIN u = 1 .. Len(u)
  OBVIOUS
<1>2. \A k \in DOMAIN u : u[k] = IF k <= Len(s) THEN s[k] ELSE t[k - Len(s)]
  OBVIOUS
<1>. HIDE DEF u
<1>3. \A k \in DOMAIN u : /\ k <= Len(s) => k \in DOMAIN s /\ u[k] = s[k]
                          /\ k > Len(s) => k - Len(s) \in DOMAIN t /\ u[k] = t[k - Len(s)]
  BY <1>1, <1>2
<1>4. \A k \in DOMAIN s : k \in DOMAIN u /\ u[k] = s[k]
  BY <1>1, <1>2
<1>5. \A k \in DOMAIN t : k + Len(s) \in DOMAIN u /\ u[k + Len(s)] = t[k]
  BY <1>1, <1>2
<1>6. ToSet(u) = ToSet(s) \cup ToSet(t)
  <2>1. ToSet(u) \subseteq ToSet(s) \cup ToSet(t)
    <3>. SUFFICES ASSUME NEW k \in DOMAIN u PROVE u[k] \in ToSet(s) \cup ToSet(t) BY DEF ToSet
    <3>1. CASE k <= Len(s) BY <1>3, <3>1 DEF ToSet
    <3>2. CASE ~ (k <= Len(s)) BY <1>1, <1>3, <3>2 DEF ToSet
    <3>. QED BY <3>1, <3>2
  <2>2. ToSet(s) \subseteq ToSet(u) BY <1>4 DEF ToSet
  <2>3. ToSet(t) \subseteq ToSet(u) BY <1>5 DEF ToSet
  <2>. QED BY <2>1, <2>2, <2>3
<1>7. IsInjective(u)
  <2>1. \A k \in DOMAIN s, l \in DOMAIN t : s[k] # t[l] BY DEF ToSet
  <2>. SUFFICES ASSUME NEW a \in DOMAIN u, NEW b \in DOMAIN u, u[a] = u[b] PROVE a = b
    BY DEF IsInjective
  <2>2. a \in Nat /\ b \in Nat BY <1>1
  <2>3. CASE a <= Len(s) /\ b <= Len(s) BY <1>3, <2>3 DEF IsInjective
  <2>4. CASE a > Len(s) /\ b > Len(s)
    <3>1. a - Len(s) = b - Len(s) BY <1>3, <2>4 DEF IsInjective
    <3>. QED BY <1>1, <2>2, <3>1
  <2>5. CASE a <= Len(s) /\ b > Len(s) BY <1>3, <2>1, <2>5
  <2>6. CASE a > Len(s) /\ b <= Len(s) BY <1>3, <2>1, <2>6
  <2>. QED BY <1>1, <2>2, <2>3, <2>4, <2>5, <2>6
<1>8. IsPrefix(s, u)
  <2>1. SubSeq(u, 1, Len(s)) = SubSeq(s, 1, Len(s))
    BY <1>1, <1>4
  <2>. QED BY <1>1, <2>1 DEF IsPrefix
<1>. QED BY <1>1, <1>6, <1>7, <1>8 DEF u

(* Everything continues the empty sequence, and itself.                    *)
LEMMA PrefixOf ==
  ASSUME NEW S, NEW s \in Seq(S)
  PROVE  IsPrefix(<<>>, s) /\ IsPrefix(s, s)
BY DEF IsPrefix

(* What a thread merges are its common indices, each once.                 *)
LEMMA MergedStretch ==
  ASSUME FitInv, NEW t \in Threads, pc[t] = "finding", cursor[t] = Len(theirHashes)
  PROVE  LET s == [k \in 1 .. found[t] |-> words[Word(t, k - 1)]]
         IN  /\ s \in Seq(Indices) /\ IsInjective(s)
             /\ ToSet(s) = MineInCommon(t)
<1>. DEFINE s == [k \in 1 .. found[t] |-> words[Word(t, k - 1)]]
            M == MineInCommon(t)
<1>1. /\ cursor[t] = Len(sent) /\ Len(sent) \in Nat /\ sent \in Seq(Hashes)
      /\ found[t] \in Nat
  BY ConstantsOK DEF FitInv, IInv, Barrier, TypeOK, InputsOK
<1>2. Seen(t, cursor[t]) = M
  BY <1>1 DEF Seen, MineInCommon, Common, Hashes
<1>3. /\ {words[Word(t, k)] : k \in 0 .. found[t] - 1} = M
      /\ found[t] = Cardinality(M)
  BY <1>2 DEF FitInv, ResultsStayPut
<1>4. ToSet(s) = M
  <2>1. \A k \in 1 .. found[t] : k - 1 \in 0 .. found[t] - 1 /\ s[k] = words[Word(t, k - 1)]
    BY <1>1
  <2>2. \A k \in 0 .. found[t] - 1 :
          k + 1 \in 1 .. found[t] /\ s[k + 1] = words[Word(t, k)]
    BY <1>1
  <2>3. DOMAIN s = 1 .. found[t] OBVIOUS
  <2>. HIDE DEF s, M
  <2>. QED BY <1>3, <2>1, <2>2, <2>3 DEF ToSet
<1>5. M \subseteq Indices BY <1>2 DEF Seen
<1>6. s \in [1 .. found[t] -> M] /\ \A x \in M : \E k \in 1 .. found[t] : s[k] = x
  <2>1. DOMAIN s = 1 .. found[t] /\ s = [k \in 1 .. found[t] |-> s[k]] OBVIOUS
  <2>. HIDE DEF s, M
  <2>. QED BY <1>4, <2>1 DEF ToSet
<1>7. IsInjective(s)
  <2>. HIDE DEF s, M
  <2>1. s \in Surjection(1 .. found[t], M) BY <1>6 DEF Surjection
  <2>2. IsFiniteSet(1 .. found[t]) /\ Cardinality(1 .. found[t]) = found[t]
    <3>1. 1 \in Int /\ found[t] \in Int BY <1>1
    <3>2. Cardinality(1 .. found[t]) = IF 1 > found[t] THEN 0 ELSE found[t] - 1 + 1
      BY <3>1, FS_Interval
    <3>3. IsFiniteSet(1 .. found[t]) BY <3>1, FS_Interval
    <3>. QED BY <1>1, <3>2, <3>3
  <2>3. s \in Injection(1 .. found[t], M)
    BY <1>3, <2>1, <2>2, FS_SurjSameCardinalityImpliesInj DEF M
  <2>4. DOMAIN s = 1 .. found[t] BY <1>6
  <2>. QED BY <2>3, <2>4 DEF Injection, IsInjective
<1>8. s \in Seq(Indices)
  <2>. HIDE DEF s, M
  <2>1. s \in [1 .. found[t] -> Indices] BY <1>5, <1>6
  <2>. QED BY <1>1, <2>1, FunctionIsSeq
<1>. QED BY <1>4, <1>7, <1>8

LEMMA AppendDistinct ==
  ASSUME NEW S, NEW s \in Seq(S), NEW x \in S, IsInjective(s), x \notin ToSet(s)
  PROVE  /\ Append(s, x) \in Seq(S) /\ IsInjective(Append(s, x))
         /\ ToSet(Append(s, x)) = ToSet(s) \cup {x}
<1>1. <<x>> \in Seq(S) /\ DOMAIN <<x>> = {1} /\ <<x>>[1] = x OBVIOUS
<1>2. IsInjective(<<x>>) BY <1>1 DEF IsInjective
<1>3. ToSet(<<x>>) = {x} BY <1>1 DEF ToSet
<1>4. Append(s, x) = s \o <<x>> OBVIOUS
<1>5. ToSet(s) \cap ToSet(<<x>>) = {} BY <1>3
<1>. DEFINE t == <<x>>
<1>. HIDE DEF t
<1>6. t \in Seq(S) /\ IsInjective(t) /\ ToSet(s) \cap ToSet(t) = {}
  BY <1>1, <1>2, <1>5 DEF t
<1>7. s \o t \in Seq(S) /\ IsInjective(s \o t) /\ ToSet(s \o t) = ToSet(s) \cup ToSet(t)
  BY <1>6, ConcatDistinct
<1>. QED BY <1>3, <1>4, <1>7 DEF t

(* The loop of a run without threads reports every common index once.      *)
LEMMA FoundAmongAll ==
  ASSUME NEW hashes \in Seq(Hashes),
         \A j, k \in DOMAIN hashes : hashes[j] = hashes[k] /\ hashes[j] # Foreign => j = k
  PROVE  /\ FoundAmong(hashes) \in Seq(Indices) /\ IsInjective(FoundAmong(hashes))
         /\ ToSet(FoundAmong(hashes)) = {hashes[k] : k \in DOMAIN hashes} \ {Foreign}
<1>. DEFINE n == Len(hashes)
            Step(s, k) == IF hashes[k] = Foreign THEN s ELSE Append(s, hashes[k])
            Body(g) == [k \in 0 .. n |-> IF k = 0 THEN <<>>
                                         ELSE IF hashes[k] = Foreign THEN g[k - 1]
                                              ELSE Append(g[k - 1], hashes[k])]
            f == CHOOSE g : g = Body(g)
            Among(k) == {hashes[j] : j \in 1 .. k} \ {Foreign}
            Good(s, k) == s \in Seq(Indices) /\ IsInjective(s) /\ ToSet(s) = Among(k)
            T == {k \in Nat : k <= n => Good(f[k], k)}
<1>1. n \in Nat /\ DOMAIN hashes = 1 .. n /\ \A k \in 1 .. n : hashes[k] \in Hashes OBVIOUS
<1>2. FoundAmong(hashes) = f[n] BY DEF FoundAmong
<1>3. \E g : g = Body(g)
  <2>. DEFINE step == [p \in Seq(Indices) \X Nat |->
                         IF p[2] \in 1 .. n THEN Step(p[1], p[2]) ELSE p[1]]
  <2>1. step \in [Seq(Indices) \X Nat -> Seq(Indices)]
    <3>. SUFFICES ASSUME NEW s \in Seq(Indices), NEW k \in 1 .. n PROVE Step(s, k) \in Seq(Indices)
      OBVIOUS
    <3>1. hashes[k] # Foreign => hashes[k] \in Indices BY <1>1 DEF Hashes
    <3>2. hashes[k] \in Indices => Append(s, hashes[k]) \in Seq(Indices)
      BY AppendProperties
    <3>. QED BY <3>1, <3>2
  <2>2. <<>> \in Seq(Indices) OBVIOUS
  <2>3. PICK g \in [0 .. n -> Seq(Indices)] :
          g[0] = <<>> /\ \A k \in 1 .. n : g[k] = step[<<g[k - 1], k>>]
    <3>. DEFINE SI == Seq(Indices)
    <3>1. /\ step \in [SI \X Nat -> SI] /\ <<>> \in SI /\ n \in Nat
      BY <1>1, <2>1, <2>2
    <3>. HIDE DEF step, n, SI
    <3>2. Iterations(SI, <<>>, step, n) # {} BY <3>1, RecursionExists
    <3>. QED BY <3>2 DEF SI, Iterations
  <2>4. \A k \in 1 .. n : g[k] = Step(g[k - 1], k)
    <3>. SUFFICES ASSUME NEW k \in 1 .. n PROVE g[k] = Step(g[k - 1], k) OBVIOUS
    <3>1. g[k - 1] \in Seq(Indices) /\ k \in Nat BY <1>1
    <3>2. step[<<g[k - 1], k>>] = Step(g[k - 1], k) BY <3>1
    <3>. HIDE DEF step
    <3>. QED BY <2>3, <3>2
  <2>5. \A k \in 0 .. n : k # 0 => k \in 1 .. n BY <1>1
  <2>6. g = Body(g)
    <3>1. g = [k \in 0 .. n |-> g[k]] BY <2>3
    <3>. HIDE DEF n
    <3>2. \A k \in 0 .. n : g[k] = IF k = 0 THEN <<>>
                                   ELSE IF hashes[k] = Foreign THEN g[k - 1]
                                        ELSE Append(g[k - 1], hashes[k])
      BY <2>3, <2>4, <2>5
    <3>. QED BY <3>1, <3>2
  <2>. QED BY <2>6
<1>. HIDE DEF n
<1>4. f = Body(f)
  <2>. HIDE DEF Body
  <2>. QED BY <1>3
<1>. HIDE DEF f
<1>5. /\ f[0] = <<>>
      /\ \A k \in 1 .. n : f[k] = Step(f[k - 1], k)
  <2>1. 0 \in 0 .. n /\ \A k \in 1 .. n : k \in 0 .. n /\ k # 0 BY <1>1
  <2>. QED BY <1>4, <2>1
<1>. HIDE DEF Body
<1>6. 0 \in T
  <2>1. IsInjective(<<>>) /\ ToSet(<<>>) = {} /\ <<>> \in Seq(Indices) BY DEF IsInjective, ToSet
  <2>2. Among(0) = {} OBVIOUS
  <2>. HIDE DEF Among
  <2>. QED BY <1>5, <2>1, <2>2
<1>7. ASSUME NEW k \in Nat, k \in T PROVE k + 1 \in T
  <2>. SUFFICES ASSUME k + 1 <= n PROVE Good(f[k + 1], k + 1) OBVIOUS
  <2>1. k + 1 \in 1 .. n /\ k <= n BY <1>1
  <2>2. Good(f[k], k) BY <1>7, <2>1
  <2>3. f[k + 1] = Step(f[k], k + 1) BY <1>5, <2>1
  <2>4. 1 .. k + 1 = 1 .. k \cup {k + 1} /\ \A j \in 1 .. k : j # k + 1 /\ j \in DOMAIN hashes
    BY <1>1, <2>1
  <2>5. CASE hashes[k + 1] = Foreign
    <3>1. Among(k + 1) = Among(k) BY <2>4, <2>5
    <3>2. f[k + 1] = f[k] BY <2>3, <2>5
    <3>. HIDE DEF Among
    <3>. QED BY <2>2, <3>1, <3>2
  <2>6. CASE hashes[k + 1] # Foreign
    <3>1. hashes[k + 1] \in Indices BY <1>1, <2>1, <2>6 DEF Hashes
    <3>2. hashes[k + 1] \notin Among(k) BY <1>1, <2>1, <2>4, <2>6
    <3>3. Among(k + 1) = Among(k) \cup {hashes[k + 1]} BY <2>4, <2>6
    <3>4. f[k + 1] = Append(f[k], hashes[k + 1]) BY <2>3, <2>6
    <3>. DEFINE s == f[k]
                x == hashes[k + 1]
    <3>5. s \in Seq(Indices) /\ x \in Indices /\ IsInjective(s) /\ x \notin ToSet(s)
      BY <2>2, <3>1, <3>2
    <3>. HIDE DEF s, x, Among, Indices
    <3>6. /\ Append(s, x) \in Seq(Indices) /\ IsInjective(Append(s, x))
          /\ ToSet(Append(s, x)) = ToSet(s) \cup {x}
      BY <3>5, AppendDistinct
    <3>. QED BY <2>2, <3>3, <3>4, <3>6 DEF s, x
  <2>. QED BY <2>5, <2>6
<1>8. n \in T
  <2>. HIDE DEF T
  <2>. QED BY <1>1, <1>6, <1>7, SetInduction
<1>9. Good(f[n], n) BY <1>1, <1>8
<1>. QED BY <1>1, <1>2, <1>9

LEMMA ReportInitHolds == AssumeFit /\ Init => ReportInv
<1>. SUFFICES ASSUME AssumeFit, Init PROVE ReportInv OBVIOUS
<1>1. FitInv BY FitInitHolds
<1>2. mIntersection = <<>> /\ main = "receiving" /\ \A t \in Threads : pc[t] = "hashing"
  BY DEF Init
<1>3. /\ mIntersection \in Seq(Indices) /\ IsInjective(mIntersection)
      /\ ToSet(mIntersection) = {}
  BY <1>2 DEF IsInjective, ToSet
<1>4. Threads # {} => \A i \in Common : bin[i] \in Threads
  <2>1. InputsOK BY <1>1 DEF FitInv, IInv
  <2>. QED BY <2>1, ConstantsOK DEF InputsOK, Common, Hashes, Threads
<1>5. Threads # {} => {i \in Common : pc[bin[i]] = "done"} = {} BY <1>2, <1>4
<1>. QED BY <1>1, <1>2, <1>3, <1>5 DEF ReportInv, Reported

(* Every common index is one of the receiver's, and has a thread.          *)
LEMMA CommonHasOwner ==
  ASSUME FitInv
  PROVE  /\ Common \subseteq Indices
         /\ Threads # {} => \A i \in Common : bin[i] \in Threads
BY ConstantsOK, SMTT(20) DEF FitInv, IInv, InputsOK, Common, Hashes, Threads

LEMMA CommonStays == ASSUME UNCHANGED inputs PROVE Common' = Common
BY DEF inputs, Common

(* The steps that report nothing and do not end the run.                   *)
Silent(t) == Hash(t) \/ Arrive(t) \/ PassBarrier(t) \/ StartFinding(t) \/ Find(t)

LEMMA SilentHolds ==
  ASSUME ReportInv, FitInv', (\E t \in Threads : Silent(t)) \/ Receive \/ UNCHANGED vars
  PROVE  Reported' /\ UNCHANGED <<Common, mIntersection, Status>>
<1>1. UNCHANGED <<inputs, mIntersection>>
  BY DEF Silent, Hash, Arrive, PassBarrier, StartFinding, Find, Receive, vars
<1>2. Threads' = Threads /\ Common' = Common /\ bin' = bin
  BY <1>1, FitStays, CommonStays DEF ReportInv, inputs
<1>3. \/ main' = main
      \/ main = "receiving" /\ main' = "joining"
  BY DEF Silent, Hash, Arrive, PassBarrier, StartFinding, Find, Receive, vars
<1>4. \A u \in Threads : pc'[u] = "done" <=> pc[u] = "done"
  <2>1. ASSUME NEW t \in Threads, Silent(t)
        PROVE  \A u \in Threads : pc'[u] = "done" <=> pc[u] = "done"
    <3>1. pc \in [Threads -> Labels] BY DEF ReportInv, FitInv, IInv, TypeOK
    <3>2. /\ \A u \in Threads \ {t} : pc'[u] = pc[u]
          /\ pc[t] # "done" /\ pc'[t] # "done"
      BY <2>1, <3>1 DEF Silent, Hash, Arrive, PassBarrier, StartFinding, Find, At, Goto
    <3>. QED BY <3>2
  <2>2. CASE Receive \/ UNCHANGED vars BY <2>2 DEF Receive, vars
  <2>. QED BY <2>1, <2>2
<1>5. Threads # {} =>
        {i \in Common : pc'[bin[i]] = "done"} = {i \in Common : pc[bin[i]] = "done"}
  BY <1>4, CommonHasOwner DEF ReportInv
<1>6. Reported' BY <1>1, <1>2, <1>3, <1>4, <1>5 DEF ReportInv, Reported
<1>. QED BY <1>1, <1>2, <1>3, <1>6 DEF Status

LEMMA StatusRuns == main = "joining" => Status = "running"
BY DEF Status

LEMMA MergeReports ==
  ASSUME ReportInv, NEW t \in Threads, Merge(t) PROVE Reported' /\ Promise!Report
<1>. DEFINE s == [k \in 1 .. found[t] |-> words[Word(t, k - 1)]]
<1>1. /\ pc[t] = "finding" /\ cursor[t] = Len(theirHashes) /\ UNCHANGED inputs
      /\ mIntersection' = mIntersection \o s /\ main' = main
      /\ pc'[t] = "done" /\ \A u \in Threads \ {t} : pc'[u] = pc[u]
  BY DEF Merge, At, Goto, ReportInv, FitInv, IInv, TypeOK
<1>2. Threads' = Threads /\ Common' = Common /\ bin' = bin
  BY <1>1, FitStays, CommonStays DEF ReportInv, inputs
<1>3. main = "joining"
  BY <1>1 DEF ReportInv, Reported, FitInv, IInv, Barrier
<1>4. s \in Seq(Indices) /\ IsInjective(s) /\ ToSet(s) = MineInCommon(t)
  BY <1>1, MergedStretch DEF ReportInv
<1>. HIDE DEF s
<1>5. /\ mIntersection \in Seq(Indices) /\ IsInjective(mIntersection)
      /\ ToSet(mIntersection) = {i \in Common : pc[bin[i]] = "done"}
  BY DEF ReportInv, Reported
<1>6. ToSet(mIntersection) \cap ToSet(s) = {}
  BY <1>1, <1>4, <1>5 DEF MineInCommon
<1>7. /\ mIntersection' \in Seq(Indices) /\ IsInjective(mIntersection')
      /\ ToSet(mIntersection') = ToSet(mIntersection) \cup ToSet(s)
      /\ IsPrefix(mIntersection, mIntersection')
  <2>. HIDE DEF Indices
  <2>. QED BY <1>1, <1>4, <1>5, <1>6, ConcatDistinct
<1>8. \A i \in Common : bin[i] \in Threads BY CommonHasOwner DEF ReportInv
<1>9. ToSet(mIntersection') = {i \in Common : pc'[bin[i]] = "done"}
  BY <1>1, <1>4, <1>5, <1>7, <1>8 DEF MineInCommon
<1>10. Reported' BY <1>1, <1>2, <1>3, <1>7, <1>9 DEF Reported
<1>11. mIntersection' \in Seq(Common)
  <2>1. \A k \in DOMAIN mIntersection' : mIntersection'[k] \in Common
    BY <1>9 DEF ToSet
  <2>2. /\ mIntersection' \in [1 .. Len(mIntersection') -> Common]
        /\ Len(mIntersection') \in Nat
    BY <1>7, <2>1
  <2>. QED BY <2>2, FunctionIsSeq
<1>12. Status = "running" /\ Status' = Status BY <1>1, <1>3 DEF Status
<1>13. Promise!Continues
  BY <1>2, <1>7, <1>11 DEF Promise!Continues, Promise!IsPrefix, Promise!IsInjective,
     IsPrefix, IsInjective
<1>14. Promise!Report BY <1>2, <1>12, <1>13 DEF Promise!Report
<1>. QED BY <1>10, <1>14

LEMMA ToSeqOf ==
  ASSUME NEW S, NEW T, NEW s \in Seq(S), ToSet(s) \subseteq T PROVE s \in Seq(T)
<1>1. \A k \in DOMAIN s : s[k] \in T BY DEF ToSet
<1>2. s \in [1 .. Len(s) -> T] /\ Len(s) \in Nat BY <1>1
<1>. QED BY <1>2, FunctionIsSeq

LEMMA FindAloneReturns ==
  ASSUME ReportInv, FindAlone PROVE Reported' /\ Promise!Return
<1>1. /\ main = "joining" /\ Threads = {} /\ main' = "returned"
      /\ mIntersection' = FoundAmong(theirHashes) /\ UNCHANGED inputs
  BY DEF FindAlone
<1>2. Threads' = Threads /\ Common' = Common
  BY <1>1, FitStays, CommonStays DEF ReportInv
<1>3. /\ theirHashes = sent /\ sent \in Seq(Hashes)
      /\ \A j, k \in DOMAIN sent : sent[j] = sent[k] /\ sent[j] # Foreign => j = k
  BY <1>1, ConstantsOK, SenderInputsAssumption
     DEF ReportInv, FitInv, Maps, IInv, InputsOK
<1>4. /\ mIntersection' \in Seq(Indices) /\ IsInjective(mIntersection')
      /\ ToSet(mIntersection') = Common
  BY <1>1, <1>3, FoundAmongAll DEF Common
<1>5. mIntersection = <<>> BY <1>1 DEF ReportInv, Reported
<1>6. Reported' BY <1>1, <1>2, <1>4 DEF Reported
<1>7. mIntersection' \in Seq(Common)
  <2>. HIDE DEF Indices
  <2>. QED BY <1>4, ToSeqOf
<1>8. IsPrefix(mIntersection, mIntersection') BY <1>5, <1>7, PrefixOf
<1>9. Promise!Continues
  BY <1>2, <1>4, <1>7, <1>8 DEF Promise!Continues, Promise!IsPrefix, Promise!IsInjective,
     IsPrefix, IsInjective
<1>10. Status = "running" /\ Status' = "returned" BY <1>1 DEF Status
<1>11. Promise!ToSet(mIntersection') = Common BY <1>4 DEF ToSet, Promise!ToSet
<1>. QED BY <1>2, <1>6, <1>9, <1>10, <1>11 DEF Promise!Return

LEMMA JoinReturns ==
  ASSUME ReportInv, Join PROVE Reported' /\ Promise!Return
<1>1. /\ main = "joining" /\ Threads # {} /\ \A t \in Threads : pc[t] = "done"
      /\ main' = "returned" /\ UNCHANGED <<inputs, pc, mIntersection>>
  BY DEF Join
<1>2. Threads' = Threads /\ Common' = Common /\ bin' = bin
  BY <1>1, FitStays, CommonStays DEF ReportInv, inputs
<1>3. ToSet(mIntersection) = Common
  BY <1>1, CommonHasOwner DEF ReportInv, Reported
<1>4. Reported' BY <1>1, <1>2, <1>3 DEF ReportInv, Reported
<1>5. mIntersection \in Seq(Common) /\ IsInjective(mIntersection)
  <2>1. mIntersection \in Seq(Indices) /\ IsInjective(mIntersection)
    BY DEF ReportInv, Reported
  <2>. HIDE DEF Indices
  <2>. QED BY <1>3, <2>1, ToSeqOf
<1>6. IsPrefix(mIntersection, mIntersection) BY <1>5, PrefixOf
<1>7. Promise!Continues
  BY <1>1, <1>2, <1>5, <1>6 DEF Promise!Continues, Promise!IsPrefix, Promise!IsInjective,
     IsPrefix, IsInjective
<1>8. Status = "running" /\ Status' = "returned" BY <1>1 DEF Status
<1>9. Promise!ToSet(mIntersection') = Common BY <1>1, <1>3 DEF ToSet, Promise!ToSet
<1>. QED BY <1>2, <1>4, <1>7, <1>8, <1>9 DEF Promise!Return

LEMMA ReceiveFailsFails ==
  ASSUME ReportInv, ReceiveFails PROVE Reported' /\ Promise!Fail
<1>1. /\ main = "receiving" /\ main' \in {"failed", "terminated"}
      /\ UNCHANGED <<inputs, pc, mIntersection>>
  BY DEF ReceiveFails
<1>2. Threads' = Threads /\ Common' = Common /\ bin' = bin
  BY <1>1, FitStays, CommonStays DEF ReportInv, inputs
<1>3. Reported' BY <1>1, <1>2 DEF ReportInv, Reported
<1>4. Status = "running" /\ Status' = "failed" BY <1>1 DEF Status
<1>. QED BY <1>1, <1>2, <1>3, <1>4 DEF Promise!Fail

(* Every step reports, returns, fails or is not seen.                      *)
LEMMA ReportNextHolds ==
  ReportInv /\ [Next]_vars => ReportInv' /\ [Promise!Next]_<<Common, mIntersection, Status>>
<1>. SUFFICES ASSUME ReportInv, [Next]_vars
     PROVE  ReportInv' /\ [Promise!Next]_<<Common, mIntersection, Status>>
  OBVIOUS
<1>1. FitInv' BY FitNextHolds DEF ReportInv
<1>. DEFINE Unseen == Reported' /\ UNCHANGED <<Common, mIntersection, Status>>
            Ends == Reported' /\ Promise!Next
<1>2. ASSUME NEW t \in Threads, Thread(t) PROVE Unseen \/ Ends
  <2>1. CASE Merge(t) BY <2>1, MergeReports DEF Promise!Next
  <2>2. CASE Silent(t) BY <1>1, <2>2, SilentHolds
  <2>. QED BY <1>2, <2>1, <2>2 DEF Thread, Silent
<1>3. ASSUME Receive \/ UNCHANGED vars PROVE Unseen \/ Ends BY <1>1, <1>3, SilentHolds
<1>4. ASSUME FindAlone PROVE Unseen \/ Ends BY <1>4, FindAloneReturns DEF Promise!Next
<1>5. ASSUME Join PROVE Unseen \/ Ends BY <1>5, JoinReturns DEF Promise!Next
<1>6. ASSUME ReceiveFails PROVE Unseen \/ Ends BY <1>6, ReceiveFailsFails DEF Promise!Next
<1>. HIDE DEF Unseen, Ends
<1>7. Unseen \/ Ends
  BY <1>2, <1>3, <1>4, <1>5, <1>6 DEF Next, Over
<1>. QED BY <1>1, <1>7 DEF ReportInv, Unseen, Ends

(* However many inputs and threads there are and however the threads       *)
(* interleave, a run in which every thread's results fit reports common    *)
(* indices only, each once, and run() returns when all are reported.       *)
THEOREM Refinement == ASSUME AssumeFit PROVE Spec => ImplementsIntersection
<1>1. Init => Promise!Init
  <2>. SUFFICES ASSUME Init PROVE Promise!Init OBVIOUS
  <2>1. Common \subseteq Indices BY FitInitHolds, AssumeFit, CommonHasOwner
  <2>2. mIntersection = <<>> /\ Status = "running" BY DEF Init, Status
  <2>. QED BY <2>1, <2>2 DEF Promise!Init
<1>2. AssumeFit /\ Init => ReportInv BY ReportInitHolds
<1>. QED BY <1>1, <1>2, AssumeFit, ReportNextHolds, PTL
        DEF Spec, ImplementsIntersection, Promise!Spec
=============================================================================
