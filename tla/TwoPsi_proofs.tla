---------------------------- MODULE TwoPsi_proofs ----------------------------
(***************************************************************************)
(* Proofs about hashing into bins and the last message of the two-party    *)
(* intersection (BinSet and TwoPsi), for every size of the set and of the  *)
(* tables, all hash functions and every number of threads.                 *)
(*                                                                         *)
(* The table keeps every element until a store replaces a value it did not *)
(* load (Settled); one thread alone never does that (Alone), two may.      *)
(* ReportsWhatMeets needs a message for each function of the first table.  *)
(***************************************************************************)
EXTENDS TwoPsi, SequenceTheorems, FiniteSetTheorems, WellFoundedInduction, TLAPS

-----------------------------------------------------------------------------
(* Induction over the natural numbers and what follows from it: functions  *)
(* defined by recursion exist.  A predicate is given by the set of numbers *)
(* that satisfy it and a recursion by a function, so that the facts can be *)
(* cited for any predicate and any recursion.                              *)

(* A set of numbers has a least one: there are no infinite descents among  *)
(* the finite sets of the numbers below each.                              *)
LEMMA LeastNumber ==
  ASSUME NEW T \in SUBSET Nat, T # {}
  PROVE  \E n \in T : \A m \in T : n <= m
<1>. DEFINE Initials == {0 .. (n - 1) : n \in T}
<1>1. Initials \subseteq FiniteSubsetsOf(Nat) /\ Initials # {}
  <2>1. ASSUME NEW n \in T PROVE 0 .. (n - 1) \in SUBSET Nat /\ IsFiniteSet(0 .. (n - 1))
    BY FS_Interval
  <2>. QED BY <2>1 DEF FiniteSubsetsOf
<1>2. IsWellFoundedOn(StrictSubsetOrdering(Nat), FiniteSubsetsOf(Nat))
  BY FS_StrictSubsetOrderingWellFounded
<1>3. \E x \in Initials : \A y \in Initials : ~ (<<y, x>> \in StrictSubsetOrdering(Nat))
  BY <1>1, <1>2, WFMin
<1>4. PICK n \in T :
        \A m \in T : ~ (<<0 .. (m - 1), 0 .. (n - 1)>> \in StrictSubsetOrdering(Nat))
  BY <1>3
<1>5. ASSUME NEW m \in T, ~ (n <= m) PROVE FALSE
  <2>1. m \in Nat /\ n \in Nat OBVIOUS
  <2>2. 0 .. (m - 1) \in SUBSET Nat /\ 0 .. (n - 1) \in SUBSET Nat BY <2>1
  <2>3. /\ 0 .. (m - 1) \subseteq 0 .. (n - 1)
        /\ m \in 0 .. (n - 1) /\ m \notin 0 .. (m - 1)
    BY <2>1, <1>5
  <2>. QED BY <1>4, <2>2, <2>3 DEF StrictSubsetOrdering
<1>. QED BY <1>5

(* Induction: T is the set of the numbers of which something is to be shown.*)
LEMMA SetInduction ==
  ASSUME NEW T, 0 \in T, \A n \in Nat : n \in T => n + 1 \in T
  PROVE  Nat \subseteq T
<1>. DEFINE Out == Nat \ T
<1>1. SUFFICES ASSUME Out # {} PROVE FALSE OBVIOUS
<1>2. PICK n \in Out : \A m \in Out : n <= m
  <2>1. Out \in SUBSET Nat OBVIOUS
  <2>. HIDE DEF Out
  <2>. QED BY <1>1, <2>1, LeastNumber
<1>3. n \in Nat /\ n # 0 OBVIOUS
<1>4. n - 1 \in Nat /\ n - 1 \notin Out BY <1>2, <1>3
<1>. QED BY <1>3, <1>4

(* The functions on 0 .. n with a given first value and a given step from  *)
(* each value to the next: there is one.                                   *)
Iterations(S, base, step, n) ==
  {f \in [0 .. n -> S] : f[0] = base /\ \A k \in 1 .. n : f[k] = step[<<f[k - 1], k>>]}

LEMMA RecursionExists ==
  ASSUME NEW S, NEW base \in S, NEW step \in [S \X Nat -> S], NEW n \in Nat
  PROVE  Iterations(S, base, step, n) # {}
<1>. DEFINE Iterates(f, m) == f[0] = base /\ \A k \in 1 .. m : f[k] = step[<<f[k - 1], k>>]
            T == {m \in Nat : \E f \in [0 .. m -> S] : Iterates(f, m)}
<1>1. 0 \in T
  <2>1. [k \in 0 .. 0 |-> base] \in [0 .. 0 -> S] /\ Iterates([k \in 0 .. 0 |-> base], 0)
    OBVIOUS
  <2>. QED BY <2>1
<1>2. ASSUME NEW m \in Nat, m \in T PROVE m + 1 \in T
  <2>1. PICK f \in [0 .. m -> S] : Iterates(f, m) BY <1>2
  <2>. DEFINE g == [k \in 0 .. m + 1 |-> IF k = m + 1 THEN step[<<f[m], m + 1>>] ELSE f[k]]
  <2>2. f[m] \in S /\ <<f[m], m + 1>> \in S \X Nat OBVIOUS
  <2>3. g \in [0 .. m + 1 -> S] BY <2>2
  <2>4. g[0] = base BY <2>1
  <2>5. ASSUME NEW k \in 1 .. m + 1 PROVE g[k] = step[<<g[k - 1], k>>]
    <3>1. CASE k = m + 1 BY <3>1, SMTT(20)
    <3>2. CASE k # m + 1
      <4>1. k \in 1 .. m /\ k - 1 \in 0 .. m BY <3>2
      <4>2. g[k] = f[k] /\ g[k - 1] = f[k - 1] BY <4>1
      <4>. QED BY <2>1, <4>1, <4>2
    <3>. QED BY <3>1, <3>2
  <2>. HIDE DEF g
  <2>6. Iterates(g, m + 1) BY <2>4, <2>5
  <2>. QED BY <2>3, <2>6
<1>. HIDE DEF T
<1>3. Nat \subseteq T BY <1>1, <1>2, SetInduction
<1>4. n \in T BY <1>3
<1>. QED BY <1>4 DEF T, Iterations

-----------------------------------------------------------------------------
(* The invariant.                                                           *)

Rounds == {"round", "exchange", "store"}
Taking == {"insert"} \cup Rounds

(* Who has not yet arrived at the first barrier, and at the second.         *)
Inserting == {t \in Thread : pc[t] \in Taking}
Coming == {t \in Thread : pc[t] \notin {"waiting", "done"}}

(* The counters count those, all threads are terminated or none is, and     *)
(* past the first barrier only the first thread makes rounds.               *)
Barriers ==
  /\ (\A t \in Thread : pc[t] = "terminated") \/ (\A t \in Thread : pc[t] # "terminated")
  /\ remaining[1] # 0 =>
       /\ remaining[1] = Cardinality(Inserting)
       /\ \A t \in Thread : pc[t] \in Taking \cup {"inserted"}
  /\ remaining[1] = 0 => \A t \in Thread : pc[t] # "insert" /\ (pc[t] \in Rounds => t = 0)
  /\ (\A t \in Thread : pc[t] # "terminated") => remaining[2] = Cardinality(Coming)

(* Each thread works on its share and has finished it at the barrier.       *)
Shares ==
  \A t \in Thread :
    /\ startIdx(t) <= next[t] /\ next[t] <= endIdx(t)
    /\ pc[t] = "inserted" \/ remaining[1] = 0 => next[t] = endIdx(t)

(* Hands are empty between rounds.                                          *)
Hands ==
  \A t \in Thread :
    /\ pc[t] \notin Rounds \cup {"terminated"} => work[t] = <<>>
    /\ pc[t] \notin {"exchange", "store"} => oldVals[t] = <<>>
    /\ pc[t] = "store" => oldVals[t] # <<>>

BinInv == TypeOK /\ Barriers /\ Shares /\ Hands

(* An item's number is one of the functions of the table being filled, and  *)
(* what is in the first table is where that function leads.                 *)
Numbers ==
  /\ \A t \in Thread : \A i \in DOMAIN work[t] : work[t][i][2] < Hashes[Region(t)]
  /\ \A b \in Bin :
       cuckoo[b] # Empty /\ b < Bins[Main] =>
         cuckoo[b][2] < Hashes[Main] /\ Addr(Main, cuckoo[b][1], cuckoo[b][2]) = b

(* The item whose store is next, and its bin.                               *)
Put(t) == work[t][Len(oldVals[t])]
PutBin(t) == Addr(Region(t), Put(t)[1], Put(t)[2])

(* One thread alone replaces what it loaded.                                *)
Alone ==
  threads = 1 =>
    /\ ~raced
    /\ \A t \in Thread : pc[t] = "store" => oldVals[t][Len(oldVals[t])] = cuckoo[PutBin(t)]

Placed ==
  \A x \in Element :
    /\ Begun(x) <=> Where(x) # {}
    /\ \A p, q \in Where(x) : p = q

Settled == ~raced => Placed

(* The messages that are still under way, and what was found in the others. *)
Met(h) == {e[2] : e \in Message(h, common) \cap LocalMasks(h)}

Sending ==
  /\ received \in 0..Messages
  /\ received # 0 \/ channel # <<>> => Hashed
  /\ channel = <<>> => received \in {0, Messages}
  /\ channel # <<>> =>
       /\ channel \in Seq(SUBSET (Bin \X Element)) /\ Len(channel) = Messages - received
       /\ \A h \in received..(Messages - 1) : channel[h - received + 1] = Message(h, common)
  /\ common \subseteq Element

Finding ==
  /\ mIntersection \in Seq(Element)
  /\ \A x \in Element :
       (\E i \in DOMAIN mIntersection : mIntersection[i] = x)
         <=> \E h \in 0..(received - 1) : x \in Met(h)
  /\ ~raced => \A i, j \in DOMAIN mIntersection : mIntersection[i] = mIntersection[j] => i = j

Reported == Sending /\ Finding

-----------------------------------------------------------------------------
(* Shares: the threads' parts of the input follow each other and cover it.  *)

LEMMA DivIs ==
  ASSUME NEW a \in Int, NEW n \in Nat \ {0}
  PROVE  /\ a \div n \in Int
         /\ n * (a \div n) <= a /\ a < n * (a \div n) + n
OBVIOUS

LEMMA DivMonotone ==
  ASSUME NEW a \in Int, NEW b \in Int, NEW n \in Nat \ {0}, a <= b
  PROVE  a \div n <= b \div n
<1>1. PICK p \in Int : p = a \div n /\ n * p <= a /\ a < n * p + n
  BY DivIs
<1>2. PICK q \in Int : q = b \div n /\ n * q <= b /\ b < n * q + n
  BY DivIs
<1>3. ASSUME q < p PROVE FALSE
  <2>1. q + 1 <= p
    BY <1>3
  <2>2. n * (q + 1) <= n * p
    BY <2>1
  <2>3. n * (q + 1) = n * q + n
    OBVIOUS
  <2> QED
    BY <1>1, <1>2, <2>2, <2>3
<1> QED
  BY <1>1, <1>2, <1>3

LEMMA DivExact ==
  ASSUME NEW a \in Nat, NEW n \in Nat \ {0}
  PROVE  (n * a) \div n = a /\ 0 \div n = 0
<1>1. PICK q \in Int : q = (n * a) \div n /\ n * q <= n * a /\ n * a < n * q + n
  BY DivIs
<1>2. ASSUME q < a PROVE FALSE
  <2>1. n * (q + 1) <= n * a
    BY <1>2
  <2>2. n * (q + 1) = n * q + n
    OBVIOUS
  <2> QED
    BY <1>1, <2>1, <2>2
<1>3. ASSUME q > a PROVE FALSE
  <2>1. n * (a + 1) <= n * q
    BY <1>3
  <2>2. n * (a + 1) = n * a + n
    OBVIOUS
  <2> QED
    BY <1>1, <2>1, <2>2
<1>4. 0 \div n = 0
  OBVIOUS
<1> QED
  BY <1>1, <1>2, <1>3, <1>4

LEMMA SharesFollow ==
  ASSUME threads \in Nat \ {0}
  PROVE  /\ \A t \in 0..threads : startIdx(t) \in Int
         /\ \A t, u \in 0..threads : t <= u => startIdx(t) <= startIdx(u)
         /\ \A t : endIdx(t) = startIdx(t + 1)
         /\ startIdx(0) = 0 /\ startIdx(threads) = N
<1>0. N \in Nat \ {0}
  BY ConstantsOK
<1>1. \A t \in 0..threads : t * N \in Int /\ startIdx(t) \in Int
  <2>1. ASSUME NEW t \in 0..threads PROVE t * N \in Int /\ startIdx(t) \in Int
    <3>1. t * N \in Int
      BY <1>0
    <3> QED
      BY <3>1, DivIs DEF startIdx
  <2> QED
    BY <2>1
<1>2. ASSUME NEW t \in 0..threads, NEW u \in 0..threads, t <= u PROVE startIdx(t) <= startIdx(u)
  <2>1. t * N <= u * N
    BY <1>0, <1>2
  <2> QED
    BY <1>1, <2>1, DivMonotone DEF startIdx
<1>3. startIdx(0) = 0 /\ startIdx(threads) = N
  <2>1. 0 * N = 0
    BY <1>0
  <2> QED
    BY <1>0, <2>1, DivExact DEF startIdx
<1>4. \A t : endIdx(t) = startIdx(t + 1)
  BY DEF endIdx, startIdx
<1> QED
  BY <1>1, <1>2, <1>3, <1>4

LEMMA ShareBounds ==
  ASSUME threads \in Nat \ {0}, NEW t \in Thread
  PROVE  /\ startIdx(t) \in Int /\ endIdx(t) \in Int
         /\ 0 <= startIdx(t) /\ startIdx(t) <= endIdx(t) /\ endIdx(t) <= N
<1>1. t \in 0..threads /\ t + 1 \in 0..threads /\ 0 \in 0..threads /\ threads \in 0..threads
  BY DEF Thread
<1>2. 0 <= t /\ t <= t + 1 /\ t + 1 <= threads
  BY DEF Thread
<1> QED
  BY <1>1, <1>2, SharesFollow

LEMMA SharesDisjoint ==
  ASSUME threads \in Nat \ {0}, NEW t \in Thread, NEW u \in Thread, NEW x \in Int,
         startIdx(t) <= x, x < endIdx(t), startIdx(u) <= x, x < endIdx(u)
  PROVE  t = u
<1>1. /\ t \in 0..threads /\ t + 1 \in 0..threads /\ u \in 0..threads /\ u + 1 \in 0..threads
  BY DEF Thread
<1>2. ASSUME t < u PROVE FALSE
  <2>1. t + 1 <= u
    BY <1>1, <1>2
  <2>2. endIdx(t) <= startIdx(u)
    BY <1>1, <2>1, SharesFollow
  <2> QED
    BY <1>1, <2>2, ShareBounds
<1>3. ASSUME u < t PROVE FALSE
  <2>1. u + 1 <= t
    BY <1>1, <1>3
  <2>2. endIdx(u) <= startIdx(t)
    BY <1>1, <2>1, SharesFollow
  <2> QED
    BY <1>1, <2>2, ShareBounds
<1> QED
  BY <1>1, <1>2, <1>3

LEMMA SharesCover ==
  ASSUME threads \in Nat \ {0}, NEW x \in Element
  PROVE  \E t \in Thread : startIdx(t) <= x /\ x < endIdx(t)
<1>1. x \in Int /\ 0 <= x /\ x < N
  BY ConstantsOK DEF Element
<1> DEFINE Past == {t \in 1..threads : x < startIdx(t)}
<1>2. threads \in Past
  BY <1>1, SharesFollow
<1>3. PICK u \in Past : \A v \in Past : u <= v
  <2>1. Past \in SUBSET Nat /\ Past # {}
    BY <1>2
  <2> HIDE DEF Past
  <2> QED
    BY <2>1, LeastNumber
<1>4. PICK t \in Thread : t + 1 = u
  <2>1. u - 1 \in Thread /\ (u - 1) + 1 = u
    BY DEF Thread
  <2> QED
    BY <2>1
<1>5. x < endIdx(t)
  BY <1>3, <1>4, SharesFollow
<1>6. startIdx(t) <= x
  <2>1. CASE t = 0
    BY <1>1, <2>1, SharesFollow
  <2>2. CASE t # 0
    <3>1. t \in 1..threads /\ t \in 0..threads /\ t < u
      BY <1>4, <2>2 DEF Thread
    <3>2. t \notin Past
      BY <1>3, <3>1
    <3>3. startIdx(t) \in Int
      BY <3>1, SharesFollow
    <3> QED
      BY <1>1, <3>1, <3>2, <3>3
  <2> QED
    BY <2>1, <2>2
<1> QED
  BY <1>5, <1>6

-----------------------------------------------------------------------------
(* What a round keeps of the first n items found: the i-th was at place     *)
(* at[i], and every item found is kept.                                     *)
Keeps(found, n, kept, at) ==
  /\ at \in [DOMAIN kept -> 1..n]
  /\ \A i \in DOMAIN kept : kept[i] = found[at[i]] /\ found[at[i]] # Empty
  /\ \A i, j \in DOMAIN kept : at[i] = at[j] => i = j
  /\ \A k \in 1..n : found[k] # Empty => \E i \in DOMAIN kept : at[i] = k

LEMMA KeepsNone ==
  ASSUME NEW found
  PROVE  Keeps(found, 0, <<>>, <<>>)
<1>1. DOMAIN <<>> = {} /\ 1..0 = {} /\ <<>> \in [DOMAIN <<>> -> 1..0]
  OBVIOUS
<1> QED
  BY <1>1 DEF Keeps

LEMMA KeepsOne ==
  ASSUME NEW S, NEW found \in Seq(S), NEW n \in Nat, n + 1 \in DOMAIN found,
         NEW kept \in Seq(S), NEW at, Keeps(found, n, kept, at)
  PROVE  /\ found[n + 1] = Empty => Keeps(found, n + 1, kept, at)
         /\ found[n + 1] # Empty => \E to : Keeps(found, n + 1, Append(kept, found[n + 1]), to)
<1>0. /\ at \in [DOMAIN kept -> 1..n]
      /\ \A i \in DOMAIN kept : kept[i] = found[at[i]] /\ found[at[i]] # Empty
      /\ \A i, j \in DOMAIN kept : at[i] = at[j] => i = j
      /\ \A k \in 1..n : found[k] # Empty => \E i \in DOMAIN kept : at[i] = k
  BY DEF Keeps
<1>1. \A k \in 1..(n + 1) : k # n + 1 => k \in 1..n
  OBVIOUS
<1>2. ASSUME found[n + 1] = Empty PROVE Keeps(found, n + 1, kept, at)
  <2>1. at \in [DOMAIN kept -> 1..(n + 1)]
    BY <1>0
  <2> QED
    BY <1>0, <1>1, <1>2, <2>1 DEF Keeps
<1>3. ASSUME found[n + 1] # Empty
      PROVE  \E to : Keeps(found, n + 1, Append(kept, found[n + 1]), to)
  <2>0. found[n + 1] \in S
    OBVIOUS
  <2>1. PICK more : more = Append(kept, found[n + 1]) /\ more \in Seq(S)
    <3>1. \A s \in Seq(S), e \in S : Append(s, e) \in Seq(S)
      OBVIOUS
    <3> QED
      BY <2>0, <3>1
  <2>2. PICK l \in Nat : l = Len(kept)
    OBVIOUS
  <2>3. /\ DOMAIN kept = 1..l /\ DOMAIN more = 1..(l + 1)
        /\ \A i \in 1..l : more[i] = kept[i]
        /\ more[l + 1] = found[n + 1]
    BY <2>1, <2>2
  <2>4. \A i \in 1..(l + 1) : i # l + 1 => i \in 1..l
    BY <2>2
  <2>5. PICK to : to = [i \in 1..(l + 1) |-> IF i = l + 1 THEN n + 1 ELSE at[i]]
    OBVIOUS
  <2>6. /\ DOMAIN to = 1..(l + 1) /\ to[l + 1] = n + 1
        /\ \A i \in 1..l : to[i] = at[i] /\ i # l + 1 /\ i \in 1..(l + 1)
        /\ l + 1 \in 1..(l + 1)
    BY <2>2, <2>5
  <2>7. to \in [DOMAIN more -> 1..(n + 1)]
    BY <1>0, <2>3, <2>4, <2>5
  <2>8. \A i \in DOMAIN more : more[i] = found[to[i]] /\ found[to[i]] # Empty
    BY <1>0, <1>3, <2>3, <2>4, <2>6
  <2>9. ASSUME NEW i \in DOMAIN more, NEW j \in DOMAIN more, to[i] = to[j] PROVE i = j
    <3>1. \A k \in 1..l : at[k] # n + 1
      BY <1>0, <2>3
    <3>2. i \in 1..l /\ j \in 1..l => i = j
      BY <1>0, <2>3, <2>6, <2>9
    <3>3. i = l + 1 => j = l + 1
      BY <2>3, <2>4, <2>6, <2>9, <3>1
    <3>4. j = l + 1 => i = l + 1
      BY <2>3, <2>4, <2>6, <2>9, <3>1
    <3> QED
      BY <2>3, <2>4, <3>2, <3>3, <3>4
  <2>10. ASSUME NEW k \in 1..(n + 1), found[k] # Empty PROVE \E i \in DOMAIN more : to[i] = k
    <3>1. CASE k = n + 1
      BY <2>3, <2>6, <3>1
    <3>2. CASE k # n + 1
      <4>1. PICK i \in DOMAIN kept : at[i] = k
        BY <1>0, <1>1, <2>10, <3>2
      <4> QED
        BY <2>3, <2>6, <4>1
    <3> QED
      BY <3>1, <3>2
  <2>11. Keeps(found, n + 1, more, to)
    BY <2>7, <2>8, <2>9, <2>10 DEF Keeps
  <2> QED
    BY <2>1, <2>11
<1> QED
  BY <1>2, <1>3

LEMMA KeptIs ==
  ASSUME NEW S, NEW found \in Seq(S)
  PROVE  /\ Kept(found) \in Seq(S)
         /\ \E at : Keeps(found, Len(found), Kept(found), at)
<1> DEFINE n == Len(found)
           Body(g) == [i \in 0..n |->
                         IF i = 0 THEN <<>>
                         ELSE IF found[i] = Empty THEN g[i - 1] ELSE Append(g[i - 1], found[i])]
           f == CHOOSE g : g = Body(g)
           step == [x \in Seq(S) \X Nat |->
                      IF x[2] \in 1..n
                      THEN IF found[x[2]] = Empty THEN x[1] ELSE Append(x[1], found[x[2]])
                      ELSE x[1]]
<1>1. n \in Nat /\ \A k \in 1..n : found[k] \in S /\ k \in DOMAIN found
  OBVIOUS
<1>2. Kept(found) = f[n]
  BY DEF Kept
<1>3. step \in [Seq(S) \X Nat -> Seq(S)] /\ <<>> \in Seq(S)
  <2>1. ASSUME NEW x \in Seq(S) \X Nat
        PROVE  (IF x[2] \in 1..n
                THEN IF found[x[2]] = Empty THEN x[1] ELSE Append(x[1], found[x[2]])
                ELSE x[1]) \in Seq(S)
    <3>1. x[1] \in Seq(S)
      OBVIOUS
    <3> HIDE DEF n
    <3> QED
      BY <1>1, <3>1
  <2> QED
    BY <2>1
<1>4. PICK g \in [0..n -> Seq(S)] : g[0] = <<>> /\ \A k \in 1..n : g[k] = step[<<g[k - 1], k>>]
  <2> HIDE DEF step, n
  <2>1. Iterations(Seq(S), <<>>, step, n) # {}
    BY <1>1, <1>3, RecursionExists
  <2> QED
    BY <2>1 DEF Iterations
<1>5. ASSUME NEW k \in 1..n
      PROVE  g[k] = IF found[k] = Empty THEN g[k - 1] ELSE Append(g[k - 1], found[k])
  <2>1. k \in Nat /\ k - 1 \in 0..n
    BY <1>1
  <2> HIDE DEF n
  <2>2. g[k - 1] \in Seq(S) /\ <<g[k - 1], k>> \in Seq(S) \X Nat
    BY <1>4, <2>1
  <2>3. step[<<g[k - 1], k>>] = IF found[k] = Empty THEN g[k - 1] ELSE Append(g[k - 1], found[k])
    BY <2>1, <2>2
  <2> HIDE DEF step
  <2> QED
    BY <1>4, <2>3
<1>6. g = Body(g)
  <2>1. \A k \in 0..n : k # 0 => k \in 1..n
    BY <1>1
  <2> HIDE DEF n, step
  <2> QED
    BY <1>4, <1>5, <2>1
<1>7. f = Body(f)
  <2> HIDE DEF Body
  <2> QED
    BY <1>6
<1>8. /\ f[0] = <<>>
      /\ \A k \in Nat : k + 1 \in 1..n /\ found[k + 1] = Empty => f[k + 1] = f[k]
      /\ \A k \in Nat : k + 1 \in 1..n /\ found[k + 1] # Empty => f[k + 1] = Append(f[k], found[k + 1])
  <2>1. \A k \in Nat : k + 1 \in 1..n => k + 1 \in 0..n /\ k + 1 # 0 /\ (k + 1) - 1 = k
    BY <1>1
  <2>2. 0 \in 0..n
    BY <1>1
  <2> HIDE DEF f, n
  <2> QED
    BY <1>7, <2>1, <2>2
<1> DEFINE T == {k \in Nat : k \in 0..n => f[k] \in Seq(S) /\ \E at : Keeps(found, k, f[k], at)}
<1> HIDE DEF f
<1>9. 0 \in T
  <2>1. f[0] \in Seq(S) /\ Keeps(found, 0, f[0], <<>>)
    BY <1>3, <1>8, KeepsNone
  <2> HIDE DEF n
  <2> QED
    BY <2>1
<1>10. ASSUME NEW k \in Nat, k \in T PROVE k + 1 \in T
  <2>1. SUFFICES ASSUME k + 1 \in 0..n
        PROVE  f[k + 1] \in Seq(S) /\ \E at : Keeps(found, k + 1, f[k + 1], at)
    OBVIOUS
  <2>2. k \in 0..n /\ k + 1 \in 1..n /\ k + 1 \in DOMAIN found /\ found[k + 1] \in S
    BY <1>1, <2>1
  <2>3. f[k] \in Seq(S) /\ \E at : Keeps(found, k, f[k], at)
    BY <1>10, <2>2
  <2>4. PICK at : Keeps(found, k, f[k], at)
    BY <2>3
  <2> HIDE DEF n
  <2>5. CASE found[k + 1] = Empty
    <3>1. Keeps(found, k + 1, f[k], at)
      BY <2>2, <2>3, <2>4, <2>5, KeepsOne
    <3> QED
      BY <1>8, <2>2, <2>3, <2>5, <3>1
  <2>6. CASE found[k + 1] # Empty
    <3>1. \E to : Keeps(found, k + 1, Append(f[k], found[k + 1]), to)
      BY <2>2, <2>3, <2>4, <2>6, KeepsOne
    <3>2. f[k + 1] = Append(f[k], found[k + 1])
      BY <1>8, <2>2, <2>6
    <3>3. \A s \in Seq(S), e \in S : Append(s, e) \in Seq(S)
      OBVIOUS
    <3>4. f[k + 1] \in Seq(S)
      BY <2>2, <2>3, <3>2, <3>3
    <3> QED
      BY <3>1, <3>2, <3>4
  <2> QED
    BY <2>5, <2>6
<1>11. n \in T
  <2> HIDE DEF T, n
  <2> QED
    BY <1>1, <1>9, <1>10, SetInduction
<1> QED
  BY <1>1, <1>2, <1>11

-----------------------------------------------------------------------------
(* A finite set as a sequence: each element once.                           *)
LEMMA SetToSeqIs ==
  ASSUME NEW S, IsFiniteSet(S)
  PROVE  /\ SetToSeq(S) \in Seq(S)
         /\ \A x : x \in S <=> \E i \in DOMAIN SetToSeq(S) : SetToSeq(S)[i] = x
         /\ \A i, j \in DOMAIN SetToSeq(S) : SetToSeq(S)[i] = SetToSeq(S)[j] => i = j
<1> DEFINE n == Cardinality(S)
           q == SetToSeq(S)
<1>1. n \in Nat /\ ExistsBijection(1..n, S)
  BY FS_CardinalityType
<1>2. PICK f \in Bijection(1..n, S) : TRUE
  BY <1>1 DEF ExistsBijection
<1>3. f \in [1..n -> S] /\ IsInjective(f)
  BY <1>2 DEF Bijection, Injection, IsInjective
<1>4. q \in [1..n -> S] /\ IsInjective(q)
  BY <1>3 DEF SetToSeq
<1>5. IsFiniteSet(1..n) /\ Cardinality(1..n) = n
  BY <1>1, FS_Interval
<1> HIDE DEF q
<1>6. q \in Injection(1..n, S)
  BY <1>4 DEF Injection
<1>7. q \in Surjection(1..n, S)
  BY <1>5, <1>6, FS_Injection
<1>8. \A x \in S : \E i \in 1..n : q[i] = x
  BY <1>7 DEF Surjection
<1> HIDE DEF n
<1>9. q \in Seq(S) /\ DOMAIN q = 1..n
  BY <1>1, <1>4
<1>10. \A i, j \in DOMAIN q : q[i] = q[j] => i = j
  BY <1>4 DEF IsInjective
<1>11. \A x : x \in S <=> \E i \in DOMAIN q : q[i] = x
  BY <1>4, <1>8, <1>9
<1> QED
  BY <1>9, <1>10, <1>11 DEF q

-----------------------------------------------------------------------------
(* What the type invariant says of the threads, the constants and the bins. *)

LEMMA Basics ==
  ASSUME TypeOK
  PROVE  /\ N \in Nat \ {0} /\ Step \in Nat \ {0} /\ MaxTries \in Nat \ {0}
         /\ Bins[Main] \in Nat \ {0} /\ Bins[Stash] \in Nat \ {0}
         /\ Hashes[Main] \in Nat \ {0} /\ Hashes[Stash] \in Nat \ {0}
         /\ threads \in Nat \ {0} /\ raced \in BOOLEAN
         /\ Thread \subseteq Nat /\ 0 \in Thread
         /\ IsFiniteSet(Thread) /\ Cardinality(Thread) = threads
         /\ remaining[1] \in 0..threads /\ remaining[2] \in 0..threads
         /\ Element \subseteq Nat /\ Bin \subseteq Nat
<1>1. /\ N \in Nat \ {0} /\ Step \in Nat \ {0} /\ MaxTries \in Nat \ {0}
      /\ Bins[Main] \in Nat \ {0} /\ Bins[Stash] \in Nat \ {0}
      /\ Hashes[Main] \in Nat \ {0} /\ Hashes[Stash] \in Nat \ {0}
  BY ConstantsOK DEF Main, Stash
<1>2. threads \in Nat \ {0} /\ raced \in BOOLEAN
  BY ConstantsOK DEF TypeOK
<1>3. Thread \subseteq Nat /\ 0 \in Thread
  BY <1>2 DEF Thread
<1>4. IsFiniteSet(Thread) /\ Cardinality(Thread) = threads
  BY <1>2, FS_Interval DEF Thread
<1>5. remaining[1] \in 0..threads /\ remaining[2] \in 0..threads
  BY DEF TypeOK
<1>6. Element \subseteq Nat /\ Bin \subseteq Nat
  BY <1>1 DEF Element, Bin
<1> QED
  BY <1>1, <1>2, <1>3, <1>4, <1>5, <1>6

LEMMA Typed ==
  ASSUME TypeOK
  PROVE  /\ simple \in [Bin -> SUBSET Numbered] /\ cuckoo \in [Bin -> ItemOf \cup {Empty}]
         /\ stashIdxs \in Seq(Element)
         /\ pc \in [Thread -> Places] /\ next \in [Thread -> 0..N]
         /\ tryCount \in [Thread -> 0..MaxTries]
         /\ work \in [Thread -> Seq(ItemOf)] /\ oldVals \in [Thread -> Seq(ItemOf \cup {Empty})]
         /\ remaining \in (0..threads) \X (0..threads)
  BY DEF TypeOK

(* A bin an item leads to exists and is one of the table's.                 *)
Function == (0..(Hashes[Main] - 1)) \cup (0..(Hashes[Stash] - 1))

LEMMA ModIs ==
  ASSUME NEW a \in Nat, NEW n \in Nat \ {0}
  PROVE  a % n \in 0..(n - 1)
OBVIOUS

LEMMA AddrIs ==
  ASSUME TypeOK, NEW x \in Element, NEW k \in Function
  PROVE  /\ Addr(Main, x, k) \in Bin /\ Addr(Main, x, k) < Bins[Main]
         /\ Addr(Stash, x, k) \in Bin /\ ~(Addr(Stash, x, k) < Bins[Main])
<1>0. PICK m \in Nat \ {0}, n \in Nat \ {0}, h \in Nat \ {0}, g \in Nat \ {0} :
        m = Bins[Main] /\ n = Bins[Stash] /\ h = Hashes[Main] /\ g = Hashes[Stash]
  BY Basics
<1>1. hash \in [Element -> Seq(Nat)] /\ Len(hash[x]) >= h /\ Len(hash[x]) >= g
  BY <1>0, ConstantsOK DEF TypeOK
<1>2. PICK q \in Seq(Nat) : q = hash[x]
  BY <1>1
<1>3. k \in Int /\ 0 <= k /\ (k < h \/ k < g)
  <2>1. k \in 0..(h - 1) \/ k \in 0..(g - 1)
    BY <1>0 DEF Function
  <2> QED
    BY <2>1
<1>4. k + 1 \in 1..Len(q)
  <2>1. Len(q) >= h /\ Len(q) >= g /\ Len(q) \in Nat
    BY <1>1, <1>2
  <2> QED
    BY <1>3, <2>1
<1>5. PICK v \in Nat : v = hash[x][k + 1]
  BY <1>2, <1>4
<1>6. v % m \in 0..(m - 1) /\ v % n \in 0..(n - 1)
  BY ModIs
<1>7. Main # Stash
  BY DEF Main, Stash
<1>8. Addr(Main, x, k) = v % m /\ Addr(Stash, x, k) = m + (v % n)
  BY <1>0, <1>5, <1>7 DEF Addr
<1>9. Bin = 0..(m + n - 1)
  BY <1>0 DEF Bin
<1>10. PICK a, b : a = v % m /\ b = v % n /\ a \in 0..(m - 1) /\ b \in 0..(n - 1)
  BY <1>6
<1>11. a \in 0..(m + n - 1) /\ a < m /\ m + b \in 0..(m + n - 1) /\ ~(m + b < m)
  BY <1>10
<1> QED
  BY <1>0, <1>8, <1>9, <1>10, <1>11

LEMMA ItemsAre ==
  ASSUME TypeOK, NEW e \in ItemOf
  PROVE  /\ e[1] \in Element /\ e[2] \in Function /\ e # Empty
         /\ e[1] \in Int /\ e[2] \in Nat
         /\ e = <<e[1], e[2]>>
<1>1. e \in Element \X Function
  BY DEF ItemOf, Function
<1>2. Element \subseteq Int /\ Function \subseteq Nat
  BY Basics DEF Function
<1> HIDE DEF Element, Function
<1>3. e[1] \in Element /\ e[2] \in Function /\ e = <<e[1], e[2]>>
  BY <1>1
<1>4. e # Empty
  <2>1. \A a, b : <<a, b>> # <<>>
    OBVIOUS
  <2> QED
    BY <1>3, <2>1 DEF Empty
<1> QED
  BY <1>2, <1>3, <1>4

LEMMA RegionIs ==
  ASSUME TypeOK
  PROVE  \A t : /\ Region(t) \in {Main, Stash}
                /\ Region(t) = Main <=> remaining[1] # 0
                /\ Region(t) = Stash <=> remaining[1] = 0
                /\ Hashes[Region(t)] \in Nat \ {0}
  BY Basics DEF Region, Main, Stash

(* What a thread has in its hands.                                          *)
LEMMA HandsTyped ==
  ASSUME TypeOK, NEW t \in Thread
  PROVE  /\ work[t] \in Seq(ItemOf) /\ oldVals[t] \in Seq(ItemOf \cup {Empty})
         /\ Len(work[t]) \in Nat /\ DOMAIN work[t] = 1..Len(work[t])
         /\ Len(oldVals[t]) \in Nat /\ DOMAIN oldVals[t] = 1..Len(oldVals[t])
         /\ Len(oldVals[t]) <= Len(work[t])
         /\ \A i \in 1..Len(work[t]) : work[t][i] \in ItemOf
         /\ \A i \in 1..Len(oldVals[t]) : oldVals[t][i] \in ItemOf \cup {Empty}
<1>1. /\ work[t] \in Seq(ItemOf) /\ oldVals[t] \in Seq(ItemOf \cup {Empty})
      /\ Len(oldVals[t]) <= Len(work[t])
  BY DEF TypeOK
<1>2. PICK w \in Seq(ItemOf) : w = work[t]
  BY <1>1
<1>3. PICK o \in Seq(ItemOf \cup {Empty}) : o = oldVals[t]
  BY <1>1
<1>4. /\ Len(w) \in Nat /\ DOMAIN w = 1..Len(w) /\ \A i \in 1..Len(w) : w[i] \in ItemOf
  OBVIOUS
<1>5. /\ Len(o) \in Nat /\ DOMAIN o = 1..Len(o) /\ \A i \in 1..Len(o) : o[i] \in ItemOf \cup {Empty}
  OBVIOUS
<1> QED
  BY <1>1, <1>2, <1>3, <1>4, <1>5

(* The item whose turn it is.                                               *)
LEMMA ItemIs ==
  ASSUME TypeOK, NEW t \in Thread, Len(oldVals[t]) < Len(work[t])
  PROVE  /\ Len(oldVals[t]) + 1 \in 1..Len(work[t])
         /\ Item(t) \in ItemOf /\ ItemBin(t) \in Bin
         /\ cuckoo[ItemBin(t)] \in ItemOf \cup {Empty}
<1>1. Len(oldVals[t]) + 1 \in 1..Len(work[t])
  BY HandsTyped
<1>2. Item(t) \in ItemOf
  BY <1>1, HandsTyped DEF Item
<1>3. ItemBin(t) \in Bin
  <2>1. Item(t)[1] \in Element /\ Item(t)[2] \in Function
    BY <1>2, ItemsAre
  <2>2. Region(t) = Main \/ Region(t) = Stash
    BY RegionIs
  <2> QED
    BY <2>1, <2>2, AddrIs DEF ItemBin
<1> QED
  BY <1>1, <1>2, <1>3 DEF TypeOK

LEMMA PutIs ==
  ASSUME TypeOK, NEW t \in Thread, oldVals[t] # <<>>
  PROVE  /\ Len(oldVals[t]) \in 1..Len(work[t])
         /\ Put(t) \in ItemOf /\ PutBin(t) \in Bin
<1>1. Len(oldVals[t]) \in 1..Len(work[t])
  <2>1. PICK o \in Seq(ItemOf \cup {Empty}) : o = oldVals[t]
    BY HandsTyped
  <2>2. Len(o) # 0
    BY <2>1
  <2> QED
    BY <2>1, <2>2, HandsTyped
<1>2. Put(t) \in ItemOf
  BY <1>1, HandsTyped DEF Put
<1>3. PutBin(t) \in Bin
  <2>1. Put(t)[1] \in Element /\ Put(t)[2] \in Function
    BY <1>2, ItemsAre
  <2>2. Region(t) = Main \/ Region(t) = Stash
    BY RegionIs
  <2> QED
    BY <2>1, <2>2, AddrIs DEF PutBin
<1> QED
  BY <1>1, <1>2, <1>3

(* Counting down one of the two barriers.                                   *)
LEMMA CountedDown ==
  ASSUME NEW n, NEW r \in (0..n) \X (0..n)
  PROVE  /\ [r EXCEPT ![1] = @ - 1][1] = r[1] - 1 /\ [r EXCEPT ![1] = @ - 1][2] = r[2]
         /\ [r EXCEPT ![2] = @ - 1][1] = r[1] /\ [r EXCEPT ![2] = @ - 1][2] = r[2] - 1
         /\ r[1] - 1 \in 0..n => [r EXCEPT ![1] = @ - 1] \in (0..n) \X (0..n)
         /\ r[2] - 1 \in 0..n => [r EXCEPT ![2] = @ - 1] \in (0..n) \X (0..n)
  OBVIOUS

-----------------------------------------------------------------------------
(* The barriers.                                                            *)

LEMMA CountedSets ==
  ASSUME TypeOK
  PROVE  /\ IsFiniteSet(Inserting) /\ Cardinality(Inserting) \in 0..threads
         /\ IsFiniteSet(Coming) /\ Cardinality(Coming) \in 0..threads
<1>1. Inserting \in SUBSET Thread /\ Coming \in SUBSET Thread
  BY DEF Inserting, Coming
<1> HIDE DEF Inserting, Coming
<1>2. IsFiniteSet(Thread) /\ Cardinality(Thread) = threads /\ threads \in Nat
  BY Basics
<1> QED
  BY <1>1, <1>2, FS_Subset, FS_CardinalityType

LEMMA OneFewer ==
  ASSUME NEW S, IsFiniteSet(S), NEW t \in S, NEW T, T = S \ {t}
  PROVE  Cardinality(T) = Cardinality(S) - 1 /\ Cardinality(S) # 0
<1>1. Cardinality(S \ {t}) = Cardinality(S) - 1
  BY FS_RemoveElement
<1>2. Cardinality(S) # 0
  BY FS_EmptySet
<1> QED
  BY <1>1, <1>2

(* A thread goes to a place on the same side of both barriers.              *)
LEMMA BarriersKept ==
  ASSUME TypeOK, Barriers, NEW t \in Thread, NEW q, Goto(t, q), UNCHANGED <<threads, remaining>>,
         pc[t] # "terminated", q # "terminated",
         remaining[1] # 0 => (pc[t] \in Taking <=> q \in Taking) /\ q \in Taking \cup {"inserted"},
         remaining[1] = 0 => q # "insert" /\ (q \in Rounds => t = 0),
         pc[t] \in {"waiting", "done"} <=> q \in {"waiting", "done"}
  PROVE  Barriers'
<1>1. /\ pc \in [Thread -> Places] /\ Thread' = Thread /\ remaining' = remaining
      /\ pc'[t] = q /\ \A u \in Thread : u # t => pc'[u] = pc[u]
  BY DEF TypeOK, Goto, Thread
<1>2. \A u \in Thread : pc[u] # "terminated" /\ pc'[u] # "terminated"
  BY <1>1 DEF Barriers
<1>3. Coming' = Coming
  BY <1>1 DEF Coming
<1>4. remaining[1] # 0 => Inserting' = Inserting
  BY <1>1 DEF Inserting
<1>5. remaining[1] # 0 =>
        /\ remaining'[1] = Cardinality(Inserting')
        /\ \A u \in Thread : pc'[u] \in Taking \cup {"inserted"}
  BY <1>1, <1>4 DEF Barriers
<1>6. remaining[1] = 0 => \A u \in Thread : pc'[u] # "insert" /\ (pc'[u] \in Rounds => u = 0)
  BY <1>1 DEF Barriers
<1>7. remaining'[2] = Cardinality(Coming')
  BY <1>1, <1>2, <1>3 DEF Barriers
<1> QED
  BY <1>1, <1>2, <1>5, <1>6, <1>7 DEF Barriers

(* Where the threads may be.                                                *)
LEMMA WhereThreadsAre ==
  ASSUME TypeOK, Barriers, NEW t \in Thread
  PROVE  /\ pc[t] = "insert" => remaining[1] # 0
         /\ pc[t] \in {"stashed", "waiting", "done", "terminated"} => remaining[1] = 0
         /\ pc[t] \in Rounds /\ remaining[1] = 0 => t = 0
         /\ pc[t] # "terminated" =>
              (\A u \in Thread : pc[u] # "terminated") /\ remaining[2] = Cardinality(Coming)
  BY DEF Barriers, Taking, Rounds

LEMMA Arriving ==
  ASSUME TypeOK, Barriers, NEW t \in Thread, EndInsert(t)
  PROVE  /\ Barriers' /\ remaining' \in (0..threads) \X (0..threads)
         /\ remaining'[1] = 0 => \A u \in Thread : pc'[u] = "inserted"
<1>1. /\ pc \in [Thread -> Places] /\ Thread' = Thread /\ pc[t] = "insert"
      /\ pc'[t] = "inserted" /\ \A u \in Thread : u # t => pc'[u] = pc[u]
      /\ remaining' = [remaining EXCEPT ![1] = @ - 1]
  BY DEF TypeOK, Goto, Thread, EndInsert, Arrive
<1>2. remaining[1] # 0 /\ remaining[1] \in 0..threads /\ threads \in Nat
      /\ remaining \in (0..threads) \X (0..threads)
  BY <1>1, WhereThreadsAre, Basics DEF TypeOK
<1>3. /\ remaining'[1] = remaining[1] - 1 /\ remaining'[2] = remaining[2]
      /\ remaining' \in (0..threads) \X (0..threads)
  <2>1. remaining[1] - 1 \in 0..threads
    BY <1>2
  <2> QED
    BY <1>1, <1>2, <2>1, CountedDown
<1>4. \A u \in Thread : pc[u] # "terminated" /\ pc'[u] # "terminated"
  BY <1>1, WhereThreadsAre
<1>5. /\ remaining[1] = Cardinality(Inserting)
      /\ \A u \in Thread : pc[u] \in Taking \cup {"inserted"}
  BY <1>2 DEF Barriers
<1>6. Inserting' = Inserting \ {t} /\ t \in Inserting
  BY <1>1 DEF Inserting, Taking, Rounds
<1>7. remaining'[1] = Cardinality(Inserting')
  BY <1>3, <1>5, <1>6, CountedSets, OneFewer
<1>8. \A u \in Thread : pc'[u] \in Taking \cup {"inserted"}
  BY <1>1, <1>5
<1>9. remaining'[1] = 0 => \A u \in Thread : pc'[u] = "inserted"
  <2>1. ASSUME remaining'[1] = 0 PROVE Inserting' = {}
    <3>1. Inserting' \subseteq Inserting
      BY <1>6
    <3>2. IsFiniteSet(Inserting')
      BY <3>1, CountedSets, FS_Subset
    <3> QED
      BY <1>7, <2>1, <3>2, FS_EmptySet
  <2> QED
    BY <1>1, <1>8, <2>1 DEF Inserting
<1>10. Coming' = Coming
  BY <1>1 DEF Coming
<1>11. remaining'[2] = Cardinality(Coming')
  BY <1>1, <1>3, <1>10, WhereThreadsAre
<1>12. remaining'[1] = 0 => \A u \in Thread : pc'[u] # "insert" /\ (pc'[u] \in Rounds => u = 0)
  BY <1>9 DEF Rounds
<1>13. Barriers'
  BY <1>1, <1>4, <1>7, <1>8, <1>11, <1>12 DEF Barriers
<1> QED
  BY <1>3, <1>9, <1>13

LEMMA Ending ==
  ASSUME TypeOK, Barriers, NEW t \in Thread, EndThread(t)
  PROVE  Barriers' /\ remaining' \in (0..threads) \X (0..threads) /\ remaining'[1] = remaining[1]
<1>1. /\ pc \in [Thread -> Places] /\ Thread' = Thread /\ pc[t] = "stashed"
      /\ pc'[t] = "waiting" /\ \A u \in Thread : u # t => pc'[u] = pc[u]
      /\ remaining' = [remaining EXCEPT ![2] = @ - 1]
  BY DEF TypeOK, Goto, Thread, EndThread, Arrive
<1>2. /\ remaining[1] = 0 /\ remaining[2] = Cardinality(Coming) /\ threads \in Nat
      /\ remaining \in (0..threads) \X (0..threads)
      /\ \A u \in Thread : pc[u] # "terminated"
  BY <1>1, WhereThreadsAre, Basics DEF TypeOK
<1>3. Coming' = Coming \ {t} /\ t \in Coming
  BY <1>1 DEF Coming
<1>4. Cardinality(Coming') = remaining[2] - 1 /\ remaining[2] # 0
  BY <1>2, <1>3, CountedSets, OneFewer
<1>5. /\ remaining'[1] = remaining[1] /\ remaining'[2] = remaining[2] - 1
      /\ remaining' \in (0..threads) \X (0..threads)
  <2>1. remaining[2] - 1 \in 0..threads
    BY <1>2, <1>4, Basics
  <2> QED
    BY <1>1, <1>2, <2>1, CountedDown
<1>6. \A u \in Thread : pc'[u] # "terminated"
  BY <1>1, <1>2
<1>7. \A u \in Thread : pc'[u] # "insert" /\ (pc'[u] \in Rounds => u = 0)
  BY <1>1, <1>2 DEF Barriers, Rounds
<1>8. Barriers'
  BY <1>1, <1>2, <1>4, <1>5, <1>6, <1>7 DEF Barriers
<1> QED
  BY <1>5, <1>8

-----------------------------------------------------------------------------
(* Each step keeps BinInv.                                                  *)

(* One thread moves and takes other items into its hands.                   *)
LEMMA TypeKept ==
  ASSUME TypeOK, UNCHANGED <<hash, threads, raced>>, NEW t \in Thread,
         simple' \in [Bin -> SUBSET Numbered], cuckoo' \in [Bin -> ItemOf \cup {Empty}],
         stashIdxs' \in Seq(Element), pc' \in [Thread -> Places],
         next' \in [Thread -> 0..N], tryCount' \in [Thread -> 0..MaxTries],
         remaining' \in (0..threads) \X (0..threads),
         NEW w \in Seq(ItemOf), work' = Set(work, t, w),
         NEW o \in Seq(ItemOf \cup {Empty}), oldVals' = Set(oldVals, t, o),
         Len(o) <= Len(w)
  PROVE  TypeOK'
<1>1. Thread' = Thread
  BY DEF Thread
<1>2. work \in [Thread -> Seq(ItemOf)] /\ oldVals \in [Thread -> Seq(ItemOf \cup {Empty})]
  BY DEF TypeOK
<1>3. work' \in [Thread -> Seq(ItemOf)] /\ work'[t] = w /\ \A u \in Thread : u # t => work'[u] = work[u]
  BY <1>2 DEF Set
<1>4. /\ oldVals' \in [Thread -> Seq(ItemOf \cup {Empty})] /\ oldVals'[t] = o
      /\ \A u \in Thread : u # t => oldVals'[u] = oldVals[u]
  BY <1>2 DEF Set
<1>5. \A u \in Thread : Len(oldVals'[u]) <= Len(work'[u])
  BY <1>3, <1>4 DEF TypeOK
<1> QED
  BY <1>1, <1>3, <1>4, <1>5 DEF TypeOK

LEMMA SetIs ==
  ASSUME NEW S, NEW T, NEW f \in [S -> T], NEW s \in S
  PROVE  /\ \A v \in T : Set(f, s, v) \in [S -> T]
         /\ \A v : DOMAIN Set(f, s, v) = S /\ Set(f, s, v)[s] = v
         /\ \A v : \A u \in S : u # s => Set(f, s, v)[u] = f[u]
         /\ Set(f, s, f[s]) = f
  BY DEF Set

LEMMA GoneTo ==
  ASSUME TypeOK, NEW t \in Thread, NEW q \in Places, Goto(t, q)
  PROVE  pc' \in [Thread -> Places] /\ pc'[t] = q /\ \A u \in Thread : u # t => pc'[u] = pc[u]
  BY DEF TypeOK, Goto

LEMMA MinOfTwo ==
  ASSUME NEW a \in Int, NEW b \in Int
  PROVE  /\ Min({a, b}) \in {a, b} /\ Min({a, b}) <= a /\ Min({a, b}) <= b
<1>1. \E x \in {a, b} : \A y \in {a, b} : x <= y
  BY DEF Min
<1> QED
  BY <1>1 DEF Min

(* The next batch: n elements from next[t] on.                              *)
LEMMA BatchIs ==
  ASSUME TypeOK, Shares, NEW t \in Thread, InsertBatch(t)
  PROVE  \E n \in Nat \ {0}, w \in Seq(ItemOf) :
           /\ next' = Set(next, t, next[t] + n) /\ next[t] + n \in 0..N
           /\ startIdx(t) <= next[t] /\ next[t] + n <= endIdx(t)
           /\ work' = Set(work, t, w) /\ Len(w) = n
           /\ \A i \in 1..n : w[i] = <<next[t] + i - 1, 0>> /\ next[t] + i - 1 \in Element
           /\ \E xs \in SUBSET Element : simple' = [b \in Bin |-> simple[b] \cup SimpleEntries(b, xs)]
<1>0. PICK st \in Nat \ {0} : st = Step /\ N \in Nat
  BY Basics
<1>1. PICK a \in Int, e \in Int, s \in Int :
        a = next[t] /\ e = endIdx(t) /\ s = startIdx(t) /\ 0 <= s /\ s <= a /\ a < e /\ e <= N
  <2>1. next[t] \in 0..N /\ next[t] < endIdx(t) /\ startIdx(t) <= next[t]
    BY DEF TypeOK, Shares, InsertBatch
  <2>2. startIdx(t) \in Int /\ endIdx(t) \in Int /\ 0 <= startIdx(t) /\ endIdx(t) <= N
    BY Basics, ShareBounds
  <2> QED
    BY <2>1, <2>2
<1>2. PICK u : u = Min({a + Step, e})
  OBVIOUS
<1>3. u \in Int /\ a < u /\ u <= e
  <2>1. a + st \in Int
    OBVIOUS
  <2>2. u \in {a + st, e} /\ u <= a + st /\ u <= e
    BY <1>0, <1>2, <2>1, MinOfTwo
  <2> QED
    BY <1>0, <1>1, <2>2
<1>4. PICK n \in Nat \ {0} : n = u - a
  BY <1>3
<1>5. PICK batch : batch = [i \in 1..n |-> a + i - 1]
  OBVIOUS
<1>6. PICK w : w = Fresh(batch)
  OBVIOUS
<1>7. /\ simple' = [b \in Bin |-> simple[b] \cup SimpleEntries(b, {batch[i] : i \in DOMAIN batch})]
      /\ work' = Set(work, t, w) /\ next' = Set(next, t, u)
  BY <1>1, <1>2, <1>4, <1>5, <1>6 DEF InsertBatch
<1>8. ASSUME NEW i \in 1..n PROVE a + i - 1 \in Element /\ batch[i] = a + i - 1
  <2>1. i \in Int /\ 1 <= i /\ i <= n
    BY <1>4
  <2>2. a + i - 1 \in 0..(N - 1)
    BY <1>0, <1>1, <1>3, <1>4, <2>1
  <2> QED
    BY <1>5, <2>2 DEF Element
<1>9. DOMAIN batch = 1..n /\ {batch[i] : i \in DOMAIN batch} \in SUBSET Element
  BY <1>5, <1>8
<1>10. w = [i \in 1..n |-> <<batch[i], 0>>]
  BY <1>6, <1>9 DEF Fresh
<1>11. \A i \in 1..n : w[i] = <<a + i - 1, 0>>
  BY <1>8, <1>10
<1>12. \A i \in 1..n : w[i] \in ItemOf
  <2>1. 0 \in 0..(Hashes[Main] - 1)
    BY Basics
  <2>2. \A x \in Element : <<x, 0>> \in ItemOf
    BY <2>1 DEF ItemOf
  <2> QED
    BY <1>8, <1>11, <2>2
<1>13. w \in Seq(ItemOf) /\ Len(w) = n
  BY <1>4, <1>10, <1>12
<1>14. a + n = u /\ a + n \in 0..N
  BY <1>0, <1>1, <1>3, <1>4
<1> QED
  BY <1>1, <1>3, <1>7, <1>8, <1>9, <1>11, <1>13, <1>14

LEMMA EntriesTyped ==
  ASSUME TypeOK, NEW b \in Bin, NEW xs \in SUBSET Element
  PROVE  SimpleEntries(b, xs) \subseteq Numbered
<1>1. PICK h \in Nat \ {0}, g \in Nat \ {0} : h = Hashes[Main] /\ g = Hashes[Stash]
  BY Basics
<1>2. PICK r : r = IF b < Bins[Main] THEN Main ELSE Stash
  OBVIOUS
<1>3. ASSUME NEW y \in SimpleEntries(b, xs)
      PROVE  \E x \in xs : \E k \in 0..(Hashes[r] - 1) :
               y = <<x, IF r = Main THEN k ELSE Hashes[Main] + k>>
  BY <1>2 DEF SimpleEntries
<1>4. ASSUME NEW k \in 0..(Hashes[r] - 1)
      PROVE  (IF r = Main THEN k ELSE Hashes[Main] + k) \in 0..(h + g - 1)
  <2>1. CASE r = Main
    BY <1>1, <1>4, <2>1
  <2>2. CASE r # Main
    <3>1. k \in 0..(g - 1)
      BY <1>1, <1>2, <1>4, <2>2
    <3> QED
      BY <1>1, <2>2, <3>1
  <2> QED
    BY <2>1, <2>2
<1> QED
  BY <1>1, <1>3, <1>4 DEF Numbered

LEMMA InsertBatchInv ==
  ASSUME BinInv, NEW t \in Thread, InsertBatch(t)
  PROVE  BinInv'
<1>0. TypeOK /\ Barriers /\ Shares /\ Hands
  BY DEF BinInv
<1>1. /\ pc[t] = "insert" /\ Goto(t, "round") /\ tryCount' = Set(tryCount, t, 0)
      /\ UNCHANGED <<hash, threads, raced, cuckoo, stashIdxs, oldVals, remaining>>
      /\ Thread' = Thread
  BY DEF InsertBatch, Thread
<1>2. PICK n \in Nat \ {0}, w \in Seq(ItemOf), xs \in SUBSET Element :
        /\ next' = Set(next, t, next[t] + n) /\ next[t] + n \in 0..N
        /\ startIdx(t) <= next[t] /\ next[t] + n <= endIdx(t)
        /\ work' = Set(work, t, w) /\ Len(w) = n
        /\ simple' = [b \in Bin |-> simple[b] \cup SimpleEntries(b, xs)]
  BY <1>0, BatchIs
<1>3. pc' \in [Thread -> Places] /\ pc'[t] = "round" /\ \A u \in Thread : u # t => pc'[u] = pc[u]
  <2>1. "round" \in Places
    BY DEF Places
  <2> QED
    BY <1>0, <1>1, <2>1, GoneTo
<1>4. oldVals[t] = <<>> /\ \A u \in Thread : u # t => work'[u] = work[u]
  BY <1>0, <1>1, <1>2, Typed DEF Hands, Set
<1>5. TypeOK'
  <2>1. simple' \in [Bin -> SUBSET Numbered]
    <3>1. simple \in [Bin -> SUBSET Numbered]
      BY <1>0, Typed
    <3>2. \A b \in Bin : simple[b] \cup SimpleEntries(b, xs) \in SUBSET Numbered
      BY <1>0, <3>1, EntriesTyped
    <3> QED
      BY <1>2, <3>2
  <2>2. next' \in [Thread -> 0..N] /\ tryCount' \in [Thread -> 0..MaxTries]
    <3>1. 0 \in 0..MaxTries
      BY <1>0, Basics
    <3> QED
      BY <1>0, <1>1, <1>2, <3>1, Typed DEF Set
  <2>3. oldVals' = Set(oldVals, t, <<>>) /\ <<>> \in Seq(ItemOf \cup {Empty}) /\ Len(<<>>) = 0
    BY <1>0, <1>1, <1>4, Typed DEF Set
  <2>4. Len(<<>>) <= Len(w)
    BY <1>2, <2>3
  <2>5. /\ cuckoo' \in [Bin -> ItemOf \cup {Empty}] /\ stashIdxs' \in Seq(Element)
        /\ remaining' \in (0..threads) \X (0..threads)
    BY <1>0, <1>1, Typed
  <2> QED
    BY <1>0, <1>1, <1>2, <1>3, <2>1, <2>2, <2>3, <2>4, <2>5, TypeKept
<1>6. Barriers'
  <2>1. remaining[1] # 0
    BY <1>0, <1>1, WhereThreadsAre
  <2> QED
    BY <1>0, <1>1, <2>1, BarriersKept DEF Taking, Rounds
<1>7. Shares'
  <2>1. /\ next'[t] = next[t] + n /\ \A u \in Thread : u # t => next'[u] = next[u]
        /\ next[t] \in Int
    BY <1>0, <1>2, Basics, Typed DEF Set
  <2>2. remaining[1] # 0
    BY <1>0, <1>1, WhereThreadsAre
  <2>3. \A u \in Thread : startIdx(u)' = startIdx(u) /\ endIdx(u)' = endIdx(u)
    BY <1>1 DEF startIdx, endIdx
  <2>4. startIdx(t) \in Int
    BY <1>0, Basics, ShareBounds
  <2>5. startIdx(t) <= next[t] + n
    BY <1>2, <2>1, <2>4
  <2> QED
    BY <1>0, <1>1, <1>2, <1>3, <2>1, <2>2, <2>3, <2>5 DEF Shares
<1>8. Hands'
  BY <1>0, <1>1, <1>3, <1>4 DEF Hands, Rounds
<1> QED
  BY <1>5, <1>6, <1>7, <1>8 DEF BinInv

(* A step between two places of a round, or out of it, that only changes    *)
(* hands and bins.                                                          *)
LEMMA SharesKept ==
  ASSUME TypeOK, Barriers, Shares, NEW t \in Thread, NEW q \in Places, Goto(t, q),
         UNCHANGED <<threads, next, remaining>>,
         q = "inserted" => pc[t] = "inserted"
  PROVE  Shares'
<1>1. /\ Thread' = Thread /\ \A u \in Thread : startIdx(u)' = startIdx(u) /\ endIdx(u)' = endIdx(u)
  BY DEF startIdx, endIdx, Thread
<1>2. pc'[t] = q /\ \A u \in Thread : u # t => pc'[u] = pc[u]
  BY GoneTo
<1> QED
  BY <1>1, <1>2 DEF Shares

LEMMA BeginRoundInv ==
  ASSUME BinInv, NEW t \in Thread, BeginRound(t)
  PROVE  BinInv'
<1>0. TypeOK /\ Barriers /\ Shares /\ Hands
  BY DEF BinInv
<1>1. /\ pc[t] = "round" /\ Goto(t, "exchange") /\ tryCount' = Set(tryCount, t, tryCount[t] + 1)
      /\ tryCount[t] < MaxTries /\ oldVals' = Set(oldVals, t, <<>>)
      /\ UNCHANGED <<hash, threads, raced, simple, cuckoo, stashIdxs, next, work, remaining>>
      /\ Thread' = Thread
  BY DEF BeginRound, Thread
<1>2. /\ pc' \in [Thread -> Places] /\ pc'[t] = "exchange" /\ "exchange" \in Places
      /\ \A u \in Thread : u # t => pc'[u] = pc[u]
  <2>1. "exchange" \in Places
    BY DEF Places
  <2> QED
    BY <1>0, <1>1, <2>1, GoneTo
<1>3. oldVals'[t] = <<>> /\ \A u \in Thread : u # t => oldVals'[u] = oldVals[u]
  BY <1>0, <1>1, Typed DEF Set
<1>4. TypeOK'
  <2>1. tryCount' \in [Thread -> 0..MaxTries]
    <3>1. tryCount \in [Thread -> 0..MaxTries] /\ tryCount[t] + 1 \in 0..MaxTries
      <4>1. PICK m \in Nat : m = MaxTries
        BY <1>0, Basics
      <4>2. tryCount \in [Thread -> 0..m]
        BY <1>0, <4>1, Typed
      <4>3. PICK k \in 0..m : k = tryCount[t]
        BY <4>2
      <4> QED
        BY <1>1, <4>1, <4>2, <4>3
    <3> QED
      BY <1>1, <3>1 DEF Set
  <2>2. work[t] \in Seq(ItemOf) /\ Len(work[t]) \in Nat
    BY <1>0, HandsTyped
  <2>3. work' = Set(work, t, work[t])
    BY <1>0, <1>1, Typed DEF Set
  <2>4. <<>> \in Seq(ItemOf \cup {Empty}) /\ Len(<<>>) <= Len(work[t])
    BY <2>2
  <2>5. /\ simple' \in [Bin -> SUBSET Numbered] /\ cuckoo' \in [Bin -> ItemOf \cup {Empty}]
        /\ stashIdxs' \in Seq(Element) /\ next' \in [Thread -> 0..N]
        /\ remaining' \in (0..threads) \X (0..threads)
    BY <1>0, <1>1, Typed
  <2> QED
    BY <1>0, <1>1, <1>2, <2>1, <2>2, <2>3, <2>4, <2>5, TypeKept
<1>5. Barriers'
  <2>1. remaining[1] = 0 => t = 0
    BY <1>0, <1>1, WhereThreadsAre DEF Rounds
  <2> QED
    BY <1>0, <1>1, <2>1, BarriersKept DEF Taking, Rounds
<1>6. Shares'
  BY <1>0, <1>1, <1>2, SharesKept
<1>7. Hands'
  BY <1>0, <1>1, <1>2, <1>3 DEF Hands, Rounds
<1> QED
  BY <1>4, <1>5, <1>6, <1>7 DEF BinInv

(* What a thread finds is appended to what it found before.                 *)
LEMMA FoundMore ==
  ASSUME TypeOK, NEW t \in Thread, Len(oldVals[t]) < Len(work[t])
  PROVE  \E o \in Seq(ItemOf \cup {Empty}) :
           /\ o = Append(oldVals[t], cuckoo[ItemBin(t)])
           /\ Len(o) = Len(oldVals[t]) + 1 /\ o # <<>> /\ Len(o) <= Len(work[t])
           /\ o[Len(oldVals[t]) + 1] = cuckoo[ItemBin(t)]
           /\ \A i \in 1..Len(oldVals[t]) : o[i] = oldVals[t][i]
<1>1. PICK p \in Seq(ItemOf \cup {Empty}), l \in Nat, v \in ItemOf \cup {Empty} :
        p = oldVals[t] /\ l = Len(work[t]) /\ v = cuckoo[ItemBin(t)] /\ Len(p) < l
  BY HandsTyped, ItemIs
<1>2. /\ Append(p, v) \in Seq(ItemOf \cup {Empty}) /\ Len(Append(p, v)) = Len(p) + 1
      /\ Append(p, v) # <<>> /\ Append(p, v)[Len(p) + 1] = v
      /\ \A i \in 1..Len(p) : Append(p, v)[i] = p[i]
  OBVIOUS
<1>3. Len(p) \in Nat
  OBVIOUS
<1>4. Len(p) + 1 <= l
  BY <1>1, <1>3
<1>5. PICK o : o = Append(p, v)
  OBVIOUS
<1> QED
  BY <1>1, <1>2, <1>4, <1>5

LEMMA LoadInv ==
  ASSUME BinInv, NEW t \in Thread, Load(t)
  PROVE  BinInv'
<1>0. TypeOK /\ Barriers /\ Shares /\ Hands
  BY DEF BinInv
<1>1. /\ pc[t] = "exchange" /\ Len(oldVals[t]) < Len(work[t])
      /\ oldVals' = Set(oldVals, t, Append(oldVals[t], cuckoo[ItemBin(t)]))
      /\ Goto(t, "store")
      /\ UNCHANGED <<hash, threads, raced, simple, cuckoo, stashIdxs, next, work, tryCount, remaining>>
      /\ Thread' = Thread
  BY DEF Load, Thread
<1>2. PICK o \in Seq(ItemOf \cup {Empty}) :
        o = Append(oldVals[t], cuckoo[ItemBin(t)]) /\ o # <<>> /\ Len(o) <= Len(work[t])
  BY <1>0, <1>1, FoundMore
<1>3. /\ oldVals' = Set(oldVals, t, o) /\ oldVals'[t] = o
      /\ \A u \in Thread : u # t => oldVals'[u] = oldVals[u]
  BY <1>0, <1>1, <1>2, Typed DEF Set
<1>4. /\ pc' \in [Thread -> Places] /\ pc'[t] = "store" /\ "store" \in Places
      /\ \A u \in Thread : u # t => pc'[u] = pc[u]
  <2>1. "store" \in Places
    BY DEF Places
  <2> QED
    BY <1>0, <1>1, <2>1, GoneTo
<1>5. TypeOK'
  <2>1. work[t] \in Seq(ItemOf) /\ work' = Set(work, t, work[t])
    BY <1>0, <1>1, Typed, HandsTyped DEF Set
  <2>2. /\ simple' \in [Bin -> SUBSET Numbered] /\ cuckoo' \in [Bin -> ItemOf \cup {Empty}]
        /\ stashIdxs' \in Seq(Element) /\ next' \in [Thread -> 0..N]
        /\ tryCount' \in [Thread -> 0..MaxTries]
        /\ remaining' \in (0..threads) \X (0..threads)
    BY <1>0, <1>1, Typed
  <2> QED
    BY <1>0, <1>1, <1>2, <1>3, <1>4, <2>1, <2>2, TypeKept
<1>6. Barriers'
  <2>1. remaining[1] = 0 => t = 0
    BY <1>0, <1>1, WhereThreadsAre DEF Rounds
  <2> QED
    BY <1>0, <1>1, <2>1, BarriersKept DEF Taking, Rounds
<1>7. Shares'
  BY <1>0, <1>1, <1>4, SharesKept
<1>8. Hands'
  BY <1>0, <1>1, <1>2, <1>3, <1>4 DEF Hands, Rounds
<1> QED
  BY <1>5, <1>6, <1>7, <1>8 DEF BinInv

LEMMA StoreInv ==
  ASSUME BinInv, NEW t \in Thread, Store(t)
  PROVE  BinInv'
<1>0. TypeOK /\ Barriers /\ Shares /\ Hands
  BY DEF BinInv
<1>1. /\ pc[t] = "store" /\ cuckoo' = Set(cuckoo, PutBin(t), Put(t)) /\ Goto(t, "exchange")
      /\ UNCHANGED <<hash, threads, simple, stashIdxs, next, work, oldVals, tryCount, remaining>>
      /\ Thread' = Thread /\ raced' \in BOOLEAN
  BY DEF Store, Thread, Put, PutBin
<1>2. /\ pc' \in [Thread -> Places] /\ pc'[t] = "exchange" /\ "exchange" \in Places
      /\ \A u \in Thread : u # t => pc'[u] = pc[u]
  <2>1. "exchange" \in Places
    BY DEF Places
  <2> QED
    BY <1>0, <1>1, <2>1, GoneTo
<1>3. oldVals[t] # <<>>
  BY <1>0, <1>1 DEF Hands
<1>4. TypeOK'
  <2>1. cuckoo' \in [Bin -> ItemOf \cup {Empty}]
    BY <1>0, <1>1, <1>3, PutIs, Typed DEF Set
  <2> QED
    BY <1>0, <1>1, <1>2, <2>1 DEF TypeOK
<1>5. Barriers'
  <2>1. remaining[1] = 0 => t = 0
    BY <1>0, <1>1, WhereThreadsAre DEF Rounds
  <2> QED
    BY <1>0, <1>1, <2>1, BarriersKept DEF Taking, Rounds
<1>6. Shares'
  BY <1>0, <1>1, <1>2, SharesKept
<1>7. Hands'
  BY <1>0, <1>1, <1>2 DEF Hands, Rounds
<1> QED
  BY <1>4, <1>5, <1>6, <1>7 DEF BinInv

(* The items w of the next round: each was found in this one, at place      *)
(* at[i], and goes on with another function of the same table.              *)
GoesOn(t, w, at) ==
  /\ w = Evicted(t) /\ at \in [1..Len(w) -> 1..Len(oldVals[t])]
  /\ \A i \in 1..Len(w) :
       oldVals[t][at[i]] # Empty /\ w[i][1] = oldVals[t][at[i]][1] /\ w[i][2] < Hashes[Region(t)]
  /\ \A i, j \in 1..Len(w) : at[i] = at[j] => i = j
  /\ \A k \in 1..Len(oldVals[t]) : oldVals[t][k] # Empty => \E i \in 1..Len(w) : at[i] = k

LEMMA EvictedIs ==
  ASSUME TypeOK, NEW t \in Thread
  PROVE  \E w \in Seq(ItemOf) : \E at : GoesOn(t, w, at)
<1>1. PICK p \in Seq(ItemOf \cup {Empty}) : p = oldVals[t]
  BY HandsTyped
<1>2. PICK q \in Seq(ItemOf \cup {Empty}) : q = Kept(p) /\ \E at : Keeps(p, Len(p), q, at)
  BY KeptIs
<1>3. PICK at : Keeps(p, Len(p), q, at)
  BY <1>2
<1>4. PICK h \in Nat \ {0} : h = Hashes[Region(t)] /\ (h = Hashes[Main] \/ h = Hashes[Stash])
  BY RegionIs
<1>5. PICK w : w = [i \in DOMAIN q |-> <<q[i][1], (q[i][2] + 1) % h>>]
  OBVIOUS
<1>6. w = Evicted(t)
  BY <1>1, <1>2, <1>4, <1>5 DEF Evicted
<1>7. /\ at \in [DOMAIN q -> 1..Len(p)]
      /\ \A i \in DOMAIN q : q[i] = p[at[i]] /\ p[at[i]] # Empty
      /\ \A i, j \in DOMAIN q : at[i] = at[j] => i = j
      /\ \A k \in 1..Len(p) : p[k] # Empty => \E i \in DOMAIN q : at[i] = k
  BY <1>3 DEF Keeps
<1>8. ASSUME NEW i \in DOMAIN q
      PROVE  w[i] \in ItemOf /\ w[i][1] = q[i][1] /\ w[i][2] < h
  <2>1. q[i] \in ItemOf
    BY <1>7
  <2>2. q[i][1] \in Element /\ q[i][2] \in Nat
    BY <2>1, ItemsAre
  <2>3. PICK k \in Nat : k = q[i][2] + 1
    BY <2>2
  <2>4. k % h \in 0..(h - 1)
    BY ModIs
  <2>5. PICK m : m = k % h /\ m \in 0..(h - 1)
    BY <2>4
  <2>6. w[i] = <<q[i][1], m>>
    BY <1>5, <2>3, <2>5
  <2>7. m \in (0..(Hashes[Main] - 1)) \cup (0..(Hashes[Stash] - 1))
    BY <1>4, <2>5
  <2>8. m < h
    BY <2>5
  <2> QED
    BY <2>2, <2>6, <2>7, <2>8 DEF ItemOf
<1>9. Len(q) \in Nat /\ DOMAIN q = 1..Len(q)
  OBVIOUS
<1>10. w \in Seq(ItemOf) /\ Len(w) = Len(q) /\ 1..Len(w) = DOMAIN q
  BY <1>5, <1>8, <1>9
<1>11. GoesOn(t, w, at)
  <2>1. \A i \in DOMAIN q :
          oldVals[t][at[i]] # Empty /\ w[i][1] = oldVals[t][at[i]][1] /\ w[i][2] < Hashes[Region(t)]
    BY <1>1, <1>4, <1>7, <1>8
  <2> QED
    BY <1>1, <1>6, <1>7, <1>10, <2>1 DEF GoesOn
<1> QED
  BY <1>10, <1>11

LEMMA EndRoundInv ==
  ASSUME BinInv, NEW t \in Thread, EndRound(t)
  PROVE  BinInv'
<1>0. TypeOK /\ Barriers /\ Shares /\ Hands
  BY DEF BinInv
<1>1. /\ pc[t] = "exchange" /\ work' = Set(work, t, Evicted(t)) /\ oldVals' = Set(oldVals, t, <<>>)
      /\ Goto(t, "round")
      /\ UNCHANGED <<hash, threads, raced, simple, cuckoo, stashIdxs, next, tryCount, remaining>>
      /\ Thread' = Thread
  BY DEF EndRound, Thread
<1>2. /\ pc' \in [Thread -> Places] /\ pc'[t] = "round" /\ "round" \in Places
      /\ \A u \in Thread : u # t => pc'[u] = pc[u]
  <2>1. "round" \in Places
    BY DEF Places
  <2> QED
    BY <1>0, <1>1, <2>1, GoneTo
<1>3. PICK w \in Seq(ItemOf) : w = Evicted(t)
  BY <1>0, EvictedIs DEF GoesOn
<1>4. oldVals'[t] = <<>> /\ \A u \in Thread : u # t => oldVals'[u] = oldVals[u] /\ work'[u] = work[u]
  BY <1>0, <1>1, Typed DEF Set
<1>5. TypeOK'
  <2>1. <<>> \in Seq(ItemOf \cup {Empty}) /\ Len(<<>>) <= Len(w) /\ work' = Set(work, t, w)
    BY <1>1, <1>3
  <2>2. /\ simple' \in [Bin -> SUBSET Numbered] /\ cuckoo' \in [Bin -> ItemOf \cup {Empty}]
        /\ stashIdxs' \in Seq(Element) /\ next' \in [Thread -> 0..N]
        /\ tryCount' \in [Thread -> 0..MaxTries]
        /\ remaining' \in (0..threads) \X (0..threads)
    BY <1>0, <1>1, Typed
  <2> QED
    BY <1>0, <1>1, <1>2, <2>1, <2>2, TypeKept
<1>6. Barriers'
  <2>1. remaining[1] = 0 => t = 0
    BY <1>0, <1>1, WhereThreadsAre DEF Rounds
  <2> QED
    BY <1>0, <1>1, <2>1, BarriersKept DEF Taking, Rounds
<1>7. Shares'
  BY <1>0, <1>1, <1>2, SharesKept
<1>8. Hands'
  BY <1>0, <1>1, <1>2, <1>4 DEF Hands, Rounds
<1> QED
  BY <1>5, <1>6, <1>7, <1>8 DEF BinInv

(* The list after what is left of a batch was put at its end.               *)
Left(t, q, l) ==
  /\ q = stashIdxs \o [i \in DOMAIN work[t] |-> work[t][i][1]]
  /\ l = Len(stashIdxs) /\ DOMAIN stashIdxs = 1..l /\ DOMAIN q = 1..(l + Len(work[t]))
  /\ \A i \in 1..l : q[i] = stashIdxs[i]
  /\ \A i \in 1..Len(work[t]) : q[l + i] = work[t][i][1]

Joined(S, s, r, q) ==
  /\ q = s \o r /\ q \in Seq(S) /\ DOMAIN q = 1..(Len(s) + Len(r))
  /\ \A i \in 1..Len(s) : q[i] = s[i]
  /\ \A i \in 1..Len(r) : q[Len(s) + i] = r[i]

LEMMA Concatenated ==
  ASSUME NEW S, NEW s \in Seq(S), NEW r \in Seq(S)
  PROVE  \E q : Joined(S, s, r, q)
<1>1. /\ s \o r \in Seq(S) /\ Len(s \o r) = Len(s) + Len(r)
      /\ \A i \in 1..(Len(s) + Len(r)) :
           (s \o r)[i] = IF i <= Len(s) THEN s[i] ELSE r[i - Len(s)]
  BY ConcatProperties
<1>2. PICK m \in Nat, n \in Nat : m = Len(s) /\ n = Len(r)
  OBVIOUS
<1>3. DOMAIN (s \o r) = 1..(m + n)
  BY <1>1, <1>2
<1>4. \A i \in 1..m : i \in 1..(m + n) /\ i <= m
  OBVIOUS
<1>5. \A i \in 1..n : m + i \in 1..(m + n) /\ ~(m + i <= m) /\ (m + i) - m = i
  OBVIOUS
<1> QED
  <2>1. Joined(S, s, r, s \o r)
    BY <1>1, <1>2, <1>3, <1>4, <1>5 DEF Joined
  <2> QED
    BY <2>1

LEMMA ListIs ==
  ASSUME TypeOK, NEW t \in Thread
  PROVE  \E q \in Seq(Element), l \in Nat : Left(t, q, l)
<1>1. PICK s \in Seq(Element) : s = stashIdxs
  BY Typed
<1>2. PICK w \in Seq(ItemOf) : w = work[t]
  BY HandsTyped
<1>3. PICK r : r = [i \in DOMAIN w |-> w[i][1]]
  OBVIOUS
<1>4. \A i \in DOMAIN w : w[i][1] \in Element
  BY ItemsAre
<1>5. Len(w) \in Nat /\ DOMAIN w = 1..Len(w) /\ Len(s) \in Nat /\ DOMAIN s = 1..Len(s)
  OBVIOUS
<1>6. r \in Seq(Element) /\ Len(r) = Len(w)
  BY <1>3, <1>4, <1>5
<1>7. PICK q : Joined(Element, s, r, q)
  BY <1>6, Concatenated
<1>8. \A i \in 1..Len(w) : r[i] = w[i][1]
  BY <1>3, <1>5
<1>9. /\ q = s \o r /\ q \in Seq(Element) /\ DOMAIN q = 1..(Len(s) + Len(w))
      /\ \A i \in 1..Len(s) : q[i] = s[i]
      /\ \A i \in 1..Len(w) : q[Len(s) + i] = r[i]
  BY <1>6, <1>7 DEF Joined
<1>10. Left(t, q, Len(s))
  BY <1>1, <1>2, <1>3, <1>5, <1>8, <1>9 DEF Left
<1> QED
  BY <1>5, <1>9, <1>10

LEMMA LeaveToStashInv ==
  ASSUME BinInv, NEW t \in Thread, LeaveToStash(t)
  PROVE  BinInv'
<1>0. TypeOK /\ Barriers /\ Shares /\ Hands
  BY DEF BinInv
<1>1. /\ pc[t] = "round" /\ Region(t) = Main
      /\ stashIdxs' = stashIdxs \o [i \in DOMAIN work[t] |-> work[t][i][1]]
      /\ work' = Set(work, t, <<>>) /\ Goto(t, "insert")
      /\ UNCHANGED <<hash, threads, raced, simple, cuckoo, next, oldVals, tryCount, remaining>>
      /\ Thread' = Thread
  BY DEF LeaveToStash, Thread
<1>2. /\ pc' \in [Thread -> Places] /\ pc'[t] = "insert" /\ "insert" \in Places
      /\ \A u \in Thread : u # t => pc'[u] = pc[u]
  <2>1. "insert" \in Places
    BY DEF Places
  <2> QED
    BY <1>0, <1>1, <2>1, GoneTo
<1>3. /\ oldVals[t] = <<>> /\ work'[t] = <<>>
      /\ \A u \in Thread : u # t => work'[u] = work[u]
  BY <1>0, <1>1, Typed DEF Set, Hands
<1>4. TypeOK'
  <2>1. /\ <<>> \in Seq(ItemOf \cup {Empty}) /\ <<>> \in Seq(ItemOf) /\ Len(<<>>) <= Len(<<>>)
        /\ oldVals' = Set(oldVals, t, <<>>)
    BY <1>0, <1>1, <1>3, Typed DEF Set
  <2>2. stashIdxs' \in Seq(Element)
    BY <1>0, <1>1, ListIs DEF Left
  <2>3. /\ simple' \in [Bin -> SUBSET Numbered] /\ cuckoo' \in [Bin -> ItemOf \cup {Empty}]
        /\ next' \in [Thread -> 0..N] /\ tryCount' \in [Thread -> 0..MaxTries]
        /\ remaining' \in (0..threads) \X (0..threads)
    BY <1>0, <1>1, Typed
  <2> QED
    BY <1>0, <1>1, <1>2, <2>1, <2>2, <2>3, TypeKept
<1>5. Barriers'
  <2>1. remaining[1] # 0
    BY <1>0, <1>1, RegionIs
  <2> QED
    BY <1>0, <1>1, <2>1, BarriersKept DEF Taking, Rounds
<1>6. Shares'
  BY <1>0, <1>1, <1>2, SharesKept
<1>7. Hands'
  BY <1>0, <1>1, <1>2, <1>3 DEF Hands, Rounds
<1> QED
  BY <1>4, <1>5, <1>6, <1>7 DEF BinInv

LEMMA EndInsertInv ==
  ASSUME BinInv, NEW t \in Thread, EndInsert(t)
  PROVE  BinInv'
<1>0. TypeOK /\ Barriers /\ Shares /\ Hands
  BY DEF BinInv
<1>1. /\ pc[t] = "insert" /\ next[t] = endIdx(t) /\ Goto(t, "inserted")
      /\ UNCHANGED <<hash, threads, raced, simple, cuckoo, stashIdxs, next, work, oldVals, tryCount>>
      /\ Thread' = Thread
  BY DEF EndInsert, Arrive, Thread
<1>2. /\ pc' \in [Thread -> Places] /\ pc'[t] = "inserted"
      /\ \A u \in Thread : u # t => pc'[u] = pc[u]
  <2>1. "inserted" \in Places
    BY DEF Places
  <2> QED
    BY <1>0, <1>1, <2>1, GoneTo
<1>3. /\ Barriers' /\ remaining' \in (0..threads) \X (0..threads)
      /\ remaining'[1] = 0 => \A u \in Thread : pc'[u] = "inserted"
  BY <1>0, Arriving
<1>4. TypeOK'
  BY <1>0, <1>1, <1>2, <1>3 DEF TypeOK
<1>5. remaining[1] # 0
  BY <1>0, <1>1, WhereThreadsAre
<1>6. Shares'
  <2>1. \A u \in Thread : startIdx(u)' = startIdx(u) /\ endIdx(u)' = endIdx(u)
    BY <1>1 DEF startIdx, endIdx
  <2>2. \A u \in Thread : pc'[u] = "inserted" => next[u] = endIdx(u)
    BY <1>0, <1>1, <1>2 DEF Shares
  <2> QED
    BY <1>0, <1>1, <1>3, <2>1, <2>2 DEF Shares
<1>7. Hands'
  BY <1>0, <1>1, <1>2 DEF Hands, Rounds
<1> QED
  BY <1>3, <1>4, <1>6, <1>7 DEF BinInv

(* The list as the first thread takes it.                                   *)
LEMMA FreshIs ==
  ASSUME TypeOK
  PROVE  \E w \in Seq(ItemOf) :
           /\ w = Fresh(stashIdxs) /\ Len(w) = Len(stashIdxs) /\ DOMAIN stashIdxs = 1..Len(w)
           /\ \A i \in 1..Len(w) : w[i] = <<stashIdxs[i], 0>> /\ w[i][1] = stashIdxs[i] /\ w[i][2] = 0
<1>1. PICK s \in Seq(Element) : s = stashIdxs
  BY Typed
<1>2. 0 \in 0..(Hashes[Main] - 1)
  <2>1. PICK h \in Nat \ {0} : h = Hashes[Main]
    BY Basics
  <2> QED
    BY <2>1
<1>3. PICK w : w = [i \in DOMAIN s |-> <<s[i], 0>>]
  OBVIOUS
<1>4. \A i \in DOMAIN s : w[i] \in ItemOf
  BY <1>2, <1>3 DEF ItemOf
<1>5. w \in Seq(ItemOf) /\ Len(w) = Len(s) /\ DOMAIN s = 1..Len(w)
  BY <1>3, <1>4
<1> QED
  BY <1>1, <1>3, <1>5 DEF Fresh

LEMMA InsertStashInv ==
  ASSUME BinInv, NEW t \in Thread, InsertStash(t)
  PROVE  BinInv'
<1>0. TypeOK /\ Barriers /\ Shares /\ Hands
  BY DEF BinInv
<1>1. /\ pc[t] = "inserted" /\ remaining[1] = 0 /\ tryCount' = Set(tryCount, t, 0)
      /\ t = 0 => work' = Set(work, t, Fresh(stashIdxs)) /\ Goto(t, "round")
      /\ t # 0 => work' = work /\ Goto(t, "stashed")
      /\ UNCHANGED <<hash, threads, raced, simple, cuckoo, stashIdxs, next, oldVals, remaining>>
      /\ Thread' = Thread
  BY DEF InsertStash, Thread
<1>2. PICK q \in {"round", "stashed"} : Goto(t, q) /\ (q = "round" <=> t = 0)
  BY <1>1
<1>3. /\ q \in Places /\ pc' \in [Thread -> Places] /\ pc'[t] = q
      /\ \A u \in Thread : u # t => pc'[u] = pc[u]
  <2>1. q \in Places
    BY DEF Places
  <2> QED
    BY <1>0, <1>2, <2>1, GoneTo
<1>4. oldVals[t] = <<>> /\ work[t] = <<>>
  BY <1>0, <1>1 DEF Hands, Rounds
<1>5. PICK w \in Seq(ItemOf) : work' = Set(work, t, w) /\ (t # 0 => w = <<>>)
  <2>1. CASE t = 0
    BY <1>0, <1>1, <2>1, FreshIs
  <2>2. CASE t # 0
    <3>1. work = Set(work, t, <<>>) /\ <<>> \in Seq(ItemOf)
      BY <1>0, <1>4, Typed DEF Set
    <3> QED
      BY <1>1, <2>2, <3>1
  <2> QED
    BY <2>1, <2>2
<1>6. work'[t] = w /\ \A u \in Thread : u # t => work'[u] = work[u]
  BY <1>0, <1>5, Typed DEF Set
<1>7. TypeOK'
  <2>1. tryCount' \in [Thread -> 0..MaxTries]
    <3>1. 0 \in 0..MaxTries
      BY <1>0, Basics
    <3> QED
      BY <1>0, <1>1, <3>1, Typed DEF Set
  <2>2. /\ <<>> \in Seq(ItemOf \cup {Empty}) /\ Len(<<>>) <= Len(w)
        /\ oldVals' = Set(oldVals, t, <<>>)
    BY <1>0, <1>1, <1>4, Typed DEF Set
  <2>3. /\ simple' \in [Bin -> SUBSET Numbered] /\ cuckoo' \in [Bin -> ItemOf \cup {Empty}]
        /\ stashIdxs' \in Seq(Element) /\ next' \in [Thread -> 0..N]
        /\ remaining' \in (0..threads) \X (0..threads)
    BY <1>0, <1>1, Typed
  <2> QED
    BY <1>0, <1>1, <1>3, <1>5, <2>1, <2>2, <2>3, TypeKept
<1>8. Barriers'
  BY <1>0, <1>1, <1>2, BarriersKept DEF Taking, Rounds
<1>9. Shares'
  BY <1>0, <1>1, <1>2, <1>3, SharesKept
<1>10. Hands'
  BY <1>0, <1>1, <1>2, <1>3, <1>4, <1>5, <1>6 DEF Hands, Rounds
<1> QED
  BY <1>7, <1>8, <1>9, <1>10 DEF BinInv

LEMMA EndStashInv ==
  ASSUME BinInv, NEW t \in Thread, EndStash(t)
  PROVE  BinInv'
<1>0. TypeOK /\ Barriers /\ Shares /\ Hands
  BY DEF BinInv
<1>1. /\ pc[t] = "round" /\ Region(t) = Stash
      /\ work[t] = <<>> => Goto(t, "stashed")
      /\ work[t] # <<>> => pc' = [u \in Thread |-> "terminated"]
      /\ UNCHANGED <<hash, threads, raced, simple, cuckoo, stashIdxs, next, work, oldVals, tryCount, remaining>>
      /\ Thread' = Thread
  BY DEF EndStash, Thread
<1>2. remaining[1] = 0
  BY <1>0, <1>1, RegionIs
<1>3. CASE work[t] = <<>>
  <2>1. /\ "stashed" \in Places /\ pc' \in [Thread -> Places] /\ pc'[t] = "stashed"
        /\ \A u \in Thread : u # t => pc'[u] = pc[u]
    <3>1. "stashed" \in Places
      BY DEF Places
    <3> QED
      BY <1>0, <1>1, <1>3, <3>1, GoneTo
  <2>2. TypeOK'
    BY <1>0, <1>1, <2>1 DEF TypeOK
  <2>3. Barriers'
    BY <1>0, <1>1, <1>2, <1>3, BarriersKept DEF Taking, Rounds
  <2>4. Shares'
    BY <1>0, <1>1, <1>3, <2>1, SharesKept
  <2>5. Hands'
    BY <1>0, <1>1, <1>3, <2>1 DEF Hands, Rounds
  <2> QED
    BY <2>2, <2>3, <2>4, <2>5 DEF BinInv
<1>4. CASE work[t] # <<>>
  <2>1. \A u \in Thread : pc'[u] = "terminated"
    BY <1>1, <1>4
  <2>2. TypeOK'
    <3>1. pc' \in [Thread -> Places]
      BY <1>1, <1>4 DEF Places
    <3> QED
      BY <1>0, <1>1, <3>1 DEF TypeOK
  <2>3. Barriers'
    <3>1. 0 \in Thread
      BY <1>0, Basics
    <3> QED
      BY <1>1, <1>2, <2>1, <3>1 DEF Barriers, Rounds
  <2>4. Shares'
    BY <1>0, <1>1, <1>2 DEF Shares, startIdx, endIdx
  <2>5. Hands'
    <3>1. \A u \in Thread : pc[u] \notin {"exchange", "store"}
      BY <1>0, <1>1, <1>2, WhereThreadsAre DEF Rounds
    <3> QED
      BY <1>0, <1>1, <2>1, <3>1 DEF Hands, Rounds
  <2> QED
    BY <2>2, <2>3, <2>4, <2>5 DEF BinInv
<1> QED
  BY <1>3, <1>4

LEMMA EndThreadInv ==
  ASSUME BinInv, NEW t \in Thread, EndThread(t)
  PROVE  BinInv'
<1>0. TypeOK /\ Barriers /\ Shares /\ Hands
  BY DEF BinInv
<1>1. /\ pc[t] = "stashed" /\ Goto(t, "waiting")
      /\ UNCHANGED <<hash, threads, raced, simple, cuckoo, stashIdxs, next, work, oldVals, tryCount>>
      /\ Thread' = Thread
  BY DEF EndThread, Arrive, Thread
<1>2. /\ pc' \in [Thread -> Places] /\ pc'[t] = "waiting"
      /\ \A u \in Thread : u # t => pc'[u] = pc[u]
  <2>1. "waiting" \in Places
    BY DEF Places
  <2> QED
    BY <1>0, <1>1, <2>1, GoneTo
<1>3. Barriers' /\ remaining' \in (0..threads) \X (0..threads) /\ remaining'[1] = remaining[1]
  BY <1>0, Ending
<1>4. TypeOK'
  BY <1>0, <1>1, <1>2, <1>3 DEF TypeOK
<1>5. Shares'
  BY <1>0, <1>1, <1>2, <1>3 DEF Shares, startIdx, endIdx
<1>6. Hands'
  BY <1>0, <1>1, <1>2 DEF Hands, Rounds
<1> QED
  BY <1>3, <1>4, <1>5, <1>6 DEF BinInv

LEMMA LeaveInv ==
  ASSUME BinInv, NEW t \in Thread, Leave(t)
  PROVE  BinInv'
<1>0. TypeOK /\ Barriers /\ Shares /\ Hands
  BY DEF BinInv
<1>1. /\ pc[t] = "waiting" /\ Goto(t, "done")
      /\ UNCHANGED <<hash, threads, raced, simple, cuckoo, stashIdxs, next, work, oldVals, tryCount, remaining>>
      /\ Thread' = Thread
  BY DEF Leave, Thread
<1>2. /\ "done" \in Places /\ pc' \in [Thread -> Places] /\ pc'[t] = "done"
      /\ \A u \in Thread : u # t => pc'[u] = pc[u]
  <2>1. "done" \in Places
    BY DEF Places
  <2> QED
    BY <1>0, <1>1, <2>1, GoneTo
<1>3. TypeOK'
  BY <1>0, <1>1, <1>2 DEF TypeOK
<1>4. Barriers'
  <2>1. remaining[1] = 0
    BY <1>0, <1>1, WhereThreadsAre
  <2> QED
    BY <1>0, <1>1, <2>1, BarriersKept DEF Taking, Rounds
<1>5. Shares'
  BY <1>0, <1>1, <1>2, SharesKept
<1>6. Hands'
  BY <1>0, <1>1, <1>2 DEF Hands, Rounds
<1> QED
  BY <1>3, <1>4, <1>5, <1>6 DEF BinInv

LEMMA BinInvInit ==
  ASSUME Init
  PROVE  BinInv
<1>1. /\ hash \in HashChoices /\ threads \in ThreadCounts
      /\ simple = [b \in Bin |-> {}] /\ cuckoo = [b \in Bin |-> Empty] /\ stashIdxs = <<>>
      /\ pc = [t \in Thread |-> "insert"] /\ next = [t \in Thread |-> startIdx(t)]
      /\ work = [t \in Thread |-> <<>>] /\ oldVals = [t \in Thread |-> <<>>]
      /\ tryCount = [t \in Thread |-> 0] /\ remaining = <<threads, threads>>
      /\ raced = FALSE
  BY DEF Init
<1>2. threads \in Nat \ {0} /\ MaxTries \in Nat
  BY <1>1, ConstantsOK
<1>3. IsFiniteSet(Thread) /\ Cardinality(Thread) = threads
  BY <1>2, FS_Interval DEF Thread
<1>4. TypeOK
  <2>1. next \in [Thread -> 0..N]
    <3>1. \A t \in Thread : startIdx(t) \in 0..N
      <4>1. N \in Nat
        BY ConstantsOK
      <4> QED
        BY <1>2, <4>1, ShareBounds
    <3> QED
      BY <1>1, <3>1
  <2>2. /\ tryCount \in [Thread -> 0..MaxTries] /\ remaining \in (0..threads) \X (0..threads)
    BY <1>1, <1>2
  <2>3. pc \in [Thread -> Places]
    BY <1>1 DEF Places
  <2>4. /\ work \in [Thread -> Seq(ItemOf)] /\ oldVals \in [Thread -> Seq(ItemOf \cup {Empty})]
        /\ \A t \in Thread : Len(oldVals[t]) <= Len(work[t])
    <3>1. <<>> \in Seq(ItemOf) /\ <<>> \in Seq(ItemOf \cup {Empty}) /\ Len(<<>>) <= Len(<<>>)
      OBVIOUS
    <3> QED
      BY <1>1, <3>1
  <2>5. /\ simple \in [Bin -> SUBSET Numbered] /\ cuckoo \in [Bin -> ItemOf \cup {Empty}]
        /\ stashIdxs \in Seq(Element)
    BY <1>1
  <2> QED
    BY <1>1, <2>1, <2>2, <2>3, <2>4, <2>5 DEF TypeOK
<1>5. Barriers
  <2>1. Inserting = Thread /\ Coming = Thread
    BY <1>1 DEF Inserting, Coming, Taking
  <2>2. remaining[1] = threads /\ remaining[2] = threads /\ threads # 0
    BY <1>1, <1>2
  <2> QED
    BY <1>1, <1>3, <2>1, <2>2 DEF Barriers, Taking
<1>6. Shares
  <2>1. remaining[1] # 0
    BY <1>1, <1>2
  <2>2. \A t \in Thread : startIdx(t) <= startIdx(t) /\ startIdx(t) <= endIdx(t)
    BY <1>2, ShareBounds
  <2> QED
    BY <1>1, <2>1, <2>2 DEF Shares
<1>7. Hands
  BY <1>1 DEF Hands
<1> QED
  BY <1>4, <1>5, <1>6, <1>7 DEF BinInv

LEMMA BinInvThread ==
  ASSUME BinInv, NEW t \in Thread, ThreadStep(t)
  PROVE  BinInv'
BY InsertBatchInv, BeginRoundInv, LoadInv, StoreInv, EndRoundInv, LeaveToStashInv,
   EndInsertInv, InsertStashInv, EndStashInv, EndThreadInv, LeaveInv DEF ThreadStep

LEMMA BinInvStutter ==
  ASSUME BinInv, UNCHANGED vars
  PROVE  BinInv'
<1>1. /\ UNCHANGED <<hash, threads, raced, simple, cuckoo, stashIdxs>>
      /\ UNCHANGED <<pc, next, work, oldVals, tryCount, remaining>>
  BY DEF vars
<1>2. TypeOK /\ Barriers /\ Shares /\ Hands /\ Thread' = Thread
  BY <1>1 DEF BinInv, Thread
<1>3. TypeOK'
  BY <1>1, <1>2 DEF TypeOK
<1>4. Barriers'
  BY <1>1, <1>2 DEF Barriers, Inserting, Coming
<1>5. Shares'
  BY <1>1, <1>2 DEF Shares, startIdx, endIdx
<1>6. Hands'
  BY <1>1, <1>2 DEF Hands
<1> QED
  BY <1>3, <1>4, <1>5, <1>6 DEF BinInv

(* What a step of the whole does to the hashing.                            *)
LEMMA StepsOfHashing ==
  ASSUME [PsiNext]_psiVars
  PROVE  (\E t \in Thread : ThreadStep(t)) \/ UNCHANGED vars
<1>1. CASE SendLast
  BY <1>1 DEF SendLast
<1>2. CASE Receive
  BY <1>2 DEF Receive
<1>3. CASE UNCHANGED psiVars
  BY <1>3 DEF psiVars
<1> QED
  BY <1>1, <1>2, <1>3 DEF PsiNext

LEMMA BinInvAlways == PsiSpec => []BinInv
<1>1. PsiInit => BinInv
  BY BinInvInit DEF PsiInit
<1>2. BinInv /\ [PsiNext]_psiVars => BinInv'
  BY StepsOfHashing, BinInvThread, BinInvStutter
<1> QED
  BY <1>1, <1>2, PTL DEF PsiSpec

(* Hashing keeps its types: no counter of a barrier passes zero, no item    *)
(* leads out of its table, and a thread finds no more items in a round than *)
(* it has put (binSet::hashing2Bins).                                       *)
THEOREM HashingTyped == PsiSpec => []TypeOK
<1>1. BinInv => TypeOK
  BY DEF BinInv
<1> QED
  BY <1>1, BinInvAlways, PTL

-----------------------------------------------------------------------------
(* Items have numbers of the table being filled, and the first table holds  *)
(* what leads there.                                                        *)

LEMMA NumbersOfHands ==
  ASSUME TypeOK, Numbers, NEW t \in Thread, UNCHANGED <<hash, threads, cuckoo>>,
         remaining'[1] = remaining[1], NEW w, work' = Set(work, t, w),
         \A i \in DOMAIN w : w[i][2] < Hashes[Region(t)]
  PROVE  Numbers'
<1>1. Thread' = Thread /\ \A u : Region(u)' = Region(u)
  BY DEF Thread, Region
<1>2. work'[t] = w /\ \A u \in Thread : u # t => work'[u] = work[u]
  BY Typed DEF Set
<1>3. \A x, k : Addr(Main, x, k)' = Addr(Main, x, k)
  BY DEF Addr
<1>4. \A u \in Thread : \A i \in DOMAIN work'[u] : work'[u][i][2] < Hashes[Region(u)]
  BY <1>2 DEF Numbers
<1> QED
  BY <1>1, <1>3, <1>4 DEF Numbers

LEMMA NumbersOfBins ==
  ASSUME TypeOK, Numbers, NEW t \in Thread, UNCHANGED <<hash, threads, remaining, work>>,
         NEW e \in ItemOf, e[2] < Hashes[Region(t)],
         NEW c, c = Addr(Region(t), e[1], e[2]), cuckoo' = Set(cuckoo, c, e)
  PROVE  Numbers'
<1>1. Thread' = Thread /\ \A u : Region(u)' = Region(u)
  BY DEF Thread, Region
<1>2. \A x, k : Addr(Main, x, k)' = Addr(Main, x, k)
  BY DEF Addr
<1>3. e[1] \in Element /\ e[2] \in Function
  BY ItemsAre
<1>4. Region(t) = Main \/ Region(t) = Stash
  BY RegionIs
<1>5. c \in Bin /\ (c < Bins[Main] => Region(t) = Main)
  BY <1>3, <1>4, AddrIs
<1>6. cuckoo'[c] = e /\ \A b \in Bin : b # c => cuckoo'[b] = cuckoo[b]
  BY <1>5, Typed DEF Set
<1>7. ASSUME NEW b \in Bin, cuckoo'[b] # Empty, b < Bins[Main]
      PROVE  cuckoo'[b][2] < Hashes[Main] /\ Addr(Main, cuckoo'[b][1], cuckoo'[b][2]) = b
  <2>1. CASE b = c
    BY <1>5, <1>6, <1>7, <2>1
  <2>2. CASE b # c
    BY <1>6, <1>7, <2>2 DEF Numbers
  <2> QED
    BY <2>1, <2>2
<1>8. \A u \in Thread : \A i \in DOMAIN work'[u] : work'[u][i][2] < Hashes[Region(u)]
  BY DEF Numbers
<1> QED
  BY <1>1, <1>2, <1>7, <1>8 DEF Numbers

LEMMA NumbersUnmoved ==
  ASSUME Numbers, UNCHANGED <<hash, threads, cuckoo, work>>, remaining'[1] = remaining[1]
  PROVE  Numbers'
BY DEF Numbers, Region, Thread, Addr

LEMMA NumbersThread ==
  ASSUME BinInv, Numbers, NEW t \in Thread, ThreadStep(t)
  PROVE  Numbers'
<1>0. TypeOK /\ Barriers /\ Hands
  BY DEF BinInv
<1>1. CASE InsertBatch(t)
  <2>1. PICK n \in Nat \ {0}, w \in Seq(ItemOf) :
          /\ work' = Set(work, t, w) /\ Len(w) = n
          /\ \A i \in 1..n : w[i] = <<next[t] + i - 1, 0>>
    BY <1>1, BatchIs DEF BinInv
  <2>2. PICK h \in Nat \ {0} : h = Hashes[Region(t)]
    BY <1>0, RegionIs
  <2>3. \A i \in DOMAIN w : w[i][2] < h
    BY <2>1
  <2>4. UNCHANGED <<hash, threads, cuckoo>> /\ remaining' = remaining
    BY <1>1 DEF InsertBatch
  <2> QED
    BY <1>0, <2>1, <2>2, <2>3, <2>4, NumbersOfHands
<1>2. CASE BeginRound(t)
  BY <1>2, NumbersUnmoved DEF BeginRound
<1>3. CASE Load(t)
  BY <1>3, NumbersUnmoved DEF Load
<1>4. CASE Store(t)
  <2>1. /\ cuckoo' = Set(cuckoo, PutBin(t), Put(t)) /\ UNCHANGED <<hash, threads, remaining, work>>
        /\ pc[t] = "store"
    BY <1>4 DEF Store, PutBin, Put
  <2>2. Put(t) \in ItemOf /\ Len(oldVals[t]) \in DOMAIN work[t]
    BY <1>0, <2>1, PutIs, HandsTyped DEF Hands
  <2>3. Put(t)[2] < Hashes[Region(t)]
    BY <2>2 DEF Put, Numbers
  <2>4. PICK e \in ItemOf : e = Put(t)
    BY <2>2
  <2>5. PICK c : c = Addr(Region(t), e[1], e[2]) /\ c = PutBin(t)
    BY <2>4 DEF PutBin
  <2> QED
    BY <1>0, <2>1, <2>3, <2>4, <2>5, NumbersOfBins
<1>5. CASE EndRound(t)
  <2>1. /\ work' = Set(work, t, Evicted(t)) /\ UNCHANGED <<hash, threads, cuckoo>>
        /\ remaining' = remaining
    BY <1>5 DEF EndRound
  <2>2. PICK w \in Seq(ItemOf) : \E at : GoesOn(t, w, at)
    BY <1>0, EvictedIs
  <2>3. w = Evicted(t) /\ \A i \in DOMAIN w : w[i][2] < Hashes[Region(t)]
    BY <2>2 DEF GoesOn
  <2> QED
    BY <1>0, <2>1, <2>3, NumbersOfHands
<1>6. CASE LeaveToStash(t)
  <2>1. work' = Set(work, t, <<>>) /\ UNCHANGED <<hash, threads, cuckoo>> /\ remaining' = remaining
    BY <1>6 DEF LeaveToStash
  <2>2. PICK w : w = <<>> /\ DOMAIN w = {}
    OBVIOUS
  <2>3. \A i \in DOMAIN w : w[i][2] < Hashes[Region(t)]
    BY <2>2
  <2> QED
    BY <1>0, <2>1, <2>2, <2>3, NumbersOfHands
<1>7. CASE EndInsert(t)
  <2>1. /\ UNCHANGED <<hash, threads, cuckoo, work>> /\ Thread' = Thread /\ pc[t] = "insert"
    BY <1>7 DEF EndInsert, Arrive, Thread
  <2>2. \A u \in Thread : u # t => pc'[u] = pc[u]
    BY <1>0, <1>7, Typed DEF EndInsert, Goto
  <2>3. remaining'[1] = 0 => \A u \in Thread : pc'[u] = "inserted"
    BY <1>0, <1>7, Arriving
  <2>4. CASE remaining'[1] # 0
    <3>1. remaining[1] # 0
      BY <1>0, <2>1, WhereThreadsAre
    <3>2. \A u : Region(u)' = Region(u)
      BY <2>4, <3>1 DEF Region
    <3> QED
      BY <2>1, <3>2 DEF Numbers, Addr
  <2>5. CASE remaining'[1] = 0
    <3>1. \A u \in Thread : work'[u] = <<>>
      BY <1>0, <2>1, <2>2, <2>3, <2>5 DEF Hands, Rounds
    <3>2. DOMAIN <<>> = {}
      OBVIOUS
    <3> QED
      BY <2>1, <3>1, <3>2 DEF Numbers, Addr
  <2> QED
    BY <2>4, <2>5
<1>8. CASE InsertStash(t)
  <2>1. UNCHANGED <<hash, threads, cuckoo, remaining>> /\ (t = 0 => work' = Set(work, t, Fresh(stashIdxs)))
        /\ (t # 0 => work' = work)
    BY <1>8 DEF InsertStash
  <2>2. CASE t = 0
    <3>1. PICK w \in Seq(ItemOf) : w = Fresh(stashIdxs) /\ \A i \in 1..Len(w) : w[i][2] = 0
      BY <1>0, FreshIs
    <3>2. PICK h \in Nat \ {0} : h = Hashes[Region(t)]
      BY <1>0, RegionIs
    <3>3. \A i \in DOMAIN w : w[i][2] < h
      BY <3>1
    <3> QED
      BY <1>0, <2>1, <2>2, <3>1, <3>2, <3>3, NumbersOfHands
  <2>3. CASE t # 0
    BY <2>1, <2>3, NumbersUnmoved
  <2> QED
    BY <2>2, <2>3
<1>9. CASE EndStash(t)
  BY <1>9, NumbersUnmoved DEF EndStash
<1>10. CASE EndThread(t)
  <2>1. remaining'[1] = remaining[1]
    BY <1>0, <1>10, Ending
  <2> QED
    BY <1>10, <2>1, NumbersUnmoved DEF EndThread, Arrive
<1>11. CASE Leave(t)
  BY <1>11, NumbersUnmoved DEF Leave
<1> QED
  BY <1>1, <1>2, <1>3, <1>4, <1>5, <1>6, <1>7, <1>8, <1>9, <1>10, <1>11 DEF ThreadStep

-----------------------------------------------------------------------------
(* One thread alone: between a load and its store nobody changes the bin.   *)

LEMMA StoresAre ==
  ASSUME BinInv, NEW t \in Thread, ThreadStep(t), ~Load(t)
  PROVE  threads' = threads /\ \A u \in Thread : pc'[u] = "store" => pc[u] = "store" /\ u # t
<1>0. TypeOK /\ pc \in [Thread -> Places]
  BY Typed DEF BinInv
<1>1. ASSUME EndStash(t)
      PROVE  threads' = threads /\ \A u \in Thread : pc'[u] = "store" => pc[u] = "store" /\ u # t
  <2>1. threads' = threads
    BY <1>1 DEF EndStash
  <2>2. CASE work[t] = <<>>
    BY <1>0, <1>1, <2>1, <2>2 DEF EndStash, Goto
  <2>3. CASE work[t] # <<>>
    BY <1>0, <1>1, <2>1, <2>3 DEF EndStash
  <2> QED
    BY <2>2, <2>3
<1>2. ASSUME NEW q \in {"round", "exchange", "insert", "inserted", "stashed", "waiting", "done"},
             Goto(t, q), threads' = threads
      PROVE  \A u \in Thread : pc'[u] = "store" => pc[u] = "store" /\ u # t
  BY <1>0, <1>2 DEF Goto
<1>3. CASE InsertBatch(t)
  BY <1>2, <1>3 DEF InsertBatch
<1>4. CASE BeginRound(t)
  BY <1>2, <1>4 DEF BeginRound
<1>5. CASE Store(t)
  BY <1>2, <1>5 DEF Store
<1>6. CASE EndRound(t)
  BY <1>2, <1>6 DEF EndRound
<1>7. CASE LeaveToStash(t)
  BY <1>2, <1>7 DEF LeaveToStash
<1>8. CASE EndInsert(t)
  BY <1>2, <1>8 DEF EndInsert, Arrive
<1>9. CASE InsertStash(t)
  BY <1>2, <1>9 DEF InsertStash
<1>10. CASE EndThread(t)
  BY <1>2, <1>10 DEF EndThread, Arrive
<1>11. CASE Leave(t)
  BY <1>2, <1>11 DEF Leave
<1> QED
  BY <1>1, <1>3, <1>4, <1>5, <1>6, <1>7, <1>8, <1>9, <1>10, <1>11 DEF ThreadStep

LEMMA AloneThread ==
  ASSUME BinInv, Alone, NEW t \in Thread, ThreadStep(t)
  PROVE  Alone'
<1>0. TypeOK /\ Thread \subseteq Nat
  BY Basics DEF BinInv
<1>1. threads = 1 => \A u \in Thread : u = t
  BY <1>0 DEF Thread
<1>2. CASE ~Load(t)
  <2>1. threads' = threads /\ \A u \in Thread : pc'[u] = "store" => pc[u] = "store" /\ u # t
    BY <1>2, StoresAre
  <2>2. threads = 1 => \A u \in Thread : pc'[u] # "store"
    BY <1>1, <2>1
  <2>3. Thread' = Thread
    BY <2>1 DEF Thread
  <2>4. threads = 1 => ~raced'
    <3>1. CASE Store(t)
      <4>1. pc[t] = "store" /\ raced' = (raced \/ cuckoo[PutBin(t)] # oldVals[t][Len(oldVals[t])])
        BY <3>1 DEF Store, PutBin, Put
      <4> QED
        BY <4>1 DEF Alone
    <3>2. CASE ~Store(t)
      <4>1. raced' = raced
        BY <1>2, <3>2 DEF ThreadStep, InsertBatch, BeginRound, EndRound, LeaveToStash,
           EndInsert, InsertStash, EndStash, EndThread, Leave, Arrive
      <4> QED
        BY <4>1 DEF Alone
    <3> QED
      BY <3>1, <3>2
  <2> QED
    BY <2>1, <2>2, <2>3, <2>4 DEF Alone
<1>3. CASE Load(t)
  <2>1. /\ Len(oldVals[t]) < Len(work[t])
        /\ oldVals' = Set(oldVals, t, Append(oldVals[t], cuckoo[ItemBin(t)]))
        /\ UNCHANGED <<hash, threads, cuckoo, work, remaining, raced>> /\ Thread' = Thread
    BY <1>3 DEF Load, Thread
  <2>2. PICK o \in Seq(ItemOf \cup {Empty}) :
          /\ o = Append(oldVals[t], cuckoo[ItemBin(t)])
          /\ Len(o) = Len(oldVals[t]) + 1
          /\ o[Len(oldVals[t]) + 1] = cuckoo[ItemBin(t)]
    BY <1>0, <2>1, FoundMore
  <2>3. oldVals'[t] = o
    BY <1>0, <2>1, <2>2, Typed DEF Set
  <2>4. Put(t)' = Item(t)
    BY <2>1, <2>2, <2>3 DEF Put, Item
  <2>5. PutBin(t)' = ItemBin(t)
    BY <2>1, <2>4 DEF PutBin, ItemBin, Addr, Region
  <2>6. oldVals'[t][Len(oldVals'[t])] = cuckoo[ItemBin(t)]
    BY <2>2, <2>3
  <2> QED
    BY <1>1, <2>1, <2>5, <2>6 DEF Alone
<1> QED
  BY <1>2, <1>3

-----------------------------------------------------------------------------
(* Where an element is.                                                     *)

BinAt(b) == <<"bin", b>>
ItemAt(t, i) == <<"item", t, i>>
FoundAt(t, i) == <<"found", t, i>>
ListAt(i) == <<"list", i>>

InBin(x, b) == b \in Bin /\ cuckoo[b] # Empty /\ cuckoo[b][1] = x
InItem(x, t, i) == t \in Thread /\ i \in (PutCount(t) + 1)..Len(work[t]) /\ work[t][i][1] = x
InFound(x, t, i) ==
  t \in Thread /\ i \in 1..PutCount(t) /\ oldVals[t][i] # Empty /\ oldVals[t][i][1] = x
InList(x, i) == i \in DOMAIN stashIdxs /\ stashIdxs[i] = x /\ ListWaits

LEMMA PlacesDiffer ==
  /\ \A a, b : BinAt(a) = BinAt(b) <=> a = b
  /\ \A a, b : ListAt(a) = ListAt(b) <=> a = b
  /\ \A t, i, u, j : ItemAt(t, i) = ItemAt(u, j) <=> t = u /\ i = j
  /\ \A t, i, u, j : FoundAt(t, i) = FoundAt(u, j) <=> t = u /\ i = j
  /\ \A b, t, i : BinAt(b) # ItemAt(t, i)
  /\ \A b, t, i : BinAt(b) # FoundAt(t, i)
  /\ \A b, i : BinAt(b) # ListAt(i)
  /\ \A t, i, u, j : ItemAt(t, i) # FoundAt(u, j)
  /\ \A t, i, j : ItemAt(t, i) # ListAt(j)
  /\ \A t, i, j : FoundAt(t, i) # ListAt(j)
<1>1. \A a, b : BinAt(a) = BinAt(b) <=> a = b
  BY DEF BinAt
<1>2. \A a, b : ListAt(a) = ListAt(b) <=> a = b
  BY DEF ListAt
<1>3. \A t, i, u, j : ItemAt(t, i) = ItemAt(u, j) <=> t = u /\ i = j
  BY DEF ItemAt
<1>4. \A t, i, u, j : FoundAt(t, i) = FoundAt(u, j) <=> t = u /\ i = j
  BY DEF FoundAt
<1>5. \A b, t, i : BinAt(b) # ItemAt(t, i) /\ BinAt(b) # FoundAt(t, i)
  BY DEF BinAt, ItemAt, FoundAt
<1>6. \A b, i : BinAt(b) # ListAt(i)
  BY DEF BinAt, ListAt
<1>7. \A t, i, u, j : ItemAt(t, i) # FoundAt(u, j)
  BY DEF ItemAt, FoundAt
<1>8. \A t, i, j : ItemAt(t, i) # ListAt(j) /\ FoundAt(t, i) # ListAt(j)
  BY DEF ItemAt, FoundAt, ListAt
<1> QED
  BY <1>1, <1>2, <1>3, <1>4, <1>5, <1>6, <1>7, <1>8

LEMMA WhereIs ==
  \A x, p : p \in Where(x) <=>
    \/ \E b : p = BinAt(b) /\ InBin(x, b)
    \/ \E t, i : p = ItemAt(t, i) /\ InItem(x, t, i)
    \/ \E t, i : p = FoundAt(t, i) /\ InFound(x, t, i)
    \/ \E i : p = ListAt(i) /\ InList(x, i)
<1> TAKE x, p
<1>1. p \in InTable(x) <=> \E b : p = BinAt(b) /\ InBin(x, b)
  BY DEF InTable, BinAt, InBin
<1>2. p \in NotYetPut(x) <=> \E t, i : p = ItemAt(t, i) /\ InItem(x, t, i)
  BY DEF NotYetPut, ItemAt, InItem
<1>3. p \in FoundInBins(x) <=> \E t, i : p = FoundAt(t, i) /\ InFound(x, t, i)
  BY DEF FoundInBins, FoundAt, InFound
<1>4. p \in OnList(x) <=> \E i : p = ListAt(i) /\ InList(x, i)
  BY DEF OnList, ListAt, InList
<1> QED
  BY <1>1, <1>2, <1>3, <1>4 DEF Where

LEMMA WhereNext ==
  (\A x, p : p \in Where(x) <=>
    \/ \E b : p = BinAt(b) /\ InBin(x, b)
    \/ \E t, i : p = ItemAt(t, i) /\ InItem(x, t, i)
    \/ \E t, i : p = FoundAt(t, i) /\ InFound(x, t, i)
    \/ \E i : p = ListAt(i) /\ InList(x, i))'
  BY WhereIs, PTL

(* The places of one kind.                                                  *)
LEMMA AtBin == \A x, b : BinAt(b) \in Where(x) <=> InBin(x, b)
  BY WhereIs, PlacesDiffer
LEMMA AtItem == \A x, t, i : ItemAt(t, i) \in Where(x) <=> InItem(x, t, i)
  BY WhereIs, PlacesDiffer
LEMMA AtFound == \A x, t, i : FoundAt(t, i) \in Where(x) <=> InFound(x, t, i)
  BY WhereIs, PlacesDiffer
LEMMA AtList == \A x, i : ListAt(i) \in Where(x) <=> InList(x, i)
  BY WhereIs, PlacesDiffer

LEMMA AtBinNext == (\A x, b : BinAt(b) \in Where(x) <=> InBin(x, b))'
  BY AtBin, PTL
LEMMA AtItemNext == (\A x, t, i : ItemAt(t, i) \in Where(x) <=> InItem(x, t, i))'
  BY AtItem, PTL
LEMMA AtFoundNext == (\A x, t, i : FoundAt(t, i) \in Where(x) <=> InFound(x, t, i))'
  BY AtFound, PTL
LEMMA AtListNext == (\A x, i : ListAt(i) \in Where(x) <=> InList(x, i))'
  BY AtList, PTL

(* An element stays in one place when its places are the same, when it goes *)
(* from a to b or from b to c, and when a number of places get new names.   *)
LEMMA Rotated ==
  ASSUME NEW A, NEW B, NEW a, NEW b, NEW c, a # b, b # c, a # c,
         a \notin B, c \notin A, b \in B <=> a \in A, c \in B <=> b \in A,
         \A p : p # a /\ p # b /\ p # c => (p \in B <=> p \in A),
         \A p, q \in A : p = q
  PROVE  (B # {} <=> A # {}) /\ \A p, q \in B : p = q
<1>1. ASSUME NEW p \in B PROVE \E q \in A : q = (IF p = b THEN a ELSE IF p = c THEN b ELSE p)
  BY <1>1
<1>2. ASSUME NEW q \in A PROVE \E p \in B : TRUE
  BY <1>2
<1>3. ASSUME NEW p \in B, NEW q \in B PROVE p = q
  <2>1. (IF p = b THEN a ELSE IF p = c THEN b ELSE p) = (IF q = b THEN a ELSE IF q = c THEN b ELSE q)
    BY <1>1
  <2>2. p # a /\ q # a
    OBVIOUS
  <2> QED
    BY <2>1, <2>2
<1> QED
  BY <1>1, <1>2, <1>3

Renaming(A, B, K, old, new) ==
  /\ \A i, j \in K : old[i] = old[j] => i = j
  /\ \A i \in K : new[i] \in B <=> old[i] \in A
  /\ \A p \in B : (\E i \in K : p = new[i]) \/ (p \in A /\ \A i \in K : p # old[i])
  /\ \A p \in A : (\E i \in K : p = old[i]) \/ p \in B

LEMMA Renamed ==
  ASSUME NEW A, NEW B, NEW K, NEW old, NEW new, Renaming(A, B, K, old, new)
  PROVE  /\ B # {} <=> A # {}
         /\ (\A p, q \in A : p = q) => \A p, q \in B : p = q
<1> USE DEF Renaming
<1>1. B # {} => A # {}
  OBVIOUS
<1>2. A # {} => B # {}
  OBVIOUS
<1>3. ASSUME \A p, q \in A : p = q, NEW p \in B, NEW q \in B PROVE p = q
  <2>1. ASSUME NEW i \in K, p = new[i], NEW j \in K, q = new[j] PROVE p = q
    BY <1>3, <2>1
  <2>2. ASSUME p \in A, q \in A PROVE p = q
    BY <1>3, <2>2
  <2>3. ASSUME NEW i \in K, p = new[i], q \in A, \A j \in K : q # old[j] PROVE p = q
    BY <1>3, <2>3
  <2>4. ASSUME NEW i \in K, q = new[i], p \in A, \A j \in K : p # old[j] PROVE p = q
    BY <1>3, <2>4
  <2> QED
    BY <2>1, <2>2, <2>3, <2>4
<1> QED
  BY <1>1, <1>2, <1>3

PlacedAt(x) == (Begun(x) <=> Where(x) # {}) /\ \A p, q \in Where(x) : p = q

LEMMA PlacedIs == Placed <=> \A x \in Element : PlacedAt(x)
  BY DEF Placed, PlacedAt

LEMMA PlacedIsNext == Placed' <=> \A x \in Element : PlacedAt(x)'
  BY DEF Placed, PlacedAt

LEMMA BegunKept ==
  ASSUME UNCHANGED <<threads, next>>
  PROVE  \A x : Begun(x)' <=> Begun(x)
  BY DEF Begun, Thread, startIdx

(* What is put counts the items found, but for the one being stored.        *)
LEMMA PutCountIs ==
  ASSUME TypeOK, NEW t \in Thread
  PROVE  /\ PutCount(t) \in Int /\ PutCount(t) <= Len(oldVals[t])
         /\ pc[t] = "store" => PutCount(t) = Len(oldVals[t]) - 1
         /\ pc[t] # "store" => PutCount(t) = Len(oldVals[t])
<1>1. PICK l \in Nat : l = Len(oldVals[t])
  BY HandsTyped
<1>2. l - 0 = l /\ l - 1 \in Int /\ l - 1 <= l /\ l \in Int /\ l <= l
  OBVIOUS
<1>3. CASE pc[t] = "store"
  BY <1>1, <1>2, <1>3 DEF PutCount
<1>4. CASE pc[t] # "store"
  BY <1>1, <1>2, <1>4 DEF PutCount
<1> QED
  BY <1>3, <1>4

-----------------------------------------------------------------------------
(* The steps that move nothing, and those that put an item into a bin.      *)

LEMMA Unmoved ==
  ASSUME TypeOK, Placed, UNCHANGED <<threads, cuckoo, stashIdxs, next, work>>,
         ListWaits' <=> ListWaits,
         \A u \in Thread : PutCount(u)' = PutCount(u),
         \A u \in Thread : \A i \in 1..PutCount(u) : oldVals'[u][i] = oldVals[u][i]
  PROVE  Placed'
<1>1. Thread' = Thread
  BY DEF Thread
<1>2. \A x, b : InBin(x, b)' <=> InBin(x, b)
  BY DEF InBin
<1>3. \A x, t, i : InItem(x, t, i)' <=> InItem(x, t, i)
  BY <1>1 DEF InItem
<1>4. \A x, t, i : InFound(x, t, i)' <=> InFound(x, t, i)
  BY <1>1 DEF InFound
<1>5. \A x, i : InList(x, i)' <=> InList(x, i)
  BY DEF InList
<1>6. ASSUME NEW x, NEW p PROVE p \in Where(x)' <=> p \in Where(x)
  BY <1>2, <1>3, <1>4, <1>5, WhereIs, WhereNext
<1>7. \A x : (Where(x)' # {} <=> Where(x) # {})
             /\ ((\A p, q \in Where(x) : p = q) => \A p, q \in Where(x)' : p = q)
  BY <1>6
<1>8. \A x : Begun(x)' <=> Begun(x)
  BY BegunKept
<1> QED
  BY <1>7, <1>8 DEF Placed

LEMMA PutIn ==
  ASSUME TypeOK, Placed, NEW t \in Thread, NEW n \in Nat, NEW c \in Bin,
         UNCHANGED <<threads, stashIdxs, next, work>>, ListWaits' <=> ListWaits,
         n \in 1..Len(work[t]), PutCount(t) = n - 1, PutCount(t)' = n,
         \A u \in Thread : u # t => PutCount(u)' = PutCount(u) /\ oldVals'[u] = oldVals[u],
         \A i \in 1..(n - 1) : oldVals'[t][i] = oldVals[t][i],
         oldVals'[t][n] = cuckoo[c],
         cuckoo' = Set(cuckoo, c, work[t][n])
  PROVE  Placed'
<1>1. Thread' = Thread /\ \A x : Begun(x)' <=> Begun(x)
  BY BegunKept DEF Thread
<1>2. cuckoo'[c] = work[t][n] /\ \A b \in Bin : b # c => cuckoo'[b] = cuckoo[b]
  BY Typed DEF Set
<1>3. PICK l \in Nat : l = Len(work[t]) /\ n \in 1..l /\ work[t][n] # Empty
  BY HandsTyped, ItemsAre
<1>4. ASSUME NEW x
      PROVE  (Where(x)' # {} <=> Where(x) # {})
             /\ ((\A p, q \in Where(x) : p = q) => \A p, q \in Where(x)' : p = q)
  <2> DEFINE a == ItemAt(t, n)
             b == BinAt(c)
             d == FoundAt(t, n)
  <2>1. a # b /\ b # d /\ a # d
    BY PlacesDiffer
  <2>2. a \notin Where(x)'
    <3>1. ~InItem(x, t, n)'
      BY <1>3 DEF InItem
    <3> QED
      BY <3>1, AtItemNext
  <2>3. d \notin Where(x)
    <3>1. ~InFound(x, t, n)
      BY DEF InFound
    <3> QED
      BY <3>1, AtFound
  <2>4. b \in Where(x)' <=> a \in Where(x)
    <3>1. InBin(x, c)' <=> work[t][n][1] = x
      BY <1>2, <1>3 DEF InBin
    <3>2. InItem(x, t, n) <=> work[t][n][1] = x
      BY <1>3 DEF InItem
    <3> QED
      BY <3>1, <3>2, AtBinNext, AtItem
  <2>5. d \in Where(x)' <=> b \in Where(x)
    <3>1. InFound(x, t, n)' <=> cuckoo[c] # Empty /\ cuckoo[c][1] = x
      BY <1>1, <1>3 DEF InFound
    <3>2. InBin(x, c) <=> cuckoo[c] # Empty /\ cuckoo[c][1] = x
      BY DEF InBin
    <3> QED
      BY <3>1, <3>2, AtBin, AtFoundNext
  <2>6. ASSUME NEW p, p # a, p # b, p # d PROVE p \in Where(x)' <=> p \in Where(x)
    <3>1. \A e : e # c => (InBin(x, e)' <=> InBin(x, e))
      BY <1>2 DEF InBin
    <3>2. ASSUME NEW u, NEW i, u # t \/ i # n PROVE InItem(x, u, i)' <=> InItem(x, u, i)
      <4>1. CASE u = t
        <5>1. i # n => (i \in n..l <=> i \in (n + 1)..l)
          BY <1>3
        <5> QED
          BY <1>1, <1>3, <3>2, <4>1, <5>1 DEF InItem
      <4>2. CASE u # t
        BY <1>1, <4>2 DEF InItem
      <4> QED
        BY <4>1, <4>2
    <3>3. ASSUME NEW u, NEW i, u # t \/ i # n PROVE InFound(x, u, i)' <=> InFound(x, u, i)
      <4>1. CASE u = t
        <5>1. i # n => (i \in 1..n <=> i \in 1..(n - 1))
          BY <1>3
        <5> QED
          BY <1>1, <1>3, <3>3, <4>1, <5>1 DEF InFound
      <4>2. CASE u # t
        BY <1>1, <4>2 DEF InFound
      <4> QED
        BY <4>1, <4>2
    <3>4. \A i : InList(x, i)' <=> InList(x, i)
      BY DEF InList
    <3> QED
      BY <2>6, <3>1, <3>2, <3>3, <3>4, WhereIs, WhereNext
  <2> HIDE DEF a, b, d
  <2> QED
    BY <2>1, <2>2, <2>3, <2>4, <2>5, <2>6, Rotated
<1> QED
  BY <1>1, <1>4 DEF Placed

LEMMA FoundIs ==
  ASSUME TypeOK, NEW t \in Thread, NEW o, oldVals' = Set(oldVals, t, o)
  PROVE  /\ oldVals'[t] = o /\ \A u \in Thread : u # t => oldVals'[u] = oldVals[u]
         /\ o = oldVals[t] => oldVals' = oldVals
<1>1. PICK S : oldVals \in [Thread -> S]
  BY Typed
<1> QED
  BY <1>1 DEF Set

LEMMA WorkIs ==
  ASSUME TypeOK, NEW t \in Thread, NEW w, work' = Set(work, t, w)
  PROVE  work'[t] = w /\ \A u \in Thread : u # t => work'[u] = work[u]
<1>1. PICK S : work \in [Thread -> S]
  BY Typed
<1> QED
  BY <1>1 DEF Set

LEMMA ListWaitsKept ==
  ASSUME TypeOK, NEW t \in Thread, NEW q \in Places, Goto(t, q), remaining'[1] = remaining[1],
         t = 0 => (pc[t] = "inserted" <=> q = "inserted")
  PROVE  ListWaits' <=> ListWaits
<1>1. pc'[t] = q /\ \A u \in Thread : u # t => pc'[u] = pc[u]
  BY GoneTo
<1>2. 0 \in Thread
  BY Basics
<1> QED
  BY <1>1, <1>2 DEF ListWaits

LEMMA PutCountKept ==
  ASSUME TypeOK, NEW t \in Thread, NEW q \in Places, Goto(t, q),
         NEW u \in Thread, oldVals'[u] = oldVals[u],
         u = t => pc[t] # "store" /\ q # "store"
  PROVE  PutCount(u)' = PutCount(u)
<1>1. pc'[t] = q /\ \A v \in Thread : v # t => pc'[v] = pc[v]
  BY GoneTo
<1>2. pc'[u] = "store" <=> pc[u] = "store"
  BY <1>1
<1> QED
  BY <1>2 DEF PutCount

(* A thread goes on without moving anything.                                *)
LEMMA MovesNothing ==
  ASSUME BinInv, Placed, NEW t \in Thread, NEW q \in Places, Goto(t, q),
         UNCHANGED <<threads, cuckoo, stashIdxs, next, work, oldVals>>, remaining'[1] = remaining[1],
         t = 0 => (pc[t] = "inserted" <=> q = "inserted"), pc[t] # "store", q # "store"
  PROVE  Placed'
<1>1. TypeOK
  BY DEF BinInv
<1>2. ListWaits' <=> ListWaits
  BY <1>1, ListWaitsKept
<1>3. \A u \in Thread : PutCount(u)' = PutCount(u)
  BY <1>1, PutCountKept
<1> QED
  BY <1>1, <1>2, <1>3, Unmoved

LEMMA PlacedBeginRound ==
  ASSUME BinInv, Placed, NEW t \in Thread, BeginRound(t)
  PROVE  Placed'
<1>1. TypeOK /\ oldVals[t] = <<>>
  BY DEF BinInv, Hands, BeginRound
<1>2. oldVals' = oldVals
  <2>1. PICK o : o = <<>> /\ oldVals' = Set(oldVals, t, o)
    BY DEF BeginRound
  <2> QED
    BY <1>1, <2>1, FoundIs
<1>3. /\ UNCHANGED <<threads, cuckoo, stashIdxs, next, work>> /\ remaining' = remaining
      /\ pc[t] = "round" /\ Goto(t, "exchange")
  BY DEF BeginRound
<1>4. "exchange" \in Places
  BY DEF Places
<1> QED
  BY <1>2, <1>3, <1>4, MovesNothing

LEMMA PlacedLoad ==
  ASSUME BinInv, Placed, NEW t \in Thread, Load(t)
  PROVE  Placed'
<1>1. /\ TypeOK /\ pc[t] = "exchange" /\ Len(oldVals[t]) < Len(work[t])
      /\ oldVals' = Set(oldVals, t, Append(oldVals[t], cuckoo[ItemBin(t)]))
      /\ UNCHANGED <<threads, cuckoo, stashIdxs, next, work>> /\ remaining' = remaining
      /\ Goto(t, "store")
  BY DEF BinInv, Load
<1>2. "store" \in Places
  BY DEF Places
<1>3. ListWaits' <=> ListWaits
  BY <1>1, <1>2, ListWaitsKept
<1>4. PICK o \in Seq(ItemOf \cup {Empty}) :
        /\ o = Append(oldVals[t], cuckoo[ItemBin(t)]) /\ Len(o) = Len(oldVals[t]) + 1
        /\ \A i \in 1..Len(oldVals[t]) : o[i] = oldVals[t][i]
  BY <1>1, FoundMore
<1>5. oldVals'[t] = o /\ \A u \in Thread : u # t => oldVals'[u] = oldVals[u]
  BY <1>1, <1>4, FoundIs
<1>6. pc'[t] = "store"
  BY <1>1, <1>2, GoneTo
<1>7. PICK l \in Nat : l = Len(oldVals[t]) /\ (l + 1) - 1 = l
  BY <1>1, HandsTyped
<1>8. PutCount(t) = l /\ PutCount(t)' = l
  <2>1. PutCount(t) = l
    BY <1>1, <1>7, PutCountIs
  <2>2. Len(oldVals'[t]) = l + 1
    BY <1>4, <1>5, <1>7
  <2>3. PutCount(t)' = l
    BY <1>6, <1>7, <2>2 DEF PutCount
  <2> QED
    BY <2>1, <2>3
<1>9. \A u \in Thread : u # t => PutCount(u)' = PutCount(u)
  BY <1>1, <1>2, <1>5, PutCountKept
<1>10. \A u \in Thread : \A i \in 1..PutCount(u) : oldVals'[u][i] = oldVals[u][i]
  BY <1>4, <1>5, <1>7, <1>8
<1>11. \A u \in Thread : PutCount(u)' = PutCount(u)
  BY <1>8, <1>9
<1> QED
  BY <1>1, <1>3, <1>10, <1>11, Unmoved

(* The item found is in the thread's hands once its store replaced it.      *)
LEMMA PlacedStore ==
  ASSUME BinInv, Placed, NEW t \in Thread, Store(t), ~raced'
  PROVE  Placed'
<1>1. /\ TypeOK /\ pc[t] = "store" /\ oldVals[t] # <<>>
      /\ cuckoo' = Set(cuckoo, PutBin(t), Put(t)) /\ Goto(t, "exchange")
      /\ UNCHANGED <<threads, stashIdxs, next, work>> /\ UNCHANGED <<oldVals, remaining>>
      /\ cuckoo[PutBin(t)] = oldVals[t][Len(oldVals[t])]
  BY DEF BinInv, Hands, Store, PutBin, Put
<1>2. "exchange" \in Places
  BY DEF Places
<1>3. ListWaits' <=> ListWaits
  BY <1>1, <1>2, ListWaitsKept
<1>4. pc'[t] = "exchange"
  BY <1>1, <1>2, GoneTo
<1>5. PICK n \in Nat, c \in Bin :
        n = Len(oldVals[t]) /\ n \in 1..Len(work[t]) /\ c = PutBin(t)
  BY <1>1, PutIs, HandsTyped
<1>6. PutCount(t) = n - 1
  BY <1>1, <1>5, PutCountIs
<1>7. PutCount(t)' = n
  <2>1. n - 0 = n
    OBVIOUS
  <2> QED
    BY <1>1, <1>4, <1>5, <2>1 DEF PutCount
<1>8. \A u \in Thread : u # t => PutCount(u)' = PutCount(u)
  BY <1>1, <1>2, PutCountKept
<1>9. cuckoo' = Set(cuckoo, c, work[t][n])
  BY <1>1, <1>5 DEF Put
<1>10. oldVals'[t][n] = cuckoo[c]
  BY <1>1, <1>5
<1> QED
  BY <1>1, <1>3, <1>5, <1>6, <1>7, <1>8, <1>9, <1>10, PutIn

(* The other threads' hands do not change.                                  *)
OthersKeep(t) ==
  \A u \in Thread : u # t =>
    work'[u] = work[u] /\ oldVals'[u] = oldVals[u] /\ PutCount(u)' = PutCount(u)

LEMMA OthersIn ==
  ASSUME NEW t \in Thread, OthersKeep(t), UNCHANGED threads
  PROVE  \A x, u, i : u # t =>
           (InItem(x, u, i)' <=> InItem(x, u, i)) /\ (InFound(x, u, i)' <=> InFound(x, u, i))
BY DEF OthersKeep, InItem, InFound, Thread

LEMMA LenOfNone == Len(<<>>) = 0 /\ DOMAIN <<>> = {}
  OBVIOUS

(* A round ends: what was found becomes what is to be put.                  *)
LEMMA PlacedEndRound ==
  ASSUME BinInv, Placed, NEW t \in Thread, EndRound(t)
  PROVE  Placed'
<1>1. /\ TypeOK /\ pc[t] = "exchange" /\ Len(oldVals[t]) = Len(work[t])
      /\ UNCHANGED <<threads, cuckoo, stashIdxs, next>> /\ remaining' = remaining
      /\ Goto(t, "round")
  BY DEF BinInv, EndRound
<1>2. PICK w \in Seq(ItemOf) : \E at : GoesOn(t, w, at)
  BY <1>1, EvictedIs
<1>a. PICK at : GoesOn(t, w, at)
  BY <1>2
<1>3. work' = Set(work, t, w) /\ \E o : o = <<>> /\ oldVals' = Set(oldVals, t, o)
  BY <1>a DEF EndRound, GoesOn
<1>4. work'[t] = w /\ oldVals'[t] = <<>>
  BY <1>1, <1>3, WorkIs, FoundIs
<1>5. "round" \in Places
  BY DEF Places
<1>6. pc'[t] = "round" /\ (ListWaits' <=> ListWaits)
  BY <1>1, <1>5, GoneTo, ListWaitsKept
<1>7. OthersKeep(t)
  BY <1>1, <1>3, <1>5, WorkIs, FoundIs, PutCountKept DEF OthersKeep
<1>8. PICK n \in Nat, m \in Nat :
        n = Len(oldVals[t]) /\ n = Len(work[t]) /\ PutCount(t) = n /\ m = Len(w)
  BY <1>1, HandsTyped, PutCountIs
<1>9. PutCount(t)' = 0
  BY <1>4, <1>6, LenOfNone DEF PutCount
<1>10. ASSUME NEW x
       PROVE  (Where(x)' # {} <=> Where(x) # {})
              /\ ((\A p, q \in Where(x) : p = q) => \A p, q \in Where(x)' : p = q)
  <2>0. PICK K, old, new :
          /\ K = 1..m /\ old = [i \in K |-> FoundAt(t, at[i])] /\ new = [i \in K |-> ItemAt(t, i)]
    OBVIOUS
  <2>1. \A i \in K : old[i] = FoundAt(t, at[i]) /\ new[i] = ItemAt(t, i)
    BY <2>0
  <2>a. \A i \in K :
         /\ \A b : BinAt(b) # old[i]
         /\ \A u, j : ItemAt(u, j) # old[i]
         /\ \A u, j : u # t => FoundAt(u, j) # old[i]
         /\ \A j : ListAt(j) # old[i]
    BY <2>1, PlacesDiffer
  <2>2. \A i, j \in K : old[i] = old[j] => i = j
    <3>1. \A i, j \in K : old[i] = old[j] => at[i] = at[j]
      BY <2>1, PlacesDiffer
    <3>2. \A i, j \in K : at[i] = at[j] => i = j
      BY <1>a, <1>8, <2>0 DEF GoesOn
    <3> QED
      BY <3>1, <3>2
  <2>3. \A i : InItem(x, t, i)' <=> i \in K /\ w[i][1] = x
    <3>1. (0 + 1)..m = K
      BY <2>0
    <3> QED
      BY <1>1, <1>4, <1>8, <1>9, <3>1 DEF InItem, Thread
  <2>4. \A i : InFound(x, t, i) <=> i \in 1..n /\ oldVals[t][i] # Empty /\ oldVals[t][i][1] = x
    BY <1>8 DEF InFound
  <2>5. \A i : ~InItem(x, t, i) /\ ~InFound(x, t, i)'
    <3>1. (n + 1)..n = {} /\ 1..0 = {}
      BY <1>8
    <3> QED
      BY <1>8, <1>9, <3>1 DEF InItem, InFound
  <2>6. \A i \in K : new[i] \in Where(x)' <=> old[i] \in Where(x)
    <3>1. ASSUME NEW i \in K PROVE InFound(x, t, at[i]) <=> w[i][1] = x
      <4>1. i \in 1..Len(w)
        BY <1>8, <2>0
      <4>2. at[i] \in 1..n /\ oldVals[t][at[i]] # Empty /\ w[i][1] = oldVals[t][at[i]][1]
        BY <1>a, <1>8, <4>1 DEF GoesOn
      <4> QED
        BY <2>4, <4>2
    <3> QED
      BY <2>1, <2>3, <3>1, AtItemNext, AtFound
  <2>7. \A b, i : (InBin(x, b)' <=> InBin(x, b)) /\ (InList(x, i)' <=> InList(x, i))
    BY <1>1, <1>6 DEF InBin, InList
  <2>8. \A u, i : u # t =>
          (InItem(x, u, i)' <=> InItem(x, u, i)) /\ (InFound(x, u, i)' <=> InFound(x, u, i))
    BY <1>1, <1>7, OthersIn
  <2>9. ASSUME NEW p \in Where(x)'
        PROVE  (\E i \in K : p = new[i]) \/ (p \in Where(x) /\ \A i \in K : p # old[i])
    <3>1. CASE \E b : p = BinAt(b) /\ InBin(x, b)'
      BY <2>a, <2>7, <3>1, AtBin
    <3>2. CASE \E u, i : p = ItemAt(u, i) /\ InItem(x, u, i)'
      BY <2>a, <2>1, <2>3, <2>8, <3>2, AtItem
    <3>3. CASE \E u, i : p = FoundAt(u, i) /\ InFound(x, u, i)'
      BY <2>a, <2>5, <2>8, <3>3, AtFound
    <3>4. CASE \E i : p = ListAt(i) /\ InList(x, i)'
      BY <2>a, <2>7, <3>4, AtList
    <3> QED
      BY <3>1, <3>2, <3>3, <3>4, WhereNext
  <2>10. ASSUME NEW p \in Where(x)
         PROVE  (\E i \in K : p = old[i]) \/ p \in Where(x)'
    <3>1. CASE \E b : p = BinAt(b) /\ InBin(x, b)
      BY <2>7, <3>1, AtBinNext
    <3>2. CASE \E u, i : p = ItemAt(u, i) /\ InItem(x, u, i)
      BY <2>5, <2>8, <3>2, AtItemNext
    <3>3. CASE \E u, i : p = FoundAt(u, i) /\ InFound(x, u, i)
      <4>1. PICK u, k : p = FoundAt(u, k) /\ InFound(x, u, k)
        BY <3>3
      <4>2. CASE u = t
        <5>1. \E i \in K : at[i] = k
          BY <1>a, <1>8, <2>0, <2>4, <4>1, <4>2 DEF GoesOn
        <5> QED
          BY <2>1, <4>1, <4>2, <5>1
      <4>3. CASE u # t
        BY <2>8, <4>1, <4>3, AtFoundNext
      <4> QED
        BY <4>2, <4>3
    <3>4. CASE \E i : p = ListAt(i) /\ InList(x, i)
      BY <2>7, <3>4, AtListNext
    <3> QED
      BY <3>1, <3>2, <3>3, <3>4, WhereIs
  <2>11. Renaming(Where(x), Where(x)', K, old, new)
    BY <2>2, <2>6, <2>9, <2>10 DEF Renaming
  <2> QED
    BY <2>11, Renamed
<1>11. \A x : Begun(x)' <=> Begun(x)
  BY <1>1, BegunKept
<1> QED
  BY <1>10, <1>11 DEF Placed

(* What a thread has left goes to the list.                                 *)
LEMMA PlacedLeaveToStash ==
  ASSUME BinInv, Placed, NEW t \in Thread, LeaveToStash(t)
  PROVE  Placed'
<1>1. /\ TypeOK /\ pc[t] = "round" /\ oldVals[t] = <<>> /\ Region(t) = Main
      /\ UNCHANGED <<threads, cuckoo, next, oldVals>> /\ remaining' = remaining
      /\ Goto(t, "insert")
  BY DEF BinInv, Hands, LeaveToStash
<1>2. PICK q \in Seq(Element), l \in Nat : Left(t, q, l)
  BY <1>1, ListIs
<1>3. /\ stashIdxs' = q /\ DOMAIN stashIdxs = 1..l
      /\ \E w : w = <<>> /\ work' = Set(work, t, w)
  BY <1>2 DEF LeaveToStash, Left
<1>4. work'[t] = <<>>
  BY <1>1, <1>3, WorkIs
<1>5. "insert" \in Places
  BY DEF Places
<1>6. pc'[t] = "insert" /\ ListWaits /\ ListWaits'
  BY <1>1, <1>5, GoneTo, RegionIs DEF ListWaits
<1>7. OthersKeep(t)
  BY <1>1, <1>3, <1>5, WorkIs, PutCountKept DEF OthersKeep
<1>8. PICK m \in Nat : m = Len(work[t])
  BY <1>1, HandsTyped
<1>9. PutCount(t) = 0 /\ PutCount(t)' = 0
  BY <1>1, <1>6, LenOfNone DEF PutCount
<1>10. ASSUME NEW x
       PROVE  (Where(x)' # {} <=> Where(x) # {})
              /\ ((\A r, s \in Where(x) : r = s) => \A r, s \in Where(x)' : r = s)
  <2>0. PICK K, old, new :
          /\ K = 1..m /\ old = [i \in K |-> ItemAt(t, i)] /\ new = [i \in K |-> ListAt(l + i)]
    OBVIOUS
  <2>1. \A i \in K : old[i] = ItemAt(t, i) /\ new[i] = ListAt(l + i)
    BY <2>0
  <2>a. \A i \in K :
         /\ \A b : BinAt(b) # old[i]
         /\ \A u, j : u # t => ItemAt(u, j) # old[i]
         /\ \A u, j : FoundAt(u, j) # old[i]
         /\ \A j : ListAt(j) # old[i]
    BY <2>1, PlacesDiffer
  <2>2. \A i, j \in K : old[i] = old[j] => i = j
    BY <2>1, PlacesDiffer
  <2>3. \A i : InItem(x, t, i) <=> i \in K /\ work[t][i][1] = x
    <3>1. (0 + 1)..m = K
      BY <2>0
    <3> QED
      BY <1>8, <1>9, <3>1 DEF InItem
  <2>4. \A i : /\ InList(x, i) <=> i \in 1..l /\ stashIdxs[i] = x
               /\ InList(x, i)' <=> i \in 1..(l + m) /\ q[i] = x
    BY <1>2, <1>3, <1>6, <1>8 DEF InList, Left
  <2>5. \A i : ~InItem(x, t, i)' /\ ~InFound(x, t, i) /\ ~InFound(x, t, i)'
    <3>1. (0 + 1)..0 = {} /\ 1..0 = {}
      OBVIOUS
    <3> QED
      BY <1>4, <1>9, <3>1, LenOfNone DEF InItem, InFound
  <2>6. ASSUME NEW i \in K PROVE InList(x, l + i)' <=> work[t][i][1] = x
    <3>1. l + i \in 1..(l + m)
      BY <2>0
    <3>2. q[l + i] = work[t][i][1]
      BY <1>2, <1>8, <2>0 DEF Left
    <3> QED
      BY <2>4, <3>1, <3>2
  <2>7. \A i \in K : new[i] \in Where(x)' <=> old[i] \in Where(x)
    BY <2>1, <2>3, <2>6, AtItem, AtListNext
  <2>8. ASSUME NEW i PROVE InList(x, i)' <=> InList(x, i) \/ (\E j \in K : i = l + j /\ work[t][j][1] = x)
    <3>1. i \in 1..l => i \in 1..(l + m) /\ q[i] = stashIdxs[i]
      BY <1>2 DEF Left
    <3>2. i \in 1..(l + m) => i \in 1..l \/ \E j \in K : i = l + j
      <4>1. i \in 1..(l + m) /\ i \notin 1..l => (i - l) \in 1..m /\ i = l + (i - l)
        OBVIOUS
      <4> QED
        BY <2>0, <4>1
    <3> QED
      BY <2>4, <2>6, <3>1, <3>2
  <2>9. \A b : InBin(x, b)' <=> InBin(x, b)
    BY <1>1 DEF InBin
  <2>10. \A u, i : u # t =>
           (InItem(x, u, i)' <=> InItem(x, u, i)) /\ (InFound(x, u, i)' <=> InFound(x, u, i))
    BY <1>1, <1>7, OthersIn
  <2>11. ASSUME NEW p \in Where(x)'
         PROVE  (\E i \in K : p = new[i]) \/ (p \in Where(x) /\ \A i \in K : p # old[i])
    <3>1. CASE \E b : p = BinAt(b) /\ InBin(x, b)'
      BY <2>a, <2>9, <3>1, AtBin
    <3>2. CASE \E u, i : p = ItemAt(u, i) /\ InItem(x, u, i)'
      BY <2>a, <2>5, <2>10, <3>2, AtItem
    <3>3. CASE \E u, i : p = FoundAt(u, i) /\ InFound(x, u, i)'
      BY <2>a, <2>5, <2>10, <3>3, AtFound
    <3>4. CASE \E i : p = ListAt(i) /\ InList(x, i)'
      <4>1. PICK i : p = ListAt(i) /\ InList(x, i)'
        BY <3>4
      <4>2. CASE InList(x, i)
        BY <2>a, <4>1, <4>2, AtList
      <4>3. CASE ~InList(x, i)
        <5>1. PICK j \in K : i = l + j
          BY <2>8, <4>1, <4>3
        <5> QED
          BY <2>1, <4>1, <5>1
      <4> QED
        BY <4>2, <4>3
    <3> QED
      BY <3>1, <3>2, <3>3, <3>4, WhereNext
  <2>12. ASSUME NEW p \in Where(x)
         PROVE  (\E i \in K : p = old[i]) \/ p \in Where(x)'
    <3>1. CASE \E b : p = BinAt(b) /\ InBin(x, b)
      BY <2>9, <3>1, AtBinNext
    <3>2. CASE \E u, i : p = ItemAt(u, i) /\ InItem(x, u, i)
      BY <2>1, <2>3, <2>10, <3>2, AtItemNext
    <3>3. CASE \E u, i : p = FoundAt(u, i) /\ InFound(x, u, i)
      BY <2>5, <2>10, <3>3, AtFoundNext
    <3>4. CASE \E i : p = ListAt(i) /\ InList(x, i)
      BY <2>8, <3>4, AtListNext
    <3> QED
      BY <3>1, <3>2, <3>3, <3>4, WhereIs
  <2>13. Renaming(Where(x), Where(x)', K, old, new)
    BY <2>2, <2>7, <2>11, <2>12 DEF Renaming
  <2> QED
    BY <2>13, Renamed
<1>11. \A x : Begun(x)' <=> Begun(x)
  BY <1>1, BegunKept
<1> QED
  BY <1>10, <1>11 DEF Placed

(* The first thread takes the list.                                         *)
LEMMA PlacedInsertStash ==
  ASSUME BinInv, Placed, NEW t \in Thread, InsertStash(t)
  PROVE  Placed'
<1>1. /\ TypeOK /\ pc[t] = "inserted" /\ oldVals[t] = <<>> /\ work[t] = <<>>
      /\ UNCHANGED <<threads, cuckoo, stashIdxs, next, oldVals>> /\ remaining' = remaining
      /\ remaining[1] = 0
  BY DEF BinInv, Hands, InsertStash, Rounds
<1>2. "round" \in Places /\ "stashed" \in Places
  BY DEF Places
<1>3. CASE t # 0
  <2>1. work' = work /\ Goto(t, "stashed")
    BY <1>3 DEF InsertStash
  <2> QED
    BY <1>1, <1>2, <1>3, <2>1, MovesNothing
<1>4. CASE t = 0
  <2>1. Goto(t, "round")
    BY <1>4 DEF InsertStash
  <2>2. PICK w \in Seq(ItemOf), m \in Nat :
          /\ work' = Set(work, t, w) /\ m = Len(w) /\ DOMAIN stashIdxs = 1..m
          /\ \A i \in 1..m : w[i][1] = stashIdxs[i]
    <3>1. PICK w \in Seq(ItemOf) :
            /\ w = Fresh(stashIdxs) /\ DOMAIN stashIdxs = 1..Len(w)
            /\ \A i \in 1..Len(w) : w[i][1] = stashIdxs[i]
      BY <1>1, FreshIs
    <3>2. work' = Set(work, t, w) /\ Len(w) \in Nat
      BY <1>4, <3>1 DEF InsertStash
    <3> QED
      BY <3>1, <3>2
  <2>3. work'[t] = w
    BY <1>1, <2>2, WorkIs
  <2>4. pc'[t] = "round" /\ ListWaits /\ ~ListWaits'
    BY <1>1, <1>2, <1>4, <2>1, GoneTo DEF ListWaits
  <2>5. OthersKeep(t)
    BY <1>1, <1>2, <2>1, <2>2, WorkIs, PutCountKept DEF OthersKeep
  <2>6. PutCount(t) = 0 /\ PutCount(t)' = 0
    BY <1>1, <2>4, LenOfNone DEF PutCount
  <2>7. ASSUME NEW x
        PROVE  (Where(x)' # {} <=> Where(x) # {})
               /\ ((\A r, s \in Where(x) : r = s) => \A r, s \in Where(x)' : r = s)
    <3>0. PICK K, old, new :
            /\ K = 1..m /\ old = [i \in K |-> ListAt(i)] /\ new = [i \in K |-> ItemAt(t, i)]
      OBVIOUS
    <3>1. \A i \in K : old[i] = ListAt(i) /\ new[i] = ItemAt(t, i)
      BY <3>0
    <3>a. \A i \in K :
           /\ \A b : BinAt(b) # old[i]
           /\ \A u, j : ItemAt(u, j) # old[i]
           /\ \A u, j : FoundAt(u, j) # old[i]
      BY <3>1, PlacesDiffer
    <3>2. \A i, j \in K : old[i] = old[j] => i = j
      BY <3>1, PlacesDiffer
    <3>3. \A i : InItem(x, t, i)' <=> i \in K /\ stashIdxs[i] = x
      <4>1. (0 + 1)..m = K
        BY <3>0
      <4> QED
        BY <1>1, <2>2, <2>3, <2>6, <3>0, <4>1 DEF InItem, Thread
    <3>4. \A i : (InList(x, i) <=> i \in K /\ stashIdxs[i] = x) /\ ~InList(x, i)'
      BY <2>2, <2>4, <3>0 DEF InList
    <3>5. \A i : ~InItem(x, t, i) /\ ~InFound(x, t, i) /\ ~InFound(x, t, i)'
      <4>1. (0 + 1)..0 = {} /\ 1..0 = {}
        OBVIOUS
      <4> QED
        BY <1>1, <2>6, <4>1, LenOfNone DEF InItem, InFound
    <3>6. \A i \in K : new[i] \in Where(x)' <=> old[i] \in Where(x)
      BY <3>1, <3>3, <3>4, AtItemNext, AtList
    <3>7. \A b : InBin(x, b)' <=> InBin(x, b)
      BY <1>1 DEF InBin
    <3>8. \A u, i : u # t =>
            (InItem(x, u, i)' <=> InItem(x, u, i)) /\ (InFound(x, u, i)' <=> InFound(x, u, i))
      BY <1>1, <2>5, OthersIn
    <3>9. ASSUME NEW p \in Where(x)'
          PROVE  (\E i \in K : p = new[i]) \/ (p \in Where(x) /\ \A i \in K : p # old[i])
      <4>1. CASE \E b : p = BinAt(b) /\ InBin(x, b)'
        BY <3>a, <3>7, <4>1, AtBin
      <4>2. CASE \E u, i : p = ItemAt(u, i) /\ InItem(x, u, i)'
        <5>1. PICK u, i : p = ItemAt(u, i) /\ InItem(x, u, i)'
          BY <4>2
        <5>2. CASE u = t
          BY <3>1, <3>3, <5>1, <5>2
        <5>3. CASE u # t
          <6>1. p \in Where(x)
            BY <3>8, <5>1, <5>3, AtItem
          <6>2. \A j \in K : p # old[j]
            BY <3>a, <5>1
          <6> QED
            BY <6>1, <6>2
        <5> QED
          BY <5>2, <5>3
      <4>3. CASE \E u, i : p = FoundAt(u, i) /\ InFound(x, u, i)'
        BY <3>a, <3>5, <3>8, <4>3, AtFound
      <4>4. CASE \E i : p = ListAt(i) /\ InList(x, i)'
        BY <3>4, <4>4
      <4> QED
        BY <4>1, <4>2, <4>3, <4>4, WhereNext
    <3>10. ASSUME NEW p \in Where(x)
           PROVE  (\E i \in K : p = old[i]) \/ p \in Where(x)'
      <4>1. CASE \E b : p = BinAt(b) /\ InBin(x, b)
        BY <3>7, <4>1, AtBinNext
      <4>2. CASE \E u, i : p = ItemAt(u, i) /\ InItem(x, u, i)
        BY <3>5, <3>8, <4>2, AtItemNext
      <4>3. CASE \E u, i : p = FoundAt(u, i) /\ InFound(x, u, i)
        BY <3>5, <3>8, <4>3, AtFoundNext
      <4>4. CASE \E i : p = ListAt(i) /\ InList(x, i)
        BY <3>1, <3>4, <4>4
      <4> QED
        BY <4>1, <4>2, <4>3, <4>4, WhereIs
    <3>11. Renaming(Where(x), Where(x)', K, old, new)
      BY <3>2, <3>6, <3>9, <3>10 DEF Renaming
    <3> QED
      BY <3>11, Renamed
  <2>8. \A x : Begun(x)' <=> Begun(x)
    BY <1>1, BegunKept
  <2> QED
    BY <2>7, <2>8 DEF Placed
<1> QED
  BY <1>3, <1>4

(* A batch begins elements that were nowhere: they belong to no other       *)
(* thread's share.                                                          *)
LEMMA PlacedInsertBatch ==
  ASSUME BinInv, Placed, NEW t \in Thread, InsertBatch(t)
  PROVE  Placed'
<1>1. /\ TypeOK /\ Shares /\ pc[t] = "insert" /\ work[t] = <<>> /\ oldVals[t] = <<>>
      /\ UNCHANGED <<threads, cuckoo, stashIdxs, oldVals>> /\ remaining' = remaining
      /\ Goto(t, "round")
  BY DEF BinInv, Hands, InsertBatch, Rounds
<1>2. PICK n \in Nat \ {0}, w \in Seq(ItemOf) :
        /\ next' = Set(next, t, next[t] + n)
        /\ startIdx(t) <= next[t] /\ next[t] + n <= endIdx(t)
        /\ work' = Set(work, t, w) /\ Len(w) = n
        /\ \A i \in 1..n : w[i] = <<next[t] + i - 1, 0>>
  BY <1>1, BatchIs
<1>3. PICK a \in Nat : a = next[t]
  BY <1>1, Basics, Typed
<1>4. /\ work'[t] = w /\ oldVals'[t] = <<>> /\ Thread' = Thread
      /\ next'[t] = a + n /\ \A u \in Thread : u # t => next'[u] = next[u]
  BY <1>1, <1>2, <1>3, Typed, WorkIs DEF Set, Thread
<1>5. "round" \in Places
  BY DEF Places
<1>6. pc'[t] = "round" /\ (ListWaits' <=> ListWaits)
  BY <1>1, <1>5, GoneTo, ListWaitsKept
<1>7. OthersKeep(t)
  BY <1>1, <1>2, <1>5, WorkIs, PutCountKept DEF OthersKeep
<1>8. PutCount(t) = 0 /\ PutCount(t)' = 0
  BY <1>1, <1>6, LenOfNone DEF PutCount
<1>9. \A x, u, i : u # t =>
        (InItem(x, u, i)' <=> InItem(x, u, i)) /\ (InFound(x, u, i)' <=> InFound(x, u, i))
  BY <1>1, <1>7, OthersIn
<1>10. \A x, b, i : (InBin(x, b)' <=> InBin(x, b)) /\ (InList(x, i)' <=> InList(x, i))
  BY <1>1, <1>6 DEF InBin, InList
<1>11. \A x, i : ~InItem(x, t, i) /\ ~InFound(x, t, i) /\ ~InFound(x, t, i)'
  <2>1. (0 + 1)..0 = {} /\ 1..0 = {}
    OBVIOUS
  <2> QED
    BY <1>1, <1>8, <2>1, LenOfNone DEF InItem, InFound
<1>12. \A x, i : InItem(x, t, i)' <=> i \in 1..n /\ a + i - 1 = x
  <2>1. (0 + 1)..n = 1..n
    OBVIOUS
  <2>2. \A i \in 1..n : w[i][1] = a + i - 1
    BY <1>2, <1>3
  <2> QED
    BY <1>2, <1>4, <1>8, <2>1, <2>2 DEF InItem
<1>13. ASSUME NEW x, NEW p, ~\E i : p = ItemAt(t, i) /\ i \in 1..n /\ a + i - 1 = x
       PROVE  p \in Where(x)' <=> p \in Where(x)
  <2>1. ASSUME p \in Where(x)' PROVE p \in Where(x)
    BY <1>9, <1>10, <1>11, <1>12, <1>13, <2>1, WhereIs, WhereNext
  <2>2. ASSUME p \in Where(x) PROVE p \in Where(x)'
    BY <1>9, <1>10, <1>11, <2>2, WhereIs, WhereNext
  <2> QED
    BY <2>1, <2>2
<1>14. ASSUME NEW x \in Element PROVE PlacedAt(x)'
  <2>0. x \in Int /\ PlacedAt(x)
    BY <1>1, Basics, PlacedIs
  <2>1. CASE a <= x /\ x < a + n
    <3>1. ~Begun(x)
      <4>1. SUFFICES ASSUME NEW u \in Thread, startIdx(u) <= x, x < next[u] PROVE FALSE
        BY DEF Begun
      <4>2. startIdx(t) <= x /\ x < endIdx(t)
        <5>1. PICK s \in Int, e \in Int : s = startIdx(t) /\ e = endIdx(t) /\ s <= a /\ a + n <= e
          BY <1>1, <1>2, <1>3, Basics, ShareBounds
        <5> QED
          BY <2>0, <2>1, <5>1
      <4>3. x < endIdx(u)
        <5>1. PICK e \in Int, m \in Int : e = endIdx(u) /\ m = next[u] /\ m <= e
          BY <1>1, Basics, Typed, ShareBounds DEF Shares
        <5> QED
          BY <2>0, <4>1, <5>1
      <4>4. t = u
        BY <1>1, <2>0, <4>1, <4>2, <4>3, Basics, SharesDisjoint
      <4> QED
        BY <1>3, <2>0, <2>1, <4>1, <4>4
    <3>2. Where(x) = {}
      BY <2>0, <3>1 DEF PlacedAt
    <3>3. PICK i : i = x - a + 1 /\ i \in 1..n /\ a + i - 1 = x
      BY <2>0, <2>1
    <3>4. ItemAt(t, i) \in Where(x)'
      BY <1>12, <3>3, AtItemNext
    <3>5. \A j \in 1..n : a + j - 1 = x => j = i
      BY <3>3
    <3>6. \A p \in Where(x)' : p = ItemAt(t, i)
      BY <1>13, <3>2, <3>5
    <3>7. Begun(x)'
      <4>1. startIdx(t)' = startIdx(t) /\ t \in Thread' /\ x < next'[t]
        BY <1>1, <1>4, <2>1 DEF startIdx
      <4>2. startIdx(t) <= x
        <5>1. PICK s \in Int : s = startIdx(t) /\ s <= a
          BY <1>1, <1>2, <1>3, Basics, ShareBounds
        <5> QED
          BY <2>0, <2>1, <5>1
      <4> QED
        BY <4>1, <4>2 DEF Begun
    <3> QED
      BY <3>4, <3>6, <3>7 DEF PlacedAt
  <2>2. CASE ~(a <= x /\ x < a + n)
    <3>1. \A i \in 1..n : a + i - 1 # x
      BY <2>0, <2>2
    <3>2. \A p : p \in Where(x)' <=> p \in Where(x)
      BY <1>13, <3>1
    <3>3. \A u \in Thread : startIdx(u)' = startIdx(u)
      BY <1>1 DEF startIdx
    <3>4. ASSUME startIdx(t) <= x PROVE x < next'[t] <=> x < next[t]
      <4>1. x < a + n <=> x < a
        BY <2>0, <2>2
      <4> QED
        BY <1>3, <1>4, <4>1
    <3>5. Begun(x)' <=> Begun(x)
      BY <1>4, <3>3, <3>4 DEF Begun
    <3> QED
      BY <2>0, <3>2, <3>5 DEF PlacedAt
  <2> QED
    BY <2>1, <2>2
<1> QED
  BY <1>14, PlacedIsNext

LEMMA PlacedEndInsert ==
  ASSUME BinInv, Placed, NEW t \in Thread, EndInsert(t)
  PROVE  Placed'
<1>1. /\ TypeOK /\ Barriers /\ pc[t] = "insert" /\ Goto(t, "inserted")
      /\ UNCHANGED <<threads, cuckoo, stashIdxs, next, work, oldVals>>
  BY DEF BinInv, EndInsert, Arrive
<1>2. "inserted" \in Places /\ 0 \in Thread
  BY <1>1, Basics DEF Places
<1>3. ListWaits /\ ListWaits'
  <2>1. ListWaits
    BY <1>1, WhereThreadsAre DEF ListWaits
  <2>2. remaining'[1] = 0 => pc'[0] = "inserted"
    BY <1>1, <1>2, Arriving
  <2> QED
    BY <2>1, <2>2 DEF ListWaits
<1>4. \A u \in Thread : PutCount(u)' = PutCount(u)
  BY <1>1, <1>2, PutCountKept
<1> QED
  BY <1>1, <1>3, <1>4, Unmoved

LEMMA PlacedEndStash ==
  ASSUME BinInv, Placed, NEW t \in Thread, EndStash(t)
  PROVE  Placed'
<1>1. /\ TypeOK /\ Barriers /\ pc[t] = "round" /\ remaining[1] = 0
      /\ UNCHANGED <<threads, cuckoo, stashIdxs, next, work, oldVals>> /\ remaining' = remaining
  BY RegionIs DEF BinInv, EndStash
<1>2. t = 0
  BY <1>1, WhereThreadsAre DEF Rounds
<1>3. CASE work[t] = <<>>
  <2>1. Goto(t, "stashed")
    BY <1>3 DEF EndStash
  <2>2. "stashed" \in Places
    BY DEF Places
  <2> QED
    BY <1>1, <2>1, <2>2, MovesNothing
<1>4. CASE work[t] # <<>>
  <2>1. pc' = [u \in Thread |-> "terminated"]
    BY <1>4 DEF EndStash
  <2>2. ListWaits' <=> ListWaits
    BY <1>1, <1>2, <2>1 DEF ListWaits
  <2>3. \A u \in Thread : pc[u] # "store"
    BY <1>1, <1>2, WhereThreadsAre DEF Rounds
  <2>4. \A u \in Thread : PutCount(u)' = PutCount(u)
    BY <1>1, <2>1, <2>3 DEF PutCount
  <2> QED
    BY <1>1, <2>2, <2>4, Unmoved
<1> QED
  BY <1>3, <1>4

LEMMA PlacedEndThread ==
  ASSUME BinInv, Placed, NEW t \in Thread, EndThread(t)
  PROVE  Placed'
<1>1. /\ TypeOK /\ Barriers /\ pc[t] = "stashed" /\ Goto(t, "waiting")
      /\ UNCHANGED <<threads, cuckoo, stashIdxs, next, work, oldVals>>
  BY DEF BinInv, EndThread, Arrive
<1>2. "waiting" \in Places /\ remaining'[1] = remaining[1]
  BY <1>1, Ending DEF Places
<1> QED
  BY <1>1, <1>2, MovesNothing

LEMMA PlacedLeave ==
  ASSUME BinInv, Placed, NEW t \in Thread, Leave(t)
  PROVE  Placed'
<1>1. /\ pc[t] = "waiting" /\ Goto(t, "done")
      /\ UNCHANGED <<threads, cuckoo, stashIdxs, next, work, oldVals>> /\ remaining' = remaining
  BY DEF Leave
<1>2. "done" \in Places
  BY DEF Places
<1> QED
  BY <1>1, <1>2, MovesNothing

LEMMA PlacedThread ==
  ASSUME BinInv, Placed, NEW t \in Thread, ThreadStep(t), ~raced'
  PROVE  Placed'
BY PlacedInsertBatch, PlacedBeginRound, PlacedLoad, PlacedStore, PlacedEndRound,
   PlacedLeaveToStash, PlacedEndInsert, PlacedInsertStash, PlacedEndStash, PlacedEndThread, PlacedLeave
   DEF ThreadStep

(* What was lost in a race stays lost.                                      *)
LEMMA RacedStays ==
  ASSUME TypeOK, NEW t \in Thread, ThreadStep(t), raced
  PROVE  raced'
BY DEF ThreadStep, InsertBatch, BeginRound, Load, Store, EndRound, LeaveToStash,
       EndInsert, InsertStash, EndStash, EndThread, Leave, Arrive

LEMMA SettledThread ==
  ASSUME BinInv, Settled, NEW t \in Thread, ThreadStep(t)
  PROVE  Settled'
BY RacedStays, PlacedThread DEF BinInv, Settled

-----------------------------------------------------------------------------
(* At the start nothing is anywhere.                                        *)

LEMMA PlacedInit ==
  ASSUME Init
  PROVE  Placed /\ Numbers
<1>0. /\ BinInv /\ cuckoo = [b \in Bin |-> Empty] /\ stashIdxs = <<>>
      /\ pc = [t \in Thread |-> "insert"] /\ next = [t \in Thread |-> startIdx(t)]
      /\ work = [t \in Thread |-> <<>>] /\ oldVals = [t \in Thread |-> <<>>]
  BY BinInvInit DEF Init
<1>2. Numbers
  BY <1>0, LenOfNone DEF Numbers
<1>3. \A t \in Thread : PutCount(t) = 0
  BY <1>0, LenOfNone DEF PutCount
<1>4. \A x, b : ~InBin(x, b)
  BY <1>0 DEF InBin
<1>5. \A x, t, i : ~InItem(x, t, i) /\ ~InFound(x, t, i)
  <2>1. (0 + 1)..0 = {} /\ 1..0 = {}
    OBVIOUS
  <2> QED
    BY <1>0, <1>3, <2>1, LenOfNone DEF InItem, InFound
<1>6. \A x, i : ~InList(x, i)
  BY <1>0, LenOfNone DEF InList
<1>7. \A x, p : p \notin Where(x)
  BY <1>4, <1>5, <1>6, WhereIs
<1>8. \A x \in Element : ~Begun(x)
  <2>1. TypeOK
    BY <1>0 DEF BinInv
  <2>2. SUFFICES ASSUME NEW x \in Element, NEW t \in Thread, startIdx(t) <= x, x < startIdx(t)
                 PROVE  FALSE
    BY <1>0 DEF Begun
  <2>3. PICK s \in Int : s = startIdx(t)
    BY <2>1, Basics, ShareBounds
  <2>4. x \in Int
    BY <2>1, Basics
  <2> QED
    BY <2>2, <2>3, <2>4
<1> QED
  BY <1>2, <1>7, <1>8 DEF Placed

LEMMA PlacedStutter ==
  ASSUME BinInv, Settled, Numbers, UNCHANGED vars
  PROVE  Settled' /\ Numbers'
<1>1. /\ UNCHANGED <<hash, threads, raced, simple, cuckoo, stashIdxs>>
      /\ UNCHANGED <<pc, next, work, oldVals, tryCount, remaining>>
  BY DEF vars
<1>2. Numbers'
  <2>1. remaining'[1] = remaining[1]
    BY <1>1
  <2> QED
    BY <1>1, <2>1, NumbersUnmoved
<1>3. ASSUME Placed PROVE Placed'
  <2>1. (ListWaits' <=> ListWaits) /\ \A u \in Thread : PutCount(u)' = PutCount(u)
    BY <1>1 DEF ListWaits, PutCount
  <2>2. TypeOK
    BY DEF BinInv
  <2> QED
    BY <1>1, <1>3, <2>1, <2>2, Unmoved
<1> QED
  BY <1>1, <1>2, <1>3 DEF Settled

LEMMA SettledAlways == PsiSpec => [](BinInv /\ Settled /\ Numbers)
<1>1. PsiInit => BinInv /\ Settled /\ Numbers
  BY BinInvInit, PlacedInit DEF PsiInit, Settled
<1>2. BinInv /\ Settled /\ Numbers /\ [PsiNext]_psiVars => (BinInv /\ Settled /\ Numbers)'
  BY StepsOfHashing, BinInvThread, BinInvStutter, SettledThread, NumbersThread, PlacedStutter
<1> QED
  BY <1>1, <1>2, PTL DEF PsiSpec

(* An element that was begun and is in no hands and on no list is in a bin. *)
LEMMA DoneInBins ==
  ASSUME BinInv, Placed, \A t \in Thread : pc[t] = "done", NEW x \in Element
  PROVE  \E b \in Bin : cuckoo[b] # Empty /\ cuckoo[b][1] = x
<1>0. TypeOK /\ Barriers /\ Shares /\ Hands
  BY DEF BinInv
<1>1. 0 \in Thread /\ remaining[1] = 0
  BY <1>0, Basics, WhereThreadsAre
<1>2. \A t \in Thread : next[t] = endIdx(t) /\ work[t] = <<>> /\ oldVals[t] = <<>>
  BY <1>0, <1>1 DEF Shares, Hands, Rounds
<1>3. Begun(x)
  <2>1. \E t \in Thread : startIdx(t) <= x /\ x < endIdx(t)
    BY <1>0, Basics, SharesCover
  <2> QED
    BY <1>2, <2>1 DEF Begun
<1>4. PICK p : p \in Where(x)
  BY <1>3 DEF Placed
<1>5. \A t \in Thread : PutCount(t) = 0
  BY <1>2, LenOfNone DEF PutCount
<1>6. \A t, i : ~InItem(x, t, i) /\ ~InFound(x, t, i)
  <2>1. (0 + 1)..0 = {} /\ 1..0 = {}
    OBVIOUS
  <2> QED
    BY <1>2, <1>5, <2>1, LenOfNone DEF InItem, InFound
<1>7. \A i : ~InList(x, i)
  BY <1>1 DEF InList, ListWaits
<1> QED
  BY <1>4, <1>6, <1>7, WhereIs DEF InBin

(* No element is lost or kept twice, however threads evict each other's     *)
(* elements, until a store replaces what it did not load                    *)
(* (CuckooHasher1::insertBatch, insertStashBatch).                          *)
THEOREM HashingLosesNothing == PsiSpec => []LostOnlyInRaces
<1>1. BinInv /\ Settled => LostOnlyInRaces
  BY DoneInBins DEF LostOnlyInRaces, Settled, Placed
<1> QED
  BY <1>1, SettledAlways, PTL

LEMMA AloneAlways == PsiSpec => [](BinInv /\ Alone)
<1>1. PsiInit => BinInv /\ Alone
  <2>1. Init => Alone
    BY DEF Init, Alone
  <2> QED
    BY <2>1, BinInvInit DEF PsiInit
<1>2. ASSUME Alone, UNCHANGED vars PROVE Alone'
  <2>1. UNCHANGED <<hash, threads, cuckoo, pc, work, oldVals, remaining, raced>> /\ Thread' = Thread
    BY <1>2 DEF vars, Thread
  <2>2. \A t : Put(t)' = Put(t) /\ Region(t)' = Region(t)
    BY <2>1 DEF Put, Region
  <2>3. \A r, x, k : Addr(r, x, k)' = Addr(r, x, k)
    BY <2>1 DEF Addr
  <2>4. \A t : PutBin(t)' = PutBin(t)
    BY <2>2, <2>3 DEF PutBin
  <2> QED
    BY <1>2, <2>1, <2>4 DEF Alone
<1>3. BinInv /\ Alone /\ [PsiNext]_psiVars => (BinInv /\ Alone)'
  BY <1>2, StepsOfHashing, BinInvThread, BinInvStutter, AloneThread
<1> QED
  BY <1>1, <1>3, PTL DEF PsiSpec

(* One thread does insert all items (binSet.cpp:142): once it is done every *)
(* element is in a cuckoo bin.  Two threads may lose some.                  *)
THEOREM OneThreadInserts == PsiSpec => [](threads = 1 => AllInserted)
<1>1. BinInv /\ Alone /\ Settled => (threads = 1 => AllInserted)
  BY DoneInBins DEF Alone, Settled, AllInserted, InTable
<1> QED
  BY <1>1, AloneAlways, SettledAlways, PTL

-----------------------------------------------------------------------------
(* What is in the messages, and what the receiver finds there.              *)

(* An element is in a bin of the first table under the first function that  *)
(* leads there; the stash bins have the numbers that follow.                *)
LEMMA SimpleEntryIs ==
  ASSUME TypeOK, NEW b \in Bin, NEW xs, NEW x, NEW h \in 0..(Hashes[Main] - 1)
  PROVE  <<x, h>> \in SimpleEntries(b, xs) <=>
           /\ b < Bins[Main] /\ x \in xs /\ Addr(Main, x, h) = b
           /\ \A j \in 0..(h - 1) : Addr(Main, x, j) # b
<1>0. PICK H \in Nat, G \in Nat : H = Hashes[Main] /\ G = Hashes[Stash] /\ h \in 0..(H - 1)
  BY Basics
<1>1. Main # Stash
  BY DEF Main, Stash
<1>2. CASE b < Bins[Main]
  <2>1. <<x, h>> \in SimpleEntries(b, xs) <=>
          \E e \in xs \X (0..(H - 1)) :
            /\ <<x, h>> = <<e[1], e[2]>> /\ e[2] \in Leads(Main, e[1], b)
            /\ \A j \in Leads(Main, e[1], b) : e[2] <= j
    BY <1>0, <1>2 DEF SimpleEntries
  <2>2. <<x, h>> \in SimpleEntries(b, xs) <=>
          x \in xs /\ h \in Leads(Main, x, b) /\ \A j \in Leads(Main, x, b) : h <= j
    <3>1. ASSUME x \in xs, h \in Leads(Main, x, b), \A j \in Leads(Main, x, b) : h <= j
          PROVE  <<x, h>> \in SimpleEntries(b, xs)
      <4>1. <<x, h>> \in xs \X (0..(H - 1)) /\ <<x, h>>[1] = x /\ <<x, h>>[2] = h
        BY <1>0, <3>1
      <4> QED
        BY <2>1, <3>1, <4>1
    <3>2. ASSUME <<x, h>> \in SimpleEntries(b, xs)
          PROVE  x \in xs /\ h \in Leads(Main, x, b) /\ \A j \in Leads(Main, x, b) : h <= j
      BY <2>1, <3>2
    <3> QED
      BY <3>1, <3>2
  <2>3. \A j : j \in Leads(Main, x, b) <=> j \in 0..(H - 1) /\ Addr(Main, x, j) = b
    BY <1>0 DEF Leads
  <2>4. (\A j \in Leads(Main, x, b) : h <= j) <=> \A j \in 0..(h - 1) : Addr(Main, x, j) # b
    <3>1. \A j \in 0..(h - 1) : j \in 0..(H - 1) /\ ~(h <= j)
      BY <1>0
    <3>2. \A j \in 0..(H - 1) : h <= j \/ j \in 0..(h - 1)
      BY <1>0
    <3> QED
      BY <2>3, <3>1, <3>2
  <2> QED
    BY <1>0, <1>2, <2>2, <2>3, <2>4
<1>3. CASE ~(b < Bins[Main])
  <2>1. ASSUME <<x, h>> \in SimpleEntries(b, xs) PROVE FALSE
    <3>1. PICK e \in xs \X (0..(G - 1)) : <<x, h>> = <<e[1], H + e[2]>>
      BY <1>0, <1>1, <1>3, <2>1 DEF SimpleEntries
    <3>2. PICK k \in 0..(G - 1) : h = H + k
      BY <3>1
    <3> QED
      BY <1>0, <3>2
  <2> QED
    BY <1>3, <2>1
<1> QED
  BY <1>2, <1>3

LEMMA MetIs ==
  ASSUME TypeOK, common \subseteq Element, NEW x, NEW h \in 0..(Hashes[Main] - 1)
  PROVE  x \in Met(h) <=>
           /\ x \in common
           /\ \E b \in Bin :
                /\ b < Bins[Main] /\ cuckoo[b] = <<x, h>> /\ Addr(Main, x, h) = b
                /\ \A j \in 0..(h - 1) : Addr(Main, x, j) # b
<1>1. x \in Met(h) <=>
        x \in common /\ \E b \in Bin : <<x, h>> \in SimpleEntries(b, common) /\ cuckoo[b] = <<x, h>>
  <2>1. x \in Met(h) <=>
          \E e \in (Bin \X common) \cap (Bin \X Element) :
            /\ x = e[2] /\ <<e[2], h>> \in SimpleEntries(e[1], common)
            /\ cuckoo[e[1]] = <<e[2], h>>
    BY DEF Met, Message, LocalMasks
  <2>2. ASSUME x \in common, NEW b \in Bin, <<x, h>> \in SimpleEntries(b, common), cuckoo[b] = <<x, h>>
        PROVE  x \in Met(h)
    <3>1. <<b, x>> \in (Bin \X common) \cap (Bin \X Element) /\ <<b, x>>[1] = b /\ <<b, x>>[2] = x
      BY <2>2
    <3> QED
      BY <2>1, <2>2, <3>1
  <2> QED
    BY <2>1, <2>2
<1>2. \A b \in Bin : <<x, h>> \in SimpleEntries(b, common) <=>
        /\ b < Bins[Main] /\ x \in common /\ Addr(Main, x, h) = b
        /\ \A j \in 0..(h - 1) : Addr(Main, x, j) # b
  BY SimpleEntryIs
<1> QED
  BY <1>1, <1>2

(* All messages together meet what is looked up.                            *)
LEMMA MetIsLookedUp ==
  ASSUME TypeOK, Numbers, common \subseteq Element, Hashes[Main] = Messages, NEW x \in Element
  PROVE  (\E h \in 0..(Messages - 1) : x \in Met(h)) <=> x \in common /\ LookedUp(x)
<1>1. \A h \in 0..(Messages - 1) : x \in Met(h) <=>
        /\ x \in common
        /\ \E b \in Bin :
             /\ b < Bins[Main] /\ cuckoo[b] = <<x, h>> /\ Addr(Main, x, h) = b
             /\ \A j \in 0..(h - 1) : Addr(Main, x, j) # b
  BY MetIs
<1>2. ASSUME NEW b \in Bin, NEW h, b < Bins[Main], cuckoo[b] = <<x, h>> PROVE Addr(Main, x, h) = b
  <2>1. cuckoo[b] # Empty /\ cuckoo[b][1] = x /\ cuckoo[b][2] = h
    <3>1. <<x, h>> # <<>>
      OBVIOUS
    <3> QED
      BY <1>2, <3>1 DEF Empty
  <2> QED
    BY <1>2, <2>1 DEF Numbers
<1> QED
  BY <1>1, <1>2 DEF LookedUp

(* No element is met twice.                                                 *)
LEMMA MetOnce ==
  ASSUME TypeOK, Placed, common \subseteq Element, NEW x \in Element,
         NEW h \in 0..(Hashes[Main] - 1), NEW g \in 0..(Hashes[Main] - 1), x \in Met(h), x \in Met(g)
  PROVE  h = g
<1>1. PICK b \in Bin : cuckoo[b] = <<x, h>>
  BY MetIs
<1>2. PICK c \in Bin : cuckoo[c] = <<x, g>>
  BY MetIs
<1>3. <<x, h>> # <<>> /\ <<x, g>> # <<>>
  OBVIOUS
<1>4. BinAt(b) \in Where(x) /\ BinAt(c) \in Where(x)
  BY <1>1, <1>2, <1>3, AtBin, SMTT(20) DEF InBin, Empty
<1>5. b = c
  BY <1>4, PlacesDiffer DEF Placed
<1> QED
  BY <1>1, <1>2, <1>5

LEMMA MetAreElements ==
  ASSUME TypeOK, common \subseteq Element, NEW h
  PROVE  Met(h) \subseteq Element /\ IsFiniteSet(Met(h))
<1>1. Met(h) \subseteq Element
  BY DEF Met, LocalMasks
<1>2. IsFiniteSet(Element)
  <2>1. N - 1 \in Int
    BY Basics
  <2> QED
    BY <2>1, FS_Interval DEF Element
<1> QED
  BY <1>1, <1>2, FS_Subset

LEMMA MessagesStay ==
  ASSUME UNCHANGED <<hash, cuckoo, common>>
  PROVE  \A h : Message(h, common)' = Message(h, common) /\ Met(h)' = Met(h)
<1>1. \A r, x, b : Leads(r, x, b)' = Leads(r, x, b)
  BY DEF Leads, Addr
<1>2. \A b : SimpleEntries(b, common)' = SimpleEntries(b, common)
  BY <1>1 DEF SimpleEntries
<1>3. \A h : Message(h, common)' = Message(h, common)
  BY <1>2 DEF Message
<1>4. \A h : LocalMasks(h)' = LocalMasks(h)
  BY DEF LocalMasks
<1> QED
  BY <1>3, <1>4 DEF Met

-----------------------------------------------------------------------------
(* Receiving the messages.                                                  *)

LEMMA HashedStays ==
  ASSUME Hashed, NEW t \in Thread, ThreadStep(t)
  PROVE  FALSE
<1>1. pc[t] = "done"
  BY DEF Hashed
<1> QED
  BY <1>1 DEF ThreadStep, InsertBatch, BeginRound, Load, Store, EndRound, LeaveToStash,
              EndInsert, InsertStash, EndStash, EndThread, Leave

(* A queue of messages: the first, and the others.                          *)
LEMMA FirstOf ==
  ASSUME NEW S, NEW c \in Seq(S), c # <<>>
  PROVE  \E l \in Nat, d \in Seq(S) :
           /\ Len(c) = l + 1 /\ Head(c) = c[1]
           /\ d = Tail(c) /\ Len(d) = l /\ \A m \in 1..l : d[m] = c[m + 1]
<1>1. /\ Len(c) - 1 \in Nat /\ Len(c) = (Len(c) - 1) + 1 /\ Head(c) = c[1]
      /\ Tail(c) \in Seq(S) /\ Len(Tail(c)) = Len(c) - 1
      /\ \A m \in 1..(Len(c) - 1) : Tail(c)[m] = c[m + 1]
  OBVIOUS
<1> DEFINE l == Len(c) - 1
           d == Tail(c)
<1>2. l \in Nat /\ d \in Seq(S) /\ Len(c) = l + 1 /\ Head(c) = c[1] /\ d = Tail(c) /\ Len(d) = l
      /\ \A m \in 1..l : d[m] = c[m + 1]
  BY <1>1
<1> HIDE DEF l, d
<1> QED
  BY <1>2

LEMMA RowIs ==
  ASSUME NEW S, NEW n \in Nat, NEW c \in [1..n -> S]
  PROVE  c \in Seq(S) /\ Len(c) = n /\ (n # 0 => c # <<>>)
<1>1. c \in Seq(S) /\ Len(c) = n
  OBVIOUS
<1> QED
  BY <1>1, LenOfNone

LEMMA ReportedInit ==
  ASSUME PsiInit
  PROVE  Reported
<1>1. common = {} /\ channel = <<>> /\ received = 0 /\ mIntersection = <<>>
  BY DEF PsiInit
<1>2. mIntersection \in Seq(Element) /\ DOMAIN mIntersection = {}
  BY <1>1
<1>3. 0..(received - 1) = {} /\ 0 \in 0..Messages
  BY <1>1 DEF Messages
<1>4. Sending
  BY <1>1, <1>3 DEF Sending
<1>5. Finding
  BY <1>2, <1>3 DEF Finding
<1> QED
  BY <1>4, <1>5 DEF Reported

(* Nothing moves once the messages are under way.                           *)
LEMMA ReportedKept ==
  ASSUME Reported, UNCHANGED psiOnly, UNCHANGED vars \/ \E t \in Thread : ThreadStep(t)
  PROVE  Reported'
<1>0. UNCHANGED <<common, channel, received, mIntersection>> /\ Sending /\ Finding
  BY DEF psiOnly, Reported
<1>1. CASE Hashed
  <2>1. UNCHANGED <<hash, threads, cuckoo, pc, raced>>
    BY <1>1, HashedStays DEF vars
  <2>2. Hashed'
    BY <1>1, <2>1 DEF Hashed, Thread
  <2>3. \A h : Message(h, common)' = Message(h, common) /\ Met(h)' = Met(h)
    BY <1>0, <2>1, MessagesStay
  <2>4. Sending'
    BY <1>0, <2>2, <2>3 DEF Sending
  <2>5. Finding'
    BY <1>0, <2>1, <2>3 DEF Finding
  <2> QED
    BY <2>4, <2>5 DEF Reported
<1>2. CASE ~Hashed
  <2>1. received = 0 /\ channel = <<>>
    BY <1>0, <1>2 DEF Sending
  <2>2. 0..(received - 1) = {}
    BY <2>1
  <2>3. Sending'
    BY <1>0, <2>1 DEF Sending
  <2>4. Finding'
    <3>1. DOMAIN mIntersection = {}
      BY <1>0, <2>2 DEF Finding
    <3> QED
      BY <1>0, <2>2, <3>1 DEF Finding
  <2> QED
    BY <2>3, <2>4 DEF Reported
<1> QED
  BY <1>1, <1>2

LEMMA ReportedSendLast ==
  ASSUME Reported, SendLast
  PROVE  Reported'
<1>0. Sending /\ Finding
  BY DEF Reported
<1>1. /\ Hashed /\ received = 0 /\ common' \in SUBSET Element
      /\ channel' = [m \in 1..Messages |-> Message(m - 1, common')]
      /\ UNCHANGED vars /\ UNCHANGED <<received, mIntersection>>
  BY DEF SendLast
<1>2. UNCHANGED <<hash, threads, cuckoo, pc, raced>>
  BY <1>1 DEF vars
<1>3. Hashed'
  BY <1>1, <1>2 DEF Hashed, Thread
<1>4. \A h : Message(h, common)' = Message(h, common')
  <2>1. \A r, x, b : Leads(r, x, b)' = Leads(r, x, b)
    BY <1>2 DEF Leads, Addr
  <2>2. \A b : SimpleEntries(b, common)' = SimpleEntries(b, common')
    BY <2>1 DEF SimpleEntries
  <2> QED
    BY <2>2 DEF Message
<1>5. \A h : Message(h, common') \in SUBSET (Bin \X Element)
  BY <1>1 DEF Message
<1>6. channel' \in Seq(SUBSET (Bin \X Element)) /\ Len(channel') = 3 /\ channel' # <<>>
  <2>1. channel' \in [1..3 -> SUBSET (Bin \X Element)]
    BY <1>1, <1>5 DEF Messages
  <2>2. 3 \in Nat /\ 3 # 0
    OBVIOUS
  <2> QED
    BY <2>1, <2>2, RowIs
<1>7. \A h \in 0..2 : channel'[h - 0 + 1] = Message(h, common')
  <2>1. \A h \in 0..2 : h - 0 + 1 \in 1..3 /\ (h - 0 + 1) - 1 = h
    OBVIOUS
  <2> QED
    BY <1>1, <2>1 DEF Messages
<1>8. Sending'
  <2>1. received' = 0 /\ Messages - 0 = 3 /\ Messages - 1 = 2 /\ received' \in 0..Messages
    BY <1>1 DEF Messages
  <2> QED
    BY <1>1, <1>3, <1>4, <1>6, <1>7, <2>1 DEF Sending
<1>9. Finding'
  <2>1. 0..(received - 1) = {} /\ 0..(received' - 1) = {}
    BY <1>1
  <2> QED
    BY <1>0, <1>1, <1>2, <2>1 DEF Finding
<1> QED
  BY <1>8, <1>9 DEF Reported

(* What a message adds to what was found.                                   *)
Holds(q, x) == \E i \in DOMAIN q : q[i] = x
Distinct(q) == \A i, j \in DOMAIN q : q[i] = q[j] => i = j

LEMMA Added ==
  ASSUME NEW S, NEW a \in Seq(S), NEW s \in Seq(S), NEW q, Joined(S, a, s, q)
  PROVE  /\ \A x : Holds(q, x) <=> Holds(a, x) \/ Holds(s, x)
         /\ Distinct(a) /\ Distinct(s) /\ (\A x : ~(Holds(a, x) /\ Holds(s, x))) => Distinct(q)
<1> USE DEF Holds, Distinct
<1>1. PICK k \in Nat, l \in Nat :
        k = Len(a) /\ l = Len(s) /\ DOMAIN a = 1..k /\ DOMAIN s = 1..l
  OBVIOUS
<1>2. /\ DOMAIN q = 1..(k + l)
      /\ \A i \in 1..k : q[i] = a[i]
      /\ \A i \in 1..l : q[k + i] = s[i]
  BY <1>1 DEF Joined
<1>3. /\ \A i \in 1..k : i \in 1..(k + l)
      /\ \A i \in 1..l : k + i \in 1..(k + l)
  OBVIOUS
<1>4. ASSUME NEW i \in 1..(k + l) PROVE i \in 1..k \/ \E j \in 1..l : i = k + j
  <2>1. i \in 1..k \/ (i - k \in 1..l /\ i = k + (i - k))
    OBVIOUS
  <2> QED
    BY <2>1
<1>5. ASSUME NEW x, NEW i \in DOMAIN q, q[i] = x
      PROVE  (\E j \in DOMAIN a : a[j] = x) \/ (\E j \in DOMAIN s : s[j] = x)
  <2>1. CASE i \in 1..k
    BY <1>1, <1>2, <1>5, <2>1
  <2>2. ASSUME NEW j \in 1..l, i = k + j PROVE \E m \in DOMAIN s : s[m] = x
    BY <1>1, <1>2, <1>5, <2>2
  <2> QED
    BY <1>2, <1>4, <2>1, <2>2
<1>6. ASSUME NEW x, NEW i \in DOMAIN a, a[i] = x PROVE \E j \in DOMAIN q : q[j] = x
  BY <1>1, <1>2, <1>3, <1>6
<1>7. ASSUME NEW x, NEW i \in DOMAIN s, s[i] = x PROVE \E j \in DOMAIN q : q[j] = x
  BY <1>1, <1>2, <1>3, <1>7
<1>8. ASSUME \A i, j \in DOMAIN a : a[i] = a[j] => i = j,
             \A i, j \in DOMAIN s : s[i] = s[j] => i = j,
             \A x : ~(Holds(a, x) /\ Holds(s, x)),
             NEW i \in DOMAIN q, NEW j \in DOMAIN q, q[i] = q[j]
      PROVE  i = j
  <2>1. CASE i \in 1..k /\ j \in 1..k
    BY <1>1, <1>2, <1>8, <2>1
  <2>2. ASSUME i \in 1..k, NEW b \in 1..l, j = k + b PROVE FALSE
    <3>1. a[i] = s[b]
      BY <1>2, <1>8, <2>2
    <3> QED
      BY <1>1, <1>8, <2>2, <3>1
  <2>3. ASSUME j \in 1..k, NEW b \in 1..l, i = k + b PROVE FALSE
    <3>1. a[j] = s[b]
      BY <1>2, <1>8, <2>3
    <3> QED
      BY <1>1, <1>8, <2>3, <3>1
  <2>4. ASSUME NEW b \in 1..l, i = k + b, NEW c \in 1..l, j = k + c PROVE i = j
    <3>1. s[b] = s[c]
      BY <1>2, <1>8, <2>4
    <3>2. b = c
      BY <1>1, <1>8, <3>1
    <3> QED
      BY <2>4, <3>2
  <2> QED
    BY <1>2, <1>4, <2>1, <2>2, <2>3, <2>4
<1> QED
  BY <1>5, <1>6, <1>7, <1>8

LEMMA ReportedReceive ==
  ASSUME TypeOK, Settled, Hashes[Main] = Messages, Reported, Receive
  PROVE  Reported'
<1>0. Sending /\ Finding
  BY DEF Reported
<1>1. /\ channel # <<>> /\ received' = received + 1 /\ channel' = Tail(channel)
      /\ mIntersection' = mIntersection \o SetToSeq({e[2] : e \in Head(channel) \cap LocalMasks(received)})
      /\ UNCHANGED vars /\ common' = common
  BY DEF Receive
<1>a. PICK S : S = SUBSET (Bin \X Element)
  OBVIOUS
<1>2. PICK c \in Seq(S), r \in 0..3 :
        /\ c = channel /\ r = received /\ Len(c) = 3 - r
        /\ \A h \in r..2 : c[h - r + 1] = Message(h, common)
  <2>1. Messages = 3 /\ Messages - 1 = 2
    BY DEF Messages
  <2> QED
    BY <1>0, <1>1, <1>a, <2>1 DEF Sending
<1>3. PICK l \in Nat, d \in Seq(S) :
        /\ Len(c) = l + 1 /\ Head(c) = c[1]
        /\ d = Tail(c) /\ Len(d) = l /\ \A m \in 1..l : d[m] = c[m + 1]
  <2>1. c # <<>>
    BY <1>1, <1>2
  <2> QED
    BY <2>1, FirstOf
<1>4. r \in 0..2 /\ received' = r + 1 /\ r + 1 \in 0..3 /\ Messages = 3 /\ Messages - 1 = 2
  BY <1>1, <1>2, <1>3 DEF Messages
<1>5. UNCHANGED <<hash, threads, cuckoo, pc, raced>> /\ Hashed /\ common \subseteq Element
  BY <1>0, <1>1 DEF vars, Sending
<1>6. Hashed'
  BY <1>5 DEF Hashed, Thread
<1>7. \A h : Message(h, common)' = Message(h, common) /\ Met(h)' = Met(h)
  BY <1>1, <1>5, MessagesStay
<1>8. Sending'
  <2>1. d = channel' /\ Len(d) = 3 - (r + 1)
    <3>1. l = 3 - (r + 1)
      BY <1>2, <1>3, <1>4
    <3>2. Tail(channel) = Tail(c)
      BY <1>2
    <3> QED
      BY <1>1, <1>3, <3>1, <3>2, Zenon
  <2>2. \A h \in (r + 1)..2 : d[h - (r + 1) + 1] = Message(h, common)
    <3>1. ASSUME NEW h \in (r + 1)..2 PROVE d[h - (r + 1) + 1] = Message(h, common)
      <4>1. PICK m \in 1..l : m = h - (r + 1) + 1 /\ m + 1 = h - r + 1 /\ h \in r..2
        BY <1>2, <1>3, <1>4
      <4>2. d[m] = c[m + 1]
        BY <1>3, <2>1, <4>1
      <4> QED
        BY <1>2, <4>1, <4>2
    <3> QED
      BY <3>1
  <2>3. d = <<>> => r + 1 = 3
    BY <1>4, <2>1, LenOfNone
  <2> QED
    BY <1>1, <1>2, <1>4, <1>5, <1>6, <1>7, <1>a, <2>1, <2>2, <2>3 DEF Sending
<1>9. PICK s :
        /\ s = SetToSeq(Met(r)) /\ s \in Seq(Element)
        /\ \A x : x \in Met(r) <=> \E i \in DOMAIN s : s[i] = x
        /\ \A i, j \in DOMAIN s : s[i] = s[j] => i = j
  <2>1. PICK M : M = Met(r)
    OBVIOUS
  <2>2. M \subseteq Element /\ IsFiniteSet(M)
    BY <1>5, <2>1, MetAreElements
  <2>3. PICK s : s = SetToSeq(M)
    OBVIOUS
  <2>4. /\ s \in Seq(M) /\ \A x : x \in M <=> \E i \in DOMAIN s : s[i] = x
        /\ \A i, j \in DOMAIN s : s[i] = s[j] => i = j
    BY <2>2, <2>3, SetToSeqIs
  <2>5. s \in Seq(Element)
    BY <2>2, <2>4
  <2> QED
    BY <2>1, <2>3, <2>4, <2>5
<1>10. mIntersection' = mIntersection \o s
  <2>1. Head(channel) = Message(r, common)
    <3>1. r \in r..2 /\ r - r + 1 = 1
      BY <1>4
    <3> QED
      BY <1>2, <1>3, <3>1
  <2>2. {e[2] : e \in Head(channel) \cap LocalMasks(received)} = Met(r)
    BY <1>2, <2>1 DEF Met
  <2> QED
    BY <1>1, <1>9, <2>2
<1>11. mIntersection \in Seq(Element)
  BY <1>0 DEF Finding
<1>12. PICK q : Joined(Element, mIntersection, s, q)
  BY <1>9, <1>11, Concatenated
<1>13. mIntersection' = q /\ q \in Seq(Element)
  BY <1>10, <1>12 DEF Joined
<1>14. \A x : Holds(q, x) <=> Holds(mIntersection, x) \/ Holds(s, x)
  BY <1>9, <1>11, <1>12, Added
<1>15. \A x \in Element : Holds(mIntersection, x) <=> \E h \in 0..(r - 1) : x \in Met(h)
  BY <1>0, <1>2 DEF Finding, Holds
<1>16. \A x : Holds(s, x) <=> x \in Met(r)
  BY <1>9 DEF Holds
<1>17. \A x \in Element : Holds(q, x) <=> \E h \in 0..r : x \in Met(h)
  <2>1. \A h : h \in 0..r <=> h \in 0..(r - 1) \/ h = r
    BY <1>4
  <2> QED
    BY <1>14, <1>15, <1>16, <2>1
<1>18. ASSUME ~raced PROVE Distinct(q)
  <2>1. ASSUME NEW x, Holds(mIntersection, x), Holds(s, x) PROVE FALSE
    <3>1. x \in Element
      BY <1>11, <2>1 DEF Holds
    <3>2. x \in Met(r)
      BY <1>16, <2>1
    <3>3. PICK h \in 0..(r - 1) : x \in Met(h)
      BY <1>15, <2>1, <3>1
    <3>4. h \in 0..(Hashes[Main] - 1) /\ r \in 0..(Hashes[Main] - 1) /\ h # r
      BY <1>4
    <3> QED
      BY <1>5, <1>18, <3>1, <3>2, <3>3, <3>4, MetOnce DEF Settled
  <2>2. Distinct(mIntersection) /\ Distinct(s)
    BY <1>0, <1>9, <1>18 DEF Finding, Distinct
  <2> QED
    BY <1>9, <1>11, <1>12, <2>1, <2>2, Added
<1>19. Finding'
  <2>1. received' - 1 = r
    BY <1>4
  <2> QED
    BY <1>5, <1>7, <1>13, <1>17, <1>18, <2>1 DEF Finding, Holds, Distinct
<1> QED
  BY <1>8, <1>19 DEF Reported

LEMMA ReportedAlways ==
  ASSUME Hashes[Main] = Messages
  PROVE  PsiSpec => [](BinInv /\ Settled /\ Numbers /\ Reported)
<1>1. PsiInit => Reported
  BY ReportedInit
<1>2. BinInv /\ Settled /\ Reported /\ [PsiNext]_psiVars => Reported'
  <2>1. SUFFICES ASSUME TypeOK, Settled, Reported, [PsiNext]_psiVars PROVE Reported'
    BY DEF BinInv
  <2>2. CASE (\E t \in Thread : ThreadStep(t)) /\ UNCHANGED psiOnly
    BY <2>1, <2>2, ReportedKept
  <2>3. CASE SendLast
    BY <2>1, <2>3, ReportedSendLast
  <2>4. CASE Receive
    BY <2>1, <2>4, ReportedReceive
  <2>5. CASE UNCHANGED psiVars
    <3>1. UNCHANGED vars /\ UNCHANGED psiOnly
      BY <2>5 DEF psiVars
    <3> QED
      BY <2>1, <3>1, ReportedKept
  <2> QED
    BY <2>1, <2>2, <2>3, <2>4, <2>5 DEF PsiNext
<1>3. PsiSpec => [](BinInv /\ Settled /\ Numbers)
  BY SettledAlways
<1> QED
  BY <1>1, <1>2, <1>3, PTL DEF PsiSpec

(* What is reported in the end is the common elements whose values are      *)
(* looked up in the right message (OPPRFReceiver::compute2PSI), each once   *)
(* unless there was a race while hashing, when the first table has as many  *)
(* functions as there are messages.                                         *)
THEOREM ReportedMeets ==
  ASSUME Hashes[Main] = Messages
  PROVE  PsiSpec => []ReportsWhatMeets
<1>1. BinInv /\ Numbers /\ Reported => ReportsWhatMeets
  <2>1. SUFFICES ASSUME TypeOK, Numbers, Sending, Finding, received = Messages PROVE
            /\ {mIntersection[i] : i \in DOMAIN mIntersection} = {x \in common : LookedUp(x)}
            /\ ~raced => \A i, j \in DOMAIN mIntersection : mIntersection[i] = mIntersection[j] => i = j
    BY DEF BinInv, Reported, ReportsWhatMeets
  <2>2. common \subseteq Element /\ mIntersection \in Seq(Element)
    BY <2>1 DEF Sending, Finding
  <2>3. \A x \in Element :
          (\E i \in DOMAIN mIntersection : mIntersection[i] = x) <=> x \in common /\ LookedUp(x)
    BY <2>1, <2>2, MetIsLookedUp DEF Finding
  <2>4. \A i \in DOMAIN mIntersection : mIntersection[i] \in Element
    BY <2>2
  <2>5. {mIntersection[i] : i \in DOMAIN mIntersection} = {x \in common : LookedUp(x)}
    BY <2>2, <2>3, <2>4
  <2> QED
    BY <2>1, <2>5 DEF Finding
<1> QED
  BY <1>1, ReportedAlways, PTL
============================================================================
