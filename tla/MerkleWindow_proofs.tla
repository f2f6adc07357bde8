------------------------- MODULE MerkleWindow_proofs -------------------------
(***************************************************************************)
(* The leaf bookkeeping is correct for every set of hashes, every bound on *)
(* the number of leaves and every word size above that bound.              *)
(***************************************************************************)
EXTENDS MerkleWindow, SequenceTheorems, TLAPS

(* The whole log, as the refinement mapping of MerkleWindow gives it.      *)
Whole == flushed \o leaf_nodes \o uninserted_leaf_nodes

(* The inductive invariant: LeafReadsTheLog also needs the number of       *)
(* leaves to fit a word.                                                   *)
IInv == TypeOK /\ WindowNeverEmpty /\ num_leaves <= MaxLeaves

-----------------------------------------------------------------------------
(* What SubSeq(s, m, n) is when m and n delimit a part of s, maybe empty.  *)
LEMMA Part ==
  ASSUME NEW S, NEW s \in Seq(S),
         NEW m \in 1 .. Len(s) + 1, NEW n \in m - 1 .. Len(s)
  PROVE  /\ SubSeq(s, m, n) \in Seq(S)
         /\ Len(SubSeq(s, m, n)) = n - m + 1
         /\ \A i \in 1 .. n - m + 1 : SubSeq(s, m, n)[i] = s[m + i - 1]
<1>1. Len(s) \in Nat
  BY LenProperties
<1>2. \A i \in m .. n : s[i] \in S
  BY <1>1, ElementOfSeq
<1> QED
  BY <1>1, <1>2, SubSeqProperties

(* The type and length of a concatenation, without its elements.           *)
LEMMA Concat ==
  ASSUME NEW S, NEW s \in Seq(S), NEW t \in Seq(S)
  PROVE  s \o t \in Seq(S) /\ Len(s \o t) = Len(s) + Len(t)
BY ConcatProperties

(* A sequence is the concatenation of any prefix of it with the rest.      *)
LEMMA Split ==
  ASSUME NEW S, NEW s \in Seq(S), NEW n \in 0 .. Len(s)
  PROVE  SubSeq(s, 1, n) \o SubSeq(s, n + 1, Len(s)) = s
<1>1. Len(s) \in Nat
  BY LenProperties
<1>2. 1 \in 1 .. Len(s) + 1 /\ n \in 1 - 1 .. Len(s) /\ Len(s) \in n .. Len(s)
  BY <1>1
<1>3. SubSeq(s, 1, n) \o SubSeq(s, n + 1, Len(s)) = SubSeq(s, 1, Len(s))
  BY <1>2, ConcatAdjacentSubSeq
<1> QED
  BY <1>3, SubSeqFull

(* Truncating a concatenation inside its second part.                      *)
LEMMA PrefixOfConcat ==
  ASSUME NEW S, NEW a \in Seq(S), NEW b \in Seq(S), NEW k \in 0 .. Len(b)
  PROVE  SubSeq(a \o b, 1, Len(a) + k) = a \o SubSeq(b, 1, k)
<1> DEFINE l == SubSeq(a \o b, 1, Len(a) + k)
           p == SubSeq(b, 1, k)
           r == a \o p
<1>1. Len(a) \in Nat /\ Len(b) \in Nat
  BY LenProperties
<1>2. /\ a \o b \in Seq(S)
      /\ Len(a \o b) = Len(a) + Len(b)
      /\ \A i \in 1 .. Len(a) + Len(b) :
           (a \o b)[i] = IF i <= Len(a) THEN a[i] ELSE b[i - Len(a)]
  BY ConcatProperties
<1>3. /\ l \in Seq(S)
      /\ Len(l) = Len(a) + k
      /\ \A i \in 1 .. Len(a) + k : l[i] = (a \o b)[i]
  <2>1. 1 \in 1 .. Len(a \o b) + 1 /\ Len(a) + k \in 1 - 1 .. Len(a \o b)
    BY <1>1, <1>2
  <2>2. /\ l \in Seq(S)
        /\ Len(l) = Len(a) + k - 1 + 1
        /\ \A i \in 1 .. Len(a) + k - 1 + 1 : l[i] = (a \o b)[1 + i - 1]
    BY <1>2, <2>1, Part
  <2> QED
    BY <1>1, <2>2
<1>4. /\ p \in Seq(S)
      /\ Len(p) = k
      /\ \A i \in 1 .. k : p[i] = b[i]
  <2>1. 1 \in 1 .. Len(b) + 1 /\ k \in 1 - 1 .. Len(b)
    BY <1>1
  <2>2. /\ p \in Seq(S)
        /\ Len(p) = k - 1 + 1
        /\ \A i \in 1 .. k - 1 + 1 : p[i] = b[1 + i - 1]
    BY <2>1, Part
  <2> QED
    BY <1>1, <2>2
<1>5. /\ r \in Seq(S)
      /\ Len(r) = Len(a) + k
      /\ \A i \in 1 .. Len(a) + k :
           r[i] = IF i <= Len(a) THEN a[i] ELSE p[i - Len(a)]
  BY <1>4, ConcatProperties
<1> HIDE DEF l, p, r
<1>6. \A i \in 1 .. Len(l) : l[i] = r[i]
  <2> SUFFICES ASSUME NEW i \in 1 .. Len(a) + k
               PROVE  l[i] = r[i]
    BY <1>3
  <2>1. l[i] = IF i <= Len(a) THEN a[i] ELSE b[i - Len(a)]
    BY <1>1, <1>2, <1>3
  <2>2. i > Len(a) => p[i - Len(a)] = b[i - Len(a)]
    BY <1>1, <1>4
  <2> QED
    BY <1>5, <2>1, <2>2
<1>7. l = r
  BY <1>3, <1>5, <1>6, SeqEqual
<1> QED
  BY <1>7 DEF l, p, r

-----------------------------------------------------------------------------
(* The three parts of a well-typed window, and how they join up.           *)
LEMMA Parts ==
  ASSUME TypeOK
  PROVE  /\ num_flushed \in Nat
         /\ Len(leaf_nodes) \in Nat
         /\ Len(uninserted_leaf_nodes) \in Nat
         /\ Inserted \in Seq(Hash)
         /\ Len(Inserted) = Len(leaf_nodes) + Len(uninserted_leaf_nodes)
         /\ num_leaves \in Nat
         /\ num_leaves = num_flushed + Len(Inserted)
         /\ max_index \in Nat
         /\ Whole \in Seq(Hash)
         /\ Len(Whole) = num_leaves
         /\ Whole = flushed \o Inserted
<1> USE DEF TypeOK
<1>1. /\ num_flushed \in Nat
      /\ Len(leaf_nodes) \in Nat
      /\ Len(uninserted_leaf_nodes) \in Nat
  BY LenProperties
<1>2. /\ Inserted \in Seq(Hash)
      /\ Len(Inserted) = Len(leaf_nodes) + Len(uninserted_leaf_nodes)
  BY Concat DEF Inserted
<1>3. /\ num_leaves \in Nat /\ max_index \in Nat
      /\ num_leaves = num_flushed + Len(Inserted)
  BY <1>1, <1>2 DEF num_leaves, max_index
<1>4. Whole = flushed \o Inserted
  BY ConcatAssociative, SMTT(20) DEF Whole, Inserted
<1>5. Whole \in Seq(Hash) /\ Len(Whole) = num_leaves
  <2>1. /\ flushed \o Inserted \in Seq(Hash)
        /\ Len(flushed \o Inserted) = Len(flushed) + Len(Inserted)
    BY <1>2, Concat
  <2> QED
    BY <1>1, <1>2, <1>4, <2>1 DEF num_leaves
<1> QED
  BY <1>1, <1>2, <1>3, <1>4, <1>5

(* The number of leaves after a step, from the parts it leaves.            *)
LEMMA NumLeaves ==
  num_leaves' = num_flushed' + Len(leaf_nodes') + Len(uninserted_leaf_nodes')
BY DEF num_leaves

(* Cutting the inserted leaves at n: two parts, of known type and length.  *)
LEMMA Cut ==
  ASSUME TypeOK, NEW n \in 0 .. Len(Inserted),
         NEW head, head = SubSeq(Inserted, 1, n),
         NEW tail, tail = SubSeq(Inserted, n + 1, Len(Inserted))
  PROVE  /\ head \in Seq(Hash) /\ Len(head) = n
         /\ tail \in Seq(Hash) /\ Len(tail) = Len(Inserted) - n
         /\ flushed \o head \in Seq(Hash)
         /\ Len(flushed \o head) = num_flushed + n
         /\ (flushed \o head) \o tail = Whole
         /\ flushed \o head = SubSeq(Whole, 1, num_flushed + n)
<1>1. /\ Inserted \in Seq(Hash) /\ Len(Inserted) \in Nat
      /\ flushed \in Seq(Hash) /\ num_flushed = Len(flushed)
      /\ num_flushed \in Nat
      /\ n \in Nat
  BY Parts DEF TypeOK
<1>2. /\ 1 \in 1 .. Len(Inserted) + 1 /\ n \in 1 - 1 .. Len(Inserted)
      /\ n + 1 \in 1 .. Len(Inserted) + 1
      /\ Len(Inserted) \in n + 1 - 1 .. Len(Inserted)
  BY <1>1
<1>3. head \in Seq(Hash) /\ Len(head) = n
  <2>1. head \in Seq(Hash) /\ Len(head) = n - 1 + 1
    BY <1>1, <1>2, Part
  <2> QED
    BY <1>1, <2>1
<1>4. tail \in Seq(Hash) /\ Len(tail) = Len(Inserted) - n
  <2>1. tail \in Seq(Hash) /\ Len(tail) = Len(Inserted) - (n + 1) + 1
    BY <1>1, <1>2, Part
  <2> QED
    BY <1>1, <2>1
<1>5. head \o tail = Inserted
  BY <1>1, Split
<1>6. flushed \o head = SubSeq(flushed \o Inserted, 1, Len(flushed) + n)
  BY <1>1, PrefixOfConcat
<1>7. flushed \o head \in Seq(Hash) /\ Len(flushed \o head) = num_flushed + n
  BY <1>1, <1>3, Concat
<1>8. (flushed \o head) \o tail = flushed \o (head \o tail)
  <2>1. flushed \in Seq(Hash) /\ head \in Seq(Hash) /\ tail \in Seq(Hash)
    BY <1>1, <1>3, <1>4
  <2>2. \A a, b, c \in Seq(Hash) : (a \o b) \o c = a \o (b \o c)
    BY ConcatAssociative, SMTT(20)
  <2> QED
    BY <2>1, <2>2, Zenon
<1>9. Whole = flushed \o Inserted
  BY Parts
<1> QED
  BY <1>1, <1>3, <1>4, <1>5, <1>6, <1>7, <1>8, <1>9

-----------------------------------------------------------------------------
(* Every operation's effect on the log, and the type of what it leaves.    *)

LEMMA InsertEffect ==
  ASSUME TypeOK, NEW h \in Hash, Insert(h)
  PROVE  TypeOK' /\ num_leaves' = num_leaves + 1 /\ num_flushed' = num_flushed
         /\ Whole' = Append(Whole, h)
<1> DEFINE u == Append(uninserted_leaf_nodes, h)
<1>1. /\ leaf_nodes' = leaf_nodes /\ num_flushed' = num_flushed
      /\ flushed' = flushed /\ uninserted_leaf_nodes' = u
  BY DEF Insert
<1>2. u \in Seq(Hash) /\ Len(u) = Len(uninserted_leaf_nodes) + 1
  BY AppendProperties DEF TypeOK
<1>3. flushed \o leaf_nodes \in Seq(Hash)
  BY Concat DEF TypeOK
<1>4. /\ u = uninserted_leaf_nodes \o <<h>>
      /\ Append(Whole, h) = Whole \o <<h>>
      /\ <<h>> \in Seq(Hash)
  BY AppendIsConcat, Parts, SMTT(20) DEF TypeOK
<1>5. (flushed \o leaf_nodes) \o u = Append(Whole, h)
  <2>1. \A a, b, c \in Seq(Hash) : (a \o b) \o c = a \o (b \o c)
    BY ConcatAssociative
  <2> QED
    <3>1. (flushed \o leaf_nodes) \o (uninserted_leaf_nodes \o <<h>>)
            = ((flushed \o leaf_nodes) \o uninserted_leaf_nodes) \o <<h>>
      BY <1>3, <1>4, <2>1 DEF TypeOK
    <3> QED
      BY <1>4, <3>1 DEF Whole
<1>6. num_leaves' = num_leaves + 1
  BY <1>1, <1>2, Parts DEF num_leaves
<1> QED
  BY <1>1, <1>2, <1>5, <1>6 DEF Whole, TypeOK

LEMMA QueryEffect ==
  ASSUME TypeOK, Query
  PROVE  TypeOK' /\ num_leaves' = num_leaves /\ num_flushed' = num_flushed
         /\ Whole' = Whole
<1>1. /\ leaf_nodes' = Inserted /\ num_flushed' = num_flushed
      /\ flushed' = flushed /\ uninserted_leaf_nodes' = <<>>
  BY DEF Query, InsertLeaves
<1>2. Whole' = (flushed \o Inserted) \o <<>>
  BY <1>1 DEF Whole
<1>3. Whole' = Whole
  BY <1>2, Parts, ConcatEmptySeq
<1>4. num_leaves' = num_leaves
  BY <1>1, Parts, NumLeaves, EmptySeq
<1>5. TypeOK'
  BY <1>1, Parts DEF TypeOK
<1> QED
  BY <1>1, <1>3, <1>4, <1>5

LEMMA FlushToEffect ==
  ASSUME TypeOK, NEW index \in Nat, FlushTo(index)
  PROVE  TypeOK' /\ num_leaves' = num_leaves /\ num_flushed' = index
         /\ Whole' = Whole /\ index \in num_flushed .. num_leaves - 1
<1> DEFINE n == index - num_flushed
           head == SubSeq(Inserted, 1, n)
           tail == SubSeq(Inserted, n + 1, Len(Inserted))
<1>1. /\ leaf_nodes' = tail /\ num_flushed' = num_flushed + n
      /\ flushed' = flushed \o head /\ uninserted_leaf_nodes' = <<>>
  BY DEF FlushTo, NumNewlyFlushed
<1>2. num_flushed < index /\ index <= num_leaves - 1
  BY Parts DEF FlushTo, Readable, min_index, max_index
<1> HIDE DEF head, tail
<1>3. n \in 0 .. Len(Inserted) /\ num_flushed + n = index
  BY <1>2, Parts
<1> HIDE DEF n
<1>4. /\ tail \in Seq(Hash) /\ Len(tail) = Len(Inserted) - n
      /\ flushed \o head \in Seq(Hash)
      /\ Len(flushed \o head) = num_flushed + n
      /\ (flushed \o head) \o tail = Whole
  BY <1>3, Cut DEF head, tail
<1>5. Whole' = Whole
  BY <1>1, <1>4, Parts, ConcatEmptySeq DEF Whole
<1>6. num_leaves' = num_leaves
  <2>1. num_leaves' = (num_flushed + n) + (Len(Inserted) - n) + 0
    BY <1>1, <1>4, NumLeaves, EmptySeq
  <2> QED
    BY <1>3, <2>1, Parts
<1>7. TypeOK'
  BY <1>1, <1>4 DEF TypeOK
<1>8. index \in num_flushed .. num_leaves - 1
  BY <1>2, Parts
<1> QED
  BY <1>1, <1>3, <1>5, <1>6, <1>7, <1>8

LEMMA RetractToEffect ==
  ASSUME TypeOK, WindowNeverEmpty, NEW index \in Nat, RetractTo(index)
  PROVE  TypeOK' /\ num_leaves' = index + 1 /\ num_flushed' = num_flushed
         /\ Whole' = SubSeq(Whole, 1, index + 1)
         /\ index \in num_flushed .. num_leaves - 1
<1>1. CASE RetractWaiting(index)
  <2> DEFINE k == Over(index)
             u == SubSeq(uninserted_leaf_nodes, 1, k)
  <2>1. /\ uninserted_leaf_nodes' = u /\ leaf_nodes' = leaf_nodes
        /\ num_flushed' = num_flushed /\ flushed' = flushed
    BY <1>1 DEF RetractWaiting
  <2>2. /\ index >= num_flushed + Len(leaf_nodes) /\ index <= num_leaves - 1
        /\ k = index - (num_flushed + Len(leaf_nodes)) + 1
    BY <1>1, Parts DEF RetractWaiting, max_index, Over
  <2>3. /\ 1 \in 1 .. Len(uninserted_leaf_nodes) + 1
        /\ k \in 1 - 1 .. Len(uninserted_leaf_nodes)
        /\ k \in 0 .. Len(uninserted_leaf_nodes)
    BY <2>2, Parts, SMTT(20) DEF num_leaves
  <2> HIDE DEF k
  <2>4. u \in Seq(Hash) /\ Len(u) = k - 1 + 1
    BY <2>3, Part DEF TypeOK
  <2>5. /\ flushed \o leaf_nodes \in Seq(Hash)
        /\ Len(flushed \o leaf_nodes) = num_flushed + Len(leaf_nodes)
    BY Concat DEF TypeOK
  <2>6. (flushed \o leaf_nodes) \o u
          = SubSeq(Whole, 1, Len(flushed \o leaf_nodes) + k)
    BY <2>3, <2>5, PrefixOfConcat, ZenonT(30) DEF Whole, TypeOK
  <2>7. Len(flushed \o leaf_nodes) + k = index + 1
    BY <2>2, <2>5, Parts, SMTT(20)
  <2> HIDE DEF u
  <2>8. Whole' = SubSeq(Whole, 1, index + 1)
    BY <2>1, <2>6, <2>7 DEF Whole
  <2>9. num_leaves' = index + 1
    <3>1. num_leaves' = num_flushed + Len(leaf_nodes) + (k - 1 + 1)
      BY <2>1, <2>4, NumLeaves
    <3> QED
      BY <2>2, <3>1, Parts, SMTT(20)
  <2>10. TypeOK' /\ index \in num_flushed .. num_leaves - 1
    BY <2>1, <2>2, <2>4, Parts DEF TypeOK
  <2> QED
    BY <2>1, <2>8, <2>9, <2>10
<1>2. CASE RetractInserted(index)
  <2> DEFINE nr == num_leaves - index - 1
             n == Len(Inserted) - nr
             head == SubSeq(Inserted, 1, n)
             tail == SubSeq(Inserted, n + 1, Len(Inserted))
  <2>1. /\ leaf_nodes' = IF nr < Len(Inserted) THEN head ELSE <<>>
        /\ uninserted_leaf_nodes' = <<>>
        /\ num_flushed' = num_flushed /\ flushed' = flushed
    BY <1>2 DEF RetractInserted
  <2>2. num_flushed <= index /\ index <= num_leaves - 1
    BY <1>2, Parts DEF RetractInserted, Readable, min_index, max_index
  <2>3. nr < Len(Inserted) /\ n \in 0 .. Len(Inserted)
        /\ num_flushed + n = index + 1
    <3> HIDE DEF head, tail
    <3>1. Len(Inserted) \in Nat /\ num_flushed \in Nat
          /\ num_leaves = num_flushed + Len(Inserted)
      BY Parts
    <3>2. nr = num_flushed + Len(Inserted) - index - 1
      BY <3>1
    <3>3. n = index + 1 - num_flushed
      BY <3>1, <3>2
    <3> QED
      BY <2>2, <3>1, <3>2, <3>3
  <2>4. leaf_nodes' = head
    BY <2>1, <2>3
  <2>5. /\ head \in Seq(Hash) /\ Len(head) = n
        /\ flushed \o head \in Seq(Hash)
        /\ flushed \o head = SubSeq(Whole, 1, num_flushed + n)
    <3> HIDE DEF nr, n
    <3> QED
      BY <2>3, Cut
  <2> HIDE DEF nr, n, head, tail
  <2>6. Whole' = SubSeq(Whole, 1, index + 1)
    <3>1. Whole' = (flushed \o head) \o <<>>
      BY <2>1, <2>4 DEF Whole
    <3> QED
      BY <2>3, <2>5, <3>1, ConcatEmptySeq
  <2>7. num_leaves' = index + 1
    BY <2>1, <2>3, <2>4, <2>5, Parts, NumLeaves, EmptySeq, SMTT(20)
  <2>8. TypeOK' /\ index \in num_flushed .. num_leaves - 1
    BY <2>1, <2>2, <2>4, <2>5, Parts DEF TypeOK
  <2> QED
    BY <2>1, <2>6, <2>7, <2>8
<1> QED
  BY <1>1, <1>2 DEF RetractTo

LEMMA ReloadEffect ==
  ASSUME TypeOK, NEW from \in Nat, NEW to \in Nat, Reload(from, to)
  PROVE  TypeOK' /\ num_leaves' = to + 1 /\ num_flushed' = from
         /\ Whole' = SubSeq(Whole, 1, to + 1)
         /\ from \in num_flushed .. num_leaves - 1
         /\ to \in num_flushed .. num_leaves - 1
         /\ from <= to
<1> DEFINE i == from - num_flushed
           j == to - num_flushed + 1
           skip == SubSeq(Inserted, 1, i)
           keep == SubSeq(Inserted, i + 1, j)
           both == SubSeq(Inserted, 1, j)
<1>1. /\ leaf_nodes' = keep /\ num_flushed' = from
      /\ flushed' = flushed \o skip /\ uninserted_leaf_nodes' = <<>>
  BY DEF Reload
<1>2. /\ num_flushed <= from /\ from <= to /\ to <= num_leaves - 1
      /\ from <= num_leaves - 1
  BY Parts DEF Reload, Readable, min_index, max_index
<1> HIDE DEF skip, keep, both
<1>3. /\ Len(Inserted) \in Nat /\ num_flushed \in Nat
      /\ num_leaves = num_flushed + Len(Inserted)
      /\ Inserted \in Seq(Hash)
  BY Parts
<1>4. /\ i \in 0 .. Len(Inserted) /\ j \in 0 .. Len(Inserted)
      /\ i + 1 \in 1 .. Len(Inserted) + 1 /\ j \in i + 1 - 1 .. Len(Inserted)
      /\ 1 \in 1 .. Len(Inserted) + 1 /\ i \in 1 - 1 .. j
      /\ num_flushed + i = from /\ num_flushed + j = to + 1
  BY <1>2, <1>3
<1> HIDE DEF i, j
<1>5. /\ skip \in Seq(Hash)
      /\ flushed \o skip \in Seq(Hash)
      /\ Len(flushed \o skip) = num_flushed + i
  BY <1>4, Cut DEF skip
<1>6. flushed \o both = SubSeq(Whole, 1, num_flushed + j)
  BY <1>4, Cut DEF both
<1>7. keep \in Seq(Hash) /\ Len(keep) = j - (i + 1) + 1
  BY <1>3, <1>4, Part DEF keep
<1>8. skip \o keep = both
  <2>1. i \in 1 - 1 .. Len(Inserted) /\ j \in i .. Len(Inserted)
    BY <1>3, <1>4
  <2> QED
    BY <1>3, <1>4, <2>1, ConcatAdjacentSubSeq DEF skip, keep, both
<1>9. (flushed \o skip) \o keep = flushed \o (skip \o keep)
  <2>1. flushed \in Seq(Hash) /\ skip \in Seq(Hash) /\ keep \in Seq(Hash)
    BY <1>5, <1>7 DEF TypeOK
  <2>2. \A a, b, c \in Seq(Hash) : (a \o b) \o c = a \o (b \o c)
    BY ConcatAssociative, SMTT(20)
  <2> QED
    BY <2>1, <2>2, Zenon
<1>10. Whole' = SubSeq(Whole, 1, to + 1)
  <2>1. Whole' = ((flushed \o skip) \o keep) \o <<>>
    BY <1>1 DEF Whole
  <2>2. (flushed \o skip) \o keep \in Seq(Hash)
    BY <1>5, <1>7, Concat
  <2> QED
    BY <1>4, <1>6, <1>8, <1>9, <2>1, <2>2, ConcatEmptySeq
<1>11. num_leaves' = to + 1
  <2>1. num_leaves' = from + (j - (i + 1) + 1) + 0
    BY <1>1, <1>7, NumLeaves, EmptySeq
  <2> QED
    BY <1>3, <1>4, <2>1
<1>12. TypeOK'
  BY <1>1, <1>4, <1>5, <1>7 DEF TypeOK
<1> QED
  BY <1>1, <1>2, <1>3, <1>10, <1>11, <1>12

-----------------------------------------------------------------------------
(* The invariant holds initially and every step preserves it.              *)
LEMMA Inductive ==
  /\ Init => IInv
  /\ IInv /\ [Next]_vars => IInv'
<1>1. Init => IInv
  <2>1. ASSUME Init PROVE IInv
    <3>1. TypeOK
      BY <2>1, EmptySeq DEF Init, TypeOK
    <3>2. num_leaves = 0
      BY <2>1, EmptySeq DEF Init, num_leaves
    <3> QED
      BY <3>1, <3>2, MaxLeavesAssumption DEF IInv, WindowNeverEmpty
  <2> QED
    BY <2>1
<1>2. ASSUME IInv, [Next]_vars PROVE IInv'
  <2> USE DEF IInv
  <2>0. num_leaves \in Nat /\ max_index \in Nat /\ num_flushed \in Nat
        /\ num_leaves <= MaxLeaves /\ MaxLeaves \in Nat
        /\ num_flushed <= num_leaves
    BY <1>2, Parts, MaxLeavesAssumption
  <2>1. ASSUME NEW h \in Hash, Insert(h) PROVE IInv'
    <3>1. TypeOK' /\ num_leaves' = num_leaves + 1 /\ num_flushed' = num_flushed
      BY <1>2, <2>1, InsertEffect
    <3>2. num_leaves < MaxLeaves
      BY <2>1 DEF Insert
    <3> QED
      BY <1>2, <2>0, <3>1, <3>2 DEF WindowNeverEmpty, min_index
  <2>2. ASSUME Query PROVE IInv'
    BY <1>2, <2>2, QueryEffect DEF WindowNeverEmpty, min_index
  <2>3. ASSUME NEW index \in 0 .. max_index, FlushTo(index) PROVE IInv'
    <3>1. index \in Nat
      BY <2>0
    <3> QED
      BY <1>2, <2>0, <2>3, <3>1, FlushToEffect DEF WindowNeverEmpty, min_index
  <2>4. ASSUME NEW index \in 0 .. max_index, RetractTo(index) PROVE IInv'
    <3>1. index \in Nat
      BY <2>0
    <3> QED
      BY <1>2, <2>0, <2>4, <3>1, RetractToEffect DEF WindowNeverEmpty, min_index
  <2>5. ASSUME NEW from \in 0 .. max_index, NEW to \in 0 .. max_index,
               Reload(from, to)
        PROVE  IInv'
    <3>1. from \in Nat /\ to \in Nat
      BY <2>0
    <3> QED
      BY <1>2, <2>0, <2>5, <3>1, ReloadEffect DEF WindowNeverEmpty, min_index
  <2>6. CASE UNCHANGED vars
    BY <1>2, <2>6 DEF vars, TypeOK, WindowNeverEmpty, num_leaves, min_index
  <2> QED
    BY <1>2, <2>1, <2>2, <2>3, <2>4, <2>5, <2>6 DEF Next
<1> QED
  BY <1>1, <1>2

(* The reads of leaf() follow from the invariant: the two differences      *)
(* wrap at most once, and a wrapped one is too large for both vectors.     *)
LEMMA LeafIsRead ==
  IInv => LeafReadsTheLog
<1> SUFFICES ASSUME IInv, NEW index \in 0 .. num_leaves
             PROVE  Leaf(index) = IF index \in min_index .. num_leaves - 1
                                  THEN Whole[index + 1] ELSE OutOfRange
  BY DEF LeafReadsTheLog, Whole
<1> DEFINE f == num_flushed
           l == Len(leaf_nodes)
           u == Len(uninserted_leaf_nodes)
           w == WordSize
           i == Minus(index, f)
           j == Minus(i, l)
<1>1. /\ f \in Nat /\ l \in Nat /\ u \in Nat /\ w \in Nat
      /\ num_leaves = f + l + u /\ f + l + u < w /\ index \in Nat
      /\ index <= f + l + u
  BY Parts, MaxLeavesAssumption, WordSizeAssumption DEF IInv, num_leaves
<1>2. \A a, b \in 0 .. w - 1 : Minus(a, b) = IF a >= b THEN a - b ELSE a - b + w
  <2>1. \A x \in 0 .. w - 1 : x % w = x /\ (x - w) % w = x
    BY <1>1
  <2> SUFFICES ASSUME NEW a \in 0 .. w - 1, NEW b \in 0 .. w - 1
               PROVE  Minus(a, b) = IF a >= b THEN a - b ELSE a - b + w
    OBVIOUS
  <2>2. CASE a >= b
    BY <1>1, <2>1, <2>2 DEF Minus
  <2>3. CASE a < b
    <3>1. a - b + w \in 0 .. w - 1 /\ (a - b + w) - w = a - b
      BY <1>1, <2>3
    <3>2. (a - b) % w = a - b + w
      BY <2>1, <3>1
    <3> QED
      BY <1>1, <2>3, <3>2 DEF Minus
  <2> QED
    BY <1>1, <2>2, <2>3
<1>3. i = IF index >= f THEN index - f ELSE index - f + w
  <2>1. index \in 0 .. w - 1 /\ f \in 0 .. w - 1
    BY <1>1
  <2> HIDE DEF f, w
  <2> QED
    BY <1>2, <2>1
<1>4. i \in 0 .. w - 1
  <2> HIDE DEF f, i
  <2> QED
    BY <1>1, <1>3
<1>5. j = IF i >= l THEN i - l ELSE i - l + w
  <2>1. l \in 0 .. w - 1
    BY <1>1
  <2> HIDE DEF l, i, w
  <2> QED
    BY <1>2, <1>4, <2>1
<1>6. /\ \A k \in 1 .. l : Whole[f + k] = leaf_nodes[k]
      /\ \A k \in 1 .. u : Whole[f + l + k] = uninserted_leaf_nodes[k]
  <2>1. /\ flushed \in Seq(Hash) /\ leaf_nodes \in Seq(Hash) /\ f = Len(flushed)
        /\ uninserted_leaf_nodes \in Seq(Hash)
    BY DEF IInv, TypeOK
  <2>2. /\ flushed \o leaf_nodes \in Seq(Hash)
        /\ Len(flushed \o leaf_nodes) = f + l
        /\ \A k \in 1 .. f + l : (flushed \o leaf_nodes)[k] =
              IF k <= f THEN flushed[k] ELSE leaf_nodes[k - f]
    BY <2>1, ConcatProperties
  <2>3. \A k \in 1 .. (f + l) + u : Whole[k] =
          IF k <= f + l THEN (flushed \o leaf_nodes)[k]
          ELSE uninserted_leaf_nodes[k - (f + l)]
    BY <2>1, <2>2, ConcatProperties DEF Whole
  <2> HIDE DEF f, l, u
  <2>4. ASSUME NEW k \in 1 .. l PROVE Whole[f + k] = leaf_nodes[k]
    <3>1. f + k \in 1 .. f + l /\ f + k \in 1 .. (f + l) + u
          /\ ~(f + k <= f) /\ f + k <= f + l /\ (f + k) - f = k
      BY <1>1
    <3>2. Whole[f + k] = (flushed \o leaf_nodes)[f + k]
      BY <2>3, <3>1
    <3>3. (flushed \o leaf_nodes)[f + k] = leaf_nodes[k]
      BY <2>2, <3>1
    <3> QED
      BY <3>2, <3>3
  <2>5. ASSUME NEW k \in 1 .. u PROVE Whole[f + l + k] = uninserted_leaf_nodes[k]
    <3>1. f + l + k \in 1 .. (f + l) + u /\ ~(f + l + k <= f + l)
          /\ (f + l + k) - (f + l) = k
      BY <1>1
    <3> QED
      BY <2>3, <3>1
  <2> QED
    BY <2>4, <2>5
<1>7. Leaf(index) = IF index >= num_leaves THEN OutOfRange
                    ELSE IF i < l THEN leaf_nodes[i + 1]
                    ELSE IF j < u THEN uninserted_leaf_nodes[j + 1]
                    ELSE OutOfRange
  BY DEF Leaf
<1> HIDE DEF f, l, u, w, i, j
<1>8. CASE index < f
  <2>1. ~(i < l) /\ ~(j < u)
    BY <1>1, <1>3, <1>5, <1>8
  <2> QED
    BY <1>1, <1>7, <1>8, <2>1 DEF f, min_index
<1>9. CASE index >= f /\ index < f + l
  <2>1. i < l /\ i + 1 \in 1 .. l /\ f + (i + 1) = index + 1
    BY <1>1, <1>3, <1>9
  <2>2. Whole[index + 1] = leaf_nodes[i + 1]
    BY <1>6, <2>1
  <2>3. index \in min_index .. num_leaves - 1 /\ ~(index >= num_leaves)
    BY <1>1, <1>9 DEF f, min_index
  <2> QED
    BY <1>7, <2>1, <2>2, <2>3
<1>10. CASE index >= f + l /\ index < f + l + u
  <2>1. ~(i < l) /\ j < u /\ j + 1 \in 1 .. u /\ f + l + (j + 1) = index + 1
    BY <1>1, <1>3, <1>5, <1>10
  <2>2. Whole[index + 1] = uninserted_leaf_nodes[j + 1]
    BY <1>6, <2>1
  <2>3. index \in min_index .. num_leaves - 1 /\ ~(index >= num_leaves)
    BY <1>1, <1>10 DEF f, min_index
  <2> QED
    BY <1>7, <2>1, <2>2, <2>3
<1>11. CASE index = f + l + u
  BY <1>1, <1>7, <1>11
<1> QED
  BY <1>1, <1>8, <1>9, <1>10, <1>11

-----------------------------------------------------------------------------
(* Initial states and steps of the window are those of the log.            *)
LEMMA InitIsLogInit ==
  Init => Log!LogInit
BY ConcatEmptySeq, EmptySeq DEF Init, Log!LogInit

LEMMA NextIsLogNext ==
  ASSUME IInv, [Next]_vars
  PROVE  [Log!LogNext]_(Log!logVars)
<1> USE DEF IInv
<1>1. /\ num_leaves \in Nat /\ max_index \in Nat /\ num_flushed \in Nat
      /\ Len(Whole) = num_leaves
  BY Parts
<1>2. Log!Indices = num_flushed .. num_leaves - 1
  BY <1>1 DEF Log!Indices, Whole
<1>3. ASSUME NEW h \in Hash, Insert(h) PROVE Log!LogInsert(h)
  BY <1>3, InsertEffect DEF Log!LogInsert, Whole
<1>4. ASSUME Query PROVE UNCHANGED Log!logVars
  BY <1>4, QueryEffect DEF Log!logVars, Whole
<1>5. ASSUME NEW index \in 0 .. max_index, FlushTo(index)
      PROVE  index \in Log!Indices /\ Log!LogFlush(index)
  <2>1. index \in Nat
    BY <1>1
  <2> QED
    BY <1>2, <1>5, <2>1, FlushToEffect DEF Log!LogFlush, Whole
<1>6. ASSUME NEW index \in 0 .. max_index, RetractTo(index)
      PROVE  index \in Log!Indices /\ Log!LogRetract(index)
  <2>1. index \in Nat
    BY <1>1
  <2> QED
    BY <1>2, <1>6, <2>1, RetractToEffect DEF Log!LogRetract, Whole
<1>7. ASSUME NEW from \in 0 .. max_index, NEW to \in 0 .. max_index,
             Reload(from, to)
      PROVE  /\ from \in Log!Indices /\ to \in Log!Indices /\ from <= to
             /\ Log!LogSegment(from, to)
  <2>1. from \in Nat /\ to \in Nat
    BY <1>1
  <2> QED
    BY <1>2, <1>7, <2>1, ReloadEffect DEF Log!LogSegment, Whole
<1>8. ASSUME UNCHANGED vars PROVE UNCHANGED Log!logVars
  BY <1>8 DEF vars, Log!logVars
<1> QED
  BY <1>3, <1>4, <1>5, <1>6, <1>7, <1>8 DEF Next, Log!LogNext

-----------------------------------------------------------------------------
(* The inductive invariant holds in every reachable state.                 *)
THEOREM Invariance == Spec => []IInv
BY Inductive, PTL DEF Spec

(* The type invariant, for every set of hashes and every bound.            *)
THEOREM TypeCorrect == Spec => []TypeOK
<1>1. IInv => TypeOK
  BY DEF IInv
<1> QED
  BY <1>1, Invariance, PTL

(* No sequence of calls leaves a non-empty tree without a readable leaf.   *)
THEOREM NeverEmpty == Spec => []WindowNeverEmpty
<1>1. IInv => WindowNeverEmpty
  BY DEF IInv
<1> QED
  BY <1>1, Invariance, PTL

(* leaf() reads exactly the unflushed part of the log, in a word of any    *)
(* size that holds the number of leaves.                                   *)
THEOREM LeafReads == Spec => []LeafReadsTheLog
BY LeafIsRead, Invariance, PTL

(* The bookkeeping implements the append-only log.                         *)
THEOREM Refinement == Spec => ImplementsLog
<1>1. IInv /\ [Next]_vars => [Log!LogNext]_(Log!logVars)
  BY NextIsLogNext
<1> QED
  BY <1>1, InitIsLogInit, Invariance, PTL DEF Spec, ImplementsLog, Log!LogSpec
=============================================================================
