------------------------- MODULE MerkleTree_proofs --------------------------
(***************************************************************************)
(* Safety of the Merkle tree, for every number of leaves and values: its   *)
(* type, the hashes of its clean nodes, who owns its nodes, the root, which *)
(* is the hash of all its leaves, its paths, and its past roots and paths. *)
(*                                                                         *)
(* The invariant (StateIs) is that the tree is what its leaves say         *)
(* (MerkleInsert_proofs).  The walk to a leaf, flushing and retraction are *)
(* followed one height at a time: what retract_to leaves of the tree is, at *)
(* each turn, the tree of the leaves before the index (Cut).               *)
(*                                                                         *)
(* The theorems are about the calls of a tree of one owner: insert, read the *)
(* root, size, flush and retract.  A copy of a tree or its reload may leave a *)
(* tree whose root is wrong (README, findings).                            *)
(***************************************************************************)
EXTENDS MerkleInsert_proofs

(* The leaves that hang and those that wait.                               *)
Parts(t, leaves, L, m) ==
  /\ L \in Seq(LeafHashes) /\ m \in Nat /\ Len(L) = m /\ m = t.num_flushed + Len(t.leaf_nodes)
  /\ Len(leaves) = m + Len(t.uninserted_leaf_nodes)
  /\ \A i \in 1 .. m : L[i] = leaves[i]

LEMMA PartsAre ==
  ASSUME NEW t, NEW w, NEW leaves, NEW S, NEW par, NEW off, NEW cnt, NEW p, NEW b,
         Holds(t, w, 0, leaves, S, par, off, cnt, p, b)
  PROVE  \E L, m : Parts(t, leaves, L, m) /\ L = Hanging(leaves, w, 0)
<1>1. /\ leaves \in Seq(LeafHashes) /\ w \in Seq(Nat) /\ Len(w) <= Len(leaves)
      /\ t.uninserted_leaf_nodes = w
      /\ LeavesHang(t, Hanging(leaves, w, 0), S, off, cnt)
  BY DEF Holds
<1>2. PICK L, z, m : L = Hanging(leaves, w, z) /\ z = 0 /\ m = Len(leaves) - Len(w)
  OBVIOUS
<1>3. z \in 0 .. Len(w) /\ m \in Nat /\ Len(leaves) - Len(w) + z = m /\ Len(leaves) = m + Len(w)
  BY <1>1, <1>2
<1>4. /\ Hanging(leaves, w, z) \in Seq(LeafHashes)
      /\ Len(Hanging(leaves, w, z)) = Len(leaves) - Len(w) + z
      /\ \A i \in 1 .. Len(leaves) - Len(w) + z : Hanging(leaves, w, z)[i] = leaves[i]
  BY <1>1, <1>3, HangingIs
<1>5. L \in Seq(LeafHashes) /\ Len(L) = m /\ \A i \in 1 .. m : L[i] = leaves[i]
  BY <1>2, <1>3, <1>4
<1>6. Len(L) = t.num_flushed + Len(t.leaf_nodes)
  BY <1>1, <1>2 DEF LeavesHang
<1>7. Parts(t, leaves, L, m)
  BY <1>1, <1>3, <1>5, <1>6 DEF Parts
<1> QED
  BY <1>2, <1>7

(* What hangs is a good tree, what waits is leaves.                        *)
Placed(t, L, S, par, off, cnt, p, b) ==
  \/ L = <<>> /\ S = {} /\ t.root = Nil /\ t.insertion_stack = <<>>
  \/ /\ L # <<>> /\ b \in Nat /\ Len(t.insertion_stack) = b /\ p[b + 1] = t.root
     /\ \A i \in 1 .. b : t.insertion_stack[i].n = p[i] /\ p[i] \in S
     /\ Good(t.heap, S, par, off, cnt, p[1], L, t.num_flushed, NodesAt(p, b))
     /\ p[1] \in S /\ t.root \in S

Waits(t, w, S, leaves) ==
  /\ DOMAIN t.heap = S \cup Range(w)
  /\ \A i \in 1 .. Len(w) :
       w[i] \notin S /\ t.heap[w[i]] = NewLeaf(leaves[Len(leaves) - Len(w) + i])

Holding(t, leaves, L, m, S, par, off, cnt, p, b) ==
  /\ IsTree(t) /\ leaves \in Seq(LeafHashes) /\ Parts(t, leaves, L, m)
  /\ Heap(t.heap) /\ Closed(t.heap)
  /\ Placed(t, L, S, par, off, cnt, p, b)
  /\ LeavesHang(t, L, S, off, cnt) /\ Waits(t, t.uninserted_leaf_nodes, S, leaves)

LEMMA HoldingIs ==
  ASSUME NEW t, NEW w, NEW leaves, NEW S, NEW par, NEW off, NEW cnt, NEW p, NEW b,
         Holds(t, w, 0, leaves, S, par, off, cnt, p, b)
  PROVE  \E L, m : Holding(t, leaves, L, m, S, par, off, cnt, p, b)
<1>1. PICK L, m : Parts(t, leaves, L, m) /\ L = Hanging(leaves, w, 0)
  BY PartsAre
<1>2. /\ IsTree(t) /\ leaves \in Seq(LeafHashes) /\ w \in Seq(Nat) /\ t.uninserted_leaf_nodes = w
      /\ Rooted(t, L, S, par, off, cnt, p, b)
      /\ LeavesHang(t, L, S, off, cnt)
      /\ LeavesWait(t.heap, S, w, 0, leaves)
  BY <1>1 DEF Holds
<1>3. Heap(t.heap) /\ Closed(t.heap)
  BY <1>2, RootedHeap
<1>4. Placed(t, L, S, par, off, cnt, p, b)
  <2>1. CASE L = <<>> /\ S = {} /\ t.root = Nil /\ t.insertion_stack = <<>>
    BY <2>1 DEF Placed
  <2>2. CASE L # <<>> /\ Standing(t.heap, t.insertion_stack, t.root, L, t.num_flushed, S, par, off, cnt, p, b)
    <3>1. /\ b \in Nat /\ t.root \in S /\ p[1] \in S
          /\ Good(t.heap, S, par, off, cnt, p[1], L, t.num_flushed, NodesAt(p, b))
          /\ Edge(t.heap, S, off, cnt, Len(L), p, b)
      BY <2>2, StandingParts
    <3>2. \A i \in 1 .. b : i \in 1 .. b + 1
      BY <3>1
    <3>3. \A i \in 1 .. b : p[i] \in S
      BY <3>1, <3>2 DEF Edge
    <3>4. Len(t.insertion_stack) = b /\ p[b + 1] = t.root /\ \A i \in 1 .. b : t.insertion_stack[i].n = p[i]
      BY <2>2 DEF Standing
    <3> QED
      BY <2>2, <3>1, <3>3, <3>4 DEF Placed
  <2> QED
    BY <1>2, <2>1, <2>2 DEF Rooted
<1>5. Waits(t, w, S, leaves)
  <2>1. PICK z : z = 0
    OBVIOUS
  <2>2. LeavesWait(t.heap, S, w, z, leaves)
    BY <1>2, <2>1
  <2>3. z + 1 .. Len(w) = 1 .. Len(w) /\ DOMAIN w = 1 .. Len(w)
    BY <1>2, <2>1
  <2>4. DOMAIN t.heap = S \cup {w[i] : i \in z + 1 .. Len(w)}
        /\ \A i \in z + 1 .. Len(w) :
             w[i] \notin S /\ t.heap[w[i]] = NewLeaf(leaves[Len(leaves) - Len(w) + i])
    BY <2>2 DEF LeavesWait
  <2>5. {w[i] : i \in z + 1 .. Len(w)} = Range(w)
    BY <2>3 DEF Range
  <2>6. DOMAIN t.heap = S \cup Range(w)
    BY <2>4, <2>5
  <2>7. \A i \in 1 .. Len(w) :
             w[i] \notin S /\ t.heap[w[i]] = NewLeaf(leaves[Len(leaves) - Len(w) + i])
    BY <2>3, <2>4
  <2> QED
    BY <2>6, <2>7 DEF Waits
<1>6. Holding(t, leaves, L, m, S, par, off, cnt, p, b)
  BY <1>1, <1>2, <1>3, <1>4, <1>5 DEF Holding
<1> QED
  BY <1>6

LEMMA WaitingLeaf ==
  ASSUME NEW t, NEW leaves, NEW L, NEW m, NEW S, NEW par, NEW off, NEW cnt, NEW p, NEW b,
         Holding(t, leaves, L, m, S, par, off, cnt, p, b), NEW n \in DOMAIN t.heap, n \notin S
  PROVE  n \in Range(t.uninserted_leaf_nodes) /\ t.heap[n].left = Nil /\ t.heap[n].right = Nil
<1>1. PICK w : w = t.uninserted_leaf_nodes
  OBVIOUS
<1>2. w \in Seq(Nat) /\ Waits(t, w, S, leaves)
  BY <1>1 DEF Holding, IsTree
<1>3. n \in Range(w)
  BY <1>2 DEF Waits
<1>4. PICK i \in 1 .. Len(w) : n = w[i]
  BY <1>2, <1>3 DEF Range
<1>5. PICK y, hash : y = t.heap[n] /\ y = NewLeaf(hash)
  BY <1>2, <1>4 DEF Waits
<1>6. y.left = Nil /\ y.right = Nil
  BY <1>5 DEF NewLeaf
<1> QED
  BY <1>1, <1>3, <1>5, <1>6

LEMMA HeldTree ==
  ASSUME NEW t, NEW leaves, NEW L, NEW m, NEW S, NEW par, NEW off, NEW cnt, NEW p, NEW b,
         Holding(t, leaves, L, m, S, par, off, cnt, p, b), S # {}
  PROVE  Good(t.heap, S, par, off, cnt, p[1], L, t.num_flushed, NodesAt(p, b))
         /\ b \in Nat /\ Len(t.insertion_stack) = b
  BY DEF Holding, Placed
-----------------------------------------------------------------------------
(* What the tree that is what its leaves say has of the invariants.        *)

(* The type invariant, of a tree.                                          *)
TypeIs(t) ==
  /\ \A n \in DOMAIN t.heap :
       LET node == t.heap[n]
       IN  /\ {node.left, node.right} \subseteq DOMAIN t.heap \cup {Nil}
           /\ node.size \in Nat /\ node.height \in Nat /\ node.dirty \in BOOLEAN
  /\ t.root \in DOMAIN t.heap \cup {Nil}

LEMMA HoldingType ==
  ASSUME NEW t, NEW leaves, NEW L, NEW m, NEW S, NEW par, NEW off, NEW cnt, NEW p, NEW b,
         Holding(t, leaves, L, m, S, par, off, cnt, p, b)
  PROVE  TypeIs(t)
<1>1. Heap(t.heap) /\ Closed(t.heap) /\ Placed(t, L, S, par, off, cnt, p, b)
      /\ Waits(t, t.uninserted_leaf_nodes, S, leaves)
  BY DEF Holding
<1>2. t.root \in DOMAIN t.heap \cup {Nil}
  BY <1>1 DEF Placed, Waits
<1>3. \A n \in DOMAIN t.heap : t.heap[n].size \in Nat /\ t.heap[n].height \in Nat /\ t.heap[n].dirty \in BOOLEAN
  BY <1>1 DEF Heap, IsNode
<1>4. \A n \in DOMAIN t.heap : {t.heap[n].left, t.heap[n].right} \subseteq DOMAIN t.heap \cup {Nil}
  BY <1>1 DEF Closed
<1> QED
  BY <1>2, <1>3, <1>4 DEF TypeIs

(* A node with children when no insertion is pending.                      *)
ShapeIs(heap, node) ==
  /\ node.size = Sized(heap, node).size
  /\ node.height = Sized(heap, node).height
  /\ IsFull(heap[node.left])
  /\ heap[node.left].height >= heap[node.right].height

LEMMA GoodShape ==
  ASSUME NEW heap, NEW S, NEW par, NEW off, NEW cnt, NEW top, NEW L, NEW nf,
         Good(heap, S, par, off, cnt, top, L, nf, {}), NEW n \in S, NEW x, x = heap[n], x.left # Nil
  PROVE  ShapeIs(heap, x)
<1>1. /\ Heap(heap) /\ Linked(heap, S, par, top) /\ Spans(heap, S, off, cnt, Nil, nf) /\ Measured(heap, S, cnt, {})
  BY DEF Good
<1>2. PICK l, r : l = x.left /\ r = x.right
  OBVIOUS
<1>3. l \in S /\ r \in S /\ S \subseteq DOMAIN heap /\ n # Nil /\ r # Nil
  BY <1>1, <1>2 DEF Linked, Heap, Nil
<1>4. PICK a, c, s : a = cnt[l] /\ c = cnt[r] /\ s = cnt[n]
  OBVIOUS
<1>5. a \in Powers /\ c \in Nat \ {0} /\ c <= a /\ s = a + c /\ a \in Nat
  BY <1>1, <1>2, <1>3, <1>4, PowersNat DEF Spans
<1>6. /\ heap[l].size = 2 * a - 1 /\ HeightIs(heap[l].height, a)
      /\ heap[r].size = 2 * c - 1 /\ HeightIs(heap[r].height, c)
      /\ x.size = 2 * s - 1 /\ HeightIs(x.height, s)
  BY <1>1, <1>3, <1>4 DEF Measured
<1>7. IsNode(x)
  BY <1>1, <1>3 DEF Heap
<1>8. PICK y : y = Sized(heap, x)
  OBVIOUS
<1>9. y.size = 2 * (a + c) - 1 /\ y.height = heap[l].height + 1 /\ HeightIs(y.height, a + c)
  <2>1. x.left # Nil /\ x.right # Nil
    BY <1>2, <1>3
  <2>2. heap[x.left].size = 2 * a - 1 /\ HeightIs(heap[x.left].height, a)
        /\ heap[x.right].size = 2 * c - 1 /\ HeightIs(heap[x.right].height, c)
    BY <1>2, <1>6
  <2>3. /\ IsNode(y) /\ y.left = x.left /\ y.right = x.right /\ y.hash = x.hash /\ y.dirty = x.dirty
        /\ y.size = 2 * (a + c) - 1 /\ y.height = heap[x.left].height + 1
        /\ HeightIs(y.height, a + c)
    BY <1>5, <1>7, <1>8, <2>1, <2>2, SizedNodeIs
  <2> QED
    BY <1>2, <2>3
<1>10. x.height = y.height
  <2>1. PICK g, h, q : g = x.height /\ h = y.height /\ q = a + c
    OBVIOUS
  <2>2. HeightIs(g, q) /\ HeightIs(h, q) /\ q <= q
    BY <1>5, <1>6, <1>9, <2>1
  <2>3. g <= h /\ h <= g
    BY <2>2, HeightsOrder
  <2>4. g \in Nat /\ h \in Nat
    BY <2>2 DEF HeightIs
  <2> QED
    BY <2>1, <2>3, <2>4
<1>11. IsFull(heap[l])
  <2>1. l \notin {}
    OBVIOUS
  <2> QED
    BY <1>1, <1>3, <1>4, <1>5, <2>1, FullIs
<1>12. heap[l].height >= heap[r].height
  <2>1. PICK g, h : g = heap[r].height /\ h = heap[l].height
    OBVIOUS
  <2>2. HeightIs(g, c) /\ HeightIs(h, a)
    BY <1>6, <2>1
  <2>3. g <= h
    BY <1>5, <2>2, HeightsOrder
  <2>4. g \in Nat /\ h \in Nat
    BY <2>2 DEF HeightIs
  <2> QED
    BY <2>1, <2>3, <2>4
<1> QED
  BY <1>2, <1>5, <1>6, <1>8, <1>9, <1>10, <1>11, <1>12 DEF ShapeIs

LEMMA HoldingShape ==
  ASSUME NEW t, NEW leaves, NEW L, NEW m, NEW S, NEW par, NEW off, NEW cnt, NEW p, NEW b,
         Holding(t, leaves, L, m, S, par, off, cnt, p, b), t.insertion_stack = <<>>,
         NEW n \in DOMAIN t.heap, t.heap[n].left # Nil
  PROVE  ShapeIs(t.heap, t.heap[n])
<1>1. n \in S
  BY WaitingLeaf
<1>2. Good(t.heap, S, par, off, cnt, p[1], L, t.num_flushed, NodesAt(p, b)) /\ b = 0
  <2>1. Good(t.heap, S, par, off, cnt, p[1], L, t.num_flushed, NodesAt(p, b))
        /\ b \in Nat /\ Len(t.insertion_stack) = b
    BY <1>1, HeldTree
  <2> QED
    BY <2>1
<1>3. NodesAt(p, b) = {}
  BY <1>2 DEF NodesAt
<1>4. PICK heap, x, top, nf : heap = t.heap /\ x = heap[n] /\ top = p[1] /\ nf = t.num_flushed
  OBVIOUS
<1>5. Good(heap, S, par, off, cnt, top, L, nf, {}) /\ x.left # Nil
  BY <1>2, <1>3, <1>4
<1>6. ShapeIs(heap, x)
  BY <1>1, <1>4, <1>5, GoodShape
<1> QED
  BY <1>4, <1>6

CleanIs(heap, node) ==
  /\ ~heap[node.left].dirty /\ ~heap[node.right].dirty
  /\ node.hash = HashFunction(heap[node.left].hash, heap[node.right].hash)

LEMMA HoldingClean ==
  ASSUME NEW t, NEW leaves, NEW L, NEW m, NEW S, NEW par, NEW off, NEW cnt, NEW p, NEW b,
         Holding(t, leaves, L, m, S, par, off, cnt, p, b),
         NEW n \in DOMAIN t.heap, t.heap[n].left # Nil, ~t.heap[n].dirty
  PROVE  CleanIs(t.heap, t.heap[n])
<1>1. n \in S
  BY WaitingLeaf
<1>2. PICK heap, x, top, nf : heap = t.heap /\ x = heap[n] /\ top = p[1] /\ nf = t.num_flushed
  OBVIOUS
<1>3. Good(heap, S, par, off, cnt, top, L, nf, NodesAt(p, b))
  BY <1>1, <1>2, HeldTree
<1>4. /\ Heap(heap) /\ Linked(heap, S, par, top) /\ Spans(heap, S, off, cnt, Nil, nf)
      /\ Fits(S, off, cnt, top, Len(L)) /\ HashesRight(heap, S, off, cnt, L)
  BY <1>3 DEF Good
<1>5. x.left \in S /\ x.right \in S /\ ~heap[x.left].dirty /\ ~heap[x.right].dirty
  BY <1>1, <1>2, <1>4 DEF Linked, HashesRight
<1>6. x.hash = SubtreeHash(L)[cnt[n]][off[n]]
      /\ heap[x.left].hash = SubtreeHash(L)[cnt[x.left]][off[x.left]]
      /\ heap[x.right].hash = SubtreeHash(L)[cnt[x.right]][off[x.right]]
  BY <1>1, <1>2, <1>4, <1>5 DEF HashesRight
<1>7. SubtreeHash(L)[cnt[n]][off[n]]
           = HashFunction(SubtreeHash(L)[cnt[heap[n].left]][off[heap[n].left]],
                          SubtreeHash(L)[cnt[heap[n].right]][off[heap[n].right]])
  <2>1. Nil \notin S /\ Len(L) \in Nat /\ \A k \in S : off[k] + cnt[k] <= Len(L)
    BY <1>4 DEF Holding, Parts, Fits, Linked, Heap, Nil
  <2> QED
    BY <1>1, <1>2, <1>4, <2>1, HashOfSpan
<1> QED
  BY <1>2, <1>5, <1>6, <1>7 DEF CleanIs

(* The owners lead to every node.                                          *)
Owners(t) ==
  {t.root} \cup {t.insertion_stack[i].n : i \in DOMAIN t.insertion_stack}
    \cup Range(t.uninserted_leaf_nodes)

LEMMA ReachedNone ==
  ASSUME NEW heap, Heap(heap), Closed(heap)
  PROVE  Subtree(heap, Nil) = {}
<1>1. Nil \notin DOMAIN heap
  BY DEF Heap, Nil
<1>2. Reached(heap, Nil, DOMAIN heap) = {}
  BY <1>1, ReachedStep
<1> QED
  BY <1>2 DEF Subtree

LEMMA ReachedLeaf ==
  ASSUME NEW heap, Heap(heap), Closed(heap), NEW n \in DOMAIN heap,
         heap[n].left = Nil, heap[n].right = Nil
  PROVE  Subtree(heap, n) = {n}
<1>1. Reached(heap, n, DOMAIN heap)
        = {n} \cup Reached(heap, heap[n].left, DOMAIN heap) \cup Reached(heap, heap[n].right, DOMAIN heap)
  BY ReachedStep
<1>2. Reached(heap, Nil, DOMAIN heap) = {}
  BY ReachedNone DEF Subtree
<1> QED
  BY <1>1, <1>2 DEF Subtree

(* What is reached from a node of the tree, and from its top.              *)
LEMMA SubtreeIs ==
  ASSUME NEW heap, NEW S, NEW par, NEW off, NEW cnt, NEW top, NEW L, NEW nf, NEW stale,
         Good(heap, S, par, off, cnt, top, L, nf, stale), NEW n \in S
  PROVE  IsReached(heap, S, par, DOMAIN heap, n, Subtree(heap, n))
<1>1. /\ Heap(heap) /\ Closed(heap) /\ Linked(heap, S, par, top) /\ Spans(heap, S, off, cnt, Nil, nf)
      /\ Nil \notin S /\ S \subseteq DOMAIN heap
  BY DEF Good, Linked, Heap, Nil
<1>2. Ranked(heap, S, cnt)
  BY <1>1, CountsRank
<1>3. PICK open : open = DOMAIN heap
  OBVIOUS
<1>4. \A k \in S \cap open : IsReached(heap, S, par, open, k, Reached(heap, k, open))
  <2>1. open \in SUBSET DOMAIN heap
    BY <1>3
  <2> QED
    BY <1>1, <1>2, <2>1, ReachedIs
<1>5. n \in S \cap open
  BY <1>1, <1>3
<1> QED
  BY <1>3, <1>4, <1>5 DEF Subtree

LEMMA SubtreeOfTop ==
  ASSUME NEW heap, NEW S, NEW par, NEW off, NEW cnt, NEW top, NEW L, NEW nf, NEW stale,
         Good(heap, S, par, off, cnt, top, L, nf, stale), Len(L) \in Nat
  PROVE  Subtree(heap, top) = S
<1>1. /\ Heap(heap) /\ Closed(heap) /\ Linked(heap, S, par, top) /\ Spans(heap, S, off, cnt, Nil, nf)
      /\ Nil \notin S /\ S \subseteq DOMAIN heap /\ top \in S /\ Fits(S, off, cnt, top, Len(L))
  BY DEF Good, Linked, Heap, Nil
<1>2. Ranked(heap, S, cnt)
  BY <1>1, CountsRank
<1>3. PICK open, R : open = DOMAIN heap /\ R = Subtree(heap, top)
  OBVIOUS
<1>4. IsReached(heap, S, par, open, top, R)
  BY <1>1, <1>3, SubtreeIs
<1>5. \A n \in S : cnt[n] <= Len(L)
  BY <1>1 DEF Fits, Spans
<1>6. \A n \in S \cap open : n # top => par[n] \in open
  BY <1>1, <1>3 DEF Linked
<1>7. R = S \cap open
  BY <1>1, <1>2, <1>4, <1>5, <1>6, ReachedCovers
<1> QED
  BY <1>1, <1>3, <1>7

LEMMA HoldingOwned ==
  ASSUME NEW t, NEW leaves, NEW L, NEW m, NEW S, NEW par, NEW off, NEW cnt, NEW p, NEW b,
         Holding(t, leaves, L, m, S, par, off, cnt, p, b)
  PROVE  DOMAIN t.heap = UNION {Subtree(t.heap, n) : n \in Owners(t)}
<1>1. PICK heap, w, e : heap = t.heap /\ w = t.uninserted_leaf_nodes /\ e = t.insertion_stack
  OBVIOUS
<1>2. /\ Heap(heap) /\ Closed(heap) /\ Placed(t, L, S, par, off, cnt, p, b) /\ Waits(t, w, S, leaves)
      /\ w \in Seq(Nat) /\ e \in Seq(StackElement) /\ Len(L) \in Nat
  BY <1>1 DEF Holding, IsTree, Parts
<1>3. DOMAIN heap = S \cup Range(w)
  BY <1>1, <1>2 DEF Waits
<1>4. \A n \in Range(w) : Subtree(heap, n) = {n}
  <2>1. SUFFICES ASSUME NEW n \in Range(w) PROVE Subtree(heap, n) = {n}
    OBVIOUS
  <2>2. n \notin S
    <3>1. PICK i \in 1 .. Len(w) : n = w[i]
      BY <1>2 DEF Range
    <3> QED
      BY <1>1, <1>2, <3>1 DEF Waits
  <2>3. n \in DOMAIN heap
    BY <1>3
  <2>4. heap[n].left = Nil /\ heap[n].right = Nil
    BY <1>1, <2>2, <2>3, WaitingLeaf
  <2> QED
    BY <1>2, <2>3, <2>4, ReachedLeaf
<1>5. CASE S = {}
  <2>1. t.root = Nil /\ e = <<>>
    BY <1>1, <1>2, <1>5 DEF Placed
  <2>2. DOMAIN e = {}
    BY <2>1
  <2>3. Owners(t) = {Nil} \cup Range(w)
    BY <1>1, <2>1, <2>2 DEF Owners
  <2>4. Subtree(heap, Nil) = {}
    BY <1>2, ReachedNone
  <2>5. UNION {Subtree(heap, n) : n \in {Nil} \cup Range(w)} = Range(w)
    BY <1>4, <2>4
  <2> QED
    BY <1>1, <1>3, <1>5, <2>3, <2>5
<1>6. CASE S # {}
  <2>1. Good(heap, S, par, off, cnt, p[1], L, t.num_flushed, NodesAt(p, b)) /\ b \in Nat /\ Len(e) = b
    BY <1>1, <1>6, HeldTree
  <2>2. PICK top, nf, stale : top = p[1] /\ nf = t.num_flushed /\ stale = NodesAt(p, b)
    OBVIOUS
  <2>3. Good(heap, S, par, off, cnt, top, L, nf, stale)
    BY <2>1, <2>2
  <2>4. Subtree(heap, top) = S
    BY <1>2, <2>3, SubtreeOfTop
  <2>5. \A n \in S : Subtree(heap, n) \subseteq S
    BY <2>3, SubtreeIs DEF IsReached
  <2>6. p[b + 1] = t.root /\ \A i \in 1 .. b : e[i].n = p[i] /\ p[i] \in S
    BY <1>1, <1>2, <1>6 DEF Placed
  <2>7. t.root \in S
    BY <1>2, <1>6 DEF Placed
  <2>8. DOMAIN e = 1 .. b
    BY <1>2, <2>1
  <2>9. Owners(t) \subseteq S \cup Range(w)
    BY <1>1, <2>6, <2>7, <2>8 DEF Owners
  <2>10. top \in Owners(t)
    <3>1. CASE b = 0
      BY <2>2, <2>6, <3>1 DEF Owners
    <3>2. CASE b # 0
      <4>1. 1 \in 1 .. b
        BY <2>1, <3>2
      <4>2. e[1].n = top
        BY <2>2, <2>6, <4>1
      <4> QED
        BY <1>1, <2>8, <4>1, <4>2 DEF Owners
    <3> QED
      BY <3>1, <3>2
  <2>11. Range(w) \subseteq Owners(t)
    BY <1>1 DEF Owners
  <2>12. \A n \in Owners(t) : Subtree(heap, n) \subseteq S \cup Range(w)
    BY <1>4, <2>5, <2>9
  <2>13. S \cup Range(w) \subseteq UNION {Subtree(heap, n) : n \in Owners(t)}
    <3>1. S \subseteq UNION {Subtree(heap, n) : n \in Owners(t)}
      BY <2>4, <2>10
    <3>2. \A n \in Range(w) : n \in Subtree(heap, n) /\ n \in Owners(t)
      BY <1>4, <2>11
    <3> QED
      BY <3>1, <3>2
  <2>14. UNION {Subtree(heap, n) : n \in Owners(t)} = S \cup Range(w)
    BY <2>12, <2>13
  <2> QED
    BY <1>1, <1>3, <2>14
<1> QED
  BY <1>5, <1>6

LEMMA HoldingLeaves ==
  ASSUME NEW t, NEW leaves, NEW L, NEW m, NEW S, NEW par, NEW off, NEW cnt, NEW p, NEW b,
         Holding(t, leaves, L, m, S, par, off, cnt, p, b)
  PROVE  Range(t.leaf_nodes) \subseteq DOMAIN t.heap
<1>1. t.leaf_nodes \in Seq(Nat) /\ LeavesHang(t, L, S, off, cnt) /\ S \subseteq DOMAIN t.heap
  BY DEF Holding, IsTree, Waits
<1>2. \A i \in 1 .. Len(t.leaf_nodes) : t.leaf_nodes[i] \in S
  BY <1>1 DEF LeavesHang
<1>3. DOMAIN t.leaf_nodes = 1 .. Len(t.leaf_nodes)
  BY <1>1
<1> QED
  BY <1>1, <1>2, <1>3 DEF Range

LEMMA HoldingOnce ==
  ASSUME NEW t, NEW leaves, NEW L, NEW m, NEW S, NEW par, NEW off, NEW cnt, NEW p, NEW b,
         Holding(t, leaves, L, m, S, par, off, cnt, p, b),
         NEW n \in DOMAIN t.heap, NEW k \in DOMAIN t.heap, n # k,
         t.heap[n].left # Nil, t.heap[k].left # Nil
  PROVE  {t.heap[n].left, t.heap[n].right} \cap {t.heap[k].left, t.heap[k].right} = {}
<1>1. n \in S /\ k \in S
  BY WaitingLeaf
<1>2. Good(t.heap, S, par, off, cnt, p[1], L, t.num_flushed, NodesAt(p, b))
  BY <1>1, HeldTree
<1>3. Linked(t.heap, S, par, p[1])
  BY <1>2 DEF Good
<1>4. /\ par[t.heap[n].left] = n /\ par[t.heap[n].right] = n
      /\ par[t.heap[k].left] = k /\ par[t.heap[k].right] = k
  BY <1>1, <1>3 DEF Linked
<1> QED
  BY <1>4
-----------------------------------------------------------------------------
(* The hash of a leaf that hangs, and of one that waits.                   *)
LEMMA HoldingHash ==
  ASSUME NEW t, NEW leaves, NEW L, NEW m, NEW S, NEW par, NEW off, NEW cnt, NEW p, NEW b,
         Holding(t, leaves, L, m, S, par, off, cnt, p, b)
  PROVE  /\ \A i \in 1 .. Len(t.leaf_nodes) :
              t.heap[t.leaf_nodes[i]].hash = leaves[t.num_flushed + i]
         /\ \A i \in 1 .. Len(t.uninserted_leaf_nodes) :
              t.heap[t.uninserted_leaf_nodes[i]].hash = leaves[m + i]
<1>1. /\ L \in Seq(LeafHashes) /\ m \in Nat /\ Len(L) = m /\ m = t.num_flushed + Len(t.leaf_nodes)
      /\ Len(leaves) = m + Len(t.uninserted_leaf_nodes)
      /\ \A i \in 1 .. m : L[i] = leaves[i]
      /\ t.leaf_nodes \in Seq(Nat) /\ t.uninserted_leaf_nodes \in Seq(Nat) /\ t.num_flushed \in Nat
  BY DEF Holding, Parts, IsTree
<1>2. ASSUME NEW i \in 1 .. Len(t.leaf_nodes)
      PROVE  t.heap[t.leaf_nodes[i]].hash = leaves[t.num_flushed + i]
  <2>1. PICK x : x = t.leaf_nodes[i]
    OBVIOUS
  <2>2. x \in S /\ off[x] = t.num_flushed + i - 1 /\ cnt[x] = 1
    BY <1>2, <2>1 DEF Holding, LeavesHang
  <2>3. Good(t.heap, S, par, off, cnt, p[1], L, t.num_flushed, NodesAt(p, b))
    BY <2>2, HeldTree
  <2>4. PICK o : o = t.num_flushed + i - 1
    OBVIOUS
  <2>5. o \in Nat /\ o < m /\ o + 1 = t.num_flushed + i /\ o + 1 \in 1 .. m
    <3>1. PICK f, j : f = t.num_flushed /\ j = Len(t.leaf_nodes)
      OBVIOUS
    <3>2. f \in Nat /\ j \in Nat /\ m = f + j /\ i \in 1 .. j /\ o = f + i - 1
      BY <1>1, <2>4, <3>1
    <3>3. o \in Nat /\ o < m /\ o + 1 = f + i /\ o + 1 \in 1 .. m
      BY <3>2
    <3> QED
      BY <3>1, <3>3
  <2>6. t.heap[x].left = Nil
    <3>1. SUFFICES ASSUME t.heap[x].left # Nil PROVE FALSE
      OBVIOUS
    <3>2. PICK l, r : l = t.heap[x].left /\ r = t.heap[x].right
      OBVIOUS
    <3>3. l \in S /\ r \in S /\ x # Nil
      BY <2>2, <2>3, <3>1, <3>2 DEF Good, Linked, Heap, Nil
    <3>4. cnt[x] = cnt[l] + cnt[r] /\ cnt[l] \in Nat \ {0} /\ cnt[r] \in Nat \ {0}
      BY <2>2, <2>3, <3>1, <3>2, <3>3 DEF Good, Spans
    <3> QED
      BY <2>2, <3>4
  <2>7. t.heap[x].hash = SubtreeHash(L)[1][o]
    BY <2>2, <2>3, <2>4, <2>6 DEF Good, HashesRight
  <2>8. SubtreeHash(L)[1][o] = L[o + 1]
    BY <1>1, <2>5, HashOfLeaf
  <2> QED
    BY <1>1, <2>1, <2>5, <2>7, <2>8
<1>3. ASSUME NEW i \in 1 .. Len(t.uninserted_leaf_nodes)
      PROVE  t.heap[t.uninserted_leaf_nodes[i]].hash = leaves[m + i]
  <2>1. PICK w, l, k : w = t.uninserted_leaf_nodes /\ l = Len(leaves) /\ k = Len(w)
    OBVIOUS
  <2>2. PICK y : y = NewLeaf(leaves[l - k + i])
    OBVIOUS
  <2>3. t.heap[w[i]] = y
    BY <1>3, <2>1, <2>2 DEF Holding, Waits
  <2>4. y.hash = leaves[l - k + i]
    BY <2>2, LeafNode
  <2>5. k \in Nat /\ l = m + k /\ l - k + i = m + i
    BY <1>1, <1>3, <2>1
  <2> QED
    BY <2>1, <2>3, <2>4, <2>5
<1> QED
  BY <1>2, <1>3

(* The hashes in the window are the last leaves.                           *)
LEMMA HoldingWindow ==
  ASSUME NEW t, NEW leaves, NEW L, NEW m, NEW S, NEW par, NEW off, NEW cnt, NEW p, NEW b,
         Holding(t, leaves, L, m, S, par, off, cnt, p, b)
  PROVE  /\ Hashes(t, t.leaf_nodes \o t.uninserted_leaf_nodes)
              = SubSeq(leaves, t.num_flushed + 1, Len(leaves))
         /\ Len(leaves) = num_leaves(t)
<1>1. PICK a, w, nf, l, i1, k : a = t.leaf_nodes /\ w = t.uninserted_leaf_nodes /\ nf = t.num_flushed
                                  /\ l = Len(leaves) /\ i1 = Len(a) /\ k = Len(w)
  OBVIOUS
<1>2. /\ a \in Seq(Nat) /\ w \in Seq(Nat) /\ nf \in Nat /\ m = nf + i1 /\ l = m + k
      /\ leaves \in Seq(LeafHashes) /\ i1 \in Nat /\ k \in Nat
  BY <1>1 DEF Holding, Parts, IsTree
<1>3. /\ \A i \in 1 .. i1 : t.heap[a[i]].hash = leaves[nf + i]
      /\ \A i \in 1 .. k : t.heap[w[i]].hash = leaves[m + i]
  BY <1>1, HoldingHash
<1>4. PICK s, A, B : s = a \o w /\ A = Hashes(t, s) /\ B = SubSeq(leaves, nf + 1, l)
  OBVIOUS
<1>5. /\ s \in Seq(Nat) /\ OneAfter(s, a, i1, w, k)
  BY <1>1, <1>2, <1>4, OneAfterOther
<1>6. Len(s) = i1 + k /\ DOMAIN s = 1 .. i1 + k /\ (\A i \in 1 .. i1 : s[i] = a[i])
      /\ \A i \in 1 .. k : s[i1 + i] = w[i]
  BY <1>2, <1>5 DEF OneAfter
<1>7. A = [i \in 1 .. i1 + k |-> t.heap[s[i]].hash]
  BY <1>4, <1>6 DEF Hashes
<1>8. B \in Seq(LeafHashes) /\ Len(B) = i1 + k /\ \A i \in 1 .. i1 + k : B[i] = leaves[i + nf]
  <2>1. nf + 1 \in 1 .. l + 1 /\ l \in 0 .. Len(leaves) /\ l - (nf + 1) + 1 = i1 + k
    <3>1. l \in Nat /\ l = nf + i1 + k
      BY <1>2
    <3>2. nf + 1 \in 1 .. l + 1 /\ l - (nf + 1) + 1 = i1 + k
      BY <1>2, <3>1
    <3>3. l \in 0 .. Len(leaves)
      BY <1>1, <3>1
    <3> QED
      BY <3>2, <3>3
  <2>2. B \in Seq(LeafHashes)
    BY <1>2, <1>4, <2>1
  <2>3. Len(B) = i1 + k
    BY <1>2, <1>4, <2>1
  <2>4. \A i \in 1 .. i1 + k : B[i] = leaves[i + nf]
    BY <1>2, <1>4, <2>1
  <2> QED
    BY <2>2, <2>3, <2>4
<1>9. \A i \in 1 .. i1 + k : t.heap[s[i]].hash = leaves[i + nf]
  <2>1. SUFFICES ASSUME NEW i \in 1 .. i1 + k PROVE t.heap[s[i]].hash = leaves[i + nf]
    OBVIOUS
  <2>2. CASE i <= i1
    <3>1. i \in 1 .. i1 /\ nf + i = i + nf
      BY <1>2, <2>2
    <3> QED
      BY <1>3, <1>6, <3>1
  <2>3. CASE i > i1
    <3>1. PICK j : j = i - i1
      OBVIOUS
    <3>2. j \in 1 .. k /\ i1 + j = i /\ m + j = i + nf
      BY <1>2, <2>3, <3>1
    <3>3. s[i1 + j] = w[j] /\ t.heap[w[j]].hash = leaves[m + j]
      BY <1>3, <1>6, <3>2
    <3> QED
      BY <3>2, <3>3
  <2>4. i <= i1 \/ i > i1
    BY <1>2
  <2> QED
    BY <2>2, <2>3, <2>4
<1>10. A = B
  <2>1. PICK q : q = i1 + k
    OBVIOUS
  <2>2. \A i \in 1 .. q : A[i] = B[i]
    BY <1>7, <1>8, <1>9, <2>1
  <2>3. A \in Seq(LeafHashes) /\ Len(A) = q
    <3>1. \A i \in 1 .. q : B[i] \in LeafHashes
      BY <1>8, <2>1
    <3>2. A = [i \in 1 .. q |-> A[i]] /\ q \in Nat
      BY <1>2, <1>7, <2>1
    <3>3. \A i \in 1 .. q : A[i] \in LeafHashes
      BY <2>2, <3>1
    <3> QED
      BY <3>2, <3>3
  <2>4. B \in Seq(LeafHashes) /\ Len(B) = q /\ q \in Nat
    BY <1>2, <1>8, <2>1
  <2> QED
    BY <2>2, <2>3, <2>4, SameSeq
<1>11. l = num_leaves(t)
  BY <1>1, <1>2 DEF num_leaves
<1> QED
  BY <1>1, <1>4, <1>10, <1>11

-----------------------------------------------------------------------------
(* walk_to()                                                               *)

(* The height of a tree whose left subtree has a leaves.                   *)
LEMMA LeftHeight ==
  ASSUME NEW a \in Powers, NEW b \in Nat \ {0}, b <= a, NEW h, HeightIs(h, a + b)
  PROVE  h >= 2 /\ a = pow2[h - 2]
<1>1. a \in Nat \ {0}
  BY PowersNat
<1>2. PICK j \in Nat : a = pow2[j]
  BY DEF Powers
<1>3. /\ h \in Nat \ {0} /\ a + b <= pow2[h - 1]
      /\ (h # 1 => pow2[h - 2] < a + b)
  BY DEF HeightIs
<1>4. h >= 2
  <2>1. SUFFICES ASSUME h = 1 PROVE FALSE
    BY <1>3
  <2>2. pow2[0] = 1
    BY Pow2Step
  <2>3. a + b <= 1
    BY <1>3, <2>1, <2>2
  <2> QED
    BY <1>1, <2>3
<1>5. h - 2 \in Nat /\ h - 1 \in Nat /\ j + 1 \in Nat
  BY <1>3, <1>4
<1>6. pow2[j + 1] = 2 * a /\ pow2[h - 2] \in Nat /\ pow2[h - 1] \in Nat /\ pow2[j + 1] \in Nat
  BY <1>2, <1>5, Pow2Step, Pow2Nat
<1>7. pow2[h - 2] < pow2[j + 1]
  BY <1>1, <1>3, <1>4, <1>6
<1>8. pow2[j] < pow2[h - 1]
  BY <1>1, <1>2, <1>3, <1>6
<1>9. h - 2 < j + 1 /\ j < h - 1
  BY <1>5, <1>7, <1>8, Pow2Order
<1>10. j = h - 2
  BY <1>3, <1>9
<1> QED
  BY <1>2, <1>4, <1>10

(* A place on a walk, with the turns taken so far.                         *)
WalkAt == [n : Nat, it : Nat, turns : Seq(WalkTurn)]

(* The turn right leads to leaves no later than the index.                 *)
TurnIs(heap, S, off, index, turn) ==
  /\ turn.n \in S /\ heap[turn.n].left # Nil
  /\ turn.right => off[heap[turn.n].right] <= index

(* Where the walk to the leaf at index is, at height h.                    *)
Walked(heap, S, off, cnt, index, a, h) ==
  /\ a \in WalkAt /\ a.n \in S /\ off[a.n] + a.it = index /\ a.it < cnt[a.n]
  /\ heap[a.n].height <= h
  /\ \A i \in 1 .. Len(a.turns) : TurnIs(heap, S, off, index, a.turns[i])

(* One step of the walk.                                                   *)
Descended(heap, cnt, a, z, right) ==
  /\ heap[a.n].left # Nil
  /\ right = (a.it >= cnt[heap[a.n].left])
  /\ z = [n |-> IF right THEN heap[a.n].right ELSE heap[a.n].left,
          it |-> IF right THEN a.it - cnt[heap[a.n].left] ELSE a.it,
          turns |-> <<[n |-> a.n, right |-> right]>> \o a.turns]

LEMMA FrontTurn ==
  ASSUME NEW T, NEW x \in T, NEW s \in Seq(T), NEW q, q = <<x>> \o s
  PROVE  q \in Seq(T) /\ Len(q) = Len(s) + 1 /\ q[1] = x /\ \A i \in 1 .. Len(s) : q[i + 1] = s[i]
<1>1. <<x>> \in Seq(T) /\ Len(<<x>>) = 1 /\ <<x>>[1] = x
  OBVIOUS
<1>2. PICK a : a = <<x>>
  OBVIOUS
<1>3. a \in Seq(T) /\ Len(a) = 1 /\ a[1] = x /\ q = a \o s
  BY <1>1, <1>2
<1>4. a \o s \in Seq(T) /\ OneAfter(a \o s, a, Len(a), s, Len(s))
  BY <1>3, OneAfterOther
<1>5. /\ Len(q) = 1 + Len(s) /\ (\A i \in 1 .. 1 : q[i] = a[i])
      /\ \A i \in 1 .. Len(s) : q[1 + i] = s[i]
  BY <1>3, <1>4 DEF OneAfter
<1>6. q[1] = x
  BY <1>3, <1>5
<1>7. \A i \in 1 .. Len(s) : 1 + i = i + 1
  OBVIOUS
<1> QED
  BY <1>3, <1>4, <1>5, <1>6, <1>7

LEMMA StepDownIs ==
  ASSUME NEW heap, NEW S, NEW par, NEW off, NEW cnt, NEW top, NEW L, NEW nf,
         Good(heap, S, par, off, cnt, top, L, nf, {}), nf \in Nat,
         NEW index \in Nat, nf <= index, NEW h \in Nat, h >= 2,
         NEW a, Walked(heap, S, off, cnt, index, a, h), NEW z, z = StepDown(heap, a, h)
  PROVE  /\ Walked(heap, S, off, cnt, index, z, h - 1)
         /\ z = a \/ \E right \in BOOLEAN : Descended(heap, cnt, a, z, right)
<1>1. /\ Heap(heap) /\ Linked(heap, S, par, top) /\ Spans(heap, S, off, cnt, Nil, nf)
      /\ Measured(heap, S, cnt, {}) /\ Nil \notin S /\ S \subseteq DOMAIN heap /\ S \subseteq Nat
  BY DEF Good, Linked, Heap, Nil
<1>2. PICK n, it, turns : n = a.n /\ it = a.it /\ turns = a.turns
  OBVIOUS
<1>3. /\ a = [n |-> n, it |-> it, turns |-> turns] /\ n \in S /\ it \in Nat /\ turns \in Seq(WalkTurn)
      /\ off[n] + it = index /\ it < cnt[n] /\ heap[n].height <= h
      /\ \A i \in 1 .. Len(turns) : TurnIs(heap, S, off, index, turns[i])
  BY <1>2 DEF Walked, WalkAt
<1>4. PICK c, o, g : c = cnt[n] /\ o = off[n] /\ g = heap[n].height
  OBVIOUS
<1>5. c \in Nat \ {0} /\ o \in Nat /\ HeightIs(g, c)
  BY <1>1, <1>3, <1>4 DEF Spans, Measured
<1>6. g \in Nat \ {0} /\ c <= pow2[g - 1] /\ (g # 1 => pow2[g - 2] < c)
  BY <1>5 DEF HeightIs
<1>7. h - 2 \in Nat /\ g - 1 \in Nat /\ pow2[h - 2] \in Nat /\ pow2[g - 1] \in Nat
  BY <1>6, Pow2Nat
<1>8. it \in Nat /\ o + it = index /\ it < c
  BY <1>3, <1>4
<1>9. CASE g # h
  <2>1. g - 1 <= h - 2
    BY <1>3, <1>4, <1>6, <1>9
  <2>2. pow2[g - 1] <= pow2[h - 2]
    BY <1>7, <2>1, Pow2Order
  <2>3. ~(it >= pow2[h - 2])
    <3>1. PICK u, v : u = pow2[h - 2] /\ v = pow2[g - 1]
      OBVIOUS
    <3>2. u \in Nat /\ v \in Nat /\ c <= v /\ v <= u
      BY <1>6, <1>7, <2>2, <3>1
    <3>3. it < u
      BY <1>8, <1>5, <3>2
    <3> QED
      BY <1>8, <3>1, <3>2, <3>3
  <2>4. z = [a EXCEPT !.it = it]
    BY <1>2, <1>4, <1>9, <2>3 DEF StepDown
  <2>5. z = a
    BY <1>3, <2>4
  <2>6. heap[n].height <= h - 1
    BY <1>3, <1>4, <1>6, <1>9
  <2> QED
    BY <1>2, <2>5, <2>6 DEF Walked
<1>10. CASE g = h
  <2>1. heap[n].left # Nil
    <3>1. SUFFICES ASSUME heap[n].left = Nil PROVE FALSE
      OBVIOUS
    <3>2. c = 1 \/ o + c <= nf
      BY <1>1, <1>3, <1>4, <3>1 DEF Spans
    <3>3. c # 1
      <4>1. g # 1 /\ g - 2 \in Nat
        BY <1>10
      <4>2. pow2[g - 2] \in Nat /\ pow2[g - 2] >= 1 /\ pow2[g - 2] < c
        BY <1>6, <4>1, Pow2Nat
      <4> QED
        BY <4>2
    <3> QED
      BY <1>3, <1>4, <1>5, <3>2, <3>3
  <2>2. PICK l, r : l = heap[n].left /\ r = heap[n].right
    OBVIOUS
  <2>3. l \in S /\ r \in S /\ n # Nil
    BY <1>1, <1>3, <2>1, <2>2 DEF Linked
  <2>4. PICK x, y : x = cnt[l] /\ y = cnt[r]
    OBVIOUS
  <2>5. x \in Powers /\ y \in Nat \ {0} /\ y <= x /\ c = x + y /\ off[l] = o /\ off[r] = o + x
    BY <1>1, <1>3, <1>4, <2>1, <2>2, <2>3, <2>4 DEF Spans
  <2>6. x \in Nat \ {0}
    BY <2>5, PowersNat
  <2>7. x = pow2[h - 2]
    BY <1>5, <1>10, <2>5, LeftHeight
  <2>8. heap[l].height <= h - 1 /\ heap[r].height <= h - 1
    <3>1. PICK u, v : u = heap[l].height /\ v = heap[r].height
      OBVIOUS
    <3>2. HeightIs(u, x) /\ HeightIs(v, y)
      BY <1>1, <2>3, <2>4, <3>1 DEF Measured
    <3>3. x = pow2[u - 1]
      BY <2>5, <3>2, PowerHeight
    <3>4. v <= u
      BY <2>5, <3>2, HeightsOrder
    <3>5. u \in Nat \ {0} /\ v \in Nat \ {0}
      BY <3>2 DEF HeightIs
    <3>6. u - 1 \in Nat
      BY <3>5
    <3>7. PICK j, k : j = u - 1 /\ k = h - 2
      OBVIOUS
    <3>8. j \in Nat /\ k \in Nat /\ pow2[j] = pow2[k]
      BY <1>7, <2>7, <3>3, <3>6, <3>7
    <3>9. j = k
      BY <3>8, SamePower
    <3>10. u <= h - 1 /\ v <= h - 1
      BY <1>7, <3>4, <3>5, <3>7, <3>8, <3>9
    <3> QED
      BY <3>1, <3>10
  <2>9. PICK right : right = (it >= x)
    OBVIOUS
  <2>10. right \in BOOLEAN
    BY <1>8, <2>6, <2>9
  <2>11. PICK turn : turn = [n |-> n, right |-> right]
    OBVIOUS
  <2>12. PICK tt : tt = <<turn>> \o turns
    OBVIOUS
  <2>13. z = [n |-> IF right THEN r ELSE l, it |-> IF right THEN it - x ELSE it, turns |-> tt]
    BY <1>2, <1>4, <1>10, <2>2, <2>7, <2>9, <2>11, <2>12 DEF StepDown
  <2>14. Descended(heap, cnt, a, z, right)
    BY <1>2, <2>1, <2>2, <2>4, <2>9, <2>11, <2>12, <2>13 DEF Descended
  <2>15. turn \in WalkTurn /\ turn.n = n /\ turn.right = right
    BY <1>1, <1>3, <2>10, <2>11 DEF WalkTurn
  <2>16. tt \in Seq(WalkTurn) /\ Len(tt) = Len(turns) + 1 /\ tt[1] = turn /\ \A i \in 1 .. Len(turns) : tt[i + 1] = turns[i]
    BY <1>3, <2>12, <2>15, FrontTurn
  <2>17. TurnIs(heap, S, off, index, turn)
    <3>1. right => o + x <= index
      <4>1. it >= x => o + x <= index
        BY <1>8, <1>5, <2>6
      <4> QED
        BY <2>9, <4>1
    <3> QED
      BY <1>3, <2>1, <2>2, <2>5, <2>15, <3>1 DEF TurnIs
  <2>18. \A i \in 1 .. Len(tt) : TurnIs(heap, S, off, index, tt[i])
    <3>1. SUFFICES ASSUME NEW i \in 1 .. Len(tt) PROVE TurnIs(heap, S, off, index, tt[i])
      OBVIOUS
    <3>2. CASE i = 1
      BY <2>16, <2>17, <3>2
    <3>3. CASE i # 1
      <4>1. PICK j : j = i - 1
        OBVIOUS
      <4>2. j \in 1 .. Len(turns) /\ i = j + 1
        BY <1>3, <2>16, <3>3, <4>1
      <4> QED
        BY <1>3, <2>16, <4>2
    <3> QED
      BY <3>2, <3>3
  <2>19. z.n = (IF right THEN r ELSE l) /\ z.it = (IF right THEN it - x ELSE it) /\ z.turns = tt
    BY <2>13
  <2>20. z.it \in Nat /\ off[z.n] + z.it = index /\ z.it < cnt[z.n]
    <3>1. CASE right
      <4>1. z.it = it - x /\ z.n = r
        BY <2>19, <3>1
      <4>2. it >= x
        BY <2>9, <3>1
      <4> QED
        <5>1. off[r] = o + x /\ cnt[r] = y
          BY <2>4, <2>5
        <5>2. it - x \in Nat /\ (o + x) + (it - x) = index /\ it - x < y
          BY <1>8, <1>5, <2>5, <2>6, <4>2
        <5> QED
          BY <4>1, <5>1, <5>2
    <3>2. CASE ~right
      <4>1. z.it = it /\ z.n = l
        BY <2>19, <3>2
      <4>2. it < x
        <5>1. ~(it >= x)
          BY <2>9, <3>2
        <5> QED
          BY <1>8, <2>6, <5>1
      <4> QED
        BY <1>8, <2>4, <2>5, <4>1, <4>2
    <3> QED
      BY <3>1, <3>2
  <2>21. z.n \in S /\ heap[z.n].height <= h - 1
    BY <2>3, <2>8, <2>19
  <2>22. z \in WalkAt
    <3>1. z = [n |-> z.n, it |-> z.it, turns |-> tt]
      BY <2>13
    <3>2. z.n \in Nat
      BY <1>1, <2>21
    <3> QED
      BY <2>16, <2>20, <3>1, <3>2 DEF WalkAt
  <2>23. Walked(heap, S, off, cnt, index, z, h - 1)
    BY <2>18, <2>19, <2>20, <2>21, <2>22 DEF Walked
  <2> QED
    BY <2>10, <2>14, <2>23
<1> QED
  BY <1>9, <1>10

WalkTable(heap, r, index, h, m, at) ==
  at = [k \in 0 .. m |->
          IF k = 0 THEN [n |-> r, it |-> index, turns |-> <<>>]
          ELSE StepDown(heap, at[k - 1], h - k + 1)]

LEMMA WalkExists ==
  ASSUME NEW heap, NEW r, NEW index, NEW h, NEW m \in Nat
  PROVE  \E at : WalkTable(heap, r, index, h, m, at)
<1> DEFINE base == [n |-> r, it |-> index, turns |-> <<>>]
           T == {k \in Nat : \E at : WalkTable(heap, r, index, h, k, at)}
<1>1. 0 \in T
  <2> DEFINE f == [k \in 0 .. 0 |-> base]
  <2>1. f = [k \in 0 .. 0 |-> IF k = 0 THEN base ELSE StepDown(heap, f[k - 1], h - k + 1)]
    OBVIOUS
  <2> HIDE DEF f
  <2>2. WalkTable(heap, r, index, h, 0, f)
    BY <2>1 DEF WalkTable
  <2> QED
    BY <2>2
<1>2. ASSUME NEW k \in Nat, k \in T PROVE k + 1 \in T
  <2>1. PICK f : WalkTable(heap, r, index, h, k, f)
    BY <1>2
  <2> DEFINE g == [j \in 0 .. k + 1 |-> IF j = k + 1 THEN StepDown(heap, f[k], h - j + 1) ELSE f[j]]
  <2>2. \A j \in 0 .. k : f[j] = IF j = 0 THEN base ELSE StepDown(heap, f[j - 1], h - j + 1)
    BY <2>1 DEF WalkTable
  <2> HIDE DEF base
  <2>3. g[k + 1] = StepDown(heap, f[k], h - (k + 1) + 1) /\ \A j \in 0 .. k : g[j] = f[j]
    OBVIOUS
  <2>4. ASSUME NEW j \in 0 .. k + 1 PROVE g[j] = IF j = 0 THEN base ELSE StepDown(heap, g[j - 1], h - j + 1)
    <3> HIDE DEF g
    <3>1. CASE j = k + 1
      <4>1. j # 0 /\ j - 1 = k /\ k \in 0 .. k
        BY <3>1
      <4> QED
        BY <2>3, <3>1, <4>1
    <3>2. CASE j # k + 1
      <4>1. j \in 0 .. k /\ (j # 0 => j - 1 \in 0 .. k)
        BY <3>2
      <4> QED
        BY <2>2, <2>3, <4>1
    <3> QED
      BY <3>1, <3>2
  <2>5. g = [j \in 0 .. k + 1 |-> g[j]]
    OBVIOUS
  <2> HIDE DEF g
  <2>6. g = [j \in 0 .. k + 1 |-> IF j = 0 THEN base ELSE StepDown(heap, g[j - 1], h - j + 1)]
    BY <2>4, <2>5
  <2>7. WalkTable(heap, r, index, h, k + 1, g)
    BY <2>6 DEF WalkTable, base
  <2> QED
    BY <2>7
<1> HIDE DEF T
<1>3. Nat \subseteq T
  BY <1>1, <1>2, SetInduction
<1> QED
  BY <1>3 DEF T

(* The walk to the leaf at index, one node per height or less.             *)
Walks(heap, S, off, cnt, index, r, h, at) ==
  /\ at[0] = [n |-> r, it |-> index, turns |-> <<>>]
  /\ \A k \in 0 .. h - 1 : Walked(heap, S, off, cnt, index, at[k], h - k)
  /\ \A k \in 1 .. h - 1 :
       at[k] = at[k - 1] \/ \E right \in BOOLEAN : Descended(heap, cnt, at[k - 1], at[k], right)

WalksTo(t, S, off, cnt, index, h, at) ==
  /\ h \in Nat \ {0} /\ Walks(t.heap, S, off, cnt, index, t.root, h, at)
  /\ WalkTo(t, index) = at[h - 1]

LEMMA WalkToIs ==
  ASSUME NEW t, NEW S, NEW par, NEW off, NEW cnt, NEW L, NEW nf,
         Good(t.heap, S, par, off, cnt, t.root, L, nf, {}), Len(L) \in Nat, nf \in Nat,
         NEW index \in Nat, nf <= index, index < Len(L)
  PROVE  \E h, at : WalksTo(t, S, off, cnt, index, h, at)
<1>1. PICK heap, r : heap = t.heap /\ r = t.root
  OBVIOUS
<1> DEFINE h == heap[r].height
           at == CHOOSE f : WalkTable(heap, r, index, h, h - 1, f)
<1>2. Good(heap, S, par, off, cnt, r, L, nf, {})
  BY <1>1
<1>3. r \in S /\ off[r] = 0 /\ cnt[r] = Len(L) /\ Measured(heap, S, cnt, {}) /\ S \subseteq Nat
  BY <1>2 DEF Good, Linked, Fits, Heap
<1>4. HeightIs(h, cnt[r])
  BY <1>3 DEF Measured
<1>5. h \in Nat \ {0} /\ h - 1 \in Nat
  BY <1>4 DEF HeightIs
<1>6. WalkTo(t, index) = at[h - 1]
  BY <1>1 DEF WalkTo, WalkTable
<1>7. WalkTable(heap, r, index, h, h - 1, at)
  BY <1>5, WalkExists
<1> HIDE DEF at
<1>8. PICK m, i0 : m = h - 1 /\ i0 = [n |-> r, it |-> index, turns |-> <<>>]
  OBVIOUS
<1>9. heap[r].height <= h
  BY <1>5
<1> HIDE DEF h
<1>10. at = [k \in 0 .. m |-> IF k = 0 THEN i0 ELSE StepDown(heap, at[k - 1], h - k + 1)]
  BY <1>7, <1>8 DEF WalkTable
<1>11. at[0] = i0 /\ \A k \in 1 .. m : at[k] = StepDown(heap, at[k - 1], h - k + 1)
  BY <1>5, <1>8, <1>10
<1> DEFINE T == {k \in Nat : k <= m => Walked(heap, S, off, cnt, index, at[k], h - k)}
<1>12. 0 \in T
  <2>1. Walked(heap, S, off, cnt, index, i0, h)
    <3>1. i0.n = r /\ i0.it = index /\ i0.turns = <<>>
      BY <1>8
    <3>2. <<>> \in Seq(WalkTurn) /\ Len(<<>>) = 0
      OBVIOUS
    <3>3. i0 \in WalkAt
      BY <1>3, <1>8, <3>2 DEF WalkAt
    <3>4. 0 + index = index /\ 1 .. 0 = {}
      OBVIOUS
    <3>5. off[i0.n] + i0.it = index /\ i0.it < cnt[i0.n] /\ heap[i0.n].height <= h /\ i0.n \in S
      BY <1>3, <1>9, <3>1, <3>4
    <3>6. 1 .. Len(i0.turns) = {}
      BY <3>1, <3>2, <3>4
    <3> QED
      BY <3>3, <3>5, <3>6 DEF Walked
  <2>2. h - 0 = h
    BY <1>5
  <2> QED
    BY <1>11, <2>1, <2>2
<1>13. ASSUME NEW k \in Nat, k + 1 <= m, Walked(heap, S, off, cnt, index, at[k], h - k)
       PROVE  /\ Walked(heap, S, off, cnt, index, at[k + 1], h - (k + 1))
              /\ \/ at[k + 1] = at[k]
                 \/ \E right \in BOOLEAN : Descended(heap, cnt, at[k], at[k + 1], right)
  <2>1. PICK g : g = h - k
    OBVIOUS
  <2>2. g \in Nat /\ g >= 2 /\ g - 1 = h - (k + 1) /\ h - (k + 1) + 1 = g /\ k + 1 \in 1 .. m /\ (k + 1) - 1 = k
    BY <1>5, <1>8, <1>13, <2>1
  <2>3. PICK a, z : a = at[k] /\ z = at[k + 1]
    OBVIOUS
  <2>4. z = StepDown(heap, a, g)
    BY <1>11, <2>2, <2>3
  <2>5. Walked(heap, S, off, cnt, index, a, g)
    BY <1>13, <2>1, <2>3
  <2>6. /\ Walked(heap, S, off, cnt, index, z, g - 1)
        /\ z = a \/ \E right \in BOOLEAN : Descended(heap, cnt, a, z, right)
    BY <1>2, <2>2, <2>4, <2>5, StepDownIs
  <2> QED
    BY <2>2, <2>3, <2>6
<1>14. ASSUME NEW k \in Nat, k \in T PROVE k + 1 \in T
  <2>1. SUFFICES ASSUME k + 1 <= m PROVE Walked(heap, S, off, cnt, index, at[k + 1], h - (k + 1))
    OBVIOUS
  <2>2. k <= m
    BY <1>5, <1>8, <2>1
  <2> QED
    BY <1>13, <1>14, <2>1, <2>2
<1> HIDE DEF T
<1>15. Nat \subseteq T
  BY <1>12, <1>14, SetInduction
<1>16. \A k \in 0 .. m : Walked(heap, S, off, cnt, index, at[k], h - k)
  BY <1>5, <1>8, <1>15 DEF T
<1>17. ASSUME NEW k \in 1 .. m
       PROVE  at[k] = at[k - 1] \/ \E right \in BOOLEAN : Descended(heap, cnt, at[k - 1], at[k], right)
  <2>1. PICK j : j = k - 1
    OBVIOUS
  <2>2. j \in Nat /\ j + 1 = k /\ j + 1 <= m /\ j \in 0 .. m
    BY <1>5, <1>8, <2>1
  <2>3. Walked(heap, S, off, cnt, index, at[j], h - j)
    BY <1>16, <2>2
  <2>4. at[j + 1] = at[j] \/ \E right \in BOOLEAN : Descended(heap, cnt, at[j], at[j + 1], right)
    BY <1>13, <2>2, <2>3
  <2> QED
    BY <2>1, <2>2, <2>4
<1>18. Walks(heap, S, off, cnt, index, r, h, at)
  BY <1>8, <1>11, <1>16, <1>17 DEF Walks
<1>19. WalksTo(t, S, off, cnt, index, h, at)
  BY <1>1, <1>5, <1>6, <1>18 DEF WalksTo
<1> QED
  BY <1>19

-----------------------------------------------------------------------------
(* flush_to()                                                              *)

(* What is reached from n spans leaves that n spans.                       *)
Within(off, cnt, x, n) ==
  off[n] <= off[x] /\ off[x] + cnt[x] <= off[n] + cnt[n] /\ cnt[x] <= cnt[n]

LEMMA ChildWithin ==
  ASSUME NEW heap, NEW S, NEW par, NEW top, Linked(heap, S, par, top), Nil \notin S,
         NEW off, NEW cnt, NEW nf, Spans(heap, S, off, cnt, Nil, nf),
         NEW y \in S, heap[y].left # Nil, NEW x \in {heap[y].left, heap[y].right}
  PROVE  x \in S /\ par[x] = y /\ Within(off, cnt, x, y) /\ cnt[x] < cnt[y]
<1>1. PICK l, r : l = heap[y].left /\ r = heap[y].right
  OBVIOUS
<1>2. l \in S /\ r \in S /\ par[l] = y /\ par[r] = y
  BY <1>1 DEF Linked
<1>3. PICK o, c, a, b : o = off[y] /\ c = cnt[y] /\ a = cnt[l] /\ b = cnt[r]
  OBVIOUS
<1>4. off[l] = o /\ off[r] = o + a /\ c = a + b /\ a \in Nat \ {0} /\ b \in Nat \ {0} /\ o \in Nat
  BY <1>1, <1>2, <1>3 DEF Spans
<1>5. CASE x = l
  BY <1>2, <1>3, <1>4, <1>5 DEF Within
<1>6. CASE x = r
  BY <1>2, <1>3, <1>4, <1>6 DEF Within
<1> QED
  BY <1>1, <1>5, <1>6

LEMMA ReachedWithin ==
  ASSUME NEW heap, NEW S, NEW par, NEW top, Linked(heap, S, par, top), Nil \notin S,
         NEW off, NEW cnt, NEW nf, Spans(heap, S, off, cnt, Nil, nf),
         NEW m \in Nat, \A x \in S : cnt[x] <= m,
         NEW open, NEW n \in S, NEW R, IsReached(heap, S, par, open, n, R)
  PROVE  \A x \in R : Within(off, cnt, x, n)
<1>1. /\ R \subseteq S /\ (\A x \in R : x # n => par[x] \in R)
      /\ \A x \in S : cnt[x] \in Nat \ {0} /\ off[x] \in Nat
  BY DEF IsReached, Spans
<1> DEFINE T == {j \in Nat : \A x \in R : cnt[x] + j >= m => Within(off, cnt, x, n)}
<1>2. Within(off, cnt, n, n)
  BY <1>1 DEF Within
<1>3. ASSUME NEW x \in R, x # n
      PROVE  par[x] \in R /\ cnt[x] < cnt[par[x]] /\ Within(off, cnt, x, par[x])
  <2>1. PICK y : y = par[x]
    OBVIOUS
  <2>2. y \in R /\ y \in S /\ x \in S
    BY <1>1, <1>3, <2>1
  <2>3. x # top
    BY <2>1, <2>2 DEF Linked
  <2>4. heap[y].left # Nil /\ x \in {heap[y].left, heap[y].right}
    BY <2>1, <2>2, <2>3 DEF Linked
  <2>5. Within(off, cnt, x, y) /\ cnt[x] < cnt[y]
    BY <2>2, <2>4, ChildWithin
  <2> QED
    BY <2>1, <2>2, <2>5
<1>4. 0 \in T
  <2>1. SUFFICES ASSUME NEW x \in R, cnt[x] + 0 >= m PROVE Within(off, cnt, x, n)
    OBVIOUS
  <2>2. x = n
    <3>1. SUFFICES ASSUME x # n PROVE FALSE
      OBVIOUS
    <3>2. PICK c, d : c = cnt[x] /\ d = cnt[par[x]]
      OBVIOUS
    <3>3. c < d /\ d <= m /\ c \in Nat /\ d \in Nat
      BY <1>1, <1>3, <3>1, <3>2
    <3>4. c + 0 >= m
      BY <2>1, <3>2
    <3> QED
      BY <3>3, <3>4
  <2> QED
    BY <1>2, <2>2
<1>5. ASSUME NEW j \in Nat, j \in T PROVE j + 1 \in T
  <2>1. SUFFICES ASSUME NEW x \in R, cnt[x] + (j + 1) >= m, x # n PROVE Within(off, cnt, x, n)
    BY <1>2
  <2>2. PICK y, c, d : y = par[x] /\ c = cnt[x] /\ d = cnt[y]
    OBVIOUS
  <2>3. y \in R /\ c < d /\ Within(off, cnt, x, y) /\ c \in Nat /\ d \in Nat
    BY <1>1, <1>3, <2>1, <2>2
  <2>4. d + j >= m
    <3>1. c + (j + 1) >= m
      BY <2>1, <2>2
    <3> QED
      BY <2>3, <3>1
  <2>5. Within(off, cnt, y, n)
    BY <1>5, <2>2, <2>3, <2>4
  <2>6. x \in S /\ y \in S
    BY <1>1, <2>3
  <2> QED
    BY <1>1, <2>3, <2>5, <2>6 DEF Within
<1> HIDE DEF T
<1>6. Nat \subseteq T
  BY <1>4, <1>5, SetInduction
<1>7. \A x \in R : cnt[x] + m >= m
  <2>1. SUFFICES ASSUME NEW x \in R PROVE cnt[x] + m >= m
    OBVIOUS
  <2>2. cnt[x] \in Nat
    BY <1>1
  <2> QED
    BY <2>2
<1> QED
  BY <1>6, <1>7 DEF T

LEMMA SubtreeWithin ==
  ASSUME NEW heap, NEW S, NEW par, NEW off, NEW cnt, NEW top, NEW L, NEW nf, NEW stale,
         Good(heap, S, par, off, cnt, top, L, nf, stale), Len(L) \in Nat, NEW n \in S
  PROVE  \A x \in Subtree(heap, n) : x \in S /\ Within(off, cnt, x, n)
<1>1. /\ Linked(heap, S, par, top) /\ Nil \notin S /\ Spans(heap, S, off, cnt, Nil, nf)
      /\ Fits(S, off, cnt, top, Len(L))
  BY DEF Good, Linked, Heap, Nil
<1>2. \A x \in S : cnt[x] <= Len(L)
  BY <1>1 DEF Fits, Spans
<1>3. PICK R, open : R = Subtree(heap, n) /\ open = DOMAIN heap
  OBVIOUS
<1>4. IsReached(heap, S, par, open, n, R)
  BY <1>3, SubtreeIs
<1>5. \A x \in R : Within(off, cnt, x, n)
  BY <1>1, <1>2, <1>4, ReachedWithin
<1> QED
  BY <1>3, <1>4, <1>5 DEF IsReached

(* The nodes that conflate() keeps are a tree of the same leaves.          *)
Conflated(g, S2, heap, S, par, off, cnt, top, L, index) ==
  /\ S2 \subseteq S /\ DOMAIN g = S2
  /\ Good(g, S2, par, off, cnt, top, L, index, {})
  /\ \A n \in S : n \notin S2 => off[n] + cnt[n] <= index

LEMMA ConflateIs ==
  ASSUME NEW heap, NEW S, NEW par, NEW off, NEW cnt, NEW top, NEW L, NEW nf,
         Good(heap, S, par, off, cnt, top, L, nf, {}), Len(L) \in Nat, DOMAIN heap = S,
         \A n \in S : ~heap[n].dirty, nf \in Nat, NEW index \in Nat, nf <= index,
         NEW W \in SUBSET S, \A w \in W : cnt[w] \in Powers /\ off[w] + cnt[w] <= index,
         NEW g, g = Conflate(heap, W)
  PROVE  \E S2 : Conflated(g, S2, heap, S, par, off, cnt, top, L, index)
<1>1. PICK Gone : Gone = GoneUnder(heap, W)
  OBVIOUS
<1>2. PICK S2 : S2 = S \ Gone
  OBVIOUS
<1>3. /\ Heap(heap) /\ Closed(heap) /\ Linked(heap, S, par, top)
      /\ Spans(heap, S, off, cnt, Nil, nf) /\ Fits(S, off, cnt, top, Len(L))
      /\ Measured(heap, S, cnt, {}) /\ HashesRight(heap, S, off, cnt, L) /\ Nil \notin S
  BY DEF Good, Heap, Nil
<1>4. \A x \in S : cnt[x] \in Nat \ {0} /\ off[x] \in Nat
  BY <1>3 DEF Spans
<1>5. \A w \in W : IsReached(heap, S, par, S, w, Subtree(heap, w))
  BY SubtreeIs
<1>6. \A w \in W : \A x \in Subtree(heap, w) : x \in S /\ Within(off, cnt, x, w)
  BY SubtreeWithin
<1>7. \A x : x \in Gone <=> \E w \in W : x \in Subtree(heap, w) /\ x # w
  BY <1>1 DEF GoneUnder
<1>8. ASSUME NEW x \in S, NEW y \in S, heap[y].left # Nil, x \in {heap[y].left, heap[y].right}
      PROVE  /\ par[x] = y /\ cnt[x] < cnt[y]
             /\ x \in Gone <=> y \in Gone \/ y \in W
  <2>1. par[x] = y /\ cnt[x] < cnt[y]
    BY <1>3, <1>8, ChildWithin
  <2>2. ASSUME x \in Gone PROVE y \in Gone \/ y \in W
    <3>1. PICK w \in W : x \in Subtree(heap, w) /\ x # w
      BY <1>7, <2>2
    <3>2. y \in Subtree(heap, w)
      BY <1>5, <2>1, <3>1 DEF IsReached
    <3> QED
      BY <1>7, <3>2
  <2>3. ASSUME y \in Gone \/ y \in W PROVE x \in Gone
    <3>1. PICK w \in W : y \in Subtree(heap, w)
      <4>1. CASE y \in Gone
        BY <1>7, <4>1
      <4>2. CASE y \in W
        BY <1>5, <4>2 DEF IsReached
      <4> QED
        BY <2>3, <4>1, <4>2
    <3>2. x \in Subtree(heap, w)
      BY <1>5, <1>8, <3>1 DEF IsReached
    <3>3. x # w
      <4>1. SUFFICES ASSUME x = w PROVE FALSE
        OBVIOUS
      <4>2. cnt[y] <= cnt[x]
        BY <1>6, <3>1, <4>1 DEF Within
      <4> QED
        BY <1>4, <2>1, <4>2
    <3> QED
      BY <1>7, <3>2, <3>3
  <2> QED
    BY <2>1, <2>2, <2>3
<1>9. top \in S2
  <2>1. SUFFICES ASSUME top \in Gone PROVE FALSE
    BY <1>2, <1>3 DEF Linked
  <2>2. PICK w \in W : top \in Subtree(heap, w) /\ top # w
    BY <1>7, <2>1
  <2>3. par[top] \in S
    BY <1>5, <2>2 DEF IsReached
  <2> QED
    BY <1>3, <2>3 DEF Linked
<1>10. g = [n \in S2 |-> IF n \in W THEN [heap[n] EXCEPT !.left = Nil, !.right = Nil] ELSE heap[n]]
  BY <1>1, <1>2 DEF Conflate
<1>11. DOMAIN g = S2 /\ S2 \subseteq S
  BY <1>2, <1>10
<1>12. ASSUME NEW n \in S2
       PROVE  /\ IsNode(g[n]) /\ g[n].hash = heap[n].hash /\ g[n].dirty = heap[n].dirty
              /\ g[n].size = heap[n].size /\ g[n].height = heap[n].height
              /\ n \in W => g[n].left = Nil /\ g[n].right = Nil
              /\ n \notin W => g[n] = heap[n]
  <2>1. PICK x, y : x = heap[n] /\ y = g[n]
    OBVIOUS
  <2>2. IsNode(x)
    BY <1>3, <1>11, <2>1 DEF Heap
  <2>3. CASE n \in W
    <3>1. y = [x EXCEPT !.left = Nil, !.right = Nil]
      BY <1>10, <2>1, <2>3
    <3>2. IsNode(y) /\ y.left = Nil /\ y.right = Nil /\ y.size = x.size
          /\ y.height = x.height /\ y.hash = x.hash /\ y.dirty = x.dirty
      BY <2>2, <3>1, StrippedNode
    <3> QED
      BY <2>1, <2>3, <3>2
  <2>4. CASE n \notin W
    BY <1>10, <2>1, <2>2, <2>4
  <2> QED
    BY <2>3, <2>4
<1>13. ASSUME NEW n \in S2, g[n].left # Nil
       PROVE  n \notin W /\ g[n] = heap[n] /\ heap[n].left \in S2 /\ heap[n].right \in S2
  <2>1. n \notin W /\ g[n] = heap[n] /\ n \in S
    BY <1>11, <1>12, <1>13
  <2>2. heap[n].left # Nil
    BY <1>13, <2>1
  <2>3. heap[n].left \in S /\ heap[n].right \in S
    BY <1>3, <2>1, <2>2 DEF Linked
  <2>4. n \notin Gone
    BY <1>2
  <2>5. heap[n].left \notin Gone /\ heap[n].right \notin Gone
    BY <1>8, <2>1, <2>2, <2>3, <2>4
  <2> QED
    BY <1>2, <2>1, <2>3, <2>5
<1>14. Heap(g)
  <2>1. IsFiniteSet(S2)
    BY <1>3, <1>11, FS_Subset DEF Heap
  <2>2. S2 \subseteq Nat \ {0}
    BY <1>3, <1>11 DEF Heap
  <2>3. g = [n \in DOMAIN g |-> g[n]]
    BY <1>10
  <2> QED
    BY <1>11, <1>12, <2>1, <2>2, <2>3 DEF Heap
<1>15. Closed(g)
  <2>1. SUFFICES ASSUME NEW n \in S2
                 PROVE  g[n].left \in S2 \cup {Nil} /\ g[n].right \in S2 \cup {Nil}
    BY <1>11 DEF Closed
  <2>2. CASE g[n].left # Nil
    BY <1>13, <2>2
  <2>3. CASE g[n].left = Nil
    <3>1. g[n].right = Nil
      <4>1. CASE n \in W
        BY <1>12, <4>1
      <4>2. CASE n \notin W
        <5>1. g[n] = heap[n] /\ n \in S
          BY <1>11, <1>12, <4>2
        <5> QED
          BY <1>3, <2>3, <5>1 DEF Linked
      <4> QED
        BY <4>1, <4>2
    <3> QED
      BY <2>3, <3>1
  <2> QED
    BY <2>2, <2>3
<1>16. Linked(g, S2, par, top)
  <2>1. par[top] = Nil
    BY <1>3 DEF Linked
  <2>2. ASSUME NEW n \in S2, g[n].left = Nil PROVE g[n].right = Nil
    <3>1. CASE n \in W
      BY <1>12, <3>1
    <3>2. CASE n \notin W
      <4>1. g[n] = heap[n] /\ n \in S
        BY <1>11, <1>12, <3>2
      <4> QED
        BY <1>3, <2>2, <4>1 DEF Linked
    <3> QED
      BY <3>1, <3>2
  <2>3. ASSUME NEW n \in S2, g[n].left # Nil
        PROVE  /\ g[n].left \in S2 /\ g[n].right \in S2 /\ g[n].left # g[n].right
               /\ par[g[n].left] = n /\ par[g[n].right] = n
    <3>1. g[n] = heap[n] /\ heap[n].left \in S2 /\ heap[n].right \in S2 /\ n \in S
      BY <1>11, <1>13, <2>3
    <3> QED
      BY <1>3, <2>3, <3>1 DEF Linked
  <2>4. ASSUME NEW n \in S2, n # top
        PROVE  /\ par[n] \in S2 /\ g[par[n]].left # Nil
               /\ n \in {g[par[n]].left, g[par[n]].right}
    <3>1. PICK y : y = par[n]
      OBVIOUS
    <3>2. n \in S /\ y \in S /\ heap[y].left # Nil /\ n \in {heap[y].left, heap[y].right}
      BY <1>3, <1>11, <2>4, <3>1 DEF Linked
    <3>3. y \notin Gone /\ y \notin W
      BY <1>2, <1>8, <3>2
    <3>4. y \in S2
      BY <1>2, <3>2, <3>3
    <3>5. g[y] = heap[y]
      BY <1>12, <3>3, <3>4
    <3> QED
      BY <3>1, <3>2, <3>4, <3>5
  <2> QED
    BY <1>9, <1>11, <2>1, <2>2, <2>3, <2>4 DEF Linked
<1>17. Spans(g, S2, off, cnt, Nil, index)
  <2>1. \A n \in S2 : off[n] \in Nat /\ cnt[n] \in Nat \ {0}
    BY <1>4, <1>11
  <2>2. ASSUME NEW n \in S2, g[n].left # Nil
        PROVE  /\ off[g[n].left] = off[n] /\ off[g[n].right] = off[n] + cnt[g[n].left]
               /\ cnt[g[n].left] \in Powers /\ cnt[g[n].right] <= cnt[g[n].left]
               /\ n # Nil => cnt[n] = cnt[g[n].left] + cnt[g[n].right]
    <3>1. g[n] = heap[n] /\ n \in S
      BY <1>11, <1>13, <2>2
    <3> QED
      BY <1>3, <2>2, <3>1 DEF Spans
  <2>3. ASSUME NEW n \in S2, g[n].left = Nil
        PROVE  cnt[n] \in Powers /\ (cnt[n] = 1 \/ off[n] + cnt[n] <= index)
    <3>1. CASE n \in W
      BY <3>1
    <3>2. CASE n \notin W
      <4>1. g[n] = heap[n] /\ n \in S
        BY <1>11, <1>12, <3>2
      <4>2. cnt[n] \in Powers /\ (cnt[n] = 1 \/ off[n] + cnt[n] <= nf)
        BY <1>3, <2>3, <4>1 DEF Spans
      <4> QED
        BY <1>4, <4>1, <4>2
    <3> QED
      BY <3>1, <3>2
  <2> QED
    BY <2>1, <2>2, <2>3 DEF Spans
<1>18. Fits(S2, off, cnt, top, Len(L))
  BY <1>3, <1>11 DEF Fits
<1>19. Measured(g, S2, cnt, {})
  BY <1>3, <1>11, <1>12 DEF Measured
<1>20. HashesRight(g, S2, off, cnt, L)
  <2>1. \A n \in S2 : ~g[n].dirty
    BY <1>11, <1>12
  <2>2. \A n \in S2 : g[n].hash = SubtreeHash(L)[cnt[n]][off[n]]
    BY <1>3, <1>11, <1>12 DEF HashesRight
  <2>3. \A n \in S2 : g[n].left # Nil => g[n].left \in S2 /\ g[n].right \in S2
    BY <1>13
  <2> QED
    BY <2>1, <2>2, <2>3 DEF HashesRight
<1>21. Good(g, S2, par, off, cnt, top, L, index, {})
  BY <1>14, <1>15, <1>16, <1>17, <1>18, <1>19, <1>20 DEF Good
<1>22. ASSUME NEW n \in S, n \notin S2 PROVE off[n] + cnt[n] <= index
  <2>1. PICK w \in W : n \in Subtree(heap, w)
    BY <1>2, <1>7, <1>22
  <2>2. PICK a, b : a = off[n] + cnt[n] /\ b = off[w] + cnt[w]
    OBVIOUS
  <2>3. a <= b /\ b <= index
    BY <1>6, <2>1, <2>2 DEF Within
  <2>4. a \in Nat /\ b \in Nat
    BY <1>4, <2>2
  <2> QED
    BY <2>2, <2>3, <2>4
<1>23. Conflated(g, S2, heap, S, par, off, cnt, top, L, index)
  BY <1>11, <1>21, <1>22 DEF Conflated
<1> QED
  BY <1>23

(* What is to the left of the walk to index.                               *)
LeftIs(W, S, off, cnt, index) ==
  W \in SUBSET S /\ \A w \in W : cnt[w] \in Powers /\ off[w] + cnt[w] <= index

LEMMA LeftOfWalkIs ==
  ASSUME NEW t, NEW S, NEW par, NEW off, NEW cnt, NEW L, NEW nf,
         Good(t.heap, S, par, off, cnt, t.root, L, nf, {}), Len(L) \in Nat, nf \in Nat,
         NEW index \in Nat, nf <= index, index < Len(L)
  PROVE  LeftIs(LeftOfWalk(t, index), S, off, cnt, index)
<1>1. PICK h, at : WalksTo(t, S, off, cnt, index, h, at)
  BY WalkToIs
<1>2. /\ h \in Nat \ {0} /\ Walks(t.heap, S, off, cnt, index, t.root, h, at)
      /\ WalkTo(t, index) = at[h - 1]
  BY <1>1 DEF WalksTo
<1>3. PICK z, turns, heap : z = at[h - 1] /\ turns = z.turns /\ heap = t.heap
  OBVIOUS
<1>4. Walked(heap, S, off, cnt, index, z, 1)
  <2>1. h - 1 \in 0 .. h - 1 /\ h - (h - 1) = 1
    BY <1>2
  <2>2. Walked(heap, S, off, cnt, index, at[h - 1], h - (h - 1))
    BY <1>2, <1>3, <2>1 DEF Walks
  <2> QED
    BY <1>3, <2>1, <2>2
<1>5. turns \in Seq(WalkTurn) /\ \A i \in 1 .. Len(turns) : TurnIs(heap, S, off, index, turns[i])
  BY <1>3, <1>4 DEF Walked, WalkAt
<1>6. Turns(t, index) = turns
  BY <1>2, <1>3 DEF Turns
<1>7. ASSUME NEW w \in LeftOfWalk(t, index)
      PROVE  w \in S /\ cnt[w] \in Powers /\ off[w] + cnt[w] <= index
  <2>1. PICK turn \in Range(turns) : turn.right /\ w = heap[turn.n].left
    BY <1>3, <1>6 DEF LeftOfWalk
  <2>2. PICK i \in 1 .. Len(turns) : turn = turns[i]
    BY <1>5 DEF Range
  <2>3. turn.n \in S /\ heap[turn.n].left # Nil /\ off[heap[turn.n].right] <= index
    BY <1>5, <2>1, <2>2 DEF TurnIs
  <2>4. Linked(heap, S, par, t.root) /\ Spans(heap, S, off, cnt, Nil, nf)
    BY <1>3 DEF Good
  <2>5. w \in S
    BY <2>1, <2>3, <2>4 DEF Linked
  <2>6. off[w] = off[turn.n] /\ off[heap[turn.n].right] = off[turn.n] + cnt[w] /\ cnt[w] \in Powers
    BY <2>1, <2>3, <2>4 DEF Spans
  <2> QED
    BY <2>3, <2>5, <2>6
<1> QED
  BY <1>7 DEF LeftIs

LEMMA SuffixIs ==
  ASSUME NEW T, NEW s \in Seq(T), NEW n \in Nat, Len(s) = n, NEW k \in Nat, k <= n,
         NEW sub, sub = SubSeq(s, k + 1, n)
  PROVE  sub \in Seq(T) /\ Len(sub) = n - k /\ \A i \in 1 .. n - k : sub[i] = s[i + k]
<1>1. k + 1 \in 1 .. n + 1 /\ n \in 0 .. Len(s) /\ n - (k + 1) + 1 = n - k
  OBVIOUS
<1>2. sub \in Seq(T)
  BY <1>1
<1>3. Len(sub) = n - k
  BY <1>1
<1>4. \A i \in 1 .. n - k : sub[i] = s[i + k]
  BY <1>1
<1> QED
  BY <1>2, <1>3, <1>4

LEMMA FlushComputedHolds ==
  ASSUME NEW t, NEW leaves, leaves # <<>>, NEW S, NEW par, NEW off, NEW cnt, NEW p,
         Clean(t, leaves, S, par, off, cnt, p),
         NEW index \in Nat, t.num_flushed <= index, index < Len(leaves),
         NEW u, u = FlushComputed(t, index)
  PROVE  \E S2 : Whole(u, leaves, S2, par, off, cnt, p)
<1>1. /\ IsTree(t) /\ leaves \in Seq(LeafHashes) /\ Len(leaves) \in Nat
      /\ t.uninserted_leaf_nodes = <<>> /\ t.insertion_stack = <<>>
      /\ DOMAIN t.heap = S /\ S \subseteq Nat \ {0} /\ t.root \in S /\ t.root = p[1]
      /\ Good(t.heap, S, par, off, cnt, t.root, leaves, t.num_flushed, {})
      /\ LeavesHang(t, leaves, S, off, cnt)
  BY WholeParts DEF Clean
<1>2. PICK heap, r, nf, ln, len, W, g, k, k1, sub :
        /\ heap = t.heap /\ r = t.root /\ nf = t.num_flushed /\ ln = t.leaf_nodes /\ len = Len(ln)
        /\ W = LeftOfWalk(t, index) /\ g = Conflate(heap, W)
        /\ k = index - nf /\ k1 = k + 1 /\ sub = SubSeq(ln, k1, len)
  OBVIOUS
<1>3. /\ nf \in Nat /\ ln \in Seq(Nat) /\ len \in Nat /\ nf <= index /\ Len(leaves) = nf + len
      /\ \A i \in 1 .. len : ln[i] \in S /\ off[ln[i]] = nf + i - 1 /\ cnt[ln[i]] = 1
  BY <1>1, <1>2 DEF IsTree, LeavesHang
<1>4. W \in SUBSET S /\ \A w \in W : cnt[w] \in Powers /\ off[w] + cnt[w] <= index
  <2>1. t.num_flushed \in Nat
    BY <1>1 DEF IsTree
  <2>2. LeftIs(LeftOfWalk(t, index), S, off, cnt, index)
    BY <1>1, <2>1, LeftOfWalkIs
  <2> QED
    BY <1>2, <2>2 DEF LeftIs
<1>5. PICK S2 : Conflated(g, S2, heap, S, par, off, cnt, r, leaves, index)
  <2>1. \A n \in S : ~heap[n].dirty
    BY <1>2 DEF Clean
  <2>2. Good(heap, S, par, off, cnt, r, leaves, nf, {}) /\ DOMAIN heap = S
    BY <1>1, <1>2
  <2> QED
    BY <1>1, <1>2, <1>3, <1>4, <2>1, <2>2, ConflateIs
<1>6. /\ S2 \subseteq S /\ DOMAIN g = S2
      /\ Good(g, S2, par, off, cnt, r, leaves, index, {})
      /\ \A n \in S : n \notin S2 => off[n] + cnt[n] <= index
  BY <1>5 DEF Conflated
<1>7. k \in Nat /\ nf + k = index /\ k1 = k + 1 /\ k < len
  <2>1. PICK l : l = Len(leaves)
    OBVIOUS
  <2>2. l = nf + len /\ index < l
    BY <1>3, <2>1
  <2>3. k = index - nf /\ k1 = k + 1
    BY <1>2
  <2>4. nf \in Nat /\ len \in Nat /\ nf <= index
    BY <1>3
  <2> QED
    BY <2>2, <2>3, <2>4
<1>8. sub \in Seq(Nat) /\ Len(sub) = len - k /\ \A i \in 1 .. len - k : sub[i] = ln[i + k]
  <2>1. ln \in Seq(Nat) /\ len \in Nat /\ Len(ln) = len /\ k \in Nat /\ k <= len
        /\ sub = SubSeq(ln, k + 1, len)
    BY <1>2, <1>3, <1>7
  <2> QED
    BY <2>1, SuffixIs
<1>9. /\ IsTree(u) /\ u.heap = g /\ u.root = r /\ u.leaf_nodes = sub
      /\ u.num_flushed = index /\ u.insertion_stack = <<>>
      /\ u.uninserted_leaf_nodes = <<>>
  <2>1. u = [heap |-> g, root |-> r, leaf_nodes |-> sub,
             uninserted_leaf_nodes |-> <<>>, num_flushed |-> index,
             insertion_stack |-> <<>>]
    BY <1>1, <1>2, <1>7 DEF FlushComputed, IsTree
  <2>2. r \in Nat /\ <<>> \in Seq(Nat) /\ <<>> \in Seq(StackElement)
    <3>1. r = t.root /\ t.root \in Nat
      BY <1>1, <1>2
    <3> QED
      BY <3>1
  <2> QED
    BY <1>3, <1>8, <2>1, <2>2 DEF IsTree
<1>10. LeavesHang(u, leaves, S2, off, cnt)
  <2>1. Len(leaves) = index + Len(sub)
    <3>1. PICK l, s : l = Len(leaves) /\ s = Len(sub)
      OBVIOUS
    <3>2. l = nf + len /\ s = len - k
      BY <1>3, <1>8, <3>1
    <3> QED
      BY <1>3, <1>7, <3>1, <3>2
  <2>2. ASSUME NEW i \in 1 .. Len(sub)
        PROVE  sub[i] \in S2 /\ off[sub[i]] = index + i - 1 /\ cnt[sub[i]] = 1
    <3>1. PICK j, x : j = i + k /\ x = sub[i]
      OBVIOUS
    <3>2. i \in 1 .. len - k
      BY <1>8
    <3>3. j \in 1 .. len /\ x = ln[j] /\ nf + j - 1 = index + i - 1
      BY <1>3, <1>7, <1>8, <3>1, <3>2
    <3>4. x \in S /\ off[x] = index + i - 1 /\ cnt[x] = 1
      BY <1>3, <3>3
    <3>5. ~(off[x] + cnt[x] <= index)
      BY <3>2, <3>4
    <3> QED
      BY <1>6, <3>1, <3>4, <3>5
  <2> QED
    BY <1>9, <2>1, <2>2 DEF LeavesHang
<1>11. Good(u.heap, S2, par, off, cnt, u.root, leaves, u.num_flushed, {})
  BY <1>6, <1>9
<1>12. DOMAIN u.heap = S2 /\ u.root = p[1]
  BY <1>1, <1>2, <1>6, <1>9
<1>13. Whole(u, leaves, S2, par, off, cnt, p)
  BY <1>1, <1>9, <1>10, <1>11, <1>12, WholeFrom
<1> QED
  BY <1>13

-----------------------------------------------------------------------------
(* compute_root() leaves num_flushed alone                                 *)

Keeps(u, t) ==
  /\ u = [heap |-> u.heap, root |-> u.root, leaf_nodes |-> u.leaf_nodes,
          uninserted_leaf_nodes |-> u.uninserted_leaf_nodes, num_flushed |-> u.num_flushed,
          insertion_stack |-> u.insertion_stack]
  /\ u.num_flushed = t.num_flushed

LEMMA ProcessKeeps ==
  ASSUME NEW t, Keeps(t, t), NEW c, NEW u, u = ProcessInsertionStack(t, c)
  PROVE  Keeps(u, t)
<1>1. \E a, r, e : u = [t EXCEPT !.heap = a, !.root = r, !.insertion_stack = e]
  BY DEF ProcessInsertionStack
<1>2. PICK a, r, e : u = [t EXCEPT !.heap = a, !.root = r, !.insertion_stack = e]
  BY <1>1
<1>3. u = [heap |-> a, root |-> r, leaf_nodes |-> t.leaf_nodes,
          uninserted_leaf_nodes |-> t.uninserted_leaf_nodes, num_flushed |-> t.num_flushed,
          insertion_stack |-> e]
  BY <1>2 DEF Keeps
<1> QED
  BY <1>3 DEF Keeps

LEMMA ContinueKeeps ==
  ASSUME NEW t, Keeps(t, t), NEW n, NEW x, NEW u, u = ContinueInsertionStack(t, n, x)
  PROVE  Keeps(u, t)
<1>1. \E a, e : u = [t EXCEPT !.heap = a, !.insertion_stack = e]
  BY DEF ContinueInsertionStack
<1>2. PICK a, e : u = [t EXCEPT !.heap = a, !.insertion_stack = e]
  BY <1>1
<1>3. u = [heap |-> a, root |-> t.root, leaf_nodes |-> t.leaf_nodes,
          uninserted_leaf_nodes |-> t.uninserted_leaf_nodes, num_flushed |-> t.num_flushed,
          insertion_stack |-> e]
  BY <1>2 DEF Keeps
<1> QED
  BY <1>3 DEF Keeps

LEMMA InsertLeafKeeps ==
  ASSUME NEW t, Keeps(t, t), NEW n, NEW u, u = InsertLeaf(t, n)
  PROVE  Keeps(u, t)
<1>1. PICK v : v = [t EXCEPT !.leaf_nodes = Append(@, n)]
  OBVIOUS
<1>2. Keeps(v, t) /\ Keeps(v, v)
  BY <1>1 DEF Keeps
<1>3. u = Hang(v, n)
  BY <1>1 DEF InsertLeaf
<1>4. CASE v.insertion_stack = <<>> /\ v.root = Nil
  <2>1. u = [v EXCEPT !.root = n]
    BY <1>3, <1>4 DEF Hang
  <2> QED
    BY <1>2, <2>1 DEF Keeps
<1>5. CASE ~(v.insertion_stack = <<>> /\ v.root = Nil)
  <2>1. PICK x : x = ContinueInsertionStack(v, v.root, n)
    OBVIOUS
  <2>2. Keeps(x, v)
    BY <1>2, <2>1, ContinueKeeps
  <2>3. Keeps(x, x)
    BY <2>2 DEF Keeps
  <2>4. u = ProcessInsertionStack(x, FALSE)
    BY <1>3, <1>5, <2>1 DEF Hang
  <2>5. Keeps(u, x)
    BY <2>3, <2>4, ProcessKeeps
  <2> QED
    BY <1>2, <2>2, <2>5 DEF Keeps
<1> QED
  BY <1>4, <1>5

LEMMA HangWaitingKeeps ==
  ASSUME NEW t, Keeps(t, t), Len(t.uninserted_leaf_nodes) \in Nat, NEW u, u = HangWaiting(t)
  PROVE  Keeps(u, t)
<1>1. PICK w, m : w = t.uninserted_leaf_nodes /\ m = Len(w)
  OBVIOUS
<1>2. m \in Nat
  BY <1>1
<1>3. PICK f : f = CHOOSE g : HungTable(t, g)
  OBVIOUS
<1>4. HungTable(t, f)
  <2>1. \E h : HungTable(t, h)
    BY HungExists
  <2> QED
    BY <1>3, <2>1
<1>5. f = [k \in 0 .. m |-> IF k = 0 THEN t ELSE InsertLeaf(f[k - 1], w[k])]
  BY <1>1, <1>4 DEF HungTable
<1>6. u = [f[m] EXCEPT !.uninserted_leaf_nodes = <<>>]
  BY <1>1, <1>3 DEF HangWaiting, HungTable
<1> DEFINE T == {k \in Nat : k <= m => Keeps(f[k], t)}
<1>7. 0 \in T
  <2>1. f[0] = t
    BY <1>2, <1>5
  <2> QED
    BY <2>1
<1>8. ASSUME NEW k \in Nat, k \in T PROVE k + 1 \in T
  <2>1. SUFFICES ASSUME k + 1 <= m PROVE Keeps(f[k + 1], t)
    OBVIOUS
  <2>2. k <= m
    BY <1>2, <2>1
  <2>3. PICK y, z : y = f[k] /\ z = f[k + 1]
    OBVIOUS
  <2>4. z = InsertLeaf(y, w[k + 1])
    <3>1. k + 1 \in 0 .. m /\ k + 1 # 0 /\ (k + 1) - 1 = k
      BY <1>2, <2>1
    <3> QED
      BY <1>5, <2>3, <3>1
  <2>5. Keeps(y, t)
    BY <1>8, <2>2, <2>3
  <2>6. Keeps(y, y)
    BY <2>5 DEF Keeps
  <2>7. Keeps(z, y)
    BY <2>4, <2>6, InsertLeafKeeps
  <2>8. Keeps(z, t)
    BY <2>5, <2>7 DEF Keeps
  <2> QED
    BY <2>3, <2>8
<1>9. m \in T
  <2> HIDE DEF T
  <2> QED
    BY <1>2, <1>7, <1>8, SetInduction
<1>10. PICK v : v = f[m]
  OBVIOUS
<1>11. Keeps(v, t)
  BY <1>2, <1>9, <1>10
<1>12. u = [v EXCEPT !.uninserted_leaf_nodes = <<>>]
  BY <1>6, <1>10
<1> QED
  BY <1>11, <1>12 DEF Keeps

LEMMA ComputeRootKeeps ==
  ASSUME NEW t, IsTree(t), NEW u, u = ComputeRoot(t)
  PROVE  u.num_flushed = t.num_flushed
<1>1. Keeps(t, t) /\ Len(t.uninserted_leaf_nodes) \in Nat
  BY DEF IsTree, Keeps
<1>2. PICK x, y : x = HangWaiting(t) /\ y = CompleteInsertion(x)
  OBVIOUS
<1>3. Keeps(x, t)
  BY <1>1, <1>2, HangWaitingKeeps
<1>4. Keeps(x, x)
  BY <1>3 DEF Keeps
<1>5. Keeps(y, x)
  <2>1. CASE y = x
    BY <1>4, <2>1
  <2>2. CASE y = ProcessInsertionStack(x, TRUE)
    BY <1>4, <2>2, ProcessKeeps
  <2> QED
    BY <1>2, <2>1, <2>2 DEF CompleteInsertion
<1>6. u = Hashed(y)
  BY <1>2 DEF ComputeRoot, InsertLeaves
<1>7. u.num_flushed = y.num_flushed
  BY <1>5, <1>6 DEF Hashed, Keeps
<1> QED
  BY <1>3, <1>5, <1>7 DEF Keeps

-----------------------------------------------------------------------------
(* retract_to() an index of a leaf that waits                              *)

LEMMA PrefixIs ==
  ASSUME NEW T, NEW s \in Seq(T), NEW n \in Nat, Len(s) = n, NEW k \in Nat, k <= n,
         NEW sub, sub = SubSeq(s, 1, k)
  PROVE  sub \in Seq(T) /\ Len(sub) = k /\ \A i \in 1 .. k : sub[i] = s[i]
<1>1. 1 \in 1 .. n + 1 /\ k \in 0 .. Len(s) /\ k - 1 + 1 = k
  OBVIOUS
<1>2. sub \in Seq(T)
  BY <1>1
<1>3. Len(sub) = k
  BY <1>1
<1>4. \A i \in 1 .. k : sub[i] = s[i]
  BY <1>1
<1> QED
  BY <1>2, <1>3, <1>4

(* Waiting leaves go: of those in w, the first k stay.                     *)
FewerWait(g, S, v, c, heap) ==
  /\ LeavesWait(g, S, v, 0, c) /\ S \subseteq DOMAIN g /\ DOMAIN g \subseteq DOMAIN heap
  /\ g = [n \in DOMAIN g |-> heap[n]]
  /\ \A n \in DOMAIN g : n \notin S => \E hash : heap[n] = NewLeaf(hash)

LEMMA RangeOfRest ==
  ASSUME NEW w \in Seq(Nat), NEW m \in Nat, Len(w) = m, NEW k \in Nat, k <= m
  PROVE  Range(SubSeq(w, k + 1, m)) = {w[i + k] : i \in 1 .. m - k}
<1>1. PICK sub, T : sub = SubSeq(w, k + 1, m) /\ T = Range(SubSeq(w, k + 1, m))
  OBVIOUS
<1>2. w \in Seq(Nat) /\ m \in Nat /\ Len(w) = m /\ k \in Nat /\ k <= m /\ sub = SubSeq(w, k + 1, m)
  BY <1>1
<1>3. sub \in Seq(Nat) /\ Len(sub) = m - k /\ \A i \in 1 .. m - k : sub[i] = w[i + k]
  <2>1. k + 1 \in 1 .. m + 1 /\ m \in 0 .. Len(w) /\ m - (k + 1) + 1 = m - k
    BY <1>2
  <2>2. sub \in Seq(Nat)
    BY <1>2, <2>1
  <2>3. Len(sub) = m - k
    BY <1>2, <2>1
  <2>4. \A i \in 1 .. m - k : sub[i] = w[i + k]
    BY <1>2, <2>1
  <2> QED
    BY <2>2, <2>3, <2>4
<1>4. DOMAIN sub = 1 .. m - k
  BY <1>3
<1>5. T = Range(sub)
  BY <1>1
<1>6. T = {sub[i] : i \in 1 .. m - k}
  BY <1>4, <1>5 DEF Range
<1>7. T = {w[i + k] : i \in 1 .. m - k}
  BY <1>3, <1>6
<1> QED
  BY <1>1, <1>7

LEMMA LeavesWaitFewer ==
  ASSUME NEW heap, NEW S, NEW w \in Seq(Nat), NEW leaves \in Seq(LeafHashes),
         NEW l, NEW m, l = Len(leaves), m = Len(w), m <= l, LeavesWait(heap, S, w, 0, leaves),
         NEW k \in Nat, k <= m, NEW j, j = l - m, NEW q, q = j + k,
         NEW v, v = SubSeq(w, 1, k), NEW c, c = SubSeq(leaves, 1, q),
         NEW gone, gone = Range(SubSeq(w, k + 1, m)), NEW g, g = Without(heap, gone)
  PROVE  FewerWait(g, S, v, c, heap)
<1>1. PICK z : z = 0
  OBVIOUS
<1>2. l \in Nat /\ m \in Nat /\ m <= l /\ k <= m /\ j \in Nat /\ j <= l /\ q \in Nat /\ q <= l
  OBVIOUS
<1>3. LeavesWait(heap, S, w, z, leaves) /\ z + 1 .. m = 1 .. m
  BY <1>1, <1>2
<1>4. /\ DOMAIN heap = S \cup {w[i] : i \in 1 .. m}
      /\ \A i \in 1 .. m : w[i] \notin S /\ heap[w[i]] = NewLeaf(leaves[j + i])
      /\ \A i \in 1 .. m : \A i2 \in 1 .. m : i # i2 => w[i] # w[i2]
  BY <1>1, <1>3 DEF LeavesWait
<1>5. v \in Seq(Nat) /\ Len(v) = k /\ \A i \in 1 .. k : v[i] = w[i]
  BY <1>2, PrefixIs
<1>6. c \in Seq(LeafHashes) /\ Len(c) = q /\ \A i \in 1 .. q : c[i] = leaves[i]
  <2>1. Len(leaves) = l
    OBVIOUS
  <2> QED
    BY <1>2, <2>1, PrefixIs
<1>7. gone = {w[i + k] : i \in 1 .. m - k}
  <2>1. w \in Seq(Nat) /\ m \in Nat /\ Len(w) = m /\ k \in Nat /\ k <= m
    BY <1>2
  <2> QED
    BY <2>1, RangeOfRest
<1>8. g = [n \in DOMAIN heap \ gone |-> heap[n]]
  BY DEF Without
<1>9. S \cup {w[i] : i \in 1 .. k} = DOMAIN heap \ gone
  <2>1. ASSUME NEW n \in S PROVE n \in DOMAIN heap \ gone
    <3>1. \A i \in 1 .. m - k : i + k \in 1 .. m
      BY <1>2
    <3> QED
      BY <1>4, <1>7, <3>1
  <2>2. ASSUME NEW i \in 1 .. k PROVE w[i] \in DOMAIN heap \ gone
    <3>1. i \in 1 .. m
      BY <1>2
    <3>2. \A i2 \in 1 .. m - k : i2 + k \in 1 .. m /\ i # i2 + k
      BY <1>2
    <3> QED
      BY <1>4, <1>7, <3>1, <3>2
  <2>3. ASSUME NEW n \in DOMAIN heap \ gone, n \notin S PROVE n \in {w[i] : i \in 1 .. k}
    <3>1. PICK i \in 1 .. m : n = w[i]
      BY <1>4, <2>3
    <3>2. CASE i <= k
      <4>1. i \in 1 .. k
        BY <1>2, <3>2
      <4> QED
        BY <3>1, <4>1
    <3>3. CASE i > k
      <4>1. PICK i2 : i2 = i - k
        OBVIOUS
      <4>2. i2 \in 1 .. m - k /\ i2 + k = i
        BY <1>2, <3>3, <4>1
      <4> QED
        BY <1>7, <2>3, <3>1, <4>2
    <3>4. i <= k \/ i > k
      BY <1>2
    <3> QED
      BY <3>2, <3>3, <3>4
  <2>4. DOMAIN heap \ gone \subseteq S \cup {w[i] : i \in 1 .. k}
    BY <2>3
  <2>5. S \cup {w[i] : i \in 1 .. k} \subseteq DOMAIN heap \ gone
    BY <2>1, <2>2
  <2> QED
    BY <2>4, <2>5
<1>10. \A i \in 1 .. k : i \in 1 .. m /\ j + i \in 1 .. q
  <2>1. q = j + k
    OBVIOUS
  <2> QED
    BY <1>2, <2>1
<1>11. DOMAIN g = S \cup {v[i] : i \in 1 .. k}
  <2>1. {w[i] : i \in 1 .. k} = {v[i] : i \in 1 .. k}
    BY <1>5
  <2>2. DOMAIN g = DOMAIN heap \ gone
    BY <1>8
  <2> QED
    BY <1>9, <2>1, <2>2
<1>12. \A i \in 1 .. k : v[i] \notin S /\ g[v[i]] = NewLeaf(c[j + i])
  <2>1. SUFFICES ASSUME NEW i \in 1 .. k PROVE v[i] \notin S /\ g[v[i]] = NewLeaf(c[j + i])
    OBVIOUS
  <2>2. v[i] = w[i] /\ w[i] \in DOMAIN heap \ gone
    BY <1>5, <1>9
  <2>3. g[w[i]] = heap[w[i]] /\ c[j + i] = leaves[j + i]
    BY <1>6, <1>8, <1>10, <2>2
  <2>4. w[i] \notin S /\ heap[w[i]] = NewLeaf(leaves[j + i])
    BY <1>4, <1>10
  <2> QED
    BY <2>2, <2>3, <2>4
<1>13. \A i \in 1 .. k : \A i2 \in 1 .. k : i # i2 => v[i] # v[i2]
  BY <1>4, <1>5, <1>10
<1>14. LeavesWait(g, S, v, 0, c)
  <2>1. z + 1 .. Len(v) = 1 .. k
    BY <1>1, <1>2, <1>5
  <2>2. Len(c) - Len(v) = j
    <3>1. PICK x, y : x = Len(c) /\ y = Len(v)
      OBVIOUS
    <3>2. x = q /\ y = k
      BY <1>5, <1>6, <3>1
    <3>3. q - k = j
      BY <1>2
    <3> QED
      BY <3>1, <3>2, <3>3
  <2>3. DOMAIN g = S \cup {v[i] : i \in z + 1 .. Len(v)}
    BY <1>11, <2>1
  <2>4. \A i \in z + 1 .. Len(v) : v[i] \notin S /\ g[v[i]] = NewLeaf(c[Len(c) - Len(v) + i])
    BY <1>12, <2>1, <2>2
  <2>5. \A i \in z + 1 .. Len(v) : \A i2 \in z + 1 .. Len(v) : i # i2 => v[i] # v[i2]
    BY <1>13, <2>1
  <2>6. LeavesWait(g, S, v, z, c)
    BY <2>3, <2>4, <2>5 DEF LeavesWait
  <2> QED
    BY <1>1, <2>6
<1>15. \A n \in DOMAIN g : n \notin S => \E hash : heap[n] = NewLeaf(hash)
  <2>1. SUFFICES ASSUME NEW n \in DOMAIN g, n \notin S PROVE \E hash : heap[n] = NewLeaf(hash)
    OBVIOUS
  <2>2. PICK i \in 1 .. k : n = v[i]
    BY <1>11, <2>1
  <2>3. n = w[i] /\ i \in 1 .. m
    BY <1>5, <1>10, <2>2
  <2> QED
    BY <1>4, <2>3
<1>16. S \subseteq DOMAIN g /\ DOMAIN g \subseteq DOMAIN heap
  <2>1. DOMAIN g = DOMAIN heap \ gone
    BY <1>8
  <2> QED
    BY <1>9, <2>1
<1>17. g = [n \in DOMAIN g |-> heap[n]]
  BY <1>8
<1> QED
  BY <1>14, <1>15, <1>16, <1>17 DEF FewerWait

(* What stands does so without leaves that wait.                           *)
LEMMA RootedFewer ==
  ASSUME NEW t, NEW L, NEW S, NEW par, NEW off, NEW cnt, NEW p, NEW b,
         Rooted(t, L, S, par, off, cnt, p, b),
         NEW u, u.root = t.root, u.insertion_stack = t.insertion_stack, u.num_flushed = t.num_flushed,
         NEW g, u.heap = g, S \subseteq DOMAIN g, DOMAIN g \subseteq DOMAIN t.heap,
         g = [n \in DOMAIN g |-> t.heap[n]],
         \A n \in DOMAIN g : n \notin S => \E hash : t.heap[n] = NewLeaf(hash)
  PROVE  Rooted(u, L, S, par, off, cnt, p, b)
<1>1. PICK heap : heap = t.heap
  OBVIOUS
<1>2. /\ Heap(heap) /\ Closed(heap) /\ S \subseteq DOMAIN heap
      /\ S \subseteq DOMAIN g /\ DOMAIN g \subseteq DOMAIN heap /\ g = [n \in DOMAIN g |-> heap[n]]
      /\ \A n \in DOMAIN g : n \notin S => \E hash : heap[n] = NewLeaf(hash)
  BY <1>1, RootedHeap
<1>3. \A n \in DOMAIN g : g[n] = heap[n]
  BY <1>2
<1>4. Heap(g)
  <2>1. IsFiniteSet(DOMAIN g)
    BY <1>2, FS_Subset DEF Heap
  <2>2. g = [n \in DOMAIN g |-> g[n]]
    BY <1>2
  <2> QED
    BY <1>2, <1>3, <2>1, <2>2 DEF Heap
<1>5. ASSUME NEW n \in DOMAIN g, n \notin S PROVE g[n].left = Nil /\ g[n].right = Nil
  <2>1. PICK hash : heap[n] = NewLeaf(hash)
    BY <1>2, <1>5
  <2> QED
    BY <1>3, <2>1 DEF NewLeaf
<1>6. ASSUME \A n \in S : heap[n].left \in S \cup {Nil} /\ heap[n].right \in S \cup {Nil}
      PROVE  Closed(g)
  BY <1>2, <1>3, <1>5, <1>6 DEF Closed
<1>7. CASE L = <<>> /\ S = {} /\ t.root = Nil /\ t.insertion_stack = <<>>
  BY <1>4, <1>6, <1>7 DEF Rooted
<1>8. CASE L # <<>> /\ Standing(t.heap, t.insertion_stack, t.root, L, t.num_flushed, S, par, off, cnt, p, b)
  <2>1. PICK e, r, nf : e = t.insertion_stack /\ r = t.root /\ nf = t.num_flushed
    OBVIOUS
  <2>2. Standing(heap, e, r, L, nf, S, par, off, cnt, p, b)
    BY <1>1, <1>8, <2>1
  <2>3. Linked(heap, S, par, p[1])
    BY <2>2, StandingParts
  <2>4. Closed(g)
    <3>1. \A n \in S : heap[n].left \in S \cup {Nil} /\ heap[n].right \in S \cup {Nil}
      BY <2>3 DEF Linked
    <3> QED
      BY <1>6, <3>1
  <2>5. \A n \in S : n \in DOMAIN g /\ g[n] = heap[n]
    BY <1>2, <1>3
  <2>6. Standing(g, e, r, L, nf, S, par, off, cnt, p, b)
    BY <1>4, <2>2, <2>4, <2>5, StandingCarries
  <2> QED
    BY <1>8, <2>1, <2>6 DEF Rooted
<1> QED
  BY <1>7, <1>8 DEF Rooted

LEMMA RetractWaitingHolds ==
  ASSUME NEW t, NEW w, NEW leaves, NEW S, NEW par, NEW off, NEW cnt, NEW p, NEW b,
         Holds(t, w, 0, leaves, S, par, off, cnt, p, b),
         NEW index \in Nat, t.num_flushed + Len(t.leaf_nodes) <= index, index < Len(leaves),
         NEW c, c = SubSeq(leaves, 1, index + 1),
         NEW u, u = RetractWaiting(t, index)
  PROVE  Holds(u, u.uninserted_leaf_nodes, 0, c, S, par, off, cnt, p, b)
<1>1. PICK l, m, k, j, q, v, gone, g, z, x, heap :
        /\ l = Len(leaves) /\ m = Len(w) /\ z = 0 /\ j = l - m /\ q = index + 1 /\ k = q - j
        /\ v = SubSeq(w, 1, k) /\ gone = Range(SubSeq(w, k + 1, m)) /\ heap = t.heap
        /\ g = Without(heap, gone) /\ x = t.num_flushed + Len(t.leaf_nodes)
  OBVIOUS
<1>2. /\ IsTree(t) /\ leaves \in Seq(LeafHashes) /\ w \in Seq(Nat)
      /\ m <= l /\ t.uninserted_leaf_nodes = w
      /\ Rooted(t, Hanging(leaves, w, 0), S, par, off, cnt, p, b)
      /\ LeavesHang(t, Hanging(leaves, w, 0), S, off, cnt)
      /\ LeavesWait(heap, S, w, 0, leaves)
  BY <1>1 DEF Holds
<1>3. l \in Nat /\ m \in Nat /\ j \in Nat
  <2>1. l \in Nat /\ m \in Nat
    BY <1>1, <1>2
  <2> QED
    BY <1>1, <1>2, <2>1
<1>4. x = j
  <2>1. 0 \in 0 .. Len(w) /\ Len(w) <= Len(leaves)
    BY <1>1, <1>2, <1>3
  <2>2. Len(Hanging(leaves, w, 0)) = Len(leaves) - Len(w) + 0
    BY <1>2, <2>1, HangingIs
  <2>3. PICK y : y = Len(Hanging(leaves, w, 0))
    OBVIOUS
  <2>4. y = x
    BY <1>1, <1>2, <2>3 DEF LeavesHang
  <2>5. y = l - m + 0
    BY <1>1, <2>2, <2>3
  <2>6. l - m = j
    BY <1>1
  <2> QED
    BY <1>3, <2>4, <2>5, <2>6
<1>5. k \in Nat /\ k <= m /\ q = j + k /\ 1 <= k /\ q \in Nat /\ k = index - x + 1
  <2>1. j <= index /\ index < l /\ q = index + 1 /\ k = q - j /\ j = l - m
    BY <1>1, <1>4
  <2> QED
    BY <1>3, <1>4, <2>1
<1>6. Min({Over(t, index), Len(w)}) = k
  <2>1. Over(t, index) = k
    BY <1>1, <1>5 DEF Over
  <2>2. {k, m} \in SUBSET Nat /\ {k, m} # {}
    BY <1>3, <1>5
  <2>3. Min({k, m}) \in {k, m} /\ Min({k, m}) <= k
    BY <2>2, MinIs
  <2>4. PICK y : y = Min({k, m})
    OBVIOUS
  <2>5. y = k
    BY <1>3, <1>5, <2>3, <2>4
  <2> QED
    BY <1>1, <2>1, <2>4, <2>5
<1>7. u = [t EXCEPT !.heap = g, !.uninserted_leaf_nodes = v]
  BY <1>1, <1>2, <1>6 DEF RetractWaiting
<1>8. v \in Seq(Nat) /\ Len(v) = k
  <2>1. w \in Seq(Nat) /\ m \in Nat /\ Len(w) = m /\ k \in Nat /\ k <= m
        /\ v = SubSeq(w, 1, k)
    BY <1>1, <1>2, <1>3, <1>5
  <2> QED
    BY <2>1, PrefixIs
<1>9. c \in Seq(LeafHashes) /\ Len(c) = q /\ \A i \in 1 .. q : c[i] = leaves[i]
  <2>1. Len(leaves) = l /\ c = SubSeq(leaves, 1, q) /\ q <= l
    BY <1>1, <1>3, <1>5
  <2> QED
    BY <1>2, <1>3, <1>5, <2>1, PrefixIs
<1>10. /\ IsTree(u) /\ u.heap = g /\ u.root = t.root /\ u.leaf_nodes = t.leaf_nodes
       /\ u.num_flushed = t.num_flushed /\ u.insertion_stack = t.insertion_stack
       /\ u.uninserted_leaf_nodes = v
  <2>1. u = [heap |-> g, root |-> t.root, leaf_nodes |-> t.leaf_nodes,
             uninserted_leaf_nodes |-> v, num_flushed |-> t.num_flushed,
             insertion_stack |-> t.insertion_stack]
    BY <1>2, <1>7 DEF IsTree
  <2> QED
    BY <1>2, <1>8, <2>1 DEF IsTree
<1>11. /\ LeavesWait(g, S, v, 0, c) /\ S \subseteq DOMAIN g /\ DOMAIN g \subseteq DOMAIN heap
       /\ g = [n \in DOMAIN g |-> heap[n]]
       /\ \A n \in DOMAIN g : n \notin S => \E hash : heap[n] = NewLeaf(hash)
  <2>1. c = SubSeq(leaves, 1, q)
    BY <1>1
  <2>2. /\ l = Len(leaves) /\ m = Len(w) /\ m <= l /\ k <= m /\ j = l - m /\ q = j + k
        /\ v = SubSeq(w, 1, k) /\ gone = Range(SubSeq(w, k + 1, m)) /\ g = Without(heap, gone)
    BY <1>1, <1>2, <1>5
  <2>3. LeavesWait(heap, S, w, 0, leaves) /\ w \in Seq(Nat) /\ leaves \in Seq(LeafHashes)
    BY <1>2
  <2>4. FewerWait(g, S, v, c, heap)
    BY <1>5, <2>1, <2>2, <2>3, LeavesWaitFewer
  <2> QED
    BY <2>4 DEF FewerWait
<1>12. Hanging(c, v, 0) = Hanging(leaves, w, 0)
  <2>1. 0 \in 0 .. Len(w) /\ Len(w) <= Len(leaves) /\ 0 \in 0 .. Len(v) /\ Len(v) <= Len(c)
    <3>1. k <= q
      BY <1>3, <1>5
    <3> QED
      BY <1>1, <1>2, <1>3, <1>5, <1>8, <1>9, <3>1
  <2>2. Len(leaves) - Len(w) + 0 = j
    <3>1. l - m + 0 = j
      BY <1>1, <1>3
    <3> QED
      BY <1>1, <3>1
  <2>3. Len(c) - Len(v) + 0 = j
    <3>1. PICK y1, y2 : y1 = Len(c) /\ y2 = Len(v)
      OBVIOUS
    <3>2. y1 = q /\ y2 = k
      BY <1>8, <1>9, <3>1
    <3>3. q - k + 0 = j
      BY <1>3, <1>5
    <3> QED
      BY <3>1, <3>2, <3>3
  <2>4. \A i \in 1 .. j : c[i] = leaves[i]
    <3>1. \A i \in 1 .. j : i \in 1 .. q
      BY <1>3, <1>5
    <3> QED
      BY <1>9, <3>1
  <2> QED
    <3>1. PICK y, d : y = 0 /\ d = c
      OBVIOUS
    <3>2. leaves \in Seq(LeafHashes) /\ w \in Seq(Nat) /\ d \in Seq(LeafHashes) /\ v \in Seq(Nat)
      BY <1>2, <1>8, <1>9, <3>1
    <3>3. /\ y \in 0 .. Len(w) /\ Len(w) <= Len(leaves) /\ y \in 0 .. Len(v) /\ Len(v) <= Len(d)
          /\ Len(leaves) - Len(w) + y = j /\ Len(d) - Len(v) + y = j
      BY <2>1, <2>2, <2>3, <3>1
    <3>4. \A i \in 1 .. j : d[i] = leaves[i]
      BY <2>4, <3>1
    <3>5. PICK y2 : y2 = y
      OBVIOUS
    <3>6. Hanging(d, v, y2) = Hanging(leaves, w, y)
      <4>1. leaves \in Seq(LeafHashes) /\ w \in Seq(Nat) /\ y \in 0 .. Len(w) /\ Len(w) <= Len(leaves)
        BY <3>2, <3>3
      <4>2. d \in Seq(LeafHashes) /\ v \in Seq(Nat) /\ y2 \in 0 .. Len(v) /\ Len(v) <= Len(d)
        BY <3>2, <3>3, <3>5
      <4>3. j \in Nat /\ Len(leaves) - Len(w) + y = j /\ Len(d) - Len(v) + y2 = j
        BY <1>3, <3>3, <3>5
      <4>4. PICK A, B : A = Hanging(leaves, w, y) /\ B = Hanging(d, v, y2)
        OBVIOUS
      <4>5. A \in Seq(LeafHashes) /\ Len(A) = j /\ \A i \in 1 .. j : A[i] = leaves[i]
        <5>1. /\ Hanging(leaves, w, y) \in Seq(LeafHashes)
              /\ Len(Hanging(leaves, w, y)) = Len(leaves) - Len(w) + y
              /\ \A i \in 1 .. Len(leaves) - Len(w) + y : Hanging(leaves, w, y)[i] = leaves[i]
          BY <4>1, HangingIs
        <5> QED
          BY <4>3, <4>4, <5>1
      <4>6. B \in Seq(LeafHashes) /\ Len(B) = j /\ \A i \in 1 .. j : B[i] = d[i]
        <5>1. /\ Hanging(d, v, y2) \in Seq(LeafHashes)
              /\ Len(Hanging(d, v, y2)) = Len(d) - Len(v) + y2
              /\ \A i \in 1 .. Len(d) - Len(v) + y2 : Hanging(d, v, y2)[i] = d[i]
          BY <4>2, HangingIs
        <5> QED
          BY <4>3, <4>4, <5>1
      <4>7. \A i \in 1 .. j : A[i] = B[i]
        BY <3>4, <4>5, <4>6
      <4>8. A = B
        BY <4>3, <4>5, <4>6, <4>7, SameSeq
      <4> QED
        BY <4>4, <4>8
    <3> QED
      BY <3>1, <3>5, <3>6
<1>13. PICK L : L = Hanging(leaves, w, 0)
  OBVIOUS
<1>14. Rooted(t, L, S, par, off, cnt, p, b)
  BY <1>2, <1>13
<1>15. Rooted(u, L, S, par, off, cnt, p, b)
  <2>1. /\ S \subseteq DOMAIN g /\ DOMAIN g \subseteq DOMAIN t.heap
        /\ g = [n \in DOMAIN g |-> t.heap[n]]
        /\ \A n \in DOMAIN g : n \notin S => \E hash : t.heap[n] = NewLeaf(hash)
    BY <1>1, <1>11
  <2> QED
    BY <1>10, <1>14, <2>1, RootedFewer
<1>16. LeavesHang(u, L, S, off, cnt)
  BY <1>2, <1>10, <1>13 DEF LeavesHang
<1>17. 0 \in 0 .. Len(v) /\ Len(v) <= Len(c)
  <2>1. k <= q
    BY <1>3, <1>5
  <2> QED
    BY <1>5, <1>8, <1>9, <2>1
<1>18. Holds(u, v, 0, c, S, par, off, cnt, p, b)
  <2>1. Rooted(u, Hanging(c, v, 0), S, par, off, cnt, p, b) /\ LeavesHang(u, Hanging(c, v, 0), S, off, cnt)
    BY <1>12, <1>13, <1>15, <1>16
  <2>2. u.heap = g /\ u.uninserted_leaf_nodes = v
    BY <1>10
  <2>3. LeavesWait(u.heap, S, v, 0, c)
    BY <1>11, <2>2
  <2> QED
    BY <1>8, <1>9, <1>10, <1>17, <2>1, <2>2, <2>3 DEF Holds
<1> QED
  BY <1>10, <1>18

-----------------------------------------------------------------------------
(* retract_to() an index of a leaf in the tree: what a left turn leaves    *)

(* The tree while the walk goes on: p is the walk so far, on the right     *)
(* edge of what is left.  The nodes above the current one, p[b + 1], are   *)
(* dirty, and their sizes wait for the end of the walk.                    *)
Cut(heap, S, par, off, cnt, L, nf, p, b) ==
  /\ Good(heap, S, par, off, cnt, p[1], L, nf, NodesAt(p, b)) /\ DOMAIN heap = S
  /\ b \in Nat /\ Len(L) \in Nat /\ Edge(heap, S, off, cnt, Len(L), p, b)
  /\ \A i \in 1 .. b : heap[p[i]].dirty

LEMMA CutParts ==
  ASSUME NEW heap, NEW S, NEW par, NEW off, NEW cnt, NEW L, NEW nf, NEW p, NEW b,
         Cut(heap, S, par, off, cnt, L, nf, p, b)
  PROVE  /\ Heap(heap) /\ Closed(heap) /\ Linked(heap, S, par, p[1]) /\ Nil \notin S
         /\ Spans(heap, S, off, cnt, Nil, nf) /\ Fits(S, off, cnt, p[1], Len(L))
         /\ Measured(heap, S, cnt, NodesAt(p, b)) /\ HashesRight(heap, S, off, cnt, L)
         /\ \A x \in S : off[x] \in Nat /\ cnt[x] \in Nat \ {0}
         /\ \A x \in S : cnt[x] <= Len(L)
         /\ Good(heap, S, par, off, cnt, p[1], L, nf, NodesAt(p, b)) /\ DOMAIN heap = S
         /\ b \in Nat /\ Len(L) \in Nat /\ Edge(heap, S, off, cnt, Len(L), p, b)
<1>1. /\ Heap(heap) /\ Closed(heap) /\ Linked(heap, S, par, p[1])
      /\ Spans(heap, S, off, cnt, Nil, nf) /\ Fits(S, off, cnt, p[1], Len(L))
      /\ Measured(heap, S, cnt, NodesAt(p, b)) /\ HashesRight(heap, S, off, cnt, L)
  BY DEF Cut, Good
<1>2. Nil \notin S
  BY <1>1 DEF Linked, Heap, Nil
<1>3. \A x \in S : off[x] \in Nat /\ cnt[x] \in Nat \ {0}
  BY <1>1 DEF Spans
<1>4. \A x \in S : cnt[x] <= Len(L)
  <2>1. SUFFICES ASSUME NEW x \in S PROVE cnt[x] <= Len(L)
    OBVIOUS
  <2>2. PICK o, c, m : o = off[x] /\ c = cnt[x] /\ m = Len(L)
    OBVIOUS
  <2>3. o \in Nat /\ c \in Nat /\ m \in Nat /\ o + c <= m
    BY <1>1, <1>3, <2>2 DEF Fits, Cut
  <2>4. c <= m
    BY <2>3
  <2> QED
    BY <2>2, <2>4
<1>5. /\ Good(heap, S, par, off, cnt, p[1], L, nf, NodesAt(p, b)) /\ DOMAIN heap = S
      /\ b \in Nat /\ Len(L) \in Nat /\ Edge(heap, S, off, cnt, Len(L), p, b)
  BY DEF Cut
<1> QED
  BY <1>1, <1>2, <1>3, <1>4, <1>5

(* Down the walk, offsets grow.                                            *)
LEMMA CutOrder ==
  ASSUME NEW heap, NEW S, NEW par, NEW off, NEW cnt, NEW L, NEW nf, NEW p, NEW b,
         Cut(heap, S, par, off, cnt, L, nf, p, b)
  PROVE  \A i \in 1 .. b + 1 : \A j \in 1 .. b + 1 :
           i < j => off[p[i]] < off[p[j]] /\ cnt[p[j]] < cnt[p[i]] /\ p[i] # p[j]
<1>1. SUFFICES ASSUME NEW i \in 1 .. b + 1, NEW j \in 1 .. b + 1, i < j
               PROVE  off[p[i]] < off[p[j]] /\ cnt[p[j]] < cnt[p[i]] /\ p[i] # p[j]
  OBVIOUS
<1>2. PICK x, y, m : x = p[i] /\ y = p[j] /\ m = Len(L)
  OBVIOUS
<1>3. x \in S /\ y \in S /\ off[x] + cnt[x] = m /\ off[y] + cnt[y] = m /\ cnt[y] < cnt[x]
  BY <1>1, <1>2 DEF Cut, Edge
<1>4. off[x] \in Nat /\ cnt[x] \in Nat /\ off[y] \in Nat /\ cnt[y] \in Nat
  BY <1>3, CutParts
<1>5. off[x] < off[y]
  BY <1>3, <1>4
<1>6. x # y
  BY <1>3, <1>4
<1> QED
  BY <1>2, <1>3, <1>5, <1>6

(* The walk goes on at a right child only.                                 *)
LEMMA CutChildren ==
  ASSUME NEW heap, NEW S, NEW par, NEW off, NEW cnt, NEW L, NEW nf, NEW p, NEW b,
         Cut(heap, S, par, off, cnt, L, nf, p, b), NEW y \in S, heap[y].left # Nil
  PROVE  /\ heap[y].left \notin NodesAt(p, b + 1)
         /\ y \notin NodesAt(p, b) => heap[y].right \notin NodesAt(p, b + 1)
<1>1. /\ Linked(heap, S, par, p[1]) /\ Nil \notin S /\ b \in Nat
      /\ \A i \in 1 .. b : p[i] \in S /\ heap[p[i]].left # Nil /\ heap[p[i]].right = p[i + 1]
  <2>1. Linked(heap, S, par, p[1]) /\ Nil \notin S
    BY CutParts
  <2>2. b \in Nat
    BY DEF Cut
  <2>3. \A i \in 1 .. b : i \in 1 .. b + 1
    BY <2>2
  <2>4. \A i \in 1 .. b : p[i] \in S /\ heap[p[i]].left # Nil /\ heap[p[i]].right = p[i + 1]
    BY <2>3 DEF Cut, Edge
  <2> QED
    BY <2>1, <2>2, <2>4
<1>2. ASSUME NEW x \in {heap[y].left, heap[y].right}, x \in NodesAt(p, b + 1)
      PROVE  y \in NodesAt(p, b) /\ x = heap[y].right
  <2>1. PICK j \in 1 .. b + 1 : x = p[j]
    BY <1>2 DEF NodesAt
  <2>2. par[x] = y
    BY <1>1, <1>2 DEF Linked
  <2>3. j # 1
    <3>1. SUFFICES ASSUME j = 1 PROVE FALSE
      OBVIOUS
    <3>2. par[x] = Nil
      BY <1>1, <2>1, <3>1 DEF Linked
    <3> QED
      BY <1>1, <2>2, <3>2
  <2>4. PICK i : i = j - 1
    OBVIOUS
  <2>5. i \in 1 .. b /\ i + 1 = j
    BY <1>1, <2>1, <2>3, <2>4
  <2>6. p[i] \in S /\ heap[p[i]].left # Nil /\ heap[p[i]].right = x
    BY <1>1, <2>1, <2>5
  <2>7. par[x] = p[i]
    BY <1>1, <2>6 DEF Linked
  <2> QED
    BY <2>2, <2>5, <2>6, <2>7 DEF NodesAt
<1>3. heap[y].left # heap[y].right
  BY <1>1 DEF Linked
<1> QED
  BY <1>2, <1>3

(* A left turn at the current node, n: l stays, all of R goes.             *)
TurnsLeft(heap, S, par, off, cnt, L, p, b, n, l, r, R, m) ==
  /\ n = p[b + 1] /\ l = heap[n].left /\ r = heap[n].right /\ l # Nil
  /\ R = Subtree(heap, r) /\ m = off[n] + cnt[l]

LEMMA TurnsLeftIs ==
  ASSUME NEW heap, NEW S, NEW par, NEW off, NEW cnt, NEW L, NEW nf, NEW p, NEW b,
         Cut(heap, S, par, off, cnt, L, nf, p, b), NEW n, NEW l, NEW r, NEW R, NEW m,
         TurnsLeft(heap, S, par, off, cnt, L, p, b, n, l, r, R, m)
  PROVE  /\ n \in S /\ l \in S /\ r \in S /\ l # r /\ par[l] = n /\ par[r] = n /\ n # l /\ n # r
         /\ cnt[n] = cnt[l] + cnt[r] /\ off[l] = off[n] /\ off[r] = m /\ m + cnt[r] = Len(L)
         /\ m \in Nat \ {0} /\ m < Len(L) /\ cnt[l] < cnt[n] /\ off[n] < m
         /\ n = p[b + 1] /\ l = heap[n].left /\ r = heap[n].right /\ l # Nil
         /\ R = Subtree(heap, r) /\ m = off[n] + cnt[l]
<1>1. /\ Linked(heap, S, par, p[1]) /\ Nil \notin S /\ Spans(heap, S, off, cnt, Nil, nf)
      /\ \A x \in S : off[x] \in Nat /\ cnt[x] \in Nat \ {0}
  BY CutParts
<1>2. n \in S /\ off[n] + cnt[n] = Len(L) /\ Len(L) \in Nat
  <2>1. b + 1 \in 1 .. b + 1
    BY DEF Cut
  <2> QED
    BY <2>1 DEF Cut, Edge, TurnsLeft
<1>3. /\ heap[n].left = l /\ heap[n].right = r /\ l # Nil /\ m = off[n] + cnt[l]
  BY DEF TurnsLeft
<1>4. l \in S /\ r \in S /\ l # r /\ par[l] = n /\ par[r] = n
  BY <1>1, <1>2, <1>3 DEF Linked
<1>5. off[l] = off[n] /\ off[r] = off[n] + cnt[l] /\ cnt[n] = cnt[l] + cnt[r]
  <2>1. n # Nil
    BY <1>1, <1>2
  <2> QED
    BY <1>1, <1>2, <1>3, <2>1 DEF Spans
<1>6. PICK o, c, a, d, len : o = off[n] /\ c = cnt[n] /\ a = cnt[l] /\ d = cnt[r] /\ len = Len(L)
  OBVIOUS
<1>7. o \in Nat /\ c \in Nat /\ a \in Nat \ {0} /\ d \in Nat \ {0} /\ len \in Nat
      /\ o + c = len /\ c = a + d /\ m = o + a
  BY <1>1, <1>2, <1>3, <1>4, <1>5, <1>6
<1>8. m + d = len /\ m \in Nat \ {0} /\ m < len /\ a < c /\ o < m /\ d < c
  BY <1>7
<1>9. n # l /\ n # r
  <2>1. cnt[l] < cnt[n] /\ cnt[r] < cnt[n] /\ cnt[n] \in Nat
    BY <1>6, <1>7, <1>8
  <2> QED
    BY <2>1
<1>10. /\ n = p[b + 1] /\ l = heap[n].left /\ r = heap[n].right /\ l # Nil
       /\ R = Subtree(heap, r) /\ m = off[n] + cnt[l]
  BY DEF TurnsLeft
<1> QED
  BY <1>2, <1>3, <1>4, <1>5, <1>6, <1>8, <1>9, <1>10

LEMMA GoneIs ==
  ASSUME NEW heap, NEW S, NEW par, NEW off, NEW cnt, NEW L, NEW nf, NEW p, NEW b,
         Cut(heap, S, par, off, cnt, L, nf, p, b), NEW n, NEW l, NEW r, NEW R, NEW m,
         TurnsLeft(heap, S, par, off, cnt, L, p, b, n, l, r, R, m)
  PROVE  /\ r \in R /\ R \subseteq S /\ l \notin R
         /\ \A x \in R : off[x] >= m /\ (x # r => par[x] \in R)
         /\ \A x \in R : heap[x].left # Nil => heap[x].left \in R /\ heap[x].right \in R
         /\ \A i \in 1 .. b + 1 : p[i] \notin R /\ p[i] # l
<1>1. /\ n \in S /\ l \in S /\ r \in S /\ l # r /\ par[l] = n /\ par[r] = n /\ n # l /\ n # r
      /\ off[l] = off[n] /\ off[r] = m /\ off[n] < m /\ cnt[l] < cnt[n] /\ m \in Nat
  BY TurnsLeftIs
<1>2. /\ Linked(heap, S, par, p[1]) /\ Nil \notin S /\ DOMAIN heap = S
      /\ \A x \in S : off[x] \in Nat /\ cnt[x] \in Nat \ {0}
      /\ Good(heap, S, par, off, cnt, p[1], L, nf, NodesAt(p, b)) /\ Len(L) \in Nat /\ b \in Nat
  BY CutParts
<1>3. R = Subtree(heap, r) /\ n = p[b + 1]
  BY DEF TurnsLeft
<1>4. IsReached(heap, S, par, DOMAIN heap, r, R)
  BY <1>1, <1>2, <1>3, SubtreeIs
<1>5. r \in R /\ R \subseteq S /\ \A x \in R : x # r => par[x] \in R
  BY <1>4 DEF IsReached
<1>6. \A x \in R : off[x] >= m
  <2>1. \A x \in R : Within(off, cnt, x, r)
    BY <1>1, <1>2, <1>3, SubtreeWithin
  <2>2. SUFFICES ASSUME NEW x \in R PROVE off[x] >= m
    OBVIOUS
  <2>3. off[r] <= off[x] /\ off[x] \in Nat
    BY <1>2, <1>5, <2>1 DEF Within
  <2> QED
    BY <1>1, <2>3
<1>7. \A x \in R : heap[x].left # Nil => heap[x].left \in R /\ heap[x].right \in R
  BY <1>2, <1>4, <1>5 DEF IsReached, Linked
<1>8. \A x \in S : off[x] < m => x \notin R
  <2>1. SUFFICES ASSUME NEW x \in S, off[x] < m, x \in R PROVE FALSE
    OBVIOUS
  <2>2. off[x] >= m /\ off[x] \in Nat
    BY <1>2, <1>6, <2>1
  <2> QED
    BY <1>1, <2>1, <2>2
<1>9. l \notin R
  BY <1>1, <1>8
<1>10. ASSUME NEW i \in 1 .. b + 1 PROVE p[i] \notin R /\ p[i] # l
  <2>1. PICK x : x = p[i]
    OBVIOUS
  <2>2. x \in S
    BY <2>1 DEF Cut, Edge
  <2>3. x = n \/ (off[x] < off[n] /\ cnt[n] < cnt[x])
    <3>1. i = b + 1 \/ i < b + 1
      BY <1>2
    <3>2. CASE i = b + 1
      BY <1>3, <2>1, <3>2
    <3>3. CASE i < b + 1
      <4>1. b + 1 \in 1 .. b + 1
        BY <1>2
      <4> QED
        BY <1>3, <2>1, <3>3, <4>1, CutOrder
    <3> QED
      BY <3>1, <3>2, <3>3
  <2>4. CASE x = n
    BY <1>1, <1>8, <2>1, <2>4
  <2>5. CASE off[x] < off[n] /\ cnt[n] < cnt[x]
    <3>1. off[x] \in Nat /\ off[n] \in Nat /\ cnt[x] \in Nat /\ cnt[n] \in Nat /\ cnt[l] \in Nat
      BY <1>1, <1>2, <2>2
    <3>2. off[x] < m
      BY <1>1, <2>5, <3>1
    <3>3. x # l
      BY <1>1, <2>5, <3>1
    <3> QED
      BY <1>8, <2>1, <2>2, <3>2, <3>3
  <2> QED
    BY <2>3, <2>4, <2>5
<1> QED
  BY <1>5, <1>6, <1>7, <1>9, <1>10

(* What does not go lies before m, or on the walk.                         *)
LEMMA StaysBefore ==
  ASSUME NEW heap, NEW S, NEW par, NEW off, NEW cnt, NEW L, NEW nf, NEW p, NEW b,
         Cut(heap, S, par, off, cnt, L, nf, p, b), NEW n, NEW l, NEW r, NEW R, NEW m,
         TurnsLeft(heap, S, par, off, cnt, L, p, b, n, l, r, R, m)
  PROVE  \A x \in S : x \in R \/ x \in NodesAt(p, b + 1) \/ off[x] + cnt[x] <= m
<1>1. /\ n \in S /\ l \in S /\ r \in S /\ off[l] = off[n] /\ off[n] < m /\ m \in Nat
      /\ m = off[n] + cnt[l]
  BY TurnsLeftIs
<1>2. /\ r \in R /\ R \subseteq S
      /\ \A x \in R : heap[x].left # Nil => heap[x].left \in R /\ heap[x].right \in R
  BY GoneIs
<1>3. /\ Linked(heap, S, par, p[1]) /\ Nil \notin S /\ b \in Nat /\ Len(L) \in Nat
      /\ Spans(heap, S, off, cnt, Nil, nf)
      /\ \A x \in S : off[x] \in Nat /\ cnt[x] \in Nat \ {0}
      /\ \A x \in S : cnt[x] <= Len(L)
  BY CutParts
<1>4. n = p[b + 1] /\ l = heap[n].left /\ r = heap[n].right
  BY DEF TurnsLeft
<1> DEFINE Before(x) == x \in R \/ x \in NodesAt(p, b + 1) \/ off[x] + cnt[x] <= m
           T == {j \in Nat : \A x \in S : cnt[x] + j >= Len(L) => Before(x)}
<1>5. Before(p[1])
  BY <1>3 DEF NodesAt
<1>6. ASSUME NEW x \in S, x # p[1], Before(par[x])
      PROVE  Before(x)
  <2>1. PICK y : y = par[x]
    OBVIOUS
  <2>2. y \in S /\ heap[y].left # Nil /\ x \in {heap[y].left, heap[y].right}
    BY <1>3, <1>6, <2>1 DEF Linked
  <2>3. CASE y \in R
    BY <1>2, <2>2, <2>3
  <2>4. CASE off[y] + cnt[y] <= m
    <3>1. Within(off, cnt, x, y)
      BY <1>3, <2>2, ChildWithin
    <3>2. off[x] + cnt[x] <= off[y] + cnt[y]
      BY <3>1 DEF Within
    <3>3. off[x] \in Nat /\ cnt[x] \in Nat /\ off[y] \in Nat /\ cnt[y] \in Nat
      BY <1>3, <2>2
    <3>4. off[x] + cnt[x] <= m
      BY <1>1, <2>4, <3>2, <3>3
    <3> QED
      BY <3>4
  <2>5. CASE y \in NodesAt(p, b + 1)
    <3>1. PICK i \in 1 .. b + 1 : y = p[i]
      BY <2>5 DEF NodesAt
    <3>2. CASE i = b + 1
      <4>1. x = l \/ x = r
        BY <1>4, <2>2, <3>1, <3>2
      <4>2. CASE x = l
        <5>1. off[l] + cnt[l] <= m
          <6>1. off[l] + cnt[l] = m
            BY <1>1
          <6> QED
            BY <1>1, <6>1
        <5> QED
          BY <4>2, <5>1
      <4> QED
        BY <1>2, <4>1, <4>2
    <3>3. CASE i < b + 1
      <4>1. i \in 1 .. b /\ i + 1 \in 1 .. b + 1 /\ b + 1 \in 1 .. b + 1 /\ (i + 1 = b + 1 \/ i + 1 < b + 1)
        BY <1>3, <3>3
      <4>2. heap[y].right = p[i + 1]
        BY <3>1, <4>1 DEF Cut, Edge
      <4>3. CASE x = heap[y].right
        BY <4>1, <4>2, <4>3 DEF NodesAt
      <4>4. CASE x = heap[y].left
        <5>1. PICK z : z = heap[y].right
          OBVIOUS
        <5>2. off[x] = off[y] /\ off[z] = off[y] + cnt[x] /\ z \in S
          BY <1>3, <2>2, <4>4, <5>1 DEF Spans, Linked
        <5>3. z = n \/ off[z] < off[n]
          <6>1. CASE i + 1 = b + 1
            BY <1>4, <4>2, <5>1, <6>1
          <6>2. CASE i + 1 < b + 1
            BY <1>4, <4>1, <4>2, <5>1, <6>2, CutOrder
          <6> QED
            BY <4>1, <6>1, <6>2
        <5>4. off[x] \in Nat /\ cnt[x] \in Nat /\ off[z] \in Nat /\ off[n] \in Nat
          BY <1>1, <1>3, <5>2
        <5>5. off[z] <= off[n]
          BY <5>3, <5>4
        <5>6. off[x] + cnt[x] <= m
          BY <1>1, <5>2, <5>4, <5>5
        <5> QED
          BY <5>6
      <4> QED
        BY <2>2, <4>3, <4>4
    <3>4. i = b + 1 \/ i < b + 1
      BY <1>3
    <3> QED
      BY <3>2, <3>3, <3>4
  <2> QED
    BY <1>6, <2>1, <2>3, <2>4, <2>5
<1>7. ASSUME NEW x \in S, x # p[1] PROVE par[x] \in S /\ cnt[x] < cnt[par[x]]
  <2>1. PICK y : y = par[x]
    OBVIOUS
  <2>2. y \in S /\ heap[y].left # Nil /\ x \in {heap[y].left, heap[y].right}
    BY <1>3, <1>7, <2>1 DEF Linked
  <2>3. cnt[x] < cnt[y]
    BY <1>3, <2>2, ChildWithin
  <2> QED
    BY <2>1, <2>2, <2>3
<1> HIDE DEF Before
<1>8. 0 \in T
  <2>1. SUFFICES ASSUME NEW x \in S, cnt[x] + 0 >= Len(L) PROVE Before(x)
    OBVIOUS
  <2>2. x = p[1]
    <3>1. SUFFICES ASSUME x # p[1] PROVE FALSE
      OBVIOUS
    <3>2. PICK c, d, len : c = cnt[x] /\ d = cnt[par[x]] /\ len = Len(L)
      OBVIOUS
    <3>3. c \in Nat /\ d \in Nat /\ len \in Nat /\ d <= len /\ c < d /\ c + 0 >= len
      BY <1>3, <1>7, <2>1, <3>1, <3>2
    <3> QED
      BY <3>3
  <2> QED
    BY <1>5, <2>2
<1>9. ASSUME NEW j \in Nat, j \in T PROVE j + 1 \in T
  <2>1. SUFFICES ASSUME NEW x \in S, cnt[x] + (j + 1) >= Len(L), x # p[1] PROVE Before(x)
    BY <1>5
  <2>2. PICK c, d, len : c = cnt[x] /\ d = cnt[par[x]] /\ len = Len(L)
    OBVIOUS
  <2>3. c \in Nat /\ d \in Nat /\ len \in Nat /\ c < d /\ c + (j + 1) >= len
    BY <1>3, <1>7, <2>1, <2>2
  <2>4. d + j >= len
    BY <2>3
  <2>5. Before(par[x])
    BY <1>7, <1>9, <2>1, <2>2, <2>4
  <2> QED
    BY <1>6, <2>1, <2>5
<1>10. Nat \subseteq T
  <2> HIDE DEF T
  <2> QED
    BY <1>8, <1>9, SetInduction
<1>11. ASSUME NEW x \in S PROVE Before(x)
  <2>1. PICK c, len : c = cnt[x] /\ len = Len(L)
    OBVIOUS
  <2>2. c \in Nat /\ len \in Nat
    BY <1>3, <2>1
  <2>3. c + len >= len
    BY <2>2
  <2>4. len \in T
    BY <1>10, <2>2
  <2> QED
    BY <2>1, <2>3, <2>4
<1> QED
  BY <1>11 DEF Before

(* What the tree is after the turn: l's content is at n, with its children.*)
CutSet(S, l, R) == S \ ({l} \cup R)
CutPar(heap, S, par, n, l) ==
  [x \in S |-> IF heap[l].left # Nil /\ x \in {heap[l].left, heap[l].right} THEN n ELSE par[x]]
CutCnt(S, off, cnt, E, m) == [x \in S |-> IF x \in E THEN m - off[x] ELSE cnt[x]]

(* The heap after the turn, y being the node at n.                         *)
IsEliminated(g, heap, S2, n, l, y) ==
  /\ DOMAIN g = S2 /\ g = [x \in S2 |-> IF x = n THEN y ELSE heap[x]]
  /\ IsNode(y) /\ y.left = heap[l].left /\ y.right = heap[l].right /\ y.hash = heap[l].hash
  /\ y.size = heap[l].size /\ y.height = heap[l].height
  /\ IF heap[l].left # Nil THEN y.dirty ELSE y.dirty = heap[l].dirty

LEMMA RaisedNode ==
  ASSUME NEW x, IsNode(x), NEW e \in BOOLEAN, NEW y, y = [x EXCEPT !.dirty = e]
  PROVE  IsNode(y) /\ y.left = x.left /\ y.right = x.right /\ y.size = x.size
         /\ y.height = x.height /\ y.hash = x.hash /\ y.dirty = e
<1>1. y = [hash |-> x.hash, left |-> x.left, right |-> x.right,
           size |-> x.size, height |-> x.height, dirty |-> e]
  BY DEF IsNode
<1> QED
  BY <1>1 DEF IsNode

LEMMA EliminateIs ==
  ASSUME NEW heap, NEW S, NEW par, NEW off, NEW cnt, NEW L, NEW nf, NEW p, NEW b,
         Cut(heap, S, par, off, cnt, L, nf, p, b), NEW n, NEW l, NEW r, NEW R, NEW m,
         TurnsLeft(heap, S, par, off, cnt, L, p, b, n, l, r, R, m),
         NEW g, g = Eliminate(heap, n)
  PROVE  \E y : IsEliminated(g, heap, CutSet(S, l, R), n, l, y)
<1>1. /\ n \in S /\ l \in S /\ n # l
  BY TurnsLeftIs
<1>2. /\ R = Subtree(heap, r) /\ n = p[b + 1] /\ l = heap[n].left /\ r = heap[n].right
  BY DEF TurnsLeft
<1>3. n \notin R /\ l \notin R
  <2>1. b + 1 \in 1 .. b + 1
    BY DEF Cut
  <2> QED
    BY <1>2, <2>1, GoneIs
<1>4. Heap(heap) /\ Linked(heap, S, par, p[1]) /\ Nil \notin S /\ DOMAIN heap = S
  BY CutParts
<1>5. IsNode(heap[l])
  BY <1>1, <1>4 DEF Heap
<1>6. PICK x, d : x = heap[l] /\ d = (heap[l].left # Nil /\ heap[l].right # Nil)
  OBVIOUS
<1>7. d \in BOOLEAN
  BY <1>6
<1>8. d = (x.left # Nil)
  <2>1. x.left # Nil => x.right # Nil
    BY <1>1, <1>4, <1>6 DEF Linked
  <2> QED
    BY <1>6, <2>1
<1>9. PICK e, y : e = (x.dirty \/ d) /\ y = [x EXCEPT !.dirty = e]
  OBVIOUS
<1>10. IsNode(y) /\ y.left = x.left /\ y.right = x.right /\ y.size = x.size
         /\ y.height = x.height /\ y.hash = x.hash /\ y.dirty = e
  <2>1. IsNode(x) /\ e \in BOOLEAN
    BY <1>5, <1>6, <1>9
  <2>2. y = [x EXCEPT !.dirty = e]
    BY <1>9
  <2> QED
    BY <2>1, <2>2, RaisedNode
<1>11. x.dirty \in BOOLEAN
  BY <1>5, <1>6 DEF IsNode
<1>12. PICK S2, kept, rest : S2 = CutSet(S, l, R) /\ kept = Delete(heap, r) /\ rest = Without(kept, {l})
  OBVIOUS
<1>13. kept = [z \in S \ R |-> heap[z]]
  BY <1>2, <1>4, <1>12 DEF Delete, Without
<1>14. rest = [z \in S2 |-> heap[z]]
  <2>1. S2 = (S \ R) \ {l}
    BY <1>12 DEF CutSet
  <2>2. rest = [z \in (DOMAIN kept) \ {l} |-> kept[z]]
    BY <1>12 DEF Without
  <2>3. DOMAIN kept = S \ R /\ \A z \in S \ R : kept[z] = heap[z]
    BY <1>13
  <2> QED
    BY <2>1, <2>2, <2>3
<1>15. g = [rest EXCEPT ![n] = y]
  BY <1>2, <1>6, <1>9, <1>12 DEF Eliminate
<1>16. n \in S2
  BY <1>1, <1>3, <1>12 DEF CutSet
<1>17. g = [z \in S2 |-> IF z = n THEN y ELSE heap[z]]
  BY <1>14, <1>15, <1>16
<1>18. IF x.left # Nil THEN y.dirty ELSE y.dirty = x.dirty
  BY <1>8, <1>9, <1>10, <1>11
<1>19. IsEliminated(g, heap, S2, n, l, y)
  BY <1>6, <1>10, <1>17, <1>18 DEF IsEliminated
<1> QED
  BY <1>12, <1>19

(* The children of what stays stay.                                        *)
LEMMA ChildStays ==
  ASSUME NEW heap, NEW S, NEW par, NEW off, NEW cnt, NEW L, NEW nf, NEW p, NEW b,
         Cut(heap, S, par, off, cnt, L, nf, p, b), NEW n, NEW l, NEW r, NEW R, NEW m,
         TurnsLeft(heap, S, par, off, cnt, L, p, b, n, l, r, R, m),
         NEW x \in S, x \notin R, x # n, heap[x].left # Nil, NEW c \in {heap[x].left, heap[x].right}
  PROVE  c \in CutSet(S, l, R) /\ par[c] = x
<1>1. Linked(heap, S, par, p[1]) /\ Nil \notin S
  BY CutParts
<1>2. c \in S /\ par[c] = x
  BY <1>1 DEF Linked
<1>3. par[l] = n /\ par[r] = n /\ \A z \in R : z # r => par[z] \in R
  BY TurnsLeftIs, GoneIs
<1> QED
  BY <1>2, <1>3 DEF CutSet

LEMMA CutLinked ==
  ASSUME NEW heap, NEW S, NEW par, NEW off, NEW cnt, NEW L, NEW nf, NEW p, NEW b,
         Cut(heap, S, par, off, cnt, L, nf, p, b), NEW n, NEW l, NEW r, NEW R, NEW m,
         TurnsLeft(heap, S, par, off, cnt, L, p, b, n, l, r, R, m),
         NEW S2, S2 = CutSet(S, l, R), NEW par2, par2 = CutPar(heap, S, par, n, l),
         NEW g, NEW y, IsEliminated(g, heap, S2, n, l, y)
  PROVE  Linked(g, S2, par2, p[1]) /\ Heap(g) /\ Closed(g)
<1>1. /\ n \in S /\ l \in S /\ r \in S /\ l # r /\ par[l] = n /\ par[r] = n /\ n # l /\ n # r
  BY TurnsLeftIs
<1>2. /\ r \in R /\ R \subseteq S /\ l \notin R
      /\ \A x \in R : (x # r => par[x] \in R)
      /\ \A x \in R : heap[x].left # Nil => heap[x].left \in R /\ heap[x].right \in R
      /\ \A i \in 1 .. b + 1 : p[i] \notin R /\ p[i] # l
  BY GoneIs
<1>3. Heap(heap) /\ Linked(heap, S, par, p[1]) /\ Nil \notin S /\ DOMAIN heap = S /\ b \in Nat
  BY CutParts
<1>4. n = p[b + 1] /\ l = heap[n].left /\ r = heap[n].right /\ l # Nil
  BY DEF TurnsLeft
<1>5. 1 \in 1 .. b + 1 /\ b + 1 \in 1 .. b + 1
  BY <1>3
<1>6. S2 \subseteq S /\ n \in S2 /\ p[1] \in S2 /\ l \notin S2 /\ r \notin S2
  BY <1>1, <1>2, <1>3, <1>4, <1>5 DEF CutSet, Linked
<1>7. /\ DOMAIN g = S2 /\ g[n] = y /\ \A x \in S2 : x # n => g[x] = heap[x]
      /\ IsNode(y) /\ y.left = heap[l].left /\ y.right = heap[l].right
  BY <1>6 DEF IsEliminated
<1>8. \A x \in S : par2[x] = IF heap[l].left # Nil /\ x \in {heap[l].left, heap[l].right}
                              THEN n ELSE par[x]
  BY DEF CutPar
<1>9. ASSUME heap[l].left # Nil
      PROVE  /\ heap[l].left \in S2 /\ heap[l].right \in S2 /\ heap[l].left # heap[l].right
             /\ par2[heap[l].left] = n /\ par2[heap[l].right] = n
  <2>1. \A c \in {heap[l].left, heap[l].right} : c \in CutSet(S, l, R)
    BY <1>1, <1>2, <1>9, ChildStays
  <2>2. heap[l].left # heap[l].right
    BY <1>1, <1>3, <1>9 DEF Linked
  <2> QED
    BY <1>6, <1>8, <1>9, <2>1, <2>2
<1>10. ASSUME NEW x \in S2, x # n, heap[x].left # Nil
       PROVE  /\ heap[x].left \in S2 /\ heap[x].right \in S2 /\ heap[x].left # heap[x].right
              /\ par2[heap[x].left] = x /\ par2[heap[x].right] = x
  <2>1. x \in S /\ x \notin R /\ x # l
    BY <1>10 DEF CutSet
  <2>2. \A c \in {heap[x].left, heap[x].right} : c \in S2 /\ par[c] = x
    BY <1>10, <2>1, ChildStays
  <2>3. \A c \in {heap[x].left, heap[x].right} : par2[c] = x
    <3>1. heap[l].left # Nil => par[heap[l].left] = l /\ par[heap[l].right] = l
      BY <1>1, <1>3 DEF Linked
    <3> QED
      BY <1>6, <1>8, <2>1, <2>2, <3>1
  <2>4. heap[x].left # heap[x].right
    BY <1>3, <1>10, <2>1 DEF Linked
  <2> QED
    BY <2>2, <2>3, <2>4
<1>11. \A x \in S2 : g[x].left # Nil =>
         /\ g[x].left \in S2 /\ g[x].right \in S2 /\ g[x].left # g[x].right
         /\ par2[g[x].left] = x /\ par2[g[x].right] = x
  BY <1>7, <1>9, <1>10
<1>12. \A x \in S2 : g[x].left = Nil => g[x].right = Nil
  BY <1>1, <1>3, <1>6, <1>7 DEF Linked
<1>13. ASSUME NEW x \in S2, x # p[1]
       PROVE  par2[x] \in S2 /\ g[par2[x]].left # Nil /\ x \in {g[par2[x]].left, g[par2[x]].right}
  <2>1. x \in S /\ x \notin R /\ x # l /\ x # r
    BY <1>2, <1>13 DEF CutSet
  <2>2. PICK z : z = par[x]
    OBVIOUS
  <2>3. z \in S /\ heap[z].left # Nil /\ x \in {heap[z].left, heap[z].right}
    BY <1>3, <1>13, <2>1, <2>2 DEF Linked
  <2>4. z # n
    BY <1>4, <2>1, <2>3
  <2>5. z \notin R
    BY <1>2, <2>1, <2>3
  <2>6. CASE z = l
    <3>1. par2[x] = n
      BY <1>8, <2>1, <2>3, <2>6
    <3> QED
      BY <1>6, <1>7, <2>3, <2>6, <3>1
  <2>7. CASE z # l
    <3>1. par2[x] = z
      <4>1. heap[l].left # Nil => par[heap[l].left] = l /\ par[heap[l].right] = l
        BY <1>1, <1>3 DEF Linked
      <4> QED
        BY <1>8, <2>1, <2>2, <2>7, <4>1
    <3>2. z \in S2
      BY <2>3, <2>5, <2>7 DEF CutSet
    <3> QED
      BY <1>7, <2>3, <2>4, <3>1, <3>2
  <2> QED
    BY <2>6, <2>7
<1>14. par2[p[1]] = Nil
  <2>1. par[p[1]] = Nil /\ p[1] \in S
    BY <1>3 DEF Linked
  <2>2. heap[l].left # Nil => par[heap[l].left] = l /\ par[heap[l].right] = l
    BY <1>1, <1>3 DEF Linked
  <2>3. l # Nil
    BY <1>4
  <2> QED
    BY <1>8, <2>1, <2>2, <2>3
<1>15. Linked(g, S2, par2, p[1])
  BY <1>6, <1>7, <1>11, <1>12, <1>13, <1>14 DEF Linked
<1>16. Heap(g)
  <2>1. IsFiniteSet(S2) /\ S2 \subseteq Nat \ {0}
    BY <1>3, <1>6, FS_Subset DEF Heap
  <2>2. g = [x \in DOMAIN g |-> g[x]]
    BY DEF IsEliminated
  <2>3. \A x \in S2 : IsNode(g[x])
    BY <1>3, <1>6, <1>7 DEF Heap
  <2> QED
    BY <1>7, <2>1, <2>2, <2>3 DEF Heap
<1>17. Closed(g)
  BY <1>7, <1>11, <1>12 DEF Closed
<1> QED
  BY <1>15, <1>16, <1>17

(* The counts after the turn.                                              *)
Recounted(S, S2, off, cnt, p, b, n, l, m, cnt2) ==
  /\ S2 \subseteq S /\ n \in S2 /\ n \in NodesAt(p, b + 1)
  /\ \A x \in S2 : x \in NodesAt(p, b + 1) => cnt2[x] = m - off[x]
  /\ \A x \in S : x \notin NodesAt(p, b + 1) => cnt2[x] = cnt[x]
  /\ cnt2[n] = cnt[l]
  /\ \A x \in S2 : cnt2[x] \in Nat \ {0} /\ off[x] + cnt2[x] <= m /\ cnt2[x] <= cnt[x]

LEMMA RecountedIs ==
  ASSUME NEW heap, NEW S, NEW par, NEW off, NEW cnt, NEW L, NEW nf, NEW p, NEW b,
         Cut(heap, S, par, off, cnt, L, nf, p, b), NEW n, NEW l, NEW r, NEW R, NEW m,
         TurnsLeft(heap, S, par, off, cnt, L, p, b, n, l, r, R, m),
         NEW S2, S2 = CutSet(S, l, R), NEW cnt2, cnt2 = CutCnt(S, off, cnt, NodesAt(p, b + 1), m)
  PROVE  Recounted(S, S2, off, cnt, p, b, n, l, m, cnt2)
<1>1. /\ n \in S /\ l \in S /\ n # l /\ off[n] < m /\ m \in Nat /\ m < Len(L) /\ cnt[l] < cnt[n]
      /\ m = off[n] + cnt[l] /\ n = p[b + 1]
  BY TurnsLeftIs
<1>2. /\ \A x \in S : off[x] \in Nat /\ cnt[x] \in Nat \ {0}
      /\ b \in Nat /\ Len(L) \in Nat
  BY CutParts
<1>3. S2 \subseteq S
  BY DEF CutSet
<1>4. \A x \in S : cnt2[x] = IF x \in NodesAt(p, b + 1) THEN m - off[x] ELSE cnt[x]
  BY DEF CutCnt
<1>5. b + 1 \in 1 .. b + 1
  BY <1>2
<1>6. n \in NodesAt(p, b + 1)
  BY <1>1, <1>5 DEF NodesAt
<1>7. n \in S2
  BY <1>1, <1>5, GoneIs DEF CutSet
<1>8. cnt2[n] = cnt[l]
  <2>1. off[n] \in Nat /\ cnt[l] \in Nat /\ cnt2[n] = m - off[n]
    BY <1>1, <1>2, <1>4, <1>6
  <2> QED
    BY <1>1, <2>1
<1>9. ASSUME NEW x \in S2 PROVE cnt2[x] \in Nat \ {0} /\ off[x] + cnt2[x] <= m /\ cnt2[x] <= cnt[x]
  <2>1. x \in S /\ off[x] \in Nat /\ cnt[x] \in Nat \ {0}
    BY <1>2, <1>3
  <2>2. CASE x \in NodesAt(p, b + 1)
    <3>1. PICK i \in 1 .. b + 1 : x = p[i]
      BY <2>2 DEF NodesAt
    <3>2. x = n \/ off[x] < off[n]
      <4>1. i = b + 1 \/ i < b + 1
        BY <1>2
      <4>2. CASE i = b + 1
        BY <1>1, <3>1, <4>2
      <4>3. CASE i < b + 1
        BY <1>1, <1>5, <3>1, <4>3, CutOrder
      <4> QED
        BY <4>1, <4>2, <4>3
    <3>3. off[n] \in Nat
      BY <1>1, <1>2
    <3>4. off[x] < m
      BY <1>1, <2>1, <3>2, <3>3
    <3>5. off[x] + cnt[x] = Len(L)
      BY <3>1 DEF Cut, Edge
    <3>6. cnt2[x] = m - off[x]
      BY <1>4, <2>1, <2>2
    <3>7. PICK o, c, d, len : o = off[x] /\ c = cnt[x] /\ d = cnt2[x] /\ len = Len(L)
      OBVIOUS
    <3>8. o \in Nat /\ c \in Nat /\ len \in Nat /\ o < m /\ m < len /\ o + c = len /\ d = m - o
      BY <1>1, <1>2, <2>1, <3>4, <3>5, <3>6, <3>7
    <3>9. d \in Nat \ {0} /\ o + d <= m /\ d <= c
      BY <1>1, <3>8
    <3> QED
      BY <3>7, <3>9
  <2>3. CASE x \notin NodesAt(p, b + 1)
    <3>1. cnt2[x] = cnt[x]
      BY <1>4, <2>1, <2>3
    <3>2. x \notin R
      BY DEF CutSet
    <3>3. off[x] + cnt[x] <= m
      BY <2>1, <2>3, <3>2, StaysBefore
    <3> QED
      BY <2>1, <3>1, <3>3
  <2> QED
    BY <2>2, <2>3
<1> QED
  BY <1>3, <1>4, <1>6, <1>7, <1>8, <1>9 DEF Recounted

(* The children of the nodes above the current one.                        *)
LEMMA CutAbove ==
  ASSUME NEW heap, NEW S, NEW par, NEW off, NEW cnt, NEW L, NEW nf, NEW p, NEW b,
         Cut(heap, S, par, off, cnt, L, nf, p, b), NEW i \in 1 .. b
  PROVE  /\ p[i] \in S /\ heap[p[i]].left # Nil /\ heap[p[i]].right = p[i + 1] /\ p[i] # p[b + 1]
         /\ heap[p[i]].dirty /\ p[i + 1] \in NodesAt(p, b + 1) /\ p[i] \in NodesAt(p, b + 1)
<1>1. b \in Nat
  BY DEF Cut
<1>2. i \in 1 .. b + 1 /\ i + 1 \in 1 .. b + 1 /\ b + 1 \in 1 .. b + 1 /\ i < b + 1
  BY <1>1
<1>3. p[i] # p[b + 1]
  BY <1>2, CutOrder
<1>4. p[i] \in S /\ heap[p[i]].left # Nil /\ heap[p[i]].right = p[i + 1] /\ heap[p[i]].dirty
  BY <1>2 DEF Cut, Edge
<1> QED
  BY <1>2, <1>3, <1>4 DEF NodesAt

LEMMA CutSpans ==
  ASSUME NEW heap, NEW S, NEW par, NEW off, NEW cnt, NEW L, NEW nf, NEW p, NEW b,
         Cut(heap, S, par, off, cnt, L, nf, p, b), NEW n, NEW l, NEW r, NEW R, NEW m,
         TurnsLeft(heap, S, par, off, cnt, L, p, b, n, l, r, R, m),
         NEW S2, S2 = CutSet(S, l, R), NEW cnt2, cnt2 = CutCnt(S, off, cnt, NodesAt(p, b + 1), m),
         NEW g, NEW y, IsEliminated(g, heap, S2, n, l, y)
  PROVE  Spans(g, S2, off, cnt2, Nil, nf)
<1>1. Recounted(S, S2, off, cnt, p, b, n, l, m, cnt2)
  BY RecountedIs
<1>2. PICK E : E = NodesAt(p, b + 1)
  OBVIOUS
<1>3. /\ S2 \subseteq S /\ n \in S2 /\ n \in E /\ cnt2[n] = cnt[l]
      /\ \A x \in S2 : x \in E => cnt2[x] = m - off[x]
      /\ \A x \in S : x \notin E => cnt2[x] = cnt[x]
      /\ \A x \in S2 : cnt2[x] \in Nat \ {0} /\ off[x] + cnt2[x] <= m /\ cnt2[x] <= cnt[x]
  BY <1>1, <1>2 DEF Recounted
<1>4. /\ n \in S /\ l \in S /\ n # l /\ off[l] = off[n] /\ m \in Nat /\ n = p[b + 1]
      /\ l = heap[n].left /\ l # Nil /\ cnt[l] < cnt[n]
  BY TurnsLeftIs
<1>5. /\ Linked(heap, S, par, p[1]) /\ Nil \notin S /\ Spans(heap, S, off, cnt, Nil, nf) /\ b \in Nat
      /\ \A x \in S : off[x] \in Nat /\ cnt[x] \in Nat \ {0}
  BY CutParts
<1>6. /\ DOMAIN g = S2 /\ g[n] = y /\ \A x \in S2 : x # n => g[x] = heap[x]
      /\ y.left = heap[l].left /\ y.right = heap[l].right
  BY <1>3 DEF IsEliminated
<1>7. \A x \in S2 : off[x] \in Nat /\ cnt2[x] \in Nat \ {0}
  BY <1>3, <1>5
(* The children of a node that is not on the walk keep their counts.       *)
<1>8. ASSUME NEW x \in S, x \notin NodesAt(p, b), heap[x].left # Nil
      PROVE  /\ off[heap[x].left] = off[x] /\ off[heap[x].right] = off[x] + cnt2[heap[x].left]
             /\ cnt2[heap[x].left] \in Powers /\ cnt2[heap[x].right] <= cnt2[heap[x].left]
             /\ cnt[x] = cnt2[heap[x].left] + cnt2[heap[x].right]
  <2>1. heap[x].left \notin E /\ heap[x].right \notin E
    BY <1>2, <1>8, CutChildren
  <2>2. heap[x].left \in S /\ heap[x].right \in S /\ x # Nil
    BY <1>5, <1>8 DEF Linked
  <2>3. cnt2[heap[x].left] = cnt[heap[x].left] /\ cnt2[heap[x].right] = cnt[heap[x].right]
    BY <1>3, <2>1, <2>2
  <2>4. /\ off[heap[x].left] = off[x] /\ off[heap[x].right] = off[x] + cnt[heap[x].left]
        /\ cnt[heap[x].left] \in Powers /\ cnt[heap[x].right] <= cnt[heap[x].left]
        /\ cnt[x] = cnt[heap[x].left] + cnt[heap[x].right]
    BY <1>5, <1>8, <2>2 DEF Spans
  <2> QED
    BY <2>3, <2>4
<1>9. l \notin E
  BY <1>2, <1>4, CutChildren
<1>10. l \notin NodesAt(p, b)
  <2>1. \A i \in 1 .. b : i \in 1 .. b + 1
    BY <1>5
  <2> QED
    BY <1>2, <1>9, <2>1 DEF NodesAt
<1>11. ASSUME NEW x \in S2, g[x].left # Nil
       PROVE  /\ off[g[x].left] = off[x] /\ off[g[x].right] = off[x] + cnt2[g[x].left]
              /\ cnt2[g[x].left] \in Powers /\ cnt2[g[x].right] <= cnt2[g[x].left]
              /\ cnt2[x] = cnt2[g[x].left] + cnt2[g[x].right]
  <2>1. CASE x = n
    <3>1. heap[l].left # Nil /\ g[x].left = heap[l].left /\ g[x].right = heap[l].right
      BY <1>6, <1>11, <2>1
    <3>2. /\ off[heap[l].left] = off[l] /\ off[heap[l].right] = off[l] + cnt2[heap[l].left]
          /\ cnt2[heap[l].left] \in Powers /\ cnt2[heap[l].right] <= cnt2[heap[l].left]
          /\ cnt[l] = cnt2[heap[l].left] + cnt2[heap[l].right]
      BY <1>4, <1>8, <1>10, <3>1
    <3>3. off[x] = off[l] /\ cnt2[x] = cnt[l]
      BY <1>3, <1>4, <2>1
    <3> QED
      BY <3>1, <3>2, <3>3
  <2>2. CASE x # n /\ x \in NodesAt(p, b)
    <3>1. PICK i \in 1 .. b : x = p[i]
      BY <2>2 DEF NodesAt
    <3>2. PICK a, c : a = heap[x].left /\ c = heap[x].right
      OBVIOUS
    <3>3. x \in S /\ a # Nil /\ c = p[i + 1] /\ c \in E /\ x \in E
      BY <1>2, <3>1, <3>2, CutAbove
    <3>4. a \notin E
      BY <1>2, <3>2, <3>3, CutChildren
    <3>5. a \in S /\ c \in S2 /\ x # Nil
      <4>1. a \in S /\ c \in S /\ x # Nil
        BY <1>5, <3>2, <3>3 DEF Linked
      <4>2. x \notin R
        BY DEF CutSet
      <4>3. x \in S /\ x # n /\ heap[x].left # Nil /\ c \in {heap[x].left, heap[x].right}
        BY <2>2, <3>2, <3>3
      <4>4. c \in CutSet(S, l, R)
        BY <4>2, <4>3, ChildStays
      <4> QED
        BY <4>1, <4>4
    <3>6. cnt2[a] = cnt[a] /\ cnt2[c] = m - off[c] /\ cnt2[x] = m - off[x] /\ cnt2[c] <= cnt[c]
      BY <1>3, <3>3, <3>4, <3>5
    <3>7. off[a] = off[x] /\ off[c] = off[x] + cnt[a] /\ cnt[a] \in Powers /\ cnt[c] <= cnt[a]
      BY <1>5, <3>2, <3>3 DEF Spans
    <3>8. PICK o, k, d : o = off[x] /\ k = cnt[a] /\ d = cnt2[c]
      OBVIOUS
    <3>9. o \in Nat /\ k \in Nat /\ d \in Nat /\ cnt[c] \in Nat
      BY <1>3, <1>5, <3>5, <3>8
    <3>10. cnt2[x] = k + d
      <4>1. d = m - (o + k) /\ cnt2[x] = m - o
        BY <3>6, <3>7, <3>8
      <4> QED
        BY <1>4, <3>9, <4>1
    <3>11. d <= k
      BY <3>6, <3>7, <3>8, <3>9
    <3>12. g[x].left = a /\ g[x].right = c
      BY <1>6, <2>2, <3>2
    <3> QED
      BY <3>6, <3>7, <3>8, <3>10, <3>11, <3>12
  <2>3. CASE x # n /\ x \notin NodesAt(p, b)
    <3>1. g[x] = heap[x] /\ x \in S
      BY <1>3, <1>6, <2>3
    <3>2. x \notin E
      <4>1. SUFFICES ASSUME x \in E PROVE FALSE
        OBVIOUS
      <4>2. PICK i \in 1 .. b + 1 : x = p[i]
        BY <1>2, <4>1 DEF NodesAt
      <4>3. i \in 1 .. b \/ i = b + 1
        BY <1>5
      <4> QED
        BY <1>4, <2>3, <4>2, <4>3 DEF NodesAt
    <3>3. cnt2[x] = cnt[x]
      BY <1>3, <3>1, <3>2
    <3>4. heap[x].left # Nil
      BY <1>11, <3>1
    <3> QED
      BY <1>8, <2>3, <3>1, <3>3, <3>4
  <2> QED
    BY <2>1, <2>2, <2>3
<1>12. ASSUME NEW x \in S2, g[x].left = Nil
       PROVE  cnt2[x] \in Powers /\ (cnt2[x] = 1 \/ off[x] + cnt2[x] <= nf)
  <2>1. CASE x = n
    <3>1. heap[l].left = Nil
      BY <1>6, <1>12, <2>1
    <3>2. cnt[l] \in Powers /\ (cnt[l] = 1 \/ off[l] + cnt[l] <= nf)
      BY <1>4, <1>5, <3>1 DEF Spans
    <3> QED
      BY <1>3, <1>4, <2>1, <3>2
  <2>2. CASE x # n
    <3>1. g[x] = heap[x] /\ x \in S /\ heap[x].left = Nil
      BY <1>3, <1>6, <1>12, <2>2
    <3>2. x \notin E
      <4>1. SUFFICES ASSUME x \in E PROVE FALSE
        OBVIOUS
      <4>2. PICK i \in 1 .. b + 1 : x = p[i]
        BY <1>2, <4>1 DEF NodesAt
      <4>3. i \in 1 .. b \/ i = b + 1
        BY <1>5
      <4>4. i \in 1 .. b
        BY <1>4, <2>2, <4>2, <4>3
      <4> QED
        BY <3>1, <4>2, <4>4, CutAbove
    <3>3. cnt2[x] = cnt[x]
      BY <1>3, <3>1, <3>2
    <3>4. cnt[x] \in Powers /\ (cnt[x] = 1 \/ off[x] + cnt[x] <= nf)
      BY <1>5, <3>1 DEF Spans
    <3> QED
      BY <3>3, <3>4
  <2> QED
    BY <2>1, <2>2
<1> QED
  BY <1>7, <1>11, <1>12 DEF Spans

LEMMA CutMeasured ==
  ASSUME NEW heap, NEW S, NEW par, NEW off, NEW cnt, NEW L, NEW nf, NEW p, NEW b,
         Cut(heap, S, par, off, cnt, L, nf, p, b), NEW n, NEW l, NEW r, NEW R, NEW m,
         TurnsLeft(heap, S, par, off, cnt, L, p, b, n, l, r, R, m),
         NEW S2, S2 = CutSet(S, l, R), NEW cnt2, cnt2 = CutCnt(S, off, cnt, NodesAt(p, b + 1), m),
         NEW g, NEW y, IsEliminated(g, heap, S2, n, l, y)
  PROVE  Measured(g, S2, cnt2, NodesAt(p, b))
<1>1. /\ S2 \subseteq S /\ n \in S2 /\ cnt2[n] = cnt[l]
      /\ \A x \in S : x \notin NodesAt(p, b + 1) => cnt2[x] = cnt[x]
  <2>1. Recounted(S, S2, off, cnt, p, b, n, l, m, cnt2)
    BY RecountedIs
  <2> QED
    BY <2>1 DEF Recounted
<1>2. l \in S /\ l = heap[n].left /\ l # Nil /\ n = p[b + 1] /\ n \in S
  BY TurnsLeftIs
<1>3. Measured(heap, S, cnt, NodesAt(p, b)) /\ b \in Nat
  BY CutParts
<1>4. /\ g[n] = y /\ \A x \in S2 : x # n => g[x] = heap[x]
      /\ y.size = heap[l].size /\ y.height = heap[l].height
  BY <1>1 DEF IsEliminated
<1>5. l \notin NodesAt(p, b)
  <2>1. l \notin NodesAt(p, b + 1)
    BY <1>2, CutChildren
  <2>2. \A i \in 1 .. b : i \in 1 .. b + 1
    BY <1>3
  <2> QED
    BY <2>1, <2>2 DEF NodesAt
<1>6. SUFFICES ASSUME NEW x \in S2, x \notin NodesAt(p, b)
               PROVE  g[x].size = 2 * cnt2[x] - 1 /\ HeightIs(g[x].height, cnt2[x])
  BY DEF Measured
<1>7. CASE x = n
  <2>1. heap[l].size = 2 * cnt[l] - 1 /\ HeightIs(heap[l].height, cnt[l])
    BY <1>2, <1>3, <1>5 DEF Measured
  <2> QED
    BY <1>1, <1>4, <1>7, <2>1
<1>8. CASE x # n
  <2>1. x \notin NodesAt(p, b + 1)
    <3>1. \A i \in 1 .. b + 1 : i \in 1 .. b \/ i = b + 1
      BY <1>3
    <3> QED
      BY <1>2, <1>6, <1>8, <3>1 DEF NodesAt
  <2>2. x \in S /\ cnt2[x] = cnt[x] /\ g[x] = heap[x]
    BY <1>1, <1>4, <1>8, <2>1
  <2>3. heap[x].size = 2 * cnt[x] - 1 /\ HeightIs(heap[x].height, cnt[x])
    BY <1>3, <1>6, <2>2 DEF Measured
  <2> QED
    BY <2>2, <2>3
<1> QED
  BY <1>7, <1>8

(* Two lists share their first m leaves.                                   *)
Shares(K, L, m) == Len(K) = m /\ \A i \in 1 .. m : K[i] = L[i]

LEMMA CutHashes ==
  ASSUME NEW heap, NEW S, NEW par, NEW off, NEW cnt, NEW L, NEW nf, NEW p, NEW b,
         Cut(heap, S, par, off, cnt, L, nf, p, b), NEW n, NEW l, NEW r, NEW R, NEW m,
         TurnsLeft(heap, S, par, off, cnt, L, p, b, n, l, r, R, m),
         NEW S2, S2 = CutSet(S, l, R), NEW cnt2, cnt2 = CutCnt(S, off, cnt, NodesAt(p, b + 1), m),
         NEW g, NEW y, IsEliminated(g, heap, S2, n, l, y), NEW K, Shares(K, L, m)
  PROVE  HashesRight(g, S2, off, cnt2, K)
<1>1. /\ S2 \subseteq S /\ n \in S2 /\ cnt2[n] = cnt[l]
      /\ \A x \in S : x \notin NodesAt(p, b + 1) => cnt2[x] = cnt[x]
      /\ \A x \in S2 : cnt2[x] \in Nat \ {0} /\ off[x] + cnt2[x] <= m
  <2>1. Recounted(S, S2, off, cnt, p, b, n, l, m, cnt2)
    BY RecountedIs
  <2> QED
    BY <2>1 DEF Recounted
<1>2. /\ l \in S /\ l = heap[n].left /\ l # Nil /\ n = p[b + 1] /\ n \in S
      /\ off[l] = off[n] /\ m \in Nat \ {0} /\ m < Len(L)
  BY TurnsLeftIs
<1>3. /\ HashesRight(heap, S, off, cnt, L) /\ b \in Nat /\ Len(L) \in Nat
      /\ Linked(heap, S, par, p[1]) /\ Nil \notin S
      /\ \A x \in S : off[x] \in Nat
  BY CutParts
<1>4. /\ g[n] = y /\ \A x \in S2 : x # n => g[x] = heap[x]
      /\ y.left = heap[l].left /\ y.right = heap[l].right /\ y.hash = heap[l].hash
      /\ IF heap[l].left # Nil THEN y.dirty ELSE y.dirty = heap[l].dirty
  BY <1>1 DEF IsEliminated
<1>5. \A c \in 1 .. m : \A o \in 0 .. m - c : SubtreeHash(K)[c][o] = SubtreeHash(L)[c][o]
  <2>1. Len(K) \in Nat /\ m <= Len(K) /\ m <= Len(L) /\ \A i \in 1 .. m : K[i] = L[i]
    BY <1>2, <1>3 DEF Shares
  <2> QED
    BY <1>2, <1>3, <2>1, HashOfShared
<1>6. \A x \in S2 : SubtreeHash(K)[cnt2[x]][off[x]] = SubtreeHash(L)[cnt2[x]][off[x]]
  <2>1. SUFFICES ASSUME NEW x \in S2
                 PROVE  SubtreeHash(K)[cnt2[x]][off[x]] = SubtreeHash(L)[cnt2[x]][off[x]]
    OBVIOUS
  <2>2. PICK c, o : c = cnt2[x] /\ o = off[x]
    OBVIOUS
  <2>3. c \in Nat \ {0} /\ o \in Nat /\ o + c <= m
    BY <1>1, <1>3, <2>2
  <2>4. c \in 1 .. m /\ o \in 0 .. m - c
    BY <1>2, <2>3
  <2> QED
    BY <1>5, <2>2, <2>4
<1>7. ASSUME NEW x \in S2
      PROVE  /\ ~g[x].dirty => g[x].hash = SubtreeHash(K)[cnt2[x]][off[x]]
             /\ g[x].left # Nil /\ ~g[x].dirty =>
                  ~g[g[x].left].dirty /\ ~g[g[x].right].dirty
             /\ g[x].left = Nil => ~g[x].dirty
  <2>1. CASE x = n
    <3>1. /\ ~heap[l].dirty => heap[l].hash = SubtreeHash(L)[cnt[l]][off[l]]
          /\ heap[l].left = Nil => ~heap[l].dirty
      BY <1>2, <1>3 DEF HashesRight
    <3>2. CASE heap[l].left # Nil
      BY <1>4, <2>1, <3>2
    <3>3. CASE heap[l].left = Nil
      <4>1. y.dirty = heap[l].dirty /\ ~heap[l].dirty
        BY <1>4, <3>1, <3>3
      <4>2. SubtreeHash(K)[cnt2[x]][off[x]] = SubtreeHash(L)[cnt[l]][off[l]]
        BY <1>1, <1>2, <1>6, <2>1
      <4>3. g[x] = y
        BY <1>4, <2>1
      <4>4. ~y.dirty /\ y.left = Nil
        BY <1>4, <3>3, <4>1
      <4>5. y.hash = SubtreeHash(L)[cnt[l]][off[l]]
        BY <1>4, <3>1, <4>1
      <4> QED
        BY <4>2, <4>3, <4>4, <4>5
    <3> QED
      BY <3>2, <3>3
  <2>2. CASE x # n /\ x \in NodesAt(p, b)
    <3>1. PICK i \in 1 .. b : x = p[i]
      BY <2>2 DEF NodesAt
    <3>2. heap[x].dirty /\ heap[x].left # Nil
      BY <3>1, CutAbove
    <3>3. g[x] = heap[x]
      BY <1>4, <2>2
    <3> QED
      BY <3>2, <3>3
  <2>3. CASE x # n /\ x \notin NodesAt(p, b)
    <3>1. x \notin NodesAt(p, b + 1)
      <4>1. \A i \in 1 .. b + 1 : i \in 1 .. b \/ i = b + 1
        BY <1>3
      <4> QED
        BY <1>2, <2>3, <4>1 DEF NodesAt
    <3>2. g[x] = heap[x] /\ x \in S /\ cnt2[x] = cnt[x]
      BY <1>1, <1>4, <2>3, <3>1
    <3>3. /\ ~heap[x].dirty => heap[x].hash = SubtreeHash(L)[cnt[x]][off[x]]
          /\ heap[x].left # Nil /\ ~heap[x].dirty =>
               ~heap[heap[x].left].dirty /\ ~heap[heap[x].right].dirty
          /\ heap[x].left = Nil => ~heap[x].dirty
      BY <1>3, <3>2 DEF HashesRight
    <3>4. SubtreeHash(K)[cnt2[x]][off[x]] = SubtreeHash(L)[cnt[x]][off[x]]
      BY <1>6, <3>2
    <3>5. ASSUME heap[x].left # Nil
          PROVE  g[heap[x].left] = heap[heap[x].left] /\ g[heap[x].right] = heap[heap[x].right]
      <4>1. PICK a, c : a = heap[x].left /\ c = heap[x].right
        OBVIOUS
      <4>2. x \notin R
        BY DEF CutSet
      <4>3. a \in {heap[x].left, heap[x].right} /\ c \in {heap[x].left, heap[x].right}
        BY <4>1
      <4>4. a \in CutSet(S, l, R)
        BY <2>3, <3>2, <3>5, <4>2, <4>3, ChildStays
      <4>5. c \in CutSet(S, l, R)
        BY <2>3, <3>2, <3>5, <4>2, <4>3, ChildStays
      <4>6. a \notin NodesAt(p, b + 1) /\ c \notin NodesAt(p, b + 1)
        BY <2>3, <3>2, <3>5, <4>1, CutChildren
      <4>7. n \in NodesAt(p, b + 1)
        <5>1. Recounted(S, S2, off, cnt, p, b, n, l, m, cnt2)
          BY RecountedIs
        <5> QED
          BY <5>1 DEF Recounted
      <4> QED
        BY <1>4, <4>1, <4>4, <4>5, <4>6, <4>7
    <3> QED
      BY <3>2, <3>3, <3>4, <3>5
  <2> QED
    BY <2>1, <2>2, <2>3
<1> QED
  BY <1>7 DEF HashesRight

(* A left turn leaves a tree of the first m leaves.                        *)
IsCut(g, S2, heap, S, par, off, cnt, K, nf, p, b, n, l, R) ==
  \E par2, cnt2 :
    /\ Cut(g, S2, par2, off, cnt2, K, nf, p, b) /\ cnt2[n] = cnt[l] /\ S2 = CutSet(S, l, R)
    /\ g[n].height = heap[l].height
    /\ \A x \in S : x \notin NodesAt(p, b + 1) => cnt2[x] = cnt[x]

LEMMA EliminateCut ==
  ASSUME NEW heap, NEW S, NEW par, NEW off, NEW cnt, NEW L, NEW nf, NEW p, NEW b,
         Cut(heap, S, par, off, cnt, L, nf, p, b), NEW n, NEW l, NEW r, NEW R, NEW m,
         TurnsLeft(heap, S, par, off, cnt, L, p, b, n, l, r, R, m),
         NEW g, g = Eliminate(heap, n), NEW K, Shares(K, L, m)
  PROVE  IsCut(g, CutSet(S, l, R), heap, S, par, off, cnt, K, nf, p, b, n, l, R)
<1>1. PICK S2, par2, cnt2 : /\ S2 = CutSet(S, l, R) /\ par2 = CutPar(heap, S, par, n, l)
                            /\ cnt2 = CutCnt(S, off, cnt, NodesAt(p, b + 1), m)
  OBVIOUS
<1>2. PICK y : IsEliminated(g, heap, S2, n, l, y)
  BY <1>1, EliminateIs
<1>3. Linked(g, S2, par2, p[1]) /\ Heap(g) /\ Closed(g)
  BY <1>1, <1>2, CutLinked
<1>4. Spans(g, S2, off, cnt2, Nil, nf)
  BY <1>1, <1>2, CutSpans
<1>5. Measured(g, S2, cnt2, NodesAt(p, b))
  BY <1>1, <1>2, CutMeasured
<1>6. HashesRight(g, S2, off, cnt2, K)
  BY <1>1, <1>2, CutHashes
<1>7. Recounted(S, S2, off, cnt, p, b, n, l, m, cnt2)
  BY <1>1, RecountedIs
<1>8. /\ S2 \subseteq S /\ n \in S2 /\ cnt2[n] = cnt[l]
      /\ \A x \in S2 : x \in NodesAt(p, b + 1) => cnt2[x] = m - off[x]
      /\ \A x \in S : x \notin NodesAt(p, b + 1) => cnt2[x] = cnt[x]
      /\ \A x \in S2 : cnt2[x] \in Nat \ {0} /\ off[x] + cnt2[x] <= m
  BY <1>7 DEF Recounted
<1>9. /\ b \in Nat /\ Edge(heap, S, off, cnt, Len(L), p, b) /\ Len(K) = m
      /\ Fits(S, off, cnt, p[1], Len(L)) /\ \A x \in S : off[x] \in Nat
  <2>1. Len(K) = m
    BY DEF Shares
  <2> QED
    BY <2>1, CutParts
<1>10. m \in Nat /\ n = p[b + 1] /\ n \in S
  BY TurnsLeftIs
<1>11. \A i \in 1 .. b + 1 : p[i] \in S2 /\ p[i] \in NodesAt(p, b + 1)
  <2>1. \A i \in 1 .. b + 1 : p[i] \in S /\ p[i] \notin R /\ p[i] # l
    BY <1>9, GoneIs DEF Edge
  <2> QED
    BY <1>1, <2>1 DEF CutSet, NodesAt
<1>12. /\ DOMAIN g = S2 /\ g[n] = y /\ \A x \in S2 : x # n => g[x] = heap[x]
       /\ y.height = heap[l].height
  BY <1>2, <1>8 DEF IsEliminated
<1>13. Fits(S2, off, cnt2, p[1], Len(K))
  <2>1. off[p[1]] = 0
    BY <1>9 DEF Fits
  <2>2. 1 \in 1 .. b + 1
    BY <1>9
  <2>3. cnt2[p[1]] = m
    <3>1. cnt2[p[1]] = m - off[p[1]]
      BY <1>8, <1>11, <2>2
    <3> QED
      BY <1>10, <2>1, <3>1
  <2> QED
    BY <1>8, <1>9, <2>1, <2>3 DEF Fits
<1>14. \A i \in 1 .. b : /\ i \in 1 .. b + 1 /\ g[p[i]] = heap[p[i]] /\ heap[p[i]].dirty
                         /\ heap[p[i]].left # Nil /\ heap[p[i]].right = p[i + 1]
  <2>1. SUFFICES ASSUME NEW i \in 1 .. b
                 PROVE  /\ i \in 1 .. b + 1 /\ g[p[i]] = heap[p[i]] /\ heap[p[i]].dirty
                        /\ heap[p[i]].left # Nil /\ heap[p[i]].right = p[i + 1]
    OBVIOUS
  <2>2. i \in 1 .. b + 1
    BY <1>9
  <2>3. /\ p[i] # n /\ heap[p[i]].dirty
        /\ heap[p[i]].left # Nil /\ heap[p[i]].right = p[i + 1]
    BY <1>10, CutAbove
  <2> QED
    BY <1>11, <1>12, <2>2, <2>3
<1>15. Edge(g, S2, off, cnt2, Len(K), p, b)
  <2>1. ASSUME NEW i \in 1 .. b + 1 PROVE p[i] \in S2 /\ off[p[i]] + cnt2[p[i]] = Len(K)
    <3>1. PICK x, c : x = p[i] /\ c = cnt2[x]
      OBVIOUS
    <3>2. x \in S2 /\ off[x] \in Nat /\ c = m - off[x]
      BY <1>8, <1>9, <1>11, <3>1
    <3>3. off[x] + c = m
      BY <1>10, <3>2
    <3> QED
      BY <1>9, <3>1, <3>2, <3>3
  <2>2. ASSUME NEW i \in 1 .. b + 1, NEW j \in 1 .. b + 1, i < j PROVE cnt2[p[j]] < cnt2[p[i]]
    <3>1. PICK x, z, c, d : x = p[i] /\ z = p[j] /\ c = cnt2[x] /\ d = cnt2[z]
      OBVIOUS
    <3>2. off[x] < off[z]
      BY <2>2, <3>1, CutOrder
    <3>3. c = m - off[x] /\ d = m - off[z] /\ off[x] \in Nat /\ off[z] \in Nat
      BY <1>8, <1>9, <1>11, <3>1
    <3>4. d < c
      BY <1>10, <3>2, <3>3
    <3> QED
      BY <3>1, <3>4
  <2> QED
    BY <1>14, <2>1, <2>2 DEF Edge
<1>16. Good(g, S2, par2, off, cnt2, p[1], K, nf, NodesAt(p, b))
  BY <1>3, <1>4, <1>5, <1>6, <1>13 DEF Good
<1>17. Cut(g, S2, par2, off, cnt2, K, nf, p, b)
  BY <1>9, <1>10, <1>12, <1>14, <1>15, <1>16 DEF Cut
<1>18. g[n].height = heap[l].height
  BY <1>12
<1>19. IsCut(g, S2, heap, S, par, off, cnt, K, nf, p, b, n, l, R)
  BY <1>1, <1>8, <1>17, <1>18 DEF IsCut
<1> QED
  BY <1>1, <1>19

-----------------------------------------------------------------------------
(* One height of the walk of retract_to()                                  *)

(* At a node that does not have the height the walk skips it; at one that  *)
(* does, the index is compared with the count on the left.                 *)
Heights(heap, cnt, n, it, h) ==
  IF heap[n].height # h THEN heap[n].height <= h - 1 /\ ~(it >= pow2[h - 2])
  ELSE /\ heap[n].left # Nil /\ cnt[heap[n].left] = pow2[h - 2]
       /\ heap[heap[n].left].height <= h - 1 /\ heap[heap[n].right].height <= h - 1

LEMMA HeightsIs ==
  ASSUME NEW heap, NEW S, NEW par, NEW off, NEW cnt, NEW L, NEW nf, NEW p, NEW b,
         Cut(heap, S, par, off, cnt, L, nf, p, b), NEW n, n = p[b + 1], nf \in Nat,
         NEW index \in Nat, nf <= index, NEW h \in Nat, h >= 2, NEW it \in Nat,
         off[n] + it = index, it < cnt[n], heap[n].height <= h
  PROVE  Heights(heap, cnt, n, it, h)
<1>1. /\ Linked(heap, S, par, p[1]) /\ Nil \notin S /\ Spans(heap, S, off, cnt, Nil, nf) /\ b \in Nat
      /\ Measured(heap, S, cnt, NodesAt(p, b))
      /\ \A x \in S : off[x] \in Nat /\ cnt[x] \in Nat \ {0}
  BY CutParts
<1>2. b + 1 \in 1 .. b + 1 /\ \A i \in 1 .. b : i \in 1 .. b + 1 /\ i < b + 1
  BY <1>1
<1>3. n \in S
  BY <1>2 DEF Cut, Edge
<1>4. n \notin NodesAt(p, b)
  <2>1. \A i \in 1 .. b : p[i] # p[b + 1]
    BY <1>2, CutOrder
  <2> QED
    BY <2>1 DEF NodesAt
<1>5. PICK c, o, g : c = cnt[n] /\ o = off[n] /\ g = heap[n].height
  OBVIOUS
<1>6. c \in Nat \ {0} /\ o \in Nat /\ HeightIs(g, c)
  BY <1>1, <1>3, <1>4, <1>5 DEF Measured
<1>7. g \in Nat \ {0} /\ c <= pow2[g - 1] /\ (g # 1 => pow2[g - 2] < c)
  BY <1>6 DEF HeightIs
<1>8. h - 2 \in Nat /\ g - 1 \in Nat /\ pow2[h - 2] \in Nat /\ pow2[g - 1] \in Nat
  BY <1>7, Pow2Nat
<1>9. it \in Nat /\ o + it = index /\ it < c /\ g <= h
  BY <1>5
<1>10. CASE g # h
  <2>1. g - 1 <= h - 2 /\ g <= h - 1
    BY <1>7, <1>9, <1>10
  <2>2. pow2[g - 1] <= pow2[h - 2]
    BY <1>8, <2>1, Pow2Order
  <2>3. ~(it >= pow2[h - 2])
    <3>1. PICK u, v : u = pow2[h - 2] /\ v = pow2[g - 1]
      OBVIOUS
    <3>2. u \in Nat /\ v \in Nat /\ c <= v /\ v <= u
      BY <1>7, <1>8, <2>2, <3>1
    <3>3. it < u
      BY <1>6, <1>9, <3>2
    <3> QED
      BY <1>9, <3>1, <3>2, <3>3
  <2> QED
    BY <1>5, <1>10, <2>1, <2>3 DEF Heights
<1>11. CASE g = h
  <2>1. heap[n].left # Nil
    <3>1. SUFFICES ASSUME heap[n].left = Nil PROVE FALSE
      OBVIOUS
    <3>2. c = 1 \/ o + c <= nf
      BY <1>1, <1>3, <1>5, <3>1 DEF Spans
    <3>3. c # 1
      <4>1. g # 1 /\ g - 2 \in Nat
        BY <1>11
      <4>2. pow2[g - 2] \in Nat /\ pow2[g - 2] >= 1 /\ pow2[g - 2] < c
        BY <1>7, <4>1, Pow2Nat
      <4> QED
        BY <4>2
    <3>4. o + c > nf
      BY <1>6, <1>9
    <3> QED
      BY <1>6, <3>2, <3>3, <3>4
  <2>2. PICK l, r, x, y : l = heap[n].left /\ r = heap[n].right /\ x = cnt[l] /\ y = cnt[r]
    OBVIOUS
  <2>3. l \in S /\ r \in S /\ n # Nil
    BY <1>1, <1>3, <2>1, <2>2 DEF Linked
  <2>4. x \in Powers /\ y \in Nat \ {0} /\ y <= x /\ c = x + y
    BY <1>1, <1>3, <1>5, <2>1, <2>2, <2>3 DEF Spans
  <2>5. x = pow2[h - 2]
    BY <1>6, <1>11, <2>4, LeftHeight
  <2>6. l \notin NodesAt(p, b) /\ r \notin NodesAt(p, b)
    <3>1. l \notin NodesAt(p, b + 1) /\ r \notin NodesAt(p, b + 1)
      BY <1>3, <1>4, <2>1, <2>2, CutChildren
    <3> QED
      BY <1>2, <3>1 DEF NodesAt
  <2>7. heap[l].height <= h - 1 /\ heap[r].height <= h - 1
    <3>1. PICK u, v : u = heap[l].height /\ v = heap[r].height
      OBVIOUS
    <3>2. HeightIs(u, x) /\ HeightIs(v, y)
      BY <1>1, <2>2, <2>3, <2>6, <3>1 DEF Measured
    <3>3. x = pow2[u - 1]
      BY <2>4, <3>2, PowerHeight
    <3>4. v <= u
      BY <2>4, <3>2, HeightsOrder
    <3>5. u \in Nat \ {0} /\ v \in Nat \ {0}
      BY <3>2 DEF HeightIs
    <3>6. u - 1 \in Nat
      BY <3>5
    <3>7. PICK j, k : j = u - 1 /\ k = h - 2
      OBVIOUS
    <3>8. j \in Nat /\ k \in Nat /\ pow2[j] = pow2[k]
      BY <1>8, <2>5, <3>3, <3>6, <3>7
    <3>9. j = k
      BY <3>8, SamePower
    <3>10. u <= h - 1 /\ v <= h - 1
      BY <1>8, <3>4, <3>5, <3>7, <3>8, <3>9
    <3> QED
      BY <3>1, <3>10
  <2> QED
    BY <1>5, <1>11, <2>1, <2>2, <2>5, <2>7 DEF Heights
<1> QED
  BY <1>10, <1>11

(* A right turn.                                                           *)
LongerWalk(p, b, r) == [i \in 1 .. b + 2 |-> IF i <= b + 1 THEN p[i] ELSE r]

TurnedRight(g, heap, S, par, off, cnt, L, nf, q, b, n, r) ==
  /\ Cut(g, S, par, off, cnt, L, nf, q, b + 1) /\ q[b + 2] = r
  /\ \A x \in S : g[x].height = heap[x].height
  /\ off[r] = off[n] + cnt[heap[n].left] /\ cnt[n] = cnt[heap[n].left] + cnt[r]

LEMMA RightCut ==
  ASSUME NEW heap, NEW S, NEW par, NEW off, NEW cnt, NEW L, NEW nf, NEW p, NEW b,
         Cut(heap, S, par, off, cnt, L, nf, p, b), NEW n, n = p[b + 1], heap[n].left # Nil,
         NEW r, r = heap[n].right, NEW q, q = LongerWalk(p, b, r),
         NEW g, g = [heap EXCEPT ![n].dirty = TRUE]
  PROVE  TurnedRight(g, heap, S, par, off, cnt, L, nf, q, b, n, r)
<1>1. /\ Heap(heap) /\ Closed(heap) /\ Linked(heap, S, par, p[1]) /\ Nil \notin S
      /\ Spans(heap, S, off, cnt, Nil, nf) /\ Fits(S, off, cnt, p[1], Len(L))
      /\ Measured(heap, S, cnt, NodesAt(p, b)) /\ HashesRight(heap, S, off, cnt, L)
      /\ b \in Nat /\ Len(L) \in Nat /\ DOMAIN heap = S /\ Edge(heap, S, off, cnt, Len(L), p, b)
      /\ \A x \in S : off[x] \in Nat /\ cnt[x] \in Nat \ {0}
  BY CutParts
<1>2. b + 1 \in 1 .. b + 1 /\ \A i \in 1 .. b : i \in 1 .. b + 1 /\ i < b + 1
  BY <1>1
<1>3. n \in S /\ off[n] + cnt[n] = Len(L)
  BY <1>1, <1>2 DEF Edge
<1>4. PICK l : l = heap[n].left
  OBVIOUS
<1>5. r \in S /\ l \in S /\ n # Nil
  BY <1>1, <1>3, <1>4 DEF Linked
<1>6. off[r] = off[n] + cnt[l] /\ cnt[n] = cnt[l] + cnt[r]
  BY <1>1, <1>3, <1>4, <1>5 DEF Spans
<1>7. off[r] + cnt[r] = Len(L) /\ cnt[r] < cnt[n]
  <2>1. PICK o, c, a, d, len, o2 : /\ o = off[n] /\ c = cnt[n] /\ a = cnt[l] /\ d = cnt[r] /\ len = Len(L)
                                   /\ o2 = off[r]
    OBVIOUS
  <2>2. o \in Nat /\ c \in Nat /\ a \in Nat \ {0} /\ d \in Nat \ {0} /\ len \in Nat
        /\ o2 = o + a /\ c = a + d /\ o + c = len
    BY <1>1, <1>3, <1>5, <1>6, <2>1
  <2>3. o2 + d = len /\ d < c
    BY <2>2
  <2> QED
    BY <2>1, <2>3
<1>8. PICK x, y : x = heap[n] /\ y = [x EXCEPT !.dirty = TRUE]
  OBVIOUS
<1>9. IsNode(y) /\ y.left = x.left /\ y.right = x.right /\ y.size = x.size
      /\ y.height = x.height /\ y.hash = x.hash /\ y.dirty = TRUE
  <2>1. IsNode(x)
    BY <1>1, <1>3, <1>8 DEF Heap
  <2>2. y = [x EXCEPT !.dirty = TRUE]
    BY <1>8
  <2> QED
    BY <2>1, <2>2, DirtyNode
<1>10. g = [z \in S |-> IF z = n THEN y ELSE heap[z]]
  <2>1. g = [heap EXCEPT ![n] = y]
    BY <1>8
  <2>2. heap = [z \in S |-> heap[z]]
    BY <1>1 DEF Heap
  <2> QED
    BY <1>3, <2>1, <2>2
<1>11. DOMAIN g = S /\ g[n] = y /\ \A z \in S : z # n => g[z] = heap[z]
  BY <1>3, <1>10
<1>12. \A z \in S : /\ g[z].left = heap[z].left /\ g[z].right = heap[z].right /\ g[z].size = heap[z].size
                    /\ g[z].height = heap[z].height /\ g[z].hash = heap[z].hash
  BY <1>8, <1>9, <1>11
<1>13. SameLinks(g, heap)
  BY <1>1, <1>11, <1>12 DEF SameLinks
<1>14. Closed(g) /\ Linked(g, S, par, p[1]) /\ Spans(g, S, off, cnt, Nil, nf)
  BY <1>1, <1>13, LinksCarry
<1>15. Heap(g)
  <2>1. IsFiniteSet(S) /\ S \subseteq Nat \ {0}
    BY <1>1 DEF Heap
  <2>2. \A z \in S : IsNode(g[z])
    BY <1>1, <1>9, <1>11 DEF Heap
  <2>3. g = [z \in S |-> g[z]]
    BY <1>10
  <2> QED
    BY <1>11, <2>1, <2>2, <2>3 DEF Heap
<1>16. /\ \A i \in 1 .. b + 1 : q[i] = p[i]
       /\ q[b + 2] = r /\ q[1] = p[1] /\ (b + 1) + 1 = b + 2
  <2>1. \A i \in 1 .. b + 1 : i \in 1 .. b + 2 /\ i <= b + 1
    BY <1>1
  <2>2. b + 2 \in 1 .. b + 2 /\ ~(b + 2 <= b + 1) /\ 1 \in 1 .. b + 1 /\ (b + 1) + 1 = b + 2
    BY <1>1
  <2> QED
    BY <2>1, <2>2 DEF LongerWalk
<1>17. Measured(g, S, cnt, NodesAt(q, b + 1))
  <2>1. SUFFICES ASSUME NEW z \in S, z \notin NodesAt(q, b + 1)
                 PROVE  g[z].size = 2 * cnt[z] - 1 /\ HeightIs(g[z].height, cnt[z])
    BY DEF Measured
  <2>2. z \notin NodesAt(p, b)
    BY <1>2, <1>16, <2>1 DEF NodesAt
  <2>3. heap[z].size = 2 * cnt[z] - 1 /\ HeightIs(heap[z].height, cnt[z])
    BY <1>1, <2>2 DEF Measured
  <2> QED
    BY <1>12, <2>3
<1>18. HashesRight(g, S, off, cnt, L)
  <2>1. ASSUME NEW z \in S
        PROVE  /\ ~g[z].dirty => g[z].hash = SubtreeHash(L)[cnt[z]][off[z]]
               /\ g[z].left # Nil /\ ~g[z].dirty =>
                    ~g[g[z].left].dirty /\ ~g[g[z].right].dirty
               /\ g[z].left = Nil => ~g[z].dirty
    <3>1. CASE z = n
      BY <1>9, <1>11, <1>12, <3>1
    <3>2. CASE z # n
      <4>1. g[z] = heap[z]
        BY <1>11, <3>2
      <4>2. /\ ~heap[z].dirty => heap[z].hash = SubtreeHash(L)[cnt[z]][off[z]]
            /\ heap[z].left # Nil /\ ~heap[z].dirty =>
                 ~heap[heap[z].left].dirty /\ ~heap[heap[z].right].dirty
            /\ heap[z].left = Nil => ~heap[z].dirty
        BY <1>1 DEF HashesRight
      <4>3. ASSUME heap[z].left # Nil, ~heap[z].dirty
            PROVE  heap[z].left # n /\ heap[z].right # n /\ heap[z].left \in S /\ heap[z].right \in S
        <5>1. z \notin NodesAt(p, b)
          <6>1. SUFFICES ASSUME NEW i \in 1 .. b, z = p[i] PROVE FALSE
            BY DEF NodesAt
          <6>2. heap[z].dirty
            BY <6>1 DEF Cut
          <6> QED
            BY <4>3, <6>2
        <5>2. heap[z].left \notin NodesAt(p, b + 1) /\ heap[z].right \notin NodesAt(p, b + 1)
          BY <4>3, <5>1, CutChildren
        <5>3. n \in NodesAt(p, b + 1)
          BY <1>2 DEF NodesAt
        <5>4. heap[z].left \in S /\ heap[z].right \in S
          BY <1>1, <4>3 DEF Linked
        <5> QED
          BY <5>2, <5>3, <5>4
      <4> QED
        BY <1>11, <4>1, <4>2, <4>3
    <3> QED
      BY <3>1, <3>2
  <2> QED
    BY <2>1 DEF HashesRight
<1>19. Edge(g, S, off, cnt, Len(L), q, b + 1)
  <2>1. ASSUME NEW i \in 1 .. b + 2 PROVE q[i] \in S /\ off[q[i]] + cnt[q[i]] = Len(L)
    <3>1. i \in 1 .. b + 1 \/ i = b + 2
      BY <1>1
    <3>2. CASE i \in 1 .. b + 1
      BY <1>1, <1>16, <3>2 DEF Edge
    <3>3. CASE i = b + 2
      BY <1>5, <1>7, <1>16, <3>3
    <3> QED
      BY <3>1, <3>2, <3>3
  <2>2. ASSUME NEW i \in 1 .. b + 1 PROVE g[q[i]].left # Nil /\ g[q[i]].right = q[i + 1]
    <3>1. i \in 1 .. b \/ i = b + 1
      BY <1>1
    <3>2. CASE i \in 1 .. b
      <4>1. p[i] \in S /\ heap[p[i]].left # Nil /\ heap[p[i]].right = p[i + 1]
        BY <3>2, CutAbove
      <4>2. i + 1 \in 1 .. b + 1 /\ i \in 1 .. b + 1
        BY <1>1, <3>2
      <4>3. q[i] = p[i] /\ q[i + 1] = p[i + 1]
        BY <1>16, <4>2
      <4>4. g[p[i]].left = heap[p[i]].left /\ g[p[i]].right = heap[p[i]].right
        BY <1>12, <4>1
      <4> QED
        BY <4>1, <4>3, <4>4
    <3>3. CASE i = b + 1
      <4>1. q[i] = n /\ q[i + 1] = r
        BY <1>1, <1>16, <3>3
      <4> QED
        BY <1>3, <1>12, <4>1
    <3> QED
      BY <3>1, <3>2, <3>3
  <2>3. ASSUME NEW i \in 1 .. b + 2, NEW j \in 1 .. b + 2, i < j PROVE cnt[q[j]] < cnt[q[i]]
    <3>1. i \in 1 .. b + 1 /\ (j \in 1 .. b + 1 \/ j = b + 2) /\ (i = b + 1 \/ i < b + 1)
      BY <1>1, <2>3
    <3>2. CASE j \in 1 .. b + 1
      BY <1>16, <2>3, <3>1, <3>2, CutOrder
    <3>3. CASE j = b + 2
      <4>1. q[j] = r /\ q[i] = p[i]
        BY <1>16, <3>1, <3>3
      <4>2. CASE i = b + 1
        BY <1>7, <4>1, <4>2
      <4>3. CASE i < b + 1
        <5>1. cnt[n] < cnt[p[i]]
          BY <1>2, <3>1, <4>3, CutOrder
        <5>2. p[i] \in S
          BY <1>1, <3>1 DEF Edge
        <5>3. cnt[n] \in Nat /\ cnt[p[i]] \in Nat /\ cnt[r] \in Nat
          BY <1>1, <1>3, <1>5, <5>2
        <5> QED
          BY <1>7, <4>1, <5>1, <5>3
      <4> QED
        BY <3>1, <4>2, <4>3
    <3> QED
      BY <3>1, <3>2, <3>3
  <2> QED
    BY <1>16, <2>1, <2>2, <2>3 DEF Edge
<1>20. \A i \in 1 .. b + 1 : g[q[i]].dirty
  <2>1. SUFFICES ASSUME NEW i \in 1 .. b + 1 PROVE g[q[i]].dirty
    OBVIOUS
  <2>2. i \in 1 .. b \/ i = b + 1
    BY <1>1
  <2>3. CASE i \in 1 .. b
    <3>1. p[i] \in S /\ heap[p[i]].dirty /\ p[i] # n
      BY <2>3, CutAbove
    <3> QED
      BY <1>11, <1>16, <3>1
  <2>4. CASE i = b + 1
    BY <1>9, <1>11, <1>16, <2>4
  <2> QED
    BY <2>2, <2>3, <2>4
<1>21. Good(g, S, par, off, cnt, q[1], L, nf, NodesAt(q, b + 1))
  BY <1>1, <1>14, <1>15, <1>16, <1>17, <1>18 DEF Good
<1>22. Cut(g, S, par, off, cnt, L, nf, q, b + 1)
  <2>1. b + 1 \in Nat
    BY <1>1
  <2> QED
    BY <1>1, <1>11, <1>19, <1>20, <1>21, <2>1 DEF Cut
<1> QED
  BY <1>4, <1>6, <1>12, <1>16, <1>22 DEF TurnedRight

-----------------------------------------------------------------------------
(* One step of the walk of retract_to(): the heap h2, the node n2, what is *)
(* left of the index and the stack.                                        *)
WalkIs(z, heap, n, it, ws) ==
  z = [heap |-> heap, n |-> n, it |-> it, walk_stack |-> ws]

LEMMA SkipIs ==
  ASSUME NEW a, NEW heap, NEW n, NEW it, NEW ws, WalkIs(a, heap, n, it, ws), NEW h,
         heap[n].height # h, ~(it >= pow2[h - 2]), NEW z, z = RetractDown(a, h)
  PROVE  WalkIs(z, heap, n, it, Append(ws, n))
<1>1. a = [heap |-> heap, n |-> n, it |-> it, walk_stack |-> ws]
  BY DEF WalkIs
<1>2. PICK ws2, two : ws2 = Append(ws, n) /\ two = pow2[h - 2]
  OBVIOUS
<1>3. z = [a EXCEPT !.it = it, !.walk_stack = ws2]
  BY <1>1, <1>2 DEF RetractDown
<1>4. z = [heap |-> heap, n |-> n, it |-> it, walk_stack |-> ws2]
  BY <1>1, <1>3
<1> QED
  BY <1>2, <1>4 DEF WalkIs

LEMMA GoRightIs ==
  ASSUME NEW a, NEW heap, NEW n, NEW it, NEW ws, WalkIs(a, heap, n, it, ws), NEW h,
         heap[n].height = h, it >= pow2[h - 2], NEW z, z = RetractDown(a, h)
  PROVE  WalkIs(z, [heap EXCEPT ![n].dirty = TRUE], heap[n].right, it - pow2[h - 2], Append(ws, n))
<1>1. a = [heap |-> heap, n |-> n, it |-> it, walk_stack |-> ws]
  BY DEF WalkIs
<1>2. PICK ws2, rest, r, g : /\ ws2 = Append(ws, n) /\ rest = it - pow2[h - 2] /\ r = heap[n].right
                             /\ g = [heap EXCEPT ![n].dirty = TRUE]
  OBVIOUS
<1>3. PICK next : next = [a EXCEPT !.it = rest, !.walk_stack = ws2]
  OBVIOUS
<1>4. next = [heap |-> heap, n |-> n, it |-> rest, walk_stack |-> ws2]
  BY <1>1, <1>3
<1>5. z = [next EXCEPT !.heap[a.n].dirty = TRUE, !.n = a.heap[a.n].right]
  BY <1>1, <1>2, <1>3 DEF RetractDown
<1>6. z = [next EXCEPT !.heap = [@ EXCEPT ![n].dirty = TRUE], !.n = r]
  BY <1>1, <1>2, <1>5
<1>7. next.heap = heap
  BY <1>4
<1>8. z = [next EXCEPT !.heap = g, !.n = r]
  BY <1>2, <1>6, <1>7
<1>9. z = [heap |-> g, n |-> r, it |-> rest, walk_stack |-> ws2]
  BY <1>4, <1>8
<1> QED
  BY <1>2, <1>9 DEF WalkIs

LEMMA GoLeftIs ==
  ASSUME NEW a, NEW heap, NEW n, NEW it, NEW ws, WalkIs(a, heap, n, it, ws), NEW h,
         heap[n].height = h, ~(it >= pow2[h - 2]), NEW z, z = RetractDown(a, h)
  PROVE  WalkIs(z, Eliminate(heap, n), n, it, Append(ws, n))
<1>1. a = [heap |-> heap, n |-> n, it |-> it, walk_stack |-> ws]
  BY DEF WalkIs
<1>2. PICK ws2, g : ws2 = Append(ws, n) /\ g = Eliminate(heap, n)
  OBVIOUS
<1>3. PICK next : next = [a EXCEPT !.it = it, !.walk_stack = ws2]
  OBVIOUS
<1>4. next = [heap |-> heap, n |-> n, it |-> it, walk_stack |-> ws2]
  BY <1>1, <1>3
<1>5. next.heap = heap
  BY <1>4
<1>6. z = [next EXCEPT !.heap = Eliminate(@, n)]
  BY <1>1, <1>2, <1>3 DEF RetractDown
<1>7. z = [next EXCEPT !.heap = g]
  BY <1>2, <1>5, <1>6
<1>8. z = [heap |-> g, n |-> n, it |-> it, walk_stack |-> ws2]
  BY <1>4, <1>7
<1> QED
  BY <1>2, <1>8 DEF WalkIs
-----------------------------------------------------------------------------
(* The walk p[1], .., p[b + 1] on its stack: e[j] is how far it was when it *)
(* put the j-th element there.                                             *)
Passed(ws, p, b, e, k) ==
  /\ k \in Nat /\ ws \in Seq(Nat) /\ Len(ws) = k /\ b \in Nat
  /\ e[1] = 1 /\ e[k + 1] = b + 1
  /\ \A j \in 1 .. k + 1 : e[j] \in 1 .. b + 1
  /\ \A j \in 1 .. k : ws[j] = p[e[j]] /\ e[j + 1] \in {e[j], e[j] + 1}

LEMMA PassesOn ==
  ASSUME NEW ws, NEW p, NEW b, NEW e, NEW k, Passed(ws, p, b, e, k), NEW n \in Nat, n = p[b + 1],
         NEW q, \A i \in 1 .. b + 1 : q[i] = p[i], NEW c \in {b, b + 1}
  PROVE  \E f : Passed(Append(ws, n), q, c, f, k + 1)
<1>1. /\ k \in Nat /\ ws \in Seq(Nat) /\ Len(ws) = k /\ b \in Nat
      /\ e[1] = 1 /\ e[k + 1] = b + 1
      /\ \A j \in 1 .. k + 1 : e[j] \in 1 .. b + 1
      /\ \A j \in 1 .. k : ws[j] = p[e[j]] /\ e[j + 1] \in {e[j], e[j] + 1}
  BY DEF Passed
<1>2. PICK m, v : m = k + 1 /\ v = Append(ws, n)
  OBVIOUS
<1>3. m \in Nat /\ v \in Seq(Nat) /\ Len(v) = m /\ v[m] = n /\ \A j \in 1 .. k : v[j] = ws[j]
  BY <1>1, <1>2
<1>4. PICK f : f = [j \in 1 .. m + 1 |-> IF j <= m THEN e[j] ELSE c + 1]
  OBVIOUS
<1>5. /\ \A j \in 1 .. m : j \in 1 .. m + 1 /\ j <= m
      /\ m + 1 \in 1 .. m + 1 /\ ~(m + 1 <= m) /\ 1 \in 1 .. m
      /\ \A j \in 1 .. m + 1 : j \in 1 .. m \/ j = m + 1
      /\ \A j \in 1 .. m : j \in 1 .. k \/ j = m
      /\ \A j \in 1 .. k : j \in 1 .. m /\ j + 1 \in 1 .. m
  BY <1>1, <1>2
<1>6. f[m + 1] = c + 1 /\ \A j \in 1 .. m : f[j] = e[j]
  BY <1>4, <1>5
<1>7. c \in Nat /\ c + 1 \in 1 .. c + 1 /\ \A i \in 1 .. b + 1 : i \in 1 .. c + 1
  BY <1>1
<1>8. \A j \in 1 .. m + 1 : f[j] \in 1 .. c + 1
  <2>1. ASSUME NEW j \in 1 .. m PROVE f[j] \in 1 .. c + 1
    <3>1. f[j] = e[j] /\ j \in 1 .. k + 1
      BY <1>2, <1>6
    <3> QED
      BY <1>1, <1>7, <3>1
  <2> QED
    BY <1>5, <1>6, <1>7, <2>1
<1>9. ASSUME NEW j \in 1 .. m PROVE v[j] = q[f[j]] /\ f[j + 1] \in {f[j], f[j] + 1}
  <2>1. CASE j = m
    <3>1. f[j] = b + 1 /\ b + 1 \in 1 .. b + 1
      BY <1>1, <1>2, <1>6, <2>1
    <3>2. f[j + 1] = c + 1
      BY <1>6, <2>1
    <3>3. c + 1 \in {b + 1, (b + 1) + 1}
      BY <1>1
    <3> QED
      BY <1>3, <2>1, <3>1, <3>2, <3>3
  <2>2. CASE j \in 1 .. k
    <3>1. f[j] = e[j] /\ f[j + 1] = e[j + 1] /\ v[j] = ws[j]
      BY <1>3, <1>5, <1>6, <2>2
    <3>2. e[j] \in 1 .. b + 1
      BY <1>1, <1>2, <1>5
    <3> QED
      BY <1>1, <2>2, <3>1, <3>2
  <2> QED
    BY <1>5, <2>1, <2>2
<1>10. f[1] = 1
  BY <1>1, <1>5, <1>6
<1>11. Passed(v, q, c, f, m)
  BY <1>3, <1>6, <1>7, <1>8, <1>9, <1>10 DEF Passed
<1> QED
  BY <1>2, <1>11

-----------------------------------------------------------------------------
(* The leaves before the index are still there.                            *)
Kept(S0, cnt0, S, off, cnt, index) ==
  \A x \in S0 : cnt0[x] = 1 /\ off[x] < index => x \in S /\ cnt[x] = 1

Begins(L, L0) ==
  /\ L \in Seq(LeafHashes) /\ L0 \in Seq(LeafHashes) /\ Len(L) <= Len(L0)
  /\ \A i \in 1 .. Len(L) : L[i] = L0[i]

(* Where the walk of retract_to() is, at height h: in a tree of the leaves *)
(* L, the first of L0, at a node over the leaf at index.                   *)
At(heap, n, it, S, par, off, cnt, L, nf, p, b, index, h) ==
  /\ Cut(heap, S, par, off, cnt, L, nf, p, b)
  /\ n = p[b + 1] /\ it \in Nat /\ off[n] + it = index /\ it < cnt[n] /\ heap[n].height <= h

Going(z, S, par, cnt, L, p, b, e, k, S0, off, cnt0, L0, nf, r, index, h) ==
  /\ WalkIs(z, z.heap, z.n, z.it, z.walk_stack)
  /\ At(z.heap, z.n, z.it, S, par, off, cnt, L, nf, p, b, index, h)
  /\ p[1] = r /\ Begins(L, L0) /\ Kept(S0, cnt0, S, off, cnt, index)
  /\ Passed(z.walk_stack, p, b, e, k)

GoesOn(z, k, S0, off, cnt0, L0, nf, r, index, h) ==
  \E S, par, cnt, L, p, b, e : Going(z, S, par, cnt, L, p, b, e, k, S0, off, cnt0, L0, nf, r, index, h)

LEMMA WalkFields ==
  ASSUME NEW z, NEW heap, NEW n, NEW it, NEW ws, WalkIs(z, heap, n, it, ws)
  PROVE  /\ z.heap = heap /\ z.n = n /\ z.it = it /\ z.walk_stack = ws
         /\ WalkIs(z, z.heap, z.n, z.it, z.walk_stack)
BY DEF WalkIs

LEMMA AtNode ==
  ASSUME NEW heap, NEW n, NEW it, NEW S, NEW par, NEW off, NEW cnt, NEW L, NEW nf, NEW p, NEW b, NEW index, NEW h,
         At(heap, n, it, S, par, off, cnt, L, nf, p, b, index, h)
  PROVE  n \in S /\ n \in Nat /\ b \in Nat
<1>1. /\ n = p[b + 1] /\ Edge(heap, S, off, cnt, Len(L), p, b) /\ b \in Nat /\ Heap(heap)
      /\ DOMAIN heap = S
  <2>1. Cut(heap, S, par, off, cnt, L, nf, p, b) /\ n = p[b + 1]
    BY DEF At
  <2> QED
    BY <2>1, CutParts
<1>2. b + 1 \in 1 .. b + 1
  BY <1>1
<1>3. n \in S
  BY <1>1, <1>2 DEF Edge
<1> QED
  BY <1>1, <1>3 DEF Heap

(* A node that the walk skips.                                             *)
LEMMA SkipGoes ==
  ASSUME NEW a, NEW S, NEW par, NEW cnt, NEW L, NEW p, NEW b, NEW e, NEW k, NEW S0, NEW off, NEW cnt0,
         NEW L0, NEW nf, NEW r, NEW index, NEW h,
         Going(a, S, par, cnt, L, p, b, e, k, S0, off, cnt0, L0, nf, r, index, h),
         a.heap[a.n].height # h, a.heap[a.n].height <= h - 1, ~(a.it >= pow2[h - 2]),
         NEW z, z = RetractDown(a, h)
  PROVE  GoesOn(z, k + 1, S0, off, cnt0, L0, nf, r, index, h - 1)
<1>1. PICK heap, n, it, ws : heap = a.heap /\ n = a.n /\ it = a.it /\ ws = a.walk_stack
  OBVIOUS
<1>2. /\ WalkIs(a, heap, n, it, ws) /\ Passed(ws, p, b, e, k)
      /\ At(heap, n, it, S, par, off, cnt, L, nf, p, b, index, h)
      /\ p[1] = r /\ Begins(L, L0) /\ Kept(S0, cnt0, S, off, cnt, index)
  BY <1>1 DEF Going
<1>3. PICK ws2 : ws2 = Append(ws, n)
  OBVIOUS
<1>4. WalkIs(z, heap, n, it, ws2)
  <2>1. heap[n].height # h /\ ~(it >= pow2[h - 2])
    BY <1>1
  <2> QED
    BY <1>2, <1>3, <2>1, SkipIs
<1>5. /\ z.heap = heap /\ z.n = n /\ z.it = it /\ z.walk_stack = ws2
      /\ WalkIs(z, z.heap, z.n, z.it, z.walk_stack)
  BY <1>4, WalkFields
<1>6. At(heap, n, it, S, par, off, cnt, L, nf, p, b, index, h - 1)
  <2>1. heap[n].height <= h - 1
    BY <1>1
  <2> QED
    BY <1>2, <2>1 DEF At
<1>7. PICK f : Passed(ws2, p, b, f, k + 1)
  <2>1. n \in Nat /\ n = p[b + 1]
    BY <1>2, AtNode DEF At
  <2>2. b \in {b, b + 1}
    OBVIOUS
  <2> QED
    BY <1>2, <1>3, <2>1, <2>2, PassesOn
<1>8. Going(z, S, par, cnt, L, p, b, f, k + 1, S0, off, cnt0, L0, nf, r, index, h - 1)
  BY <1>2, <1>5, <1>6, <1>7 DEF Going
<1> QED
  BY <1>8 DEF GoesOn

LEMMA RightGoes ==
  ASSUME NEW a, NEW S, NEW par, NEW cnt, NEW L, NEW p, NEW b, NEW e, NEW k, NEW S0, NEW off, NEW cnt0,
         NEW L0, NEW nf, NEW r, NEW index, NEW h,
         Going(a, S, par, cnt, L, p, b, e, k, S0, off, cnt0, L0, nf, r, index, h),
         a.heap[a.n].height = h, Heights(a.heap, cnt, a.n, a.it, h), a.it >= pow2[h - 2],
         NEW z, z = RetractDown(a, h)
  PROVE  GoesOn(z, k + 1, S0, off, cnt0, L0, nf, r, index, h - 1)
<1>1. PICK heap, n, it, ws : heap = a.heap /\ n = a.n /\ it = a.it /\ ws = a.walk_stack
  OBVIOUS
<1>2. /\ WalkIs(a, heap, n, it, ws) /\ Passed(ws, p, b, e, k)
      /\ At(heap, n, it, S, par, off, cnt, L, nf, p, b, index, h)
      /\ p[1] = r /\ Begins(L, L0) /\ Kept(S0, cnt0, S, off, cnt, index)
  BY <1>1 DEF Going
<1>3. PICK ws2, l, rr, x, rest, g, q :
        /\ ws2 = Append(ws, n) /\ l = heap[n].left /\ rr = heap[n].right /\ x = cnt[l]
        /\ rest = it - x /\ g = [heap EXCEPT ![n].dirty = TRUE] /\ q = LongerWalk(p, b, rr)
  OBVIOUS
<1>4. /\ l # Nil /\ x = pow2[h - 2] /\ heap[rr].height <= h - 1 /\ it >= x /\ heap[n].height = h
  BY <1>1, <1>3 DEF Heights
<1>5. WalkIs(z, g, rr, rest, ws2)
  BY <1>2, <1>3, <1>4, GoRightIs
<1>6. /\ z.heap = g /\ z.n = rr /\ z.it = rest /\ z.walk_stack = ws2
      /\ WalkIs(z, z.heap, z.n, z.it, z.walk_stack)
  BY <1>5, WalkFields
<1>7. /\ Cut(heap, S, par, off, cnt, L, nf, p, b) /\ n = p[b + 1] /\ it \in Nat
      /\ off[n] + it = index /\ it < cnt[n]
  BY <1>2 DEF At
<1>8. n \in S /\ n \in Nat /\ b \in Nat
  BY <1>2, AtNode
<1>9. /\ Cut(g, S, par, off, cnt, L, nf, q, b + 1) /\ q[b + 2] = rr
      /\ \A y \in S : g[y].height = heap[y].height
      /\ off[rr] = off[n] + x /\ cnt[n] = x + cnt[rr]
  <2>1. /\ n = p[b + 1] /\ heap[n].left # Nil /\ rr = heap[n].right /\ q = LongerWalk(p, b, rr)
        /\ g = [heap EXCEPT ![n].dirty = TRUE] /\ Cut(heap, S, par, off, cnt, L, nf, p, b)
    BY <1>3, <1>4, <1>7
  <2>2. TurnedRight(g, heap, S, par, off, cnt, L, nf, q, b, n, rr)
    BY <2>1, RightCut
  <2>3. cnt[heap[n].left] = x
    BY <1>3
  <2> QED
    BY <2>2, <2>3 DEF TurnedRight
<1>10. Linked(heap, S, par, p[1]) /\ \A y \in S : off[y] \in Nat /\ cnt[y] \in Nat \ {0}
  BY <1>7, CutParts
<1>11. rr \in S /\ l \in S
  BY <1>3, <1>4, <1>8, <1>10 DEF Linked
<1>12. rest \in Nat /\ off[rr] + rest = index /\ rest < cnt[rr]
  <2>1. PICK o, o2, c, c2 : o = off[n] /\ o2 = off[rr] /\ c = cnt[n] /\ c2 = cnt[rr]
    OBVIOUS
  <2>2. o \in Nat /\ x \in Nat /\ c2 \in Nat /\ it \in Nat /\ it >= x /\ o2 = o + x /\ c = x + c2
        /\ o + it = index /\ it < c /\ rest = it - x
    BY <1>3, <1>4, <1>7, <1>8, <1>9, <1>10, <1>11, <2>1
  <2>3. rest \in Nat /\ o2 + rest = index /\ rest < c2
    BY <2>2
  <2> QED
    BY <2>1, <2>3
<1>13. At(g, rr, rest, S, par, off, cnt, L, nf, q, b + 1, index, h - 1)
  <2>1. (b + 1) + 1 = b + 2
    BY <1>8
  <2>2. g[rr].height <= h - 1
    BY <1>4, <1>9, <1>11
  <2> QED
    BY <1>9, <1>12, <2>1, <2>2 DEF At
<1>14. \A i \in 1 .. b + 1 : q[i] = p[i]
  <2>1. \A i \in 1 .. b + 1 : i \in 1 .. b + 2 /\ i <= b + 1
    BY <1>8
  <2> QED
    BY <1>3, <2>1 DEF LongerWalk
<1>15. PICK f : Passed(ws2, q, b + 1, f, k + 1)
  <2>1. b + 1 \in {b, b + 1}
    OBVIOUS
  <2> QED
    BY <1>2, <1>3, <1>7, <1>8, <1>14, <2>1, PassesOn
<1>16. q[1] = r
  <2>1. 1 \in 1 .. b + 1
    BY <1>8
  <2> QED
    BY <1>2, <1>14, <2>1
<1>17. Going(z, S, par, cnt, L, q, b + 1, f, k + 1, S0, off, cnt0, L0, nf, r, index, h - 1)
  BY <1>2, <1>6, <1>13, <1>15, <1>16 DEF Going
<1> QED
  BY <1>17 DEF GoesOn

(* A left turn: what stays is a prefix that still has the leaf.            *)
LEMMA EliminateKeeps ==
  ASSUME NEW heap, NEW S, NEW par, NEW off, NEW cnt, NEW L, NEW nf, NEW p, NEW b,
         Cut(heap, S, par, off, cnt, L, nf, p, b), NEW n, NEW l, NEW r, NEW R, NEW m,
         TurnsLeft(heap, S, par, off, cnt, L, p, b, n, l, r, R, m),
         NEW index, NEW it \in Nat, off[n] + it = index, it < cnt[l],
         NEW S0, NEW cnt0, Kept(S0, cnt0, S, off, cnt, index),
         NEW cnt2, \A x \in S : x \notin NodesAt(p, b + 1) => cnt2[x] = cnt[x]
  PROVE  Kept(S0, cnt0, CutSet(S, l, R), off, cnt2, index)
<1>1. SUFFICES ASSUME NEW x \in S0, cnt0[x] = 1, off[x] < index
               PROVE  x \in CutSet(S, l, R) /\ cnt2[x] = 1
  BY DEF Kept
<1>2. x \in S /\ cnt[x] = 1
  BY <1>1 DEF Kept
<1>3. /\ n \in S /\ l \in S /\ off[l] = off[n] /\ cnt[l] < cnt[n]
  BY TurnsLeftIs
<1>4. n = p[b + 1] /\ m = off[n] + cnt[l]
  BY DEF TurnsLeft
<1>5. b \in Nat /\ \A y \in S : off[y] \in Nat /\ cnt[y] \in Nat \ {0}
  BY CutParts
<1>6. PICK o, c, d, ox : o = off[n] /\ c = cnt[l] /\ d = cnt[n] /\ ox = off[x]
  OBVIOUS
<1>7. o \in Nat /\ c \in Nat \ {0} /\ d \in Nat \ {0} /\ c < d /\ ox \in Nat /\ ox < index
      /\ o + it = index /\ it < c /\ m = o + c
  BY <1>1, <1>2, <1>3, <1>4, <1>5, <1>6
<1>8. x \notin R
  <2>1. x \in R => off[x] >= m
    BY GoneIs
  <2>2. ~(ox >= m)
    BY <1>7
  <2> QED
    BY <1>6, <2>1, <2>2
<1>9. x # l
  <2>1. x = l => c = 1 /\ ox = o
    BY <1>2, <1>3, <1>6
  <2>2. c = 1 => index = o
    BY <1>7
  <2>3. ox = o => index # o
    BY <1>7
  <2> QED
    BY <2>1, <2>2, <2>3
<1>10. x \notin NodesAt(p, b + 1)
  <2>1. SUFFICES ASSUME NEW i \in 1 .. b + 1, x = p[i] PROVE FALSE
    BY DEF NodesAt
  <2>2. CASE i = b + 1
    <3>1. d = 1
      BY <1>2, <1>4, <1>6, <2>1, <2>2
    <3> QED
      BY <1>7, <3>1
  <2>3. CASE i # b + 1
    <3>1. i < b + 1 /\ b + 1 \in 1 .. b + 1
      BY <1>5, <2>3
    <3>2. cnt[p[b + 1]] < cnt[p[i]]
      BY <3>1, CutOrder
    <3>3. d < 1
      BY <1>2, <1>4, <1>6, <2>1, <3>2
    <3> QED
      BY <1>7, <3>3
  <2> QED
    BY <2>2, <2>3
<1>11. x \in CutSet(S, l, R)
  BY <1>2, <1>8, <1>9 DEF CutSet
<1> QED
  BY <1>2, <1>10, <1>11

LEMMA ShorterBegins ==
  ASSUME NEW L, NEW L0, Begins(L, L0), NEW m \in Nat, m <= Len(L), NEW K, K = SubSeq(L, 1, m)
  PROVE  Shares(K, L, m) /\ Begins(K, L0)
<1>1. /\ L \in Seq(LeafHashes) /\ L0 \in Seq(LeafHashes) /\ Len(L) <= Len(L0)
      /\ \A i \in 1 .. Len(L) : L[i] = L0[i]
  BY DEF Begins
<1>2. PICK len, len0 : len = Len(L) /\ len0 = Len(L0)
  OBVIOUS
<1>3. len \in Nat /\ len0 \in Nat /\ len <= len0 /\ m <= len
  BY <1>1, <1>2
<1>4. K \in Seq(LeafHashes) /\ Len(K) = m /\ \A i \in 1 .. m : K[i] = L[i]
  <2>1. Len(L) = len
    BY <1>2
  <2> QED
    BY <1>1, <1>3, <2>1, PrefixIs
<1>5. m <= len0 /\ \A i \in 1 .. m : i \in 1 .. len
  BY <1>3
<1>6. \A i \in 1 .. m : K[i] = L0[i]
  BY <1>1, <1>2, <1>4, <1>5
<1> QED
  BY <1>1, <1>2, <1>4, <1>5, <1>6 DEF Shares, Begins

LEMMA LeftGoes ==
  ASSUME NEW a, NEW S, NEW par, NEW cnt, NEW L, NEW p, NEW b, NEW e, NEW k, NEW S0, NEW off, NEW cnt0,
         NEW L0, NEW nf, NEW r, NEW index, NEW h,
         Going(a, S, par, cnt, L, p, b, e, k, S0, off, cnt0, L0, nf, r, index, h),
         a.heap[a.n].height = h, Heights(a.heap, cnt, a.n, a.it, h), ~(a.it >= pow2[h - 2]),
         NEW z, z = RetractDown(a, h)
  PROVE  GoesOn(z, k + 1, S0, off, cnt0, L0, nf, r, index, h - 1)
<1>1. PICK heap, n, it, ws : heap = a.heap /\ n = a.n /\ it = a.it /\ ws = a.walk_stack
  OBVIOUS
<1>2. /\ WalkIs(a, heap, n, it, ws) /\ Passed(ws, p, b, e, k)
      /\ At(heap, n, it, S, par, off, cnt, L, nf, p, b, index, h)
      /\ p[1] = r /\ Begins(L, L0) /\ Kept(S0, cnt0, S, off, cnt, index)
  BY <1>1 DEF Going
<1>3. PICK ws2, l, rr, x, g, R, m, K :
        /\ ws2 = Append(ws, n) /\ l = heap[n].left /\ rr = heap[n].right /\ x = cnt[l]
        /\ g = Eliminate(heap, n) /\ R = Subtree(heap, rr) /\ m = off[n] + cnt[l] /\ K = SubSeq(L, 1, m)
  OBVIOUS
<1>4. l # Nil /\ x = pow2[h - 2] /\ heap[l].height <= h - 1 /\ ~(it >= x) /\ heap[n].height = h
  BY <1>1, <1>3 DEF Heights
<1>5. WalkIs(z, g, n, it, ws2)
  BY <1>2, <1>3, <1>4, GoLeftIs
<1>6. /\ z.heap = g /\ z.n = n /\ z.it = it /\ z.walk_stack = ws2
      /\ WalkIs(z, z.heap, z.n, z.it, z.walk_stack)
  BY <1>5, WalkFields
<1>7. /\ Cut(heap, S, par, off, cnt, L, nf, p, b) /\ n = p[b + 1] /\ it \in Nat
      /\ off[n] + it = index /\ it < cnt[n]
  BY <1>2 DEF At
<1>8. n \in S /\ n \in Nat /\ b \in Nat
  BY <1>2, AtNode
<1>9. TurnsLeft(heap, S, par, off, cnt, L, p, b, n, l, rr, R, m)
  BY <1>3, <1>4, <1>7 DEF TurnsLeft
<1>10. l \in S /\ m \in Nat \ {0} /\ m < Len(L)
  BY <1>7, <1>9, TurnsLeftIs
<1>11. it < x
  <2>1. \A y \in S : cnt[y] \in Nat \ {0}
    BY <1>7, CutParts
  <2>2. x \in Nat
    BY <1>3, <1>10, <2>1
  <2> QED
    BY <1>4, <1>7, <2>2
<1>12. Shares(K, L, m) /\ Begins(K, L0)
  <2>1. Len(L) \in Nat
    BY <1>7, CutParts
  <2>2. m \in Nat /\ m <= Len(L)
    BY <1>10, <2>1
  <2> QED
    BY <1>2, <1>3, <2>2, ShorterBegins
<1>13. PICK S2 : S2 = CutSet(S, l, R)
  OBVIOUS
<1>14. IsCut(g, S2, heap, S, par, off, cnt, K, nf, p, b, n, l, R)
  BY <1>3, <1>7, <1>9, <1>12, <1>13, EliminateCut
<1>15. PICK par2, cnt2 :
    /\ Cut(g, S2, par2, off, cnt2, K, nf, p, b) /\ cnt2[n] = cnt[l]
    /\ g[n].height = heap[l].height
    /\ \A y \in S : y \notin NodesAt(p, b + 1) => cnt2[y] = cnt[y]
  BY <1>14 DEF IsCut
<1>16. Kept(S0, cnt0, S2, off, cnt2, index)
  <2>1. it < cnt[l]
    BY <1>3, <1>11
  <2>2. \A y \in S : y \notin NodesAt(p, b + 1) => cnt2[y] = cnt[y]
    BY <1>15
  <2>3. Kept(S0, cnt0, S, off, cnt, index)
    BY <1>2
  <2> QED
    BY <1>7, <1>9, <1>13, <2>1, <2>2, <2>3, EliminateKeeps
<1>17. At(g, n, it, S2, par2, off, cnt2, K, nf, p, b, index, h - 1)
  BY <1>3, <1>4, <1>7, <1>11, <1>15 DEF At
<1>18. PICK f : Passed(ws2, p, b, f, k + 1)
  <2>1. b \in {b, b + 1}
    OBVIOUS
  <2> QED
    BY <1>2, <1>3, <1>7, <1>8, <2>1, PassesOn
<1>19. Going(z, S2, par2, cnt2, K, p, b, f, k + 1, S0, off, cnt0, L0, nf, r, index, h - 1)
  BY <1>2, <1>6, <1>12, <1>16, <1>17, <1>18 DEF Going
<1> QED
  BY <1>19 DEF GoesOn

LEMMA RetractGoes ==
  ASSUME NEW a, NEW k, NEW S0, NEW off, NEW cnt0, NEW L0, NEW nf \in Nat, NEW r, NEW index \in Nat, nf <= index,
         NEW h \in Nat, h >= 2, GoesOn(a, k, S0, off, cnt0, L0, nf, r, index, h),
         NEW z, z = RetractDown(a, h)
  PROVE  GoesOn(z, k + 1, S0, off, cnt0, L0, nf, r, index, h - 1)
<1>1. PICK S, par, cnt, L, p, b, e : Going(a, S, par, cnt, L, p, b, e, k, S0, off, cnt0, L0, nf, r, index, h)
  BY DEF GoesOn
<1>2. PICK heap, n, it : heap = a.heap /\ n = a.n /\ it = a.it
  OBVIOUS
<1>3. /\ Cut(heap, S, par, off, cnt, L, nf, p, b)
      /\ n = p[b + 1] /\ it \in Nat /\ off[n] + it = index /\ it < cnt[n] /\ heap[n].height <= h
  BY <1>1, <1>2 DEF Going, At
<1>4. Heights(heap, cnt, n, it, h)
  BY <1>3, HeightsIs
<1>5. CASE heap[n].height # h
  <2>1. heap[n].height <= h - 1 /\ ~(it >= pow2[h - 2])
    BY <1>4, <1>5 DEF Heights
  <2> QED
    BY <1>1, <1>2, <1>5, <2>1, SkipGoes
<1>6. CASE heap[n].height = h /\ it >= pow2[h - 2]
  <2>1. a.heap[a.n].height = h /\ Heights(a.heap, cnt, a.n, a.it, h) /\ a.it >= pow2[h - 2]
    BY <1>2, <1>4, <1>6
  <2> QED
    BY <1>1, <2>1, RightGoes
<1>7. CASE heap[n].height = h /\ ~(it >= pow2[h - 2])
  <2>1. a.heap[a.n].height = h /\ Heights(a.heap, cnt, a.n, a.it, h) /\ ~(a.it >= pow2[h - 2])
    BY <1>2, <1>4, <1>7
  <2> QED
    BY <1>1, <2>1, LeftGoes
<1> QED
  BY <1>5, <1>6, <1>7

-----------------------------------------------------------------------------
(* The walk of retract_to()                                                *)
RetractTable(t0, h, m, at) ==
  at = [k \in 0 .. m |-> IF k = 0 THEN t0 ELSE RetractDown(at[k - 1], h - k + 1)]

LEMMA RetractExists ==
  ASSUME NEW t0, NEW h, NEW m \in Nat
  PROVE  \E at : RetractTable(t0, h, m, at)
<1> DEFINE T == {k \in Nat : \E at : RetractTable(t0, h, k, at)}
<1>1. 0 \in T
  <2> DEFINE f == [k \in 0 .. 0 |-> t0]
  <2>1. f = [k \in 0 .. 0 |-> IF k = 0 THEN t0 ELSE RetractDown(f[k - 1], h - k + 1)]
    OBVIOUS
  <2> HIDE DEF f
  <2>2. RetractTable(t0, h, 0, f)
    BY <2>1 DEF RetractTable
  <2> QED
    BY <2>2
<1>2. ASSUME NEW k \in Nat, k \in T PROVE k + 1 \in T
  <2>1. PICK f : RetractTable(t0, h, k, f)
    BY <1>2
  <2> DEFINE g == [j \in 0 .. k + 1 |-> IF j = k + 1 THEN RetractDown(f[k], h - j + 1) ELSE f[j]]
  <2>2. \A j \in 0 .. k : f[j] = IF j = 0 THEN t0 ELSE RetractDown(f[j - 1], h - j + 1)
    BY <2>1 DEF RetractTable
  <2>3. g[k + 1] = RetractDown(f[k], h - (k + 1) + 1) /\ \A j \in 0 .. k : g[j] = f[j]
    OBVIOUS
  <2>4. ASSUME NEW j \in 0 .. k + 1 PROVE g[j] = IF j = 0 THEN t0 ELSE RetractDown(g[j - 1], h - j + 1)
    <3> HIDE DEF g
    <3>1. CASE j = k + 1
      <4>1. j # 0 /\ j - 1 = k /\ k \in 0 .. k
        BY <3>1
      <4> QED
        BY <2>3, <3>1, <4>1
    <3>2. CASE j # k + 1
      <4>1. j \in 0 .. k /\ (j # 0 => j - 1 \in 0 .. k)
        BY <3>2
      <4> QED
        BY <2>2, <2>3, <4>1
    <3> QED
      BY <3>1, <3>2
  <2>5. g = [j \in 0 .. k + 1 |-> g[j]]
    OBVIOUS
  <2> HIDE DEF g
  <2>6. g = [j \in 0 .. k + 1 |-> IF j = 0 THEN t0 ELSE RetractDown(g[j - 1], h - j + 1)]
    BY <2>4, <2>5
  <2>7. RetractTable(t0, h, k + 1, g)
    BY <2>6 DEF RetractTable
  <2> QED
    BY <2>7
<1> HIDE DEF T
<1>3. Nat \subseteq T
  BY <1>1, <1>2, SetInduction
<1> QED
  BY <1>3 DEF T

LEMMA RetractStarts ==
  ASSUME NEW heap, NEW S, NEW par, NEW off, NEW cnt, NEW L \in Seq(LeafHashes), NEW nf, NEW r,
         Good(heap, S, par, off, cnt, r, L, nf, {}), DOMAIN heap = S,
         NEW index \in Nat, index < Len(L), NEW h, h = heap[r].height,
         NEW z, NEW ws, ws = <<>>, WalkIs(z, heap, r, index, ws)
  PROVE  h \in Nat \ {0} /\ GoesOn(z, 0, S, off, cnt, L, nf, r, index, h)
<1>1. PICK p, len, b : p = <<r>> /\ len = Len(L) /\ b = 0
  OBVIOUS
<1>2. /\ p[1] = r /\ b \in Nat /\ 1 .. b = {} /\ b + 1 = 1 /\ 1 .. b + 1 = {1} /\ 1 \in 1 .. b + 1
      /\ len \in Nat /\ index < len
  BY <1>1
<1>3. NodesAt(p, b) = {}
  BY <1>2 DEF NodesAt
<1>4. /\ r \in S /\ off[r] = 0 /\ cnt[r] = len /\ Measured(heap, S, cnt, {})
  BY <1>1 DEF Good, Linked, Fits
<1>5. off[r] + cnt[r] = len /\ off[r] + index = index
  BY <1>2, <1>4
<1>6. Edge(heap, S, off, cnt, Len(L), p, b)
  <2>1. \A i \in 1 .. b + 1 : p[i] \in S /\ off[p[i]] + cnt[p[i]] = Len(L)
    BY <1>1, <1>2, <1>4, <1>5
  <2>2. \A i \in 1 .. b + 1 : \A j \in 1 .. b + 1 : ~(i < j)
    BY <1>2
  <2> QED
    BY <1>2, <2>1, <2>2 DEF Edge
<1>7. Cut(heap, S, par, off, cnt, L, nf, p, b)
  <2>1. Good(heap, S, par, off, cnt, p[1], L, nf, NodesAt(p, b))
    BY <1>2, <1>3
  <2>2. Len(L) \in Nat
    BY <1>1, <1>2
  <2> QED
    BY <1>2, <1>6, <2>1, <2>2 DEF Cut
<1>8. HeightIs(h, cnt[r])
  BY <1>4 DEF Measured
<1>9. h \in Nat \ {0}
  BY <1>8 DEF HeightIs
<1>10. /\ z.heap = heap /\ z.n = r /\ z.it = index /\ z.walk_stack = ws
       /\ WalkIs(z, z.heap, z.n, z.it, z.walk_stack)
  BY WalkFields
<1>11. At(heap, r, index, S, par, off, cnt, L, nf, p, b, index, h)
  <2>1. h <= h
    BY <1>9
  <2>2. r = p[b + 1]
    BY <1>2
  <2>3. index < cnt[r]
    BY <1>2, <1>4
  <2> QED
    BY <1>5, <1>7, <2>1, <2>2, <2>3 DEF At
<1>12. Begins(L, L)
  <2>1. Len(L) <= Len(L)
    BY <1>1, <1>2
  <2> QED
    BY <2>1 DEF Begins
<1>13. Kept(S, cnt, S, off, cnt, index)
  BY DEF Kept
<1>14. PICK e : e = <<1>>
  OBVIOUS
<1>15. Passed(ws, p, b, e, 0)
  <2>1. ws \in Seq(Nat) /\ Len(ws) = 0 /\ 0 \in Nat /\ 1 .. 0 = {} /\ 0 + 1 = 1 /\ e[1] = 1 /\ 1 .. 0 + 1 = {1}
    BY <1>14
  <2>2. e[0 + 1] = b + 1
    BY <1>2, <2>1
  <2>3. \A j \in 1 .. 0 + 1 : e[j] \in 1 .. b + 1
    BY <1>2, <2>1
  <2> QED
    BY <1>2, <2>1, <2>2, <2>3 DEF Passed
<1>16. Going(z, S, par, cnt, L, p, b, e, 0, S, off, cnt, L, nf, r, index, h)
  BY <1>2, <1>10, <1>11, <1>12, <1>13, <1>15 DEF Going
<1> QED
  BY <1>9, <1>16 DEF GoesOn

LEMMA RetractRuns ==
  ASSUME NEW z0, NEW S0, NEW off, NEW cnt0, NEW L0, NEW nf \in Nat, NEW r, NEW index \in Nat, nf <= index,
         NEW h \in Nat \ {0}, GoesOn(z0, 0, S0, off, cnt0, L0, nf, r, index, h),
         NEW m, m = h - 1, NEW at, RetractTable(z0, h, m, at)
  PROVE  GoesOn(at[m], m, S0, off, cnt0, L0, nf, r, index, 1)
<1>1. m \in Nat /\ h - m = 1
  OBVIOUS
<1>2. at[0] = z0 /\ \A k \in 1 .. m : at[k] = RetractDown(at[k - 1], h - k + 1)
  BY <1>1 DEF RetractTable
<1> DEFINE T == {k \in Nat : k <= m => GoesOn(at[k], k, S0, off, cnt0, L0, nf, r, index, h - k)}
<1>3. 0 \in T
  <2>1. h - 0 = h
    OBVIOUS
  <2> QED
    BY <1>2, <2>1
<1>4. ASSUME NEW k \in Nat, k \in T PROVE k + 1 \in T
  <2>1. SUFFICES ASSUME k + 1 <= m
                 PROVE  GoesOn(at[k + 1], k + 1, S0, off, cnt0, L0, nf, r, index, h - (k + 1))
    OBVIOUS
  <2>2. k <= m
    BY <1>1, <2>1
  <2>3. GoesOn(at[k], k, S0, off, cnt0, L0, nf, r, index, h - k)
    BY <1>4, <2>2
  <2> HIDE DEF T
  <2>4. PICK g : g = h - k
    OBVIOUS
  <2>5. g \in Nat /\ g >= 2 /\ g - 1 = h - (k + 1) /\ h - (k + 1) + 1 = g /\ k + 1 \in 1 .. m /\ (k + 1) - 1 = k
    BY <1>1, <2>1, <2>4
  <2>6. PICK a, z : a = at[k] /\ z = at[k + 1]
    OBVIOUS
  <2>7. z = RetractDown(a, g)
    BY <1>2, <2>5, <2>6
  <2>8. GoesOn(a, k, S0, off, cnt0, L0, nf, r, index, g)
    BY <2>3, <2>4, <2>6
  <2>9. GoesOn(z, k + 1, S0, off, cnt0, L0, nf, r, index, g - 1)
    BY <2>5, <2>7, <2>8, RetractGoes
  <2> QED
    BY <2>5, <2>6, <2>9
<1> HIDE DEF T
<1>5. Nat \subseteq T
  BY <1>3, <1>4, SetInduction
<1>6. m <= m
  BY <1>1
<1>7. GoesOn(at[m], m, S0, off, cnt0, L0, nf, r, index, h - m)
  BY <1>1, <1>5, <1>6 DEF T
<1> QED
  BY <1>1, <1>7

(* The walk ends at the leaf, with as many leaves left as there should be. *)
LEMMA RetractEnds ==
  ASSUME NEW heap, NEW n, NEW it, NEW S, NEW par, NEW off, NEW cnt, NEW L, NEW nf, NEW p, NEW b, NEW index \in Nat,
         At(heap, n, it, S, par, off, cnt, L, nf, p, b, index, 1)
  PROVE  n \in S /\ cnt[n] = 1 /\ off[n] = index /\ Len(L) = index + 1 /\ heap[n].left = Nil
         /\ heap[n].right = Nil /\ heap[n].size = 1 /\ heap[n].height = 1
<1>1. /\ Cut(heap, S, par, off, cnt, L, nf, p, b)
      /\ n = p[b + 1] /\ it \in Nat /\ off[n] + it = index /\ it < cnt[n] /\ heap[n].height <= 1
  BY DEF At
<1>2. n \in S /\ b \in Nat
  BY AtNode
<1>3. /\ Linked(heap, S, par, p[1]) /\ Nil \notin S /\ Spans(heap, S, off, cnt, Nil, nf)
      /\ Measured(heap, S, cnt, NodesAt(p, b)) /\ Edge(heap, S, off, cnt, Len(L), p, b)
      /\ \A x \in S : off[x] \in Nat /\ cnt[x] \in Nat \ {0}
  BY <1>1, CutParts
<1>4. b + 1 \in 1 .. b + 1 /\ \A i \in 1 .. b : i \in 1 .. b + 1 /\ i < b + 1
  BY <1>2
<1>5. n \notin NodesAt(p, b)
  <2>1. \A i \in 1 .. b : p[i] # p[b + 1]
    BY <1>1, <1>4, CutOrder
  <2> QED
    BY <1>1, <2>1 DEF NodesAt
<1>6. PICK c, o, g, s, len : c = cnt[n] /\ o = off[n] /\ g = heap[n].height /\ s = heap[n].size /\ len = Len(L)
  OBVIOUS
<1>7. HeightIs(g, c) /\ c \in Nat \ {0} /\ o \in Nat /\ s = 2 * c - 1
  BY <1>2, <1>3, <1>5, <1>6 DEF Measured
<1>8. g \in Nat \ {0} /\ g <= 1 /\ c <= pow2[g - 1]
  BY <1>1, <1>6, <1>7 DEF HeightIs
<1>9. g = 1 /\ g - 1 = 0
  BY <1>8
<1>10. c = 1
  <2>1. c <= pow2[0] /\ pow2[0] = 1
    BY <1>8, <1>9, Pow2Step
  <2> QED
    BY <1>7, <2>1
<1>11. it = 0
  BY <1>1, <1>6, <1>10
<1>12. o = index
  <2>1. o + it = index
    BY <1>1, <1>6
  <2> QED
    BY <1>7, <1>11, <2>1
<1>13. len = index + 1
  <2>1. o + c = len
    BY <1>1, <1>3, <1>4, <1>6 DEF Edge
  <2> QED
    BY <1>10, <1>12, <2>1
<1>14. heap[n].left = Nil
  <2>1. SUFFICES ASSUME heap[n].left # Nil PROVE FALSE
    OBVIOUS
  <2>2. PICK l, rr : l = heap[n].left /\ rr = heap[n].right
    OBVIOUS
  <2>3. l \in S /\ rr \in S /\ n # Nil
    BY <1>2, <1>3, <2>1, <2>2 DEF Linked
  <2>4. c = cnt[l] + cnt[rr]
    BY <1>2, <1>3, <1>6, <2>1, <2>2, <2>3 DEF Spans
  <2>5. cnt[l] \in Nat \ {0} /\ cnt[rr] \in Nat \ {0}
    BY <1>3, <2>3
  <2> QED
    BY <1>10, <2>4, <2>5
<1>15. heap[n].right = Nil
  BY <1>2, <1>3, <1>14 DEF Linked
<1>16. s = 1
  BY <1>7, <1>10
<1> QED
  BY <1>2, <1>6, <1>9, <1>10, <1>12, <1>13, <1>14, <1>15, <1>16

-----------------------------------------------------------------------------
(* update_sizes() along the walk                                           *)
LEMMA UpdateLeafGood ==
  ASSUME NEW heap, NEW S, NEW par, NEW off, NEW cnt, NEW top, NEW L, NEW nf, NEW stale,
         Good(heap, S, par, off, cnt, top, L, nf, stale),
         NEW x \in S, heap[x].left = Nil, cnt[x] = 1, NEW g, g = UpdateSizes(heap, x)
  PROVE  Good(g, S, par, off, cnt, top, L, nf, stale) /\ SameTree(g, heap)
<1>1. Heap(heap) /\ Linked(heap, S, par, top) /\ Measured(heap, S, cnt, stale)
  BY DEF Good
<1>2. x \in DOMAIN heap /\ IsNode(heap[x]) /\ S \subseteq DOMAIN heap
  BY <1>1 DEF Linked, Heap
<1>3. PICK z, y, k, h : z = heap[x] /\ y = Sized(heap, z) /\ k = 1 /\ h = 1
  OBVIOUS
<1>4. k \in Nat /\ h \in Nat /\ IsNode(z)
  BY <1>2, <1>3
<1>5. y = [z EXCEPT !.size = k, !.height = h]
  BY <1>3 DEF Sized
<1>6. IsNode(y) /\ y.left = z.left /\ y.right = z.right /\ y.size = k
      /\ y.height = h /\ y.hash = z.hash /\ y.dirty = z.dirty
  BY <1>4, <1>5 DEF IsNode
<1>7. g = [n \in DOMAIN heap |-> IF n = x THEN y ELSE heap[n]]
  <2>1. g = [heap EXCEPT ![x] = y]
    BY <1>3 DEF UpdateSizes
  <2>2. heap = [n \in DOMAIN heap |-> heap[n]]
    BY <1>1 DEF Heap
  <2> QED
    BY <2>1, <2>2
<1>8. DOMAIN g = DOMAIN heap /\ g[x] = y /\ \A n \in DOMAIN heap : n # x => g[n] = heap[n]
  BY <1>2, <1>7
<1>9. Heap(g)
  BY <1>1, <1>6, <1>7, <1>8 DEF Heap
<1>10. SameTree(g, heap)
  BY <1>3, <1>6, <1>8 DEF SameTree, SameLinks
<1>11. Measured(g, S, cnt, stale)
  <2>1. SUFFICES ASSUME NEW n \in S, n \notin stale
                 PROVE  g[n].size = 2 * cnt[n] - 1 /\ HeightIs(g[n].height, cnt[n])
    BY DEF Measured
  <2>2. CASE n = x
    <3>1. g[n].size = 1 /\ g[n].height = 1 /\ cnt[n] = 1
      BY <1>3, <1>6, <1>8, <2>2
    <3> QED
      BY <3>1, LeafHeight
  <2>3. CASE n # x
    <3>1. g[n] = heap[n]
      BY <1>2, <1>8, <2>3
    <3> QED
      BY <1>1, <2>1, <3>1 DEF Measured
  <2> QED
    BY <2>2, <2>3
<1>12. Good(g, S, par, off, cnt, top, L, nf, stale)
  BY <1>9, <1>10, <1>11, SizedGood
<1> QED
  BY <1>10, <1>12

LEMMA UpdateStep ==
  ASSUME NEW heap, NEW S, NEW par, NEW off, NEW cnt, NEW L, NEW nf, NEW p, NEW b,
         Cut(heap, S, par, off, cnt, L, nf, p, b), NEW n, n = p[b + 1], n \in S, heap[n].left = Nil, cnt[n] = 1,
         NEW i \in 1 .. b + 1, NEW s \in 1 .. b + 1, s \in {i, i + 1},
         NEW f, Good(f, S, par, off, cnt, p[1], L, nf, NodesAt(p, s - 1)), SameTree(f, heap),
         NEW g, g = UpdateSizes(f, p[i])
  PROVE  Good(g, S, par, off, cnt, p[1], L, nf, NodesAt(p, i - 1)) /\ SameTree(g, heap)
<1>1. b \in Nat /\ DOMAIN heap = S
  BY DEF Cut
<1>2. PICK x : x = p[i]
  OBVIOUS
<1>3. \A y \in S : f[y].left = heap[y].left /\ f[y].right = heap[y].right
  BY <1>1 DEF SameTree, SameLinks
<1>4. CASE i = b + 1
  <2>1. s - 1 = i - 1 /\ x = n
    BY <1>1, <1>2, <1>4
  <2>2. f[x].left = Nil /\ x \in S /\ cnt[x] = 1 /\ g = UpdateSizes(f, x)
    BY <1>2, <1>3, <2>1
  <2>3. Good(f, S, par, off, cnt, p[1], L, nf, NodesAt(p, i - 1))
    BY <2>1
  <2>4. Good(g, S, par, off, cnt, p[1], L, nf, NodesAt(p, i - 1)) /\ SameTree(g, f)
    BY <2>2, <2>3, UpdateLeafGood
  <2> QED
    BY <2>4 DEF SameTree, SameLinks
<1>5. CASE i # b + 1
  <2>1. i \in 1 .. b /\ i + 1 \in 1 .. b + 1
    BY <1>1, <1>5
  <2>2. x \in S /\ heap[x].left # Nil /\ heap[x].right = p[i + 1]
    BY <1>2, <2>1, CutAbove
  <2>3. \A j \in 1 .. s - 1 : j \in 1 .. b + 1 /\ j < i + 1 /\ (j = i \/ j \in 1 .. i - 1)
    BY <1>1
  <2>4. PICK stale, rest : stale = NodesAt(p, s - 1) /\ rest = NodesAt(p, i - 1)
    OBVIOUS
  <2>5. heap[x].left \notin stale
    <3>1. heap[x].left \notin NodesAt(p, b + 1)
      BY <2>2, CutChildren
    <3> QED
      BY <2>3, <2>4, <3>1 DEF NodesAt
  <2>6. heap[x].right \notin stale
    <3>1. \A j \in 1 .. s - 1 : p[j] # p[i + 1]
      BY <2>1, <2>3, CutOrder
    <3> QED
      BY <2>2, <2>4, <3>1 DEF NodesAt
  <2>7. \A y \in S : y \in stale => y = x \/ y \in rest
    BY <1>2, <2>3, <2>4 DEF NodesAt
  <2>8. f[x].left # Nil /\ f[x].left \notin stale /\ f[x].right \notin stale
    BY <1>3, <2>2, <2>5, <2>6
  <2>9. Good(f, S, par, off, cnt, p[1], L, nf, stale) /\ g = UpdateSizes(f, x)
    BY <1>2, <2>4
  <2>10. Good(g, S, par, off, cnt, p[1], L, nf, rest) /\ SameTree(g, f)
    BY <2>2, <2>7, <2>8, <2>9, UpdateSizesGood
  <2>11. SameTree(g, heap)
    BY <2>10 DEF SameTree, SameLinks
  <2> QED
    BY <2>4, <2>10, <2>11
<1> QED
  BY <1>4, <1>5

(* The table of the first j updates of a walk of k elements.               *)
UpdatedUpTo(heap, ws, k, m, f) ==
  f = [j \in 0 .. m |-> IF j = 0 THEN heap ELSE UpdateSizes(f[j - 1], ws[k + 1 - j])]

LEMMA UpdatedExists ==
  ASSUME NEW heap, NEW ws, NEW k, NEW m \in Nat
  PROVE  \E f : UpdatedUpTo(heap, ws, k, m, f)
<1> DEFINE T == {i \in Nat : \E f : UpdatedUpTo(heap, ws, k, i, f)}
<1>1. 0 \in T
  <2> DEFINE f == [j \in 0 .. 0 |-> heap]
  <2>1. f = [j \in 0 .. 0 |-> IF j = 0 THEN heap ELSE UpdateSizes(f[j - 1], ws[k + 1 - j])]
    OBVIOUS
  <2> HIDE DEF f
  <2>2. UpdatedUpTo(heap, ws, k, 0, f)
    BY <2>1 DEF UpdatedUpTo
  <2> QED
    BY <2>2
<1>2. ASSUME NEW i \in Nat, i \in T PROVE i + 1 \in T
  <2>1. PICK f : UpdatedUpTo(heap, ws, k, i, f)
    BY <1>2
  <2> DEFINE g == [j \in 0 .. i + 1 |-> IF j = i + 1 THEN UpdateSizes(f[i], ws[k + 1 - j]) ELSE f[j]]
  <2>2. \A j \in 0 .. i : f[j] = IF j = 0 THEN heap ELSE UpdateSizes(f[j - 1], ws[k + 1 - j])
    BY <2>1 DEF UpdatedUpTo
  <2>3. g[i + 1] = UpdateSizes(f[i], ws[k + 1 - (i + 1)]) /\ \A j \in 0 .. i : g[j] = f[j]
    OBVIOUS
  <2>4. ASSUME NEW j \in 0 .. i + 1 PROVE g[j] = IF j = 0 THEN heap ELSE UpdateSizes(g[j - 1], ws[k + 1 - j])
    <3> HIDE DEF g
    <3>1. CASE j = i + 1
      <4>1. j # 0 /\ j - 1 = i /\ i \in 0 .. i
        BY <3>1
      <4> QED
        BY <2>3, <3>1, <4>1
    <3>2. CASE j # i + 1
      <4>1. j \in 0 .. i /\ (j # 0 => j - 1 \in 0 .. i)
        BY <3>2
      <4> QED
        BY <2>2, <2>3, <4>1
    <3> QED
      BY <3>1, <3>2
  <2>5. g = [j \in 0 .. i + 1 |-> g[j]]
    OBVIOUS
  <2> HIDE DEF g
  <2>6. g = [j \in 0 .. i + 1 |-> IF j = 0 THEN heap ELSE UpdateSizes(g[j - 1], ws[k + 1 - j])]
    BY <2>4, <2>5
  <2>7. UpdatedUpTo(heap, ws, k, i + 1, g)
    BY <2>6 DEF UpdatedUpTo
  <2> QED
    BY <2>7
<1> HIDE DEF T
<1>3. Nat \subseteq T
  BY <1>1, <1>2, SetInduction
<1> QED
  BY <1>3 DEF T

LEMMA UpdateWalkedGood ==
  ASSUME NEW heap, NEW S, NEW par, NEW off, NEW cnt, NEW L, NEW nf, NEW p, NEW b,
         Cut(heap, S, par, off, cnt, L, nf, p, b), NEW n, n = p[b + 1], n \in S, heap[n].left = Nil, cnt[n] = 1,
         NEW ws, NEW e, NEW k, Passed(ws, p, b, e, k), NEW g, g = UpdateWalked(heap, ws)
  PROVE  Good(g, S, par, off, cnt, p[1], L, nf, {}) /\ SameTree(g, heap)
<1>1. /\ k \in Nat /\ Len(ws) = k /\ b \in Nat
      /\ e[1] = 1 /\ e[k + 1] = b + 1
      /\ \A j \in 1 .. k + 1 : e[j] \in 1 .. b + 1
      /\ \A j \in 1 .. k : ws[j] = p[e[j]] /\ e[j + 1] \in {e[j], e[j] + 1}
  BY DEF Passed
<1>2. PICK f : f = CHOOSE u : UpdatedUpTo(heap, ws, Len(ws), Len(ws), u)
  OBVIOUS
<1>3. g = f[k]
  <2>1. g = f[Len(ws)]
    BY <1>2 DEF UpdateWalked, UpdatedUpTo
  <2> QED
    BY <1>1, <2>1
<1>4. UpdatedUpTo(heap, ws, k, k, f)
  <2>1. \E u : UpdatedUpTo(heap, ws, Len(ws), Len(ws), u)
    BY <1>1, UpdatedExists
  <2>2. UpdatedUpTo(heap, ws, Len(ws), Len(ws), f)
    BY <1>2, <2>1
  <2> QED
    BY <1>1, <2>2
<1>5. f[0] = heap /\ \A j \in 1 .. k : f[j] = UpdateSizes(f[j - 1], ws[k + 1 - j])
  BY <1>1, <1>4 DEF UpdatedUpTo
<1> DEFINE Fine(j) == /\ Good(f[j], S, par, off, cnt, p[1], L, nf, NodesAt(p, e[k + 1 - j] - 1))
                      /\ SameTree(f[j], heap)
           T == {j \in Nat : j <= k => Fine(j)}
<1>6. 0 \in T
  <2>1. e[k + 1 - 0] - 1 = b
    BY <1>1
  <2>2. Good(heap, S, par, off, cnt, p[1], L, nf, NodesAt(p, b))
    BY DEF Cut
  <2>3. SameTree(heap, heap)
    BY DEF SameTree, SameLinks
  <2> QED
    BY <1>5, <2>1, <2>2, <2>3
<1>7. ASSUME NEW j \in Nat, j \in T PROVE j + 1 \in T
  <2>1. SUFFICES ASSUME j + 1 <= k PROVE Fine(j + 1)
    OBVIOUS
  <2>2. j <= k
    BY <1>1, <2>1
  <2>3. Fine(j)
    BY <1>7, <2>2
  <2>4. PICK m : m = k - j
    OBVIOUS
  <2>5. m \in 1 .. k /\ k + 1 - j = m + 1 /\ k + 1 - (j + 1) = m /\ j + 1 \in 1 .. k /\ (j + 1) - 1 = j
        /\ m \in 1 .. k + 1 /\ m + 1 \in 1 .. k + 1
    BY <1>1, <2>1, <2>4
  <2>6. PICK i, s, f0, f1 : i = e[m] /\ s = e[m + 1] /\ f0 = f[j] /\ f1 = f[j + 1]
    OBVIOUS
  <2>7. i \in 1 .. b + 1 /\ s \in 1 .. b + 1 /\ s \in {i, i + 1} /\ ws[m] = p[i]
    BY <1>1, <2>5, <2>6
  <2>8. f1 = UpdateSizes(f0, p[i])
    BY <1>5, <2>5, <2>6, <2>7
  <2>9. Good(f0, S, par, off, cnt, p[1], L, nf, NodesAt(p, s - 1)) /\ SameTree(f0, heap)
    BY <2>3, <2>5, <2>6
  <2> HIDE DEF T, Fine
  <2>10. Good(f1, S, par, off, cnt, p[1], L, nf, NodesAt(p, i - 1)) /\ SameTree(f1, heap)
    BY <2>7, <2>8, <2>9, UpdateStep
  <2> QED
    BY <2>5, <2>6, <2>10 DEF Fine
<1> HIDE DEF T
<1>8. Nat \subseteq T
  BY <1>6, <1>7, SetInduction
<1>9. Fine(k)
  <2>1. k <= k
    BY <1>1
  <2> QED
    BY <1>1, <1>8, <2>1 DEF T
<1>10. NodesAt(p, e[k + 1 - k] - 1) = {}
  <2>1. e[k + 1 - k] - 1 = 0
    BY <1>1
  <2>2. NodesAt(p, 0) = {}
    BY DEF NodesAt
  <2> QED
    BY <2>1, <2>2
<1> QED
  BY <1>3, <1>9, <1>10

-----------------------------------------------------------------------------
(* retract_to() an index of a leaf in the tree                             *)
(* What the walk leaves: a tree of the leaves c, one of them walk.leaf.    *)
Retreats(walk, S, cnt, S2, par2, cnt2, off, c, r, leaves, nf, index) ==
  /\ Good(walk.heap, S2, par2, off, cnt2, r, c, nf, {}) /\ DOMAIN walk.heap = S2
  /\ walk.leaf \in S2 /\ off[walk.leaf] = index /\ cnt2[walk.leaf] = 1
  /\ Kept(S, cnt, S2, off, cnt2, index)
  /\ Begins(c, leaves) /\ Len(c) = index + 1

LEMMA RetractWalkIs ==
  ASSUME NEW t, NEW S, NEW par, NEW off, NEW cnt, NEW leaves \in Seq(LeafHashes), NEW nf \in Nat, NEW r,
         r = t.root, Good(t.heap, S, par, off, cnt, r, leaves, nf, {}), DOMAIN t.heap = S,
         NEW index \in Nat, nf <= index, index < Len(leaves), NEW walk, walk = RetractWalk(t, index)
  PROVE  \E S2, par2, cnt2, c : Retreats(walk, S, cnt, S2, par2, cnt2, off, c, r, leaves, nf, index)
<1>1. PICK heap, h, ws, z0 : /\ heap = t.heap /\ h = heap[r].height /\ ws = <<>>
                             /\ z0 = [heap |-> heap, n |-> r, it |-> index, walk_stack |-> ws]
  OBVIOUS
<1>2. Good(heap, S, par, off, cnt, r, leaves, nf, {}) /\ DOMAIN heap = S
  BY <1>1
<1>3. WalkIs(z0, heap, r, index, ws)
  BY <1>1 DEF WalkIs
<1>4. h \in Nat \ {0} /\ GoesOn(z0, 0, S, off, cnt, leaves, nf, r, index, h)
  <2>1. h = heap[r].height /\ ws = <<>>
    BY <1>1
  <2> QED
    BY <1>2, <1>3, <2>1, RetractStarts
<1>5. PICK m : m = h - 1
  OBVIOUS
<1>6. PICK at : at = CHOOSE f : RetractTable(z0, h, m, f)
  OBVIOUS
<1>7. m \in Nat
  BY <1>4, <1>5
<1>8. RetractTable(z0, h, m, at)
  BY <1>6, <1>7, RetractExists
<1>9. PICK end : end = at[m]
  OBVIOUS
<1>10. walk = [heap |-> UpdateWalked(end.heap, end.walk_stack), leaf |-> end.n]
  BY ZenonT(30), <1>1, <1>5, <1>6, <1>9 DEF RetractWalk, RetractTable
<1>11. GoesOn(end, m, S, off, cnt, leaves, nf, r, index, 1)
  BY <1>4, <1>5, <1>8, <1>9, RetractRuns
<1>12. PICK S2, par2, cnt2, c, p, b, e : Going(end, S2, par2, cnt2, c, p, b, e, m, S, off, cnt, leaves, nf, r, index, 1)
  BY <1>11 DEF GoesOn
<1>13. PICK g, n, it, st : g = end.heap /\ n = end.n /\ it = end.it /\ st = end.walk_stack
  OBVIOUS
<1>14. /\ At(g, n, it, S2, par2, off, cnt2, c, nf, p, b, index, 1)
       /\ p[1] = r /\ Begins(c, leaves) /\ Kept(S, cnt, S2, off, cnt2, index)
       /\ Passed(st, p, b, e, m)
  BY <1>12, <1>13 DEF Going
<1>15. n \in S2 /\ cnt2[n] = 1 /\ off[n] = index /\ Len(c) = index + 1 /\ g[n].left = Nil
  BY <1>14, RetractEnds
<1>16. Cut(g, S2, par2, off, cnt2, c, nf, p, b) /\ n = p[b + 1]
  BY <1>14 DEF At
<1>17. PICK k : k = UpdateWalked(g, st)
  OBVIOUS
<1>18. Good(k, S2, par2, off, cnt2, p[1], c, nf, {}) /\ SameTree(k, g)
  BY <1>14, <1>15, <1>16, <1>17, UpdateWalkedGood
<1>19. walk.heap = k /\ walk.leaf = n
  BY <1>10, <1>13, <1>17
<1>20. DOMAIN k = S2
  BY <1>16, <1>18 DEF Cut, SameTree, SameLinks
<1>21. Retreats(walk, S, cnt, S2, par2, cnt2, off, c, r, leaves, nf, index)
  BY <1>14, <1>15, <1>18, <1>19, <1>20 DEF Retreats
<1> QED
  BY <1>21

(* The first k of the nodes, with the last of them replaced.               *)
LEMMA ReplacedIs ==
  ASSUME NEW s \in Seq(Nat), NEW n, Len(s) = n, NEW k \in Nat, k >= 1, k <= n, NEW x \in Nat,
         NEW sub, sub = SubSeq([s EXCEPT ![k] = x], 1, k)
  PROVE  sub \in Seq(Nat) /\ Len(sub) = k /\ sub[k] = x /\ \A i \in 1 .. k : i # k => sub[i] = s[i]
<1>1. PICK v : v = [s EXCEPT ![k] = x]
  OBVIOUS
<1>2. n \in Nat /\ k \in 1 .. n
  OBVIOUS
<1>3. v \in Seq(Nat) /\ Len(v) = n /\ v[k] = x /\ \A i \in 1 .. n : i # k => v[i] = s[i]
  BY <1>1, <1>2
<1>4. sub = SubSeq(v, 1, k)
  BY <1>1
<1>5. sub \in Seq(Nat) /\ Len(sub) = k /\ \A i \in 1 .. k : sub[i] = v[i]
  BY <1>2, <1>3, <1>4, PrefixIs
<1>6. k \in 1 .. k /\ \A i \in 1 .. k : i \in 1 .. n
  BY <1>2
<1> QED
  BY <1>3, <1>5, <1>6

(* A whole tree, its nodes' places those of before.                        *)
StillWhole(u, d, off, p) ==
  \E S2, par2, cnt2 : Whole(u, d, S2, par2, off, cnt2, p)

LEMMA RetractComputedHolds ==
  ASSUME NEW t, NEW leaves, leaves # <<>>, NEW S, NEW par, NEW off, NEW cnt, NEW p,
         Whole(t, leaves, S, par, off, cnt, p),
         NEW index \in Nat, t.num_flushed <= index, index < Len(leaves),
         NEW u, u = RetractComputed(t, index)
  PROVE  StillWhole(u, SubSeq(leaves, 1, index + 1), off, p)
<1>1. PICK d : d = SubSeq(leaves, 1, index + 1)
  OBVIOUS
<1>2. /\ IsTree(t) /\ leaves \in Seq(LeafHashes) /\ Len(leaves) \in Nat
      /\ t.uninserted_leaf_nodes = <<>> /\ t.insertion_stack = <<>>
      /\ DOMAIN t.heap = S /\ S \subseteq Nat \ {0} /\ t.root \in S /\ t.root = p[1]
      /\ Good(t.heap, S, par, off, cnt, t.root, leaves, t.num_flushed, {})
      /\ LeavesHang(t, leaves, S, off, cnt)
  BY WholeParts
<1>3. PICK r, nf, ln, len, walk, k, sub :
        /\ r = t.root /\ nf = t.num_flushed /\ ln = t.leaf_nodes /\ len = Len(ln)
        /\ walk = RetractWalk(t, index) /\ k = index - nf + 1
        /\ sub = SubSeq([ln EXCEPT ![k] = walk.leaf], 1, k)
  OBVIOUS
<1>4. /\ nf \in Nat /\ ln \in Seq(Nat) /\ len \in Nat /\ nf <= index /\ Len(leaves) = nf + len
      /\ \A i \in 1 .. len : ln[i] \in S /\ off[ln[i]] = nf + i - 1 /\ cnt[ln[i]] = 1
  BY <1>2, <1>3 DEF IsTree, LeavesHang
<1>5. PICK S2, par2, cnt2, c : Retreats(walk, S, cnt, S2, par2, cnt2, off, c, r, leaves, nf, index)
  <2>1. r = t.root /\ Good(t.heap, S, par, off, cnt, r, leaves, nf, {}) /\ DOMAIN t.heap = S
        /\ walk = RetractWalk(t, index)
    BY <1>2, <1>3
  <2> QED
    BY <1>2, <1>4, <2>1, RetractWalkIs
<1>6. PICK g, x : g = walk.heap /\ x = walk.leaf
  OBVIOUS
<1>7. /\ Good(g, S2, par2, off, cnt2, r, c, nf, {}) /\ DOMAIN g = S2
      /\ x \in S2 /\ off[x] = index /\ cnt2[x] = 1
      /\ Kept(S, cnt, S2, off, cnt2, index) /\ Begins(c, leaves) /\ Len(c) = index + 1
  BY <1>5, <1>6 DEF Retreats
<1>8. k \in Nat /\ k >= 1 /\ k <= len /\ nf + k = index + 1
  <2>1. PICK l : l = Len(leaves)
    OBVIOUS
  <2>2. l = nf + len /\ index < l
    BY <1>4, <2>1
  <2>3. k = index - nf + 1
    BY <1>3
  <2>4. nf \in Nat /\ len \in Nat /\ nf <= index
    BY <1>4
  <2> QED
    BY <2>2, <2>3, <2>4
<1>9. x \in Nat
  <2>1. Heap(g)
    BY <1>7 DEF Good
  <2> QED
    BY <1>7, <2>1 DEF Heap
<1>10. sub \in Seq(Nat) /\ Len(sub) = k /\ sub[k] = x /\ \A i \in 1 .. k : i # k => sub[i] = ln[i]
  <2>1. sub = SubSeq([ln EXCEPT ![k] = x], 1, k) /\ Len(ln) = len
    BY <1>3, <1>6
  <2> QED
    BY <1>4, <1>8, <1>9, <2>1, ReplacedIs
<1>11. Len(t.leaf_nodes) - (num_leaves(t) - index - 1) = k
  <2>1. PICK q : q = num_leaves(t)
    OBVIOUS
  <2>2. q = nf + len
    <3>1. Len(t.uninserted_leaf_nodes) = 0
      BY <1>2
    <3> QED
      BY <1>3, <1>4, <2>1, <3>1 DEF num_leaves
  <2>3. len - (q - index - 1) = k
    BY <1>4, <1>8, <2>2
  <2> QED
    BY <1>3, <2>1, <2>3
<1>12. u = [t EXCEPT !.heap = g, !.leaf_nodes = sub]
  <2>1. u = [t EXCEPT !.heap = walk.heap,
                      !.leaf_nodes = SubSeq([@ EXCEPT ![index - t.num_flushed + 1] = walk.leaf],
                                            1, Len(@) - (num_leaves(t) - index - 1))]
    BY <1>3 DEF RetractComputed, Retracted
  <2>2. u = [t EXCEPT !.heap = walk.heap,
                      !.leaf_nodes = SubSeq([t.leaf_nodes EXCEPT ![index - t.num_flushed + 1] = walk.leaf],
                                            1, Len(t.leaf_nodes) - (num_leaves(t) - index - 1))]
    BY <2>1
  <2>3. SubSeq([t.leaf_nodes EXCEPT ![index - t.num_flushed + 1] = walk.leaf],
               1, Len(t.leaf_nodes) - (num_leaves(t) - index - 1)) = sub
    BY <1>3, <1>11
  <2> QED
    BY <1>6, <2>2, <2>3
<1>13. /\ IsTree(u) /\ u.heap = g /\ u.root = r /\ u.leaf_nodes = sub
       /\ u.num_flushed = nf /\ u.insertion_stack = <<>> /\ u.uninserted_leaf_nodes = <<>>
  <2>1. u = [heap |-> g, root |-> r, leaf_nodes |-> sub,
             uninserted_leaf_nodes |-> <<>>, num_flushed |-> nf, insertion_stack |-> <<>>]
    BY <1>2, <1>3, <1>12 DEF IsTree
  <2>2. r \in Nat /\ <<>> \in Seq(Nat) /\ <<>> \in Seq(StackElement)
    <3>1. r = t.root /\ t.root \in Nat
      BY <1>2, <1>3
    <3> QED
      BY <3>1
  <2> QED
    BY <1>4, <1>10, <2>1, <2>2 DEF IsTree
<1>14. c = d
  <2>1. /\ c \in Seq(LeafHashes) /\ \A i \in 1 .. Len(c) : c[i] = leaves[i]
    BY <1>7 DEF Begins
  <2>2. PICK m, l : m = index + 1 /\ l = Len(leaves)
    OBVIOUS
  <2>3. m \in Nat /\ m <= l /\ l \in Nat
    BY <1>2, <2>2
  <2>4. d \in Seq(LeafHashes) /\ Len(d) = m /\ \A i \in 1 .. m : d[i] = leaves[i]
    <3>1. d = SubSeq(leaves, 1, m) /\ Len(leaves) = l
      BY <1>1, <2>2
    <3> QED
      BY <1>2, <2>3, <3>1, PrefixIs
  <2>5. Len(c) = m
    BY <1>7, <2>2
  <2> QED
    BY <2>1, <2>3, <2>4, <2>5, SameSeq
<1>15. LeavesHang(u, c, S2, off, cnt2)
  <2>1. Len(c) = nf + Len(sub)
    BY <1>7, <1>8, <1>10
  <2>2. ASSUME NEW i \in 1 .. Len(sub)
        PROVE  sub[i] \in S2 /\ off[sub[i]] = nf + i - 1 /\ cnt2[sub[i]] = 1
    <3>1. CASE i = k
      <4>1. nf + i - 1 = index
        BY <1>4, <1>8, <3>1
      <4> QED
        BY <1>7, <1>10, <3>1, <4>1
    <3>2. CASE i # k
      <4>1. i \in 1 .. k /\ i \in 1 .. len /\ nf + i - 1 < index
        BY <1>4, <1>8, <1>10, <3>2
      <4>2. PICK y : y = ln[i]
        OBVIOUS
      <4>3. y \in S /\ off[y] = nf + i - 1 /\ cnt[y] = 1
        BY <1>4, <4>1, <4>2
      <4>4. y \in S2 /\ cnt2[y] = 1
        BY <1>7, <4>1, <4>3 DEF Kept
      <4> QED
        BY <1>10, <3>2, <4>1, <4>2, <4>3, <4>4
    <3> QED
      BY <3>1, <3>2
  <2> QED
    BY <1>13, <2>1, <2>2 DEF LeavesHang
<1>16. Good(u.heap, S2, par2, off, cnt2, u.root, c, u.num_flushed, {})
  BY <1>7, <1>13
<1>17. DOMAIN u.heap = S2 /\ u.root = p[1]
  BY <1>2, <1>3, <1>7, <1>13
<1>18. c \in Seq(LeafHashes) /\ c # <<>>
  <2>1. c \in Seq(LeafHashes)
    BY <1>7 DEF Begins
  <2>2. Len(c) # 0
    BY <1>7
  <2> QED
    BY <2>1, <2>2
<1>19. Whole(u, c, S2, par2, off, cnt2, p)
  BY <1>13, <1>15, <1>16, <1>17, <1>18, WholeFrom
<1>20. Whole(u, d, S2, par2, off, cnt2, p)
  BY <1>14, <1>19
<1>21. StillWhole(u, d, off, p)
  BY <1>20 DEF StillWhole
<1> QED
  BY <1>1, <1>21

(* The calls the theorems are about.                                       *)
PlainCalls == {"insert", "read", "size", "flush", "retract"}

(* A tree is what its leaves say: its nodes, with what hangs under them.   *)
TreeIs(t, leaves) ==
  \E S, par, off, cnt, p, b : Holds(t, t.uninserted_leaf_nodes, 0, leaves, S, par, off, cnt, p, b)

(* The inductive invariant.                                                *)
StateIs == TreeIs(tree, log) /\ Len(log) <= MaxLeaves

LEMMA TreeHolding ==
  ASSUME NEW t, NEW leaves, TreeIs(t, leaves)
  PROVE  \E S, par, off, cnt, p, b, L, m : Holding(t, leaves, L, m, S, par, off, cnt, p, b)
<1>1. PICK S, par, off, cnt, p, b : Holds(t, t.uninserted_leaf_nodes, 0, leaves, S, par, off, cnt, p, b)
  BY DEF TreeIs
<1>2. \E L, m : Holding(t, leaves, L, m, S, par, off, cnt, p, b)
  BY <1>1, HoldingIs
<1> QED
  BY <1>2

LEMMA TreeLeaves ==
  ASSUME NEW t, NEW leaves, TreeIs(t, leaves)
  PROVE  /\ leaves \in Seq(LeafHashes) /\ Len(leaves) = num_leaves(t) /\ Len(leaves) \in Nat
         /\ Hashes(t, t.leaf_nodes \o t.uninserted_leaf_nodes)
              = SubSeq(leaves, t.num_flushed + 1, Len(leaves))
<1>1. PICK S, par, off, cnt, p, b, L, m : Holding(t, leaves, L, m, S, par, off, cnt, p, b)
  BY TreeHolding
<1>2. /\ Hashes(t, t.leaf_nodes \o t.uninserted_leaf_nodes)
              = SubSeq(leaves, t.num_flushed + 1, Len(leaves))
      /\ Len(leaves) = num_leaves(t)
  BY <1>1, HoldingWindow
<1>3. leaves \in Seq(LeafHashes)
  BY <1>1 DEF Holding
<1> QED
  BY <1>2, <1>3

LEMMA EmptyIs ==
  TreeIs(EmptyTree, <<>>)
<1>1. PICK t : t = EmptyTree
  OBVIOUS
<1>2. /\ t.heap = <<>> /\ t.root = Nil /\ t.leaf_nodes = <<>> /\ t.uninserted_leaf_nodes = <<>>
      /\ t.num_flushed = 0 /\ t.insertion_stack = <<>>
      /\ t = [heap |-> t.heap, root |-> t.root, leaf_nodes |-> t.leaf_nodes,
          uninserted_leaf_nodes |-> t.uninserted_leaf_nodes, num_flushed |-> t.num_flushed,
          insertion_stack |-> t.insertion_stack]
  BY <1>1 DEF EmptyTree
<1>3. IsTree(t)
  <2>1. <<>> \in Seq(Nat) /\ <<>> \in Seq(StackElement) /\ Nil \in Nat
    BY DEF Nil
  <2> QED
    BY <1>2, <2>1 DEF IsTree
<1>4. Heap(t.heap) /\ Closed(t.heap)
  <2>1. DOMAIN <<>> = {}
    OBVIOUS
  <2>2. IsFiniteSet({})
    BY FS_EmptySet
  <2>3. <<>> = [n \in {} |-> <<>>[n]]
    OBVIOUS
  <2> QED
    BY <1>2, <2>1, <2>2, <2>3 DEF Heap, Closed
<1>5. PICK w : w = <<>>
  OBVIOUS
<1>6. w \in Seq(LeafHashes) /\ w \in Seq(Nat) /\ Len(w) = 0 /\ 0 \in 0 .. Len(w) /\ Len(w) <= Len(w)
  BY <1>5
<1>7. Hanging(w, w, 0) = w
  BY <1>5, <1>6, HangingAll
<1>8. PICK S, x : S = {} /\ x = 0
  OBVIOUS
<1>9. Rooted(t, w, S, x, x, x, x, x)
  BY <1>2, <1>4, <1>5, <1>8 DEF Rooted
<1>10. LeavesHang(t, w, S, x, x)
  BY <1>2, <1>5, <1>6 DEF LeavesHang
<1>11. LeavesWait(t.heap, S, w, 0, w)
  <2>1. 0 + 1 .. Len(w) = {}
    BY <1>6
  <2> QED
    BY <1>2, <1>8, <2>1 DEF LeavesWait
<1>12. t.uninserted_leaf_nodes = w
  BY <1>2, <1>5
<1>13. Holds(t, w, 0, w, S, x, x, x, x, x)
  BY <1>3, <1>6, <1>7, <1>9, <1>10, <1>11, <1>12 DEF Holds
<1>14. TreeIs(t, w)
  BY <1>12, <1>13 DEF TreeIs
<1> QED
  BY <1>1, <1>5, <1>14
-----------------------------------------------------------------------------
(* The calls.                                                              *)

(* insert() of a hash.                                                     *)
LEMMA InsertIs ==
  ASSUME NEW t, NEW leaves, TreeIs(t, leaves), NEW v \in Values,
         NEW hash, hash = LeafHash(<<num_leaves(t), v>>), NEW u, u = Push(t, hash)
  PROVE  TreeIs(u, Append(leaves, hash))
<1>1. PICK S, par, off, cnt, p, b : Holds(t, t.uninserted_leaf_nodes, 0, leaves, S, par, off, cnt, p, b)
  BY DEF TreeIs
<1>2. num_leaves(t) \in Nat
  BY TreeLeaves
<1>3. hash \in LeafHashes
  BY <1>2 DEF LeafHashes
<1>4. Holds(u, u.uninserted_leaf_nodes, 0, Append(leaves, hash), S, par, off, cnt, p, b)
  BY <1>1, <1>3, PushHolds
<1> QED
  BY <1>4 DEF TreeIs

LEMMA HoldsTree ==
  ASSUME NEW u, NEW w, NEW leaves, NEW S, NEW par, NEW off, NEW cnt, NEW p, NEW b,
         Holds(u, w, 0, leaves, S, par, off, cnt, p, b)
  PROVE  TreeIs(u, leaves)
<1>1. u.uninserted_leaf_nodes = w
  BY DEF Holds
<1> QED
  BY <1>1 DEF TreeIs

LEMMA SizeCallIs ==
  ASSUME NEW t, NEW leaves, TreeIs(t, leaves), NEW u, u = SizeCall(t)
  PROVE  TreeIs(u, leaves)
<1>1. PICK S, par, off, cnt, p, b : Holds(t, t.uninserted_leaf_nodes, 0, leaves, S, par, off, cnt, p, b)
  BY DEF TreeIs
<1>2. CASE u = t
  BY <1>2
<1>3. CASE u = HangWaiting(t)
  <2>1. \E S2, par2, off2, cnt2, p2, b2 : Holds(u, <<>>, 0, leaves, S2, par2, off2, cnt2, p2, b2)
    BY <1>1, <1>3, HangWaitingHolds
  <2> QED
    BY <2>1, HoldsTree
<1> QED
  BY <1>2, <1>3 DEF SizeCall, InsertLeaves

LEMMA ComputeRootIs ==
  ASSUME NEW t, NEW leaves, TreeIs(t, leaves), leaves # <<>>, NEW u, u = ComputeRoot(t)
  PROVE  /\ TreeIs(u, leaves) /\ HashAtRoot(u) = MTH(leaves)
         /\ \E S, par, off, cnt, p : Clean(u, leaves, S, par, off, cnt, p)
<1>1. PICK S, par, off, cnt, p, b : Holds(t, t.uninserted_leaf_nodes, 0, leaves, S, par, off, cnt, p, b)
  BY DEF TreeIs
<1>2. HashAtRoot(u) = MTH(leaves)
  BY <1>1, ComputeRootHolds
<1>3. PICK S2, par2, off2, cnt2, p2 : Clean(u, leaves, S2, par2, off2, cnt2, p2)
  BY <1>1, ComputeRootHolds
<1>4. Holds(u, <<>>, 0, leaves, S2, par2, off2, cnt2, p2, 0)
  BY <1>3 DEF Clean, Whole
<1>5. TreeIs(u, leaves)
  BY <1>4, HoldsTree
<1> QED
  BY <1>2, <1>3, <1>5

LEMMA FlushIs ==
  ASSUME NEW t, NEW leaves, TreeIs(t, leaves), NEW index \in Nat, NEW u, u = FlushTo(t, index)
  PROVE  TreeIs(u, leaves)
<1>1. CASE index <= min_index(t) \/ ~InRange(t, index)
  BY <1>1 DEF FlushTo
<1>2. CASE ~(index <= min_index(t) \/ ~InRange(t, index))
  <2>1. PICK v : v = ComputeRoot(t)
    OBVIOUS
  <2>2. u = FlushComputed(v, index)
    BY <1>2, <2>1 DEF FlushTo
  <2>3. IsTree(t)
    BY DEF TreeIs, Holds
  <2>4. t.num_flushed \in Nat
    BY <2>3 DEF IsTree
  <2>5. Len(leaves) = num_leaves(t) /\ Len(leaves) \in Nat
    BY TreeLeaves
  <2>6. t.num_flushed <= index /\ index < Len(leaves)
    BY <1>2, <2>4, <2>5 DEF InRange, min_index, max_index
  <2>7. leaves # <<>>
    BY <2>4, <2>6
  <2>8. PICK S, par, off, cnt, p : Clean(v, leaves, S, par, off, cnt, p)
    BY <2>1, <2>7, ComputeRootIs
  <2>9. v.num_flushed <= index
    BY <2>1, <2>3, <2>6, ComputeRootKeeps
  <2>10. PICK S2 : Whole(u, leaves, S2, par, off, cnt, p)
    BY <2>2, <2>6, <2>7, <2>8, <2>9, FlushComputedHolds
  <2>11. Holds(u, <<>>, 0, leaves, S2, par, off, cnt, p, 0)
    BY <2>10 DEF Whole
  <2> QED
    BY <2>11, HoldsTree
<1> QED
  BY <1>1, <1>2

(* What is left of the leaves when everything after an index goes.         *)
Until(t, leaves, index) ==
  IF min_index(t) <= index /\ index < Len(leaves) THEN SubSeq(leaves, 1, index + 1) ELSE leaves

LEMMA RetractWaitingIs ==
  ASSUME NEW t, NEW leaves, TreeIs(t, leaves), NEW index \in Nat, NEW u, u = RetractWaiting(t, index),
         t.num_flushed + Len(t.leaf_nodes) <= index, index < Len(leaves)
  PROVE  TreeIs(u, SubSeq(leaves, 1, index + 1))
<1>1. PICK w, S, par, off, cnt, p, b : Holds(t, w, 0, leaves, S, par, off, cnt, p, b)
  BY DEF TreeIs
<1>2. PICK d : d = SubSeq(leaves, 1, index + 1)
  OBVIOUS
<1>3. Holds(u, u.uninserted_leaf_nodes, 0, d, S, par, off, cnt, p, b)
  BY <1>1, <1>2, RetractWaitingHolds
<1>4. TreeIs(u, d)
  BY <1>3 DEF TreeIs
<1> QED
  BY <1>2, <1>4

LEMMA RetractInsertedIs ==
  ASSUME NEW t, NEW leaves, TreeIs(t, leaves), NEW index \in Nat, NEW u, u = RetractInserted(t, index),
         t.num_flushed <= index, index < Len(leaves)
  PROVE  TreeIs(u, SubSeq(leaves, 1, index + 1))
<1>1. PICK v, d : v = ComputeRoot(t) /\ d = SubSeq(leaves, 1, index + 1)
  OBVIOUS
<1>2. u = RetractComputed(v, index)
  BY <1>1 DEF RetractInserted
<1>3. IsTree(t)
  BY DEF TreeIs, Holds
<1>4. leaves # <<>>
  <2>1. Len(leaves) \in Nat
    BY TreeLeaves
  <2>2. Len(leaves) # 0
    BY <2>1
  <2> QED
    BY <2>2
<1>5. PICK S, par, off, cnt, p : Clean(v, leaves, S, par, off, cnt, p)
  BY <1>1, <1>4, ComputeRootIs
<1>6. v.num_flushed <= index
  BY <1>1, <1>3, ComputeRootKeeps
<1>7. Whole(v, leaves, S, par, off, cnt, p)
  BY <1>5 DEF Clean
<1>8. StillWhole(u, d, off, p)
  <2>1. StillWhole(u, SubSeq(leaves, 1, index + 1), off, p)
    BY <1>2, <1>4, <1>6, <1>7, RetractComputedHolds
  <2> QED
    BY <1>1, <2>1
<1>9. PICK S2, par2, cnt2 : Whole(u, d, S2, par2, off, cnt2, p)
  BY <1>8 DEF StillWhole
<1>10. Holds(u, <<>>, 0, d, S2, par2, off, cnt2, p, 0)
  BY <1>9 DEF Whole
<1>11. TreeIs(u, d)
  BY <1>10, HoldsTree
<1> QED
  BY <1>1, <1>11

(* Nothing waits in an empty tree, and none of it goes.                    *)
LEMMA RetractEmpty ==
  ASSUME NEW t, NEW leaves, TreeIs(t, leaves), Len(leaves) = 0, NEW index \in Nat
  PROVE  RetractWaiting(t, index) = t
<1>1. PICK w, S, par, off, cnt, p, b : Holds(t, w, 0, leaves, S, par, off, cnt, p, b)
  BY DEF TreeIs
<1>2. /\ IsTree(t) /\ t.uninserted_leaf_nodes = w /\ w \in Seq(Nat)
      /\ Rooted(t, Hanging(leaves, w, 0), S, par, off, cnt, p, b)
  BY <1>1 DEF Holds
<1>3. Heap(t.heap)
  BY <1>2, RootedHeap
<1>4. /\ t.num_flushed \in Nat /\ Len(t.leaf_nodes) \in Nat /\ Len(w) \in Nat
      /\ t.num_flushed + Len(t.leaf_nodes) + Len(w) = 0
  BY <1>2, TreeLeaves DEF IsTree, num_leaves
<1>5. Len(w) = 0 /\ t.num_flushed + Len(t.leaf_nodes) = 0
  BY <1>4
<1>6. w = <<>>
  BY <1>2, <1>5
<1>7. PICK over, keep : over = Over(t, index) /\ keep = Min({over, Len(w)})
  OBVIOUS
<1>8. over \in Nat
  <2>1. over = index - (t.num_flushed + Len(t.leaf_nodes)) + 1
    BY <1>7 DEF Over
  <2> QED
    BY <1>5, <2>1
<1>9. keep = 0
  <2>1. PICK T : T = {over, Len(w)}
    OBVIOUS
  <2>2. T \in SUBSET Nat /\ T # {} /\ 0 \in T
    BY <1>5, <1>8, <2>1
  <2>3. Min(T) \in T /\ \A k \in T : Min(T) <= k
    BY <2>2, MinIs
  <2>4. keep \in Nat /\ keep <= 0
    BY <1>7, <2>1, <2>2, <2>3
  <2> QED
    BY <2>4
<1>10. SubSeq(w, 1, keep) = w /\ Range(SubSeq(w, keep + 1, Len(w))) = {}
  <2>1. SubSeq(w, 1, keep) = w
    BY <1>6, <1>9
  <2>2. SubSeq(w, keep + 1, Len(w)) = <<>>
    BY <1>6, <1>9
  <2>3. Range(<<>>) = {}
    BY DEF Range
  <2> QED
    BY <2>1, <2>2, <2>3
<1>11. Without(t.heap, {}) = t.heap
  BY <1>3 DEF Without, Heap
<1>12. RetractWaiting(t, index) = [t EXCEPT !.heap = t.heap, !.uninserted_leaf_nodes = w]
  BY <1>2, <1>7, <1>10, <1>11 DEF RetractWaiting
<1> QED
  BY <1>2, <1>12 DEF IsTree

LEMMA RetractIs ==
  ASSUME NEW t, NEW leaves, TreeIs(t, leaves), NEW index \in Nat, NEW u, u = RetractTo(t, index)
  PROVE  TreeIs(u, Until(t, leaves, index))
<1>1. PICK nf, hang, len : nf = t.num_flushed /\ hang = nf + Len(t.leaf_nodes) /\ len = Len(leaves)
  OBVIOUS
<1>2. nf \in Nat /\ hang \in Nat /\ len \in Nat /\ len = num_leaves(t)
  <2>1. IsTree(t)
    BY DEF TreeIs, Holds
  <2>2. t.num_flushed \in Nat /\ Len(t.leaf_nodes) \in Nat
    BY <2>1 DEF IsTree
  <2> QED
    BY <1>1, <2>2, TreeLeaves
<1>3. CASE nf <= index /\ index < len
  <2>1. Until(t, leaves, index) = SubSeq(leaves, 1, index + 1)
    BY <1>1, <1>3 DEF Until, min_index
  <2>2. ~(max_index(t) < index \/ index < min_index(t))
    BY <1>1, <1>2, <1>3 DEF max_index, min_index
  <2>3. CASE index >= hang
    <3>1. u = RetractWaiting(t, index)
      BY <1>1, <2>2, <2>3 DEF RetractTo
    <3>2. t.num_flushed + Len(t.leaf_nodes) <= index /\ index < Len(leaves)
      BY <1>1, <1>2, <1>3, <2>3
    <3> QED
      BY <2>1, <3>1, <3>2, RetractWaitingIs
  <2>4. CASE ~(index >= hang)
    <3>1. u = RetractInserted(t, index)
      BY <1>1, <2>2, <2>4 DEF RetractTo
    <3>2. t.num_flushed <= index /\ index < Len(leaves)
      BY <1>1, <1>3
    <3> QED
      BY <2>1, <3>1, <3>2, RetractInsertedIs
  <2> QED
    BY <2>3, <2>4
<1>4. CASE ~(nf <= index /\ index < len)
  <2>1. Until(t, leaves, index) = leaves
    BY <1>1, <1>4 DEF Until, min_index
  <2>2. u = t
    <3>1. CASE max_index(t) < index \/ index < min_index(t)
      BY <3>1 DEF RetractTo
    <3>2. CASE ~(max_index(t) < index \/ index < min_index(t))
      <4>1. len = 0
        BY <1>1, <1>2, <1>4, <3>2 DEF max_index, min_index
      <4>2. num_leaves(t) = 0 /\ Len(leaves) = 0
        BY <1>1, <1>2, <4>1
      <4>3. hang <= index
        <5>1. hang + Len(t.uninserted_leaf_nodes) = 0
          BY <1>1, <4>2 DEF num_leaves
        <5>2. Len(t.uninserted_leaf_nodes) \in Nat
          <6>1. IsTree(t)
            BY DEF TreeIs, Holds
          <6> QED
            BY <6>1 DEF IsTree
        <5> QED
          BY <1>2, <5>1, <5>2
      <4>4. u = RetractWaiting(t, index)
        BY <1>1, <1>2, <3>2, <4>3 DEF RetractTo
      <4> QED
        BY <4>2, <4>4, RetractEmpty
    <3> QED
      BY <3>1, <3>2
  <2> QED
    BY <2>1, <2>2
<1> QED
  BY <1>3, <1>4

LEMMA NotEmpty ==
  ASSUME NEW t, NEW leaves, TreeIs(t, leaves), ~empty(t)
  PROVE  leaves # <<>>
BY TreeLeaves DEF empty
-----------------------------------------------------------------------------
(* Paths, past roots and past paths: the turns of a walk lead to the leaf,  *)
(* what they give is the audit path; the walk to the leaf at as_of gives    *)
(* the root of the leaves up to it, and where the two walks fork the past   *)
(* path goes on with what lies below the fork.                              *)

LEMMA TraceGrows ==
  ASSUME NEW heap, NEW S, NEW par, NEW off, NEW cnt, NEW top, NEW L, NEW nf,
         Good(heap, S, par, off, cnt, top, L, nf, {}),
         NEW index \in Nat, NEW h, NEW a, Walked(heap, S, off, cnt, index, a, h),
         NEW r, Traced(heap, off, index, r, a),
         NEW z, NEW right \in BOOLEAN, Descended(heap, cnt, a, z, right)
  PROVE  Traced(heap, off, index, r, z)
<1>1. /\ Heap(heap) /\ Linked(heap, S, par, top) /\ Spans(heap, S, off, cnt, Nil, nf) /\ S \subseteq Nat
  BY DEF Good, Linked, Heap
<1>2. PICK n, it, turns, m : n = a.n /\ it = a.it /\ turns = a.turns /\ m = Len(turns)
  OBVIOUS
<1>3. n \in S /\ it \in Nat /\ turns \in Seq(WalkTurn) /\ m \in Nat /\ off[n] + it = index
  BY <1>2 DEF Walked, WalkAt
<1>4. PICK l, d, turn, tt : l = heap[n].left /\ d = heap[n].right
                            /\ turn = [n |-> n, right |-> right] /\ tt = <<turn>> \o turns
  OBVIOUS
<1>5. /\ l # Nil /\ right = (it >= cnt[l])
      /\ z = [n |-> IF right THEN d ELSE l, it |-> IF right THEN it - cnt[l] ELSE it, turns |-> tt]
  BY <1>2, <1>4 DEF Descended
<1>6. z.n = (IF right THEN d ELSE l) /\ z.turns = tt
  BY <1>5
<1>7. turn \in WalkTurn /\ turn.n = n /\ turn.right = right
  BY <1>1, <1>3, <1>4 DEF WalkTurn
<1>8. tt \in Seq(WalkTurn) /\ Len(tt) = m + 1 /\ tt[1] = turn /\ \A i \in 1 .. m : tt[i + 1] = turns[i]
  BY <1>2, <1>3, <1>4, <1>7, FrontTurn
<1>9. off[d] = off[n] + cnt[l] /\ cnt[l] \in Nat /\ off[n] \in Nat
  <2>1. l \in S
    BY <1>1, <1>3, <1>4, <1>5 DEF Linked
  <2> QED
    BY <1>1, <1>3, <1>4, <1>5, <2>1 DEF Spans
<1>10. right = (off[d] <= index)
  <2>1. it >= cnt[l] <=> off[d] <= index
    <3>1. PICK o, c : o = off[n] /\ c = cnt[l]
      OBVIOUS
    <3>2. o \in Nat /\ c \in Nat /\ off[d] = o + c /\ o + it = index
      BY <1>3, <1>9, <3>1
    <3>3. it >= c <=> o + c <= index
      BY <1>3, <3>2
    <3> QED
      BY <3>1, <3>2, <3>3
  <2> QED
    BY <1>5, <2>1
<1>11. Passing(z, 0) = z.n /\ \A k \in 0 .. m : Passing(z, k + 1) = Passing(a, k)
  <2>1. ASSUME NEW k \in 0 .. m PROVE Passing(z, k + 1) = Passing(a, k)
    <3>1. k + 1 # 0
      BY <1>3
    <3>2. Passing(z, k + 1) = tt[k + 1].n
      BY <1>6, <3>1 DEF Passing
    <3>3. CASE k = 0
      BY <1>2, <1>7, <1>8, <3>2, <3>3 DEF Passing
    <3>4. CASE k # 0
      <4>1. k \in 1 .. m
        BY <3>4
      <4>2. Passing(a, k) = turns[k].n
        BY <1>2, <3>4 DEF Passing
      <4> QED
        BY <1>8, <3>2, <4>1, <4>2
    <3> QED
      BY <3>3, <3>4
  <2> QED
    BY <2>1 DEF Passing
<1>12. Passing(z, Len(tt)) = r
  <2>1. m \in 0 .. m
    BY <1>3
  <2>2. Passing(a, m) = r
    BY <1>2 DEF Traced
  <2> QED
    BY <1>8, <1>11, <2>1, <2>2
<1>13. ASSUME NEW k \in 1 .. m + 1 PROVE TurnsTo(heap, off, index, tt[k], Passing(z, k - 1))
  <2>1. CASE k = 1
    <3>1. tt[k] = turn /\ Passing(z, k - 1) = z.n
      BY <1>8, <1>11, <2>1
    <3>2. TurnsTo(heap, off, index, turn, z.n)
      BY <1>4, <1>5, <1>6, <1>7, <1>10 DEF TurnsTo
    <3> QED
      BY <3>1, <3>2
  <2>2. CASE k # 1
    <3>1. PICK j : j = k - 1
      OBVIOUS
    <3>2. j \in 1 .. m /\ k = j + 1 /\ j - 1 \in 0 .. m /\ (j - 1) + 1 = k - 1
      BY <1>3, <2>2, <3>1
    <3>3. tt[k] = turns[j] /\ Passing(z, k - 1) = Passing(a, j - 1)
      <4>1. PICK x : x = j - 1
        OBVIOUS
      <4>2. x \in 0 .. m /\ k - 1 = x + 1
        BY <3>2, <4>1
      <4>3. Passing(z, x + 1) = Passing(a, x)
        BY <1>11, <4>2
      <4> QED
        BY <1>8, <3>2, <4>1, <4>2, <4>3
    <3>4. TurnsTo(heap, off, index, turns[j], Passing(a, j - 1))
      BY <1>2, <3>2 DEF Traced
    <3> QED
      BY <3>3, <3>4
  <2> QED
    BY <2>1, <2>2
<1> QED
  BY <1>6, <1>8, <1>12, <1>13 DEF Traced

(* The walk ends at the leaf.                                              *)
LEMMA WalkEnds ==
  ASSUME NEW heap, NEW S, NEW par, NEW off, NEW cnt, NEW top, NEW L, NEW nf,
         Good(heap, S, par, off, cnt, top, L, nf, {}), NEW index \in Nat,
         NEW z, Walked(heap, S, off, cnt, index, z, 1)
  PROVE  z.n \in S /\ off[z.n] = index /\ cnt[z.n] = 1 /\ z.it = 0
<1>1. z \in WalkAt /\ z.n \in S /\ off[z.n] + z.it = index /\ z.it < cnt[z.n] /\ heap[z.n].height <= 1
  BY DEF Walked
<1>2. PICK c, g, o, it : c = cnt[z.n] /\ g = heap[z.n].height /\ o = off[z.n] /\ it = z.it
  OBVIOUS
<1>3. HeightIs(g, c) /\ c \in Nat \ {0} /\ o \in Nat /\ it \in Nat
  BY <1>1, <1>2 DEF Good, Measured, Spans, WalkAt
<1>4. g = 1 /\ c <= pow2[g - 1]
  BY <1>1, <1>2, <1>3 DEF HeightIs
<1>5. c <= 1
  <2>1. g - 1 = 0
    BY <1>4
  <2> QED
    BY <1>4, <2>1, Pow2Step
<1>6. c = 1
  BY <1>3, <1>5
<1>7. it < 1 /\ o + it = index
  BY <1>1, <1>2, <1>6
<1>8. it = 0 /\ o = index
  BY <1>3, <1>7
<1> QED
  BY <1>1, <1>2, <1>6, <1>8

LEMMA TurnsAre ==
  ASSUME NEW t, NEW S, NEW par, NEW off, NEW cnt, NEW L, NEW nf,
         Good(t.heap, S, par, off, cnt, t.root, L, nf, {}), Len(L) \in Nat, nf \in Nat,
         NEW index \in Nat, nf <= index, index < Len(L)
  PROVE  \E leaf : LeadTo(t.heap, S, off, cnt, index, t.root, Turns(t, index), leaf)
<1>1. PICK h, at : WalksTo(t, S, off, cnt, index, h, at)
  BY WalkToIs
<1>2. PICK heap, r : heap = t.heap /\ r = t.root
  OBVIOUS
<1>3. /\ h \in Nat \ {0} /\ Walks(heap, S, off, cnt, index, r, h, at)
      /\ WalkTo(t, index) = at[h - 1]
  BY <1>1, <1>2 DEF WalksTo
<1>4. Good(heap, S, par, off, cnt, r, L, nf, {})
  BY <1>2
<1> DEFINE T == {k \in Nat : k <= h - 1 => Traced(heap, off, index, r, at[k])}
<1>5. 0 \in T
  <2>1. at[0].n = r /\ at[0].turns = <<>>
    BY <1>3 DEF Walks
  <2>2. Len(<<>>) = 0 /\ 1 .. 0 = {}
    OBVIOUS
  <2> QED
    BY <2>1, <2>2 DEF Traced, Passing
<1>6. ASSUME NEW k \in Nat, k \in T PROVE k + 1 \in T
  <2>1. SUFFICES ASSUME k + 1 <= h - 1 PROVE Traced(heap, off, index, r, at[k + 1])
    OBVIOUS
  <2>2. k <= h - 1 /\ k + 1 \in 1 .. h - 1 /\ k \in 0 .. h - 1 /\ (k + 1) - 1 = k
    BY <1>3, <2>1
  <2>3. Traced(heap, off, index, r, at[k])
    BY <1>6, <2>2
  <2>4. PICK a, z, g : a = at[k] /\ z = at[k + 1] /\ g = h - k
    OBVIOUS
  <2>5. Walked(heap, S, off, cnt, index, a, g)
    BY <1>3, <2>2, <2>4 DEF Walks
  <2>6. z = a \/ \E right \in BOOLEAN : Descended(heap, cnt, a, z, right)
    <3>1. \A j \in 1 .. h - 1 :
             at[j] = at[j - 1] \/ \E right \in BOOLEAN : Descended(heap, cnt, at[j - 1], at[j], right)
      BY <1>3 DEF Walks
    <3>2. PICK j : j = k + 1
      OBVIOUS
    <3>3. at[j] = at[j - 1] \/ \E right \in BOOLEAN : Descended(heap, cnt, at[j - 1], at[j], right)
      BY <2>2, <3>1, <3>2
    <3>4. j - 1 = k
      BY <3>2
    <3> QED
      BY <2>4, <3>2, <3>3, <3>4
  <2>7. CASE z = a
    BY <2>3, <2>4, <2>7
  <2>8. CASE \E right \in BOOLEAN : Descended(heap, cnt, a, z, right)
    <3>1. PICK right \in BOOLEAN : Descended(heap, cnt, a, z, right)
      BY <2>8
    <3>2. Traced(heap, off, index, r, a)
      BY <2>3, <2>4
    <3>3. Traced(heap, off, index, r, z)
      BY <1>4, <2>5, <3>1, <3>2, TraceGrows
    <3> QED
      BY <2>4, <3>3
  <2> QED
    BY <2>6, <2>7, <2>8
<1> HIDE DEF T
<1>7. Nat \subseteq T
  BY <1>5, <1>6, SetInduction
<1>8. h - 1 \in Nat /\ h - 1 \in 0 .. h - 1 /\ h - (h - 1) = 1 /\ h - 1 <= h - 1
  BY <1>3
<1>9. PICK z, turns, leaf : z = at[h - 1] /\ turns = z.turns /\ leaf = z.n
  OBVIOUS
<1>10. Traced(heap, off, index, r, z)
  BY <1>7, <1>8, <1>9 DEF T
<1>11. Walked(heap, S, off, cnt, index, z, 1)
  <2>1. Walked(heap, S, off, cnt, index, at[h - 1], h - (h - 1))
    BY <1>3, <1>8 DEF Walks
  <2> QED
    BY <1>8, <1>9, <2>1
<1>12. leaf \in S /\ off[leaf] = index /\ cnt[leaf] = 1
  BY <1>4, <1>9, <1>11, WalkEnds
<1>13. turns \in Seq(WalkTurn) /\ \A k \in 1 .. Len(turns) : turns[k].n \in S
  BY <1>9, <1>11 DEF Walked, WalkAt, TurnIs
<1>14. Traced(heap, off, index, r, [n |-> leaf, turns |-> turns])
  <2>1. PICK b : b = [n |-> leaf, turns |-> turns]
    OBVIOUS
  <2>2. b.n = z.n /\ b.turns = z.turns
    BY <1>9, <2>1
  <2>3. Traced(heap, off, index, r, b)
    BY <1>10, <2>2 DEF Traced, Passing
  <2> QED
    BY <2>1, <2>3
<1>15. Turns(t, index) = turns
  BY <1>3, <1>9 DEF Turns
<1> QED
  BY <1>2, <1>12, <1>13, <1>14, <1>15 DEF LeadTo

(* leaf(index) is the leaf at the index.                                   *)
LEMMA LeafIs ==
  ASSUME NEW t, NEW leaves, TreeIs(t, leaves), NEW index \in Nat,
         t.num_flushed <= index, index < Len(leaves)
  PROVE  LeafAt(t, index) = leaves[index + 1]
<1>1. PICK S, par, off, cnt, p, b, L, m : Holding(t, leaves, L, m, S, par, off, cnt, p, b)
  BY TreeHolding
<1>2. PICK a, w, nf, l, x, y : a = t.leaf_nodes /\ w = t.uninserted_leaf_nodes /\ nf = t.num_flushed
                               /\ l = Len(leaves) /\ x = Len(a) /\ y = Len(w)
  OBVIOUS
<1>3. /\ a \in Seq(Nat) /\ w \in Seq(Nat) /\ nf \in Nat /\ m = nf + x /\ l = m + y /\ x \in Nat /\ y \in Nat
  <2>1. a \in Seq(Nat) /\ w \in Seq(Nat) /\ nf \in Nat
    BY <1>1, <1>2 DEF Holding, IsTree
  <2>2. m = nf + x /\ l = m + y
    BY <1>1, <1>2 DEF Holding, Parts
  <2> QED
    BY <1>2, <2>1, <2>2
<1>4. /\ \A i \in 1 .. x : t.heap[a[i]].hash = leaves[nf + i]
      /\ \A i \in 1 .. y : t.heap[w[i]].hash = leaves[m + i]
  <2>1. /\ \A i \in 1 .. Len(t.leaf_nodes) :
              t.heap[t.leaf_nodes[i]].hash = leaves[t.num_flushed + i]
        /\ \A i \in 1 .. Len(t.uninserted_leaf_nodes) :
              t.heap[t.uninserted_leaf_nodes[i]].hash = leaves[m + i]
    BY <1>1, HoldingHash
  <2> QED
    BY <1>2, <2>1
<1>5. PICK s, k : s = a \o w /\ k = index - nf + 1
  OBVIOUS
<1>6. OneAfter(s, a, x, w, y)
  <2>1. OneAfter(a \o w, a, x, w, y)
    BY <1>2, <1>3, OneAfterOther
  <2> QED
    BY <1>5, <2>1
<1>7. (\A i \in 1 .. x : s[i] = a[i]) /\ \A i \in 1 .. y : s[x + i] = w[i]
  BY <1>6 DEF OneAfter
<1>8. k \in Nat /\ k >= 1 /\ k <= x + y /\ nf + k = index + 1
  <2>1. nf <= index /\ index < nf + x + y
    BY <1>2, <1>3
  <2> QED
    BY <1>3, <1>5, <2>1
<1>9. t.heap[s[k]].hash = leaves[nf + k]
  <2>1. CASE k <= x
    <3>1. k \in 1 .. x
      BY <1>3, <1>8, <2>1
    <3> QED
      BY <1>4, <1>7, <3>1
  <2>2. CASE x < k
    <3>1. PICK j : j = k - x
      OBVIOUS
    <3>2. j \in 1 .. y /\ x + j = k /\ m + j = nf + k
      BY <1>3, <1>8, <2>2, <3>1
    <3>3. s[x + j] = w[j] /\ t.heap[w[j]].hash = leaves[m + j]
      BY <1>4, <1>7, <3>2
    <3> QED
      BY <3>2, <3>3
  <2> QED
    BY <1>3, <1>8, <2>1, <2>2
<1> QED
  BY <1>2, <1>5, <1>8, <1>9 DEF LeafAt

(* A path is what the code says it is, and its root the tree's.            *)
LEMMA PathIs ==
  ASSUME NEW u, NEW leaves, TreeIs(u, leaves), leaves # <<>>,
         NEW S, NEW par, NEW off, NEW cnt, NEW p, Clean(u, leaves, S, par, off, cnt, p),
         NEW index \in Nat, u.num_flushed <= index, index < Len(leaves),
         NEW q, q = PathComputed(u, index)
  PROVE  /\ q = Path(leaves[index + 1], index, AuditPath(leaves, index), Len(leaves) - 1)
         /\ PathRoot(q) = HashAtRoot(u)
<1>1. /\ IsTree(u) /\ Len(leaves) \in Nat
      /\ Good(u.heap, S, par, off, cnt, u.root, leaves, u.num_flushed, {})
  BY WholeParts DEF Clean
<1>2. PICK heap, r, nf, len, turns, E : heap = u.heap /\ r = u.root /\ nf = u.num_flushed
                                        /\ len = Len(leaves) /\ turns = Turns(u, index) /\ E = Elements(u, turns)
  OBVIOUS
<1>3. nf \in Nat /\ len \in Nat /\ nf <= index /\ index < len
  BY <1>1, <1>2 DEF IsTree
<1>4. Good(heap, S, par, off, cnt, r, leaves, nf, {}) /\ \A n \in S : ~heap[n].dirty
  BY <1>1, <1>2 DEF Clean
<1>5. PICK leaf : LeadTo(heap, S, off, cnt, index, r, turns, leaf)
  BY <1>1, <1>2, <1>3, TurnsAre
<1>6. PICK a, m : a = [n |-> leaf, turns |-> turns] /\ m = Len(turns)
  OBVIOUS
<1>7. /\ E = AuditPath(leaves, index) /\ E = UpTurns(u, turns, m)
      /\ \A k \in 1 .. m : heap[turns[k].n].hash = Join(heap[Passing(a, k - 1)].hash, Step(u, turns[k]))
  <2>1. ClimbsTo(u, heap, S, off, cnt, leaves, index, turns, leaf)
    BY <1>1, <1>2, <1>4, <1>5, ElementsAre
  <2> QED
    BY <1>2, <1>6, <2>1 DEF ClimbsTo
<1>8. /\ turns \in Seq(WalkTurn) /\ m \in Nat /\ leaf \in S /\ off[leaf] = index /\ cnt[leaf] = 1
      /\ Passing(a, m) = r /\ a.n = leaf /\ a.turns = turns
  BY <1>5, <1>6 DEF LeadTo, Traced
<1>9. leaves[index + 1] = LeafAt(u, index)
  BY LeafIs
<1>10. heap[leaf].hash = leaves[index + 1]
  <2>1. heap[leaf].hash = SubtreeHash(leaves)[1][index]
    BY <1>4, <1>8 DEF Good, HashesRight
  <2>2. SubtreeHash(leaves)[1][index] = leaves[index + 1]
    BY <1>1, HashOfLeaf
  <2> QED
    BY <2>1, <2>2
<1>11. max_index(u) = Len(leaves) - 1
  <2>1. Len(leaves) = num_leaves(u)
    BY TreeLeaves
  <2>2. num_leaves(u) # 0
    BY <1>2, <1>3, <2>1
  <2> QED
    BY <2>1, <2>2 DEF max_index
<1>12. q = Path(leaves[index + 1], index, AuditPath(leaves, index), Len(leaves) - 1)
  BY <1>2, <1>7, <1>9, <1>11 DEF PathComputed
<1>13. q.leaf = heap[leaf].hash /\ q.elements = E
  BY <1>7, <1>10, <1>12 DEF Path
<1>14. Len(E) = m /\ \A k \in 1 .. m : E[k] = Step(u, turns[k])
  <2>1. E = [k \in 1 .. m |-> Step(u, turns[k])]
    BY <1>7 DEF UpTurns
  <2> QED
    BY <1>8, <2>1
<1>15. PICK result : /\ result[0] = q.leaf /\ PathRoot(q) = result[m]
                     /\ \A k \in 1 .. m : result[k] = Join(result[k - 1], E[k])
  BY <1>8, <1>13, <1>14, PathRootIs
<1> DEFINE T == {k \in Nat : k <= m => result[k] = heap[Passing(a, k)].hash}
<1>16. 0 \in T
  BY <1>8, <1>13, <1>15 DEF Passing
<1>17. ASSUME NEW k \in Nat, k \in T PROVE k + 1 \in T
  <2>1. SUFFICES ASSUME k + 1 <= m PROVE result[k + 1] = heap[Passing(a, k + 1)].hash
    OBVIOUS
  <2>2. PICK j : j = k + 1
    OBVIOUS
  <2>3. j \in 1 .. m /\ j - 1 = k /\ k <= m /\ j # 0
    BY <1>8, <2>1, <2>2
  <2>4. result[k] = heap[Passing(a, k)].hash
    BY <1>17, <2>3
  <2>5. result[j] = Join(result[k], Step(u, turns[j]))
    BY <1>14, <1>15, <2>3
  <2>6. heap[turns[j].n].hash = Join(heap[Passing(a, k)].hash, Step(u, turns[j]))
    BY <1>7, <2>3
  <2>7. Passing(a, j) = turns[j].n
    BY <1>8, <2>3 DEF Passing
  <2> QED
    BY <2>2, <2>4, <2>5, <2>6, <2>7
<1> HIDE DEF T
<1>18. Nat \subseteq T
  BY <1>16, <1>17, SetInduction
<1>19. PathRoot(q) = heap[r].hash
  BY <1>8, <1>15, <1>18 DEF T
<1> QED
  BY <1>2, <1>12, <1>19 DEF HashAtRoot

LEMMA PastIs ==
  ASSUME NEW u, NEW leaves, TreeIs(u, leaves), leaves # <<>>,
         NEW S, NEW par, NEW off, NEW cnt, NEW p, Clean(u, leaves, S, par, off, cnt, p),
         NEW i \in Nat, NEW as_of \in Nat, u.num_flushed <= i, i <= as_of, as_of < Len(leaves),
         NEW d, CutAt(leaves, d, as_of)
  PROVE  PastsAre(u, d, i, as_of)
<1>1. /\ IsTree(u) /\ Len(leaves) \in Nat
      /\ Good(u.heap, S, par, off, cnt, u.root, leaves, u.num_flushed, {})
  BY WholeParts DEF Clean
<1>2. PICK heap, top, nf : heap = u.heap /\ top = u.root /\ nf = u.num_flushed
  OBVIOUS
<1>3. nf \in Nat /\ nf <= i /\ nf <= as_of /\ i < Len(leaves)
  BY <1>1, <1>2 DEF IsTree
<1>4. Good(heap, S, par, off, cnt, top, leaves, nf, {}) /\ \A n \in S : ~heap[n].dirty
  BY <1>1, <1>2 DEF Clean
<1>5. PICK ti, ta : ti = Turns(u, i) /\ ta = Turns(u, as_of)
  OBVIOUS
<1>6. PICK li : LeadTo(heap, S, off, cnt, i, top, ti, li)
  <2>1. \E leaf : LeadTo(u.heap, S, off, cnt, i, u.root, Turns(u, i), leaf)
    BY <1>1, <1>2, <1>3, TurnsAre
  <2> QED
    BY <1>2, <1>5, <2>1
<1>7. PICK la : LeadTo(heap, S, off, cnt, as_of, top, ta, la)
  <2>1. \E leaf : LeadTo(u.heap, S, off, cnt, as_of, u.root, Turns(u, as_of), leaf)
    BY <1>1, <1>2, <1>3, TurnsAre
  <2> QED
    BY <1>2, <1>5, <2>1
<1>8. PICK ai, aa : ai = [n |-> li, turns |-> ti] /\ aa = [n |-> la, turns |-> ta]
  OBVIOUS
<1>81. PICK s : s = Shared(ti, ta)
  OBVIOUS
<1>9. ti \in Seq(WalkTurn) /\ ta \in Seq(WalkTurn) /\ Len(ti) \in Nat /\ Len(ta) \in Nat /\ off[la] = as_of
  BY <1>6, <1>7 DEF LeadTo
<1>10. ForksAt(ti, ta, ai, aa, s, i, as_of)
  <2>1. ForksAt(ti, ta, ai, aa, Shared(ti, ta), i, as_of)
    BY <1>4, <1>6, <1>7, <1>8, ForkIs
  <2> QED
    BY <1>81, <2>1
<1>11. LeafAt(u, i) = leaves[i + 1] /\ LeafAt(u, as_of) = leaves[as_of + 1]
  BY <1>2, <1>3, LeafIs
<1>12. off[top] = 0
  BY <1>4 DEF Good, Fits
<1>13. Len(d) = as_of + 1 /\ Len(d) \in Nat /\ as_of < Len(d) /\ leaves[i + 1] = d[i + 1] /\ leaves[as_of + 1] = d[as_of + 1]
  BY DEF CutAt
<1>14. Passing(ai, Len(ti)) = top /\ Passing(aa, Len(ta)) = top
  <2>1. Traced(heap, off, i, top, ai) /\ Traced(heap, off, as_of, top, aa)
    BY <1>6, <1>7, <1>8 DEF LeadTo
  <2>2. ai.turns = ti /\ aa.turns = ta
    BY <1>8
  <2> QED
    BY <2>1, <2>2 DEF Traced
<1>15. Retraces(u, off, d, as_of, ta, la)
  BY <1>1, <1>2, <1>4, <1>7, RetracesIs
<1>161. TopPast(off, d, i, as_of, top)
  BY <1>12, <1>13, TopIs
<1>16. PastRootOf(PathComputed(u, as_of)) = MTH(d)
  <2>1. PICK q : q = PathComputed(u, as_of)
    OBVIOUS
  <2>2. q.leaf = d[as_of + 1] /\ q.elements = Elements(u, ta)
    BY <1>5, <1>11, <1>13, <2>1 DEF PathComputed, Path
  <2>3. Elements(u, ta) = UpTurns(u, ta, Len(ta))
    <3>1. ClimbsTo(u, heap, S, off, cnt, leaves, as_of, ta, la)
      BY <1>1, <1>2, <1>4, <1>7, ElementsAre
    <3> QED
      BY <3>1 DEF ClimbsTo
  <2>4. HashThen(off, d, as_of, la) = d[as_of + 1] /\ PathThen(off, d, as_of, as_of, la) = <<>>
    <3>1. Then(off, as_of, la) = 1
      BY <1>9 DEF Then
    <3>2. Len(d) \in Nat /\ as_of < Len(d)
      BY <1>13
    <3> QED
      BY <1>7, <3>1, <3>2, LastLeaf
  <2>5. PastRootOf(q) = HashThen(off, d, as_of, Passing(aa, Len(ta)))
    <3>1. q.leaf = HashThen(off, d, as_of, la) /\ q.elements = UpTurns(u, ta, Len(ta))
      BY <2>2, <2>3, <2>4
    <3> QED
      BY <1>8, <1>9, <1>15, <3>1, PastRootAlong
  <2>6. HashThen(off, d, as_of, top) = MTH(d)
    BY <1>161 DEF TopPast
  <2> QED
    BY <1>14, <2>1, <2>5, <2>6
<1>17. PastPathComputed(u, i, as_of) = Path(d[i + 1], i, AuditPath(d, i), as_of)
  <2>1. PICK T, b : T = ForkSteps(u, as_of, ta, s) /\ b = AtFork(u, as_of, ti, ta, s)
    OBVIOUS
  <2>2. b \in Seq(T) /\ b = PathThen(off, d, as_of, i, Passing(ai, Len(ti) - s))
    <3>1. ForkPast(u, off, d, i, as_of, ti, ta, ai, s)
      <4>1. LeafAt(u, as_of) = leaves[as_of + 1] /\ Len(leaves) \in Nat /\ heap = u.heap
        BY <1>1, <1>2, <1>11
      <4> QED
        BY <1>4, <1>6, <1>7, <1>8, <1>10, <4>1, PastBelow
    <3> QED
      BY <2>1, <3>1 DEF ForkPast
  <2>3. Steps(u) \subseteq T
    BY <2>1 DEF ForkSteps
  <2>4. \A k \in 0 .. Len(ti) : off[Passing(ai, k)] <= i
    <3>1. ClimbsTo(u, heap, S, off, cnt, leaves, i, ti, li)
      BY <1>1, <1>2, <1>4, <1>6, ElementsAre
    <3>2. \A k \in 0 .. Len(ti) : LeadsUp(u, off, cnt, S, leaves, i, ti, ai, k)
      BY <1>8, <3>1 DEF ClimbsTo
    <3> QED
      BY <3>2 DEF LeadsUp, Covers
  <2>5. b \o Elements(u, RightsAbove(ti, s)) = PathThen(off, d, as_of, i, Passing(ai, Len(ti)))
    <3>1. OnPast(u, off, d, i, as_of, ti, ai, s, b)
      BY <1>8, <1>9, <1>10, <1>15, <2>2, <2>3, <2>4, PastAbove
    <3> QED
      BY <3>1 DEF OnPast
  <2>6. PathThen(off, d, as_of, i, top) = AuditPath(d, i)
    BY <1>161 DEF TopPast
  <2>7. AtFork(u, as_of, ti, ta, s) \o Elements(u, RightsAbove(ti, s)) = AuditPath(d, i)
    BY <1>14, <2>1, <2>5, <2>6
  <2>8. PastPathComputed(u, i, as_of) = PastPathFrom(u, i, as_of, ti, ta, s)
    <3>1. PastPathComputed(u, i, as_of) = PastPathFrom(u, i, as_of, Turns(u, i), Turns(u, as_of), Shared(Turns(u, i), Turns(u, as_of)))
      BY DEF PastPathComputed
    <3> QED
      BY <1>5, <1>81, <3>1
  <2>9. PastPathFrom(u, i, as_of, ti, ta, s) = Path(d[i + 1], i, AuditPath(d, i), as_of)
    <3>1. PastPathFrom(u, i, as_of, ti, ta, s)
            = Path(LeafAt(u, i), i, AtFork(u, as_of, ti, ta, s) \o Elements(u, RightsAbove(ti, s)), as_of)
      BY DEF PastPathFrom, AtFork
    <3> QED
      BY <1>11, <1>13, <2>7, <3>1
  <2> QED
    BY <2>8, <2>9
<1> QED
  BY <1>16, <1>17 DEF PastsAre

(* retract_to() keeps num_flushed.                                         *)
LEMMA RetractKeeps ==
  ASSUME NEW t, IsTree(t), NEW index
  PROVE  RetractTo(t, index).num_flushed = t.num_flushed
<1>1. RetractWaiting(t, index).num_flushed = t.num_flushed
  BY DEF RetractWaiting, IsTree
<1>2. RetractInserted(t, index).num_flushed = t.num_flushed
  <2>1. PICK u : u = ComputeRoot(t)
    OBVIOUS
  <2>2. u.num_flushed = t.num_flushed
    BY <2>1, ComputeRootKeeps
  <2>3. Retracted(u, RetractWalk(u, index), index).num_flushed = u.num_flushed
    BY DEF Retracted
  <2> QED
    BY <2>1, <2>2, <2>3 DEF RetractInserted, RetractComputed
<1> QED
  BY <1>1, <1>2 DEF RetractTo

(* What past_root() and past_path() answer on a tree is what a retraction  *)
(* to as_of gives.                                                         *)
PastAgrees(t, now, i, as_of) ==
  LET past == ComputeRoot(RetractTo(t, as_of)) IN
  /\ PastRoot(now, as_of) = RootHash(past)
  /\ PastPath(now, i, as_of) = PathTo(past, i)

LEMMA PastOfTree ==
  ASSUME NEW t, NEW leaves, TreeIs(t, leaves), leaves # <<>>,
         NEW i \in Nat, NEW as_of \in Nat, t.num_flushed <= i, i <= as_of, as_of < Len(leaves)
  PROVE  PastAgrees(t, ComputeRoot(t), i, as_of)
<1>1. PICK now, u, cut, past, w, d :
             /\ now = ComputeRoot(t) /\ u = ComputeRoot(now)
             /\ cut = RetractTo(t, as_of) /\ past = ComputeRoot(cut) /\ w = ComputeRoot(past)
             /\ d = SubSeq(leaves, 1, as_of + 1)
  OBVIOUS
<1>2. IsTree(t) /\ Len(leaves) \in Nat /\ leaves \in Seq(LeafHashes) /\ Len(leaves) = num_leaves(t)
  BY TreeLeaves DEF TreeIs, Holds
<1>3. Len(d) = as_of + 1 /\ Len(d) \in Nat /\ CutAt(leaves, d, as_of) /\ d # <<>>
  <2>1. Len(d) = as_of + 1 /\ \A j \in 1 .. as_of + 1 : d[j] = leaves[j]
    BY <1>1, <1>2
  <2> QED
    BY <2>1 DEF CutAt
<1>4. TreeIs(now, leaves)
  BY <1>1, ComputeRootIs
<1>5. TreeIs(u, leaves)
  BY <1>1, <1>4, ComputeRootIs
<1>6. PICK S, par, off, cnt, p : Clean(u, leaves, S, par, off, cnt, p)
  BY <1>1, <1>4, ComputeRootIs
<1>7. IsTree(now) /\ now.num_flushed = t.num_flushed /\ u.num_flushed = t.num_flushed
  <2>1. IsTree(now)
    BY <1>4 DEF TreeIs, Holds
  <2>2. now.num_flushed = t.num_flushed
    BY <1>1, <1>2, ComputeRootKeeps
  <2>3. u.num_flushed = now.num_flushed
    BY <1>1, <2>1, ComputeRootKeeps
  <2> QED
    BY <2>1, <2>2, <2>3
<1>8. PastsAre(u, d, i, as_of)
  BY <1>3, <1>5, <1>6, <1>7, PastIs
<1>9. Until(t, leaves, as_of) = d
  <2>1. t.num_flushed \in Nat
    BY <1>2 DEF IsTree
  <2>2. as_of + 1 = Len(leaves) => d = leaves
    BY <1>1, <1>2
  <2> QED
    BY <1>1, <1>2, <2>1, <2>2 DEF Until, max_index, min_index
<1>10. TreeIs(cut, d)
  <2>1. TreeIs(cut, Until(t, leaves, as_of))
    BY <1>1, RetractIs
  <2> QED
    BY <1>9, <2>1
<1>11. TreeIs(past, d)
  BY <1>1, <1>3, <1>10, ComputeRootIs
<1>12. /\ TreeIs(w, d) /\ HashAtRoot(w) = MTH(d)
       /\ \E S2, par2, off2, cnt2, p2 : Clean(w, d, S2, par2, off2, cnt2, p2)
  <2>1. w = ComputeRoot(past) /\ d # <<>>
    BY <1>1, <1>3
  <2> QED
    BY <1>11, <2>1, ComputeRootIs
<1>13. PICK S2, par2, off2, cnt2, p2 : Clean(w, d, S2, par2, off2, cnt2, p2)
  BY <1>12
<1>14. w.num_flushed = t.num_flushed
  <2>1. IsTree(cut) /\ IsTree(past)
    BY <1>10, <1>11 DEF TreeIs, Holds
  <2>2. cut.num_flushed = t.num_flushed
    BY <1>1, <1>2, RetractKeeps
  <2>3. past.num_flushed = cut.num_flushed
    BY <1>1, <2>1, ComputeRootKeeps
  <2>4. w.num_flushed = past.num_flushed
    BY <1>1, <2>1, ComputeRootKeeps
  <2> QED
    BY <2>2, <2>3, <2>4
<1>15. PathTo(past, i) = Path(d[i + 1], i, AuditPath(d, i), as_of)
  <2>1. PICK q : q = PathComputed(w, i)
    OBVIOUS
  <2>2. i < Len(d) /\ w.num_flushed <= i
    BY <1>3, <1>14
  <2>3. q = Path(d[i + 1], i, AuditPath(d, i), Len(d) - 1)
    BY <1>3, <1>12, <1>13, <2>1, <2>2, PathIs
  <2>4. Len(d) - 1 = as_of
    BY <1>3
  <2> QED
    BY <1>1, <2>1, <2>3, <2>4 DEF PathTo
<1>16. RootHash(past) = MTH(d)
  BY <1>1, <1>12 DEF RootHash
<1>17. /\ PastRootOf(PathComputed(u, as_of)) = MTH(d)
       /\ PastPathComputed(u, i, as_of) = Path(d[i + 1], i, AuditPath(d, i), as_of)
  BY <1>8 DEF PastsAre
<1>18. PastRoot(now, as_of) = MTH(d)
  BY <1>1, <1>17 DEF PastRoot, PathTo
<1>19. PastPath(now, i, as_of) = Path(d[i + 1], i, AuditPath(d, i), as_of)
  BY <1>1, <1>17 DEF PastPath
<1> QED
  BY <1>1, <1>15, <1>16, <1>18, <1>19 DEF PastAgrees
-----------------------------------------------------------------------------
(* The invariant of the specification.                                     *)

LEMMA InitIs ==
  Init => StateIs
<1>1. SUFFICES ASSUME Init PROVE StateIs
  OBVIOUS
<1>2. tree = EmptyTree /\ log = <<>>
  BY <1>1 DEF Init
<1>3. Len(log) = 0 /\ MaxLeaves \in Nat
  BY <1>2, MaxLeavesAssumption
<1> QED
  BY <1>2, <1>3, EmptyIs DEF StateIs

LEMMA NextIs ==
  ASSUME Calls \subseteq PlainCalls, StateIs, [Next]_vars
  PROVE  StateIs'
<1> USE MaxLeavesAssumption
<1>1. TreeIs(tree, log) /\ Len(log) <= MaxLeaves /\ Len(log) \in Nat /\ Len(log) = num_leaves(tree)
      /\ log \in Seq(LeafHashes)
  BY TreeLeaves DEF StateIs
<1>2. CASE UNCHANGED vars
  BY <1>1, <1>2 DEF vars, StateIs
<1>3. CASE Insert
  <2>1. PICK v \in Values : /\ num_leaves(tree) < MaxLeaves
                            /\ Becomes(Push(tree, LeafHash(<<num_leaves(tree), v>>)),
                                       Append(log, LeafHash(<<num_leaves(tree), v>>)))
    BY <1>3 DEF Insert
  <2>2. PICK hash : hash = LeafHash(<<num_leaves(tree), v>>)
    OBVIOUS
  <2>3. tree' = Push(tree, hash) /\ log' = Append(log, hash)
    BY <2>1, <2>2 DEF Becomes
  <2>4. TreeIs(tree', log')
    BY <1>1, <2>2, <2>3, InsertIs
  <2>5. Len(log') <= MaxLeaves
    BY <1>1, <2>1, <2>3
  <2> QED
    BY <2>4, <2>5 DEF StateIs
<1>4. CASE Read
  <2>1. ~empty(tree) /\ tree' = ComputeRoot(tree) /\ log' = log
    BY <1>4 DEF Read, Becomes
  <2>2. TreeIs(tree', log')
    BY <1>1, <2>1, NotEmpty, ComputeRootIs
  <2> QED
    BY <1>1, <2>1, <2>2 DEF StateIs
<1>5. CASE CallSize
  <2>1. tree' = SizeCall(tree) /\ log' = log
    BY <1>5 DEF CallSize, Becomes
  <2>2. TreeIs(tree', log')
    BY <1>1, <2>1, SizeCallIs
  <2> QED
    BY <1>1, <2>1, <2>2 DEF StateIs
<1>6. CASE Flush
  <2>1. PICK index \in 0 .. max_index(tree) : tree' = FlushTo(tree, index) /\ log' = log
    BY <1>6 DEF Flush, Becomes
  <2>2. index \in Nat
    OBVIOUS
  <2>3. TreeIs(tree', log')
    BY <1>1, <2>1, <2>2, FlushIs
  <2> QED
    BY <1>1, <2>1, <2>3 DEF StateIs
<1>7. CASE Retract
  <2>1. PICK index \in 0 .. max_index(tree) : tree' = RetractTo(tree, index) /\ log' = UpTo(index)
    BY <1>7 DEF Retract, Becomes
  <2>2. index \in Nat
    OBVIOUS
  <2>3. UpTo(index) = Until(tree, log, index)
    BY DEF UpTo, Until
  <2>4. TreeIs(tree', log')
    BY <1>1, <2>1, <2>2, <2>3, RetractIs
  <2>5. Len(log') <= MaxLeaves
    <3>1. CASE log' = log
      BY <1>1, <3>1
    <3>2. CASE log' # log
      <4>1. PICK k : k = index + 1
        OBVIOUS
      <4>2. log' = SubSeq(log, 1, k) /\ index < Len(log)
        BY <2>1, <2>3, <3>2, <4>1 DEF Until
      <4>3. k \in Nat /\ k <= Len(log)
        BY <1>1, <2>2, <4>1, <4>2
      <4>4. Len(log') = k
        BY <1>1, <4>2, <4>3, PrefixIs
      <4> QED
        BY <1>1, <4>3, <4>4
    <3> QED
      BY <3>1, <3>2
  <2> QED
    BY <2>4, <2>5 DEF StateIs
<1>8. ~Assign /\ ~Reload
  BY DEF Assign, Reload, PlainCalls
<1> QED
  BY <1>2, <1>3, <1>4, <1>5, <1>6, <1>7, <1>8 DEF Next

(* The tree is what its leaves say, after any of the calls.                *)
THEOREM StateInvariant ==
  ASSUME Calls \subseteq PlainCalls
  PROVE  Spec => []StateIs
<1>1. StateIs /\ [Next]_vars => StateIs'
  BY NextIs
<1> QED
  BY <1>1, InitIs, PTL DEF Spec
-----------------------------------------------------------------------------
(* What the invariant implies.                                             *)

LEMMA StateType ==
  StateIs => TypeOK
<1>1. SUFFICES ASSUME StateIs PROVE TypeOK
  OBVIOUS
<1>2. PICK S, par, off, cnt, p, b, L, m : Holding(tree, log, L, m, S, par, off, cnt, p, b)
  BY <1>1, TreeHolding DEF StateIs
<1>3. num_leaves(tree) <= MaxLeaves
  BY <1>1, TreeLeaves DEF StateIs
<1>4. TypeIs(tree)
  BY <1>2, HoldingType
<1>5. ASSUME tree.insertion_stack = <<>> PROVE LeftFull
  <2>1. ASSUME NEW n \in DOMAIN tree.heap, tree.heap[n].left # Nil
        PROVE  ShapeIs(tree.heap, tree.heap[n])
    BY <1>2, <1>5, <2>1, HoldingShape
  <2> QED
    BY <2>1 DEF LeftFull, ShapeIs
<1> QED
  BY <1>3, <1>4, <1>5 DEF TypeOK, TypeIs

LEMMA StateClean ==
  StateIs => CleanHashesAreRight
<1>1. SUFFICES ASSUME StateIs PROVE CleanHashesAreRight
  OBVIOUS
<1>2. PICK S, par, off, cnt, p, b, L, m : Holding(tree, log, L, m, S, par, off, cnt, p, b)
  BY <1>1, TreeHolding DEF StateIs
<1>3. ASSUME NEW n \in DOMAIN tree.heap, tree.heap[n].left # Nil, ~tree.heap[n].dirty
      PROVE  CleanIs(tree.heap, tree.heap[n])
  BY <1>2, <1>3, HoldingClean
<1> QED
  BY <1>3 DEF CleanHashesAreRight, CleanIs

LEMMA StateOwned ==
  StateIs => NodesAreOwned
<1>1. SUFFICES ASSUME StateIs PROVE NodesAreOwned
  OBVIOUS
<1>2. PICK S, par, off, cnt, p, b, L, m : Holding(tree, log, L, m, S, par, off, cnt, p, b)
  BY <1>1, TreeHolding DEF StateIs
<1>3. DOMAIN tree.heap = UNION {Subtree(tree.heap, n) : n \in Owners(tree)}
  BY <1>2, HoldingOwned
<1>4. Range(tree.leaf_nodes) \subseteq DOMAIN tree.heap
  BY <1>2, HoldingLeaves
<1>5. ASSUME NEW n \in DOMAIN tree.heap, NEW k \in DOMAIN tree.heap, n # k,
             tree.heap[n].left # Nil, tree.heap[k].left # Nil
      PROVE  {tree.heap[n].left, tree.heap[n].right} \cap {tree.heap[k].left, tree.heap[k].right} = {}
  BY <1>2, <1>5, HoldingOnce
<1>6. Owners(tree) = {tree.root} \cup OnStack \cup Range(tree.uninserted_leaf_nodes)
  BY DEF Owners, OnStack
<1> QED
  BY <1>3, <1>4, <1>5, <1>6 DEF NodesAreOwned

LEMMA StateCommits ==
  StateIs => RootCommitsToLeaves
<1>1. SUFFICES ASSUME StateIs, ~empty(tree)
               PROVE  /\ RootHash(tree) = MTH(log)
                      /\ Len(log) = num_leaves(tree)
                      /\ Hashes(tree, tree.leaf_nodes \o tree.uninserted_leaf_nodes)
                           = SubSeq(log, tree.num_flushed + 1, Len(log))
  BY DEF RootCommitsToLeaves
<1>2. TreeIs(tree, log)
  BY <1>1 DEF StateIs
<1>3. log # <<>>
  BY <1>1, <1>2, NotEmpty
<1>4. HashAtRoot(ComputeRoot(tree)) = MTH(log)
  BY <1>2, <1>3, ComputeRootIs
<1> QED
  BY <1>2, <1>4, TreeLeaves DEF RootHash

LEMMA StatePaths ==
  StateIs => PathsVerify
<1>1. SUFFICES ASSUME StateIs, ~empty(tree), NEW i \in Readable
               PROVE  \E now \in {ComputeRoot(tree)} : \E p \in {PathComputed(now, i)} :
                        /\ p = Path(log[i + 1], i, AuditPath(log, i), Len(log) - 1)
                        /\ PathRoot(p) = HashAtRoot(now)
  BY DEF PathsVerify
<1>2. TreeIs(tree, log)
  BY <1>1 DEF StateIs
<1>3. PICK now, q : now = ComputeRoot(tree) /\ q = PathComputed(now, i)
  OBVIOUS
<1>4. log # <<>>
  BY <1>1, <1>2, NotEmpty
<1>5. TreeIs(now, log)
  BY <1>2, <1>3, <1>4, ComputeRootIs
<1>6. PICK S, par, off, cnt, p : Clean(now, log, S, par, off, cnt, p)
  BY <1>2, <1>3, <1>4, ComputeRootIs
<1>7. IsTree(tree)
  BY <1>2 DEF TreeIs, Holds
<1>8. now.num_flushed = tree.num_flushed
  BY <1>3, <1>7, ComputeRootKeeps
<1>9. i \in Nat /\ now.num_flushed <= i /\ i < Len(log)
  <2>1. i \in min_index(tree) .. Len(log) - 1 /\ Len(log) \in Nat
    BY <1>2, TreeLeaves DEF Readable
  <2>2. tree.num_flushed \in Nat
    BY <1>7 DEF IsTree
  <2> QED
    BY <1>8, <2>1, <2>2 DEF min_index
<1>10. q = Path(log[i + 1], i, AuditPath(log, i), Len(log) - 1) /\ PathRoot(q) = HashAtRoot(now)
  BY <1>3, <1>4, <1>5, <1>6, <1>9, PathIs
<1> QED
  BY <1>3, <1>10

LEMMA StatePast ==
  StateIs => PastIsRetraction
<1>1. SUFFICES ASSUME StateIs, ~empty(tree), NEW as_of \in Readable
               PROVE  \E now \in {ComputeRoot(tree)} : \E past \in {ComputeRoot(RetractTo(tree, as_of))} :
                        /\ PastRoot(now, as_of) = RootHash(past)
                        /\ \A i \in min_index(tree) .. as_of : PastPath(now, i, as_of) = PathTo(past, i)
  BY DEF PastIsRetraction
<1>2. TreeIs(tree, log)
  BY <1>1 DEF StateIs
<1>3. PICK now, past : now = ComputeRoot(tree) /\ past = ComputeRoot(RetractTo(tree, as_of))
  OBVIOUS
<1>4. log # <<>>
  BY <1>1, <1>2, NotEmpty
<1>5. tree.num_flushed \in Nat /\ Len(log) \in Nat /\ Len(log) = num_leaves(tree)
  BY <1>2, TreeLeaves DEF TreeIs, Holds, IsTree
<1>6. as_of \in Nat /\ tree.num_flushed <= as_of /\ as_of < Len(log)
  <2>1. as_of \in min_index(tree) .. Len(log) - 1
    BY <1>5 DEF Readable
  <2> QED
    BY <1>5, <2>1 DEF min_index
<1>7. ASSUME NEW i \in Nat, tree.num_flushed <= i, i <= as_of
      PROVE  PastRoot(now, as_of) = RootHash(past) /\ PastPath(now, i, as_of) = PathTo(past, i)
  <2>1. PastAgrees(tree, ComputeRoot(tree), i, as_of)
    BY <1>2, <1>4, <1>6, <1>7, PastOfTree
  <2> QED
    BY <1>3, <2>1 DEF PastAgrees
<1>8. \A i \in min_index(tree) .. as_of : i \in Nat /\ tree.num_flushed <= i /\ i <= as_of
  BY <1>5, <1>6 DEF min_index
<1> QED
  BY <1>3, <1>6, <1>7, <1>8

(* Every tree the calls leave is a tree of nodes with a height, a size and *)
(* hashes: the pointers of insert, the walks, retract_to and flush_to are  *)
(* never to what is not there.                                             *)
THEOREM TypeCorrect ==
  ASSUME Calls \subseteq PlainCalls
  PROVE  Spec => []TypeOK
BY StateInvariant, StateType, PTL

(* A node that is not dirty has the hash of its children: insertion,       *)
(* retraction and flushing mark every node whose leaves they change, so that *)
(* hash(), which skips what is not dirty, leaves no hash stale.            *)
THEOREM CleanHashes ==
  ASSUME Calls \subseteq PlainCalls
  PROVE  Spec => []CleanHashesAreRight
BY StateInvariant, StateClean, PTL

(* Every node hangs from one parent only: a node is freed once and none is *)
(* lost, whatever is retracted, flushed and inserted again.                *)
THEOREM Ownership ==
  ASSUME Calls \subseteq PlainCalls
  PROVE  Spec => []NodesAreOwned
BY StateInvariant, StateOwned, PTL

(* The root is the hash of all leaves, in their order: however they came in, *)
(* whatever was flushed and whatever was retracted before.                 *)
THEOREM Commitment ==
  ASSUME Calls \subseteq PlainCalls
  PROVE  Spec => []RootCommitsToLeaves
BY StateInvariant, StateCommits, PTL

(* Every path verifies, against the root computed with it: path() is the   *)
(* reference's audit path for every leaf that is not flushed.              *)
THEOREM PathsAreRight ==
  ASSUME Calls \subseteq PlainCalls
  PROVE  Spec => []PathsVerify
BY StateInvariant, StatePaths, PTL

(* past_root() and past_path() answer what root() and path() would after a *)
(* retraction (TreeT::past_root, past_path, retract_to).                   *)
THEOREM PastsAreRight ==
  ASSUME Calls \subseteq PlainCalls
  PROVE  Spec => []PastIsRetraction
BY StateInvariant, StatePast, PTL
=============================================================================
