----------------------------- MODULE MerkleTree -----------------------------
(***************************************************************************)
(* merklecpp's TreeT, node by node: the heap of tree nodes with their      *)
(* cached hashes, sizes and dirty flags, the vectors that point into it,   *)
(* and the insertion stack that carries an unfinished insertion.           *)
(*                                                                         *)
(* The class is single-threaded: an action is one call of the API.  A tree *)
(* t is a record of the class's members; an operator that changes the tree *)
(* returns the new one.                                                    *)
(***************************************************************************)
EXTENDS MerkleHash, FiniteSets, FiniteSetsExt

CONSTANTS Values,            \* what distinguishes two hashes inserted at an index
          MaxLeaves,         \* bound: the caller stops inserting at this many
          Calls              \* the calls the caller makes

ASSUME MaxLeavesAssumption == MaxLeaves \in Nat

VARIABLES tree,
          log                \* auxiliary: the leaves the caller has kept, the
                             \* flushed ones included

vars == <<tree, log>>

Nil == 0                                              \* nullptr

EmptyTree == [heap |-> <<>>, root |-> Nil, leaf_nodes |-> <<>>,
              uninserted_leaf_nodes |-> <<>>, num_flushed |-> 0,
              insertion_stack |-> <<>>]

num_leaves(t) == t.num_flushed + Len(t.leaf_nodes) + Len(t.uninserted_leaf_nodes)
min_index(t)  == t.num_flushed
max_index(t)  == IF num_leaves(t) = 0 THEN 0 ELSE num_leaves(t) - 1
empty(t)      == num_leaves(t) = 0
InRange(t, index) == min_index(t) <= index /\ index <= max_index(t)

(* leaf(index), for an index in range.                                     *)
LeafAt(t, index) ==
  t.heap[(t.leaf_nodes \o t.uninserted_leaf_nodes)[index - t.num_flushed + 1]].hash
-----------------------------------------------------------------------------
(* TreeT::Node                                                             *)

Fresh(heap) == Min((1 .. Cardinality(DOMAIN heap) + 1) \ DOMAIN heap)

(* update_sizes()                                                          *)
Sized(heap, node) ==
  IF node.left # Nil /\ node.right # Nil
  THEN [node EXCEPT
          !.size = heap[node.left].size + heap[node.right].size + 1,
          !.height = Max({heap[node.left].height, heap[node.right].height}) + 1]
  ELSE [node EXCEPT !.size = 1, !.height = 1]

UpdateSizes(heap, n) == [heap EXCEPT ![n] = Sized(heap, @)]

(* make(hash) and make(left, right)                                        *)
NewLeaf(hash) == [hash |-> hash, left |-> Nil, right |-> Nil,
                  size |-> 1, height |-> 1, dirty |-> FALSE]
NewInner(heap, l, r) ==
  Sized(heap, [NewLeaf(ZeroHash) EXCEPT !.left = l, !.right = r, !.dirty = TRUE])

Allocate(heap, node) ==
  LET new == Fresh(heap)
  IN  [n \in DOMAIN heap \cup {new} |-> IF n = new THEN node ELSE heap[n]]

IsFull(node) == node.size = pow2[node.height] - 1

(* The nodes reached from n, n included, when the walk goes on from a node *)
(* of open only; none from nullptr.                                        *)
Reached(heap, n, open) ==
  LET reached[m \in DOMAIN heap \cup {Nil}] ==
        IF m \notin open THEN {}
        ELSE {m} \cup reached[heap[m].left] \cup reached[heap[m].right]
  IN  reached[n]

Subtree(heap, n) == Reached(heap, n, DOMAIN heap)

Without(heap, nodes) == [n \in DOMAIN heap \ nodes |-> heap[n]]
Delete(heap, n) == Without(heap, Subtree(heap, n))
-----------------------------------------------------------------------------
(* hash(n), on a node that is dirty: the loop over hashing_stack goes down *)
(* dirty children only, and a node's hash is computed after theirs.        *)
Dirty(heap) == {n \in DOMAIN heap : heap[n].dirty}

HashIfDirty(heap, n) ==
  LET hash[m \in DOMAIN heap] ==
        IF heap[m].dirty THEN HashFunction(hash[heap[m].left], hash[heap[m].right])
        ELSE heap[m].hash
      visited == Reached(heap, n, Dirty(heap))
  IN  [m \in DOMAIN heap |->
         IF m \in visited THEN [heap[m] EXCEPT !.hash = hash[m], !.dirty = FALSE]
         ELSE heap[m]]

(* continue_insertion_stack(n, new_leaf): down from n to the first full    *)
(* node, which gets a parent with the new leaf as its sibling.             *)
GoLeft(heap, n) == ~IsFull(heap[heap[n].left])

Lower(heap, n) ==
  IF IsFull(heap[n]) THEN n ELSE IF GoLeft(heap, n) THEN heap[n].left ELSE heap[n].right

Descent(heap, n) ==
  LET at[k \in 0 .. heap[n].height - 1] ==
        IF k = 0 THEN n ELSE Lower(heap, at[k - 1])
      depth == Min({k \in DOMAIN at : IsFull(heap[at[k]])})
  IN  [k \in 1 .. depth + 1 |-> at[k - 1]]

MarkDirty(heap, nodes) ==
  [n \in DOMAIN heap |-> IF n \in nodes THEN [heap[n] EXCEPT !.dirty = TRUE] ELSE heap[n]]

ContinueInsertionStack(t, n, new_leaf) ==
  LET descent == Descent(t.heap, n)
      opened == Front(descent)
      heap == MarkDirty(t.heap, Range(opened))
  IN  [t EXCEPT
         !.heap = Allocate(heap, NewInner(heap, Last(descent), new_leaf)),
         !.insertion_stack =
           @ \o [k \in DOMAIN opened |->
                   [n |-> opened[k], left |-> GoLeft(t.heap, opened[k])]]
             \o <<[n |-> Fresh(t.heap), left |-> FALSE]>>]

(* One element off the stack: "result" becomes its left or right child.    *)
Attach(heap, top, result) ==
  UpdateSizes(IF top.left
              THEN [heap EXCEPT ![top.n].left = result, ![top.n].dirty = TRUE]
              ELSE [heap EXCEPT ![top.n].right = result, ![top.n].dirty = TRUE],
              top.n)

(* When an incomplete run stops: at the first node that is not full.       *)
StopsAt(node, complete) == ~complete /\ ~IsFull(node)

Pop(popped, top) ==
  [heap |-> Attach(popped.heap, top, popped.result), result |-> top.n]

(* _root = process_insertion_stack(complete): popped[k] is the heap, and   *)
(* the node to hang next, after k elements below the top.  What is left of *)
(* the stack waits for the next insertion.                                 *)
ProcessInsertionStack(t, complete) ==
  LET below == Len(t.insertion_stack) - 1
      result == Last(t.insertion_stack).n
      popped[k \in 0 .. below] ==
        IF k = 0 THEN [heap |-> UpdateSizes(t.heap, result), result |-> result]
        ELSE Pop(popped[k - 1], t.insertion_stack[below + 1 - k])
      stop == Min({k \in 1 .. below : StopsAt(popped[k].heap[popped[k].result], complete)}
                    \cup {below})
  IN  [t EXCEPT !.heap = popped[stop].heap,
                !.root = popped[stop].result,
                !.insertion_stack = SubSeq(@, 1, below - stop)]

Hang(t, n) ==
  IF t.insertion_stack = <<>> /\ t.root = Nil
  THEN [t EXCEPT !.root = n]
  ELSE ProcessInsertionStack(ContinueInsertionStack(t, t.root, n), FALSE)

InsertLeaf(t, n) == Hang([t EXCEPT !.leaf_nodes = Append(@, n)], n)

LeaveIncomplete(t) == t

CompleteInsertion(t) ==
  IF t.insertion_stack # <<>> THEN ProcessInsertionStack(t, TRUE) ELSE t

(* insert_leaves(complete)                                                 *)
HangWaiting(t) ==
  LET hung[k \in 0 .. Len(t.uninserted_leaf_nodes)] ==
        IF k = 0 THEN t ELSE InsertLeaf(hung[k - 1], t.uninserted_leaf_nodes[k])
  IN  [hung[Len(t.uninserted_leaf_nodes)] EXCEPT !.uninserted_leaf_nodes = <<>>]
InsertLeaves(t, complete) ==
  IF complete THEN CompleteInsertion(HangWaiting(t)) ELSE HangWaiting(t)

(* compute_root(), on a tree that is not empty                             *)
Hashed(t) == [t EXCEPT !.heap = HashIfDirty(@, t.root)]
ComputeRoot(t) == Hashed(InsertLeaves(t, TRUE))

HashAtRoot(t) == t.heap[t.root].hash
RootHash(t) == HashAtRoot(ComputeRoot(t))
-----------------------------------------------------------------------------
(* walk_to(): "it" is what is left of the index's bits.  At each height the *)
(* highest says whether to go right; heights that the current node does    *)
(* not have are skipped.  turns lists the turns so far, the last one first.*)
StepDown(heap, at, height) ==
  LET right == at.it >= pow2[height - 2]
      turn == [n |-> at.n, right |-> right]
      child == IF right THEN heap[at.n].right ELSE heap[at.n].left
      rest == IF right THEN at.it - pow2[height - 2] ELSE at.it
  IN  IF heap[at.n].height = height
      THEN [n |-> child, it |-> rest, turns |-> <<turn>> \o at.turns]
      ELSE [at EXCEPT !.it = rest]

(* A walk that changes nothing, on a tree with a root.                     *)
WalkTo(t, index) ==
  LET height == t.heap[t.root].height
      at[k \in 0 .. height - 1] ==
        IF k = 0 THEN [n |-> t.root, it |-> index, turns |-> <<>>]
        ELSE StepDown(t.heap, at[k - 1], height - k + 1)
  IN  at[height - 1]

Turns(t, index) == WalkTo(t, index).turns

(* The turns to the right, in their order.                                 *)
RightTurns(turns) ==
  LET kept[k \in 0 .. Len(turns)] ==
        IF k = 0 THEN <<>>
        ELSE IF turns[k].right THEN Append(kept[k - 1], turns[k]) ELSE kept[k - 1]
  IN  kept[Len(turns)]

LeftHash(t, turn) == t.heap[t.heap[turn.n].left].hash
RightHash(t, turn) == t.heap[t.heap[turn.n].right].hash

(* insert(hash)                                                            *)
Push(t, hash) ==
  [t EXCEPT !.heap = Allocate(@, NewLeaf(hash)),
            !.uninserted_leaf_nodes = Append(@, Fresh(t.heap))]

(* flush_to(): the left child of a right turn keeps its hash and loses     *)
(* everything under it.  The walk computes the root first, so no hash is   *)
(* missing.                                                                *)
GoneUnder(heap, nodes) == UNION {Subtree(heap, n) \ {n} : n \in nodes}

ConflateKeepingPointers(heap, nodes) == Without(heap, GoneUnder(heap, nodes))

Conflate(heap, nodes) ==
  [n \in DOMAIN heap \ GoneUnder(heap, nodes) |->
     IF n \in nodes THEN [heap[n] EXCEPT !.left = Nil, !.right = Nil] ELSE heap[n]]

LeftOfWalk(t, index) ==
  {t.heap[turn.n].left : turn \in {u \in Range(Turns(t, index)) : u.right}}

FlushComputed(t, index) ==
  LET num_newly_flushed == index - t.num_flushed
  IN  [t EXCEPT !.heap = Conflate(@, LeftOfWalk(t, index)),
                !.leaf_nodes = SubSeq(@, num_newly_flushed + 1, Len(@)),
                !.num_flushed = @ + num_newly_flushed]

FlushTo(t, index) ==
  IF index <= min_index(t) \/ ~InRange(t, index) THEN t
  ELSE FlushComputed(ComputeRoot(t), index)

EliminateKeepingLeft(heap, n) ==
  LET l == heap[n].left
  IN  [Delete(heap, heap[n].right) EXCEPT ![n] = heap[l]]

(* retract_to() on a left turn: the right child goes, the left child is    *)
(* copied over its parent and goes too.                                    *)
Eliminate(heap, n) ==
  LET l == heap[n].left
      kept == Delete(heap, heap[n].right)
      inner == heap[l].left # Nil /\ heap[l].right # Nil
  IN  [Without(kept, {l}) EXCEPT
         ![n] = [heap[l] EXCEPT !.dirty = @ \/ inner]]

RetractDownCleanOnRight(at, height) ==
  LET right == at.it >= pow2[height - 2]
      rest == IF right THEN at.it - pow2[height - 2] ELSE at.it
      next == [at EXCEPT !.it = rest, !.walk_stack = Append(@, at.n)]
  IN  IF at.heap[at.n].height # height THEN next
      ELSE IF right THEN [next EXCEPT !.n = at.heap[at.n].right]
      ELSE [next EXCEPT !.heap = Eliminate(@, at.n)]

(* One height of the walk of retract_to().  The walk looks at a node again *)
(* once a left turn has put its left child there, which is not as high.    *)
RetractDown(at, height) ==
  LET right == at.it >= pow2[height - 2]
      rest == IF right THEN at.it - pow2[height - 2] ELSE at.it
      next == [at EXCEPT !.it = rest, !.walk_stack = Append(@, at.n)]
  IN  IF at.heap[at.n].height # height THEN next
      ELSE IF right THEN [next EXCEPT !.heap[at.n].dirty = TRUE,
                                      !.n = at.heap[at.n].right]
      ELSE [next EXCEPT !.heap = Eliminate(@, at.n)]

(* update_sizes() along walk_stack, from the back.                         *)
UpdateWalked(heap, walk_stack) ==
  LET updated[k \in 0 .. Len(walk_stack)] ==
        IF k = 0 THEN heap
        ELSE UpdateSizes(updated[k - 1], walk_stack[Len(walk_stack) + 1 - k])
  IN  updated[Len(walk_stack)]

(* The heap the walk leaves and the node that now holds the leaf.          *)
RetractWalk(t, index) ==
  LET height == t.heap[t.root].height
      at[k \in 0 .. height - 1] ==
        IF k = 0 THEN [heap |-> t.heap, n |-> t.root, it |-> index, walk_stack |-> <<>>]
        ELSE RetractDown(at[k - 1], height - k + 1)
      end == at[height - 1]
  IN  [heap |-> UpdateWalked(end.heap, end.walk_stack), leaf |-> end.n]

OverByOne(t, index) == index - (t.num_flushed + Len(t.leaf_nodes))

(* How many waiting leaves stay when the index is that of a waiting leaf.  *)
Over(t, index) == index - (t.num_flushed + Len(t.leaf_nodes)) + 1

RetractWaiting(t, index) ==
  LET keep == Min({Over(t, index), Len(t.uninserted_leaf_nodes)})
      gone == Range(SubSeq(t.uninserted_leaf_nodes, keep + 1,
                           Len(t.uninserted_leaf_nodes)))
  IN  [t EXCEPT !.heap = Without(@, gone),
                !.uninserted_leaf_nodes = SubSeq(@, 1, keep)]

(* What the walk leaves in the tree; t is the tree before it.              *)
Retracted(t, walk, index) ==
  [t EXCEPT
     !.heap = walk.heap,
     !.leaf_nodes = SubSeq([@ EXCEPT ![index - t.num_flushed + 1] = walk.leaf],
                           1, Len(@) - (num_leaves(t) - index - 1))]

RetractComputed(t, index) == Retracted(t, RetractWalk(t, index), index)

RetractInserted(t, index) == RetractComputed(ComputeRoot(t), index)

RetractTo(t, index) ==
  IF max_index(t) < index \/ index < min_index(t) THEN t
  ELSE IF index >= t.num_flushed + Len(t.leaf_nodes) THEN RetractWaiting(t, index)
  ELSE RetractInserted(t, index)
-----------------------------------------------------------------------------
StepOnOwnSide(t, turn) == IF turn.right THEN Element(RightHash(t, turn), PATH_LEFT)
                                        ELSE Element(LeftHash(t, turn), PATH_RIGHT)

(* path(index) and past_root(index)                                        *)
Step(t, turn) == IF turn.right THEN Element(LeftHash(t, turn), PATH_LEFT)
                               ELSE Element(RightHash(t, turn), PATH_RIGHT)

Elements(t, turns) == [i \in DOMAIN turns |-> Step(t, turns[i])]

PathComputed(t, index) ==
  Path(LeafAt(t, index), index, Elements(t, Turns(t, index)), max_index(t))
PathTo(t, index) == PathComputed(ComputeRoot(t), index)

(* past_root() hashes what a path to the index has on its left.            *)
PastRootOf(p) ==
  LET result[k \in 0 .. Len(p.elements)] ==
        IF k = 0 THEN p.leaf
        ELSE IF p.elements[k].direction = PATH_LEFT THEN Join(result[k - 1], p.elements[k])
        ELSE result[k - 1]
  IN  result[Len(p.elements)]
PastRoot(t, index) == PastRootOf(PathTo(t, index))

(* What an element of a path with its leaf's index as the last leaf is     *)
(* hashed onto: HASH_FUNCTION(it->hash, as_of_hash, as_of_hash).           *)
JoinLefts(t, hash, turns) ==
  LET joined[k \in 0 .. Len(turns)] ==
        IF k = 0 THEN hash ELSE HashFunction(LeftHash(t, turns[k]), joined[k - 1])
  IN  joined[Len(turns)]

AsOfHashTopDown(t, as_of, lefts) == JoinLefts(t, LeafAt(t, as_of), Reverse(lefts))

(* past_path(index, as_of): the walks to both indices part at the fork.    *)
(* Under it, the path to index is as it is now; what index joins with at   *)
(* the fork is the hash of the leaves up to as_of; above it, only what     *)
(* lies to the left existed at as_of.                                      *)
AsOfHash(t, as_of, lefts) == JoinLefts(t, LeafAt(t, as_of), lefts)

(* How many turns the walks share.                                         *)
Shared(to_i, to_a) ==
  LET down_i == Reverse(to_i)
      down_a == Reverse(to_a)
  IN  Min({k - 1 : k \in {j \in DOMAIN to_i \cap DOMAIN to_a :
                            down_i[j].right # down_a[j].right}}
            \cup {Len(to_i)})

Above(turns, shared) == SubSeq(turns, Len(turns) - shared + 1, Len(turns))

RightsAboveNow(turns, shared) == Above(turns, shared)

RightsAbove(turns, shared) == RightTurns(Above(turns, shared))
Below(turns, shared) == SubSeq(turns, 1, Len(turns) - shared - 1)
RightsBelow(turns, shared) == RightTurns(Below(turns, shared))

PastPathFrom(t, index, as_of, to_i, to_a, shared) ==
  Path(LeafAt(t, index), index,
       Elements(t, Below(to_i, shared))
         \o (IF shared = Len(to_i) THEN <<>>
             ELSE <<Element(AsOfHash(t, as_of, RightsBelow(to_a, shared)), PATH_RIGHT)>>)
         \o Elements(t, RightsAbove(to_i, shared)),
       as_of)

PastPathComputed(t, index, as_of) ==
  PastPathFrom(t, index, as_of, Turns(t, index), Turns(t, as_of),
               Shared(Turns(t, index), Turns(t, as_of)))
PastPath(t, index, as_of) == PastPathComputed(ComputeRoot(t), index, as_of)
-----------------------------------------------------------------------------
(* operator=: a deep copy of what hangs from _root, in which the leaf      *)
(* nodes are found again, and of the waiting leaves.  The copy's nodes     *)
(* carry the names of the originals.                                       *)
LeafNodesUnder(heap, n) ==
  LET leaves[m \in DOMAIN heap \cup {Nil}] ==
        IF m = Nil THEN <<>>
        ELSE leaves[heap[m].left] \o leaves[heap[m].right]
             \o IF heap[m].size = 1 THEN <<m>> ELSE <<>>
  IN  leaves[n]

ToSkipNone(t) == 0

(* A flushed leaf that is still a node is skipped: there is one when the   *)
(* number of flushed leaves is odd.                                        *)
ToSkip(t) == t.num_flushed % 2

Copy(t) ==
  LET copied == Subtree(t.heap, t.root) \cup Range(t.uninserted_leaf_nodes)
      leaves == LeafNodesUnder(t.heap, t.root)
  IN  [t EXCEPT !.heap = Without(@, DOMAIN @ \ copied),
                !.leaf_nodes = SubSeq(leaves, ToSkip(t) + 1, Len(leaves)),
                !.insertion_stack = <<>>]

(* serialise(from, to), and serialise() for the whole window: the leaves,  *)
(* the index of the first, and the hashes to the left of it, lowest first. *)
LeftEdge(t, turns) == [i \in DOMAIN turns |-> LeftHash(t, turns[i])]

SerialiseComputed(t, from, to) ==
  [num_flushed |-> from,
   leaves |-> [i \in 1 .. to - from + 1 |-> LeafAt(t, from + i - 1)],
   extras |-> LeftEdge(t, RightTurns(Turns(t, from)))]
Serialise(t, from, to) == SerialiseComputed(ComputeRoot(t), from, to)

(* One level of deserialise(): nodes are paired, an odd one is carried up. *)
JoinPair(b, l, r) ==
  [heap |-> Allocate(b.heap, NewInner(b.heap, l, r)), level |-> Append(b.level, Fresh(b.heap))]

Pair(heap, level) ==
  LET pairs == Len(level) \div 2
      next[k \in 0 .. pairs] ==
        IF k = 0 THEN [heap |-> heap, level |-> <<>>]
        ELSE JoinPair(next[k - 1], level[2 * k - 1], level[2 * k])
  IN  [next[pairs] EXCEPT !.level = @ \o SubSeq(level, 2 * pairs + 1, Len(level))]

(* A restored left-edge hash stands for a full subtree of its level.       *)
Extra(hash, level_no) ==
  [NewLeaf(hash) EXCEPT !.height = level_no + 1, !.size = 2^(level_no + 1) - 1]

ExtraBehind(b, it, level_no, extras) ==
  IF it % 2 = 1
  THEN [heap |-> Allocate(b.heap, Extra(Head(extras), level_no)),
        level |-> Append(b.level, Fresh(b.heap))]
  ELSE b

(* The level with the left-edge hash in front, when the level has one.     *)
WithExtra(b, it, level_no, extras) ==
  IF it % 2 = 1
  THEN [heap |-> Allocate(b.heap, Extra(Head(extras), level_no)),
        level |-> <<Fresh(b.heap)>> \o b.level]
  ELSE b

PairLevel(b) == Pair(b.heap, b.level)

NextLevel(s) ==
  IF s.it = 0 /\ Len(s.built.level) <= 1 THEN s
  ELSE [built |-> PairLevel(WithExtra(s.built, s.it, s.level_no, s.extras)),
        it |-> s.it \div 2, level_no |-> s.level_no + 1,
        extras |-> IF s.it % 2 = 1 THEN Tail(s.extras) ELSE s.extras]

(* The while loop over the levels; a level less and a bit less each time.  *)
Levels(b, it, extras) ==
  LET loop[k \in 0 .. it + Len(b.level)] ==
        IF k = 0 THEN [built |-> b, it |-> it, level_no |-> 0, extras |-> extras]
        ELSE NextLevel(loop[k - 1])
  IN  loop[it + Len(b.level)].built

Restored(b, bytes) ==
  [EmptyTree EXCEPT !.heap = b.heap,
                    !.root = IF b.level = <<>> THEN Nil ELSE b.level[1],
                    !.leaf_nodes = [i \in DOMAIN bytes.leaves |-> i],
                    !.num_flushed = bytes.num_flushed]

Deserialise(bytes) ==
  Restored(Levels([heap |-> [i \in DOMAIN bytes.leaves |-> NewLeaf(bytes.leaves[i])],
                   level |-> [i \in DOMAIN bytes.leaves |-> i]],
                  bytes.num_flushed, bytes.extras),
           bytes)

(* size(): hangs the waiting leaves, but leaves the insertion unfinished.  *)
SizeCall(t) == IF t.uninserted_leaf_nodes # <<>> THEN InsertLeaves(t, FALSE) ELSE t
SizeAtRoot(t) == IF t.root = Nil THEN 0 ELSE t.heap[t.root].size
Size(t) == SizeAtRoot(SizeCall(t))
-----------------------------------------------------------------------------
(* A call leaves the tree t and the leaves l.                              *)
Becomes(t, l) == tree' = t /\ log' = l

(* What is left of the leaves when everything after an index goes.         *)
UpTo(index) ==
  IF min_index(tree) <= index /\ index < Len(log) THEN SubSeq(log, 1, index + 1) ELSE log

Init == tree = EmptyTree /\ log = <<>>

(* The calls.  Only the caller's choice of what to call is free; insert()  *)
(* of a list is one insert() after the other.                              *)
Insert == \E v \in Values :
  /\ "insert" \in Calls
  /\ num_leaves(tree) < MaxLeaves
  /\ LET hash == LeafHash(<<num_leaves(tree), v>>)
     IN  Becomes(Push(tree, hash), Append(log, hash))

(* root(), path(), past_root(), past_path(), serialise(), serialised_size():*)
(* what they answer is computed on the tree that compute_root() leaves.    *)
Read == "read" \in Calls /\ ~empty(tree) /\ Becomes(ComputeRoot(tree), log)

Flush == \E index \in 0 .. max_index(tree) :
  "flush" \in Calls /\ Becomes(FlushTo(tree, index), log)

Retract == \E index \in 0 .. max_index(tree) :
  "retract" \in Calls /\ Becomes(RetractTo(tree, index), UpTo(index))

CallSize == "size" \in Calls /\ Becomes(SizeCall(tree), log)

(* TreeT copy(tree), after which the caller keeps the copy.                *)
Assign == "copy" \in Calls /\ Becomes(Copy(tree), log)

(* serialise(from, to) and deserialise() what it wrote.                    *)
Reload == \E from, to \in min_index(tree) .. max_index(tree) :
  /\ "reload" \in Calls
  /\ from <= to /\ ~empty(tree)
  /\ Becomes(Deserialise(Serialise(tree, from, to)), UpTo(to))

Next == Insert \/ Read \/ Flush \/ Retract \/ CallSize \/ Assign \/ Reload

Spec == Init /\ [][Next]_vars
-----------------------------------------------------------------------------
Hashes(t, nodes) == [i \in DOMAIN nodes |-> t.heap[nodes[i]].hash]

Readable == min_index(tree) .. num_leaves(tree) - 1

(* The nodes the destructor or the insertion stack still lead to.          *)
OnStack == {tree.insertion_stack[i].n : i \in DOMAIN tree.insertion_stack}

(* What is_full() and the descent of an insertion rely on: sizes and       *)
(* heights add up, conflated nodes included, and a left subtree is full    *)
(* and at least as high as its sibling.                                    *)
LeftFull ==
  \A n \in DOMAIN tree.heap :
    LET node == tree.heap[n]
    IN  node.left # Nil =>
          /\ node.size = Sized(tree.heap, node).size
          /\ node.height = Sized(tree.heap, node).height
          /\ IsFull(tree.heap[node.left])
          /\ tree.heap[node.left].height >= tree.heap[node.right].height

(* The members are well typed, no child is a deleted node, and, unless an  *)
(* insertion is pending, the tree has the shape that insertions rely on    *)
(* whatever flush_to and retract_to did to it (Node::is_full, insert_leaf).*)
TypeOK ==
  /\ num_leaves(tree) <= MaxLeaves
  /\ \A n \in DOMAIN tree.heap :
       LET node == tree.heap[n]
       IN  /\ {node.left, node.right} \subseteq DOMAIN tree.heap \cup {Nil}
           /\ node.size \in Nat /\ node.height \in Nat /\ node.dirty \in BOOLEAN
  /\ tree.root \in DOMAIN tree.heap \cup {Nil}
  /\ tree.insertion_stack = <<>> => LeftFull

(* root() is the hash of the reference tree over all leaves ever kept,     *)
(* flushed ones included, and the leaves in the window are the ones it     *)
(* commits to: however insertions were cut up, deferred, flushed, retracted*)
(* or reloaded before.                                                     *)
RootCommitsToLeaves ==
  ~empty(tree) =>
    /\ RootHash(tree) = MTH(log)
    /\ Len(log) = num_leaves(tree)
    /\ Hashes(tree, tree.leaf_nodes \o tree.uninserted_leaf_nodes)
          = SubSeq(log, tree.num_flushed + 1, Len(log))

(* path(i) is the audit path of the leaf at i, so it verifies against      *)
(* root(), for every index that is not flushed.                            *)
PathsVerify ==
  ~empty(tree) => \E now \in {ComputeRoot(tree)} :
    \A i \in Readable : \E p \in {PathComputed(now, i)} :
      /\ p = Path(log[i + 1], i, AuditPath(log, i), Len(log) - 1)
      /\ PathRoot(p) = HashAtRoot(now)

(* What past_root() and past_path() are documented to be: the root and the *)
(* path after a retraction to as_of.  They walk the tree as it is now;     *)
(* retract_to() rebuilds it.  All of them compute the root first, which is *)
(* done once here.                                                         *)
PastIsRetraction ==
  ~empty(tree) => \E now \in {ComputeRoot(tree)} :
    \A as_of \in Readable : \E past \in {ComputeRoot(RetractTo(tree, as_of))} :
      /\ PastRoot(now, as_of) = RootHash(past)
      /\ \A i \in min_index(tree) .. as_of :
           PastPath(now, i, as_of) = PathTo(past, i)

(* A segment deserialises to the tree that a retraction to its end and a   *)
(* flush to its start give: same window, same root, same paths.            *)
SegmentIsRetractionAndFlush ==
  ~empty(tree) => \E now \in {ComputeRoot(tree)} :
    \A from, to \in Readable : from <= to =>
      \E new \in {ComputeRoot(Deserialise(SerialiseComputed(now, from, to)))},
         old \in {ComputeRoot(FlushTo(RetractTo(tree, to), from))} :
        /\ num_leaves(new) = num_leaves(old) /\ min_index(new) = min_index(old)
        /\ HashAtRoot(new) = HashAtRoot(old)
        /\ \A i \in from .. to : PathComputed(new, i) = PathComputed(old, i)

(* The note on Node::dirty: the hash of a node that is not dirty is        *)
(* correct.  hash() skips clean subtrees, so a clean node may have no      *)
(* dirty node under it either.                                             *)
CleanHashesAreRight ==
  \A n \in DOMAIN tree.heap :
    LET node == tree.heap[n]
    IN  node.left # Nil /\ ~node.dirty =>
          /\ ~tree.heap[node.left].dirty /\ ~tree.heap[node.right].dirty
          /\ node.hash = HashFunction(tree.heap[node.left].hash,
                                      tree.heap[node.right].hash)

(* Every node in memory is under _root, waiting or on the insertion stack: *)
(* nothing leaks, and no vector or child points at a deleted node.  With   *)
(* no insertion pending a node is reached once, so the destructor deletes  *)
(* it once.                                                                *)
NodesAreOwned ==
  LET owners == {tree.root} \cup OnStack \cup Range(tree.uninserted_leaf_nodes)
      children == {n \in DOMAIN tree.heap : tree.heap[n].left # Nil}
  IN  /\ DOMAIN tree.heap = UNION {Subtree(tree.heap, n) : n \in owners}
      /\ Range(tree.leaf_nodes) \subseteq DOMAIN tree.heap
      /\ tree.insertion_stack = <<>> =>
           \A n, m \in children : n # m =>
             {tree.heap[n].left, tree.heap[n].right}
               \cap {tree.heap[m].left, tree.heap[m].right} = {}

(* The assertions that end operator=: the copy has the original's indices. *)
CopyKeepsIndices ==
  LET copy == Copy(tree)
  IN  min_index(copy) = min_index(tree) /\ max_index(copy) = max_index(tree)

(* The tree's leaf bookkeeping, with the flushed leaves read off the root. *)
Window == INSTANCE MerkleWindow WITH
  Hash <- {LeafHash(<<i, v>>) : i \in 0 .. MaxLeaves - 1, v \in Values},
  WordSize <- MaxLeaves + 1,
  OutOfRange <- ZeroHash,
  leaf_nodes <- Hashes(tree, tree.leaf_nodes),
  uninserted_leaf_nodes <- Hashes(tree, tree.uninserted_leaf_nodes),
  num_flushed <- tree.num_flushed,
  flushed <- SubSeq(log, 1, tree.num_flushed)

(* Every call moves leaves as the bookkeeping says, and a flushed leaf     *)
(* stays what it was in every later root.                                  *)
ImplementsWindow == Window!Spec
=============================================================================
