---------------------------- MODULE MerkleWindow ----------------------------
(***************************************************************************)
(* The leaf bookkeeping of merklecpp's TreeT: which leaves are flushed,    *)
(* which hang in the tree, which wait to be inserted, and how every        *)
(* operation of the class moves leaves between the three.  A leaf node is  *)
(* its hash; the interior of the tree is left to MerkleTree.               *)
(***************************************************************************)
EXTENDS Integers, Sequences

CONSTANTS Hash,              \* the hashes a caller may insert
          MaxLeaves,         \* bound: the caller stops inserting at this many
          WordSize,          \* size_t arithmetic is modulo this (2^64 in the code)
          OutOfRange         \* what a thrown exception answers

ASSUME MaxLeavesAssumption == MaxLeaves \in Nat
ASSUME WordSizeAssumption == WordSize \in Nat /\ MaxLeaves < WordSize
ASSUME OutOfRangeAssumption == OutOfRange \notin Hash

VARIABLES leaf_nodes,             \* TreeT::leaf_nodes, as hashes
          uninserted_leaf_nodes,  \* TreeT::uninserted_leaf_nodes, as hashes
          num_flushed,            \* TreeT::num_flushed
          flushed                 \* history: the leaves flushed so far

vars == <<leaf_nodes, uninserted_leaf_nodes, num_flushed, flushed>>

num_leaves == num_flushed + Len(leaf_nodes) + Len(uninserted_leaf_nodes)
min_index  == num_flushed
max_index_past_end == num_leaves
max_index  == IF num_leaves = 0 THEN 0 ELSE num_leaves - 1

(* The argument checks of walk_to and of the calls that name two indices;  *)
(* compute_root() refuses an empty tree.                                   *)
Readable(index) == min_index <= index /\ index <= max_index /\ num_leaves # 0

(* The leaf nodes once insert_leaves() has hung the waiting ones.          *)
Inserted == leaf_nodes \o uninserted_leaf_nodes

Init == /\ leaf_nodes = <<>>
        /\ uninserted_leaf_nodes = <<>>
        /\ num_flushed = 0
        /\ flushed = <<>>

Insert(h) == /\ num_leaves < MaxLeaves
             /\ uninserted_leaf_nodes' = Append(uninserted_leaf_nodes, h)
             /\ UNCHANGED <<leaf_nodes, num_flushed, flushed>>

InsertLeaves == /\ leaf_nodes' = Inserted
                /\ uninserted_leaf_nodes' = <<>>
                /\ UNCHANGED <<num_flushed, flushed>>

(* Subtraction of two size_t values.                                       *)
Minus(a, b) == (a - b) % WordSize

LeafIgnoringTree(index) ==
  LET i == Minus(index, num_flushed)
  IN  IF index >= num_leaves THEN OutOfRange
      ELSE IF i < Len(leaf_nodes) THEN leaf_nodes[i + 1]
      ELSE IF i < Len(uninserted_leaf_nodes) THEN uninserted_leaf_nodes[i + 1]
      ELSE OutOfRange

(* leaf(index) and leaf_node(index).  Only the upper bound is checked; for *)
(* a flushed index the differences wrap and vector::at() has to throw.     *)
Leaf(index) ==
  LET i == Minus(index, num_flushed)
      j == Minus(i, Len(leaf_nodes))
  IN  IF index >= num_leaves THEN OutOfRange
      ELSE IF i < Len(leaf_nodes) THEN leaf_nodes[i + 1]
      ELSE IF j < Len(uninserted_leaf_nodes) THEN uninserted_leaf_nodes[j + 1]
      ELSE OutOfRange

(* root, path, past_root, past_path, serialise, serialised_size, size:     *)
(* they answer from the tree and hang the waiting leaves to do so.         *)
Query == num_leaves # 0 /\ InsertLeaves

(* How many leaves flush_to erases from the front of leaf_nodes.           *)
NumNewlyFlushed(index) == index - num_flushed

FlushTo(index) ==
  /\ index > min_index
  /\ Readable(index)
  /\ LET n == NumNewlyFlushed(index) IN
       /\ leaf_nodes' = SubSeq(Inserted, n + 1, Len(Inserted))
       /\ num_flushed' = num_flushed + n
       /\ flushed' = flushed \o SubSeq(Inserted, 1, n)
  /\ uninserted_leaf_nodes' = <<>>

OverByOne(index) == index - (num_flushed + Len(leaf_nodes))

(* How many waiting leaves a retraction to a waiting leaf leaves waiting.  *)
Over(index) == index - (num_flushed + Len(leaf_nodes)) + 1

RetractWaiting(index) ==
  /\ index >= num_flushed + Len(leaf_nodes)
  /\ index <= max_index
  /\ num_leaves # 0
  /\ uninserted_leaf_nodes' = SubSeq(uninserted_leaf_nodes, 1, Over(index))
  /\ UNCHANGED <<leaf_nodes, num_flushed, flushed>>

RetractInserted(index) ==
  /\ Readable(index)
  /\ index < num_flushed + Len(leaf_nodes)
  /\ LET num_retracted == num_leaves - index - 1
     IN  leaf_nodes' = IF num_retracted < Len(Inserted)
                       THEN SubSeq(Inserted, 1, Len(Inserted) - num_retracted)
                       ELSE <<>>
  /\ uninserted_leaf_nodes' = <<>>
  /\ UNCHANGED <<num_flushed, flushed>>

RetractTo(index) == RetractWaiting(index) \/ RetractInserted(index)

ReloadKeepingBase(from, to) ==
  /\ Readable(from) /\ Readable(to) /\ from <= to
  /\ leaf_nodes' = SubSeq(Inserted, from - num_flushed + 1, to - num_flushed + 1)
  /\ uninserted_leaf_nodes' = <<>>
  /\ flushed' = flushed \o SubSeq(Inserted, 1, from - num_flushed)
  /\ UNCHANGED num_flushed

(* deserialise(serialise(from, to)): the new tree has the leaves from..to  *)
(* inserted, and the ones before "from" only as hashes on its left edge.   *)
Reload(from, to) ==
  /\ Readable(from) /\ Readable(to) /\ from <= to
  /\ leaf_nodes' = SubSeq(Inserted, from - num_flushed + 1, to - num_flushed + 1)
  /\ uninserted_leaf_nodes' = <<>>
  /\ num_flushed' = from
  /\ flushed' = flushed \o SubSeq(Inserted, 1, from - num_flushed)

Next == \/ \E h \in Hash : Insert(h)
        \/ Query
        \/ \E index \in 0 .. max_index : FlushTo(index) \/ RetractTo(index)
        \/ \E from, to \in 0 .. max_index : Reload(from, to)

Spec == Init /\ [][Next]_vars
-----------------------------------------------------------------------------
(* The leaf hashes are hashes, the counter is a number, and the window     *)
(* starts where the flushed leaves end.                                    *)
TypeOK == /\ leaf_nodes \in Seq(Hash)
          /\ uninserted_leaf_nodes \in Seq(Hash)
          /\ flushed \in Seq(Hash)
          /\ num_flushed = Len(flushed)

(* A non-empty tree always keeps its newest leaf readable: neither a flush *)
(* (which may not pass max_index) nor a retraction (which may not go below *)
(* min_index) nor both in any order empties the window, so root(), which   *)
(* walks to that leaf's edge, keeps working.                               *)
WindowNeverEmpty == num_leaves = 0 \/ min_index < num_leaves

(* leaf() answers for exactly the indices min_index..max_index, with the   *)
(* hash inserted at that index, however the leaves are split; for a        *)
(* flushed index its unsigned differences never wrap back into range.      *)
LeafReadsTheLog ==
  \A index \in 0 .. num_leaves :
    Leaf(index) = IF index \in min_index .. num_leaves - 1
                  THEN (flushed \o leaf_nodes \o uninserted_leaf_nodes)[index + 1]
                  ELSE OutOfRange

Log == INSTANCE MerkleLog WITH
         log  <- flushed \o leaf_nodes \o uninserted_leaf_nodes,
         base <- num_flushed

(* The three-part bookkeeping is an append-only log that is only ever      *)
(* truncated where the caller said: a flush and the hanging of waiting     *)
(* leaves change no leaf, a retraction to an index keeps exactly the       *)
(* leaves up to it whichever of the three parts the index falls in.        *)
ImplementsLog == Log!LogSpec
=============================================================================
