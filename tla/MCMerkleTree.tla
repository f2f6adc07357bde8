---------------------------- MODULE MCMerkleTree ----------------------------
(***************************************************************************)
(* Model checking MerkleTree.  The name of a node is immaterial, so two    *)
(* trees that differ only in names are one state: View replaces a node's   *)
(* name by the subtree under it and by its place in leaf_nodes.            *)
(***************************************************************************)
EXTENDS MerkleTree

MCCalls == {"insert", "read", "flush", "retract", "size", "copy", "reload"}

(* The calls of the deep run: above 13 leaves a copy taken after size()     *)
(* loses leaves (see the findings), and the run leaves reloading out.      *)
MCDeepCalls == {"insert", "read", "flush", "retract", "size"}

RECURSIVE Shape(_)
Shape(n) ==
  IF n = Nil THEN <<>>
  ELSE IF n \notin DOMAIN tree.heap THEN <<"dangling">>
  ELSE LET node == tree.heap[n]
       IN  <<node.hash, node.size, node.height, node.dirty,
             {i \in DOMAIN tree.leaf_nodes : tree.leaf_nodes[i] = n},
             Shape(node.left), Shape(node.right)>>

View ==
  <<log, Shape(tree.root), tree.num_flushed, Len(tree.leaf_nodes),
    [i \in DOMAIN tree.uninserted_leaf_nodes |-> Shape(tree.uninserted_leaf_nodes[i])],
    [i \in DOMAIN tree.insertion_stack |->
       <<Shape(tree.insertion_stack[i].n), tree.insertion_stack[i].left>>],
    {i \in DOMAIN tree.leaf_nodes : tree.leaf_nodes[i] \notin DOMAIN tree.heap},
    Cardinality(DOMAIN tree.heap)>>
=============================================================================
