----------------------------- MODULE MerkleHash -----------------------------
(***************************************************************************)
(* Hashes and paths of merklecpp (HashT, PathT), and the reference         *)
(* definition of a Merkle tree hash and of an audit path over a list of    *)
(* leaves, which the code computes incrementally.                          *)
(*                                                                         *)
(* A hash is the term it was computed from: <<x>> for a leaf given by the  *)
(* caller, <<l, r>> for the hash of two hashes.  Two hashes are then equal *)
(* exactly when they were computed from the same leaves in the same way,   *)
(* which is what a collision-free HASH_FUNCTION promises.                  *)
(***************************************************************************)
EXTENDS Integers, Sequences, SequencesExt

LeafHash(x) == <<x>>
HashFunction(l, r) == <<l, r>>
ZeroHash == <<>>                     \* HashT(): all bytes zero

-----------------------------------------------------------------------------
(* PathT.  A direction says on which side the element's hash joins.        *)
PATH_LEFT == "left"
PATH_RIGHT == "right"
Element(hash, direction) == [hash |-> hash, direction |-> direction]

Path(leaf, leaf_index, elements, max_index) ==
  [leaf |-> leaf, leaf_index |-> leaf_index, elements |-> elements,
   max_index |-> max_index]

Join(hash, e) == IF e.direction = PATH_LEFT THEN HashFunction(e.hash, hash)
                                            ELSE HashFunction(hash, e.hash)

(* PathT::root(): the elements are hashed onto the leaf, leaf end first.   *)
PathRoot(p) ==
  LET result[k \in 0 .. Len(p.elements)] ==
        IF k = 0 THEN p.leaf ELSE Join(result[k - 1], p.elements[k])
  IN  result[Len(p.elements)]

-----------------------------------------------------------------------------
(* The reference: the tree over n leaves splits at the largest power of    *)
(* two below n.                                                            *)
pow2[k \in Nat] == IF k = 0 THEN 1 ELSE 2 * pow2[k - 1]

Split(n) == CHOOSE k \in {pow2[e] : e \in 0 .. n} : k < n /\ n <= 2 * k

(* SubtreeHash(leaves)[c][o] is the hash of the tree over the c leaves that *)
(* follow the first o.                                                     *)
SubtreeHash(leaves) ==
  LET hash[c \in 1 .. Len(leaves)] ==
        [o \in 0 .. Len(leaves) - c |->
           IF c = 1 THEN leaves[o + 1]
           ELSE HashFunction(hash[Split(c)][o], hash[c - Split(c)][o + Split(c)])]
  IN  hash

MTH(leaves) == SubtreeHash(leaves)[Len(leaves)][0]

(* The elements of the path from the leaf at index i, leaf end first; path *)
(* is the table of the paths to it inside the tree over c leaves from o.   *)
AuditPath(leaves, i) ==
  LET hash == SubtreeHash(leaves)
      path[c \in 1 .. Len(leaves)] ==
        [o \in 0 .. Len(leaves) - c |->
           IF c = 1 THEN <<>>
           ELSE IF i < o + Split(c)
           THEN Append(path[Split(c)][o],
                       Element(hash[c - Split(c)][o + Split(c)], PATH_RIGHT))
           ELSE Append(path[c - Split(c)][o + Split(c)],
                       Element(hash[Split(c)][o], PATH_LEFT))]
  IN  path[Len(leaves)][0]
=============================================================================
