----------------------------- MODULE MerkleLog -----------------------------
(***************************************************************************)
(* What a merklecpp tree promises its caller, with no tree in it: an       *)
(* append-only log of leaf hashes whose tail may be retracted and whose    *)
(* head may be flushed.  A flushed leaf can no longer be read, but it      *)
(* stays in the log: it still determines every later root.                 *)
(*                                                                         *)
(* This module translates no code.  MerkleWindow and MerkleTree, which do, *)
(* are shown to implement it.                                              *)
(***************************************************************************)
EXTENDS Naturals, Sequences

CONSTANT Hash                \* the hashes a caller may insert

VARIABLES log,               \* every leaf hash, log[i+1] is the leaf of index i
          base               \* the smallest index that has not been flushed

logVars == <<log, base>>

LogInit == log = <<>> /\ base = 0

Indices == base .. Len(log) - 1          \* the leaf indices that can be read

LogInsert(h) == /\ log' = Append(log, h)
                /\ UNCHANGED base

LogFlush(i) == /\ base' = i
               /\ UNCHANGED log

LogRetract(i) == /\ log' = SubSeq(log, 1, i + 1)
                 /\ UNCHANGED base

(* Serialising the leaves from..to and deserialising the result: what a   *)
(* flush to "from" and a retraction to "to" give.                          *)
LogSegment(from, to) == /\ log' = SubSeq(log, 1, to + 1)
                        /\ base' = from

LogNext == \/ \E h \in Hash : LogInsert(h)
           \/ \E i \in Indices : LogFlush(i) \/ LogRetract(i)
           \/ \E from, to \in Indices : from <= to /\ LogSegment(from, to)

LogSpec == LogInit /\ [][LogNext]_logVars
=============================================================================
