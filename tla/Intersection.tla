---------------------------- MODULE Intersection ----------------------------
(***************************************************************************)
(* What a private set intersection promises the receiver: it reports       *)
(* indices of its inputs that the sender has too, each once, in any order  *)
(* and in any number of portions, and returns when none is missing; or it  *)
(* does not return.                                                        *)
(***************************************************************************)
EXTENDS Sequences, SequencesExt

CONSTANT Indices             \* the indices of the receiver's inputs

VARIABLES common,            \* the indices whose input the sender has too
          reported,          \* the indices reported so far, in order
          status             \* "running", "returned" or "failed"

Init == /\ common \in SUBSET Indices
        /\ reported = <<>>
        /\ status = "running"

(* reported' continues reported with indices that are common and new.      *)
Continues == /\ IsPrefix(reported, reported')
             /\ IsInjective(reported')
             /\ reported' \in Seq(common)

Report == /\ status = "running"
          /\ Continues
          /\ UNCHANGED <<common, status>>

Return == /\ status = "running"
          /\ Continues
          /\ ToSet(reported') = common
          /\ status' = "returned"
          /\ UNCHANGED common

Fail == /\ status = "running"
        /\ status' = "failed"
        /\ UNCHANGED <<common, reported>>

Next == Report \/ Return \/ Fail

Spec == Init /\ [][Next]_<<common, reported, status>>
=============================================================================
