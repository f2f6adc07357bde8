------------------------------ MODULE MCRsPsi ------------------------------
EXTENDS RsPsi

(* All of the receiver's inputs, or some of them among foreign ones.       *)
MCSenderInputs == {<<0, 1, 2, 3>>, <<3, Foreign, 0>>, <<Foreign>>}

(* The shortest input with which one thread's results reach another's.     *)
MCOverfull == {<<0, 1, 2, 3>>}
=============================================================================
