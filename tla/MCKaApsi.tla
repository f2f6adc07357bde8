------------------------------ MODULE MCKaApsi ------------------------------
EXTENDS KaApsi

MCItems == 0 .. 9

(* Two bins for two and four inputs, one for three, three bins for ten.    *)
MCReceiverInputs ==
  {<<0, 1>>, <<2, 0, 1>>, <<0, 1, 2, 3>>, <<0, 0, 1, 6>>, <<0, 1, 2, 3, 4, 5, 6, 7, 8, 9>>}

MCSenderInputs == {<<0, 1, 2, 3>>, <<3, 8, 9, 2, 0, 1>>, <<6, 5>>, <<7, 7, 1, 2>>}

(* Items six apart have the same hash, the others any.                     *)
MCHashFunctions == {[x \in MCItems |-> f[x % 6]] : f \in [0 .. 5 -> 0 .. 2]}
=============================================================================
