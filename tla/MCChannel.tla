----------------------------- MODULE MCChannel ------------------------------
(***************************************************************************)
(* Model checking Channel.  A first ring of one slot makes the second      *)
(* operation that waits open a second ring.                                *)
(***************************************************************************)
EXTENDS Channel

Load(sends, recvs) == [s \in Side |-> IF s = "send" THEN sends ELSE recvs]

MCCases ==
  ({"given", "client"} \X {Load(3, 0), Load(1, 1)})
  \cup ({"server"} \X {Load(2, 0), Load(0, 3), Load(1, 1)})
  \cup {<<"given", Load(0, 3)>>, <<"client", Load(0, 2)>>}
=============================================================================
