----------------------------- MODULE MCAcceptor -----------------------------
(***************************************************************************)
(* Model checking Acceptor: two sessions of one name against two remote    *)
(* sessions of that name, with channels cancelled, sessions stopped while  *)
(* others start, and the acceptor stopped at any moment.                   *)
(***************************************************************************)
EXTENDS Acceptor

MCSession == {"s", "t"}

X(label) == <<"n", 7, label>>
Y(label) == <<"n", 8, label>>

One(plan, remote, mute, cancels, stops, stop) ==
  [name |-> [u \in {"s"} |-> "n"], plan |-> [u \in {"s"} |-> plan],
   remote |-> remote, mute |-> mute, cancels |-> cancels, stops |-> stops, stop |-> stop]

Two(plan, other, remote, stops, stop) ==
  [name |-> [u \in MCSession |-> "n"], plan |-> [u \in MCSession |-> IF u = "s" THEN plan ELSE other],
   remote |-> remote, mute |-> {}, cancels |-> {}, stops |-> stops, stop |-> stop]

(* Whom a socket belongs to ...                                             *)
Pairing ==
  {One(<<"a", "b">>, <<X("a"), Y("b"), X("b")>>, {}, {}, {}, FALSE),
   One(<<"a">>, <<<<"m", 9, "a">>, X("a")>>, {}, {}, {}, FALSE),
   Two(<<"a">>, <<"a">>, <<X("a"), Y("a")>>, {}, FALSE)}

(* ... when channels are cancelled and sessions end, ...                    *)
Leaving ==
  {One(<<"a", "b">>, <<X("a"), X("b")>>, {}, {<<"s", 1>>}, {"s"}, FALSE),
   Two(<<"a">>, <<"b">>, <<X("a"), X("b")>>, {"s"}, FALSE)}

(* ... and the acceptor stops and others of its users do not know.          *)
Stopping ==
  {One(<<"a">>, <<X("a")>>, {}, {<<"s", 1>>}, {"s"}, TRUE),
   One(<<"a">>, <<X("a"), X("b")>>, {2}, {}, {"s"}, TRUE),
   Two(<<"a">>, <<"a">>, <<X("a")>>, MCSession, TRUE)}

MCCases == Pairing \cup Leaving \cup Stopping
=============================================================================
