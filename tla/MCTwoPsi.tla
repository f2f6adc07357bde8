------------------------------ MODULE MCTwoPsi ------------------------------
(***************************************************************************)
(* Model checking TwoPsi: three bins and two stash bins; elements          *)
(* whose functions lead to different bins, to one bin twice, and all to    *)
(* one bin, so that evictions run in circles and the stash bins are used.  *)
(***************************************************************************)
EXTENDS TwoPsi

MCBins == <<3, 2>>
MCHashes == <<3, 2>>

Values == {<<0, 1, 2>>, <<0, 0, 1>>, <<3, 3, 3>>}

(* Every choice for all but the first element.                              *)
MCHashChoices == {h \in [Element -> Values] : h[0] = <<0, 1, 2>>}

(* compute2PSI's callers hash with one thread, the tests and frontends of   *)
(* the other protocols with two and more.                                   *)
MCThreadCounts == {1, 2}
=============================================================================
