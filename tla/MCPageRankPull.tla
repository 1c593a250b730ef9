--------------------------- MODULE MCPageRankPull ---------------------------
EXTENDS PageRankPull, TLC

(* 0 and 2 have two in-neighbours and 0, 1 and 2 two out-neighbours, so   *)
(* threads read contributions while they are rewritten; every vertex has  *)
(* an in-neighbour, so PageRankPullGS skips none; 3 is a sink, whose       *)
(* outgoing_contrib is score / 0 = inf.                                    *)
MCV == 0..3
MCE == {<<0, 1>>, <<0, 2>>, <<1, 0>>, <<1, 2>>, <<2, 0>>, <<2, 3>>}

(* The graph of spec 8.7: a cycle 0 -> 1 -> 2 -> 0 and 3 -> 4.              *)
MCV87 == 0..4
MCE87 == {<<0, 1>>, <<1, 2>>, <<2, 0>>, <<3, 4>>}

(* An epsilon that some interleavings' error falls under.                  *)
MCEpsilonSmall == 100000

(* The threads are interchangeable: no property names one.                *)
WorkerSymmetry == Permutations(Workers)
=============================================================================
