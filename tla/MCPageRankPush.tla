--------------------------- MODULE MCPageRankPush ---------------------------
EXTENDS PageRankPush

(* 0 and 1 push into 2 concurrently; 0 has out-degree 2; 3 has none.       *)
MCV == 0..3
MCE == {<<0, 1>>, <<0, 2>>, <<1, 2>>, <<2, 0>>, <<2, 3>>}
=============================================================================
