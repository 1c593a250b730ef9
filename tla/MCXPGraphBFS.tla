---------------------------- MODULE MCXPGraphBFS ----------------------------
(***************************************************************************)
(* The graph of MCBFSLevels: from 0, sources 2 and 3 race on 4 in round 2  *)
(* and 1000 isolated vertices put the bottom-up threshold at frontier 3.   *)
(* No vertex has out-degree > 20, so test_bfs falls back to root 0.        *)
(***************************************************************************)
EXTENDS XPGraphBFS

MCV == 0..6
MCE == {<<0, 2>>, <<0, 3>>, <<2, 4>>, <<3, 4>>, <<2, 5>>, <<4, 5>>,
        <<4, 6>>, <<5, 6>>, <<1, 6>>}

=============================================================================
