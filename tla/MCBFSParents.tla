---------------------------- MODULE MCBFSParents ----------------------------
(***************************************************************************)
(* BFS from 0 over 0->1, 0->2, 1->2, 1->3, 2->3, 4->0, 1->5, 2->5, 3->5.   *)
(* Sources 1 and 2 race to claim both 3 and 5 in round 1, with three       *)
(* workers; 1->2 offers vertex 2 a second, one hop too long parent if      *)
(* round 1 could start before round 0 finished, and 3->5 offers 5 one in   *)
(* round 2; vertex 4 is unreachable.                                       *)
(***************************************************************************)
EXTENDS BFSParents

MCV == 0..5
MCE == {<<0, 1>>, <<0, 2>>, <<1, 2>>, <<1, 3>>, <<2, 3>>, <<4, 0>>,
        <<1, 5>>, <<2, 5>>, <<3, 5>>}

=============================================================================
