---------------------------- MODULE MCBFSLevels ----------------------------
(***************************************************************************)
(* BFS from 0 over 0->2, 0->3, 2->4, 3->4, 2->5, 4->5, 4->6, 5->6, 1->6,   *)
(* plus 1000 isolated vertices so that v_count = 1008 and the switch to    *)
(* bottom-up needs frontier >= 3.  Round 1 (top-down from 0) finds 2, 3;   *)
(* in round 2 sources 2 and 3 race on 4, so the count of {4, 5} is 2 or 3  *)
(* and round 3 runs top-down or bottom-up.  In a bottom-up round 3,        *)
(* vertex 6 first scans the unreachable in-neighbour 1, and the visited    *)
(* vertex 5 has the same-level in-neighbour 4.                             *)
(***************************************************************************)
EXTENDS BFSLevels

MCV == 0..6
MCE == {<<0, 2>>, <<0, 3>>, <<2, 4>>, <<3, 4>>, <<2, 5>>, <<4, 5>>,
        <<4, 6>>, <<5, 6>>, <<1, 6>>}

=============================================================================
