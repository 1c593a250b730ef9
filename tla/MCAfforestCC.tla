---------------------------- MODULE MCAfforestCC ----------------------------
(***************************************************************************)
(* Afforest with neighbor_rounds = 2, the value test_cc passes, on a       *)
(* 6-vertex directed graph with components {0,1,2,3,4} and {5}.  In the    *)
(* sample map 2 Links 2->3 and 3 Links 3->0 and 3->1, so two workers race  *)
(* to CAS comp[3] and the loser retries.  3->4 is 3's third out-edge: the  *)
(* finalize map reaches it from 3 (k >= r) or, when 3 carries the label c, *)
(* only from 4's in-edge.  c may be the big component's label, 4's or 5's. *)
(***************************************************************************)
EXTENDS AfforestCC

MCV == 0..5
MCE == {<<2, 3>>, <<3, 0>>, <<3, 1>>, <<3, 4>>}
=============================================================================
