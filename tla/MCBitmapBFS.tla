---------------------------- MODULE MCBitmapBFS ----------------------------
(***************************************************************************)
(* BFS from 0 over 0->2, 0->3, 2->4, 3->4, 2->5, 4->6, 1->6, with 34       *)
(* isolated vertices: n = 41, so a frontier of 1 or 2 runs top-down and    *)
(* one of 3 bottom-up.  All ids share word 0.  In round 2 the threads of   *)
(* sources 2 and 3 race on Parents[4] and on the word holding the bits of  *)
(* 4 and 5; 6 is reached only through 4.  Vertex 1 is unreachable and has  *)
(* an edge to 6.                                                           *)
(***************************************************************************)
EXTENDS BitmapBFS

MCV == 0..6
MCE == {<<0, 2>>, <<0, 3>>, <<2, 4>>, <<3, 4>>, <<2, 5>>, <<4, 6>>, <<1, 6>>}

=============================================================================
