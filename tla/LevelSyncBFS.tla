---------------------------- MODULE LevelSyncBFS ----------------------------
(***************************************************************************)
(* What a level-synchronous BFS promises, whatever its data structures:   *)
(* rounds run in order; in the round of level l a vertex of depth l may    *)
(* give an undiscovered out-neighbour the depth l + 1, once; the next      *)
(* round starts only when no vertex of depth l has an undiscovered         *)
(* out-neighbour left, and the search is done after a round that           *)
(* discovered nobody.  depth[v] = -1 means undiscovered.                   *)
(***************************************************************************)
EXTENDS Integers

CONSTANTS V, E

VARIABLES depth, level, done

vars == <<depth, level, done>>

Undiscovered == -1

(* The search starts from one root, of depth 0.                          *)
Init ==
  /\ \E root \in V : depth = [v \in V |-> IF v = root THEN 0 ELSE Undiscovered]
  /\ level = 0
  /\ done = FALSE

(* A vertex of the current level discovers an out-neighbour.               *)
Discover(s, d) ==
  /\ ~done /\ depth[s] = level /\ <<s, d>> \in E /\ depth[d] = Undiscovered
  /\ depth' = [depth EXCEPT ![d] = level + 1]
  /\ UNCHANGED <<level, done>>

(* Some vertex of the current level has an undiscovered out-neighbour.     *)
Discoverable ==
  \E s, d \in V : depth[s] = level /\ <<s, d>> \in E /\ depth[d] = Undiscovered

(* The round ends once nothing is left to discover from it.                *)
Advance ==
  /\ ~done /\ ~Discoverable
  /\ level' = level + 1
  /\ done' = \A v \in V : depth[v] # level + 1
  /\ UNCHANGED depth

Next == (\E s, d \in V : Discover(s, d)) \/ Advance

Spec == Init /\ [][Next]_vars /\ WF_vars(\E s, d \in V : Discover(s, d)) /\ WF_vars(Advance)

=============================================================================
