-------------------------- MODULE ConnectivitySpec --------------------------
(***************************************************************************)
(* What a connected-components kernel promises, with no union-find in it: *)
(* the vertex set is split into blocks, starting from singletons; a step   *)
(* may only merge the two blocks holding the ends of one graph edge; and   *)
(* in the end the blocks are the weakly connected components of the       *)
(* directed graph.  AfforestCC is shown to implement this module.          *)
(***************************************************************************)
EXTENDS FiniteSets, Relation

CONSTANTS V, E

ASSUME E \subseteq V \X V

VARIABLE blocks

(* u and v are joined by a path that may use edges in either direction.   *)
WeaklyConnected ==
  ReflexiveTransitiveClosure(
      [p \in V \X V |-> <<p[1], p[2]>> \in E \/ <<p[2], p[1]>> \in E], V)

Components == { {w \in V : WeaklyConnected[v, w]} : v \in V }

BlockOf(v) == CHOOSE b \in blocks : v \in b

Init == blocks = { {v} : v \in V }

(* The blocks of the two ends of edge e become one block.                 *)
Merge(e) ==
  LET bu == BlockOf(e[1])
      bv == BlockOf(e[2])
  IN  /\ bu # bv
      /\ blocks' = (blocks \ {bu, bv}) \cup {bu \cup bv}

Next == \E e \in E : Merge(e)

Spec == Init /\ [][Next]_blocks /\ WF_blocks(Next)

=============================================================================
