---------------------------- MODULE BFSDistance ----------------------------
(***************************************************************************)
(* Reference definitions of breadth-first search on a directed graph       *)
(* <<V, E>>, used to judge what the BFS kernels compute: the set of        *)
(* vertices within k hops of a root, and the hop distance.                 *)
(***************************************************************************)
EXTENDS Naturals, FiniteSets, Graphs

CONSTANTS V, E

G == [node |-> V, edge |-> E]

(* Vertices reachable from r in at most k hops.                             *)
RECURSIVE Within(_, _)
Within(r, k) == IF k = 0 THEN {r} ELSE Within(r, k - 1) \cup AllSuccessors(G, Within(r, k - 1))

Reachable(r) == Within(r, Cardinality(V))

(* Hop distance from r to a vertex reachable from r.                        *)
Dist(r, v) == CHOOSE k \in 0..Cardinality(V) : v \in Within(r, k) /\ (k = 0 \/ v \notin Within(r, k - 1))

=============================================================================
