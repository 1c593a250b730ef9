--------------------------- MODULE PowerIteration ---------------------------
(***************************************************************************)
(* What a synchronous (Jacobi) PageRank promises: starting from the        *)
(* scores Start, each of MaxIters iterations replaces the whole score      *)
(* vector at once by Update of the previous one, so no score of an         *)
(* iteration is computed from another score of the same iteration; then    *)
(* the kernel returns.                                                     *)
(***************************************************************************)
EXTENDS Naturals

CONSTANTS V, MaxIters, Start, Update(_)

VARIABLES ranks, iter

vars == <<ranks, iter>>

Init == ranks = Start /\ iter = 0

Iterate ==
  /\ iter < MaxIters
  /\ ranks' = Update(ranks)
  /\ iter' = iter + 1

Spec == Init /\ [][Iterate]_vars /\ WF_vars(Iterate)

=============================================================================
