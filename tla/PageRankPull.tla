---------------------------- MODULE PageRankPull ----------------------------
(***************************************************************************)
(* The Gauss-Seidel pull PageRank kernels:                                 *)
(*   PR_Pull_S      src/LSGraph/include/PagerankPull.h (also PR_GAPBS_S),  *)
(*   PageRankPullGS src/XPGraph/apps/pr_gapbs.hpp.                         *)
(* Each iteration is a parallel for over the vertices u: u's thread sums   *)
(* outgoing_contrib[v] over the in-neighbours v, one load at a time, then  *)
(* stores scores[u] = base_score + kDamp * incoming_total, adds            *)
(* |scores[u] - old_score| to error and stores outgoing_contrib[u].  Other *)
(* threads read outgoing_contrib while it is being rewritten, so a read    *)
(* sees the value of this iteration or of the last one.  The two kernels   *)
(* differ in two places (kernel is the one the driver called):            *)
(*   - PR_Pull_S adds to one shared double error with a plain +=, a load   *)
(*     and a store; PageRankPullGS uses reduction(+ : error);              *)
(*   - PageRankPullGS skips (continue) a vertex with no in-neighbours.     *)
(* A float is a fixed-point integer in units of 1/Unit; every operation   *)
(* rounds toward zero, as a float operation rounds.                       *)
(***************************************************************************)
EXTENDS Integers, Sequences, SequencesExt, FiniteSets, Functions

CONSTANTS
  V,         \* vertex ids 0..n-1
  E,         \* directed edges <<s, d>>
  Kernels,   \* the kernels the driver may call: "PR_Pull_S", "PageRankPullGS"
  MaxIters,  \* max_iters
  Unit,      \* fixed-point units per 1.0
  Epsilon,   \* epsilon, in units
  Workers    \* OpenMP threads

ASSUME /\ V \subseteq Nat /\ E \subseteq V \X V /\ V # {}
       /\ Kernels \subseteq {"PR_Pull_S", "PageRankPullGS"} /\ Kernels # {} /\ MaxIters \in Nat \ {0}
       /\ Unit \in Nat \ {0} /\ Epsilon \in Nat

VARIABLES
  kernel,      \* the kernel that runs
  scores, outgoing_contrib,
  error,       \* the error of the running iteration (PR_Pull_S: shared)
  tErr,        \* each thread's copy of error under reduction (PageRankPullGS)
  iter, running, todo,
  wk,          \* per thread: u, in-neighbours left, incoming_total, pc, ...
  prevContrib, \* outgoing_contrib when the iteration began (history)
  prevScores    \* scores when the iteration began (history)

vars == <<kernel, scores, outgoing_contrib, error, tErr, iter, running, todo, wk, prevContrib, prevScores>>

N == Cardinality(V)
(* kDamp = 0.85: x * kDamp.                                                *)
Damp(x) == (x * 85) \div 100
init_score == Unit \div N
base_score == (Unit - Damp(Unit)) \div N
Abs(x) == IF x < 0 THEN -x ELSE x

InNeighbors(u) == SetToSeq({v \in V : <<v, u>> \in E})
OutDegree(u) == Cardinality({d \in V : <<u, d>> \in E})

(* score / out-degree.  A float division by zero gives +inf, which no      *)
(* in-neighbour ever reads; -1 stands for it.                              *)
Inf == -1
Contrib(score, u) == IF OutDegree(u) = 0 THEN Inf ELSE score \div OutDegree(u)

Idle == [u |-> 0, ns |-> <<>>, inc |-> 0, new |-> 0, err |-> 0, pc |-> "idle"]

Init ==
  /\ kernel \in Kernels
  /\ scores = [u \in V |-> init_score]
  /\ outgoing_contrib = [u \in V |-> Contrib(init_score, u)]
  /\ error = 0 /\ tErr = [w \in Workers |-> 0]
  /\ iter = 0 /\ running = TRUE /\ todo = V
  /\ wk = [w \in Workers |-> Idle]
  /\ prevContrib = outgoing_contrib
  /\ prevScores = scores

-----------------------------------------------------------------------------
(* A sum over the in-neighbours that leaves out the first one.             *)
ClaimSkipFirst(w, u) ==
  /\ running /\ wk[w].pc = "idle" /\ u \in todo
  /\ todo' = todo \ {u}
  /\ wk' = [wk EXCEPT ![w] =
       IF kernel = "PageRankPullGS" /\ InNeighbors(u) = <<>> THEN Idle
       ELSE [Idle EXCEPT !.u = u, !.ns = SubSeq(InNeighbors(u), 2, Len(InNeighbors(u))), !.pc = "sum"]]
  /\ UNCHANGED <<kernel, scores, outgoing_contrib, error, tErr, iter, running, prevContrib, prevScores>>

(* The parallel for hands u to a thread; incoming_total = 0.  In           *)
(* PageRankPullGS, if (0 == nebr_count) continue.                          *)
Claim(w, u) ==
  /\ running /\ wk[w].pc = "idle" /\ u \in todo
  /\ todo' = todo \ {u}
  /\ wk' = [wk EXCEPT ![w] =
       IF kernel = "PageRankPullGS" /\ InNeighbors(u) = <<>> THEN Idle
       ELSE [Idle EXCEPT !.u = u, !.ns = InNeighbors(u), !.pc = "sum"]]
  /\ UNCHANGED <<kernel, scores, outgoing_contrib, error, tErr, iter, running, prevContrib, prevScores>>

(* PR_Pull_F::update / the adjacency loop: incoming_total +=               *)
(* outgoing_contrib[v] for the next in-neighbour v.                        *)
Gather(w) ==
  /\ wk[w].pc = "sum" /\ wk[w].ns # <<>>
  /\ wk' = [wk EXCEPT ![w].inc = @ + outgoing_contrib[Head(wk[w].ns)],
                      ![w].ns = Tail(@)]
  /\ UNCHANGED <<kernel, scores, outgoing_contrib, error, tErr, iter, running, todo, prevContrib, prevScores>>

(* The error add without fabs.                                              *)
UpdateScoreNoFabs(w) ==
  /\ wk[w].pc = "sum" /\ wk[w].ns = <<>>
  /\ LET st    == wk[w]
         new   == base_score + Damp(st.inc)
         delta == new - scores[st.u]
     IN  /\ scores' = [scores EXCEPT ![st.u] = new]
         /\ IF kernel = "PageRankPullGS"
            THEN /\ tErr' = [tErr EXCEPT ![w] = @ + delta]
                 /\ outgoing_contrib' = [outgoing_contrib EXCEPT ![st.u] = Contrib(new, st.u)]
                 /\ wk' = [wk EXCEPT ![w] = Idle]
            ELSE /\ wk' = [wk EXCEPT ![w] = [st EXCEPT !.new = new, !.err = error + delta, !.pc = "store"]]
                 /\ UNCHANGED <<tErr, outgoing_contrib>>
  /\ UNCHANGED <<kernel, error, iter, running, todo, prevContrib, prevScores>>

(* old_score = scores[u]; scores[u] = base_score + kDamp * incoming_total; *)
(* error += fabs(scores[u] - old_score).  Under the reduction the add goes *)
(* to the thread's copy and outgoing_contrib[u] is stored in the same      *)
(* step; in PR_Pull_S this step is the load of the shared error.           *)
UpdateScore(w) ==
  /\ wk[w].pc = "sum" /\ wk[w].ns = <<>>
  /\ LET st    == wk[w]
         new   == base_score + Damp(st.inc)
         delta == Abs(new - scores[st.u])
     IN  /\ scores' = [scores EXCEPT ![st.u] = new]
         /\ IF kernel = "PageRankPullGS"
            THEN /\ tErr' = [tErr EXCEPT ![w] = @ + delta]
                 /\ outgoing_contrib' = [outgoing_contrib EXCEPT ![st.u] = Contrib(new, st.u)]
                 /\ wk' = [wk EXCEPT ![w] = Idle]
            ELSE /\ wk' = [wk EXCEPT ![w] = [st EXCEPT !.new = new, !.err = error + delta, !.pc = "store"]]
                 /\ UNCHANGED <<tErr, outgoing_contrib>>
  /\ UNCHANGED <<kernel, error, iter, running, todo, prevContrib, prevScores>>

(* PR_Pull_S: the store of error + fabs(...), then                         *)
(* outgoing_contrib[u] = scores[u] / G.out().degree(u).                    *)
ErrorStore(w) ==
  /\ wk[w].pc = "store"
  /\ LET st == wk[w] IN
     /\ error' = st.err
     /\ outgoing_contrib' = [outgoing_contrib EXCEPT ![st.u] = Contrib(st.new, st.u)]
     /\ wk' = [wk EXCEPT ![w] = Idle]
  /\ UNCHANGED <<kernel, scores, tErr, iter, running, todo, prevContrib, prevScores>>

AllJoined == todo = {} /\ \A w \in Workers : wk[w].pc = "idle"

(* error after the join, the reduction included.                           *)
ReducedError == error + FoldFunction(+, 0, tErr)

(* After the join: if (error < epsilon) break; the for loop runs while     *)
(* iter < max_iters; the next iteration starts with error = 0.             *)
EndIter ==
  /\ running /\ AllJoined
  /\ running' = (~(ReducedError < Epsilon) /\ iter + 1 < MaxIters)
  /\ iter' = iter + 1
  /\ error' = 0 /\ tErr' = [w \in Workers |-> 0]
  /\ todo' = IF running' THEN V ELSE {}
  /\ prevContrib' = outgoing_contrib
  /\ prevScores' = scores
  /\ UNCHANGED <<kernel, scores, outgoing_contrib, wk>>

Returned == ~running /\ UNCHANGED vars

WorkerStep(w) ==
  \/ \E u \in V : Claim(w, u)
  \/ Gather(w) \/ UpdateScore(w) \/ ErrorStore(w)

Next == (\E w \in Workers : WorkerStep(w)) \/ EndIter \/ Returned

Fairness == (\A w \in Workers : WF_vars(WorkerStep(w))) /\ WF_vars(EndIter)

Spec == Init /\ [][Next]_vars /\ Fairness

-----------------------------------------------------------------------------
TypeOK ==
  /\ scores \in [V -> Nat] /\ error \in Nat /\ tErr \in [Workers -> Nat]
  /\ outgoing_contrib \in [V -> Nat \cup {Inf}]
  /\ kernel \in Kernels /\ iter \in 0..MaxIters /\ running \in BOOLEAN /\ todo \subseteq V
  /\ \A w \in Workers : wk[w].pc \in {"idle", "sum", "store"}

InSet(u) == {v \in V : <<v, u>> \in E}

(* The scores[u] that spec 4.6 allows after an iteration: base_score +     *)
(* kDamp * the sum over in-neighbours v of outgoing_contrib[v], each read  *)
(* before or after v's thread rewrote it in this iteration.                *)
GaussSeidelScores(u) ==
  { base_score + Damp(FoldFunction(+, 0, [v \in InSet(u) |-> IF v \in S THEN outgoing_contrib[v] ELSE prevContrib[v]]))
    : S \in SUBSET InSet(u) }

(* Spec 4.6: after the join of every iteration each vertex holds           *)
(* base_score + kDamp * incoming_total, where every contribution it read   *)
(* is of this iteration or of the last -- never torn, never older, never   *)
(* missing a neighbour -- however the threads interleaved.                 *)
ScoresGaussSeidel ==
  running /\ AllJoined => \A u \in V : scores[u] \in GaussSeidelScores(u)

(* The L1 change of the running iteration, sum of |scores - old_score|.    *)
L1Change == FoldFunction(+, 0, [u \in V |-> Abs(scores[u] - prevScores[u])])

(* Spec 4.6: the error compared with epsilon after the join is the         *)
(* iteration's total absolute score change, so the loop stops early only   *)
(* when the scores really changed by less than epsilon.                    *)
ErrorIsTotalChange == running /\ AllJoined => ReducedError = L1Change

=============================================================================
