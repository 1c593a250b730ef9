---------------------------- MODULE PageRankPush ----------------------------
(***************************************************************************)
(* PR_Push_S of src/LSGraph/include/PagerankPush.h.  Every iteration is    *)
(*   edgeMap   over all vertices (sparse): for each edge s -> d,           *)
(*             qthread_dincr(&p_next[d], p_curr[s] / degree(s)), a load    *)
(*             and a compare-and-swap retried until the word is unchanged; *)
(*   vertexMap p_next[i] = (0.15 + 0.85 * p_next[i]) * dset[i];            *)
(*             p_curr[i] = 0;                                              *)
(*   swap      std::swap(p_curr, p_next).                                  *)
(* p_curr, p_next and dset come from memalign; the initial loop writes     *)
(* dset and p_curr only, so the first edgeMap adds to whatever p_next      *)
(* held: Garbage is the set of values it may hold.  After a swap p_next is *)
(* the zeroed p_curr.  A float is a fixed-point integer in units of 1/Unit *)
(* and every operation rounds toward zero.                                 *)
(***************************************************************************)
EXTENDS Integers, Sequences, SequencesExt, FiniteSets, Functions

CONSTANTS
  V,         \* vertex ids 0..n-1
  E,         \* directed edges <<s, d>>
  MaxIters,  \* maxIters
  Unit,      \* fixed-point units per 1.0
  Garbage,   \* values an uninitialised p_next cell may hold, in units
  Workers    \* worker threads

ASSUME /\ V \subseteq Nat /\ E \subseteq V \X V /\ MaxIters \in Nat \ {0}
       /\ Unit \in Nat \ {0} /\ Garbage \subseteq Nat /\ Garbage # {}

VARIABLES
  p_curr, p_next,
  iter, phase, todo,
  wk,        \* per thread: s, out-neighbours left, oldval, pc
  prevCurr   \* p_curr of the last edgeMap (history)

vars == <<p_curr, p_next, iter, phase, todo, wk, prevCurr>>

OutNeighbors(s) == SetToSeq({d \in V : <<s, d>> \in E})
Degree(v) == Cardinality({d \in V : <<v, d>> \in E})

(* dset[v] = 1.0f / degree, or 0 for a vertex without out-edges.           *)
dset == [v \in V |-> IF Degree(v) # 0 THEN Unit \div Degree(v) ELSE 0]
inv_v_count == (15 * Unit) \div 100

Idle == [s |-> 0, ns |-> <<>>, old |-> 0, pc |-> "idle"]

Init ==
  /\ p_curr = [v \in V |-> IF Degree(v) # 0 THEN inv_v_count ELSE 0]
  /\ p_next \in [V -> Garbage]
  /\ iter = 0 /\ phase = "edge" /\ todo = V
  /\ wk = [w \in Workers |-> Idle]
  /\ prevCurr = p_curr

-----------------------------------------------------------------------------
(* The sparse edgeMap hands frontier vertex s to a thread.                 *)
Claim(w, s) ==
  /\ phase = "edge" /\ wk[w].pc = "idle" /\ s \in todo
  /\ todo' = todo \ {s}
  /\ wk' = [wk EXCEPT ![w] = [Idle EXCEPT !.s = s, !.ns = OutNeighbors(s), !.pc = "load"]]
  /\ UNCHANGED <<p_curr, p_next, iter, phase, prevCurr>>

(* qthread_dincr: the volatile load oldval.d = *operand, for the next      *)
(* out-neighbour d (cond(d) is always 1); the thread is done after the     *)
(* last one.                                                               *)
DincrLoad(w) ==
  /\ wk[w].pc = "load"
  /\ LET st == wk[w] IN
     wk' = [wk EXCEPT ![w] = IF st.ns = <<>> THEN Idle
                             ELSE [st EXCEPT !.old = p_next[Head(st.ns)], !.pc = "cas"]]
  /\ UNCHANGED <<p_curr, p_next, iter, phase, todo, prevCurr>>

Incr(s) == p_curr[s] \div Degree(s)

(* A retry that compares against the value it loaded the first time.       *)
DincrCasStale(w) ==
  /\ wk[w].pc = "cas"
  /\ LET st == wk[w]
         d  == Head(st.ns)
     IN  IF p_next[d] = st.old
         THEN /\ p_next' = [p_next EXCEPT ![d] = st.old + Incr(st.s)]
              /\ wk' = [wk EXCEPT ![w] = [st EXCEPT !.ns = Tail(st.ns), !.pc = "load"]]
         ELSE UNCHANGED <<p_next, wk>>
  /\ UNCHANGED <<p_curr, iter, phase, todo, prevCurr>>

(* A plain store of oldval + incr, with no compare.                        *)
DincrStore(w) ==
  /\ wk[w].pc = "cas"
  /\ LET st == wk[w]
         d  == Head(st.ns)
     IN  /\ p_next' = [p_next EXCEPT ![d] = st.old + Incr(st.s)]
         /\ wk' = [wk EXCEPT ![w] = [st EXCEPT !.ns = Tail(st.ns), !.pc = "load"]]
  /\ UNCHANGED <<p_curr, iter, phase, todo, prevCurr>>

(* lock; cmpxchg stores oldval + p_curr[s] / degree(s) if p_next[d] still  *)
(* holds oldval; otherwise the do-while loads again.                       *)
DincrCas(w) ==
  /\ wk[w].pc = "cas"
  /\ LET st == wk[w]
         d  == Head(st.ns)
     IN  /\ IF p_next[d] = st.old
            THEN /\ p_next' = [p_next EXCEPT ![d] = st.old + Incr(st.s)]
                 /\ wk' = [wk EXCEPT ![w] = [st EXCEPT !.ns = Tail(st.ns), !.pc = "load"]]
            ELSE /\ wk' = [wk EXCEPT ![w].pc = "load"]
                 /\ UNCHANGED p_next
  /\ UNCHANGED <<p_curr, iter, phase, todo, prevCurr>>

AllJoined == todo = {} /\ \A w \in Workers : wk[w].pc = "idle"

(* edgeMap returns after its join; vertexMap over the same frontier.       *)
EndEdgeMap ==
  /\ phase = "edge" /\ AllJoined
  /\ phase' = "vertex" /\ todo' = V
  /\ prevCurr' = p_curr
  /\ UNCHANGED <<p_curr, p_next, iter, wk>>

(* PR_Push_Vertex on vertex i; no other thread touches index i.            *)
VertexUpdate(w, i) ==
  /\ phase = "vertex" /\ wk[w].pc = "idle" /\ i \in todo
  /\ todo' = todo \ {i}
  /\ p_next' = [p_next EXCEPT ![i] = ((inv_v_count + (85 * @) \div 100) * dset[i]) \div Unit]
  /\ p_curr' = [p_curr EXCEPT ![i] = 0]
  /\ UNCHANGED <<iter, phase, wk, prevCurr>>

(* A loop test that runs one iteration past maxIters.                      *)
EndVertexMapOneMore ==
  /\ phase = "vertex" /\ AllJoined
  /\ p_curr' = p_next /\ p_next' = p_curr
  /\ iter' = iter + 1
  /\ phase' = IF iter + 1 <= MaxIters THEN "edge" ELSE "done"
  /\ todo' = IF iter + 1 <= MaxIters THEN V ELSE {}
  /\ UNCHANGED <<wk, prevCurr>>

(* After the vertexMap's join: std::swap(p_curr, p_next); while            *)
(* (iter++ < maxIters) tests again.                                        *)
EndVertexMap ==
  /\ phase = "vertex" /\ AllJoined
  /\ p_curr' = p_next /\ p_next' = p_curr
  /\ iter' = iter + 1
  /\ phase' = IF iter + 1 < MaxIters THEN "edge" ELSE "done"
  /\ todo' = IF iter + 1 < MaxIters THEN V ELSE {}
  /\ UNCHANGED <<wk, prevCurr>>

Returned == phase = "done" /\ UNCHANGED vars

WorkerStep(w) ==
  \/ \E s \in V : Claim(w, s)
  \/ DincrLoad(w) \/ DincrCas(w)
  \/ \E i \in V : VertexUpdate(w, i)

Next == (\E w \in Workers : WorkerStep(w)) \/ EndEdgeMap \/ EndVertexMap \/ Returned

Fairness ==
  /\ \A w \in Workers : WF_vars(WorkerStep(w))
  /\ WF_vars(EndEdgeMap) /\ WF_vars(EndVertexMap)

Spec == Init /\ [][Next]_vars /\ Fairness

-----------------------------------------------------------------------------
TypeOK ==
  /\ p_curr \in [V -> Nat] /\ p_next \in [V -> Nat]
  /\ iter \in 0..MaxIters /\ phase \in {"edge", "vertex", "done"} /\ todo \subseteq V
  /\ \A w \in Workers : wk[w].pc \in {"idle", "load", "cas"}

InSet(d) == {s \in V : <<s, d>> \in E}

(* One iteration of the code from p_curr = p: every contribution of every  *)
(* in-edge added once to a zero p_next, then the rescale of PR_Push_Vertex. *)
PushStep(p) ==
  [i \in V |-> ((inv_v_count + (85 * FoldFunction(+, 0, [s \in InSet(i) |-> p[s] \div Degree(s)])) \div 100)
               * dset[i]) \div Unit]

(* Between two iterations, and when the kernel returns.                    *)
IterationBoundary ==
  /\ iter > 0 /\ \A w \in Workers : wk[w].pc = "idle"
  /\ \/ phase = "done"
     \/ phase = "edge" /\ todo = V

(* Every iteration computes exactly the push equation: the CAS loop of     *)
(* qthread_dincr loses no contribution however the threads race on one     *)
(* destination, and every edgeMap starts from a p_next of zeros.           *)
PushIterationExact ==
  IterationBoundary =>
    /\ p_curr = PushStep(prevCurr)
    /\ p_next = [v \in V |-> 0]

(* The scores of the last completed iteration: p_curr, except while the   *)
(* vertexMap is zeroing it, when they are the copy taken at EndEdgeMap.     *)
Abs == INSTANCE PowerIteration WITH
         ranks <- IF phase = "vertex" THEN prevCurr ELSE p_curr,
         Start <- [v \in V |-> IF Degree(v) # 0 THEN inv_v_count ELSE 0],
         Update <- PushStep

(* PR_Push_S is a synchronous power iteration: every iteration replaces    *)
(* the whole score vector by the push equation applied to the previous     *)
(* one -- the CAS loop of qthread_dincr loses no racing contribution, the  *)
(* edgeMap reads only the previous scores, and the zeroed buffer it adds   *)
(* into is clean -- and after maxIters iterations the kernel returns.      *)
Refinement == Abs!Spec

(* The lock-free add does not livelock: the kernel returns.                *)
Termination == <>(phase = "done")

=============================================================================
