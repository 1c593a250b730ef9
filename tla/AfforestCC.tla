----------------------------- MODULE AfforestCC -----------------------------
(***************************************************************************)
(* The Afforest connected-components kernel of LSGraph (CC_GAPBS_S in      *)
(* src/LSGraph/include/CC.h) on a directed graph <<V, E>>.                 *)
(*                                                                         *)
(* The kernel runs five phases, each a vertexMap (a parallel for over all  *)
(* vertices with an implicit join):                                        *)
(*   sample    every vertex Links itself to its first NeighborRounds       *)
(*             out-neighbours;                                             *)
(*   compress  every vertex jumps its pointer to the root;                 *)
(*   (between) SampleFrequentElement picks the presumed giant label c;     *)
(*   finalize  every vertex whose label is not c Links itself to its       *)
(*             remaining out-neighbours and to all of its in-neighbours;   *)
(*   compress  again.                                                      *)
(* Workers claim vertices of the current vertexMap in any order.  Link is  *)
(* the lock-free union of CC.h: every load of comp and the CAS is its own  *)
(* step, so Links of different workers interleave at the granularity of    *)
(* the machine's memory accesses.                                          *)
(***************************************************************************)
EXTENDS Naturals, Sequences, SequencesExt, FiniteSets, TopKOps

CONSTANTS
  V,               \* vertex ids, a set of naturals 0..n-1
  E,               \* directed edges <<src, dst>>
  Workers,         \* worker threads of the parallel-for pool
  NeighborRounds,  \* neighbor_rounds argument of CC_GAPBS_S
  None             \* no vertex: an idle worker, c before it is chosen

ASSUME /\ V \subseteq Nat /\ V # {}
       /\ E \subseteq V \X V
       /\ NeighborRounds \in Nat \ {0}
       /\ None \notin V

VARIABLES
  comp,    \* the comp array
  phase,   \* which vertexMap of CC_GAPBS_S is running
  todo,    \* vertices of the running vertexMap not yet claimed by a worker
  c,       \* label returned by SampleFrequentElement
  wk       \* per worker: claimed vertex, pending Links, Link locals and pc

vars == <<comp, phase, todo, c, wk>>

-----------------------------------------------------------------------------
(* The graph collaborator: neighbour lists in ascending id order, as the   *)
(* sorted adjacency arrays of LSGraph hand them to map_dense_vs_all.       *)
OutNeighbors(v) == SortSeq(SetToSeq({d \in V : <<v, d>> \in E}), <)
InNeighbors(v)  == SortSeq(SetToSeq({s \in V : <<s, v>> \in E}), <)

(* The Links a vertex performs: CC_Edge_*_F::update(d, s) calls Link(s, d) *)
(* with s the vertex being mapped and d its neighbour.                     *)
LinksTo(v, ns) == [i \in 1..Len(ns) |-> <<v, ns[i]>>]

(* CC_Vertex_Sample_Once_F: the first r out-neighbours (cond k < r).       *)
SampleLinks(v) ==
  LET ns == OutNeighbors(v)
  IN  LinksTo(v, SubSeq(ns, 1, IF NeighborRounds < Len(ns) THEN NeighborRounds ELSE Len(ns)))

(* Finalize without the pass over the reverse graph.                       *)
FinalizeLinksOutOnly(v) ==
  LinksTo(v, SubSeq(OutNeighbors(v), NeighborRounds + 1, Len(OutNeighbors(v))))

(* CC_Vertex_Finalize_F: out-neighbours after the first r (k >= r), then   *)
(* with k = r = 0 every in-neighbour of the reverse graph.                 *)
FinalizeLinks(v) ==
  LET ns == OutNeighbors(v)
  IN  LinksTo(v, SubSeq(ns, NeighborRounds + 1, Len(ns))) \o LinksTo(v, InNeighbors(v))

Idle == [v |-> None, links |-> <<>>, pc |-> "idle",
         p1 |-> 0, p2 |-> 0, high |-> 0, low |-> 0, phigh |-> 0, t |-> 0]

Init ==
  /\ comp = [v \in V |-> v]                 \* CC_Vertex_Init_F
  /\ phase = "sample"
  /\ todo = V
  /\ c = None
  /\ wk = [w \in Workers |-> Idle]

-----------------------------------------------------------------------------
(* A worker of the running vertexMap takes an unclaimed vertex.  In the    *)
(* finalize map the vertex is skipped when its label is c at that moment.  *)
Claim(w, v) ==
  /\ wk[w].pc = "idle"
  /\ v \in todo
  /\ todo' = todo \ {v}
  /\ wk' = [wk EXCEPT ![w] =
       CASE phase = "sample"                      -> [Idle EXCEPT !.v = v, !.links = SampleLinks(v), !.pc = "next"]
         [] phase = "finalize" /\ comp[v] = c     -> Idle
         [] phase = "finalize"                    -> [Idle EXCEPT !.v = v, !.links = FinalizeLinks(v), !.pc = "next"]
         [] phase \in {"compress1", "compress2"}  -> [Idle EXCEPT !.v = v, !.pc = "compress"]]
  /\ UNCHANGED <<comp, phase, c>>

(* Start Link(u, v) on the next pending pair, or finish the vertex.        *)
NextLink(w) ==
  /\ wk[w].pc = "next"
  /\ wk' = [wk EXCEPT ![w] = IF @.links = <<>> THEN Idle ELSE [@ EXCEPT !.pc = "L1"]]
  /\ UNCHANGED <<comp, phase, todo, c>>

(* p1 = comp[u]                                                            *)
LinkReadP1(w) ==
  /\ wk[w].pc = "L1"
  /\ wk' = [wk EXCEPT ![w].p1 = comp[Head(wk[w].links)[1]], ![w].pc = "L2"]
  /\ UNCHANGED <<comp, phase, todo, c>>

(* p2 = comp[v]                                                            *)
LinkReadP2(w) ==
  /\ wk[w].pc = "L2"
  /\ wk' = [wk EXCEPT ![w].p2 = comp[Head(wk[w].links)[2]], ![w].pc = "L3"]
  /\ UNCHANGED <<comp, phase, todo, c>>

(* The loop with the difference in low taken the wrong way round.         *)
LinkLoopLowFlipped(w) ==
  /\ wk[w].pc = "L3"
  /\ LET s == wk[w]
         high == IF s.p1 > s.p2 THEN s.p1 ELSE s.p2
         low == s.p1 + (high - s.p2)
     IN  wk' = [wk EXCEPT ![w] =
                  IF s.p1 = s.p2
                  THEN [s EXCEPT !.links = Tail(s.links), !.pc = "next"]
                  ELSE [s EXCEPT !.high = high, !.low = low, !.phigh = comp[high], !.pc = "L4"]]
  /\ UNCHANGED <<comp, phase, todo, c>>

(* while (p1 != p2): high, low = p1 + (p2 - high), p_high = comp[high]     *)
LinkLoop(w) ==
  /\ wk[w].pc = "L3"
  /\ LET s == wk[w]
         high == IF s.p1 > s.p2 THEN s.p1 ELSE s.p2
         low == s.p1 + (s.p2 - high)
     IN  wk' = [wk EXCEPT ![w] =
                  IF s.p1 = s.p2
                  THEN [s EXCEPT !.links = Tail(s.links), !.pc = "next"]
                  ELSE [s EXCEPT !.high = high, !.low = low, !.phigh = comp[high], !.pc = "L4"]]
  /\ UNCHANGED <<comp, phase, todo, c>>

(* The exchange done as a plain store instead of a compare-and-swap.       *)
LinkCasPlainStore(w) ==
  /\ wk[w].pc = "L4"
  /\ LET s == wk[w]
     IN  /\ comp' = IF s.phigh = s.high THEN [comp EXCEPT ![s.high] = s.low] ELSE comp
         /\ wk' = [wk EXCEPT ![w] =
                     IF s.phigh = s.low \/ s.phigh = s.high
                     THEN [s EXCEPT !.links = Tail(s.links), !.pc = "next"]
                     ELSE [s EXCEPT !.pc = "R1"]]
  /\ UNCHANGED <<phase, todo, c>>

(* (p_high == low) || (p_high == high && CAS(comp[high], high, low)):      *)
(* leave the loop on success, otherwise go on to re-read the roots.        *)
LinkCas(w) ==
  /\ wk[w].pc = "L4"
  /\ LET s == wk[w]
         swap == s.phigh = s.high /\ comp[s.high] = s.high
     IN  /\ comp' = IF swap /\ s.phigh # s.low THEN [comp EXCEPT ![s.high] = s.low] ELSE comp
         /\ wk' = [wk EXCEPT ![w] =
                     IF s.phigh = s.low \/ swap
                     THEN [s EXCEPT !.links = Tail(s.links), !.pc = "next"]
                     ELSE [s EXCEPT !.pc = "R1"]]
  /\ UNCHANGED <<phase, todo, c>>

(* p1 = comp[comp[high]]: two loads.                                        *)
LinkRetryInner(w) ==
  /\ wk[w].pc = "R1"
  /\ wk' = [wk EXCEPT ![w].t = comp[wk[w].high], ![w].pc = "R2"]
  /\ UNCHANGED <<comp, phase, todo, c>>

(* The retry that keeps the stale p1 instead of loading comp[comp[high]].  *)
LinkRetryP1Stale(w) ==
  /\ wk[w].pc = "R2"
  /\ wk' = [wk EXCEPT ![w].pc = "R3"]
  /\ UNCHANGED <<comp, phase, todo, c>>

LinkRetryP1(w) ==
  /\ wk[w].pc = "R2"
  /\ wk' = [wk EXCEPT ![w].p1 = comp[wk[w].t], ![w].pc = "R3"]
  /\ UNCHANGED <<comp, phase, todo, c>>

(* p2 = comp[low], then back to the loop test.                             *)
LinkRetryP2(w) ==
  /\ wk[w].pc = "R3"
  /\ wk' = [wk EXCEPT ![w].p2 = comp[wk[w].low], ![w].pc = "L3"]
  /\ UNCHANGED <<comp, phase, todo, c>>

(* One iteration of CC_Vertex_Compress_F: while (comp[i] != comp[comp[i]]) *)
(* comp[i] = comp[comp[i]].  Only the owner of i writes comp[i] in this    *)
(* map and no Link runs, so one iteration is one step.                     *)
CompressStep(w) ==
  /\ wk[w].pc = "compress"
  /\ LET i == wk[w].v
     IN  IF comp[i] = comp[comp[i]]
         THEN /\ wk' = [wk EXCEPT ![w] = Idle]
              /\ UNCHANGED comp
         ELSE /\ comp' = [comp EXCEPT ![i] = comp[comp[i]]]
              /\ UNCHANGED wk
  /\ UNCHANGED <<phase, todo, c>>

-----------------------------------------------------------------------------
(* The implicit join at the end of a vertexMap, and the sequential code    *)
(* of CC_GAPBS_S between two maps.                                         *)
AllJoined == todo = {} /\ \A w \in Workers : wk[w].pc = "idle"

EndSample ==
  /\ phase = "sample" /\ AllJoined
  /\ phase' = "compress1" /\ todo' = V
  /\ UNCHANGED <<comp, c, wk>>

(* SampleFrequentElement draws comp[n] for pseudo-random n and returns the *)
(* most frequent value: some label present in comp.                        *)
SampleFrequentElement ==
  /\ phase = "compress1" /\ AllJoined
  /\ \E n \in V : c' = comp[n]
  /\ phase' = "finalize" /\ todo' = V
  /\ UNCHANGED <<comp, wk>>

EndFinalize ==
  /\ phase = "finalize" /\ AllJoined
  /\ phase' = "compress2" /\ todo' = V
  /\ UNCHANGED <<comp, c, wk>>

EndCompress ==
  /\ phase = "compress2" /\ AllJoined
  /\ phase' = "done"
  /\ UNCHANGED <<comp, todo, c, wk>>

(* CC_GAPBS_S has returned comp; nothing changes any more.                 *)
Returned == phase = "done" /\ UNCHANGED vars

WorkerStep(w) ==
  \/ \E v \in V : Claim(w, v)
  \/ NextLink(w) \/ LinkReadP1(w) \/ LinkReadP2(w) \/ LinkLoop(w) \/ LinkCas(w)
  \/ LinkRetryInner(w) \/ LinkRetryP1(w) \/ LinkRetryP2(w)
  \/ CompressStep(w)

Next ==
  \/ \E w \in Workers : WorkerStep(w)
  \/ EndSample \/ SampleFrequentElement \/ EndFinalize \/ EndCompress
  \/ Returned

(* Every worker thread of the pool keeps running while it has work, and    *)
(* the calling thread runs the code after each join.                       *)
Fairness ==
  /\ \A w \in Workers : WF_vars(WorkerStep(w))
  /\ WF_vars(EndSample \/ SampleFrequentElement \/ EndFinalize \/ EndCompress)

Spec == Init /\ [][Next]_vars /\ Fairness

-----------------------------------------------------------------------------
(* The root reached by following comp from v, at most |V| hops.           *)
RECURSIVE FindWithin(_, _)
FindWithin(v, n) == IF n = 0 \/ comp[v] = v THEN v ELSE FindWithin(comp[v], n - 1)
Root(v) == FindWithin(v, Cardinality(V))

(* The partition the union-find forest stands for.                         *)
Blocks == { {w \in V : Root(w) = Root(v)} : v \in V }

Abs == INSTANCE ConnectivitySpec WITH blocks <- Blocks

TypeOK ==
  /\ comp \in [V -> V]
  /\ phase \in {"sample", "compress1", "finalize", "compress2", "done"}
  /\ todo \subseteq V
  /\ c \in V \cup {None}
  /\ \A w \in Workers : wk[w].pc \in {"idle", "next", "L1", "L2", "L3", "L4", "R1", "R2", "R3", "compress"}

(* Spec section 8.3: when CC_GAPBS_S returns, two vertices carry the same  *)
(* label exactly when they are weakly connected -- whatever label          *)
(* SampleFrequentElement chose and however the Links of the sample and     *)
(* finalize maps interleaved.                                              *)
DoneCorrect ==
  phase = "done" =>
    \A u, v \in V : (comp[u] = comp[v]) <=> Abs!WeaklyConnected[u, v]

(* The comp forest implements the abstract connectivity spec: no step of   *)
(* Link, compression or the phase code ever splits a block or joins two    *)
(* blocks that no edge connects, and the blocks end as the components.     *)
Refinement == Abs!Spec

-----------------------------------------------------------------------------
(* PrintCompStats(comp, v_count), which test_cc calls on the comp array    *)
(* the last CC_GAPBS_S returned.  count[comp[i]] += 1 for every i:         *)
CompCount == [l \in {comp[i] : i \in V} |-> Cardinality({i \in V : comp[i] = l})]

(* count_vector: the pairs of the unordered_map, in any iteration order.   *)
CountVectors ==
  { [j \in DOMAIN o |-> <<o[j], CompCount[o[j]]>>] : o \in SetToSeqs(DOMAIN CompCount) }

(* top_k = TopK(count_vector, k) with k = 5.                               *)
PrintedTopK(vec) == TopKOf(vec, 5)

(* The component sizes, largest first, the first five.                     *)
BiggestSizes ==
  LET cs    == SetToSeq(Abs!Components)
      sizes == SortSeq([j \in DOMAIN cs |-> Cardinality(cs[j])], >)
  IN  IF Len(sizes) > 5 THEN SubSeq(sizes, 1, 5) ELSE sizes

(* What test_cc prints once CC_GAPBS_S has returned, whatever order the    *)
(* unordered_map hands its pairs to TopK in: "There are n components" with *)
(* n the number of weakly connected components, and as "the 5 biggest     *)
(* clusters" the largest component sizes in descending order, each with a *)
(* label whose vertices are exactly one component.                         *)
CompStatsCorrect ==
  phase = "done" =>
    /\ Cardinality(DOMAIN CompCount) = Cardinality(Abs!Components)
    /\ \A vec \in CountVectors :
         LET top == PrintedTopK(vec) IN
         /\ [j \in DOMAIN top |-> top[j][1]] = BiggestSizes
         /\ \A j \in DOMAIN top : {i \in V : comp[i] = top[j][2]} \in Abs!Components

(* Every Link's retry loop and every map ends: the kernel returns.         *)
Termination == <>(phase = "done")

=============================================================================
