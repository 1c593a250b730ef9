----------------------------- MODULE BitmapBFS -----------------------------
(***************************************************************************)
(* test_bfs_lsgraph of src/XPGraph/apps/breadth_first_search.hpp: a        *)
(* parent-array BFS whose frontiers are Bitmaps of 64-bit words.           *)
(*   - Bitmap(n) allocates new uint64_t[num_words] and never clears it, so *)
(*     a fresh bitmap may hold stray bits; GarbageBits are the vertices    *)
(*     whose bit the reused memory may have set.                           *)
(*   - set_bit is word |= bit: a load and a store of the shared word, so   *)
(*     two threads setting bits of one word can lose one.                  *)
(*   - top-down tests Parents[vid] == -1 and then stores, both plain.      *)
(* A round is an omp parallel region with reduction(+:next_frontier_count);*)
(* then frontier.reset(), frontier.swap(next_frontier), and the loop runs  *)
(* while frontier_count != 0.  Direction: bottom-up when                   *)
(* n <= frontier_count * threshold.                                        *)
(***************************************************************************)
EXTENDS Naturals, Sequences, SequencesExt, FiniteSets, Folds, Functions

CONSTANTS
  V,            \* vertices with edges, ids 0..k-1
  E,            \* directed edges
  Isolated,     \* further vertices without edges (ids k.. n-1)
  Root,         \* src
  GarbageBits,  \* vertices whose bit an unzeroed bitmap may hold
  Workers       \* OpenMP threads

ASSUME /\ V \subseteq Nat /\ E \subseteq V \X V /\ Root \in V /\ Isolated \in Nat
       /\ GarbageBits \subseteq V

NoParent == -1
Threshold == 20
BitsPerWord == 64
N == Cardinality(V) + Isolated

(* The vertices whose bits share the 64-bit word of v.                      *)
Word(v) == {u \in V : u \div BitsPerWord = v \div BitsPerWord}

VARIABLES
  Parents, frontier, next, count, topDown, running, todo,
  tf,      \* each thread's next_frontier_count
  total,   \* total_count
  wk       \* per thread: vertex, neighbours left, vid, loaded word, pc

vars == <<Parents, frontier, next, count, topDown, running, todo, tf, total, wk>>

Ref == INSTANCE BFSDistance

OutNeighbors(v) == SetToSeq({d \in V : <<v, d>> \in E})
InNeighbors(v)  == SetToSeq({s \in V : <<s, v>> \in E})

Idle == [v |-> Root, ns |-> <<>>, vid |-> Root, word |-> {}, pc |-> "idle"]

(* Parents = -1 but Parents[start] = start; Bitmap frontier(n) with        *)
(* set_bit(start); frontier_count = 1; the first Bitmap next_frontier(n).  *)
Init ==
  /\ Parents = [v \in V |-> IF v = Root THEN Root ELSE NoParent]
  /\ \E g \in SUBSET GarbageBits : frontier = g \cup {Root}
  /\ \E g \in SUBSET GarbageBits : next = g
  /\ count = 1 /\ topDown = (N > Threshold) /\ running = TRUE /\ todo = V
  /\ tf = [w \in Workers |-> 0] /\ total = 1
  /\ wk = [w \in Workers |-> Idle]

-----------------------------------------------------------------------------
(* omp for hands v to a thread: top-down skips !frontier.get_bit(v),       *)
(* bottom-up skips Parents[v] != -1.                                       *)
Claim(w, v) ==
  /\ running /\ wk[w].pc = "idle" /\ v \in todo
  /\ todo' = todo \ {v}
  /\ wk' = [wk EXCEPT ![w] =
       CASE topDown /\ v \in frontier           -> [Idle EXCEPT !.v = v, !.ns = OutNeighbors(v), !.pc = "td"]
         [] ~topDown /\ Parents[v] = NoParent   -> [Idle EXCEPT !.v = v, !.ns = InNeighbors(v), !.pc = "bu"]
         [] OTHER                               -> Idle]
  /\ UNCHANGED <<Parents, frontier, next, count, topDown, running, tf, total>>

(* if (Parents[vid] == -1): the load.                                        *)
TopDownCheck(w) ==
  /\ wk[w].pc = "td"
  /\ LET st == wk[w] IN
     wk' = [wk EXCEPT ![w] =
              CASE st.ns = <<>>                    -> Idle
                [] Parents[Head(st.ns)] = NoParent -> [st EXCEPT !.vid = Head(st.ns), !.ns = Tail(st.ns), !.pc = "tdset"]
                [] OTHER                           -> [st EXCEPT !.ns = Tail(st.ns)]]
  /\ UNCHANGED <<Parents, frontier, next, count, topDown, running, todo, tf, total>>

(* Parents[vid] = v; ++next_frontier_count; then set_bit(vid).              *)
TopDownSet(w) ==
  /\ wk[w].pc = "tdset"
  /\ LET st == wk[w] IN
     /\ Parents' = [Parents EXCEPT ![st.vid] = st.v]
     /\ tf' = [tf EXCEPT ![w] = @ + 1]
     /\ wk' = [wk EXCEPT ![w].pc = "load"]
  /\ UNCHANGED <<frontier, next, count, topDown, running, todo, total>>

(* One in-neighbour vid of v: if frontier.get_bit(vid), Parents[v] = vid,  *)
(* set_bit(v), ++next_frontier_count and break.                            *)
BottomUpStep(w) ==
  /\ wk[w].pc = "bu"
  /\ LET st == wk[w] IN
     CASE st.ns = <<>> ->
            /\ wk' = [wk EXCEPT ![w] = Idle]
            /\ UNCHANGED <<Parents, tf>>
       [] Head(st.ns) \in frontier ->
            /\ Parents' = [Parents EXCEPT ![st.v] = Head(st.ns)]
            /\ tf' = [tf EXCEPT ![w] = @ + 1]
            /\ wk' = [wk EXCEPT ![w] = [st EXCEPT !.vid = st.v, !.ns = <<>>, !.pc = "load"]]
       [] OTHER ->
            /\ wk' = [wk EXCEPT ![w] = [st EXCEPT !.ns = Tail(st.ns)]]
            /\ UNCHANGED <<Parents, tf>>
  /\ UNCHANGED <<frontier, next, count, topDown, running, todo, total>>

(* set_bit(vid), first half: load start_[word_offset(vid)].                 *)
SetBitLoad(w) ==
  /\ wk[w].pc = "load"
  /\ wk' = [wk EXCEPT ![w].word = next \cap Word(wk[w].vid), ![w].pc = "store"]
  /\ UNCHANGED <<Parents, frontier, next, count, topDown, running, todo, tf, total>>

(* Second half: store the loaded word with bit_offset(vid) set.  A bit     *)
(* another thread stored in between is overwritten.  The thread then goes  *)
(* on with the neighbours of a top-down vertex, or is done (break).        *)
SetBitStore(w) ==
  /\ wk[w].pc = "store"
  /\ LET st == wk[w] IN
     /\ next' = (next \ Word(st.vid)) \cup st.word \cup {st.vid}
     /\ wk' = [wk EXCEPT ![w] = IF st.ns = <<>> /\ ~topDown THEN Idle ELSE [st EXCEPT !.pc = "td"]]
  /\ UNCHANGED <<Parents, frontier, count, topDown, running, todo, tf, total>>

AllJoined == todo = {} /\ \A w \in Workers : wk[w].pc = "idle"

(* After the region: frontier.reset(); frontier.swap(next_frontier);       *)
(* frontier_count = next_frontier_count; total_count += frontier_count;    *)
(* the loop test, and at the top of the next iteration the direction and  *)
(* a new, unzeroed Bitmap next_frontier(n).                                 *)
EndRound ==
  /\ running /\ AllJoined
  /\ frontier' = next
  /\ count' = FoldFunction(+, 0, tf)
  /\ tf' = [w \in Workers |-> 0]
  /\ total' = total + count'
  /\ running' = (count' # 0)
  /\ topDown' = ~(N <= count' * Threshold)
  /\ \E g \in SUBSET GarbageBits : next' = g
  /\ todo' = IF count' # 0 THEN V ELSE {}
  /\ UNCHANGED <<Parents, wk>>

Returned == ~running /\ UNCHANGED vars

WorkerStep(w) ==
  \/ \E v \in V : Claim(w, v)
  \/ TopDownCheck(w) \/ TopDownSet(w) \/ BottomUpStep(w)
  \/ SetBitLoad(w) \/ SetBitStore(w)

Next == (\E w \in Workers : WorkerStep(w)) \/ EndRound \/ Returned

Fairness == (\A w \in Workers : WF_vars(WorkerStep(w))) /\ WF_vars(EndRound)

Spec == Init /\ [][Next]_vars /\ Fairness

-----------------------------------------------------------------------------
TypeOK ==
  /\ Parents \in [V -> V \cup {NoParent}]
  /\ frontier \subseteq V /\ next \subseteq V /\ todo \subseteq V
  /\ count \in Nat /\ total \in Nat /\ tf \in [Workers -> Nat]
  /\ topDown \in BOOLEAN /\ running \in BOOLEAN
  /\ \A w \in Workers : wk[w].pc \in {"idle", "td", "tdset", "bu", "load", "store"}

(* Number of Parents hops from v to src, at most |V|.                      *)
RECURSIVE HopsWithin(_, _)
HopsWithin(v, n) ==
  IF v = Root \/ n = 0 \/ Parents[v] = NoParent THEN 0 ELSE 1 + HopsWithin(Parents[v], n - 1)

(* Spec 8.1: when the loop ends, every vertex reachable from src reaches   *)
(* it in exactly its hop distance of Parents hops, and every other vertex  *)
(* keeps -1.                                                                *)
ParentsAreBFSTree ==
  ~running =>
    \A v \in V :
      IF v \in Ref!Reachable(Root)
      THEN Parents[v] # NoParent /\ HopsWithin(v, Cardinality(V)) = Ref!Dist(Root, v)
      ELSE Parents[v] = NoParent

=============================================================================
