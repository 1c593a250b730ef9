----------------------------- MODULE XPGraphBFS -----------------------------
(***************************************************************************)
(* test_bfs and test_bfs_numa of src/XPGraph/apps/breadth_first_search.hpp *)
(* for one root.  status[] (0 = unvisited, else 1 + hop distance) comes    *)
(* from new uint16_t[v_count] and is never cleared: its cells hold         *)
(* whatever the allocator hands back, drawn here from Garbage.  Each round *)
(* is an omp parallel region with reduction(+:frontier):                   *)
(*   top-down   a vertex v with status[v] == level sets every out-         *)
(*              neighbour whose status is 0 to level + 1 and counts it --  *)
(*              a plain load and a plain store;                            *)
(*   bottom-up  a vertex with status 0 takes level + 1 from the first      *)
(*              in-neighbour at level and counts itself.                   *)
(* test_bfs_numa splits each loop into even and odd vertices with nowait,  *)
(* which only reorders the vertices, and declares an inner total_count     *)
(* that shadows the one it returns.                                        *)
(***************************************************************************)
EXTENDS Naturals, Sequences, SequencesExt, FiniteSets, Folds, Functions

CONSTANTS
  V,         \* the vertices with edges, ids 0..n-1
  E,         \* directed edges <<s, d>>
  Isolated,  \* number of further vertices without edges
  Numa,      \* TRUE: test_bfs_numa(root = NumaRoot); FALSE: test_bfs
  NumaRoot,  \* root argument of test_bfs_numa
  Garbage,   \* values an uninitialised status cell may hold
  Workers    \* OpenMP threads

ASSUME /\ V \subseteq Nat /\ E \subseteq V \X V /\ NumaRoot \in V
       /\ Isolated \in Nat /\ Numa \in BOOLEAN /\ Garbage \subseteq Nat /\ 0 \in Garbage

VARIABLES
  status, root, level, frontier, topDown, running, todo,
  tf,        \* each thread's private copy of frontier
  total,     \* the total_count the function returns
  wk

vars == <<status, root, level, frontier, topDown, running, todo, tf, total, wk>>

Ref == INSTANCE BFSDistance

VCount == Cardinality(V) + Isolated

OutNeighbors(v) == SetToSeq({d \in V : <<v, d>> \in E})
InNeighbors(v)  == SetToSeq({s \in V : <<s, v>> \in E})

(* test_bfs draws roots with rand() until one has out-degree > 20, and     *)
(* falls back to 0 after v_count draws.                                    *)
RootChoices ==
  IF Numa THEN {NumaRoot}
  ELSE {v \in V : Cardinality({d \in V : <<v, d>> \in E}) > 20} \cup {0}

Idle == [v |-> 0, ns |-> <<>>, pc |-> "idle"]

(* total_count starting at 0 instead of counting the root.                *)
InitTotalZero ==
  /\ root \in RootChoices
  /\ \E junk \in [V -> Garbage] : status = [junk EXCEPT ![root] = 1]
  /\ level = 1 /\ frontier = 0 /\ topDown = TRUE /\ running = TRUE
  /\ todo = V
  /\ tf = [w \in Workers |-> 0]
  /\ total = 0
  /\ wk = [w \in Workers |-> Idle]

Init ==
  /\ root \in RootChoices
  /\ \E junk \in [V -> Garbage] : status = [junk EXCEPT ![root] = 1]
  /\ level = 1 /\ frontier = 0 /\ topDown = TRUE /\ running = TRUE
  /\ todo = V
  /\ tf = [w \in Workers |-> 0]
  /\ total = IF Numa THEN 0 ELSE 1
  /\ wk = [w \in Workers |-> Idle]

-----------------------------------------------------------------------------
(* A bottom-up loop without if (status[v] != 0) continue.                  *)
ClaimBottomUpAll(w, v) ==
  /\ running /\ wk[w].pc = "idle" /\ v \in todo
  /\ todo' = todo \ {v}
  /\ wk' = [wk EXCEPT ![w] =
       CASE topDown /\ status[v] = level   -> [v |-> v, ns |-> OutNeighbors(v), pc |-> "td"]
         [] ~topDown                       -> [v |-> v, ns |-> InNeighbors(v), pc |-> "bu"]
         [] OTHER                          -> Idle]
  /\ UNCHANGED <<status, root, level, frontier, topDown, running, tf, total>>

(* omp for hands v to a thread: top-down skips status[v] != level and      *)
(* bottom-up skips status[v] != 0.                                         *)
Claim(w, v) ==
  /\ running /\ wk[w].pc = "idle" /\ v \in todo
  /\ todo' = todo \ {v}
  /\ wk' = [wk EXCEPT ![w] =
       CASE topDown /\ status[v] = level   -> [v |-> v, ns |-> OutNeighbors(v), pc |-> "td"]
         [] ~topDown /\ status[v] = 0      -> [v |-> v, ns |-> InNeighbors(v), pc |-> "bu"]
         [] OTHER                          -> Idle]
  /\ UNCHANGED <<status, root, level, frontier, topDown, running, tf, total>>

(* if (status[vid] == 0): the load.                                         *)
TopDownCheck(w) ==
  /\ wk[w].pc = "td"
  /\ LET st == wk[w] IN
     wk' = [wk EXCEPT ![w] =
              CASE st.ns = <<>>                 -> Idle
                [] status[Head(st.ns)] = 0      -> [st EXCEPT !.pc = "tdset"]
                [] OTHER                        -> [st EXCEPT !.ns = Tail(st.ns)]]
  /\ UNCHANGED <<status, root, level, frontier, topDown, running, todo, tf, total>>

(* status[vid] = level + 1; ++frontier.                                     *)
TopDownSet(w) ==
  /\ wk[w].pc = "tdset"
  /\ LET st == wk[w] IN
     /\ status' = [status EXCEPT ![Head(st.ns)] = level + 1]
     /\ tf' = [tf EXCEPT ![w] = @ + 1]
     /\ wk' = [wk EXCEPT ![w] = [st EXCEPT !.ns = Tail(st.ns), !.pc = "td"]]
  /\ UNCHANGED <<root, level, frontier, topDown, running, todo, total>>

(* A bottom-up scan that does not move past an in-neighbour off the level. *)
BottomUpStuck(w) ==
  /\ wk[w].pc = "bu"
  /\ LET st == wk[w] IN
     CASE st.ns = <<>> ->
            /\ wk' = [wk EXCEPT ![w] = Idle]
            /\ UNCHANGED <<status, tf>>
       [] status[Head(st.ns)] = level ->
            /\ status' = [status EXCEPT ![st.v] = level + 1]
            /\ tf' = [tf EXCEPT ![w] = @ + 1]
            /\ wk' = [wk EXCEPT ![w] = Idle]
       [] OTHER -> UNCHANGED <<status, tf, wk>>
  /\ UNCHANGED <<root, level, frontier, topDown, running, todo, total>>

(* One in-neighbour vid: if status[vid] == level, status[v] = level + 1,    *)
(* ++frontier and break.  Only v's thread writes status[v].                 *)
BottomUpStep(w) ==
  /\ wk[w].pc = "bu"
  /\ LET st == wk[w] IN
     CASE st.ns = <<>> ->
            /\ wk' = [wk EXCEPT ![w] = Idle]
            /\ UNCHANGED <<status, tf>>
       [] status[Head(st.ns)] = level ->
            /\ status' = [status EXCEPT ![st.v] = level + 1]
            /\ tf' = [tf EXCEPT ![w] = @ + 1]
            /\ wk' = [wk EXCEPT ![w] = Idle]
       [] OTHER ->
            /\ wk' = [wk EXCEPT ![w] = [st EXCEPT !.ns = Tail(st.ns)]]
            /\ UNCHANGED <<status, tf>>
  /\ UNCHANGED <<root, level, frontier, topDown, running, todo, total>>

AllJoined == todo = {} /\ \A w \in Workers : wk[w].pc = "idle"

(* The reduction that keeps each thread's private count across regions.   *)
EndRoundKeepPrivate ==
  /\ running /\ AllJoined
  /\ frontier' = FoldFunction(+, 0, tf)
  /\ UNCHANGED tf
  /\ topDown' = ~(1000 * frontier' >= 2 * VCount)
  /\ level' = level + 1
  /\ total' = IF Numa THEN total ELSE total + frontier'
  /\ running' = (frontier' # 0)
  /\ todo' = IF frontier' # 0 THEN V ELSE {}
  /\ UNCHANGED <<status, root, wk>>

(* End of the parallel region: the private frontiers are summed; the       *)
(* direction is chosen; ++level; total_count += frontier -- in             *)
(* test_bfs_numa into the inner total_count, which the outer one never     *)
(* sees; while (frontier) loops again.                                     *)
EndRound ==
  /\ running /\ AllJoined
  /\ frontier' = FoldFunction(+, 0, tf)
  /\ tf' = [w \in Workers |-> 0]
  /\ topDown' = ~(1000 * frontier' >= 2 * VCount)
  /\ level' = level + 1
  /\ total' = IF Numa THEN total ELSE total + frontier'
  /\ running' = (frontier' # 0)
  /\ todo' = IF frontier' # 0 THEN V ELSE {}
  /\ UNCHANGED <<status, root, wk>>

Returned == ~running /\ UNCHANGED vars

WorkerStep(w) ==
  \/ \E v \in V : Claim(w, v)
  \/ TopDownCheck(w) \/ TopDownSet(w) \/ BottomUpStep(w)

Next == (\E w \in Workers : WorkerStep(w)) \/ EndRound \/ Returned

Fairness == (\A w \in Workers : WF_vars(WorkerStep(w))) /\ WF_vars(EndRound)

Spec == Init /\ [][Next]_vars /\ Fairness

-----------------------------------------------------------------------------
TypeOK ==
  /\ status \in [V -> Nat] /\ root \in V
  /\ level \in 1..Cardinality(V) + 1
  /\ frontier \in Nat /\ tf \in [Workers -> Nat] /\ total \in Nat
  /\ topDown \in BOOLEAN /\ running \in BOOLEAN /\ todo \subseteq V
  /\ \A w \in Workers : wk[w].pc \in {"idle", "td", "tdset", "bu"}

(* When the do-while exits, status[v] is 1 + the hop distance from the     *)
(* root for every reachable vertex and 0 for the others (the summary       *)
(* print_bfs_summary reports per level).                                   *)
StatusAreHopDistance ==
  ~running =>
    \A v \in V :
      status[v] = IF v \in Ref!Reachable(root) THEN Ref!Dist(root, v) + 1 ELSE 0

(* status[v] = 1 + depth, 0 for undiscovered, for the root drawn in Init; *)
(* level = 1 + the level of the running round.                            *)
Abs == INSTANCE LevelSyncBFS WITH
         depth <- [v \in V |-> status[v] - 1],
         level <- level - 1, done <- ~running

(* test_bfs is a level-synchronous BFS in either direction: each store to  *)
(* status[] gives an unvisited vertex the next level from an in-neighbour  *)
(* on the current level (a racing second top-down store writes the same    *)
(* value), no round ends with a vertex of its level having an unvisited    *)
(* out-neighbour, the loop exits after the first empty round, and exits.   *)
Refinement == Abs!Spec

(* The returned total_count counts at least every vertex the search        *)
(* reached, the root included (racing top-down stores may count one twice).*)
TotalCountsReached == ~running => total >= Cardinality(Ref!Reachable(root))

(* What test_bfs and test_bfs_numa are for: when the search ends, the     *)
(* levels in status[] are the hop distances and the total_count returned   *)
(* (and printed as the number of vertices visited) covers the reached      *)
(* vertices.                                                               *)
TestBfsResult == StatusAreHopDistance /\ TotalCountsReached

(* With the status memory zeroed, the level loop of test_bfs ends although *)
(* the racing top-down stores may count a vertex twice: every non-empty    *)
(* round turns some 0 cell into a level.                                   *)
Termination == <>(~running)

=============================================================================
