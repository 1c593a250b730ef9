----------------------------- MODULE BFSLevels -----------------------------
(***************************************************************************)
(* BFS_xpgraph of src/LSGraph/include/BFS.h: a direction-optimising BFS    *)
(* over levels[] (0 = unvisited, else 1 + hop distance).  Every round is   *)
(* one EdgeMapDense over all vertices:                                     *)
(*   top-down  (G.out(), BFS_TopDown_F): a vertex s with levels[s] ==      *)
(*             cur_level visits its out-neighbours d and, if levels[d] ==  *)
(*             0, sets it to cur_level + 1 and counts it -- a plain load   *)
(*             and a plain store, so two sources may both claim d;         *)
(*   bottom-up (G.in(), BFS_DownTop_F): an unvisited d scans its           *)
(*             in-neighbours and stops at the first s with levels[s] ==    *)
(*             cur_level.                                                  *)
(* Each worker counts its discoveries in thread_frontier[worker]; the     *)
(* reduction sums them into frontier, which picks the next direction      *)
(* (frontier >= 0.002 * v_count means bottom-up) and ends the loop at 0.   *)
(*                                                                         *)
(* Isolated is the number of further vertices with no edges: they only     *)
(* enlarge v_count (and so the direction threshold), since their map       *)
(* iterations change nothing.                                              *)
(***************************************************************************)
EXTENDS Naturals, Sequences, SequencesExt, FiniteSets, Folds, Functions

CONSTANTS
  V,         \* the vertices with edges, ids 0..n-1
  E,         \* directed edges <<s, d>>
  Isolated,  \* number of further vertices without edges
  Root,      \* root argument
  Workers    \* worker threads

ASSUME /\ V \subseteq Nat /\ E \subseteq V \X V /\ Root \in V /\ Isolated \in Nat

VARIABLES
  levels,    \* levels[]
  level,     \* level, the cur_level of both functors
  frontier,  \* frontier after the last reduction
  topDown,   \* top_down
  running,   \* the do-while loop has not exited
  todo,      \* vertices of the running EdgeMapDense not yet taken
  tf,        \* thread_frontier[worker]
  wk         \* per worker: vertex, neighbours left, loaded target, pc

vars == <<levels, level, frontier, topDown, running, todo, tf, wk>>

Ref == INSTANCE BFSDistance

VCount == Cardinality(V) + Isolated

OutNeighbors(v) == SetToSeq({d \in V : <<v, d>> \in E})
InNeighbors(v)  == SetToSeq({s \in V : <<s, v>> \in E})

Idle == [v |-> Root, ns |-> <<>>, pc |-> "idle"]

Init ==
  /\ levels = [v \in V |-> IF v = Root THEN 1 ELSE 0]
  /\ level = 1
  /\ frontier = 0
  /\ topDown = TRUE
  /\ running = TRUE
  /\ todo = V
  /\ tf = [w \in Workers |-> 0]
  /\ wk = [w \in Workers |-> Idle]

-----------------------------------------------------------------------------
(* A dense map that tests top-down's cond but not bottom-up's: visited     *)
(* vertices scan their in-neighbours too.                                  *)
ClaimBottomUpNoCond(w, v) ==
  /\ running /\ wk[w].pc = "idle" /\ v \in todo
  /\ todo' = todo \ {v}
  /\ wk' = [wk EXCEPT ![w] =
       IF topDown
       THEN IF levels[v] = level THEN [v |-> v, ns |-> OutNeighbors(v), pc |-> "td"] ELSE Idle
       ELSE [v |-> v, ns |-> InNeighbors(v), pc |-> "bu"]]
  /\ UNCHANGED <<levels, level, frontier, topDown, running, tf>>

(* The dense map takes vertex v and tests the functor's cond on it.        *)
Claim(w, v) ==
  /\ running /\ wk[w].pc = "idle" /\ v \in todo
  /\ todo' = todo \ {v}
  /\ wk' = [wk EXCEPT ![w] =
       IF topDown
       THEN IF levels[v] = level THEN [v |-> v, ns |-> OutNeighbors(v), pc |-> "td"] ELSE Idle
       ELSE IF levels[v] = 0 THEN [v |-> v, ns |-> InNeighbors(v), pc |-> "bu"] ELSE Idle]
  /\ UNCHANGED <<levels, level, frontier, topDown, running, tf>>

(* BFS_TopDown_F::update(d, s), first half: load levels[d] == 0.           *)
TopDownCheck(w) ==
  /\ wk[w].pc = "td"
  /\ LET st == wk[w] IN
     wk' = [wk EXCEPT ![w] =
              IF st.ns = <<>> THEN Idle
              ELSE IF levels[Head(st.ns)] = 0 THEN [st EXCEPT !.pc = "tdset"]
              ELSE [st EXCEPT !.ns = Tail(st.ns)]]
  /\ UNCHANGED <<levels, level, frontier, topDown, running, todo, tf>>

(* The store of the frontier's own level instead of the next one.         *)
TopDownSetSameLevel(w) ==
  /\ wk[w].pc = "tdset"
  /\ LET st == wk[w] IN
     /\ levels' = [levels EXCEPT ![Head(st.ns)] = level]
     /\ tf' = [tf EXCEPT ![w] = @ + 1]
     /\ wk' = [wk EXCEPT ![w] = [st EXCEPT !.ns = Tail(st.ns), !.pc = "td"]]
  /\ UNCHANGED <<level, frontier, topDown, running, todo>>

(* Second half: levels[d] = cur_level + 1; thread_frontier[me][0]++.        *)
TopDownSet(w) ==
  /\ wk[w].pc = "tdset"
  /\ LET st == wk[w] IN
     /\ levels' = [levels EXCEPT ![Head(st.ns)] = level + 1]
     /\ tf' = [tf EXCEPT ![w] = @ + 1]
     /\ wk' = [wk EXCEPT ![w] = [st EXCEPT !.ns = Tail(st.ns), !.pc = "td"]]
  /\ UNCHANGED <<level, frontier, topDown, running, todo>>

(* A bottom-up scan that stays on an in-neighbour that is not in the       *)
(* frontier.                                                               *)
BottomUpStuck(w) ==
  /\ wk[w].pc = "bu"
  /\ LET st == wk[w] IN
     IF st.ns = <<>> THEN /\ wk' = [wk EXCEPT ![w] = Idle]
                          /\ UNCHANGED <<levels, tf>>
     ELSE IF levels[Head(st.ns)] = level
     THEN /\ levels' = [levels EXCEPT ![st.v] = level + 1]
          /\ tf' = [tf EXCEPT ![w] = @ + 1]
          /\ wk' = [wk EXCEPT ![w] = Idle]
     ELSE UNCHANGED <<levels, tf, wk>>
  /\ UNCHANGED <<level, frontier, topDown, running, todo>>

(* BFS_DownTop_F::update(s, d) on the next in-neighbour s of d: if         *)
(* levels[s] == cur_level, levels[d] = cur_level + 1 and count; then cond  *)
(* (levels[d] == 0) fails and the scan of d stops.  Only d's own worker    *)
(* writes levels[d] in this map.                                           *)
BottomUpStep(w) ==
  /\ wk[w].pc = "bu"
  /\ LET st == wk[w] IN
     IF st.ns = <<>> THEN /\ wk' = [wk EXCEPT ![w] = Idle]
                          /\ UNCHANGED <<levels, tf>>
     ELSE IF levels[Head(st.ns)] = level
     THEN /\ levels' = [levels EXCEPT ![st.v] = level + 1]
          /\ tf' = [tf EXCEPT ![w] = @ + 1]
          /\ wk' = [wk EXCEPT ![w] = Idle]
     ELSE /\ wk' = [wk EXCEPT ![w] = [st EXCEPT !.ns = Tail(st.ns)]]
          /\ UNCHANGED <<levels, tf>>
  /\ UNCHANGED <<level, frontier, topDown, running, todo>>

AllJoined == todo = {} /\ \A w \in Workers : wk[w].pc = "idle"

(* Sum of the per-worker counters.                                          *)
Reduced == FoldFunction(+, 0, tf)

(* The reduction that does not clear thread_frontier after adding it.      *)
EndRoundNoReset ==
  /\ running /\ AllJoined
  /\ frontier' = Reduced
  /\ UNCHANGED tf
  /\ topDown' = ~(1000 * frontier' >= 2 * VCount)
  /\ level' = level + 1
  /\ running' = (frontier' # 0)
  /\ todo' = IF frontier' # 0 THEN V ELSE {}
  /\ UNCHANGED <<levels, wk>>

(* After the join: frontier = 0; reduction(); choose the direction;        *)
(* level++; while (frontier) loops again.                                  *)
EndRound ==
  /\ running /\ AllJoined
  /\ frontier' = Reduced
  /\ tf' = [w \in Workers |-> 0]
  /\ topDown' = ~(1000 * frontier' >= 2 * VCount)
  /\ level' = level + 1
  /\ running' = (frontier' # 0)
  /\ todo' = IF frontier' # 0 THEN V ELSE {}
  /\ UNCHANGED <<levels, wk>>

(* The loop has exited and levels is returned.                              *)
Returned == ~running /\ UNCHANGED vars

WorkerStep(w) ==
  \/ \E v \in V : Claim(w, v)
  \/ TopDownCheck(w) \/ TopDownSet(w) \/ BottomUpStep(w)

Next == (\E w \in Workers : WorkerStep(w)) \/ EndRound \/ Returned

Fairness == (\A w \in Workers : WF_vars(WorkerStep(w))) /\ WF_vars(EndRound)

Spec == Init /\ [][Next]_vars /\ Fairness

-----------------------------------------------------------------------------
TypeOK ==
  /\ levels \in [V -> 0..Cardinality(V)]
  /\ level \in 1..Cardinality(V) + 1
  /\ frontier \in Nat
  /\ topDown \in BOOLEAN /\ running \in BOOLEAN /\ todo \subseteq V
  /\ tf \in [Workers -> Nat]
  /\ \A w \in Workers : wk[w].pc \in {"idle", "td", "tdset", "bu"}

(* The vertices the round of cur_level = l discovered.                     *)
Discovered(l) == {v \in V : levels[v] = l}

(* levels[v] = 1 + depth, 0 for undiscovered; cur_level = 1 + the level   *)
(* of the running round; the do-while has exited when the search is done. *)
Abs == INSTANCE LevelSyncBFS WITH
         depth <- [v \in V |-> levels[v] - 1], level <- level - 1, done <- ~running

(* BFS_xpgraph is a level-synchronous BFS, in either direction: every      *)
(* store to levels[] gives an undiscovered vertex the level after the      *)
(* round's, from an in-neighbour of the round's level (the racing second   *)
(* top-down store of the same value changes nothing), no round ends while  *)
(* one of its vertices has an undiscovered out-neighbour, the loop exits   *)
(* after the first round that found nobody, and it does exit.              *)
Refinement == Abs!Spec

(* The reduced frontier may over-count a racing top-down round, but it is  *)
(* zero exactly when the round found nobody, so while (frontier) neither   *)
(* stops early nor spins on an empty round.                                *)
FrontierZeroIffNone ==
  level > 1 =>
    /\ frontier >= Cardinality(Discovered(level))
    /\ (frontier = 0 <=> Discovered(level) = {})

(* Spec 3 (Levels): when the loop exits, levels[v] is 1 + the hop distance *)
(* of every vertex reachable from the root and 0 for every other vertex,   *)
(* whatever directions the frontier count chose.                           *)
LevelsAreHopDistance ==
  ~running =>
    \A v \in V :
      levels[v] = IF v \in Ref!Reachable(Root) THEN Ref!Dist(Root, v) + 1 ELSE 0

(* The do-while loop exits.                                                 *)
Termination == <>(~running)

=============================================================================
