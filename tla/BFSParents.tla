----------------------------- MODULE BFSParents -----------------------------
(***************************************************************************)
(* BFS_with_edge_map of src/LSGraph/include/BFS.h: a parent-array BFS from *)
(* Root.  Each round is one sparse edgeMap over the frontier: workers      *)
(* take frontier vertices s in any order, and for each out-neighbour d     *)
(* test cond(d) (Parents[d] == -1) and then claim d with                   *)
(* updateAtomic, CAS(Parents[d], -1, s).  The vertices whose claim         *)
(* succeeded form the next frontier; the loop ends on an empty frontier.   *)
(* The cond load and the CAS are separate steps, so claims of different    *)
(* workers on one destination interleave between them.                    *)
(***************************************************************************)
EXTENDS Naturals, Sequences, SequencesExt, Bags, BagsExt, FiniteSets

CONSTANTS
  V,        \* vertex ids 0..n-1
  E,        \* directed edges <<s, d>>
  Root,     \* src argument
  Workers   \* worker threads of the parallel-for pool

ASSUME /\ V \subseteq Nat /\ E \subseteq V \X V /\ Root \in V

NoParent == -1

VARIABLES
  Parents,   \* the Parents array
  frontier,  \* the VertexSubset of the running round, as a bag
  todo,      \* frontier vertices no worker has taken yet
  next,      \* next_frontier being built: vertices whose update returned true
  wk         \* per worker: source s, its remaining out-neighbours, pc

vars == <<Parents, frontier, todo, next, wk>>

Ref == INSTANCE BFSDistance

OutNeighbors(s) == SetToSeq({d \in V : <<s, d>> \in E})

Idle == [s |-> Root, ns |-> <<>>, pc |-> "idle"]

(* The -1 fill loop stopping one short: the last cell of the malloc'ed     *)
(* array keeps whatever it held, here -1 or an id past the last vertex.    *)
InitFillShort ==
  /\ \E garbage \in {NoParent, Cardinality(V)} :
       Parents = [v \in V |-> IF v = Root THEN Root
                              ELSE IF v = Cardinality(V) - 1 THEN garbage
                              ELSE NoParent]
  /\ frontier = SetToBag({Root})
  /\ todo = SetToBag({Root})
  /\ next = EmptyBag
  /\ wk = [w \in Workers |-> Idle]

(* Initialisation that forgets Parents[start] = start.                      *)
InitNoRootParent ==
  /\ Parents = [v \in V |-> NoParent]
  /\ frontier = SetToBag({Root})
  /\ todo = SetToBag({Root})
  /\ next = EmptyBag
  /\ wk = [w \in Workers |-> Idle]

(* Parents all -1 but Parents[start] = start; frontier = {start}.           *)
Init ==
  /\ Parents = [v \in V |-> IF v = Root THEN Root ELSE NoParent]
  /\ frontier = SetToBag({Root})
  /\ todo = SetToBag({Root})
  /\ next = EmptyBag
  /\ wk = [w \in Workers |-> Idle]

-----------------------------------------------------------------------------
(* A worker of the sparse edgeMap takes one copy of a frontier vertex.      *)
Claim(w, s) ==
  /\ wk[w].pc = "idle"
  /\ BagIn(s, todo)
  /\ todo' = BagRemove(todo, s)
  /\ wk' = [wk EXCEPT ![w] = [s |-> s, ns |-> OutNeighbors(s), pc |-> "cond"]]
  /\ UNCHANGED <<Parents, frontier, next>>

(* A cond test that does not move past an already visited neighbour.       *)
CondNoAdvance(w) ==
  /\ wk[w].pc = "cond"
  /\ LET st == wk[w] IN
     wk' = [wk EXCEPT ![w] =
              IF st.ns = <<>> THEN Idle
              ELSE IF Parents[Head(st.ns)] = NoParent THEN [st EXCEPT !.pc = "cas"]
              ELSE st]
  /\ UNCHANGED <<Parents, frontier, todo, next>>

(* f.cond(d): go on to the claim only while Parents[d] == -1.               *)
Cond(w) ==
  /\ wk[w].pc = "cond"
  /\ LET st == wk[w] IN
     wk' = [wk EXCEPT ![w] =
              IF st.ns = <<>> THEN Idle
              ELSE IF Parents[Head(st.ns)] = NoParent THEN [st EXCEPT !.pc = "cas"]
              ELSE [st EXCEPT !.ns = Tail(st.ns)]]
  /\ UNCHANGED <<Parents, frontier, todo, next>>

(* The non-atomic BFS_F::update used where the sparse map needs the atomic *)
(* one: the write relies on the earlier cond load.                         *)
UpdatePlain(w) ==
  /\ wk[w].pc = "cas"
  /\ LET st == wk[w]
         d  == Head(st.ns)
     IN  /\ Parents' = [Parents EXCEPT ![d] = st.s]
         /\ next' = BagAdd(next, d)
         /\ wk' = [wk EXCEPT ![w] = [st EXCEPT !.ns = Tail(st.ns), !.pc = "cond"]]
  /\ UNCHANGED <<frontier, todo>>

(* BFS_F::updateAtomic: CAS(&Parents[d], -1, s); d joins next_frontier     *)
(* when the CAS succeeds.                                                  *)
UpdateAtomic(w) ==
  /\ wk[w].pc = "cas"
  /\ LET st == wk[w]
         d  == Head(st.ns)
     IN  /\ IF Parents[d] = NoParent
            THEN /\ Parents' = [Parents EXCEPT ![d] = st.s]
                 /\ next' = BagAdd(next, d)
            ELSE UNCHANGED <<Parents, next>>
         /\ wk' = [wk EXCEPT ![w] = [st EXCEPT !.ns = Tail(st.ns), !.pc = "cond"]]
  /\ UNCHANGED <<frontier, todo>>

AllJoined == todo = EmptyBag /\ \A w \in Workers : wk[w].pc = "idle"

(* The loop body after edgeMap returns: frontier = next_frontier.           *)
EndRoundNoJoin ==
  /\ frontier # EmptyBag /\ todo = EmptyBag
  /\ frontier' = next /\ todo' = next /\ next' = EmptyBag
  /\ UNCHANGED <<Parents, wk>>

EndRound ==
  /\ frontier # EmptyBag /\ AllJoined
  /\ frontier' = next /\ todo' = next /\ next' = EmptyBag
  /\ UNCHANGED <<Parents, wk>>

(* while (frontier.not_empty()) has exited and Parents is returned.        *)
Returned == frontier = EmptyBag /\ UNCHANGED vars

WorkerStep(w) == (\E s \in V : Claim(w, s)) \/ Cond(w) \/ UpdateAtomic(w)

Next == (\E w \in Workers : WorkerStep(w)) \/ EndRound \/ Returned

(* Pool threads run while they have work; the caller runs after the join.  *)
Fairness == (\A w \in Workers : WF_vars(WorkerStep(w))) /\ WF_vars(EndRound)

Spec == Init /\ [][Next]_vars /\ Fairness

-----------------------------------------------------------------------------
(* Number of Parents hops from v to the root, at most |V|.                 *)
RECURSIVE HopsWithin(_, _)
HopsWithin(v, n) ==
  IF v = Root \/ n = 0 \/ Parents[v] = NoParent THEN 0 ELSE 1 + HopsWithin(Parents[v], n - 1)

TypeOK ==
  /\ Parents \in [V -> V \cup {NoParent}]
  /\ IsABag(frontier) /\ IsABag(todo) /\ IsABag(next)
  /\ \A w \in Workers : wk[w].pc \in {"idle", "cond", "cas"}

(* A vertex's depth is its number of Parents hops to the root.  The level *)
(* of the running round is the depth of its frontier; after the loop has  *)
(* exited it is one past the deepest vertex.                               *)
Depth(v) == IF Parents[v] = NoParent THEN -1 ELSE HopsWithin(v, Cardinality(V))

Abs == INSTANCE LevelSyncBFS WITH
         depth <- [v \in V |-> Depth(v)],
         level <- IF frontier # EmptyBag THEN Depth(CHOOSE v \in BagToSet(frontier) : TRUE)
                  ELSE Max({Depth(v) : v \in V}) + 1,
         done  <- frontier = EmptyBag

(* Level-synchronous discovery, which relies on the implicit join of      *)
(* edgeMap: every successful CAS gives an unclaimed vertex a parent of the *)
(* running round's frontier, no round ends while a frontier vertex has an  *)
(* unclaimed out-neighbour, and the loop exits after a round that claimed  *)
(* nobody -- and does exit.                                                *)
Refinement == Abs!Spec

(* Spec 4.4: the CAS claim lets exactly one discoverer claim a vertex, so  *)
(* no vertex enters next_frontier twice, even when two sources of the      *)
(* frontier race on one destination.                                       *)
ClaimedOnce == \A d \in V : CopiesIn(d, next) <= 1

(* Spec 7.1: once the loop exits, a reachable vertex reaches the root by   *)
(* exactly its hop distance in Parents hops; any other vertex keeps -1.    *)
ParentsAreBFSTree ==
  frontier = EmptyBag =>
    \A v \in V :
      IF v \in Ref!Reachable(Root)
      THEN Parents[v] # NoParent /\ HopsWithin(v, Cardinality(V)) = Ref!Dist(Root, v)
      ELSE Parents[v] = NoParent

(* The frontier loop ends.                                                  *)
Termination == <>(frontier = EmptyBag)

=============================================================================
