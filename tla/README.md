# TLA+ models of the graph_works kernels

This directory holds TLA+ specifications of the concurrent graph kernels in
`src/`. It also holds the TLC configurations that check them. Each module is
translated from the C++ source. `PROJECT.json` maps every definition to the
lines it models. It also lists the runs, the mutants that show each property
can fail, and the hazards of the code.

## The system

The repository packages benchmark kernels for three graph stores:

| Part | Source | What it does |
|------|--------|--------------|
| Afforest CC | `src/LSGraph/include/CC.h` | Lock-free union-find (`Link`), pointer-jumping `CC_Vertex_Compress_F`, sampling of the first `neighbor_rounds` out-edges, `SampleFrequentElement`, and a finalize pass over the remaining out-edges and all in-edges that skips the sampled giant label. `CC_GAPBS_S` runs them as five `vertexMap`s. |
| LSGraph BFS | `src/LSGraph/include/BFS.h` | Parent-array BFS over a sparse `edgeMap` that claims vertices with `CAS(Parents[d], -1, s)`. `BFS_xpgraph` is a direction-optimising BFS over a `levels` array, with a per-thread frontier counter that chooses top-down or bottom-up. |
| LSGraph PageRank | `src/LSGraph/include/PagerankPull.h`, `PagerankPush.h` | Pull: Gauss-Seidel with a racy `error +=`. Push: a CAS-loop float add (`qthread_dincr`) followed by a per-vertex rescale. |
| XPGraph BFS | `src/XPGraph/apps/breadth_first_search.hpp` | Level BFS over an uninitialised `uint16_t status[]` array. A bitmap BFS with a non-atomic `set_bit`. |
| XPGraph PageRank | `src/XPGraph/apps/pr_gapbs.hpp` | Gauss-Seidel pull that skips vertices with no in-edges. |
| Afforest statistics | `src/LSGraph/include/CC.h` (`TopK`, `PrintCompStats`) | Sequential top-k selection over the component sizes. |
| BACH BloomFilter | `src/BACH/src/BloomFilter.cpp` | Bit array with `hash_func_num` probes per key. |
| Harness | `LSGraph-Bench.cc`, `LSGraph-TC.cc`, XPGraph `main.cpp`, `*_benchmarks.hpp`, LiveGraph `benchmark.cpp` | Loading, timing and printing. |

The kernels work on a shared graph through `vertexMap` and `edgeMap` in
`Map.cpp`, which is not under `src/`. `vertexMap` is a parallel for over the
vertices with an implicit join at the end. For one vertex,
`map_dense_vs_all(f, ..., i)` calls `f.update(ngh, i)` on each neighbour in
adjacency order while `f.cond` holds. The models take these semantics from
the spec.

Kernels interact only through shared arrays (`comp`, `Parents`, `levels`,
`scores`), which worker threads write concurrently inside one map. The
sequential driver code runs between two maps.

## Modules

### `ConnectivitySpec` (abstract)

This module states what a connected-components kernel promises.

- The variable `blocks` is a partition of `V`, starting as singletons.
- A step may only merge the two blocks that hold the ends of a graph edge.
- Weak fairness makes the merging finish, so the blocks end as the weakly
  connected components, `Components`.

### `AfforestCC` (CC.h)

State:

- `comp` is the `comp` array.
- `phase` says which of the maps of `CC_GAPBS_S` runs: sample, compress1,
  finalize, compress2 or done. The initialisation map is `Init`.
- `todo` is the set of vertices of the running map that no worker has
  claimed yet.
- `c` is the label returned by `SampleFrequentElement`.
- `wk[w]` holds the locals of worker `w`: its vertex, the Links it has left
  to do, `p1`, `p2`, `high`, `low` and `p_high` of the running `Link`, and a
  pc.

Actions:

- **`Claim`**: a worker takes a vertex of the running map. In finalize it
  returns at once when `comp[i] == max_comp`, read at that moment.
- **`SampleLinks` and `FinalizeLinks`**: the neighbour walks.
  - Sample walks the first `r` out-neighbours.
  - Finalize walks the out-neighbours after the first `r`, then every
    in-neighbour (`k = r = 0`).
- **`Link`**: split into its shared-memory accesses. Other workers can act
  between any two of them.
  - `LinkReadP1`, `LinkReadP2`: the initial loads.
  - `LinkLoop`: the loop test, `high`, `low` and the load of `p_high`.
  - `LinkCas`: the break test and `compare_and_swap`.
  - `LinkRetryInner`, `LinkRetryP1`, `LinkRetryP2`: `p1 = comp[comp[high]]`
    is two loads, then `p2 = comp[low]`.
- **`CompressStep`**: one iteration of the compress while loop. In a compress
  map only the owner of `i` writes `comp[i]`, so one iteration is one step.
- **`EndSample`, `SampleFrequentElement`, `EndFinalize`, `EndCompress`**: the
  driver code after each join. `SampleFrequentElement` returns some label
  present in `comp`. Which label it is depends on the mt19937 stream, so the
  model chooses it nondeterministically.

The refinement mapping sends `blocks` to the partition of the `comp` forest,
`Blocks`. Each `Blocks` set groups the vertices whose `comp` chains reach the
same root.

Properties:

- `TypeOK`.
- `DoneCorrect` (spec §8.3): once the kernel returns, `comp[u] = comp[v]`
  holds exactly when `u` and `v` are weakly connected. This holds for every
  sampled label and every interleaving.
- `Refinement`: `ConnectivitySpec!Spec` under the mapping. No step splits a
  block. No step joins blocks that no edge connects. Every step is a single
  edge merge or a stutter.
- `CompStatsCorrect` is about `PrintCompStats`, which `test_cc` calls on the
  returned `comp`. It composes the kernel with `TopK`:
  - `CompCount` counts each label.
  - `CountVectors` is that count in every order the `unordered_map` may
    iterate in.
  - The property checks the `TopKOf(vec, 5)` that the model computes from
    each `CountVectors` order. The component count printed is the number of
    weakly connected components. The biggest clusters printed are the
    largest component sizes, in descending order, and each printed label
    names exactly one component.
- `Termination`: `<>(phase = "done")`. The lock-free `Link` loop and every map
  end.

### `LevelSyncBFS` (abstract)

This module states what a level-synchronous BFS promises, whatever its data
structures are.

- `depth[v]` is -1 for an undiscovered vertex. `level` is the running round,
  and `done` is set when the search has ended.
- `Discover(s, d)` lets a vertex of the current level give an undiscovered
  out-neighbour the depth `level + 1`, once.
- `Advance` starts the next round only when nothing is left to discover from
  this one. It sets `done` after a round that discovered nobody.

`BFSParents`, `BFSLevels` and `XPGraphBFS` each instantiate it as `Abs`.
They check `Refinement == Abs!Spec` as a property:

- **`BFSParents`.** The depth is the length of the parent chain. The level
  is the frontier's depth.
- **`BFSLevels` and `XPGraphBFS`.** The depth is `levels[v] - 1` (or
  `status[v] - 1`). The level is `level - 1`.

### `PowerIteration` (abstract)

This module is the synchronous power iteration: `ranks` starts at `Start`,
and each step replaces it by `Update(ranks)`, for `MaxIters` steps.
`PageRankPush` instantiates it with `Update <- PushStep`, the push equation
evaluated on the iteration's input. Its ranks are `p_curr`, read as of the
start of the last edgeMap while the vertex map runs.

### `BFSDistance` (reference)

Reference definitions for the BFS models, built on the community `Graphs`
module: `Within(r, k)`, the vertices at most `k` hops from `r`;
`Reachable(r)`; and the hop distance `Dist(r, v)`. Every BFS module
instantiates it as `Ref`.

### `BFSParents` (BFS.h, `BFS_with_edge_map`)

- `Parents` is the parents array. `frontier` is the round's VertexSubset,
  held as a bag. `todo` holds the frontier vertices no worker has taken yet.
  `next` is the next frontier being built.
- `wk[w]` holds a worker's source, its remaining out-neighbours, and a pc.
- The actions are `Claim` (take a frontier vertex), `Cond` (the load
  `Parents[d] == -1`) and `UpdateAtomic` (the `CAS(Parents[d], -1, s)`).
  `Cond` and `UpdateAtomic` are separate steps, so two workers can both pass
  `cond` for one `d`.
- `EndRound` is the driver code after the join: the next frontier replaces
  the old one, and the loop ends on an empty frontier.

### `BFSLevels` (BFS.h, `BFS_xpgraph`)

- The state is `levels[]`, `level`, the reduced `frontier`, `topDown`, and
  the per-thread counters `tf`.
- Top-down splits into `TopDownCheck` (the plain load `levels[d] == 0`) and
  `TopDownSet` (the plain store and `thread_frontier++`). Two sources can
  both claim `d` and count it twice.
- `BottomUpStep` scans in-neighbours and stops at the first one on the
  current level.
- `EndRound` sums `tf`, chooses the direction with the `0.002 * v_count`
  threshold, and exits the do-while loop when the sum is 0.
- The constant `Isolated` adds edgeless vertices. They change nothing except
  `v_count`, and so the direction threshold.

### `XPGraphBFS` (breadth_first_search.hpp, `test_bfs` and `test_bfs_numa`)

- This is the same level BFS over `status[]`, with a `root` that must have
  degree above 20, or be 0.
- `status` comes from `new uint16_t[]` and is never cleared, so `Init` draws
  each cell from `Garbage`.
- `Numa = TRUE` selects `test_bfs_numa`. It splits each loop into even and
  odd vertices (`nowait`), which only reorders them. Its inner `total_count`
  shadows the returned one, and `total` models the returned variable.
- `TestBfsResult` is what the function is for. The levels are the hop
  distances, and the count it returns covers the reached vertices.

### `BitmapBFS` (breadth_first_search.hpp, `test_bfs_lsgraph`)

- This is a parent-array BFS whose frontiers are `Bitmap`s.
- A fresh bitmap is not cleared. `GarbageBits` are the vertices whose bit the
  reused memory may have set.
- `set_bit` is a word `|=`. It is two steps, `SetBitLoad` and
  `SetBitStore`, on the shared 64-bit word (`Word(v) = v \div 64`), so
  concurrent sets in one word can lose a bit.
- `EndRound` does the reduction of `next_frontier_count`,
  `frontier.reset()` and the swap, and the direction test
  `n <= frontier_count * threshold`.

### `PageRankPull` (PagerankPull.h `PR_Pull_S`, pr_gapbs.hpp `PageRankPullGS`)

- `kernel` is chosen in `Init` from `Kernels`.
- **Fixed point.** A float is an integer number of units of `1/Unit`, and
  every operation rounds toward zero as a float rounds. Exact rationals
  overflow TLC's integers within two Gauss-Seidel iterations.
- Per vertex `u`, a worker does these steps:
  - `Claim`. `PageRankPullGS` skips `u` when it has no in-neighbours.
  - `Gather`, one load of `outgoing_contrib[v]` per in-neighbour.
  - `UpdateScore`:
    - It stores `scores[u]`.
    - Under the reduction it adds `|delta|` to the thread's `tErr` and
      stores `outgoing_contrib[u]`.
    - In `PR_Pull_S` it only loads the shared `error`. A later `ErrorStore`
      stores `error + |delta|` and `outgoing_contrib[u]`. That makes the
      racy `+=` two steps.
- `EndIter` does the driver code after the join:
  - the `error < epsilon` break and the `max_iters` bound;
  - the reset of `error`.
- The history variables `prevContrib` and `prevScores` record the state
  when the iteration began.

### `PageRankPush` (PagerankPush.h `PR_Push_S`)

- The state is `p_curr`, `p_next`, `iter` and `phase` (edge, vertex or
  done).
- `p_next` comes from `memalign` and is not cleared, so `Init` draws it
  from `Garbage`.
- `qthread_dincr` is `DincrLoad` (the volatile load) followed by `DincrCas`
  (the `lock; cmpxchg`), which goes back to the load on a mismatch.
- `VertexUpdate` is `PR_Push_Vertex`. `EndVertexMap` does the swap, then
  `iter++ < maxIters`.
- The history variable `prevCurr` holds `p_curr` as it was when the last
  edgeMap began.

### `TopK` (CC.h)

- `TopK` is a sequential loop, modelled one turn per `Step`. Each step does
  the push, `std::sort` with `std::greater`, the resize to `k`, and the
  reload of `min_so_far`.
- The loop body lives in `TopKOps` as pure operators, so that `AfforestCC`
  can call the same code:
  - `Admits` is the filter;
  - `Pushed` is the push, the sort and the resize;
  - `Turn` is one turn of the loop;
  - `TopKOf` is the whole call, a `FoldLeft` of `Turn`.
- `Init` chooses the input from `Inputs`. These are the vectors that
  `PrintCompStats` can copy out of its `unordered_map`: the keys are
  distinct and the order is arbitrary.
- `Reference` is the whole list sorted by `std::greater` and cut to `k`
  entries.

## Runs

Every pass run also checks its module's `TypeOK`. Every property of a pass
run has a mutant in `PROJECT.json`: a plausible bug in the mapped code under
which TLC finds the property violated.

| Run | Checks | Shows |
|-----|--------|-------|
| `afforest_cc` | `DoneCorrect`, `CompStatsCorrect`, `Refinement`, `Termination` | See the Afforest section above. |
| `bfs_parents` | `ClaimedOnce`, `ParentsAreBFSTree`, `Refinement`, `Termination` | Racing claims never give a vertex two parents. The rounds implement `LevelSyncBFS`: every claim comes from the running round's frontier, and no round ends early. The result is a BFS tree, and the unreachable vertex 4 keeps -1. |
| `bfs_levels` | `FrontierZeroIffNone`, `LevelsAreHopDistance`, `Refinement`, `Termination` | The frontier count can be too high because of double claims, which can flip the direction. Even so, every level is set once, to 1 + hop distance, and the loop exits right after the first empty round. |
| `xp_bfs` | `StatusAreHopDistance`, `TotalCountsReached`, `Refinement`, `Termination` | With zeroed memory (`Garbage = {0}`), `test_bfs` is correct, implements `LevelSyncBFS`, and its level loop ends. The run says nothing about non-zero memory; `xp_bfs_uninit_status` covers that. |
| `xp_bfs_uninit_status` | `TestBfsResult` (violation) | In `test_bfs_numa`, a non-zero `status` cell makes the levels wrong, and the shadowed `total_count` makes the returned count 0. Each defect alone violates the property. |
| `bitmap_bfs_tree` | `ParentsAreBFSTree` (violation) | Stray bits give a vertex a parent that is unreachable from the root. A lost bit leaves a reachable vertex at -1. |
| `pr_pull` | `ScoresGaussSeidel` | In both kernels, every score is `base_score + kDamp *` a sum of contributions. Each contribution read is from this iteration or the last, whatever the interleaving. Vertex 3 is a sink, whose `outgoing_contrib` is `inf`, and no score reads it. |
| `pr_pull_error_race` | `ErrorIsTotalChange` (violation) | `PR_Pull_S` alone, on the graph of spec §8.7 with two threads. One thread stores `error = 170000` and the other then stores the `0 + 0` it computed from its earlier load. The iteration ends with error 0. |
| `pr_pull_gs_skip` | `ScoresGaussSeidel` (violation) | `PageRankPullGS` alone, on the graph of spec §8.7. Vertex 3 has no in-edges and keeps `init_score` 200000 instead of `base_score` 30000. |
| `pr_push` | `Refinement`, `Termination` | The kernel implements `PowerIteration` of the push equation. The CAS loop loses no contribution and does not livelock. |
| `pr_push_uninit` | `PushIterationExact` (violation) | A non-zero `p_next` from `memalign` enters the first iteration. |
| `topk` | `TopKValues` | The `min_so_far` filter never drops one of the k largest values. |

## Findings

- **Uninitialised `status` (`breadth_first_search.hpp:48`).** It is read as
  "unvisited" without being cleared.
- **Shadowed `total_count` (`breadth_first_search.hpp:152`).**
  `test_bfs_numa` declares a second `total_count` in the root loop and
  returns the outer one, which stays 0.
- **Non-atomic `set_bit` (line 404).** `test_bfs_lsgraph` uses it where
  `set_bit_atomic` exists. Lost bits leave vertices unexpanded.
- **Uncleared `Bitmap` words (line 305).** Stray bits start the search from
  unreached vertices.
- **Racy `error +=` (`PagerankPull.h:105`).** A data race on one shared
  double. With `epsilon > 0`, iteration can stop early.
- **`PageRankPullGS` skips vertices with no in-edges
  (`pr_gapbs.hpp:79`).** They keep `1/N` instead of `base_score`, against
  spec §4.6 and §8.7.
- **Uncleared `p_next` (`PagerankPush.h:103`).** It is not zeroed before the
  first edgeMap.

Two further disagreements seen while modelling are recorded as hazard
notes, not runs:

- the double count of `BFS_xpgraph`'s frontier, which is harmless to
  levels and is covered by `bfs_levels`;
- the push kernel's different starting value and normalisation. It is a
  fixed formula difference, not a behaviour a model checker finds.

## Bounds

The graphs are chosen so that each hazard can occur:

- **Shared destinations.** Two sources share a destination (for example
  2->4 and 3->4), so claims race.
- **Unreachable vertices.** Each graph has a vertex that is unreachable from
  the root (vertex 1 or 4). The `bfs_parents` graph has six vertices, and
  vertex 5 is the target of three sources in two different rounds.
- **Both directions.** `Isolated` sets the size so that both BFS directions
  occur.
- **Pull iterations.** The pull run has 4 vertices with every vertex
  in-reached and one sink, three workers, and three iterations. A value read from this
  iteration and from the last can then differ, and the epsilon break can
  fire after the first or the second iteration. The threads are
  interchangeable, so the run uses `SYMMETRY WorkerSymmetry`. It checks no
  liveness property, so the symmetry is sound.
- **Push iterations.** The push run has three workers and three iterations,
  so the adds of vertices 0 and 1 race on vertex 2.
- **Afforest.** The Afforest run uses `neighbor_rounds = 2`, the value
  `test_cc` passes. Its graph has 6 vertices and the components
  {0,1,2,3,4} and {5}.
  - In the sample map, the Links 2->3 and 3->0 race to CAS `comp[3]`.
  - 3->4 is vertex 3's third out-edge, so the finalize map's skip of the
    first `r` edges and its reverse pass both matter.
  - `c` can be the big component's label, 4's or 5's.
  - Two workers are enough for the CAS race and the retry. With three, the
    liveness check takes over five minutes.

The `topk` run enumerates every input of up to 4 pairs, with values 1..3 and
`k` in 1..3. That covers every tie and every cut position.

## Fairness

Every module assumes weak fairness of each worker's step and of the
driver's step after a join:

- The OpenMP and cilk parallel for runs every thread that has work.
- No step blocks. The CAS loops retry only when another thread made
  progress.

The runs that check liveness use no symmetry.

## Not modelled, and the plan

The following are not modelled:

- **The benchmark drivers and the LiveGraph example.** They are I/O and
  timing only.
- **The count and the termination of `test_bfs_lsgraph`.** `BitmapBFS`
  models them, but its one run checks the parent tree, which the lost and
  stray bits break. No run checks the returned `total_count`, which a racing
  second store can raise by one, or that the loop ends.
- **The `printf` formatting of `PrintCompStats` and `PrintScores`.** This is
  output only.
- **`BloomFilter`.** It is sequential, and its probe positions are a
  deterministic function of the key. Its hazards are arithmetic: the float
  sizing formula, `h % 0` when `keys_num == 0`, and `int` overflow of
  `bits_num`. That is 32-bit murmur arithmetic, beyond TLC's integers.
- **Driver partitioning and argument handling.** This covers three pieces
  of driver code:
  - the edge-range split per thread in LiveGraph's `benchmark.cpp`;
  - the batching and root loop of `LSGraph-Bench.cc`;
  - `root_generator` in `graph_benchmarks.hpp`.

  They are sequential code around the kernels. Their hazards are listed in
  `PROJECT.json`: a loop that never ends when no vertex has both in- and
  out-edges, a division by a zero batch size, and roots past `num_nodes`.
  Each of these is a fixed precondition on the input, not an interleaving.
  Every run slot the project keeps is spent on a kernel.

## What the pull kernel is not

The comment of `PR_Pull_S` says that new values are "immediately visible
(like Gauss-Seidel method)". A refinement of `PageRankPull` to a sequential
Gauss-Seidel sweep would check that every iteration equals updating the
vertices one at a time in some order. That refinement does not hold.

TLC finds a counterexample in the first iteration of `PageRankPullGS` on
the `pr_pull` graph:
- vertex 1 reads 0's old contribution, so 1 comes before 0;
- 0 reads 2's old contribution, so 0 comes before 2;
- 2 reads 0's new contribution but 1's old one, so 2 comes before 1.

These orders form a cycle, so no sequential order explains the iteration.
The spec does not promise a sequential sweep. `ScoresGaussSeidel`, where
each read independently sees this or the last iteration's value, is
therefore the strongest per-iteration statement that holds. It is what
`pr_pull` checks.

All of the plan of the earlier sittings is done: BFS refinement, push
refinement, the larger pull instance, and the larger Afforest instance.
