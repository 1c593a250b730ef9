------------------------------- MODULE TopKOps -------------------------------
(***************************************************************************)
(* The loop body of TopK in src/LSGraph/include/CC.h as pure operators,    *)
(* shared by the step-by-step model of the loop (TopK) and by the model of *)
(* PrintCompStats, which calls TopK on the counts of the final comp array  *)
(* (AfforestCC).  A pair of to_sort is <<key, value>>; an entry of top_k   *)
(* is <<value, key>>, as std::make_pair(kvp.second, kvp.first) builds it.  *)
(***************************************************************************)
EXTENDS Integers, Sequences, SequencesExt

(* std::greater on std::pair<ValT, KeyT>: lexicographic, value first.      *)
Greater(a, b) == a[1] > b[1] \/ (a[1] = b[1] /\ a[2] > b[2])

(* A resize that keeps one entry too many.                                 *)
TrimmedOneMore(s, k) == IF Len(s) > k + 1 THEN SubSeq(s, 1, k + 1) ELSE s

(* if (top_k.size() > k) top_k.resize(k).                                  *)
Trimmed(s, k) == IF Len(s) > k THEN SubSeq(s, 1, k) ELSE s

(* The filter without the test for room left in top_k.                     *)
AdmitsNoRoom(top_k, min_so_far, kvp, k) == kvp[2] > min_so_far

(* if ((top_k.size() < k) || (kvp.second > min_so_far))                    *)
Admits(top_k, min_so_far, kvp, k) == Len(top_k) < k \/ kvp[2] > min_so_far

(* push_back, std::sort with std::greater, then the resize.                *)
Pushed(top_k, kvp, k) ==
  Trimmed(SortSeq(Append(top_k, <<kvp[2], kvp[1]>>), Greater), k)

(* min_so_far read from the front instead of the back.                     *)
TurnMinFront(acc, kvp, k) ==
  IF Admits(acc[1], acc[2], kvp, k)
  THEN LET kept == Pushed(acc[1], kvp, k) IN <<kept, kept[1][1]>>
  ELSE acc

(* One turn of for (auto kvp : to_sort) on acc = <<top_k, min_so_far>>;    *)
(* min_so_far = top_k.back().first after a push.                           *)
Turn(acc, kvp, k) ==
  IF Admits(acc[1], acc[2], kvp, k)
  THEN LET kept == Pushed(acc[1], kvp, k) IN <<kept, Last(kept)[1]>>
  ELSE acc

(* The whole call TopK(to_sort, k): top_k empty, min_so_far = 0, the loop, *)
(* return top_k.                                                           *)
TopKOf(to_sort, k) ==
  FoldLeft(LAMBDA acc, kvp : Turn(acc, kvp, k), <<<<>>, 0>>, to_sort)[1]

=============================================================================
