-------------------------------- MODULE TopK --------------------------------
(***************************************************************************)
(* TopK of src/LSGraph/include/CC.h: the k pairs with the largest values   *)
(* of a list of key-value pairs, returned as <<value, key>> in descending  *)
(* order.  One step is one turn of the for loop over to_sort: a pair is    *)
(* pushed while top_k is short of k, or when its value beats min_so_far;   *)
(* a push is followed by std::sort with std::greater, the resize to k and  *)
(* the reload of min_so_far from top_k.back().  The caller, PrintCompStats, *)
(* builds to_sort from an unordered_map, so the keys are distinct and the  *)
(* order is any order.                                                     *)
(***************************************************************************)
EXTENDS Integers, Sequences, SequencesExt, FiniteSets, TopKOps

CONSTANTS
  Keys,    \* KeyT values (component ids)
  Vals,    \* ValT values (component sizes, at least 1)
  Ks,      \* the k the caller may pass; PrintCompStats passes 5
  MaxLen   \* longest to_sort

ASSUME /\ Keys \subseteq Int /\ Vals \subseteq Nat \ {0}
       /\ Ks \subseteq Nat \ {0} /\ MaxLen \in Nat

VARIABLES to_sort, k, i, top_k, min_so_far

vars == <<to_sort, k, i, top_k, min_so_far>>

(* The vectors an unordered_map<KeyT, ValT> can be copied into.            *)
Inputs ==
  { s \in UNION {[1..n -> Keys \X Vals] : n \in 0..MaxLen} :
      \A x, y \in DOMAIN s : x # y => s[x][1] # s[y][1] }

Init ==
  /\ to_sort \in Inputs /\ k \in Ks
  /\ i = 1 /\ top_k = <<>> /\ min_so_far = 0

(* One turn of for (auto kvp : to_sort).                                   *)
Step ==
  /\ i <= Len(to_sort)
  /\ LET acc == Turn(<<top_k, min_so_far>>, to_sort[i], k)
     IN  top_k' = acc[1] /\ min_so_far' = acc[2]
  /\ i' = i + 1
  /\ UNCHANGED <<to_sort, k>>

(* return top_k.                                                           *)
Done == i > Len(to_sort) /\ UNCHANGED vars

Next == Step \/ Done

Spec == Init /\ [][Next]_vars /\ WF_vars(Step)

-----------------------------------------------------------------------------
TypeOK ==
  /\ to_sort \in Inputs /\ k \in Ks /\ i \in 1..Len(to_sort) + 1
  /\ top_k \in Seq(Vals \X Keys) /\ Len(top_k) <= k /\ min_so_far \in Vals \cup {0}

(* The reference: every pair sorted by std::greater, the first k kept.     *)
Reference ==
  LET all == SortSeq([j \in DOMAIN to_sort |-> <<to_sort[j][2], to_sort[j][1]>>], Greater)
  IN  IF Len(all) > k THEN SubSeq(all, 1, k) ELSE all

ValuesOf(s) == [j \in DOMAIN s |-> s[j][1]]

(* The comment of TopK: it returns the k largest values, in descending     *)
(* order, whatever order the unordered_map handed the pairs over in; the   *)
(* early filter against min_so_far never drops a pair that belongs there.  *)
(* Among equal values at the cut the keys kept may differ from the sort.   *)
TopKValues ==
  i > Len(to_sort) => ValuesOf(top_k) = ValuesOf(Reference)

=============================================================================
