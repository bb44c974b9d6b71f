-------------------------------- MODULE Lists --------------------------------
(***************************************************************************)
(* What the code does to its lists: filter, slice and sort.  Written as a  *)
(* recursive function and with sets, so that they can be proved about: the *)
(* prover knows nothing of SelectSeq, SortSeq and the folds.               *)
(***************************************************************************)
EXTENDS Integers, Sequences, FiniteSets

(* [x for x in list if x in S] *)
Kept(list, S) ==
  LET kept[n \in 0..Len(list)] ==
        IF n = 0 THEN <<>>
        ELSE IF list[n] \in S THEN Append(kept[n - 1], list[n])
        ELSE kept[n - 1]
  IN  kept[Len(list)]

(* list[:n] *)
FirstOf(list, n) == SubSeq(list, 1, IF Len(list) < n THEN Len(list) ELSE n)

(* sorted(S); Precedes holds the pairs that may stand in that order. *)
Sorted(S, Precedes) ==
  CHOOSE list \in [1..Cardinality(S) -> S] :
    \A m, n \in DOMAIN list : m < n => <<list[m], list[n]>> \in Precedes

=============================================================================
