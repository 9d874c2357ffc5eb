------------------------------ MODULE SortSpec ------------------------------
(***************************************************************************)
(* What maxheapsort(heap_v, n) of util/HighsSort.cpp promises its caller,  *)
(* in one step: when it returns, heap_v[1..n] holds the values the caller  *)
(* passed in, rearranged, in nondecreasing order.  How it gets there (the  *)
(* heap, the loops, the sift-down) is not visible at this level.           *)
(***************************************************************************)
EXTENDS Integers

CONSTANTS
  MaxN,    \* the largest n
  Values   \* the values of heap_v

VARIABLES
  n,       \* the number of entries to sort
  input,   \* heap_v as the caller passed it
  heap_v,  \* heap_v[1..n]
  done     \* maxheapsort has returned

vars == <<n, input, heap_v, done>>

(* The rearrangements of 1..n: p sends each place of the output to the    *)
(* place of the input it comes from, and every place of the input is used. *)
Rearrangements == {p \in [1..n -> 1..n] : {p[k] : k \in 1..n} = 1..n}

(* input read through the rearrangement p.                                 *)
Rearranged(p) == [k \in 1..n |-> input[p[k]]]

(* out is in nondecreasing order.                                          *)
Ordered(out) == \A k \in 1..n - 1 : out[k] =< out[k + 1]

Init ==
  /\ n \in 0..MaxN
  /\ heap_v \in [1..n -> Values]
  /\ input = heap_v
  /\ done = FALSE

(* The call of maxheapsort, from entry to return.                          *)
Sort ==
  /\ ~done
  /\ done' = TRUE
  /\ UNCHANGED <<n, input>>
  /\ \E p \in Rearrangements :
       /\ heap_v' = Rearranged(p)
       /\ Ordered(heap_v')

Next == Sort

(* A call returns.                                                         *)
Spec == Init /\ [][Next]_vars /\ WF_vars(Next)

=============================================================================
