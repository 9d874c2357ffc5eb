---------------------- MODULE HeapSortRefinementProofs ----------------------
(***************************************************************************)
(* Proof that the double/index heap sort implements the int heap sort      *)
(* (HeapSortInt) on NaN-free input, for every MaxN and every set of        *)
(* values: with heap_i and temp_i hidden, every initial state of           *)
(* maxheapsort(heap_v, heap_i, n) is one of maxheapsort(heap_v, n), and    *)
(* every step of its loops is the same step of the int loops.  The         *)
(* refinement mapping is the identity on the shared variables.  The        *)
(* fairness part of RefinesIntSort is left to TLC (heapsort_live).         *)
(***************************************************************************)
EXTENDS HeapSortProofs

(* No double of the input is NaN.                                          *)
NoNaN == NaN \notin Values

(* The safety part of IntSort!Spec.                                        *)
IntSortSafety == IntSort!Init /\ [][IntSort!Next]_IntSort!vars

-----------------------------------------------------------------------------
(* Without NaN, the comparisons of doubles are those of ints.             *)
LEMMA CompareInts ==
  ASSUME NoNaN, NEW a \in Values, NEW b \in Values
  PROVE  /\ a \in Int /\ b \in Int
         /\ Gt(a, b) <=> a > b
         /\ Le(a, b) <=> a =< b
         /\ Gt(a, b) \/ Le(a, b)
<1>1. a \in Int /\ b \in Int /\ a # NaN /\ b # NaN
  BY HeapSortAssumption DEF NoNaN
<1>2. QED
  BY <1>1 DEF Gt, Le

(* Inside max_heapify the child chosen, and the entries it compares, are   *)
(* those of the int code.                                                  *)
LEMMA ChildInt ==
  ASSUME NoNaN, HeapIInv, pc = "heapify", j <= hn
  PROVE  /\ Child = IntSort!Child
         /\ Child \in 1..n
         /\ heap_v[Child] \in Values /\ temp_v \in Values
<1>1. /\ 1 <= j \div 2 /\ hn <= n /\ j % 2 = 0
      /\ n \in Nat /\ j \in Nat /\ hn \in Nat
      /\ heap_v \in [1..n -> Values] /\ temp_v \in Values
  BY DEF HeapIInv, TypeOK, IndexSafe, CallFrame
<1>2. j \in 1..n
  BY <1>1
<1>3. j < hn => j + 1 \in 1..n
  BY <1>1
<1>4. j < hn => (Gt(heap_v[j + 1], heap_v[j]) <=> heap_v[j + 1] > heap_v[j])
  BY <1>1, <1>2, <1>3, CompareInts
<1>5. Child = IntSort!Child
  BY <1>4 DEF Child, IntSort!Child
<1>6. Child \in {j, j + 1} /\ Child <= hn
  BY <1>1, ChildFacts
<1>7. QED
  BY <1>1, <1>5, <1>6

-----------------------------------------------------------------------------
(***************************************************************************)
(* Each action of the double/index sort is its namesake of the int sort.  *)
(***************************************************************************)

LEMMA BuildHeapRefines == BuildHeap => IntSort!BuildHeap
BY DEF BuildHeap, CallHeapify, IntSort!BuildHeap, IntSort!CallHeapify

LEMMA BuildDoneRefines == BuildDone => IntSort!BuildDone
BY DEF BuildDone, IntSort!BuildDone

LEMMA SortSwapRefines == SortSwap => IntSort!SortSwap
BY DEF SortSwap, CallHeapify, IntSort!SortSwap, IntSort!CallHeapify

LEMMA SortDoneRefines == SortDone => IntSort!SortDone
BY DEF SortDone, IntSort!SortDone

LEMMA SiftDownRefines ==
  ASSUME NoNaN, HeapIInv, SiftDown PROVE IntSort!SiftDown
<1>1. pc = "heapify" /\ j <= hn
  BY DEF SiftDown
<1>2. Child = IntSort!Child /\ heap_v[Child] \in Values /\ temp_v \in Values
  BY <1>1, ChildInt
<1>3. temp_v =< heap_v[Child]
  BY <1>2, CompareInts DEF SiftDown
<1>4. QED
  BY <1>1, <1>2, <1>3 DEF SiftDown, IntSort!SiftDown

LEMMA SiftStopRefines ==
  ASSUME NoNaN, HeapIInv, SiftStop PROVE IntSort!SiftStop
<1>1. pc = "heapify" /\ j <= hn
  BY DEF SiftStop
<1>2. Child = IntSort!Child /\ heap_v[Child] \in Values /\ temp_v \in Values
  BY <1>1, ChildInt
<1>3. temp_v > heap_v[Child]
  BY <1>2, CompareInts DEF SiftStop
<1>4. QED
  BY <1>1, <1>2, <1>3 DEF SiftStop, Place, IntSort!SiftStop, IntSort!Place

(* Without NaN one of temp_v > heap_v[j] and temp_v <= heap_v[j] holds:    *)
(* max_heapify never stalls.                                               *)
LEMMA NoStall ==
  ASSUME NoNaN, HeapIInv, SiftStall PROVE FALSE
<1>1. pc = "heapify" /\ j <= hn
  BY DEF SiftStall
<1>2. heap_v[Child] \in Values /\ temp_v \in Values
  BY <1>1, ChildInt
<1>3. QED
  BY <1>2, CompareInts DEF SiftStall

LEMMA SiftEndRefines == SiftEnd => IntSort!SiftEnd
BY DEF SiftEnd, Place, IntSort!SiftEnd, IntSort!Place

-----------------------------------------------------------------------------
(* On NaN-free input, maxheapsort(heap_v, heap_i, n) moves heap_v exactly  *)
(* as maxheapsort(heap_v, n) does: it starts as the int sort starts, and   *)
(* each iteration of build_maxheap, max_heapsort and max_heapify is the    *)
(* same iteration of the int code, heap_i and temp_i riding along.         *)
THEOREM HeapRefinesIntSort == NoNaN => (Spec => IntSortSafety)
<1> SUFFICES ASSUME NoNaN PROVE Spec => IntSortSafety
  OBVIOUS
<1>1. Init => IntSort!Init
  BY DEF Init, IntSort!Init
<1>2. HeapIInv /\ [Next]_vars => [IntSort!Next]_IntSort!vars
  <2> SUFFICES ASSUME HeapIInv, [Next]_vars PROVE [IntSort!Next]_IntSort!vars
    OBVIOUS
  <2>1. CASE BuildHeap
    BY <2>1, BuildHeapRefines DEF IntSort!Next
  <2>2. CASE BuildDone
    BY <2>2, BuildDoneRefines DEF IntSort!Next
  <2>3. CASE SortSwap
    BY <2>3, SortSwapRefines DEF IntSort!Next
  <2>4. CASE SortDone
    BY <2>4, SortDoneRefines DEF IntSort!Next
  <2>5. CASE SiftDown
    BY <2>5, SiftDownRefines DEF IntSort!Next
  <2>6. CASE SiftStop
    BY <2>6, SiftStopRefines DEF IntSort!Next
  <2>7. CASE SiftStall
    BY <2>7, NoStall
  <2>8. CASE SiftEnd
    BY <2>8, SiftEndRefines DEF IntSort!Next
  <2>9. CASE UNCHANGED vars
    BY <2>9 DEF vars, IntSort!vars
  <2>10. QED
    BY <2>1, <2>2, <2>3, <2>4, <2>5, <2>6, <2>7, <2>8, <2>9 DEF Next
<1>3. QED
  BY <1>1, <1>2, HeapInvariant, PTL DEF Spec, IntSortSafety
=============================================================================
