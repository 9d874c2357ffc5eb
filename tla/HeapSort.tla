------------------------------ MODULE HeapSort ------------------------------
(***************************************************************************)
(* The value-index heap sort of util/HighsSort.cpp:                        *)
(*                                                                         *)
(*   maxheapsort(heap_v, heap_i, n)                                        *)
(*     = build_maxheap(heap_v, heap_i, n); max_heapsort(heap_v, heap_i, n) *)
(*                                                                         *)
(* The arrays are 1-based: heap_v[1..n] holds the doubles to sort and      *)
(* heap_i[1..n] the indices that travel with them.  Each step of the       *)
(* model is one iteration of one of the three loops of the code: the       *)
(* build loop (i = n/2 .. 1), the sort loop (i = n .. 2) and the sift-down *)
(* loop of max_heapify (j = 2i, 4i, ...), which keeps the entry being      *)
(* sifted in temp_v/temp_i and leaves a hole at heap[j/2].                 *)
(*                                                                         *)
(* The doubles are abstracted to a small set Values of integers, plus      *)
(* possibly the model value NaN: every comparison with NaN is false, as    *)
(* the C++ operators > and <= on doubles are.                              *)
(***************************************************************************)
EXTENDS Integers

CONSTANTS
  MaxN,    \* the largest n the model tries
  Values,  \* the doubles of heap_v
  NaN      \* a not-a-number, which may or may not be in Values

ASSUME HeapSortAssumption ==
  /\ MaxN \in Nat
  /\ Values # {}
  /\ Values \ {NaN} \subseteq Int

VARIABLES
  n,       \* the argument n: the number of entries to sort
  input,   \* ghost: heap_v as the caller passed it
  heap_v,  \* heap_v[1..n]
  heap_i,  \* heap_i[1..n]
  pc,      \* "build", "sort", "heapify" (inside max_heapify), "hang" or "done"
  caller,  \* the loop max_heapify returns to: "build" or "sort"
  i,       \* the loop counter of build_maxheap or of max_heapsort
  j,       \* the local j of max_heapify
  hn,      \* the argument n of the current max_heapify call
  temp_v,  \* the local temp_v of max_heapify
  temp_i   \* the local temp_i of max_heapify

vars == <<n, input, heap_v, heap_i, pc, caller, i, j, hn, temp_v, temp_i>>

-----------------------------------------------------------------------------
(* The comparisons of doubles: both are false when either side is NaN.     *)
Gt(a, b) == a # NaN /\ b # NaN /\ a > b
Le(a, b) == a # NaN /\ b # NaN /\ a =< b

(* Slips of the code, each a variant of the definition that follows it;   *)
(* the properties below must tell each of them from the code.             *)
ChildLeftOnly == j          \* the right child is never looked at
ChildTieRight ==            \* ">=" for ">": ties go to the right child
  IF j < hn /\ heap_v[j + 1] >= heap_v[j] THEN j + 1 ELSE j

(* if (j < n && heap_v[j + 1] > heap_v[j]) j = j + 1;                      *)
Child == IF j < hn /\ Gt(heap_v[j + 1], heap_v[j]) THEN j + 1 ELSE j

(* The call max_heapify(v, x, start, limit) from loop "from": the entry at *)
(* start is saved in temp_v/temp_i and j = 2 * start.                      *)
CallHeapify(v, x, start, limit, from) ==
  /\ heap_v' = v
  /\ heap_i' = x
  /\ temp_v' = v[start]
  /\ temp_i' = x[start]
  /\ j' = 2 * start
  /\ hn' = limit
  /\ caller' = from
  /\ pc' = "heapify"

PlaceDoubleDecrement(k) ==  \* the caller's i is decremented twice
  /\ heap_v' = [heap_v EXCEPT ![k \div 2] = temp_v]
  /\ heap_i' = [heap_i EXCEPT ![k \div 2] = temp_i]
  /\ j' = k
  /\ pc' = caller
  /\ i' = i - 2

(* heap_v[j / 2] = temp_v; heap_i[j / 2] = temp_i; return -- and the       *)
(* caller's loop decrements i.                                             *)
Place(k) ==
  /\ heap_v' = [heap_v EXCEPT ![k \div 2] = temp_v]
  /\ heap_i' = [heap_i EXCEPT ![k \div 2] = temp_i]
  /\ j' = k
  /\ pc' = caller
  /\ i' = i - 1

-----------------------------------------------------------------------------
(* The caller's heap_i is any int array; the code only moves its entries,  *)
(* never compares them, so every run with some heap_i is the image of the  *)
(* run with heap_i[k] = k, which therefore tags each value with the place  *)
(* it came from.                                                           *)
Init ==
  /\ n \in 0..MaxN
  /\ heap_v \in [1..n -> Values]
  /\ input = heap_v
  /\ heap_i = [k \in 1..n |-> k]
  /\ pc = "build"
  /\ caller = "build"
  /\ i = n \div 2
  /\ j = 0
  /\ hn = 0
  /\ temp_v = CHOOSE v \in Values : TRUE
  /\ temp_i = 0

(* build_maxheap: for (i = n / 2; i >= 1; i--) max_heapify(.., i, n);     *)
BuildHeap ==
  /\ pc = "build"
  /\ i >= 1
  /\ CallHeapify(heap_v, heap_i, i, n, "build")
  /\ UNCHANGED <<n, input, i>>

BuildDoneFromNPlus1 ==  \* the sort loop starts at i = n + 1
  /\ pc = "build"
  /\ i < 1
  /\ pc' = "sort"
  /\ i' = n + 1
  /\ UNCHANGED <<n, input, heap_v, heap_i, caller, j, hn, temp_v, temp_i>>

(* The build loop is over; maxheapsort calls max_heapsort, whose loop      *)
(* starts at i = n.                                                        *)
BuildDone ==
  /\ pc = "build"
  /\ i < 1
  /\ pc' = "sort"
  /\ i' = n
  /\ UNCHANGED <<n, input, heap_v, heap_i, caller, j, hn, temp_v, temp_i>>

SortSwapHeapifyToI ==  \* max_heapify(.., 1, i) keeps heap[i] in the heap
  /\ pc = "sort"
  /\ i >= 2
  /\ CallHeapify([heap_v EXCEPT ![i] = heap_v[1], ![1] = heap_v[i]],
                 [heap_i EXCEPT ![i] = heap_i[1], ![1] = heap_i[i]],
                 1, i, "sort")
  /\ UNCHANGED <<n, input, i>>

(* max_heapsort: for (i = n; i >= 2; i--) { swap heap[i] with heap[1];     *)
(* max_heapify(.., 1, i - 1); }                                            *)
SortSwap ==
  /\ pc = "sort"
  /\ i >= 2
  /\ CallHeapify([heap_v EXCEPT ![i] = heap_v[1], ![1] = heap_v[i]],
                 [heap_i EXCEPT ![i] = heap_i[1], ![1] = heap_i[i]],
                 1, i - 1, "sort")
  /\ UNCHANGED <<n, input, i>>

(* The sort loop is over: maxheapsort returns.                             *)
SortDone ==
  /\ pc = "sort"
  /\ i < 2
  /\ pc' = "done"
  /\ UNCHANGED <<n, input, heap_v, heap_i, caller, i, j, hn, temp_v, temp_i>>

SiftDownValueOnly ==  \* heap_i[j / 2] = heap_i[j] left out
  /\ pc = "heapify"
  /\ j <= hn
  /\ ~Gt(temp_v, heap_v[Child])
  /\ Le(temp_v, heap_v[Child])
  /\ heap_v' = [heap_v EXCEPT ![Child \div 2] = heap_v[Child]]
  /\ j' = 2 * Child
  /\ UNCHANGED <<n, input, heap_i, pc, caller, i, hn, temp_v, temp_i>>

(* while (j <= n): else if (temp_v <= heap_v[j]) { heap_v[j / 2] =         *)
(* heap_v[j]; heap_i[j / 2] = heap_i[j]; j = 2 * j; }                      *)
SiftDown ==
  /\ pc = "heapify"
  /\ j <= hn
  /\ ~Gt(temp_v, heap_v[Child])
  /\ Le(temp_v, heap_v[Child])
  /\ heap_v' = [heap_v EXCEPT ![Child \div 2] = heap_v[Child]]
  /\ heap_i' = [heap_i EXCEPT ![Child \div 2] = heap_i[Child]]
  /\ j' = 2 * Child
  /\ UNCHANGED <<n, input, pc, caller, i, hn, temp_v, temp_i>>

(* if (temp_v > heap_v[j]) break; -- then the saved entry fills the hole.  *)
SiftStop ==
  /\ pc = "heapify"
  /\ j <= hn
  /\ Gt(temp_v, heap_v[Child])
  /\ Place(Child)
  /\ UNCHANGED <<n, input, caller, hn, temp_v, temp_i>>

(* Neither temp_v > heap_v[j] nor temp_v <= heap_v[j] (one of them is      *)
(* NaN): the loop body changes nothing, so the while loop goes round the   *)
(* same iteration for ever; pc "hang" stands for that endless loop.        *)
SiftStall ==
  /\ pc = "heapify"
  /\ j <= hn
  /\ ~Gt(temp_v, heap_v[Child])
  /\ ~Le(temp_v, heap_v[Child])
  /\ pc' = "hang"
  /\ UNCHANGED <<n, input, heap_v, heap_i, caller, i, j, hn, temp_v, temp_i>>

(* The while loop ends with j > n: the saved entry fills the hole.         *)
SiftEnd ==
  /\ pc = "heapify"
  /\ j > hn
  /\ Place(j)
  /\ UNCHANGED <<n, input, caller, hn, temp_v, temp_i>>

Next ==
  \/ BuildHeap \/ BuildDone \/ SortSwap \/ SortDone
  \/ SiftDown \/ SiftStop \/ SiftStall \/ SiftEnd

(* The code is sequential: the next loop iteration always runs.            *)
Spec == Init /\ [][Next]_vars /\ WF_vars(Next)

-----------------------------------------------------------------------------
(***************************************************************************)
(* Properties.                                                             *)
(***************************************************************************)

(* The type of every variable.                                             *)
TypeOK ==
  /\ n \in 0..MaxN
  /\ input \in [1..n -> Values]
  /\ heap_v \in [1..n -> Values]
  /\ heap_i \in [1..n -> 1..n]
  /\ pc \in {"build", "sort", "heapify", "hang", "done"}
  /\ caller \in {"build", "sort"}
  /\ i \in Nat
  /\ j \in Nat
  /\ hn \in Nat
  /\ temp_v \in Values
  /\ temp_i \in 0..n

(* The 1-based indexing of the code never leaves heap[1..n]: the hole      *)
(* heap[j/2] that max_heapify fills and the children heap[j], heap[j+1] it *)
(* reads lie in 1..n, and the sort loop swaps heap[i] with i <= n.         *)
IndexSafe ==
  /\ pc \in {"heapify", "hang"} => /\ 1 <= j \div 2
                                  /\ j \div 2 <= hn
                                  /\ hn <= n
  /\ pc \in {"build", "sort"} => i <= n

(* The entry at position k, counting the entry max_heapify holds in        *)
(* temp_v/temp_i as the one in its hole heap[j/2].                         *)
Entry(k) ==
  IF pc \in {"heapify", "hang"} /\ k = j \div 2 THEN <<temp_v, temp_i>>
                                    ELSE <<heap_v[k], heap_i[k]>>

(* Every value stays paired with the index it came in with, and none is    *)
(* lost or duplicated: heap_i moves in lockstep with heap_v through the    *)
(* hole-shifting of max_heapify and the swaps of max_heapsort.             *)
PairsConserved ==
  {Entry(k) : k \in 1..n} = {<<input[k], k>> : k \in 1..n}

(* Between two calls of max_heapify: in build_maxheap the subtrees rooted  *)
(* after i are heaps; in max_heapsort heap[1..i] is a heap, heap[i+1..n]   *)
(* is sorted, and nothing in the heap is greater than anything after it.   *)
HeapOrdered ==
  /\ pc = "build" =>
       \A c \in 2..n : c \div 2 > i => ~Gt(heap_v[c], heap_v[c \div 2])
  /\ pc = "sort" =>
       /\ \A c \in 2..i : ~Gt(heap_v[c], heap_v[c \div 2])
       /\ \A p \in 1..i, q \in i + 1..n : ~Gt(heap_v[p], heap_v[q])
       /\ \A k \in i + 1..n - 1 : ~Gt(heap_v[k], heap_v[k + 1])

(* When maxheapsort returns, heap_v[1..n] is in increasing order.          *)
SortedOnExit ==
  pc = "done" => \A k \in 1..n - 1 : Le(heap_v[k], heap_v[k + 1])

(* The sorted tail of max_heapsort: heap[i+1..n] between its iterations,  *)
(* heap[i..n] while max_heapify(.., 1, i - 1) runs.                        *)
SortedTail ==
  IF pc = "sort" THEN i + 1..n
  ELSE IF pc \in {"heapify", "hang"} /\ caller = "sort" THEN i..n
  ELSE {}

(* No step of max_heapsort moves an entry of the sorted tail, NaN or not:  *)
(* the swap touches heap[1] and heap[i] only, and max_heapify(.., 1,       *)
(* i - 1) reads and writes heap[1..i-1] only.                              *)
TailFixed ==
  [][\A k \in SortedTail : heap_v'[k] = heap_v[k] /\ heap_i'[k] = heap_i[k]]_vars

(* maxheapsort returns.                                                    *)
Termination == <>(pc = "done")

(* The int overloads, which move heap_v alone.                             *)
IntSort == INSTANCE HeapSortInt

(* On NaN-free input the double/index sort moves heap_v exactly as the int *)
(* sort does: carrying heap_i along changes nothing in the values' moves.  *)
RefinesIntSort == IntSort!Spec

(* The caller's view of maxheapsort: until it returns heap_v is still the  *)
(* input; once it has returned, heap_v is what the call produced.          *)
Sorting == INSTANCE SortSpec WITH
             heap_v <- IF pc = "done" THEN heap_v ELSE input,
             done <- (pc = "done")

(* On NaN-free input maxheapsort implements sorting: every call returns,   *)
(* and returns heap_v[1..n] as its input rearranged in nondecreasing       *)
(* order; every step before the return is invisible to the caller.         *)
RefinesSorting == Sorting!Spec

=============================================================================
