----------------------------- MODULE HeapSortInt ----------------------------
(***************************************************************************)
(* The int overloads of util/HighsSort.cpp: maxheapsort(heap_v, n) =       *)
(* build_maxheap(heap_v, n); max_heapsort(heap_v, n), with the int         *)
(* max_heapify.  The same three loops as HeapSort, on heap_v alone, and    *)
(* with int comparisons, of which one of > and <= always holds.  HeapSort  *)
(* (the double/index overloads) is checked to implement this module with   *)
(* heap_i and temp_i hidden.                                               *)
(***************************************************************************)
EXTENDS Integers

CONSTANTS MaxN, Values

VARIABLES n, input, heap_v, pc, caller, i, j, hn, temp_v

vars == <<n, input, heap_v, pc, caller, i, j, hn, temp_v>>

(* if (j < n && heap_v[j + 1] > heap_v[j]) j = j + 1;                      *)
Child == IF j < hn /\ heap_v[j + 1] > heap_v[j] THEN j + 1 ELSE j

(* max_heapify(heap_v, start, limit): temp_v = heap_v[start]; j = 2*start. *)
CallHeapify(v, start, limit, from) ==
  /\ heap_v' = v
  /\ temp_v' = v[start]
  /\ j' = 2 * start
  /\ hn' = limit
  /\ caller' = from
  /\ pc' = "heapify"

(* heap_v[j / 2] = temp_v; return; the caller's loop decrements i.         *)
Place(k) ==
  /\ heap_v' = [heap_v EXCEPT ![k \div 2] = temp_v]
  /\ j' = k
  /\ pc' = caller
  /\ i' = i - 1

Init ==
  /\ n \in 0..MaxN
  /\ heap_v \in [1..n -> Values]
  /\ input = heap_v
  /\ pc = "build"
  /\ caller = "build"
  /\ i = n \div 2
  /\ j = 0
  /\ hn = 0
  /\ temp_v = CHOOSE v \in Values : TRUE

(* for (i = n / 2; i >= 1; i--) max_heapify(heap_v, i, n);                *)
BuildHeap ==
  /\ pc = "build"
  /\ i >= 1
  /\ CallHeapify(heap_v, i, n, "build")
  /\ UNCHANGED <<n, input, i>>

BuildDone ==
  /\ pc = "build"
  /\ i < 1
  /\ pc' = "sort"
  /\ i' = n
  /\ UNCHANGED <<n, input, heap_v, caller, j, hn, temp_v>>

(* for (i = n; i >= 2; i--) { swap heap_v[i], heap_v[1];                   *)
(* max_heapify(heap_v, 1, i - 1); }                                        *)
SortSwap ==
  /\ pc = "sort"
  /\ i >= 2
  /\ CallHeapify([heap_v EXCEPT ![i] = heap_v[1], ![1] = heap_v[i]],
                 1, i - 1, "sort")
  /\ UNCHANGED <<n, input, i>>

SortDone ==
  /\ pc = "sort"
  /\ i < 2
  /\ pc' = "done"
  /\ UNCHANGED <<n, input, heap_v, caller, i, j, hn, temp_v>>

(* temp_v <= heap_v[j]: heap_v[j / 2] = heap_v[j]; j = 2 * j;              *)
SiftDown ==
  /\ pc = "heapify"
  /\ j <= hn
  /\ temp_v <= heap_v[Child]
  /\ heap_v' = [heap_v EXCEPT ![Child \div 2] = heap_v[Child]]
  /\ j' = 2 * Child
  /\ UNCHANGED <<n, input, pc, caller, i, hn, temp_v>>

(* temp_v > heap_v[j]: break.                                              *)
SiftStop ==
  /\ pc = "heapify"
  /\ j <= hn
  /\ temp_v > heap_v[Child]
  /\ Place(Child)
  /\ UNCHANGED <<n, input, caller, hn, temp_v>>

(* while (j <= n) ends.                                                    *)
SiftEnd ==
  /\ pc = "heapify"
  /\ j > hn
  /\ Place(j)
  /\ UNCHANGED <<n, input, caller, hn, temp_v>>

Next ==
  \/ BuildHeap \/ BuildDone \/ SortSwap \/ SortDone
  \/ SiftDown \/ SiftStop \/ SiftEnd

Spec == Init /\ [][Next]_vars /\ WF_vars(Next)

=============================================================================
