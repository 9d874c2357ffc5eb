---------------------------- MODULE HeapSortProofs --------------------------
(***************************************************************************)
(* Proofs about HeapSort for every MaxN and every set of Values: the type  *)
(* invariant, and that the 1-based indexing of build_maxheap,             *)
(* max_heapsort and max_heapify never leaves heap[1..n].                   *)
(***************************************************************************)
EXTENDS HeapSort, TLAPS

(***************************************************************************)
(* IndexSafe is not inductive by itself: a step of max_heapify keeps the  *)
(* hole in range only because j is even (so that the right child j+1 has   *)
(* the same parent j/2), and the return to the caller's loop keeps i in    *)
(* range only because the caller's i and the limit hn are related as the  *)
(* call made them.  HeapIInv adds those facts.                             *)
(***************************************************************************)
CallFrame ==
  /\ j % 2 = 0
  /\ temp_i \in 1..n
  /\ caller = "build" => /\ 1 <= i /\ i <= n \div 2
                         /\ hn = n
  /\ caller = "sort" => /\ 2 <= i /\ i <= n
                        /\ hn = i - 1

HeapIInv ==
  /\ TypeOK
  /\ IndexSafe
  /\ pc = "build" => i <= n \div 2
  /\ pc \in {"heapify", "hang"} => CallFrame

-----------------------------------------------------------------------------
USE HeapSortAssumption

LEMMA InitHeapIInv == Init => HeapIInv
<1> SUFFICES ASSUME Init PROVE HeapIInv
  OBVIOUS
<1>1. (CHOOSE v \in Values : TRUE) \in Values
  OBVIOUS
<1>2. TypeOK
  BY <1>1 DEF Init, TypeOK
<1>3. QED
  BY <1>2 DEF Init, HeapIInv, IndexSafe

(***************************************************************************)
(* Facts about the operators the model is built from.                      *)
(***************************************************************************)

(* Writing one element of an array keeps it an array of the same type: the *)
(* hole-filling heap[j/2] = ... of max_heapify.                            *)
LEMMA ExceptType ==
  ASSUME NEW S, NEW m \in Nat, NEW f \in [1..m -> S],
         NEW k \in 1..m, NEW v \in S
  PROVE  [f EXCEPT ![k] = v] \in [1..m -> S]
  OBVIOUS

(* Swapping two elements keeps it an array of the same type: the swap of   *)
(* heap[1] and heap[i] in max_heapsort.                                    *)
LEMMA SwapType ==
  ASSUME NEW S, NEW m \in Nat, NEW f \in [1..m -> S],
         NEW a \in 1..m, NEW b \in 1..m
  PROVE  [f EXCEPT ![a] = f[b], ![b] = f[a]] \in [1..m -> S]
  OBVIOUS

(* The child max_heapify descends to is j or j + 1, never beyond the       *)
(* limit, and, j being even, has the same parent j/2.                      *)
LEMMA ChildFacts ==
  ASSUME j \in Nat, hn \in Nat, j <= hn, j % 2 = 0
  PROVE  /\ Child \in {j, j + 1}
         /\ Child <= hn
         /\ Child \div 2 = j \div 2
  BY DEF Child

(* TypeOK after a step, from the type of each variable after the step.     *)
LEMMA TypeStep ==
  ASSUME TypeOK, n' = n, input' = input,
         heap_v' \in [1..n -> Values], heap_i' \in [1..n -> 1..n],
         pc' \in {"build", "sort", "heapify", "hang", "done"},
         caller' \in {"build", "sort"},
         i' \in Nat, j' \in Nat, hn' \in Nat,
         temp_v' \in Values, temp_i' \in 0..n
  PROVE  TypeOK'
  BY DEF TypeOK

-----------------------------------------------------------------------------
(***************************************************************************)
(* One lemma per action of Next: it preserves HeapIInv.                    *)
(***************************************************************************)

LEMMA BuildHeapIInv == HeapIInv /\ BuildHeap => HeapIInv'
<1> SUFFICES ASSUME HeapIInv, BuildHeap PROVE HeapIInv'
  OBVIOUS
<1>1. /\ TypeOK
      /\ pc = "build" /\ 1 <= i /\ i <= n \div 2
      /\ n \in Nat /\ i \in Nat
      /\ heap_v \in [1..n -> Values] /\ heap_i \in [1..n -> 1..n]
  BY DEF HeapIInv, TypeOK, BuildHeap
<1>2. i \in 1..n
  BY <1>1
<1>3. /\ heap_v' = heap_v /\ heap_i' = heap_i
      /\ temp_v' = heap_v[i] /\ temp_i' = heap_i[i]
      /\ j' = 2 * i /\ hn' = n /\ caller' = "build" /\ pc' = "heapify"
      /\ n' = n /\ input' = input /\ i' = i
  BY DEF BuildHeap, CallHeapify
<1>4. TypeOK'
  BY <1>1, <1>2, <1>3, TypeStep
<1>5. IndexSafe' /\ CallFrame'
  BY <1>1, <1>2, <1>3 DEF IndexSafe, CallFrame
<1>6. QED
  BY <1>3, <1>4, <1>5 DEF HeapIInv

LEMMA BuildDoneIInv == HeapIInv /\ BuildDone => HeapIInv'
  BY DEF HeapIInv, TypeOK, IndexSafe, CallFrame, BuildDone

LEMMA SortSwapIInv == HeapIInv /\ SortSwap => HeapIInv'
<1> SUFFICES ASSUME HeapIInv, SortSwap PROVE HeapIInv'
  OBVIOUS
<1>0. TypeOK /\ IndexSafe /\ pc = "sort" /\ 2 <= i
  BY DEF HeapIInv, SortSwap
<1>1. /\ TypeOK
      /\ pc = "sort" /\ 2 <= i /\ i <= n
      /\ n \in Nat /\ i \in Nat
      /\ heap_v \in [1..n -> Values] /\ heap_i \in [1..n -> 1..n]
  BY <1>0 DEF TypeOK, IndexSafe
<1>2. 1 \in 1..n /\ i \in 1..n
  BY <1>1
<1> DEFINE sv == [heap_v EXCEPT ![i] = heap_v[1], ![1] = heap_v[i]]
           si == [heap_i EXCEPT ![i] = heap_i[1], ![1] = heap_i[i]]
<1>3. /\ heap_v' = sv /\ heap_i' = si
      /\ temp_v' = sv[1] /\ temp_i' = si[1]
      /\ j' = 2 /\ hn' = i - 1 /\ caller' = "sort" /\ pc' = "heapify"
      /\ n' = n /\ input' = input /\ i' = i
  BY DEF SortSwap, CallHeapify
<1>4. sv \in [1..n -> Values] /\ si \in [1..n -> 1..n]
  BY <1>1, <1>2, SwapType
<1>5. sv[1] \in Values /\ si[1] \in 1..n
  BY <1>2, <1>4
<1>6. TypeOK'
  <2>1. /\ heap_v' \in [1..n -> Values] /\ heap_i' \in [1..n -> 1..n]
        /\ temp_v' \in Values /\ temp_i' \in 1..n
    BY <1>3, <1>4, <1>5
  <2>2. j' \in Nat /\ hn' \in Nat /\ i' \in Nat
    BY <1>1, <1>3
  <2>3. /\ pc' \in {"build", "sort", "heapify", "hang", "done"}
        /\ caller' \in {"build", "sort"}
        /\ temp_i' \in 0..n
    BY <1>3, <2>1
  <2>4. QED
    BY <1>1, <1>3, <2>1, <2>2, <2>3, TypeStep
<1>7. IndexSafe' /\ CallFrame'
  BY <1>1, <1>3, <1>5 DEF IndexSafe, CallFrame
<1>8. QED
  BY <1>3, <1>6, <1>7 DEF HeapIInv

LEMMA SortDoneIInv == HeapIInv /\ SortDone => HeapIInv'
  BY DEF HeapIInv, TypeOK, IndexSafe, CallFrame, SortDone

LEMMA SiftDownIInv == HeapIInv /\ SiftDown => HeapIInv'
<1> SUFFICES ASSUME HeapIInv, SiftDown PROVE HeapIInv'
  OBVIOUS
<1>1. /\ TypeOK /\ CallFrame
      /\ pc = "heapify" /\ j <= hn
      /\ 1 <= j \div 2 /\ hn <= n
      /\ n \in Nat /\ j \in Nat /\ hn \in Nat
      /\ heap_v \in [1..n -> Values] /\ heap_i \in [1..n -> 1..n]
      /\ j % 2 = 0
  BY DEF HeapIInv, TypeOK, IndexSafe, CallFrame, SiftDown
<1>2. /\ Child \in {j, j + 1} /\ Child <= hn /\ Child \div 2 = j \div 2
  BY <1>1, ChildFacts
<1>3. Child \in 1..n /\ Child \div 2 \in 1..n /\ 1 <= Child
  BY <1>1, <1>2
<1>4. /\ heap_v' = [heap_v EXCEPT ![Child \div 2] = heap_v[Child]]
      /\ heap_i' = [heap_i EXCEPT ![Child \div 2] = heap_i[Child]]
      /\ j' = 2 * Child
      /\ UNCHANGED <<n, input, pc, caller, i, hn, temp_v, temp_i>>
  BY DEF SiftDown
<1>5. heap_v' \in [1..n -> Values] /\ heap_i' \in [1..n -> 1..n]
  BY <1>1, <1>3, <1>4, ExceptType
<1>6. TypeOK'
  <2>1. j' \in Nat
    BY <1>3, <1>4
  <2>2. QED
    BY <1>1, <1>4, <1>5, <2>1, TypeStep DEF TypeOK
<1>7. j' % 2 = 0 /\ j' \div 2 = Child
  BY <1>3, <1>4
<1>8. IndexSafe'
  BY <1>1, <1>2, <1>3, <1>4, <1>7 DEF IndexSafe
<1>9. CallFrame'
  BY <1>1, <1>4, <1>7 DEF CallFrame
<1>10. QED
  BY <1>4, <1>6, <1>8, <1>9 DEF HeapIInv

(* The return of max_heapify to its caller: Place(k) with k \div 2 the     *)
(* hole; both SiftStop and SiftEnd end in it.                             *)
LEMMA PlaceIInv ==
  ASSUME HeapIInv, pc = "heapify", NEW k \in Nat, k \div 2 = j \div 2,
         Place(k), UNCHANGED <<n, input, caller, hn, temp_v, temp_i>>
  PROVE  HeapIInv'
<1>1. /\ TypeOK /\ CallFrame
      /\ 1 <= j \div 2 /\ j \div 2 <= n
      /\ n \in Nat /\ i \in Nat /\ j \in Nat
      /\ heap_v \in [1..n -> Values] /\ heap_i \in [1..n -> 1..n]
      /\ temp_v \in Values /\ temp_i \in 1..n
      /\ caller \in {"build", "sort"}
  BY DEF HeapIInv, TypeOK, IndexSafe, CallFrame
<1>2. k \div 2 \in 1..n
  BY <1>1
<1>3. /\ heap_v' = [heap_v EXCEPT ![k \div 2] = temp_v]
      /\ heap_i' = [heap_i EXCEPT ![k \div 2] = temp_i]
      /\ j' = k /\ pc' = caller /\ i' = i - 1
  BY DEF Place
<1>4. heap_v' \in [1..n -> Values] /\ heap_i' \in [1..n -> 1..n]
  BY <1>1, <1>2, <1>3, ExceptType
<1>5. /\ caller = "build" => 1 <= i /\ i <= n \div 2
      /\ caller = "sort" => 2 <= i /\ i <= n
  BY <1>1 DEF CallFrame
<1>6. i' \in Nat /\ pc' \in {"build", "sort"}
  BY <1>1, <1>3, <1>5
<1>7. TypeOK'
  BY <1>1, <1>3, <1>4, <1>6, TypeStep DEF TypeOK
<1>8. IndexSafe'
  BY <1>1, <1>3, <1>5, <1>6 DEF IndexSafe
<1>9. (pc = "build" => i <= n \div 2)'
  BY <1>1, <1>3, <1>5
<1>10. QED
  BY <1>6, <1>7, <1>8, <1>9 DEF HeapIInv

LEMMA SiftStopIInv == HeapIInv /\ SiftStop => HeapIInv'
<1> SUFFICES ASSUME HeapIInv, SiftStop PROVE HeapIInv'
  OBVIOUS
<1>1. j \in Nat /\ hn \in Nat /\ j <= hn /\ j % 2 = 0 /\ pc = "heapify"
  BY DEF HeapIInv, TypeOK, CallFrame, SiftStop
<1>2. Child \in Nat /\ Child \div 2 = j \div 2
  BY <1>1, ChildFacts
<1>3. QED
  BY <1>1, <1>2, PlaceIInv DEF SiftStop

LEMMA SiftStallIInv == HeapIInv /\ SiftStall => HeapIInv'
  BY DEF HeapIInv, TypeOK, IndexSafe, CallFrame, SiftStall

LEMMA SiftEndIInv == HeapIInv /\ SiftEnd => HeapIInv'
<1> SUFFICES ASSUME HeapIInv, SiftEnd PROVE HeapIInv'
  OBVIOUS
<1>1. j \in Nat /\ pc = "heapify"
  BY DEF HeapIInv, TypeOK, SiftEnd
<1>2. QED
  BY <1>1, PlaceIInv DEF SiftEnd

-----------------------------------------------------------------------------
(* HeapIInv holds in every state of maxheapsort on any n and any doubles:  *)
(* the loops of build_maxheap, max_heapsort and max_heapify keep the hole  *)
(* and the loop counters related as the calls made them.                   *)
THEOREM HeapInvariant == Spec => []HeapIInv
<1>1. Init => HeapIInv
  BY InitHeapIInv
<1>2. HeapIInv /\ [Next]_vars => HeapIInv'
  <2> SUFFICES ASSUME HeapIInv, [Next]_vars PROVE HeapIInv'
    OBVIOUS
  <2>1. CASE BuildHeap
    BY <2>1, BuildHeapIInv
  <2>2. CASE BuildDone
    BY <2>2, BuildDoneIInv
  <2>3. CASE SortSwap
    BY <2>3, SortSwapIInv
  <2>4. CASE SortDone
    BY <2>4, SortDoneIInv
  <2>5. CASE SiftDown
    BY <2>5, SiftDownIInv
  <2>6. CASE SiftStop
    BY <2>6, SiftStopIInv
  <2>7. CASE SiftStall
    BY <2>7, SiftStallIInv
  <2>8. CASE SiftEnd
    BY <2>8, SiftEndIInv
  <2>9. CASE UNCHANGED vars
    BY <2>9 DEF vars, HeapIInv, TypeOK, IndexSafe, CallFrame
  <2>10. QED
    BY <2>1, <2>2, <2>3, <2>4, <2>5, <2>6, <2>7, <2>8, <2>9 DEF Next
<1>3. QED
  BY <1>1, <1>2, PTL DEF Spec

(* Every variable of maxheapsort keeps its type: in particular heap_v and  *)
(* heap_i stay arrays over 1..n of doubles and of indices in 1..n.         *)
THEOREM HeapTypeCorrect == Spec => []TypeOK
  BY HeapInvariant, PTL DEF HeapIInv

(* The 1-based indexing of max_heapify and of the two loops never reads or *)
(* writes outside heap[1..n], for every n and every input.                 *)
THEOREM HeapIndexSafe == Spec => []IndexSafe
  BY HeapInvariant, PTL DEF HeapIInv

-----------------------------------------------------------------------------
(***************************************************************************)
(* The sorted tail stays where max_heapsort put it.                        *)
(***************************************************************************)

(* The step formula of TailFixed.                                          *)
TailKept ==
  \A k \in SortedTail : heap_v'[k] = heap_v[k] /\ heap_i'[k] = heap_i[k]

(* A write into the hole heap[h] of max_heapify, h <= hn, leaves the       *)
(* sorted tail alone: a call from max_heapsort has hn = i - 1.             *)
LEMMA HoleBelowTail ==
  ASSUME HeapIInv, pc = "heapify", NEW h \in 1..hn, NEW a, NEW b,
         heap_v' = [heap_v EXCEPT ![h] = a],
         heap_i' = [heap_i EXCEPT ![h] = b]
  PROVE  TailKept
<1>1. CASE caller = "sort"
  <2>1. hn = i - 1 /\ i <= n /\ hn \in Nat /\ i \in Nat
    BY <1>1 DEF HeapIInv, CallFrame, TypeOK
  <2>2. SortedTail = i..n
    BY <1>1 DEF SortedTail
  <2>3. QED
    BY <2>1, <2>2 DEF TailKept
<1>2. CASE caller # "sort"
  BY <1>2 DEF SortedTail, TailKept
<1>3. QED
  BY <1>1, <1>2

(* The hole of max_heapify is heap[j/2], within 1..hn.                     *)
LEMMA HoleInRange ==
  ASSUME HeapIInv, pc = "heapify"
  PROVE  j \div 2 \in 1..hn
BY DEF HeapIInv, IndexSafe, TypeOK

(* No step of maxheapsort moves an entry of the sorted tail of            *)
(* max_heapsort, for every n and every set of doubles, NaN included: the   *)
(* swap touches heap[1] and heap[i], max_heapify(.., 1, i - 1) only        *)
(* heap[1..i-1].                                                           *)
THEOREM HeapTailFixed == Spec => TailFixed
<1>1. HeapIInv /\ [Next]_vars => [TailKept]_vars
  <2> SUFFICES ASSUME HeapIInv, [Next]_vars PROVE TailKept
    OBVIOUS
  <2>0. heap_v \in [1..n -> Values] /\ heap_i \in [1..n -> 1..n] /\ n \in Nat
    BY DEF HeapIInv, TypeOK
  <2>1. CASE BuildHeap
    BY <2>1 DEF BuildHeap, CallHeapify, TailKept
  <2>2. CASE BuildDone \/ SortDone \/ SiftStall \/ UNCHANGED vars
    BY <2>2 DEF BuildDone, SortDone, SiftStall, vars, TailKept
  <2>3. CASE SortSwap
    <3>1. pc = "sort" /\ i >= 2 /\ i \in Nat
      BY <2>3 DEF SortSwap, HeapIInv, TypeOK
    <3>2. SortedTail = i + 1..n
      BY <3>1 DEF SortedTail
    <3>3. /\ heap_v' = [heap_v EXCEPT ![i] = heap_v[1], ![1] = heap_v[i]]
          /\ heap_i' = [heap_i EXCEPT ![i] = heap_i[1], ![1] = heap_i[i]]
      BY <2>3 DEF SortSwap, CallHeapify
    <3>4. \A k \in i + 1..n : k \in 1..n /\ k # i /\ k # 1
      BY <3>1
    <3>5. QED
      BY <2>0, <3>2, <3>3, <3>4 DEF TailKept
  <2>4. CASE SiftDown
    <3>1. pc = "heapify" /\ j <= hn /\ j % 2 = 0 /\ j \in Nat /\ hn \in Nat
      BY <2>4 DEF SiftDown, HeapIInv, CallFrame, TypeOK
    <3>2. Child \div 2 = j \div 2
      BY <3>1, ChildFacts
    <3>3. j \div 2 \in 1..hn
      BY <3>1, HoleInRange
    <3>4. QED
      BY <2>4, <3>1, <3>2, <3>3, HoleBelowTail DEF SiftDown
  <2>5. CASE SiftStop
    <3>1. pc = "heapify" /\ j <= hn /\ j % 2 = 0 /\ j \in Nat /\ hn \in Nat
      BY <2>5 DEF SiftStop, HeapIInv, CallFrame, TypeOK
    <3>2. Child \div 2 = j \div 2
      BY <3>1, ChildFacts
    <3>3. j \div 2 \in 1..hn
      BY <3>1, HoleInRange
    <3>4. QED
      BY <2>5, <3>1, <3>2, <3>3, HoleBelowTail DEF SiftStop, Place
  <2>6. CASE SiftEnd
    <3>1. pc = "heapify"
      BY <2>6 DEF SiftEnd
    <3>2. j \div 2 \in 1..hn
      BY <3>1, HoleInRange
    <3>3. QED
      BY <2>6, <3>1, <3>2, HoleBelowTail DEF SiftEnd, Place
  <2>7. QED
    BY <2>1, <2>2, <2>3, <2>4, <2>5, <2>6 DEF Next
<1>2. QED
  BY <1>1, HeapInvariant, PTL DEF Spec, TailFixed, TailKept
=============================================================================
