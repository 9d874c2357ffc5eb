------------------------- MODULE HeapSortOrderProofs -------------------------
(***************************************************************************)
(* Proof that maxheapsort sorts NaN-free input, for every MaxN and every   *)
(* set of values: HeapOrdered holds between the calls of max_heapify and   *)
(* SortedOnExit when maxheapsort returns.  Inside max_heapify the heap     *)
(* property holds on every edge that does not touch the hole heap[j/2];    *)
(* the entry above the hole dominates the hole's children and temp_v, and  *)
(* in max_heapsort everything still in the heap is below the sorted tail.  *)
(* With PairsConserved this gives the refinement of SortSpec: the call     *)
(* returns its input rearranged in nondecreasing order.                    *)
(***************************************************************************)
EXTENDS HeapSortRefinementProofs, HeapSortPairsProofs, WellFoundedInduction

(* The root of the max_heapify call: i in build_maxheap, 1 in max_heapsort. *)
Start == IF caller = "build" THEN i ELSE 1

(* The hole heap[j/2] that max_heapify keeps while it sifts temp_v down.   *)
Hole == j \div 2

(* build_maxheap between calls: the subtrees rooted after i are heaps.     *)
BuildOrder == \A c \in 2..n : c \div 2 > i => heap_v[c] =< heap_v[c \div 2]

(* max_heapsort between calls: heap[1..i] is a heap below the sorted tail. *)
SortOrder ==
  /\ \A c \in 2..i : heap_v[c] =< heap_v[c \div 2]
  /\ \A p \in 1..i, q \in i + 1..n : heap_v[p] =< heap_v[q]
  /\ \A k \in i + 1..n - 1 : heap_v[k] =< heap_v[k + 1]

(* Inside max_heapify(.., Start, hn): every edge of the subtree below      *)
(* Start that does not touch the hole is ordered; once the hole has moved, *)
(* the entry above it dominates temp_v and the hole's children; in         *)
(* max_heapsort the heap and temp_v stay below the sorted tail heap[i..n]. *)
SiftOrder ==
  /\ Start <= Hole
  /\ \A c \in 2..hn : c \div 2 >= Start /\ c \div 2 # Hole /\ c # Hole
                        => heap_v[c] =< heap_v[c \div 2]
  /\ Hole > Start =>
       /\ temp_v =< heap_v[Hole \div 2]
       /\ \A c \in 2..hn : c \div 2 = Hole => heap_v[c] =< heap_v[Hole \div 2]
  /\ caller = "sort" =>
       /\ \A k \in i..n - 1 : heap_v[k] =< heap_v[k + 1]
       /\ \A p \in 1..hn, q \in i..n : heap_v[p] =< heap_v[q]
       /\ \A q \in i..n : temp_v =< heap_v[q]

(* maxheapsort has returned: heap_v[1..n] is increasing.                   *)
DoneOrder == \A k \in 1..n - 1 : heap_v[k] =< heap_v[k + 1]

(* The inductive invariant: HeapIInv, no stall, and the order of each      *)
(* phase.                                                                  *)
OrderIInv ==
  /\ HeapIInv
  /\ pc # "hang"
  /\ pc = "build" => BuildOrder
  /\ pc = "sort" => SortOrder
  /\ pc = "heapify" => SiftOrder
  /\ pc = "done" => DoneOrder
-----------------------------------------------------------------------------
(***************************************************************************)
(* Facts about the values and the operators.                               *)
(***************************************************************************)

(* Without NaN every double of the model is an int.                        *)
LEMMA ValuesInt == NoNaN => Values \subseteq Int
BY HeapSortAssumption DEF NoNaN

(* The variables' types as ints and naturals.                              *)
LEMMA OrderTypes ==
  ASSUME NoNaN, HeapIInv
  PROVE  /\ heap_v \in [1..n -> Int] /\ temp_v \in Int
         /\ n \in Nat /\ i \in Nat /\ j \in Nat /\ hn \in Nat
<1>1. Values \subseteq Int
  BY ValuesInt
<1>2. /\ heap_v \in [1..n -> Values] /\ temp_v \in Values
      /\ n \in Nat /\ i \in Nat /\ j \in Nat /\ hn \in Nat
  BY DEF HeapIInv, TypeOK
<1>3. heap_v \in [1..n -> Int]
  BY <1>1, <1>2
<1>4. QED
  BY <1>1, <1>2, <1>3

(* In a heap a[1..m] no entry exceeds the root: the entry max_heapsort     *)
(* swaps to the end is a greatest one.  By a least entry above the root.   *)
LEMMA RootMax ==
  ASSUME NEW a, NEW m \in Nat,
         \A k \in 1..m : a[k] \in Int,
         \A c \in 2..m : a[c] =< a[c \div 2]
  PROVE  \A k \in 1..m : a[k] =< a[1]
<1> DEFINE T == {k \in 1..m : ~(a[k] =< a[1])}
           R == OpToRel(<, Nat)
<1>1. T = {}
  <2> SUFFICES ASSUME T # {} PROVE FALSE
    OBVIOUS
  <2>1. T \subseteq Nat
    OBVIOUS
  <2>2. \E k \in T : \A x \in T : ~(<<x, k>> \in R)
    BY <2>1, NatLessThanWellFounded, WFMin, Zenon
  <2>3. PICK k \in T : \A x \in T : ~(<<x, k>> \in R)
    BY <2>2
  <2>4. k \in 1..m /\ ~(a[k] =< a[1])
    BY <2>3
  <2>5. k \in 2..m /\ k \div 2 \in 1..m /\ k \div 2 < k
    BY <2>4
  <2>6. <<k \div 2, k>> \in R
    BY <2>5 DEF OpToRel
  <2>7. k \div 2 \notin T
    BY <2>3, <2>6, Zenon
  <2>8. a[k \div 2] =< a[1] /\ a[k] =< a[k \div 2]
    BY <2>5, <2>7
  <2>9. QED
    BY <2>4, <2>5, <2>8
<1>2. QED
  BY <1>1

(* The child max_heapify compares temp_v with is the greater of the hole's *)
(* children within the limit.                                              *)
LEMMA ChildMax ==
  ASSUME NoNaN, HeapIInv, pc = "heapify", j <= hn
  PROVE  /\ Child \in 2..hn /\ Child \div 2 = Hole
         /\ \A c \in 2..hn : c \div 2 = Hole => heap_v[c] =< heap_v[Child]
<1>1. /\ heap_v \in [1..n -> Int] /\ n \in Nat /\ j \in Nat /\ hn \in Nat
      /\ 1 <= j \div 2 /\ hn <= n /\ j % 2 = 0
  BY OrderTypes DEF HeapIInv, IndexSafe, CallFrame
<1>2. Child \in {j, j + 1} /\ Child <= hn /\ Child \div 2 = j \div 2
  BY <1>1, ChildFacts
<1>3. \A c \in 2..hn : c \div 2 = Hole => c \in {j, j + 1}
  BY <1>1 DEF Hole
<1>4. j < hn => (Gt(heap_v[j + 1], heap_v[j]) <=> heap_v[j + 1] > heap_v[j])
  <2>1. heap_v \in [1..n -> Values]
    BY DEF HeapIInv, TypeOK
  <2>2. j < hn => j \in 1..n /\ j + 1 \in 1..n
    BY <1>1
  <2>3. QED
    BY <2>1, <2>2, CompareInts
<1>5. QED
  BY <1>1, <1>2, <1>3, <1>4 DEF Child, Hole

-----------------------------------------------------------------------------
(***************************************************************************)
(* One lemma per action: it preserves OrderIInv.                           *)
(***************************************************************************)

LEMMA InitOrder == Init => OrderIInv
<1> SUFFICES ASSUME Init PROVE OrderIInv
  OBVIOUS
<1>1. HeapIInv
  BY InitHeapIInv
<1>2. n \in Nat /\ pc = "build" /\ i = n \div 2
  BY DEF Init
<1>3. BuildOrder
  BY <1>2 DEF BuildOrder
<1>4. QED
  BY <1>1, <1>2, <1>3 DEF OrderIInv

LEMMA BuildHeapOrder ==
  ASSUME NoNaN, OrderIInv, BuildHeap PROVE OrderIInv'
<1>1. HeapIInv /\ BuildOrder /\ pc = "build" /\ 1 <= i
  BY DEF OrderIInv, BuildHeap
<1>2. HeapIInv'
  BY <1>1, BuildHeapIInv
<1>3. i \in Nat /\ n \in Nat
  BY <1>1, OrderTypes
<1>4. /\ heap_v' = heap_v /\ j' = 2 * i /\ hn' = n /\ caller' = "build"
      /\ pc' = "heapify" /\ i' = i
  BY DEF BuildHeap, CallHeapify
<1>5. Start' = i /\ Hole' = i
  BY <1>3, <1>4 DEF Start, Hole
<1>6. SiftOrder'
  BY <1>1, <1>3, <1>4, <1>5 DEF SiftOrder, BuildOrder
<1>7. QED
  BY <1>2, <1>4, <1>6 DEF OrderIInv

LEMMA BuildDoneOrder ==
  ASSUME NoNaN, OrderIInv, BuildDone PROVE OrderIInv'
<1>1. HeapIInv /\ BuildOrder /\ pc = "build" /\ i < 1
  BY DEF OrderIInv, BuildDone
<1>2. HeapIInv'
  BY <1>1, BuildDoneIInv
<1>3. i \in Nat /\ n \in Nat
  BY <1>1, OrderTypes
<1>4. heap_v' = heap_v /\ pc' = "sort" /\ i' = n /\ n' = n
  BY DEF BuildDone
<1>5. SortOrder'
  BY <1>1, <1>3, <1>4 DEF SortOrder, BuildOrder
<1>6. QED
  BY <1>2, <1>4, <1>5 DEF OrderIInv

LEMMA SortDoneOrder ==
  ASSUME NoNaN, OrderIInv, SortDone PROVE OrderIInv'
<1>1. HeapIInv /\ SortOrder /\ pc = "sort" /\ i < 2
  BY DEF OrderIInv, SortDone
<1>2. HeapIInv'
  BY <1>1, SortDoneIInv
<1>3. i \in Nat /\ n \in Nat /\ i <= n
  BY <1>1, OrderTypes DEF HeapIInv, IndexSafe
<1>4. heap_v' = heap_v /\ pc' = "done" /\ n' = n
  BY DEF SortDone
<1>5. DoneOrder'
  BY <1>1, <1>3, <1>4 DEF SortOrder, DoneOrder
<1>6. QED
  BY <1>2, <1>4, <1>5 DEF OrderIInv
(* One iteration of the sift-down loop: the greater child moves up into    *)
(* the hole, which moves down to the child's place.                        *)
LEMMA SiftDownOrder ==
  ASSUME NoNaN, OrderIInv, SiftDown PROVE OrderIInv'
<1>1. HeapIInv /\ SiftOrder /\ pc = "heapify" /\ j <= hn
  BY DEF OrderIInv, SiftDown
<1>2. HeapIInv'
  BY <1>1, SiftDownIInv
<1>3. /\ heap_v \in [1..n -> Int] /\ temp_v \in Int
      /\ n \in Nat /\ i \in Nat /\ j \in Nat /\ hn \in Nat
      /\ 1 <= Hole /\ Hole <= hn /\ hn <= n
      /\ caller = "sort" => hn = i - 1
  BY <1>1, OrderTypes DEF HeapIInv, IndexSafe, CallFrame, Hole
<1>4. /\ Child \in 2..hn /\ Child \div 2 = Hole
      /\ \A c \in 2..hn : c \div 2 = Hole => heap_v[c] =< heap_v[Child]
  BY <1>1, ChildMax
<1>5. PICK h \in 1..hn : h = Hole
  BY <1>3 DEF Hole
<1>6. PICK ch \in 2..hn : ch = Child
  BY <1>4
<1>7. temp_v =< heap_v[ch]
  BY <1>6 DEF SiftDown, Le
<1>8. /\ heap_v' = [heap_v EXCEPT ![h] = heap_v[ch]]
      /\ j' = 2 * ch
      /\ n' = n /\ pc' = pc /\ caller' = caller /\ i' = i /\ hn' = hn
      /\ temp_v' = temp_v
  BY <1>4, <1>5, <1>6 DEF SiftDown
<1>9. /\ Start' = Start /\ Hole' = ch /\ ch \div 2 = h
      /\ Start <= h /\ h < ch /\ Start \in Nat
  <2>1. Start' = Start
    BY <1>8 DEF Start
  <2>2. Hole' = ch
    BY <1>8 DEF Hole
  <2>3. ch \div 2 = h
    BY <1>4, <1>5, <1>6
  <2>4. Start <= h
    BY <1>1, <1>5 DEF SiftOrder
  <2>5. Start \in Nat
    BY <1>3 DEF Start
  <2>6. QED
    BY <2>1, <2>2, <2>3, <2>4, <2>5
<1>10. \A x \in 1..n : heap_v'[x] = IF x = h THEN heap_v[ch] ELSE heap_v[x]
  BY <1>3, <1>5, <1>8
<1>11. \A c \in 2..hn : c \div 2 >= Start /\ c \div 2 # ch /\ c # ch
                          => heap_v'[c] =< heap_v'[c \div 2]
  <2> SUFFICES ASSUME NEW c \in 2..hn, c \div 2 >= Start,
                      c \div 2 # ch, c # ch
               PROVE  heap_v'[c] =< heap_v'[c \div 2]
    OBVIOUS
  <2>0. c \in 1..n /\ c \div 2 \in 1..n /\ c \div 2 < c
    BY <1>3
  <2>1. CASE c \div 2 = h
    <3>1. heap_v'[c] = heap_v[c] /\ heap_v'[h] = heap_v[ch]
      BY <2>0, <2>1, <1>10
    <3>2. QED
      BY <1>4, <1>5, <1>6, <2>1, <3>1
  <2>2. CASE c = h
    <3>1. h > Start /\ c \div 2 # h
      BY <1>9, <2>0, <2>2
    <3>2. heap_v[ch] =< heap_v[h \div 2]
      BY <1>1, <1>4, <1>5, <1>6, <3>1 DEF SiftOrder
    <3>3. heap_v'[c] = heap_v[ch] /\ heap_v'[c \div 2] = heap_v[c \div 2]
      BY <2>0, <2>2, <3>1, <1>10
    <3>4. QED
      BY <2>2, <3>2, <3>3
  <2>3. CASE c \div 2 # h /\ c # h
    <3>1. heap_v'[c] = heap_v[c] /\ heap_v'[c \div 2] = heap_v[c \div 2]
      BY <2>0, <2>3, <1>10
    <3>2. heap_v[c] =< heap_v[c \div 2]
      BY <1>1, <1>5, <2>3 DEF SiftOrder
    <3>3. QED
      BY <3>1, <3>2
  <2>4. QED
    BY <2>1, <2>2, <2>3
<1>12. /\ temp_v =< heap_v'[h]
       /\ \A c \in 2..hn : c \div 2 = ch => heap_v'[c] =< heap_v'[h]
  <2>1. heap_v'[h] = heap_v[ch]
    BY <1>3, <1>10
  <2>2. ASSUME NEW c \in 2..hn, c \div 2 = ch PROVE heap_v'[c] =< heap_v'[h]
    <3>1. c # h /\ c \in 1..n /\ c # ch
      BY <1>3, <1>9, <2>2
    <3>2. heap_v'[c] = heap_v[c]
      BY <1>10, <3>1
    <3>3. heap_v[c] =< heap_v[ch]
      BY <1>1, <1>5, <1>9, <2>2, <3>1 DEF SiftOrder
    <3>4. QED
      BY <2>1, <3>2, <3>3
  <2>3. QED
    BY <1>7, <2>1, <2>2
<1>13. caller = "sort" =>
         /\ \A k \in i..n - 1 : heap_v'[k] =< heap_v'[k + 1]
         /\ \A p \in 1..hn, q \in i..n : heap_v'[p] =< heap_v'[q]
         /\ \A q \in i..n : temp_v =< heap_v'[q]
  <2> SUFFICES ASSUME caller = "sort"
               PROVE  /\ \A k \in i..n - 1 : heap_v'[k] =< heap_v'[k + 1]
                      /\ \A p \in 1..hn, q \in i..n : heap_v'[p] =< heap_v'[q]
                      /\ \A q \in i..n : temp_v =< heap_v'[q]
    OBVIOUS
  <2>1. hn = i - 1 /\ \A q \in i..n : heap_v'[q] = heap_v[q]
    BY <1>3, <1>10
  <2>2. \A p \in 1..hn : \E x \in 1..hn : heap_v'[p] = heap_v[x]
    BY <1>3, <1>10
  <2>3. \A k \in i..n - 1 : heap_v'[k] =< heap_v'[k + 1]
    BY <1>1, <1>3, <2>1 DEF SiftOrder
  <2>4. \A p \in 1..hn, q \in i..n : heap_v'[p] =< heap_v'[q]
    <3> SUFFICES ASSUME NEW p \in 1..hn, NEW q \in i..n
                 PROVE  heap_v'[p] =< heap_v'[q]
      OBVIOUS
    <3>1. PICK x \in 1..hn : heap_v'[p] = heap_v[x]
      BY <2>2
    <3>2. heap_v[x] =< heap_v[q]
      BY <1>1 DEF SiftOrder
    <3>3. QED
      BY <2>1, <3>1, <3>2
  <2>5. \A q \in i..n : temp_v =< heap_v'[q]
    BY <1>1, <2>1 DEF SiftOrder
  <2>6. QED
    BY <2>3, <2>4, <2>5
<1>14. SiftOrder'
  BY <1>9, <1>8, <1>11, <1>12, <1>13 DEF SiftOrder
<1>15. QED
  BY <1>1, <1>2, <1>8, <1>14 DEF OrderIInv
(* The return of max_heapify: temp_v, which dominates the hole's children, *)
(* fills the hole, and the caller's loop goes on with i - 1.               *)
LEMMA PlaceOrder ==
  ASSUME NoNaN, OrderIInv, pc = "heapify", NEW k \in Nat, k \div 2 = Hole,
         \A c \in 2..hn : c \div 2 = Hole => heap_v[c] =< temp_v,
         Place(k), UNCHANGED <<n, input, caller, hn, temp_v, temp_i>>
  PROVE  OrderIInv'
<1>1. HeapIInv /\ SiftOrder
  BY DEF OrderIInv
<1>2. HeapIInv'
  BY <1>1, PlaceIInv DEF Hole
<1>3. /\ heap_v \in [1..n -> Int] /\ temp_v \in Int
      /\ n \in Nat /\ i \in Nat /\ j \in Nat /\ hn \in Nat
      /\ 1 <= Hole /\ Hole <= hn /\ hn <= n
      /\ caller \in {"build", "sort"}
      /\ caller = "build" => hn = n /\ 1 <= i
      /\ caller = "sort" => hn = i - 1 /\ 2 <= i
  BY <1>1, OrderTypes DEF HeapIInv, IndexSafe, CallFrame, Hole, TypeOK
<1>4. PICK h \in 1..hn : h = Hole
  BY <1>3 DEF Hole
<1>5. heap_v' = [heap_v EXCEPT ![h] = temp_v] /\ pc' = caller /\ i' = i - 1
  BY <1>4 DEF Place, Hole
<1>6. \A x \in 1..n : heap_v'[x] = IF x = h THEN temp_v ELSE heap_v[x]
  BY <1>3, <1>5
<1>7. Start \in Nat /\ Start <= h
  BY <1>1, <1>3, <1>4 DEF Start, SiftOrder
<1>8. \A c \in 2..hn : c \div 2 >= Start => heap_v'[c] =< heap_v'[c \div 2]
  <2> SUFFICES ASSUME NEW c \in 2..hn, c \div 2 >= Start
               PROVE  heap_v'[c] =< heap_v'[c \div 2]
    OBVIOUS
  <2>0. c \in 1..n /\ c \div 2 \in 1..n /\ c \div 2 < c
    BY <1>3
  <2>1. CASE c = h
    <3>1. h > Start /\ c \div 2 # h
      BY <1>7, <2>0, <2>1
    <3>2. temp_v =< heap_v[h \div 2]
      BY <1>1, <1>4, <3>1 DEF SiftOrder
    <3>3. heap_v'[c] = temp_v /\ heap_v'[c \div 2] = heap_v[c \div 2]
      BY <1>6, <2>0, <2>1, <3>1
    <3>4. QED
      BY <2>1, <3>2, <3>3
  <2>2. CASE c \div 2 = h
    <3>1. heap_v'[c] = heap_v[c] /\ heap_v'[h] = temp_v
      BY <1>6, <2>0, <2>2
    <3>2. heap_v[c] =< temp_v
      BY <1>4, <2>2
    <3>3. QED
      BY <2>2, <3>1, <3>2
  <2>3. CASE c # h /\ c \div 2 # h
    <3>1. heap_v'[c] = heap_v[c] /\ heap_v'[c \div 2] = heap_v[c \div 2]
      BY <1>6, <2>0, <2>3
    <3>2. heap_v[c] =< heap_v[c \div 2]
      BY <1>1, <1>4, <2>3 DEF SiftOrder
    <3>3. QED
      BY <3>1, <3>2
  <2>4. QED
    BY <2>1, <2>2, <2>3
<1>9. CASE caller = "build"
  <2>1. pc' = "build" /\ Start = i /\ hn = n
    BY <1>3, <1>5, <1>9 DEF Start
  <2>a. \A c \in 2..n : c \div 2 > i - 1 => heap_v'[c] =< heap_v'[c \div 2]
    <3> SUFFICES ASSUME NEW c \in 2..n, c \div 2 > i - 1
                 PROVE  heap_v'[c] =< heap_v'[c \div 2]
      OBVIOUS
    <3>1. c \in 2..hn /\ c \div 2 >= Start
      BY <1>3, <2>1
    <3>2. QED
      BY <1>8, <3>1
  <2>2. BuildOrder'
    BY <1>5, <2>a DEF BuildOrder
  <2>3. QED
    BY <1>2, <2>1, <2>2 DEF OrderIInv
<1>10. CASE caller = "sort"
  <2>1. pc' = "sort" /\ Start = 1 /\ hn = i - 1 /\ i' = hn
    BY <1>3, <1>5, <1>10 DEF Start
  <2>2. \A c \in 2..hn : heap_v'[c] =< heap_v'[c \div 2]
    BY <1>8, <2>1
  <2>3. \A q \in i..n : heap_v'[q] = heap_v[q]
    BY <1>3, <1>4, <1>6, <2>1
  <2>4. \A p \in 1..hn, q \in i..n : heap_v'[p] =< heap_v'[q]
    <3> SUFFICES ASSUME NEW p \in 1..hn, NEW q \in i..n
                 PROVE  heap_v'[p] =< heap_v'[q]
      OBVIOUS
    <3>1. heap_v'[p] = temp_v \/ heap_v'[p] = heap_v[p]
      BY <1>3, <1>6
    <3>2. temp_v =< heap_v[q] /\ heap_v[p] =< heap_v[q]
      BY <1>1, <1>10 DEF SiftOrder
    <3>3. QED
      BY <2>3, <3>1, <3>2
  <2>5. \A x \in i..n - 1 : heap_v'[x] =< heap_v'[x + 1]
    BY <1>1, <1>3, <1>10, <2>3 DEF SiftOrder
  <2>6. i' + 1 = i /\ n' = n /\ i' = hn
    BY <1>3, <2>1
  <2>7. SortOrder'
    BY <1>5, <2>2, <2>4, <2>5, <2>6 DEF SortOrder
  <2>8. QED
    BY <1>2, <2>1, <2>7 DEF OrderIInv
<1>11. QED
  BY <1>3, <1>9, <1>10

LEMMA SiftStopOrder ==
  ASSUME NoNaN, OrderIInv, SiftStop PROVE OrderIInv'
<1>1. HeapIInv /\ pc = "heapify" /\ j <= hn /\ Gt(temp_v, heap_v[Child])
  BY DEF OrderIInv, SiftStop
<1>2. /\ Child \in 2..hn /\ Child \div 2 = Hole
      /\ \A c \in 2..hn : c \div 2 = Hole => heap_v[c] =< heap_v[Child]
  BY <1>1, ChildMax
<1>3. /\ heap_v \in [1..n -> Int] /\ temp_v \in Int
      /\ n \in Nat /\ hn \in Nat /\ hn <= n
  BY <1>1, OrderTypes DEF HeapIInv, IndexSafe
<1>4. temp_v > heap_v[Child]
  BY <1>1 DEF Gt
<1>5. \A c \in 2..hn : c \div 2 = Hole => heap_v[c] =< temp_v
  <2> SUFFICES ASSUME NEW c \in 2..hn, c \div 2 = Hole PROVE heap_v[c] =< temp_v
    OBVIOUS
  <2>1. c \in 1..n /\ Child \in 1..n
    BY <1>2, <1>3
  <2>2. heap_v[c] \in Int /\ heap_v[Child] \in Int
    BY <1>3, <2>1
  <2>3. heap_v[c] =< heap_v[Child]
    BY <1>2
  <2>4. QED
    BY <1>3, <1>4, <2>2, <2>3
<1>6. QED
  BY <1>1, <1>2, <1>5, PlaceOrder DEF SiftStop

LEMMA SiftEndOrder ==
  ASSUME NoNaN, OrderIInv, SiftEnd PROVE OrderIInv'
<1>1. HeapIInv /\ pc = "heapify" /\ j > hn
  BY DEF OrderIInv, SiftEnd
<1>2. j \in Nat /\ hn \in Nat /\ j % 2 = 0
  BY <1>1 DEF HeapIInv, TypeOK, CallFrame
<1>3. \A c \in 2..hn : c \div 2 = Hole => heap_v[c] =< temp_v
  BY <1>1, <1>2 DEF Hole
<1>4. j \div 2 = Hole /\ Place(j) /\ UNCHANGED <<n, input, caller, hn, temp_v, temp_i>>
  BY DEF Hole, SiftEnd
<1>5. QED
  BY <1>1, <1>2, <1>3, <1>4, PlaceOrder
(* An iteration of max_heapsort: the root, a greatest entry of the heap,   *)
(* is swapped to heap[i], the head of the sorted tail, and max_heapify     *)
(* starts with the old heap[i] in temp_v and the hole at the root.         *)
LEMMA SortSwapOrder ==
  ASSUME NoNaN, OrderIInv, SortSwap PROVE OrderIInv'
<1>1. HeapIInv /\ SortOrder /\ pc = "sort" /\ 2 <= i
  BY DEF OrderIInv, SortSwap
<1>2. HeapIInv'
  BY <1>1, SortSwapIInv
<1>3. heap_v \in [1..n -> Int] /\ n \in Nat /\ i \in Nat /\ i <= n
  BY <1>1, OrderTypes DEF HeapIInv, IndexSafe
<1>4. /\ heap_v' = [heap_v EXCEPT ![i] = heap_v[1], ![1] = heap_v[i]]
      /\ temp_v' = heap_v'[1] /\ j' = 2 /\ hn' = i - 1
      /\ caller' = "sort" /\ pc' = "heapify" /\ i' = i /\ n' = n
  BY DEF SortSwap, CallHeapify
<1>5. \A x \in 1..n : heap_v'[x] = IF x = 1 THEN heap_v[i]
                                   ELSE IF x = i THEN heap_v[1] ELSE heap_v[x]
  BY <1>3, <1>4
<1>6. Start' = 1 /\ Hole' = 1 /\ temp_v' = heap_v[i]
  BY <1>1, <1>3, <1>4, <1>5 DEF Start, Hole
<1>7. \A x \in 1..i : heap_v[x] =< heap_v[1]
  <2>1. \A x \in 1..i : heap_v[x] \in Int
    BY <1>3
  <2>2. \A c \in 2..i : heap_v[c] =< heap_v[c \div 2]
    BY <1>1 DEF SortOrder
  <2>3. QED
    BY <1>3, <2>1, <2>2, RootMax
<1>8. \A x \in 1..i, q \in i..n : heap_v[x] =< heap_v'[q]
  <2> SUFFICES ASSUME NEW x \in 1..i, NEW q \in i..n
               PROVE  heap_v[x] =< heap_v'[q]
    OBVIOUS
  <2>1. CASE q = i
    BY <1>3, <1>5, <1>7, <2>1
  <2>2. CASE q # i
    <3>1. heap_v'[q] = heap_v[q] /\ q \in i + 1..n
      BY <1>1, <1>3, <1>5, <2>2
    <3>2. QED
      BY <1>1, <3>1 DEF SortOrder
  <2>3. QED
    BY <2>1, <2>2
<1>9. \A c \in 2..i - 1 : c \div 2 >= 1 /\ c \div 2 # 1 /\ c # 1
                           => heap_v'[c] =< heap_v'[c \div 2]
  <2> SUFFICES ASSUME NEW c \in 2..i - 1, c \div 2 # 1
               PROVE  heap_v'[c] =< heap_v'[c \div 2]
    OBVIOUS
  <2>1. c \div 2 \in 2..i - 1
    BY <1>3
  <2>2. heap_v'[c] = heap_v[c] /\ heap_v'[c \div 2] = heap_v[c \div 2]
    BY <1>3, <1>5, <2>1
  <2>3. heap_v[c] =< heap_v[c \div 2]
    BY <1>1, <1>3 DEF SortOrder
  <2>4. QED
    BY <2>2, <2>3
<1>10. \A k \in i..n - 1 : heap_v'[k] =< heap_v'[k + 1]
  <2> SUFFICES ASSUME NEW k \in i..n - 1 PROVE heap_v'[k] =< heap_v'[k + 1]
    OBVIOUS
  <2>1. heap_v'[k + 1] = heap_v[k + 1] /\ k + 1 \in i + 1..n
    BY <1>1, <1>3, <1>5
  <2>2. CASE k = i
    <3>1. heap_v'[k] = heap_v[1]
      BY <1>1, <1>3, <1>5, <2>2
    <3>2. heap_v[1] =< heap_v[k + 1]
      BY <1>1, <1>3, <2>1 DEF SortOrder
    <3>3. QED
      BY <2>1, <3>1, <3>2
  <2>3. CASE k # i
    <3>1. heap_v'[k] = heap_v[k] /\ k \in i + 1..n - 1
      BY <1>1, <1>3, <1>5, <2>3
    <3>2. QED
      BY <2>1, <3>1, <1>1 DEF SortOrder
  <2>4. QED
    BY <2>2, <2>3
<1>11. \A p \in 1..i - 1, q \in i..n : heap_v'[p] =< heap_v'[q]
  <2> SUFFICES ASSUME NEW p \in 1..i - 1, NEW q \in i..n
               PROVE  heap_v'[p] =< heap_v'[q]
    OBVIOUS
  <2>1. PICK x \in 1..i : heap_v'[p] = heap_v[x]
    BY <1>3, <1>5
  <2>2. QED
    BY <1>8, <2>1
<1>12. \A q \in i..n : heap_v[i] =< heap_v'[q]
  BY <1>1, <1>3, <1>8
<1>13. SiftOrder'
  <2>1. (Start <= Hole)'
    BY <1>6
  <2>2. (\A c \in 2..hn : c \div 2 >= Start /\ c \div 2 # Hole /\ c # Hole
                          => heap_v[c] =< heap_v[c \div 2])'
    BY <1>4, <1>6, <1>9
  <2>3. (Hole > Start =>
           /\ temp_v =< heap_v[Hole \div 2]
           /\ \A c \in 2..hn : c \div 2 = Hole => heap_v[c] =< heap_v[Hole \div 2])'
    BY <1>6
  <2>4. (caller = "sort" =>
           /\ \A k \in i..n - 1 : heap_v[k] =< heap_v[k + 1]
           /\ \A p \in 1..hn, q \in i..n : heap_v[p] =< heap_v[q]
           /\ \A q \in i..n : temp_v =< heap_v[q])'
    BY <1>4, <1>6, <1>10, <1>11, <1>12
  <2>5. QED
    BY <2>1, <2>2, <2>3, <2>4 DEF SiftOrder
<1>14. QED
  BY <1>2, <1>4, <1>13 DEF OrderIInv
(* Without NaN, max_heapify never stalls.                                  *)
LEMMA SiftStallOrder ==
  ASSUME NoNaN, OrderIInv, SiftStall PROVE OrderIInv'
BY NoStall DEF OrderIInv

LEMMA StutterOrder ==
  ASSUME OrderIInv, UNCHANGED vars PROVE OrderIInv'
<1>1. /\ n' = n /\ input' = input /\ heap_v' = heap_v /\ heap_i' = heap_i
      /\ pc' = pc /\ caller' = caller /\ i' = i /\ j' = j /\ hn' = hn
      /\ temp_v' = temp_v /\ temp_i' = temp_i
  BY DEF vars
<1>2. HeapIInv'
  BY <1>1 DEF OrderIInv, HeapIInv, TypeOK, IndexSafe, CallFrame
<1>3. Start' = Start /\ Hole' = Hole
  BY <1>1 DEF Start, Hole
<1>4. /\ BuildOrder' = BuildOrder /\ SortOrder' = SortOrder
      /\ SiftOrder' = SiftOrder /\ DoneOrder' = DoneOrder
  BY <1>1, <1>3 DEF BuildOrder, SortOrder, SiftOrder, DoneOrder
<1>5. QED
  BY <1>1, <1>2, <1>4 DEF OrderIInv

-----------------------------------------------------------------------------
(* On NaN-free input OrderIInv holds in every state of maxheapsort, for    *)
(* every n: build_maxheap, max_heapsort and the sift-down loop of          *)
(* max_heapify each keep the heap order of their phase.                    *)
THEOREM HeapOrderInvariant == NoNaN => (Spec => []OrderIInv)
<1> SUFFICES ASSUME NoNaN PROVE Spec => []OrderIInv
  OBVIOUS
<1>1. Init => OrderIInv
  BY InitOrder
<1>2. OrderIInv /\ [Next]_vars => OrderIInv'
  <2> SUFFICES ASSUME OrderIInv, [Next]_vars PROVE OrderIInv'
    OBVIOUS
  <2>1. CASE BuildHeap
    BY <2>1, BuildHeapOrder
  <2>2. CASE BuildDone
    BY <2>2, BuildDoneOrder
  <2>3. CASE SortSwap
    BY <2>3, SortSwapOrder
  <2>4. CASE SortDone
    BY <2>4, SortDoneOrder
  <2>5. CASE SiftDown
    BY <2>5, SiftDownOrder
  <2>6. CASE SiftStop
    BY <2>6, SiftStopOrder
  <2>7. CASE SiftStall
    BY <2>7, SiftStallOrder
  <2>8. CASE SiftEnd
    BY <2>8, SiftEndOrder
  <2>9. CASE UNCHANGED vars
    BY <2>9, StutterOrder
  <2>10. QED
    BY <2>1, <2>2, <2>3, <2>4, <2>5, <2>6, <2>7, <2>8, <2>9 DEF Next
<1>3. QED
  BY <1>1, <1>2, PTL DEF Spec

(* The int orders of OrderIInv are the double comparisons of HeapOrdered   *)
(* and SortedOnExit when no entry is NaN.                                  *)
LEMMA OrderProperties ==
  ASSUME NoNaN, OrderIInv PROVE HeapOrdered /\ SortedOnExit
<1>1. HeapIInv /\ heap_v \in [1..n -> Values] /\ n \in Nat /\ i \in Nat
  BY DEF OrderIInv, HeapIInv, TypeOK
<1>2. \A a, b \in 1..n : heap_v[a] =< heap_v[b] =>
                           ~Gt(heap_v[a], heap_v[b]) /\ Le(heap_v[a], heap_v[b])
  <2> SUFFICES ASSUME NEW a \in 1..n, NEW b \in 1..n, heap_v[a] =< heap_v[b]
               PROVE  ~Gt(heap_v[a], heap_v[b]) /\ Le(heap_v[a], heap_v[b])
    OBVIOUS
  <2>1. heap_v[a] \in Values /\ heap_v[b] \in Values
    BY <1>1
  <2>2. QED
    BY <2>1, CompareInts
<1>3. pc = "build" => \A c \in 2..n : c \div 2 > i => ~Gt(heap_v[c], heap_v[c \div 2])
  <2> SUFFICES ASSUME pc = "build", NEW c \in 2..n, c \div 2 > i
               PROVE  ~Gt(heap_v[c], heap_v[c \div 2])
    OBVIOUS
  <2>1. heap_v[c] =< heap_v[c \div 2] /\ c \div 2 \in 1..n
    BY <1>1 DEF OrderIInv, BuildOrder
  <2>2. QED
    BY <1>2, <2>1
<1>4. pc = "sort" =>
        /\ \A c \in 2..i : ~Gt(heap_v[c], heap_v[c \div 2])
        /\ \A p \in 1..i, q \in i + 1..n : ~Gt(heap_v[p], heap_v[q])
        /\ \A k \in i + 1..n - 1 : ~Gt(heap_v[k], heap_v[k + 1])
  <2> SUFFICES ASSUME pc = "sort"
               PROVE  /\ \A c \in 2..i : ~Gt(heap_v[c], heap_v[c \div 2])
                      /\ \A p \in 1..i, q \in i + 1..n : ~Gt(heap_v[p], heap_v[q])
                      /\ \A k \in i + 1..n - 1 : ~Gt(heap_v[k], heap_v[k + 1])
    OBVIOUS
  <2>0. SortOrder /\ i <= n
    BY <1>1 DEF OrderIInv, HeapIInv, IndexSafe
  <2>1. \A c \in 2..i : ~Gt(heap_v[c], heap_v[c \div 2])
    <3> SUFFICES ASSUME NEW c \in 2..i PROVE ~Gt(heap_v[c], heap_v[c \div 2])
      OBVIOUS
    <3>1. c \in 1..n /\ c \div 2 \in 1..n /\ heap_v[c] =< heap_v[c \div 2]
      BY <1>1, <2>0 DEF SortOrder
    <3>2. QED
      BY <1>2, <3>1
  <2>2. \A p \in 1..i, q \in i + 1..n : ~Gt(heap_v[p], heap_v[q])
    <3> SUFFICES ASSUME NEW p \in 1..i, NEW q \in i + 1..n
                 PROVE  ~Gt(heap_v[p], heap_v[q])
      OBVIOUS
    <3>1. p \in 1..n /\ q \in 1..n /\ heap_v[p] =< heap_v[q]
      BY <1>1, <2>0 DEF SortOrder
    <3>2. QED
      BY <1>2, <3>1
  <2>3. \A k \in i + 1..n - 1 : ~Gt(heap_v[k], heap_v[k + 1])
    <3> SUFFICES ASSUME NEW k \in i + 1..n - 1 PROVE ~Gt(heap_v[k], heap_v[k + 1])
      OBVIOUS
    <3>1. k \in 1..n /\ k + 1 \in 1..n /\ heap_v[k] =< heap_v[k + 1]
      BY <1>1, <2>0 DEF SortOrder
    <3>2. QED
      BY <1>2, <3>1
  <2>4. QED
    BY <2>1, <2>2, <2>3
<1>5. SortedOnExit
  <2> SUFFICES ASSUME pc = "done", NEW k \in 1..n - 1
               PROVE  Le(heap_v[k], heap_v[k + 1])
    BY DEF SortedOnExit
  <2>1. k \in 1..n /\ k + 1 \in 1..n /\ heap_v[k] =< heap_v[k + 1]
    BY <1>1 DEF OrderIInv, DoneOrder
  <2>2. QED
    BY <1>2, <2>1
<1>6. QED
  BY <1>3, <1>4, <1>5 DEF HeapOrdered

(* On NaN-free input, between two calls of max_heapify, the subtrees       *)
(* build_maxheap has heapified are heaps, and in max_heapsort heap[1..i]   *)
(* is a heap below the sorted tail heap[i+1..n], for every n.              *)
THEOREM HeapSortOrdered == NoNaN => (Spec => []HeapOrdered)
<1> SUFFICES ASSUME NoNaN PROVE Spec => []HeapOrdered
  OBVIOUS
<1>1. OrderIInv => HeapOrdered
  BY OrderProperties
<1>2. QED
  BY <1>1, HeapOrderInvariant, PTL

(* On NaN-free input maxheapsort returns heap_v[1..n] in increasing order, *)
(* for every n.                                                            *)
THEOREM HeapSortSorts == NoNaN => (Spec => []SortedOnExit)
<1> SUFFICES ASSUME NoNaN PROVE Spec => []SortedOnExit
  OBVIOUS
<1>1. OrderIInv => SortedOnExit
  BY OrderProperties
<1>2. QED
  BY <1>1, HeapOrderInvariant, PTL
-----------------------------------------------------------------------------
(***************************************************************************)
(* maxheapsort implements SortSpec.                                        *)
(***************************************************************************)

(* The safety part of Sorting!Spec.                                        *)
SortingSafety == Sorting!Init /\ [][Sorting!Next]_Sorting!vars

(* Between the loops, where no entry is held in temp_v, PairsConserved     *)
(* says that heap_i is a rearrangement of 1..n and that heap_v is the      *)
(* input read through it.                                                  *)
LEMMA PairsRearrange ==
  ASSUME HeapIInv, PairsConserved, pc \notin {"heapify", "hang"}
  PROVE  /\ heap_i \in Sorting!Rearrangements
         /\ heap_v = Sorting!Rearranged(heap_i)
<1>1. heap_v \in [1..n -> Values] /\ heap_i \in [1..n -> 1..n]
      /\ input \in [1..n -> Values]
  BY DEF HeapIInv, TypeOK
<1>2. {<<heap_v[k], heap_i[k]>> : k \in 1..n} = {<<input[k], k>> : k \in 1..n}
  BY DEF PairsConserved, Entry
<1>3. \A k \in 1..n : heap_v[k] = input[heap_i[k]]
  <2> SUFFICES ASSUME NEW k \in 1..n PROVE heap_v[k] = input[heap_i[k]]
    OBVIOUS
  <2>1. \E m \in 1..n : <<heap_v[k], heap_i[k]>> = <<input[m], m>>
    BY <1>2
  <2>2. QED
    BY <2>1
<1>4. 1..n \subseteq {heap_i[k] : k \in 1..n}
  <2> SUFFICES ASSUME NEW m \in 1..n PROVE \E k \in 1..n : heap_i[k] = m
    OBVIOUS
  <2>1. \E k \in 1..n : <<heap_v[k], heap_i[k]>> = <<input[m], m>>
    BY <1>2
  <2>2. QED
    BY <2>1
<1>5. {heap_i[k] : k \in 1..n} \subseteq 1..n
  BY <1>1
<1>6. QED
  BY <1>1, <1>3, <1>4, <1>5 DEF Sorting!Rearrangements, Sorting!Rearranged

(* The return of maxheapsort is the step Sort of SortSpec.                 *)
LEMMA SortDoneSorts ==
  ASSUME NoNaN, OrderIInv, PairsConserved, SortDone, OrderIInv'
  PROVE  Sorting!Sort
<1>1. pc = "sort" /\ pc' = "done"
      /\ UNCHANGED <<n, input, heap_v, heap_i>>
  BY DEF SortDone
<1>2. heap_i \in Sorting!Rearrangements /\ heap_v = Sorting!Rearranged(heap_i)
  BY <1>1, PairsRearrange DEF OrderIInv
<1>3. \A k \in 1..n - 1 : heap_v[k] =< heap_v[k + 1]
  BY <1>1 DEF OrderIInv, DoneOrder
<1>4. QED
  BY <1>1, <1>2, <1>3 DEF Sorting!Sort, Sorting!Ordered

(* Every other step of maxheapsort happens before the return, and leaves  *)
(* n, input and the caller's view unchanged.                               *)
LEMMA HiddenSteps ==
  ASSUME TypeOK,
         BuildHeap \/ BuildDone \/ SortSwap \/ SiftDown \/ SiftStop
           \/ SiftStall \/ SiftEnd
  PROVE  /\ pc # "done" /\ pc' # "done"
         /\ UNCHANGED <<n, input>>
<1>1. caller \in {"build", "sort"}
  BY DEF TypeOK
<1>2. QED
  BY <1>1 DEF BuildHeap, BuildDone, SortSwap, SiftDown, SiftStop, SiftStall,
              SiftEnd, CallHeapify, Place

(* On NaN-free input maxheapsort implements SortSpec, for every MaxN and   *)
(* every set of values: before it returns the caller sees its input, and   *)
(* the return hands back heap_v[1..n] as the input rearranged in           *)
(* nondecreasing order.  The refinement mapping is the one of Sorting in   *)
(* HeapSort; the fairness part of RefinesSorting is left to TLC.           *)
THEOREM HeapRefinesSorting == NoNaN => (Spec => SortingSafety)
<1> SUFFICES ASSUME NoNaN PROVE Spec => SortingSafety
  OBVIOUS
<1>1. Init => Sorting!Init
  BY DEF Init, Sorting!Init
<1>2. OrderIInv /\ PairsConserved /\ [Next]_vars /\ OrderIInv'
        => [Sorting!Next]_Sorting!vars
  <2> SUFFICES ASSUME OrderIInv, PairsConserved, [Next]_vars, OrderIInv'
               PROVE  [Sorting!Next]_Sorting!vars
    OBVIOUS
  <2>1. CASE SortDone
    BY <2>1, SortDoneSorts DEF Sorting!Next
  <2>2. CASE BuildHeap \/ BuildDone \/ SortSwap \/ SiftDown \/ SiftStop
               \/ SiftStall \/ SiftEnd
    <3>1. TypeOK
      BY DEF OrderIInv, HeapIInv
    <3>2. QED
      BY <2>2, <3>1, HiddenSteps DEF Sorting!vars
  <2>3. CASE UNCHANGED vars
    BY <2>3 DEF vars, Sorting!vars
  <2>4. QED
    BY <2>1, <2>2, <2>3 DEF Next
<1>3. QED
  BY <1>1, <1>2, HeapOrderInvariant, HeapPairsConserved, PTL
     DEF Spec, SortingSafety
=============================================================================
