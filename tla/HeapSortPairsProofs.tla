------------------------- MODULE HeapSortPairsProofs ------------------------
(***************************************************************************)
(* Proof that maxheapsort(heap_v, heap_i, n) keeps every value paired with *)
(* the index it came in with, for every n and every set of doubles, NaN    *)
(* included.  Each step of the three loops either leaves the entries as    *)
(* they are, counting the one max_heapify holds in temp_v/temp_i as the    *)
(* one in its hole, or exchanges two of them: the swap of heap[1] and      *)
(* heap[i] in max_heapsort, and the move of the hole from heap[j/2] down   *)
(* to the child heap[j] in max_heapify.                                    *)
(***************************************************************************)
EXTENDS HeapSortProofs

(* The entries as an array: Entry(k) for every position k of heap[1..n].  *)
Ent == [k \in 1..n |-> Entry(k)]

PairsIInv == HeapIInv /\ PairsConserved

-----------------------------------------------------------------------------
(* Exchanging the values of two places of an array does not change the set *)
(* of its values.                                                          *)
LEMMA SwapImage ==
  ASSUME NEW S, NEW f, NEW g, NEW a \in S, NEW b \in S,
         g[a] = f[b], g[b] = f[a], \A k \in S \ {a, b} : g[k] = f[k]
  PROVE  {g[k] : k \in S} = {f[k] : k \in S}
<1>1. \A k \in S : \E m \in S : g[k] = f[m]
  OBVIOUS
<1>2. \A m \in S : \E k \in S : f[m] = g[k]
  OBVIOUS
<1>3. QED
  BY <1>1, <1>2

(* A step that keeps n and input, and whose entries are those of the state *)
(* before it with two places a and b exchanged, keeps PairsConserved.      *)
LEMMA PairsStep ==
  ASSUME PairsConserved, n' = n, input' = input,
         NEW a \in 1..n, NEW b \in 1..n,
         Entry(a)' = Entry(b), Entry(b)' = Entry(a),
         \A k \in (1..n) \ {a, b} : Entry(k)' = Entry(k)
  PROVE  PairsConserved'
<1>1. {Ent'[k] : k \in 1..n} = {Ent[k] : k \in 1..n}
  <2>1. /\ Ent'[a] = Ent[b] /\ Ent'[b] = Ent[a]
        /\ \A k \in (1..n) \ {a, b} : Ent'[k] = Ent[k]
    BY DEF Ent
  <2>2. QED
    BY <2>1, SwapImage
<1>2. {Entry(k)' : k \in 1..n} = {Entry(k) : k \in 1..n}
  BY <1>1 DEF Ent
<1>3. QED
  BY <1>2 DEF PairsConserved

(* A step that keeps n and input and moves no entry keeps PairsConserved.  *)
LEMMA PairsSame ==
  ASSUME PairsConserved, n' = n, input' = input,
         \A k \in 1..n : Entry(k)' = Entry(k)
  PROVE  PairsConserved'
BY DEF PairsConserved

-----------------------------------------------------------------------------
(***************************************************************************)
(* One lemma per action: how it moves the entries.                         *)
(***************************************************************************)

(* The first call of max_heapify from a loop saves heap[start] in the      *)
(* temporaries and leaves its hole there: no entry moves.                  *)
LEMMA BuildHeapPairs == PairsIInv /\ BuildHeap => PairsConserved'
<1> SUFFICES ASSUME PairsIInv, BuildHeap PROVE PairsConserved'
  OBVIOUS
<1>1. /\ pc = "build" /\ 1 <= i /\ i <= n \div 2 /\ n \in Nat /\ i \in Nat
  BY DEF PairsIInv, HeapIInv, TypeOK, BuildHeap
<1>2. /\ heap_v' = heap_v /\ heap_i' = heap_i
      /\ temp_v' = heap_v[i] /\ temp_i' = heap_i[i]
      /\ j' = 2 * i /\ pc' = "heapify" /\ n' = n /\ input' = input
  BY DEF BuildHeap, CallHeapify
<1>3. \A k \in 1..n : Entry(k)' = Entry(k)
  BY <1>1, <1>2 DEF Entry
<1>4. PairsConserved
  BY DEF PairsIInv
<1>5. QED
  BY <1>2, <1>3, <1>4, PairsSame

(* max_heapsort swaps heap[1] with heap[i] and calls max_heapify(.., 1,    *)
(* i - 1), whose hole is heap[1]: entries 1 and i are exchanged.           *)
LEMMA SortSwapPairs == PairsIInv /\ SortSwap => PairsConserved'
<1> SUFFICES ASSUME PairsIInv, SortSwap PROVE PairsConserved'
  OBVIOUS
<1>0. TypeOK /\ IndexSafe /\ pc = "sort" /\ 2 <= i
  BY DEF PairsIInv, HeapIInv, SortSwap
<1>1. /\ pc = "sort" /\ 2 <= i /\ i <= n /\ n \in Nat /\ i \in Nat
      /\ heap_v \in [1..n -> Values] /\ heap_i \in [1..n -> 1..n]
  BY <1>0 DEF TypeOK, IndexSafe
<1> DEFINE sv == [heap_v EXCEPT ![i] = heap_v[1], ![1] = heap_v[i]]
           si == [heap_i EXCEPT ![i] = heap_i[1], ![1] = heap_i[i]]
<1>2. /\ heap_v' = sv /\ heap_i' = si
      /\ temp_v' = sv[1] /\ temp_i' = si[1]
      /\ j' = 2 /\ pc' = "heapify" /\ n' = n /\ input' = input
  BY DEF SortSwap, CallHeapify
<1>3. 1 \in 1..n /\ i \in 1..n /\ i # 1
  BY <1>1
<1>4. /\ sv[1] = heap_v[i] /\ si[1] = heap_i[i]
      /\ sv[i] = heap_v[1] /\ si[i] = heap_i[1]
      /\ \A k \in (1..n) \ {1, i} : sv[k] = heap_v[k] /\ si[k] = heap_i[k]
  BY <1>1, <1>3
<1>5. j' \div 2 = 1 /\ pc' \in {"heapify", "hang"} /\ pc \notin {"heapify", "hang"}
  BY <1>1, <1>2
<1>6. PICK m \in 1..n : m = i
  BY <1>3
<1>7. Entry(1)' = Entry(m)
  BY <1>2, <1>4, <1>5, <1>6 DEF Entry
<1>8. Entry(m)' = Entry(1)
  BY <1>2, <1>3, <1>4, <1>5, <1>6 DEF Entry
<1>9. \A k \in (1..n) \ {1, m} : Entry(k)' = Entry(k)
  BY <1>2, <1>4, <1>5, <1>6 DEF Entry
<1>10. PairsConserved
  BY DEF PairsIInv
<1>11. QED
  BY <1>2, <1>3, <1>6, <1>7, <1>8, <1>9, <1>10, PairsStep

(* A step of max_heapify moves the child heap[c] up into the hole          *)
(* heap[j/2] and the hole down to heap[c]: entries j/2 and c are           *)
(* exchanged, the saved entry now counting as the one at c.                *)
LEMMA SiftDownPairs == PairsIInv /\ SiftDown => PairsConserved'
<1> SUFFICES ASSUME PairsIInv, SiftDown PROVE PairsConserved'
  OBVIOUS
<1>1. /\ pc = "heapify" /\ j <= hn /\ 1 <= j \div 2 /\ hn <= n
      /\ n \in Nat /\ j \in Nat /\ hn \in Nat /\ j % 2 = 0
      /\ heap_v \in [1..n -> Values] /\ heap_i \in [1..n -> 1..n]
  BY DEF PairsIInv, HeapIInv, TypeOK, IndexSafe, CallFrame, SiftDown
<1>2. Child \in {j, j + 1} /\ Child <= hn /\ Child \div 2 = j \div 2
  BY <1>1, ChildFacts
<1>3. PICK h \in 1..n : h = j \div 2
  BY <1>1
<1>4. PICK c \in 1..n : c = Child
  BY <1>1, <1>2
<1>5. c # h /\ c \div 2 = h
  BY <1>1, <1>2, <1>3, <1>4
<1>6. /\ heap_v' = [heap_v EXCEPT ![h] = heap_v[c]]
      /\ heap_i' = [heap_i EXCEPT ![h] = heap_i[c]]
      /\ j' = 2 * c /\ pc' = "heapify"
      /\ temp_v' = temp_v /\ temp_i' = temp_i
      /\ n' = n /\ input' = input
  BY <1>3, <1>4, <1>5 DEF SiftDown
<1>7. j' \div 2 = c /\ pc \in {"heapify", "hang"} /\ pc' \in {"heapify", "hang"}
  BY <1>1, <1>6
<1>8. Entry(h)' = Entry(c)
  <2>1. heap_v'[h] = heap_v[c] /\ heap_i'[h] = heap_i[c]
    BY <1>1, <1>6
  <2>2. Entry(h)' = <<heap_v'[h], heap_i'[h]>>
    BY <1>5, <1>7 DEF Entry
  <2>3. Entry(c) = <<heap_v[c], heap_i[c]>>
    BY <1>3, <1>5 DEF Entry
  <2>4. QED
    BY <2>1, <2>2, <2>3
<1>9. Entry(c)' = Entry(h)
  BY <1>3, <1>6, <1>7 DEF Entry
<1>10. \A k \in (1..n) \ {h, c} : Entry(k)' = Entry(k)
  <2> SUFFICES ASSUME NEW k \in (1..n) \ {h, c} PROVE Entry(k)' = Entry(k)
    OBVIOUS
  <2>1. heap_v'[k] = heap_v[k] /\ heap_i'[k] = heap_i[k]
    BY <1>1, <1>6
  <2>2. QED
    BY <1>3, <1>7, <2>1 DEF Entry
<1>11. PairsConserved
  BY DEF PairsIInv
<1>12. QED
  BY <1>6, <1>8, <1>9, <1>10, <1>11, PairsStep

(* The return of max_heapify puts the saved entry into its hole: no entry  *)
(* moves.                                                                  *)
LEMMA PlacePairs ==
  ASSUME PairsIInv, pc = "heapify", NEW k \in Nat, k \div 2 = j \div 2,
         Place(k), UNCHANGED <<n, input, caller, hn, temp_v, temp_i>>
  PROVE  PairsConserved'
<1>1. /\ 1 <= j \div 2 /\ j \div 2 <= n /\ n \in Nat
      /\ heap_v \in [1..n -> Values] /\ heap_i \in [1..n -> 1..n]
      /\ caller \in {"build", "sort"}
  BY DEF PairsIInv, HeapIInv, TypeOK, IndexSafe
<1>2. /\ heap_v' = [heap_v EXCEPT ![j \div 2] = temp_v]
      /\ heap_i' = [heap_i EXCEPT ![j \div 2] = temp_i]
      /\ pc' = caller /\ n' = n /\ input' = input
      /\ temp_v' = temp_v /\ temp_i' = temp_i
  BY DEF Place
<1>3. pc' \notin {"heapify", "hang"}
  BY <1>1, <1>2
<1>4. \A p \in 1..n : Entry(p)' = Entry(p)
  BY <1>1, <1>2, <1>3 DEF Entry
<1>5. 1 \in 1..n
  BY <1>1
<1>6. PairsConserved
  BY DEF PairsIInv
<1>7. QED
  BY <1>2, <1>4, <1>6, PairsSame

LEMMA SiftStopPairs == PairsIInv /\ SiftStop => PairsConserved'
<1> SUFFICES ASSUME PairsIInv, SiftStop PROVE PairsConserved'
  OBVIOUS
<1>1. j \in Nat /\ hn \in Nat /\ j <= hn /\ j % 2 = 0 /\ pc = "heapify"
  BY DEF PairsIInv, HeapIInv, TypeOK, CallFrame, SiftStop
<1>2. Child \in Nat /\ Child \div 2 = j \div 2
  BY <1>1, ChildFacts
<1>3. QED
  BY <1>1, <1>2, PlacePairs DEF SiftStop

LEMMA SiftEndPairs == PairsIInv /\ SiftEnd => PairsConserved'
<1> SUFFICES ASSUME PairsIInv, SiftEnd PROVE PairsConserved'
  OBVIOUS
<1>1. j \in Nat /\ pc = "heapify"
  BY DEF PairsIInv, HeapIInv, TypeOK, SiftEnd
<1>2. QED
  BY <1>1, PlacePairs DEF SiftEnd

(* The loop exits, the endless loop on NaN, and a stutter move nothing.    *)
LEMMA QuietPairs ==
  ASSUME PairsIInv,
         BuildDone \/ SortDone \/ SiftStall \/ UNCHANGED vars
  PROVE  PairsConserved'
<1>1. \A k \in 1..n : Entry(k)' = Entry(k)
  BY DEF BuildDone, SortDone, SiftStall, vars, Entry
<1>2. n' = n /\ input' = input
  BY DEF BuildDone, SortDone, SiftStall, vars
<1>3. QED
  BY <1>1, <1>2 DEF PairsIInv, PairsConserved

-----------------------------------------------------------------------------
LEMMA InitPairs == Init => PairsConserved
BY DEF Init, PairsConserved, Entry

(* maxheapsort never loses, duplicates or re-pairs a value: at every point *)
(* of build_maxheap, max_heapsort and max_heapify, the entries of          *)
(* heap_v/heap_i, with the one held in temp_v/temp_i, are exactly the      *)
(* caller's values each with its original index, for every n and every     *)
(* set of doubles, NaN included.                                           *)
THEOREM HeapPairsConserved == Spec => []PairsConserved
<1>1. Init => PairsIInv
  BY InitHeapIInv, InitPairs DEF PairsIInv
<1>2. PairsIInv /\ [Next]_vars => PairsIInv'
  <2> SUFFICES ASSUME PairsIInv, [Next]_vars PROVE PairsIInv'
    OBVIOUS
  <2>1. HeapIInv'
    <3>1. HeapIInv
      BY DEF PairsIInv
    <3>2. QED
      BY <3>1, BuildHeapIInv, BuildDoneIInv, SortSwapIInv, SortDoneIInv,
         SiftDownIInv, SiftStopIInv, SiftStallIInv, SiftEndIInv
      DEF Next, vars, HeapIInv, TypeOK, IndexSafe, CallFrame
  <2>2. PairsConserved'
    BY BuildHeapPairs, SortSwapPairs, SiftDownPairs, SiftStopPairs,
       SiftEndPairs, QuietPairs DEF Next
  <2>3. QED
    BY <2>1, <2>2 DEF PairsIInv
<1>3. QED
  BY <1>1, <1>2, PTL DEF Spec, PairsIInv
=============================================================================
