------------------------ MODULE IncreasingSetOkProofs ------------------------
(***************************************************************************)
(* Proof that increasing_set_ok never accepts an array that is out of      *)
(* order or out of its bounds, for every set_num_entries bound and every  *)
(* set of entry values, as long as no NaN is among them: the int overload, *)
(* and the double overload on NaN-free data.                               *)
(***************************************************************************)
EXTENDS IncreasingSetOk, TLAPS

(* No entry, bound or sentinel is NaN.                                     *)
NoNaN == NaN \notin Entries \cup {Lowest}

(***************************************************************************)
(* AcceptedOnlyIfOk speaks only of the return; the loop keeps it true      *)
(* because of what it has checked so far.  In the loop, set[0..k-1] has    *)
(* been found increasing and, with check_bounds, within the bounds, and    *)
(* previous_entry is the last entry checked (or the first lower bound).    *)
(***************************************************************************)
LoopInv ==
  /\ num >= 0 /\ set # NULL
  /\ k <= num
  /\ checkBounds = Le(lower, upper)
  /\ previous = IF k = 0 THEN (IF checkBounds THEN lower ELSE Lowest)
                         ELSE set[k - 1]
  /\ \A i \in 0..k - 2 : set[i] <= set[i + 1]
  /\ checkBounds => \A i \in 0..k - 1 : lower <= set[i] /\ set[i] <= upper

IncSetIInv ==
  /\ TypeOK
  /\ pc = "entry" => k = 0
  /\ pc = "loop" => LoopInv
  /\ AcceptedOnlyIfOk

-----------------------------------------------------------------------------
USE IncreasingSetOkAssumption

LEMMA InitIInv == Init => IncSetIInv
<1> SUFFICES ASSUME Init PROVE IncSetIInv
  OBVIOUS
<1>1. k \in 0..NumMax
  BY DEF Init
<1>2. TypeOK
  BY <1>1, Zenon DEF Init, TypeOK
<1>3. QED
  BY <1>2 DEF Init, IncSetIInv, AcceptedOnlyIfOk

(* TypeOK after a step, from the type of each variable the step sets.     *)
LEMMA TypeStep ==
  ASSUME TypeOK, UNCHANGED <<set, num, lower, upper>>,
         checkBounds' \in BOOLEAN, previous' \in Entries \cup {Lowest},
         k' \in 0..NumMax, pc' \in {"entry", "loop", "done"},
         result' \in BOOLEAN
  PROVE  TypeOK'
  BY Zenon DEF TypeOK

LEMMA EnterIInv ==
  ASSUME NoNaN, IncSetIInv, Enter PROVE IncSetIInv'
<1>0. /\ previous \in Entries \cup {Lowest} /\ k = 0 /\ k \in 0..NumMax
      /\ lower \in Entries /\ checkBounds \in BOOLEAN /\ num \in Int
      /\ UNCHANGED <<set, num, lower, upper, k>>
  BY DEF IncSetIInv, TypeOK, Enter
<1>1. CASE num < 0 \/ set = NULL
  <2>1. /\ pc' = "done" /\ result' = FALSE
        /\ UNCHANGED <<checkBounds, previous>>
    BY <1>0, <1>1 DEF Enter
  <2>2. /\ checkBounds' \in BOOLEAN /\ previous' \in Entries \cup {Lowest}
        /\ k' \in 0..NumMax /\ pc' \in {"entry", "loop", "done"}
        /\ result' \in BOOLEAN
    BY <1>0, <2>1, Zenon
  <2>3. TypeOK'
    BY <1>0, <2>2, TypeStep DEF IncSetIInv
  <2>4. QED
    BY <2>1, <2>3 DEF IncSetIInv, AcceptedOnlyIfOk
<1>2. CASE num >= 0 /\ set # NULL
  <2>1. /\ checkBounds' = Le(lower, upper)
        /\ previous' = IF Le(lower, upper) THEN lower ELSE Lowest
        /\ pc' = "loop" /\ UNCHANGED result
    BY <1>0, <1>2 DEF Enter
  <2>2. /\ checkBounds' \in BOOLEAN /\ previous' \in Entries \cup {Lowest}
        /\ k' \in 0..NumMax /\ pc' \in {"entry", "loop", "done"}
        /\ result' \in BOOLEAN
    BY <1>0, <2>1 DEF Le, IncSetIInv, TypeOK
  <2>5. TypeOK'
    BY <1>0, <2>2, TypeStep DEF IncSetIInv
  <2>3. LoopInv'
    BY <1>0, <1>2, <2>1 DEF LoopInv
  <2>4. QED
    BY <2>1, <2>5, <2>3 DEF IncSetIInv, AcceptedOnlyIfOk
<1>3. QED
  BY <1>0, <1>1, <1>2

(* Under NoNaN the entries are integers and none of them is NaN.          *)
LEMMA EntriesInt ==
  ASSUME NoNaN
  PROVE  /\ Entries \cup {Lowest} \subseteq Int
         /\ \A e \in Entries \cup {Lowest} : e # NaN
  BY DEF NoNaN

(* The facts about the loop state that every step of the loop uses.        *)
LEMMA LoopFacts ==
  ASSUME NoNaN, TypeOK, LoopInv
  PROVE  /\ num \in Nat /\ k \in 0..num
         /\ set \in [0..num - 1 -> Entries]
         /\ lower \in Int /\ upper \in Int /\ previous \in Int
<1>1. set \in [0..num - 1 -> Entries]
  BY Zenon DEF TypeOK, LoopInv
<1>2. QED
  BY <1>1, EntriesInt DEF TypeOK, LoopInv

LEMMA ExitIInv ==
  ASSUME NoNaN, IncSetIInv, Exit PROVE IncSetIInv'
<1> SUFFICES ASSUME TypeOK, LoopInv, Exit PROVE IncSetIInv'
  BY DEF IncSetIInv, Exit
<1>1. /\ num \in Nat /\ k = num
      /\ set \in [0..num - 1 -> Entries]
      /\ lower \in Int /\ upper \in Int
  BY LoopFacts DEF Exit
<1>2. \A i \in 0..num - 1 : set[i] \in Int /\ set[i] # NaN
  BY <1>1, EntriesInt
<1>3. IncreasingInBounds
  <2>1. \A i \in 0..num - 2 : Le(set[i], set[i + 1])
    BY <1>1, <1>2 DEF LoopInv, Le
  <2>2. lower # NaN /\ upper # NaN
    BY EntriesInt DEF TypeOK
  <2>3. checkBounds => \A i \in 0..num - 1 : lower <= set[i] /\ set[i] <= upper
    BY <1>1 DEF LoopInv
  <2>4. checkBounds = Le(lower, upper)
    BY DEF LoopInv
  <2>5. Le(lower, upper) =>
          \A i \in 0..num - 1 : Le(lower, set[i]) /\ Le(set[i], upper)
    BY <1>2, <2>2, <2>3, <2>4, Zenon DEF Le
  <2>6. QED
    BY <1>1, <1>2, <2>1, <2>5 DEF IncreasingInBounds, LoopInv
<1>4. IncreasingInBounds'
  BY <1>3 DEF IncreasingInBounds, Exit
<1>5. /\ checkBounds' \in BOOLEAN /\ previous' \in Entries \cup {Lowest}
      /\ k' \in 0..NumMax /\ pc' \in {"entry", "loop", "done"}
      /\ result' \in BOOLEAN
  BY Zenon DEF TypeOK, Exit
<1>6. TypeOK'
  BY <1>5, TypeStep DEF Exit
<1>7. QED
  BY <1>4, <1>6 DEF IncSetIInv, AcceptedOnlyIfOk, Exit

LEMMA StepIInv ==
  ASSUME NoNaN, IncSetIInv, Step PROVE IncSetIInv'
<1>0. pc = "loop"
  BY DEF Step
<1> SUFFICES ASSUME TypeOK, LoopInv PROVE IncSetIInv'
  BY <1>0 DEF IncSetIInv
<1>1. /\ num \in Nat /\ k \in 0..num - 1
      /\ set \in [0..num - 1 -> Entries]
      /\ lower \in Int /\ upper \in Int /\ previous \in Int
      /\ set[k] \in Entries /\ set[k] \in Int /\ set[k] # NaN
      /\ previous # NaN /\ lower # NaN /\ upper # NaN
  BY LoopFacts, EntriesInt DEF Step, TypeOK
<1>2. CASE Lt(set[k], previous) \/ (~Lt(set[k], previous) /\ UpperExceeded)
  <2>1. /\ pc' = "done" /\ result' = FALSE
        /\ UNCHANGED <<set, num, lower, upper, checkBounds, previous, k>>
    BY <1>2 DEF Step
  <2>2. /\ checkBounds' \in BOOLEAN /\ previous' \in Entries \cup {Lowest}
        /\ k' \in 0..NumMax /\ pc' \in {"entry", "loop", "done"}
        /\ result' \in BOOLEAN
    BY <2>1, Zenon DEF TypeOK
  <2>3. TypeOK'
    BY <2>1, <2>2, TypeStep
  <2>4. QED
    BY <2>1, <2>3 DEF IncSetIInv, AcceptedOnlyIfOk
<1>3. CASE ~Lt(set[k], previous) /\ ~UpperExceeded
  <2>1. /\ previous' = set[k] /\ k' = k + 1
        /\ UNCHANGED <<set, num, lower, upper, checkBounds, pc, result>>
    BY <1>3 DEF Step, Advance, UpperExceeded
  <2>2. previous <= set[k]
    BY <1>1, <1>3 DEF Lt
  <2>3. checkBounds => set[k] <= upper
    BY <1>1, <1>3 DEF UpperExceeded, Gt
  <2>4. checkBounds => lower <= previous
    BY <1>1 DEF LoopInv
  <2>5. /\ checkBounds' \in BOOLEAN /\ previous' \in Entries \cup {Lowest}
        /\ k' \in 0..NumMax /\ pc' \in {"entry", "loop", "done"}
        /\ result' \in BOOLEAN
    BY <1>1, <2>1 DEF TypeOK
  <2>6. TypeOK'
    BY <2>1, <2>5, TypeStep
  <2>11. /\ k > 0 => previous = set[k - 1]
         /\ \A i \in 0..k - 2 : set[i] <= set[i + 1]
         /\ checkBounds => \A i \in 0..k - 1 : lower <= set[i] /\ set[i] <= upper
    BY DEF LoopInv
  <2>7. \A i \in 0..k' - 2 : set'[i] <= set'[i + 1]
    BY <1>1, <2>1, <2>2, <2>11
  <2>8. checkBounds' => \A i \in 0..k' - 1 : lower' <= set'[i] /\ set'[i] <= upper'
    BY <1>1, <2>1, <2>2, <2>3, <2>4, <2>11
  <2>9. LoopInv'
    BY <1>1, <2>1, <2>7, <2>8 DEF LoopInv
  <2>10. QED
    BY <1>0, <2>1, <2>6, <2>9 DEF IncSetIInv, AcceptedOnlyIfOk
<1>4. QED
  BY <1>2, <1>3

LEMMA StutterIInv ==
  ASSUME IncSetIInv, UNCHANGED vars PROVE IncSetIInv'
  BY DEF IncSetIInv, vars, TypeOK, LoopInv, AcceptedOnlyIfOk,
         IncreasingInBounds, Le, Lt, Gt

(* The loop of increasing_set_ok keeps IncSetIInv, for every NumMax and   *)
(* every NaN-free set of entries and sentinel.                             *)
THEOREM IncSetInvariant == NoNaN => (Spec => []IncSetIInv)
<1> SUFFICES ASSUME NoNaN PROVE Spec => []IncSetIInv
  OBVIOUS
<1>1. Init => IncSetIInv
  BY InitIInv
<1>2. IncSetIInv /\ [Next]_vars => IncSetIInv'
  BY EnterIInv, StepIInv, ExitIInv, StutterIInv DEF Next
<1>3. QED
  BY <1>1, <1>2, PTL DEF Spec

(* increasing_set_ok returns true only for an array in increasing order    *)
(* and, when set_entry_lower <= set_entry_upper, within those bounds --   *)
(* for arrays of any length, whenever no value involved is NaN.            *)
THEOREM IncSetAcceptedOnlyIfOk == NoNaN => (Spec => []AcceptedOnlyIfOk)
  BY IncSetInvariant, PTL DEF IncSetIInv

(* Every variable of increasing_set_ok keeps its type on NaN-free input:   *)
(* the loop counter stays in 0..set_num_entries and previous_entry is an   *)
(* entry or the sentinel.                                                  *)
THEOREM IncSetTypeCorrect == NoNaN => (Spec => []TypeOK)
  BY IncSetInvariant, PTL DEF IncSetIInv
=============================================================================
