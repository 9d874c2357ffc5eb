--------------------------- MODULE IncreasingSetOk ---------------------------
(***************************************************************************)
(* increasing_set_ok(set, set_num_entries, set_entry_lower,                *)
(* set_entry_upper) of util/HighsSort.cpp, both overloads: it checks that  *)
(* set[0..set_num_entries-1] is in increasing order and, when lower <=    *)
(* upper, within [lower, upper].  The loop is a state machine whose steps  *)
(* are its iterations; the result is compared with a reference definition *)
(* of what the header promises.                                           *)
(*                                                                         *)
(* For the int overload, Entries is the whole range of a w-bit int and     *)
(* Lowest is -HIGHS_CONST_I_INF = -INT_MAX.  For the double overload,      *)
(* Entries is a set of integers and possibly NaN, whose comparisons are    *)
(* all false, and Lowest, below every entry, plays -HIGHS_CONST_INF.       *)
(***************************************************************************)
EXTENDS Integers

CONSTANTS
  NumMax,   \* the largest set_num_entries tried
  Entries,  \* the values of the entries and of the bounds
  Lowest,   \* -HIGHS_CONST_I_INF or -HIGHS_CONST_INF
  NaN,      \* a not-a-number, which may or may not be in Entries
  NULL      \* the null pointer

ASSUME IncreasingSetOkAssumption ==
  /\ NumMax \in Nat
  /\ Entries \ {NaN} \subseteq Int /\ Lowest \in Int
  /\ NULL \notin [0..NumMax -> Entries]

VARIABLES
  set,          \* the array, or NULL
  num,          \* set_num_entries
  lower,        \* set_entry_lower
  upper,        \* set_entry_upper
  checkBounds,  \* check_bounds
  previous,     \* previous_entry
  k,            \* the loop counter
  pc,           \* "entry", "loop" or "done"
  result        \* the value returned

vars == <<set, num, lower, upper, checkBounds, previous, k, pc, result>>

(* The comparisons <, > and <= of the code: false when either side is NaN. *)
Lt(a, b) == a # NaN /\ b # NaN /\ a < b
Gt(a, b) == a # NaN /\ b # NaN /\ a > b
Le(a, b) == a # NaN /\ b # NaN /\ a =< b

-----------------------------------------------------------------------------
Init ==
  /\ num \in -1..NumMax
  /\ set \in {NULL} \cup [0..num - 1 -> Entries]
  /\ lower \in Entries
  /\ upper \in Entries
  /\ checkBounds = FALSE
  /\ previous = Lowest
  /\ k = 0
  /\ pc = "entry"
  /\ result = FALSE

(* if (set_num_entries < 0) return false; if (set == NULL) return false;   *)
(* then check_bounds and the first previous_entry.                         *)
Enter ==
  /\ pc = "entry"
  /\ \/ /\ num < 0
        /\ pc' = "done" /\ result' = FALSE
        /\ UNCHANGED <<checkBounds, previous>>
     \/ /\ num >= 0 /\ set = NULL
        /\ pc' = "done" /\ result' = FALSE
        /\ UNCHANGED <<checkBounds, previous>>
     \/ /\ num >= 0 /\ set # NULL
        /\ checkBounds' = Le(lower, upper)
        /\ previous' = IF Le(lower, upper) THEN lower ELSE Lowest
        /\ pc' = "loop"
        /\ UNCHANGED result
  /\ UNCHANGED <<set, num, lower, upper, k>>

UpperNotChecked == FALSE  \* the test of entry > set_entry_upper left out

(* check_bounds && entry > set_entry_upper                                 *)
UpperExceeded == checkBounds /\ Gt(set[k], upper)

AdvanceTwo ==  \* the loop counter advances by two
  /\ previous' = set[k]
  /\ k' = k + 2

(* previous_entry = entry; and k++ of the for loop.                        *)
Advance ==
  /\ previous' = set[k]
  /\ k' = k + 1

(* One iteration: if (entry < previous_entry) return false; if            *)
(* (check_bounds && entry > set_entry_upper) return false; previous_entry  *)
(* = entry.                                                                *)
Step ==
  /\ pc = "loop"
  /\ k < num
  /\ \/ /\ Lt(set[k], previous)
        /\ pc' = "done" /\ result' = FALSE
        /\ UNCHANGED <<previous, k>>
     \/ /\ ~Lt(set[k], previous)
        /\ UpperExceeded
        /\ pc' = "done" /\ result' = FALSE
        /\ UNCHANGED <<previous, k>>
     \/ /\ ~Lt(set[k], previous)
        /\ ~UpperExceeded
        /\ Advance
        /\ UNCHANGED <<pc, result>>
  /\ UNCHANGED <<set, num, lower, upper, checkBounds>>

(* The loop ends: return true.                                             *)
Exit ==
  /\ pc = "loop"
  /\ k >= num
  /\ pc' = "done" /\ result' = TRUE
  /\ UNCHANGED <<set, num, lower, upper, checkBounds, previous, k>>

Next == Enter \/ Step \/ Exit

Spec == Init /\ [][Next]_vars

-----------------------------------------------------------------------------
(***************************************************************************)
(* Properties.                                                             *)
(***************************************************************************)

(* What HighsSort.h promises: "a set of integers [doubles] in increasing   *)
(* order and in bounds" -- each entry at most the next, and, when the      *)
(* bounds are given (lower <= upper), every entry within them.             *)
IncreasingInBounds ==
  /\ num >= 0 /\ set # NULL
  /\ \A i \in 0..num - 2 : Le(set[i], set[i + 1])
  /\ \A i \in 0..num - 1 : set[i] # NaN
  /\ Le(lower, upper) =>
       \A i \in 0..num - 1 : Le(lower, set[i]) /\ Le(set[i], upper)

(* The type of every variable.                                             *)
TypeOK ==
  /\ num \in -1..NumMax
  /\ set \in {NULL} \cup [0..num - 1 -> Entries]
  /\ lower \in Entries /\ upper \in Entries
  /\ checkBounds \in BOOLEAN
  /\ previous \in Entries \cup {Lowest}
  /\ k \in 0..NumMax
  /\ pc \in {"entry", "loop", "done"}
  /\ result \in BOOLEAN

(* increasing_set_ok never accepts an array that is out of order or out   *)
(* of the bounds it was given.                                             *)
AcceptedOnlyIfOk ==
  pc = "done" /\ result => IncreasingInBounds

(* increasing_set_ok accepts every array in increasing order (and within   *)
(* the bounds, when they are given).                                       *)
AcceptedIfOk ==
  pc = "done" /\ IncreasingInBounds => result

=============================================================================
