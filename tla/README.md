# TLA+ models of HiGHS

This directory holds TLA+ models of the parts of this HiGHS snapshot whose
behaviour can be read from the repository, the TLC configurations that check
them on small instances, and TLAPS proofs of their main invariants for every
value of the constants. Each component has a module `X.tla`, an `MCX.tla`
that gives its constants small values, `X_*.cfg` files for TLC, and, for
five components, one or more proof modules `X...Proofs.tla` (eight in all).

## The system and what is modelled

Most of the snapshot is headers. These have no function bodies, and the
simplex engine is among them:

- `HDual.h`
- `HDualRHS.h`
- `HSimplex.h`
- `HighsLp.h`
- `HighsLpUtils.h`
- `HighsIO.h`

The code that can be read line by line is:

| part | source | module | status |
|------|--------|--------|--------|
| heap sort, value/index version | `src/unnamed/part_000` (util/HighsSort.cpp 23-26, 35-40, 53-65, 85-104) | `HeapSort` | modelled |
| heap sort, int version | `src/unnamed/part_000` (18-21, 28-33, 42-51, 67-83) | `HeapSortInt` | modelled (abstract spec) |
| `increasing_set_ok`, both overloads | `src/unnamed/part_000` 106-146 | `IncreasingSetOk` | modelled |
| feasibility search `runFeasibility` | `src/unnamed/part_004` (FindFeasibility.cpp) | `FindFeasibility` | modelled |
| dual simplex infeasibility list (HDualRHS) | `src/src/simplex/HDualRHS.h`, spec 4.4 and 4.6 | `DualRHS` | partly, from the spec: the header has no bodies |
| name normalisation `normaliseNames` | `src/src/lp_data/HighsModelUtils.cpp` 158-210 | `NormaliseNames` | modelled |
| model reports `ch4VarStatus`, `reportModelBoundSol`, `analyseModelBounds` | `src/src/lp_data/HighsModelUtils.cpp` 24-156 | - | not modelled: formatting and printing |
| MPS reader dispatch | `src/unnamed/part_003` (FilereaderMps.cpp) | - | not modelled: file I/O |
| rest of the simplex engine (HDual, HSimplex) | headers only | - | not modelled: no code |

### Heap sort (`HeapSort.tla`, `HeapSortInt.tla`)

`maxheapsort(heap_v, heap_i, n)` works in two phases:

1. `build_maxheap` calls `max_heapify(.., i, n)` for i = n/2 down to 1.
2. `max_heapsort` then, for i = n down to 2, swaps `heap[1]` with `heap[i]`
   and calls `max_heapify(.., 1, i-1)`.

`max_heapify` keeps the entry it is sifting down in `temp_v`/`temp_i`. It
moves the larger child up into the hole at `heap[j/2]` until the saved
entry fits.

**State.** The model's state is:

- the arrays `heap_v` and `heap_i` (functions on 1..n);
- the loop counter `i`;
- the locals of `max_heapify`: `j`, `hn` (its argument n), `temp_v` and
  `temp_i`;
- `pc`, which names the loop being executed;
- `caller`, the loop to which `max_heapify` returns.

**Actions.** Each action is one iteration of one loop:

- `BuildHeap` and `BuildDone` for the build loop;
- `SortSwap` and `SortDone` for the sort loop;
- `SiftDown`, `SiftStop`, `SiftStall` and `SiftEnd` for the while loop of
  `max_heapify`.

**Doubles.** The doubles are abstracted to a small set of integers plus a
model value `NaN`. `Gt` and `Le` are false whenever either side is NaN,
as the C++ `>` and `<=` are. When neither comparison holds, the loop body
changes nothing and the loop spins for ever; `SiftStall` records this as
`pc = "hang"`.

**Refinement.** `HeapSortInt` is the int overload. It is used as the
abstract specification: `RefinesIntSort` checks that the double/index sort
moves `heap_v` exactly as the int sort does, with `heap_i` and `temp_i`
hidden.

`SortSpec.tla` states what `maxheapsort` promises its caller, in one step
`Sort`: on return `heap_v[1..n]` is the input read through some
rearrangement of 1..n, in nondecreasing order. `Sorting` in `HeapSort`
instantiates it. Until `pc = "done"` the caller sees its input, and from
then on it sees `heap_v`; `RefinesSorting` checks that the detailed sort
implements that promise, fairness included.

`TailFixed` is an action property: no step writes an entry of the sorted
tail `heap[i+1..n]` of `max_heapsort` (or `heap[i..n]` while the
`max_heapify` it called runs), to `heap_v` or to `heap_i`.

### `increasing_set_ok` (`IncreasingSetOk.tla`)

Both overloads of `increasing_set_ok(set, num, lower, upper)` are one loop
state machine:

- `Enter` covers the two early returns (`num < 0`, `set == NULL`), then
  sets `check_bounds` and the first `previous_entry`;
- `Step` is one iteration, with its two `return false` exits;
- `Exit` is the final `return true`.

The result is judged against `IncreasingInBounds`, a reference definition
of what `HighsSort.h` promises. The int overload runs on a 3-bit int, so
`INT_MIN = -4` and `-HIGHS_CONST_I_INF = -INT_MAX = -3` are both in range.
The double overload uses integers plus a model value `NaN`, whose
comparisons are all false.

### Feasibility search (`FindFeasibility.tla`)

`runFeasibility` has these actions:

- `Start` is `initialize` and the construction of the `Quadratic`.
- `Dispatch` covers the early returns:
  - an unsupported type;
  - a non-equality problem;
  - a zero residual at the start.
- `MinorStep`, `ColumnUpdate` and `SweepDone` make up `minimize_by_component`.
  `ColumnUpdate` is one column: the minimizer, the projection on the
  bounds, and the incremental updates of x, the row values, the residual
  and the objective.
- `OuterStep` is the update of mu or lambda.
- `Finish` is `getSolution` and the return.

The data are integers. The real minimizer `theta = -b/a` is not computed:
it is a nondeterministic choice from `Thetas`. Everything done with it is
exact. The MC instance has 1 row and 2 columns, one column free around 0
and one bounded away from it, with theta below, inside and above the
bounds. It uses `Sweeps = 2` and `K = 3` where the code has 100 and 30.
Every branch of the loops is reached after one sweep of each outer
iteration, and a further sweep only repeats states.

The matrix A is a dense function, row by row (`lp.A[r][c]`); its zero
entries are the ones the column-wise store of the code omits. The column
loops of `updateRowValue` and `updateObjective` are `ColSum`, the running
sum `s[k] = s[k-1] + f[k]` over columns 1..NumCol in the code's order. It
is a recursive function in a `LET`, not a `RECURSIVE` operator or a fold of
the community modules, so that `FindFeasibilityProofs` can reason about it.

### Dual simplex infeasibility list (`DualRHS.tla`)

Only the header `HDualRHS.h` is in the repository, so this model follows
spec sections 4.4 (DualRHS) and 4.6 (the simplex state transitions) and
the header's fields. All of its map entries are marked `spec_modelled`.

**State.** The state is:

- `workArray`, the primal infeasibility of each row, in 0..MaxInf;
- `workCutoff`;
- the sparse candidate list `workIndex[0..workCount-1]` with its flags
  `workMark`;
- the basis `basicIndex` and `nonbasicFlag`;
- the chosen row `rowOut`;
- `pending`, the rows whose primal values the last update changed;
- the loop counters `iRow` and `iteration`, and `pc`.

**Actions.**

- `CreateStart`, `CreateRow` and `CreateDone` are `create_infeasList`: a
  cutoff is chosen, and each row above it is appended.
- `ChooseRow` and `ChooseNone` are `choose_normal` (CHUZR). An empty choice
  under a positive cutoff rebuilds the list at cutoff 0. Only an empty
  choice at cutoff 0 is optimality.
- `Exchange` is CHUZC followed by the basis exchange and the primal
  update. The basis exchange (`Pivot`) is the free function
  `update_pivots(highs_model_object, columnIn, rowOut, sourceOut)` of
  `HSimplex.h`, declared at line 358 without a body; the member
  `HDualRHS::update_pivots` only sets the pivot row's primal value. Any
  set of rows containing the pivot row may change.
- `UpdateListRow` and `UpdateListDone` are `update_infeasList`. It appends
  each changed row that passes the cutoff and is not marked.
- `IterationLimit`, `Reinvert` and `NoEnteringColumn` are the other exits
  of the iteration loop.

Dense mode, list compaction, the edge weights and the parallel partitions
are left out. `Listed` is mapped to the fields `workCount`, `workMark` and
`workIndex` that the header declares; the other entries stay
`spec_modelled`.

### Name normalisation (`NormaliseNames.tla`)

`normaliseNames` in `HighsModelUtils.cpp` prepares row or column names
for an MPS file. It keeps the caller's names when none is empty and none
is longer than the desired maximum, the value of `max_name_length` on
entry. Otherwise it replaces every name by the first letter of
`name_type` followed by the index. It returns 1 when the final names
have a space and are longer than 8 characters, and leaves their greatest
length in `max_name_length`.

**Abstraction.** A name is what the function reads of it: its length and
whether `find(" ")` finds a space. `std::to_string(ix)` is its length,
the number of decimal digits of an int (`Digits`). `name_type.substr(0,1)`
is its length, 0 or 1.

**State.** `names`, `maxLen` (`max_name_length`, in and out), `prefixLen`,
`status` (the int the last call returned) and `called` (a call has
returned). The caller keeps the names and `max_name_length` between
calls, so the model lets it call `normaliseNames` again on what it got
back: the value of `max_name_length` on entry is the desired maximum.

**Actions.** `Normalise` is the whole call: the count of empty names, the
conditional `maxNameLength`, the choice `construct_names`, the
construction or `namesWithSpaces`, the final `maxNameLength` and the
return code. The helpers `NumEmptyName`, `MaxNameLength`,
`NamesWithSpaces`, `ConstructNames`, `ConstructedNames`, `FinalMaxLength`
and `ReturnCode` each translate one of these pieces.

## Runs

| run | checks | result |
|-----|--------|--------|
| `heapsort_safety` (n <= 5, values {1,2,3,NaN}) | `TypeOK`, `IndexSafe`, `PairsConserved`, `HeapOrdered`, `SortedOnExit`, `TailFixed` | pass |
| `heapsort_live` (n <= 5, values {1,2,3}) | `RefinesIntSort`, `RefinesSorting` | pass |
| `heapsort_nan_hang` (n <= 3, values {1,2,3,NaN}) | `Termination` | violated |
| `incset_int` (3-bit int, up to 3 entries) | `TypeOK`, `AcceptedOnlyIfOk` | pass |
| `incset_int_min` (3-bit int, up to 2 entries) | `AcceptedIfOk` | violated |
| `incset_nan` (doubles {1,2,3,NaN}) | `AcceptedOnlyIfOk` | violated |
| `feasibility_safety` | `TypeOK`, `IncrementalConsistent`, `OKOnlyFeasibleOrExhausted` | pass |
| `feasibility_stale_row` | `SolutionConsistentOnOK` | violated |
| `feasibility_bounds` | `WithinBoundsOnOK` | violated |
| `feasibility_maximize` | `MaximizationRejected` | violated |
| `normalise_names` (up to 3 names, lengths {0,1,8,9}, desired {1,8,9}) | `TypeOK`, `NoEmptyNameOnReturn`, `Idempotent` | pass |
| `dualrhs_safety` (3 rows, 2 columns, infeasibilities 0..2, cutoffs {0,1}, 3 iterations) | `TypeOK`, `ListConsistent`, `CandidateComplete`, `OptimalOnlyIfFeasible`, `BasisConsistent` | pass |

**`incset_int`** shows that the int overload never accepts an array that
is out of order or out of its bounds. It covers every array of up to 3
entries over the whole 3-bit range, with every pair of bounds.

**`incset_int_min`** finds a bug. With no bounds, the int overload starts
from `previous_entry = -INT_MAX`. An increasing array that starts with
`INT_MIN` is therefore rejected.

**`incset_nan`** finds a bug. A NaN entry passes both tests and becomes
`previous_entry`. Every later entry then passes, so `{3, NaN, 1}` is
accepted.

**`feasibility_safety`** shows that the cached row values, residual and
objective of the `Quadratic` stay equal to those of its `x` through every
incremental update. `OKOnlyFeasibleOrExhausted` says when OK may come
back with a residual that is not zero: only after all K outer iterations.
The start test and the break of the loop return OK on a zero residual.
So an off-by-one in the loop bound, or a break on the wrong test, would
return OK on an infeasible x early. With K = 3 the run reaches the exit
through the break and through exhaustion.

**`feasibility_stale_row`** finds a divergence. When the starting point
already has a zero residual, `runFeasibility` returns OK before
`getSolution`. `row_value` is then empty or stale.

**`feasibility_bounds`** finds a bug. The projection clamps theta against
one bound only. A positive theta below `colLower` is returned with OK.

**`feasibility_maximize`** finds a bug. A maximization problem is reported
as unsupported, then solved as a minimization and returned with OK.

**`dualrhs_safety`** checks the candidate list across list rebuilds,
cutoff changes and revisits of changed rows. It shows three things:

- the list never holds a row twice and matches its marks;
- when CHUZR runs, every row above the cutoff is in the list;
- optimality is declared only at a feasible basis.

It also shows that every exchange keeps `basicIndex` and `nonbasicFlag` a
basis. With 3 rows and 3 iterations it reaches 1.5 million states. These
include:

- a full list (3 rows);
- an empty choice under cutoff 1, which forces a rebuild;
- every iteration exit.

**`normalise_names`** checks every input of up to 3 names whose lengths
are 0, 1, 8 or 9, with and without spaces, against desired maxima 1, 8
and 9. The lengths sit on both sides of each boundary the code tests:
empty, equal to the desired maximum, and on either side of 8. It shows
two things:

- no empty name is handed back;
- `Idempotent`: a call on the names and `max_name_length` an earlier call
  handed back changes neither and returns the same code. This needs both
  the final recomputation of `max_name_length` (line 206) and the strict
  `>` of the length test (line 191). Without line 206, a call that
  constructed names because one was empty hands back the stale desired
  maximum, and the next call replaces nothing but reports another length.
  With `>=`, names kept by the first call have a length equal to the
  returned maximum and are replaced by the second.

**`heapsort_safety`** shows five things:

- the indexing stays inside 1..n;
- each value stays with the index it came in with;
- the heap and sorted-suffix orders hold between calls;
- the array is ordered on return;
- no step touches the sorted tail.

On NaN-containing input, `SortedOnExit` holds only in the weak sense of
the C++ comparisons.

**`heapsort_live`** shows that on NaN-free input the sort refines both the
int sort and the one-step `SortSpec`. The weak fairness of `SortSpec`'s
`Sort` under `done <- pc = "done"` makes `RefinesSorting` include
termination.

**`heapsort_nan_hang`** exhibits the endless loop: `{NaN, NaN}` is enough.

**Bounds.** With n up to 5, the heap has three levels. This gives:

- a right child that exists (`j < n`) and one that does not;
- ties, because the value set is smaller than n;
- every depth of the sift-down loop.

**Fairness.** Only `heapsort_live` assumes fairness. The code is a
sequential loop nest, so weak fairness of `Next` is justified: a step that
is enabled is taken.

**Deadlock.** Every run but `normalise_names` says
`CHECK_DEADLOCK FALSE`. Their terminal states are real returns of the
function, or the optimal, limit and unbounded stops of the solver. A
caller may always call `normaliseNames` again, so that run checks
deadlock.

## Proofs

### `HeapSortProofs.tla`


`HeapInvariant` proves `Spec => []HeapIInv` for every `MaxN` and every
value set. `IndexSafe` alone is not inductive, so `HeapIInv` strengthens
`TypeOK /\ IndexSafe` with the call frame of `max_heapify`:

- `j` is even, so `j` and `j+1` share the parent `j/2`;
- `temp_i` is in 1..n;
- a call from the build loop has `1 <= i <= n/2` and limit n;
- a call from the sort loop has `2 <= i <= n` and limit i-1.

The main argument is one lemma per action. Small lemmas about `EXCEPT`,
the swap and `Child` support it. `HeapTypeCorrect` and `HeapIndexSafe`
follow from `HeapInvariant`.

`HeapTailFixed` proves `Spec => TailFixed` for every n and every value
set, NaN included. It rests on the frame in `HeapIInv`: a call from the
sort loop has limit `hn = i-1`, so its hole `j/2` stays in 1..hn
(`HoleInRange`) and below the tail (`HoleBelowTail`). The swap of
`max_heapsort` writes `heap[1]` and `heap[i]`, and `i` leaves the tail in
the same step, because the tail of the called `max_heapify` starts at `i`.

### `HeapSortPairsProofs.tla`

`HeapPairsConserved` proves `Spec => []PairsConserved` for every n and
every value set, NaN included. `Entry(k)` is the pair at position k, or
the pair held in `temp_v`/`temp_i` when k is the hole of `max_heapify`.
With that reading every step is an identity or an exchange of two places:

- the swap of `heap[1]` and `heap[i]` in `max_heapsort`;
- the move of the hole from `heap[j/2]` down to `heap[j]`.

The lemma `SwapImage` shows that an exchange keeps the set of values.

### `HeapSortRefinementProofs.tla`

`HeapRefinesIntSort` proves `NoNaN => (Spec => IntSortSafety)`.
`IntSortSafety` is `Init /\ [][Next]_vars` of `HeapSortInt`, and the
refinement mapping is the identity on the shared variables. Without NaN,
`Gt` and `Le` are the int comparisons (`CompareInts`). Each action is then
its namesake of the int sort. `SiftStall` cannot happen (`NoStall`): one
of `temp_v > heap_v[j]` and `temp_v <= heap_v[j]` holds.

### `HeapSortOrderProofs.tla`

`HeapOrderInvariant` proves `NoNaN => (Spec => []OrderIInv)` for every
`MaxN` and every value set. `HeapOrdered` is not inductive, because inside
`max_heapify` the array is not a heap. `OrderIInv` says, per phase:

- in `build_maxheap`, the subtrees rooted after `i` are heaps;
- in `max_heapsort`, `heap[1..i]` is a heap, every entry of it is at most
  every entry of the tail `heap[i+1..n]`, and the tail is sorted;
- in `max_heapify`, every edge below the call's root that does not touch
  the hole `heap[j/2]` is ordered. Once the hole has moved, the entry
  above it dominates `temp_v` and the hole's children. In the sort phase
  the heap and `temp_v` stay at most the tail `heap[i..n]`;
- on return, `heap[1..n]` is sorted.

The lemma `RootMax` shows that no entry of a heap exceeds its root. This
is why the swap of `max_heapsort` moves a greatest entry to the tail. Its
proof takes a least entry above the root (`WFMin`) and shows that its
parent is larger still. `HeapSortOrdered` (`HeapOrdered`) and
`HeapSortSorts` (`SortedOnExit`) follow. The hypothesis `NoNaN` is
needed: with NaN, `~Gt` is not transitive and `heapsort_nan_hang` shows
`max_heapify` can stall.

`HeapRefinesSorting` proves `NoNaN => (Spec => SortingSafety)`, the safety
part of `Sorting!Spec`, step by step. The initial states map to
`SortSpec`'s. Every step but `SortDone` leaves `n`, `input` and the
mapped `heap_v` (still the input) unchanged, so it maps to a stutter
(`HiddenSteps`). `SortDone` maps to `Sort`. Its witness rearrangement is
`heap_i` itself: `PairsRearrange` derives from `PairsConserved` that
`heap_i` is onto 1..n and `heap_v[k] = input[heap_i[k]]`, and `OrderIInv`
gives the order on return.

### `IncreasingSetOkProofs.tla`

`IncSetInvariant` proves `Spec => []IncSetIInv` for every `NumMax` and
every value set that does not contain NaN (`NoNaN`). The invariant
`LoopInv` strengthens the loop with four facts:

- `previous_entry` is the last checked entry, or the starting value when
  none has been checked;
- the checked prefix is increasing;
- when `check_bounds` holds, the checked prefix is within the bounds;
- `k <= num`.

`IncSetAcceptedOnlyIfOk` follows: a `true` result means the array is in
increasing order and in bounds, for arrays of any length.
`IncSetTypeCorrect` states `TypeOK`. The hypothesis
`NoNaN` is needed: `incset_nan` shows the claim fails with NaN.

### `DualRHSProofs.tla`

`DualRHSInvariant` proves `Spec => []DualIInv` for every number of rows
and columns, every cutoff set and every iteration limit. `CandidateComplete`
is not inductive: after a primal update, rows that are not yet revisited
may be above the cutoff and unmarked. `DualIInv` therefore states
completeness only outside `Unsettled`, the rows not yet settled in the
current phase:

| phase | unsettled rows |
|-------|----------------|
| rebuild | every row |
| create | the rows not yet scanned |
| updlist | the rows still pending |
| any other | none |

`DualIInv` adds three more facts:

- while the list is built, the rows in it are below `iRow`;
- at CHUZC, `iteration < MaxIter`;
- `ListConsistent`, `BasisConsistent` and `OptimalOnlyIfFeasible` hold.

The lemma `ListRoom` shows that an unlisted row always has room in the
list. It is a pigeonhole argument: an injective list of `workCount`
entries from `numRow` rows, one row missing, has `workCount < numRow`. The
proof uses the finite-set theorems `FS_Interval`, `FS_RemoveElement` and
`FS_Injection`. `PivotInv` shows that a basis exchange keeps a basis.

Five theorems follow from the invariant:

- `DualRHSTypeCorrect` (`TypeOK`);
- `ListAlwaysConsistent`;
- `CandidatesAlwaysComplete`;
- `OptimalityIsFeasible`;
- `BasisAlwaysConsistent`.

### `NormaliseNamesProofs.tla`

`NamesInvariant` proves `Spec => []NamesIInv` for every number of names,
every set of lengths and every desired maximum, over any sequence of
calls. `NamesIInv` is `TypeOK`, `NoEmptyNameOnReturn` and `Returned`:
once a call has returned, `max_name_length` is the greatest length of the
names and the status is the code of their clash. The lemmas are:

- `MaxExists`: the lengths of a finite sequence of names have a greatest
  element, or there are none. The `CHOOSE` in `MaxNameLength` therefore
  picks a real maximum. The proof takes the least prefix `0..k-1` that
  has no greatest length (`WFMin` with `NatLessThanWellFounded`) and
  shows that adding name `k-1` to the maximum of the shorter prefix gives
  one.
- `MaxNameLengthFacts`, `NoEmptyCount` (no empty name exactly when the
  count is 0, by `FS_EmptySet`), `DigitsPositive` (a constructed name has
  at least one digit) and `ConstructedFacts`.
- `NormaliseIInv`: a call establishes each conjunct, split on whether
  names are constructed.
- `RepeatCall`: from `NamesIInv`, a call after a return finds no empty
  name, so it recomputes `max_name_length` to the value passed in. The
  strict test then keeps the names, and the length and the code come out
  the same.

`NamesTypeCorrect` and `NamesNonEmpty` follow from `NamesInvariant`.
`NamesIdempotent` proves the action property `Idempotent`, from
`RepeatCall` and `NamesInvariant`. They hold for 10^7 or more names too,
where constructed names are 9 characters long.

### `FindFeasibilityProofs.tla`

`FeasInvariant` proves `Spec => []FeasIInv` for every LP size, every set
of data, every `Sweeps` and every `K`. `FeasIInv` is `TypeOK`,
`IncrementalConsistent` and `ExitReason`, strengthened with facts about
the loops. `ExitReason` says that in `finish`, and once OK is returned,
the residual is zero or `iteration = K + 1`. `OKOnlyFeasibleOrExhausted`
alone is not inductive: it says nothing of the state between the loop's
exit and the return. The facts about the loops are:

- `iteration` is 0 before the outer loop and in 1..K inside it;
- inside `minimize_by_component`, `sweep < Sweeps`;
- the status is "none" until the return.

The core is about sums. `ColSumExcept` shows that changing one term of the
running sum shifts the result by the change. It is proved on the whole
prefix function (`SumsExcept`) by induction over 0..NumCol. That induction
is `UpToInduction`, a least-counterexample argument with `WFMin`, stated
on a set so the provers can instantiate it. `QuadExcept` then shows that
moving `x_c0` by d moves A x by d times column c0, and c'x by d c_c0.
This is exactly what the incremental updates of `ColumnUpdate` compute.
`FeasTypeCorrect`, `FeasIncrementalConsistent` and
`FeasOKOnlyFeasibleOrExhausted` follow. The last needs `iteration` in
1..K inside the loop: a residual that is not zero sends `OuterStep` to
`finish` only when `iteration + 1` reaches `K + 1`. `SolutionConsistentOnOK` is false
(`feasibility_stale_row`), so it is not proved.

### Left to TLC

These properties are only model-checked:

- `RefinesIntSort`, and the fairness part of
  `RefinesSorting`. Liveness under fairness, and the `ENABLED` it needs,
  are outside what TLAPS checks. So is a refinement whose abstract spec
  has fairness. The safety part of `RefinesSorting` is proved
  (`HeapRefinesSorting`).
- `HeapOrdered` and `SortedOnExit` when a value is NaN. There they are
  not claimed: `max_heapify` can stall (`heapsort_nan_hang`), and the
  comparisons are not an order.
- `WithinBoundsOnOK`, `MaximizationRejected` and `SolutionConsistentOnOK`
  of `FindFeasibility`. They are false (their runs find violations), so
  there is nothing to prove.
- `AcceptedIfOk`. It is false (`incset_int_min`), so there is nothing to
  prove.

## Not modelled

- **The rest of the simplex engine.** HDual, HSimplex, the factor and the
  matrix are headers only. Their behaviour enters the `DualRHS` model only
  as the nondeterministic outcomes of CHUZC and the primal update.
- **Model reports.** `ch4VarStatus`, `reportModelBoundSol` and
  `analyseModelBounds` (compiled only with HiGHSDEV) format and print.
  They leave no state behind that any other code reads. HighsIO is
  printing.
- **Coverage of `src/src`.** Of the files under `src/src`, only
  `HighsModelUtils.cpp` has function bodies. The headers hold
  declarations, and the models that need their behaviour (`DualRHS`)
  follow the spec. The code with bodies is mostly under `src/unnamed`.
- **The MPS reader.** `FilereaderMps` is file I/O that dispatches to
  `readMPS` and `writeMPS`, whose code is not in the repository.
- **FindFeasibility helpers.** `getAtb`, `getAtLambda`,
  `getQuadraticObjective` and `printMinorIterationDetails` change no state.
