---------------------------- MODULE DualRHSProofs ----------------------------
(***************************************************************************)
(* Proofs about DualRHS for every number of rows and columns, every bound  *)
(* on the infeasibilities, every set of cutoffs and every iteration limit: *)
(* the candidate list stays consistent with its marks and within its       *)
(* numRow entries, it holds every row above the cutoff when CHUZR runs,    *)
(* optimality is declared only at a primal feasible basis, and the basis  *)
(* stays a basis.                                                          *)
(***************************************************************************)
EXTENDS DualRHS, FiniteSetTheorems, TLAPS

(***************************************************************************)
(* CandidateComplete speaks only of the states where CHUZR runs.  Between  *)
(* them, the rows whose infeasibility has changed, or whose place in the   *)
(* list is being decided, are "unsettled": all rows before a rebuild, the  *)
(* rows create_infeasList has not yet scanned, and the rows of the update  *)
(* column update_infeasList has not yet visited.  Every settled row above the cutoff is listed.     *)
(* The scan of create_infeasList has listed only rows below iRow, at most  *)
(* one each.                                                               *)
(***************************************************************************)
Unsettled ==
  IF pc = "rebuild" THEN Rows
  ELSE IF pc = "create" THEN {r \in Rows : r >= iRow}
  ELSE IF pc = "updlist" THEN pending
  ELSE {}

Complete ==
  \A r \in Rows \ Unsettled : workArray[r] > workCutoff => workMark[r]

CreateInv ==
  pc = "create" => /\ workCount <= iRow
                   /\ \A r \in Rows : workMark[r] => r < iRow

(* CHUZR leaves a row only below the iteration limit.                      *)
ChuzcInv == pc = "chuzc" => iteration < MaxIter

DualIInv ==
  /\ TypeOK
  /\ ListConsistent
  /\ BasisConsistent
  /\ Complete
  /\ CreateInv
  /\ ChuzcInv
  /\ OptimalOnlyIfFeasible

-----------------------------------------------------------------------------
USE DualRHSAssumption

(* A list of distinct rows that leaves out some row has room for it: this *)
(* is why workIndex, sized numRow by setup(), never overflows.             *)
LEMMA ListRoom ==
  ASSUME NEW c \in Nat, NEW w \in [Rows -> Rows], NEW x \in Rows,
         \A i, j \in 0..c - 1 : i # j => w[i] # w[j],
         \A i \in 0..c - 1 : w[i] # x,
         c <= NumRow
  PROVE  c < NumRow
<1> DEFINE S == 0..c - 1
           T == Rows \ {x}
           f == [i \in S |-> w[i]]
<1>1. f \in [S -> T]
  BY DEF Rows
<1>2. f \in Injection(S, T)
  BY <1>1 DEF Injection, IsInjective
<1>3. IsFiniteSet(Rows) /\ Cardinality(Rows) = NumRow
  BY FS_Interval DEF Rows
<1>4. IsFiniteSet(T) /\ Cardinality(T) = NumRow - 1
  <2>1. IsFiniteSet(Rows \ {x}) /\ Cardinality(Rows \ {x}) = Cardinality(Rows) - 1
    BY <1>3, FS_RemoveElement
  <2>2. QED
    BY <1>3, <2>1
<1>5. Cardinality(S) = c
  BY FS_Interval
<1>6. Cardinality(S) <= Cardinality(T)
  BY <1>2, <1>4, FS_Injection
<1>7. QED
  BY <1>4, <1>5, <1>6

(* Appending an unlisted row keeps the list consistent with its marks.    *)
LEMMA AddToListInv ==
  ASSUME TypeOK, ListConsistent, NEW r \in Rows, ~workMark[r],
         workCount < NumRow, AddToList(r)
  PROVE  /\ workCount' \in 0..NumRow
         /\ workIndex' \in [Rows -> Rows]
         /\ workMark' \in [Rows -> BOOLEAN]
         /\ ListConsistent'
<1>1. /\ workCount \in Rows
      /\ workIndex' = [workIndex EXCEPT ![workCount] = r]
      /\ workCount' = workCount + 1
      /\ workMark' = [workMark EXCEPT ![r] = TRUE]
  BY DEF AddToList, TypeOK, Rows
<1>2. \A i \in 0..workCount - 1 : workIndex[i] # r
  <2>1. ~Listed(r)
    BY DEF ListConsistent
  <2>2. QED
    BY <2>1 DEF Listed
<1>3. /\ workCount' \in 0..NumRow
      /\ workIndex' \in [Rows -> Rows]
      /\ workMark' \in [Rows -> BOOLEAN]
  BY <1>1 DEF TypeOK
<1>4. \A i, j \in 0..workCount' - 1 : i # j => workIndex'[i] # workIndex'[j]
  BY <1>1, <1>2 DEF ListConsistent, TypeOK
<1>5. \A s \in Rows : workMark'[s] <=> Listed(s)'
  BY <1>1, <1>2 DEF ListConsistent, Listed, TypeOK
<1>6. QED
  BY <1>3, <1>4, <1>5 DEF ListConsistent

(* TypeOK after a step, from the type of each variable after the step.     *)
LEMMA TypeStep ==
  ASSUME workArray' \in [Rows -> Infeas], workCutoff' \in Cutoffs,
         workCount' \in 0..NumRow, workIndex' \in [Rows -> Rows],
         workMark' \in [Rows -> BOOLEAN], basicIndex' \in [Rows -> Vars],
         nonbasicFlag' \in [Vars -> {0, 1}], rowOut' \in Rows,
         pending' \in SUBSET Rows, iRow' \in 0..NumRow,
         iteration' \in 0..MaxIter,
         pc' \in {"rebuild", "create", "chuzr", "chuzc", "updlist", "optimal",
                  "limit", "unbounded"}
  PROVE  TypeOK'
  BY DEF TypeOK

LEMMA InitIInv == Init => DualIInv
<1> SUFFICES ASSUME Init PROVE DualIInv
  OBVIOUS
<1>1. TypeOK
  BY DEF Init, TypeOK, Rows, Vars, Infeas
<1>2. BasisConsistent
  BY DEF Init, BasisConsistent, Rows, Vars
<1>3. ListConsistent
  BY DEF Init, ListConsistent, Listed
<1>4. Complete
  BY DEF Init, Complete, Unsettled
<1>5. QED
  BY <1>1, <1>2, <1>3, <1>4 DEF Init, DualIInv, CreateInv, ChuzcInv,
                                OptimalOnlyIfFeasible

(* A step that only moves pc (and perhaps rowOut) between states where no  *)
(* row is unsettled: CHUZR's choice, the iteration limit, a reinversion,   *)
(* CHUZC's failure and the ends of the two list loops.                     *)
LEMMA QuietStep ==
  ASSUME DualIInv,
         UNCHANGED <<workArray, workCutoff, workCount, workIndex, workMark,
                     basicIndex, nonbasicFlag, pending, iRow, iteration>>,
         rowOut' \in Rows,
         pc' \in {"chuzr", "chuzc", "limit", "unbounded"},
         pc' = "chuzc" => iteration < MaxIter,
         Unsettled = {}
  PROVE  DualIInv'
<1>1. TypeOK'
  BY TypeStep DEF DualIInv, TypeOK
<1>2. ListConsistent' /\ BasisConsistent'
  BY DEF DualIInv, ListConsistent, Listed, BasisConsistent
<1>3. Unsettled' = {}
  BY DEF Unsettled
<1>4. Complete'
  BY <1>3 DEF DualIInv, Complete
<1>5. QED
  BY <1>1, <1>2, <1>4 DEF DualIInv, CreateInv, ChuzcInv, OptimalOnlyIfFeasible

(* The start of a scan of create_infeasList, whether from rebuild or from *)
(* CHUZR dropping the cutoff: no row is listed or settled.                 *)
LEMMA RestartStep ==
  ASSUME DualIInv,
         workCutoff' \in Cutoffs,
         workMark' = [r \in Rows |-> FALSE], workCount' = 0, iRow' = 0,
         pc' = "create",
         UNCHANGED <<workArray, workIndex, basicIndex, nonbasicFlag, rowOut,
                     pending, iteration>>
  PROVE  DualIInv'
<1>1. TypeOK'
  BY TypeStep DEF DualIInv, TypeOK
<1>2. ListConsistent' /\ BasisConsistent'
  BY DEF DualIInv, ListConsistent, Listed, BasisConsistent
<1>3. Complete'
  BY DEF Complete, Unsettled, Rows
<1>4. QED
  BY <1>1, <1>2, <1>3 DEF DualIInv, CreateInv, ChuzcInv, OptimalOnlyIfFeasible

LEMMA CreateStartIInv ==
  ASSUME DualIInv, CreateStart PROVE DualIInv'
  BY RestartStep DEF CreateStart

LEMMA CreateDoneIInv ==
  ASSUME DualIInv, CreateDone PROVE DualIInv'
<1>1. Unsettled = {}
  BY DEF CreateDone, Unsettled, Rows
<1>2. QED
  BY <1>1, QuietStep DEF CreateDone, DualIInv, TypeOK

LEMMA ChooseRowIInv ==
  ASSUME DualIInv, ChooseRow PROVE DualIInv'
<1>1. Unsettled = {} /\ rowOut' \in Rows /\ iteration < MaxIter
  BY DEF ChooseRow, Unsettled
<1>2. QED
  BY <1>1, QuietStep DEF ChooseRow

LEMMA IterationLimitIInv ==
  ASSUME DualIInv, IterationLimit PROVE DualIInv'
  BY QuietStep DEF IterationLimit, Unsettled, DualIInv, TypeOK

LEMMA ReinvertIInv ==
  ASSUME DualIInv, Reinvert PROVE DualIInv'
<1>1. TypeOK'
  BY TypeStep DEF Reinvert, DualIInv, TypeOK
<1>2. ListConsistent' /\ BasisConsistent'
  BY DEF Reinvert, DualIInv, ListConsistent, Listed, BasisConsistent
<1>3. Complete'
  BY DEF Reinvert, Complete, Unsettled
<1>4. QED
  BY <1>1, <1>2, <1>3 DEF Reinvert, DualIInv, CreateInv, ChuzcInv,
                         OptimalOnlyIfFeasible

LEMMA NoEnteringColumnIInv ==
  ASSUME DualIInv, NoEnteringColumn PROVE DualIInv'
  BY QuietStep DEF NoEnteringColumn, Unsettled, DualIInv, TypeOK

LEMMA UpdateListDoneIInv ==
  ASSUME DualIInv, UpdateListDone PROVE DualIInv'
  BY QuietStep DEF UpdateListDone, Unsettled, DualIInv, TypeOK

LEMMA CreateRowIInv ==
  ASSUME DualIInv, CreateRow PROVE DualIInv'
<1>a. /\ TypeOK /\ ListConsistent /\ BasisConsistent /\ Complete /\ CreateInv
  BY DEF DualIInv
<1>b. /\ pc = "create" /\ iRow < NumRow
      /\ iRow' = iRow + 1
      /\ UNCHANGED <<workArray, workCutoff, basicIndex, nonbasicFlag, rowOut,
                     pending, iteration, pc>>
  BY Zenon DEF CreateRow
<1>c. iRow \in Rows /\ iRow' \in 0..NumRow
  BY <1>a, <1>b DEF TypeOK, Rows
<1>0. /\ TypeOK /\ ListConsistent /\ BasisConsistent /\ Complete /\ CreateInv
      /\ pc = "create" /\ iRow \in Rows /\ iRow' \in 0..NumRow
      /\ iRow' = iRow + 1
      /\ UNCHANGED <<workArray, workCutoff, basicIndex, nonbasicFlag, rowOut,
                     pending, iteration, pc>>
  BY <1>a, <1>b, <1>c
<1>1. /\ workCount <= iRow
      /\ \A r \in Rows : workMark[r] => r < iRow
  BY <1>0 DEF CreateInv
<1>2. Unsettled = {r \in Rows : r >= iRow} /\ Unsettled' = {r \in Rows : r >= iRow + 1}
  BY <1>0 DEF Unsettled
<1>3. BasisConsistent'
  BY <1>0 DEF BasisConsistent
<1>4. CASE workArray[iRow] > workCutoff
  <2>1. AddToList(iRow)
    BY <1>4 DEF CreateRow
  <2>2. ~workMark[iRow] /\ workCount < NumRow
    BY <1>0, <1>1 DEF Rows, TypeOK
  <2>3. /\ workCount' \in 0..NumRow /\ workIndex' \in [Rows -> Rows]
        /\ workMark' \in [Rows -> BOOLEAN] /\ ListConsistent'
    BY <1>0, <2>1, <2>2, AddToListInv
  <2>4. workMark' = [workMark EXCEPT ![iRow] = TRUE] /\ workCount' = workCount + 1
    BY <2>1 DEF AddToList
  <2>9. /\ workArray' \in [Rows -> Infeas] /\ workCutoff' \in Cutoffs
        /\ basicIndex' \in [Rows -> Vars] /\ nonbasicFlag' \in [Vars -> {0, 1}]
        /\ rowOut' \in Rows /\ pending' \in SUBSET Rows
        /\ iteration' \in 0..MaxIter /\ pc' = "create"
    BY <1>0 DEF TypeOK
  <2>5. TypeOK'
    BY <1>0, <2>3, <2>9, TypeStep
  <2>6. Complete'
    BY <1>0, <1>2, <2>4, <1>4 DEF Complete, TypeOK
  <2>7. CreateInv'
    BY <1>0, <1>1, <2>4 DEF CreateInv, TypeOK
  <2>8. QED
    BY <1>0, <1>3, <2>3, <2>5, <2>6, <2>7 DEF DualIInv, ChuzcInv, OptimalOnlyIfFeasible
<1>5. CASE ~(workArray[iRow] > workCutoff)
  <2>1. UNCHANGED <<workIndex, workCount, workMark>>
    BY <1>5 DEF CreateRow
  <2>7. /\ workArray' \in [Rows -> Infeas] /\ workCutoff' \in Cutoffs
        /\ basicIndex' \in [Rows -> Vars] /\ nonbasicFlag' \in [Vars -> {0, 1}]
        /\ rowOut' \in Rows /\ pending' \in SUBSET Rows
        /\ iteration' \in 0..MaxIter /\ pc' = "create"
        /\ workCount' \in 0..NumRow /\ workIndex' \in [Rows -> Rows]
        /\ workMark' \in [Rows -> BOOLEAN]
    BY <1>0, <2>1 DEF TypeOK
  <2>2. TypeOK'
    BY <1>0, <2>7, TypeStep
  <2>3. ListConsistent'
    BY <1>0, <2>1 DEF ListConsistent, Listed
  <2>4. Complete'
    BY <1>0, <1>2, <2>1, <1>5 DEF Complete, TypeOK
  <2>5. CreateInv'
    BY <1>0, <1>1, <2>1 DEF CreateInv, TypeOK
  <2>6. QED
    BY <1>0, <1>3, <2>2, <2>3, <2>4, <2>5 DEF DualIInv, ChuzcInv, OptimalOnlyIfFeasible
<1>6. QED
  BY <1>4, <1>5

LEMMA ChooseNoneIInv ==
  ASSUME DualIInv, ChooseNone PROVE DualIInv'
<1>0. /\ TypeOK /\ ListConsistent /\ Complete /\ pc = "chuzr"
      /\ \A r \in Rows : Listed(r) => workArray[r] = 0
  BY DEF DualIInv, ChooseNone
<1>1. CASE workCutoff > 0
  BY <1>1, RestartStep, DualRHSAssumption DEF ChooseNone, TypeOK
<1>2. CASE workCutoff = 0
  <2>1. /\ pc' = "optimal"
        /\ UNCHANGED <<workCutoff, workMark, workCount, iRow, workArray,
                       workIndex, basicIndex, nonbasicFlag, rowOut, pending,
                       iteration>>
    BY <1>2 DEF ChooseNone
  <2>2. \A r \in Rows : workArray[r] = 0
    <3> SUFFICES ASSUME NEW r \in Rows, workArray[r] # 0 PROVE FALSE
      OBVIOUS
    <3>1. workArray[r] > workCutoff
      BY <1>0, <1>2 DEF TypeOK, Infeas
    <3>2. workMark[r]
      BY <1>0, <3>1 DEF Complete, Unsettled
    <3>3. Listed(r)
      BY <1>0, <3>2 DEF ListConsistent
    <3>4. QED
      BY <1>0, <3>3
  <2>3. TypeOK'
    BY <2>1, TypeStep DEF DualIInv, TypeOK
  <2>4. ListConsistent' /\ BasisConsistent'
    BY <2>1 DEF DualIInv, ListConsistent, Listed, BasisConsistent
  <2>5. Complete'
    BY <1>0, <2>1 DEF Complete, Unsettled
  <2>6. QED
    BY <2>1, <2>2, <2>3, <2>4, <2>5 DEF DualIInv, CreateInv, ChuzcInv, OptimalOnlyIfFeasible
<1>3. QED
  BY <1>0, <1>1, <1>2 DEF TypeOK

(* update_pivots keeps the basis a basis: the entering q was nonbasic, so  *)
(* it is basic nowhere else, and the leaving variable is basic nowhere     *)
(* else either.                                                            *)
LEMMA PivotInv ==
  ASSUME TypeOK, BasisConsistent, NEW q \in Vars, nonbasicFlag[q] = 1,
         Pivot(q)
  PROVE  /\ basicIndex' \in [Rows -> Vars]
         /\ nonbasicFlag' \in [Vars -> {0, 1}]
         /\ BasisConsistent'
<1> DEFINE b == basicIndex[rowOut]
<1>1. /\ rowOut \in Rows /\ b \in Vars
      /\ basicIndex' = [basicIndex EXCEPT ![rowOut] = q]
      /\ nonbasicFlag' = [nonbasicFlag EXCEPT ![q] = 0, ![b] = 1]
  BY DEF TypeOK, Pivot
<1>2. \A r \in Rows : basicIndex[r] # q
  BY DEF BasisConsistent, TypeOK
<1>3. \A r \in Rows : r # rowOut => basicIndex[r] # b
  BY <1>1 DEF BasisConsistent
<1>4. b # q
  BY <1>1, <1>2
<1>5. /\ basicIndex' \in [Rows -> Vars]
      /\ nonbasicFlag' \in [Vars -> {0, 1}]
  BY <1>1 DEF TypeOK
<1>6. \A r, s \in Rows : r # s => basicIndex'[r] # basicIndex'[s]
  BY <1>1, <1>2 DEF BasisConsistent, TypeOK
<1>7. \A v \in Vars : nonbasicFlag'[v] = 0 <=> \E r \in Rows : basicIndex'[r] = v
  <2> SUFFICES ASSUME NEW v \in Vars
               PROVE  nonbasicFlag'[v] = 0 <=> \E r \in Rows : basicIndex'[r] = v
    OBVIOUS
  <2>1. CASE v = q
    BY <1>1, <2>1 DEF TypeOK
  <2>2. CASE v = b
    BY <1>1, <1>3, <1>4, <2>2 DEF TypeOK
  <2>3. CASE v # q /\ v # b
    <3>1. nonbasicFlag'[v] = nonbasicFlag[v]
      BY <1>1, <2>3 DEF TypeOK
    <3>2. (\E r \in Rows : basicIndex'[r] = v) <=> (\E r \in Rows : basicIndex[r] = v)
      BY <1>1, <2>3 DEF TypeOK
    <3>3. QED
      BY <3>1, <3>2 DEF BasisConsistent
  <2>4. QED
    BY <2>1, <2>2, <2>3
<1>8. QED
  BY <1>5, <1>6, <1>7 DEF BasisConsistent

LEMMA ExchangeIInv ==
  ASSUME DualIInv, Exchange PROVE DualIInv'
<1>0. /\ TypeOK /\ ListConsistent /\ BasisConsistent /\ Complete
      /\ pc = "chuzc" /\ iteration < MaxIter
      /\ iteration' = iteration + 1 /\ pc' = "updlist"
      /\ UNCHANGED <<workCutoff, workCount, workIndex, workMark, rowOut, iRow>>
  BY DEF DualIInv, Exchange, ChuzcInv
<1>1. PICK q \in Vars, touched \in SUBSET Rows, new \in [Rows -> Infeas] :
        /\ nonbasicFlag[q] = 1
        /\ rowOut \in touched
        /\ Pivot(q)
        /\ workArray' = [r \in Rows |-> IF r \in touched THEN new[r]
                                                         ELSE workArray[r]]
        /\ Revisit(touched)
  BY DEF Exchange
<1>2. /\ basicIndex' \in [Rows -> Vars]
      /\ nonbasicFlag' \in [Vars -> {0, 1}]
      /\ BasisConsistent'
  BY <1>0, <1>1, PivotInv
<1>3. workArray' \in [Rows -> Infeas] /\ pending' = touched
  BY <1>0, <1>1 DEF Revisit, TypeOK
<1>4. TypeOK'
  <2>1. /\ workCutoff' \in Cutoffs /\ workCount' \in 0..NumRow
        /\ workIndex' \in [Rows -> Rows] /\ workMark' \in [Rows -> BOOLEAN]
        /\ rowOut' \in Rows /\ iRow' \in 0..NumRow
        /\ iteration' \in 0..MaxIter
    BY <1>0 DEF TypeOK
  <2>2. QED
    BY <1>0, <1>2, <1>3, <2>1, TypeStep
<1>5. ListConsistent'
  BY <1>0 DEF ListConsistent, Listed
<1>6. Complete'
  <2>1. Unsettled = {} /\ Unsettled' = touched
    BY <1>0, <1>3 DEF Unsettled
  <2>2. \A r \in Rows \ touched : workArray'[r] = workArray[r]
    BY <1>1
  <2>3. QED
    BY <1>0, <2>1, <2>2 DEF Complete
<1>7. QED
  BY <1>0, <1>2, <1>4, <1>5, <1>6 DEF DualIInv, CreateInv, ChuzcInv,
                                      OptimalOnlyIfFeasible

LEMMA UpdateListRowIInv ==
  ASSUME DualIInv, UpdateListRow PROVE DualIInv'
<1>0. /\ TypeOK /\ ListConsistent /\ BasisConsistent /\ Complete
      /\ pc = "updlist"
      /\ UNCHANGED <<workArray, workCutoff, basicIndex, nonbasicFlag, rowOut,
                     iRow, iteration, pc>>
  BY DEF DualIInv, UpdateListRow
<1>1. PICK r \in pending : AddIfNew(r) /\ pending' = pending \ {r}
  BY DEF UpdateListRow
<1>2. r \in Rows /\ Unsettled = pending /\ Unsettled' = pending \ {r}
  BY <1>0, <1>1 DEF Unsettled, TypeOK
<1>3. BasisConsistent'
  BY <1>0 DEF BasisConsistent
<1>4. /\ workArray' \in [Rows -> Infeas] /\ workCutoff' \in Cutoffs
      /\ basicIndex' \in [Rows -> Vars] /\ nonbasicFlag' \in [Vars -> {0, 1}]
      /\ rowOut' \in Rows /\ pending' \in SUBSET Rows /\ iRow' \in 0..NumRow
      /\ iteration' \in 0..MaxIter /\ pc' = "updlist"
  BY <1>0, <1>1 DEF TypeOK
<1>5. CASE workArray[r] > workCutoff /\ ~workMark[r]
  <2>1. AddToList(r)
    BY <1>1, <1>5 DEF AddIfNew
  <2>2. workCount < NumRow
    <3>1. \A i \in 0..workCount - 1 : workIndex[i] # r
      BY <1>0, <1>2, <1>5 DEF ListConsistent, Listed
    <3>2. QED
      BY <1>0, <1>2, <3>1, ListRoom DEF ListConsistent, TypeOK
  <2>3. /\ workCount' \in 0..NumRow /\ workIndex' \in [Rows -> Rows]
        /\ workMark' \in [Rows -> BOOLEAN] /\ ListConsistent'
    BY <1>0, <1>2, <1>5, <2>1, <2>2, AddToListInv
  <2>4. workMark' = [workMark EXCEPT ![r] = TRUE]
    BY <2>1 DEF AddToList
  <2>5. TypeOK'
    BY <1>4, <2>3, TypeStep
  <2>6. Complete'
    BY <1>0, <1>2, <2>4 DEF Complete, TypeOK
  <2>7. QED
    BY <1>0, <1>3, <2>3, <2>5, <2>6 DEF DualIInv, CreateInv, ChuzcInv,
                                        OptimalOnlyIfFeasible
<1>6. CASE ~(workArray[r] > workCutoff /\ ~workMark[r])
  <2>1. UNCHANGED <<workIndex, workCount, workMark>>
    BY <1>1, <1>6 DEF AddIfNew
  <2>2. TypeOK'
    <3>1. /\ workCount' \in 0..NumRow /\ workIndex' \in [Rows -> Rows]
          /\ workMark' \in [Rows -> BOOLEAN]
      BY <1>0, <2>1 DEF TypeOK
    <3>2. QED
      BY <1>4, <3>1, TypeStep
  <2>3. ListConsistent'
    BY <1>0, <2>1 DEF ListConsistent, Listed
  <2>4. Complete'
    BY <1>0, <1>2, <1>6, <2>1 DEF Complete
  <2>5. QED
    BY <1>0, <1>3, <2>2, <2>3, <2>4 DEF DualIInv, CreateInv, ChuzcInv,
                                        OptimalOnlyIfFeasible
<1>7. QED
  BY <1>5, <1>6

LEMMA StutterIInv ==
  ASSUME DualIInv, UNCHANGED vars PROVE DualIInv'
  BY DEF DualIInv, vars, TypeOK, ListConsistent, Listed, BasisConsistent,
         Complete, Unsettled, CreateInv, ChuzcInv, OptimalOnlyIfFeasible

(* Every state of the dual simplex iteration satisfies DualIInv, for every *)
(* numRow, numCol, infeasibility bound, set of cutoffs and iteration limit. *)
THEOREM DualRHSInvariant == Spec => []DualIInv
<1>1. Init => DualIInv
  BY InitIInv
<1>2. DualIInv /\ [Next]_vars => DualIInv'
  BY CreateStartIInv, CreateRowIInv, CreateDoneIInv, ChooseRowIInv,
     ChooseNoneIInv, IterationLimitIInv, ReinvertIInv, NoEnteringColumnIInv,
     ExchangeIInv, UpdateListRowIInv, UpdateListDoneIInv, StutterIInv
  DEF Next
<1>3. QED
  BY <1>1, <1>2, PTL DEF Spec

(* The candidate list kept by create_infeasList and update_infeasList     *)
(* never holds a row twice or outgrows its numRow entries, and its marks   *)
(* match it.                                                               *)
THEOREM ListAlwaysConsistent == Spec => []ListConsistent
  BY DualRHSInvariant, PTL DEF DualIInv

(* When choose_normal runs, every row above the cutoff is in its list.     *)
THEOREM CandidatesAlwaysComplete == Spec => []CandidateComplete
<1>1. DualIInv => CandidateComplete
  BY DEF DualIInv, Complete, Unsettled, CandidateComplete
<1>2. QED
  BY <1>1, DualRHSInvariant, PTL

(* The dual simplex declares optimality only at a primal feasible basis.   *)
THEOREM OptimalityIsFeasible == Spec => []OptimalOnlyIfFeasible
  BY DualRHSInvariant, PTL DEF DualIInv

(* update_pivots keeps basicIndex and nonbasicFlag a basis.                *)
THEOREM BasisAlwaysConsistent == Spec => []BasisConsistent
  BY DualRHSInvariant, PTL DEF DualIInv

(* Every variable of the dual simplex loop keeps its type: in particular   *)
(* workCount stays within 0..numRow and workIndex an array of rows.        *)
THEOREM DualRHSTypeCorrect == Spec => []TypeOK
  BY DualRHSInvariant, PTL DEF DualIInv
=============================================================================
