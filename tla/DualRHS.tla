------------------------------- MODULE DualRHS -------------------------------
(***************************************************************************)
(* The CHUZR side of a serial dual simplex iteration: HDualRHS's list of   *)
(* the rows with the greatest primal infeasibilities, the choice of the    *)
(* leaving row from it, and the basis exchange and primal update that     *)
(* change the infeasibilities the list is kept for.  HDualRHS.h declares   *)
(* the operations and the state (workCutoff, workCount, workMark,         *)
(* workIndex, workArray); their bodies are not in this snapshot, so each   *)
(* action follows the design's description of it (DualRHS, SimplexState    *)
(* transitions).                                                           *)
(*                                                                         *)
(* Rows and variables are 0-based as in the code: rows 0..NumRow-1,        *)
(* structural columns 0..NumCol-1, and the logical of row r is variable   *)
(* NumCol + r.  An infeasibility is a small natural number (0 when the     *)
(* basic variable is feasible).  The edge weights are left out: with some  *)
(* weights, any listed row of positive infeasibility is the argmax of      *)
(* infeasibility / weight, so the choice is any such row.                  *)
(***************************************************************************)
EXTENDS Integers

CONSTANTS
  NumRow,    \* numRow_
  NumCol,    \* numCol_
  MaxInf,    \* the largest infeasibility value
  Cutoffs,   \* the cutoffs create_infeasList may choose
  MaxIter    \* the iteration limit

ASSUME DualRHSAssumption ==
  /\ NumRow \in Nat \ {0} /\ NumCol \in Nat
  /\ MaxInf \in Nat \ {0}
  /\ Cutoffs \subseteq 0..MaxInf /\ 0 \in Cutoffs
  /\ MaxIter \in Nat

Rows == 0..NumRow - 1
Vars == 0..NumCol + NumRow - 1
Infeas == 0..MaxInf

VARIABLES
  workArray,     \* primal infeasibility of the basic variable of each row
  workCutoff,    \* the list holds the rows whose infeasibility exceeds it
  workCount,     \* length of the list
  workIndex,     \* the list: workIndex[0..workCount-1]
  workMark,      \* workMark[r]: r is in the list
  basicIndex,    \* the basic variable of each row
  nonbasicFlag,  \* 1 for a nonbasic variable, 0 for a basic one
  rowOut,        \* the row chosen by CHUZR
  pending,       \* the rows of the update column update_infeasList is yet to visit
  iRow,          \* the row loop counter of create_infeasList
  iteration,     \* the iteration count
  pc             \* where the iteration is

vars == <<workArray, workCutoff, workCount, workIndex, workMark, basicIndex,
          nonbasicFlag, rowOut, pending, iRow, iteration, pc>>

(* Row r is in the candidate list.                                         *)
Listed(r) == \E i \in 0..workCount - 1 : workIndex[i] = r

(* workIndex[workCount++] = r; workMark[r] = 1.                            *)
AddToList(r) ==
  /\ workIndex' = [workIndex EXCEPT ![workCount] = r]
  /\ workCount' = workCount + 1
  /\ workMark' = [workMark EXCEPT ![r] = TRUE]

-----------------------------------------------------------------------------
(* A basis has just been set up with the logicals basic; setup() has sized *)
(* the list and cleared its marks; the primal values, and so the           *)
(* infeasibilities, are whatever the starting point gives.                 *)
Init ==
  /\ workArray \in [Rows -> Infeas]
  /\ workCutoff = 0
  /\ workCount = 0
  /\ workIndex = [i \in Rows |-> 0]
  /\ workMark = [r \in Rows |-> FALSE]
  /\ basicIndex = [r \in Rows |-> NumCol + r]
  /\ nonbasicFlag = [v \in Vars |-> IF v < NumCol THEN 1 ELSE 0]
  /\ rowOut = 0
  /\ pending = {}
  /\ iRow = 0
  /\ iteration = 0
  /\ pc = "rebuild"

(* create_infeasList(columnDensity): clear the marks and the list and      *)
(* choose a cutoff adapted to the density.                                 *)
CreateStart ==
  /\ pc = "rebuild"
  /\ \E c \in Cutoffs : workCutoff' = c
  /\ workMark' = [r \in Rows |-> FALSE]
  /\ workCount' = 0
  /\ iRow' = 0
  /\ pc' = "create"
  /\ UNCHANGED <<workArray, workIndex, basicIndex, nonbasicFlag, rowOut,
                 pending, iteration>>

(* One row of the scan of create_infeasList: a row above the cutoff joins *)
(* the list.                                                               *)
CreateRow ==
  /\ pc = "create"
  /\ iRow < NumRow
  /\ IF workArray[iRow] > workCutoff
       THEN AddToList(iRow)
       ELSE UNCHANGED <<workIndex, workCount, workMark>>
  /\ iRow' = iRow + 1
  /\ UNCHANGED <<workArray, workCutoff, basicIndex, nonbasicFlag, rowOut,
                 pending, iteration, pc>>

CreateDone ==
  /\ pc = "create"
  /\ iRow = NumRow
  /\ pc' = "chuzr"
  /\ UNCHANGED <<workArray, workCutoff, workCount, workIndex, workMark,
                 basicIndex, nonbasicFlag, rowOut, pending, iRow, iteration>>

(* choose_normal: a listed row of positive infeasibility leaves.           *)
ChooseRow ==
  /\ pc = "chuzr"
  /\ iteration < MaxIter
  /\ \E r \in Rows : /\ Listed(r) /\ workArray[r] > 0
                     /\ rowOut' = r
  /\ pc' = "chuzc"
  /\ UNCHANGED <<workArray, workCutoff, workCount, workIndex, workMark,
                 basicIndex, nonbasicFlag, pending, iRow, iteration>>

ChooseNoneKeepCutoff ==  \* an empty choice is taken as optimality at once
  /\ pc = "chuzr"
  /\ \A r \in Rows : Listed(r) => workArray[r] = 0
  /\ pc' = "optimal"
  /\ UNCHANGED <<workArray, workCutoff, workCount, workIndex, workMark,
                 basicIndex, nonbasicFlag, rowOut, pending, iRow, iteration>>

(* No listed row is infeasible: if the list was cut off, it is rebuilt     *)
(* from a full scan with the cutoff dropped to 0 and CHUZR runs again;     *)
(* otherwise no row is a candidate and the LP is optimal.                  *)
ChooseNone ==
  /\ pc = "chuzr"
  /\ \A r \in Rows : Listed(r) => workArray[r] = 0
  /\ \/ /\ workCutoff > 0
        /\ workCutoff' = 0
        /\ workMark' = [r \in Rows |-> FALSE]
        /\ workCount' = 0
        /\ iRow' = 0
        /\ pc' = "create"
     \/ /\ workCutoff = 0
        /\ pc' = "optimal"
        /\ UNCHANGED <<workCutoff, workMark, workCount, iRow>>
  /\ UNCHANGED <<workArray, workIndex, basicIndex, nonbasicFlag, rowOut,
                 pending, iteration>>

(* The iteration limit: the solve stops with the current basis.            *)
IterationLimit ==
  /\ pc = "chuzr"
  /\ iteration = MaxIter
  /\ \E r \in Rows : Listed(r) /\ workArray[r] > 0
  /\ pc' = "limit"
  /\ UNCHANGED <<workArray, workCutoff, workCount, workIndex, workMark,
                 basicIndex, nonbasicFlag, rowOut, pending, iRow, iteration>>

(* An invert hint (update limit, numerical trouble) sends the solver to    *)
(* rebuild, which recomputes the primal values and the list.               *)
Reinvert ==
  /\ pc = "chuzr"
  /\ pc' = "rebuild"
  /\ UNCHANGED <<workArray, workCutoff, workCount, workIndex, workMark,
                 basicIndex, nonbasicFlag, rowOut, pending, iRow, iteration>>

(* CHUZC finds no entering column: the dual is unbounded.                  *)
NoEnteringColumn ==
  /\ pc = "chuzc"
  /\ pc' = "unbounded"
  /\ UNCHANGED <<workArray, workCutoff, workCount, workIndex, workMark,
                 basicIndex, nonbasicFlag, rowOut, pending, iRow, iteration>>

PivotLeavingStaysBasic(q) ==  \* the leaving variable's flag not reset
  /\ basicIndex' = [basicIndex EXCEPT ![rowOut] = q]
  /\ nonbasicFlag' = [nonbasicFlag EXCEPT ![q] = 0]

(* update_pivots: q becomes basic in row rowOut and the variable that      *)
(* leaves becomes nonbasic.                                                *)
Pivot(q) ==
  /\ basicIndex' = [basicIndex EXCEPT ![rowOut] = q]
  /\ nonbasicFlag' = [nonbasicFlag EXCEPT ![q] = 0, ![basicIndex[rowOut]] = 1]

RevisitPivotOnly(touched) ==  \* only update_pivots' row is revisited
  pending' = {rowOut}

(* The rows update_infeasList visits: the index of the update column.      *)
Revisit(touched) == pending' = touched

(* CHUZC chooses a nonbasic q and q replaces the leaving variable          *)
(* (update_pivots); update_primal changes the primal values, and so the    *)
(* infeasibilities, of the rows where the pivotal column a_q is nonzero    *)
(* -- the pivot row among them, as alpha = a_q[rowOut] # 0 -- and those    *)
(* rows are to be revisited by update_infeasList.                          *)
Exchange ==
  /\ pc = "chuzc"
  /\ \E q \in Vars, touched \in SUBSET Rows, new \in [Rows -> Infeas] :
       /\ nonbasicFlag[q] = 1
       /\ rowOut \in touched
       /\ Pivot(q)
       /\ workArray' = [r \in Rows |-> IF r \in touched THEN new[r]
                                                        ELSE workArray[r]]
       /\ Revisit(touched)
  /\ iteration' = iteration + 1
  /\ pc' = "updlist"
  /\ UNCHANGED <<workCutoff, workCount, workIndex, workMark, rowOut, iRow>>

AddUnmarked(r) ==  \* the workMark test left out
  IF workArray[r] > workCutoff
    THEN AddToList(r)
    ELSE UNCHANGED <<workIndex, workCount, workMark>>

(* update_infeasList, one row of the column: a row now above the cutoff   *)
(* that is not yet marked joins the list.                                  *)
AddIfNew(r) ==
  IF workArray[r] > workCutoff /\ ~workMark[r]
    THEN AddToList(r)
    ELSE UNCHANGED <<workIndex, workCount, workMark>>

UpdateListRow ==
  /\ pc = "updlist"
  /\ \E r \in pending : /\ AddIfNew(r)
                        /\ pending' = pending \ {r}
  /\ UNCHANGED <<workArray, workCutoff, basicIndex, nonbasicFlag, rowOut,
                 iRow, iteration, pc>>

UpdateListDone ==
  /\ pc = "updlist"
  /\ pending = {}
  /\ pc' = "chuzr"
  /\ UNCHANGED <<workArray, workCutoff, workCount, workIndex, workMark,
                 basicIndex, nonbasicFlag, rowOut, pending, iRow, iteration>>

Next ==
  \/ CreateStart \/ CreateRow \/ CreateDone
  \/ ChooseRow \/ ChooseNone \/ IterationLimit \/ Reinvert
  \/ NoEnteringColumn \/ Exchange
  \/ UpdateListRow \/ UpdateListDone

Spec == Init /\ [][Next]_vars

-----------------------------------------------------------------------------
(***************************************************************************)
(* Properties.                                                             *)
(***************************************************************************)

(* The type of every variable.                                             *)
TypeOK ==
  /\ workArray \in [Rows -> Infeas]
  /\ workCutoff \in Cutoffs
  /\ workCount \in 0..NumRow
  /\ workIndex \in [Rows -> Rows]
  /\ workMark \in [Rows -> BOOLEAN]
  /\ basicIndex \in [Rows -> Vars]
  /\ nonbasicFlag \in [Vars -> {0, 1}]
  /\ rowOut \in Rows /\ pending \in SUBSET Rows /\ iRow \in 0..NumRow
  /\ iteration \in 0..MaxIter
  /\ pc \in {"rebuild", "create", "chuzr", "chuzc", "updlist", "optimal",
             "limit", "unbounded"}

(* The list and its marks agree: workIndex[0..workCount-1] holds no row    *)
(* twice (so it never outgrows the numRow entries setup() gave it), and a  *)
(* row is marked exactly when it is in the list -- through every rebuild   *)
(* by create_infeasList and every addition by update_infeasList.           *)
ListConsistent ==
  /\ \A i, j \in 0..workCount - 1 : i # j => workIndex[i] # workIndex[j]
  /\ \A r \in Rows : workMark[r] <=> Listed(r)

(* When CHUZR runs, every row whose infeasibility exceeds the cutoff is in *)
(* the list, however the primal updates of the iterations since the list   *)
(* was built have moved the infeasibilities.                               *)
CandidateComplete ==
  pc = "chuzr" => \A r \in Rows : workArray[r] > workCutoff => workMark[r]

(* Optimality is declared only when no basic variable is primal           *)
(* infeasible: CHUZR finding no candidate in a cut-off list is not enough. *)
OptimalOnlyIfFeasible ==
  pc = "optimal" => \A r \in Rows : workArray[r] = 0

(* The basis stays a basis through the exchanges: basicIndex holds         *)
(* distinct variables, and a variable is flagged nonbasic exactly when it   *)
(* is not basic -- so numRow variables are basic and numCol nonbasic.      *)
BasisConsistent ==
  /\ \A r, s \in Rows : r # s => basicIndex[r] # basicIndex[s]
  /\ \A v \in Vars : nonbasicFlag[v] = 0 <=> \E r \in Rows : basicIndex[r] = v
=============================================================================
