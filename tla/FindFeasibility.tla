--------------------------- MODULE FindFeasibility ---------------------------
(***************************************************************************)
(* The quadratic-penalty feasibility search of FindFeasibility.cpp:        *)
(* runFeasibility(lp, solution, type) for an equality problem Ax = b,      *)
(* l <= x <= u.  It sets x_0 from the bounds (initialize), builds the     *)
(* Quadratic, whose col_value_, row_value_, residual_ and objective_ it   *)
(* keeps, and runs K outer iterations, each a call of                      *)
(* minimize_by_component (Sweeps sweeps over the columns, minimizing the   *)
(* penalty function in one x_j at a time) followed by an update of mu or   *)
(* of lambda.                                                              *)
(*                                                                         *)
(* The data are integers.  The minimizer theta = -b/a of the quadratic in  *)
(* one column is a real computed from mu, lambda and the residual; the     *)
(* model lets it be any member of Thetas, and keeps everything the code    *)
(* does with it -- the projection on the bounds and the incremental        *)
(* updates of x, the objective, the row values and the residual -- exact.  *)
(* A zero entry of A stands for an entry that is not stored, so a stored   *)
(* column has a > 0.  The norm test residual_norm_2 < kExitTolerance is,   *)
(* on integers, "the residual is zero".                                    *)
(***************************************************************************)
EXTENDS Integers, Sequences

CONSTANTS
  NumRow,     \* lp.numRow_
  NumCol,     \* lp.numCol_
  Coefs,      \* the values of the entries of A; 0 is an entry not stored
  RowBounds,  \* the values of rowLower_ and rowUpper_
  ColBounds,  \* the pairs <<colLower_, colUpper_>> of a column
  Costs,      \* the values of colCost_
  Thetas,     \* the values the minimizer -b/a of one column may take
  Guesses,    \* the values in a solution the caller passes in
  Sweeps,     \* the iterations of minimize_by_component (100 in the code)
  K           \* the outer iterations of runFeasibility (30 in the code)

ASSUME FeasibilityAssumption ==
  /\ NumRow \in Nat /\ NumCol \in Nat \ {0}
  /\ Coefs \subseteq Int /\ RowBounds \subseteq Int /\ Costs \subseteq Int
  /\ ColBounds \subseteq Int \X Int
  /\ Thetas \subseteq Int /\ Guesses \subseteq Int
  /\ Sweeps \in Nat \ {0} /\ K \in Nat \ {0}

Rows == 1..NumRow
Cols == 1..NumCol

(* The LPs runFeasibility may be given (HighsLp; A as a dense matrix, row  *)
(* by row, whose zero entries are the ones the column-wise store omits).   *)
LPs == [A : [Rows -> [Cols -> Coefs]],
        rowLower : [Rows -> RowBounds], rowUpper : [Rows -> RowBounds],
        colBounds : [Cols -> ColBounds], colCost : [Cols -> Costs],
        sense : {"minimize", "maximize"}]

VARIABLES
  lp,         \* the HighsLp, read only
  type,       \* the MinimizationType argument
  solCol,     \* solution.col_value
  solRow,     \* solution.row_value
  x,          \* quadratic.col_value_
  rowVal,     \* quadratic.row_value_
  residual,   \* quadratic.residual_
  objective,  \* quadratic.objective_
  muCuts,     \* mu = 10 * 0.1^muCuts
  lambda,     \* lambda = lambda.mu * lambda.res, as last set
  iteration,  \* the outer loop counter of runFeasibility
  sweep,      \* the loop counter "iteration" of minimize_by_component
  col,        \* the column loop counter of minimize_by_component
  pc,         \* where runFeasibility is
  status      \* the HighsStatus returned, "none" before the return

vars == <<lp, type, solCol, solRow, x, rowVal, residual, objective, muCuts,
          lambda, iteration, sweep, col, pc, status>>

-----------------------------------------------------------------------------
Lower(c) == lp.colBounds[c][1]
Upper(c) == lp.colBounds[c][2]

(* std::min and std::max.                                                  *)
StdMin(a, b) == IF b < a THEN b ELSE a
StdMax(a, b) == IF a < b THEN b ELSE a

(* isEqualityProblem: rowLower_ = rowUpper_ in every row.                  *)
IsEqualityProblem == \A r \in Rows : lp.rowLower[r] = lp.rowUpper[r]

(* isSolutionConsistent: the solution's vectors have the LP's sizes.       *)
IsSolutionConsistent == Len(solCol) = NumCol /\ Len(solRow) = NumRow

(* initialize: x_0[col] is 0 if the bounds allow it, else the bound       *)
(* nearest to 0.                                                           *)
InitialValue(c) ==
  CASE Lower(c) <= 0 /\ Upper(c) >= 0 -> 0
    [] Lower(c) > 0                   -> Lower(c)
    [] Upper(c) < 0                   -> Upper(c)

(* The accumulating loops over the columns: the running sum s[k] after    *)
(* column k is s[k - 1] + f[k], and the loop's result is s[NumCol].        *)
ColSum(f) ==
  LET s[k \in 0..NumCol] == IF k = 0 THEN 0 ELSE s[k - 1] + f[k]
  IN  s[NumCol]

(* updateRowValue, updateResidual and updateObjective: A v, rowUpper - Av *)
(* and c'v from scratch.                                                   *)
RowValue(v) == [r \in Rows |-> ColSum([c \in Cols |-> lp.A[r][c] * v[c]])]
Residual(v) == [r \in Rows |-> lp.rowUpper[r] - RowValue(v)[r]]
Objective(v) == ColSum([c \in Cols |-> lp.colCost[c] * v[c]])

(* Quadratic::update(): the three from scratch, for the current x.         *)
Update(v) ==
  /\ objective' = Objective(v)
  /\ rowVal' = RowValue(v)
  /\ residual' = Residual(v)

Zero == [r \in Rows |-> 0]

(* The matlab projection of theta on the bounds of column c.               *)
Project(theta, c) ==
  IF theta > 0 THEN StdMin(theta, Upper(c)) ELSE StdMax(theta, Lower(c))

EmptyColumn(c) == \A r \in Rows : lp.A[r][c] = 0

-----------------------------------------------------------------------------
Init ==
  /\ lp \in LPs
  /\ type \in {"kComponentWise", "kExact"}
  /\ \/ solCol \in [Cols -> Guesses] /\ solRow \in [Rows -> Guesses]
     \/ solCol = <<>> /\ solRow = <<>>
  /\ x = [c \in Cols |-> 0]
  /\ rowVal = Zero
  /\ residual = Zero
  /\ objective = 0
  /\ muCuts = 0
  /\ lambda = [mu |-> 0, res |-> <<>>]
  /\ iteration = 0
  /\ sweep = 0
  /\ col = 1
  /\ pc = "start"
  /\ status = "none"

(* runFeasibility up to the construction of the Quadratic: a problem that  *)
(* is not an equality problem is NotImplemented; otherwise initialize      *)
(* clears the solution if it is not consistent, sets x_0, mu = 10 and      *)
(* lambda = 0 (its status is ignored), and Quadratic(lp, col_value) copies *)
(* x_0 and calls update().  A maximization problem only gets a message.    *)
Start ==
  /\ pc = "start"
  /\ \/ /\ ~IsEqualityProblem
        /\ status' = "NotImplemented"
        /\ pc' = "done"
        /\ UNCHANGED <<solCol, solRow, x, rowVal, residual, objective,
                       muCuts, lambda>>
     \/ /\ IsEqualityProblem
        /\ LET x0 == [c \in Cols |-> InitialValue(c)]
           IN  /\ solCol' = x0
               /\ solRow' = IF IsSolutionConsistent THEN solRow ELSE <<>>
               /\ x' = x0
               /\ Update(x0)
        /\ muCuts' = 0
        /\ lambda' = [mu |-> 0, res |-> Zero]
        /\ pc' = "dispatch"
        /\ UNCHANGED status
  /\ UNCHANGED <<lp, type, iteration, sweep, col>>

(* kExact is NotImplemented; a residual of norm below kExitTolerance       *)
(* returns OK at once, without getSolution; else the outer loop starts    *)
(* with iteration = 1 and a call of minimize_by_component.                 *)
Dispatch ==
  /\ pc = "dispatch"
  /\ \/ /\ type = "kExact"
        /\ status' = "NotImplemented"
        /\ pc' = "done"
        /\ UNCHANGED <<iteration, sweep, col>>
     \/ /\ type = "kComponentWise"
        /\ residual = Zero
        /\ status' = "OK"
        /\ pc' = "done"
        /\ UNCHANGED <<iteration, sweep, col>>
     \/ /\ type = "kComponentWise"
        /\ residual # Zero
        /\ iteration' = 1
        /\ sweep' = 0
        /\ col' = 1
        /\ pc' = "minimize"
        /\ UNCHANGED status
  /\ UNCHANGED <<lp, type, solCol, solRow, x, rowVal, residual, objective,
                 muCuts, lambda>>

ResidualUpdateSignFlipped(theta) ==  \* residual_[row] += a * delta_x
  LET delta == Project(theta, col) - x[col]
  IN  /\ x' = [x EXCEPT ![col] = x[col] + delta]
      /\ objective' = objective + lp.colCost[col] * delta
      /\ residual' = [r \in Rows |-> residual[r] + lp.A[r][col] * delta]
      /\ rowVal' = [r \in Rows |-> rowVal[r] + lp.A[r][col] * delta]

(* One column of a sweep of minimize_by_component: x_col moves to the      *)
(* projection of theta, and the objective, the residual and the row values *)
(* follow by the change delta_x.                                           *)
ColumnUpdate(theta) ==
  LET delta == Project(theta, col) - x[col]
  IN  /\ x' = [x EXCEPT ![col] = x[col] + delta]
      /\ objective' = objective + lp.colCost[col] * delta
      /\ residual' = [r \in Rows |-> residual[r] - lp.A[r][col] * delta]
      /\ rowVal' = [r \in Rows |-> rowVal[r] + lp.A[r][col] * delta]

(* for (col = 0; col < numCol_; col++): an empty column is skipped.        *)
MinorStep ==
  /\ pc = "minimize"
  /\ col <= NumCol
  /\ \/ /\ EmptyColumn(col)
        /\ UNCHANGED <<x, rowVal, residual, objective>>
     \/ /\ ~EmptyColumn(col)
        /\ \E theta \in Thetas : ColumnUpdate(theta)
  /\ col' = col + 1
  /\ UNCHANGED <<lp, type, solCol, solRow, muCuts, lambda, iteration, sweep,
                 pc, status>>

(* A sweep ends with update(); after the last sweep minimize_by_component  *)
(* calls update() once more and returns to the outer loop.                 *)
SweepDone ==
  /\ pc = "minimize"
  /\ col > NumCol
  /\ Update(x)
  /\ sweep' = sweep + 1
  /\ IF sweep + 1 < Sweeps THEN col' = 1 /\ pc' = "minimize"
                           ELSE col' = col /\ pc' = "check"
  /\ UNCHANGED <<lp, type, solCol, solRow, x, muCuts, lambda, iteration,
                 status>>

OuterStepShortLoop ==  \* the loop runs while iteration < K
  /\ pc = "check"
  /\ \/ /\ residual = Zero
        /\ pc' = "finish"
        /\ UNCHANGED <<muCuts, lambda, iteration, sweep, col>>
     \/ /\ residual # Zero
        /\ IF iteration % 3 = 2
             THEN muCuts' = muCuts + 1 /\ UNCHANGED lambda
             ELSE lambda' = [mu |-> muCuts, res |-> residual]
                  /\ UNCHANGED muCuts
        /\ iteration' = iteration + 1
        /\ IF iteration + 1 < K
             THEN pc' = "minimize" /\ sweep' = 0 /\ col' = 1
             ELSE pc' = "finish" /\ UNCHANGED <<sweep, col>>
  /\ UNCHANGED <<lp, type, solCol, solRow, x, rowVal, residual, objective,
                 status>>

OuterStepOneMore ==  \* the loop runs while iteration < K + 2
  /\ pc = "check"
  /\ \/ /\ residual = Zero
        /\ pc' = "finish"
        /\ UNCHANGED <<muCuts, lambda, iteration, sweep, col>>
     \/ /\ residual # Zero
        /\ IF iteration % 3 = 2
             THEN muCuts' = muCuts + 1 /\ UNCHANGED lambda
             ELSE lambda' = [mu |-> muCuts, res |-> residual]
                  /\ UNCHANGED muCuts
        /\ iteration' = iteration + 1
        /\ IF iteration + 1 < K + 2
             THEN pc' = "minimize" /\ sweep' = 0 /\ col' = 1
             ELSE pc' = "finish" /\ UNCHANGED <<sweep, col>>
  /\ UNCHANGED <<lp, type, solCol, solRow, x, rowVal, residual, objective,
                 status>>

(* After minimize_by_component: a residual below kExitTolerance breaks    *)
(* the loop; else mu = 0.1 mu when iteration % 3 == 2, otherwise lambda    *)
(* = mu * residual, and the next iteration runs while iteration < K + 1.   *)
OuterStep ==
  /\ pc = "check"
  /\ \/ /\ residual = Zero
        /\ pc' = "finish"
        /\ UNCHANGED <<muCuts, lambda, iteration, sweep, col>>
     \/ /\ residual # Zero
        /\ IF iteration % 3 = 2
             THEN muCuts' = muCuts + 1 /\ UNCHANGED lambda
             ELSE lambda' = [mu |-> muCuts, res |-> residual]
                  /\ UNCHANGED muCuts
        /\ iteration' = iteration + 1
        /\ IF iteration + 1 < K + 1
             THEN pc' = "minimize" /\ sweep' = 0 /\ col' = 1
             ELSE pc' = "finish" /\ UNCHANGED <<sweep, col>>
  /\ UNCHANGED <<lp, type, solCol, solRow, x, rowVal, residual, objective,
                 status>>

(* quadratic.getSolution(solution) and return OK.                          *)
Finish ==
  /\ pc = "finish"
  /\ solCol' = x
  /\ solRow' = rowVal
  /\ status' = "OK"
  /\ pc' = "done"
  /\ UNCHANGED <<lp, type, x, rowVal, residual, objective, muCuts, lambda,
                 iteration, sweep, col>>

Next == Start \/ Dispatch \/ MinorStep \/ SweepDone \/ OuterStep \/ Finish

Spec == Init /\ [][Next]_vars

-----------------------------------------------------------------------------
(***************************************************************************)
(* Properties.                                                             *)
(***************************************************************************)

IsIntVector(v) ==
  \E m \in {0, NumRow, NumCol} : v \in [1..m -> Int]

(* The type of every variable.                                             *)
TypeOK ==
  /\ lp \in LPs
  /\ type \in {"kComponentWise", "kExact"}
  /\ IsIntVector(solCol) /\ IsIntVector(solRow)
  /\ x \in [Cols -> Int] /\ rowVal \in [Rows -> Int]
  /\ residual \in [Rows -> Int] /\ objective \in Int
  /\ muCuts \in Nat /\ lambda.mu \in Nat /\ IsIntVector(lambda.res)
  /\ iteration \in 0..K + 1 /\ sweep \in 0..Sweeps /\ col \in 1..NumCol + 1
  /\ pc \in {"start", "dispatch", "minimize", "check", "finish", "done"}
  /\ status \in {"none", "OK", "NotImplemented"}

(* The incremental updates of minimize_by_component (x_col += delta_x,     *)
(* objective_ += c_col delta_x, residual_ -= a delta_x, row_value_ +=     *)
(* a delta_x) keep the Quadratic's row values, residual and objective     *)
(* those of its col_value_, as update() would compute them from scratch.   *)
IncrementalConsistent ==
  pc \in {"dispatch", "minimize", "check", "finish"} =>
    /\ rowVal = RowValue(x)
    /\ residual = Residual(x)
    /\ objective = Objective(x)

(* runFeasibility returns OK with a Quadratic whose residual is above     *)
(* kExitTolerance only after all K outer iterations have run: the start   *)
(* test and the break of the loop return OK on a feasible x, and no other  *)
(* path leaves the loop early.                                             *)
OKOnlyFeasibleOrExhausted ==
  status = "OK" => residual = Zero \/ iteration = K + 1

(* Whenever runFeasibility returns OK the solution is whole and            *)
(* consistent: row_value has the LP's numRow entries and is A col_value.   *)
SolutionConsistentOnOK ==
  status = "OK" => solRow = RowValue(solCol)

(* Whenever runFeasibility returns OK, col_value lies within the column    *)
(* bounds l <= x <= u of the problem it was asked to satisfy.              *)
WithinBoundsOnOK ==
  status = "OK" => \A c \in Cols : Lower(c) <= solCol[c] /\ solCol[c] <= Upper(c)

(* runFeasibility does not support maximization: it does not return OK on  *)
(* a maximization problem.                                                 *)
MaximizationRejected ==
  status = "OK" => lp.sense = "minimize"

=============================================================================
