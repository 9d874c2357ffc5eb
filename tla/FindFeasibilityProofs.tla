------------------------ MODULE FindFeasibilityProofs ------------------------
(***************************************************************************)
(* Proofs about runFeasibility for every size of the LP, every data set    *)
(* and every number of sweeps and outer iterations: the types of its       *)
(* variables, the consistency of the incremental updates of               *)
(* minimize_by_component with update(), and when the search may return   *)
(* OK.  The sums of updateRowValue and updateObjective are         *)
(* reasoned about through the recursion equation of ColSum and a lemma on  *)
(* changing one term, both shown by a least counterexample over 0..NumCol. *)
(***************************************************************************)
EXTENDS FindFeasibility, WellFoundedInduction, TLAPS

(* From the exit of the outer loop on, the residual is zero or all K      *)
(* iterations have run; the early return of OK happens on a zero residual. *)
ExitReason ==
  pc = "finish" \/ status = "OK" => residual = Zero \/ iteration = K + 1

(* The inductive invariant: the types, the loop counters within the bounds *)
(* the loop conditions keep, the Quadratic consistent with its col_value_, *)
(* no status before the return, and why the search stopped.               *)
FeasIInv ==
  /\ TypeOK
  /\ pc \in {"start", "dispatch"} => iteration = 0
  /\ pc \in {"minimize", "check"} => iteration \in 1..K
  /\ pc = "minimize" => sweep < Sweeps
  /\ pc # "done" => status = "none"
  /\ IncrementalConsistent
  /\ ExitReason

USE FeasibilityAssumption DEF Cols, Rows

-----------------------------------------------------------------------------
(***************************************************************************)
(* The column sums.                                                        *)
(***************************************************************************)

(* Induction over 0..N, stated on a set: a set that holds 0 and holds k    *)
(* whenever it holds k - 1 contains 0..N.  By a least k outside it.        *)
LEMMA UpToInduction ==
  ASSUME NEW N \in Nat, NEW T, 0 \in T,
         \A k \in 1..N : k - 1 \in T => k \in T
  PROVE  0..N \subseteq T
<1> DEFINE U == {k \in 0..N : k \notin T}
           R == OpToRel(<, Nat)
<1>1. U = {}
  <2> SUFFICES ASSUME U # {} PROVE FALSE
    OBVIOUS
  <2>1. U \subseteq Nat
    OBVIOUS
  <2>2. \E k \in U : \A y \in U : ~(<<y, k>> \in R)
    BY <2>1, NatLessThanWellFounded, WFMin, Zenon
  <2>3. PICK k \in U : \A y \in U : ~(<<y, k>> \in R)
    BY <2>2
  <2>4. k \in 1..N /\ k - 1 \in 0..N /\ <<k - 1, k>> \in R
    BY <2>3 DEF OpToRel
  <2>5. k - 1 \notin U
    BY <2>3, <2>4, Zenon
  <2>6. QED
    BY <2>3, <2>4, <2>5
<1>2. QED
  BY <1>1

(* The partial sums of any int vector exist: the loop of updateObjective   *)
(* or updateRowValue has a value after every column.                       *)
LEMMA PrefixExists ==
  ASSUME NEW f \in [Cols -> Int]
  PROVE  \E s \in [0..NumCol -> Int] :
           s[0] = 0 /\ \A k \in 1..NumCol : s[k] = s[k - 1] + f[k]
<1> DEFINE Q(m) == \E s \in [0..m -> Int] :
                     s[0] = 0 /\ \A k \in 1..m : s[k] = s[k - 1] + f[k]
           T == {m \in 0..NumCol : Q(m)}
<1>0. NumCol \in Nat
  BY FeasibilityAssumption
<1>1. 0 \in T
  <2> DEFINE w == [k \in 0..0 |-> 0]
  <2>1. w \in [0..0 -> Int] /\ w[0] = 0
        /\ \A k \in 1..0 : w[k] = w[k - 1] + f[k]
    OBVIOUS
  <2>2. Q(0)
    BY <2>1, Zenon DEF Q
  <2>3. QED
    BY <1>0, <2>2 DEF T
<1>2. \A m \in 1..NumCol : m - 1 \in T => m \in T
  <2> SUFFICES ASSUME NEW m \in 1..NumCol, m - 1 \in T PROVE m \in T
    OBVIOUS
  <2>1. PICK s \in [0..m - 1 -> Int] :
          s[0] = 0 /\ \A k \in 1..m - 1 : s[k] = s[k - 1] + f[k]
    OBVIOUS
  <2> DEFINE t == [k \in 0..m |-> IF k < m THEN s[k] ELSE s[m - 1] + f[m]]
  <2>2. t \in [0..m -> Int] /\ t[0] = 0
    BY <1>0, <2>1 DEF t
  <2>3. \A k \in 1..m : t[k] = t[k - 1] + f[k]
    <3> SUFFICES ASSUME NEW k \in 1..m PROVE t[k] = t[k - 1] + f[k]
      OBVIOUS
    <3>1. t[k - 1] = s[k - 1]
      BY DEF t
    <3>2. CASE k < m
      <4>0. k \in 1..m - 1
        BY <3>2
      <4>1. t[k] = s[k]
        BY <4>0 DEF t
      <4>2. s[k] = s[k - 1] + f[k]
        BY <2>1, <4>0
      <4>3. QED
        BY <3>1, <4>1, <4>2
    <3>3. CASE k = m
      <4>1. t[k] = s[m - 1] + f[m]
        BY <3>3 DEF t
      <4>2. QED
        BY <3>1, <3>3, <4>1
    <3>4. QED
      BY <3>2, <3>3 DEF t
  <2>4. Q(m)
    BY <2>2, <2>3, Zenon DEF Q
  <2>5. m \in 0..NumCol
    BY <1>0
  <2>6. QED
    BY <2>4, <2>5, Zenon DEF T
<1>3. 0..NumCol \subseteq T
  BY <1>0, <1>1, <1>2, UpToInduction
<1>4. QED
  <2>1. NumCol \in T
    <3>1. NumCol \in 0..NumCol
      BY <1>0
    <3>2. QED
      BY <1>3, <3>1, Zenon
  <2>2. QED
    BY <2>1, Zenon DEF T, Q

(* The running sums s of the LET in ColSum.                                *)
Sums(f) == CHOOSE s : s = [k \in 0..NumCol |-> IF k = 0 THEN 0 ELSE s[k - 1] + f[k]]

(* ColSum(f) is the last running sum.                                      *)
LEMMA ColSumSums == ASSUME NEW f PROVE ColSum(f) = Sums(f)[NumCol]
BY DEF ColSum, Sums

(* The recursion equation of the running sums: the sum after column k is   *)
(* the sum after column k - 1 plus f[k].                                   *)
LEMMA SumsDef ==
  ASSUME NEW f \in [Cols -> Int]
  PROVE  /\ Sums(f)[0] = 0
         /\ \A k \in 1..NumCol : Sums(f)[k] = Sums(f)[k - 1] + f[k]
<1>0. NumCol \in Nat
  OBVIOUS
<1>1. PICK p \in [0..NumCol -> Int] :
        p[0] = 0 /\ \A k \in 1..NumCol : p[k] = p[k - 1] + f[k]
  BY PrefixExists
<1>2. p = [k \in 0..NumCol |-> IF k = 0 THEN 0 ELSE p[k - 1] + f[k]]
  BY <1>0, <1>1
<1>3. Sums(f) = [k \in 0..NumCol |-> IF k = 0 THEN 0 ELSE Sums(f)[k - 1] + f[k]]
  BY <1>2, Zenon DEF Sums
<1>4. QED
  BY <1>0, <1>3
(* The running sums of an int vector are ints.                             *)
LEMMA SumsInt ==
  ASSUME NEW f \in [Cols -> Int]
  PROVE  \A k \in 0..NumCol : Sums(f)[k] \in Int
<1> DEFINE T == {k \in 0..NumCol : Sums(f)[k] \in Int}
<1>1. 0 \in T
  BY SumsDef
<1>2. \A k \in 1..NumCol : k - 1 \in T => k \in T
  <2> SUFFICES ASSUME NEW k \in 1..NumCol, k - 1 \in T PROVE k \in T
    OBVIOUS
  <2>1. Sums(f)[k] = Sums(f)[k - 1] + f[k]
    BY SumsDef
  <2>2. Sums(f)[k - 1] \in Int /\ f[k] \in Int
    OBVIOUS
  <2>3. QED
    BY <2>1, <2>2
<1>3. 0..NumCol \subseteq T
  BY <1>1, <1>2, UpToInduction
<1>4. QED
  BY <1>3

(* Changing one term of the sum changes the running sums from that column *)
(* on by the change of the term.                                           *)
LEMMA SumsExcept ==
  ASSUME NEW f \in [Cols -> Int], NEW g \in [Cols -> Int], NEW c0 \in Cols,
         \A c \in Cols : c # c0 => g[c] = f[c]
  PROVE  \A k \in 0..NumCol :
           Sums(g)[k] = Sums(f)[k] + (IF c0 <= k THEN g[c0] - f[c0] ELSE 0)
<1> DEFINE T == {k \in 0..NumCol :
                   Sums(g)[k] = Sums(f)[k] + (IF c0 <= k THEN g[c0] - f[c0] ELSE 0)}
<1>0. /\ \A k \in 0..NumCol : Sums(f)[k] \in Int /\ Sums(g)[k] \in Int
      /\ Sums(f)[0] = 0 /\ Sums(g)[0] = 0
      /\ \A k \in 1..NumCol : Sums(f)[k] = Sums(f)[k - 1] + f[k]
      /\ \A k \in 1..NumCol : Sums(g)[k] = Sums(g)[k - 1] + g[k]
  BY SumsInt, SumsDef
<1> HIDE DEF T
<1>1. 0 \in T
  BY <1>0 DEF T
<1>2. \A k \in 1..NumCol : k - 1 \in T => k \in T
  <2> SUFFICES ASSUME NEW k \in 1..NumCol, k - 1 \in T
               PROVE  Sums(g)[k] = Sums(f)[k] + (IF c0 <= k THEN g[c0] - f[c0] ELSE 0)
    BY DEF T
  <2>1. Sums(g)[k - 1] = Sums(f)[k - 1] + (IF c0 <= k - 1 THEN g[c0] - f[c0] ELSE 0)
    BY DEF T
  <2>2. CASE k = c0
    BY <1>0, <2>1, <2>2
  <2>3. CASE k # c0
    <3>1. g[k] = f[k] /\ g[k] \in Int
      BY <2>3
    <3>2. Sums(g)[k] = Sums(g)[k - 1] + g[k] /\ Sums(f)[k] = Sums(f)[k - 1] + f[k]
      BY <1>0
    <3>3. (c0 <= k - 1) <=> (c0 <= k)
      BY <2>3
    <3>4. Sums(g)[k - 1] \in Int /\ Sums(f)[k - 1] \in Int /\ g[c0] - f[c0] \in Int
      BY <1>0
    <3>5. Sums(g)[k] = Sums(f)[k] + (IF c0 <= k THEN g[c0] - f[c0] ELSE 0)
      <4>1. CASE c0 < k
        <5>1. Sums(g)[k - 1] = Sums(f)[k - 1] + (g[c0] - f[c0])
          BY <2>1, <4>1
        <5>2. Sums(g)[k] = Sums(f)[k] + (g[c0] - f[c0])
          <6>1. f[k] \in Int /\ g[k] \in Int
            OBVIOUS
          <6>2. QED
            BY ONLY <3>1, <3>2, <3>4, <5>1, <6>1
        <5>3. QED
          BY <4>1, <5>2
      <4>2. CASE c0 > k
        <5>1. Sums(g)[k - 1] = Sums(f)[k - 1]
          BY <2>1, <3>4, <4>2
        <5>2. Sums(g)[k] = Sums(f)[k]
          <6>1. f[k] \in Int /\ g[k] \in Int
            OBVIOUS
          <6>2. QED
            BY ONLY <3>1, <3>2, <3>4, <5>1, <6>1
        <5>3. QED
          BY <1>0, <4>2, <5>2
      <4>3. QED
        BY <2>3, <4>1, <4>2
    <3>6. QED
      BY <3>5
  <2>4. QED
    BY <2>2, <2>3
<1>3. 0..NumCol \subseteq T
  BY <1>1, <1>2, UpToInduction
<1>4. QED
  BY <1>3 DEF T

(* The sum of an int vector is an int.                                     *)
LEMMA ColSumInt ==
  ASSUME NEW f \in [Cols -> Int] PROVE ColSum(f) \in Int
BY SumsInt, ColSumSums

(* The sum after one term changed is the old sum plus the change: the      *)
(* incremental updates of minimize_by_component rest on this.              *)
LEMMA ColSumExcept ==
  ASSUME NEW f \in [Cols -> Int], NEW g \in [Cols -> Int], NEW c0 \in Cols,
         \A c \in Cols : c # c0 => g[c] = f[c]
  PROVE  ColSum(g) = ColSum(f) + (g[c0] - f[c0])
<1>0. \A k \in 0..NumCol :
        Sums(g)[k] = Sums(f)[k] + (IF c0 <= k THEN g[c0] - f[c0] ELSE 0)
  BY SumsExcept
<1>a. NumCol \in 0..NumCol /\ c0 <= NumCol
  OBVIOUS
<1>b. Sums(g)[NumCol] = Sums(f)[NumCol] + (IF c0 <= NumCol THEN g[c0] - f[c0] ELSE 0)
  BY ONLY <1>0, <1>a
<1>1. Sums(g)[NumCol] = Sums(f)[NumCol] + (g[c0] - f[c0])
  BY ONLY <1>a, <1>b
<1>2. QED
  BY <1>1, ColSumSums
-----------------------------------------------------------------------------
(***************************************************************************)
(* update() and the incremental updates.                                   *)
(***************************************************************************)

(* The vectors the model stores are int vectors of one of the sizes.       *)
LEMMA IntVectors ==
  /\ <<>> \in [1..0 -> Int]
  /\ \A v \in [Cols -> Int] : IsIntVector(v)
  /\ \A v \in [Rows -> Int] : IsIntVector(v)
  /\ IsIntVector(<<>>)
<1>1. <<>> \in [1..0 -> Int]
  OBVIOUS
<1>2. QED
  BY <1>1 DEF IsIntVector

(* The fields of an LP the loops read are int-valued.                      *)
LEMMA LPFields ==
  ASSUME lp \in LPs
  PROVE  /\ \A r \in Rows : \A c \in Cols : lp.A[r][c] \in Int
         /\ \A r \in Rows : lp.rowUpper[r] \in Int
         /\ \A c \in Cols : lp.colCost[c] \in Int
<1>1. /\ lp.A \in [Rows -> [Cols -> Coefs]]
      /\ lp.rowUpper \in [Rows -> RowBounds]
      /\ lp.colCost \in [Cols -> Costs]
  BY Zenon DEF LPs
<1>2. QED
  BY <1>1

(* update() computes int vectors of the LP's sizes from an int x.          *)
LEMMA QuadTypes ==
  ASSUME lp \in LPs, NEW v \in [Cols -> Int]
  PROVE  /\ RowValue(v) \in [Rows -> Int]
         /\ Residual(v) \in [Rows -> Int]
         /\ Objective(v) \in Int
<1>1. \A r \in Rows : [c \in Cols |-> lp.A[r][c] * v[c]] \in [Cols -> Int]
  BY LPFields
<1>2. [c \in Cols |-> lp.colCost[c] * v[c]] \in [Cols -> Int]
  BY LPFields
<1>3. \A r \in Rows : RowValue(v)[r] \in Int
  BY <1>1, ColSumInt DEF RowValue
<1>4. \A r \in Rows : lp.rowUpper[r] \in Int
  BY LPFields
<1>5. RowValue(v) \in [Rows -> Int]
  BY <1>3 DEF RowValue
<1>6. Residual(v) \in [Rows -> Int]
  BY <1>3, <1>4 DEF Residual
<1>7. Objective(v) \in Int
  BY <1>2, ColSumInt DEF Objective
<1>8. QED
  BY <1>5, <1>6, <1>7

(* Moving x_c0 by d moves A x by d times column c0 and c'x by d c_c0:      *)
(* what the incremental updates of minimize_by_component compute.          *)
LEMMA QuadExcept ==
  ASSUME lp \in LPs, NEW v \in [Cols -> Int], NEW c0 \in Cols, NEW d \in Int
  PROVE  LET w == [v EXCEPT ![c0] = v[c0] + d]
         IN  /\ RowValue(w) = [r \in Rows |-> RowValue(v)[r] + lp.A[r][c0] * d]
             /\ Residual(w) = [r \in Rows |-> Residual(v)[r] - lp.A[r][c0] * d]
             /\ Objective(w) = Objective(v) + lp.colCost[c0] * d
<1> DEFINE w == [v EXCEPT ![c0] = v[c0] + d]
<1>1. w \in [Cols -> Int] /\ w[c0] = v[c0] + d /\ \A c \in Cols : c # c0 => w[c] = v[c]
  OBVIOUS
<1> HIDE DEF w
<1>2. \A r \in Rows : RowValue(w)[r] = RowValue(v)[r] + lp.A[r][c0] * d
  <2> SUFFICES ASSUME NEW r \in Rows
               PROVE  RowValue(w)[r] = RowValue(v)[r] + lp.A[r][c0] * d
    OBVIOUS
  <2> DEFINE f == [c \in Cols |-> lp.A[r][c] * v[c]]
             g == [c \in Cols |-> lp.A[r][c] * w[c]]
  <2>0. \A c \in Cols : lp.A[r][c] \in Int
    BY LPFields
  <2>a. lp.A[r][c0] \in Int
    BY <2>0
  <2>b. f \in [Cols -> Int]
    BY <2>0
  <2>c. g \in [Cols -> Int]
    <3>1. \A c \in Cols : w[c] \in Int
      BY <1>1
    <3>2. QED
      BY <3>1, <2>0
  <2>1. f \in [Cols -> Int] /\ g \in [Cols -> Int] /\ lp.A[r][c0] \in Int
    BY <2>a, <2>b, <2>c
  <2>2. \A c \in Cols : c # c0 => g[c] = f[c]
    BY <1>1
  <2>3. g[c0] - f[c0] = lp.A[r][c0] * d
    <3>1. g[c0] = lp.A[r][c0] * (v[c0] + d) /\ f[c0] = lp.A[r][c0] * v[c0]
      BY <1>1
    <3>2. \A a, b, e \in Int : a * (b + e) - a * b = a * e
      OBVIOUS
    <3>3. v[c0] \in Int
      OBVIOUS
    <3>4. QED
      BY ONLY <2>1, <3>1, <3>2, <3>3, d \in Int
  <2>4. ColSum(g) = ColSum(f) + (g[c0] - f[c0])
    BY <2>1, <2>2, ColSumExcept
  <2>5. QED
    BY <2>3, <2>4 DEF RowValue
<1>3. Objective(w) = Objective(v) + lp.colCost[c0] * d
  <2> DEFINE f == [c \in Cols |-> lp.colCost[c] * v[c]]
             g == [c \in Cols |-> lp.colCost[c] * w[c]]
  <2>0. \A c \in Cols : lp.colCost[c] \in Int
    BY LPFields
  <2>a. f \in [Cols -> Int]
    BY <2>0
  <2>b. g \in [Cols -> Int]
    BY <1>1, <2>0
  <2>1. f \in [Cols -> Int] /\ g \in [Cols -> Int] /\ lp.colCost[c0] \in Int
    BY <2>0, <2>a, <2>b
  <2>2. \A c \in Cols : c # c0 => g[c] = f[c]
    BY <1>1
  <2>3. g[c0] - f[c0] = lp.colCost[c0] * d
    <3>1. g[c0] = lp.colCost[c0] * (v[c0] + d) /\ f[c0] = lp.colCost[c0] * v[c0]
      BY <1>1
    <3>2. \A a, b, e \in Int : a * (b + e) - a * b = a * e
      OBVIOUS
    <3>3. v[c0] \in Int
      OBVIOUS
    <3>4. QED
      BY ONLY <2>1, <3>1, <3>2, <3>3, d \in Int
  <2>4. ColSum(g) = ColSum(f) + (g[c0] - f[c0])
    BY <2>1, <2>2, ColSumExcept
  <2>5. QED
    BY <2>3, <2>4 DEF Objective
<1>4. /\ \A r \in Rows : RowValue(v)[r] \in Int /\ lp.A[r][c0] \in Int
      /\ \A r \in Rows : lp.rowUpper[r] \in Int
  BY QuadTypes, LPFields
<1>5. RowValue(w) = [r \in Rows |-> RowValue(v)[r] + lp.A[r][c0] * d]
  BY <1>2 DEF RowValue
<1>6. Residual(w) = [r \in Rows |-> Residual(v)[r] - lp.A[r][c0] * d]
  <2>1. \A r \in Rows : Residual(w)[r] = Residual(v)[r] - lp.A[r][c0] * d
    <3> SUFFICES ASSUME NEW r \in Rows
                 PROVE  Residual(w)[r] = Residual(v)[r] - lp.A[r][c0] * d
      OBVIOUS
    <3>1. Residual(w)[r] = lp.rowUpper[r] - RowValue(w)[r]
          /\ Residual(v)[r] = lp.rowUpper[r] - RowValue(v)[r]
      BY DEF Residual
    <3>2. RowValue(w)[r] = RowValue(v)[r] + lp.A[r][c0] * d
      BY <1>2
    <3>3. RowValue(v)[r] \in Int /\ lp.A[r][c0] \in Int /\ lp.rowUpper[r] \in Int
      BY <1>4
    <3>4. \A u, rv, a, e \in Int : u - (rv + a * e) = (u - rv) - a * e
      OBVIOUS
    <3>5. lp.rowUpper[r] - RowValue(w)[r]
            = (lp.rowUpper[r] - RowValue(v)[r]) - lp.A[r][c0] * d
      BY ONLY <3>2, <3>3, <3>4, d \in Int
    <3>6. QED
      BY ONLY <3>1, <3>5
  <2>2. QED
    BY <2>1 DEF Residual
<1>7. QED
  BY <1>3, <1>5, <1>6 DEF w
-----------------------------------------------------------------------------
(***************************************************************************)
(* The steps of runFeasibility keep FeasIInv.                              *)
(***************************************************************************)

(* The column bounds, x_0 and the projections of minimize_by_component are *)
(* ints.                                                                   *)
LEMMA BoundsInt ==
  ASSUME lp \in LPs, NEW c \in Cols
  PROVE  /\ Lower(c) \in Int /\ Upper(c) \in Int
         /\ InitialValue(c) \in Int
         /\ \A theta \in Thetas : Project(theta, c) \in Int
<1>1. lp.colBounds \in [Cols -> ColBounds]
  BY Zenon DEF LPs
<1>2. lp.colBounds[c] \in Int \X Int
  BY <1>1
<1>3. Lower(c) \in Int /\ Upper(c) \in Int
  BY <1>2 DEF Lower, Upper
<1>4. \/ Lower(c) <= 0 /\ Upper(c) >= 0
      \/ Lower(c) > 0
      \/ Upper(c) < 0
  BY <1>3
<1>5. InitialValue(c) \in Int
  BY <1>3, <1>4 DEF InitialValue
<1>6. \A theta \in Thetas : Project(theta, c) \in Int
  BY <1>3 DEF Project, StdMin, StdMax
<1>7. QED
  BY <1>3, <1>5, <1>6

(* The values update() computes depend on lp and the vector only.          *)
LEMMA PrimeQuad ==
  ASSUME lp' = lp
  PROVE  /\ RowValue(x)' = RowValue(x')
         /\ Residual(x)' = Residual(x')
         /\ Objective(x)' = Objective(x')
         /\ RowValue(solCol)' = RowValue(solCol')
BY DEF RowValue, Residual, Objective

LEMMA InitInv == Init => FeasIInv
<1> SUFFICES ASSUME Init PROVE FeasIInv
  OBVIOUS
<1>1. IsIntVector(solCol) /\ IsIntVector(solRow)
  <2>1. CASE solCol \in [Cols -> Guesses] /\ solRow \in [Rows -> Guesses]
    <3>1. solCol \in [Cols -> Int] /\ solRow \in [Rows -> Int]
      BY <2>1
    <3>2. QED
      BY <3>1, IntVectors
  <2>2. CASE solCol = <<>> /\ solRow = <<>>
    BY <2>2, IntVectors
  <2>3. QED
    BY <2>1, <2>2 DEF Init
<1>2. lambda.mu \in Nat /\ IsIntVector(lambda.res)
  BY IntVectors DEF Init
<1>3. TypeOK
  BY <1>1, <1>2 DEF Init, TypeOK, Zero
<1>4. QED
  BY <1>3 DEF Init, FeasIInv, IncrementalConsistent, ExitReason

LEMMA StartInv ==
  ASSUME FeasIInv, Start PROVE FeasIInv'
<1>0. TypeOK /\ pc = "start" /\ status = "none" /\ iteration = 0
      /\ lp' = lp /\ UNCHANGED <<type, iteration, sweep, col>>
  BY DEF FeasIInv, Start
<1>1. CASE ~IsEqualityProblem
  <2>1. status' = "NotImplemented" /\ pc' = "done"
        /\ UNCHANGED <<solCol, solRow, x, rowVal, residual, objective,
                       muCuts, lambda>>
    BY <1>1 DEF Start
  <2>2. TypeOK'
    BY <1>0, <2>1 DEF TypeOK, IsIntVector
  <2>3. QED
    BY <2>1, <2>2 DEF FeasIInv, IncrementalConsistent, ExitReason
<1>2. CASE IsEqualityProblem
  <2> DEFINE x0 == [c \in Cols |-> InitialValue(c)]
  <2>1. /\ solCol' = x0
        /\ solRow' = IF IsSolutionConsistent THEN solRow ELSE <<>>
        /\ x' = x0
        /\ objective' = Objective(x0) /\ rowVal' = RowValue(x0)
        /\ residual' = Residual(x0)
        /\ muCuts' = 0 /\ lambda' = [mu |-> 0, res |-> Zero]
        /\ pc' = "dispatch" /\ status' = status
    BY <1>1, <1>2 DEF Start, Update
  <2>2. x0 \in [Cols -> Int]
    BY <1>0, BoundsInt DEF TypeOK
  <2>3. /\ RowValue(x0) \in [Rows -> Int]
        /\ Residual(x0) \in [Rows -> Int]
        /\ Objective(x0) \in Int
    BY <1>0, <2>2, QuadTypes DEF TypeOK
  <2>4. /\ IsIntVector(solCol') /\ IsIntVector(solRow')
        /\ IsIntVector(lambda'.res)
    <3>1. IsIntVector(solRow)
      BY <1>0 DEF TypeOK
    <3>2. Zero \in [Rows -> Int]
      BY DEF Zero
    <3>3. QED
      BY <2>1, <2>2, <3>1, <3>2, IntVectors
  <2>5. TypeOK'
    BY <1>0, <2>1, <2>2, <2>3, <2>4 DEF TypeOK, IsIntVector
  <2>6. IncrementalConsistent'
    BY <1>0, <2>1, PrimeQuad DEF IncrementalConsistent
  <2>7. QED
    BY <1>0, <2>1, <2>5, <2>6 DEF FeasIInv, ExitReason
<1>3. QED
  BY <1>1, <1>2

LEMMA DispatchInv ==
  ASSUME FeasIInv, Dispatch PROVE FeasIInv'
<1>0. /\ TypeOK /\ pc = "dispatch" /\ status = "none" /\ iteration = 0
      /\ IncrementalConsistent
      /\ lp' = lp
      /\ UNCHANGED <<type, solCol, solRow, x, rowVal, residual, objective,
                     muCuts, lambda>>
  BY DEF FeasIInv, Dispatch
<1>1. CASE pc' = "done"
  <2>1. UNCHANGED <<iteration, sweep, col>> /\ status' # "none"
        /\ (status' = "OK" => residual = Zero)
    BY <1>1 DEF Dispatch
  <2>2. TypeOK'
    BY <1>0, <2>1 DEF Dispatch, TypeOK, IsIntVector
  <2>3. QED
    BY <1>0, <1>1, <2>1, <2>2 DEF FeasIInv, IncrementalConsistent,
                                  ExitReason
<1>2. CASE pc' # "done"
  <2>1. iteration' = 1 /\ sweep' = 0 /\ col' = 1 /\ pc' = "minimize"
        /\ status' = status
    BY <1>2 DEF Dispatch
  <2>a. iteration' \in 0..K + 1 /\ sweep' \in 0..Sweeps /\ col' \in 1..NumCol + 1
    BY <2>1
  <2>2. TypeOK'
    BY <1>0, <2>1, <2>a DEF TypeOK, IsIntVector
  <2>3. IncrementalConsistent'
    BY <1>0, <2>1, PrimeQuad DEF IncrementalConsistent
  <2>4. QED
    BY <1>0, <2>1, <2>2, <2>3 DEF FeasIInv, ExitReason
<1>3. QED
  BY <1>1, <1>2
LEMMA MinorStepInv ==
  ASSUME FeasIInv, MinorStep PROVE FeasIInv'
<1>0. /\ TypeOK /\ pc = "minimize" /\ col <= NumCol /\ IncrementalConsistent
      /\ iteration \in 1..K /\ sweep < Sweeps /\ status = "none"
      /\ col' = col + 1 /\ lp' = lp
      /\ UNCHANGED <<type, solCol, solRow, muCuts, lambda, iteration, sweep,
                     pc, status>>
  BY DEF FeasIInv, MinorStep
<1>1. col \in Cols /\ col' \in 1..NumCol + 1
  BY <1>0 DEF TypeOK
<1>2. /\ x' \in [Cols -> Int] /\ rowVal' \in [Rows -> Int]
      /\ residual' \in [Rows -> Int] /\ objective' \in Int
      /\ rowVal' = RowValue(x') /\ residual' = Residual(x')
      /\ objective' = Objective(x')
  <2>1. CASE UNCHANGED <<x, rowVal, residual, objective>>
    BY <1>0, <2>1 DEF TypeOK, IncrementalConsistent
  <2>2. CASE \E theta \in Thetas : ColumnUpdate(theta)
    <3>1. PICK theta \in Thetas : ColumnUpdate(theta)
      BY <2>2
    <3> DEFINE delta == Project(theta, col) - x[col]
    <3>a. lp \in LPs /\ x \in [Cols -> Int]
      BY <1>0 DEF TypeOK
    <3>b. x[col] \in Int
      BY ONLY <3>a, <1>1
    <3>c. Project(theta, col) \in Int
      BY ONLY <3>a, <3>1, <1>1, BoundsInt
    <3>2. delta \in Int
      BY ONLY <3>b, <3>c DEF delta
    <3>3. /\ x' = [x EXCEPT ![col] = x[col] + delta]
          /\ objective' = objective + lp.colCost[col] * delta
          /\ residual' = [r \in Rows |-> residual[r] - lp.A[r][col] * delta]
          /\ rowVal' = [r \in Rows |-> rowVal[r] + lp.A[r][col] * delta]
      BY <3>1 DEF ColumnUpdate
    <3> HIDE DEF delta
    <3>4. /\ RowValue(x') = [r \in Rows |-> RowValue(x)[r] + lp.A[r][col] * delta]
          /\ Residual(x') = [r \in Rows |-> Residual(x)[r] - lp.A[r][col] * delta]
          /\ Objective(x') = Objective(x) + lp.colCost[col] * delta
      <4>1. lp \in LPs /\ x \in [Cols -> Int]
        BY <1>0 DEF TypeOK
      <4>2. LET w == [x EXCEPT ![col] = x[col] + delta]
            IN  /\ RowValue(w) = [r \in Rows |-> RowValue(x)[r] + lp.A[r][col] * delta]
                /\ Residual(w) = [r \in Rows |-> Residual(x)[r] - lp.A[r][col] * delta]
                /\ Objective(w) = Objective(x) + lp.colCost[col] * delta
        BY <4>1, <1>1, <3>2, QuadExcept
      <4>3. QED
        BY <4>2, <3>3
    <3>5. rowVal' = RowValue(x') /\ residual' = Residual(x')
          /\ objective' = Objective(x')
      BY <1>0, <3>3, <3>4 DEF IncrementalConsistent
    <3>6. x' \in [Cols -> Int]
      <4>1. x[col] + delta \in Int
        BY ONLY <3>b, <3>2
      <4>2. QED
        BY ONLY <3>a, <3>3, <4>1
    <3>7. QED
      BY <1>0, <3>5, <3>6, QuadTypes DEF TypeOK
  <2>3. QED
    BY <2>1, <2>2 DEF MinorStep
<1>3. TypeOK'
  BY <1>0, <1>1, <1>2 DEF TypeOK, IsIntVector
<1>4. IncrementalConsistent'
  BY <1>0, <1>2, PrimeQuad DEF IncrementalConsistent
<1>5. QED
  BY <1>0, <1>3, <1>4 DEF FeasIInv, ExitReason

LEMMA SweepDoneInv ==
  ASSUME FeasIInv, SweepDone PROVE FeasIInv'
<1>0. /\ TypeOK /\ pc = "minimize" /\ col > NumCol
      /\ iteration \in 1..K /\ sweep < Sweeps /\ status = "none"
      /\ objective' = Objective(x) /\ rowVal' = RowValue(x)
      /\ residual' = Residual(x)
      /\ sweep' = sweep + 1 /\ lp' = lp
      /\ UNCHANGED <<type, solCol, solRow, x, muCuts, lambda, iteration,
                     status>>
  BY DEF FeasIInv, SweepDone, Update
<1>1. \/ sweep' < Sweeps /\ col' = 1 /\ pc' = "minimize"
      \/ col' = col /\ pc' = "check"
  BY <1>0 DEF SweepDone
<1>2. sweep' \in 0..Sweeps /\ col' \in 1..NumCol + 1
      /\ pc' \in {"minimize", "check"}
  BY <1>0, <1>1 DEF TypeOK
<1>3. TypeOK'
  BY <1>0, <1>2, QuadTypes DEF TypeOK, IsIntVector
<1>4. IncrementalConsistent'
  BY <1>0, PrimeQuad DEF IncrementalConsistent
<1>5. QED
  BY <1>0, <1>1, <1>2, <1>3, <1>4 DEF FeasIInv, ExitReason
LEMMA OuterStepInv ==
  ASSUME FeasIInv, OuterStep PROVE FeasIInv'
<1>0. /\ TypeOK /\ pc = "check" /\ IncrementalConsistent
      /\ iteration \in 1..K /\ status = "none" /\ lp' = lp
      /\ UNCHANGED <<type, solCol, solRow, x, rowVal, residual, objective,
                     status>>
  BY DEF FeasIInv, OuterStep
<1>1. CASE residual = Zero
  <2>1. pc' = "finish" /\ UNCHANGED <<muCuts, lambda, iteration, sweep, col>>
    BY <1>1 DEF OuterStep
  <2>2. TypeOK'
    BY <1>0, <2>1 DEF TypeOK, IsIntVector
  <2>3. IncrementalConsistent'
    BY <1>0, <2>1, PrimeQuad DEF IncrementalConsistent
  <2>a. ExitReason'
    <3>1. residual' = Zero
      BY <1>0, <1>1
    <3>2. QED
      BY <3>1 DEF ExitReason
  <2>4. QED
    BY <1>0, <2>1, <2>2, <2>3, <2>a DEF FeasIInv
<1>2. CASE residual # Zero
  <2>1. /\ \/ muCuts' = muCuts + 1 /\ lambda' = lambda
           \/ lambda' = [mu |-> muCuts, res |-> residual] /\ muCuts' = muCuts
        /\ iteration' = iteration + 1
        /\ \/ iteration + 1 < K + 1 /\ pc' = "minimize" /\ sweep' = 0 /\ col' = 1
           \/ pc' = "finish" /\ UNCHANGED <<sweep, col>>
    BY <1>2 DEF OuterStep
  <2>2. muCuts' \in Nat /\ lambda'.mu \in Nat /\ IsIntVector(lambda'.res)
    <3>1. residual \in [Rows -> Int] /\ muCuts \in Nat
          /\ lambda.mu \in Nat /\ IsIntVector(lambda.res)
      BY <1>0 DEF TypeOK
    <3>2. QED
      BY <2>1, <3>1, IntVectors
  <2>3. /\ iteration' \in 0..K + 1 /\ sweep' \in 0..Sweeps
        /\ col' \in 1..NumCol + 1
        /\ pc' \in {"minimize", "finish"}
        /\ pc' = "minimize" => iteration' \in 1..K /\ sweep' < Sweeps
    BY <1>0, <2>1 DEF TypeOK
  <2>b. pc' = "finish" => iteration' = K + 1
    <3>1. pc' = "finish" => ~(iteration + 1 < K + 1)
      BY <1>2 DEF OuterStep
    <3>2. QED
      BY <1>0, <2>1, <3>1
  <2>4. TypeOK'
    BY <1>0, <2>2, <2>3 DEF TypeOK, IsIntVector
  <2>5. IncrementalConsistent'
    BY <1>0, <2>3, PrimeQuad DEF IncrementalConsistent
  <2>6. QED
    BY <1>0, <2>3, <2>b, <2>4, <2>5 DEF FeasIInv, ExitReason
<1>3. QED
  BY <1>1, <1>2

LEMMA FinishInv ==
  ASSUME FeasIInv, Finish PROVE FeasIInv'
<1>0. /\ TypeOK /\ pc = "finish" /\ IncrementalConsistent
      /\ solCol' = x /\ solRow' = rowVal /\ status' = "OK" /\ pc' = "done"
      /\ lp' = lp
      /\ UNCHANGED <<type, x, rowVal, residual, objective, muCuts, lambda,
                     iteration, sweep, col>>
  BY DEF FeasIInv, Finish
<1>1. TypeOK'
  BY <1>0, IntVectors DEF TypeOK, IsIntVector
<1>3. ExitReason'
  BY <1>0 DEF FeasIInv, ExitReason
<1>4. QED
  BY <1>0, <1>1, <1>3 DEF FeasIInv, IncrementalConsistent

LEMMA StutterInv ==
  ASSUME FeasIInv, UNCHANGED vars PROVE FeasIInv'
<1>0. lp' = lp /\ TypeOK
  BY DEF vars, FeasIInv
<1>1. TypeOK'
  BY <1>0 DEF vars, TypeOK, IsIntVector
<1>2. IncrementalConsistent' /\ ExitReason'
  BY <1>0, PrimeQuad DEF vars, FeasIInv, IncrementalConsistent,
                         ExitReason
<1>3. QED
  BY <1>1, <1>2 DEF vars, FeasIInv

-----------------------------------------------------------------------------
(* runFeasibility keeps FeasIInv: its variables have their types, the      *)
(* loop counters stay within the bounds of their loops, the Quadratic's    *)
(* row values, residual and objective are those of its col_value_ from     *)
(* construction to getSolution, and the search stops on a zero residual   *)
(* or after K iterations.  For every LP size, data and iteration bounds.   *)
THEOREM FeasInvariant == Spec => []FeasIInv
<1>1. Init => FeasIInv
  BY InitInv
<1>2. FeasIInv /\ [Next]_vars => FeasIInv'
  <2> SUFFICES ASSUME FeasIInv, [Next]_vars PROVE FeasIInv'
    OBVIOUS
  <2>1. CASE Start
    BY <2>1, StartInv
  <2>2. CASE Dispatch
    BY <2>2, DispatchInv
  <2>3. CASE MinorStep
    BY <2>3, MinorStepInv
  <2>4. CASE SweepDone
    BY <2>4, SweepDoneInv
  <2>5. CASE OuterStep
    BY <2>5, OuterStepInv
  <2>6. CASE Finish
    BY <2>6, FinishInv
  <2>7. CASE UNCHANGED vars
    BY <2>7, StutterInv
  <2>8. QED
    BY <2>1, <2>2, <2>3, <2>4, <2>5, <2>6, <2>7 DEF Next
<1>3. QED
  BY <1>1, <1>2, PTL DEF Spec

(* Every variable of runFeasibility keeps its type: the solution vectors  *)
(* are empty or of the LP's sizes, the loop counters within their bounds. *)
THEOREM FeasTypeCorrect == Spec => []TypeOK
BY FeasInvariant, PTL DEF FeasIInv

(* The incremental updates of minimize_by_component (x_col += delta,        *)
(* objective_ += c_col delta, residual_ -= a delta, row_value_ += a delta)  *)
(* keep row_value_, residual_ and objective_ equal to what update() would   *)
(* compute from col_value_, in every state of every run.                    *)
THEOREM FeasIncrementalConsistent == Spec => []IncrementalConsistent
BY FeasInvariant, PTL DEF FeasIInv

(* runFeasibility returns OK on a Quadratic whose residual is not zero     *)
(* only after all K outer iterations: the start test and the break return  *)
(* OK on a zero residual, and the loop never exits early otherwise.         *)
THEOREM FeasOKOnlyFeasibleOrExhausted == Spec => []OKOnlyFeasibleOrExhausted
<1>1. FeasIInv => OKOnlyFeasibleOrExhausted
  BY DEF FeasIInv, ExitReason, OKOnlyFeasibleOrExhausted
<1>2. QED
  BY <1>1, FeasInvariant, PTL
=============================================================================
