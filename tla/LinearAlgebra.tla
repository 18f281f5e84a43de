---------------------------- MODULE LinearAlgebra ----------------------------
(***************************************************************************)
(* AMath: the LU decomposition with partial pivoting, the solutions and    *)
(* the inverse made of it, and the linear least squares fit on top, which  *)
(* the TNX model of every frame is fitted with.                            *)
(*                                                                         *)
(* Doubles are exact fractions here, so that what is seen is the control:  *)
(* pivots, row exchanges, substitution order and the status returned.      *)
(* The variable holds the matrix handed in, one call a step.               *)
(***************************************************************************)
EXTENDS Integers, Sequences, FiniteSets, Folds, Functions

CONSTANTS Entries, \* the elements of the matrices of two rows
          Bits     \* the elements of the matrices of three rows

VARIABLES n,   \* the order of the matrix
          mat, \* the matrix, rows and columns numbered from 0
          wild \* what the uninitialised imax of LUdcmp holds

laVars == <<n, mat, wild>>

(* ------------------------------- fractions ------------------------------ *)

Int2Q(i) == <<i, 1>>
Zero == Int2Q(0)
Abs(i) == IF i < 0 THEN -i ELSE i
GCD[a \in Nat, b \in Nat] == IF b = 0 THEN a ELSE GCD[b, a % b]
Reduce(p, q) ==
    LET g == GCD[Abs(p), Abs(q)]
        s == IF q < 0 THEN -1 ELSE 1
    IN  <<s * (p \div g), s * (q \div g)>>
Mul(x, y) == Reduce(x[1] * y[1], x[2] * y[2])
Div(x, y) == Reduce(x[1] * y[2], x[2] * y[1])
Add(x, y) == Reduce(x[1] * y[2] + y[1] * x[2], x[2] * y[2])
Sub(x, y) == Add(x, <<-y[1], y[2]>>)
Greater(x, y) == Abs(x[1]) * y[2] > Abs(y[1]) * x[2]
Total(S, f(_)) == MapThenFoldSet(Add, Zero, f, LAMBDA T : CHOOSE x \in T : TRUE, S)

(* ------------------------------ decomposition --------------------------- *)

Ix(m) == 0..(m - 1)
Biggest(S, f(_)) == CHOOSE i \in S : \A k \in S : ~Greater(f(k), f(i))

\* The row LUdcmp pivots on in step k: the first with the largest scaled element.
\* When all of them are zero imax keeps the value of the step before, and in the
\* first step the one the stack held.
Pivot(m, a, scale, k, imax) ==
    LET size(i) == Mul(scale[i], a[i][k])
        rows == {i \in k..(m - 1) : a[i][k] # Zero}
        best == {i \in rows : \A r \in rows : ~Greater(size(r), size(i))}
    IN  IF rows = {} THEN imax ELSE CHOOSE i \in best : \A r \in best : i <= r

\* Mutant: one of the two rows is lost.
Exchange_Half(a, i, k) == [a EXCEPT ![k] = a[i]]
Exchange(a, i, k) == [a EXCEPT ![i] = a[k], ![k] = a[i]]

\* Mutant: the last row is not reached.
Eliminate_Short(m, a, k) ==
    [i \in Ix(m) |->
        IF i <= k \/ i = m - 1 THEN a[i]
        ELSE LET l == IF a[k][k] = Zero THEN Zero ELSE Div(a[i][k], a[k][k])
             IN  [j \in Ix(m) |-> IF j < k THEN a[i][j] ELSE IF j = k THEN l
                                  ELSE Sub(a[i][j], Mul(l, a[k][j]))]]

\* Rows below k: the multiplier in column k, then the row less its multiple of
\* row k.  A zero pivot becomes TINY; the column below it is zero then.
Eliminate(m, a, k) ==
    [i \in Ix(m) |->
        IF i <= k THEN a[i]
        ELSE LET l == IF a[k][k] = Zero THEN Zero ELSE Div(a[i][k], a[k][k])
             IN  [j \in Ix(m) |-> IF j < k THEN a[i][j] ELSE IF j = k THEN l
                                  ELSE Sub(a[i][j], Mul(l, a[k][j]))]]

\* ok is FALSE only for a row of zeros; np counts the row exchanges.
LUdcmp(m, a0, garbage) ==
    LET zeroRow == \E i \in Ix(m) : \A j \in Ix(m) : a0[i][j] = Zero
        scale0 == [i \in Ix(m) |-> LET b == Biggest(Ix(m), LAMBDA j : a0[i][j])
                                   IN  Div(Int2Q(1), <<Abs(a0[i][b][1]), a0[i][b][2]>>)]
        Step[k \in 0..m] ==
            IF k = 0 THEN [a |-> a0, scale |-> scale0, idx |-> <<>>, np |-> 0, imax |-> garbage]
            ELSE LET s == Step[k - 1]
                     p == Pivot(m, s.a, s.scale, k - 1, s.imax)
                     swapped == IF p # k - 1 THEN Exchange(s.a, p, k - 1) ELSE s.a
                 IN  [a |-> Eliminate(m, swapped, k - 1),
                      scale |-> IF p # k - 1 THEN [s.scale EXCEPT ![p] = s.scale[k - 1]]
                                ELSE s.scale,
                      idx |-> Append(s.idx, p),
                      np |-> IF p # k - 1 THEN s.np + 1 ELSE s.np,
                      imax |-> p]
        end == Step[m]
    IN  IF zeroRow THEN [ok |-> FALSE]
        ELSE [ok |-> TRUE, lu |-> end.a, idx |-> end.idx, np |-> end.np]

\* Forward substitution in the order of the exchanges, then backward.
LUsolve(m, d, b) ==
    LET Forward[i \in 0..m] ==
            IF i = 0 THEN b
            ELSE LET x == Forward[i - 1]
                     p == d.idx[i]
                     y == [x EXCEPT ![p] = x[i - 1]]
                 IN  [y EXCEPT ![i - 1] = Sub(x[p], Total(0..(i - 2),
                                              LAMBDA j : Mul(d.lu[i - 1][j], y[j])))]
        Backward[i \in 0..m] ==
            IF i = m THEN Forward[m]
            ELSE LET x == Backward[i + 1]
                 IN  [x EXCEPT ![i] = Div(Sub(x[i], Total((i + 1)..(m - 1),
                                              LAMBDA j : Mul(d.lu[i][j], x[j]))),
                                          d.lu[i][i])]
    IN  Backward[0]

LUDet(m, a, garbage) ==
    LET d == LUdcmp(m, a, garbage)
        Diagonal[i \in 0..m] == IF i = 0 THEN Int2Q(1)
                                ELSE Mul(Diagonal[i - 1], d.lu[i - 1][i - 1])
        t == Diagonal[m]
    IN  IF ~d.ok THEN Zero ELSE IF d.np % 2 = 1 THEN Sub(Zero, t) ELSE t

Unit(m, j) == [i \in Ix(m) |-> IF i = j THEN Int2Q(1) ELSE Zero]

\* Column j of the inverse solves a * x = unit vector j.
MatrixInvert(m, a, garbage) ==
    LET d == LUdcmp(m, a, garbage)
        column == [j \in Ix(m) |-> LUsolve(m, d, Unit(m, j))]
    IN  [i \in Ix(m) |-> [j \in Ix(m) |-> column[j][i]]]

MatrixMultiply(m, L, R) ==
    [i \in Ix(m) |-> [j \in Ix(m) |-> Total(Ix(m), LAMBDA k : Mul(L[i][k], R[k][j]))]]

\* Normal equations: one row of x per base function, one column per sample.
LSFitLinear(m, x, y, samples, garbage) ==
    LET A == [i \in Ix(m) |-> [j \in Ix(m) |->
                 Total(samples, LAMBDA s : Mul(x[i][s], x[j][s]))]]
        Y == [i \in Ix(m) |-> Total(samples, LAMBDA s : Mul(x[i][s], y[s]))]
        d == LUdcmp(m, A, garbage)
    IN  IF d.ok THEN LUsolve(m, d, Y) ELSE <<>>

(* -------------------------------- the calls ----------------------------- *)

Rational(f) == [i \in DOMAIN f |-> [j \in DOMAIN f[i] |-> Int2Q(f[i][j])]]

LAInit == n = 2 /\ mat = [i \in Ix(2) |-> Unit(2, i)] /\ wild = 0

CallOfTwo ==
    /\ n' = 2
    /\ \E f \in [Ix(2) -> [Ix(2) -> Entries]] : mat' = Rational(f)
    /\ wild' \in Ix(2)

CallOfThree ==
    /\ n' = 3
    /\ \E f \in [Ix(3) -> [Ix(3) -> Bits]] : mat' = Rational(f)
    /\ wild' \in Ix(3)

LANext == n = 2 /\ mat = [i \in Ix(2) |-> Unit(2, i)] /\ (CallOfTwo \/ CallOfThree)

LASpec == LAInit /\ [][LANext]_laVars

(* ------------------------------- properties ----------------------------- *)

\* The determinant by expansion along the first row.
Minor(a, m, j) ==
    [i \in Ix(m - 1) |-> [k \in Ix(m - 1) |-> a[i + 1][IF k < j THEN k ELSE k + 1]]]
Det2(a) == Sub(Mul(a[0][0], a[1][1]), Mul(a[0][1], a[1][0]))
Det(a, m) ==
    IF m = 2 THEN Det2(a)
    ELSE Add(Sub(Mul(a[0][0], Det2(Minor(a, 3, 0))), Mul(a[0][1], Det2(Minor(a, 3, 1)))),
             Mul(a[0][2], Det2(Minor(a, 3, 2))))

\* For a matrix that has an inverse, LUDet is its determinant and MatrixInvert
\* its inverse, whatever rows were exchanged on the way and whatever memory held.
InverseInverts ==
    Det(mat, n) # Zero =>
        /\ LUDet(n, mat, wild) = Det(mat, n)
        /\ MatrixMultiply(n, mat, MatrixInvert(n, mat, wild)) = [i \in Ix(n) |-> Unit(n, i)]

\* Samples that lie on a combination of the base functions give its coefficients
\* back: here the coefficients are 1..n and the base functions the rows of mat.
FitFindsCoefficients ==
    LET y == [s \in Ix(n) |-> Total(Ix(n), LAMBDA i : Mul(Int2Q(i + 1), mat[i][s]))]
    IN  Det(mat, n) # Zero =>
            LSFitLinear(n, mat, y, Ix(n), wild) = [i \in Ix(n) |-> Int2Q(i + 1)]

\* AMath.h of LUsolve and LSFitLinear: a singular matrix is refused.
SingularIsRefused == Det(mat, n) = Zero => ~LUdcmp(n, mat, wild).ok
=============================================================================
