----------------------------- MODULE Verification -----------------------------
(***************************************************************************)
(* verify_gemm: one pass over C that compares every element with its FP64  *)
(* reference.  A and B are finite FP32 matrices, so a reference is finite  *)
(* (FP64 does not overflow on them); an element of C may also be infinite  *)
(* or NaN, since FP32 sums overflow, and so may the error.                 *)
(*                                                                         *)
(* A double is a record: kind "finite" with a value num/den, "inf" or      *)
(* "nan".  Only errors are compared, and they are not negative.            *)
(***************************************************************************)
EXTENDS Integers, FiniteSets

CONSTANTS
  Size,        \* bound: the number of elements of C
  Cells,       \* the pairs [reference, actual] an element may be
  AbsoluteTol, \* absolute_tolerance
  RelativeDen  \* relative_tolerance is 1 / RelativeDen

Finite(num, den) == [kind |-> "finite", num |-> num, den |-> den]
Infinity == [kind |-> "inf", num |-> 0, den |-> 1]
NaN == [kind |-> "nan", num |-> 0, den |-> 1]

ASSUME VerificationAssumption ==
  /\ Size \in Nat \ {0} /\ AbsoluteTol \in Nat /\ RelativeDen \in Nat \ {0}
  /\ \A cell \in Cells :
       /\ cell.reference \in Int
       /\ \/ cell.actual \in {Infinity, NaN}
          \/ /\ cell.actual.kind = "finite"
             /\ cell.actual.num \in Int /\ cell.actual.den \in Nat \ {0}

VARIABLES
  matching, \* whether the three matrices fit together
  cells,    \* the elements in the order of the two loops
  n,        \* the next one
  pc,       \* "validate", "loop", "done" or "rejected"
  result    \* the VerificationResult

vars == <<matching, cells, n, pc, result>>

\* The operators > and <= on doubles: with a NaN both are false.
Greater(a, b) ==
  \/ a.kind = "inf" /\ b.kind = "finite"
  \/ a.kind = "finite" /\ b.kind = "finite" /\ a.num * b.den > b.num * a.den

AtMost(a, b) == a.kind # "nan" /\ b.kind # "nan" /\ ~Greater(a, b)

\* std::max(a, b) is a unless a < b.
StdMax(a, b) == IF Greater(b, a) THEN b ELSE a

Abs(x) == IF x < 0 THEN -x ELSE x

\* absolute_error and relative_error.  Denominators below 1.0e-12 are replaced
\* by it: references here are integers, so that is 0 only, and Tiny stands for
\* 1 / 1.0e-12.
Tiny == 1000000

AbsoluteError(cell) ==
  IF cell.actual.kind = "finite"
  THEN Finite(Abs(cell.actual.num - cell.reference * cell.actual.den), cell.actual.den)
  ELSE cell.actual

RelativeError(cell) ==
  LET error == AbsoluteError(cell)
  IN  IF error.kind # "finite" THEN error
      ELSE IF cell.reference = 0 THEN Finite(error.num * Tiny, error.den)
      ELSE Finite(error.num, error.den * Abs(cell.reference))

Tolerance(cell) == Finite(AbsoluteTol * RelativeDen + Abs(cell.reference), RelativeDen)

\* worst stands for worst_row and worst_col, at_worst for computed_at_worst and
\* reference_at_worst.
Init ==
  /\ matching \in BOOLEAN
  /\ cells \in [1 .. Size -> Cells]
  /\ n = 1
  /\ pc = "validate"
  /\ result = [passed |-> FALSE, failure_count |-> 0, worst |-> 1,
               at_worst |-> [reference |-> 0, actual |-> Finite(0, 1)],
               max_absolute_error |-> Finite(0, 1), max_relative_error |-> Finite(0, 1)]

\* std::invalid_argument: there is no result.
Validate ==
  /\ pc = "validate"
  /\ pc' = IF matching THEN "loop" ELSE "rejected"
  /\ UNCHANGED <<matching, cells, n, result>>

SlipNegatedTest(cell) == ~AtMost(AbsoluteError(cell), Finite(AbsoluteTol, 1))

\* The test of line 43.
Fails(cell) == Greater(AbsoluteError(cell), Tolerance(cell))

SlipLastMaximum(cell) == ~Greater(result.max_absolute_error, AbsoluteError(cell))

\* The test of line 34.
IsWorse(cell) == Greater(AbsoluteError(cell), result.max_absolute_error)

Compare ==
  /\ pc = "loop" /\ n <= Size
  /\ LET cell == cells[n]
     IN  result' =
           [result EXCEPT
              !.max_absolute_error = IF IsWorse(cell) THEN AbsoluteError(cell) ELSE @,
              !.worst = IF IsWorse(cell) THEN n ELSE @,
              !.at_worst = IF IsWorse(cell) THEN cell ELSE @,
              !.max_relative_error = StdMax(@, RelativeError(cell)),
              !.failure_count = IF Fails(cell) THEN @ + 1 ELSE @]
  /\ n' = n + 1
  /\ UNCHANGED <<matching, cells, pc>>

Finish ==
  /\ pc = "loop" /\ n > Size
  /\ result' = [result EXCEPT !.passed = result.failure_count = 0]
  /\ pc' = "done"
  /\ UNCHANGED <<matching, cells, n>>

Next == Validate \/ Compare \/ Finish

Spec == Init /\ [][Next]_vars
-------------------------------------------------------------------------------
\* The elements whose error is comparable.
Comparable == {m \in 1 .. Size : cells[m].actual.kind # "nan"}

\* PASS means that no element with an error that can be compared is beyond the
\* joint tolerance, and the failures are counted one by one: an infinite
\* element always fails, however large its reference is.
PassedIffNoExcess ==
  pc = "done" =>
    /\ result.passed <=>
         \A m \in Comparable : AtMost(AbsoluteError(cells[m]), Tolerance(cells[m]))
    /\ result.failure_count =
         Cardinality({m \in Comparable : ~AtMost(AbsoluteError(cells[m]), Tolerance(cells[m]))})

\* The diagnostics are about the same pass: the maximal errors bound every
\* error, the worst position is the first one that attains the maximum, and a
\* failed verification shows an error above the absolute tolerance.
DiagnosticsBoundErrors ==
  pc = "done" =>
    /\ \A m \in Comparable :
         /\ AtMost(AbsoluteError(cells[m]), result.max_absolute_error)
         /\ AtMost(RelativeError(cells[m]), result.max_relative_error)
    /\ \A m \in Comparable : m < result.worst =>
         Greater(result.max_absolute_error, AbsoluteError(cells[m]))
    /\ Greater(result.max_absolute_error, Finite(0, 1)) =>
         /\ AbsoluteError(cells[result.worst]) = result.max_absolute_error
         /\ result.at_worst = cells[result.worst]
    /\ ~result.passed => Greater(result.max_absolute_error, Finite(AbsoluteTol, 1))

\* docs/numerical-verification.md, line 11: the result passes if for every
\* element abs(error) <= 1e-4 + 1e-4*abs(reference).
DocumentedCriterion ==
  pc = "done" /\ result.passed =>
    \A m \in 1 .. Size : AtMost(AbsoluteError(cells[m]), Tolerance(cells[m]))
===============================================================================
