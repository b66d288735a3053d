-------------------------- MODULE Verification_proofs --------------------------
(***************************************************************************)
(* What TLC checks of Verification on three elements, proved for matrices  *)
(* of any size, any finite or infinite elements and any tolerances.        *)
(***************************************************************************)
EXTENDS Verification, FiniteSetTheorems, TLAPS

-------------------------------------------------------------------------------
(* Errors and their order *)

\* The doubles an error may be, and those with which it can be compared.
Fraction == {Finite(a, b) : a \in Nat, b \in Nat \ {0}}
Error == Fraction \cup {Infinity, NaN}
Number == Fraction \cup {Infinity}

LEMMA Shape ==
  /\ \A x \in Fraction : x.kind = "finite" /\ x.num \in Nat /\ x.den \in Nat \ {0}
  /\ Infinity.kind = "inf" /\ NaN.kind = "nan"
  /\ \A x \in Error : x.kind # "nan" => x \in Number
  /\ \A x \in Number : x.kind # "nan" /\ x \in Error
<1>1. \A x \in Fraction : x.kind = "finite" /\ x.num \in Nat /\ x.den \in Nat \ {0}
  BY DEF Fraction, Finite
<1>2. Infinity.kind = "inf" /\ NaN.kind = "nan"
  BY DEF Infinity, NaN
<1>3. "finite" # "nan" /\ "inf" # "nan"
  OBVIOUS
<1>4. \A x \in Error : x.kind # "nan" => x \in Number
  BY <1>2 DEF Error, Number
<1>5. \A x \in Number : x.kind # "nan" /\ x \in Error
  BY <1>1, <1>2, <1>3 DEF Error, Number
<1> QED BY <1>1, <1>2, <1>4, <1>5

\* Fractions are ordered like the numbers they stand for.
LEMMA CrossProducts ==
  ASSUME NEW a \in Nat, NEW b \in Nat \ {0}, NEW c \in Nat, NEW d \in Nat \ {0},
         NEW e \in Nat, NEW f \in Nat \ {0},
         a * d <= c * b, c * f <= e * d
  PROVE  /\ a * f <= e * b
         /\ a * d < c * b \/ c * f < e * d => a * f < e * b
<1>1. /\ a * d \in Nat /\ c * b \in Nat /\ c * f \in Nat /\ e * d \in Nat
      /\ a * f \in Nat /\ e * b \in Nat
  OBVIOUS
<1>2. ASSUME NEW x \in Nat, NEW y \in Nat, NEW z \in Nat \ {0}
      PROVE  /\ x <= y => x * z <= y * z
             /\ x < y => x * z < y * z
             /\ x * z <= y * z => x <= y
             /\ x * z < y * z => x < y
             /\ x * z \in Nat
  OBVIOUS
<1>3. (a * d) * f <= (c * b) * f /\ (a * d < c * b => (a * d) * f < (c * b) * f)
  BY <1>1, <1>2
<1>4. (c * f) * b <= (e * d) * b /\ (c * f < e * d => (c * f) * b < (e * d) * b)
  BY <1>1, <1>2
<1>5. (a * d) * f = (a * f) * d /\ (c * b) * f = (c * f) * b /\ (e * d) * b = (e * b) * d
  OBVIOUS
<1> DEFINE p == (a * f) * d
           q == (c * f) * b
           r == (e * b) * d
<1>6. p \in Nat /\ q \in Nat /\ r \in Nat
  BY <1>1, <1>2
<1>7. p <= q /\ q <= r /\ (a * d < c * b => p < q) /\ (c * f < e * d => q < r)
  BY <1>3, <1>4, <1>5
<1>8. p <= r => a * f <= e * b
  BY <1>1, <1>2
<1>9. p < r => a * f < e * b
  BY <1>1, <1>2
<1> HIDE DEF p, q, r
<1> QED BY <1>6, <1>7, <1>8, <1>9

LEMMA Order ==
  /\ \A x, y \in Number : AtMost(x, y) <=> ~Greater(x, y)
  /\ \A x \in Number : ~Greater(x, Infinity)
  /\ \A x \in Fraction : Greater(Infinity, x)
  /\ \A x, y \in Fraction : Greater(x, y) <=> y.num * x.den < x.num * y.den
<1>1. \A x, y \in Number : AtMost(x, y) <=> ~Greater(x, y)
  BY Shape DEF AtMost
<1>2. "finite" # "inf"
  OBVIOUS
<1>3. \A x \in Number : ~Greater(x, Infinity)
  BY <1>2, Shape DEF Greater
<1>4. \A x \in Fraction : Greater(Infinity, x)
  BY Shape DEF Greater
<1>5. ASSUME NEW x \in Fraction, NEW y \in Fraction
      PROVE  Greater(x, y) <=> y.num * x.den < x.num * y.den
  <2>1. Greater(x, y) <=> x.num * y.den > y.num * x.den
    BY <1>2, Shape, Zenon DEF Greater
  <2> DEFINE p == x.num * y.den
             q == y.num * x.den
  <2>2. p \in Nat /\ q \in Nat
    BY Shape
  <2>3. Greater(x, y) <=> p > q
    BY <2>1
  <2> HIDE DEF p, q
  <2>4. Greater(x, y) <=> q < p
    BY <2>2, <2>3
  <2> QED BY <2>4 DEF p, q
<1> QED BY <1>1, <1>3, <1>4, <1>5

LEMMA Transitive ==
  ASSUME NEW x \in Number, NEW y \in Number, NEW z \in Number, ~Greater(x, y), ~Greater(y, z)
  PROVE  /\ ~Greater(x, z)
         /\ Greater(y, x) \/ Greater(z, y) => Greater(z, x)
<1>1. CASE z = Infinity
  <2>1. ~Greater(x, z)
    BY <1>1, Order
  <2>2. CASE x = Infinity
    <3>1. y = Infinity
      BY <2>2, Order DEF Number
    <3> QED BY <1>1, <2>1, <2>2, <3>1, Order
  <2>3. CASE x \in Fraction
    BY <1>1, <2>1, <2>3, Order
  <2> QED BY <2>2, <2>3 DEF Number
<1>2. CASE z \in Fraction
  <2>1. y \in Fraction
    BY <1>2, Order DEF Number
  <2>2. x \in Fraction
    BY <2>1, Order DEF Number
  <2> DEFINE a == x.num
             b == x.den
             c == y.num
             d == y.den
             e == z.num
             f == z.den
  <2>3. /\ a \in Nat /\ b \in Nat \ {0} /\ c \in Nat /\ d \in Nat \ {0}
        /\ e \in Nat /\ f \in Nat \ {0}
    BY <1>2, <2>1, <2>2, Shape
  <2>4. /\ Greater(x, y) <=> c * b < a * d
        /\ Greater(y, x) <=> a * d < c * b
        /\ Greater(y, z) <=> e * d < c * f
        /\ Greater(z, y) <=> c * f < e * d
        /\ Greater(x, z) <=> e * b < a * f
        /\ Greater(z, x) <=> a * f < e * b
    BY <1>2, <2>1, <2>2, Order
  <2> HIDE DEF a, b, c, d, e, f
  <2>5. /\ a * d \in Nat /\ c * b \in Nat /\ c * f \in Nat /\ e * d \in Nat
        /\ a * f \in Nat /\ e * b \in Nat
    BY <2>3
  <2>6. a * d <= c * b /\ c * f <= e * d
    BY <2>4, <2>5
  <2>7. /\ a * f <= e * b
        /\ a * d < c * b \/ c * f < e * d => a * f < e * b
    BY <2>3, <2>6, CrossProducts
  <2> QED BY <2>4, <2>5, <2>7
<1> QED BY <1>1, <1>2 DEF Number

\* Of two numbers at most one is greater.
LEMMA Asymmetric ==
  ASSUME NEW x \in Number, NEW y \in Number, Greater(x, y)
  PROVE  ~Greater(y, x)
<1>1. CASE x = Infinity
  BY <1>1, Order
<1>2. CASE x \in Fraction
  <2>1. y \in Fraction
    BY Order DEF Number
  <2> DEFINE p == y.num * x.den
             q == x.num * y.den
  <2>2. p \in Nat /\ q \in Nat
    BY <1>2, <2>1, Shape
  <2>3. (Greater(x, y) <=> p < q) /\ (Greater(y, x) <=> q < p)
    BY <1>2, <2>1, Order
  <2> HIDE DEF p, q
  <2> QED BY <2>2, <2>3
<1> QED BY <1>1, <1>2 DEF Number

\* The errors of an element can be compared unless it is NaN, and its tolerance
\* is never below the absolute one.
LEMMA Errors ==
  ASSUME NEW cell \in Cells
  PROVE  /\ AbsoluteError(cell) \in Error /\ RelativeError(cell) \in Error
         /\ cell.actual.kind # "nan" =>
              AbsoluteError(cell) \in Number /\ RelativeError(cell) \in Number
         /\ cell.actual.kind = "nan" =>
              AbsoluteError(cell).kind = "nan" /\ RelativeError(cell).kind = "nan"
         /\ Tolerance(cell) \in Fraction /\ Finite(AbsoluteTol, 1) \in Fraction
         /\ ~Greater(Finite(AbsoluteTol, 1), Tolerance(cell))
<1> DEFINE v == cell.actual
           ref == cell.reference
           G == /\ AbsoluteError(cell) \in Error /\ RelativeError(cell) \in Error
                /\ v.kind # "nan" => AbsoluteError(cell) \in Number /\ RelativeError(cell) \in Number
                /\ v.kind = "nan" => AbsoluteError(cell).kind = "nan" /\ RelativeError(cell).kind = "nan"
<1>1. /\ ref \in Int /\ AbsoluteTol \in Nat /\ RelativeDen \in Nat \ {0}
      /\ v \in {Infinity, NaN} \/ (v.kind = "finite" /\ v.num \in Int /\ v.den \in Nat \ {0})
  BY VerificationAssumption
<1>2. \A a \in Int : Abs(a) \in Nat /\ (a # 0 => Abs(a) # 0)
  BY DEF Abs
<1>3. ASSUME v \in {Infinity, NaN} PROVE G
  <2>1. AbsoluteError(cell) = v
    BY <1>3, Shape DEF AbsoluteError
  <2>2. RelativeError(cell) = v
    BY <1>3, <2>1, Shape DEF RelativeError
  <2> QED BY <1>3, <2>1, <2>2, Shape DEF Error, Number
<1>4. ASSUME v.kind = "finite", v.num \in Int, v.den \in Nat \ {0} PROVE G
  <2> DEFINE a == Abs(v.num - ref * v.den)
             b == v.den
  <2>1. AbsoluteError(cell) = Finite(a, b)
    BY <1>4 DEF AbsoluteError
  <2>2. a \in Nat /\ b \in Nat \ {0}
    <3>1. ref * v.den \in Int
      BY <1>1, <1>4
    <3>2. v.num - ref * v.den \in Int
      BY <1>4, <3>1
    <3> QED BY <1>2, <1>4, <3>2
  <2> HIDE DEF a, b
  <2>3. Finite(a, b) \in Fraction
    BY <2>2 DEF Fraction
  <2>4. Finite(a, b).kind = "finite" /\ Finite(a, b).num = a /\ Finite(a, b).den = b
    BY DEF Finite
  <2>5. RelativeError(cell) = IF ref = 0 THEN Finite(a * Tiny, b) ELSE Finite(a, b * Abs(ref))
    BY <2>1, <2>4 DEF RelativeError
  <2>6. RelativeError(cell) \in Fraction
    <3>1. a * Tiny \in Nat
      BY <2>2 DEF Tiny
    <3>2. Finite(a * Tiny, b) \in Fraction
      BY <2>2, <3>1 DEF Fraction
    <3>3. ASSUME ref # 0 PROVE Finite(a, b * Abs(ref)) \in Fraction
      <4> DEFINE r == Abs(ref)
      <4>1. r \in Nat \ {0}
        BY <1>1, <1>2, <3>3
      <4> HIDE DEF r
      <4>2. b * r \in Nat \ {0}
        BY <2>2, <4>1
      <4>3. Finite(a, b * r) \in Fraction
        BY <2>2, <4>2 DEF Fraction
      <4> QED BY <4>3 DEF r
    <3> QED BY <2>5, <3>2, <3>3
  <2>7. v.kind # "nan"
    BY <1>4
  <2> QED BY <2>1, <2>3, <2>6, <2>7 DEF Error, Number
<1>5. Finite(AbsoluteTol, 1) \in Fraction
  BY <1>1 DEF Fraction
<1> DEFINE t == AbsoluteTol * RelativeDen
           s == Abs(ref)
<1>6. t \in Nat /\ s \in Nat
  BY <1>1, <1>2
<1>7. Tolerance(cell) = Finite(t + s, RelativeDen)
  BY DEF Tolerance
<1>8. Tolerance(cell) \in Fraction
  <2> HIDE DEF t, s
  <2>1. t + s \in Nat
    BY <1>6
  <2> QED BY <1>1, <1>7, <2>1 DEF Fraction
<1>9. ~Greater(Finite(AbsoluteTol, 1), Tolerance(cell))
  <2> DEFINE x == Finite(AbsoluteTol, 1)
             y == Tolerance(cell)
  <2>1. x.num = AbsoluteTol /\ x.den = 1 /\ y.num = t + s /\ y.den = RelativeDen
    BY <1>7 DEF Finite
  <2>2. x \in Fraction /\ y \in Fraction
    BY <1>5, <1>8
  <2> HIDE DEF x, y
  <2>3. Greater(x, y) <=> y.num * x.den < x.num * y.den
    BY <2>2, Order
  <2>4. Greater(x, y) <=> (t + s) * 1 < t
    BY <2>1, <2>3
  <2> HIDE DEF t, s
  <2>5. ~Greater(x, y)
    BY <1>6, <2>4
  <2> QED BY <2>5 DEF x, y
<1> QED BY <1>1, <1>3, <1>4, <1>5, <1>8, <1>9

-------------------------------------------------------------------------------
(* The inductive invariant *)

\* The elements compared so far that failed.
Failed == {m \in 1 .. n - 1 : Fails(cells[m])}

Zero == Finite(0, 1)

Results ==
  [passed : BOOLEAN, failure_count : Nat, worst : Nat,
   at_worst : Cells \cup {[reference |-> 0, actual |-> Zero]},
   max_absolute_error : Number, max_relative_error : Number]

Types ==
  /\ cells \in [1 .. Size -> Cells]
  /\ n \in 1 .. Size + 1
  /\ pc \in {"validate", "loop", "done", "rejected"}
  /\ result \in Results
  /\ result.worst <= n

\* What is in the result after the elements before n.
Counts ==
  /\ result.failure_count = Cardinality(Failed)
  /\ pc = "done" => n = Size + 1 /\ (result.passed <=> result.failure_count = 0)

Bounds(m) ==
  cells[m].actual.kind # "nan" =>
    /\ ~Greater(AbsoluteError(cells[m]), result.max_absolute_error)
    /\ ~Greater(RelativeError(cells[m]), result.max_relative_error)
    /\ m < result.worst => Greater(result.max_absolute_error, AbsoluteError(cells[m]))

Maxima ==
  /\ \A m \in 1 .. n - 1 : Bounds(m)
  /\ Greater(result.max_absolute_error, Zero) =>
       /\ result.worst \in 1 .. n - 1
       /\ AbsoluteError(cells[result.worst]) = result.max_absolute_error
       /\ result.at_worst = cells[result.worst]

IInv == Types /\ Counts /\ Maxima

LEMMA ZeroIsLeast ==
  Zero \in Number /\ ~Greater(Zero, Zero)
<1>1. Zero \in Fraction
  BY DEF Zero, Fraction
<1>2. Greater(Zero, Zero) <=> Zero.num * Zero.den < Zero.num * Zero.den
  BY <1>1, Order
<1>3. Zero.num = 0 /\ Zero.den = 1
  BY DEF Zero, Finite
<1>4. ~(0 * 1 < 0 * 1)
  OBVIOUS
<1> QED BY <1>1, <1>2, <1>3, <1>4 DEF Number

LEMMA InitIInv == Init => IInv
<1> SUFFICES ASSUME Init PROVE IInv
  OBVIOUS
<1>1. /\ cells \in [1 .. Size -> Cells] /\ n = 1 /\ pc = "validate" /\ Size \in Nat \ {0}
      /\ result = [passed |-> FALSE, failure_count |-> 0, worst |-> 1,
                   at_worst |-> [reference |-> 0, actual |-> Zero],
                   max_absolute_error |-> Zero, max_relative_error |-> Zero]
  BY VerificationAssumption DEF Init, Zero
<1>2. /\ result.failure_count = 0 /\ result.worst = 1
      /\ result.max_absolute_error = Zero /\ result.max_relative_error = Zero
  BY <1>1
<1>3. result \in Results
  <2>1. Zero \in Number /\ 0 \in Nat /\ 1 \in Nat /\ FALSE \in BOOLEAN
    BY ZeroIsLeast
  <2>2. [reference |-> 0, actual |-> Zero] \in Cells \cup {[reference |-> 0, actual |-> Zero]}
    OBVIOUS
  <2> QED BY <1>1, <2>1, <2>2 DEF Results
<1>4. Types
  <2>1. n \in 1 .. Size + 1 /\ result.worst <= n
    BY <1>1, <1>2
  <2> QED BY <1>1, <1>3, <2>1 DEF Types
<1>5. 1 .. n - 1 = {}
  BY <1>1
<1>6. Counts
  <2>1. Failed = {}
    BY <1>5 DEF Failed
  <2> QED BY <1>1, <1>2, <2>1, FS_EmptySet DEF Counts
<1>7. Maxima
  BY <1>2, <1>5, ZeroIsLeast DEF Maxima
<1> QED BY <1>4, <1>6, <1>7 DEF IInv

LEMMA ValidateStep == IInv /\ Validate => IInv'
<1> SUFFICES ASSUME IInv, Validate PROVE IInv'
  OBVIOUS
<1>1. /\ pc' \in {"loop", "rejected"}
      /\ cells' = cells /\ n' = n /\ result' = result
  BY DEF Validate
<1>2. Types' /\ Counts' /\ Maxima'
  BY <1>1 DEF IInv, Types, Counts, Maxima, Failed, Bounds
<1> QED BY <1>2 DEF IInv

LEMMA FinishStep == IInv /\ Finish => IInv'
<1> SUFFICES ASSUME IInv, Finish PROVE IInv'
  OBVIOUS
<1>1. /\ pc = "loop" /\ n > Size /\ pc' = "done"
      /\ cells' = cells /\ n' = n
      /\ result' = [result EXCEPT !.passed = result.failure_count = 0]
  BY DEF Finish
<1>2. n \in 1 .. Size + 1 /\ result \in Results /\ Size \in Nat
  BY VerificationAssumption DEF IInv, Types
<1>3. /\ result' \in Results
      /\ result'.passed <=> result.failure_count = 0
      /\ result'.failure_count = result.failure_count
      /\ result'.worst = result.worst /\ result'.at_worst = result.at_worst
      /\ result'.max_absolute_error = result.max_absolute_error
      /\ result'.max_relative_error = result.max_relative_error
  <2>1. (result.failure_count = 0) \in BOOLEAN
    OBVIOUS
  <2>2. result' \in Results
    BY <1>1, <1>2, <2>1, Zenon DEF Results
  <2>3. result'.passed <=> result.failure_count = 0
    BY <1>1, <1>2 DEF Results
  <2>4. /\ result'.failure_count = result.failure_count
        /\ result'.worst = result.worst /\ result'.at_worst = result.at_worst
        /\ result'.max_absolute_error = result.max_absolute_error
        /\ result'.max_relative_error = result.max_relative_error
    BY <1>1, <1>2 DEF Results
  <2> QED BY <2>2, <2>3, <2>4
<1>4. Types'
  BY <1>1, <1>3 DEF IInv, Types
<1>5. Counts'
  <2>1. n = Size + 1
    BY <1>1, <1>2
  <2>2. Failed' = Failed
    BY <1>1 DEF Failed
  <2> QED BY <1>1, <1>3, <2>1, <2>2 DEF IInv, Counts
<1>6. Maxima'
  BY <1>1, <1>3 DEF IInv, Maxima, Bounds
<1> QED BY <1>4, <1>5, <1>6 DEF IInv

LEMMA CompareStep == IInv /\ Compare => IInv'
<1> SUFFICES ASSUME IInv, Compare PROVE IInv'
  OBVIOUS
<1> DEFINE cell == cells[n]
           e == AbsoluteError(cell)
           d == RelativeError(cell)
           max == result.max_absolute_error
           rel == result.max_relative_error
<1>1. /\ pc = "loop" /\ n <= Size /\ pc' = pc /\ cells' = cells /\ n' = n + 1
      /\ result' =
           [result EXCEPT
              !.max_absolute_error = IF IsWorse(cell) THEN e ELSE max,
              !.worst = IF IsWorse(cell) THEN n ELSE result.worst,
              !.at_worst = IF IsWorse(cell) THEN cell ELSE result.at_worst,
              !.max_relative_error = StdMax(rel, d),
              !.failure_count = IF Fails(cell) THEN result.failure_count + 1
                                ELSE result.failure_count]
  BY DEF Compare
<1>2. /\ Size \in Nat /\ n \in Nat /\ n \in 1 .. Size /\ cells \in [1 .. Size -> Cells]
      /\ cell \in Cells /\ result \in Results
  BY <1>1, VerificationAssumption DEF IInv, Types
<1>3. /\ max \in Number /\ rel \in Number /\ result.failure_count \in Nat
      /\ result.worst \in Nat /\ result.worst <= n /\ result.at_worst \in Cells \cup {[reference |-> 0, actual |-> Zero]}
  BY <1>2 DEF IInv, Types, Results
<1>4. /\ cell.actual.kind # "nan" => e \in Number /\ d \in Number
      /\ cell.actual.kind = "nan" => ~IsWorse(cell) /\ StdMax(rel, d) = rel
  <2>1. ASSUME NEW x, NEW y, x.kind = "nan" PROVE ~Greater(x, y)
    BY <2>1 DEF Greater
  <2>2. e.kind = "nan" => ~IsWorse(cell)
    BY <2>1 DEF IsWorse
  <2>3. d.kind = "nan" => StdMax(rel, d) = rel
    BY <2>1 DEF StdMax
  <2> QED BY <1>2, <2>2, <2>3, Errors
<1> DEFINE max2 == IF IsWorse(cell) THEN e ELSE max
           rel2 == StdMax(rel, d)
           worst2 == IF IsWorse(cell) THEN n ELSE result.worst
           at2 == IF IsWorse(cell) THEN cell ELSE result.at_worst
           count2 == IF Fails(cell) THEN result.failure_count + 1 ELSE result.failure_count
<1>5. max2 \in Number /\ rel2 \in Number
  BY <1>3, <1>4 DEF StdMax
<1>6. worst2 \in Nat /\ worst2 <= n /\ count2 \in Nat
      /\ at2 \in Cells \cup {[reference |-> 0, actual |-> Zero]}
  BY <1>2, <1>3
<1>7. /\ result' \in Results
      /\ result'.max_absolute_error = max2 /\ result'.max_relative_error = rel2
      /\ result'.worst = worst2 /\ result'.at_worst = at2 /\ result'.failure_count = count2
  <2>1. result' = [result EXCEPT !.max_absolute_error = max2, !.worst = worst2, !.at_worst = at2,
                                 !.max_relative_error = rel2, !.failure_count = count2]
    BY <1>1
  <2> HIDE DEF max2, rel2, worst2, at2, count2
  <2> QED BY <1>2, <1>5, <1>6, <2>1 DEF Results
<1>8. Types'
  BY <1>1, <1>2, <1>6, <1>7 DEF IInv, Types
<1>9. Counts'
  <2>1. Failed' = IF Fails(cell) THEN Failed \cup {n} ELSE Failed
    <3>1. Failed' = {m \in 1 .. n : Fails(cells[m])}
      <4>1. n' - 1 = n
        BY <1>1, <1>2
      <4> QED BY <1>1, <4>1 DEF Failed, Fails
    <3>2. 1 .. n = (1 .. n - 1) \cup {n} /\ n \notin 1 .. n - 1
      BY <1>2
    <3> QED BY <3>1, <3>2 DEF Failed
  <2>2. IsFiniteSet(Failed) /\ n \notin Failed
    <3>1. IsFiniteSet(1 .. n - 1) /\ n \notin 1 .. n - 1
      BY <1>2, FS_Interval
    <3> QED BY <3>1, FS_Subset DEF Failed
  <2>3. result.failure_count = Cardinality(Failed)
    BY DEF IInv, Counts
  <2>4. Cardinality(Failed') = count2
    BY <2>1, <2>2, <2>3, FS_AddElement
  <2> QED BY <1>1, <1>7, <2>4 DEF Counts
<1>10. /\ ~Greater(max, max2) /\ ~Greater(rel, rel2)
       /\ e \in Number => ~Greater(e, max2) /\ ~Greater(d, rel2)
  <2>1. ASSUME NEW x \in Number PROVE ~Greater(x, x)
    BY <2>1, Asymmetric
  <2>2. IsWorse(cell) => Greater(e, max) /\ ~Greater(max, e)
    BY <1>3, <1>4, Asymmetric DEF IsWorse
  <2>3. ~IsWorse(cell) => ~Greater(e, max)
    BY DEF IsWorse
  <2>4. IF Greater(d, rel) THEN rel2 = d ELSE rel2 = rel
    BY DEF StdMax
  <2>5. CASE IsWorse(cell)
    <3>1. max2 = e /\ e \in Number
      BY <1>4, <2>5, Errors, Zenon
    <3>2. ~Greater(max, max2) /\ ~Greater(e, max2)
      BY <2>1, <2>2, <2>5, <3>1
    <3>3. d \in Number
      BY <1>4, <2>5
    <3>4. ~Greater(rel, rel2) /\ ~Greater(d, rel2)
      BY <1>3, <2>1, <2>4, <3>3, Asymmetric
    <3> QED BY <3>2, <3>4
  <2>6. CASE ~IsWorse(cell)
    <3>1. max2 = max
      BY <2>6
    <3>2. ~Greater(max, max2) /\ ~Greater(e, max2)
      BY <1>3, <2>1, <2>3, <2>6, <3>1
    <3>3. ASSUME d \in Number PROVE ~Greater(rel, rel2) /\ ~Greater(d, rel2)
      BY <1>3, <2>1, <2>4, <3>3, Asymmetric
    <3>4. e \in Number => d \in Number
      <4>1. ASSUME cell.actual.kind = "nan" PROVE e \notin Number
        BY <1>2, <4>1, Errors, Shape
      <4> QED BY <1>4, <4>1
    <3>5. ASSUME d \notin Number PROVE ~Greater(rel, rel2)
      <4>1. rel2 = rel
        BY <1>4, <3>5
      <4> QED BY <1>3, <2>1, <4>1
    <3> QED BY <3>2, <3>3, <3>4, <3>5
  <2> QED BY <2>5, <2>6
<1>11. IsWorse(cell) => Greater(max2, max)
  BY DEF IsWorse
<1>12. ASSUME NEW m \in 1 .. n, cells[m].actual.kind # "nan"
       PROVE  /\ ~Greater(AbsoluteError(cells[m]), max2)
              /\ ~Greater(RelativeError(cells[m]), rel2)
              /\ m < worst2 => Greater(max2, AbsoluteError(cells[m]))
  <2>1. CASE m = n
    <3>1. e \in Number
      BY <1>4, <1>12, <2>1
    <3>2. ~(m < worst2)
      BY <1>2, <1>6, <2>1
    <3> QED BY <1>10, <2>1, <3>1, <3>2
  <2>2. CASE m # n
    <3> DEFINE x == AbsoluteError(cells[m])
               y == RelativeError(cells[m])
    <3>1. m \in 1 .. n - 1 /\ m \in 1 .. Size
      BY <1>2, <2>2
    <3>2. /\ ~Greater(x, max) /\ ~Greater(y, rel)
          /\ m < result.worst => Greater(max, x)
      BY <1>12, <3>1 DEF IInv, Maxima, Bounds
    <3>3. x \in Number /\ y \in Number
      <4>1. cells[m] \in Cells
        BY <1>2, <3>1
      <4> QED BY <1>12, <4>1, Errors
    <3> HIDE DEF x, y, max, rel, max2, rel2, worst2
    <3>4. ~Greater(x, max2) /\ ~Greater(y, rel2)
      BY <1>3, <1>5, <1>10, <3>2, <3>3, Transitive
    <3>5. CASE IsWorse(cell)
      <4>1. Greater(max2, max)
        BY <1>11, <3>5
      <4>2. Greater(max2, x)
        BY <1>3, <1>5, <1>10, <3>2, <3>3, <4>1, Transitive
      <4> QED BY <3>4, <4>2 DEF x, y
    <3>6. CASE ~IsWorse(cell)
      <4>1. max2 = max /\ worst2 = result.worst
        BY <3>6 DEF max2, worst2, max
      <4> QED BY <3>2, <3>4, <4>1 DEF x, y
    <3> QED BY <3>5, <3>6
  <2> QED BY <2>1, <2>2
<1>13. ASSUME Greater(max2, Zero)
       PROVE  worst2 \in 1 .. n /\ AbsoluteError(cells[worst2]) = max2 /\ at2 = cells[worst2]
  <2>1. CASE IsWorse(cell)
    <3>1. worst2 = n /\ max2 = e /\ at2 = cell
      BY <2>1
    <3>2. n \in 1 .. n
      BY <1>2
    <3> QED BY <3>1, <3>2
  <2>2. CASE ~IsWorse(cell)
    <3>1. worst2 = result.worst /\ max2 = max /\ at2 = result.at_worst
      BY <2>2
    <3>2. /\ result.worst \in 1 .. n - 1 /\ AbsoluteError(cells[result.worst]) = max
          /\ result.at_worst = cells[result.worst]
      BY <1>13, <3>1 DEF IInv, Maxima
    <3>3. result.worst \in 1 .. n
      BY <1>2, <3>2
    <3> QED BY <3>1, <3>2, <3>3
  <2> QED BY <2>1, <2>2
<1>14. Maxima'
  <2>1. n' - 1 = n
    BY <1>1, <1>2
  <2> HIDE DEF max2, rel2, worst2, at2
  <2>2. \A m \in 1 .. n' - 1 : Bounds(m)'
    BY <1>1, <1>7, <1>12, <2>1 DEF Bounds
  <2> QED BY <1>1, <1>7, <1>13, <2>1, <2>2 DEF Maxima
<1> QED BY <1>8, <1>9, <1>14 DEF IInv

\* The inductive invariant holds at every moment.
LEMMA Invariance == Spec => []IInv
<1>1. ASSUME IInv, UNCHANGED vars PROVE IInv'
  BY <1>1 DEF vars, IInv, Types, Counts, Maxima, Failed, Bounds
<1>2. IInv /\ [Next]_vars => IInv'
  BY <1>1, ValidateStep, CompareStep, FinishStep DEF Next
<1> QED BY InitIInv, <1>2, PTL DEF Spec

-------------------------------------------------------------------------------
(* What the result says *)

\* A passed verification means that no comparable error is beyond the joint
\* tolerance, and the failures are counted one by one, whatever the order of
\* infinities, NaNs and numbers is.
THEOREM VerdictIsRight == Spec => []PassedIffNoExcess
<1>1. IInv => PassedIffNoExcess
  <2> SUFFICES ASSUME IInv, pc = "done"
               PROVE  /\ result.passed <=>
                           \A m \in Comparable : AtMost(AbsoluteError(cells[m]), Tolerance(cells[m]))
                      /\ result.failure_count =
                           Cardinality({m \in Comparable :
                             ~AtMost(AbsoluteError(cells[m]), Tolerance(cells[m]))})
    BY DEF PassedIffNoExcess
  <2> DEFINE excess(m) == ~AtMost(AbsoluteError(cells[m]), Tolerance(cells[m]))
  <2>1. /\ Failed = {m \in 1 .. Size : Fails(cells[m])}
        /\ result.failure_count = Cardinality(Failed)
        /\ result.passed <=> result.failure_count = 0
        /\ cells \in [1 .. Size -> Cells]
    <3>1. n = Size + 1 /\ (Size + 1) - 1 = Size
      BY VerificationAssumption DEF IInv, Counts
    <3> QED BY <3>1 DEF IInv, Types, Counts, Failed
  <2>2. ASSUME NEW m \in 1 .. Size PROVE Fails(cells[m]) <=> m \in Comparable /\ excess(m)
    <3>1. cells[m] \in Cells
      BY <2>1
    <3>2. ASSUME cells[m].actual.kind = "nan" PROVE ~Fails(cells[m])
      <4>1. AbsoluteError(cells[m]).kind = "nan"
        BY <3>1, <3>2, Errors
      <4> QED BY <4>1 DEF Fails, Greater
    <3>3. ASSUME cells[m].actual.kind # "nan" PROVE Fails(cells[m]) <=> excess(m)
      <4>1. AbsoluteError(cells[m]) \in Number /\ Tolerance(cells[m]) \in Number
        BY <3>1, <3>3, Errors DEF Number
      <4> QED BY <4>1, Order DEF Fails
    <3> QED BY <3>2, <3>3 DEF Comparable
  <2> HIDE DEF excess
  <2>3. Failed = {m \in Comparable : excess(m)}
    BY <2>1, <2>2 DEF Comparable
  <2>4. result.passed <=> \A m \in Comparable : ~excess(m)
    <3>1. IsFiniteSet(Failed)
      <4>1. IsFiniteSet(1 .. Size)
        BY VerificationAssumption, FS_Interval
      <4> QED BY <2>1, <4>1, FS_Subset
    <3>2. Cardinality(Failed) = 0 <=> Failed = {}
      BY <3>1, FS_EmptySet
    <3> QED BY <2>1, <2>3, <3>2
  <2> QED BY <2>1, <2>3, <2>4 DEF excess
<1> QED BY Invariance, <1>1, PTL

\* The diagnostics are about the same pass: the maxima bound every comparable
\* error, the worst position is the first that attains the maximum and shows its
\* values, and a failure shows an error above the absolute tolerance.
THEOREM DiagnosticsAreRight == Spec => []DiagnosticsBoundErrors
<1>1. IInv => DiagnosticsBoundErrors
  <2> SUFFICES ASSUME IInv, pc = "done"
               PROVE  /\ \A m \in Comparable :
                           /\ AtMost(AbsoluteError(cells[m]), result.max_absolute_error)
                           /\ AtMost(RelativeError(cells[m]), result.max_relative_error)
                      /\ \A m \in Comparable : m < result.worst =>
                           Greater(result.max_absolute_error, AbsoluteError(cells[m]))
                      /\ Greater(result.max_absolute_error, Zero) =>
                           /\ AbsoluteError(cells[result.worst]) = result.max_absolute_error
                           /\ result.at_worst = cells[result.worst]
                      /\ ~result.passed =>
                           Greater(result.max_absolute_error, Finite(AbsoluteTol, 1))
    BY DEF DiagnosticsBoundErrors, Zero
  <2> DEFINE max == result.max_absolute_error
  <2>1. /\ n = Size + 1 /\ (Size + 1) - 1 = Size /\ cells \in [1 .. Size -> Cells]
        /\ max \in Number /\ result.max_relative_error \in Number
    BY VerificationAssumption DEF IInv, Types, Counts, Results
  <2>2. ASSUME NEW m \in 1 .. Size, cells[m].actual.kind # "nan"
        PROVE  /\ AbsoluteError(cells[m]) \in Number /\ RelativeError(cells[m]) \in Number
               /\ ~Greater(AbsoluteError(cells[m]), max)
               /\ ~Greater(RelativeError(cells[m]), result.max_relative_error)
               /\ m < result.worst => Greater(max, AbsoluteError(cells[m]))
    <3>1. cells[m] \in Cells
      BY <2>1
    <3>2. Bounds(m)
      BY <2>1 DEF IInv, Maxima
    <3> QED BY <2>2, <3>1, <3>2, Errors DEF Bounds
  <2>3. Greater(max, Zero) => /\ AbsoluteError(cells[result.worst]) = max
                              /\ result.at_worst = cells[result.worst]
    BY DEF IInv, Maxima
  <2>4. ASSUME ~result.passed PROVE Greater(max, Finite(AbsoluteTol, 1))
    <3>1. PICK m \in 1 .. Size : Fails(cells[m])
      <4>1. Failed = {m \in 1 .. Size : Fails(cells[m])}
        BY <2>1 DEF Failed
      <4>2. Cardinality(Failed) # 0
        BY <2>4 DEF IInv, Counts
      <4>3. Failed # {}
        BY <4>2, FS_EmptySet
      <4> QED BY <4>1, <4>3
    <3> DEFINE e == AbsoluteError(cells[m])
               t == Tolerance(cells[m])
               a == Finite(AbsoluteTol, 1)
    <3>2. cells[m] \in Cells /\ Greater(e, t)
      BY <2>1, <3>1 DEF Fails
    <3>3. cells[m].actual.kind # "nan"
      <4>1. ASSUME e.kind = "nan" PROVE FALSE
        BY <3>2, <4>1 DEF Greater
      <4> QED BY <3>2, <4>1, Errors
    <3>4. e \in Number /\ t \in Number /\ a \in Number /\ ~Greater(a, t) /\ ~Greater(e, max)
      BY <2>2, <3>2, <3>3, Errors DEF Number
    <3> HIDE DEF e, t, a, max
    <3>5. Greater(e, a)
      BY <3>2, <3>4, Asymmetric, Transitive
    <3>6. Greater(max, a)
      <4>1. ~Greater(a, e)
        BY <3>4, <3>5, Asymmetric
      <4> QED BY <2>1, <3>4, <3>5, <4>1, Transitive
    <3> QED BY <3>6 DEF a
  <2>5. ASSUME NEW m \in Comparable
        PROVE  m \in 1 .. Size /\ cells[m].actual.kind # "nan"
    BY DEF Comparable
  <2> HIDE DEF max
  <2>6. \A x, y \in Number : AtMost(x, y) <=> ~Greater(x, y)
    BY Order
  <2>7. ASSUME NEW m \in Comparable
        PROVE  /\ AtMost(AbsoluteError(cells[m]), max)
               /\ AtMost(RelativeError(cells[m]), result.max_relative_error)
               /\ m < result.worst => Greater(max, AbsoluteError(cells[m]))
    BY <2>1, <2>2, <2>5, <2>6
  <2> QED BY <2>3, <2>4, <2>7 DEF max
<1> QED BY Invariance, <1>1, PTL
===============================================================================
