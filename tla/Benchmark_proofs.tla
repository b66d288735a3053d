--------------------------- MODULE Benchmark_proofs ---------------------------
(***************************************************************************)
(* What TLC checks of Benchmark on three shapes and three runs, proved for *)
(* every configuration main() may run with and every clock, and that the   *)
(* configurations parse_options accepts are such ones.                     *)
(***************************************************************************)
EXTENDS Benchmark, BenchmarkOptions, SequenceTheorems, FiniteSetTheorems, TLAPS

(* What the variables hold, shape by shape and run by run. *)
PackingFor(s, r) == IF RequiresPackedB(options.kernel) THEN PackingTime(s, r) ELSE 0

RunOf(s, r) ==
  [run |-> r, time |-> KernelTime(s, r), packing |-> PackingFor(s, r),
   one_shot |-> KernelTime(s, r) + PackingFor(s, r), c |-> "product"]

RunsOf(s, n) == [r \in 1 .. n |-> RunOf(s, r)]
TimesOf(s, n) == [r \in 1 .. n |-> PackingTime(s, r)]

ResultOf(s) ==
  [shape |-> s, runs |-> RunsOf(s, options.repeats), performed |-> options.verify_results,
   passed |-> options.verify_results /\ accurate[s]]

(* What the console has told: the verdict of each of the first n shapes, in *)
(* order, a FAIL exactly when one was not good, and no error.               *)
Verdicts(k) == {x \in DOMAIN k : k[x].what \in {"PASS", "FAIL", "SKIPPED"}}

Told(k, n, good) ==
  /\ \A x \in DOMAIN k : k[x].what # "error"
  /\ (\E x \in DOMAIN k : k[x].what = "FAIL") <=> ~good
  /\ {k[x].shape : x \in Verdicts(k)} = 1 .. n
  /\ \A x, y \in Verdicts(k) : x < y => k[x].shape < k[y].shape

(* The inductive invariant. *)
Setting ==
  /\ options \in Commands
  /\ accurate \in [1 .. ShapeCount -> BOOLEAN]
  /\ shape \in 1 .. ShapeCount + 1
  /\ all_passed \in BOOLEAN

\* The program counter, the exit status and the shape that is due.
InShape == {"emplace", "pack", "warm_up", "reserve", "measure"}

Control ==
  /\ pc \in InShape \cup {"allocate", "write", "exited"}
  /\ exit \in {"none", "success", "failure"}
  /\ pc = "exited" <=> exit # "none"
  /\ pc \in InShape => shape <= ShapeCount
  /\ pc = "write" => shape = ShapeCount + 1
  /\ exit = "success" => shape = ShapeCount + 1 /\ all_passed

\* The measurements of the shape at hand are its own; those of the former
\* shapes are complete.
Packed ==
  /\ pc \in InShape => \E n \in 0 .. options.repeats : packing_times = TimesOf(shape, n)
  /\ pc \in {"emplace", "pack"} => RequiresPackedB(options.kernel)
  /\ pc = "pack" => packed_b = shape
  /\ pc \in {"warm_up", "reserve", "measure"} =>
       IF RequiresPackedB(options.kernel)
       THEN packed_b = shape /\ packing_times = TimesOf(shape, options.repeats)
       ELSE packing_times = <<>>

Measured ==
  /\ \E s \in Nat, n \in 0 .. options.repeats : runs = RunsOf(s, n)
  /\ pc \in InShape \ {"measure"} => runs = <<>>
  /\ pc = "measure" => \E n \in 0 .. options.repeats : runs = RunsOf(shape, n)
  /\ pc \in {"reserve", "measure"} => c = "product"
  /\ results = [x \in 1 .. shape - 1 |-> ResultOf(x)]
  /\ all_passed <=> \A x \in 1 .. shape - 1 : options.verify_results => accurate[x]

\* The file holds a prefix of the rows, once it is opened.
File ==
  /\ csv # Former \/ pc = "write" =>
       /\ shape = ShapeCount + 1
       /\ options.csv_path # ""
       /\ \E n \in 0 .. Len(Rows) : csv = [x \in 1 .. n |-> Rows[x]]

Console ==
  /\ \E S : console \in Seq(S)
  /\ exit = "failure" => Printed("error") \/ Printed("FAIL")
  /\ exit # "failure" => Told(console, shape - 1, all_passed)

IInv == Setting /\ Control /\ Packed /\ Measured /\ File /\ Console
-------------------------------------------------------------------------------
(* Sequences *)

\* The first n values of f, and one more.
LEMMA NextValue ==
  ASSUME NEW n \in Nat, NEW f, NEW s, s = [x \in 1 .. n |-> f[x]]
  PROVE  /\ Append(s, f[n + 1]) = [x \in 1 .. n + 1 |-> f[x]]
         /\ Len(s) = n
<1> DEFINE S == {f[x] : x \in 1 .. n + 1}
           t == [x \in 1 .. n + 1 |-> f[x]]
<1>1. s \in Seq(S) /\ Len(s) = n /\ DOMAIN s = 1 .. n
  <2>1. s \in [1 .. n -> S]
    OBVIOUS
  <2> QED BY <2>1, SeqDef
<1>2. t \in Seq(S) /\ Len(t) = n + 1
  <2>1. t \in [1 .. n + 1 -> S]
    OBVIOUS
  <2>2. n + 1 \in Nat
    OBVIOUS
  <2> QED BY <2>1, <2>2, SeqDef
<1>3. f[n + 1] \in S
  OBVIOUS
<1>4. /\ Append(s, f[n + 1]) \in Seq(S) /\ Len(Append(s, f[n + 1])) = n + 1
      /\ \A x \in 1 .. n : Append(s, f[n + 1])[x] = f[x]
      /\ Append(s, f[n + 1])[n + 1] = f[n + 1]
  <2>1. \A x \in 1 .. n : s[x] = f[x]
    OBVIOUS
  <2> HIDE DEF S, t
  <2> QED BY <1>1, <1>3, <2>1, AppendProperties
<1>5. \A x \in 1 .. n + 1 : Append(s, f[n + 1])[x] = t[x]
  BY <1>4
<1> HIDE DEF S
<1>6. Append(s, f[n + 1]) = t
  <2> HIDE DEF t
  <2> QED BY <1>2, <1>4, <1>5, SeqEqual
<1> QED BY <1>1, <1>6

\* Of the first n values the first k.
LEMMA FewerValues ==
  ASSUME NEW n \in Nat, NEW f, NEW s, s = [x \in 1 .. n |-> f[x]], NEW k \in 0 .. n
  PROVE  SubSeq(s, 1, k) = [x \in 1 .. k |-> f[x]]
<1> DEFINE S == {f[x] : x \in 1 .. n}
           t == [x \in 1 .. k |-> f[x]]
<1>1. k \in Nat /\ k - 1 + 1 = k
  OBVIOUS
<1>2. t \in Seq(S) /\ Len(t) = k
  <2>1. t \in [1 .. k -> S]
    OBVIOUS
  <2> QED BY <1>1, <2>1, SeqDef
<1>3. \A x \in 1 .. k : s[x] \in S
  OBVIOUS
<1>4. /\ SubSeq(s, 1, k) \in Seq(S) /\ Len(SubSeq(s, 1, k)) = k
      /\ \A x \in 1 .. k : SubSeq(s, 1, k)[x] = s[x]
  <2>1. /\ SubSeq(s, 1, k) \in Seq(S)
        /\ Len(SubSeq(s, 1, k)) = IF 1 <= k THEN k - 1 + 1 ELSE 0
        /\ \A x \in 1 .. k - 1 + 1 : SubSeq(s, 1, k)[x] = s[1 + x - 1]
    <3> HIDE DEF S
    <3> QED BY <1>1, <1>3, SubSeqProperties
  <2> QED BY <1>1, <2>1
<1>5. \A x \in 1 .. k : SubSeq(s, 1, k)[x] = t[x]
  BY <1>1, <1>4
<1> HIDE DEF S, t
<1>6. SubSeq(s, 1, k) = t
  BY <1>2, <1>4, <1>5, SeqEqual
<1> QED BY <1>6 DEF t

\* One sequence after the other.
LEMMA Joined ==
  ASSUME NEW S, NEW T, NEW s \in Seq(S), NEW t \in Seq(T)
  PROVE  /\ s \o t \in Seq(S \cup T)
         /\ Len(s) \in Nat /\ Len(t) \in Nat /\ Len(s \o t) = Len(s) + Len(t)
         /\ DOMAIN s = 1 .. Len(s) /\ DOMAIN t = 1 .. Len(t)
         /\ DOMAIN (s \o t) = 1 .. Len(s) + Len(t)
         /\ \A x \in 1 .. Len(s) : (s \o t)[x] = s[x]
         /\ \A x \in 1 .. Len(t) : (s \o t)[Len(s) + x] = t[x]
<1>1. s \in Seq(S \cup T) /\ t \in Seq(S \cup T)
  BY SeqMonotonic
<1>2. Len(s) \in Nat /\ Len(t) \in Nat /\ DOMAIN s = 1 .. Len(s) /\ DOMAIN t = 1 .. Len(t)
  BY <1>1, LenProperties
<1>3. /\ s \o t \in Seq(S \cup T) /\ Len(s \o t) = Len(s) + Len(t)
      /\ \A x \in 1 .. Len(s) + Len(t) :
           (s \o t)[x] = IF x <= Len(s) THEN s[x] ELSE t[x - Len(s)]
  BY <1>1, ConcatProperties
<1>4. DOMAIN (s \o t) = 1 .. Len(s) + Len(t)
  BY <1>3, LenProperties
<1>5. \A x \in 1 .. Len(s) : (s \o t)[x] = s[x]
  BY <1>2, <1>3
<1>6. ASSUME NEW x \in 1 .. Len(t) PROVE (s \o t)[Len(s) + x] = t[x]
  <2>1. Len(s) + x \in 1 .. Len(s) + Len(t) /\ ~(Len(s) + x <= Len(s)) /\ (Len(s) + x) - Len(s) = x
    BY <1>2
  <2> QED BY <1>3, <2>1
<1> QED BY <1>2, <1>3, <1>4, <1>5, <1>6

\* A sequence of one more element is a sequence followed by one of Len 1.
LEMMA Single ==
  ASSUME NEW e
  PROVE  <<e>> \in Seq({e}) /\ Len(<<e>>) = 1 /\ DOMAIN <<e>> = {1} /\ <<e>>[1] = e
OBVIOUS

LEMMA AppendJoins ==
  ASSUME NEW S, NEW s \in Seq(S), NEW e
  PROVE  Append(s, e) = s \o <<e>>
<1>1. s \in Seq(S \cup {e}) /\ e \in S \cup {e}
  BY SeqMonotonic
<1> QED BY <1>1, AppendIsConcat
-------------------------------------------------------------------------------
(* What the console tells *)

\* Lines that are neither verdicts nor errors tell nothing new.
LEMMA ToldPlain ==
  ASSUME NEW S, NEW k \in Seq(S), NEW n \in Nat, NEW good \in BOOLEAN, Told(k, n, good),
         NEW T, NEW t \in Seq(T),
         \A x \in DOMAIN t : t[x].what \notin {"PASS", "FAIL", "SKIPPED", "error"}
  PROVE  Told(k \o t, n, good)
<1> DEFINE j == k \o t
<1>1. /\ Len(k) \in Nat /\ Len(t) \in Nat
      /\ DOMAIN k = 1 .. Len(k) /\ DOMAIN t = 1 .. Len(t) /\ DOMAIN j = 1 .. Len(k) + Len(t)
      /\ \A x \in 1 .. Len(k) : j[x] = k[x]
      /\ \A x \in 1 .. Len(t) : j[Len(k) + x] = t[x]
  BY Joined
<1> HIDE DEF j
<1>2. \A x \in DOMAIN j : x \in DOMAIN k \/ \E y \in DOMAIN t : x = Len(k) + y
  <2> SUFFICES ASSUME NEW x \in DOMAIN j, x \notin DOMAIN k PROVE \E y \in DOMAIN t : x = Len(k) + y
    OBVIOUS
  <2>1. x - Len(k) \in 1 .. Len(t) /\ x = Len(k) + (x - Len(k))
    BY <1>1
  <2> QED BY <1>1, <2>1
<1>3. DOMAIN k \subseteq DOMAIN j /\ \A x \in DOMAIN k : j[x] = k[x]
  BY <1>1
<1>4. \A x \in DOMAIN j : x \notin DOMAIN k => j[x].what \notin {"PASS", "FAIL", "SKIPPED", "error"}
  BY <1>1, <1>2
<1>5. Verdicts(j) = Verdicts(k)
  BY <1>3, <1>4 DEF Verdicts
<1>6. \A x \in Verdicts(k) : x \in DOMAIN k /\ j[x] = k[x]
  BY <1>3 DEF Verdicts
<1>7. {j[x].shape : x \in Verdicts(j)} = {k[x].shape : x \in Verdicts(k)}
  BY <1>5, <1>6
<1>8. \A x, y \in Verdicts(j) : x < y => j[x].shape < j[y].shape
  BY <1>5, <1>6 DEF Told
<1>9. (\E x \in DOMAIN j : j[x].what = "FAIL") <=> \E x \in DOMAIN k : k[x].what = "FAIL"
  BY <1>3, <1>4
<1>10. \A x \in DOMAIN j : j[x].what # "error"
  BY <1>3, <1>4 DEF Told
<1> QED BY <1>7, <1>8, <1>9, <1>10 DEF Told, j

\* The verdict of the next shape.
LEMMA ToldVerdict ==
  ASSUME NEW S, NEW k \in Seq(S), NEW n \in Nat, NEW good \in BOOLEAN, Told(k, n, good),
         NEW v, v.what \in {"PASS", "FAIL", "SKIPPED"}, v.shape = n + 1
  PROVE  Told(k \o <<v>>, n + 1, good /\ v.what # "FAIL")
<1> DEFINE j == k \o <<v>>
           z == Len(k) + 1
<1>1. /\ Len(k) \in Nat /\ DOMAIN k = 1 .. Len(k) /\ DOMAIN j = 1 .. z
      /\ \A x \in 1 .. Len(k) : j[x] = k[x]
      /\ j[z] = v
  <2>1. <<v>> \in Seq({v}) /\ Len(<<v>>) = 1 /\ <<v>>[1] = v /\ 1 \in 1 .. Len(<<v>>)
    BY Single
  <2> QED BY <2>1, Joined
<1> HIDE DEF j
<1>2. /\ DOMAIN j = DOMAIN k \cup {z} /\ z \notin DOMAIN k
      /\ \A x \in DOMAIN k : x < z /\ j[x] = k[x]
  BY <1>1
<1> HIDE DEF z
<1>3. Verdicts(j) = Verdicts(k) \cup {z}
  BY <1>1, <1>2 DEF Verdicts
<1>4. \A x \in Verdicts(k) : x \in DOMAIN k /\ x < z /\ j[x] = k[x] /\ x \in Int
  BY <1>1, <1>2 DEF Verdicts
<1>5. {j[x].shape : x \in Verdicts(j)} = {k[x].shape : x \in Verdicts(k)} \cup {n + 1}
  BY <1>1, <1>3, <1>4
<1>6. {j[x].shape : x \in Verdicts(j)} = 1 .. n + 1
  <2>1. (1 .. n) \cup {n + 1} = 1 .. n + 1
    OBVIOUS
  <2>2. {k[x].shape : x \in Verdicts(k)} = 1 .. n
    BY DEF Told
  <2> QED BY <1>5, <2>1, <2>2
<1>7. ASSUME NEW x \in Verdicts(j), NEW y \in Verdicts(j), x < y
      PROVE  j[x].shape < j[y].shape
  <2>1. z \in Int
    BY <1>1 DEF z
  <2>2. x # z
    BY <1>3, <1>4, <1>7, <2>1
  <2>3. x \in Verdicts(k) /\ k[x].shape \in 1 .. n
    BY <1>3, <2>2 DEF Told
  <2>4. CASE y = z
    BY <1>1, <1>4, <2>3, <2>4
  <2>5. CASE y # z
    BY <1>3, <1>4, <1>7, <2>3, <2>5 DEF Told
  <2> QED BY <2>4, <2>5
<1>8. (\E x \in DOMAIN j : j[x].what = "FAIL") <=> ~(good /\ v.what # "FAIL")
  BY <1>1, <1>2 DEF Told
<1>9. \A x \in DOMAIN j : j[x].what # "error"
  BY <1>1, <1>2 DEF Told
<1> QED BY <1>6, <1>7, <1>8, <1>9 DEF Told, j
-------------------------------------------------------------------------------
(* The settings *)

\* The numbers and flags of the settings.
LEMMA Settings ==
  ASSUME Setting
  PROVE  /\ options.repeats \in Nat \ {0} /\ ShapeCount \in Nat \ {0}
         /\ shape \in Nat \ {0}
         /\ options.verify_results \in BOOLEAN
         /\ options.csv_path # "" => options.verify_results
         /\ \A x \in 1 .. ShapeCount : accurate[x] \in BOOLEAN
<1>1. /\ options.repeats \in 1 .. IntMax /\ options.shapes # <<>>
      /\ options.csv_path # "" => options.verify_results
      /\ options.shapes \in Seq(Seq(Nat)) /\ options.verify_results \in BOOLEAN
  BY CommandsAssumption DEF Setting, Admissible
<1>2. ShapeCount \in Nat \ {0}
  BY <1>1, EmptySeq DEF ShapeCount
<1>3. options.repeats \in Nat \ {0}
  <2>1. options.repeats \in 1 .. IntMax /\ IntMax \in Nat
    BY <1>1, IntMaxAssumption
  <2> QED BY <2>1
<1>4. shape \in Nat \ {0}
  BY <1>2 DEF Setting
<1>5. \A x \in 1 .. ShapeCount : accurate[x] \in BOOLEAN
  BY DEF Setting
<1> QED BY <1>1, <1>2, <1>3, <1>4, <1>5

\* What is said of a shape stays said while the settings stay.
LEMMA FixedSettings ==
  ASSUME UNCHANGED <<options, accurate, clock>>
  PROVE  /\ \A s, n : RunsOf(s, n)' = RunsOf(s, n)
         /\ \A s, n : TimesOf(s, n)' = TimesOf(s, n)
         /\ \A s : ResultOf(s)' = ResultOf(s)
         /\ ShapeCount' = ShapeCount
BY DEF RunsOf, TimesOf, ResultOf, RunOf, PackingFor, PackingTime, KernelTime, Timed, ShapeCount

LEMMA SettingStep == IInv /\ Next => Setting'
<1> SUFFICES ASSUME IInv, Next PROVE Setting'
  OBVIOUS
<1>1. Setting /\ Control
  BY DEF IInv
<1>2. CASE FinishShape
  <2>1. /\ UNCHANGED <<options, accurate>> /\ shape' = shape + 1 /\ shape <= ShapeCount
        /\ all_passed' = Verdict(options.verify_results, Passed)
    BY <1>1, <1>2 DEF FinishShape, Control, InShape
  <2>2. Passed \in BOOLEAN
    BY <1>1, <2>1, Settings DEF Passed, InTolerance
  <2>3. all_passed' \in BOOLEAN
    BY <1>1, <2>1, <2>2 DEF Verdict, Setting
  <2>4. ShapeCount' = ShapeCount /\ ShapeCount \in Nat /\ shape \in Nat \ {0}
    BY <1>1, <2>1, Settings DEF ShapeCount
  <2>5. shape' \in 1 .. ShapeCount' + 1
    BY <2>1, <2>4
  <2> QED BY <1>1, <2>1, <2>3, <2>4, <2>5 DEF Setting
<1>3. CASE ~FinishShape
  <2>1. UNCHANGED mainVars
    BY <1>3 DEF Next, Allocate, AllocationFails, Emplace, PackRun, PackDone, WarmUp, Reserve,
      KernelThrows, Measure, SummaryFails, OpenCsv, OpenFails, WriteRow, DiskFull, CsvWritten,
      ExitWithoutCsv, Throw, ThrowAfter, mainVars
  <2> QED BY <1>1, <2>1 DEF Setting, mainVars, ShapeCount
<1> QED BY <1>2, <1>3

LEMMA ControlStep == IInv /\ Next => Control'
<1> SUFFICES ASSUME IInv, Next PROVE Control'
  OBVIOUS
<1>1. Setting /\ Control /\ ShapeCount \in Nat /\ shape \in Nat
  BY Settings DEF IInv
<1>2. ShapeCount' = ShapeCount
  BY DEF Next, Allocate, AllocationFails, Emplace, PackRun, PackDone, WarmUp, Reserve,
      KernelThrows, Measure, FinishShape, SummaryFails, OpenCsv, OpenFails, WriteRow, DiskFull,
      CsvWritten, ExitWithoutCsv, Throw, ThrowAfter, mainVars, ShapeCount
<1>3. CASE Allocate \/ Emplace \/ PackRun \/ PackDone \/ WarmUp \/ Reserve \/ Measure
  BY <1>1, <1>2, <1>3 DEF Control, InShape, mainVars,
     Allocate, Emplace, PackRun, PackDone, WarmUp, Reserve, Measure
<1>4. CASE AllocationFails \/ KernelThrows \/ SummaryFails \/ OpenFails
  BY <1>1, <1>2, <1>4 DEF Control, InShape, mainVars,
     AllocationFails, KernelThrows, SummaryFails, OpenFails, Throw, ThrowAfter
<1>5. CASE FinishShape
  BY <1>1, <1>2, <1>5 DEF Control, InShape, FinishShape
<1>6. shape > ShapeCount => shape = ShapeCount + 1
  BY <1>1 DEF Setting
<1>7. CASE OpenCsv \/ WriteRow \/ DiskFull
  BY <1>1, <1>2, <1>6, <1>7 DEF Control, InShape, mainVars, OpenCsv, WriteRow, DiskFull
<1>8. CASE CsvWritten \/ ExitWithoutCsv
  <2>1. shape = ShapeCount + 1 /\ shape' = shape /\ all_passed' = all_passed
        /\ pc' = "exited" /\ exit' = Status
    BY <1>1, <1>6, <1>8 DEF Control, mainVars, CsvWritten, ExitWithoutCsv
  <2> QED BY <1>2, <2>1 DEF Control, InShape, Status
<1> QED BY <1>3, <1>4, <1>5, <1>7, <1>8 DEF Next
-------------------------------------------------------------------------------
(* The measurements *)

LEMMA Prefixes ==
  ASSUME NEW s, NEW n \in Nat
  PROVE  /\ Len(RunsOf(s, n)) = n /\ DOMAIN RunsOf(s, n) = 1 .. n
         /\ Append(RunsOf(s, n), RunOf(s, n + 1)) = RunsOf(s, n + 1)
         /\ Len(TimesOf(s, n)) = n /\ DOMAIN TimesOf(s, n) = 1 .. n
         /\ Append(TimesOf(s, n), PackingTime(s, n + 1)) = TimesOf(s, n + 1)
         /\ RunsOf(s, 0) = <<>> /\ TimesOf(s, 0) = <<>>
         /\ n # 0 => TimesOf(s, n) # <<>>
<1>1. Append(RunsOf(s, n), RunOf(s, n + 1)) = RunsOf(s, n + 1) /\ Len(RunsOf(s, n)) = n
  <2> DEFINE f == [r \in 1 .. n + 1 |-> RunOf(s, r)]
  <2>1. RunsOf(s, n) = [r \in 1 .. n |-> f[r]] /\ f[n + 1] = RunOf(s, n + 1)
        /\ RunsOf(s, n + 1) = [r \in 1 .. n + 1 |-> f[r]]
    BY DEF RunsOf
  <2> HIDE DEF f
  <2> QED BY <2>1, NextValue
<1>2. Append(TimesOf(s, n), PackingTime(s, n + 1)) = TimesOf(s, n + 1) /\ Len(TimesOf(s, n)) = n
  <2> DEFINE f == [r \in 1 .. n + 1 |-> PackingTime(s, r)]
  <2>1. TimesOf(s, n) = [r \in 1 .. n |-> f[r]] /\ f[n + 1] = PackingTime(s, n + 1)
        /\ TimesOf(s, n + 1) = [r \in 1 .. n + 1 |-> f[r]]
    BY DEF TimesOf
  <2> HIDE DEF f
  <2> QED BY <2>1, NextValue
<1>3. RunsOf(s, 0) = <<>> /\ TimesOf(s, 0) = <<>>
  BY DEF RunsOf, TimesOf
<1>4. n # 0 => TimesOf(s, n) # <<>>
  BY <1>2
<1>5. DOMAIN RunsOf(s, n) = 1 .. n /\ DOMAIN TimesOf(s, n) = 1 .. n
  BY DEF RunsOf, TimesOf
<1> QED BY <1>1, <1>2, <1>3, <1>4, <1>5

\* The buffer a kernel is given holds this shape's B.
LEMMA Ready ==
  ASSUME Setting, Packed, pc \in {"warm_up", "measure"}
  PROVE  Executable /\ Computed = "product"
<1>1. RequiresPackedB(options.kernel) => packed_b = shape /\ shape # 0
  BY Settings DEF Packed
<1> QED BY <1>1 DEF Executable, Computed

\* A measured run is that of its number.
LEMMA MeasuredRun ==
  ASSUME Setting, Packed, pc = "measure", NEW r \in 1 .. options.repeats
  PROVE  [run |-> r, time |-> KernelTime(shape, r), packing |-> PackingOf(r),
          one_shot |-> KernelTime(shape, r) + PackingOf(r), c |-> Computed] = RunOf(shape, r)
<1>1. Computed = "product"
  BY Ready
<1>2. PackingOf(r) = PackingFor(shape, r)
  <2>1. CASE RequiresPackedB(options.kernel)
    <3>1. packing_times = TimesOf(shape, options.repeats)
      BY <2>1 DEF Packed
    <3>2. PICK n \in Nat \ {0} : n = options.repeats
      BY Settings
    <3>3. packing_times # <<>>
      BY <3>1, <3>2, Prefixes
    <3> QED BY <2>1, <3>1, <3>3 DEF PackingOf, PackingFor, TimesOf
  <2>2. CASE ~RequiresPackedB(options.kernel)
    BY <2>2 DEF Packed, PackingOf, PackingFor
  <2> QED BY <2>1, <2>2
<1> QED BY <1>1, <1>2 DEF RunOf

LEMMA PackedStep == IInv /\ Next => Packed'
<1> SUFFICES ASSUME IInv, Next PROVE Packed'
  OBVIOUS
<1>1. Setting /\ Control /\ Packed
  BY DEF IInv
<1>2. options.repeats \in Nat \ {0} /\ shape \in Nat \ {0}
  BY <1>1, Settings
<1>3. UNCHANGED <<options, accurate, clock>>
  BY DEF Next, Allocate, AllocationFails, Emplace, PackRun, PackDone, WarmUp, Reserve,
      KernelThrows, Measure, FinishShape, SummaryFails, OpenCsv, OpenFails, WriteRow, DiskFull,
      CsvWritten, ExitWithoutCsv, Throw, ThrowAfter, mainVars
<1>4. /\ \A s, n : TimesOf(s, n)' = TimesOf(s, n)
      /\ RequiresPackedB(options.kernel)' = RequiresPackedB(options.kernel)
  BY <1>3, FixedSettings DEF RequiresPackedB
<1>5. CASE Allocate
  <2>1. /\ packing_times' = TimesOf(shape, 0) /\ shape' = shape /\ 0 \in 0 .. options.repeats
        /\ packing_times' = <<>>
        /\ pc' = IF UsesPackedB(options.kernel) THEN "emplace" ELSE "warm_up"
    BY <1>2, <1>5, Prefixes DEF Allocate, mainVars
  <2>2. UsesPackedB(options.kernel) <=> RequiresPackedB(options.kernel)
    BY DEF UsesPackedB, RequiresPackedB
  <2> QED BY <1>3, <1>4, <2>1, <2>2 DEF Packed
<1>6. CASE Emplace
  BY <1>1, <1>3, <1>4, <1>6 DEF Emplace, Packed, InShape, mainVars
<1>7. CASE PackRun
  <2>1. PICK n \in 0 .. options.repeats : packing_times = TimesOf(shape, n)
    BY <1>1, <1>7 DEF PackRun, Packed, InShape
  <2>2. n \in Nat /\ Len(packing_times) = n
        /\ Append(packing_times, PackingTime(shape, n + 1)) = TimesOf(shape, n + 1)
    <3>1. n \in Nat
      BY <1>2
    <3>2. /\ Len(TimesOf(shape, n)) = n
          /\ Append(TimesOf(shape, n), PackingTime(shape, n + 1)) = TimesOf(shape, n + 1)
      BY <3>1, Prefixes
    <3> QED BY <2>1, <3>1, <3>2
  <2>3. packing_times' = TimesOf(shape, n + 1) /\ n + 1 \in 0 .. options.repeats
    BY <1>2, <1>7, <2>2 DEF PackRun
  <2> QED BY <1>1, <1>3, <1>4, <1>7, <2>3 DEF PackRun, Packed, mainVars
<1>8. CASE PackDone
  <2>1. PICK n \in 0 .. options.repeats : packing_times = TimesOf(shape, n)
    BY <1>1, <1>8 DEF PackDone, Packed, InShape
  <2>2. n \in Nat /\ Len(packing_times) = n
    BY <1>2, <2>1, Prefixes
  <2>3. n = options.repeats
    BY <1>8, <2>2 DEF PackDone
  <2> QED BY <1>1, <1>3, <1>4, <1>8, <2>1, <2>3 DEF PackDone, Packed, mainVars, caseVars
<1>9. CASE WarmUp \/ Reserve \/ Measure
  BY <1>1, <1>3, <1>4, <1>9 DEF WarmUp, Reserve, Measure, Packed, InShape, mainVars, caseVars
<1>10. CASE FinishShape
  BY <1>10 DEF FinishShape, Packed, InShape
<1>11. CASE \/ AllocationFails \/ KernelThrows \/ SummaryFails \/ OpenCsv \/ OpenFails
            \/ WriteRow \/ DiskFull \/ CsvWritten \/ ExitWithoutCsv
  <2>1. pc' \in {"write", "exited"}
    BY <1>11 DEF AllocationFails, KernelThrows, SummaryFails, OpenCsv, OpenFails,
       WriteRow, DiskFull, CsvWritten, ExitWithoutCsv, Throw, ThrowAfter
  <2> QED BY <2>1 DEF Packed, InShape
<1> QED BY <1>5, <1>6, <1>7, <1>8, <1>9, <1>10, <1>11 DEF Next

LEMMA MeasuredStep == IInv /\ Next => Measured'
<1> SUFFICES ASSUME IInv, Next PROVE Measured'
  OBVIOUS
<1>1. Setting /\ Control /\ Packed /\ Measured
  BY DEF IInv
<1>2. options.repeats \in Nat \ {0} /\ shape \in Nat \ {0}
  BY <1>1, Settings
<1>3. UNCHANGED <<options, accurate, clock>>
  BY DEF Next, Allocate, AllocationFails, Emplace, PackRun, PackDone, WarmUp, Reserve,
      KernelThrows, Measure, FinishShape, SummaryFails, OpenCsv, OpenFails, WriteRow, DiskFull,
      CsvWritten, ExitWithoutCsv, Throw, ThrowAfter, mainVars
<1>4. (\A s, n : RunsOf(s, n)' = RunsOf(s, n)) /\ (\A s : ResultOf(s)' = ResultOf(s))
  BY <1>3, FixedSettings
<1>5. /\ \E s \in Nat, n \in 0 .. options.repeats : runs = RunsOf(s, n)
      /\ results = [x \in 1 .. shape - 1 |-> ResultOf(x)]
      /\ all_passed <=> \A x \in 1 .. shape - 1 : options.verify_results => accurate[x]
  BY <1>1 DEF Measured
<1>6. 0 \in 0 .. options.repeats /\ RunsOf(shape, 0) = <<>>
  BY <1>2, Prefixes
<1>7. ASSUME UNCHANGED <<shape, results, all_passed>>
      PROVE  /\ results' = [x \in 1 .. shape' - 1 |-> ResultOf(x)']
             /\ all_passed' <=> \A x \in 1 .. shape' - 1 : options'.verify_results => accurate'[x]
  BY <1>3, <1>4, <1>5, <1>7
<1>8. CASE Allocate
  <2>1. UNCHANGED <<shape, results, all_passed>> /\ runs' = <<>> /\ pc' \in {"emplace", "warm_up"}
    BY <1>8 DEF Allocate, mainVars
  <2>2. \E s \in Nat, n \in 0 .. options'.repeats : runs' = RunsOf(s, n)'
    BY <1>2, <1>3, <1>4, <1>6, <2>1
  <2> QED BY <1>7, <2>1, <2>2 DEF Measured
<1>9. CASE \/ AllocationFails \/ Emplace \/ PackRun \/ PackDone \/ WarmUp \/ KernelThrows
           \/ SummaryFails \/ OpenCsv \/ OpenFails \/ WriteRow \/ DiskFull \/ CsvWritten
           \/ ExitWithoutCsv
  <2>1. /\ UNCHANGED <<shape, results, all_passed, runs>>
        /\ pc' \in {"pack", "warm_up", "reserve"} => pc \in InShape \ {"measure"}
        /\ pc' \in {"pack", "warm_up", "reserve", "write", "exited"}
    BY <1>9 DEF AllocationFails, Emplace, PackRun, PackDone, WarmUp, KernelThrows, SummaryFails,
       OpenCsv, OpenFails, WriteRow, DiskFull, CsvWritten, ExitWithoutCsv, Throw, ThrowAfter,
       mainVars, caseVars, InShape
  <2>2. \E s \in Nat, n \in 0 .. options'.repeats : runs' = RunsOf(s, n)'
    BY <1>3, <1>4, <1>5, <2>1
  <2>3. pc' \in InShape \ {"measure"} => runs' = <<>>
    BY <1>1, <2>1 DEF Measured, InShape
  <2>4. pc' = "reserve" => c' = "product"
    <3>1. CASE WarmUp
      BY <1>1, <3>1, Ready DEF WarmUp
    <3>2. CASE ~WarmUp
      BY <1>9, <3>2 DEF AllocationFails, Emplace, PackRun, PackDone, KernelThrows, SummaryFails,
         OpenCsv, OpenFails, WriteRow, DiskFull, CsvWritten, ExitWithoutCsv, Throw, ThrowAfter
    <3> QED BY <3>1, <3>2
  <2> QED BY <1>7, <2>1, <2>2, <2>3, <2>4 DEF Measured
<1>10. CASE Reserve
  <2>1. UNCHANGED <<shape, results, all_passed>> /\ runs' = RunsOf(shape, 0)
        /\ pc' = "measure" /\ c' = "product"
    BY <1>1, <1>6, <1>10 DEF Reserve, mainVars, caseVars, Measured, InShape
  <2>2. \E n \in 0 .. options'.repeats : runs' = RunsOf(shape, n)'
    BY <1>3, <1>4, <1>6, <2>1
  <2> QED BY <1>2, <1>7, <2>1, <2>2 DEF Measured, InShape
<1>11. CASE Measure
  <2>1. UNCHANGED <<shape, results, all_passed, pc>> /\ pc = "measure"
        /\ Len(runs) < options.repeats /\ c' = Computed
    BY <1>11 DEF Measure, mainVars
  <2>2. c' = "product"
    BY <1>1, <2>1, Ready
  <2>3. PICK n \in 0 .. options.repeats : runs = RunsOf(shape, n)
    BY <1>1, <2>1 DEF Measured
  <2>4. n \in Nat /\ Len(runs) = n
    <3>1. n \in Nat
      BY <1>2
    <3>2. Len(RunsOf(shape, n)) = n
      BY <3>1, Prefixes
    <3> QED BY <2>3, <3>1, <3>2
  <2>5. n + 1 \in 1 .. options.repeats /\ n + 1 \in 0 .. options.repeats
    BY <1>2, <2>1, <2>4
  <2>6. runs' = Append(runs, RunOf(shape, n + 1))
    BY <1>1, <1>11, <2>1, <2>4, <2>5, MeasuredRun DEF Measure
  <2>7. runs' = RunsOf(shape, n + 1)
    BY <2>3, <2>4, <2>6, Prefixes
  <2>8. \E m \in 0 .. options'.repeats : runs' = RunsOf(shape, m)'
    BY <1>3, <1>4, <2>1, <2>5, <2>7
  <2> QED BY <1>2, <1>7, <2>1, <2>2, <2>8 DEF Measured, InShape
<1>12. CASE FinishShape
  <2>1. /\ pc = "measure" /\ Len(runs) = options.repeats
        /\ results' = Append(results, Result)
        /\ all_passed' = Verdict(options.verify_results, Passed)
        /\ shape' = shape + 1 /\ pc' = "allocate" /\ runs' = runs /\ shape <= ShapeCount
    BY <1>1, <1>12 DEF FinishShape, caseVars, Control, InShape
  <2>2. runs = RunsOf(shape, options.repeats) /\ c = "product"
    <3>1. PICK n \in 0 .. options.repeats : runs = RunsOf(shape, n)
      BY <1>1, <2>1 DEF Measured
    <3>2. n \in Nat
      BY <1>2
    <3>3. Len(RunsOf(shape, n)) = n
      BY <3>2, Prefixes
    <3> QED BY <1>1, <2>1, <3>1, <3>3 DEF Measured
  <2>3. Passed = (options.verify_results /\ accurate[shape])
    BY <2>2 DEF Passed, InTolerance
  <2>4. Result = ResultOf(shape)
    BY <2>2, <2>3 DEF Result, ResultOf
  <2>5. results' = [x \in 1 .. shape' - 1 |-> ResultOf(x)']
    <3> DEFINE f == [x \in 1 .. shape |-> ResultOf(x)]
    <3>1. PICK n \in Nat : n + 1 = shape /\ n = shape - 1
      BY <1>2
    <3>2. results = [x \in 1 .. n |-> f[x]] /\ f[n + 1] = ResultOf(shape)
          /\ f = [x \in 1 .. n + 1 |-> f[x]]
      BY <1>2, <1>5, <3>1
    <3>3. Append(results, ResultOf(shape)) = f
      <4> HIDE DEF f
      <4> QED BY <3>2, NextValue
    <3>4. 1 .. shape' - 1 = 1 .. shape
      BY <1>2, <2>1
    <3> QED BY <1>4, <2>1, <2>4, <3>3, <3>4
  <2>6. all_passed' <=> \A x \in 1 .. shape' - 1 : options'.verify_results => accurate'[x]
    <3>1. accurate[shape] \in BOOLEAN /\ options.verify_results \in BOOLEAN
      <4>1. shape \in 1 .. ShapeCount
        BY <1>1, <1>2, <2>1 DEF Setting
      <4> QED BY <1>1, <4>1, Settings
    <3>2. \A x : x \in 1 .. shape' - 1 <=> x \in 1 .. shape - 1 \/ x = shape
      BY <1>2, <2>1
    <3>3. all_passed' <=> all_passed /\ (options.verify_results => accurate[shape])
      BY <2>1, <2>3, <3>1, <1>1 DEF Verdict, Setting
    <3> QED BY <1>3, <1>5, <3>2, <3>3
  <2>7. \E s \in Nat, n \in 0 .. options'.repeats : runs' = RunsOf(s, n)'
    BY <1>3, <1>4, <1>5, <2>1
  <2> QED BY <2>1, <2>5, <2>6, <2>7 DEF Measured, InShape
<1> QED BY <1>8, <1>9, <1>10, <1>11, <1>12 DEF Next
-------------------------------------------------------------------------------
(* The file *)

\* Division of row numbers into case and run.
LEMMA CaseAndRun ==
  ASSUME NEW m \in Nat, NEW b \in Nat \ {0}, NEW n \in 1 .. m * b
  PROVE  (n - 1) \div b \in 0 .. m - 1 /\ (n - 1) % b \in 0 .. b - 1
<1> DEFINE q == (n - 1) \div b
           r == (n - 1) % b
<1>1. m * b \in Nat /\ n - 1 \in Nat /\ n - 1 < m * b
  OBVIOUS
<1>2. q \in Nat /\ r \in 0 .. b - 1 /\ n - 1 = q * b + r
  BY <1>1
<1> HIDE DEF q, r
<1>3. ASSUME q >= m PROVE FALSE
  <2>1. q * b >= m * b
    BY <1>2, <1>3
  <2> QED BY <1>1, <1>2, <2>1
<1>4. q \in 0 .. m - 1
  BY <1>2, <1>3
<1> QED BY <1>2, <1>4 DEF q, r

\* Every row is that of a run of a case.
LEMMA RowsOfRuns ==
  ASSUME Setting, Measured
  PROVE  /\ Len(Rows) \in Nat
         /\ \A n \in 1 .. Len(Rows) :
              \E x \in 1 .. shape - 1, r \in 1 .. options.repeats :
                Rows[n] = RowOf(ResultOf(x), RunOf(x, r))
<1>1. PICK b \in Nat \ {0} : b = options.repeats
  BY Settings
<1>2. PICK m \in Nat : m = shape - 1
  <2>1. shape \in Nat \ {0}
    BY Settings
  <2>2. shape - 1 \in Nat
    BY <2>1
  <2> QED BY <2>2
<1>3. results = [x \in 1 .. m |-> ResultOf(x)] /\ Len(results) = m
  BY <1>2 DEF Measured
<1>4. m * b \in Nat
  OBVIOUS
<1>5. Rows = [n \in 1 .. m * b |->
                RowOf(results[((n - 1) \div b) + 1],
                      results[((n - 1) \div b) + 1].runs[((n - 1) % b) + 1])]
  BY <1>1, <1>3 DEF Rows
<1>6. Len(Rows) = m * b
  BY <1>4, <1>5
<1>7. ASSUME NEW n \in 1 .. m * b
      PROVE  \E x \in 1 .. m, r \in 1 .. b : Rows[n] = RowOf(ResultOf(x), RunOf(x, r))
  <2> DEFINE x == ((n - 1) \div b) + 1
             r == ((n - 1) % b) + 1
  <2>1. x \in 1 .. m /\ r \in 1 .. b
    <3>1. (n - 1) \div b \in 0 .. m - 1 /\ (n - 1) % b \in 0 .. b - 1
      BY CaseAndRun
    <3> QED BY <3>1
  <2>2. Rows[n] = RowOf(results[x], results[x].runs[r])
    BY <1>5
  <2> HIDE DEF x, r
  <2>3. results[x] = ResultOf(x) /\ ResultOf(x).runs = RunsOf(x, b) /\ RunsOf(x, b)[r] = RunOf(x, r)
    BY <1>1, <1>3, <2>1 DEF ResultOf, RunsOf
  <2> QED BY <2>1, <2>2, <2>3
<1> QED BY <1>1, <1>2, <1>4, <1>6, <1>7

LEMMA FileStep == IInv /\ Next => File'
<1> SUFFICES ASSUME IInv, Next PROVE File'
  OBVIOUS
<1>1. Setting /\ Control /\ Measured /\ File
  BY DEF IInv
<1>8. Len(Rows) \in Nat /\ ShapeCount \in Nat /\ shape \in 1 .. ShapeCount + 1
  BY <1>1, RowsOfRuns, Settings DEF Setting
<1>2. CASE FinishShape
  <2>1. csv' = csv /\ pc' = "allocate" /\ shape <= ShapeCount
    BY <1>1, <1>2 DEF FinishShape, fileVars, Control, InShape
  <2>2. shape # ShapeCount + 1
    BY <1>8, <2>1
  <2>3. csv = Former
    BY <1>1, <2>2 DEF File
  <2> QED BY <2>1, <2>3 DEF File, Former
<1>3. ASSUME ~FinishShape
      PROVE  UNCHANGED <<options, shape, results>> /\ ShapeCount' = ShapeCount /\ Rows' = Rows
  <2>1. UNCHANGED <<options, shape, results>>
    BY <1>3 DEF Next, Allocate, AllocationFails, Emplace, PackRun, PackDone, WarmUp, Reserve,
      KernelThrows, Measure, SummaryFails, OpenCsv, OpenFails, WriteRow, DiskFull, CsvWritten,
      ExitWithoutCsv, Throw, ThrowAfter, mainVars
  <2> QED BY <2>1 DEF ShapeCount, Rows
<1>4. ASSUME /\ ~FinishShape
             /\ \/ Allocate \/ AllocationFails \/ Emplace \/ PackRun \/ PackDone \/ WarmUp
                \/ Reserve \/ KernelThrows \/ Measure \/ SummaryFails \/ OpenFails
                \/ CsvWritten \/ ExitWithoutCsv
      PROVE  File'
  <2>1. csv' = csv /\ pc' # "write"
    BY <1>4 DEF Allocate, AllocationFails, Emplace, PackRun, PackDone, WarmUp, Reserve,
      KernelThrows, Measure, SummaryFails, OpenFails, CsvWritten, ExitWithoutCsv, Throw,
      ThrowAfter, fileVars
  <2> QED BY <1>1, <1>3, <1>4, <2>1 DEF File, Former
<1>5. CASE OpenCsv
  <2>1. options.csv_path # "" /\ ~FinishShape
    BY <1>5 DEF OpenCsv, FinishShape
  <2>2. shape = ShapeCount + 1
    <3>1. shape > ShapeCount
      BY <1>5 DEF OpenCsv
    <3> QED BY <1>8, <3>1
  <2>3. csv' = [x \in 1 .. 0 |-> Rows[x]] /\ 0 \in 0 .. Len(Rows)
    <3>1. csv' = <<>>
      BY <1>5 DEF OpenCsv
    <3> QED BY <1>8, <3>1
  <2> QED BY <1>3, <2>1, <2>2, <2>3 DEF File
<1>6. CASE WriteRow \/ DiskFull
  <2>1. pc = "write" /\ ~FinishShape
    BY <1>6 DEF WriteRow, DiskFull, FinishShape
  <2>2. PICK n \in 0 .. Len(Rows) : csv = [x \in 1 .. n |-> Rows[x]]
    BY <1>1, <2>1 DEF File
  <2>3. n \in Nat /\ Len(csv) = n
    BY <1>8, <2>2
  <2>4. \E m \in 0 .. Len(Rows) : csv' = [x \in 1 .. m |-> Rows[x]]
    <3>1. CASE WriteRow
      <4>1. csv' = Append(csv, Rows[n + 1]) /\ n + 1 \in 0 .. Len(Rows)
        BY <1>8, <2>3, <3>1 DEF WriteRow
      <4>2. Append(csv, Rows[n + 1]) = [x \in 1 .. n + 1 |-> Rows[x]]
        BY <2>2, <2>3, NextValue
      <4> QED BY <4>1, <4>2
    <3>2. CASE DiskFull
      <4>1. PICK k \in 0 .. n : csv' = SubSeq(csv, 1, k)
        BY <2>3, <3>2 DEF DiskFull
      <4>2. csv' = [x \in 1 .. k |-> Rows[x]]
        BY <2>2, <2>3, <4>1, FewerValues
      <4> QED BY <1>8, <2>3, <4>1, <4>2
    <3> QED BY <1>6, <3>1, <3>2
  <2>5. \E m \in 0 .. Len(Rows') : csv' = [x \in 1 .. m |-> Rows'[x]]
    BY <1>3, <2>1, <2>4
  <2>6. shape = ShapeCount + 1 /\ options.csv_path # ""
    BY <1>1, <2>1 DEF File
  <2>7. shape' = ShapeCount' + 1 /\ options'.csv_path # ""
    BY <1>3, <2>1, <2>6
  <2> QED BY <2>5, <2>7 DEF File
<1> QED BY <1>2, <1>4, <1>5, <1>6 DEF Next
-------------------------------------------------------------------------------
(* The console *)

\* A summary is one or two medians and the verdict.
LEMMA SummaryLines ==
  \E T, v : \E p \in Seq(T) :
    /\ Summary = p \o <<v>>
    /\ \A x \in DOMAIN p : p[x].what \notin {"PASS", "FAIL", "SKIPPED", "error"}
    /\ v.what \in {"PASS", "FAIL", "SKIPPED"} /\ v.shape = shape
    /\ v.what = "FAIL" <=> options.verify_results /\ ~Passed
<1> DEFINE k == Line("kernel median", TwiceMedian(KernelTimes))
           o == Line("one-shot median", TwiceMedian(OneShotTimes))
           v == Line(IF ~options.verify_results THEN "SKIPPED" ELSE IF Passed THEN "PASS" ELSE "FAIL", 0)
           q == IF packing_times = <<>> THEN <<>> ELSE <<o>>
           p == <<k>> \o q
<1>1. Summary = p \o <<v>>
  BY DEF Summary
<1>2. v.what \in {"PASS", "FAIL", "SKIPPED"} /\ v.shape = shape
  BY DEF Line
<1>3. v.what = "FAIL" <=> options.verify_results /\ ~Passed
  BY DEF Line
<1>4. k.what = "kernel median" /\ o.what = "one-shot median"
  BY DEF Line
<1> HIDE DEF k, o, v
<1>5. q \in Seq({o})
  <2>1. <<>> \in Seq({o}) /\ <<o>> \in Seq({o})
    BY Single, EmptySeq
  <2> QED BY <2>1
<1> HIDE DEF q
<1>6. p \in Seq({k, o}) /\ \A x \in DOMAIN p : p[x] \in {k, o}
  <2>1. <<k>> \in Seq({k})
    BY Single
  <2>2. p \in Seq({k} \cup {o}) /\ {k} \cup {o} = {k, o}
    BY <1>5, <2>1, Joined
  <2> HIDE DEF p
  <2>3. DOMAIN p = 1 .. Len(p)
    BY <2>2, LenProperties
  <2> QED BY <2>2, <2>3, ElementOfSeq
<1>7. \A x \in DOMAIN p : p[x].what \notin {"PASS", "FAIL", "SKIPPED", "error"}
  BY <1>4, <1>6
<1> HIDE DEF p
<1> QED BY <1>1, <1>2, <1>3, <1>6, <1>7

\* Whatever lines come before it, the error message is printed, and what was
\* printed stays.
LEMMA ErrorPrinted ==
  ASSUME Console, NEW T, NEW lines \in Seq(T), ThrowAfter(lines)
  PROVE  Console'
<1>1. PICK S : console \in Seq(S)
  BY DEF Console
<1>2. exit' = "failure" /\ console' = (console \o lines) \o <<Line("error", 0)>>
  BY DEF ThrowAfter
<1>3. Line("error", 0).what = "error"
  BY DEF Line
<1> DEFINE e == Line("error", 0)
           j == console \o lines
<1> HIDE DEF e, j
<1>4. j \in Seq(S \cup T)
  BY <1>1, Joined DEF j
<1>5. <<e>> \in Seq({e}) /\ Len(<<e>>) = 1 /\ <<e>>[1] = e
  BY Single
<1>6. /\ j \o <<e>> \in Seq(S \cup T \cup {e}) /\ Len(j) \in Nat
      /\ DOMAIN (j \o <<e>>) = 1 .. Len(j) + 1
      /\ (j \o <<e>>)[Len(j) + 1] = e
  BY <1>4, <1>5, Joined
<1>7. console' = j \o <<e>> /\ e.what = "error"
  BY <1>2, <1>3 DEF e, j
<1>8. Printed("error")'
  <2>1. Len(j) + 1 \in DOMAIN console' /\ console'[Len(j) + 1].what = "error"
    BY <1>6, <1>7
  <2> QED BY <2>1 DEF Printed
<1> QED BY <1>2, <1>6, <1>7, <1>8 DEF Console

LEMMA ConsoleStep == IInv /\ Next => Console'
<1> SUFFICES ASSUME IInv, Next PROVE Console'
  OBVIOUS
<1>1. Setting /\ Control /\ Console /\ pc # "exited"
  BY DEF IInv, Next, Allocate, AllocationFails, Emplace, PackRun, PackDone, WarmUp, Reserve,
    KernelThrows, Measure, FinishShape, SummaryFails, OpenCsv, OpenFails, WriteRow, DiskFull,
    CsvWritten, ExitWithoutCsv
<1>2. PICK S : console \in Seq(S)
  BY <1>1 DEF Console
<1>3. exit = "none" /\ Told(console, shape - 1, all_passed)
  BY <1>1 DEF Control, Console
<1>4. PICK n \in Nat : n = shape - 1
  <2>1. shape \in Nat \ {0}
    BY <1>1, Settings
  <2> QED BY <2>1
<1>5. shape = n + 1 /\ all_passed \in BOOLEAN
  <2>1. shape \in Nat \ {0}
    BY <1>1, Settings
  <2>2. shape = n + 1
    BY <1>4, <2>1
  <2> QED BY <1>1, <2>2 DEF Setting
<1>6. CASE \/ Allocate \/ Emplace \/ PackRun \/ WarmUp \/ Reserve \/ Measure \/ OpenCsv
           \/ WriteRow \/ DiskFull
  <2>1. UNCHANGED <<console, exit, shape, all_passed>>
    BY <1>6 DEF Allocate, Emplace, PackRun, WarmUp, Reserve, Measure, OpenCsv, WriteRow,
      DiskFull, mainVars
  <2> QED BY <1>2, <1>3, <2>1 DEF Console
<1>7. CASE AllocationFails \/ KernelThrows \/ OpenFails
  <2>1. Throw
    BY <1>7 DEF AllocationFails, KernelThrows, OpenFails
  <2>2. <<>> \in Seq({})
    BY EmptySeq
  <2> QED BY <1>1, <2>1, <2>2, ErrorPrinted DEF Throw
<1>8. CASE SummaryFails
  <2>1. PICK m \in 0 .. Len(Summary) : ThrowAfter(SubSeq(Summary, 1, m))
    BY <1>8 DEF SummaryFails
  <2>2. PICK T, v : \E p \in Seq(T) : Summary = p \o <<v>>
    BY SummaryLines
  <2>3. Summary \in Seq(T \cup {v})
    BY <2>2, Single, Joined
  <2>4. SubSeq(Summary, 1, m) \in Seq(T \cup {v})
    <3>1. m \in Int /\ 1 \in Int /\ \A x \in 1 .. m : Summary[x] \in T \cup {v}
      BY <2>3, LenProperties, ElementOfSeq
    <3> QED BY <3>1, SubSeqProperties
  <2> QED BY <1>1, <2>1, <2>4, ErrorPrinted
<1>9. CASE PackDone \/ CsvWritten
  <2>1. PICK l : /\ console' = Append(console, l)
                 /\ l.what \in {"packing median", "CSV written"}
    <3>1. CASE PackDone
      <4>1. Line("packing median", TwiceMedian(packing_times)).what = "packing median"
        BY DEF Line
      <4> QED BY <3>1, <4>1 DEF PackDone
    <3>2. CASE CsvWritten
      <4>1. Line("CSV written", 0).what = "CSV written"
        BY DEF Line
      <4> QED BY <3>2, <4>1 DEF CsvWritten
    <3> QED BY <1>9, <3>1, <3>2
  <2>2. UNCHANGED <<shape, all_passed>> /\ exit' \in {exit, Status}
    BY <1>9 DEF PackDone, CsvWritten, mainVars
  <2>3. l.what \notin {"PASS", "FAIL", "SKIPPED", "error"}
    BY <2>1
  <2>4. <<l>> \in Seq({l}) /\ \A x \in DOMAIN <<l>> : <<l>>[x].what \notin {"PASS", "FAIL", "SKIPPED", "error"}
    BY <2>3, Single
  <2>5. console' = console \o <<l>>
    BY <1>2, <2>1, AppendJoins
  <2>6. console' \in Seq(S \cup {l})
    BY <1>2, <2>4, <2>5, Joined
  <2>7. Told(console', n, all_passed)
    BY <1>2, <1>3, <1>4, <1>5, <2>4, <2>5, ToldPlain
  <2>8. exit' = "failure" => Printed("FAIL")'
    BY <1>3, <2>2, <2>7 DEF Status, Told, Printed
  <2> QED BY <1>4, <2>2, <2>6, <2>7, <2>8 DEF Console
<1>10. CASE ExitWithoutCsv
  <2>1. UNCHANGED <<console, shape, all_passed>> /\ exit' = Status
    BY <1>10 DEF ExitWithoutCsv, mainVars
  <2>2. exit' = "failure" => Printed("FAIL")'
    BY <1>3, <2>1 DEF Status, Told, Printed
  <2> QED BY <1>2, <1>3, <2>1, <2>2 DEF Console
<1>11. CASE FinishShape
  <2>1. PICK T, v : \E q \in Seq(T) :
          /\ Summary = q \o <<v>>
          /\ \A x \in DOMAIN q : q[x].what \notin {"PASS", "FAIL", "SKIPPED", "error"}
          /\ v.what \in {"PASS", "FAIL", "SKIPPED"} /\ v.shape = shape
          /\ v.what = "FAIL" <=> options.verify_results /\ ~Passed
    BY SummaryLines
  <2>2. PICK p \in Seq(T) :
          /\ Summary = p \o <<v>>
          /\ \A x \in DOMAIN p : p[x].what \notin {"PASS", "FAIL", "SKIPPED", "error"}
    BY <2>1
  <2>3. /\ v.what \in {"PASS", "FAIL", "SKIPPED"} /\ v.shape = n + 1
        /\ v.what = "FAIL" <=> options.verify_results /\ ~Passed
    BY <1>5, <2>1
  <2>4. /\ console' = console \o Summary /\ shape' = shape + 1 /\ exit' = exit
        /\ all_passed' = Verdict(options.verify_results, Passed)
    BY <1>11 DEF FinishShape
  <2>5. console' = (console \o p) \o <<v>>
    <3> DEFINE U == S \cup T \cup {v}
    <3>1. console \in Seq(U) /\ p \in Seq(U) /\ <<v>> \in Seq(U)
      BY <1>2, Single, SeqMonotonic
    <3> HIDE DEF U
    <3> QED BY <2>2, <2>4, <3>1, ConcatAssociative
  <2>6. console \o p \in Seq(S \cup T) /\ Told(console \o p, n, all_passed)
    BY <1>2, <1>3, <1>4, <1>5, <2>2, ToldPlain, Joined
  <2>7. Told(console', n + 1, all_passed /\ v.what # "FAIL")
    <3> DEFINE k == console \o p
    <3>1. k \in Seq(S \cup T) /\ Told(k, n, all_passed) /\ console' = k \o <<v>>
      BY <2>5, <2>6
    <3> HIDE DEF k
    <3>2. Told(k \o <<v>>, n + 1, all_passed /\ v.what # "FAIL")
      BY <1>5, <2>3, <3>1, ToldVerdict
    <3> QED BY <3>1, <3>2
  <2>8. all_passed' = (all_passed /\ v.what # "FAIL")
    <3>1. Passed \in BOOLEAN /\ options.verify_results \in BOOLEAN
      <4>1. shape <= ShapeCount
        BY <1>1, <1>11 DEF Control, FinishShape, InShape
      <4> QED BY <1>1, <4>1, Settings DEF Passed, InTolerance
    <3> QED BY <1>5, <2>3, <2>4, <3>1 DEF Verdict
  <2>9. console' \in Seq((S \cup T) \cup {v})
    BY <2>5, <2>6, Single, Joined
  <2>10. exit' = "none" /\ shape' - 1 = n + 1
    BY <1>3, <1>5, <2>4
  <2> QED BY <2>7, <2>8, <2>9, <2>10 DEF Console
<1> QED BY <1>6, <1>7, <1>8, <1>9, <1>10, <1>11 DEF Next
-------------------------------------------------------------------------------
(* The invariant and what follows from it *)

LEMMA InitInv == Init => IInv
<1> SUFFICES ASSUME Init PROVE IInv
  OBVIOUS
<1>1. Setting
  <2>1. options \in Commands /\ accurate \in [1 .. ShapeCount -> BOOLEAN] /\ shape = 1
        /\ all_passed = TRUE
    BY DEF Init
  <2>2. options.shapes \in Seq(Seq(Nat))
    BY <2>1, CommandsAssumption
  <2>3. ShapeCount \in Nat
    BY <2>2, LenProperties DEF ShapeCount
  <2>4. shape \in 1 .. ShapeCount + 1
    BY <2>1, <2>3
  <2> QED BY <2>1, <2>4 DEF Setting
<1>2. Control /\ Packed
  BY DEF Init, Control, Packed, InShape
<1>3. Measured
  <2>1. runs = RunsOf(0, 0) /\ 0 \in 0 .. options.repeats
    <3>1. options.repeats \in Nat \ {0}
      BY <1>1, Settings
    <3>2. runs = <<>> /\ RunsOf(0, 0) = <<>>
      BY Prefixes DEF Init
    <3> QED BY <3>1, <3>2
  <2>2. 1 .. shape - 1 = {}
    BY DEF Init
  <2>3. results = [x \in 1 .. shape - 1 |-> ResultOf(x)]
    BY <2>2 DEF Init
  <2> QED BY <2>1, <2>2, <2>3 DEF Init, Measured, InShape
<1>4. File
  BY DEF Init, File
<1>5. Console
  <2>1. console = <<>> /\ <<>> \in Seq({}) /\ DOMAIN <<>> = {} /\ exit = "none" /\ all_passed = TRUE
    BY EmptySeq DEF Init
  <2>2. 1 .. shape - 1 = {}
    BY DEF Init
  <2> QED BY <2>1, <2>2 DEF Console, Told, Verdicts
<1> QED BY <1>1, <1>2, <1>3, <1>4, <1>5 DEF IInv

LEMMA StutterInv == IInv /\ UNCHANGED vars => IInv'
<1> SUFFICES ASSUME IInv, UNCHANGED vars PROVE IInv'
  OBVIOUS
<1>1. Setting' /\ Control' /\ File'
  <2>1. ShapeCount' = ShapeCount /\ Rows' = Rows
    BY DEF vars, ShapeCount, Rows
  <2>2. Setting'
    BY <2>1 DEF IInv, vars, Setting
  <2>3. Control'
    BY <2>1 DEF IInv, vars, Control
  <2>4. File'
    BY <2>1 DEF IInv, vars, File, Former
  <2> QED BY <2>2, <2>3, <2>4
<1>2. Packed' /\ Measured'
  <2>1. UNCHANGED <<options, accurate, clock>>
    BY DEF vars
  <2> QED BY <2>1, FixedSettings DEF IInv, vars, Packed, Measured
<1>3. Console'
  BY DEF IInv, vars, Console, Printed
<1> QED BY <1>1, <1>2, <1>3 DEF IInv

LEMMA Invariance == Spec => []IInv
<1>1. IInv /\ [Next]_vars => IInv'
  BY SettingStep, ControlStep, PackedStep, MeasuredStep, FileStep, ConsoleStep, StutterInv DEF IInv
<1> QED BY InitInv, <1>1, PTL DEF Spec

\* Every kernel run, in every configuration, is given the B of its own shape: the
\* flags of the registry and the dispatch of execute_kernel agree, and
\* benchmark_shape packs anew for every shape.
THEOREM RunsAreRight == Spec => []RunsComputeProduct
<1>1. IInv => RunsComputeProduct
  <2> SUFFICES ASSUME IInv PROVE RunsComputeProduct
    OBVIOUS
  <2>1. pc \in {"warm_up", "measure"} => Executable
    BY Ready DEF IInv
  <2>2. \A s, n : \A r \in DOMAIN RunsOf(s, n) : RunsOf(s, n)[r].c = "product"
    BY DEF RunsOf, RunOf
  <2>3. \A r \in DOMAIN runs : runs[r].c = "product"
    BY <2>2 DEF IInv, Measured
  <2>4. pc = "measure" => c = "product"
    BY DEF IInv, Measured
  <2>5. ASSUME NEW x \in DOMAIN results, NEW r \in DOMAIN results[x].runs
        PROVE  results[x].runs[r].c = "product"
    <3>1. results[x].runs = RunsOf(x, options.repeats)
      BY DEF IInv, Measured, ResultOf
    <3> QED BY <2>2, <2>5, <3>1
  <2> QED BY <2>1, <2>3, <2>4, <2>5 DEF RunsComputeProduct
<1> QED BY Invariance, <1>1, PTL

\* Every row of the file, however much of it reached the disk, is true of its own
\* run: its times, its verdict, and that it was verified at all.
THEOREM RowsAreTrue == Spec => []RowsTellTheTruth
<1>1. IInv => RowsTellTheTruth
  <2> SUFFICES ASSUME IInv, csv # Former, NEW z \in DOMAIN csv
      PROVE  /\ csv[z].performed
             /\ csv[z].verified <=> csv[z].c = "product" /\ accurate[csv[z].shape]
             /\ csv[z].time = KernelTime(csv[z].shape, csv[z].run)
             /\ csv[z].one_shot = csv[z].time + csv[z].packing
             /\ csv[z].packing = IF RequiresPackedB(options.kernel)
                                 THEN PackingTime(csv[z].shape, csv[z].run) ELSE 0
    BY DEF RowsTellTheTruth
  <2>1. Setting /\ Measured /\ options.csv_path # ""
    BY DEF IInv, File
  <2>2. Len(Rows) \in Nat /\ options.verify_results
    BY <2>1, RowsOfRuns, Settings
  <2>3. PICK n \in 0 .. Len(Rows) : csv = [x \in 1 .. n |-> Rows[x]]
    BY DEF IInv, File
  <2>4. z \in 1 .. Len(Rows) /\ csv[z] = Rows[z]
    BY <2>2, <2>3
  <2>5. PICK x \in 1 .. shape - 1, r \in 1 .. options.repeats :
          Rows[z] = RowOf(ResultOf(x), RunOf(x, r))
    BY <2>1, <2>4, RowsOfRuns
  <2>6. csv[z] = RowOf(ResultOf(x), RunOf(x, r))
    BY <2>4, <2>5
  <2>7. /\ csv[z].shape = x /\ csv[z].run = r /\ csv[z].c = "product"
        /\ csv[z].time = KernelTime(x, r) /\ csv[z].packing = PackingFor(x, r)
        /\ csv[z].one_shot = KernelTime(x, r) + PackingFor(x, r)
    BY <2>6 DEF RowOf, ResultOf, RunOf
  <2>8. /\ csv[z].performed = options.verify_results
        /\ csv[z].verified = (options.verify_results /\ accurate[x])
    BY <2>6 DEF RowOf, ResultOf, RunOf
  <2> QED BY <2>2, <2>7, <2>8 DEF PackingFor
<1> QED BY Invariance, <1>1, PTL

\* EXIT_SUCCESS stands for all shapes, measured the full number of times and,
\* unless verification was skipped, all in tolerance.
THEOREM SuccessIsComplete == Spec => []SuccessMeansAllPassed
<1>1. IInv => SuccessMeansAllPassed
  <2> SUFFICES ASSUME IInv, exit = "success"
      PROVE  /\ Len(results) = ShapeCount
             /\ \A x \in DOMAIN results :
                  /\ results[x].shape = x
                  /\ Len(results[x].runs) = options.repeats
                  /\ options.verify_results => accurate[x]
    BY DEF SuccessMeansAllPassed
  <2>1. Setting /\ Measured /\ shape = ShapeCount + 1 /\ all_passed
    BY DEF IInv, Control
  <2>2. shape - 1 = ShapeCount /\ ShapeCount \in Nat
    <3>1. ShapeCount \in Nat \ {0}
      BY <2>1, Settings
    <3> QED BY <2>1, <3>1
  <2>3. results = [x \in 1 .. ShapeCount |-> ResultOf(x)]
    BY <2>1, <2>2 DEF Measured
  <2>4. \A x \in 1 .. ShapeCount : options.verify_results => accurate[x]
    BY <2>1, <2>2 DEF Measured
  <2>5. \A x : Len(RunsOf(x, options.repeats)) = options.repeats
    <3>1. PICK b \in Nat : b = options.repeats
      BY <2>1, Settings
    <3> QED BY <3>1, Prefixes
  <2>6. \A x \in DOMAIN results :
          /\ x \in 1 .. ShapeCount
          /\ results[x].shape = x /\ results[x].runs = RunsOf(x, options.repeats)
    BY <2>3 DEF ResultOf
  <2>7. Len(results) = ShapeCount
    BY <2>2, <2>3
  <2> QED BY <2>4, <2>5, <2>6, <2>7
<1> QED BY Invariance, <1>1, PTL

\* The exit status can be read off the output: every failure was reported, and
\* success comes with one PASS or SKIPPED per shape, in order.
THEOREM StatusIsExplained == Spec => []StatusExplained
<1>1. IInv => StatusExplained
  <2> SUFFICES ASSUME IInv PROVE StatusExplained
    OBVIOUS
  <2>1. exit \in {"none", "success", "failure"}
        /\ (exit = "failure" => Printed("error") \/ Printed("FAIL"))
        /\ (exit # "failure" => Told(console, shape - 1, all_passed))
    BY DEF IInv, Control, Console
  <2>2. exit = "success" => shape = ShapeCount + 1 /\ all_passed
    BY DEF IInv, Control
  <2>3. exit = "failure" <=> exit # "none" /\ (Printed("error") \/ Printed("FAIL"))
    BY <2>1, <2>2 DEF Told, Printed
  <2>4. ASSUME exit = "success"
        PROVE  LET verdicts == {x \in DOMAIN console : console[x].what \in {"PASS", "SKIPPED"}}
               IN  /\ {console[x].shape : x \in verdicts} = 1 .. ShapeCount
                   /\ \A x, y \in verdicts : x < y => console[x].shape < console[y].shape
    <3>1. Told(console, ShapeCount, TRUE)
      <4>1. ShapeCount \in Nat \ {0} /\ Told(console, shape - 1, all_passed)
            /\ shape = ShapeCount + 1 /\ all_passed = TRUE
        BY <2>1, <2>2, <2>4, Settings DEF IInv, Setting
      <4>2. shape - 1 = ShapeCount
        BY <4>1
      <4> QED BY <4>1, <4>2
    <3>2. {x \in DOMAIN console : console[x].what \in {"PASS", "SKIPPED"}} = Verdicts(console)
      BY <3>1 DEF Told, Verdicts
    <3>3. /\ {console[x].shape : x \in Verdicts(console)} = 1 .. ShapeCount
          /\ \A x, y \in Verdicts(console) : x < y => console[x].shape < console[y].shape
      BY <3>1 DEF Told
    <3> QED BY <3>2, <3>3
  <2> QED BY <2>3, <2>4 DEF StatusExplained
<1> QED BY Invariance, <1>1, PTL

\* No step touches the file of an earlier invocation before all shapes have been
\* measured.
THEOREM CsvComesLast == Spec => CsvTouchedLast
<1>1. IInv /\ [Next]_vars => (csv' # csv => Len(results) = ShapeCount)
  <2> SUFFICES ASSUME IInv, [Next]_vars, csv' # csv PROVE Len(results) = ShapeCount
    OBVIOUS
  <2>1. OpenCsv \/ WriteRow \/ DiskFull
    BY DEF Next, Allocate, AllocationFails, Emplace, PackRun, PackDone, WarmUp, Reserve,
      KernelThrows, Measure, FinishShape, SummaryFails, OpenFails, CsvWritten, ExitWithoutCsv,
      Throw, ThrowAfter, fileVars, vars
  <2>2. ShapeCount \in Nat \ {0} /\ shape \in 1 .. ShapeCount + 1
    BY Settings DEF IInv, Setting
  <2>3. shape = ShapeCount + 1
    <3>1. shape > ShapeCount \/ pc = "write"
      BY <2>1 DEF OpenCsv, WriteRow, DiskFull
    <3>2. CASE shape > ShapeCount
      BY <2>2, <3>2
    <3>3. CASE pc = "write"
      BY <3>3 DEF IInv, Control
    <3> QED BY <3>1, <3>2, <3>3
  <2>4. shape - 1 = ShapeCount
    BY <2>2, <2>3
  <2>5. results = [x \in 1 .. ShapeCount |-> ResultOf(x)]
    BY <2>4 DEF IInv, Measured
  <2> QED BY <2>2, <2>5
<1> QED BY Invariance, <1>1, PTL DEF Spec, CsvTouchedLast
-------------------------------------------------------------------------------
(* Sorting and the median *)

\* A set of natural numbers that is not empty has a least element.
LEMMA LeastElement ==
  ASSUME NEW S \in SUBSET Nat, S # {}
  PROVE  \E m \in S : \A k \in S : m <= k
<1> DEFINE R == OpToRel(<, Nat)
<1>1. \A x, y \in Nat : x < y => <<x, y>> \in R
  BY DEF OpToRel
<1> HIDE DEF R
<1>2. PICK m \in S : \A k \in S : ~(<<k, m>> \in R)
  <2>1. IsWellFoundedOn(R, Nat)
    BY NatLessThanWellFounded DEF R
  <2> QED BY <2>1, WFMin
<1>3. \A k \in S : ~(k < m)
  BY <1>1, <1>2
<1> QED BY <1>2, <1>3

LEMMA Transitive ==
  ASSUME NEW a \in Nat, NEW b \in Nat, NEW d \in Nat, a <= b, b <= d
  PROVE  a <= d
OBVIOUS

\* Insertion: an ascending order of the first n - 1 values makes one of n values.
LEMMA Insertion ==
  ASSUME NEW n \in Nat, n > 0, NEW v \in [1 .. n -> Nat],
         NEW p \in Bijection(1 .. n - 1, 1 .. n - 1),
         \A x, y \in 1 .. n - 1 : x < y => v[p[x]] <= v[p[y]]
  PROVE  Ascending(v) # {}
<1> DEFINE Above == {x \in 1 .. n - 1 : v[p[x]] > v[n]} \cup {n}
<1>1. /\ p \in [1 .. n - 1 -> 1 .. n - 1]
      /\ \A x, y \in 1 .. n - 1 : p[x] = p[y] => x = y
      /\ \A y \in 1 .. n - 1 : \E x \in 1 .. n - 1 : p[x] = y
  BY DEF Bijection, Injection, Surjection, IsInjective
<1>2. /\ n \in 1 .. n /\ v[n] \in Nat /\ 1 .. n - 1 \subseteq 1 .. n
      /\ \A z \in 1 .. n - 1 : p[z] \in 1 .. n - 1 /\ p[z] \in 1 .. n /\ v[p[z]] \in Nat
  <2>1. n \in 1 .. n /\ 1 .. n - 1 \subseteq 1 .. n
    OBVIOUS
  <2>2. \A z \in 1 .. n - 1 : p[z] \in 1 .. n - 1
    BY <1>1
  <2> QED BY <2>1, <2>2
<1>3. \A x, y \in 1 .. n - 1 : x <= y => v[p[x]] <= v[p[y]]
  <2> SUFFICES ASSUME NEW x \in 1 .. n - 1, NEW y \in 1 .. n - 1, x <= y
               PROVE  v[p[x]] <= v[p[y]]
    OBVIOUS
  <2>1. v[p[x]] \in Nat
    BY <1>2
  <2>2. x < y \/ x = y
    OBVIOUS
  <2> QED BY <2>1, <2>2
<1>4. PICK k \in Above : \A x \in Above : k <= x
  <2>1. Above \in SUBSET Nat /\ Above # {}
    OBVIOUS
  <2> HIDE DEF Above
  <2> QED BY <2>1, LeastElement
<1>5. /\ k \in 1 .. n
      /\ \A x \in 1 .. n - 1 : x < k => v[p[x]] <= v[n]
      /\ k < n => v[n] < v[p[k]]
  <2>1. \A x \in 1 .. n - 1 : x < k => v[p[x]] <= v[n]
    <3> SUFFICES ASSUME NEW x \in 1 .. n - 1, x < k PROVE v[p[x]] <= v[n]
      OBVIOUS
    <3>1. x \notin Above
      <4>1. k \in Nat
        BY <1>4
      <4> QED BY <1>4, <4>1
    <3>2. ~(v[p[x]] > v[n])
      BY <3>1
    <3>3. v[n] \in Nat /\ v[p[x]] \in Nat
      BY <1>2
    <3> QED BY <3>2, <3>3
  <2> QED BY <1>4, <2>1
<1> HIDE DEF Above
<1>6. \A x \in k .. n - 1 : v[n] <= v[p[x]]
  <2> SUFFICES ASSUME NEW x \in k .. n - 1 PROVE v[n] <= v[p[x]]
    OBVIOUS
  <2>1. k \in 1 .. n - 1 /\ x \in 1 .. n - 1 /\ v[n] < v[p[k]]
    BY <1>5
  <2>2. v[p[k]] <= v[p[x]]
    BY <2>1, <1>3
  <2>3. v[n] \in Nat /\ v[p[k]] \in Nat /\ v[p[x]] \in Nat
    BY <1>2, <2>1
  <2>4. v[n] <= v[p[k]]
    BY <2>1, <2>3
  <2> QED BY <2>2, <2>3, <2>4, Transitive
<1> DEFINE Q(x) == IF x < k THEN p[x] ELSE IF x = k THEN n ELSE p[x - 1]
           q == [x \in 1 .. n |-> Q(x)]
<1>7. ASSUME NEW x \in 1 .. n
      PROVE  /\ x < k => x \in 1 .. n - 1 /\ q[x] = p[x]
             /\ x = k => q[x] = n
             /\ x > k => x - 1 \in k .. n - 1 /\ x - 1 \in 1 .. n - 1 /\ q[x] = p[x - 1]
  BY <1>5
<1>8. q \in [1 .. n -> 1 .. n] /\ DOMAIN q = 1 .. n
  <2>1. ASSUME NEW x \in 1 .. n PROVE Q(x) \in 1 .. n
    <3>1. CASE x < k
      <4>1. x \in 1 .. n - 1
        BY <1>5, <3>1
      <4> QED BY <1>2, <3>1, <4>1
    <3>2. CASE x = k
      BY <1>2, <3>2
    <3>3. CASE x > k
      <4>1. x - 1 \in 1 .. n - 1 /\ ~(x < k) /\ x # k
        BY <1>5, <3>3
      <4> QED BY <1>2, <4>1
    <3> QED BY <1>5, <3>1, <3>2, <3>3
  <2> HIDE DEF Q
  <2> QED BY <2>1
<1> HIDE DEF q, Q
<1>9. ASSUME NEW x \in 1 .. n, NEW y \in 1 .. n, x < y PROVE q[x] # q[y]
  <2>1. \A z \in 1 .. n - 1 : p[z] # n
    BY <1>1
  <2>2. CASE x = k \/ y = k
    BY <1>5, <1>7, <1>9, <2>1, <2>2
  <2>3. CASE x < k /\ y < k
    BY <1>1, <1>7, <1>9, <2>3
  <2>4. CASE x < k /\ y > k
    BY <1>1, <1>5, <1>7, <1>9, <2>4
  <2>5. CASE x > k /\ y > k
    BY <1>1, <1>5, <1>7, <1>9, <2>5
  <2> QED BY <1>5, <1>9, <2>2, <2>3, <2>4, <2>5
<1>10. ASSUME NEW y \in 1 .. n PROVE \E x \in 1 .. n : q[x] = y
  <2>1. CASE y = n
    BY <1>5, <1>7, <2>1
  <2>2. CASE y # n
    <3>1. PICK z \in 1 .. n - 1 : p[z] = y
      BY <1>1, <2>2
    <3>2. CASE z < k
      BY <1>7, <3>1, <3>2
    <3>3. CASE z >= k
      <4>1. z + 1 \in 1 .. n /\ z + 1 > k /\ (z + 1) - 1 = z
        BY <1>5, <3>3
      <4> QED BY <1>7, <3>1, <4>1
    <3> QED BY <1>5, <3>2, <3>3
  <2> QED BY <2>1, <2>2
<1>11. q \in Bijection(1 .. n, 1 .. n)
  <2>1. \A x, y \in 1 .. n : q[x] = q[y] => x = y
    <3> SUFFICES ASSUME NEW x \in 1 .. n, NEW y \in 1 .. n, q[x] = q[y] PROVE x = y
      OBVIOUS
    <3>1. ~(x < y) /\ ~(y < x)
      BY <1>9
    <3> QED BY <3>1
  <2> QED BY <1>8, <1>10, <2>1 DEF Bijection, Injection, Surjection, IsInjective
<1>12. ASSUME NEW x \in 1 .. n, NEW y \in 1 .. n, x < y PROVE v[q[x]] <= v[q[y]]
  <2>1. n \in 1 .. n /\ \A z \in 1 .. n - 1 : p[z] \in 1 .. n /\ v[p[z]] \in Nat
    BY <1>2
  <2>2. CASE x = k
    BY <1>5, <1>6, <1>7, <1>12, <2>2
  <2>3. CASE y = k
    BY <1>5, <1>7, <1>12, <2>3
  <2>4. CASE x < k /\ y < k
    BY <1>7, <1>12, <2>4
  <2>5. CASE x < k /\ y > k
    <3>1. /\ x \in 1 .. n - 1 /\ y - 1 \in k .. n - 1 /\ y - 1 \in 1 .. n - 1
          /\ q[x] = p[x] /\ q[y] = p[y - 1]
      BY <1>7, <2>5
    <3>2. v[p[x]] <= v[n] /\ v[n] <= v[p[y - 1]]
      BY <1>5, <1>6, <2>5, <3>1
    <3>3. v[n] \in Nat /\ v[p[x]] \in Nat /\ v[p[y - 1]] \in Nat
      BY <2>1, <3>1
    <3>4. v[p[x]] <= v[p[y - 1]]
      BY <3>2, <3>3, Transitive
    <3> QED BY <3>1, <3>4
  <2>6. CASE x > k /\ y > k
    <3>1. /\ x - 1 \in 1 .. n - 1 /\ y - 1 \in 1 .. n - 1 /\ x - 1 < y - 1
          /\ q[x] = p[x - 1] /\ q[y] = p[y - 1]
      BY <1>5, <1>7, <1>12, <2>6
    <3> QED BY <3>1
  <2>7. ~(x > k /\ y < k)
    BY <1>5, <1>12
  <2> QED BY <1>5, <2>2, <2>3, <2>4, <2>5, <2>6, <2>7
<1>13. DOMAIN v = 1 .. n
  OBVIOUS
<1> QED BY <1>11, <1>12, <1>13 DEF Ascending

\* Every list of times can be sorted: the shortest that could not would be one
\* time longer than one that can.
LEMMA SortingExists ==
  ASSUME NEW n \in Nat, NEW v \in [1 .. n -> Nat]
  PROVE  Ascending(v) # {}
<1> DEFINE Bad == {m \in Nat : \E w \in [1 .. m -> Nat] : Ascending(w) = {}}
<1> SUFFICES ASSUME Bad # {} PROVE FALSE
  OBVIOUS
<1>1. PICK m \in Bad : \A k \in Bad : m <= k
  <2>1. Bad \in SUBSET Nat
    OBVIOUS
  <2> HIDE DEF Bad
  <2> QED BY <2>1, LeastElement
<1>2. PICK w \in [1 .. m -> Nat] : Ascending(w) = {}
  BY <1>1
<1>3. m \in Nat
  BY <1>1
<1>4. CASE m = 0
  <2>1. 1 .. m = {}
    BY <1>4
  <2> DEFINE e == [x \in {} |-> x]
  <2>2. e \in Bijection({}, {})
    BY DEF Bijection, Injection, Surjection, IsInjective
  <2>3. DOMAIN w = {}
    BY <2>1
  <2> HIDE DEF e
  <2>4. e \in Ascending(w)
    BY <2>2, <2>3 DEF Ascending
  <2> QED BY <1>2, <2>4
<1>5. CASE m # 0
  <2>1. m - 1 \in Nat /\ m - 1 \notin Bad /\ m > 0
    <3>1. m - 1 \in Nat /\ m > 0 /\ ~(m <= m - 1)
      BY <1>3, <1>5
    <3> HIDE DEF Bad
    <3> QED BY <1>1, <3>1
  <2> DEFINE u == [x \in 1 .. m - 1 |-> w[x]]
  <2>2. u \in [1 .. m - 1 -> Nat] /\ DOMAIN u = 1 .. m - 1
    BY <1>3
  <2>3. PICK p : p \in Ascending(u)
    BY <2>1, <2>2
  <2>4. /\ p \in Bijection(1 .. m - 1, 1 .. m - 1)
        /\ \A x, y \in 1 .. m - 1 : x < y => u[p[x]] <= u[p[y]]
    BY <2>2, <2>3 DEF Ascending
  <2>5. \A x \in 1 .. m - 1 : p[x] \in 1 .. m - 1
    BY <2>4 DEF Bijection, Injection
  <2>6. \A x, y \in 1 .. m - 1 : x < y => w[p[x]] <= w[p[y]]
    BY <2>4, <2>5
  <2> QED BY <1>2, <1>3, <2>1, <2>4, <2>6, Insertion
<1> QED BY <1>4, <1>5

\* A set of indices that p takes from an interval is no larger than the interval.
LEMMA ImageBound ==
  ASSUME NEW n \in Nat, NEW p \in [1 .. n -> 1 .. n],
         NEW a \in Int, NEW b \in Int, a <= b + 1, a .. b \subseteq 1 .. n,
         NEW S, \A y \in S : \E x \in a .. b : p[x] = y
  PROVE  Cardinality(S) \in Nat /\ Cardinality(S) <= b - a + 1
<1> DEFINE T == {p[x] : x \in a .. b}
           f == [x \in a .. b |-> p[x]]
<1>1. f \in Surjection(a .. b, T)
  BY DEF Surjection
<1>2. IsFiniteSet(a .. b) /\ Cardinality(a .. b) = b - a + 1
  <2>1. IF a > b THEN a = b + 1 ELSE TRUE
    OBVIOUS
  <2> QED BY <2>1, FS_Interval
<1>3. S \subseteq T
  OBVIOUS
<1> HIDE DEF T, f
<1>4. IsFiniteSet(T) /\ Cardinality(T) <= b - a + 1
  BY <1>1, <1>2, FS_Surjection
<1>5. IsFiniteSet(S) /\ Cardinality(S) <= Cardinality(T)
  BY <1>3, <1>4, FS_Subset
<1>6. Cardinality(S) \in Nat /\ Cardinality(T) \in Nat
  BY <1>4, <1>5, FS_CardinalityType
<1> QED BY <1>4, <1>5, <1>6

\* Twice a number lies on one side of twice another, or of the sum of two others,
\* when the number does.
LEMMA TwiceAgainstSum ==
  ASSUME NEW a \in Nat, NEW b \in Nat, NEW d \in Nat
  PROVE  /\ b <= a /\ d <= a => ~(2 * a < b + d)
         /\ a <= b /\ a <= d => ~(2 * a > b + d)
         /\ b <= a => ~(2 * a < 2 * b)
         /\ a <= b => ~(2 * a > 2 * b)
OBVIOUS

\* The median of a list halves it.
LEMMA MedianHalves ==
  ASSUME NEW n \in Nat \ {0}, NEW v \in [1 .. n -> Nat]
  PROVE  Halves(TwiceMedian(v), v)
<1> DEFINE p == CHOOSE order \in Ascending(v) : TRUE
           s == Sorted(v)
           m == n \div 2 + 1
           twice == TwiceMedian(v)
<1>1. p \in Ascending(v)
  BY SortingExists
<1>2. DOMAIN v = 1 .. n /\ Len(v) = n
  OBVIOUS
<1>3. s = [x \in 1 .. n |-> v[p[x]]]
  BY <1>2 DEF Sorted
<1>4. twice = IF n % 2 = 1 THEN 2 * s[m] ELSE s[m - 1] + s[m]
  BY <1>2 DEF TwiceMedian
<1> HIDE DEF p, s, twice
<1>5. /\ p \in [1 .. n -> 1 .. n]
      /\ \A y \in 1 .. n : \E x \in 1 .. n : p[x] = y
      /\ \A x, y \in 1 .. n : x < y => v[p[x]] <= v[p[y]]
  BY <1>1, <1>2 DEF Ascending, Bijection, Injection, Surjection
<1>6. \A x \in 1 .. n : s[x] = v[p[x]] /\ s[x] \in Nat
  BY <1>3, <1>5
<1>7. ASSUME NEW x \in 1 .. n, NEW y \in 1 .. n, x <= y PROVE s[x] <= s[y]
  <2>1. x < y \/ x = y
    BY <1>7
  <2>2. CASE x < y
    BY <1>5, <1>6, <2>2
  <2>3. CASE x = y
    BY <1>6, <2>3
  <2> QED BY <2>1, <2>2, <2>3
<1>8. /\ m \in 1 .. n
      /\ n % 2 = 1 => n = 2 * m - 1
      /\ n % 2 # 1 => n = 2 * m - 2 /\ m - 1 \in 1 .. n
  OBVIOUS
<1> HIDE DEF m
<1> DEFINE Below == {y \in 1 .. n : 2 * v[y] < twice}
           Beyond == {y \in 1 .. n : 2 * v[y] > twice}
<1>9. ASSUME NEW y \in 1 .. n
      PROVE  \E x \in 1 .. n : /\ p[x] = y
                               /\ y \in Below => 2 * s[x] < twice
                               /\ y \in Beyond => 2 * s[x] > twice
  <2>1. PICK x \in 1 .. n : p[x] = y
    BY <1>5
  <2>2. s[x] = v[y]
    BY <1>6, <2>1
  <2> QED BY <2>1, <2>2
<1>10. Below \subseteq 1 .. n /\ Beyond \subseteq 1 .. n
  OBVIOUS
<1> HIDE DEF Below, Beyond
<1>11. 2 * Cardinality(Below) <= n /\ 2 * Cardinality(Beyond) <= n
  <2>1. CASE n % 2 = 1
    <3>1. n = 2 * m - 1 /\ m \in 1 .. n /\ twice = 2 * s[m] /\ s[m] \in Nat
      BY <1>4, <1>6, <1>8, <2>1
    <3>2. ASSUME NEW y \in Below PROVE \E x \in 1 .. m - 1 : p[x] = y
      <4>1. PICK x \in 1 .. n : p[x] = y /\ 2 * s[x] < twice
        BY <1>9, <1>10
      <4>2. ~(s[m] <= s[x])
        <5>1. s[x] \in Nat
          BY <1>6
        <5> QED BY <3>1, <4>1, <5>1, TwiceAgainstSum
      <4>3. ~(m <= x)
        BY <1>7, <3>1, <4>2
      <4> QED BY <3>1, <4>1, <4>3
    <3>3. ASSUME NEW y \in Beyond PROVE \E x \in m + 1 .. n : p[x] = y
      <4>1. PICK x \in 1 .. n : p[x] = y /\ 2 * s[x] > twice
        BY <1>9, <1>10
      <4>2. ~(s[x] <= s[m])
        <5>1. s[x] \in Nat
          BY <1>6
        <5> QED BY <3>1, <4>1, <5>1, TwiceAgainstSum
      <4>3. ~(x <= m)
        BY <1>7, <3>1, <4>2
      <4> QED BY <3>1, <4>1, <4>3
    <3>4. Cardinality(Below) \in Nat /\ Cardinality(Below) <= (m - 1) - 1 + 1
      <4>1. 1 .. m - 1 \subseteq 1 .. n /\ m - 1 \in Int /\ 1 \in Int /\ 1 <= (m - 1) + 1
        BY <3>1
      <4> QED BY <1>5, <3>2, <4>1, ImageBound
    <3>5. Cardinality(Beyond) \in Nat /\ Cardinality(Beyond) <= n - (m + 1) + 1
      <4>1. m + 1 .. n \subseteq 1 .. n /\ m + 1 \in Int /\ n \in Int /\ m + 1 <= n + 1
        BY <3>1
      <4> QED BY <1>5, <3>3, <4>1, ImageBound
    <3>6. m \in Nat
      BY <3>1
    <3> QED BY <3>1, <3>4, <3>5, <3>6
  <2>2. CASE n % 2 # 1
    <3>1. n = 2 * m - 2 /\ m \in 1 .. n /\ m - 1 \in 1 .. n
      BY <1>8, <2>2
    <3>2. twice = s[m - 1] + s[m] /\ s[m - 1] \in Nat /\ s[m] \in Nat
      BY <1>4, <1>6, <2>2, <3>1
    <3>3. ASSUME NEW y \in Below PROVE \E x \in 1 .. m - 1 : p[x] = y
      <4>1. PICK x \in 1 .. n : p[x] = y /\ 2 * s[x] < twice
        BY <1>9, <1>10
      <4>2. s[x] \in Nat
        BY <1>6
      <4>3. ~(s[m - 1] <= s[x] /\ s[m] <= s[x])
        BY <3>2, <4>1, <4>2, TwiceAgainstSum
      <4>4. m <= x => s[m - 1] <= s[x] /\ s[m] <= s[x]
        BY <1>7, <3>1
      <4> QED BY <3>1, <4>1, <4>3, <4>4
    <3>4. ASSUME NEW y \in Beyond PROVE \E x \in m .. n : p[x] = y
      <4>1. PICK x \in 1 .. n : p[x] = y /\ 2 * s[x] > twice
        BY <1>9, <1>10
      <4>2. s[x] \in Nat
        BY <1>6
      <4>3. ~(s[x] <= s[m - 1] /\ s[x] <= s[m])
        BY <3>2, <4>1, <4>2, TwiceAgainstSum
      <4>4. x <= m - 1 => s[x] <= s[m - 1] /\ s[x] <= s[m]
        BY <1>7, <3>1
      <4> QED BY <3>1, <4>1, <4>3, <4>4
    <3>5. Cardinality(Below) \in Nat /\ Cardinality(Below) <= (m - 1) - 1 + 1
      <4>1. 1 .. m - 1 \subseteq 1 .. n /\ m - 1 \in Int /\ 1 \in Int /\ 1 <= (m - 1) + 1
        BY <3>1
      <4> QED BY <1>5, <3>3, <4>1, ImageBound
    <3>6. Cardinality(Beyond) \in Nat /\ Cardinality(Beyond) <= n - m + 1
      <4>1. m .. n \subseteq 1 .. n /\ m \in Int /\ n \in Int /\ m <= n + 1
        BY <3>1
      <4> QED BY <1>5, <3>4, <4>1, ImageBound
    <3>7. m \in Nat
      BY <3>1
    <3> QED BY <3>1, <3>5, <3>6, <3>7
  <2> QED BY <2>1, <2>2
<1> QED BY <1>2, <1>11 DEF Halves, twice, Below, Beyond
-------------------------------------------------------------------------------
(* The medians on the console *)

\* A line shows the median of the measurements of its own shape.
Packings(s) == [r \in 1 .. options.repeats |-> PackingTime(s, r)]
KernelRuns(s) == [r \in 1 .. options.repeats |-> KernelTime(s, r)]
OneShots(s) == [r \in 1 .. options.repeats |-> KernelTime(s, r) + PackingTime(s, r)]

Shown(line) ==
  /\ line.shape \in Nat
  /\ line.what = "packing median" => line.twice = TwiceMedian(Packings(line.shape))
  /\ line.what = "kernel median" => line.twice = TwiceMedian(KernelRuns(line.shape))
  /\ line.what = "one-shot median" => line.twice = TwiceMedian(OneShots(line.shape))

MedianInv == clock \in Clocks /\ \A line \in Range(console) : Shown(line)

\* Lines that are not medians show none.
LEMMA NoMedian ==
  ASSUME Setting, NEW what, what \notin {"packing median", "kernel median", "one-shot median"}
  PROVE  Shown(Line(what, 0))
<1>1. shape \in Nat
  BY Settings
<1> QED BY <1>1 DEF Shown, Line

LEMMA ShownAgain ==
  ASSUME NEW line, Shown(line), UNCHANGED <<options, clock>>
  PROVE  Shown(line)'
BY DEF Shown, Packings, KernelRuns, OneShots, PackingTime, KernelTime, Timed

\* What is appended shows its own medians.
LEMMA ShownJoined ==
  ASSUME MedianInv, NEW S, console \in Seq(S), NEW T, NEW t \in Seq(T),
         \A y \in DOMAIN t : Shown(t[y]),
         UNCHANGED <<options, clock>>, console' = console \o t
  PROVE  MedianInv'
<1>1. \A x \in DOMAIN console' :
         (x \in DOMAIN console /\ console'[x] = console[x])
         \/ \E y \in DOMAIN t : console'[x] = t[y]
  <2>1. /\ Len(console) \in Nat /\ Len(t) \in Nat
        /\ DOMAIN console = 1 .. Len(console) /\ DOMAIN t = 1 .. Len(t)
        /\ DOMAIN console' = 1 .. Len(console) + Len(t)
        /\ \A x \in 1 .. Len(console) : console'[x] = console[x]
        /\ \A x \in 1 .. Len(t) : console'[Len(console) + x] = t[x]
    BY Joined
  <2> SUFFICES ASSUME NEW x \in DOMAIN console', x \notin DOMAIN console
               PROVE  \E y \in DOMAIN t : console'[x] = t[y]
    BY <2>1
  <2>2. x - Len(console) \in 1 .. Len(t) /\ x = Len(console) + (x - Len(console))
    BY <2>1
  <2> QED BY <2>1, <2>2
<1>2. ASSUME NEW line \in Range(console') PROVE Shown(line)
  <2>1. PICK x \in DOMAIN console' : line = console'[x]
    BY DEF Range
  <2>2. x \in DOMAIN console => console[x] \in Range(console)
    BY DEF Range
  <2> QED BY <1>1, <2>1, <2>2 DEF MedianInv
<1>3. \A line : Shown(line) => Shown(line)'
  BY ShownAgain
<1> QED BY <1>2, <1>3 DEF MedianInv, Range

\* The lines of a summary.
LEMMA SummaryShown ==
  ASSUME IInv, pc = "measure", Len(runs) = options.repeats
  PROVE  /\ \E T : Summary \in Seq(T)
         /\ \A y \in DOMAIN Summary : Shown(Summary[y])
<1>1. /\ options.repeats \in Nat \ {0} /\ shape \in Nat
      /\ runs = RunsOf(shape, options.repeats)
  <2>1. options.repeats \in Nat \ {0} /\ shape \in Nat
    BY Settings DEF IInv
  <2>2. PICK n \in 0 .. options.repeats : runs = RunsOf(shape, n)
    BY DEF IInv, Measured
  <2>3. Len(RunsOf(shape, n)) = n
    BY <2>1 DEF RunsOf
  <2> QED BY <2>1, <2>2, <2>3
<1>2. /\ DOMAIN runs = 1 .. options.repeats
      /\ \A r \in DOMAIN runs : runs[r] = RunOf(shape, r)
  BY <1>1 DEF RunsOf
<1>3. KernelTimes = KernelRuns(shape)
  <2>1. ASSUME NEW r \in DOMAIN runs PROVE runs[r].time = KernelTime(shape, r)
    <3>1. RunOf(shape, r).time = KernelTime(shape, r)
      BY DEF RunOf
    <3> QED BY <1>2, <3>1
  <2> QED BY <1>2, <2>1 DEF KernelTimes, KernelRuns
<1>4. packing_times # <<>> => OneShotTimes = OneShots(shape)
  <2> SUFFICES ASSUME packing_times # <<>> PROVE OneShotTimes = OneShots(shape)
    OBVIOUS
  <2>1. RequiresPackedB(options.kernel)
    BY DEF IInv, Packed
  <2>2. ASSUME NEW r \in DOMAIN runs
        PROVE  runs[r].one_shot = KernelTime(shape, r) + PackingTime(shape, r)
    <3>1. PackingFor(shape, r) = PackingTime(shape, r)
      BY <2>1 DEF PackingFor
    <3>2. RunOf(shape, r).one_shot = KernelTime(shape, r) + PackingFor(shape, r)
      BY DEF RunOf
    <3> QED BY <1>2, <3>1, <3>2
  <2> QED BY <1>2, <2>2 DEF OneShotTimes, OneShots
<1> DEFINE k == Line("kernel median", TwiceMedian(KernelTimes))
           o == Line("one-shot median", TwiceMedian(OneShotTimes))
           verdict == IF ~options.verify_results THEN "SKIPPED" ELSE IF Passed THEN "PASS" ELSE "FAIL"
           v == Line(verdict, 0)
           q == IF packing_times = <<>> THEN <<>> ELSE <<o>>
<1>5. Shown(k)
  BY <1>1, <1>3 DEF Shown, Line
<1>6. packing_times # <<>> => Shown(o)
  BY <1>1, <1>4 DEF Shown, Line
<1>7. Shown(v)
  <2>1. verdict \in {"SKIPPED", "PASS", "FAIL"}
    OBVIOUS
  <2> HIDE DEF verdict
  <2> QED BY <2>1, NoMedian DEF IInv
<1>8. Summary = (<<k>> \o q) \o <<v>>
  BY DEF Summary
<1> HIDE DEF k, o, v
<1> DEFINE L == {line \in {k, o, v} : Shown(line)}
<1>9. <<k>> \in Seq(L) /\ <<v>> \in Seq(L) /\ q \in Seq(L)
  <2>1. k \in L /\ v \in L /\ (packing_times # <<>> => o \in L)
    BY <1>5, <1>6, <1>7
  <2> HIDE DEF L
  <2>2. ASSUME NEW e \in L PROVE <<e>> \in Seq(L)
    OBVIOUS
  <2>3. <<>> \in Seq(L)
    BY EmptySeq
  <2> QED BY <2>1, <2>2, <2>3
<1> HIDE DEF q
<1>10. Summary \in Seq(L)
  <2> HIDE DEF L
  <2>1. <<k>> \o q \in Seq(L)
    BY <1>9, ConcatProperties
  <2> QED BY <1>8, <1>9, <2>1, ConcatProperties
<1>11. \A y \in DOMAIN Summary : Summary[y] \in L
  <2> HIDE DEF L
  <2>1. DOMAIN Summary = 1 .. Len(Summary)
    BY <1>10, LenProperties
  <2> QED BY <1>10, <2>1, ElementOfSeq
<1> QED BY <1>10, <1>11

LEMMA ErrorShown ==
  ASSUME MedianInv, Setting, Console, NEW T, NEW t \in Seq(T), ThrowAfter(t),
         \A y \in DOMAIN t : Shown(t[y])
  PROVE  MedianInv'
<1> DEFINE e == Line("error", 0)
<1>1. PICK S : console \in Seq(S)
  BY DEF Console
<1>2. UNCHANGED <<options, clock>> /\ console' = (console \o t) \o <<e>>
  BY DEF ThrowAfter, mainVars
<1>3. Shown(e)
  BY NoMedian
<1> HIDE DEF e
<1>4. /\ t \o <<e>> \in Seq(T \cup {e})
      /\ Len(t) \in Nat /\ DOMAIN t = 1 .. Len(t)
      /\ DOMAIN (t \o <<e>>) = 1 .. Len(t) + 1
      /\ \A y \in 1 .. Len(t) : (t \o <<e>>)[y] = t[y]
      /\ (t \o <<e>>)[Len(t) + 1] = e
  <2>1. <<e>> \in Seq({e}) /\ Len(<<e>>) = 1 /\ <<e>>[1] = e /\ 1 \in 1 .. Len(<<e>>)
    BY Single
  <2> QED BY <2>1, Joined
<1>5. ASSUME NEW y \in DOMAIN (t \o <<e>>) PROVE Shown((t \o <<e>>)[y])
  <2>1. y \in DOMAIN t \/ y = Len(t) + 1
    BY <1>4
  <2>2. CASE y \in DOMAIN t
    BY <1>4, <2>2
  <2>3. CASE y = Len(t) + 1
    BY <1>3, <1>4, <2>3
  <2> QED BY <2>1, <2>2, <2>3
<1>6. console' = console \o (t \o <<e>>)
  <2> DEFINE U == S \cup T \cup {e}
  <2>1. console \in Seq(U) /\ t \in Seq(U) /\ <<e>> \in Seq(U)
    BY <1>1, Single, SeqMonotonic
  <2> HIDE DEF U
  <2> QED BY <1>2, <2>1, ConcatAssociative
<1> QED BY <1>1, <1>2, <1>4, <1>5, <1>6, ShownJoined

LEMMA MedianStep == IInv /\ MedianInv /\ [Next]_vars => MedianInv'
<1> SUFFICES ASSUME IInv, MedianInv, [Next]_vars PROVE MedianInv'
  OBVIOUS
<1>1. Setting /\ Console
  BY DEF IInv
<1>2. PICK S : console \in Seq(S)
  BY <1>1 DEF Console
<1>3. ASSUME UNCHANGED <<options, clock, console>> PROVE MedianInv'
  BY <1>3, ShownAgain DEF MedianInv
<1>4. CASE \/ Allocate \/ Emplace \/ PackRun \/ WarmUp \/ Reserve \/ Measure \/ OpenCsv
           \/ WriteRow \/ DiskFull \/ ExitWithoutCsv \/ UNCHANGED vars
  BY <1>3, <1>4 DEF Allocate, Emplace, PackRun, WarmUp, Reserve, Measure, OpenCsv, WriteRow,
    DiskFull, ExitWithoutCsv, mainVars, vars
<1>5. CASE AllocationFails \/ KernelThrows \/ OpenFails
  <2>1. ThrowAfter(<<>>)
    BY <1>5 DEF AllocationFails, KernelThrows, OpenFails, Throw
  <2>2. <<>> \in Seq({}) /\ DOMAIN <<>> = {}
    BY EmptySeq
  <2> QED BY <1>1, <2>1, <2>2, ErrorShown
<1>6. ASSUME NEW l, Shown(l), UNCHANGED <<options, clock>>, console' = Append(console, l)
      PROVE  MedianInv'
  <2>1. <<l>> \in Seq({l}) /\ DOMAIN <<l>> = {1} /\ <<l>>[1] = l
    BY Single
  <2>2. console' = console \o <<l>>
    BY <1>2, <1>6, AppendJoins
  <2> QED BY <1>2, <1>6, <2>1, <2>2, ShownJoined
<1>7. CASE CsvWritten
  <2>1. Shown(Line("CSV written", 0))
    BY <1>1, NoMedian
  <2> QED BY <1>6, <1>7, <2>1 DEF CsvWritten, mainVars
<1>8. CASE PackDone
  <2> DEFINE l == Line("packing median", TwiceMedian(packing_times))
  <2>1. options.repeats \in Nat \ {0} /\ shape \in Nat
    BY <1>1, Settings
  <2>2. packing_times = Packings(shape)
    <3>1. PICK n \in 0 .. options.repeats : packing_times = TimesOf(shape, n)
      BY <1>8 DEF PackDone, IInv, Packed, InShape
    <3>2. Len(TimesOf(shape, n)) = n
      BY <2>1 DEF TimesOf
    <3> QED BY <1>8, <3>1, <3>2 DEF PackDone, TimesOf, Packings
  <2>3. Shown(l)
    BY <2>1, <2>2 DEF Shown, Line
  <2>4. UNCHANGED <<options, clock>> /\ console' = Append(console, l)
    BY <1>8 DEF PackDone, mainVars
  <2> HIDE DEF l
  <2> QED BY <1>6, <2>3, <2>4
<1>9. CASE FinishShape
  <2>1. /\ \E T : Summary \in Seq(T)
        /\ \A y \in DOMAIN Summary : Shown(Summary[y])
    BY <1>9, SummaryShown DEF FinishShape
  <2>2. UNCHANGED <<options, clock>> /\ console' = console \o Summary
    BY <1>9 DEF FinishShape
  <2> QED BY <1>2, <2>1, <2>2, ShownJoined
<1>10. CASE SummaryFails
  <2>1. PICK m \in 0 .. Len(Summary) : ThrowAfter(SubSeq(Summary, 1, m))
    BY <1>10 DEF SummaryFails
  <2>2. PICK T : Summary \in Seq(T)
    BY <1>10, SummaryShown DEF SummaryFails
  <2>3. \A y \in DOMAIN Summary : Shown(Summary[y])
    BY <1>10, SummaryShown DEF SummaryFails
  <2> DEFINE t == SubSeq(Summary, 1, m)
  <2>4. /\ t \in Seq(T) /\ Len(t) = m
        /\ \A y \in 1 .. m : t[y] = Summary[y] /\ y \in DOMAIN Summary
    <3>1. /\ m \in Int /\ 1 \in Int /\ m \in Nat /\ DOMAIN Summary = 1 .. Len(Summary)
          /\ Len(Summary) \in Nat
          /\ \A y \in 1 .. m : y \in 1 .. Len(Summary) /\ Summary[y] \in T
      BY <2>2, LenProperties, ElementOfSeq
    <3>2. /\ t \in Seq(T)
          /\ Len(t) = IF 1 <= m THEN m - 1 + 1 ELSE 0
          /\ \A y \in 1 .. m - 1 + 1 : t[y] = Summary[1 + y - 1]
      BY <3>1, SubSeqProperties
    <3>3. m - 1 + 1 = m /\ (1 <= m \/ m = 0) /\ \A y \in 1 .. m : 1 + y - 1 = y
      BY <3>1
    <3> QED BY <3>1, <3>2, <3>3
  <2> HIDE DEF t
  <2>5. \A y \in DOMAIN t : Shown(t[y])
    <3>1. DOMAIN t = 1 .. m
      BY <2>4, LenProperties
    <3> QED BY <2>3, <2>4, <3>1
  <2>6. ThrowAfter(t)
    BY <2>1 DEF t
  <2> QED BY <1>1, <2>4, <2>5, <2>6, ErrorShown
<1> QED BY <1>4, <1>5, <1>7, <1>8, <1>9, <1>10 DEF Next

\* The measured times are natural numbers.
LEMMA TimesAreNat ==
  ASSUME Setting, clock \in Clocks, NEW s \in Nat, NEW r \in Nat
  PROVE  PackingTime(s, r) \in Nat /\ KernelTime(s, r) \in Nat
<1>1. clock \in Seq(Nat) /\ clock # <<>> /\ options.repeats \in Nat
  BY ClocksAssumption, Settings
<1>2. Len(clock) \in Nat \ {0}
  BY <1>1, EmptySeq, LenProperties
<1>3. s * options.repeats \in Nat
  BY <1>1
<1>4. ASSUME NEW x \in Nat PROVE clock[(x % Len(clock)) + 1] \in Nat
  <2>1. (x % Len(clock)) + 1 \in 1 .. Len(clock)
    BY <1>2
  <2> QED BY <1>1, <2>1, ElementOfSeq
<1>5. /\ 2 * (s * options.repeats + r) + 0 \in Nat
      /\ 2 * (s * options.repeats + r) + 1 \in Nat
  BY <1>3
<1> QED BY <1>4, <1>5 DEF PackingTime, KernelTime, Timed

\* The medians that the console shows are those of the runs of their own shape,
\* for every number of runs and every order of the times.
THEOREM MediansAreRight == Spec => []MediansOfOwnRuns
<1>1. Init => MedianInv
  BY EmptySeq DEF Init, MedianInv, Range
<1>2. IInv /\ MedianInv => MediansOfOwnRuns
  <2> SUFFICES ASSUME IInv, MedianInv, NEW x \in DOMAIN console
               PROVE  LET packing == [r \in 1 .. options.repeats |-> PackingTime(console[x].shape, r)]
                          kernel == [r \in 1 .. options.repeats |-> KernelTime(console[x].shape, r)]
                      IN  /\ console[x].what = "packing median" => Halves(console[x].twice, packing)
                          /\ console[x].what = "kernel median" => Halves(console[x].twice, kernel)
                          /\ console[x].what = "one-shot median" =>
                               Halves(console[x].twice, [r \in 1 .. options.repeats |-> kernel[r] + packing[r]])
    BY DEF MediansOfOwnRuns
  <2>1. Setting /\ clock \in Clocks /\ Shown(console[x]) /\ options.repeats \in Nat \ {0}
    BY Settings DEF IInv, MedianInv, Range
  <2> DEFINE s == console[x].shape
  <2>2. s \in Nat
    BY <2>1 DEF Shown
  <2>3. \A r \in 1 .. options.repeats : PackingTime(s, r) \in Nat /\ KernelTime(s, r) \in Nat
    <3>1. 1 .. options.repeats \subseteq Nat
      BY <2>1
    <3> HIDE DEF s
    <3> QED BY <2>1, <2>2, <3>1, TimesAreNat
  <2> HIDE DEF s
  <2>4. /\ Packings(s) \in [1 .. options.repeats -> Nat]
        /\ KernelRuns(s) \in [1 .. options.repeats -> Nat]
        /\ OneShots(s) \in [1 .. options.repeats -> Nat]
    BY <2>3 DEF Packings, KernelRuns, OneShots
  <2>5. /\ Halves(TwiceMedian(Packings(s)), Packings(s))
        /\ Halves(TwiceMedian(KernelRuns(s)), KernelRuns(s))
        /\ Halves(TwiceMedian(OneShots(s)), OneShots(s))
    BY <2>1, <2>4, MedianHalves
  <2>6. OneShots(s) = [r \in 1 .. options.repeats |-> KernelRuns(s)[r] + Packings(s)[r]]
    BY DEF OneShots, KernelRuns, Packings
  <2>7. /\ console[x].what = "packing median" => Halves(console[x].twice, Packings(s))
        /\ console[x].what = "kernel median" => Halves(console[x].twice, KernelRuns(s))
        /\ console[x].what = "one-shot median" => Halves(console[x].twice, OneShots(s))
    BY <2>1, <2>5 DEF Shown, s
  <2> QED BY <2>6, <2>7 DEF Packings, KernelRuns, s
<1> QED BY <1>1, <1>2, Invariance, MedianStep, PTL DEF Spec
-------------------------------------------------------------------------------
(* The options come from the parser, whose record is parsed *)

Positives == Nat \ {0}
Cubes == {<<x, x, x>> : x \in Positives}

ParsedTypes ==
  /\ parsed \in [repeats : 1 .. IntMax, shapes : Seq(Seq(Nat)) \ {<<>>},
                 csv_path : Arguments \cup {""}, kernel : Kernels,
                 block_size : Positives, thread_count : Positives, verify_results : BOOLEAN]
  /\ custom_sizes \in BOOLEAN /\ rectangular \in BOOLEAN
  /\ mnk \in [m : Nat, n : Nat, k : Nat]

\* The list of shapes until it is replaced by the one of --m, --n and --k.
ParsedShapes ==
  ~(stage = "parsed" /\ rectangular) =>
    IF custom_sizes
    THEN given \in Texts /\ AreSizes(given) /\ parsed.shapes = Squares(given)
    ELSE parsed.shapes = DefaultShapes

ParsedChecked ==
  stage = "parsed" =>
    /\ ~ModeConflict /\ ~OptionConflict
    /\ rectangular => parsed.shapes = <<<<mnk.m, mnk.n, mnk.k>>>>

ParserInv == ParsedTypes /\ ParsedShapes /\ ParsedChecked

\* A number that parse_positive_size returns is one, also when it was negated.
LEMMA Numbers ==
  ASSUME NEW text \in Texts, IsSize(text)
  PROVE  Conversion(text) \in Positives
<1> DEFINE n == Written[text].number
<1>1. n \in Nat /\ n <= SizeMax
  BY TextsAssumption, OptionsAssumption DEF IsSize, OutOfRange
<1>2. Conversion(text) = IF Written[text].minus /\ n > 0 THEN SizeMax + 1 - n ELSE n
  BY DEF Conversion
<1>3. Conversion(text) # 0
  BY DEF IsSize
<1> HIDE DEF n
<1>4. SizeMax \in Nat
  BY OptionsAssumption
<1> QED BY <1>1, <1>2, <1>3, <1>4 DEF Positives

\* What std::getline delivers of a list are texts again.
LEMMA PiecesAreTexts ==
  ASSUME NEW text \in Texts
  PROVE  Pieces(text) \in Seq(Texts)
<1> DEFINE f == Fields[text]
<1>1. f \in Seq(Texts) /\ f # <<>>
  BY TextsAssumption
<1>2. Pieces(text) = IF f[Len(f)] = "" THEN SubSeq(f, 1, Len(f) - 1) ELSE f
  BY DEF Pieces
<1> HIDE DEF f
<1>3. SubSeq(f, 1, Len(f) - 1) \in Seq(Texts)
  BY <1>1
<1> QED BY <1>1, <1>2, <1>3

LEMMA ListOfCubes ==
  ASSUME NEW l \in Nat, NEW f \in [1 .. l -> Cubes], l > 0
  PROVE  f \in Seq(Seq(Nat)) \ {<<>>}
<1>1. ASSUME NEW x \in Nat PROVE <<x, x, x>> \in Seq(Nat)
  OBVIOUS
<1>2. Cubes \subseteq Seq(Nat)
  BY <1>1 DEF Cubes, Positives
<1>3. f \in Seq(Seq(Nat))
  BY <1>2
<1> QED BY <1>3

\* The squares of legal sizes are shapes the benchmark can run.
LEMMA SquaresOfSizes ==
  ASSUME NEW text \in Texts, AreSizes(text)
  PROVE  /\ Squares(text) \in Seq(Seq(Nat)) \ {<<>>}
         /\ \A x \in DOMAIN Squares(text) : Squares(text)[x] \in Cubes
<1> DEFINE p == Pieces(text)
           f == Squares(text)
<1>1. p \in Seq(Texts) /\ p # <<>>
  BY PiecesAreTexts DEF AreSizes
<1>2. Len(p) \in Nat /\ Len(p) > 0 /\ DOMAIN p = 1 .. Len(p) /\ \A x \in DOMAIN p : p[x] \in Texts
  <2> HIDE DEF p
  <2> QED BY <1>1
<1>3. ASSUME NEW x \in DOMAIN p PROVE Square(Conversion(p[x])) \in Cubes
  <2>1. Conversion(p[x]) \in Positives
    BY <1>2, <1>3, Numbers DEF AreSizes
  <2> QED BY <2>1 DEF Square, Cubes
<1>4. f = [x \in DOMAIN p |-> Square(Conversion(p[x]))]
  BY DEF Squares
<1> HIDE DEF p, f
<1>5. f \in [1 .. Len(p) -> Cubes]
  BY <1>2, <1>3, <1>4
<1>6. f \in Seq(Seq(Nat)) \ {<<>>}
  BY <1>2, <1>5, ListOfCubes
<1> QED BY <1>5, <1>6 DEF f

\* The default member initializers are legal values.
LEMMA Defaults ==
  /\ DefaultShapes \in Seq(Seq(Nat)) \ {<<>>}
  /\ "naive" \in Kernels
<1>1. ASSUME NEW x \in Nat PROVE <<x, x, x>> \in Seq(Nat)
  OBVIOUS
<1>2. ASSUME NEW a \in Seq(Nat), NEW b \in Seq(Nat), NEW d \in Seq(Nat)
      PROVE  <<a, b, d>> \in Seq(Seq(Nat)) \ {<<>>}
  OBVIOUS
<1>3. DefaultShapes \in Seq(Seq(Nat)) \ {<<>>}
  BY <1>1, <1>2 DEF DefaultShapes
<1>4. KernelNames[1] = "naive"
  BY DEF KernelNames
<1>5. 1 \in DOMAIN KernelNames
  BY DEF KernelNames
<1> QED BY <1>3, <1>4, <1>5 DEF Kernels

LEMMA ParserInit == ParseInit => ParserInv
<1> SUFFICES ASSUME ParseInit PROVE ParserInv
  OBVIOUS
<1>1. parsed = [repeats |-> 7, shapes |-> DefaultShapes, csv_path |-> "",
                kernel |-> "naive", block_size |-> 32, thread_count |-> 1,
                verify_results |-> TRUE]
  BY DEF ParseInit, DefaultOptions
<1>2. custom_sizes = FALSE /\ rectangular = FALSE /\ mnk = [m |-> 0, n |-> 0, k |-> 0]
      /\ stage = "read"
  BY DEF ParseInit
<1>3. ParsedTypes
  <2>1. 7 \in 1 .. IntMax /\ 32 \in Positives /\ 1 \in Positives
    BY IntMaxAssumption DEF Positives
  <2>2. mnk \in [m : Nat, n : Nat, k : Nat]
    BY <1>2
  <2> QED BY <1>1, <1>2, <2>1, <2>2, Defaults, Zenon DEF ParsedTypes
<1>4. parsed.shapes = DefaultShapes
  BY <1>1 DEF DefaultShapes
<1> QED BY <1>2, <1>3, <1>4 DEF ParserInv, ParsedShapes, ParsedChecked

LEMMA ParserStep ==
  ASSUME ParserInv, [ParseNext]_parseVars
  PROVE  ParserInv'
<1> USE DEF ParserInv
<1>1. ASSUME UNCHANGED <<parsed, custom_sizes, rectangular, mnk, given>>,
             stage' # "parsed" \/ stage' = stage, stage # "parsed" \/ stage' = stage
      PROVE  ParserInv'
  BY <1>1 DEF ParsedTypes, ParsedShapes, ParsedChecked, ModeConflict,
    IncompleteShape, OptionConflict, SupportsThreads
<1>2. ASSUME NEW exception \in {"invalid_argument", "out_of_range"},
             stage \in {"read", "check"}, Refuse(exception)
      PROVE  ParserInv'
  BY <1>1, <1>2 DEF Refuse
<1>3. \A text : SizeError(text) \in {"invalid_argument", "out_of_range"}
  BY DEF SizeError
\* A step that reads an option and goes on.
<1>4. ASSUME stage = "read", stage' = "read", ParsedTypes', ParsedShapes' PROVE ParserInv'
  BY <1>4 DEF ParsedChecked
<1>5. CASE UNCHANGED parseVars
  BY <1>1, <1>5 DEF parseVars
<1>6. ASSUME NEW text \in Arguments, ReadValue(text) PROVE ParserInv'
  <2> text \in Texts
    BY TextsAssumption
  <2>1. CASE BadNumber(text)
    BY <1>2, <1>3, <2>1 DEF BadNumber
  <2>2. CASE BadRepeats(text)
    BY <1>2, <2>2 DEF BadRepeats
  <2>3. CASE BadSizes(text)
    BY <1>2, <1>3, <2>3 DEF BadSizes
  <2>4. CASE BadKernel(text)
    BY <1>2, <2>4 DEF BadKernel
  <2>5. CASE Repeats(text)
    <3>1. Conversion(text) \in 1 .. IntMax
      BY <2>5, Numbers, IntMaxAssumption DEF Repeats, Positives
    <3> QED BY <1>4, <2>5, <3>1 DEF Repeats, ParsedTypes, ParsedShapes
  <2>6. CASE Sizes(text)
    <3> DEFINE f == Squares(text)
    <3>1. AreSizes(text) /\ f \in Seq(Seq(Nat)) \ {<<>>}
      BY <2>6, SquaresOfSizes DEF Sizes
    <3>2. /\ stage = "read" /\ stage' = "read" /\ custom_sizes' = TRUE /\ given' = text
          /\ parsed' = [parsed EXCEPT !.shapes = f] /\ UNCHANGED <<rectangular, mnk>>
      BY <2>6 DEF Sizes
    <3>3. given' \in Texts /\ AreSizes(given)' /\ Squares(given)' = f
      BY <3>1, <3>2 DEF AreSizes, Squares
    <3> HIDE DEF f
    <3>4. ParsedTypes'
      BY <3>1, <3>2 DEF ParsedTypes
    <3>5. parsed'.shapes = f
      BY <3>2 DEF ParsedTypes
    <3>6. ParsedShapes'
      BY <3>2, <3>3, <3>5 DEF ParsedShapes
    <3> QED BY <1>4, <3>2, <3>4, <3>6
  <2>7. CASE Csv(text)
    BY <1>4, <2>7 DEF Csv, ParsedTypes, ParsedShapes
  <2>8. CASE Kernel(text)
    BY <1>4, <2>8 DEF Kernel, ParsedTypes, ParsedShapes
  <2>9. CASE BlockSize(text)
    BY <1>4, <2>9, Numbers DEF BlockSize, ParsedTypes, ParsedShapes
  <2>10. CASE Threads(text)
    BY <1>4, <2>10, Numbers DEF Threads, ParsedTypes, ParsedShapes
  <2>11. CASE \E d \in {"m", "n", "k"} : Dimension(d, text)
    <3>1. PICK d \in {"m", "n", "k"} : Dimension(d, text)
      BY <2>11
    <3>2. Conversion(text) \in Nat
      BY <3>1, Numbers DEF Dimension, Positives
    <3>3. /\ stage = "read" /\ stage' = "read" /\ rectangular' = TRUE
          /\ mnk' = [mnk EXCEPT ![d] = Conversion(text)]
          /\ UNCHANGED <<parsed, custom_sizes, given>>
      BY <3>1 DEF Dimension
    <3>4. mnk' \in [m : Nat, n : Nat, k : Nat]
      BY <3>2, <3>3 DEF ParsedTypes
    <3>5. ParsedTypes' /\ ParsedShapes'
      BY <3>3, <3>4 DEF ParsedTypes, ParsedShapes
    <3> QED BY <1>4, <3>3, <3>5
  <2> QED BY <1>6, <2>1, <2>2, <2>3, <2>4, <2>5, <2>6, <2>7, <2>8, <2>9, <2>10, <2>11
    DEF ReadValue
<1>7. CASE MissingValue \/ UnknownArgument \/ RejectConflict
  BY <1>2, <1>7 DEF MissingValue, UnknownArgument, RejectConflict
<1>8. CASE Help \/ EndOfArguments
  BY <1>1, <1>8 DEF Help, EndOfArguments
<1>9. CASE SkipVerification
  BY <1>4, <1>9 DEF SkipVerification, ParsedTypes, ParsedShapes
<1>10. CASE Accept
  <2>1. stage = "check" /\ stage' = "parsed" /\ UNCHANGED <<custom_sizes, rectangular, mnk>>
        /\ ~ModeConflict /\ ~OptionConflict /\ UNCHANGED given
    BY <1>10 DEF Accept
  <2>2. CASE rectangular
    <3>1. parsed' = [parsed EXCEPT !.shapes = <<<<mnk.m, mnk.n, mnk.k>>>>]
      BY <1>10, <2>2 DEF Accept
    <3>2. mnk.m \in Nat /\ mnk.n \in Nat /\ mnk.k \in Nat
      BY DEF ParsedTypes
    <3>3. <<<<mnk.m, mnk.n, mnk.k>>>> \in Seq(Seq(Nat)) \ {<<>>}
      BY <3>2
    <3>4. ParsedTypes'
      BY <2>1, <3>1, <3>3 DEF ParsedTypes
    <3>5. ParsedShapes'
      BY <2>1, <2>2 DEF ParsedShapes
    <3>6. /\ parsed'.shapes = <<<<mnk.m, mnk.n, mnk.k>>>>
          /\ parsed'.kernel = parsed.kernel /\ parsed'.thread_count = parsed.thread_count
          /\ parsed'.verify_results = parsed.verify_results
          /\ parsed'.csv_path = parsed.csv_path
      BY <3>1 DEF ParsedTypes
    <3>7. ParsedChecked'
      BY <2>1, <3>6 DEF ParsedChecked, ModeConflict, IncompleteShape,
        OptionConflict, SupportsThreads
    <3> QED BY <3>4, <3>5, <3>7
  <2>3. CASE ~rectangular
    <3>1. UNCHANGED parsed
      BY <1>10, <2>3 DEF Accept
    <3> QED BY <2>1, <2>3, <3>1 DEF ParsedTypes, ParsedShapes, ParsedChecked,
      ModeConflict, IncompleteShape, OptionConflict, SupportsThreads
  <2> QED BY <2>2, <2>3
<1> QED BY <1>5, <1>6, <1>7, <1>8, <1>9, <1>10 DEF ParseNext

LEMMA ParserInvariance == ParseSpec => []ParserInv
<1>1. ParserInv /\ [ParseNext]_parseVars => ParserInv'
  BY ParserStep
<1> QED BY ParserInit, <1>1, PTL DEF ParseSpec

\* What the parser has let through.
LEMMA Accepted ==
  ASSUME ParserInv, stage = "parsed"
  PROVE  /\ Admissible(parsed)
         /\ parsed.shapes \in Seq(Seq(Nat)) /\ parsed.verify_results \in BOOLEAN
<1>1. \A x \in DOMAIN parsed.shapes : \A d \in 1 .. 3 : parsed.shapes[x][d] > 0
  <2>1. CASE rectangular
    <3>1. parsed.shapes = <<<<mnk.m, mnk.n, mnk.k>>>>
      BY <2>1 DEF ParserInv, ParsedChecked
    <3>2. mnk.m \in Nat /\ mnk.n \in Nat /\ mnk.k \in Nat
      BY DEF ParserInv, ParsedTypes
    <3>3. mnk.m # 0 /\ mnk.n # 0 /\ mnk.k # 0
      BY <2>1 DEF ParserInv, ParsedChecked, ModeConflict, IncompleteShape
    <3> QED BY <3>1, <3>2, <3>3
  <2>2. CASE ~rectangular /\ custom_sizes
    <3>1. /\ parsed.shapes = Squares(given)
          /\ \A x \in DOMAIN Squares(given) : Squares(given)[x] \in Cubes
      BY <2>2, SquaresOfSizes DEF ParserInv, ParsedShapes
    <3>2. \A s \in Cubes : \A d \in 1 .. 3 : s[d] > 0
      BY DEF Cubes, Positives
    <3> QED BY <3>1, <3>2
  <2>3. CASE ~rectangular /\ ~custom_sizes
    BY <2>3 DEF ParserInv, ParsedShapes, DefaultShapes
  <2> QED BY <2>1, <2>2, <2>3 DEF ParserInv, ParsedTypes
<1>2. /\ parsed.thread_count # 1 => SupportsThreads(parsed.kernel)
      /\ parsed.csv_path # "" => parsed.verify_results
  BY DEF ParserInv, ParsedChecked, OptionConflict, SupportsThreads
<1>3. /\ parsed.repeats \in 1 .. IntMax /\ parsed.shapes \in Seq(Seq(Nat)) \ {<<>>}
      /\ parsed.kernel \in Kernels
      /\ parsed.block_size \in Positives /\ parsed.thread_count \in Positives
      /\ parsed.verify_results \in BOOLEAN
  BY DEF ParserInv, ParsedTypes
<1>4. parsed.block_size > 0 /\ parsed.thread_count > 0
  BY <1>3 DEF Positives
<1> QED BY <1>1, <1>2, <1>3, <1>4 DEF Admissible

\* What the parser accepts meets the assumption that the theorems about Benchmark
\* make on the options main() runs with.
THEOREM ParserMeetsAssumption ==
  ParseSpec =>
    [](stage = "parsed" =>
         /\ Admissible(parsed)
         /\ parsed.shapes \in Seq(Seq(Nat)) /\ parsed.verify_results \in BOOLEAN)
<1>1. ParserInv => (stage = "parsed" =>
        /\ Admissible(parsed)
        /\ parsed.shapes \in Seq(Seq(Nat)) /\ parsed.verify_results \in BOOLEAN)
  BY Accepted
<1> QED BY <1>1, ParserInvariance, PTL

\* Whatever the command line, what parse_options returns is a configuration the
\* benchmark can run.
THEOREM ParsedIsAdmissible == ParseSpec => []AcceptedIsAdmissible
<1>1. ParserInv => AcceptedIsAdmissible
  BY Accepted DEF AcceptedIsAdmissible
<1> QED BY <1>1, ParserInvariance, PTL

\* Whatever numbers the texts show and however they are divided by commas, the
\* accepted shapes are the one shape of --m, --n and --k, the squares of the last
\* --sizes, or the defaults, never a mixture.
THEOREM OneModeOfShapes == ParseSpec => []ShapesFromOneMode
<1>1. ASSUME ParserInv PROVE ShapesFromOneMode
  <2> SUFFICES ASSUME stage = "parsed"
               PROVE  /\ rectangular => /\ ~custom_sizes
                                        /\ parsed.shapes = <<<<mnk.m, mnk.n, mnk.k>>>>
                                        /\ \A d \in 1 .. 3 : parsed.shapes[1][d] # 0
                      /\ custom_sizes => AreSizes(given) /\ parsed.shapes = Squares(given)
                      /\ ~rectangular /\ ~custom_sizes => parsed.shapes = DefaultShapes
    BY DEF ShapesFromOneMode
  <2>1. CASE rectangular
    BY <1>1, <2>1 DEF ParserInv, ParsedChecked, ModeConflict, IncompleteShape
  <2>2. CASE ~rectangular
    BY <1>1, <2>2 DEF ParserInv, ParsedShapes
  <2> QED BY <2>1, <2>2
<1> QED BY <1>1, ParserInvariance, PTL
===============================================================================
