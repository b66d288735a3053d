------------------------------- MODULE Benchmark -------------------------------
(***************************************************************************)
(* main() of gemm_benchmark after parse_options: for each shape allocate,  *)
(* pack, warm up, measure and verify (benchmark_shape), then write the CSV.*)
(* Memory, threads and the disk may fail at any of these steps.            *)
(*                                                                         *)
(* A kernel returns what GemmContract promises, and the same on every run: *)
(* what it computes is a function of its input (ParallelGemm, Serial-      *)
(* Kernels).  accurate[s] tells whether the FP32 result for shape s lies   *)
(* within the tolerance of verify_gemm.  What the clock measures is        *)
(* arbitrary: clock lists the durations, used over and over, in a unit of  *)
(* time.  Of the console the medians, the verdicts, the CSV message and    *)
(* the error message are kept, in the order they were printed.             *)
(***************************************************************************)
EXTENDS BenchmarkTypes, FiniteSets, Functions

CONSTANTS Commands, \* the options main() runs with
          Clocks    \* the sequences of durations the clock may show

ASSUME CommandsAssumption ==
  \A o \in Commands :
    /\ Admissible(o)
    /\ o.shapes \in Seq(Seq(Nat)) /\ o.verify_results \in BOOLEAN
ASSUME ClocksAssumption == Clocks \subseteq Seq(Nat) \ {<<>>}

VARIABLES
  options,  \* as parse_options returned them
  accurate, \* for each shape, whether the kernel is accurate enough on it
  clock,    \* the durations of this execution
  pc,       \* where the program is, or "exited"
  shape,    \* index of the shape being measured
  packed_b, \* the std::optional<PackedB>: 0 when empty, else the shape whose B it holds
  packing_times, \* their durations, in order
  c,        \* contents of C: "zeros", "product" or "rubbish"
  runs,     \* result.runs of the shape being measured
  results,  \* one CaseResult per finished shape
  all_passed,
  csv,      \* rows of the CSV file; Former is the file of an earlier invocation
  stream,   \* state of the std::ofstream: "closed", "good" or "bad"
  console,  \* the summary lines printed so far
  exit      \* "none", "success" or "failure"

vars == <<options, accurate, clock, pc, shape, packed_b, packing_times, c, runs,
          results, all_passed, csv, stream, console, exit>>

Former == <<[former |-> TRUE]>>
ShapeCount == Len(options.shapes)

Init ==
  /\ options \in Commands
  /\ accurate \in [1 .. ShapeCount -> BOOLEAN]
  /\ clock \in Clocks
  /\ pc = "allocate"
  /\ shape = 1
  /\ packed_b = 0 /\ packing_times = <<>>
  /\ c = "zeros" /\ runs = <<>>
  /\ results = <<>> /\ all_passed = TRUE
  /\ csv = Former /\ stream = "closed"
  /\ console = <<>>
  /\ exit = "none"

caseVars == <<packed_b, packing_times, c, runs>>
mainVars == <<options, accurate, clock, shape, results, all_passed>>
fileVars == <<csv, stream>>

\* What the steady_clock measures for a packing run and for a kernel run.
Timed(s, run, timer) ==
  clock[((2 * (s * options.repeats + run) + timer) % Len(clock)) + 1]
PackingTime(s, run) == Timed(s, run, 0)
KernelTime(s, run) == Timed(s, run, 1)

\* A line: the shape it belongs to, and twice the time it shows, if it shows one
\* (the mean of two times may be a half).
Line(what, twice) == [shape |-> shape, what |-> what, twice |-> twice]

\* An exception reaches the handler of main() after some lines of a summary:
\* results and stream are destroyed on the way, the message is printed (on
\* std::cerr), EXIT_FAILURE.
ThrowAfter(lines) ==
  /\ pc' = "exited"
  /\ exit' = "failure"
  /\ stream' = "closed"
  /\ console' = console \o lines \o <<Line("error", 0)>>
  /\ UNCHANGED <<mainVars, caseVars, csv>>

Throw == ThrowAfter(<<>>)
-------------------------------------------------------------------------------
(* benchmark_shape *)

\* The matrices: vectors of 0.0F; then A and B are filled.
Allocate ==
  /\ pc = "allocate"
  /\ shape <= ShapeCount
  /\ c' = "zeros" /\ runs' = <<>>
  /\ packed_b' = 0 /\ packing_times' = <<>>
  /\ pc' = IF UsesPackedB(options.kernel) THEN "emplace" ELSE "warm_up"
  /\ UNCHANGED <<mainVars, fileVars, console, exit>>

\* A matrix, the PackedB, one of the reserved vectors or the copy of the packing
\* times that median sorts does not fit.
AllocationFails ==
  /\ \/ pc = "allocate" /\ shape <= ShapeCount
     \/ pc \in {"emplace", "reserve"}
     \/ pc = "pack" /\ Len(packing_times) \in {0, options.repeats}
  /\ Throw

\* packed_b.emplace and the first, untimed pack_b.
Emplace ==
  /\ pc = "emplace"
  /\ packed_b' = shape
  /\ pc' = "pack"
  /\ UNCHANGED <<mainVars, packing_times, c, runs, fileVars, console, exit>>

\* A timed pack_b; it leaves the same B in the buffer.
PackRun ==
  /\ pc = "pack"
  /\ Len(packing_times) < options.repeats
  /\ packed_b' = shape
  /\ packing_times' =
       Append(packing_times, PackingTime(shape, Len(packing_times) + 1))
  /\ UNCHANGED <<mainVars, pc, c, runs, fileVars, console, exit>>

\* (The definitions named Slip... are plausible mistakes in the definition after
\* them.  No specification uses them; they show which property notices.)
SlipUnsorted(values) ==
  LET middle == Len(values) \div 2 + 1
  IN  IF Len(values) % 2 = 1
      THEN 2 * values[middle] ELSE values[middle - 1] + values[middle]

\* std::sort: the same values in ascending order.
Ascending(values) ==
  {order \in Bijection(DOMAIN values, DOMAIN values) :
     \A x, y \in DOMAIN values : x < y => values[order[x]] <= values[order[y]]}

Sorted(values) ==
  LET order == CHOOSE order \in Ascending(values) : TRUE
  IN  [x \in DOMAIN values |-> values[order[x]]]

\* Twice median(values): the caller's vector is copied and the copy sorted.
TwiceMedian(values) ==
  LET sorted == Sorted(values)
      middle == Len(values) \div 2 + 1
  IN  IF Len(values) % 2 = 1
      THEN 2 * sorted[middle] ELSE sorted[middle - 1] + sorted[middle]

PackDone ==
  /\ pc = "pack"
  /\ Len(packing_times) = options.repeats
  /\ pc' = "warm_up"
  /\ console' = Append(console, Line("packing median", TwiceMedian(packing_times)))
  /\ UNCHANGED <<mainVars, caseVars, fileVars, exit>>

\* execute_kernel: the kernels it hands the result of require_packed_b, which
\* throws when there is none, compute with whatever the buffer holds.
RequiresPackedB(kernel) == kernel \in {"packed", "micro", "avx2", "avx2-mt"}
Executable == RequiresPackedB(options.kernel) => packed_b # 0
\* The same shape and buffer give the same result in every run.
Computed ==
  IF RequiresPackedB(options.kernel) /\ packed_b # shape THEN "rubbish" ELSE "product"

\* The vectors of the measurements are reserved after the warm-up.
WarmUp ==
  /\ pc = "warm_up"
  /\ Executable
  /\ c' = Computed
  /\ pc' = "reserve"
  /\ UNCHANGED <<mainVars, packed_b, packing_times, runs, fileVars, console, exit>>

Reserve ==
  /\ pc = "reserve"
  /\ pc' = "measure"
  /\ UNCHANGED <<mainVars, caseVars, fileVars, console, exit>>

\* The kernel throws: the CPU lacks AVX2 or a thread cannot be started.
MayThrow == options.kernel \in {"avx2", "avx2-mt"}

KernelThrows ==
  /\ pc = "warm_up" \/ (pc = "measure" /\ Len(runs) < options.repeats)
  /\ MayThrow \/ ~Executable
  /\ Throw

SlipLastPacking(run) ==
  IF packing_times = <<>> THEN 0 ELSE packing_times[Len(packing_times)]

\* A measured run.  Its one-shot time is its kernel time and the packing time
\* at index run - 1 (counted from 0), or 0 when nothing was packed.
PackingOf(run) ==
  IF packing_times = <<>> THEN 0 ELSE packing_times[run]

Measure ==
  /\ pc = "measure"
  /\ Len(runs) < options.repeats
  /\ Executable
  /\ c' = Computed
  /\ LET run == Len(runs) + 1
         time == KernelTime(shape, run)
     IN  runs' = Append(runs, [run |-> run, time |-> time, packing |-> PackingOf(run),
                               one_shot |-> time + PackingOf(run), c |-> Computed])
  /\ UNCHANGED <<mainVars, pc, packed_b, packing_times, fileVars, console, exit>>

\* verify_gemm on the C that is left after the last run.  When it is skipped
\* the VerificationResult keeps passed = false.
InTolerance == c = "product" /\ accurate[shape]
Passed == options.verify_results /\ InTolerance

Result ==
  [shape |-> shape, runs |-> runs, performed |-> options.verify_results, passed |-> Passed]

SlipLastVerdict(performed, passed) == IF performed THEN passed ELSE all_passed
Verdict(performed, passed) == IF performed THEN passed /\ all_passed ELSE all_passed

\* kernel_times and one_shot_times
KernelTimes == [r \in DOMAIN runs |-> runs[r].time]
OneShotTimes == [r \in DOMAIN runs |-> runs[r].one_shot]

\* print_kernel_summary, print_one_shot_summary when something was packed, and
\* the verdict.
Summary ==
  <<Line("kernel median", TwiceMedian(KernelTimes))>>
  \o (IF packing_times = <<>> THEN <<>>
      ELSE <<Line("one-shot median", TwiceMedian(OneShotTimes))>>)
  \o <<Line(IF ~options.verify_results THEN "SKIPPED" ELSE IF Passed THEN "PASS" ELSE "FAIL", 0)>>

FinishShape ==
  /\ pc = "measure"
  /\ Len(runs) = options.repeats
  /\ results' = Append(results, Result)
  /\ all_passed' = Verdict(options.verify_results, Passed)
  /\ console' = console \o Summary
  /\ shape' = shape + 1
  /\ pc' = "allocate"
  /\ UNCHANGED <<options, accurate, clock, caseVars, fileVars, exit>>

\* The copy of a median, before its line, or the place of the result in the
\* vector of main(), after the verdict, does not fit.
SummaryFails ==
  /\ pc = "measure"
  /\ Len(runs) = options.repeats
  /\ \E n \in (0 .. Len(Summary)) \ {Len(Summary) - 1} : ThrowAfter(SubSeq(Summary, 1, n))
-------------------------------------------------------------------------------
(* The end of main and write_csv *)

\* The shapes are done; with a csv_path the file is opened and truncated.
SlipEarlyCsv ==
  /\ pc = "allocate"
  /\ options.csv_path # ""
  /\ stream = "closed"
  /\ csv' = <<>> /\ stream' = "good" /\ pc' = "write"
  /\ UNCHANGED <<mainVars, caseVars, console, exit>>

OpenCsv ==
  /\ pc = "allocate"
  /\ shape > ShapeCount
  /\ options.csv_path # ""
  /\ csv' = <<>> /\ stream' = "good" /\ pc' = "write"
  /\ UNCHANGED <<mainVars, caseVars, console, exit>>

\* The directory cannot be made or the file not be opened: this is checked.
OpenFails ==
  /\ pc = "allocate"
  /\ shape > ShapeCount
  /\ options.csv_path # ""
  /\ Throw

\* The row of a run of a case.
RowOf(result, run) ==
  [shape |-> result.shape, run |-> run.run, time |-> run.time, packing |-> run.packing,
   one_shot |-> run.one_shot, c |-> run.c, performed |-> result.performed,
   verified |-> result.passed]

\* The row of every run of every case, in order; each case holds as many runs as
\* FinishShape waits for.
Rows ==
  [n \in 1 .. Len(results) * options.repeats |->
     LET result == results[(n - 1) \div options.repeats + 1]
     IN  RowOf(result, result.runs[((n - 1) % options.repeats) + 1])]

\* One row is handed to the stream.
WriteRow ==
  /\ pc = "write"
  /\ stream = "good"
  /\ Len(csv) < Len(Rows)
  /\ csv' = Append(csv, Rows[Len(csv) + 1])
  /\ UNCHANGED <<mainVars, caseVars, pc, stream, console, exit>>

\* A write, also the flush when the stream is destroyed, fails: the stream
\* goes bad, what is still in its buffer and what follows is lost.  Nobody
\* looks at its state.
DiskFull ==
  /\ pc = "write"
  /\ stream = "good"
  /\ stream' = "bad"
  /\ \E rows \in 0 .. Len(csv) : csv' = SubSeq(csv, 1, rows)
  /\ UNCHANGED <<mainVars, caseVars, pc, console, exit>>

Status == IF all_passed THEN "success" ELSE "failure"

CsvWritten ==
  /\ pc = "write"
  /\ stream = "bad" \/ Len(csv) = Len(Rows)
  /\ pc' = "exited" /\ exit' = Status
  /\ console' = Append(console, Line("CSV written", 0))
  /\ UNCHANGED <<mainVars, caseVars, fileVars>>

ExitWithoutCsv ==
  /\ pc = "allocate"
  /\ shape > ShapeCount
  /\ options.csv_path = ""
  /\ pc' = "exited" /\ exit' = Status
  /\ UNCHANGED <<mainVars, caseVars, fileVars, console>>

Next ==
  \/ Allocate \/ AllocationFails
  \/ Emplace \/ PackRun \/ PackDone
  \/ WarmUp \/ Reserve \/ KernelThrows \/ Measure \/ FinishShape \/ SummaryFails
  \/ OpenCsv \/ OpenFails \/ WriteRow \/ DiskFull \/ CsvWritten \/ ExitWithoutCsv

Spec == Init /\ [][Next]_vars
-------------------------------------------------------------------------------
\* Every kernel run, warm-up and measured, of every shape computes the product
\* of that shape's own A and B: the registry asks for a PackedB for every
\* kernel the dispatch requires one for, and the buffer a kernel is given was
\* packed with this B before, not with the one of the shape before.
RunsComputeProduct ==
  /\ pc \in {"warm_up", "measure"} => Executable
  /\ \A r \in DOMAIN runs : runs[r].c = "product"
  /\ pc = "measure" => c = "product"
  /\ \A x \in DOMAIN results : \A r \in DOMAIN results[x].runs :
       results[x].runs[r].c = "product"

\* A row of the file says what was found out about its own run: no unverified
\* row is ever written (docs/benchmark-methodology.md, line 23), "true" stands
\* only beside a run of a shape whose result was in tolerance (the runs of a shape
\* compute the same, see Computed), and the packing time is that of the same run.
RowsTellTheTruth ==
  csv # Former =>
    \A x \in DOMAIN csv :
      /\ csv[x].performed
      /\ csv[x].verified <=> csv[x].c = "product" /\ accurate[csv[x].shape]
      /\ csv[x].time = KernelTime(csv[x].shape, csv[x].run)
      /\ csv[x].one_shot = csv[x].time + csv[x].packing
      /\ csv[x].packing = IF RequiresPackedB(options.kernel)
                          THEN PackingTime(csv[x].shape, csv[x].run) ELSE 0

\* Success means that every shape was measured the full number of times and,
\* unless verification was skipped, that every one of them passed, not only
\* the last.
SuccessMeansAllPassed ==
  exit = "success" =>
    /\ Len(results) = ShapeCount
    /\ \A x \in DOMAIN results :
         /\ results[x].shape = x
         /\ Len(results[x].runs) = options.repeats
         /\ options.verify_results => accurate[x]

\* A summary on the console is one of the measured runs of its shape: no more
\* than half of them are below the median and no more than half above it, for
\* the kernel, the packing and the one-shot times, in whatever order they came.
\* The times of a shape are never mixed with those of another.
Halves(twice, times) ==
  LET few(S) == 2 * Cardinality(S) <= Len(times)
  IN  /\ few({x \in DOMAIN times : 2 * times[x] < twice})
      /\ few({x \in DOMAIN times : 2 * times[x] > twice})

MediansOfOwnRuns ==
  \A x \in DOMAIN console :
    LET packing == [r \in 1 .. options.repeats |-> PackingTime(console[x].shape, r)]
        kernel == [r \in 1 .. options.repeats |-> KernelTime(console[x].shape, r)]
    IN  /\ console[x].what = "packing median" => Halves(console[x].twice, packing)
        /\ console[x].what = "kernel median" => Halves(console[x].twice, kernel)
        /\ console[x].what = "one-shot median" =>
             Halves(console[x].twice, [r \in 1 .. options.repeats |-> kernel[r] + packing[r]])

\* The exit status can be explained from the output: failure exactly when an
\* error or the FAIL of some shape was printed; success only after one verdict
\* per shape, in order.
Printed(what) == \E x \in DOMAIN console : console[x].what = what

StatusExplained ==
  /\ exit = "failure" <=> exit # "none" /\ (Printed("error") \/ Printed("FAIL"))
  /\ exit = "success" =>
       LET verdicts == {x \in DOMAIN console : console[x].what \in {"PASS", "SKIPPED"}}
       IN  /\ {console[x].shape : x \in verdicts} = 1 .. ShapeCount
           /\ \A x, y \in verdicts : x < y => console[x].shape < console[y].shape

\* The file of an earlier invocation is touched only when all shapes have been
\* measured: a benchmark that fails half way leaves the former file as it was.
CsvTouchedLast == [][csv' # csv => Len(results) = ShapeCount]_vars

\* benchmark_output.hpp, line 34: write_csv writes all measured runs.
CsvComplete ==
  exit = "success" /\ options.csv_path # "" => csv = Rows
===============================================================================
