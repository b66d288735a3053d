# Verification of the GEMM Optimization Lab

TLA+ models of the GEMM library, of its benchmark program and of the scripts
that run it, checked with TLC
on small instances, and proofs, checked by TLAPS, that their safety properties
hold for all sizes. The models are translated from the C++ sources; paths below are relative
to the repository root.

## Inventory

| Component | State | Operations | Interacts with | Hard because |
|---|---|---|---|---|
| Threaded kernel, `src/kernels/gemm_avx2_parallel.cpp`, row-range walk in `gemm_avx2.cpp`, `microkernel_common.hpp` | the vector of threads, each worker's range and loop variables, shared C | `gemm_avx2_4x8_parallel` | reads A and PackedB shared, writes C shared | unlocked concurrent writes; thread start may fail half way; short last group, more threads than groups |
| Packed B, `gemm_packed.cpp`, `packing.hpp` | the tile-major buffer | constructor, `pack_b` | four kernels read it by their own address arithmetic | reused buffer, padding, short tiles |
| Serial kernels, `gemm_naive/ikj/blocked/packed/microkernel/avx2.cpp` | C, loop variables | one call each | Matrix, PackedB | clearing, order of the sums, tile edges |
| Matrix and sizes, `matrix.hpp`, `gemm_packed.cpp` | dimensions, vector | constructors, indexing, loops | everything | wrapping `std::size_t` |
| Verification, `verification.cpp` | VerificationResult | `verify_gemm` | reads A, B, C | NaN, infinity, ties |
| Command line, `benchmark_options.cpp` | Options | `parse_options` | registry, `main` | order, repetition, conflicts, odd numbers |
| Kernel registry, `kernel_registry.cpp` | constant table | lookup, `execute_kernel` | parser, runner | table and dispatch must agree |
| Runner, CSV, `main`, `benchmark_runner.cpp`, `benchmark_output.cpp`, `benchmark_main.cpp` | C, PackedB, times, results, file, exit status | measure a shape, write the CSV | all of the above | any step may throw; one verdict for many runs; the disk |
| Statistics, `benchmark_statistics.cpp` | none | `median`, `calculate_gflops` | runner, console | sorts a copy; even and odd counts |
| Measuring scripts, `scripts/run_*.sh`, `collect_system_info.sh` | result directory, build directories, the git worktree | gate, record the system, build, test, measure | git, cmake, ctest, the benchmark program | any command may fail; reruns in one directory; a developer at work in the same worktree |
| Code generation and style scripts, tests, recorded results | files | compiler output and text | - | not modelled |

What makes each of them correct is listed with its module below.

## Modules

`SizeMath` holds `std::min` and `ceil_div`, `MicroTiles` the walk over micro-tiles shared by the threaded and the
serial register kernels, `PackedLayout` the address arithmetic shared by the
packer and its readers, `BenchmarkTypes` the registry and the options shared by
parser and runner. `GemmContract` is the abstract specification that
`ParallelGemm` and `SerialKernels` are both shown to implement. The theorems about a
module `M` are in `M_proofs`; `Tiling_proofs` has the arithmetic of tiles, of the
packed layout and of the walk that several of them rest on.

| Module | Models | State in the code |
|---|---|---|
| `ParallelGemm` | one call of `gemm_avx2_4x8_parallel` | `pc` is the place of the calling thread, `worker` the spawn loop variable (also `workers.size()`), `thread[w]` the state of each `std::thread`, `row_begin`/`row_end` the captured range, `tile[w]` the loop variables `ii, jj, i, j` of the worker, `writers[e]` who stored element `e` |
| `SerialKernels` | the six single-threaded kernels | `c` is the row-major buffer of C; each element is the sequence of products added up in it, a product being the elements of A and B that were read; `pos` the loop variables, `acc` the accumulators of a micro-tile |
| `Packing` | a PackedB and `pack_b` | `data` the buffer, with values `<<version of B, row, column>>` |
| `SizeArithmetic` | constructors and tile loops modulo `2^Width` | `args` the sizes asked for, `x` and `limit` a loop |
| `Verification` | `verify_gemm` with its shape test | `matching` whether the shapes fit, `result` the VerificationResult |
| `BenchmarkOptions` | `parse_options` | `parsed` (its `options`), `custom_sizes`, `rectangular`, `mnk` as in the code; `stage` is how far it has got; `given` and `illegal` are history. The arguments are constants: `Written` is the number a text shows with its sign, `Fields` the text split at commas; `Conversion` and `Pieces` are what `std::stoull` and `std::getline` make of them. `ParseInit`, `ParseNext`, `ParseSpec`: its names differ from those of `Benchmark`, so that one module can speak of both |
| `Benchmark` | `main` after parsing, `benchmark_shape`, `median`, the console, `write_csv` | variables named as in the code; `stream` is the `std::ofstream`, `clock` what the steady clock will measure, `console` the lines printed |
| `ExperimentScripts` | the seven measuring scripts and `collect_system_info.sh` | `plan` the commands a script has still to run, `results` its result directory, `build` the build directories, `source`, `history` and `changed` what git sees |

Actions are the code's steps. In `ParallelGemm`: `Reject`, `RunInline`,
`GoParallel`, `Reserve`/`ReserveFails`, `Spawn`/`SpawnFails`, `AllSpawned`,
`Join`, `Return`, `Rethrow`, `InlineReturn` belong to the calling thread,
`StoreTile(w)` and `FinishThread(w)` to a worker. A micro-tile is one step: the
stores of two workers touch the same element only if their footprints overlap,
and `writers` then shows both, so finer steps would show no more races.
`SpawnFails` and `ReserveFails` may happen at any of their points.

In `SerialKernels` the register kernels advance one `k` (`MultiplyAdd`) or store
one row (`StoreRow`) per step. The AVX2 code works on whole vectors and the
portable code on the counts it is passed (`TileRows`, `Lanes`); because C is a
flat buffer, a vector that is too wide would show as a change of the next row.

In `Benchmark` a time is a natural number taken from `clock`, so ties and any order
occur; of the console the medians, the verdicts, the CSV message and the error
message are kept. Twice the median is kept instead of the median, which may be a
half. Means and GFLOP/s are formulas on the same lists and are left out.

In `ExperimentScripts` a script is the list of its commands (`PlanOf`); the scripts
that build once and compare (`run_loop_order`, `run_blocking`, `run_packing`,
`run_simd`) differ only in their experiments. Every command may fail, `Stop` may
end a script between any two (a signal, a failing `mkdir`, the missing AVX2, the
artifact commands of `run_compiler_options`). Besides the script a developer acts:
`Edit`, `Commit`, `Discard`. The source files are one number, new with each edit.
The result directory may lie in the worktree, where the script's own files make
it dirty, or be ignored by git.

The modules compose as assumption and guarantee. `Packing` shows that a packed
buffer `HoldsB`; `SerialKernels` reads a PackedB with these contents through
`PackedIndex`. `BenchmarkOptions` shows that accepted options are `Admissible`;
`Benchmark` assumes it of its `Commands` (`CommandsAssumption`), and `Benchmark_proofs`
proves the one from the other. `ParallelGemm`
and `SerialKernels` show that a kernel computes the same for the same input,
which is what `Benchmark` takes a kernel to do. `Benchmark` shows what exit status
and CSV of `gemm_benchmark` mean, which is what `RunBenchmark` of
`ExperimentScripts` takes them for.

Definitions named `Slip...` are plausible mistakes in the definition that
follows them. No specification uses them; each property below was seen to fail
when its definition is replaced by such a slip.

## Runs

All bounds are the constants in the MC modules and cfg files.

| Run | Properties | Shows | Bounds |
|---|---|---|---|
| `MCParallelGemm` | `NoDataRace`, `StoresInOwnRange`, `CompleteOnReturn`, `QuietAtExit`, `BalancedPartition`, `SamePathAsSerial`, `IInv`, `TypeOK`, `KeepsContract`, `Terminates` | no two workers store one element; stores stay inside the range and hit fresh elements; a returned call has stored all of C; nobody runs after the call; groups are shared evenly; an element takes the AVX2 or the portable path as in a serial call; the call implements `GemmContract`; it ends | micro-tiles 2 x 2, 1 to 7 rows, 1 or 3 columns, blocks 1, 2, 3, 4, 9, 0 to 4 threads; 32,021 states |
| `MCSerialKernels` | `AscendingSums`, `RegisterKernelsStoreOnce`, `AccessesInside`, `TypeOK`, `KeepsContract`, `Terminates` | every element is the sum of its K products, each once and in ascending k; the register kernels store no partial sum, load no padding and nothing outside the packed buffer, store nothing outside their row | dimensions up to 5, blocks up to 7; 9,927 states |
| `MCPacking` | `CopyInBounds`, `EachOffsetOnce`, `NoTraceOfOldB`, `HoldsB`, `TypeOK` | a copy reads inside its row of B, writes each offset once and none of the padding; repacking leaves exactly the new B at the documented addresses and zeros in the padding | K to 4, N to 5, three packs |
| `MCSizeArithmetic` | `SizesExact`, `TileLoopsDoNotWrap`, `Terminates` | accepted sizes have not wrapped; loops of accepted sizes do not wrap, whatever the block size | `Width = 8`, sizes around 0, the limits and 2^8 - 1 |
| `MCVerification` | `PassedIffNoExcess`, `DiagnosticsBoundErrors` | verdict, count and diagnostics, the values at the worst place included, agree for comparable errors | three elements, ten kinds; 10,648 states |
| `MCVerificationDocumented` | `DocumentedCriterion` (violated) | a NaN element passes, unlike `docs/numerical-verification.md` line 11 | as above |
| `MCBenchmarkOptions` | `AcceptedIsAdmissible`, `ShapesFromOneMode` | whatever the order, accepted options are consistent and the shapes are those of the one mode used | eleven argument texts, among them a list of the default sizes, one with a bad size in the middle and one that ends in a comma; no bound on the length; `IntMax = 2047`, `SizeMax = 4095`; 382,216 states |
| `MCBenchmarkOptionsDocumented` | `IllegalValueIsInvalidArgument` (violated) | a number beyond 64 bits leaves as `std::out_of_range`, a negative one is accepted | as above |
| `MCBenchmark` | `RunsComputeProduct`, `RowsTellTheTruth`, `SuccessMeansAllPassed`, `MediansOfOwnRuns`, `StatusExplained`, `CsvTouchedLast` | the CSV and the exit status are true, the medians are those of the shape's own runs, the output explains the exit status, the former file survives a failed benchmark | three shapes, three runs, two clocks (distinct and tied times); 49,080 states |
| `MCBenchmarkCsv` | `CsvComplete` (violated) | a write error loses rows and the program reports success | as above |
| `MCExperimentScripts` | `MeasuredAfterItsTests`, `FinishedMeansVerified`, `RecordIdentifiesSource`, `OneBinaryPerComparison`, `TypeOK` | only tested binaries are measured; status 0 means every experiment asked for was verified; undisturbed, `system-info.txt` names the source measured; a comparison uses one binary | two experiments, three edits, three commits, the developer works also during a run; 2,089,660 states |
| `MCExperimentScriptsOneRevision` | `ResultsIdentifyOneRevision` (violated) | a rerun that stops or asks for less leaves results of two revisions | as above, the developer works between runs only |

Why these bounds are enough. In `MCParallelGemm` seven rows and 2-row groups give
one to four groups: fewer than, as many as and more than the threads, with and
without remainder and short last group; the blocks are smaller than, equal to,
larger than and not a multiple of the micro-tile. The code's 4 x 8 tile differs
only in the numbers, and the proofs cover every size. `SamePathAsSerial` needs its
condition on the block size: with 2-row tiles and a block of 3 TLC finds, at four
rows and two threads, an element that the serial call computes in a short tile and
the parallel call in a full one. The default and the measured block sizes (16 to
128) are multiples of four. The serial kernels and
the packer have short tiles on each axis and blocks larger than the matrix. In
`MCSizeArithmetic` a `size_t` of 8 bits has the same places where products and
sums can wrap as one of 64 bits, and a vector limit in the same proportion.
Two experiments and three commits let an old result, a half-finished run and a new
one meet in one directory; a third experiment would only repeat the middle one.
`CHECK_DEADLOCK FALSE` stands where a call, a pass or a program ends, and where the
developer has used up `MaxEdits` and `MaxCommits`. A buffer may
be packed for ever (up to the bound `MaxPacks` of changes), so `MCPacking` checks
for deadlock.

Fairness. `ParallelGemm` assumes weak fairness of the calling thread and of each
worker: the operating system runs every thread that can run. `join` is not
assumed to return; that it does follows from the workers ending. A worker has no
fairness before it is started. `SerialKernels` and `SizeArithmetic` assume that a
single running thread goes on. The other modules are not asked for liveness:
their loops end by counting.

## Proofs

The proofs hold for every value of the constants that satisfies the assumptions
below. A theorem `Spec => []P` is proved through an inductive invariant of the same
module, because almost none of the properties is inductive itself: they speak of the
moment a call or program ends, and say nothing of how far its loops have got.

| Module | Theorems | For every |
|---|---|---|
| `ParallelGemm_proofs` | `TypeCorrect` (`TypeOK`), `Invariance` (`IInv`), `RaceFreedom` (`NoDataRace`), `StoresInBounds` (`StoresInOwnRange`), `Completeness` (`CompleteOnReturn`), `Quiescence` (`QuietAtExit`), `Balance` (`BalancedPartition`), `SamePath` (`SamePathAsSerial`), `Refinement` (`KeepsContract`) | call (`CallsAssumption`: positive dimensions and block), number of threads, micro-tile (`MicroShapeAssumption`) |
| `SerialKernels_proofs` | `TypeCorrect` (`TypeOK`), `SumsAscend` (`AscendingSums`), `StoresOnce` (`RegisterKernelsStoreOnce`), `AccessesAreInside` (`AccessesInside`), `Refinement` (`KeepsContract`) | kernel, call (`CallsAssumption`: positive dimensions; a PackedB has a positive block) and micro-tile |
| `Tiling_proofs` | `LayoutInjective`, `IndexAgrees` | shape of a PackedB with positive depth, columns and block |
| `Packing_proofs` | `TypeCorrect` (`TypeOK`), `CopiesStayInside` (`CopyInBounds`), `OffsetsWrittenOnce` (`EachOffsetOnce`), `RepackForgets` (`NoTraceOfOldB`), `PackCorrect` (`HoldsB`) | set of shapes (`ShapesAssumption`), number of packs |
| `SizeArithmetic_proofs` | `AllocatesTheLayout`, `NoProductWraps` (`SizesExact`), `NoTileWraps` (`TileLoopsDoNotWrap`) | width of `size_t`, size of `float`, sizes and blocks that are `size_t` values |
| `Verification_proofs` | `VerdictIsRight` (`PassedIffNoExcess`), `DiagnosticsAreRight` (`DiagnosticsBoundErrors`) | size of C, set of elements (`VerificationAssumption`: integer references; finite results are fractions) and tolerances |
| `Benchmark_proofs` | `RunsAreRight` (`RunsComputeProduct`), `RowsAreTrue` (`RowsTellTheTruth`), `SuccessIsComplete` (`SuccessMeansAllPassed`), `StatusIsExplained` (`StatusExplained`), `CsvComesLast` (`CsvTouchedLast`, an action property), `MediansAreRight` (`MediansOfOwnRuns`) | options the parser may accept (`CommandsAssumption`), number of shapes and runs, clock |
| `Benchmark_proofs`, about `BenchmarkOptions` | `ParsedIsAdmissible` (`AcceptedIsAdmissible`), `OneModeOfShapes` (`ShapesFromOneMode`), `ParserMeetsAssumption` | command line: the texts, the numbers they show and their fields between commas are constants (`TextsAssumption`); `IntMax` of at least 7 (`IntMaxAssumption`: the default of `--repeats`) and greater `SizeMax` (`OptionsAssumption`) |
| `ExperimentScripts_proofs` | `TypeCorrect` (`TypeOK`), `OnlyTestedIsMeasured` (`MeasuredAfterItsTests`), `FinishedIsVerified` (`FinishedMeansVerified`), `RecordIsRight` (`RecordIdentifiesSource`), `ComparesOneBinary` (`OneBinaryPerComparison`) | lists of experiments, number of runs, edits and commits |

The assumptions are conditions on the inputs the code establishes: zero sizes are
refused before a kernel or `pack_b` starts, options reach `main` from the parser.
Others are bounds or mathematics. `MaxPacks`, `MaxEdits` and `MaxCommits` only
have to be positive, so what is proved does not depend on them. `PowerAssumption`
(`2 ^ Width` is twice `2 ^ (Width - 1)`) is a law of arithmetic that holds for every
`Width`; it is stated because the provers know nothing of exponents, and TLC
evaluates it at `Width = 8`.

### Threaded kernel

`IInv` of `ParallelGemm` adds to `TypeOK` what the argument needs:

- `ThreadInv`: which threads exist and which are joined is determined by `pc`,
  `worker` and `next_join`; a thread that is finished or joined has no tile left.
- `RangeInv`: in the spawn loop `group_begin` is `worker * GroupsPerWorker +
  min(worker, RemainingGroups)`; the ranges given so far are disjoint, in order
  and cover the rows below `FreeRow`; at the end of the loop this is all of them.
  The step from one worker to the next is arithmetic with `\div` and `%`, stated
  as lemmas.
- `WalkInv`: a worker has stored exactly the elements of its range that lie
  `Before` its loop variables, and nobody else has stored any of them. That
  `NextTile` advances `Before` by exactly the footprint of the tile, which does
  not overlap what came before, is `WalkStep` of `Tiling_proofs`, with one case per
  loop that advances.

Race freedom follows from disjoint ranges, completeness from coverage and from
`Before` being the whole range when no tile is left, quiescence from `ThreadInv`,
and the refinement from the four of them. `Balance` needs the exact ranges, not only
their order: `ShareInv`, proved on top of `IInv`, says that worker `w` was given the
rows from `FirstGroup(w)` to `FirstGroup(w + 1)`, the last one cut at the matrix edge.
`SamePath` needs that loop variables stand on the grid: by `AlignInv` every row
range starts at a multiple of the micro-rows and every tile at a multiple of block and
micro-tile, so if the block is a multiple of the micro-rows, the parallel and the
serial walk cut C at the same places.

### Serial kernels

`AscendingSums` is about a call that has returned. The invariant says of every
element what it holds in the middle of the call (`Values`): the first `m` terms of
its dot product, where `m` is a function of the loop variables, one per kernel.
`NaiveDone` and `IkjTerms` are short; `BlockTerms` distinguishes six positions of an
element relative to the current block, and is where an error in the order of the
blocked loops would show. For the register kernels an element is old or complete
(`Stored`), and `Accumulators` holds the partial sums in its place. `Progress` keeps the
loop variables at block boundaries and inside the matrices.
Each loop nest has a lemma that advancing its variables changes exactly the terms of
the row just computed. The step lemmas prove with the invariant that a complete
element keeps its value (`Kept`), which gives `StoresOnce` and the steps of the
contract. `AccessesAreInside` uses the layout: the PackedB addresses come from
`IndexAgrees`, and a register tile stores only inside the row because `Offset` is
injective.

### Packed B and sizes

`LayoutInjective` says that two elements of B never have the same address and that
every address lies in the buffer, `IndexAgrees` that the address that `pack_b` and the
kernels build from a tile corner is the documented one. Both rest on uniqueness of
quotient and remainder. `IInv` of `Packing` says that in the middle of `pack_b` every
row before the loop variables is in place and everything else, padding included, is zero (`LoopInv`), and between calls
`HoldsB`; `HoldsB` alone is not inductive, as the loop passes through states in which
the buffer is neither. `RepackForgets` is a consequence of the same fact: all offsets
are zero after `Fill`, and later ones come from the new version.

`NoProductWraps` proves that the tests before each multiplication accept exactly the
sizes whose true product is below the vector limit. `AllocatesTheLayout` ties this to
the layout: a PackedB that could be constructed has the shape and the size
`LayoutInjective` speaks of. The loops have no test; that they do not wrap is `WalkInv`:
the position and the limit are below half of `2 ^ Width`, and the block is added to 0
or is no larger than the position.

### Verification

The errors are compared as fractions by cross multiplication. The lemmas `Order`,
`Transitive` and `Asymmetric` say that this is an order on the errors that are not NaN,
infinity included. With them the loop invariant goes through: `failure_count` is the
number of failed elements before `n` (`Counts`), the maxima bound every comparable
error before `n`, and `worst` is the first element that attains the maximum absolute error (`Maxima`).
The theorems do not say that a NaN fails: it does not (see Findings).

### Benchmark

`IInv` says what each variable holds at each program counter as a function of the
number of complete shapes and runs: `Packed` and `Measured` that times and results are
those of the shape and run they are labelled with, `File` that the CSV, once opened,
is a prefix of the rows, `Console` that exactly one verdict per complete shape was
printed, in order, with a FAIL exactly when `all_passed` is false. The properties say
little of this, as they look at the file and at the end of the program. The console is a
sequence that only grows, so a few lemmas about appending are enough and no induction
is needed.

`MedianInv`, proved on top of `IInv`, says that every median on the console is that of
the times of the shape it is printed for. That such a median halves its list
(`MedianHalves`) needs that the list can be sorted at all: `SortingExists` takes the
shortest list that could not be and gets, from the list without its last time, an
order into which that time is inserted (`Insertion`). The least counterexample comes from
well-foundedness of the natural numbers and stands in for an induction.

The same module extends `BenchmarkOptions` too and proves that the options
it accepts satisfy `CommandsAssumption` (`ParserMeetsAssumption`): the theorems about the
two modules compose. `ParserInv` says that each field always holds a legal value, that
the shapes are the squares of the last `--sizes` (`Squares(given)`) or the defaults until
`Accept` replaces them, and that what is accepted has passed the checks. Nothing is
assumed of the numbers in the texts: `Numbers` shows that what `parse_positive_size`
returns is positive also after a wrapped negation, `SquaresOfSizes` that a list of any
length gives shapes. Sizes that equal the defaults (`--sizes 256,512,1024`, as in
`scripts/run_baseline.sh`) still count as given: `custom_sizes` does not tell whether the
shapes differ from the defaults.

### Measuring scripts

A running script is the list of commands it has still to execute, so `IInv` speaks
of this list: `InOrder` that the gate and the system record precede the
measurements, `Prepared` that every command that uses a binary has ahead of it in
the list a ctest with no build between, or finds the binary tested, `Covered` that every
experiment asked for is verified or still in the list, `SameBinary` that nothing
left in the list would replace the binary measured so far, and `Record` that, while
nobody else has touched the worktree, `system-info.txt` is right or still to be
written. The lemmas `ReleasePlan` and `LevelPlan` prove these of the lists of the
scripts for any number of experiments; the `Tail` lemmas carry them over to the rest of
the list when one command is done.

### Model-checked only

- `Terminates` of `ParallelGemm`, `SerialKernels` and `SizeArithmetic`: liveness under
  fairness needs ENABLED, which the prover does not handle.
- The violated properties under Findings, each of which TLC refutes.

## Findings

- `src/verification/verification.cpp:43` tests for excess with `>`: a NaN in C
  passes, while `docs/numerical-verification.md:11` asks for `error <= tolerance`.
- `src/benchmark/benchmark_options.cpp:17`: `std::stoull` throws
  `std::out_of_range` and accepts a minus sign; `benchmark_options.hpp:16`
  promises `std::invalid_argument` for every illegal value.
- `scripts/run_blocking.sh:15` (and the other gated scripts) rewrites `system-info.txt`
  before it measures and keeps older results: after a rerun at a later commit that
  stops in the build or a benchmark, or that asks for fewer experiments, the
  directory holds results of two revisions and names one of them, although
  line 10 says `worktree must be clean so results identify one exact source
  revision`.
- `src/benchmark/benchmark_output.cpp:137`: write errors after opening are not
  noticed; `benchmark_output.hpp:34` says that all runs are written.

## Not modelled

FP32 rounding (values are sequences of products, or in or out of tolerance);
means, GFLOP/s and the layout and labels of console and CSV, which are formulas and
text on data the models keep; a duration of zero, which prints an infinite GFLOP/s;
the random contents of A and B; builds without AVX2 (where the kernels throw).
The kernels are called, as everywhere in the repository, with C distinct from
A and B.

`Benchmark` takes a kernel to compute the same in every run of a shape
(`Computed`). `benchmark_runner.cpp:124` verifies the C of the last run only and gives
every row that verdict; an earlier run that differed from the last one is outside
the model, so `RowsTellTheTruth` could not notice it. That a kernel does not
behave so rests on `NoDataRace` and `AscendingSums`.

`RunBenchmark` of `ExperimentScripts` takes a benchmark that succeeds to have opened its
CSV file, not to have written every row: rows lost to a full disk, as in the finding
about `benchmark_output.cpp:137`, are not told apart in the scripts. So
`FinishedMeansVerified` says that every experiment was verified, not that its file
is complete. `RecordIdentifiesSource` speaks of runs nobody has disturbed: it shows
that the script's own writes into the worktree do not spoil the record, and says nothing
of an edit or commit between the gate, the record and the build, which can.
What holds in spite of them is `OneBinaryPerComparison`.

Of the scripts: two of them at work at once, one directory shared by two scripts, a
developer who discards files while a script writes them, the moment between
reading HEAD and reading the status in `collect_system_info.sh`, and the compiler
flags it copies from the cache of a build directory before cmake configures it.

`generate_*.sh`, `check_isa_boundaries.sh` and `check_style.sh` turn compiler output
and text into other text and keep no state; the tests and the recorded results
were read for the intended behaviour. `gemm.hpp`, `packing.hpp` and the
other headers without a mapped line only declare what the modules model
where it is defined.

Memory is sequentially consistent in the models; as there is no race on C and threads
synchronise by creation and join, the C++ memory model gives the same behaviours.

## Plan

1. Done: `MicroTiles`, `ParallelGemm` and its proofs, `GemmContract`,
   `PackedLayout`, `Packing`, `SerialKernels`, `SizeArithmetic`, `Verification`,
   `BenchmarkTypes`, `BenchmarkOptions`, `Benchmark`, `ExperimentScripts`.
2. Done: the proofs listed above.
3. Left: the cases listed under "Not modelled" that touch state, first the compiler
   flags `collect_system_info.sh` copies from a cache of an earlier configuration.
