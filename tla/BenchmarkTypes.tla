---------------------------- MODULE BenchmarkTypes ----------------------------
(***************************************************************************)
(* The kernel registry and the options record of gemm_benchmark, shared by *)
(* the parser (BenchmarkOptions) and the program it configures (Benchmark).*)
(***************************************************************************)
EXTENDS Integers, Sequences

CONSTANT IntMax \* std::numeric_limits<int>::max()

ASSUME IntMaxAssumption == IntMax \in Nat /\ IntMax >= 7

\* kKernelDescriptors: the names in the order of the registry and their flags.
KernelNames == <<"naive", "ikj", "blocked", "packed", "micro", "avx2", "avx2-mt">>
Kernels == {KernelNames[x] : x \in DOMAIN KernelNames}

\* (A plausible mistake in the definition after it, which no specification uses.)
SlipUnflagged(kernel) == kernel \in {"packed", "micro", "avx2"}
UsesPackedB(kernel) == kernel \in {"packed", "micro", "avx2", "avx2-mt"}
SupportsThreads(kernel) == kernel = "avx2-mt"

\* The default member initializers of struct Options.
DefaultShapes == <<<<256, 256, 256>>, <<512, 512, 512>>, <<1024, 1024, 1024>>>>

DefaultOptions ==
  [repeats |-> 7, shapes |-> DefaultShapes, csv_path |-> "", kernel |-> "naive",
   block_size |-> 32, thread_count |-> 1, verify_results |-> TRUE]

\* The options main() may hand to the benchmark.
Admissible(o) ==
  /\ o.repeats \in 1 .. IntMax
  /\ o.shapes # <<>>
  /\ \A x \in DOMAIN o.shapes : \A d \in 1 .. 3 : o.shapes[x][d] > 0
  /\ o.kernel \in Kernels
  /\ o.block_size > 0 /\ o.thread_count > 0
  /\ o.thread_count # 1 => SupportsThreads(o.kernel)
  /\ o.csv_path # "" => o.verify_results
===============================================================================
