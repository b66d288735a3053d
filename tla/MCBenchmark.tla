------------------------------ MODULE MCBenchmark ------------------------------
(* One to three shapes, one to three runs, kernels with and without a PackedB *)
(* and with and without threads, with and without CSV and verification.       *)
EXTENDS Benchmark

MCCommands ==
  {o \in [repeats : 1 .. 3, shapes : {[x \in 1 .. n |-> <<x, x, x>>] : n \in 1 .. 3},
          csv_path : {"", "out.csv"}, kernel : {"ikj", "packed", "avx2-mt"},
          block_size : {32}, thread_count : {1, 2}, verify_results : BOOLEAN] :
     Admissible(o)}

\* Distinct durations out of order, and durations with ties.
MCClocks == {<<3, 1, 2, 5, 4>>, <<2, 2, 1, 3, 1, 2, 2>>}
===============================================================================
