---------------------------- MODULE MCParallelGemm ----------------------------
(* ParallelGemm on small problems.  Micro-tiles are 2 x 2, so that 1 to 7    *)
(* rows give one to four row groups with and without a short last group, 1   *)
(* and 3 columns give short and full column tiles, and the block sizes are   *)
(* smaller than a micro-tile, equal to it, a multiple of it, no multiple of  *)
(* it, and larger than the matrix.                                           *)
EXTENDS ParallelGemm

MaxRows == 7
MaxThreads == 4

MCCalls ==
  [rows : 1 .. MaxRows, cols : {1, 3}, block : {1, 2, 3, 4, 9},
   threads : 1 .. MaxThreads, matching : {TRUE}, cpu : {TRUE}]
  \cup
  [rows : {3}, cols : {1}, block : {2},
   threads : {0, 2}, matching : BOOLEAN, cpu : BOOLEAN]
===============================================================================
