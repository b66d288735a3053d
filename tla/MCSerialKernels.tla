---------------------------- MODULE MCSerialKernels ----------------------------
(* All six kernels on small problems with 2 x 2 micro-tiles: dimensions below,*)
(* at and above the block and the micro-tile, short edges on every axis.      *)
EXTENDS SerialKernels

MCCalls ==
  [kernel : Kernels, rows : {1, 3, 4}, cols : {1, 2, 5}, depth : {1, 3, 4},
   block : {1, 2, 3, 7}, matching : {TRUE}, cpu : {TRUE}]
  \cup
  {r \in [kernel : Kernels, rows : {2}, cols : {2}, depth : {2},
          block : {0, 2}, matching : BOOLEAN, cpu : BOOLEAN] :
     r.kernel \in Packed => r.block # 0}
===============================================================================
