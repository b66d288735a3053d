------------------------------- MODULE MCPacking -------------------------------
(* Packing on shapes with exact and short tiles on both axes, with blocks    *)
(* smaller and larger than B, each buffer packed three times over.           *)
EXTENDS Packing

MCShapes == [depth : 1 .. 4, cols : 1 .. 5, block : {1, 2, 3, 6}]
===============================================================================
