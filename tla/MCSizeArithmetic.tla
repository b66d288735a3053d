--------------------------- MODULE MCSizeArithmetic ---------------------------
(* size_t of 8 bits: a vector holds at most 31 floats.  Sizes lie around 0,  *)
(* the micro rows, the vector limit, the square root and the half of the     *)
(* range and its maximum (the 2^64 - 1 that a caller may pass).              *)
EXTENDS SizeArithmetic

MCSizes == {0, 1, 2, 3, 5, 8, 15, 16, 17, 31, 32, 64, 128, 255}
MCBlocks == {0, 1, 2, 3, 5, 6, 15, 16, 17, 32, 127, 128, 254, 255}
===============================================================================
