------------------------------- MODULE SizeMath --------------------------------
(***************************************************************************)
(* The two helpers of the size computations of the library.                *)
(***************************************************************************)
EXTENDS Integers

\* std::min
Least(a, b) == IF a <= b THEN a ELSE b

\* ceil_div
CeilDiv(value, divisor) ==
  value \div divisor + (IF value % divisor # 0 THEN 1 ELSE 0)
===============================================================================
