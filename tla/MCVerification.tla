---------------------------- MODULE MCVerification ----------------------------
(* Three elements; tolerance 1 + |reference| / 4.  The finite cells lie at,  *)
(* just below and just above the tolerance, for a zero, a small and a large  *)
(* reference of both signs.                                                  *)
EXTENDS Verification

MCCells ==
  {[reference |-> 0, actual |-> v] : v \in {Finite(0, 1), Finite(-1, 1), Finite(3, 2), NaN, Infinity}}
  \cup
  {[reference |-> 4, actual |-> v] : v \in {Finite(6, 1), Finite(7, 1), NaN}}
  \cup
  {[reference |-> -40, actual |-> v] : v \in {Finite(-51, 1), Finite(-30, 1), Infinity}}
===============================================================================
