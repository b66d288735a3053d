----------------------------- MODULE GemmContract -----------------------------
(***************************************************************************)
(* What every GEMM kernel promises its caller, whatever loops or threads   *)
(* it uses inside.  elements are the elements of C, product the ones that  *)
(* already hold the value of A*B; the others hold what C held before the   *)
(* call.  A call that is rejected leaves C as it was; one that fails after *)
(* validation may leave C partly computed; one that returns has computed   *)
(* all of it; and after the call nobody writes C any more.                 *)
(***************************************************************************)
EXTENDS Naturals

VARIABLES elements, product, outcome

contractVars == <<elements, product, outcome>>

ContractInit ==
  /\ elements # {}
  /\ product = {}
  /\ outcome = "running"

\* Some elements get their value; none loses it, none is computed elsewhere.
ContractCompute ==
  /\ outcome = "running"
  /\ product \subseteq product'
  /\ product' \subseteq elements
  /\ UNCHANGED <<elements, outcome>>

ContractReject ==
  /\ outcome = "running"
  /\ product = {}
  /\ outcome' = "rejected"
  /\ UNCHANGED <<elements, product>>

ContractFail ==
  /\ outcome = "running"
  /\ outcome' = "failed"
  /\ UNCHANGED <<elements, product>>

ContractReturn ==
  /\ outcome = "running"
  /\ product = elements
  /\ outcome' = "returned"
  /\ UNCHANGED <<elements, product>>

ContractNext ==
  \/ ContractCompute
  \/ ContractReject
  \/ ContractFail
  \/ ContractReturn

ContractSpec == ContractInit /\ [][ContractNext]_contractVars
===============================================================================
