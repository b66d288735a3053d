---------------------------- MODULE SizeArithmetic ----------------------------
(***************************************************************************)
(* The std::size_t arithmetic of the library, which wraps at 2^Width: the  *)
(* overflow checks of the constructors of Matrix and PackedB, and the tile *)
(* loops "x += block_size" with "min(x + block_size, limit)", which have   *)
(* no check of their own.  A caller constructs A, B and C, and a PackedB   *)
(* when the kernel wants one, with any sizes; then one axis of a kernel is *)
(* walked, either the whole axis or, for the threaded kernel, the rows     *)
(* from the first one of some worker.                                      *)
(***************************************************************************)
EXTENDS PackedLayout, MicroTiles

CONSTANTS
  Width,       \* bits of std::size_t, 64 in the code
  ElementSize, \* sizeof(float)
  Sizes,       \* the sizes M, N, K asked for
  Blocks       \* the block sizes asked for

ASSUME WidthAssumption ==
  /\ Width \in Nat \ {0} /\ ElementSize \in Nat \ {0}
  /\ Sizes \subseteq 0 .. 2 ^ Width - 1
  /\ Blocks \subseteq 0 .. 2 ^ Width - 1

\* A law of powers that holds for every Width; the proofs need it as a fact,
\* because the provers know nothing of exponents.
ASSUME PowerAssumption == 2 ^ (Width - 1) \in Nat \ {0} /\ 2 ^ Width = 2 * 2 ^ (Width - 1)

Maximum == 2 ^ Width - 1
Wrap(x) == x % 2 ^ Width

\* std::vector<float>::max_size(): half the address space.
VectorMaximum == (2 ^ (Width - 1) - 1) \div ElementSize

\* (The definitions named Slip... below are plausible mistakes in the definition
\* after them.  No specification uses them; they show which property notices.)

VARIABLES
  args,  \* m, n, k, block, and whether the kernel wants a PackedB
  pc,    \* "construct", "choose", "walk", "done" or "rejected"
  limit, \* end of the walked axis
  x      \* the loop variable ii, jj or kk

vars == <<args, pc, limit, x>>

Init ==
  /\ args \in [m : Sizes, n : Sizes, k : Sizes, block : Blocks, packed : BOOLEAN]
  /\ pc = "construct"
  /\ limit = 0
  /\ x = 0
-------------------------------------------------------------------------------
\* Matrix::Matrix: the check by division, then resize, which refuses more than
\* max_size() elements.
SlipProductCheck(rows, cols) ==
  /\ rows # 0 /\ cols # 0
  /\ Wrap(rows * cols) <= VectorMaximum

MatrixFits(rows, cols) ==
  /\ rows # 0 /\ cols # 0
  /\ rows <= Maximum \div cols
  /\ Wrap(rows * cols) <= VectorMaximum

\* checked_packed_element_count.
PackedCount(rows, cols, block) ==
  Wrap(Wrap(CeilDiv(rows, block) * CeilDiv(cols, block)) * Wrap(block * block))

SlipNoTileCheck(rows, cols, block) ==
  /\ rows # 0 /\ cols # 0 /\ block # 0
  /\ LET tiles == Wrap(CeilDiv(rows, block) * CeilDiv(cols, block))
         tileElements == Wrap(block * block)
     IN  tileElements # 0 => tiles <= Maximum \div tileElements
  /\ PackedCount(rows, cols, block) <= VectorMaximum

PackedFits(rows, cols, block) ==
  /\ rows # 0 /\ cols # 0 /\ block # 0
  /\ block <= Maximum \div block
  /\ LET tiles == Wrap(CeilDiv(rows, block) * CeilDiv(cols, block))
     IN  /\ CeilDiv(rows, block) <= Maximum \div CeilDiv(cols, block)
         /\ tiles <= Maximum \div Wrap(block * block)
  /\ PackedCount(rows, cols, block) <= VectorMaximum

Constructible ==
  /\ MatrixFits(args.m, args.k) /\ MatrixFits(args.k, args.n) /\ MatrixFits(args.m, args.n)
  /\ IF args.packed THEN PackedFits(args.k, args.n, args.block) ELSE args.block # 0

Reject ==
  /\ pc = "construct"
  /\ ~Constructible
  /\ pc' = "rejected"
  /\ UNCHANGED <<args, limit, x>>

Construct ==
  /\ pc = "construct"
  /\ Constructible
  /\ pc' = "choose"
  /\ UNCHANGED <<args, limit, x>>

\* A loop over the whole of an axis.
WalkAxis ==
  /\ pc = "choose"
  /\ limit' \in {args.m, args.n, args.k}
  /\ x' = 0
  /\ pc' = "walk"
  /\ UNCHANGED args

\* The row loop of a worker that has got the groups from first to last - 1.
MicroRowGroups == Wrap(args.m + MicroRows - 1) \div MicroRows

WalkRange ==
  /\ pc = "choose"
  /\ args.packed
  /\ \E first \in 0 .. MicroRowGroups - 1 : \E last \in first + 1 .. MicroRowGroups :
       /\ x' = Wrap(first * MicroRows)
       /\ limit' = Least(Wrap(last * MicroRows), args.m)
  /\ pc' = "walk"
  /\ UNCHANGED args

\* The tile at x ends at min(x + block_size, limit).
TileEnd == Least(Wrap(x + args.block), limit)

SlipLateStep == Wrap(x + args.block - 1)
NextTileBegin == Wrap(x + args.block)

Step ==
  /\ pc = "walk"
  /\ x < limit
  /\ x' = NextTileBegin
  /\ UNCHANGED <<args, pc, limit>>

Exit ==
  /\ pc = "walk"
  /\ x >= limit
  /\ pc' = "done"
  /\ UNCHANGED <<args, limit, x>>

Next == Reject \/ Construct \/ WalkAxis \/ WalkRange \/ Step \/ Exit

Spec == Init /\ [][Next]_vars
FairSpec == Spec /\ WF_vars(Next)
-------------------------------------------------------------------------------
\* A constructed Matrix or PackedB has room for as many elements as its
\* dimensions say: no product in the constructors has wrapped.
SizesExact ==
  pc \in {"choose", "walk", "done"} =>
    /\ args.m * args.k <= VectorMaximum /\ args.k * args.n <= VectorMaximum
    /\ args.m * args.n <= VectorMaximum
    /\ args.packed =>
         /\ PackedCount(args.k, args.n, args.block)
              = CeilDiv(args.k, args.block) * CeilDiv(args.n, args.block) * args.block * args.block
         /\ args.k * args.n <= PackedCount(args.k, args.n, args.block)

\* The unchecked additions of the tile loops never wrap, whatever the block
\* size is (gemm_blocked takes any): a tile is never empty or behind its begin.
TileLoopsDoNotWrap ==
  pc = "walk" /\ x < limit =>
    /\ TileEnd > x
    /\ TileEnd = limit \/ NextTileBegin = TileEnd

\* So every loop ends.
Terminates == <>(pc \in {"done", "rejected"})
===============================================================================
