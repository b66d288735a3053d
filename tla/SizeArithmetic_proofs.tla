------------------------- MODULE SizeArithmetic_proofs -------------------------
(***************************************************************************)
(* What TLC checks of SizeArithmetic for a std::size_t of eight bits,      *)
(* proved for every width and every size a caller can ask for.             *)
(***************************************************************************)
EXTENDS SizeArithmetic, Tiling_proofs

-------------------------------------------------------------------------------
(* Arithmetic modulo 2^Width *)

LEMMA Limits ==
  /\ Maximum \in Nat \ {0} /\ VectorMaximum \in Nat
  /\ 2 * VectorMaximum < Maximum
<1> DEFINE half == 2 ^ (Width - 1)
<1>1. half \in Nat \ {0} /\ Maximum = 2 * half - 1
  BY PowerAssumption DEF Maximum
<1>2. VectorMaximum = (half - 1) \div ElementSize
  BY DEF VectorMaximum
<1> HIDE DEF half
<1>3. ASSUME NEW a \in Nat, NEW b \in Nat \ {0} PROVE a \div b \in Nat /\ a \div b <= a
  OBVIOUS
<1>4. VectorMaximum \in Nat /\ VectorMaximum <= half - 1
  BY <1>1, <1>2, <1>3, WidthAssumption
<1> QED BY <1>1, <1>4

LEMMA WrapRange ==
  ASSUME NEW a \in Nat
  PROVE  Wrap(a) \in 0 .. Maximum /\ (a <= Maximum => Wrap(a) = a)
<1>1. 2 ^ Width = Maximum + 1 /\ Maximum \in Nat
  BY Limits, PowerAssumption DEF Maximum
<1>2. ASSUME NEW b \in Nat \ {0} PROVE a % b \in 0 .. b - 1 /\ (a < b => a % b = a)
  OBVIOUS
<1> QED BY <1>1, <1>2 DEF Wrap

\* The check by division lets no product pass that would wrap.
LEMMA CheckedProduct ==
  ASSUME NEW a \in Nat, NEW b \in Nat \ {0}, a <= Maximum \div b
  PROVE  a * b \in 0 .. Maximum /\ Wrap(a * b) = a * b
<1> DEFINE q == Maximum \div b
<1>1. q \in Nat /\ q * b <= Maximum
  BY Limits, Division
<1>2. a * b \in Nat /\ a * b <= q * b
  BY <1>1
<1> QED BY <1>1, <1>2, Limits, WrapRange

-------------------------------------------------------------------------------
(* The constructors *)

\* A Matrix that can be constructed has room for its elements.
LEMMA MatrixExact ==
  ASSUME NEW rows \in Nat, NEW cols \in Nat, MatrixFits(rows, cols)
  PROVE  rows * cols <= VectorMaximum /\ rows <= VectorMaximum /\ cols <= VectorMaximum
<1>1. rows \in Nat \ {0} /\ cols \in Nat \ {0} /\ Wrap(rows * cols) = rows * cols
  BY CheckedProduct DEF MatrixFits
<1>2. rows * cols <= VectorMaximum
  BY <1>1 DEF MatrixFits
<1>3. rows <= rows * cols /\ cols <= rows * cols
  BY <1>1
<1> QED BY <1>1, <1>2, <1>3, ProductNat, Limits

\* The same for a PackedB, whose count is the one of the layout.
LEMMA PackedExact ==
  ASSUME NEW rows \in Nat, NEW cols \in Nat, NEW block \in Nat, PackedFits(rows, cols, block)
  PROVE  /\ PackedCount(rows, cols, block)
              = CeilDiv(rows, block) * CeilDiv(cols, block) * block * block
         /\ rows * cols <= PackedCount(rows, cols, block)
         /\ block \in Nat \ {0} /\ block <= VectorMaximum
<1> DEFINE kt == CeilDiv(rows, block)
           nt == CeilDiv(cols, block)
           te == block * block
<1>1. rows \in Nat \ {0} /\ cols \in Nat \ {0} /\ block \in Nat \ {0}
  BY DEF PackedFits
<1>2. /\ kt \in Nat \ {0} /\ rows <= kt * block
      /\ nt \in Nat \ {0} /\ cols <= nt * block
  BY <1>1, CeilDivision
<1>3. te \in Nat \ {0} /\ Wrap(te) = te /\ block <= te
  <2>1. te \in Nat /\ Wrap(te) = te
    BY <1>1, CheckedProduct DEF PackedFits
  <2>2. block <= te
    BY <1>1
  <2> QED BY <1>1, <2>1, <2>2
<1>4. kt * nt \in Nat \ {0} /\ Wrap(kt * nt) = kt * nt
  <2>1. kt <= Maximum \div nt
    BY DEF PackedFits
  <2> HIDE DEF kt, nt
  <2>2. kt * nt \in Nat /\ Wrap(kt * nt) = kt * nt
    BY <1>2, <2>1, CheckedProduct
  <2>3. kt <= kt * nt
    BY <1>2
  <2> QED BY <1>2, <2>2, <2>3
<1>5. PackedCount(rows, cols, block) = kt * nt * te
  <2> DEFINE tiles == kt * nt
  <2>1. tiles <= Maximum \div te
    BY <1>3, <1>4 DEF PackedFits
  <2>2. PackedCount(rows, cols, block) = Wrap(tiles * te)
    BY <1>3, <1>4 DEF PackedCount
  <2>3. tiles \in Nat
    BY <1>4
  <2> HIDE DEF tiles, te
  <2>4. Wrap(tiles * te) = tiles * te
    BY <1>3, <2>1, <2>3, CheckedProduct
  <2> QED BY <2>2, <2>4 DEF tiles
<1>6. kt * nt * te = kt * nt * block * block
  <2>1. ASSUME NEW a \in Nat, NEW b \in Nat PROVE a * (b * b) = a * b * b
    OBVIOUS
  <2> QED BY <1>1, <1>4, <2>1
<1>7. rows * cols <= kt * nt * block * block
  <2>1. kt * block \in Nat /\ nt * block \in Nat
    BY <1>1, <1>2, ProductNat
  <2>2. ASSUME NEW a \in Nat, NEW b \in Nat, NEW c \in Nat, NEW d \in Nat, a <= b, c <= d
        PROVE  a * c <= b * d
    <3>1. a * c <= b * c
      BY <2>2
    <3>2. b * c <= b * d
      BY <2>2
    <3> QED BY <3>1, <3>2, ProductNat
  <2>3. rows * cols <= (kt * block) * (nt * block)
    BY <1>1, <1>2, <2>1, <2>2
  <2>4. ASSUME NEW a \in Nat, NEW b \in Nat, NEW c \in Nat
        PROVE  (a * c) * (b * c) = a * b * c * c
    OBVIOUS
  <2>5. (kt * block) * (nt * block) = kt * nt * block * block
    <3> HIDE DEF kt, nt
    <3> QED BY <1>1, <1>2, <2>4
  <2> QED BY <2>3, <2>5
<1>8. te <= kt * nt * te /\ kt * nt * te \in Nat
  <2>1. ASSUME NEW a \in Nat \ {0}, NEW b \in Nat PROVE b <= a * b /\ a * b \in Nat
    OBVIOUS
  <2> QED BY <1>3, <1>4, <2>1
<1>9. kt * nt * te <= VectorMaximum
  BY <1>5 DEF PackedFits
<1>10. block <= VectorMaximum
  BY <1>1, <1>3, <1>8, <1>9, Limits
<1> QED BY <1>1, <1>5, <1>6, <1>7, <1>10

\* The size the constructor of PackedB allocates is the one the layout needs:
\* what is proved of the layout holds of every PackedB that exists.
THEOREM AllocatesTheLayout ==
  ASSUME NEW s, s.depth \in Nat, s.cols \in Nat, s.block \in Nat,
         PackedFits(s.depth, s.cols, s.block)
  PROVE  IsShape(s) /\ PackedCount(s.depth, s.cols, s.block) = ElementCount(s)
<1>1. IsShape(s)
  BY DEF IsShape, PackedFits
<1>2. ASSUME NEW a \in Nat, NEW b \in Nat PROVE a * (b * b) = a * b * b
  OBVIOUS
<1>3. KTileCount(s) * NTileCount(s) \in Nat
  BY <1>1, LayoutCounts, ProductNat
<1>4. ElementCount(s) = KTileCount(s) * NTileCount(s) * s.block * s.block
  BY <1>1, <1>2, <1>3 DEF ElementCount, TileElements, IsShape
<1> QED BY <1>1, <1>4, PackedExact DEF KTileCount, NTileCount

-------------------------------------------------------------------------------
(* The inductive invariant *)

ArgsTyped ==
  /\ args.m \in 0 .. Maximum /\ args.n \in 0 .. Maximum /\ args.k \in 0 .. Maximum
  /\ args.block \in 0 .. Maximum /\ args.packed \in BOOLEAN

\* Past the constructors all sizes are those of vectors that exist.  x + block_size
\* stays below 2^Width because x and limit lie below half of it, and because the
\* block is either no larger than some x or limit, or added to 0.
WalkInv ==
  /\ x \in 0 .. Maximum /\ limit \in 0 .. VectorMaximum
  /\ pc \in {"choose", "walk", "done"} => Constructible
  /\ pc = "walk" => x = 0 \/ args.block <= x \/ args.block <= VectorMaximum

IInv == ArgsTyped /\ WalkInv

LEMMA Constructed ==
  ASSUME ArgsTyped, Constructible
  PROVE  /\ args.m * args.k <= VectorMaximum /\ args.k * args.n <= VectorMaximum
         /\ args.m * args.n <= VectorMaximum
         /\ args.m <= VectorMaximum /\ args.n <= VectorMaximum /\ args.k <= VectorMaximum
         /\ args.block # 0
         /\ args.packed => args.block <= VectorMaximum
<1>1. args.m \in Nat /\ args.n \in Nat /\ args.k \in Nat /\ args.block \in Nat
  BY Limits DEF ArgsTyped
<1>2. MatrixFits(args.m, args.k) /\ MatrixFits(args.k, args.n) /\ MatrixFits(args.m, args.n)
  BY DEF Constructible
<1>3. args.packed => PackedFits(args.k, args.n, args.block)
  BY DEF Constructible
<1>4. ~args.packed => args.block # 0
  BY DEF Constructible, ArgsTyped
<1> QED BY <1>1, <1>2, <1>3, <1>4, MatrixExact, PackedExact

\* The two sums of a loop pass.
LEMMA NoWrap ==
  ASSUME IInv, pc = "walk", x < limit
  PROVE  /\ NextTileBegin = x + args.block
         /\ x + args.block <= Maximum /\ x < x + args.block
<1>1. /\ x \in 0 .. Maximum /\ limit \in 0 .. VectorMaximum
      /\ args.block \in 0 .. Maximum /\ args.block # 0
      /\ x = 0 \/ args.block <= x \/ args.block <= VectorMaximum
  BY Constructed DEF IInv, WalkInv, ArgsTyped
<1>2. x + args.block \in Nat /\ x + args.block <= Maximum /\ x < x + args.block
  BY <1>1, Limits
<1> QED BY <1>2, WrapRange DEF NextTileBegin

LEMMA InitIInv == Init => IInv
<1> SUFFICES ASSUME Init PROVE IInv
  OBVIOUS
<1>1. args.m \in Sizes /\ args.n \in Sizes /\ args.k \in Sizes /\ args.block \in Blocks
      /\ args.packed \in BOOLEAN
  BY DEF Init
<1>2. ArgsTyped
  BY <1>1, WidthAssumption DEF ArgsTyped, Maximum
<1> QED BY <1>2, Limits DEF Init, IInv, WalkInv

LEMMA InvariantStep == IInv /\ [Next]_vars => IInv'
<1> SUFFICES ASSUME IInv, [Next]_vars PROVE IInv'
  OBVIOUS
<1>1. args' = args /\ ArgsTyped' /\ Constructible' = Constructible
  BY DEF Next, Reject, Construct, WalkAxis, WalkRange, Step, Exit, vars, IInv, ArgsTyped,
     Constructible
<1>2. CASE Reject \/ Construct \/ Exit \/ UNCHANGED vars
  BY <1>1, <1>2 DEF Reject, Construct, Exit, vars, IInv, WalkInv
<1>3. CASE WalkAxis
  <2>1. limit' \in 0 .. VectorMaximum
    BY <1>3, Constructed DEF WalkAxis, IInv, WalkInv, ArgsTyped
  <2> QED BY <1>1, <1>3, <2>1, Limits DEF WalkAxis, IInv, WalkInv
<1>4. CASE WalkRange
  <2>1. PICK first \in 0 .. MicroRowGroups - 1 : \E last \in first + 1 .. MicroRowGroups :
          /\ x' = Wrap(first * MicroRows)
          /\ limit' = Least(Wrap(last * MicroRows), args.m)
    BY <1>4 DEF WalkRange
  <2>2. PICK last \in first + 1 .. MicroRowGroups :
          /\ x' = Wrap(first * MicroRows)
          /\ limit' = Least(Wrap(last * MicroRows), args.m)
    BY <2>1
  <2>3. args.packed /\ Constructible /\ pc = "choose" /\ pc' = "walk"
    BY <1>4 DEF WalkRange, IInv, WalkInv
  <2>4. args.m \in 0 .. VectorMaximum /\ args.block <= VectorMaximum
    BY <2>3, Constructed DEF IInv, ArgsTyped
  <2>5. first \in Nat /\ last \in Nat
    BY <2>1, <2>2
  <2>6. first * MicroRows \in Nat /\ last * MicroRows \in Nat
    BY <2>5, ProductNat, MicroShapeAssumption
  <2>7. x' \in 0 .. Maximum
    BY <2>2, <2>6, WrapRange
  <2>8. Wrap(last * MicroRows) \in Nat
    BY <2>6, WrapRange
  <2>9. limit' \in 0 .. VectorMaximum
    <3>1. ASSUME NEW a \in Nat, NEW b \in 0 .. VectorMaximum PROVE Least(a, b) \in 0 .. VectorMaximum
      BY Limits DEF Least
    <3> QED BY <2>2, <2>4, <2>8, <3>1
  <2> QED BY <1>1, <2>3, <2>4, <2>7, <2>9 DEF IInv, WalkInv
<1>5. CASE Step
  <2>1. /\ pc = "walk" /\ pc' = pc /\ x < limit /\ limit' = limit /\ x' = NextTileBegin
    BY <1>5 DEF Step
  <2>2. x' = x + args.block /\ x' \in 0 .. Maximum /\ args.block <= x'
    BY <2>1, NoWrap, Limits DEF IInv, WalkInv, ArgsTyped
  <2> QED BY <1>1, <2>1, <2>2 DEF IInv, WalkInv
<1> QED BY <1>2, <1>3, <1>4, <1>5 DEF Next

LEMMA Invariance == Spec => []IInv
<1> QED BY InitIInv, InvariantStep, PTL DEF Spec

-------------------------------------------------------------------------------
(* The properties *)

\* No product of the constructors wraps, whatever the width of std::size_t and
\* the sizes asked for: what is constructed has room for all its elements.
THEOREM NoProductWraps == Spec => []SizesExact
<1>1. IInv => SizesExact
  <2> SUFFICES ASSUME IInv, pc \in {"choose", "walk", "done"} PROVE SizesExact
    BY DEF SizesExact
  <2>1. ArgsTyped /\ Constructible /\ args.k \in Nat /\ args.n \in Nat /\ args.block \in Nat
    BY Limits DEF IInv, WalkInv, ArgsTyped
  <2>2. args.packed => PackedFits(args.k, args.n, args.block)
    BY <2>1 DEF Constructible
  <2> QED BY <2>1, <2>2, Constructed, PackedExact DEF SizesExact
<1> QED BY Invariance, <1>1, PTL

\* The unchecked sums of the tile loops never wrap either, for every block size
\* that passes the constructors, also the largest std::size_t.
THEOREM NoTileWraps == Spec => []TileLoopsDoNotWrap
<1>1. IInv => TileLoopsDoNotWrap
  <2> SUFFICES ASSUME IInv, pc = "walk", x < limit
               PROVE  TileEnd > x /\ (TileEnd = limit \/ NextTileBegin = TileEnd)
    BY DEF TileLoopsDoNotWrap
  <2>1. /\ NextTileBegin = x + args.block /\ x < x + args.block
        /\ x \in Int /\ limit \in Int /\ args.block \in Int
    BY NoWrap DEF IInv, WalkInv, ArgsTyped
  <2>2. TileEnd = Least(NextTileBegin, limit)
    BY DEF TileEnd, NextTileBegin
  <2> QED BY <2>1, <2>2 DEF Least
<1> QED BY Invariance, <1>1, PTL
===============================================================================
