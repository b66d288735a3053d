----------------------------- MODULE Tiling_proofs -----------------------------
(***************************************************************************)
(* Facts about the two modules the kernels share, for every shape, block   *)
(* size and micro-tile.  The tile-major layout: what pack_b writes and     *)
(* what the kernels read are the same addresses, no two elements of B      *)
(* share one, and all of them lie inside the buffer.  The walk over the    *)
(* micro-tiles: it stores every element of its range once.                 *)
(***************************************************************************)
EXTENDS PackedLayout, MicroTiles, TLAPS

-------------------------------------------------------------------------------
(* Arithmetic *)

\* Euclidean division, as std::size_t / and % compute it.
LEMMA Division ==
  ASSUME NEW a \in Nat, NEW b \in Nat \ {0}
  PROVE  /\ a \div b \in Nat
         /\ a % b \in 0 .. b - 1
         /\ a = (a \div b) * b + (a % b)
OBVIOUS

LEMMA ProductNat ==
  ASSUME NEW a \in Nat, NEW b \in Nat
  PROVE  a * b \in Nat
OBVIOUS

\* A product grows with its first factor, by at least the second.
LEMMA ProductStep ==
  ASSUME NEW a \in Nat, NEW b \in Nat, NEW c \in Nat, a < b
  PROVE  a * c + c <= b * c
OBVIOUS

\* Quotient and remainder are determined by a = q * b + r.
LEMMA DivisionUnique ==
  ASSUME NEW q \in Nat, NEW p \in Nat, NEW b \in Nat \ {0},
         NEW r \in 0 .. b - 1, NEW t \in 0 .. b - 1,
         q * b + r = p * b + t
  PROVE  q = p /\ r = t
<1>1. q * b \in Nat /\ p * b \in Nat
  BY ProductNat
<1>2. ~(q < p)
  <2>1. q < p => q * b + b <= p * b
    BY ProductStep
  <2> QED BY <1>1, <2>1
<1>3. ~(p < q)
  <2>1. p < q => p * b + b <= q * b
    BY ProductStep
  <2> QED BY <1>1, <2>1
<1>4. q = p
  BY <1>2, <1>3
<1> QED BY <1>1, <1>4

LEMMA DivisionOf ==
  ASSUME NEW q \in Nat, NEW b \in Nat \ {0}, NEW r \in 0 .. b - 1
  PROVE  (q * b + r) \div b = q /\ (q * b + r) % b = r
<1>1. q * b \in Nat
  BY ProductNat
<1> DEFINE a == q * b + r
           p == a \div b
           t == a % b
<1>2. a \in Nat
  BY <1>1
<1>3. p \in Nat /\ t \in 0 .. b - 1 /\ q * b + r = p * b + t
  BY <1>2, Division
<1> HIDE DEF p, t
<1>4. q = p /\ r = t
  BY <1>3, DivisionUnique
<1> QED BY <1>4 DEF p, t

\* A position d in the tile that begins at the multiple x of the tile size.
LEMMA InTileOf ==
  ASSUME NEW x \in Nat, NEW b \in Nat \ {0}, x % b = 0, NEW d \in 0 .. b - 1
  PROVE  /\ (x + d) \div b = x \div b /\ (x + d) % b = d
         /\ x \div b \in Nat
<1> DEFINE q == x \div b
<1>1. q \in Nat /\ x = q * b
  <2>1. q \in Nat /\ x = q * b + (x % b)
    BY Division
  <2> QED BY <2>1
<1> HIDE DEF q
<1>2. x + d = q * b + d
  BY <1>1
<1>3. (q * b + d) \div b = q /\ (q * b + d) % b = d
  BY <1>1, DivisionOf
<1> QED BY <1>1, <1>2, <1>3 DEF q

\* The next tile corner after a tile corner.
LEMMA NextMultiple ==
  ASSUME NEW x \in Nat, NEW b \in Nat \ {0}, x % b = 0
  PROVE  (x + b) % b = 0
<1> DEFINE q == x \div b
<1>1. q \in Nat /\ x = q * b
  <2>1. q \in Nat /\ x = q * b + (x % b)
    BY Division
  <2> QED BY <2>1
<1> HIDE DEF q
<1>2. x + b = (q + 1) * b + 0 /\ q + 1 \in Nat
  BY <1>1
<1>3. ((q + 1) * b + 0) % b = 0
  <2>1. q + 1 \in Nat /\ 0 \in 0 .. b - 1
    BY <1>1
  <2> QED BY <2>1, DivisionOf
<1> QED BY <1>2, <1>3

\* A number in base b: inside its range, and different digits make it different.
LEMMA PairRange ==
  ASSUME NEW m \in Nat, NEW b \in Nat, NEW q \in 0 .. m - 1, NEW r \in 0 .. b - 1
  PROVE  q * b + r \in 0 .. m * b - 1
<1>1. q * b + b <= m * b /\ q * b \in Nat /\ m * b \in Nat
  BY ProductStep, ProductNat
<1> QED BY <1>1

\* ceil_div is the number of tiles: they cover the axis and none is empty.
LEMMA CeilDivision ==
  ASSUME NEW a \in Nat \ {0}, NEW b \in Nat \ {0}
  PROVE  /\ CeilDiv(a, b) \in Nat \ {0}
         /\ a <= CeilDiv(a, b) * b
         /\ \A x \in 0 .. a - 1 : x \div b \in 0 .. CeilDiv(a, b) - 1
<1> DEFINE q == a \div b
           r == a % b
           c == CeilDiv(a, b)
<1>1. q \in Nat /\ r \in 0 .. b - 1 /\ a = q * b + r
  BY Division
<1>2. c = q + IF r # 0 THEN 1 ELSE 0
  BY DEF CeilDiv
<1> HIDE DEF q, r, c
<1>3. c \in Nat
  BY <1>1, <1>2
<1>4. a <= c * b
  <2>1. CASE r = 0
    BY <1>1, <1>2, <2>1
  <2>2. CASE r # 0
    <3>1. c * b = q * b + b
      BY <1>1, <1>2, <2>2
    <3> QED BY <1>1, <3>1, ProductNat
  <2> QED BY <2>1, <2>2
<1>5. c # 0
  <2>1. c = 0 => c * b = 0
    OBVIOUS
  <2> QED BY <1>4, <2>1
<1>6. ASSUME NEW x \in 0 .. a - 1 PROVE x \div b \in 0 .. c - 1
  <2>1. x \div b \in Nat /\ x = (x \div b) * b + (x % b) /\ x % b \in 0 .. b - 1
    BY Division
  <2> DEFINE y == x \div b
  <2>2. y \in Nat /\ y * b \in Nat /\ c * b \in Nat /\ y * b < c * b
    BY <1>3, <1>4, <2>1, ProductNat
  <2> HIDE DEF y
  <2>3. ~(c <= y)
    <3>1. c < y => c * b + b <= y * b
      BY <1>3, <2>2, ProductStep
    <3>2. c = y => c * b = y * b
      OBVIOUS
    <3> QED BY <1>3, <2>2, <3>1, <3>2
  <2> QED BY <1>3, <2>2, <2>3 DEF y
<1> QED BY <1>3, <1>4, <1>5, <1>6 DEF c

-------------------------------------------------------------------------------
(* The layout *)

\* A shape a PackedB can be constructed with.
IsShape(s) == s.depth \in Nat \ {0} /\ s.cols \in Nat \ {0} /\ s.block \in Nat \ {0}

LEMMA LayoutCounts ==
  ASSUME NEW s, IsShape(s)
  PROVE  /\ KTileCount(s) \in Nat \ {0} /\ NTileCount(s) \in Nat \ {0}
         /\ TileElements(s) \in Nat \ {0} /\ ElementCount(s) \in Nat
<1>1. KTileCount(s) \in Nat \ {0} /\ NTileCount(s) \in Nat \ {0}
  BY CeilDivision DEF IsShape, KTileCount, NTileCount
<1>2. TileElements(s) \in Nat \ {0}
  <2>1. s.block * s.block >= s.block
    BY DEF IsShape
  <2> QED BY <2>1, ProductNat DEF IsShape, TileElements
<1>3. KTileCount(s) * NTileCount(s) \in Nat
  BY <1>1, ProductNat
<1>4. ElementCount(s) \in Nat
  BY <1>2, <1>3, ProductNat DEF ElementCount
<1> QED BY <1>1, <1>2, <1>4

\* The digits of an offset: tile of K, tile of N, row and column in the tile.
TileOffset(kt, jt, r, c, s) == (kt * NTileCount(s) + jt) * TileElements(s) + (r * s.block + c)

LEMMA OffsetRange ==
  ASSUME NEW s, IsShape(s),
         NEW kt \in 0 .. KTileCount(s) - 1, NEW jt \in 0 .. NTileCount(s) - 1,
         NEW r \in 0 .. s.block - 1, NEW c \in 0 .. s.block - 1
  PROVE  TileOffset(kt, jt, r, c, s) \in 0 .. ElementCount(s) - 1
<1>1. /\ KTileCount(s) \in Nat /\ NTileCount(s) \in Nat /\ TileElements(s) \in Nat
      /\ s.block \in Nat
  BY LayoutCounts DEF IsShape
<1>2. r * s.block + c \in 0 .. TileElements(s) - 1
  BY <1>1, PairRange DEF TileElements
<1>3. kt * NTileCount(s) + jt \in 0 .. KTileCount(s) * NTileCount(s) - 1
  BY <1>1, PairRange
<1>4. KTileCount(s) * NTileCount(s) \in Nat
  BY <1>1, ProductNat
<1> QED BY <1>1, <1>2, <1>3, <1>4, PairRange DEF TileOffset, ElementCount

LEMMA OffsetInjective ==
  ASSUME NEW s, IsShape(s),
         NEW kt \in 0 .. KTileCount(s) - 1, NEW jt \in 0 .. NTileCount(s) - 1,
         NEW r \in 0 .. s.block - 1, NEW c \in 0 .. s.block - 1,
         NEW ku \in 0 .. KTileCount(s) - 1, NEW ju \in 0 .. NTileCount(s) - 1,
         NEW q \in 0 .. s.block - 1, NEW d \in 0 .. s.block - 1,
         TileOffset(kt, jt, r, c, s) = TileOffset(ku, ju, q, d, s)
  PROVE  kt = ku /\ jt = ju /\ r = q /\ c = d
<1>1. /\ KTileCount(s) \in Nat \ {0} /\ NTileCount(s) \in Nat \ {0}
      /\ TileElements(s) \in Nat \ {0} /\ s.block \in Nat \ {0}
  BY LayoutCounts DEF IsShape
<1>2. r * s.block + c \in 0 .. TileElements(s) - 1 /\ q * s.block + d \in 0 .. TileElements(s) - 1
  BY <1>1, PairRange DEF TileElements
<1>3. kt * NTileCount(s) + jt \in Nat /\ ku * NTileCount(s) + ju \in Nat
  BY <1>1, ProductNat
<1>4. kt * NTileCount(s) + jt = ku * NTileCount(s) + ju /\ r * s.block + c = q * s.block + d
  <2> DEFINE T == kt * NTileCount(s) + jt
             U == ku * NTileCount(s) + ju
             x == r * s.block + c
             y == q * s.block + d
  <2>1. T * TileElements(s) + x = U * TileElements(s) + y
    BY DEF TileOffset
  <2> HIDE DEF T, U, x, y
  <2>2. T = U /\ x = y
    <3>1. T \in Nat /\ U \in Nat /\ x \in 0 .. TileElements(s) - 1 /\ y \in 0 .. TileElements(s) - 1
      BY <1>2, <1>3 DEF T, U, x, y
    <3> QED BY <1>1, <2>1, <3>1, DivisionUnique
  <2> QED BY <2>2 DEF T, U, x, y
<1>5. kt = ku /\ jt = ju
  BY <1>1, <1>4, DivisionUnique
<1>6. r = q /\ c = d
  BY <1>1, <1>4, DivisionUnique
<1> QED BY <1>5, <1>6

\* The address formula of docs/experiments/phase1-packing.md in these digits.
LEMMA DocumentedOffset ==
  ASSUME NEW s, IsShape(s), NEW k \in 0 .. s.depth - 1, NEW j \in 0 .. s.cols - 1
  PROVE  /\ DocumentedIndex(k, j, s)
              = TileOffset(k \div s.block, j \div s.block, k % s.block, j % s.block, s)
         /\ k \div s.block \in 0 .. KTileCount(s) - 1 /\ j \div s.block \in 0 .. NTileCount(s) - 1
         /\ k % s.block \in 0 .. s.block - 1 /\ j % s.block \in 0 .. s.block - 1
<1>1. k \div s.block \in 0 .. KTileCount(s) - 1 /\ j \div s.block \in 0 .. NTileCount(s) - 1
  BY CeilDivision DEF IsShape, KTileCount, NTileCount
<1>2. k % s.block \in 0 .. s.block - 1 /\ j % s.block \in 0 .. s.block - 1
  <2>1. ASSUME NEW x \in Nat PROVE x % s.block \in 0 .. s.block - 1
    BY Division DEF IsShape
  <2> QED BY <2>1
<1>3. ASSUME NEW T \in Nat, NEW b \in Nat, NEW x \in Nat, NEW y \in Nat
      PROVE  T * b * b + x * b + y = T * (b * b) + (x * b + y)
  BY ProductNat
<1>4. (k \div s.block) * NTileCount(s) + j \div s.block \in Nat
  BY <1>1, LayoutCounts, ProductNat
<1> QED BY <1>1, <1>2, <1>3, <1>4 DEF DocumentedIndex, TileOffset, NTileCount, TileElements, IsShape

\* Every element of B has an address of its own in the buffer.
THEOREM LayoutInjective ==
  ASSUME NEW s, IsShape(s), NEW e \in BElements(s), NEW f \in BElements(s)
  PROVE  /\ DocumentedIndex(e[1], e[2], s) \in 0 .. ElementCount(s) - 1
         /\ DocumentedIndex(e[1], e[2], s) = DocumentedIndex(f[1], f[2], s) => e = f
<1>1. /\ e[1] \in 0 .. s.depth - 1 /\ e[2] \in 0 .. s.cols - 1 /\ e = <<e[1], e[2]>>
      /\ f[1] \in 0 .. s.depth - 1 /\ f[2] \in 0 .. s.cols - 1 /\ f = <<f[1], f[2]>>
  BY DEF BElements
<1>2. DocumentedIndex(e[1], e[2], s) \in 0 .. ElementCount(s) - 1
  BY <1>1, DocumentedOffset, OffsetRange
<1>3. ASSUME DocumentedIndex(e[1], e[2], s) = DocumentedIndex(f[1], f[2], s) PROVE e = f
  <2>1. /\ e[1] \div s.block = f[1] \div s.block /\ e[1] % s.block = f[1] % s.block
        /\ e[2] \div s.block = f[2] \div s.block /\ e[2] % s.block = f[2] % s.block
    <3> DEFINE kt == e[1] \div s.block
               jt == e[2] \div s.block
               r == e[1] % s.block
               c == e[2] % s.block
               ku == f[1] \div s.block
               ju == f[2] \div s.block
               q == f[1] % s.block
               d == f[2] % s.block
    <3>1. /\ DocumentedIndex(e[1], e[2], s) = TileOffset(kt, jt, r, c, s)
          /\ kt \in 0 .. KTileCount(s) - 1 /\ jt \in 0 .. NTileCount(s) - 1
          /\ r \in 0 .. s.block - 1 /\ c \in 0 .. s.block - 1
      BY <1>1, DocumentedOffset
    <3>2. /\ DocumentedIndex(f[1], f[2], s) = TileOffset(ku, ju, q, d, s)
          /\ ku \in 0 .. KTileCount(s) - 1 /\ ju \in 0 .. NTileCount(s) - 1
          /\ q \in 0 .. s.block - 1 /\ d \in 0 .. s.block - 1
      BY <1>1, DocumentedOffset
    <3> HIDE DEF kt, jt, r, c, ku, ju, q, d
    <3>3. TileOffset(kt, jt, r, c, s) = TileOffset(ku, ju, q, d, s)
      BY <1>3, <3>1, <3>2
    <3>4. kt = ku /\ jt = ju /\ r = q /\ c = d
      BY <3>1, <3>2, <3>3, OffsetInjective
    <3> QED BY <3>4 DEF kt, jt, r, c, ku, ju, q, d
  <2>2. ASSUME NEW x \in Nat, NEW y \in Nat,
               x \div s.block = y \div s.block, x % s.block = y % s.block
        PROVE  x = y
    <3>1. x = (x \div s.block) * s.block + (x % s.block)
      BY Division DEF IsShape
    <3>2. y = (y \div s.block) * s.block + (y % s.block)
      BY Division DEF IsShape
    <3> QED BY <2>2, <3>1, <3>2
  <2>3. e[1] \in Nat /\ e[2] \in Nat /\ f[1] \in Nat /\ f[2] \in Nat
    BY <1>1
  <2> QED BY <1>1, <2>1, <2>2, <2>3
<1> QED BY <1>2, <1>3

\* The address pack_b and the kernels compute from a tile corner is the
\* documented one of the element they mean.
THEOREM IndexAgrees ==
  ASSUME NEW s, IsShape(s),
         NEW kk \in Nat, kk % s.block = 0, NEW k \in 0 .. s.block - 1, kk + k < s.depth,
         NEW jj \in Nat, jj % s.block = 0, NEW j \in 0 .. s.block - 1, jj + j < s.cols
  PROVE  PackedIndex(kk, k, jj, j, s) = DocumentedIndex(kk + k, jj + j, s)
<1>1. ASSUME NEW x \in Nat, x % s.block = 0, NEW d \in 0 .. s.block - 1
      PROVE  (x + d) \div s.block = x \div s.block /\ (x + d) % s.block = d
  BY <1>1, InTileOf DEF IsShape
<1>2. /\ (kk + k) \div s.block = kk \div s.block /\ (kk + k) % s.block = k
      /\ (jj + j) \div s.block = jj \div s.block /\ (jj + j) % s.block = j
  BY <1>1
<1>3. kk + k \in 0 .. s.depth - 1 /\ jj + j \in 0 .. s.cols - 1
  BY DEF IsShape
<1>4. DocumentedIndex(kk + k, jj + j, s) = TileOffset(kk \div s.block, jj \div s.block, k, j, s)
  BY <1>2, <1>3, DocumentedOffset
<1>5. /\ (kk \div s.block) * NTileCount(s) + jj \div s.block \in Nat
      /\ TileElements(s) \in Nat /\ s.block \in Nat
  <2>1. kk \div s.block \in Nat /\ jj \div s.block \in Nat
    BY InTileOf DEF IsShape
  <2> QED BY <2>1, LayoutCounts, ProductNat DEF IsShape
<1>6. PackedIndex(kk, k, jj, j, s) = TileOffset(kk \div s.block, jj \div s.block, k, j, s)
  BY <1>5, ProductNat DEF PackedIndex, TileOffset
<1> QED BY <1>4, <1>6
-------------------------------------------------------------------------------
(* The tile walk *)

\* The loop variables stay natural numbers.
LEMMA TileTypes ==
  ASSUME NEW p, p.cols \in Nat \ {0}, p.block \in Nat \ {0},
         NEW limit \in Nat, NEW t \in Tile
  PROVE  /\ NextTile(t, p, limit) \in Tile
         /\ \A first \in Nat : FirstTile(first) \in Tile
BY MicroShapeAssumption DEF NextTile, FirstTile, Tile, At

\* A walk starts in bounds, and nothing of its range lies behind it.
LEMMA WalkStart ==
  ASSUME NEW p, p.cols \in Nat \ {0}, p.block \in Nat \ {0},
         NEW first \in Nat, NEW limit \in Nat
  PROVE  /\ TileInBounds(FirstTile(first), p, first, limit)
         /\ \A x, y \in Nat : first <= x => ~Before(<<x, y>>, FirstTile(first), p, limit)
BY MicroShapeAssumption
   DEF TileInBounds, Before, FirstTile, At, HasTile, RowLimit, ColumnExtent, RowCount, Least

\* One micro-tile: it lies inside the range, it is new, and after it the part
\* behind the loop variables has grown by exactly its elements.
LEMMA WalkStep ==
  ASSUME NEW p, p.cols \in Nat \ {0}, p.block \in Nat \ {0},
         NEW first \in Nat, NEW limit \in Nat, NEW t \in Tile,
         TileInBounds(t, p, first, limit), HasTile(t, limit),
         NEW x \in Nat, NEW y \in Nat
  PROVE  LET e == <<x, y>>
             u == NextTile(t, p, limit)
         IN  /\ TileInBounds(u, p, first, limit)
             /\ e \in Footprint(t, p, limit) =>
                  /\ first <= x /\ x < limit /\ y < p.cols
                  /\ ~Before(e, t, p, limit)
             /\ first <= x /\ x < limit /\ y < p.cols =>
                  (Before(e, u, p, limit) <=>
                     Before(e, t, p, limit) \/ e \in Footprint(t, p, limit))
<1> DEFINE e == <<x, y>>
           u == NextTile(t, p, limit)
           rl == RowLimit(t, p, limit)
           ce == ColumnExtent(t, p)
           rc == RowCount(t, p, limit)
           cc == ColumnCount(t, p)
<1>1. /\ t.ii \in Nat /\ t.jj \in Nat /\ t.i \in Nat /\ t.j \in Nat
      /\ t = [ii |-> t.ii, jj |-> t.jj, i |-> t.i, j |-> t.j]
  BY DEF Tile
<1>2. /\ rl \in Nat /\ rl <= limit /\ rl <= t.ii + p.block
      /\ rl = limit \/ rl = t.ii + p.block
  BY <1>1 DEF RowLimit, Least
<1>3. /\ first <= t.ii /\ t.ii < limit /\ t.ii <= t.i /\ t.i < rl
      /\ t.jj < p.cols /\ t.j < ce
  BY DEF TileInBounds, HasTile
<1>4. /\ ce \in Nat /\ ce <= p.block /\ t.jj + ce <= p.cols
      /\ ce = p.block \/ t.jj + ce = p.cols
  BY <1>1, <1>3 DEF ColumnExtent, Least
<1>5. /\ rc \in Nat /\ 0 < rc /\ t.i + rc <= rl /\ rc <= MicroRows
      /\ rc = MicroRows \/ t.i + rc = rl
  BY <1>1, <1>2, <1>3, MicroShapeAssumption DEF RowCount, Least
<1>6. /\ cc \in Nat /\ 0 < cc /\ t.j + cc <= ce /\ cc <= MicroCols
      /\ cc = MicroCols \/ t.j + cc = ce
  BY <1>1, <1>3, <1>4, MicroShapeAssumption DEF ColumnCount, Least
<1>7. e \in Footprint(t, p, limit) <=>
        /\ t.i <= x /\ x < t.i + rc
        /\ t.jj + t.j <= y /\ y < t.jj + t.j + cc
  BY <1>1, <1>5, <1>6 DEF Footprint, IsFullTile, Rectangle
<1>8. Before(e, t, p, limit) <=>
        \/ x < t.ii
        \/ x < rl /\ y < t.jj
        \/ x < t.i /\ y < t.jj + ce
        \/ x < t.i + rc /\ y < t.jj + t.j
  BY DEF Before
<1> HIDE DEF rl, ce, rc, cc
<1>9. e \in Footprint(t, p, limit) =>
        /\ first <= x /\ x < limit /\ y < p.cols
        /\ ~Before(e, t, p, limit)
  BY <1>1, <1>2, <1>3, <1>4, <1>5, <1>6, <1>7, <1>8
<1> DEFINE Advanced ==
             /\ TileInBounds(u, p, first, limit)
             /\ first <= x /\ x < limit /\ y < p.cols =>
                  (Before(e, u, p, limit) <=>
                     Before(e, t, p, limit) \/ e \in Footprint(t, p, limit))
<1>10. ASSUME t.j + MicroCols < ce PROVE Advanced
  <2>1. u = [ii |-> t.ii, jj |-> t.jj, i |-> t.i, j |-> t.j + MicroCols]
    BY <1>1, <1>10 DEF NextTile, At, ce
  <2>2. HasTile(u, limit) /\ RowLimit(u, p, limit) = rl /\ ColumnExtent(u, p) = ce
        /\ RowCount(u, p, limit) = rc
    BY <2>1, <1>3 DEF HasTile, RowLimit, ColumnExtent, RowCount, rl, ce, rc
  <2>3. cc = MicroCols
    BY <1>1, <1>4, <1>6, <1>10, MicroShapeAssumption
  <2>4. TileInBounds(u, p, first, limit)
    BY <2>1, <2>2, <1>3, <1>10 DEF TileInBounds
  <2>5. Before(e, u, p, limit) <=>
          \/ x < t.ii
          \/ x < rl /\ y < t.jj
          \/ x < t.i /\ y < t.jj + ce
          \/ x < t.i + rc /\ y < t.jj + (t.j + MicroCols)
    BY <2>1, <2>2 DEF Before
  <2> QED
    BY <2>3, <2>4, <2>5, <1>1, <1>2, <1>3, <1>4, <1>5, <1>7, <1>8, <1>10,
       MicroShapeAssumption
<1>11. ASSUME t.j + MicroCols >= ce /\ t.i + MicroRows < rl PROVE Advanced
  <2>1. u = [ii |-> t.ii, jj |-> t.jj, i |-> t.i + MicroRows, j |-> 0]
    BY <1>1, <1>4, <1>11, MicroShapeAssumption DEF NextTile, At, ce, rl
  <2>2. HasTile(u, limit) /\ RowLimit(u, p, limit) = rl /\ ColumnExtent(u, p) = ce
    BY <2>1, <1>3 DEF HasTile, RowLimit, ColumnExtent, rl, ce
  <2>3. rc = MicroRows /\ t.j + cc = ce
    BY <1>1, <1>2, <1>4, <1>5, <1>6, <1>11, MicroShapeAssumption
  <2>4. TileInBounds(u, p, first, limit)
    BY <2>1, <2>2, <1>1, <1>3, <1>4, <1>11, MicroShapeAssumption DEF TileInBounds
  <2>5. RowCount(u, p, limit) \in Nat
    BY <2>1, <2>2, <1>1, <1>2, <1>11, MicroShapeAssumption DEF RowCount, Least
  <2>6. Before(e, u, p, limit) <=>
          \/ x < t.ii
          \/ x < rl /\ y < t.jj
          \/ x < t.i + MicroRows /\ y < t.jj + ce
          \/ x < t.i + MicroRows + RowCount(u, p, limit) /\ y < t.jj + 0
    BY <2>1, <2>2 DEF Before
  <2>7. RowCount(u, p, limit) <= rl - (t.i + MicroRows)
    BY <2>1, <2>2, <1>1, <1>2, <1>11, MicroShapeAssumption DEF RowCount, Least
  <2>8. Before(e, u, p, limit) <=>
          \/ x < t.ii
          \/ x < rl /\ y < t.jj
          \/ x < t.i + MicroRows /\ y < t.jj + ce
    BY <2>5, <2>6, <2>7, <1>1, <1>2, <1>11, MicroShapeAssumption
  <2>9. Before(e, t, p, limit) \/ e \in Footprint(t, p, limit) <=>
          \/ x < t.ii
          \/ x < rl /\ y < t.jj
          \/ x < t.i + MicroRows /\ y < t.jj + ce
    BY <2>3, <1>1, <1>2, <1>3, <1>4, <1>6, <1>7, <1>8, <1>11, MicroShapeAssumption
  <2> QED
    BY <2>4, <2>8, <2>9
<1>12. ASSUME t.j + MicroCols >= ce /\ t.i + MicroRows >= rl /\ t.jj + p.block < p.cols PROVE Advanced
  <2>1. u = [ii |-> t.ii, jj |-> t.jj + p.block, i |-> t.ii, j |-> 0]
    BY <1>1, <1>2, <1>4, <1>12, MicroShapeAssumption DEF NextTile, At, ce, rl
  <2>2. HasTile(u, limit) /\ RowLimit(u, p, limit) = rl
    BY <2>1, <1>3 DEF HasTile, RowLimit, rl
  <2>3. t.i + rc = rl /\ t.j + cc = ce /\ ce = p.block
    BY <1>1, <1>2, <1>4, <1>5, <1>6, <1>12, MicroShapeAssumption
  <2>4. ColumnExtent(u, p) \in Nat \ {0}
    BY <2>1, <1>1, <1>12 DEF ColumnExtent, Least
  <2>5. TileInBounds(u, p, first, limit)
    BY <2>1, <2>2, <2>4, <1>1, <1>2, <1>3, <1>12 DEF TileInBounds
  <2>6. RowCount(u, p, limit) \in Nat /\ RowCount(u, p, limit) <= rl - t.ii
    BY <2>1, <2>2, <1>1, <1>2, <1>3, MicroShapeAssumption DEF RowCount, Least
  <2>7. Before(e, u, p, limit) <=>
          \/ x < t.ii
          \/ x < rl /\ y < t.jj + p.block
          \/ x < t.ii /\ y < t.jj + p.block + ColumnExtent(u, p)
          \/ x < t.ii + RowCount(u, p, limit) /\ y < t.jj + p.block + 0
    BY <2>1, <2>2 DEF Before
  <2>8. Before(e, u, p, limit) <=> x < t.ii \/ (x < rl /\ y < t.jj + p.block)
    BY <2>6, <2>7, <1>1, <1>2, <1>3
  <2>9. Before(e, t, p, limit) \/ e \in Footprint(t, p, limit) <=>
          x < t.ii \/ (x < rl /\ y < t.jj + p.block)
    BY <2>3, <1>1, <1>2, <1>3, <1>4, <1>5, <1>6, <1>7, <1>8
  <2> QED
    BY <2>5, <2>8, <2>9
<1>13. ASSUME t.j + MicroCols >= ce /\ t.i + MicroRows >= rl /\ t.jj + p.block >= p.cols PROVE Advanced
  <2>1. u = [ii |-> t.ii + p.block, jj |-> 0, i |-> t.ii + p.block, j |-> 0]
    BY <1>1, <1>2, <1>4, <1>13, MicroShapeAssumption DEF NextTile, FirstTile, At, ce, rl
  <2>2. t.i + rc = rl /\ t.j + cc = ce /\ t.jj + ce = p.cols
    BY <1>1, <1>2, <1>4, <1>5, <1>6, <1>13, MicroShapeAssumption
  <2>3. /\ TileInBounds(u, p, first, limit)
        /\ t.ii + p.block <= x => ~Before(e, u, p, limit)
    <3>1. u = FirstTile(t.ii + p.block) /\ t.ii + p.block \in Nat
      BY <2>1, <1>1 DEF FirstTile, At
    <3>2. TileInBounds(u, p, t.ii + p.block, limit)
      BY <3>1, WalkStart
    <3>3. t.ii + p.block <= x => ~Before(e, u, p, limit)
      BY <3>1, WalkStart
    <3> QED BY <3>2, <3>3, <2>1, <1>1, <1>3 DEF TileInBounds
  <2>4. x < t.ii + p.block => Before(e, u, p, limit)
    BY <2>1 DEF Before
  <2>5. x < limit => (x < t.ii + p.block <=> x < rl)
    BY <1>1, <1>2
  <2>6. x < limit /\ y < p.cols =>
          (Before(e, t, p, limit) \/ e \in Footprint(t, p, limit) <=> x < rl)
    BY <2>2, <1>1, <1>2, <1>3, <1>4, <1>5, <1>6, <1>7, <1>8
  <2> QED
    BY <2>3, <2>4, <2>5, <2>6, <1>1
<1> HIDE DEF u, Advanced
<1>14. Advanced
  BY <1>1, <1>2, <1>4, <1>10, <1>11, <1>12, <1>13, MicroShapeAssumption
<1> QED BY <1>9, <1>14 DEF u, Advanced

===============================================================================
