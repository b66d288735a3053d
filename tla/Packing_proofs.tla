---------------------------- MODULE Packing_proofs ----------------------------
(***************************************************************************)
(* What TLC checks of Packing on small shapes, proved for all shapes and   *)
(* any number of packs of one buffer.                                      *)
(***************************************************************************)
EXTENDS Packing, Tiling_proofs

-------------------------------------------------------------------------------
(* The inductive invariant *)

\* The elements of B the loops kk, jj, k have copied so far: the tile rows above,
\* the tiles to the left, and the rows above in the tile they are in.
Earlier(e, x, y, z, b) ==
  \/ e[1] < x
  \/ e[1] < x + b /\ e[2] < y
  \/ e[1] < x + z /\ e[2] < y + b

Copied == {e \in BElements(shape) : Earlier(e, kk, jj, k, shape.block)}

\* The elements the copy of the current row adds.
RowElements == {<<kk + k, jj + j>> : j \in 0 .. JExtent - 1}

Address(e) == DocumentedIndex(e[1], e[2], shape)

\* The buffer holds the elements S of version v, and zeros everywhere else.
HasPacked(d, v, S) ==
  /\ \A e \in BElements(shape) :
       d[Address(e)] = IF e \in S THEN <<v, e[1], e[2]>> ELSE Zero
  /\ \A o \in Padding(shape) : d[o] = Zero

\* The loops of pack_b stand at tile corners, and every row before the one they
\* are at has been copied.
LoopInv ==
  /\ kk % shape.block = 0 /\ jj % shape.block = 0
  /\ pc = "fill" => kk = 0 /\ jj = 0 /\ k = 0
  /\ pc = "copy" => k < KExtent /\ HasPacked(data, version, Copied)

IInv == TypeOK /\ LoopInv /\ HoldsB

-------------------------------------------------------------------------------
(* Where a row of a tile lies *)

LEMMA ShapeFacts == ASSUME TypeOK PROVE IsShape(shape)
BY ShapesAssumption DEF TypeOK, IsShape

\* The extent of a tile is the block, cut at the end of the axis.
LEMMA Extent ==
  ASSUME NEW b \in Nat \ {0}, NEW n \in Nat \ {0}, NEW x \in 0 .. n - 1
  PROVE  /\ Least(b, n - x) \in 1 .. b /\ x + Least(b, n - x) <= n
         /\ b < n - x => Least(b, n - x) = b
         /\ n - x <= b => Least(b, n - x) = n - x
BY DEF Least

\* The tile the loops stand at, in B and in the buffer.
LEMMA TileFacts ==
  ASSUME TypeOK, LoopInv, pc = "copy"
  PROVE  /\ KExtent \in 1 .. shape.block /\ JExtent \in 1 .. shape.block
         /\ kk + KExtent <= shape.depth /\ jj + JExtent <= shape.cols
         /\ kk + k < shape.depth
         /\ shape.block < shape.depth - kk => KExtent = shape.block
         /\ shape.depth - kk <= shape.block => KExtent = shape.depth - kk
         /\ shape.block < shape.cols - jj => JExtent = shape.block
         /\ shape.cols - jj <= shape.block => JExtent = shape.cols - jj
<1>1. /\ shape.depth \in Nat \ {0} /\ shape.cols \in Nat \ {0} /\ shape.block \in Nat \ {0}
      /\ kk \in 0 .. shape.depth - 1 /\ jj \in 0 .. shape.cols - 1 /\ k \in 0 .. shape.block - 1
  BY ShapeFacts DEF IsShape, TypeOK
<1>2. /\ KExtent \in 1 .. shape.block /\ kk + KExtent <= shape.depth
      /\ shape.block < shape.depth - kk => KExtent = shape.block
      /\ shape.depth - kk <= shape.block => KExtent = shape.depth - kk
  <2> DEFINE b == shape.block
             n == shape.depth
             e == KExtent
  <2>1. b \in Nat \ {0} /\ n \in Nat \ {0} /\ kk \in Nat /\ kk < n
    BY <1>1
  <2>2. e = IF b <= n - kk THEN b ELSE n - kk
    BY DEF KExtent, Least
  <2> HIDE DEF b, n, e
  <2>3. /\ e \in 1 .. b /\ kk + e <= n
        /\ b < n - kk => e = b
        /\ n - kk <= b => e = n - kk
    BY ONLY <2>1, <2>2
  <2> QED BY <2>3 DEF b, n, e
<1>3. /\ JExtent \in 1 .. shape.block /\ jj + JExtent <= shape.cols
      /\ shape.block < shape.cols - jj => JExtent = shape.block
      /\ shape.cols - jj <= shape.block => JExtent = shape.cols - jj
  <2> DEFINE b == shape.block
             n == shape.cols
             e == JExtent
  <2>1. b \in Nat \ {0} /\ n \in Nat \ {0} /\ jj \in Nat /\ jj < n
    BY <1>1
  <2>2. e = IF b <= n - jj THEN b ELSE n - jj
    BY DEF JExtent, Least
  <2> HIDE DEF b, n, e
  <2>3. /\ e \in 1 .. b /\ jj + e <= n
        /\ b < n - jj => e = b
        /\ n - jj <= b => e = n - jj
    BY ONLY <2>1, <2>2
  <2> QED BY <2>3 DEF b, n, e
<1>4. kk + k < shape.depth
  BY <1>1, <1>2 DEF LoopInv
<1> QED BY <1>2, <1>3, <1>4

LEMMA RowAddresses ==
  ASSUME TypeOK, LoopInv, pc = "copy", NEW j \in 0 .. JExtent - 1
  PROVE  /\ <<kk + k, jj + j>> \in BElements(shape)
         /\ PackedIndex(kk, k, jj, j, shape) = Address(<<kk + k, jj + j>>)
         /\ PackedIndex(kk, k, jj, j, shape) - PackedIndex(kk, k, jj, 0, shape) = j
         /\ PackedIndex(kk, k, jj, j, shape) \in Offsets
<1>1. /\ IsShape(shape) /\ kk \in Nat /\ jj \in Nat /\ k \in 0 .. shape.block - 1
      /\ j \in 0 .. shape.block - 1 /\ kk + k < shape.depth /\ jj + j < shape.cols
      /\ kk % shape.block = 0 /\ jj % shape.block = 0
  BY ShapeFacts, TileFacts DEF TypeOK, LoopInv, IsShape
<1>2. <<kk + k, jj + j>> \in BElements(shape)
  BY <1>1 DEF BElements, IsShape
<1>3. PackedIndex(kk, k, jj, j, shape) = Address(<<kk + k, jj + j>>)
  BY <1>1, IndexAgrees DEF Address
<1>4. PackedIndex(kk, k, jj, j, shape) - PackedIndex(kk, k, jj, 0, shape) = j
  <2> DEFINE base == ((kk \div shape.block) * NTileCount(shape) + jj \div shape.block)
                     * TileElements(shape)
             row == k * shape.block
  <2>1. base \in Nat /\ row \in Nat
    <3>1. kk \div shape.block \in Nat /\ jj \div shape.block \in Nat
      BY <1>1, Division DEF IsShape
    <3>2. (kk \div shape.block) * NTileCount(shape) \in Nat
      BY <1>1, <3>1, ProductNat, LayoutCounts
    <3>3. (kk \div shape.block) * NTileCount(shape) + jj \div shape.block \in Nat
      BY <3>1, <3>2
    <3> QED BY <1>1, <3>3, ProductNat, LayoutCounts DEF IsShape
  <2>2. \A i \in 0 .. shape.block - 1 : PackedIndex(kk, k, jj, i, shape) = base + row + i
    BY DEF PackedIndex
  <2> HIDE DEF base, row
  <2>3. 0 \in 0 .. shape.block - 1
    BY <1>1 DEF IsShape
  <2> QED BY <1>1, <2>1, <2>2, <2>3
<1>5. PackedIndex(kk, k, jj, j, shape) \in Offsets
  BY <1>1, <1>2, <1>3, LayoutInjective DEF Address, Offsets
<1> QED BY <1>2, <1>3, <1>4, <1>5

\* An address belongs to one element, so a row is the addresses of its elements.
LEMMA RowOf ==
  ASSUME TypeOK, LoopInv, pc = "copy", NEW e \in BElements(shape)
  PROVE  Address(e) \in Row <=> e \in RowElements
<1>1. ASSUME NEW j \in 0 .. JExtent - 1, Address(e) = PackedIndex(kk, k, jj, j, shape)
      PROVE  e = <<kk + k, jj + j>>
  BY <1>1, RowAddresses, LayoutInjective, ShapeFacts DEF Address
<1> QED BY <1>1, RowAddresses DEF Row, RowElements

LEMMA PaddingNotAddressed ==
  ASSUME TypeOK, NEW o \in Offsets
  PROVE  o \in Padding(shape) \/ \E e \in BElements(shape) : o = Address(e)
BY DEF Padding, Offsets, Address

-------------------------------------------------------------------------------
(* What one std::copy_n does to the buffer *)

LEMMA CopyRowTypes ==
  ASSUME TypeOK, LoopInv, pc = "copy", CopyRow
  PROVE  data' \in [Offsets -> Values]
<1> SUFFICES ASSUME NEW o \in Offsets
             PROVE  (IF o \in Row
                     THEN <<version, SourceOf(o)[1], SourceOf(o)[2]>>
                     ELSE data[o]) \in Values
  BY DEF CopyRow
<1>1. CASE o \in Row
  <2>1. PICK j \in 0 .. JExtent - 1 : o = PackedIndex(kk, k, jj, j, shape)
    BY <1>1 DEF Row
  <2>2. o - PackedIndex(kk, k, jj, 0, shape) = j /\ <<kk + k, jj + j>> \in BElements(shape)
    BY <2>1, RowAddresses
  <2>3. version \in 0 .. MaxPacks
    BY MaxPacksAssumption DEF TypeOK
  <2>4. <<version, kk + k, jj + j>> \in Values
    BY <2>2, <2>3 DEF Values, BElements
  <2>5. SourceOf(o)[1] = kk + k /\ SourceOf(o)[2] = jj + j
    BY <2>2 DEF SourceOf
  <2> QED BY <1>1, <2>4, <2>5
<1>2. CASE o \notin Row
  BY <1>2 DEF TypeOK
<1> QED BY <1>1, <1>2

LEMMA CopyRowAdds ==
  ASSUME TypeOK, LoopInv, pc = "copy", CopyRow
  PROVE  HasPacked(data', version, Copied \cup RowElements)
<1>1. ASSUME NEW e \in BElements(shape)
      PROVE  data'[Address(e)] = IF e \in Copied \cup RowElements
                                 THEN <<version, e[1], e[2]>> ELSE Zero
  <2>1. Address(e) \in Offsets
    BY LayoutInjective, ShapeFacts DEF Address, Offsets
  <2>2. CASE e \in RowElements
    <3>1. PICK j \in 0 .. JExtent - 1 : e = <<kk + k, jj + j>>
      BY <2>2 DEF RowElements
    <3>2. /\ Address(e) - PackedIndex(kk, k, jj, 0, shape) = j
          /\ Address(e) \in Row
      BY <3>1, RowAddresses DEF Row
    <3>3. data'[Address(e)] = <<version, kk + k, jj + j>>
      BY <2>1, <3>2 DEF CopyRow, SourceOf
    <3> QED BY <2>2, <3>1, <3>3
  <2>3. CASE e \notin RowElements
    <3>1. data'[Address(e)] = data[Address(e)]
      BY <2>1, <2>3, RowOf DEF CopyRow
    <3> QED BY <2>3, <3>1 DEF LoopInv, HasPacked
  <2> QED BY <2>2, <2>3
<1>2. ASSUME NEW o \in Padding(shape) PROVE data'[o] = Zero
  <2>1. o \in Offsets /\ \A e \in BElements(shape) : o # Address(e)
    BY DEF Padding, Offsets, Address
  <2>2. o \notin Row
    BY <2>1, RowAddresses DEF Row
  <2> QED BY <2>1, <2>2 DEF CopyRow, LoopInv, HasPacked
<1> QED BY <1>1, <1>2 DEF HasPacked

\* Copied depends on the loop variables, not on the order they are reached in:
\* each move of the loops adds the row just copied.
LEMMA MovesAddRow ==
  ASSUME TypeOK, LoopInv, pc = "copy", shape' = shape
  PROVE  /\ k + 1 < KExtent /\ k' = k + 1 /\ jj' = jj /\ kk' = kk
            => Copied' = Copied \cup RowElements
         /\ k + 1 = KExtent /\ jj + shape.block < shape.cols
            /\ jj' = jj + shape.block /\ k' = 0 /\ kk' = kk
            => Copied' = Copied \cup RowElements
         /\ k + 1 = KExtent /\ jj + shape.block >= shape.cols
            /\ kk' = kk + shape.block /\ jj' = 0 /\ k' = 0
            => Copied' = Copied \cup RowElements
         /\ k + 1 = KExtent /\ jj + shape.block >= shape.cols
            /\ kk + shape.block >= shape.depth
            => Copied \cup RowElements = BElements(shape)
<1> DEFINE b == shape.block
           K == shape.depth
           N == shape.cols
<1>1. /\ K \in Nat \ {0} /\ N \in Nat \ {0} /\ b \in Nat \ {0}
      /\ kk \in 0 .. K - 1 /\ jj \in 0 .. N - 1 /\ k \in 0 .. b - 1
  BY ShapeFacts DEF IsShape, TypeOK
<1>2. /\ KExtent \in 1 .. b /\ JExtent \in 1 .. b
      /\ kk + KExtent <= K /\ jj + JExtent <= N /\ kk + k < K
      /\ b < K - kk => KExtent = b
      /\ K - kk <= b => KExtent = K - kk
      /\ b < N - jj => JExtent = b
      /\ N - jj <= b => JExtent = N - jj
  BY TileFacts
<1>3. ASSUME NEW e \in BElements(shape)
      PROVE  /\ e[1] \in 0 .. K - 1 /\ e[2] \in 0 .. N - 1
             /\ e \in Copied <=> Earlier(e, kk, jj, k, b)
             /\ e \in Copied' <=> Earlier(e, kk', jj', k', b)
             /\ e \in RowElements <=> e[1] = kk + k /\ e[2] \in jj .. jj + JExtent - 1
  <2>1. e = <<e[1], e[2]>> /\ e[1] \in 0 .. K - 1 /\ e[2] \in 0 .. N - 1
    BY DEF BElements
  <2>2. e \in RowElements <=> e[1] = kk + k /\ e[2] \in jj .. jj + JExtent - 1
    <3>1. ASSUME NEW j \in 0 .. JExtent - 1, e = <<kk + k, jj + j>>
          PROVE  e[1] = kk + k /\ e[2] \in jj .. jj + JExtent - 1
      BY <1>1, <1>2, <3>1
    <3>2. ASSUME e[1] = kk + k, e[2] \in jj .. jj + JExtent - 1
          PROVE  \E j \in 0 .. JExtent - 1 : e = <<kk + k, jj + j>>
      <4>1. e[2] - jj \in 0 .. JExtent - 1 /\ e = <<kk + k, jj + (e[2] - jj)>>
        BY <1>1, <1>2, <2>1, <3>2
      <4> QED BY <4>1
    <3> QED BY <3>1, <3>2 DEF RowElements
  <2> QED BY <2>1, <2>2 DEF Copied
<1>4. Copied \subseteq BElements(shape) /\ (shape' = shape => Copied' \subseteq BElements(shape))
  BY DEF Copied
<1>5. RowElements \subseteq BElements(shape)
  BY RowAddresses DEF RowElements
<1> HIDE DEF b, K, N
<1>6. ASSUME k + 1 < KExtent, k' = k + 1, jj' = jj, kk' = kk
      PROVE  \A e \in BElements(shape) : e \in Copied' <=> e \in Copied \cup RowElements
  BY <1>1, <1>2, <1>3, <1>6 DEF Earlier
<1>7. ASSUME k + 1 = KExtent, jj + b < N, jj' = jj + b, k' = 0, kk' = kk
      PROVE  \A e \in BElements(shape) : e \in Copied' <=> e \in Copied \cup RowElements
  BY <1>1, <1>2, <1>3, <1>7 DEF Earlier
<1>8. ASSUME k + 1 = KExtent, jj + b >= N, kk' = kk + b, jj' = 0, k' = 0
      PROVE  \A e \in BElements(shape) : e \in Copied' <=> e \in Copied \cup RowElements
  BY <1>1, <1>2, <1>3, <1>8 DEF Earlier
<1>9. ASSUME k + 1 = KExtent, jj + b >= N, kk + b >= K
      PROVE  \A e \in BElements(shape) : e \in Copied \cup RowElements
  BY <1>1, <1>2, <1>3, <1>9 DEF Earlier
<1> QED BY <1>4, <1>5, <1>6, <1>7, <1>8, <1>9 DEF b, K, N

-------------------------------------------------------------------------------
(* Every step keeps the invariant *)

LEMMA InitIInv == Init => IInv
<1> SUFFICES ASSUME Init PROVE IInv
  OBVIOUS
<1>1. /\ shape \in Shapes /\ shape.depth \in Nat \ {0} /\ shape.cols \in Nat \ {0}
      /\ shape.block \in Nat \ {0}
  BY ShapesAssumption DEF Init
<1>2. Zero \in Values
  BY <1>1, MaxPacksAssumption DEF Zero, Values
<1>3. TypeOK
  BY <1>1, <1>2, MaxPacksAssumption DEF Init, TypeOK
<1>4. 0 % shape.block = 0
  BY <1>1
<1> QED BY <1>3, <1>4 DEF Init, IInv, LoopInv, HoldsB

\* A pack begins with a buffer of zeros, whatever it held before.
LEMMA FillStep == IInv /\ Fill => IInv'
<1> SUFFICES ASSUME IInv, Fill PROVE IInv'
  OBVIOUS
<1>1. shape' = shape /\ IsShape(shape) /\ kk = 0 /\ jj = 0 /\ k = 0
  BY ShapeFacts DEF IInv, Fill, LoopInv
<1>2. Zero \in Values /\ Values' = Values /\ Offsets' = Offsets
  BY <1>1, MaxPacksAssumption DEF Zero, Values, Offsets, IsShape
<1>3. TypeOK'
  BY <1>1, <1>2 DEF IInv, TypeOK, Fill
<1>4. KExtent' \in 1 .. shape.block
  <2>1. Least(shape.block, shape.depth - 0) \in 1 .. shape.block
    BY <1>1, Extent DEF IsShape
  <2> QED BY <1>1, <2>1 DEF KExtent, Fill
<1>5. \A e \in BElements(shape) : e \notin Copied'
  <2> SUFFICES ASSUME NEW e \in BElements(shape) PROVE ~Earlier(e, 0, 0, 0, shape.block)
    BY <1>1 DEF Copied, Fill
  <2>1. e[1] \in 0 .. shape.depth - 1 /\ e[2] \in 0 .. shape.cols - 1
    BY DEF BElements
  <2> QED BY <1>1, <2>1 DEF Earlier, IsShape
<1>6. HasPacked(data, version, Copied)'
  <2>1. \A o \in Offsets : data'[o] = Zero
    BY DEF Fill
  <2>2. \A e \in BElements(shape) : Address(e) \in Offsets /\ Address(e)' = Address(e)
    BY <1>1, LayoutInjective DEF Address, Offsets
  <2>3. \A o \in Padding(shape) : o \in Offsets
    BY DEF Padding, Offsets
  <2> QED BY <1>1, <1>5, <2>1, <2>2, <2>3 DEF HasPacked
<1>7. LoopInv'
  BY <1>1, <1>4, <1>6 DEF LoopInv, IInv, Fill
<1>8. HoldsB'
  BY DEF HoldsB, Fill
<1> QED BY <1>3, <1>7, <1>8 DEF IInv

\* The corners the loops move to are corners of tiles inside B.
LEMMA NextRowStep == IInv /\ NextRow => IInv'
<1> SUFFICES ASSUME IInv, NextRow PROVE IInv'
  OBVIOUS
<1>1. /\ shape' = shape /\ IsShape(shape) /\ pc = "copy" /\ pc' = "copy" /\ TypeOK /\ LoopInv
      /\ CopyRow /\ kk' = kk /\ jj' = jj /\ k' = k + 1 /\ k + 1 < KExtent
      /\ version' = version /\ held' = held
  BY ShapeFacts DEF IInv, NextRow, CopyRow
<1>2. Values' = Values /\ Offsets' = Offsets /\ KExtent' = KExtent
  BY <1>1 DEF Values, Offsets, KExtent
<1>3. TypeOK'
  <2>1. k + 1 \in 0 .. shape.block - 1
    BY <1>1, TileFacts DEF TypeOK, IsShape
  <2> QED BY <1>1, <1>2, <2>1, CopyRowTypes DEF TypeOK
<1>4. HasPacked(data', version, Copied') /\ shape' = shape
  BY <1>1, CopyRowAdds, MovesAddRow
<1>5. HasPacked(data, version, Copied)'
  BY <1>1, <1>4 DEF HasPacked, Address
<1>6. LoopInv'
  BY <1>1, <1>2, <1>5 DEF LoopInv
<1> QED BY <1>1, <1>3, <1>6 DEF IInv, HoldsB

LEMMA NextColumnTileStep == IInv /\ NextColumnTile => IInv'
<1> SUFFICES ASSUME IInv, NextColumnTile PROVE IInv'
  OBVIOUS
<1>1. /\ shape' = shape /\ IsShape(shape) /\ pc = "copy" /\ pc' = "copy" /\ TypeOK /\ LoopInv
      /\ CopyRow /\ kk' = kk /\ jj' = jj + shape.block /\ k' = 0 /\ k + 1 = KExtent
      /\ jj + shape.block < shape.cols /\ version' = version /\ held' = held
  BY ShapeFacts DEF IInv, NextColumnTile, CopyRow
<1>2. Values' = Values /\ Offsets' = Offsets /\ KExtent' = KExtent
  BY <1>1 DEF Values, Offsets, KExtent
<1>3. TypeOK'
  <2>1. jj + shape.block \in 0 .. shape.cols - 1 /\ 0 \in 0 .. shape.block - 1
    BY <1>1 DEF TypeOK, IsShape
  <2> QED BY <1>1, <1>2, <2>1, CopyRowTypes DEF TypeOK
<1>4. HasPacked(data', version, Copied')
  BY <1>1, CopyRowAdds, MovesAddRow
<1>5. HasPacked(data, version, Copied)'
  BY <1>1, <1>4 DEF HasPacked, Address
<1>6. (jj + shape.block) % shape.block = 0
  <2>1. jj \in Nat /\ jj % shape.block = 0 /\ shape.block \in Nat \ {0}
    BY <1>1 DEF TypeOK, LoopInv, IsShape
  <2> QED BY <2>1, NextMultiple
<1>7. LoopInv'
  BY <1>1, <1>2, <1>5, <1>6, TileFacts DEF LoopInv
<1> QED BY <1>1, <1>3, <1>7 DEF IInv, HoldsB

LEMMA NextKTileStep == IInv /\ NextKTile => IInv'
<1> SUFFICES ASSUME IInv, NextKTile PROVE IInv'
  OBVIOUS
<1>1. /\ shape' = shape /\ IsShape(shape) /\ pc = "copy" /\ pc' = "copy" /\ TypeOK /\ LoopInv
      /\ CopyRow /\ kk' = kk + shape.block /\ jj' = 0 /\ k' = 0 /\ k + 1 = KExtent
      /\ jj + shape.block >= shape.cols /\ kk + shape.block < shape.depth
      /\ version' = version /\ held' = held
  BY ShapeFacts DEF IInv, NextKTile, CopyRow
<1>2. Values' = Values /\ Offsets' = Offsets
  BY <1>1 DEF Values, Offsets
<1>3. kk + shape.block \in 0 .. shape.depth - 1 /\ 0 \in 0 .. shape.block - 1
      /\ 0 \in 0 .. shape.cols - 1
  BY <1>1 DEF TypeOK, IsShape
<1>4. TypeOK'
  BY <1>1, <1>2, <1>3, CopyRowTypes DEF TypeOK
<1>5. HasPacked(data', version, Copied')
  BY <1>1, CopyRowAdds, MovesAddRow
<1>6. HasPacked(data, version, Copied)'
  BY <1>1, <1>5 DEF HasPacked, Address
<1>7. (kk + shape.block) % shape.block = 0 /\ 0 % shape.block = 0
  <2>1. kk \in Nat /\ kk % shape.block = 0 /\ shape.block \in Nat \ {0}
    BY <1>1 DEF TypeOK, LoopInv, IsShape
  <2> QED BY <2>1, NextMultiple
<1>8. KExtent' \in 1 .. shape.block
  <2>1. Least(shape.block, shape.depth - (kk + shape.block)) \in 1 .. shape.block
    BY <1>1, <1>3, Extent DEF IsShape
  <2> QED BY <1>1, <2>1 DEF KExtent
<1>9. LoopInv'
  BY <1>1, <1>6, <1>7, <1>8 DEF LoopInv, IsShape
<1> QED BY <1>1, <1>4, <1>9 DEF IInv, HoldsB

\* The last row completes the buffer.
LEMMA ReturnStep == IInv /\ Return => IInv'
<1> SUFFICES ASSUME IInv, Return PROVE IInv'
  OBVIOUS
<1>1. /\ shape' = shape /\ IsShape(shape) /\ pc = "copy" /\ pc' = "idle" /\ TypeOK /\ LoopInv
      /\ CopyRow /\ kk' = kk /\ jj' = jj /\ k' = k /\ k + 1 = KExtent
      /\ jj + shape.block >= shape.cols /\ kk + shape.block >= shape.depth
      /\ version' = version /\ held' = version
  BY ShapeFacts DEF IInv, Return, CopyRow
<1>2. Values' = Values /\ Offsets' = Offsets
  BY <1>1 DEF Values, Offsets
<1>3. TypeOK'
  BY <1>1, <1>2, CopyRowTypes, MaxPacksAssumption DEF TypeOK
<1>4. HasPacked(data', version, BElements(shape))
  BY <1>1, CopyRowAdds, MovesAddRow
<1>5. HoldsB'
  BY <1>1, <1>4 DEF HoldsB, HasPacked, Address
<1>6. LoopInv'
  BY <1>1 DEF LoopInv
<1> QED BY <1>3, <1>5, <1>6 DEF IInv

LEMMA InvariantStep == IInv /\ [Next]_vars => IInv'
<1> SUFFICES ASSUME IInv, [Next]_vars PROVE IInv'
  OBVIOUS
<1>1. CASE ChangeB
  <2>1. TypeOK'
    BY <1>1, MaxPacksAssumption DEF ChangeB, IInv, TypeOK, Offsets, Values
  <2> QED BY <1>1, <2>1 DEF ChangeB, IInv, LoopInv, HoldsB
<1>2. CASE Call
  <2>1. /\ 0 \in 0 .. shape.depth - 1 /\ 0 \in 0 .. shape.cols - 1 /\ 0 \in 0 .. shape.block - 1
        /\ 0 % shape.block = 0
    BY ShapeFacts DEF IInv, IsShape
  <2>2. TypeOK'
    BY <1>2, <2>1 DEF Call, IInv, TypeOK, Offsets, Values
  <2> QED BY <1>2, <2>1, <2>2 DEF Call, IInv, LoopInv, HoldsB
<1>3. CASE UNCHANGED vars
  BY <1>3 DEF vars, IInv, TypeOK, LoopInv, HoldsB, HasPacked, Copied, KExtent, Address,
     Offsets, Values
<1> QED
  BY <1>1, <1>2, <1>3, FillStep, NextRowStep, NextColumnTileStep, NextKTileStep, ReturnStep
     DEF Next

LEMMA Invariance == Spec => []IInv
<1> QED BY InitIInv, InvariantStep, PTL DEF Spec

-------------------------------------------------------------------------------
(* The properties *)

\* The state of a PackedB stays well formed over any number of packs.
THEOREM TypeCorrect == Spec => []TypeOK
<1>1. IInv => TypeOK
  BY DEF IInv
<1> QED BY Invariance, <1>1, PTL

\* std::copy_n never reads past the end of its row of B nor writes past the end of
\* the buffer, whatever the block size leaves at the right and lower edge.
THEOREM CopiesStayInside == Spec => []CopyInBounds
<1>1. IInv => CopyInBounds
  <2> SUFFICES ASSUME IInv, pc = "copy", NEW j \in 0 .. JExtent - 1,
                      NEW o, o = PackedIndex(kk, k, jj, j, shape)
               PROVE  o \in Offsets /\ SourceOf(o) \in BElements(shape)
    BY DEF CopyInBounds, Row
  <2>1. TypeOK /\ LoopInv
    BY DEF IInv
  <2>2. /\ o \in Offsets /\ <<kk + k, jj + j>> \in BElements(shape)
        /\ o - PackedIndex(kk, k, jj, 0, shape) = j
    BY <2>1, RowAddresses
  <2>3. SourceOf(o) = <<kk + k, jj + j>>
    BY <2>2 DEF SourceOf
  <2> QED BY <2>2, <2>3
<1> QED BY Invariance, <1>1, PTL

\* No copy of pack_b overwrites what an earlier one of the same pack wrote, and
\* none writes into the padding of a short tile.
THEOREM OffsetsWrittenOnce == Spec => []EachOffsetOnce
<1>1. IInv => EachOffsetOnce
  <2> SUFFICES ASSUME IInv, pc = "copy", NEW o \in Row
               PROVE  data[o] = Zero /\ o \notin Padding(shape)
    BY DEF EachOffsetOnce
  <2>1. TypeOK /\ LoopInv /\ IsShape(shape)
    BY ShapeFacts DEF IInv
  <2>2. PICK j \in 0 .. JExtent - 1 : o = PackedIndex(kk, k, jj, j, shape)
    BY DEF Row
  <2>3. <<kk + k, jj + j>> \in BElements(shape) /\ o = Address(<<kk + k, jj + j>>)
    BY <2>1, <2>2, RowAddresses
  <2>4. ~Earlier(<<kk + k, jj + j>>, kk, jj, k, shape.block)
    BY <2>1, TileFacts DEF Earlier, TypeOK, IsShape
  <2>5. <<kk + k, jj + j>> \notin Copied
    BY <2>4 DEF Copied
  <2>6. data[o] = Zero
    BY <2>1, <2>3, <2>5 DEF LoopInv, HasPacked
  <2>7. o \notin Padding(shape)
    BY <2>3 DEF Padding, Address
  <2> QED BY <2>6, <2>7
<1> QED BY Invariance, <1>1, PTL

\* A repack leaves nothing of the matrix the buffer held before.
THEOREM RepackForgets == Spec => []NoTraceOfOldB
<1>1. IInv => NoTraceOfOldB
  <2> SUFFICES ASSUME IInv, pc = "copy", NEW o \in Offsets
               PROVE  data[o] = Zero \/ data[o][1] = version
    BY DEF NoTraceOfOldB
  <2>1. TypeOK /\ HasPacked(data, version, Copied)
    BY DEF IInv, LoopInv
  <2>2. CASE o \in Padding(shape)
    BY <2>1, <2>2 DEF HasPacked
  <2>3. CASE \E e \in BElements(shape) : o = Address(e)
    <3>1. PICK e \in BElements(shape) : o = Address(e)
      BY <2>3
    <3>2. data[o] = Zero \/ data[o] = <<version, e[1], e[2]>>
      BY <2>1, <3>1 DEF HasPacked
    <3> QED BY <3>2
  <2> QED BY <2>1, <2>2, <2>3, PaddingNotAddressed
<1> QED BY Invariance, <1>1, PTL

\* After pack_b the buffer holds B at the documented addresses and zeros
\* everywhere else, however often and with whatever it was packed before.
THEOREM PackCorrect == Spec => []HoldsB
<1>1. IInv => HoldsB
  BY DEF IInv
<1> QED BY Invariance, <1>1, PTL
===============================================================================
