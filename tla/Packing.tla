-------------------------------- MODULE Packing --------------------------------
(***************************************************************************)
(* A PackedB buffer and the calls of pack_b on it.  The buffer is          *)
(* allocated once and packed again and again (benchmark_shape packs it     *)
(* repeats + 1 times), with a B whose contents may have changed.  version  *)
(* numbers the contents of B; the value <<v, k, j>> is element (k, j) of   *)
(* version v, and Zero is the 0.0F of the fill.                            *)
(***************************************************************************)
EXTENDS PackedLayout

CONSTANTS
  Shapes,  \* the shapes [depth, cols, block] of the buffers
  MaxPacks \* bound: how often a buffer is packed

ASSUME ShapesAssumption ==
  Shapes \subseteq [depth : Nat \ {0}, cols : Nat \ {0}, block : Nat \ {0}]

ASSUME MaxPacksAssumption == MaxPacks \in Nat \ {0}

VARIABLES
  shape,   \* rows_, cols_ and block_size_ of the PackedB
  version, \* the contents B has now
  data,    \* the buffer
  pc,      \* "idle", or where pack_b is: "fill", "copy"
  held,    \* the version the buffer was last packed with, 0 before
  kk, jj, k \* the loop variables of pack_b

vars == <<shape, version, data, pc, held, kk, jj, k>>

Zero == <<0, 0, 0>>
Offsets == 0 .. ElementCount(shape) - 1

KExtent == Least(shape.block, shape.depth - kk)
JExtent == Least(shape.block, shape.cols - jj)

\* The constructor allocates the whole buffer with 0.0F.
Init ==
  /\ shape \in Shapes
  /\ version = 1
  /\ data = [o \in Offsets |-> Zero]
  /\ pc = "idle"
  /\ held = 0
  /\ kk = 0 /\ jj = 0 /\ k = 0

\* The caller changes B between two packs.
ChangeB ==
  /\ pc = "idle"
  /\ version = held
  /\ version < MaxPacks
  /\ version' = version + 1
  /\ UNCHANGED <<shape, data, pc, held, kk, jj, k>>

\* A B of another shape is refused before the buffer is touched: no action.
Call ==
  /\ pc = "idle"
  /\ pc' = "fill"
  /\ kk' = 0 /\ jj' = 0 /\ k' = 0
  /\ UNCHANGED <<shape, version, data, held>>

SlipNoFill ==
  /\ pc = "fill"
  /\ pc' = "copy"
  /\ UNCHANGED <<shape, version, data, held, kk, jj, k>>

\* std::fill over ceil_div(K, block) * n_tiles * tile_elements elements.
Fill ==
  /\ pc = "fill"
  /\ data' = [o \in Offsets |-> Zero]
  /\ pc' = "copy"
  /\ UNCHANGED <<shape, version, held, kk, jj, k>>

SlipFullRow == {PackedIndex(kk, k, jj, j, shape) : j \in 0 .. shape.block - 1}

\* The offsets one std::copy_n writes.
Row == {PackedIndex(kk, k, jj, j, shape) : j \in 0 .. JExtent - 1}

\* The element of B that is copied to offset o: both pointers advance together.
SourceOf(o) == <<kk + k, jj + (o - PackedIndex(kk, k, jj, 0, shape))>>

\* One row of a tile is copied, and the loops kk, jj, k go on to the next one.
CopyRow ==
  /\ pc = "copy"
  /\ data' = [o \in Offsets |->
                IF o \in Row
                THEN <<version, SourceOf(o)[1], SourceOf(o)[2]>>
                ELSE data[o]]

NextRow ==
  /\ CopyRow
  /\ k + 1 < KExtent
  /\ k' = k + 1
  /\ UNCHANGED <<shape, version, pc, held, kk, jj>>

NextColumnTile ==
  /\ CopyRow
  /\ k + 1 = KExtent
  /\ jj + shape.block < shape.cols
  /\ jj' = jj + shape.block /\ k' = 0
  /\ UNCHANGED <<shape, version, pc, held, kk>>

NextKTile ==
  /\ CopyRow
  /\ k + 1 = KExtent
  /\ jj + shape.block >= shape.cols
  /\ kk + shape.block < shape.depth
  /\ kk' = kk + shape.block /\ jj' = 0 /\ k' = 0
  /\ UNCHANGED <<shape, version, pc, held>>

Return ==
  /\ CopyRow
  /\ k + 1 = KExtent
  /\ jj + shape.block >= shape.cols
  /\ kk + shape.block >= shape.depth
  /\ pc' = "idle"
  /\ held' = version
  /\ UNCHANGED <<shape, version, kk, jj, k>>

Next ==
  \/ ChangeB \/ Call \/ Fill
  \/ NextRow \/ NextColumnTile \/ NextKTile \/ Return

Spec == Init /\ [][Next]_vars
-------------------------------------------------------------------------------
Values == (0 .. MaxPacks) \X (0 .. shape.depth - 1) \X (0 .. shape.cols - 1)

TypeOK ==
  /\ shape \in Shapes
  /\ version \in 1 .. MaxPacks
  /\ held \in 0 .. version
  /\ pc \in {"idle", "fill", "copy"}
  /\ data \in [Offsets -> Values]
  /\ kk \in 0 .. shape.depth - 1 /\ jj \in 0 .. shape.cols - 1
  /\ k \in 0 .. shape.block - 1

\* Every copy writes inside the allocated buffer and reads inside its row of B,
\* also in the short tiles at the right and lower edge.
CopyInBounds ==
  pc = "copy" =>
    /\ Row \subseteq Offsets
    /\ \A o \in Row : SourceOf(o) \in BElements(shape)

\* No two elements of B share an offset, and none has one in the padding: a copy
\* meets only zeros of the fill, and those of the padding are never overwritten.
EachOffsetOnce ==
  pc = "copy" =>
    /\ \A o \in Row \cap Offsets : data[o] = Zero
    /\ Row \cap Padding(shape) = {}

\* While packing, nothing of the previous contents is left in the buffer, so a
\* repack cannot mix two matrices.
NoTraceOfOldB ==
  pc = "copy" => \A o \in Offsets : data[o] = Zero \/ data[o][1] = version

\* A packed buffer holds B, every element at the address the packing report
\* documents, and zeros in the padding of the edge tiles.
HoldsB ==
  pc = "idle" /\ held > 0 =>
    /\ \A e \in BElements(shape) :
         data[DocumentedIndex(e[1], e[2], shape)] = <<held, e[1], e[2]>>
    /\ \A o \in Padding(shape) : data[o] = Zero
===============================================================================
