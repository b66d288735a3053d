------------------------------ MODULE MicroTiles ------------------------------
(***************************************************************************)
(* The walk of gemm_avx2_row_range over a row range of C, one micro-tile   *)
(* at a time.  The four loop variables of the code form a record           *)
(*                                                                         *)
(*    t = [ii, jj, i, j]                                                   *)
(*                                                                         *)
(* (ii, jj) is the corner of the cache block, i the first row of the       *)
(* micro-tile and j its column offset inside the block.  p is the problem: *)
(* a record with at least the fields rows, cols and block (block_size).    *)
(* row_end is the end of the range.                                        *)
(* gemm_microkernel_portable_impl walks the same nest from row 0 to rows.  *)
(***************************************************************************)
EXTENDS SizeMath

CONSTANTS MicroRows, \* kMicroRows, 4 in the code
          MicroCols  \* kMicroCols, 8 in the code

ASSUME MicroShapeAssumption ==
  /\ MicroRows \in Nat \ {0}
  /\ MicroCols \in Nat \ {0}

Tile == [ii : Nat, jj : Nat, i : Nat, j : Nat]

\* (The definitions named Slip... are plausible mistakes in the definition after
\* them.  No specification uses them; they show which property notices.)
SlipUnclamped(t, p, row_end) == t.ii + p.block

\* i_end, j_extent, row_count and column_count of the code.
RowLimit(t, p, row_end) == Least(t.ii + p.block, row_end)
ColumnExtent(t, p) == Least(p.block, p.cols - t.jj)
RowCount(t, p, row_end) == Least(MicroRows, RowLimit(t, p, row_end) - t.i)
ColumnCount(t, p) == Least(MicroCols, ColumnExtent(t, p) - t.j)

SlipEitherFull(t, p, row_end) ==
  \/ RowCount(t, p, row_end) = MicroRows
  \/ ColumnCount(t, p) = MicroCols

SlipHoistedTest(t, p, row_end) ==
  /\ t.ii + p.block <= row_end
  /\ ColumnCount(t, p) = MicroCols

\* The dispatch: only a full micro-tile goes to the AVX2 code.
IsFullTile(t, p, row_end) ==
  /\ RowCount(t, p, row_end) = MicroRows
  /\ ColumnCount(t, p) = MicroCols

\* The elements of C a micro-tile stores.  compute_avx2_microtile_4x8 stores
\* MicroRows vectors of MicroCols elements, whatever the bounds are;
\* compute_portable_microtile stores row_count x column_count elements.
Rectangle(t, height, width) ==
  (t.i .. t.i + height - 1) \X (t.jj + t.j .. t.jj + t.j + width - 1)

Footprint(t, p, row_end) ==
  IF IsFullTile(t, p, row_end)
  THEN Rectangle(t, MicroRows, MicroCols)
  ELSE Rectangle(t, RowCount(t, p, row_end), ColumnCount(t, p))

\* The loop variables on entry, and after the micro-tile t: the innermost loop
\* that has an iteration left advances and restarts the ones inside it.  Every
\* inner loop has a first iteration because block, cols and the range are not
\* empty when it is entered.
At(ii, jj, i, j) == [ii |-> ii, jj |-> jj, i |-> i, j |-> j]

FirstTile(row_begin) == At(row_begin, 0, row_begin, 0)

SlipSameBlock(t, p, row_end) ==
  IF t.j + MicroCols < ColumnExtent(t, p)
  THEN At(t.ii, t.jj, t.i, t.j + MicroCols)
  ELSE IF t.i + MicroRows < RowLimit(t, p, row_end)
  THEN At(t.ii, t.jj, t.i + MicroRows, 0)
  ELSE IF t.jj + p.block < p.cols
  THEN At(t.ii, t.jj + p.block, t.ii, 0)
  ELSE FirstTile(t.ii)

NextTile(t, p, row_end) ==
  IF t.j + MicroCols < ColumnExtent(t, p)
  THEN At(t.ii, t.jj, t.i, t.j + MicroCols)
  ELSE IF t.i + MicroRows < RowLimit(t, p, row_end)
  THEN At(t.ii, t.jj, t.i + MicroRows, 0)
  ELSE IF t.jj + p.block < p.cols
  THEN At(t.ii, t.jj + p.block, t.ii, 0)
  ELSE FirstTile(t.ii + p.block)

\* The outer loop condition ii < row_end.
HasTile(t, row_end) == t.ii < row_end
-------------------------------------------------------------------------------
\* The elements of the range that a walk at tile t has already stored: earlier
\* blocks, earlier column blocks of this block, the rows of micro-tiles above
\* in this column block, and the micro-tiles to the left.
Before(e, t, p, limit) ==
  \/ e[1] < t.ii
  \/ e[1] < RowLimit(t, p, limit) /\ e[2] < t.jj
  \/ e[1] < t.i /\ e[2] < t.jj + ColumnExtent(t, p)
  \/ e[1] < t.i + RowCount(t, p, limit) /\ e[2] < t.jj + t.j

\* The loop variables of a walk that has a micro-tile left are in their bounds.
TileInBounds(t, p, first, limit) ==
  /\ first <= t.ii
  /\ HasTile(t, limit) =>
       /\ t.ii <= t.i /\ t.i < RowLimit(t, p, limit)
       /\ t.jj < p.cols /\ t.j < ColumnExtent(t, p)
===============================================================================
