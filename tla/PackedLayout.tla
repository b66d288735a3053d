----------------------------- MODULE PackedLayout -----------------------------
(***************************************************************************)
(* The tile-major layout of class PackedB.  A shape is a record with at    *)
(* least the fields depth (K, rows_ of PackedB), cols (N) and block.       *)
(***************************************************************************)
EXTENDS SizeMath

KTileCount(s) == CeilDiv(s.depth, s.block)
NTileCount(s) == CeilDiv(s.cols, s.block)
TileElements(s) == s.block * s.block
ElementCount(s) == KTileCount(s) * NTileCount(s) * TileElements(s)

\* (The definitions named Slip... are plausible mistakes in the definition after
\* them.  No specification uses them; they show which property notices.)
SlipKStride(kk, k, jj, j, s) ==
  ((kk \div s.block) * KTileCount(s) + jj \div s.block) * TileElements(s)
  + k * s.block + j

SlipTransposedTile(kk, k, jj, j, s) ==
  ((kk \div s.block) * NTileCount(s) + jj \div s.block) * TileElements(s)
  + j * s.block + k

\* Where row k and column j of the tile with corner (kk, jj) lies in the
\* buffer: packed_tile + k * block_size + j.  pack_b writes through this
\* address and every kernel that consumes a PackedB reads through it.
PackedIndex(kk, k, jj, j, s) ==
  ((kk \div s.block) * NTileCount(s) + jj \div s.block) * TileElements(s)
  + k * s.block + j

\* The same for element (k, j) of B, in the form of the address formula of
\* docs/experiments/phase1-packing.md.
DocumentedIndex(k, j, s) ==
  ((k \div s.block) * CeilDiv(s.cols, s.block) + j \div s.block) * s.block * s.block
  + (k % s.block) * s.block + (j % s.block)

\* The elements of B, and the offsets of the buffer that belong to none.
BElements(s) == (0 .. s.depth - 1) \X (0 .. s.cols - 1)
Padding(s) ==
  (0 .. ElementCount(s) - 1) \ {DocumentedIndex(e[1], e[2], s) : e \in BElements(s)}
===============================================================================
