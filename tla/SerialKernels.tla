----------------------------- MODULE SerialKernels -----------------------------
(***************************************************************************)
(* One call of a single-threaded kernel: gemm_naive, gemm_ikj,             *)
(* gemm_blocked, gemm_packed_b, gemm_microkernel_4x8 or gemm_avx2_4x8.     *)
(*                                                                         *)
(* FP32 addition is not associative, so the value of an element of C is    *)
(* kept as the sequence of the products added up in it, in the order of    *)
(* the additions.  A product <<a, b>> names the element a of A and the     *)
(* element b of B the kernel read: <<i, k>> and <<k, j>> if all is well.   *)
(* What C held before the call is the sequence Old.  C is addressed as the *)
(* row-major buffer it is, so a store past the end of a row hits the next. *)
(*                                                                         *)
(* The innermost loop over j writes different elements and is one step.    *)
(***************************************************************************)
EXTENDS PackedLayout, MicroTiles, SequencesExt

CONSTANT Calls \* the argument records the calls are made with

Kernels == {"naive", "ikj", "blocked", "packed", "micro", "avx2"}

\* The kernels that read B through a PackedB, and those that clear C first.
Packed == {"packed", "micro", "avx2"}
MicroKernels == {"micro", "avx2"}
Clearing == {"ikj", "blocked", "packed"}

\* matching is the shape test of the kernel, cpu the answer of
\* cpu_supports_avx2_fma.  A block of 0 reaches only gemm_blocked: a PackedB
\* with block size 0 cannot be constructed.
ASSUME CallsAssumption ==
  Calls \subseteq
    {c \in [kernel : Kernels, rows : Nat \ {0}, cols : Nat \ {0}, depth : Nat \ {0},
            block : Nat, matching : BOOLEAN, cpu : BOOLEAN] :
       c.kernel \in Packed => c.block # 0}

VARIABLES
  call, \* the arguments
  pc,   \* "validate", "clear", "compute", or how the call ended
  c,    \* the buffer of C
  pos,  \* the loop variables
  acc   \* the accumulators of the micro-tile, by row and column

vars == <<call, pc, c, pos, acc>>

Elements == (0 .. call.rows - 1) \X (0 .. call.cols - 1)

\* Matrix::operator() of C, and the offsets data() may be used with.
Offset(i, j) == i * call.cols + j
Offsets == 0 .. call.rows * call.cols - 1

\* No element of a matrix, and a term no kernel can add.
Nowhere == <<-1, -1>>
Old == <<<<Nowhere, Nowhere>>>>

\* What a PackedB holds: Packing shows that pack_b leaves it so.
PackedValue(offset) ==
  IF \E e \in BElements(call) : DocumentedIndex(e[1], e[2], call) = offset
  THEN CHOOSE e \in BElements(call) : DocumentedIndex(e[1], e[2], call) = offset
  ELSE Nowhere

\* The dot product in the order of the naive kernel and of the FP64 reference.
Dot(e) == [n \in 1 .. call.depth |-> <<<<e[1], n - 1>>, <<n - 1, e[2]>>>>]

\* row is the row of the micro-tile that is stored next.
Start == [ii |-> 0, jj |-> 0, kk |-> 0, i |-> 0, j |-> 0, k |-> 0, row |-> 0]

\* accumulators{} and _mm256_setzero_ps.
Zeros == [r \in (0 .. MicroRows - 1) \X (0 .. MicroCols - 1) |-> <<>>]

Init ==
  /\ call \in Calls
  /\ pc = "validate"
  /\ c = [o \in Offsets |-> Old]
  /\ pos = Start
  /\ acc = Zeros
-------------------------------------------------------------------------------
Accepted ==
  /\ call.matching
  /\ call.kernel = "blocked" => call.block # 0
  /\ call.kernel = "avx2" => call.cpu

Reject ==
  /\ pc = "validate"
  /\ ~Accepted
  /\ pc' = "rejected"
  /\ UNCHANGED <<call, c, pos, acc>>

Accept ==
  /\ pc = "validate"
  /\ Accepted
  /\ pc' = IF call.kernel \in Clearing THEN "clear" ELSE "compute"
  /\ UNCHANGED <<call, c, pos, acc>>

SlipNoClear ==
  /\ pc = "clear"
  /\ pc' = "compute"
  /\ UNCHANGED <<call, c, pos, acc>>

\* The loops or the std::fill that set C to 0.0F, once per call.
Clear ==
  /\ pc = "clear"
  /\ c' = [o \in Offsets |-> <<>>]
  /\ pc' = "compute"
  /\ UNCHANGED <<call, pos, acc>>
-------------------------------------------------------------------------------
(* naive: one element per step, summed up in a register *)

NaiveElement ==
  /\ pc = "compute" /\ call.kernel = "naive" /\ pos.i < call.rows
  /\ c' = [c EXCEPT ![Offset(pos.i, pos.j)] =
             [n \in 1 .. call.depth |-> <<<<pos.i, n - 1>>, <<n - 1, pos.j>>>>]]
  /\ pos' = IF pos.j + 1 < call.cols
            THEN [pos EXCEPT !.j = @ + 1]
            ELSE [pos EXCEPT !.i = @ + 1, !.j = 0]
  /\ UNCHANGED <<call, pc, acc>>
-------------------------------------------------------------------------------
(* ikj, blocked and packed: C(i, j) += A(i, k) * B(k, j) for a run of columns *)

\* c(i, j) += a_value * B[j] for the columns j of the inner loop.
AddRow(i, k, columns, B) ==
  c' = [o \in Offsets |->
          LET j == o - Offset(i, 0)
          IN  IF j \in columns THEN Append(c[o], <<<<i, k>>, B[j]>>) ELSE c[o]]

IkjRow ==
  /\ pc = "compute" /\ call.kernel = "ikj" /\ pos.i < call.rows
  /\ AddRow(pos.i, pos.k, 0 .. call.cols - 1, [j \in 0 .. call.cols - 1 |-> <<pos.k, j>>])
  /\ pos' = IF pos.k + 1 < call.depth
            THEN [pos EXCEPT !.k = @ + 1]
            ELSE [pos EXCEPT !.i = @ + 1, !.k = 0]
  /\ UNCHANGED <<call, pc, acc>>

\* i_end, j_end and k_end of a block.
IEnd == Least(pos.ii + call.block, call.rows)
JEnd == Least(pos.jj + call.block, call.cols)
KEnd == Least(pos.kk + call.block, call.depth)

\* The loops ii, jj, kk, i, k of gemm_blocked and gemm_packed_b, in that order.
SlipKeepK ==
  IF pos.k + 1 < KEnd
  THEN [pos EXCEPT !.k = @ + 1]
  ELSE IF pos.i + 1 < IEnd
  THEN [pos EXCEPT !.i = @ + 1, !.k = 0]
  ELSE IF pos.kk + call.block < call.depth
  THEN [pos EXCEPT !.kk = @ + call.block, !.k = pos.kk + call.block, !.i = pos.ii]
  ELSE IF pos.jj + call.block < call.cols
  THEN [pos EXCEPT !.jj = @ + call.block, !.kk = 0, !.k = 0, !.i = pos.ii]
  ELSE [Start EXCEPT !.ii = pos.ii + call.block, !.i = pos.ii + call.block]

NextBlockRow ==
  IF pos.k + 1 < KEnd
  THEN [pos EXCEPT !.k = @ + 1]
  ELSE IF pos.i + 1 < IEnd
  THEN [pos EXCEPT !.i = @ + 1, !.k = pos.kk]
  ELSE IF pos.kk + call.block < call.depth
  THEN [pos EXCEPT !.kk = @ + call.block, !.k = pos.kk + call.block, !.i = pos.ii]
  ELSE IF pos.jj + call.block < call.cols
  THEN [pos EXCEPT !.jj = @ + call.block, !.kk = 0, !.k = 0, !.i = pos.ii]
  ELSE [Start EXCEPT !.ii = pos.ii + call.block, !.i = pos.ii + call.block]

BlockedRow ==
  /\ pc = "compute" /\ call.kernel = "blocked" /\ pos.ii < call.rows
  /\ AddRow(pos.i, pos.k, pos.jj .. JEnd - 1, [j \in pos.jj .. JEnd - 1 |-> <<pos.k, j>>])
  /\ pos' = NextBlockRow
  /\ UNCHANGED <<call, pc, acc>>

\* The element of B that gemm_packed_b multiplies with A(i, k) for column j.
PackedRowElement(j) ==
  PackedValue(PackedIndex(pos.kk, pos.k - pos.kk, pos.jj, j - pos.jj, call))

PackedRow ==
  /\ pc = "compute" /\ call.kernel = "packed" /\ pos.ii < call.rows
  /\ AddRow(pos.i, pos.k, pos.jj .. JEnd - 1,
            [j \in pos.jj .. JEnd - 1 |-> PackedRowElement(j)])
  /\ pos' = NextBlockRow
  /\ UNCHANGED <<call, pc, acc>>
-------------------------------------------------------------------------------
(* micro and avx2: a micro-tile is summed up in registers and stored once *)

Walk == [ii |-> pos.ii, jj |-> pos.jj, i |-> pos.i, j |-> pos.j]

\* The loops of the micro-tile: rows and columns up to the counts the walk
\* passes to the portable code, whole registers in the AVX2 code.
Vector == call.kernel = "avx2" /\ IsFullTile(Walk, call, call.rows)
TileRows ==
  0 .. (IF Vector THEN MicroRows ELSE RowCount(Walk, call, call.rows)) - 1
Lanes == 0 .. (IF Vector THEN MicroCols ELSE ColumnCount(Walk, call)) - 1

\* packed_tile + k * block_size + column_offset + column
SlipNoColumnOffset(lane) ==
  PackedIndex(pos.kk, pos.k - pos.kk, pos.jj, lane, call)

LoadAddress(lane) ==
  PackedIndex(pos.kk, pos.k - pos.kk, pos.jj, pos.j + lane, call)

InTile == pc = "compute" /\ call.kernel \in MicroKernels /\ HasTile(Walk, call.rows)

\* One iteration over k: every accumulator adds its product.
MultiplyAdd ==
  /\ InTile /\ pos.kk < call.depth
  /\ acc' = [r \in DOMAIN acc |->
               IF r \in TileRows \X Lanes
               THEN Append(acc[r], <<<<pos.i + r[1], pos.k>>, PackedValue(LoadAddress(r[2]))>>)
               ELSE acc[r]]
  /\ pos' = IF pos.k + 1 < KEnd
            THEN [pos EXCEPT !.k = @ + 1]
            ELSE [pos EXCEPT !.kk = @ + call.block, !.k = pos.kk + call.block]
  /\ UNCHANGED <<call, pc, c>>

SlipKeepAccumulators == acc

\* The accumulators the next micro-tile begins with.
FreshAccumulators == Zeros

\* The loop variables at the begin of the micro-tile t.
BeginTile(t) == [Start EXCEPT !.ii = t.ii, !.jj = t.jj, !.i = t.i, !.j = t.j]

\* After the last k the rows of the micro-tile are stored one by one; after the
\* last of them the walk goes on.
StoreRow ==
  /\ InTile /\ pos.kk >= call.depth
  /\ c' = [o \in Offsets |->
             LET lane == o - Offset(pos.i + pos.row, pos.jj + pos.j)
             IN  IF lane \in Lanes THEN acc[<<pos.row, lane>>] ELSE c[o]]
  /\ IF pos.row + 1 \in TileRows
     THEN pos' = [pos EXCEPT !.row = @ + 1] /\ acc' = acc
     ELSE pos' = BeginTile(NextTile(Walk, call, call.rows)) /\ acc' = FreshAccumulators
  /\ UNCHANGED <<call, pc>>
-------------------------------------------------------------------------------
\* The outermost loop ends.
Return ==
  /\ pc = "compute"
  /\ (IF call.kernel \in {"naive", "ikj"} THEN pos.i ELSE pos.ii) >= call.rows
  /\ pc' = "returned"
  /\ UNCHANGED <<call, c, pos, acc>>

Next ==
  \/ Reject \/ Accept \/ Clear
  \/ NaiveElement \/ IkjRow \/ BlockedRow \/ PackedRow \/ MultiplyAdd \/ StoreRow
  \/ Return

Spec == Init /\ [][Next]_vars

\* The caller's thread runs the kernel to its end.
FairSpec == Spec /\ WF_vars(Next)
-------------------------------------------------------------------------------
C(e) == c[Offset(e[1], e[2])]

TypeOK ==
  /\ call \in Calls
  /\ pc \in {"validate", "clear", "compute", "returned", "rejected"}
  /\ pos \in [DOMAIN Start -> Nat]
  /\ DOMAIN c = Offsets
  /\ \A o \in Offsets : Len(c[o]) <= call.depth + Len(Old)
  /\ DOMAIN acc = DOMAIN Zeros

\* At every moment an element holds what it held before the call or a sum of
\* the first products of its dot product: no product is added twice, left out,
\* added out of order or built from the wrong element of B (a padding zero, a
\* neighbour in the packed tile), and nothing is added to the old contents.
AscendingSums ==
  \A e \in Elements :
    \/ C(e) = Old /\ (pc = "compute" => call.kernel \notin Clearing)
    \/ IsPrefix(C(e), Dot(e))

\* All kernels add the K products of an element in ascending k, and the
\* register kernels never leave a partial sum in C: the error analysis of
\* docs/numerical-verification.md is about this one order.
RegisterKernelsStoreOnce ==
  call.kernel \notin Clearing => \A e \in Elements : C(e) \in {Old, Dot(e)}

\* The unchecked accesses of the register kernels.  A load of a micro-tile stays
\* inside the buffer of the PackedB and never takes a padding zero for an
\* element of B; a store, vectors included, stays inside the row of C it is for.
AccessesInside ==
  InTile => \A row \in TileRows, lane \in Lanes :
    /\ <<pos.i + row, pos.jj + pos.j + lane>> \in Elements
    /\ pos.kk < call.depth =>
         LoadAddress(lane) \in (0 .. ElementCount(call) - 1) \ Padding(call)

\* The call ends, whatever the block size is compared with the matrix.
Terminates == <>(pc \in {"returned", "rejected"})
-------------------------------------------------------------------------------
Contract == INSTANCE GemmContract WITH
  elements <- Elements,
  product <- {e \in Elements : C(e) = Dot(e)},
  outcome <- IF pc \in {"returned", "rejected"} THEN pc ELSE "running"

\* Every kernel keeps the same contract as the parallel one.
KeepsContract == Contract!ContractSpec
===============================================================================
