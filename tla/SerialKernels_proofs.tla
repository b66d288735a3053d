-------------------------- MODULE SerialKernels_proofs --------------------------
(***************************************************************************)
(* What TLC checks of SerialKernels on small problems, proved for all      *)
(* problem sizes, block sizes and micro-tile shapes.                       *)
(***************************************************************************)
EXTENDS SerialKernels, Tiling_proofs, SequenceTheorems

-------------------------------------------------------------------------------
(* The inductive invariant *)

\* The first m products of the dot product of e, in order.
Terms(e, m) == [n \in 1 .. m |-> <<<<e[1], n - 1>>, <<n - 1, e[2]>>>>]

\* gemm_naive has left the elements before its loop variables complete.
NaiveDone(e) == e[1] < pos.i \/ (e[1] = pos.i /\ e[2] < pos.j)

\* How many products gemm_ikj has added to e.
IkjTerms(e) ==
  IF e[1] < pos.i THEN call.depth ELSE IF e[1] = pos.i THEN pos.k ELSE 0

\* The same for the blocked kernels: the block rows above and the column blocks
\* to the left are complete; in the block the rows above have reached the end
\* of the depth block, the rows below its beginning.
BlockTerms(e) ==
  IF e[1] < pos.ii THEN call.depth
  ELSE IF e[1] >= IEnd THEN 0
  ELSE IF e[2] < pos.jj THEN call.depth
  ELSE IF e[2] >= JEnd THEN 0
  ELSE IF e[1] < pos.i THEN KEnd
  ELSE IF e[1] = pos.i THEN pos.k
  ELSE pos.kk

\* What a register kernel has stored: the micro-tiles before the current one and
\* the rows of the current one above the next.
InLanes(y) == pos.jj + pos.j <= y /\ y < pos.jj + pos.j + ColumnCount(Walk, call)

Stored(e) ==
  \/ Before(e, Walk, call, call.rows)
  \/ pos.i <= e[1] /\ e[1] < pos.i + pos.row /\ InLanes(e[2])

\* What the elements of C hold at every moment.
Values ==
  \A e \in Elements :
    /\ pc \in {"validate", "clear", "rejected"} => C(e) = Old
    /\ pc = "returned" => C(e) = Dot(e)
    /\ pc = "compute" =>
         /\ call.kernel = "naive" => C(e) = IF NaiveDone(e) THEN Dot(e) ELSE Old
         /\ call.kernel = "ikj" => C(e) = Terms(e, IkjTerms(e))
         /\ call.kernel \in {"blocked", "packed"} => C(e) = Terms(e, BlockTerms(e))
         /\ call.kernel \in MicroKernels => C(e) = IF Stored(e) THEN Dot(e) ELSE Old

\* Where the loop variables of each nest may stand.
BlockBounds ==
  pos.ii < call.rows =>
    /\ pos.jj < call.cols /\ pos.jj % call.block = 0
    /\ pos.kk < call.depth /\ pos.kk % call.block = 0
    /\ pos.ii <= pos.i /\ pos.i < IEnd
    /\ pos.kk <= pos.k /\ pos.k < KEnd

TileBounds ==
  /\ TileInBounds(Walk, call, 0, call.rows)
  /\ HasTile(Walk, call.rows) =>
       /\ pos.jj % call.block = 0 /\ pos.kk % call.block = 0
       /\ IF pos.kk < call.depth
          THEN pos.kk <= pos.k /\ pos.k < KEnd /\ pos.row = 0
          ELSE pos.k >= call.depth /\ pos.row < RowCount(Walk, call, call.rows)

Bounds ==
  /\ call.kernel = "naive" => pos.j < call.cols
  /\ call.kernel = "ikj" => pos.k < call.depth
  /\ call.kernel \in {"blocked", "packed"} => BlockBounds
  /\ call.kernel \in MicroKernels => TileBounds

\* The accumulators of a micro-tile hold its sums up to the depth reached.
Accumulators ==
  \A r \in TileRows \X Lanes :
    acc[r] = Terms(<<pos.i + r[1], pos.jj + pos.j + r[2]>>, Least(pos.k, call.depth))

Types ==
  /\ call \in Calls
  /\ pc \in {"validate", "clear", "compute", "returned", "rejected"}
  /\ pos \in [DOMAIN Start -> Nat]
  /\ DOMAIN c = Offsets
  /\ DOMAIN acc = DOMAIN Zeros

Progress ==
  /\ pc \in {"validate", "clear"} => pos = Start /\ acc = Zeros
  /\ pc = "clear" => call.kernel \in Clearing
  /\ pc \in {"clear", "compute"} => Accepted
  /\ pc = "compute" => Bounds
  /\ InTile => Accumulators

IInv == Types /\ Progress /\ Values

\* An element that holds its dot product keeps it.
Kept == \A e \in Elements : C(e) = Dot(e) => C(e)' = Dot(e)
-------------------------------------------------------------------------------
(* Arguments, loop variables, the row-major buffer *)

LEMMA CallFacts ==
  ASSUME call \in Calls
  PROVE  /\ call.rows \in Nat \ {0} /\ call.cols \in Nat \ {0} /\ call.depth \in Nat \ {0}
         /\ call.block \in Nat
         /\ call.kernel \in Kernels
         /\ call.kernel \in Packed => call.block # 0
BY CallsAssumption

LEMMA Accepting ==
  ASSUME call \in Calls, Accepted, call.kernel \notin {"naive", "ikj"}
  PROVE  call.block \in Nat \ {0}
BY CallFacts DEF Accepted, Kernels, Packed

LEMMA Fields ==
  ASSUME NEW p \in [DOMAIN Start -> Nat]
  PROVE  /\ p.ii \in Nat /\ p.jj \in Nat /\ p.kk \in Nat /\ p.i \in Nat /\ p.k \in Nat
         /\ p.j \in Nat /\ p.row \in Nat
BY DEF Start

\* A loop that advances and restarts the ones inside it leaves a place.
LEMMA Moves ==
  ASSUME NEW p \in [DOMAIN Start -> Nat]
  PROVE  /\ \A x, y \in Nat : [p EXCEPT !.i = x, !.j = y] \in [DOMAIN Start -> Nat]
         /\ \A x, y \in Nat : [p EXCEPT !.i = x, !.k = y] \in [DOMAIN Start -> Nat]
         /\ \A x, y \in Nat : [p EXCEPT !.kk = x, !.k = y] \in [DOMAIN Start -> Nat]
         /\ \A x, y, z \in Nat : [p EXCEPT !.kk = x, !.k = y, !.i = z] \in [DOMAIN Start -> Nat]
         /\ \A w, x, y, z \in Nat : [p EXCEPT !.jj = w, !.kk = x, !.k = y, !.i = z] \in [DOMAIN Start -> Nat]
         /\ \A x, y \in Nat : [p EXCEPT !.ii = x, !.i = y] \in [DOMAIN Start -> Nat]
         /\ \A w, x, y, z \in Nat : [p EXCEPT !.ii = w, !.jj = x, !.i = y, !.j = z] \in [DOMAIN Start -> Nat]
<1>1. ASSUME NEW x \in Nat, NEW y \in Nat
      PROVE  [p EXCEPT !.i = x, !.j = y] \in [DOMAIN Start -> Nat]
  BY DEF Start
<1>2. ASSUME NEW x \in Nat, NEW y \in Nat
      PROVE  [p EXCEPT !.i = x, !.k = y] \in [DOMAIN Start -> Nat]
  BY DEF Start
<1>3. ASSUME NEW x \in Nat, NEW y \in Nat
      PROVE  [p EXCEPT !.kk = x, !.k = y] \in [DOMAIN Start -> Nat]
  BY DEF Start
<1>4. ASSUME NEW x \in Nat, NEW y \in Nat, NEW z \in Nat
      PROVE  [p EXCEPT !.kk = x, !.k = y, !.i = z] \in [DOMAIN Start -> Nat]
  BY DEF Start
<1>5. ASSUME NEW w \in Nat, NEW x \in Nat, NEW y \in Nat, NEW z \in Nat
      PROVE  [p EXCEPT !.jj = w, !.kk = x, !.k = y, !.i = z] \in [DOMAIN Start -> Nat]
  BY DEF Start
<1>6. ASSUME NEW x \in Nat, NEW y \in Nat
      PROVE  [p EXCEPT !.ii = x, !.i = y] \in [DOMAIN Start -> Nat]
  BY DEF Start
<1>7. ASSUME NEW w \in Nat, NEW x \in Nat, NEW y \in Nat, NEW z \in Nat
      PROVE  [p EXCEPT !.ii = w, !.jj = x, !.i = y, !.j = z] \in [DOMAIN Start -> Nat]
  BY DEF Start
<1> QED BY <1>1, <1>2, <1>3, <1>4, <1>5, <1>6, <1>7

LEMMA TileStart ==
  \A w, x, y, z \in Nat :
    [Start EXCEPT !.ii = w, !.jj = x, !.i = y, !.j = z] \in [DOMAIN Start -> Nat]
<1>1. Start \in [DOMAIN Start -> Nat]
  BY DEF Start
<1>2. \A p \in [DOMAIN Start -> Nat] : \A w, x, y, z \in Nat :
        [p EXCEPT !.ii = w, !.jj = x, !.i = y, !.j = z] \in [DOMAIN Start -> Nat]
  BY Moves
<1> QED BY <1>1, <1>2

\* In a row-major buffer a run of columns of a row is an interval of offsets.
LEMMA RowRun ==
  ASSUME NEW n \in Nat \ {0}, NEW x \in Nat, NEW y \in 0 .. n - 1,
         NEW i \in Nat, NEW a \in Nat, NEW b \in 0 .. n
  PROVE  /\ (x * n + y) - (i * n + 0) \in a .. b - 1 <=> x = i /\ a <= y /\ y < b
         /\ x = i => (x * n + y) - (i * n + 0) = y
<1>1. x * n \in Nat /\ i * n \in Nat
  BY ProductNat
<1>2. x = i => x * n = i * n
  OBVIOUS
<1>3. x = i => (x * n + y) - (i * n + 0) = y
  BY <1>1, <1>2
<1>4. x < i => x * n + n <= i * n
  BY ProductStep
<1>5. i < x => i * n + n <= x * n
  BY ProductStep
<1>6. (x * n + y) - (i * n + 0) \in a .. b - 1 => x = i
  <2>1. ASSUME x < i PROVE (x * n + y) - (i * n + 0) < 0
    BY <1>1, <1>4, <2>1
  <2>2. ASSUME i < x PROVE (x * n + y) - (i * n + 0) >= n
    BY <1>1, <1>5, <2>2
  <2> QED BY <1>1, <2>1, <2>2
<1> QED BY <1>1, <1>3, <1>6

LEMMA ElementOffsets ==
  ASSUME call \in Calls
  PROVE  /\ \A e \in Elements : Offset(e[1], e[2]) \in Offsets
         /\ \A o \in Offsets : \E e \in Elements : o = Offset(e[1], e[2])
<1>1. call.rows \in Nat \ {0} /\ call.cols \in Nat \ {0}
  BY CallFacts
<1>2. ASSUME NEW e \in Elements PROVE Offset(e[1], e[2]) \in Offsets
  <2>1. e[1] \in 0 .. call.rows - 1 /\ e[2] \in 0 .. call.cols - 1
    BY DEF Elements
  <2> QED BY <1>1, <2>1, PairRange DEF Offset, Offsets
<1>3. ASSUME NEW o \in Offsets PROVE \E e \in Elements : o = Offset(e[1], e[2])
  <2> DEFINE n == call.cols
             q == o \div n
             r == o % n
  <2>1. call.rows * n \in Nat
    BY <1>1, ProductNat
  <2>2. o \in Nat /\ o < call.rows * n
    BY <2>1 DEF Offsets
  <2>3. q \in Nat /\ r \in 0 .. n - 1 /\ o = q * n + r
    BY <1>1, <2>2, Division
  <2> HIDE DEF q, r
  <2>4. q < call.rows
    <3>1. call.rows < q => call.rows * n + n <= q * n
      BY <1>1, <2>3, ProductStep
    <3>2. call.rows = q => call.rows * n = q * n
      OBVIOUS
    <3>3. q * n \in Nat
      BY <1>1, <2>3, ProductNat
    <3> QED BY <1>1, <2>1, <2>2, <2>3, <3>1, <3>2, <3>3
  <2>5. <<q, r>> \in Elements
    BY <1>1, <2>3, <2>4 DEF Elements
  <2>6. o = Offset(q, r)
    BY <2>3 DEF Offset
  <2>7. <<q, r>>[1] = q /\ <<q, r>>[2] = r
    OBVIOUS
  <2> QED BY <2>5, <2>6, <2>7
<1> QED BY <1>2, <1>3

-------------------------------------------------------------------------------
(* Sums *)

\* One more product.
LEMMA NextTerm ==
  ASSUME NEW x, NEW y, NEW m \in Nat
  PROVE  /\ Append(Terms(<<x, y>>, m), <<<<x, m>>, <<m, y>>>>) = Terms(<<x, y>>, m + 1)
         /\ Terms(<<x, y>>, 0) = <<>>
<1> DEFINE S == {<<<<x, n - 1>>, <<n - 1, y>>>> : n \in Nat}
           t == <<<<x, m>>, <<m, y>>>>
           s == Terms(<<x, y>>, m)
           u == Terms(<<x, y>>, m + 1)
<1>1. /\ s = [n \in 1 .. m |-> <<<<x, n - 1>>, <<n - 1, y>>>>]
      /\ u = [n \in 1 .. m + 1 |-> <<<<x, n - 1>>, <<n - 1, y>>>>]
  BY DEF Terms
<1>2. s \in Seq(S) /\ Len(s) = m
  <2>1. \A n \in 1 .. m : <<<<x, n - 1>>, <<n - 1, y>>>> \in S
    OBVIOUS
  <2>2. s \in [1 .. m -> S]
    BY <1>1, <2>1
  <2> HIDE DEF S
  <2> QED BY <2>2, SeqDef, LenProperties
<1>3. t \in S
  <2>1. m + 1 \in Nat /\ (m + 1) - 1 = m
    OBVIOUS
  <2> QED BY <2>1
<1> HIDE DEF S
<1>4. u \in Seq(S) /\ Len(u) = m + 1
  <2>1. \A n \in 1 .. m + 1 : <<<<x, n - 1>>, <<n - 1, y>>>> \in S
    BY DEF S
  <2>2. u \in [1 .. m + 1 -> S]
    BY <1>1, <2>1
  <2> QED BY <2>2, SeqDef, LenProperties
<1>5. /\ Append(s, t) \in Seq(S) /\ Len(Append(s, t)) = m + 1
      /\ \A n \in 1 .. m : Append(s, t)[n] = s[n]
      /\ Append(s, t)[m + 1] = t
  <2> HIDE DEF s, t
  <2> QED BY <1>2, <1>3, AppendProperties
<1>6. u[m + 1] = t
  <2>1. m + 1 \in 1 .. m + 1 /\ (m + 1) - 1 = m
    OBVIOUS
  <2> QED BY <1>1, <2>1
<1>7. \A n \in 1 .. m : u[n] = s[n]
  <2> HIDE DEF s, u
  <2> QED BY <1>1
<1>8. \A n \in 1 .. m + 1 : Append(s, t)[n] = u[n]
  <2> HIDE DEF s, t, u
  <2> QED BY <1>5, <1>6, <1>7
<1>9. Append(s, t) = u
  <2> HIDE DEF s, t, u
  <2> QED BY <1>4, <1>5, <1>8, SeqEqual
<1>10. Terms(<<x, y>>, 0) = <<>>
  BY DEF Terms
<1> QED BY <1>9, <1>10

LEMMA TermAdded ==
  ASSUME NEW e, e = <<e[1], e[2]>>, NEW m \in Nat
  PROVE  Append(Terms(e, m), <<<<e[1], m>>, <<m, e[2]>>>>) = Terms(e, m + 1)
<1> DEFINE x == e[1]
           y == e[2]
<1>1. e = <<x, y>>
  OBVIOUS
<1> HIDE DEF x, y
<1>2. Append(Terms(<<x, y>>, m), <<<<x, m>>, <<m, y>>>>) = Terms(<<x, y>>, m + 1)
  BY NextTerm
<1>3. Append(Terms(e, m), <<<<x, m>>, <<m, y>>>>) = Terms(e, m + 1)
  BY <1>1, <1>2
<1> QED BY <1>3 DEF x, y

\* A part of a sum is a prefix of it.
LEMMA PrefixOfSum ==
  ASSUME NEW e, NEW d \in Nat, NEW m \in 0 .. d
  PROVE  IsPrefix(Terms(e, m), Terms(e, d)) /\ Len(Terms(e, m)) = m
<1> DEFINE S == {<<<<e[1], n - 1>>, <<n - 1, e[2]>>>> : n \in Nat}
           term(n) == <<<<e[1], n - 1>>, <<n - 1, e[2]>>>>
<1>1. ASSUME NEW l \in Nat
      PROVE  /\ Len(Terms(e, l)) = l
             /\ \A n \in 1 .. l : Terms(e, l)[n] = term(n) /\ Terms(e, l)[n] \in S
  <2>1. Terms(e, l) = [n \in 1 .. l |-> term(n)]
    BY DEF Terms
  <2>2. \A n \in 1 .. l : term(n) \in S
    OBVIOUS
  <2> HIDE DEF S, term
  <2>3. Terms(e, l) \in [1 .. l -> S]
    BY <2>1, <2>2
  <2>4. Len(Terms(e, l)) = l
    BY <2>3, SeqDef, LenProperties
  <2> QED BY <2>1, <2>2, <2>4
<1> HIDE DEF S, term
<1>2. m \in Nat /\ m <= d /\ m - 1 + 1 = m
  OBVIOUS
<1>3. ASSUME NEW l \in Nat, m <= l
      PROVE  /\ SubSeq(Terms(e, l), 1, m) \in Seq(S) /\ Len(SubSeq(Terms(e, l), 1, m)) = m
             /\ \A n \in 1 .. m : SubSeq(Terms(e, l), 1, m)[n] = term(n)
  <2> DEFINE s == Terms(e, l)
             u == SubSeq(s, 1, m)
  <2>1. \A n \in 1 .. m : s[n] \in S /\ s[n] = term(n)
    BY <1>1, <1>2, <1>3
  <2>2. /\ u \in Seq(S)
        /\ Len(u) = IF 1 <= m THEN m - 1 + 1 ELSE 0
        /\ \A i \in 1 .. m - 1 + 1 : u[i] = s[1 + i - 1]
    <3> HIDE DEF s
    <3>1. 1 \in Int /\ m \in Int /\ \A i \in 1 .. m : s[i] \in S
      BY <1>2, <2>1
    <3> QED BY <3>1, SubSeqProperties
  <2> HIDE DEF u, s
  <2>3. ASSUME NEW n \in 1 .. m PROVE u[n] = term(n)
    <3>1. n \in 1 .. m - 1 + 1 /\ 1 + n - 1 = n
      BY <1>2
    <3> QED BY <2>1, <2>2, <3>1
  <2>4. Len(u) = m
    BY <1>2, <2>2
  <2> QED BY <2>2, <2>3, <2>4 DEF u, s
<1>4. SubSeq(Terms(e, m), 1, m) = SubSeq(Terms(e, d), 1, m)
  <2> DEFINE u == SubSeq(Terms(e, m), 1, m)
             v == SubSeq(Terms(e, d), 1, m)
  <2>1. u \in Seq(S) /\ Len(u) = m /\ \A n \in 1 .. m : u[n] = term(n)
    BY <1>2, <1>3
  <2>2. v \in Seq(S) /\ Len(v) = m /\ \A n \in 1 .. m : v[n] = term(n)
    BY <1>2, <1>3
  <2> HIDE DEF u, v
  <2>3. u = v
    BY <2>1, <2>2, SeqEqual
  <2> QED BY <2>3 DEF u, v
<1>5. Len(Terms(e, m)) = m /\ Len(Terms(e, d)) = d
  BY <1>1, <1>2
<1> QED BY <1>2, <1>4, <1>5 DEF IsPrefix

LEMMA PartIsNotAll ==
  ASSUME NEW e, NEW m \in Nat, call.depth \in Nat, m < call.depth
  PROVE  Terms(e, m) # Dot(e)
<1>1. Dot(e) = Terms(e, call.depth)
  BY DEF Dot, Terms
<1>2. Len(Terms(e, m)) = m /\ Len(Terms(e, call.depth)) = call.depth
  BY PrefixOfSum
<1> QED BY <1>1, <1>2

-------------------------------------------------------------------------------
(* Reading B through the packed buffer *)

\* The address a kernel computes from the corner of its block leads to the element
\* of B it means, inside the buffer and not in the padding.
LEMMA PackedRead ==
  ASSUME call \in Calls, call.block # 0,
         NEW kk \in Nat, kk % call.block = 0, NEW k \in kk .. kk + call.block - 1,
         k < call.depth,
         NEW jj \in Nat, jj % call.block = 0, NEW d \in 0 .. call.block - 1,
         jj + d < call.cols
  PROVE  LET a == PackedIndex(kk, k - kk, jj, d, call)
         IN  /\ PackedValue(a) = <<k, jj + d>>
             /\ a \in (0 .. ElementCount(call) - 1) \ Padding(call)
<1> DEFINE a == PackedIndex(kk, k - kk, jj, d, call)
           e == <<k, jj + d>>
<1>1. IsShape(call)
  BY CallFacts DEF IsShape
<1>2. e \in BElements(call) /\ e[1] = k /\ e[2] = jj + d
  BY CallFacts DEF BElements
<1>3. a = DocumentedIndex(k, jj + d, call)
  <2>1. call.block \in Nat \ {0}
    BY CallFacts
  <2>2. k - kk \in 0 .. call.block - 1 /\ kk + (k - kk) = k
    BY <2>1
  <2>3. PackedIndex(kk, k - kk, jj, d, call) = DocumentedIndex(kk + (k - kk), jj + d, call)
    BY <1>1, <2>2, IndexAgrees
  <2> QED BY <2>2, <2>3
<1> HIDE DEF a, e
<1>4. a = DocumentedIndex(e[1], e[2], call)
  BY <1>2, <1>3
<1>5. PackedValue(a) = e
  <2>1. \A f \in BElements(call) : DocumentedIndex(f[1], f[2], call) = a => f = e
    BY <1>1, <1>2, <1>4, LayoutInjective
  <2> QED BY <1>2, <1>4, <2>1 DEF PackedValue
<1>6. a \in 0 .. ElementCount(call) - 1
  BY <1>1, <1>2, <1>4, LayoutInjective
<1>7. a \notin Padding(call)
  BY <1>2, <1>4 DEF Padding
<1> QED BY <1>5, <1>6, <1>7 DEF a, e

-------------------------------------------------------------------------------
(* Changes of C *)

\* AddRow adds one product to the elements of a run of columns of one row.
LEMMA RowAdded ==
  ASSUME call \in Calls, call' = call, DOMAIN c = Offsets,
         NEW i \in Nat, NEW k, NEW a \in Nat, NEW b \in 0 .. call.cols, NEW B,
         AddRow(i, k, a .. b - 1, B)
  PROVE  /\ DOMAIN c' = Offsets
         /\ \A e \in Elements :
              C(e)' = IF e[1] = i /\ a <= e[2] /\ e[2] < b
                      THEN Append(C(e), <<<<i, k>>, B[e[2]]>>) ELSE C(e)
<1>1. c' = [o \in Offsets |->
              IF o - Offset(i, 0) \in a .. b - 1
              THEN Append(c[o], <<<<i, k>>, B[o - Offset(i, 0)]>>) ELSE c[o]]
  BY DEF AddRow
<1>2. ASSUME NEW e \in Elements
      PROVE  C(e)' = IF e[1] = i /\ a <= e[2] /\ e[2] < b
                     THEN Append(C(e), <<<<i, k>>, B[e[2]]>>) ELSE C(e)
  <2> DEFINE o == Offset(e[1], e[2])
  <2>1. C(e) = c[o] /\ C(e)' = c'[o]
    BY DEF C, Offset
  <2>2. o \in Offsets
    BY ElementOffsets
  <2>3. /\ o - Offset(i, 0) \in a .. b - 1 <=> e[1] = i /\ a <= e[2] /\ e[2] < b
        /\ e[1] = i => o - Offset(i, 0) = e[2]
    <3> DEFINE n == call.cols
               x == e[1]
               y == e[2]
    <3>1. x \in Nat /\ y \in 0 .. n - 1 /\ n \in Nat \ {0} /\ b \in 0 .. n
      BY CallFacts DEF Elements
    <3>2. o = x * n + y /\ Offset(i, 0) = i * n + 0
      BY DEF Offset
    <3> HIDE DEF n, x, y
    <3>3. /\ (x * n + y) - (i * n + 0) \in a .. b - 1 <=> x = i /\ a <= y /\ y < b
          /\ x = i => (x * n + y) - (i * n + 0) = y
      BY <3>1, RowRun
    <3> QED BY <3>2, <3>3 DEF x, y
  <2> HIDE DEF o
  <2>4. c'[o] = IF o - Offset(i, 0) \in a .. b - 1
                THEN Append(c[o], <<<<i, k>>, B[o - Offset(i, 0)]>>) ELSE c[o]
    BY <1>1, <2>2
  <2>5. CASE e[1] = i /\ a <= e[2] /\ e[2] < b
    BY <2>1, <2>3, <2>4, <2>5, Zenon
  <2>6. CASE ~(e[1] = i /\ a <= e[2] /\ e[2] < b)
    BY <2>1, <2>3, <2>4, <2>6, Zenon
  <2> QED BY <2>5, <2>6
<1> QED BY <1>1, <1>2

-------------------------------------------------------------------------------
(* What a step leaves alone *)

LEMMA SameCall ==
  ASSUME call' = call
  PROVE  /\ Elements' = Elements /\ Offsets' = Offsets /\ (DOMAIN Zeros)' = DOMAIN Zeros
         /\ Accepted' <=> Accepted
         /\ \A e : Dot(e)' = Dot(e)
         /\ c' = c => \A e : C(e)' = C(e)
BY DEF Elements, Offsets, Zeros, Accepted, Dot, C, Offset

\* A k of a tile lies in the tile's rows of B, and in B.
LEMMA WithinTile ==
  ASSUME NEW k \in Nat, NEW kk \in Nat, NEW b \in Nat, NEW d \in Nat,
         kk <= k, k < Least(kk + b, d)
  PROVE  k \in kk .. kk + b - 1 /\ k < d
BY DEF Least

\* The walk over micro-tiles is at a tile of MicroTiles.
LEMMA WalkIsTile ==
  ASSUME NEW p \in [DOMAIN Start -> Nat]
  PROVE  [ii |-> p.ii, jj |-> p.jj, i |-> p.i, j |-> p.j] \in Tile
BY Fields DEF Tile

\* The loops of a micro-tile and its edges.
LEMMA TileFacts ==
  ASSUME NEW p, p.cols \in Nat \ {0}, p.block \in Nat \ {0},
         NEW limit \in Nat, NEW t \in Tile, TileInBounds(t, p, 0, limit), HasTile(t, limit)
  PROVE  /\ RowCount(t, p, limit) \in 1 .. MicroRows /\ ColumnCount(t, p) \in 1 .. MicroCols
         /\ t.i + RowCount(t, p, limit) <= limit
         /\ t.jj + t.j + ColumnCount(t, p) <= p.cols
         /\ t.j + ColumnCount(t, p) <= p.block
<1>1. t.ii \in Nat /\ t.jj \in Nat /\ t.i \in Nat /\ t.j \in Nat
  BY DEF Tile
<1>2. t.i < RowLimit(t, p, limit) /\ t.jj < p.cols /\ t.j < ColumnExtent(t, p)
  BY DEF TileInBounds
<1>3. RowLimit(t, p, limit) \in Nat /\ RowLimit(t, p, limit) <= limit
  BY <1>1 DEF RowLimit, Least
<1>4. /\ ColumnExtent(t, p) \in Nat /\ ColumnExtent(t, p) <= p.block
      /\ t.jj + ColumnExtent(t, p) <= p.cols
  BY <1>1, <1>2 DEF ColumnExtent, Least
<1>5. /\ RowCount(t, p, limit) \in 1 .. MicroRows
      /\ t.i + RowCount(t, p, limit) <= RowLimit(t, p, limit)
  BY <1>1, <1>2, <1>3, MicroShapeAssumption DEF RowCount, Least
<1>6. /\ ColumnCount(t, p) \in 1 .. MicroCols
      /\ t.j + ColumnCount(t, p) <= ColumnExtent(t, p)
  BY <1>1, <1>2, <1>4, MicroShapeAssumption DEF ColumnCount, Least
<1> QED BY <1>1, <1>3, <1>4, <1>5, <1>6

\* Vector and portable code have the same loops, for a full tile is full.
LEMMA Loops ==
  /\ TileRows = 0 .. RowCount(Walk, call, call.rows) - 1
  /\ Lanes = 0 .. ColumnCount(Walk, call) - 1
BY DEF TileRows, Lanes, Vector, IsFullTile

LEMMA LoopsNext ==
  /\ TileRows' = 0 .. RowCount(Walk', call', call'.rows) - 1
  /\ Lanes' = 0 .. ColumnCount(Walk', call') - 1
BY DEF TileRows, Lanes, Vector, IsFullTile, Walk

-------------------------------------------------------------------------------
(* Before the loops *)

LEMMA InitIInv == Init => IInv
<1> SUFFICES ASSUME Init PROVE IInv
  OBVIOUS
<1>1. call \in Calls /\ pc = "validate" /\ c = [o \in Offsets |-> Old] /\ pos = Start /\ acc = Zeros
  BY DEF Init
<1>2. pos \in [DOMAIN Start -> Nat]
  BY <1>1 DEF Start
<1>3. Types
  BY <1>1, <1>2 DEF Types
<1>4. ASSUME NEW e \in Elements PROVE C(e) = Old
  BY <1>1, ElementOffsets DEF C
<1>5. Values
  BY <1>1, <1>4 DEF Values
<1>6. Progress
  BY <1>1 DEF Progress, InTile
<1> QED BY <1>3, <1>5, <1>6 DEF IInv

LEMMA RejectStep == IInv /\ Reject => IInv'
<1> SUFFICES ASSUME IInv, Reject PROVE IInv'
  OBVIOUS
<1>1. /\ pc = "validate" /\ pc' = "rejected"
      /\ call' = call /\ c' = c /\ pos' = pos /\ acc' = acc
  BY DEF Reject
<1>2. Types'
  BY <1>1, SameCall DEF IInv, Types
<1>3. Progress'
  BY <1>1 DEF Progress, InTile
<1>4. Values'
  BY <1>1, SameCall DEF IInv, Values
<1> QED BY <1>2, <1>3, <1>4 DEF IInv

\* When the loops begin nothing has been added or stored.
LEMMA LoopsBegin ==
  ASSUME call \in Calls, Accepted, pos = Start
  PROVE  /\ Bounds
         /\ \A e \in Elements :
              /\ ~NaiveDone(e) /\ IkjTerms(e) = 0
              /\ call.kernel \in {"blocked", "packed"} => BlockTerms(e) = 0
              /\ call.kernel \in MicroKernels => ~Stored(e)
<1>1. /\ pos.ii = 0 /\ pos.jj = 0 /\ pos.kk = 0 /\ pos.i = 0 /\ pos.j = 0 /\ pos.k = 0
      /\ pos.row = 0
  BY DEF Start
<1>2. /\ call.rows \in Nat \ {0} /\ call.cols \in Nat \ {0} /\ call.depth \in Nat \ {0}
      /\ call.block \in Nat
  BY CallFacts
<1>3. ASSUME call.kernel \notin {"naive", "ikj"}
      PROVE  call.block \in Nat \ {0} /\ 0 % call.block = 0
  <2>1. call.block \in Nat \ {0}
    BY <1>3, Accepting
  <2>2. \A b \in Nat \ {0} : 0 % b = 0
    OBVIOUS
  <2> QED BY <2>1, <2>2
<1>4. ASSUME NEW e \in Elements PROVE e[1] \in Nat /\ e[2] \in Nat /\ e = <<e[1], e[2]>>
  BY <1>2 DEF Elements
<1>5. ASSUME call.kernel \in {"blocked", "packed"}
      PROVE  BlockBounds /\ \A e \in Elements : BlockTerms(e) = 0
  <2>1. call.block \in Nat \ {0} /\ 0 % call.block = 0
    BY <1>3, <1>5
  <2>2. BlockBounds
    BY <1>1, <1>2, <2>1 DEF BlockBounds, IEnd, KEnd, Least
  <2>3. ASSUME NEW e \in Elements PROVE BlockTerms(e) = 0
    BY <1>1, <1>4 DEF BlockTerms
  <2> QED BY <2>2, <2>3
<1>6. ASSUME call.kernel \in MicroKernels
      PROVE  TileBounds /\ \A e \in Elements : ~Stored(e)
  <2>1. call.block \in Nat \ {0} /\ 0 % call.block = 0
    BY <1>3, <1>6 DEF MicroKernels
  <2>2. Walk = FirstTile(0)
    BY <1>1 DEF Walk, FirstTile, At
  <2>3. /\ TileInBounds(Walk, call, 0, call.rows)
        /\ \A x, y \in Nat : ~Before(<<x, y>>, Walk, call, call.rows)
    BY <1>2, <2>1, <2>2, WalkStart
  <2>4. TileBounds
    BY <1>1, <1>2, <2>1, <2>3 DEF TileBounds, KEnd, Least
  <2>5. ASSUME NEW e \in Elements PROVE ~Stored(e)
    <3>1. ~Before(e, Walk, call, call.rows)
      BY <1>4, <2>3
    <3> QED BY <1>1, <1>4, <3>1 DEF Stored
  <2> QED BY <2>4, <2>5
<1>7. \A e \in Elements : ~NaiveDone(e) /\ IkjTerms(e) = 0
  BY <1>1, <1>4 DEF NaiveDone, IkjTerms
<1>8. Bounds
  BY <1>1, <1>2, <1>5, <1>6 DEF Bounds
<1> QED BY <1>5, <1>6, <1>7, <1>8

\* Empty accumulators are right where no product has been added.
LEMMA AccumulatorsBegin ==
  ASSUME call \in Calls, pos.k = 0, acc = Zeros,
         TileRows \X Lanes \subseteq DOMAIN Zeros
  PROVE  Accumulators
<1>1. Least(pos.k, call.depth) = 0
  BY CallFacts DEF Least
<1>2. ASSUME NEW r \in TileRows \X Lanes
      PROVE  acc[r] = Terms(<<pos.i + r[1], pos.jj + pos.j + r[2]>>, 0)
  <2>1. acc[r] = <<>>
    BY DEF Zeros
  <2> QED BY <2>1, NextTerm
<1> QED BY <1>1, <1>2 DEF Accumulators

\* Nothing that is computed from the loop variables changes before they do.
LEMMA SamePlace ==
  ASSUME call' = call, pos' = pos
  PROVE  /\ Bounds' <=> Bounds
         /\ \A e : /\ NaiveDone(e)' <=> NaiveDone(e)
                   /\ IkjTerms(e)' = IkjTerms(e)
                   /\ BlockTerms(e)' = BlockTerms(e)
                   /\ Stored(e)' <=> Stored(e)
         /\ acc' = acc => (Accumulators' <=> Accumulators)
         /\ Walk' = Walk
BY DEF Bounds, BlockBounds, TileBounds, NaiveDone, IkjTerms, BlockTerms, Stored, InLanes,
       Accumulators, TileRows, Lanes, Vector, Walk, IEnd, JEnd, KEnd

\* The accumulators of the micro-tile a register kernel is at.
LEMMA TileInRegisters ==
  ASSUME Types, Bounds, Accepted, InTile
  PROVE  /\ Walk \in Tile /\ call.block \in Nat \ {0}
         /\ TileInBounds(Walk, call, 0, call.rows) /\ HasTile(Walk, call.rows)
         /\ TileRows = 0 .. RowCount(Walk, call, call.rows) - 1
         /\ Lanes = 0 .. ColumnCount(Walk, call) - 1
         /\ TileRows \X Lanes \subseteq DOMAIN Zeros
<1>1. call.block \in Nat \ {0} /\ call.cols \in Nat \ {0} /\ call.rows \in Nat
  BY CallFacts, Accepting DEF Types, InTile, MicroKernels
<1>2. Walk \in Tile
  BY WalkIsTile DEF Types, Walk
<1>3. TileInBounds(Walk, call, 0, call.rows) /\ HasTile(Walk, call.rows)
  BY DEF Bounds, TileBounds, InTile
<1>4. RowCount(Walk, call, call.rows) \in 1 .. MicroRows /\ ColumnCount(Walk, call) \in 1 .. MicroCols
  BY <1>1, <1>2, <1>3, TileFacts
<1>5. TileRows \X Lanes \subseteq DOMAIN Zeros
  BY <1>4, Loops, MicroShapeAssumption DEF Zeros
<1> QED BY <1>1, <1>2, <1>3, <1>5, Loops

LEMMA AcceptStep == IInv /\ Accept => IInv'
<1> SUFFICES ASSUME IInv, Accept PROVE IInv'
  OBVIOUS
<1>1. /\ pc = "validate" /\ pc' = IF call.kernel \in Clearing THEN "clear" ELSE "compute"
      /\ Accepted /\ call' = call /\ c' = c /\ pos' = pos /\ acc' = acc
  BY DEF Accept
<1>2. call \in Calls /\ pos = Start /\ acc = Zeros /\ \A e \in Elements : C(e) = Old
  BY <1>1 DEF IInv, Types, Progress, Values
<1>3. /\ Bounds
      /\ \A e \in Elements :
           /\ ~NaiveDone(e)
           /\ call.kernel \in MicroKernels => ~Stored(e)
  BY <1>1, <1>2, LoopsBegin
<1>4. Types'
  BY <1>1, SameCall DEF IInv, Types
<1>5. Accepted' /\ Bounds'
  BY <1>1, <1>3, SameCall, SamePlace
<1>6. InTile' => Accumulators'
  <2> SUFFICES ASSUME InTile' PROVE Accumulators
    BY <1>1, SamePlace
  <2>1. call.kernel \in MicroKernels /\ HasTile(Walk, call.rows)
    BY <1>1, SamePlace DEF InTile
  <2>2. TileRows \X Lanes \subseteq DOMAIN Zeros
    <3>1. Walk \in Tile /\ call.block \in Nat \ {0} /\ call.cols \in Nat \ {0} /\ call.rows \in Nat
      BY <1>1, <2>1, WalkIsTile, CallFacts, Accepting DEF IInv, Types, Walk, MicroKernels
    <3>2. TileInBounds(Walk, call, 0, call.rows)
      BY <1>3, <2>1 DEF Bounds, TileBounds
    <3>3. RowCount(Walk, call, call.rows) \in 1 .. MicroRows /\ ColumnCount(Walk, call) \in 1 .. MicroCols
      BY <2>1, <3>1, <3>2, TileFacts
    <3> QED BY <3>3, Loops, MicroShapeAssumption DEF Zeros
  <2>3. pos.k = 0
    BY <1>2 DEF Start
  <2> QED BY <1>2, <2>2, <2>3, AccumulatorsBegin
<1>7. Progress'
  BY <1>1, <1>2, <1>5, <1>6 DEF Progress
<1>8. Values'
  <2> SUFFICES ASSUME NEW e \in Elements
               PROVE  /\ C(e)' = Old
                      /\ pc' = "compute" =>
                           /\ call.kernel \notin {"ikj", "blocked", "packed"}
                           /\ ~NaiveDone(e)'
                           /\ call.kernel \in MicroKernels => ~Stored(e)'
    BY <1>1, SameCall DEF Values
  <2>1. C(e)' = Old
    BY <1>1, <1>2, SameCall
  <2>2. ~NaiveDone(e)' /\ (call.kernel \in MicroKernels => ~Stored(e)')
    BY <1>1, <1>3, SamePlace
  <2> QED BY <1>1, <2>1, <2>2 DEF Clearing
<1> QED BY <1>4, <1>7, <1>8 DEF IInv

LEMMA ClearStep == IInv /\ Clear => IInv'
<1> SUFFICES ASSUME IInv, Clear PROVE IInv'
  OBVIOUS
<1>1. /\ pc = "clear" /\ pc' = "compute" /\ c' = [o \in Offsets |-> <<>>]
      /\ call' = call /\ pos' = pos /\ acc' = acc
  BY DEF Clear
<1>2. call \in Calls /\ pos = Start /\ acc = Zeros /\ Accepted /\ call.kernel \in Clearing
  BY <1>1 DEF IInv, Types, Progress
<1>3. Bounds /\ \A e \in Elements : /\ IkjTerms(e) = 0
                                    /\ call.kernel \in {"blocked", "packed"} => BlockTerms(e) = 0
  BY <1>2, LoopsBegin
<1>4. Types'
  BY <1>1, SameCall DEF IInv, Types
<1>5. Progress'
  <2>1. Accepted' /\ Bounds'
    BY <1>1, <1>2, <1>3, SameCall, SamePlace
  <2> QED BY <1>1, <1>2, <2>1 DEF Progress, InTile, Clearing, MicroKernels
<1>6. ASSUME NEW e \in Elements PROVE C(e)' = Terms(e, 0)
  <2>1. C(e)' = c'[Offset(e[1], e[2])]
    BY <1>1 DEF C, Offset
  <2>2. Terms(e, 0) = <<>>
    BY DEF Terms
  <2> QED BY <1>1, <1>2, <2>1, <2>2, ElementOffsets
<1>7. Values'
  <2> SUFFICES ASSUME NEW e \in Elements
               PROVE  /\ call.kernel = "ikj" => C(e)' = Terms(e, IkjTerms(e)')
                      /\ call.kernel \in {"blocked", "packed"} => C(e)' = Terms(e, BlockTerms(e)')
    BY <1>1, <1>2, SameCall DEF Values, Clearing, MicroKernels, Terms
  <2> QED BY <1>1, <1>3, <1>6, SamePlace
<1> QED BY <1>4, <1>5, <1>7 DEF IInv

-------------------------------------------------------------------------------
(* naive and ikj *)

LEMMA NaiveStep == IInv /\ NaiveElement => IInv' /\ Kept
<1> SUFFICES ASSUME IInv, NaiveElement PROVE IInv' /\ Kept
  OBVIOUS
<1>1. /\ pc = "compute" /\ call.kernel = "naive" /\ pos.i < call.rows
      /\ pc' = pc /\ call' = call /\ acc' = acc
      /\ c' = [c EXCEPT ![Offset(pos.i, pos.j)] =
                 [n \in 1 .. call.depth |-> <<<<pos.i, n - 1>>, <<n - 1, pos.j>>>>]]
      /\ pos' = IF pos.j + 1 < call.cols
                THEN [pos EXCEPT !.j = @ + 1]
                ELSE [pos EXCEPT !.i = @ + 1, !.j = 0]
  BY DEF NaiveElement
<1>2. /\ call \in Calls /\ DOMAIN c = Offsets /\ pos \in [DOMAIN Start -> Nat] /\ pos.j < call.cols
      /\ call.rows \in Nat /\ call.cols \in Nat \ {0} /\ pos.i \in Nat /\ pos.j \in Nat
  BY <1>1, CallFacts, Fields DEF IInv, Types, Progress, Bounds
<1>3. /\ pos' \in [DOMAIN Start -> Nat]
      /\ IF pos.j + 1 < call.cols THEN pos'.i = pos.i /\ pos'.j = pos.j + 1
                                  ELSE pos'.i = pos.i + 1 /\ pos'.j = 0
  <2>1. CASE pos.j + 1 < call.cols
    <3>1. pos' = [pos EXCEPT !.j = @ + 1]
      BY <1>1, <2>1
    <3> QED BY <1>2, <2>1, <3>1 DEF Start
  <2>2. CASE ~(pos.j + 1 < call.cols)
    <3>1. pos' = [pos EXCEPT !.i = @ + 1, !.j = 0]
      BY <1>1, <2>2
    <3>2. pos' \in [DOMAIN Start -> Nat]
      <4>1. \A x, y \in Nat : [pos EXCEPT !.i = x, !.j = y] \in [DOMAIN Start -> Nat]
        BY <1>2, Moves
      <4>2. pos.i + 1 \in Nat /\ 0 \in Nat
        BY <1>2
      <4> QED BY <3>1, <4>1, <4>2
    <3>3. pos'.i = pos.i + 1 /\ pos'.j = 0
      BY <1>2, <3>1 DEF Start
    <3> QED BY <2>2, <3>2, <3>3
  <2> QED BY <2>1, <2>2
<1>4. Types'
  BY <1>1, <1>2, <1>3, SameCall DEF IInv, Types
<1>5. Progress'
  <2>1. Accepted'
    BY <1>1, SameCall DEF IInv, Progress
  <2>2. Bounds'
    BY <1>1, <1>2, <1>3 DEF Bounds, MicroKernels
  <2> QED BY <1>1, <2>1, <2>2 DEF Progress, InTile, MicroKernels
<1>6. ASSUME NEW e \in Elements
      PROVE  C(e)' = IF e = <<pos.i, pos.j>> THEN Dot(e) ELSE C(e)
  <2> DEFINE n == call.cols
             x == e[1]
             y == e[2]
             i == pos.i
             j == pos.j
             o == Offset(x, y)
             q == Offset(i, j)
  <2>1. C(e) = c[o] /\ C(e)' = c'[o]
    BY <1>1 DEF C, Offset
  <2>2. o \in Offsets
    BY <1>2, ElementOffsets
  <2>3. /\ x \in Nat /\ y \in 0 .. n - 1 /\ n \in Nat \ {0} /\ i \in Nat /\ j \in 0 .. n - 1
        /\ e = <<x, y>>
    BY <1>2 DEF Elements
  <2>4. o = x * n + y /\ q = i * n + j
    BY DEF Offset
  <2>5. e = <<i, j>> => Dot(e) = [m \in 1 .. call.depth |-> <<<<i, m - 1>>, <<m - 1, j>>>>]
    BY DEF Dot
  <2>6. c' = [c EXCEPT ![q] = [m \in 1 .. call.depth |-> <<<<i, m - 1>>, <<m - 1, j>>>>]]
    BY <1>1
  <2> HIDE DEF n, x, y, i, j, o, q
  <2>7. o = q => x = i /\ y = j
    BY <2>3, <2>4, DivisionUnique
  <2>8. e = <<i, j>> <=> o = q
    BY <2>3, <2>4, <2>7
  <2>9. CASE e = <<i, j>>
    BY <1>2, <2>1, <2>2, <2>5, <2>6, <2>8, <2>9 DEF i, j
  <2>10. CASE e # <<i, j>>
    BY <1>2, <2>1, <2>2, <2>6, <2>8, <2>10 DEF i, j
  <2> QED BY <2>9, <2>10
<1>7. ASSUME NEW e \in Elements PROVE C(e)' = IF NaiveDone(e)' THEN Dot(e) ELSE Old
  <2>1. C(e) = IF NaiveDone(e) THEN Dot(e) ELSE Old
    BY <1>1 DEF IInv, Values
  <2>2. NaiveDone(e)' <=> NaiveDone(e) \/ e = <<pos.i, pos.j>>
    <3>1. e[1] \in Nat /\ e[2] \in Nat /\ e[2] < call.cols /\ e = <<e[1], e[2]>>
      BY <1>2 DEF Elements
    <3>2. e = <<pos.i, pos.j>> <=> e[1] = pos.i /\ e[2] = pos.j
      BY <3>1
    <3>3. NaiveDone(e)' <=> e[1] < pos'.i \/ (e[1] = pos'.i /\ e[2] < pos'.j)
      BY DEF NaiveDone
    <3> QED BY <1>2, <1>3, <3>1, <3>2, <3>3 DEF NaiveDone
  <2> QED BY <1>6, <2>1, <2>2
<1>8. Values'
  BY <1>1, <1>7, SameCall DEF Values, MicroKernels
<1>9. Kept
  BY <1>6 DEF Kept
<1> QED BY <1>4, <1>5, <1>8, <1>9 DEF IInv

LEMMA IkjStep == IInv /\ IkjRow => IInv' /\ Kept
<1> SUFFICES ASSUME IInv, IkjRow PROVE IInv' /\ Kept
  OBVIOUS
<1> DEFINE B == [j \in 0 .. call.cols - 1 |-> <<pos.k, j>>]
<1>1. /\ pc = "compute" /\ call.kernel = "ikj" /\ pos.i < call.rows
      /\ pc' = pc /\ call' = call /\ acc' = acc
      /\ AddRow(pos.i, pos.k, 0 .. call.cols - 1, B)
      /\ pos' = IF pos.k + 1 < call.depth
                THEN [pos EXCEPT !.k = @ + 1]
                ELSE [pos EXCEPT !.i = @ + 1, !.k = 0]
  BY DEF IkjRow
<1>2. /\ call \in Calls /\ DOMAIN c = Offsets /\ pos \in [DOMAIN Start -> Nat] /\ pos.k < call.depth
      /\ call.cols \in Nat \ {0} /\ call.depth \in Nat \ {0} /\ pos.i \in Nat /\ pos.k \in Nat
  BY <1>1, CallFacts, Fields DEF IInv, Types, Progress, Bounds
<1>3. /\ pos' \in [DOMAIN Start -> Nat]
      /\ IF pos.k + 1 < call.depth THEN pos'.i = pos.i /\ pos'.k = pos.k + 1
                                   ELSE pos'.i = pos.i + 1 /\ pos'.k = 0
  <2>1. CASE pos.k + 1 < call.depth
    <3>1. pos' = [pos EXCEPT !.k = @ + 1]
      BY <1>1, <2>1
    <3> QED BY <1>2, <2>1, <3>1 DEF Start
  <2>2. CASE ~(pos.k + 1 < call.depth)
    <3>1. pos' = [pos EXCEPT !.i = @ + 1, !.k = 0]
      BY <1>1, <2>2
    <3>2. pos' \in [DOMAIN Start -> Nat]
      <4>1. \A x, y \in Nat : [pos EXCEPT !.i = x, !.k = y] \in [DOMAIN Start -> Nat]
        BY <1>2, Moves
      <4>2. pos.i + 1 \in Nat /\ 0 \in Nat
        BY <1>2
      <4> QED BY <3>1, <4>1, <4>2
    <3>3. pos'.i = pos.i + 1 /\ pos'.k = 0
      BY <1>2, <3>1 DEF Start
    <3> QED BY <2>2, <3>2, <3>3
  <2> QED BY <2>1, <2>2
<1>4. /\ DOMAIN c' = Offsets
      /\ \A e \in Elements :
           C(e)' = IF e[1] = pos.i /\ 0 <= e[2] /\ e[2] < call.cols
                   THEN Append(C(e), <<<<pos.i, pos.k>>, B[e[2]]>>) ELSE C(e)
  <2> HIDE DEF B
  <2>1. /\ call \in Calls /\ call' = call /\ DOMAIN c = Offsets
        /\ pos.i \in Nat /\ 0 \in Nat /\ call.cols \in 0 .. call.cols
        /\ AddRow(pos.i, pos.k, 0 .. call.cols - 1, B)
    BY <1>1, <1>2
  <2> QED BY ONLY <2>1, RowAdded
<1>5. Types'
  BY <1>1, <1>2, <1>3, <1>4, SameCall DEF IInv, Types
<1>6. Progress'
  <2>1. Accepted'
    BY <1>1, SameCall DEF IInv, Progress
  <2>2. Bounds'
    BY <1>1, <1>2, <1>3 DEF Bounds, MicroKernels
  <2> QED BY <1>1, <2>1, <2>2 DEF Progress, InTile, MicroKernels
<1>7. ASSUME NEW e \in Elements PROVE C(e)' = Terms(e, IkjTerms(e)')
  <2>1. C(e) = Terms(e, IkjTerms(e))
    BY <1>1 DEF IInv, Values
  <2>2. e[1] \in Nat /\ e[2] \in 0 .. call.cols - 1 /\ e = <<e[1], e[2]>>
    BY <1>2 DEF Elements
  <2>3. IkjTerms(e)' = IF e[1] < pos'.i THEN call.depth ELSE IF e[1] = pos'.i THEN pos'.k ELSE 0
    BY <1>1 DEF IkjTerms
  <2>4. CASE e[1] = pos.i
    <3>1. IkjTerms(e) = pos.k /\ IkjTerms(e)' = pos.k + 1
      BY <1>2, <1>3, <2>2, <2>3, <2>4 DEF IkjTerms
    <3>2. B[e[2]] = <<pos.k, e[2]>>
      BY <2>2
    <3>3. C(e)' = Append(C(e), <<<<pos.i, pos.k>>, B[e[2]]>>)
      <4>1. 0 <= e[2] /\ e[2] < call.cols
        BY <1>2, <2>2
      <4> QED BY <1>4, <2>4, <4>1, Zenon
    <3>4. Append(Terms(e, pos.k), <<<<e[1], pos.k>>, <<pos.k, e[2]>>>>) = Terms(e, pos.k + 1)
      BY <1>2, <2>2, TermAdded
    <3> HIDE DEF B
    <3> QED BY <2>1, <2>4, <3>1, <3>2, <3>3, <3>4
  <2>5. CASE e[1] # pos.i
    <3>1. IkjTerms(e)' = IkjTerms(e)
      BY <1>2, <1>3, <2>2, <2>3, <2>5 DEF IkjTerms
    <3> QED BY <1>4, <2>1, <2>5, <3>1
  <2> QED BY <2>4, <2>5
<1>8. Values'
  <2>1. ASSUME NEW e \in Elements PROVE Terms(e, IkjTerms(e))' = Terms(e, IkjTerms(e)')
    BY DEF Terms
  <2> QED BY <1>1, <1>7, <2>1, SameCall DEF Values, MicroKernels
<1>9. Kept
  <2> SUFFICES ASSUME NEW e \in Elements, e[1] = pos.i PROVE C(e) # Dot(e)
    BY <1>4 DEF Kept
  <2>1. C(e) = Terms(e, pos.k)
    BY <1>1, <1>2 DEF IInv, Values, IkjTerms
  <2> QED BY <1>2, <2>1, PartIsNotAll
<1> QED BY <1>5, <1>6, <1>8, <1>9 DEF IInv

-------------------------------------------------------------------------------
(* blocked and packed *)

\* Where NextBlockRow leads, in the five variables of its loops.
Leads(p, ii, jj, kk, i, k) ==
  p.ii = ii /\ p.jj = jj /\ p.kk = kk /\ p.i = i /\ p.k = k

BlockLeads(p) ==
  \/ /\ pos.k + 1 < KEnd
     /\ Leads(p, pos.ii, pos.jj, pos.kk, pos.i, pos.k + 1)
  \/ /\ pos.k + 1 >= KEnd /\ pos.i + 1 < IEnd
     /\ Leads(p, pos.ii, pos.jj, pos.kk, pos.i + 1, pos.kk)
  \/ /\ pos.k + 1 >= KEnd /\ pos.i + 1 >= IEnd /\ pos.kk + call.block < call.depth
     /\ Leads(p, pos.ii, pos.jj, pos.kk + call.block, pos.ii, pos.kk + call.block)
  \/ /\ pos.k + 1 >= KEnd /\ pos.i + 1 >= IEnd /\ pos.kk + call.block >= call.depth
     /\ pos.jj + call.block < call.cols
     /\ Leads(p, pos.ii, pos.jj + call.block, 0, pos.ii, 0)
  \/ /\ pos.k + 1 >= KEnd /\ pos.i + 1 >= IEnd /\ pos.kk + call.block >= call.depth
     /\ pos.jj + call.block >= call.cols
     /\ Leads(p, pos.ii + call.block, 0, 0, pos.ii + call.block, 0)

LEMMA BlockMoves ==
  ASSUME pos \in [DOMAIN Start -> Nat], call \in Calls
  PROVE  NextBlockRow \in [DOMAIN Start -> Nat] /\ BlockLeads(NextBlockRow)
<1>1. /\ pos.ii \in Nat /\ pos.jj \in Nat /\ pos.kk \in Nat /\ pos.i \in Nat /\ pos.k \in Nat
      /\ call.block \in Nat /\ call.rows \in Nat /\ call.cols \in Nat /\ call.depth \in Nat
      /\ 0 \in Nat
  BY Fields, CallFacts
<1>2. KEnd \in Nat /\ IEnd \in Nat
  BY <1>1 DEF KEnd, IEnd, Least
<1>3. CASE pos.k + 1 < KEnd
  <2>1. NextBlockRow = [pos EXCEPT !.k = pos.k + 1]
    BY <1>3 DEF NextBlockRow
  <2>2. NextBlockRow \in [DOMAIN Start -> Nat]
    BY <1>1, <2>1 DEF Start
  <2>3. Leads(NextBlockRow, pos.ii, pos.jj, pos.kk, pos.i, pos.k + 1)
    BY <1>1, <2>1 DEF Leads, Start
  <2>4. BlockLeads(NextBlockRow)
    BY <1>3, <2>3, Zenon DEF BlockLeads
  <2> QED BY <2>2, <2>4
<1>4. CASE pos.k + 1 >= KEnd /\ pos.i + 1 < IEnd
  <2>1. NextBlockRow = [pos EXCEPT !.i = pos.i + 1, !.k = pos.kk]
    BY <1>1, <1>2, <1>4 DEF NextBlockRow
  <2>2. NextBlockRow \in [DOMAIN Start -> Nat]
    <3>1. \A x, y \in Nat : [pos EXCEPT !.i = x, !.k = y] \in [DOMAIN Start -> Nat]
      BY Moves
    <3>2. pos.i + 1 \in Nat
      BY <1>1
    <3> QED BY <1>1, <2>1, <3>1, <3>2
  <2>3. Leads(NextBlockRow, pos.ii, pos.jj, pos.kk, pos.i + 1, pos.kk)
    BY <1>1, <2>1 DEF Leads, Start
  <2>4. BlockLeads(NextBlockRow)
    BY <1>4, <2>3, Zenon DEF BlockLeads
  <2> QED BY <2>2, <2>4
<1>5. CASE pos.k + 1 >= KEnd /\ pos.i + 1 >= IEnd /\ pos.kk + call.block < call.depth
  <2>1. NextBlockRow
          = [pos EXCEPT !.kk = pos.kk + call.block, !.k = pos.kk + call.block, !.i = pos.ii]
    BY <1>1, <1>2, <1>5 DEF NextBlockRow
  <2>2. NextBlockRow \in [DOMAIN Start -> Nat]
    <3>1. \A x, y, z \in Nat : [pos EXCEPT !.kk = x, !.k = y, !.i = z] \in [DOMAIN Start -> Nat]
      BY Moves
    <3>2. pos.kk + call.block \in Nat
      BY <1>1
    <3> QED BY <1>1, <2>1, <3>1, <3>2
  <2>3. Leads(NextBlockRow, pos.ii, pos.jj, pos.kk + call.block, pos.ii, pos.kk + call.block)
    BY <1>1, <2>1 DEF Leads, Start
  <2>4. BlockLeads(NextBlockRow)
    BY <1>5, <2>3, Zenon DEF BlockLeads
  <2> QED BY <2>2, <2>4
<1>6. CASE /\ pos.k + 1 >= KEnd /\ pos.i + 1 >= IEnd /\ pos.kk + call.block >= call.depth
           /\ pos.jj + call.block < call.cols
  <2>1. NextBlockRow
          = [pos EXCEPT !.jj = pos.jj + call.block, !.kk = 0, !.k = 0, !.i = pos.ii]
    BY <1>1, <1>2, <1>6 DEF NextBlockRow
  <2>2. NextBlockRow \in [DOMAIN Start -> Nat]
    <3>1. \A w, x, y, z \in Nat :
            [pos EXCEPT !.jj = w, !.kk = x, !.k = y, !.i = z] \in [DOMAIN Start -> Nat]
      BY Moves
    <3>2. pos.jj + call.block \in Nat
      BY <1>1
    <3> QED BY <1>1, <2>1, <3>1, <3>2
  <2>3. Leads(NextBlockRow, pos.ii, pos.jj + call.block, 0, pos.ii, 0)
    BY <1>1, <2>1 DEF Leads, Start
  <2>4. BlockLeads(NextBlockRow)
    BY <1>6, <2>3, Zenon DEF BlockLeads
  <2> QED BY <2>2, <2>4
<1>7. CASE /\ pos.k + 1 >= KEnd /\ pos.i + 1 >= IEnd /\ pos.kk + call.block >= call.depth
           /\ pos.jj + call.block >= call.cols
  <2>1. NextBlockRow
          = [Start EXCEPT !.ii = pos.ii + call.block, !.i = pos.ii + call.block]
    BY <1>1, <1>2, <1>7 DEF NextBlockRow
  <2>2. NextBlockRow \in [DOMAIN Start -> Nat]
    <3>1. Start \in [DOMAIN Start -> Nat]
      BY DEF Start
    <3>2. \A x, y \in Nat : [Start EXCEPT !.ii = x, !.i = y] \in [DOMAIN Start -> Nat]
      BY <3>1, Moves
    <3>3. pos.ii + call.block \in Nat
      BY <1>1
    <3> QED BY <2>1, <3>2, <3>3
  <2>3. Leads(NextBlockRow, pos.ii + call.block, 0, 0, pos.ii + call.block, 0)
    BY <1>1, <2>1 DEF Leads, Start
  <2>4. BlockLeads(NextBlockRow)
    BY <1>7, <2>3, Zenon DEF BlockLeads
  <2> QED BY <2>2, <2>4
<1> QED BY <1>1, <1>2, <1>3, <1>4, <1>5, <1>6, <1>7

\* One more row of a block: the loop variables stay in their bounds, and exactly
\* the elements of the run have one product more.
LEMMA BlockNext ==
  ASSUME call \in Calls, call' = call, call.block # 0, BlockBounds, pos.ii < call.rows,
         pos \in [DOMAIN Start -> Nat], pos' = NextBlockRow
  PROVE  /\ pos' \in [DOMAIN Start -> Nat] /\ BlockBounds'
         /\ \A e \in Elements :
              IF e[1] = pos.i /\ pos.jj <= e[2] /\ e[2] < JEnd
              THEN BlockTerms(e) = pos.k /\ BlockTerms(e)' = pos.k + 1
              ELSE BlockTerms(e)' = BlockTerms(e)
<1> DEFINE R == call.rows
           N == call.cols
           D == call.depth
           b == call.block
           ii == pos.ii
           jj == pos.jj
           kk == pos.kk
           i == pos.i
           k == pos.k
           ii2 == pos'.ii
           jj2 == pos'.jj
           kk2 == pos'.kk
           i2 == pos'.i
           k2 == pos'.k
<1>1. /\ ii \in Nat /\ jj \in Nat /\ kk \in Nat /\ i \in Nat /\ k \in Nat
      /\ R \in Nat /\ N \in Nat \ {0} /\ D \in Nat \ {0} /\ b \in Nat \ {0}
  BY Fields, CallFacts
<1>2. /\ IEnd = Least(ii + b, R) /\ JEnd = Least(jj + b, N) /\ KEnd = Least(kk + b, D)
      /\ IEnd' = Least(ii2 + b, R) /\ JEnd' = Least(jj2 + b, N) /\ KEnd' = Least(kk2 + b, D)
  BY DEF IEnd, JEnd, KEnd
<1>3. pos' \in [DOMAIN Start -> Nat]
  BY BlockMoves
<1>4. /\ ii2 \in Nat /\ jj2 \in Nat /\ kk2 \in Nat /\ i2 \in Nat /\ k2 \in Nat
  BY <1>3, Fields
<1>5. \/ /\ k + 1 < KEnd
         /\ ii2 = ii /\ jj2 = jj /\ kk2 = kk /\ i2 = i /\ k2 = k + 1
      \/ /\ k + 1 >= KEnd /\ i + 1 < IEnd
         /\ ii2 = ii /\ jj2 = jj /\ kk2 = kk /\ i2 = i + 1 /\ k2 = kk
      \/ /\ k + 1 >= KEnd /\ i + 1 >= IEnd /\ kk + b < D
         /\ ii2 = ii /\ jj2 = jj /\ kk2 = kk + b /\ i2 = ii /\ k2 = kk + b
      \/ /\ k + 1 >= KEnd /\ i + 1 >= IEnd /\ kk + b >= D /\ jj + b < N
         /\ ii2 = ii /\ jj2 = jj + b /\ kk2 = 0 /\ i2 = ii /\ k2 = 0
      \/ /\ k + 1 >= KEnd /\ i + 1 >= IEnd /\ kk + b >= D /\ jj + b >= N
         /\ ii2 = ii + b /\ jj2 = 0 /\ kk2 = 0 /\ i2 = ii + b /\ k2 = 0
  <2>1. BlockLeads(pos')
    BY BlockMoves
  <2> QED BY ONLY <2>1, Zenon DEF BlockLeads, Leads
<1>6. /\ jj < N /\ jj % b = 0 /\ kk < D /\ kk % b = 0
      /\ ii < R /\ ii <= i /\ i < IEnd /\ kk <= k /\ k < KEnd
  BY DEF BlockBounds
<1>7. jj2 % b = 0 /\ kk2 % b = 0
  <2>1. (jj + b) % b = 0 /\ (kk + b) % b = 0
    <3> HIDE DEF jj, kk, b
    <3> QED BY <1>1, <1>6, NextMultiple
  <2>2. \A q \in Nat \ {0} : 0 % q = 0
    OBVIOUS
  <2>3. 0 % b = 0
    BY <1>1, <2>2
  <2>4. jj2 = jj \/ jj2 = jj + b \/ jj2 = 0
    <3> HIDE DEF ii, jj, kk, i, k, ii2, jj2, kk2, i2, k2, R, N, D, b
    <3> QED BY <1>5, Zenon
  <2>5. kk2 = kk \/ kk2 = kk + b \/ kk2 = 0
    <3> HIDE DEF ii, jj, kk, i, k, ii2, jj2, kk2, i2, k2, R, N, D, b
    <3> QED BY <1>5, Zenon
  <2> HIDE DEF ii, jj, kk, i, k, ii2, jj2, kk2, i2, k2, R, N, D, b
  <2> QED BY <1>6, <2>1, <2>3, <2>4, <2>5, Zenon
<1>8. BlockBounds'
  <2>1. ii2 < R => jj2 < N /\ kk2 < D /\ ii2 <= i2 /\ i2 < IEnd' /\ kk2 <= k2 /\ k2 < KEnd'
    <3> HIDE DEF ii, jj, kk, i, k, ii2, jj2, kk2, i2, k2, R, N, D, b
    <3>1. CASE k + 1 < KEnd
      BY <1>1, <1>2, <1>5, <1>6, <3>1 DEF Least
    <3>2. CASE k + 1 >= KEnd /\ i + 1 < IEnd
      BY <1>1, <1>2, <1>5, <1>6, <3>2 DEF Least
    <3>3. CASE k + 1 >= KEnd /\ i + 1 >= IEnd /\ kk + b < D
      BY <1>1, <1>2, <1>5, <1>6, <3>3 DEF Least
    <3>4. CASE k + 1 >= KEnd /\ i + 1 >= IEnd /\ kk + b >= D /\ jj + b < N
      BY <1>1, <1>2, <1>5, <1>6, <3>4 DEF Least
    <3>5. CASE k + 1 >= KEnd /\ i + 1 >= IEnd /\ kk + b >= D /\ jj + b >= N
      BY <1>1, <1>2, <1>5, <1>6, <3>5 DEF Least
    <3> QED BY <1>1, <1>2, <3>1, <3>2, <3>3, <3>4, <3>5 DEF Least
  <2> QED BY <1>7, <2>1 DEF BlockBounds
<1>9. ASSUME NEW e \in Elements
      PROVE  IF e[1] = pos.i /\ pos.jj <= e[2] /\ e[2] < JEnd
             THEN BlockTerms(e) = pos.k /\ BlockTerms(e)' = pos.k + 1
             ELSE BlockTerms(e)' = BlockTerms(e)
  <2> DEFINE x == e[1]
             y == e[2]
             T == BlockTerms(e)
             T2 == BlockTerms(e)'
  <2>1. x \in Nat /\ y \in Nat /\ x < R /\ y < N
    BY <1>1 DEF Elements
  <2>2. T = IF x < ii THEN D ELSE IF x >= IEnd THEN 0
            ELSE IF y < jj THEN D ELSE IF y >= JEnd THEN 0
            ELSE IF x < i THEN KEnd ELSE IF x = i THEN k ELSE kk
    BY DEF BlockTerms
  <2>3. T2 = IF x < ii2 THEN D ELSE IF x >= IEnd' THEN 0
             ELSE IF y < jj2 THEN D ELSE IF y >= JEnd' THEN 0
             ELSE IF x < i2 THEN KEnd' ELSE IF x = i2 THEN k2 ELSE kk2
    BY DEF BlockTerms
  <2> HIDE DEF x, y, T, T2, ii, jj, kk, i, k, ii2, jj2, kk2, i2, k2, R, N, D, b
  <2>4. IF x = i /\ jj <= y /\ y < JEnd THEN T = k /\ T2 = k + 1 ELSE T2 = T
    <3>1. CASE k + 1 < KEnd
      BY <1>1, <1>2, <1>5, <1>6, <2>1, <2>2, <2>3, <3>1 DEF Least
    <3>2. CASE k + 1 >= KEnd /\ i + 1 < IEnd
      BY <1>1, <1>2, <1>5, <1>6, <2>1, <2>2, <2>3, <3>2 DEF Least
    <3>3. CASE k + 1 >= KEnd /\ i + 1 >= IEnd /\ kk + b < D
      BY <1>1, <1>2, <1>5, <1>6, <2>1, <2>2, <2>3, <3>3 DEF Least
    <3>4. CASE k + 1 >= KEnd /\ i + 1 >= IEnd /\ kk + b >= D /\ jj + b < N
      BY <1>1, <1>2, <1>5, <1>6, <2>1, <2>2, <2>3, <3>4 DEF Least
    <3>5. CASE k + 1 >= KEnd /\ i + 1 >= IEnd /\ kk + b >= D /\ jj + b >= N
      BY <1>1, <1>2, <1>5, <1>6, <2>1, <2>2, <2>3, <3>5 DEF Least
    <3> QED BY <1>1, <1>2, <3>1, <3>2, <3>3, <3>4, <3>5 DEF Least
  <2> QED BY <2>4 DEF x, y, T, T2, i, jj, k
<1> QED BY <1>3, <1>8, <1>9

\* The step of both blocked kernels, B being the row of B they multiply with.
LEMMA BlockStep ==
  ASSUME IInv, pc = "compute", call.kernel \in {"blocked", "packed"}, pos.ii < call.rows,
         UNCHANGED <<call, pc, acc>>, pos' = NextBlockRow,
         NEW B, \A j \in pos.jj .. JEnd - 1 : B[j] = <<pos.k, j>>,
         AddRow(pos.i, pos.k, pos.jj .. JEnd - 1, B)
  PROVE  IInv' /\ Kept
<1>1. pc' = pc /\ call' = call /\ acc' = acc
  OBVIOUS
<1>2. /\ call \in Calls /\ DOMAIN c = Offsets /\ pos \in [DOMAIN Start -> Nat] /\ BlockBounds
      /\ call.cols \in Nat \ {0} /\ call.block \in Nat \ {0}
      /\ pos.i \in Nat /\ pos.k \in Nat /\ pos.jj \in Nat
  BY CallFacts, Fields, Accepting DEF IInv, Types, Progress, Bounds
<1>3. JEnd \in 0 .. call.cols
  BY <1>2 DEF JEnd, Least
<1>4. /\ pos' \in [DOMAIN Start -> Nat] /\ BlockBounds'
      /\ \A e \in Elements :
           IF e[1] = pos.i /\ pos.jj <= e[2] /\ e[2] < JEnd
           THEN BlockTerms(e) = pos.k /\ BlockTerms(e)' = pos.k + 1
           ELSE BlockTerms(e)' = BlockTerms(e)
  BY <1>1, <1>2, BlockNext
<1>5. /\ DOMAIN c' = Offsets
      /\ \A e \in Elements :
           C(e)' = IF e[1] = pos.i /\ pos.jj <= e[2] /\ e[2] < JEnd
                   THEN Append(C(e), <<<<pos.i, pos.k>>, B[e[2]]>>) ELSE C(e)
  <2>1. /\ call \in Calls /\ call' = call /\ DOMAIN c = Offsets
        /\ pos.i \in Nat /\ pos.jj \in Nat /\ JEnd \in 0 .. call.cols
        /\ AddRow(pos.i, pos.k, pos.jj .. JEnd - 1, B)
    BY <1>1, <1>2, <1>3
  <2> QED BY ONLY <2>1, RowAdded
<1>6. Types'
  BY <1>1, <1>2, <1>4, <1>5, SameCall DEF IInv, Types
<1>7. Progress'
  <2>1. Accepted'
    BY <1>1, SameCall DEF IInv, Progress
  <2>2. Bounds'
    BY <1>1, <1>4 DEF Bounds, MicroKernels
  <2> QED BY <1>1, <2>1, <2>2 DEF Progress, InTile, MicroKernels
<1>8. ASSUME NEW e \in Elements PROVE C(e)' = Terms(e, BlockTerms(e)')
  <2>1. C(e) = Terms(e, BlockTerms(e))
    BY DEF IInv, Values
  <2>2. e[1] \in Nat /\ e[2] \in Nat /\ e = <<e[1], e[2]>>
    BY <1>2 DEF Elements
  <2>3. CASE e[1] = pos.i /\ pos.jj <= e[2] /\ e[2] < JEnd
    <3>1. BlockTerms(e) = pos.k /\ BlockTerms(e)' = pos.k + 1
      BY <1>4, <2>3, Zenon
    <3>2. C(e)' = Append(C(e), <<<<pos.i, pos.k>>, B[e[2]]>>)
      BY <1>5, <2>3, Zenon
    <3>3. e[2] \in pos.jj .. JEnd - 1
      BY <1>2, <1>3, <2>2, <2>3
    <3>4. B[e[2]] = <<pos.k, e[2]>>
      BY <3>3
    <3>5. Append(Terms(e, pos.k), <<<<e[1], pos.k>>, <<pos.k, e[2]>>>>) = Terms(e, pos.k + 1)
      BY <1>2, <2>2, TermAdded
    <3>6. C(e)' = Append(Terms(e, pos.k), <<<<e[1], pos.k>>, <<pos.k, e[2]>>>>)
      BY <2>1, <2>3, <3>1, <3>2, <3>4, Zenon
    <3> QED BY <3>1, <3>5, <3>6, Zenon
  <2>4. CASE ~(e[1] = pos.i /\ pos.jj <= e[2] /\ e[2] < JEnd)
    BY <1>4, <1>5, <2>1, <2>4, Zenon
  <2> QED BY <2>3, <2>4
<1>9. Values'
  <2>1. ASSUME NEW e \in Elements PROVE Terms(e, BlockTerms(e))' = Terms(e, BlockTerms(e)')
    BY DEF Terms
  <2> QED BY <1>1, <1>8, <2>1, SameCall DEF Values, MicroKernels
<1>10. Kept
  <2> SUFFICES ASSUME NEW e \in Elements, e[1] = pos.i, pos.jj <= e[2], e[2] < JEnd
               PROVE  C(e) # Dot(e)
    BY <1>5 DEF Kept
  <2>1. BlockTerms(e) = pos.k
    BY <1>4
  <2>2. C(e) = Terms(e, pos.k)
    BY <2>1 DEF IInv, Values
  <2>3. pos.k < call.depth /\ call.depth \in Nat
    BY <1>2, CallFacts, Fields DEF BlockBounds, KEnd, Least
  <2> QED BY <1>2, <2>2, <2>3, PartIsNotAll
<1> QED BY <1>6, <1>7, <1>9, <1>10 DEF IInv

LEMMA BlockedStep == IInv /\ BlockedRow => IInv' /\ Kept
<1> SUFFICES ASSUME IInv, BlockedRow PROVE IInv' /\ Kept
  OBVIOUS
<1> DEFINE B == [j \in pos.jj .. JEnd - 1 |-> <<pos.k, j>>]
<1>1. /\ pc = "compute" /\ call.kernel = "blocked" /\ pos.ii < call.rows
      /\ UNCHANGED <<call, pc, acc>> /\ pos' = NextBlockRow
      /\ AddRow(pos.i, pos.k, pos.jj .. JEnd - 1, B)
  BY DEF BlockedRow
<1>2. \A j \in pos.jj .. JEnd - 1 : B[j] = <<pos.k, j>>
  OBVIOUS
<1> HIDE DEF B
<1> QED BY <1>1, <1>2, BlockStep

\* gemm_packed_b multiplies with the same elements of B as gemm_blocked.
LEMMA PackedStep == IInv /\ PackedRow => IInv' /\ Kept
<1> SUFFICES ASSUME IInv, PackedRow PROVE IInv' /\ Kept
  OBVIOUS
<1> DEFINE B == [j \in pos.jj .. JEnd - 1 |-> PackedRowElement(j)]
<1>1. /\ pc = "compute" /\ call.kernel = "packed" /\ pos.ii < call.rows
      /\ UNCHANGED <<call, pc, acc>> /\ pos' = NextBlockRow
      /\ AddRow(pos.i, pos.k, pos.jj .. JEnd - 1, B)
  BY DEF PackedRow
<1>2. /\ call \in Calls /\ pos \in [DOMAIN Start -> Nat] /\ BlockBounds
      /\ call.block \in Nat \ {0} /\ call.cols \in Nat /\ call.depth \in Nat
      /\ pos.kk \in Nat /\ pos.k \in Nat /\ pos.jj \in Nat
  BY <1>1, CallFacts, Fields, Accepting DEF IInv, Types, Progress, Bounds
<1>3. ASSUME NEW j \in pos.jj .. JEnd - 1 PROVE PackedRowElement(j) = <<pos.k, j>>
  <2> DEFINE d == j - pos.jj
  <2>1. /\ pos.kk % call.block = 0 /\ pos.jj % call.block = 0
        /\ pos.k \in pos.kk .. pos.kk + call.block - 1 /\ pos.k < call.depth
    BY <1>1, <1>2 DEF BlockBounds, KEnd, Least
  <2>2. d \in 0 .. call.block - 1 /\ pos.jj + d = j /\ pos.jj + d < call.cols
    BY <1>2 DEF JEnd, Least
  <2>3. PackedRowElement(j)
          = PackedValue(PackedIndex(pos.kk, pos.k - pos.kk, pos.jj, d, call))
    BY DEF PackedRowElement
  <2> HIDE DEF d
  <2>4. PackedValue(PackedIndex(pos.kk, pos.k - pos.kk, pos.jj, d, call)) = <<pos.k, pos.jj + d>>
    BY <1>2, <2>1, <2>2, PackedRead
  <2> QED BY <2>2, <2>3, <2>4
<1>4. \A j \in pos.jj .. JEnd - 1 : B[j] = <<pos.k, j>>
  BY <1>3
<1> HIDE DEF B
<1> QED BY <1>1, <1>4, BlockStep

-------------------------------------------------------------------------------
(* micro and avx2 *)

\* The loop over k inside a micro-tile: the walk stays, one more product is due.
LEMMA DepthMoves ==
  ASSUME call \in Calls, call' = call, call.block # 0, pos \in [DOMAIN Start -> Nat],
         TileBounds, HasTile(Walk, call.rows), pos.kk < call.depth,
         RowCount(Walk, call, call.rows) > 0,
         pos' = IF pos.k + 1 < KEnd
                THEN [pos EXCEPT !.k = @ + 1]
                ELSE [pos EXCEPT !.kk = @ + call.block, !.k = pos.kk + call.block]
  PROVE  /\ pos' \in [DOMAIN Start -> Nat] /\ TileBounds'
         /\ pos'.ii = pos.ii /\ pos'.jj = pos.jj /\ pos'.i = pos.i /\ pos'.j = pos.j
         /\ pos'.row = pos.row /\ pos.row = 0
         /\ Least(pos.k, call.depth) = pos.k /\ Least(pos'.k, call.depth) = pos.k + 1
<1> DEFINE kk == pos.kk
           k == pos.k
           kk2 == pos'.kk
           k2 == pos'.k
           b == call.block
           D == call.depth
<1>1. /\ pos.jj % call.block = 0 /\ pos.kk % call.block = 0
      /\ pos.kk <= pos.k /\ pos.k < KEnd /\ pos.row = 0
      /\ KEnd = Least(pos.kk + call.block, call.depth)
      /\ TileInBounds(Walk, call, 0, call.rows)
  BY DEF TileBounds, KEnd
<1>2. /\ pos.kk \in Nat /\ pos.k \in Nat /\ pos.row \in Nat
      /\ call.block \in Nat \ {0} /\ call.depth \in Nat
  BY Fields, CallFacts
<1>3. /\ pos' \in [DOMAIN Start -> Nat]
      /\ IF pos.k + 1 < KEnd THEN pos'.kk = pos.kk /\ pos'.k = pos.k + 1
         ELSE pos'.kk = pos.kk + call.block /\ pos'.k = pos.kk + call.block
      /\ pos'.ii = pos.ii /\ pos'.jj = pos.jj /\ pos'.i = pos.i /\ pos'.j = pos.j
      /\ pos'.row = pos.row
  <2>1. CASE pos.k + 1 < KEnd
    <3>1. pos' = [pos EXCEPT !.k = @ + 1]
      BY <2>1
    <3>2. pos' \in [DOMAIN Start -> Nat]
      BY <1>2, <3>1 DEF Start
    <3>3. /\ pos'.kk = pos.kk /\ pos'.k = pos.k + 1
          /\ pos'.ii = pos.ii /\ pos'.jj = pos.jj /\ pos'.i = pos.i /\ pos'.j = pos.j
          /\ pos'.row = pos.row
      BY <3>1 DEF Start
    <3> QED BY <2>1, <3>2, <3>3
  <2>2. CASE ~(pos.k + 1 < KEnd)
    <3>1. pos' = [pos EXCEPT !.kk = pos.kk + call.block, !.k = pos.kk + call.block]
      BY <2>2
    <3>2. pos' \in [DOMAIN Start -> Nat]
      <4>1. \A x, y \in Nat : [pos EXCEPT !.kk = x, !.k = y] \in [DOMAIN Start -> Nat]
        BY Moves
      <4>2. pos.kk + call.block \in Nat
        BY <1>2
      <4> QED BY <3>1, <4>1, <4>2
    <3>3. /\ pos'.kk = pos.kk + call.block /\ pos'.k = pos.kk + call.block
          /\ pos'.ii = pos.ii /\ pos'.jj = pos.jj /\ pos'.i = pos.i /\ pos'.j = pos.j
          /\ pos'.row = pos.row
      BY <3>1 DEF Start
    <3> QED BY <2>2, <3>2, <3>3
  <2> QED BY <2>1, <2>2
<1>4. Walk' = Walk
  BY <1>3 DEF Walk
<1>5. KEnd' = Least(kk2 + b, D)
  BY DEF KEnd
<1>6. kk2 % b = 0
  <2>1. (kk + b) % b = 0
    <3> HIDE DEF kk, b
    <3> QED BY <1>1, <1>2, NextMultiple DEF kk, b
  <2> QED BY <1>1, <1>3, <2>1
<1>7. /\ IF kk2 < D THEN kk2 <= k2 /\ k2 < Least(kk2 + b, D) ELSE k2 >= D
      /\ Least(k, D) = k /\ Least(k2, D) = k + 1
  <2>1. /\ kk <= k /\ k < Least(kk + b, D) /\ kk \in Nat /\ k \in Nat /\ b \in Nat \ {0} /\ D \in Nat
        /\ kk < D
        /\ IF k + 1 < Least(kk + b, D) THEN kk2 = kk /\ k2 = k + 1
           ELSE kk2 = kk + b /\ k2 = kk + b
    BY <1>1, <1>2, <1>3
  <2> HIDE DEF kk, k, kk2, k2, b, D
  <2> QED BY <2>1 DEF Least
<1>8. TileBounds'
  <2>1. TileInBounds(Walk, call, 0, call.rows)'
    BY <1>1, <1>4
  <2>2. pos'.jj % b = 0 /\ pos'.row = 0
    BY <1>1, <1>3
  <2>3. RowCount(Walk, call, call.rows)' > 0
    BY <1>4
  <2> QED BY <1>5, <1>6, <1>7, <2>1, <2>2, <2>3 DEF TileBounds
<1> QED BY <1>1, <1>3, <1>7, <1>8

LEMMA MultiplyAddStep == IInv /\ MultiplyAdd => IInv'
<1> SUFFICES ASSUME IInv, MultiplyAdd PROVE IInv'
  OBVIOUS
<1>1. /\ InTile /\ pos.kk < call.depth
      /\ pc' = pc /\ call' = call /\ c' = c
      /\ acc' = [r \in DOMAIN acc |->
                   IF r \in TileRows \X Lanes
                   THEN Append(acc[r], <<<<pos.i + r[1], pos.k>>, PackedValue(LoadAddress(r[2]))>>)
                   ELSE acc[r]]
      /\ pos' = IF pos.k + 1 < KEnd
                THEN [pos EXCEPT !.k = @ + 1]
                ELSE [pos EXCEPT !.kk = @ + call.block, !.k = pos.kk + call.block]
  BY DEF MultiplyAdd
<1>2. /\ call \in Calls /\ pos \in [DOMAIN Start -> Nat] /\ Bounds /\ Accepted
      /\ DOMAIN acc = DOMAIN Zeros /\ Accumulators
      /\ pc = "compute" /\ call.kernel \in MicroKernels
  BY <1>1 DEF IInv, Types, Progress, InTile
<1>3. /\ Walk \in Tile /\ call.block \in Nat \ {0}
      /\ TileInBounds(Walk, call, 0, call.rows) /\ HasTile(Walk, call.rows)
      /\ TileRows = 0 .. RowCount(Walk, call, call.rows) - 1
      /\ Lanes = 0 .. ColumnCount(Walk, call) - 1
      /\ TileRows \X Lanes \subseteq DOMAIN Zeros
  BY <1>1, <1>2, TileInRegisters DEF IInv
<1>4. /\ call.rows \in Nat \ {0} /\ call.cols \in Nat \ {0} /\ call.depth \in Nat
      /\ pos.kk \in Nat /\ pos.k \in Nat /\ pos.i \in Nat /\ pos.jj \in Nat /\ pos.j \in Nat
  BY <1>2, CallFacts, Fields
<1>5. /\ RowCount(Walk, call, call.rows) \in 1 .. MicroRows
      /\ ColumnCount(Walk, call) \in 1 .. MicroCols
      /\ pos.jj + pos.j + ColumnCount(Walk, call) <= call.cols
      /\ pos.j + ColumnCount(Walk, call) <= call.block
  <2>1. Walk.jj = pos.jj /\ Walk.j = pos.j
    BY DEF Walk
  <2> QED BY <1>3, <1>4, <2>1, TileFacts
<1>6. TileBounds
  BY <1>2 DEF Bounds
<1>7. /\ pos' \in [DOMAIN Start -> Nat] /\ TileBounds'
      /\ pos'.ii = pos.ii /\ pos'.jj = pos.jj /\ pos'.i = pos.i /\ pos'.j = pos.j
      /\ pos'.row = pos.row /\ pos.row = 0
      /\ Least(pos.k, call.depth) = pos.k /\ Least(pos'.k, call.depth) = pos.k + 1
  <2>1. RowCount(Walk, call, call.rows) > 0
    BY <1>5
  <2> QED BY <1>1, <1>2, <1>3, <1>6, <2>1, DepthMoves
<1>8. Walk' = Walk
  BY <1>7 DEF Walk
<1>9. Types'
  BY <1>1, <1>2, <1>7, SameCall DEF IInv, Types
<1>10. TileRows' = TileRows /\ Lanes' = Lanes
  BY <1>1, <1>8 DEF TileRows, Lanes, Vector
<1>11. ASSUME NEW l \in Lanes PROVE PackedValue(LoadAddress(l)) = <<pos.k, pos.jj + pos.j + l>>
  <2> DEFINE d == pos.j + l
  <2>1. /\ pos.kk % call.block = 0 /\ pos.jj % call.block = 0
        /\ pos.kk <= pos.k /\ pos.k < KEnd
    BY <1>1, <1>3, <1>4, <1>6 DEF TileBounds
  <2>5. pos.k \in pos.kk .. pos.kk + call.block - 1 /\ pos.k < call.depth
    BY <1>3, <1>4, <2>1, WithinTile DEF KEnd
  <2>2. d \in 0 .. call.block - 1 /\ pos.jj + d < call.cols /\ pos.jj + d = pos.jj + pos.j + l
    <3> DEFINE n == ColumnCount(Walk, call)
    <3>1. n \in Nat /\ l \in 0 .. n - 1 /\ pos.jj + pos.j + n <= call.cols /\ pos.j + n <= call.block
      BY <1>3, <1>5, MicroShapeAssumption
    <3>2. call.block \in Nat /\ call.cols \in Nat /\ pos.jj \in Nat /\ pos.j \in Nat
      BY <1>3, <1>4
    <3> HIDE DEF n
    <3>3. l \in Nat /\ l < n
      BY <3>1
    <3>4. /\ pos.j + l >= 0 /\ pos.j + l < call.block
          /\ pos.jj + (pos.j + l) < call.cols
          /\ pos.jj + (pos.j + l) = pos.jj + pos.j + l
      BY <3>1, <3>2, <3>3
    <3> QED BY <3>2, <3>3, <3>4
  <2>3. LoadAddress(l) = PackedIndex(pos.kk, pos.k - pos.kk, pos.jj, d, call)
    BY DEF LoadAddress
  <2> HIDE DEF d
  <2>4. PackedValue(PackedIndex(pos.kk, pos.k - pos.kk, pos.jj, d, call)) = <<pos.k, pos.jj + d>>
    <3>1. call \in Calls /\ call.block # 0 /\ pos.kk \in Nat /\ pos.jj \in Nat
      BY <1>2, <1>3, <1>4
    <3> QED BY <2>1, <2>2, <2>5, <3>1, PackedRead
  <2> QED BY <2>2, <2>3, <2>4
<1>12. Accumulators'
  <2> SUFFICES ASSUME NEW r \in TileRows \X Lanes
               PROVE  acc'[r] = Terms(<<pos.i + r[1], pos.jj + pos.j + r[2]>>, pos.k + 1)
    <3>1. Accumulators' <=> \A r \in TileRows' \X Lanes' :
             acc'[r] = Terms(<<pos'.i + r[1], pos'.jj + pos'.j + r[2]>>, Least(pos'.k, call'.depth))
      BY DEF Accumulators
    <3>2. /\ pos'.i = pos.i /\ pos'.jj = pos.jj /\ pos'.j = pos.j
          /\ Least(pos'.k, call'.depth) = pos.k + 1
      BY <1>1, <1>7
    <3> QED BY <1>10, <3>1, <3>2, Zenon
  <2> DEFINE e == <<pos.i + r[1], pos.jj + pos.j + r[2]>>
  <2>1. r \in DOMAIN acc /\ r[2] \in Lanes
    BY <1>2, <1>3
  <2>2. acc'[r] = Append(acc[r], <<<<pos.i + r[1], pos.k>>, PackedValue(LoadAddress(r[2]))>>)
    BY <1>1, <2>1, Zenon
  <2>3. PackedValue(LoadAddress(r[2])) = <<pos.k, e[2]>>
    BY <1>11, <2>1
  <2>4. acc[r] = Terms(e, pos.k)
    BY <1>2, <1>7 DEF Accumulators
  <2>5. e = <<e[1], e[2]>> /\ e[1] = pos.i + r[1]
    OBVIOUS
  <2> HIDE DEF e
  <2>6. Append(Terms(e, pos.k), <<<<e[1], pos.k>>, <<pos.k, e[2]>>>>) = Terms(e, pos.k + 1)
    BY <1>4, <2>5, TermAdded
  <2>7. acc'[r] = Terms(e, pos.k + 1)
    BY <2>2, <2>3, <2>4, <2>5, <2>6
  <2> QED BY <2>7 DEF e
<1>13. Progress'
  <2>1. Accepted'
    BY <1>1, <1>2, SameCall
  <2>2. Bounds'
    BY <1>1, <1>2, <1>7 DEF Bounds, MicroKernels
  <2> QED BY <1>1, <1>2, <1>12, <2>1, <2>2 DEF Progress
<1>14. Values'
  <2>1. ASSUME NEW e \in Elements PROVE Stored(e)' <=> Stored(e)
    BY <1>1, <1>7, <1>8 DEF Stored, InLanes
  <2> QED BY <1>1, <1>2, <2>1, SameCall DEF IInv, Values, MicroKernels
<1> QED BY <1>9, <1>13, <1>14 DEF IInv

\* A store of the row S of a micro-tile, beginning with the element <<x, a>>.
RowStore(x, a, w, S) ==
  c' = [o \in Offsets |->
          IF o - Offset(x, a) \in 0 .. w - 1 THEN S[o - Offset(x, a)] ELSE c[o]]

\* It changes the elements of the row and no others.
LEMMA RowStored ==
  ASSUME call \in Calls, call' = call,
         NEW x \in Nat, NEW a \in Nat, NEW w \in Nat, a + w <= call.cols, NEW S,
         RowStore(x, a, w, S)
  PROVE  /\ DOMAIN c' = Offsets
         /\ \A e \in Elements :
              C(e)' = IF e[1] = x /\ a <= e[2] /\ e[2] < a + w THEN S[e[2] - a] ELSE C(e)
<1> SUFFICES ASSUME NEW e \in Elements
             PROVE  C(e)' = IF e[1] = x /\ a <= e[2] /\ e[2] < a + w THEN S[e[2] - a] ELSE C(e)
  BY DEF RowStore
<1> DEFINE n == call.cols
           u == e[1]
           y == e[2]
           o == Offset(u, y)
           l == o - Offset(x, a)
           b == a + w
<1>1. C(e) = c[o] /\ C(e)' = c'[o]
  BY DEF C, Offset
<1>2. o \in Offsets
  BY ElementOffsets
<1>3. u \in Nat /\ y \in 0 .. n - 1 /\ n \in Nat \ {0} /\ b \in 0 .. n
  BY CallFacts DEF Elements
<1>4. o = u * n + y /\ Offset(x, a) = x * n + a
  BY DEF Offset
<1>5. u * n \in Nat /\ x * n \in Nat
  BY <1>3, ProductNat
<1>6. c'[o] = IF l \in 0 .. w - 1 THEN S[l] ELSE c[o]
  BY <1>2 DEF RowStore
<1>7. /\ l \in 0 .. w - 1 <=> u = x /\ a <= y /\ y < b
      /\ u = x => l = y - a
  <2> HIDE DEF n, u, y, o, b
  <2>1. /\ (u * n + y) - (x * n + 0) \in a .. b - 1 <=> u = x /\ a <= y /\ y < b
        /\ u = x => (u * n + y) - (x * n + 0) = y
    BY <1>3, RowRun
  <2> DEFINE p == u * n
             q == x * n
  <2>2. l = (p + y) - (q + a)
    BY <1>4
  <2>3. /\ (p + y) - (q + 0) \in a .. b - 1 <=> u = x /\ a <= y /\ y < b
        /\ u = x => (p + y) - (q + 0) = y
    BY <2>1
  <2>4. p \in Nat /\ q \in Nat
    BY <1>5
  <2>5. y \in Nat /\ b = a + w
    BY <1>3 DEF b
  <2> HIDE DEF p, q, l
  <2>6. l \in 0 .. w - 1 <=> (p + y) - (q + 0) \in a .. b - 1
    BY <2>2, <2>4, <2>5
  <2>7. (p + y) - (q + 0) = y => l = y - a
    BY <2>2, <2>4, <2>5
  <2> QED BY <2>3, <2>6, <2>7
<1> HIDE DEF l, o, n
<1>8. CASE u = x /\ a <= y /\ y < b
  BY <1>1, <1>6, <1>7, <1>8, Zenon
<1>9. CASE ~(u = x /\ a <= y /\ y < b)
  BY <1>1, <1>6, <1>7, <1>9, Zenon
<1> QED BY <1>8, <1>9, Zenon

\* The walk goes on to the next micro-tile.
LEMMA TileMoves ==
  ASSUME call \in Calls, call' = call, call.block # 0, pos \in [DOMAIN Start -> Nat],
         TileBounds, HasTile(Walk, call.rows),
         pos' = BeginTile(NextTile(Walk, call, call.rows))
  PROVE  /\ pos' \in [DOMAIN Start -> Nat] /\ TileBounds'
         /\ Walk' = NextTile(Walk, call, call.rows) /\ Walk' \in Tile
         /\ pos'.k = 0 /\ pos'.row = 0
<1> DEFINE u == NextTile(Walk, call, call.rows)
<1>1. /\ call.rows \in Nat /\ call.cols \in Nat \ {0} /\ call.block \in Nat \ {0}
      /\ call.depth \in Nat \ {0}
  BY CallFacts
<1>2. Walk \in Tile /\ TileInBounds(Walk, call, 0, call.rows) /\ pos.jj % call.block = 0
  BY WalkIsTile DEF Walk, TileBounds
<1>3. u \in Tile
  BY <1>1, <1>2, TileTypes
<1>4. u.ii \in Nat /\ u.jj \in Nat /\ u.i \in Nat /\ u.j \in Nat
  BY <1>3 DEF Tile
<1>5. u = [ii |-> u.ii, jj |-> u.jj, i |-> u.i, j |-> u.j]
  BY <1>3 DEF Tile
<1>6. u.jj = Walk.jj \/ u.jj = Walk.jj + call.block \/ u.jj = 0
  BY DEF NextTile, At, FirstTile
<1>7. TileInBounds(u, call, 0, call.rows)
  <2>1. ASSUME NEW x \in Nat, NEW y \in Nat PROVE TileInBounds(u, call, 0, call.rows)
    <3> DEFINE t == Walk
               limit == call.rows
    <3>1. t \in Tile /\ TileInBounds(t, call, 0, limit) /\ HasTile(t, limit) /\ limit \in Nat /\ 0 \in Nat
      BY <1>1, <1>2
    <3> HIDE DEF t, limit
    <3>2. TileInBounds(NextTile(t, call, limit), call, 0, limit)
      BY <1>1, <3>1, WalkStep
    <3> QED BY <3>2 DEF t, limit
  <2> QED BY <2>1
<1> HIDE DEF u
<1>8. pos' = [Start EXCEPT !.ii = u.ii, !.jj = u.jj, !.i = u.i, !.j = u.j]
  BY DEF BeginTile, u
<1>9. pos' \in [DOMAIN Start -> Nat]
  BY <1>4, <1>8, TileStart
<1>10. /\ pos'.ii = u.ii /\ pos'.jj = u.jj /\ pos'.i = u.i /\ pos'.j = u.j
       /\ pos'.kk = 0 /\ pos'.k = 0 /\ pos'.row = 0
  BY <1>8 DEF Start
<1>11. Walk' = u
  BY <1>5, <1>10 DEF Walk
<1>12. pos'.jj % call.block = 0 /\ pos'.kk % call.block = 0
  <2> DEFINE jj == pos.jj
             b == call.block
  <2>1. Walk.jj = jj
    BY DEF Walk
  <2>2. jj \in Nat /\ b \in Nat \ {0} /\ jj % b = 0
    BY <1>1, <1>2, Fields
  <2>3. pos'.jj = jj \/ pos'.jj = jj + b \/ pos'.jj = 0
    BY <1>6, <1>10, <2>1
  <2>4. \A q \in Nat \ {0} : 0 % q = 0
    OBVIOUS
  <2> HIDE DEF jj, b
  <2>5. (jj + b) % b = 0 /\ 0 % b = 0
    BY <2>2, <2>4, NextMultiple
  <2>6. pos'.jj % b = 0
    BY <2>2, <2>3, <2>5, Zenon
  <2>7. pos'.kk % b = 0
    BY <1>10, <2>5
  <2> QED BY <2>6, <2>7 DEF b
<1>13. TileBounds'
  <2>1. TileInBounds(Walk, call, 0, call.rows)'
    BY <1>7, <1>11
  <2>2. pos'.kk < call.depth /\ pos'.kk <= pos'.k /\ pos'.k < KEnd' /\ pos'.row = 0
    BY <1>1, <1>10 DEF KEnd, Least
  <2> QED BY <1>12, <2>1, <2>2 DEF TileBounds
<1> QED BY <1>3, <1>9, <1>10, <1>11, <1>13 DEF u

LEMMA StoreRowStep == IInv /\ StoreRow => IInv' /\ Kept
<1> SUFFICES ASSUME IInv, StoreRow PROVE IInv' /\ Kept
  OBVIOUS
<1> DEFINE x0 == pos.i + pos.row
           y0 == pos.jj + pos.j
           height == RowCount(Walk, call, call.rows)
           width == ColumnCount(Walk, call)
           last == ~(pos.row + 1 \in TileRows)
           S == [l \in 0 .. width - 1 |-> acc[<<pos.row, l>>]]
<1>1. /\ InTile /\ pos.kk >= call.depth
      /\ pc' = pc /\ call' = call
      /\ c' = [o \in Offsets |->
                 IF o - Offset(x0, y0) \in Lanes
                 THEN acc[<<pos.row, o - Offset(x0, y0)>>] ELSE c[o]]
      /\ ~last => pos' = [pos EXCEPT !.row = @ + 1] /\ acc' = acc
      /\ last => pos' = BeginTile(NextTile(Walk, call, call.rows)) /\ acc' = Zeros
  BY DEF StoreRow, FreshAccumulators
<1>2. /\ call \in Calls /\ pos \in [DOMAIN Start -> Nat] /\ Bounds /\ Accepted
      /\ DOMAIN c = Offsets /\ DOMAIN acc = DOMAIN Zeros /\ Accumulators
      /\ pc = "compute" /\ call.kernel \in MicroKernels
  BY <1>1 DEF IInv, Types, Progress, InTile
<1>3. /\ Walk \in Tile /\ call.block \in Nat \ {0}
      /\ TileInBounds(Walk, call, 0, call.rows) /\ HasTile(Walk, call.rows)
      /\ TileRows = 0 .. height - 1
      /\ Lanes = 0 .. width - 1
  BY <1>1, <1>2, TileInRegisters DEF IInv
<1>4. /\ call.rows \in Nat \ {0} /\ call.cols \in Nat \ {0} /\ call.depth \in Nat
      /\ pos.kk \in Nat /\ pos.k \in Nat /\ pos.i \in Nat /\ pos.jj \in Nat /\ pos.j \in Nat
      /\ pos.row \in Nat
  BY <1>2, CallFacts, Fields
<1>5. height \in Nat /\ width \in Nat /\ y0 + width <= call.cols
  <2>1. Walk.jj = pos.jj /\ Walk.j = pos.j
    BY DEF Walk
  <2>2. height \in 1 .. MicroRows /\ width \in 1 .. MicroCols /\ y0 + width <= call.cols
    BY <1>3, <1>4, <2>1, TileFacts
  <2> QED BY <2>2, MicroShapeAssumption
<1>6. TileBounds /\ pos.k >= call.depth /\ pos.row < height
  <2>1. ~(pos.kk < call.depth)
    BY <1>1, <1>4
  <2> QED BY <1>2, <1>3, <2>1 DEF Bounds, TileBounds
<1>7. /\ DOMAIN c' = Offsets
      /\ \A e \in Elements :
           C(e)' = IF e[1] = x0 /\ y0 <= e[2] /\ e[2] < y0 + width THEN S[e[2] - y0] ELSE C(e)
  <2>1. RowStore(x0, y0, width, S)
    BY <1>1, <1>3 DEF RowStore
  <2>2. x0 \in Nat /\ y0 \in Nat
    BY <1>4
  <2> HIDE DEF S, x0, y0, width
  <2>3. call \in Calls /\ call' = call /\ DOMAIN c = Offsets /\ width \in Nat /\ y0 + width <= call.cols
    BY <1>1, <1>2, <1>5
  <2> QED BY <2>1, <2>2, <2>3, RowStored
<1>8. ASSUME NEW e \in Elements
      PROVE  C(e)' = IF e[1] = x0 /\ InLanes(e[2]) THEN Dot(e) ELSE C(e)
  <2>1. e[1] \in Nat /\ e[2] \in Nat /\ e = <<e[1], e[2]>>
    BY <1>4 DEF Elements
  <2>2. InLanes(e[2]) <=> y0 <= e[2] /\ e[2] < y0 + width
    BY DEF InLanes
  <2>3. CASE e[1] = x0 /\ InLanes(e[2])
    <3> DEFINE l == e[2] - y0
    <3>1. l \in 0 .. width - 1 /\ y0 + l = e[2] /\ pos.row \in 0 .. height - 1
      BY <1>4, <1>5, <1>6, <2>1, <2>2, <2>3
    <3>2. C(e)' = S[l]
      BY <1>7, <2>2, <2>3, Zenon
    <3>3. S[l] = acc[<<pos.row, l>>]
      BY <3>1
    <3>4. <<pos.row, l>> \in TileRows \X Lanes
      BY <1>3, <3>1
    <3>5. Least(pos.k, call.depth) = call.depth
      BY <1>4, <1>6 DEF Least
    <3> HIDE DEF l, S
    <3>6. acc[<<pos.row, l>>] = Terms(<<pos.i + pos.row, pos.jj + pos.j + l>>, call.depth)
      BY <1>2, <3>4, <3>5 DEF Accumulators
    <3>7. <<pos.i + pos.row, pos.jj + pos.j + l>> = e
      BY <2>1, <2>3, <3>1
    <3>8. Terms(e, call.depth) = Dot(e)
      BY DEF Terms, Dot
    <3> QED BY <2>3, <3>2, <3>3, <3>6, <3>7, <3>8
  <2>4. CASE ~(e[1] = x0 /\ InLanes(e[2]))
    BY <1>7, <2>2, <2>4, Zenon
  <2> QED BY <2>3, <2>4
<1>9. last <=> pos.row + 1 = height
  <2>1. last <=> ~(pos.row + 1 \in 0 .. height - 1)
    BY <1>3, Zenon
  <2>2. pos.row \in Nat /\ height \in Nat /\ pos.row < height
    BY <1>4, <1>5, <1>6
  <2> HIDE DEF last, height
  <2> QED BY <2>1, <2>2
<1>10. ASSUME last
       PROVE  /\ pos' \in [DOMAIN Start -> Nat] /\ TileBounds'
              /\ Walk' = NextTile(Walk, call, call.rows) /\ Walk' \in Tile
              /\ pos'.k = 0 /\ pos'.row = 0
  BY <1>1, <1>2, <1>3, <1>6, <1>10, TileMoves
<1>11. ASSUME ~last
       PROVE  /\ pos' \in [DOMAIN Start -> Nat]
              /\ pos'.ii = pos.ii /\ pos'.jj = pos.jj /\ pos'.i = pos.i /\ pos'.j = pos.j
              /\ pos'.kk = pos.kk /\ pos'.k = pos.k /\ pos'.row = pos.row + 1
              /\ Walk' = Walk
  <2>1. pos' = [pos EXCEPT !.row = pos.row + 1]
    BY <1>1, <1>11
  <2>2. pos' \in [DOMAIN Start -> Nat]
    BY <1>2, <1>4, <2>1 DEF Start
  <2>3. /\ pos'.ii = pos.ii /\ pos'.jj = pos.jj /\ pos'.i = pos.i /\ pos'.j = pos.j
        /\ pos'.kk = pos.kk /\ pos'.k = pos.k /\ pos'.row = pos.row + 1
    BY <1>2, <2>1 DEF Start
  <2> QED BY <2>2, <2>3 DEF Walk
<1>12. TileBounds'
  <2>1. CASE last
    BY <1>10, <2>1
  <2>2. CASE ~last
    <3>1. ~(pos.kk < call.depth) /\ pos.row + 1 < height
      BY <1>1, <1>4, <1>5, <1>6, <1>9, <2>2
    <3>2. /\ TileInBounds(Walk, call, 0, call.rows)'
          /\ RowCount(Walk, call, call.rows)' = height
      BY <1>1, <1>3, <1>11, <2>2
    <3> QED BY <1>1, <1>3, <1>6, <1>11, <2>2, <3>1, <3>2, Zenon DEF TileBounds
  <2> QED BY <2>1, <2>2
<1>13. Types'
  <2>1. pos' \in [DOMAIN Start -> Nat]
    BY <1>10, <1>11
  <2>2. DOMAIN acc' = DOMAIN Zeros
    BY <1>1, <1>2
  <2> QED BY <1>1, <1>2, <1>7, <2>1, <2>2, SameCall DEF IInv, Types
<1>14. ASSUME InTile' PROVE Accumulators'
  <2>1. Accumulators' <=> \A r \in TileRows' \X Lanes' :
          acc'[r] = Terms(<<pos'.i + r[1], pos'.jj + pos'.j + r[2]>>, Least(pos'.k, call'.depth))
    BY DEF Accumulators
  <2>2. CASE last
    <3>1. HasTile(Walk', call.rows) /\ TileInBounds(Walk', call, 0, call.rows)
      BY <1>1, <1>12, <1>14 DEF InTile, TileBounds
    <3>2. /\ RowCount(Walk', call, call.rows) \in 1 .. MicroRows
          /\ ColumnCount(Walk', call) \in 1 .. MicroCols
      BY <1>3, <1>4, <1>10, <2>2, <3>1, TileFacts
    <3>3. TileRows' \X Lanes' \subseteq DOMAIN Zeros
      BY <1>1, <3>2, LoopsNext, MicroShapeAssumption DEF Zeros
    <3>4. Least(pos'.k, call'.depth) = 0
      BY <1>1, <1>4, <1>10, <2>2 DEF Least
    <3>5. ASSUME NEW r \in TileRows' \X Lanes', NEW e PROVE acc'[r] = Terms(e, 0)
      <4>1. acc'[r] = <<>>
        BY <1>1, <2>2, <3>3, <3>5 DEF Zeros
      <4>2. Terms(e, 0) = <<>>
        BY DEF Terms
      <4> QED BY <4>1, <4>2
    <3> QED BY <2>1, <3>4, <3>5
  <2>3. CASE ~last
    <3>1. TileRows' = TileRows /\ Lanes' = Lanes
      BY <1>1, <1>11, <2>3 DEF TileRows, Lanes, Vector
    <3> QED BY <1>1, <1>2, <1>11, <2>1, <2>3, <3>1, Zenon DEF Accumulators
  <2> QED BY <2>2, <2>3
<1>15. Progress'
  <2>1. Accepted'
    BY <1>1, <1>2, SameCall
  <2>2. Bounds'
    BY <1>1, <1>2, <1>12 DEF Bounds, MicroKernels
  <2> QED BY <1>1, <1>2, <1>14, <2>1, <2>2 DEF Progress
<1>16. ASSUME NEW e \in Elements PROVE Stored(e)' <=> Stored(e) \/ (e[1] = x0 /\ InLanes(e[2]))
  <2>1. e[1] \in Nat /\ e[2] \in Nat /\ e[1] < call.rows /\ e[2] < call.cols /\ e = <<e[1], e[2]>>
    BY <1>4 DEF Elements
  <2>2. CASE ~last
    BY <1>1, <1>4, <1>11, <2>1, <2>2 DEF Stored, InLanes
  <2>3. CASE last
    <3>1. Stored(e)' <=> Before(e, NextTile(Walk, call, call.rows), call, call.rows)
      <4>1. Stored(e)' <=> \/ Before(e, Walk', call', call'.rows)
                           \/ pos'.i <= e[1] /\ e[1] < pos'.i + pos'.row /\ InLanes(e[2])'
        BY DEF Stored
      <4>2. ~(pos'.i <= e[1] /\ e[1] < pos'.i + pos'.row)
        <5>1. pos'.i \in Nat /\ pos'.row = 0
          BY <1>10, <2>3, Fields
        <5> QED BY <2>1, <5>1
      <4> QED BY <1>1, <1>10, <2>3, <4>1, <4>2, Zenon
    <3>2. e \in Footprint(Walk, call, call.rows) <=> pos.i <= e[1] /\ e[1] < pos.i + height /\ InLanes(e[2])
      <4>1. Footprint(Walk, call, call.rows) = Rectangle(Walk, height, width)
        BY DEF Footprint, IsFullTile
      <4>2. Rectangle(Walk, height, width)
              = (pos.i .. pos.i + height - 1) \X (y0 .. y0 + width - 1)
        BY DEF Rectangle, Walk
      <4>3. e \in (pos.i .. pos.i + height - 1) \X (y0 .. y0 + width - 1)
              <=> e[1] \in pos.i .. pos.i + height - 1 /\ e[2] \in y0 .. y0 + width - 1
        BY <2>1
      <4>4. InLanes(e[2]) <=> y0 <= e[2] /\ e[2] < y0 + width
        BY DEF InLanes
      <4> HIDE DEF height, width
      <4> QED BY <1>4, <1>5, <2>1, <4>1, <4>2, <4>3, <4>4
    <3>3. Before(e, NextTile(Walk, call, call.rows), call, call.rows)
            <=> Before(e, Walk, call, call.rows) \/ e \in Footprint(Walk, call, call.rows)
      <4> DEFINE t == Walk
                 limit == call.rows
                 x == e[1]
                 y == e[2]
      <4>1. /\ t \in Tile /\ TileInBounds(t, call, 0, limit) /\ HasTile(t, limit) /\ limit \in Nat
            /\ x \in Nat /\ y \in Nat /\ 0 <= x /\ x < limit /\ y < call.cols /\ e = <<x, y>>
        BY <1>3, <1>4, <2>1
      <4> HIDE DEF t, limit, x, y
      <4>2. Before(<<x, y>>, NextTile(t, call, limit), call, limit)
              <=> Before(<<x, y>>, t, call, limit) \/ <<x, y>> \in Footprint(t, call, limit)
        BY <1>3, <1>4, <4>1, WalkStep
      <4> QED BY <4>1, <4>2 DEF t, limit
    <3>4. pos.i <= e[1] /\ e[1] < pos.i + height
            <=> (pos.i <= e[1] /\ e[1] < pos.i + pos.row) \/ e[1] = x0
      BY <1>4, <1>9, <2>1, <2>3
    <3> QED BY <3>1, <3>2, <3>3, <3>4 DEF Stored
  <2> QED BY <2>2, <2>3
<1>17. Values'
  <2>1. ASSUME NEW e \in Elements PROVE C(e)' = IF Stored(e)' THEN Dot(e) ELSE Old
    <3>1. C(e) = IF Stored(e) THEN Dot(e) ELSE Old
      BY <1>2 DEF IInv, Values
    <3> QED BY <1>8, <1>16, <3>1
  <2> QED BY <1>1, <1>2, <2>1, SameCall DEF Values, MicroKernels
<1>18. Kept
  BY <1>8 DEF Kept
<1> QED BY <1>13, <1>15, <1>17, <1>18 DEF IInv

-------------------------------------------------------------------------------
(* The end, and every step *)

LEMMA ReturnStep == IInv /\ Return => IInv'
<1> SUFFICES ASSUME IInv, Return PROVE IInv'
  OBVIOUS
<1>1. /\ pc = "compute" /\ pc' = "returned"
      /\ (IF call.kernel \in {"naive", "ikj"} THEN pos.i ELSE pos.ii) >= call.rows
      /\ call' = call /\ c' = c /\ pos' = pos /\ acc' = acc
  BY DEF Return
<1>2. /\ call \in Calls /\ call.rows \in Nat /\ call.kernel \in Kernels
      /\ pos.i \in Nat /\ pos.ii \in Nat
  BY CallFacts, Fields DEF IInv, Types
<1>3. Types'
  BY <1>1, SameCall DEF IInv, Types
<1>4. Progress'
  BY <1>1 DEF Progress, InTile
<1>5. ASSUME NEW e \in Elements PROVE C(e) = Dot(e)
  <2>1. e[1] \in Nat /\ e[1] < call.rows
    BY <1>2 DEF Elements
  <2>2. Terms(e, call.depth) = Dot(e)
    BY DEF Terms, Dot
  <2>3. CASE call.kernel = "naive"
    <3>1. NaiveDone(e)
      BY <1>1, <1>2, <2>1, <2>3 DEF NaiveDone
    <3> QED BY <1>1, <2>3, <3>1 DEF IInv, Values
  <2>4. CASE call.kernel = "ikj"
    <3>1. IkjTerms(e) = call.depth
      BY <1>1, <1>2, <2>1, <2>4 DEF IkjTerms
    <3> QED BY <1>1, <2>2, <2>4, <3>1 DEF IInv, Values
  <2>5. CASE call.kernel \in {"blocked", "packed"}
    <3>1. BlockTerms(e) = call.depth
      BY <1>1, <1>2, <2>1, <2>5 DEF BlockTerms
    <3> QED BY <1>1, <2>2, <2>5, <3>1 DEF IInv, Values
  <2>6. CASE call.kernel \in MicroKernels
    <3>1. e[1] < pos.ii
      BY <1>1, <1>2, <2>1, <2>6 DEF MicroKernels
    <3>2. Stored(e)
      BY <3>1 DEF Stored, Before, Walk
    <3> QED BY <1>1, <2>6, <3>2 DEF IInv, Values
  <2> QED BY <1>2, <2>3, <2>4, <2>5, <2>6 DEF Kernels, MicroKernels
<1>6. Values'
  BY <1>1, <1>5, SameCall DEF Values
<1> QED BY <1>3, <1>4, <1>6 DEF IInv

LEMMA StutterStep == IInv /\ UNCHANGED vars => IInv'
<1> SUFFICES ASSUME IInv, UNCHANGED vars PROVE IInv'
  OBVIOUS
<1>1. call' = call /\ pc' = pc /\ c' = c /\ pos' = pos /\ acc' = acc
  BY DEF vars
<1>2. Types'
  BY <1>1, SameCall DEF IInv, Types
<1>3. InTile' <=> InTile
  BY <1>1, SamePlace DEF InTile
<1>4. Progress'
  BY <1>1, <1>3, SameCall, SamePlace DEF IInv, Progress
<1>5. Values'
  <2>1. ASSUME NEW e \in Elements, NEW m PROVE Terms(e, m)' = Terms(e, m)
    BY DEF Terms
  <2> QED BY <1>1, <2>1, SameCall, SamePlace DEF IInv, Values
<1> QED BY <1>2, <1>4, <1>5 DEF IInv

\* The inductive invariant holds at every moment.
LEMMA Invariance == Spec => []IInv
<1>1. IInv /\ [Next]_vars => IInv'
  BY RejectStep, AcceptStep, ClearStep, NaiveStep, IkjStep, BlockedStep, PackedStep,
     MultiplyAddStep, StoreRowStep, ReturnStep, StutterStep DEF Next
<1> QED BY InitIInv, <1>1, PTL DEF Spec

-------------------------------------------------------------------------------
(* What follows from it *)

\* An element holds its old value or a part of its dot product.
LEMMA Sums ==
  ASSUME IInv, NEW e \in Elements
  PROVE  \/ C(e) = Old /\ (pc = "compute" => call.kernel \notin Clearing)
         \/ \E m \in 0 .. call.depth : C(e) = Terms(e, m)
<1>1. /\ call \in Calls /\ call.kernel \in Kernels
      /\ call.rows \in Nat /\ call.cols \in Nat /\ call.depth \in Nat
      /\ pos.ii \in Nat /\ pos.k \in Nat /\ pos.kk \in Nat
  BY CallFacts, Fields DEF IInv, Types
<1>2. e[1] \in Nat /\ e[1] < call.rows
  BY <1>1 DEF Elements
<1>3. Dot(e) = Terms(e, call.depth) /\ call.depth \in 0 .. call.depth
  BY <1>1 DEF Dot, Terms
<1>4. CASE pc # "compute"
  <2>1. C(e) = Old \/ C(e) = Dot(e)
    BY <1>4 DEF IInv, Types, Values
  <2> QED BY <1>3, <1>4, <2>1
<1>5. CASE pc = "compute" /\ call.kernel \in {"naive", "micro", "avx2"}
  <2>1. C(e) = Old \/ C(e) = Dot(e)
    BY <1>5 DEF IInv, Values, MicroKernels
  <2> QED BY <1>3, <1>5, <2>1 DEF Clearing
<1>6. CASE pc = "compute" /\ call.kernel = "ikj"
  <2>1. pos.k < call.depth
    BY <1>6 DEF IInv, Progress, Bounds
  <2>2. IkjTerms(e) \in 0 .. call.depth
    BY <1>1, <2>1 DEF IkjTerms
  <2> QED BY <1>6, <2>2 DEF IInv, Values
<1>7. CASE pc = "compute" /\ call.kernel \in {"blocked", "packed"}
  <2>1. BlockBounds
    BY <1>7 DEF IInv, Progress, Bounds
  <2>2. BlockTerms(e) \in 0 .. call.depth
    <3>1. CASE pos.ii < call.rows
      <4>1. pos.kk < call.depth /\ pos.k < KEnd
        BY <2>1, <3>1 DEF BlockBounds
      <4>2. KEnd \in 0 .. call.depth
        BY <1>1, <4>1, CallFacts DEF KEnd, Least
      <4> QED BY <1>1, <4>1, <4>2 DEF BlockTerms
    <3>2. CASE ~(pos.ii < call.rows)
      BY <1>1, <1>2, <3>2 DEF BlockTerms
    <3> QED BY <3>1, <3>2
  <2> QED BY <1>7, <2>2 DEF IInv, Values
<1> QED BY <1>1, <1>4, <1>5, <1>6, <1>7 DEF Kernels

\* Every state of a serial kernel is well typed, and no element of C ever has
\* more terms than one for each k (the old value of C counts as one).
THEOREM TypeCorrect == Spec => []TypeOK
<1>1. IInv => TypeOK
  <2> SUFFICES ASSUME IInv PROVE TypeOK
    OBVIOUS
  <2>1. Types
    BY DEF IInv
  <2>2. call \in Calls /\ call.depth \in Nat
    BY <2>1, CallFacts DEF Types
  <2>3. ASSUME NEW o \in Offsets PROVE Len(c[o]) <= call.depth + Len(Old)
    <3>1. PICK e \in Elements : o = Offset(e[1], e[2])
      BY <2>2, ElementOffsets
    <3>2. c[o] = C(e)
      BY <3>1 DEF C
    <3>3. Len(Old) = 1
      BY DEF Old
    <3>4. CASE C(e) = Old
      <4>1. Len(c[o]) = 1
        BY <3>2, <3>3, <3>4, Zenon
      <4> QED BY <2>2, <3>3, <4>1
    <3>5. CASE \E m \in 0 .. call.depth : C(e) = Terms(e, m)
      <4>1. PICK m \in 0 .. call.depth : C(e) = Terms(e, m)
        BY <3>5
      <4>2. Len(Terms(e, m)) = m
        BY <2>2, PrefixOfSum
      <4> QED BY <2>2, <3>2, <3>3, <4>1, <4>2
    <3> QED BY <3>4, <3>5, Sums
  <2> QED BY <2>1, <2>3 DEF Types, TypeOK
<1> QED BY Invariance, <1>1, PTL

\* The dot product of each element is summed up in ascending k, by all six
\* kernels and whatever the block size and the shape are: at every moment C holds
\* what it held before the call or the sum of the first products.
THEOREM SumsAscend == Spec => []AscendingSums
<1>1. IInv => AscendingSums
  <2> SUFFICES ASSUME IInv, NEW e \in Elements
               PROVE  \/ C(e) = Old /\ (pc = "compute" => call.kernel \notin Clearing)
                      \/ IsPrefix(C(e), Dot(e))
    BY DEF AscendingSums
  <2>1. call.depth \in Nat
    BY CallFacts DEF IInv, Types
  <2>2. Dot(e) = Terms(e, call.depth)
    BY DEF Dot, Terms
  <2>3. \A m \in 0 .. call.depth : IsPrefix(Terms(e, m), Dot(e))
    BY <2>1, <2>2, PrefixOfSum
  <2> QED BY <2>3, Sums
<1> QED BY Invariance, <1>1, PTL

\* The naive and the register kernels never leave a partial sum in C.
THEOREM StoresOnce == Spec => []RegisterKernelsStoreOnce
<1>1. IInv => RegisterKernelsStoreOnce
  <2> SUFFICES ASSUME IInv, call.kernel \notin Clearing, NEW e \in Elements
               PROVE  C(e) = Old \/ C(e) = Dot(e)
    BY DEF RegisterKernelsStoreOnce
  <2>1. call.kernel = "naive" \/ call.kernel \in MicroKernels
    BY CallFacts DEF IInv, Types, Kernels, Clearing, MicroKernels
  <2> QED BY <2>1 DEF IInv, Types, Values
<1> QED BY Invariance, <1>1, PTL

\* The unchecked loads and stores of the register kernels stay inside the packed
\* buffer and inside the row of C, and no load takes a padding zero for data.
THEOREM AccessesAreInside == Spec => []AccessesInside
<1>1. IInv => AccessesInside
  <2> SUFFICES ASSUME IInv, InTile, NEW row \in TileRows, NEW lane \in Lanes
               PROVE  /\ <<pos.i + row, pos.jj + pos.j + lane>> \in Elements
                      /\ pos.kk < call.depth =>
                           LoadAddress(lane) \in (0 .. ElementCount(call) - 1) \ Padding(call)
    BY DEF AccessesInside
  <2>1. Types /\ Bounds /\ Accepted /\ call \in Calls /\ pos \in [DOMAIN Start -> Nat]
    BY DEF IInv, Types, Progress, InTile
  <2>2. /\ Walk \in Tile /\ call.block \in Nat \ {0}
        /\ TileInBounds(Walk, call, 0, call.rows) /\ HasTile(Walk, call.rows)
        /\ TileRows = 0 .. RowCount(Walk, call, call.rows) - 1
        /\ Lanes = 0 .. ColumnCount(Walk, call) - 1
    BY <2>1, TileInRegisters
  <2>3. /\ call.rows \in Nat \ {0} /\ call.cols \in Nat \ {0} /\ call.depth \in Nat
        /\ pos.kk \in Nat /\ pos.k \in Nat /\ pos.i \in Nat /\ pos.jj \in Nat /\ pos.j \in Nat
    BY <2>1, CallFacts, Fields
  <2>4. /\ RowCount(Walk, call, call.rows) \in Nat /\ ColumnCount(Walk, call) \in Nat
        /\ pos.i + RowCount(Walk, call, call.rows) <= call.rows
        /\ pos.jj + pos.j + ColumnCount(Walk, call) <= call.cols
        /\ pos.j + ColumnCount(Walk, call) <= call.block
    <3>1. Walk.i = pos.i /\ Walk.jj = pos.jj /\ Walk.j = pos.j
      BY DEF Walk
    <3>2. /\ RowCount(Walk, call, call.rows) \in 1 .. MicroRows
          /\ ColumnCount(Walk, call) \in 1 .. MicroCols
          /\ Walk.i + RowCount(Walk, call, call.rows) <= call.rows
          /\ Walk.jj + Walk.j + ColumnCount(Walk, call) <= call.cols
          /\ Walk.j + ColumnCount(Walk, call) <= call.block
      <4> DEFINE t == Walk
      <4>1. t \in Tile /\ TileInBounds(t, call, 0, call.rows) /\ HasTile(t, call.rows) /\ call.rows \in Nat
        BY <2>2, <2>3
      <4> HIDE DEF t
      <4>2. /\ RowCount(t, call, call.rows) \in 1 .. MicroRows
            /\ ColumnCount(t, call) \in 1 .. MicroCols
            /\ t.i + RowCount(t, call, call.rows) <= call.rows
            /\ t.jj + t.j + ColumnCount(t, call) <= call.cols
            /\ t.j + ColumnCount(t, call) <= call.block
        BY <2>2, <2>3, <4>1, TileFacts
      <4> QED BY <4>2 DEF t
    <3>3. RowCount(Walk, call, call.rows) \in Nat /\ ColumnCount(Walk, call) \in Nat
      BY <3>2, MicroShapeAssumption
    <3> QED BY <3>1, <3>2, <3>3
  <2> DEFINE h == RowCount(Walk, call, call.rows)
             w == ColumnCount(Walk, call)
             d == pos.j + lane
  <2>5. row \in 0 .. h - 1 /\ lane \in 0 .. w - 1 /\ h \in Nat /\ w \in Nat
    BY <2>2, <2>4
  <2>6. row \in Nat /\ row < h /\ lane \in Nat /\ lane < w
    <3> HIDE DEF h, w
    <3> QED BY <2>5
  <2>7. pos.i + h <= call.rows /\ pos.jj + pos.j + w <= call.cols /\ pos.j + w <= call.block
    BY <2>4
  <2>8. call.rows \in Nat /\ call.cols \in Nat /\ call.block \in Nat
    BY <2>2, <2>3
  <2> HIDE DEF h, w
  <2>9. /\ pos.i + row \in 0 .. call.rows - 1
        /\ pos.jj + pos.j + lane \in 0 .. call.cols - 1
        /\ pos.jj + d < call.cols
        /\ d \in 0 .. call.block - 1
    BY <2>8, <2>3, <2>5, <2>6, <2>7
  <2>10. ASSUME pos.kk < call.depth
        PROVE  LoadAddress(lane) \in (0 .. ElementCount(call) - 1) \ Padding(call)
    <3>1. /\ pos.kk % call.block = 0 /\ pos.jj % call.block = 0
          /\ pos.kk <= pos.k /\ pos.k < KEnd
      BY <2>1, <2>2, <2>10 DEF InTile, Bounds, TileBounds
    <3>2. pos.k \in pos.kk .. pos.kk + call.block - 1 /\ pos.k < call.depth
      BY <2>2, <2>3, <3>1, WithinTile DEF KEnd
    <3>3. LoadAddress(lane) = PackedIndex(pos.kk, pos.k - pos.kk, pos.jj, d, call)
      BY DEF LoadAddress
    <3>4. call.block # 0
      BY <2>2
    <3> HIDE DEF d
    <3>5. PackedIndex(pos.kk, pos.k - pos.kk, pos.jj, d, call)
            \in (0 .. ElementCount(call) - 1) \ Padding(call)
      BY <2>1, <2>3, <2>9, <3>1, <3>2, <3>4, PackedRead
    <3> QED BY <3>3, <3>5
  <2> QED BY <2>9, <2>10 DEF Elements
<1> QED BY Invariance, <1>1, PTL

-------------------------------------------------------------------------------
(* The contract every kernel keeps *)

\* What C held before the call is no dot product: it names no element of A.
LEMMA OldIsNotDot ==
  ASSUME call \in Calls, NEW e \in Elements
  PROVE  Old # Dot(e)
<1>1. call.depth \in Nat \ {0} /\ e[1] \in Nat
  BY CallFacts DEF Elements
<1>2. Dot(e)[1] = <<<<e[1], 0>>, <<0, e[2]>>>>
  BY <1>1 DEF Dot
<1>3. Dot(e)[1][1][1] = e[1]
  BY <1>2
<1>4. Old[1][1][1] = -1
  BY DEF Old, Nowhere
<1> QED BY <1>1, <1>3, <1>4

\* What the contract sees of a call.
product == {e \in Elements : C(e) = Dot(e)}
outcome == IF pc \in {"returned", "rejected"} THEN pc ELSE "running"

\* A step that keeps what is done and goes on is a step of the contract.
LEMMA ComputeOrStutter ==
  ASSUME call' = call, outcome = "running", outcome' = "running", Kept
  PROVE  Contract!ContractCompute
<1>1. product \subseteq product' /\ product' \subseteq Elements
  BY SameCall DEF product, Kept
<1>2. Elements' = Elements
  BY SameCall
<1> QED BY <1>1, <1>2 DEF Contract!ContractCompute, product, outcome

\* The serial kernels keep the contract of every GEMM kernel: no element that is
\* computed is lost again, a rejected call leaves C as it was, and a call that
\* returns has computed all of C.
THEOREM Refinement == Spec => KeepsContract
<1>1. Init => Contract!ContractInit
  <2> SUFFICES ASSUME Init PROVE Contract!ContractInit
    OBVIOUS
  <2>1. IInv /\ pc = "validate"
    BY InitIInv DEF Init
  <2>2. call \in Calls /\ \A e \in Elements : C(e) = Old
    BY <2>1 DEF IInv, Types, Values
  <2>3. product = {}
    BY <2>2, OldIsNotDot DEF product
  <2>4. Elements # {}
    <3>1. call.rows \in Nat \ {0} /\ call.cols \in Nat \ {0}
      BY <2>2, CallFacts
    <3>2. <<0, 0>> \in Elements
      BY <3>1 DEF Elements
    <3> QED BY <3>2
  <2>5. outcome = "running"
    BY <2>1 DEF outcome
  <2> QED BY <2>3, <2>4, <2>5 DEF Contract!ContractInit, product, outcome
<1>2. IInv /\ IInv' /\ [Next]_vars => [Contract!ContractNext]_(Contract!contractVars)
  <2> SUFFICES ASSUME IInv, IInv', [Next]_vars
               PROVE  Contract!ContractNext \/ UNCHANGED Contract!contractVars
    OBVIOUS
  <2>1. CASE Reject
    <3>1. /\ pc = "validate" /\ pc' = "rejected" /\ call' = call /\ c' = c
      BY <2>1 DEF Reject
    <3>2. call \in Calls /\ \A e \in Elements : C(e) = Old
      BY <3>1 DEF IInv, Types, Values
    <3>3. product = {}
      BY <3>2, OldIsNotDot DEF product
    <3>4. product' = product /\ Elements' = Elements
      BY <3>1, SameCall DEF product
    <3>5. outcome = "running" /\ outcome' = "rejected"
      BY <3>1 DEF outcome
    <3>6. Contract!ContractReject
      BY <3>3, <3>4, <3>5 DEF Contract!ContractReject, product, outcome
    <3> QED BY <3>6 DEF Contract!ContractNext
  <2>2. CASE Return
    <3>1. /\ pc = "compute" /\ pc' = "returned" /\ call' = call /\ c' = c
      BY <2>2 DEF Return
    <3>2. \A e \in Elements' : C(e)' = Dot(e)'
      BY <3>1 DEF IInv, Values
    <3>3. \A e \in Elements : C(e) = Dot(e)
      BY <3>1, <3>2, SameCall
    <3>4. product = Elements
      BY <3>3 DEF product
    <3>5. product' = product /\ Elements' = Elements
      BY <3>1, SameCall DEF product
    <3>6. outcome = "running" /\ outcome' = "returned"
      BY <3>1 DEF outcome
    <3>7. Contract!ContractReturn
      BY <3>4, <3>5, <3>6 DEF Contract!ContractReturn, product, outcome
    <3> QED BY <3>7 DEF Contract!ContractNext
  <2>3. CASE Accept
    <3>1. /\ call' = call /\ c' = c
          /\ outcome = "running" /\ outcome' = "running"
      BY <2>3 DEF Accept, outcome
    <3>2. Kept
      BY <3>1, SameCall DEF Kept
    <3> QED BY <3>1, <3>2, ComputeOrStutter DEF Contract!ContractNext
  <2>4. CASE Clear
    <3>1. /\ pc = "clear" /\ pc' = "compute" /\ call' = call
      BY <2>4 DEF Clear
    <3>2. outcome = "running" /\ outcome' = "running"
      BY <3>1 DEF outcome
    <3>3. call \in Calls /\ \A e \in Elements : C(e) = Old
      BY <3>1 DEF IInv, Types, Values
    <3>4. Kept
      BY <3>3, OldIsNotDot DEF Kept
    <3> QED BY <3>1, <3>2, <3>4, ComputeOrStutter DEF Contract!ContractNext
  <2>5. CASE NaiveElement \/ IkjRow \/ BlockedRow \/ PackedRow \/ StoreRow
    <3>1. pc = "compute" /\ pc' = pc /\ call' = call
      BY <2>5 DEF NaiveElement, IkjRow, BlockedRow, PackedRow, StoreRow, InTile
    <3>2. outcome = "running" /\ outcome' = "running"
      BY <3>1 DEF outcome
    <3>3. Kept
      BY <2>5, NaiveStep, IkjStep, BlockedStep, PackedStep, StoreRowStep
    <3> QED BY <3>1, <3>2, <3>3, ComputeOrStutter DEF Contract!ContractNext
  <2>6. CASE MultiplyAdd
    <3>1. pc = "compute" /\ pc' = pc /\ call' = call /\ c' = c
      BY <2>6 DEF MultiplyAdd, InTile
    <3>2. outcome = "running" /\ outcome' = "running"
      BY <3>1 DEF outcome
    <3>3. Kept
      BY <3>1, SameCall DEF Kept
    <3> QED BY <3>1, <3>2, <3>3, ComputeOrStutter DEF Contract!ContractNext
  <2>7. CASE UNCHANGED vars
    <3>1. call' = call /\ pc' = pc /\ c' = c
      BY <2>7 DEF vars
    <3>2. product' = product /\ Elements' = Elements /\ outcome' = outcome
      BY <3>1, SameCall DEF product, outcome
    <3> QED BY <3>2 DEF Contract!contractVars, product, outcome
  <2> QED BY <2>1, <2>2, <2>3, <2>4, <2>5, <2>6, <2>7 DEF Next
<1> QED BY Invariance, <1>1, <1>2, PTL DEF Spec, KeepsContract, Contract!ContractSpec
===============================================================================
