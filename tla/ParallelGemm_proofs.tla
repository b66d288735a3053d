-------------------------- MODULE ParallelGemm_proofs --------------------------
(***************************************************************************)
(* What TLC checks of ParallelGemm on small problems, proved for all       *)
(* problem sizes, block sizes, micro-tile shapes and thread counts.        *)
(***************************************************************************)
EXTENDS ParallelGemm, Tiling_proofs

-------------------------------------------------------------------------------
(* Arithmetic *)

\* Division, with the divisor first.
LEMMA DivMod ==
  ASSUME NEW a \in Nat, NEW b \in Nat \ {0}
  PROVE  /\ a \div b \in Nat
         /\ a % b \in 0 .. b - 1
         /\ a = b * (a \div b) + (a % b)
OBVIOUS

\* A product of sizes grows with its factor.
LEMMA MulMono ==
  ASSUME NEW a \in Nat, NEW b \in Nat, NEW c \in Nat, a <= b
  PROVE  a * c <= b * c
OBVIOUS

\* Rounding the rows up to micro row groups: the groups cover all rows, and
\* each of them starts inside the matrix.
LEMMA RoundUp ==
  ASSUME NEW rows \in Nat \ {0}, NEW m \in Nat \ {0}, NEW g,
         g = (rows + m - 1) \div m
  PROVE  /\ g \in Nat \ {0}
         /\ rows <= g * m
         /\ \A k \in Nat : k < g => k * m < rows
<1> DEFINE r == (rows + m - 1) % m
<1>1. /\ g \in Nat
      /\ r \in 0 .. m - 1
      /\ rows + m - 1 = m * g + r
  BY DivMod, rows + m - 1 \in Nat
<1> HIDE DEF r
<1>2. m * g = g * m
  BY <1>1
<1>3. rows <= g * m
  BY <1>1, <1>2
<1>4. g # 0
  <2>1. SUFFICES ASSUME g = 0 PROVE FALSE
    OBVIOUS
  <2>2. g * m = 0
    BY <2>1
  <2> QED BY <2>2, <1>3
<1>5. ASSUME NEW k \in Nat, k < g PROVE k * m < rows
  <2>1. k * m + m <= g * m
    BY <1>1, <1>5, ProductStep
  <2>2. k * m \in Nat
    BY ProductNat
  <2> QED BY <2>1, <2>2, <1>1, <1>2
<1> QED BY <1>1, <1>3, <1>4, <1>5

\* The sizes the partition is computed from.
LEMMA Counts ==
  ASSUME call \in Calls
  PROVE  /\ call.rows \in Nat \ {0} /\ call.cols \in Nat \ {0} /\ call.block \in Nat \ {0}
         /\ call.threads \in Nat
         /\ MicroRowGroups \in Nat \ {0}
         /\ WorkerCount \in Nat /\ WorkerCount <= MicroRowGroups
         /\ call.threads # 0 => WorkerCount # 0
         /\ call.rows <= MicroRowGroups * MicroRows
         /\ \A k \in Nat : k < MicroRowGroups => k * MicroRows < call.rows
<1>1. /\ call.rows \in Nat \ {0} /\ call.cols \in Nat \ {0} /\ call.block \in Nat \ {0}
      /\ call.threads \in Nat
  BY CallsAssumption
<1>2. /\ MicroRowGroups \in Nat \ {0}
      /\ call.rows <= MicroRowGroups * MicroRows
      /\ \A k \in Nat : k < MicroRowGroups => k * MicroRows < call.rows
  BY <1>1, RoundUp, MicroShapeAssumption DEF MicroRowGroups
<1>3. /\ WorkerCount \in Nat /\ WorkerCount <= MicroRowGroups
      /\ call.threads # 0 => WorkerCount # 0
  BY <1>1, <1>2 DEF WorkerCount, Least
<1> QED BY <1>1, <1>2, <1>3

LEMMA Shares ==
  ASSUME call \in Calls, WorkerCount # 0
  PROVE  /\ GroupsPerWorker \in Nat \ {0}
         /\ RemainingGroups \in 0 .. WorkerCount - 1
         /\ MicroRowGroups = WorkerCount * GroupsPerWorker + RemainingGroups
<1> DEFINE q == GroupsPerWorker
           r == RemainingGroups
           n == WorkerCount
           g == MicroRowGroups
<1>1. n \in Nat \ {0} /\ g \in Nat /\ n <= g
  BY Counts
<1>2. q \in Nat /\ r \in 0 .. n - 1 /\ g = n * q + r
  BY <1>1, DivMod DEF GroupsPerWorker, RemainingGroups
<1> HIDE DEF q, r, n, g
<1>3. q # 0
  <2>1. SUFFICES ASSUME q = 0 PROVE FALSE
    OBVIOUS
  <2>2. n * q = 0
    BY <2>1, <1>1
  <2> QED BY <2>2, <1>1, <1>2
<1> QED BY <1>1, <1>2, <1>3 DEF q, r, n, g

-------------------------------------------------------------------------------
(* Types *)

\* A call keeps its arguments, and with them everything computed from them.
LEMMA FixedCall ==
  ASSUME [Next]_vars
  PROVE  /\ call' = call
         /\ MicroRowGroups' = MicroRowGroups /\ WorkerCount' = WorkerCount
         /\ GroupsPerWorker' = GroupsPerWorker /\ RemainingGroups' = RemainingGroups
         /\ Workers' = Workers /\ Elements' = Elements /\ Accepted' = Accepted
<1>1. call' = call
  BY DEF Next, MainStep, WorkerStep, vars, mainVars, workerVars, Reject, RunInline,
     GoParallel, Reserve, ReserveFails, Spawn, SpawnFails, AllSpawned, Join, Return,
     Rethrow, InlineReturn, StoreTile, FinishThread
<1> QED
  BY <1>1 DEF MicroRowGroups, WorkerCount, GroupsPerWorker, RemainingGroups, Workers,
     Elements, Accepted

LEMMA InitTypeOK == Init => TypeOK
<1> SUFFICES ASSUME Init PROVE TypeOK
  OBVIOUS
<1>1. WorkerCount \in Nat
  BY Counts DEF Init
<1>2. FirstTile(0) \in Tile
  BY DEF FirstTile, At, Tile
<1> QED
  BY <1>1, <1>2 DEF Init, TypeOK, Active, ThreadStates

\* Every action leaves every variable in its type: in particular the join loops
\* index only threads that have been put into the vector.
LEMMA TypeStep == TypeOK /\ [Next]_vars => TypeOK'
<1> SUFFICES ASSUME TypeOK, [Next]_vars PROVE TypeOK'
  OBVIOUS
<1> USE FixedCall
<1>1. /\ WorkerCount \in Nat /\ worker \in 0 .. WorkerCount /\ next_join \in 0 .. worker
      /\ call.rows \in Nat /\ group_begin \in Nat
  BY Counts DEF TypeOK
<1>2. Active \cup Terminal = {"validate", "inline", "reserve", "spawn", "join", "unwind",
                            "returned", "rejected", "failed", "terminated"}
  BY DEF Active, Terminal
<1>3. ASSUME pc' \in Active \cup Terminal,
             UNCHANGED <<group_begin, worker, next_join, thread, workerVars, writers>>
      PROVE  TypeOK'
  BY <1>3 DEF TypeOK, workerVars
<1>4. CASE Reject \/ GoParallel \/ Reserve \/ ReserveFails \/ AllSpawned \/ Return \/ Rethrow
             \/ InlineReturn
  BY <1>2, <1>3, <1>4 DEF Reject, GoParallel, Reserve, ReserveFails, AllSpawned, Return,
     Rethrow, InlineReturn, LeaveScope
<1>5. CASE RunInline
  BY <1>1, <1>2, <1>5 DEF RunInline, TypeOK, workerVars
<1>6. ASSUME worker < WorkerCount PROVE GroupCount \in Nat /\ worker \in Workers
  <2>1. WorkerCount # 0
    BY <1>1, <1>6
  <2>2. GroupsPerWorker \in Nat
    BY <2>1, Shares DEF TypeOK
  <2> QED BY <2>2, <1>1, <1>6 DEF GroupCount, Workers
<1>7. CASE Spawn
  <2>1. worker < WorkerCount /\ GroupCount \in Nat /\ worker \in Workers
    BY <1>6, <1>7 DEF Spawn
  <2>2. group_begin' \in Nat
    BY <2>1, <1>1, <1>7 DEF Spawn
  <2>3. group_begin * MicroRows \in Nat /\ group_begin' * MicroRows \in Nat
    BY <2>2, <1>1, ProductNat, MicroShapeAssumption
  <2>4. Least(group_begin' * MicroRows, call.rows) \in Nat
    BY <2>3, <1>1 DEF Least
  <2>5. FirstTile(group_begin * MicroRows) \in Tile
    BY <2>3 DEF FirstTile, At, Tile
  <2>6. /\ row_begin' \in [Workers -> Nat] /\ row_end' \in [Workers -> Nat]
        /\ tile' \in [Workers -> Tile]
    BY <2>3, <2>4, <2>5, <1>7 DEF Spawn, TypeOK
  <2>7. thread' \in [Workers -> ThreadStates]
    BY <1>7 DEF Spawn, TypeOK, ThreadStates
  <2>8. worker' \in 0 .. WorkerCount /\ next_join' \in 0 .. worker'
    BY <2>1, <1>1, <1>7 DEF Spawn
  <2> QED BY <2>2, <2>6, <2>7, <2>8, <1>7 DEF Spawn, TypeOK
<1>8. CASE SpawnFails
  <2>1. group_begin' \in Nat
    BY <1>1, <1>6, <1>8 DEF SpawnFails
  <2> QED BY <2>1, <1>2, <1>8 DEF SpawnFails, TypeOK, workerVars
<1>9. CASE Join
  <2>1. next_join' \in 0 .. worker'
    BY <1>1, <1>9 DEF Join
  <2>2. thread' \in [Workers -> ThreadStates]
    BY <1>9 DEF Join, TypeOK, ThreadStates
  <2> QED BY <2>1, <2>2, <1>9 DEF Join, TypeOK, workerVars
<1>10. ASSUME NEW w \in Workers, StoreTile(w) PROVE TypeOK'
  <2>1. tile[w] \in Tile /\ row_end[w] \in Nat
    BY DEF TypeOK
  <2>2. NextTile(tile[w], call, row_end[w]) \in Tile
    BY <2>1, TileTypes, Counts DEF TypeOK
  <2>3. tile' \in [Workers -> Tile]
    BY <2>2, <1>10 DEF StoreTile, TypeOK
  <2>4. writers' \in [Elements -> SUBSET Workers]
    BY <1>10 DEF StoreTile, TypeOK
  <2> QED BY <2>3, <2>4, <1>10 DEF StoreTile, TypeOK, mainVars
<1>11. ASSUME NEW w \in Workers, FinishThread(w) PROVE TypeOK'
  <2>1. thread' \in [Workers -> ThreadStates]
    BY <1>11 DEF FinishThread, TypeOK, ThreadStates
  <2> QED BY <2>1, <1>11 DEF FinishThread, TypeOK, mainVars, workerVars
<1>12. CASE UNCHANGED vars
  BY <1>12 DEF vars, mainVars, workerVars, TypeOK
<1> QED
  BY <1>4, <1>5, <1>7, <1>8, <1>9, <1>10, <1>11, <1>12
     DEF Next, MainStep, WorkerStep

\* Type correctness of the parallel kernel, for every problem size.
THEOREM TypeCorrect == Spec => []TypeOK
<1> QED BY InitTypeOK, TypeStep, PTL DEF Spec

-------------------------------------------------------------------------------
(* Threads and joins *)

\* Once every started thread has been joined the vector can be destroyed.
LEMMA NobodyJoinable ==
  ASSUME TypeOK, ThreadInv, next_join = worker
  PROVE  \A w \in Workers : ~Joinable(w)
<1> SUFFICES ASSUME NEW w \in Workers PROVE ~Joinable(w)
  OBVIOUS
<1>1. w \in Int /\ worker \in Int /\ next_join \in Int
  BY Counts DEF Workers, TypeOK
<1>2. CASE w < next_join
  BY <1>2 DEF ThreadInv, Joinable
<1>3. CASE worker <= w
  BY <1>3 DEF ThreadInv, Joinable
<1> QED BY <1>1, <1>2, <1>3

LEMMA ThreadStep == TypeOK /\ ThreadInv /\ [Next]_vars => ThreadInv'
<1> SUFFICES ASSUME TypeOK, ThreadInv, [Next]_vars PROVE ThreadInv'
  OBVIOUS
<1> USE FixedCall
<1>1. /\ WorkerCount \in Nat /\ worker \in 0 .. WorkerCount /\ next_join \in 0 .. worker
      /\ \A w \in Workers : w \in 0 .. WorkerCount - 1
      /\ call.threads # 0 => WorkerCount # 0
  BY Counts DEF TypeOK, Workers
<1>2. CASE Reject \/ GoParallel \/ Reserve \/ AllSpawned \/ InlineReturn
  BY <1>1, <1>2 DEF Reject, GoParallel, Reserve, AllSpawned, InlineReturn, ThreadInv,
     workerVars, Terminal
<1>3. CASE ReserveFails
  <2>1. next_join = worker
    BY <1>1, <1>3 DEF ReserveFails, ThreadInv
  <2>2. pc' = "failed"
    BY <2>1, <1>3, NobodyJoinable DEF ReserveFails, LeaveScope
  <2> QED BY <2>1, <2>2, <1>3 DEF ReserveFails, ThreadInv, workerVars
<1>4. CASE Return
  <2>1. pc' = "returned"
    BY <1>4, NobodyJoinable DEF Return, LeaveScope
  <2> QED BY <2>1, <1>4 DEF Return, ThreadInv, workerVars
<1>5. CASE Rethrow
  <2>1. pc' = "failed"
    BY <1>5, NobodyJoinable DEF Rethrow, LeaveScope
  <2> QED BY <2>1, <1>5 DEF Rethrow, ThreadInv, workerVars
<1>6. CASE RunInline
  <2>1. pc = "validate" /\ pc' = "inline" /\ worker = 0 /\ Accepted /\ WorkerCount = 1
    BY <1>6 DEF RunInline, ThreadInv
  <2>2. \A w \in Workers : thread'[w] = "absent" /\ worker' <= w /\ next_join' <= w
    BY <2>1, <1>1, <1>6 DEF RunInline, ThreadInv
  <2> QED BY <2>1, <2>2, <1>1, <1>6 DEF RunInline, ThreadInv, Terminal
<1>7. CASE Spawn
  <2>1. /\ pc = "spawn" /\ pc' = pc /\ worker' = worker + 1 /\ next_join' = 0
        /\ next_join = 0 /\ worker < WorkerCount /\ Accepted /\ WorkerCount # 1
    BY <1>7 DEF Spawn, ThreadInv
  <2>2. ASSUME NEW w \in Workers, w # worker
        PROVE  thread'[w] = thread[w] /\ tile'[w] = tile[w] /\ row_end'[w] = row_end[w]
    BY <2>2, <1>7 DEF Spawn, TypeOK
  <2>3. worker \in Workers => thread'[worker] = "running"
    BY <1>7 DEF Spawn, TypeOK
  <2>4. ASSUME NEW w \in Workers
        PROVE  /\ thread'[w] = "absent" <=> worker' <= w
               /\ thread'[w] = "joined" <=> w < next_join'
               /\ thread'[w] \in {"finished", "joined"} => ~HasTile(tile'[w], row_end'[w])
    <3>1. CASE w = worker
      BY <3>1, <2>1, <2>3, <1>1
    <3>2. CASE w # worker
      BY <3>2, <2>1, <2>2, <1>1 DEF ThreadInv
    <3> QED BY <3>1, <3>2
  <2> QED BY <2>1, <2>4 DEF ThreadInv, Terminal
<1>8. CASE SpawnFails
  BY <1>8 DEF SpawnFails, ThreadInv, workerVars, Terminal
<1>9. CASE Join
  <2>1. /\ pc \in {"join", "unwind"} /\ pc' = pc /\ worker' = worker
        /\ next_join' = next_join + 1 /\ next_join < worker
        /\ next_join \in Workers /\ thread[next_join] # "running"
    BY <1>1, <1>9 DEF Join, Workers
  <2>2. thread[next_join] = "finished"
    BY <2>1, <1>1 DEF ThreadInv, TypeOK, ThreadStates
  <2>3. ASSUME NEW w \in Workers
        PROVE  thread'[w] = IF w = next_join THEN "joined" ELSE thread[w]
    BY <1>9 DEF Join, TypeOK
  <2>4. ASSUME NEW w \in Workers
        PROVE  /\ thread'[w] = "absent" <=> worker' <= w
               /\ thread'[w] = "joined" <=> w < next_join'
               /\ thread'[w] \in {"finished", "joined"} => ~HasTile(tile'[w], row_end'[w])
    <3>1. tile' = tile /\ row_end' = row_end
      BY <1>9 DEF Join, workerVars
    <3>2. CASE w = next_join
      BY <3>1, <3>2, <2>1, <2>2, <2>3, <1>1 DEF ThreadInv
    <3>3. CASE w # next_join
      BY <3>1, <3>3, <2>1, <2>3, <1>1 DEF ThreadInv
    <3> QED BY <3>2, <3>3
  <2>5. group_begin' = group_begin
    BY <1>9 DEF Join
  <2> QED BY <2>1, <2>4, <2>5 DEF ThreadInv, Terminal
<1>10. ASSUME NEW w \in Workers, StoreTile(w) PROVE ThreadInv'
  <2>1. thread[w] \notin {"finished", "joined"}
    BY <1>1, <1>10 DEF StoreTile, Executing, ThreadInv
  <2>2. \A v \in Workers : v # w => tile'[v] = tile[v]
    BY <1>10 DEF StoreTile, TypeOK
  <2> QED BY <2>1, <2>2, <1>10 DEF StoreTile, ThreadInv, mainVars
<1>11. ASSUME NEW w \in Workers, FinishThread(w) PROVE ThreadInv'
  <2>1. \A v \in Workers : thread'[v] = IF v = w THEN "finished" ELSE thread[v]
    BY <1>11 DEF FinishThread, TypeOK
  <2> QED BY <2>1, <1>11 DEF FinishThread, ThreadInv, mainVars, workerVars
<1>12. CASE UNCHANGED vars
  BY <1>12 DEF vars, mainVars, workerVars, ThreadInv
<1> QED
  BY <1>2, <1>3, <1>4, <1>5, <1>6, <1>7, <1>8, <1>9, <1>10, <1>11, <1>12
     DEF Next, MainStep, WorkerStep

-------------------------------------------------------------------------------
(* The partition of the rows *)

\* The first group of worker k in the partition with q groups each and one more
\* for the first r workers: it exists, and the last one ends at the last group.
LEMMA Partition ==
  ASSUME NEW n \in Nat \ {0}, NEW q \in Nat \ {0}, NEW r \in 0 .. n - 1, NEW k \in 0 .. n
  PROVE  /\ k * q + Least(k, r) \in Nat
         /\ k < n => k * q + Least(k, r) < n * q + r
         /\ k = n => k * q + Least(k, r) = n * q + r
         /\ k < n => (k + 1) * q + Least(k + 1, r)
                      = k * q + Least(k, r) + (q + IF k < r THEN 1 ELSE 0)
<1>1. k * q \in Nat /\ n * q \in Nat
  BY ProductNat
<1>2. k < n => k * q + q <= n * q
  BY ProductStep
<1>3. (k + 1) * q = k * q + q
  OBVIOUS
<1>4. Least(k, r) \in Nat /\ Least(k, r) <= r
  BY DEF Least
<1>5. k < n => k * q + Least(k, r) < n * q + r
  BY <1>1, <1>2, <1>4
<1>6. k = n => Least(k, r) = r
  BY DEF Least
<1>7. Least(k + 1, r) = Least(k, r) + IF k < r THEN 1 ELSE 0
  BY DEF Least
<1> QED BY <1>1, <1>3, <1>4, <1>5, <1>6, <1>7

\* A spawn step hands out the rows from FreeRow on, and there are some.
LEMMA SpawnRange ==
  ASSUME TypeOK, ThreadInv, RangeInv, Spawn, [Next]_vars
  PROVE  /\ worker \in Workers
         /\ group_begin * MicroRows < call.rows
         /\ FreeRow = group_begin * MicroRows
         /\ group_begin' = worker' * GroupsPerWorker + Least(worker', RemainingGroups)
         /\ FreeRow' \in Nat /\ FreeRow < FreeRow' /\ FreeRow' <= call.rows
         /\ \A w \in Workers :
              /\ row_begin'[w] = IF w = worker THEN FreeRow ELSE row_begin[w]
              /\ row_end'[w] = IF w = worker THEN FreeRow' ELSE row_end[w]
              /\ tile'[w] = IF w = worker THEN FirstTile(FreeRow) ELSE tile[w]
<1> USE FixedCall
<1>1. /\ call \in Calls /\ WorkerCount \in Nat \ {0} /\ worker \in 0 .. WorkerCount - 1
      /\ worker \in Workers /\ call.rows \in Nat \ {0} /\ group_begin \in Nat
      /\ worker' = worker + 1
  BY Counts DEF Spawn, TypeOK, Workers
<1>2. /\ GroupsPerWorker \in Nat \ {0} /\ RemainingGroups \in 0 .. WorkerCount - 1
      /\ MicroRowGroups = WorkerCount * GroupsPerWorker + RemainingGroups
  BY <1>1, Shares
<1>3. group_begin = worker * GroupsPerWorker + Least(worker, RemainingGroups)
  BY DEF Spawn, RangeInv
<1>4. group_begin < MicroRowGroups
  BY <1>1, <1>2, <1>3, Partition
<1>5. group_begin' = worker' * GroupsPerWorker + Least(worker', RemainingGroups)
  BY <1>1, <1>2, <1>3, Partition DEF Spawn, GroupCount
<1>6. group_begin * MicroRows \in Nat /\ group_begin * MicroRows < call.rows
  BY <1>1, <1>4, Counts, ProductNat, MicroShapeAssumption
<1>7. FreeRow = group_begin * MicroRows
  BY <1>1, <1>6 DEF FreeRow, Least
<1>8. group_begin' \in Nat /\ group_begin < group_begin'
  BY <1>1, <1>2 DEF Spawn, GroupCount
<1>9. group_begin * MicroRows + MicroRows <= group_begin' * MicroRows
  BY <1>1, <1>8, ProductStep, MicroShapeAssumption
<1>10. FreeRow' \in Nat /\ FreeRow < FreeRow' /\ FreeRow' <= call.rows
  <2>1. group_begin' * MicroRows \in Nat
    BY <1>8, ProductNat, MicroShapeAssumption
  <2>2. FreeRow' = Least(group_begin' * MicroRows, call.rows)
    BY DEF FreeRow
  <2> QED BY <2>1, <2>2, <1>1, <1>6, <1>7, <1>9, MicroShapeAssumption DEF Least
<1>11. ASSUME NEW w \in Workers
       PROVE  /\ row_begin'[w] = IF w = worker THEN FreeRow ELSE row_begin[w]
              /\ row_end'[w] = IF w = worker THEN FreeRow' ELSE row_end[w]
              /\ tile'[w] = IF w = worker THEN FirstTile(FreeRow) ELSE tile[w]
  <2>1. FreeRow' = Least(group_begin' * MicroRows, call.rows)
    BY DEF FreeRow
  <2> QED BY <2>1, <1>7 DEF Spawn, TypeOK
<1> QED BY <1>1, <1>5, <1>6, <1>7, <1>10, <1>11

LEMMA RangeStep == TypeOK /\ ThreadInv /\ RangeInv /\ [Next]_vars => RangeInv'
<1> SUFFICES ASSUME TypeOK, ThreadInv, RangeInv, [Next]_vars PROVE RangeInv'
  OBVIOUS
<1> USE FixedCall
<1>1. /\ WorkerCount \in Nat /\ worker \in 0 .. WorkerCount /\ next_join \in 0 .. worker
      /\ \A w \in Workers : w \in 0 .. WorkerCount - 1 /\ row_begin[w] \in Nat /\ row_end[w] \in Nat
      /\ call.threads # 0 => WorkerCount # 0
      /\ call.rows \in Nat \ {0} /\ group_begin \in Nat
  BY Counts DEF TypeOK, Workers
<1>2. FreeRow \in Nat
  BY <1>1, ProductNat, MicroShapeAssumption DEF FreeRow, Least
<1>3. ASSUME UNCHANGED <<group_begin, worker, workerVars>>
      PROVE  /\ FreeRow' = FreeRow /\ tile' = tile /\ row_end' = row_end /\ row_begin' = row_begin
             /\ \A w : Range(w)' = Range(w)
  BY <1>3 DEF FreeRow, workerVars, Range
<1>4. CASE Reject \/ GoParallel \/ ReserveFails \/ Rethrow
  <2>1. pc' \notin {"spawn", "join", "returned", "inline"} /\ pc \notin {"inline", "returned"}
    BY <1>4 DEF Reject, GoParallel, ReserveFails, Rethrow, LeaveScope
  <2>2. UNCHANGED <<group_begin, worker, workerVars>>
    BY <1>4 DEF Reject, GoParallel, ReserveFails, Rethrow
  <2> QED BY <1>3, <2>1, <2>2 DEF RangeInv, workerVars
<1>5. CASE Reserve
  <2>1. pc' = "spawn" /\ worker = 0 /\ group_begin = 0 /\ pc = "reserve" /\ WorkerCount # 0
    BY <1>1, <1>5 DEF Reserve, ThreadInv, Accepted
  <2>2. UNCHANGED <<group_begin, worker, workerVars>>
    BY <1>5 DEF Reserve
  <2>3. GroupsPerWorker \in Nat /\ RemainingGroups \in Nat
    BY <2>1, Shares DEF TypeOK
  <2>4. group_begin' = worker' * GroupsPerWorker' + Least(worker', RemainingGroups')
    BY <2>1, <2>2, <2>3 DEF Least
  <2>5. FreeRow' = 0
    BY <2>1, <2>2, <1>1, MicroShapeAssumption DEF FreeRow, Least
  <2> QED BY <1>3, <2>1, <2>2, <2>4, <2>5 DEF RangeInv
<1>6. CASE RunInline
  <2>1. /\ pc = "validate" /\ pc' = "inline" /\ worker = 0 /\ worker' = 0 /\ WorkerCount = 1
        /\ row_begin' = row_begin
    BY <1>6 DEF RunInline, ThreadInv
  <2>2. 0 \in Workers /\ \A w \in Workers : w = 0
    BY <2>1 DEF Workers
  <2>3. row_begin[0] = 0 /\ row_end'[0] = call.rows
    BY <2>1, <2>2, <1>6 DEF RunInline, RangeInv, TypeOK
  <2> QED BY <2>1, <2>2, <2>3, <1>1 DEF RangeInv
<1>7. CASE Spawn
  <2>1. /\ pc = "spawn" /\ pc' = "spawn" /\ worker' = worker + 1 /\ worker \in Workers
    BY <1>7, SpawnRange DEF Spawn
  <2>2. /\ group_begin' = worker' * GroupsPerWorker' + Least(worker', RemainingGroups')
        /\ FreeRow' \in Nat /\ FreeRow < FreeRow' /\ FreeRow' <= call.rows
    BY <1>7, SpawnRange
  <2>3. ASSUME NEW w \in Workers
        PROVE  /\ row_begin'[w] = IF w = worker THEN FreeRow ELSE row_begin[w]
               /\ row_end'[w] = IF w = worker THEN FreeRow' ELSE row_end[w]
               /\ tile'[w] = IF w = worker THEN FirstTile(FreeRow) ELSE tile[w]
    BY <1>7, SpawnRange
  <2>4. ASSUME NEW x \in 0 .. FreeRow' - 1
        PROVE  \E w \in Workers : w < worker' /\ x \in Range(w)'
    <3>1. CASE x < FreeRow
      <4>1. PICK w \in Workers : w < worker /\ x \in Range(w)
        BY <3>1, <2>1, <2>2, <1>2 DEF RangeInv
      <4>2. Range(w)' = Range(w)
        BY <4>1, <2>3, <1>1 DEF Range
      <4> QED BY <4>1, <4>2, <2>1, <1>1
    <3>2. CASE FreeRow <= x
      <4>1. PICK v \in Workers : v = worker
        BY <2>1
      <4>2. row_begin'[v] = FreeRow /\ row_end'[v] = FreeRow'
        BY <4>1, <2>3
      <4>3. x \in Range(v)'
        BY <3>2, <4>2, <2>2, <1>2 DEF Range
      <4> QED BY <4>1, <4>3, <2>1, <1>1
    <3> QED BY <3>1, <3>2, <2>2, <1>2
  <2>5. ASSUME NEW w \in Workers
        PROVE  /\ worker' <= w => row_begin'[w] = 0 /\ row_end'[w] = 0 /\ tile'[w] = FirstTile(0)
               /\ w < worker' => row_end'[w] <= FreeRow'
               /\ row_end'[w] <= call.rows
    BY <2>1, <2>2, <2>3, <1>1, <1>2 DEF RangeInv
  <2>6. ASSUME NEW v \in Workers, NEW w \in Workers, v < w, w < worker'
        PROVE  row_end'[v] <= row_begin'[w]
    BY <2>1, <2>2, <2>3, <2>6, <1>1, <1>2 DEF RangeInv
  <2> QED BY <2>1, <2>2, <2>4, <2>5, <2>6 DEF RangeInv
<1>8. CASE SpawnFails
  <2>1. pc' = "unwind" /\ worker' = worker /\ pc = "spawn" /\ worker < WorkerCount
    BY <1>8 DEF SpawnFails
  <2>2. group_begin' \in Nat /\ group_begin <= group_begin'
    BY <1>1, <1>8, <2>1, Shares DEF SpawnFails, GroupCount, TypeOK
  <2>3. FreeRow' \in Nat /\ FreeRow <= FreeRow'
    <3>1. group_begin * MicroRows <= group_begin' * MicroRows
      BY <2>2, <1>1, MulMono, MicroShapeAssumption
    <3>2. group_begin * MicroRows \in Nat /\ group_begin' * MicroRows \in Nat
      BY <2>2, <1>1, ProductNat, MicroShapeAssumption
    <3>3. FreeRow' = Least(group_begin' * MicroRows, call.rows)
      BY DEF FreeRow
    <3> QED BY <3>1, <3>2, <3>3, <1>1 DEF FreeRow, Least
  <2>4. row_begin' = row_begin /\ row_end' = row_end /\ tile' = tile
    BY <1>8 DEF SpawnFails, workerVars
  <2> QED BY <2>1, <2>3, <2>4, <1>1, <1>2 DEF RangeInv
<1>9. CASE AllSpawned
  <2>1. pc = "spawn" /\ pc' = "join" /\ worker = WorkerCount /\ WorkerCount # 0
    BY <1>1, <1>9 DEF AllSpawned, ThreadInv, Accepted
  <2>2. UNCHANGED <<group_begin, worker, workerVars>>
    BY <1>9 DEF AllSpawned
  <2>3. group_begin = MicroRowGroups
    <3>1. /\ GroupsPerWorker \in Nat \ {0} /\ RemainingGroups \in 0 .. WorkerCount - 1
          /\ MicroRowGroups = WorkerCount * GroupsPerWorker + RemainingGroups
      BY <2>1, Shares DEF TypeOK
    <3>2. group_begin = worker * GroupsPerWorker + Least(worker, RemainingGroups)
      BY <2>1 DEF RangeInv
    <3>3. WorkerCount \in Nat \ {0} /\ WorkerCount \in 0 .. WorkerCount
      BY <2>1, <1>1
    <3>4. WorkerCount * GroupsPerWorker + Least(WorkerCount, RemainingGroups)
          = WorkerCount * GroupsPerWorker + RemainingGroups
      BY <3>1, <3>3, Partition
    <3> QED BY <3>1, <3>2, <3>4, <2>1
  <2>4. FreeRow = call.rows
    BY <2>3, <1>1, Counts, ProductNat, MicroShapeAssumption DEF FreeRow, Least, TypeOK
  <2> QED BY <1>3, <2>1, <2>2, <2>4 DEF RangeInv
<1>10. CASE Join
  <2>1. pc' = pc /\ pc \in {"join", "unwind"} /\ UNCHANGED <<group_begin, worker, workerVars>>
    BY <1>10 DEF Join
  <2> QED BY <1>3, <2>1 DEF RangeInv
<1>11. CASE Return
  <2>1. pc' = "returned" /\ pc = "join" /\ worker = WorkerCount /\ next_join = worker
    BY <1>11, NobodyJoinable DEF Return, LeaveScope, ThreadInv
  <2>2. UNCHANGED <<group_begin, worker, workerVars>>
    BY <1>11 DEF Return
  <2>3. \A w \in Workers : ~HasTile(tile[w], row_end[w])
    BY <2>1, <1>1 DEF ThreadInv
  <2> QED BY <1>3, <2>1, <2>2, <2>3, <1>1 DEF RangeInv
<1>12. CASE InlineReturn
  <2>1. pc' = "returned" /\ pc = "inline" /\ WorkerCount = 1 /\ worker = 0
    BY <1>12 DEF InlineReturn, ThreadInv
  <2>2. UNCHANGED <<group_begin, worker, workerVars>>
    BY <1>12 DEF InlineReturn
  <2>3. 0 \in Workers /\ \A w \in Workers : w = 0
    BY <2>1 DEF Workers
  <2>4. \A x \in 0 .. call.rows - 1 : x \in Range(0)
    BY <2>1 DEF Range, RangeInv
  <2>5. ~HasTile(tile[0], row_end[0])
    BY <1>12 DEF InlineReturn
  <2> QED BY <1>3, <2>1, <2>2, <2>3, <2>4, <2>5, <1>1 DEF RangeInv
<1>13. ASSUME NEW w \in Workers, StoreTile(w) PROVE RangeInv'
  <2>1. w < worker \/ pc = "inline"
    BY <1>1, <1>13 DEF StoreTile, Executing, ThreadInv
  <2>2. pc # "returned"
    BY <1>13 DEF StoreTile, RangeInv
  <2>3. /\ pc' = pc /\ worker' = worker /\ group_begin' = group_begin
        /\ row_begin' = row_begin /\ row_end' = row_end
    BY <1>13 DEF StoreTile, mainVars
  <2>4. \A v \in Workers : v # w => tile'[v] = tile[v]
    BY <1>13 DEF StoreTile, TypeOK
  <2>5. FreeRow' = FreeRow /\ \A v : Range(v)' = Range(v)
    BY <2>3 DEF FreeRow, Range
  <2> QED BY <2>1, <2>2, <2>3, <2>4, <2>5, <1>1 DEF RangeInv
<1>14. ASSUME NEW w \in Workers, FinishThread(w) PROVE RangeInv'
  <2>1. pc' = pc /\ UNCHANGED <<group_begin, worker, workerVars>>
    BY <1>14 DEF FinishThread, mainVars
  <2> QED BY <1>3, <2>1 DEF RangeInv
<1>15. CASE UNCHANGED vars
  <2>1. pc' = pc /\ UNCHANGED <<group_begin, worker, workerVars>>
    BY <1>15 DEF vars, mainVars
  <2> QED BY <1>3, <2>1 DEF RangeInv
<1> QED
  BY <1>4, <1>5, <1>6, <1>7, <1>8, <1>9, <1>10, <1>11, <1>12, <1>13, <1>14, <1>15
     DEF Next, MainStep, WorkerStep

-------------------------------------------------------------------------------
(* The stores *)

LEMMA ElementCoordinates ==
  ASSUME TypeOK, NEW e \in Elements
  PROVE  e[1] \in 0 .. call.rows - 1 /\ e[2] \in 0 .. call.cols - 1 /\ e = <<e[1], e[2]>>
BY DEF Elements

\* No row belongs to two workers.
LEMMA RangesDisjoint ==
  ASSUME TypeOK, ThreadInv, RangeInv, NEW v \in Workers, NEW w \in Workers,
         NEW x \in Nat, x \in Range(v), x \in Range(w)
  PROVE  v = w
<1>1. /\ WorkerCount \in Nat /\ worker \in 0 .. WorkerCount
      /\ v \in 0 .. WorkerCount - 1 /\ w \in 0 .. WorkerCount - 1
  BY Counts DEF TypeOK, Workers
<1>2. /\ row_begin[v] \in Nat /\ row_end[v] \in Nat /\ row_begin[w] \in Nat /\ row_end[w] \in Nat
  BY DEF TypeOK
<1>3. CASE pc = "inline" \/ WorkerCount = 1
  BY <1>1, <1>3 DEF ThreadInv
<1>4. CASE pc # "inline" /\ WorkerCount # 1
  <2>1. v < worker /\ w < worker
    BY <1>1, <1>2, <1>4 DEF Range, RangeInv, ThreadInv
  <2>2. ~(v < w) /\ ~(w < v)
    BY <2>1, <1>1, <1>2 DEF Range, RangeInv
  <2> QED BY <2>2, <1>1
<1> QED BY <1>3, <1>4

LEMMA WalkInvStep == TypeOK /\ ThreadInv /\ RangeInv /\ WalkInv /\ [Next]_vars => WalkInv'
<1> SUFFICES ASSUME TypeOK, ThreadInv, RangeInv, WalkInv, [Next]_vars PROVE WalkInv'
  OBVIOUS
<1> USE FixedCall
<1>1. /\ WorkerCount \in Nat /\ worker \in 0 .. WorkerCount
      /\ \A w \in Workers : w \in 0 .. WorkerCount - 1 /\ row_begin[w] \in Nat /\ row_end[w] \in Nat
      /\ call.rows \in Nat \ {0} /\ call.cols \in Nat \ {0} /\ call.block \in Nat \ {0}
      /\ group_begin \in Nat
  BY Counts DEF TypeOK, Workers
<1>2. ASSUME UNCHANGED <<workerVars, writers>> PROVE WalkInv'
  <2>1. /\ tile' = tile /\ row_begin' = row_begin /\ row_end' = row_end /\ writers' = writers
        /\ \A w : Range(w)' = Range(w)
    BY <1>2 DEF workerVars, Range
  <2> QED BY <2>1 DEF WalkInv
<1>3. CASE Reject \/ GoParallel \/ Reserve \/ ReserveFails \/ SpawnFails \/ AllSpawned \/ Join
             \/ Return \/ Rethrow \/ InlineReturn
  BY <1>2, <1>3 DEF Reject, GoParallel, Reserve, ReserveFails, SpawnFails, AllSpawned, Join,
     Return, Rethrow, InlineReturn
<1>4. CASE RunInline
  <2>1. /\ pc = "validate" /\ worker = 0 /\ WorkerCount = 1
        /\ row_begin' = row_begin /\ tile' = tile /\ writers' = writers
    BY <1>4 DEF RunInline, ThreadInv
  <2>2. 0 \in Workers /\ \A w \in Workers : w = 0
    BY <2>1 DEF Workers
  <2>3. row_begin[0] = 0 /\ row_end[0] = 0 /\ tile[0] = FirstTile(0)
    BY <2>1, <2>2 DEF RangeInv
  <2>4. \A e \in Elements : writers[e] = {}
    <3>1. \A x : x \notin Range(0)
      BY <2>3 DEF Range
    <3>2. \A e \in Elements : writers[e] \subseteq Workers
      BY DEF TypeOK
    <3> QED BY <3>1, <3>2, <2>2 DEF WalkInv
  <2>5. row_end'[0] = call.rows
    BY <2>2, <1>4 DEF RunInline, TypeOK
  <2>6. TileInBounds(tile'[0], call', row_begin'[0], row_end'[0])
    BY <2>1, <2>3, <2>5, <1>1, WalkStart
  <2>7. ASSUME NEW e \in Elements PROVE ~Before(e, tile'[0], call', row_end'[0])
    BY <2>1, <2>3, <2>5, <1>1, WalkStart, ElementCoordinates
  <2> QED BY <2>1, <2>2, <2>4, <2>6, <2>7 DEF WalkInv
<1>5. CASE Spawn
  <2>1. PICK v \in Workers : v = worker
    BY <1>5, SpawnRange
  <2>2. FreeRow \in Nat
    BY <1>1, ProductNat, MicroShapeAssumption DEF FreeRow, Least
  <2>3. /\ writers' = writers /\ FreeRow' \in Nat
        /\ row_begin'[v] = FreeRow /\ row_end'[v] = FreeRow' /\ tile'[v] = FirstTile(FreeRow)
        /\ \A w \in Workers : w # v =>
             /\ row_begin'[w] = row_begin[w] /\ row_end'[w] = row_end[w] /\ tile'[w] = tile[w]
             /\ Range(w)' = Range(w)
    BY <1>5, <2>1, SpawnRange DEF Spawn, Range
  <2>4. \A x : x \notin Range(v)
    BY <1>1, <2>1, <1>5 DEF Range, RangeInv, Spawn
  <2>5. ASSUME NEW e \in Elements, FreeRow <= e[1] PROVE writers[e] = {}
    <3>1. SUFFICES ASSUME NEW w \in writers[e] PROVE FALSE
      OBVIOUS
    <3>2. w \in Workers /\ e[1] \in Range(w)
      BY DEF WalkInv, TypeOK
    <3>3. pc = "spawn"
      BY <1>5 DEF Spawn
    <3>4. w < worker
      BY <3>2, <3>3, <1>1 DEF RangeInv, Range
    <3> QED BY <3>2, <3>4, <2>2, <2>5, <1>1 DEF RangeInv, Range
  <2>6. TileInBounds(tile'[v], call', row_begin'[v], row_end'[v])
    BY <2>2, <2>3, <1>1, WalkStart
  <2>7. ASSUME NEW e \in Elements, e[1] \in Range(v)'
        PROVE  writers'[e] = {} /\ ~Before(e, tile'[v], call', row_end'[v])
    <3>1. FreeRow <= e[1]
      BY <2>3, <2>7 DEF Range
    <3>2. writers'[e] = {}
      BY <3>1, <2>3, <2>5
    <3>3. e[1] \in Nat /\ e[2] \in Nat /\ e = <<e[1], e[2]>>
      BY <1>1, ElementCoordinates
    <3>4. ~Before(<<e[1], e[2]>>, FirstTile(FreeRow), call, row_end'[v])
      BY <3>1, <3>3, <2>2, <2>3, <1>1, WalkStart
    <3> QED BY <3>2, <3>3, <3>4, <2>3
  <2>8. ASSUME NEW e \in Elements, NEW w \in Workers, e[1] \in Range(w)'
        PROVE  writers'[e] = IF Before(e, tile'[w], call', row_end'[w]) THEN {w} ELSE {}
    <3>1. CASE w = v
      BY <3>1, <2>7, <2>8
    <3>2. CASE w # v
      BY <3>2, <2>3, <2>8 DEF WalkInv
    <3> QED BY <3>1, <3>2
  <2>9. ASSUME NEW e \in Elements, NEW w \in writers'[e] PROVE e[1] \in Range(w)'
    <3>1. w \in Workers /\ e[1] \in Range(w)
      BY <2>3, <2>9 DEF WalkInv, TypeOK
    <3> QED BY <3>1, <2>3, <2>4
  <2>10. ASSUME NEW w \in Workers
         PROVE  TileInBounds(tile'[w], call', row_begin'[w], row_end'[w])
    BY <2>3, <2>6 DEF WalkInv
  <2> QED BY <2>8, <2>9, <2>10 DEF WalkInv
<1>6. ASSUME NEW w \in Workers, StoreTile(w) PROVE WalkInv'
  <2> DEFINE t == tile[w]
             u == NextTile(t, call, row_end[w])
  <2>1. /\ row_begin' = row_begin /\ row_end' = row_end /\ \A v : Range(v)' = Range(v)
        /\ tile'[w] = u /\ \A v \in Workers : v # w => tile'[v] = tile[v]
    BY <1>6 DEF StoreTile, Range, TypeOK
  <2>2. \A e \in Elements :
          writers'[e] = IF e \in Pending(w) THEN writers[e] \cup {w} ELSE writers[e]
    BY <1>6 DEF StoreTile
  <2>3. /\ t \in Tile /\ TileInBounds(t, call, row_begin[w], row_end[w]) /\ HasTile(t, row_end[w])
    BY <1>6 DEF StoreTile, TypeOK, WalkInv
  <2>4. ASSUME NEW x \in Nat, NEW y \in Nat
        PROVE  /\ TileInBounds(u, call, row_begin[w], row_end[w])
               /\ <<x, y>> \in Pending(w) =>
                    /\ row_begin[w] <= x /\ x < row_end[w] /\ y < call.cols
                    /\ ~Before(<<x, y>>, t, call, row_end[w])
               /\ row_begin[w] <= x /\ x < row_end[w] /\ y < call.cols =>
                    (Before(<<x, y>>, u, call, row_end[w]) <=>
                       Before(<<x, y>>, t, call, row_end[w]) \/ <<x, y>> \in Pending(w))
    BY <2>3, <1>1, WalkStep DEF Pending
  <2> HIDE DEF u, t
  <2>5. ASSUME NEW e \in Elements
        PROVE  /\ e \in Pending(w) => e[1] \in Range(w)
               /\ e[1] \in Range(w) =>
                    (Before(e, u, call, row_end[w]) <=>
                       Before(e, t, call, row_end[w]) \/ e \in Pending(w))
    <3>1. e[1] \in Nat /\ e[2] \in Nat /\ e[2] < call.cols /\ e = <<e[1], e[2]>>
      BY <1>1, ElementCoordinates
    <3>2. e[1] \in Range(w) <=> row_begin[w] <= e[1] /\ e[1] < row_end[w]
      BY <3>1, <1>1 DEF Range
    <3> QED BY <3>1, <3>2, <2>4
  <2>6. ASSUME NEW v \in Workers
        PROVE  TileInBounds(tile'[v], call', row_begin'[v], row_end'[v])
    <3>1. TileInBounds(u, call, row_begin[w], row_end[w])
      BY <2>4, 0 \in Nat
    <3> QED BY <3>1, <2>1 DEF WalkInv
  <2>7. ASSUME NEW e \in Elements, NEW v \in Workers, e[1] \in Range(v)'
        PROVE  writers'[e] = IF Before(e, tile'[v], call', row_end'[v]) THEN {v} ELSE {}
    <3>1. e[1] \in Range(v)
      BY <2>1, <2>7
    <3>2. writers[e] = IF Before(e, tile[v], call, row_end[v]) THEN {v} ELSE {}
      BY <3>1 DEF WalkInv
    <3>3. CASE v = w
      BY <3>1, <3>2, <3>3, <2>1, <2>2, <2>5 DEF t
    <3>4. CASE v # w
      <4>1. e \notin Pending(w)
        BY <3>1, <3>4, <2>5, <1>1, RangesDisjoint, ElementCoordinates
      <4> QED BY <4>1, <3>2, <3>4, <2>1, <2>2
    <3> QED BY <3>3, <3>4
  <2>8. ASSUME NEW e \in Elements, NEW v \in writers'[e] PROVE e[1] \in Range(v)'
    <3>1. CASE v \in writers[e]
      BY <3>1, <2>1 DEF WalkInv
    <3>2. CASE v \notin writers[e]
      BY <3>2, <2>1, <2>2, <2>5, <2>8
    <3> QED BY <3>1, <3>2
  <2> QED BY <2>6, <2>7, <2>8 DEF WalkInv
<1>7. ASSUME NEW w \in Workers, FinishThread(w) PROVE WalkInv'
  BY <1>2, <1>7 DEF FinishThread
<1>8. CASE UNCHANGED vars
  BY <1>2, <1>8 DEF vars
<1> QED
  BY <1>3, <1>4, <1>5, <1>6, <1>7, <1>8 DEF Next, MainStep, WorkerStep

-------------------------------------------------------------------------------
(* The theorems *)

LEMMA InitIInv == Init => IInv
<1> SUFFICES ASSUME Init PROVE IInv
  OBVIOUS
<1>1. TypeOK
  BY InitTypeOK
<1>2. /\ WorkerCount \in Nat /\ \A w \in Workers : w \in 0 .. WorkerCount - 1
      /\ call.rows \in Nat \ {0} /\ call.cols \in Nat \ {0} /\ call.block \in Nat \ {0}
  BY Counts DEF Init, Workers
<1>3. ThreadInv
  BY <1>2 DEF Init, ThreadInv, Terminal
<1>4. RangeInv
  BY <1>2 DEF Init, RangeInv
<1>5. WalkInv
  BY <1>2, WalkStart DEF Init, WalkInv, Range
<1> QED BY <1>1, <1>3, <1>4, <1>5 DEF IInv

\* The inductive invariant: what the threads, the ranges and the tile walks
\* have to do with each other in every reachable state.
THEOREM Invariance == Spec => []IInv
<1>1. IInv /\ [Next]_vars => IInv'
  BY TypeStep, ThreadStep, RangeStep, WalkInvStep DEF IInv
<1> QED BY InitIInv, <1>1, PTL DEF Spec

\* An element that has been stored was stored by the one worker it belongs to.
LEMMA OneWriter ==
  ASSUME IInv, NEW e \in Elements, NEW w \in writers[e]
  PROVE  writers[e] = {w} /\ Before(e, tile[w], call, row_end[w]) /\ e[1] \in Range(w)
BY DEF IInv, WalkInv, TypeOK

\* There is no data race on C, for any number of threads and any shape.
THEOREM RaceFreedom == Spec => []NoDataRace
<1>1. IInv => NoDataRace
  BY OneWriter DEF NoDataRace
<1> QED BY Invariance, <1>1, PTL

\* Every store, vectorised or not, stays in the worker's rows and in C and
\* hits elements that have not been stored in this call.
THEOREM StoresInBounds == Spec => []StoresInOwnRange
<1>1. IInv => StoresInOwnRange
  <2> SUFFICES ASSUME IInv, NEW w \in Workers, HasTile(tile[w], row_end[w]), NEW e \in Pending(w)
               PROVE  e \in Elements /\ e[1] \in row_begin[w] .. row_end[w] - 1 /\ writers[e] = {}
    BY DEF StoresInOwnRange
  <2>1. /\ call.rows \in Nat \ {0} /\ call.cols \in Nat \ {0} /\ call.block \in Nat \ {0}
        /\ row_begin[w] \in Nat /\ row_end[w] \in Nat /\ row_end[w] <= call.rows
        /\ tile[w] \in Tile
        /\ TileInBounds(tile[w], call, row_begin[w], row_end[w])
    BY Counts DEF IInv, TypeOK, RangeInv, WalkInv
  <2>2. PICK x \in Nat, y \in Nat : e = <<x, y>>
    <3> DEFINE t == tile[w]
    <3>1. /\ t.ii \in Nat /\ t.jj \in Nat /\ t.i \in Nat /\ t.j \in Nat
      BY <2>1 DEF Tile
    <3>2. \A h, d : Rectangle(t, h, d) \subseteq Nat \X Nat
      BY <3>1 DEF Rectangle
    <3>3. e \in Nat \X Nat
      BY <3>2 DEF Pending, Footprint
    <3> QED BY <3>3
  <2>3. /\ row_begin[w] <= x /\ x < row_end[w] /\ y < call.cols
        /\ ~Before(<<x, y>>, tile[w], call, row_end[w])
    BY <2>1, <2>2, WalkStep DEF Pending
  <2>4. e \in Elements /\ e[1] = x
    BY <2>1, <2>2, <2>3 DEF Elements
  <2>5. e[1] \in Range(w)
    BY <2>1, <2>3, <2>4 DEF Range
  <2>6. writers[e] = {}
    BY <2>2, <2>3, <2>4, <2>5 DEF IInv, WalkInv
  <2> QED BY <2>4, <2>5, <2>6 DEF Range
<1> QED BY Invariance, <1>1, PTL

\* A call that returns normally has computed all of C.
THEOREM Completeness == Spec => []CompleteOnReturn
<1>1. IInv => CompleteOnReturn
  <2> SUFFICES ASSUME IInv, pc = "returned", NEW e \in Elements PROVE writers[e] # {}
    BY DEF CompleteOnReturn
  <2>1. e[1] \in 0 .. call.rows - 1
    BY ElementCoordinates DEF IInv
  <2>2. PICK w \in Workers : e[1] \in Range(w)
    BY <2>1 DEF IInv, RangeInv
  <2>3. ~HasTile(tile[w], row_end[w])
    BY DEF IInv, RangeInv
  <2>4. e[1] < tile[w].ii
    BY <2>1, <2>2, <2>3, Counts DEF HasTile, Range, IInv, TypeOK, Tile
  <2> QED BY <2>2, <2>4 DEF Before, IInv, WalkInv
<1> QED BY Invariance, <1>1, PTL

\* However the call ends, every thread it started has been joined.
THEOREM Quiescence == Spec => []QuietAtExit
<1>1. IInv => QuietAtExit
  BY NobodyJoinable DEF IInv, ThreadInv, QuietAtExit
<1> QED BY Invariance, <1>1, PTL

\* The first group of worker w in the partition, and what it makes of the rows
\* of the workers started so far.
FirstGroup(w) == w * GroupsPerWorker + Least(w, RemainingGroups)

ShareInv ==
  \A w \in Workers : w < worker =>
    /\ row_begin[w] = FirstGroup(w) * MicroRows
    /\ row_end[w] = Least(FirstGroup(w + 1) * MicroRows, call.rows)

\* Only the spawn loop sets ranges, and it sets the one of the next worker.
LEMMA ShareStep == TypeOK /\ ThreadInv /\ RangeInv /\ ShareInv /\ [Next]_vars => ShareInv'
<1> SUFFICES ASSUME TypeOK, ThreadInv, RangeInv, ShareInv, [Next]_vars,
                    NEW w \in Workers, w < worker'
             PROVE  /\ row_begin'[w] = FirstGroup(w) * MicroRows
                    /\ row_end'[w] = Least(FirstGroup(w + 1) * MicroRows, call.rows)
  BY FixedCall DEF ShareInv, FirstGroup
<1>1. /\ WorkerCount \in Nat /\ worker \in 0 .. WorkerCount /\ w \in 0 .. WorkerCount - 1
  BY Counts DEF TypeOK, Workers
<1>2. CASE Spawn
  <2>1. worker' = worker + 1 /\ group_begin = FirstGroup(worker)
    BY <1>2 DEF Spawn, RangeInv, FirstGroup
  <2>2. group_begin' = FirstGroup(worker + 1)
    BY <1>2, <2>1, SpawnRange, FixedCall DEF FirstGroup
  <2>3. CASE w = worker
    BY <1>2, <2>1, <2>2, <2>3 DEF Spawn, TypeOK
  <2>4. CASE w < worker
    BY <1>1, <1>2, <2>4 DEF Spawn, TypeOK, ShareInv
  <2> QED BY <1>1, <2>1, <2>3, <2>4
<1>3. CASE RunInline
  BY <1>1, <1>3 DEF RunInline, ThreadInv
<1>4. CASE ~Spawn /\ ~RunInline
  <2>1. worker' = worker /\ row_begin' = row_begin /\ row_end' = row_end
    BY <1>4 DEF Next, MainStep, WorkerStep, vars, mainVars, workerVars, Reject, GoParallel,
       Reserve, ReserveFails, SpawnFails, AllSpawned, Join, Return, Rethrow, InlineReturn,
       StoreTile, FinishThread
  <2> QED BY <2>1 DEF ShareInv
<1> QED BY <1>2, <1>3, <1>4

\* Rounding up a number of rows to groups, when it is known between which
\* multiples of the group size it lies.
LEMMA RoundUpExact ==
  ASSUME NEW a \in Nat, NEW m \in Nat \ {0}, NEW d \in Nat \ {0},
         a <= d * m, d * m < a + m
  PROVE  (a + m - 1) \div m = d
<1> DEFINE q == (a + m - 1) \div m
           r == (a + m - 1) % m
<1>1. q \in Nat /\ r \in 0 .. m - 1 /\ a + m - 1 = m * q + r
  BY DivMod, a + m - 1 \in Nat
<1> HIDE DEF q, r
<1>2. m * q = q * m /\ d * m \in Nat /\ q * m \in Nat
  BY <1>1
<1>3. ~(q < d)
  <2>1. q < d => q * m + m <= d * m
    BY <1>1, ProductStep
  <2> QED BY <1>1, <1>2, <2>1
<1>4. ~(d < q)
  <2>1. d < q => d * m + m <= q * m
    BY <1>1, ProductStep
  <2> QED BY <1>1, <1>2, <2>1
<1> QED BY <1>1, <1>3, <1>4 DEF q

\* The range of a started worker holds GroupsPerWorker groups or one more; it
\* is not empty, and it begins where the one before it ends.
LEMMA ShareOfWorker ==
  ASSUME IInv, ShareInv, WorkerCount # 0, NEW w \in Workers, w < worker
  PROVE  /\ row_begin[w] < row_end[w]
         /\ Groups(w) \in {GroupsPerWorker, GroupsPerWorker + 1}
         /\ w + 1 < WorkerCount => row_end[w] = FirstGroup(w + 1) * MicroRows
<1> DEFINE k == FirstGroup(w)
           d == GroupsPerWorker + IF w < RemainingGroups THEN 1 ELSE 0
<1>1. /\ call \in Calls /\ call.rows \in Nat \ {0} /\ WorkerCount \in Nat \ {0}
      /\ w \in 0 .. WorkerCount - 1 /\ MicroRowGroups \in Nat \ {0}
      /\ \A j \in Nat : j < MicroRowGroups => j * MicroRows < call.rows
  BY Counts DEF IInv, TypeOK, Workers
<1>2. /\ GroupsPerWorker \in Nat \ {0} /\ RemainingGroups \in 0 .. WorkerCount - 1
      /\ MicroRowGroups = WorkerCount * GroupsPerWorker + RemainingGroups
  BY <1>1, Shares
<1>3. /\ k \in Nat /\ d \in Nat \ {0} /\ FirstGroup(w + 1) = k + d /\ k < MicroRowGroups
  <2>1. d \in Nat \ {0}
    BY <1>2
  <2>2. w \in 0 .. WorkerCount /\ w < WorkerCount
    BY <1>1
  <2> HIDE DEF d
  <2>3. /\ k \in Nat /\ k < MicroRowGroups
        /\ (w + 1) * GroupsPerWorker + Least(w + 1, RemainingGroups) = k + d
    BY <1>1, <1>2, <2>2, Partition DEF FirstGroup, d
  <2> QED BY <2>1, <2>3 DEF FirstGroup
<1>4. /\ k + d <= MicroRowGroups
      /\ w + 1 < WorkerCount => k + d < MicroRowGroups
  <2>1. w + 1 \in 0 .. WorkerCount
    BY <1>1
  <2>2. ASSUME NEW j \in 0 .. WorkerCount
        PROVE  /\ j < WorkerCount => FirstGroup(j) < MicroRowGroups
               /\ j = WorkerCount => FirstGroup(j) = MicroRowGroups
    <3> DEFINE f == j * GroupsPerWorker + Least(j, RemainingGroups)
               g == WorkerCount * GroupsPerWorker + RemainingGroups
    <3>1. j < WorkerCount => f < g
      BY <1>1, <1>2, Partition
    <3>2. j = WorkerCount => f = g
      BY <1>2 DEF Least
    <3>3. f = FirstGroup(j) /\ g = MicroRowGroups
      BY <1>2 DEF FirstGroup
    <3> QED BY <3>1, <3>2, <3>3
  <2> QED BY <1>1, <1>3, <2>1, <2>2
<1>5. /\ row_begin[w] = k * MicroRows
      /\ row_end[w] = Least((k + d) * MicroRows, call.rows)
  BY <1>3 DEF ShareInv
<1>6. d \in {GroupsPerWorker, GroupsPerWorker + 1}
  BY <1>2
<1> HIDE DEF k, d
<1>7. /\ k * MicroRows \in Nat /\ (k + d) * MicroRows = k * MicroRows + d * MicroRows
      /\ d * MicroRows \in Nat /\ MicroRows <= d * MicroRows
  BY <1>3, MicroShapeAssumption
<1>8. k * MicroRows < call.rows /\ (k + d) * MicroRows < call.rows + MicroRows
  <2>1. k + d - 1 \in Nat /\ k + d - 1 < MicroRowGroups
    BY <1>1, <1>3, <1>4
  <2>2. (k + d - 1) * MicroRows < call.rows
    BY <1>1, <2>1
  <2>3. (k + d) * MicroRows = (k + d - 1) * MicroRows + MicroRows
    BY <1>3, MicroShapeAssumption
  <2>4. (k + d - 1) * MicroRows \in Nat
    BY <2>1, ProductNat, MicroShapeAssumption
  <2> QED BY <1>1, <1>3, <2>2, <2>3, <2>4, MicroShapeAssumption
<1>9. row_begin[w] < row_end[w]
  BY <1>1, <1>5, <1>7, <1>8, MicroShapeAssumption DEF Least
<1>10. w + 1 < WorkerCount => row_end[w] = FirstGroup(w + 1) * MicroRows
  <2>1. w + 1 < WorkerCount => (k + d) * MicroRows < call.rows
    BY <1>1, <1>3, <1>4
  <2> QED BY <1>1, <1>3, <1>5, <1>7, <2>1 DEF Least
<1>11. Groups(w) = d
  <2> DEFINE a == row_end[w] - row_begin[w]
  <2>1. a \in Nat /\ a <= d * MicroRows /\ d * MicroRows < a + MicroRows
    BY <1>1, <1>5, <1>7, <1>8, <1>9, MicroShapeAssumption DEF Least
  <2> HIDE DEF a
  <2>2. (a + MicroRows - 1) \div MicroRows = d
    BY <1>3, <2>1, RoundUpExact, MicroShapeAssumption
  <2> QED BY <2>2 DEF Groups, a
<1> QED BY <1>6, <1>9, <1>10, <1>11

\* The rows are shared out evenly and without a gap, for any number of threads
\* and any shape: the spawn loop leaves no worker idle.
THEOREM Balance == Spec => []BalancedPartition
<1>1. Init => ShareInv
  BY Counts DEF Init, ShareInv, Workers
<1>2. IInv /\ ShareInv /\ [Next]_vars => ShareInv'
  BY ShareStep DEF IInv
<1>3. IInv /\ ShareInv => BalancedPartition
  <2> SUFFICES ASSUME IInv, ShareInv, pc = "join" PROVE BalancedPartition
    BY DEF BalancedPartition
  <2>1. /\ call \in Calls /\ WorkerCount \in Nat /\ worker = WorkerCount
        /\ \A w \in Workers : w \in 0 .. WorkerCount - 1 /\ w < worker
    BY Counts DEF IInv, TypeOK, ThreadInv, Workers
  <2>2. GroupsPerWorker \in Nat \/ WorkerCount = 0
    BY <2>1, Shares
  <2>3. \A w \in Workers : row_begin[w] < row_end[w]
    BY <2>1, ShareOfWorker
  <2>4. ASSUME NEW v \in Workers, NEW w \in Workers PROVE Groups(v) <= Groups(w) + 1
    <3>1. /\ Groups(v) \in {GroupsPerWorker, GroupsPerWorker + 1}
          /\ Groups(w) \in {GroupsPerWorker, GroupsPerWorker + 1}
      BY <2>1, <2>4, ShareOfWorker
    <3> QED BY <2>1, <2>2, <3>1
  <2>5. ASSUME NEW w \in Workers \ {0} PROVE row_begin[w] = row_end[w - 1]
    <3>1. w - 1 \in Workers /\ w - 1 < worker /\ (w - 1) + 1 = w /\ w < WorkerCount
      BY <2>1 DEF Workers
    <3>2. row_end[w - 1] = FirstGroup(w) * MicroRows
      BY <2>1, <3>1, ShareOfWorker
    <3> QED BY <2>1, <3>2 DEF ShareInv
  <2> QED BY <2>3, <2>4, <2>5 DEF BalancedPartition
<1> QED BY Invariance, <1>1, <1>2, <1>3, PTL DEF Spec

-------------------------------------------------------------------------------
(* The path of an element does not depend on how the rows are split *)

Multiple(x, m) == \E k \in Nat : x = k * m

\* Sums of multiples are multiples; between two multiples there is room for m.
LEMMA Multiples ==
  ASSUME NEW m \in Nat
  PROVE  /\ Multiple(0, m) /\ Multiple(m, m)
         /\ \A x, y \in Nat : Multiple(x, m) /\ Multiple(y, m) => Multiple(x + y, m)
         /\ \A x, y \in Nat : Multiple(x, m) /\ Multiple(y, m) /\ x < y => x + m <= y
<1>1. 0 = 0 * m /\ m = 1 * m
  OBVIOUS
<1>2. ASSUME NEW x \in Nat, NEW y \in Nat, Multiple(x, m), Multiple(y, m)
      PROVE  Multiple(x + y, m) /\ (x < y => x + m <= y)
  <2>1. PICK k \in Nat : x = k * m
    BY <1>2 DEF Multiple
  <2>2. PICK l \in Nat : y = l * m
    BY <1>2 DEF Multiple
  <2>3. x + y = (k + l) * m
    BY <2>1, <2>2
  <2>4. ASSUME x < y PROVE x + m <= y
    <3>1. CASE k < l
      BY <2>1, <2>2, <3>1, ProductStep
    <3>2. CASE l <= k
      BY <2>1, <2>2, <2>4, <3>2, MulMono
    <3> QED BY <3>1, <3>2
  <2>5. Multiple(x + y, m)
    <3>1. k + l \in Nat
      OBVIOUS
    <3> QED BY <2>3, <3>1 DEF Multiple
  <2> QED BY <2>4, <2>5
<1>3. Multiple(0, m) /\ Multiple(m, m)
  BY <1>1 DEF Multiple
<1> QED BY <1>2, <1>3

LEMMA Difference ==
  ASSUME NEW m \in Nat \ {0}, NEW x \in Nat, NEW y \in Nat,
         Multiple(x, m), Multiple(y, m), y <= x
  PROVE  Multiple(x - y, m)
<1>1. PICK k \in Nat : x = k * m
  BY DEF Multiple
<1>2. PICK l \in Nat : y = l * m
  BY DEF Multiple
<1>3. l <= k
  <2>1. SUFFICES ASSUME k < l PROVE FALSE
    BY <1>1, <1>2
  <2>2. k * m + m <= l * m
    BY <2>1, ProductStep
  <2>3. k * m \in Nat /\ l * m \in Nat
    BY ProductNat
  <2> QED BY <1>1, <1>2, <2>2, <2>3
<1>4. k - l \in Nat /\ x - y = (k - l) * m
  BY <1>1, <1>2, <1>3
<1> QED BY <1>4 DEF Multiple

LEMMA MultipleOfMultiple ==
  ASSUME NEW m \in Nat, NEW b \in Nat, NEW x \in Nat, Multiple(x, b), Multiple(b, m)
  PROVE  Multiple(x, m)
<1>1. PICK k \in Nat : x = k * b
  BY DEF Multiple
<1>2. PICK l \in Nat : b = l * m
  BY DEF Multiple
<1>3. k * l \in Nat
  BY ProductNat
<1>4. x = (k * l) * m
  BY <1>1, <1>2
<1> QED BY <1>3, <1>4 DEF Multiple

\* Rounding down to a multiple finds the one that is less than m below.
LEMMA RoundDown ==
  ASSUME NEW m \in Nat \ {0}, NEW a \in Nat, Multiple(a, m), NEW d \in 0 .. m - 1
  PROVE  ((a + d) \div m) * m = a
<1>1. PICK k \in Nat : a = k * m
  BY DEF Multiple
<1> DEFINE q == (a + d) \div m
           r == (a + d) % m
<1>2. a + d \in Nat
  OBVIOUS
<1>3. q \in Nat /\ r \in 0 .. m - 1 /\ a + d = m * q + r
  BY <1>2, DivMod
<1> HIDE DEF q, r
<1>4. m * q = q * m /\ q * m \in Nat
  BY <1>3, ProductNat
<1>5. Multiple(q * m, m)
  BY <1>3 DEF Multiple
<1>6. ~(q * m < a) /\ ~(a < q * m)
  <2>1. q * m < a => q * m + m <= a
    BY <1>4, <1>5, Multiples
  <2>2. a < q * m => a + m <= q * m
    BY <1>4, <1>5, Multiples
  <2> QED BY <1>3, <1>4, <2>1, <2>2
<1>7. q * m = a
  BY <1>4, <1>6
<1> QED BY <1>7 DEF q

LEMMA RoundDownTo ==
  ASSUME NEW m \in Nat \ {0}, NEW a \in Nat, Multiple(a, m), NEW z, z - a \in 0 .. m - 1, z \in Nat
  PROVE  (z \div m) * m = a
<1>1. PICK d \in 0 .. m - 1 : d = z - a
  OBVIOUS
<1>2. z = a + d
  BY <1>1
<1> QED BY <1>2, RoundDown

LEMMA FloorMultiple ==
  ASSUME NEW x \in Nat, NEW b \in Nat \ {0}, NEW q, q = (x \div b) * b
  PROVE  q \in Nat /\ q <= x /\ x < q + b /\ Multiple(q, b)
<1>1. x \div b \in Nat /\ x % b \in 0 .. b - 1 /\ x = b * (x \div b) + (x % b)
  BY DivMod
<1>2. PICK k \in Nat : k = x \div b
  BY <1>1
<1>3. q = k * b /\ b * k = k * b /\ k * b \in Nat
  BY <1>2
<1>4. Multiple(q, b)
  BY <1>3 DEF Multiple
<1>5. x = q + (x % b) /\ q \in Nat
  BY <1>1, <1>2, <1>3
<1> QED BY <1>1, <1>4, <1>5

\* The loop variables are multiples of their steps, relative to the start of
\* the range, and a range ends at a micro row group or at the last row.
AlignInv ==
  \A w \in Workers :
    /\ row_end[w] = call.rows \/ Multiple(row_end[w], MicroRows)
    /\ Multiple(tile[w].jj, call.block) /\ Multiple(tile[w].j, MicroCols)
    /\ Multiple(call.block, MicroRows) =>
         Multiple(tile[w].ii, MicroRows) /\ Multiple(tile[w].i, MicroRows)

\* A micro-tile keeps the alignment of the walk.
LEMMA AlignedStep ==
  ASSUME NEW p, p.cols \in Nat \ {0}, p.block \in Nat \ {0}, NEW limit \in Nat, NEW t \in Tile,
         Multiple(t.jj, p.block), Multiple(t.j, MicroCols)
  PROVE  LET u == NextTile(t, p, limit)
         IN  /\ Multiple(u.jj, p.block) /\ Multiple(u.j, MicroCols)
             /\ /\ Multiple(p.block, MicroRows)
                /\ Multiple(t.ii, MicroRows) /\ Multiple(t.i, MicroRows)
                => Multiple(u.ii, MicroRows) /\ Multiple(u.i, MicroRows)
<1> DEFINE u == NextTile(t, p, limit)
<1>1. /\ t.ii \in Nat /\ t.jj \in Nat /\ t.i \in Nat /\ t.j \in Nat
      /\ MicroRows \in Nat /\ MicroCols \in Nat /\ p.block \in Nat
  BY MicroShapeAssumption DEF Tile
<1>2. u.jj \in {t.jj, t.jj + p.block, 0} /\ u.j \in {t.j + MicroCols, 0}
  BY DEF NextTile, FirstTile, At
<1>3. u.ii \in {t.ii, t.ii + p.block} /\ u.i \in {t.i, t.i + MicroRows, t.ii, t.ii + p.block}
  BY DEF NextTile, FirstTile, At
<1> HIDE DEF u
<1>4. Multiple(0, p.block) /\ Multiple(t.jj + p.block, p.block)
  BY <1>1, Multiples
<1>5. Multiple(0, MicroCols) /\ Multiple(t.j + MicroCols, MicroCols)
  BY <1>1, Multiples
<1>6. Multiple(u.jj, p.block) /\ Multiple(u.j, MicroCols)
  BY <1>2, <1>4, <1>5
<1>7. ASSUME Multiple(p.block, MicroRows), Multiple(t.ii, MicroRows), Multiple(t.i, MicroRows)
      PROVE  Multiple(u.ii, MicroRows) /\ Multiple(u.i, MicroRows)
  <2>1. Multiple(t.ii + p.block, MicroRows) /\ Multiple(t.i + MicroRows, MicroRows)
    BY <1>1, <1>7, Multiples
  <2> QED BY <1>3, <1>7, <2>1
<1> QED BY <1>6, <1>7 DEF u

LEMMA AlignStep == TypeOK /\ AlignInv /\ [Next]_vars => AlignInv'
<1> SUFFICES ASSUME TypeOK, AlignInv, [Next]_vars, NEW w \in Workers
             PROVE  /\ row_end'[w] = call.rows \/ Multiple(row_end'[w], MicroRows)
                    /\ Multiple(tile'[w].jj, call.block) /\ Multiple(tile'[w].j, MicroCols)
                    /\ Multiple(call.block, MicroRows) =>
                         Multiple(tile'[w].ii, MicroRows) /\ Multiple(tile'[w].i, MicroRows)
  BY FixedCall DEF AlignInv
<1>1. /\ call.rows \in Nat \ {0} /\ call.cols \in Nat \ {0} /\ call.block \in Nat \ {0}
      /\ MicroRows \in Nat /\ MicroCols \in Nat
      /\ tile[w] \in Tile /\ row_end[w] \in Nat
      /\ group_begin \in Nat /\ group_begin' \in Nat
  BY TypeStep, Counts, MicroShapeAssumption DEF TypeOK
<1>2. /\ row_end[w] = call.rows \/ Multiple(row_end[w], MicroRows)
      /\ Multiple(tile[w].jj, call.block) /\ Multiple(tile[w].j, MicroCols)
      /\ Multiple(call.block, MicroRows) =>
           Multiple(tile[w].ii, MicroRows) /\ Multiple(tile[w].i, MicroRows)
  BY DEF AlignInv
<1>3. CASE Spawn
  <2>1. CASE w # worker
    <3>1. row_end'[w] = row_end[w] /\ tile'[w] = tile[w]
      BY <1>3, <2>1 DEF Spawn, TypeOK
    <3> QED BY <1>2, <3>1
  <2>2. CASE w = worker
    <3>1. /\ row_end'[w] = Least(group_begin' * MicroRows, call.rows)
          /\ tile'[w] = FirstTile(group_begin * MicroRows)
      BY <1>3, <2>2 DEF Spawn, TypeOK
    <3>2. row_end'[w] \in {group_begin' * MicroRows, call.rows}
      BY <3>1 DEF Least
    <3>3. Multiple(group_begin' * MicroRows, MicroRows) /\ Multiple(group_begin * MicroRows, MicroRows)
      BY <1>1 DEF Multiple
    <3>4. /\ tile'[w].ii = group_begin * MicroRows /\ tile'[w].i = group_begin * MicroRows
          /\ tile'[w].jj = 0 /\ tile'[w].j = 0
      BY <3>1 DEF FirstTile, At
    <3>5. Multiple(0, call.block) /\ Multiple(0, MicroCols)
      BY <1>1, Multiples
    <3> QED BY <3>2, <3>3, <3>4, <3>5
  <2> QED BY <2>1, <2>2
<1>4. CASE RunInline
  <2>1. tile' = tile /\ row_end'[w] \in {row_end[w], call.rows}
    BY <1>4 DEF RunInline, TypeOK
  <2> QED BY <1>2, <2>1
<1>5. ASSUME NEW v \in Workers, StoreTile(v)
      PROVE  /\ row_end'[w] = row_end[w]
             /\ tile'[w] = tile[w] \/ tile'[w] = NextTile(tile[w], call, row_end[w])
  BY <1>5 DEF StoreTile, TypeOK
<1>6. CASE \E v \in Workers : StoreTile(v)
  <2>1. /\ row_end'[w] = row_end[w]
        /\ tile'[w] = tile[w] \/ tile'[w] = NextTile(tile[w], call, row_end[w])
    BY <1>5, <1>6
  <2> QED BY <1>1, <1>2, <2>1, AlignedStep
<1>7. CASE ~Spawn /\ ~RunInline /\ ~\E v \in Workers : StoreTile(v)
  <2>1. row_end' = row_end /\ tile' = tile
    BY <1>7 DEF Next, MainStep, WorkerStep, vars, mainVars, workerVars, Reject, GoParallel,
       Reserve, ReserveFails, SpawnFails, AllSpawned, Join, Return, Rethrow, InlineReturn,
       FinishThread
  <2> QED BY <1>2, <2>1
<1> QED BY <1>3, <1>4, <1>6, <1>7

\* If the block size is a multiple of the micro-tile's rows, every element is
\* computed by the same one of the two micro-tile codes as in a call with one
\* thread, so with the same rounding, for any number of threads and any shape.
THEOREM SamePath == Spec => []SamePathAsSerial
<1>1. Init => AlignInv
  <2> SUFFICES ASSUME Init, NEW w \in Workers
               PROVE  /\ row_end[w] = call.rows \/ Multiple(row_end[w], MicroRows)
                      /\ Multiple(tile[w].jj, call.block) /\ Multiple(tile[w].j, MicroCols)
                      /\ Multiple(tile[w].ii, MicroRows) /\ Multiple(tile[w].i, MicroRows)
    BY DEF AlignInv
  <2>1. row_end[w] = 0 /\ tile[w].ii = 0 /\ tile[w].jj = 0 /\ tile[w].i = 0 /\ tile[w].j = 0
    BY DEF Init, FirstTile, At
  <2>2. Multiple(0, MicroRows) /\ Multiple(0, MicroCols) /\ Multiple(0, call.block)
    BY Counts, Multiples, MicroShapeAssumption DEF Init
  <2> QED BY <2>1, <2>2
<1>2. IInv /\ AlignInv /\ [Next]_vars => AlignInv'
  BY AlignStep DEF IInv
<1>3. IInv /\ AlignInv => SamePathAsSerial
  <2> SUFFICES ASSUME IInv, AlignInv, call.block % MicroRows = 0,
                      NEW w \in Workers, HasTile(tile[w], row_end[w]), NEW e \in Pending(w)
               PROVE  IsFullTile(tile[w], call, row_end[w])
                      <=> IsFullTile(SerialTile(e), call, call.rows)
    BY DEF SamePathAsSerial
  <2> DEFINE t == tile[w]
             b == call.block
             limit == row_end[w]
             x == e[1]
             y == e[2]
             q == (x \div b) * b
             s == SerialTile(e)
  <2>1. /\ call.rows \in Nat \ {0} /\ call.cols \in Nat \ {0} /\ b \in Nat \ {0}
        /\ limit \in Nat /\ limit <= call.rows /\ t \in Tile
        /\ t.ii <= t.i /\ t.i < RowLimit(t, call, limit)
        /\ t.jj < call.cols /\ t.j < ColumnExtent(t, call)
    BY Counts DEF IInv, TypeOK, RangeInv, WalkInv, TileInBounds
  <2>2. /\ t.ii \in Nat /\ t.jj \in Nat /\ t.i \in Nat /\ t.j \in Nat
        /\ MicroRows \in Nat \ {0} /\ MicroCols \in Nat \ {0}
    BY <2>1, MicroShapeAssumption DEF Tile
  <2>3. Multiple(b, MicroRows)
    <3>1. b = MicroRows * (b \div MicroRows) + 0 /\ b \div MicroRows \in Nat
      BY <2>1, <2>2, DivMod
    <3>2. b = (b \div MicroRows) * MicroRows
      BY <2>2, <3>1
    <3> QED BY <3>1, <3>2 DEF Multiple
  <2>4. /\ limit = call.rows \/ Multiple(limit, MicroRows)
        /\ Multiple(t.jj, b) /\ Multiple(t.j, MicroCols)
        /\ Multiple(t.ii, MicroRows) /\ Multiple(t.i, MicroRows)
    BY <2>3 DEF AlignInv
  <2>5. /\ x \in t.i .. t.i + RowCount(t, call, limit) - 1
        /\ y \in t.jj + t.j .. t.jj + t.j + ColumnCount(t, call) - 1
    <3>1. Pending(w) = Rectangle(t, RowCount(t, call, limit), ColumnCount(t, call))
      BY DEF Pending, Footprint, IsFullTile
    <3> QED BY <3>1 DEF Rectangle
  <2> HIDE DEF t, b, limit, x, y
  <2>6. /\ x \in Nat /\ x < limit
        /\ x - t.i \in 0 .. MicroRows - 1
        /\ t.i < t.ii + b /\ t.i < limit
    BY <2>1, <2>2, <2>5 DEF RowCount, RowLimit, Least, b
  <2>7. /\ y \in Nat /\ y - t.jj \in 0 .. b - 1
        /\ y - t.jj - t.j \in 0 .. MicroCols - 1
    BY <2>1, <2>2, <2>5 DEF ColumnCount, ColumnExtent, Least, b
  <2>8. /\ q \in Nat /\ q <= x /\ x < q + b
        /\ Multiple(q, b) /\ Multiple(q, MicroRows)
    <3>1. q \in Nat /\ q <= x /\ x < q + b /\ Multiple(q, b)
      BY <2>1, <2>6, FloorMultiple
    <3> HIDE DEF q
    <3> QED BY <2>1, <2>2, <2>3, <3>1, MultipleOfMultiple
  <2>9. s = At(q, t.jj, t.i, t.j)
    <3>1. (y \div b) * b = t.jj
      BY <2>1, <2>2, <2>4, <2>7, RoundDownTo
    <3>2. ((y - t.jj) \div MicroCols) * MicroCols = t.j
      <4>1. y - t.jj \in Nat
        BY <2>1, <2>7
      <4> QED BY <2>2, <2>4, <2>7, <4>1, RoundDownTo
    <3> HIDE DEF q
    <3>3. ((x - q) \div MicroRows) * MicroRows = t.i - q
      <4>1. q <= t.i
        <5>1. t.i < q => t.i + MicroRows <= q
          BY <2>2, <2>4, <2>8, Multiples
        <5> QED BY <2>2, <2>6, <2>8, <5>1
      <4>2. t.i - q \in Nat /\ Multiple(t.i - q, MicroRows)
        BY <2>2, <2>4, <2>8, <4>1, Difference
      <4>3. x - q \in Nat /\ (x - q) - (t.i - q) = x - t.i
        BY <2>2, <2>6, <2>8
      <4> QED BY <2>2, <2>6, <4>2, <4>3, RoundDownTo
    <3>4. q + (t.i - q) = t.i
      BY <2>2, <2>8
    <3>5. s = At(q, (y \div b) * b, q + ((x - q) \div MicroRows) * MicroRows,
                 ((y - (y \div b) * b) \div MicroCols) * MicroCols)
      BY DEF SerialTile, q, x, y, b
    <3> QED BY <3>1, <3>2, <3>3, <3>4, <3>5
  <2>10. s.ii = q /\ s.jj = t.jj /\ s.i = t.i /\ s.j = t.j
    BY <2>9 DEF At
  <2> HIDE DEF q, s
  <2>11. ColumnCount(s, call) = ColumnCount(t, call)
    BY <2>10 DEF ColumnCount, ColumnExtent
  <2>12. t.i + MicroRows <= t.ii + b /\ t.i + MicroRows <= q + b
    <3>1. /\ t.ii + b \in Nat /\ Multiple(t.ii + b, MicroRows)
          /\ q + b \in Nat /\ Multiple(q + b, MicroRows)
      <4>1. t.ii \in Nat /\ q \in Nat /\ b \in Nat /\ MicroRows \in Nat
            /\ t.ii + b \in Nat /\ q + b \in Nat
        BY <2>1, <2>2, <2>8
      <4>2. Multiple(t.ii, MicroRows) /\ Multiple(q, MicroRows) /\ Multiple(b, MicroRows)
        BY <2>3, <2>4, <2>8
      <4> QED BY <4>1, <4>2, Multiples
    <3>2. t.i < q + b
      <4>1. t.i <= x /\ x < q + b /\ q \in Nat /\ b \in Nat /\ x \in Nat /\ t.i \in Nat
        BY <2>1, <2>2, <2>6, <2>8
      <4> QED BY <4>1
    <3> QED BY <2>2, <2>4, <2>6, <3>1, <3>2, Multiples
  <2>13. RowCount(t, call, limit) = MicroRows <=> t.i + MicroRows <= limit
    BY <2>1, <2>2, <2>12 DEF RowCount, RowLimit, Least, b
  <2>14. RowCount(s, call, call.rows) = MicroRows <=> t.i + MicroRows <= call.rows
    BY <2>1, <2>2, <2>8, <2>10, <2>12 DEF RowCount, RowLimit, Least, b
  <2>15. t.i + MicroRows <= limit <=> t.i + MicroRows <= call.rows
    <3>1. CASE limit = call.rows
      BY <3>1
    <3>2. CASE Multiple(limit, MicroRows)
      <4>1. t.i + MicroRows <= limit
        BY <2>1, <2>2, <2>4, <2>6, <3>2, Multiples
      <4> QED BY <2>1, <2>2, <4>1
    <3> QED BY <2>4, <3>1, <3>2
  <2> QED BY <2>11, <2>13, <2>14, <2>15 DEF IsFullTile, t, limit, s
<1> QED BY Invariance, <1>1, <1>2, <1>3, PTL DEF Spec
-------------------------------------------------------------------------------
\* The parallel kernel implements the contract of a GEMM kernel: rejected with
\* C untouched, failed, or returned with all of C, and quiet afterwards.
THEOREM Refinement == Spec => KeepsContract
<1>1. Init => Contract!ContractInit
  <2> SUFFICES ASSUME Init PROVE Contract!ContractInit
    OBVIOUS
  <2>1. <<0, 0>> \in Elements
    BY Counts DEF Init, Elements
  <2>2. Product = {} /\ Outcome = "running"
    BY DEF Init, Product, Outcome, Active
  <2> QED BY <2>1, <2>2 DEF Contract!ContractInit
<1>2. IInv /\ [Next]_vars => [Contract!ContractNext]_(Contract!contractVars)
  <2> SUFFICES ASSUME IInv, [Next]_vars
               PROVE  [Contract!ContractNext]_(Contract!contractVars)
    OBVIOUS
  <2> USE DEF Contract!ContractNext, Contract!contractVars
  <2>1. Elements' = Elements
    BY FixedCall
  <2>2. ASSUME UNCHANGED writers PROVE Product' = Product
    BY <2>1, <2>2 DEF Product
  <2>3. CASE RunInline \/ GoParallel \/ Reserve \/ Spawn \/ SpawnFails \/ AllSpawned \/ Join
    <3>1. Outcome' = Outcome /\ UNCHANGED writers
      BY <2>3 DEF RunInline, GoParallel, Reserve, Spawn, SpawnFails, AllSpawned, Join,
         Outcome, Active
    <3> QED BY <3>1, <2>1, <2>2
  <2>4. CASE Reject
    <3>1. Outcome = "running" /\ Outcome' = "rejected" /\ UNCHANGED writers
      BY <2>4 DEF Reject, Outcome, Active
    <3>2. Product = {}
      <4>1. \A w \in Workers : \A x : x \notin Range(w)
        <5>1. pc = "validate" /\ \A w \in Workers : worker <= w
          BY <2>4, Counts DEF Reject, IInv, ThreadInv, TypeOK, Workers
        <5>2. \A w \in Workers : row_begin[w] = 0 /\ row_end[w] = 0
          BY <5>1 DEF IInv, RangeInv
        <5> QED BY <5>2 DEF Range
      <4>2. \A e \in Elements : writers[e] \subseteq Workers
        BY DEF IInv, TypeOK
      <4> QED BY <4>1, <4>2, OneWriter DEF Product
    <3> QED BY <3>1, <3>2, <2>1, <2>2 DEF Contract!ContractReject
  <2>5. CASE ReserveFails \/ Rethrow
    <3>1. pc' = "failed" /\ pc \in Active
      <4>1. next_join = worker
        BY <2>5, Counts DEF ReserveFails, Rethrow, IInv, ThreadInv, TypeOK
      <4> QED BY <4>1, <2>5, NobodyJoinable DEF ReserveFails, Rethrow, LeaveScope, IInv, Active
    <3>2. Outcome = "running" /\ Outcome' = "failed" /\ UNCHANGED writers
      BY <3>1, <2>5 DEF Outcome, Active, ReserveFails, Rethrow
    <3> QED BY <3>2, <2>1, <2>2 DEF Contract!ContractFail
  <2>6. CASE Return \/ InlineReturn
    <3>1. pc' = "returned" /\ pc \in Active /\ UNCHANGED writers
      BY <2>6, NobodyJoinable DEF Return, InlineReturn, LeaveScope, IInv, Active
    <3>2. IInv'
      BY TypeStep, ThreadStep, RangeStep, WalkInvStep DEF IInv
    <3>3. Product = Elements
      <4>1. ASSUME NEW e \in Elements PROVE writers[e] # {}
        <5>1. e[1] \in 0 .. call.rows - 1
          BY ElementCoordinates DEF IInv
        <5>2. UNCHANGED <<call, row_begin, row_end, tile>>
          BY <2>6 DEF Return, InlineReturn, workerVars
        <5>3. PICK w \in Workers : e[1] \in Range(w)
          BY <5>1, <5>2, <3>1, <3>2, FixedCall DEF IInv, RangeInv, Range
        <5>4. ~HasTile(tile[w], row_end[w])
          BY <5>2, <3>1, <3>2, FixedCall DEF IInv, RangeInv
        <5>5. e[1] < tile[w].ii
          BY <5>1, <5>3, <5>4, Counts DEF HasTile, Range, IInv, TypeOK, Tile
        <5> QED BY <5>3, <5>5 DEF Before, IInv, WalkInv
      <4> QED BY <4>1 DEF Product
    <3>4. Outcome = "running" /\ Outcome' = "returned"
      BY <3>1 DEF Outcome, Active
    <3> QED BY <3>1, <3>3, <3>4, <2>1, <2>2 DEF Contract!ContractReturn
  <2>7. ASSUME NEW w \in Workers, StoreTile(w)
        PROVE  [Contract!ContractNext]_(Contract!contractVars)
    <3>1. pc' = pc
      BY <2>7 DEF StoreTile, mainVars
    <3>2. pc \in Active
      <4>1. pc \notin Terminal \/ thread[w] # "running"
        BY NobodyJoinable DEF IInv, ThreadInv, Joinable
      <4> QED BY <4>1, <2>7 DEF StoreTile, Executing, IInv, TypeOK, Active, Terminal
    <3>3. Product \subseteq Product' /\ Product' \subseteq Elements
      BY <2>1, <2>7 DEF Product, StoreTile
    <3> QED BY <3>1, <3>2, <3>3, <2>1 DEF Outcome, Contract!ContractCompute
  <2>8. ASSUME NEW w \in Workers, FinishThread(w)
        PROVE  [Contract!ContractNext]_(Contract!contractVars)
    <3>1. Outcome' = Outcome /\ UNCHANGED writers
      BY <2>8 DEF FinishThread, mainVars, Outcome
    <3> QED BY <3>1, <2>1, <2>2
  <2>9. CASE UNCHANGED vars
    <3>1. Outcome' = Outcome /\ UNCHANGED writers
      BY <2>9 DEF vars, mainVars, Outcome
    <3> QED BY <3>1, <2>1, <2>2
  <2> QED
    BY <2>3, <2>4, <2>5, <2>6, <2>7, <2>8, <2>9 DEF Next, MainStep, WorkerStep
<1> QED
  BY <1>1, <1>2, Invariance, PTL DEF Spec, KeepsContract, Contract!ContractSpec
===============================================================================
