----------------------------- MODULE ParallelGemm -----------------------------
(***************************************************************************)
(* One call of gemm_avx2_4x8_parallel: the calling thread validates,       *)
(* splits the rows of C into groups of MicroRows, starts one std::thread   *)
(* per worker and joins them; the workers run gemm_avx2_row_range          *)
(* concurrently on their own range.  Starting a thread may fail, and then  *)
(* the started ones are joined before the exception leaves the call.  With *)
(* a single worker the calling thread computes the whole range itself,     *)
(* which is also what gemm_avx2_4x8 does.                                  *)
(*                                                                         *)
(* A and the packed B are only read during the call, so the value of an    *)
(* element depends on nothing but its coordinates; writers[e] is the set   *)
(* of workers that stored element e, empty while e still holds what C held *)
(* before the call.                                                        *)
(***************************************************************************)
EXTENDS MicroTiles

CONSTANT Calls \* the argument records the calls are made with

\* matching is the test of validate_microkernel_shapes, cpu the answer of
\* cpu_supports_avx2_fma.  Matrix and PackedB refuse a zero dimension or block.
ASSUME CallsAssumption ==
  Calls \subseteq [rows : Nat \ {0}, cols : Nat \ {0}, block : Nat \ {0},
                   threads : Nat, matching : BOOLEAN, cpu : BOOLEAN]

VARIABLES
  call,        \* the arguments of the call
  pc,          \* where the calling thread is
  group_begin, \* first row group not yet given to a worker
  worker,      \* the loop variable of the spawn loop; workers.size() as well
  next_join,   \* index of the next thread the join loops look at
  thread,      \* state of each std::thread in the vector workers
  row_begin,   \* the range each worker captured ...
  row_end,     \* ... by value
  tile,        \* the loop variables of each worker
  writers      \* the workers that stored each element of C

mainVars == <<call, pc, group_begin, worker, next_join>>
workerVars == <<row_begin, row_end, tile>>
vars == <<mainVars, thread, workerVars, writers>>

\* (The definitions named Slip... are plausible mistakes in the definition after
\* them.  No specification uses them; they show which property notices.)
SlipRoundDown == call.rows \div MicroRows
MicroRowGroups == (call.rows + MicroRows - 1) \div MicroRows
SlipNoClamp == call.threads
WorkerCount == Least(call.threads, MicroRowGroups)
GroupsPerWorker == MicroRowGroups \div WorkerCount
RemainingGroups == MicroRowGroups % WorkerCount

Workers == 0 .. WorkerCount - 1
Elements == (0 .. call.rows - 1) \X (0 .. call.cols - 1)

ThreadStates == {"absent", "running", "finished", "joined"}
Active == {"validate", "inline", "reserve", "spawn", "join", "unwind"}
Terminal == {"returned", "rejected", "failed", "terminated"}

Init ==
  /\ call \in Calls
  /\ pc = "validate"
  /\ group_begin = 0
  /\ worker = 0
  /\ next_join = 0
  /\ thread = [w \in Workers |-> "absent"]
  /\ row_begin = [w \in Workers |-> 0]
  /\ row_end = [w \in Workers |-> 0]
  /\ tile = [w \in Workers |-> FirstTile(0)]
  /\ writers = [e \in Elements |-> {}]
-------------------------------------------------------------------------------
(* The calling thread *)

\* std::thread::joinable
Joinable(w) == thread[w] \in {"running", "finished"}

\* Leaving the scope destroys workers, and the destructor of a joinable
\* std::thread calls std::terminate.
LeaveScope(status) ==
  pc' = IF \E w \in Workers : Joinable(w) THEN "terminated" ELSE status

Accepted == call.matching /\ call.threads # 0 /\ call.cpu

\* One of the three checks throws; nothing has been touched.
Reject ==
  /\ pc = "validate"
  /\ ~Accepted
  /\ pc' = "rejected"
  /\ UNCHANGED <<call, group_begin, worker, next_join, thread, workerVars, writers>>

\* A single worker: the calling thread runs the whole range itself.
RunInline ==
  /\ pc = "validate"
  /\ Accepted
  /\ WorkerCount = 1
  /\ pc' = "inline"
  /\ row_end' = [row_end EXCEPT ![0] = call.rows]
  /\ UNCHANGED <<call, group_begin, worker, next_join, thread, row_begin, tile, writers>>

GoParallel ==
  /\ pc = "validate"
  /\ Accepted
  /\ WorkerCount # 1
  /\ pc' = "reserve"
  /\ UNCHANGED <<call, group_begin, worker, next_join, thread, workerVars, writers>>

Reserve ==
  /\ pc = "reserve"
  /\ pc' = "spawn"
  /\ UNCHANGED <<call, group_begin, worker, next_join, thread, workerVars, writers>>

\* workers.reserve throws; it is outside the try block.
ReserveFails ==
  /\ pc = "reserve"
  /\ LeaveScope("failed")
  /\ UNCHANGED <<call, group_begin, worker, next_join, thread, workerVars, writers>>

\* The row groups of the worker the loop is at.
SlipDropRemainder == GroupsPerWorker
GroupCount == GroupsPerWorker + (IF worker < RemainingGroups THEN 1 ELSE 0)

\* emplace_back: the thread starts with its range captured by value.
Spawn ==
  /\ pc = "spawn"
  /\ worker < WorkerCount
  /\ group_begin' = group_begin + GroupCount
  /\ row_begin' = [row_begin EXCEPT ![worker] = group_begin * MicroRows]
  /\ row_end' = [row_end EXCEPT ![worker] = Least(group_begin' * MicroRows, call.rows)]
  /\ tile' = [tile EXCEPT ![worker] = FirstTile(group_begin * MicroRows)]
  /\ thread' = [thread EXCEPT ![worker] = "running"]
  /\ worker' = worker + 1
  /\ UNCHANGED <<call, pc, next_join, writers>>

\* The thread cannot be started: std::system_error, caught by catch (...).
SpawnFails ==
  /\ pc = "spawn"
  /\ worker < WorkerCount
  /\ group_begin' = group_begin + GroupCount
  /\ pc' = "unwind"
  /\ UNCHANGED <<call, worker, next_join, thread, workerVars, writers>>

AllSpawned ==
  /\ pc = "spawn"
  /\ worker = WorkerCount
  /\ pc' = "join"
  /\ UNCHANGED <<call, group_begin, worker, next_join, thread, workerVars, writers>>

SlipJoinAllSlots ==
  /\ pc \in {"join", "unwind"}
  /\ next_join < WorkerCount
  /\ thread[next_join] # "running"
  /\ thread' = [thread EXCEPT ![next_join] = "joined"]
  /\ next_join' = next_join + 1
  /\ UNCHANGED <<call, pc, group_begin, worker, workerVars, writers>>

\* join() of the next thread returns: it blocks while that thread runs.  The
\* loop of the catch block skips a thread that is not joinable.
Join ==
  /\ pc \in {"join", "unwind"}
  /\ next_join < worker
  /\ thread[next_join] # "running"
  /\ thread' = [thread EXCEPT ![next_join] = "joined"]
  /\ next_join' = next_join + 1
  /\ UNCHANGED <<call, pc, group_begin, worker, workerVars, writers>>

Return ==
  /\ pc = "join"
  /\ next_join = worker
  /\ LeaveScope("returned")
  /\ UNCHANGED <<call, group_begin, worker, next_join, thread, workerVars, writers>>

SlipRethrowAtOnce ==
  /\ pc = "unwind"
  /\ LeaveScope("failed")
  /\ UNCHANGED <<call, group_begin, worker, next_join, thread, workerVars, writers>>

Rethrow ==
  /\ pc = "unwind"
  /\ next_join = worker
  /\ LeaveScope("failed")
  /\ UNCHANGED <<call, group_begin, worker, next_join, thread, workerVars, writers>>

InlineReturn ==
  /\ pc = "inline"
  /\ ~HasTile(tile[0], row_end[0])
  /\ pc' = "returned"
  /\ UNCHANGED <<call, group_begin, worker, next_join, thread, workerVars, writers>>
-------------------------------------------------------------------------------
(* The workers *)

Executing(w) == thread[w] = "running" \/ (pc = "inline" /\ w = 0)

\* The elements the worker's next micro-tile stores.
Pending(w) == Footprint(tile[w], call, row_end[w])

StoreTile(w) ==
  /\ Executing(w)
  /\ HasTile(tile[w], row_end[w])
  /\ writers' = [e \in Elements |->
                   IF e \in Pending(w) THEN writers[e] \cup {w} ELSE writers[e]]
  /\ tile' = [tile EXCEPT ![w] = NextTile(@, call, row_end[w])]
  /\ UNCHANGED <<mainVars, thread, row_begin, row_end>>

\* The function object returns and the thread ends.
FinishThread(w) ==
  /\ thread[w] = "running"
  /\ ~HasTile(tile[w], row_end[w])
  /\ thread' = [thread EXCEPT ![w] = "finished"]
  /\ UNCHANGED <<mainVars, workerVars, writers>>
-------------------------------------------------------------------------------
MainStep ==
  \/ Reject \/ RunInline \/ GoParallel
  \/ Reserve \/ ReserveFails
  \/ Spawn \/ SpawnFails \/ AllSpawned
  \/ Join \/ Return \/ Rethrow \/ InlineReturn

\* In an inline call the worker 0 is the calling thread.
WorkerStep(w) ==
  /\ w \in Workers
  /\ StoreTile(w) \/ FinishThread(w)

Next == MainStep \/ \E w \in Workers : WorkerStep(w)

Spec == Init /\ [][Next]_vars

\* The operating system runs every thread that can run: the calling thread and
\* each worker.  Nothing is assumed of a thread that waits in join().
ThreadIds == UNION {0 .. c.threads - 1 : c \in Calls}

FairSpec ==
  /\ Spec
  /\ WF_vars(MainStep)
  /\ \A w \in ThreadIds : WF_vars(WorkerStep(w))
-------------------------------------------------------------------------------
TypeOK ==
  /\ call \in Calls
  /\ pc \in Active \cup Terminal
  /\ group_begin \in Nat
  /\ worker \in 0 .. WorkerCount
  /\ next_join \in 0 .. worker
  /\ thread \in [Workers -> ThreadStates]
  /\ row_begin \in [Workers -> Nat]
  /\ row_end \in [Workers -> Nat]
  /\ tile \in [Workers -> Tile]
  /\ writers \in [Elements -> SUBSET Workers]

\* No two workers store the same element.  Running workers are not ordered by
\* anything, so two stores of one element by two workers would be a data race
\* on C (the claim of the comment above the spawn loop).
NoDataRace == \A e \in Elements : \A v, w \in writers[e] : v = w

\* A micro-tile about to be stored, AVX2 or portable, lies inside C and inside
\* the rows of its worker, and none of its elements has been stored before in
\* this call: every edge of the tile walk is cut where it must be.
StoresInOwnRange ==
  \A w \in Workers : Executing(w) /\ HasTile(tile[w], row_end[w]) =>
    \A e \in Pending(w) :
      /\ e \in Elements
      /\ e[1] \in row_begin[w] .. row_end[w] - 1
      /\ writers[e] = {}

\* When the call has returned normally every element of C holds the product:
\* rounding to row groups, the remainder and the clamp of the worker count
\* lose no row, and the join loop waits for everybody.
CompleteOnReturn ==
  pc = "returned" => \A e \in Elements : writers[e] # {}

\* However the call ends, also by an exception half way through the spawn
\* loop, no started thread is still running or unjoined: nobody can touch C, A
\* or the packed B after the caller got control back, and the vector of threads
\* is destroyed without std::terminate.
QuietAtExit ==
  pc \in Terminal => pc # "terminated" /\ \A w \in Workers : ~Joinable(w)

\* The row groups are shared out evenly: when all workers have been started
\* none is idle, no two differ by more than one group, and the ranges follow
\* each other without a gap.  (The last group may hold fewer rows.)
Groups(w) == (row_end[w] - row_begin[w] + MicroRows - 1) \div MicroRows

BalancedPartition ==
  pc = "join" =>
    /\ \A w \in Workers : row_begin[w] < row_end[w]
    /\ \A v, w \in Workers : Groups(v) <= Groups(w) + 1
    /\ \A w \in Workers \ {0} : row_begin[w] = row_end[w - 1]

\* The micro-tile in which the walk of one thread over all rows meets element e.
SerialTile(e) ==
  LET ii == (e[1] \div call.block) * call.block
      jj == (e[2] \div call.block) * call.block
  IN  At(ii, jj,
         ii + ((e[1] - ii) \div MicroRows) * MicroRows,
         ((e[2] - jj) \div MicroCols) * MicroCols)

\* The AVX2 code rounds once per multiply-add, the portable code may round
\* twice.  If the block size is a multiple of the micro-tile's rows, every element is
\* computed by the same one of the two as in a single-threaded call: how the
\* rows are split and which worker starts in the middle of a cache block cannot
\* change the bits of the result.  (With another block size it can.)
SamePathAsSerial ==
  call.block % MicroRows = 0 =>
    \A w \in Workers : Executing(w) /\ HasTile(tile[w], row_end[w]) =>
      \A e \in Pending(w) :
        IsFullTile(tile[w], call, row_end[w]) <=> IsFullTile(SerialTile(e), call, call.rows)

\* The call ends, whatever fails: the joins wait for nobody who waits.
Terminates == <>(pc \in Terminal)
-------------------------------------------------------------------------------
(* The inductive invariant behind the safety properties *)

\* Rows below FreeRow have been given to a worker.
FreeRow == Least(group_begin * MicroRows, call.rows)
Range(w) == row_begin[w] .. row_end[w] - 1

\* Where the calling thread is determines which threads exist and which have
\* been joined.
ThreadInv ==
  /\ pc \notin {"validate", "rejected"} => Accepted
  /\ pc \in {"reserve", "spawn", "join", "unwind"} => WorkerCount # 1
  /\ pc = "inline" => WorkerCount = 1
  /\ pc \in {"validate", "inline", "reserve", "rejected"} => worker = 0 /\ group_begin = 0
  /\ pc = "spawn" => next_join = 0
  /\ pc = "join" => worker = WorkerCount
  /\ pc = "returned" => worker = WorkerCount \/ (worker = 0 /\ WorkerCount = 1)
  /\ pc \in Terminal => next_join = worker
  /\ pc # "terminated"
  /\ \A w \in Workers :
       /\ thread[w] = "absent" <=> worker <= w
       /\ thread[w] = "joined" <=> w < next_join
       /\ thread[w] \in {"finished", "joined"} => ~HasTile(tile[w], row_end[w])

\* The ranges given so far are disjoint and cover the rows below FreeRow.
RangeInv ==
  /\ pc = "spawn" => group_begin = worker * GroupsPerWorker + Least(worker, RemainingGroups)
  /\ pc \in {"spawn", "join"} =>
       \A x \in 0 .. FreeRow - 1 : \E w \in Workers : w < worker /\ x \in Range(w)
  /\ pc = "join" => FreeRow = call.rows
  /\ pc = "returned" => \A x \in 0 .. call.rows - 1 : \E w \in Workers : x \in Range(w)
  /\ pc = "returned" => \A w \in Workers : ~HasTile(tile[w], row_end[w])
  /\ \A w \in Workers :
       /\ worker <= w /\ pc \notin {"inline", "returned"} =>
            row_begin[w] = 0 /\ row_end[w] = 0 /\ tile[w] = FirstTile(0)
       /\ w < worker => row_end[w] <= FreeRow
       /\ row_end[w] <= call.rows
  /\ \A v, w \in Workers : v < w /\ w < worker => row_end[v] <= row_begin[w]
  /\ pc = "inline" => row_begin[0] = 0 /\ row_end[0] = call.rows

WalkInv ==
  /\ \A w \in Workers : TileInBounds(tile[w], call, row_begin[w], row_end[w])
  /\ \A e \in Elements, w \in Workers :
       e[1] \in Range(w) =>
         writers[e] = IF Before(e, tile[w], call, row_end[w]) THEN {w} ELSE {}
  /\ \A e \in Elements : \A w \in writers[e] : e[1] \in Range(w)

\* The walk of every worker has stored exactly the part of its range that lies
\* behind its loop variables, whatever the others have done meanwhile.
IInv == TypeOK /\ ThreadInv /\ RangeInv /\ WalkInv
-------------------------------------------------------------------------------
\* What the caller sees: an element is the product once somebody stored it.
Outcome == IF pc \in Active THEN "running" ELSE pc
Product == {e \in Elements : writers[e] # {}}

Contract == INSTANCE GemmContract WITH
  elements <- Elements, product <- Product, outcome <- Outcome

\* The call keeps the contract of a GEMM kernel.
KeepsContract == Contract!ContractSpec
===============================================================================
