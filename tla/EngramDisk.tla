----------------------------- MODULE EngramDisk -----------------------------
(***************************************************************************)
(* Reading one step's table rows from disk (files/engram.py,               *)
(* _dsv41_engram_local_dir, DiskEngramTable, disk_rel_owned,               *)
(* gather_dequant_many, _kai_parallel_read, _kai_pread_rows).              *)
(*                                                                         *)
(* The calling thread turns the hash ids of every table into row reads,    *)
(* submits them as tasks to the process-wide pool while its threads        *)
(* already run them, then waits for the tasks in the order of submission.  *)
(* A read may return fewer bytes than asked for, or fail; after a failure  *)
(* the call raises while other tasks of it are still queued or running.    *)
(*                                                                         *)
(* A byte is its table and offset, or a hole of a sparse local copy.       *)
(***************************************************************************)
EXTENDS Integers, Sequences, FiniteSets

CONSTANTS Threads,    \* pool threads
          Chunk,      \* DSV41_ENGRAM_DISK_CHUNK
          Tables,     \* number of tables (engram layers)
          WeightBytes, ScaleBytes,   \* bytes of a row in either tensor
          FileRows,   \* rows of a table in the checkpoint
          RowStart, NumRows,         \* this rank's rows of it
          Requests,   \* inputs: the tables asked and the hash ids for each
          Unique(_),  \* torch.unique: a set of rows as a sequence
          MaxCalls,   \* bound: steps
          MaxErrors   \* bound: reads that fail

ASSUME PoolAssumption ==
  Chunk \in Nat \ {0} /\ IsFiniteSet(Threads) /\ Threads # {}
ASSUME FileAssumption ==
  /\ {Tables, WeightBytes, ScaleBytes} \subseteq Nat \ {0}
  /\ {FileRows, RowStart, NumRows, MaxCalls, MaxErrors} \subseteq Nat
  /\ RowStart + NumRows <= FileRows
ASSUME RequestAssumption ==
  Requests \subseteq Seq([table : 1..Tables, ids : Seq(-1..FileRows)])

VARIABLES
  holds,    \* holds[t]: the rows present in the files table t was opened on
  pc,       \* the calling thread: idle, submit, wait, returned, raised
  calls,    \* gather_dequant_many calls so far
  req,      \* the ids of the call
  todo,     \* its tasks still to be submitted, a set
  futs,     \* every task submitted by any call, with its state
  waiting,  \* the future the caller waits for
  cur,      \* per thread: the task it runs, and how far it is
  bufs,     \* the call's buffers: per job, row and byte
  out,      \* what the call returned, per table and id
  errors

vars == <<holds, pc, calls, req, todo, futs, waiting, cur, bufs, out, errors>>
caller == <<pc, calls, req, todo, waiting, out>>

Min2(a, b) == IF a < b THEN a ELSE b
Max2(a, b) == IF a > b THEN a ELSE b
CeilDiv(a, b) == (a + b - 1) \div b

\* A table asked for has two jobs, one per tensor.
AskOf(j)    == (j + 1) \div 2
Jobs(r)     == 1..(2 * Len(r))
RowBytes(j) == IF j % 2 = 1 THEN WeightBytes ELSE ScaleBytes

RowEnd == RowStart + NumRows
Junk   == <<-1>>   \* torch.empty memory
Hole   == <<-2>>     \* a byte the local copy does not hold
NoTask == 0

\* disk_rel_owned: rank-local row ids; what this rank does not own reads row 0.
Owned(id) == RowStart <= id /\ id < RowEnd
Rel(id)   == IF Owned(id) THEN id - RowStart ELSE 0

\* The distinct rows of a table; inverse finds a row among them.
RelSet(ids)  == {Rel(ids[i]) : i \in DOMAIN ids}
Uniq(ids)    == Unique(RelSet(ids))
InverseOf(ids, i) == CHOOSE k \in DOMAIN Uniq(ids) : Uniq(ids)[k] = Rel(ids[i])
JobRows(r, j) == Uniq(r[AskOf(j)].ids)

ASSUME UniqueAssumption ==
  \A r \in Requests : \A q \in DOMAIN r :
    LET S == RelSet(r[q].ids)
    IN  Unique(S) \in Seq(S) /\ \A x \in S : \E k \in DOMAIN Unique(S) : Unique(S)[k] = x

\* Rows over all jobs, and the rows of one task.
JobsRows(r) == UNION {{j} \X (1..Len(JobRows(r, j))) : j \in Jobs(r)}
Total(r)    == Cardinality(JobsRows(r))
ChunkOf(r) == Max2(1, Min2(Chunk, CeilDiv(Total(r), Cardinality(Threads))))

\* range(0, len(rel), chunk), counted from 1.
Starts(n, c) == {lo \in 1..n : (lo - 1) % c = 0}

\* Defect, not part of Next: a chunk's end is taken to be inclusive.
InclusiveEnd(lo, c, n) == Min2(lo + c, n)

\* The last row of the chunk that begins at lo, of a job of n rows.
ChunkEnd(lo, c, n) == Min2(lo + c - 1, n)

\* The tasks of a call: chunks of every job, and the order they are listed in.
JobTasks(r, j) ==
  LET n == Len(JobRows(r, j))
  IN  {[job |-> j, lo |-> lo, hi |-> ChunkEnd(lo, ChunkOf(r), n)] : lo \in Starts(n, ChunkOf(r))}

Tasks(r) == UNION {JobTasks(r, j) : j \in Jobs(r)}

Before(t, u) == t.job < u.job \/ (t.job = u.job /\ t.lo < u.lo)

-----------------------------------------------------------------------------
(* Opening the tables *)

\* Defect, not part of Next: only the size of the copy is compared.
CoversLength(copy) == NumRows <= copy.hi - copy.lo

\* _dsv41_engram_local_dir: a local copy with rows lo..hi-1 is used only if it
\* covers this rank's rows; no copy, or an unreadable one, is [lo, hi] = [0, 0].
Covers(copy) == copy.lo <= RowStart /\ RowEnd <= copy.hi

Present(copy) ==
  IF copy.hi > 0 /\ Covers(copy) THEN copy.lo..(copy.hi - 1) ELSE 0..(FileRows - 1)

\* The local copies a rank may find, and none: [lo, hi] = [0, 0].
Copies == {c \in [lo : 0..FileRows, hi : 0..FileRows] :
             c.lo < c.hi \/ (c.lo = 0 /\ c.hi = 0)}

Init ==
  /\ \E copy \in [1..Tables -> Copies] :
       holds = [t \in 1..Tables |-> Present(copy[t])]
  /\ pc = "idle" /\ calls = 0 /\ req = << >> /\ todo = {}
  /\ futs = << >> /\ waiting = 0
  /\ cur = [th \in Threads |-> [task |-> NoTask, row |-> 0, got |-> 0]]
  /\ bufs = << >> /\ out = << >> /\ errors = 0

-----------------------------------------------------------------------------
(* The calling thread *)

NewBuffers(r) ==
  [j \in Jobs(r) |-> [i \in 1..Len(JobRows(r, j)) |->
                     [k \in 0..(RowBytes(j) - 1) |-> Junk]]]

\* gather_dequant_many: fresh buffers, one list of tasks over all tables.
Gather(r) ==
  /\ pc \in {"idle", "returned", "raised"} /\ calls < MaxCalls
  /\ calls' = calls + 1 /\ req' = r
  /\ bufs' = NewBuffers(r) /\ out' = << >>
  /\ todo' = Tasks(r)
  /\ waiting' = Len(futs) + 1
  /\ pc' = IF Tasks(r) = {} THEN "wait" ELSE "submit"
  /\ UNCHANGED <<holds, futs, cur, errors>>

Submit ==
  /\ pc = "submit"
  /\ \E t \in todo :
       /\ \A u \in todo \ {t} : Before(t, u)
       /\ futs' = Append(futs, [call |-> calls, task |-> t, state |-> "queued"])
       /\ todo' = todo \ {t}
       /\ pc' = IF todo = {t} THEN "wait" ELSE "submit"
  /\ UNCHANGED <<holds, calls, req, waiting, cur, bufs, out, errors>>

\* Defect, not part of Next: waiting only for the first of the tasks.
AwaitFirst ==
  /\ pc = "wait" /\ waiting <= Len(futs)
  /\ futs[waiting].state = "done"
  /\ waiting' = Len(futs) + 1
  /\ UNCHANGED <<holds, pc, calls, req, todo, futs, cur, bufs, out, errors>>

\* fut.result(), in the order of submission.
AwaitNext ==
  /\ pc = "wait" /\ waiting <= Len(futs)
  /\ futs[waiting].state = "done"
  /\ waiting' = waiting + 1
  /\ UNCHANGED <<holds, pc, calls, req, todo, futs, cur, bufs, out, errors>>

Raise ==
  /\ pc = "wait" /\ waiting <= Len(futs)
  /\ futs[waiting].state = "failed"
  /\ pc' = "raised"
  /\ UNCHANGED <<holds, calls, req, todo, futs, waiting, cur, bufs, out, errors>>

\* Dequantized rows go back to the order of the ids; zeros where not owned.
Zero == << >>
Return ==
  /\ pc = "wait" /\ waiting > Len(futs)
  /\ out' = [q \in DOMAIN req |->
               LET ids == req[q].ids
               IN  [i \in DOMAIN ids |->
                      IF Owned(ids[i])
                      THEN [w |-> bufs[2 * q - 1][InverseOf(ids, i)],
                            s |-> bufs[2 * q][InverseOf(ids, i)]]
                      ELSE Zero]]
  /\ pc' = "returned"
  /\ UNCHANGED <<holds, calls, req, todo, futs, waiting, cur, bufs, errors>>

-----------------------------------------------------------------------------
(* The pool *)

\* A free thread takes the oldest task.
Take(th) ==
  /\ cur[th].task = NoTask
  /\ \E f \in DOMAIN futs :
       /\ futs[f].state = "queued"
       /\ \A g \in 1..(f - 1) : futs[g].state # "queued"
       /\ futs' = [futs EXCEPT ![f].state = "running"]
       /\ cur' = [cur EXCEPT ![th] = [task |-> f, row |-> futs[f].task.lo, got |-> 0]]
  /\ UNCHANGED <<holds, caller, bufs, errors>>

\* The byte at an offset of the file job j of request r reads; h is what the
\* files hold.
FileByte(h, r, j, off) ==
  LET table == r[AskOf(j)].table
  IN  IF off \div RowBytes(j) \in h[table] THEN <<table, off>> ELSE Hole

\* Where byte k of a job's row i lies: the tensor's offset in the file was
\* moved to the rank's first row when the table was opened.
Offset(r, j, i, k) == RowStart * RowBytes(j) + JobRows(r, j)[i] * RowBytes(j) + k

\* preadv returns n of the bytes that are missing; a row is read on until it
\* is full.  A task of a call that has raised writes into that call's buffers,
\* which nobody will look at.
Preadv(th, n) ==
  LET c    == cur[th]
      f    == futs[c.task]
      j    == f.task.job
      full == c.got + n = RowBytes(j)
      last == full /\ c.row = f.task.hi
  IN
  /\ c.task # NoTask /\ c.got + n <= RowBytes(j)
  /\ bufs' = IF f.call = calls
             THEN [bufs EXCEPT ![j][c.row] =
                     [k \in DOMAIN @ |-> IF k \in c.got..(c.got + n - 1)
                                         THEN FileByte(holds, req, j, Offset(req, j, c.row, k))
                                         ELSE @[k]]]
             ELSE bufs
  /\ cur' = [cur EXCEPT ![th] =
               IF last THEN [task |-> NoTask, row |-> 0, got |-> 0]
               ELSE IF full THEN [task |-> c.task, row |-> c.row + 1, got |-> 0]
               ELSE [task |-> c.task, row |-> c.row, got |-> c.got + n]]
  /\ futs' = [futs EXCEPT ![c.task].state = IF last THEN "done" ELSE @]
  /\ UNCHANGED <<holds, caller, errors>>

\* Defect, not part of Next: a failed task never gets a result.
FailsSilently(th) ==
  /\ cur[th].task # NoTask /\ errors < MaxErrors
  /\ errors' = errors + 1
  /\ cur' = [cur EXCEPT ![th] = [task |-> NoTask, row |-> 0, got |-> 0]]
  /\ UNCHANGED <<holds, caller, futs, bufs>>

\* n <= 0, or the read itself raises: the task ends with the exception.
ReadFails(th) ==
  /\ cur[th].task # NoTask /\ errors < MaxErrors
  /\ errors' = errors + 1
  /\ futs' = [futs EXCEPT ![cur[th].task].state = "failed"]
  /\ cur' = [cur EXCEPT ![th] = [task |-> NoTask, row |-> 0, got |-> 0]]
  /\ UNCHANGED <<holds, caller, bufs>>

-----------------------------------------------------------------------------

PoolStep(th) == \/ Take(th)
                \/ \E n \in 1..Max2(WeightBytes, ScaleBytes) : Preadv(th, n)

CallerStep == Submit \/ AwaitNext \/ Raise \/ Return

Next == \/ \E r \in Requests : Gather(r)
        \/ CallerStep
        \/ \E th \in Threads : PoolStep(th) \/ ReadFails(th)

\* The caller and every pool thread go on as long as they can.
Spec == /\ Init /\ [][Next]_vars
        /\ WF_vars(CallerStep) /\ \A th \in Threads : WF_vars(PoolStep(th))

-----------------------------------------------------------------------------

FileRow(table, id, bytes) == [k \in 0..(bytes - 1) |-> <<table, id * bytes + k>>]

\* What gather_dequant_many returns are the table's own rows of the ids asked
\* for, both tensors, every byte: however the ids repeat, the tasks are cut
\* and interleaved, reads come back short, and whatever an earlier call that
\* raised has left in the pool -- and never a hole of the local copy.
RowsComplete ==
  pc = "returned" => \A q \in DOMAIN req : \A i \in DOMAIN req[q].ids :
    LET table == req[q].table
        id    == req[q].ids[i]
    IN  out[q][i] = IF Owned(id)
                    THEN [w |-> FileRow(table, id, WeightBytes),
                          s |-> FileRow(table, id, ScaleBytes)]
                    ELSE Zero

\* No two tasks in flight write the same row of the same buffer.
WritesDisjoint ==
  \A a, b \in Threads :
    a # b /\ cur[a].task # NoTask /\ cur[b].task # NoTask =>
      LET fa == futs[cur[a].task]
          fb == futs[cur[b].task]
      IN  <<fa.call, fa.task.job, cur[a].row>> # <<fb.call, fb.task.job, cur[b].row>>

\* A call in which a read failed does not return rows.
ErrorsRaise ==
  pc = "returned" => \A f \in DOMAIN futs :
                       futs[f].call = calls => futs[f].state = "done"

\* Every call returns or raises; the pool's threads never wait on each other
\* ("Only the calling thread submits, so the shared pool cannot deadlock").
CallsEnd == pc = "submit" ~> pc \in {"returned", "raised"}

-----------------------------------------------------------------------------
(* The strengthening behind the three invariants. *)

TaskSet == [job : Nat, lo : Nat, hi : Nat]
FutSet  == [call : Nat, task : TaskSet, state : {"queued", "running", "done", "failed"}]

DiskTypes ==
  /\ calls \in Nat /\ waiting \in Nat
  /\ pc \in {"idle", "submit", "wait", "returned", "raised"}
  /\ pc # "idle" => req \in Requests
  /\ pc = "idle" <=> calls = 0
  /\ futs \in Seq(FutSet)
  /\ \A f \in DOMAIN futs : futs[f].call \in 1..calls
  /\ cur \in [Threads -> [task : Nat, row : Nat, got : Nat]]
  /\ \A t \in 1..Tables : \A x \in RowStart..(RowEnd - 1) : x \in holds[t]

\* Every thread has a task of its own, and is at a row of it.
InFlight ==
  /\ \A th \in Threads : cur[th].task # NoTask =>
       /\ cur[th].task \in DOMAIN futs
       /\ futs[cur[th].task].state = "running"
       /\ cur[th].row \in futs[cur[th].task].task.lo..futs[cur[th].task].task.hi
  /\ \A a, b \in Threads :
       a # b /\ cur[a].task # NoTask => cur[a].task # cur[b].task

LoHi == \A f \in DOMAIN futs : futs[f].task.lo <= futs[f].task.hi

\* The rows of two tasks have none in common.
Apart(t, u) == t.job # u.job \/ t.hi < u.lo \/ u.hi < t.lo

FutsApart ==
  \A f, g \in DOMAIN futs :
    f # g /\ futs[f].call = futs[g].call => Apart(futs[f].task, futs[g].task)

\* Every task of the call is either still to be submitted or has been.
CallTasks ==
  pc # "idle" =>
    /\ todo \subseteq Tasks(req)
    /\ \A f \in DOMAIN futs :
         futs[f].call = calls => futs[f].task \in Tasks(req) /\ futs[f].task \notin todo
    /\ \A t \in Tasks(req) : t \in todo \/
         \E f \in DOMAIN futs : futs[f].call = calls /\ futs[f].task = t
    /\ pc # "submit" => todo = {}

\* What the caller has waited for is done.
Awaited ==
  /\ waiting <= Len(futs) + 1
  /\ \A f \in DOMAIN futs : f < waiting /\ futs[f].call = calls => futs[f].state = "done"
  /\ pc = "returned" => waiting > Len(futs)

Bytes(j) == 0..(RowBytes(j) - 1)

\* The buffers have the jobs, rows and bytes they were made with.
BufShape ==
  pc # "idle" =>
    /\ bufs = [j \in Jobs(req) |-> bufs[j]]
    /\ \A j \in Jobs(req) :
         /\ bufs[j] = [i \in 1..Len(JobRows(req, j)) |-> bufs[j][i]]
         /\ \A i \in 1..Len(JobRows(req, j)) : bufs[j][i] = [k \in Bytes(j) |-> bufs[j][i][k]]

\* A byte of the buffers is the one the file has for it; a row is full, or its
\* first n bytes are in.
Right(b, h, r, j, i, k) == b[j][i][k] = FileByte(h, r, j, Offset(r, j, i, k))
RowFull(b, h, r, j, i)    == \A k \in Bytes(j) : Right(b, h, r, j, i, k)
RowHead(b, h, r, j, i, n) == \A k \in 0..(n - 1) : Right(b, h, r, j, i, k)

\* Tasks that are done have filled their rows, those that run the rows and
\* bytes behind them.
Filled ==
  /\ \A f \in DOMAIN futs : futs[f].call = calls /\ futs[f].state = "done" =>
       \A i \in futs[f].task.lo..futs[f].task.hi :
         RowFull(bufs, holds, req, futs[f].task.job, i)
  /\ \A th \in Threads : cur[th].task # NoTask /\ futs[cur[th].task].call = calls =>
       LET t == futs[cur[th].task].task
       IN  /\ \A i \in t.lo..(cur[th].row - 1) : RowFull(bufs, holds, req, t.job, i)
           /\ RowHead(bufs, holds, req, t.job, cur[th].row, cur[th].got)

DiskInv == /\ DiskTypes /\ LoHi /\ InFlight /\ FutsApart /\ CallTasks /\ Awaited
           /\ BufShape /\ Filled /\ RowsComplete
=============================================================================
