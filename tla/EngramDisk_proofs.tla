-------------------------- MODULE EngramDisk_proofs --------------------------
(***************************************************************************)
(* Theorems about EngramDisk for every number of pool threads, tables,     *)
(* rows and ids, every chunk size and row width, and every way reads come  *)
(* back short or fail: a call that returns has the rows asked for, no two  *)
(* tasks write the same row, and a call in which a read failed raises.     *)
(***************************************************************************)
EXTENDS EngramDisk, FiniteSetTheorems, SequenceTheorems, TLAPS

LEMMA HalfOdd == ASSUME NEW q \in Nat PROVE (2 * q + 1) \div 2 = q
  OBVIOUS

LEMMA EvenMod == ASSUME NEW q \in Nat PROVE (2 * q) % 2 = 0
  OBVIOUS

USE PoolAssumption, FileAssumption

-----------------------------------------------------------------------------
(* Chunks *)

LEMMA DivMod ==
  ASSUME NEW p \in Nat, NEW d \in Nat \ {0}
  PROVE  /\ p \div d \in Nat /\ p % d \in 0..(d - 1)
         /\ p = (p \div d) * d + (p % d)
  BY SMT

LEMMA MultipleMod ==
  ASSUME NEW q \in Nat, NEW d \in Nat \ {0}
  PROVE  (q * d) % d = 0
  BY SMT

LEMMA NextMultiple ==
  ASSUME NEW q \in Nat, NEW p \in Nat, NEW d \in Nat \ {0}, q < p
  PROVE  q * d + d <= p * d
<1>1. PICK e \in Nat : p = q + 1 + e
  <2>1. p - q - 1 \in Nat /\ p = q + 1 + (p - q - 1)
    OBVIOUS
  <2>. QED
    BY <2>1
<1>2. p * d = q * d + d + e * d /\ e * d \in Nat /\ q * d \in Nat
  BY <1>1
<1>. QED
  BY <1>2

\* Two multiples of the chunk size are at least a chunk apart.
LEMMA StartsApart ==
  ASSUME NEW n \in Nat, NEW c \in Nat \ {0},
         NEW a \in Starts(n, c), NEW b \in Starts(n, c), a < b
  PROVE  a + c <= b
<1>1. /\ a - 1 \in Nat /\ b - 1 \in Nat
      /\ (a - 1) % c = 0 /\ (b - 1) % c = 0 /\ a \in Nat /\ b \in Nat
  BY DEF Starts
<1>0. ASSUME NEW m \in Nat, m % c = 0 PROVE \E q \in Nat : m = q * c
  <2> DEFINE d == m \div c
  <2>1. d \in Nat /\ m = (d * c) + (m % c)
    BY DivMod
  <2> HIDE DEF d
  <2>2. d * c \in Nat
    BY <2>1
  <2>3. m = d * c
    BY <1>0, <2>1, <2>2
  <2>. QED
    BY <2>1, <2>3
<1>2. PICK q \in Nat : a - 1 = q * c
  BY <1>0, <1>1
<1>3. PICK p \in Nat : b - 1 = p * c
  BY <1>0, <1>1
<1>4. q < p
  <2>1. SUFFICES ASSUME ~(q < p) PROVE FALSE
    OBVIOUS
  <2>2. CASE p = q
    BY <1>1, <1>2, <1>3, <2>2
  <2>3. CASE p < q
    <3>1. p * c + c <= q * c /\ p * c \in Nat /\ q * c \in Nat
      BY <2>3, NextMultiple
    <3>. QED
      BY <1>1, <1>2, <1>3, <3>1
  <2>. QED
    BY <2>1, <2>2, <2>3
<1>5. q * c + c <= p * c
  BY <1>4, NextMultiple
<1>. QED
  BY <1>1, <1>2, <1>3, <1>5

\* Every row lies in the chunk that begins at the last start before it.
LEMMA StartBefore ==
  ASSUME NEW n \in Nat, NEW c \in Nat \ {0}, NEW i \in 1..n
  PROVE  \E lo \in Starts(n, c) : lo <= i /\ i <= lo + c - 1
<1> DEFINE m == (i - 1) % c
           q == (i - 1) \div c
<1>0. i - 1 \in Nat
  OBVIOUS
<1>1. i - 1 \in Nat /\ m \in 0..(c - 1) /\ q \in Nat /\ i - 1 = q * c + m
  BY <1>0, DivMod
<1>2. (q * c) % c = 0 /\ q * c \in Nat
  BY <1>1, MultipleMod
<1> HIDE DEF m, q
<1>3. (i - m) - 1 = q * c /\ i - m \in 1..n
  BY <1>1, <1>2
<1>4. i - m \in Starts(n, c)
  BY <1>2, <1>3 DEF Starts
<1>. QED
  BY <1>1, <1>4

-----------------------------------------------------------------------------
(* The tasks of a call *)

\* What a job reads: the rows of its table, numbered within the rank's part.
LEMMA RowsOfJob ==
  ASSUME NEW r \in Requests, NEW j \in Jobs(r)
  PROVE  /\ AskOf(j) \in DOMAIN r
         /\ JobRows(r, j) \in Seq(RelSet(r[AskOf(j)].ids))
         /\ Len(JobRows(r, j)) \in Nat
         /\ \A x \in RelSet(r[AskOf(j)].ids) :
              \E k \in 1..Len(JobRows(r, j)) : JobRows(r, j)[k] = x
<1>1. r \in Seq([table : 1..Tables, ids : Seq(-1..FileRows)]) /\ Len(r) \in Nat
  BY RequestAssumption, LenProperties
<1>2. AskOf(j) \in 1..Len(r) /\ DOMAIN r = 1..Len(r)
  BY <1>1, LenProperties DEF AskOf, Jobs
<1> DEFINE S == RelSet(r[AskOf(j)].ids)
<1>3. Unique(S) \in Seq(S) /\ \A x \in S : \E k \in DOMAIN Unique(S) : Unique(S)[k] = x
  <2>1. \A q \in DOMAIN r :
          /\ Unique(RelSet(r[q].ids)) \in Seq(RelSet(r[q].ids))
          /\ \A x \in RelSet(r[q].ids) :
               \E k \in DOMAIN Unique(RelSet(r[q].ids)) : Unique(RelSet(r[q].ids))[k] = x
    BY UniqueAssumption, Zenon
  <2>. QED
    BY <1>2, <2>1, Zenon
<1>4. JobRows(r, j) = Unique(S)
  BY DEF JobRows, Uniq
<1> HIDE DEF S
<1>5. Len(JobRows(r, j)) \in Nat /\ DOMAIN JobRows(r, j) = 1..Len(JobRows(r, j))
  BY <1>3, <1>4, LenProperties
<1>. QED
  BY <1>2, <1>3, <1>4, <1>5 DEF S

LEMMA ChunkType ==
  ASSUME NEW r \in Requests
  PROVE  ChunkOf(r) \in Nat \ {0}
<1>1. Len(r) \in Nat
  BY RequestAssumption, LenProperties
<1>2. IsFiniteSet(Jobs(r))
  BY <1>1, FS_Interval DEF Jobs
<1>3. ASSUME NEW j \in Jobs(r) PROVE IsFiniteSet({j} \X (1..Len(JobRows(r, j))))
  <2>1. IsFiniteSet({j})
    BY FS_Singleton
  <2>2. IsFiniteSet(1..Len(JobRows(r, j)))
    BY RowsOfJob, FS_Interval
  <2>. QED
    BY <2>1, <2>2, FS_Product
<1> DEFINE Parts == {{j} \X (1..Len(JobRows(r, j))) : j \in Jobs(r)}
<1>4. IsFiniteSet(Parts)
  <2> DEFINE part == [j \in Jobs(r) |-> {j} \X (1..Len(JobRows(r, j)))]
  <2>1. part \in Surjection(Jobs(r), Parts)
    BY DEF Surjection
  <2>. QED
    BY <1>2, <2>1, FS_Surjection DEF ExistsSurjection
<1>5. IsFiniteSet(UNION Parts)
  BY <1>3, <1>4, FS_UNION
<1>6. Total(r) \in Nat
  BY <1>5, FS_CardinalityType DEF Total, JobsRows
<1>7. Cardinality(Threads) \in Nat \ {0}
  BY FS_CardinalityType, FS_EmptySet
<1>8. CeilDiv(Total(r), Cardinality(Threads)) \in Nat
  <2>1. Total(r) + Cardinality(Threads) - 1 \in Nat
    BY <1>6, <1>7
  <2>. QED
    BY <1>7, <2>1, DivMod DEF CeilDiv
<1>. QED
  BY <1>8 DEF ChunkOf, Max2, Min2

LEMMA TaskFacts ==
  ASSUME NEW r \in Requests, NEW t \in Tasks(r)
  PROVE  /\ t \in TaskSet /\ t.job \in Jobs(r)
         /\ t.lo \in Starts(Len(JobRows(r, t.job)), ChunkOf(r))
         /\ 1 <= t.lo /\ t.lo <= t.hi /\ t.hi <= Len(JobRows(r, t.job))
         /\ t.hi = ChunkEnd(t.lo, ChunkOf(r), Len(JobRows(r, t.job)))
<1>1. PICK j \in Jobs(r) : t \in JobTasks(r, j)
  BY DEF Tasks
<1> DEFINE n == Len(JobRows(r, j))
           c == ChunkOf(r)
<1>2. n \in Nat /\ c \in Nat \ {0}
  BY RowsOfJob, ChunkType
<1>3. PICK lo \in Starts(n, c) : t = [job |-> j, lo |-> lo, hi |-> ChunkEnd(lo, c, n)]
  BY <1>1 DEF JobTasks
<1>4. j \in Nat
  BY DEF Jobs
<1> HIDE DEF n, c
<1>5. lo \in 1..n
  BY DEF Starts
<1>6. ChunkEnd(lo, c, n) \in lo..n
  BY <1>2, <1>5 DEF ChunkEnd, Min2
<1>. QED
  BY <1>2, <1>3, <1>4, <1>5, <1>6 DEF TaskSet, n, c

\* Two tasks of a call have no row in common.
LEMMA TasksApart ==
  ASSUME NEW r \in Requests, NEW t \in Tasks(r), NEW u \in Tasks(r), t # u
  PROVE  Apart(t, u)
<1> DEFINE n == Len(JobRows(r, t.job))
           c == ChunkOf(r)
<1>1. CASE t.job # u.job
  BY <1>1 DEF Apart
<1>2. CASE t.job = u.job
  <2>1. /\ t \in TaskSet /\ t.lo \in Starts(n, c) /\ t.hi = ChunkEnd(t.lo, c, n)
        /\ u \in TaskSet /\ u.lo \in Starts(n, c) /\ u.hi = ChunkEnd(u.lo, c, n)
        /\ n \in Nat /\ c \in Nat \ {0}
    BY <1>2, TaskFacts, RowsOfJob, ChunkType
  <2> HIDE DEF n, c
  <2>2. t.lo # u.lo
    BY <1>2, <2>1 DEF TaskSet
  <2>3. t.lo \in Nat /\ u.lo \in Nat
    BY <2>1 DEF TaskSet
  <2>4. t.lo + c <= u.lo \/ u.lo + c <= t.lo
    BY <2>1, <2>2, <2>3, StartsApart
  <2>. QED
    BY <2>1, <2>3, <2>4 DEF Apart, ChunkEnd, Min2
<1>. QED
  BY <1>1, <1>2

\* Every row of a job is some task's.
LEMMA RowsCovered ==
  ASSUME NEW r \in Requests, NEW j \in Jobs(r), NEW i \in 1..Len(JobRows(r, j))
  PROVE  \E t \in Tasks(r) : t.job = j /\ i \in t.lo..t.hi
<1> DEFINE n == Len(JobRows(r, j))
           c == ChunkOf(r)
<1>1. n \in Nat /\ c \in Nat \ {0}
  BY RowsOfJob, ChunkType
<1>2. PICK lo \in Starts(n, c) : lo <= i /\ i <= lo + c - 1
  BY <1>1, StartBefore
<1> DEFINE t == [job |-> j, lo |-> lo, hi |-> ChunkEnd(lo, c, n)]
<1>3. t \in Tasks(r)
  BY DEF Tasks, JobTasks
<1>4. i \in t.lo..t.hi
  <2> HIDE DEF n, c
  <2>1. lo \in Nat /\ i \in 1..n
    BY DEF Starts, n
  <2>. QED
    BY <1>1, <1>2, <2>1 DEF ChunkEnd, Min2
<1>. QED
  BY <1>3, <1>4

-----------------------------------------------------------------------------
(* The invariant *)

LEMMA InitInv == Init => DiskInv
<1> SUFFICES ASSUME Init PROVE DiskInv
  OBVIOUS
<1>1. DOMAIN futs = {} /\ Len(futs) = 0 /\ futs \in Seq(FutSet)
  BY EmptySeq DEF Init
<1>2. \A t \in 1..Tables : \A x \in RowStart..(RowEnd - 1) : x \in holds[t]
  <2>1. PICK copy \in [1..Tables -> Copies] :
          holds = [t \in 1..Tables |-> Present(copy[t])]
    BY DEF Init
  <2>2. ASSUME NEW c \in Copies, NEW x \in RowStart..(RowEnd - 1)
        PROVE  x \in Present(c)
    <3>1. c.lo \in Nat /\ c.hi \in Nat
      BY DEF Copies
    <3>. QED
      BY <3>1 DEF Present, Covers, RowEnd
  <2>. QED
    BY <2>1, <2>2
<1>3. \A th \in Threads : cur[th].task = NoTask
  BY DEF Init
<1>4. DiskTypes
  BY <1>1, <1>2 DEF Init, DiskTypes, NoTask
<1>. QED
  BY <1>1, <1>3, <1>4
     DEF Init, DiskInv, LoHi, InFlight, FutsApart, CallTasks, Awaited, BufShape, Filled, RowsComplete

\* A call begins: what the pool still holds is of earlier ones.
LEMMA GatherKeeps ==
  ASSUME DiskInv, NEW r \in Requests, Gather(r)
  PROVE  DiskInv'
<1> USE DEF DiskInv
<1>1. /\ calls \in Nat /\ calls' = calls + 1 /\ UNCHANGED <<holds, futs, cur>>
      /\ req' = r /\ todo' = Tasks(r) /\ waiting' = Len(futs) + 1
      /\ pc' \in {"submit", "wait"} /\ (pc' = "wait" => Tasks(r) = {})
      /\ Len(futs) \in Nat /\ DOMAIN futs = 1..Len(futs)
  BY LenProperties DEF Gather, DiskTypes
<1>2. \A f \in DOMAIN futs : futs[f].call \in 1..calls /\ futs[f].call # calls'
  BY <1>1 DEF DiskTypes
<1>3. DiskTypes'
  BY <1>1, <1>2 DEF DiskTypes
<1>4. InFlight' /\ FutsApart' /\ LoHi'
  BY <1>1 DEF InFlight, FutsApart, LoHi
<1>5. CallTasks'
  BY <1>1, <1>2 DEF CallTasks
<1>6. Awaited'
  BY <1>1, <1>2 DEF Awaited
<1>7. BufShape'
  BY <1>1 DEF Gather, NewBuffers, BufShape, Bytes
<1>8. Filled'
  BY <1>1, <1>2 DEF Filled, InFlight
<1>9. RowsComplete'
  BY <1>1 DEF RowsComplete
<1>. QED
  BY <1>3, <1>4, <1>5, <1>6, <1>7, <1>8, <1>9

LEMMA SubmitKeeps ==
  ASSUME DiskInv, Submit
  PROVE  DiskInv'
<1> USE DEF DiskInv
<1>1. PICK t \in todo :
        /\ futs' = Append(futs, [call |-> calls, task |-> t, state |-> "queued"])
        /\ todo' = todo \ {t}
        /\ pc' = IF todo = {t} THEN "wait" ELSE "submit"
  BY DEF Submit
<1> DEFINE new == [call |-> calls, task |-> t, state |-> "queued"]
<1>2. /\ pc = "submit" /\ UNCHANGED <<holds, calls, req, waiting, cur, bufs, out>>
      /\ calls \in Nat /\ req \in Requests /\ t \in Tasks(req)
  BY DEF Submit, DiskTypes, CallTasks
<1>3. calls \in 1..calls
  <2>1. CASE calls = 0
    BY <1>2, <2>1 DEF DiskTypes
  <2>. QED
    BY <1>2, <2>1
<1>4. new \in FutSet
  BY <1>2, TaskFacts DEF FutSet
<1>5. /\ Len(futs) \in Nat /\ DOMAIN futs = 1..Len(futs)
      /\ futs' \in Seq(FutSet) /\ Len(futs') = Len(futs) + 1
      /\ DOMAIN futs' = 1..(Len(futs) + 1)
      /\ \A f \in DOMAIN futs : futs'[f] = futs[f]
      /\ futs'[Len(futs) + 1] = new
  <2>1. futs \in Seq(FutSet)
    BY DEF DiskTypes
  <2>. QED
    BY <1>1, <1>4, <2>1, AppendProperties, LenProperties
<1> HIDE DEF new
<1>6. new.call = calls /\ new.task = t /\ new.state = "queued"
  BY DEF new
<1>7. DiskTypes'
  <2>1. ASSUME NEW f \in DOMAIN futs' PROVE futs'[f].call \in 1..calls'
    <3>1. CASE f \in DOMAIN futs
      BY <1>2, <1>5, <3>1 DEF DiskTypes
    <3>2. CASE f = Len(futs) + 1
      BY <1>2, <1>3, <1>5, <1>6, <3>2
    <3>. QED
      BY <1>5, <3>1, <3>2
  <2>2. pc' \in {"submit", "wait"} /\ calls' # 0
    BY <1>1, <1>2, <1>3
  <2>3. UNCHANGED <<holds, calls, req, waiting, cur>> /\ futs' \in Seq(FutSet)
    BY <1>2, <1>5
  <2>4. req' \in Requests
    BY <1>2
  <2>. QED
    BY <2>1, <2>2, <2>3, <2>4 DEF DiskTypes
<1>8. InFlight' /\ LoHi'
  <2>1. t.lo <= t.hi
    BY <1>2, TaskFacts
  <2>2. LoHi'
    BY <1>5, <1>6, <2>1 DEF LoHi
  <2>3. ASSUME NEW th \in Threads, cur[th].task # NoTask
        PROVE  cur[th].task \in DOMAIN futs' /\ futs'[cur[th].task] = futs[cur[th].task]
    BY <1>5, <2>3 DEF InFlight
  <2>4. InFlight'
    BY <1>2, <2>3 DEF InFlight
  <2>. QED
    BY <2>2, <2>4
<1>9. FutsApart'
  <2>1. ASSUME NEW f \in DOMAIN futs, futs[f].call = calls
        PROVE  Apart(futs[f].task, t) /\ Apart(t, futs[f].task)
    <3>1. futs[f].task \in Tasks(req) /\ futs[f].task # t
      BY <1>2, <2>1 DEF CallTasks
    <3>. QED
      BY <1>2, <3>1, TasksApart
  <2>2. ASSUME NEW f \in DOMAIN futs', NEW g \in DOMAIN futs',
               f # g, futs'[f].call = futs'[g].call
        PROVE  Apart(futs'[f].task, futs'[g].task)
    <3>1. CASE f \in DOMAIN futs /\ g \in DOMAIN futs
      BY <1>5, <2>2, <3>1 DEF FutsApart
    <3>2. CASE f \in DOMAIN futs /\ g = Len(futs) + 1
      BY <1>5, <1>6, <2>1, <2>2, <3>2
    <3>3. CASE g \in DOMAIN futs /\ f = Len(futs) + 1
      BY <1>5, <1>6, <2>1, <2>2, <3>3
    <3>. QED
      BY <1>5, <2>2, <3>1, <3>2, <3>3
  <2>. QED
    BY <2>2 DEF FutsApart, Apart
<1>10. CallTasks'
  <2>1. /\ todo' \subseteq Tasks(req') /\ (pc' # "submit" => todo' = {})
    BY <1>1, <1>2 DEF CallTasks
  <2>2. ASSUME NEW f \in DOMAIN futs', futs'[f].call = calls'
        PROVE  futs'[f].task \in Tasks(req') /\ futs'[f].task \notin todo'
    <3>1. CASE f \in DOMAIN futs
      BY <1>1, <1>2, <1>5, <2>2, <3>1 DEF CallTasks
    <3>2. CASE f = Len(futs) + 1
      BY <1>1, <1>2, <1>5, <1>6, <3>2
    <3>. QED
      BY <1>5, <3>1, <3>2
  <2>3. ASSUME NEW u \in Tasks(req'), u \notin todo'
        PROVE  \E f \in DOMAIN futs' : futs'[f].call = calls' /\ futs'[f].task = u
    <3>1. CASE u = t
      <4>1. Len(futs) + 1 \in DOMAIN futs'
        BY <1>5
      <4>. QED
        BY <1>2, <1>5, <1>6, <3>1, <4>1
    <3>2. CASE u # t
      <4>1. PICK f \in DOMAIN futs : futs[f].call = calls /\ futs[f].task = u
        BY <1>1, <1>2, <2>3, <3>2 DEF CallTasks
      <4>. QED
        BY <1>2, <1>5, <4>1
    <3>. QED
      BY <3>1, <3>2
  <2>. QED
    BY <2>1, <2>2, <2>3 DEF CallTasks
<1>11. Awaited'
  BY <1>1, <1>2, <1>5 DEF Awaited, DiskTypes
<1>12. BufShape'
  BY <1>2 DEF BufShape
<1>13. Filled'
  <2>1. ASSUME NEW f \in DOMAIN futs', futs'[f].call = calls', futs'[f].state = "done"
        PROVE  f \in DOMAIN futs /\ futs'[f] = futs[f]
    BY <1>5, <1>6, <2>1
  <2>2. ASSUME NEW th \in Threads, cur'[th].task # NoTask
        PROVE  cur'[th] = cur[th] /\ futs'[cur[th].task] = futs[cur[th].task]
    BY <1>2, <1>5, <2>2 DEF InFlight
  <2>. QED
    BY <1>2, <2>1, <2>2 DEF Filled
<1>14. RowsComplete'
  BY <1>1 DEF RowsComplete
<1>. QED
  BY <1>7, <1>8, <1>9, <1>10, <1>11, <1>12, <1>13, <1>14

LEMMA WaitKeeps ==
  ASSUME DiskInv, AwaitNext \/ Raise
  PROVE  DiskInv'
<1> USE DEF DiskInv
<1>1. /\ UNCHANGED <<holds, calls, req, todo, futs, cur, bufs, out>>
      /\ pc = "wait" /\ pc' \in {"wait", "raised"}
      /\ Len(futs) \in Nat /\ DOMAIN futs = 1..Len(futs) /\ waiting \in Nat
  BY LenProperties DEF AwaitNext, Raise, DiskTypes
<1>2. waiting' \in Nat /\ Awaited'
  BY <1>1 DEF AwaitNext, Raise, Awaited
<1>3. DiskTypes'
  BY <1>1, <1>2 DEF DiskTypes
<1>4. InFlight' /\ FutsApart' /\ LoHi' /\ BufShape' /\ RowsComplete'
  BY <1>1 DEF InFlight, FutsApart, LoHi, BufShape, RowsComplete
<1>5. CallTasks'
  BY <1>1 DEF CallTasks
<1>6. Filled'
  BY <1>1 DEF Filled
<1>. QED
  BY <1>2, <1>3, <1>4, <1>5, <1>6

\* What ending or beginning a task does to the futures.
LEMMA StateSet ==
  ASSUME DiskTypes, NEW x \in DOMAIN futs, NEW v \in {"running", "done", "failed"},
         futs' = [futs EXCEPT ![x].state = v]
  PROVE  /\ futs' \in Seq(FutSet) /\ Len(futs') = Len(futs) /\ Len(futs) \in Nat
         /\ DOMAIN futs' = DOMAIN futs /\ DOMAIN futs = 1..Len(futs)
         /\ \A f \in DOMAIN futs :
              /\ futs'[f].call = futs[f].call /\ futs'[f].task = futs[f].task
              /\ futs'[f].state = IF f = x THEN v ELSE futs[f].state
<1>1. /\ futs \in [1..Len(futs) -> FutSet] /\ Len(futs) \in Nat
      /\ DOMAIN futs = 1..Len(futs)
  BY LenProperties DEF DiskTypes
<1>2. \A f \in DOMAIN futs :
        /\ futs'[f].call = futs[f].call /\ futs'[f].task = futs[f].task
        /\ futs'[f].state = IF f = x THEN v ELSE futs[f].state
  BY <1>1 DEF FutSet
<1>3. futs' \in [1..Len(futs) -> FutSet]
  BY <1>1 DEF FutSet
<1>4. futs' \in Seq(FutSet)
  BY <1>1, <1>3, SeqDef
<1>5. Len(futs') = Len(futs)
  BY <1>1, <1>3, <1>4, LenProperties
<1>. QED
  BY <1>1, <1>2, <1>3, <1>4, <1>5

\* Every step of the pool keeps what is said of futures and the caller.
LEMMA PoolFrame ==
  ASSUME DiskInv, UNCHANGED <<holds, caller>>,
         cur' \in [Threads -> [task : Nat, row : Nat, got : Nat]],
         NEW x \in DOMAIN futs, NEW v \in {"running", "done", "failed"},
         futs[x].state # "done",
         futs' = [futs EXCEPT ![x].state = v]
  PROVE  DiskTypes' /\ LoHi' /\ FutsApart' /\ CallTasks' /\ Awaited' /\ RowsComplete'
<1> USE DEF DiskInv
<1>1. /\ futs' \in Seq(FutSet) /\ Len(futs') = Len(futs) /\ Len(futs) \in Nat
      /\ DOMAIN futs' = DOMAIN futs /\ DOMAIN futs = 1..Len(futs)
      /\ \A f \in DOMAIN futs :
           /\ futs'[f].call = futs[f].call /\ futs'[f].task = futs[f].task
           /\ futs'[f].state = IF f = x THEN v ELSE futs[f].state
  BY StateSet
<1>2. UNCHANGED <<holds, pc, calls, req, todo, waiting, out>>
  BY DEF caller
<1>3. DiskTypes'
  BY <1>1, <1>2 DEF DiskTypes
<1>4. FutsApart' /\ LoHi'
  BY <1>1 DEF FutsApart, LoHi
<1>5. CallTasks'
  BY <1>1, <1>2 DEF CallTasks
<1>6. Awaited'
  BY <1>1, <1>2 DEF Awaited
<1>7. RowsComplete'
  BY <1>2 DEF RowsComplete
<1>. QED
  BY <1>3, <1>4, <1>5, <1>6, <1>7

LEMMA TakeKeeps ==
  ASSUME DiskInv, NEW th \in Threads, Take(th)
  PROVE  DiskInv'
<1> USE DEF DiskInv
<1>1. PICK x \in DOMAIN futs :
        /\ futs[x].state = "queued"
        /\ futs' = [futs EXCEPT ![x].state = "running"]
        /\ cur' = [cur EXCEPT ![th] = [task |-> x, row |-> futs[x].task.lo, got |-> 0]]
  BY DEF Take
<1>2. cur[th].task = NoTask /\ UNCHANGED <<holds, caller, bufs>>
  BY DEF Take
<1>3. /\ futs' \in Seq(FutSet) /\ Len(futs') = Len(futs) /\ Len(futs) \in Nat
      /\ DOMAIN futs' = DOMAIN futs /\ DOMAIN futs = 1..Len(futs)
      /\ \A f \in DOMAIN futs :
           /\ futs'[f].call = futs[f].call /\ futs'[f].task = futs[f].task
           /\ futs'[f].state = IF f = x THEN "running" ELSE futs[f].state
  BY <1>1, StateSet
<1>4. futs[x] \in FutSet /\ x \in Nat
  BY <1>3, ElementOfSeq DEF DiskTypes
<1>5. /\ cur' \in [Threads -> [task : Nat, row : Nat, got : Nat]]
      /\ cur'[th] = [task |-> x, row |-> futs[x].task.lo, got |-> 0]
      /\ \A b \in Threads : b # th => cur'[b] = cur[b]
  BY <1>1, <1>4 DEF DiskTypes, FutSet, TaskSet
<1>6. DiskTypes' /\ LoHi' /\ FutsApart' /\ CallTasks' /\ Awaited' /\ RowsComplete'
  BY <1>1, <1>2, <1>5, PoolFrame
<1>7. futs[x].task.lo \in futs[x].task.lo..futs[x].task.hi
  BY <1>4 DEF LoHi, FutSet, TaskSet
<1>8. InFlight'
  <2>1. \A b \in Threads : b # th /\ cur[b].task # NoTask => cur[b].task # x
    BY <1>1 DEF InFlight
  <2>2. ASSUME NEW b \in Threads, cur'[b].task # NoTask
        PROVE  /\ cur'[b].task \in DOMAIN futs'
               /\ futs'[cur'[b].task].state = "running"
               /\ cur'[b].row \in futs'[cur'[b].task].task.lo..futs'[cur'[b].task].task.hi
    <3>1. CASE b = th
      BY <1>3, <1>5, <1>7, <3>1
    <3>2. CASE b # th
      <4>1. cur'[b] = cur[b]
        BY <1>5, <3>2
      <4>2. /\ cur[b].task \in DOMAIN futs /\ cur[b].task # x
            /\ futs[cur[b].task].state = "running"
            /\ cur[b].row \in futs[cur[b].task].task.lo..futs[cur[b].task].task.hi
        BY <2>1, <2>2, <3>2, <4>1 DEF InFlight
      <4>. QED
        BY <1>3, <4>1, <4>2
    <3>. QED
      BY <3>1, <3>2
  <2>3. ASSUME NEW a \in Threads, NEW b \in Threads, a # b, cur'[a].task # NoTask
        PROVE  cur'[a].task # cur'[b].task
    <3>1. x # NoTask
      BY <1>3 DEF NoTask
    <3>2. CASE a = th
      <4>1. cur'[a].task = x /\ cur'[b] = cur[b]
        BY <1>5, <2>3, <3>2
      <4>. QED
        BY <2>1, <2>3, <3>1, <3>2, <4>1
    <3>3. CASE b = th
      <4>1. cur'[b].task = x /\ cur'[a] = cur[a]
        BY <1>5, <2>3, <3>3
      <4>. QED
        BY <2>1, <2>3, <3>3, <4>1
    <3>4. CASE a # th /\ b # th
      <4>1. cur'[b] = cur[b] /\ cur'[a] = cur[a]
        BY <1>5, <3>4
      <4>. QED
        BY <2>3, <4>1 DEF InFlight
    <3>. QED
      BY <3>2, <3>3, <3>4
  <2>. QED
    BY <2>2, <2>3 DEF InFlight
<1>9. UNCHANGED <<holds, pc, calls, req, bufs>>
  BY <1>2 DEF caller
<1>10. BufShape'
  BY <1>9 DEF BufShape
<1>11. Filled'
  <2>1. ASSUME NEW f \in DOMAIN futs', futs'[f].call = calls', futs'[f].state = "done"
        PROVE  \A i \in futs'[f].task.lo..futs'[f].task.hi :
                 RowFull(bufs', holds', req', futs'[f].task.job, i)
    BY <1>3, <1>9, <2>1 DEF Filled
  <2>2. ASSUME NEW b \in Threads, cur'[b].task # NoTask, futs'[cur'[b].task].call = calls'
        PROVE  LET t == futs'[cur'[b].task].task
               IN  /\ \A i \in t.lo..(cur'[b].row - 1) :
                        RowFull(bufs', holds', req', t.job, i)
                   /\ RowHead(bufs', holds', req', t.job, cur'[b].row, cur'[b].got)
    <3>1. CASE b = th
      <4>1. \A i : i \notin futs[x].task.lo..(futs[x].task.lo - 1) /\ i \notin 0..(0 - 1)
        BY <1>4 DEF FutSet, TaskSet
      <4>2. /\ cur'[b].row = futs[x].task.lo /\ cur'[b].got = 0
            /\ futs'[cur'[b].task].task = futs[x].task
        BY <1>3, <1>5, <3>1
      <4>3. \A j, i : RowHead(bufs', holds', req', j, i, 0)
        BY DEF RowHead
      <4>. QED
        BY <4>1, <4>2, <4>3
    <3>2. CASE b # th
      <4>1. cur'[b] = cur[b] /\ cur[b].task \in DOMAIN futs
        BY <1>5, <2>2, <3>2 DEF InFlight
      <4>. QED
        BY <1>3, <1>9, <2>2, <4>1 DEF Filled
    <3>. QED
      BY <3>1, <3>2
  <2>. QED
    BY <2>1, <2>2 DEF Filled
<1>. QED
  BY <1>6, <1>8, <1>10, <1>11

LEMMA FailKeeps ==
  ASSUME DiskInv, NEW th \in Threads, ReadFails(th)
  PROVE  DiskInv'
<1> USE DEF DiskInv
<1> DEFINE x == cur[th].task
<1>1. /\ x \in DOMAIN futs /\ futs[x].state = "running"
      /\ UNCHANGED <<holds, caller, bufs>>
      /\ futs' = [futs EXCEPT ![x].state = "failed"]
      /\ cur' = [cur EXCEPT ![th] = [task |-> NoTask, row |-> 0, got |-> 0]]
  BY DEF ReadFails, InFlight
<1> HIDE DEF x
<1>3. /\ futs' \in Seq(FutSet) /\ Len(futs') = Len(futs) /\ Len(futs) \in Nat
      /\ DOMAIN futs' = DOMAIN futs /\ DOMAIN futs = 1..Len(futs)
      /\ \A f \in DOMAIN futs :
           /\ futs'[f].call = futs[f].call /\ futs'[f].task = futs[f].task
           /\ futs'[f].state = IF f = x THEN "failed" ELSE futs[f].state
  BY <1>1, StateSet
<1>5. /\ cur' \in [Threads -> [task : Nat, row : Nat, got : Nat]]
      /\ cur'[th].task = NoTask
      /\ \A b \in Threads : b # th => cur'[b] = cur[b]
  BY <1>1 DEF DiskTypes, NoTask
<1>6. DiskTypes' /\ LoHi' /\ FutsApart' /\ CallTasks' /\ Awaited' /\ RowsComplete'
  BY <1>1, <1>5, PoolFrame
<1>8. InFlight'
  <2>1. \A b \in Threads : b # th /\ cur[b].task # NoTask => cur[b].task # x
    BY <1>1 DEF InFlight, x
  <2>2. ASSUME NEW b \in Threads, cur'[b].task # NoTask
        PROVE  /\ cur'[b].task \in DOMAIN futs'
               /\ futs'[cur'[b].task].state = "running"
               /\ cur'[b].row \in futs'[cur'[b].task].task.lo..futs'[cur'[b].task].task.hi
    <3>1. b # th /\ cur'[b] = cur[b]
      BY <1>5, <2>2
    <3>2. /\ cur[b].task \in DOMAIN futs /\ cur[b].task # x
          /\ futs[cur[b].task].state = "running"
          /\ cur[b].row \in futs[cur[b].task].task.lo..futs[cur[b].task].task.hi
      BY <2>1, <2>2, <3>1 DEF InFlight
    <3>. QED
      BY <1>3, <3>1, <3>2
  <2>3. ASSUME NEW a \in Threads, NEW b \in Threads, a # b, cur'[a].task # NoTask
        PROVE  cur'[a].task # cur'[b].task
    <3>1. a # th /\ cur'[a] = cur[a]
      BY <1>5, <2>3
    <3>2. CASE b = th
      BY <1>5, <2>3, <3>2
    <3>3. CASE b # th
      <4>1. cur'[b] = cur[b]
        BY <1>5, <3>3
      <4>. QED
        BY <2>3, <3>1, <4>1 DEF InFlight
    <3>. QED
      BY <3>2, <3>3
  <2>. QED
    BY <2>2, <2>3 DEF InFlight
<1>9. UNCHANGED <<holds, pc, calls, req, bufs>>
  BY <1>1 DEF caller
<1>10. BufShape'
  BY <1>9 DEF BufShape
<1>11. Filled'
  <2>1. ASSUME NEW f \in DOMAIN futs', futs'[f].call = calls', futs'[f].state = "done"
        PROVE  \A i \in futs'[f].task.lo..futs'[f].task.hi :
                 RowFull(bufs', holds', req', futs'[f].task.job, i)
    BY <1>3, <1>9, <2>1 DEF Filled
  <2>2. ASSUME NEW b \in Threads, cur'[b].task # NoTask, futs'[cur'[b].task].call = calls'
        PROVE  LET t == futs'[cur'[b].task].task
               IN  /\ \A i \in t.lo..(cur'[b].row - 1) :
                        RowFull(bufs', holds', req', t.job, i)
                   /\ RowHead(bufs', holds', req', t.job, cur'[b].row, cur'[b].got)
    <3>1. b # th /\ cur'[b] = cur[b] /\ cur[b].task \in DOMAIN futs
      BY <1>5, <2>2 DEF InFlight
    <3>. QED
      BY <1>3, <1>9, <2>2, <3>1 DEF Filled
  <2>. QED
    BY <2>1, <2>2 DEF Filled
<1>. QED
  BY <1>6, <1>8, <1>10, <1>11

\* What is said of a row depends on that row of the buffers alone.
LEMMA RowSame ==
  ASSUME NEW b, NEW c, NEW h, NEW r, NEW j, NEW i, NEW n, c[j][i] = b[j][i]
  PROVE  /\ RowFull(b, h, r, j, i) => RowFull(c, h, r, j, i)
         /\ RowHead(b, h, r, j, i, n) => RowHead(c, h, r, j, i, n)
  BY DEF RowFull, RowHead, Right

LEMMA RowBytesType == ASSUME NEW j PROVE RowBytes(j) \in Nat \ {0}
  BY DEF RowBytes

\* A task of the call in progress is one of the request's, with its rows.
LEMMA TaskOfCall ==
  ASSUME DiskInv, NEW f \in DOMAIN futs, futs[f].call = calls
  PROVE  /\ pc # "idle" /\ req \in Requests
         /\ futs[f].task \in Tasks(req) /\ futs[f].task.job \in Jobs(req)
         /\ futs[f].task.lo..futs[f].task.hi \subseteq 1..Len(JobRows(req, futs[f].task.job))
         /\ futs[f].task.lo \in Nat /\ futs[f].task.hi \in Nat
<1> USE DEF DiskInv
<1>1. calls \in 1..calls /\ calls \in Nat
  BY DEF DiskTypes
<1>2. pc # "idle" /\ req \in Requests
  BY <1>1 DEF DiskTypes
<1>3. futs[f].task \in Tasks(req)
  BY <1>2 DEF CallTasks
<1> DEFINE t == futs[f].task
<1>4. /\ t \in TaskSet /\ t.job \in Jobs(req)
      /\ 1 <= t.lo /\ t.lo <= t.hi /\ t.hi <= Len(JobRows(req, t.job))
  BY <1>2, <1>3, TaskFacts
<1>5. Len(JobRows(req, t.job)) \in Nat
  BY <1>2, <1>4, RowsOfJob
<1> HIDE DEF t
<1>6. /\ t.lo..t.hi \subseteq 1..Len(JobRows(req, t.job))
      /\ t.lo \in Nat /\ t.hi \in Nat
  BY <1>4, <1>5 DEF TaskSet
<1>. QED
  BY <1>2, <1>3, <1>4, <1>6 DEF t

\* From b to c, only row i of job j changed; its n bytes from g on are the
\* file's and the others are as they were.
OnlyRow(b, c, r, j, i) ==
  \A jj \in Jobs(r) : \A ii \in 1..Len(JobRows(r, jj)) :
    jj # j \/ ii # i => c[jj][ii] = b[jj][ii]
AddsBytes(b, c, h, r, j, i, g, n) ==
  c[j][i] = [k \in Bytes(j) |-> IF k \in g..(g + n - 1)
                                THEN FileByte(h, r, j, Offset(r, j, i, k))
                                ELSE b[j][i][k]]

\* A read of a task of the call in progress changes the row it is at, and
\* nothing else of the buffers.
LEMMA PreadvWrites ==
  ASSUME DiskInv, NEW th \in Threads, NEW n \in Nat, Preadv(th, n),
         NEW x, NEW j, NEW i, NEW g,
         x = cur[th].task, j = futs[x].task.job, i = cur[th].row, g = cur[th].got,
         futs[x].call = calls
  PROVE  /\ j \in Jobs(req) /\ i \in 1..Len(JobRows(req, j))
         /\ OnlyRow(bufs, bufs', req, j, i)
         /\ AddsBytes(bufs, bufs', holds, req, j, i, g, n)
         /\ BufShape'
<1> USE DEF DiskInv
<1>1. x \in DOMAIN futs /\ i \in futs[x].task.lo..futs[x].task.hi
  BY DEF Preadv, InFlight
<1>2. pc # "idle" /\ j \in Jobs(req) /\ i \in 1..Len(JobRows(req, j))
  BY <1>1, TaskOfCall
<1>3. /\ bufs = [jj \in Jobs(req) |-> bufs[jj]]
      /\ \A jj \in Jobs(req) :
           /\ bufs[jj] = [ii \in 1..Len(JobRows(req, jj)) |-> bufs[jj][ii]]
           /\ \A ii \in 1..Len(JobRows(req, jj)) :
                bufs[jj][ii] = [k \in Bytes(jj) |-> bufs[jj][ii][k]]
  BY <1>2 DEF BufShape
<1> DEFINE New == [k \in Bytes(j) |-> IF k \in g..(g + n - 1)
                                      THEN FileByte(holds, req, j, Offset(req, j, i, k))
                                      ELSE bufs[j][i][k]]
           Old == bufs[j][i]
<1>4. DOMAIN Old = Bytes(j)
  <2>1. Old = [k \in Bytes(j) |-> bufs[j][i][k]]
    BY <1>2, <1>3
  <2> HIDE DEF Old
  <2>. QED
    BY <2>1
<1>5. bufs' = [bufs EXCEPT ![j][i] =
                 [k \in DOMAIN @ |-> IF k \in g..(g + n - 1)
                                     THEN FileByte(holds, req, j, Offset(req, j, i, k))
                                     ELSE @[k]]]
  BY DEF Preadv
<1>6. bufs' = [bufs EXCEPT ![j][i] = New]
  BY <1>4, <1>5
<1> HIDE DEF New, Old
<1>7. /\ bufs'[j][i] = New
      /\ \A jj \in Jobs(req) : \A ii \in 1..Len(JobRows(req, jj)) :
           jj # j \/ ii # i => bufs'[jj][ii] = bufs[jj][ii]
      /\ bufs' = [jj \in Jobs(req) |-> bufs'[jj]]
      /\ \A jj \in Jobs(req) : bufs'[jj] = [ii \in 1..Len(JobRows(req, jj)) |-> bufs'[jj][ii]]
  BY <1>2, <1>3, <1>6
<1>8. ASSUME NEW jj \in Jobs(req), NEW ii \in 1..Len(JobRows(req, jj))
      PROVE  bufs'[jj][ii] = [k \in Bytes(jj) |-> bufs'[jj][ii][k]]
  <2>1. CASE jj = j /\ ii = i
    <3>1. New = [k \in Bytes(j) |-> New[k]]
      BY DEF New
    <3>. QED
      BY <1>7, <2>1, <3>1
  <2>2. CASE jj # j \/ ii # i
    BY <1>3, <1>7, <1>8, <2>2
  <2>. QED
    BY <2>1, <2>2
<1>9. UNCHANGED <<pc, req>>
  BY DEF Preadv, caller
<1>10. BufShape'
  BY <1>7, <1>8, <1>9 DEF BufShape
<1>. QED
  BY <1>2, <1>7, <1>10 DEF New, OnlyRow, AddsBytes

LEMMA PreadvShape ==
  ASSUME DiskInv, NEW th \in Threads, NEW n \in Nat, Preadv(th, n),
         futs[cur[th].task].call = calls
  PROVE  BufShape'
  BY PreadvWrites

LEMMA ApartRows ==
  ASSUME NEW t, NEW u, Apart(t, u),
         t.lo \in Nat, t.hi \in Nat, u.lo \in Nat, u.hi \in Nat,
         NEW i \in t.lo..t.hi, NEW p \in u.lo..u.hi
  PROVE  t.job # u.job \/ i # p
  BY DEF Apart

LEMMA RowsBehind ==
  ASSUME NEW lo \in Nat, NEW hi \in Nat, NEW i \in lo..hi, NEW p \in lo..(i - 1)
  PROVE  p # i /\ p \in lo..hi
  OBVIOUS

\* A read keeps every row that another task has filled or is filling.
LEMMA PreadvSpares ==
  ASSUME DiskInv, NEW th \in Threads, NEW n \in Nat, Preadv(th, n),
         NEW x, x = cur[th].task,
         NEW f \in DOMAIN futs, f # x, futs[f].call = calls,
         NEW i \in futs[f].task.lo..futs[f].task.hi
  PROVE  bufs'[futs[f].task.job][i] = bufs[futs[f].task.job][i]
<1>1. CASE futs[x].call # calls
  BY <1>1 DEF Preadv
<1>2. CASE futs[x].call = calls
  <2>1. /\ x \in DOMAIN futs
        /\ cur[th].row \in futs[x].task.lo..futs[x].task.hi
    BY DEF Preadv, InFlight, DiskInv
  <2>2. Apart(futs[f].task, futs[x].task)
    BY <1>2, <2>1 DEF FutsApart, DiskInv
  <2>3. /\ futs[f].task.job \in Jobs(req) /\ i \in 1..Len(JobRows(req, futs[f].task.job))
        /\ futs[f].task.lo \in Nat /\ futs[f].task.hi \in Nat
        /\ futs[x].task.lo \in Nat /\ futs[x].task.hi \in Nat
    BY <1>2, <2>1, TaskOfCall
  <2>4. futs[f].task.job # futs[x].task.job \/ i # cur[th].row
    BY <2>1, <2>2, <2>3, ApartRows
  <2>5. OnlyRow(bufs, bufs', req, futs[x].task.job, cur[th].row)
    BY <1>2, PreadvWrites
  <2>. QED
    BY <2>3, <2>4, <2>5 DEF OnlyRow
<1>. QED
  BY <1>1, <1>2

\* What a read adds to the row it is at.
LEMMA PreadvFills ==
  ASSUME DiskInv, NEW th \in Threads, NEW n \in Nat \ {0}, Preadv(th, n),
         NEW x, NEW j, NEW i, NEW g,
         x = cur[th].task, j = futs[x].task.job, i = cur[th].row, g = cur[th].got,
         futs[x].call = calls
  PROVE  /\ RowHead(bufs', holds', req', j, i, g + n)
         /\ g + n = RowBytes(j) => RowFull(bufs', holds', req', j, i)
         /\ \A p \in futs[x].task.lo..(i - 1) : RowFull(bufs', holds', req', j, p)
<1>1. /\ x \in DOMAIN futs /\ cur[th].task # NoTask /\ g + n <= RowBytes(j)
      /\ UNCHANGED <<holds, req>>
      /\ i \in futs[x].task.lo..futs[x].task.hi
  BY DEF Preadv, InFlight, caller, DiskInv
<1>2. g \in Nat
  BY DEF DiskTypes, DiskInv
<1>3. /\ RowHead(bufs, holds, req, j, i, g)
      /\ \A p \in futs[x].task.lo..(i - 1) : RowFull(bufs, holds, req, j, p)
  BY <1>1 DEF Filled, DiskInv
<1>4. /\ j \in Jobs(req) /\ i \in 1..Len(JobRows(req, j))
      /\ \A ii \in 1..Len(JobRows(req, j)) : ii # i => bufs'[j][ii] = bufs[j][ii]
      /\ bufs'[j][i] = [k \in Bytes(j) |->
                          IF k \in g..(g + n - 1)
                          THEN FileByte(holds, req, j, Offset(req, j, i, k))
                          ELSE bufs[j][i][k]]
  <2>1. n \in Nat
    OBVIOUS
  <2>2. /\ j \in Jobs(req) /\ i \in 1..Len(JobRows(req, j))
        /\ OnlyRow(bufs, bufs', req, j, i)
        /\ AddsBytes(bufs, bufs', holds, req, j, i, g, n)
    BY <2>1, PreadvWrites
  <2>. QED
    BY <2>2 DEF OnlyRow, AddsBytes
<1>5. futs[x].task.lo..futs[x].task.hi \subseteq 1..Len(JobRows(req, j))
      /\ futs[x].task.lo \in Nat /\ futs[x].task.hi \in Nat
  BY <1>1, TaskOfCall
<1>6. RowHead(bufs', holds, req, j, i, g + n)
  <2>1. ASSUME NEW k \in 0..(g + n - 1) PROVE Right(bufs', holds, req, j, i, k)
    <3>1. k \in Bytes(j)
      BY <1>1, <1>2, RowBytesType DEF Bytes
    <3>2. CASE k \in g..(g + n - 1)
      BY <1>4, <3>1, <3>2 DEF Right
    <3>3. CASE k \in 0..(g - 1)
      <4>1. Right(bufs, holds, req, j, i, k) /\ k \notin g..(g + n - 1)
        BY <1>2, <1>3, <3>3 DEF RowHead
      <4>. QED
        BY <1>4, <3>1, <4>1 DEF Right
    <3>. QED
      BY <1>2, <3>2, <3>3
  <2>. QED
    BY <1>2, <2>1 DEF RowHead
<1>7. g + n = RowBytes(j) => RowFull(bufs', holds, req, j, i)
  BY <1>6 DEF RowHead, RowFull, Bytes
<1>8. ASSUME NEW p \in futs[x].task.lo..(i - 1) PROVE RowFull(bufs', holds, req, j, p)
  <2>1. p # i /\ p \in futs[x].task.lo..futs[x].task.hi
    BY <1>1, <1>5, RowsBehind
  <2>2. bufs'[j][p] = bufs[j][p]
    BY <1>4, <1>5, <2>1
  <2>. QED
    BY <1>3, <2>2, RowSame
<1>. QED
  BY <1>1, <1>6, <1>7, <1>8

\* A thread other than the one that steps keeps its task, which is another.
LEMMA OthersApart ==
  ASSUME DiskInv, NEW th \in Threads, cur[th].task # NoTask,
         NEW b \in Threads, b # th, cur[b].task # NoTask
  PROVE  /\ cur[b].task \in DOMAIN futs /\ cur[b].task # cur[th].task
         /\ futs[cur[b].task].state = "running"
         /\ cur[b].row \in futs[cur[b].task].task.lo..futs[cur[b].task].task.hi
  BY DEF DiskInv, InFlight

LEMMA PreadvKeeps ==
  ASSUME DiskInv, NEW th \in Threads, NEW n \in Nat \ {0}, Preadv(th, n)
  PROVE  DiskInv'
<1> DEFINE x == cur[th].task
           t == futs[x].task
           i == cur[th].row
           g == cur[th].got
           full == g + n = RowBytes(t.job)
           last == full /\ i = t.hi
           v == IF last THEN "done" ELSE "running"
<1>1. /\ x \in DOMAIN futs /\ futs[x].state = "running" /\ x # NoTask
      /\ i \in t.lo..t.hi /\ g + n <= RowBytes(t.job) /\ n \in Nat
      /\ UNCHANGED <<holds, caller, errors>>
  BY DEF Preadv, DiskInv, InFlight
<1>2. /\ futs' = [futs EXCEPT ![x].state = IF last THEN "done" ELSE @]
      /\ cur' = [cur EXCEPT ![th] =
               IF last THEN [task |-> NoTask, row |-> 0, got |-> 0]
               ELSE IF full THEN [task |-> x, row |-> i + 1, got |-> 0]
               ELSE [task |-> x, row |-> i, got |-> g + n]]
      /\ futs[x].call # calls => bufs' = bufs
  BY DEF Preadv
<1>3. futs \in Seq(FutSet) /\ futs[x] \in FutSet /\ x \in Nat
      /\ cur \in [Threads -> [task : Nat, row : Nat, got : Nat]]
  BY <1>1, ElementOfSeq, LenProperties DEF DiskInv, DiskTypes
<1>4. futs' = [futs EXCEPT ![x].state = v]
  <2>1. CASE last
    BY <1>2, <2>1
  <2>2. CASE ~last
    <3>1. futs' = [futs EXCEPT ![x].state = @]
      BY <1>2, <2>2
    <3>2. futs[x].state = v
      BY <1>1, <2>2
    <3> HIDE DEF v
    <3>. QED
      BY <3>1, <3>2
  <2>. QED
    BY <2>1, <2>2
<1>5. /\ t.lo \in Nat /\ t.hi \in Nat /\ i \in Nat /\ g \in Nat
      /\ RowBytes(t.job) \in Nat \ {0}
  BY <1>3, RowBytesType DEF FutSet, TaskSet
<1>6. v \in {"running", "done", "failed"}
  OBVIOUS
<1> HIDE DEF v, x
<1>7. \A b \in Threads : b # th => cur'[b] = cur[b]
  BY <1>2, <1>3
<1>8. /\ last => cur'[th] = [task |-> NoTask, row |-> 0, got |-> 0]
      /\ full /\ ~last => cur'[th] = [task |-> x, row |-> i + 1, got |-> 0]
      /\ ~full => cur'[th] = [task |-> x, row |-> i, got |-> g + n]
  <2>1. ~full => ~last
    OBVIOUS
  <2> HIDE DEF i, g, full, last
  <2>. QED
    BY <1>2, <1>3, <2>1
<1>9. cur' \in [Threads -> [task : Nat, row : Nat, got : Nat]]
  <2>1. cur'[th] \in [task : Nat, row : Nat, got : Nat]
    <3>1. i + 1 \in Nat /\ g + n \in Nat /\ NoTask \in Nat
      BY <1>1, <1>5 DEF NoTask
    <3>2. x \in Nat /\ i \in Nat /\ g \in Nat
      BY <1>3, <1>5
    <3>3. (full /\ last) \/ (full /\ ~last) \/ ~full
      OBVIOUS
    <3> HIDE DEF i, g, full, last
    <3>. QED
      BY <1>8, <3>1, <3>2, <3>3
  <2> HIDE DEF i, g, full, last, t
  <2>2. cur' = [cur EXCEPT ![th] = cur'[th]]
    BY <1>2, <1>3
  <2>. QED
    BY <1>3, <2>1, <2>2
<1> HIDE DEF t, i, g, full, last
<1>10. /\ DOMAIN futs' = DOMAIN futs
       /\ \A f \in DOMAIN futs :
            /\ futs'[f].call = futs[f].call /\ futs'[f].task = futs[f].task
            /\ futs'[f].state = IF f = x THEN v ELSE futs[f].state
  BY <1>1, <1>4, <1>6, StateSet DEF DiskInv
<1>11. DiskTypes' /\ LoHi' /\ FutsApart' /\ CallTasks' /\ Awaited' /\ RowsComplete'
  BY <1>1, <1>4, <1>6, <1>9, PoolFrame
<1>12. UNCHANGED <<holds, pc, calls, req>>
  BY <1>1 DEF caller
<1>13. InFlight'
  <2>1. ASSUME NEW b \in Threads, cur'[b].task # NoTask
        PROVE  /\ cur'[b].task \in DOMAIN futs'
               /\ futs'[cur'[b].task].state = "running"
               /\ cur'[b].row \in futs'[cur'[b].task].task.lo..futs'[cur'[b].task].task.hi
               /\ cur'[b].task = cur[b].task
    <3>1. CASE b = th
      <4>1. ~last /\ cur'[th].task = x /\ cur'[th].row \in t.lo..t.hi
        BY <1>1, <1>5, <1>8, <2>1, <3>1 DEF last
      <4>2. futs'[x].state = "running" /\ futs'[x].task = t
        BY <1>1, <1>10, <4>1 DEF v, t
      <4>. QED
        BY <1>1, <1>10, <3>1, <4>1, <4>2 DEF x
    <3>2. CASE b # th
      <4>1. cur'[b] = cur[b] /\ cur[b].task # NoTask
        BY <1>7, <2>1, <3>2
      <4>2. /\ cur[b].task \in DOMAIN futs /\ cur[b].task # x
            /\ futs[cur[b].task].state = "running"
            /\ cur[b].row \in futs[cur[b].task].task.lo..futs[cur[b].task].task.hi
        BY <1>1, <3>2, <4>1, OthersApart DEF x
      <4>. QED
        BY <1>10, <4>1, <4>2
    <3>. QED
      BY <3>1, <3>2
  <2>2. ASSUME NEW a \in Threads, NEW b \in Threads, a # b, cur'[a].task # NoTask
        PROVE  cur'[a].task # cur'[b].task
    <3>1. cur'[a].task = cur[a].task
      BY <2>1, <2>2
    <3>2. cur[a].task # cur[b].task
      BY <2>2, <3>1 DEF DiskInv, InFlight
    <3>3. cur'[b].task = NoTask \/ cur'[b].task = cur[b].task
      BY <2>1
    <3>. QED
      BY <2>2, <3>1, <3>2, <3>3
  <2>. QED
    BY <2>1, <2>2 DEF InFlight
<1>14. BufShape'
  <2>1. CASE futs[x].call = calls
    BY <1>1, <2>1, PreadvShape DEF x
  <2>2. CASE futs[x].call # calls
    <3>1. UNCHANGED <<pc, req, bufs>> /\ BufShape
      BY <1>2, <1>12, <2>2 DEF DiskInv, x
    <3>. QED
      BY <3>1 DEF BufShape
  <2>. QED
    BY <2>1, <2>2
<1>15. Filled'
  <2>0. ASSUME futs[x].call = calls
        PROVE  /\ RowHead(bufs', holds', req', t.job, i, g + n)
               /\ full => RowFull(bufs', holds', req', t.job, i)
               /\ \A p \in t.lo..(i - 1) : RowFull(bufs', holds', req', t.job, p)
    BY <2>0, PreadvFills DEF x, t, i, g, full
  <2>1. ASSUME NEW f \in DOMAIN futs', futs'[f].call = calls', futs'[f].state = "done",
               NEW p \in futs'[f].task.lo..futs'[f].task.hi
        PROVE  RowFull(bufs', holds', req', futs'[f].task.job, p)
    <3>1. CASE f = x
      <4>1. last /\ futs[x].call = calls /\ futs'[f].task = t
        BY <1>1, <1>10, <1>12, <2>1, <3>1 DEF v, t
      <4>2. p = i \/ p \in t.lo..(i - 1)
        BY <1>5, <2>1, <4>1 DEF last
      <4>. QED
        BY <2>0, <4>1, <4>2 DEF last
    <3>2. CASE f # x
      <4>1. /\ f \in DOMAIN futs /\ futs[f].call = calls /\ futs[f].state = "done"
            /\ futs'[f].task = futs[f].task /\ p \in futs[f].task.lo..futs[f].task.hi
        BY <1>10, <1>12, <2>1, <3>2
      <4>2. RowFull(bufs, holds, req, futs[f].task.job, p)
        BY <4>1 DEF DiskInv, Filled
      <4>3. bufs'[futs[f].task.job][p] = bufs[futs[f].task.job][p]
        BY <1>1, <3>2, <4>1, PreadvSpares DEF x
      <4>. QED
        BY <1>12, <4>1, <4>2, <4>3, RowSame
    <3>. QED
      BY <3>1, <3>2
  <2>2. ASSUME NEW b \in Threads, cur'[b].task # NoTask, futs'[cur'[b].task].call = calls'
        PROVE  LET u == futs'[cur'[b].task].task
               IN  /\ \A p \in u.lo..(cur'[b].row - 1) :
                        RowFull(bufs', holds', req', u.job, p)
                   /\ RowHead(bufs', holds', req', u.job, cur'[b].row, cur'[b].got)
    <3>1. CASE b = th
      <4>1. /\ ~last /\ cur'[b].task = x /\ futs'[cur'[b].task].task = t
            /\ futs[x].call = calls
        BY <1>1, <1>8, <1>10, <1>12, <2>2, <3>1 DEF t
      <4>2. CASE full
        <5>1. cur'[b].row = i + 1 /\ cur'[b].got = 0
          BY <1>8, <3>1, <4>1, <4>2
        <5>2. \A p \in t.lo..((i + 1) - 1) : p = i \/ p \in t.lo..(i - 1)
          BY <1>5
        <5>3. RowHead(bufs', holds', req', t.job, i + 1, 0)
          BY DEF RowHead
        <5>. QED
          BY <2>0, <4>1, <4>2, <5>1, <5>2, <5>3
      <4>3. CASE ~full
        <5>1. cur'[b].row = i /\ cur'[b].got = g + n
          BY <1>8, <3>1, <4>3
        <5>. QED
          BY <2>0, <4>1, <5>1
      <4>. QED
        BY <4>2, <4>3
    <3>2. CASE b # th
      <4> DEFINE y == cur[b].task
      <4>1. cur'[b] = cur[b] /\ y # NoTask
        BY <1>7, <2>2, <3>2
      <4>2. /\ y \in DOMAIN futs /\ y # x
            /\ cur[b].row \in futs[y].task.lo..futs[y].task.hi
        BY <1>1, <3>2, <4>1, OthersApart DEF x
      <4>3. futs'[y].task = futs[y].task /\ futs[y].call = calls
        BY <1>10, <1>12, <2>2, <4>1, <4>2
      <4>4. futs[y].task.lo \in Nat /\ futs[y].task.hi \in Nat
        BY <4>2, <4>3, TaskOfCall
      <4>5. /\ \A p \in futs[y].task.lo..(cur[b].row - 1) :
                 RowFull(bufs, holds, req, futs[y].task.job, p)
            /\ RowHead(bufs, holds, req, futs[y].task.job, cur[b].row, cur[b].got)
        BY <4>1, <4>3 DEF DiskInv, Filled
      <4> HIDE DEF y
      <4>6. ASSUME NEW p \in futs[y].task.lo..futs[y].task.hi
            PROVE  bufs'[futs[y].task.job][p] = bufs[futs[y].task.job][p]
        BY <1>1, <4>2, <4>3, PreadvSpares DEF x
      <4>7. RowHead(bufs', holds, req, futs[y].task.job, cur[b].row, cur[b].got)
        BY <4>2, <4>5, <4>6, RowSame
      <4>8. ASSUME NEW p \in futs[y].task.lo..(cur[b].row - 1)
            PROVE  RowFull(bufs', holds, req, futs[y].task.job, p)
        <5>1. p \in futs[y].task.lo..futs[y].task.hi
          BY <4>2, <4>4, RowsBehind
        <5>. QED
          BY <4>5, <4>6, <5>1, RowSame
      <4>. QED
        BY <1>12, <4>1, <4>3, <4>7, <4>8 DEF y
    <3>. QED
      BY <3>1, <3>2
  <2>. QED
    BY <2>1, <2>2 DEF Filled
<1>. QED
  BY <1>11, <1>13, <1>14, <1>15 DEF DiskInv

\* An offset within a row lies in that row.
LEMMA RowOfOffset ==
  ASSUME NEW d \in Nat \ {0}, NEW q \in Nat, NEW k \in 0..(d - 1)
  PROVE  (q * d + k) \div d = q
<1> DEFINE p == q * d + k
<1>1. p \in Nat
  <2>1. q * d \in Nat
    OBVIOUS
  <2>. QED
    BY <2>1
<1> DEFINE e == p \div d
           m == p % d
<1>2. e \in Nat /\ m \in 0..(d - 1) /\ p = e * d + m
  BY <1>1, DivMod
<1>3. q * d \in Nat /\ e * d \in Nat /\ p = q * d + k
  BY <1>2
<1> HIDE DEF p, e, m
<1>4. ~(e < q)
  <2>1. SUFFICES ASSUME e < q PROVE FALSE
    OBVIOUS
  <2>2. e * d + d <= q * d
    BY <1>2, <2>1, NextMultiple
  <2>. QED
    BY <1>2, <1>3, <2>2
<1>5. ~(q < e)
  <2>1. SUFFICES ASSUME q < e PROVE FALSE
    OBVIOUS
  <2>2. q * d + d <= e * d
    BY <1>2, <2>1, NextMultiple
  <2>. QED
    BY <1>2, <1>3, <2>2
<1>6. e = q
  BY <1>2, <1>4, <1>5
<1>. QED
  BY <1>6 DEF e, p

\* When every task was waited for, a row of the buffers is the table's row.
LEMMA RowRead ==
  ASSUME DiskInv, pc = "wait", waiting > Len(futs),
         NEW j \in Jobs(req), NEW p \in 1..Len(JobRows(req, j)),
         NEW id \in Int, Owned(id), JobRows(req, j)[p] = Rel(id)
  PROVE  bufs[j][p] = FileRow(req[AskOf(j)].table, id, RowBytes(j))
<1> DEFINE table == req[AskOf(j)].table
           d == RowBytes(j)
<1>1. req \in Requests /\ waiting \in Nat /\ futs \in Seq(FutSet)
  BY DEF DiskInv, DiskTypes
<1>2. Len(futs) \in Nat /\ DOMAIN futs = 1..Len(futs)
  BY <1>1, LenProperties
<1>3. table \in 1..Tables
  <2>1. req \in Seq([table : 1..Tables, ids : Seq(-1..FileRows)])
    BY <1>1, RequestAssumption
  <2>2. req[AskOf(j)] \in [table : 1..Tables, ids : Seq(-1..FileRows)]
    <3>1. AskOf(j) \in DOMAIN req
      BY <1>1, RowsOfJob
    <3>2. DOMAIN req = 1..Len(req)
      BY <2>1, LenProperties
    <3>. QED
      BY <2>1, <3>1, <3>2, ElementOfSeq
  <2>. QED
    BY <2>2
<1>4. PICK t \in Tasks(req) : t.job = j /\ p \in t.lo..t.hi
  BY <1>1, RowsCovered
<1>5. PICK f \in DOMAIN futs : futs[f].call = calls /\ futs[f].task = t
  BY DEF DiskInv, CallTasks
<1>6. futs[f].state = "done"
  BY <1>1, <1>2, <1>5 DEF DiskInv, Awaited
<1>7. RowFull(bufs, holds, req, j, p)
  BY <1>4, <1>5, <1>6 DEF DiskInv, Filled
<1>8. bufs[j][p] = [k \in Bytes(j) |-> bufs[j][p][k]]
  BY DEF DiskInv, BufShape
<1>9. /\ id \in RowStart..(RowEnd - 1) /\ id \in Nat /\ Rel(id) = id - RowStart
      /\ RowStart \in Nat
  BY DEF Owned, Rel, RowEnd
<1>10. id \in holds[table]
  BY <1>3, <1>9 DEF DiskInv, DiskTypes
<1>11. d \in Nat \ {0}
  BY RowBytesType
<1> HIDE DEF table
<1>12. ASSUME NEW k \in Bytes(j) PROVE bufs[j][p][k] = <<table, id * d + k>>
  <2>1. Offset(req, j, p, k) = id * d + k
    <3>1. Offset(req, j, p, k) = RowStart * d + (id - RowStart) * d + k
      BY <1>9 DEF Offset
    <3> HIDE DEF d
    <3>2. PICK e \in Nat : id = RowStart + e
      <4>1. id - RowStart \in Nat /\ id = RowStart + (id - RowStart)
        BY <1>9
      <4>. QED
        BY <4>1
    <3>3. id - RowStart = e /\ id * d = RowStart * d + e * d
      BY <1>9, <1>11, <3>2
    <3>. QED
      BY <3>1, <3>3
  <2>2. (id * d + k) \div d = id
    BY <1>9, <1>11, RowOfOffset DEF Bytes
  <2>3. bufs[j][p][k] = FileByte(holds, req, j, id * d + k)
    BY <1>7, <2>1 DEF RowFull, Right
  <2>. QED
    BY <1>10, <2>2, <2>3 DEF FileByte, table
<1>13. bufs[j][p] = [k \in Bytes(j) |-> <<table, id * d + k>>]
  BY <1>8, <1>12
<1>. QED
  BY <1>13 DEF FileRow, Bytes, table

\* The index a row was given is one of its places in the list.
LEMMA InverseFacts ==
  ASSUME NEW r \in Requests, NEW j \in Jobs(r), NEW i \in DOMAIN r[AskOf(j)].ids
  PROVE  /\ InverseOf(r[AskOf(j)].ids, i) \in 1..Len(JobRows(r, j))
         /\ JobRows(r, j)[InverseOf(r[AskOf(j)].ids, i)] = Rel(r[AskOf(j)].ids[i])
<1> DEFINE ids == r[AskOf(j)].ids
<1>1. Rel(ids[i]) \in RelSet(ids)
  BY DEF RelSet
<1>2. PICK k \in 1..Len(JobRows(r, j)) : JobRows(r, j)[k] = Rel(ids[i])
  BY <1>1, RowsOfJob
<1>3. Uniq(ids) = JobRows(r, j) /\ DOMAIN JobRows(r, j) = 1..Len(JobRows(r, j))
  BY RowsOfJob, LenProperties DEF JobRows
<1> HIDE DEF ids
<1>4. /\ InverseOf(ids, i) \in DOMAIN Uniq(ids)
      /\ Uniq(ids)[InverseOf(ids, i)] = Rel(ids[i])
  BY <1>2, <1>3 DEF InverseOf
<1>. QED
  BY <1>3, <1>4 DEF ids

LEMMA ReturnKeeps ==
  ASSUME DiskInv, Return
  PROVE  DiskInv'
<1>1. /\ pc = "wait" /\ pc' = "returned" /\ waiting > Len(futs)
      /\ UNCHANGED <<holds, calls, req, todo, futs, waiting, cur, bufs, errors>>
  BY DEF Return
<1>2. req \in Requests /\ req \in Seq([table : 1..Tables, ids : Seq(-1..FileRows)])
  BY <1>1, RequestAssumption DEF DiskInv, DiskTypes
<1>3. DiskTypes'
  BY <1>1 DEF DiskInv, DiskTypes
<1>4. InFlight' /\ FutsApart' /\ LoHi'
  BY <1>1 DEF DiskInv, InFlight, FutsApart, LoHi
<1>5. CallTasks'
  BY <1>1 DEF DiskInv, CallTasks
<1>6. Awaited'
  BY <1>1 DEF DiskInv, Awaited
<1>7. BufShape'
  BY <1>1 DEF DiskInv, BufShape
<1>8. Filled'
  BY <1>1 DEF DiskInv, Filled
<1>9. RowsComplete'
  <2>1. ASSUME NEW q \in DOMAIN req, NEW i \in DOMAIN req[q].ids, Owned(req[q].ids[i])
        PROVE  /\ bufs[2 * q - 1][InverseOf(req[q].ids, i)]
                    = FileRow(req[q].table, req[q].ids[i], WeightBytes)
               /\ bufs[2 * q][InverseOf(req[q].ids, i)]
                    = FileRow(req[q].table, req[q].ids[i], ScaleBytes)
    <3>1. q \in 1..Len(req) /\ Len(req) \in Nat
      BY <1>2, LenProperties
    <3>2. req[q].ids[i] \in Int
      <4>1. req[q] \in [table : 1..Tables, ids : Seq(-1..FileRows)]
        BY <1>2, <3>1, ElementOfSeq
      <4>2. req[q].ids \in Seq(-1..FileRows)
        BY <4>1
      <4>3. i \in 1..Len(req[q].ids)
        BY <4>2, LenProperties
      <4>4. req[q].ids[i] \in -1..FileRows
        BY <4>2, <4>3, ElementOfSeq
      <4>. QED
        BY <4>4
    <3>3. ASSUME NEW j \in Jobs(req), AskOf(j) = q
          PROVE  bufs[j][InverseOf(req[q].ids, i)]
                   = FileRow(req[q].table, req[q].ids[i], RowBytes(j))
      <4>1. /\ InverseOf(req[q].ids, i) \in 1..Len(JobRows(req, j))
            /\ JobRows(req, j)[InverseOf(req[q].ids, i)] = Rel(req[q].ids[i])
        BY <1>2, <3>3, InverseFacts
      <4>. QED
        BY <1>1, <2>1, <3>2, <3>3, <4>1, RowRead
    <3>4. /\ 2 * q - 1 \in Jobs(req) /\ AskOf(2 * q - 1) = q
          /\ RowBytes(2 * q - 1) = WeightBytes
      BY <3>1 DEF Jobs, AskOf, RowBytes
    <3>5. 2 * q \in Jobs(req) /\ AskOf(2 * q) = q /\ RowBytes(2 * q) = ScaleBytes
      <4>1. q \in Nat /\ 2 * q \in 1..(2 * Len(req))
        BY <3>1
      <4>2. (2 * q + 1) \div 2 = q
        BY <4>1, HalfOdd
      <4>3. (2 * q) % 2 = 0
        BY <4>1, EvenMod
      <4>. QED
        BY <4>1, <4>2, <4>3 DEF Jobs, AskOf, RowBytes
    <3>. QED
      BY <3>3, <3>4, <3>5
  <2>2. out' = [q \in DOMAIN req |->
               LET ids == req[q].ids
               IN  [i \in DOMAIN ids |->
                      IF Owned(ids[i])
                      THEN [w |-> bufs[2 * q - 1][InverseOf(ids, i)],
                            s |-> bufs[2 * q][InverseOf(ids, i)]]
                      ELSE Zero]]
    BY DEF Return
  <2>3. ASSUME NEW q \in DOMAIN req, NEW i \in DOMAIN req[q].ids
        PROVE  out'[q][i] = IF Owned(req[q].ids[i])
                            THEN [w |-> FileRow(req[q].table, req[q].ids[i], WeightBytes),
                                  s |-> FileRow(req[q].table, req[q].ids[i], ScaleBytes)]
                            ELSE Zero
    BY <2>1, <2>2
  <2>. QED
    BY <1>1, <2>3 DEF RowsComplete
<1>. QED
  BY <1>3, <1>4, <1>5, <1>6, <1>7, <1>8, <1>9 DEF DiskInv

LEMMA NextInv == DiskInv /\ [Next]_vars => DiskInv'
<1> SUFFICES ASSUME DiskInv, [Next]_vars PROVE DiskInv'
  OBVIOUS
<1>1. ASSUME NEW r \in Requests, Gather(r) PROVE DiskInv'
  BY <1>1, GatherKeeps
<1>2. CASE Submit
  BY <1>2, SubmitKeeps
<1>3. CASE AwaitNext \/ Raise
  BY <1>3, WaitKeeps
<1>4. CASE Return
  BY <1>4, ReturnKeeps
<1>5. ASSUME NEW th \in Threads, Take(th) PROVE DiskInv'
  BY <1>5, TakeKeeps
<1>6. ASSUME NEW th \in Threads, NEW n \in 1..Max2(WeightBytes, ScaleBytes), Preadv(th, n)
      PROVE  DiskInv'
  <2>1. n \in Nat \ {0}
    BY DEF Max2
  <2>. QED
    BY <1>6, <2>1, PreadvKeeps
<1>7. ASSUME NEW th \in Threads, ReadFails(th) PROVE DiskInv'
  BY <1>7, FailKeeps
<1>8. CASE UNCHANGED vars
  <2>1. UNCHANGED <<holds, pc, calls, req, todo, futs, waiting, cur, bufs, out, errors>>
    BY <1>8 DEF vars
  <2>2. DiskTypes' /\ LoHi' /\ InFlight' /\ FutsApart'
    BY <2>1 DEF DiskInv, DiskTypes, LoHi, InFlight, FutsApart
  <2>3. CallTasks' /\ Awaited'
    BY <2>1 DEF DiskInv, CallTasks, Awaited
  <2>6. BufShape'
    BY <2>1 DEF DiskInv, BufShape
  <2>4. Filled'
    BY <2>1 DEF DiskInv, Filled
  <2>5. RowsComplete'
    BY <2>1 DEF DiskInv, RowsComplete
  <2>. QED
    BY <2>2, <2>3, <2>4, <2>5, <2>6 DEF DiskInv
<1>. QED
  BY <1>1, <1>2, <1>3, <1>4, <1>5, <1>6, <1>7, <1>8 DEF Next, CallerStep, PoolStep

\* DiskInv holds in every state.
THEOREM Invariance == Spec => []DiskInv
<1>1. Spec => Init /\ [][Next]_vars
  BY PTL DEF Spec
<1>. QED
  BY <1>1, InitInv, NextInv, PTL

-----------------------------------------------------------------------------

\* What gather_dequant_many returns are the table's own rows of the ids asked
\* for: for every thread, table, id list, chunk size and row width, however
\* short the reads come back and whatever calls that raised left in the pool.
THEOREM Complete == Spec => []RowsComplete
<1>1. DiskInv => RowsComplete
  BY DEF DiskInv
<1>. QED
  BY <1>1, Invariance, PTL

\* Two tasks in flight never write the same row of the same buffer: the
\* chunks of _kai_parallel_read share no row.
THEOREM Disjoint == Spec => []WritesDisjoint
<1>1. DiskInv => WritesDisjoint
  <2> SUFFICES ASSUME DiskInv, NEW a \in Threads, NEW b \in Threads,
                      a # b, cur[a].task # NoTask, cur[b].task # NoTask
               PROVE  LET fa == futs[cur[a].task]
                          fb == futs[cur[b].task]
                      IN  <<fa.call, fa.task.job, cur[a].row>>
                            # <<fb.call, fb.task.job, cur[b].row>>
    BY DEF WritesDisjoint
  <2> DEFINE x == cur[a].task
             y == cur[b].task
  <2>1. /\ x \in DOMAIN futs /\ y \in DOMAIN futs /\ x # y
        /\ cur[a].row \in futs[x].task.lo..futs[x].task.hi
        /\ cur[b].row \in futs[y].task.lo..futs[y].task.hi
    BY DEF DiskInv, InFlight
  <2>2. /\ futs[x].task.lo \in Nat /\ futs[x].task.hi \in Nat
        /\ futs[y].task.lo \in Nat /\ futs[y].task.hi \in Nat
    <3>1. ASSUME NEW f \in DOMAIN futs
          PROVE  futs[f].task.lo \in Nat /\ futs[f].task.hi \in Nat
      <4>1. futs[f] \in FutSet
        BY ElementOfSeq, LenProperties DEF DiskInv, DiskTypes
      <4>. QED
        BY <4>1 DEF FutSet, TaskSet
    <3>. QED
      BY <2>1, <3>1
  <2> HIDE DEF x, y
  <2>3. CASE futs[x].call # futs[y].call
    BY <2>3 DEF x, y
  <2>4. CASE futs[x].call = futs[y].call
    <3>1. Apart(futs[x].task, futs[y].task)
      BY <2>1, <2>4 DEF DiskInv, FutsApart
    <3>2. futs[x].task.job # futs[y].task.job \/ cur[a].row # cur[b].row
      BY <2>1, <2>2, <3>1, ApartRows
    <3>. QED
      BY <3>2 DEF x, y
  <2>. QED
    BY <2>3, <2>4
<1>. QED
  BY <1>1, Invariance, PTL

\* A call in which a read failed does not return rows.
THEOREM FailuresRaise == Spec => []ErrorsRaise
<1>1. DiskInv => ErrorsRaise
  <2> SUFFICES ASSUME DiskInv, pc = "returned", NEW f \in DOMAIN futs, futs[f].call = calls
               PROVE  futs[f].state = "done"
    BY DEF ErrorsRaise
  <2>1. futs \in Seq(FutSet) /\ waiting \in Nat
    BY DEF DiskInv, DiskTypes
  <2>2. Len(futs) \in Nat /\ DOMAIN futs = 1..Len(futs)
    BY <2>1, LenProperties
  <2>. QED
    BY <2>1, <2>2 DEF DiskInv, Awaited
<1>. QED
  BY <1>1, Invariance, PTL
=============================================================================
