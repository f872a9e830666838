------------------------ MODULE WeightLoading_proofs ------------------------
(***************************************************************************)
(* The three parts of a node that loads weights.  No generator leaves a    *)
(* job or a loader behind or hands out a tensor twice, for any folder,     *)
(* index and number of threads.                                            *)
(* Files written by atomic_writer are whole, with no temporary file left,  *)
(* for any number of writers and kills.  And one process at a time dumps   *)
(* the numpy copy, which processes reading without the lock find complete, *)
(* for any number of processes, tensors and crashes; the second so long as *)
(* no process is killed while weight_names.json is open.                   *)
(***************************************************************************)
EXTENDS NpWeightCache, WeightIterators, AtomicWriter, FiniteSetTheorems,
        WellFoundedInduction, TLAPS

-----------------------------------------------------------------------------
(* The generators of a worker *)

LEMMA LoadInitInv == LoadInit => LoadInv
  BY DEF LoadInit, LoadInv, NothingLeftRunning

LEMMA SelectKeeps == LoadInv /\ SelectFiles => LoadInv'
  BY DEF LoadInv, NothingLeftRunning, SelectFiles, Move, Ends, Pool, Fast

LEMMA LazyKeeps ==
  ASSUME LoadInv, LazyStart \/ LazyOpen \/ LazyTensor
  PROVE  LoadInv'
<1>1. kind = "lazy" /\ UNCHANGED <<kind, queue, running, gds, open>>
  BY DEF LazyStart, LazyOpen, LazyTensor, Input, Pool, Fast
<1>. QED
  BY <1>1 DEF LoadInv, NothingLeftRunning

LEMMA PrefetchKeeps ==
  ASSUME LoadInv, Prefetch
  PROVE  LoadInv'
<1>1. UNCHANGED <<kind, gen, queue, running, gds, open>>
  BY DEF Prefetch, PrefetchBegin, PrefetchEnd, Input, Pool, Fast
<1>. QED
  BY <1>1 DEF LoadInv, NothingLeftRunning

\* Jobs begin and end only where a pool has any.
LEMMA ThreadsKeep ==
  ASSUME LoadInv, Threads
  PROVE  LoadInv'
<1>1. UNCHANGED <<kind, gen, gds, open>> /\ (queue # << >> \/ running # {})
  BY DEF Threads, Begin, End, Input, Fast
<1>2. kind = "threads" /\ gen \notin {"select", "start"} /\ gen \notin Ends
  BY <1>1 DEF LoadInv, NothingLeftRunning
<1>. QED
  BY <1>1, <1>2 DEF LoadInv, NothingLeftRunning

LEMMA PoolKeeps ==
  ASSUME LoadInv, Submit \/ ThreadTensor \/ Exhausted \/ Shutdown
                  \/ \E f \in ToSet(Folder) : Take(f)
  PROVE  LoadInv'
<1>1. UNCHANGED <<kind, running, gds, open>>
  BY DEF Submit, ThreadTensor, Exhausted, Shutdown, Take, Input, Pool, Fast
<1>2. CASE Submit
  <2>1. kind = "threads" /\ gen' = "next"
    BY <1>2 DEF Submit, Move
  <2>. QED
    BY <1>1, <2>1 DEF LoadInv, NothingLeftRunning, Ends
<1>3. CASE ThreadTensor \/ \E f \in ToSet(Folder) : Take(f)
  <2>1. gen' \in {"next", "raising"} /\ UNCHANGED queue /\ gen = "next"
    BY <1>3 DEF ThreadTensor, Take, Hand, Pool
  <2>. QED
    BY <1>1, <2>1 DEF LoadInv, NothingLeftRunning, Ends
<1>4. CASE Exhausted \/ Shutdown
  <2>1. /\ kind = "threads" /\ queue = << >> /\ running = {} /\ UNCHANGED queue
    BY <1>4 DEF Exhausted, Shutdown, Pool
  <2>. QED
    BY <1>1, <2>1 DEF LoadInv, NothingLeftRunning
<1>. QED
  BY <1>2, <1>3, <1>4

\* The one loader left open is the last, which the finally clause closes.
LEMMA FastKeeps ==
  ASSUME LoadInv, FastStart \/ Construct \/ FastTensor \/ FastClose
  PROVE  LoadInv'
<1>1. kind = "fast" /\ UNCHANGED <<kind, queue, running>> /\ queue = << >> /\ running = {}
  BY DEF LoadInv, FastStart, Construct, FastTensor, FastClose, Input, Pool
<1>2. CASE FastStart
  BY <1>1, <1>2 DEF LoadInv, NothingLeftRunning, FastStart, Move, Ends
<1>3. CASE Construct
  BY <1>1, <1>3 DEF LoadInv, NothingLeftRunning, Construct, FallBack, Fast, Ends
<1>4. CASE FastTensor
  BY <1>1, <1>4 DEF LoadInv, NothingLeftRunning, FastTensor, Hand, FallBack, Fast, Ends
<1>5. CASE FastClose
  BY <1>1, <1>5 DEF LoadInv, NothingLeftRunning, FastClose, Ends
<1>. QED
  BY <1>2, <1>3, <1>4, <1>5

LEMMA DropKeeps ==
  ASSUME LoadInv, Drop
  PROVE  LoadInv'
<1>1. UNCHANGED <<kind, queue, running, gds, open>> /\ gen = "next"
      /\ gen' \in {"dropped", "dropping"} /\ (kind # "lazy" => gen' = "dropping")
  BY DEF Drop, Input, Pool, Fast
<1>. QED
  BY <1>1 DEF LoadInv, NothingLeftRunning, Ends

LEMMA LoadStepInv ==
  ASSUME LoadInv, [LoadNext]_loadVars
  PROVE  LoadInv'
<1>1. CASE Generate
  BY <1>1, SelectKeeps, LazyKeeps, PoolKeeps, FastKeeps DEF Generate
<1>2. CASE Drop \/ Prefetch \/ Threads
  BY <1>2, DropKeeps, PrefetchKeeps, ThreadsKeep
<1>3. CASE UNCHANGED loadVars
  BY <1>3 DEF loadVars, Input, Pool, Fast, LoadInv, NothingLeftRunning
<1>. QED
  BY <1>1, <1>2, <1>3 DEF LoadNext

\* Whatever fails and whenever the caller drops a generator: when it has ended,
\* no job of its pool is queued or running, and no loader is open.
THEOREM NothingLeft == LoadSpec => []NothingLeftRunning
<1>1. LoadInv /\ [LoadNext]_loadVars => LoadInv'
  BY LoadStepInv
<1>2. LoadInv => NothingLeftRunning
  BY DEF LoadInv
<1>. QED
  BY LoadInitInv, <1>1, <1>2, PTL DEF LoadSpec

-----------------------------------------------------------------------------
(* Sequences: Keep, SetToSeqs *)

\* Induction on a set of numbers.
LEMMA Counting ==
  ASSUME NEW S, 0 \in S, \A n \in Nat : n \in S => n + 1 \in S
  PROVE  Nat \subseteq S
<1> DEFINE T == Nat \ S
<1>. SUFFICES ASSUME T # {} PROVE FALSE
  OBVIOUS
<1>1. PICK t \in T : \A y \in T : <<y, t>> \notin OpToRel(<, Nat)
  <2>1. T \subseteq Nat /\ T # {}
    OBVIOUS
  <2> HIDE DEF T
  <2>. QED
    BY <2>1, NatLessThanWellFounded, WFMin, Zenon
<1>2. t # 0 /\ t \in Nat
  OBVIOUS
<1>3. t - 1 \in Nat /\ t - 1 < t /\ (t - 1) + 1 = t
  BY <1>2
<1>4. t - 1 \notin S
  BY <1>2, <1>3
<1>5. <<t - 1, t>> \in OpToRel(<, Nat)
  <2>1. \A y, z \in Nat : y < z => <<y, z>> \in OpToRel(<, Nat)
    BY Zenon DEF OpToRel
  <2>. QED
    BY <1>2, <1>3, <2>1
<1>. QED
  BY <1>1, <1>3, <1>4, <1>5

\* What Keep has kept of the first n elements.
IsKept(kept, s, S, n) ==
  kept = [m \in 0..n |-> IF m = 0 THEN << >>
                         ELSE IF s[m] \in S THEN Append(kept[m - 1], s[m])
                                            ELSE kept[m - 1]]

LEMMA KeptExists ==
  ASSUME NEW s, NEW S
  PROVE  \A n \in Nat : \E kept : IsKept(kept, s, S, n)
<1> DEFINE D == {n \in Nat : \E kept : IsKept(kept, s, S, n)}
<1>1. 0 \in D
  <2>1. 0..0 = {0}
    OBVIOUS
  <2>2. IsKept([m \in 0..0 |-> << >>], s, S, 0)
    BY <2>1 DEF IsKept
  <2>. QED
    BY <2>2
<1>2. ASSUME NEW n \in Nat, n \in D PROVE n + 1 \in D
  <2>1. PICK old : IsKept(old, s, S, n)
    BY <1>2
  <2> DEFINE last == IF s[n + 1] \in S THEN Append(old[n], s[n + 1]) ELSE old[n]
             new  == [m \in 0..(n + 1) |-> IF m = n + 1 THEN last ELSE old[m]]
  <2>2. \A m \in 0..(n + 1) : new[m] = IF m = 0 THEN << >>
                         ELSE IF s[m] \in S THEN Append(new[m - 1], s[m])
                                            ELSE new[m - 1]
    <3>. TAKE m \in 0..(n + 1)
    <3>1. CASE m = n + 1
      <4>1. m # 0 /\ m - 1 = n /\ new[m] = last /\ new[m - 1] = old[n]
        BY <3>1
      <4>. QED
        BY <3>1, <4>1
    <3>2. CASE m # n + 1
      <4>1. m \in 0..n /\ new[m] = old[m]
        BY <3>2
      <4>2. old[m] = IF m = 0 THEN << >>
                         ELSE IF s[m] \in S THEN Append(old[m - 1], s[m])
                                            ELSE old[m - 1]
        BY <2>1, <4>1 DEF IsKept
      <4>3. CASE m = 0
        BY <4>1, <4>2, <4>3
      <4>4. CASE m # 0
        <5>1. m - 1 \in 0..(n + 1) /\ m - 1 # n + 1 
          BY <4>1, <4>4
        <5>2. new[m - 1] = old[m - 1]
          BY <5>1
        <5> HIDE DEF new
        <5>. QED
          BY <4>1, <4>2, <4>4, <5>2
      <4>. QED
        BY <4>3, <4>4
    <3>. QED
      BY <3>1, <3>2
  <2>3. IsKept(new, s, S, n + 1)
    <3>1. new = [m \in 0..(n + 1) |-> new[m]]
      OBVIOUS
    <3> HIDE DEF new
    <3>. QED
      BY <2>2, <3>1 DEF IsKept
  <2>. QED
    BY <2>3
<1>3. Nat \subseteq D
  <2> HIDE DEF D
  <2>. QED
    BY <1>1, <1>2, Counting
<1>. QED
  BY <1>3

\* What Keep returns: what of s is in S, in the order of s, nothing twice that s
\* does not have twice.
KeptWell(r, s, S, n) ==
  /\ r \in Seq(ToSet(s) \cap S)
  /\ ToSet(r) = {s[m] : m \in 1..n} \cap S
  /\ IsInjective(s) => IsInjective(r)

LEMMA AppendTo ==
  ASSUME NEW R, NEW r \in Seq(R), NEW e \in R
  PROVE  /\ Append(r, e) \in Seq(R)
         /\ ToSet(Append(r, e)) = ToSet(r) \cup {e}
         /\ IsInjective(r) /\ e \notin ToSet(r) => IsInjective(Append(r, e))
<1>1. /\ Append(r, e) \in Seq(R) /\ Len(Append(r, e)) = Len(r) + 1 /\ Len(r) \in Nat
      /\ DOMAIN r = 1..Len(r) /\ DOMAIN Append(r, e) = 1..(Len(r) + 1)
      /\ \A i \in 1..Len(r) : Append(r, e)[i] = r[i]
      /\ Append(r, e)[Len(r) + 1] = e
  OBVIOUS
<1>2. \A i \in 1..(Len(r) + 1) : i \in 1..Len(r) \/ i = Len(r) + 1
  BY <1>1
<1>3. \A i \in 1..Len(r) : i \in 1..(Len(r) + 1) /\ i # Len(r) + 1
  BY <1>1
<1>4. ToSet(Append(r, e)) = ToSet(r) \cup {e}
  <2>1. Len(r) + 1 \in 1..(Len(r) + 1)
    BY <1>1
  <2>. QED
    BY <1>1, <1>2, <1>3, <2>1 DEF ToSet
<1>5. ASSUME IsInjective(r), e \notin ToSet(r) PROVE IsInjective(Append(r, e))
  <2>1. \A i \in 1..Len(r) : r[i] # e
    BY <1>1, <1>5 DEF ToSet
  <2>. QED
    BY <1>1, <1>2, <1>5, <2>1 DEF IsInjective
<1>. QED
  BY <1>1, <1>4, <1>5

LEMMA KeepIs ==
  ASSUME NEW R, NEW s \in Seq(R), NEW S
  PROVE  /\ Keep(s, S) \in Seq(ToSet(s) \cap S)
         /\ ToSet(Keep(s, S)) = ToSet(s) \cap S
         /\ IsInjective(s) => IsInjective(Keep(s, S))
<1> DEFINE L == Len(s)
           kept == CHOOSE f : f = [n \in 0..L |->
                      IF n = 0 THEN << >>
                      ELSE IF s[n] \in S THEN Append(f[n - 1], s[n]) ELSE f[n - 1]]
<1>1. L \in Nat /\ DOMAIN s = 1..L
  OBVIOUS
<1>2. kept = [n \in 0..L |-> IF n = 0 THEN << >>
                      ELSE IF s[n] \in S THEN Append(kept[n - 1], s[n]) ELSE kept[n - 1]]
  <2>1. \E f : f = [n \in 0..L |-> IF n = 0 THEN << >>
                      ELSE IF s[n] \in S THEN Append(f[n - 1], s[n]) ELSE f[n - 1]]
    <3>1. PICK f : IsKept(f, s, S, L)
      BY <1>1, KeptExists
    <3>2. f = [n \in 0..L |-> IF n = 0 THEN << >>
                      ELSE IF s[n] \in S THEN Append(f[n - 1], s[n]) ELSE f[n - 1]]
      BY <3>1 DEF IsKept
    <3>. QED
      BY <3>2, Zenon
  <2> HIDE DEF L
  <2>. QED
    BY <2>1, Zenon
<1>3. Keep(s, S) = kept[L]
  BY DEF Keep
<1> HIDE DEF kept
<1> DEFINE D == {n \in Nat : n <= L => KeptWell(kept[n], s, S, n)}
<1>4. 0 \in D
  <2>1. kept[0] = << >> /\ 1..0 = {}
    BY <1>1, <1>2
  <2>2. << >> \in Seq(ToSet(s) \cap S) /\ DOMAIN << >> = {}
    OBVIOUS
  <2>3. {s[m] : m \in 1..0} = {} /\ ToSet(<< >>) = {} /\ IsInjective(<< >>)
    BY <2>1, <2>2 DEF ToSet, IsInjective
  <2>4. KeptWell(kept[0], s, S, 0)
    BY <2>1, <2>2, <2>3 DEF KeptWell
  <2>. QED
    BY <2>4
<1>5. ASSUME NEW n \in Nat, n \in D PROVE n + 1 \in D
  <2>. SUFFICES ASSUME n + 1 <= L PROVE KeptWell(kept[n + 1], s, S, n + 1)
    OBVIOUS
  <2>1. n <= L /\ n + 1 \in 0..L /\ n + 1 # 0 /\ (n + 1) - 1 = n /\ n + 1 \in 1..L
    BY <1>1
  <2>2. KeptWell(kept[n], s, S, n)
    BY <1>5, <2>1
  <2>3. kept[n + 1] = IF s[n + 1] \in S THEN Append(kept[n], s[n + 1]) ELSE kept[n]
    BY <1>2, <2>1
  <2>4. {s[m] : m \in 1..(n + 1)} = {s[m] : m \in 1..n} \cup {s[n + 1]}
    <3>1. 1..(n + 1) = 1..n \cup {n + 1}
      OBVIOUS
    <3>. QED
      BY <3>1
  <2>5. CASE s[n + 1] \in S
    <3>1. s[n + 1] \in ToSet(s) \cap S
      BY <1>1, <2>1, <2>5 DEF ToSet
    <3>2. IsInjective(s) => s[n + 1] \notin ToSet(kept[n])
      <4>1. \A m \in 1..n : m \in 1..L /\ m # n + 1
        BY <1>1, <2>1
      <4>. QED
        BY <1>1, <2>1, <2>2, <4>1 DEF IsInjective, KeptWell
    <3>3. kept[n] \in Seq(ToSet(s) \cap S)
      BY <2>2 DEF KeptWell
    <3>4. /\ Append(kept[n], s[n + 1]) \in Seq(ToSet(s) \cap S)
          /\ ToSet(Append(kept[n], s[n + 1])) = ToSet(kept[n]) \cup {s[n + 1]}
          /\ IsInjective(s) => IsInjective(Append(kept[n], s[n + 1]))
      <4>1. IsInjective(s) => IsInjective(kept[n])
        BY <2>2 DEF KeptWell
      <4>. QED
        BY <3>1, <3>2, <3>3, <4>1, AppendTo
    <3>. QED
      BY <2>2, <2>3, <2>4, <2>5, <3>1, <3>4 DEF KeptWell
  <2>6. CASE s[n + 1] \notin S
    BY <2>2, <2>3, <2>4, <2>6 DEF KeptWell
  <2>. QED
    BY <2>5, <2>6
<1>6. L \in D
  <2> HIDE DEF D, L
  <2>. QED
    BY <1>1, <1>4, <1>5, Counting
<1>7. KeptWell(Keep(s, S), s, S, L)
  BY <1>1, <1>3, <1>6
<1>. QED
  BY <1>1, <1>7 DEF KeptWell, ToSet

\* The sequences of a finite set hold each of its elements once.
LEMMA SeqsOf ==
  ASSUME NEW S, IsFiniteSet(S), NEW q \in SetToSeqs(S)
  PROVE  q \in Seq(S) /\ IsInjective(q) /\ ToSet(q) = S
<1> DEFINE c == Cardinality(S)
<1>1. c \in Nat /\ IsFiniteSet(1..c) /\ Cardinality(1..c) = c
  <2>1. c \in Nat
    BY FS_CardinalityType
  <2>2. IsFiniteSet(1..c) /\ Cardinality(1..c) = IF 1 > c THEN 0 ELSE c - 1 + 1
    BY <2>1, FS_Interval
  <2>. QED
    BY <2>1, <2>2
<1>2. q \in [1..c -> S] /\ \A i, j \in 1..c : i # j => q[i] # q[j]
  BY DEF SetToSeqs
<1>3. q \in Seq(S) /\ IsInjective(q)
  BY <1>1, <1>2 DEF IsInjective
<1>4. q \in Injection(1..c, S)
  BY <1>2, <1>3 DEF Injection
<1>5. q \in Surjection(1..c, S)
  <2> HIDE DEF c
  <2>. QED
    BY <1>1, <1>4, FS_Injection DEF c
<1>. QED
  BY <1>2, <1>3, <1>5 DEF Surjection, ToSet

-----------------------------------------------------------------------------
(* FlattenSeq *)

LEMMA ConcatTo ==
  ASSUME NEW R, NEW a \in Seq(R), NEW b \in Seq(R)
  PROVE  /\ a \o b \in Seq(R)
         /\ ToSet(a \o b) = ToSet(a) \cup ToSet(b)
         /\ IsInjective(a) /\ IsInjective(b) /\ ToSet(a) \cap ToSet(b) = {}
              => IsInjective(a \o b)
<1> DEFINE c == a \o b
           la == Len(a)
           lb == Len(b)
<1>1. /\ c \in Seq(R) /\ la \in Nat /\ lb \in Nat /\ DOMAIN a = 1..la /\ DOMAIN b = 1..lb
      /\ DOMAIN c = 1..(la + lb)
  OBVIOUS
<1>2. \A i \in 1..la : c[i] = a[i]
  OBVIOUS
<1>3. \A i \in 1..lb : c[la + i] = b[i]
  BY <1>1
<1> HIDE DEF c, la, lb
<1>4. \A i \in 1..la : i \in 1..(la + lb)
  BY <1>1
<1>5. \A i \in 1..lb : la + i \in 1..(la + lb)
  BY <1>1
<1>6. ASSUME NEW i \in 1..(la + lb), i \notin 1..la
      PROVE  i - la \in 1..lb /\ c[i] = b[i - la]
  <2>1. i - la \in 1..lb /\ la + (i - la) = i
    BY <1>1, <1>6
  <2>. QED
    BY <1>3, <2>1
<1>7. ToSet(c) = ToSet(a) \cup ToSet(b)
  <2>1. \A i \in 1..(la + lb) : c[i] \in ToSet(a) \cup ToSet(b)
    BY <1>1, <1>2, <1>6 DEF ToSet
  <2>2. ToSet(c) \subseteq ToSet(a) \cup ToSet(b)
    BY <1>1, <2>1 DEF ToSet
  <2>3. ToSet(a) \subseteq ToSet(c)
    BY <1>1, <1>2, <1>4 DEF ToSet
  <2>4. \A i \in 1..lb : b[i] \in ToSet(c)
    BY <1>1, <1>3, <1>5 DEF ToSet
  <2>5. ToSet(b) \subseteq ToSet(c)
    BY <1>1, <2>4 DEF ToSet
  <2>. QED
    BY <2>2, <2>3, <2>5
<1>8. ASSUME IsInjective(a), IsInjective(b), ToSet(a) \cap ToSet(b) = {}
      PROVE  IsInjective(c)
  <2>. SUFFICES ASSUME NEW i \in 1..(la + lb), NEW j \in 1..(la + lb), c[i] = c[j]
                PROVE  i = j
    BY <1>1 DEF IsInjective
  <2>1. \A x \in 1..la : c[x] \in ToSet(a)
    BY <1>1, <1>2 DEF ToSet
  <2>2. \A x \in 1..(la + lb) : x \notin 1..la => c[x] \in ToSet(b)
    BY <1>1, <1>6 DEF ToSet
  <2>3. CASE i \in 1..la
    BY <1>1, <1>2, <1>8, <2>1, <2>2, <2>3 DEF IsInjective
  <2>4. CASE i \notin 1..la
    <3>1. j \notin 1..la
      BY <1>8, <2>1, <2>2, <2>4
    <3>2. i - la \in 1..lb /\ j - la \in 1..lb /\ b[i - la] = b[j - la]
      BY <1>6, <2>4, <3>1
    <3>3. i - la = j - la
      BY <1>1, <1>8, <3>2 DEF IsInjective
    <3>. QED
      BY <1>1, <3>3
  <2>. QED
    BY <2>3, <2>4
<1>. QED
  BY <1>1, <1>7, <1>8 DEF c

IsFlat(flat, seqs, n) ==
  flat = [i \in 1..n |-> IF i = 1 THEN seqs[i] ELSE flat[i - 1] \o seqs[i]]

LEMMA FlatExists ==
  ASSUME NEW seqs
  PROVE  \A n \in Nat : \E flat : IsFlat(flat, seqs, n)
<1> DEFINE D == {n \in Nat : \E flat : IsFlat(flat, seqs, n)}
<1>1. 0 \in D
  <2>1. IsFlat([i \in 1..0 |-> seqs], seqs, 0)
    <3>1. 1..0 = {}
      OBVIOUS
    <3>. QED
      BY <3>1 DEF IsFlat
  <2>. QED
    BY <2>1
<1>2. ASSUME NEW n \in Nat, n \in D PROVE n + 1 \in D
  <2>1. PICK old : IsFlat(old, seqs, n)
    BY <1>2
  <2> DEFINE last == IF n = 0 THEN seqs[1] ELSE old[n] \o seqs[n + 1]
             new  == [i \in 1..(n + 1) |-> IF i = n + 1 THEN last ELSE old[i]]
  <2>2. \A i \in 1..(n + 1) : new[i] = IF i = 1 THEN seqs[i] ELSE new[i - 1] \o seqs[i]
    <3>. TAKE i \in 1..(n + 1)
    <3>1. CASE i = n + 1
      <4>1. new[i] = last /\ i - 1 = n
        BY <3>1
      <4>2. n # 0 => n \in 1..(n + 1) /\ n # n + 1
        OBVIOUS
      <4>3. n # 0 => new[n] = old[n]
        BY <4>2
      <4> HIDE DEF new
      <4>. QED
        BY <3>1, <4>1, <4>3
    <3>2. CASE i # n + 1
      <4>1. i \in 1..n /\ new[i] = old[i]
        BY <3>2
      <4>2. old[i] = IF i = 1 THEN seqs[i] ELSE old[i - 1] \o seqs[i]
        BY <2>1, <4>1 DEF IsFlat
      <4>3. CASE i = 1
        BY <4>1, <4>2, <4>3
      <4>4. CASE i # 1
        <5>1. i - 1 \in 1..(n + 1) /\ i - 1 # n + 1
          BY <4>1, <4>4
        <5>2. new[i - 1] = old[i - 1]
          BY <5>1
        <5> HIDE DEF new
        <5>. QED
          BY <4>1, <4>2, <4>4, <5>2
      <4>. QED
        BY <4>3, <4>4
    <3>. QED
      BY <3>1, <3>2
  <2>3. IsFlat(new, seqs, n + 1)
    <3>1. new = [i \in 1..(n + 1) |-> new[i]]
      OBVIOUS
    <3> HIDE DEF new
    <3>. QED
      BY <2>2, <3>1 DEF IsFlat
  <2>. QED
    BY <2>3
<1>3. Nat \subseteq D
  <2> HIDE DEF D
  <2>. QED
    BY <1>1, <1>2, Counting
<1>. QED
  BY <1>3

FlatWell(r, R, seqs, n) ==
  /\ r \in Seq(R)
  /\ ToSet(r) = UNION {ToSet(seqs[i]) : i \in 1..n}
  /\ IsInjective(r)

\* Sequences that share nothing and repeat nothing, one after the other.
LEMMA FlattenIs ==
  ASSUME NEW R, NEW seqs \in Seq(Seq(R)),
         \A i \in DOMAIN seqs : IsInjective(seqs[i]),
         \A i, j \in DOMAIN seqs : i # j => ToSet(seqs[i]) \cap ToSet(seqs[j]) = {}
  PROVE  /\ FlattenSeq(seqs) \in Seq(R)
         /\ ToSet(FlattenSeq(seqs)) = UNION {ToSet(seqs[i]) : i \in DOMAIN seqs}
         /\ IsInjective(FlattenSeq(seqs))
<1> DEFINE L == Len(seqs)
           flat == CHOOSE f : f = [i \in 1..L |-> IF i = 1 THEN seqs[i]
                                                  ELSE f[i - 1] \o seqs[i]]
<1>1. L \in Nat /\ DOMAIN seqs = 1..L /\ \A i \in 1..L : seqs[i] \in Seq(R)
  OBVIOUS
<1>2. flat = [i \in 1..L |-> IF i = 1 THEN seqs[i] ELSE flat[i - 1] \o seqs[i]]
  <2>1. PICK f : IsFlat(f, seqs, L)
    BY <1>1, FlatExists
  <2>2. f = [i \in 1..L |-> IF i = 1 THEN seqs[i] ELSE f[i - 1] \o seqs[i]]
    BY <2>1 DEF IsFlat
  <2> HIDE DEF L
  <2>. QED
    BY <2>2, Zenon
<1>3. FlattenSeq(seqs) = IF L = 0 THEN seqs ELSE flat[L]
  BY DEF FlattenSeq
<1> HIDE DEF flat, L
<1> DEFINE D == {n \in Nat : n + 1 <= L => FlatWell(flat[n + 1], R, seqs, n + 1)}
<1>4. 0 \in D
  <2>. SUFFICES ASSUME 1 <= L PROVE FlatWell(flat[1], R, seqs, 1)
    OBVIOUS
  <2>1. 1 \in 1..L /\ 1..1 = {1}
    BY <1>1
  <2>2. flat[1] = seqs[1]
    BY <1>2, <2>1
  <2>. QED
    BY <1>1, <2>1, <2>2 DEF FlatWell
<1>5. ASSUME NEW n \in Nat, n \in D PROVE n + 1 \in D
  <2> DEFINE m == n + 1
  <2>. SUFFICES ASSUME m + 1 <= L PROVE FlatWell(flat[m + 1], R, seqs, m + 1)
    OBVIOUS
  <2>1. /\ m \in Nat /\ m + 1 \in 1..L /\ m + 1 # 1 /\ (m + 1) - 1 = m
        /\ m <= L /\ \A i \in 1..m : i \in 1..L /\ i # m + 1
    BY <1>1
  <2>2. FlatWell(flat[m], R, seqs, m)
    BY <1>1, <1>5, <2>1
  <2> HIDE DEF m
  <2>3. flat[m + 1] = flat[m] \o seqs[m + 1]
    BY <1>2, <2>1
  <2>4. UNION {ToSet(seqs[i]) : i \in 1..(m + 1)}
          = (UNION {ToSet(seqs[i]) : i \in 1..m}) \cup ToSet(seqs[m + 1])
    <3>1. 1..(m + 1) = 1..m \cup {m + 1}
      BY <2>1
    <3>. QED
      BY <3>1
  <2>5. ToSet(flat[m]) \cap ToSet(seqs[m + 1]) = {}
    <3>1. \A i \in 1..m : ToSet(seqs[i]) \cap ToSet(seqs[m + 1]) = {}
      BY <1>1, <2>1
    <3>. QED
      BY <2>2, <3>1 DEF FlatWell
  <2>6. flat[m] \in Seq(R) /\ IsInjective(flat[m])
        /\ seqs[m + 1] \in Seq(R) /\ IsInjective(seqs[m + 1])
    BY <1>1, <2>1, <2>2 DEF FlatWell
  <2>7. /\ flat[m + 1] \in Seq(R) /\ IsInjective(flat[m + 1])
        /\ ToSet(flat[m + 1]) = ToSet(flat[m]) \cup ToSet(seqs[m + 1])
    BY <2>3, <2>5, <2>6, ConcatTo
  <2>. QED
    BY <2>2, <2>4, <2>7 DEF FlatWell
<1>6. Nat \subseteq D
  <2> HIDE DEF D
  <2>. QED
    BY <1>4, <1>5, Counting
<1>7. CASE L = 0
  <2>1. seqs = << >> /\ FlattenSeq(seqs) = seqs
    BY <1>1, <1>3, <1>7 DEF L
  <2>2. << >> \in Seq(R) /\ ToSet(<< >>) = {} /\ IsInjective(<< >>) /\ DOMAIN << >> = {}
    BY DEF ToSet, IsInjective
  <2>. QED
    BY <2>1, <2>2
<1>8. CASE L # 0
  <2>1. L - 1 \in Nat /\ (L - 1) + 1 = L
    BY <1>1, <1>8
  <2>2. FlatWell(flat[L], R, seqs, L)
    BY <1>1, <1>6, <2>1
  <2>. QED
    BY <1>1, <1>3, <1>8, <2>2 DEF FlatWell
<1>. QED
  BY <1>7, <1>8

-----------------------------------------------------------------------------
(* The strengthening behind EachTensorOnce *)

Names(f) == ToSet(Wanted(f))
AllNames == UNION {ToSet(Contents[f]) : f \in ToSet(Folder)}

\* The files whose tensors were handed out or are being handed out.
At      == IF cur = None THEN 0 ELSE CHOOSE j \in DOMAIN chosen : chosen[j] = cur
Waiting == ToSet(queue) \cup running \cup loaded
Begun   == IF kind = "lazy" THEN {chosen[j] : j \in 1..At}
           ELSE IF kind = "threads" THEN index \ Waiting ELSE index

OnceTypes ==
  /\ index \in Indexes
  /\ given \in Seq(AllNames) /\ left \in Seq(AllNames)
  /\ gen \in {"construct", "ending"} => kind = "fast"
  /\ kind # "threads" => loaded = {}
  /\ kind = "fast" => cur = None

\* The files a generator reads are those of the index, each once.
Chosen ==
  gen \notin {"select"} \cup Ends =>
    /\ index \subseteq ToSet(Folder)
    /\ chosen \in Seq(index) /\ IsInjective(chosen) /\ ToSet(chosen) = index

Before ==
  /\ gen \in {"select", "start", "construct"} => given = << >>
  /\ gen \in {"select", "start"} => /\ cur = None /\ left = << >>
                                    /\ queue = << >> /\ running = {} /\ loaded = {}

\* A file of a pool is at one place.
Pooled ==
  kind = "threads" /\ gen = "next" =>
    /\ queue \in Seq(index) /\ IsInjective(queue)
    /\ running \subseteq index /\ loaded \subseteq index
    /\ ToSet(queue) \cap running = {} /\ ToSet(queue) \cap loaded = {}
    /\ running \cap loaded = {}

\* What was handed out and what is left of the current file are the names of
\* the files begun, once each.
Handed ==
  gen \in {"next", "ending"} =>
    /\ cur # None => cur \in index
    /\ IsInjective(left) /\ ToSet(given) \cap ToSet(left) = {}
    /\ ToSet(given) \cup ToSet(left) = UNION {Names(f) : f \in Begun}
    /\ gen = "ending" => left = << >>

OnceInv == OnceTypes /\ Chosen /\ Before /\ Pooled /\ Handed /\ EachTensorOnce

Skipped == IF kind = "lazy" THEN Unneeded ELSE {}

LEMMA NamesAre ==
  ASSUME index \in Indexes, NEW f \in index, f \in ToSet(Folder)
  PROVE  /\ Wanted(f) \in Seq(AllNames) /\ IsInjective(Wanted(f))
         /\ Names(f) = ToSet(Contents[f]) \ Skipped
<1>1. Contents[f] \in Seq(ToSet(Contents[f])) /\ IsInjective(Contents[f])
  BY FolderAssumption, IndexAssumption
<1>2. ToSet(Contents[f]) \subseteq AllNames
  BY DEF AllNames
<1>3. \A S, T : S \subseteq T => Seq(S) \subseteq Seq(T)
  OBVIOUS
<1>4. CASE kind = "lazy"
  <2> DEFINE C == Contents[f]
             S == ToSet(C) \ Unneeded
  <2>1. Wanted(f) = Keep(C, S)
    BY <1>4 DEF Wanted
  <2>2. /\ Keep(C, S) \in Seq(ToSet(C) \cap S)
        /\ ToSet(Keep(C, S)) = ToSet(C) \cap S
        /\ IsInjective(Keep(C, S))
    <3> HIDE DEF S
    <3>. QED
      BY <1>1, KeepIs
  <2>3. ToSet(C) \cap S = ToSet(C) \ Unneeded /\ ToSet(C) \cap S \subseteq AllNames
    BY <1>2
  <2> HIDE DEF S
  <2>. QED
    BY <1>3, <1>4, <2>1, <2>2, <2>3 DEF Names, Skipped
<1>5. CASE kind # "lazy"
  BY <1>1, <1>2, <1>3, <1>5 DEF Wanted, Names, Skipped
<1>. QED
  BY <1>4, <1>5

LEMMA NamesApart ==
  ASSUME index \in Indexes, NEW f \in index, NEW g \in index, f # g,
         f \in ToSet(Folder), g \in ToSet(Folder)
  PROVE  Names(f) \cap Names(g) = {}
<1>1. ToSet(Contents[f]) \cap ToSet(Contents[g]) = {}
  BY IndexAssumption
<1>. QED
  BY <1>1, NamesAre

LEMMA NeededAre ==
  ASSUME index \in Indexes, index \subseteq ToSet(Folder)
  PROVE  Needed = UNION {Names(f) : f \in index}
<1>1. \A f \in index : Names(f) = ToSet(Contents[f]) \ Skipped
  BY NamesAre
<1>. QED
  BY <1>1 DEF Needed, Skipped

\* The caller takes a tensor.
LEMMA Handing ==
  ASSUME OnceTypes, NEW to, Hand(to), IsInjective(given), IsInjective(left),
         ToSet(given) \cap ToSet(left) = {}
  PROVE  /\ given' \in Seq(AllNames) /\ left' \in Seq(AllNames)
         /\ IsInjective(given') /\ IsInjective(left')
         /\ ToSet(given') \cap ToSet(left') = {}
         /\ ToSet(given') \cup ToSet(left') = ToSet(given) \cup ToSet(left)
<1> DEFINE h == Head(left)
           t == Tail(left)
<1>1. /\ given \in Seq(AllNames) /\ left \in Seq(AllNames) /\ left # << >>
      /\ given' = Append(given, h) /\ left' = t
  BY DEF OnceTypes, Hand
<1>2. /\ h \in AllNames /\ t \in Seq(AllNames) /\ h = left[1]
      /\ Len(left) \in Nat /\ Len(left) > 0 /\ DOMAIN left = 1..Len(left)
      /\ Len(t) = Len(left) - 1 /\ DOMAIN t = 1..(Len(left) - 1)
      /\ \A i \in 1..(Len(left) - 1) : t[i] = left[i + 1]
  BY <1>1
<1> HIDE DEF h, t
<1>3. \A i \in 1..(Len(left) - 1) : i + 1 \in 1..Len(left) /\ i + 1 # 1
  BY <1>2
<1>4. \A i \in 1..Len(left) : i = 1 \/ (i - 1 \in 1..(Len(left) - 1) /\ (i - 1) + 1 = i)
  BY <1>2
<1>5. 1 \in 1..Len(left)
  BY <1>2
<1>6. IsInjective(t)
  BY <1>2, <1>3 DEF IsInjective
<1>7. h \notin ToSet(t)
  <2>1. \A i \in 1..(Len(left) - 1) : t[i] # h
    BY <1>2, <1>3, <1>5 DEF IsInjective
  <2>. QED
    BY <1>2, <2>1 DEF ToSet
<1>8. ToSet(left) = ToSet(t) \cup {h}
  <2>1. \A i \in 1..(Len(left) - 1) : t[i] \in ToSet(left)
    BY <1>2, <1>3 DEF ToSet
  <2>2. ToSet(t) \subseteq ToSet(left)
    BY <1>2, <2>1 DEF ToSet
  <2>3. h \in ToSet(left)
    BY <1>2, <1>5 DEF ToSet
  <2>4. \A i \in 1..Len(left) : i = 1 \/ left[i] = t[i - 1]
    BY <1>2, <1>4
  <2>5. \A i \in 1..Len(left) : left[i] \in ToSet(t) \cup {h}
    BY <1>2, <1>4, <2>4 DEF ToSet
  <2>6. ToSet(left) \subseteq ToSet(t) \cup {h}
    BY <1>2, <2>5 DEF ToSet
  <2>. QED
    BY <2>2, <2>3, <2>6
<1>9. h \notin ToSet(given)
  BY <1>8
<1>10. /\ given' \in Seq(AllNames) /\ IsInjective(given')
       /\ ToSet(given') = ToSet(given) \cup {h}
  BY <1>1, <1>2, <1>9, AppendTo
<1>. QED
  BY <1>1, <1>2, <1>6, <1>7, <1>8, <1>10

LEMMA Nothing == << >> \in Seq(AllNames) /\ ToSet(<< >>) = {} /\ IsInjective(<< >>)
  BY DEF ToSet, IsInjective

-----------------------------------------------------------------------------

LEMMA OnceInit == LoadInit => OnceInv
<1>. SUFFICES ASSUME LoadInit PROVE OnceInv
  OBVIOUS
<1>1. /\ gen = "select" /\ index \in Indexes /\ cur = None /\ left = << >> /\ given = << >>
      /\ queue = << >> /\ running = {} /\ loaded = {}
  BY DEF LoadInit
<1>2. OnceTypes /\ Before /\ EachTensorOnce
  BY <1>1, Nothing DEF OnceTypes, Before, EachTensorOnce
<1>3. Chosen /\ Pooled /\ Handed
  BY <1>1 DEF Chosen, Pooled, Handed
<1>. QED
  BY <1>2, <1>3 DEF OnceInv

\* Steps that leave what is handed out as it is.
LEMMA KeptInv ==
  ASSUME OnceInv, UNCHANGED <<kind, index, gen, chosen, cur, left, given, queue, running, loaded>>
  PROVE  OnceInv'
<1>1. OnceTypes' /\ Chosen' /\ Before' /\ Pooled'
  <2>1. OnceTypes' /\ Before'
    BY DEF OnceInv, OnceTypes, Before
  <2>2. Chosen'
    BY DEF OnceInv, Chosen
  <2>3. Pooled'
    BY DEF OnceInv, Pooled
  <2>. QED
    BY <2>1, <2>2, <2>3
<1>2. UNCHANGED <<At, Waiting>>
  BY DEF At, Waiting
<1>3. UNCHANGED Begun
  BY <1>2 DEF Begun
<1>4. Handed'
  BY <1>3 DEF OnceInv, Handed, Names, Wanted
<1>5. EachTensorOnce'
  BY DEF OnceInv, EachTensorOnce, Needed
<1>. QED
  BY <1>1, <1>4, <1>5 DEF OnceInv

\* Steps to an end other than "done", or on the way to one.
LEMMA EndInv ==
  ASSUME OnceInv, UNCHANGED <<kind, index, chosen, given>>, left' \in Seq(AllNames),
         loaded' \subseteq loaded, kind = "fast" => UNCHANGED cur,
         gen \notin {"select"} \cup Ends,
         gen' \in {"raised", "dropped", "raising", "dropping"}
  PROVE  OnceInv'
<1>1. OnceTypes' /\ Before'
  BY DEF OnceInv, OnceTypes, Before
<1>4. EachTensorOnce'
  BY DEF OnceInv, EachTensorOnce
<1>2. Chosen'
  BY DEF OnceInv, Chosen, Ends
<1>3. Pooled' /\ Handed'
  BY DEF Pooled, Handed
<1>. QED
  BY <1>1, <1>2, <1>3, <1>4 DEF OnceInv

LEMMA SelectOnce ==
  ASSUME OnceInv, SelectFiles
  PROVE  OnceInv'
<1>1. /\ gen = "select" /\ UNCHANGED <<kind, index, cur, left, given, queue, running, loaded>>
      /\ gen' \in {"start", "raised"}
      /\ gen' = "start" => index \subseteq ToSet(Folder) /\ chosen' = Keep(Folder, index)
  BY DEF SelectFiles, Move, Filtered, Pool
<1>2. OnceTypes' /\ Before' /\ EachTensorOnce'
  BY <1>1 DEF OnceInv, OnceTypes, Before, EachTensorOnce
<1>3. Chosen'
  <2>. SUFFICES ASSUME gen' = "start"
                PROVE  /\ chosen' \in Seq(index) /\ IsInjective(chosen')
                       /\ ToSet(chosen') = index
    BY <1>1 DEF Chosen, Ends
  <2>1. Folder \in Seq(ToSet(Folder)) /\ IsInjective(Folder)
    BY FolderAssumption
  <2>2. /\ Keep(Folder, index) \in Seq(ToSet(Folder) \cap index)
        /\ ToSet(Keep(Folder, index)) = ToSet(Folder) \cap index
        /\ IsInjective(Keep(Folder, index))
    BY <2>1, KeepIs
  <2>3. ToSet(Folder) \cap index = index
    BY <1>1
  <2>. QED
    BY <1>1, <2>2, <2>3
<1>4. Pooled' /\ Handed'
  BY <1>1 DEF Pooled, Handed
<1>. QED
  BY <1>2, <1>3, <1>4 DEF OnceInv

LEMMA LazyOnce ==
  ASSUME OnceInv, LazyStart \/ LazyOpen \/ LazyTensor
  PROVE  OnceInv'
<1>1. kind = "lazy" /\ UNCHANGED <<kind, index, chosen, queue, running, loaded>>
  BY DEF LazyStart, LazyOpen, LazyTensor, Input, Pool
<1>2. CASE LazyStart
  <2>1. gen = "start" /\ gen' = "next" /\ UNCHANGED <<cur, left, given>>
    BY <1>2 DEF LazyStart, Move
  <2>2. left = << >> /\ given = << >> /\ cur = None
    BY <2>1 DEF OnceInv, Before
  <2>3. OnceTypes' /\ Before' /\ Pooled'
    BY <1>1, <2>1 DEF OnceInv, OnceTypes, Before, Pooled
  <2>4. Chosen'
    BY <1>1, <2>1 DEF OnceInv, Chosen, Ends
  <2>5. Begun' = {}
    <3>1. At' = 0 /\ 1..0 = {}
      BY <2>1, <2>2 DEF At
    <3>. QED
      BY <1>1, <3>1 DEF Begun
  <2>6. Handed'
    BY <2>1, <2>2, <2>5, Nothing DEF Handed
  <2>7. EachTensorOnce'
    BY <2>1 DEF OnceInv, EachTensorOnce
  <2>. QED
    BY <2>3, <2>4, <2>6, <2>7 DEF OnceInv
<1>3. CASE LazyTensor
  <2>1. /\ gen = "next"
        /\ \/ Hand("next") /\ UNCHANGED cur
           \/ gen' = "raised" /\ UNCHANGED <<left, given>>
    BY <1>3 DEF LazyTensor
  <2>2. CASE gen' = "raised" /\ UNCHANGED <<left, given>>
    <3>1. left' \in Seq(AllNames)
      BY <2>2 DEF OnceInv, OnceTypes
    <3>. QED
      BY <1>1, <2>1, <2>2, <3>1, EndInv DEF Ends
  <2>3. CASE Hand("next") /\ UNCHANGED cur
    <3>1. IsInjective(given) /\ IsInjective(left) /\ ToSet(given) \cap ToSet(left) = {}
      BY <2>1 DEF OnceInv, Handed, EachTensorOnce
    <3>2. /\ given' \in Seq(AllNames) /\ left' \in Seq(AllNames)
          /\ IsInjective(given') /\ IsInjective(left')
          /\ ToSet(given') \cap ToSet(left') = {}
          /\ ToSet(given') \cup ToSet(left') = ToSet(given) \cup ToSet(left)
      BY <2>3, <3>1, Handing DEF OnceInv
    <3>3. gen' = "next"
      BY <2>3 DEF Hand
    <3>4. OnceTypes' /\ Before' /\ Pooled' /\ EachTensorOnce'
      BY <1>1, <3>2, <3>3 DEF OnceInv, OnceTypes, Before, Pooled, EachTensorOnce
    <3>5. Chosen'
      BY <1>1, <2>1, <3>3 DEF OnceInv, Chosen, Ends
    <3>6. UNCHANGED Begun /\ \A f : Names(f)' = Names(f)
      BY <1>1, <2>3 DEF Begun, At, Waiting, Names, Wanted
    <3>7. Handed'
      BY <1>1, <2>1, <2>3, <3>2, <3>3, <3>6 DEF OnceInv, Handed
    <3>. QED
      BY <3>4, <3>5, <3>7 DEF OnceInv
  <2>. QED
    BY <2>1, <2>2, <2>3
<1>4. CASE LazyOpen
  <2> DEFINE i == At + 1
  <2>1. /\ gen = "next" /\ left = << >> /\ UNCHANGED given
        /\ IF i > Len(chosen)
           THEN gen' = "done" /\ UNCHANGED <<cur, left>>
           ELSE /\ cur' = chosen[i]
                /\ \/ left' = Wanted(chosen[i]) /\ UNCHANGED gen
                   \/ gen' = "raised" /\ UNCHANGED left
    <3>1. (IF cur = None THEN 1 ELSE 1 + CHOOSE j \in DOMAIN chosen : chosen[j] = cur) = i
      <4>1. CASE cur = None
        BY <4>1 DEF At
      <4>2. CASE cur # None
        <5>1. cur \in ToSet(chosen) /\ chosen \in Seq(index)
          BY <1>4, <4>2 DEF OnceInv, Handed, Chosen, LazyOpen, Ends
        <5>2. (CHOOSE j \in DOMAIN chosen : chosen[j] = cur) \in Nat
          BY <5>1 DEF ToSet
        <5>. QED
          BY <4>2, <5>2 DEF At
      <4>. QED
        BY <4>1, <4>2
    <3> HIDE DEF i
    <3>. QED
      BY <1>4, <3>1 DEF LazyOpen
  <2>2. /\ index \subseteq ToSet(Folder) /\ chosen \in Seq(index) /\ IsInjective(chosen)
        /\ ToSet(chosen) = index /\ index \in Indexes
        /\ Len(chosen) \in Nat /\ DOMAIN chosen = 1..Len(chosen)
    BY <2>1 DEF OnceInv, Chosen, OnceTypes, Ends
  <2>3. At \in 0..Len(chosen)
    <3>1. CASE cur = None
      BY <2>2, <3>1 DEF At
    <3>2. CASE cur # None
      <4>1. cur \in ToSet(chosen)
        BY <2>1, <2>2, <3>2 DEF OnceInv, Handed
      <4>2. (CHOOSE j \in DOMAIN chosen : chosen[j] = cur) \in DOMAIN chosen
        BY <4>1 DEF ToSet
      <4>. QED
        BY <2>2, <3>2, <4>2 DEF At
    <3>. QED
      BY <3>1, <3>2
  <2>4. /\ ToSet(given) = UNION {Names(f) : f \in {chosen[j] : j \in 1..At}}
        /\ IsInjective(given)
    <3>1. Begun = {chosen[j] : j \in 1..At}
      BY <1>1 DEF Begun
    <3>2. ToSet(given) \cup ToSet(left) = UNION {Names(f) : f \in Begun}
      BY <2>1 DEF OnceInv, Handed
    <3>. QED
      BY <2>1, <3>1, <3>2, Nothing DEF OnceInv, EachTensorOnce
  <2>5. CASE i > Len(chosen)
    <3>1. gen' = "done" /\ UNCHANGED <<cur, left>>
      BY <2>1, <2>5
    <3>2. At = Len(chosen)
      <4>1. \A n \in Nat : \A a \in 0..n : a + 1 > n => a = n
        OBVIOUS
      <4>2. Len(chosen) \in Nat
        BY <2>2
      <4>. QED
        BY <2>3, <2>5, <4>1, <4>2
    <3>3. {chosen[j] : j \in 1..At} = index
      BY <2>2, <3>2 DEF ToSet
    <3>4. ToSet(given) = Needed
      BY <2>2, <2>4, <3>3, NeededAre
    <3>5. EachTensorOnce'
      BY <1>1, <2>1, <2>4, <3>4 DEF EachTensorOnce, Needed
    <3>6. OnceTypes' /\ Before' /\ Pooled'
      BY <1>1, <2>1, <3>1 DEF OnceInv, OnceTypes, Before, Pooled
    <3>7. Chosen' /\ Handed'
      BY <3>1 DEF Chosen, Handed, Ends
    <3>. QED
      BY <3>5, <3>6, <3>7 DEF OnceInv
  <2>6. CASE ~(i > Len(chosen))
    <3> DEFINE f == chosen[i]
    <3>1. i \in 1..Len(chosen) /\ f \in index /\ f \in ToSet(Folder) /\ f # None /\ cur' = f
      <4>1. i \in 1..Len(chosen)
        BY <2>2, <2>3, <2>6
      <4>2. f \in index
        BY <2>2, <4>1
      <4>3. f \in ToSet(Folder)
        BY <2>2, <4>2
      <4>. QED
        BY <2>1, <2>6, <4>1, <4>2, <4>3, NoneAssumption
    <3>2. CASE gen' = "raised" /\ UNCHANGED left
      <4>1. left' \in Seq(AllNames)
        BY <3>2 DEF OnceInv, OnceTypes
      <4>. QED
        BY <1>1, <2>1, <3>2, <4>1, EndInv DEF Ends
    <3>3. CASE left' = Wanted(f) /\ UNCHANGED gen
      <4>1. left' \in Seq(AllNames) /\ IsInjective(left') /\ ToSet(left') = Names(f)
        BY <2>2, <3>1, <3>3, NamesAre DEF Names
      <4>2. \A j \in 1..At : chosen[j] \in index /\ chosen[j] # f
        <5>1. \A j \in 1..At : j \in 1..Len(chosen) /\ j # i
          BY <2>2, <2>3
        <5> HIDE DEF i
        <5>. QED
          BY <2>2, <3>1, <5>1 DEF IsInjective
      <4>3. \A j \in 1..At : Names(chosen[j]) \cap Names(f) = {}
        <5> HIDE DEF f
        <5>. QED
          BY <2>2, <3>1, <4>2, NamesApart
      <4>4. ToSet(given) \cap ToSet(left') = {}
        <5> HIDE DEF f
        <5>. QED
          BY <2>4, <4>1, <4>3
      <4>5. At' = i
        <5>1. At' = CHOOSE j \in DOMAIN chosen : chosen[j] = f
          BY <1>1, <3>1 DEF At
        <5>2. \A j \in DOMAIN chosen : chosen[j] = f => j = i
          <6> HIDE DEF i
          <6>. QED
            BY <2>2, <3>1 DEF IsInjective
        <5> HIDE DEF i
        <5>. QED
          BY <2>2, <3>1, <5>1, <5>2
      <4>6. Begun' = {chosen[j] : j \in 1..At} \cup {f}
        <5>1. 1..i = 1..At \cup {i}
          BY <2>2, <2>3
        <5> HIDE DEF i
        <5>2. Begun' = {chosen[j] : j \in 1..i}
          BY <1>1, <4>5 DEF Begun
        <5>. QED
          BY <5>1, <5>2
      <4>7. ToSet(given') \cup ToSet(left') = (UNION {Names(g) : g \in Begun})'
        <5>1. \A g : Names(g)' = Names(g)
          BY <1>1 DEF Names, Wanted
        <5> HIDE DEF f
        <5>. QED
          BY <2>1, <2>4, <4>1, <4>6, <5>1
      <4>8. Handed'
        <5> HIDE DEF f
        <5>. QED
          BY <1>1, <2>1, <3>1, <3>3, <4>1, <4>4, <4>7 DEF Handed
      <4>9. OnceTypes' /\ Before' /\ Pooled' /\ EachTensorOnce'
        BY <1>1, <2>1, <2>4, <3>3, <4>1 DEF OnceInv, OnceTypes, Before, Pooled, EachTensorOnce
      <4>10. Chosen'
        BY <1>1, <3>3 DEF OnceInv, Chosen
      <4>. QED
        BY <4>8, <4>9, <4>10 DEF OnceInv
    <3>. QED
      BY <2>1, <2>6, <3>2, <3>3
  <2>. QED
    BY <2>5, <2>6
<1>. QED
  BY <1>2, <1>3, <1>4

\* A tensor of the files begun is handed out.
LEMMA TensorOnce ==
  ASSUME OnceInv, gen = "next", Hand("next"),
         UNCHANGED <<kind, index, chosen, cur, queue, running, loaded>>
  PROVE  OnceInv'
<1>1. IsInjective(given) /\ IsInjective(left) /\ ToSet(given) \cap ToSet(left) = {}
  BY DEF OnceInv, Handed, EachTensorOnce
<1>2. /\ given' \in Seq(AllNames) /\ left' \in Seq(AllNames)
      /\ IsInjective(given') /\ IsInjective(left')
      /\ ToSet(given') \cap ToSet(left') = {}
      /\ ToSet(given') \cup ToSet(left') = ToSet(given) \cup ToSet(left)
  BY <1>1, Handing DEF OnceInv
<1>3. gen' = "next"
  BY DEF Hand
<1>4. OnceTypes' /\ Before' /\ Pooled' /\ EachTensorOnce'
  BY <1>2, <1>3 DEF OnceInv, OnceTypes, Before, Pooled, EachTensorOnce
<1>5. Chosen'
  BY <1>3 DEF OnceInv, Chosen, Ends
<1>6. UNCHANGED Begun /\ \A f : Names(f)' = Names(f)
  BY DEF Begun, At, Waiting, Names, Wanted
<1>7. Handed'
  BY <1>2, <1>3, <1>6 DEF OnceInv, Handed
<1>. QED
  BY <1>4, <1>5, <1>7 DEF OnceInv

\* A generator that has handed out the names of every file comes to its end.
LEMMA AllOnce ==
  ASSUME OnceInv, gen \in {"next", "ending"}, left = << >>, Begun = index, gen' = "done",
         UNCHANGED <<kind, index, chosen, cur, left, given, queue, running, loaded>>
  PROVE  OnceInv'
<1>1. index \in Indexes /\ index \subseteq ToSet(Folder)
  BY DEF OnceInv, OnceTypes, Chosen, Ends
<1>2. ToSet(given) = Needed
  BY <1>1, NeededAre, Nothing DEF OnceInv, Handed
<1>3. EachTensorOnce'
  BY <1>2 DEF OnceInv, EachTensorOnce, Needed
<1>4. OnceTypes' /\ Before' /\ Pooled'
  BY DEF OnceInv, OnceTypes, Before, Pooled
<1>5. Chosen' /\ Handed'
  BY DEF Chosen, Handed, Ends
<1>. QED
  BY <1>3, <1>4, <1>5 DEF OnceInv

\* as_completed submits each file once.
LEMMA SubmitOnce ==
  ASSUME OnceInv, Submit
  PROVE  OnceInv'
<1>1. /\ kind = "threads" /\ gen = "start" /\ gen' = "next"
      /\ queue' \in SetToSeqs(ToSet(chosen))
      /\ UNCHANGED <<kind, index, chosen, cur, left, given, running, loaded>>
  BY DEF Submit, Move, Input
<1>2. /\ given = << >> /\ left = << >> /\ cur = None /\ running = {} /\ loaded = {}
      /\ chosen \in Seq(index) /\ ToSet(chosen) = index /\ index \subseteq ToSet(Folder)
      /\ IsInjective(chosen)
  BY <1>1 DEF OnceInv, Before, Chosen, Ends
<1>3. IsFiniteSet(index)
  <2>1. /\ Len(chosen) \in Nat /\ chosen \in [1..Len(chosen) -> index]
        /\ DOMAIN chosen = 1..Len(chosen)
    BY <1>2
  <2>2. IsFiniteSet(1..Len(chosen))
    BY <2>1, FS_Interval
  <2>3. chosen \in Surjection(1..Len(chosen), index)
    BY <1>2, <2>1 DEF Surjection, ToSet
  <2>. QED
    BY <2>2, <2>3, FS_Surjection
<1>4. queue' \in Seq(index) /\ IsInjective(queue') /\ ToSet(queue') = index
  BY <1>1, <1>2, <1>3, SeqsOf
<1>5. OnceTypes' /\ Before' /\ EachTensorOnce'
  BY <1>1, <1>2 DEF OnceInv, OnceTypes, Before, EachTensorOnce
<1>6. Chosen'
  BY <1>1 DEF OnceInv, Chosen, Ends
<1>7. Pooled'
  BY <1>1, <1>2, <1>4 DEF Pooled
<1>8. Begun' = {}
  BY <1>1, <1>2, <1>4 DEF Begun, Waiting
<1>9. Handed'
  BY <1>1, <1>2, <1>8, Nothing DEF Handed
<1>. QED
  BY <1>5, <1>6, <1>7, <1>9 DEF OnceInv

\* The job at the head of the queue is the one that begins.
LEMMA HeadTaken ==
  ASSUME NEW S, NEW q \in Seq(S), q # << >>, IsInjective(q)
  PROVE  /\ Head(q) \in S /\ Tail(q) \in Seq(S) /\ IsInjective(Tail(q))
         /\ Head(q) \notin ToSet(Tail(q)) /\ ToSet(q) = ToSet(Tail(q)) \cup {Head(q)}
<1> DEFINE h == Head(q)
           t == Tail(q)
           n == Len(q)
<1>1. /\ h \in S /\ t \in Seq(S) /\ h = q[1] /\ n \in Nat /\ n > 0 /\ DOMAIN q = 1..n
      /\ DOMAIN t = 1..(n - 1) /\ \A i \in 1..(n - 1) : t[i] = q[i + 1]
  OBVIOUS
<1> HIDE DEF h, t, n
<1>2. \A i \in 1..(n - 1) : i + 1 \in 1..n /\ i + 1 # 1
  BY <1>1
<1>3. \A i \in 1..n : i = 1 \/ (i - 1 \in 1..(n - 1) /\ (i - 1) + 1 = i)
  BY <1>1
<1>4. 1 \in 1..n
  BY <1>1
<1>5. IsInjective(t)
  BY <1>1, <1>2 DEF IsInjective
<1>6. h \notin ToSet(t)
  <2>1. \A i \in 1..(n - 1) : t[i] # h
    BY <1>1, <1>2, <1>4 DEF IsInjective
  <2>. QED
    BY <1>1, <2>1 DEF ToSet
<1>7. ToSet(q) = ToSet(t) \cup {h}
  <2>1. \A i \in 1..(n - 1) : t[i] \in ToSet(q)
    BY <1>1, <1>2 DEF ToSet
  <2>2. ToSet(t) \subseteq ToSet(q)
    BY <1>1, <2>1 DEF ToSet
  <2>3. h \in ToSet(q)
    BY <1>1, <1>4 DEF ToSet
  <2>4. \A i \in 1..n : i = 1 \/ q[i] = t[i - 1]
    BY <1>1, <1>3
  <2>5. \A i \in 1..n : q[i] \in ToSet(t) \cup {h}
    BY <1>1, <1>3, <2>4 DEF ToSet
  <2>6. ToSet(q) \subseteq ToSet(t) \cup {h}
    BY <1>1, <2>5 DEF ToSet
  <2>. QED
    BY <2>2, <2>3, <2>6
<1>. QED
  BY <1>1, <1>5, <1>6, <1>7 DEF h, t

\* Jobs go on whether or not the generator still waits for them.
LEMMA ThreadsOnce ==
  ASSUME OnceInv, LoadInv, Threads
  PROVE  OnceInv'
<1>1. UNCHANGED <<kind, index, gen, chosen, cur, left, given>>
  BY DEF Threads, Begin, End, Input
<1>2. kind = "threads" /\ gen \notin {"select", "start"}
  <2>1. queue # << >> \/ running # {}
    BY DEF Threads, Begin, End
  <2>. QED
    BY <2>1 DEF LoadInv
<1>3. OnceTypes' /\ Chosen' /\ EachTensorOnce'
  <2>1. OnceTypes' /\ EachTensorOnce'
    BY <1>1, <1>2 DEF OnceInv, OnceTypes, EachTensorOnce, Needed
  <2>. QED
    BY <1>1, <2>1 DEF OnceInv, Chosen
<1>4. Before'
  BY <1>1, <1>2 DEF OnceInv, Before
<1>5. CASE gen # "next"
  <2>1. Pooled'
    BY <1>1, <1>5 DEF Pooled
  <2>2. gen # "ending"
    BY <1>2 DEF OnceInv, OnceTypes
  <2>3. Handed'
    BY <1>1, <1>5, <2>2 DEF Handed
  <2>. QED
    BY <1>3, <1>4, <2>1, <2>3 DEF OnceInv
<1>6. CASE gen = "next"
  <2>1. /\ queue \in Seq(index) /\ IsInjective(queue)
        /\ running \subseteq index /\ loaded \subseteq index
        /\ ToSet(queue) \cap running = {} /\ ToSet(queue) \cap loaded = {}
        /\ running \cap loaded = {}
    BY <1>2, <1>6 DEF OnceInv, Pooled
  <2>2. Pooled' /\ UNCHANGED Waiting
    <3>1. CASE Begin
      <4>1. /\ queue # << >> /\ queue' = Tail(queue) /\ running' = running \cup {Head(queue)}
            /\ UNCHANGED loaded
        BY <3>1 DEF Begin
      <4>2. /\ Head(queue) \in index /\ Tail(queue) \in Seq(index) /\ IsInjective(Tail(queue))
            /\ Head(queue) \notin ToSet(Tail(queue))
            /\ ToSet(queue) = ToSet(Tail(queue)) \cup {Head(queue)}
        BY <2>1, <4>1, HeadTaken
      <4>3. /\ queue' \in Seq(index) /\ IsInjective(queue')
            /\ running' \subseteq index /\ loaded' \subseteq index
            /\ ToSet(queue') \cap running' = {} /\ ToSet(queue') \cap loaded' = {}
            /\ running' \cap loaded' = {}
        BY <2>1, <4>1, <4>2
      <4>4. Pooled'
        BY <1>1, <4>3 DEF Pooled
      <4>5. UNCHANGED Waiting
        BY <4>1, <4>2 DEF Waiting
      <4>. QED
        BY <4>4, <4>5
    <3>2. ASSUME NEW f \in ToSet(Folder), End(f) PROVE Pooled' /\ UNCHANGED Waiting
      <4>1. /\ f \in running /\ running' = running \ {f} /\ loaded' = loaded \cup {f}
            /\ UNCHANGED queue
        BY <3>2 DEF End
      <4>2. Pooled'
        BY <1>1, <2>1, <4>1 DEF Pooled
      <4>3. UNCHANGED Waiting
        BY <4>1 DEF Waiting
      <4>. QED
        BY <4>2, <4>3
    <3>. QED
      BY <3>1, <3>2 DEF Threads
  <2>3. UNCHANGED Begun
    BY <1>1, <2>2 DEF Begun, At
  <2>4. Handed'
    BY <1>1, <2>3 DEF OnceInv, Handed, Names, Wanted
  <2>. QED
    BY <1>3, <1>4, <2>2, <2>4 DEF OnceInv
<1>. QED
  BY <1>5, <1>6

LEMMA TakeOnce ==
  ASSUME OnceInv, LoadInv, NEW f \in ToSet(Folder), Take(f)
  PROVE  OnceInv'
<1>1. /\ gen = "next" /\ left = << >> /\ f \in loaded /\ loaded' = loaded \ {f} /\ cur' = f
      /\ UNCHANGED <<kind, index, chosen, given, queue, running>>
      /\ \/ gen' = "raising" /\ UNCHANGED left
         \/ left' = Wanted(f) /\ UNCHANGED gen
  BY DEF Take, Input
<1>2. kind = "threads"
  BY <1>1 DEF OnceInv, OnceTypes
<1>3. CASE gen' = "raising" /\ UNCHANGED left
  <2>1. left' \in Seq(AllNames)
    BY <1>3 DEF OnceInv, OnceTypes
  <2>2. /\ UNCHANGED <<kind, index, chosen, given>> /\ loaded' \subseteq loaded
        /\ gen \notin {"select"} \cup Ends /\ kind # "fast"
    BY <1>1, <1>2 DEF Ends
  <2>. QED
    BY <1>3, <2>1, <2>2, EndInv
<1>4. CASE left' = Wanted(f) /\ UNCHANGED gen
  <2>1. /\ queue \in Seq(index) /\ IsInjective(queue)
        /\ running \subseteq index /\ loaded \subseteq index
        /\ ToSet(queue) \cap running = {} /\ ToSet(queue) \cap loaded = {}
        /\ running \cap loaded = {}
        /\ index \in Indexes /\ index \subseteq ToSet(Folder)
    BY <1>1, <1>2 DEF OnceInv, Pooled, OnceTypes, Chosen, Ends
  <2>2. left' \in Seq(AllNames) /\ IsInjective(left') /\ ToSet(left') = Names(f)
    BY <1>1, <1>4, <2>1, NamesAre DEF Names
  <2>3. Begun = index \ Waiting /\ Begun' = Begun \cup {f} /\ f \notin Begun /\ f \in index
    <3>1. Waiting' = Waiting \ {f} /\ f \in Waiting /\ f \in index
      BY <1>1, <2>1 DEF Waiting
    <3>2. Begun = index \ Waiting /\ Begun' = index \ Waiting'
      BY <1>1, <1>2 DEF Begun
    <3>. QED
      BY <3>1, <3>2
  <2>4. ToSet(given) = UNION {Names(g) : g \in Begun}
    <3>1. ToSet(given) \cup ToSet(left) = UNION {Names(g) : g \in Begun}
      BY <1>1 DEF OnceInv, Handed
    <3>. QED
      BY <1>1, <3>1, Nothing
  <2>5. \A g \in Begun : Names(g) \cap Names(f) = {}
    BY <2>1, <2>3, NamesApart
  <2>6. ToSet(given') \cap ToSet(left') = {}
    BY <1>1, <2>2, <2>4, <2>5
  <2>7. ToSet(given') \cup ToSet(left') = (UNION {Names(g) : g \in Begun})'
    <3>1. \A g : Names(g)' = Names(g)
      BY <1>1 DEF Names, Wanted
    <3>. QED
      BY <1>1, <2>2, <2>3, <2>4, <3>1
  <2>8. Handed'
    BY <1>1, <1>4, <2>1, <2>2, <2>6, <2>7 DEF Handed
  <2>9. OnceTypes' /\ Before' /\ EachTensorOnce'
    BY <1>1, <1>2, <1>4, <2>2 DEF OnceInv, OnceTypes, Before, EachTensorOnce
  <2>10. Chosen'
    BY <1>1, <1>4 DEF OnceInv, Chosen
  <2>11. Pooled'
    BY <1>1, <1>2, <1>4, <2>1 DEF Pooled
  <2>. QED
    BY <2>8, <2>9, <2>10, <2>11 DEF OnceInv
<1>. QED
  BY <1>1, <1>3, <1>4

LEMMA PoolOnce ==
  ASSUME OnceInv, ThreadTensor \/ Exhausted \/ Shutdown
  PROVE  OnceInv'
<1>1. /\ kind = "threads" /\ UNCHANGED <<kind, index, chosen, cur, queue, running, loaded>>
  BY DEF ThreadTensor, Exhausted, Shutdown, Input, Pool
<1>2. CASE ThreadTensor
  <2>1. gen = "next" /\ Hand("next")
    BY <1>2 DEF ThreadTensor
  <2>. QED
    BY <1>1, <2>1, TensorOnce
<1>3. CASE Exhausted
  <2>1. /\ gen = "next" /\ left = << >> /\ queue = << >> /\ running = {} /\ loaded = {}
        /\ gen' = "done" /\ UNCHANGED <<left, given>>
    BY <1>3 DEF Exhausted
  <2>2. Begun = index
    BY <1>1, <2>1, Nothing DEF Begun, Waiting
  <2>. QED
    BY <1>1, <2>1, <2>2, AllOnce
<1>4. CASE Shutdown
  <2>1. /\ gen \in {"raising", "dropping"} /\ gen' \in {"raised", "dropped"}
        /\ UNCHANGED <<left, given>>
    BY <1>4 DEF Shutdown
  <2>2. left' \in Seq(AllNames)
    BY <2>1 DEF OnceInv, OnceTypes
  <2>. QED
    BY <1>1, <2>1, <2>2, EndInv DEF Ends
<1>. QED
  BY <1>2, <1>3, <1>4

\* A second loader starts from the first file only if nothing was handed out.
LEMMA FastOnce ==
  ASSUME OnceInv, FastStart \/ Construct \/ FastTensor \/ FastClose
  PROVE  OnceInv'
<1>1. kind = "fast" /\ UNCHANGED <<kind, index, chosen, cur, queue, running, loaded>>
  BY DEF FastStart, Construct, FastTensor, FastClose, Input, Pool
<1>2. Begun = index /\ Begun' = index
  BY <1>1 DEF Begun
<1>3. ASSUME gen \in {"start", "construct", "next"}, gen' = "construct", given = << >>,
             UNCHANGED <<left, given>>
      PROVE  OnceInv'
  <2>1. OnceTypes' /\ Before' /\ Pooled' /\ EachTensorOnce'
    BY <1>1, <1>3 DEF OnceInv, OnceTypes, Before, Pooled, EachTensorOnce
  <2>2. Chosen'
    BY <1>1, <1>3 DEF OnceInv, Chosen, Ends
  <2>3. Handed'
    BY <1>3 DEF Handed
  <2>. QED
    BY <2>1, <2>2, <2>3 DEF OnceInv
<1>4. ASSUME gen \in {"construct", "next"}, gen' = "raising", UNCHANGED <<left, given>>
      PROVE  OnceInv'
  <2>1. left' \in Seq(AllNames)
    BY <1>4 DEF OnceInv, OnceTypes
  <2>. QED
    BY <1>1, <1>4, <2>1, EndInv DEF Ends
<1>5. CASE FastStart
  <2>1. gen = "start" /\ gen' = "construct" /\ UNCHANGED <<left, given>>
    BY <1>5 DEF FastStart, Move
  <2>2. given = << >>
    BY <2>1 DEF OnceInv, Before
  <2>. QED
    BY <1>3, <2>1, <2>2
<1>6. CASE Construct
  <2> DEFINE all == [i \in DOMAIN chosen |-> Wanted(chosen[i])]
  <2>1. /\ gen = "construct" /\ UNCHANGED given
        /\ \/ gen' = "next" /\ left' = FlattenSeq(all)
           \/ gen' = "raising" /\ UNCHANGED left
           \/ gen' = "construct" /\ UNCHANGED left
    BY <1>6 DEF Construct, FallBack
  <2>2. given = << >>
    BY <2>1 DEF OnceInv, Before
  <2>3. CASE gen' = "next" /\ left' = FlattenSeq(all)
    <3>1. /\ index \subseteq ToSet(Folder) /\ chosen \in Seq(index) /\ IsInjective(chosen)
          /\ ToSet(chosen) = index /\ index \in Indexes
          /\ Len(chosen) \in Nat /\ DOMAIN chosen = 1..Len(chosen)
      BY <2>1 DEF OnceInv, Chosen, OnceTypes, Ends
    <3>2. \A i \in DOMAIN chosen : chosen[i] \in index /\ chosen[i] \in ToSet(Folder)
      BY <3>1
    <3>3. /\ \A i \in DOMAIN chosen : all[i] = Wanted(chosen[i])
          /\ all = [i \in DOMAIN chosen |-> all[i]] /\ DOMAIN all = DOMAIN chosen
      OBVIOUS
    <3> HIDE DEF all
    <3>4. \A i \in DOMAIN chosen : /\ all[i] \in Seq(AllNames) /\ IsInjective(all[i])
                                   /\ ToSet(all[i]) = Names(chosen[i])
      BY <3>1, <3>2, <3>3, NamesAre DEF Names
    <3>5. \A i, j \in DOMAIN chosen : i # j => ToSet(all[i]) \cap ToSet(all[j]) = {}
      <4>1. \A i, j \in DOMAIN chosen : i # j => chosen[i] # chosen[j]
        BY <3>1 DEF IsInjective
      <4>2. \A i, j \in DOMAIN chosen : i # j => Names(chosen[i]) \cap Names(chosen[j]) = {}
        BY <3>1, <3>2, <4>1, NamesApart
      <4>. QED
        BY <3>4, <4>2
    <3>6. all \in Seq(Seq(AllNames))
      BY <3>1, <3>3, <3>4
    <3>7. /\ FlattenSeq(all) \in Seq(AllNames) /\ IsInjective(FlattenSeq(all))
          /\ ToSet(FlattenSeq(all)) = UNION {ToSet(all[i]) : i \in DOMAIN all}
      BY <3>3, <3>4, <3>5, <3>6, FlattenIs
    <3>8. UNION {ToSet(all[i]) : i \in DOMAIN all} = UNION {Names(f) : f \in index}
      <4>1. index = {chosen[i] : i \in DOMAIN chosen}
        BY <3>1 DEF ToSet
      <4>. QED
        BY <3>3, <3>4, <4>1
    <3>9. \A g : Names(g)' = Names(g)
      BY <1>1 DEF Names, Wanted
    <3>10. Handed'
      <4>1. cur' # None => cur' \in index'
        BY <1>1 DEF OnceInv, OnceTypes
      <4>2. UNCHANGED index /\ ToSet(given') = {}
        BY <1>1, <2>1, <2>2, Nothing
      <4>3. (UNION {Names(f) : f \in Begun})' = UNION {Names(f) : f \in index}
        BY <1>2, <3>9
      <4>. QED
        BY <2>3, <3>7, <3>8, <4>1, <4>2, <4>3 DEF Handed
    <3>11. OnceTypes' /\ Before' /\ Pooled' /\ EachTensorOnce'
      BY <1>1, <2>1, <2>3, <3>7 DEF OnceInv, OnceTypes, Before, Pooled, EachTensorOnce
    <3>12. Chosen'
      BY <1>1, <2>1, <2>3 DEF OnceInv, Chosen, Ends
    <3>. QED
      BY <3>10, <3>11, <3>12 DEF OnceInv
  <2>. QED
    BY <1>3, <1>4, <2>1, <2>2, <2>3
<1>7. CASE FastTensor
  <2>1. /\ gen = "next"
        /\ \/ Hand("next")
           \/ left = << >> /\ gen' = "ending" /\ UNCHANGED <<left, given>>
           \/ gen' = "raising" /\ UNCHANGED <<left, given>>
           \/ gen' = "construct" /\ given = << >> /\ UNCHANGED <<left, given>>
    BY <1>7 DEF FastTensor, FallBack, Raises
  <2>2. CASE left = << >> /\ gen' = "ending" /\ UNCHANGED <<left, given>>
    <3>1. OnceTypes' /\ Before' /\ Pooled' /\ EachTensorOnce'
      BY <1>1, <2>1, <2>2 DEF OnceInv, OnceTypes, Before, Pooled, EachTensorOnce
    <3>2. Chosen'
      BY <1>1, <2>1, <2>2 DEF OnceInv, Chosen, Ends
    <3>3. Handed'
      BY <1>1, <1>2, <2>1, <2>2 DEF OnceInv, Handed, Names, Wanted
    <3>. QED
      BY <3>1, <3>2, <3>3 DEF OnceInv
  <2>. QED
    BY <1>1, <1>3, <1>4, <2>1, <2>2, TensorOnce
<1>8. CASE FastClose
  <2>1. /\ gen \in {"ending", "raising", "dropping"} /\ UNCHANGED <<left, given>>
        /\ gen = "ending" => gen' = "done"
        /\ gen # "ending" => gen' \in {"raised", "dropped"}
    BY <1>8 DEF FastClose
  <2>2. CASE gen = "ending"
    <3>1. left = << >>
      BY <2>2 DEF OnceInv, Handed
    <3>. QED
      BY <1>1, <1>2, <2>1, <2>2, <3>1, AllOnce
  <2>3. CASE gen # "ending"
    <3>1. left' \in Seq(AllNames)
      BY <2>1 DEF OnceInv, OnceTypes
    <3>. QED
      BY <1>1, <2>1, <2>3, <3>1, EndInv DEF Ends
  <2>. QED
    BY <2>2, <2>3
<1>. QED
  BY <1>5, <1>6, <1>7, <1>8

\* However a generator ends, by itself, by an error or because the caller drops
\* it (weight_utils.py:836-1110), it hands out no tensor twice, and one that ends
\* by itself has handed out every tensor of the files the index names.
THEOREM TensorsOnce == LoadSpec => []EachTensorOnce
<1> DEFINE I == LoadInv /\ OnceInv
<1>1. LoadInit => I
  BY LoadInitInv, OnceInit
<1>2. I /\ [LoadNext]_loadVars => I'
  <2>. SUFFICES ASSUME I, [LoadNext]_loadVars PROVE I'
    OBVIOUS
  <2>1. LoadInv'
    BY LoadStepInv
  <2>2. OnceInv'
    <3>1. CASE Generate
      BY <3>1, SelectOnce, LazyOnce, SubmitOnce, PoolOnce, FastOnce, TakeOnce DEF Generate
    <3>2. CASE Drop
      <4>1. /\ gen = "next" /\ gen' \in {"dropped", "dropping"}
            /\ UNCHANGED <<kind, index, chosen, cur, left, given, loaded>>
        BY <3>2 DEF Drop, Input, Pool
      <4>2. left' \in Seq(AllNames)
        BY <4>1 DEF OnceInv, OnceTypes
      <4>. QED
        BY <4>1, <4>2, EndInv DEF Ends
    <3>3. CASE Prefetch
      <4>1. UNCHANGED <<kind, index, gen, chosen, cur, left, given, queue, running, loaded>>
        BY <3>3 DEF Prefetch, PrefetchBegin, PrefetchEnd, Input, Pool
      <4>. QED
        BY <4>1, KeptInv
    <3>4. CASE Threads
      BY <3>4, ThreadsOnce
    <3>5. CASE UNCHANGED loadVars
      BY <3>5, KeptInv DEF loadVars, Input, Pool
    <3>. QED
      BY <3>1, <3>2, <3>3, <3>4, <3>5 DEF LoadNext
  <2>. QED
    BY <2>1, <2>2
<1>3. I => EachTensorOnce
  BY DEF OnceInv
<1>. QED
  BY <1>1, <1>2, <1>3, PTL DEF LoadSpec

-----------------------------------------------------------------------------

\* What a step of w leaves to show: w's own conjuncts, and the file's.
LEMMA OneWriterMoves ==
  ASSUME WriterInv, NEW w \in Writers,
         NEW to \in {"begin", "write", "replace", "cleanup", "end", "killed"},
         NEW file \in {"absent", "part", "whole"},
         at' = [at EXCEPT ![w] = to], temp' = [temp EXCEPT ![w] = file],
         placed \subseteq placed', placed' \subseteq placed \cup {w},
         raised \subseteq raised', raised' \subseteq raised \cup {w},
         target'.full, w \notin placed' \cap raised',
         to \in {"begin", "write", "replace"} => w \notin placed' \cup raised',
         to = "replace" => file = "whole",
         to \in {"cleanup", "end"} => w \in placed' \cup raised',
         to = "end" => file = "absent"
  PROVE  WriterInv'
<1>1. /\ at' \in [Writers -> {"begin", "write", "replace", "cleanup", "end", "killed"}]
      /\ temp' \in [Writers -> {"absent", "part", "whole"}]
  BY DEF WriterInv
<1>2. placed' \cap raised' = {}
  BY DEF WriterInv
<1>3. at'[w] = to /\ temp'[w] = file
  BY DEF WriterInv
<1>4. ASSUME NEW x \in Writers, x # w
      PROVE  /\ at'[x] = at[x] /\ temp'[x] = temp[x]
             /\ x \in placed' <=> x \in placed
             /\ x \in raised' <=> x \in raised
  BY <1>4 DEF WriterInv
<1>5. ASSUME NEW x \in Writers
      PROVE  /\ at'[x] \in {"begin", "write", "replace"} => x \notin placed' \cup raised'
             /\ at'[x] = "replace" => temp'[x] = "whole"
             /\ at'[x] \in {"cleanup", "end"} => x \in placed' \cup raised'
             /\ at'[x] = "end" => temp'[x] = "absent"
  BY <1>3, <1>4 DEF WriterInv
<1>. QED
  BY <1>1, <1>2, <1>5 DEF WriterInv

LEMMA WriterStep ==
  ASSUME WriterInv, NEW w \in Writers,
         MakeTemp(w) \/ WriteTemp(w) \/ Replace(w) \/ CleanUp(w) \/ Kill(w)
  PROVE  WriterInv'
<1>. temp[w] \in {"absent", "part", "whole"} /\ temp = [temp EXCEPT ![w] = temp[w]]
  BY DEF WriterInv
<1>1. CASE MakeTemp(w)
  BY <1>1, OneWriterMoves DEF MakeTemp, WriterInv, Step, Leave
<1>2. CASE WriteTemp(w)
  BY <1>2, OneWriterMoves DEF WriteTemp, WriterInv, Step, Leave
<1>3. CASE Replace(w)
  <2>1. temp[w] = "whole" /\ w \notin placed \cup raised
        /\ at' = [at EXCEPT ![w] = "cleanup"] /\ target.full
    BY <1>3 DEF Replace, Step, WriterInv
  <2>2. CASE temp' = [temp EXCEPT ![w] = "absent"] /\ UNCHANGED raised
             /\ target' = [by |-> w, full |-> temp[w] = "whole"]
             /\ placed' = placed \cup {w}
    <3>1. target'.full
      BY <2>1, <2>2
    <3>. QED
      BY <2>1, <2>2, <3>1, OneWriterMoves
  <2>3. CASE raised' = raised \cup {w} /\ UNCHANGED <<temp, target, placed>>
    BY <2>1, <2>3, OneWriterMoves
  <2>. QED
    BY <1>3, <2>2, <2>3 DEF Replace, Leave
<1>4. CASE CleanUp(w)
  BY <1>4, OneWriterMoves DEF CleanUp, WriterInv, Step, Leave
<1>5. CASE Kill(w)
  BY <1>5, OneWriterMoves DEF Kill, WriterInv, Step, Leave
<1>. QED
  BY <1>1, <1>2, <1>3, <1>4, <1>5

LEMMA WriterInductive == WriterSpec => []WriterInv
<1>1. WriterInit => WriterInv
  BY DEF WriterInit, WriterInv, Original
<1>2. WriterInv /\ [WriterNext]_writerVars => WriterInv'
  BY WriterStep DEF WriterNext, writerVars, WriterInv
<1>. QED
  BY <1>1, <1>2, PTL DEF WriterSpec

\* Readers find the original or all of what one writer wrote; who was raised to
\* has not replaced the file, who returned has.
THEOREM FileWhole == WriterSpec => []ReplacedOrNot
<1>1. WriterInv => ReplacedOrNot
  BY DEF WriterInv, ReplacedOrNot
<1>. QED
  BY <1>1, WriterInductive, PTL

\* Only killed writers leave a temporary file.
THEOREM NoLitter == WriterSpec => []NoTempLeft
<1>1. WriterInv => NoTempLeft
  BY DEF WriterInv, NoTempLeft
<1>. QED
  BY <1>1, WriterInductive, PTL

-----------------------------------------------------------------------------
(* The numpy weight cache *)

\* No process is killed while weight_names.json is open: without this the dump
\* is lost for good (NpWeightCacheCrash.cfg).
NamesWritten == "write_names" \notin CrashPoints

LEMMA LengthNat == Len(Weights) \in Nat \ {0} /\ Numbers = 1..Len(Weights)
  BY WeightsAssumption DEF Numbers

\* The processes that dump hold the lock, and the lock has one holder.
LEMMA LockMeansOne == LockInv /\ Types => OneDumps
<1> SUFFICES ASSUME LockInv, Types PROVE OneDumps
  OBVIOUS
<1> DEFINE D == {p \in Processes : Dumping(p)}
<1>1. \A p, q \in D : p = q
  BY DEF LockInv, Holding
<1>2. CASE D = {}
  BY <1>2, FS_EmptySet DEF OneDumps
<1>3. CASE D # {}
  <2>1. PICK p \in D : TRUE
    BY <1>3
  <2>2. D = {p}
    BY <1>1, <2>1
  <2>3. Cardinality(D) = 1
    BY <2>2, FS_Singleton
  <2> QED
    BY <2>3 DEF OneDumps
<1> QED
  BY <1>2, <1>3

LEMMA InitIInv == Init => IInv
<1> SUFFICES ASSUME Init PROVE IInv
  OBVIOUS
<1>1. Types
  BY LengthNat, CrashAssumption DEF Init, Types, Stages
<1>2. LockInv
  BY DEF Init, LockInv, Holding, Dumping
<1>3. DumpInv /\ NamesInv
  BY DEF Init, DumpInv, NamesInv
<1> QED
  BY <1>1, <1>2, <1>3 DEF IInv

\* Types and the lock need nothing of the disk, nor of where crashes happen.
LEMMA NextLock == Types /\ LockInv /\ [Next]_vars => Types' /\ LockInv'
<1> SUFFICES ASSUME Types, LockInv, [Next]_vars PROVE Types' /\ LockInv'
  OBVIOUS
<1> USE LengthNat DEF Types
<1>0. CASE UNCHANGED vars
  BY <1>0 DEF vars, LockInv, Holding, Dumping
<1> SUFFICES ASSUME NEW p \in Processes, Work(p) \/ Crash(p)
             PROVE  Types' /\ LockInv'
  BY <1>0 DEF Next
<1>1. CASE Acquire(p)
  <2>1. Types' BY <1>1 DEF Acquire, Goto, Stages
  <2>2. LockInv' BY <1>1 DEF Acquire, Goto, LockInv, Holding, Dumping
  <2> QED BY <2>1, <2>2
<1>2. CASE CheckDumped(p)
  <2>1. Types' BY <1>2 DEF CheckDumped, Goto, Release, Stages
  <2>2. LockInv' BY <1>2 DEF CheckDumped, Goto, Release, LockInv, Holding, Dumping
  <2> QED BY <2>1, <2>2
<1>3. CASE CheckMissing(p)
  <2>1. Types' BY <1>3 DEF CheckMissing, Goto, Stages
  <2>2. LockInv' BY <1>3 DEF CheckMissing, Goto, LockInv, Holding, Dumping
  <2> QED BY <2>1, <2>2
<1>4. CASE OpenParam(p)
  <2>1. Types' BY <1>4 DEF OpenParam, Goto, Stages
  <2>2. LockInv' BY <1>4 DEF OpenParam, Goto, LockInv, Holding, Dumping
  <2> QED BY <2>1, <2>2
<1>5. CASE SaveParam(p)
  <2>1. Types' BY <1>5 DEF SaveParam, Goto, Stages
  <2>2. LockInv' BY <1>5 DEF SaveParam, Goto, LockInv, Holding, Dumping
  <2> QED BY <2>1, <2>2
<1>6. CASE OpenNames(p)
  <2>1. Types' BY <1>6 DEF OpenNames, Goto, Stages
  <2>2. LockInv' BY <1>6 DEF OpenNames, Goto, LockInv, Holding, Dumping
  <2> QED BY <2>1, <2>2
<1>7. CASE WriteNames(p)
  <2>1. Types' BY <1>7 DEF WriteNames, Goto, Release, Stages
  <2>2. LockInv' BY <1>7 DEF WriteNames, Goto, Release, LockInv, Holding, Dumping
  <2> QED BY <2>1, <2>2
<1>8. CASE ReadNames(p)
  <2>1. Types' BY <1>8 DEF ReadNames, Goto, Stages
  <2>2. LockInv' BY <1>8 DEF ReadNames, Goto, LockInv, Holding, Dumping
  <2> QED BY <2>1, <2>2
<1>9. CASE LoadParam(p)
  <2>1. Types' BY <1>9 DEF LoadParam, Goto, Stages
  <2>2. LockInv' BY <1>9 DEF LoadParam, Goto, LockInv, Holding, Dumping
  <2> QED BY <2>1, <2>2
<1>10. CASE Restart(p)
  <2>1. Types' BY <1>10 DEF Restart, Stages
  <2>2. LockInv' BY <1>10 DEF Restart, LockInv, Holding, Dumping
  <2> QED BY <2>1, <2>2
<1>11. CASE Crash(p)
  <2>1. Types' BY <1>11, CrashAssumption DEF Crash, Release, Stages
  <2>2. LockInv' BY <1>11 DEF Crash, Release, LockInv, Holding, Dumping
  <2> QED BY <2>1, <2>2
<1> QED
  BY <1>1, <1>2, <1>3, <1>4, <1>5, <1>6, <1>7, <1>8, <1>9, <1>10, <1>11 DEF Work

LEMMA NextIInv == NamesWritten /\ IInv /\ [Next]_vars => IInv'
<1> SUFFICES ASSUME NamesWritten, IInv, [Next]_vars PROVE IInv'
  OBVIOUS
<1> SUFFICES DumpInv' /\ NamesInv'
  BY NextLock DEF IInv
<1> USE LengthNat DEF IInv, Types, WholeBelow
<1>0. CASE UNCHANGED vars
  BY <1>0 DEF vars, DumpInv, NamesInv
<1> SUFFICES ASSUME NEW p \in Processes, Work(p) \/ Crash(p)
             PROVE  DumpInv' /\ NamesInv'
  BY <1>0 DEF Next
<1>1. CASE Acquire(p)
  BY <1>1 DEF Acquire, Goto, DumpInv, NamesInv
<1>2. CASE CheckDumped(p)
  <2>1. names = "whole"
    BY <1>2 DEF CheckDumped, Goto, NamesInv, LockInv, Holding, Dumping
  <2> QED
    BY <1>2, <2>1 DEF CheckDumped, Goto, DumpInv, NamesInv
<1>3. CASE CheckMissing(p)
  BY <1>3 DEF CheckMissing, Goto, DumpInv, NamesInv
<1>4. CASE OpenParam(p)
  <2>1. names = "absent" /\ \A q \in Processes : Dumping(q) => q = p
    BY <1>4 DEF OpenParam, Goto, DumpInv, LockInv, Holding, Dumping
  <2> QED
    BY <1>4, <2>1 DEF OpenParam, Goto, DumpInv, NamesInv, Dumping
<1>5. CASE SaveParam(p)
  <2>1. names = "absent" /\ \A q \in Processes : Dumping(q) => q = p
    BY <1>5 DEF SaveParam, Goto, DumpInv, LockInv, Holding, Dumping
  <2> QED
    BY <1>5, <2>1 DEF SaveParam, Goto, DumpInv, NamesInv, Dumping
<1>6. CASE OpenNames(p)
  <2>1. names = "absent" /\ \A q \in Processes : Dumping(q) => q = p
    BY <1>6 DEF OpenNames, Goto, DumpInv, LockInv, Holding, Dumping
  <2> QED
    BY <1>6, <2>1 DEF OpenNames, Goto, DumpInv, NamesInv, Dumping
<1>7. CASE WriteNames(p)
  <2>1. names = "open" /\ \A q \in Processes : Dumping(q) => q = p
    BY <1>7 DEF WriteNames, Goto, DumpInv, LockInv, Holding, Dumping
  <2> QED
    BY <1>7, <2>1 DEF WriteNames, Goto, DumpInv, NamesInv, Dumping
<1>8. CASE ReadNames(p)
  BY <1>8 DEF ReadNames, Goto, DumpInv, NamesInv
<1>9. CASE LoadParam(p)
  BY <1>9 DEF LoadParam, Goto, DumpInv, NamesInv
<1>10. CASE Restart(p)
  BY <1>10 DEF Restart, DumpInv, NamesInv
<1>11. CASE Crash(p)
  BY <1>11 DEF Crash, DumpInv, NamesInv, NamesWritten
<1> QED
  BY <1>1, <1>2, <1>3, <1>4, <1>5, <1>6, <1>7, <1>8, <1>9, <1>10, <1>11 DEF Work

\* The invariant: the state on disk follows from where the lock's holder is
\* (np_cache_weights_iterator, the body of the with statement).
THEOREM DumpFollowsHolder == NamesWritten => (Spec => []IInv)
<1> SUFFICES ASSUME NamesWritten PROVE Spec => []IInv
  OBVIOUS
<1>1. IInv /\ [Next]_vars => IInv'
  BY NextIInv
<1> QED
  BY InitIInv, <1>1, PTL DEF Spec

\* No two processes dump the same weights at the same time, however many are
\* killed and started again (get_lock).
THEOREM OneDumpsAtATime == Spec => []OneDumps
<1>1. Init => Types /\ LockInv
  BY InitIInv DEF IInv
<1>2. Types /\ LockInv /\ [Next]_vars => (Types /\ LockInv)'
  BY NextLock
<1>3. Types /\ LockInv => OneDumps
  BY LockMeansOne
<1> QED
  BY <1>1, <1>2, <1>3, PTL DEF Spec

\* A process that reads after releasing the lock finds every file whole and
\* nobody writing (the two open calls after the with statement).
THEOREM ReadersFindAll == NamesWritten => (Spec => []ReadersFindDump)
<1> SUFFICES ASSUME NamesWritten PROVE Spec => []ReadersFindDump
  OBVIOUS
<1>1. IInv => ReadersFindDump
  <2> SUFFICES ASSUME IInv, NEW p \in Processes, pc[p] \in {"read_names", "load"}
               PROVE  /\ names = "whole" /\ \A w \in Numbers : files[w] = "whole"
                      /\ \A q \in Processes : ~Dumping(q)
    BY DEF ReadersFindDump
  <2>1. names = "whole"
    BY DEF IInv, DumpInv
  <2>2. \A w \in Numbers : files[w] = "whole"
    BY <2>1, LengthNat DEF IInv, NamesInv, WholeBelow
  <2>3. \A q \in Processes : ~Dumping(q)
    BY <2>1 DEF IInv, DumpInv, Dumping
  <2> QED
    BY <2>1, <2>2, <2>3
<1> QED
  BY DumpFollowsHolder, <1>1, PTL
=============================================================================
