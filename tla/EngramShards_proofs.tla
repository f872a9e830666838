-------------------------- MODULE EngramShards_proofs --------------------------
(***************************************************************************)
(* That every thread gets every head's row of its own tokens, and that no  *)
(* staging buffer is too small, for any number of replicas, ranks, micro-  *)
(* batches, heads and tokens.  The invariant follows the data through the  *)
(* three exchanges: what a thread has in its hash ids, its staging buffer  *)
(* and its rows is told by where it is.                                    *)
(***************************************************************************)
EXTENDS EngramShards, WellFoundedInduction, TLAPS

\* Rows are staged before the forward for one replica and one micro-batch only
\* (otherwise output is lost: ShardsPrestageDP.cfg, and README, Findings).
PrestageAlone == \A s \in Setups : s.prestage => s.dp = 1 /\ s.ubatches = 1

\* The hash ids a thread makes in step s, and those it looks up there.
OwnIds(th, s) == IF plan[s][th[1]].real THEN Tokens(th, s) ELSE DummyTokens(th, s)
AllIds(th)    == GatherHashes([d \in Replicas |-> OwnIds(DPGroup(th)[d], step[th])], Slot(th))
LookedUp(th)  == IF DPSize > 1 THEN AllIds(th) ELSE OwnIds(th, step[th])

\* The heads of a TP rank's shards, side by side, for a thread's own tokens.
OwedRows(th) ==
  [i \in 0..(NumTokens(th) - 1) |-> [c \in 0..(DPSize * PartCols - 1) |->
     IF th[2] * (DPSize * PartCols) + c < NumCols /\ Batch(th).real
     THEN Row(Token(step[th], th[1], th[3], i), th[2] * (DPSize * PartCols) + c)
     ELSE Zero]]

\* A buffer begins with the given rows.
Begins(buf, new) == \A i \in DOMAIN new : buf[i] = new[i]

Types ==
  /\ setup \in Setups /\ plan \in Seq([Replicas -> Batches])
  /\ pc \in [Threads -> {"idle", "ids", "lookup", "embed", "heads"}]
  /\ step \in [Threads -> 0..Len(plan)]
  /\ \A th \in Threads : step[th] = 0 => pc[th] = "idle" /\ out[th] = << >>
  /\ ids = [th \in Threads |-> ids[th]] /\ rows = [th \in Threads |-> rows[th]]
  /\ out = [th \in Threads |-> out[th]]
  /\ staged = [r \in Ranks |-> [u \in Ubatches |-> staged[r][u]]]
  /\ \A r \in Ranks, u \in Ubatches : DOMAIN staged[r][u] = 0..(Capacity - 1)
  /\ ready \in [Ranks -> 0..Len(plan)]

\* What a thread has in hand, by where it is.
Phase(th) ==
  /\ pc[th] = "ids" => DPSize > 1 /\ ids[th] = OwnIds(th, step[th])
  /\ pc[th] = "lookup" => ids[th] = LookedUp(th)
  /\ pc[th] = "embed" => Begins(staged[RankOf(th)][th[3]], Lookup(RankOf(th), LookedUp(th)))
  /\ pc[th] = "heads" => rows[th] = OwedRows(th)
  /\ out[th] # << >> => out[th] = Owed(th)

\* The stager is at most one step ahead of its rank, which reads what it staged.
Prestaged(th) ==
  Prestage =>
    /\ ready[RankOf(th)] \in {step[th], step[th] + 1}
    /\ pc[th] # "idle" => step[th] = ready[RankOf(th)]
    /\ ready[RankOf(th)] # 0 =>
         Begins(staged[RankOf(th)][0],
                Lookup(RankOf(th), OwnIds(th, ready[RankOf(th)])))

\* A planned step has work on some replica.
Planned == \A s \in DOMAIN plan : \E d \in Replicas : plan[s][d].real

IInv == /\ Types /\ Planned
        /\ \A th \in Threads : Phase(th) /\ Prestaged(th)

-----------------------------------------------------------------------------
(* Division *)

LEMMA DivMod ==
  ASSUME NEW p \in Nat, NEW d \in Nat \ {0}
  PROVE  /\ p \div d \in Nat /\ p % d \in 0..(d - 1)
         /\ p = (p \div d) * d + (p % d)
  BY SMT

LEMMA Multiples ==
  ASSUME NEW a \in Nat, NEW b \in Nat, NEW d \in Nat \ {0}
  PROVE  /\ a * d \in Nat /\ b * d \in Nat
         /\ a <= b => a * d <= b * d
         /\ a < b => a * d + d <= b * d
<1>1. a * d \in Nat /\ b * d \in Nat
  BY SMT
<1>2. ASSUME a < b PROVE a * d + d <= b * d
  <2>1. b - a - 1 \in Nat /\ b = a + 1 + (b - a - 1)
    BY <1>2
  <2>2. PICK e \in Nat : b = a + 1 + e
    BY <2>1
  <2>3. b * d = a * d + d + e * d /\ e * d \in Nat
    BY <2>2
  <2>. QED
    BY <1>1, <2>3
<1>3. a = b => a * d <= b * d
  BY <1>1
<1>. QED
  BY <1>1, <1>2, <1>3

\* A number is known by its last digit and the rest.
LEMMA Digits ==
  ASSUME NEW q \in Nat, NEW d \in Nat \ {0}, NEW r \in 0..(d - 1)
  PROVE  /\ q * d + r \in Nat
         /\ (q * d + r) \div d = q /\ (q * d + r) % d = r
<1> DEFINE k == q * d + r
           p == k \div d
           m == k % d
<1>1. q * d \in Nat /\ k \in Nat
  BY Multiples
<1>2. p \in Nat /\ m \in 0..(d - 1) /\ k = p * d + m
  BY <1>1, DivMod
<1>3. k = q * d + r
  OBVIOUS
<1> HIDE DEF k, p, m
<1>4. q < p => q * d + d <= p * d
  BY <1>2, Multiples
<1>5. p < q => p * d + d <= q * d
  BY <1>2, Multiples
<1>6. p * d \in Nat
  BY <1>2, Multiples
<1>7. p = q
  BY <1>1, <1>2, <1>3, <1>4, <1>5, <1>6
<1>8. m = r
  BY <1>1, <1>2, <1>3, <1>7
<1>. QED
  BY <1>1, <1>3, <1>7, <1>8 DEF k, p, m

\* A number below a * d has its quotient below a.
LEMMA QuotientBelow ==
  ASSUME NEW p \in Nat, NEW a \in Nat, NEW d \in Nat \ {0}, p < a * d
  PROVE  p \div d \in 0..(a - 1)
<1> DEFINE q == p \div d
<1>1. q \in Nat /\ p % d \in 0..(d - 1) /\ p = q * d + (p % d)
  BY DivMod
<1> HIDE DEF q
<1>2. a <= q => a * d <= q * d
  BY <1>1, Multiples
<1>3. q * d \in Nat /\ a * d \in Nat
  BY <1>1, Multiples
<1>4. q < a
  BY <1>1, <1>2, <1>3
<1>. QED
  BY <1>1, <1>4 DEF q

\* A number written with a digit below d is below a * d.
LEMMA DigitsBelow ==
  ASSUME NEW a \in Nat, NEW d \in Nat \ {0}, NEW q \in 0..(a - 1), NEW r \in 0..(d - 1)
  PROVE  q * d + r \in 0..(a * d - 1)
<1>1. q \in Nat /\ q < a
  OBVIOUS
<1>2. q * d + d <= a * d /\ q * d \in Nat /\ a * d \in Nat
  BY <1>1, Multiples
<1>. QED
  BY <1>2

LEMMA CeilDivCovers ==
  ASSUME NEW a \in Nat \ {0}, NEW b \in Nat \ {0}
  PROVE  CeilDiv(a, b) \in Nat \ {0} /\ a <= CeilDiv(a, b) * b
<1> DEFINE q == (a + b - 1) \div b
<1>1. a + b - 1 \in Nat
  OBVIOUS
<1>2. q \in Nat /\ (a + b - 1) % b \in 0..(b - 1)
      /\ a + b - 1 = q * b + ((a + b - 1) % b)
  BY <1>1, DivMod
<1>3. CeilDiv(a, b) = q
  BY DEF CeilDiv
<1> HIDE DEF q
<1>4. q * b \in Nat
  BY <1>2, Multiples
<1>5. a <= q * b
  BY <1>2, <1>4
<1>6. q # 0
  BY <1>2, <1>5
<1>. QED
  BY <1>2, <1>3, <1>5, <1>6

\* The ranks' columns side by side, of the tokens from `first` on: what
\* SelectRows picks from the flat buffer.
Abreast(parts, tokens, first, n, local, width) ==
  [i \in 0..(n - 1) |-> [c \in 0..(width - 1) |->
     IF first + i < tokens
     THEN parts[c \div local][first + i][c % local] ELSE Zero]]

LEMMA SelectedRows ==
  ASSUME NEW parts, NEW tokens \in Nat \ {0}, NEW first \in Nat, NEW n \in Nat,
         NEW local \in Nat \ {0}, NEW width \in Nat
  PROVE  SelectRows(parts, tokens, first, n, local, width)
           = Abreast(parts, tokens, first, n, local, width)
<1> SUFFICES ASSUME NEW i \in 0..(n - 1), NEW c \in 0..(width - 1), first + i < tokens
             PROVE  Flat(parts, tokens, local,
                         ((c \div local) * tokens + first + i) * local + (c % local))
                      = parts[c \div local][first + i][c % local]
  BY DEF SelectRows, Abreast
<1> DEFINE a == first + i
           q == c \div local
           b == c % local
<1>1. a \in 0..(tokens - 1) /\ i \in Nat
  OBVIOUS
<1>2. q \in Nat /\ b \in 0..(local - 1)
  <2>1. c \in Nat
    OBVIOUS
  <2>. QED
    BY <2>1, DivMod
<1>3. q * tokens + first + i = q * tokens + a
  <2>1. q * tokens \in Nat
    <3> HIDE DEF q
    <3>. QED
      BY <1>2, Multiples
  <2> DEFINE y == q * tokens
  <2> HIDE DEF y
  <2>2. y + first + i = y + (first + i)
    BY <1>1, <2>1 DEF y
  <2>. QED
    BY <2>2 DEF y
<1> HIDE DEF a, q, b
<1> DEFINE t == q * tokens + a
           k == t * local + b
<1>4. t \in Nat /\ t \div tokens = q /\ t % tokens = a
  BY <1>1, <1>2, Digits
<1>5. k \in Nat /\ k \div local = t /\ k % local = b
  <2> HIDE DEF t
  <2>. QED
    BY <1>2, <1>4, Digits DEF k
<1>6. k \div (tokens * local) = q
  <2> DEFINE w == tokens * local
             r == a * local + b
  <2>1. w \in Nat \ {0}
    BY Multiples
  <2>2. r \in 0..(w - 1)
    BY <1>1, <1>2, DigitsBelow
  <2>3. k = q * w + r
    BY <1>1, <1>2 DEF t, k
  <2> HIDE DEF w, r, k, t
  <2>4. k \div w = q
    BY <1>2, <2>1, <2>2, <2>3, Digits
  <2>. QED
    BY <2>4 DEF w
<1>7. Flat(parts, tokens, local, k) = parts[q][a][b]
  <2> HIDE DEF k
  <2>. QED
    BY <1>4, <1>5, <1>6 DEF Flat
<1>. QED
  BY <1>3, <1>7 DEF a, q, b

\* A non-empty set of bounded numbers has a greatest one.
LEMMA Greatest ==
  ASSUME NEW b \in Nat, NEW S, S \subseteq 0..b, S # {}
  PROVE  \E m \in S : \A k \in S : k <= m
<1> DEFINE T == {b - x : x \in S}
<1>1. T \subseteq Nat /\ T # {}
  <2>1. PICK x \in S : TRUE
    OBVIOUS
  <2>2. b - x \in T
    BY <2>1
  <2>3. \A x1 \in S : x1 \in 0..b
    OBVIOUS
  <2>4. \A x1 \in S : b - x1 \in Nat
    BY <2>3
  <2>. QED
    BY <2>2, <2>4
<1>2. PICK t \in T : \A y \in T : <<y, t>> \notin OpToRel(<, Nat)
  <2> HIDE DEF T
  <2>. QED
    BY <1>1, NatLessThanWellFounded, WFMin, Zenon
<1>3. \A y \in T : ~(y < t)
  <2>1. \A y, z \in Nat : y < z => <<y, z>> \in OpToRel(<, Nat)
    BY Zenon DEF OpToRel
  <2> HIDE DEF T
  <2>. QED
    BY <1>1, <1>2, <2>1
<1>4. PICK m \in S : t = b - m
  OBVIOUS
<1>5. \A k \in S : k <= m
  <2> TAKE k \in S
  <2>1. b - k \in T
    OBVIOUS
  <2>2. ~(b - k < b - m)
    BY <1>3, <1>4, <2>1
  <2>. QED
    BY <2>2
<1>. QED
  BY <1>5

-----------------------------------------------------------------------------
(* Deployments, threads and groups *)

LEMMA Sizes ==
  ASSUME Types
  PROVE  /\ {DPSize, TPSize, NumUbatches, NumCols, MaxTokens} \subseteq Nat \ {0}
         /\ PartCols \in Nat \ {0} /\ Capacity \in Nat
         /\ DPSize * PartCols \in Nat \ {0}
         /\ NumCols <= TPSize * (DPSize * PartCols)
         /\ MaxTokens * DPSize <= Capacity /\ MaxTokens <= Capacity
<1>1. setup \in Setup
  BY SetupAssumption DEF Types
<1>2. {DPSize, TPSize, NumUbatches, NumCols, MaxTokens} \subseteq Nat \ {0}
  BY <1>1 DEF Setup, DPSize, TPSize, NumUbatches, NumCols, MaxTokens
<1> DEFINE n == TPSize * DPSize
           t == MaxTokens * DPSize
<1>3. n \in Nat \ {0} /\ t \in Nat \ {0} /\ MaxTokens <= t
  <2>1. n \in Nat /\ n # 0
    BY <1>2
  <2>2. t \in Nat /\ 1 * MaxTokens <= DPSize * MaxTokens
    BY <1>2, Multiples
  <2>. QED
    BY <1>2, <2>1, <2>2
<1>4. PartCols = CeilDiv(NumCols, n)
  BY DEF PartCols, PartColsOf, NumCols, TPSize, DPSize
<1> HIDE DEF n, t
<1>5. PartCols \in Nat \ {0} /\ NumCols <= PartCols * n
  BY <1>2, <1>3, <1>4, CeilDivCovers
<1>6. DPSize * PartCols \in Nat \ {0} /\ PartCols * n = TPSize * (DPSize * PartCols)
  BY <1>2, <1>5 DEF n
<1>7. Capacity \in Nat /\ t <= Capacity
  <2>1. t * NumUbatches = Capacity
    BY <1>2 DEF Capacity, t
  <2>2. 1 * t <= NumUbatches * t
    BY <1>2, <1>3, Multiples
  <2>. QED
    BY <1>2, <1>3, <2>1, <2>2
<1>. QED
  BY <1>2, <1>3, <1>5, <1>6, <1>7 DEF t

LEMMA Groups ==
  ASSUME Types, NEW th \in Threads
  PROVE  /\ th[1] \in Replicas /\ th[2] \in TPRanks /\ th[3] \in Ubatches
         /\ th = <<th[1], th[2], th[3]>> /\ RankOf(th) \in Ranks
         /\ \A d \in Replicas : /\ DPGroup(th)[d] = <<d, th[2], th[3]>>
                                /\ DPGroup(th)[d] \in Threads
         /\ \A t \in TPRanks : /\ TPGroup(th)[t] = <<th[1], t, th[3]>>
                               /\ TPGroup(th)[t] \in Threads
         /\ 0 \in Replicas /\ 0 \in TPRanks
         /\ DOMAIN DPGroup(th) = Replicas /\ DOMAIN TPGroup(th) = TPRanks
<1>1. 0 \in Replicas /\ 0 \in TPRanks
  BY Sizes DEF Replicas, TPRanks
<1>. QED
  BY <1>1 DEF Threads, DPGroup, TPGroup, RankOf, Ranks

\* A planned step's micro-batches.
LEMMA PlanAt ==
  ASSUME Types, NEW s \in DOMAIN plan, NEW d \in Replicas, NEW u \in Ubatches
  PROVE  plan[s][d].real \in BOOLEAN /\ plan[s][d].n[u] \in 1..MaxTokens
<1>1. plan[s] \in [Replicas -> Batches]
  BY DEF Types
<1>2. plan[s][d] \in Batches
  BY <1>1
<1>. QED
  BY <1>2 DEF Batches

\* The common slot has room for every replica's micro-batch.
LEMMA SlotCovers ==
  ASSUME Types, NEW th \in Threads, step[th] \in DOMAIN plan
  PROVE  /\ Slot(th) \in 1..MaxTokens
         /\ \A d \in Replicas : plan[step[th]][d].n[th[3]] <= Slot(th)
<1> DEFINE S == {plan[step[th]][d].n[th[3]] : d \in Replicas}
<1>1. S \subseteq 1..MaxTokens /\ S # {}
  <2>1. \A d \in Replicas : plan[step[th]][d].n[th[3]] \in 1..MaxTokens
    BY PlanAt, Groups
  <2>2. 0 \in Replicas
    BY Groups
  <2>3. plan[step[th]][0].n[th[3]] \in S
    BY <2>2
  <2>. QED
    BY <2>1, <2>3
<1>2. \E m \in S : \A k \in S : k <= m
  <2>1. MaxTokens \in Nat /\ S \subseteq 0..MaxTokens
    BY <1>1, Sizes
  <2> HIDE DEF S
  <2>. QED
    BY <1>1, <2>1, Greatest
<1>3. Slot(th) = CHOOSE m \in S : \A k \in S : k <= m
  BY DEF Slot
<1>4. Slot(th) \in S /\ \A k \in S : k <= Slot(th)
  <2> HIDE DEF S
  <2>. QED
    BY <1>2, <1>3
<1>5. \A d \in Replicas : plan[step[th]][d].n[th[3]] \in S
  OBVIOUS
<1>. QED
  BY <1>1, <1>4, <1>5

-----------------------------------------------------------------------------
(* What the exchanges return *)

LEMMA OwnIdsAre ==
  ASSUME Types, NEW th \in Threads, NEW s \in DOMAIN plan
  PROVE  LET b == plan[s][th[1]]
         IN  /\ b.n[th[3]] \in 1..MaxTokens /\ DOMAIN OwnIds(th, s) = 0..(b.n[th[3]] - 1)
             /\ \A i \in 0..(b.n[th[3]] - 1) :
                  /\ OwnIds(th, s)[i] = IF b.real THEN Token(s, th[1], th[3], i) ELSE Dead
                  /\ OwnIds(th, s)[i] # Dead <=> b.real
<1>1. plan[s][th[1]].n[th[3]] \in 1..MaxTokens
  BY PlanAt, Groups
<1>2. \A i \in Nat : Token(s, th[1], th[3], i) # Dead
  BY DEF Token, Dead
<1>. QED
  BY <1>1, <1>2 DEF OwnIds, Tokens, DummyTokens

\* In the gathered ids, every replica's are in its own slot.
LEMMA AllIdsAre ==
  ASSUME Types, NEW th \in Threads, step[th] \in DOMAIN plan
  PROVE  /\ DOMAIN AllIds(th) = 0..(DPSize * Slot(th) - 1)
         /\ \A d \in Replicas : \A i \in 0..(plan[step[th]][d].n[th[3]] - 1) :
              /\ d * Slot(th) + i \in DOMAIN AllIds(th)
              /\ AllIds(th)[d * Slot(th) + i] = OwnIds(DPGroup(th)[d], step[th])[i]
<1> DEFINE slot == Slot(th)
           parts == [d \in Replicas |-> OwnIds(DPGroup(th)[d], step[th])]
<1>1. slot \in Nat \ {0} /\ DPSize \in Nat \ {0} /\ MaxTokens \in Nat
  BY SlotCovers, Sizes
<1>2. AllIds(th) = GatherHashes(parts, slot)
  BY DEF AllIds
<1>3. ASSUME NEW d \in Replicas, NEW i \in 0..(plan[step[th]][d].n[th[3]] - 1)
      PROVE  /\ d * slot + i \in 0..(DPSize * slot - 1)
             /\ (d * slot + i) \div slot = d /\ (d * slot + i) % slot = i
             /\ i \in DOMAIN parts[d] /\ parts[d] = OwnIds(DPGroup(th)[d], step[th])
  <2>1. DPGroup(th)[d] = <<d, th[2], th[3]>> /\ DPGroup(th)[d] \in Threads
    BY Groups
  <2>2. parts[d] = OwnIds(DPGroup(th)[d], step[th])
    OBVIOUS
  <2>3. i \in DOMAIN parts[d] /\ plan[step[th]][d].n[th[3]] \in 1..MaxTokens
    BY <2>1, <2>2, OwnIdsAre
  <2>4. plan[step[th]][d].n[th[3]] <= slot
    BY SlotCovers
  <2> HIDE DEF slot, parts
  <2>5. d \in Nat /\ d \in 0..(DPSize - 1)
    BY <1>1 DEF Replicas
  <2>6. i \in 0..(slot - 1)
    BY <1>1, <2>3, <2>4
  <2>. QED
    BY <1>1, <2>2, <2>3, <2>5, <2>6, DigitsBelow, Digits
<1> HIDE DEF slot, parts
<1>4. DOMAIN AllIds(th) = 0..(DPSize * slot - 1)
  BY <1>2 DEF GatherHashes
<1>5. ASSUME NEW d \in Replicas, NEW i \in 0..(plan[step[th]][d].n[th[3]] - 1)
      PROVE  AllIds(th)[d * slot + i] = OwnIds(DPGroup(th)[d], step[th])[i]
  <2> DEFINE k == d * slot + i
  <2>1. k \in 0..(DPSize * slot - 1) /\ k \div slot = d /\ k % slot = i
    BY <1>3
  <2> HIDE DEF k
  <2>2. AllIds(th)[k] = parts[d][i]
    BY <1>2, <1>3, <2>1 DEF GatherHashes
  <2>. QED
    BY <1>3, <2>2 DEF k
<1>. QED
  BY <1>3, <1>4, <1>5 DEF slot

\* No lookup is larger than the staging buffer.
LEMMA LookedUpFits ==
  ASSUME Types, NEW th \in Threads, step[th] \in DOMAIN plan
  PROVE  DOMAIN LookedUp(th) \subseteq 0..(Capacity - 1)
<1>1. {DPSize, MaxTokens} \subseteq Nat \ {0} /\ Capacity \in Nat
      /\ MaxTokens * DPSize <= Capacity /\ MaxTokens <= Capacity
  BY Sizes
<1>2. DPSize * Slot(th) <= MaxTokens * DPSize /\ DPSize * Slot(th) \in Nat
  <2>1. Slot(th) \in Nat /\ Slot(th) <= MaxTokens
    BY SlotCovers, <1>1
  <2>2. Slot(th) * DPSize <= MaxTokens * DPSize /\ Slot(th) * DPSize \in Nat
    BY <1>1, <2>1, Multiples
  <2>. QED
    BY <1>1, <2>1, <2>2
<1>3. CASE DPSize > 1
  <2>1. DOMAIN LookedUp(th) = 0..(DPSize * Slot(th) - 1)
    BY <1>3, AllIdsAre DEF LookedUp
  <2>2. MaxTokens * DPSize \in Nat
    BY <1>1
  <2>. QED
    BY <1>1, <1>2, <2>1, <2>2
<1>4. CASE ~(DPSize > 1)
  <2>1. LookedUp(th) = OwnIds(th, step[th])
    BY <1>4 DEF LookedUp
  <2> DEFINE n == plan[step[th]][th[1]].n[th[3]]
  <2>2. n \in 1..MaxTokens /\ DOMAIN OwnIds(th, step[th]) = 0..(n - 1)
    BY OwnIdsAre
  <2> HIDE DEF n
  <2>. QED
    BY <1>1, <2>1, <2>2
<1>. QED
  BY <1>3, <1>4

\* One entry of a rank's lookup.
LEMMA LookupAt ==
  ASSUME NEW rank, NEW tokens, NEW i \in DOMAIN tokens, NEW c \in 0..(PartCols - 1)
  PROVE  Lookup(rank, tokens)[i][c] =
           IF HeadStart(rank) + c < NumCols /\ tokens[i] # Dead
           THEN Row(tokens[i], HeadStart(rank) + c) ELSE Zero
  BY DEF Lookup

\* The head a column of a TP rank's rows belongs to, on the shard that has it.
LEMMA HeadOf ==
  ASSUME Types, NEW t \in TPRanks, NEW c \in 0..(DPSize * PartCols - 1)
  PROVE  /\ c \div PartCols \in Replicas /\ c % PartCols \in 0..(PartCols - 1)
         /\ HeadStart(<<c \div PartCols, t>>) + (c % PartCols)
              = t * (DPSize * PartCols) + c
<1>1. DPSize \in Nat \ {0} /\ PartCols \in Nat \ {0} /\ t \in Nat
  BY Sizes DEF TPRanks
<1>2. c \in Nat /\ c < DPSize * PartCols
  BY <1>1, Multiples
<1> DEFINE q == c \div PartCols
           m == c % PartCols
<1>3. q \in 0..(DPSize - 1)
  BY <1>1, <1>2, QuotientBelow
<1>4. m \in 0..(PartCols - 1) /\ c = q * PartCols + m
  BY <1>1, <1>2, DivMod
<1>5. HeadStart(<<q, t>>) = (t * DPSize + q) * PartCols
  BY DEF HeadStart, ShardRank
<1> HIDE DEF q, m
<1>6. (t * DPSize + q) * PartCols + m = t * (DPSize * PartCols) + (q * PartCols + m)
  BY <1>1, <1>3, <1>4
<1>7. HeadStart(<<q, t>>) + m = t * (DPSize * PartCols) + c
  BY <1>4, <1>5, <1>6
<1>. QED
  BY <1>3, <1>4, <1>7 DEF q, m, Replicas

\* Without DP: a rank's own rows are in its buffer already.
LEMMA OwnRowsOwed ==
  ASSUME Types, NEW th \in Threads, step[th] \in DOMAIN plan, DPSize = 1,
         Begins(staged[RankOf(th)][th[3]], Lookup(RankOf(th), LookedUp(th)))
  PROVE  OwnRows(th) = OwedRows(th)
<1> DEFINE n == NumTokens(th)
           tokens == OwnIds(th, step[th])
           buf == staged[RankOf(th)][th[3]]
           l == DPSize * PartCols
<1>1. LookedUp(th) = tokens
  BY DEF LookedUp
<1>2. /\ n \in 1..MaxTokens /\ DOMAIN tokens = 0..(n - 1)
      /\ \A i \in 0..(n - 1) :
           /\ tokens[i] = IF Batch(th).real THEN Token(step[th], th[1], th[3], i) ELSE Dead
           /\ tokens[i] # Dead <=> Batch(th).real
  BY OwnIdsAre DEF NumTokens, Batch
<1>3. /\ OwnRows(th) = [i \in 0..(n - 1) |-> buf[i]]
      /\ OwedRows(th) = [i \in 0..(n - 1) |-> [c \in 0..(l - 1) |->
           IF th[2] * l + c < NumCols /\ Batch(th).real
           THEN Row(Token(step[th], th[1], th[3], i), th[2] * l + c) ELSE Zero]]
  BY DEF OwnRows, OwedRows, Slice, BufferOf
<1>4. RankOf(th) = <<0, th[2]>> /\ l = PartCols /\ PartCols \in Nat \ {0}
  <2>1. th[1] \in 0..0
    BY Groups DEF Replicas
  <2>. QED
    BY <2>1, Sizes DEF RankOf
<1>5. ASSUME NEW i \in 0..(n - 1)
      PROVE  buf[i] = [c \in 0..(l - 1) |->
               IF th[2] * l + c < NumCols /\ Batch(th).real
               THEN Row(Token(step[th], th[1], th[3], i), th[2] * l + c) ELSE Zero]
  <2>1. buf[i] = Lookup(RankOf(th), tokens)[i]
    <3>1. i \in DOMAIN Lookup(RankOf(th), tokens)
      BY <1>2 DEF Lookup
    <3>2. Begins(buf, Lookup(RankOf(th), tokens))
      BY <1>1
    <3> HIDE DEF buf, tokens
    <3>. QED
      BY <3>1, <3>2 DEF Begins
  <2>2. Lookup(RankOf(th), tokens)[i] =
          [c \in 0..(PartCols - 1) |->
             IF HeadStart(RankOf(th)) + c < NumCols /\ tokens[i] # Dead
             THEN Row(tokens[i], HeadStart(RankOf(th)) + c) ELSE Zero]
    BY <1>2 DEF Lookup
  <2>3. HeadStart(RankOf(th)) = th[2] * l
    BY <1>4, Groups, Sizes DEF HeadStart, ShardRank, TPRanks
  <2> HIDE DEF buf, tokens, l, n
  <2>. QED
    BY <1>2, <1>4, <2>1, <2>2, <2>3
<1>. QED
  BY <1>3, <1>5

\* With DP: the columns of every replica's shard, from the thread's own slot.
LEMMA TradedRowsOwed ==
  ASSUME Types, NEW th \in Threads, step[th] \in DOMAIN plan, DPSize > 1,
         \A d \in Replicas :
           Begins(staged[<<d, th[2]>>][th[3]], Lookup(<<d, th[2]>>, AllIds(th)))
  PROVE  TradedRows(th) = OwedRows(th)
<1> DEFINE n == NumTokens(th)
           slot == Slot(th)
           l == DPSize * PartCols
           tokens == slot * DPSize
           parts == [d \in Replicas |-> Slice(staged[<<d, th[2]>>][th[3]], tokens)]
<1>1. /\ slot \in Nat \ {0} /\ DPSize \in Nat \ {0} /\ PartCols \in Nat \ {0}
      /\ MaxTokens \in Nat /\ l \in Nat \ {0} /\ NumCols \in Nat
      /\ th[1] \in 0..(DPSize - 1) /\ th[1] \in Replicas /\ th[2] \in Nat
      /\ th[2] \in TPRanks
  <2>1. slot \in 1..MaxTokens
    BY SlotCovers
  <2>2. /\ {DPSize, MaxTokens, NumCols} \subseteq Nat \ {0} /\ PartCols \in Nat \ {0}
        /\ l \in Nat \ {0}
    BY Sizes
  <2>3. th[1] \in Replicas /\ th[2] \in TPRanks
    BY Groups
  <2> HIDE DEF slot, l
  <2>4. slot \in Nat \ {0}
    BY <2>1, <2>2
  <2>. QED
    BY <2>2, <2>3, <2>4 DEF Replicas, TPRanks
<1>2. n \in 1..MaxTokens /\ n <= slot
  BY OwnIdsAre, SlotCovers, Groups DEF NumTokens, Batch
<1>3. tokens \in Nat \ {0}
  <2> HIDE DEF slot
  <2>. QED
    BY <1>1
<1>4. TradedRows(th) = SelectRows(parts, tokens, th[1] * slot, n, PartCols, l)
  BY DEF TradedRows, BufferOf
<1>5. ASSUME NEW i \in 0..(n - 1)
      PROVE  /\ th[1] * slot + i \in 0..(tokens - 1)
             /\ th[1] * slot + i \in DOMAIN AllIds(th)
             /\ AllIds(th)[th[1] * slot + i] = OwnIds(th, step[th])[i]
  <2>1. /\ th[1] * slot + i \in DOMAIN AllIds(th)
        /\ AllIds(th)[th[1] * slot + i] = OwnIds(DPGroup(th)[th[1]], step[th])[i]
    BY <1>1, AllIdsAre DEF NumTokens, Batch
  <2>2. DPGroup(th)[th[1]] = th
    BY Groups
  <2>3. DOMAIN AllIds(th) = 0..(tokens - 1)
    <3>1. DPSize * slot = slot * DPSize
      <4> HIDE DEF slot
      <4>. QED
        BY <1>1
    <3>. QED
      BY <3>1, AllIdsAre
  <2>. QED
    BY <2>1, <2>2, <2>3
<1>6. ASSUME NEW i \in 0..(n - 1)
      PROVE  /\ OwnIds(th, step[th])[i] =
                  (IF Batch(th).real THEN Token(step[th], th[1], th[3], i) ELSE Dead)
             /\ OwnIds(th, step[th])[i] # Dead <=> Batch(th).real
  BY OwnIdsAre DEF NumTokens, Batch
<1>7. ASSUME NEW i \in 0..(n - 1), NEW c \in 0..(l - 1)
      PROVE  /\ th[1] * slot + i < tokens
             /\ parts[c \div PartCols][th[1] * slot + i][c % PartCols]
                = IF th[2] * l + c < NumCols /\ Batch(th).real
                  THEN Row(Token(step[th], th[1], th[3], i), th[2] * l + c) ELSE Zero
  <2> DEFINE a == th[1] * slot + i
             q == c \div PartCols
             m == c % PartCols
             rank == <<q, th[2]>>
  <2>1. a \in 0..(tokens - 1) /\ a \in DOMAIN AllIds(th)
        /\ AllIds(th)[a] = OwnIds(th, step[th])[i]
    BY <1>5
  <2>2. q \in Replicas /\ m \in 0..(PartCols - 1) /\ HeadStart(rank) + m = th[2] * l + c
    BY <1>1, HeadOf
  <2>3. q \in Nat
    BY <1>1, <2>2 DEF Replicas
  <2>4. parts[q][a] = staged[rank][th[3]][a]
    BY <2>1, <2>2 DEF Slice
  <2>5. staged[rank][th[3]][a] = Lookup(rank, AllIds(th))[a]
    BY <2>1, <2>2 DEF Begins, Lookup
  <2> HIDE DEF a, q, m, rank, tokens, parts, slot, l, n
  <2>6. parts[q][a][m] =
          IF HeadStart(rank) + m < NumCols /\ AllIds(th)[a] # Dead
          THEN Row(AllIds(th)[a], HeadStart(rank) + m) ELSE Zero
    BY <2>1, <2>2, <2>4, <2>5, LookupAt
  <2>7. parts[q][a][m] =
          IF th[2] * l + c < NumCols /\ Batch(th).real
          THEN Row(Token(step[th], th[1], th[3], i), th[2] * l + c) ELSE Zero
    BY <1>6, <2>1, <2>2, <2>6
  <2>8. a < tokens
    BY <1>3, <2>1
  <2>. QED
    BY <2>7, <2>8 DEF a, q, m
<1>8. OwedRows(th) = [i \in 0..(n - 1) |-> [c \in 0..(l - 1) |->
        IF th[2] * l + c < NumCols /\ Batch(th).real
        THEN Row(Token(step[th], th[1], th[3], i), th[2] * l + c) ELSE Zero]]
  BY DEF OwedRows
<1> HIDE DEF parts, slot, tokens, n, l
<1>9. /\ tokens \in Nat \ {0} /\ th[1] * slot \in Nat /\ n \in Nat
      /\ PartCols \in Nat \ {0} /\ l \in Nat
  BY <1>1, <1>2, <1>3
<1>10. SelectRows(parts, tokens, th[1] * slot, n, PartCols, l) =
         [i \in 0..(n - 1) |-> [c \in 0..(l - 1) |->
            IF th[1] * slot + i < tokens
            THEN parts[c \div PartCols][th[1] * slot + i][c % PartCols] ELSE Zero]]
  <2> DEFINE first == th[1] * slot
  <2>1. first \in Nat
    BY <1>9
  <2> HIDE DEF first
  <2>2. SelectRows(parts, tokens, first, n, PartCols, l)
          = Abreast(parts, tokens, first, n, PartCols, l)
    BY <1>9, <2>1, SelectedRows
  <2>. QED
    BY <2>2 DEF first, Abreast
<1>11. SelectRows(parts, tokens, th[1] * slot, n, PartCols, l) =
         [i \in 0..(n - 1) |-> [c \in 0..(l - 1) |->
            IF th[2] * l + c < NumCols /\ Batch(th).real
            THEN Row(Token(step[th], th[1], th[3], i), th[2] * l + c) ELSE Zero]]
  BY <1>7, <1>10
<1>. QED
  BY <1>4, <1>8, <1>11

\* The heads of the TP group side by side are all there are, for every token
\* (or the rank's chunk of them).
LEMMA EmbeddedOwed ==
  ASSUME Types, NEW th \in Threads, step[th] \in DOMAIN plan,
         \A t \in TPRanks : /\ step[TPGroup(th)[t]] = step[th]
                            /\ rows[TPGroup(th)[t]] = OwedRows(TPGroup(th)[t])
  PROVE  Embedded(th) = Owed(th)
<1> DEFINE n == NumTokens(th)
           l == DPSize * PartCols
           parts == [t \in TPRanks |-> rows[TPGroup(th)[t]]]
           chunk == CeilDiv(n, TPSize)
           Due(i, c) == IF Batch(th).real THEN Row(Token(step[th], th[1], th[3], i), c) ELSE Zero
<1>1. /\ l \in Nat \ {0} /\ TPSize \in Nat \ {0} /\ NumCols \in Nat \ {0}
      /\ NumCols <= TPSize * l /\ th[2] \in 0..(TPSize - 1) /\ MaxTokens \in Nat
  BY Sizes, Groups DEF TPRanks
<1>2. n \in 1..MaxTokens
  BY OwnIdsAre DEF NumTokens, Batch
<1>3. ASSUME NEW t \in TPRanks
      PROVE  parts[t] = [i \in 0..(n - 1) |-> [c \in 0..(l - 1) |->
               IF t * l + c < NumCols /\ Batch(th).real
               THEN Row(Token(step[th], th[1], th[3], i), t * l + c) ELSE Zero]]
  <2> DEFINE m == TPGroup(th)[t]
  <2>1. m = <<th[1], t, th[3]>>
    BY Groups
  <2>2. step[m] = step[th] /\ parts[t] = OwedRows(m)
    OBVIOUS
  <2> HIDE DEF m, parts
  <2>3. m[1] = th[1] /\ m[2] = t /\ m[3] = th[3]
    BY <2>1
  <2>4. NumTokens(m) = n /\ Batch(m) = Batch(th)
    BY <2>2, <2>3 DEF NumTokens, Batch
  <2>. QED
    BY <2>2, <2>3, <2>4 DEF OwedRows
<1>4. ASSUME NEW c \in Cols
      PROVE  /\ c \div l \in TPRanks /\ c % l \in 0..(l - 1)
             /\ (c \div l) * l + (c % l) = c /\ c < NumCols
  <2>1. c \in Nat /\ c < NumCols /\ TPSize * l \in Nat
    BY <1>1, Multiples DEF Cols
  <2>2. c < TPSize * l
    BY <1>1, <2>1
  <2> HIDE DEF l
  <2>. QED
    BY <1>1, <2>1, <2>2, DivMod, QuotientBelow DEF TPRanks
<1>5. ASSUME NEW c \in Cols, NEW i \in 0..(n - 1)
      PROVE  parts[c \div l][i][c % l] = Due(i, c)
  <2> DEFINE q == c \div l
             m == c % l
  <2>1. q \in TPRanks /\ m \in 0..(l - 1) /\ q * l + m = c /\ c < NumCols
    BY <1>4
  <2> HIDE DEF q, m, parts, l, n
  <2>2. parts[q] = [i1 \in 0..(n - 1) |-> [c1 \in 0..(l - 1) |->
               IF q * l + c1 < NumCols /\ Batch(th).real
               THEN Row(Token(step[th], th[1], th[3], i1), q * l + c1) ELSE Zero]]
    BY <1>3, <2>1
  <2>3. parts[q][i][m] = IF q * l + m < NumCols /\ Batch(th).real
               THEN Row(Token(step[th], th[1], th[3], i), q * l + m) ELSE Zero
    BY <2>1, <2>2
  <2>4. parts[q][i][m] = Due(i, c)
    BY <2>1, <2>3
  <2>. QED
    BY <2>4 DEF q, m
<1>6. chunk \in Nat \ {0} /\ n \in Nat \ {0} /\ l \in Nat \ {0}
  <2>1. n \in Nat \ {0} /\ TPSize \in Nat \ {0} /\ l \in Nat \ {0}
    BY <1>1, <1>2
  <2> HIDE DEF n
  <2>. QED
    BY <2>1, CeilDivCovers
<1>7. CASE ~UseSP
  <2>1. Embedded(th) = GatherHeads(parts, n, l)
    BY <1>7 DEF Embedded
  <2>2. Owed(th) = [i \in 0..(n - 1) |-> [c \in Cols |->
          IF 0 + i < n /\ Batch(th).real
          THEN Row(Token(step[th], th[1], th[3], 0 + i), c) ELSE Zero]]
    BY <1>7 DEF Owed
  <2> HIDE DEF parts, n, l
  <2>3. Owed(th) = [i \in 0..(n - 1) |-> [c \in Cols |-> Due(i, c)]]
    <3>1. \A i \in 0..(n - 1) : 0 + i < n /\ 0 + i = i
      BY <1>2
    <3>. QED
      BY <2>2, <3>1
  <2>. QED
    BY <1>5, <2>1, <2>3 DEF GatherHeads
<1>8. CASE UseSP
  <2> DEFINE first == th[2] * chunk
  <2>1. Embedded(th) = SelectRows(parts, n, first, chunk, l, NumCols)
    BY <1>8 DEF Embedded
  <2>2. first \in Nat
    <3> HIDE DEF chunk
    <3>. QED
      BY <1>1, <1>6, Multiples
  <2>3. Owed(th) = [i \in 0..(chunk - 1) |-> [c \in Cols |->
          IF first + i < n THEN Due(first + i, c) ELSE Zero]]
    <3>1. CASE TPSize > 1
      BY <1>8, <3>1 DEF Owed
    <3>2. CASE ~(TPSize > 1)
      <4>1. TPSize = 1 /\ th[2] = 0
        BY <1>1, <3>2
      <4>2. chunk = n
        <5>1. n + 1 - 1 = n * 1 + 0 /\ n \in Nat /\ 0 \in 0..(1 - 1)
          BY <1>2
        <5>2. (n * 1 + 0) \div 1 = n
          BY <5>1, Digits
        <5>. QED
          BY <4>1, <5>1, <5>2 DEF CeilDiv
      <4>3. first = 0
        <5> HIDE DEF chunk
        <5>. QED
          BY <1>6, <4>1
      <4>4. Owed(th) = [i \in 0..(n - 1) |-> [c \in Cols |->
              IF 0 + i < n /\ Batch(th).real
              THEN Row(Token(step[th], th[1], th[3], 0 + i), c) ELSE Zero]]
        BY <4>1 DEF Owed
      <4> HIDE DEF chunk, first, n
      <4>. QED
        BY <4>2, <4>3, <4>4
    <3>. QED
      BY <3>1, <3>2
  <2> HIDE DEF chunk, first
  <2>4. \A i \in 0..(chunk - 1) : first + i < n => first + i \in 0..(n - 1)
    BY <1>6, <2>2
  <2>5. n \in Nat \ {0} /\ chunk \in Nat /\ l \in Nat \ {0} /\ NumCols \in Nat
    BY <1>1, <1>6
  <2> HIDE DEF parts, n, l, Due
  <2>6. SelectRows(parts, n, first, chunk, l, NumCols)
          = Abreast(parts, n, first, chunk, l, NumCols)
    BY <2>2, <2>5, SelectedRows
  <2>7. SelectRows(parts, n, first, chunk, l, NumCols) =
          [i \in 0..(chunk - 1) |-> [c \in Cols |->
             IF first + i < n THEN Due(first + i, c) ELSE Zero]]
    BY <1>5, <2>4, <2>6 DEF Abreast, Cols
  <2>. QED
    BY <2>1, <2>3, <2>7
<1>. QED
  BY <1>7, <1>8

\* With one micro-batch, the stager's tokens are those of the batch.
LEMMA BatchTokensAlone ==
  ASSUME Types, NEW d \in Replicas, NEW s \in DOMAIN plan, NumUbatches = 1
  PROVE  BatchTokens(d, s) = [k \in 0..(plan[s][d].n[0] - 1) |-> Token(s, d, 0, k)]
<1> DEFINE n == plan[s][d].n
           Offsets == CHOOSE f : f = [u \in 0..NumUbatches |->
                                        IF u = 0 THEN 0 ELSE f[u - 1] + n[u - 1]]
           g == [u \in 0..NumUbatches |-> IF u = 0 THEN 0 ELSE n[0]]
<1>1. Ubatches = {0} /\ 0..NumUbatches = {0, 1}
  BY DEF Ubatches
<1>2. n[0] \in 1..MaxTokens /\ MaxTokens \in Nat
  BY <1>1, PlanAt, Sizes
<1>3. g = [u \in 0..NumUbatches |-> IF u = 0 THEN 0 ELSE g[u - 1] + n[u - 1]]
  <2> HIDE DEF n
  <2>. QED
    BY <1>1, <1>2
<1>4. Offsets = [u \in 0..NumUbatches |-> IF u = 0 THEN 0 ELSE Offsets[u - 1] + n[u - 1]]
  <2> HIDE DEF n, g
  <2>. QED
    BY <1>3, Zenon
<1>5. Offsets[0] = 0 /\ Offsets[1] = n[0]
  <2> HIDE DEF n, Offsets
  <2>1. Offsets[0] = 0
    BY <1>1, <1>4
  <2>2. Offsets[1] = Offsets[0] + n[0]
    BY <1>1, <1>4
  <2>. QED
    BY <1>2, <2>1, <2>2
<1>6. BatchTokens(d, s) = [k \in 0..(Offsets[NumUbatches] - 1) |->
         LET u == CHOOSE v \in Ubatches : Offsets[v] <= k /\ k < Offsets[v + 1]
         IN  Token(s, d, u, k - Offsets[u])]
  BY DEF BatchTokens
<1> HIDE DEF n, Offsets
<1>7. ASSUME NEW k \in 0..(n[0] - 1)
      PROVE  (CHOOSE v \in Ubatches : Offsets[v] <= k /\ k < Offsets[v + 1]) = 0
  <2>1. \E v \in Ubatches : Offsets[v] <= k /\ k < Offsets[v + 1]
    BY <1>1, <1>2, <1>5
  <2>. QED
    BY <1>1, <2>1
<1>8. \A k \in 0..(n[0] - 1) : k - Offsets[0] = k
  BY <1>2, <1>5
<1>9. BatchTokens(d, s) = [k \in 0..(n[0] - 1) |-> Token(s, d, 0, k)]
  BY <1>5, <1>6, <1>7, <1>8
<1>. QED
  BY <1>9 DEF n

-----------------------------------------------------------------------------
(* What a step leaves as it was *)

LEMMA Steps ==
  ASSUME Types, NEW th \in Threads, step[th] # 0
  PROVE  step[th] \in DOMAIN plan
<1>1. step[th] \in 0..Len(plan) /\ Len(plan) \in Nat /\ DOMAIN plan = 1..Len(plan)
  BY DEF Types
<1>. QED
  BY <1>1

LEMMA SameSetup ==
  ASSUME UNCHANGED setup
  PROVE  UNCHANGED <<DPSize, TPSize, NumUbatches, NumCols, MaxTokens, UseSP, Prestage,
                     PartCols, Replicas, TPRanks, Ubatches, Cols, Ranks, Threads,
                     Batches, Capacity>>
<1>1. UNCHANGED <<DPSize, TPSize, NumUbatches, NumCols, MaxTokens, UseSP, Prestage, PartCols>>
  BY DEF DPSize, TPSize, NumUbatches, NumCols, MaxTokens, UseSP, Prestage, PartCols
<1>2. UNCHANGED <<Replicas, TPRanks, Ubatches, Cols, Capacity>>
  BY <1>1 DEF Replicas, TPRanks, Ubatches, Cols, Capacity
<1>. QED
  BY <1>1, <1>2 DEF Ranks, Threads, Batches

LEMMA SameSlot ==
  ASSUME UNCHANGED setup, NEW th, UNCHANGED step[th], UNCHANGED plan[step[th]]
  PROVE  UNCHANGED Slot(th)
<1> DEFINE S == {plan[step[th]][d].n[th[3]] : d \in Replicas}
<1>1. S' = S
  BY SameSetup
<1>2. Slot(th) = CHOOSE m \in S : \A k \in S : k <= m
  BY DEF Slot
<1>3. Slot(th)' = CHOOSE m \in S' : \A k \in S' : k <= m
  BY DEF Slot
<1> HIDE DEF S
<1>. QED
  BY <1>1, <1>2, <1>3

LEMMA SameLookedUp ==
  ASSUME UNCHANGED setup, NEW th \in Threads, UNCHANGED step[th], UNCHANGED plan[step[th]]
  PROVE  UNCHANGED LookedUp(th)
<1> DEFINE P == [d \in Replicas |-> OwnIds(DPGroup(th)[d], step[th])]
           s == step[th]
<1>1. \A d \in Replicas : UNCHANGED OwnIds(DPGroup(th)[d], s)
  <2> TAKE d \in Replicas
  <2> DEFINE m == DPGroup(th)[d]
  <2>1. m' = m
    BY SameSetup DEF DPGroup
  <2>2. s' = s /\ UNCHANGED plan[s]
    OBVIOUS
  <2> HIDE DEF m, s
  <2>3. OwnIds(m, s)' = OwnIds(m, s)
    BY <2>1, <2>2, SameSetup DEF OwnIds, Tokens, DummyTokens
  <2>. QED
    BY <2>3 DEF m
<1>2. P' = P
  BY <1>1, SameSetup
<1>3. UNCHANGED Slot(th) /\ UNCHANGED DPSize /\ s' = s
  BY SameSlot, SameSetup
<1>4. AllIds(th) = GatherHashes(P, Slot(th)) /\ AllIds(th)' = GatherHashes(P, Slot(th))'
  BY DEF AllIds
<1>5. UNCHANGED OwnIds(th, s)
  BY <1>3, SameSetup DEF OwnIds, Tokens, DummyTokens
<1> HIDE DEF P
<1>6. UNCHANGED GatherHashes(P, Slot(th))
  BY <1>2, <1>3 DEF GatherHashes
<1>. QED
  BY <1>3, <1>4, <1>5, <1>6 DEF LookedUp

LEMMA SameOwed ==
  ASSUME UNCHANGED setup, NEW th \in Threads, UNCHANGED step[th], UNCHANGED plan[step[th]]
  PROVE  UNCHANGED <<OwedRows(th), Owed(th)>>
<1>1. UNCHANGED <<NumTokens(th), Batch(th)>>
  BY DEF NumTokens, Batch
<1>2. UNCHANGED <<DPSize, TPSize, NumCols, UseSP, PartCols, Cols>>
  BY SameSetup
<1>3. UNCHANGED OwedRows(th)
  BY <1>1, <1>2 DEF OwedRows
<1>4. UNCHANGED Owed(th)
  BY <1>1, <1>2 DEF Owed
<1>. QED
  BY <1>3, <1>4

\* A thread keeps its phase if nothing it has in hand is touched.
LEMMA PhaseKept ==
  ASSUME Types, UNCHANGED setup, NEW th \in Threads, Phase(th),
         UNCHANGED <<pc[th], step[th], ids[th], rows[th], out[th]>>,
         step[th] # 0 => UNCHANGED plan[step[th]],
         pc[th] = "embed" => UNCHANGED staged[RankOf(th)][th[3]]
  PROVE  Phase(th)'
<1>1. CASE step[th] = 0
  <2>1. pc[th] = "idle" /\ out[th] = << >>
    BY <1>1 DEF Types
  <2>. QED
    BY <2>1 DEF Phase
<1>2. CASE step[th] # 0
  <2> DEFINE s == step[th]
             l == LookedUp(th)
             r == RankOf(th)
  <2>1. UNCHANGED plan[step[th]] /\ UNCHANGED LookedUp(th) /\ UNCHANGED DPSize
        /\ UNCHANGED <<OwedRows(th), Owed(th)>> /\ r' = r
    BY <1>2, SameLookedUp, SameOwed, SameSetup DEF RankOf
  <2>2. UNCHANGED OwnIds(th, s)
    BY <2>1, SameSetup DEF OwnIds, Tokens, DummyTokens
  <2>3. UNCHANGED Lookup(r, l)
    <3>1. l' = l /\ r' = r
      BY <2>1
    <3>2. UNCHANGED <<PartCols, NumCols>>
      BY SameSetup
    <3> HIDE DEF l, r
    <3>3. UNCHANGED HeadStart(r)
      BY <3>1, SameSetup DEF HeadStart, ShardRank
    <3>. QED
      BY <3>1, <3>2, <3>3 DEF Lookup
  <2>4. pc[th] = "ids" => DPSize' > 1 /\ ids'[th] = OwnIds(th, s)'
    BY <2>1, <2>2 DEF Phase
  <2>5. pc[th] = "lookup" => ids'[th] = l'
    BY <2>1 DEF Phase
  <2>6. pc[th] = "embed" => Begins(staged[r][th[3]], Lookup(r, l))'
    <3> SUFFICES ASSUME pc[th] = "embed" PROVE Begins(staged[r][th[3]], Lookup(r, l))'
      OBVIOUS
    <3>1. Begins(staged[r][th[3]], Lookup(r, l))
      BY DEF Phase
    <3>2. (staged[r][th[3]])' = staged[r][th[3]]
      BY <2>1
    <3> HIDE DEF l, r
    <3>. QED
      BY <2>3, <3>1, <3>2 DEF Begins
  <2>7. pc[th] = "heads" => rows'[th] = OwedRows(th)'
    BY <2>1 DEF Phase
  <2>8. out'[th] # << >> => out'[th] = Owed(th)'
    BY <2>1 DEF Phase
  <2>. QED
    BY <2>4, <2>5, <2>6, <2>7, <2>8 DEF Phase
<1>. QED
  BY <1>1, <1>2

LEMMA PrestagedKept ==
  ASSUME Types, UNCHANGED setup, NEW th \in Threads, Prestaged(th),
         UNCHANGED <<step[th], ready[RankOf(th)]>>,
         pc'[th] # "idle" => pc[th] # "idle",
         ready[RankOf(th)] # 0 => UNCHANGED plan[ready[RankOf(th)]],
         Prestage => UNCHANGED staged[RankOf(th)][0]
  PROVE  Prestaged(th)'
<1> SUFFICES ASSUME Prestage PROVE Prestaged(th)'
  BY SameSetup DEF Prestaged
<1> DEFINE r == RankOf(th)
           s == ready[r]
<1>1. r' = r /\ s' = s
  BY DEF RankOf
<1>2. CASE s # 0
  <2>1. UNCHANGED plan[s]
    BY <1>2
  <2>2. UNCHANGED OwnIds(th, s)
    BY <1>1, <2>1, SameSetup DEF OwnIds, Tokens, DummyTokens
  <2> DEFINE l == OwnIds(th, s)
  <2>3. Begins(staged[r][0], Lookup(r, l))
    BY <1>2 DEF Prestaged
  <2>4. l' = l /\ (staged[r][0])' = staged[r][0]
    BY <1>1, <2>2
  <2>5. Begins(staged[r][0], Lookup(r, l))'
    <3> HIDE DEF l, r
    <3>1. UNCHANGED <<PartCols, NumCols>> /\ UNCHANGED HeadStart(r)
      BY <1>1, SameSetup DEF HeadStart, ShardRank
    <3>2. UNCHANGED Lookup(r, l)
      BY <1>1, <2>4, <3>1 DEF Lookup
    <3>. QED
      BY <2>3, <2>4, <3>2 DEF Begins
  <2>6. /\ s' \in {step'[th], step'[th] + 1} /\ pc'[th] # "idle" => step'[th] = s'
    BY <1>1 DEF Prestaged
  <2>. QED
    BY <2>5, <2>6 DEF Prestaged
<1>3. CASE s = 0
  <2>1. /\ s' \in {step'[th], step'[th] + 1} /\ pc'[th] # "idle" => step'[th] = s'
    BY <1>1 DEF Prestaged
  <2>. QED
    BY <1>1, <1>3, <2>1 DEF Prestaged
<1>. QED
  BY <1>2, <1>3

-----------------------------------------------------------------------------
(* Every action keeps the invariant *)

LEMMA InitIInv == Init => IInv
<1> SUFFICES ASSUME Init PROVE IInv
  OBVIOUS
<1>1. Types
  <2>1. setup \in Setups /\ plan = << >> /\ Len(plan) = 0
    BY DEF Init
  <2>2. pc \in [Threads -> {"idle", "ids", "lookup", "embed", "heads"}]
        /\ step \in [Threads -> 0..Len(plan)] /\ ready \in [Ranks -> 0..Len(plan)]
    BY <2>1 DEF Init
  <2>3. \A th \in Threads : pc[th] = "idle" /\ out[th] = << >>
    BY DEF Init
  <2>4. /\ staged = [r \in Ranks |-> [u \in Ubatches |-> staged[r][u]]]
        /\ \A r \in Ranks, u \in Ubatches : DOMAIN staged[r][u] = 0..(Capacity - 1)
    <3>1. \A fill : DOMAIN Buffer(fill) = 0..(Capacity - 1)
      BY DEF Buffer
    <3>. QED
      BY <3>1 DEF Init
  <2>5. /\ ids = [th \in Threads |-> ids[th]] /\ rows = [th \in Threads |-> rows[th]]
        /\ out = [th \in Threads |-> out[th]]
    BY DEF Init
  <2>6. plan \in Seq([Replicas -> Batches])
    BY <2>1
  <2>. QED
    BY <2>1, <2>2, <2>3, <2>4, <2>5, <2>6 DEF Types
<1>2. Planned
  BY DEF Init, Planned
<1>3. ASSUME NEW th \in Threads PROVE Phase(th) /\ Prestaged(th)
  <2>1. RankOf(th) \in Ranks
    BY <1>1, Groups
  <2>2. pc[th] = "idle" /\ step[th] = 0 /\ out[th] = << >> /\ ready[RankOf(th)] = 0
    BY <2>1 DEF Init
  <2>. QED
    BY <2>2 DEF Phase, Prestaged
<1>. QED
  BY <1>1, <1>2, <1>3 DEF IInv

\* Planning a step leaves those planned before as they were.
LEMMA PlanStepKeeps ==
  ASSUME IInv, NEW p \in [Replicas -> Batches], PlanStep(p)
  PROVE  IInv'
<1> DEFINE n == Len(plan)
<1>1. /\ plan' = Append(plan, p) /\ \E d \in Replicas : p[d].real
      /\ UNCHANGED <<setup, pc, step, ids, staged, ready, rows, out>> /\ Types
  BY DEF PlanStep, IInv
<1>2. UNCHANGED <<Replicas, Ubatches, Ranks, Threads, Batches, Capacity>>
  BY <1>1, SameSetup
<1>3. /\ plan' \in Seq([Replicas -> Batches]) /\ Len(plan') = n + 1 /\ n \in Nat
      /\ DOMAIN plan = 1..n /\ DOMAIN plan' = 1..(n + 1)
      /\ \A s \in 1..n : plan'[s] = plan[s] /\ plan'[n + 1] = p
  <2>1. plan \in Seq([Replicas -> Batches])
    BY <1>1 DEF Types
  <2>. QED
    BY <1>1, <2>1
<1>4. plan'[n + 1] = p
  <2>1. plan \in Seq([Replicas -> Batches])
    BY <1>1 DEF Types
  <2>. QED
    BY <1>1, <2>1
<1>5. Types'
  <2>1. 0..n \subseteq 0..(n + 1)
    BY <1>3
  <2>2. step' \in [Threads -> 0..Len(plan')] /\ ready' \in [Ranks -> 0..Len(plan')]
    BY <1>1, <1>3, <2>1 DEF Types
  <2>. QED
    BY <1>1, <1>2, <1>3, <2>2 DEF Types
<1>6. Planned'
  <2>1. \A s \in 1..n : \E d \in Replicas : plan[s][d].real
    BY <1>3 DEF IInv, Planned
  <2>2. \A s \in 1..(n + 1) : s \in 1..n \/ s = n + 1
    BY <1>3
  <2>. QED
    BY <1>1, <1>2, <1>3, <1>4, <2>1, <2>2 DEF Planned
<1>7. ASSUME NEW th \in Threads PROVE Phase(th)' /\ Prestaged(th)'
  <2>1. RankOf(th) \in Ranks /\ step[th] \in 0..n /\ ready[RankOf(th)] \in 0..n
    BY <1>1, Groups DEF Types
  <2>2. step[th] # 0 => UNCHANGED plan[step[th]]
    BY <1>1, <1>3, <2>1
  <2>3. ready[RankOf(th)] # 0 => UNCHANGED plan[ready[RankOf(th)]]
    BY <1>1, <1>3, <2>1
  <2>4. Phase(th) /\ Prestaged(th)
    BY DEF IInv
  <2>5. Phase(th)'
    BY <1>1, <2>2, <2>4, PhaseKept
  <2>6. Prestaged(th)'
    BY <1>1, <2>3, <2>4, PrestagedKept DEF RankOf
  <2>. QED
    BY <2>5, <2>6
<1>. QED
  BY <1>2, <1>5, <1>6, <1>7 DEF IInv

\* Entering a step: the thread has its own ids, which without DP it looks up.
LEMMA BeginKeeps ==
  ASSUME IInv, NEW th \in Threads, Begin(th)
  PROVE  IInv'
<1> DEFINE s == step[th] + 1
           stop == IF DPSize > 1 THEN "ids" ELSE "lookup"
<1>1. /\ Types /\ Planned /\ pc[th] = "idle" /\ step[th] < Len(plan)
      /\ Prestage => ready[RankOf(th)] > step[th]
      /\ step' = [step EXCEPT ![th] = s] /\ ids' = [ids EXCEPT ![th] = OwnIds(th, s)]
      /\ pc' = [pc EXCEPT ![th] = stop] /\ out' = [out EXCEPT ![th] = << >>]
      /\ UNCHANGED <<setup, plan, staged, ready, rows>>
  BY DEF Begin, Enter, IInv, OwnIds, FirstStop
<1>2. UNCHANGED <<Replicas, Ubatches, Ranks, Threads, Batches, Capacity, DPSize, Prestage>>
  BY <1>1, SameSetup
<1>3. s \in 1..Len(plan) /\ s # 0 /\ DOMAIN plan = 1..Len(plan)
  <2>1. step[th] \in 0..Len(plan) /\ Len(plan) \in Nat /\ DOMAIN plan = 1..Len(plan)
    BY <1>1 DEF Types
  <2>. QED
    BY <1>1, <2>1
<1>4. /\ step'[th] = s /\ pc'[th] = stop /\ ids'[th] = OwnIds(th, s) /\ out'[th] = << >>
      /\ \A m \in Threads : m # th => UNCHANGED <<pc[m], step[m], ids[m], out[m]>>
  <2> HIDE DEF s, stop
  <2>. QED
    BY <1>1 DEF Types
<1>5. Types'
  <2>1. stop \in {"idle", "ids", "lookup", "embed", "heads"} /\ s \in 0..Len(plan)
    BY <1>3
  <2> HIDE DEF s, stop
  <2>2. pc' \in [Threads -> {"idle", "ids", "lookup", "embed", "heads"}]
        /\ step' \in [Threads -> 0..Len(plan)]
    BY <1>1, <2>1 DEF Types
  <2>3. ids' = [m \in Threads |-> ids'[m]] /\ out' = [m \in Threads |-> out'[m]]
    BY <1>1 DEF Types
  <2>4. \A m \in Threads : step'[m] = 0 => pc'[m] = "idle" /\ out'[m] = << >>
    BY <1>1, <1>3, <1>4 DEF Types
  <2>. QED
    BY <1>1, <1>2, <2>2, <2>3, <2>4 DEF Types
<1>6. Planned'
  BY <1>1, <1>2 DEF Planned
<1>7. ASSUME NEW m \in Threads, m # th PROVE Phase(m)' /\ Prestaged(m)'
  <2>1. UNCHANGED <<pc[m], step[m], ids[m], out[m]>> /\ Phase(m) /\ Prestaged(m)
    BY <1>4, <1>7 DEF IInv
  <2>2. Phase(m)'
    BY <1>1, <2>1, PhaseKept DEF RankOf
  <2>3. Prestaged(m)'
    BY <1>1, <2>1, PrestagedKept DEF RankOf
  <2>. QED
    BY <2>2, <2>3
<1>8. Phase(th)'
  <2>1. OwnIds(th, step[th])' = OwnIds(th, s)
    <3>1. plan' = plan /\ step'[th] = s
      BY <1>1, <1>4
    <3> HIDE DEF s
    <3>. QED
      BY <3>1 DEF OwnIds, Tokens, DummyTokens
  <2>2. CASE DPSize > 1
    <3>1. pc'[th] = "ids" /\ DPSize' > 1
      BY <1>2, <1>4, <2>2
    <3>. QED
      BY <1>4, <2>1, <3>1 DEF Phase
  <2>3. CASE ~(DPSize > 1)
    <3>1. pc'[th] = "lookup" /\ ~(DPSize' > 1)
      BY <1>2, <1>4, <2>3
    <3>2. LookedUp(th)' = OwnIds(th, step[th])'
      BY <3>1 DEF LookedUp
    <3>. QED
      BY <1>4, <2>1, <3>1, <3>2 DEF Phase
  <2>. QED
    BY <2>2, <2>3
<1>9. Prestaged(th)'
  <2> SUFFICES ASSUME Prestage PROVE Prestaged(th)'
    BY <1>2 DEF Prestaged
  <2> DEFINE r == RankOf(th)
  <2>1. r \in Ranks /\ r' = r /\ Prestaged(th)
    BY <1>1, Groups DEF RankOf, IInv
  <2>2. ready[r] = s
    BY <1>1, <1>3, <2>1 DEF Prestaged, Types
  <2>3. Begins(staged[r][0], Lookup(r, OwnIds(th, s)))
    BY <1>3, <2>1, <2>2 DEF Prestaged
  <2>4. ready'[r] = s /\ staged'[r][0] = staged[r][0] /\ step'[th] = s
    BY <1>1, <1>4, <2>2
  <2>5. OwnIds(th, ready[r])' = OwnIds(th, s)
    BY <1>1, <2>1, <2>4 DEF OwnIds, Tokens, DummyTokens
  <2> HIDE DEF r, s
  <2>6. Begins(staged[r][0], Lookup(r, OwnIds(th, ready[r])))'
    <3>1. UNCHANGED <<PartCols, NumCols>> /\ UNCHANGED HeadStart(r)
      BY <1>1, <2>1, SameSetup DEF HeadStart, ShardRank
    <3>2. Lookup(r, OwnIds(th, ready[r]))' = Lookup(r, OwnIds(th, s))
      BY <2>1, <2>5, <3>1 DEF Lookup
    <3>. QED
      BY <2>1, <2>3, <2>4, <3>2 DEF Begins
  <2>7. ready'[r] \in {step'[th], step'[th] + 1} /\ step'[th] = ready'[r]
    BY <2>4
  <2>. QED
    BY <2>1, <2>6, <2>7 DEF Prestaged, r
<1>. QED
  BY <1>2, <1>5, <1>6, <1>7, <1>8, <1>9 DEF IInv

\* Staging needs every micro-batch of the rank idle: nobody is reading.
LEMMA StageKeeps ==
  ASSUME PrestageAlone, IInv, NEW rank \in Ranks, Stage(rank)
  PROVE  IInv'
<1> DEFINE s == ready[rank] + 1
           th == <<rank[1], rank[2], 0>>
<1>1. /\ Types /\ Planned /\ Prestage /\ s <= Len(plan)
      /\ \A u \in Ubatches : /\ pc[<<rank[1], rank[2], u>>] = "idle"
                             /\ step[<<rank[1], rank[2], u>>] = s - 1
      /\ ready' = [ready EXCEPT ![rank] = s]
      /\ UNCHANGED <<setup, plan, pc, step, ids, rows, out>>
  BY DEF Stage, IInv
<1>2. UNCHANGED <<Replicas, Ubatches, Ranks, Threads, Batches, Capacity, DPSize, Prestage>>
  BY <1>1, SameSetup
<1>3. DPSize = 1 /\ NumUbatches = 1 /\ Replicas = {0} /\ Ubatches = {0}
  BY <1>1 DEF PrestageAlone, Types, Prestage, DPSize, NumUbatches, Replicas, Ubatches
<1>4. ready[rank] \in Nat /\ s \in 1..Len(plan) /\ DOMAIN plan = 1..Len(plan)
      /\ Len(plan) \in Nat /\ s - 1 = ready[rank]
  <2>1. ready[rank] \in 0..Len(plan) /\ Len(plan) \in Nat /\ DOMAIN plan = 1..Len(plan)
    BY <1>1 DEF Types
  <2>. QED
    BY <1>1, <2>1
<1>5. /\ rank = <<rank[1], rank[2]>> /\ rank[1] = 0 /\ rank[2] \in TPRanks
      /\ th \in Threads /\ RankOf(th) = rank /\ th[1] = 0 /\ th[3] = 0
      /\ pc[th] = "idle" /\ step[th] = ready[rank]
  <2>1. rank = <<rank[1], rank[2]>> /\ rank[1] = 0 /\ rank[2] \in TPRanks
    BY <1>3 DEF Ranks
  <2>. QED
    BY <1>1, <1>3, <1>4, <2>1 DEF Threads, RankOf
<1>6. \A m \in Threads : RankOf(m) = rank => m = th
  BY <1>3, <1>5 DEF Threads, RankOf
<1>7. plan[s][0].real
  BY <1>1, <1>3, <1>4 DEF Planned
<1> DEFINE own == OwnIds(th, s)
<1>8. BatchTokens(rank[1], s) = own
  <2>1. BatchTokens(0, s) = [k \in 0..(plan[s][0].n[0] - 1) |-> Token(s, 0, 0, k)]
    BY <1>1, <1>3, <1>4, BatchTokensAlone
  <2>2. OwnIds(th, s) = Tokens(th, s)
    BY <1>5, <1>7 DEF OwnIds
  <2> HIDE DEF th, s
  <2>. QED
    BY <1>5, <2>1, <2>2 DEF Tokens
<1>9. staged' = [staged EXCEPT ![rank][0] = Write(@, Lookup(rank, own))]
  BY <1>5, <1>7, <1>8 DEF Stage
<1>10. /\ staged'[rank][0] = Write(staged[rank][0], Lookup(rank, own))
       /\ \A r \in Ranks, u \in Ubatches : r # rank => staged'[r][u] = staged[r][u]
       /\ staged' = [r \in Ranks |-> [u \in Ubatches |-> staged'[r][u]]]
  <2> DEFINE new == Lookup(rank, own)
  <2>1. staged' = [staged EXCEPT ![rank][0] = Write(@, new)]
    BY <1>9
  <2>2. /\ staged = [r \in Ranks |-> [u \in Ubatches |-> staged[r][u]]]
        /\ 0 \in Ubatches
    BY <1>1, <1>3 DEF Types
  <2> HIDE DEF new, own
  <2>3. staged'[rank][0] = Write(staged[rank][0], new)
    BY <2>1, <2>2
  <2>4. \A r \in Ranks : r # rank => staged'[r] = staged[r]
    BY <2>1, <2>2
  <2>5. staged' = [r \in Ranks |-> [u \in Ubatches |-> staged'[r][u]]]
    <3>1. staged' = [r \in Ranks |-> staged'[r]]
      BY <2>1, <2>2
    <3>2. \A r \in Ranks : staged'[r] = [u \in Ubatches |-> staged'[r][u]]
      BY <2>1, <2>2
    <3>. QED
      BY <3>1, <3>2
  <2>. QED
    BY <2>3, <2>4, <2>5 DEF new
<1>11. DOMAIN own \subseteq 0..(Capacity - 1)
  <2>1. plan[s][th[1]].n[th[3]] \in 1..MaxTokens
        /\ DOMAIN own = 0..(plan[s][th[1]].n[th[3]] - 1)
    BY <1>1, <1>4, <1>5, OwnIdsAre
  <2> DEFINE n == plan[s][th[1]].n[th[3]]
  <2>2. n \in 1..MaxTokens /\ DOMAIN own = 0..(n - 1)
    BY <2>1
  <2>3. MaxTokens \in Nat /\ Capacity \in Nat /\ MaxTokens <= Capacity
    BY <1>1, Sizes
  <2> HIDE DEF n, own
  <2>. QED
    BY <2>2, <2>3
<1>12. Types'
  <2>1. \A r \in Ranks, u \in Ubatches : DOMAIN staged'[r][u] = 0..(Capacity - 1)
    <3>1. \A r \in Ranks, u \in Ubatches : DOMAIN staged[r][u] = 0..(Capacity - 1)
      BY <1>1 DEF Types
    <3>2. DOMAIN staged'[rank][0] = 0..(Capacity - 1)
      BY <1>3, <1>10, <3>1 DEF Write
    <3>. QED
      BY <1>3, <1>10, <3>1, <3>2
  <2>2. ready' \in [Ranks -> 0..Len(plan)]
    BY <1>1, <1>4 DEF Types
  <2>. QED
    BY <1>1, <1>2, <1>10, <2>1, <2>2 DEF Types
<1>13. Planned'
  BY <1>1, <1>2 DEF Planned
<1>14. ASSUME NEW m \in Threads, m # th PROVE Phase(m)' /\ Prestaged(m)'
  <2>1. Phase(m) /\ Prestaged(m) /\ RankOf(m) # rank /\ RankOf(m) \in Ranks
        /\ m[3] \in Ubatches
    BY <1>1, <1>6, <1>14, Groups DEF IInv
  <2>2. UNCHANGED <<ready[RankOf(m)], staged[RankOf(m)][m[3]], staged[RankOf(m)][0]>>
    BY <1>1, <1>3, <1>10, <2>1 DEF RankOf
  <2>3. Phase(m)'
    BY <1>1, <2>1, <2>2, PhaseKept
  <2>4. Prestaged(m)'
    BY <1>1, <2>1, <2>2, PrestagedKept
  <2>. QED
    BY <2>3, <2>4
<1>15. Phase(th)'
  <2>1. Phase(th) /\ pc[th] # "embed"
    BY <1>5 DEF IInv
  <2> HIDE DEF th
  <2>2. UNCHANGED <<pc[th], step[th], ids[th], rows[th], out[th]>> \/ th' # th
    BY <1>1
  <2>3. \A m \in Threads : pc[m] # "embed" /\ Phase(m) => Phase(m)'
    BY <1>1, PhaseKept
  <2>. QED
    BY <1>5, <2>1, <2>3 DEF th
<1>16. Prestaged(th)'
  <2> DEFINE new == Lookup(rank, own)
  <2>1. Begins(staged'[rank][0], new)
    <3>1. DOMAIN new = DOMAIN own
      BY DEF Lookup
    <3>2. DOMAIN staged[rank][0] = 0..(Capacity - 1)
      BY <1>1, <1>3 DEF Types
    <3> HIDE DEF new, own
    <3>. QED
      BY <1>10, <1>11, <3>1, <3>2 DEF Begins, Write, new
  <2>2. ready'[rank] = s /\ step'[th] = ready[rank] /\ pc'[th] = "idle"
    <3>1. ready'[rank] = s
      <4> HIDE DEF s
      <4>. QED
        BY <1>1 DEF Types
    <3>. QED
      BY <1>1, <1>5, <3>1
  <2>3. s \in {ready[rank], ready[rank] + 1}
    OBVIOUS
  <2>4. \A m \in Threads : m = th /\ RankOf(m) = rank => Prestaged(m)'
    <3> SUFFICES ASSUME NEW m \in Threads, m = th, RankOf(m) = rank PROVE Prestaged(m)'
      OBVIOUS
    <3>1. m[1] = th[1] /\ m[3] = th[3] /\ RankOf(m)' = rank
      BY DEF RankOf
    <3>2. OwnIds(m, ready[rank])' = OwnIds(m, s)
      <4>1. plan' = plan /\ ready'[rank] = s
        BY <1>1, <2>2
      <4> HIDE DEF s, th
      <4>. QED
        BY <4>1 DEF OwnIds, Tokens, DummyTokens
    <3> HIDE DEF s, th
    <3>3. Lookup(rank, OwnIds(m, ready[rank]))' = Lookup(rank, OwnIds(m, s))
      <4>1. UNCHANGED <<PartCols, NumCols>> /\ UNCHANGED HeadStart(rank)
        BY <1>1, SameSetup DEF HeadStart, ShardRank
      <4>. QED
        BY <3>2, <4>1 DEF Lookup
    <3>4. Lookup(rank, OwnIds(m, s)) = new
      OBVIOUS
    <3> HIDE DEF new
    <3>5. Begins(staged[rank][0], Lookup(rank, OwnIds(m, ready[rank])))'
      BY <2>1, <3>3, <3>4 DEF Begins
    <3>. QED
      BY <2>2, <2>3, <3>1, <3>5 DEF Prestaged
  <2>. QED
    BY <1>5, <2>4
<1>17. \A m \in Threads : Phase(m)' /\ Prestaged(m)'
  BY <1>14, <1>15, <1>16
<1>. QED
  BY <1>2, <1>12, <1>13, <1>17 DEF IInv

\* The members of a group that has met are in one step, and agree on its slots.
LEMMA MetDP ==
  ASSUME Types, NEW th \in Threads, NEW at, at # "idle", Meet(DPGroup(th), at)
  PROVE  /\ th \in Members(DPGroup(th)) /\ Members(DPGroup(th)) \subseteq Threads
         /\ \A d \in Replicas : DPGroup(th)[d] \in Members(DPGroup(th))
         /\ step[th] \in DOMAIN plan
         /\ \A m \in Members(DPGroup(th)) :
              /\ pc[m] = at /\ step[m] = step[th] /\ DPGroup(m) = DPGroup(th)
              /\ m[2] = th[2] /\ m[3] = th[3] /\ RankOf(m) = <<m[1], th[2]>>
              /\ m[1] \in Replicas /\ AllIds(m) = AllIds(th) /\ Slot(m) = Slot(th)
<1> DEFINE M == Members(DPGroup(th))
<1>1. /\ DOMAIN DPGroup(th) = Replicas /\ 0 \in Replicas
      /\ \A d \in Replicas : /\ DPGroup(th)[d] = <<d, th[2], th[3]>>
                             /\ DPGroup(th)[d] \in Threads
      /\ th[1] \in Replicas /\ th = <<th[1], th[2], th[3]>>
  BY Groups
<1>2. M = {<<d, th[2], th[3]>> : d \in Replicas}
  BY <1>1 DEF Members
<1>3. th \in M /\ M \subseteq Threads /\ \A d \in Replicas : DPGroup(th)[d] \in M
  BY <1>1, <1>2
<1>4. \A m \in M : pc[m] = at /\ step[m] = step[th]
  BY <1>3 DEF Meet
<1>5. step[th] # 0
  BY <1>3, <1>4 DEF Types
<1>6. step[th] \in DOMAIN plan
  BY <1>5, Steps
<1>7. ASSUME NEW m \in M
      PROVE  /\ DPGroup(m) = DPGroup(th) /\ m[2] = th[2] /\ m[3] = th[3]
             /\ RankOf(m) = <<m[1], th[2]>> /\ m[1] \in Replicas
             /\ AllIds(m) = AllIds(th) /\ Slot(m) = Slot(th)
  <2>1. PICK d \in Replicas : m = <<d, th[2], th[3]>>
    BY <1>2
  <2>2. m[1] = d /\ m[2] = th[2] /\ m[3] = th[3]
    BY <2>1
  <2>3. DPGroup(m) = DPGroup(th)
    BY <2>2 DEF DPGroup
  <2>4. step[m] = step[th]
    BY <1>4
  <2>5. Slot(m) = Slot(th)
    BY <2>2, <2>4 DEF Slot
  <2>6. AllIds(m) = AllIds(th)
    BY <2>3, <2>4, <2>5 DEF AllIds
  <2>. QED
    BY <2>2, <2>3, <2>5, <2>6 DEF RankOf
<1>. QED
  BY <1>3, <1>4, <1>6, <1>7

\* After the gather every member has the ids of all replicas.
LEMMA GatherIdsKeeps ==
  ASSUME IInv, NEW th \in Threads, GatherIds(th)
  PROVE  IInv'
<1> DEFINE M == Members(DPGroup(th))
           all == GatherHashes([d \in Replicas |-> ids[DPGroup(th)[d]]], Slot(th))
<1>1. /\ Types /\ Planned /\ Meet(DPGroup(th), "ids")
      /\ ids' = [m \in Threads |-> IF m \in M THEN all ELSE ids[m]]
      /\ pc' = [m \in Threads |-> IF m \in M THEN "lookup" ELSE pc[m]]
      /\ UNCHANGED <<setup, plan, step, staged, ready, rows, out>>
  BY DEF GatherIds, IInv
<1>2. UNCHANGED <<Replicas, Ubatches, Ranks, Threads, Batches, Capacity>>
  BY <1>1, SameSetup
<1>3. /\ th \in M /\ M \subseteq Threads /\ \A d \in Replicas : DPGroup(th)[d] \in M
      /\ step[th] \in DOMAIN plan
      /\ \A m \in M : pc[m] = "ids" /\ step[m] = step[th] /\ AllIds(m) = AllIds(th)
  BY <1>1, MetDP
<1>4. all = AllIds(th)
  <2>1. \A d \in Replicas : ids[DPGroup(th)[d]] = OwnIds(DPGroup(th)[d], step[th])
    BY <1>3 DEF IInv, Phase
  <2>. QED
    BY <2>1 DEF AllIds
<1>5. DPSize > 1
  BY <1>3 DEF IInv, Phase
<1> HIDE DEF all, M
<1>6. Types'
  <2>1. ids' = [m \in Threads |-> ids'[m]]
    BY <1>1
  <2>2. pc' \in [Threads -> {"idle", "ids", "lookup", "embed", "heads"}]
    BY <1>1 DEF Types
  <2>3. \A m \in Threads : step'[m] = 0 => pc'[m] = "idle" /\ out'[m] = << >>
    <3>1. \A m \in M : step[m] # 0
      BY <1>1, <1>3 DEF Types
    <3>. QED
      BY <1>1, <3>1 DEF Types
  <2>. QED
    BY <1>1, <1>2, <2>1, <2>2, <2>3 DEF Types
<1>7. Planned'
  BY <1>1, <1>2 DEF Planned
<1>8. ASSUME NEW m \in Threads PROVE Phase(m)'
  <2>1. CASE m \notin M
    <3>1. UNCHANGED <<pc[m], ids[m], step[m], rows[m], out[m]>> /\ Phase(m)
      BY <1>1, <2>1 DEF IInv
    <3>. QED
      BY <1>1, <3>1, PhaseKept DEF RankOf
  <2>2. CASE m \in M
    <3>1. pc'[m] = "lookup" /\ ids'[m] = AllIds(m) /\ step[m] \in DOMAIN plan
      BY <1>1, <1>3, <1>4, <2>2
    <3>2. LookedUp(m) = AllIds(m)
      BY <1>5 DEF LookedUp
    <3>3. LookedUp(m)' = LookedUp(m) /\ Owed(m)' = Owed(m)
      BY <1>1, SameLookedUp, SameOwed
    <3>4. out'[m] # << >> => out'[m] = Owed(m)'
      BY <1>1, <3>3 DEF IInv, Phase
    <3>. QED
      BY <3>1, <3>2, <3>3, <3>4 DEF Phase
  <2>. QED
    BY <2>1, <2>2
<1>9. ASSUME NEW m \in Threads PROVE Prestaged(m)'
  <2>1. Prestaged(m) /\ (pc'[m] # "idle" => pc[m] # "idle")
    BY <1>1, <1>3 DEF IInv
  <2>. QED
    BY <1>1, <2>1, PrestagedKept DEF RankOf
<1>. QED
  BY <1>2, <1>6, <1>7, <1>8, <1>9 DEF IInv

\* A lookup fits the buffer of its micro-batch, and is not done where the
\* stager has put the rows there before.
LEMMA PrepareEmbeddingsKeeps ==
  ASSUME PrestageAlone, IInv, NEW th \in Threads, PrepareEmbeddings(th)
  PROVE  IInv'
<1> DEFINE r == RankOf(th)
           u == th[3]
           new == Lookup(r, ids[th])
<1>1. /\ Types /\ Planned /\ pc[th] = "lookup" /\ Phase(th) /\ Prestaged(th)
      /\ staged' = IF Prestage THEN staged
                   ELSE [staged EXCEPT ![r][u] = Write(@, new)]
      /\ pc' = [pc EXCEPT ![th] = "embed"]
      /\ UNCHANGED <<setup, plan, step, ids, ready, rows, out>>
  BY DEF PrepareEmbeddings, IInv, BufferOf
<1>2. UNCHANGED <<Replicas, Ubatches, Ranks, Threads, Batches, Capacity, Prestage>>
  BY <1>1, SameSetup
<1>3. r \in Ranks /\ u \in Ubatches /\ th = <<th[1], th[2], th[3]>> /\ r = <<th[1], th[2]>>
  BY <1>1, Groups DEF RankOf
<1>4. step[th] # 0 /\ step[th] \in DOMAIN plan
  BY <1>1, Steps DEF Types
<1>5. pc'[th] = "embed" /\ \A m \in Threads : m # th => pc'[m] = pc[m]
  BY <1>1 DEF Types
<1>6. ~Prestage =>
        /\ staged'[r][u] = Write(staged[r][u], new)
        /\ \A x \in Ranks, v \in Ubatches :
             x # r \/ v # u => staged'[x][v] = staged[x][v]
        /\ staged' = [x \in Ranks |-> [v \in Ubatches |-> staged'[x][v]]]
  <2> SUFFICES ASSUME ~Prestage
               PROVE  /\ staged'[r][u] = Write(staged[r][u], new)
                      /\ \A x \in Ranks, v \in Ubatches :
                           x # r \/ v # u => staged'[x][v] = staged[x][v]
                      /\ staged' = [x \in Ranks |-> [v \in Ubatches |-> staged'[x][v]]]
    OBVIOUS
  <2>1. staged' = [staged EXCEPT ![r][u] = Write(@, new)]
    BY <1>1
  <2>2. staged = [x \in Ranks |-> [v \in Ubatches |-> staged[x][v]]]
    BY <1>1 DEF Types
  <2> HIDE DEF new, r, u
  <2>3. staged'[r][u] = Write(staged[r][u], new)
    BY <1>3, <2>1, <2>2
  <2>4. \A x \in Ranks : x # r => staged'[x] = staged[x]
    BY <2>1, <2>2
  <2>5. \A v \in Ubatches : v # u => staged'[r][v] = staged[r][v]
    BY <1>3, <2>1, <2>2
  <2>6. staged' = [x \in Ranks |-> [v \in Ubatches |-> staged'[x][v]]]
    <3>1. staged' = [x \in Ranks |-> staged'[x]]
      BY <2>1, <2>2
    <3>2. \A x \in Ranks : staged'[x] = [v \in Ubatches |-> staged'[x][v]]
      BY <2>1, <2>2
    <3>. QED
      BY <3>1, <3>2
  <2>. QED
    BY <2>3, <2>4, <2>5, <2>6
<1>7. Begins(staged'[r][u], Lookup(r, LookedUp(th)))
  <2>1. CASE Prestage
    <3>1. DPSize = 1 /\ NumUbatches = 1
      BY <1>1, <2>1 DEF PrestageAlone, Types, Prestage, DPSize, NumUbatches
    <3>2. u = 0 /\ LookedUp(th) = OwnIds(th, step[th])
      BY <1>3, <3>1 DEF Ubatches, LookedUp
    <3>3. ready[r] = step[th]
      BY <1>1, <2>1 DEF Prestaged
    <3>4. Begins(staged[r][0], Lookup(r, OwnIds(th, step[th])))
      BY <1>1, <1>4, <2>1, <3>3 DEF Prestaged
    <3>. QED
      BY <1>1, <2>1, <3>2, <3>4
  <2>2. CASE ~Prestage
    <3>1. ids[th] = LookedUp(th)
      BY <1>1 DEF Phase
    <3>2. DOMAIN new \subseteq 0..(Capacity - 1)
      BY <1>1, <1>4, <3>1, LookedUpFits DEF Lookup
    <3>3. DOMAIN staged[r][u] = 0..(Capacity - 1)
      BY <1>1, <1>3 DEF Types
    <3>4. staged'[r][u] = Write(staged[r][u], new) /\ new = Lookup(r, LookedUp(th))
      BY <1>6, <2>2, <3>1
    <3> HIDE DEF new, r, u
    <3>. QED
      BY <3>2, <3>3, <3>4 DEF Begins, Write
  <2>. QED
    BY <2>1, <2>2
<1> HIDE DEF new
<1>8. Types'
  <2>1. \A x \in Ranks, v \in Ubatches : DOMAIN staged'[x][v] = 0..(Capacity - 1)
    <3>1. \A x \in Ranks, v \in Ubatches : DOMAIN staged[x][v] = 0..(Capacity - 1)
      BY <1>1 DEF Types
    <3>2. CASE ~Prestage
      <4>1. DOMAIN staged'[r][u] = 0..(Capacity - 1)
        BY <1>3, <1>6, <3>1, <3>2 DEF Write
      <4> HIDE DEF r, u
      <4>. QED
        BY <1>6, <3>1, <3>2, <4>1
    <3>. QED
      BY <1>1, <3>1, <3>2
  <2>2. staged' = [x \in Ranks |-> [v \in Ubatches |-> staged'[x][v]]]
    BY <1>1, <1>6 DEF Types
  <2>3. pc' \in [Threads -> {"idle", "ids", "lookup", "embed", "heads"}]
    BY <1>1 DEF Types
  <2>4. \A m \in Threads : step'[m] = 0 => pc'[m] = "idle" /\ out'[m] = << >>
    BY <1>1, <1>4, <1>5 DEF Types
  <2>5. UNCHANGED <<setup, plan, step, ids, ready, rows, out>> /\ Types
    BY <1>1
  <2>. QED
    BY <1>2, <2>1, <2>2, <2>3, <2>4, <2>5 DEF Types
<1>9. Planned'
  BY <1>1, <1>2 DEF Planned
<1>10. ASSUME NEW m \in Threads PROVE Phase(m)'
  <2>1. CASE m # th
    <3>1. UNCHANGED <<pc[m], ids[m], step[m], rows[m], out[m]>> /\ Phase(m)
      BY <1>1, <1>5, <2>1 DEF IInv
    <3>2. RankOf(m) # r \/ m[3] # u
      <4>1. m = <<m[1], m[2], m[3]>> /\ RankOf(m) = <<m[1], m[2]>>
        BY <1>1, Groups DEF RankOf
      <4>. QED
        BY <1>3, <2>1, <4>1
    <3>3. UNCHANGED staged[RankOf(m)][m[3]]
      <4>1. RankOf(m) \in Ranks /\ m[3] \in Ubatches /\ RankOf(m)' = RankOf(m)
        BY <1>1, Groups DEF RankOf
      <4> HIDE DEF r, u
      <4>. QED
        BY <1>1, <1>6, <3>2, <4>1
    <3>. QED
      BY <1>1, <3>1, <3>3, PhaseKept
  <2>2. CASE m = th
    <3> DEFINE l == LookedUp(th)
    <3>1. l' = l /\ Owed(th)' = Owed(th) /\ r' = r /\ u' = u
      BY <1>1, SameLookedUp, SameOwed DEF RankOf
    <3>2. UNCHANGED <<PartCols, NumCols>> /\ UNCHANGED HeadStart(r)
      BY <1>1, <3>1, SameSetup DEF HeadStart, ShardRank
    <3>3. Begins(staged[r][u], Lookup(r, l))'
      <4> HIDE DEF l, r, u
      <4>1. Lookup(r, l)' = Lookup(r, l)
        BY <3>1, <3>2 DEF Lookup
      <4>. QED
        BY <1>7, <3>1, <4>1 DEF Begins, l
    <3>4. out'[th] # << >> => out'[th] = Owed(th)'
      BY <1>1, <3>1 DEF Phase
    <3>5. Phase(th)'
      BY <1>5, <3>3, <3>4 DEF Phase
    <3>. QED
      BY <2>2, <3>5
  <2>. QED
    BY <2>1, <2>2
<1>11. ASSUME NEW m \in Threads PROVE Prestaged(m)'
  <2>1. Prestaged(m) /\ (pc'[m] # "idle" => pc[m] # "idle")
    BY <1>1, <1>5 DEF IInv
  <2>2. Prestage => UNCHANGED staged[RankOf(m)][0]
    BY <1>1 DEF RankOf
  <2>. QED
    BY <1>1, <2>1, <2>2, PrestagedKept DEF RankOf
<1>. QED
  BY <1>2, <1>8, <1>9, <1>10, <1>11 DEF IInv

\* Traded rows are those owed, whatever the replicas' batch sizes.
LEMMA TakeRowsKeeps ==
  ASSUME IInv, NEW th \in Threads, TakeRows(th)
  PROVE  IInv'
<1> DEFINE M == Members(DPGroup(th))
           Taken(m) == IF DPSize > 1 THEN TradedRows(m) ELSE OwnRows(m)
<1>1. /\ Types /\ Planned /\ Meet(DPGroup(th), "embed")
      /\ rows' = [m \in Threads |-> IF m \notin M THEN rows[m] ELSE Taken(m)]
      /\ pc' = [m \in Threads |-> IF m \in M THEN "heads" ELSE pc[m]]
      /\ UNCHANGED <<setup, plan, step, ids, staged, ready, out>>
  BY DEF TakeRows, IInv
<1>2. UNCHANGED <<Replicas, Ubatches, Ranks, Threads, Batches, Capacity>>
  BY <1>1, SameSetup
<1>3. /\ M \subseteq Threads /\ \A d \in Replicas : DPGroup(th)[d] \in M
      /\ step[th] \in DOMAIN plan
      /\ \A m \in M : /\ pc[m] = "embed" /\ step[m] = step[th] /\ AllIds(m) = AllIds(th)
                      /\ m[2] = th[2] /\ m[3] = th[3] /\ m[1] \in Replicas
                      /\ RankOf(m) = <<m[1], th[2]>>
  BY <1>1, MetDP
<1>4. \A m \in M : Begins(staged[RankOf(m)][m[3]], Lookup(RankOf(m), LookedUp(m)))
  BY <1>3 DEF IInv, Phase
<1>5. ASSUME NEW m \in M PROVE Taken(m) = OwedRows(m)
  <2>1. m \in Threads /\ step[m] \in DOMAIN plan
    BY <1>3
  <2>2. CASE DPSize > 1
    <3>1. ASSUME NEW d \in Replicas
          PROVE  Begins(staged[<<d, m[2]>>][m[3]], Lookup(<<d, m[2]>>, AllIds(m)))
      <4> DEFINE x == DPGroup(th)[d]
      <4>1. x = <<d, th[2], th[3]>> /\ x \in M
        BY <1>1, <1>3, Groups
      <4> HIDE DEF x, M
      <4>2. x[1] = d /\ LookedUp(x) = AllIds(x)
        BY <2>2, <4>1 DEF LookedUp
      <4>3. RankOf(x) = <<d, m[2]>> /\ x[3] = m[3] /\ AllIds(x) = AllIds(m)
        BY <1>3, <4>1, <4>2
      <4>. QED
        BY <1>4, <4>1, <4>2, <4>3
    <3>2. TradedRows(m) = OwedRows(m)
      BY <1>1, <2>1, <2>2, <3>1, TradedRowsOwed
    <3>. QED
      BY <2>2, <3>2
  <2>3. CASE ~(DPSize > 1)
    <3>1. DPSize = 1
      BY <1>1, <2>3, Sizes
    <3>2. OwnRows(m) = OwedRows(m)
      BY <1>1, <1>4, <2>1, <3>1, OwnRowsOwed
    <3>. QED
      BY <2>3, <3>2
  <2>. QED
    BY <2>2, <2>3
<1> HIDE DEF M, Taken
<1>6. Types'
  <2>1. rows' = [m \in Threads |-> rows'[m]]
    BY <1>1
  <2>2. pc' \in [Threads -> {"idle", "ids", "lookup", "embed", "heads"}]
    BY <1>1 DEF Types
  <2>3. \A m \in Threads : step'[m] = 0 => pc'[m] = "idle" /\ out'[m] = << >>
    <3>1. \A m \in M : step[m] # 0
      BY <1>1, <1>3 DEF Types
    <3>. QED
      BY <1>1, <3>1 DEF Types
  <2>. QED
    BY <1>1, <1>2, <2>1, <2>2, <2>3 DEF Types
<1>7. Planned'
  BY <1>1, <1>2 DEF Planned
<1>8. ASSUME NEW m \in Threads PROVE Phase(m)'
  <2>1. CASE m \notin M
    <3>1. UNCHANGED <<pc[m], ids[m], step[m], rows[m], out[m]>> /\ Phase(m)
      BY <1>1, <2>1 DEF IInv
    <3>. QED
      BY <1>1, <3>1, PhaseKept DEF RankOf
  <2>2. CASE m \in M
    <3>1. pc'[m] = "heads" /\ rows'[m] = OwedRows(m)
      BY <1>1, <1>5, <2>2
    <3>2. OwedRows(m)' = OwedRows(m) /\ Owed(m)' = Owed(m)
      BY <1>1, SameOwed
    <3>3. out'[m] # << >> => out'[m] = Owed(m)'
      BY <1>1, <3>2 DEF IInv, Phase
    <3>. QED
      BY <3>1, <3>2, <3>3 DEF Phase
  <2>. QED
    BY <2>1, <2>2
<1>9. ASSUME NEW m \in Threads PROVE Prestaged(m)'
  <2>1. Prestaged(m) /\ (pc'[m] # "idle" => pc[m] # "idle")
    BY <1>1, <1>3 DEF IInv
  <2>. QED
    BY <1>1, <2>1, PrestagedKept DEF RankOf
<1>. QED
  BY <1>2, <1>6, <1>7, <1>8, <1>9 DEF IInv

\* The heads of a TP group make up every row that is owed.
LEMMA TakeHeadsKeeps ==
  ASSUME IInv, NEW th \in Threads, TakeHeads(th)
  PROVE  IInv'
<1> DEFINE M == Members(TPGroup(th))
<1>1. /\ Types /\ Planned /\ Meet(TPGroup(th), "heads")
      /\ out' = [m \in Threads |-> IF m \in M THEN Embedded(m) ELSE out[m]]
      /\ pc' = [m \in Threads |-> IF m \in M THEN "idle" ELSE pc[m]]
      /\ UNCHANGED <<setup, plan, step, ids, staged, ready, rows>>
  BY DEF TakeHeads, IInv
<1>2. UNCHANGED <<Replicas, Ubatches, Ranks, Threads, Batches, Capacity>>
  BY <1>1, SameSetup
<1>3. /\ DOMAIN TPGroup(th) = TPRanks /\ 0 \in TPRanks
      /\ \A t \in TPRanks : /\ TPGroup(th)[t] = <<th[1], t, th[3]>>
                            /\ TPGroup(th)[t] \in Threads
      /\ th[2] \in TPRanks /\ th = <<th[1], th[2], th[3]>>
  BY <1>1, Groups
<1>4. M = {<<th[1], t, th[3]>> : t \in TPRanks}
  BY <1>3 DEF Members
<1>5. /\ th \in M /\ M \subseteq Threads /\ \A t \in TPRanks : TPGroup(th)[t] \in M
      /\ \A m \in M : m[1] = th[1] /\ m[3] = th[3] /\ TPGroup(m) = TPGroup(th)
  BY <1>3, <1>4 DEF TPGroup
<1>6. \A m \in M : pc[m] = "heads" /\ step[m] = step[th] /\ rows[m] = OwedRows(m)
  <2>1. \A m \in M : pc[m] = "heads" /\ step[m] = step[TPGroup(th)[0]]
    BY <1>1 DEF Meet
  <2>. QED
    BY <1>5, <2>1 DEF IInv, Phase
<1> HIDE DEF M
<1>7. \A m \in M : step[m] # 0 /\ step[m] \in DOMAIN plan
  <2>1. \A m \in M : step[m] # 0
    BY <1>1, <1>5, <1>6 DEF Types
  <2>. QED
    BY <1>1, <1>5, <2>1, Steps
<1>8. ASSUME NEW m \in M PROVE Embedded(m) = Owed(m)
  <2>1. m \in Threads /\ step[m] \in DOMAIN plan
    BY <1>5, <1>7
  <2>2. \A t \in TPRanks : /\ step[TPGroup(m)[t]] = step[m]
                           /\ rows[TPGroup(m)[t]] = OwedRows(TPGroup(m)[t])
    BY <1>5, <1>6
  <2>. QED
    BY <1>1, <2>1, <2>2, EmbeddedOwed
<1>9. Types'
  <2>1. out' = [m \in Threads |-> out'[m]]
    BY <1>1
  <2>2. pc' \in [Threads -> {"idle", "ids", "lookup", "embed", "heads"}]
    BY <1>1 DEF Types
  <2>3. \A m \in Threads : step'[m] = 0 => pc'[m] = "idle" /\ out'[m] = << >>
    BY <1>1, <1>7 DEF Types
  <2>. QED
    BY <1>1, <1>2, <2>1, <2>2, <2>3 DEF Types
<1>10. Planned'
  BY <1>1, <1>2 DEF Planned
<1>11. ASSUME NEW m \in Threads PROVE Phase(m)'
  <2>1. CASE m \notin M
    <3>1. UNCHANGED <<pc[m], ids[m], step[m], rows[m], out[m]>> /\ Phase(m)
      BY <1>1, <2>1 DEF IInv
    <3>. QED
      BY <1>1, <3>1, PhaseKept DEF RankOf
  <2>2. CASE m \in M
    <3>1. pc'[m] = "idle" /\ out'[m] = Owed(m)
      BY <1>1, <1>8, <2>2
    <3>2. Owed(m)' = Owed(m)
      BY <1>1, SameOwed
    <3>. QED
      BY <3>1, <3>2 DEF Phase
  <2>. QED
    BY <2>1, <2>2
<1>12. ASSUME NEW m \in Threads PROVE Prestaged(m)'
  <2>1. Prestaged(m) /\ (pc'[m] # "idle" => pc[m] # "idle")
    BY <1>1 DEF IInv
  <2>. QED
    BY <1>1, <2>1, PrestagedKept DEF RankOf
<1>. QED
  BY <1>2, <1>9, <1>10, <1>11, <1>12 DEF IInv

LEMMA StutterKeeps == IInv /\ UNCHANGED vars => IInv'
<1> SUFFICES ASSUME IInv, UNCHANGED vars PROVE IInv'
  OBVIOUS
<1>1. UNCHANGED <<setup, plan, pc, step, ids, staged, ready, rows, out>> /\ Types
  BY DEF vars, IInv
<1>2. UNCHANGED <<Replicas, Ubatches, Ranks, Threads, Batches, Capacity>>
  BY <1>1, SameSetup
<1>3. Types' /\ Planned'
  BY <1>1, <1>2 DEF Types, Planned, IInv
<1>4. ASSUME NEW m \in Threads PROVE Phase(m)' /\ Prestaged(m)'
  <2>1. Phase(m) /\ Prestaged(m)
    BY DEF IInv
  <2>2. Phase(m)'
    BY <1>1, <2>1, PhaseKept DEF RankOf
  <2>3. Prestaged(m)'
    BY <1>1, <2>1, PrestagedKept DEF RankOf
  <2>. QED
    BY <2>2, <2>3
<1>. QED
  BY <1>2, <1>3, <1>4 DEF IInv

LEMMA NextKeeps == PrestageAlone /\ IInv /\ [Next]_vars => IInv'
<1> SUFFICES ASSUME PrestageAlone, IInv, [Next]_vars PROVE IInv'
  OBVIOUS
<1>1. ASSUME NEW rank \in Ranks, Stage(rank) PROVE IInv'
  BY <1>1, StageKeeps
<1>2. ASSUME NEW th \in Threads, Begin(th) PROVE IInv'
  BY <1>2, BeginKeeps
<1>3. ASSUME NEW th \in Threads, GatherIds(th) PROVE IInv'
  BY <1>3, GatherIdsKeeps
<1>4. ASSUME NEW th \in Threads, PrepareEmbeddings(th) PROVE IInv'
  BY <1>4, PrepareEmbeddingsKeeps
<1>5. ASSUME NEW th \in Threads, TakeRows(th) PROVE IInv'
  BY <1>5, TakeRowsKeeps
<1>6. ASSUME NEW th \in Threads, TakeHeads(th) PROVE IInv'
  BY <1>6, TakeHeadsKeeps
<1>7. ASSUME NEW p \in [Replicas -> Batches], PlanStep(p) PROVE IInv'
  BY <1>7, PlanStepKeeps
<1>8. CASE UNCHANGED vars
  BY <1>8, StutterKeeps
<1>. QED
  BY <1>1, <1>2, <1>3, <1>4, <1>5, <1>6, <1>7, <1>8 DEF Next, Work

-----------------------------------------------------------------------------

\* Where a thread is tells what it has in hand, in every reachable state.
THEOREM DataFollowsPhase ==
  ASSUME PrestageAlone
  PROVE  Spec => []IInv
<1>1. Init => IInv
  BY InitIInv
<1>2. IInv /\ [Next]_vars => IInv'
  BY NextKeeps
<1>. QED
  BY <1>1, <1>2, PTL DEF Spec

\* Every forward gets the rows of its own tokens, for every head, and a dummy
\* run none, for any sizes, interleaving and earlier contents of the buffers.
THEOREM OutputCorrect ==
  ASSUME PrestageAlone
  PROVE  Spec => []OutputComplete
<1>1. IInv => OutputComplete
  BY DEF IInv, Phase, OutputComplete
<1>. QED
  BY <1>1, DataFollowsPhase, PTL

\* What is about to be looked up has room in the staging buffer ("engram
\* staging buffer too small" is never raised).  The deployments left out stage
\* their rows before the forward and look nothing up in it.
THEOREM BuffersFit ==
  ASSUME PrestageAlone
  PROVE  Spec => []BufferFits
<1>1. IInv => BufferFits
  <2> SUFFICES ASSUME IInv, NEW th \in Threads, pc[th] = "lookup"
               PROVE  DOMAIN ids[th] \subseteq 0..(Capacity - 1)
    BY DEF BufferFits
  <2>1. Types /\ ids[th] = LookedUp(th) /\ step[th] # 0
    BY DEF IInv, Phase, Types
  <2>. QED
    BY <2>1, Steps, LookedUpFits
<1>. QED
  BY <1>1, DataFollowsPhase, PTL
=============================================================================
