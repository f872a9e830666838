--------------------------- MODULE SwaWindow_proofs ---------------------------
(* Every token reads the KV it should, and only that, for every number of    *)
(* requests, blocks and tokens, every window and every setup of drafter and  *)
(* images: after a pass the reads of a token are the slots of its window (of *)
(* its image, of its block of drafts), and those slots hold the KV of its    *)
(* own request at those positions.  The proof follows a pass: the scheduler  *)
(* gives tables that cover it (AdmitKeeps), the builder makes a row of slots *)
(* for each token (BuildStep, UpdateStep), the pass inserts its KV and reads *)
(* by the rows (ForwardReads), and the step ends with what was accepted.     *)
EXTENDS SwaWindow, FiniteSetTheorems, SequenceTheorems, TLAPS

-----------------------------------------------------------------------------
(* Numbers *)

\* A position is its block's first position and its place in the block.
LEMMA DivMod ==
  ASSUME NEW p \in Nat, NEW d \in Nat \ {0}
  PROVE  /\ p \div d \in Nat /\ p % d \in 0..(d - 1)
         /\ p = (p \div d) * d + (p % d)
  BY SMT

\* Multiples of a block size grow with their factors.
LEMMA Multiples ==
  ASSUME NEW a \in Nat, NEW b \in Nat, NEW d \in Nat \ {0}
  PROVE  /\ a * d \in Nat /\ b * d \in Nat
         /\ a <= b => a * d <= b * d
         /\ a < b => a * d + d <= b * d
<1>1. a * d \in Nat /\ b * d \in Nat
  BY SMT
<1>2. ASSUME a < b PROVE a * d + d <= b * d
  <2>1. b - a - 1 \in Nat /\ b = a + 1 + (b - a - 1)
    BY <1>2
  <2>2. PICK e \in Nat : b = a + 1 + e
    BY <2>1
  <2>3. b * d = a * d + d + e * d /\ e * d \in Nat
    BY <2>2
  <2>. QED
    BY <1>1, <2>3
<1>3. a = b => a * d <= b * d
  BY <1>1
<1>. QED
  BY <1>1, <1>2, <1>3

\* A number is known by its last digit and the rest.
LEMMA Digits ==
  ASSUME NEW q \in Nat, NEW d \in Nat \ {0}, NEW r \in 0..(d - 1)
  PROVE  /\ q * d + r \in Nat
         /\ (q * d + r) \div d = q /\ (q * d + r) % d = r
<1> DEFINE k == q * d + r
           p == k \div d
           m == k % d
<1>1. q * d \in Nat /\ k \in Nat
  BY Multiples
<1>2. p \in Nat /\ m \in 0..(d - 1) /\ k = p * d + m
  BY <1>1, DivMod
<1>3. k = q * d + r
  OBVIOUS
<1> HIDE DEF k, p, m
<1>4. q < p => q * d + d <= p * d
  BY <1>2, Multiples
<1>5. p < q => p * d + d <= q * d
  BY <1>2, Multiples
<1>6. p * d \in Nat
  BY <1>2, Multiples
<1>7. p = q
  BY <1>1, <1>2, <1>3, <1>4, <1>5, <1>6
<1>8. m = r
  BY <1>1, <1>2, <1>3, <1>7
<1>. QED
  BY <1>1, <1>3, <1>7, <1>8 DEF k, p, m

\* A number below a * d has its quotient below a.
LEMMA QuotientBelow ==
  ASSUME NEW p \in Nat, NEW a \in Nat, NEW d \in Nat \ {0}, p < a * d
  PROVE  p \div d \in 0..(a - 1)
<1> DEFINE q == p \div d
<1>1. q \in Nat /\ p % d \in 0..(d - 1) /\ p = q * d + (p % d)
  BY DivMod
<1> HIDE DEF q
<1>2. a <= q => a * d <= q * d
  BY <1>1, Multiples
<1>3. q * d \in Nat /\ a * d \in Nat
  BY <1>1, Multiples
<1>4. q < a
  BY <1>1, <1>2, <1>3
<1>. QED
  BY <1>1, <1>4 DEF q

\* A number written with a digit below d is below a * d.
LEMMA DigitsBelow ==
  ASSUME NEW a \in Nat, NEW d \in Nat \ {0}, NEW q \in 0..(a - 1), NEW r \in 0..(d - 1)
  PROVE  q * d + r \in 0..(a * d - 1)
<1>1. q \in Nat /\ q < a
  OBVIOUS
<1>2. q * d + d <= a * d /\ q * d \in Nat /\ a * d \in Nat
  BY <1>1, Multiples
<1>. QED
  BY <1>2

\* Induction on a set of numbers.
LEMMA Counting ==
  ASSUME NEW S, 0 \in S, \A n \in Nat : n \in S => n + 1 \in S
  PROVE  Nat \subseteq S
<1> DEFINE T == Nat \ S
<1>. SUFFICES ASSUME T # {} PROVE FALSE
  OBVIOUS
<1>1. PICK t \in T : \A y \in T : <<y, t>> \notin OpToRel(<, Nat)
  <2>1. T \subseteq Nat /\ T # {}
    OBVIOUS
  <2> HIDE DEF T
  <2>. QED
    BY <2>1, NatLessThanWellFounded, WFMin, Zenon
<1>2. t # 0 /\ t \in Nat
  OBVIOUS
<1>3. t - 1 \in Nat /\ t - 1 < t /\ (t - 1) + 1 = t
  BY <1>2
<1>4. t - 1 \notin S
  BY <1>2, <1>3
<1>5. <<t - 1, t>> \in OpToRel(<, Nat)
  <2>1. \A y, z \in Nat : y < z => <<y, z>> \in OpToRel(<, Nat)
    BY Zenon DEF OpToRel
  <2>. QED
    BY <1>2, <1>3, <2>1
<1>. QED
  BY <1>1, <1>3, <1>4, <1>5

\* A set of numbers that is not empty has a least member, which Min picks.
LEMMA Smallest ==
  ASSUME NEW S, S \subseteq Nat, S # {}
  PROVE  Min(S) \in S /\ \A x \in S : Min(S) <= x
<1>1. PICK t \in S : \A y \in S : <<y, t>> \notin OpToRel(<, Nat)
  BY NatLessThanWellFounded, WFMin, Zenon
<1>2. \A y, z \in Nat : y < z => <<y, z>> \in OpToRel(<, Nat)
  BY Zenon DEF OpToRel
<1>3. \A y \in S : t <= y
  <2>. TAKE y \in S
  <2>1. ~(y < t)
    BY <1>1, <1>2
  <2>. QED
    BY <2>1
<1>4. \E m \in S : \A x \in S : m <= x
  BY <1>1, <1>3
<1>. QED
  BY <1>4, Zenon DEF Min

\* So does Max the greatest of a bounded set.
LEMMA Largest ==
  ASSUME NEW b \in Nat, NEW S, S \subseteq 0..b, S # {}
  PROVE  Max(S) \in S /\ \A x \in S : x <= Max(S)
<1> DEFINE T == {b - x : x \in S}
<1>1. \A x \in S : b - x \in Nat /\ x \in Int
  OBVIOUS
<1>2. T \subseteq Nat /\ T # {}
  BY <1>1
<1>3. Min(T) \in T /\ \A y \in T : Min(T) <= y
  <2> HIDE DEF T
  <2>. QED
    BY <1>2, Smallest
<1>4. PICK m \in S : Min(T) = b - m
  BY <1>3
<1>5. \A x \in S : b - m <= b - x
  BY <1>3, <1>4
<1>6. \A x \in S : m >= x
  BY <1>1, <1>5
<1>7. Max(S) \in S /\ \A x \in S : Max(S) >= x
  BY <1>6, Zenon DEF Max
<1>. QED
  BY <1>1, <1>7

\* A row is a sequence.
LEMMA LenOf ==
  ASSUME NEW n \in Nat, NEW S, NEW s \in [1..n -> S]
  PROVE  s \in Seq(S) /\ Len(s) = n
<1>1. s \in Seq(S)
  BY SeqDef
<1>2. Len(s) \in Nat /\ DOMAIN s = 1..Len(s) /\ DOMAIN s = 1..n
  BY <1>1, LenProperties
<1>. QED
  BY <1>1, <1>2

\* What a pass has per request.
Request == [r : Requests, from : 0..MaxModelLen, q : 1..MaxTokens]

-----------------------------------------------------------------------------
(* query_start_loc *)

\* The first n sums of the lengths of b.
Sums(f, b, n) == /\ f \in [0..n -> Nat] /\ f[0] = 0
                 /\ \A i \in 1..n : f[i] = f[i - 1] + b[i].q

\* The sums of the first n query lengths exist: QueryStart's recursion is well
\* founded.
LEMMA SumsExist ==
  ASSUME NEW b \in Seq(Request)
  PROVE  \A n \in Nat : n <= Len(b) => \E f : Sums(f, b, n)
<1> DEFINE D == {n \in Nat : n <= Len(b) => \E f : Sums(f, b, n)}
<1>1. 0 \in D
  <2>1. Sums([m \in 0..0 |-> 0], b, 0)
    BY DEF Sums
  <2>. QED
    BY <2>1
<1>2. ASSUME NEW n \in Nat, n \in D PROVE n + 1 \in D
  <2>. SUFFICES ASSUME n + 1 <= Len(b) PROVE \E f : Sums(f, b, n + 1)
    OBVIOUS
  <2>1. Len(b) \in Nat /\ DOMAIN b = 1..Len(b)
    OBVIOUS
  <2>2. n <= Len(b) /\ n + 1 \in 1..Len(b)
    BY <2>1
  <2>3. PICK old : Sums(old, b, n)
    BY <1>2, <2>2
  <2>4. b[n + 1].q \in Nat
    <3>1. b[n + 1] \in Request
      BY <2>2, ElementOfSeq
    <3>2. b[n + 1].q \in 1..MaxTokens
      BY <3>1 DEF Request
    <3>. QED
      BY <3>2
  <2> DEFINE new == [m \in 0..(n + 1) |-> IF m = n + 1 THEN old[n] + b[n + 1].q ELSE old[m]]
  <2>5. old \in [0..n -> Nat] /\ old[0] = 0 /\ \A i \in 1..n : old[i] = old[i - 1] + b[i].q
    BY <2>3 DEF Sums
  <2>6. old[n] + b[n + 1].q \in Nat /\ \A m \in 0..(n + 1) : m # n + 1 => m \in 0..n
    BY <2>4, <2>5
  <2>7. new \in [0..(n + 1) -> Nat] /\ new[0] = 0 /\ new[n + 1] = old[n] + b[n + 1].q
        /\ \A m \in 0..n : new[m] = old[m]
    BY <2>5, <2>6
  <2> HIDE DEF new
  <2>8. ASSUME NEW i \in 1..(n + 1) PROVE new[i] = new[i - 1] + b[i].q
    <3>1. CASE i = n + 1
      <4>1. i - 1 = n /\ n \in 0..n
        BY <3>1
      <4>. QED
        BY <2>7, <3>1, <4>1
    <3>2. CASE i # n + 1
      <4>1. i \in 1..n /\ i \in 0..n /\ i - 1 \in 0..n
        BY <3>2
      <4>. QED
        BY <2>5, <2>7, <4>1
    <3>. QED
      BY <3>1, <3>2
  <2>9. Sums(new, b, n + 1)
    BY <2>7, <2>8 DEF Sums
  <2>. QED
    BY <2>9
<1>3. Nat \subseteq D
  <2> HIDE DEF D
  <2>. QED
    BY <1>1, <1>2, Counting
<1>. QED
  BY <1>3

\* query_start_loc starts with 0 and grows by each request's query length.
LEMMA StartsAre ==
  ASSUME NEW b \in Seq(Request)
  PROVE  Sums(StartsOf(b), b, Len(b))
<1> DEFINE s == CHOOSE f : f = [i \in 0..Len(b) |-> IF i = 0 THEN 0
                                                   ELSE f[i - 1] + b[i].q]
<1>1. Len(b) \in Nat
  OBVIOUS
<1>2. PICK g : Sums(g, b, Len(b))
  BY <1>1, SumsExist
<1>3. g = [i \in 0..Len(b) |-> IF i = 0 THEN 0 ELSE g[i - 1] + b[i].q]
  <2>1. g \in [0..Len(b) -> Nat]
    BY <1>2 DEF Sums
  <2>2. \A i \in 0..Len(b) : g[i] = IF i = 0 THEN 0 ELSE g[i - 1] + b[i].q
    <3>1. \A i \in 0..Len(b) : i = 0 \/ i \in 1..Len(b)
      BY <1>1
    <3>. QED
      BY <1>2, <3>1 DEF Sums
  <2>. QED
    BY <2>1, <2>2
<1>4. s = [i \in 0..Len(b) |-> IF i = 0 THEN 0 ELSE s[i - 1] + b[i].q]
  <2>1. \E f : f = [i \in 0..Len(b) |-> IF i = 0 THEN 0 ELSE f[i - 1] + b[i].q]
    BY <1>3, Zenon
  <2>. QED
    BY <2>1, Zenon
<1>5. StartsOf(b) = s
  BY DEF StartsOf
<1> HIDE DEF s
<1>6. ASSUME NEW i \in 1..Len(b) PROVE s[i] = s[i - 1] + b[i].q
  <2>1. i \in 0..Len(b) /\ i # 0
    BY <1>1
  <2>. QED
    BY <1>4, <2>1
<1>7. s[0] = 0 /\ g[0] = 0 /\ 0 \in 0..Len(b)
  BY <1>1, <1>2, <1>4 DEF Sums
\* It counts as g does.
<1> DEFINE D == {n \in Nat : n <= Len(b) => s[n] = g[n]}
<1>8. 0 \in D
  BY <1>7
<1>9. ASSUME NEW n \in Nat, n \in D PROVE n + 1 \in D
  <2>. SUFFICES ASSUME n + 1 <= Len(b) PROVE s[n + 1] = g[n + 1]
    OBVIOUS
  <2>1. n <= Len(b) /\ n + 1 \in 1..Len(b) /\ (n + 1) - 1 = n
    BY <1>1
  <2>2. s[n] = g[n]
    BY <1>9, <2>1
  <2>3. g[n + 1] = g[n] + b[n + 1].q
    BY <1>2, <2>1 DEF Sums
  <2>. QED
    BY <1>6, <2>1, <2>2, <2>3
<1>10. Nat \subseteq D
  <2> HIDE DEF D
  <2>. QED
    BY <1>8, <1>9, Counting
<1>11. \A i \in 0..Len(b) : s[i] = g[i]
  BY <1>1, <1>10
<1>12. s = g
  <2>1. s = [i \in 0..Len(b) |-> s[i]]
    BY <1>4
  <2>2. g = [i \in 0..Len(b) |-> g[i]]
    BY <1>2 DEF Sums
  <2>. QED
    BY <1>11, <2>1, <2>2
<1>. QED
  BY <1>2, <1>5, <1>12

\* Batches with the same query lengths have the same query_start_loc.
LEMMA SumsAlike ==
  ASSUME NEW b, NEW c, NEW n \in Nat, NEW f, NEW g, Sums(f, b, n), Sums(g, c, n),
         \A i \in 1..n : b[i].q = c[i].q
  PROVE  f = g
<1> DEFINE D == {m \in Nat : m <= n => f[m] = g[m]}
<1>1. 0 \in D
  BY DEF Sums
<1>2. ASSUME NEW m \in Nat, m \in D PROVE m + 1 \in D
  <2>. SUFFICES ASSUME m + 1 <= n PROVE f[m + 1] = g[m + 1]
    OBVIOUS
  <2>1. m <= n /\ m + 1 \in 1..n /\ (m + 1) - 1 = m
    OBVIOUS
  <2>2. f[m] = g[m] /\ f[m + 1] = f[m] + b[m + 1].q /\ g[m + 1] = g[m] + c[m + 1].q
    BY <1>2, <2>1 DEF Sums
  <2>. QED
    BY <2>1, <2>2
<1>3. Nat \subseteq D
  <2> HIDE DEF D
  <2>. QED
    BY <1>1, <1>2, Counting
<1>4. \A m \in 0..n : f[m] = g[m]
  BY <1>3
<1>5. f \in [0..n -> Nat] /\ g \in [0..n -> Nat]
  BY DEF Sums
<1>. QED
  BY <1>4, <1>5

\* Every request has a token.
LEMMA SumsGrow ==
  ASSUME NEW b \in Seq(Request), NEW f, Sums(f, b, Len(b)),
         NEW i \in 0..Len(b), NEW j \in 0..Len(b), i <= j
  PROVE  f[i] \in Nat /\ f[j] \in Nat /\ f[i] + (j - i) <= f[j]
<1>1. Len(b) \in Nat /\ f \in [0..Len(b) -> Nat]
  BY DEF Sums
<1> DEFINE D == {m \in Nat : i + m <= Len(b) => f[i] + m <= f[i + m]}
<1>2. 0 \in D
  BY <1>1
<1>3. ASSUME NEW m \in Nat, m \in D PROVE m + 1 \in D
  <2>. SUFFICES ASSUME i + (m + 1) <= Len(b) PROVE f[i] + (m + 1) <= f[i + (m + 1)]
    OBVIOUS
  <2>1. i + m <= Len(b) /\ i + (m + 1) \in 1..Len(b) /\ (i + (m + 1)) - 1 = i + m
        /\ i + m \in 0..Len(b) /\ i + (m + 1) \in 0..Len(b)
    BY <1>1
  <2>2. f[i] + m <= f[i + m] /\ f[i + (m + 1)] = f[i + m] + b[i + (m + 1)].q
    BY <1>3, <2>1 DEF Sums
  <2>3. b[i + (m + 1)].q \in 1..MaxTokens
    <3>1. b[i + (m + 1)] \in Request
      BY <2>1, ElementOfSeq
    <3>. QED
      BY <3>1 DEF Request
  <2>4. f[i] \in Nat /\ f[i + m] \in Nat /\ f[i + (m + 1)] \in Nat
    BY <1>1, <2>1
  <2> DEFINE x == f[i]
             y == f[i + m]
             z == f[i + (m + 1)]
             q == b[i + (m + 1)].q
  <2>5. x \in Nat /\ y \in Nat /\ z \in Nat /\ x + m <= y /\ z = y + q
    BY <2>2, <2>4
  <2>6. q \in Nat /\ q >= 1
    BY <2>3
  <2> HIDE DEF x, y, z, q
  <2>7. x + (m + 1) <= z
    BY <2>5, <2>6
  <2>. QED
    BY <2>7 DEF x, z
<1>4. Nat \subseteq D
  <2> HIDE DEF D
  <2>. QED
    BY <1>2, <1>3, Counting
<1>5. j - i \in Nat /\ i + (j - i) = j
  BY <1>1
<1>. QED
  BY <1>1, <1>4, <1>5

-----------------------------------------------------------------------------
(* Tokens *)

\* The same of the batch that runs: a count of its tokens, at least one each.
LEMMA StartsIs ==
  ASSUME batch \in Seq(Request)
  PROVE  /\ Sums(QueryStart, batch, Len(batch))
         /\ QueryStart \in [0..Len(batch) -> Nat] /\ QueryStart[0] = 0
         /\ NumTokens \in Nat /\ Len(batch) \in Nat /\ DOMAIN batch = 1..Len(batch)
         /\ Len(batch) <= NumTokens
         /\ \A i \in DOMAIN batch : batch[i] \in Request
<1>1. Sums(QueryStart, batch, Len(batch))
  BY StartsAre DEF QueryStart
<1>2. Len(batch) \in Nat /\ DOMAIN batch = 1..Len(batch)
  OBVIOUS
<1>3. QueryStart \in [0..Len(batch) -> Nat] /\ QueryStart[0] = 0
  BY <1>1 DEF Sums
<1>4. NumTokens \in Nat
  BY <1>2, <1>3 DEF NumTokens
<1>5. Len(batch) <= NumTokens
  <2>1. 0 \in 0..Len(batch) /\ Len(batch) \in 0..Len(batch) /\ 0 <= Len(batch)
    BY <1>2
  <2>2. QueryStart[0] + (Len(batch) - 0) <= QueryStart[Len(batch)]
    BY <1>1, <2>1, SumsGrow
  <2>. QED
    BY <1>2, <1>3, <2>2 DEF NumTokens
<1>6. \A i \in DOMAIN batch : batch[i] \in Request
  BY <1>2, ElementOfSeq
<1>. QED
  BY <1>1, <1>2, <1>3, <1>4, <1>5, <1>6

\* Token t belongs to request i of the batch.
Of(t, i) == t \in (QueryStart[i - 1] + 1)..QueryStart[i]

\* A token belongs to the request that ReqOf finds ...
LEMMA ReqOfIs ==
  ASSUME batch \in Seq(Request), NEW t \in 1..NumTokens
  PROVE  ReqOf(t) \in DOMAIN batch /\ Of(t, ReqOf(t))
<1>1. /\ QueryStart \in [0..Len(batch) -> Nat] /\ QueryStart[0] = 0
      /\ NumTokens \in Nat /\ Len(batch) \in Nat /\ DOMAIN batch = 1..Len(batch)
  BY StartsIs
<1> DEFINE S == {i \in 0..Len(batch) : t <= QueryStart[i]}
           m == Min(S)
<1>2. Len(batch) \in S /\ S \subseteq Nat
  BY <1>1 DEF NumTokens
<1>3. m \in S /\ \A x \in S : m <= x
  <2> HIDE DEF S
  <2>. QED
    BY <1>2, Smallest
<1>4. m \in 0..Len(batch) /\ t <= QueryStart[m]
  BY <1>3
<1>5. \A x \in 0..Len(batch) : t <= QueryStart[x] => m <= x
  BY <1>3
<1> HIDE DEF m, S
<1>6. m # 0
  BY <1>1, <1>4
<1>7. m - 1 \in 0..Len(batch) /\ m \in 1..Len(batch) /\ ~(m <= m - 1)
  BY <1>1, <1>4, <1>6
<1>8. ~(t <= QueryStart[m - 1])
  BY <1>5, <1>7
<1>9. QueryStart[m] \in Nat /\ QueryStart[m - 1] \in Nat
  BY <1>1, <1>4, <1>7
<1>10. Of(t, m)
  BY <1>4, <1>8, <1>9 DEF Of
<1>11. \E i \in DOMAIN batch : Of(t, i)
  BY <1>1, <1>7, <1>10
<1>12. ReqOf(t) = CHOOSE i \in DOMAIN batch : Of(t, i)
  BY DEF ReqOf, Of
<1>. QED
  BY <1>11, <1>12

\* ... and to no other: the query ranges of two requests do not overlap.
LEMMA OfOne ==
  ASSUME batch \in Seq(Request), NEW t \in Nat,
         NEW i \in DOMAIN batch, NEW j \in DOMAIN batch, Of(t, i), Of(t, j)
  PROVE  i = j
<1>1. /\ Sums(QueryStart, batch, Len(batch)) /\ QueryStart \in [0..Len(batch) -> Nat]
      /\ Len(batch) \in Nat /\ DOMAIN batch = 1..Len(batch)
  BY StartsIs
<1>2. ASSUME NEW a \in DOMAIN batch, NEW c \in DOMAIN batch, Of(t, a), Of(t, c)
      PROVE  ~(a < c)
  <2>. SUFFICES ASSUME a < c PROVE FALSE
    OBVIOUS
  <2>1. a \in 0..Len(batch) /\ c - 1 \in 0..Len(batch) /\ a <= c - 1 /\ (c - 1) - a \in Nat
    BY <1>1
  <2>2. QueryStart[a] \in Nat /\ QueryStart[c - 1] \in Nat
        /\ QueryStart[a] + ((c - 1) - a) <= QueryStart[c - 1]
    BY <1>1, <2>1, SumsGrow
  <2>3. t <= QueryStart[a] /\ QueryStart[c - 1] + 1 <= t
    BY <1>2, <2>2 DEF Of
  <2> DEFINE x == QueryStart[a]
             y == QueryStart[c - 1]
             d == (c - 1) - a
  <2>4. x \in Nat /\ y \in Nat /\ d \in Nat /\ x + d <= y /\ t <= x /\ y + 1 <= t
    BY <2>1, <2>2, <2>3
  <2> HIDE DEF x, y, d
  <2>. QED
    BY <2>4
<1>3. ~(i < j) /\ ~(j < i)
  BY <1>2
<1>. QED
  BY <1>1, <1>3

\* A token is one of the positions its request has in the pass.
LEMMA TokenIs ==
  ASSUME batch \in Seq(Request), NEW t \in 1..NumTokens
  PROVE  /\ Tokens[t].req \in DOMAIN batch /\ Tokens[t].padding = FALSE
         /\ Tokens[t].req = ReqOf(t)
         /\ Tokens[t].offset \in 0..(batch[Tokens[t].req].q - 1)
         /\ batch[Tokens[t].req] \in Request
         /\ Position(Tokens[t]) = batch[Tokens[t].req].from + Tokens[t].offset
         /\ Position(Tokens[t]) \in Nat
<1> DEFINE i == ReqOf(t)
<1>1. /\ Sums(QueryStart, batch, Len(batch)) /\ QueryStart \in [0..Len(batch) -> Nat]
      /\ Len(batch) \in Nat /\ DOMAIN batch = 1..Len(batch) /\ NumTokens \in Nat
      /\ \A k \in DOMAIN batch : batch[k] \in Request
  BY StartsIs
<1>2. i \in DOMAIN batch /\ Of(t, i)
  BY ReqOfIs
<1>3. Tokens[t] = [req |-> i, offset |-> t - QueryStart[i - 1] - 1, padding |-> FALSE]
  BY DEF Tokens
<1> HIDE DEF i
<1>4. i \in 1..Len(batch) /\ i \in 0..Len(batch) /\ i - 1 \in 0..Len(batch)
  BY <1>1, <1>2
<1>5. QueryStart[i] = QueryStart[i - 1] + batch[i].q
  BY <1>1, <1>4 DEF Sums
<1>6. batch[i].q \in 1..MaxTokens /\ batch[i].from \in 0..MaxModelLen
  BY <1>1, <1>2 DEF Request
<1>7. QueryStart[i - 1] \in Nat /\ QueryStart[i] \in Nat
  BY <1>1, <1>4
<1>8. t - QueryStart[i - 1] - 1 \in 0..(batch[i].q - 1)
  <2> DEFINE x == QueryStart[i - 1]
             y == QueryStart[i]
             q == batch[i].q
  <2>1. t \in (x + 1)..y /\ y = x + q /\ x \in Nat /\ y \in Nat
    BY <1>2, <1>5, <1>7 DEF Of
  <2>2. q \in Nat
    BY <1>6
  <2> HIDE DEF x, y, q
  <2>3. t - x - 1 \in 0..(q - 1)
    BY <2>1, <2>2
  <2>. QED
    BY <2>3 DEF x, q
<1>9. /\ Tokens[t].req = i /\ Tokens[t].offset = t - QueryStart[i - 1] - 1
      /\ Tokens[t].padding = FALSE
  BY <1>3
<1>10. Position(Tokens[t]) = batch[i].from + Tokens[t].offset
  BY <1>9 DEF Position, PrefixLen
<1>11. Tokens[t].offset \in 0..(batch[i].q - 1)
  BY <1>8, <1>9
<1>12. Position(Tokens[t]) \in Nat
  BY <1>6, <1>10, <1>11
<1>. QED
  BY <1>1, <1>2, <1>9, <1>10, <1>11, <1>12 DEF i

\* Every position a request has in the pass is the position of some token.
LEMMA TokenAt ==
  ASSUME batch \in Seq(Request), NEW i \in DOMAIN batch,
         NEW o \in 0..(batch[i].q - 1)
  PROVE  \E t \in 1..NumTokens : Tokens[t].req = i /\ Tokens[t].offset = o
<1> DEFINE t == QueryStart[i - 1] + 1 + o
<1>1. /\ Sums(QueryStart, batch, Len(batch)) /\ QueryStart \in [0..Len(batch) -> Nat]
      /\ Len(batch) \in Nat /\ DOMAIN batch = 1..Len(batch) /\ NumTokens \in Nat
      /\ \A k \in DOMAIN batch : batch[k] \in Request
  BY StartsIs
<1>2. /\ i \in 1..Len(batch) /\ i \in 0..Len(batch) /\ i - 1 \in 0..Len(batch)
      /\ Len(batch) \in 0..Len(batch) /\ i <= Len(batch) /\ Len(batch) - i \in Nat
  BY <1>1
<1>3. QueryStart[i] = QueryStart[i - 1] + batch[i].q
  BY <1>1, <1>2 DEF Sums
<1>4. batch[i].q \in 1..MaxTokens
  BY <1>1 DEF Request
<1>5. QueryStart[i] + (Len(batch) - i) <= QueryStart[Len(batch)]
  BY <1>1, <1>2, SumsGrow
<1>6. QueryStart[i - 1] \in Nat /\ QueryStart[i] \in Nat /\ QueryStart[Len(batch)] \in Nat
  BY <1>1, <1>2
<1>7. t \in (QueryStart[i - 1] + 1)..QueryStart[i] /\ t \in 1..QueryStart[Len(batch)]
  <2>1. \A x, y, z, l \in Nat : \A k \in 1..MaxTokens : \A e \in 0..(k - 1) :
          y = x + k /\ y + l <= z => x + 1 + e \in (x + 1)..y /\ x + 1 + e \in 1..z
    OBVIOUS
  <2>. QED
    BY <1>2, <1>3, <1>4, <1>5, <1>6, <2>1
<1>8. t \in 1..NumTokens /\ Of(t, i)
  BY <1>7 DEF NumTokens, Of
<1>9. t - QueryStart[i - 1] - 1 = o
  BY <1>6
<1> HIDE DEF t
<1>10. ReqOf(t) = i
  <2>1. t \in Nat
    BY <1>1, <1>8
  <2>2. ReqOf(t) \in DOMAIN batch /\ Of(t, ReqOf(t))
    BY <1>8, ReqOfIs
  <2>. QED
    BY <1>8, <2>1, <2>2, OfOne
<1>11. Tokens[t] = [req |-> ReqOf(t), offset |-> t - QueryStart[ReqOf(t) - 1] - 1,
                    padding |-> FALSE]
  BY <1>8 DEF Tokens
<1>12. Tokens[t].req = i /\ Tokens[t].offset = o
  BY <1>9, <1>10, <1>11
<1>. QED
  BY <1>8, <1>12

\* The rows of a pass: its tokens, then padding.
LEMMA RowsAre ==
  ASSUME batch \in Seq(Request), NEW n \in Nat
  PROVE  /\ DOMAIN WithPadding(n) = 1..(NumTokens + n)
         /\ Len(WithPadding(n)) = NumTokens + n
         /\ \A t \in 1..NumTokens : WithPadding(n)[t] = Tokens[t]
         /\ \A t \in (NumTokens + 1)..(NumTokens + n) : WithPadding(n)[t] = Padding
<1> DEFINE T == [req : Int, offset : Int, padding : BOOLEAN]
           pad == [k \in 1..n |-> Padding]
<1>1. NumTokens \in Nat /\ DOMAIN batch = 1..Len(batch) /\ Len(batch) \in Nat
  BY StartsIs
<1>2. Tokens \in [1..NumTokens -> T]
  <2>1. ASSUME NEW t \in 1..NumTokens PROVE Tokens[t] \in T
    <3>1. Tokens[t].req \in DOMAIN batch /\ Tokens[t].padding = FALSE
          /\ Tokens[t].offset \in 0..(batch[Tokens[t].req].q - 1)
      BY TokenIs
    <3>2. Tokens[t] = [req |-> Tokens[t].req, offset |-> Tokens[t].offset,
                       padding |-> Tokens[t].padding]
      BY DEF Tokens
    <3>3. Tokens[t].req \in Int /\ Tokens[t].offset \in Int
      BY <1>1, <3>1
    <3>. QED
      BY <3>1, <3>2, <3>3
  <2>2. Tokens = [t \in 1..NumTokens |-> Tokens[t]]
    BY DEF Tokens
  <2>. QED
    BY <2>1, <2>2
<1>3. pad \in [1..n -> T]
  BY DEF Padding
<1>4. Tokens \in Seq(T) /\ Len(Tokens) = NumTokens
  BY <1>1, <1>2, LenOf
<1>5. pad \in Seq(T) /\ Len(pad) = n /\ \A k \in 1..n : pad[k] = Padding
  BY <1>3, LenOf
<1>6. WithPadding(n) = Tokens \o pad
  BY DEF WithPadding
<1> HIDE DEF pad, T
<1>7. /\ Tokens \o pad \in Seq(T) /\ Len(Tokens \o pad) = NumTokens + n
      /\ \A t \in 1..(NumTokens + n) :
           (Tokens \o pad)[t] = IF t <= NumTokens THEN Tokens[t] ELSE pad[t - NumTokens]
  BY <1>4, <1>5, ConcatProperties
<1>8. DOMAIN (Tokens \o pad) = 1..(NumTokens + n)
  BY <1>7, LenProperties
<1>9. \A t \in 1..NumTokens : t \in 1..(NumTokens + n) /\ t <= NumTokens
  BY <1>1
<1>10. \A t \in (NumTokens + 1)..(NumTokens + n) :
         t \in 1..(NumTokens + n) /\ ~(t <= NumTokens) /\ t - NumTokens \in 1..n
  BY <1>1
<1>. QED
  BY <1>5, <1>6, <1>7, <1>8, <1>9, <1>10

-----------------------------------------------------------------------------
(* Decodes first *)

\* split_decodes_and_prefills relies on this order.
Sorted ==
  \A i, j \in DOMAIN batch : i < j /\ IsDecode(batch[j]) => IsDecode(batch[i])

\* split_decodes_and_prefills counts the decodes, because they come first.
LEMMA DecodesFirst ==
  ASSUME batch \in Seq(Request), Sorted
  PROVE  /\ NumDecodes \in 0..Len(batch)
         /\ \A i \in DOMAIN batch : IsDecode(batch[i]) <=> i <= NumDecodes
<1> DEFINE D == {i \in DOMAIN batch : IsDecode(batch[i])}
           m == Max(D)
<1>1. Len(batch) \in Nat /\ DOMAIN batch = 1..Len(batch)
  BY StartsIs
<1>2. NumDecodes = Cardinality(D)
  BY DEF NumDecodes
<1>3. CASE D = {}
  <2>1. NumDecodes = 0
    BY <1>2, <1>3, FS_EmptySet
  <2>. QED
    BY <1>1, <1>3, <2>1
<1>4. CASE D # {}
  <2>1. D \subseteq 0..Len(batch)
    BY <1>1
  <2>2. m \in D /\ \A i \in D : i <= m
    <3> HIDE DEF D
    <3>. QED
      BY <1>1, <1>4, <2>1, Largest
  <2>3. m \in 1..Len(batch) /\ IsDecode(batch[m])
    BY <1>1, <2>2
  <2>4. \A i \in DOMAIN batch : IsDecode(batch[i]) => i <= m
    BY <2>2
  <2> HIDE DEF m
  <2>5. \A i \in DOMAIN batch : i <= m => IsDecode(batch[i])
    <3>. TAKE i \in DOMAIN batch
    <3>. HAVE i <= m
    <3>1. CASE i = m
      BY <2>3, <3>1
    <3>2. CASE i # m
      <4>1. i < m /\ m \in DOMAIN batch
        BY <1>1, <2>3, <3>2
      <4>. QED
        BY <2>3, <4>1 DEF Sorted
    <3>. QED
      BY <3>1, <3>2
  <2>6. D = 1..m
    <3>1. \A i \in 1..m : i \in DOMAIN batch /\ i <= m
      BY <1>1, <2>3
    <3>2. \A i \in D : i \in 1..m
      BY <1>1, <2>4, <2>3
    <3>. QED
      BY <2>5, <3>1, <3>2
  <2>7. NumDecodes = m
    <3>1. m \in Int /\ m >= 1
      BY <1>1, <2>3
    <3>2. Cardinality(1..m) = m
      BY <3>1, FS_Interval
    <3>. QED
      BY <1>2, <2>6, <3>2
  <2>. QED
    BY <1>1, <2>3, <2>4, <2>5, <2>7
<1>. QED
  BY <1>3, <1>4

\* The assumptions on the constants, one by one.
LEMMA Sizes ==
  /\ Window \in Nat \ {0} /\ BlockSize \in Nat \ {0} /\ NumBlocks \in Nat \ {0}
  /\ MaxModelLen \in Nat \ {0} /\ MaxTokens \in Nat \ {0} /\ ChunkSize \in Nat \ {0}
  /\ MaxImageTokens \in Nat /\ CaptureSizes \subseteq 1..MaxTokens
  /\ \A r \in Requests : Prompt[r] \in 1..MaxModelLen
  /\ \A d \in Setups : /\ d.drafter \in Drafters /\ d.drafts \in Nat /\ d.images \in BOOLEAN
                       /\ d.chunks \subseteq Nat \ {0}
                       /\ d.drafter = "dspark" => d.drafts > 0
<1>1. Setups \subseteq [drafter : Drafters, drafts : Nat, images : BOOLEAN,
                        chunks : SUBSET (Nat \ {0})]
  BY SwaAssumption
<1>2. \A d \in Setups : /\ d.drafter \in Drafters /\ d.drafts \in Nat /\ d.images \in BOOLEAN
                        /\ d.chunks \subseteq Nat \ {0}
  BY <1>1
<1>. QED
  BY <1>2, SwaAssumption

-----------------------------------------------------------------------------
(* Blocks and slots *)

\* Tables and cache have their shapes.
Typed == /\ table \in [Requests -> Seq(0..NumBlocks)]
         /\ DOMAIN kv = 0..((NumBlocks + 1) * BlockSize - 1)

\* Positions below n have an entry; those from m on have a block.
Covered(r, n)  == n <= Len(table[r]) * BlockSize
KeptFrom(r, m) == \A i \in DOMAIN table[r] :
                    table[r][i] = NullBlock => i * BlockSize <= m

\* A block is in one table, once.
Owned ==
  \A r, s \in Requests : \A i \in DOMAIN table[r], j \in DOMAIN table[s] :
    table[r][i] # NullBlock /\ table[r][i] = table[s][j] => r = s /\ i = j

\* A position has a block.
Present(r, p) == BlockOf(r, p) # NullBlock

\* A position's slot lies in the cache, in the block of the request's table.
LEMMA BlockIs ==
  ASSUME Typed, NEW r \in Requests, NEW p \in Nat
  PROVE  /\ BlockOf(r, p) \in 0..NumBlocks
         /\ p \div BlockSize \in Nat /\ p % BlockSize \in 0..(BlockSize - 1)
         /\ p = (p \div BlockSize) * BlockSize + (p % BlockSize)
         /\ Slot(r, p) \in DOMAIN kv
         /\ Slot(r, p) \div BlockSize = BlockOf(r, p)
         /\ Slot(r, p) % BlockSize = p % BlockSize
<1>1. BlockSize \in Nat \ {0} /\ NumBlocks \in Nat
  BY Sizes
<1>2. /\ p \div BlockSize \in Nat /\ p % BlockSize \in 0..(BlockSize - 1)
      /\ p = (p \div BlockSize) * BlockSize + (p % BlockSize)
  BY <1>1, DivMod
<1>3. BlockOf(r, p) \in 0..NumBlocks
  <2>1. table[r] \in Seq(0..NumBlocks)
    BY DEF Typed
  <2>2. \A i \in DOMAIN table[r] : table[r][i] \in 0..NumBlocks
    BY <2>1, LenProperties, ElementOfSeq, Zenon
  <2>3. 0 \in 0..NumBlocks
    BY <1>1
  <2> DEFINE i == p \div BlockSize + 1
  <2>4. BlockOf(r, p) = IF i \in DOMAIN table[r] THEN table[r][i] ELSE 0
    BY DEF BlockOf, NullBlock
  <2> HIDE DEF i
  <2>. QED
    BY <2>2, <2>3, <2>4, Zenon
<1>4. BlockOf(r, p) \in Nat /\ NumBlocks + 1 \in Nat
      /\ BlockOf(r, p) \in 0..((NumBlocks + 1) - 1)
  BY <1>1, <1>3
<1>5. BlockOf(r, p) * BlockSize + (p % BlockSize) \in 0..((NumBlocks + 1) * BlockSize - 1)
  BY <1>1, <1>2, <1>4, DigitsBelow
<1>6. /\ (BlockOf(r, p) * BlockSize + (p % BlockSize)) \div BlockSize = BlockOf(r, p)
      /\ (BlockOf(r, p) * BlockSize + (p % BlockSize)) % BlockSize = p % BlockSize
  BY <1>1, <1>2, <1>4, Digits
<1>. QED
  BY <1>2, <1>3, <1>5, <1>6 DEF Slot, Typed

\* A block has one owner, so a slot in it holds one position.
LEMMA SlotOwn ==
  ASSUME Typed, Owned, NEW r \in Requests, NEW p \in Nat, NEW s \in Requests, NEW u \in Nat,
         Present(r, p), Slot(r, p) = Slot(s, u)
  PROVE  r = s /\ p = u
<1>1. BlockOf(r, p) = BlockOf(s, u) /\ p % BlockSize = u % BlockSize
      /\ p \div BlockSize \in Nat /\ u \div BlockSize \in Nat
  BY BlockIs
<1>2. BlockOf(r, p) # NullBlock /\ BlockOf(s, u) # NullBlock
  BY <1>1 DEF Present
<1> DEFINE i == p \div BlockSize + 1
           j == u \div BlockSize + 1
<1>3. i \in DOMAIN table[r] /\ BlockOf(r, p) = table[r][i]
  BY <1>2 DEF BlockOf
<1>4. j \in DOMAIN table[s] /\ BlockOf(s, u) = table[s][j]
  BY <1>2 DEF BlockOf
<1>5. r = s /\ i = j
  <2>1. \A x \in DOMAIN table[r], y \in DOMAIN table[s] :
          table[r][x] # NullBlock /\ table[r][x] = table[s][y] => r = s /\ x = y
    BY Zenon DEF Owned
  <2> HIDE DEF i, j
  <2>. QED
    BY <1>1, <1>2, <1>3, <1>4, <2>1, Zenon
<1>6. p \div BlockSize = u \div BlockSize
  BY <1>1, <1>5
<1>7. /\ p = (p \div BlockSize) * BlockSize + (p % BlockSize)
      /\ u = (u \div BlockSize) * BlockSize + (u % BlockSize)
  BY BlockIs
<1>8. p = u
  BY <1>1, <1>6, <1>7, Zenon
<1> HIDE DEF i, j
<1>. QED
  BY <1>5, <1>8

\* A position the table covers and the window has not passed has a block.
LEMMA IsPresent ==
  ASSUME Typed, NEW r \in Requests, NEW p \in Nat, NEW n \in Int, NEW m \in Int,
         Covered(r, n), KeptFrom(r, m), m <= p, p < n
  PROVE  Present(r, p)
<1> DEFINE i == p \div BlockSize + 1
<1>1. BlockSize \in Nat \ {0}
  BY Sizes
<1>2. /\ p \div BlockSize \in Nat /\ p % BlockSize \in 0..(BlockSize - 1)
      /\ p = (p \div BlockSize) * BlockSize + (p % BlockSize)
  BY BlockIs
<1>3. table[r] \in Seq(0..NumBlocks)
  BY DEF Typed
<1>4. Len(table[r]) \in Nat /\ DOMAIN table[r] = 1..Len(table[r])
  BY <1>3
<1>5. p < Len(table[r]) * BlockSize
  <2>1. Len(table[r]) * BlockSize \in Nat
    BY <1>1, <1>4, Multiples
  <2>. QED
    BY <2>1 DEF Covered
<1>6. p \div BlockSize \in 0..(Len(table[r]) - 1)
  BY <1>1, <1>4, <1>5, QuotientBelow
<1>7. i \in DOMAIN table[r]
  BY <1>4, <1>6
<1>8. p < i * BlockSize
  <2>1. i * BlockSize = (p \div BlockSize) * BlockSize + BlockSize
    BY <1>1, <1>2
  <2>2. (p \div BlockSize) * BlockSize \in Nat
    BY <1>1, <1>2, Multiples
  <2>. QED
    BY <1>1, <1>2, <2>1, <2>2
<1>9. i * BlockSize \in Int
  <2>1. i \in Nat
    BY <1>2
  <2>. QED
    BY <1>1, <2>1, Multiples
<1>10. ~(i * BlockSize <= m)
  BY <1>8, <1>9
<1>11. table[r][i] # NullBlock
  BY <1>7, <1>10 DEF KeptFrom
<1>. QED
  BY <1>7, <1>11 DEF Present, BlockOf

\* KV is inserted at the positions of the pass, and elsewhere left alone.
LEMMA InsertedIs ==
  ASSUME Typed, Owned, batch \in Seq(Request), NEW n \in Nat,
         \A i, j \in DOMAIN batch : batch[i].r = batch[j].r => i = j,
         \A i \in DOMAIN batch : \A p \in batch[i].from..(batch[i].from + batch[i].q - 1) :
           Present(batch[i].r, p)
  PROVE  /\ DOMAIN Inserted(WithPadding(n)) = DOMAIN kv
         /\ \A i \in DOMAIN batch : \A p \in batch[i].from..(batch[i].from + batch[i].q - 1) :
              Inserted(WithPadding(n))[Slot(batch[i].r, p)]
                = <<batch[i].r, p, pass # "target">>
         /\ \A r \in Requests, p \in Nat :
              (/\ Present(r, p)
               /\ \A i \in DOMAIN batch :
                    batch[i].r = r => p \notin batch[i].from..(batch[i].from + batch[i].q - 1))
              => Inserted(WithPadding(n))[Slot(r, p)] = kv[Slot(r, p)]
<1> DEFINE toks == WithPadding(n)
           written == {t \in DOMAIN toks : ~toks[t].padding}
           slotOf(t) == Slot(batch[toks[t].req].r, Position(toks[t]))
           tok(t) == <<batch[toks[t].req].r, Position(toks[t]), pass # "target">>
<1>1. /\ DOMAIN toks = 1..(NumTokens + n)
      /\ \A t \in 1..NumTokens : toks[t] = Tokens[t]
      /\ \A t \in (NumTokens + 1)..(NumTokens + n) : toks[t] = Padding
  BY RowsAre
<1>2. NumTokens \in Nat /\ \A i \in DOMAIN batch : batch[i] \in Request
  BY StartsIs
<1>3. written = 1..NumTokens
  <2>1. \A t \in 1..NumTokens : t \in DOMAIN toks /\ ~toks[t].padding
    <3>. TAKE t \in 1..NumTokens
    <3>1. Tokens[t].padding = FALSE
      BY TokenIs
    <3>2. t \in 1..(NumTokens + n)
      BY <1>2
    <3>. QED
      BY <1>1, <3>1, <3>2
  <2>2. \A t \in DOMAIN toks : t \in 1..NumTokens \/ t \in (NumTokens + 1)..(NumTokens + n)
    BY <1>1, <1>2
  <2>3. Padding.padding = TRUE
    BY DEF Padding
  <2>4. \A t \in (NumTokens + 1)..(NumTokens + n) : toks[t].padding = TRUE
    BY <1>1, <2>3
  <2>5. \A t \in DOMAIN toks : ~toks[t].padding => t \in 1..NumTokens
    BY <2>2, <2>4
  <2>. QED
    BY <2>1, <2>5
<1>4. Inserted(toks) = [s \in DOMAIN kv |->
        IF \E t \in written : slotOf(t) = s
        THEN tok(CHOOSE t \in written : slotOf(t) = s) ELSE kv[s]]
  BY DEF Inserted
<1> HIDE DEF toks, written
<1>5. ASSUME NEW t \in written
      PROVE  /\ toks[t].req \in DOMAIN batch
             /\ batch[toks[t].req].r \in Requests /\ Position(toks[t]) \in Nat
             /\ Position(toks[t]) \in batch[toks[t].req].from
                                        ..(batch[toks[t].req].from + batch[toks[t].req].q - 1)
             /\ Present(batch[toks[t].req].r, Position(toks[t]))
  <2>1. t \in 1..NumTokens /\ toks[t] = Tokens[t]
    BY <1>1, <1>3
  <2> DEFINE i == Tokens[t].req
  <2>2. /\ i \in DOMAIN batch /\ batch[i] \in Request
        /\ Tokens[t].offset \in 0..(batch[i].q - 1)
        /\ Position(Tokens[t]) = batch[i].from + Tokens[t].offset
        /\ Position(Tokens[t]) \in Nat
    BY <2>1, TokenIs
  <2>3. batch[i].r \in Requests /\ batch[i].from \in 0..MaxModelLen /\ batch[i].q \in 1..MaxTokens
    BY <2>2 DEF Request
  <2>4. Position(Tokens[t]) \in batch[i].from..(batch[i].from + batch[i].q - 1)
    <3> DEFINE f == batch[i].from
               q == batch[i].q
               o == Tokens[t].offset
               p == Position(Tokens[t])
    <3>1. f \in Nat /\ q \in Nat /\ o \in 0..(q - 1) /\ p = f + o
      BY <2>2, <2>3, Sizes
    <3> HIDE DEF f, q, o, p
    <3>2. p \in f..(f + q - 1)
      BY <3>1
    <3>. QED
      BY <3>2 DEF f, q, p
  <2>5. Present(batch[i].r, Position(Tokens[t]))
    BY <2>2, <2>4
  <2>. QED
    BY <2>1, <2>2, <2>3, <2>4, <2>5
<1>6. ASSUME NEW i \in DOMAIN batch,
             NEW p \in batch[i].from..(batch[i].from + batch[i].q - 1)
      PROVE  Inserted(toks)[Slot(batch[i].r, p)] = <<batch[i].r, p, pass # "target">>
  <2>1. batch[i].r \in Requests /\ batch[i].from \in 0..MaxModelLen /\ batch[i].q \in 1..MaxTokens
    BY <1>2 DEF Request
  <2>2. p \in Nat /\ p - batch[i].from \in 0..(batch[i].q - 1)
        /\ batch[i].from + (p - batch[i].from) = p
    BY <2>1
  <2>3. PICK t \in 1..NumTokens : Tokens[t].req = i /\ Tokens[t].offset = p - batch[i].from
    BY <2>2, TokenAt
  <2>4. Position(Tokens[t]) = p
    BY <2>2, <2>3, TokenIs
  <2>5. t \in written /\ slotOf(t) = Slot(batch[i].r, p)
    BY <1>1, <1>3, <2>3, <2>4
  <2>6. Slot(batch[i].r, p) \in DOMAIN kv /\ Present(batch[i].r, p)
    BY <2>1, <2>2, BlockIs
  <2> DEFINE w == CHOOSE x \in written : slotOf(x) = Slot(batch[i].r, p)
  <2>7. w \in written /\ slotOf(w) = Slot(batch[i].r, p)
    BY <2>5
  <2>8. Inserted(toks)[Slot(batch[i].r, p)] = tok(w)
    BY <1>4, <2>5, <2>6
  <2> HIDE DEF w
  <2>9. batch[toks[w].req].r = batch[i].r /\ Position(toks[w]) = p
    <3>1. batch[toks[w].req].r \in Requests /\ Position(toks[w]) \in Nat
      BY <1>5, <2>7
    <3>. QED
      BY <2>1, <2>2, <2>6, <2>7, <3>1, SlotOwn
  <2>. QED
    BY <2>8, <2>9
<1>7. ASSUME NEW r \in Requests, NEW p \in Nat, Present(r, p),
             \A i \in DOMAIN batch :
               batch[i].r = r => p \notin batch[i].from..(batch[i].from + batch[i].q - 1)
      PROVE  Inserted(toks)[Slot(r, p)] = kv[Slot(r, p)]
  <2>1. Slot(r, p) \in DOMAIN kv
    BY BlockIs
  <2>2. ASSUME NEW t \in written, slotOf(t) = Slot(r, p) PROVE FALSE
    <3>1. batch[toks[t].req].r \in Requests /\ Position(toks[t]) \in Nat
      BY <1>5
    <3>2. batch[toks[t].req].r = r /\ Position(toks[t]) = p
      BY <1>7, <2>2, <3>1, SlotOwn
    <3>. QED
      BY <1>5, <1>7, <3>2
  <2>. QED
    BY <1>4, <2>1, <2>2
<1>8. DOMAIN Inserted(toks) = DOMAIN kv
  BY <1>4
<1>. QED
  BY <1>6, <1>7, <1>8 DEF toks

-----------------------------------------------------------------------------
(* The invariant *)

Shaped(s, n) == DOMAIN s = 1..n /\ s = [k \in 1..n |-> s[k]]

\* The persistent buffers keep their shapes.
Buffers ==
  /\ buf = [valid |-> buf.valid, decode |-> buf.decode, wide |-> buf.wide,
            decodeLens |-> buf.decodeLens, prefill |-> buf.prefill,
            prefillLens |-> buf.prefillLens]
  /\ DOMAIN buf.valid = 1..MaxTokens /\ DOMAIN buf.decode = 1..MaxTokens
  /\ DOMAIN buf.wide = 1..MaxTokens /\ DOMAIN buf.prefill = 1..MaxTokens
  /\ DOMAIN buf.decodeLens = 1..MaxTokens /\ DOMAIN buf.prefillLens = 1..MaxTokens
  /\ \A t \in 1..MaxTokens : /\ Shaped(buf.decode[t], Window)
                             /\ Shaped(buf.wide[t], NoncausalWidth)
                             /\ Shaped(buf.prefill[t], IndexWidth)

\* The types of the variables.
Types ==
  /\ setup \in Setups
  /\ computed \in [Requests -> -1..MaxModelLen]
  /\ Typed
  /\ pass \in {"target", "mtp", "dspark"}
  /\ phase \in {"batch", "built", "done", "advanced"}
  /\ batch \in Seq(Request)
  /\ Buffers

\* A running request has blocks for its window's accepted positions,
Tables ==
  \A r \in Running : /\ Covered(r, computed[r])
                     /\ KeptFrom(r, computed[r] - Window + 1)

\* and their slots, where present, hold the request's own accepted KV.
Held ==
  \A r \in Running : \A p \in 0..(computed[r] - 1) :
    Present(r, p) => kv[Slot(r, p)] = <<r, p, FALSE>>

\* The batch has each running request once, decodes first, and fits the buffers.
Batched ==
  /\ \A i, j \in DOMAIN batch : batch[i].r = batch[j].r => i = j
  /\ \A i \in DOMAIN batch : batch[i].r \in Running
  /\ Sorted
  /\ NumTokens <= MaxTokens
  /\ setup.drafter = "dspark" => Len(batch) * setup.drafts <= MaxTokens
  /\ phase # "batch" => batch # << >>

\* A request of the target's pass holds image spans whole.
Scheduled(b) ==
  /\ b.from + b.q <= MaxModelLen
  /\ \A s \in ImagesOf(b.r) : \/ s[2] < b.from \/ b.from + b.q <= s[1]
                              \/ b.from <= s[1] /\ s[2] < b.from + b.q

\* Before the pass: from is what is accepted, and the table covers the pass.
ToCompute(b) ==
  /\ b.from = computed[b.r]
  /\ Covered(b.r, Smaller(b.from + b.q + setup.drafts, MaxModelLen))

\* After it: some of the pass's tokens are accepted, the tables cover the drafts.
Accepted(b) ==
  /\ computed[b.r] \in b.from + 1..b.from + b.q
  /\ KeptFrom(b.r, computed[b.r] - Window)
  /\ Covered(b.r, Smaller(computed[b.r] + setup.drafts, MaxModelLen))

\* The target's pass of the batch.
TargetPass ==
  pass = "target" =>
    /\ phase # "advanced"
    /\ \A i \in DOMAIN batch : Scheduled(batch[i])
    /\ phase # "done" => \A i \in DOMAIN batch : ToCompute(batch[i])
    /\ phase = "done" => \A i \in DOMAIN batch : Accepted(batch[i])

\* A pass of the drafter that is k tokens ahead of what is accepted.
Ahead(k) == \A i \in DOMAIN batch : batch[i].from = computed[batch[i].r] + k

\* A drafted request has the tables for its drafts.
ToDraft(b) ==
  /\ b.q = IF pass = "mtp" THEN 1 ELSE setup.drafts
  /\ KeptFrom(b.r, computed[b.r] - Window)
  /\ Covered(b.r, computed[b.r] + setup.drafts)
  /\ computed[b.r] + setup.drafts <= MaxModelLen

\* A pass of the drafter.
DraftPass ==
  pass # "target" =>
    /\ setup.drafter = pass /\ batch # << >>
    /\ \A i \in DOMAIN batch : ToDraft(batch[i])
    /\ pass = "mtp" => /\ setup.drafts > 1
                       /\ \E k \in 0..(setup.drafts - 2) : Ahead(k)
    /\ pass = "dspark" => phase # "advanced" /\ Ahead(0)
\* What the passes before this one left of an MTP draft.
Drafting ==
  pass = "mtp" => \A i \in DOMAIN batch :
    \A p \in computed[batch[i].r]
               ..(IF phase = "done" THEN batch[i].from ELSE batch[i].from - 1) :
      kv[Slot(batch[i].r, p)] = <<batch[i].r, p, TRUE>>

\* The positions a token is to read.
FirstSeen(t) ==
  CASE pass = "dspark" -> Larger(PrefixLen(t.req) - Window, 0)
    [] pass = "mtp"    -> Larger(Position(t) - (Window - 1), 0)
    [] OTHER -> Larger(Position(t) - (Window - 1) - Larger(Left(t) - (Window - 1), 0), 0)
EndSeen(t) ==
  CASE pass = "dspark" -> SeqLen(t.req)
    [] pass = "mtp"    -> Position(t) + 1
    [] OTHER -> Position(t) + Right(t) + 1

-----------------------------------------------------------------------------
(* Image spans *)

\* Left and Right take the greatest of 0 and the distance to the side of a span.
LEMMA LargerOfZero ==
  /\ Max({0} \cup {}) = 0
  /\ \A x \in Nat : Max({0} \cup {x}) = x
<1>1. ASSUME NEW x \in Nat PROVE Max({0} \cup {x}) = x
  <2>1. {0} \cup {x} \subseteq 0..x /\ {0} \cup {x} # {} /\ x \in {0} \cup {x}
    OBVIOUS
  <2>2. /\ Max({0} \cup {x}) \in {0} \cup {x}
        /\ \A y \in {0} \cup {x} : y <= Max({0} \cup {x})
    BY <2>1, Largest
  <2>3. x <= Max({0} \cup {x}) /\ (Max({0} \cup {x}) = 0 \/ Max({0} \cup {x}) = x)
    BY <2>2
  <2>. QED
    BY <2>3
<1>2. {0} \cup {} = {0} \cup {0} /\ 0 \in Nat
  OBVIOUS
<1>. QED
  BY <1>1, <1>2

\* A token is in one image at most, which its pass holds whole.
LEMMA Sides ==
  ASSUME setup \in Setups, batch \in Seq(Request), NEW t \in 1..NumTokens
  PROVE  \/ /\ SpansAt(Tokens[t]) = {} /\ ImageAround(t) = {}
            /\ Left(Tokens[t]) = 0 /\ Right(Tokens[t]) = 0
         \/ \E s \in ImagesOf(batch[Tokens[t].req].r) :
              /\ s \in Nat \X Nat /\ s \in Spans[batch[Tokens[t].req].r] /\ setup.images
              /\ Position(Tokens[t]) \in s[1]..s[2]
              /\ s[2] - s[1] < MaxImageTokens
              /\ ImageAround(t) = s[1]..s[2]
              /\ Left(Tokens[t]) = Position(Tokens[t]) - s[1]
              /\ Right(Tokens[t]) = s[2] - Position(Tokens[t])
<1> DEFINE k == Tokens[t]
           r == batch[k.req].r
           p == Position(k)
<1>1. k.req \in DOMAIN batch /\ batch[k.req] \in Request /\ p \in Nat
  BY TokenIs
<1>2. r \in Requests
  BY <1>1 DEF Request
<1>3. SpansAt(k) = {s \in ImagesOf(r) : p \in s[1]..s[2]}
  BY DEF SpansAt
<1>4. ImageAround(t) = UNION {span \in {s[1]..s[2] : s \in ImagesOf(r)} : p \in span}
  BY DEF ImageAround
<1>5. /\ Left(k) = Max({0} \cup {Smaller(p - s[1], MaxImageTokens - 1) : s \in SpansAt(k)})
      /\ Right(k) = Max({0} \cup {Smaller(s[2] - p, MaxImageTokens) : s \in SpansAt(k)})
  BY DEF Left, Right
<1>6. MaxImageTokens \in Nat /\ setup.images \in BOOLEAN
  BY Sizes
<1>7. CASE SpansAt(k) = {}
  <2>1. ImageAround(t) = {}
    BY <1>3, <1>4, <1>7
  <2>2. /\ {Smaller(p - s[1], MaxImageTokens - 1) : s \in SpansAt(k)} = {}
        /\ {Smaller(s[2] - p, MaxImageTokens) : s \in SpansAt(k)} = {}
    BY <1>7
  <2>3. Left(k) = 0 /\ Right(k) = 0
    BY <1>5, <2>2, LargerOfZero
  <2>. QED
    BY <1>7, <2>1, <2>3
<1>8. CASE SpansAt(k) # {}
  <2>1. PICK s \in ImagesOf(r) : s \in SpansAt(k)
    BY <1>3, <1>8
  <2>2. p \in s[1]..s[2]
    BY <1>3, <2>1
  <2>3. setup.images /\ s \in Spans[r] /\ ImagesOf(r) = Spans[r]
    BY <2>1 DEF ImagesOf
  <2>4. /\ Spans[r] \subseteq Nat \X Nat
        /\ \A u \in Spans[r] : u[2] - u[1] < MaxImageTokens
        /\ \A u, w \in Spans[r] : u # w => (u[2] < w[1] \/ w[2] < u[1])
    BY <1>2, SpanAssumption
  <2>5. s \in Nat \X Nat /\ s[1] \in Nat /\ s[2] \in Nat
    BY <2>3, <2>4
  <2>6. ASSUME NEW u \in ImagesOf(r), p \in u[1]..u[2] PROVE u = s
    <3>1. u \in Spans[r] /\ u \in Nat \X Nat
      BY <2>3, <2>4
    <3>2. u[1] \in Nat /\ u[2] \in Nat
      BY <3>1
    <3>3. ~(u[2] < s[1]) /\ ~(s[2] < u[1])
      BY <1>1, <2>2, <2>5, <2>6, <3>2
    <3>. QED
      BY <2>3, <2>4, <3>1, <3>3
  <2>7. SpansAt(k) = {s}
    BY <1>3, <2>1, <2>6
  <2>8. ImageAround(t) = s[1]..s[2]
    <3>1. {span \in {u[1]..u[2] : u \in ImagesOf(r)} : p \in span} = {s[1]..s[2]}
      <4>1. \A span \in {u[1]..u[2] : u \in ImagesOf(r)} : p \in span => span = s[1]..s[2]
        BY <2>6
      <4>2. s[1]..s[2] \in {u[1]..u[2] : u \in ImagesOf(r)}
        BY <2>1
      <4>. QED
        BY <2>2, <4>1, <4>2
    <3>2. UNION {s[1]..s[2]} = s[1]..s[2]
      OBVIOUS
    <3>. QED
      BY <1>4, <3>1, <3>2
  <2>9. s[2] - s[1] < MaxImageTokens
    BY <2>3, <2>4
  <2>10. /\ Smaller(p - s[1], MaxImageTokens - 1) = p - s[1] /\ p - s[1] \in Nat
         /\ Smaller(s[2] - p, MaxImageTokens) = s[2] - p /\ s[2] - p \in Nat
    BY <1>1, <1>6, <2>2, <2>5, <2>9 DEF Smaller
  <2>11. /\ {Smaller(p - u[1], MaxImageTokens - 1) : u \in SpansAt(k)} = {p - s[1]}
         /\ {Smaller(u[2] - p, MaxImageTokens) : u \in SpansAt(k)} = {s[2] - p}
    BY <2>7, <2>10
  <2>12. Left(k) = p - s[1] /\ Right(k) = s[2] - p
    BY <1>5, <2>10, <2>11, LargerOfZero
  <2>. QED
    BY <2>1, <2>2, <2>3, <2>5, <2>8, <2>9, <2>12
<1>. QED
  BY <1>7, <1>8

\* What the type of the batch says of one request, and the decode threshold.
LEMMA RequestIs ==
  ASSUME Types, NEW i \in DOMAIN batch
  PROVE  /\ batch[i] \in Request /\ batch[i].r \in Requests
         /\ batch[i].from \in Nat /\ batch[i].q \in Nat \ {0}
         /\ i \in 1..Len(batch) /\ Len(batch) \in Nat
         /\ setup \in Setups /\ setup.drafts \in Nat
         /\ DecodeThreshold \in Nat /\ setup.drafts < DecodeThreshold
         /\ 1 <= DecodeThreshold
<1>1. batch \in Seq(Request)
  BY DEF Types
<1>2. batch[i] \in Request /\ i \in 1..Len(batch) /\ Len(batch) \in Nat
  BY <1>1, StartsIs
<1>3. batch[i].r \in Requests /\ batch[i].from \in 0..MaxModelLen /\ batch[i].q \in 1..MaxTokens
  BY <1>2 DEF Request
<1>4. batch[i].from \in Nat /\ batch[i].q \in Nat \ {0}
  BY <1>3
<1>5. setup \in Setups /\ setup.drafts \in Nat
  BY Sizes DEF Types
<1>6. DecodeThreshold = IF setup.drafter = "dspark" THEN 1 + 2 * setup.drafts
                                                    ELSE 1 + 1 * setup.drafts
  BY DEF DecodeThreshold, ThresholdOf
<1>. QED
  BY <1>2, <1>3, <1>4, <1>5, <1>6

\* The windows' arithmetic: l positions of an image to the left of p, h to the
\* right, in a pass that starts at a.
Sided(p, W, M, l, h, a, f, e) ==
  /\ p \in Nat /\ W \in Nat \ {0} /\ M \in Nat /\ l \in Nat /\ h \in Nat /\ a \in Nat
  /\ l + h < M \/ (l = 0 /\ h = 0)
  /\ l <= p /\ a <= p - l
  /\ f = Larger(p - (W - 1) - Larger(l - (W - 1), 0), 0)
  /\ e = p + h + 1
Widened(p, W, M, l, h, a, f, e) ==
  /\ f \in Nat /\ e \in Nat /\ f <= p /\ p < e
  /\ a - W + 1 <= f
  /\ e - f <= W + M
  /\ l = 0 /\ h = 0 => e - f <= W
  /\ l = 0 => f = Larger(p - (W - 1), 0)
  /\ f = Smaller(Larger(p - W + 1, 0), p - l)

\* What the kernels' widening of a window by an image comes to: one interval that
\* reaches as far as the image does.
LEMMA Bounds ==
  ASSUME NEW p, NEW W, NEW M, NEW l, NEW h, NEW a, NEW f, NEW e,
         Sided(p, W, M, l, h, a, f, e)
  PROVE  Widened(p, W, M, l, h, a, f, e)
  BY DEF Larger, Smaller, Sided, Widened

\* One token at p, drafted after c accepted ones with d in all.
Drafts(p, W, c, d, f) ==
  p \in Nat /\ W \in Nat \ {0} /\ c \in Nat /\ d \in Nat /\ c <= p /\ p < c + d
  /\ f = Larger(p - (W - 1), 0)
DraftFits(p, W, c, d, f) ==
  f \in Nat /\ f < p + 1 /\ (p + 1) - f <= W /\ c - W <= f /\ p + 1 <= c + d

\* The window of a drafted token starts in what is held or drafted.
LEMMA DraftBounds ==
  ASSUME NEW p, NEW W, NEW c, NEW d, NEW f, Drafts(p, W, c, d, f)
  PROVE  DraftFits(p, W, c, d, f)
  BY DEF Larger, Drafts, DraftFits

\* A block of d positions from c on.
Blocked(c, W, d, f) ==
  c \in Nat /\ W \in Nat \ {0} /\ d \in Nat \ {0} /\ f = Larger(c - W, 0)
BlockFits(c, W, d, f) ==
  f \in Nat /\ f < c + d /\ (c + d) - f <= W + d + 1 /\ c - W <= f

\* So does that of a block of drafts.
LEMMA BlockBounds ==
  ASSUME NEW c, NEW W, NEW d, NEW f, Blocked(c, W, d, f)
  PROVE  BlockFits(c, W, d, f)
  BY DEF Larger, Blocked, BlockFits

\* The positions a token is to read are an interval around its own, all of them in
\* blocks, and fit the row of slots made for it.
LEMMA SeenIs ==
  ASSUME Types, Batched, TargetPass, DraftPass, Tables, phase # "done", NEW t \in 1..NumTokens
  PROVE  LET b == batch[Tokens[t].req]
             f == FirstSeen(Tokens[t])
             e == EndSeen(Tokens[t])
         IN  /\ f \in Nat /\ e \in Nat /\ f < e /\ e <= b.from + b.q
             /\ Position(Tokens[t]) \in f..(e - 1)
             /\ \A p \in f..(e - 1) : Present(b.r, p)
             /\ pass = "target" => e - f <= IndexWidth
             /\ pass = "target" /\ IsDecode(b)
                  => Left(Tokens[t]) = 0 /\ Right(Tokens[t]) = 0 /\ e - f <= Window
             /\ pass = "mtp" => e - f <= Window
             /\ pass = "dspark" => e - f <= NoncausalWidth
<1> DEFINE k == Tokens[t]
           b == batch[k.req]
           f == FirstSeen(k)
           e == EndSeen(k)
           P == Position(k)
<1>0. batch \in Seq(Request) /\ Typed /\ setup \in Setups
      /\ computed \in [Requests -> -1..MaxModelLen]
  BY DEF Types
<1>1. /\ k.req \in DOMAIN batch /\ k.offset \in 0..(b.q - 1) /\ P = b.from + k.offset
      /\ P \in Nat
  BY <1>0, TokenIs
<1>2. /\ b.r \in Requests /\ b.from \in Nat /\ b.q \in Nat \ {0} /\ setup.drafts \in Nat
      /\ DecodeThreshold \in Nat
  BY <1>1, RequestIs
<1>3. Window \in Nat \ {0} /\ MaxImageTokens \in Nat /\ MaxModelLen \in Nat
  BY Sizes
<1>4. b.r \in Running
  BY <1>1 DEF Batched
<1>5. Covered(b.r, computed[b.r]) /\ KeptFrom(b.r, computed[b.r] - Window + 1)
  BY <1>4 DEF Tables
<1>6. computed[b.r] \in Nat
  BY <1>0, <1>2, <1>4 DEF Running
<1>7. ASSUME NEW m \in Int, NEW n \in Int, m <= f, e <= n, KeptFrom(b.r, m), Covered(b.r, n),
             f \in Nat, e \in Nat
      PROVE  \A p \in f..(e - 1) : Present(b.r, p)
  <2>. TAKE p \in f..(e - 1)
  <2> HIDE DEF f, e
  <2>1. p \in Nat /\ m <= p /\ p < n
    BY <1>7
  <2> HIDE DEF b
  <2>. QED
    BY <1>0, <1>2, <1>7, <2>1, IsPresent
<1>8. CASE pass = "target"
  <2>1. Scheduled(b) /\ ToCompute(b)
    BY <1>1, <1>8 DEF TargetPass
  <2>2. /\ f = Larger(P - (Window - 1) - Larger(Left(k) - (Window - 1), 0), 0)
        /\ e = P + Right(k) + 1
    BY <1>8 DEF FirstSeen, EndSeen
  <2>3. b.from = computed[b.r]
    BY <2>1 DEF ToCompute
  <2>4. b.from + b.q <= MaxModelLen
    BY <2>1 DEF Scheduled
  <2>5. /\ Left(k) \in Nat /\ Right(k) \in Nat /\ Left(k) <= P /\ b.from <= P - Left(k)
        /\ P + Right(k) < b.from + b.q
        /\ Left(k) + Right(k) < MaxImageTokens \/ (Left(k) = 0 /\ Right(k) = 0)
        /\ IsDecode(b) => Left(k) = 0 /\ Right(k) = 0
    <3>1. CASE Left(k) = 0 /\ Right(k) = 0
      <4>. HIDE DEF P, b
      <4>. QED
        BY <1>1, <1>2, <3>1
    <3>2. CASE \E s \in ImagesOf(b.r) :
              /\ s \in Nat \X Nat /\ s \in Spans[b.r] /\ setup.images
              /\ P \in s[1]..s[2] /\ s[2] - s[1] < MaxImageTokens
              /\ Left(k) = P - s[1] /\ Right(k) = s[2] - P
      <4>1. PICK s \in ImagesOf(b.r) :
              /\ s \in Nat \X Nat /\ s \in Spans[b.r] /\ setup.images
              /\ P \in s[1]..s[2] /\ s[2] - s[1] < MaxImageTokens
              /\ Left(k) = P - s[1] /\ Right(k) = s[2] - P
        BY <3>2
      <4>2. s[1] \in Nat /\ s[2] \in Nat
        BY <4>1
      <4>3. \/ s[2] < b.from \/ b.from + b.q <= s[1]
            \/ b.from <= s[1] /\ s[2] < b.from + b.q
        BY <2>1, <4>1 DEF Scheduled
      <4>4. s[2] - s[1] >= DecodeThreshold
        BY <1>0, <1>2, <4>1, SpanAssumption DEF DecodeThreshold
      <4> HIDE DEF P, b, k
      <4>5. b.from <= s[1] /\ s[2] < b.from + b.q
        BY <1>1, <1>2, <4>1, <4>2, <4>3
      <4>6. ~IsDecode(b)
        BY <1>2, <4>2, <4>4, <4>5 DEF IsDecode
      <4>. QED
        BY <1>1, <1>2, <1>3, <4>1, <4>2, <4>5, <4>6
    <3>. QED
      BY <1>0, <3>1, <3>2, Sides
  <2>6. /\ f \in Nat /\ e \in Nat /\ f <= P /\ P < e /\ b.from - Window + 1 <= f
        /\ e - f <= Window + MaxImageTokens
        /\ Left(k) = 0 /\ Right(k) = 0 => e - f <= Window
    <3> HIDE DEF P, b, k, f, e
    <3>. QED
      <4>1. Sided(P, Window, MaxImageTokens, Left(k), Right(k), b.from, f, e)
        BY <1>1, <1>2, <1>3, <2>2, <2>5 DEF Sided
      <4>2. Widened(P, Window, MaxImageTokens, Left(k), Right(k), b.from, f, e)
        BY <4>1, Bounds
      <4>. QED
        BY <4>2 DEF Widened
  <2>7. IndexWidth = Window + MaxImageTokens \/ (Left(k) = 0 /\ Right(k) = 0 /\ IndexWidth = Window)
    <3>1. CASE setup.images
      BY <3>1 DEF IndexWidth
    <3>2. CASE ~setup.images
      <4>1. ImagesOf(b.r) = {}
        BY <3>2 DEF ImagesOf
      <4>2. Left(k) = 0 /\ Right(k) = 0
        BY <1>0, <4>1, Sides
      <4>3. IndexWidth = Window + 0
        BY <3>2 DEF IndexWidth
      <4>. QED
        BY <1>3, <4>2, <4>3
    <3>. QED
      BY <3>1, <3>2
  <2>8. f < e /\ e <= b.from + b.q
    <3> HIDE DEF P, b, k, f
    <3>. QED
      BY <1>1, <1>2, <2>2, <2>5, <2>6
  <2>9. \A p \in f..(e - 1) : Present(b.r, p)
    <3>1. Covered(b.r, Smaller(b.from + b.q + setup.drafts, MaxModelLen))
      BY <2>1 DEF ToCompute
    <3> DEFINE n == Smaller(b.from + b.q + setup.drafts, MaxModelLen)
               m == computed[b.r] - Window + 1
    <3>2. n \in Int /\ e <= n
      <4> HIDE DEF P, b, k, f, e
      <4>. QED
        BY <1>2, <1>3, <2>4, <2>6, <2>8 DEF Smaller
    <3>3. m \in Int /\ m <= f
      <4> HIDE DEF P, b, k, f, e
      <4>. QED
        BY <1>3, <1>6, <2>3, <2>6
    <3> HIDE DEF P, b, k, f, e, n, m
    <3>4. KeptFrom(b.r, m) /\ Covered(b.r, n)
      BY <1>5, <3>1 DEF m, n
    <3>. QED
      BY <1>7, <2>6, <3>2, <3>3, <3>4
  <2>10. e - f <= IndexWidth
    <3> HIDE DEF P, b, k, f, e
    <3>. QED
      BY <2>6, <2>7
  <2>11. pass # "mtp" /\ pass # "dspark"
    BY <1>8
  <2> HIDE DEF P, b, k, f, e
  <2>12. IsDecode(b) => Left(k) = 0 /\ Right(k) = 0 /\ e - f <= Window
    BY <2>5, <2>6
  <2>13. f \in Nat /\ e \in Nat
    BY <2>6
  <2>14. P \in f..(e - 1)
    BY <1>1, <2>6
  <2>. QED
    BY <2>8, <2>9, <2>10, <2>11, <2>12, <2>13, <2>14 DEF P, b, k, f, e
<1>9. CASE pass # "target"
  <2>1. ToDraft(b)
    BY <1>1, <1>9 DEF DraftPass
  <2>2. /\ b.q = IF pass = "mtp" THEN 1 ELSE setup.drafts
        /\ KeptFrom(b.r, computed[b.r] - Window)
        /\ Covered(b.r, computed[b.r] + setup.drafts)
    BY <2>1 DEF ToDraft
  <2>3. computed[b.r] - Window \in Int /\ computed[b.r] + setup.drafts \in Int
    BY <1>2, <1>3, <1>6
  <2>4. CASE pass = "mtp"
    <3>1. PICK j \in 0..(setup.drafts - 2) : b.from = computed[b.r] + j
      BY <1>1, <1>9, <2>4 DEF DraftPass, Ahead
    <3>2. f = Larger(P - (Window - 1), 0) /\ e = P + 1
      BY <2>4 DEF FirstSeen, EndSeen
    <3>3. b.q = 1
      BY <2>2, <2>4
    <3> HIDE DEF P, b, k, f, e
    <3>4. P = b.from /\ P = computed[b.r] + j /\ j < setup.drafts
      BY <1>1, <1>2, <1>6, <3>1, <3>3
    <3>5. /\ f \in Nat /\ e \in Nat /\ f < e /\ e <= b.from + b.q /\ e - f <= Window
          /\ computed[b.r] - Window <= f /\ e <= computed[b.r] + setup.drafts
      <4>1. Drafts(P, Window, computed[b.r], setup.drafts, f)
        BY <1>1, <1>2, <1>3, <1>6, <3>2, <3>4 DEF Drafts
      <4>2. DraftFits(P, Window, computed[b.r], setup.drafts, f)
        BY <4>1, DraftBounds
      <4>3. e = b.from + b.q /\ e = P + 1
        BY <3>2, <3>3, <3>4
      <4>. QED
        BY <1>1, <1>2, <4>2, <4>3 DEF DraftFits
    <3>6. \A p \in f..(e - 1) : Present(b.r, p)
      BY <1>7, <2>2, <2>3, <3>5
    <3>7. pass # "dspark"
      BY <2>4
    <3>8. P \in f..(e - 1)
      BY <1>1, <3>2, <3>5
    <3>. QED
      BY <1>9, <3>5, <3>6, <3>7, <3>8 DEF P, b, k, f, e
  <2>5. CASE pass = "dspark"
    <3>1. b.from = computed[b.r]
      <4>1. b.from = computed[b.r] + 0
        BY <1>1, <1>9, <2>5 DEF DraftPass, Ahead
      <4>. QED
        BY <1>6, <4>1
    <3>2. f = Larger(b.from - Window, 0) /\ e = b.from + b.q
      BY <2>5 DEF FirstSeen, EndSeen, PrefixLen, SeqLen
    <3>3. b.q = setup.drafts /\ NoncausalWidth = Window + setup.drafts + 1
      BY <2>2, <2>5 DEF NoncausalWidth
    <3> HIDE DEF P, b, k, f, e
    <3>4. /\ f \in Nat /\ e \in Nat /\ f < e /\ e <= b.from + b.q /\ e - f <= NoncausalWidth
          /\ computed[b.r] - Window <= f /\ e <= computed[b.r] + setup.drafts
      <4>1. Blocked(b.from, Window, setup.drafts, f)
        BY <1>2, <1>3, <3>2, <3>3 DEF Blocked
      <4>2. BlockFits(b.from, Window, setup.drafts, f)
        BY <4>1, BlockBounds
      <4>3. e = b.from + setup.drafts
        BY <3>2, <3>3
      <4>. QED
        BY <1>2, <1>3, <1>6, <3>1, <3>3, <4>2, <4>3 DEF BlockFits
    <3>5. \A p \in f..(e - 1) : Present(b.r, p)
      BY <1>7, <2>2, <2>3, <3>4
    <3>6. pass # "mtp"
      BY <2>5
    <3>7. P \in f..(e - 1)
      <4>1. f <= b.from
        BY <1>2, <1>3, <3>2 DEF Larger
      <4>. QED
        BY <1>1, <1>2, <3>2, <3>4, <4>1
    <3>. QED
      BY <1>9, <3>4, <3>5, <3>6, <3>7 DEF P, b, k, f, e
  <2>. QED
    BY <1>9, <2>4, <2>5 DEF Types
<1>. QED
  BY <1>8, <1>9

-----------------------------------------------------------------------------
(* Rows of slots *)

\* A row of slots has what a token is to read.
RowFor(row, t) ==
  /\ row.len = EndSeen(t) - FirstSeen(t)
  /\ row.len <= Len(row.slots)
  /\ \A k \in 1..row.len : row.slots[k] = Slot(batch[t.req].r, FirstSeen(t) + k - 1)

\* A row of slots has the width it was made with.
LEMMA LenShaped ==
  ASSUME NEW n \in Nat, NEW s, Shaped(s, n)
  PROVE  Len(s) = n
<1>1. s \in [1..n -> {s[k] : k \in 1..n}]
  BY DEF Shaped
<1>. QED
  BY <1>1, LenOf

\* A row for no token has no slots.
LEMMA EmptyRowIs ==
  ASSUME NEW width \in Nat
  PROVE  EmptyRow(width).len = 0 /\ Shaped(EmptyRow(width).slots, width)
  BY DEF EmptyRow, Shaped

\* The slots of positions f to e - 1 of a token's request.
Filled(row, t, f, e, width) ==
  /\ row.len = e - f
  /\ Shaped(row.slots, width) /\ Len(row.slots) = width
  /\ \A k \in 1..(e - f) : row.slots[k] = Slot(batch[t.req].r, f + k - 1)

\* A row of slots that is wide enough holds the slots of its interval.
LEMMA SlotRowIs ==
  ASSUME NEW t, NEW width \in Nat, NEW f \in Nat, NEW e \in Nat, f < e, e - f <= width
  PROVE  Filled(SlotRow(t, f, e, width), t, f, e, width)
<1> DEFINE row == SlotRow(t, f, e, width)
<1>1. /\ row.len = e - f
      /\ row.slots = [k \in 1..width |-> IF f + k - 1 < e THEN Slot(batch[t.req].r, f + k - 1)
                                                          ELSE NoSlot]
  BY DEF SlotRow
<1> HIDE DEF row
<1>2. Shaped(row.slots, width)
  BY <1>1 DEF Shaped
<1>3. \A k \in 1..(e - f) : k \in 1..width /\ f + k - 1 < e
  OBVIOUS
<1>4. \A k \in 1..(e - f) : row.slots[k] = Slot(batch[t.req].r, f + k - 1)
  BY <1>1, <1>3
<1>. QED
  BY <1>1, <1>2, <1>4, LenShaped DEF row, Filled

\* The step's invariants a row depends on.
Ready == /\ Types /\ Batched /\ TargetPass /\ DraftPass /\ Tables
         /\ phase # "done"

\* So does the row a kernel makes for a token of the pass.
LEMMA SlotRowFor ==
  ASSUME Ready, NEW t \in 1..NumTokens, NEW width \in Nat,
         EndSeen(Tokens[t]) - FirstSeen(Tokens[t]) <= width
  PROVE  LET row == SlotRow(Tokens[t], FirstSeen(Tokens[t]), EndSeen(Tokens[t]), width)
         IN  RowFor(row, Tokens[t]) /\ Shaped(row.slots, width)
<1> DEFINE k == Tokens[t]
           f == FirstSeen(k)
           e == EndSeen(k)
           row == SlotRow(k, f, e, width)
<1>1. f \in Nat /\ e \in Nat /\ f < e
  BY SeenIs DEF Ready
<1> HIDE DEF f, e
<1>3. e - f <= width
  BY DEF f, e
<1>2. Filled(row, k, f, e, width)
  BY <1>1, <1>3, SlotRowIs
<1> HIDE DEF row
<1>4. RowFor(row, k)
  BY <1>2, <1>3 DEF RowFor, f, e, Filled
<1>5. Shaped(row.slots, width)
  BY <1>2 DEF Filled
<1>. QED
  BY <1>4, <1>5 DEF row, f, e

\* The decode kernels (window and block) make the row of each decode token.
LEMMA DecodeRow ==
  ASSUME Ready, NEW t \in 1..NumTokens,
         pass = "target" => IsDecode(batch[Tokens[t].req])
  PROVE  /\ pass # "dspark" =>
              LET row == WindowRow(Tokens[t], TRUE, Window, Window, FALSE)
              IN  RowFor(row, Tokens[t]) /\ Shaped(row.slots, Window)
         /\ pass = "dspark" =>
              LET row == BlockRow(Tokens[t], TRUE)
              IN  RowFor(row, Tokens[t]) /\ Shaped(row.slots, NoncausalWidth)
<1> DEFINE k == Tokens[t]
           P == Position(k)
<1>1. Window \in Nat \ {0} /\ setup.drafts \in Nat
  BY Sizes DEF Ready, Types
<1>2. P \in Nat
  BY TokenIs DEF Ready, Types
<1>3. ASSUME pass # "dspark"
      PROVE  LET row == WindowRow(k, TRUE, Window, Window, FALSE)
             IN  RowFor(row, k) /\ Shaped(row.slots, Window)
  <2>1. pass \in {"target", "mtp"}
    BY <1>3 DEF Ready, Types
  <2>2. EndSeen(k) - FirstSeen(k) <= Window
    BY <2>1, SeenIs DEF Ready
  <2>3. FirstSeen(k) = Larger(P - (Window - 1), 0) /\ EndSeen(k) = P + 1
    <3>1. CASE pass = "mtp"
      BY <3>1 DEF FirstSeen, EndSeen
    <3>2. CASE pass = "target"
      <4>1. Left(k) = 0 /\ Right(k) = 0
        BY <3>2, SeenIs DEF Ready
      <4>2. /\ FirstSeen(k) = Larger(P - (Window - 1) - Larger(0 - (Window - 1), 0), 0)
            /\ EndSeen(k) = P + 0 + 1
        BY <3>2, <4>1 DEF FirstSeen, EndSeen
      <4> HIDE DEF P
      <4>. QED
        BY <1>1, <1>2, <4>2 DEF Larger
    <3>. QED
      BY <2>1, <3>1, <3>2
  <2>4. WindowRow(k, TRUE, Window, Window, FALSE)
          = SlotRow(k, Larger(P - (Window - 1) - Larger(0 - (Window - 1), 0), 0),
                    P + 0 + 1, Window)
    BY DEF WindowRow
  <2>5. Larger(P - (Window - 1) - Larger(0 - (Window - 1), 0), 0) = FirstSeen(k)
        /\ P + 0 + 1 = EndSeen(k)
    <3> HIDE DEF P
    <3>. QED
      BY <1>1, <1>2, <2>3 DEF Larger
  <2>6. WindowRow(k, TRUE, Window, Window, FALSE)
          = SlotRow(k, FirstSeen(k), EndSeen(k), Window)
    BY <2>4, <2>5, Zenon
  <2>7. LET row == SlotRow(k, FirstSeen(k), EndSeen(k), Window)
        IN  RowFor(row, k) /\ Shaped(row.slots, Window)
    BY <1>1, <2>2, SlotRowFor
  <2>. QED
    BY <2>6, <2>7, Zenon
<1>4. ASSUME pass = "dspark"
      PROVE  LET row == BlockRow(k, TRUE)
             IN  RowFor(row, k) /\ Shaped(row.slots, NoncausalWidth)
  <2>1. EndSeen(k) - FirstSeen(k) <= NoncausalWidth
    BY <1>4, SeenIs DEF Ready
  <2>2. BlockRow(k, TRUE) = SlotRow(k, FirstSeen(k), EndSeen(k), NoncausalWidth)
    BY <1>4 DEF BlockRow, FirstSeen, EndSeen
  <2>3. NoncausalWidth \in Nat
    BY <1>1 DEF NoncausalWidth
  <2>4. LET row == SlotRow(k, FirstSeen(k), EndSeen(k), NoncausalWidth)
        IN  RowFor(row, k) /\ Shaped(row.slots, NoncausalWidth)
    BY <2>1, <2>3, SlotRowFor
  <2>. QED
    BY <2>2, <2>4, Zenon
<1>. QED
  BY <1>3, <1>4

\* The prefill kernel makes the row of each token of the target's pass; it may
\* leave images out only when the batch has none.
LEMMA PrefillRow ==
  ASSUME Ready, NEW t \in 1..NumTokens, pass = "target", NEW hasImage \in BOOLEAN,
         hasImage \/ \A i \in DOMAIN batch : ImagesOf(batch[i].r) = {}
  PROVE  LET row == WindowRow(Tokens[t], TRUE, Window, IndexWidth, hasImage)
         IN  RowFor(row, Tokens[t]) /\ Shaped(row.slots, IndexWidth)
<1> DEFINE k == Tokens[t]
           P == Position(k)
<1>1. EndSeen(k) - FirstSeen(k) <= IndexWidth
  BY SeenIs DEF Ready
<1>2. IndexWidth \in Nat
  BY Sizes DEF IndexWidth
<1>3. batch \in Seq(Request) /\ setup \in Setups
  BY DEF Ready, Types
<1>4. \/ hasImage = TRUE
      \/ hasImage = FALSE /\ Left(k) = 0 /\ Right(k) = 0
  <2>1. CASE hasImage = FALSE
    <3>1. k.req \in DOMAIN batch
      BY <1>3, TokenIs
    <3>2. ImagesOf(batch[k.req].r) = {}
      BY <2>1, <3>1
    <3>. QED
      BY <1>3, <2>1, <3>2, Sides
  <2>. QED
    BY <2>1
<1>5. WindowRow(k, TRUE, Window, IndexWidth, hasImage)
        = SlotRow(k, Larger(P - (Window - 1) - Larger(Left(k) - (Window - 1), 0), 0),
                  P + Right(k) + 1, IndexWidth)
  BY <1>4 DEF WindowRow
<1>6. WindowRow(k, TRUE, Window, IndexWidth, hasImage)
        = SlotRow(k, FirstSeen(k), EndSeen(k), IndexWidth)
  BY <1>5 DEF FirstSeen, EndSeen
<1>7. LET row == SlotRow(k, FirstSeen(k), EndSeen(k), IndexWidth)
      IN  RowFor(row, k) /\ Shaped(row.slots, IndexWidth)
  BY <1>1, <1>2, SlotRowFor
<1>. QED
  BY <1>6, <1>7, Zenon

-----------------------------------------------------------------------------
(* Which rows are decodes, and which padding *)

\* Padding to a captured size stays in the buffers, and only decodes are padded.
LEMMA PaddingIs ==
  ASSUME Types, Batched
  PROVE  /\ GraphPadding \in Nat /\ NumTokens + GraphPadding <= MaxTokens
         /\ NumPrefills > 0 => GraphPadding = 0
         /\ NumTokens \in Nat /\ MaxTokens \in Nat \ {0}
<1> DEFINE sizes == {n \in CaptureSizes : n >= NumTokens}
<1>1. NumTokens \in Nat /\ NumTokens <= MaxTokens
  BY StartsIs DEF Types, Batched
<1>2. MaxTokens \in Nat \ {0} /\ CaptureSizes \subseteq 1..MaxTokens
  BY Sizes
<1>3. GraphPadding = IF NumPrefills > 0 \/ sizes = {} THEN 0 ELSE Min(sizes) - NumTokens
  BY DEF GraphPadding
<1>4. ASSUME sizes # {} PROVE Min(sizes) \in NumTokens..MaxTokens
  <2>1. sizes \subseteq Nat /\ sizes \subseteq NumTokens..MaxTokens
    <3>. SUFFICES ASSUME NEW n \in sizes PROVE n \in Nat /\ n \in NumTokens..MaxTokens
      OBVIOUS
    <3>1. n \in 1..MaxTokens /\ n >= NumTokens
      BY <1>2
    <3>. QED
      BY <1>1, <3>1
  <2> HIDE DEF sizes
  <2>. QED
    BY <1>4, <2>1, Smallest
<1> HIDE DEF sizes
<1>. QED
  BY <1>1, <1>2, <1>3, <1>4

DecodeRows == QueryStart[NumDecodes] + GraphPadding

\* A pass of the drafter has decodes only.
LEMMA DraftsAreDecodes ==
  ASSUME Types, DraftPass, pass # "target", NEW i \in DOMAIN batch
  PROVE  IsDecode(batch[i])
<1>1. ToDraft(batch[i])
  BY DEF DraftPass
<1>2. setup.drafts \in Nat /\ setup.drafts < DecodeThreshold /\ 1 <= DecodeThreshold
      /\ DecodeThreshold \in Nat
  BY RequestIs
<1>3. batch[i].q = 1 \/ batch[i].q = setup.drafts
  BY <1>1 DEF ToDraft
<1>. QED
  BY <1>2, <1>3 DEF IsDecode

\* The rows below num_decode_tokens are those of the decodes, and the padding.
LEMMA DecodeRowsAre ==
  ASSUME Types, Batched, DraftPass
  PROVE  /\ DecodeRows \in 0..(NumTokens + GraphPadding)
         /\ \A t \in 1..NumTokens : t <= DecodeRows <=> IsDecode(batch[Tokens[t].req])
         /\ \A t \in (NumTokens + 1)..(NumTokens + GraphPadding) : t <= DecodeRows
         /\ pass # "target" => DecodeRows = NumTokens + GraphPadding
<1>1. /\ Sums(QueryStart, batch, Len(batch)) /\ QueryStart \in [0..Len(batch) -> Nat]
      /\ QueryStart[0] = 0 /\ Len(batch) \in Nat /\ DOMAIN batch = 1..Len(batch)
  BY StartsIs DEF Types
<1>2. batch \in Seq(Request) /\ Sorted
  BY DEF Types, Batched
<1>3. /\ NumDecodes \in 0..Len(batch)
      /\ \A i \in DOMAIN batch : IsDecode(batch[i]) <=> i <= NumDecodes
  BY <1>2, DecodesFirst
<1>4. /\ GraphPadding \in Nat /\ NumTokens \in Nat
      /\ NumPrefills > 0 => GraphPadding = 0
  BY PaddingIs
<1>5. NumTokens = QueryStart[Len(batch)] /\ NumPrefills = Len(batch) - NumDecodes
  BY DEF NumTokens, NumPrefills
<1>6. QueryStart[NumDecodes] \in Nat
  BY <1>1, <1>3
<1>9. NumDecodes \in 0..Len(batch) /\ Len(batch) \in Nat /\ Len(batch) \in 0..Len(batch)
  BY <1>1, <1>3
<1>10. ASSUME NEW i \in 0..Len(batch), NEW j \in 0..Len(batch), i <= j
       PROVE  QueryStart[i] <= QueryStart[j]
  <2>1. QueryStart[i] \in Nat /\ QueryStart[j] \in Nat
        /\ QueryStart[i] + (j - i) <= QueryStart[j]
    BY <1>1, <1>2, <1>10, SumsGrow
  <2>. QED
    BY <1>9, <1>10, <2>1
<1>7. CASE NumPrefills > 0
  <2>1. DecodeRows = QueryStart[NumDecodes] /\ GraphPadding = 0
    BY <1>4, <1>6, <1>7 DEF DecodeRows
  <2>2. NumDecodes < Len(batch) /\ NumDecodes <= Len(batch)
    BY <1>5, <1>7, <1>9
  <2>3. QueryStart[NumDecodes] <= QueryStart[Len(batch)]
    BY <1>9, <1>10, <2>2
  <2>4. DecodeRows \in 0..(NumTokens + GraphPadding)
    BY <1>4, <1>5, <1>6, <2>1, <2>2, <2>3
  <2>5. ASSUME NEW t \in 1..NumTokens
        PROVE  t <= DecodeRows <=> IsDecode(batch[Tokens[t].req])
    <3> DEFINE i == Tokens[t].req
    <3>1. i \in DOMAIN batch /\ Of(t, i)
      BY <1>2, TokenIs, ReqOfIs
    <3> HIDE DEF i
    <3>2. i \in 1..Len(batch) /\ i \in 0..Len(batch) /\ i - 1 \in 0..Len(batch)
      BY <1>1, <3>1
    <3>3. QueryStart[i] \in Nat /\ QueryStart[i - 1] \in Nat
      BY <1>1, <3>2
    <3>4. t \in (QueryStart[i - 1] + 1)..QueryStart[i]
      BY <3>1 DEF Of
    <3>5. CASE i <= NumDecodes
      <4>1. QueryStart[i] <= QueryStart[NumDecodes]
        BY <1>9, <1>10, <3>2, <3>5
      <4>2. t <= DecodeRows
        BY <1>6, <2>1, <3>3, <3>4, <4>1
      <4>. QED
        BY <1>3, <3>1, <3>5, <4>2 DEF i
    <3>6. CASE ~(i <= NumDecodes)
      <4>1. NumDecodes <= i - 1
        BY <1>9, <3>2, <3>6
      <4>2. QueryStart[NumDecodes] <= QueryStart[i - 1]
        BY <1>9, <1>10, <3>2, <4>1
      <4>3. ~(t <= DecodeRows)
        BY <1>6, <2>1, <3>3, <3>4, <4>1, <4>2
      <4>. QED
        BY <1>3, <3>1, <3>6, <4>3 DEF i
    <3>. QED
      BY <3>5, <3>6
  <2>6. pass = "target"
    <3>. SUFFICES ASSUME pass # "target" PROVE FALSE
      OBVIOUS
    <3>1. Len(batch) \in DOMAIN batch
      BY <1>1, <1>3, <2>2
    <3>2. IsDecode(batch[Len(batch)])
      BY <3>1, DraftsAreDecodes
    <3>3. Len(batch) <= NumDecodes
      BY <1>3, <3>1, <3>2
    <3>. QED
      BY <1>1, <1>3, <2>2, <3>3
  <2>7. (NumTokens + 1)..(NumTokens + GraphPadding) = {}
    BY <1>4, <2>1
  <2>. QED
    BY <2>4, <2>5, <2>6, <2>7
<1>8. CASE ~(NumPrefills > 0)
  <2>1. NumDecodes = Len(batch)
    BY <1>5, <1>8, <1>9
  <2>2. DecodeRows = NumTokens + GraphPadding
    BY <1>5, <2>1 DEF DecodeRows
  <2>3. \A t \in 1..NumTokens : IsDecode(batch[Tokens[t].req])
    <3>. TAKE t \in 1..NumTokens
    <3>1. Tokens[t].req \in DOMAIN batch
      BY <1>2, TokenIs
    <3> HIDE DEF IsDecode
    <3>2. Tokens[t].req <= NumDecodes
      BY <1>1, <2>1, <3>1
    <3>. QED
      BY <1>3, <3>1, <3>2
  <2>. QED
    BY <1>4, <2>2, <2>3
<1>. QED
  BY <1>7, <1>8

-----------------------------------------------------------------------------
(* What a step leaves alone *)

\* Tokens depend on the batch alone,
LEMMA SameBatch ==
  ASSUME batch' = batch
  PROVE  /\ QueryStart' = QueryStart /\ NumTokens' = NumTokens
         /\ \A t : ReqOf(t)' = ReqOf(t)
         /\ Tokens' = Tokens /\ \A n : WithPadding(n)' = WithPadding(n)
         /\ \A k : Position(k)' = Position(k)
<1>1. QueryStart' = QueryStart
  BY DEF QueryStart
<1>2. NumTokens' = NumTokens
  BY <1>1 DEF NumTokens
<1>3. \A t : ReqOf(t)' = ReqOf(t)
  BY <1>1 DEF ReqOf
<1>4. Tokens' = Tokens
  BY <1>1, <1>2, <1>3 DEF Tokens
<1>5. \A n : WithPadding(n)' = WithPadding(n)
  BY <1>4 DEF WithPadding
<1>6. \A k : Position(k)' = Position(k)
  BY DEF Position, PrefixLen
<1>. QED
  BY <1>1, <1>2, <1>3, <1>4, <1>5, <1>6

\* slots on the block tables alone,
LEMMA SameTable ==
  ASSUME table' = table
  PROVE  \A r, p : BlockOf(r, p)' = BlockOf(r, p) /\ Slot(r, p)' = Slot(r, p)
                   /\ Present(r, p)' = Present(r, p)
  BY DEF BlockOf, Slot, Present

\* and what is to be read on the batch, the setup and the pass.
LEMMA SameSeen ==
  ASSUME batch' = batch, setup' = setup, pass' = pass
  PROVE  \A k : FirstSeen(k)' = FirstSeen(k) /\ EndSeen(k)' = EndSeen(k)
<1>1. \A k : Position(k)' = Position(k)
  BY DEF Position, PrefixLen
<1>2. \A r : ImagesOf(r)' = ImagesOf(r)
  BY DEF ImagesOf
<1>3. \A k : SpansAt(k)' = SpansAt(k)
  BY <1>1, <1>2 DEF SpansAt
<1>4. \A k : Left(k)' = Left(k) /\ Right(k)' = Right(k)
  BY <1>1, <1>3 DEF Left, Right
<1>5. \A k : PrefixLen(k.req)' = PrefixLen(k.req) /\ SeqLen(k.req)' = SeqLen(k.req)
  BY DEF PrefixLen, SeqLen
<1>. QED
  BY <1>1, <1>4, <1>5 DEF FirstSeen, EndSeen

\* What build_flashinfer_mixed_sparse_indices takes as row t.
RowOf(t) ==
  IF t <= meta.decodeTokens
  THEN [len |-> buf.decodeLens[t],
        slots |-> IF pass = "dspark" THEN buf.wide[t] ELSE buf.decode[t]]
  ELSE [len |-> buf.prefillLens[t - meta.decodeTokens],
        slots |-> buf.prefill[t - meta.decodeTokens]]
NumRows == NumTokens + meta.padding

\* The metadata is of this batch; a draft's rows are valid but for the padding.
Meta ==
  phase # "batch" =>
    /\ meta = [decodeTokens |-> meta.decodeTokens, padding |-> meta.padding,
               slack |-> meta.slack, sparseIndexCache |-> meta.sparseIndexCache]
    /\ meta.padding \in Nat /\ NumRows <= MaxTokens /\ meta.slack \in 0..1
    /\ meta.decodeTokens \in Nat
    /\ pass = "mtp" => /\ meta.decodeTokens = NumRows
                       /\ \A t \in 1..NumTokens : buf.valid[t] = TRUE
                       /\ \A t \in (NumTokens + 1)..NumRows : buf.valid[t] = FALSE

\* The rows are right once the metadata is built.
Built ==
  phase = "built" =>
    /\ meta.sparseIndexCache = None
    /\ \A t \in 1..NumTokens : RowFor(RowOf(t), Tokens[t])
    /\ \A t \in (NumTokens + 1)..NumRows : RowOf(t).len = 0

\* Writing rows into a buffer from its start leaves the rows after them.
LEMMA OverIs ==
  ASSUME NEW b, NEW s
  PROVE  /\ DOMAIN Over(b, s) = DOMAIN b
         /\ \A t \in DOMAIN b : Over(b, s)[t] = IF t \in DOMAIN s THEN s[t] ELSE b[t]
  BY DEF Over

\* A row that is right stays right while batch, setup, pass and tables do.
LEMMA RowForSame ==
  ASSUME batch' = batch, setup' = setup, pass' = pass, table' = table,
         NEW t, NEW row, RowFor(row, Tokens[t]), RowOf(t)'.len = row.len,
         RowOf(t)'.slots = row.slots
  PROVE  RowFor(RowOf(t), Tokens[t])'
<1>1. Tokens' = Tokens
  BY SameBatch
<1>2. FirstSeen(Tokens[t])' = FirstSeen(Tokens[t]) /\ EndSeen(Tokens[t])' = EndSeen(Tokens[t])
  BY <1>1, SameSeen
<1>3. \A j : Slot(batch[Tokens[t].req].r, FirstSeen(Tokens[t]) + j - 1)'
               = Slot(batch[Tokens[t].req].r, FirstSeen(Tokens[t]) + j - 1)
  BY <1>1, <1>2 DEF Slot, BlockOf
<1>4. /\ row.len = EndSeen(Tokens[t]) - FirstSeen(Tokens[t]) /\ row.len <= Len(row.slots)
      /\ \A j \in 1..row.len :
           row.slots[j] = Slot(batch[Tokens[t].req].r, FirstSeen(Tokens[t]) + j - 1)
  BY DEF RowFor
<1>5. /\ RowOf(t)'.len = EndSeen(Tokens[t])' - FirstSeen(Tokens[t])'
      /\ RowOf(t)'.len <= Len(RowOf(t)'.slots)
  BY <1>2, <1>4
<1>6. ASSUME NEW j \in 1..RowOf(t)'.len
      PROVE  RowOf(t)'.slots[j] = Slot(batch[Tokens[t].req].r, FirstSeen(Tokens[t]) + j - 1)'
  BY <1>3, <1>4
<1>. QED
  BY <1>5, <1>6 DEF RowFor

\* The kernels' rows of a pass, as Build makes them.
KernelRow(t) == IF pass = "dspark" THEN BlockRow(Tokens[t], TRUE)
                                   ELSE WindowRow(Tokens[t], TRUE, Window, Window, FALSE)
DecodeWidth == IF pass = "dspark" THEN NoncausalWidth ELSE Window
HasImage == \E i \in DOMAIN batch : ImagesOf(batch[i].r) # {}

\* The row of the decode kernel that the pass runs is right.
LEMMA KernelRowIs ==
  ASSUME Ready, NEW t \in 1..NumTokens,
         pass = "target" => IsDecode(batch[Tokens[t].req])
  PROVE  RowFor(KernelRow(t), Tokens[t]) /\ Shaped(KernelRow(t).slots, DecodeWidth)
<1>1. CASE pass = "dspark"
  BY <1>1, DecodeRow DEF KernelRow, DecodeWidth
<1>2. CASE pass # "dspark"
  BY <1>2, DecodeRow DEF KernelRow, DecodeWidth
<1>. QED
  BY <1>1, <1>2

\* The buffers' widths are numbers.
LEMMA Widths ==
  ASSUME Types
  PROVE  /\ Window \in Nat /\ NoncausalWidth \in Nat /\ IndexWidth \in Nat
         /\ DecodeWidth \in Nat
<1>1. setup.drafts \in Nat /\ Window \in Nat /\ MaxImageTokens \in Nat
  BY Sizes DEF Types
<1>. QED
  BY <1>1 DEF NoncausalWidth, IndexWidth, DecodeWidth

\* The row of a padding token has no slots.
LEMMA NoRows ==
  ASSUME Types, NEW t
  PROVE  /\ WindowRow(t, FALSE, Window, Window, FALSE).len = 0
         /\ Shaped(WindowRow(t, FALSE, Window, Window, FALSE).slots, Window)
         /\ BlockRow(t, FALSE).len = 0
         /\ Shaped(BlockRow(t, FALSE).slots, NoncausalWidth)
<1>1. WindowRow(t, FALSE, Window, Window, FALSE) = EmptyRow(Window)
      /\ BlockRow(t, FALSE) = EmptyRow(NoncausalWidth)
  BY DEF WindowRow, BlockRow
<1>. QED
  BY <1>1, Widths, EmptyRowIs

-----------------------------------------------------------------------------
(* The builder *)

\* Build leaves a right row of slots for every token of the pass, and none for the
\* padding.
LEMMA BuildStep ==
  ASSUME Ready, NEW slack \in 0..1, Build(slack)
  PROVE  Buffers' /\ Meta' /\ Built'
<1> DEFINE padding == GraphPadding
           toks == WithPadding(padding)
           valid == ValidTokens(toks)
           n == DecodeRows
           rows == NumTokens + padding
           decodes == [t \in 1..n |->
                        IF pass = "dspark" THEN BlockRow(toks[t], valid[t])
                        ELSE WindowRow(toks[t], valid[t], Window, Window, FALSE)]
           prefills == [t \in 1..(Len(toks) - n) |->
                         WindowRow(toks[n + t], valid[n + t], Window, IndexWidth, HasImage)]
<1>1. /\ buf' = [valid |-> Over(buf.valid, valid),
                 decode |-> IF pass # "dspark" THEN Over(buf.decode, Slots(decodes))
                                               ELSE buf.decode,
                 wide   |-> IF pass = "dspark" THEN Over(buf.wide, Slots(decodes))
                                               ELSE buf.wide,
                 decodeLens |-> [t \in 1..MaxTokens |->
                                  IF t \in 1..n THEN decodes[t].len
                                  ELSE IF n > 0 THEN 0 ELSE buf.decodeLens[t]],
                 prefill |-> Over(buf.prefill, Slots(prefills)),
                 prefillLens |-> Over(buf.prefillLens, Lens(prefills))]
      /\ meta' = [decodeTokens |-> n, padding |-> padding, slack |-> slack,
                  sparseIndexCache |-> None]
  BY DEF Build, DecodeRows, HasImage
<1>2. /\ phase' = "built" /\ setup' = setup /\ table' = table
      /\ pass' = pass /\ batch' = batch
  BY DEF Build, engine
<1>3. Types /\ Batched /\ DraftPass /\ Buffers /\ batch \in Seq(Request)
  BY DEF Ready, Types
<1>4. /\ padding \in Nat /\ rows <= MaxTokens /\ NumTokens \in Nat
      /\ MaxTokens \in Nat \ {0}
  BY <1>3, PaddingIs
<1>5. /\ n \in 0..rows
      /\ \A t \in 1..NumTokens : t <= n <=> IsDecode(batch[Tokens[t].req])
      /\ \A t \in (NumTokens + 1)..rows : t <= n
      /\ pass # "target" => n = rows
  BY <1>3, DecodeRowsAre
<1>6. /\ DOMAIN toks = 1..rows /\ Len(toks) = rows
      /\ \A t \in 1..NumTokens : toks[t] = Tokens[t]
      /\ \A t \in (NumTokens + 1)..rows : toks[t] = Padding
  BY <1>3, <1>4, RowsAre
<1>7. valid = [t \in 1..rows |-> ~toks[t].padding]
  BY <1>6 DEF ValidTokens
<1> HIDE DEF padding, toks, valid, n
<1>8. \A t \in 1..NumTokens : t \in 1..rows /\ valid[t] = TRUE
  <2>. TAKE t \in 1..NumTokens
  <2>1. t \in 1..rows
    BY <1>4
  <2>2. Tokens[t].padding = FALSE
    BY <1>3, TokenIs
  <2>. QED
    BY <1>6, <1>7, <2>1, <2>2
<1>9. \A t \in (NumTokens + 1)..rows : t \in 1..rows /\ valid[t] = FALSE
  <2>. TAKE t \in (NumTokens + 1)..rows
  <2>1. t \in 1..rows
    BY <1>4
  <2>2. Padding.padding = TRUE
    BY DEF Padding
  <2>. QED
    BY <1>6, <1>7, <2>1, <2>2
<1>10. \A t \in 1..rows : t \in 1..NumTokens \/ t \in (NumTokens + 1)..rows
  BY <1>4
<1>11. ASSUME NEW t \in 1..n
       PROVE  /\ t \in 1..rows /\ t \in 1..MaxTokens
              /\ t \in 1..NumTokens => decodes[t] = KernelRow(t)
              /\ t \in 1..NumTokens => RowFor(decodes[t], Tokens[t])
              /\ t \in (NumTokens + 1)..rows => decodes[t].len = 0
              /\ Shaped(decodes[t].slots, DecodeWidth)
  <2>1. t \in 1..rows /\ t \in 1..MaxTokens /\ t <= n
    BY <1>4, <1>5
  <2>2. decodes[t] = IF pass = "dspark" THEN BlockRow(toks[t], valid[t])
                     ELSE WindowRow(toks[t], valid[t], Window, Window, FALSE)
    OBVIOUS
  <2> HIDE DEF decodes
  <2>3. CASE t \in 1..NumTokens
    <3>1. decodes[t] = KernelRow(t)
      BY <1>6, <1>8, <2>2, <2>3 DEF KernelRow
    <3>2. IsDecode(batch[Tokens[t].req])
      BY <1>5, <2>1, <2>3
    <3>3. RowFor(KernelRow(t), Tokens[t]) /\ Shaped(KernelRow(t).slots, DecodeWidth)
      BY <2>3, <3>2, KernelRowIs
    <3>4. t \notin (NumTokens + 1)..rows
      BY <1>4, <2>3
    <3>. QED
      BY <2>1, <3>1, <3>3, <3>4
  <2>4. CASE t \in (NumTokens + 1)..rows
    <3>1. decodes[t] = IF pass = "dspark" THEN BlockRow(Padding, FALSE)
                       ELSE WindowRow(Padding, FALSE, Window, Window, FALSE)
      BY <1>6, <1>9, <2>2, <2>4
    <3>2. decodes[t].len = 0 /\ Shaped(decodes[t].slots, DecodeWidth)
      BY <1>3, <3>1, NoRows DEF DecodeWidth
    <3>3. t \notin 1..NumTokens
      BY <1>4, <2>4
    <3>. QED
      BY <2>1, <3>2, <3>3
  <2>. QED
    BY <1>10, <2>1, <2>3, <2>4
<1>12. ASSUME NEW t \in 1..(rows - n)
       PROVE  /\ n + t \in 1..NumTokens /\ t \in 1..MaxTokens
              /\ RowFor(prefills[t], Tokens[n + t])
              /\ Shaped(prefills[t].slots, IndexWidth)
  <2>1. n + t \in 1..rows /\ ~(n + t <= n) /\ t \in 1..MaxTokens /\ n # rows
    BY <1>4, <1>5
  <2>2. n + t \in 1..NumTokens
    BY <1>5, <1>10, <2>1
  <2>3. pass = "target"
    BY <1>5, <2>1
  <2>4. prefills[t] = WindowRow(Tokens[n + t], TRUE, Window, IndexWidth, HasImage)
    BY <1>6, <1>8, <2>2
  <2>5. HasImage \in BOOLEAN /\ (HasImage \/ \A i \in DOMAIN batch : ImagesOf(batch[i].r) = {})
    BY DEF HasImage
  <2>6. LET row == WindowRow(Tokens[n + t], TRUE, Window, IndexWidth, HasImage)
        IN  RowFor(row, Tokens[n + t]) /\ Shaped(row.slots, IndexWidth)
    BY <2>2, <2>3, <2>5, PrefillRow
  <2>. QED
    BY <2>1, <2>2, <2>4, <2>6
<1>13. /\ DOMAIN decodes = 1..n /\ DOMAIN Slots(decodes) = 1..n
       /\ \A t \in 1..n : Slots(decodes)[t] = decodes[t].slots
  BY DEF Slots
<1>14. /\ DOMAIN prefills = 1..(rows - n)
       /\ DOMAIN Slots(prefills) = 1..(rows - n) /\ DOMAIN Lens(prefills) = 1..(rows - n)
       /\ \A t \in 1..(rows - n) : /\ Slots(prefills)[t] = prefills[t].slots
                                   /\ Lens(prefills)[t] = prefills[t].len
  BY <1>6 DEF Slots, Lens
<1> HIDE DEF decodes, prefills, rows
<1>15. /\ DOMAIN buf.valid = 1..MaxTokens /\ DOMAIN buf.decode = 1..MaxTokens
       /\ DOMAIN buf.wide = 1..MaxTokens /\ DOMAIN buf.prefill = 1..MaxTokens
       /\ DOMAIN buf.decodeLens = 1..MaxTokens /\ DOMAIN buf.prefillLens = 1..MaxTokens
       /\ \A t \in 1..MaxTokens : /\ Shaped(buf.decode[t], Window)
                                  /\ Shaped(buf.wide[t], NoncausalWidth)
                                  /\ Shaped(buf.prefill[t], IndexWidth)
  BY <1>3 DEF Buffers
<1>16. NoncausalWidth' = NoncausalWidth /\ IndexWidth' = IndexWidth
  BY <1>2 DEF NoncausalWidth, IndexWidth
<1>17. /\ buf'.valid = Over(buf.valid, valid)
       /\ buf'.decode = IF pass # "dspark" THEN Over(buf.decode, Slots(decodes)) ELSE buf.decode
       /\ buf'.wide = IF pass = "dspark" THEN Over(buf.wide, Slots(decodes)) ELSE buf.wide
       /\ buf'.decodeLens = [t \in 1..MaxTokens |->
                              IF t \in 1..n THEN decodes[t].len
                              ELSE IF n > 0 THEN 0 ELSE buf.decodeLens[t]]
       /\ buf'.prefill = Over(buf.prefill, Slots(prefills))
       /\ buf'.prefillLens = Over(buf.prefillLens, Lens(prefills))
       /\ buf' = [valid |-> buf'.valid, decode |-> buf'.decode, wide |-> buf'.wide,
                  decodeLens |-> buf'.decodeLens, prefill |-> buf'.prefill,
                  prefillLens |-> buf'.prefillLens]
  BY <1>1
<1>23. ASSUME NEW t \in 1..MaxTokens
       PROVE  /\ buf'.decode[t] = IF pass # "dspark" /\ t \in 1..n THEN decodes[t].slots
                                                                  ELSE buf.decode[t]
              /\ buf'.wide[t] = IF pass = "dspark" /\ t \in 1..n THEN decodes[t].slots
                                                                ELSE buf.wide[t]
              /\ buf'.prefill[t] = IF t \in 1..(rows - n) THEN prefills[t].slots
                                                          ELSE buf.prefill[t]
              /\ buf'.prefillLens[t] = IF t \in 1..(rows - n) THEN prefills[t].len
                                                              ELSE buf.prefillLens[t]
  <2>1. /\ t \in DOMAIN buf.decode /\ t \in DOMAIN buf.wide
        /\ t \in DOMAIN buf.prefill /\ t \in DOMAIN buf.prefillLens
    BY <1>15
  <2>2. /\ Over(buf.decode, Slots(decodes))[t]
             = IF t \in 1..n THEN decodes[t].slots ELSE buf.decode[t]
        /\ Over(buf.wide, Slots(decodes))[t]
             = IF t \in 1..n THEN decodes[t].slots ELSE buf.wide[t]
    <3>1. \A b : t \in DOMAIN b =>
            Over(b, Slots(decodes))[t] = IF t \in 1..n THEN decodes[t].slots ELSE b[t]
      BY <1>13, Zenon DEF Over
    <3>. QED
      BY <2>1, <3>1
  <2>3. /\ Over(buf.prefill, Slots(prefills))[t]
             = IF t \in 1..(rows - n) THEN prefills[t].slots ELSE buf.prefill[t]
        /\ Over(buf.prefillLens, Lens(prefills))[t]
             = IF t \in 1..(rows - n) THEN prefills[t].len ELSE buf.prefillLens[t]
    <3>1. \A b : t \in DOMAIN b =>
            Over(b, Slots(prefills))[t]
              = IF t \in 1..(rows - n) THEN prefills[t].slots ELSE b[t]
      BY <1>14, Zenon DEF Over
    <3>2. \A b : t \in DOMAIN b =>
            Over(b, Lens(prefills))[t]
              = IF t \in 1..(rows - n) THEN prefills[t].len ELSE b[t]
      BY <1>14, Zenon DEF Over
    <3>. QED
      BY <2>1, <3>1, <3>2
  <2>4. pass = "dspark" \/ pass # "dspark"
    OBVIOUS
  <2>5. buf'.decode[t] = IF pass # "dspark" /\ t \in 1..n THEN decodes[t].slots
                                                         ELSE buf.decode[t]
    <3>1. CASE pass = "dspark"
      <4>1. buf'.decode = buf.decode
        BY <1>17, <3>1
      <4>. QED
        BY <3>1, <4>1
    <3>2. CASE pass # "dspark"
      <4>1. buf'.decode = Over(buf.decode, Slots(decodes))
        BY <1>17, <3>2
      <4>. QED
        BY <2>2, <3>2, <4>1
    <3>. QED
      BY <3>1, <3>2
  <2>6. buf'.wide[t] = IF pass = "dspark" /\ t \in 1..n THEN decodes[t].slots
                                                       ELSE buf.wide[t]
    <3>1. CASE pass = "dspark"
      <4>1. buf'.wide = Over(buf.wide, Slots(decodes))
        BY <1>17, <3>1
      <4>. QED
        BY <2>2, <3>1, <4>1
    <3>2. CASE pass # "dspark"
      <4>1. buf'.wide = buf.wide
        BY <1>17, <3>2
      <4>. QED
        BY <3>2, <4>1
    <3>. QED
      BY <3>1, <3>2
  <2>7. buf'.prefill = Over(buf.prefill, Slots(prefills))
        /\ buf'.prefillLens = Over(buf.prefillLens, Lens(prefills))
    BY <1>17
  <2>. QED
    BY <2>3, <2>5, <2>6, <2>7
<1>18. Buffers'
  <2>1. /\ DOMAIN buf'.valid = 1..MaxTokens /\ DOMAIN buf'.decode = 1..MaxTokens
        /\ DOMAIN buf'.wide = 1..MaxTokens /\ DOMAIN buf'.prefill = 1..MaxTokens
        /\ DOMAIN buf'.decodeLens = 1..MaxTokens /\ DOMAIN buf'.prefillLens = 1..MaxTokens
    BY <1>15, <1>17, OverIs
  <2>2. ASSUME NEW t \in 1..MaxTokens
        PROVE  /\ Shaped(buf'.decode[t], Window) /\ Shaped(buf'.wide[t], NoncausalWidth)
               /\ Shaped(buf'.prefill[t], IndexWidth)
    <3>0. /\ Shaped(buf.decode[t], Window) /\ Shaped(buf.wide[t], NoncausalWidth)
          /\ Shaped(buf.prefill[t], IndexWidth)
      BY <1>15
    <3>1. Shaped(buf'.decode[t], Window)
      <4>1. pass # "dspark" /\ t \in 1..n => Shaped(decodes[t].slots, Window)
        BY <1>11 DEF DecodeWidth
      <4>. QED
        BY <1>23, <3>0, <4>1
    <3>2. Shaped(buf'.wide[t], NoncausalWidth)
      <4>1. pass = "dspark" /\ t \in 1..n => Shaped(decodes[t].slots, NoncausalWidth)
        BY <1>11 DEF DecodeWidth
      <4>. QED
        BY <1>23, <3>0, <4>1
    <3>3. Shaped(buf'.prefill[t], IndexWidth)
      <4>1. t \in 1..(rows - n) => Shaped(prefills[t].slots, IndexWidth)
        BY <1>12
      <4>. QED
        BY <1>23, <3>0, <4>1
    <3>. QED
      BY <3>1, <3>2, <3>3
  <2>3. buf' = [valid |-> buf'.valid, decode |-> buf'.decode, wide |-> buf'.wide,
                  decodeLens |-> buf'.decodeLens, prefill |-> buf'.prefill,
                  prefillLens |-> buf'.prefillLens]
    BY <1>17
  <2>4. ASSUME NEW t \in 1..MaxTokens
        PROVE  /\ Shaped(buf'.decode[t], Window) /\ Shaped(buf'.wide[t], NoncausalWidth')
               /\ Shaped(buf'.prefill[t], IndexWidth')
    BY <1>16, <2>2
  <2>. QED
    BY <2>1, <2>3, <2>4 DEF Buffers
<1>19. /\ meta'.decodeTokens = n /\ meta'.padding = padding /\ meta'.slack = slack
       /\ meta'.sparseIndexCache = None
       /\ meta' = [decodeTokens |-> meta'.decodeTokens, padding |-> meta'.padding,
                   slack |-> meta'.slack, sparseIndexCache |-> meta'.sparseIndexCache]
  BY <1>1
<1>20. NumTokens' = NumTokens /\ NumRows' = rows /\ Tokens' = Tokens
  BY <1>2, <1>19, SameBatch DEF NumRows, rows
<1>21. Meta'
  <2>1. ASSUME pass = "mtp"
        PROVE  /\ n = rows
               /\ \A t \in 1..NumTokens : buf'.valid[t] = TRUE
               /\ \A t \in (NumTokens + 1)..rows : buf'.valid[t] = FALSE
    <3>1. n = rows
      BY <1>5, <2>1
    <3>2. ASSUME NEW t \in 1..rows PROVE buf'.valid[t] = valid[t]
      <4>1. t \in 1..MaxTokens
        BY <1>4 DEF rows
      <4>2. DOMAIN valid = 1..rows /\ t \in DOMAIN buf.valid
        BY <1>7, <1>15, <4>1
      <4>3. Over(buf.valid, valid)[t] = valid[t]
        BY <4>2, OverIs
      <4>. QED
        BY <1>17, <4>3
    <3>. QED
      BY <1>8, <1>9, <3>1, <3>2
  <2>2. rows <= MaxTokens /\ padding \in Nat /\ n \in Nat
    BY <1>4, <1>5
  <2>. QED
    BY <1>2, <1>19, <1>20, <2>1, <2>2 DEF Meta
<1>22. Built'
  <2>1. ASSUME NEW t \in 1..n
        PROVE  /\ RowOf(t)'.len = decodes[t].len /\ RowOf(t)'.slots = decodes[t].slots
    <3>1. t \in 1..MaxTokens /\ t <= n
      BY <1>5, <1>11
    <3>2. RowOf(t)' = [len |-> buf'.decodeLens[t],
                       slots |-> IF pass = "dspark" THEN buf'.wide[t] ELSE buf'.decode[t]]
      BY <1>2, <1>19, <3>1 DEF RowOf
    <3>3. buf'.decodeLens[t] = decodes[t].len
      BY <1>17, <3>1
    <3>4. pass = "dspark" => buf'.wide[t] = decodes[t].slots
      BY <1>23, <3>1
    <3>5. pass # "dspark" => buf'.decode[t] = decodes[t].slots
      BY <1>23, <3>1
    <3>. QED
      BY <3>2, <3>3, <3>4, <3>5
  <2>2. ASSUME NEW t \in (n + 1)..rows
        PROVE  /\ t - n \in 1..(rows - n) /\ n + (t - n) = t
               /\ RowOf(t)'.len = prefills[t - n].len
               /\ RowOf(t)'.slots = prefills[t - n].slots
    <3>1. t - n \in 1..(rows - n) /\ n + (t - n) = t /\ ~(t <= n)
      BY <1>4, <1>5 DEF rows
    <3>2. t - n \in 1..MaxTokens
      BY <1>12, <3>1
    <3>3. RowOf(t)' = [len |-> buf'.prefillLens[t - n], slots |-> buf'.prefill[t - n]]
      BY <1>2, <1>19, <3>1 DEF RowOf
    <3>4. buf'.prefillLens[t - n] = prefills[t - n].len
          /\ buf'.prefill[t - n] = prefills[t - n].slots
      BY <1>23, <3>1, <3>2
    <3>. QED
      BY <3>1, <3>3, <3>4
  <2>3. ASSUME NEW t \in 1..NumTokens PROVE RowFor(RowOf(t), Tokens[t])'
    <3>1. CASE t <= n
      <4>1. t \in 1..n
        BY <1>4, <1>5, <3>1 DEF rows
      <4>. QED
        BY <1>2, <1>11, <2>1, <4>1, RowForSame
    <3>2. CASE ~(t <= n)
      <4>1. t \in (n + 1)..rows
        BY <1>4, <1>5, <3>2 DEF rows
      <4>2. RowFor(prefills[t - n], Tokens[t])
        BY <1>12, <2>2, <4>1
      <4>. QED
        BY <1>2, <2>2, <4>1, <4>2, RowForSame
    <3>. QED
      BY <3>1, <3>2
  <2>4. ASSUME NEW t \in (NumTokens + 1)..rows PROVE RowOf(t)'.len = 0
    <3>1. t \in 1..n
      BY <1>4, <1>5 DEF rows
    <3>. QED
      BY <1>11, <2>1, <3>1
  <2>. QED
    BY <1>2, <1>19, <1>20, <2>3, <2>4 DEF Built
<1>. QED
  BY <1>18, <1>21, <1>22

\* So does update_draft_metadata for the next drafted token: it makes the decode
\* rows again and takes the cached sparse indices away.
LEMMA UpdateStep ==
  ASSUME Ready, Meta, UpdateDraft
  PROVE  Buffers' /\ Meta' /\ Built'
<1> DEFINE toks == WithPadding(meta.padding)
           width == Len(buf.decode[1])
           rows == [t \in 1..meta.decodeTokens |->
                     WindowRow(toks[t], buf.valid[t], width, width, FALSE)]
           n == NumRows
<1>1. /\ buf' = [buf EXCEPT !.decode = Over(@, Slots(rows)),
                            !.decodeLens = Over(@, Lens(rows))]
      /\ meta' = [meta EXCEPT !.sparseIndexCache = None]
      /\ phase = "advanced" /\ phase' = "built" /\ setup' = setup /\ table' = table
      /\ pass' = pass /\ batch' = batch
  BY DEF UpdateDraft, engine
<1>2. Types /\ Buffers /\ batch \in Seq(Request) /\ TargetPass /\ DraftPass
  BY DEF Ready, Types
<1>3. pass = "mtp"
  BY <1>1, <1>2 DEF TargetPass, DraftPass, Types
<1>4. /\ meta = [decodeTokens |-> meta.decodeTokens, padding |-> meta.padding,
                 slack |-> meta.slack, sparseIndexCache |-> meta.sparseIndexCache]
      /\ meta.padding \in Nat /\ n <= MaxTokens /\ meta.slack \in 0..1
      /\ meta.decodeTokens = n
      /\ \A t \in 1..NumTokens : buf.valid[t] = TRUE
      /\ \A t \in (NumTokens + 1)..n : buf.valid[t] = FALSE
  BY <1>1, <1>3 DEF Meta
<1>5. MaxTokens \in Nat \ {0} /\ NumTokens \in Nat /\ n \in Nat /\ n = NumTokens + meta.padding
      /\ Window \in Nat \ {0}
  BY <1>2, <1>4, StartsIs, Sizes DEF NumRows
<1>6. /\ buf = [valid |-> buf.valid, decode |-> buf.decode, wide |-> buf.wide,
                decodeLens |-> buf.decodeLens, prefill |-> buf.prefill,
                prefillLens |-> buf.prefillLens]
      /\ DOMAIN buf.valid = 1..MaxTokens /\ DOMAIN buf.decode = 1..MaxTokens
      /\ DOMAIN buf.wide = 1..MaxTokens /\ DOMAIN buf.prefill = 1..MaxTokens
      /\ DOMAIN buf.decodeLens = 1..MaxTokens /\ DOMAIN buf.prefillLens = 1..MaxTokens
      /\ \A t \in 1..MaxTokens : /\ Shaped(buf.decode[t], Window)
                                 /\ Shaped(buf.wide[t], NoncausalWidth)
                                 /\ Shaped(buf.prefill[t], IndexWidth)
  BY <1>2 DEF Buffers
<1>7. width = Window
  <2>1. 1 \in 1..MaxTokens
    BY <1>5
  <2>. QED
    BY <1>5, <1>6, <2>1, LenShaped
<1>8. /\ \A t \in 1..NumTokens : toks[t] = Tokens[t]
      /\ \A t \in (NumTokens + 1)..n : toks[t] = Padding
  BY <1>2, <1>4, <1>5, RowsAre
<1> HIDE DEF toks, width, n
<1>9. ASSUME NEW t \in 1..n
      PROVE  /\ t \in 1..MaxTokens
             /\ t \in 1..NumTokens => RowFor(rows[t], Tokens[t])
             /\ t \in (NumTokens + 1)..n => rows[t].len = 0
             /\ Shaped(rows[t].slots, Window)
  <2>1. t \in 1..MaxTokens /\ (t \in 1..NumTokens \/ t \in (NumTokens + 1)..n)
    BY <1>4, <1>5
  <2>2. rows[t] = WindowRow(toks[t], buf.valid[t], Window, Window, FALSE)
    BY <1>4, <1>7
  <2> HIDE DEF rows
  <2>3. CASE t \in 1..NumTokens
    <3>1. rows[t] = WindowRow(Tokens[t], TRUE, Window, Window, FALSE)
      BY <1>4, <1>8, <2>2, <2>3
    <3>2. LET row == WindowRow(Tokens[t], TRUE, Window, Window, FALSE)
          IN  RowFor(row, Tokens[t]) /\ Shaped(row.slots, Window)
      BY <1>3, <2>3, DecodeRow
    <3>3. t \notin (NumTokens + 1)..n
      BY <1>5, <2>3
    <3>. QED
      BY <2>1, <3>1, <3>2, <3>3
  <2>4. CASE t \in (NumTokens + 1)..n
    <3>1. rows[t] = WindowRow(Padding, FALSE, Window, Window, FALSE)
      BY <1>4, <1>8, <2>2, <2>4
    <3>2. t \notin 1..NumTokens
      BY <1>5, <2>4
    <3>. QED
      BY <1>2, <2>1, <2>4, <3>1, <3>2, NoRows
  <2>. QED
    BY <2>1, <2>3, <2>4
<1>10. /\ DOMAIN rows = 1..n /\ DOMAIN Slots(rows) = 1..n /\ DOMAIN Lens(rows) = 1..n
       /\ \A t \in 1..n : Slots(rows)[t] = rows[t].slots /\ Lens(rows)[t] = rows[t].len
  BY <1>4 DEF Slots, Lens
<1> HIDE DEF rows
<1>11. /\ buf'.valid = buf.valid /\ buf'.wide = buf.wide
       /\ buf'.prefill = buf.prefill /\ buf'.prefillLens = buf.prefillLens
       /\ buf'.decode = Over(buf.decode, Slots(rows))
       /\ buf'.decodeLens = Over(buf.decodeLens, Lens(rows))
       /\ buf' = [valid |-> buf'.valid, decode |-> buf'.decode, wide |-> buf'.wide,
                  decodeLens |-> buf'.decodeLens, prefill |-> buf'.prefill,
                  prefillLens |-> buf'.prefillLens]
  <2> DEFINE d == Over(buf.decode, Slots(rows))
             l == Over(buf.decodeLens, Lens(rows))
  <2>1. buf' = [buf EXCEPT !.decode = d, !.decodeLens = l]
    BY <1>1
  <2> HIDE DEF d, l
  <2>2. buf' = [valid |-> buf.valid, decode |-> d, wide |-> buf.wide,
                decodeLens |-> l, prefill |-> buf.prefill, prefillLens |-> buf.prefillLens]
    BY <1>6, <2>1
  <2>. QED
    BY <2>2 DEF d, l
<1>12. ASSUME NEW t \in 1..MaxTokens
       PROVE  /\ buf'.decode[t] = IF t \in 1..n THEN rows[t].slots ELSE buf.decode[t]
              /\ buf'.decodeLens[t] = IF t \in 1..n THEN rows[t].len ELSE buf.decodeLens[t]
  <2>1. \A b : t \in DOMAIN b =>
          /\ Over(b, Slots(rows))[t] = IF t \in 1..n THEN rows[t].slots ELSE b[t]
          /\ Over(b, Lens(rows))[t] = IF t \in 1..n THEN rows[t].len ELSE b[t]
    BY <1>10, Zenon DEF Over
  <2>2. t \in DOMAIN buf.decode /\ t \in DOMAIN buf.decodeLens
    BY <1>6
  <2>. QED
    BY <1>11, <2>1, <2>2
<1>13. NoncausalWidth' = NoncausalWidth /\ IndexWidth' = IndexWidth
  BY <1>1 DEF NoncausalWidth, IndexWidth
<1>14. Buffers'
  <2>1. /\ DOMAIN buf'.valid = 1..MaxTokens /\ DOMAIN buf'.decode = 1..MaxTokens
        /\ DOMAIN buf'.wide = 1..MaxTokens /\ DOMAIN buf'.prefill = 1..MaxTokens
        /\ DOMAIN buf'.decodeLens = 1..MaxTokens /\ DOMAIN buf'.prefillLens = 1..MaxTokens
    BY <1>6, <1>11, OverIs
  <2>2. ASSUME NEW t \in 1..MaxTokens
        PROVE  /\ Shaped(buf'.decode[t], Window) /\ Shaped(buf'.wide[t], NoncausalWidth')
               /\ Shaped(buf'.prefill[t], IndexWidth')
    <3>1. t \in 1..n => Shaped(rows[t].slots, Window)
      BY <1>9
    <3>. QED
      BY <1>6, <1>11, <1>12, <1>13, <3>1
  <2>. QED
    BY <1>11, <2>1, <2>2 DEF Buffers
<1>15. meta' = [decodeTokens |-> meta.decodeTokens, padding |-> meta.padding,
                slack |-> meta.slack, sparseIndexCache |-> None]
  BY <1>1, <1>4
<1>16. /\ meta'.decodeTokens = n /\ meta'.padding = meta.padding /\ meta'.slack = meta.slack
       /\ meta'.sparseIndexCache = None
       /\ meta' = [decodeTokens |-> meta'.decodeTokens, padding |-> meta'.padding,
                   slack |-> meta'.slack, sparseIndexCache |-> meta'.sparseIndexCache]
  BY <1>4, <1>15
<1>17. NumTokens' = NumTokens /\ NumRows' = n
  BY <1>1, <1>5, <1>16, SameBatch DEF NumRows
<1>18. Meta'
  BY <1>1, <1>4, <1>11, <1>16, <1>17 DEF Meta
<1>19. ASSUME NEW t \in 1..n
       PROVE  RowOf(t)'.len = rows[t].len /\ RowOf(t)'.slots = rows[t].slots
  <2>1. t \in 1..MaxTokens /\ t <= n
    BY <1>5, <1>9
  <2>2. RowOf(t)' = [len |-> buf'.decodeLens[t], slots |-> buf'.decode[t]]
    BY <1>1, <1>3, <1>16, <2>1 DEF RowOf
  <2>. QED
    BY <1>12, <2>1, <2>2
<1>20. ASSUME NEW t \in 1..NumTokens PROVE RowFor(RowOf(t), Tokens[t])'
  <2>1. t \in 1..n
    BY <1>4, <1>5
  <2>. QED
    BY <1>1, <1>9, <1>19, <2>1, RowForSame
<1>21. ASSUME NEW t \in (NumTokens + 1)..n PROVE RowOf(t)'.len = 0
  <2>1. t \in 1..n
    BY <1>5
  <2>. QED
    BY <1>9, <1>19, <2>1
<1>22. Built'
  BY <1>16, <1>17, <1>20, <1>21 DEF Built
<1>. QED
  BY <1>14, <1>18, <1>22

-----------------------------------------------------------------------------
(* The forward pass *)

\* The positions a pass inserts have blocks.
LEMMA PassPresent ==
  ASSUME Ready, NEW i \in DOMAIN batch,
         NEW p \in batch[i].from..(batch[i].from + batch[i].q - 1)
  PROVE  p \in Nat /\ Present(batch[i].r, p)
<1>1. Types /\ Batched /\ TargetPass /\ DraftPass /\ Tables /\ phase # "done"
      /\ batch \in Seq(Request)
  BY DEF Ready, Types
<1>2. batch[i].from \in Nat /\ batch[i].q \in Nat
  BY <1>1, RequestIs
<1>3. p \in Nat /\ p - batch[i].from \in 0..(batch[i].q - 1)
      /\ batch[i].from + (p - batch[i].from) = p
  BY <1>2
<1>4. PICK t \in 1..NumTokens : Tokens[t].req = i /\ Tokens[t].offset = p - batch[i].from
  BY <1>1, <1>3, TokenAt
<1>5. Position(Tokens[t]) = p
  BY <1>1, <1>3, <1>4, TokenIs
<1>6. /\ Position(Tokens[t]) \in FirstSeen(Tokens[t])..(EndSeen(Tokens[t]) - 1)
      /\ \A u \in FirstSeen(Tokens[t])..(EndSeen(Tokens[t]) - 1) : Present(batch[i].r, u)
  BY <1>1, <1>4, SeenIs
<1>. QED
  BY <1>3, <1>5, <1>6

\* What a request of the pass holds before its own positions is accepted, or
\* drafted after the accepted ones.
LEMMA HeldBefore ==
  ASSUME Ready, Held, Drafting, NEW i \in DOMAIN batch, NEW p \in Nat,
         Present(batch[i].r, p), p < batch[i].from
  PROVE  kv[Slot(batch[i].r, p)]
           = <<batch[i].r, p, pass # "target" /\ p >= computed[batch[i].r]>>
<1> DEFINE b == batch[i]
           r == b.r
           c == computed[r]
<1>1. Types /\ Batched /\ TargetPass /\ DraftPass /\ phase # "done"
  BY DEF Ready
<1>2. b.from \in Nat /\ r \in Requests /\ setup.drafts \in Nat
  BY <1>1, RequestIs
<1>3. r \in Running
  BY <1>1 DEF Batched
<1>4. c \in Nat
  BY <1>1, <1>2, <1>3 DEF Running, Types
<1>5. p < c => kv[Slot(r, p)] = <<r, p, FALSE>>
  <2>1. p < c => p \in 0..(c - 1)
    BY <1>4
  <2>. QED
    BY <1>3, <2>1 DEF Held
<1>6. pass = "target" => b.from = c
  BY <1>1 DEF TargetPass, ToCompute
<1>7. pass = "dspark" => b.from = c
  <2>1. pass = "dspark" => b.from = c + 0
    BY <1>1 DEF DraftPass, Ahead
  <2>. QED
    BY <1>4, <2>1
<1>8. pass = "mtp" /\ ~(p < c) => kv[Slot(r, p)] = <<r, p, TRUE>>
  <2>1. pass = "mtp" => \A u \in c..(b.from - 1) : kv[Slot(r, u)] = <<r, u, TRUE>>
    BY <1>1 DEF Drafting
  <2> HIDE DEF b, r, c
  <2>2. ~(p < c) => p \in c..(b.from - 1)
    BY <1>2, <1>4 DEF b
  <2>. QED
    BY <2>1, <2>2
<1>9. p < b.from
  OBVIOUS
<1>10. pass \in {"target", "mtp", "dspark"}
  BY <1>1 DEF Types
<1> HIDE DEF b, r, c
<1>11. CASE p < c
  <2>1. ~(p >= c)
    BY <1>4, <1>11
  <2>2. (pass # "target" /\ p >= c) = FALSE
    BY <2>1
  <2>3. kv[Slot(r, p)] = <<r, p, pass # "target" /\ p >= c>>
    BY <1>5, <1>11, <2>2, Zenon
  <2>. QED
    BY <2>3 DEF b, r, c
<1>12. CASE ~(p < c)
  <2>1. p >= c /\ pass = "mtp"
    BY <1>2, <1>4, <1>6, <1>7, <1>9, <1>10, <1>12
  <2>2. (pass # "target" /\ p >= c) = TRUE
    BY <2>1
  <2>3. kv[Slot(r, p)] = <<r, p, pass # "target" /\ p >= c>>
    BY <1>8, <1>12, <2>1, <2>2, Zenon
  <2>. QED
    BY <2>3 DEF b, r, c
<1>. QED
  BY <1>11, <1>12

\* After the pass has inserted its own positions, the slots of what a token is
\* to read hold that, and nobody else's.
LEMMA HeldAfter ==
  ASSUME Ready, Held, Drafting, Owned, NEW n \in Nat, NEW t \in 1..NumTokens,
         NEW p \in FirstSeen(Tokens[t])..(EndSeen(Tokens[t]) - 1)
  PROVE  Inserted(WithPadding(n))[Slot(batch[Tokens[t].req].r, p)]
           = <<batch[Tokens[t].req].r, p,
               pass # "target" /\ p >= computed[batch[Tokens[t].req].r]>>
<1> DEFINE i == Tokens[t].req
           b == batch[i]
           r == b.r
           kept == Inserted(WithPadding(n))
<1>1. Types /\ Typed /\ Batched /\ TargetPass /\ DraftPass /\ Tables /\ phase # "done"
      /\ batch \in Seq(Request)
  BY DEF Ready, Types
<1>2. i \in DOMAIN batch
  BY <1>1, TokenIs
<1>3. b.from \in Nat /\ b.q \in Nat /\ r \in Requests /\ setup.drafts \in Nat
  BY <1>1, <1>2, RequestIs
<1>4. /\ FirstSeen(Tokens[t]) \in Nat /\ EndSeen(Tokens[t]) \in Nat
      /\ EndSeen(Tokens[t]) <= b.from + b.q
      /\ \A u \in FirstSeen(Tokens[t])..(EndSeen(Tokens[t]) - 1) : Present(r, u)
  BY <1>1, SeenIs
<1>5. p \in Nat /\ p < b.from + b.q /\ Present(r, p)
  <2>1. p \in Nat /\ p < EndSeen(Tokens[t])
    BY <1>4
  <2>2. p < b.from + b.q
    BY <1>3, <1>4, <2>1
  <2>. QED
    BY <1>4, <2>1, <2>2
<1>6. \A x, y \in DOMAIN batch : batch[x].r = batch[y].r => x = y
  BY <1>1 DEF Batched
<1>7. \A x \in DOMAIN batch : \A u \in batch[x].from..(batch[x].from + batch[x].q - 1) :
        Present(batch[x].r, u)
  BY PassPresent
<1>8. /\ \A x \in DOMAIN batch : \A u \in batch[x].from..(batch[x].from + batch[x].q - 1) :
           kept[Slot(batch[x].r, u)] = <<batch[x].r, u, pass # "target">>
      /\ \A s \in Requests, u \in Nat :
           (/\ Present(s, u)
            /\ \A x \in DOMAIN batch :
                 batch[x].r = s => u \notin batch[x].from..(batch[x].from + batch[x].q - 1))
           => kept[Slot(s, u)] = kv[Slot(s, u)]
  BY <1>1, <1>6, <1>7, InsertedIs
<1>9. CASE p < b.from
  <2>1. p \notin b.from..(b.from + b.q - 1)
    BY <1>3, <1>9
  <2>2. \A x \in DOMAIN batch :
          batch[x].r = r => p \notin batch[x].from..(batch[x].from + batch[x].q - 1)
    BY <1>2, <1>6, <2>1
  <2>3. kept[Slot(r, p)] = kv[Slot(r, p)]
    BY <1>3, <1>5, <1>8, <2>2
  <2>4. kv[Slot(r, p)] = <<r, p, pass # "target" /\ p >= computed[r]>>
    BY <1>2, <1>5, <1>9, HeldBefore
  <2>. QED
    BY <2>3, <2>4
<1>10. CASE ~(p < b.from)
  <2>1. p \in b.from..(b.from + b.q - 1)
    BY <1>3, <1>5, <1>10
  <2>2. kept[Slot(r, p)] = <<r, p, pass # "target">>
    BY <1>2, <1>8, <2>1
  <2>3. pass # "target" => p >= computed[r]
    <3>1. r \in Running
      BY <1>1, <1>2 DEF Batched
    <3>2. computed[r] \in Nat
      BY <1>1, <1>3, <3>1 DEF Running, Types
    <3>3. pass = "dspark" => b.from = computed[r] + 0
      BY <1>1, <1>2 DEF DraftPass, Ahead
    <3>4. pass = "mtp" => \E k \in 0..(setup.drafts - 2) : b.from = computed[r] + k
      BY <1>1, <1>2 DEF DraftPass, Ahead
    <3>5. pass # "target" => pass = "mtp" \/ pass = "dspark"
      BY <1>1 DEF Types
    <3>. HIDE DEF b, r
    <3>. QED
      BY <1>3, <1>5, <1>10, <3>2, <3>3, <3>4, <3>5
  <2>4. (pass # "target") = (pass # "target" /\ p >= computed[r])
    BY <2>3
  <2>. QED
    BY <2>2, <2>4, Zenon
<1>. QED
  BY <1>9, <1>10

\* A token has read what it was to read, padding nothing.
Seen ==
  phase = "done" =>
    /\ DOMAIN seen = 1..NumRows
    /\ \A t \in 1..NumTokens :
         ReadsExactly(t, FirstSeen(Tokens[t])..(EndSeen(Tokens[t]) - 1))
    /\ \A t \in (NumTokens + 1)..NumRows : seen[t].reads = {}

\* The reads of a row of slots, from what the slots hold.
Reads(held, row) == {held[row.slots[k]] : k \in 1..Smaller(row.len, Len(row.slots))}

\* What the cache holds at positions f to e - 1 of a request.
HeldAt(held, r, f, e) == {held[Slot(r, p)] : p \in f..(e - 1)}

\* The forward pass inserts first and then reads by the rows.
LEMMA ForwardSeen ==
  ASSUME Ready, Meta, Built, Forward
  PROVE  /\ kv' = Inserted(WithPadding(meta.padding))
         /\ DOMAIN seen' = 1..NumRows
         /\ \A t \in 1..NumRows : /\ seen'[t].len = RowOf(t).len
                                  /\ seen'[t].reads = Reads(kv', RowOf(t))
<1> DEFINE toks == WithPadding(meta.padding)
           rows == IF meta.sparseIndexCache # None THEN meta.sparseIndexCache
                                                   ELSE MixedRows(toks)
           width(t) == Smaller(rows[t].len, Len(rows[t].slots))
<1>1. /\ kv' = Inserted(toks) /\ phase = "built"
      /\ seen' = [t \in DOMAIN toks |->
                   [len |-> rows[t].len, reads |-> {kv'[rows[t].slots[k]] : k \in 1..width(t)}]]
  BY DEF Forward
<1>2. batch \in Seq(Request)
  BY DEF Ready, Types
<1>3. meta.sparseIndexCache = None /\ meta.padding \in Nat
  BY <1>1 DEF Built, Meta
<1>4. DOMAIN toks = 1..NumRows
  BY <1>2, <1>3, RowsAre DEF NumRows
<1>5. rows = MixedRows(toks)
  BY <1>3
<1> HIDE DEF toks
<1>6. \A t \in 1..NumRows : rows[t] = RowOf(t)
  BY <1>4, <1>5 DEF MixedRows, RowOf
<1> HIDE DEF rows
<1>7. DOMAIN seen' = 1..NumRows
  BY <1>1, <1>4
<1>8. ASSUME NEW t \in 1..NumRows
      PROVE  seen'[t].len = RowOf(t).len /\ seen'[t].reads = Reads(kv', RowOf(t))
  <2>1. seen'[t] = [len |-> rows[t].len,
                    reads |-> {kv'[rows[t].slots[k]] : k \in 1..width(t)}]
    BY <1>1, <1>4
  <2>2. rows[t] = RowOf(t)
    BY <1>6
  <2>3. {kv'[rows[t].slots[k]] : k \in 1..width(t)} = Reads(kv', rows[t])
    BY DEF Reads
  <2> HIDE DEF width
  <2>4. seen'[t].len = rows[t].len /\ seen'[t].reads = Reads(kv', rows[t])
    BY <2>1, <2>3
  <2>. QED
    BY <2>2, <2>4, Zenon
<1>. QED
  BY <1>1, <1>7, <1>8 DEF toks

\* An interval has as many members as its ends say.
LEMMA Interval ==
  ASSUME NEW f \in Nat, NEW e \in Nat, f < e
  PROVE  Cardinality(f..(e - 1)) = e - f
<1>1. f \in Int /\ e - 1 \in Int /\ ~(f > e - 1) /\ (e - 1) - f + 1 = e - f
  OBVIOUS
<1>2. Cardinality(f..(e - 1)) = (e - 1) - f + 1
  BY <1>1, FS_Interval
<1>. QED
  BY <1>1, <1>2

\* A row made for a token reads the positions the token is to read.
LEMMA ReadsOfRow ==
  ASSUME NEW row, NEW t, RowFor(row, Tokens[t]), NEW held,
         FirstSeen(Tokens[t]) \in Nat, EndSeen(Tokens[t]) \in Nat,
         FirstSeen(Tokens[t]) < EndSeen(Tokens[t])
  PROVE  Reads(held, row)
           = HeldAt(held, batch[Tokens[t].req].r, FirstSeen(Tokens[t]), EndSeen(Tokens[t]))
<1> DEFINE f == FirstSeen(Tokens[t])
           e == EndSeen(Tokens[t])
           r == batch[Tokens[t].req].r
<1>1. /\ row.len = e - f /\ row.len <= Len(row.slots)
      /\ \A k \in 1..row.len : row.slots[k] = Slot(r, f + k - 1)
  BY DEF RowFor
<1>2. f \in Nat /\ e \in Nat /\ f < e
  OBVIOUS
<1> HIDE DEF f, e, r
<1>3. Smaller(row.len, Len(row.slots)) = e - f
  <2>1. e - f <= Len(row.slots)
    BY <1>1
  <2>2. Smaller(e - f, Len(row.slots)) = e - f
    <3>1. CASE e - f < Len(row.slots)
      BY <3>1 DEF Smaller
    <3>2. CASE ~(e - f < Len(row.slots))
      <4>1. e - f = Len(row.slots)
        BY <1>2, <2>1, <3>2
      <4>. QED
        BY <4>1 DEF Smaller
    <3>. QED
      BY <3>1, <3>2
  <2>. QED
    BY <1>1, <2>2
<1>4. Reads(held, row) = {held[row.slots[k]] : k \in 1..(e - f)}
  BY <1>3 DEF Reads
<1>5. ASSUME NEW k \in 1..(e - f)
      PROVE  \E p \in f..(e - 1) : held[row.slots[k]] = held[Slot(r, p)]
  <2>1. f + k - 1 \in f..(e - 1) /\ row.slots[k] = Slot(r, f + k - 1)
    BY <1>1, <1>2
  <2>. QED
    BY <2>1
<1>6. ASSUME NEW p \in f..(e - 1)
      PROVE  \E k \in 1..(e - f) : held[row.slots[k]] = held[Slot(r, p)]
  <2>1. p - f + 1 \in 1..(e - f) /\ f + (p - f + 1) - 1 = p
    BY <1>2
  <2>2. row.slots[p - f + 1] = Slot(r, p)
    BY <1>1, <2>1
  <2>. QED
    BY <2>1, <2>2
<1>7. {held[row.slots[k]] : k \in 1..(e - f)} = {held[Slot(r, p)] : p \in f..(e - 1)}
  BY <1>5, <1>6
<1>8. Reads(held, row) = HeldAt(held, r, f, e)
  BY <1>4, <1>7 DEF HeldAt
<1>. QED
  BY <1>8 DEF f, e, r

\* A forward pass reads, for each token, the KV of exactly its positions.
LEMMA ForwardReads ==
  ASSUME Ready, Held, Drafting, Owned, Meta, Built, Forward
  PROVE  Seen'
<1>1. /\ Types /\ Batched /\ TargetPass /\ DraftPass /\ Tables /\ phase = "built"
      /\ batch \in Seq(Request)
  BY DEF Ready, Types, Forward
<1>2. /\ batch' = batch /\ setup' = setup /\ pass' = pass /\ table' = table /\ phase' = "done"
      /\ meta' = [meta EXCEPT !.sparseIndexCache =
                   IF meta.sparseIndexCache # None THEN meta.sparseIndexCache
                   ELSE MixedRows(WithPadding(meta.padding))]
      /\ pass # "target" => computed' = computed
  BY DEF Forward
<1>3. meta.padding \in Nat /\ meta'.padding = meta.padding /\ NumRows <= MaxTokens
      /\ meta.decodeTokens \in Nat
  BY <1>1, <1>2 DEF Meta
<1>4. NumTokens' = NumTokens /\ Tokens' = Tokens /\ NumRows' = NumRows
  BY <1>2, <1>3, SameBatch DEF NumRows
<1>5. /\ kv' = Inserted(WithPadding(meta.padding))
      /\ DOMAIN seen' = 1..NumRows
      /\ \A t \in 1..NumRows : /\ seen'[t].len = RowOf(t).len
                               /\ seen'[t].reads = Reads(kv', RowOf(t))
  BY ForwardSeen
<1>6. NumTokens \in Nat /\ NumRows \in Nat /\ NumTokens <= NumRows
  BY <1>1, <1>3, StartsIs DEF NumRows
<1>7. ASSUME NEW t \in 1..NumTokens
      PROVE  ReadsExactly(t, FirstSeen(Tokens[t])..(EndSeen(Tokens[t]) - 1))'
  <2> DEFINE f == FirstSeen(Tokens[t])
             e == EndSeen(Tokens[t])
             r == batch[Tokens[t].req].r
  <2>1. FirstSeen(Tokens[t])' = f /\ EndSeen(Tokens[t])' = e
    BY <1>2, <1>4, SameSeen
  <2>2. /\ f \in Nat /\ e \in Nat /\ f < e
    BY <1>1, SeenIs
  <2>3. RowFor(RowOf(t), Tokens[t])
    BY <1>1 DEF Built
  <2>4. Reads(kv', RowOf(t)) = {kv'[Slot(r, p)] : p \in f..(e - 1)}
    <3>1. Reads(kv', RowOf(t)) = HeldAt(kv', r, f, e)
      BY <2>2, <2>3, ReadsOfRow
    <3>. QED
      BY <3>1, Zenon DEF HeldAt
  <2>5. \A p \in f..(e - 1) :
          kv'[Slot(r, p)] = <<r, p, pass # "target" /\ p >= computed[r]>>
    BY <1>3, <1>5, HeldAfter
  <2>6. \A p : (pass # "target" /\ p >= computed[r]) = (pass' # "target" /\ p >= computed'[r])
    BY <1>2
  <2>7. \A p \in f..(e - 1) :
          kv'[Slot(r, p)] = <<r, p, pass' # "target" /\ p >= computed'[r]>>
    BY <2>5, <2>6, Zenon
  <2>8. {kv'[Slot(r, p)] : p \in f..(e - 1)}
          = {<<r, p, pass' # "target" /\ p >= computed'[r]>> : p \in f..(e - 1)}
    BY <2>7, Zenon
  <2>9. t \in 1..NumRows
    BY <1>6
  <2>10. RowOf(t).len = e - f
    BY <2>3 DEF RowFor
  <2>11. seen'[t].len = Cardinality(f..(e - 1))
    BY <1>5, <2>2, <2>9, <2>10, Interval
  <2>12. seen'[t].reads = {<<r, p, pass' # "target" /\ p >= computed'[r]>> : p \in f..(e - 1)}
    BY <1>5, <2>4, <2>8, <2>9
  <2>13. batch'[Tokens'[t].req].r = r
    BY <1>2, <1>4
  <2> HIDE DEF f, e, r
  <2>14. (FirstSeen(Tokens[t])..(EndSeen(Tokens[t]) - 1))' = f..(e - 1)
    BY <2>1
  <2>15. seen'[t].reads
           = {<<batch'[Tokens'[t].req].r, p,
                pass' # "target" /\ p >= computed'[batch'[Tokens'[t].req].r]>> : p \in f..(e - 1)}
    BY <2>12, <2>13
  <2>16. ReadsExactly(t, FirstSeen(Tokens[t])..(EndSeen(Tokens[t]) - 1))'
           <=> /\ seen'[t].len = Cardinality((FirstSeen(Tokens[t])..(EndSeen(Tokens[t]) - 1))')
               /\ seen'[t].reads
                    = {<<batch'[Tokens'[t].req].r, p,
                         pass' # "target" /\ p >= computed'[batch'[Tokens'[t].req].r]>> :
                       p \in (FirstSeen(Tokens[t])..(EndSeen(Tokens[t]) - 1))'}
    BY DEF ReadsExactly
  <2>. QED
    BY <2>11, <2>14, <2>15, <2>16
<1>8. ASSUME NEW t \in (NumTokens + 1)..NumRows PROVE seen'[t].reads = {}
  <2>1. RowOf(t).len = 0 /\ t \in 1..NumRows
    BY <1>1, <1>6 DEF Built
  <2>2. Len(RowOf(t).slots) \in Nat
    <3>1. t \in 1..MaxTokens /\ (~(t <= meta.decodeTokens) => t - meta.decodeTokens \in 1..MaxTokens)
      <4>1. MaxTokens \in Nat
        BY Sizes
      <4>. QED
        BY <1>3, <1>6, <2>1, <4>1
    <3>2. \A u \in 1..MaxTokens : /\ Shaped(buf.decode[u], Window)
                                  /\ Shaped(buf.wide[u], NoncausalWidth)
                                  /\ Shaped(buf.prefill[u], IndexWidth)
      BY <1>1 DEF Types, Buffers
    <3>3. Window \in Nat /\ NoncausalWidth \in Nat /\ IndexWidth \in Nat
      BY <1>1, Widths
    <3>4. \A u \in 1..MaxTokens : /\ Len(buf.decode[u]) \in Nat
                                  /\ Len(buf.wide[u]) \in Nat
                                  /\ Len(buf.prefill[u]) \in Nat
      BY <3>2, <3>3, LenShaped
    <3>5. RowOf(t).slots = IF t <= meta.decodeTokens
                           THEN IF pass = "dspark" THEN buf.wide[t] ELSE buf.decode[t]
                           ELSE buf.prefill[t - meta.decodeTokens]
      BY DEF RowOf
    <3>. QED
      BY <3>1, <3>4, <3>5
  <2>3. Smaller(0, Len(RowOf(t).slots)) = 0
    BY <2>2 DEF Smaller
  <2>4. Reads(kv', RowOf(t)) = {}
    BY <2>1, <2>3 DEF Reads
  <2>. QED
    BY <1>5, <2>1, <2>4
<1>. QED
  BY <1>4, <1>5, <1>7, <1>8 DEF Seen

\* The inductive invariant. WindowExact and its likes speak of the reads once a
\* pass is done; they need the rows that were built to be right (Built), the slots
\* to hold what they should (Held, Drafting), blocks with one owner (Owned), and
\* the tables to cover what the pass reads and writes (Tables, TargetPass,
\* DraftPass).
IInv == /\ Types /\ Owned /\ Tables /\ Held /\ Batched /\ TargetPass /\ DraftPass
        /\ Drafting /\ Meta /\ Built /\ Seen

\* Tables that are kept from m on, or cover up to n, are so for less as well.
LEMMA Weaker ==
  ASSUME Typed, NEW r \in Requests, NEW m \in Int, NEW n \in Int, m <= n
  PROVE  /\ KeptFrom(r, m) => KeptFrom(r, n)
         /\ Covered(r, n) => Covered(r, m)
<1>1. table[r] \in Seq(0..NumBlocks) /\ BlockSize \in Nat \ {0}
  BY Sizes DEF Typed
<1>2. Len(table[r]) \in Nat /\ DOMAIN table[r] = 1..Len(table[r])
  BY <1>1
<1>3. Len(table[r]) * BlockSize \in Nat
  BY <1>1, <1>2, Multiples
<1>4. \A i \in DOMAIN table[r] : i * BlockSize \in Nat
  BY <1>1, <1>2, Multiples
<1>5. KeptFrom(r, m) => KeptFrom(r, n)
  BY <1>4 DEF KeptFrom
<1>6. Covered(r, n) => Covered(r, m)
  BY <1>3 DEF Covered
<1>. QED
  BY <1>5, <1>6

\* What a decode, a row's width and an image is depends on the setup alone.
LEMMA SameRules ==
  ASSUME setup' = setup
  PROVE  /\ DecodeThreshold' = DecodeThreshold /\ IndexWidth' = IndexWidth
         /\ NoncausalWidth' = NoncausalWidth
         /\ \A b : IsDecode(b)' = IsDecode(b)
         /\ \A r : ImagesOf(r)' = ImagesOf(r)
<1>1. DecodeThreshold' = DecodeThreshold
  BY DEF DecodeThreshold
<1>. QED
  BY <1>1 DEF IndexWidth, NoncausalWidth, IsDecode, ImagesOf

\* Whose block is whose depends on the tables alone.
LEMMA SameTables ==
  ASSUME table' = table
  PROVE  /\ Owned' = Owned
         /\ \A r, m : KeptFrom(r, m)' = KeptFrom(r, m) /\ Covered(r, m)' = Covered(r, m)
<1>1. Owned' = Owned
  BY DEF Owned
<1>2. \A r, m : KeptFrom(r, m)' = KeptFrom(r, m)
  BY DEF KeptFrom
<1>3. \A r, m : Covered(r, m)' = Covered(r, m)
  BY DEF Covered
<1>. QED
  BY <1>1, <1>2, <1>3

\* Buffers that are not written keep their shapes.
LEMMA SameBuffers ==
  ASSUME Buffers, buf' = buf, setup' = setup
  PROVE  Buffers'
<1>1. IndexWidth' = IndexWidth /\ NoncausalWidth' = NoncausalWidth
  BY SameRules
<1>. QED
  BY <1>1 DEF Buffers

\* How far the target's pass gets.
LEMMA ForwardComputed ==
  ASSUME Ready, Forward
  PROVE  /\ computed' \in [Requests -> -1..MaxModelLen] /\ Running' = Running
         /\ pass # "target" => computed' = computed
         /\ pass = "target" =>
              /\ \A i \in DOMAIN batch :
                   /\ batch[i].from = computed[batch[i].r]
                   /\ computed'[batch[i].r]
                        \in (batch[i].from + 1)..(batch[i].from + batch[i].q)
              /\ \A r \in Requests :
                   (\A i \in DOMAIN batch : batch[i].r # r) => computed'[r] = computed[r]
<1>1. /\ Types /\ Batched /\ TargetPass /\ phase = "built"
      /\ computed \in [Requests -> -1..MaxModelLen] /\ MaxModelLen \in Nat
  BY Sizes DEF Ready, Types, Forward
<1>2. CASE pass # "target"
  <2>1. computed' = computed
    BY <1>2 DEF Forward
  <2>2. Running' = Running
    BY <2>1 DEF Running
  <2>. QED
    BY <1>1, <1>2, <2>1, <2>2
<1>3. CASE pass = "target"
  <2>1. PICK accepted \in [DOMAIN batch -> 1..MaxTokens] :
          /\ \A i \in DOMAIN batch : accepted[i] <= batch[i].q
          /\ computed' = [r \in Requests |->
               IF \E i \in DOMAIN batch : batch[i].r = r
               THEN LET i == CHOOSE i \in DOMAIN batch : batch[i].r = r
                    IN  batch[i].from + accepted[i]
               ELSE computed[r]]
    BY <1>3 DEF Forward
  <2>2. ASSUME NEW i \in DOMAIN batch
        PROVE  /\ batch[i].from = computed[batch[i].r] /\ batch[i].r \in Running
               /\ computed'[batch[i].r] \in (batch[i].from + 1)..(batch[i].from + batch[i].q)
               /\ batch[i].from \in Nat /\ batch[i].from + batch[i].q <= MaxModelLen
               /\ batch[i].r \in Requests /\ batch[i].q \in Nat
    <3>1. batch[i].r \in Requests /\ batch[i].from \in Nat /\ batch[i].q \in Nat
      BY <1>1, RequestIs
    <3>2. Scheduled(batch[i]) /\ ToCompute(batch[i])
      BY <1>1, <1>3 DEF TargetPass
    <3>3. batch[i].from = computed[batch[i].r] /\ batch[i].from + batch[i].q <= MaxModelLen
      BY <3>2 DEF Scheduled, ToCompute
    <3>4. batch[i].r \in Running
      BY <1>1 DEF Batched
    <3> DEFINE j == CHOOSE j \in DOMAIN batch : batch[j].r = batch[i].r
    <3>5. j \in DOMAIN batch /\ batch[j].r = batch[i].r
      OBVIOUS
    <3>6. computed'[batch[i].r] = batch[j].from + accepted[j]
      BY <2>1, <3>1
    <3>7. j = i
      BY <1>1, <3>5, Zenon DEF Batched
    <3> HIDE DEF j
    <3>8. computed'[batch[i].r] = batch[i].from + accepted[i]
      BY <3>6, <3>7, Zenon
    <3>9. accepted[i] \in 1..MaxTokens /\ accepted[i] <= batch[i].q
      BY <2>1
    <3>10. MaxTokens \in Nat
      BY Sizes
    <3>11. batch[i].from + accepted[i] \in (batch[i].from + 1)..(batch[i].from + batch[i].q)
      BY <3>1, <3>9, <3>10
    <3>. QED
      BY <3>1, <3>3, <3>4, <3>8, <3>11
  <2>3. ASSUME NEW r \in Requests, \A i \in DOMAIN batch : batch[i].r # r
        PROVE  computed'[r] = computed[r]
    BY <2>1, <2>3
  <2>4. ASSUME NEW r \in Requests
        PROVE  computed'[r] \in -1..MaxModelLen /\ (computed'[r] >= 0 <=> computed[r] >= 0)
    <3>1. CASE \A i \in DOMAIN batch : batch[i].r # r
      BY <1>1, <2>3, <3>1
    <3>2. CASE \E i \in DOMAIN batch : batch[i].r = r
      <4>1. PICK i \in DOMAIN batch : batch[i].r = r
        BY <3>2
      <4>. QED
        BY <1>1, <2>2, <4>1
    <3>. QED
      BY <3>1, <3>2
  <2>5. computed' = [r \in Requests |-> computed'[r]]
    BY <2>1
  <2>6. computed' \in [Requests -> -1..MaxModelLen]
    BY <2>4, <2>5
  <2>7. Running' = Running
    BY <2>4 DEF Running
  <2>. QED
    BY <1>3, <2>2, <2>3, <2>6, <2>7
<1>. QED
  BY <1>2, <1>3

\* The positions the pass inserts, and what becomes of the others.
LEMMA ForwardKept ==
  ASSUME Ready, Owned, Meta, Built, Forward
  PROVE  /\ DOMAIN kv' = DOMAIN kv
         /\ \A i \in DOMAIN batch : \A p \in batch[i].from..(batch[i].from + batch[i].q - 1) :
              kv'[Slot(batch[i].r, p)] = <<batch[i].r, p, pass # "target">>
         /\ \A r \in Requests, p \in Nat :
              (Present(r, p) /\ \A i \in DOMAIN batch : batch[i].r # r)
              => kv'[Slot(r, p)] = kv[Slot(r, p)]
         /\ \A i \in DOMAIN batch, p \in Nat :
              (Present(batch[i].r, p) /\ p < batch[i].from)
              => kv'[Slot(batch[i].r, p)] = kv[Slot(batch[i].r, p)]
<1>1. /\ Types /\ Typed /\ Batched /\ phase = "built" /\ batch \in Seq(Request)
  BY DEF Ready, Types, Forward
<1>2. kv' = Inserted(WithPadding(meta.padding))
  BY ForwardSeen
<1>3. meta.padding \in Nat
  BY <1>1 DEF Meta
<1>4. \A x, y \in DOMAIN batch : batch[x].r = batch[y].r => x = y
  BY <1>1 DEF Batched
<1>5. \A x \in DOMAIN batch : \A u \in batch[x].from..(batch[x].from + batch[x].q - 1) :
        Present(batch[x].r, u)
  BY PassPresent
<1>6. /\ DOMAIN kv' = DOMAIN kv
      /\ \A x \in DOMAIN batch : \A u \in batch[x].from..(batch[x].from + batch[x].q - 1) :
           kv'[Slot(batch[x].r, u)] = <<batch[x].r, u, pass # "target">>
      /\ \A s \in Requests, u \in Nat :
           (/\ Present(s, u)
            /\ \A x \in DOMAIN batch :
                 batch[x].r = s => u \notin batch[x].from..(batch[x].from + batch[x].q - 1))
           => kv'[Slot(s, u)] = kv[Slot(s, u)]
  BY <1>1, <1>2, <1>3, <1>4, <1>5, InsertedIs
<1>7. ASSUME NEW i \in DOMAIN batch, NEW p \in Nat, Present(batch[i].r, p), p < batch[i].from
      PROVE  kv'[Slot(batch[i].r, p)] = kv[Slot(batch[i].r, p)]
  <2>1. batch[i].from \in Nat /\ batch[i].q \in Nat /\ batch[i].r \in Requests
    BY <1>1, RequestIs
  <2>2. p \notin batch[i].from..(batch[i].from + batch[i].q - 1)
    BY <1>7, <2>1
  <2>3. \A x \in DOMAIN batch : batch[x].r = batch[i].r
          => p \notin batch[x].from..(batch[x].from + batch[x].q - 1)
    BY <1>4, <2>2
  <2>. QED
    BY <1>6, <1>7, <2>1, <2>3
<1>8. ASSUME NEW r \in Requests, NEW p \in Nat, Present(r, p),
             \A i \in DOMAIN batch : batch[i].r # r
      PROVE  kv'[Slot(r, p)] = kv[Slot(r, p)]
  BY <1>6, <1>8
<1>. QED
  BY <1>6, <1>7, <1>8

\* After a pass the accepted positions hold their own KV.
LEMMA ForwardHeld ==
  ASSUME Ready, Owned, Held, Meta, Built, Forward
  PROVE  Held'
<1>1. /\ Types /\ Batched /\ DraftPass /\ Running' = Running
      /\ computed \in [Requests -> -1..MaxModelLen]
      /\ table' = table
  BY ForwardComputed DEF Ready, Types, Forward
<1>2. SUFFICES ASSUME NEW r \in Running, NEW p \in 0..(computed'[r] - 1), Present(r, p)
               PROVE  kv'[Slot(r, p)] = <<r, p, FALSE>>
  BY <1>1, SameTable DEF Held
<1>3. r \in Requests /\ computed[r] \in Nat /\ computed'[r] \in Int /\ p \in Nat
      /\ p < computed'[r]
  BY <1>1, ForwardComputed DEF Running
<1>4. p < computed[r] => kv[Slot(r, p)] = <<r, p, FALSE>>
  <2>1. p < computed[r] => p \in 0..(computed[r] - 1)
    BY <1>3
  <2>. QED
    BY <1>2, <2>1 DEF Held
<1>5. CASE \A i \in DOMAIN batch : batch[i].r # r
  <2>1. computed'[r] = computed[r]
    BY <1>3, <1>5, ForwardComputed
  <2>2. kv'[Slot(r, p)] = kv[Slot(r, p)]
    BY <1>2, <1>3, <1>5, ForwardKept
  <2>. QED
    BY <1>3, <1>4, <2>1, <2>2
<1>6. CASE \E i \in DOMAIN batch : batch[i].r = r
  <2>1. PICK i \in DOMAIN batch : batch[i].r = r
    BY <1>6
  <2>2. batch[i].from \in Nat /\ batch[i].q \in Nat
    BY <1>1, RequestIs
  <2>3. pass # "target" => computed[r] <= batch[i].from
    <3>1. pass = "dspark" => batch[i].from = computed[r] + 0
      BY <1>1, <2>1 DEF DraftPass, Ahead
    <3>2. pass = "mtp" => \E k \in 0..(setup.drafts - 2) : batch[i].from = computed[r] + k
      BY <1>1, <2>1 DEF DraftPass, Ahead
    <3>3. pass # "target" => pass = "mtp" \/ pass = "dspark"
      BY <1>1 DEF Types
    <3>4. setup.drafts \in Nat
      BY <1>1, RequestIs
    <3>. QED
      BY <1>3, <2>2, <3>1, <3>2, <3>3, <3>4
  <2>4. CASE p < batch[i].from
    <3>1. p < computed[r]
      BY <1>3, <2>1, <2>4, ForwardComputed
    <3>2. kv'[Slot(r, p)] = kv[Slot(r, p)]
      BY <1>2, <1>3, <2>1, <2>4, ForwardKept
    <3>. QED
      BY <1>4, <3>1, <3>2
  <2>5. CASE ~(p < batch[i].from)
    <3>1. pass = "target" /\ p < batch[i].from + batch[i].q
      BY <1>3, <2>1, <2>2, <2>3, <2>5, ForwardComputed
    <3>2. p \in batch[i].from..(batch[i].from + batch[i].q - 1)
      BY <1>3, <2>2, <2>5, <3>1
    <3>3. kv'[Slot(batch[i].r, p)] = <<batch[i].r, p, pass # "target">>
      BY <3>2, ForwardKept
    <3>4. (pass # "target") = FALSE
      BY <3>1
    <3>. QED
      BY <2>1, <3>3, <3>4, Zenon
  <2>. QED
    BY <2>4, <2>5
<1>. QED
  BY <1>5, <1>6

\* And the drafted ones what the drafter inserted.
LEMMA ForwardDrafting ==
  ASSUME Ready, Owned, Drafting, Meta, Built, Forward
  PROVE  Drafting'
<1>1. /\ Types /\ Typed /\ Batched /\ DraftPass /\ phase = "built" /\ phase' = "done"
      /\ batch' = batch /\ pass' = pass /\ table' = table
      /\ computed \in [Requests -> -1..MaxModelLen]
  BY DEF Ready, Types, Forward
<1>2. SUFFICES ASSUME pass = "mtp", NEW i \in DOMAIN batch,
                      NEW p \in computed[batch[i].r]..batch[i].from
               PROVE  kv'[Slot(batch[i].r, p)] = <<batch[i].r, p, TRUE>>
  <2>1. pass # "target" => computed' = computed
    BY ForwardComputed
  <2>2. \A r, p : Slot(r, p)' = Slot(r, p)
    BY <1>1, SameTable
  <2>. QED
    BY <1>1, <2>1, <2>2 DEF Drafting
<1>3. batch[i].from \in Nat /\ batch[i].q \in Nat /\ batch[i].r \in Requests
      /\ setup.drafts \in Nat
  BY <1>1, RequestIs
<1>4. batch[i].r \in Running
  BY <1>1 DEF Batched
<1>5. computed[batch[i].r] \in Nat
  BY <1>1, <1>3, <1>4 DEF Running
<1>6. ToDraft(batch[i]) /\ \E k \in 0..(setup.drafts - 2) : batch[i].from = computed[batch[i].r] + k
  BY <1>1, <1>2 DEF DraftPass, Ahead
<1>7. batch[i].q = 1 /\ KeptFrom(batch[i].r, computed[batch[i].r] - Window)
      /\ Covered(batch[i].r, computed[batch[i].r] + setup.drafts)
  BY <1>2, <1>6 DEF ToDraft
<1>8. p \in Nat
  BY <1>3, <1>5
<1>9. CASE p < batch[i].from
  <2>1. kv[Slot(batch[i].r, p)] = <<batch[i].r, p, TRUE>>
    <3>1. p \in computed[batch[i].r]..(batch[i].from - 1)
      BY <1>3, <1>5, <1>9
    <3>2. phase # "done"
      BY <1>1
    <3>. QED
      BY <1>2, <3>1, <3>2 DEF Drafting
  <2>2. Present(batch[i].r, p)
    <3>1. /\ computed[batch[i].r] - Window \in Int /\ computed[batch[i].r] + setup.drafts \in Int
          /\ computed[batch[i].r] - Window <= p /\ p < computed[batch[i].r] + setup.drafts
      <4>1. Window \in Nat
        BY Sizes
      <4>. QED
        BY <1>3, <1>5, <1>6, <1>9, <4>1
    <3>. QED
      BY <1>1, <1>3, <1>7, <1>8, <3>1, IsPresent
  <2>3. kv'[Slot(batch[i].r, p)] = kv[Slot(batch[i].r, p)]
    BY <1>8, <1>9, <2>2, ForwardKept
  <2>. QED
    BY <2>1, <2>3
<1>10. CASE ~(p < batch[i].from)
  <2>1. p \in batch[i].from..(batch[i].from + batch[i].q - 1)
    BY <1>3, <1>5, <1>7, <1>10
  <2>2. kv'[Slot(batch[i].r, p)] = <<batch[i].r, p, pass # "target">>
    BY <2>1, ForwardKept
  <2>3. (pass # "target") = TRUE
    BY <1>2
  <2>. QED
    BY <2>2, <2>3, Zenon
<1>. QED
  BY <1>9, <1>10

\* The forward pass keeps the invariant.
LEMMA ForwardStep ==
  ASSUME IInv, Forward
  PROVE  IInv'
<1>1. /\ Types /\ Typed /\ Owned /\ Tables /\ Held /\ Batched /\ TargetPass /\ DraftPass
      /\ Drafting /\ Meta /\ Built /\ phase = "built"
  BY DEF IInv, Types, Forward
<1>2. Ready
  BY <1>1 DEF Ready
<1>3. /\ setup' = setup /\ table' = table /\ pass' = pass /\ batch' = batch /\ buf' = buf
      /\ phase' = "done"
      /\ meta' = [meta EXCEPT !.sparseIndexCache =
                   IF meta.sparseIndexCache # None THEN meta.sparseIndexCache
                   ELSE MixedRows(WithPadding(meta.padding))]
  BY DEF Forward
<1>4. /\ computed' \in [Requests -> -1..MaxModelLen] /\ Running' = Running
      /\ pass # "target" => computed' = computed
      /\ pass = "target" =>
           /\ \A i \in DOMAIN batch :
                /\ batch[i].from = computed[batch[i].r]
                /\ computed'[batch[i].r]
                     \in (batch[i].from + 1)..(batch[i].from + batch[i].q)
           /\ \A r \in Requests :
                (\A i \in DOMAIN batch : batch[i].r # r) => computed'[r] = computed[r]
  BY <1>2, ForwardComputed
<1>5. /\ \A r, m : KeptFrom(r, m)' = KeptFrom(r, m) /\ Covered(r, m)' = Covered(r, m)
      /\ Owned' = Owned
  BY <1>3, SameTables
<1>6. DOMAIN kv' = DOMAIN kv
  BY <1>1, <1>2, ForwardKept
<1>7. Types'
  <2>1. Typed'
    BY <1>1, <1>3, <1>6 DEF Typed
  <2>2. Buffers'
    BY <1>1, <1>3, SameBuffers DEF Types
  <2>3. setup' \in Setups /\ pass' \in {"target", "mtp", "dspark"} /\ batch' \in Seq(Request)
        /\ phase' \in {"batch", "built", "done", "advanced"}
    BY <1>1, <1>3 DEF Types
  <2>. QED
    BY <1>4, <2>1, <2>2, <2>3 DEF Types
<1>8. ASSUME NEW i \in DOMAIN batch, pass = "target"
      PROVE  /\ Scheduled(batch[i]) /\ Scheduled(batch[i])'
             /\ computed'[batch[i].r] \in (batch[i].from + 1)..(batch[i].from + batch[i].q)
             /\ KeptFrom(batch[i].r, computed'[batch[i].r] - Window)
             /\ Covered(batch[i].r, Smaller(computed'[batch[i].r] + setup.drafts, MaxModelLen))
             /\ Covered(batch[i].r, computed'[batch[i].r])
  <2> DEFINE r == batch[i].r
             a == batch[i].from
             q == batch[i].q
             c == computed'[r]
             d == setup.drafts
  <2>1. r \in Requests /\ a \in Nat /\ q \in Nat /\ d \in Nat
    BY <1>1, RequestIs
  <2>2. Window \in Nat /\ MaxModelLen \in Nat
    BY Sizes
  <2>3. c \in (a + 1)..(a + q) /\ a = computed[r]
    BY <1>4, <1>8
  <2>4. r \in Running
    BY <1>1 DEF Batched
  <2>5. KeptFrom(r, computed[r] - Window + 1)
    BY <1>1, <2>4 DEF Tables
  <2>6. Scheduled(batch[i]) /\ ToCompute(batch[i])
    BY <1>1, <1>8 DEF TargetPass
  <2>7. a + q <= MaxModelLen
    BY <2>6 DEF Scheduled
  <2>8. Covered(r, Smaller(a + q + d, MaxModelLen))
    BY <2>6 DEF ToCompute
  <2>9. Scheduled(batch[i])'
    BY <1>3, <2>6 DEF Scheduled, ImagesOf
  <2> HIDE DEF r, a, q, c, d
  <2>10. KeptFrom(r, c - Window)
    <3>1. computed[r] - Window + 1 \in Int /\ c - Window \in Int
          /\ computed[r] - Window + 1 <= c - Window
      BY <2>1, <2>2, <2>3
    <3>. QED
      BY <1>1, <2>1, <2>5, <3>1, Weaker
  <2>11. /\ Smaller(a + q + d, MaxModelLen) \in Int /\ Smaller(c + d, MaxModelLen) \in Int
         /\ Smaller(c + d, MaxModelLen) <= Smaller(a + q + d, MaxModelLen)
         /\ c \in Int /\ c <= Smaller(a + q + d, MaxModelLen)
    BY <2>1, <2>2, <2>3, <2>7 DEF Smaller
  <2>12. Covered(r, Smaller(c + d, MaxModelLen)) /\ Covered(r, c)
    BY <1>1, <2>1, <2>8, <2>11, Weaker
  <2>. QED
    BY <2>3, <2>6, <2>9, <2>10, <2>12 DEF r, a, q, c, d
<1>9. Tables'
  <2>. SUFFICES ASSUME NEW r \in Running
                PROVE  Covered(r, computed'[r]) /\ KeptFrom(r, computed'[r] - Window + 1)
    BY <1>4, <1>5 DEF Tables
  <2>1. Covered(r, computed[r]) /\ KeptFrom(r, computed[r] - Window + 1) /\ r \in Requests
    BY <1>1 DEF Tables, Running
  <2>2. CASE computed'[r] = computed[r]
    BY <2>1, <2>2
  <2>3. CASE computed'[r] # computed[r]
    <3>1. PICK i \in DOMAIN batch : batch[i].r = r /\ pass = "target"
      BY <1>4, <2>1, <2>3
    <3>2. Covered(r, computed'[r]) /\ KeptFrom(r, computed'[r] - Window)
      BY <1>8, <3>1
    <3>3. computed'[r] - Window \in Int /\ computed'[r] - Window <= computed'[r] - Window + 1
          /\ computed'[r] - Window + 1 \in Int
      BY <1>4, <2>1, Sizes
    <3>. QED
      BY <1>1, <2>1, <3>2, <3>3, Weaker
  <2>. QED
    BY <2>2, <2>3
<1>10. TargetPass'
  <2>1. ASSUME pass = "target", NEW i \in DOMAIN batch
        PROVE  Scheduled(batch[i])' /\ Accepted(batch[i])'
    <3>1. Accepted(batch[i])'
      BY <1>3, <1>5, <1>8, <2>1 DEF Accepted
    <3>. QED
      BY <1>8, <2>1, <3>1
  <2>. QED
    BY <1>3, <2>1 DEF TargetPass
<1>11. DraftPass'
  <2>1. ASSUME pass # "target" PROVE computed' = computed
    BY <1>4, <2>1
  <2>2. ASSUME pass # "target", NEW i \in DOMAIN batch PROVE ToDraft(batch[i])'
    <3>1. ToDraft(batch[i])
      BY <1>1, <2>2 DEF DraftPass
    <3>. QED
      BY <1>3, <1>5, <2>1, <2>2, <3>1 DEF ToDraft
  <2>3. ASSUME pass # "target", NEW k, Ahead(k) PROVE Ahead(k)'
    BY <1>3, <2>1, <2>3 DEF Ahead
  <2>. QED
    BY <1>1, <1>3, <2>2, <2>3 DEF DraftPass
<1>12. Batched'
  <2>1. Sorted'
    BY <1>1, <1>3, SameRules DEF Batched, Sorted
  <2>2. NumTokens' = NumTokens
    BY <1>3, SameBatch
  <2>. QED
    BY <1>1, <1>3, <1>4, <2>1, <2>2 DEF Batched
<1>13. Meta'
  <2>1. /\ meta = [decodeTokens |-> meta.decodeTokens, padding |-> meta.padding,
                   slack |-> meta.slack, sparseIndexCache |-> meta.sparseIndexCache]
        /\ meta.padding \in Nat /\ NumRows <= MaxTokens /\ meta.slack \in 0..1
        /\ meta.decodeTokens \in Nat
        /\ pass = "mtp" => /\ meta.decodeTokens = NumRows
                           /\ \A t \in 1..NumTokens : buf.valid[t] = TRUE
                           /\ \A t \in (NumTokens + 1)..NumRows : buf.valid[t] = FALSE
    BY <1>1 DEF Meta
  <2>2. /\ meta'.decodeTokens = meta.decodeTokens /\ meta'.padding = meta.padding
        /\ meta'.slack = meta.slack
        /\ meta' = [decodeTokens |-> meta'.decodeTokens, padding |-> meta'.padding,
                    slack |-> meta'.slack, sparseIndexCache |-> meta'.sparseIndexCache]
    BY <1>3, <2>1
  <2>3. NumTokens' = NumTokens /\ NumRows' = NumRows
    BY <1>3, <2>2, SameBatch DEF NumRows
  <2>. QED
    BY <1>3, <2>1, <2>2, <2>3 DEF Meta
<1>14. Built'
  BY <1>3 DEF Built
<1>15. Held' /\ Drafting' /\ Seen'
  BY <1>1, <1>2, ForwardHeld, ForwardDrafting, ForwardReads
<1>. QED
  BY <1>1, <1>5, <1>7, <1>9, <1>10, <1>11, <1>12, <1>13, <1>14, <1>15 DEF IInv

\* Making metadata changes nothing but the buffers.
LEMMA MetadataStep ==
  ASSUME IInv, UNCHANGED <<engine, kv, pass, batch, seen>>,
         phase \in {"batch", "advanced"}, phase' = "built", batch # << >>,
         Buffers', Meta', Built'
  PROVE  IInv'
<1>1. /\ Types /\ Typed /\ Owned /\ Tables /\ Held /\ Batched /\ TargetPass /\ DraftPass
      /\ Drafting
  BY DEF IInv, Types
<1>2. /\ setup' = setup /\ computed' = computed /\ table' = table /\ kv' = kv
      /\ pass' = pass /\ batch' = batch
  BY DEF engine
<1>3. /\ \A r, m : KeptFrom(r, m)' = KeptFrom(r, m) /\ Covered(r, m)' = Covered(r, m)
      /\ Owned' = Owned /\ Running' = Running
  BY <1>2, SameTables DEF Running
<1>4. /\ \A r : ImagesOf(r)' = ImagesOf(r)
      /\ \A r, p : Slot(r, p)' = Slot(r, p) /\ Present(r, p)' = Present(r, p)
  BY <1>2, SameRules, SameTable
<1>5. Types'
  BY <1>1, <1>2 DEF Types, Typed
<1>6. Tables' /\ Held'
  BY <1>1, <1>2, <1>3, <1>4 DEF Tables, Held
<1>7. Batched'
  <2>1. Sorted' /\ NumTokens' = NumTokens
    BY <1>1, <1>2, SameRules, SameBatch DEF Batched, Sorted
  <2>. QED
    BY <1>1, <1>2, <1>3, <2>1 DEF Batched
<1>8. TargetPass'
  <2>1. ASSUME pass = "target", NEW i \in DOMAIN batch
        PROVE  Scheduled(batch[i])' /\ ToCompute(batch[i])'
    <3>1. Scheduled(batch[i]) /\ ToCompute(batch[i])
      BY <1>1, <2>1 DEF TargetPass
    <3>. QED
      BY <1>2, <1>3, <1>4, <3>1 DEF Scheduled, ToCompute
  <2>. QED
    BY <1>2, <2>1 DEF TargetPass
<1>9. DraftPass'
  <2>1. ASSUME pass # "target", NEW i \in DOMAIN batch PROVE ToDraft(batch[i])'
    <3>1. ToDraft(batch[i])
      BY <1>1, <2>1 DEF DraftPass
    <3>. QED
      BY <1>2, <1>3, <3>1 DEF ToDraft
  <2>2. ASSUME NEW k, Ahead(k) PROVE Ahead(k)'
    BY <1>2, <2>2 DEF Ahead
  <2>. QED
    BY <1>1, <1>2, <2>1, <2>2 DEF DraftPass
<1>10. Drafting'
  <2>1. phase # "done" /\ phase' # "done"
    OBVIOUS
  <2>2. ASSUME pass = "mtp", NEW i \in DOMAIN batch,
               NEW p \in computed[batch[i].r]..(batch[i].from - 1)
        PROVE  kv[Slot(batch[i].r, p)] = <<batch[i].r, p, TRUE>>
    BY <1>1, <2>1, <2>2 DEF Drafting
  <2>. QED
    BY <1>2, <1>4, <2>1, <2>2 DEF Drafting
<1>11. Seen'
  BY DEF Seen
<1>. QED
  BY <1>1, <1>3, <1>5, <1>6, <1>7, <1>8, <1>9, <1>10, <1>11 DEF IInv

\* Building the metadata keeps it.
LEMMA BuildKeeps ==
  ASSUME IInv, NEW slack \in 0..1, Build(slack)
  PROVE  IInv'
<1>1. Ready
  BY DEF IInv, Ready, Build
<1>2. Buffers' /\ Meta' /\ Built'
  BY <1>1, BuildStep
<1>3. /\ UNCHANGED <<engine, kv, pass, batch, seen>> /\ phase = "batch" /\ phase' = "built"
      /\ batch # << >>
  BY DEF Build
<1>. QED
  BY <1>2, <1>3, MetadataStep

\* Updating the metadata of a draft keeps it.
LEMMA UpdateKeeps ==
  ASSUME IInv, UpdateDraft
  PROVE  IInv'
<1>1. Ready /\ Meta
  BY DEF IInv, Ready, UpdateDraft
<1>2. Buffers' /\ Meta' /\ Built'
  BY <1>1, UpdateStep
<1>3. /\ UNCHANGED <<engine, kv, pass, batch, seen>> /\ phase = "advanced"
      /\ phase' = "built"
  BY DEF UpdateDraft
<1>4. batch # << >>
  BY <1>1, <1>3 DEF Ready, Batched
<1>. QED
  BY <1>2, <1>3, <1>4, MetadataStep

\* A pass after the target's, for the same requests.
LEMMA AdvanceStep ==
  ASSUME IInv, AdvanceDraft
  PROVE  IInv'
<1>1. /\ Types /\ Typed /\ Owned /\ Tables /\ Held /\ Batched /\ DraftPass
      /\ Drafting /\ Meta
  BY DEF IInv, Types
<1>2. /\ setup' = setup /\ computed' = computed /\ table' = table /\ kv' = kv /\ pass' = pass
      /\ buf' = buf /\ meta' = meta /\ phase = "done" /\ pass = "mtp" /\ phase' = "advanced"
      /\ batch' = [i \in DOMAIN batch |-> [batch[i] EXCEPT !.from = @ + 1]]
      /\ Drafted < setup.drafts - 1
  BY DEF AdvanceDraft, engine, MoreDrafts
<1>3. /\ \A r, m : KeptFrom(r, m)' = KeptFrom(r, m) /\ Covered(r, m)' = Covered(r, m)
      /\ Owned' = Owned /\ Running' = Running
  BY <1>2, SameTables DEF Running
<1>4. /\ \A r, p : Slot(r, p)' = Slot(r, p) /\ Present(r, p)' = Present(r, p)
      /\ \A b : IsDecode(b)' = IsDecode(b)
  BY <1>2, SameRules, SameTable
<1>5. /\ batch \in Seq(Request) /\ Len(batch) \in Nat /\ DOMAIN batch = 1..Len(batch)
      /\ \A i \in DOMAIN batch :
           /\ batch[i] \in Request /\ batch[i].r \in Requests /\ batch[i].from \in Nat
           /\ batch[i].q \in Nat \ {0} /\ setup.drafts \in Nat
  BY <1>1, RequestIs, StartsIs DEF Types
<1>6. batch # << >> /\ 1 \in DOMAIN batch
  <2>1. batch # << >>
    BY <1>1, <1>2 DEF DraftPass
  <2>. QED
    BY <1>5, <2>1
<1>7. PICK k \in 0..(setup.drafts - 2) : Ahead(k)
  BY <1>1, <1>2 DEF DraftPass
<1>8. ASSUME NEW i \in DOMAIN batch
      PROVE  /\ batch[i].from = computed[batch[i].r] + k /\ computed[batch[i].r] \in Nat
             /\ ToDraft(batch[i]) /\ computed[batch[i].r] + setup.drafts <= MaxModelLen
             /\ batch[i].q = 1
  <2>1. batch[i].from = computed[batch[i].r] + k
    BY <1>7 DEF Ahead
  <2>2. ToDraft(batch[i]) /\ batch[i].r \in Running
    BY <1>1, <1>2 DEF DraftPass, Batched
  <2>. QED
    BY <1>1, <1>2, <2>1, <2>2 DEF ToDraft, Running, Types
<1>9. k + 1 \in 0..(setup.drafts - 2)
  <2>1. Drafted = batch[1].from - computed[batch[1].r] + 1
    BY DEF Drafted
  <2>2. batch[1].from = computed[batch[1].r] + k /\ computed[batch[1].r] \in Nat
    BY <1>6, <1>8
  <2>. QED
    BY <1>2, <1>5, <1>6, <2>1, <2>2
<1>10. /\ DOMAIN batch' = DOMAIN batch /\ Len(batch') = Len(batch)
       /\ batch' \in Seq(Request)
       /\ \A i \in DOMAIN batch : /\ batch'[i].r = batch[i].r /\ batch'[i].q = batch[i].q
                                  /\ batch'[i].from = batch[i].from + 1
  <2>1. ASSUME NEW i \in DOMAIN batch
        PROVE  /\ [batch[i] EXCEPT !.from = @ + 1] \in Request
               /\ [batch[i] EXCEPT !.from = @ + 1]
                    = [r |-> batch[i].r, from |-> batch[i].from + 1, q |-> batch[i].q]
    <3>1. batch[i].from + 1 \in 0..MaxModelLen
      <4> DEFINE f == batch[i].from
                 c == computed[batch[i].r]
                 d == setup.drafts
      <4>1. f = c + k /\ c \in Nat /\ c + d <= MaxModelLen /\ d \in Nat
        BY <1>5, <1>8
      <4> HIDE DEF f, c, d
      <4>2. k + 1 \in 0..(d - 2) /\ MaxModelLen \in Nat
        BY <1>9, Sizes DEF d
      <4>3. f + 1 \in 0..MaxModelLen
        BY <4>1, <4>2
      <4>. QED
        BY <4>3 DEF f
    <3>2. batch[i] \in [r : Requests, from : 0..MaxModelLen, q : 1..MaxTokens]
      BY <1>5 DEF Request
    <3>3. [batch[i] EXCEPT !.from = @ + 1]
            = [r |-> batch[i].r, from |-> batch[i].from + 1, q |-> batch[i].q]
      BY <3>2
    <3>. QED
      BY <3>1, <3>2, <3>3 DEF Request
  <2>2. batch' \in [1..Len(batch) -> Request]
    BY <1>2, <1>5, <2>1
  <2>3. batch' \in Seq(Request) /\ Len(batch') = Len(batch)
    BY <1>5, <2>2, LenOf
  <2>. QED
    BY <1>2, <1>5, <2>1, <2>3
<1>11. QueryStart' = QueryStart /\ NumTokens' = NumTokens /\ NumRows' = NumRows
  <2>1. Sums(StartsOf(batch), batch, Len(batch))
    BY <1>5, StartsAre
  <2>2. \A c \in Seq(Request) : Sums(StartsOf(c), c, Len(c))
    BY StartsAre
  <2>3. Sums(StartsOf(batch'), batch', Len(batch))
    BY <1>10, <2>2
  <2>4. \A i \in 1..Len(batch) : batch'[i].q = batch[i].q
    BY <1>5, <1>10
  <2>5. StartsOf(batch') = StartsOf(batch)
    BY <1>5, <2>1, <2>3, <2>4, SumsAlike
  <2>6. QueryStart' = QueryStart
    BY <2>5 DEF QueryStart
  <2>7. NumTokens' = NumTokens
    BY <1>10, <2>6 DEF NumTokens
  <2>. QED
    BY <1>2, <2>6, <2>7 DEF NumRows
<1>12. Types'
  <2>1. Buffers'
    BY <1>1, <1>2, SameBuffers DEF Types
  <2>. QED
    BY <1>1, <1>2, <1>10, <2>1 DEF Types, Typed
<1>13. Tables' /\ Held'
  BY <1>1, <1>2, <1>3, <1>4 DEF Tables, Held
<1>14. Batched'
  <2>1. Sorted'
    <3>1. \A i \in DOMAIN batch : IsDecode(batch[i])' <=> IsDecode(batch[i])
      BY <1>2, <1>10 DEF IsDecode, DecodeThreshold
    <3>. QED
      BY <1>1, <1>10, <3>1 DEF Batched, Sorted
  <2>2. batch' # << >>
    BY <1>6, <1>10
  <2>3. setup.drafter # "dspark"
    BY <1>1, <1>2 DEF DraftPass
  <2>4. \A i, j \in DOMAIN batch' : batch'[i].r = batch'[j].r => i = j
    BY <1>1, <1>10 DEF Batched
  <2>5. \A i \in DOMAIN batch' : batch'[i].r \in Running'
    BY <1>1, <1>3, <1>10 DEF Batched
  <2>6. NumTokens' <= MaxTokens /\ setup'.drafter # "dspark"
    BY <1>1, <1>2, <1>11, <2>3 DEF Batched
  <2>. QED
    BY <2>1, <2>2, <2>4, <2>5, <2>6 DEF Batched
<1>15. TargetPass' /\ Built' /\ Seen'
  BY <1>2 DEF TargetPass, Built, Seen
<1>16. DraftPass'
  <2>1. ASSUME NEW i \in DOMAIN batch' PROVE ToDraft(batch[i])'
    <3>1. i \in DOMAIN batch /\ ToDraft(batch[i])
      BY <1>8, <1>10
    <3>. QED
      BY <1>2, <1>3, <1>10, <3>1 DEF ToDraft
  <2>2. Ahead(k + 1)'
    <3>1. ASSUME NEW i \in DOMAIN batch'
          PROVE  batch'[i].from = computed'[batch'[i].r] + (k + 1)
      <4>1. i \in DOMAIN batch
        BY <1>10
      <4>2. batch'[i].from = batch[i].from + 1 /\ batch'[i].r = batch[i].r
        BY <1>10, <4>1
      <4>3. batch[i].from = computed[batch[i].r] + k /\ computed[batch[i].r] \in Nat
        BY <1>8, <4>1
      <4>4. k \in Nat
        BY <1>5, <4>1
      <4>5. computed' = computed
        BY <1>2
      <4>6. (computed[batch[i].r] + k) + 1 = computed[batch[i].r] + (k + 1)
        BY <4>3, <4>4
      <4>. QED
        BY <4>2, <4>3, <4>5, <4>6
    <3>. QED
      BY <3>1 DEF Ahead
  <2>3. batch' # << >>
    BY <1>6, <1>10
  <2>4. setup.drafter = pass /\ setup.drafts > 1
    BY <1>1, <1>2 DEF DraftPass
  <2>. QED
    BY <1>2, <1>9, <2>1, <2>2, <2>3, <2>4 DEF DraftPass
<1>17. Drafting'
  <2>1. ASSUME NEW i \in DOMAIN batch, NEW p \in computed[batch[i].r]..((batch[i].from + 1) - 1)
        PROVE  kv[Slot(batch[i].r, p)] = <<batch[i].r, p, TRUE>>
    <3>1. p \in computed[batch[i].r]..batch[i].from
      BY <1>5, <2>1
    <3>. QED
      BY <1>1, <1>2, <3>1 DEF Drafting
  <2>2. \A i \in DOMAIN batch' :
          \A p \in computed'[batch'[i].r]..(batch'[i].from - 1) :
            kv'[Slot(batch'[i].r, p)] = <<batch'[i].r, p, TRUE>>
    <3>. SUFFICES ASSUME NEW i \in DOMAIN batch',
                         NEW p \in computed'[batch'[i].r]..(batch'[i].from - 1)
                  PROVE  kv'[Slot(batch'[i].r, p)] = <<batch'[i].r, p, TRUE>>
      OBVIOUS
    <3>1. i \in DOMAIN batch /\ batch'[i].r = batch[i].r /\ batch'[i].from = batch[i].from + 1
      BY <1>10
    <3>2. p \in computed[batch[i].r]..((batch[i].from + 1) - 1)
      BY <1>2, <3>1
    <3>. QED
      BY <1>2, <2>1, <3>1, <3>2
  <2>3. \A i : \A p : Slot(batch[i].r, p)' = Slot(batch'[i].r, p)
    BY <1>2 DEF Slot, BlockOf
  <2>4. \A i \in DOMAIN batch' :
          \A p \in computed'[batch'[i].r]..(batch'[i].from - 1) :
            kv'[Slot(batch[i].r, p)'] = <<batch'[i].r, p, TRUE>>
    BY <2>2, <2>3
  <2>5. phase' # "done"
    BY <1>2
  <2>. QED
    BY <2>4, <2>5 DEF Drafting
<1>18. Meta'
  BY <1>1, <1>2, <1>11 DEF Meta
<1>. QED
  BY <1>1, <1>3, <1>12, <1>13, <1>14, <1>15, <1>16, <1>17, <1>18 DEF IInv

-----------------------------------------------------------------------------
(* The start and the end of a step *)

\* A batch of nothing has no tokens.
LEMMA NoTokens ==
  StartsOf(<< >>)[0] = 0 /\ Len(<< >>) = 0 /\ DOMAIN << >> = {} /\ << >> \in Seq(Request)
<1>1. << >> \in Seq(Request) /\ Len(<< >>) = 0 /\ DOMAIN << >> = {}
  OBVIOUS
<1>2. Sums(StartsOf(<< >>), << >>, Len(<< >>))
  BY <1>1, StartsAre
<1>. QED
  BY <1>1, <1>2 DEF Sums

\* Between steps, with no batch.
LEMMA Idle ==
  ASSUME batch' = << >>, phase' = "batch", pass' = "target", setup' \in Setups
  PROVE  Batched' /\ TargetPass' /\ DraftPass' /\ Drafting' /\ Meta' /\ Built' /\ Seen'
<1>1. NumTokens' = 0
  BY NoTokens DEF NumTokens, QueryStart
<1>2. MaxTokens \in Nat /\ setup'.drafts \in Nat
  BY Sizes
<1>3. DOMAIN batch' = {} /\ Len(batch') = 0
  BY NoTokens
<1>4. Batched'
  <2>1. Sorted'
    BY <1>3 DEF Sorted
  <2>2. Len(batch') * setup'.drafts <= MaxTokens
    BY <1>2, <1>3
  <2>. QED
    BY <1>1, <1>2, <1>3, <2>1, <2>2 DEF Batched
<1>5. TargetPass'
  BY <1>3 DEF TargetPass
<1>. QED
  BY <1>4, <1>5 DEF DraftPass, Drafting, Meta, Built, Seen

\* The end of a step keeps the invariant.
LEMMA EndKeeps ==
  ASSUME IInv, EndStep
  PROVE  IInv'
<1>1. /\ Types /\ Typed /\ Owned /\ Tables /\ Held
  BY DEF IInv, Types
<1>2. /\ setup' = setup /\ computed' = computed /\ table' = table /\ kv' = kv
      /\ pass' = "target" /\ phase' = "batch" /\ batch' = << >> /\ buf' = buf
  BY DEF EndStep, engine
<1>3. /\ \A r, m : KeptFrom(r, m)' = KeptFrom(r, m) /\ Covered(r, m)' = Covered(r, m)
      /\ Owned' = Owned /\ Running' = Running
  BY <1>2, SameTables DEF Running
<1>4. \A r, p : Slot(r, p)' = Slot(r, p) /\ Present(r, p)' = Present(r, p)
  BY <1>2, SameTable
<1>5. Types'
  <2>1. Buffers'
    BY <1>1, <1>2, SameBuffers DEF Types
  <2>2. batch' \in Seq(Request)
    BY <1>2, NoTokens
  <2>. QED
    BY <1>1, <1>2, <2>1, <2>2 DEF Types, Typed
<1>6. Tables' /\ Held'
  BY <1>1, <1>2, <1>3, <1>4 DEF Tables, Held
<1>7. Batched' /\ TargetPass' /\ DraftPass' /\ Drafting' /\ Meta' /\ Built' /\ Seen'
  BY <1>1, <1>2, Idle DEF Types
<1>. QED
  BY <1>1, <1>3, <1>5, <1>6, <1>7 DEF IInv

\* A request that finishes gives its blocks back; the others keep theirs.
LEMMA FinishKeeps ==
  ASSUME IInv, NEW r \in Requests, Finish(r)
  PROVE  IInv'
<1>1. /\ Types /\ Typed /\ Owned /\ Tables /\ Held
      /\ computed \in [Requests -> -1..MaxModelLen] /\ table \in [Requests -> Seq(0..NumBlocks)]
  BY DEF IInv, Types, Typed
<1>2. /\ setup' = setup /\ kv' = kv /\ pass' = "target" /\ phase' = "batch"
      /\ batch' = << >> /\ buf' = buf
      /\ computed' = [computed EXCEPT ![r] = -1] /\ table' = [table EXCEPT ![r] = << >>]
  BY DEF Finish
<1>3. /\ computed' \in [Requests -> -1..MaxModelLen]
      /\ table' \in [Requests -> Seq(0..NumBlocks)]
  <2>1. -1 \in -1..MaxModelLen /\ << >> \in Seq(0..NumBlocks)
    BY Sizes
  <2>. QED
    BY <1>1, <1>2, <2>1
<1>4. Types'
  <2>1. Buffers'
    BY <1>1, <1>2, SameBuffers DEF Types
  <2>2. batch' \in Seq(Request)
    BY <1>2, NoTokens
  <2>. QED
    BY <1>1, <1>2, <1>3, <2>1, <2>2 DEF Types, Typed
<1>5. /\ DOMAIN table'[r] = {} /\ computed'[r] = -1
      /\ \A x \in Requests : x # r => table'[x] = table[x] /\ computed'[x] = computed[x]
  BY <1>1, <1>2
<1>6. Owned'
  <2>1. ASSUME NEW x \in Requests, NEW y \in Requests, NEW i \in DOMAIN table'[x],
               NEW j \in DOMAIN table'[y], table'[x][i] # NullBlock,
               table'[x][i] = table'[y][j]
        PROVE  x = y /\ i = j
    <3>1. x # r /\ y # r
      BY <1>5
    <3>2. table'[x] = table[x] /\ table'[y] = table[y]
      BY <1>5, <3>1
    <3>3. \A a \in DOMAIN table[x], b \in DOMAIN table[y] :
            table[x][a] # NullBlock /\ table[x][a] = table[y][b] => x = y /\ a = b
      BY <1>1, Zenon DEF Owned
    <3>. QED
      BY <2>1, <3>2, <3>3
  <2>. QED
    BY <2>1 DEF Owned
<1>7. \A x \in Running' : /\ x \in Running /\ x # r /\ computed'[x] = computed[x]
                          /\ table'[x] = table[x]
  BY <1>5 DEF Running
<1>8. \A x, m : table'[x] = table[x]
                => /\ KeptFrom(x, m)' = KeptFrom(x, m) /\ Covered(x, m)' = Covered(x, m)
                   /\ Slot(x, m)' = Slot(x, m) /\ Present(x, m)' = Present(x, m)
  <2>. TAKE x, m
  <2>. HAVE table'[x] = table[x]
  <2>1. BlockOf(x, m)' = BlockOf(x, m)
    BY DEF BlockOf
  <2>2. Slot(x, m)' = Slot(x, m) /\ Present(x, m)' = Present(x, m)
    BY <2>1 DEF Slot, Present
  <2>3. KeptFrom(x, m)' = KeptFrom(x, m)
    BY DEF KeptFrom
  <2>4. Covered(x, m)' = Covered(x, m)
    BY DEF Covered
  <2>. QED
    BY <2>2, <2>3, <2>4
<1>9. Tables'
  BY <1>1, <1>7, <1>8 DEF Tables
<1>10. Held'
  <2>1. ASSUME NEW x \in Running', NEW p \in 0..(computed'[x] - 1), Present(x, p)'
        PROVE  kv'[Slot(x, p)'] = <<x, p, FALSE>>
    <3>1. x \in Running /\ computed'[x] = computed[x] /\ table'[x] = table[x]
      BY <1>7
    <3>2. Slot(x, p)' = Slot(x, p) /\ Present(x, p)
      BY <1>8, <2>1, <3>1
    <3>3. kv[Slot(x, p)] = <<x, p, FALSE>>
      BY <1>1, <3>1, <3>2 DEF Held
    <3>. QED
      BY <1>2, <3>2, <3>3
  <2>. QED
    BY <2>1 DEF Held
<1>11. Batched' /\ TargetPass' /\ DraftPass' /\ Drafting' /\ Meta' /\ Built' /\ Seen'
  BY <1>1, <1>2, Idle DEF Types
<1>. QED
  BY <1>4, <1>6, <1>9, <1>10, <1>11 DEF IInv

\* The invariant holds at the start.
LEMMA InitKeeps ==
  ASSUME Init PROVE IInv
<1>1. /\ setup \in Setups /\ computed = [r \in Requests |-> 0]
      /\ table = [r \in Requests |-> << >>]
      /\ kv = [s \in 0..((NumBlocks + 1) * BlockSize - 1) |-> None]
      /\ pass = "target" /\ phase = "batch" /\ batch = << >>
  BY DEF Init
<1>2. Typed
  <2>1. << >> \in Seq(0..NumBlocks)
    OBVIOUS
  <2>. QED
    BY <1>1, <2>1 DEF Typed
<1>3. computed \in [Requests -> -1..MaxModelLen]
  BY <1>1, Sizes
<1>4. Buffers
  <2>1. \A n : Shaped([k \in 1..n |-> 0], n)
    BY DEF Shaped
  <2>2. /\ buf = [valid |-> buf.valid, decode |-> buf.decode, wide |-> buf.wide,
                  decodeLens |-> buf.decodeLens, prefill |-> buf.prefill,
                  prefillLens |-> buf.prefillLens]
        /\ buf.valid = [t \in 1..MaxTokens |-> FALSE]
        /\ buf.decode = [t \in 1..MaxTokens |-> [k \in 1..Window |-> 0]]
        /\ buf.wide = [t \in 1..MaxTokens |-> [k \in 1..NoncausalWidth |-> 0]]
        /\ buf.prefill = [t \in 1..MaxTokens |-> [k \in 1..IndexWidth |-> 0]]
        /\ buf.decodeLens = [t \in 1..MaxTokens |-> 0]
        /\ buf.prefillLens = [t \in 1..MaxTokens |-> 0]
    BY DEF Init
  <2>. QED
    BY <2>1, <2>2 DEF Buffers
<1>5. Types
  BY <1>1, <1>2, <1>3, <1>4, NoTokens DEF Types
<1>6. \A r \in Requests : DOMAIN table[r] = {} /\ Len(table[r]) = 0 /\ computed[r] = 0
  BY <1>1
<1>7. Owned
  BY <1>6 DEF Owned
<1>8. Tables
  BY <1>6, Sizes DEF Tables, Covered, KeptFrom, Running
<1>9. Held
  BY <1>6 DEF Held, Running
<1>10. NumTokens = 0
  BY <1>1, NoTokens DEF NumTokens, QueryStart
<1>11. Batched
  <2>1. Sorted
    BY <1>1, NoTokens DEF Sorted
  <2>2. Len(batch) * setup.drafts <= MaxTokens /\ MaxTokens \in Nat
    BY <1>1, Sizes
  <2>. QED
    BY <1>1, <1>10, <2>1, <2>2, NoTokens DEF Batched
<1>12. TargetPass
  BY <1>1, NoTokens DEF TargetPass
<1>. QED
  BY <1>1, <1>5, <1>7, <1>8, <1>9, <1>11, <1>12
     DEF IInv, DraftPass, Drafting, Meta, Built, Seen

\* Requests with d tokens each.
LEMMA SumsOfSame ==
  ASSUME NEW b, NEW n \in Nat, NEW f, Sums(f, b, n), NEW d \in Nat,
         \A i \in 1..n : b[i].q = d
  PROVE  f[n] = n * d
<1> DEFINE S == {k \in Nat : k <= n => f[k] = k * d}
<1>1. 0 \in S
  BY DEF Sums
<1>2. ASSUME NEW k \in Nat, k \in S PROVE k + 1 \in S
  <2>1. ASSUME k + 1 <= n PROVE f[k + 1] = (k + 1) * d
    <3>1. f[k] = k * d /\ k * d \in Nat
      BY <1>2, <2>1, Multiples
    <3>2. k + 1 \in 1..n /\ (k + 1) - 1 = k
      BY <2>1
    <3>3. f[k + 1] = f[k] + d
      BY <3>2 DEF Sums
    <3>4. (k + 1) * d = k * d + d
      OBVIOUS
    <3>. QED
      BY <3>1, <3>3, <3>4
  <2>. QED
    BY <2>1
<1>3. Nat \subseteq S
  <2>. HIDE DEF S
  <2>. QED
    BY <1>1, <1>2, Counting
<1>. QED
  BY <1>3

\* The drafter's first pass starts at what the target accepted.
LEMMA StartKeeps ==
  ASSUME IInv, StartDraft
  PROVE  IInv'
<1> DEFINE d == setup.drafts
           drafted == IF setup.drafter = "mtp" THEN 1 ELSE d
<1>1. /\ Types /\ Typed /\ Owned /\ Tables /\ Held /\ Batched /\ TargetPass
      /\ computed \in [Requests -> -1..MaxModelLen]
  BY DEF IInv, Types
<1>2. /\ setup' = setup /\ computed' = computed /\ table' = table /\ kv' = kv /\ buf' = buf
      /\ phase = "done" /\ pass = "target" /\ pass' = setup.drafter /\ phase' = "batch"
      /\ batch' = [i \in DOMAIN batch |->
                    [r |-> batch[i].r, from |-> computed[batch[i].r], q |-> drafted]]
      /\ MoreDrafts
  BY DEF StartDraft, engine
<1>3. /\ setup.drafter = "dspark" \/ (setup.drafter = "mtp" /\ d > 1)
      /\ \A i \in DOMAIN batch : computed[batch[i].r] + d <= MaxModelLen
  BY <1>2 DEF MoreDrafts
<1>4. /\ MaxTokens \in Nat /\ MaxModelLen \in Nat /\ Window \in Nat /\ d \in Nat
      /\ setup.drafter = "dspark" => d > 0
  BY <1>1, Sizes DEF Types
<1>5. /\ batch \in Seq(Request) /\ Len(batch) \in Nat /\ DOMAIN batch = 1..Len(batch)
      /\ \A i \in DOMAIN batch : batch[i] \in Request /\ batch[i].r \in Requests
      /\ Len(batch) <= NumTokens /\ NumTokens \in Nat
  BY <1>1, RequestIs, StartsIs DEF Types
<1>6. batch # << >> /\ 1 <= Len(batch)
  <2>1. batch # << >>
    BY <1>1, <1>2 DEF Batched
  <2>. QED
    BY <1>5, <2>1
<1>7. Len(batch) * drafted \in Nat /\ Len(batch) * drafted <= MaxTokens
      /\ drafted \in 1..MaxTokens
  <2>1. NumTokens <= MaxTokens /\ (setup.drafter = "dspark" => Len(batch) * d <= MaxTokens)
    BY <1>1 DEF Batched
  <2>2. CASE setup.drafter = "mtp"
    BY <1>4, <1>5, <1>6, <2>1, <2>2
  <2>3. CASE setup.drafter # "mtp"
    <3>1. drafted = d /\ d > 0 /\ setup.drafter = "dspark"
      BY <1>3, <1>4, <2>3
    <3>2. d \in Nat \ {0} /\ 1 \in Nat
      BY <1>4, <3>1
    <3> HIDE DEF d, drafted
    <3>3. 1 * d <= Len(batch) * d /\ Len(batch) * d \in Nat
      BY <1>5, <1>6, <3>2, Multiples
    <3>4. 1 * d = d
      BY <3>2
    <3>5. Len(batch) * d <= MaxTokens
      BY <2>1, <3>1 DEF d
    <3>6. d <= MaxTokens
      <4> DEFINE m == Len(batch) * d
      <4>1. d <= m /\ m \in Nat /\ m <= MaxTokens
        BY <3>3, <3>4, <3>5
      <4> HIDE DEF m
      <4>. QED
        BY <1>4, <3>2, <4>1
    <3>. QED
      BY <1>4, <3>1, <3>2, <3>3, <3>5, <3>6
  <2>. QED
    BY <2>2, <2>3
<1> HIDE DEF d, drafted
<1>8. ASSUME NEW i \in DOMAIN batch
      PROVE  /\ computed[batch[i].r] \in 0..MaxModelLen /\ batch[i].r \in Running
             /\ Accepted(batch[i])
  <2>1. batch[i].r \in Running
    BY <1>1 DEF Batched
  <2>2. Accepted(batch[i])
    BY <1>1, <1>2 DEF TargetPass
  <2>3. computed[batch[i].r] \in 0..MaxModelLen
    BY <1>1, <1>4, <1>5, <2>1 DEF Running
  <2>. QED
    BY <2>1, <2>2, <2>3
<1>9. /\ DOMAIN batch' = DOMAIN batch /\ Len(batch') = Len(batch)
      /\ batch' \in Seq(Request)
      /\ \A i \in DOMAIN batch : /\ batch'[i].r = batch[i].r /\ batch'[i].q = drafted
                                 /\ batch'[i].from = computed[batch[i].r]
  <2>1. \A i \in DOMAIN batch :
          [r |-> batch[i].r, from |-> computed[batch[i].r], q |-> drafted] \in Request
    BY <1>5, <1>7, <1>8 DEF Request
  <2>2. batch' \in [1..Len(batch) -> Request]
    BY <1>2, <1>5, <2>1
  <2>3. batch' \in Seq(Request) /\ Len(batch') = Len(batch)
    BY <1>5, <2>2, LenOf
  <2>. QED
    BY <1>2, <1>5, <2>3
<1>10. NumTokens' = Len(batch) * drafted
  <2>1. \A c \in Seq(Request) : Sums(StartsOf(c), c, Len(c))
    BY StartsAre
  <2>2. Sums(StartsOf(batch'), batch', Len(batch))
    BY <1>9, <2>1
  <2>3. \A i \in 1..Len(batch) : batch'[i].q = drafted
    BY <1>5, <1>9
  <2>4. drafted \in Nat
    BY <1>4, <1>7
  <2>5. StartsOf(batch')[Len(batch)] = Len(batch) * drafted
    BY <1>5, <2>2, <2>3, <2>4, SumsOfSame
  <2>. QED
    BY <1>9, <2>5 DEF NumTokens, QueryStart
<1>11. /\ \A r, m : KeptFrom(r, m)' = KeptFrom(r, m) /\ Covered(r, m)' = Covered(r, m)
       /\ Owned' = Owned /\ Running' = Running
       /\ \A r, p : Slot(r, p)' = Slot(r, p) /\ Present(r, p)' = Present(r, p)
  BY <1>2, SameTables, SameTable DEF Running
<1>12. Types'
  <2>1. Buffers'
    BY <1>1, <1>2, SameBuffers DEF Types
  <2>2. pass' \in {"target", "mtp", "dspark"}
    BY <1>2, <1>3
  <2>. QED
    BY <1>1, <1>2, <1>9, <2>1, <2>2 DEF Types, Typed
<1>13. Tables' /\ Held'
  BY <1>1, <1>2, <1>11 DEF Tables, Held
<1>14. Batched'
  <2>1. drafted <= DecodeThreshold'
    <3>1. DecodeThreshold' = DecodeThreshold
      BY <1>2, SameRules
    <3>2. 1 \in DOMAIN batch
      BY <1>5, <1>6
    <3>3. DecodeThreshold \in Nat /\ d < DecodeThreshold /\ 1 <= DecodeThreshold
      BY <1>1, <3>2, RequestIs DEF d
    <3>. QED
      BY <1>4, <3>1, <3>3 DEF drafted
  <2>2. Sorted'
    BY <1>9, <2>1 DEF Sorted, IsDecode
  <2>3. \A i, j \in DOMAIN batch' : batch'[i].r = batch'[j].r => i = j
    BY <1>1, <1>9 DEF Batched
  <2>4. \A i \in DOMAIN batch' : batch'[i].r \in Running'
    BY <1>8, <1>9, <1>11
  <2>5. setup'.drafter = "dspark" => Len(batch') * setup'.drafts <= MaxTokens
    BY <1>1, <1>2, <1>9 DEF Batched
  <2>6. phase' = "batch" /\ NumTokens' <= MaxTokens
    BY <1>2, <1>7, <1>10
  <2>. QED
    BY <2>2, <2>3, <2>4, <2>5, <2>6 DEF Batched
<1>15. TargetPass'
  BY <1>2, <1>3 DEF TargetPass
<1>16. DraftPass'
  <2>1. ASSUME NEW i \in DOMAIN batch' PROVE ToDraft(batch[i])'
    <3> DEFINE r == batch[i].r
    <3>1. i \in DOMAIN batch
      BY <1>9
    <3>2. batch'[i].q = IF pass' = "mtp" THEN 1 ELSE setup'.drafts
      BY <1>2, <1>9, <3>1 DEF drafted, d
    <3>3. /\ KeptFrom(r, computed[r] - Window)
          /\ Covered(r, Smaller(computed[r] + d, MaxModelLen))
      BY <1>8, <3>1 DEF Accepted, d
    <3>4. computed[r] + d <= MaxModelLen
      BY <1>3, <3>1 DEF d
    <3>5. Smaller(computed[r] + d, MaxModelLen) = computed[r] + d
      BY <1>4, <1>8, <3>1, <3>4 DEF Smaller
    <3>6. Covered(r, computed[r] + d)
      BY <3>3, <3>5
    <3>7. batch'[i].r = r
      BY <1>9, <3>1
    <3> HIDE DEF r
    <3>8. KeptFrom(batch[i].r, computed[batch[i].r] - Window)'
      BY <1>2, <1>11, <3>3, <3>7
    <3>9. Covered(batch[i].r, computed[batch[i].r] + setup.drafts)'
      BY <1>2, <1>11, <3>6, <3>7 DEF d
    <3>10. computed'[batch'[i].r] + setup'.drafts <= MaxModelLen
      BY <1>2, <3>4, <3>7 DEF d
    <3>. QED
      BY <3>2, <3>8, <3>9, <3>10 DEF ToDraft
  <2>2. Ahead(0)'
    <3>1. ASSUME NEW i \in DOMAIN batch' PROVE batch'[i].from = computed'[batch'[i].r] + 0
      BY <1>2, <1>8, <1>9
    <3>. QED
      BY <3>1 DEF Ahead
  <2>3. batch' # << >>
    BY <1>6, <1>9
  <2>4. pass' = "mtp" => d > 1 /\ 0 \in 0..(d - 2)
    BY <1>2, <1>3, <1>4
  <2>. QED
    BY <1>2, <2>1, <2>2, <2>3, <2>4 DEF DraftPass, d
<1>17. Drafting'
  <2>1. ASSUME NEW i \in DOMAIN batch', NEW p \in computed'[batch'[i].r]..(batch'[i].from - 1)
        PROVE  FALSE
    <3>1. /\ computed[batch[i].r] \in Nat /\ batch'[i].from = computed[batch[i].r]
          /\ computed'[batch'[i].r] = computed[batch[i].r]
      BY <1>2, <1>8, <1>9
    <3>. QED
      BY <2>1, <3>1
  <2>2. phase' # "done"
    BY <1>2
  <2>. QED
    BY <2>1, <2>2 DEF Drafting
<1>18. Meta' /\ Built' /\ Seen'
  BY <1>2 DEF Meta, Built, Seen
<1>. QED
  BY <1>1, <1>11, <1>12, <1>13, <1>14, <1>15, <1>16, <1>17, <1>18 DEF IInv

-----------------------------------------------------------------------------
(* The block manager *)

\* k different blocks of those free.
Picked(s, free, k) ==
  /\ s \in Seq(free) /\ Len(s) = k
  /\ IsFiniteSet(Range(s)) /\ Cardinality(Range(s)) = k
  /\ \A i, j \in 1..k : s[i] = s[j] => i = j
Take(free, s) == Append(s, Min(free \ Range(s)))
Taking(f, free, n) == f = [k \in 0..n |-> IF k = 0 THEN << >> ELSE Take(free, f[k - 1])]

\* A free block not yet taken can be taken.
LEMMA TakeOne ==
  ASSUME NEW free \in SUBSET Nat, IsFiniteSet(free), NEW k \in Nat, k < Cardinality(free),
         NEW s, Picked(s, free, k)
  PROVE  Picked(Take(free, s), free, k + 1)
<1> DEFINE x == Min(free \ Range(s))
           t == Append(s, x)
<1>1. /\ s \in Seq(free) /\ Len(s) = k /\ DOMAIN s = 1..k
      /\ IsFiniteSet(Range(s)) /\ Cardinality(Range(s)) = k
      /\ \A i, j \in 1..k : s[i] = s[j] => i = j
  BY DEF Picked
<1>2. \A i \in 1..k : s[i] \in free /\ s[i] \in Range(s)
  BY <1>1 DEF Range
<1>3. Range(s) \subseteq free
  BY <1>1, <1>2 DEF Range
<1>4. free \ Range(s) # {}
  <2>1. free # Range(s)
    BY <1>1
  <2>. QED
    BY <1>3, <2>1
<1>5. x \in free /\ x \notin Range(s)
  <2>1. free \ Range(s) \subseteq Nat
    OBVIOUS
  <2>. QED
    BY <1>4, <2>1, Smallest
<1> HIDE DEF x
<1>6. /\ t \in Seq(free) /\ Len(t) = k + 1 /\ DOMAIN t = 1..(k + 1)
      /\ t[k + 1] = x /\ \A i \in 1..k : t[i] = s[i]
  BY <1>1, <1>5
<1> HIDE DEF t
<1>7. Range(t) = Range(s) \cup {x}
  <2>1. \A i \in 1..(k + 1) : i \in 1..k \/ i = k + 1
    OBVIOUS
  <2>2. \A i \in 1..k : i \in 1..(k + 1)
    OBVIOUS
  <2>3. k + 1 \in 1..(k + 1)
    OBVIOUS
  <2>4. \A i \in DOMAIN t : t[i] \in Range(s) \cup {x}
    BY <1>2, <1>6, <2>1
  <2>5. \A i \in DOMAIN s : s[i] \in Range(t)
    BY <1>1, <1>6, <2>2 DEF Range
  <2>6. x \in Range(t)
    BY <1>6, <2>3 DEF Range
  <2>7. Range(t) \subseteq Range(s) \cup {x}
    BY <2>4 DEF Range
  <2>8. Range(s) \subseteq Range(t)
    BY <2>5 DEF Range
  <2>. QED
    BY <2>6, <2>7, <2>8
<1>8. IsFiniteSet(Range(t)) /\ Cardinality(Range(t)) = k + 1
  <2> DEFINE R == Range(s)
  <2>1. IsFiniteSet(R) /\ Cardinality(R) = k /\ x \notin R
    BY <1>1, <1>5
  <2> HIDE DEF R
  <2>2. IsFiniteSet(R \cup {x}) /\ Cardinality(R \cup {x}) = Cardinality(R) + 1
    BY <2>1, FS_AddElement
  <2>3. Range(t) = R \cup {x}
    BY <1>7 DEF R
  <2>. QED
    BY <2>1, <2>2, <2>3
<1>9. \A i, j \in 1..(k + 1) : t[i] = t[j] => i = j
  <2>. TAKE i, j \in 1..(k + 1)
  <2>1. i \in 1..k => s[i] # x
    BY <1>2, <1>5
  <2>2. j \in 1..k => s[j] # x
    BY <1>2, <1>5
  <2>3. (i \in 1..k \/ i = k + 1) /\ (j \in 1..k \/ j = k + 1)
    OBVIOUS
  <2>. QED
    BY <1>1, <1>6, <2>1, <2>2, <2>3
<1>10. Take(free, s) = t
  BY DEF Take, t, x
<1>. QED
  BY <1>6, <1>8, <1>9, <1>10 DEF Picked

\* Taking the lowest free blocks one by one is well founded.
LEMMA TakingExists ==
  ASSUME NEW free
  PROVE  \A n \in Nat : \E f : Taking(f, free, n)
<1> DEFINE D == {n \in Nat : \E f : Taking(f, free, n)}
<1>1. 0 \in D
  <2>1. Taking([m \in 0..0 |-> << >>], free, 0)
    BY DEF Taking
  <2>. QED
    BY <2>1
<1>2. ASSUME NEW n \in Nat, n \in D PROVE n + 1 \in D
  <2>1. PICK old : Taking(old, free, n)
    BY <1>2
  <2> DEFINE new == [m \in 0..(n + 1) |-> IF m = n + 1 THEN Take(free, old[n]) ELSE old[m]]
  <2>2. \A m \in 0..n : old[m] = IF m = 0 THEN << >> ELSE Take(free, old[m - 1])
    BY <2>1, Zenon DEF Taking
  <2>3. new[n + 1] = Take(free, old[n]) /\ \A m \in 0..n : new[m] = old[m]
    OBVIOUS
  <2>4. \A m \in 0..(n + 1) : (m # 0 => m - 1 \in 0..n) /\ (m # n + 1 => m \in 0..n)
    OBVIOUS
  <2>5. DOMAIN new = 0..(n + 1) /\ new = [m \in 0..(n + 1) |-> new[m]]
    OBVIOUS
  <2> HIDE DEF new
  <2>6. ASSUME NEW m \in 0..(n + 1)
        PROVE  new[m] = IF m = 0 THEN << >> ELSE Take(free, new[m - 1])
    <3>1. CASE m = n + 1
      <4>1. m - 1 = n /\ m # 0 /\ n \in 0..n
        BY <3>1
      <4>. QED
        BY <2>3, <3>1, <4>1
    <3>2. CASE m # n + 1
      <4>1. m \in 0..n /\ (m # 0 => m - 1 \in 0..n)
        BY <2>4, <3>2
      <4>. QED
        BY <2>2, <2>3, <4>1
    <3>. QED
      BY <3>1, <3>2
  <2>7. Taking(new, free, n + 1)
    <3>1. [m \in 0..(n + 1) |-> new[m]]
            = [m \in 0..(n + 1) |-> IF m = 0 THEN << >> ELSE Take(free, new[m - 1])]
      BY <2>6, Zenon
    <3>. QED
      BY <2>5, <3>1, Zenon DEF Taking
  <2>. QED
    BY <2>7
<1>3. Nat \subseteq D
  <2> HIDE DEF D
  <2>. QED
    BY <1>1, <1>2, Counting
<1>. QED
  BY <1>3

\* The block manager hands out as many different free blocks as asked for.
LEMMA LowestIs ==
  ASSUME NEW free \in SUBSET Nat, IsFiniteSet(free), NEW n \in Nat, n <= Cardinality(free)
  PROVE  Picked(Lowest(free, n), free, n)
<1> DEFINE taken == CHOOSE f : Taking(f, free, n)
<1>1. Lowest(free, n) = taken[n]
  BY DEF Lowest, Taking, Take
<1>2. Taking(taken, free, n)
  BY TakingExists
<1> HIDE DEF taken
<1>3. taken[0] = << >> /\ \A k \in 1..n : taken[k] = Take(free, taken[k - 1])
  <2>1. \A k \in 0..n : taken[k] = IF k = 0 THEN << >> ELSE Take(free, taken[k - 1])
    BY <1>2, Zenon DEF Taking
  <2>2. 0 \in 0..n /\ \A k \in 1..n : k \in 0..n /\ k # 0
    OBVIOUS
  <2>. QED
    BY <2>1, <2>2
<1> DEFINE D == {k \in Nat : k <= n => Picked(taken[k], free, k)}
<1>4. 0 \in D
  <2>1. Range(<< >>) = {}
    BY DEF Range
  <2>2. << >> \in Seq(free) /\ Len(<< >>) = 0 /\ \A i \in 1..0 : FALSE
    OBVIOUS
  <2>3. Picked(<< >>, free, 0)
    BY <2>1, <2>2, FS_EmptySet DEF Picked
  <2>. QED
    BY <1>3, <2>3
<1>5. ASSUME NEW k \in Nat, k \in D PROVE k + 1 \in D
  <2>1. ASSUME k + 1 <= n PROVE Picked(taken[k + 1], free, k + 1)
    <3>1. Picked(taken[k], free, k)
      BY <1>5, <2>1
    <3>2. Cardinality(free) \in Nat
      BY FS_CardinalityType
    <3>3. k < Cardinality(free)
      BY <2>1, <3>2
    <3>4. taken[k + 1] = Take(free, taken[k])
      <4>1. k + 1 \in 1..n /\ (k + 1) - 1 = k
        BY <2>1
      <4>. QED
        BY <1>3, <4>1
    <3>. QED
      BY <3>1, <3>3, <3>4, TakeOne
  <2>. QED
    BY <2>1
<1>6. Nat \subseteq D
  <2> HIDE DEF D
  <2>. QED
    BY <1>4, <1>5, Counting
<1>. QED
  BY <1>1, <1>6

\* c is b with e put in at i.
With(c, b, i, e) ==
  /\ c \in Seq(Request) /\ Len(c) = Len(b) + 1
  /\ \A j \in 1..(i - 1) : c[j] = b[j]
  /\ c[i] = e
  /\ \A j \in (i + 1)..(Len(b) + 1) : c[j] = b[j - 1]

\* InsertAt puts one entry in and keeps the others in their order.
LEMMA InsertIs ==
  ASSUME NEW b \in Seq(Request), NEW i \in 1..(Len(b) + 1), NEW e \in Request
  PROVE  With(InsertAt(b, i, e), b, i, e)
<1> DEFINE n == Len(b)
           front == SubSeq(b, 1, i - 1)
           back == SubSeq(b, i, n)
           c == (front \o <<e>>) \o back
<1>1. n \in Nat /\ DOMAIN b = 1..n
  OBVIOUS
<1>2. /\ front \in Seq(Request) /\ Len(front) = i - 1
      /\ \A j \in 1..(i - 1) : front[j] = b[j]
  <2>1. \A j \in 1..(i - 1) : b[j] \in Request
    <3>. TAKE j \in 1..(i - 1)
    <3>1. j \in 1..n
      BY <1>1
    <3>. QED
      BY <3>1, ElementOfSeq
  <2>. QED
    BY <1>1, <2>1, SubSeqProperties
<1>3. /\ back \in Seq(Request) /\ Len(back) = n - i + 1
      /\ \A j \in 1..(n - i + 1) : back[j] = b[i + j - 1]
  <2>1. CASE i <= n
    BY <1>1, <2>1, SubSeqProperties
  <2>2. CASE ~(i <= n)
    <3>1. i = n + 1
      BY <1>1, <2>2
    <3>. QED
      BY <1>1, <3>1, SubSeqProperties
  <2>. QED
    BY <2>1, <2>2
<1>4. <<e>> \in Seq(Request) /\ Len(<<e>>) = 1 /\ <<e>>[1] = e
  OBVIOUS
<1> HIDE DEF front, back, n
<1>5. /\ front \o <<e>> \in Seq(Request) /\ Len(front \o <<e>>) = i
      /\ \A j \in 1..(i - 1) : (front \o <<e>>)[j] = b[j]
      /\ (front \o <<e>>)[i] = e
  BY <1>1, <1>2, <1>4, ConcatProperties DEF n
<1> DEFINE head == front \o <<e>>
<1> HIDE DEF head
<1>6. /\ c \in Seq(Request) /\ Len(c) = n + 1
      /\ \A j \in 1..(n + 1) : c[j] = IF j <= i THEN head[j] ELSE back[j - i]
  <2>1. c = head \o back
    BY DEF head
  <2>2. head \in Seq(Request) /\ Len(head) = i
    BY <1>5 DEF head
  <2>3. /\ head \o back \in Seq(Request)
        /\ Len(head \o back) = Len(head) + Len(back)
        /\ \A j \in 1..(Len(head) + Len(back)) :
             (head \o back)[j] = IF j <= Len(head) THEN head[j] ELSE back[j - Len(head)]
    BY <1>3, <2>2, ConcatProperties
  <2>4. i \in Nat /\ i + (n - i + 1) = n + 1
    BY <1>1 DEF n
  <2>. QED
    BY <1>3, <2>1, <2>2, <2>3, <2>4
<1> HIDE DEF c
<1>7. \A j \in 1..(i - 1) : c[j] = b[j]
  <2>1. \A j \in 1..(i - 1) : j \in 1..(n + 1) /\ j <= i
    BY <1>1 DEF n
  <2>. QED
    BY <1>5, <1>6, <2>1 DEF head
<1>8. c[i] = e
  <2>1. i \in 1..(n + 1) /\ i <= i
    BY <1>1 DEF n
  <2>. QED
    BY <1>5, <1>6, <2>1 DEF head
<1>9. \A j \in (i + 1)..(n + 1) : c[j] = b[j - 1]
  <2>. TAKE j \in (i + 1)..(n + 1)
  <2>1. j \in 1..(n + 1) /\ ~(j <= i) /\ j - i \in 1..(n - i + 1) /\ i + (j - i) - 1 = j - 1
    BY <1>1 DEF n
  <2>. QED
    BY <1>3, <1>6, <2>1
<1>10. InsertAt(b, i, e) = c
  BY DEF InsertAt, c, front, back, n
<1>. QED
  BY <1>6, <1>7, <1>8, <1>9, <1>10 DEF With, n

\* One more request adds its query length to the number of tokens.
LEMMA InsertSums ==
  ASSUME NEW b \in Seq(Request), NEW i \in 1..(Len(b) + 1), NEW e \in Request,
         NEW c, With(c, b, i, e)
  PROVE  StartsOf(c)[Len(c)] = StartsOf(b)[Len(b)] + e.q
<1> DEFINE n == Len(b)
           f == StartsOf(b)
           g == StartsOf(c)
<1>1. n \in Nat /\ Len(c) = n + 1 /\ c \in Seq(Request) /\ i \in 1..(n + 1)
  BY DEF With
<1>2. Sums(f, b, n) /\ Sums(g, c, n + 1)
  BY <1>1, StartsAre
<1>3. /\ \A j \in 1..(i - 1) : c[j] = b[j]
      /\ c[i] = e
      /\ \A j \in (i + 1)..(n + 1) : c[j] = b[j - 1]
  BY DEF With
<1>4. e.q \in Nat
  <2>1. e.q \in 1..MaxTokens
    BY DEF Request
  <2>. QED
    BY <2>1
<1> HIDE DEF n, f, g
<1>5. /\ f \in [0..n -> Nat] /\ f[0] = 0 /\ \A j \in 1..n : f[j] = f[j - 1] + b[j].q
      /\ g[0] = 0 /\ \A j \in 1..(n + 1) : g[j] = g[j - 1] + c[j].q
  BY <1>2 DEF Sums
<1>11. \A j \in 1..n : b[j].q \in Nat
  <2>. TAKE j \in 1..n
  <2>1. b[j] \in Request
    BY <1>1, ElementOfSeq DEF n
  <2>2. b[j].q \in 1..MaxTokens
    BY <2>1 DEF Request
  <2>. QED
    BY <2>2
<1> DEFINE D == {k \in Nat : k <= n + 1 => g[k] = IF k < i THEN f[k] ELSE f[k - 1] + e.q}
<1>6. 0 \in D
  BY <1>1, <1>5
<1>7. ASSUME NEW k \in Nat, k \in D PROVE k + 1 \in D
  <2>. SUFFICES ASSUME k + 1 <= n + 1
                PROVE g[k + 1] = IF k + 1 < i THEN f[k + 1] ELSE f[(k + 1) - 1] + e.q
    OBVIOUS
  <2>1. g[k] = IF k < i THEN f[k] ELSE f[k - 1] + e.q
    BY <1>1, <1>7
  <2>2. k + 1 \in 1..(n + 1) /\ (k + 1) - 1 = k
    BY <1>1
  <2>3. g[k + 1] = g[k] + c[k + 1].q
    BY <1>5, <2>2
  <2>4. CASE k + 1 < i
    <3>1. k < i /\ k + 1 \in 1..(i - 1) /\ k + 1 \in 1..n
      BY <1>1, <2>2, <2>4
    <3>2. c[k + 1] = b[k + 1] /\ f[k + 1] = f[k] + b[k + 1].q
      BY <1>3, <1>5, <2>2, <3>1
    <3>. QED
      BY <2>1, <2>3, <2>4, <3>1, <3>2
  <2>5. CASE k + 1 = i
    <3>1. k < i /\ ~(k + 1 < i) /\ c[k + 1] = e
      BY <1>1, <1>3, <2>5
    <3>. QED
      BY <2>1, <2>2, <2>3, <3>1
  <2>6. CASE i < k + 1
    <3>1. ~(k < i) /\ ~(k + 1 < i) /\ k + 1 \in (i + 1)..(n + 1) /\ k \in 1..n
          /\ k \in 0..n /\ k - 1 \in 0..n
      BY <1>1, <2>2, <2>6
    <3>2. c[k + 1] = b[k]
      BY <1>3, <2>2, <3>1
    <3>3. f[k] = f[k - 1] + b[k].q /\ b[k].q \in Nat /\ f[k - 1] \in Nat
      BY <1>5, <1>11, <3>1
    <3>4. g[k] = f[k - 1] + e.q
      BY <2>1, <3>1
    <3>5. g[k + 1] = (f[k - 1] + e.q) + b[k].q
      BY <2>3, <3>2, <3>4
    <3>6. (f[k - 1] + e.q) + b[k].q = (f[k - 1] + b[k].q) + e.q
      BY <1>4, <3>3
    <3>. QED
      BY <2>2, <3>1, <3>3, <3>5, <3>6
  <2>. QED
    BY <1>1, <2>4, <2>5, <2>6
<1>8. Nat \subseteq D
  <2> HIDE DEF D
  <2>. QED
    BY <1>6, <1>7, Counting
<1>9. g[n + 1] = IF n + 1 < i THEN f[n + 1] ELSE f[(n + 1) - 1] + e.q
  BY <1>1, <1>8
<1>10. ~(n + 1 < i) /\ (n + 1) - 1 = n
  BY <1>1
<1>. QED
  BY <1>1, <1>9, <1>10 DEF n, f, g

\* The blocks nobody has once those of r behind its window are given back, and
\* the table r gets with n of them.
Free(r) == (1..NumBlocks)
             \ UNION {Range([table EXCEPT ![r] = Trimmed(r)][x]) : x \in Requests}
Grown(r, n) == Trimmed(r) \o Lowest(Free(r), n)
Behind(r, i) == i * BlockSize <= computed[r] - Window + 1

\* A free block is nobody's, but for those its owner's window has left.
LEMMA FreeIs ==
  ASSUME Typed, NEW r \in Requests
  PROVE  /\ Free(r) \subseteq 1..NumBlocks /\ Free(r) \in SUBSET Nat /\ IsFiniteSet(Free(r))
         /\ \A x \in Requests : x # r =>
              \A i \in DOMAIN table[x] : table[x][i] \notin Free(r)
         /\ \A i \in DOMAIN table[r] : ~Behind(r, i) => table[r][i] \notin Free(r)
<1> DEFINE trimmed == [table EXCEPT ![r] = Trimmed(r)]
<1>1. NumBlocks \in Nat
  BY Sizes
<1>2. table \in [Requests -> Seq(0..NumBlocks)]
  BY DEF Typed
<1>3. trimmed[r] = Trimmed(r) /\ \A x \in Requests : x # r => trimmed[x] = table[x]
  BY <1>2
<1> HIDE DEF trimmed
<1>4. Free(r) = (1..NumBlocks) \ UNION {Range(trimmed[x]) : x \in Requests}
  BY DEF Free, trimmed
<1>5. Free(r) \subseteq 1..NumBlocks /\ Free(r) \in SUBSET Nat
  BY <1>1, <1>4
<1>6. IsFiniteSet(Free(r))
  <2>1. IsFiniteSet(1..NumBlocks)
    BY <1>1, FS_Interval
  <2>2. Free(r) \in SUBSET (1..NumBlocks)
    BY <1>5
  <2>. QED
    BY <2>1, <2>2, FS_Subset
<1>7. ASSUME NEW x \in Requests, NEW i \in DOMAIN trimmed[x]
      PROVE  trimmed[x][i] \notin Free(r)
  <2>1. trimmed[x][i] \in Range(trimmed[x])
    BY DEF Range
  <2>2. trimmed[x][i] \in UNION {Range(trimmed[y]) : y \in Requests}
    BY <2>1
  <2>. QED
    BY <1>4, <2>2
<1>8. ASSUME NEW x \in Requests, x # r, NEW i \in DOMAIN table[x]
      PROVE  table[x][i] \notin Free(r)
  <2>1. trimmed[x] = table[x]
    BY <1>3, <1>8
  <2>. QED
    BY <1>7, <2>1
<1>9. ASSUME NEW i \in DOMAIN table[r], ~Behind(r, i)
      PROVE  table[r][i] \notin Free(r)
  <2>1. DOMAIN Trimmed(r) = DOMAIN table[r] /\ Trimmed(r)[i] = table[r][i]
    BY <1>9 DEF Trimmed, Behind
  <2>2. trimmed[r][i] \notin Free(r)
    BY <1>3, <1>7, <2>1
  <2>. QED
    BY <1>3, <2>1, <2>2
<1>. QED
  BY <1>5, <1>6, <1>8, <1>9

\* A grown table keeps its blocks in the window and gets different free ones.
LEMMA GrownIs ==
  ASSUME Typed, NEW r \in Requests, NEW n \in Nat, n <= Cardinality(Free(r))
  PROVE  LET L == Len(table[r])
             g == Grown(r, n)
         IN  /\ L \in Nat /\ DOMAIN table[r] = 1..L
             /\ g \in Seq(0..NumBlocks) /\ Len(g) = L + n /\ DOMAIN g = 1..(L + n)
             /\ \A i \in 1..L : g[i] = IF Behind(r, i) THEN NullBlock ELSE table[r][i]
             /\ \A i \in (L + 1)..(L + n) : g[i] \in Free(r)
             /\ \A i, j \in (L + 1)..(L + n) : g[i] = g[j] => i = j
<1> DEFINE L == Len(table[r])
           g == Grown(r, n)
           t == Trimmed(r)
           b == Lowest(Free(r), n)
<1>1. table[r] \in Seq(0..NumBlocks) /\ NumBlocks \in Nat
  BY Sizes DEF Typed
<1>2. L \in Nat /\ DOMAIN table[r] = 1..L
      /\ \A i \in 1..L : table[r][i] \in 0..NumBlocks
  <2>1. L \in Nat /\ DOMAIN table[r] = 1..L
    BY <1>1
  <2>2. \A i \in DOMAIN table[r] : table[r][i] \in 0..NumBlocks
    BY <1>1, LenProperties, ElementOfSeq, Zenon
  <2>. QED
    BY <2>1, <2>2
<1>3. t = [i \in 1..L |-> IF Behind(r, i) THEN NullBlock ELSE table[r][i]]
  BY <1>2 DEF Trimmed, Behind
<1>4. t \in [1..L -> 0..NumBlocks]
  BY <1>1, <1>2, <1>3 DEF NullBlock
<1>5. t \in Seq(0..NumBlocks) /\ Len(t) = L
  BY <1>2, <1>4, LenOf
<1>6. Picked(b, Free(r), n)
  BY FreeIs, LowestIs
<1>7. /\ b \in Seq(Free(r)) /\ Len(b) = n /\ DOMAIN b = 1..n
      /\ \A i, j \in 1..n : b[i] = b[j] => i = j
  BY <1>6 DEF Picked
<1>8. \A i \in 1..n : b[i] \in Free(r)
  BY <1>7, ElementOfSeq
<1>9. b \in Seq(0..NumBlocks)
  <2>1. Free(r) \subseteq 0..NumBlocks
    BY <1>1, FreeIs
  <2>2. b \in [1..n -> 0..NumBlocks]
    <3>1. b \in [1..n -> Free(r)]
      BY <1>7
    <3>. QED
      BY <2>1, <3>1
  <2>. QED
    BY <2>2, LenOf
<1>10. /\ t \o b \in Seq(0..NumBlocks) /\ Len(t \o b) = L + n
       /\ \A i \in 1..(L + n) : (t \o b)[i] = IF i <= L THEN t[i] ELSE b[i - L]
  <2> DEFINE S == 0..NumBlocks
  <2>1. t \in Seq(S) /\ b \in Seq(S)
    BY <1>5, <1>9
  <2> HIDE DEF S, t, b
  <2>2. /\ t \o b \in Seq(S) /\ Len(t \o b) = Len(t) + Len(b)
        /\ \A i \in 1..(Len(t) + Len(b)) :
             (t \o b)[i] = IF i <= Len(t) THEN t[i] ELSE b[i - Len(t)]
    BY <2>1, ConcatProperties
  <2>. QED
    BY <1>5, <1>7, <2>2 DEF S
<1>11. g = t \o b
  BY DEF Grown
<1> HIDE DEF L, g, t, b
<1>12. DOMAIN g = 1..(L + n) /\ g \in Seq(0..NumBlocks) /\ Len(g) = L + n
  BY <1>10, <1>11
<1>13. \A i \in 1..L : g[i] = IF Behind(r, i) THEN NullBlock ELSE table[r][i]
  <2>1. \A i \in 1..L : i \in 1..(L + n) /\ i <= L
    BY <1>2
  <2>2. \A i \in 1..L : g[i] = t[i]
    BY <1>10, <1>11, <2>1
  <2>. QED
    BY <1>3, <2>2
<1>14. \A i \in (L + 1)..(L + n) : i - L \in 1..n /\ g[i] = b[i - L]
  <2>1. \A i \in (L + 1)..(L + n) : i \in 1..(L + n) /\ ~(i <= L) /\ i - L \in 1..n
    BY <1>2
  <2>. QED
    BY <1>10, <1>11, <2>1
<1>15. \A i \in (L + 1)..(L + n) : g[i] \in Free(r)
  BY <1>8, <1>14
<1>16. \A i, j \in (L + 1)..(L + n) : g[i] = g[j] => i = j
  <2>. TAKE i, j \in (L + 1)..(L + n)
  <2>. HAVE g[i] = g[j]
  <2>1. i - L = j - L
    BY <1>7, <1>14
  <2>. QED
    BY <1>2, <2>1
<1>. QED
  BY <1>2, <1>12, <1>13, <1>15, <1>16 DEF L, g

-----------------------------------------------------------------------------
(* The scheduler *)

\* A position count rounded up to blocks is covered by them.
LEMMA CeilCovers ==
  ASSUME NEW e \in Nat, NEW d \in Nat \ {0}
  PROVE  Ceil(e, d) \in Nat /\ e <= Ceil(e, d) * d
<1> DEFINE x == e + d - 1
           c == x \div d
           m == x % d
<1>1. x \in Nat
  OBVIOUS
<1>2. c \in Nat /\ m \in 0..(d - 1) /\ x = c * d + m
  <2> HIDE DEF x
  <2>. QED
    BY <1>1, DivMod
<1>3. c * d \in Nat
  <2> HIDE DEF c, x
  <2>. QED
    BY <1>2, Multiples
<1>4. Ceil(e, d) = c
  BY DEF Ceil
<1> DEFINE y == c * d
<1>5. e + d - 1 = y + m /\ y \in Nat
  BY <1>2, <1>3
<1> HIDE DEF c, m, y
<1>6. e <= y
  BY <1>2, <1>5
<1>. QED
  BY <1>2, <1>4, <1>6 DEF y

\* What the scheduler asks for is within the model's length and holds images
\* whole.
LEMMA QueryIs ==
  ASSUME Types, NEW r \in Running, NEW q \in Queries(r)
  PROVE  /\ q \in Nat \ {0} /\ computed[r] \in Nat /\ computed[r] + q <= MaxModelLen
         /\ Scheduled([r |-> r, from |-> computed[r], q |-> q])
<1> DEFINE b == [r |-> r, from |-> computed[r], q |-> q]
<1>1. r \in Requests /\ computed[r] \in Nat /\ setup \in Setups
  BY DEF Types, Running
<1>2. /\ Prompt[r] \in 1..MaxModelLen /\ MaxModelLen \in Nat
      /\ setup.chunks \subseteq Nat \ {0} /\ setup.drafts \in Nat
  BY <1>1, Sizes
<1>3. \A s \in ImagesOf(r) : s \in Nat \X Nat /\ s[2] < Prompt[r]
  BY <1>1, SpanAssumption DEF ImagesOf
<1>4. CASE computed[r] < Prompt[r]
  <2>1. /\ q \in setup.chunks \cup {Prompt[r] - computed[r]}
        /\ computed[r] + q <= Prompt[r]
        /\ \A s \in ImagesOf(r) : \/ s[2] < computed[r] \/ computed[r] + q <= s[1]
                                  \/ computed[r] <= s[1] /\ s[2] < computed[r] + q
    BY <1>4 DEF Queries
  <2>2. q \in Nat \ {0}
    BY <1>1, <1>2, <1>4, <2>1
  <2>3. computed[r] + q <= MaxModelLen
    BY <1>1, <1>2, <2>1, <2>2
  <2>4. Scheduled(b)
    BY <2>1, <2>3 DEF Scheduled
  <2>. QED
    BY <1>1, <2>2, <2>3, <2>4
<1>5. CASE ~(computed[r] < Prompt[r])
  <2>1. q \in {1, 1 + setup.drafts} /\ computed[r] + q <= MaxModelLen
    BY <1>5 DEF Queries
  <2>2. q \in Nat \ {0}
    BY <1>2, <2>1
  <2>3. \A s \in ImagesOf(r) : s[2] < computed[r]
    <3>. TAKE s \in ImagesOf(r)
    <3>1. s[2] \in Nat /\ s[2] < Prompt[r]
      BY <1>3
    <3>. QED
      BY <1>1, <1>2, <1>5, <3>1
  <2>4. Scheduled(b)
    BY <2>1, <2>3 DEF Scheduled
  <2>. QED
    BY <1>1, <2>1, <2>2, <2>4
<1>. QED
  BY <1>4, <1>5

\* What a request's table becomes when it is scheduled.
LEMMA AdmitGrows ==
  ASSUME Types, NEW r \in Requests, NEW q \in Nat, Admit(r, q), computed[r] \in Nat
  PROVE  \E n \in Nat :
           /\ n <= Cardinality(Free(r))
           /\ table' \in [Requests -> Seq(0..NumBlocks)]
           /\ table'[r] = Grown(r, n) /\ \A x \in Requests : x # r => table'[x] = table[x]
           /\ Covered(r, Smaller(computed[r] + q + setup.drafts, MaxModelLen))'
<1> DEFINE trimmed == [table EXCEPT ![r] = Trimmed(r)]
           free == (1..NumBlocks) \ UNION {Range(trimmed[x]) : x \in Requests}
           end  == Smaller(computed[r] + q + setup.drafts, MaxModelLen)
           L    == Len(table[r])
           need == Larger(Ceil(end, BlockSize) - L, 0)
<1>1. /\ need <= Cardinality(free)
      /\ table' = [trimmed EXCEPT ![r] = @ \o Lowest(free, need)]
      /\ setup' = setup /\ computed' = computed
  BY DEF Admit
<1>2. free = Free(r)
  BY DEF Free
<1>3. Typed /\ table \in [Requests -> Seq(0..NumBlocks)] /\ setup.drafts \in Nat
      /\ BlockSize \in Nat \ {0} /\ MaxModelLen \in Nat
  BY Sizes DEF Types, Typed
<1>4. end \in Nat
  BY <1>3 DEF Smaller
<1>5. L \in Nat
  BY <1>3
<1>6. /\ trimmed[r] = Trimmed(r) /\ DOMAIN trimmed = Requests
      /\ \A x \in Requests : x # r => trimmed[x] = table[x]
  BY <1>3
<1> HIDE DEF trimmed, free
<1>7. /\ table'[r] = Grown(r, need) /\ DOMAIN table' = Requests
      /\ \A x \in Requests : x # r => table'[x] = table[x]
      /\ table' = [x \in Requests |-> table'[x]]
  BY <1>1, <1>2, <1>6 DEF Grown
<1> HIDE DEF end, L
<1>8. Ceil(end, BlockSize) \in Nat /\ end <= Ceil(end, BlockSize) * BlockSize
  BY <1>3, <1>4, CeilCovers
<1>9. need \in Nat /\ Ceil(end, BlockSize) <= L + need
  BY <1>5, <1>8 DEF Larger
<1>10. need <= Cardinality(Free(r))
  BY <1>1, <1>2
<1> HIDE DEF need
<1>11. Grown(r, need) \in Seq(0..NumBlocks) /\ Len(Grown(r, need)) = L + need
  BY <1>3, <1>9, <1>10, GrownIs DEF L
<1>12. table' \in [Requests -> Seq(0..NumBlocks)]
  <2>1. \A x \in Requests : table'[x] \in Seq(0..NumBlocks)
    BY <1>3, <1>7, <1>11
  <2>. QED
    BY <1>7, <2>1
<1>13. end <= (L + need) * BlockSize
  <2>1. L + need \in Nat
    BY <1>5, <1>9
  <2>2. /\ Ceil(end, BlockSize) * BlockSize \in Nat /\ (L + need) * BlockSize \in Nat
        /\ Ceil(end, BlockSize) * BlockSize <= (L + need) * BlockSize
    BY <1>3, <1>8, <1>9, <2>1, Multiples
  <2> DEFINE a == Ceil(end, BlockSize) * BlockSize
             b == (L + need) * BlockSize
  <2>3. a \in Nat /\ b \in Nat /\ a <= b /\ end <= a
    BY <1>8, <2>2
  <2> HIDE DEF a, b
  <2>4. end <= b
    BY <1>4, <2>3
  <2>. QED
    BY <2>4 DEF b
<1>14. Covered(r, Smaller(computed[r] + q + setup.drafts, MaxModelLen))'
  BY <1>1, <1>7, <1>11, <1>13 DEF Covered, end
<1>. QED
  BY <1>7, <1>9, <1>10, <1>12, <1>14

\* Scheduling a request takes no block from another and keeps what is held.
LEMMA AdmitTables ==
  ASSUME Types, Owned, Tables, Held, NEW r \in Running, NEW n \in Nat,
         n <= Cardinality(Free(r)),
         table' \in [Requests -> Seq(0..NumBlocks)],
         table'[r] = Grown(r, n), \A x \in Requests : x # r => table'[x] = table[x],
         computed' = computed, kv' = kv
  PROVE  Owned' /\ Tables' /\ Held'
<1> DEFINE L == Len(table[r])
           g == Grown(r, n)
<1>1. Typed /\ r \in Requests /\ BlockSize \in Nat \ {0} /\ NumBlocks \in Nat
      /\ computed \in [Requests -> -1..MaxModelLen] /\ computed[r] \in Nat /\ Window \in Nat
  BY Sizes DEF Types, Running
<1>2. /\ L \in Nat /\ DOMAIN table[r] = 1..L
      /\ Len(g) = L + n /\ DOMAIN g = 1..(L + n)
      /\ \A i \in 1..L : g[i] = IF Behind(r, i) THEN NullBlock ELSE table[r][i]
      /\ \A i \in (L + 1)..(L + n) : g[i] \in Free(r)
      /\ \A i, j \in (L + 1)..(L + n) : g[i] = g[j] => i = j
  BY <1>1, GrownIs
<1>3. /\ Free(r) \subseteq 1..NumBlocks
      /\ \A x \in Requests : x # r => \A i \in DOMAIN table[x] : table[x][i] \notin Free(r)
      /\ \A i \in DOMAIN table[r] : ~Behind(r, i) => table[r][i] \notin Free(r)
  BY <1>1, FreeIs
<1>0. table'[r] = g
  OBVIOUS
<1> HIDE DEF L, g
<1>4. \A i \in 1..(L + n) : i \in 1..L \/ i \in (L + 1)..(L + n)
  BY <1>2
<1>5. ASSUME NEW x \in Requests, NEW i \in DOMAIN table'[x], table'[x][i] # NullBlock
      PROVE  \/ /\ i \in DOMAIN table[x] /\ table'[x][i] = table[x][i]
                /\ table'[x][i] \notin Free(r)
             \/ x = r /\ i \in (L + 1)..(L + n) /\ table'[x][i] \in Free(r)
  <2>1. CASE x # r
    <3>1. table'[x] = table[x]
      BY <2>1
    <3>. QED
      BY <1>3, <2>1, <3>1
  <2>2. CASE x = r
    <3>1. i \in 1..(L + n) /\ g[i] # NullBlock /\ table'[x][i] = g[i]
      BY <1>0, <1>2, <1>5, <2>2
    <3>2. CASE i \in 1..L
      <4>1. ~Behind(r, i) /\ g[i] = table[r][i]
        BY <1>2, <3>1, <3>2
      <4>. QED
        BY <1>2, <1>3, <2>2, <3>1, <3>2, <4>1
    <3>3. CASE i \in (L + 1)..(L + n)
      BY <1>2, <2>2, <3>1, <3>3
    <3>. QED
      BY <1>4, <3>1, <3>2, <3>3
  <2>. QED
    BY <2>1, <2>2
<1>6. Owned'
  <2>1. ASSUME NEW x \in Requests, NEW y \in Requests, NEW i \in DOMAIN table'[x],
               NEW j \in DOMAIN table'[y], table'[x][i] # NullBlock,
               table'[x][i] = table'[y][j]
        PROVE  x = y /\ i = j
    <3>1. table'[y][j] # NullBlock
      BY <2>1
    <3>2. \/ /\ i \in DOMAIN table[x] /\ table'[x][i] = table[x][i]
             /\ table'[x][i] \notin Free(r)
          \/ x = r /\ i \in (L + 1)..(L + n) /\ table'[x][i] \in Free(r)
      BY <1>5, <2>1
    <3>3. \/ /\ j \in DOMAIN table[y] /\ table'[y][j] = table[y][j]
             /\ table'[y][j] \notin Free(r)
          \/ y = r /\ j \in (L + 1)..(L + n) /\ table'[y][j] \in Free(r)
      BY <1>5, <3>1
    <3>4. CASE table'[x][i] \in Free(r)
      <4>1. x = r /\ y = r /\ i \in (L + 1)..(L + n) /\ j \in (L + 1)..(L + n)
        BY <2>1, <3>2, <3>3, <3>4
      <4>2. g[i] = g[j]
        BY <1>0, <2>1, <4>1
      <4>. QED
        BY <1>2, <4>1, <4>2
    <3>5. CASE table'[x][i] \notin Free(r)
      <4>1. /\ i \in DOMAIN table[x] /\ j \in DOMAIN table[y]
            /\ table[x][i] # NullBlock /\ table[x][i] = table[y][j]
        BY <2>1, <3>2, <3>3, <3>5
      <4>2. \A a \in DOMAIN table[x], b \in DOMAIN table[y] :
              table[x][a] # NullBlock /\ table[x][a] = table[y][b] => x = y /\ a = b
        BY Zenon DEF Owned
      <4>. QED
        BY <4>1, <4>2
    <3>. QED
      BY <3>4, <3>5
  <2>. QED
    BY <2>1 DEF Owned
<1>7. \A x \in Running : Covered(x, computed[x]) /\ KeptFrom(x, computed[x] - Window + 1)
  BY DEF Tables
<1>8. Running' = Running
  BY DEF Running
<1>9. Tables'
  <2>1. ASSUME NEW x \in Running, x # r
        PROVE  Covered(x, computed[x])' /\ KeptFrom(x, computed[x] - Window + 1)'
    <3>1. table'[x] = table[x]
      BY <2>1 DEF Running
    <3>. QED
      BY <1>7, <3>1 DEF Covered, KeptFrom
  <2>2. Covered(r, computed[r])'
    <3>1. computed[r] <= L * BlockSize
      BY <1>7 DEF Covered, L
    <3>2. L + n \in Nat /\ L <= L + n
      BY <1>2
    <3>3. L * BlockSize \in Nat /\ (L + n) * BlockSize \in Nat
          /\ L * BlockSize <= (L + n) * BlockSize
      BY <1>1, <1>2, <3>2, Multiples
    <3> DEFINE a == L * BlockSize
               b == (L + n) * BlockSize
    <3>4. a \in Nat /\ b \in Nat /\ a <= b /\ computed[r] <= a
      BY <3>1, <3>3
    <3> HIDE DEF a, b
    <3>5. computed[r] <= b
      BY <1>1, <3>4
    <3>6. Len(table'[r]) = L + n
      BY <1>0, <1>2
    <3>. QED
      BY <3>5, <3>6 DEF Covered, b
  <2>3. KeptFrom(r, computed[r] - Window + 1)'
    <3>1. ASSUME NEW i \in DOMAIN g, g[i] = NullBlock
          PROVE  i * BlockSize <= computed[r] - Window + 1
      <4>1. CASE i \in 1..L
        <5>1. Behind(r, i) \/ table[r][i] = NullBlock
          BY <1>2, <3>1, <4>1
        <5>. QED
          BY <1>2, <1>7, <4>1, <5>1 DEF Behind, KeptFrom
      <4>2. CASE i \in (L + 1)..(L + n)
        <5>1. g[i] \in 1..NumBlocks
          BY <1>2, <1>3, <4>2
        <5>. QED
          BY <1>1, <3>1, <5>1 DEF NullBlock
      <4>. QED
        BY <1>2, <1>4, <4>1, <4>2
    <3>. QED
      BY <1>0, <3>1 DEF KeptFrom
  <2>4. ASSUME NEW x \in Running
        PROVE  Covered(x, computed[x])' /\ KeptFrom(x, computed[x] - Window + 1)'
    BY <2>1, <2>2, <2>3
  <2>. QED
    BY <1>8, <2>4 DEF Tables
<1>10. ASSUME NEW x \in Running, NEW p \in 0..(computed[x] - 1), Present(x, p)'
       PROVE  Present(x, p) /\ Slot(x, p)' = Slot(x, p)
  <2>1. BlockOf(x, p)' # NullBlock
    BY <1>10 DEF Present
  <2>2. x \in Requests /\ computed[x] \in Nat
    BY <1>1 DEF Running
  <2>3. BlockOf(x, p)' = BlockOf(x, p)
    <3> DEFINE i == p \div BlockSize + 1
    <3>1. BlockOf(x, p)' = IF i \in DOMAIN table'[x] THEN table'[x][i] ELSE NullBlock
      BY DEF BlockOf
    <3>2. BlockOf(x, p) = IF i \in DOMAIN table[x] THEN table[x][i] ELSE NullBlock
      BY DEF BlockOf
    <3>3. i \in DOMAIN table[x]
      <4>1. table[x] \in Seq(0..NumBlocks) /\ p \in Nat
        BY <1>1, <2>2 DEF Typed
      <4>2. Len(table[x]) \in Nat /\ DOMAIN table[x] = 1..Len(table[x])
        BY <4>1
      <4>3. Len(table[x]) * BlockSize \in Nat /\ computed[x] <= Len(table[x]) * BlockSize
        BY <1>1, <1>7, <4>2, Multiples DEF Covered
      <4>4. p < Len(table[x]) * BlockSize
        BY <2>2, <4>1, <4>3
      <4>5. p \div BlockSize \in 0..(Len(table[x]) - 1)
        BY <1>1, <4>1, <4>2, <4>4, QuotientBelow
      <4>. QED
        BY <4>2, <4>5
    <3> HIDE DEF i
    <3>4. i \in DOMAIN table'[x] /\ table'[x][i] # NullBlock
      BY <2>1, <3>1
    <3>5. \/ table'[x][i] = table[x][i]
          \/ x = r /\ i \in (L + 1)..(L + n)
      BY <1>5, <2>2, <3>4
    <3>6. ~(x = r /\ i \in (L + 1)..(L + n))
      BY <1>2, <3>3
    <3>. QED
      BY <3>1, <3>2, <3>3, <3>4, <3>5, <3>6
  <2>4. Present(x, p)
    BY <2>1, <2>3 DEF Present
  <2>5. Slot(x, p)' = Slot(x, p)
    BY <2>3 DEF Slot
  <2>. QED
    BY <2>4, <2>5
<1>11. Held'
  <2>1. ASSUME NEW x \in Running, NEW p \in 0..(computed[x] - 1), Present(x, p)'
        PROVE  kv'[Slot(x, p)'] = <<x, p, FALSE>>
    <3>1. Present(x, p) /\ Slot(x, p)' = Slot(x, p)
      BY <1>10, <2>1
    <3>2. kv[Slot(x, p)] = <<x, p, FALSE>>
      BY <3>1 DEF Held
    <3>. QED
      BY <3>1, <3>2
  <2>. QED
    BY <1>8, <2>1 DEF Held
<1>. QED
  BY <1>6, <1>9, <1>11

\* Scheduling a request keeps the invariant.
LEMMA AdmitKeeps ==
  ASSUME IInv, NEW r \in Requests, NEW q \in Queries(r), Admit(r, q)
  PROVE  IInv'
<1> DEFINE new == [r |-> r, from |-> computed[r], q |-> q]
           at == 1 + (IF IsDecode(new) THEN NumDecodes ELSE Len(batch))
<1>1. /\ Types /\ Typed /\ Owned /\ Tables /\ Held /\ Batched /\ TargetPass
  BY DEF IInv, Types
<1>2. /\ phase = "batch" /\ pass = "target" /\ r \in Running
      /\ \A i \in DOMAIN batch : batch[i].r # r
      /\ NumTokens + q <= MaxTokens
      /\ setup.drafter = "dspark" => (Len(batch) + 1) * setup.drafts <= MaxTokens
      /\ batch' = InsertAt(batch, at, new)
      /\ setup' = setup /\ computed' = computed /\ kv' = kv /\ pass' = pass /\ phase' = phase
      /\ buf' = buf
  BY DEF Admit
<1>3. /\ q \in Nat \ {0} /\ computed[r] \in Nat /\ computed[r] + q <= MaxModelLen
      /\ Scheduled(new)
  BY <1>1, <1>2, QueryIs
<1>4. PICK n \in Nat :
           /\ n <= Cardinality(Free(r))
           /\ table' \in [Requests -> Seq(0..NumBlocks)]
           /\ table'[r] = Grown(r, n) /\ \A x \in Requests : x # r => table'[x] = table[x]
           /\ Covered(r, Smaller(computed[r] + q + setup.drafts, MaxModelLen))'
  <2>1. q \in Nat
    BY <1>3
  <2>. QED
    BY <1>1, <1>3, <2>1, AdmitGrows
<1>5. Owned' /\ Tables' /\ Held'
  BY <1>1, <1>2, <1>4, AdmitTables
<1>6. /\ batch \in Seq(Request) /\ Len(batch) \in Nat /\ DOMAIN batch = 1..Len(batch)
      /\ NumTokens \in Nat /\ MaxTokens \in Nat /\ MaxModelLen \in Nat
      /\ NumDecodes \in 0..Len(batch)
      /\ \A i \in DOMAIN batch : IsDecode(batch[i]) <=> i <= NumDecodes
  BY <1>1, StartsIs, Sizes, DecodesFirst DEF Types, Batched
<1>7. new \in Request
  <2>1. q \in 1..MaxTokens /\ computed[r] \in 0..MaxModelLen
    BY <1>2, <1>3, <1>6
  <2>. QED
    BY <2>1 DEF Request
<1>8. at \in 1..(Len(batch) + 1)
  BY <1>6
<1>9. With(batch', batch, at, new)
  <2> HIDE DEF at, new
  <2>. QED
    BY <1>2, <1>6, <1>7, <1>8, InsertIs
<1>10. /\ new.r = r /\ new.from = computed[r] /\ new.q = q
       /\ IsDecode(new) => at = 1 + NumDecodes
       /\ ~IsDecode(new) => at = 1 + Len(batch)
  OBVIOUS
<1> HIDE DEF at, new
<1>11. /\ batch' \in Seq(Request) /\ Len(batch') = Len(batch) + 1
       /\ DOMAIN batch' = 1..(Len(batch) + 1)
       /\ \A j \in 1..(at - 1) : batch'[j] = batch[j]
       /\ batch'[at] = new
       /\ \A j \in (at + 1)..(Len(batch) + 1) : batch'[j] = batch[j - 1]
  BY <1>6, <1>9 DEF With
\* An entry is the new one, or an old one in its old order.
<1>12. ASSUME NEW j \in DOMAIN batch'
       PROVE  \/ j = at /\ batch'[j] = new
              \/ j < at /\ j \in DOMAIN batch /\ batch'[j] = batch[j]
              \/ j > at /\ j - 1 \in DOMAIN batch /\ batch'[j] = batch[j - 1]
  <2>1. j \in 1..(Len(batch) + 1)
    BY <1>11
  <2>2. CASE j < at
    <3>1. j \in 1..(at - 1) /\ j \in 1..Len(batch)
      BY <1>6, <1>8, <2>1, <2>2
    <3>. QED
      BY <1>6, <1>11, <2>2, <3>1
  <2>3. CASE j > at
    <3>1. j \in (at + 1)..(Len(batch) + 1) /\ j - 1 \in 1..Len(batch)
      BY <1>6, <1>8, <2>1, <2>3
    <3>. QED
      BY <1>6, <1>11, <2>3, <3>1
  <2>4. CASE j = at
    BY <1>11, <2>4
  <2>. QED
    BY <1>8, <2>1, <2>2, <2>3, <2>4
<1>13. NumTokens' = NumTokens + q
  <2>1. StartsOf(batch')[Len(batch')] = StartsOf(batch)[Len(batch)] + new.q
    BY <1>6, <1>7, <1>8, <1>9, InsertSums
  <2>. QED
    BY <1>10, <2>1 DEF NumTokens, QueryStart
<1>14. Types'
  <2>1. Buffers'
    BY <1>1, <1>2, SameBuffers DEF Types
  <2>. QED
    BY <1>1, <1>2, <1>4, <1>11, <2>1 DEF Types, Typed
<1>15. \A b : IsDecode(b)' = IsDecode(b)
  BY <1>2, SameRules
<1>16. Batched'
  <2>1. \A i, j \in DOMAIN batch' : batch'[i].r = batch'[j].r => i = j
    <3>. TAKE i, j \in DOMAIN batch'
    <3>. HAVE batch'[i].r = batch'[j].r
    <3>1. \A x, y \in DOMAIN batch : batch[x].r = batch[y].r => x = y
      BY <1>1 DEF Batched
    <3>2. i \in Nat /\ j \in Nat /\ at \in Nat
      BY <1>6, <1>8, <1>11
    <3>3. \/ i = at /\ batch'[i] = new
          \/ i < at /\ i \in DOMAIN batch /\ batch'[i] = batch[i]
          \/ i > at /\ i - 1 \in DOMAIN batch /\ batch'[i] = batch[i - 1]
      BY <1>12
    <3>4. \/ j = at /\ batch'[j] = new
          \/ j < at /\ j \in DOMAIN batch /\ batch'[j] = batch[j]
          \/ j > at /\ j - 1 \in DOMAIN batch /\ batch'[j] = batch[j - 1]
      BY <1>12
    <3>5. CASE i = at
      BY <1>2, <1>10, <3>2, <3>3, <3>4, <3>5
    <3>6. CASE j = at
      BY <1>2, <1>10, <3>2, <3>3, <3>4, <3>6
    <3>7. CASE i # at /\ j # at
      BY <3>1, <3>2, <3>3, <3>4, <3>7
    <3>. QED
      BY <3>5, <3>6, <3>7
  <2>2. \A i \in DOMAIN batch' : batch'[i].r \in Running'
    <3>1. Running' = Running
      BY <1>2 DEF Running
    <3>2. \A i \in DOMAIN batch : batch[i].r \in Running
      BY <1>1 DEF Batched
    <3>. QED
      BY <1>2, <1>10, <1>12, <3>1, <3>2
  <2>3. \A i, j \in DOMAIN batch' :
          i < j /\ IsDecode(batch'[j]) => IsDecode(batch'[i])
    <3>. TAKE i, j \in DOMAIN batch'
    <3>. HAVE i < j /\ IsDecode(batch'[j])
    <3>1. i \in Nat /\ j \in Nat /\ at \in Nat
      BY <1>6, <1>8, <1>11
    <3>2. \/ i = at /\ batch'[i] = new
          \/ i < at /\ i \in DOMAIN batch /\ batch'[i] = batch[i]
          \/ i > at /\ i - 1 \in DOMAIN batch /\ batch'[i] = batch[i - 1]
      BY <1>12
    <3>3. \/ j = at /\ batch'[j] = new
          \/ j < at /\ j \in DOMAIN batch /\ batch'[j] = batch[j]
          \/ j > at /\ j - 1 \in DOMAIN batch /\ batch'[j] = batch[j - 1]
      BY <1>12
    <3>4. \A x \in DOMAIN batch : IsDecode(batch[x]) <=> x <= NumDecodes
      BY <1>6
    <3>5. NumDecodes \in Nat /\ NumDecodes <= Len(batch)
      BY <1>6
    <3>6. CASE IsDecode(new)
      <4>1. at = 1 + NumDecodes
        BY <1>10, <3>6
      <4>2. j > at => ~(j - 1 <= NumDecodes)
        BY <3>1, <3>5, <4>1
      <4>3. ~(j > at)
        BY <3>3, <3>4, <4>2, <3>1
      <4>4. i < at /\ i <= NumDecodes
        BY <3>1, <3>5, <4>1, <4>3
      <4>. QED
        BY <3>1, <3>2, <3>4, <4>4
    <3>7. CASE ~IsDecode(new)
      <4>1. at = 1 + Len(batch)
        BY <1>10, <3>7
      <4>2. j < at
        <5>1. j # at
          BY <3>3, <3>7, <3>1
        <5>2. j \in 1..(Len(batch) + 1)
          BY <1>11
        <5>. QED
          BY <1>6, <4>1, <5>1, <5>2
      <4>3. j \in DOMAIN batch /\ batch'[j] = batch[j] /\ i < at
        BY <3>1, <3>3, <4>2
      <4>4. i \in DOMAIN batch /\ batch'[i] = batch[i]
        BY <3>1, <3>2, <4>3
      <4>5. j <= NumDecodes
        BY <3>4, <4>3
      <4>6. i <= NumDecodes
        BY <3>1, <3>5, <4>5
      <4>. QED
        BY <3>4, <4>4, <4>6
    <3>. QED
      BY <3>6, <3>7
  <2>4. Sorted'
    <3>1. \A b : IsDecode(b)' = IsDecode(b)
      BY <1>15
    <3>2. DecodeThreshold' = DecodeThreshold
      BY <1>2, SameRules
    <3>. QED
      BY <2>3, <3>2 DEF Sorted, IsDecode
  <2>5. NumTokens' <= MaxTokens
    BY <1>2, <1>13
  <2>6. setup'.drafter = "dspark" => Len(batch') * setup'.drafts <= MaxTokens
    BY <1>2, <1>11
  <2>7. phase' = "batch"
    BY <1>2
  <2>. QED
    BY <2>1, <2>2, <2>4, <2>5, <2>6, <2>7 DEF Batched
<1>17. TargetPass'
  <2>1. ASSUME NEW x \in DOMAIN batch
        PROVE  /\ Scheduled(batch[x])
               /\ batch[x].from = computed[batch[x].r]
               /\ Smaller(batch[x].from + batch[x].q + setup.drafts, MaxModelLen)
                    <= Len(table'[batch[x].r]) * BlockSize
    <3>1. Scheduled(batch[x]) /\ ToCompute(batch[x])
      BY <1>1, <1>2 DEF TargetPass
    <3>2. batch[x].r # r /\ batch[x].r \in Requests
      BY <1>1, <1>2, RequestIs
    <3>3. table'[batch[x].r] = table[batch[x].r]
      BY <1>4, <3>2
    <3>4. /\ batch[x].from = computed[batch[x].r]
          /\ Covered(batch[x].r,
                     Smaller(batch[x].from + batch[x].q + setup.drafts, MaxModelLen))
      BY <3>1 DEF ToCompute
    <3>5. Smaller(batch[x].from + batch[x].q + setup.drafts, MaxModelLen)
            <= Len(table'[batch[x].r]) * BlockSize
      BY <3>3, <3>4 DEF Covered
    <3>. QED
      BY <3>1, <3>4, <3>5
  <2>2. ASSUME NEW j \in DOMAIN batch' PROVE Scheduled(batch[j])' /\ ToCompute(batch[j])'
    <3> DEFINE b == batch'[j]
    <3>1. /\ Scheduled(b) /\ b.from = computed[b.r]
          /\ \/ b = new \/ \E x \in DOMAIN batch : b = batch[x]
      BY <1>3, <1>10, <1>12, <2>1
    <3>2. Smaller(b.from + b.q + setup.drafts, MaxModelLen) <= Len(table'[b.r]) * BlockSize
      <4>1. CASE b = new
        BY <1>2, <1>4, <1>10, <4>1 DEF Covered
      <4>2. CASE \E x \in DOMAIN batch : b = batch[x]
        BY <2>1, <4>2
      <4>. QED
        BY <3>1, <4>1, <4>2
    <3>3. Scheduled(batch[j])'
      BY <1>2, <3>1 DEF Scheduled, ImagesOf
    <3>4. ToCompute(batch[j])'
      BY <1>2, <3>1, <3>2 DEF ToCompute, Covered
    <3>. QED
      BY <3>3, <3>4
  <2>. QED
    BY <1>2, <2>2 DEF TargetPass
<1>18. DraftPass' /\ Drafting' /\ Meta' /\ Built' /\ Seen'
  BY <1>2 DEF DraftPass, Drafting, Meta, Built, Seen
<1>. QED
  BY <1>5, <1>14, <1>16, <1>17, <1>18 DEF IInv

-----------------------------------------------------------------------------
(* Every step *)

\* A step that changes nothing keeps the invariant.
LEMMA StutterKeeps ==
  ASSUME IInv, UNCHANGED vars
  PROVE  IInv'
<1>1. /\ Types /\ Typed /\ Owned /\ Tables /\ Held /\ Batched /\ TargetPass /\ DraftPass
      /\ Drafting /\ Meta /\ Built /\ Seen
  BY DEF IInv, Types
<1>2. /\ setup' = setup /\ computed' = computed /\ table' = table /\ kv' = kv /\ pass' = pass
      /\ phase' = phase /\ batch' = batch /\ buf' = buf /\ meta' = meta /\ seen' = seen
  BY DEF vars, engine
<1>3. /\ \A r, m : KeptFrom(r, m)' = KeptFrom(r, m) /\ Covered(r, m)' = Covered(r, m)
      /\ Owned' = Owned /\ Running' = Running
      /\ \A r, p : Slot(r, p)' = Slot(r, p) /\ Present(r, p)' = Present(r, p)
  BY <1>2, SameTables, SameTable DEF Running
<1>4. /\ \A r : ImagesOf(r)' = ImagesOf(r)
      /\ NumTokens' = NumTokens /\ Tokens' = Tokens /\ DecodeThreshold' = DecodeThreshold
  BY <1>2, SameRules, SameBatch
<1>5. NumRows' = NumRows
  BY <1>2, <1>4 DEF NumRows
<1>6. Types'
  <2>1. Buffers'
    BY <1>1, <1>2, SameBuffers DEF Types
  <2>. QED
    BY <1>1, <1>2, <2>1 DEF Types, Typed
<1>7. Tables' /\ Held'
  BY <1>1, <1>2, <1>3 DEF Tables, Held
<1>8. Batched'
  <2>1. Sorted'
    BY <1>1, <1>2, <1>4 DEF Batched, Sorted, IsDecode
  <2>. QED
    BY <1>1, <1>2, <1>3, <1>4, <2>1 DEF Batched
<1>9. TargetPass'
  <2>1. ASSUME NEW i PROVE /\ Scheduled(batch[i])' <=> Scheduled(batch[i])
                           /\ ToCompute(batch[i])' <=> ToCompute(batch[i])
                           /\ Accepted(batch[i])' <=> Accepted(batch[i])
    <3>1. Scheduled(batch[i])' <=> Scheduled(batch[i])
      BY <1>2, <1>4 DEF Scheduled
    <3>2. ToCompute(batch[i])' <=> ToCompute(batch[i])
      BY <1>2, <1>3 DEF ToCompute
    <3>3. Accepted(batch[i])' <=> Accepted(batch[i])
      BY <1>2, <1>3 DEF Accepted
    <3>. QED
      BY <3>1, <3>2, <3>3
  <2>. QED
    BY <1>1, <1>2, <2>1 DEF TargetPass
<1>10. DraftPass'
  <2>1. ASSUME NEW i, ToDraft(batch[i]) PROVE ToDraft(batch[i])'
    BY <1>2, <1>3, <2>1 DEF ToDraft
  <2>2. ASSUME NEW k, Ahead(k) PROVE Ahead(k)'
    BY <1>2, <2>2 DEF Ahead
  <2>. QED
    BY <1>1, <1>2, <2>1, <2>2 DEF DraftPass
<1>11. Drafting'
  BY <1>1, <1>2, <1>3 DEF Drafting
<1>12. Meta'
  BY <1>1, <1>2, <1>4, <1>5 DEF Meta
<1>13. \A t : RowOf(t)' = RowOf(t)
  BY <1>2 DEF RowOf
<1>14. Built'
  <2>1. ASSUME NEW t, RowFor(RowOf(t), Tokens[t]) PROVE RowFor(RowOf(t), Tokens[t])'
    <3>1. RowOf(t)'.len = RowOf(t).len /\ RowOf(t)'.slots = RowOf(t).slots
      BY <1>13
    <3>. QED
      BY <1>2, <2>1, <3>1, RowForSame
  <2>. QED
    BY <1>1, <1>2, <1>4, <1>5, <1>13, <2>1 DEF Built
<1>15. Seen'
  <2>1. \A k : FirstSeen(k)' = FirstSeen(k) /\ EndSeen(k)' = EndSeen(k)
    BY <1>2, SameSeen
  <2>2. \A t : FirstSeen(Tokens[t])' = FirstSeen(Tokens[t])
               /\ EndSeen(Tokens[t])' = EndSeen(Tokens[t])
    BY <1>4, <2>1
  <2>3. ASSUME NEW t,
               ReadsExactly(t, FirstSeen(Tokens[t])..(EndSeen(Tokens[t]) - 1))
        PROVE  ReadsExactly(t, FirstSeen(Tokens[t])..(EndSeen(Tokens[t]) - 1))'
    <3> DEFINE S == FirstSeen(Tokens[t])..(EndSeen(Tokens[t]) - 1)
    <3>1. S' = S
      BY <2>2
    <3>2. batch'[Tokens'[t].req].r = batch[Tokens[t].req].r
      BY <1>2, <1>4
    <3>3. /\ seen[t].len = Cardinality(S)
          /\ seen[t].reads = {<<batch[Tokens[t].req].r, p,
                                pass # "target" /\ p >= computed[batch[Tokens[t].req].r]>> :
                              p \in S}
      BY <2>3 DEF ReadsExactly
    <3> HIDE DEF S
    <3>4. /\ seen'[t].len = Cardinality(S')
          /\ seen'[t].reads = {<<batch'[Tokens'[t].req].r, p,
                                 pass' # "target" /\ p >= computed'[batch'[Tokens'[t].req].r]>> :
                               p \in S'}
      BY <1>2, <3>1, <3>2, <3>3
    <3>5. ReadsExactly(t, S)'
      BY <3>4 DEF ReadsExactly
    <3>. QED
      BY <3>5 DEF S
  <2>. QED
    BY <1>1, <1>2, <1>4, <1>5, <2>3 DEF Seen
<1>. QED
  BY <1>1, <1>3, <1>6, <1>7, <1>8, <1>9, <1>10, <1>11, <1>12, <1>14, <1>15 DEF IInv

\* Every step keeps the invariant.
LEMMA NextKeeps ==
  ASSUME IInv, [Next]_vars
  PROVE  IInv'
<1>1. ASSUME NEW r \in Requests, NEW q \in Queries(r), Admit(r, q) PROVE IInv'
  BY <1>1, AdmitKeeps
<1>2. ASSUME NEW r \in Requests, Finish(r) PROVE IInv'
  BY <1>2, FinishKeeps
<1>3. ASSUME NEW slack \in 0..1, Build(slack) PROVE IInv'
  BY <1>3, BuildKeeps
<1>4. CASE Forward
  BY <1>4, ForwardStep
<1>5. CASE StartDraft
  BY <1>5, StartKeeps
<1>6. CASE AdvanceDraft
  BY <1>6, AdvanceStep
<1>7. CASE UpdateDraft
  BY <1>7, UpdateKeeps
<1>8. CASE EndStep
  BY <1>8, EndKeeps
<1>9. CASE UNCHANGED vars
  BY <1>9, StutterKeeps
<1>. QED
  BY <1>1, <1>2, <1>3, <1>4, <1>5, <1>6, <1>7, <1>8, <1>9 DEF Next

\* The invariant holds in every state the scheduler, the builder and the kernels
\* reach, for every number of requests, blocks, tokens and setups.
THEOREM Invariant == Spec => []IInv
<1>1. Init => IInv
  BY InitKeeps
<1>2. IInv /\ [Next]_vars => IInv'
  BY NextKeeps
<1>. QED
  BY <1>1, <1>2, PTL DEF Spec

-----------------------------------------------------------------------------
(* What the invariant says of the reads *)

\* Tokens are numbered from 1.
LEMMA TokensOf ==
  DOMAIN Tokens = 1..NumTokens
  BY DEF Tokens

\* What a token of the target's pass is to read, in the terms of its image.
LEMMA TargetSeen ==
  ASSUME Types, pass = "target", NEW t \in 1..NumTokens
  PROVE  LET k == Tokens[t]
             p == Position(k)
         IN  /\ p \in Nat /\ Left(k) \in Nat /\ Right(k) \in Nat /\ Left(k) <= p
             /\ FirstSeen(k) = Smaller(Larger(p - Window + 1, 0), p - Left(k))
             /\ EndSeen(k) = p + Right(k) + 1
<1> DEFINE k == Tokens[t]
           p == Position(k)
           f == FirstSeen(k)
           e == EndSeen(k)
<1>1. batch \in Seq(Request) /\ setup \in Setups
  BY DEF Types
<1>2. p \in Nat
  BY <1>1, TokenIs
<1>3. Window \in Nat \ {0} /\ MaxImageTokens \in Nat
  BY Sizes
<1>4. /\ f = Larger(p - (Window - 1) - Larger(Left(k) - (Window - 1), 0), 0)
      /\ e = p + Right(k) + 1
  BY DEF FirstSeen, EndSeen
<1>5. /\ Left(k) \in Nat /\ Right(k) \in Nat /\ Left(k) <= p
      /\ Left(k) + Right(k) < MaxImageTokens \/ (Left(k) = 0 /\ Right(k) = 0)
  <2>1. CASE Left(k) = 0 /\ Right(k) = 0
    <3>. HIDE DEF p
    <3>. QED
      BY <1>2, <2>1
  <2>2. CASE \E s \in ImagesOf(batch[k.req].r) :
               /\ s \in Nat \X Nat /\ p \in s[1]..s[2] /\ s[2] - s[1] < MaxImageTokens
               /\ Left(k) = p - s[1] /\ Right(k) = s[2] - p
    <3>1. PICK s \in ImagesOf(batch[k.req].r) :
               /\ s \in Nat \X Nat /\ p \in s[1]..s[2] /\ s[2] - s[1] < MaxImageTokens
               /\ Left(k) = p - s[1] /\ Right(k) = s[2] - p
      BY <2>2
    <3>2. s[1] \in Nat /\ s[2] \in Nat
      BY <3>1
    <3> HIDE DEF p, k
    <3>. QED
      BY <1>2, <1>3, <3>1, <3>2
  <2>. QED
    BY <1>1, <2>1, <2>2, Sides
<1> HIDE DEF k, p, f, e
<1>6. Sided(p, Window, MaxImageTokens, Left(k), Right(k), 0, f, e)
  BY <1>2, <1>3, <1>4, <1>5 DEF Sided
<1>7. Widened(p, Window, MaxImageTokens, Left(k), Right(k), 0, f, e)
  BY <1>6, Bounds
<1>8. f = Smaller(Larger(p - Window + 1, 0), p - Left(k))
  BY <1>7 DEF Widened
<1>. QED
  BY <1>2, <1>4, <1>5, <1>8 DEF k, p, f, e

\* Of the invariant, for a token outside images: its window.
LEMMA WindowHolds ==
  ASSUME IInv PROVE WindowExact
<1>1. Types /\ Seen /\ setup \in Setups /\ batch \in Seq(Request) /\ Window \in Nat \ {0}
  BY Sizes DEF IInv, Types
<1>2. SUFFICES ASSUME Read("target"), NEW t \in 1..NumTokens, ImageAround(t) = {}
               PROVE  ReadsExactly(t, WindowAt(Position(Tokens[t])))
  BY TokensOf DEF WindowExact
<1> DEFINE k == Tokens[t]
           p == Position(k)
<1>3. pass = "target" /\ phase = "done"
  BY <1>2 DEF Read
<1>4. ReadsExactly(t, FirstSeen(k)..(EndSeen(k) - 1))
  BY <1>1, <1>3 DEF Seen
<1>5. Left(k) = 0 /\ Right(k) = 0
  <2>1. CASE \E s \in ImagesOf(batch[k.req].r) : p \in s[1]..s[2] /\ ImageAround(t) = s[1]..s[2]
    BY <1>2, <2>1
  <2>. QED
    BY <1>1, <2>1, Sides
<1>6. /\ p \in Nat
      /\ FirstSeen(k) = Smaller(Larger(p - Window + 1, 0), p - 0)
      /\ EndSeen(k) = p + 0 + 1
  BY <1>1, <1>3, <1>5, TargetSeen
<1> HIDE DEF p
<1>7. FirstSeen(k) = Larger(p - Window + 1, 0) /\ EndSeen(k) - 1 = p
  <2>1. Smaller(Larger(p - Window + 1, 0), p - 0) = Larger(p - Window + 1, 0)
    BY <1>1, <1>6 DEF Smaller, Larger
  <2>. QED
    BY <1>6, <2>1
<1>8. FirstSeen(k)..(EndSeen(k) - 1) = WindowAt(p)
  BY <1>7 DEF WindowAt
<1>. QED
  BY <1>4, <1>8 DEF p

\* A window that ends inside a span joins it to one interval.
Joined(a, b, W, p) ==
    Smaller(Larger(p - W + 1, 0), a)..b = (Larger(p - W + 1, 0)..p) \cup (a..b)

\* For a token of an image: its window and the image.
LEMMA ImagesHold ==
  ASSUME IInv PROVE ImagesWhole
<1>1. Types /\ Seen /\ setup \in Setups /\ batch \in Seq(Request) /\ Window \in Nat \ {0}
  BY Sizes DEF IInv, Types
<1>2. SUFFICES ASSUME Read("target"), NEW t \in 1..NumTokens, ImageAround(t) # {}
               PROVE  ReadsExactly(t, WindowAt(Position(Tokens[t])) \cup ImageAround(t))
  BY TokensOf DEF ImagesWhole
<1> DEFINE k == Tokens[t]
           p == Position(k)
<1>3. pass = "target" /\ phase = "done"
  BY <1>2 DEF Read
<1>4. ReadsExactly(t, FirstSeen(k)..(EndSeen(k) - 1))
  BY <1>1, <1>3 DEF Seen
<1>5. PICK s \in ImagesOf(batch[k.req].r) :
        /\ s \in Nat \X Nat /\ p \in s[1]..s[2] /\ ImageAround(t) = s[1]..s[2]
        /\ Left(k) = p - s[1] /\ Right(k) = s[2] - p
  BY <1>1, <1>2, Sides
<1>6. /\ p \in Nat
      /\ FirstSeen(k) = Smaller(Larger(p - Window + 1, 0), p - Left(k))
      /\ EndSeen(k) = p + Right(k) + 1
  BY <1>1, <1>3, TargetSeen
<1>7. s[1] \in Nat /\ s[2] \in Nat
  BY <1>5
<1> HIDE DEF p
<1>8. p - Left(k) = s[1] /\ p + Right(k) + 1 = s[2] + 1
  BY <1>5, <1>6, <1>7
<1>9. FirstSeen(k) = Smaller(Larger(p - Window + 1, 0), s[1]) /\ EndSeen(k) - 1 = s[2]
  BY <1>6, <1>7, <1>8
<1>10. \A a, b, W, P \in Nat : a <= P /\ P <= b => Joined(a, b, W, P)
  BY DEF Joined, Smaller, Larger
<1>11. s[1] <= p /\ p <= s[2] /\ Window \in Nat
  BY <1>1, <1>5, <1>6, <1>7
<1>12. Smaller(Larger(p - Window + 1, 0), s[1])..s[2]
         = (Larger(p - Window + 1, 0)..p) \cup (s[1]..s[2])
  <2>1. Joined(s[1], s[2], Window, p)
    BY <1>6, <1>7, <1>10, <1>11
  <2>. QED
    BY <2>1 DEF Joined
<1>13. FirstSeen(k)..(EndSeen(k) - 1) = WindowAt(p) \cup ImageAround(t)
  BY <1>5, <1>9, <1>12 DEF WindowAt
<1>. QED
  BY <1>4, <1>13 DEF p

\* For a token drafted by MTP: its window.
LEMMA DraftsHold ==
  ASSUME IInv PROVE DraftsExact
<1>1. Types /\ Seen /\ batch \in Seq(Request) /\ Window \in Nat
  BY Sizes DEF IInv, Types
<1>2. SUFFICES ASSUME Read("mtp"), NEW t \in 1..NumTokens
               PROVE  ReadsExactly(t, WindowAt(Position(Tokens[t])))
  BY TokensOf DEF DraftsExact
<1> DEFINE k == Tokens[t]
           p == Position(k)
<1>3. pass = "mtp" /\ phase = "done"
  BY <1>2 DEF Read
<1>4. ReadsExactly(t, FirstSeen(k)..(EndSeen(k) - 1))
  BY <1>1, <1>3 DEF Seen
<1>5. p \in Nat /\ FirstSeen(k) = Larger(p - (Window - 1), 0) /\ EndSeen(k) = p + 1
  BY <1>1, <1>3, TokenIs DEF FirstSeen, EndSeen
<1> HIDE DEF p
<1>6. p - (Window - 1) = p - Window + 1 /\ (p + 1) - 1 = p
  BY <1>1, <1>5
<1>7. FirstSeen(k)..(EndSeen(k) - 1) = WindowAt(p)
  BY <1>5, <1>6 DEF WindowAt
<1>. QED
  BY <1>4, <1>7 DEF p

\* For a token of a DSpark block: the window before the block, and the block.
LEMMA BlocksHold ==
  ASSUME IInv PROVE BlocksWhole
<1>1. Types /\ Seen
  BY DEF IInv
<1>2. SUFFICES ASSUME Read("dspark"), NEW t \in 1..NumTokens
               PROVE  ReadsExactly(t, Larger(batch[Tokens[t].req].from - Window, 0)
                                        ..(batch[Tokens[t].req].from + batch[Tokens[t].req].q - 1))
  BY TokensOf DEF BlocksWhole
<1> DEFINE k == Tokens[t]
<1>3. pass = "dspark" /\ phase = "done"
  BY <1>2 DEF Read
<1>4. ReadsExactly(t, FirstSeen(k)..(EndSeen(k) - 1))
  BY <1>1, <1>3 DEF Seen
<1>5. /\ FirstSeen(k) = Larger(batch[k.req].from - Window, 0)
      /\ EndSeen(k) = batch[k.req].from + batch[k.req].q
  BY <1>3 DEF FirstSeen, EndSeen, PrefixLen, SeqLen
<1> DEFINE x == Larger(batch[k.req].from - Window, 0)
           y == batch[k.req].from + batch[k.req].q
           z == batch[k.req].from + batch[k.req].q - 1
<1>6. FirstSeen(k) = x /\ EndSeen(k) = y
  BY <1>5
<1>7. batch[k.req].from \in Nat /\ batch[k.req].q \in Nat
  <2>1. batch[k.req] \in Request
    BY <1>1, TokenIs DEF Types
  <2>. QED
    BY <2>1, Sizes DEF Request
<1>8. y - 1 = z
  BY <1>7
<1>9. ReadsExactly(t, x..z)
  <2> HIDE DEF x, y, z, k
  <2>. QED
    BY <1>4, <1>6, <1>8
<1>. QED
  BY <1>9

\* For padding: nothing.
LEMMA PaddingHolds ==
  ASSUME IInv PROVE PaddingReadsNothing
<1>1. Types /\ Seen /\ Meta /\ batch \in Seq(Request)
  BY DEF IInv, Types
<1>2. SUFFICES ASSUME phase = "done", NEW t \in DOMAIN seen, t > NumTokens
               PROVE  seen[t].reads = {}
  BY DEF PaddingReadsNothing
<1>3. meta.padding \in Nat /\ NumTokens \in Nat /\ NumRows = NumTokens + meta.padding
  BY <1>1, <1>2, StartsIs DEF Meta, NumRows
<1>4. t \in 1..NumRows
  BY <1>1, <1>2 DEF Seen
<1>5. t \in (NumTokens + 1)..NumRows
  BY <1>2, <1>3, <1>4
<1>. QED
  BY <1>1, <1>2, <1>5 DEF Seen

\* A token of the target's pass that is in no image reads exactly the KV of its
\* window, its own position included: nothing older, nothing another request left
\* in the blocks, nothing a rejected draft wrote (_compute_swa_indices_kernel).
THEOREM WindowsRead == Spec => []WindowExact
  BY Invariant, WindowHolds, PTL

\* A token of an image also reads the whole image, to both sides
\* (the image widening of _compute_swa_indices_kernel).
THEOREM ImagesRead == Spec => []ImagesWhole
  BY Invariant, ImagesHold, PTL

\* A token that MTP drafts reads its window over accepted and drafted positions
\* (update_draft_metadata makes its row again for each).
THEOREM DraftsRead == Spec => []DraftsExact
  BY Invariant, DraftsHold, PTL

\* A token of a DSpark block reads the window before the block and the whole block
\* (the non-causal rows of the builder).
THEOREM BlocksRead == Spec => []BlocksWhole
  BY Invariant, BlocksHold, PTL

\* The padding of a captured graph reads nothing.
THEOREM PaddingIdle == Spec => []PaddingReadsNothing
  BY Invariant, PaddingHolds, PTL

-----------------------------------------------------------------------------
(* The chunk plan *)

\* Fewer of something narrower take less room.
LEMMA Products ==
  ASSUME NEW a \in Nat, NEW b \in Nat, NEW w \in Nat, NEW u \in Nat, a <= b, w <= u
  PROVE  a * w \in Nat /\ b * u \in Nat /\ a * w <= b * u
<1>1. CASE w = 0 \/ b = 0
  BY <1>1
<1>2. CASE w # 0 /\ b # 0
  <2>1. a * w \in Nat /\ a * w <= b * w /\ b * w \in Nat
    BY <1>2, Multiples
  <2>2. w * b \in Nat /\ u * b \in Nat /\ w * b <= u * b
    BY <1>2, Multiples
  <2>3. w * b = b * w /\ u * b = b * u
    OBVIOUS
  <2>. QED
    BY <2>1, <2>2, <2>3
<1>. QED
  BY <1>1, <1>2

\* A quotient grows with what is divided.
LEMMA QuotientsGrow ==
  ASSUME NEW x \in Nat, NEW y \in Nat, NEW d \in Nat \ {0}, x <= y
  PROVE  x \div d \in Nat /\ y \div d \in Nat /\ x \div d <= y \div d
<1> DEFINE a == x \div d
           b == y \div d
<1>1. a \in Nat /\ x % d \in 0..(d - 1) /\ x = a * d + (x % d)
  BY DivMod
<1>2. b \in Nat /\ y % d \in 0..(d - 1) /\ y = b * d + (y % d)
  BY DivMod
<1> HIDE DEF a, b
<1>3. b < a => b * d + d <= a * d
  BY <1>1, <1>2, Multiples
<1>4. a * d \in Nat /\ b * d \in Nat
  BY <1>1, <1>2, Multiples
<1>5. ~(b < a)
  BY <1>1, <1>2, <1>3, <1>4
<1>. QED
  BY <1>1, <1>2, <1>5 DEF a, b

\* Rounding up is no less than rounding down.
LEMMA CeilIs ==
  ASSUME NEW x \in Nat, NEW d \in Nat \ {0}
  PROVE  Ceil(x, d) \in Nat /\ x \div d <= Ceil(x, d)
<1>1. x + d - 1 \in Nat /\ x <= x + d - 1
  OBVIOUS
<1>2. x \div d <= (x + d - 1) \div d /\ (x + d - 1) \div d \in Nat
  BY <1>1, QuotientsGrow
<1>. QED
  BY <1>2 DEF Ceil

\* No request's compressed part is longer than the workspace allows for,
MostCompressed(l) == IF l.compressed THEN Ceil(MaxModelLen, l.ratio) ELSE 0
\* nor is all a request gathers.
Widest(l) == MostCompressed(l) + Window + MaxTokens

\* The workspace has ChunkSize rows of the widest request there can be.
LEMMA LayerIs ==
  ASSUME NEW l \in Layers
  PROVE  /\ l.ratio \in 0..2
         /\ l.ratio = 0 => l.compressed = FALSE
         /\ l.ratio # 0 => l.compressed = TRUE
         /\ MostCompressed(l) \in Nat /\ Widest(l) \in Nat
         /\ WorkspaceArea(l) = ChunkSize * Widest(l)
<1>1. /\ l.ratio \in 0..2
      /\ l.ratio = 0 => l.compressed = FALSE
      /\ l.ratio # 0 => l.compressed = TRUE
  <2>1. PICK n \in 0..2 : l = [ratio |-> n, compressed |-> n > 0]
    BY DEF Layers
  <2>2. n = 0 => (n > 0) = FALSE
    BY <2>1
  <2>3. n # 0 => (n > 0) = TRUE
    BY <2>1
  <2>4. l.ratio = n /\ l.compressed = (n > 0)
    BY <2>1
  <2>. QED
    BY <2>1, <2>2, <2>3, <2>4, Zenon
<1>2. MostCompressed(l) \in Nat
  <2>1. CASE l.ratio = 0
    BY <1>1, <2>1 DEF MostCompressed
  <2>2. CASE l.ratio # 0
    <3>1. MostCompressed(l) = Ceil(MaxModelLen, l.ratio)
      BY <1>1, <2>2 DEF MostCompressed
    <3>. QED
      BY <1>1, <2>2, <3>1, Sizes, CeilIs
  <2>. QED
    BY <2>1, <2>2
<1>. QED
  BY <1>1, <1>2, Sizes DEF Widest, MostCompressed, WorkspaceArea

\* The prefills of the batch are its requests from NumDecodes + 1 on.
LEMMA PrefillIs ==
  ASSUME IInv, phase = "built"
  PROVE  /\ NumPrefills \in Nat /\ NumDecodes \in Nat
         /\ \A k \in 0..(NumPrefills - 1) :
              /\ Prefill(k) \in DOMAIN batch /\ pass = "target"
              /\ PrefixLen(Prefill(k)) \in Nat /\ QueryLen(k) \in 1..MaxTokens
              /\ SeqLen(Prefill(k)) = PrefixLen(Prefill(k)) + QueryLen(k)
              /\ SeqLen(Prefill(k)) <= MaxModelLen
<1>1. Types /\ Sorted /\ TargetPass /\ DraftPass /\ batch \in Seq(Request)
  BY DEF IInv, Batched, Types
<1>2. /\ NumDecodes \in 0..Len(batch) /\ Len(batch) \in Nat /\ DOMAIN batch = 1..Len(batch)
      /\ \A i \in DOMAIN batch : IsDecode(batch[i]) <=> i <= NumDecodes
  BY <1>1, DecodesFirst
<1>3. ASSUME NEW k \in 0..(NumPrefills - 1)
      PROVE  /\ Prefill(k) \in DOMAIN batch /\ pass = "target"
             /\ PrefixLen(Prefill(k)) \in Nat /\ QueryLen(k) \in 1..MaxTokens
             /\ SeqLen(Prefill(k)) = PrefixLen(Prefill(k)) + QueryLen(k)
             /\ SeqLen(Prefill(k)) <= MaxModelLen
  <2> DEFINE i == Prefill(k)
  <2>1. i \in 1..Len(batch) /\ ~(i <= NumDecodes)
    BY <1>2 DEF Prefill, NumPrefills
  <2>2. ~IsDecode(batch[i]) /\ i \in DOMAIN batch
    BY <1>2, <2>1
  <2> HIDE DEF i
  <2>3. pass = "target"
    BY <1>1, <2>2, DraftsAreDecodes
  <2>4. batch[i] \in Request /\ batch[i].from \in Nat /\ Scheduled(batch[i])
    BY <1>1, <2>2, <2>3, RequestIs DEF TargetPass
  <2>5. batch[i].q \in 1..MaxTokens /\ batch[i].from + batch[i].q <= MaxModelLen
    BY <2>4 DEF Request, Scheduled
  <2>. QED
    BY <2>2, <2>3, <2>4, <2>5 DEF i, PrefixLen, QueryLen, SeqLen
<1>. QED
  BY <1>2, <1>3 DEF NumPrefills

\* The bounds the host plans with hold for what the kernel gathers.
LEMMA HostBounds ==
  ASSUME IInv, phase = "built", NEW l \in Layers, NEW k \in 0..(NumPrefills - 1)
  PROVE  /\ CompressedBound(l, k) \in 0..MostCompressed(l)
         /\ GatherBound(k) \in 0..(Window + MaxTokens)
         /\ GatherLen(k) \in Nat /\ GatherLen(k) <= GatherBound(k)
         /\ l.compressed => /\ SeqLen(Prefill(k)) \div l.ratio \in Nat
                            /\ SeqLen(Prefill(k)) \div l.ratio <= CompressedBound(l, k)
<1> DEFINE f == PrefixLen(Prefill(k))
           q == QueryLen(k)
           b == SeqLenBound(k)
<1>1. /\ f \in Nat /\ q \in 1..MaxTokens
      /\ SeqLen(Prefill(k)) = f + q /\ f + q <= MaxModelLen
  BY PrefillIs
<1>2. meta.slack \in 0..1
  BY DEF IInv, Meta
<1>3. b = Smaller(f + q + meta.slack, MaxModelLen)
  BY <1>1 DEF SeqLenBound
<1>4. /\ GatherBound(k) = q + Smaller(b - q, Window - 1)
      /\ GatherLen(k) = q + Smaller(f, Window - 1)
      /\ CompressedBound(l, k) = IF l.compressed THEN b \div l.ratio ELSE 0
  BY DEF GatherBound, GatherLen, CompressedBound
<1>5. /\ l.ratio \in 0..2
      /\ l.ratio = 0 => l.compressed = FALSE
      /\ l.ratio # 0 => l.compressed = TRUE
  BY LayerIs
<1>6. Window \in Nat \ {0} /\ MaxTokens \in Nat /\ MaxModelLen \in Nat \ {0}
  BY Sizes
<1> HIDE DEF f, q, b
<1>7. b \in Nat /\ f + q <= b /\ b <= MaxModelLen
  BY <1>1, <1>2, <1>3, <1>6 DEF Smaller
<1>8. /\ GatherBound(k) \in 0..(Window + MaxTokens)
      /\ GatherLen(k) \in Nat /\ GatherLen(k) <= GatherBound(k)
  BY <1>1, <1>4, <1>6, <1>7 DEF Smaller
<1>9. /\ CompressedBound(l, k) \in 0..MostCompressed(l)
      /\ l.compressed => /\ (f + q) \div l.ratio \in Nat
                         /\ (f + q) \div l.ratio <= CompressedBound(l, k)
  <2>1. CASE l.ratio = 0
    BY <1>4, <1>5, <2>1 DEF MostCompressed
  <2>2. CASE l.ratio # 0
    <3>1. l.ratio \in Nat \ {0} /\ l.compressed
      BY <1>5, <2>2
    <3> DEFINE d == l.ratio
    <3> HIDE DEF d
    <3>2. d \in Nat \ {0} /\ f + q \in Nat
      BY <1>1, <3>1 DEF d
    <3>3. (f + q) \div d <= b \div d /\ b \div d \in Nat /\ (f + q) \div d \in Nat
      BY <1>7, <3>2, QuotientsGrow
    <3>4. b \div d <= MaxModelLen \div d /\ MaxModelLen \div d \in Nat
      BY <1>6, <1>7, <3>2, QuotientsGrow
    <3>5. MaxModelLen \div d <= Ceil(MaxModelLen, d) /\ Ceil(MaxModelLen, d) \in Nat
      BY <1>6, <3>2, CeilIs
    <3> DEFINE x == b \div d
               y == (f + q) \div d
               z == MaxModelLen \div d
    <3>6. CompressedBound(l, k) = x /\ MostCompressed(l) = Ceil(MaxModelLen, d)
      BY <1>4, <3>1 DEF MostCompressed, d
    <3>7. y <= x /\ x <= z /\ z <= Ceil(MaxModelLen, d) /\ x \in Nat /\ z \in Nat /\ y \in Nat
      BY <3>3, <3>4, <3>5
    <3>8. (f + q) \div l.ratio = y
      BY DEF d
    <3> HIDE DEF x, y, z
    <3>. QED
      BY <3>5, <3>6, <3>7, <3>8
  <2>. QED
    BY <2>1, <2>2
<1>. QED
  BY <1>1, <1>8, <1>9

\* A chunk is as wide as its widest request needs, and fits the workspace's row.
LEMMA WidthIs ==
  ASSUME IInv, phase = "built", NEW l \in Layers,
         NEW s \in 0..(NumPrefills - 1), NEW e \in (s + 1)..NumPrefills
  PROVE  /\ Width(l, s, e) \in 0..Widest(l) /\ MaxCompressed(l, s, e) \in Nat
         /\ \A k \in s..(e - 1) :
              /\ CompressedBound(l, k) <= MaxCompressed(l, s, e)
              /\ MaxCompressed(l, s, e) + GatherBound(k) <= Width(l, s, e)
<1> DEFINE C == {CompressedBound(l, k) : k \in s..(e - 1)}
           G == {GatherBound(k) : k \in s..(e - 1)}
           m == MostCompressed(l)
           g == Window + MaxTokens
<1>1. NumPrefills \in Nat /\ m \in Nat /\ g \in Nat
  <2>1. NumPrefills \in Nat
    BY PrefillIs
  <2>2. m \in Nat
    BY LayerIs
  <2>. QED
    BY <2>1, <2>2, Sizes
<1>2. \A k \in s..(e - 1) : k \in 0..(NumPrefills - 1)
  BY <1>1
<1>3. s \in s..(e - 1)
  BY <1>1
<1> HIDE DEF m, g
<1>4. \A k \in s..(e - 1) : CompressedBound(l, k) \in 0..m /\ GatherBound(k) \in 0..g
  BY <1>2, HostBounds DEF m, g
<1>5. C \subseteq 0..m /\ C # {} /\ G \subseteq 0..g /\ G # {}
  BY <1>3, <1>4
<1>6. \A k \in s..(e - 1) : CompressedBound(l, k) \in C /\ GatherBound(k) \in G
  OBVIOUS
<1>7. Width(l, s, e) = Max(C) + Max(G) /\ MaxCompressed(l, s, e) = Max(C)
  BY DEF Width, MaxCompressed
<1> HIDE DEF C, G
<1>8. Max(C) \in C /\ \A x \in C : x <= Max(C)
  BY <1>1, <1>5, Largest
<1>9. Max(G) \in G /\ \A x \in G : x <= Max(G)
  BY <1>1, <1>5, Largest
<1>10. Max(C) \in 0..m /\ Max(G) \in 0..g
  BY <1>5, <1>8, <1>9
<1>11. Widest(l) = m + g
  BY <1>1, Sizes DEF Widest, m, g
<1>. QED
  BY <1>1, <1>4, <1>6, <1>7, <1>8, <1>9, <1>10, <1>11

\* A chunk fits the workspace, and one that is not the last has ChunkSize requests
\* or more.
LEMMA ChunkEndIs ==
  ASSUME IInv, phase = "built", NEW l \in Layers, NEW s \in 0..(NumPrefills - 1)
  PROVE  LET e == ChunkEnd(l, s)
         IN  /\ e \in (s + 1)..NumPrefills
             /\ (e - s) * Width(l, s, e) <= WorkspaceArea(l)
             /\ e < NumPrefills => e - s >= ChunkSize
<1> DEFINE n == NumPrefills
           E == {x \in (s + 1)..n :
                  x = n \/ (x - s + 1) * Width(l, s, x + 1) > WorkspaceArea(l)}
           e == Min(E)
           u == Widest(l)
<1>1. n \in Nat /\ u \in Nat /\ ChunkSize \in Nat \ {0} /\ WorkspaceArea(l) = ChunkSize * u
  BY PrefillIs, LayerIs, Sizes
<1>2. ChunkEnd(l, s) = e
  BY DEF ChunkEnd
<1>3. e \in E /\ \A x \in E : e <= x
  <2>1. n \in E
    BY <1>1
  <2>2. E \subseteq Nat
    BY <1>1
  <2> HIDE DEF E
  <2>. QED
    BY <2>1, <2>2, Smallest
<1>4. e \in (s + 1)..n /\ e \in Nat /\ s \in Nat
  BY <1>1, <1>3
<1> HIDE DEF e, n
<1>5. \A x \in (s + 1)..n : Width(l, s, x) \in 0..u
  BY WidthIs DEF n
<1>6. ASSUME NEW a \in Nat, NEW w \in 0..u, a <= ChunkSize
      PROVE  a * w <= ChunkSize * u /\ a * w \in Nat /\ ChunkSize * u \in Nat
  BY <1>1, <1>6, Products
<1>7. (e - s) * Width(l, s, e) <= WorkspaceArea(l)
  <2>1. CASE e = s + 1
    <3>1. e - s = 1 /\ 1 <= ChunkSize
      BY <1>1, <1>4, <2>1
    <3>. QED
      BY <1>1, <1>4, <1>5, <1>6, <3>1
  <2>2. CASE e # s + 1
    <3>1. e - 1 \in (s + 1)..n /\ e - 1 # n /\ ~(e <= e - 1)
      BY <1>1, <1>4, <2>2
    <3>2. e - 1 \notin E
      BY <1>3, <3>1
    <3>3. ~((e - 1 - s + 1) * Width(l, s, e - 1 + 1) > WorkspaceArea(l))
      BY <3>1, <3>2
    <3>4. e - 1 - s + 1 = e - s /\ e - 1 + 1 = e
      BY <1>4
    <3> DEFINE w == Width(l, s, e)
               p == (e - s) * w
               W == WorkspaceArea(l)
    <3>5. ~(p > W)
      BY <3>3, <3>4
    <3>6. p \in Nat /\ W \in Nat
      <4>1. w \in Nat /\ e - s \in Nat
        BY <1>4, <1>5
      <4>2. u * ChunkSize \in Nat
        BY <1>1, Multiples
      <4>3. p \in Nat
        <5> HIDE DEF w
        <5>. QED
          BY <4>1, Products
      <4>. QED
        BY <1>1, <4>2, <4>3
    <3> HIDE DEF p, W
    <3>7. p <= W
      BY <3>5, <3>6
    <3>. QED
      BY <3>7 DEF p, W
  <2>. QED
    BY <2>1, <2>2
<1>8. ASSUME e < n PROVE e - s >= ChunkSize
  <2>. SUFFICES ASSUME e - s < ChunkSize PROVE FALSE
    BY <1>1, <1>4
  <2> DEFINE w == Width(l, s, e + 1)
             p == (e - s + 1) * w
             W == WorkspaceArea(l)
  <2>1. e + 1 \in (s + 1)..n /\ e - s + 1 \in Nat /\ e - s + 1 <= ChunkSize
    BY <1>1, <1>4, <1>8
  <2>2. p > W
    BY <1>1, <1>3, <1>4, <1>8
  <2>3. w \in 0..u
    BY <1>5, <2>1
  <2>4. p <= W /\ p \in Nat /\ W \in Nat
    <3> HIDE DEF w
    <3>. QED
      BY <1>1, <1>6, <2>1, <2>3
  <2> HIDE DEF p, W
  <2>. QED
    BY <2>2, <2>4
<1>. QED
  BY <1>2, <1>4, <1>7, <1>8 DEF n

\* The chunk that starts at prefill s,
Chunk(l, s) ==
  [start |-> s, end |-> ChunkEnd(l, s), compressed |-> MaxCompressed(l, s, ChunkEnd(l, s)),
   width |-> Width(l, s, ChunkEnd(l, s))]
\* and the plans from m on.
Planning(f, l, m) ==
  f = [s \in m..NumPrefills |-> IF s = NumPrefills THEN << >>
                                ELSE <<Chunk(l, s)>> \o f[ChunkEnd(l, s)]]

\* Planning ends: each chunk takes a prefill at least.
LEMMA PlanningExists ==
  ASSUME IInv, phase = "built", NEW l \in Layers
  PROVE  \E f : Planning(f, l, 0)
<1> DEFINE n == NumPrefills
           D == {k \in Nat : k <= n => \E f : Planning(f, l, n - k)}
<1>1. n \in Nat
  BY PrefillIs
<1>2. 0 \in D
  <2>1. Planning([s \in n..n |-> << >>], l, n)
    BY <1>1 DEF Planning
  <2>2. n - 0 = n
    BY <1>1
  <2> HIDE DEF n
  <2>. QED
    BY <2>1, <2>2
<1>3. ASSUME NEW k \in Nat, k \in D PROVE k + 1 \in D
  <2>. SUFFICES ASSUME k + 1 <= n PROVE \E f : Planning(f, l, n - (k + 1))
    OBVIOUS
  <2> DEFINE m == n - (k + 1)
  <2>1. k <= n /\ m \in Nat /\ m \in 0..(n - 1) /\ n - k = m + 1
    BY <1>1
  <2>2. PICK old : Planning(old, l, m + 1)
    BY <1>3, <2>1
  <2> HIDE DEF m
  <2>3. \A s \in (m + 1)..n : old[s] = IF s = n THEN << >>
                                       ELSE <<Chunk(l, s)>> \o old[ChunkEnd(l, s)]
    BY <2>2, Zenon DEF Planning
  <2> DEFINE new == [s \in m..n |-> IF s = m THEN <<Chunk(l, m)>> \o old[ChunkEnd(l, m)]
                                             ELSE old[s]]
  <2>4. \A s \in 0..(n - 1) : ChunkEnd(l, s) \in (s + 1)..n
    BY ChunkEndIs
  <2> HIDE DEF n
  <2>5. /\ new[m] = <<Chunk(l, m)>> \o old[ChunkEnd(l, m)]
        /\ \A s \in (m + 1)..n : new[s] = old[s]
    BY <1>1, <2>1
  <2>6. new = [s \in m..n |-> new[s]]
    OBVIOUS
  <2> HIDE DEF new
  <2>7. ASSUME NEW s \in m..n
        PROVE  new[s] = IF s = n THEN << >> ELSE <<Chunk(l, s)>> \o new[ChunkEnd(l, s)]
    <3>1. s # n => ChunkEnd(l, s) \in (m + 1)..n
      BY <1>1, <2>1, <2>4
    <3>2. s # n => new[ChunkEnd(l, s)] = old[ChunkEnd(l, s)]
      BY <2>5, <3>1
    <3>3. CASE s = m
      <4>1. s # n
        BY <1>1, <2>1, <3>3
      <4>. QED
        BY <2>5, <3>2, <3>3, <4>1, Zenon
    <3>4. CASE s # m
      <4>1. s \in (m + 1)..n
        BY <1>1, <2>1, <3>4
      <4>2. new[s] = old[s]
        BY <2>5, <4>1
      <4>3. old[s] = IF s = n THEN << >> ELSE <<Chunk(l, s)>> \o old[ChunkEnd(l, s)]
        BY <2>3, <4>1, Zenon
      <4>. QED
        BY <3>2, <4>2, <4>3, Zenon
    <3>. QED
      BY <3>3, <3>4
  <2>8. new = [s \in m..n |-> IF s = n THEN << >> ELSE <<Chunk(l, s)>> \o new[ChunkEnd(l, s)]]
    <3>1. [s \in m..n |-> new[s]]
            = [s \in m..n |-> IF s = n THEN << >> ELSE <<Chunk(l, s)>> \o new[ChunkEnd(l, s)]]
      BY <2>7, Zenon
    <3>. QED
      BY <2>6, <3>1, Zenon
  <2>9. Planning(new, l, m)
    BY <2>8, Zenon DEF Planning, n
  <2>. QED
    BY <2>9 DEF m
<1>4. Nat \subseteq D
  <2> HIDE DEF D
  <2>. QED
    BY <1>2, <1>3, Counting
<1>5. n \in D /\ n - n = 0
  BY <1>1, <1>4
<1>. QED
  BY <1>1, <1>5

\* A plan from prefill s on: chunk after chunk to the last prefill, all but the
\* last of ChunkSize requests or more.
Chained(p, l, s) ==
  /\ p \in Seq({Chunk(l, x) : x \in 0..(NumPrefills - 1)})
  /\ s = NumPrefills => Len(p) = 0
  /\ s # NumPrefills => Len(p) > 0
  /\ Len(p) > 0 => /\ p[1].start = s /\ p[Len(p)].end = NumPrefills
                   /\ (Len(p) - 1) * ChunkSize < NumPrefills - s
  /\ \A c \in 2..Len(p) : p[c].start = p[c - 1].end

\* A chunk in front of the plan of what follows it makes a plan.
LEMMA ChunkFirst ==
  ASSUME IInv, phase = "built", NEW l \in Layers, NEW s \in 0..(NumPrefills - 1),
         NEW p, Chained(p, l, ChunkEnd(l, s))
  PROVE  Chained(<<Chunk(l, s)>> \o p, l, s)
<1> DEFINE n == NumPrefills
           e == ChunkEnd(l, s)
           S == {Chunk(l, x) : x \in 0..(n - 1)}
           a == Chunk(l, s)
           q == <<a>> \o p
           L == Len(p)
<1>1. n \in Nat /\ ChunkSize \in Nat \ {0}
  BY PrefillIs, Sizes
<1>2. e \in (s + 1)..n /\ (e < n => e - s >= ChunkSize)
  BY ChunkEndIs
<1>3. /\ p \in Seq(S) /\ (e = n => L = 0) /\ (e # n => L > 0)
      /\ L > 0 => p[1].start = e /\ p[L].end = n /\ (L - 1) * ChunkSize < n - e
      /\ \A c \in 2..L : p[c].start = p[c - 1].end
  BY DEF Chained
<1>4. a \in S /\ a.start = s /\ a.end = e
  BY <1>1 DEF Chunk
<1> HIDE DEF a, S, e, n
<1>5. L \in Nat /\ q \in Seq(S) /\ Len(q) = 1 + L /\ q[1] = a
      /\ \A i \in 1..L : q[i + 1] = p[i]
  BY <1>3, <1>4
<1> HIDE DEF q, L
<1>6. L > 0 => q[1 + L] = p[L] /\ q[2] = p[1]
  <2>1. L > 0 => L \in 1..L /\ 1 \in 1..L /\ L + 1 = 1 + L /\ 1 + 1 = 2
    BY <1>5
  <2>. QED
    BY <1>5, <2>1
<1>7. q[1].start = s /\ q[1 + L].end = n
  <2>1. CASE e = n
    BY <1>3, <1>4, <1>5, <2>1
  <2>2. CASE e # n
    BY <1>3, <1>4, <1>5, <1>6, <2>2
  <2>. QED
    BY <2>1, <2>2
<1>8. (1 + L - 1) * ChunkSize < n - s
  <2>1. CASE e = n
    <3>1. 1 + L - 1 = 0 /\ 0 * ChunkSize = 0
      BY <1>1, <1>3, <2>1
    <3>. QED
      BY <1>1, <1>2, <2>1, <3>1
  <2>2. CASE e # n
    <3>1. L - 1 \in Nat /\ L \in Nat /\ L > 0 /\ L - 1 < L
      BY <1>3, <1>5, <2>2
    <3> DEFINE x == (L - 1) * ChunkSize
               y == L * ChunkSize
    <3>2. x \in Nat /\ y \in Nat
      BY <1>1, <3>1, Multiples
    <3>3. y = x + ChunkSize
      BY <1>1, <3>1
    <3>4. x < n - e
      BY <1>3, <3>1
    <3> HIDE DEF x, y
    <3>5. y < n - s
      BY <1>1, <1>2, <2>2, <3>2, <3>3, <3>4
    <3>6. 1 + L - 1 = L
      BY <1>5
    <3>. QED
      BY <3>5, <3>6 DEF y
  <2>. QED
    BY <2>1, <2>2
<1>9. ASSUME NEW c \in 2..(1 + L) PROVE q[c].start = q[c - 1].end
  <2>1. CASE c = 2
    <3>1. L > 0 /\ c - 1 = 1
      BY <1>5, <2>1
    <3>. QED
      BY <1>3, <1>4, <1>5, <1>6, <2>1, <3>1
  <2>2. CASE c # 2
    <3>1. /\ c - 1 \in 2..L /\ c - 1 \in 1..L /\ c - 2 \in 1..L
          /\ c - 1 + 1 = c /\ c - 2 + 1 = c - 1 /\ c - 1 - 1 = c - 2
      BY <1>5, <2>2
    <3>2. q[c] = p[c - 1] /\ q[c - 1] = p[c - 2]
      BY <1>5, <3>1
    <3>3. p[c - 1].start = p[c - 2].end
      BY <1>3, <3>1
    <3>. QED
      BY <3>2, <3>3
  <2>. QED
    BY <2>1, <2>2
<1>10. Len(q) > 0 /\ s # n
  BY <1>1, <1>2, <1>5 DEF n
<1>. QED
  BY <1>5, <1>7, <1>8, <1>9, <1>10 DEF Chained, q, a, S, n

\* So the plan is chained.
LEMMA PlanIs ==
  ASSUME IInv, phase = "built", NEW l \in Layers
  PROVE  Chained(ChunkPlan(l), l, 0)
<1> DEFINE n == NumPrefills
           f == CHOOSE g : Planning(g, l, 0)
           D == {k \in Nat : k <= n => \A s \in (n - k)..n : Chained(f[s], l, s)}
<1>1. n \in Nat
  BY PrefillIs
<1>2. ChunkPlan(l) = f[0]
  BY DEF ChunkPlan, Planning, Chunk
<1>3. Planning(f, l, 0)
  BY PlanningExists
<1> HIDE DEF f
<1>4. \A s \in 0..n : f[s] = IF s = n THEN << >> ELSE <<Chunk(l, s)>> \o f[ChunkEnd(l, s)]
  BY <1>3, Zenon DEF Planning
<1>5. Chained(f[n], l, n)
  <2>1. f[n] = << >>
    <3>1. n \in 0..n
      BY <1>1
    <3>. QED
      BY <1>4, <3>1, Zenon
  <2>. QED
    BY <2>1 DEF Chained
<1>6. 0 \in D
  BY <1>1, <1>5
<1>7. ASSUME NEW k \in Nat, k \in D PROVE k + 1 \in D
  <2>. SUFFICES ASSUME k + 1 <= n, NEW s \in (n - (k + 1))..n PROVE Chained(f[s], l, s)
    OBVIOUS
  <2>1. \A x \in (n - k)..n : Chained(f[x], l, x)
    BY <1>1, <1>7
  <2>2. CASE s \in (n - k)..n
    BY <2>1, <2>2
  <2>3. CASE s \notin (n - k)..n
    <3>1. s \in 0..(n - 1) /\ s + 1 = n - k /\ s # n /\ s \in 0..n
      BY <1>1, <2>3
    <3>2. ChunkEnd(l, s) \in (n - k)..n
      <4>1. ChunkEnd(l, s) \in (s + 1)..n
        BY <3>1, ChunkEndIs
      <4>. QED
        BY <3>1, <4>1
    <3>3. Chained(<<Chunk(l, s)>> \o f[ChunkEnd(l, s)], l, s)
      BY <2>1, <3>1, <3>2, ChunkFirst
    <3>4. f[s] = <<Chunk(l, s)>> \o f[ChunkEnd(l, s)]
      BY <1>4, <3>1
    <3>. QED
      BY <3>3, <3>4
  <2>. QED
    BY <2>2, <2>3
<1>8. Nat \subseteq D
  <2> HIDE DEF D
  <2>. QED
    BY <1>6, <1>7, Counting
<1>9. n \in D /\ n - n = 0 /\ 0 \in 0..n
  BY <1>1, <1>8
<1>10. Chained(f[0], l, 0)
  BY <1>9
<1>. QED
  BY <1>2, <1>10

\* Of the invariant: the plan of every layer fits.
LEMMA PlansFit ==
  ASSUME IInv PROVE PlanFits
<1>. SUFFICES ASSUME phase = "built", NEW l \in Layers
              PROVE  LET plan == ChunkPlan(l)
                         ends == [c \in 0..Len(plan) |-> IF c = 0 THEN 0 ELSE plan[c].end]
                     IN  /\ ends[Len(plan)] = NumPrefills
                         /\ Len(plan) <= Ceil(NumPrefills, ChunkSize)
                         /\ \A c \in DOMAIN plan :
                              /\ plan[c].start = ends[c - 1]
                              /\ (plan[c].end - plan[c].start) * plan[c].width
                                   <= WorkspaceArea(l)
                              /\ \A k \in plan[c].start..(plan[c].end - 1) :
                                   /\ l.compressed =>
                                        SeqLen(Prefill(k)) \div l.ratio <= plan[c].compressed
                                   /\ plan[c].compressed + GatherLen(k) <= plan[c].width
  BY DEF PlanFits
<1> DEFINE n == NumPrefills
           plan == ChunkPlan(l)
           ends == [c \in 0..Len(plan) |-> IF c = 0 THEN 0 ELSE plan[c].end]
           S == {Chunk(l, x) : x \in 0..(n - 1)}
           L == Len(plan)
<1>1. n \in Nat /\ ChunkSize \in Nat \ {0}
  BY PrefillIs, Sizes
<1>2. /\ plan \in Seq(S) /\ (0 = n => L = 0) /\ (0 # n => L > 0)
      /\ L > 0 => plan[1].start = 0 /\ plan[L].end = n /\ (L - 1) * ChunkSize < n - 0
      /\ \A c \in 2..L : plan[c].start = plan[c - 1].end
  BY PlanIs DEF Chained
<1>3. L \in Nat /\ DOMAIN plan = 1..L /\ \A c \in 1..L : plan[c] \in S
  <2> HIDE DEF plan, S
  <2>. QED
    BY <1>2, LenProperties, ElementOfSeq
<1>4. \A c \in 1..L : \E x \in 0..(n - 1) : plan[c] = Chunk(l, x)
  BY <1>3
<1>5. /\ ends[0] = 0 /\ \A c \in 1..L : ends[c] = plan[c].end
  BY <1>3
<1> HIDE DEF plan, ends, S, L, n
<1>6. ends[L] = n
  <2>1. CASE L = 0
    BY <1>2, <1>5, <2>1
  <2>2. CASE L # 0
    <3>1. L > 0 /\ L \in 1..L
      BY <1>3, <2>2
    <3>. QED
      BY <1>2, <1>5, <3>1
  <2>. QED
    BY <2>1, <2>2
<1>7. L <= Ceil(n, ChunkSize)
  <2>1. Ceil(n, ChunkSize) \in Nat
    BY <1>1, CeilIs
  <2>2. CASE L = 0
    BY <2>1, <2>2
  <2>3. CASE L # 0
    <3> DEFINE x == (L - 1) * ChunkSize
               y == L * ChunkSize
               z == n + ChunkSize - 1
    <3>1. L - 1 \in Nat /\ L > 0
      BY <1>3, <2>3
    <3>2. x \in Nat /\ y \in Nat /\ z \in Nat
      BY <1>1, <1>3, <3>1, Multiples
    <3>3. y = x + ChunkSize
      BY <1>1, <1>3, <3>1
    <3>4. x < n - 0
      BY <1>2, <3>1
    <3>5. y <= z
      <4> HIDE DEF x, y
      <4>. QED
        BY <1>1, <3>2, <3>3, <3>4
    <3>6. y \div ChunkSize <= z \div ChunkSize /\ y \div ChunkSize \in Nat
          /\ z \div ChunkSize \in Nat
      <4> HIDE DEF y, z
      <4>. QED
        BY <1>1, <3>2, <3>5, QuotientsGrow
    <3>7. L <= y \div ChunkSize
      <4> DEFINE w == y \div ChunkSize
                 r == y % ChunkSize
      <4>1. w \in Nat /\ r \in 0..(ChunkSize - 1) /\ y = w * ChunkSize + r
        <5> HIDE DEF y
        <5>. QED
          BY <1>1, <3>2, DivMod
      <4> HIDE DEF w, r
      <4>2. w < L => w * ChunkSize + ChunkSize <= y /\ w * ChunkSize \in Nat
        BY <1>1, <1>3, <4>1, Multiples
      <4> HIDE DEF y
      <4> DEFINE v == w * ChunkSize
      <4>3. (w < L => v + ChunkSize <= y /\ v \in Nat) /\ y = v + r
        BY <4>1, <4>2
      <4> HIDE DEF v
      <4>4. ~(w < L)
        BY <1>1, <3>2, <4>1, <4>3
      <4>5. L <= w
        BY <1>3, <4>1, <4>4
      <4>. QED
        BY <4>5 DEF w
    <3>8. Ceil(n, ChunkSize) = z \div ChunkSize
      BY DEF Ceil
    <3> HIDE DEF y, z
    <3> DEFINE w == y \div ChunkSize
               v == z \div ChunkSize
    <3>9. w <= v /\ w \in Nat /\ v \in Nat /\ L <= w /\ Ceil(n, ChunkSize) = v
      BY <3>6, <3>7, <3>8
    <3> HIDE DEF w, v
    <3>. QED
      BY <1>3, <3>9
  <2>. QED
    BY <2>2, <2>3
<1>8. ASSUME NEW c \in 1..L
      PROVE  /\ plan[c].start = ends[c - 1]
             /\ (plan[c].end - plan[c].start) * plan[c].width <= WorkspaceArea(l)
             /\ \A k \in plan[c].start..(plan[c].end - 1) :
                  /\ l.compressed =>
                       SeqLen(Prefill(k)) \div l.ratio <= plan[c].compressed
                  /\ plan[c].compressed + GatherLen(k) <= plan[c].width
  <2>1. plan[c].start = ends[c - 1]
    <3>1. CASE c = 1
      <4>1. L > 0 /\ c - 1 = 0
        BY <1>3, <3>1
      <4>. QED
        BY <1>2, <1>5, <3>1, <4>1
    <3>2. CASE c # 1
      <4>1. c \in 2..L /\ c - 1 \in 1..L
        BY <1>3, <3>2
      <4>. QED
        BY <1>2, <1>5, <4>1
    <3>. QED
      BY <3>1, <3>2
  <2>2. PICK s \in 0..(n - 1) : plan[c] = Chunk(l, s)
    BY <1>4
  <2> DEFINE e == ChunkEnd(l, s)
  <2>3. /\ plan[c].start = s /\ plan[c].end = e
        /\ plan[c].compressed = MaxCompressed(l, s, e) /\ plan[c].width = Width(l, s, e)
    BY <2>2 DEF Chunk
  <2>4. s \in 0..(NumPrefills - 1)
    BY DEF n
  <2>5. e \in (s + 1)..NumPrefills /\ (e - s) * Width(l, s, e) <= WorkspaceArea(l)
    BY <2>4, ChunkEndIs
  <2> HIDE DEF e
  <2>6. ASSUME NEW k \in s..(e - 1)
        PROVE  /\ l.compressed => SeqLen(Prefill(k)) \div l.ratio <= MaxCompressed(l, s, e)
               /\ MaxCompressed(l, s, e) + GatherLen(k) <= Width(l, s, e)
    <3>1. k \in 0..(NumPrefills - 1)
      BY <1>1, <2>4, <2>5 DEF n
    <3> DEFINE C == CompressedBound(l, k)
               G == GatherBound(k)
               g == GatherLen(k)
               M == MaxCompressed(l, s, e)
               W == Width(l, s, e)
               x == SeqLen(Prefill(k)) \div l.ratio
    <3>2. /\ C \in 0..MostCompressed(l) /\ G \in 0..(Window + MaxTokens)
          /\ g \in Nat /\ g <= G /\ (l.compressed => x <= C /\ x \in Nat)
      BY <3>1, HostBounds
    <3>3. W \in 0..Widest(l) /\ M \in Nat /\ C <= M /\ M + G <= W
      BY <2>4, <2>5, WidthIs
    <3> HIDE DEF C, G, g, M, W, x
    <3>6. MostCompressed(l) \in Nat /\ Widest(l) \in Nat
      BY LayerIs
    <3>7. M + g <= W /\ (l.compressed => x <= M)
      BY <3>2, <3>3, <3>6, Sizes
    <3>. QED
      BY <3>7 DEF C, G, g, M, W, x
  <2>. QED
    BY <2>1, <2>3, <2>5, <2>6
<1>. QED
  BY <1>3, <1>6, <1>7, <1>8 DEF plan, ends, L, n

\* The prefill chunk plan takes every prefill once and in order, in chunks that fit
\* the workspace by the host's bounds and by what is gathered, and in no more
\* chunks than of ChunkSize requests each (plan_prefill_chunks).
THEOREM ChunksPlanned == Spec => []PlanFits
  BY Invariant, PlansFit, PTL
=============================================================================
