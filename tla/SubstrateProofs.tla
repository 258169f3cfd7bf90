-------------------------- MODULE SubstrateProofs --------------------------
(***************************************************************************)
(* Proofs about the substrate, for any agents, tokens, calls, samples and  *)
(* batches: the ledger's column adds up, what has been charged is final,   *)
(* and the deny floor agrees with the runtime's gate.                      *)
(***************************************************************************)
EXTENDS Substrate, SequenceTheorems, WellFoundedInduction, TLAPS

----------------------------------------------------------------------------
\* Induction over naturals.

\* A set of naturals has a least element: the form in which induction is used.
LEMMA LeastElement ==
  ASSUME NEW T \in SUBSET Nat, T # {}
  PROVE  \E x \in T : \A y \in T : ~ (y < x)
  <1> DEFINE R == {p \in Nat \X Nat : p[1] < p[2]}
  <1>1. IsWellFoundedOn(R, Nat)
    BY NatLessThanWellFounded DEF OpToRel
  <1> HIDE DEF R
  <1>2. PICK x \in T : \A y \in T : ~(<<y, x>> \in R)
    BY <1>1, WFMin, Zenon
  <1> USE DEF R
  <1>3. \A y \in T : y < x => <<y, x>> \in R
    OBVIOUS
  <1>4. QED
    BY <1>2, <1>3

\* What holds at 0 and is kept by each step up to n holds all along; Good is the
\* set of the numbers at which it does.
LEMMA Along ==
  ASSUME NEW n \in Nat, NEW Good, 0 \in Good,
         \A i \in 1 .. n : i - 1 \in Good => i \in Good
  PROVE  \A i \in 0 .. n : i \in Good
  <1> DEFINE T == {i \in 0 .. n : i \notin Good}
  <1>1. SUFFICES ASSUME T # {} PROVE FALSE
    OBVIOUS
  <1>2. T \in SUBSET Nat
    OBVIOUS
  <1>3. PICK i \in T : \A j \in T : ~(j < i)
    BY <1>1, <1>2, LeastElement
  <1>4. i \in 1 .. n /\ i - 1 \in 0 .. n /\ i - 1 < i
    BY <1>3
  <1>5. i - 1 \in Good
    BY <1>3, <1>4
  <1>6. QED
    BY <1>3, <1>4, <1>5

\* f goes from x by the steps F, n of them.
Runs(f, x, F, n) == f = [k \in 0 .. n |-> IF k = 0 THEN x ELSE F[k][f[k - 1]]]

\* There is such a run, however long: of the lengths for which there were none
\* the least would be one more than one for which there is.
LEMMA RunOf ==
  ASSUME NEW x, NEW F, NEW n \in Nat
  PROVE  \E f : Runs(f, x, F, n)
  <1> DEFINE T == {k \in Nat : ~\E f : Runs(f, x, F, k)}
  <1>1. SUFFICES ASSUME T # {} PROVE FALSE
    OBVIOUS
  <1>2. T \in SUBSET Nat
    OBVIOUS
  <1>3. PICK k \in T : \A j \in T : ~(j < k)
    BY <1>1, <1>2, LeastElement
  <1>4. CASE k = 0
    <2> DEFINE none == [i \in 0 .. 0 |-> x]
    <2>1. Runs(none, x, F, 0)
      BY DEF Runs
    <2>2. QED
      BY <1>4, <2>1
  <1>5. CASE k # 0
    <2>1. k \in Nat /\ k - 1 \in Nat /\ k - 1 < k
      BY <1>5
    <2>2. k - 1 \notin T
      BY <1>3, <2>1
    <2>3. PICK less : Runs(less, x, F, k - 1)
      BY <2>1, <2>2
    <2> DEFINE last == F[k][less[k - 1]]
               more == [i \in 0 .. k |-> IF i = k THEN last ELSE less[i]]
    <2>4. \A i \in 0 .. k - 1 : less[i] = IF i = 0 THEN x ELSE F[i][less[i - 1]]
      BY <2>3, Zenon DEF Runs
    <2>5. ASSUME NEW i \in 0 .. k
          PROVE  more[i] = IF i = 0 THEN x ELSE F[i][more[i - 1]]
      <3> HIDE DEF last
      <3>1. CASE i = k
        <4>1. more[i] = last /\ more[i - 1] = less[k - 1] /\ i # 0
          BY <1>5, <2>1, <3>1
        <4>2. QED
          BY <3>1, <4>1 DEF last
      <3>2. CASE i # k
        <4>1. i \in 0 .. k - 1 /\ more[i] = less[i]
          BY <2>1, <3>2
        <4>2. i # 0 => more[i - 1] = less[i - 1]
          BY <2>1, <3>2
        <4>3. QED
          BY <2>4, <4>1, <4>2
      <3>3. QED
        BY <3>1, <3>2
    <2>6. Runs(more, x, F, k)
      BY <2>5, Zenon DEF Runs
    <2>7. QED
      BY <1>3, <2>6
  <1>6. QED
    BY <1>4, <1>5

----------------------------------------------------------------------------
\* Sums.

\* sum[k] is what the first k numbers of q add up to.
Sums(sum, q) ==
    /\ sum[0] = 0
    /\ \A k \in 1 .. Len(q) : sum[k] = sum[k - 1] + q[k]
    /\ \A k \in 0 .. Len(q) : sum[k] \in Nat

\* A total is where a sum that goes over the sequence ends.
LEMMA TotalOf ==
  ASSUME NEW q \in Seq(Nat)
  PROVE  \E sum : Sums(sum, q) /\ Total(q) = sum[Len(q)]
  <1> DEFINE n == Len(q)
             F == [k \in 1 .. n |-> [x \in Nat |-> x + q[k]]]
             Is(f) == f = [k \in 0 .. Len(q) |-> IF k = 0 THEN 0 ELSE f[k - 1] + q[k]]
             Good(f) == {k \in 0 .. n : f[k] \in Nat}
             sum == CHOOSE f : Is(f)
  <1>1. n \in Nat /\ \A k \in 1 .. n : q[k] \in Nat
    OBVIOUS
  <1>0. \A k \in 1 .. n : \A x \in Nat : F[k][x] = x + q[k]
    OBVIOUS
  <1> HIDE DEF F
  <1>2. PICK f : Runs(f, 0, F, n)
    BY <1>1, RunOf
  <1>3. \A k \in 0 .. n : f[k] = IF k = 0 THEN 0 ELSE F[k][f[k - 1]]
    BY <1>2, Zenon DEF Runs
  <1>4. \A k \in 0 .. n : k \in Good(f)
    <2>1. 0 \in Good(f)
      BY <1>1, <1>3
    <2>2. ASSUME NEW k \in 1 .. n, k - 1 \in Good(f) PROVE k \in Good(f)
      <3>1. f[k] = F[k][f[k - 1]] /\ f[k - 1] \in Nat /\ k \in 0 .. n
        BY <1>1, <1>3, <2>2
      <3>2. f[k] = f[k - 1] + q[k]
        BY <1>0, <3>1
      <3>3. QED
        BY <1>1, <3>1, <3>2
    <2> HIDE DEF Good
    <2>3. QED
      BY <1>1, <2>1, <2>2, Along
  <1>5. ASSUME NEW k \in 0 .. n, k # 0 PROVE F[k][f[k - 1]] = f[k - 1] + q[k]
    <2>1. k \in 1 .. n /\ k - 1 \in 0 .. n
      BY <1>1, <1>5
    <2>2. f[k - 1] \in Nat
      BY <1>4, <2>1
    <2>3. QED
      BY <1>0, <2>1, <2>2
  <1>6. Is(f)
    <2>1. f = [k \in 0 .. n |-> IF k = 0 THEN 0 ELSE F[k][f[k - 1]]]
      BY <1>2, Zenon DEF Runs
    <2>2. [k \in 0 .. n |-> IF k = 0 THEN 0 ELSE F[k][f[k - 1]]]
            = [k \in 0 .. n |-> IF k = 0 THEN 0 ELSE f[k - 1] + q[k]]
      BY <1>5
    <2>3. QED
      BY <2>1, <2>2, Zenon
  <1>7. Is(sum)
    BY <1>6, Zenon
  <1>8. Total(q) = sum[Len(q)]
    BY DEF Total
  <1> HIDE DEF sum
  <1>9. \A k \in 0 .. n : sum[k] = IF k = 0 THEN 0 ELSE sum[k - 1] + q[k]
    BY <1>7, Zenon
  <1>10. \A k \in 0 .. n : k \in Good(sum)
    <2>1. 0 \in Good(sum)
      BY <1>1, <1>9
    <2>2. ASSUME NEW k \in 1 .. n, k - 1 \in Good(sum) PROVE k \in Good(sum)
      BY <1>1, <1>9, <2>2
    <2> HIDE DEF Good
    <2>3. QED
      BY <1>1, <2>1, <2>2, Along
  <1>11. Sums(sum, q)
    BY <1>1, <1>9, <1>10 DEF Sums
  <1>12. QED
    BY <1>8, <1>11

\* A total is a number.
LEMMA TotalNat ==
  ASSUME NEW q \in Seq(Nat)
  PROVE  Total(q) \in Nat
  <1>1. PICK sum : Sums(sum, q) /\ Total(q) = sum[Len(q)]
    BY TotalOf
  <1>2. QED
    BY <1>1 DEF Sums

\* The total of two sequences, one after the other.
LEMMA TotalConcat ==
  ASSUME NEW p \in Seq(Nat), NEW q \in Seq(Nat)
  PROVE  Total(p \o q) = Total(p) + Total(q)
  <1> DEFINE m == Len(p)
             n == Len(q)
             r == p \o q
  <1>1. /\ r \in Seq(Nat) /\ Len(r) = m + n /\ m \in Nat /\ n \in Nat
        /\ \A k \in 1 .. m : r[k] = p[k]
        /\ \A k \in 1 .. n : r[m + k] = q[k]
    OBVIOUS
  <1> HIDE DEF r
  <1>2. PICK f : Sums(f, p) /\ Total(p) = f[m]
    BY TotalOf
  <1>3. PICK g : Sums(g, q) /\ Total(q) = g[n]
    BY TotalOf
  <1>4. PICK h : Sums(h, r) /\ Total(r) = h[m + n]
    BY <1>1, TotalOf
  <1> HIDE DEF m, n
  <1>5. \A k \in 0 .. m : h[k] = f[k]
    <2> DEFINE Good == {k \in 0 .. m : h[k] = f[k]}
    <2>1. 0 \in Good
      BY <1>1, <1>2, <1>4 DEF Sums
    <2>2. ASSUME NEW k \in 1 .. m, k - 1 \in Good PROVE k \in Good
      <3>1. h[k] = h[k - 1] + r[k]
        BY <1>1, <1>4 DEF Sums
      <3>2. f[k] = f[k - 1] + p[k]
        BY <1>2 DEF Sums, m
      <3>3. QED
        BY <1>1, <2>2, <3>1, <3>2
    <2> HIDE DEF Good
    <2>3. \A k \in 0 .. m : k \in Good
      BY <1>1, <2>1, <2>2, Along
    <2>4. QED
      BY <2>3 DEF Good
  <1>6. \A k \in 0 .. n : h[m + k] = f[m] + g[k]
    <2> DEFINE Good == {k \in 0 .. n : h[m + k] = f[m] + g[k]}
    <2>1. 0 \in Good
      <3>1. h[m] = f[m] /\ g[0] = 0 /\ f[m] \in Nat /\ m + 0 = m
        BY <1>1, <1>2, <1>3, <1>5 DEF Sums, m
      <3>2. QED
        BY <1>1, <3>1
    <2>2. ASSUME NEW k \in 1 .. n, k - 1 \in Good PROVE k \in Good
      <3>1. m + k \in 1 .. Len(r) /\ (m + k) - 1 = m + (k - 1) /\ k \in 0 .. n
        BY <1>1
      <3>2. h[m + k] = h[m + (k - 1)] + q[k]
        BY <1>1, <1>4, <3>1 DEF Sums
      <3>3. g[k] = g[k - 1] + q[k] /\ q[k] \in Nat /\ g[k - 1] \in Nat
        <4>1. k - 1 \in 0 .. n
          BY <1>1
        <4>2. q[k] \in Nat
          BY DEF n
        <4>3. QED
          BY <1>3, <4>1, <4>2 DEF Sums, n
      <3>4. f[m] \in Nat
        BY <1>1, <1>2 DEF Sums, m
      <3>5. h[m + (k - 1)] = f[m] + g[k - 1]
        BY <2>2
      <3>6. h[m + k] = f[m] + g[k]
        BY <3>2, <3>3, <3>4, <3>5
      <3>7. QED
        BY <3>1, <3>6
    <2> HIDE DEF Good
    <2>3. \A k \in 0 .. n : k \in Good
      BY <1>1, <2>1, <2>2, Along
    <2>4. QED
      BY <2>3 DEF Good
  <1>7. h[m + n] = f[m] + g[n]
    BY <1>1, <1>6
  <1>8. QED
    BY <1>2, <1>3, <1>4, <1>7 DEF r

\* The total of one number.
LEMMA TotalOne ==
  ASSUME NEW x \in Nat
  PROVE  Total(<<x>>) = x
  <1> DEFINE q == <<x>>
  <1>1. q \in Seq(Nat) /\ Len(q) = 1 /\ q[1] = x
    OBVIOUS
  <1> HIDE DEF q
  <1>2. PICK sum : Sums(sum, q) /\ Total(q) = sum[Len(q)]
    BY <1>1, TotalOf
  <1>3. sum[0] = 0 /\ 1 \in 1 .. Len(q)
    BY <1>1, <1>2 DEF Sums
  <1>4. sum[1] = sum[1 - 1] + q[1]
    BY <1>2, <1>3 DEF Sums
  <1>5. QED
    BY <1>1, <1>2, <1>3, <1>4 DEF q

\* Nothing adds up to nothing.
LEMMA TotalZeros ==
  ASSUME NEW q \in Seq(Nat), \A i \in 1 .. Len(q) : q[i] = 0
  PROVE  Total(q) = 0
  <1>1. PICK sum : Sums(sum, q) /\ Total(q) = sum[Len(q)]
    BY TotalOf
  <1> DEFINE n == Len(q)
             Good == {k \in 0 .. n : sum[k] = 0}
  <1>2. 0 \in Good /\ n \in Nat
    BY <1>1 DEF Sums
  <1>3. ASSUME NEW k \in 1 .. n, k - 1 \in Good PROVE k \in Good
    BY <1>1, <1>3 DEF Sums
  <1> HIDE DEF Good, n
  <1>4. \A k \in 0 .. n : k \in Good
    BY <1>2, <1>3, Along
  <1>5. n \in Good
    BY <1>2, <1>4
  <1>6. QED
    BY <1>1, <1>5 DEF Good, n

\* r is q with its i-th number raised by d.
Raised(r, q, i, d) ==
    /\ Len(r) = Len(q)
    /\ i \in 1 .. Len(q) /\ r[i] = q[i] + d
    /\ \A j \in 1 .. Len(q) : j # i => r[j] = q[j]

\* A number raised raises the total by as much.
LEMMA TotalRaised ==
  ASSUME NEW q \in Seq(Nat), NEW r \in Seq(Nat), NEW i, NEW d \in Nat, Raised(r, q, i, d)
  PROVE  Total(r) = Total(q) + d
  <1> DEFINE n == Len(q)
  <1>1. /\ n \in Nat /\ Len(r) = n /\ i \in 1 .. n /\ r[i] = q[i] + d
        /\ \A j \in 1 .. n : j # i => r[j] = q[j]
        /\ \A j \in 1 .. n : q[j] \in Nat
    BY DEF Raised
  <1>2. PICK f : Sums(f, q) /\ Total(q) = f[n]
    BY TotalOf
  <1>3. PICK h : Sums(h, r) /\ Total(r) = h[n]
    BY <1>1, TotalOf
  <1>4. /\ f[0] = 0 /\ h[0] = 0
        /\ \A k \in 1 .. n : f[k] = f[k - 1] + q[k] /\ h[k] = h[k - 1] + r[k]
        /\ \A k \in 0 .. n : f[k] \in Nat /\ h[k] \in Nat
    BY <1>1, <1>2, <1>3 DEF Sums
  <1> HIDE DEF n
  <1> DEFINE Good == {k \in 0 .. n : /\ k < i => h[k] = f[k]
                                     /\ k >= i => h[k] = f[k] + d}
  <1>5. 0 \in Good
    BY <1>1, <1>4
  <1>6. ASSUME NEW k \in 1 .. n, k - 1 \in Good PROVE k \in Good
    <2>1. /\ f[k] = f[k - 1] + q[k] /\ h[k] = h[k - 1] + r[k]
          /\ k - 1 \in 0 .. n /\ k \in 0 .. n
      BY <1>1, <1>4
    <2>2. f[k - 1] \in Nat /\ q[k] \in Nat
      BY <1>1, <1>4, <2>1
    <2>3. /\ k - 1 < i => h[k - 1] = f[k - 1]
          /\ k - 1 >= i => h[k - 1] = f[k - 1] + d
      BY <1>6
    <2> HIDE DEF Good
    <2>4. k < i => h[k] = f[k]
      <3>1. k < i => k - 1 < i /\ r[k] = q[k]
        BY <1>1
      <3>2. QED
        BY <2>1, <2>2, <2>3, <3>1
    <2>5. k = i => h[k] = f[k] + d
      <3>1. k = i => k - 1 < i /\ r[k] = q[k] + d
        BY <1>1
      <3>2. QED
        BY <2>1, <2>2, <2>3, <3>1
    <2>6. k > i => h[k] = f[k] + d
      <3>1. k > i => k - 1 >= i /\ r[k] = q[k]
        BY <1>1
      <3>2. QED
        BY <2>1, <2>2, <2>3, <3>1
    <2>7. /\ k < i => h[k] = f[k]
          /\ k >= i => h[k] = f[k] + d
      BY <1>1, <2>4, <2>5, <2>6
    <2>8. QED
      BY <2>1, <2>7 DEF Good
  <1> HIDE DEF Good
  <1>7. \A k \in 0 .. n : k \in Good
    BY <1>1, <1>5, <1>6, Along
  <1>8. n \in Good /\ n >= i
    BY <1>1, <1>7
  <1>9. QED
    BY <1>2, <1>3, <1>8 DEF Good

----------------------------------------------------------------------------
\* Samples and entries.

Sample == [agent : Agents, op : Metered, at : Nat, cost : Nat]
Entry  == [agent : Agents, op : Metered, at : Nat, cost : Nat, samples : Nat]
Record == [agent : Agents, op : Metered, at : Nat]

Ledgers == [entries : Seq(Entry), unattributed : Seq(Sample)]

\* The numbers that Costs, Count and Folded add up.
CostColumn(s, a, op) ==
    [i \in DOMAIN s |-> IF s[i].agent = a /\ s[i].op = op THEN s[i].cost ELSE 0]
CountColumn(s, a, op) ==
    [i \in DOMAIN s |-> IF s[i].agent = a /\ s[i].op = op THEN 1 ELSE 0]
FoldedColumn(s, a, op) ==
    [i \in DOMAIN s |-> IF s[i].agent = a /\ s[i].op = op THEN s[i].samples ELSE 0]

\* c is a column of the sequence s.
IsColumn(c, s) == c \in Seq(Nat) /\ Len(c) = Len(s)

\* Numbers indexed from 1 are a sequence.
LEMMA NumbersAreSeq ==
  ASSUME NEW n \in Nat, NEW c \in [1 .. n -> Nat]
  PROVE  c \in Seq(Nat) /\ Len(c) = n
  OBVIOUS

\* What the entries of a sequence of samples or of entries are.
LEMMA SeqElements ==
  /\ \A s \in Seq(Sample) : /\ DOMAIN s = 1 .. Len(s) /\ Len(s) \in Nat
                            /\ \A i \in 1 .. Len(s) : s[i] \in Sample
  /\ \A s \in Seq(Entry) : /\ DOMAIN s = 1 .. Len(s) /\ Len(s) \in Nat
                           /\ \A i \in 1 .. Len(s) : s[i] \in Entry
  OBVIOUS

\* The columns are sequences of numbers, as long as what they are of.
LEMMA Columns ==
  ASSUME NEW a, NEW op
  PROVE  /\ \A s \in Seq(Sample) : /\ IsColumn(CostColumn(s, a, op), s)
                                   /\ IsColumn(CountColumn(s, a, op), s)
         /\ \A s \in Seq(Entry) : /\ IsColumn(CostColumn(s, a, op), s)
                                  /\ IsColumn(FoldedColumn(s, a, op), s)
  <1>1. ASSUME NEW s \in Seq(Sample)
        PROVE  IsColumn(CostColumn(s, a, op), s) /\ IsColumn(CountColumn(s, a, op), s)
    <2>1. DOMAIN s = 1 .. Len(s) /\ Len(s) \in Nat /\ \A i \in 1 .. Len(s) : s[i].cost \in Nat
      BY SeqElements DEF Sample
    <2>2. CostColumn(s, a, op) \in [1 .. Len(s) -> Nat]
      BY <2>1 DEF CostColumn
    <2>3. CountColumn(s, a, op) \in [1 .. Len(s) -> Nat]
      BY <2>1 DEF CountColumn
    <2>4. QED
      BY <2>1, <2>2, <2>3, NumbersAreSeq DEF IsColumn
  <1>2. ASSUME NEW s \in Seq(Entry)
        PROVE  IsColumn(CostColumn(s, a, op), s) /\ IsColumn(FoldedColumn(s, a, op), s)
    <2>1. /\ DOMAIN s = 1 .. Len(s) /\ Len(s) \in Nat
          /\ \A i \in 1 .. Len(s) : s[i].cost \in Nat /\ s[i].samples \in Nat
      BY SeqElements DEF Entry
    <2>2. CostColumn(s, a, op) \in [1 .. Len(s) -> Nat]
      BY <2>1 DEF CostColumn
    <2>3. FoldedColumn(s, a, op) \in [1 .. Len(s) -> Nat]
      BY <2>1 DEF FoldedColumn
    <2>4. QED
      BY <2>1, <2>2, <2>3, NumbersAreSeq DEF IsColumn
  <1>3. QED
    BY <1>1, <1>2

\* What a sample or an entry counts for in the column of an agent and an operation.
Own(x, a, op, n) == IF x.agent = a /\ x.op = op THEN n ELSE 0

\* A sequence made of the numbers of two others is the two, one after the other.
LEMMA PieceByPiece ==
  ASSUME NEW p \in Seq(Nat), NEW q \in Seq(Nat), NEW c \in Seq(Nat),
         Len(c) = Len(p) + Len(q),
         \A i \in 1 .. Len(p) : c[i] = p[i],
         \A i \in 1 .. Len(q) : c[Len(p) + i] = q[i]
  PROVE  c = p \o q
  <1>1. /\ p \o q \in Seq(Nat) /\ Len(p \o q) = Len(p) + Len(q)
        /\ Len(p) \in Nat /\ Len(q) \in Nat
        /\ \A i \in 1 .. Len(p) : (p \o q)[i] = p[i]
        /\ \A i \in 1 .. Len(q) : (p \o q)[Len(p) + i] = q[i]
    OBVIOUS
  <1>2. ASSUME NEW i \in 1 .. Len(c) PROVE c[i] = (p \o q)[i]
    <2>1. CASE i <= Len(p)
      BY <1>1, <2>1
    <2>2. CASE i > Len(p)
      <3>1. i - Len(p) \in 1 .. Len(q) /\ Len(p) + (i - Len(p)) = i
        BY <1>1, <2>2
      <3>2. QED
        BY <1>1, <3>1
    <2>3. QED
      BY <1>1, <2>1, <2>2
  <1>3. QED
    BY <1>1, <1>2

\* Two sequences, one after the other.
LEMMA Concat ==
  ASSUME NEW X, NEW s \in Seq(X), NEW t \in Seq(X)
  PROVE  /\ s \o t \in Seq(X) /\ Len(s \o t) = Len(s) + Len(t)
         /\ Len(s) \in Nat /\ Len(t) \in Nat
         /\ DOMAIN s = 1 .. Len(s) /\ DOMAIN t = 1 .. Len(t)
         /\ DOMAIN (s \o t) = 1 .. Len(s) + Len(t)
         /\ \A i \in 1 .. Len(s) : (s \o t)[i] = s[i]
         /\ \A i \in 1 .. Len(t) : (s \o t)[Len(s) + i] = t[i]
  OBVIOUS

\* The columns p and q of two sequences, and c of the two, one after the other.
LEMMA ColumnConcat ==
  ASSUME NEW X, NEW s \in Seq(X), NEW t \in Seq(X), NEW p, NEW q, NEW c,
         IsColumn(p, s), IsColumn(q, t), IsColumn(c, s \o t),
         \A i \in 1 .. Len(s) : c[i] = p[i],
         \A i \in 1 .. Len(t) : c[Len(s) + i] = q[i]
  PROVE  Total(c) = Total(p) + Total(q)
  <1>1. /\ p \in Seq(Nat) /\ q \in Seq(Nat) /\ c \in Seq(Nat)
        /\ Len(p) = Len(s) /\ Len(q) = Len(t) /\ Len(c) = Len(p) + Len(q)
    BY Concat DEF IsColumn
  <1>2. c = p \o q
    <2>1. \A i \in 1 .. Len(p) : c[i] = p[i]
      BY <1>1
    <2>2. \A i \in 1 .. Len(q) : c[Len(p) + i] = q[i]
      BY <1>1
    <2>3. QED
      BY <1>1, <2>1, <2>2, PieceByPiece
  <1>3. QED
    BY <1>2, TotalConcat DEF IsColumn

\* Costs, Count and Folded are the totals of their columns.
LEMMA ColumnTotals ==
  ASSUME NEW s, NEW a, NEW op
  PROVE  /\ Costs(s, a, op) = Total(CostColumn(s, a, op))
         /\ Count(s, a, op) = Total(CountColumn(s, a, op))
         /\ Folded(s, a, op) = Total(FoldedColumn(s, a, op))
  BY Zenon DEF Costs, Count, Folded, CostColumn, CountColumn, FoldedColumn

\* They are numbers.
LEMMA ColumnNats ==
  ASSUME NEW a, NEW op
  PROVE  /\ \A s \in Seq(Sample) : Costs(s, a, op) \in Nat /\ Count(s, a, op) \in Nat
         /\ \A s \in Seq(Entry) : Costs(s, a, op) \in Nat /\ Folded(s, a, op) \in Nat
  BY Columns, ColumnTotals, TotalNat DEF IsColumn

\* What the samples, or the entries, of two sequences cost together.
LEMMA CostsConcat ==
  ASSUME NEW X \in {Sample, Entry}, NEW s \in Seq(X), NEW t \in Seq(X), NEW a, NEW op
  PROVE  Costs(s \o t, a, op) = Costs(s, a, op) + Costs(t, a, op)
  <1> DEFINE p == CostColumn(s, a, op)
             q == CostColumn(t, a, op)
             c == CostColumn(s \o t, a, op)
  <1>1. IsColumn(p, s) /\ IsColumn(q, t) /\ IsColumn(c, s \o t)
    BY Columns, Concat
  <1>2. \A i \in 1 .. Len(s) : c[i] = p[i]
    BY Concat DEF CostColumn
  <1>3. \A i \in 1 .. Len(t) : c[Len(s) + i] = q[i]
    BY Concat DEF CostColumn
  <1> HIDE DEF p, q, c
  <1>4. Total(c) = Total(p) + Total(q)
    BY <1>1, <1>2, <1>3, ColumnConcat
  <1>5. QED
    BY <1>4, ColumnTotals DEF p, q, c

\* How many samples two sequences have together.
LEMMA CountConcat ==
  ASSUME NEW s \in Seq(Sample), NEW t \in Seq(Sample), NEW a, NEW op
  PROVE  Count(s \o t, a, op) = Count(s, a, op) + Count(t, a, op)
  <1> DEFINE p == CountColumn(s, a, op)
             q == CountColumn(t, a, op)
             c == CountColumn(s \o t, a, op)
  <1>1. IsColumn(p, s) /\ IsColumn(q, t) /\ IsColumn(c, s \o t)
    BY Columns, Concat
  <1>2. \A i \in 1 .. Len(s) : c[i] = p[i]
    BY Concat DEF CountColumn
  <1>3. \A i \in 1 .. Len(t) : c[Len(s) + i] = q[i]
    BY Concat DEF CountColumn
  <1> HIDE DEF p, q, c
  <1>4. Total(c) = Total(p) + Total(q)
    BY <1>1, <1>2, <1>3, ColumnConcat
  <1>5. QED
    BY <1>4, ColumnTotals DEF p, q, c

\* How many samples the entries of two sequences have folded in together.
LEMMA FoldedConcat ==
  ASSUME NEW s \in Seq(Entry), NEW t \in Seq(Entry), NEW a, NEW op
  PROVE  Folded(s \o t, a, op) = Folded(s, a, op) + Folded(t, a, op)
  <1> DEFINE p == FoldedColumn(s, a, op)
             q == FoldedColumn(t, a, op)
             c == FoldedColumn(s \o t, a, op)
  <1>1. IsColumn(p, s) /\ IsColumn(q, t) /\ IsColumn(c, s \o t)
    BY Columns, Concat
  <1>2. \A i \in 1 .. Len(s) : c[i] = p[i]
    BY Concat DEF FoldedColumn
  <1>3. \A i \in 1 .. Len(t) : c[Len(s) + i] = q[i]
    BY Concat DEF FoldedColumn
  <1> HIDE DEF p, q, c
  <1>4. Total(c) = Total(p) + Total(q)
    BY <1>1, <1>2, <1>3, ColumnConcat
  <1>5. QED
    BY <1>4, ColumnTotals DEF p, q, c

----------------------------------------------------------------------------
\* One sample.

\* A single sample's column.
LEMMA OneSample ==
  ASSUME NEW s \in Sample, NEW a, NEW op
  PROVE  /\ <<s>> \in Seq(Sample)
         /\ Costs(<<s>>, a, op) = Own(s, a, op, s.cost)
         /\ Count(<<s>>, a, op) = Own(s, a, op, 1)
  <1>1. <<s>> \in Seq(Sample) /\ DOMAIN <<s>> = 1 .. 1 /\ <<s>>[1] = s
    OBVIOUS
  <1>2. s.cost \in Nat
    BY DEF Sample
  <1>3. CostColumn(<<s>>, a, op) = <<Own(s, a, op, s.cost)>>
    BY <1>1 DEF CostColumn, Own
  <1>4. CountColumn(<<s>>, a, op) = <<Own(s, a, op, 1)>>
    BY <1>1 DEF CountColumn, Own
  <1>5. Own(s, a, op, s.cost) \in Nat /\ Own(s, a, op, 1) \in Nat
    BY <1>2 DEF Own
  <1>6. QED
    BY <1>1, <1>3, <1>4, <1>5, TotalOne, ColumnTotals

\* A sample more.
LEMMA AppendSample ==
  ASSUME NEW u \in Seq(Sample), NEW s \in Sample, NEW a, NEW op
  PROVE  /\ Append(u, s) \in Seq(Sample)
         /\ Costs(Append(u, s), a, op) = Costs(u, a, op) + Own(s, a, op, s.cost)
         /\ Count(Append(u, s), a, op) = Count(u, a, op) + Own(s, a, op, 1)
  <1> DEFINE v == <<s>>
  <1>1. Append(u, s) = u \o v /\ Append(u, s) \in Seq(Sample) /\ v \in Seq(Sample)
    OBVIOUS
  <1>2. Costs(v, a, op) = Own(s, a, op, s.cost) /\ Count(v, a, op) = Own(s, a, op, 1)
    BY OneSample
  <1> HIDE DEF v
  <1>3. Costs(u \o v, a, op) = Costs(u, a, op) + Costs(v, a, op)
    BY <1>1, CostsConcat
  <1>4. Count(u \o v, a, op) = Count(u, a, op) + Count(v, a, op)
    BY <1>1, CountConcat
  <1>5. QED
    BY <1>1, <1>2, <1>3, <1>4

\* f is the entry e charged with the sample x.
IsCharged(f, e, x) ==
    /\ f \in Entry
    /\ f.agent = e.agent /\ f.op = e.op /\ f.at = e.at
    /\ f.cost = e.cost + x.cost /\ f.samples = e.samples + 1

\* The entries t are the entries s but for the i-th, charged with the sample x.
Billed(t, s, i, x) ==
    /\ t \in Seq(Entry) /\ Len(t) = Len(s) /\ i \in 1 .. Len(s)
    /\ IsCharged(t[i], s[i], x)
    /\ \A j \in 1 .. Len(s) : j # i => t[j] = s[j]

\* What a sample counts for is a number.
LEMMA OwnNat ==
  ASSUME NEW x, NEW a, NEW op, NEW n \in Nat
  PROVE  Own(x, a, op, n) \in Nat
  BY DEF Own

\* What charging an entry changes.
LEMMA ChargedEntry ==
  ASSUME NEW e \in Entry, NEW x \in Sample
  PROVE  IsCharged(ChargedWith(e, x), e, x)
  <1> DEFINE g == [e EXCEPT !.cost = e.cost + x.cost]
             f == ChargedWith(e, x)
  <1>1. e.cost \in Nat /\ e.samples \in Nat /\ x.cost \in Nat
    BY DEF Entry, Sample
  <1>2. /\ g \in Entry /\ g.agent = e.agent /\ g.op = e.op /\ g.at = e.at
        /\ g.cost = e.cost + x.cost /\ g.samples = e.samples
    BY <1>1 DEF Entry
  <1>3. f = [g EXCEPT !.samples = g.samples + 1]
    BY <1>2 DEF ChargedWith
  <1> HIDE DEF g, f
  <1>4. /\ f \in Entry /\ f.agent = g.agent /\ f.op = g.op /\ f.at = g.at
        /\ f.cost = g.cost /\ f.samples = g.samples + 1
    BY <1>1, <1>2, <1>3 DEF Entry
  <1>5. IsCharged(f, e, x)
    BY <1>1, <1>2, <1>4 DEF IsCharged
  <1>6. QED
    BY <1>5 DEF f

\* What an entry is charged the column of its agent and operation shows.
LEMMA BilledColumn ==
  ASSUME NEW s \in Seq(Entry), NEW x \in Sample, NEW t, NEW i, Billed(t, s, i, x),
         s[i].agent = x.agent, s[i].op = x.op, NEW a, NEW op
  PROVE  /\ Costs(t, a, op) = Costs(s, a, op) + Own(x, a, op, x.cost)
         /\ Folded(t, a, op) = Folded(s, a, op) + Own(x, a, op, 1)
  <1>1. /\ t \in Seq(Entry) /\ Len(t) = Len(s) /\ i \in 1 .. Len(s)
        /\ DOMAIN s = 1 .. Len(s) /\ DOMAIN t = 1 .. Len(s)
        /\ s[i] \in Entry /\ x.cost \in Nat
        /\ \A j \in 1 .. Len(s) : j # i => t[j] = s[j]
    BY SeqElements DEF Billed, Sample
  <1>2. /\ t[i].agent = s[i].agent /\ t[i].op = s[i].op
        /\ t[i].cost = s[i].cost + x.cost /\ t[i].samples = s[i].samples + 1
        /\ s[i].cost \in Nat /\ s[i].samples \in Nat
    BY <1>1 DEF Billed, IsCharged, Entry
  <1>3. Own(x, a, op, x.cost) \in Nat /\ Own(x, a, op, 1) \in Nat
    BY <1>1, OwnNat
  <1>4. /\ IsColumn(CostColumn(t, a, op), t) /\ IsColumn(CostColumn(s, a, op), s)
        /\ IsColumn(FoldedColumn(t, a, op), t) /\ IsColumn(FoldedColumn(s, a, op), s)
    BY <1>1, Columns
  <1>5. Raised(CostColumn(t, a, op), CostColumn(s, a, op), i, Own(x, a, op, x.cost))
    <2> DEFINE r == CostColumn(t, a, op)
               q == CostColumn(s, a, op)
    <2>1. Len(r) = Len(s) /\ Len(q) = Len(s)
      BY <1>1, <1>4 DEF IsColumn
    <2>2. r[i] = q[i] + Own(x, a, op, x.cost)
      <3>1. x.agent = a /\ x.op = op => /\ r[i] = s[i].cost + x.cost /\ q[i] = s[i].cost
                                        /\ Own(x, a, op, x.cost) = x.cost
        BY <1>1, <1>2 DEF CostColumn, Own
      <3>2. ~(x.agent = a /\ x.op = op) => /\ r[i] = 0 /\ q[i] = 0
                                           /\ Own(x, a, op, x.cost) = 0
        BY <1>1, <1>2 DEF CostColumn, Own
      <3> HIDE DEF r, q
      <3>3. QED
        BY <3>1, <3>2
    <2>3. \A j \in 1 .. Len(s) : j # i => r[j] = q[j]
      BY <1>1 DEF CostColumn
    <2> HIDE DEF r, q
    <2>4. Raised(r, q, i, Own(x, a, op, x.cost))
      BY <1>1, <2>1, <2>2, <2>3 DEF Raised
    <2>5. QED
      BY <2>4 DEF r, q
  <1>6. Raised(FoldedColumn(t, a, op), FoldedColumn(s, a, op), i, Own(x, a, op, 1))
    <2> DEFINE r == FoldedColumn(t, a, op)
               q == FoldedColumn(s, a, op)
    <2>1. Len(r) = Len(s) /\ Len(q) = Len(s)
      BY <1>1, <1>4 DEF IsColumn
    <2>2. r[i] = q[i] + Own(x, a, op, 1)
      <3>1. x.agent = a /\ x.op = op => /\ r[i] = s[i].samples + 1 /\ q[i] = s[i].samples
                                        /\ Own(x, a, op, 1) = 1
        BY <1>1, <1>2 DEF FoldedColumn, Own
      <3>2. ~(x.agent = a /\ x.op = op) => /\ r[i] = 0 /\ q[i] = 0
                                           /\ Own(x, a, op, 1) = 0
        BY <1>1, <1>2 DEF FoldedColumn, Own
      <3> HIDE DEF r, q
      <3>3. QED
        BY <3>1, <3>2
    <2>3. \A j \in 1 .. Len(s) : j # i => r[j] = q[j]
      BY <1>1 DEF FoldedColumn
    <2> HIDE DEF r, q
    <2>4. Raised(r, q, i, Own(x, a, op, 1))
      BY <1>1, <2>1, <2>2, <2>3 DEF Raised
    <2>5. QED
      BY <2>4 DEF r, q
  <1>7. QED
    BY <1>3, <1>4, <1>5, <1>6, TotalRaised, ColumnTotals DEF IsColumn

\* How far apart two records are is a number.
LEMMA GapNat ==
  ASSUME NEW e, NEW x, e.at \in Nat, x.at \in Nat
  PROVE  Gap(e, x) \in Nat
  <1>1. CASE e.at >= x.at
    BY <1>1 DEF Gap
  <1>2. CASE ~(e.at >= x.at)
    BY <1>2 DEF Gap
  <1>3. QED
    BY <1>1, <1>2

\* Of some entries there is a nearest to a sample, and a first of the nearest.
LEMMA NearestIn ==
  ASSUME NEW s \in Seq(Entry), NEW x \in Sample, NEW C \in SUBSET (1 .. Len(s)), C # {}
  PROVE  (CHOOSE i \in C : \A j \in C :
             \/ Gap(s[i], x) < Gap(s[j], x)
             \/ Gap(s[i], x) = Gap(s[j], x) /\ i <= j) \in C
  <1> DEFINE gap(i) == Gap(s[i], x)
             Gaps == {g \in Nat : \E i \in C : g = gap(i)}
  <1>1. ASSUME NEW i \in C PROVE gap(i) \in Nat /\ i \in Nat
    <2>1. i \in 1 .. Len(s) /\ i \in Nat
      BY SeqElements
    <2>2. s[i] \in Entry
      BY <2>1, SeqElements
    <2>3. s[i].at \in Nat /\ x.at \in Nat
      BY <2>2 DEF Entry, Sample
    <2>4. QED
      BY <2>1, <2>3, GapNat
  <1> HIDE DEF gap
  <1>2. Gaps \in SUBSET Nat /\ Gaps # {}
    BY <1>1
  <1>3. PICK g \in Gaps : \A h \in Gaps : ~(h < g)
    BY <1>2, LeastElement
  <1> DEFINE T == {i \in C : gap(i) = g}
  <1>4. T \in SUBSET Nat /\ T # {}
    BY <1>1, <1>3
  <1>5. PICK i \in T : \A j \in T : ~(j < i)
    BY <1>4, LeastElement
  <1>6. ASSUME NEW j \in C PROVE gap(i) < gap(j) \/ (gap(i) = gap(j) /\ i <= j)
    <2>1. ~(gap(j) < g) /\ gap(i) = g /\ i \in C
      BY <1>1, <1>3, <1>5
    <2>2. gap(j) = g => ~(j < i)
      BY <1>5
    <2>3. QED
      BY <1>1, <2>1, <2>2
  <1>7. i \in C
    BY <1>5
  <1>8. QED
    BY <1>6, <1>7 DEF gap

\* The fields of a ledger.
LEMMA LedgerFields ==
  /\ \A L \in Ledgers : L.entries \in Seq(Entry) /\ L.unattributed \in Seq(Sample)
  /\ \A s \in Seq(Entry), u \in Seq(Sample) :
       [entries |-> s, unattributed |-> u] \in Ledgers
  BY DEF Ledgers

\* A ledger with one of its fields changed.
LEMMA LedgerEdits ==
  ASSUME NEW L \in Ledgers, NEW v
  PROVE  /\ [L EXCEPT !.entries = v] = [entries |-> v, unattributed |-> L.unattributed]
         /\ [L EXCEPT !.unattributed = v] = [entries |-> L.entries, unattributed |-> v]
  BY DEF Ledgers

\* M is the ledger L with the sample x charged to its i-th entry, a claimant, or
\* kept apart.
Charges(L, base, x, M) ==
    \/ /\ M.entries = L.entries
       /\ M.unattributed = Append(L.unattributed, x)
    \/ /\ M.unattributed = L.unattributed
       /\ \E i \in Claimants(L, base, x) : Billed(M.entries, L.entries, i, x)

\* A sample is charged, or kept apart.
LEMMA AttributedCharges ==
  ASSUME NEW L \in Ledgers, NEW base \in Nat, NEW x \in Sample
  PROVE  Attributed(L, base, x) \in Ledgers /\ Charges(L, base, x, Attributed(L, base, x))
  <1> DEFINE C == Claimants(L, base, x)
             s == L.entries
             u == L.unattributed
             near == CHOOSE i \in C : \A j \in C :
                        \/ Gap(s[i], x) < Gap(s[j], x)
                        \/ Gap(s[i], x) = Gap(s[j], x) /\ i <= j
             apart == [L EXCEPT !.unattributed = Append(@, x)]
             billed == [L EXCEPT !.entries[near] = ChargedWith(@, x)]
  <1>1. Attributed(L, base, x) = IF C = {} THEN apart ELSE billed
    BY DEF Attributed
  <1>2. s \in Seq(Entry) /\ u \in Seq(Sample)
    BY LedgerFields
  <1>3. C \in SUBSET (1 .. Len(s))
    <2>1. Len(s) \in Nat
      BY <1>2
    <2>2. C \subseteq base + 1 .. Len(s)
      BY DEF Claimants
    <2>3. QED
      BY <2>1, <2>2
  <1>4. C # {} => near \in C
    BY <1>2, <1>3, NearestIn
  <1> HIDE DEF C, near
  <1>5. CASE C = {}
    <2>1. apart = [entries |-> s, unattributed |-> Append(u, x)]
      <3> DEFINE v == Append(u, x)
      <3>1. apart = [L EXCEPT !.unattributed = v]
        OBVIOUS
      <3> HIDE DEF v, apart
      <3>2. apart = [entries |-> s, unattributed |-> v]
        BY <3>1, LedgerEdits
      <3>3. QED
        BY <3>2 DEF v
    <2>2. Append(u, x) \in Seq(Sample)
      BY <1>2
    <2> HIDE DEF apart, s, u
    <2>3. apart \in Ledgers
      BY <1>2, <2>1, <2>2, LedgerFields
    <2>4. Charges(L, base, x, apart)
      BY <2>1 DEF Charges, s, u
    <2>5. QED
      BY <1>1, <1>5, <2>3, <2>4
  <1>6. CASE C # {}
    <2> DEFINE e == s[near]
               f == ChargedWith(e, x)
               t == [s EXCEPT ![near] = f]
    <2>1. near \in 1 .. Len(s) /\ e \in Entry
      BY <1>2, <1>3, <1>4, <1>6, SeqElements
    <2>2. billed = [entries |-> t, unattributed |-> u]
      <3>1. billed = [L EXCEPT !.entries = t]
        OBVIOUS
      <3> HIDE DEF t, billed
      <3>2. QED
        BY <3>1, LedgerEdits
    <2>3. IsCharged(f, e, x)
      BY <2>1, ChargedEntry
    <2> HIDE DEF f, e
    <2>4. /\ t \in Seq(Entry) /\ Len(t) = Len(s) /\ t[near] = f
          /\ \A j \in 1 .. Len(s) : j # near => t[j] = s[j]
      BY <1>2, <2>1, <2>3 DEF IsCharged
    <2>5. Billed(t, s, near, x)
      BY <2>1, <2>3, <2>4 DEF Billed, e
    <2> HIDE DEF t, billed
    <2>6. billed \in Ledgers
      BY <1>2, <2>2, <2>4, LedgerFields
    <2>7. billed.entries = t /\ billed.unattributed = u
      BY <2>2
    <2>8. near \in Claimants(L, base, x)
      BY <1>4, <1>6 DEF C
    <2>9. Charges(L, base, x, billed)
      BY <2>5, <2>7, <2>8 DEF Charges
    <2>10. QED
      BY <1>1, <1>6, <2>6, <2>9
  <1>7. QED
    BY <1>5, <1>6

----------------------------------------------------------------------------
\* A batch.

\* What a ledger holds of an agent and an operation: costs and samples, charged or
\* kept apart.
Held(L, a, op)    == Costs(L.entries, a, op) + Costs(L.unattributed, a, op)
Counted(L, a, op) == Folded(L.entries, a, op) + Count(L.unattributed, a, op)

\* They are numbers.
LEMMA HeldNat ==
  ASSUME NEW L \in Ledgers, NEW a, NEW op
  PROVE  /\ Costs(L.entries, a, op) \in Nat /\ Costs(L.unattributed, a, op) \in Nat
         /\ Folded(L.entries, a, op) \in Nat /\ Count(L.unattributed, a, op) \in Nat
         /\ Held(L, a, op) \in Nat /\ Counted(L, a, op) \in Nat
  <1>1. L.entries \in Seq(Entry) /\ L.unattributed \in Seq(Sample)
    BY LedgerFields
  <1>2. /\ Costs(L.entries, a, op) \in Nat /\ Costs(L.unattributed, a, op) \in Nat
        /\ Folded(L.entries, a, op) \in Nat /\ Count(L.unattributed, a, op) \in Nat
    BY <1>1, ColumnNats
  <1>3. QED
    BY <1>2 DEF Held, Counted

\* A sample more is in the ledger, whichever way it went.
LEMMA ChargesAddUp ==
  ASSUME NEW L \in Ledgers, NEW M \in Ledgers, NEW base \in Nat, NEW x \in Sample,
         Charges(L, base, x, M), NEW a, NEW op
  PROVE  /\ Held(M, a, op) = Held(L, a, op) + Own(x, a, op, x.cost)
         /\ Counted(M, a, op) = Counted(L, a, op) + Own(x, a, op, 1)
  <1> DEFINE c == Own(x, a, op, x.cost)
             n == Own(x, a, op, 1)
  <1>1. c \in Nat /\ n \in Nat
    BY OwnNat DEF Sample
  <1>2. /\ L.entries \in Seq(Entry) /\ L.unattributed \in Seq(Sample)
        /\ Costs(L.entries, a, op) \in Nat /\ Costs(L.unattributed, a, op) \in Nat
        /\ Folded(L.entries, a, op) \in Nat /\ Count(L.unattributed, a, op) \in Nat
    BY LedgerFields, HeldNat
  <1> HIDE DEF c, n
  <1>3. CASE M.entries = L.entries /\ M.unattributed = Append(L.unattributed, x)
    <2>1. /\ Costs(M.unattributed, a, op) = Costs(L.unattributed, a, op) + c
          /\ Count(M.unattributed, a, op) = Count(L.unattributed, a, op) + n
      BY <1>2, <1>3, AppendSample DEF c, n
    <2>2. QED
      BY <1>1, <1>2, <1>3, <2>1 DEF Held, Counted, c, n
  <1>4. ASSUME M.unattributed = L.unattributed, NEW i \in Claimants(L, base, x),
               Billed(M.entries, L.entries, i, x)
        PROVE  /\ Held(M, a, op) = Held(L, a, op) + c
               /\ Counted(M, a, op) = Counted(L, a, op) + n
    <2>1. L.entries[i].agent = x.agent /\ L.entries[i].op = x.op
      BY DEF Claimants
    <2>2. /\ Costs(M.entries, a, op) = Costs(L.entries, a, op) + c
          /\ Folded(M.entries, a, op) = Folded(L.entries, a, op) + n
      BY <1>2, <1>4, <2>1, BilledColumn DEF c, n
    <2>3. QED
      BY <1>1, <1>2, <1>4, <2>2 DEF Held, Counted
  <1>5. QED
    BY <1>3, <1>4 DEF Charges, c, n

\* M is what charging the samples p has made of the ledger L: it has the same
\* entries, those up to base untouched, and its columns have grown by p's.
Carried(L, base, p, M) ==
    /\ M \in Ledgers
    /\ Len(M.entries) = Len(L.entries)
    /\ \A i \in 1 .. Len(L.entries) : i <= base => M.entries[i] = L.entries[i]
    /\ \A a \in Agents, op \in Metered :
         /\ Held(M, a, op) = Held(L, a, op) + Costs(p, a, op)
         /\ Counted(M, a, op) = Counted(L, a, op) + Count(p, a, op)

\* Another sample carries it on.
LEMMA CarriedOn ==
  ASSUME NEW L \in Ledgers, NEW base \in Nat, NEW p \in Seq(Sample), NEW x \in Sample,
         NEW M, Carried(L, base, p, M)
  PROVE  Carried(L, base, Append(p, x), Attributed(M, base, x))
  <1> DEFINE N == Attributed(M, base, x)
             q == Append(p, x)
  <1>1. M \in Ledgers /\ Len(M.entries) = Len(L.entries)
    BY DEF Carried
  <1>2. N \in Ledgers /\ Charges(M, base, x, N)
    BY <1>1, AttributedCharges
  <1> HIDE DEF N
  <1>3. /\ L.entries \in Seq(Entry) /\ M.entries \in Seq(Entry) /\ N.entries \in Seq(Entry)
        /\ Len(L.entries) \in Nat
    BY <1>1, <1>2, LedgerFields
  <1>4. /\ Len(N.entries) = Len(L.entries)
        /\ \A i \in 1 .. Len(L.entries) : i <= base => N.entries[i] = L.entries[i]
    <2>1. \A i \in 1 .. Len(L.entries) : i <= base => M.entries[i] = L.entries[i]
      BY DEF Carried
    <2>2. CASE N.entries = M.entries
      BY <1>1, <2>1, <2>2
    <2>3. ASSUME NEW i \in Claimants(M, base, x), Billed(N.entries, M.entries, i, x)
          PROVE  /\ Len(N.entries) = Len(M.entries)
                 /\ \A j \in 1 .. Len(M.entries) : j <= base => N.entries[j] = M.entries[j]
      <3>1. i \in base + 1 .. Len(M.entries)
        BY DEF Claimants
      <3>2. \A j \in 1 .. Len(M.entries) : j <= base => j # i
        BY <1>1, <1>3, <3>1
      <3>3. QED
        BY <2>3, <3>2 DEF Billed
    <2>4. QED
      BY <1>1, <1>2, <2>1, <2>2, <2>3 DEF Charges
  <1>5. ASSUME NEW a \in Agents, NEW op \in Metered
        PROVE  /\ Held(N, a, op) = Held(L, a, op) + Costs(q, a, op)
               /\ Counted(N, a, op) = Counted(L, a, op) + Count(q, a, op)
    <2> DEFINE c == Own(x, a, op, x.cost)
               n == Own(x, a, op, 1)
    <2>1. c \in Nat /\ n \in Nat
      BY OwnNat DEF Sample
    <2> HIDE DEF c, n
    <2>2. Costs(q, a, op) = Costs(p, a, op) + c /\ Count(q, a, op) = Count(p, a, op) + n
      BY AppendSample DEF c, n
    <2>3. Held(N, a, op) = Held(M, a, op) + c /\ Counted(N, a, op) = Counted(M, a, op) + n
      BY <1>1, <1>2, ChargesAddUp DEF c, n
    <2>4. /\ Held(M, a, op) = Held(L, a, op) + Costs(p, a, op)
          /\ Counted(M, a, op) = Counted(L, a, op) + Count(p, a, op)
      BY DEF Carried
    <2>5. /\ Costs(p, a, op) \in Nat /\ Count(p, a, op) \in Nat
          /\ Held(L, a, op) \in Nat /\ Counted(L, a, op) \in Nat
      BY ColumnNats, HeldNat
    <2> HIDE DEF q
    <2>6. QED
      BY <2>1, <2>2, <2>3, <2>4, <2>5
  <1> HIDE DEF q
  <1>6. Carried(L, base, q, N)
    BY <1>2, <1>4, <1>5 DEF Carried
  <1>7. QED
    BY <1>6 DEF q, N

\* The first samples of a batch.
LEMMA Prefixes ==
  ASSUME NEW p \in Seq(Sample)
  PROVE  /\ Len(p) \in Nat /\ SubSeq(p, 1, 0) = << >> /\ SubSeq(p, 1, Len(p)) = p
         /\ \A k \in 1 .. Len(p) :
              /\ p[k] \in Sample /\ SubSeq(p, 1, k - 1) \in Seq(Sample)
              /\ SubSeq(p, 1, k) = Append(SubSeq(p, 1, k - 1), p[k])
  <1>1. /\ Len(p) \in Nat /\ SubSeq(p, 1, 0) = << >> /\ SubSeq(p, 1, Len(p)) = p
    OBVIOUS
  <1>2. ASSUME NEW k \in 1 .. Len(p)
        PROVE  /\ p[k] \in Sample /\ SubSeq(p, 1, k - 1) \in Seq(Sample)
               /\ SubSeq(p, 1, k) = Append(SubSeq(p, 1, k - 1), p[k])
    OBVIOUS
  <1>3. QED
    BY <1>1, <1>2

\* The empty sequence adds nothing.
LEMMA NoSamples ==
  ASSUME NEW a, NEW op
  PROVE  /\ << >> \in Seq(Sample) /\ << >> \in Seq(Entry)
         /\ Costs(<< >>, a, op) = 0 /\ Count(<< >>, a, op) = 0 /\ Folded(<< >>, a, op) = 0
  <1> DEFINE s == << >>
  <1>1. s \in Seq(Sample) /\ s \in Seq(Entry) /\ Len(s) = 0
    OBVIOUS
  <1> HIDE DEF s
  <1>2. /\ IsColumn(CostColumn(s, a, op), s) /\ IsColumn(CountColumn(s, a, op), s)
        /\ IsColumn(FoldedColumn(s, a, op), s)
    BY <1>1, Columns
  <1>3. \A c : IsColumn(c, s) => Total(c) = 0
    <2>1. \A c : IsColumn(c, s) => c \in Seq(Nat) /\ Len(c) = 0
      BY <1>1 DEF IsColumn
    <2>2. QED
      BY <2>1, TotalZeros
  <1>4. QED
    BY <1>1, <1>2, <1>3, ColumnTotals DEF s

\* A batch of samples, whatever its length, is charged as a whole.
LEMMA ChargedCarries ==
  ASSUME NEW L \in Ledgers, NEW base \in Nat, NEW p \in Seq(Sample)
  PROVE  Carried(L, base, p, Charged(L, base, p))
  <1> DEFINE n == Len(p)
             F == [k \in 1 .. n |-> [M \in Ledgers |-> Attributed(M, base, p[k])]]
             Is(f) == f = [k \in 0 .. Len(p) |->
                             IF k = 0 THEN L ELSE Attributed(f[k - 1], base, p[k])]
             Good(f) == {k \in 0 .. n : Carried(L, base, SubSeq(p, 1, k), f[k])}
             after == CHOOSE f : Is(f)
  <1>1. n \in Nat /\ \A k \in 1 .. n : p[k] \in Sample
    BY Prefixes
  <1>2. Carried(L, base, SubSeq(p, 1, 0), L)
    <2>1. \A a \in Agents, op \in Metered :
            /\ Held(L, a, op) \in Nat /\ Counted(L, a, op) \in Nat
            /\ Costs(<< >>, a, op) = 0 /\ Count(<< >>, a, op) = 0
      BY HeldNat, NoSamples
    <2> DEFINE s == << >>
    <2>2. SubSeq(p, 1, 0) = s
      BY Prefixes
    <2> HIDE DEF s
    <2>3. Carried(L, base, s, L)
      BY <2>1 DEF Carried, s
    <2>4. QED
      BY <2>2, <2>3
  <1>3. ASSUME NEW k \in 1 .. n, NEW M, Carried(L, base, SubSeq(p, 1, k - 1), M)
        PROVE  Carried(L, base, SubSeq(p, 1, k), Attributed(M, base, p[k]))
    <2>1. /\ p[k] \in Sample /\ SubSeq(p, 1, k - 1) \in Seq(Sample)
          /\ SubSeq(p, 1, k) = Append(SubSeq(p, 1, k - 1), p[k])
      BY Prefixes
    <2> DEFINE q == SubSeq(p, 1, k - 1)
               x == p[k]
    <2> HIDE DEF q, x
    <2>2. Carried(L, base, Append(q, x), Attributed(M, base, x))
      BY <1>3, <2>1, CarriedOn DEF q, x
    <2>3. QED
      BY <2>1, <2>2 DEF q, x
  <1>4. \A k \in 1 .. n : \A M \in Ledgers : F[k][M] = Attributed(M, base, p[k])
    OBVIOUS
  <1> HIDE DEF F
  <1>5. PICK f : Runs(f, L, F, n)
    BY <1>1, RunOf
  <1>6. \A k \in 0 .. n : f[k] = IF k = 0 THEN L ELSE F[k][f[k - 1]]
    BY <1>5, Zenon DEF Runs
  <1>7. \A k \in 0 .. n : k \in Good(f)
    <2>1. 0 \in Good(f)
      BY <1>1, <1>2, <1>6
    <2>2. ASSUME NEW k \in 1 .. n, k - 1 \in Good(f) PROVE k \in Good(f)
      <3>1. f[k] = F[k][f[k - 1]] /\ k \in 0 .. n
        BY <1>1, <1>6
      <3>2. Carried(L, base, SubSeq(p, 1, k - 1), f[k - 1])
        BY <2>2
      <3>3. f[k] = Attributed(f[k - 1], base, p[k])
        BY <1>4, <3>1, <3>2 DEF Carried
      <3>4. Carried(L, base, SubSeq(p, 1, k), f[k])
        BY <1>3, <3>2, <3>3
      <3>5. QED
        BY <3>1, <3>4
    <2> HIDE DEF Good
    <2>3. QED
      BY <1>1, <2>1, <2>2, Along
  <1>8. ASSUME NEW k \in 0 .. n, k # 0
        PROVE  F[k][f[k - 1]] = Attributed(f[k - 1], base, p[k])
    <2>1. k \in 1 .. n /\ k - 1 \in 0 .. n
      BY <1>1, <1>8
    <2>2. f[k - 1] \in Ledgers
      BY <1>7, <2>1 DEF Carried
    <2>3. QED
      BY <1>4, <2>1, <2>2
  <1>9. Is(f)
    <2>1. f = [k \in 0 .. n |-> IF k = 0 THEN L ELSE F[k][f[k - 1]]]
      BY <1>5, Zenon DEF Runs
    <2>2. [k \in 0 .. n |-> IF k = 0 THEN L ELSE F[k][f[k - 1]]]
            = [k \in 0 .. n |-> IF k = 0 THEN L ELSE Attributed(f[k - 1], base, p[k])]
      BY <1>8
    <2>3. QED
      BY <2>1, <2>2, Zenon
  <1>10. Is(after)
    BY <1>9, Zenon
  <1>11. Charged(L, base, p) = after[Len(p)]
    BY DEF Charged
  <1> HIDE DEF after
  <1>12. \A k \in 0 .. n :
           after[k] = IF k = 0 THEN L ELSE Attributed(after[k - 1], base, p[k])
    BY <1>10, Zenon
  <1>13. \A k \in 0 .. n : k \in Good(after)
    <2>1. 0 \in Good(after)
      BY <1>1, <1>2, <1>12
    <2>2. ASSUME NEW k \in 1 .. n, k - 1 \in Good(after) PROVE k \in Good(after)
      <3>1. after[k] = Attributed(after[k - 1], base, p[k]) /\ k \in 0 .. n
        BY <1>1, <1>12
      <3>2. Carried(L, base, SubSeq(p, 1, k - 1), after[k - 1])
        BY <2>2
      <3>3. Carried(L, base, SubSeq(p, 1, k), after[k])
        BY <1>3, <3>1, <3>2
      <3>4. QED
        BY <3>1, <3>3
    <2> HIDE DEF Good
    <2>3. QED
      BY <1>1, <2>1, <2>2, Along
  <1>14. Carried(L, base, SubSeq(p, 1, n), after[n])
    BY <1>1, <1>13
  <1>15. QED
    BY <1>11, <1>14, Prefixes

----------------------------------------------------------------------------
\* The invariant.

\* Every variable keeps its type.
TypeOK ==
    /\ clock \in Nat /\ issued \in Nat
    /\ held \in [Agents -> SUBSET Tokens]
    /\ trail \in Seq(Record)
    /\ samples \in Seq(Sample) /\ emitted \in Seq(Sample)
    /\ entries \in Seq(Entry) /\ unattributed \in Seq(Sample)

\* The floor in force is the one of the tokens held.
FloorIsCurrent == floor = [a \in Agents |-> CompileDenyFloor(held[a])]

Inv == TypeOK /\ ColumnAddsUp /\ FloorIsCurrent

\* An entry opened with nothing charged.
LEMMA OpenedEntries ==
  ASSUME NEW s \in Seq(Record)
  PROVE  LET opened == [i \in DOMAIN s |-> Opened(s[i])]
         IN  /\ opened \in Seq(Entry)
             /\ \A a, op : Costs(opened, a, op) = 0 /\ Folded(opened, a, op) = 0
  <1> DEFINE opened == [i \in DOMAIN s |-> Opened(s[i])]
  <1>1. DOMAIN s = 1 .. Len(s) /\ Len(s) \in Nat /\ \A i \in 1 .. Len(s) : s[i] \in Record
    OBVIOUS
  <1>2. \A i \in 1 .. Len(s) : /\ Opened(s[i]) \in Entry
                               /\ Opened(s[i]).cost = 0 /\ Opened(s[i]).samples = 0
    BY <1>1 DEF Opened, Record, Entry
  <1>3. opened \in [1 .. Len(s) -> Entry] /\ \A i \in 1 .. Len(s) : opened[i] = Opened(s[i])
    BY <1>1, <1>2
  <1> HIDE DEF opened
  <1>4. opened \in Seq(Entry) /\ Len(opened) = Len(s)
    BY <1>1, <1>3
  <1>5. ASSUME NEW a, NEW op
        PROVE  Costs(opened, a, op) = 0 /\ Folded(opened, a, op) = 0
    <2>1. IsColumn(CostColumn(opened, a, op), opened) /\ IsColumn(FoldedColumn(opened, a, op), opened)
      BY <1>4, Columns
    <2>2. DOMAIN opened = 1 .. Len(s) /\ \A i \in 1 .. Len(s) : opened[i].cost = 0 /\ opened[i].samples = 0
      BY <1>2, <1>3
    <2>3. \A i \in 1 .. Len(s) : CostColumn(opened, a, op)[i] = 0 /\ FoldedColumn(opened, a, op)[i] = 0
      BY <2>2 DEF CostColumn, FoldedColumn
    <2>4. QED
      BY <1>4, <2>1, <2>3, TotalZeros, ColumnTotals DEF IsColumn
  <1>6. QED
    BY <1>4, <1>5 DEF opened

\* The invariant holds at first.
LEMMA Initially == Init => Inv
  <1> SUFFICES ASSUME Init PROVE Inv
    OBVIOUS
  <1> DEFINE none == << >>
  <1>1. none \in Seq(Record) /\ none \in Seq(Sample) /\ none \in Seq(Entry)
    OBVIOUS
  <1>2. \A a, op : Costs(none, a, op) = 0 /\ Count(none, a, op) = 0 /\ Folded(none, a, op) = 0
    BY NoSamples
  <1>3. /\ trail = none /\ samples = none /\ emitted = none
        /\ entries = none /\ unattributed = none
    BY DEF Init
  <1> HIDE DEF none
  <1>4. TypeOK
    BY <1>1, <1>3 DEF Init, TypeOK
  <1>5. ColumnAddsUp
    BY <1>2, <1>3 DEF ColumnAddsUp
  <1>6. FloorIsCurrent
    BY DEF Init, FloorIsCurrent
  <1>7. QED
    BY <1>4, <1>5, <1>6 DEF Inv

\* The sums in ColumnAddsUp depend on these variables only.
LEMMA ColumnsUntouched ==
  ASSUME ColumnAddsUp, UNCHANGED <<samples, entries, unattributed, emitted>>
  PROVE  ColumnAddsUp'
  BY DEF ColumnAddsUp

\* Time passes, a token is granted, or a call recorded.
LEMMA QuietSteps ==
  ASSUME Inv, Passes \/ (\E token \in Tokens : GrantCap(token))
                     \/ (\E a \in Agents, op \in Metered : Call(a, op))
  PROVE  Inv' /\ UNCHANGED entries
  <1>1. TypeOK /\ ColumnAddsUp /\ FloorIsCurrent
    BY DEF Inv
  <1>2. CASE Passes
    <2>1. TypeOK' /\ FloorIsCurrent'
      BY <1>1, <1>2 DEF Passes, TypeOK, FloorIsCurrent
    <2>2. QED
      BY <1>1, <1>2, <2>1, ColumnsUntouched DEF Passes, Inv
  <1>3. ASSUME NEW token \in Tokens, GrantCap(token) PROVE Inv' /\ UNCHANGED entries
    <2> DEFINE b == token.subject
               more == held[b] \cup {token}
    <2>1. /\ held' = [held EXCEPT ![b] = more]
          /\ floor' = [floor EXCEPT ![b] = CompileDenyFloor(held'[b])]
          /\ UNCHANGED <<clock, trail, samples, entries, unattributed, issued, emitted>>
      BY <1>3 DEF GrantCap
    <2>2. b \in Agents /\ held \in [Agents -> SUBSET Tokens] /\ more \in SUBSET Tokens
      BY <1>1, SubstrateAssumption DEF TypeOK
    <2> HIDE DEF b, more
    <2>3. /\ held' \in [Agents -> SUBSET Tokens]
          /\ \A a \in Agents : held'[a] = IF a = b THEN more ELSE held[a]
      BY <2>1, <2>2
    <2>4. TypeOK'
      BY <1>1, <2>1, <2>3 DEF TypeOK
    <2>5. floor' = [a \in Agents |-> CompileDenyFloor(held'[a])]
      BY <1>1, <2>1, <2>2, <2>3 DEF FloorIsCurrent
    <2>6. FloorIsCurrent'
      BY <2>5 DEF FloorIsCurrent
    <2>7. QED
      BY <1>1, <2>1, <2>4, <2>6, ColumnsUntouched DEF Inv
  <1>4. ASSUME NEW a \in Agents, NEW op \in Metered, Call(a, op)
        PROVE  Inv' /\ UNCHANGED entries
    <2>1. [agent |-> a, op |-> op, at |-> clock] \in Record
      BY <1>1 DEF TypeOK, Record
    <2>2. trail' \in Seq(Record) /\ issued' \in Nat
      BY <1>1, <1>4, <2>1 DEF Call, TypeOK
    <2>3. TypeOK' /\ FloorIsCurrent'
      BY <1>1, <1>4, <2>2 DEF Call, TypeOK, FloorIsCurrent
    <2>4. QED
      BY <1>1, <1>4, <2>3, ColumnsUntouched DEF Call, Inv
  <1>5. QED
    BY <1>2, <1>3, <1>4

\* A sample is emitted and is with the probe.
LEMMA SampledStep ==
  ASSUME Inv, NEW a \in Agents, NEW op \in Metered, NEW cost \in SampleCosts,
         Sampled(a, op, cost)
  PROVE  Inv' /\ UNCHANGED entries
  <1> DEFINE x == [agent |-> a, op |-> op, at |-> clock, cost |-> cost]
  <1>1. TypeOK /\ ColumnAddsUp /\ FloorIsCurrent
    BY DEF Inv
  <1>2. x \in Sample
    BY <1>1, SubstrateAssumption DEF TypeOK, Sample
  <1>3. /\ samples' = Append(samples, x) /\ emitted' = Append(emitted, x)
        /\ UNCHANGED <<clock, held, floor, trail, entries, unattributed, issued>>
    BY DEF Sampled
  <1> HIDE DEF x
  <1>4. samples' \in Seq(Sample) /\ emitted' \in Seq(Sample)
    BY <1>1, <1>2, <1>3, AppendSample DEF TypeOK
  <1>5. TypeOK' /\ FloorIsCurrent'
    BY <1>1, <1>3, <1>4 DEF TypeOK, FloorIsCurrent
  <1>6. ASSUME NEW b \in Agents, NEW o \in Metered
        PROVE  /\ Costs(emitted', b, o) =
                    Costs(samples', b, o) + Costs(entries', b, o) + Costs(unattributed', b, o)
               /\ Count(emitted', b, o) =
                    Count(samples', b, o) + Folded(entries', b, o) + Count(unattributed', b, o)
    <2> DEFINE c == Own(x, b, o, x.cost)
               n == Own(x, b, o, 1)
    <2>1. c \in Nat /\ n \in Nat
      BY <1>2, OwnNat DEF Sample
    <2> HIDE DEF c, n
    <2>2. /\ Costs(samples', b, o) = Costs(samples, b, o) + c
          /\ Count(samples', b, o) = Count(samples, b, o) + n
          /\ Costs(emitted', b, o) = Costs(emitted, b, o) + c
          /\ Count(emitted', b, o) = Count(emitted, b, o) + n
      BY <1>1, <1>2, <1>3, AppendSample DEF TypeOK, c, n
    <2>3. /\ Costs(emitted, b, o) =
               Costs(samples, b, o) + Costs(entries, b, o) + Costs(unattributed, b, o)
          /\ Count(emitted, b, o) =
               Count(samples, b, o) + Folded(entries, b, o) + Count(unattributed, b, o)
      BY <1>1 DEF ColumnAddsUp
    <2>4. /\ Costs(samples, b, o) \in Nat /\ Count(samples, b, o) \in Nat
          /\ Costs(unattributed, b, o) \in Nat /\ Count(unattributed, b, o) \in Nat
          /\ Costs(entries, b, o) \in Nat /\ Folded(entries, b, o) \in Nat
      BY <1>1, ColumnNats DEF TypeOK
    <2>5. entries' = entries /\ unattributed' = unattributed
      BY <1>3
    <2>6. QED
      BY <2>1, <2>2, <2>3, <2>4, <2>5
  <1>7. ColumnAddsUp'
    BY <1>6 DEF ColumnAddsUp
  <1>8. QED
    BY <1>3, <1>5, <1>7 DEF Inv

\* A sequence is its first n elements and the others.
LEMMA SplitAt ==
  ASSUME NEW X, NEW s \in Seq(X), NEW n \in 0 .. Len(s)
  PROVE  /\ SubSeq(s, 1, n) \in Seq(X) /\ SubSeq(s, n + 1, Len(s)) \in Seq(X)
         /\ s = SubSeq(s, 1, n) \o SubSeq(s, n + 1, Len(s))
  <1>1. Len(s) \in Nat /\ n \in Nat /\ n + 1 \in Int /\ \A i \in 1 .. Len(s) : s[i] \in X
    OBVIOUS
  <1>2. SubSeq(s, 1, n) \in Seq(X)
    <2>1. \A i \in 1 .. n : s[i] \in X
      BY <1>1
    <2>2. QED
      BY <1>1, <2>1, SubSeqProperties
  <1>3. SubSeq(s, n + 1, Len(s)) \in Seq(X)
    <2>1. \A i \in n + 1 .. Len(s) : s[i] \in X
      BY <1>1
    <2>2. QED
      BY <1>1, <2>1, SubSeqProperties
  <1>4. /\ 1 \in 1 .. Len(s) + 1 /\ n \in 1 - 1 .. Len(s) /\ Len(s) \in n .. Len(s)
    BY <1>1
  <1>5. SubSeq(s, 1, n) \o SubSeq(s, n + 1, Len(s)) = SubSeq(s, 1, Len(s))
    BY <1>4, ConcatAdjacentSubSeq
  <1>6. QED
    BY <1>2, <1>3, <1>5, SubSeqFull

\* What p and r hold of s, the ledger takes over from p.
LEMMA Balance ==
  ASSUME NEW p \in Nat, NEW r \in Nat, NEW t \in Nat, NEW u \in Nat,
         NEW x \in Nat, NEW y \in Nat, x + y = t + u + p
  PROVE  (p + r) + t + u = r + x + y
  OBVIOUS

\* A batch is polled and joined: what the ledger had stays as it was.
LEMMA JoinStep ==
  ASSUME Inv, Join
  PROVE  Inv' /\ SubSeq(entries', 1, Len(entries)) = entries
  <1> DEFINE p == SubSeq(samples, 1, Polled)
             r == SubSeq(samples, Polled + 1, Len(samples))
             opened == [i \in DOMAIN trail |-> Opened(trail[i])]
             L == Extended(trail)
             base == Len(entries)
             M == Joined(trail, p)
  <1>1. TypeOK /\ ColumnAddsUp /\ FloorIsCurrent
    BY DEF Inv
  <1>2. /\ samples \in Seq(Sample) /\ entries \in Seq(Entry)
        /\ unattributed \in Seq(Sample) /\ trail \in Seq(Record)
    BY <1>1 DEF TypeOK
  <1>3. p \in Seq(Sample) /\ r \in Seq(Sample) /\ samples = p \o r
    <2>1. Len(samples) \in Nat /\ Batch \in Nat
      BY <1>2, SubstrateAssumption
    <2>2. Polled \in 0 .. Len(samples)
      BY <2>1 DEF Polled
    <2>3. QED
      BY <1>2, <2>2, SplitAt
  <1>4. /\ opened \in Seq(Entry)
        /\ \A a, op : Costs(opened, a, op) = 0 /\ Folded(opened, a, op) = 0
    BY <1>2, OpenedEntries
  <1>5. L = [entries |-> entries \o opened, unattributed |-> unattributed]
    BY DEF Extended
  <1>6. M = Charged(L, base, p)
    BY DEF Joined
  <1>7. /\ entries' = M.entries /\ unattributed' = M.unattributed
        /\ samples' = r /\ trail' = << >>
        /\ UNCHANGED <<clock, held, floor, issued, emitted>>
    BY DEF Join
  <1> HIDE DEF p, r, opened, L, M
  <1>8. entries \o opened \in Seq(Entry) /\ base \in Nat
    BY <1>2, <1>4
  <1>9. L \in Ledgers
    BY <1>2, <1>5, <1>8, LedgerFields
  <1>10. Carried(L, base, p, M)
    BY <1>3, <1>6, <1>8, <1>9, ChargedCarries
  <1>11. M \in Ledgers /\ M.entries \in Seq(Entry) /\ M.unattributed \in Seq(Sample)
    BY <1>10, LedgerFields DEF Carried
  <1>12. TypeOK'
    <2>1. trail' \in Seq(Record)
      BY <1>7
    <2>2. QED
      BY <1>1, <1>3, <1>7, <1>11, <2>1 DEF TypeOK
  <1>13. FloorIsCurrent'
    BY <1>1, <1>7 DEF FloorIsCurrent
  <1>14. ASSUME NEW a \in Agents, NEW op \in Metered
         PROVE  /\ Costs(emitted', a, op) =
                     Costs(samples', a, op) + Costs(entries', a, op) + Costs(unattributed', a, op)
                /\ Count(emitted', a, op) =
                     Count(samples', a, op) + Folded(entries', a, op) + Count(unattributed', a, op)
    <2>1. /\ Costs(samples, a, op) = Costs(p, a, op) + Costs(r, a, op)
          /\ Count(samples, a, op) = Count(p, a, op) + Count(r, a, op)
      BY <1>3, CostsConcat, CountConcat
    <2>2. /\ Costs(L.entries, a, op) = Costs(entries, a, op)
          /\ Folded(L.entries, a, op) = Folded(entries, a, op)
          /\ L.unattributed = unattributed
      <3>1. L.entries = entries \o opened /\ L.unattributed = unattributed
        BY <1>5
      <3>2. /\ Costs(entries \o opened, a, op) = Costs(entries, a, op) + 0
            /\ Folded(entries \o opened, a, op) = Folded(entries, a, op) + 0
        BY <1>2, <1>4, CostsConcat, FoldedConcat
      <3>3. Costs(entries, a, op) \in Nat /\ Folded(entries, a, op) \in Nat
        BY <1>2, ColumnNats
      <3>4. QED
        BY <3>1, <3>2, <3>3
    <2>3. /\ Held(M, a, op) = Held(L, a, op) + Costs(p, a, op)
          /\ Counted(M, a, op) = Counted(L, a, op) + Count(p, a, op)
      BY <1>10 DEF Carried
    <2>4. /\ Costs(M.entries, a, op) + Costs(M.unattributed, a, op) =
               Costs(entries, a, op) + Costs(unattributed, a, op) + Costs(p, a, op)
          /\ Folded(M.entries, a, op) + Count(M.unattributed, a, op) =
               Folded(entries, a, op) + Count(unattributed, a, op) + Count(p, a, op)
      BY <2>2, <2>3 DEF Held, Counted
    <2>5. /\ Costs(emitted, a, op) =
               Costs(samples, a, op) + Costs(entries, a, op) + Costs(unattributed, a, op)
          /\ Count(emitted, a, op) =
               Count(samples, a, op) + Folded(entries, a, op) + Count(unattributed, a, op)
      BY <1>1 DEF ColumnAddsUp
    <2>6. /\ Costs(p, a, op) \in Nat /\ Count(p, a, op) \in Nat
          /\ Costs(r, a, op) \in Nat /\ Count(r, a, op) \in Nat
          /\ Costs(unattributed, a, op) \in Nat /\ Count(unattributed, a, op) \in Nat
          /\ Costs(entries, a, op) \in Nat /\ Folded(entries, a, op) \in Nat
          /\ Costs(M.unattributed, a, op) \in Nat /\ Count(M.unattributed, a, op) \in Nat
          /\ Costs(M.entries, a, op) \in Nat /\ Folded(M.entries, a, op) \in Nat
      BY <1>2, <1>3, <1>11, ColumnNats
    <2>7. /\ Costs(emitted, a, op) =
               Costs(r, a, op) + Costs(M.entries, a, op) + Costs(M.unattributed, a, op)
          /\ Count(emitted, a, op) =
               Count(r, a, op) + Folded(M.entries, a, op) + Count(M.unattributed, a, op)
      BY <2>1, <2>4, <2>5, <2>6, Balance
    <2>8. QED
      BY <1>7, <2>7
  <1>15. ColumnAddsUp'
    BY <1>14 DEF ColumnAddsUp
  <1>16. SubSeq(entries', 1, Len(entries)) = entries
    <2>1. Len(M.entries) = Len(L.entries) /\ L.entries = entries \o opened
      BY <1>5, <1>10 DEF Carried
    <2>2. /\ Len(entries \o opened) = Len(entries) + Len(opened)
          /\ Len(opened) \in Nat /\ Len(entries) \in Nat
          /\ \A i \in 1 .. Len(entries) : (entries \o opened)[i] = entries[i]
      BY <1>2, <1>4
    <2>3. \A i \in 1 .. Len(entries) : M.entries[i] = entries[i]
      <3>1. ASSUME NEW i \in 1 .. Len(entries) PROVE M.entries[i] = entries[i]
        <4>1. i \in 1 .. Len(L.entries) /\ i <= base
          BY <2>1, <2>2
        <4>2. M.entries[i] = L.entries[i]
          BY <1>10, <4>1 DEF Carried
        <4>3. QED
          BY <2>1, <2>2, <4>2
      <3>2. QED
        BY <3>1
    <2>4. Len(M.entries) >= Len(entries)
      BY <2>1, <2>2
    <2>5. QED
      BY <1>2, <1>7, <1>11, <2>2, <2>3, <2>4
  <1>17. QED
    BY <1>12, <1>13, <1>15, <1>16 DEF Inv

\* Every step keeps the invariant, and what the ledger had.
LEMMA Steps ==
  ASSUME Inv, [Next]_vars
  PROVE  Inv' /\ SubSeq(entries', 1, Len(entries)) = entries
  <1>1. SubSeq(entries, 1, Len(entries)) = entries
    <2>1. entries \in Seq(Entry)
      BY DEF Inv, TypeOK
    <2>2. QED
      BY <2>1, SubSeqFull
  <1>2. CASE UNCHANGED vars
    <2>1. TypeOK' /\ FloorIsCurrent'
      BY <1>2 DEF vars, Inv, TypeOK, FloorIsCurrent
    <2>2. QED
      BY <1>1, <1>2, <2>1, ColumnsUntouched DEF vars, Inv
  <1>3. CASE Next
    <2>1. CASE Passes \/ (\E token \in Tokens : GrantCap(token))
                      \/ (\E a \in Agents, op \in Metered : Call(a, op))
      BY <1>1, <2>1, QuietSteps
    <2>2. CASE \E a \in Agents, op \in Metered, cost \in SampleCosts : Sampled(a, op, cost)
      BY <1>1, <2>2, SampledStep
    <2>3. CASE Join
      BY <2>3, JoinStep
    <2>4. QED
      BY <1>3, <2>1, <2>2, <2>3 DEF Next
  <1>4. QED
    BY <1>2, <1>3

\* The invariant is one.
LEMMA Invariant == Spec => []Inv
  <1>1. Init => Inv
    BY Initially
  <1>2. Inv /\ [Next]_vars => Inv'
    BY Steps
  <1>3. QED
    BY <1>1, <1>2, PTL DEF Spec

\* Types: samples, records and entries name agents and operations there are, and
\* costs are numbers (ledger.rs).
THEOREM SubstrateTypes == Spec => []TypeOK
  <1>1. Inv => TypeOK
    BY DEF Inv
  <1>2. QED
    BY <1>1, Invariant, PTL

\* However samples and audit records are batched, the ledger loses no sample,
\* counts none twice and charges no agent for another's (SubstrateLedger::join).
THEOREM ColumnsAlwaysAddUp == Spec => []ColumnAddsUp
  <1>1. Inv => ColumnAddsUp
    BY DEF Inv
  <1>2. QED
    BY <1>1, Invariant, PTL

\* A price once in the ledger is never changed by a later batch
\* (SubstrateLedger::join).
THEOREM PricesStayFinal == Spec => PricesAreFinal
  <1>1. Inv /\ [Next]_vars => [SubSeq(entries', 1, Len(entries)) = entries]_vars
    BY Steps
  <1>2. QED
    BY <1>1, Invariant, PTL DEF Spec, PricesAreFinal

----------------------------------------------------------------------------
\* The deny floor.

\* The permissions of the operations the floor tells apart.
LEMMA RequiredOf ==
  /\ RequiredPermission("VSend") = "Communicate" /\ RequiredPermission("VRecv") = "Communicate"
  /\ RequiredPermission("MemWrite") = "Write" /\ RequiredPermission("MemSummarize") = "Write"
  /\ RequiredPermission("ToolInvoke") = "Execute" /\ RequiredPermission("AgentSpawn") = "Spawn"
  /\ RequiredPermission("Think") = "None"
  BY DEF RequiredPermission

\* A call that a token covers makes system calls the token warrants.
LEMMA CoveredIsWarranted ==
  ASSUME NEW token, NEW call \in CallKinds, NEW group \in Syscalls[call.op],
         Gated(call), Covers(token, call)
  PROVE  \E p \in token.permissions, s \in token.scope : WarrantedBy(group, p, s.resource)
  <1>1. PICK p \in token.permissions : p = RequiredPermission(call.op) \/ p = "Admin"
    BY DEF Covers, Authorizes, Implies
  <1>2. PICK s \in token.scope : s.resource = "Any" \/ s.resource = call.resource
    BY DEF Covers, Authorizes, Matches
  <1>3. CASE p = "Admin"
    BY <1>3 DEF WarrantedBy
  <1>4. CASE p = RequiredPermission(call.op)
    <2>1. \/ group = "Network" /\ call.op \in {"VSend", "VRecv"}
          \/ group = "Network" /\ call.op = "ToolInvoke" /\ call.resource = "Tool"
          \/ /\ group = "FilesystemWrite" /\ call.op \in {"MemWrite", "MemSummarize"}
             /\ call.resource \in {"Memory", "Space"}
          \/ group = "ProcessSpawn" /\ call.op = "AgentSpawn"
          \/ RequiredPermission(call.op) = "Admin"
      BY FootprintAssumption, RequiredOf DEF Gated
    <2>2. WarrantedBy(group, p, s.resource)
      BY <1>2, <1>4, <2>1, RequiredOf DEF WarrantedBy
    <2>3. QED
      BY <2>2
  <1>5. QED
    BY <1>1, <1>3, <1>4

\* What a token short of Admin warrants some call it covers makes.
LEMMA WarrantedIsCovered ==
  ASSUME NEW token \in Tokens, NEW p \in token.permissions, p # "Admin",
         NEW s \in token.scope, NEW group \in SyscallGroups,
         WarrantedBy(group, p, s.resource)
  PROVE  \E call \in CallKinds :
           group \in Syscalls[call.op] /\ Gated(call) /\ Covers(token, call)
  <1>1. /\ s.resource \in ResourceKinds /\ s.pattern \subseteq Targets /\ s.pattern # {}
    BY SubstrateAssumption, CoverageAssumption
  <1>2. PICK target \in s.pattern : target \in Targets
    BY <1>1
  <1>3. ASSUME NEW op, NEW kind, Occurs(op, kind, target, group),
               p = RequiredPermission(op), p # "None", s.resource \in {"Any", kind}
        PROVE  \E call \in CallKinds :
                 group \in Syscalls[call.op] /\ Gated(call) /\ Covers(token, call)
    <2>1. PICK call \in CallKinds : /\ call.op = op /\ group \in Syscalls[op]
                                    /\ call.resource = kind /\ call.target = target
      BY <1>3 DEF Occurs
    <2>2. Gated(call) /\ Covers(token, call)
      BY <1>2, <1>3, <2>1 DEF Gated, Covers, Authorizes, Implies, Matches
    <2>3. QED
      BY <2>1, <2>2
  <1>4. \E kind \in ResourceKinds \ {"Any"} : s.resource \in {"Any", kind}
    BY <1>1 DEF ResourceKinds
  <1>5. CASE group = "Network" /\ p = "Communicate"
    <2>1. PICK kind \in ResourceKinds \ {"Any"} : s.resource \in {"Any", kind}
      BY <1>4
    <2>2. Occurs("VSend", kind, target, group)
      BY <1>2, <1>5, CoverageAssumption
    <2>3. QED
      BY <1>3, <1>5, <2>1, <2>2, RequiredOf
  <1>6. CASE group = "Network" /\ p = "Execute" /\ s.resource \in {"Tool", "Any"}
    <2>1. Occurs("ToolInvoke", "Tool", target, group)
      BY <1>2, <1>6, CoverageAssumption
    <2>2. QED
      BY <1>3, <1>6, <2>1, RequiredOf
  <1>7. CASE group = "FilesystemWrite" /\ p = "Write" /\ s.resource \in {"Memory", "Space", "Any"}
    <2>1. PICK kind \in {"Memory", "Space"} : s.resource \in {"Any", kind}
      BY <1>7
    <2>2. Occurs("MemWrite", kind, target, group)
      BY <1>2, <1>7, CoverageAssumption
    <2>3. QED
      BY <1>3, <1>7, <2>1, <2>2, RequiredOf
  <1>8. CASE group = "ProcessSpawn" /\ p = "Spawn"
    <2>1. PICK kind \in ResourceKinds \ {"Any"} : s.resource \in {"Any", kind}
      BY <1>4
    <2>2. Occurs("AgentSpawn", kind, target, group)
      BY <1>2, <1>8, CoverageAssumption
    <2>3. QED
      BY <1>3, <1>8, <2>1, <2>2, RequiredOf
  <1>9. QED
    BY <1>5, <1>6, <1>7, <1>8 DEF WarrantedBy

\* The floor in force agrees with the gate.
LEMMA CurrentFloorAgrees ==
  ASSUME TypeOK, FloorIsCurrent
  PROVE  FloorAgrees
  <1> DEFINE admin(a) == \E token \in held[a] : "Admin" \in token.permissions
             warranted(a, group) == \E token \in held[a] :
                \E p \in token.permissions, s \in token.scope : WarrantedBy(group, p, s.resource)
  <1>1. \A a \in Agents : floor[a] = {group \in SyscallGroups : ~warranted(a, group)}
    BY DEF FloorIsCurrent, CompileDenyFloor
  <1>2. \A a \in Agents : held[a] \subseteq Tokens
    BY DEF TypeOK
  <1>3. ASSUME NEW a \in Agents, NEW call \in GatedCalls, Authorized(a, call)
        PROVE  Syscalls[call.op] \cap floor[a] = {}
    <2>1. call \in CallKinds /\ Gated(call)
      BY DEF GatedCalls
    <2>2. PICK token \in held[a] : Covers(token, call)
      BY <1>3, <2>1 DEF Authorized
    <2>3. \A group \in Syscalls[call.op] : warranted(a, group)
      BY <2>1, <2>2, CoveredIsWarranted
    <2> HIDE DEF warranted
    <2>4. QED
      BY <1>1, <2>3
  <1>4. ASSUME NEW a \in Agents, ~admin(a), NEW group \in SyscallGroups, warranted(a, group)
        PROVE  \E call \in GatedCalls : group \in Syscalls[call.op] /\ Covered(a, call)
    <2>1. PICK token \in held[a] :
             \E p \in token.permissions, s \in token.scope : WarrantedBy(group, p, s.resource)
      BY <1>4
    <2>2. PICK p \in token.permissions, s \in token.scope : WarrantedBy(group, p, s.resource)
      BY <2>1
    <2>3. p # "Admin" /\ token \in Tokens
      BY <1>2, <1>4, <2>1
    <2>4. PICK call \in CallKinds :
             group \in Syscalls[call.op] /\ Gated(call) /\ Covers(token, call)
      BY <2>2, <2>3, WarrantedIsCovered
    <2>5. QED
      BY <2>1, <2>4 DEF Covered, GatedCalls
  <1>5. ASSUME NEW a \in Agents, ~admin(a), NEW group \in SyscallGroups \ floor[a]
        PROVE  \E call \in GatedCalls : group \in Syscalls[call.op] /\ Covered(a, call)
    <2> HIDE DEF admin, warranted
    <2>1. warranted(a, group)
      BY <1>1, <1>5
    <2>2. QED
      BY <1>4, <1>5, <2>1
  <1> HIDE DEF warranted
  <1>6. QED
    BY <1>3, <1>5, Zenon DEF FloorAgrees

\* Whatever tokens are granted, forged or expired in time, the floor compiled from
\* them denies no system call of a call that needs a permission and that the gate
\* admits and, without Admin, lets nothing through but what the tokens cover
\* (compile_deny_floor against the gate of Agent::act).
THEOREM FloorAlwaysAgrees == Spec => []FloorAgrees
  <1>1. Inv => FloorAgrees
    BY CurrentFloorAgrees DEF Inv
  <1>2. QED
    BY <1>1, Invariant, PTL

=============================================================================
