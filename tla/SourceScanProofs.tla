-------------------------- MODULE SourceScanProofs --------------------------
(***************************************************************************)
(* A scan delivers every row once, for every set of keys, partitions,      *)
(* readers and chunk size, whatever other sessions insert and delete.  A   *)
(* key is at any time yet to be read by at most one of the open tasks (the *)
(* planner, a job that has not started, a reader), and one that was there  *)
(* all the time has been delivered or is yet to be read by one of them.    *)
(* The last section is about the stream a PostgreSQL reader gets its rows  *)
(* from (CopyStream): the copy loop keeps them and their order, for every  *)
(* stream of rows and every way of cutting it into packets.                *)
(***************************************************************************)
EXTENDS SourceScan, ColumnFlow, RangeTrackerLemmas

(* The scans that read no row twice: one job, or partitions of NTILE; and  *)
(* under OFFSET, one job over a table that nobody changes.                 *)
Exact ==
  \/ scan.paging = "keyset" /\ (scan.parts = 1 \/ scan.driver = "ntile")
  \/ scan.paging = "offset" /\ scan.parts = 1 /\ scan.changes = 0

(* The scans that miss no row: the partitions of MySQL are among them.     *)
Steady == scan.paging = "keyset" \/ (scan.parts = 1 /\ scan.changes = 0)

(* The keys reader r of job j has yet to select.                           *)
Ahead(j, r) == {k \in Keys : Selects(k, pos[j][r], fresh[j][r], plan[j][r].to)}

(* Key k is left to the open task t.                                       *)
ToRead(t, k) ==
  \/ t[1] = 0
  \/ t[1] # 0 /\ t[2] = 0 /\ k \in JobRows(jobs[t[1]], Keys)
  \/ /\ t[1] # 0 /\ t[2] # 0
     /\ \/ scan.paging = "keyset" /\ k \in Ahead(t[1], t[2])
        \/ scan.paging = "offset" /\ k \in src /\ Rank(k, src) >= offset[t[1]][t[2]]

(* The scan's jobs, and the readers of a job once it has started.          *)
JobTyped(j) ==
  /\ j # 0
  /\ jobs[j] \in JobType /\ jobs[j].paging = scan.paging
  /\ jobs[j].chunk_size = scan.chunk_size /\ jobs[j].resume_from_pk = None

ReaderTyped(j, r) ==
  /\ r # 0
  /\ plan[j][r] \in RangeType /\ pos[j][r] \in Opt(Int) /\ fresh[j][r] \in BOOLEAN
  /\ offset[j][r] \in Nat /\ offset[j][r] <= Cardinality(Keys)
  /\ scan.paging = "keyset" => offset[j][r] + Cardinality(Ahead(j, r)) <= Cardinality(Keys)

OpenTyped(t) ==
  \/ t = <<0, 0>> /\ open = {t} /\ DOMAIN jobs = {}
  \/ t[1] \in DOMAIN jobs /\ t = <<t[1], 0>> /\ DOMAIN plan[t[1]] = {}
  \/ t[1] \in DOMAIN jobs /\ t = <<t[1], t[2]>> /\ t[2] \in DOMAIN plan[t[1]]

(* What TypeOK needs to be inductive: a reader has selected no key twice,  *)
(* so that its count of rows stays within the keys there are.              *)
TypeInv ==
  /\ TypeOK
  /\ DOMAIN plan = DOMAIN jobs /\ DOMAIN pos = DOMAIN jobs
  /\ DOMAIN fresh = DOMAIN jobs /\ DOMAIN offset = DOMAIN jobs
  /\ \A j \in DOMAIN jobs :
       /\ JobTyped(j)
       /\ DOMAIN fresh[j] = DOMAIN plan[j] /\ DOMAIN offset[j] = DOMAIN plan[j]
       /\ \A r \in DOMAIN plan[j] : ReaderTyped(j, r)
  /\ \A t \in open : OpenTyped(t)

(* No key is left to two tasks, and none is delivered and still left.      *)
OnceInv ==
  /\ \A s, t \in open : s # t => \A k \in Keys : ~(ToRead(s, k) /\ ToRead(t, k))
  /\ \A k \in Keys : count[k] <= 1
  /\ \A t \in open : \A k \in Keys : ToRead(t, k) => count[k] = 0

(* A row that stays is delivered or left to some task.                     *)
LeftInv == \A k \in stable : count[k] >= 1 \/ \E t \in open : ToRead(t, k)
-----------------------------------------------------------------------------
(* Cardinalities.                                                          *)
LEMMA SmallerSubset ==
  ASSUME NEW S, IsFiniteSet(S), NEW T, T \subseteq S, NEW x \in S, x \notin T
  PROVE  /\ IsFiniteSet(T)
         /\ Cardinality(T) \in Nat /\ Cardinality(S) \in Nat
         /\ Cardinality(T) < Cardinality(S)
<1>1. /\ IsFiniteSet(T) /\ Cardinality(T) <= Cardinality(S)
      /\ Cardinality(S) # Cardinality(T)
  BY FS_Subset
<1>2. Cardinality(T) \in Nat /\ Cardinality(S) \in Nat
  BY <1>1, FS_CardinalityType
<1> QED BY <1>1, <1>2

-----------------------------------------------------------------------------
(* The rank of a key is the number of rows before it: ranks grow with the  *)
(* keys ...                                                                *)
LEMMA RankGrows ==
  ASSUME NEW keys, keys \subseteq Int, IsFiniteSet(keys), NEW k \in keys
  PROVE  /\ Rank(k, keys) \in Nat /\ Rank(k, keys) < Cardinality(keys)
         /\ \A l \in keys : k < l => Rank(k, keys) < Rank(l, keys)
<1>1. {j \in keys : j < k} \subseteq keys /\ k \notin {j \in keys : j < k}
  OBVIOUS
<1>2. Rank(k, keys) \in Nat /\ Rank(k, keys) < Cardinality(keys)
  BY <1>1, SmallerSubset DEF Rank
<1>3. ASSUME NEW l \in keys, k < l
      PROVE  Rank(k, keys) < Rank(l, keys)
  <2>1. IsFiniteSet({j \in keys : j < l})
    BY FS_Subset
  <2>2. {j \in keys : j < k} \subseteq {j \in keys : j < l}
    <3>1. ASSUME NEW j \in keys, j < k
          PROVE  j < l
      <4>1. j \in Int /\ k \in Int /\ l \in Int
        OBVIOUS
      <4> QED BY <1>3, <3>1, <4>1
    <3> QED BY <3>1
  <2>3. k \in {j \in keys : j < l}
    BY <1>3
  <2> QED BY <1>1, <2>1, <2>2, <2>3, SmallerSubset DEF Rank
<1> QED BY <1>2, <1>3

(* ... tell them apart ...                                                 *)
LEMMA RankTells ==
  ASSUME NEW keys, keys \subseteq Int, IsFiniteSet(keys), NEW k \in keys, NEW l \in keys
  PROVE  /\ Rank(k, keys) = Rank(l, keys) => k = l
         /\ Rank(k, keys) < Rank(l, keys) => k < l
<1>1. k \in Int /\ l \in Int /\ Rank(k, keys) \in Nat /\ Rank(l, keys) \in Nat
  BY RankGrows
<1>2. k < l => Rank(k, keys) < Rank(l, keys)
  BY RankGrows
<1>3. l < k => Rank(l, keys) < Rank(k, keys)
  BY RankGrows
<1> QED BY <1>1, <1>2, <1>3

(* ... and number the rows without a gap.                                  *)
LEMMA RankNumbers ==
  ASSUME NEW keys, keys \subseteq Int, IsFiniteSet(keys)
  PROVE  \A i \in 0..(Cardinality(keys) - 1) : \E k \in keys : Rank(k, keys) = i
<1> DEFINE N == 0..(Cardinality(keys) - 1)
           f == [k \in keys |-> Rank(k, keys)]
<1>1. Cardinality(keys) \in Nat
  BY FS_CardinalityType
<1>2. IsFiniteSet(N) /\ Cardinality(N) = Cardinality(keys)
  BY <1>1, FS_Interval
<1>3. \A k \in keys : Rank(k, keys) \in N
  <2>1. \A k \in keys : Rank(k, keys) \in Nat /\ Rank(k, keys) < Cardinality(keys)
    BY RankGrows
  <2> QED BY <1>1, <2>1
<1> HIDE DEF N
<1>4. f \in Injection(keys, N)
  BY <1>3, RankTells DEF Injection, IsInjective
<1>5. f \in Surjection(keys, N)
  <2> HIDE DEF f
  <2> QED BY <1>2, <1>4, FS_Injection
<1>6. \A i \in N : \E k \in keys : f[k] = i
  BY <1>5 DEF Surjection
<1> QED BY <1>6 DEF N

(* OFFSET o LIMIT n: n rows, or those there are from the o-th on.          *)
Page(keys, o, n) == {k \in keys : Rank(k, keys) >= o /\ Rank(k, keys) < o + n}

LEMMA PageRows ==
  ASSUME NEW keys, keys \subseteq Int, IsFiniteSet(keys), NEW o \in Nat, NEW n \in Nat \ {0}
  PROVE  LET P == Page(keys, o, n)
         IN  /\ IsFiniteSet(P) /\ Cardinality(P) \in Nat
             /\ P = {} => Cardinality(keys) <= o
             /\ P # {} => /\ o + Cardinality(P) <= Cardinality(keys)
                          /\ Cardinality(P) = n \/ o + Cardinality(P) = Cardinality(keys)
             /\ Cardinality(P) <= n
             /\ \A k \in P : Rank(k, keys) < o + Cardinality(P)
<1> DEFINE P == {k \in keys : Rank(k, keys) >= o /\ Rank(k, keys) < o + n}
           c == Cardinality(keys)
           e == IF o + n <= c THEN o + n - 1 ELSE c - 1
           N == o..e
           f == [k \in P |-> Rank(k, keys)]
<1>1. c \in Nat /\ e \in Int
  BY FS_CardinalityType
<1>2. \A k \in keys : Rank(k, keys) \in Nat /\ Rank(k, keys) < c
  BY RankGrows
<1>3. \A k \in P : Rank(k, keys) \in N
  BY <1>1, <1>2
<1>4. f \in Injection(P, N)
  BY <1>3, RankTells DEF Injection, IsInjective
<1>5. f \in Surjection(P, N)
  <2>1. ASSUME NEW i \in N
        PROVE  \E k \in P : f[k] = i
    <3>1. i \in 0..(c - 1) /\ i >= o /\ i < o + n
      BY <1>1
    <3>2. PICK k \in keys : Rank(k, keys) = i
      BY <3>1, RankNumbers
    <3>3. k \in P
      BY <3>1, <3>2
    <3> QED BY <3>2, <3>3
  <2> QED BY <1>3, <2>1 DEF Surjection
<1>6. IsFiniteSet(N) /\ Cardinality(N) = IF o > e THEN 0 ELSE e - o + 1
  <2>1. o \in Int
    OBVIOUS
  <2> HIDE DEF e
  <2> QED BY <1>1, <2>1, FS_Interval
<1>7. IsFiniteSet(P) /\ Cardinality(P) = Cardinality(N)
  <2> HIDE DEF N, f
  <2> QED BY <1>4, <1>5, <1>6, FS_Injection
<1>8. P = {} <=> Cardinality(P) = 0
  BY <1>7, FS_EmptySet
<1>9. \A k \in P : Rank(k, keys) < o + Cardinality(P)
  BY <1>1, <1>3, <1>6, <1>7
<1>10. (P = {} => c <= o) /\ (P # {} => o + Cardinality(P) = e + 1) /\ Cardinality(P) <= n
  BY <1>1, <1>6, <1>7, <1>8
<1> QED BY <1>1, <1>6, <1>7, <1>9, <1>10 DEF Page
-----------------------------------------------------------------------------
(* NTILE.  The group of row i of c, where q and r are the quotient and the *)
(* remainder of c by n: the first r groups have q + 1 rows.                *)
GroupOf(i, q, r) == IF i < r * (q + 1) THEN i \div (q + 1) + 1
                    ELSE r + (i - r * (q + 1)) \div q + 1

(* A quotient is what its multiple says it is.                             *)
LEMMA QuotientIs ==
  ASSUME NEW a \in Nat, NEW b \in Nat \ {0}, NEW d \in Nat
  PROVE  /\ b * d <= a => d <= a \div b
         /\ a < b * d => a \div b < d
<1> DEFINE e == a \div b
<1>1. e \in Nat /\ b * e <= a /\ a < b * e + b
  BY Quotient
<1> HIDE DEF e
<1>2. ASSUME b * d <= a, e < d
      PROVE  FALSE
  <2>1. e + 1 <= d
    BY <1>1, <1>2
  <2>2. b * (e + 1) <= b * d
    BY <1>1, <2>1
  <2>3. b * (e + 1) = b * e + b
    BY <1>1
  <2> QED BY <1>1, <1>2, <2>2, <2>3
<1>3. ASSUME a < b * d, d <= e
      PROVE  FALSE
  <2>1. b * d <= b * e
    BY <1>1, <1>3
  <2> QED BY <1>1, <1>3, <2>1
<1> QED BY <1>1, <1>2, <1>3 DEF e

(* Quotients grow with the dividend.                                       *)
LEMMA QuotientGrows ==
  ASSUME NEW a \in Nat, NEW c \in Nat, NEW b \in Nat \ {0}, a <= c
  PROVE  a \div b <= c \div b
<1> DEFINE e == a \div b
<1>1. e \in Nat /\ b * e <= a
  BY Quotient
<1> HIDE DEF e
<1>2. b * e \in Int /\ b * e <= c
  BY <1>1
<1>3. e <= c \div b
  BY <1>1, <1>2, QuotientIs
<1> QED BY <1>3 DEF e

(* The groups of the rows 0..(c - 1) are 1..n, or 1..c if there are fewer  *)
(* rows; they grow with the row, and none is empty.                        *)
LEMMA Groups ==
  ASSUME NEW c \in Nat \ {0}, NEW n \in Nat \ {0}, NEW q, NEW r,
         q = c \div n, r = c % n
  PROVE  /\ \A i \in 0..(c - 1) : GroupOf(i, q, r) \in 1..(IF n <= c THEN n ELSE c)
         /\ \A i, j \in 0..(c - 1) : i <= j => GroupOf(i, q, r) <= GroupOf(j, q, r)
         /\ \A p \in 1..(IF n <= c THEN n ELSE c) :
              \E i \in 0..(c - 1) : GroupOf(i, q, r) = p
<1>1. q \in Nat /\ r \in 0..(n - 1) /\ c = n * q + r
  BY Quotient
<1> DEFINE t == r * (q + 1)
<1>2. t \in Nat /\ c = t + (n - r) * q /\ n - r \in Nat \ {0}
  <2>1. r \in Nat /\ n - r \in Nat \ {0}
    BY <1>1
  <2>2. r * (q + 1) = r * q + r
    BY <1>1, <2>1
  <2>3. (n - r) * q = n * q - r * q
    BY <1>1, <2>1
  <2>4. r * q \in Nat /\ n * q \in Nat
    BY <1>1, <2>1
  <2> QED BY <1>1, <2>1, <2>2, <2>3, <2>4
<1>3. q = 0 => c = r /\ t = c /\ c < n
  BY <1>1
<1>4. q # 0 => n <= c
  BY <1>1
<1>5. q + 1 \in Nat \ {0} /\ r \in Nat
  BY <1>1
<1> HIDE DEF t
<1>6. ASSUME NEW i \in 0..(c - 1), i < t
      PROVE  GroupOf(i, q, r) = i \div (q + 1) + 1 /\ i \div (q + 1) \in 0..(r - 1)
  <2>1. GroupOf(i, q, r) = i \div (q + 1) + 1
    BY <1>6 DEF GroupOf, t
  <2>2. i \in Nat /\ i < (q + 1) * r
    BY <1>5, <1>6 DEF t
  <2>3. i \div (q + 1) < r /\ i \div (q + 1) \in Nat
    BY <1>5, <2>2, QuotientIs, Quotient
  <2> QED BY <1>5, <2>1, <2>3
<1>7. ASSUME NEW i \in 0..(c - 1), ~(i < t)
      PROVE  /\ q # 0 /\ i - t \in Nat
             /\ GroupOf(i, q, r) = r + (i - t) \div q + 1
             /\ (i - t) \div q \in 0..(n - r - 1)
  <2>1. q # 0 /\ i - t \in Nat /\ q \in Nat \ {0}
    BY <1>1, <1>2, <1>3, <1>7
  <2>2. GroupOf(i, q, r) = r + (i - t) \div q + 1
    BY <1>7 DEF GroupOf, t
  <2>3. i - t < q * (n - r)
    <3>1. i - t < (n - r) * q /\ (n - r) * q = q * (n - r)
      BY <1>1, <1>2, <1>7
    <3> QED BY <3>1
  <2> DEFINE a == i - t
             m == n - r
  <2>4. a \in Nat /\ m \in Nat /\ a < q * m
    BY <1>2, <2>1, <2>3
  <2> HIDE DEF a, m
  <2>5. a \div q < m /\ a \div q \in Nat
    BY <2>1, <2>4, QuotientIs, Quotient
  <2>6. (i - t) \div q < n - r /\ (i - t) \div q \in Nat
    BY <2>5 DEF a, m
  <2> QED BY <1>2, <2>1, <2>2, <2>6
<1>8. ASSUME NEW i \in 0..(c - 1)
      PROVE  GroupOf(i, q, r) \in 1..(IF n <= c THEN n ELSE c)
  <2>1. CASE i < t
    <3>1. r <= n /\ (q = 0 => r = c)
      BY <1>1, <1>3
    <3>2. i \div (q + 1) + 1 \in 1..r
      BY <1>5, <1>6, <2>1
    <3> QED BY <1>4, <1>5, <1>6, <2>1, <3>1, <3>2
  <2>2. CASE ~(i < t)
    <3> DEFINE d == (i - t) \div q
    <3>1. n <= c /\ r + d + 1 \in 1..n
      <4>1. d \in 0..(n - r - 1) /\ n <= c
        BY <1>4, <1>7, <2>2
      <4> HIDE DEF d
      <4> QED BY <1>1, <4>1
    <3> QED BY <1>7, <2>2, <3>1
  <2> QED BY <2>1, <2>2
<1>9. ASSUME NEW i \in 0..(c - 1), NEW j \in 0..(c - 1), i <= j
      PROVE  GroupOf(i, q, r) <= GroupOf(j, q, r)
  <2>1. CASE j < t
    <3>1. i < t /\ i \in Nat /\ j \in Nat
      BY <1>2, <1>9, <2>1
    <3>2. i \div (q + 1) <= j \div (q + 1)
      BY <1>5, <1>9, <3>1, QuotientGrows
    <3>3. i \div (q + 1) \in Int /\ j \div (q + 1) \in Int
      BY <1>6, <2>1, <3>1
    <3> QED BY <1>6, <2>1, <3>1, <3>2, <3>3
  <2>2. CASE ~(j < t) /\ i < t
    <3>1. GroupOf(i, q, r) <= r /\ GroupOf(i, q, r) \in Int
      BY <1>5, <1>6, <2>2
    <3>2. GroupOf(j, q, r) > r /\ GroupOf(j, q, r) \in Int
      BY <1>5, <1>7, <2>2
    <3> QED BY <1>5, <3>1, <3>2
  <2>3. CASE ~(j < t) /\ ~(i < t)
    <3>1. q \in Nat \ {0} /\ i - t \in Nat /\ j - t \in Nat /\ i - t <= j - t
      BY <1>1, <1>2, <1>7, <1>9, <2>3
    <3>2. (i - t) \div q <= (j - t) \div q
      BY <3>1, QuotientGrows
    <3>3. (i - t) \div q \in Int /\ (j - t) \div q \in Int
      BY <1>7, <2>3
    <3> QED BY <1>5, <1>7, <2>3, <3>2, <3>3
  <2> QED BY <2>1, <2>2, <2>3
<1>10. ASSUME NEW p \in 1..(IF n <= c THEN n ELSE c)
       PROVE  \E i \in 0..(c - 1) : GroupOf(i, q, r) = p
  <2>1. p \in Nat \ {0} /\ p <= n
    BY DEF GroupOf
  <2>2. CASE p <= r
    <3> DEFINE i == (q + 1) * (p - 1)
    <3>1. p - 1 \in Nat /\ p - 1 <= r - 1
      BY <1>5, <2>1, <2>2
    <3>2. i \in Nat /\ i < t
      <4>1. i \in Nat /\ (q + 1) * (p - 1) <= (q + 1) * (r - 1)
        BY <1>5, <3>1
      <4>2. (q + 1) * (r - 1) = t - (q + 1)
        BY <1>5 DEF t
      <4> QED BY <1>2, <1>5, <4>1, <4>2
    <3>3. t <= c
      BY <1>1, <1>2
    <3>4. i \in 0..(c - 1)
      BY <1>2, <3>2, <3>3
    <3>5. i \div (q + 1) = p - 1
      <4>1. i < (q + 1) * p
        BY <1>5, <2>1
      <4> DEFINE b == q + 1
                 m == p - 1
      <4>3. b \in Nat \ {0} /\ m \in Nat /\ b * m <= i /\ i < b * p
        BY <1>5, <3>1, <3>2, <4>1
      <4> HIDE DEF b, i
      <4>4. i \div b < p /\ i \div b \in Nat
        BY <2>1, <3>2, <4>3, QuotientIs, Quotient
      <4> HIDE DEF m
      <4>5. m <= i \div b
        BY <3>2, <4>3, QuotientIs
      <4>6. i \div b = m
        BY <2>1, <4>3, <4>4, <4>5 DEF m
      <4> QED BY <4>6 DEF b, m
    <3> HIDE DEF i
    <3> QED BY <1>6, <2>1, <3>2, <3>4, <3>5
  <2>3. CASE ~(p <= r)
    <3>1. q # 0 /\ q \in Nat \ {0}
      BY <1>1, <1>3, <2>1, <2>3
    <3> DEFINE m == p - r - 1
               d == q * m
    <3>2. m \in Nat /\ m + 1 <= n - r
      BY <1>1, <2>1, <2>3
    <3> HIDE DEF m
    <3>3. d \in Nat /\ d < q * (m + 1)
      BY <3>1, <3>2
    <3>4. q * (m + 1) <= q * (n - r)
      BY <1>2, <3>1, <3>2
    <3>5. q * (n - r) = (n - r) * q /\ q * (n - r) \in Int /\ q * (m + 1) \in Int
      BY <1>2, <3>1, <3>2
    <3>6. d \div q = m
      <4>1. q * m <= d /\ m + 1 \in Nat
        BY <3>1, <3>2
      <4> HIDE DEF d
      <4>2. d \div q < m + 1
        <5> DEFINE u == m + 1
        <5>1. u \in Nat /\ d < q * u
          BY <3>3, <4>1
        <5> HIDE DEF u
        <5>2. d \div q < u
          BY <3>1, <3>3, <5>1, QuotientIs
        <5> QED BY <5>2 DEF u
      <4>3. m <= d \div q /\ d \div q \in Nat
        BY <3>1, <3>2, <3>3, <4>1, QuotientIs, Quotient
      <4> QED BY <3>2, <4>2, <4>3
    <3> HIDE DEF d
    <3>7. t + d \in 0..(c - 1) /\ ~(t + d < t) /\ (t + d) - t = d
      BY <1>2, <3>3, <3>4, <3>5
    <3>8. GroupOf(t + d, q, r) = r + m + 1
      BY <1>7, <3>6, <3>7
    <3>9. r + m + 1 = p
      BY <1>5, <2>1 DEF m
    <3> QED BY <3>7, <3>8, <3>9
  <2> QED BY <2>2, <2>3
<1> QED BY <1>8, <1>9, <1>10
-----------------------------------------------------------------------------
(* Partition boundaries.                                                   *)
Bound == [min : Opt(Int), max : Opt(Int)]

(* The keys of group p.                                                    *)
Group(keys, n, p) == {k \in keys : Ntile(k, keys, n) = p}

(* The groups of NTILE: every key is in one of the numbered ones, none is  *)
(* empty, and the keys of a group are below those of the next ones.        *)
LEMMA NtileGroups ==
  ASSUME NEW keys, keys \subseteq Int, IsFiniteSet(keys), keys # {}, NEW n \in Nat \ {0}
  PROVE  LET m == Min({n, Cardinality(keys)})
         IN  /\ m \in Nat \ {0}
             /\ \A k \in keys : Ntile(k, keys, n) \in 1..m
             /\ \A p \in 1..m : Group(keys, n, p) # {}
             /\ \A k, l \in keys : Ntile(k, keys, n) < Ntile(l, keys, n) => k < l
<1> DEFINE c == Cardinality(keys)
           q == c \div n
           r == c % n
           m == Min({n, c})
<1>1. c \in Nat \ {0}
  BY FS_CardinalityType, FS_EmptySet
<1>2. m = IF n <= c THEN n ELSE c
  BY <1>1, LesserAndGreater
<1>3. \A k \in keys : Ntile(k, keys, n) = GroupOf(Rank(k, keys), q, r)
  BY DEF Ntile, GroupOf
<1>4. \A k \in keys : Rank(k, keys) \in 0..(c - 1)
  <2>1. \A k \in keys : Rank(k, keys) \in Nat /\ Rank(k, keys) < c
    BY RankGrows
  <2> HIDE DEF c
  <2> QED BY <1>1, <2>1
<1>5. \A i \in 0..(c - 1) : \E k \in keys : Rank(k, keys) = i
  BY RankNumbers
<1> HIDE DEF c, m
<1>6. /\ \A i \in 0..(c - 1) : GroupOf(i, q, r) \in 1..m
      /\ \A i, j \in 0..(c - 1) : i <= j => GroupOf(i, q, r) <= GroupOf(j, q, r)
      /\ \A p \in 1..m : \E i \in 0..(c - 1) : GroupOf(i, q, r) = p
  BY <1>1, <1>2, Groups
<1> HIDE DEF q, r
<1>7. \A k \in keys : Ntile(k, keys, n) \in 1..m
  BY <1>3, <1>4, <1>6
<1>8. \A p \in 1..m : Group(keys, n, p) # {}
  BY <1>3, <1>5, <1>6 DEF Group
<1>9. ASSUME NEW k \in keys, NEW l \in keys, Ntile(k, keys, n) < Ntile(l, keys, n)
      PROVE  k < l
  <2> DEFINE i == Rank(k, keys)
             j == Rank(l, keys)
  <2>1. i \in 0..(c - 1) /\ j \in 0..(c - 1)
    BY <1>4
  <2>2. Ntile(k, keys, n) = GroupOf(i, q, r) /\ Ntile(l, keys, n) = GroupOf(j, q, r)
    BY <1>3
  <2> HIDE DEF i, j
  <2>3. GroupOf(i, q, r) \in Int /\ GroupOf(j, q, r) \in Int
    BY <1>6, <2>1
  <2>4. ~(j <= i)
    BY <1>6, <1>9, <2>1, <2>2, <2>3
  <2>5. i < j
    BY <1>1, <2>1, <2>4
  <2> QED BY <2>5, RankTells DEF i, j
<1>10. m \in Nat \ {0}
  BY <1>1, <1>2
<1> QED BY <1>7, <1>8, <1>9, <1>10 DEF m, c

(* NTILE boundaries hold every row, and none holds a row of another.       *)
LEMMA NtileTiles ==
  ASSUME NEW keys, keys \subseteq Int, IsFiniteSet(keys), NEW n \in Nat \ {0}
  PROVE  LET b == NtileBounds(keys, n)
         IN  /\ 0 \notin DOMAIN b
             /\ \A p \in DOMAIN b : b[p] \in Bound
             /\ \A k \in keys : \E p \in DOMAIN b : Within(b[p], k)
             /\ \A p, s \in DOMAIN b : p # s => \A k \in Int : ~(Within(b[p], k) /\ Within(b[s], k))
<1> DEFINE m == Min({n, Cardinality(keys)})
           b == NtileBounds(keys, n)
<1>1. b = [p \in 1..m |-> [min |-> Min(Group(keys, n, p)), max |-> Max(Group(keys, n, p))]]
  BY DEF NtileBounds, Group
<1>2. CASE keys = {}
  <2>1. m = 0
    <3>1. Cardinality(keys) = 0
      BY <1>2, FS_EmptySet
    <3> QED BY <3>1, LesserAndGreater
  <2> HIDE DEF m, b
  <2>2. DOMAIN b = {}
    BY <1>1, <2>1
  <2> QED BY <1>2, <2>2 DEF b
<1>3. CASE keys # {}
  <2>1. /\ m \in Nat \ {0}
        /\ \A k \in keys : Ntile(k, keys, n) \in 1..m
        /\ \A p \in 1..m : Group(keys, n, p) # {}
        /\ \A k, l \in keys : Ntile(k, keys, n) < Ntile(l, keys, n) => k < l
    BY <1>3, NtileGroups
  <2> HIDE DEF m, b
  <2>2. ASSUME NEW p \in 1..m
        PROVE  /\ b[p].min \in Group(keys, n, p) /\ b[p].max \in Group(keys, n, p)
               /\ b[p].min \in keys /\ b[p].max \in keys
               /\ b[p] \in Bound
               /\ \A k \in Group(keys, n, p) : b[p].min <= k /\ k <= b[p].max
    <3> DEFINE G == Group(keys, n, p)
    <3>1. G \subseteq keys
      BY DEF Group
    <3>2. G \subseteq Int /\ IsFiniteSet(G) /\ G # {}
      BY <2>1, <3>1, FS_Subset
    <3> HIDE DEF G
    <3>3. /\ Min(G) \in G /\ \A k \in G : Min(G) <= k
          /\ Max(G) \in G /\ \A k \in G : Max(G) >= k
      BY <3>2, MinIsLeast, MaxIsGreatest
    <3>4. b[p] = [min |-> Min(G), max |-> Max(G)]
      BY <1>1 DEF G
    <3> QED BY <3>1, <3>2, <3>3, <3>4 DEF Bound, Opt, G
  <2>3. DOMAIN b = 1..m
    BY <1>1
  <2>4. ASSUME NEW k \in keys
        PROVE  \E p \in DOMAIN b : Within(b[p], k)
    <3>1. PICK p \in 1..m : k \in Group(keys, n, p)
      BY <2>1 DEF Group
    <3>2. b[p].min <= k /\ k <= b[p].max /\ b[p].min \in Int
      BY <2>2, <3>1
    <3> QED BY <2>3, <3>2 DEF Within
  <2>5. ASSUME NEW p \in 1..m, NEW s \in 1..m, p < s, NEW k \in Int, Within(b[p], k), Within(b[s], k)
        PROVE  FALSE
    <3>1. /\ b[p].max \in keys /\ Ntile(b[p].max, keys, n) = p
          /\ b[s].min \in keys /\ Ntile(b[s].min, keys, n) = s
      BY <2>2 DEF Group
    <3>2. b[p].max < b[s].min
      BY <2>1, <2>5, <3>1
    <3>3. b[p].max \in Int /\ b[s].min \in Int
      BY <3>1
    <3>4. k <= b[p].max /\ k >= b[s].min
      BY <2>5, <3>3, NoneAssumption DEF Within
    <3> QED BY <3>2, <3>3, <3>4
  <2>6. ASSUME NEW p \in 1..m, NEW s \in 1..m, p # s, NEW k \in Int, Within(b[p], k), Within(b[s], k)
        PROVE  FALSE
    <3>1. p < s \/ s < p
      BY <2>6
    <3> QED BY <2>5, <2>6, <3>1
  <2> QED BY <2>2, <2>3, <2>4, <2>6 DEF b
<1> QED BY <1>2, <1>3

(* The arithmetic split of [MIN, MAX] holds every key, of the table or not.*)
LEMMA MinMaxTiles ==
  ASSUME NEW keys, keys \subseteq Int, IsFiniteSet(keys), NEW n \in Nat \ {0}
  PROVE  LET b == MinMaxBounds(keys, n)
         IN  /\ 0 \notin DOMAIN b
             /\ \A p \in DOMAIN b : b[p] \in Bound
             /\ \A k \in Int : \E p \in DOMAIN b : Within(b[p], k)
<1> DEFINE b == MinMaxBounds(keys, n)
           c == Cardinality(keys)
<1>1. CASE n <= 1 \/ c <= 1
  <2>1. b = NoBounds
    BY <1>1 DEF MinMaxBounds
  <2>2. DOMAIN NoBounds = {1} /\ NoBounds[1] = [min |-> None, max |-> None]
    BY DEF NoBounds
  <2> QED BY <2>1, <2>2 DEF Bound, Within, Opt
<1>2. CASE ~(n <= 1 \/ c <= 1)
  <2> DEFINE lo   == Min(keys)
             size == (Max(keys) - lo) \div n
             f == [p \in 1..n |-> [min |-> IF p = 1 THEN None ELSE lo + (p - 1) * size,
                                   max |-> IF p = n THEN None ELSE lo + p * size]]
  <2>1. b = f
    BY <1>2 DEF MinMaxBounds
  <2>2. keys # {}
    BY <1>2, FS_EmptySet
  <2>3. lo \in Int /\ Max(keys) \in Int
    BY <2>2, MinIsLeast, MaxIsGreatest
  <2> HIDE DEF lo
  <2>4. size \in Int
    BY <2>3
  <2> HIDE DEF size
  <2>5. \A p \in 1..n : lo + (p - 1) * size \in Int /\ lo + p * size \in Int
    BY <2>3, <2>4
  <2>6. \A p \in 1..n : f[p] \in Bound
    BY <2>5 DEF Bound, Opt
  <2>7. ASSUME NEW k \in Int
        PROVE  \E p \in 1..n : Within(f[p], k)
    <3> DEFINE T == {p \in 1..n : p = n \/ k <= lo + p * size}
    <3>1. n \in T /\ T \subseteq 1..n
      OBVIOUS
    <3> HIDE DEF T
    <3>2. PICK p \in T : \A s \in T : p <= s
      <4>1. IsFiniteSet(1..n)
        BY FS_Interval
      <4>2. T \in SUBSET (1..n) /\ T # {}
        BY <3>1
      <4>3. IsFiniteSet(T)
        BY <4>1, <4>2, FS_Subset
      <4>4. T \subseteq Int
        BY <4>2
      <4> QED BY <4>2, <4>3, <4>4, LeastExists
    <3>3. p \in 1..n /\ (p = n \/ k <= lo + p * size)
      BY <3>1, <3>2 DEF T
    <3>4. p # 1 => k > lo + (p - 1) * size
      <4> SUFFICES ASSUME p # 1 PROVE k > lo + (p - 1) * size
        OBVIOUS
      <4>1. p - 1 \in 1..n /\ p - 1 \notin T
        BY <3>2, <3>3
      <4>2. ~(k <= lo + (p - 1) * size)
        BY <4>1 DEF T
      <4> QED BY <2>5, <3>3, <4>2
    <3>5. /\ f[p].min = IF p = 1 THEN None ELSE lo + (p - 1) * size
          /\ f[p].max = IF p = n THEN None ELSE lo + p * size
      BY <3>3
    <3> HIDE DEF f
    <3> QED BY <2>5, <3>3, <3>4, <3>5 DEF Within
  <2>8. DOMAIN f = 1..n /\ 0 \notin 1..n
    OBVIOUS
  <2> HIDE DEF f
  <2> QED BY <2>1, <2>6, <2>7, <2>8
<1> QED BY <1>1, <1>2
-----------------------------------------------------------------------------
(* What the constants and TypeOK say of the tables.                        *)
LEMMA Finite ==
  ASSUME TypeOK
  PROVE  /\ Keys \subseteq Int /\ IsFiniteSet(Keys) /\ Cardinality(Keys) \in Nat
         /\ src \subseteq Int /\ IsFiniteSet(src)
         /\ Cardinality(src) \in Nat /\ Cardinality(src) <= Cardinality(Keys)
         /\ scan.paging \in {"keyset", "offset"} /\ scan.driver \in {"ntile", "minmax"}
         /\ scan.parts \in Nat \ {0} /\ scan.readers \in Nat \ {0}
         /\ scan.chunk_size \in Nat \ {0} /\ scan.changes \in Nat
<1>1. Keys \subseteq Int /\ IsFiniteSet(Keys) /\ src \subseteq Keys /\ scan \in ScanType
  BY ScanAssumption DEF TypeOK
<1>2. IsFiniteSet(src) /\ Cardinality(src) <= Cardinality(Keys)
  BY <1>1, FS_Subset
<1>3. Cardinality(src) \in Nat /\ Cardinality(Keys) \in Nat
  BY <1>1, <1>2, FS_CardinalityType
<1> QED BY <1>1, <1>2, <1>3 DEF ScanType

(* The partitions that PlanJobs makes jobs of.                             *)
PlannedBounds == IF scan.parts > 1 THEN Boundaries(src) ELSE NoBounds

LEMMA PlannedTile ==
  ASSUME TypeOK
  PROVE  /\ 0 \notin DOMAIN PlannedBounds
         /\ \A j \in DOMAIN PlannedBounds : PlannedBounds[j] \in Bound
         /\ \A k \in src : \E j \in DOMAIN PlannedBounds : Within(PlannedBounds[j], k)
         /\ scan.parts = 1 => DOMAIN PlannedBounds = {1}
         /\ scan.parts = 1 \/ scan.driver = "ntile" =>
              \A i, j \in DOMAIN PlannedBounds : i # j =>
                 \A k \in Int : ~(Within(PlannedBounds[i], k) /\ Within(PlannedBounds[j], k))
<1> DEFINE b == PlannedBounds
<1>1. CASE scan.parts = 1
  <2>1. b = NoBounds
    BY <1>1 DEF PlannedBounds
  <2>2. DOMAIN NoBounds = {1} /\ NoBounds[1] = [min |-> None, max |-> None]
    BY DEF NoBounds
  <2> QED BY <1>1, <2>1, <2>2 DEF Bound, Within, Opt
<1>2. CASE scan.parts # 1 /\ scan.driver = "ntile"
  <2>1. b = NtileBounds(src, scan.parts)
    BY <1>2, Finite DEF PlannedBounds, Boundaries
  <2> HIDE DEF b
  <2>2. /\ 0 \notin DOMAIN b
        /\ \A p \in DOMAIN b : b[p] \in Bound
        /\ \A k \in src : \E p \in DOMAIN b : Within(b[p], k)
        /\ \A p, s \in DOMAIN b : p # s => \A k \in Int : ~(Within(b[p], k) /\ Within(b[s], k))
    BY <2>1, Finite, NtileTiles
  <2> QED BY <1>2, <2>2 DEF b
<1>3. CASE scan.parts # 1 /\ scan.driver = "minmax"
  <2>1. b = MinMaxBounds(src, scan.parts)
    BY <1>3, Finite DEF PlannedBounds, Boundaries
  <2> HIDE DEF b
  <2>2. /\ 0 \notin DOMAIN b
        /\ \A p \in DOMAIN b : b[p] \in Bound
        /\ \A k \in Int : \E p \in DOMAIN b : Within(b[p], k)
    BY <2>1, Finite, MinMaxTiles
  <2> QED BY <1>3, <2>2, Finite DEF b
<1> QED BY <1>1, <1>2, <1>3, Finite

(* A keyset query: its rows were left to the reader, are left no longer,   *)
(* and a row that was left and is not among them still is, to a reader     *)
(* that goes on.                                                           *)
LEMMA KeysetQuery ==
  ASSUME TypeInv, NEW j \in DOMAIN jobs, NEW r \in DOMAIN plan[j], Query(j, r),
         scan.paging = "keyset"
  PROVE  LET rows == QueryRows(j, r)
         IN  /\ rows \subseteq src /\ rows \subseteq Ahead(j, r)
             /\ Ahead(j, r)' \subseteq Ahead(j, r) \ rows
             /\ pos'[j][r] \in Opt(Int) /\ fresh'[j][r] = FALSE
             /\ \A k \in src : k \in Ahead(j, r)
                  => k \in rows \/ (k \in Ahead(j, r)' /\ <<j, r>> \in open')
<1> DEFINE rows == QueryRows(j, r)
           last == pos[j][r]
           first == fresh[j][r]
           to == plan[j][r].to
           n == scan.chunk_size
<1>1. /\ TypeOK /\ ReaderTyped(j, r) /\ plan' = plan /\ src' = src
      /\ j \in DOMAIN pos /\ r \in DOMAIN pos[j] /\ j \in DOMAIN fresh /\ r \in DOMAIN fresh[j]
  BY DEF TypeInv, TypeOK, Query
<1>2. /\ last \in Opt(Int) /\ first \in BOOLEAN /\ to \in Opt(Int) /\ n \in Nat \ {0}
      /\ src \subseteq Int /\ IsFiniteSet(src) /\ src \subseteq Keys
  BY <1>1, Finite DEF ReaderTyped, RangeType, TypeOK
<1>3. rows = KeysetChunk(src, last, first, to, n)
  BY DEF QueryRows
<1>4. pos'[j][r] = (IF rows = {} THEN last ELSE Max(rows)) /\ fresh'[j][r] = FALSE
  BY <1>1 DEF Query
<1>5. <<j, r>> \in open' \/ LastQuery(j, r, rows)
  BY DEF Query
<1>6. Ahead(j, r)' = {k \in Keys : Selects(k, IF rows = {} THEN last ELSE Max(rows), FALSE, to)}
  BY <1>1, <1>4 DEF Ahead
<1> HIDE DEF rows
<1>7. rows \subseteq src /\ \A k \in rows : Selects(k, last, first, to)
  BY <1>3, ChunkSelected
<1>8. rows \subseteq Ahead(j, r)
  BY <1>2, <1>7 DEF Ahead
<1>9. rows # {} => Max(rows) \in rows /\ Max(rows) \in Int /\ \A k \in rows : k \in Int /\ k <= Max(rows)
  <2>1. rows \subseteq Int /\ IsFiniteSet(rows)
    BY <1>2, <1>7, FS_Subset
  <2>2. rows # {} => Max(rows) \in rows /\ \A k \in rows : Max(rows) >= k
    BY <2>1, MaxIsGreatest
  <2> QED BY <2>1, <2>2
<1> HIDE DEF last, first, to, n
<1>10. ASSUME NEW k \in Ahead(j, r)'
       PROVE  k \in Ahead(j, r) /\ k \notin rows
  <2>1. k \in Keys /\ k \in Int
    BY <1>1, <1>6, Finite
  <2>2. CASE rows = {}
    <3>1. Selects(k, last, FALSE, to)
      BY <1>6, <2>2
    <3>2. Selects(k, last, first, to)
      BY <3>1 DEF Selects
    <3> QED BY <2>1, <2>2, <3>2 DEF Ahead, last, first, to
  <2>3. CASE rows # {}
    <3>1. Selects(k, Max(rows), FALSE, to) /\ Selects(Max(rows), last, first, to)
      BY <1>6, <1>7, <1>9, <2>3
    <3>2. k > Max(rows) /\ (to = None \/ k <= to)
      BY <1>9, <2>3, <3>1, NoneAssumption DEF Selects
    <3>3. Selects(k, last, first, to)
      BY <1>2, <1>9, <2>1, <2>3, <3>1, <3>2, NoneAssumption DEF Selects, Opt
    <3>4. k \notin rows
      BY <1>9, <2>1, <2>3, <3>2
    <3> QED BY <2>1, <3>3, <3>4 DEF Ahead, last, first, to
  <2> QED BY <2>2, <2>3
<1>11. ASSUME NEW k \in src, k \in Ahead(j, r), k \notin rows
       PROVE  k \in Ahead(j, r)' /\ <<j, r>> \in open'
  <2>1. Selects(k, last, first, to) /\ k \in Keys /\ k \in Int
    BY <1>2, <1>11 DEF Ahead, last, first, to
  <2>2. rows # {}
    BY <1>2, <1>3, <2>1, EmptyChunkIsEnd
  <2>3. k > Max(rows)
    <3>1. Selects(k, last, first, None)
      BY <2>1 DEF Selects
    <3>2. ~(k <= Max(rows))
      BY <1>2, <1>3, <1>9, <1>11, <2>2, <3>1, ChunkSkipsNothing
    <3> QED BY <1>9, <2>1, <2>2, <3>2
  <2>4. k \in Ahead(j, r)'
    BY <1>6, <2>1, <2>2, <2>3 DEF Selects
  <2>5. ~(to # None /\ Max(rows) >= to)
    BY <1>2, <1>9, <2>1, <2>2, <2>3 DEF Selects, Opt
  <2>6. ~(Cardinality(rows) < scan.chunk_size)
    <3>1. Cardinality(rows) < scan.chunk_size => k <= Max(rows)
      BY <1>2, <1>3, <2>1, <2>2, ShortChunkIsLast DEF n
    <3> QED BY <1>9, <2>1, <2>2, <2>3, <3>1
  <2>7. ~LastQuery(j, r, rows)
    BY <2>2, <2>5, <2>6 DEF LastQuery, to
  <2> QED BY <1>5, <2>4, <2>7
<1>12. pos'[j][r] \in Opt(Int) /\ fresh'[j][r] = FALSE
  BY <1>2, <1>4, <1>9 DEF Opt, last
<1> QED BY <1>7, <1>8, <1>10, <1>11, <1>12 DEF rows

(* The same of an OFFSET query, of a table that nobody changes meanwhile.  *)
LEMMA OffsetQuery ==
  ASSUME TypeInv, NEW j \in DOMAIN jobs, NEW r \in DOMAIN plan[j], Query(j, r),
         scan.paging = "offset"
  PROVE  LET rows == QueryRows(j, r)
             left == {k \in src : Rank(k, src) >= offset[j][r]}
         IN  /\ rows \subseteq left
             /\ pos'[j][r] \in Opt(Int) /\ fresh'[j][r] = FALSE
             /\ offset'[j][r] \in Nat /\ offset'[j][r] <= Cardinality(Keys)
             /\ {k \in src : Rank(k, src) >= offset'[j][r]} = left \ rows
             /\ \A k \in left \ rows : <<j, r>> \in open'
<1> DEFINE rows == QueryRows(j, r)
           o == offset[j][r]
           n == scan.chunk_size
<1>1. /\ TypeOK /\ ReaderTyped(j, r)
      /\ j \in DOMAIN pos /\ r \in DOMAIN pos[j] /\ j \in DOMAIN fresh /\ r \in DOMAIN fresh[j]
      /\ j \in DOMAIN offset /\ r \in DOMAIN offset[j]
  BY DEF TypeInv, TypeOK
<1>2. /\ o \in Nat /\ o <= Cardinality(Keys) /\ n \in Nat \ {0} /\ pos[j][r] \in Opt(Int)
      /\ src \subseteq Int /\ IsFiniteSet(src)
      /\ Cardinality(src) \in Nat /\ Cardinality(src) <= Cardinality(Keys) /\ Cardinality(Keys) \in Nat
  BY <1>1, Finite DEF ReaderTyped
<1>3. rows = {k \in src : Rank(k, src) >= o /\ Rank(k, src) < o + n}
  BY DEF QueryRows, OffsetRows
<1>0. rows = Page(src, o, n)
  BY <1>3 DEF Page
<1>4. /\ pos'[j][r] = (IF rows = {} THEN pos[j][r] ELSE None) /\ fresh'[j][r] = FALSE
      /\ offset'[j][r] = o + Cardinality(rows)
  BY <1>1 DEF Query
<1>5. <<j, r>> \in open' \/ LastQuery(j, r, rows)
  BY DEF Query
<1> HIDE DEF rows, o, n
<1>6. /\ Cardinality(rows) \in Nat
      /\ rows = {} => Cardinality(src) <= o
      /\ rows # {} => /\ o + Cardinality(rows) <= Cardinality(src)
                      /\ Cardinality(rows) = n \/ o + Cardinality(rows) = Cardinality(src)
      /\ Cardinality(rows) <= n
      /\ \A k \in rows : Rank(k, src) < o + Cardinality(rows)
  BY <1>0, <1>2, PageRows
<1>7. \A k \in src : Rank(k, src) \in Nat /\ Rank(k, src) < Cardinality(src)
  BY <1>2, RankGrows
<1>8. \A k \in src : Rank(k, src) >= o + Cardinality(rows) <=> Rank(k, src) >= o /\ k \notin rows
  BY <1>2, <1>3, <1>6, <1>7
<1>9. rows = {} => Cardinality(rows) = 0
  BY FS_EmptySet
<1>10. o + Cardinality(rows) \in Nat /\ o + Cardinality(rows) <= Cardinality(Keys)
  BY <1>2, <1>6, <1>9
<1>11. ASSUME NEW k \in src, Rank(k, src) >= o, k \notin rows
       PROVE  <<j, r>> \in open'
  <2>1. rows # {}
    BY <1>2, <1>6, <1>7, <1>11
  <2>2. Cardinality(rows) = n
    BY <1>2, <1>6, <1>7, <1>8, <1>11, <2>1
  <2>3. ~LastQuery(j, r, rows)
    BY <1>2, <2>1, <2>2 DEF LastQuery, n
  <2> QED BY <1>5, <2>3
<1> QED BY <1>2, <1>3, <1>4, <1>8, <1>10, <1>11 DEF rows, o, Opt
-----------------------------------------------------------------------------
(* Type correctness.                                                       *)
LEMMA InitTypeInv == Init => TypeInv
<1> SUFFICES ASSUME Init PROVE TypeInv
  OBVIOUS
<1>1. scan \in ScanType /\ scan.changes \in Nat /\ scan.rows \subseteq Keys
  BY ScanAssumption DEF Init, ScanType
<1>2. TypeOK
  BY <1>1 DEF Init, TypeOK
<1>3. /\ DOMAIN jobs = {} /\ DOMAIN plan = {} /\ DOMAIN pos = {}
      /\ DOMAIN fresh = {} /\ DOMAIN offset = {}
  BY DEF Init
<1>4. \A t \in open : OpenTyped(t)
  BY <1>3 DEF Init, OpenTyped
<1> QED BY <1>2, <1>3, <1>4 DEF TypeInv

(* A planned job.                                                          *)
LEMMA PlannedTyped ==
  ASSUME TypeInv, PlanJobs, NEW j \in DOMAIN jobs'
  PROVE  /\ JobTyped(j)' /\ jobs'[j] = JobOf(PlannedBounds[j], scan.parts > 1)
         /\ j \in DOMAIN PlannedBounds
         /\ DOMAIN plan'[j] = {} /\ DOMAIN fresh'[j] = {} /\ DOMAIN offset'[j] = {}
         /\ DOMAIN pos'[j] = {}
<1>1. /\ DOMAIN jobs' = DOMAIN PlannedBounds /\ scan' = scan
      /\ jobs'[j] = JobOf(PlannedBounds[j], scan.parts > 1)
      /\ plan'[j] = << >> /\ pos'[j] = << >> /\ fresh'[j] = << >> /\ offset'[j] = << >>
  BY DEF PlanJobs, PlannedBounds
<1>2. TypeOK
  BY DEF TypeInv
<1>3. j # 0 /\ PlannedBounds[j] \in Bound
  BY <1>1, <1>2, PlannedTile
<1>4. JobOf(PlannedBounds[j], scan.parts > 1) \in JobType
  BY <1>2, <1>3, Finite DEF JobOf, JobType, Bound, Opt
<1>5. /\ JobOf(PlannedBounds[j], scan.parts > 1).paging = scan.paging
      /\ JobOf(PlannedBounds[j], scan.parts > 1).chunk_size = scan.chunk_size
      /\ JobOf(PlannedBounds[j], scan.parts > 1).resume_from_pk = None
  BY DEF JobOf
<1>6. JobTyped(j)'
  BY <1>1, <1>3, <1>4, <1>5 DEF JobTyped
<1> QED BY <1>1, <1>6

LEMMA PlanJobsTyped ==
  ASSUME TypeInv, PlanJobs
  PROVE  TypeInv'
<1>1. /\ DOMAIN plan' = DOMAIN jobs' /\ DOMAIN pos' = DOMAIN jobs'
      /\ DOMAIN fresh' = DOMAIN jobs' /\ DOMAIN offset' = DOMAIN jobs'
      /\ open' = {<<j, 0>> : j \in DOMAIN jobs'}
      /\ UNCHANGED <<scan, src, stable, changed, count>>
  BY DEF PlanJobs
<1>2. \A j \in DOMAIN jobs' :
         /\ JobTyped(j)' /\ DOMAIN plan'[j] = {} /\ DOMAIN fresh'[j] = {}
         /\ DOMAIN offset'[j] = {} /\ DOMAIN pos'[j] = {}
  BY PlannedTyped
<1>3. \A t \in open' : OpenTyped(t)'
  BY <1>1, <1>2 DEF OpenTyped
<1>4. TypeOK'
  BY <1>1, <1>2 DEF TypeInv, TypeOK, JobTyped
<1> QED BY <1>1, <1>2, <1>3, <1>4 DEF TypeInv

(* The readers of a job that starts have read nothing.                     *)
LEMMA StartJobTyped ==
  ASSUME TypeInv, NEW j, StartJob(j)
  PROVE  TypeInv'
<1> DEFINE R == ReaderRanges(jobs[j], src)
<1>1. TypeOK /\ j \in DOMAIN jobs /\ jobs[j] \in JobType /\ DOMAIN plan[j] = {}
  <2>1. OpenTyped(<<j, 0>>) /\ j # 0
    BY DEF StartJob, TypeInv
  <2>2. j \in DOMAIN jobs
    BY <2>1 DEF OpenTyped
  <2>3. <<j, 0>>[2] \notin DOMAIN plan[j]
    BY <2>2 DEF TypeInv, ReaderTyped
  <2> QED BY <2>1, <2>2, <2>3 DEF OpenTyped, TypeInv, JobTyped
<1>2. PICK m \in Nat \ {0} : R \in [1..m -> RangeType]
  BY <1>1, Finite, PlanFacts
<1>3. \A r \in DOMAIN R : r # 0 /\ R[r] \in RangeType
  BY <1>2
<1>4. /\ DOMAIN plan' = DOMAIN plan /\ DOMAIN pos' = DOMAIN pos
      /\ DOMAIN fresh' = DOMAIN fresh /\ DOMAIN offset' = DOMAIN offset
      /\ \A i \in DOMAIN jobs \ {j} : /\ plan'[i] = plan[i] /\ pos'[i] = pos[i]
                                      /\ fresh'[i] = fresh[i] /\ offset'[i] = offset[i]
      /\ plan'[j] = R
      /\ pos'[j] = [r \in DOMAIN R |-> R[r].from]
      /\ fresh'[j] = [r \in DOMAIN R |-> R[r].fresh]
      /\ offset'[j] = [r \in DOMAIN R |-> 0]
      /\ open' = (open \ {<<j, 0>>}) \cup {<<j, r>> : r \in DOMAIN R}
      /\ UNCHANGED <<scan, src, stable, changed, jobs, count>>
  BY <1>1 DEF StartJob, TypeInv
<1> HIDE DEF R
<1>5. ASSUME NEW r \in DOMAIN R
      PROVE  ReaderTyped(j, r)'
  <2>1. Ahead(j, r)' \subseteq Keys /\ Keys' = Keys
    BY DEF Ahead
  <2>2. 0 + Cardinality(Ahead(j, r)') <= Cardinality(Keys)
    <3>1. IsFiniteSet(Ahead(j, r)') /\ Cardinality(Ahead(j, r)') <= Cardinality(Keys)
      BY <1>1, <2>1, Finite, FS_Subset
    <3>2. Cardinality(Ahead(j, r)') \in Nat
      BY <3>1, FS_CardinalityType
    <3> QED BY <3>1, <3>2
  <2>3. /\ plan'[j][r] \in RangeType /\ pos'[j][r] \in Opt(Int) /\ fresh'[j][r] \in BOOLEAN
        /\ offset'[j][r] = 0
    BY <1>3, <1>4 DEF RangeType
  <2> QED BY <1>1, <1>3, <2>2, <2>3, Finite DEF ReaderTyped
<1>6. ASSUME NEW i \in DOMAIN jobs, i # j, NEW r \in DOMAIN plan[i]
      PROVE  ReaderTyped(i, r)'
  <2>1. ReaderTyped(i, r)
    BY DEF TypeInv
  <2>2. Ahead(i, r)' = Ahead(i, r)
    BY <1>4, <1>6 DEF Ahead
  <2> QED BY <1>4, <1>6, <2>1, <2>2 DEF ReaderTyped
<1>7. ASSUME NEW i \in DOMAIN jobs'
      PROVE  /\ JobTyped(i)'
             /\ DOMAIN fresh'[i] = DOMAIN plan'[i] /\ DOMAIN offset'[i] = DOMAIN plan'[i]
             /\ DOMAIN plan'[i] = DOMAIN pos'[i]
             /\ \A r \in DOMAIN plan'[i] : ReaderTyped(i, r)'
  <2>1. i \in DOMAIN jobs
    BY <1>4
  <2>2. CASE i = j
    BY <1>4, <1>5, <2>1, <2>2 DEF TypeInv, JobTyped
  <2>3. CASE i # j
    BY <1>4, <1>6, <2>1, <2>3 DEF TypeInv, TypeOK, JobTyped
  <2> QED BY <2>2, <2>3
<1>8. ASSUME NEW t \in open'
      PROVE  OpenTyped(t)'
  <2>1. CASE t \in open \ {<<j, 0>>}
    <3>1. OpenTyped(t) /\ t # <<j, 0>>
      BY <2>1 DEF TypeInv
    <3>2. t # <<0, 0>>
      <4>1. \A i \in DOMAIN jobs : i # 0
        BY DEF TypeInv, JobTyped
      <4> QED BY <1>1, <3>1, <4>1 DEF OpenTyped
    <3>3. t[1] # j
      BY <1>1, <3>1, <3>2 DEF OpenTyped
    <3> QED BY <1>4, <3>1, <3>2, <3>3 DEF OpenTyped
  <2>2. CASE t \in {<<j, r>> : r \in DOMAIN R}
    BY <1>1, <1>4, <2>2 DEF OpenTyped
  <2> QED BY <1>4, <2>1, <2>2
<1>9. TypeOK'
  <2>1. ASSUME NEW i \in DOMAIN jobs'
        PROVE  /\ jobs'[i] \in JobType /\ DOMAIN plan'[i] = DOMAIN pos'[i]
               /\ \A r \in DOMAIN plan'[i] :
                    pos'[i][r] \in Opt(Int) /\ offset'[i][r] \in 0..Cardinality(Keys)
    BY <1>1, <1>7, Finite DEF JobTyped, ReaderTyped
  <2> QED BY <1>4, <2>1 DEF TypeInv, TypeOK
<1> QED BY <1>4, <1>7, <1>8, <1>9 DEF TypeInv

(* Other sessions do not disturb the readers' records.                     *)
LEMMA ChangeSourceTyped ==
  ASSUME TypeInv, ChangeSource
  PROVE  TypeInv'
<1>1. /\ UNCHANGED <<scan, jobs, plan, pos, fresh, offset, open, count>>
      /\ changed' = changed + 1 /\ changed < scan.changes
      /\ src' \subseteq Keys /\ stable' \subseteq src'
  BY DEF ChangeSource, TypeInv, TypeOK
<1>2. changed' \in 0..scan'.changes
  BY <1>1, Finite DEF TypeInv, TypeOK
<1>3. TypeOK'
  BY <1>1, <1>2 DEF TypeInv, TypeOK
<1>4. \A j, r : Ahead(j, r)' = Ahead(j, r)
  BY <1>1 DEF Ahead
<1>5. \A j, r : ReaderTyped(j, r) => ReaderTyped(j, r)'
  BY <1>1, <1>4 DEF ReaderTyped
<1>6. \A t : OpenTyped(t) => OpenTyped(t)'
  BY <1>1 DEF OpenTyped
<1>7. \A j : JobTyped(j) => JobTyped(j)'
  BY <1>1 DEF JobTyped
<1> QED BY <1>1, <1>3, <1>5, <1>6, <1>7 DEF TypeInv

(* An open task with a reader's number is a reader of a job.               *)
LEMMA ReaderOf ==
  ASSUME TypeInv, NEW j, NEW r, <<j, r>> \in open, j # 0, r # 0
  PROVE  j \in DOMAIN jobs /\ r \in DOMAIN plan[j]
BY DEF TypeInv, OpenTyped

(* A query counts the rows it delivers once.                               *)
LEMMA QueryTyped ==
  ASSUME TypeInv, NEW j, NEW r, j # 0, Query(j, r)
  PROVE  TypeInv'
<1> DEFINE rows == QueryRows(j, r)
<1>1. /\ TypeOK /\ j \in DOMAIN jobs /\ r \in DOMAIN plan[j] /\ ReaderTyped(j, r)
  BY ReaderOf DEF Query, TypeInv
<1>2. /\ DOMAIN pos' = DOMAIN pos /\ DOMAIN fresh' = DOMAIN fresh /\ DOMAIN offset' = DOMAIN offset
      /\ \A i \in DOMAIN jobs : /\ DOMAIN pos'[i] = DOMAIN pos[i]
                                /\ DOMAIN fresh'[i] = DOMAIN fresh[i]
                                /\ DOMAIN offset'[i] = DOMAIN offset[i]
                                /\ \A s \in DOMAIN plan[i] : <<i, s>> # <<j, r>>
                                     => /\ pos'[i][s] = pos[i][s]
                                        /\ fresh'[i][s] = fresh[i][s]
                                        /\ offset'[i][s] = offset[i][s]
      /\ offset'[j][r] = offset[j][r] + Cardinality(rows)
      /\ open' \subseteq open
      /\ count' = [k \in Keys |-> IF k \in rows THEN count[k] + 1 ELSE count[k]]
      /\ UNCHANGED <<scan, src, stable, changed, jobs, plan>>
  BY <1>1 DEF Query, TypeInv, TypeOK
<1>3. ReaderTyped(j, r)'
  <2>1. CASE scan.paging = "keyset"
    <3>1. /\ rows \subseteq src /\ rows \subseteq Ahead(j, r)
          /\ Ahead(j, r)' \subseteq Ahead(j, r) \ rows
          /\ pos'[j][r] \in Opt(Int) /\ fresh'[j][r] = FALSE
      BY <1>1, <2>1, KeysetQuery
    <3> HIDE DEF rows
    <3>2. IsFiniteSet(Ahead(j, r))
      BY <1>1, Finite, FS_Subset DEF Ahead
    <3>3. /\ IsFiniteSet(rows) /\ IsFiniteSet(Ahead(j, r) \ rows)
          /\ Cardinality(Ahead(j, r) \ rows) = Cardinality(Ahead(j, r)) - Cardinality(rows)
      <4>1. Ahead(j, r) \cap rows = rows
        BY <3>1
      <4> QED BY <3>1, <3>2, <4>1, FS_Subset, FS_Difference
    <3>4. IsFiniteSet(Ahead(j, r)') /\ Cardinality(Ahead(j, r)') <= Cardinality(Ahead(j, r) \ rows)
      BY <3>1, <3>3, FS_Subset
    <3>5. /\ Cardinality(Ahead(j, r)') \in Nat /\ Cardinality(Ahead(j, r)) \in Nat
          /\ Cardinality(rows) \in Nat /\ Cardinality(Ahead(j, r) \ rows) \in Nat
      BY <3>2, <3>3, <3>4, FS_CardinalityType
    <3>6. /\ offset'[j][r] \in Nat
          /\ offset'[j][r] + Cardinality(Ahead(j, r)') <= Cardinality(Keys)
          /\ offset'[j][r] <= Cardinality(Keys)
      BY <1>1, <1>2, <2>1, <3>3, <3>4, <3>5, Finite DEF ReaderTyped
    <3> QED BY <1>1, <1>2, <3>1, <3>6 DEF ReaderTyped
  <2>2. CASE scan.paging = "offset"
    <3>1. /\ pos'[j][r] \in Opt(Int) /\ fresh'[j][r] = FALSE
          /\ offset'[j][r] \in Nat /\ offset'[j][r] <= Cardinality(Keys)
      BY <1>1, <2>2, OffsetQuery
    <3> QED BY <1>1, <1>2, <2>2, <3>1 DEF ReaderTyped
  <2> QED BY <1>1, <2>1, <2>2, Finite
<1> HIDE DEF rows
<1>4. ASSUME NEW i \in DOMAIN jobs, NEW s \in DOMAIN plan[i]
      PROVE  ReaderTyped(i, s)'
  <2>1. CASE <<i, s>> = <<j, r>>
    BY <1>3, <2>1
  <2>2. CASE <<i, s>> # <<j, r>>
    <3>1. ReaderTyped(i, s)
      BY DEF TypeInv
    <3>2. Ahead(i, s)' = Ahead(i, s)
      BY <1>2, <2>2 DEF Ahead
    <3> QED BY <1>2, <2>2, <3>1, <3>2 DEF ReaderTyped
  <2> QED BY <2>1, <2>2
<1>5. \A t \in open' : OpenTyped(t)'
  <2>1. ASSUME NEW t \in open'
        PROVE  OpenTyped(t)'
    <3>1. t \in open /\ OpenTyped(t)
      BY <1>2 DEF TypeInv
    <3>2. t # <<0, 0>>
      <4>1. DOMAIN jobs # {} /\ \A i \in DOMAIN jobs : i # 0
        BY <1>1 DEF TypeInv, JobTyped
      <4> QED BY <3>1, <4>1 DEF OpenTyped
    <3> QED BY <1>2, <3>1, <3>2 DEF OpenTyped
  <2> QED BY <2>1
<1>6. \A i \in DOMAIN jobs : JobTyped(i)'
  BY <1>2 DEF TypeInv, JobTyped
<1>7. TypeOK'
  <2>1. count' \in [Keys -> Nat]
    <3>1. \A k \in Keys : count[k] \in Nat
      BY <1>1 DEF TypeOK
    <3> QED BY <1>2, <3>1
  <2>2. ASSUME NEW i \in DOMAIN jobs', NEW s \in DOMAIN plan'[i]
        PROVE  pos'[i][s] \in Opt(Int) /\ offset'[i][s] \in 0..Cardinality(Keys)
    BY <1>1, <1>2, <1>4, Finite DEF ReaderTyped
  <2> QED BY <1>1, <1>2, <2>1, <2>2 DEF TypeOK
<1> QED BY <1>2, <1>4, <1>5, <1>6, <1>7 DEF TypeInv

LEMMA NextTypeInv == TypeInv /\ [Next]_vars => TypeInv'
<1> SUFFICES ASSUME TypeInv, [Next]_vars PROVE TypeInv'
  OBVIOUS
<1>1. CASE ChangeSource
  BY <1>1, ChangeSourceTyped
<1>2. CASE PlanJobs
  BY <1>2, PlanJobsTyped
<1>3. ASSUME NEW t \in open, t[1] # 0, StartJob(t[1])
      PROVE  TypeInv'
  BY <1>3, StartJobTyped
<1>4. ASSUME NEW t \in open, t[1] # 0, Query(t[1], t[2])
      PROVE  TypeInv'
  BY <1>4, QueryTyped
<1>5. CASE UNCHANGED vars
  <2>1. \A j, r : Ahead(j, r)' = Ahead(j, r)
    BY <1>5 DEF vars, Ahead
  <2>2. \A j, r : ReaderTyped(j, r) => ReaderTyped(j, r)'
    BY <1>5, <2>1 DEF vars, ReaderTyped
  <2>3. (\A t : OpenTyped(t) => OpenTyped(t)') /\ (\A j : JobTyped(j) => JobTyped(j)')
    BY <1>5 DEF vars, OpenTyped, JobTyped
  <2>4. TypeOK'
    BY <1>5 DEF vars, TypeInv, TypeOK
  <2> QED BY <1>5, <2>2, <2>3, <2>4 DEF vars, TypeInv
<1> QED BY <1>1, <1>2, <1>3, <1>4, <1>5 DEF Next

(* Every scan keeps TypeOK: the jobs of a table have integer bounds, the   *)
(* readers' cursors stay integers, and no reader counts more rows than     *)
(* there are keys, even while other sessions insert and delete.            *)
THEOREM ScanTypes == Spec => []TypeOK
<1>1. TypeInv => TypeOK
  BY DEF TypeInv
<1> QED BY <1>1, InitTypeInv, NextTypeInv, PTL DEF Spec
-----------------------------------------------------------------------------
(* What is left to the tasks, before and after a step.                     *)
LEMMA JobRowsAre ==
  ASSUME NEW job \in JobType, job.resume_from_pk = None, job.paging \in {"keyset", "offset"},
         NEW k \in Keys
  PROVE  k \in JobRows(job, Keys) <=> (job.paging = "keyset" => Within(BoundOf(job), k))
<1>1. job.paging = "offset" => JobRows(job, Keys) = Keys
  BY DEF JobRows
<1>2. job.paging = "keyset" => (k \in JobRows(job, Keys) <=> Within(BoundOf(job), k))
  BY DEF JobRows, Within, BoundOf
<1> QED BY <1>1, <1>2

(* The planner leaves every row to the jobs, and to one of them only.      *)
LEMMA PlannerLeaves ==
  ASSUME TypeInv, PlanJobs
  PROVE  /\ <<0, 0>> \in open /\ open = {<<0, 0>>}
         /\ \A t \in open' : \E j \in DOMAIN PlannedBounds : t = <<j, 0>>
         /\ Steady => \A k \in src : \E t \in open' : ToRead(t, k)'
         /\ Exact => \A s, t \in open' : s # t => \A k \in Keys : ~(ToRead(s, k)' /\ ToRead(t, k)')
<1>1. TypeOK /\ <<0, 0>> \in open /\ open' = {<<j, 0>> : j \in DOMAIN jobs'} /\ scan' = scan
      /\ DOMAIN jobs' = DOMAIN PlannedBounds /\ Keys \subseteq Int /\ src \subseteq Keys
  BY ScanAssumption DEF PlanJobs, PlannedBounds, TypeInv, TypeOK
<1>2. open = {<<0, 0>>}
  <2>1. \A j \in DOMAIN jobs : j # 0
    BY DEF TypeInv, JobTyped
  <2> QED BY <1>1, <2>1 DEF TypeInv, OpenTyped
<1>3. ASSUME NEW j \in DOMAIN jobs', NEW k \in Keys
      PROVE  ToRead(<<j, 0>>, k)' <=> (scan.paging = "keyset" => Within(PlannedBounds[j], k))
  <2>1. JobTyped(j)' /\ jobs'[j] = JobOf(PlannedBounds[j], scan.parts > 1) /\ PlannedBounds[j] \in Bound
    BY <1>1, PlannedTyped, PlannedTile
  <2>2. BoundOf(jobs'[j]) = PlannedBounds[j] /\ jobs'[j].paging = scan.paging
    BY <2>1 DEF BoundOf, JobOf, Bound
  <2>3. k \in JobRows(jobs'[j], Keys) <=> (scan.paging = "keyset" => Within(PlannedBounds[j], k))
    BY <1>1, <2>1, <2>2, JobRowsAre, Finite DEF JobTyped
  <2>4. j # 0
    BY <2>1 DEF JobTyped
  <2> QED BY <2>3, <2>4 DEF ToRead
<1>4. ASSUME Steady, NEW k \in src
      PROVE  \E t \in open' : ToRead(t, k)'
  <2>1. PICK j \in DOMAIN PlannedBounds : Within(PlannedBounds[j], k)
    BY <1>1, PlannedTile
  <2> QED BY <1>1, <1>3, <2>1
<1>5. ASSUME Exact, NEW i \in DOMAIN jobs', NEW j \in DOMAIN jobs', i # j, NEW k \in Keys,
             ToRead(<<i, 0>>, k)', ToRead(<<j, 0>>, k)'
      PROVE  FALSE
  <2>1. CASE scan.paging = "keyset"
    BY <1>1, <1>3, <1>5, <2>1, PlannedTile DEF Exact
  <2>2. CASE scan.paging # "keyset"
    BY <1>1, <1>5, <2>2, PlannedTile DEF Exact
  <2> QED BY <2>1, <2>2
<1>6. ASSUME Exact, NEW s \in open', NEW t \in open', s # t, NEW k \in Keys,
             ToRead(s, k)', ToRead(t, k)'
      PROVE  FALSE
  BY <1>1, <1>5, <1>6
<1> QED BY <1>1, <1>2, <1>4, <1>6

(* A job leaves its rows to its readers, each to one of them.              *)
LEMMA JobLeaves ==
  ASSUME TypeInv, NEW j, StartJob(j)
  PROVE  LET D == DOMAIN ReaderRanges(jobs[j], src)
         IN  /\ open' = (open \ {<<j, 0>>}) \cup {<<j, r>> : r \in D}
             /\ <<j, 0>> \in open /\ 0 \notin D
             /\ \A t \in open : t # <<j, 0>> => t[1] # j /\ \A k : ToRead(t, k)' <=> ToRead(t, k)
             /\ \A r \in D, k \in Keys : ToRead(<<j, r>>, k)' => ToRead(<<j, 0>>, k)
             /\ \A r, s \in D : r # s => \A k \in Keys : ~(ToRead(<<j, r>>, k)' /\ ToRead(<<j, s>>, k)')
             /\ \A k \in src : ToRead(<<j, 0>>, k) => \E r \in D : ToRead(<<j, r>>, k)'
<1> DEFINE R == ReaderRanges(jobs[j], src)
<1>1. TypeOK /\ j # 0 /\ <<j, 0>> \in open /\ j \in DOMAIN jobs /\ JobTyped(j) /\ DOMAIN plan[j] = {}
  <2>1. OpenTyped(<<j, 0>>) /\ j # 0 /\ <<j, 0>> \in open
    BY DEF StartJob, TypeInv
  <2>2. j \in DOMAIN jobs
    BY <2>1 DEF OpenTyped
  <2>3. 0 \notin DOMAIN plan[j]
    BY <2>2 DEF TypeInv, ReaderTyped
  <2> QED BY <2>1, <2>2, <2>3 DEF OpenTyped, TypeInv
<1>2. jobs[j] \in JobType /\ jobs[j].paging = scan.paging /\ jobs[j].resume_from_pk = None
      /\ src \subseteq Int /\ IsFiniteSet(src) /\ src \subseteq Keys /\ Keys \subseteq Int
      /\ scan.paging \in {"keyset", "offset"}
  BY <1>1, Finite DEF JobTyped, TypeOK
<1>3. /\ plan'[j] = R
      /\ pos'[j] = [r \in DOMAIN R |-> R[r].from]
      /\ fresh'[j] = [r \in DOMAIN R |-> R[r].fresh]
      /\ offset'[j] = [r \in DOMAIN R |-> 0]
      /\ \A i : i # j => /\ plan'[i] = plan[i] /\ pos'[i] = pos[i]
                         /\ fresh'[i] = fresh[i] /\ offset'[i] = offset[i]
      /\ open' = (open \ {<<j, 0>>}) \cup {<<j, r>> : r \in DOMAIN R}
      /\ scan' = scan /\ src' = src /\ jobs' = jobs
  BY <1>1 DEF StartJob, TypeInv, TypeOK
<1> HIDE DEF R
<1>4. \A k \in Keys : ToRead(<<j, 0>>, k) <=> (scan.paging = "keyset" => Within(BoundOf(jobs[j]), k))
  <2>1. \A k \in Keys : k \in JobRows(jobs[j], Keys)
                          <=> (scan.paging = "keyset" => Within(BoundOf(jobs[j]), k))
    BY <1>2, JobRowsAre
  <2> QED BY <1>1, <2>1 DEF ToRead
<1>5. ASSUME NEW t \in open, t # <<j, 0>>
      PROVE  t[1] # j /\ \A k : ToRead(t, k)' <=> ToRead(t, k)
  <2>1. OpenTyped(t)
    BY DEF TypeInv
  <2>2. t[1] # j
    BY <1>1, <1>5, <2>1 DEF OpenTyped
  <2>3. Ahead(t[1], t[2])' = Ahead(t[1], t[2])
    BY <1>3, <2>2 DEF Ahead
  <2> QED BY <1>3, <2>2, <2>3 DEF ToRead
<1>6. CASE scan.paging = "keyset"
  <2>1. /\ 0 \notin DOMAIN R
        /\ \A r \in DOMAIN R, k \in Int : Claims(R[r], k) => Within(BoundOf(jobs[j]), k)
        /\ \A r, s \in DOMAIN R : r # s => \A k \in Int : ~(Claims(R[r], k) /\ Claims(R[s], k))
        /\ \A k \in src : Within(BoundOf(jobs[j]), k) => \E r \in DOMAIN R : Claims(R[r], k)
    BY <1>2, <1>6, ReadersTile DEF R
  <2>2. ASSUME NEW r \in DOMAIN R, NEW k \in Keys
        PROVE  ToRead(<<j, r>>, k)' <=> Claims(R[r], k)
    <3>1. r # 0 /\ j # 0
      BY <1>1, <2>1
    <3>2. k \in Ahead(j, r)' <=> Claims(R[r], k)
      BY <1>3 DEF Ahead, Claims
    <3> QED BY <1>3, <1>6, <3>1, <3>2 DEF ToRead
  <2> QED BY <1>1, <1>2, <1>3, <1>4, <1>5, <1>6, <2>1, <2>2 DEF R
<1>7. CASE scan.paging = "offset"
  <2>1. R = << SingleRange(jobs[j]) >>
    BY <1>2, <1>7 DEF R, ReaderRanges, PlannedRanges, IsParallel
  <2>2. DOMAIN R = {1}
    BY <2>1
  <2>3. ASSUME NEW k \in src
        PROVE  ToRead(<<j, 1>>, k)'
    <3>1. offset'[j][1] = 0
      BY <1>3, <2>2
    <3>2. Rank(k, src) \in Nat
      BY <1>2, RankGrows
    <3> QED BY <1>1, <1>3, <1>7, <3>1, <3>2 DEF ToRead
  <2> QED BY <1>1, <1>2, <1>3, <1>4, <1>5, <1>7, <2>2, <2>3 DEF R
<1> QED BY <1>2, <1>6, <1>7

(* A query takes its rows off what is left to the reader, and nothing else.*)
LEMMA ReaderLeaves ==
  ASSUME TypeInv, NEW j, NEW r, j # 0, Query(j, r)
  PROVE  LET rows == QueryRows(j, r)
         IN  /\ <<j, r>> \in open /\ open' \subseteq open /\ open \subseteq open' \cup {<<j, r>>}
             /\ count' = [k \in Keys |-> IF k \in rows THEN count[k] + 1 ELSE count[k]]
             /\ \A t \in open : t # <<j, r>> => \A k : ToRead(t, k)' <=> ToRead(t, k)
             /\ \A k \in rows : ToRead(<<j, r>>, k)
             /\ \A k : ToRead(<<j, r>>, k)' => ToRead(<<j, r>>, k) /\ k \notin rows
             /\ \A k \in src : ToRead(<<j, r>>, k)
                  => k \in rows \/ (ToRead(<<j, r>>, k)' /\ <<j, r>> \in open')
<1> DEFINE rows == QueryRows(j, r)
<1>1. /\ TypeOK /\ j \in DOMAIN jobs /\ r \in DOMAIN plan[j] /\ r # 0 /\ <<j, r>> \in open
      /\ scan.paging \in {"keyset", "offset"}
  BY ReaderOf, Finite DEF Query, TypeInv
<1>2. /\ \A i, s : <<i, s>> # <<j, r>> /\ i \in DOMAIN jobs /\ s \in DOMAIN plan[i]
             => /\ pos'[i][s] = pos[i][s]
                /\ fresh'[i][s] = fresh[i][s]
                /\ offset'[i][s] = offset[i][s]
      /\ open' \subseteq open /\ open \subseteq open' \cup {<<j, r>>}
      /\ count' = [k \in Keys |-> IF k \in rows THEN count[k] + 1 ELSE count[k]]
      /\ scan' = scan /\ src' = src /\ jobs' = jobs /\ plan' = plan
  BY <1>1 DEF Query, TypeInv, TypeOK
<1>3. ASSUME NEW t \in open, t # <<j, r>>
      PROVE  \A k : ToRead(t, k)' <=> ToRead(t, k)
  <2>1. OpenTyped(t) /\ DOMAIN jobs # {} /\ (\A i \in DOMAIN jobs : 0 \notin DOMAIN plan[i] /\ i # 0)
    BY <1>1 DEF TypeInv, ReaderTyped, JobTyped
  <2>2. t[1] \in DOMAIN jobs
    BY <1>1, <2>1 DEF OpenTyped
  <2>3. CASE t[2] = 0
    BY <1>2, <2>1, <2>2, <2>3 DEF ToRead
  <2>4. CASE t[2] # 0
    <3>1. t = <<t[1], t[2]>> /\ t[2] \in DOMAIN plan[t[1]]
      BY <2>1, <2>2, <2>4 DEF OpenTyped
    <3>2. /\ pos'[t[1]][t[2]] = pos[t[1]][t[2]] /\ fresh'[t[1]][t[2]] = fresh[t[1]][t[2]]
          /\ offset'[t[1]][t[2]] = offset[t[1]][t[2]]
      BY <1>2, <1>3, <2>2, <3>1
    <3>3. Ahead(t[1], t[2])' = Ahead(t[1], t[2])
      BY <1>2, <3>2 DEF Ahead
    <3> QED BY <1>2, <2>4, <3>2, <3>3 DEF ToRead
  <2> QED BY <2>3, <2>4
<1>4. CASE scan.paging = "keyset"
  <2>1. /\ rows \subseteq src /\ rows \subseteq Ahead(j, r)
        /\ Ahead(j, r)' \subseteq Ahead(j, r) \ rows
        /\ \A k \in src : k \in Ahead(j, r) => k \in rows \/ (k \in Ahead(j, r)' /\ <<j, r>> \in open')
    BY <1>1, <1>4, KeysetQuery
  <2> HIDE DEF rows
  <2>2. \A k : (ToRead(<<j, r>>, k) <=> k \in Ahead(j, r)) /\ (ToRead(<<j, r>>, k)' <=> k \in Ahead(j, r)')
    BY <1>1, <1>2, <1>4 DEF ToRead
  <2> QED BY <1>1, <1>2, <1>3, <2>1, <2>2 DEF rows
<1>5. CASE scan.paging = "offset"
  <2> DEFINE left == {k \in src : Rank(k, src) >= offset[j][r]}
             then == {k \in src : Rank(k, src) >= offset'[j][r]}
  <2>1. rows \subseteq left /\ then = left \ rows /\ \A k \in left \ rows : <<j, r>> \in open'
    BY <1>1, <1>5, OffsetQuery
  <2>2. \A k : (ToRead(<<j, r>>, k) <=> k \in left) /\ (ToRead(<<j, r>>, k)' <=> k \in then)
    BY <1>1, <1>2, <1>5 DEF ToRead
  <2> HIDE DEF rows, left, then
  <2> QED BY <1>1, <1>2, <1>3, <2>1, <2>2 DEF rows
<1> QED BY <1>1, <1>4, <1>5
-----------------------------------------------------------------------------
(* Under OFFSET, nobody changes the table.                                 *)
LEMMA SourceChanges ==
  ASSUME TypeInv, ChangeSource, Exact \/ Steady
  PROVE  /\ \A t, k : ToRead(t, k)' <=> ToRead(t, k)
         /\ open' = open /\ count' = count /\ stable' \subseteq stable
<1>1. scan.paging = "keyset"
  BY Finite DEF TypeInv, TypeOK, ChangeSource, Exact, Steady
<1>2. /\ UNCHANGED <<scan, jobs, plan, pos, fresh, offset, open, count>>
      /\ stable' \subseteq stable
  BY DEF ChangeSource
<1>3. \A j, r : Ahead(j, r)' = Ahead(j, r)
  BY <1>2 DEF Ahead
<1>4. \A t, k : ToRead(t, k)' <=> ToRead(t, k)
  BY <1>1, <1>2, <1>3 DEF ToRead
<1> QED BY <1>2, <1>4

LEMMA StutterLeaves ==
  ASSUME UNCHANGED vars
  PROVE  /\ \A t, k : ToRead(t, k)' <=> ToRead(t, k)
         /\ open' = open /\ count' = count /\ stable' = stable
<1>1. \A j, r : Ahead(j, r)' = Ahead(j, r)
  BY DEF vars, Ahead
<1>2. \A t, k : ToRead(t, k)' <=> ToRead(t, k)
  BY <1>1 DEF vars, ToRead
<1> QED BY <1>2 DEF vars

LEMMA NextOnceInv == TypeInv /\ (Exact => OnceInv) /\ [Next]_vars => (Exact => OnceInv)'
<1> SUFFICES ASSUME TypeInv, Exact => OnceInv, [Next]_vars, Exact'
             PROVE  OnceInv'
  OBVIOUS
<1>0. scan' = scan
  BY DEF Next, ChangeSource, PlanJobs, StartJob, Query, vars
<1>1. Exact /\ OnceInv
  BY <1>0 DEF Exact
<1>2. CASE ChangeSource
  BY <1>1, <1>2, SourceChanges DEF OnceInv
<1>3. CASE PlanJobs
  <2>1. count' = count
    BY <1>3 DEF PlanJobs
  <2>2. <<0, 0>> \in open /\ \A k \in Keys : ToRead(<<0, 0>>, k)
    BY <1>3, PlannerLeaves DEF ToRead
  <2>3. \A k \in Keys : count[k] = 0
    BY <1>1, <2>2 DEF OnceInv
  <2>4. \A s, t \in open' : s # t => \A k \in Keys : ~(ToRead(s, k)' /\ ToRead(t, k)')
    BY <1>1, <1>3, PlannerLeaves
  <2> QED BY <2>1, <2>3, <2>4 DEF OnceInv
<1>4. ASSUME NEW j, StartJob(j)
      PROVE  OnceInv'
  <2> DEFINE D == DOMAIN ReaderRanges(jobs[j], src)
             job == <<j, 0>>
  <2>1. /\ open' = (open \ {job}) \cup {<<j, r>> : r \in D} /\ job \in open /\ 0 \notin D
        /\ \A t \in open : t # job => t[1] # j /\ \A k : ToRead(t, k)' <=> ToRead(t, k)
        /\ \A r \in D, k \in Keys : ToRead(<<j, r>>, k)' => ToRead(job, k)
        /\ \A r, s \in D : r # s => \A k \in Keys : ~(ToRead(<<j, r>>, k)' /\ ToRead(<<j, s>>, k)')
    BY <1>4, JobLeaves
  <2> HIDE DEF D, job
  <2>2. count' = count
    BY <1>4 DEF StartJob
  <2>3. ASSUME NEW t \in open'
        PROVE  \/ t \in open /\ t # job /\ \A k : ToRead(t, k)' <=> ToRead(t, k)
               \/ \E r \in D : t = <<j, r>> /\ \A k \in Keys : ToRead(t, k)' => ToRead(job, k)
    BY <2>1
  <2>4. ASSUME NEW s \in open', NEW t \in open', s # t, NEW k \in Keys, ToRead(s, k)', ToRead(t, k)'
        PROVE  FALSE
    <3>1. CASE s \in open \ {job} /\ t \in open \ {job}
      BY <1>1, <2>1, <2>4, <3>1 DEF OnceInv
    <3>2. CASE \E r \in D : s = <<j, r>>
      <4>1. CASE \E r \in D : t = <<j, r>>
        BY <2>1, <2>4, <3>2, <4>1
      <4>2. CASE t \in open \ {job}
        BY <1>1, <2>1, <2>4, <3>2, <4>2 DEF OnceInv
      <4> QED BY <2>1, <4>1, <4>2
    <3>3. CASE s \in open \ {job} /\ \E r \in D : t = <<j, r>>
      BY <1>1, <2>1, <2>4, <3>3 DEF OnceInv
    <3> QED BY <2>1, <3>1, <3>2, <3>3
  <2>5. \A t \in open' : \A k \in Keys : ToRead(t, k)' => count[k] = 0
    BY <1>1, <2>1, <2>3 DEF OnceInv
  <2> QED BY <1>1, <2>2, <2>4, <2>5 DEF OnceInv
<1>5. ASSUME NEW j, NEW r, j # 0, Query(j, r)
      PROVE  OnceInv'
  <2> DEFINE rows == QueryRows(j, r)
             reader == <<j, r>>
  <2>1. /\ reader \in open /\ open' \subseteq open
        /\ count' = [k \in Keys |-> IF k \in rows THEN count[k] + 1 ELSE count[k]]
        /\ \A t \in open : t # reader => \A k : ToRead(t, k)' <=> ToRead(t, k)
        /\ \A k \in rows : ToRead(reader, k)
        /\ \A k : ToRead(reader, k)' => ToRead(reader, k) /\ k \notin rows
    BY <1>5, ReaderLeaves
  <2> HIDE DEF rows, reader
  <2>2. \A t \in open', k \in Keys : ToRead(t, k)' => ToRead(t, k)
    BY <2>1
  <2>3. \A t \in open', k \in Keys : ToRead(t, k)' => k \notin rows
    BY <1>1, <2>1 DEF OnceInv
  <2>4. ASSUME NEW k \in Keys
        PROVE  /\ count'[k] <= 1
               /\ \A t \in open' : ToRead(t, k)' => count'[k] = 0
    <3>1. k \in rows => count[k] = 0
      BY <1>1, <2>1 DEF OnceInv
    <3>2. count'[k] = IF k \in rows THEN count[k] + 1 ELSE count[k]
      BY <2>1
    <3>3. count[k] <= 1 /\ \A t \in open : ToRead(t, k) => count[k] = 0
      BY <1>1 DEF OnceInv
    <3> QED BY <2>1, <2>2, <2>3, <3>1, <3>2, <3>3
  <2>5. \A s, t \in open' : s # t => \A k \in Keys : ~(ToRead(s, k)' /\ ToRead(t, k)')
    BY <1>1, <2>1, <2>2 DEF OnceInv
  <2> QED BY <2>4, <2>5 DEF OnceInv
<1>6. CASE UNCHANGED vars
  BY <1>1, <1>6, StutterLeaves DEF OnceInv
<1> QED BY <1>2, <1>3, <1>4, <1>5, <1>6 DEF Next

LEMMA NextLeftInv == TypeInv /\ (Steady => LeftInv) /\ [Next]_vars => (Steady => LeftInv)'
<1> SUFFICES ASSUME TypeInv, Steady => LeftInv, [Next]_vars, Steady'
             PROVE  LeftInv'
  OBVIOUS
<1>0. scan' = scan /\ stable \subseteq src /\ src \subseteq Keys
  BY DEF Next, ChangeSource, PlanJobs, StartJob, Query, vars, TypeInv, TypeOK
<1>1. Steady /\ LeftInv
  BY <1>0 DEF Steady
<1>2. CASE ChangeSource
  BY <1>1, <1>2, SourceChanges DEF LeftInv
<1>3. CASE PlanJobs
  <2>1. stable' = stable
    BY <1>3 DEF PlanJobs
  <2>2. \A k \in src : \E t \in open' : ToRead(t, k)'
    BY <1>1, <1>3, PlannerLeaves
  <2> QED BY <1>0, <2>1, <2>2 DEF LeftInv
<1>4. ASSUME NEW j, StartJob(j)
      PROVE  LeftInv'
  <2> DEFINE D == DOMAIN ReaderRanges(jobs[j], src)
             job == <<j, 0>>
  <2>1. /\ open' = (open \ {job}) \cup {<<j, r>> : r \in D}
        /\ \A t \in open : t # job => t[1] # j /\ \A k : ToRead(t, k)' <=> ToRead(t, k)
        /\ \A k \in src : ToRead(job, k) => \E r \in D : ToRead(<<j, r>>, k)'
    BY <1>4, JobLeaves
  <2> HIDE DEF D, job
  <2>2. count' = count /\ stable' = stable
    BY <1>4 DEF StartJob
  <2>3. ASSUME NEW k \in stable, NEW t \in open, ToRead(t, k)
        PROVE  \E s \in open' : ToRead(s, k)'
    <3>1. CASE t = job
      BY <1>0, <2>1, <2>3, <3>1
    <3>2. CASE t # job
      BY <2>1, <2>3, <3>2
    <3> QED BY <3>1, <3>2
  <2> QED BY <1>1, <2>2, <2>3 DEF LeftInv
<1>5. ASSUME NEW j, NEW r, j # 0, Query(j, r)
      PROVE  LeftInv'
  <2> DEFINE rows == QueryRows(j, r)
             reader == <<j, r>>
  <2>1. /\ open \subseteq open' \cup {reader}
        /\ count' = [k \in Keys |-> IF k \in rows THEN count[k] + 1 ELSE count[k]]
        /\ \A t \in open : t # reader => \A k : ToRead(t, k)' <=> ToRead(t, k)
        /\ \A k \in src : ToRead(reader, k) => k \in rows \/ (ToRead(reader, k)' /\ reader \in open')
    BY <1>5, ReaderLeaves
  <2> HIDE DEF rows, reader
  <2>2. stable' = stable
    BY <1>5 DEF Query
  <2>3. \A k \in Keys : count[k] \in Nat
    BY DEF TypeInv, TypeOK
  <2>4. ASSUME NEW k \in stable
        PROVE  count'[k] >= 1 \/ \E t \in open' : ToRead(t, k)'
    <3>1. k \in src /\ k \in Keys
      BY <1>0
    <3>2. count'[k] = (IF k \in rows THEN count[k] + 1 ELSE count[k]) /\ count[k] \in Nat
      BY <2>1, <2>3, <3>1
    <3>3. CASE count[k] >= 1 \/ k \in rows
      BY <3>2, <3>3
    <3>4. CASE k \notin rows /\ \E t \in open : ToRead(t, k)
      BY <2>1, <3>1, <3>4
    <3> QED BY <1>1, <3>3, <3>4 DEF LeftInv
  <2> QED BY <2>2, <2>4 DEF LeftInv
<1>6. CASE UNCHANGED vars
  BY <1>1, <1>6, StutterLeaves DEF LeftInv
<1> QED BY <1>2, <1>3, <1>4, <1>5, <1>6 DEF Next

LEMMA InitScanInv == Init => OnceInv /\ LeftInv
<1> SUFFICES ASSUME Init PROVE OnceInv /\ LeftInv
  OBVIOUS
<1>1. open = {<<0, 0>>} /\ \A k \in Keys : count[k] = 0
  BY DEF Init
<1>2. \A k : ToRead(<<0, 0>>, k)
  BY DEF ToRead
<1> QED BY <1>1, <1>2 DEF OnceInv, LeftInv

(* No row is read twice: whatever other sessions insert and delete, by the *)
(* partitions of NTILE, the readers of a job and the queries of a reader;  *)
(* nor under OFFSET if one job reads a table that nobody changes.          *)
THEOREM RowsNotTwice == Spec => [](Exact => NoRowTwice)
<1>1. Init => TypeInv /\ (Exact => OnceInv)
  BY InitTypeInv, InitScanInv
<1>2. TypeInv /\ (Exact => OnceInv) /\ [Next]_vars => (TypeInv /\ (Exact => OnceInv))'
  BY NextTypeInv, NextOnceInv
<1>3. (Exact => OnceInv) => (Exact => NoRowTwice)
  BY DEF OnceInv, NoRowTwice
<1> QED BY <1>1, <1>2, <1>3, PTL DEF Spec

(* No row is missed by the time the last reader has ended, if it was there *)
(* all the time: by any keyset scan, the partitions of MySQL included.     *)
THEOREM RowsNotMissed == Spec => [](Steady => NoRowMissed)
<1>1. Init => TypeInv /\ (Steady => LeftInv)
  BY InitTypeInv, InitScanInv
<1>2. TypeInv /\ (Steady => LeftInv) /\ [Next]_vars => (TypeInv /\ (Steady => LeftInv))'
  BY NextTypeInv, NextLeftInv
<1>3. (Steady => LeftInv) => (Steady => NoRowMissed)
  BY DEF LeftInv, NoRowMissed, Finished
<1> QED BY <1>1, <1>2, <1>3, PTL DEF Spec
-----------------------------------------------------------------------------
(***************************************************************************)
(* The rows of a COPY query.  Putting one more sequence at the end of      *)
(* several is putting it at the end of what they are together.             *)
(***************************************************************************)
(* f[i] is what the first i sequences of ss are together.                  *)
Joins(f, ss, n, S) ==
  /\ f \in [1..n -> Seq(S)]
  /\ \A i \in 1..n : f[i] = IF i = 1 THEN ss[i] ELSE f[i - 1] \o ss[i]

(* One more sequence.                                                      *)
LEMMA JoinsExtend ==
  ASSUME NEW S, NEW ss, NEW n \in Nat, NEW f, Joins(f, ss, n, S), ss[n + 1] \in Seq(S)
  PROVE  LET h == [i \in 1..(n + 1) |->
                     IF i \in 1..n THEN f[i] ELSE IF n = 0 THEN ss[i] ELSE f[n] \o ss[i]]
         IN  Joins(h, ss, n + 1, S)
<1> DEFINE h == [i \in 1..(n + 1) |->
                   IF i \in 1..n THEN f[i] ELSE IF n = 0 THEN ss[i] ELSE f[n] \o ss[i]]
<1>1. \A i \in 1..(n + 1) : i \in 1..n \/ (i = n + 1 /\ i \notin 1..n)
  OBVIOUS
<1>2. \A i \in 1..n : i \in 1..(n + 1) /\ h[i] = f[i] /\ f[i] \in Seq(S)
  BY DEF Joins
<1>3. n + 1 \in 1..(n + 1) /\ h[n + 1] = IF n = 0 THEN ss[n + 1] ELSE f[n] \o ss[n + 1]
  BY <1>1
<1>4. h[n + 1] \in Seq(S)
  <2>1. CASE n = 0
    BY <1>3, <2>1
  <2>2. CASE n # 0
    <3>1. n \in 1..n
      BY <2>2
    <3>2. PICK a \in Seq(S) : a = f[n]
      BY <1>2, <3>1
    <3>3. PICK b \in Seq(S) : b = ss[n + 1]
      OBVIOUS
    <3>4. a \o b \in Seq(S)
      OBVIOUS
    <3> QED BY <1>3, <2>2, <3>2, <3>3, <3>4
  <2> QED BY <2>1, <2>2
<1>5. h \in [1..(n + 1) -> Seq(S)]
  <2>1. h = [i \in 1..(n + 1) |-> h[i]]
    OBVIOUS
  <2> HIDE DEF h
  <2>2. \A i \in 1..(n + 1) : h[i] \in Seq(S)
    BY <1>1, <1>2, <1>4
  <2> QED BY <2>1, <2>2, Zenon
<1> HIDE DEF h
<1>6. ASSUME NEW i \in 1..(n + 1)
      PROVE  h[i] = IF i = 1 THEN ss[i] ELSE h[i - 1] \o ss[i]
  <2>1. CASE i \in 1..n
    <3>1. i = 1 \/ i - 1 \in 1..n
      BY <2>1
    <3> QED BY <1>2, <2>1, <3>1 DEF Joins
  <2>2. CASE i = n + 1
    <3>1. n = 0 <=> i = 1
      BY <2>2
    <3>2. n # 0 => n \in 1..n /\ i - 1 = n
      BY <2>2
    <3> QED BY <1>2, <1>3, <2>2, <3>1, <3>2
  <2> QED BY <1>1, <2>1, <2>2
<1> QED BY <1>5, <1>6 DEF Joins, h

LEMMA JoinsExist ==
  ASSUME NEW S, NEW ss \in Seq(Seq(S))
  PROVE  \E f : Joins(f, ss, Len(ss), S)
<1> DEFINE Bad == {n \in 0..Len(ss) : ~ \E f : Joins(f, ss, n, S)}
<1> SUFFICES ASSUME Bad # {} PROVE FALSE
  <2>1. Len(ss) \in 0..Len(ss)
    OBVIOUS
  <2> QED BY <2>1 DEF Bad
<1>1. PICK n \in Bad : \A m \in Bad : n <= m
  <2>1. Bad \subseteq 0..Len(ss) /\ 0..Len(ss) \subseteq Int /\ IsFiniteSet(0..Len(ss))
    BY FS_Interval
  <2>2. IsFiniteSet(Bad) /\ Bad \subseteq Int
    <3> HIDE DEF Bad
    <3> QED BY <2>1, FS_Subset
  <2> HIDE DEF Bad
  <2> QED BY <2>2, LeastExists
<1>2. n \in 0..Len(ss) /\ ~ \E f : Joins(f, ss, n, S)
  BY <1>1
<1>3. n # 0
  <2>1. Joins([i \in 1..0 |-> << >>], ss, 0, S)
    BY DEF Joins
  <2> QED BY <1>2, <2>1
<1>4. n - 1 \in 0..Len(ss) /\ n - 1 \in Nat /\ n - 1 < n /\ n \in 1..Len(ss)
  BY <1>2, <1>3
<1>5. n - 1 \notin Bad
  <2> HIDE DEF Bad
  <2> QED BY <1>1, <1>2, <1>4
<1>6. PICK f : Joins(f, ss, n - 1, S)
  BY <1>4, <1>5
<1>7. \E h : Joins(h, ss, (n - 1) + 1, S)
  <2>1. ss[(n - 1) + 1] \in Seq(S)
    BY <1>4
  <2> QED BY <1>4, <1>6, <2>1, JoinsExtend
<1>8. (n - 1) + 1 = n
  BY <1>4
<1> QED BY <1>2, <1>7, <1>8

(* FlattenSeq joins all of them.                                           *)
LEMMA FlattenIs ==
  ASSUME NEW S, NEW ss \in Seq(Seq(S)), Len(ss) # 0, NEW f, Joins(f, ss, Len(ss), S)
  PROVE  FlattenSeq(ss) = f[Len(ss)]
<1> DEFINE m == Len(ss)
           Body(h, i) == IF i = 1 THEN ss[i] ELSE h[i - 1] \o ss[i]
           flat == CHOOSE h : h = [i \in 1..m |-> Body(h, i)]
<1>1. m \in Nat \ {0}
  OBVIOUS
<1>2. FlattenSeq(ss) = flat[m]
  BY <1>1 DEF FlattenSeq
<1>3. f = [i \in 1..m |-> Body(f, i)]
  <2>1. f = [i \in 1..m |-> f[i]]
    BY DEF Joins
  <2> QED BY <2>1 DEF Joins
<1>4. flat = [i \in 1..m |-> Body(flat, i)]
  <2> HIDE DEF Body
  <2> QED BY <1>3
<1> HIDE DEF flat
<1>5. \A i \in 1..m : flat[i] = Body(flat, i)
  <2> HIDE DEF Body
  <2> QED BY <1>4
<1> DEFINE Bad == {i \in 1..m : flat[i] # f[i]}
<1>6. Bad = {}
  <2> SUFFICES ASSUME Bad # {} PROVE FALSE
    OBVIOUS
  <2>1. PICK i \in Bad : \A j \in Bad : i <= j
    <3>1. Bad \subseteq 1..m /\ 1..m \subseteq Int /\ IsFiniteSet(1..m)
      BY FS_Interval
    <3>2. IsFiniteSet(Bad) /\ Bad \subseteq Int
      <4> HIDE DEF Bad
      <4> QED BY <3>1, FS_Subset
    <3> HIDE DEF Bad
    <3> QED BY <3>2, LeastExists
  <2>2. i \in 1..m /\ flat[i] # f[i] /\ i \in Int
    BY <2>1
  <2>3. i # 1
    BY <1>5, <2>2 DEF Joins
  <2>4. i - 1 \in 1..m /\ i - 1 < i /\ i - 1 \in Int
    BY <2>2, <2>3
  <2>5. flat[i - 1] = f[i - 1]
    <3>1. i - 1 \notin Bad
      <4> HIDE DEF Bad
      <4> QED BY <2>1, <2>2, <2>4
    <3> QED BY <2>4, <3>1
  <2> QED BY <1>5, <2>2, <2>3, <2>5 DEF Joins
<1>7. m \in 1..m
  BY <1>1
<1> QED BY <1>2, <1>6, <1>7

LEMMA FlattenAppend ==
  ASSUME NEW S, NEW ss \in Seq(Seq(S)), NEW s \in Seq(S)
  PROVE  /\ FlattenSeq(ss) \in Seq(S)
         /\ FlattenSeq(Append(ss, s)) = FlattenSeq(ss) \o s
<1> DEFINE n == Len(ss)
           tt == Append(ss, s)
<1>1. PICK f : Joins(f, ss, n, S)
  BY JoinsExist
<1>2. n \in Nat /\ tt \in Seq(Seq(S)) /\ Len(tt) = n + 1 /\ tt[n + 1] = s
      /\ \A i \in 1..n : tt[i] = ss[i]
  OBVIOUS
<1>3. Joins(f, tt, n, S)
  <2> HIDE DEF tt, n
  <2> QED BY <1>1, <1>2 DEF Joins
<1> DEFINE h == [i \in 1..(n + 1) |->
                   IF i \in 1..n THEN f[i] ELSE IF n = 0 THEN tt[i] ELSE f[n] \o tt[i]]
<1>4. Joins(h, tt, n + 1, S)
  <2> HIDE DEF tt, n
  <2> QED BY <1>2, <1>3, JoinsExtend
<1>5. h[n + 1] = IF n = 0 THEN s ELSE f[n] \o s
  <2>1. n + 1 \in 1..(n + 1) /\ n + 1 \notin 1..n
    BY <1>2
  <2> HIDE DEF tt, n
  <2> QED BY <1>2, <2>1
<1>6. FlattenSeq(tt) = h[n + 1]
  <2> HIDE DEF tt, h
  <2> QED BY <1>2, <1>4, FlattenIs
<1>7. CASE n = 0
  <2>1. FlattenSeq(ss) = ss /\ ss = << >>
    BY <1>7 DEF FlattenSeq
  <2>2. << >> \o s = s
    OBVIOUS
  <2> QED BY <1>5, <1>6, <1>7, <2>1, <2>2
<1>8. CASE n # 0
  <2>1. n \in 1..n
    BY <1>2, <1>8
  <2>2. FlattenSeq(ss) = f[n] /\ f[n] \in Seq(S)
    <3>1. FlattenSeq(ss) = f[n]
      BY <1>1, <1>8, FlattenIs
    <3> QED BY <1>1, <2>1, <3>1 DEF Joins
  <2> QED BY <1>5, <1>6, <1>8, <2>2
<1> QED BY <1>7, <1>8

(* A row takes at least its field count.                                   *)
LEMMA RowBytesTyped ==
  ASSUME NEW row \in Seq(Int)
  PROVE  RowBytes(row) \in Nat /\ RowBytes(row) >= CountBytes
<1> DEFINE f == [i \in DOMAIN row |-> LengthBytes + (IF row[i] >= 0 THEN row[i] ELSE 0)]
<1>1. CountBytes \in Nat /\ LengthBytes \in Nat
  BY CopyStreamAssumption
<1>2. IsFiniteSet(DOMAIN row) /\ \A i \in DOMAIN row : row[i] \in Int
  <2>1. DOMAIN row = 1..Len(row) /\ Len(row) \in Nat
    OBVIOUS
  <2> QED BY <2>1, FS_Interval
<1>3. f \in [DOMAIN row -> Nat]
  BY <1>1, <1>2
<1>4. SumFunction(f) \in Nat
  <2> HIDE DEF f
  <2>1. \A i \in DOMAIN row : f[i] \in Nat
    BY <1>3
  <2>2. PICK g : Sums(g, DOMAIN row, f, 0)
    BY <1>2, <2>1, SumsExist
  <2>3. SumFunction(f) = g[DOMAIN row]
    BY <1>2, <1>3, <2>2, SumFunctionIs
  <2>4. DOMAIN row \in SUBSET DOMAIN row
    OBVIOUS
  <2> QED BY <2>2, <2>3, <2>4 DEF Sums
<1>5. RowBytes(row) = CountBytes + SumFunction(f)
  BY DEF RowBytes
<1> HIDE DEF f
<1> QED BY <1>1, <1>4, <1>5

(* Where the rows of a stream end: each row after the one before it.       *)
LEMMA RowsFollow ==
  ASSUME layout \in Layouts
  PROVE  /\ Len(layout) \in Nat /\ AfterRow(0) = HeaderBytes
         /\ \A n \in 0..Len(layout) : /\ AfterRow(n) \in Nat
                                      /\ AfterRow(n) <= AfterRow(Len(layout))
         /\ \A n \in 0..Len(layout) : n # Len(layout) =>
              /\ RowBytes(layout[n + 1]) \in Nat \ {0}
              /\ AfterRow(n + 1) = AfterRow(n) + RowBytes(layout[n + 1])
<1> DEFINE m == Len(layout)
           f == [r \in DOMAIN layout |-> RowBytes(layout[r])]
<1>1. m \in Nat /\ DOMAIN layout = 1..m /\ \A r \in 1..m : layout[r] \in Seq(Int)
  BY CopyStreamAssumption
<1>2. IsFiniteSet(1..m) /\ HeaderBytes \in Nat /\ CountBytes \in Nat \ {0}
  BY <1>1, FS_Interval, CopyStreamAssumption
<1>3. \A r \in 1..m : f[r] = RowBytes(layout[r]) /\ f[r] \in Nat \ {0}
  BY <1>1, <1>2, RowBytesTyped
<1>4. \A n : AfterRow(n) = HeaderBytes + SumFunctionOnSet(f, 1..n)
  BY DEF AfterRow
<1> HIDE DEF f, m
<1>5. PICK g : Sums(g, 1..m, f, 0)
  BY <1>2, <1>3, SumsExist
<1>6. ASSUME NEW n \in 0..m
      PROVE  /\ 1..n \in SUBSET (1..m)
             /\ AfterRow(n) = HeaderBytes + g[1..n] /\ g[1..n] \in Nat
  <2>1. 1..n \subseteq 1..m
    BY <1>1
  <2>2. SumFunctionOnSet(f, 1..n) = g[1..n] /\ g[1..n] \in Nat
    BY <1>2, <1>5, <2>1, SumOnSubset
  <2> QED BY <1>4, <2>1, <2>2
<1>7. m \in 0..m /\ 0 \in 0..m
  BY <1>1
<1>8. AfterRow(0) = HeaderBytes
  <2>1. 1..0 = {}
    OBVIOUS
  <2>2. g[1..0] = 0
    BY <1>5, <2>1 DEF Sums
  <2> QED BY <1>2, <1>6, <1>7, <2>2
<1>9. ASSUME NEW n \in 0..m
      PROVE  AfterRow(n) \in Nat /\ AfterRow(n) <= AfterRow(m)
  <2>1. g[1..n] <= g[1..m]
    <3>1. 1..n \subseteq 1..m
      BY <1>6
    <3> QED BY <1>2, <1>3, <1>5, <1>6, <1>7, <3>1, SumsMonotone
  <2> QED BY <1>2, <1>6, <1>7, <2>1
<1>10. ASSUME NEW n \in 0..m, n # m
       PROVE  /\ RowBytes(layout[n + 1]) \in Nat \ {0}
              /\ AfterRow(n + 1) = AfterRow(n) + RowBytes(layout[n + 1])
  <2>1. n + 1 \in 1..m /\ n + 1 \in 0..m /\ n + 1 \in 1..(n + 1)
    BY <1>1, <1>10
  <2>2. (1..(n + 1)) \ {n + 1} = 1..n
    OBVIOUS
  <2>3. g[1..(n + 1)] = f[n + 1] + g[1..n]
    <3>1. 1..(n + 1) \in SUBSET (1..m)
      BY <1>6, <2>1
    <3>2. \A x \in 1..(n + 1) : g[1..(n + 1)] = f[x] + g[(1..(n + 1)) \ {x}]
      BY <1>5, <3>1 DEF Sums
    <3> QED BY <2>1, <2>2, <3>2
  <2> QED BY <1>2, <1>3, <1>6, <2>1, <2>3
<1> QED BY <1>1, <1>8, <1>9, <1>10 DEF m

(* What StreamInOrder needs to be inductive: what was consumed is the  *)
(* header, the rows that were parsed and, once it was seen, the trailer,   *)
(* and a reader that waits has consumed all that it could.                 *)
StreamInv ==
  /\ StreamTypeOK
  /\ used = IF opened THEN AfterRow(parsed) + (IF complete THEN CountBytes ELSE 0) ELSE 0
  /\ opened \/ (parsed = 0 /\ ~complete)
  /\ complete => parsed = Len(layout)
  /\ loop = "recv" => ~RowThere /\ ~TrailerThere
  /\ StreamInOrder

(* What the constants and the invariant say of the numbers.                *)
LEMMA StreamFacts ==
  ASSUME StreamInv
  PROVE  /\ HeaderBytes \in Nat /\ CountBytes \in Nat \ {0} /\ BatchRows \in Nat \ {0}
         /\ Len(layout) \in Nat /\ parsed \in 0..Len(layout)
         /\ StreamBytes \in Nat /\ got \in Nat /\ used \in Nat /\ used <= got /\ got <= StreamBytes
         /\ AfterRow(parsed) \in Nat
         /\ Start = AfterRow(parsed) + (IF complete THEN CountBytes ELSE 0)
         /\ HeaderThere => Start <= got
         /\ ~AtTrailer => /\ RowBytes(layout[parsed + 1]) \in Nat \ {0}
                          /\ AfterRow(parsed + 1) = AfterRow(parsed) + RowBytes(layout[parsed + 1])
                          /\ parsed + 1 \in 0..Len(layout) /\ ~complete
<1>1. /\ HeaderBytes \in Nat /\ CountBytes \in Nat \ {0} /\ BatchRows \in Nat \ {0}
      /\ layout \in Layouts /\ parsed \in 0..Len(layout) /\ got \in 0..StreamBytes /\ used \in 0..got
  BY CopyStreamAssumption DEF StreamInv, StreamTypeOK
<1>2. /\ Len(layout) \in Nat /\ AfterRow(0) = HeaderBytes
      /\ AfterRow(parsed) \in Nat /\ AfterRow(Len(layout)) \in Nat
  BY <1>1, RowsFollow
<1>3. StreamBytes \in Nat
  BY <1>1, <1>2 DEF StreamBytes
<1>4. Start = AfterRow(parsed) + (IF complete THEN CountBytes ELSE 0)
  BY <1>1, <1>2 DEF Start, StreamInv
<1>5. HeaderThere => Start <= got
  BY <1>1, <1>3 DEF HeaderThere, Start
<1>6. ~AtTrailer => /\ RowBytes(layout[parsed + 1]) \in Nat \ {0}
                    /\ AfterRow(parsed + 1) = AfterRow(parsed) + RowBytes(layout[parsed + 1])
                    /\ parsed + 1 \in 0..Len(layout) /\ ~complete
  BY <1>1, <1>2, RowsFollow DEF AtTrailer, StreamInv
<1> QED BY <1>1, <1>2, <1>3, <1>4, <1>5, <1>6

(* The stream does not change while it is read.                            *)
LEMMA StreamStable ==
  ASSUME layout' = layout
  PROVE  StreamBytes' = StreamBytes /\ \A n : AfterRow(n)' = AfterRow(n)
BY DEF StreamBytes, AfterRow

(* The loop starts with nothing consumed ...                               *)
LEMMA InitStreamInv == layout \in Layouts /\ StreamInit => StreamInv
<1> SUFFICES ASSUME layout \in Layouts, StreamInit PROVE StreamInv
  OBVIOUS
<1>1. /\ HeaderBytes \in Nat /\ CountBytes \in Nat \ {0} /\ BatchRows \in Nat \ {0}
      /\ Len(layout) \in Nat /\ AfterRow(Len(layout)) \in Nat /\ AfterRow(0) = HeaderBytes
      /\ \A n \in 0..Len(layout) : n # Len(layout) => RowBytes(layout[n + 1]) \in Nat \ {0}
  BY CopyStreamAssumption, RowsFollow
<1>2. StreamTypeOK
  <2>1. StreamBytes \in Nat
    BY <1>1 DEF StreamBytes
  <2>2. 0 \in 0..StreamBytes /\ 0 \in 0..Len(layout) /\ 0 \in 0..0
    BY <1>1, <2>1
  <2>3. << >> \in Seq(Nat) /\ << >> \in Seq(Seq(Nat))
    OBVIOUS
  <2>4. /\ got = 0 /\ used = 0 /\ parsed = 0 /\ opened \in BOOLEAN /\ complete \in BOOLEAN
        /\ batch = << >> /\ sent = << >> /\ loop = "recv"
    BY DEF StreamInit
  <2> QED BY <2>2, <2>3, <2>4 DEF StreamTypeOK
<1>3. ~RowThere /\ ~TrailerThere
  <2>1. got = 0 /\ used = 0 /\ parsed = 0 /\ opened = FALSE
    BY DEF StreamInit
  <2>2. Start = HeaderBytes
    BY <1>1, <2>1 DEF Start
  <2>3. ~AtTrailer => RowBytes(layout[1]) \in Nat \ {0}
    BY <1>1, <2>1 DEF AtTrailer
  <2> QED BY <1>1, <2>1, <2>2, <2>3 DEF RowThere, TrailerThere
<1>4. StreamInOrder
  <2>1. FlattenSeq(sent) = << >> /\ batch = << >> /\ parsed = 0
    BY DEF StreamInit, FlattenSeq
  <2>2. << >> \o << >> = [r \in 1..0 |-> r]
    OBVIOUS
  <2> QED BY <1>1, <1>3, <2>1, <2>2 DEF StreamInit, StreamInOrder
<1> QED BY <1>2, <1>3, <1>4 DEF StreamInit, StreamInv

LEMMA AppendBehind ==
  ASSUME NEW a \in Seq(Nat), NEW b \in Seq(Nat), NEW n \in Nat
  PROVE  a \o Append(b, n) = Append(a \o b, n)
OBVIOUS

(* ... a row that is taken is the next one ...                             *)
LEMMA TakeRowInOrder == StreamInv /\ TakeRow => StreamInv'
<1> SUFFICES ASSUME StreamInv, TakeRow PROVE StreamInv'
  OBVIOUS
<1> DEFINE rows == Append(batch, parsed + 1)
<1>1. /\ loop = "parse" /\ RowThere /\ opened' = TRUE /\ parsed' = parsed + 1
      /\ used' = Start + RowBytes(layout[parsed + 1])
      /\ UNCHANGED <<layout, got, complete, loop>>
      /\ \/ Len(rows) >= BatchRows /\ sent' = Append(sent, rows) /\ batch' = << >>
         \/ ~(Len(rows) >= BatchRows) /\ batch' = rows /\ sent' = sent
  BY DEF TakeRow
<1>2. ~AtTrailer /\ HeaderThere /\ got - Start >= RowBytes(layout[parsed + 1])
  BY <1>1 DEF RowThere
<1>3. /\ batch \in Seq(Nat) /\ sent \in Seq(Seq(Nat)) /\ parsed \in Nat
      /\ rows \in Seq(Nat) /\ Len(batch) < BatchRows
      /\ FlattenSeq(sent) \o batch = [r \in 1..parsed |-> r]
  BY StreamFacts DEF StreamInv, StreamTypeOK, StreamInOrder
<1>4. used' = AfterRow(parsed') /\ used' \in 0..got /\ ~complete /\ parsed' \in 0..Len(layout)
  <2>1. /\ Start = AfterRow(parsed) /\ ~complete /\ parsed + 1 \in 0..Len(layout)
        /\ AfterRow(parsed) \in Nat /\ RowBytes(layout[parsed + 1]) \in Nat /\ got \in Nat
        /\ AfterRow(parsed + 1) = AfterRow(parsed) + RowBytes(layout[parsed + 1])
    BY <1>2, StreamFacts
  <2>2. used' = AfterRow(parsed + 1) /\ parsed' = parsed + 1
    BY <1>1, <2>1
  <2>3. AfterRow(parsed + 1) \in 0..got
    BY <1>2, <2>1
  <2> QED BY <2>1, <2>2, <2>3
<1>5. AfterRow(parsed)' = AfterRow(parsed')
  BY <1>1 DEF AfterRow
<1>6. FlattenSeq(sent') \o batch' = [r \in 1..parsed' |-> r]
  <2>1. PICK flat \in Seq(Nat) : flat = FlattenSeq(sent)
    BY <1>3, FlattenAppend
  <2>2. flat \o rows = [r \in 1..(parsed + 1) |-> r]
    <3>1. flat \o rows = Append(flat \o batch, parsed + 1)
      BY <1>3, <2>1, AppendBehind
    <3>2. Append([r \in 1..parsed |-> r], parsed + 1) = [r \in 1..(parsed + 1) |-> r]
      BY <1>3
    <3> QED BY <1>3, <2>1, <3>1, <3>2
  <2>3. (flat \o rows) \o << >> = flat \o rows
    BY <1>3, <2>1
  <2>4. FlattenSeq(Append(sent, rows)) = flat \o rows
    <3> HIDE DEF rows
    <3> QED BY <1>3, <2>1, FlattenAppend
  <2> HIDE DEF rows
  <2> QED BY <1>1, <2>1, <2>2, <2>3, <2>4
<1>7. /\ batch' \in Seq(Nat) /\ sent' \in Seq(Seq(Nat)) /\ Len(batch') < BatchRows
  <2>1. Len(rows) \in Nat /\ BatchRows \in Nat \ {0} /\ Append(sent, rows) \in Seq(Seq(Nat))
    BY <1>3, StreamFacts
  <2>2. << >> \in Seq(Nat) /\ Len(<< >>) = 0
    OBVIOUS
  <2>3. CASE Len(rows) >= BatchRows
    <3>1. sent' = Append(sent, rows) /\ batch' = << >>
      BY <1>1, <2>3
    <3> QED BY <2>1, <2>2, <3>1
  <2>4. CASE ~(Len(rows) >= BatchRows)
    <3>1. sent' = sent /\ batch' = rows
      BY <1>1, <2>4
    <3> HIDE DEF rows
    <3> QED BY <1>3, <2>1, <2>4, <3>1
  <2> QED BY <2>3, <2>4
<1>8. StreamTypeOK'
  BY <1>1, <1>4, <1>7, StreamStable DEF StreamTypeOK, StreamInv
<1>9. StreamInOrder'
  BY <1>1, <1>4, <1>6, <1>7 DEF StreamInOrder
<1> QED BY <1>1, <1>4, <1>5, <1>8, <1>9 DEF StreamInv

(* ... a reader that waits has taken all there is ...                      *)
LEMMA NoRowIsLeft == StreamInv /\ NoRow => StreamInv'
<1> SUFFICES ASSUME StreamInv, NoRow PROVE StreamInv'
  OBVIOUS
<1>1. /\ loop = "parse" /\ ~RowThere /\ loop' = "recv"
      /\ opened' = HeaderThere
      /\ used' = IF HeaderThere THEN Start + (IF TrailerThere THEN CountBytes ELSE 0) ELSE used
      /\ complete' = (complete \/ TrailerThere)
      /\ UNCHANGED <<layout, got, parsed, batch, sent>>
  BY DEF NoRow
<1>2. /\ AfterRow(parsed)' = AfterRow(parsed) /\ AtTrailer' = AtTrailer
      /\ RowBytes(layout[parsed + 1])' = RowBytes(layout[parsed + 1])
  BY <1>1 DEF AfterRow, AtTrailer, RowBytes
<1>3. opened' \in BOOLEAN /\ complete' \in BOOLEAN /\ opened \in BOOLEAN /\ complete \in BOOLEAN
  <2>1. opened \in BOOLEAN /\ complete \in BOOLEAN
    BY DEF StreamInv, StreamTypeOK
  <2> QED BY <1>1, <2>1 DEF HeaderThere, TrailerThere
<1>4. CASE ~HeaderThere
  <2>1. ~TrailerThere /\ ~opened
    BY <1>4 DEF TrailerThere, HeaderThere
  <2>2. opened' = FALSE /\ used' = used /\ complete' = complete
    BY <1>1, <1>3, <1>4, <2>1
  <2>3. ~HeaderThere'
    BY <1>1, <1>4, <2>2 DEF HeaderThere
  <2>4. ~RowThere' /\ ~TrailerThere'
    BY <2>3 DEF RowThere, TrailerThere
  <2>5. StreamTypeOK'
    BY <1>1, <1>3, <2>2, StreamStable DEF StreamTypeOK, StreamInv
  <2>6. StreamInOrder'
    BY <1>1, <2>2, <2>4 DEF StreamInOrder, StreamInv
  <2> QED BY <1>1, <1>2, <2>1, <2>2, <2>4, <2>5, <2>6 DEF StreamInv
<1>5. CASE HeaderThere
  <2>1. opened' = TRUE /\ Start' = used'
    BY <1>1, <1>3, <1>5 DEF Start
  <2>2. /\ Start = AfterRow(parsed) + (IF complete THEN CountBytes ELSE 0)
        /\ Start <= got /\ got \in Nat /\ CountBytes \in Nat /\ AfterRow(parsed) \in Nat
    BY <1>5, StreamFacts
  <2>3. CASE TrailerThere
    <3>1. ~complete /\ AtTrailer /\ got - Start >= CountBytes /\ complete' = TRUE
      BY <1>1, <1>3, <2>3 DEF TrailerThere
    <3>2. used' = AfterRow(parsed) + CountBytes /\ used' \in 0..got
      BY <1>1, <1>5, <2>2, <2>3, <3>1
    <3>3. ~RowThere' /\ ~TrailerThere'
      BY <1>2, <3>1 DEF RowThere, TrailerThere
    <3>4. StreamTypeOK'
      BY <1>1, <1>3, <3>2, StreamStable DEF StreamTypeOK, StreamInv
    <3>5. StreamInOrder'
      BY <1>1, <3>2, <3>3 DEF StreamInOrder, StreamInv
    <3> QED BY <1>1, <1>2, <2>1, <3>1, <3>2, <3>3, <3>4, <3>5 DEF StreamInv, AtTrailer
  <2>4. CASE ~TrailerThere
    <3>1. used' = Start /\ complete' = complete
      BY <1>1, <1>3, <1>5, <2>2, <2>4
    <3>2. used' \in 0..got
      BY <2>2, <3>1
    <3>3. ~RowThere'
      BY <1>1, <1>2, <1>5, <2>1, <3>1 DEF RowThere
    <3>4. ~TrailerThere'
      BY <1>1, <1>2, <1>5, <2>1, <2>4, <3>1 DEF TrailerThere
    <3>5. StreamTypeOK'
      BY <1>1, <1>3, <3>2, StreamStable DEF StreamTypeOK, StreamInv
    <3>6. StreamInOrder'
      BY <1>1, <3>2, <3>3 DEF StreamInOrder, StreamInv
    <3> QED BY <1>1, <1>2, <2>1, <2>2, <3>1, <3>3, <3>4, <3>5, <3>6 DEF StreamInv
  <2> QED BY <2>3, <2>4
<1> QED BY <1>4, <1>5

(* ... and at the end of the stream that is all of it.                     *)
LEMMA EndIsComplete == StreamInv /\ EndOfStream => StreamInv'
<1> SUFFICES ASSUME StreamInv, EndOfStream PROVE StreamInv'
  OBVIOUS
<1>1. /\ loop = "recv" /\ got = StreamBytes /\ loop' = "done" /\ batch' = << >>
      /\ sent' = (IF batch = << >> THEN sent ELSE Append(sent, batch))
      /\ UNCHANGED <<layout, got, used, opened, complete, parsed>>
  BY DEF EndOfStream
<1>2. ~RowThere /\ ~TrailerThere
  BY <1>1 DEF StreamInv
<1>3. /\ AfterRow(Len(layout)) \in Nat /\ HeaderBytes <= AfterRow(Len(layout))
      /\ ~AtTrailer => AfterRow(parsed + 1) <= AfterRow(Len(layout))
  <2>1. layout \in Layouts
    BY DEF StreamInv, StreamTypeOK
  <2>2. 0 \in 0..Len(layout)
    BY StreamFacts
  <2> QED BY <2>1, <2>2, RowsFollow, StreamFacts
<1>4. got = AfterRow(Len(layout)) + CountBytes
  BY <1>1 DEF StreamBytes
<1>5. HeaderThere
  <2>1. ~opened => used = 0
    BY DEF StreamInv
  <2> QED BY <1>3, <1>4, <2>1, StreamFacts DEF HeaderThere
<1>6. AtTrailer
  <2>1. ASSUME ~AtTrailer
        PROVE  RowThere
    <3>1. Start = AfterRow(parsed)
      BY <2>1, StreamFacts
    <3>2. /\ AfterRow(parsed) \in Nat /\ RowBytes(layout[parsed + 1]) \in Nat /\ CountBytes \in Nat
          /\ AfterRow(parsed + 1) = AfterRow(parsed) + RowBytes(layout[parsed + 1])
      BY <2>1, StreamFacts
    <3>3. got - Start >= RowBytes(layout[parsed + 1])
      BY <1>3, <1>4, <2>1, <3>1, <3>2
    <3> QED BY <1>5, <2>1, <3>3 DEF RowThere
  <2> QED BY <1>2, <2>1
<1>7. complete
  <2>1. ASSUME ~complete
        PROVE  TrailerThere
    <3>1. Start = AfterRow(Len(layout))
      BY <1>6, <2>1, StreamFacts DEF AtTrailer
    <3> QED BY <1>3, <1>4, <1>5, <1>6, <2>1, <3>1, StreamFacts DEF TrailerThere
  <2> QED BY <1>2, <2>1
<1>8. parsed = Len(layout) /\ opened /\ used = got
  <2>1. parsed = Len(layout) /\ opened
    BY <1>6, <1>7 DEF AtTrailer, StreamInv
  <2> QED BY <1>4, <1>7, <2>1 DEF StreamInv
<1>9. /\ batch \in Seq(Nat) /\ sent \in Seq(Seq(Nat))
      /\ FlattenSeq(sent) \o batch = [r \in 1..parsed |-> r]
  BY DEF StreamInv, StreamTypeOK, StreamInOrder
<1>10. FlattenSeq(sent') \o batch' = [r \in 1..parsed |-> r]
  <2>1. FlattenSeq(sent) \in Seq(Nat) /\ FlattenSeq(Append(sent, batch)) = FlattenSeq(sent) \o batch
    BY <1>9, FlattenAppend
  <2>2. CASE batch = << >>
    BY <1>1, <1>9, <2>2
  <2>3. CASE batch # << >>
    <3>1. PICK flat \in Seq(Nat) : flat = FlattenSeq(sent)
      BY <2>1
    <3>2. (flat \o batch) \o << >> = flat \o batch
      BY <1>9
    <3> QED BY <1>1, <1>9, <2>1, <2>3, <3>1, <3>2
  <2> QED BY <2>2, <2>3
<1>11. batch' \in Seq(Nat) /\ sent' \in Seq(Seq(Nat)) /\ Len(batch') < BatchRows
  <2>1. Append(sent, batch) \in Seq(Seq(Nat)) /\ << >> \in Seq(Nat) /\ Len(<< >>) = 0
    BY <1>9
  <2> QED BY <1>1, <1>9, <2>1, StreamFacts
<1>12. StreamTypeOK'
  BY <1>1, <1>11, StreamStable DEF StreamTypeOK, StreamInv
<1>13. StreamInOrder'
  BY <1>1, <1>7, <1>8, <1>10, <1>11 DEF StreamInOrder, StreamInv
<1>14. AfterRow(parsed)' = AfterRow(parsed)
  BY <1>1 DEF AfterRow
<1> QED BY <1>1, <1>12, <1>13, <1>14 DEF StreamInv

LEMMA NextStreamInv == StreamInv /\ [StreamNext]_streamVars => StreamInv'
<1> SUFFICES ASSUME StreamInv, [StreamNext]_streamVars PROVE StreamInv'
  OBVIOUS
<1>1. CASE Arrive
  <2>1. /\ loop' = "parse" /\ UNCHANGED <<layout, used, opened, complete, parsed, batch, sent>>
        /\ got' \in 0..StreamBytes /\ got <= got'
    <3>1. PICK n \in Packets : got' = IF got + n < StreamBytes THEN got + n ELSE StreamBytes
      BY <1>1 DEF Arrive
    <3>2. n \in Nat
      BY CopyStreamAssumption
    <3> QED BY <1>1, <3>1, <3>2, StreamFacts DEF Arrive
  <2>2. AfterRow(parsed)' = AfterRow(parsed) /\ StreamBytes' = StreamBytes
    BY <2>1 DEF AfterRow, StreamBytes
  <2>3. used \in 0..got' /\ used <= got'
    BY <2>1, StreamFacts
  <2>4. StreamTypeOK'
    BY <2>1, <2>2, <2>3 DEF StreamTypeOK, StreamInv
  <2>5. StreamInOrder'
    BY <2>1, <2>3 DEF StreamInOrder, StreamInv
  <2> QED BY <2>1, <2>2, <2>4, <2>5 DEF StreamInv
<1>2. CASE StreamBreaks \/ BatchRefused
  <2>1. loop' = "failed" /\ UNCHANGED <<layout, got, used, opened, complete, parsed, batch, sent>>
    BY <1>2 DEF StreamBreaks, BatchRefused
  <2>2. AfterRow(parsed)' = AfterRow(parsed) /\ StreamBytes' = StreamBytes
    BY <2>1 DEF AfterRow, StreamBytes
  <2>3. StreamTypeOK'
    BY <2>1, <2>2 DEF StreamTypeOK, StreamInv
  <2>4. StreamInOrder'
    BY <2>1 DEF StreamInOrder, StreamInv
  <2> QED BY <2>1, <2>2, <2>3, <2>4 DEF StreamInv
<1>3. CASE UNCHANGED streamVars
  BY <1>3
  DEF StreamInv, StreamTypeOK, StreamInOrder, AfterRow, StreamBytes, RowThere, TrailerThere,
      HeaderThere, AtTrailer, Start, streamVars
<1> QED
  BY <1>1, <1>2, <1>3, TakeRowInOrder, NoRowIsLeft, EndIsComplete DEF StreamNext

(* The variables of the copy loop and its parser keep their types, and the *)
(* parser never consumes more than it was given.                           *)
THEOREM StreamTypeCorrect == StreamSpec => []StreamTypeOK
<1>1. StreamInv => StreamTypeOK
  BY DEF StreamInv
<1> QED BY <1>1, InitStreamInv, NextStreamInv, PTL DEF StreamSpec

(* Wherever the network cuts a COPY stream of any rows, into packets of    *)
(* any sizes, BinaryRowParser and the loop around it parse every row once  *)
(* and in order, leave none behind while they wait, and send all of them.  *)
THEOREM CopyKeepsOrder == StreamSpec => []StreamInOrder
<1>1. StreamInv => StreamInOrder
  BY DEF StreamInv
<1> QED BY <1>1, InitStreamInv, NextStreamInv, PTL DEF StreamSpec

(* The table of a column keeps the stream's invariant: what its reader does *)
(* are steps of the stream, and every other part leaves the stream alone.   *)
FlowInv == flow.source = "postgres" => StreamInv

LEMMA FlowSteps ==
  ASSUME [FlowNext]_flowVars, flow.source = "postgres"
  PROVE  flow' = flow /\ [StreamNext]_streamVars
<1>1. CASE Stream
  <2>1. Arrive \/ NoRow \/ EndOfStream \/ TakeRow
    BY <1>1 DEF Stream
  <2> QED BY <1>1, <2>1 DEF Stream, StreamNext
<1>2. CASE ReaderEnds
  <2>1. StreamBreaks \/ BatchRefused \/ UNCHANGED streamVars
    BY <1>2 DEF ReaderEnds
  <2> QED BY <1>2, <2>1 DEF ReaderEnds, StreamNext
<1>3. CASE FetchRows
  BY <1>3 DEF FetchRows
<1>4. CASE WarmUp \/ CreateTable \/ WriteBatch \/ Finish \/ UNCHANGED flowVars
  <2>1. flow' = flow /\ UNCHANGED streamVars
    BY <1>4 DEF WarmUp, CreateTable, WriteBatch, Finish, flowVars
  <2> QED BY <2>1
<1> QED BY <1>1, <1>2, <1>3, <1>4 DEF FlowNext

(* A column of PostgreSQL on its way to any target: whatever is refused,    *)
(* cancelled or broken off, its rows come out of the COPY stream once each  *)
(* and in order, and all of them are sent before its reader is done.        *)
THEOREM FlowKeepsOrder == FlowSpec => []RowsArriveInOrder
<1>1. FlowInit => FlowInv
  BY InitStreamInv, FlowAssumption DEF FlowInit, FlowInv
<1>2. FlowInv /\ [FlowNext]_flowVars => FlowInv'
  <2> SUFFICES ASSUME FlowInv, [FlowNext]_flowVars, flow'.source = "postgres"
               PROVE  StreamInv'
    BY DEF FlowInv
  <2>1. flow' = flow
    BY DEF FlowNext, flowVars, WarmUp, CreateTable, Stream, ReaderEnds, FetchRows, WriteBatch, Finish
  <2>2. StreamInv /\ [StreamNext]_streamVars
    BY <2>1, FlowSteps DEF FlowInv
  <2> QED BY <2>2, NextStreamInv
<1>3. FlowInv => RowsArriveInOrder
  BY DEF FlowInv, StreamInv, RowsArriveInOrder
<1> QED BY <1>1, <1>2, <1>3, PTL DEF FlowSpec
=============================================================================
