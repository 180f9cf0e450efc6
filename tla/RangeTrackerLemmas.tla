------------------------ MODULE RangeTrackerLemmas ------------------------
(***************************************************************************)
(* What the operators of KeysetPaging and RangeTracker guarantee for every *)
(* finite set of keys and every finite set of recorded ranges.             *)
(***************************************************************************)
EXTENDS RangeTracker, FiniteSetTheorems, WellFoundedInduction, TLAPS

-----------------------------------------------------------------------------
Below(S, x) == {y \in S : y < x}
Above(S, x) == {y \in S : y > x}

(* A finite, non-empty set of integers has a least element.                *)
LEMMA LeastExists ==
  ASSUME NEW S, S \subseteq Int, IsFiniteSet(S), S # {}
  PROVE  \E x \in S : \A y \in S : x <= y
<1> DEFINE T == {Below(S, x) : x \in S}
           R == StrictSubsetOrdering(S)
<1>1. IsWellFoundedOn(R, FiniteSubsetsOf(S))
  BY FS_StrictSubsetOrderingWellFounded
<1>2. T \subseteq FiniteSubsetsOf(S)
  BY FS_FiniteSubsetsOfFinite DEF Below
<1>3. T # {}
  OBVIOUS
<1>4. PICK B \in T : \A C \in T : <<C, B>> \notin R
  <2> HIDE DEF T, R
  <2> QED BY <1>1, <1>2, <1>3, WFMin
<1>5. PICK x \in S : B = Below(S, x)
  OBVIOUS
<1>6. ASSUME NEW y \in S, y < x
      PROVE  FALSE
  <2>1. Below(S, y) \subseteq B /\ Below(S, y) # B
    <3>1. y \in B
      BY <1>5, <1>6 DEF Below
    <3>2. y \notin Below(S, y)
      <4>1. y \in Int
        OBVIOUS
      <4> QED BY <4>1 DEF Below
    <3>3. ASSUME NEW z \in S, z < y
          PROVE  z < x
      <4>1. x \in Int /\ y \in Int /\ z \in Int
        OBVIOUS
      <4> QED BY <4>1, <3>3, <1>6
    <3> HIDE DEF T, R
    <3> QED BY <3>1, <3>2, <3>3, <1>5 DEF Below
  <2>2. <<Below(S, y), B>> \in R
    BY <2>1, <1>5 DEF StrictSubsetOrdering, Below
  <2> QED BY <2>2, <1>4, <1>6
<1> QED BY <1>6

(* Likewise a greatest one, which the community Max needs.                 *)
LEMMA GreatestExists ==
  ASSUME NEW S, S \subseteq Int, IsFiniteSet(S), S # {}
  PROVE  \E x \in S : \A y \in S : x >= y
<1> DEFINE T == {Above(S, x) : x \in S}
           R == StrictSubsetOrdering(S)
<1>1. IsWellFoundedOn(R, FiniteSubsetsOf(S))
  BY FS_StrictSubsetOrderingWellFounded
<1>2. T \subseteq FiniteSubsetsOf(S)
  BY FS_FiniteSubsetsOfFinite DEF Above
<1>3. T # {}
  OBVIOUS
<1>4. PICK B \in T : \A C \in T : <<C, B>> \notin R
  <2> HIDE DEF T, R
  <2> QED BY <1>1, <1>2, <1>3, WFMin
<1>5. PICK x \in S : B = Above(S, x)
  OBVIOUS
<1>6. ASSUME NEW y \in S, y > x
      PROVE  FALSE
  <2>1. Above(S, y) \subseteq B /\ Above(S, y) # B
    <3>1. y \in B
      BY <1>5, <1>6 DEF Above
    <3>2. y \notin Above(S, y)
      <4>1. y \in Int
        OBVIOUS
      <4> QED BY <4>1 DEF Above
    <3>3. ASSUME NEW z \in S, z > y
          PROVE  z > x
      <4>1. x \in Int /\ y \in Int /\ z \in Int
        OBVIOUS
      <4> QED BY <4>1, <3>3, <1>6
    <3> HIDE DEF T, R
    <3> QED BY <3>1, <3>2, <3>3, <1>5 DEF Above
  <2>2. <<Above(S, y), B>> \in R
    BY <2>1, <1>5 DEF StrictSubsetOrdering, Above
  <2> QED BY <2>2, <1>4, <1>6
<1> QED BY <1>6

(* Min and Max of such a set are its least and its greatest element.       *)
LEMMA MinIsLeast ==
  ASSUME NEW S, S \subseteq Int, IsFiniteSet(S), S # {}
  PROVE  Min(S) \in S /\ \A y \in S : Min(S) <= y
BY LeastExists, Zenon DEF Min

(* What Max returns of a non-empty finite set of keys.                     *)
LEMMA MaxIsGreatest ==
  ASSUME NEW S, S \subseteq Int, IsFiniteSet(S), S # {}
  PROVE  Max(S) \in S /\ \A y \in S : Max(S) >= y
BY GreatestExists, Zenon DEF Max

(* Of two numbers, Min is the lesser and Max the greater.                  *)
LEMMA LesserAndGreater ==
  ASSUME NEW a \in Int, NEW b \in Int
  PROVE  /\ Min({a, b}) = IF a <= b THEN a ELSE b
         /\ Max({a, b}) = IF a <= b THEN b ELSE a
<1>1. IsFiniteSet({a, b})
  <2>1. IsFiniteSet({a})
    BY FS_Singleton
  <2>2. IsFiniteSet({a} \cup {b})
    BY <2>1, FS_AddElement
  <2>3. {a, b} = {a} \cup {b}
    OBVIOUS
  <2> QED BY <2>2, <2>3
<1>2. Min({a, b}) \in {a, b} /\ \A y \in {a, b} : Min({a, b}) <= y
  BY <1>1, MinIsLeast
<1>3. Max({a, b}) \in {a, b} /\ \A y \in {a, b} : Max({a, b}) >= y
  BY <1>1, MaxIsGreatest
<1>4. Min({a, b}) = IF a <= b THEN a ELSE b
  BY <1>2
<1>5. Max({a, b}) = IF a <= b THEN b ELSE a
  BY <1>3
<1> QED BY <1>4, <1>5

-----------------------------------------------------------------------------

(* A keyset chunk holds only selected keys, ...                            *)
LEMMA ChunkSelected ==
  ASSUME NEW keys, NEW last, NEW firstChunk, NEW max, NEW n
  PROVE  /\ KeysetChunk(keys, last, firstChunk, max, n) \subseteq keys
         /\ \A k \in KeysetChunk(keys, last, firstChunk, max, n) :
               Selects(k, last, firstChunk, max)
BY DEF KeysetChunk, Limit

(* ... and every selected key up to its last one: a query skips nothing.   *)
LEMMA ChunkSkipsNothing ==
  ASSUME NEW keys, keys \subseteq Int, IsFiniteSet(keys),
         NEW last \in Opt(Int), NEW firstChunk \in BOOLEAN, NEW max \in Opt(Int),
         NEW n \in Nat,
         NEW k \in keys, NEW e \in KeysetChunk(keys, last, firstChunk, max, n),
         k <= e, Selects(k, last, firstChunk, None)
  PROVE  k \in KeysetChunk(keys, last, firstChunk, max, n)
<1> DEFINE S == {j \in keys : Selects(j, last, firstChunk, max)}
<1>1. /\ S \subseteq Int /\ IsFiniteSet(S)
      /\ e \in S /\ Cardinality(Below(S, e)) < n
  BY FS_Subset DEF KeysetChunk, Limit, Below
<1>2. k \in S
  BY <1>1, NoneAssumption DEF Selects, Opt
<1>3. Below(S, k) \subseteq Below(S, e) /\ IsFiniteSet(Below(S, e))
  <2>1. ASSUME NEW z \in S, z < k
        PROVE  z < e
    <3>1. z \in Int /\ k \in Int /\ e \in Int
      BY <1>1
    <3> QED BY <3>1, <2>1
  <2> QED BY <2>1, <1>1, FS_Subset DEF Below
<1>4. Cardinality(Below(S, k)) <= Cardinality(Below(S, e))
  BY <1>3, FS_Subset
<1>5. Cardinality(Below(S, k)) < n
  <2>1. Cardinality(Below(S, k)) \in Nat /\ Cardinality(Below(S, e)) \in Nat
    BY <1>3, FS_Subset, FS_CardinalityType
  <2> QED BY <2>1, <1>4, <1>1
<1> QED BY <1>2, <1>5 DEF KeysetChunk, Limit, Below

(* What a query leaves behind.  An empty answer: nothing was selected.     *)
LEMMA EmptyChunkIsEnd ==
  ASSUME NEW keys, keys \subseteq Int, IsFiniteSet(keys),
         NEW last, NEW firstChunk, NEW max, NEW n \in Nat \ {0},
         KeysetChunk(keys, last, firstChunk, max, n) = {}
  PROVE  \A k \in keys : ~Selects(k, last, firstChunk, max)
<1> DEFINE S == {k \in keys : Selects(k, last, firstChunk, max)}
<1> SUFFICES ASSUME S # {} PROVE FALSE
  OBVIOUS
<1>1. S \subseteq Int /\ IsFiniteSet(S)
  BY FS_Subset
<1>2. PICK m \in S : \A j \in S : m <= j
  BY <1>1, LeastExists
<1>3. {j \in S : j < m} = {}
  BY <1>1, <1>2
<1>4. m \in Limit(S, n)
  BY <1>2, <1>3, FS_EmptySet DEF Limit
<1> QED BY <1>4 DEF KeysetChunk

(* A chunk shorter than chunk_size: nothing is left beyond it.             *)
LEMMA ShortChunkIsLast ==
  ASSUME NEW keys, keys \subseteq Int, IsFiniteSet(keys),
         NEW last, NEW firstChunk, NEW max, NEW n \in Nat \ {0},
         KeysetChunk(keys, last, firstChunk, max, n) # {},
         Cardinality(KeysetChunk(keys, last, firstChunk, max, n)) < n,
         NEW k \in keys, Selects(k, last, firstChunk, max)
  PROVE  k <= Max(KeysetChunk(keys, last, firstChunk, max, n))
<1> DEFINE S == {j \in keys : Selects(j, last, firstChunk, max)}
           C == Limit(S, n)
           R == {j \in S : j > Max(C)}
<1>1. S \subseteq Int /\ IsFiniteSet(S) /\ k \in S
  BY FS_Subset
<1>2. C \subseteq S /\ C # {} /\ Cardinality(C) < n
  BY DEF KeysetChunk, Limit
<1>3. C \subseteq Int /\ IsFiniteSet(C)
  BY <1>1, <1>2, FS_Subset
<1>4. Max(C) \in Int /\ \A j \in C : Max(C) >= j
  BY <1>2, <1>3, MaxIsGreatest
<1>5. R = {}
  <2> SUFFICES ASSUME R # {} PROVE FALSE
    OBVIOUS
  <2>1. R \subseteq Int /\ IsFiniteSet(R)
    BY <1>1, FS_Subset
  <2>2. PICK m \in R : \A j \in R : m <= j
    BY <2>1, LeastExists
  <2>3. m \in S /\ m \notin C
    BY <1>1, <1>4, <2>2
  <2>4. {j \in S : j < m} \subseteq {j \in S : j <= Max(C)}
    BY <1>1, <1>4, <2>2
  <2>5. {j \in S : j < m} \subseteq C
    <3> SUFFICES ASSUME NEW j \in S, j < m PROVE j \in C
      OBVIOUS
    <3>1. j \in Int /\ j <= Max(C) /\ Max(C) \in C
      BY <1>1, <1>2, <1>3, <2>4, MaxIsGreatest
    <3>2. {i \in S : i < j} \subseteq {i \in S : i < Max(C)}
      BY <1>1, <1>4, <3>1
    <3>3. IsFiniteSet({i \in S : i < Max(C)}) /\ Cardinality({i \in S : i < Max(C)}) < n
      BY <1>1, <3>1, FS_Subset DEF C, Limit
    <3>4. Cardinality({i \in S : i < j}) <= Cardinality({i \in S : i < Max(C)})
      BY <3>2, <3>3, FS_Subset
    <3>5. Cardinality({i \in S : i < j}) \in Nat /\ Cardinality({i \in S : i < Max(C)}) \in Nat
      BY <1>1, FS_Subset, FS_CardinalityType
    <3> HIDE DEF S
    <3> QED BY <3>3, <3>4, <3>5 DEF Limit
  <2>6. Cardinality({j \in S : j < m}) <= Cardinality(C)
    BY <1>3, <2>5, FS_Subset
  <2>7. Cardinality({j \in S : j < m}) \in Nat /\ Cardinality(C) \in Nat
    BY <1>1, <1>3, FS_Subset, FS_CardinalityType
  <2>8. Cardinality({j \in S : j < m}) < n
    BY <1>2, <2>6, <2>7
  <2> HIDE DEF S
  <2> QED BY <2>3, <2>8 DEF Limit
<1> HIDE DEF C
<1>6. k <= Max(C)
  BY <1>1, <1>4, <1>5
<1> QED BY <1>6 DEF C, KeysetChunk

(* The readers' ranges: the first one starts where the job starts, and a   *)
(* later reader of a fresh job starts above the tracker's start.           *)
RangeType == [from : Opt(Int), fresh : BOOLEAN, to : Opt(Int)]

(* split_pk_range returns at least one range; all but the first begin      *)
(* above min, so that only one reader can start at the lower bound.        *)
LEMMA SplitFacts ==
  ASSUME NEW min \in Int, NEW max \in Int, NEW n \in Nat \ {0}
  PROVE  \E m \in Nat \ {0} :
           /\ SplitPkRange(min, max, n) \in [1..m -> [lo : Int, hi : Int]]
           /\ \A i \in 2..m : SplitPkRange(min, max, n)[i].lo > min
           /\ n = 1 => m = 1
<1> DEFINE size == (max - min) \div n
<1>1. CASE n <= 1 \/ max <= min \/ size < 1
  <2>1. SplitPkRange(min, max, n) = << [lo |-> min, hi |-> max] >>
    BY <1>1 DEF SplitPkRange
  <2> WITNESS 1 \in Nat \ {0}
  <2> QED BY <2>1
<1>2. CASE ~(n <= 1 \/ max <= min \/ size < 1)
  <2> DEFINE f == [i \in 1..n |-> [lo |-> min + (i - 1) * size,
                                   hi |-> IF i = n THEN max ELSE min + i * size]]
  <2>1. SplitPkRange(min, max, n) = f
    BY <1>2 DEF SplitPkRange
  <2>2. size \in Int /\ size >= 1
    <3>1. size \in Int
      OBVIOUS
    <3> QED BY <3>1, <1>2
  <2> HIDE DEF size
  <2>3. ASSUME NEW i \in 1..n
        PROVE  /\ (i - 1) * size \in Int /\ i * size \in Int
               /\ i >= 2 => (i - 1) * size >= 1
    <3>1. i \in Int /\ i >= 1
      OBVIOUS
    <3> QED BY <3>1, <2>2
  <2>4. f \in [1..n -> [lo : Int, hi : Int]]
    BY <2>3
  <2>5. ASSUME NEW i \in 2..n
        PROVE  f[i].lo > min
    <3>1. i \in 1..n /\ i >= 2
      OBVIOUS
    <3>2. f[i].lo = min + (i - 1) * size
      BY <3>1
    <3> QED BY <3>1, <3>2, <2>3
  <2> WITNESS n \in Nat \ {0}
  <2> HIDE DEF f
  <2> QED BY <2>1, <2>4, <2>5, <1>2
<1> QED BY <1>1, <1>2

(* split_pk_range leaves no gap: every key up to max is above the lower    *)
(* end of one of the ranges, or in the first, and up to its higher end.    *)
LEMMA SplitTiles ==
  ASSUME NEW min \in Int, NEW max \in Int, NEW n \in Nat \ {0},
         NEW k \in Int, k <= max
  PROVE  \E i \in DOMAIN SplitPkRange(min, max, n) :
           /\ i = 1 \/ SplitPkRange(min, max, n)[i].lo < k
           /\ k <= SplitPkRange(min, max, n)[i].hi
<1> DEFINE size == (max - min) \div n
<1>1. CASE n <= 1 \/ max <= min \/ size < 1
  <2>1. SplitPkRange(min, max, n) = << [lo |-> min, hi |-> max] >>
    BY <1>1 DEF SplitPkRange
  <2> QED BY <2>1
<1>2. CASE ~(n <= 1 \/ max <= min \/ size < 1)
  <2> DEFINE f == [i \in 1..n |-> [lo |-> min + (i - 1) * size,
                                   hi |-> IF i = n THEN max ELSE min + i * size]]
             T == {i \in 1..n : k <= f[i].hi}
  <2>1. SplitPkRange(min, max, n) = f
    BY <1>2 DEF SplitPkRange
  <2>2. n \in T /\ T \subseteq Int
    OBVIOUS
  <2>3. IsFiniteSet(T)
    <3>1. T \subseteq 1..n /\ IsFiniteSet(1..n)
      BY FS_Interval
    <3> HIDE DEF T
    <3> QED BY <3>1, FS_Subset
  <2>4. PICK i \in T : \A j \in T : i <= j
    BY <2>2, <2>3, LeastExists
  <2>5. ASSUME i # 1
        PROVE  f[i].lo < k
    <3>1. i - 1 \in 1..n /\ i - 1 \notin T /\ i - 1 # n
      <4>1. i \in 1..n
        OBVIOUS
      <4> HIDE DEF T
      <4> QED BY <2>4, <2>5, <4>1
    <3>2. f[i - 1].hi = min + (i - 1) * size
      BY <3>1
    <3>3. f[i].lo = min + (i - 1) * size
      BY <2>4
    <3>4. min + (i - 1) * size \in Int
      OBVIOUS
    <3> QED BY <3>1, <3>2, <3>3, <3>4
  <2> QED BY <2>1, <2>4, <2>5
<1> QED BY <1>1, <1>2

(* The plan of a job: one reader unless it is a parallel keyset job, the   *)
(* first at the resume point or min_pk, the others above the start of the  *)
(* range tracker (unless the job resumes).                                 *)
LEMMA PlanFacts ==
  ASSUME NEW keys, keys \subseteq Int, IsFiniteSet(keys), NEW job \in JobType
  PROVE  \E m \in Nat \ {0} :
           /\ ReaderRanges(job, keys) \in [1..m -> RangeType]
           /\ job.paging # "keyset" => m = 1
           /\ ReaderRanges(job, keys)[1].fresh <=> (job.paging = "offset" \/ job.resume_from_pk = None)
           /\ job.paging # "offset" =>
                ReaderRanges(job, keys)[1].from = OrElse(job.resume_from_pk, job.min_pk)
           /\ \A i \in 2..m :
                \/ job.resume_from_pk # None
                \/ /\ ReaderRanges(job, keys)[i].from # None
                   /\ ReaderRanges(job, keys)[i].from >
                        TrackerStart(OrElse(job.resume_from_pk, job.min_pk))
<1>1. CASE ~IsParallel(job)
  <2>1. ReaderRanges(job, keys) = << SingleRange(job) >>
    BY <1>1 DEF ReaderRanges, PlannedRanges
  <2>2. SingleRange(job) \in RangeType
    BY NoneAssumption DEF SingleRange, RangeType, JobType, OrElse, Opt
  <2>3. SingleRange(job).fresh <=> (job.paging = "offset" \/ job.resume_from_pk = None)
    BY Zenon DEF SingleRange
  <2>4. job.paging # "offset" => SingleRange(job).from = OrElse(job.resume_from_pk, job.min_pk)
    BY DEF SingleRange
  <2>5. << SingleRange(job) >> \in [1..1 -> RangeType] /\ << SingleRange(job) >>[1] = SingleRange(job)
    BY <2>2
  <2> WITNESS 1 \in Nat \ {0}
  <2> QED BY <2>1, <2>3, <2>4, <2>5
<1>2. CASE IsParallel(job)
  <2> DEFINE lo == IF job.min_pk = None THEN 0 ELSE job.min_pk
             hi == IF job.max_pk # None THEN job.max_pk
                   ELSE IF keys = {} THEN 0 ELSE Max(keys)
             n  == IF job.min_pk # None \/ job.partitioned THEN 1 ELSE job.readers
             s  == SplitPkRange(lo, hi, n)
             p  == [i \in DOMAIN s |->
                      IF i = 1 THEN [from  |-> OrElse(job.resume_from_pk, job.min_pk),
                                     fresh |-> job.resume_from_pk = None,
                                     to    |-> s[1].hi]
                      ELSE [from |-> s[i].lo, fresh |-> FALSE, to |-> s[i].hi]]
  <2>1. ReaderRanges(job, keys) = p
    BY <1>2 DEF ReaderRanges, PlannedRanges, ParallelRanges
  <2>2. lo \in Int /\ n \in Nat \ {0}
    <3>1. job.min_pk \in Opt(Int) /\ job.readers \in Nat \ {0}
      BY DEF JobType
    <3> QED BY <3>1 DEF Opt
  <2>3. hi \in Int
    <3>1. job.max_pk \in Opt(Int)
      BY DEF JobType
    <3>2. keys # {} => Max(keys) \in Int
      BY MaxIsGreatest
    <3> QED BY <3>1, <3>2 DEF Opt
  <2> HIDE DEF lo, hi, n
  <2>4. PICK m \in Nat \ {0} : /\ s \in [1..m -> [lo : Int, hi : Int]]
                               /\ \A i \in 2..m : s[i].lo > lo
                               /\ n = 1 => m = 1
    BY <2>2, <2>3, SplitFacts
  <2> HIDE DEF s
  <2>5. OrElse(job.resume_from_pk, job.min_pk) \in Opt(Int)
    BY DEF JobType, OrElse
  <2>6. p \in [1..m -> RangeType]
    BY <2>4, <2>5 DEF RangeType, Opt
  <2>7. \A i \in 2..m : p[i].from = s[i].lo /\ p[i].from \in Int /\ p[i].from > lo
    BY <2>4
  <2>8. job.resume_from_pk = None /\ m # 1
          => TrackerStart(OrElse(job.resume_from_pk, job.min_pk)) = lo
    BY <2>4, NoneAssumption DEF TrackerStart, OrElse, n, lo
  <2>9. /\ p[1].fresh <=> (job.resume_from_pk = None)
        /\ p[1].from = OrElse(job.resume_from_pk, job.min_pk)
    <3>1. 1 \in DOMAIN s
      BY <2>4
    <3> QED BY <3>1, Zenon
  <2> HIDE DEF p
  <2>10. job.paging = "keyset"
    BY <1>2 DEF IsParallel
  <2> WITNESS m \in Nat \ {0}
  <2> QED BY <2>1, <2>6, <2>7, <2>8, <2>9, <2>10, NoneAssumption
<1> QED BY <1>1, <1>2
-----------------------------------------------------------------------------
(* The quotient of two naturals.                                           *)
LEMMA Quotient ==
  ASSUME NEW a \in Nat, NEW b \in Nat \ {0}
  PROVE  /\ a \div b \in Nat /\ a % b \in 0..(b - 1)
         /\ a = b * (a \div b) + (a % b)
OBVIOUS

(* split_pk_range: no range reaches beyond max, nor into a later one.      *)
LEMMA SplitOrdered ==
  ASSUME NEW min \in Int, NEW max \in Int, NEW n \in Nat \ {0}
  PROVE  LET s == SplitPkRange(min, max, n)
         IN  /\ \A i \in DOMAIN s : i \in Int /\ s[i].lo \in Int /\ s[i].hi \in Int /\ s[i].hi <= max
             /\ \A i, j \in DOMAIN s : i < j => s[i].hi <= s[j].lo
             /\ 1 \in DOMAIN s /\ 0 \notin DOMAIN s
             /\ n = 1 => DOMAIN s = {1} /\ s[1].hi = max
<1> DEFINE size == (max - min) \div n
           s == SplitPkRange(min, max, n)
<1>1. CASE n <= 1 \/ max <= min \/ size < 1
  <2>1. s = << [lo |-> min, hi |-> max] >>
    BY <1>1 DEF SplitPkRange
  <2> QED BY <2>1
<1>2. CASE ~(n <= 1 \/ max <= min \/ size < 1)
  <2> DEFINE f == [i \in 1..n |-> [lo |-> min + (i - 1) * size,
                                   hi |-> IF i = n THEN max ELSE min + i * size]]
  <2>1. s = f
    BY <1>2 DEF SplitPkRange
  <2>2. size \in Nat /\ n * size <= max - min
    <3> DEFINE a == max - min
    <3>1. a \in Nat
      BY <1>2
    <3> HIDE DEF a
    <3>2. a \div n \in Nat /\ a % n \in Nat /\ a = n * (a \div n) + (a % n)
      BY <3>1, Quotient
    <3>3. a \div n \in Nat /\ n * (a \div n) <= a
      BY <3>1, <3>2
    <3> QED BY <3>3 DEF a
  <2> HIDE DEF size, s
  <2>3. ASSUME NEW i \in Nat, NEW j \in Nat, i <= j
        PROVE  i * size \in Nat /\ j * size \in Nat /\ i * size <= j * size
    BY <2>2, <2>3
  <2>4. \A i \in 1..n : f[i].lo = min + (i - 1) * size
                        /\ f[i].hi = IF i = n THEN max ELSE min + i * size
    OBVIOUS
  <2>5. DOMAIN f = 1..n /\ 1 \in 1..n /\ 0 \notin 1..n
    OBVIOUS
  <2> HIDE DEF f
  <2>6. ASSUME NEW i \in 1..n
        PROVE  i \in Int /\ f[i].lo \in Int /\ f[i].hi \in Int /\ f[i].hi <= max
    <3>1. i \in Nat /\ i - 1 \in Nat /\ i <= n
      OBVIOUS
    <3>2. i * size \in Nat /\ (i - 1) * size \in Nat /\ i * size <= n * size /\ n * size \in Nat
      BY <2>3, <3>1
    <3> QED BY <2>2, <2>4, <3>1, <3>2
  <2>7. ASSUME NEW i \in 1..n, NEW j \in 1..n, i < j
        PROVE  f[i].hi <= f[j].lo
    <3>1. i \in Nat /\ j - 1 \in Nat /\ i <= j - 1 /\ i # n
      BY <2>7
    <3>2. i * size \in Nat /\ (j - 1) * size \in Nat /\ i * size <= (j - 1) * size
      BY <2>3, <3>1
    <3> QED BY <2>4, <3>1, <3>2
  <2> QED BY <1>2, <2>1, <2>5, <2>6, <2>7 DEF s
<1> QED BY <1>1, <1>2

(* Key k is within the bounds b of a job.                                  *)
Within(b, k) == (b.min # None => k >= b.min) /\ (b.max # None => k <= b.max)

(* The keys a reader that starts on the range x selects.                   *)
Claims(x, k) == Selects(k, x.from, x.fresh, x.to)

BoundOf(job) == [min |-> job.min_pk, max |-> job.max_pk]

(* The readers of a fresh keyset job: each stays within the job's bounds,  *)
(* no key is claimed twice, and every row within the bounds is claimed.    *)
LEMMA ReadersTile ==
  ASSUME NEW keys, keys \subseteq Int, IsFiniteSet(keys), NEW job \in JobType,
         job.paging = "keyset", job.resume_from_pk = None
  PROVE  LET R == ReaderRanges(job, keys)
         IN  /\ \A r \in DOMAIN R : R[r] \in RangeType
             /\ 0 \notin DOMAIN R
             /\ \A r \in DOMAIN R, k \in Int : Claims(R[r], k) => Within(BoundOf(job), k)
             /\ \A r, s \in DOMAIN R : r # s => \A k \in Int : ~(Claims(R[r], k) /\ Claims(R[s], k))
             /\ \A k \in keys : Within(BoundOf(job), k) => \E r \in DOMAIN R : Claims(R[r], k)
<1> DEFINE R == ReaderRanges(job, keys)
<1>0. /\ job.min_pk \in Opt(Int) /\ job.max_pk \in Opt(Int) /\ job.readers \in Nat \ {0}
      /\ BoundOf(job).min = job.min_pk /\ BoundOf(job).max = job.max_pk
  BY DEF JobType, BoundOf
<1>1. PICK m \in Nat \ {0} : R \in [1..m -> RangeType]
  BY PlanFacts
<1>2. DOMAIN R = 1..m /\ 0 \notin 1..m /\ \A r \in 1..m : R[r] \in RangeType
  BY <1>1
<1>3. CASE ~IsParallel(job)
  <2>1. R = << SingleRange(job) >>
    BY <1>3 DEF ReaderRanges, PlannedRanges
  <2>2. DOMAIN R = {1} /\ R[1] = SingleRange(job)
    BY <2>1
  <2>3. R[1].from = job.min_pk /\ R[1].fresh /\ R[1].to = job.max_pk
    <3>1. SingleRange(job).fresh <=> (job.paging = "offset" \/ job.resume_from_pk = None)
      BY Zenon DEF SingleRange
    <3>2. SingleRange(job).fresh
      BY <3>1
    <3>3. SingleRange(job).from = job.min_pk /\ SingleRange(job).to = job.max_pk
      BY DEF SingleRange, OrElse
    <3> HIDE DEF R
    <3> QED BY <2>2, <3>2, <3>3
  <2> HIDE DEF R
  <2>4. \A k \in Int : Claims(R[1], k) <=> Within(BoundOf(job), k)
    BY <1>0, <2>3, NoneAssumption DEF Claims, Selects, Within, Opt
  <2> QED BY <1>2, <2>2, <2>4 DEF R
<1>4. CASE IsParallel(job)
  <2> DEFINE lo == IF job.min_pk = None THEN 0 ELSE job.min_pk
             hi == IF job.max_pk # None THEN job.max_pk
                   ELSE IF keys = {} THEN 0 ELSE Max(keys)
             n  == IF job.min_pk # None \/ job.partitioned THEN 1 ELSE job.readers
             s  == SplitPkRange(lo, hi, n)
             p  == [i \in DOMAIN s |->
                      IF i = 1 THEN [from  |-> OrElse(job.resume_from_pk, job.min_pk),
                                     fresh |-> job.resume_from_pk = None,
                                     to    |-> s[1].hi]
                      ELSE [from |-> s[i].lo, fresh |-> FALSE, to |-> s[i].hi]]
  <2>1. R = p
    BY <1>4 DEF ReaderRanges, PlannedRanges, ParallelRanges
  <2>2. lo \in Int /\ n \in Nat \ {0} /\ (n # 1 => job.min_pk = None)
    BY <1>0 DEF Opt
  <2>3. /\ hi \in Int /\ (job.max_pk # None => hi = job.max_pk)
        /\ \A k \in keys : Within(BoundOf(job), k) => k <= hi
    <3>1. keys # {} => Max(keys) \in Int /\ \A k \in keys : k <= Max(keys)
      <4>1. keys # {} => Max(keys) \in keys /\ \A k \in keys : Max(keys) >= k
        BY MaxIsGreatest
      <4>2. \A k \in keys : k \in Int
        OBVIOUS
      <4> QED BY <4>1, <4>2
    <3>2. \A k \in keys : Within(BoundOf(job), k) /\ job.max_pk # None => k <= job.max_pk
      BY <1>0 DEF Within
    <3> QED BY <1>0, <3>1, <3>2 DEF Opt
  <2> HIDE DEF lo, hi, n
  <2>4. /\ \A i \in DOMAIN s : i \in Int /\ s[i].lo \in Int /\ s[i].hi \in Int /\ s[i].hi <= hi
        /\ \A i, j \in DOMAIN s : i < j => s[i].hi <= s[j].lo
        /\ 1 \in DOMAIN s /\ 0 \notin DOMAIN s
        /\ n = 1 => DOMAIN s = {1} /\ s[1].hi = hi
    BY <2>2, <2>3, SplitOrdered
  <2>5. \A k \in Int : k <= hi => \E i \in DOMAIN s : (i = 1 \/ s[i].lo < k) /\ k <= s[i].hi
    BY <2>2, <2>3, SplitTiles
  <2> HIDE DEF s
  <2>6. /\ DOMAIN R = DOMAIN s
        /\ R[1].from = job.min_pk /\ R[1].fresh = TRUE /\ R[1].to = s[1].hi
        /\ \A i \in DOMAIN s \ {1} : R[i].from = s[i].lo /\ R[i].fresh = FALSE /\ R[i].to = s[i].hi
    <3>1. OrElse(job.resume_from_pk, job.min_pk) = job.min_pk
      BY DEF OrElse
    <3> HIDE DEF R
    <3> QED BY <2>1, <2>4, <3>1
  <2> HIDE DEF R
  <2>7. ASSUME NEW i \in DOMAIN s, NEW k \in Int
        PROVE  Claims(R[i], k) <=> /\ i = 1 => (job.min_pk # None => k >= job.min_pk)
                                   /\ i # 1 => k > s[i].lo
                                   /\ k <= s[i].hi
    <3>1. R[i].to = s[i].hi /\ s[i].hi # None /\ s[i].lo # None
      BY <2>4, <2>6, NoneAssumption
    <3>2. CASE i = 1
      BY <1>0, <2>4, <2>6, <3>1, <3>2, NoneAssumption DEF Claims, Selects, Opt
    <3>3. CASE i # 1
      BY <2>4, <2>6, <3>1, <3>3 DEF Claims, Selects
    <3> QED BY <3>2, <3>3
  <2>8. ASSUME NEW i \in DOMAIN s, NEW k \in Int, Claims(R[i], k)
        PROVE  Within(BoundOf(job), k)
    <3>1. k <= hi
      BY <2>3, <2>4, <2>7, <2>8
    <3>2. job.min_pk # None => k >= job.min_pk
      BY <2>2, <2>4, <2>7, <2>8
    <3> QED BY <1>0, <2>3, <3>1, <3>2 DEF Within
  <2>9. ASSUME NEW i \in DOMAIN s, NEW j \in DOMAIN s, i < j, NEW k \in Int,
               Claims(R[i], k), Claims(R[j], k)
        PROVE  FALSE
    <3>1. k <= s[i].hi
      BY <2>7, <2>9
    <3>2. j = 1 \/ k > s[j].lo
      BY <2>7, <2>9
    <3>3. j # 1
      <4>1. n # 1
        BY <2>4, <2>9
      <4>2. CASE j = 1
        <5>1. i \in Int /\ i < 1 /\ i # 0
          BY <2>4, <2>9, <4>2
        <5>2. i \in 1..m
          BY <1>2, <2>6
        <5> QED BY <5>1, <5>2
      <4> QED BY <4>2
    <3> QED BY <2>4, <2>9, <3>1, <3>2, <3>3
  <2>10. ASSUME NEW i \in DOMAIN s, NEW j \in DOMAIN s, i # j, NEW k \in Int,
                Claims(R[i], k), Claims(R[j], k)
         PROVE  FALSE
    <3>1. i < j \/ j < i
      BY <2>4, <2>10
    <3> QED BY <2>9, <2>10, <3>1
  <2>11. ASSUME NEW k \in keys, Within(BoundOf(job), k)
         PROVE  \E i \in DOMAIN s : Claims(R[i], k)
    <3>1. k \in Int /\ k <= hi
      BY <2>3, <2>11
    <3>2. PICK i \in DOMAIN s : (i = 1 \/ s[i].lo < k) /\ k <= s[i].hi
      BY <2>5, <3>1
    <3>3. job.min_pk # None => k >= job.min_pk
      BY <1>0, <2>11 DEF Within
    <3> QED BY <2>4, <2>7, <3>1, <3>2, <3>3
  <2> QED BY <1>2, <2>6, <2>8, <2>10, <2>11 DEF R
<1> QED BY <1>3, <1>4
-----------------------------------------------------------------------------
(* The tracker's map.                                                      *)
TrackedRanges(ranges) ==
  /\ ranges \in [DOMAIN ranges -> Int]
  /\ DOMAIN ranges \subseteq Int
  /\ IsFiniteSet(DOMAIN ranges)

(* The ends of some of the ranges, with the start, have a largest one.     *)
LEMMA EndsMax ==
  ASSUME NEW ranges, TrackedRanges(ranges), NEW start \in Int,
         NEW D, D \subseteq DOMAIN ranges
  PROVE  LET E == {start} \cup {ranges[b] : b \in D}
         IN  Max(E) \in E /\ \A y \in E : y \in Int /\ Max(E) >= y
<1> DEFINE F == {ranges[b] : b \in D}
           E == {start} \cup F
<1>1. IsFiniteSet(D)
  BY FS_Subset DEF TrackedRanges
<1>2. IsFiniteSet(F)
  <2>1. [b \in D |-> ranges[b]] \in Surjection(D, F)
    BY DEF Surjection
  <2> QED BY <1>1, <2>1, FS_Surjection
<1>3. IsFiniteSet(E)
  BY <1>2, FS_Singleton, FS_Union
<1>4. E \subseteq Int /\ E # {}
  BY DEF TrackedRanges
<1> HIDE DEF E
<1>5. Max(E) \in E /\ \A y \in E : Max(E) >= y
  BY <1>3, <1>4, MaxIsGreatest
<1> QED BY <1>4, <1>5 DEF E

(* add_range keeps the tracker a finite map from keys to keys.             *)
LEMMA AddRangeTracked ==
  ASSUME NEW ranges, TrackedRanges(ranges), NEW start \in Int,
         NEW first \in Opt(Int), NEW last \in Opt(Int)
  PROVE  TrackedRanges(AddRange(ranges, start, first, last))
<1>1. CASE last = None
  BY <1>1 DEF AddRange
<1>2. CASE last # None
  <2> DEFINE key == OrElse(first, start)
  <2>1. key \in Int /\ last \in Int
    BY <1>2 DEF OrElse, Opt
  <2> HIDE DEF key
  <2> DEFINE g == [a \in DOMAIN ranges \cup {key} |-> IF a = key THEN last ELSE ranges[a]]
  <2>2. AddRange(ranges, start, first, last) = g
    BY <1>2 DEF AddRange, key
  <2>3. DOMAIN g = DOMAIN ranges \cup {key} /\ g \in [DOMAIN g -> Int]
    BY <2>1 DEF TrackedRanges
  <2>4. IsFiniteSet(DOMAIN ranges \cup {key})
    BY FS_AddElement DEF TrackedRanges
  <2> HIDE DEF g
  <2> QED BY <2>1, <2>2, <2>3, <2>4 DEF TrackedRanges
<1> QED BY <1>1, <1>2

(* Every key between the start and the safe end lies in a recorded range.  *)
LEMMA SafeEndCovered ==
  ASSUME NEW ranges, TrackedRanges(ranges), NEW start \in Int,
         NEW k \in Int, start < k, k <= SafeEnd(ranges, start)
  PROVE  Covered(ranges, k)
<1> DEFINE C == Contiguous(ranges, start)
           A == {a \in C : k <= ranges[a]}
<1>1. C \subseteq DOMAIN ranges
  BY DEF Contiguous
<1>2. PICK c \in C : k <= ranges[c]
  <2> DEFINE E == {start} \cup {ranges[b] : b \in C}
  <2>1. Max(E) \in E
    BY <1>1, EndsMax
  <2>2. SafeEnd(ranges, start) = Max(E)
    BY DEF SafeEnd
  <2> HIDE DEF C
  <2>3. k <= Max(E)
    BY <2>2
  <2>4. Max(E) = start \/ \E b \in C : Max(E) = ranges[b]
    BY <2>1
  <2> HIDE DEF E
  <2> QED BY <2>3, <2>4
<1>3. A \subseteq Int /\ IsFiniteSet(A) /\ A # {}
  BY <1>1, <1>2, FS_Subset DEF TrackedRanges
<1>4. PICK a \in A : \A b \in A : a <= b
  BY <1>3, LeastExists
<1>5. a \in DOMAIN ranges /\ a \in Int /\ k <= ranges[a]
  BY <1>1, <1>3, <1>4
<1>6. CASE a < k
  BY <1>5, <1>6 DEF Covered
<1>7. CASE k <= a
  <2> DEFINE D == {b \in DOMAIN ranges : b < a}
             E == {start} \cup {ranges[b] : b \in D}
  <2>1. a <= Max(E)
    BY <1>4, <1>5 DEF Contiguous, EndBefore
  <2>2. Max(E) \in E
    BY EndsMax
  <2>3. PICK b \in D : Max(E) = ranges[b]
    <3>1. Max(E) # start
      BY <1>5, <1>7, <2>1
    <3> HIDE DEF D
    <3>2. Max(E) \in {ranges[b] : b \in D}
      BY <2>2, <3>1
    <3> HIDE DEF E
    <3> QED BY <3>2
  <2> HIDE DEF E
  <2>4. b \in DOMAIN ranges /\ b < a /\ b \in Int /\ ranges[b] \in Int
    BY <2>3 DEF TrackedRanges
  <2>5. k <= ranges[b]
    BY <1>5, <1>7, <2>1, <2>3, <2>4
  <2>6. b \in C
    <3>1. ASSUME NEW x \in DOMAIN ranges, x <= b
          PROVE  x <= EndBefore(ranges, start, x)
      <4>1. x \in Int /\ x <= a
        BY <3>1, <2>4, <1>5 DEF TrackedRanges
      <4> QED BY <4>1, <1>4 DEF Contiguous
    <3> QED BY <3>1, <2>4 DEF Contiguous
  <2>7. a <= b
    BY <2>5, <2>6, <1>4
  <2> QED BY <2>4, <2>7, <1>5
<1> QED BY <1>5, <1>6, <1>7

(* A safe end beyond the start was reached from a range that does not      *)
(* start above it.                                                         *)
LEMMA SafeEndReached ==
  ASSUME NEW ranges, TrackedRanges(ranges), NEW start \in Int,
         SafeEnd(ranges, start) > start
  PROVE  \E a \in DOMAIN ranges : a <= start /\ ranges[a] > start
<1> DEFINE C == Contiguous(ranges, start)
           A == {a \in C : ranges[a] > start}
<1>1. C \subseteq DOMAIN ranges
  BY DEF Contiguous
<1>2. PICK c \in C : ranges[c] > start
  <2> DEFINE E == {start} \cup {ranges[b] : b \in C}
  <2>1. Max(E) \in E
    BY <1>1, EndsMax
  <2>2. Max(E) > start
    BY DEF SafeEnd
  <2> HIDE DEF C
  <2>3. Max(E) = start \/ \E b \in C : Max(E) = ranges[b]
    BY <2>1
  <2> HIDE DEF E
  <2> QED BY <2>2, <2>3
<1>3. A \subseteq Int /\ IsFiniteSet(A) /\ A # {}
  BY <1>1, <1>2, FS_Subset DEF TrackedRanges
<1>4. PICK a \in A : \A b \in A : a <= b
  BY <1>3, LeastExists
<1>5. a \in DOMAIN ranges /\ a \in Int /\ ranges[a] > start
  BY <1>1, <1>3, <1>4
<1>6. a <= start
  <2> DEFINE D == {b \in DOMAIN ranges : b < a}
             E == {start} \cup {ranges[b] : b \in D}
  <2>1. a <= Max(E)
    BY <1>4, <1>5 DEF Contiguous, EndBefore
  <2>2. Max(E) \in E
    BY EndsMax
  <2>3. ASSUME NEW b \in D, ranges[b] > start
        PROVE  FALSE
    <3>1. b \in DOMAIN ranges /\ b \in Int /\ b < a
      BY DEF TrackedRanges
    <3>2. ASSUME NEW x \in DOMAIN ranges, x <= b
          PROVE  x <= EndBefore(ranges, start, x)
      <4>1. x \in Int /\ x <= a
        BY <3>1, <3>2, <1>5 DEF TrackedRanges
      <4> QED BY <4>1, <1>4 DEF Contiguous
    <3>3. b \in A
      BY <3>1, <3>2, <2>3 DEF Contiguous
    <3>4. a <= b
      BY <3>3, <1>4
    <3> QED BY <3>1, <3>4, <1>5
  <2>4. \A b \in D : ranges[b] \in Int /\ ranges[b] <= start
    <3>1. ASSUME NEW b \in D
          PROVE  ranges[b] \in Int
      BY DEF TrackedRanges
    <3> HIDE DEF D
    <3> QED BY <3>1, <2>3
  <2>5. Max(E) \in Int /\ Max(E) <= start
    <3> HIDE DEF D
    <3>1. Max(E) = start \/ \E b \in D : Max(E) = ranges[b]
      BY <2>2
    <3> HIDE DEF E
    <3> QED BY <3>1, <2>4
  <2> HIDE DEF E
  <2> QED BY <2>1, <2>5, <1>5
<1> QED BY <1>5, <1>6
-----------------------------------------------------------------------------
(***************************************************************************)
(* Sums.  The community modules fold a function over a set in the order in *)
(* which CHOOSE takes its members out; adding numbers, the order is of no  *)
(* account.                                                                *)
(***************************************************************************)
(* A set of subsets of a finite set has one that contains no other.        *)
LEMMA SmallestSubset ==
  ASSUME NEW D, IsFiniteSet(D), NEW B, B \subseteq SUBSET D, B # {}
  PROVE  \E s \in B : \A t \in B : t \subseteq s => t = s
<1> DEFINE R == StrictSubsetOrdering(D)
<1>1. IsWellFoundedOn(R, FiniteSubsetsOf(D))
  BY FS_StrictSubsetOrderingWellFounded
<1>2. B \subseteq FiniteSubsetsOf(D)
  BY FS_FiniteSubsetsOfFinite
<1>3. PICK s \in B : \A t \in B : <<t, s>> \notin R
  <2> HIDE DEF R
  <2> QED BY <1>1, <1>2, WFMin
<1>4. ASSUME NEW t \in B, t \subseteq s, t # s
      PROVE  FALSE
  <2>1. <<t, s>> \in R
    BY <1>4 DEF StrictSubsetOrdering
  <2> QED BY <2>1, <1>3
<1> QED BY <1>4

(* g gives every subset of D the sum of b and of f over it.                *)
Sums(g, D, f, b) ==
  /\ g \in [SUBSET D -> Nat]
  /\ g[{}] = b
  /\ \A s \in SUBSET D : \A x \in s : g[s] = f[x] + g[s \ {x}]

(* One more element, and the sums are still defined: with x, f[x] more.    *)
LEMMA SumsExtend ==
  ASSUME NEW D, NEW f, NEW b \in Nat, NEW x \in D, f[x] \in Nat,
         NEW g, Sums(g, D \ {x}, f, b), \A y \in D : f[y] \in Nat
  PROVE  \E h : Sums(h, D, f, b)
<1> DEFINE h == [s \in SUBSET D |-> IF x \in s THEN f[x] + g[s \ {x}] ELSE g[s]]
<1>1. ASSUME NEW s \in SUBSET D
      PROVE  /\ s \ {x} \in SUBSET (D \ {x}) /\ g[s \ {x}] \in Nat
             /\ x \notin s => s \ {x} = s
             /\ h[s] \in Nat /\ h[s] = IF x \in s THEN f[x] + g[s \ {x}] ELSE g[s]
  <2>1. s \ {x} \in SUBSET (D \ {x}) /\ (x \notin s => s \ {x} = s)
    OBVIOUS
  <2>2. g[s \ {x}] \in Nat
    BY <2>1 DEF Sums
  <2>3. h[s] = IF x \in s THEN f[x] + g[s \ {x}] ELSE g[s]
    OBVIOUS
  <2> HIDE DEF h
  <2> QED BY <2>1, <2>2, <2>3
<1>2. h \in [SUBSET D -> Nat]
  <2>1. h = [s \in SUBSET D |-> h[s]]
    OBVIOUS
  <2> HIDE DEF h
  <2> QED BY <1>1, <2>1
<1>3. h[{}] = b
  <2>1. {} \in SUBSET D /\ x \notin {}
    OBVIOUS
  <2> HIDE DEF h
  <2> QED BY <1>1, <2>1 DEF Sums
<1> HIDE DEF h
<1>4. ASSUME NEW s \in SUBSET D, NEW y \in s
      PROVE  h[s] = f[y] + h[s \ {y}]
  <2>1. s \ {y} \in SUBSET D
    OBVIOUS
  <2>2. CASE y = x
    BY <1>1, <2>1, <2>2
  <2>3. CASE y # x /\ x \notin s
    <3>1. s \in SUBSET (D \ {x}) /\ h[s] = g[s] /\ h[s \ {y}] = g[s \ {y}]
      BY <1>1, <2>1, <2>3
    <3> QED BY <3>1 DEF Sums
  <2>4. CASE y # x /\ x \in s
    <3> DEFINE t == s \ {x}
               u == (s \ {y}) \ {x}
    <3>1. t \in SUBSET (D \ {x}) /\ y \in t /\ t \ {y} = u /\ x \in s \ {y} /\ u \in SUBSET (D \ {x})
      BY <2>4
    <3>2. g[t] = f[y] + g[u]
      <4> HIDE DEF t, u
      <4> QED BY <3>1 DEF Sums
    <3>3. h[s] = f[x] + g[t] /\ h[s \ {y}] = f[x] + g[u]
      BY <1>1, <2>1, <2>4, <3>1
    <3>4. f[x] \in Nat /\ f[y] \in Nat /\ g[u] \in Nat
      BY <3>1 DEF Sums
    <3> HIDE DEF t, u
    <3> QED BY <3>2, <3>3, <3>4
  <2> QED BY <2>2, <2>3, <2>4
<1>5. Sums(h, D, f, b)
  BY <1>2, <1>3, <1>4 DEF Sums
<1> QED BY <1>5

(* The sums of a function over the subsets of a finite set exist.          *)
LEMMA SumsExist ==
  ASSUME NEW D, IsFiniteSet(D), NEW f, \A x \in D : f[x] \in Nat, NEW b \in Nat
  PROVE  \E g : Sums(g, D, f, b)
<1> DEFINE Bad == {s \in SUBSET D : ~ \E g : Sums(g, s, f, b)}
<1> SUFFICES ASSUME Bad # {} PROVE FALSE
  <2>1. D \in SUBSET D
    OBVIOUS
  <2> QED BY <2>1
<1>1. PICK s \in Bad : \A t \in Bad : t \subseteq s => t = s
  <2> HIDE DEF Bad
  <2>1. Bad \subseteq SUBSET D
    BY DEF Bad
  <2> QED BY <2>1, SmallestSubset
<1>2. s \in SUBSET D /\ ~ \E g : Sums(g, s, f, b)
  BY <1>1
<1>3. CASE s = {}
  <2> DEFINE g == [t \in SUBSET {} |-> b]
  <2>1. g \in [SUBSET {} -> Nat] /\ g[{}] = b
    OBVIOUS
  <2>2. \A t \in SUBSET {} : \A x \in t : FALSE
    OBVIOUS
  <2>3. Sums(g, {}, f, b)
    BY <2>1, <2>2 DEF Sums
  <2> QED BY <1>2, <1>3, <2>3
<1>4. CASE s # {}
  <2>1. PICK x \in s : TRUE
    BY <1>4
  <2>2. s \ {x} \in SUBSET D /\ s \ {x} # s /\ s \ {x} \subseteq s
    BY <1>2, <2>1
  <2>3. s \ {x} \notin Bad
    BY <1>1, <2>2
  <2>4. PICK g : Sums(g, s \ {x}, f, b)
    BY <2>2, <2>3
  <2>5. \A y \in s : f[y] \in Nat
    BY <1>2
  <2> HIDE DEF Bad
  <2> QED BY <1>2, <2>1, <2>4, <2>5, SumsExtend
<1> QED BY <1>3, <1>4

(* The community SumFunctionOnSet is the sum ...                           *)
LEMMA SumOnSetIs ==
  ASSUME NEW D, IsFiniteSet(D), NEW f, NEW g, Sums(g, D, f, 0)
  PROVE  SumFunctionOnSet(f, D) = g[D]
<1> DEFINE Body(h, s) == IF s = {} THEN 0
                         ELSE f[CHOOSE y \in s : TRUE] + h[s \ {CHOOSE y \in s : TRUE}]
           iter == CHOOSE h : h = [s \in SUBSET D |-> Body(h, s)]
<1>1. SumFunctionOnSet(f, D) = iter[D]
  BY DEF SumFunctionOnSet, FoldFunctionOnSet, MapThenFoldSet
<1>2. g = [s \in SUBSET D |-> Body(g, s)]
  <2>1. g = [s \in SUBSET D |-> g[s]]
    BY DEF Sums
  <2>2. ASSUME NEW s \in SUBSET D
        PROVE  g[s] = Body(g, s)
    <3>1. s # {} => (CHOOSE y \in s : TRUE) \in s
      OBVIOUS
    <3> QED BY <3>1 DEF Sums
  <2> QED BY <2>1, <2>2
<1>3. iter = [s \in SUBSET D |-> Body(iter, s)]
  <2> HIDE DEF Body
  <2> QED BY <1>2
<1> HIDE DEF iter
<1>4. \A s \in SUBSET D : iter[s] = Body(iter, s)
  <2> HIDE DEF Body
  <2> QED BY <1>3
<1> DEFINE Bad == {s \in SUBSET D : iter[s] # g[s]}
<1>5. Bad = {}
  <2> SUFFICES ASSUME Bad # {} PROVE FALSE
    OBVIOUS
  <2>1. PICK s \in Bad : \A t \in Bad : t \subseteq s => t = s
    <3> HIDE DEF Bad, Body
    <3>1. Bad \subseteq SUBSET D
      BY DEF Bad
    <3> QED BY <3>1, SmallestSubset
  <2>2. s \in SUBSET D /\ iter[s] # g[s] /\ s # {}
    <3>1. s \in SUBSET D /\ iter[s] # g[s]
      BY <2>1
    <3>2. {} \in SUBSET D /\ iter[{}] = 0 /\ g[{}] = 0
      BY <1>4 DEF Sums
    <3> QED BY <3>1, <3>2
  <2> DEFINE x == CHOOSE y \in s : TRUE
  <2>3. x \in s
    BY <2>2
  <2>4. iter[s] = f[x] + iter[s \ {x}]
    BY <1>4, <2>2
  <2> HIDE DEF x, Body
  <2>5. s \ {x} \in SUBSET D /\ s \ {x} # s /\ s \ {x} \subseteq s
    BY <2>2, <2>3
  <2>6. iter[s \ {x}] = g[s \ {x}]
    BY <2>1, <2>5
  <2>7. g[s] = f[x] + g[s \ {x}]
    BY <2>2, <2>3 DEF Sums
  <2> QED BY <2>2, <2>4, <2>6, <2>7
<1>6. iter[D] = g[D]
  <2>1. D \in SUBSET D
    OBVIOUS
  <2> HIDE DEF Body
  <2> QED BY <1>5, <2>1
<1> QED BY <1>1, <1>6

(* ... also over a subset of where the sums are known ...                  *)
LEMMA SumOnSubset ==
  ASSUME NEW D, IsFiniteSet(D), NEW f, NEW g, Sums(g, D, f, 0), NEW S, S \subseteq D
  PROVE  SumFunctionOnSet(f, S) = g[S] /\ g[S] \in Nat
<1> DEFINE h == [s \in SUBSET S |-> g[s]]
<1>1. \A s \in SUBSET S : s \in SUBSET D /\ h[s] = g[s]
  OBVIOUS
<1>2. h \in [SUBSET S -> Nat]
  BY <1>1 DEF Sums
<1> HIDE DEF h
<1>3. ASSUME NEW s \in SUBSET S, NEW x \in s
      PROVE  h[s] = f[x] + h[s \ {x}]
  <2>1. s \ {x} \in SUBSET S
    OBVIOUS
  <2> QED BY <1>1, <2>1 DEF Sums
<1>4. {} \in SUBSET S /\ S \in SUBSET S
  OBVIOUS
<1>5. Sums(h, S, f, 0)
  BY <1>1, <1>2, <1>3, <1>4 DEF Sums
<1>6. SumFunctionOnSet(f, S) = h[S]
  BY <1>5, SumOnSetIs, FS_Subset
<1> QED BY <1>1, <1>2, <1>4, <1>6

(* ... the sums grow with the set ...                                      *)
LEMMA SumsMonotone ==
  ASSUME NEW D, IsFiniteSet(D), NEW f, \A x \in D : f[x] \in Nat, NEW b, NEW g, Sums(g, D, f, b),
         NEW s \in SUBSET D, NEW t \in SUBSET D, s \subseteq t
  PROVE  g[s] <= g[t]
<1> DEFINE Bad == {u \in SUBSET D : s \subseteq u /\ ~(g[s] <= g[u])}
<1> SUFFICES ASSUME Bad # {} PROVE FALSE
  OBVIOUS
<1>1. PICK u \in Bad : \A v \in Bad : v \subseteq u => v = u
  <2> HIDE DEF Bad
  <2>1. Bad \subseteq SUBSET D
    BY DEF Bad
  <2> QED BY <2>1, SmallestSubset
<1>2. u \in SUBSET D /\ s \subseteq u /\ ~(g[s] <= g[u]) /\ g[s] \in Nat /\ g[u] \in Nat
  BY <1>1 DEF Sums
<1>3. PICK x \in u : x \notin s
  BY <1>2
<1>4. /\ u \ {x} \in SUBSET D /\ s \subseteq u \ {x} /\ u \ {x} \subseteq u /\ u \ {x} # u
  BY <1>2, <1>3
<1>5. g[s] <= g[u \ {x}]
  BY <1>1, <1>4
<1>6. g[u] = f[x] + g[u \ {x}] /\ f[x] \in Nat /\ g[u \ {x}] \in Nat
  BY <1>2, <1>3, <1>4 DEF Sums
<1> QED BY <1>2, <1>5, <1>6

(* ... and so is SumFunction, a natural number, which grows by what one of *)
(* its values grows by.                                                    *)
LEMMA SumFunctionIs ==
  ASSUME NEW D, IsFiniteSet(D), NEW f \in [D -> Nat], NEW g, Sums(g, D, f, 0)
  PROVE  SumFunction(f) = g[D]
BY SumOnSetIs DEF SumFunction

LEMMA SumGrows ==
  ASSUME NEW D, IsFiniteSet(D), NEW f \in [D -> Nat], NEW x \in D, NEW n \in Nat
  PROVE  /\ SumFunction(f) \in Nat
         /\ SumFunction([f EXCEPT ![x] = @ + n]) = SumFunction(f) + n
<1> DEFINE e == [f EXCEPT ![x] = @ + n]
<1>1. PICK g : Sums(g, D, f, 0)
  BY SumsExist
<1>2. e \in [D -> Nat] /\ e[x] = f[x] + n /\ \A y \in D \ {x} : e[y] = f[y]
  OBVIOUS
<1> HIDE DEF e
<1> DEFINE h == [s \in SUBSET D |-> g[s] + (IF x \in s THEN n ELSE 0)]
<1>3. \A s \in SUBSET D : g[s] \in Nat /\ h[s] = g[s] + (IF x \in s THEN n ELSE 0)
  BY <1>1 DEF Sums
<1>4. h \in [SUBSET D -> Nat] /\ h[{}] = 0
  <2>1. h[{}] = 0 + 0
    BY <1>1 DEF Sums
  <2>2. h = [s \in SUBSET D |-> h[s]]
    OBVIOUS
  <2> HIDE DEF h
  <2>3. \A s \in SUBSET D : h[s] \in Nat
    BY <1>3
  <2>4. h \in [SUBSET D -> Nat]
    BY <2>2, <2>3, Zenon
  <2> QED BY <2>1, <2>4
<1> HIDE DEF h
<1>5. ASSUME NEW s \in SUBSET D, NEW y \in s
      PROVE  h[s] = e[y] + h[s \ {y}]
  <2>1. s \ {y} \in SUBSET D /\ y \in D /\ g[s] = f[y] + g[s \ {y}]
    BY <1>1 DEF Sums
  <2>2. CASE y = x
    <3>1. h[s] = g[s] + n /\ h[s \ {y}] = g[s \ {y}] + 0
      BY <1>3, <2>1, <2>2
    <3> QED BY <1>2, <1>3, <2>1, <2>2, <3>1
  <2>3. CASE y # x
    <3>1. x \in s <=> x \in s \ {y}
      BY <2>3
    <3>2. e[y] = f[y] /\ f[y] \in Nat /\ g[s \ {y}] \in Nat
      BY <1>2, <1>3, <2>1, <2>3
    <3> QED BY <1>3, <2>1, <3>1, <3>2
  <2> QED BY <2>2, <2>3
<1>6. Sums(h, D, e, 0)
  BY <1>4, <1>5 DEF Sums
<1>7. SumFunction(f) = g[D] /\ SumFunction(e) = h[D]
  BY <1>1, <1>2, <1>6, SumFunctionIs
<1>8. D \in SUBSET D /\ h[D] = g[D] + n /\ g[D] \in Nat
  BY <1>3
<1> QED BY <1>7, <1>8 DEF e

(* Zeros add up to zero.                                                   *)
LEMMA SumOfZeros ==
  ASSUME NEW D, IsFiniteSet(D)
  PROVE  SumFunction([x \in D |-> 0]) = 0
<1> DEFINE f == [x \in D |-> 0]
           g == [s \in SUBSET D |-> 0]
<1>1. f \in [D -> Nat] /\ \A x \in D : f[x] = 0
  OBVIOUS
<1>2. g \in [SUBSET D -> Nat] /\ \A s \in SUBSET D : g[s] = 0
  OBVIOUS
<1> HIDE DEF f, g
<1>3. ASSUME NEW s \in SUBSET D, NEW x \in s
      PROVE  g[s] = f[x] + g[s \ {x}]
  <2>1. s \ {x} \in SUBSET D /\ x \in D
    OBVIOUS
  <2> QED BY <1>1, <1>2, <2>1
<1>4. {} \in SUBSET D /\ D \in SUBSET D
  OBVIOUS
<1>5. Sums(g, D, f, 0)
  BY <1>2, <1>3, <1>4 DEF Sums
<1>6. SumFunction(f) = g[D]
  BY <1>1, <1>5, SumFunctionIs
<1> QED BY <1>2, <1>4, <1>6 DEF f
=============================================================================
