-------------------------- MODULE TargetSchemaProofs --------------------------
(***************************************************************************)
(* First finalize, for every schema, every graph of references and any     *)
(* number of permits: its phases follow one another, its tasks are joined, *)
(* keys come before foreign keys, and the foreign keys of a table after    *)
(* those of the tables it references.  Then what any number of runs make   *)
(* of any schema: nothing stops a run but the foreign keys that runs       *)
(* before it made, and a run that succeeds leaves nothing out of the       *)
(* target but what its drivers cannot create there.                        *)
(***************************************************************************)
EXTENDS TargetSchema, FiniteSetTheorems, WellFoundedInduction, TLAPS


(* How far finalize has come; it gives up in its first phase only.         *)
Rank(ph) ==
  CASE ph = "idle" -> 0 [] ph = "pk" -> 1 [] ph = "err" -> 1 [] ph = "index" -> 2
    [] ph = "fk" -> 3 [] ph = "check" -> 4 [] ph = "sequence" -> 5 [] OTHER -> 6

N == Cardinality(Tables)

(* The tasks of a batch are spawned once each, and none outside a phase.   *)
BatchInv ==
  IF phase \in PhaseNames
  THEN /\ todo \cup running \subseteq Batch(phase, level)
       /\ \A t \in Batch(phase, level) : spawned[phase][t] = IF t \in todo THEN 0 ELSE 1
  ELSE todo = {} /\ running = {}

(* Phases to come have spawned nothing.                                    *)
PhaseInv ==
  /\ phase # "fk" => level = 1
  /\ \A ph \in PhaseNames : Rank(phase) < Rank(ph) => \A t \in Tables : spawned[ph][t] = 0

(* Nor have the levels to come; the foreign keys of those before are done. *)
LevelInv ==
  phase = "fk" =>
    \A n \in 1..N : \A t \in Level(n) :
      /\ level < n => spawned["fk"][t] = 0
      /\ n < level /\ conf.fks[t] # {} => spawned["fk"][t] = 1

(* Beyond the primary keys finalize only comes with all of them.           *)
KeysInv ==
  1 < Rank(phase) =>
    failed = {} /\ (conf.recreate => \A t \in conf.keyed : spawned["pk"][t] = 1)

(* Every non-empty set of naturals has a least element.                    *)
LEMMA LeastNumber ==
  ASSUME NEW S, S \subseteq Nat, S # {}
  PROVE  \E x \in S : \A y \in S : x <= y
<1> DEFINE R == OpToRel(<, Nat)
<1>1. IsWellFoundedOn(R, Nat)
  BY NatLessThanWellFounded
<1>2. \A x, y \in Nat : x < y => <<x, y>> \in R
  BY DEF OpToRel
<1> HIDE DEF R
<1>3. PICK x \in S : \A y \in S : <<y, x>> \notin R
  BY <1>1, WFMin
<1>4. ASSUME NEW y \in S PROVE ~(y < x)
  BY <1>2, <1>3
<1> QED BY <1>4

FinalizeInv == TypeOK /\ BatchInv /\ PhaseInv /\ LevelInv /\ KeysInv
-----------------------------------------------------------------------------
LEMMA TablesCounted == N \in Nat /\ N >= 1
BY FinalizerAssumption, FS_CardinalityType, FS_EmptySet DEF N

(* The next level is made of tables that remain.                           *)
LEMMA LevelRemains ==
  ASSUME NEW R
  PROVE  NextLevel(R) \subseteq R /\ (R # {} => NextLevel(R) # {})
BY DEF NextLevel, Cyclic

(* Remaining is the function its recursive definition describes.           *)
LEMMA RemainingDef ==
  Remaining = [n \in 0..N |-> IF n = 0 THEN Tables
                              ELSE Remaining[n - 1] \ NextLevel(Remaining[n - 1])]
<1> DEFINE Body(g, n) == IF n = 0 THEN Tables ELSE g[n - 1] \ NextLevel(g[n - 1])
           Good(m) == \E g : g = [n \in 0..m |-> Body(g, n)]
           Bad == {m \in Nat : ~Good(m)}
<1>1. Good(0)
  <2> DEFINE h == [n \in 0..0 |-> Tables]
  <2>1. h = [n \in 0..0 |-> Body(h, n)]
    OBVIOUS
  <2> QED BY <2>1
<1>2. ASSUME NEW m \in Nat, Good(m)
      PROVE  Good(m + 1)
  <2>1. PICK g : g = [n \in 0..m |-> Body(g, n)]
    BY <1>2
  <2> DEFINE h == [n \in 0..(m + 1) |-> IF n = m + 1 THEN g[m] \ NextLevel(g[m]) ELSE g[n]]
  <2>2. ASSUME NEW n \in 0..(m + 1)
        PROVE  h[n] = Body(h, n)
    <3>1. CASE n = m + 1
      <4>1. h[m] = g[m] /\ n - 1 = m /\ n # 0
        BY <3>1
      <4> QED BY <3>1, <4>1
    <3>2. CASE n # m + 1
      <4>1. n \in 0..m /\ h[n] = g[n]
        BY <3>2
      <4>2. g[n] = Body(g, n)
        BY <2>1, <4>1
      <4>3. n # 0 => h[n - 1] = g[n - 1]
        BY <3>2
      <4> QED BY <4>1, <4>2, <4>3
    <3> QED BY <3>1, <3>2
  <2>3. h = [n \in 0..(m + 1) |-> Body(h, n)]
    BY <2>2
  <2> HIDE DEF h
  <2> QED BY <2>3
<1>3. Remaining = CHOOSE g : g = [n \in 0..N |-> Body(g, n)]
  BY DEF Remaining, N
<1>4. Good(N)
  <2> HIDE DEF Good
  <2>1. Bad # {} => \E b \in Bad : \A c \in Bad : b <= c
    BY LeastNumber
  <2>2. ASSUME NEW b \in Bad, \A c \in Bad : b <= c
        PROVE  FALSE
    <3>1. b \in Nat /\ b # 0 /\ ~Good(b)
      BY <1>1
    <3>2. b - 1 \in Nat /\ b - 1 \notin Bad
      BY <2>2, <3>1
    <3>3. Good(b - 1)
      BY <3>2
    <3>4. Good((b - 1) + 1)
      BY <1>2, <3>2, <3>3
    <3>5. (b - 1) + 1 = b
      BY <3>1
    <3> QED BY <3>1, <3>4, <3>5
  <2>3. N \in Nat
    BY TablesCounted
  <2> QED BY <2>1, <2>2, <2>3
<1> QED BY <1>3, <1>4

(* What remains shrinks level by level; a table of no level before n       *)
(* remains for it.                                                         *)
LEMMA RemainingFacts ==
  /\ \A n \in 0..N : Remaining[n] \subseteq Tables
  /\ \A n \in 1..N : Remaining[n] = Remaining[n - 1] \ Level(n)
  /\ \A m, n \in 0..N : m <= n => Remaining[n] \subseteq Remaining[m]
  /\ \A n \in 0..N : \A t \in Tables \ Remaining[n] : \E m \in 1..n : t \in Level(m)
<1>0. PICK f : f = Remaining
  OBVIOUS
<1>a. f = [n \in 0..N |-> IF n = 0 THEN Tables ELSE f[n - 1] \ NextLevel(f[n - 1])]
  BY <1>0, RemainingDef
<1>1. Remaining[0] = Tables
  BY <1>0, <1>a, TablesCounted
<1>2. ASSUME NEW n \in 1..N PROVE Remaining[n] = Remaining[n - 1] \ Level(n)
  <2>1. n \in 0..N /\ n # 0
    BY TablesCounted
  <2>2. f[n] = f[n - 1] \ NextLevel(f[n - 1])
    BY <1>a, <2>1
  <2> QED BY <1>0, <2>2 DEF Level
<1>3. ASSUME NEW m \in 0..N, NEW n \in 0..N, m <= n, NEW t \in Remaining[n], t \notin Remaining[m]
      PROVE  FALSE
  <2> DEFINE S == {i \in 0..N : m <= i /\ t \in Remaining[i]}
  <2>1. PICK i \in S : \A j \in S : i <= j
    <3>1. n \in S /\ S \subseteq Nat
      BY <1>3
    <3> QED BY <3>1, LeastNumber
  <2>2. i \in 1..N /\ i - 1 \in 0..N /\ m <= i - 1
    <3>1. i # m /\ m <= i /\ i \in 0..N /\ m \in 0..N
      BY <1>3, <2>1
    <3> QED BY <3>1, TablesCounted
  <2>3. t \in Remaining[i - 1]
    BY <1>2, <2>1, <2>2
  <2> QED BY <2>1, <2>2, <2>3
<1>4. ASSUME NEW n \in 0..N
      PROVE  Remaining[n] \subseteq Tables
  <2>1. 0 \in 0..N /\ 0 <= n
    BY TablesCounted
  <2> QED BY <1>1, <1>3, <2>1
<1>5. ASSUME NEW n \in 0..N, NEW t \in Tables \ Remaining[n]
      PROVE  \E m \in 1..n : t \in Level(m)
  <2> DEFINE S == {i \in 0..N : i <= n /\ t \notin Remaining[i]}
  <2>1. PICK i \in S : \A j \in S : i <= j
    <3>1. n \in S /\ S \subseteq Nat
      BY <1>5
    <3> QED BY <3>1, LeastNumber
  <2>2. i # 0
    BY <1>1, <2>1
  <2>3. i \in 1..N /\ i \in 1..n /\ i - 1 \in 0..N /\ i - 1 \notin S
    <3>1. i \in 0..N /\ i <= n /\ n \in 0..N
      BY <2>1
    <3>2. i \in 1..N /\ i \in 1..n /\ i - 1 \in 0..N
      BY <2>2, <3>1, TablesCounted
    <3>3. i - 1 \notin S
      BY <2>1, <3>2
    <3> QED BY <3>2, <3>3
  <2>4. t \in Remaining[i - 1]
    BY <2>1, <2>3
  <2> QED BY <1>2, <2>1, <2>3, <2>4
<1> QED BY <1>2, <1>3, <1>4, <1>5

(* No table is in two levels.                                              *)
LEMMA LevelsDisjoint ==
  ASSUME NEW m \in 1..N, NEW n \in 1..N, m < n
  PROVE  Level(m) \cap Level(n) = {}
<1>1. m \in 0..N /\ n - 1 \in 0..N /\ m <= n - 1
  BY TablesCounted
<1>2. Remaining[n - 1] \subseteq Remaining[m]
  BY <1>1, RemainingFacts
<1>3. Level(n) \subseteq Remaining[n - 1]
  BY LevelRemains DEF Level
<1>4. Remaining[m] \cap Level(m) = {}
  BY RemainingFacts
<1> QED BY <1>2, <1>3, <1>4

LEMMA LevelTables == \A n \in 1..N : Level(n) \subseteq Tables
<1> SUFFICES ASSUME NEW n \in 1..N PROVE Level(n) \subseteq Tables
  OBVIOUS
<1>1. n - 1 \in 0..N
  BY TablesCounted
<1> QED BY <1>1, RemainingFacts, LevelRemains DEF Level

(* There are at most as many levels as tables.                             *)
LEMMA LevelsCounted == LevelCount \in 0..N
<1> DEFINE S == {n \in 1..N : Level(n) # {}}
<1>1. S \subseteq 1..N /\ IsFiniteSet(1..N) /\ Cardinality(1..N) = N
  BY TablesCounted, FS_Interval
<1> HIDE DEF S
<1>2. IsFiniteSet(S) /\ Cardinality(S) <= N
  BY <1>1, FS_Subset
<1>3. Cardinality(S) \in 0..N
  BY <1>2, TablesCounted, FS_CardinalityType
<1> QED BY <1>3 DEF S, LevelCount, N

(* A table of a level that is not behind a cycle references only tables of *)
(* earlier levels: had none of those that remain been ready, they would    *)
(* all be on or behind a cycle.                                            *)
LEMMA LevelReferences ==
  ASSUME NEW n \in 1..N, NEW t \in Level(n), ~BehindCycle(t), NEW r \in Dependencies(t)
  PROVE  r \notin Remaining[n - 1] /\ \E m \in 1..(n - 1) : r \in Level(m)
<1> DEFINE R == Remaining[n - 1]
           ready == {s \in R : Satisfied(s, R)}
<1>1. n - 1 \in 0..N /\ R \subseteq Tables
  BY TablesCounted, RemainingFacts
<1>2. ready # {}
  <2> SUFFICES ASSUME ready = {} PROVE FALSE
    OBVIOUS
  <2>1. t \in R
    BY LevelRemains DEF Level
  <2>2. \A s \in R : Dependencies(s) \cap R # {}
    BY DEF Satisfied
  <2> QED BY <1>1, <2>1, <2>2 DEF BehindCycle
<1>3. t \in ready
  BY <1>2 DEF Level, NextLevel
<1>4. r \notin R
  BY <1>3 DEF Satisfied
<1>5. r \in Tables
  BY DEF Dependencies
<1> QED BY <1>1, <1>4, <1>5, RemainingFacts
-----------------------------------------------------------------------------
(* The graph of references is the schema's.                                *)
LEMMA LevelsStable ==
  ASSUME conf' = conf
  PROVE  \A n : Level(n)' = Level(n)
<1>1. \A R : NextLevel(R)' = NextLevel(R)
  BY DEF NextLevel, Satisfied, Dependencies, Cyclic
<1>2. Remaining' = Remaining
  BY <1>1 DEF Remaining
<1> QED BY <1>1, <1>2 DEF Level

LEMMA BatchStable ==
  ASSUME conf' = conf
  PROVE  /\ \A ph, n : Batch(ph, n)' = Batch(ph, n)
         /\ MaxTasks' = MaxTasks
BY LevelsStable DEF Batch, MaxTasks

LEMMA BatchTables ==
  ASSUME conf \in Confs, NEW ph, NEW n \in 1..N
  PROVE  Batch(ph, n) \subseteq Tables
BY LevelTables, FinalizerAssumption DEF Batch

LEMMA PhaseFacts ==
  /\ PhaseNames = {"pk", "index", "fk", "check", "sequence"}
  /\ \A ph \in PhaseNames : Rank(ph) \in 1..5
  /\ \A p, q \in PhaseNames : Rank(p) = Rank(q) => p = q
<1>1. PhaseNames = {"pk", "index", "fk", "check", "sequence"}
  <2>1. DOMAIN Phases = 1..5
    BY DEF Phases
  <2>2. 1..5 = {1, 2, 3, 4, 5}
    OBVIOUS
  <2> QED BY <2>1, <2>2 DEF PhaseNames, Phases
<1>2. /\ Rank("pk") = 1 /\ Rank("index") = 2 /\ Rank("fk") = 3 /\ Rank("check") = 4
      /\ Rank("sequence") = 5
  BY DEF Rank
<1> QED BY <1>1, <1>2

(* The end of a phase.                                                     *)
LEMMA PhaseEnds ==
  ASSUME phase \in PhaseNames
  PROVE  NextPhase = IF KeysFailed THEN "err"
                     ELSE CASE phase = "pk" -> "index" [] phase = "index" -> "fk"
                            [] phase = "fk" -> "check" [] phase = "check" -> "sequence"
                            [] OTHER -> "ok"
<1>1. CASE phase = "sequence"
  BY <1>1 DEF NextPhase, KeysFailed
<1>2. ASSUME NEW i \in 1..4, phase = Phases[i]
      PROVE  (CHOOSE j \in DOMAIN Phases : Phases[j] = phase) = i
  BY <1>2 DEF Phases
<1>3. ASSUME NEW i \in 1..4, phase = Phases[i]
      PROVE  NextPhase = IF KeysFailed THEN "err" ELSE Phases[i + 1]
  <2>1. phase # "sequence"
    BY <1>3 DEF Phases
  <2>2. ~KeysFailed => NextPhase = Phases[(CHOOSE j \in DOMAIN Phases : Phases[j] = phase) + 1]
    BY <2>1 DEF NextPhase
  <2>3. KeysFailed => NextPhase = "err"
    BY <2>1 DEF NextPhase
  <2> QED BY <1>2, <1>3, <2>2, <2>3
<1>4. CASE phase = "pk"
  BY <1>3, <1>4 DEF Phases
<1>5. CASE phase = "index"
  BY <1>3, <1>5 DEF Phases
<1>6. CASE phase = "fk"
  BY <1>3, <1>6 DEF Phases
<1>7. CASE phase = "check"
  BY <1>3, <1>7 DEF Phases
<1> QED BY <1>1, <1>4, <1>5, <1>6, <1>7, PhaseFacts
-----------------------------------------------------------------------------
(* A run begins, or is stopped: the state of finalize is dropped.          *)
Reset ==
  /\ conf' \in Confs
  /\ phase' = "idle" /\ level' = 1 /\ todo' = {} /\ running' = {} /\ left' = NothingLeft
  /\ failed' = {} /\ spawned' = NotSpawned

LEMMA ResetInv == (Init => FinalizeInv) /\ (Reset => FinalizeInv')
<1>1. /\ NothingLeft \in [Tables -> SUBSET (Tables \cup {Outside} \cup PhaseNames)]
      /\ NotSpawned \in [PhaseNames -> [Tables -> 0..1]]
      /\ \A ph \in PhaseNames : \A t \in Tables : NotSpawned[ph][t] = 0
  BY DEF NothingLeft, NotSpawned
<1>2. "idle" \notin PhaseNames /\ Rank("idle") = 0 /\ 1 \in 1..Cardinality(Tables)
  BY PhaseFacts, TablesCounted DEF Rank, N
<1>3. Cardinality({}) = 0
  BY FS_EmptySet
<1>4. ASSUME Init PROVE FinalizeInv
  <2>1. conf.permits \in Nat
    BY <1>4, FinalizerAssumption DEF Init
  <2>2. TypeOK
    BY <1>1, <1>2, <1>3, <1>4, <2>1 DEF Init, TypeOK, MaxTasks
  <2>3. BatchInv /\ PhaseInv /\ LevelInv /\ KeysInv
    BY <1>1, <1>2, <1>4 DEF Init, BatchInv, PhaseInv, LevelInv, KeysInv
  <2> QED BY <2>2, <2>3 DEF FinalizeInv
<1>5. ASSUME Reset PROVE FinalizeInv'
  <2>1. conf'.permits \in Nat
    BY <1>5, FinalizerAssumption DEF Reset
  <2>2. TypeOK'
    BY <1>1, <1>2, <1>3, <1>5, <2>1 DEF Reset, TypeOK, MaxTasks
  <2>3. BatchInv' /\ PhaseInv' /\ LevelInv' /\ KeysInv'
    BY <1>1, <1>2, <1>5 DEF Reset, BatchInv, PhaseInv, LevelInv, KeysInv
  <2> QED BY <2>2, <2>3 DEF FinalizeInv
<1> QED BY <1>4, <1>5

(* finalize is called.                                                     *)
LEMMA BeginInv == FinalizeInv /\ Begin => FinalizeInv'
<1> SUFFICES ASSUME FinalizeInv, Begin PROVE FinalizeInv'
  OBVIOUS
<1>0. /\ UNCHANGED <<conf, level, running, left, failed, spawned>>
      /\ phase = "idle" /\ phase' = "pk" /\ todo' = Batch("pk", 1)
  BY DEF Begin
<1>1. /\ "pk" \in PhaseNames /\ "idle" \notin PhaseNames /\ Rank("idle") = 0 /\ Rank("pk") = 1
      /\ 1 \in 1..N /\ level = 1
  BY <1>0, PhaseFacts, TablesCounted DEF Rank, FinalizeInv, PhaseInv
<1>2. Batch("pk", 1) \subseteq Tables /\ Batch("pk", 1)' = Batch("pk", 1) /\ MaxTasks' = MaxTasks
  BY <1>0, <1>1, BatchTables, BatchStable DEF FinalizeInv, TypeOK
<1>3. \A ph \in PhaseNames : Rank(ph) \in 1..5
  BY PhaseFacts
<1>4. TypeOK'
  BY <1>0, <1>1, <1>2 DEF FinalizeInv, TypeOK
<1>5. BatchInv'
  BY <1>0, <1>1, <1>2, <1>3 DEF FinalizeInv, BatchInv, PhaseInv
<1>6. PhaseInv' /\ LevelInv' /\ KeysInv'
  BY <1>0, <1>1, <1>3 DEF FinalizeInv, PhaseInv, LevelInv, KeysInv
<1> QED BY <1>4, <1>5, <1>6 DEF FinalizeInv

(* A task is spawned when there is a permit for it.                        *)
LEMMA SpawnInv ==
  ASSUME FinalizeInv, NEW t \in Tables, Spawn(t)
  PROVE  FinalizeInv'
<1>0. /\ UNCHANGED <<conf, phase, level, failed>>
      /\ t \in todo /\ todo' = todo \ {t} /\ running' = running \cup {t}
      /\ left' = [left EXCEPT ![t] = Items(t)]
      /\ spawned' = [spawned EXCEPT ![phase][t] = @ + 1]
      /\ Cardinality(running) < MaxTasks
  BY DEF Spawn, PermitFree
<1>1. phase \in PhaseNames /\ todo \subseteq Batch(phase, level) /\ running \subseteq Batch(phase, level)
  BY <1>0 DEF FinalizeInv, BatchInv
<1>2. spawned[phase][t] = 0
  BY <1>0, <1>1 DEF FinalizeInv, BatchInv
<1>3. /\ spawned' \in [PhaseNames -> [Tables -> 0..1]]
      /\ spawned'[phase][t] = 1
      /\ \A ph \in PhaseNames : \A u \in Tables : ph # phase \/ u # t => spawned'[ph][u] = spawned[ph][u]
  BY <1>0, <1>1, <1>2 DEF FinalizeInv, TypeOK
<1>4. TypeOK'
  <2>1. Cardinality(running') <= MaxTasks'
    <3>1. IsFiniteSet(running) /\ Cardinality(running) \in Nat
      BY FinalizerAssumption, FS_Subset, FS_CardinalityType DEF FinalizeInv, TypeOK
    <3>2. MaxTasks' = MaxTasks /\ MaxTasks \in Nat
      BY <1>0, BatchStable, FinalizerAssumption DEF MaxTasks, FinalizeInv, TypeOK
    <3>3. Cardinality(running') <= Cardinality(running) + 1 /\ Cardinality(running') \in Nat
      <4>1. Cardinality(running \cup {t}) = IF t \in running THEN Cardinality(running)
                                            ELSE Cardinality(running) + 1
        BY <3>1, FS_AddElement
      <4> QED BY <1>0, <3>1, <4>1
    <3> QED BY <1>0, <3>1, <3>2, <3>3
  <2>2. Items(t) \in SUBSET (Tables \cup {Outside} \cup PhaseNames)
    BY <1>1, FinalizerAssumption DEF Items, FinalizeInv, TypeOK
  <2>3. left' \in [Tables -> SUBSET (Tables \cup {Outside} \cup PhaseNames)]
    BY <1>0, <2>2 DEF FinalizeInv, TypeOK
  <2> QED BY <1>0, <1>3, <2>1, <2>3 DEF FinalizeInv, TypeOK
<1>5. BatchInv'
  <2>1. Batch(phase, level)' = Batch(phase, level) /\ Batch(phase, level) \subseteq Tables
    BY <1>0, BatchStable, BatchTables DEF FinalizeInv, TypeOK, N
  <2>2. \A u \in Batch(phase, level) : spawned'[phase][u] = IF u \in todo' THEN 0 ELSE 1
    BY <1>0, <1>1, <1>3, <2>1 DEF FinalizeInv, BatchInv
  <2> QED BY <1>0, <1>1, <2>1, <2>2 DEF BatchInv
<1>6. PhaseInv'
  BY <1>0, <1>1, <1>3, PhaseFacts DEF FinalizeInv, PhaseInv
<1>7. LevelInv'
  <2> SUFFICES ASSUME phase = "fk", NEW n \in 1..N, NEW u \in Level(n)
               PROVE  /\ level < n => spawned'["fk"][u] = 0
                      /\ n < level /\ conf.fks[u] # {} => spawned'["fk"][u] = 1
    BY <1>0, LevelsStable DEF LevelInv
  <2>1. u \in Tables /\ t \in Level(level) /\ level \in 1..N
    BY <1>0, <1>1, LevelTables DEF Batch, FinalizeInv, TypeOK, N
  <2>2. level < n => u # t
    BY <2>1, LevelsDisjoint
  <2>3. /\ level < n => spawned["fk"][u] = 0
        /\ n < level /\ conf.fks[u] # {} => spawned["fk"][u] = 1
    BY DEF FinalizeInv, LevelInv
  <2>4. n < level => u # t
    BY <2>1, LevelsDisjoint
  <2> QED BY <1>1, <1>3, <2>1, <2>2, <2>3, <2>4
<1>8. KeysInv'
  <2>1. ASSUME 1 < Rank(phase)
        PROVE  \A u \in Tables : spawned'["pk"][u] = spawned["pk"][u]
    <3>1. phase # "pk" /\ "pk" \in PhaseNames
      BY <2>1, PhaseFacts DEF Rank
    <3> QED BY <1>3, <3>1
  <2>2. conf.keyed \subseteq Tables
    BY FinalizerAssumption DEF FinalizeInv, TypeOK
  <2> QED BY <1>0, <2>1, <2>2 DEF FinalizeInv, KeysInv
<1> QED BY <1>4, <1>5, <1>6, <1>7, <1>8 DEF FinalizeInv

(* A task works on, and ends.                                              *)
LEMMA TaskInv ==
  ASSUME FinalizeInv, NEW t \in Tables, Task(t)
  PROVE  FinalizeInv'
<1>0. /\ UNCHANGED <<conf, phase, level, todo, spawned>>
      /\ running' \subseteq running /\ t \in running
      /\ left' \in [Tables -> SUBSET (Tables \cup {Outside} \cup PhaseNames)]
      /\ failed' = failed \/ (phase = "pk" /\ failed' \subseteq Tables)
  <2>1. CASE TaskEnds(t) \/ TaskPanics(t)
    BY <2>1 DEF TaskEnds, TaskPanics, FinalizeInv, TypeOK
  <2>2. ASSUME NEW item \in left[t], NEW ok \in BOOLEAN, Create(t, item, ok)
        PROVE  /\ UNCHANGED <<conf, phase, level, todo, spawned, running>> /\ t \in running
               /\ left' \in [Tables -> SUBSET (Tables \cup {Outside} \cup PhaseNames)]
               /\ failed' = failed \/ (phase = "pk" /\ failed' \subseteq Tables)
    BY <2>2 DEF Create, FinalizeInv, TypeOK
  <2> QED BY <2>1, <2>2 DEF Task
<1>1. phase \in PhaseNames
  BY <1>0 DEF FinalizeInv, BatchInv
<1>2. TypeOK'
  <2>1. IsFiniteSet(running) /\ Cardinality(running) \in Nat /\ Cardinality(running') \in Nat
        /\ Cardinality(running') <= Cardinality(running)
    BY <1>0, FinalizerAssumption, FS_Subset, FS_CardinalityType DEF FinalizeInv, TypeOK
  <2>2. MaxTasks' = MaxTasks /\ MaxTasks \in Nat
    BY <1>0, BatchStable, FinalizerAssumption DEF MaxTasks, FinalizeInv, TypeOK
  <2>3. Cardinality(running') <= MaxTasks'
    BY <2>1, <2>2 DEF FinalizeInv, TypeOK
  <2> QED BY <1>0, <2>3 DEF FinalizeInv, TypeOK
<1>3. BatchInv'
  <2>1. Batch(phase, level)' = Batch(phase, level)
    BY <1>0, BatchStable
  <2> QED BY <1>0, <1>1, <2>1 DEF FinalizeInv, BatchInv
<1>4. PhaseInv'
  BY <1>0 DEF FinalizeInv, PhaseInv
<1>5. LevelInv'
  BY <1>0, LevelsStable DEF FinalizeInv, LevelInv
<1>6. KeysInv'
  <2>1. phase = "pk" => Rank(phase) = 1
    BY DEF Rank
  <2> QED BY <1>0, <2>1 DEF FinalizeInv, KeysInv
<1> QED BY <1>2, <1>3, <1>4, <1>5, <1>6 DEF FinalizeInv

(* The tasks of a level or phase are joined, and the next one begins.      *)
LEMMA NextLevelInv ==
  ASSUME FinalizeInv, Join, phase = "fk", level < LevelCount
  PROVE  FinalizeInv'
<1>0. /\ UNCHANGED <<conf, phase, running, left, failed, spawned>>
      /\ todo = {} /\ running = {} /\ level' = level + 1
      /\ todo' = Batch("fk", level + 1)
  BY DEF Join, AllJoined
<1>1. /\ level \in 1..N /\ level + 1 \in 1..N /\ N \in Nat
  BY LevelsCounted, TablesCounted DEF FinalizeInv, TypeOK, N
<1>2. /\ Batch("fk", level + 1) \subseteq Tables /\ MaxTasks' = MaxTasks
      /\ \A n : Batch("fk", n)' = Batch("fk", n)
      /\ \A n : Level(n)' = Level(n)
  BY <1>0, <1>1, BatchTables, BatchStable, LevelsStable DEF FinalizeInv, TypeOK
<1>3. "fk" \in PhaseNames
  BY PhaseFacts
<1>4. \A n : Batch("fk", n) = {t \in Level(n) : conf.fks[t] # {}}
  BY DEF Batch
<1>5. TypeOK'
  BY <1>0, <1>1, <1>2 DEF FinalizeInv, TypeOK, N
<1>6. BatchInv'
  <2>1. \A t \in Batch("fk", level + 1) : spawned["fk"][t] = 0
    BY <1>1, <1>4 DEF FinalizeInv, LevelInv
  <2>2. PICK m : m = level + 1
    OBVIOUS
  <2> QED BY <1>0, <1>2, <1>3, <2>1, <2>2 DEF BatchInv
<1>7. PhaseInv'
  BY <1>0 DEF FinalizeInv, PhaseInv
<1>8. LevelInv'
  <2> SUFFICES ASSUME NEW n \in 1..N, NEW t \in Level(n)
               PROVE  /\ level + 1 < n => spawned["fk"][t] = 0
                      /\ n < level + 1 /\ conf.fks[t] # {} => spawned["fk"][t] = 1
    BY <1>0, <1>2 DEF LevelInv
  <2>1. /\ level < n => spawned["fk"][t] = 0
        /\ n < level /\ conf.fks[t] # {} => spawned["fk"][t] = 1
    BY DEF FinalizeInv, LevelInv
  <2>2. n = level /\ conf.fks[t] # {} => spawned["fk"][t] = 1
    BY <1>0, <1>3, <1>4 DEF FinalizeInv, BatchInv
  <2> QED BY <1>1, <2>1, <2>2
<1>9. KeysInv'
  BY <1>0 DEF FinalizeInv, KeysInv
<1> QED BY <1>5, <1>6, <1>7, <1>8, <1>9 DEF FinalizeInv

LEMMA NextPhaseInv ==
  ASSUME FinalizeInv, Join, ~(phase = "fk" /\ level < LevelCount)
  PROVE  FinalizeInv'
<1>0. /\ UNCHANGED <<conf, running, left, failed, spawned>> /\ phase \in PhaseNames
      /\ todo = {} /\ running = {} /\ level' = 1 /\ phase' = NextPhase
      /\ todo' = Batch(phase', 1)
  BY DEF Join, AllJoined
<1>1. \/ phase = "pk" /\ phase' = "err"
      \/ phase = "pk" /\ ~KeysFailed /\ phase' = "index"
      \/ phase = "index" /\ phase' = "fk"
      \/ phase = "fk" /\ phase' = "check"
      \/ phase = "check" /\ phase' = "sequence"
      \/ phase = "sequence" /\ phase' = "ok"
  <2>1. KeysFailed => phase = "pk"
    BY DEF KeysFailed
  <2> QED BY <1>0, <2>1, PhaseEnds, PhaseFacts
<1>2. /\ Rank("pk") = 1 /\ Rank("err") = 1 /\ Rank("index") = 2 /\ Rank("fk") = 3
      /\ Rank("check") = 4 /\ Rank("sequence") = 5 /\ Rank("ok") = 6
  BY DEF Rank
<1>3. /\ phase' \in PhaseNames \cup {"err", "ok"}
      /\ phase' \in PhaseNames => Rank(phase) < Rank(phase')
      /\ Rank(phase) <= Rank(phase') /\ Rank(phase) \in 1..6 /\ Rank(phase') \in 1..6
  BY <1>1, <1>2, PhaseFacts
<1>4. PICK p : p = phase'
  OBVIOUS
<1>5. /\ Batch(p, 1) \subseteq Tables /\ MaxTasks' = MaxTasks
      /\ \A ph : Batch(ph, 1)' = Batch(ph, 1) /\ 1 \in 1..N
      /\ \A n : Level(n)' = Level(n)
  BY <1>0, TablesCounted, BatchTables, BatchStable, LevelsStable DEF FinalizeInv, TypeOK
<1>6. TypeOK'
  BY <1>0, <1>3, <1>4, <1>5 DEF FinalizeInv, TypeOK, N
<1>7. BatchInv'
  <2>1. CASE p \in PhaseNames
    <3>1. \A t \in Batch(p, 1) : spawned[p][t] = 0
      BY <1>3, <1>4, <1>5, <2>1 DEF FinalizeInv, PhaseInv
    <3> QED BY <1>0, <1>4, <1>5, <2>1, <3>1 DEF BatchInv
  <2>2. CASE p \notin PhaseNames
    <3>1. Batch(p, 1) = {}
      BY <1>3, <1>4, <2>2 DEF Batch
    <3> QED BY <1>0, <1>4, <2>2, <3>1 DEF BatchInv
  <2> QED BY <2>1, <2>2
<1>8. PhaseInv'
  <2>1. \A ph \in PhaseNames : Rank(phase') < Rank(ph) => Rank(phase) < Rank(ph)
    BY <1>3, PhaseFacts
  <2> QED BY <1>0, <2>1 DEF FinalizeInv, PhaseInv
<1>9. LevelInv'
  <2> SUFFICES ASSUME phase' = "fk", NEW n \in 1..N, NEW t \in Level(n)
               PROVE  /\ 1 < n => spawned["fk"][t] = 0
                      /\ ~(n < 1)
    BY <1>0, <1>5 DEF LevelInv
  <2>1. Rank(phase) < Rank("fk") /\ "fk" \in PhaseNames /\ t \in Tables
    BY <1>3, LevelTables, PhaseFacts
  <2> QED BY <2>1, TablesCounted DEF FinalizeInv, PhaseInv
<1>10. KeysInv'
  <2>1. CASE phase = "pk" /\ phase' = "index"
    <3>1. failed = {}
      BY <1>1, <2>1 DEF KeysFailed
    <3>2. conf.recreate => \A t \in conf.keyed : spawned["pk"][t] = 1
      BY <1>0, <2>1 DEF FinalizeInv, BatchInv, Batch
    <3> QED BY <1>0, <3>1, <3>2 DEF KeysInv
  <2>2. CASE 1 < Rank(phase)
    BY <1>0, <2>2 DEF FinalizeInv, KeysInv
  <2>3. CASE Rank(phase') = 1
    BY <2>3 DEF KeysInv
  <2> QED BY <1>1, <1>2, <2>1, <2>2, <2>3
<1> QED BY <1>6, <1>7, <1>8, <1>9, <1>10 DEF FinalizeInv

(* Every step of finalize keeps the invariant.                             *)
FinalizeStep ==
  \/ Begin \/ Join \/ Reset \/ UNCHANGED vars
  \/ \E t \in Tables : Spawn(t) \/ Task(t)

LEMMA StepInv == FinalizeInv /\ FinalizeStep => FinalizeInv'
<1> SUFFICES ASSUME FinalizeInv, FinalizeStep PROVE FinalizeInv'
  OBVIOUS
<1>1. CASE UNCHANGED vars
  <2>1. conf' = conf
    BY <1>1 DEF vars
  <2>2. /\ \A ph, n : Batch(ph, n)' = Batch(ph, n)
        /\ \A n : Level(n)' = Level(n)
        /\ MaxTasks' = MaxTasks
    BY <2>1, BatchStable, LevelsStable
  <2> QED BY <1>1, <2>2
          DEF vars, FinalizeInv, TypeOK, BatchInv, PhaseInv, LevelInv, KeysInv
<1> QED BY <1>1, ResetInv, BeginInv, SpawnInv, TaskInv, NextLevelInv, NextPhaseInv
        DEF FinalizeStep

(* The steps of a run, as finalize sees them.                              *)
LEMMA RunSteps ==
  ASSUME FinalizeInv, [SchemaNext]_allVars
  PROVE  FinalizeStep
<1>1. CASE Start \/ Stop
  <2>1. conf \in Confs /\ \A m \in conf.modes : [conf EXCEPT !.recreate = m[1], !.unlogged = m[2]] \in Confs
    BY TargetSchemaAssumption DEF FinalizeInv, TypeOK
  <2> QED BY <1>1, <2>1 DEF Start, Stop, Reset, FinalizeStep
<1>2. ASSUME NEW t \in Tables, Prepare(t) \/ Transfer(t)
      PROVE  UNCHANGED vars
  BY <1>2 DEF Prepare, Transfer, DropTable, CreateTable, NoPrimaryKey, EnsureKey, DropIndexes,
              SetUnlogged, Refuse
<1>3. ASSUME NEW t \in Tables, Finalizing(t)
      PROVE  Task(t)
  BY <1>3 DEF Finalizing, Execute, Trouble, Task
<1>4. CASE BeginFinalize \/ JoinTasks \/ Over
  BY <1>4 DEF BeginFinalize, JoinTasks, Over, allVars, FinalizeStep
<1>5. CASE UNCHANGED allVars
  BY <1>5 DEF allVars, FinalizeStep
<1> QED BY <1>1, <1>2, <1>3, <1>4, <1>5 DEF SchemaNext, FinalizeStep
-----------------------------------------------------------------------------
(* What the invariant says of a state.                                     *)

LEMMA InvReferencesFirst == FinalizeInv => ReferencesFirst
<1> SUFFICES ASSUME FinalizeInv, phase = "fk",
                    NEW t \in running, ~BehindCycle(t), NEW r \in Dependencies(t)
             PROVE  r \notin running \cup todo /\ (conf.fks[r] # {} => spawned["fk"][r] = 1)
  BY DEF ReferencesFirst
<1>1. /\ "fk" \in PhaseNames /\ level \in 1..N /\ N \in Nat
      /\ Batch("fk", level) \subseteq Level(level)
  BY PhaseFacts, TablesCounted DEF FinalizeInv, TypeOK, N, Batch
<1>2. t \in Level(level) /\ running \cup todo \subseteq Level(level)
  BY <1>1 DEF FinalizeInv, BatchInv
<1>3. r \notin Remaining[level - 1] /\ \E m \in 1..(level - 1) : r \in Level(m)
  BY <1>1, <1>2, LevelReferences
<1>4. r \notin Level(level)
  BY <1>3, LevelRemains DEF Level
<1>5. PICK m \in 1..(level - 1) : r \in Level(m)
  BY <1>3
<1>6. m \in 1..N /\ m < level
  BY <1>1
<1>7. conf.fks[r] # {} => spawned["fk"][r] = 1
  BY <1>5, <1>6 DEF FinalizeInv, LevelInv
<1> QED BY <1>2, <1>4, <1>7

LEMMA InvKeysFirst == FinalizeInv => KeysFirst
<1> SUFFICES ASSUME FinalizeInv, phase = "ok" \/ \E t \in Tables : spawned["fk"][t] > 0
             PROVE  1 < Rank(phase)
  BY DEF KeysFirst, FinalizeInv, KeysInv
<1>1. /\ "fk" \in PhaseNames /\ Rank("fk") = 3 /\ Rank("ok") = 6
      /\ Rank("idle") = 0 /\ Rank("err") = 1
  BY PhaseFacts DEF Rank
<1>2. phase \in PhaseNames \cup {"idle", "ok", "err"} /\ Rank(phase) \in Int
  BY <1>1, PhaseFacts DEF FinalizeInv, TypeOK
<1>3. CASE phase = "ok"
  BY <1>1, <1>3
<1>4. ASSUME NEW t \in Tables, spawned["fk"][t] > 0
      PROVE  ~(Rank(phase) < Rank("fk"))
  BY <1>1, <1>4 DEF FinalizeInv, PhaseInv
<1> QED BY <1>1, <1>2, <1>3, <1>4

LEMMA InvNothingLeftRunning == FinalizeInv => NothingLeftRunning
<1>1. "ok" \notin PhaseNames /\ "err" \notin PhaseNames
  BY PhaseFacts
<1> QED BY <1>1 DEF FinalizeInv, BatchInv, NothingLeftRunning, Returned

(* The invariant holds in every run on every schema.                       *)
THEOREM FinalizerInvariant == SchemaSpec => []FinalizeInv
<1>1. SchemaInit => FinalizeInv
  BY ResetInv DEF SchemaInit
<1>2. FinalizeInv /\ [SchemaNext]_allVars => FinalizeInv'
  BY RunSteps, StepInv
<1> QED BY <1>1, <1>2, PTL DEF SchemaSpec

(* Tasks never outnumber the permits, each table has at most one per phase,*)
(* and levels stay within the number of tables.                            *)
THEOREM FinalizerTypes == SchemaSpec => []TypeOK
<1>1. FinalizeInv => TypeOK
  BY DEF FinalizeInv
<1> QED BY <1>1, FinalizerInvariant, PTL

(* The foreign keys of a table are only created when those of the tables   *)
(* it references are done, unless it is on a cycle, or references one.     *)
THEOREM LevelsInOrder == SchemaSpec => []ReferencesFirst
BY InvReferencesFirst, FinalizerInvariant, PTL

(* No foreign key is tried, nor does finalize succeed, before every primary*)
(* key was.                                                                *)
THEOREM KeysBeforeReferences == SchemaSpec => []KeysFirst
BY InvKeysFirst, FinalizerInvariant, PTL

(* finalize leaves no task behind when it returns.                         *)
THEOREM TasksJoined == SchemaSpec => []NothingLeftRunning
BY InvNothingLeftRunning, FinalizerInvariant, PTL
-----------------------------------------------------------------------------
(* Any number of runs.                                                     *)
(* build_fk_dependency_levels puts every table in a level.                 *)
LEMMA EveryTableHasLevel == \A t \in Tables : \E n \in 1..LevelCount : t \in Level(n)
<1>0. N \in Nat /\ N >= 1
  BY TablesCounted
<1>1. ASSUME NEW n \in 0..N
      PROVE  IsFiniteSet(Remaining[n]) /\ Cardinality(Remaining[n]) \in Nat
  BY RemainingFacts, FinalizerAssumption, FS_Subset, FS_CardinalityType
<1>2. ASSUME NEW n \in 1..N
      PROVE  Remaining[n] = {} \/ Cardinality(Remaining[n]) < Cardinality(Remaining[n - 1])
  <2>1. n \in 0..N /\ n - 1 \in 0..N
    BY <1>0
  <2>2. PICK A : A = Remaining[n]
    OBVIOUS
  <2>3. PICK B : B = Remaining[n - 1]
    OBVIOUS
  <2>4. A = B \ Level(n) /\ Level(n) \subseteq B /\ (B # {} => Level(n) # {})
    BY <2>2, <2>3, RemainingFacts, LevelRemains DEF Level
  <2>5. A \subseteq B /\ (A # {} => A # B)
    BY <2>4
  <2>6. IsFiniteSet(B) /\ Cardinality(A) \in Nat /\ Cardinality(B) \in Nat
    BY <1>1, <2>1, <2>2, <2>3
  <2>7. Cardinality(A) <= Cardinality(B) /\ (Cardinality(A) = Cardinality(B) => A = B)
    BY <2>5, <2>6, FS_Subset
  <2> QED BY <2>2, <2>3, <2>5, <2>6, <2>7
<1>3. ASSUME NEW n \in 0..N, Remaining[n] # {}
      PROVE  Cardinality(Remaining[n]) <= N - n
  <2> DEFINE C(i) == Cardinality(Remaining[i])
             Bad == {i \in 0..N : Remaining[i] # {} /\ ~(C(i) <= N - i)}
  <2>1. SUFFICES ASSUME NEW b \in Bad, \A i \in Bad : b <= i
                 PROVE  FALSE
    <3>1. Bad \subseteq Nat
      OBVIOUS
    <3>2. Bad # {} => \E b \in Bad : \A i \in Bad : b <= i
      BY <3>1, LeastNumber
    <3> QED BY <1>3, <3>2
  <2>2. b \in 0..N /\ Remaining[b] # {} /\ ~(C(b) <= N - b)
    OBVIOUS
  <2>3. b # 0
    <3>1. 0 \in 0..N
      BY <1>0
    <3>2. Remaining[0] \subseteq Tables
      BY <3>1, RemainingFacts
    <3>3. C(0) <= N /\ C(0) \in Nat
      BY <1>1, <3>1, <3>2, FinalizerAssumption, FS_Subset DEF N
    <3> QED BY <1>0, <2>2, <3>3
  <2>4. b \in 1..N /\ b - 1 \in 0..N /\ b \in 0..N /\ b - 1 <= b
    BY <1>0, <2>2, <2>3
  <2>5. Remaining[b - 1] # {}
    <3>1. Remaining[b] \subseteq Remaining[b - 1]
      BY <2>4, RemainingFacts
    <3> QED BY <2>2, <3>1
  <2>6. C(b) < C(b - 1) /\ C(b) \in Nat /\ C(b - 1) \in Nat
    BY <1>1, <1>2, <2>2, <2>4
  <2> HIDE DEF C
  <2>7. b - 1 \notin Bad
    BY <2>1, <2>4
  <2>8. C(b - 1) <= N - (b - 1)
    BY <2>4, <2>5, <2>7
  <2> QED BY <1>0, <2>2, <2>4, <2>6, <2>8
<1>4. Remaining[N] = {}
  <2> SUFFICES ASSUME Remaining[N] # {} PROVE FALSE
    OBVIOUS
  <2>1. N \in 0..N
    BY <1>0
  <2>2. Cardinality(Remaining[N]) <= N - N
    BY <1>3, <2>1
  <2>3. IsFiniteSet(Remaining[N]) /\ Cardinality(Remaining[N]) \in Nat
    BY <1>1, <2>1
  <2>4. Cardinality(Remaining[N]) = 0
    BY <1>0, <2>2, <2>3
  <2> QED BY <2>3, <2>4, FS_EmptySet
<1>5. PICK k \in 0..N : \A n \in 1..N : Level(n) # {} <=> n <= k
  <2> DEFINE E == {n \in 1..(N + 1) : n = N + 1 \/ Remaining[n - 1] = {}}
  <2>1. PICK b \in E : \A n \in E : b <= n
    <3>1. E \subseteq Nat /\ N + 1 \in E
      BY <1>0
    <3> QED BY <3>1, LeastNumber
  <2>2. b \in 1..(N + 1) /\ b - 1 \in 0..N
    BY <1>0, <2>1
  <2>3. ASSUME NEW n \in 1..N, n <= b - 1
        PROVE  Level(n) # {}
    <3>1. n \in 1..(N + 1) /\ ~(b <= n)
      BY <1>0, <2>2, <2>3
    <3>2. Remaining[n - 1] # {}
      BY <2>1, <3>1
    <3> QED BY <3>2, LevelRemains DEF Level
  <2>4. ASSUME NEW n \in 1..N, ~(n <= b - 1)
        PROVE  Level(n) = {}
    <3>1. b <= n /\ b # N + 1 /\ n - 1 \in 0..N /\ b - 1 <= n - 1
      BY <1>0, <2>2, <2>4
    <3>2. Remaining[b - 1] = {}
      BY <2>1, <3>1
    <3>3. Remaining[n - 1] \subseteq Remaining[b - 1]
      BY <2>2, <3>1, RemainingFacts
    <3> QED BY <3>2, <3>3, LevelRemains DEF Level
  <2> QED BY <2>2, <2>3, <2>4
<1>6. LevelCount = k
  <2>1. {n \in 1..N : Level(n) # {}} = 1..k
    BY <1>0, <1>5
  <2>2. Cardinality(1..k) = k
    BY FS_Interval
  <2> QED BY <2>1, <2>2 DEF LevelCount, N
<1> SUFFICES ASSUME NEW t \in Tables PROVE \E n \in 1..k : t \in Level(n)
  BY <1>6
<1>7. N \in 0..N
  BY <1>0
<1>8. PICK n \in 1..N : t \in Level(n)
  BY <1>4, <1>7, RemainingFacts
<1>9. n <= k
  BY <1>5, <1>8
<1> QED BY <1>8, <1>9
-----------------------------------------------------------------------------
(* What a run relies on, from prepare_target to the end of finalize.       *)

IsTable(r) ==
  r = [there |-> r.there, keyed |-> r.keyed, logged |-> r.logged,
       index |-> r.index, fks |-> r.fks, checked |-> r.checked]

SchemaRecords ==
  schema = [t \in Tables |-> schema[t]] /\ \A t \in Tables : IsTable(schema[t])

StageInv ==
  /\ stage = "finalize" <=> phase \in PhaseNames
  /\ stage = "done" => phase = "ok"
  /\ refusal # << >> => stage = "failed"

Preparing ==
  stage = "prepare" =>
    /\ queue \in Seq(Tables) /\ queue # << >>
    /\ step \in {"table", "indexes", "logging"}
    /\ step # "table" => ~conf.recreate /\ schema[Head(queue)].keyed
    /\ step = "logging" => conf.unlogged /\ schema[Head(queue)].index = << >>

Queued(t) == stage = "prepare" /\ \E i \in DOMAIN queue : queue[i] = t

(* A table that was prepared has its key and no index, and no foreign keys *)
(* if it was made anew.                                                    *)
Ready(t) ==
  /\ t \in conf.keyed => schema[t].keyed
  /\ schema[t].index = << >>
  /\ conf.recreate => schema[t].fks = {}

Prepared ==
  stage \in {"prepare", "transfer"} => \A t \in Tables : ~Queued(t) => Ready(t)

(* What is in the target is there because the source has it.               *)
Names(t) == {<<conf.names[t]>>, <<"ix_", conf.names[t]>>}

Contents ==
  \A t \in Tables :
    /\ schema[t].keyed => t \in conf.keyed
    /\ schema[t].index # << >> => t \in conf.indexed /\ schema[t].index \in Names(t)
    /\ \A f \in schema[t].fks : \E r \in Tables : f = <<r, ActionWritten>>

(* Keys are complete before finalize; indexes are left to its second phase.*)
KeysReady == stage \in {"finalize", "done"} => \A t \in conf.keyed : schema[t].keyed

NoIndexYet ==
  stage = "finalize" =>
    /\ Rank(phase) < 2 => \A t \in Tables : schema[t].index = << >>
    /\ phase = "index" =>
         \A t \in Tables : t \in todo \/ left[t] # {} => schema[t].index = << >>

TaskItems ==
  /\ todo \cap running = {}
  /\ \A t \in Tables : left[t] \subseteq IF t \in running THEN Items(t) ELSE {}

(* A foreign key that a driver leaves out, as the comment on SchemaComplete*)
(* has it.                                                                 *)
KeyLost(t, r) ==
  \/ r \notin Tables
  \/ conf.source = "mysql" \/ (conf.action = "RESTRICT" /\ conf.target # "mysql")
  \/ conf.source = "postgres" /\ conf.composite
  \/ schema[t].logged /\ ~schema[r].logged
  \/ r \in conf.byIndex /\ Lost(r)

(* An item of a phase is in the target, or cannot be created there.        *)
Settled(ph, t, item) ==
  CASE ph = "index" -> schema[t].index # << >> \/ Lost(t)
    [] ph = "fk"    -> KeyLost(t, item) \/ <<item, conf.action>> \in schema[t].fks
    [] ph = "check" -> schema[t].checked \/ conf.source # "postgres"
    [] OTHER        -> TRUE

(* What this batch, the levels and the phases before it were to create is  *)
(* settled, unless a statement failed by chance.                           *)
BatchSettled ==
  stage = "finalize" =>
    \A t \in Batch(phase, level) \ todo : \A item \in Items(t) \ left[t] : Settled(phase, t, item)

LevelsSettled ==
  phase = "fk" =>
    \A n \in 1..(level - 1) : \A t \in Level(n) : \A r \in conf.fks[t] : Settled("fk", t, r)

PhasesSettled ==
  /\ 2 < Rank(phase) => \A t \in conf.indexed : Settled("index", t, "index")
  /\ 3 < Rank(phase) => \A t \in Tables : \A r \in conf.fks[t] : Settled("fk", t, r)
  /\ 4 < Rank(phase) => \A t \in conf.checked : Settled("check", t, "check")

AllSettled ==
  stage \in {"finalize", "done"} /\ ~troubled => BatchSettled /\ LevelsSettled /\ PhasesSettled

PrepareInv == SchemaRecords /\ StageInv /\ Preparing /\ Prepared /\ Contents

SchemaInv ==
  FinalizeInv /\ PrepareInv /\ KeysReady /\ NoIndexYet /\ TaskItems /\ AllSettled /\ RerunsPass
-----------------------------------------------------------------------------
(* Only the modes of a run change in its file.                             *)
SameSource ==
  /\ conf'.source = conf.source /\ conf'.target = conf.target /\ conf'.action = conf.action
  /\ conf'.keyed = conf.keyed /\ conf'.indexed = conf.indexed /\ conf'.names = conf.names

LEMMA ContentsKept ==
  ASSUME SameSource
  PROVE  /\ ActionWritten' = ActionWritten
         /\ \A t : Names(t)' = Names(t)
         /\ UNCHANGED schema => (Contents => Contents')
<1>1. ActionWritten' = ActionWritten
  BY DEF SameSource, ActionWritten, ActionRead
<1>2. \A t : Names(t)' = Names(t)
  BY DEF SameSource, Names
<1>3. ASSUME UNCHANGED schema, Contents PROVE Contents'
  BY <1>1, <1>2, <1>3 DEF SameSource, Contents
<1> QED BY <1>1, <1>2, <1>3

(* A statement changes one attribute of a table.                           *)
LEMMA TableFields ==
  ASSUME NEW r, IsTable(r), NEW v, NEW s
  PROVE  /\ s = [r EXCEPT !.keyed = v] =>
              /\ IsTable(s) /\ s.keyed = v
              /\ s.there = r.there /\ s.logged = r.logged /\ s.index = r.index
              /\ s.fks = r.fks /\ s.checked = r.checked
         /\ s = [r EXCEPT !.logged = v] =>
              /\ IsTable(s) /\ s.logged = v
              /\ s.there = r.there /\ s.keyed = r.keyed /\ s.index = r.index
              /\ s.fks = r.fks /\ s.checked = r.checked
         /\ s = [r EXCEPT !.index = v] =>
              /\ IsTable(s) /\ s.index = v
              /\ s.there = r.there /\ s.keyed = r.keyed /\ s.logged = r.logged
              /\ s.fks = r.fks /\ s.checked = r.checked
         /\ s = [r EXCEPT !.fks = v] =>
              /\ IsTable(s) /\ s.fks = v
              /\ s.there = r.there /\ s.keyed = r.keyed /\ s.logged = r.logged
              /\ s.index = r.index /\ s.checked = r.checked
         /\ s = [r EXCEPT !.checked = v] =>
              /\ IsTable(s) /\ s.checked = v
              /\ s.there = r.there /\ s.keyed = r.keyed /\ s.logged = r.logged
              /\ s.index = r.index /\ s.fks = r.fks
BY DEF IsTable

(* The table prepare_target has done leaves the queue.                     *)
LEMMA QueueTail ==
  ASSUME NEW q \in Seq(Tables), q # << >>
  PROVE  /\ Head(q) \in Tables /\ Tail(q) \in Seq(Tables)
         /\ \A i \in DOMAIN q : q[i] = Head(q) \/ \E j \in DOMAIN Tail(q) : Tail(q)[j] = q[i]
<1>1. Head(q) \in Tables /\ Tail(q) \in Seq(Tables) /\ Head(q) = q[1] /\ Len(q) \in Nat
  OBVIOUS
<1>2. ASSUME NEW i \in DOMAIN q, i # 1
      PROVE  \E j \in DOMAIN Tail(q) : Tail(q)[j] = q[i]
  <2>1. i \in 2..Len(q)
    BY <1>1, <1>2
  <2>2. i - 1 \in 1..Len(Tail(q)) /\ Tail(q)[i - 1] = q[i]
    BY <1>1, <2>1
  <2>3. DOMAIN Tail(q) = 1..Len(Tail(q))
    BY <1>1
  <2> QED BY <2>2, <2>3
<1> QED BY <1>1, <1>2

LEMMA NextTablePrepared ==
  ASSUME Preparing, Prepared, stage = "prepare", NextTable, conf' = conf,
         NEW t \in Tables, t = Head(queue), Ready(t)',
         \A s \in Tables : s # t => schema'[s] = schema[s]
  PROVE  Preparing' /\ Prepared'
<1>1. queue \in Seq(Tables) /\ queue # << >> /\ Tail(queue) \in Seq(Tables)
  BY QueueTail DEF Preparing
<1>2. queue' = Tail(queue) /\ step' = "table"
      /\ stage' = IF Tail(queue) = << >> THEN "transfer" ELSE "prepare"
  BY DEF NextTable
<1>3. Preparing'
  BY <1>1, <1>2 DEF Preparing
<1>4. ASSUME NEW s \in Tables, ~Queued(s)' PROVE Ready(s)'
  <2>1. CASE s = t
    BY <2>1
  <2>2. CASE s # t
    <3>1. ~\E j \in DOMAIN Tail(queue) : Tail(queue)[j] = s
      <4>1. CASE Tail(queue) = << >>
        BY <4>1
      <4>2. CASE Tail(queue) # << >>
        BY <1>2, <1>4, <4>2 DEF Queued
      <4> QED BY <4>1, <4>2
    <3>2. ~Queued(s)
      BY <1>1, <2>2, <3>1, QueueTail DEF Queued
    <3>3. Ready(s)
      BY <3>2 DEF Prepared
    <3> QED BY <2>2, <3>3 DEF Ready
  <2> QED BY <2>1, <2>2
<1>5. Prepared'
  BY <1>4 DEF Prepared
<1> QED BY <1>3, <1>5

(* What prepare_target and transfer_data leave alone.                      *)
LEMMA BeforeFinalize ==
  ASSUME SchemaInv, FinalizeInv', UNCHANGED vars, stage \in {"prepare", "transfer"},
         stage' \in {"prepare", "transfer", "failed"}, refusal' # << >> => stage' = "failed",
         SchemaRecords', Preparing', Prepared', Contents', RerunsPass'
  PROVE  SchemaInv'
<1>1. phase' = phase /\ phase \notin PhaseNames
  BY DEF vars, SchemaInv, PrepareInv, StageInv
<1>2. StageInv'
  BY <1>1 DEF StageInv
<1>3. KeysReady' /\ NoIndexYet' /\ AllSettled'
  <2>1. phase' # "index"
    BY <1>1, PhaseFacts
  <2> QED BY <2>1 DEF KeysReady, NoIndexYet, AllSettled
<1>4. TaskItems'
  BY DEF SchemaInv, TaskItems, Items, vars
<1> QED BY <1>2, <1>3, <1>4 DEF SchemaInv, PrepareInv

LEMMA DropTableInv ==
  ASSUME SchemaInv, FinalizeInv', NEW t \in Tables, DropTable(t)
  PROVE  SchemaInv'
<1>0. /\ UNCHANGED vars /\ stage = "prepare" /\ t = Head(queue) /\ conf.recreate
      /\ stage' \in {"prepare", "transfer", "failed"}
      /\ refusal' # << >> => stage' = "failed"
      /\ queue' = queue /\ step' = step /\ conf' = conf /\ SameSource
  BY DEF DropTable, At, Refuse, SchemaInv, PrepareInv, StageInv, vars, SameSource
<1>1. /\ SchemaRecords /\ Preparing /\ Prepared /\ Contents /\ t \in Tables /\ Queued(t)
  <2>1. queue \in Seq(Tables) /\ queue # << >> /\ 1 \in DOMAIN queue /\ Head(queue) = queue[1]
    BY <1>0 DEF SchemaInv, PrepareInv, Preparing
  <2> QED BY <1>0, <2>1 DEF SchemaInv, PrepareInv, Queued
<1>2. CASE DropRefused(t)
  <2>1. /\ schema' = schema /\ stage' = "failed" /\ refusal' = <<"DROP TABLE", t>>
        /\ conf.target # "postgres"
    BY <1>2 DEF DropTable, Refuse, DropRefused
  <2>2. PICK s \in Tables : schema[s].fks # {}
    BY <1>2 DEF DropRefused, References
  <2>3. RerunsPass'
    BY <1>0, <2>1, <2>2 DEF RerunsPass
  <2>4. SchemaRecords' /\ Preparing' /\ Prepared' /\ Contents'
    BY <1>0, <1>1, <2>1, ContentsKept DEF SchemaRecords, Preparing, Prepared
  <2> QED BY <1>0, <2>3, <2>4, BeforeFinalize
<1>3. CASE ~DropRefused(t)
  <2>1. /\ schema' = [s \in Tables |-> IF s = t THEN Absent
                          ELSE [schema[s] EXCEPT !.fks = {f \in @ : f[1] # t}]]
        /\ UNCHANGED <<stage, refusal>>
    BY <1>3 DEF DropTable
  <2>2. /\ schema'[t] = Absent /\ IsTable(Absent)
        /\ \A s \in Tables : s # t =>
             /\ schema'[s].there = schema[s].there /\ schema'[s].keyed = schema[s].keyed
             /\ schema'[s].logged = schema[s].logged /\ schema'[s].index = schema[s].index
             /\ schema'[s].checked = schema[s].checked
             /\ schema'[s].fks \subseteq schema[s].fks /\ IsTable(schema'[s])
    <3>1. IsTable(Absent)
      BY DEF IsTable, Absent
    <3>2. ASSUME NEW s \in Tables, s # t
          PROVE  /\ schema'[s].there = schema[s].there /\ schema'[s].keyed = schema[s].keyed
                 /\ schema'[s].logged = schema[s].logged /\ schema'[s].index = schema[s].index
                 /\ schema'[s].checked = schema[s].checked
                 /\ schema'[s].fks \subseteq schema[s].fks /\ IsTable(schema'[s])
      <4>1. PICK F : F = {f \in schema[s].fks : f[1] # t}
        OBVIOUS
      <4>2. schema'[s] = [schema[s] EXCEPT !.fks = F]
        BY <2>1, <3>2, <4>1
      <4>3. PICK r : r = schema[s]
        OBVIOUS
      <4>4. IsTable(r)
        BY <1>1, <4>3 DEF SchemaRecords
      <4> QED BY <4>1, <4>2, <4>3, <4>4, TableFields
    <3> QED BY <1>1, <2>1, <3>1, <3>2
  <2>3. SchemaRecords'
    BY <1>1, <2>1, <2>2 DEF SchemaRecords
  <2>4. Preparing'
    BY <1>0, <1>1, <2>1 DEF Preparing
  <2>5. \A s \in Tables : s # t /\ Ready(s) => Ready(s)'
    BY <1>0, <2>2 DEF Ready
  <2>6. Prepared'
    BY <1>0, <1>1, <2>1, <2>5 DEF Prepared, Queued
  <2>7. Absent.keyed = FALSE /\ Absent.index = << >> /\ Absent.fks = {}
    BY DEF Absent
  <2>8. Contents'
    BY <1>0, <1>1, <2>2, <2>7, ContentsKept DEF Contents, SameSource
  <2>9. refusal' = << >>
    BY <1>0, <2>1 DEF SchemaInv, PrepareInv, StageInv
  <2>10. RerunsPass'
    BY <2>9 DEF RerunsPass
  <2> QED BY <1>0, <2>3, <2>4, <2>6, <2>8, <2>10, BeforeFinalize
<1> QED BY <1>2, <1>3

LEMMA AtHead ==
  ASSUME SchemaInv, NEW t \in Tables, NEW s, At(t, s)
  PROVE  /\ SchemaRecords /\ Preparing /\ Prepared /\ Contents /\ IsTable(schema[t])
         /\ stage = "prepare" /\ t = Head(queue) /\ Queued(t) /\ step = s
         /\ refusal = << >> /\ RerunsPass
<1>1. stage = "prepare" /\ t = Head(queue) /\ step = s
  BY DEF At
<1>2. queue \in Seq(Tables) /\ queue # << >> /\ 1 \in DOMAIN queue /\ Head(queue) = queue[1]
  BY <1>1 DEF SchemaInv, PrepareInv, Preparing
<1> QED BY <1>1, <1>2 DEF SchemaInv, PrepareInv, StageInv, Queued, SchemaRecords

(* One table changes, the others are as they were.                         *)
LEMMA TableChanged ==
  ASSUME SchemaRecords, NEW t \in Tables, NEW r, IsTable(r), schema' = [schema EXCEPT ![t] = r]
  PROVE  SchemaRecords' /\ schema'[t] = r /\ \A s \in Tables : s # t => schema'[s] = schema[s]
BY DEF SchemaRecords

LEMMA CreateTableInv ==
  ASSUME SchemaInv, FinalizeInv', NEW t \in Tables, CreateTable(t)
  PROVE  SchemaInv'
<1> DEFINE new == [Absent EXCEPT !.there = TRUE, !.keyed = t \in conf.keyed,
                                 !.logged = ~(conf.unlogged /\ conf.target = "postgres")]
<1>1. /\ At(t, "table") /\ schema' = [schema EXCEPT ![t] = new] /\ NextTable
      /\ UNCHANGED vars /\ conf' = conf /\ refusal' = refusal
  BY DEF CreateTable, vars
<1>2. IsTable(new) /\ new.index = << >> /\ new.fks = {}
  <2>1. PICK k : k = (t \in conf.keyed)
    OBVIOUS
  <2>2. PICK l : l = ~(conf.unlogged /\ conf.target = "postgres")
    OBVIOUS
  <2>3. new = [there |-> TRUE, keyed |-> k, logged |-> l, index |-> << >>, fks |-> {},
               checked |-> FALSE]
    <3>1. new = [Absent EXCEPT !.there = TRUE, !.keyed = k, !.logged = l]
      BY <2>1, <2>2, Zenon
    <3> HIDE DEF new
    <3> QED BY <3>1 DEF Absent
  <2> HIDE DEF new
  <2> QED BY <2>3 DEF IsTable
<1>3. new.keyed <=> t \in conf.keyed
  BY DEF Absent
<1> HIDE DEF new
<1>4. /\ SchemaRecords' /\ schema'[t] = new
      /\ \A s \in Tables : s # t => schema'[s] = schema[s]
  BY <1>1, <1>2, AtHead, TableChanged
<1>5. Ready(t)'
  BY <1>1, <1>2, <1>3, <1>4 DEF Ready
<1>6. Preparing' /\ Prepared'
  BY <1>1, <1>4, <1>5, AtHead, NextTablePrepared
<1>7. Contents'
  <2>1. ActionWritten' = ActionWritten /\ \A s : Names(s)' = Names(s)
    BY <1>1, ContentsKept DEF SameSource
  <2> QED BY <1>1, <1>2, <1>3, <1>4, <2>1, AtHead DEF Contents
<1>8. stage' \in {"prepare", "transfer"} /\ refusal' = << >>
  BY <1>1, AtHead DEF NextTable
<1>9. RerunsPass'
  BY <1>8 DEF RerunsPass
<1> QED BY <1>1, <1>4, <1>6, <1>7, <1>8, <1>9, AtHead, BeforeFinalize

LEMMA NoPrimaryKeyInv ==
  ASSUME SchemaInv, FinalizeInv', NEW t \in Tables, NoPrimaryKey(t)
  PROVE  SchemaInv'
<1>1. /\ At(t, "table") /\ t \notin conf.keyed /\ UNCHANGED vars /\ conf' = conf /\ schema' = schema
      /\ stage' = "failed"
  BY DEF NoPrimaryKey, Refuse, vars
<1>2. SchemaRecords' /\ Contents'
  BY <1>1, AtHead, ContentsKept DEF SchemaRecords, SameSource
<1>3. Preparing' /\ Prepared' /\ RerunsPass'
  BY <1>1 DEF Preparing, Prepared, RerunsPass
<1> QED BY <1>1, <1>2, <1>3, AtHead, BeforeFinalize

LEMMA EnsureKeyInv ==
  ASSUME SchemaInv, FinalizeInv', NEW t \in Tables, EnsureKey(t)
  PROVE  SchemaInv'
<1>1. /\ At(t, "table") /\ ~conf.recreate /\ t \in conf.keyed
      /\ schema' = [schema EXCEPT ![t] = [schema[t] EXCEPT !.keyed = TRUE]]
      /\ step' = "indexes" /\ UNCHANGED vars /\ conf' = conf /\ UNCHANGED <<stage, queue, refusal>>
  BY DEF EnsureKey, vars
<1>2. PICK r : r = [schema[t] EXCEPT !.keyed = TRUE]
  OBVIOUS
<1>3. IsTable(r) /\ r.keyed = TRUE /\ r.index = schema[t].index /\ r.fks = schema[t].fks
  <2>1. IsTable(schema[t])
    BY <1>1, AtHead
  <2> QED BY <1>2, <2>1, TableFields
<1>4. SchemaRecords' /\ schema'[t] = r /\ \A s \in Tables : s # t => schema'[s] = schema[s]
  BY <1>1, <1>2, <1>3, AtHead, TableChanged
<1>5. Preparing'
  BY <1>1, <1>3, <1>4, AtHead DEF Preparing
<1>6. \A s \in Tables : Ready(s) => Ready(s)'
  BY <1>1, <1>3, <1>4 DEF Ready
<1>7. Prepared'
  BY <1>1, <1>6, AtHead DEF Prepared, Queued
<1>8. Contents'
  <2>1. ActionWritten' = ActionWritten /\ \A s : Names(s)' = Names(s)
    BY <1>1, ContentsKept DEF SameSource
  <2> QED BY <1>1, <1>3, <1>4, <2>1, AtHead DEF Contents
<1>9. RerunsPass'
  BY <1>1, AtHead DEF RerunsPass
<1> QED BY <1>1, <1>4, <1>5, <1>7, <1>8, <1>9, AtHead, BeforeFinalize

LEMMA DropIndexesInv ==
  ASSUME SchemaInv, FinalizeInv', NEW t \in Tables, DropIndexes(t)
  PROVE  SchemaInv'
<1>1. /\ At(t, "indexes") /\ UNCHANGED vars /\ conf' = conf
      /\ ~conf.recreate /\ schema[t].keyed
  <2>1. At(t, "indexes") /\ UNCHANGED vars
    BY DEF DropIndexes, Refuse
  <2> QED BY <2>1, AtHead DEF Preparing, vars
<1>2. PICK r : r = [schema[t] EXCEPT !.index = << >>]
  OBVIOUS
<1>3. IsTable(r) /\ r.index = << >> /\ r.keyed = schema[t].keyed /\ r.fks = schema[t].fks
  <2>1. IsTable(schema[t])
    BY <1>1, AtHead
  <2> QED BY <1>2, <2>1, TableFields
<1>4. \/ schema' = schema
      \/ schema' = [schema EXCEPT ![t] = r]
  BY <1>2 DEF DropIndexes
<1>5. /\ SchemaRecords' /\ \A s \in Tables : s # t => schema'[s] = schema[s]
      /\ schema'[t] = schema[t] \/ schema'[t] = r
  BY <1>1, <1>3, <1>4, AtHead, TableChanged DEF SchemaRecords
<1>6. Contents'
  <2>1. ActionWritten' = ActionWritten /\ \A s : Names(s)' = Names(s)
    BY <1>1, ContentsKept DEF SameSource
  <2> QED BY <1>1, <1>3, <1>5, <2>1, AtHead DEF Contents
<1>7. CASE IndexNeeded(t)
  <2>1. stage' = "failed" /\ refusal' = <<"DROP INDEX", t>>
    BY <1>7 DEF DropIndexes, Refuse
  <2>2. PICK s \in Tables : schema[s].fks # {} /\ (conf.target = "mysql" \/ conf.byIndex # {})
    BY <1>7 DEF IndexNeeded, IndexReferenced, References
  <2>3. schema'[s].fks # {}
    BY <1>3, <1>5, <2>2
  <2>4. RerunsPass'
    BY <1>1, <2>2, <2>3 DEF RerunsPass
  <2>5. Preparing' /\ Prepared'
    BY <2>1 DEF Preparing, Prepared
  <2> QED BY <1>1, <1>5, <1>6, <2>1, <2>4, <2>5, AtHead, BeforeFinalize
<1>8. CASE ~IndexNeeded(t)
  <2>1. /\ schema' = [schema EXCEPT ![t] = r] /\ refusal' = refusal
        /\ \/ conf.unlogged /\ step' = "logging" /\ UNCHANGED <<stage, queue>>
           \/ NextTable
    BY <1>2, <1>8 DEF DropIndexes
  <2>2. schema'[t] = r
    BY <1>1, <1>3, <2>1, AtHead, TableChanged
  <2>3. Ready(t)'
    BY <1>1, <1>3, <2>2 DEF Ready
  <2>4. Preparing' /\ Prepared'
    <3>1. CASE NextTable
      BY <1>1, <1>5, <2>3, <3>1, AtHead, NextTablePrepared
    <3>2. CASE conf.unlogged /\ step' = "logging" /\ UNCHANGED <<stage, queue>>
      <4>1. \A s \in Tables : Ready(s) => Ready(s)'
        BY <1>1, <1>5, <2>3 DEF Ready
      <4>2. Prepared'
        BY <3>2, <4>1, AtHead, <1>1 DEF Prepared, Queued
      <4>3. Preparing'
        BY <1>1, <1>3, <2>2, <3>2, AtHead DEF Preparing
      <4> QED BY <4>2, <4>3
    <3> QED BY <2>1, <3>1, <3>2
  <2>5. refusal' = << >> /\ stage' \in {"prepare", "transfer"}
    BY <1>1, <2>1, AtHead DEF NextTable
  <2>6. RerunsPass'
    BY <2>5 DEF RerunsPass
  <2> QED BY <1>1, <1>5, <1>6, <2>4, <2>5, <2>6, AtHead, BeforeFinalize
<1> QED BY <1>7, <1>8

LEMMA SetUnloggedInv ==
  ASSUME SchemaInv, FinalizeInv', NEW t \in Tables, SetUnlogged(t)
  PROVE  SchemaInv'
<1>1. /\ At(t, "logging") /\ UNCHANGED vars /\ conf' = conf
      /\ ~conf.recreate /\ schema[t].keyed /\ schema[t].index = << >> /\ conf.unlogged
  <2>1. At(t, "logging") /\ UNCHANGED vars
    BY DEF SetUnlogged, Refuse
  <2> QED BY <2>1, AtHead DEF Preparing, vars
<1>2. CASE stage' = "failed" /\ refusal' = <<"SET UNLOGGED", t>> /\ UNCHANGED schema
           /\ \E s \in Tables : t \in References(s)
  <2>1. PICK s \in Tables : schema[s].fks # {}
    BY <1>2 DEF References
  <2>2. RerunsPass'
    BY <1>1, <1>2, <2>1 DEF RerunsPass
  <2>3. Preparing' /\ Prepared'
    BY <1>2 DEF Preparing, Prepared
  <2>4. SchemaRecords' /\ Contents'
    BY <1>1, <1>2, AtHead, ContentsKept DEF SchemaRecords, SameSource
  <2> QED BY <1>1, <1>2, <2>2, <2>3, <2>4, AtHead, BeforeFinalize
<1>3. CASE /\ schema' = [schema EXCEPT ![t].logged = @ /\ conf.target # "postgres"]
           /\ NextTable /\ refusal' = refusal
  <2>1. PICK v : v = (schema[t].logged /\ conf.target # "postgres")
    OBVIOUS
  <2>2. PICK r : r = [schema[t] EXCEPT !.logged = v]
    OBVIOUS
  <2>3. schema' = [schema EXCEPT ![t] = r]
    BY <1>3, <2>1, <2>2
  <2>4. IsTable(r) /\ r.index = schema[t].index /\ r.keyed = schema[t].keyed /\ r.fks = schema[t].fks
    <3>1. IsTable(schema[t])
      BY <1>1, AtHead
    <3> QED BY <2>2, <3>1, TableFields
  <2>5. SchemaRecords' /\ schema'[t] = r /\ \A s \in Tables : s # t => schema'[s] = schema[s]
    BY <1>1, <2>3, <2>4, AtHead, TableChanged
  <2>6. Ready(t)'
    BY <1>1, <2>4, <2>5 DEF Ready
  <2>7. Preparing' /\ Prepared'
    BY <1>1, <1>3, <2>5, <2>6, AtHead, NextTablePrepared
  <2>8. Contents'
    <3>1. ActionWritten' = ActionWritten /\ \A s : Names(s)' = Names(s)
      BY <1>1, ContentsKept DEF SameSource
    <3> QED BY <1>1, <2>4, <2>5, <3>1, AtHead DEF Contents
  <2>9. refusal' = << >> /\ stage' \in {"prepare", "transfer"}
    BY <1>1, <1>3, AtHead DEF NextTable
  <2>10. RerunsPass'
    BY <2>9 DEF RerunsPass
  <2> QED BY <1>1, <2>5, <2>7, <2>8, <2>9, <2>10, AtHead, BeforeFinalize
<1> QED BY <1>2, <1>3 DEF SetUnlogged, Refuse
-----------------------------------------------------------------------------
(* A run starts, transfers its tables, calls finalize, or is stopped.      *)

LEMMA SchemaInitInv == SchemaInit => SchemaInv
<1> SUFFICES ASSUME SchemaInit PROVE SchemaInv
  OBVIOUS
<1>1. FinalizeInv /\ phase = "idle" /\ "idle" \notin PhaseNames
  BY ResetInv, PhaseFacts DEF SchemaInit, Init
<1>2. ASSUME NEW t \in Tables
      PROVE  IsTable(schema[t]) /\ schema[t].keyed = FALSE /\ schema[t].index = << >>
             /\ schema[t].fks = {}
  <2>1. PICK b : b = (t \in conf.bare)
    OBVIOUS
  <2>2. schema[t] = [Absent EXCEPT !.there = t \in conf.bare]
    BY DEF SchemaInit
  <2>3. schema[t] = [Absent EXCEPT !.there = b]
    BY <2>1, <2>2, Zenon
  <2>4. schema[t] = [there |-> b, keyed |-> FALSE, logged |-> TRUE, index |-> << >>,
                     fks |-> {}, checked |-> FALSE]
    BY <2>3 DEF Absent
  <2> QED BY <2>4 DEF IsTable
<1>3. SchemaRecords
  BY <1>2 DEF SchemaInit, SchemaRecords
<1>4. StageInv /\ Preparing /\ Prepared /\ KeysReady /\ NoIndexYet /\ AllSettled /\ RerunsPass
  BY <1>1, PhaseFacts
     DEF SchemaInit, StageInv, Preparing, Prepared, KeysReady, NoIndexYet, AllSettled, RerunsPass
<1>5. Contents
  BY <1>2 DEF Contents
<1>6. TaskItems
  BY DEF SchemaInit, Init, TaskItems, NothingLeft
<1> QED BY <1>1, <1>3, <1>4, <1>5, <1>6 DEF SchemaInv, PrepareInv

LEMMA StartInv ==
  ASSUME SchemaInv, FinalizeInv', Start
  PROVE  SchemaInv'
<1>1. conf \in Confs /\ conf' \in Confs /\ schema' = schema /\ SchemaRecords /\ Contents
  BY DEF Start, SchemaInv, PrepareInv, FinalizeInv, TypeOK
<1>2. SameSource
  BY <1>1, TargetSchemaAssumption DEF Start, SameSource
<1>4. /\ stage' = "prepare" /\ queue' = conf.order /\ step' = "table" /\ refusal' = << >>
      /\ phase' = "idle" /\ todo' = {} /\ running' = {} /\ left' = NothingLeft
  BY DEF Start
<1>5. /\ conf.order \in Seq(Tables) /\ conf.order # << >>
      /\ \A t \in Tables : \E i \in DOMAIN conf.order : conf.order[i] = t
  <2>1. conf.order \in Seq(Tables) /\ {conf.order[i] : i \in DOMAIN conf.order} = Tables
    BY <1>1, TargetSchemaAssumption
  <2>2. conf.order # << >>
    BY <2>1, FinalizerAssumption
  <2> QED BY <2>1, <2>2
<1>6. SchemaRecords' /\ Contents'
  BY <1>1, <1>2, ContentsKept DEF SchemaRecords
<1>7. "idle" \notin PhaseNames
  BY PhaseFacts
<1>8. /\ StageInv' /\ Preparing' /\ KeysReady' /\ NoIndexYet' /\ AllSettled' /\ RerunsPass'
  BY <1>4, <1>5, <1>7
     DEF StageInv, Preparing, KeysReady, NoIndexYet, AllSettled, RerunsPass
<1>9. Prepared'
  <2>1. \A t \in Tables : Queued(t)'
    BY <1>4, <1>5 DEF Queued
  <2> QED BY <2>1 DEF Prepared
<1>10. TaskItems'
  BY <1>4 DEF TaskItems, NothingLeft
<1> QED BY <1>6, <1>8, <1>9, <1>10 DEF SchemaInv, PrepareInv

LEMMA StopInv ==
  ASSUME SchemaInv, FinalizeInv', Stop
  PROVE  SchemaInv'
<1>1. /\ stage' = "failed" /\ phase' = "idle" /\ left' = NothingLeft /\ running' = {} /\ todo' = {}
      /\ conf' = conf /\ schema' = schema /\ refusal' = << >>
  BY DEF Stop, SchemaInv, PrepareInv, StageInv
<1>2. "idle" \notin PhaseNames
  BY PhaseFacts
<1>3. SchemaRecords' /\ Contents'
  BY <1>1, ContentsKept DEF SchemaInv, PrepareInv, SchemaRecords, SameSource
<1>4. /\ StageInv' /\ Preparing' /\ Prepared' /\ KeysReady' /\ NoIndexYet' /\ AllSettled'
      /\ RerunsPass'
  BY <1>1, <1>2
     DEF StageInv, Preparing, Prepared, KeysReady, NoIndexYet, AllSettled, RerunsPass
<1>5. TaskItems'
  BY <1>1 DEF TaskItems, NothingLeft
<1> QED BY <1>3, <1>4, <1>5 DEF SchemaInv, PrepareInv

LEMMA TransferInv ==
  ASSUME SchemaInv, FinalizeInv', NEW t \in Tables, Transfer(t)
  PROVE  SchemaInv'
<1>1. /\ stage = "transfer" /\ UNCHANGED vars /\ conf' = conf /\ schema' = schema
      /\ refusal = << >> /\ stage' \in {"transfer", "failed"}
      /\ refusal' # << >> => stage' = "failed"
  BY DEF Transfer, Refuse, vars, SchemaInv, PrepareInv, StageInv
<1>2. SchemaRecords' /\ Contents'
  BY <1>1, ContentsKept DEF SchemaInv, PrepareInv, SchemaRecords, SameSource
<1>3. Preparing' /\ Prepared'
  BY <1>1 DEF SchemaInv, PrepareInv, Preparing, Prepared, Ready, Queued
<1>4. RerunsPass'
  <2>1. CASE refusal' = refusal
    BY <1>1, <2>1 DEF RerunsPass
  <2>2. CASE refusal' = <<"INSERT", t>> /\ References(t) # {}
    <3>1. schema[t].fks # {}
      BY <2>2 DEF References
    <3>2. ~conf.recreate
      BY <1>1, <3>1 DEF SchemaInv, PrepareInv, Prepared, Ready, Queued
    <3> QED BY <1>1, <2>2, <3>1, <3>2 DEF RerunsPass
  <2> QED BY <2>1, <2>2 DEF Transfer, Refuse
<1> QED BY <1>1, <1>2, <1>3, <1>4, BeforeFinalize

LEMMA BeginFinalizeInv ==
  ASSUME SchemaInv, FinalizeInv', BeginFinalize
  PROVE  SchemaInv'
<1>1. /\ stage = "transfer" /\ stage' = "finalize" /\ phase = "idle" /\ phase' = "pk" /\ level' = level
      /\ todo' = Batch("pk", 1)
      /\ UNCHANGED <<conf, running, left, schema, refusal>>
  BY DEF BeginFinalize, Begin
<1>2. /\ "pk" \in PhaseNames /\ "idle" \notin PhaseNames /\ Rank("pk") = 1
  BY PhaseFacts DEF Rank
<1>3. running = {} /\ refusal = << >>
  BY <1>1, <1>2 DEF SchemaInv, FinalizeInv, BatchInv, PrepareInv, StageInv
<1>4. SchemaRecords' /\ Contents'
  BY <1>1, ContentsKept DEF SchemaInv, PrepareInv, SchemaRecords, SameSource
<1>5. \A t \in Tables : Ready(t)
  BY <1>1 DEF SchemaInv, PrepareInv, Prepared, Queued
<1>6. StageInv' /\ Preparing' /\ Prepared' /\ RerunsPass'
  BY <1>1, <1>2, <1>3 DEF StageInv, Preparing, Prepared, RerunsPass
<1>7. KeysReady' /\ NoIndexYet'
  <2>1. conf.keyed \subseteq Tables
    BY FinalizerAssumption DEF SchemaInv, FinalizeInv, TypeOK
  <2> QED BY <1>1, <1>5, <2>1 DEF KeysReady, NoIndexYet, Ready
<1>8. TaskItems'
  BY <1>1, <1>3 DEF SchemaInv, TaskItems
<1>9. AllSettled'
  <2>1. \A t, item : Settled(phase, t, item)'
    BY <1>1 DEF Settled
  <2>2. BatchSettled'
    BY <2>1 DEF BatchSettled
  <2>3. LevelsSettled' /\ PhasesSettled'
    BY <1>1, <1>2 DEF LevelsSettled, PhasesSettled
  <2> QED BY <2>2, <2>3 DEF AllSettled
<1> QED BY <1>4, <1>6, <1>7, <1>8, <1>9 DEF SchemaInv, PrepareInv
-----------------------------------------------------------------------------
(* finalize only adds to the target.                                       *)
Grown ==
  /\ conf' = conf
  /\ \A t \in Tables :
       /\ schema'[t].logged = schema[t].logged
       /\ schema[t].index # << >> => schema'[t].index # << >>
       /\ schema[t].fks \subseteq schema'[t].fks
       /\ schema[t].checked => schema'[t].checked

LEMMA SettledKept ==
  ASSUME Grown, NEW ph, NEW t \in Tables, NEW item, Settled(ph, t, item)
  PROVE  Settled(ph, t, item)'
<1>1. Lost(t)' = Lost(t) /\ Lost(item)' = Lost(item)
  BY DEF Grown, Lost
<1>2. ph = "fk" => (KeyLost(t, item) => KeyLost(t, item)')
  BY <1>1 DEF Grown, KeyLost
<1>3. CASE ph = "index"
  BY <1>1, <1>3 DEF Settled, Grown
<1>4. CASE ph = "fk"
  BY <1>2, <1>4 DEF Settled, Grown
<1>5. CASE ph = "check"
  BY <1>5 DEF Settled, Grown
<1>6. CASE ph \notin {"index", "fk", "check"}
  BY <1>6 DEF Settled
<1> QED BY <1>3, <1>4, <1>5, <1>6

(* What was settled in levels and phases before is.                        *)
LEMMA PastSettled ==
  ASSUME SchemaInv, Grown, phase' = phase, level' = level,
         LevelsSettled, PhasesSettled
  PROVE  LevelsSettled' /\ PhasesSettled'
<1>1. conf \in Confs /\ conf' = conf /\ level \in 1..N
      /\ conf.indexed \subseteq Tables /\ conf.checked \subseteq Tables
  BY FinalizerAssumption DEF SchemaInv, FinalizeInv, TypeOK, Grown, N
<1>2. LevelsSettled'
  <2> SUFFICES ASSUME phase = "fk", NEW n \in 1..(level - 1), NEW t \in Level(n), NEW r \in conf.fks[t]
               PROVE  Settled("fk", t, r)'
    BY <1>1, LevelsStable DEF LevelsSettled
  <2>1. n \in 1..N
    BY <1>1, TablesCounted
  <2>2. t \in Tables /\ Settled("fk", t, r)
    BY <2>1, LevelTables DEF LevelsSettled
  <2> QED BY <2>2, SettledKept
<1>3. PhasesSettled'
  BY <1>1, SettledKept DEF PhasesSettled
<1> QED BY <1>2, <1>3

(* The rest of the invariant, for a step within a phase.                   *)
LEMMA WithinPhase ==
  ASSUME SchemaInv, FinalizeInv', phase \in PhaseNames, Grown,
         UNCHANGED <<conf, phase, level, stage, refusal>>,
         SchemaRecords', Contents', NoIndexYet', TaskItems',
         \A t \in conf.keyed : schema[t].keyed => schema'[t].keyed,
         ~troubled' => ~troubled,
         ~troubled' /\ ~troubled /\ BatchSettled /\ PhasesSettled => BatchSettled'
  PROVE  SchemaInv'
<1>1. stage = "finalize" /\ stage' = "finalize" /\ refusal' = << >>
  BY DEF SchemaInv, PrepareInv, StageInv
<1>2. StageInv' /\ Preparing' /\ Prepared' /\ RerunsPass'
  BY <1>1 DEF SchemaInv, PrepareInv, StageInv, Preparing, Prepared, RerunsPass
<1>3. KeysReady'
  BY <1>1 DEF SchemaInv, KeysReady
<1>4. AllSettled'
  BY <1>1, PastSettled DEF SchemaInv, AllSettled
<1> QED BY <1>2, <1>3, <1>4 DEF SchemaInv, PrepareInv

LEMMA SchemaStays ==
  ASSUME conf' = conf, schema' = schema, SchemaInv
  PROVE  SchemaRecords' /\ Contents' /\ Grown
BY ContentsKept DEF SchemaInv, PrepareInv, SchemaRecords, SameSource, Grown

LEMMA SchemaSpawnInv ==
  ASSUME SchemaInv, FinalizeInv', NEW t \in Tables, Spawn(t), UNCHANGED schemaVars
  PROVE  SchemaInv'
<1>0. /\ UNCHANGED <<conf, phase, level, stage, refusal, troubled, schema>>
      /\ t \in todo /\ todo' = todo \ {t} /\ running' = running \cup {t}
      /\ left' = [left EXCEPT ![t] = Items(t)]
  BY DEF Spawn, schemaVars
<1>1. phase \in PhaseNames /\ left \in [Tables -> SUBSET (Tables \cup {Outside} \cup PhaseNames)]
  BY <1>0 DEF SchemaInv, FinalizeInv, BatchInv, TypeOK
<1>2. left'[t] = Items(t) /\ \A s \in Tables : s # t => left'[s] = left[s]
  BY <1>0, <1>1
<1>3. \A s : Items(s)' = Items(s)
  BY <1>0 DEF Items
<1>4. TaskItems'
  BY <1>0, <1>2, <1>3 DEF SchemaInv, TaskItems
<1>5. NoIndexYet'
  BY <1>0, <1>2 DEF SchemaInv, NoIndexYet
<1>6. BatchSettled => BatchSettled'
  <2>1. Batch(phase, level)' = Batch(phase, level) /\ Batch(phase, level) \subseteq Tables
    BY <1>0, BatchStable, BatchTables DEF SchemaInv, FinalizeInv, TypeOK, N
  <2>2. ASSUME BatchSettled, stage = "finalize", NEW s \in Batch(phase, level) \ todo',
               NEW item \in Items(s) \ left'[s]
        PROVE  Settled(phase, s, item)'
    <3>1. s # t
      BY <1>2, <2>2
    <3>2. s \in Batch(phase, level) \ todo /\ item \in Items(s) \ left[s]
      BY <1>0, <1>2, <2>1, <3>1
    <3>3. Settled(phase, s, item)
      BY <2>2, <3>2 DEF BatchSettled
    <3>4. Grown /\ s \in Tables
      BY <1>0, <2>1, SchemaStays
    <3>5. PICK p : p = phase
      OBVIOUS
    <3>6. Settled(p, s, item)'
      BY <3>3, <3>4, <3>5, SettledKept
    <3> QED BY <1>0, <3>5, <3>6
  <2> QED BY <1>0, <1>3, <2>1, <2>2 DEF BatchSettled
<1> QED BY <1>0, <1>1, <1>4, <1>5, <1>6, SchemaStays, WithinPhase

(* A task ends, panics, or one of its statements fails.                    *)
LEMMA NothingAdded ==
  ASSUME SchemaInv, FinalizeInv', NEW t \in running,
         UNCHANGED <<conf, phase, level, todo, stage, refusal, schema>>,
         \A s \in Tables : left'[s] \subseteq left[s],
         running' = running \/ (running' = running \ {t} /\ left'[t] = {}),
         troubled' \/ (left' = left /\ troubled' = troubled)
  PROVE  SchemaInv'
<1>1. phase \in PhaseNames
  BY DEF SchemaInv, FinalizeInv, BatchInv
<1>2. \A s : Items(s)' = Items(s)
  BY DEF Items
<1>3. TaskItems'
  BY <1>2 DEF SchemaInv, TaskItems
<1>4. NoIndexYet'
  BY DEF SchemaInv, NoIndexYet
<1>5. ~troubled' /\ BatchSettled => BatchSettled'
  <2>1. Batch(phase, level)' = Batch(phase, level) /\ Batch(phase, level) \subseteq Tables
    BY BatchStable, BatchTables DEF SchemaInv, FinalizeInv, TypeOK, N
  <2>2. ASSUME ~troubled', BatchSettled, stage = "finalize", NEW s \in Batch(phase, level) \ todo,
               NEW item \in Items(s) \ left[s]
        PROVE  Settled(phase, s, item)'
    <3>1. Grown /\ s \in Tables
      BY <2>1, SchemaStays
    <3>2. Settled(phase, s, item)
      BY <2>2 DEF BatchSettled
    <3>3. PICK p : p = phase
      OBVIOUS
    <3>4. Settled(p, s, item)'
      BY <3>1, <3>2, <3>3, SettledKept
    <3> QED BY <3>3, <3>4
  <2> QED BY <1>2, <2>1, <2>2 DEF BatchSettled
<1> QED BY <1>1, <1>3, <1>4, <1>5, SchemaStays, WithinPhase

LEMMA EndOrTroubleInv ==
  ASSUME SchemaInv, FinalizeInv', NEW t \in Tables,
         Trouble(t) \/ (TaskEnds(t) /\ UNCHANGED schemaVars)
  PROVE  SchemaInv'
<1>1. left \in [Tables -> SUBSET (Tables \cup {Outside} \cup PhaseNames)]
  BY DEF SchemaInv, FinalizeInv, TypeOK
<1>2. CASE TaskEnds(t) /\ UNCHANGED schemaVars
  BY <1>2, NothingAdded DEF TaskEnds, schemaVars
<1>3. CASE Trouble(t)
  <2>1. /\ t \in running /\ troubled' = TRUE
        /\ UNCHANGED <<conf, phase, level, todo, stage, refusal, schema>>
    BY <1>3 DEF Trouble, TaskPanics, Create
  <2>2. CASE TaskPanics(t)
    <3>1. left'[t] = {} /\ \A s \in Tables : left'[s] \subseteq left[s]
      BY <1>1, <2>2 DEF TaskPanics
    <3>2. running' = running \ {t}
      BY <2>2 DEF TaskPanics
    <3> QED BY <2>1, <3>1, <3>2, NothingAdded
  <2>3. ASSUME NEW item \in left[t], Create(t, item, FALSE)
        PROVE  SchemaInv'
    <3>1. \A s \in Tables : left'[s] \subseteq left[s]
      BY <1>1, <2>3 DEF Create
    <3>2. running' = running
      BY <2>3 DEF Create
    <3> QED BY <2>1, <3>1, <3>2, NothingAdded
  <2> QED BY <1>3, <2>2, <2>3 DEF Trouble
<1> QED BY <1>2, <1>3

LEMMA ThreeElements ==
  ASSUME NEW a, NEW b, NEW c, a # b, a # c, b # c
  PROVE  Cardinality({a, b, c}) = 3 /\ IsFiniteSet({a, b, c})
<1>1. IsFiniteSet({a}) /\ Cardinality({a}) = 1
  BY FS_Singleton
<1>2. PICK S : S = {a}
  OBVIOUS
<1>3. b \notin S /\ IsFiniteSet(S) /\ Cardinality(S) = 1
  BY <1>1, <1>2
<1>4. IsFiniteSet(S \cup {b}) /\ Cardinality(S \cup {b}) = Cardinality(S) + 1
  BY <1>3, FS_AddElement
<1>5. PICK T : T = S \cup {b}
  OBVIOUS
<1>6. c \notin T /\ IsFiniteSet(T) /\ Cardinality(T) = 2
  BY <1>2, <1>3, <1>4, <1>5
<1>7. IsFiniteSet(T \cup {c}) /\ Cardinality(T \cup {c}) = Cardinality(T) + 1
  BY <1>6, FS_AddElement
<1>8. T \cup {c} = {a, b, c}
  BY <1>2, <1>5
<1> QED BY <1>6, <1>7, <1>8

(* An index that is refused is lost.                                       *)
LEMMA IndexRefused ==
  ASSUME SchemaInv, NEW t \in conf.indexed, schema[t].index = << >>, ~IndexAccepted(t)
  PROVE  Lost(t)
<1>0. conf.indexed \subseteq Tables /\ Contents
  BY FinalizerAssumption DEF SchemaInv, FinalizeInv, TypeOK, PrepareInv
<1>1. CASE conf.target = "mssql"
  BY <1>0, <1>1 DEF IndexAccepted, Contents, Lost
<1>2. CASE conf.target = "postgres"
  <2> DEFINE n == conf.names[t]
             S == {s \in conf.indexed : conf.names[s] = n}
  <2>1. NameTaken(IndexName(t))
    BY <1>2 DEF IndexAccepted
  <2>2. NameTaken(<<n>>)
    BY <1>2, <2>1 DEF IndexName
  <2>3. NameTaken(<<"ix_", n>>)
    BY <1>2, <2>1, <2>2 DEF IndexName
  <2>4. PICK s1 \in Tables : schema[s1].index = <<n>>
    BY <2>2 DEF NameTaken
  <2>5. PICK s2 \in Tables : schema[s2].index = <<"ix_", n>>
    BY <2>3 DEF NameTaken
  <2> HIDE DEF n
  <2>6. \A m : <<n>> # <<"ix_", m>> /\ <<n>> # << >> /\ <<"ix_", n>> # << >> /\ <<"ix_", n>> # <<m>>
    OBVIOUS
  <2>7. s1 \in S /\ s2 \in S /\ t \in S /\ s1 # s2 /\ s1 # t /\ s2 # t
    <3>1. s1 \in conf.indexed /\ s2 \in conf.indexed
      BY <1>0, <2>4, <2>5, <2>6 DEF Contents
    <3>2. <<n>> \in {<<conf.names[s1]>>, <<"ix_", conf.names[s1]>>}
      BY <1>0, <2>4, <2>6 DEF Contents, Names
    <3>3. <<"ix_", n>> \in {<<conf.names[s2]>>, <<"ix_", conf.names[s2]>>}
      BY <1>0, <2>5, <2>6 DEF Contents, Names
    <3>4. conf.names[s1] = n
      BY <2>6, <3>2
    <3>5. conf.names[s2] = n
      BY <2>6, <3>3
    <3>6. conf.names[t] = n
      BY DEF n
    <3> QED BY <2>4, <2>5, <2>6, <3>1, <3>4, <3>5, <3>6
  <2>8. Cardinality({s1, s2, t}) = 3 /\ IsFiniteSet({s1, s2, t})
    BY <2>7, ThreeElements
  <2>9. IsFiniteSet(S) /\ {s1, s2, t} \subseteq S
    <3>1. S \subseteq Tables
      BY <1>0
    <3> QED BY <2>7, <3>1, FinalizerAssumption, FS_Subset
  <2>10. 3 <= Cardinality(S) /\ Cardinality(S) \in Nat
    <3> HIDE DEF S
    <3>1. Cardinality({s1, s2, t}) <= Cardinality(S)
      BY <2>9, FS_Subset
    <3>2. Cardinality(S) \in Nat
      BY <2>9, FS_CardinalityType
    <3> QED BY <2>8, <3>1, <3>2
  <2> QED BY <1>2, <2>10 DEF Lost, n
<1> QED BY <1>1, <1>2 DEF IndexAccepted

(* The action that is put is the one of the source, but for what is lost.  *)
LEMMA ActionsWritten ==
  ASSUME conf \in Confs, conf.source # "mysql", ~(conf.action = "RESTRICT" /\ conf.target # "mysql")
  PROVE  ActionWritten = conf.action
<1>1. conf.action \in {"NO_ACTION", "CASCADE", "RESTRICT"}
  BY TargetSchemaAssumption
<1>2. ActionRead = conf.action
  BY DEF ActionRead
<1> QED BY <1>1, <1>2 DEF ActionWritten

(* So is a foreign key that is refused, unless it is there.                *)
LEMMA ForeignKeyRefused ==
  ASSUME SchemaInv, stage = "finalize", phase = "fk", PhasesSettled,
         NEW t \in Tables, NEW r \in conf.fks[t], ~ForeignKeyAccepted(t, r)
  PROVE  Settled("fk", t, r)
<1> SUFFICES ASSUME ~KeyLost(t, r) PROVE <<r, conf.action>> \in schema[t].fks
  BY DEF Settled
<1>1. /\ r \in Tables /\ conf.source # "mysql" /\ ~(conf.action = "RESTRICT" /\ conf.target # "mysql")
      /\ ~(conf.source = "postgres" /\ conf.composite)
      /\ schema[t].logged => schema[r].logged
      /\ r \in conf.byIndex => ~Lost(r)
  BY DEF KeyLost
<1>2. conf \in Confs /\ ActionWritten = conf.action
  BY <1>1, ActionsWritten DEF SchemaInv, FinalizeInv, TypeOK
<1>3. conf.target = "mssql" => ActionWritten \notin {"", "RESTRICT"}
  <2>1. conf.action \in {"NO_ACTION", "CASCADE", "RESTRICT"}
    BY <1>2, TargetSchemaAssumption
  <2> QED BY <1>1, <1>2, <2>1
<1>4. r \in conf.byIndex => schema[r].index # << >>
  <2>1. r \in conf.byIndex => r \in conf.indexed
    BY <1>2, TargetSchemaAssumption
  <2>2. Rank("fk") = 3
    BY DEF Rank
  <2>3. r \in conf.byIndex => Settled("index", r, "index")
    BY <2>1, <2>2 DEF PhasesSettled
  <2> QED BY <1>1, <2>3 DEF Settled
<1>5. r \notin conf.byIndex => schema[r].keyed
  <2>1. r \in conf.keyed \cup conf.byIndex
    BY <1>1, <1>2, TargetSchemaAssumption
  <2> QED BY <2>1 DEF SchemaInv, KeysReady
<1>6. r \in References(t)
  BY <1>1, <1>3, <1>4, <1>5 DEF ForeignKeyAccepted
<1>7. PICK f \in schema[t].fks : f[1] = r
  BY <1>6 DEF References
<1>8. PICK u \in Tables : f = <<u, ActionWritten>>
  BY <1>7 DEF SchemaInv, PrepareInv, Contents
<1> QED BY <1>2, <1>7, <1>8

(* A statement that succeeds creates what the source has.                  *)
LEMMA CreatedKept ==
  ASSUME SchemaInv, conf' = conf, NEW t \in Batch(phase, level), t \in Tables, NEW item \in Items(t),
         Accepted(t, item), schema' = Created(t, item)
  PROVE  /\ SchemaRecords' /\ Contents' /\ Grown
         /\ \A s \in Tables : s # t => schema'[s] = schema[s]
         /\ schema[t].keyed => schema'[t].keyed
         /\ phase # "index" => schema'[t].index = schema[t].index
<1>0. SchemaRecords /\ Contents /\ IsTable(schema[t])
  BY DEF SchemaInv, PrepareInv, SchemaRecords
<1>1. ActionWritten' = ActionWritten /\ \A s : Names(s)' = Names(s)
  BY ContentsKept DEF SameSource
<1>2. PICK old : old = schema[t]
  OBVIOUS
<1>3. IsTable(old)
  BY <1>0, <1>2
<1>4. SUFFICES ASSUME NEW r, IsTable(r), schema' = [schema EXCEPT ![t] = r],
                      r.logged = old.logged,
                      old.keyed => r.keyed, r.keyed => t \in conf.keyed,
                      old.index # << >> => r.index # << >>, phase # "index" => r.index = old.index,
                      r.index # << >> => t \in conf.indexed /\ r.index \in Names(t),
                      old.fks \subseteq r.fks,
                      \A f \in r.fks : \E u \in Tables : f = <<u, ActionWritten>>,
                      old.checked => r.checked
               PROVE  /\ SchemaRecords' /\ Contents' /\ Grown
                      /\ \A s \in Tables : s # t => schema'[s] = schema[s]
                      /\ schema[t].keyed => schema'[t].keyed
                      /\ phase # "index" => schema'[t].index = schema[t].index
  <2>0. /\ old.keyed => t \in conf.keyed
        /\ old.index # << >> => t \in conf.indexed /\ old.index \in Names(t)
        /\ \A f \in old.fks : \E u \in Tables : f = <<u, ActionWritten>>
    BY <1>0, <1>2 DEF Contents
  <2>1. CASE phase = "pk"
    <3>1. PICK v : v = TRUE
      OBVIOUS
    <3>2. schema' = [schema EXCEPT ![t] = [old EXCEPT !.keyed = v]] /\ t \in conf.keyed
      BY <1>2, <2>1, <3>1 DEF Created, Batch
    <3>3. PICK r : r = [old EXCEPT !.keyed = v]
      OBVIOUS
    <3>4. /\ IsTable(r) /\ r.keyed = v /\ r.logged = old.logged /\ r.index = old.index
          /\ r.fks = old.fks /\ r.checked = old.checked
      BY <1>3, <3>3 DEF IsTable
    <3> QED BY <1>4, <2>0, <3>1, <3>2, <3>3, <3>4
  <2>2. CASE phase = "index"
    <3>1. PICK v : v = IndexName(t)
      OBVIOUS
    <3>2. schema' = [schema EXCEPT ![t] = [old EXCEPT !.index = v]] /\ t \in conf.indexed
      BY <1>2, <2>2, <3>1 DEF Created, Batch
    <3>3. v \in Names(t) /\ v # << >>
      BY <3>1 DEF IndexName, Names
    <3>4. PICK r : r = [old EXCEPT !.index = v]
      OBVIOUS
    <3>5. /\ IsTable(r) /\ r.keyed = old.keyed /\ r.logged = old.logged /\ r.index = v
          /\ r.fks = old.fks /\ r.checked = old.checked
      BY <1>3, <3>4 DEF IsTable
    <3> QED BY <1>4, <2>0, <2>2, <3>2, <3>3, <3>4, <3>5
  <2>3. CASE phase = "fk"
    <3>1. item \in Tables
      BY <2>3 DEF Accepted, ForeignKeyAccepted
    <3>2. PICK v : v = old.fks \cup {<<item, ActionWritten>>}
      OBVIOUS
    <3>3. schema' = [schema EXCEPT ![t] = [old EXCEPT !.fks = v]]
      BY <1>2, <2>3, <3>2 DEF Created
    <3>4. PICK r : r = [old EXCEPT !.fks = v]
      OBVIOUS
    <3>5. /\ IsTable(r) /\ r.keyed = old.keyed /\ r.logged = old.logged /\ r.index = old.index
          /\ r.fks = v /\ r.checked = old.checked
      BY <1>3, <3>4, TableFields
    <3> QED BY <1>4, <2>0, <3>1, <3>2, <3>3, <3>4, <3>5
  <2>4. CASE phase = "check"
    <3>1. schema' = [schema EXCEPT ![t] = [old EXCEPT !.checked = TRUE]]
      BY <1>2, <2>4 DEF Created
    <3>2. PICK r : r = [old EXCEPT !.checked = TRUE]
      OBVIOUS
    <3>3. /\ IsTable(r) /\ r.keyed = old.keyed /\ r.logged = old.logged /\ r.index = old.index
          /\ r.fks = old.fks /\ r.checked = TRUE
      BY <1>3, <3>2, TableFields
    <3> QED BY <1>4, <2>0, <3>1, <3>2, <3>3
  <2>5. CASE phase \notin {"pk", "index", "fk", "check"}
    <3>1. schema' = schema
      BY <2>5 DEF Created
    <3> QED BY <3>1, SchemaStays
  <2> QED BY <2>1, <2>2, <2>3, <2>4, <2>5
<1>5. SchemaRecords' /\ schema'[t] = r /\ \A s \in Tables : s # t => schema'[s] = schema[s]
  BY <1>0, <1>4, TableChanged
<1>6. Contents'
  BY <1>0, <1>1, <1>4, <1>5 DEF Contents
<1>7. Grown
  BY <1>2, <1>4, <1>5 DEF Grown
<1> QED BY <1>2, <1>4, <1>5, <1>6, <1>7

(* A statement settles its item.                                           *)
LEMMA ItemSettled ==
  ASSUME SchemaInv, conf' = conf, phase' = phase, stage = "finalize", PhasesSettled,
         NEW t \in Batch(phase, level), t \in Tables, NEW item \in left[t], left[t] \subseteq Items(t),
         IF Accepted(t, item) THEN schema' = Created(t, item) ELSE schema' = schema
  PROVE  Settled(phase, t, item)'
<1>0. conf \in Confs /\ SchemaRecords /\ IsTable(schema[t])
  BY DEF SchemaInv, FinalizeInv, TypeOK, PrepareInv, SchemaRecords
<1>1. PICK old : old = schema[t]
  OBVIOUS
<1>2. IsTable(old) /\ DOMAIN schema = Tables
  BY <1>0, <1>1 DEF SchemaRecords
<1>3. CASE phase = "index"
  <2>1. t \in conf.indexed /\ schema[t].index = << >>
    BY <1>3 DEF Batch, SchemaInv, NoIndexYet
  <2>2. CASE Accepted(t, item)
    <3>1. schema' = [schema EXCEPT ![t] = [old EXCEPT !.index = IndexName(t)]]
      BY <1>1, <1>3, <2>2 DEF Created
    <3>2. IndexName(t) # << >>
      BY DEF IndexName
    <3>3. PICK v : v = IndexName(t)
      OBVIOUS
    <3>4. schema'[t] = [old EXCEPT !.index = v]
      BY <1>2, <3>1, <3>3
    <3>5. schema'[t].index = v
      BY <1>2, <3>4, TableFields
    <3> QED BY <1>3, <3>2, <3>3, <3>5 DEF Settled
  <2>3. CASE ~Accepted(t, item)
    <3>1. Lost(t) /\ Lost(t)' = Lost(t)
      BY <1>3, <2>1, <2>3, IndexRefused DEF Accepted, Lost
    <3> QED BY <1>3, <3>1 DEF Settled
  <2> QED BY <2>2, <2>3
<1>4. CASE phase = "fk"
  <2>1. item \in conf.fks[t]
    BY <1>4 DEF Items
  <2>2. CASE Accepted(t, item)
    <3>1. PICK v : v = old.fks \cup {<<item, ActionWritten>>}
      OBVIOUS
    <3>2. schema' = [schema EXCEPT ![t] = [old EXCEPT !.fks = v]]
      BY <1>1, <1>4, <2>2, <3>1 DEF Created
    <3>3. schema'[t] = [old EXCEPT !.fks = v]
      BY <1>2, <3>2
    <3>4. schema'[t].fks = v
      BY <1>2, <3>3, TableFields
    <3>5. conf.source # "mysql" /\ ~(conf.action = "RESTRICT" /\ conf.target # "mysql")
          => ActionWritten = conf.action
      BY <1>0, ActionsWritten
    <3>6. KeyLost(t, item)' \/ <<item, conf.action>> \in schema'[t].fks
      BY <3>1, <3>4, <3>5 DEF KeyLost
    <3> QED BY <1>4, <3>6 DEF Settled
  <2>3. CASE ~Accepted(t, item)
    <3>1. Settled("fk", t, item) /\ Grown
      BY <1>4, <2>1, <2>3, ForeignKeyRefused, SchemaStays DEF Accepted
    <3> QED BY <1>4, <3>1, SettledKept
  <2> QED BY <2>2, <2>3
<1>5. CASE phase = "check"
  <2>1. CASE Accepted(t, item)
    <3>1. schema'[t] = [old EXCEPT !.checked = TRUE]
      BY <1>1, <1>2, <1>5, <2>1 DEF Created
    <3>2. schema'[t].checked = TRUE
      BY <1>2, <3>1, TableFields
    <3> QED BY <1>5, <3>2 DEF Settled
  <2>2. CASE ~Accepted(t, item)
    BY <1>5, <2>2 DEF Accepted, CheckAccepted, Settled
  <2> QED BY <2>1, <2>2
<1>6. CASE phase \notin {"index", "fk", "check"}
  BY <1>6 DEF Settled
<1> QED BY <1>3, <1>4, <1>5, <1>6

LEMMA ExecuteInv ==
  ASSUME SchemaInv, FinalizeInv', NEW t \in Tables, Execute(t)
  PROVE  SchemaInv'
<1>0. PICK item \in left[t] :
        /\ t \in running /\ left' = [left EXCEPT ![t] = @ \ {item}]
        /\ UNCHANGED <<conf, phase, level, todo, running, stage, refusal, troubled>>
        /\ IF Accepted(t, item) THEN schema' = Created(t, item) ELSE schema' = schema
  BY DEF Execute, Create
<1>1. /\ phase \in PhaseNames /\ stage = "finalize" /\ t \in Batch(phase, level) /\ t \notin todo
      /\ left[t] \subseteq Items(t)
  BY <1>0 DEF SchemaInv, FinalizeInv, BatchInv, PrepareInv, StageInv, TaskItems
<1>2. /\ left'[t] = left[t] \ {item} /\ \A s \in Tables : s # t => left'[s] = left[s]
  BY <1>0 DEF SchemaInv, FinalizeInv, TypeOK
<1>3. /\ SchemaRecords' /\ Contents' /\ Grown
      /\ \A s \in Tables : s # t => schema'[s] = schema[s]
      /\ schema[t].keyed => schema'[t].keyed
      /\ phase # "index" => schema'[t].index = schema[t].index
  <2>1. CASE Accepted(t, item)
    BY <1>0, <1>1, <2>1, CreatedKept
  <2>2. CASE ~Accepted(t, item)
    BY <1>0, <2>2, SchemaStays
  <2> QED BY <2>1, <2>2
<1>4. \A s : Items(s)' = Items(s)
  BY <1>0 DEF Items
<1>5. TaskItems'
  BY <1>0, <1>2, <1>4 DEF SchemaInv, TaskItems
<1>6. NoIndexYet'
  <2>1. Rank(phase) < 2 => phase # "index"
    BY DEF Rank
  <2>2. phase = "index" => left'[t] = {}
    BY <1>1, <1>2 DEF Items
  <2> QED BY <1>0, <1>1, <1>2, <1>3, <2>1, <2>2 DEF SchemaInv, NoIndexYet
<1>7. BatchSettled /\ PhasesSettled => BatchSettled'
  <2>1. Batch(phase, level)' = Batch(phase, level) /\ Batch(phase, level) \subseteq Tables
    BY <1>0, BatchStable, BatchTables DEF SchemaInv, FinalizeInv, TypeOK, N
  <2>2. ASSUME BatchSettled, PhasesSettled, NEW s \in Batch(phase, level) \ todo,
               NEW i \in Items(s) \ left'[s]
        PROVE  Settled(phase, s, i)'
    <3>1. CASE s = t /\ i = item
      BY <1>0, <1>1, <2>2, <3>1, ItemSettled
    <3>2. CASE ~(s = t /\ i = item)
      <4>1. i \in Items(s) \ left[s] /\ s \in Tables
        BY <1>2, <2>1, <3>2
      <4>2. PICK p : p = phase
        OBVIOUS
      <4>3. Settled(p, s, i)
        BY <1>1, <2>2, <4>1, <4>2 DEF BatchSettled
      <4>4. Settled(p, s, i)'
        BY <1>3, <4>1, <4>3, SettledKept
      <4> QED BY <1>0, <4>2, <4>4
    <3> QED BY <3>1, <3>2
  <2> QED BY <1>0, <1>4, <2>1, <2>2 DEF BatchSettled
<1>8. \A s \in conf.keyed : schema[s].keyed => schema'[s].keyed
  <2>1. conf.keyed \subseteq Tables
    BY FinalizerAssumption DEF SchemaInv, FinalizeInv, TypeOK
  <2> QED BY <1>3, <2>1
<1> QED BY <1>0, <1>1, <1>3, <1>5, <1>6, <1>7, <1>8, WithinPhase

(* When its tasks are joined, all of a batch is settled.                   *)
LEMMA JoinedSettled ==
  ASSUME SchemaInv, Join, ~troubled
  PROVE  /\ stage = "finalize" /\ refusal = << >> /\ \A s \in Tables : left[s] = {}
         /\ \A s \in Batch(phase, level) : \A item \in Items(s) : Settled(phase, s, item)
         /\ LevelsSettled /\ PhasesSettled
<1>1. phase \in PhaseNames /\ todo = {} /\ running = {}
  BY DEF Join, AllJoined
<1>2. stage = "finalize" /\ refusal = << >>
  BY <1>1 DEF SchemaInv, PrepareInv, StageInv
<1>3. \A s \in Tables : left[s] = {}
  BY <1>1 DEF SchemaInv, TaskItems
<1>4. BatchSettled /\ LevelsSettled /\ PhasesSettled
  BY <1>2 DEF SchemaInv, AllSettled
<1>5. Batch(phase, level) \subseteq Tables
  BY BatchTables DEF SchemaInv, FinalizeInv, TypeOK, N
<1> QED BY <1>1, <1>2, <1>3, <1>4, <1>5 DEF BatchSettled

(* Nothing of the schema depends on how far finalize is.                   *)
LEMMA SettledSame ==
  ASSUME conf' = conf, schema' = schema
  PROVE  \A ph, s, item : Settled(ph, s, item)' = Settled(ph, s, item)
BY DEF Settled, KeyLost, Lost

LEMMA JoinSettled ==
  ASSUME SchemaInv, FinalizeInv', JoinTasks, ~troubled, stage' \in {"finalize", "done"}
  PROVE  BatchSettled' /\ LevelsSettled' /\ PhasesSettled'
<1>0. /\ Join /\ UNCHANGED <<conf, schema>> /\ todo' = Batch(phase, level)'
      /\ stage' = CASE phase' = "ok" -> "done" [] phase' = "err" -> "failed" [] OTHER -> stage
  <2>1. Join /\ UNCHANGED <<conf, schema>>
    BY DEF JoinTasks, Join
  <2>2. PICK p, l : p = phase' /\ l = level'
    OBVIOUS
  <2>3. todo' = Batch(p, l) /\ Batch(p, l)' = Batch(p, l)
    BY <2>1, <2>2, BatchStable DEF Join
  <2> QED BY <2>1, <2>2, <2>3 DEF JoinTasks
<1>1. /\ \A s \in Batch(phase, level) : \A item \in Items(s) : Settled(phase, s, item)
      /\ LevelsSettled /\ PhasesSettled
  BY <1>0, JoinedSettled
<1>2. \A ph, s, item : Settled(ph, s, item)' = Settled(ph, s, item)
  BY <1>0, SettledSame
<1>3. BatchSettled'
  BY <1>0 DEF BatchSettled
<1>4. level \in 1..N /\ N \in Nat /\ conf.indexed \subseteq Tables /\ conf.checked \subseteq Tables
      /\ conf.fks \in [Tables -> SUBSET (Tables \cup {Outside})]
  BY FinalizerAssumption, TablesCounted DEF SchemaInv, FinalizeInv, TypeOK, N
<1>5. phase = "fk" => \A t \in Level(level) : \A r \in conf.fks[t] : Settled("fk", t, r)
  BY <1>1 DEF Batch, Items
<1>6. CASE phase = "fk" /\ level < LevelCount
  <2>1. phase' = phase /\ level' = level + 1
    BY <1>0, <1>6 DEF Join
  <2>2. PhasesSettled'
    BY <1>0, <1>1, <1>2, <2>1 DEF PhasesSettled
  <2>3. ASSUME NEW n \in 1..((level + 1) - 1), NEW t \in Level(n), NEW r \in conf.fks[t]
        PROVE  Settled("fk", t, r)
    <3>1. n = level \/ n \in 1..(level - 1)
      BY <1>4
    <3> QED BY <1>1, <1>5, <1>6, <2>3, <3>1 DEF LevelsSettled
  <2>4. LevelsSettled'
    BY <1>0, <1>2, <2>1, <2>3, LevelsStable DEF LevelsSettled
  <2> QED BY <1>3, <2>2, <2>4
<1>7. CASE ~(phase = "fk" /\ level < LevelCount)
  <2>1. level' = 1 /\ phase' = NextPhase /\ phase \in PhaseNames
    BY <1>0, <1>7 DEF Join
  <2>2. LevelsSettled'
    BY <2>1 DEF LevelsSettled
  <2>3. \/ phase = "pk" /\ phase' = "index"
        \/ phase = "index" /\ phase' = "fk"
        \/ phase = "fk" /\ phase' = "check"
        \/ phase = "check" /\ phase' = "sequence"
        \/ phase = "sequence" /\ phase' = "ok"
    <3>1. phase' # "err"
      BY <1>0
    <3>2. KeysFailed => phase = "pk"
      BY DEF KeysFailed
    <3> QED BY <2>1, <3>1, <3>2, PhaseEnds, PhaseFacts
  <2>4. /\ Rank("pk") = 1 /\ Rank("index") = 2 /\ Rank("fk") = 3
        /\ Rank("check") = 4 /\ Rank("sequence") = 5 /\ Rank("ok") = 6
    BY DEF Rank
  <2>5. 2 < Rank(phase') => \A t \in conf.indexed : Settled("index", t, "index")
    <3>1. CASE phase = "index"
      BY <1>1, <3>1 DEF Batch, Items
    <3> QED BY <1>1, <2>3, <2>4, <3>1 DEF PhasesSettled
  <2>6. 3 < Rank(phase') => \A t \in Tables : \A r \in conf.fks[t] : Settled("fk", t, r)
    <3>1. ASSUME phase = "fk", NEW t \in Tables, NEW r \in conf.fks[t]
          PROVE  Settled("fk", t, r)
      <4>1. PICK n \in 1..LevelCount : t \in Level(n)
        BY EveryTableHasLevel
      <4>2. LevelCount \in Nat /\ LevelCount <= level
        BY <1>4, <1>7, <3>1, LevelsCounted
      <4>3. n = level \/ n \in 1..(level - 1)
        BY <1>4, <4>2
      <4> QED BY <1>1, <1>5, <3>1, <4>1, <4>3 DEF LevelsSettled
    <3> QED BY <1>1, <2>3, <2>4, <3>1 DEF PhasesSettled
  <2>7. 4 < Rank(phase') => \A t \in conf.checked : Settled("check", t, "check")
    <3>1. CASE phase = "check"
      BY <1>1, <3>1 DEF Batch, Items
    <3> QED BY <1>1, <2>3, <2>4, <3>1 DEF PhasesSettled
  <2>8. PhasesSettled'
    BY <1>0, <1>2, <2>5, <2>6, <2>7 DEF PhasesSettled
  <2> QED BY <1>3, <2>2, <2>8
<1> QED BY <1>6, <1>7

LEMMA JoinTasksInv ==
  ASSUME SchemaInv, FinalizeInv', JoinTasks
  PROVE  SchemaInv'
<1>0. /\ Join /\ UNCHANGED <<conf, schema, running, left, refusal, troubled>>
      /\ stage' = CASE phase' = "ok" -> "done" [] phase' = "err" -> "failed" [] OTHER -> stage
  BY DEF JoinTasks, Join
<1>1. /\ phase \in PhaseNames /\ todo = {} /\ running = {}
      /\ stage = "finalize" /\ refusal = << >>
  BY <1>0 DEF Join, AllJoined, SchemaInv, PrepareInv, StageInv
<1>2. phase' \in PhaseNames \cup {"ok", "err"} /\ (phase' = "index" => phase = "pk")
      /\ phase' # "pk"
  <2>1. CASE phase' = phase
    <3>1. phase = "fk"
      BY <1>0, <1>1, <2>1, PhaseEnds, PhaseFacts DEF Join
    <3> QED BY <1>1, <2>1, <3>1
  <2>2. CASE phase' # phase
    <3>1. phase' = NextPhase
      BY <1>0, <2>2 DEF Join
    <3> QED BY <1>1, <3>1, PhaseEnds, PhaseFacts
  <2> QED BY <2>1, <2>2
<1>3. "ok" \notin PhaseNames /\ "err" \notin PhaseNames
  BY PhaseFacts
<1>4. SchemaRecords' /\ Contents'
  BY <1>0, SchemaStays
<1>5. StageInv' /\ Preparing' /\ Prepared' /\ RerunsPass'
  BY <1>0, <1>1, <1>2, <1>3 DEF StageInv, Preparing, Prepared, RerunsPass
<1>6. KeysReady'
  BY <1>0, <1>1 DEF SchemaInv, KeysReady
<1>7. \A s \in Tables : left[s] = {}
  BY <1>1 DEF SchemaInv, TaskItems
<1>8. TaskItems'
  BY <1>0, <1>1, <1>7 DEF TaskItems
<1>9. NoIndexYet'
  <2>1. /\ Rank("pk") = 1 /\ Rank("index") = 2 /\ Rank("fk") = 3
        /\ Rank("check") = 4 /\ Rank("sequence") = 5
    BY DEF Rank
  <2>2. phase' \in PhaseNames => ~(Rank(phase') < 2)
    BY <1>2, <2>1, PhaseFacts
  <2>3. phase' = "index" => \A s \in Tables : schema[s].index = << >>
    BY <1>1, <1>2, <1>7, <2>1 DEF SchemaInv, NoIndexYet
  <2> QED BY <1>0, <1>5, <2>2, <2>3 DEF NoIndexYet, StageInv
<1>10. AllSettled'
  BY <1>0, JoinSettled DEF AllSettled
<1> QED BY <1>4, <1>5, <1>6, <1>8, <1>9, <1>10 DEF SchemaInv, PrepareInv

LEMMA StutterInv ==
  ASSUME SchemaInv, FinalizeInv', UNCHANGED allVars
  PROVE  SchemaInv'
<1>0. UNCHANGED <<vars, conf, phase, level, todo, running, left, stage, queue, step, schema,
                  refusal, troubled>>
  BY DEF allVars, vars, schemaVars
<1>1. SchemaRecords' /\ Contents'
  BY <1>0, SchemaStays
<1>2. StageInv' /\ Preparing' /\ RerunsPass' /\ KeysReady' /\ NoIndexYet'
  BY <1>0 DEF SchemaInv, PrepareInv, StageInv, Preparing, RerunsPass, KeysReady, NoIndexYet
<1>3. Prepared'
  BY <1>0 DEF SchemaInv, PrepareInv, Prepared, Queued, Ready
<1>4. \A s : Items(s)' = Items(s)
  BY <1>0 DEF Items
<1>5. TaskItems'
  BY <1>0, <1>4 DEF SchemaInv, TaskItems
<1>6. \A ph, s, item : Settled(ph, s, item)' = Settled(ph, s, item)
  BY <1>0, SettledSame
<1>7. \A ph, n : Batch(ph, n)' = Batch(ph, n)
  BY <1>0, BatchStable
<1>8. BatchSettled => BatchSettled'
  BY <1>0, <1>4, <1>6, <1>7 DEF BatchSettled
<1>9. LevelsSettled => LevelsSettled'
  BY <1>0, <1>6, LevelsStable DEF LevelsSettled
<1>10. PhasesSettled => PhasesSettled'
  BY <1>0, <1>6 DEF PhasesSettled
<1>11. AllSettled'
  BY <1>0, <1>8, <1>9, <1>10 DEF SchemaInv, AllSettled
<1> QED BY <1>1, <1>2, <1>3, <1>5, <1>11 DEF SchemaInv, PrepareInv
-----------------------------------------------------------------------------
LEMMA SchemaStep == SchemaInv /\ [SchemaNext]_allVars => SchemaInv'
<1> SUFFICES ASSUME SchemaInv, [SchemaNext]_allVars PROVE SchemaInv'
  OBVIOUS
<1>0. FinalizeInv'
  BY RunSteps, StepInv DEF SchemaInv
<1>1. ASSUME NEW t \in Tables, Prepare(t)
      PROVE  SchemaInv'
  BY <1>0, <1>1, DropTableInv, CreateTableInv, NoPrimaryKeyInv, EnsureKeyInv, DropIndexesInv,
     SetUnloggedInv DEF Prepare
<1>2. ASSUME NEW t \in Tables, Finalizing(t)
      PROVE  SchemaInv'
  BY <1>0, <1>2, ExecuteInv, EndOrTroubleInv DEF Finalizing
<1>3. ASSUME NEW t \in Tables, Transfer(t) \/ (Spawn(t) /\ UNCHANGED schemaVars)
      PROVE  SchemaInv'
  BY <1>0, <1>3, TransferInv, SchemaSpawnInv
<1>4. CASE UNCHANGED allVars \/ Over
  BY <1>0, <1>4, StutterInv DEF Over
<1>5. CASE Start \/ Stop \/ BeginFinalize \/ JoinTasks
  BY <1>0, <1>5, StartInv, StopInv, BeginFinalizeInv, JoinTasksInv
<1> QED BY <1>1, <1>2, <1>3, <1>4, <1>5 DEF SchemaNext

LEMMA InvSchemaComplete == SchemaInv => SchemaComplete
<1> SUFFICES ASSUME SchemaInv, stage = "done", ~troubled, NEW t \in Tables
             PROVE  /\ t \in conf.keyed => schema[t].keyed
                    /\ t \in conf.indexed /\ ~Lost(t) => schema[t].index # << >>
                    /\ \A r \in conf.fks[t] \cap Tables :
                         KeyLost(t, r) \/ <<r, conf.action>> \in schema[t].fks
                    /\ t \in conf.checked /\ conf.source = "postgres" => schema[t].checked
  BY DEF SchemaComplete, KeyLost
<1>1. Rank(phase) = 6
  BY DEF SchemaInv, PrepareInv, StageInv, Rank
<1>2. PhasesSettled
  BY DEF SchemaInv, AllSettled
<1>3. t \in conf.keyed => schema[t].keyed
  BY DEF SchemaInv, KeysReady
<1>4. t \in conf.indexed => Settled("index", t, "index")
  BY <1>1, <1>2 DEF PhasesSettled
<1>5. \A r \in conf.fks[t] : Settled("fk", t, r)
  BY <1>1, <1>2 DEF PhasesSettled
<1>6. t \in conf.checked => Settled("check", t, "check")
  BY <1>1, <1>2 DEF PhasesSettled
<1> QED BY <1>3, <1>4, <1>5, <1>6 DEF Settled

(* The invariant holds in every run, of any number, on every schema.       *)
THEOREM SchemaInvariant == SchemaSpec => []SchemaInv
<1>1. SchemaInit => SchemaInv
  BY SchemaInitInv
<1> QED BY <1>1, SchemaStep, PTL DEF SchemaSpec

(* A run that succeeds has put every key, index, foreign key and check     *)
(* into the target that its drivers can, whatever earlier runs left there. *)
THEOREM FinalizeCompletes == SchemaSpec => []SchemaComplete
BY InvSchemaComplete, SchemaInvariant, PTL

(* Only foreign keys of earlier runs can stop a run whose tables have keys,*)
(* and only where RerunsPass has it.                                       *)
THEOREM RunsGoThrough == SchemaSpec => []RerunsPass
<1>1. SchemaInv => RerunsPass
  BY DEF SchemaInv
<1> QED BY <1>1, SchemaInvariant, PTL
=============================================================================
