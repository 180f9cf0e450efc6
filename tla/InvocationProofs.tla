-------------------------- MODULE InvocationProofs --------------------------
(***************************************************************************)
(* What one configuration becomes in the course of an invocation: a        *)
(* command line tunes it before it connects, so that nothing is unset when *)
(* the tables are known and tuning again changes nothing; and hence its    *)
(* pools, its permits and its hash are those of one and the same           *)
(* configuration.  For all files, machines, row sizes and numbers of jobs. *)
(***************************************************************************)
EXTENDS Invocation, TLAPS


LineType == [front: {"cli", "tui"}, workers: Nat, file: ConfigType, machine: MachineType]

(* Nothing is left to tune.                                                *)
Complete(c) ==
    /\ c.workers # Unset /\ c.readers # Unset /\ c.writers # Unset
    /\ c.chunk # Unset /\ c.ahead # Unset
    /\ c.mssql # Unset /\ c.pg # Unset /\ c.mysql # Unset

(* The configuration the orchestrator of a command line starts with.       *)
Loaded(l) ==
    [(IF l.front = "cli" THEN Tuned(l.file, l.machine, 1) ELSE l.file)
        EXCEPT !.workers = Or(l.workers, @)]

Loading == {"loaded", "connected", "resumed"}
Running == {"extracted", "transferring"}

(* An invocation: its configuration and what was taken from it.            *)
InvocationInv ==
    /\ inv.line \in LineType /\ inv.line.file = file /\ inv.line.machine = machine
    /\ inv.at \in Loading => inv.conf = Loaded(inv.line)
    /\ inv.at \in Running =>
          inv.row \in RowSizes /\ inv.conf = Tuned(Loaded(inv.line), machine, inv.row)
    /\ inv.at # "loaded" => inv.pools = PoolSizes(Loaded(inv.line))
    /\ inv.at = "resumed" /\ inv.line.front = "cli" /\ Hash(Loaded(inv.line)) \in stored
          => inv.found
    /\ inv.at \in {"resumed"} \cup Running /\ inv.line.front = "cli"
          => inv.hash = Hash(Loaded(inv.line))
    /\ inv.at = "transferring" =>
          inv.permits \in Nat /\ inv.permits <= ConnectionLimit(inv.conf)

(* ... and the command lines that came before: what one has stored is      *)
(* stored under the hash of what it starts with.                           *)
HistoryInv ==
    \A l \in ran : l.front = "cli" => Hash(Loaded(l)) \in stored

(* Of two numbers, Min is the lesser and Max the greater.                  *)
LEMMA LesserAndGreater ==
  ASSUME NEW a \in Int, NEW b \in Int
  PROVE  /\ Min({a, b}) = IF a <= b THEN a ELSE b
         /\ Max({a, b}) = IF a <= b THEN b ELSE a
<1>1. ASSUME NEW x \in {a, b}, \A y \in {a, b} : x <= y
      PROVE  x = IF a <= b THEN a ELSE b
  BY <1>1
<1>2. ASSUME NEW x \in {a, b}, \A y \in {a, b} : x >= y
      PROVE  x = IF a <= b THEN b ELSE a
  BY <1>2
<1>3. /\ \E x \in {a, b} : \A y \in {a, b} : x <= y
      /\ \E x \in {a, b} : \A y \in {a, b} : x >= y
  OBVIOUS
<1>4. Min({a, b}) \in {a, b} /\ \A y \in {a, b} : Min({a, b}) <= y
  BY <1>3, Zenon DEF Min
<1>5. Max({a, b}) \in {a, b} /\ \A y \in {a, b} : Max({a, b}) >= y
  BY <1>3, Zenon DEF Max
<1> QED BY <1>1, <1>2, <1>4, <1>5

LinesInv ==
    /\ file \in ConfigType /\ machine \in MachineType /\ ran \subseteq LineType
    /\ inv.at \in {"idle"} \cup Loading \cup Running
    /\ inv.at # "idle" => InvocationInv
    /\ HistoryInv
-----------------------------------------------------------------------------
(* Numbers.                                                                *)
LEMMA ClampIs ==
  ASSUME NEW n \in Int, NEW lo \in Int, NEW hi \in Int, lo <= hi
  PROVE  Clamp(n, lo, hi) = IF n <= lo THEN lo ELSE IF n <= hi THEN n ELSE hi
<1> DEFINE least == Min({n, hi})
<1>1. least = IF n <= hi THEN n ELSE hi
  BY LesserAndGreater
<1> HIDE DEF least
<1>2. least \in Int
  BY <1>1
<1>3. Max({lo, least}) = IF lo <= least THEN least ELSE lo
  BY <1>2, LesserAndGreater
<1>4. Clamp(n, lo, hi) = Max({lo, least})
  BY DEF Clamp, least
<1> QED BY <1>1, <1>3, <1>4

(* A clamped number is between the bounds, and it grows with the number.   *)
LEMMA ClampBounds ==
  ASSUME NEW n \in Int, NEW lo \in Int, NEW hi \in Int, lo <= hi
  PROVE  Clamp(n, lo, hi) \in lo..hi
BY ClampIs

LEMMA ClampGrows ==
  ASSUME NEW n \in Int, NEW k \in Int, n <= k, NEW lo \in Int, NEW hi \in Int, lo <= hi
  PROVE  Clamp(n, lo, hi) <= Clamp(k, lo, hi)
BY ClampIs

LEMMA ProductIsPositive ==
  ASSUME NEW a \in Nat \ {0}, NEW b \in Nat \ {0}
  PROVE  a * b \in Nat \ {0}
BY SMT

LEMMA ProductGrows ==
  ASSUME NEW a \in Nat, NEW b \in Nat, NEW c \in Nat, b <= c
  PROVE  a * b \in Nat /\ a * c \in Nat /\ a * b <= a * c
<1> DEFINE d == c - b
<1>1. d \in Nat /\ c = b + d
  OBVIOUS
<1>2. a * d \in Nat /\ a * b \in Nat
  BY <1>1
<1>3. a * c = a * b + a * d
  BY <1>1
<1> QED BY <1>2, <1>3

LEMMA QuotientBound ==
  ASSUME NEW n \in Nat, NEW d \in Nat \ {0}
  PROVE  n \div d \in Nat /\ d * (n \div d) <= n
BY SMT

(* A value or its default, either of them set.                             *)
LEMMA OrIsSet ==
  ASSUME NEW v \in Nat, NEW d \in Nat \ {0}
  PROVE  Or(v, d) \in Nat \ {0} /\ (v # Unset => Or(v, d) = v)
BY DEF Or, Unset
-----------------------------------------------------------------------------
(* What tuning finds for the numbers that are unset.                       *)
LEMMA BudgetIsNat ==
  ASSUME NEW c \in ConfigType, NEW m \in MachineType
  PROVE  Budget(c, m) \in Nat
<1>1. m.gb \in Nat /\ c.percent \in Nat
  BY DEF ConfigType, MachineType
<1>2. m.gb * KilorowsPerGB \in Nat
  BY <1>1 DEF KilorowsPerGB
<1>3. m.gb * KilorowsPerGB * c.percent \in Nat
  BY <1>1, <1>2
<1> QED BY <1>3 DEF Budget

LEMMA DesiredAheadBounds ==
  ASSUME NEW m \in MachineType
  PROVE  DesiredAhead(m) \in 4..32
<1> DEFINE buffers == m.gb \div 4
<1>1. buffers \in Int
  BY DEF MachineType
<1> HIDE DEF buffers
<1>2. 4 \in Int /\ 32 \in Int /\ 4 <= 32
  OBVIOUS
<1>3. Clamp(buffers, 4, 32) \in 4..32
  BY <1>1, <1>2, ClampBounds, Zenon
<1> QED BY <1>3 DEF DesiredAhead, buffers

LEMMA ChunkIsSet ==
  ASSUME NEW c \in ConfigType, NEW m \in MachineType, NEW row \in Nat \ {0},
         NEW workers \in Nat \ {0}
  PROVE  Chunk(c, m, row, workers) \in Nat \ {0}
<1> DEFINE desired == DesiredChunk(c, m)
           need == row * DesiredAhead(m) * workers * SafetyFactor
           fits == Budget(c, m) \div need
<1>1. desired \in Nat \ {0}
  <2>1. (m.gb * 25) \div 8 \in Nat
    BY DEF MachineType
  <2>2. Min({200, 75 + (m.gb * 25) \div 8}) \in Nat \ {0}
    BY <2>1, LesserAndGreater
  <2> QED BY <2>2 DEF DesiredChunk
<1>2. need \in Nat \ {0}
  <2>1. DesiredAhead(m) \in Nat \ {0}
    BY DesiredAheadBounds
  <2>2. row * DesiredAhead(m) \in Nat \ {0}
    BY <2>1, ProductIsPositive
  <2>3. row * DesiredAhead(m) * workers \in Nat \ {0}
    BY <2>2, ProductIsPositive
  <2> QED BY <2>3 DEF SafetyFactor
<1>3. fits \in Nat
  <2> HIDE DEF need
  <2> QED BY <1>2, BudgetIsNat, QuotientBound
<1> DEFINE viable == Max({10, fits})
<1> HIDE DEF desired, need, fits
<1>4. viable \in Nat \ {0}
  <2>1. Max({10, fits}) = IF 10 <= fits THEN fits ELSE 10
    BY <1>3, LesserAndGreater
  <2> QED BY <1>3, <2>1
<1> HIDE DEF viable
<1>5. Min({desired, viable}) \in Nat \ {0}
  <2>1. Min({desired, viable}) = IF desired <= viable THEN desired ELSE viable
    BY <1>1, <1>4, LesserAndGreater
  <2> QED BY <1>1, <1>4, <2>1
<1> QED BY <1>5 DEF Chunk, desired, viable, fits, need

(* More than the two buffers there always are fit the budget.              *)
LEMMA AheadFits ==
  ASSUME NEW c \in ConfigType, NEW m \in MachineType, NEW row \in Nat \ {0},
         NEW workers \in Nat \ {0}, NEW chunk \in Nat \ {0}
  PROVE  LET ahead == Ahead(c, m, row, workers, chunk)
         IN  /\ ahead \in 2..32
             /\ \/ ahead = 2
                \/ workers * ahead * chunk * row * SafetyFactor <= Budget(c, m)
<1> DEFINE need == row * chunk * workers * SafetyFactor
           fits == Budget(c, m) \div need
           ahead == Ahead(c, m, row, workers, chunk)
<1>1. need \in Nat \ {0}
  <2>1. row * chunk \in Nat \ {0}
    BY ProductIsPositive
  <2>2. row * chunk * workers \in Nat \ {0}
    BY <2>1, ProductIsPositive
  <2> QED BY <2>2 DEF SafetyFactor
<1>2. fits \in Nat /\ need * fits <= Budget(c, m)
  <2> HIDE DEF need
  <2> QED BY <1>1, BudgetIsNat, QuotientBound
<1>3. DesiredAhead(m) \in Nat
  BY DesiredAheadBounds
<1> DEFINE least == Min({DesiredAhead(m), fits})
<1>4. ahead = Clamp(least, 2, 32)
  BY DEF Ahead
<1> HIDE DEF fits, ahead
<1>5. least \in Int /\ least <= fits
  <2>1. least = IF DesiredAhead(m) <= fits THEN DesiredAhead(m) ELSE fits
    BY <1>2, <1>3, LesserAndGreater
  <2> QED BY <1>2, <1>3, <2>1
<1> HIDE DEF least
<1>6. ahead \in 2..32 /\ (ahead = 2 \/ ahead <= fits)
  <2>1. 2 \in Int /\ 32 \in Int /\ 2 <= 32
    OBVIOUS
  <2>2. Clamp(least, 2, 32) = IF least <= 2 THEN 2 ELSE IF least <= 32 THEN least ELSE 32
    BY <1>5, <2>1, ClampIs, Zenon
  <2> QED BY <1>2, <1>4, <1>5, <2>2
<1>7. CASE ahead <= fits
  <2>1. need * ahead <= need * fits
    <3> HIDE DEF need
    <3> QED BY <1>1, <1>2, <1>6, <1>7, ProductGrows
  <2>2. need * ahead <= Budget(c, m)
    <3>1. need * ahead \in Int /\ need * fits \in Int /\ Budget(c, m) \in Int
      <4> HIDE DEF need
      <4> QED BY <1>1, <1>2, <1>6, BudgetIsNat
    <3> HIDE DEF need
    <3> QED BY <1>2, <2>1, <3>1
  <2>3. workers * ahead * chunk * row * SafetyFactor = need * ahead
    BY <1>6 DEF SafetyFactor
  <2> QED BY <1>6, <2>2, <2>3 DEF ahead
<1> QED BY <1>6, <1>7 DEF ahead
-----------------------------------------------------------------------------
(* A configuration with its eight numbers replaced.                        *)
Filled(c, workers, readers, writers, chunk, ahead, mssql, pg, mysql) ==
    [c EXCEPT !.workers = workers, !.readers = readers, !.writers = writers, !.chunk = chunk,
              !.ahead = ahead, !.mssql = mssql, !.pg = pg, !.mysql = mysql]

(* Workers and readers follow the cores, within their bounds.              *)
LEMMA WorkersFound ==
  ASSUME NEW m \in MachineType
  PROVE  Clamp(m.cores \div 2, 4, 16) \in Nat \ {0}
<1> DEFINE half == m.cores \div 2
<1>1. half \in Int
  BY DEF MachineType
<1> HIDE DEF half
<1>2. 4 \in Int /\ 16 \in Int /\ 4 <= 16
  OBVIOUS
<1>3. Clamp(half, 4, 16) \in 4..16
  BY <1>1, <1>2, ClampBounds, Zenon
<1> QED BY <1>3 DEF half

LEMMA ReadersFound ==
  ASSUME NEW m \in MachineType
  PROVE  Clamp(m.cores \div 4, 2, 16) \in Nat \ {0}
<1> DEFINE quarter == m.cores \div 4
<1>1. quarter \in Int
  BY DEF MachineType
<1> HIDE DEF quarter
<1>2. 2 \in Int /\ 16 \in Int /\ 2 <= 16
  OBVIOUS
<1>3. Clamp(quarter, 2, 16) \in 2..16
  BY <1>1, <1>2, ClampBounds, Zenon
<1> QED BY <1>3 DEF quarter

(* The pool that is left to tuning has connections; that of MySQL no fewer *)
(* than that of PostgreSQL.                                                *)
LEMMA PoolsFound ==
  ASSUME NEW c \in ConfigType, NEW workers \in Nat \ {0}, NEW readers \in Nat \ {0},
         NEW writers \in Nat \ {0}
  PROVE  LET pools == Connections(c, workers, readers, writers)
         IN  /\ pools.mssql \in Nat \ {0} /\ pools.pg \in Nat \ {0}
             /\ pools.mysql \in Nat \ {0}
             /\ c.pg = Unset /\ c.mysql = Unset => pools.pg <= pools.mysql
<1> DEFINE reading == workers * readers + 4
           writing == workers * writers + 4
           most == Max({readers, writers})
           both == workers * most + 4
<1>1. most \in Nat /\ writers <= most
  <2>1. most = IF readers <= writers THEN writers ELSE readers
    BY LesserAndGreater
  <2> QED BY <2>1
<1> HIDE DEF most
<1>2. reading \in Int /\ writing \in Int /\ both \in Int /\ writing <= both
  <2>1. workers * readers \in Nat
    OBVIOUS
  <2>2. workers * writers \in Nat /\ workers * most \in Nat
        /\ workers * writers <= workers * most
    BY <1>1, ProductGrows
  <2> QED BY <2>1, <2>2
<1> HIDE DEF reading, writing, both
<1>3. 8 \in Int /\ 80 \in Int /\ 64 \in Int /\ 8 <= 80 /\ 8 <= 64
  OBVIOUS
<1>4. /\ Clamp(reading, 8, 80) \in 8..80 /\ Clamp(writing, 8, 64) \in 8..64
      /\ Clamp(both, 8, 64) \in 8..64
  BY <1>2, <1>3, ClampBounds, Zenon
<1>5. Clamp(writing, 8, 64) <= Clamp(both, 8, 64)
  BY <1>2, <1>3, ClampGrows, Zenon
<1>6. Clamp(reading, 8, 80) \in Nat \ {0} /\ Clamp(writing, 8, 64) \in Nat \ {0}
      /\ Clamp(both, 8, 64) \in Nat \ {0}
  BY <1>4
<1>7. c.mssql \in Nat /\ c.pg \in Nat /\ c.mysql \in Nat
  BY DEF ConfigType
<1>8. Connections(c, workers, readers, writers) =
        [mssql |-> Or(c.mssql, Clamp(reading, 8, 80)),
         pg |-> Or(c.pg, Clamp(writing, 8, 64)),
         mysql |-> Or(c.mysql, Clamp(both, 8, 64))]
  BY DEF Connections, reading, writing, both, most
<1> QED BY <1>5, <1>6, <1>7, <1>8, OrIsSet DEF Or
(* with_auto_tuning fills in what is unset ...                             *)
LEMMA TunedIs ==
  ASSUME NEW c \in ConfigType, NEW m \in MachineType, NEW row \in Nat \ {0}
  PROVE  LET t == Tuned(c, m, row)
             found == Connections(c, t.workers, t.readers, t.writers)
         IN  /\ t \in ConfigType /\ Complete(t)
             /\ t.source = c.source /\ t.target = c.target
             /\ t.mode = c.mode /\ t.percent = c.percent
             /\ t.workers = Or(c.workers, Clamp(m.cores \div 2, 4, 16))
             /\ t.chunk = Or(c.chunk, Chunk(c, m, row, t.workers))
             /\ t.ahead = Or(c.ahead, Ahead(c, m, row, t.workers, t.chunk))
             /\ t.mssql = found.mssql /\ t.pg = found.pg /\ t.mysql = found.mysql
<1> DEFINE workers == Or(c.workers, Clamp(m.cores \div 2, 4, 16))
           readers == Or(c.readers, Clamp(m.cores \div 4, 2, 16))
           writers == Or(c.writers, IF c.target = "mssql" THEN 2
                                    ELSE Clamp(m.cores \div 4, 2, 16))
           chunk == Or(c.chunk, Chunk(c, m, row, workers))
           ahead == Or(c.ahead, Ahead(c, m, row, workers, chunk))
           pools == Connections(c, workers, readers, writers)
<1>1. /\ c.workers \in Nat /\ c.readers \in Nat /\ c.writers \in Nat /\ c.chunk \in Nat
      /\ c.ahead \in Nat /\ c.mssql \in Nat /\ c.pg \in Nat /\ c.mysql \in Nat
  BY DEF ConfigType
<1>2. workers \in Nat \ {0}
  BY <1>1, WorkersFound, OrIsSet
<1>3. readers \in Nat \ {0}
  BY <1>1, ReadersFound, OrIsSet
<1>4. writers \in Nat \ {0}
  <2>1. (IF c.target = "mssql" THEN 2 ELSE Clamp(m.cores \div 4, 2, 16)) \in Nat \ {0}
    BY ReadersFound
  <2> QED BY <1>1, <2>1, OrIsSet
<1> HIDE DEF workers, readers, writers
<1>5. chunk \in Nat \ {0}
  BY <1>1, <1>2, ChunkIsSet, OrIsSet
<1> HIDE DEF chunk
<1>6. ahead \in Nat \ {0}
  <2>1. Ahead(c, m, row, workers, chunk) \in 2..32
    BY <1>2, <1>5, AheadFits, Zenon
  <2>2. Ahead(c, m, row, workers, chunk) \in Nat \ {0}
    BY <2>1
  <2> QED BY <1>1, <2>2, OrIsSet
<1> HIDE DEF ahead
<1>7. pools.mssql \in Nat \ {0} /\ pools.pg \in Nat \ {0} /\ pools.mysql \in Nat \ {0}
  BY <1>1, <1>2, <1>3, <1>4, PoolsFound
<1> HIDE DEF pools
<1> DEFINE mssql == pools.mssql
           pg == pools.pg
           mysql == pools.mysql
           t == Filled(c, workers, readers, writers, chunk, ahead, mssql, pg, mysql)
<1>8. Tuned(c, m, row) = t
  BY DEF Tuned, Filled, workers, readers, writers, chunk, ahead, pools
<1>9. mssql \in Nat \ {0} /\ pg \in Nat \ {0} /\ mysql \in Nat \ {0}
  BY <1>7
<1> HIDE DEF mssql, pg, mysql
<1>10. /\ t \in ConfigType
       /\ t.source = c.source /\ t.target = c.target
       /\ t.mode = c.mode /\ t.percent = c.percent
       /\ t.workers = workers /\ t.workers # 0 /\ t.readers = readers /\ t.readers # 0
       /\ t.writers = writers /\ t.writers # 0 /\ t.chunk = chunk /\ t.chunk # 0
       /\ t.ahead = ahead /\ t.ahead # 0 /\ t.mssql = mssql /\ t.mssql # 0
       /\ t.pg = pg /\ t.pg # 0 /\ t.mysql = mysql /\ t.mysql # 0
  BY <1>2, <1>3, <1>4, <1>5, <1>6, <1>9 DEF Filled, ConfigType
<1>11. Complete(t)
  <2> HIDE DEF t
  <2> QED BY <1>10 DEF Complete, Unset
<1>12. /\ t.workers = Or(c.workers, Clamp(m.cores \div 2, 4, 16))
       /\ t.chunk = Or(c.chunk, Chunk(c, m, row, t.workers))
       /\ t.ahead = Or(c.ahead, Ahead(c, m, row, t.workers, t.chunk))
  <2> HIDE DEF t
  <2> QED BY <1>10 DEF workers, chunk, ahead
<1>13. LET found == Connections(c, t.workers, t.readers, t.writers)
       IN  t.mssql = found.mssql /\ t.pg = found.pg /\ t.mysql = found.mysql
  <2> HIDE DEF t
  <2> QED BY <1>10 DEF mssql, pg, mysql, pools
<1> HIDE DEF t
<1> QED BY <1>8, <1>10, <1>11, <1>12, <1>13

(* ... so that tuning again changes nothing, whatever the rows, ...        *)
LEMMA TunedAgain ==
  ASSUME NEW c \in ConfigType, Complete(c), NEW m, NEW row
  PROVE  Tuned(c, m, row) = c
<1>1. /\ c.workers # Unset /\ c.readers # Unset /\ c.writers # Unset /\ c.chunk # Unset
      /\ c.ahead # Unset /\ c.mssql # Unset /\ c.pg # Unset /\ c.mysql # Unset
  BY DEF Complete
<1>2. Tuned(c, m, row) = Filled(c, c.workers, c.readers, c.writers, c.chunk, c.ahead,
                                c.mssql, c.pg, c.mysql)
  BY <1>1 DEF Tuned, Filled, Connections, Or
<1>3. Filled(c, c.workers, c.readers, c.writers, c.chunk, c.ahead, c.mssql, c.pg, c.mysql) = c
  BY DEF Filled, ConfigType
<1> QED BY <1>2, <1>3

(* ... and the mode counts for the chunks only.                            *)
LEMMA ModeAside ==
  ASSUME NEW c \in ConfigType, c.chunk # Unset, NEW mode \in Modes, NEW m, NEW row
  PROVE  Tuned([c EXCEPT !.mode = mode], m, row) = [Tuned(c, m, row) EXCEPT !.mode = mode]
<1> DEFINE d == [c EXCEPT !.mode = mode]
           workers == Or(c.workers, Clamp(m.cores \div 2, 4, 16))
           readers == Or(c.readers, Clamp(m.cores \div 4, 2, 16))
           writers == Or(c.writers, IF c.target = "mssql" THEN 2
                                    ELSE Clamp(m.cores \div 4, 2, 16))
           ahead == Or(c.ahead, Ahead(c, m, row, workers, c.chunk))
           pools == Connections(c, workers, readers, writers)
<1>1. /\ d.workers = c.workers /\ d.readers = c.readers /\ d.writers = c.writers
      /\ d.chunk = c.chunk /\ d.ahead = c.ahead /\ d.target = c.target
      /\ d.mssql = c.mssql /\ d.pg = c.pg /\ d.mysql = c.mysql /\ d.percent = c.percent
  BY DEF ConfigType
<1> HIDE DEF d
<1>2. Ahead(d, m, row, workers, c.chunk) = Ahead(c, m, row, workers, c.chunk)
  BY <1>1 DEF Ahead, Budget
<1>3. Connections(d, workers, readers, writers) = pools
  BY <1>1 DEF Connections
<1>4. Tuned(d, m, row) = Filled(d, workers, readers, writers, c.chunk, ahead,
                                pools.mssql, pools.pg, pools.mysql)
  <2>1. /\ workers = Or(d.workers, Clamp(m.cores \div 2, 4, 16))
        /\ readers = Or(d.readers, Clamp(m.cores \div 4, 2, 16))
        /\ writers = Or(d.writers, IF d.target = "mssql" THEN 2
                                   ELSE Clamp(m.cores \div 4, 2, 16))
    BY <1>1
  <2> HIDE DEF workers, readers, writers
  <2>2. c.chunk = Or(d.chunk, Chunk(d, m, row, workers))
    BY <1>1 DEF Or
  <2>3. ahead = Or(d.ahead, Ahead(d, m, row, workers, c.chunk))
    BY <1>1, <1>2
  <2> HIDE DEF ahead
  <2>4. pools = Connections(d, workers, readers, writers)
    BY <1>3
  <2> HIDE DEF pools
  <2> QED BY <2>1, <2>2, <2>3, <2>4, Zenon DEF Tuned, Filled
<1>5. Tuned(c, m, row) = Filled(c, workers, readers, writers, c.chunk, ahead,
                                pools.mssql, pools.pg, pools.mysql)
  BY DEF Tuned, Filled, Or
<1> HIDE DEF workers, readers, writers, ahead, pools
<1>6. Filled(d, workers, readers, writers, c.chunk, ahead, pools.mssql, pools.pg, pools.mysql)
       = [Filled(c, workers, readers, writers, c.chunk, ahead, pools.mssql, pools.pg,
                 pools.mysql) EXCEPT !.mode = mode]
  BY DEF Filled, ConfigType, d
<1> QED BY <1>4, <1>5, <1>6 DEF d
-----------------------------------------------------------------------------
(* A command line has nothing left to tune when it connects.               *)
LEMMA LoadedIs ==
  ASSUME NEW l \in LineType
  PROVE  /\ Loaded(l) \in ConfigType
         /\ l.front = "cli" =>
              LET t == Tuned(l.file, l.machine, 1)
              IN  /\ Complete(Loaded(l))
                  /\ Loaded(l).source = t.source /\ Loaded(l).target = t.target
                  /\ Loaded(l).mssql = t.mssql /\ Loaded(l).pg = t.pg
                  /\ Loaded(l).mysql = t.mysql
         /\ l.workers = Unset =>
              Loaded(l) = IF l.front = "cli" THEN Tuned(l.file, l.machine, 1) ELSE l.file
<1> DEFINE t == Tuned(l.file, l.machine, 1)
           c == IF l.front = "cli" THEN t ELSE l.file
           workers == Or(l.workers, c.workers)
<1>1. /\ l.file \in ConfigType /\ l.machine \in MachineType /\ l.workers \in Nat
      /\ 1 \in Nat \ {0}
  BY DEF LineType
<1>2. t \in ConfigType /\ Complete(t)
  BY <1>1, TunedIs, Zenon
<1> HIDE DEF t
<1>3. c \in ConfigType
  BY <1>1, <1>2
<1>4. l.front = "cli" => c = t
  OBVIOUS
<1>5. Loaded(l) = [c EXCEPT !.workers = workers]
  BY DEF Loaded, t
<1>6. l.workers = Unset => workers = c.workers
  BY DEF Or
<1>7. l.workers # Unset => workers = l.workers
  BY DEF Or
<1> HIDE DEF c, workers
<1>8. workers \in Nat
  <2>1. c.workers \in Nat
    BY <1>3 DEF ConfigType
  <2> QED BY <1>1, <1>6, <1>7, <2>1
<1>9. Loaded(l) \in ConfigType
  BY <1>3, <1>5, <1>8 DEF ConfigType
<1>10. /\ Loaded(l).workers = workers
       /\ Loaded(l).source = c.source /\ Loaded(l).target = c.target
       /\ Loaded(l).readers = c.readers /\ Loaded(l).writers = c.writers
       /\ Loaded(l).chunk = c.chunk /\ Loaded(l).ahead = c.ahead
       /\ Loaded(l).mssql = c.mssql /\ Loaded(l).pg = c.pg /\ Loaded(l).mysql = c.mysql
  BY <1>3, <1>5 DEF ConfigType
<1>11. l.workers = Unset => Loaded(l) = c
  BY <1>3, <1>5, <1>6 DEF ConfigType
<1>12. ASSUME l.front = "cli" PROVE Complete(Loaded(l))
  BY <1>2, <1>4, <1>6, <1>7, <1>10, <1>12 DEF Complete
<1>13. ASSUME l.front = "cli"
       PROVE  /\ Loaded(l).source = t.source /\ Loaded(l).target = t.target
              /\ Loaded(l).mssql = t.mssql /\ Loaded(l).pg = t.pg
              /\ Loaded(l).mysql = t.mysql
  BY <1>4, <1>10, <1>13
<1> QED BY <1>9, <1>11, <1>12, <1>13 DEF c, t

(* Two command lines that differ in the mode of the file have one hash, if *)
(* the chunks do not depend on it.                                         *)
LEMMA HashAsideMode ==
  ASSUME NEW l \in LineType, NEW k \in LineType, l.front = "cli", SameButMode(l, k),
         l.file.mode = k.file.mode \/ k.file.chunk # Unset
  PROVE  k.front = "cli" /\ Hash(Loaded(l)) = Hash(Loaded(k))
<1> DEFINE mode == k.file.mode
<1>1. /\ l.file \in ConfigType /\ k.file \in ConfigType /\ mode \in Modes
      /\ l.machine \in MachineType
  BY DEF LineType, ConfigType
<1>2. /\ k.front = l.front /\ k.workers = l.workers /\ k.machine = l.machine
      /\ k.file = [l.file EXCEPT !.mode = mode]
  BY DEF LineType, SameButMode
<1> HIDE DEF mode
<1>3. CASE l.file.mode = mode
  <2>1. k.file = l.file
    BY <1>1, <1>2, <1>3 DEF ConfigType
  <2> QED BY <1>2, <2>1 DEF Loaded
<1>4. CASE l.file.mode # mode
  <2>1. l.file.chunk # Unset
    <3>1. k.file.chunk = l.file.chunk
      BY <1>1, <1>2 DEF ConfigType
    <3> QED BY <1>4, <3>1 DEF mode
  <2> DEFINE t == Tuned(l.file, l.machine, 1)
             u == Tuned(k.file, k.machine, 1)
             workers == Or(l.workers, t.workers)
  <2>2. u = [t EXCEPT !.mode = mode]
    BY <1>1, <1>2, <2>1, ModeAside
  <2>3. t \in ConfigType
    BY <1>1, 1 \in Nat \ {0}, TunedIs, Zenon
  <2>4. Loaded(l) = [t EXCEPT !.workers = workers]
    BY DEF Loaded
  <2>5. Loaded(k) = [u EXCEPT !.workers = Or(l.workers, u.workers)]
    BY <1>2 DEF Loaded
  <2> HIDE DEF t, u
  <2>6. u.workers = t.workers
    BY <2>2, <2>3 DEF ConfigType
  <2>7. Loaded(k) = [u EXCEPT !.workers = workers]
    BY <2>5, <2>6
  <2> HIDE DEF workers
  <2>8. [Loaded(k) EXCEPT !.mode = "drop_recreate"] = [Loaded(l) EXCEPT !.mode = "drop_recreate"]
    BY <2>2, <2>3, <2>4, <2>7 DEF ConfigType
  <2> QED BY <1>2, <2>8 DEF Hash
<1> QED BY <1>3, <1>4
-----------------------------------------------------------------------------
LEMMA InitLines == Init => LinesInv
BY InvocationAssumption DEF Init, LinesInv, HistoryInv, Idle

LEMMA LaunchKeepsLines ==
  ASSUME LinesInv, NEW front \in {"cli", "tui"}, NEW workers \in {Unset, 6},
         Launch(front, workers)
  PROVE  LinesInv'
<1> DEFINE l == Line(front, workers)
<1>1. l \in LineType /\ l.file = file /\ l.machine = machine
      /\ l.workers = workers /\ l.front = front
  BY DEF LinesInv, LineType, Line, Unset
<1> DEFINE conf == [(IF front = "cli" THEN Tuned(file, machine, 1) ELSE file)
                       EXCEPT !.workers = Or(workers, @)]
<1>2. inv' = [at |-> "loaded", line |-> l, conf |-> conf]
  BY DEF Launch
<1>3. conf = Loaded(l)
  BY <1>1 DEF Loaded
<1> HIDE DEF l, conf
<1>4. inv'.at = "loaded" /\ inv'.line = l /\ inv'.conf = conf
  BY <1>2
<1>5. file' = file /\ machine' = machine /\ stored' = stored /\ ran' = ran
  BY DEF Launch
<1>6. InvocationInv'
  BY <1>1, <1>3, <1>4, <1>5 DEF InvocationInv, Loading, Running
<1>7. HistoryInv'
  BY <1>5 DEF LinesInv, HistoryInv
<1> QED BY <1>4, <1>5, <1>6, <1>7 DEF LinesInv, Loading

LEMMA ConnectKeepsLines ==
  ASSUME LinesInv, Connect
  PROVE  LinesInv'
<1>1. inv.at = "loaded" /\ InvocationInv /\ inv.conf = Loaded(inv.line)
  BY DEF LinesInv, InvocationInv, Connect, Loading
<1>2. /\ inv'.at = "connected" /\ inv'.line = inv.line /\ inv'.conf = inv.conf
      /\ inv'.pools = PoolSizes(inv.conf)
  BY DEF Connect
<1>3. file' = file /\ machine' = machine /\ stored' = stored /\ ran' = ran
  BY DEF Connect
<1>4. InvocationInv'
  BY <1>1, <1>2, <1>3 DEF InvocationInv, Loading, Running
<1>5. HistoryInv'
  BY <1>3 DEF LinesInv, HistoryInv
<1> QED BY <1>2, <1>3, <1>4, <1>5 DEF LinesInv, Loading

LEMMA ResumeKeepsLines ==
  ASSUME LinesInv, NEW asked \in BOOLEAN, Resume(asked)
  PROVE  LinesInv'
<1>1. inv.at = "connected" /\ InvocationInv /\ inv.conf = Loaded(inv.line)
  BY DEF LinesInv, InvocationInv, Resume, Loading
<1> DEFINE found == asked /\ Hash(inv.conf) \in stored
<1>2. inv' = [at |-> "resumed", line |-> inv.line, conf |-> inv.conf, pools |-> inv.pools,
              asked |-> asked, found |-> found, hash |-> Hash(inv.conf)]
  BY DEF Resume
<1> HIDE DEF found
<1>3. /\ inv'.at = "resumed" /\ inv'.line = inv.line /\ inv'.conf = inv.conf
      /\ inv'.pools = inv.pools /\ inv'.hash = Hash(inv.conf)
  BY <1>2
<1>4. inv'.found = found
  BY <1>2
<1>5. file' = file /\ machine' = machine /\ stored' = stored /\ ran' = ran
  BY DEF Resume
<1>6. inv.line.front = "cli" /\ Hash(inv.conf) \in stored => found
  BY DEF Resume, found
<1>7. inv'.line.front = "cli" /\ Hash(Loaded(inv'.line)) \in stored' => inv'.found
  BY <1>1, <1>3, <1>4, <1>5, <1>6, Zenon
<1>8. InvocationInv'
  BY <1>1, <1>3, <1>5, <1>7 DEF InvocationInv, Loading, Running
<1>9. HistoryInv'
  BY <1>5 DEF LinesInv, HistoryInv
<1> QED BY <1>3, <1>5, <1>8, <1>9 DEF LinesInv, Loading

(* Tuning for the rows leaves the configuration of a command line alone,   *)
(* so that the hash does not move.                                         *)
LEMMA ExtractKeepsLines ==
  ASSUME LinesInv, NEW row \in RowSizes, Extract(row)
  PROVE  LinesInv'
<1>1. inv.at = "resumed" /\ InvocationInv /\ inv.conf = Loaded(inv.line)
  BY DEF LinesInv, InvocationInv, Extract, Loading
<1> DEFINE conf == Tuned(inv.conf, machine, row)
           hash == IF inv.found THEN inv.hash ELSE Hash(conf)
<1>2. inv' = [at |-> "extracted", line |-> inv.line, conf |-> conf, pools |-> inv.pools,
              asked |-> inv.asked, found |-> inv.found, row |-> row, hash |-> hash]
  BY DEF Extract
<1>3. inv.line.front = "cli" => hash = Hash(Loaded(inv.line))
  <2>1. ASSUME inv.line.front = "cli" PROVE conf = Loaded(inv.line)
    <3>1. Loaded(inv.line) \in ConfigType /\ Complete(Loaded(inv.line))
      BY <1>1, <2>1, LoadedIs DEF InvocationInv
    <3> QED BY <1>1, <3>1, TunedAgain
  <2> HIDE DEF conf
  <2>2. inv.line.front = "cli" => inv.hash = Hash(Loaded(inv.line))
    BY <1>1 DEF InvocationInv
  <2> QED BY <2>1, <2>2
<1> HIDE DEF hash
<1>4. /\ inv'.at = "extracted" /\ inv'.line = inv.line /\ inv'.conf = conf
      /\ inv'.pools = inv.pools /\ inv'.hash = hash /\ inv'.row = row
  <2> HIDE DEF conf
  <2> QED BY <1>2
<1>5. conf = Tuned(Loaded(inv.line), machine, row)
  BY <1>1
<1> HIDE DEF conf
<1>6. file' = file /\ machine' = machine /\ stored' = stored /\ ran' = ran
  BY DEF Extract
<1>7. InvocationInv'
  BY <1>1, <1>3, <1>4, <1>5, <1>6 DEF InvocationInv, Loading, Running
<1>8. HistoryInv'
  BY <1>6 DEF LinesInv, HistoryInv
<1> QED BY <1>4, <1>6, <1>7, <1>8 DEF LinesInv, Running

(* The permits stay below the limit of the connections.                    *)
LEMMA PermitsWithinLimit ==
  ASSUME NEW c \in ConfigType, NEW jobs \in Nat
  PROVE  /\ ConnectionLimit(c) \in Nat /\ Permits(c, jobs) \in Nat
         /\ ConnectionLimit(c) <= c.pg /\ ConnectionLimit(c) <= c.mssql
         /\ Permits(c, jobs) <= ConnectionLimit(c)
<1> DEFINE limit == ConnectionLimit(c)
<1>1. c.pg \in Nat /\ c.mssql \in Nat /\ c.workers \in Nat
  BY DEF ConfigType
<1>2. limit = IF c.pg <= c.mssql THEN c.pg ELSE c.mssql
  BY <1>1, LesserAndGreater DEF ConnectionLimit
<1>3. limit \in Nat /\ limit <= c.pg /\ limit <= c.mssql
  <2> HIDE DEF limit
  <2> QED BY <1>1, <1>2
<1>4. Permits(c, jobs) =
        IF jobs > c.workers THEN Min({jobs, limit}) ELSE Min({c.workers, limit})
  BY DEF Permits
<1> HIDE DEF limit
<1>5. Min({jobs, limit}) = IF jobs <= limit THEN jobs ELSE limit
  BY <1>3, LesserAndGreater
<1>6. Min({c.workers, limit}) = IF c.workers <= limit THEN c.workers ELSE limit
  BY <1>1, <1>3, LesserAndGreater
<1>7. Permits(c, jobs) \in Nat /\ Permits(c, jobs) <= limit
  BY <1>1, <1>3, <1>4, <1>5, <1>6
<1> QED BY <1>3, <1>7 DEF limit

LEMMA TransferKeepsLines ==
  ASSUME LinesInv, NEW jobs \in JobCounts, Transfer(jobs)
  PROVE  LinesInv'
<1>1. /\ inv.at = "extracted" /\ InvocationInv
      /\ inv.conf = Tuned(Loaded(inv.line), machine, inv.row) /\ inv.row \in RowSizes
  BY DEF LinesInv, InvocationInv, Transfer, Running
<1>2. /\ inv'.at = "transferring" /\ inv'.line = inv.line /\ inv'.conf = inv.conf
      /\ inv'.pools = inv.pools /\ inv'.hash = inv.hash /\ inv'.row = inv.row
      /\ inv'.permits = Permits(inv.conf, jobs)
  BY DEF Transfer
<1>3. file' = file /\ machine' = machine
      /\ stored' = stored \cup {inv.hash} /\ ran' = ran \cup {inv.line}
  BY DEF Transfer
<1>4. inv.conf \in ConfigType
  <2>1. Loaded(inv.line) \in ConfigType /\ inv.row \in Nat \ {0} /\ machine \in MachineType
    BY <1>1, LoadedIs, InvocationAssumption DEF InvocationInv, LinesInv
  <2> QED BY <1>1, <2>1, TunedIs, Zenon
<1>5. inv'.permits \in Nat /\ inv'.permits <= ConnectionLimit(inv'.conf)
  <2>1. jobs \in Nat
    BY InvocationAssumption
  <2> QED BY <1>2, <1>4, <2>1, PermitsWithinLimit
<1>6. InvocationInv'
  BY <1>1, <1>2, <1>3, <1>5 DEF InvocationInv, Loading, Running
<1>7. HistoryInv' /\ ran' \subseteq LineType
  <2>1. inv.line.front = "cli" => Hash(Loaded(inv.line)) \in stored'
    BY <1>1, <1>3 DEF InvocationInv, Running
  <2> QED BY <1>1, <1>3, <2>1 DEF LinesInv, HistoryInv, InvocationInv
<1> QED BY <1>2, <1>3, <1>6, <1>7 DEF LinesInv, Running

(* Back to idle, or idle: nothing but the file and the machine can move.   *)
LEMMA RestKeepsLines ==
  ASSUME LinesInv, Fail \/ End \/ Edit \/ Over \/ UNCHANGED vars
  PROVE  LinesInv'
<1>1. ASSUME Fail \/ End PROVE LinesInv'
  BY <1>1 DEF Fail, End, Idle, LinesInv, HistoryInv
<1>2. ASSUME Edit PROVE LinesInv'
  <2>1. inv.at = "idle" /\ inv' = inv /\ stored' = stored /\ ran' = ran
    BY <1>2 DEF Edit
  <2>2. file' \in ConfigType /\ machine' \in MachineType
    <3>1. ASSUME NEW mode \in Modes, file' = [file EXCEPT !.mode = mode]
          PROVE  file' \in ConfigType
      BY <3>1 DEF LinesInv, ConfigType
    <3> QED BY <1>2, <3>1, InvocationAssumption DEF Edit, LinesInv
  <2> QED BY <2>1, <2>2 DEF LinesInv, HistoryInv
<1>3. ASSUME Over \/ UNCHANGED vars PROVE LinesInv'
  BY <1>3 DEF Over, vars, LinesInv, HistoryInv, InvocationInv
<1> QED BY <1>1, <1>2, <1>3

LEMMA NextKeepsLines == LinesInv /\ [Next]_vars => LinesInv'
<1> SUFFICES ASSUME LinesInv, [Next]_vars PROVE LinesInv'
  OBVIOUS
<1>1. ASSUME NEW front \in {"cli", "tui"}, NEW workers \in {Unset, 6}, Launch(front, workers)
      PROVE  LinesInv'
  BY <1>1, LaunchKeepsLines
<1>2. ASSUME NEW asked \in BOOLEAN, Resume(asked) PROVE LinesInv'
  BY <1>2, ResumeKeepsLines
<1>3. ASSUME NEW row \in RowSizes, Extract(row) PROVE LinesInv'
  BY <1>3, ExtractKeepsLines
<1>4. ASSUME NEW jobs \in JobCounts, Transfer(jobs) PROVE LinesInv'
  BY <1>4, TransferKeepsLines
<1>5. ASSUME Connect PROVE LinesInv'
  BY <1>5, ConnectKeepsLines
<1>6. ASSUME Fail \/ End \/ Edit \/ Over \/ UNCHANGED vars PROVE LinesInv'
  BY <1>6, RestKeepsLines
<1> QED BY <1>1, <1>2, <1>3, <1>4, <1>5, <1>6, Zenon DEF Next

LEMMA LinesAlways == Spec => []LinesInv
<1>1. LinesInv /\ [Next]_vars => LinesInv'
  BY NextKeepsLines
<1> QED BY InitLines, <1>1, PTL DEF Spec
-----------------------------------------------------------------------------
(* A command line finds the state that the same command line stored:       *)
(* Orchestrator::resume looks for the hash under which transfer_data saved *)
(* it, since tuning for the rows left the configuration as it was.         *)
THEOREM StateIsFound == Spec => []ResumeFindsState
<1>1. LinesInv => ResumeFindsState
  <2> SUFFICES ASSUME LinesInv, inv.at = "resumed",
                      NEW l \in Before, l.file.mode = file.mode \/ file.chunk # Unset
               PROVE  inv.found
    BY DEF ResumeFindsState
  <2>1. /\ InvocationInv /\ HistoryInv
        /\ inv.line \in LineType /\ inv.line.file = file
    BY DEF LinesInv, InvocationInv
  <2>2. l \in ran /\ l \in LineType /\ l.front = "cli" /\ SameButMode(l, inv.line)
    BY DEF Before, LinesInv
  <2>3. inv.line.front = "cli" /\ Hash(Loaded(l)) = Hash(Loaded(inv.line))
    BY <2>1, <2>2, HashAsideMode
  <2>4. Hash(Loaded(l)) \in stored
    BY <2>1, <2>2 DEF HistoryInv
  <2> QED BY <2>1, <2>3, <2>4, Zenon DEF InvocationInv
<1> QED BY <1>1, LinesAlways, PTL

(* Jobs never outnumber the connections: the pools were opened with the    *)
(* numbers that later limit the permits, and the MySQL pool, which the     *)
(* limit does not look at, has no fewer connections when it is tuned.      *)
THEOREM PermitsAlwaysFit == Spec => []PermitsFit
<1>1. LinesInv => PermitsFit
  <2> SUFFICES ASSUME LinesInv, inv.at = "transferring", inv.line.front = "cli",
                      "mysql" \in {file.source, file.target}
                        => {file.mysql, file.pg, file.mssql} = {Unset}
               PROVE  inv.permits <= inv.pools.source /\ inv.permits <= inv.pools.target
    BY DEF PermitsFit
  <2> DEFINE c == Loaded(inv.line)
             t == Tuned(file, machine, 1)
  <2>1. /\ inv.line \in LineType /\ inv.line.file = file /\ inv.line.machine = machine
        /\ inv.conf = Tuned(c, machine, inv.row) /\ inv.pools = PoolSizes(c)
        /\ inv.permits \in Nat /\ inv.permits <= ConnectionLimit(inv.conf)
        /\ file \in ConfigType /\ machine \in MachineType
    BY DEF LinesInv, InvocationInv, Running
  <2>2. /\ c \in ConfigType /\ Complete(c)
        /\ c.source = t.source /\ c.target = t.target
        /\ c.mssql = t.mssql /\ c.pg = t.pg /\ c.mysql = t.mysql
    BY <2>1, LoadedIs
  <2>3. t \in ConfigType /\ t.source = file.source /\ t.target = file.target
    BY <2>1, 1 \in Nat \ {0}, TunedIs, Zenon
  <2>4. "mysql" \in {file.source, file.target} => t.pg <= t.mysql
    <3>1. ASSUME "mysql" \in {file.source, file.target}
          PROVE  t.pg <= t.mysql
      <4> DEFINE found == Connections(file, t.workers, t.readers, t.writers)
      <4>1. file.pg = Unset /\ file.mysql = Unset
        BY <3>1
      <4>2. t.pg = found.pg /\ t.mysql = found.mysql /\ Complete(t)
        BY <2>1, 1 \in Nat \ {0}, TunedIs, Zenon
      <4>3. t.workers \in Nat \ {0} /\ t.readers \in Nat \ {0} /\ t.writers \in Nat \ {0}
        <5> HIDE DEF t
        <5> QED BY <2>3, <4>2 DEF ConfigType, Complete, Unset
      <4>4. found.pg <= found.mysql
        BY <2>1, <4>1, <4>3, PoolsFound, Zenon
      <4> QED BY <4>2, <4>4
    <3> QED BY <3>1
  <2> HIDE DEF c, t
  <2>5. inv.conf = c
    BY <2>1, <2>2, TunedAgain
  <2>6. c.mssql \in Nat /\ c.pg \in Nat /\ c.mysql \in Nat
    BY <2>2 DEF ConfigType
  <2>7. /\ ConnectionLimit(c) \in Nat
        /\ ConnectionLimit(c) <= c.pg /\ ConnectionLimit(c) <= c.mssql
    BY <2>2, 0 \in Nat, PermitsWithinLimit
  <2>8. inv.permits <= c.pg /\ inv.permits <= c.mssql
    BY <2>1, <2>5, <2>6, <2>7
  <2>9. "mysql" \in {c.source, c.target} => inv.permits <= c.mysql
    BY <2>1, <2>2, <2>3, <2>4, <2>6, <2>8
  <2>10. /\ inv.pools.source = IF c.source = "mysql" THEN c.mysql ELSE c.mssql
         /\ inv.pools.target = IF c.target = "mysql" THEN c.mysql ELSE c.pg
    BY <2>1, <2>2 DEF PoolSizes, Or, Complete
  <2> QED BY <2>8, <2>9, <2>10
<1> QED BY <1>1, LinesAlways, PTL

(* What the workers read ahead fits the budget twice, unless there are     *)
(* only two buffers: with_auto_tuning divides the budget by what the       *)
(* workers' chunks take, whoever set their size.                           *)
THEOREM BudgetAlwaysKept == Spec => []BudgetKept
<1>1. LinesInv => BudgetKept
  <2> SUFFICES ASSUME LinesInv, inv.at \in Running, file.ahead = Unset,
                      inv.line.workers = Unset
               PROVE  \/ inv.conf.ahead = 2
                      \/ inv.conf.workers * inv.conf.ahead * inv.conf.chunk * TunedRow
                           * SafetyFactor <= Budget(inv.conf, machine)
    BY DEF BudgetKept, Running
  <2>1. /\ inv.line \in LineType /\ inv.line.file = file /\ inv.line.machine = machine
        /\ inv.row \in Nat \ {0} /\ inv.conf = Tuned(Loaded(inv.line), machine, inv.row)
        /\ file \in ConfigType /\ machine \in MachineType
    BY InvocationAssumption DEF LinesInv, InvocationInv, Running
  <2>2. inv.conf = Tuned(file, machine, TunedRow) /\ TunedRow \in Nat \ {0}
    <3>1. CASE inv.line.front = "cli"
      <4>1. Loaded(inv.line) \in ConfigType /\ Complete(Loaded(inv.line))
            /\ Loaded(inv.line) = Tuned(file, machine, 1)
        BY <2>1, <3>1, LoadedIs
      <4> QED BY <2>1, <3>1, <4>1, TunedAgain DEF TunedRow
    <3>2. CASE inv.line.front # "cli"
      <4>1. Loaded(inv.line) = file
        BY <2>1, <3>2, LoadedIs
      <4> QED BY <2>1, <3>2, <4>1 DEF TunedRow
    <3> QED BY <3>1, <3>2
  <2> DEFINE t == Tuned(file, machine, TunedRow)
  <2>3. /\ t \in ConfigType /\ Complete(t) /\ t.percent = file.percent
        /\ t.ahead = Or(file.ahead, Ahead(file, machine, TunedRow, t.workers, t.chunk))
    <3>1. file \in ConfigType /\ machine \in MachineType /\ TunedRow \in Nat \ {0}
      BY <2>1, <2>2
    <3> QED BY <3>1, TunedIs
  <2> HIDE DEF t
  <2>4. t.workers \in Nat \ {0} /\ t.chunk \in Nat \ {0}
    BY <2>3 DEF ConfigType, Complete, Unset
  <2>5. t.ahead = Ahead(file, machine, TunedRow, t.workers, t.chunk)
    BY <2>3 DEF Or
  <2>6. \/ t.ahead = 2
        \/ t.workers * t.ahead * t.chunk * TunedRow * SafetyFactor <= Budget(file, machine)
    BY <2>1, <2>2, <2>4, <2>5, AheadFits, Zenon
  <2>7. Budget(t, machine) = Budget(file, machine)
    BY <2>3 DEF Budget
  <2> QED BY <2>2, <2>6, <2>7, Zenon DEF t
<1> QED BY <1>1, LinesAlways, PTL
=============================================================================
