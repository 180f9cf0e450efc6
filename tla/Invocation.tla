------------------------------- MODULE Invocation -------------------------------
(***************************************************************************)
(* One configuration file used by many invocations, from the command line  *)
(* and from the terminal UI: auto-tuning for the machine and, later, for   *)
(* the tables; the sizes of the connection pools; the hash of the tuned    *)
(* configuration, under which the state of a run is stored and looked up;  *)
(* and the number of jobs allowed to run at once.                          *)
(*                                                                         *)
(* Numbers are scaled down: memory in GB, chunks in thousands of rows, and *)
(* rows in multiples of 500 bytes, the size assumed of an unknown row.     *)
(***************************************************************************)
EXTENDS Integers, FiniteSets, FiniteSetsExt

CONSTANTS
    Files,        \* the configuration files
    Machines,     \* [gb, cores]
    RowSizes,     \* average row sizes of the source
    JobCounts,    \* partitions of all tables together
    Invocations   \* bound on the invocations of a behaviour

Unset == 0
Databases == {"mssql", "postgres", "mysql"}
Modes == {"drop_recreate", "upsert"}

\* Config: what tuning and the hash look at.
ConfigType ==
    [source: Databases, target: Databases, mode: Modes, percent: 1..100,
     workers: Nat, readers: Nat, writers: Nat, chunk: Nat, ahead: Nat,
     mssql: Nat, pg: Nat, mysql: Nat]
MachineType == [gb: Nat, cores: Nat]

ASSUME InvocationAssumption ==
    /\ Files \subseteq ConfigType
    /\ Machines \subseteq MachineType
    /\ RowSizes \subseteq Nat \ {0}
    /\ JobCounts \subseteq Nat
    /\ Invocations \in Nat

VARIABLES
    file,     \* the configuration file as it stands
    machine,  \* where the program runs
    inv,      \* the invocation under way
    stored,   \* hashes that have state in the target database
    ran,      \* history: the command lines that have stored state
    left      \* invocations to come

vars == << file, machine, inv, stored, ran, left >>

-----------------------------------------------------------------------------
(* Auto-tuning: what the file leaves unset.                                *)

Clamp(n, lo, hi) == Max({lo, Min({n, hi})})
Or(value, default) == IF value # Unset THEN value ELSE default

KilorowsPerGB == 2147  \* thousands of 500-byte rows in a GB
SafetyFactor == 2

Budget(c, m) == (m.gb * KilorowsPerGB * c.percent) \div 100
DesiredAhead(m) == Clamp(m.gb \div 4, 4, 32)

DesiredChunk(c, m) == IF c.mode = "upsert" THEN 50 ELSE Min({200, 75 + (m.gb * 25) \div 8})

\* The minimum viable chunk is ten thousand rows.
Chunk(c, m, row, workers) ==
    Min({DesiredChunk(c, m),
         Max({10, Budget(c, m) \div (row * DesiredAhead(m) * workers * SafetyFactor)})})

\* As if the chunks of the readers did not count.
AheadDesired(c, m, row, workers, chunk) == DesiredAhead(m)

Ahead(c, m, row, workers, chunk) ==
    Clamp(Min({DesiredAhead(m), Budget(c, m) \div (row * chunk * workers * SafetyFactor)}), 2, 32)

\* Connections for every worker's readers, and for every worker's writers.
Connections(c, workers, readers, writers) ==
    [mssql |-> Or(c.mssql, Clamp(workers * readers + 4, 8, 80)),
     pg |-> Or(c.pg, Clamp(workers * writers + 4, 8, 64)),
     mysql |-> Or(c.mysql, Clamp(workers * Max({readers, writers}) + 4, 8, 64))]

\* MigrationConfig::with_auto_tuning.  SQL Server targets take two writers.
Tuned(c, m, row) ==
    LET workers == Or(c.workers, Clamp(m.cores \div 2, 4, 16))
        readers == Or(c.readers, Clamp(m.cores \div 4, 2, 16))
        writers == Or(c.writers, IF c.target = "mssql" THEN 2 ELSE Clamp(m.cores \div 4, 2, 16))
        chunk == Or(c.chunk, Chunk(c, m, row, workers))
        pools == Connections(c, workers, readers, writers)
    IN [c EXCEPT !.workers = workers, !.readers = readers, !.writers = writers, !.chunk = chunk,
                 !.ahead = Or(@, Ahead(c, m, row, workers, chunk)),
                 !.mssql = pools.mssql, !.pg = pools.pg, !.mysql = pools.mysql]

\* As if the mode were part of the identity of a pipeline.
HashOfAll(c) == c

\* Config::hash: everything but the target mode.
Hash(c) == [c EXCEPT !.mode = "drop_recreate"]

\* The pools the orchestrator opens; the defaults are for a value still unset.
PoolSizes(c) ==
    [source |-> IF c.source = "mysql" THEN Or(c.mysql, 40) ELSE Or(c.mssql, 50),
     target |-> IF c.target = "mysql" THEN Or(c.mysql, 40) ELSE Or(c.pg, 40)]

\* As if only the source pool were looked at.
SourceLimit(c) == c.mssql

\* transfer_data: one permit per job, but for the limits of the connections.
ConnectionLimit(c) == Min({c.pg, c.mssql})
Permits(c, jobs) ==
    IF jobs > c.workers THEN Min({jobs, ConnectionLimit(c)}) ELSE Min({c.workers, ConnectionLimit(c)})

-----------------------------------------------------------------------------
(* Invocations.                                                            *)

Idle == [at |-> "idle"]

Line(front, workers) == [front |-> front, workers |-> workers, file |-> file, machine |-> machine]

Init ==
    /\ file \in Files
    /\ machine \in Machines
    /\ inv = Idle
    /\ stored = {}
    /\ ran = {}
    /\ left = Invocations

\* `run` and `resume` tune the file at once, then take the --workers option; the
\* terminal UI loads the file as it is.
Launch(front, workers) ==
    /\ inv.at = "idle"
    /\ left > 0
    /\ front = "tui" => workers = Unset
    /\ LET c == IF front = "cli" THEN Tuned(file, machine, 1) ELSE file
       IN inv' = [at |-> "loaded", line |-> Line(front, workers),
                  conf |-> [c EXCEPT !.workers = Or(workers, @)]]
    /\ left' = left - 1
    /\ UNCHANGED << file, machine, stored, ran >>

Fail ==
    /\ inv.at \in {"loaded", "connected", "resumed", "extracted"}
    /\ inv' = Idle
    /\ UNCHANGED << file, machine, stored, ran, left >>

\* Orchestrator::new.
Connect ==
    /\ inv.at = "loaded"
    /\ inv' = [at |-> "connected", line |-> inv.line, conf |-> inv.conf, pools |-> PoolSizes(inv.conf)]
    /\ UNCHANGED << file, machine, stored, ran, left >>

\* Orchestrator::resume, which the terminal UI calls for one of its actions only.
Resume(asked) ==
    /\ inv.at = "connected"
    /\ inv.line.front = "cli" => asked
    /\ inv' = [at |-> "resumed", line |-> inv.line, conf |-> inv.conf, pools |-> inv.pools,
               asked |-> asked, found |-> asked /\ Hash(inv.conf) \in stored,
               hash |-> Hash(inv.conf)]
    /\ UNCHANGED << file, machine, stored, ran, left >>

\* The schema is known: tune again, for its rows.  A new state takes the hash of
\* the configuration as it now is.
Extract(row) ==
    /\ inv.at = "resumed"
    /\ LET c == Tuned(inv.conf, machine, row)
       IN inv' = [at |-> "extracted", line |-> inv.line, conf |-> c, pools |-> inv.pools,
                  asked |-> inv.asked, found |-> inv.found, row |-> row,
                  hash |-> IF inv.found THEN inv.hash ELSE Hash(c)]
    /\ UNCHANGED << file, machine, stored, ran, left >>

\* The target is prepared and the state saved: the jobs are started.
Transfer(jobs) ==
    /\ inv.at = "extracted"
    /\ inv' = [at |-> "transferring", line |-> inv.line, conf |-> inv.conf, pools |-> inv.pools,
               asked |-> inv.asked, found |-> inv.found, row |-> inv.row, hash |-> inv.hash,
               permits |-> Permits(inv.conf, jobs)]
    /\ stored' = stored \cup {inv.hash}
    /\ ran' = ran \cup {inv.line}
    /\ UNCHANGED << file, machine, left >>

End ==
    /\ inv.at = "transferring"
    /\ inv' = Idle
    /\ UNCHANGED << file, machine, stored, ran, left >>

\* Between invocations the user edits the mode, or moves to another machine.
Edit ==
    /\ inv.at = "idle" /\ left > 0
    /\ \/ /\ \E mode \in Modes : file' = [file EXCEPT !.mode = mode]
          /\ UNCHANGED machine
       \/ machine' \in Machines /\ UNCHANGED file
    /\ UNCHANGED << inv, stored, ran, left >>

Over == inv.at = "idle" /\ left = 0 /\ UNCHANGED vars

Next ==
    \/ \E front \in {"cli", "tui"}, workers \in {Unset, 6} : Launch(front, workers)
    \/ Connect
    \/ \E asked \in BOOLEAN : Resume(asked)
    \/ \E row \in RowSizes : Extract(row)
    \/ \E jobs \in JobCounts : Transfer(jobs)
    \/ Fail \/ End \/ Edit \/ Over

Spec == Init /\ [][Next]_vars

-----------------------------------------------------------------------------
(* Properties.                                                             *)

SameButMode(l, k) == [l EXCEPT !.file.mode = k.file.mode] = k
Before == {l \in ran : l.front = "cli" /\ SameButMode(l, inv.line)}

\* A command line finds the state that the same command line stored, whatever its
\* tables have become, and whatever the target mode if the size of chunks is set:
\* crash recovery and watermarks rest on it.  It is not promised to the terminal
\* UI, which looks up the hash of the file and stores under the hash of what was
\* tuned.
ResumeFindsState ==
    inv.at = "resumed" /\ (\E l \in Before : l.file.mode = file.mode \/ file.chunk # Unset)
       => inv.found

\* Jobs at work never outnumber the connections of either pool, for a command line
\* whose MySQL pool, if it has one, follows from the same numbers as the limit.
PermitsFit ==
    inv.at = "transferring" /\ inv.line.front = "cli"
    /\ ("mysql" \in {file.source, file.target} => {file.mysql, file.pg, file.mssql} = {Unset})
       => inv.permits <= inv.pools.source /\ inv.permits <= inv.pools.target

\* The row size the invocation was tuned for: that of its tables is known too late
\* to a command line.
TunedRow == IF inv.line.front = "cli" THEN 1 ELSE inv.row

\* What the workers read ahead fits the memory budget twice, however large the
\* chunks, unless there are only the fewest buffers; or the buffers, or the workers
\* on the command line, were set by hand.
BudgetKept ==
    inv.at \in {"extracted", "transferring"} /\ file.ahead = Unset /\ inv.line.workers = Unset
       => \/ inv.conf.ahead = 2
          \/ inv.conf.workers * inv.conf.ahead * inv.conf.chunk * TunedRow * SafetyFactor
                <= Budget(inv.conf, machine)
=============================================================================
