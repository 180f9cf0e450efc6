# A TLA+ model of dmt-rs

dmt-rs copies tables from one database (SQL Server, PostgreSQL, MySQL) to
another, in bulk (`drop_recreate`) or as an `upsert`, optionally only rows
whose date column changed since the last run. This directory holds TLA+
modules for the parts of it where order, failure and concurrency matter, the
TLC configurations that check them, and TLAPS proofs. Source paths below are
relative to `src/crates/dmt-rs/src/` unless they say otherwise. `PROJECT.json`
maps every definition to the lines it stands for, lists the runs, the hazards
of the code with the properties that cover them, and, for each property, a
mutated definition that violates it.

## Inventory

| Component | State it keeps | Operations | What is hard | What makes it correct |
|---|---|---|---|---|
| Keyset paging, range splitting (`transfer/mod.rs`) | a cursor per reader | `read_chunk_*`, `split_pk_range` | `>=` or `>`, `None` bounds, `min_pk` defaulting to 0, short ranges | every row of a job in exactly one chunk |
| `RangeTracker` (`transfer/mod.rs`) | map from start to end of ranges handed over | `add_range`, `safe_resume_point` | ranges arrive out of order | never a resume point above a row not yet handed over |
| Transfer engine (`transfer/mod.rs`) | two bounded channels, reader, coordinator and writer tasks, a token | `execute` | writers fail, siblings cancel, the future is dropped, channels close in some order | Ok means written; resume point safe; all tasks end |
| Partitioned scan (`drivers/*/reader.rs`) | none | `get_partition_boundaries`, the queries of each reader | the table changes between queries | no row twice, no row missed |
| Orchestrator (`orchestrator/mod.rs`) | `MigrationState`, a `JoinSet`, tokens and counters per table | `resume`, `run`, `prepare_target`, `transfer_data`, `finalize`, `validate` | partitions of a table end in any order; a signal; a crash between two saves; several runs over one stored state | watermarks and statuses never claim more than the target holds |
| Finalizer and DDL (`orchestrator/mod.rs`, `drivers/*/writer.rs`) | a semaphore, one task per table; the target's tables, indexes and constraints | primary keys, indexes, foreign keys by level, checks, sequences; drop, create and alter tables | cycles of references; failed and panicked tasks; constraints of earlier runs; three dialects | order of references, the schema complete whatever was there, nothing left running |
| State backends (`state/*.rs`) | table `table_state`, one row per run and table | `save`, `load_latest`, `get_last_sync_timestamp` | SQL Server saves table by table, not in one transaction | as for the orchestrator |
| Target writers (`drivers/*/writer.rs`) | a pool of sessions; a staging table per upsert writer, in the session (PostgreSQL) or the schema; `IDENTITY_INSERT` of a session | `write_batch`, `upsert_chunk`, DDL | deadlock retries, half-loaded and leftover staging tables, what a failed writer leaves on its connection | a chunk is merged whole or not at all, Ok means merged, no writer fails for another |
| Row decoding (`drivers/common/pg_binary.rs`, `drivers/*/reader.rs`) | a buffer of COPY bytes | `feed`, `next_row`, `parse_numeric`, one conversion per type and reader | rows cut anywhere by the network; numbers without their zero groups; values at the edge of a type | every row once and in order; no value changed unless the mapping says so |
| Pools, registry (`orchestrator/pools.rs`, `drivers/mod.rs`, `core/catalog.rs`) | connection pools, a mapper per target | `from_config`, dispatch to a driver | pools, permits and mappers are built in different places from different numbers | jobs at work fit the pools; one mapping per column |
| Configuration (`config/*`) | the configuration | parse, validate, `with_auto_tuning`, `hash` | values derived from each other and from the machine; tuned twice | memory budget kept; a rerun finds its state |
| Type mapping, dialects (`dialect/*`, `drivers/*/dialect.rs`) | none | map types (pair by pair, and through canonical types), quote, generate SQL | two families of mappers; what a reader delivers against what a writer sends | what is not marked lossy survives; created columns take the values |
| Schema, values, identifiers (`core/*`) | none | data types, `SqlValue`, quoting | - | as above |
| Errors, CLI (`error.rs`, `dmt-rs-cli/src/main.rs`) | - | commands, options, exit codes, signals | options applied after tuning | state found again |
| Terminal UI, wizards (`dmt-rs-cli/src/tui`, `wizard.rs`) | the application's state, a channel of events, a token, a wizard, a file | one handler per event, one step per wizard question | background tasks answer late; keys are read under an older mode | Ctrl+C reaches the running migration; the UI can be used again; a saved file loads |
| AI mapping and diagnosis (`ai/*`) | caches on disk and in memory | `warm_up`, `diagnose` | - | - |

How they interact: `run` extracts the schema, loads the state of the last run
(`resume`), prepares the target, and for each table asks the reader for
partition boundaries and spawns one job per partition in a `JoinSet`. A job is
one call of `TransferEngine::execute`, which spawns readers (tasks that send
`RowChunk`s into the read channel) and writers (tasks that take `WriteJob`s
from the write channel), and moves chunks from one channel to the other while
a `RangeTracker` records what was handed over. The jobs of one table share a
`CancellationToken`: a writer that fails cancels it, and so stops the
dispatchers of the sibling partitions. The result loop of `transfer_data`
collects the jobs' results, settles the table when its last job is in, and
saves the state. After the transfer `finalize` creates the constraints. What
survives the process is the target and `table_state`, from which the next run
takes completed tables, resume points and watermarks.

## Modules

```
KeysetPaging <- RangeTracker <- TransferPipeline
     ^                                | implements
     |                                v
 SourceScan                     TransferPromise  ... is what MigrationRun assumes of a job
                                Finalizer <- TargetSchema ... MigrationRun's prepare and finalize steps
                                UpsertStaging ... is the pipeline's WriteOk and WriteFail

 TypeMapping <- CanonicalTypes <-+
 PgNumeric <- RowValues <- TargetValues <- ColumnFlow ... one column through reader, mapping and writer
              CopyStream <-------+   ... how the PostgreSQL reader of the scan gets its rows
 SetupWizard <- TuiApp           ... starts and cancels runs of MigrationRun
 Invocation                      ... tunes, sizes and names what MigrationRun stores

 proofs, each module extending the one it is about and the one on its left:
 RangeTrackerLemmas <- TransferPipelineProofs, SourceScanProofs (of SourceScan and of ColumnFlow)
 TargetSchemaProofs, UpsertStagingProofs, MigrationRunProofs, InvocationProofs, TuiAppProofs
```

**KeysetPaging** (pure): the WHERE clause and LIMIT of a keyset query
(`Selects`, `KeysetChunk`), `SplitPkRange`, and the key range, cursor and
`is_first_chunk` that each reader of a job starts with (`ReaderRanges`).
`Option<i64>` is an integer or `None`.

**RangeTracker** (pure): the `BTreeMap` as a function with a finite domain;
the scan of `safe_resume_point` is stated without its loop, as the largest end
among the ranges before the first gap.

**TransferPipeline**: `execute` and every task it spawns. One action per step
between two awaits: a reader's query (`ReadChunk`, `ReadFail`) and its send
(`SendChunk`, `SendClosed`), the coordinator behind `reader_handle`
(`SpawnReaders`, `MaxPkFail`, `JoinReader`), the dispatcher's `select!` loop
(`Recv`, `Send`, `RecvNone`, `SeeCancel`, `SendRefused`), the two joins, and a
writer (`OpenWriter`, `TakeJob`, `WriteOk`, `WriteFail`, `WriterPanics`,
`EndWriter`).
`SiblingCancel` and `Abort` are what the orchestrator does to a running job.
Dropping the channels is part of leaving the loop: `Dispatching` is true as
long as the dispatcher holds both. `queued` and `written` are history and
target.

**TransferPromise**: what a job owes the orchestrator, in three actions: rows
of the job arrive; an Ok not cut short by a cancelled token means all of them
did; no resume point passes a row that is missing; nothing is written after an
Ok. `TransferPipeline` implements it under the mapping of `Promise`.

**SourceScan**: one table read while other sessions insert and delete rows.
`Boundaries` is NTILE (SQL Server, PostgreSQL) or the arithmetic split of
MIN..MAX (MySQL); each partition is a job, each job gets its readers' ranges
when it starts, each `Query` sees the table of that moment. Deliveries are
counted per key.

**MigrationRun**: up to `conf.runs` invocations of the program over one stored
state. A configuration record chooses the tables and their kinds, the target
modes, incremental sync, the atomicity of the state backend and which faults
may happen. `Start` is `resume` and the head of `run`; `Prepare` is
`prepare_target` and the save after it; `Spawn` is one iteration of the spawn
loop with its save; `Visit` moves one row; `Collect`, `CollectCancelled` and
`AllCollected` are the result loop; `SettleTables` the loops after it; `Close`
the tail of `run`. `Crash` may come before any of them, and every save may fail,
with SQL Server after any subset of the tables. A row is a version, the time of
its last change, which is also its date column; the watermark of a table is
compared with it. Jobs are as `TransferPromise` says: rows arrive in any order,
an Ok may be partial once the table's token is cancelled, a resume point is
none or a key below which nothing is missing.

**Finalizer**: `finalize` and `build_fk_dependency_levels`. Every phase spawns
one task per table under a semaphore, and is joined before the next; foreign
keys are a sub-phase per level. `Remaining` is Kahn's algorithm as a recursive
function, `NextLevel` with the rule for cycles. Which statements succeed is up
to the module that composes it.

**TargetSchema** extends it by the rest of a run as far as it touches the
target's schema, over several runs in changing modes. `prepare_target` goes
through the tables in order: `DropTable` and `CreateTable`, or `EnsureKey`,
`DropIndexes` and `SetUnlogged`. `Transfer` is one table's rows, which a foreign
key may refuse; `Execute` is a statement of a task of `finalize`. `Stop` is a run
that is killed or fails anywhere. The state is what the target has of every
table: its key, its index, its foreign keys with their actions, its checks, and
whether it is logged. What a database accepts is `IndexAccepted`,
`ForeignKeyAccepted`, `DropRefused` and so on; what the drivers write comes from
their code, how a database answers is knowledge of the three databases (a
referenced table or index cannot be dropped, MySQL keeps an index for each foreign
key, a table of SQL Server has one clustered index, logged tables of PostgreSQL
do not refer to unlogged ones).

**UpsertStaging**: `upsert_chunk` of the three drivers, below one `WriteOk` of
the pipeline. A statement the database executes is one step: take a connection
(`Checkout`), look for, drop, create or truncate the staging table, load it in
one or several statements (`LoadStaging`), `Merge`, and drop it (`Cleanup`; SQL
Server leaves it for the next chunk to drop). MySQL opens a transaction, but its
first statement is DDL and commits it, so that every statement stands alone.
`StatementFails`, `SessionLost`, `WaitTimesOut` and `Deadlock` are what the
databases and the pool may do. The comments at `target/mod.rs:21` and
`transfer/mod.rs:481` speak of a writer that holds its connection and reuses
its staging table; in the code of all three drivers a connection is taken per
chunk, which is why a session's temporary tables and `IDENTITY_INSERT` matter.

**Invocation**: what happens to the numbers of one configuration file over
several invocations, by the command line and by the terminal UI. `Tuned` is
`with_auto_tuning`; it is applied when the program starts and again once row
sizes are known (`Extract`). `PoolSizes` is what `from_config` opens, `Permits` what
`transfer_data` allows at once, `Hash` the identity under which `Transfer` stores
state and `Resume` looks for it. Between invocations the user may change the
target mode or the machine (`Edit`).

**SetupWizard** (operators): the configuration as far as the wizards and
`validate` tell its values apart, the steps of both wizards (the terminal UI's
`Submit`, `WizardTyped`, `WizardUp`, ..., and `init`'s), the files they write and
what `Config::load` makes of a file. A file has a path, of which only the extension
counts, and a form: JSON, YAML with quotes (the serializer that `init` uses) or YAML
without (`to_yaml` of the terminal UI's wizard, `Written`). `Parses` is the choice of the
parser by the extension; `Unquoted` is what YAML makes of an answer without
quotes, and a text is named by just that: kept, empty after a `#`, or no YAML.

**TuiApp**: `App::run` and everything that sends it events. The keyboard task
(`Press`) turns a key into an event under the shared input mode it reads, and
the loop handles the event later, one action per `AppEvent`. Migrations
(`Report`, `EndRun`), the forwarders of their progress (`Forward`) and health
checks (`CheckEnds`) are tasks of their own; both channels are bounded.

**TypeMapping** and **CanonicalTypes** (pure): the two families of type mappers.
`TypeMapping` has the direct mappers (`MssqlToPostgres`, `PostgresToMssql`, ...),
`CanonicalTypes` the way through a canonical type and `TargetType`, the mapper
that `from_config` gives a pair of databases. A mapping is the target column with
the marks `lossy` and `fallback`.

**PgNumeric** (pure): `parse_numeric` over groups of `Width` digits, written as
the code computes it, beside `Meaning`, the number that PostgreSQL's format
denotes. **RowValues** and **TargetValues** (pure): the `SqlValue` each reader
makes of a value, and what each writer's form of it becomes in a column
(`Outcomes`, a set: where the outcome depends on the server's settings, each).
Values are names of the cases that code distinguishes ("1960.5" is an instant
before 1970 with a fraction), not encodings. Moments and times of day have `Ticks` of
100 ns behind their names, and what a writer cuts off is computed: microseconds, towards zero
for PostgreSQL (`Microseconds`), and whole 1/300 s of whole milliseconds for a datetime of
SQL Server (`DateTimeOf`).

**CopyStream**: `BinaryRowParser` and the copy loop of the PostgreSQL reader, byte
counts instead of bytes: a packet of any of the `Packets` sizes arrives
(`Arrive`), rows are taken while they are whole, and full batches are sent on
(`TakeRow`, `NoRow`); at the end the rest of a batch is (`EndOfStream`). The stream
may break off anywhere (`StreamBreaks`), and the receiver of a batch may have gone
(`BatchRefused`). `StreamSpec` is the loop by itself, with the invariant `StreamInOrder`.

**ColumnFlow** composes them: the question to the AI mapper (`WarmUp`), the column
of the target table (`CreateTable`), the rows as they are read (`Stream` or
`FetchRows`), and what is written of each batch (`WriteBatch`): the `Statements` of a
batch, each of which takes all of its rows or none, so that a batch which fails
may leave a part in the target (MySQL's INSERTs; on SQL Server the rows of the bulk load
before those with strings that are too long for one).

The `MC*` modules give constants their values; `MCConversion` also states its
properties, because they name concrete values as exceptions.

## Runs

| Run | Checks | Bounds |
|---|---|---|
| `pipeline` | `TypeOK`, `ResumePointSafe`, `OkMeansComplete`, `RowsCountedOnce`, `KeepsPromise` (refinement), `EveryTaskEnds` | five keys on both sides of 0 with gaps, chunks of 2 (and of 1), two writers, read channel of 1, eleven jobs |
| `scan` | `TypeOK`, `NoRowTwice`, `NoRowMissed`, `ScanEnds` | keys -2..4, up to two concurrent changes, up to three partitions, two readers each (three without partitions) |
| `scan_mysql` | finding: `NoRowTwice` | two partitions, no changes |
| `migration` | `TypeOK`, `WatermarkSound`, `CompletedMeansCopied`, `SuccessIsComplete`, `WatermarkKept`, `RunEnds` | two tables of two rows, up to three invocations, clock up to 3 |
| `migration_incremental` | finding: `WatermarkSound` | integer key, nothing fails |
| `migration_cancel` | finding: `CompletedMeansCopied` | one signal |
| `finalizer` | `TypeOK`, `ReferencesFirst`, `KeysFirst`, `SchemaComplete`, `RerunsPass`, `NothingLeftRunning`, `FinalizeEnds` | one run, two permits: all graphs of references between three tables of which one may refer to itself; one run of a chain and of a cycle with every phase, failing statements, 0, 2 and 3 permits; up to three runs, stopped anywhere, in either mode, between every two databases, one permit |
| `upsert` | `TypeOK`, `WholeChunksOnly`, `OkMeansMerged`, `FailuresContained`, `EveryUpsertEnds` | three writers on two tables, two sessions, chunks of one and two rows, one retry, one fault; with distinct names, with colliding names, and with leftover staging tables; all three targets |
| `tui` | `TypeOK`, `CancelReaches`, `IdleWhenOver`, `SavedConfigLoads`, `ModesAgree` | two migrations and a health check with keys typed ahead, event channel of 2, progress channel of 1; a command line of three words with every editing key; both wizards: every way back through the questions, every text (also texts that are a comment or no YAML without quotes), over an old file, and from a `.json` path to `config.yaml` and back |
| `invocation` | `ResumeFindsState`, `PermitsFit`, `BudgetKept` | six files, three machines (1 GB and 2 cores to 64 GB and 64 cores), rows of 500 bytes and of 10 KB, 1, 12 and 100 jobs, two invocations with edits between |
| `conversion` | `ValuesSurvive`, `NothingRefused`, `RowsArriveInOrder`, `MappersAgree` | every pair of databases with every column type the mappers of the source know, NULL, and the edge values of each; three rows, batches of 2, one row per INSERT, packets of 1, 7 and 1000 bytes |
| `conversion_numeric` | finding: `NumbersArrive` | the numeric columns of PostgreSQL |

Why the bounds are enough. Five keys in chunks of two give each of two
parallel readers a full chunk, a short one and the end of its range, put a row
on the boundary of the sub-ranges and rows below the default `min_pk` of 0;
a read channel of one and a write channel of four (two per writer, as in the
code) both fill up and block (the job with chunks of one row fills the second).
Two concurrent changes are one between the planning of the scan and its
queries and one between two queries. Two rows per table let one be copied while
the other is changed or inserted; three invocations are the one that leaves
something wrong behind, the one that moves the watermark and the one that would
skip a row because of it. With three tables there are self-references, cycles of
two and three, chains, tables behind a cycle, and a third index of one name; three runs are one
that creates constraints, one that stops over them half way, and one that has to
put it right. Two sessions for three writers
make one wait, and hand a session from a writer that failed to one of the same
table and to one of another; a chunk of two rows can be loaded by halves, and
the writer of two chunks meets its own staging table again. One retry of the
code's five separates the first deadlock from the last, and deadlocks are not
counted as faults, so that every writer may meet them. An event channel of two
fills up behind one event the loop has not taken, which is what lets keys be
typed ahead and updates come late; more only adds longer queues of the same
events. Two invocations are the one that stores and the one that looks up.
Machines and files are chosen to hit both ends of each clamp of the tuning. Packets
of one byte cut the stream everywhere, in the header, in a count, in a length
and in a value; packets of seven cut rows at varying places, and one of 1000 holds
all of them; three rows in batches of two send a full batch and a remainder. In
`MCConversion` fractions of a second are real, and have a value for each unit that
a type or a writer has: 100 ns, 1 us, 1/300 s, 10 ms, half a second. Years are
scaled to seconds, since of them only the order and the side of 1970 and of 2000 matter
to the code.

Fairness. `FairSpec` of the pipeline and `FairSchemaSpec` of the finalizer assume that tokio polls
every runnable task and that every database call returns, with a result or an
error (the code sets no timeout of its own around a statement): weak fairness of
each group of tasks. Of readers as a group, and writers as a group, only some
task has to go on. `ScanEnds` assumes that queries return, `RunEnds` that
the run loop and the jobs are polled, `EveryUpsertEnds` that each writer goes on
when it can (a free connection is enough: nobody keeps one for ever). Nothing assumes that somebody starts the
program again, cancels it, or that anything fails.

What the passing runs show. In one job no order of chunks, no failing task and
no moment of a cancellation or an abort makes the resume point pass a row that
is not in the target, an uncancelled Ok lose a row, or a task wait for ever. The
scan delivers each row once with NTILE partitions and parallel readers, and a
row inserted by somebody else never twice. Over several runs the stored state
never claims more than the target holds, except where the findings say so: the
configurations of `migration` leave out exactly these combinations (an integer
key with a date column; a signal with a partitioned table that is upserted) and
one more, a reload that is killed, or whose save of the state fails, between
upserts, after which the watermarks of emptied tables are still stored; its
properties say something of all the others. An upsert merges whole chunks
only, into the right table, and a writer's failure stays its own.
`FailuresContained` states one exception that the code allows: a merge into SQL
Server that gives up after its last deadlock leaves `IDENTITY_INSERT` ON, and
the next table with an identity column fails on that connection. And it,
`WholeChunksOnly` and `OkMeansMerged` leave out tables whose staging names
collide (partition 1 of `T` and an unpartitioned table `T_p1` on SQL Server and
MySQL): nothing in the code keeps them apart. The run contains such tables, to
show that third tables do not suffer.

A run that succeeds leaves the whole schema in the target, whatever earlier runs left
there, except for statements that failed by chance (they are warnings) and for
what `SchemaComplete` names:

| Lost, with a warning | Where |
|---|---|
| foreign keys from MySQL: the reader does not read their actions, so that they become NO ACTION, and a syntax error in SQL Server | `drivers/mysql/reader.rs:610` |
| RESTRICT: NO ACTION in PostgreSQL, refused by SQL Server, which gets the word as it was read | `drivers/postgres/writer.rs:1460`, `drivers/mssql/writer.rs:634` |
| composite foreign keys from PostgreSQL: the query joins both column lists and delivers each column several times | `drivers/postgres/reader.rs:662` |
| check constraints from SQL Server and MySQL: their definitions come without the word CHECK, and the writers do not add it | `drivers/*/reader.rs`, `create_check_constraint` |
| the third index of one name in PostgreSQL; a clustered index beside a primary key in SQL Server | `drivers/postgres/writer.rs:650`, `drivers/mssql/writer.rs:570` |
| a foreign key from a table that was logged before to one that a run with `use_unlogged_tables` created | `create_table_unlogged` |

A table created or made UNLOGGED stays so: nothing calls `set_table_logged`,
although `docs/DATA_ENGINEER_GUIDE.md:486` says "Tables are converted back to
LOGGED after successful migration". `RerunsPass` says what earlier runs can do to a
later one: only foreign keys stop it. They do stop a second `drop_recreate` into SQL
Server or MySQL, at the DROP TABLE of a referenced table, although the guide's
line 120 allows an existing target; an upsert into MySQL when it drops the index
that a foreign key needs; and one whose rows arrive before those they refer to.

In the terminal UI a migration at work can always be cancelled, at most one is
at work, and when all have ended a new one can start; a file the wizards wrote
loads; and for a user who waits for the screen the modes agree with what is on it (keys
typed ahead may be read under an older mode). The exceptions are part
of the properties: after the Error event of a failed health check the running
migration cannot be cancelled any more and a second one can be started beside
it (`lost`), progress that comes after an Error makes the idle program busy for
good (`reopened`), an answer of zero workers is rejected but kept; both
databases may be given the same name on the same server; the terminal UI's wizard
writes the answers without quotes (`tui/wizard.rs:335`), so that a password `@x` or a
user `a: b` gives a file that does not parse, and a `#` loses what it starts; and both
wizards write YAML under any path, while `Config::load` reads a path that ends in `.json` as JSON
(`config/mod.rs:29`). `init` quotes its texts and validates before it
writes: its files load unless their path ends in `.json`.

A command line finds the state it stored, as long as the file, the options and
the machine are the same; its jobs fit the pools; what is read ahead fits the
memory budget. The properties except what the code does not hold: the terminal
UI looks for its state under the hash of the untuned file and stores it under that
of the tuned one; a change of `target_mode` changes the tuned chunk size and with
it the hash, although `config/mod.rs:59` excludes the mode so that state survives
the switch (not listed among the findings; `ResumeFindsState` holds of it when
the chunk size is set in the file). The limit on jobs ignores
`max_mysql_connections`. `main.rs:206` says of the first tuning "Will be re-tuned
after schema extraction": every value is set by then and the second tuning
changes nothing, so that a command line is tuned for rows of 500 bytes; that is
why `BudgetKept` is about the row size the invocation was tuned for.

In a conversion, what the mapping does not mark as lossy arrives, into a column
that takes it, except in the cases that `MCConversion` names one by one:

| Exception | Where | What happens |
|---|---|---|
| `Changed`, `10000.00` | `pg_binary.rs:480` | panic (the finding below) |
| `Changed`, `1960.5`, `infinity` | `pg_binary.rs:361` | instants before 1970 with a fraction, and infinity, become 1970-01-01 |
| `Changed`, `NaN`, `wide` | `pg_binary.rs:420`, readers | NaN becomes 0; more than 28 digits is an error, a panic (SQL Server) or NULL (MySQL) |
| `Changed`, `cash` | `drivers/mssql/reader.rs` | money goes through a double |
| `Changed`, `3e9`, `18e18`, `200`, `0000`, `-01:00` | `drivers/mysql/reader.rs` | unsigned values out of range, zero dates and negative times panic |
| `Unread` | `pg_binary.rs`, `drivers/mssql/reader.rs` | types without a binary reader (arrays, bit, interval, inet, money, oid, point) are taken as text; datetimeoffset and hierarchyid panic, although `README.md:295` maps the former |
| `OtherForm` | `drivers/mssql/writer.rs:1198` | the TDS value sent is not of the column's type: date, datetime2, money and tinyint columns are refused |
| a rest of 10 ms in a datetime column, from SQL Server to SQL Server | `drivers/mssql/writer.rs:1263` | cut to milliseconds and then to 1/300 s: the fragment of .003 is read as 3.33 ms and written as none; the mapping is not marked (it is from the other databases) |
| a rest of a microsecond into PostgreSQL | `drivers/postgres/writer.rs:1233`, `1256` | the last digit of datetime2(7) and time(7), and the thirds of a datetime, are cut; unmarked, the comment quoted below is about these mappings |
| `nan`, `nul` | writers | NaN is NULL in SQL Server and MySQL; NUL characters are stripped for PostgreSQL |
| `bit`, `json`, `year`, `blob` from MySQL | mappers and writers | MySQL bit has length 0; json and year arrive as text, refused by jsonb and smallint; MySQL to MySQL uses the mapper of SQL Server |
| jsonb, numeric from PostgreSQL to MySQL | `pg_binary.rs`, `dialect/typemap.rs` | the version byte stays in the text; numeric without precision becomes DECIMAL(10,0) |
| fractions of a second into MySQL | `dialect/typemap.rs` | DATETIME and TIME drop them, unmarked, where `README.md:318` and the lines around it say DATETIME(6) and TIME(6) |
| VARCHAR above 16383 | `dialect/typemap.rs` | MySQL refuses the column |
| bytes under `mysql_load_data` | `drivers/mysql/writer.rs:455` | `\xNN` is not an escape of LOAD DATA |

`dialect/typemap.rs:21` says "All mappings are lossless (PostgreSQL can represent all MSSQL
types)", which the cut microseconds contradict. `ValuesSurvive` says that whatever the
units and types can express does arrive, on both sides of 1970 and 2000; it excepts a
value by the rest that its unit leaves (`HasRest`), not by its name. `MappersAgree` shows
that the catalog's mappers and those of the writers know the same types, with
the differences of `DifferentNames`; it is the catalog's that the AI layer wraps,
so that its answers do not reach the CREATE TABLE statements. That the bulk load
of SQL Server takes a value only in the form of its column is taken from the
comment at `drivers/mssql/writer.rs:1390`; what it does with xml and
smalldatetime, and with SQL Server's own text, image and spatial types, the
source does not say, and these are left out.

`docs/benchmarks.md` (section 6.6) reports runs that hung after errors of the
writers' pool; `EveryTaskEnds` and `EveryUpsertEnds` say that the code as it is
ends, provided the calls into the database return.

Findings, with the lines and the texts they contradict, are in `PROJECT.json`:

1. MySQL partitions share their boundary rows (`scan_mysql`).
2. Incremental upserts of a table with an integer key resume at the `last_pk`
   of the run before, because the status is overwritten before it is tested.
   Changed rows below it are not read, and the watermark moves past them
   (`migration_incremental`).
3. After a signal a partitioned table with one collected partition is stored as
   completed (`migration_cancel`).
4. `parse_numeric` panics on numbers whose trailing zero groups PostgreSQL does
   not send, 10000.00 in a `numeric(10,2)` for example (`conversion_numeric`).

## Proofs

Every theorem is about the specification a run checks, `Spec`, `SchemaSpec` or
`FlowSpec`, for all values of the constants that meet the modules' assumptions; two
are about `StreamSpec`, of which `FlowSpec` takes the steps. The
argument is the same everywhere: an inductive invariant, stronger than the
property, that TLC checked on the instances of the run first; a lemma per action
that it is kept; and the property as a consequence.

| Theorem | States | Inductive invariant |
|---|---|---|
| `TypeCorrect`, `ResumePointIsSafe` (`TransferPipelineProofs`) | `TypeOK`, `ResumePointSafe` | `TypeInv`, `SafeInv` |
| `OkIsComplete`, `PipelineKeepsPromise` | `OkMeansComplete`, the refinement `KeepsPromise` | `CompleteInv` beside them |
| `EachRowCounted` | `RowsCountedOnce` | `OnceInv` beside them |
| `ScanTypes`, `RowsNotTwice`, `RowsNotMissed` (`SourceScanProofs`) | `TypeOK`; `NoRowTwice` and `NoRowMissed` of the scans below | `TypeInv`, `OnceInv`, `LeftInv` |
| `FlowKeepsOrder` (`SourceScanProofs`, about `ColumnFlow`) | `RowsArriveInOrder` | `FlowInv` |
| `StreamTypeCorrect`, `CopyKeepsOrder` (`SourceScanProofs`, about `CopyStream`) | `StreamTypeOK`, `StreamInOrder` | `StreamInv` |
| `FinalizerTypes`, `LevelsInOrder`, `KeysBeforeReferences`, `TasksJoined` (`TargetSchemaProofs`) | `TypeOK`, `ReferencesFirst`, `KeysFirst`, `NothingLeftRunning` | `FinalizeInv` |
| `FinalizeCompletes`, `RunsGoThrough` | `SchemaComplete`, `RerunsPass` | `SchemaInv` |
| `UpsertTypes`, `ChunksArriveWhole`, `OkIsMerged`, `FailuresStayWithTheWriter` (`UpsertStagingProofs`) | `TypeOK`, `WholeChunksOnly`, `OkMeansMerged`, `FailuresContained` | `UpsertInv` |
| `LifeTypes`, `SuccessCoversAll` (`MigrationRunProofs`) | `TypeOK`, `SuccessIsComplete` | `LifeInv`, `SuccessInv` |
| `WatermarksOnlyGrow` | `WatermarkKept`, an action property | `TimeInv` |
| `WatermarksAreSound`, `CompletedIsCopied` | `WatermarkSound`, `CompletedMeansCopied`, of the configurations below | `SoundInv` |
| `StateIsFound`, `PermitsAlwaysFit`, `BudgetAlwaysKept` (`InvocationProofs`) | `ResumeFindsState`, `PermitsFit`, `BudgetKept` | `InvocationInv`, `HistoryInv` |
| `TypesHold`, `CtrlCReaches`, `NeverStuckBusy`, `SavedLoads`, `ScreenAgrees` (`TuiAppProofs`) | `TypeOK`, `CancelReaches`, `IdleWhenOver`, `SavedConfigLoads`, `ModesAgree` | `TuiInv` |

**The resume point.** `ResumePointSafe` only speaks of the moment `execute`
returns Ok and is far from inductive; `SafeInv` follows the chunks from a reader
to the target. While the dispatcher runs, every row of the first reader's range
up to its cursor is handed over, in the read channel, or in the dispatcher's hand,
in the order in which it was read, and a chunk of another reader starts above
the tracker's start, so that it cannot close a gap below which rows are missing
(`DispatchInv`); every row the tracker's contiguous ranges stand for was put in
the write channel (`TrackerInv`, which survives the dispatcher); every such row
is still there, in a writer's hands, or in the target, as long as no writer has
failed (`WriterInv`). `TypeInv` strengthens `TypeOK` with what its steps need: a
coordinator that still joins has a reader left to join, a sending reader has
rows in hand, and the tracker's map is finite. `RangeTrackerLemmas` has the
facts about the operators: a chunk skips nothing between the cursor and its last
key, where the readers' ranges start, and that what lies below `SafeEnd` is
covered.

**The promise.** That an Ok means everything needs the other half: nothing is
overlooked on the way in. The ranges of the readers leave no key out
(`SplitPkRange`, for any number of parts); what a reader's range has is still to
be read, in its hand, or ahead of its last place in the read channel
(`ReaderCovers`), and a chunk shorter than asked for is the last one; the
dispatcher leaves its loop undisturbed only when every reader is joined and the
channel drained (`LeftInv`). With both invariants every step of `execute` is a
step of `TransferPromise` or changes nothing it mentions.

**Counting rows.** `RowsCountedOnce` compares a sum over chunks with the number of
rows in a set, which are equal only if no row is in two chunks anywhere on the
way. `Yet(r, k)` says that a reader may still send a key: `ReadApart` that
no key is left to two readers, nor one that has been sent to any (the plan of the
readers is a division, `PlanTiles`); `QueueApart` and `WriteApart` that the chunks
of the read channel, of the dispatcher's hand, of the write channel and of the
writers share no key with each other or with what is written; and `Tally` that
the writers' own counts add up to the rows written. A job that is resumed by several
readers is left out, as in the property: only the first reader starts at the
resume point (`Counted`).

**The scan.** Every open task, which is the planner, a job that has not started, or
a reader, has keys left to it (`ToRead`): all of them, those between the job's
bounds, those of its range beyond its cursor. `OnceInv` says that no key is left
to two tasks and none that was delivered is left to any; `LeftInv` that a row which
stays has been delivered or is left to some task. The rest are facts about
divisions of keys: ranks number the rows without a gap (`RankNumbers`), the
groups of NTILE are in order, not empty, and leave no row out (`NtileTiles`), the
bounds of a MySQL table cover all keys (`MinMaxTiles`), and the readers' ranges
lie one behind the other within those of their job (`SplitOrdered`,
`ReadersTile` in `RangeTrackerLemmas`, which the pipeline's proofs use, too), also when the orchestrator's bounds are of rows that are gone by
then. `RowsNotTwice` holds of the scans in `Exact`: NTILE partitions, or one
job. The partitions of MySQL are outside, because they share their bounds
(finding 1), but no row is missed by them either: they are in `Steady`, for
`RowsNotMissed`. In both classes an OFFSET scan is of one job over a table that
nobody changes, and nothing is promised of the others.

**The COPY stream.** `StreamInv` counts bytes: what is consumed is the header, the rows
parsed and, once it has been seen, the trailer, so that the parser always stands at the
beginning of a row; a reader that waits for the network has nothing whole in its
buffer; and the batches sent, one behind the other, are the rows up to `parsed`
(with `FlattenAppend`). Where rows end is a prefix sum over the stream
(`RowsFollow`). When the stream is over everything has come, so that a row which
is not parsed would be whole (`NoRowIsLeft`), and the trailer is behind it
(`EndIsComplete`). `CopyKeepsOrder` is about every table of rows with any columns, cut
into packets of any sizes, and every size of the batches; the run has three rows of one
column. `FlowKeepsOrder` carries it over to the whole way of a column: what its reader
does is a step of the stream, and the mappers and the writers leave the stream alone
(`FlowSteps`).

**finalize.** `LevelInv` says that the levels to come have spawned no foreign key
and that those before have; the levels come from Kahn's algorithm, a recursive
function, so that `RemainingDef` first shows that the function exists, and that
`Remaining` only shrinks. `KeysInv` carries the primary keys through the phases,
`BatchInv` the tasks of the one at work. `ReferencesFirst` then follows from the
algorithm: a table of a level whose references are not all in earlier levels is
in a set of which every member refers to a member, and so on a cycle or
behind one.

**The schema.** `SchemaInv` says how far the target is at every point of a run:
a table that `prepare_target` has done is `Ready` for this run's mode whatever
was there (`Prepared`); whatever the target has, some run of the same source
created (`Contents`), which is what makes `IF NOT EXISTS` harmless; every statement
that was tried is in the target or is one that its drivers lose
(`AllSettled`, by batch, level and phase). `EveryTableHasLevel` closes the gap
between the levels and all tables. `RerunsPass` is part of the invariant: it names
the only statements a database may refuse.

**Upserts.** A writer's staging table is as its own statements left it
(`StagingOk`) because two writers never hold one connection (`SessionInv`) and
their staging tables have different names or places, which is exactly what
`Ambiguous` excludes. `IDENTITY_INSERT` that is ON belongs to a writer which
retries its merge on that connection or has given up (`IdentityInv`), and this is what
limits a failure to one writer.

**Runs.** `LifeInv` relates the run loop's variables: a table with jobs is in
progress, with one job or two partitions of which at most one has been
collected; a cancelled token says that a job of the table failed, so that an Ok
cut short by it cannot count; what the results so far make of each table; and that
without a signal no table is forgotten on the way from the spawn loop to the
end. `TimeInv` adds the clock: a table's watermark is not later than the start of
its transfer, and what a run has in memory is no older than what it would
overwrite, so that a watermark never turns back however a run ends. `SoundInv` is
about the rows: whatever the state in memory claims of a table, and whatever the
stored state claims, is true of the target; the filter a job reads with claims
nothing more; and every row that changed before the table's transfer began is in
the target, or still before one of its jobs, or one of them failed (`Covered`).

`WatermarksAreSound` and `CompletedIsCopied` hold of the configurations in
`CopyTrusted` (and, for the second, `CancelSafe`), definitions of
`MigrationRunProofs`:

- `Resumable`: not incremental, or only tables whose jobs report no resume point.
  Outside it lies finding 2.
- `Trusted`: only upserts; or no upserts; or the two together, if a drop of the
  tables cannot part from the save that records it (no crash, no failing
  preparation, no failing save, no runs that ignore the stored state). Outside
  it lie the reloads that leave the watermarks of emptied tables behind.
- `CancelSafe`: no signal reaches a partitioned table. Outside it lies
  finding 3.

All nine configurations of `migration` are in these classes, so that the theorems say
of every number of tables, rows, runs and faults what the run checks of two
tables and three runs; that nothing weaker than the classes would do is what
the findings show for the first and the last, and the paragraph on the passing
runs above for the second.

**Invocations.** Tuning fills in every number (`TunedIs`), so that tuning a
configuration without unset numbers changes nothing (`TunedAgain`). A command
line is tuned before it connects: from then on its pools, its hash and the limit on
its jobs are those of one configuration, `Loaded(line)`, a function of the
command line alone, and `HistoryInv` says that what a command line has stored is
under the hash of it. The mode of the file enters the chunk size and nothing
else (`ModeAside`). `BudgetAlwaysKept` is about the division in
`with_auto_tuning` (`AheadFits`), and holds for a chunk size set by hand, too.

**The terminal UI.** `TuiInv` has four parts beside the file. `TypeInv` carries
more than types: the configuration of a wizard has what the steps behind it made
sure of (`Named`), also after going back and changing an answer, so that the
last step writes a file with a name and a user for both databases. `ReachInv`: when
a migration can be started, those still at work are lost already, so that a new
token hides none. `BusyInv`: a program that is busy has a migration at work, or
news of one still in its progress channel or in the queue of events. `WaitInv` is
about a user who waits: a key is only ever the first event of the queue, and it is
handled under the mode it was read under. The properties keep the exceptions the
runs name (`lost`, `reopened`, and those of a file). `SavedConfigLoads` is inductive beside
`TypeInv`: a file changes only where a wizard writes it, from a configuration with every name
and user (`Named`), and what YAML makes of it without quotes loads unless the
property names it; what a session starts with loads, by assumption.

Assumptions, all of them stated with the constants and evaluated by TLC:

- `PipelineAssumption`, `NoneAssumption`: finite sets of integer keys and of
  writers, at least one writer, channels of capacity at least one (the
  configuration's validation), and `None` is not a key.
- `CopyStreamAssumption`: headers, counts and lengths take a natural number of bytes,
  a field count at least one; the streams are sequences of rows of field lengths;
  a packet has at least one byte and a batch at least one row (`batch_size`).
  `FlowAssumption`: the streams of the columns are among them.
- `FinalizerAssumption`, `TargetSchemaAssumption`: a finite, non-empty set of
  tables; the order in which `prepare_target` goes through them names each; a
  foreign key refers to a primary key or a unique index, as every database
  demands; SQL Server reads no RESTRICT, MySQL has no clustered indexes and index names of one schema
  differ in PostgreSQL; a later run may change the modes of the file.
- `StagingAssumption`, `JobAssumption`: the writers of one job are numbered, the
  jobs of a table are of different partitions, and each row is read once (which
  is `NoRowTwice` of the scan).
- `InvocationAssumption`: files and machines are records of natural numbers, the
  memory budget is 1 to 100 percent (the code clamps it), and no row is of size 0.
- `MigrationAssumption`: finite sets of tables and of positive keys; the
  configurations are records of `ConfType`; `None` is neither a number nor a row
  of the state.
- `TuiAssumption`: an event channel of capacity at least one, numbers of
  migrations, checks and words of a line, and a session whose files at the start, if there are
  any, load.

Data of any size without induction. The provers do not instantiate the library's
induction rules, whose parameter is an operator; what the proofs need of levels,
planned ranges and stored time stamps they get from a least counterexample:
`LeastNumber`, `LeastRun`, `LeastExists` and `GreatestExists` in the modules that need them (from the
well-foundedness of `<` on the naturals and of the strict subsets of a finite
set, which are facts about sets). The folds of the community modules, in
which counts and lengths are written, are recursive functions over the subsets of a finite
set: `SumsExist` shows that the sum exists, from a smallest subset without one
(`SmallestSubset`), and `SumGrows`, `SumOnSubset` and their neighbours in
`RangeTrackerLemmas` say how it changes; `JoinsExist` does the same for
`FlattenSeq`.

Model-checked only: `ValuesSurvive`, `NothingRefused` and `MappersAgree` of
`MCConversion`, which are about the concrete types and values that the run lists, all of
the former, and not about a parameter a theorem could generalise; and liveness
(`EveryTaskEnds`, `ScanEnds`, `RunEnds`, `FinalizeEnds`, `EveryUpsertEnds`), since
the prover handles neither `ENABLED` nor fairness. Every other property of a passing run is a
theorem. No module declares a RECURSIVE operator, so that all of
them can be proved about.

## What is not modelled

- Inside the modelled parts: progress reports, logging, row counts in the state
  (`rows_total`, `rows_transferred`), error texts, `run_status` (written,
  never read), dry runs, include and exclude filters, the AI warm-up and
  diagnosis. Jobs wait for a permit inside their task; as a job that has not
  started is a job that has not moved a row, the semaphore of the transfer is
  left out. Detached tasks of an aborted job are in `TransferPipeline` but not in
  `MigrationRun`, where an abort ends a job. An empty table with zero NTILE
  groups spawns no job and stays in progress; tables in `MigrationRun` have
  the two partitions they were given. Time is one clock for rows and runs: the
  precision of a user's column and a skew between database and program are not
  considered. Key arithmetic is not bounded to 64 bits.
- A plain upsert after a completed one transfers nothing, by design of the code:
  tables stored as completed are skipped.
- Key arithmetic near the ends of i64 (`max_pk - min_pk`, `transfer/mod.rs:720`),
  OFFSET pages of a table that changes (`transfer/mod.rs:1286`), and the
  precision of watermarks (`transfer/mod.rs:89`).
- Of the DDL: the columns of indexes and keys, included columns, partial and expression
  indexes, which indexes MySQL can spare because the primary key serves a foreign key,
  cascade paths that SQL Server refuses, the values of sequences, foreign keys
  to tables that are not migrated but exist in the target (taken as refused).
- Of the writers: the rows counted. A panic on a long staging name is in
  `TransferPipeline`, not in `UpsertStaging`.
- Of the dialects: the text of queries and the quoting of identifiers, which are
  string building without state.
- Of the configuration: parsing, encrypted secrets, include and exclude
  patterns, and the validation rules that the wizards cannot violate.
- Of the command line: exit codes, output formats, `validate`, `health`, `cleanup`.
  `--shutdown_timeout` is read and never enforced.
- Of the terminal UI: drawing, scrolling, the transcript, the diagnosis pane.
- AI: calls to the provider, cache files, the diagnosis. `ColumnFlow` has the one
  step of them that the migration waits for.
- Infinite dates of PostgreSQL, character sets and collations, and spatial
  reference systems, in conversions. Schema extraction is plain I/O.

## Plan

Done: KeysetPaging and RangeTracker, TransferPipeline with TransferPromise,
SourceScan, MigrationRun, Finalizer, TargetSchema, UpsertStaging, the terminal UI
and its wizards, Invocation, and the conversions with ColumnFlow; the theorems
about the transfer engine, the scan, invocations, finalize and the schema, upserts, the runs,
and the terminal UI; rows counted once, and the COPY stream for any cut.

What could still be modelled: exit codes; the cache of AI mappings. Nothing
is left of the plan for proofs but what the section above keeps model-checked.
