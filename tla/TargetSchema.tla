---------------------------- MODULE TargetSchema ----------------------------
(***************************************************************************)
(* What the runs of the program make of the target's schema: each prepares *)
(* the tables one by one (prepare_target), transfers them, and creates     *)
(* what is missing (finalize), all through the DDL of a driver.  A run     *)
(* finds what the runs before it left, in either mode, finished or not;    *)
(* what a database refuses depends on it.                                  *)
(***************************************************************************)
EXTENDS Finalizer

(* Beside what Finalizer needs, a schema has:                              *)
(*   source, target     the databases                                      *)
(*   order              the tables as the reader lists them                *)
(*   names              of each table's index; unique in PostgreSQL        *)
(*   clustered          tables whose index is clustered                    *)
(*   byIndex            tables that are referenced by a unique index, the  *)
(*                      others by their primary key                        *)
(*   action, composite  of every foreign key                               *)
(*   unlogged           use_unlogged_tables                                *)
(*   modes              the pairs of recreate and unlogged runs may have   *)
(*   bare               tables somebody made before, without keys          *)
(*   runs, stops        bound on the runs; a run may be stopped            *)
ASSUME TargetSchemaAssumption ==
  \A c \in Confs :
    /\ {"source", "target", "action", "keyed", "indexed", "names"} \subseteq DOMAIN c
    /\ {c.source, c.target} \subseteq {"mssql", "postgres", "mysql"}
    /\ c.order \in Seq(Tables) /\ Len(c.order) = Cardinality(Tables)
    /\ {c.order[i] : i \in DOMAIN c.order} = Tables
    /\ c.byIndex \subseteq c.indexed
    /\ \A t \in Tables : c.fks[t] \cap Tables \subseteq c.keyed \cup c.byIndex
    /\ c.action \in {"NO_ACTION", "CASCADE", "RESTRICT"}
    /\ c.source = "mssql" => c.action # "RESTRICT"
    /\ c.source = "mysql" => c.clustered = {}
    /\ c.source = "postgres" => \A s, t \in c.indexed : c.names[s] = c.names[t] => s = t
    /\ c.runs \in Nat
    /\ \A m \in c.modes : [c EXCEPT !.recreate = m[1], !.unlogged = m[2]] \in Confs

VARIABLES
  stage,     \* "idle", "prepare", "transfer", "finalize", "done" or "failed"
  queue,     \* the tables prepare_target has yet to come to
  step,      \* of its first table: "table", "indexes" or "logging"
  copied,    \* tables this run has transferred
  schema,    \* what the target has of each table
  refusal,   \* << >>, or the statement the database refused, and its table
  troubled,  \* history: a statement of this run failed for a reason of its own
  runs       \* runs to come

schemaVars == <<stage, queue, step, copied, schema, refusal, troubled, runs>>
allVars == <<vars, schemaVars>>
-----------------------------------------------------------------------------
(* What a table has: the name of its index, if any; a pair of the table    *)
(* referenced and the action for each foreign key.                         *)
Absent ==
  [there |-> FALSE, keyed |-> FALSE, logged |-> TRUE, index |-> << >>, fks |-> {}, checked |-> FALSE]

References(t) == {f[1] : f \in schema[t].fks}

SchemaInit ==
  /\ Init
  /\ stage = "idle" /\ queue = << >> /\ step = "table" /\ copied = {}
  /\ schema = [t \in Tables |-> [Absent EXCEPT !.there = t \in conf.bare]]
  /\ refusal = << >> /\ troubled = FALSE /\ runs = conf.runs

(* A run with the file as it is, or after modes were changed in it.        *)
Start ==
  /\ stage \in {"idle", "done", "failed"} /\ runs > 0
  /\ \E m \in conf.modes : conf' = [conf EXCEPT !.recreate = m[1], !.unlogged = m[2]]
  /\ stage' = "prepare" /\ queue' = conf.order /\ step' = "table" /\ copied' = {}
  /\ refusal' = << >> /\ troubled' = FALSE /\ runs' = runs - 1
  /\ phase' = "idle" /\ level' = 1 /\ todo' = {} /\ running' = {} /\ left' = NothingLeft
  /\ failed' = {} /\ spawned' = NotSpawned
  /\ UNCHANGED schema

(* The statement's error ends the run.                                     *)
Refuse(statement, t) ==
  /\ stage' = "failed" /\ refusal' = <<statement, t>>
  /\ UNCHANGED <<vars, queue, step, copied, troubled, runs>>
-----------------------------------------------------------------------------
(* prepare_target                                                          *)

At(t, s) == stage = "prepare" /\ t = Head(queue) /\ step = s

NextTable ==
  /\ queue' = Tail(queue) /\ step' = "table"
  /\ stage' = IF Tail(queue) = << >> THEN "transfer" ELSE "prepare"

(* A variant: DROP TABLE without CASCADE.                                  *)
ReferencedByAnother(t) == \E s \in Tables \ {t} : t \in References(s)

(* PostgreSQL's DROP TABLE cascades to the foreign keys on the table.      *)
DropRefused(t) == conf.target # "postgres" /\ \E s \in Tables \ {t} : t \in References(s)

DropTable(t) ==
  /\ At(t, "table") /\ conf.recreate /\ schema[t].there
  /\ IF DropRefused(t)
     THEN Refuse("DROP TABLE", t) /\ UNCHANGED schema
     ELSE /\ schema' = [s \in Tables |-> IF s = t THEN Absent
                          ELSE [schema[s] EXCEPT !.fks = {f \in @ : f[1] # t}]]
          /\ UNCHANGED <<vars, stage, queue, step, copied, refusal, troubled, runs>>

(* Every driver declares the primary key with the table.                   *)
CreateTable(t) ==
  /\ At(t, "table") /\ ~schema[t].there /\ (conf.recreate \/ t \in conf.keyed)
  /\ schema' = [schema EXCEPT ![t] =
       [Absent EXCEPT !.there = TRUE, !.keyed = t \in conf.keyed,
                      !.logged = ~(conf.unlogged /\ conf.target = "postgres")]]
  /\ NextTable
  /\ UNCHANGED <<vars, copied, refusal, troubled, runs>>

(* MigrateError::NoPrimaryKey.                                             *)
NoPrimaryKey(t) ==
  /\ At(t, "table") /\ ~conf.recreate /\ t \notin conf.keyed
  /\ Refuse("PRIMARY KEY", t)
  /\ UNCHANGED schema

(* has_primary_key, and create_primary_key if it has none.                 *)
EnsureKey(t) ==
  /\ At(t, "table") /\ ~conf.recreate /\ schema[t].there /\ t \in conf.keyed
  /\ schema' = [schema EXCEPT ![t].keyed = TRUE]
  /\ step' = "indexes"
  /\ UNCHANGED <<vars, stage, queue, copied, refusal, troubled, runs>>

(* An index that a foreign key stands on cannot be dropped: a unique index *)
(* that is referenced; MySQL has one for each foreign key of the table.    *)
IndexReferenced(t) == t \in conf.byIndex /\ \E s \in Tables : t \in References(s)
IndexNeeded(t) == IndexReferenced(t) \/ (conf.target = "mysql" /\ schema[t].fks # {})

(* drop_non_pk_indexes goes on until an index cannot be dropped.           *)
DropIndexes(t) ==
  /\ At(t, "indexes")
  /\ LET dropped == [schema EXCEPT ![t].index = << >>]
     IN  IF IndexNeeded(t)
         THEN /\ schema' \in {schema} \cup (IF IndexReferenced(t) THEN {} ELSE {dropped})
              /\ Refuse("DROP INDEX", t)
         ELSE /\ schema' = dropped
              /\ IF conf.unlogged THEN step' = "logging" /\ UNCHANGED <<stage, queue>> ELSE NextTable
              /\ UNCHANGED <<vars, copied, refusal, troubled, runs>>

(* set_table_unlogged: what logged tables refer to must be logged.         *)
SetUnlogged(t) ==
  /\ At(t, "logging")
  /\ IF /\ conf.target = "postgres" /\ schema[t].logged
        /\ \E s \in Tables \ {t} : schema[s].logged /\ t \in References(s)
     THEN Refuse("SET UNLOGGED", t) /\ UNCHANGED schema
     ELSE /\ schema' = [schema EXCEPT ![t].logged = @ /\ conf.target # "postgres"]
          /\ NextTable
          /\ UNCHANGED <<vars, copied, refusal, troubled, runs>>

Prepare(t) ==
  \/ DropTable(t) \/ CreateTable(t) \/ NoPrimaryKey(t)
  \/ EnsureKey(t) \/ DropIndexes(t) \/ SetUnlogged(t)
-----------------------------------------------------------------------------
(* transfer_data: the tables in any order.  A row may refer to one that is *)
(* not there yet.                                                          *)
Transfer(t) ==
  /\ stage = "transfer" /\ t \notin copied
  /\ \/ /\ copied' = copied \cup {t}
        /\ UNCHANGED <<vars, stage, queue, step, schema, refusal, troubled, runs>>
     \/ /\ References(t) \ copied # {}
        /\ Refuse("INSERT", t)
        /\ UNCHANGED schema

BeginFinalize ==
  /\ stage = "transfer" /\ copied = Tables
  /\ Begin
  /\ stage' = "finalize"
  /\ UNCHANGED <<queue, step, copied, schema, refusal, troubled, runs>>
-----------------------------------------------------------------------------
(* The DDL of finalize                                                     *)

NameTaken(name) == \E s \in Tables : schema[s].index = name

(* create_index: in PostgreSQL, where a name is unique in its schema,      *)
(* a name that is taken is tried once more with a prefix.                  *)
IndexName(t) ==
  IF conf.target = "postgres" /\ NameTaken(<<conf.names[t]>>)
  THEN <<"ix_", conf.names[t]>> ELSE <<conf.names[t]>>

(* The primary keys of SQL Server are clustered, and a table has one such  *)
(* index.                                                                  *)
IndexAccepted(t) ==
  /\ conf.target = "postgres" => ~NameTaken(IndexName(t))
  /\ conf.target = "mssql" /\ t \in conf.clustered => ~schema[t].keyed

(* The reader of MySQL does not ask for the actions of a foreign key.      *)
ActionRead == IF conf.source = "mysql" THEN "" ELSE conf.action

(* map_referential_action; the writer for SQL Server puts what was read.   *)
ActionWritten ==
  LET mapped == {"CASCADE", "NO_ACTION"} \cup (IF conf.target = "mysql" THEN {"RESTRICT"} ELSE {})
  IN  IF conf.target = "mssql" \/ ActionRead \in mapped THEN ActionRead ELSE "NO_ACTION"

(* The reader of PostgreSQL lists every column of a composite key as often *)
(* as the key has columns.                                                 *)
ForeignKeyAccepted(t, r) ==
  /\ r \in Tables /\ r \notin References(t)
  /\ IF r \in conf.byIndex THEN schema[r].index # << >> ELSE schema[r].keyed
  /\ schema[t].logged => schema[r].logged
  /\ conf.target = "mssql" => ActionWritten \notin {"", "RESTRICT"}
  /\ ~(conf.source = "postgres" /\ conf.composite)

(* Only the reader of PostgreSQL delivers a definition with its CHECK.     *)
CheckAccepted(t) == conf.source = "postgres" /\ ~schema[t].checked

Accepted(t, item) ==
  CASE phase = "index" -> IndexAccepted(t)
    [] phase = "fk"    -> ForeignKeyAccepted(t, item)
    [] phase = "check" -> CheckAccepted(t)
    [] OTHER           -> TRUE

(* create_primary_key finds the key of the CREATE TABLE.                   *)
Created(t, item) ==
  CASE phase = "pk"    -> [schema EXCEPT ![t].keyed = TRUE]
    [] phase = "index" -> [schema EXCEPT ![t].index = IndexName(t)]
    [] phase = "fk"    -> [schema EXCEPT ![t].fks = @ \cup {<<item, ActionWritten>>}]
    [] phase = "check" -> [schema EXCEPT ![t].checked = TRUE]
    [] OTHER           -> schema

Execute(t) ==
  /\ \E item \in left[t] :
       IF Accepted(t, item)
       THEN Create(t, item, TRUE) /\ schema' = Created(t, item)
       ELSE Create(t, item, FALSE) /\ UNCHANGED schema
  /\ UNCHANGED <<stage, queue, step, copied, refusal, troubled, runs>>

(* A statement fails for a reason of its own, or its task panics.          *)
Trouble(t) ==
  /\ conf.panics
  /\ TaskPanics(t) \/ \E item \in left[t] : Create(t, item, FALSE)
  /\ troubled' = TRUE
  /\ UNCHANGED <<stage, queue, step, copied, schema, refusal, runs>>

Finalizing(t) ==
  \/ Execute(t)
  \/ Trouble(t)
  \/ TaskEnds(t) /\ UNCHANGED schemaVars

JoinTasks ==
  /\ Join
  /\ stage' = CASE phase' = "ok" -> "done" [] phase' = "err" -> "failed" [] OTHER -> stage
  /\ UNCHANGED <<queue, step, copied, schema, refusal, troubled, runs>>
-----------------------------------------------------------------------------
(* A run is killed, or fails for a reason of its own: the source, the      *)
(* network, the state.                                                     *)
Stop ==
  /\ conf.stops /\ stage \in {"prepare", "transfer", "finalize"}
  /\ stage' = "failed"
  /\ phase' = "idle" /\ level' = 1 /\ todo' = {} /\ running' = {} /\ left' = NothingLeft
  /\ failed' = {} /\ spawned' = NotSpawned
  /\ UNCHANGED <<conf, queue, step, copied, schema, refusal, troubled, runs>>

Over == stage \in {"idle", "done", "failed"} /\ runs = 0 /\ UNCHANGED allVars

SchemaNext ==
  \/ Start \/ Stop \/ Over
  \/ \E t \in Tables : Prepare(t) \/ Transfer(t)
  \/ BeginFinalize
  \/ \E t \in Tables : (Spawn(t) /\ UNCHANGED schemaVars) \/ Finalizing(t)
  \/ JoinTasks

SchemaSpec == SchemaInit /\ [][SchemaNext]_allVars

(* As for Finalizer: statements return, and tokio polls finalize and tasks.*)
FairSchemaSpec ==
  /\ SchemaSpec
  /\ WF_allVars((\E t \in Tables : Spawn(t) /\ UNCHANGED schemaVars) \/ JoinTasks)
  /\ WF_allVars(\E t \in Tables : Finalizing(t))
-----------------------------------------------------------------------------
(* Indexes that finalize cannot create: a second clustered one, and the    *)
(* third of one name in PostgreSQL.                                        *)
Lost(t) ==
  \/ conf.target = "mssql" /\ t \in conf.clustered \cap conf.keyed
  \/ /\ conf.target = "postgres"
     /\ Cardinality({s \in conf.indexed : conf.names[s] = conf.names[t]}) > 2

(* When a run has succeeded and none of its statements failed by chance,   *)
(* every primary key, index and check constraint and every foreign key     *)
(* with its action is in the target, whatever the runs before it left      *)
(* there.  Lost are, with a warning: foreign keys from MySQL, which have   *)
(* no actions; RESTRICT where the target has another word for it;          *)
(* composite foreign keys, and those from logged to unlogged tables or     *)
(* to an index that is not there; check constraints but from PostgreSQL,   *)
(* whose expressions are taken to be ones that every database knows.       *)
SchemaComplete ==
  stage = "done" /\ ~troubled =>
    \A t \in Tables :
      /\ t \in conf.keyed => schema[t].keyed
      /\ t \in conf.indexed /\ ~Lost(t) => schema[t].index # << >>
      /\ \A r \in conf.fks[t] \cap Tables :
           \/ conf.source = "mysql" \/ (conf.action = "RESTRICT" /\ conf.target # "mysql")
           \/ conf.source = "postgres" /\ conf.composite
           \/ schema[t].logged /\ ~schema[r].logged
           \/ r \in conf.byIndex /\ Lost(r)
           \/ <<r, conf.action>> \in schema[t].fks
      /\ t \in conf.checked /\ conf.source = "postgres" => schema[t].checked

(* What runs before it made never stops a run whose tables have keys,      *)
(* unless foreign keys are among it.  These stop a reload of SQL Server or *)
(* MySQL at a DROP TABLE, and nowhere else; an upsert when a row comes     *)
(* before the one it refers to, and at its preparation only in MySQL, or   *)
(* if a unique index is referenced, or logging is to be switched off.      *)
RerunsPass ==
  refusal # << >> /\ conf.keyed = Tables =>
    /\ \E t \in Tables : schema[t].fks # {}
    /\ conf.recreate => conf.target # "postgres" /\ refusal[1] = "DROP TABLE"
    /\ ~conf.recreate =>
         \/ refusal[1] = "INSERT"
         \/ conf.target = "mysql"
         \/ conf.byIndex # {}
         \/ conf.unlogged /\ refusal[1] = "SET UNLOGGED"
=============================================================================
