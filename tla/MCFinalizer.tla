----------------------------- MODULE MCFinalizer -----------------------------
(* Every graph of references between three tables, cycles included, one of *)
(* which may also refer to itself; schemas with everything in them,        *)
(* finalized with few permits while statements fail; and runs in changing  *)
(* modes over schemas with constraints that drivers treat differently.     *)
EXTENDS TargetSchema, TLC

CONSTANTS t1, t2, t3

MCTables == {t1, t2, t3}
NoReferences == [t \in MCTables |-> {}]
Chain == t1 :> {} @@ t2 :> {t1} @@ t3 :> {t2, Outside}
Cycle == t1 :> {t2} @@ t2 :> {t1} @@ t3 :> {t1, t3}

Plain(fks) ==
  [source |-> "mssql", target |-> "postgres", order |-> <<t1, t2, t3>>,
   recreate |-> FALSE, unlogged |-> FALSE, modes |-> {<<FALSE, FALSE>>}, keyed |-> MCTables, indexed |-> {}, checked |-> {},
   fks |-> fks, names |-> t1 :> "n" @@ t2 :> "n" @@ t3 :> "m", clustered |-> {}, byIndex |-> {},
   action |-> "CASCADE", composite |-> FALSE, bare |-> {},
   permits |-> 2, panics |-> FALSE, stops |-> FALSE, runs |-> 1]

Full(fks, permits) ==
  [Plain(fks) EXCEPT !.source = "postgres", !.recreate = TRUE, !.modes = {<<TRUE, FALSE>>},
                     !.keyed = {t1} \cup (UNION {fks[t] : t \in MCTables} \ {Outside}),
                     !.indexed = {t2, t3}, !.checked = {t1}, !.permits = permits, !.panics = TRUE]

(* Three runs, one task at a time, any of which may stop.                  *)
Rerun(source, target, fks) ==
  [Plain(fks) EXCEPT !.source = source, !.target = target, !.modes = BOOLEAN \X {FALSE},
                     !.indexed = {t1, t2}, !.checked = {t1}, !.permits = 1,
                     !.names[t2] = IF source = "postgres" THEN "l" ELSE "n",
                     !.stops = TRUE, !.runs = 3]

Databases == {"mssql", "postgres", "mysql"}
RerunSchemas ==
  UNION {LET c == Rerun(s, t, Chain)
         IN  {c, [c EXCEPT !.byIndex = {t1}, !.bare = {t2}],
              [c EXCEPT !.action = IF s = "mssql" THEN "NO_ACTION" ELSE "RESTRICT",
                        !.clustered = IF s = "mysql" THEN {} ELSE {t1}]} : s, t \in Databases}
  \cup {[Rerun("postgres", t, Chain) EXCEPT !.composite = TRUE] : t \in Databases}
  \cup {[Rerun("mssql", t, NoReferences) EXCEPT !.indexed = MCTables, !.keyed = {t1, t2},
            !.names = [x \in MCTables |-> "n"], !.bare = {t1}] : t \in Databases}
  \cup {[Rerun("mssql", "postgres", Cycle) EXCEPT !.unlogged = u, !.modes = BOOLEAN \X BOOLEAN]
            : u \in BOOLEAN}

Graphs == {fks \in [MCTables -> SUBSET MCTables] : t2 \notin fks[t2] /\ t3 \notin fks[t3]}

PlainConfs == {Plain(fks) : fks \in Graphs}
FullConfs  == {Full(fks, n) : fks \in {Chain, Cycle}, n \in {0, 2, 3}}
RerunConfs == {[c EXCEPT !.recreate = r] : c \in RerunSchemas, r \in BOOLEAN}

MCConfs == PlainConfs \cup FullConfs \cup RerunConfs
=============================================================================
