--------------------------- MODULE MCMigrationRun ---------------------------
(* Tables of two rows, one of which may be inserted later.  Each           *)
(* configuration brings together the kinds of table, the target modes and  *)
(* the faults that interact: what a killed or failed run leaves behind     *)
(* shows in the run after it, a wrong watermark in the run after that.     *)
EXTENDS MigrationRun, TLC

CONSTANTS t1, t2

Conf(tables, faults) ==
  [tables |-> tables, kind |-> t1 :> "other" @@ t2 :> "large",
   modes |-> {"upsert"}, dates |-> TRUE, dated |-> {t1, t2}, parallel |-> TRUE, atomic |-> FALSE,
   fresh |-> FALSE, faults |-> faults, rows |-> {1}, runs |-> 3, until |-> 3]

IntKey(c) == [c EXCEPT !.kind[t1] = "int"]

MCConfs == {
  Conf({t2}, {"crash", "job", "state"}), Conf({t1}, {"cancel", "job", "state", "finalize"}),
  [Conf({t1}, {"crash", "job"}) EXCEPT !.fresh = TRUE],
  [IntKey(Conf({t1}, {"crash", "cancel", "job", "state"})) EXCEPT !.dates = FALSE],
  [Conf({t1}, {"cancel", "job", "finalize"}) EXCEPT !.modes = {"drop_recreate", "upsert"}],
  [IntKey(Conf({t1}, {"crash", "cancel", "job", "prepare"})) EXCEPT !.modes = {"drop_recreate"}],
  [Conf({t2}, {"crash", "job", "boundaries"}) EXCEPT !.modes = {"drop_recreate"}],
  [Conf({t1, t2}, {"state"}) EXCEPT !.runs = 2, !.until = 2],
  [Conf({t1, t2}, {"job"}) EXCEPT !.dates = FALSE, !.atomic = TRUE, !.runs = 2, !.until = 1,
     !.rows = {1, 2}]
}

(* Incremental upserts of a table with an integer key; nothing goes wrong. *)
IncrementalConfs == {IntKey(Conf({t1}, {}))}

(* A signal during the upsert of a partitioned table and another one.      *)
CancelConfs == {[Conf({t1, t2}, {"cancel"}) EXCEPT !.dates = FALSE, !.rows = {1, 2}]}
=============================================================================
