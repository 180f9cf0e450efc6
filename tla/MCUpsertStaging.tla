--------------------------- MODULE MCUpsertStaging ---------------------------
(* Instances of UpsertStaging: two writers of one partition and one of     *)
(* another table; two tables whose writers get the same staging name; and   *)
(* staging tables left by a run that was killed.                           *)
EXTENDS UpsertStaging

Job(t, p, w, c) == [table |-> t, partition_id |-> p, writer_id |-> w, chunks |-> c]

TwoTables ==
  [w1 |-> Job(<<"Orders">>, "p1", "0", << {1, 2}, {3} >>),
   w2 |-> Job(<<"Orders">>, "p1", "1", << {4} >>),
   w3 |-> Job(<<"Users">>, None, "0", << {6} >>)]

SameName ==
  [w1 |-> Job(<<"Orders">>, "p1", "0", << {1, 2} >>),
   w2 |-> Job(<<"Orders", "p1">>, None, "0", << {4} >>),
   w3 |-> Job(<<"Users">>, None, "0", << {6} >>)]

AllWriters == {"w1", "w2", "w3"}

AllScenarios ==
  [kind : {"postgres", "mysql", "mssql"}, job : {TwoTables, SameName},
   identity : {{<<"Orders">>, <<"Users">>}}, leftover : {{}}]
  \cup [kind : {"mysql", "mssql"}, job : {TwoTables},
        identity : {{<<"Orders">>, <<"Users">>}}, leftover : {{0}}]
=============================================================================
