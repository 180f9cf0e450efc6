----------------------------- MODULE MCInvocation -----------------------------
(* A file with nothing set, files with some of the numbers set, small and     *)
(* large machines, narrow and wide rows, few and many partitions.             *)
EXTENDS Invocation

File(source, target) ==
    [source |-> source, target |-> target, mode |-> "drop_recreate", percent |-> 70,
     workers |-> Unset, readers |-> Unset, writers |-> Unset, chunk |-> Unset, ahead |-> Unset,
     mssql |-> Unset, pg |-> Unset, mysql |-> Unset]

MCFiles ==
    {File("mssql", "postgres"), [File("postgres", "mssql") EXCEPT !.mssql = 10],
     File("mysql", "postgres"), [File("mssql", "mysql") EXCEPT !.chunk = 300, !.mysql = 5],
     [File("mssql", "postgres") EXCEPT !.ahead = 30, !.workers = 20, !.readers = 1],
     [File("mssql", "postgres") EXCEPT !.pg = 6, !.percent = 1, !.mode = "upsert"]}

MCMachines == {[gb |-> 1, cores |-> 2], [gb |-> 16, cores |-> 8], [gb |-> 64, cores |-> 64]}
=============================================================================
