\* Three tables with any references between them, prepared, transferred and
\* finalized by one or several runs.
CONSTANTS
  t1 = t1
  t2 = t2
  t3 = t3
  Outside = Outside
  Tables <- MCTables
  Confs <- MCConfs
SPECIFICATION FairSchemaSpec
INVARIANTS TypeOK ReferencesFirst KeysFirst SchemaComplete RerunsPass NothingLeftRunning
PROPERTY FinalizeEnds
