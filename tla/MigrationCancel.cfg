\* A signal while a partitioned table is transferred.
CONSTANTS
  None = None
  t1 = t1
  t2 = t2
  AllTables = {t1, t2}
  Rows = {1, 2}
  Mid = 1
  Confs <- CancelConfs
SPECIFICATION Spec
INVARIANT CompletedMeansCopied
