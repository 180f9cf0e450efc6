\* Incremental upserts of a table whose jobs report a resume point.
CONSTANTS
  None = None
  t1 = t1
  t2 = t2
  AllTables = {t1, t2}
  Rows = {1, 2}
  Mid = 1
  Confs <- IncrementalConfs
SPECIFICATION Spec
INVARIANT WatermarkSound
