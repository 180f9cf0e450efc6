\* Upserts and reloads through failures, crashes and cancellations.
CONSTANTS
  None = None
  t1 = t1
  t2 = t2
  AllTables = {t1, t2}
  Rows = {1, 2}
  Mid = 1
  Confs <- MCConfs
SPECIFICATION FairSpec
INVARIANTS TypeOK WatermarkSound CompletedMeansCopied SuccessIsComplete
PROPERTIES WatermarkKept RunEnds
