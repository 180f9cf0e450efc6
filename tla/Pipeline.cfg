\* One job of each kind: single and parallel keyset readers, COPY, OFFSET, partitions, resumed jobs.
CONSTANTS
  None = None
  Keys <- MCKeys
  Jobs <- MCJobs
  Writers = {w1, w2}
  ReadAhead = 1
SPECIFICATION FairSpec
INVARIANTS TypeOK ResumePointSafe OkMeansComplete RowsCountedOnce
PROPERTIES KeepsPromise EveryTaskEnds
