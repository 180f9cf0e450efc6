\* One table under concurrent changes: NTILE partitions, parallel readers, OFFSET paging.
CONSTANTS
  None = None
  Keys <- MCKeys
  Scans <- MCScans
SPECIFICATION FairSpec
INVARIANTS TypeOK NoRowTwice NoRowMissed
PROPERTY ScanEnds
