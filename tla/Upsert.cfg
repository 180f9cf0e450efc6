CONSTANTS
  Writers <- AllWriters
  Scenarios <- AllScenarios
  Sessions = {"s1", "s2"}
  MaxRetries = 1
  MaxFaults = 1
  None = None
SPECIFICATION FairSpec
INVARIANTS TypeOK WholeChunksOnly OkMeansMerged FailuresContained
PROPERTY EveryUpsertEnds
