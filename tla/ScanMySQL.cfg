\* A table partitioned by the MySQL reader; nobody changes it.
CONSTANTS
  None = None
  Keys <- MCKeys
  Scans <- MinMaxScans
SPECIFICATION Spec
INVARIANT NoRowTwice
