CONSTANTS
  Tables <- MCTables
  LongBytes = 8
  MsrBytes = 8
  OverReadSizes = {0, 1}
SPECIFICATION Spec
INVARIANT SamplingIsolation
