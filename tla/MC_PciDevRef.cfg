SPECIFICATION Spec
CONSTANTS
  DoAndroid = TRUE
  HostBridge = TRUE
  MaxDevRefs = 30
INVARIANTS

  NoPciDevRefLeak
