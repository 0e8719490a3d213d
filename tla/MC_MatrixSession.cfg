CONSTANTS
  p1 = p1
  p2 = p2
  NoDesc = NoDesc
  Procs <- OneProc
  Descs <- MCDescsAll
  MaxEntries = 1
SPECIFICATION Spec
INVARIANT SessionConsistent
INVARIANT NoLeakAfterClose
PROPERTY FailureReleasesAll
