CONSTANTS
  p1 = p1
  p2 = p2
  NoDesc = NoDesc
  Procs <- TwoProcs
  Descs <- MCDescs
  MaxEntries = 1
SPECIFICATION Spec
INVARIANT NoLeakAfterClose
