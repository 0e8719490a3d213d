CONSTANTS
  p1 = p1
  p2 = p2
  NoDesc = NoDesc
  Procs <- OneProc
  Descs <- MCDescs
  MaxEntries = 1
SPECIFICATION Spec
INVARIANT NoUnmappedRead
