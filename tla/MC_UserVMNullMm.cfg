SPECIFICATION Spec
CONSTANTS
  t1 = t1
  t2 = t2
  NoTask = NoTask
  Tasks <- MCTasks
  NPages = 2
  MaxSpan = 2
INVARIANTS


  NoNullMmDeref
