\* The same claim about exports once application functions are instrumented too.
SPECIFICATION Spec
CONSTANTS
  t1 = t1
  t2 = t2
  NoThread = NoThread
  Threads <- MCThreads
  HandleSpace = 3
  MaxSpans = 3
  MaxDepth = 3
  NativeSpans = TRUE
INVARIANT
  ExportReentryFailsOpen
CHECK_DEADLOCK FALSE
