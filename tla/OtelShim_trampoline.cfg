\* Trampoline functions only: re-entry from exports and progress.
SPECIFICATION FairSpec
CONSTANTS
  t1 = t1
  t2 = t2
  NoThread = NoThread
  Threads <- MCThreads
  HandleSpace = 3
  MaxSpans = 2
  MaxDepth = 3
  NativeSpans = FALSE
INVARIANT
  ExportReentryFailsOpen
PROPERTY
  ShimCallsReturn
