\* Calls of every kind, polled on either of two threads.
SPECIFICATION Spec
CONSTANTS
  f1 = f1
  f2 = f2
  f3 = f3
  t1 = t1
  t2 = t2
  Futures <- MCFutures
  Threads <- MCThreads
  MaxDepth = 3
  NoFuture = NoFuture
  NoSpan = NoSpan
  NotWrapped = NotWrapped
SYMMETRY MCSymmetry
INVARIANTS
  TypeOK
  ParentIsInvoker
  ContextsAreOfPolls
  LifecycleIsExact
  SpansEndWithFutures
  AwaitedEndFirst
CHECK_DEADLOCK FALSE
