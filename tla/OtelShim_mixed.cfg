\* Trampoline and native functions on two threads, safety and refinement.
SPECIFICATION Spec
CONSTANTS
  t1 = t1
  t2 = t2
  NoThread = NoThread
  Threads <- MCThreads
  HandleSpace = 3
  MaxSpans = 3
  MaxDepth = 3
  NativeSpans = TRUE
SYMMETRY MCSymmetry
INVARIANTS
  TypeOK
  StackMirrorsCalls
  ContextMirrorsCalls
  FlagIsExact
  ErrorsAreAttributed
PROPERTY
  TracesCalls
\* An export that a native span started can wait for its own mutex: see the run
\* that refutes ExportReentryFailsOpen.
CHECK_DEADLOCK FALSE
