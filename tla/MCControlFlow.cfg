\* Every program of up to three nested statements.
CONSTANTS
  LoopKinds <- OneOfEachKind
  Labels = {"L"}
  MaxOpen = 3
  MaxTables = 3
  MaxCode = 2
SPECIFICATION Spec
INVARIANTS
  CatchRangesExact
  JumpsToItsTarget
  FinalizesWhatItLeaves
  JumpsAligned
  ThrowsAligned
\* A DiagnosticError ends the compilation.
CHECK_DEADLOCK FALSE
