\* A loop in a labelled block or a switch, and a jump out of both.
CONSTANTS
  LoopKinds <- OneOfEachKind
  Labels = {"L"}
  MaxOpen = 2
  MaxTables = 1
  MaxCode = 1
SPECIFICATION Spec
INVARIANT BreaksPopInnerEnvs
\* A DiagnosticError ends the compilation.
CHECK_DEADLOCK FALSE
