\* Two calls on one compiler and the destructor, under fair scheduling: two
\* functions shared by main and two workers.
CONSTANTS
  Workers = {w1, w2}
  Main = main
  MaxFunctions = 2
  MaxLiterals = 1
  MaxCompiles = 2
SPECIFICATION FairSpec
INVARIANTS
  NoUseAfterFree
  CompiledOnce
  QuietBetweenCalls
  ProgramComplete
  LiteralOwned
PROPERTIES
  ImplementsBatch
  CompileReturns
  DestructorReturns
