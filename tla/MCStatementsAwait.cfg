\* Loops over asynchronous iterators; functions end.
CONSTANTS
  Labels = {"L"}
  Forms = {"forawait", "while"}
  DeepForms = {}
  Programs <- AllPrograms
  MaxDrift = 2
SPECIFICATION Spec
CHECK_DEADLOCK FALSE
INVARIANT CompletionKept
