\* Two variables named anywhere in four constructs; the compilation ends.
CONSTANTS
  Kinds = {"function", "block", "let", "const", "of"}
  Rare = {"block", "const", "of"}
  MaxConstructs = 4
  MaxReferences = 2
SPECIFICATION Spec
CHECK_DEADLOCK FALSE
INVARIANTS AccessReachesVariable SlotsApart CapturedInEnvironment FreshInLoop
