\* Every order of taking and giving back registers, in functions with more
\* registers than their formats can name: 8 bits name four, 16 bits twelve.
CONSTANTS
  Caches = {"lexEnv", "null", "undefined"}
  Hidden = 1
  MaxParams = 3
  MaxLocals = 3
  MaxTemps = 6
  MaxOpen = 2
  MaxInsns = 7
  MaxPlain = 0
  MaxSuperArgs = 2
  Constructs = {"constant", "variable", "declare", "binary", "call", "method", "new", "super", "compound", "pattern"}
  RestTargets = {"binding"}
  LevelB = 4
  LevelC = 12
  RangeLevel = 4
  KeysLevel = 4
SPECIFICATION Spec
INVARIANTS
  ArgumentsContinuous
  EveryRegisterNumbered
  EmittedFits
  TmpVregFound
  FunctionUnchanged
\* The generation stops at the bounds.
CHECK_DEADLOCK FALSE
