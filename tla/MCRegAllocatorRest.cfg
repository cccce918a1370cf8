\* All registers fit their instructions; a rest property goes to a property of an object.
CONSTANTS
  Caches = {"lexEnv", "null", "undefined"}
  Hidden = 0
  MaxParams = 1
  MaxLocals = 1
  MaxTemps = 7
  MaxOpen = 1
  MaxInsns = 13
  MaxPlain = 0
  MaxSuperArgs = 2
  Constructs = {"new", "pattern"}
  RestTargets = {"member"}
  LevelB = 20
  LevelC = 30
  RangeLevel = 20
  KeysLevel = 20
SPECIFICATION Spec
INVARIANTS
  ArgumentsContinuous
\* The generation stops at the bounds.
CHECK_DEADLOCK FALSE
