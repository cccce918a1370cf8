\* Everything nested up to MaxDepth, the program included.
SPECIFICATION Spec
CONSTANTS
  a = a
  b = b
  NoLabel = NoLabel
  Labels <- MCLabels
  Kinds <- MCKinds
  MaxDepth = 4
SYMMETRY LabelSymmetry
INVARIANTS
  JumpsHaveTargets
  LegalJumpsAccepted
  TokenReadInItsContext
  AwaitFollowsFunction
  YieldFollowsFunction
  SuperFollowsMethod
