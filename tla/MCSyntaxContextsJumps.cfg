\* Statements and functions one in another.
SPECIFICATION Spec
CONSTANTS
  a = a
  b = b
  NoLabel = NoLabel
  Labels <- MCLabels
  Kinds <- MCKinds
  MaxDepth = 2
INVARIANT JumpsEnclosed
