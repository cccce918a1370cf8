\* Programs of three statements over five object types and their parts.
CONSTANTS
  Types <- MCTypes
  Structure <- MCStructure
  Variables <- MCVariables
  Values <- MCValues
  Literals <- MCLiterals
  MaxStatements = 3
SPECIFICATION Spec
INVARIANTS
  TypeOK
  AnswersFitTypes
  RelationsNested
