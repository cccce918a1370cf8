\* Every statement form in every other, three deep for three; functions end.
CONSTANTS
  Labels = {"L"}
  Forms = {"while", "do", "for", "forin", "forof", "forawait", "if", "switch",
           "try", "labelled", "leave"}
  DeepForms = {{"for", "forof", "try"}, {"while", "labelled", "try", "leave"}}
  Programs <- AllPrograms
  MaxDrift = 2
SPECIFICATION Spec
CHECK_DEADLOCK FALSE
INVARIANTS EnvironmentsFollowSource CleanedWhenLeft CleanedOnce HandledInside JumpsReach
