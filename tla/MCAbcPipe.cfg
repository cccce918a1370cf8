\* Two files in one ts2panda process, with texts that are hard to escape,
\* literal arrays and module records, cut in every way by the reads.
CONSTANTS
  NumFiles = 2
  MaxUnits = 1
  Texts <- HardTexts
  BufSize = 3
SPECIFICATION FairSpec
INVARIANTS
  ReceivedIsPrefix
  IndicesAgree
PROPERTIES
  ImplementsChannel
  ChildrenEnd
