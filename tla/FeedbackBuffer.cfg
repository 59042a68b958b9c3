CONSTANTS
  Word <- MCWord
  ReaderFirst = FALSE
  MaxOverlap = 1
  MaxWrites = 4
SPECIFICATION FairSpec
INVARIANTS
  Untorn
PROPERTIES
  ImplementsRegister
  PublishedIsRead
