CONSTANTS
  Word <- MCWord
  ReaderFirst = TRUE
  MaxOverlap = 0
  MaxWrites = 4
SPECIFICATION CSpec
INVARIANTS
  NoSpuriousNew
