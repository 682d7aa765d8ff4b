SPECIFICATION FairSpec
CONSTANTS
  MaxLine = 4
  Chars = {"char"}
  Texts <- TwoLines
INVARIANTS
  TypeOK
  PatternsFollowLines
  BadLinesReported
PROPERTIES
  ParseEnds
