SPECIFICATION FileSpec
CONSTANTS
  Chars <- Letters
  Texts <- TextsOf
  Code <- Points
  Directories <- Tree
  Worlds <- All
INVARIANTS
  FileTypeOK
  AnswersFollowRules
  PanicsOnlyUnclosed
  PathIsCurrent
  RootIsNearest
