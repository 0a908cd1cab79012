CONSTANTS
  NumProcs = 2
  Categories <- MCCategories
  Inputs <- MCInputs
  ModelFiles <- MCModelFiles
  MaxDocs = 3
  c1 = c1
  c2 = c2
  bg = bg
SPECIFICATION FairSpec
INVARIANTS
  TypeOK
  FrameAlive
  NoThreadOutlivesModel
  CategoriesExact
  ThrowsAsExplained
PROPERTIES
  Ends
