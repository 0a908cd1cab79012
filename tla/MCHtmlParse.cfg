CONSTANTS
  Trees <- MCTrees
  StartSize <- MCStartSize
  Growth = 2
  MaxNodes = 3
  MaxDeep = 4
SPECIFICATION FairSpec
INVARIANTS
  CollectionExact
  MeasuredTwice
  FieldsExact
PROPERTIES
  Parsed
