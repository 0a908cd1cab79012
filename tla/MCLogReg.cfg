CONSTANTS
  Garbage = Garbage
  Files <- MCFiles
  Dictionaries <- MCDictionaries
  Indeterminate <- MCIndeterminate
  MaxSize = 4
  MaxLen = 8
SPECIFICATION Spec
INVARIANTS
  StrayExactly
  LoadExact
  InferExact
