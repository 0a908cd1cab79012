CONSTANTS
  Tasks <- ToolTasks
  Corpora <- MCCorpora
  SiteLists <- MCSiteLists
  Categories <- MCCategories
  GarbledTitles <- MCGarbledTitles
  SizeT = 65536
  MaxFiles = 3
  c1 = c1
  c2 = c2
  t1 = t1
  t2 = t2
  t3 = t3
SPECIFICATION Spec
INVARIANTS
  StopsAsExplained
  TsvRowsAligned
