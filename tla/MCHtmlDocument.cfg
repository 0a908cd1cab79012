CONSTANTS
  Objects = {o1, o2, o3}
  Files <- MCFiles
  FileMeta <- MCFileMeta
  Unreadable <- MCUnreadable
  MaxDocs = 3
SPECIFICATION HDSpec
INVARIANTS
  TypeOK
  OwnedOnce
  PathIdentifiesFile
