CONSTANTS
  Docs <- MCDocs
  MaxDocs = 3
  TotalSentences <- MCTotal
  SizeT = 65536
  AllSentences = 1000
  UpostagsTxt <- MCUpostags
  FeatsTxt <- MCFeats
  LemmasTxt <- MCLemmas
SPECIFICATION FairSpec
INVARIANTS
  TypeOK
  ReaderInOwnString
  FeaturesExact
PROPERTIES
  ChunkDone
