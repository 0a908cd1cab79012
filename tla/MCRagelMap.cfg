CONSTANTS
  Threads = {t1, t2, t3}
  Calls = 3
  Ascii = 2
  Other = 128
  Adds <- MCAdds
SPECIFICATION RMFairSpec
INVARIANTS
  RMTypeOK
  NoTableRace
  ReadsExact
PROPERTIES
  AllConstructed
