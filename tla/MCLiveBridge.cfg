CONSTANTS
  Unit <- MCUnit
  ServiceSets <- MCServiceSets
  Endless = {}
  Capacity = 1
  MaxChunks = 2
SPECIFICATION FairSpec
INVARIANTS
  TypeOK
  NothingAfterVerdict
  Lossless
PROPERTIES
  ShutdownNeverStalls
