\* The ring against the atomic queue it promises to be, and every call returns.
CONSTANTS
  a = a
  b = b
  w1 = w1
  r1 = r1
  Items <- TwoItems
  Empty = Empty
  Writers <- OneWriter
  Readers <- OneReader
  NoThread = NoThread
  Sizes <- AnyRing
  MaxBatch = 2
SPECIFICATION FairSpec
INVARIANTS TypeOK NoUnwrittenSlotIsRead
PROPERTIES RefinesQueue CallsReturn
