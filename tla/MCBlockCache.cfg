SPECIFICATION Spec
CONSTANTS
  Threads = {t1, t2}
  Tables <- MCTables
  SharedBlocks = 3
  DefaultBlock = 2
  CacheBytes = 3
  KeyRange = 3
  MaxShards = 2
  LocalBlocks = 1
  Golden = 3
  MixRange = 4
  MaxOpens = 2
  MaxReads = 3
  Spans <- MCSpans
SYMMETRY MCSymmetry
INVARIANTS ReadsItsOwnTable WithinCapacity
CHECK_DEADLOCK FALSE
