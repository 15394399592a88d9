SPECIFICATION Spec
CONSTANTS
  PlaneCells = 7
  ScanChunk = 2
  SegmentCells = 2
  Threads = 2
  WindowPerWorker = 1
  Planes <- MCPlanes
INVARIANTS RingSafe SlotsHoldTheirSegment NoLostWakeup
PROPERTIES ImplementsOneThread Returns
