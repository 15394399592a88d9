SPECIFICATION Spec
CONSTANTS
  Requests = {r1, r2}
  Downloads = {d1, d2}
  MaxRestarts = 1
  OnDisk <- MCAny
  Calm = {FALSE, TRUE}
INVARIANTS OneDownload CalmServed
PROPERTY DownloadEnds
