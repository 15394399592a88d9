SPECIFICATION Spec
CONSTANTS
  PlaneSize = 5
  DtmMax = 6
  CountSat = 3
  Threads = 2
  TilesPerWorker = 2
  Games <- MCGames
INVARIANTS NoDataRace Earned NoneMissed
PROPERTIES WriteOnce ImplementsSequential Terminates
