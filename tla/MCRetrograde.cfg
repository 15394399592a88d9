SPECIFICATION VSpec
CONSTANTS
  PlaneSize = 2
  DtmMax = 6
  CountSat = 3
  OraclePlies = 2
  Games <- MCGames
  Forged <- MCForged
  Faulty = {{}, {"block"}}
INVARIANTS OracleExact PassIsExact HonestPasses
CHECK_DEADLOCK FALSE
