SPECIFICATION GateFairSpec
CONSTANTS
  u1 = u1
  u2 = u2
  h1 = h1
  Updater = {u1}
  Handler = {h1}
  Equity = {4, 7, 10}
  MaxDailyLoss = 3
  MaxTotalDrawdown = 6
  Fault = {"crash", "missing"}
  MaxFaults = 2
  MaxMoves = 3
  MaxDay = 1
  MaxEdits = 1
INVARIANTS
  GateTypeOK
  TotalDrawdownStops
  DailyLossStops
  RecordedLossBlocksOrder
PROPERTIES
  EventuallyCurrent
