SPECIFICATION GateSpec
CONSTANTS
  u1 = u1
  u2 = u2
  h1 = h1
  Updater = {u1}
  Handler = {}
  Equity = {0, 10}
  MaxDailyLoss = 0
  MaxTotalDrawdown = 6
  Fault = {}
  MaxFaults = 0
  MaxMoves = 1
  MaxDay = 0
  MaxEdits = 0
INVARIANTS
  TotalDrawdownStops
