SPECIFICATION GateSpec
CONSTANTS
  u1 = u1
  u2 = u2
  h1 = h1
  Updater = {u1, u2}
  Handler = {h1}
  Equity = {7, 10}
  MaxDailyLoss = 3
  MaxTotalDrawdown = 0
  Fault = {"crash", "tear", "missing"}
  MaxFaults = 1
  MaxMoves = 1
  MaxDay = 1
  MaxEdits = 1
INVARIANTS
  NewDayFailsClosed
  OrderDayRecorded
