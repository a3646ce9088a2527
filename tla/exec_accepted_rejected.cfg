SPECIFICATION Spec
CONSTANTS
  c1 = c1
  c2 = c2
  c3 = c3
  w1 = w1
  w2 = w2
  Command = {c1}
  Kind <- OnePlacing
  Worker = {w1}
  Enabled = {w1}
  BrokerDedups = TRUE
  Fault = {"transport"}
  MaxFaults = 1
  MaxEdits = 1
INVARIANTS
  AcceptedNeverRejected
