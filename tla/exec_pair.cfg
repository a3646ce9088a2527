SPECIFICATION Spec
CONSTANTS
  c1 = c1
  c2 = c2
  c3 = c3
  w1 = w1
  w2 = w2
  Command = {c1, c2}
  Kind <- TwoPlacing
  Worker = {w1, w2}
  Enabled = {w1, w2}
  BrokerDedups = TRUE
  Fault = {"lease", "transport", "lookup", "response", "delay", "report", "crash", "tear", "abort"}
  MaxFaults = 2
  MaxEdits = 1
INVARIANTS
  AcknowledgedHasOrder
PROPERTIES
  ImplementsOutcome
