SPECIFICATION FairSpec
CONSTANTS
  c1 = c1
  c2 = c2
  c3 = c3
  w1 = w1
  w2 = w2
  Command = {c1, c2, c3}
  Kind <- TwoPlacingAndPaper
  Worker = {w1}
  Enabled = {w1}
  BrokerDedups = FALSE
  Fault = {"lease", "transport", "response", "report", "crash"}
  MaxFaults = 2
  MaxEdits = 2
INVARIANTS
  TypeOK
  OneOrderPerCommand
  KillSwitchStopsPlacement
  StoredNeverRejected
  StoredResultsSurvive
PROPERTIES
  NoOrderAfterAnswer
  EveryCommandAnswered
