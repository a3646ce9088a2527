SPECIFICATION FairSpec
CONSTANTS
  entry = entry
  pair = pair
  stop = stop
  byHand = byHand
  close = close
  Order <- MCOrder
  Role <- MCRole
  Lots <- MCLots
  Parent = entry
  AlgoTypes <- MCAlgoTypes
  AlgoType <- MCAlgoType
  Fault = {"query", "algo", "upload"}
  MaxFaults = 1
  MaxEvents = 5
INVARIANTS
  TypeOK
  LabelsTruthful
  LabelsComplete
  PositionExplained
  NothingMissing
PROPERTIES
  EventuallyLabelled
