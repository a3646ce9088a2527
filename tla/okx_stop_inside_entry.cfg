SPECIFICATION Spec
CONSTANTS
  Tick = 4
  Lot = 2
  MinSize = 4
  ContractValue = 3
  Prices = {8, 11, 13, 18}
  Quantities = {3, 7, 10}
  Notionals = {100, 300}
  Slippages = {150, 3000}
  Levers = {2}
  Inputs <- NumberInputs
  Filters <- MCFilters
INVARIANTS
  StopLossBeyondEntry
CHECK_DEADLOCK FALSE
