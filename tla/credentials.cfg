SPECIFICATION Spec
CONSTANTS
  main = main
  alt = alt
  o1 = o1
  o2 = o2
  h1 = h1
  Name = {main, alt}
  Operator = {o1}
  Handler = {h1}
  TTL = 1
  MaxTime = 2
  MaxSecrets = 2
  Fault = {"network", "raise", "crash", "tear"}
  MaxFaults = 1
INVARIANTS
  AccountReadRecently
  TypeOK
PROPERTIES
  VerdictHonoured
