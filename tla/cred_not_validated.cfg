SPECIFICATION Spec
CONSTANTS
  main = main
  alt = alt
  o1 = o1
  o2 = o2
  h1 = h1
  Name = {main, alt}
  Operator = {o1}
  Handler = {h1}
  TTL = 1
  MaxTime = 1
  MaxSecrets = 2
  Fault = {}
  MaxFaults = 0
INVARIANTS
  UsesValidatedCredential
