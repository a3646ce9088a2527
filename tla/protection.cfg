SPECIFICATION FairSpec
CONSTANTS
  w1 = w1
  w2 = w2
  Worker = {w1, w2}
  Size = 2
  Others <- SomeOther
  Fault = {"query", "lost", "report", "gate"}
  MaxFaults = 3
INVARIANTS
  TypeOK
  ClaimsBacked
  ExposureReported
PROPERTIES
  ExposureSettled
