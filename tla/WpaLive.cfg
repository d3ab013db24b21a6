SPECIFICATION FairSpec
CONSTANTS
  s1 = s1
  s2 = s2
  Sta = {s1, s2}
  Wpa2 = {s1}
  UpdateCount = 2
  Retries = 1
  MaxTimers = 2
  Returning = {s2}
  Adverse = {"wrongKey"}
PROPERTIES StepReturns RekeyEnds
