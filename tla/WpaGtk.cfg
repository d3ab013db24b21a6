SPECIFICATION Spec
CONSTANTS
  s1 = s1
  s2 = s2
  Sta = {s1, s2}
  Wpa2 = {s1}
  UpdateCount = 2
  Retries = 2
  MaxTimers = 2
  Returning = {s2}
  Adverse = {"wrongKey", "mismatch", "setkey", "inactive"}
INVARIANTS GtkCurrent PairwiseRetried GroupRetried SpentDisconnected
