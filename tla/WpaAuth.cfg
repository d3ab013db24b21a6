SPECIFICATION Spec
CONSTANTS
  s1 = s1
  s2 = s2
  Sta = {s1, s2}
  Wpa2 = {s2}
  UpdateCount = 1
  Retries = 2
  MaxTimers = 1
  Returning = {}
  Adverse = {"error", "ptk", "gtk", "wrongKey", "mismatch", "setkey", "inactive", "entropy", "overlap", "pending"}
INVARIANTS TypeOK DoneCounts NeverRecursive SpentDisconnected
PROPERTIES DoneAnswered
