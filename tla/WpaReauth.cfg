SPECIFICATION Spec
CONSTANTS
  s1 = s1
  Sta = {s1}
  Wpa2 = {}
  UpdateCount = 4
  Retries = 4
  MaxTimers = 2
  Returning = {s1}
  Adverse = {"pending"}
INVARIANTS ReauthCancels
