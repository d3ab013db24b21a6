CONSTANTS
  Keys = {"a", "b"}
  Delays = {0, 1}
  Readers = {1, 2}
  Writers = {}
  Exceptions = {}
  Caught = {"SIGTERM"}
  SelectFails = TRUE
  MaxTime = 1
  MaxTimeouts = 2
  MaxSteps = 1
SPECIFICATION FairSpec
INVARIANTS TypeOK WakesInTime
PROPERTIES KeepsTimers CallsReported TimeoutServed TermAnswered
