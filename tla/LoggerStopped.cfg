SPECIFICATION Spec
CONSTANTS
  NChan = 1
  Base = 2
  MaxCount = 1
INVARIANT
  StoppedIsStopped
