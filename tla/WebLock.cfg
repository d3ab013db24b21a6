SPECIFICATION Spec
CONSTANTS
  Workers = {w1, w2}
  Pids = {p1, p2}
  Names = {a, b}
  MaxRequests = 2
  PromptBoot = TRUE
  SlowReuse = TRUE
SYMMETRY Symmetry
INVARIANT
  Exclusive
