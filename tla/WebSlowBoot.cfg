SPECIFICATION Spec
CONSTANTS
  Workers = {w1}
  Pids = {p1, p2}
  Names = {a, b}
  MaxRequests = 3
  PromptBoot = FALSE
  SlowReuse = TRUE
SYMMETRY Symmetry
PROPERTY
  KeepsData
