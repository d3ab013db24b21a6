SPECIFICATION Spec
CONSTANTS
  Workers = {w1}
  Pids = {p1, p2, p3}
  Names = {a, b}
  MaxRequests = 5
  PromptBoot = TRUE
  SlowReuse = TRUE
SYMMETRY Symmetry
INVARIANTS
  SparesStrangers
  TypeOK
  Exclusive
  Reachable
  StoppedPageTrue
PROPERTIES
  KeepsData
