SPECIFICATION Spec
CONSTANTS
  r1 = r1
  r2 = r2
  p = p
  q = q
  c1 = c1
  NoRun = NoRun
  Runs = {r1, r2}
  Projects = {p, q}
  Target <- SameTarget
  Asks = {}
  Cancellers = {c1}
  MaxConcurrent = 2
  MaxRows = 2
  StoreMayFail = FALSE
INVARIANTS
  ExclusiveWork
