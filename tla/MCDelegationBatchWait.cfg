SPECIFICATION BatchSpec
CONSTANTS
  r1 = r1
  r2 = r2
  p = p
  q = q
  c1 = c1
  u = u
  NoRun = NoRun
  Projects = {p, q}
  Asks = {}
  Batch <- MCBatch
  Unwinder = u
  MaxConcurrent = 3
  MaxRows = 2
  StoreMayFail = FALSE
  Runs = {r1, r2}
  Target <- MCTarget
  Cancellers = {u}
PROPERTIES
  WaitIsPatient
