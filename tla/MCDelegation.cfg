SPECIFICATION FairSpec
CONSTANTS
  r1 = r1
  r2 = r2
  p = p
  q = q
  c1 = c1
  NoRun = NoRun
  Runs = {r1, r2}
  Projects = {p, q}
  Target <- SameTarget
  Asks = {r1}
  Cancellers = {c1}
  MaxConcurrent = 2
  MaxRows = 2
  StoreMayFail = FALSE
INVARIANTS
    OneOwnerPerTarget
    RunningIsOwned
PROPERTIES
    ContractHolds
    RunEnds
