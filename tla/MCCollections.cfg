SPECIFICATION Spec
CONSTANTS
  Addresses = {good, bad}
  OnChain = {good}
  Submissions = {s1, s2}
  Reqs = {r1, r2}
  Pages = 2
  MaxFaults = 1
  None = None
SYMMETRY Symmetry
INVARIANTS TypeOK OnlyOnChain BackfillOnce ApprovedIsStored ValidatingHasTask
CHECK_DEADLOCK FALSE
