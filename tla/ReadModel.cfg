SPECIFICATION FairSpec
CONSTANTS
  Jobs = {j1}
  Pages = {q1, q2}
  None = None
  Attempts = 2
  MaxSaves = 1
  MaxSnaps = 1
  MaxFaults = 1
INVARIANTS TypeOK PagesFresh SavesCovered
PROPERTIES ViewCatchesUp ReadyCovers
