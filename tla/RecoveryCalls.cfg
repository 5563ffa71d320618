SPECIFICATION Spec
CONSTANTS
  Branch = {1, 2}
  Rank = {1, 2}
  Cadences <- TwoCadences
  MaxTime = 6
INVARIANTS TypeOK Recorded
PROPERTIES OldestFirst OnlyRefusalsForget
