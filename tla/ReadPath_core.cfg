SPECIFICATION Spec
CONSTANTS
  NumFrames = 2
  Pages = {1, 2, 3}
  MaxVersion = 3
  Images <- AllImages
  Zero = zero
  Clients = {r1, r2, w}
  None = none
  Writer = w
  MaxFaults = 1
  DirtySets = {{3}, {2, 3}, {1, 2, 3}}
  Retained = {1}
INVARIANTS NoWrongPage PoolHasRoom StagedCurrent FramesOwned
PROPERTIES DirtyKept
SYMMETRY Symmetry
