SPECIFICATION Spec
CONSTANTS
  NumFrames = 2
  Pages = {1, 2, 3}
  MaxVersion = 1
  Images <- AllImages
  Zero = zero
  Clients = {r1, r2, w}
  None = none
  Writer = w
  MaxFaults = 0
  DirtySets = {{2, 3}, {1, 2, 3}}
  Retained = {1}
INVARIANT ReadsSucceed
