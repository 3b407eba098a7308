SPECIFICATION SetupSpec
CONSTANTS
  Versions = {"older", "newer"}
  Nobody = Nobody
  Part = Part
  World = {"failure"}
INVARIANTS RepairedOnRequest
