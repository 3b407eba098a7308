SPECIFICATION SetupSpec
CONSTANTS
  Versions = {"older", "newer"}
  Nobody = Nobody
  Part = Part
  World = {"failure", "crash"}
INVARIANTS DoneMeansRunning
PROPERTIES PreferencesKept
