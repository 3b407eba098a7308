SPECIFICATION FairDaemonSpec
CONSTANTS
  p1 = p1
  p2 = p2
  NoPolicy = NoPolicy
  Policies <- MCPolicies
  HwMin <- MCHwMin
  HwMax <- MCHwMax
  Strict <- MCPolicies
  Configs <- OneConfig
  Disturbances = {"io", "crash", "signal"}
INVARIANTS DaemonTypeOK NoRejectedWrite
PROPERTIES ImplementsHysteresis StopTerminates SettlesOnUsage
