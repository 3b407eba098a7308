SPECIFICATION FairDaemonSpec
CONSTANTS
  p1 = p1
  p2 = p2
  NoPolicy = NoPolicy
  Policies <- MCPolicies
  HwMin <- MCHwMin
  HwMax <- MCHwMax
  Strict = {}
  Configs <- OneConfig
  Disturbances = {"io", "crash", "hotplug", "external", "signal"}
PROPERTIES StateFollowsUsage StopsInTime
