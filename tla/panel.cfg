SPECIFICATION PanelSpec
CONSTANTS
  NaN = NaN
  Absent = Absent
  Garbage = Garbage
  Missing = Missing
  Unreadable = Unreadable
  NoRange = NoRange
  NoDaemon = NoDaemon
  HandMade <- MCHandMade
  Forms <- MCForms
  Ranges <- MCRanges
  World = {"crash", "edit", "uninstalled"}
INVARIANTS PanelTypeOK ReportedMeansRunning SavedMeansRead RunningConfigSafe PresentedIsSaveable
