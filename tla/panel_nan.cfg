SPECIFICATION PanelSpec
CONSTANTS
  NaN = NaN
  Absent = Absent
  Garbage = Garbage
  Missing = Missing
  Unreadable = Unreadable
  NoRange = NoRange
  NoDaemon = NoDaemon
  HandMade <- NaNFiles
  Forms <- MCForms
  Ranges <- MCRanges
  World = {"crash"}
INVARIANTS RunningThresholdsOrdered
