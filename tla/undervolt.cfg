SPECIFICATION UVSpec
CONSTANTS
  DomainCount = 2
  NoDomain = NoDomain
  Garbage = Garbage
  Missing = Missing
  Unreadable = Unreadable
  NoReport = NoReport
  HardwareDomains = {0,1}
  HandMade <- MCHandMade
  Forms <- MCForms
  World = {"failure", "edit", "reset", "packages"}
INVARIANTS UVTypeOK OthersPreserved SavedIsLoaded ReportedIsInForce NothingInvented
PROPERTY NeverOvervolts
