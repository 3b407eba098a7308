SPECIFICATION UVSpec
CONSTANTS
  DomainCount = 2
  NoDomain = NoDomain
  Garbage = Garbage
  Missing = Missing
  Unreadable = Unreadable
  NoReport = NoReport
  HardwareDomains = {0}
  HandMade <- UnendedFiles
  Forms <- MCForms
  World = {}
INVARIANT HiddenByteForByte
