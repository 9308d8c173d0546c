CONSTANTS
  Half = 4
  Name <- MCName
  Star <- MCStar
  PropLists <- NoProps
  QMod = 4
  Boxes <- MCBoxes
  BoxOps = {"+", "=", "-", "/"}
  Sources <- MCSources
  Targets <- MCTargets
  Layouts <- MCLayouts
  MaxRequests = 2
  MaxFaults = 1
SPECIFICATION FairSpec
INVARIANTS EditInvariant
PROPERTIES EndsInDest RenamedOnce StaysListed SourceEmptied BoxAnswered
CHECK_DEADLOCK FALSE
