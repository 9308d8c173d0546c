CONSTANTS
  Half = 4
  Name <- MCName
  Star <- MCStar
  PropLists <- MCProps
  QMod = 3
  Boxes <- MCBoxes
  CardOps = {"+", "-", "="}
  PackLists <- MCPackLists
  PropEdits <- MCPropEdits
  Layouts <- MCLayouts
  MaxRequests = 1
  MaxFaults = 1
SPECIFICATION Spec
INVARIANTS CardInvariant 
PROPERTIES  PackagesAsSent AddedListed
CHECK_DEADLOCK FALSE
