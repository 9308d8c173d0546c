CONSTANTS
  n1 = n1
  star = star
  Half = 4
  Name <- MCNames
  Star = star
  PropLists <- NoProps
  QMod = 4
  Boxes <- Flat
  QueryCodes = {"SET", "COUNT"}
  PushOps = {"+", "-"}
  Counts = {0, 1, 3}
  MaxCards = 2
  MaxPacks = 3
  MaxJournal = 2
  MaxFaults = 0
SPECIFICATION Spec
PROPERTIES NeverBelowZero
