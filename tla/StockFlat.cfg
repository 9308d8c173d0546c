CONSTANTS
  n1 = n1
  star = star
  Half = 4
  Name <- MCNames
  Star = star
  PropLists <- NoProps
  QMod = 3
  Boxes <- Flat
  QueryCodes = {"SET", "ADD", "SUB", "MOV", "COUNT", "SUM"}
  PushOps = {"+", "-"}
  Counts = {0, 1}
  MaxCards = 2
  MaxPacks = 3
  MaxJournal = 2
  MaxFaults = 0
SPECIFICATION Spec
INVARIANTS TypeOK OneRowPerBox BoxListed
PROPERTIES ChangesLogged ImplementsLedger
