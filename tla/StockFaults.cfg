CONSTANTS
  n1 = n1
  star = star
  Half = 4
  Name <- OneName
  Star = star
  PropLists <- OneProp
  QMod = 2
  Boxes <- Nested
  QueryCodes = {"SET", "ADD", "SUB", "MOV", "COUNT", "SUM"}
  PushOps = {"+", "-", "="}
  Counts = {0, 1}
  MaxCards = 2
  MaxPacks = 2
  MaxJournal = 1
  MaxFaults = 1
SPECIFICATION FairSpec
INVARIANTS NoOrphans
PROPERTIES Answered
