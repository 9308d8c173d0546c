CONSTANTS
  Half = 4
  Words = {1, 3, 7}
SPECIFICATION IdsSpec
INVARIANTS PathsNest RenamedStaysInside RenameKeepsApart
