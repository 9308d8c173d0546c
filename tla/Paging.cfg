CONSTANTS
  MaxRows = 3
  Sizes = {0, 1, 2}
  ListSize = 2
  MaxSize = 1
  FileSize = 2
  MaxFiles = 3
  MaxFaults = 1
SPECIFICATION FairSpec
INVARIANTS PagingInvariant NothingSkipped ExportWhole
PROPERTIES ExportEnds
