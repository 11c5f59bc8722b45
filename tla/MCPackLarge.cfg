SPECIFICATION PackSpec
CONSTANTS
  N = 3
  HeaderSize = 3
  Chunk = 2
  Word = 16
  Paths <- MCPaths
  Disks <- LargeDisks
  Arguments <- MCArguments
  NewSizes = {0, 3}
  MaxChanges = 1
  Null = Null
INVARIANT SectionsWhereHeaderSays
