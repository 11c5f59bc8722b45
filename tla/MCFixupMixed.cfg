SPECIFICATION Spec
CONSTANTS
  Nids <- MCNids
  Libs <- MCLibs
  Files <- AllTables
  MapFiles <- NoMapFile
  MaxMapNids = 2
  MaxRuns = 1
  None = None
INVARIANT RecordsDescribeStubs
