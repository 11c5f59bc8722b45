SPECIFICATION Spec
CONSTANTS
  Nids <- MCNids
  Libs <- MCLibs
  Files <- MCFiles
  MapFiles <- MCMapFiles
  MaxMapNids = 2
  MaxRuns = 2
  None = None
INVARIANT TypeOK
INVARIANT RecordsDescribeTheirStubs
INVARIANT NidsRenamedByTheirLibrary
INVARIANT RerunChangesNothing
