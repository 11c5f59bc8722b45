SPECIFICATION Spec
CONSTANTS
  Nids <- MCNids
  Libs <- MCLibs
  Files <- ToTheEnd
  MapFiles <- NoMapFile
  MaxMapNids = 2
  MaxRuns = 1
  None = None
INVARIANT OnlyRecordsCompleted
