SPECIFICATION Spec
CONSTANTS
  Nids <- MCNids
  Libs <- MCLibs
  Files <- FiveWords
  MapFiles <- TwoLibraries
  MaxMapNids = 2
  MaxRuns = 1
  None = None
INVARIANT NidsRenamed
