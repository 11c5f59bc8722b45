SPECIFICATION MCSpec
CONSTANTS
  LibNames <- MCLibNames
  SyslibName = "syslib"
  Names <- MCNames
  Nids <- MCNids
  MaxFuncs = 2
  MaxVars = 1
  ExpFiles <- MCExpFiles
  Modes = {"exports", "stubs", "stubs_new", "cmake"}
  Refused <- MCRefused
  None = None
  N = 3
  HeaderSize = 3
  Chunk = 2
  Word = 16
  Paths <- MCPaths
  Disks <- MCDisks
  Arguments <- MCArguments
  NewSizes = {0, 3}
  MaxChanges = 1
  Null = Null
INVARIANT TypeOK
INVARIANT CountsMatch
INVARIANT PackTypeOK
INVARIANT HeaderDescribesSections
INVARIANT UnchangedFilesAreWhole
INVARIANT WholeOrAbsent
PROPERTY ImplementsContract
PROPERTY FilesAreDecided
