SPECIFICATION FairSpec
CONSTANTS
  Names <- MCNames
  NameLen <- MCNameLen
  ModuleInfoName = "modinfo"
  RemoveRelName = "rel.stub"
  ElfFiles <- MCElfFiles
  None = None
INVARIANT TypeOK
INVARIANT PassesStayInRegion
INVARIANT HeaderAtItsIndex
INVARIANT PassesAgree
PROPERTY ImplementsContract
