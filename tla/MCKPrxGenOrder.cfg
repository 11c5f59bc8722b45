SPECIFICATION FairSpec
CONSTANTS
  Names <- MCNames
  NameLen <- MCNameLen
  ModuleInfoName = "modinfo"
  RemoveRelName = "rel.stub"
  ElfFiles <- ReorderedElfs
  None = None
INVARIANT LinksEveryReloc
