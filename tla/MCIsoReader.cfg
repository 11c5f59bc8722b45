SPECIFICATION FairSpec
CONSTANTS
  SectorSize = 2
  DecBufSize = 8
  IdxEntries = 3
  VolSector = 1
  Images <- MCImages
  Requests <- MCRequests
  None = None
INVARIANT TypeOK
INVARIANT RightSector
INVARIANT ReaderInvariant
INVARIANT ContractInvariant
PROPERTY ImplementsContract
PROPERTY CallsReturn
