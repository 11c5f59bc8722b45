SPECIFICATION MCSpec
CONSTANTS
  Unit = 4
  PgdBlock = 8
  BlockSize = 8
  Page = 12
  BodySize = 4
  RatioLimit = 60
  LzSizes = {3, 4, 6}
  SectorSize = 128
  SizeofRecord = 34
  NameMax = 32
  Inputs <- OddModule
  Blocks <- NoBlocks
  Bytes <- MCBytes
  MaxWindow = 5
  LenFlags = 2
  NearLimit = 2
  NoKey = NoKey
  None = None
INVARIANT GeneratedPgdCopied
