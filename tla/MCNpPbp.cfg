SPECIFICATION MCSpec
CONSTANTS
  Unit = 4
  PgdBlock = 8
  BlockSize = 8
  Page = 12
  BodySize = 4
  RatioLimit = 60
  LzSizes = {3, 4, 6}
  SectorSize = 128
  SizeofRecord = 34
  NameMax = 32
  Inputs <- MCInputs
  Blocks <- MCBlocks
  Bytes <- MCBytes
  MaxWindow = 5
  LenFlags = 2
  NearLimit = 2
  NoKey = NoKey
  None = None
INVARIANT TypeOK
INVARIANT LookupsMatchDirectory
INVARIANT SectionsDescribed
INVARIANT DataPspReadsBack
INVARIANT HeaderVerifies
INVARIANT ImageReadsBack
INVARIANT KeystreamNeverReused
INVARIANT ChainsAreWindow
INVARIANT FoundIsBest
INVARIANT DecoderFollows
PROPERTY WrittenBackInPlace
PROPERTY CompressionEnds
