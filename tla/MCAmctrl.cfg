SPECIFICATION Spec
CONSTANTS
  Block = 2
  Chunk = 4
  MacTypes = {1, 2, 3}
  VersionKeys <- MCVersionKeys
  HeaderKeys = {h}
  Seeds = {0, 2}
  Pieces = {0, 1, 2, 5}
  MaxLength = 7
  NoKey = NoKey
  None = None
INVARIANT TypeOK
INVARIANT MacIgnoresPieces
INVARIANT ChecksMatchMacs
INVARIANT KeystreamByPosition
INVARIANT MacInvariant
CONSTRAINT OneAtATime
