SPECIFICATION Spec
CONSTANTS
  NoInput = NoInput
  Messages <- MCMessages
  DefaultChunkSizeBytes = 100
  None = None
  HashLength <- MCHashLength
  Hexadecimal <- MCHexadecimal
  ParseInt <- MCParseInt
  DigestOrder <- MCDigestOrder
  ReadChunkSize = 2
  MaximumMessageSizeBytes = 5
  BlobOf <- MCBlobOf
  MaximumSymlinks = 12
  DriveLetterOf <- MCDriveLetterOf
  IsUNC <- MCIsUNC
INVARIANTS
  BuffersYieldTheBlob
  PathsResolve
  
  
  AccessDecided
  CapabilitiesHonoured
