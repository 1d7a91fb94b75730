SPECIFICATION Spec
CONSTANTS
  ArenaCap = 10
  MaxSize = 18
  MaxInt32 = 63
  fetchChunkSize = 8
  minFetchChunkSize = 2
  maxFetchBodyBytes = 9
  EnvelopeBytes = 2
  MaxResponse = 10
  MaxChunk = 3
INVARIANTS
  TypeOK
  ReadsFindAFreshBuffer
  BodyIsAPrefix
PROPERTIES
  WholeBodyOrError
  FetchEnds
  PartlyUsedBufferSucceeds
