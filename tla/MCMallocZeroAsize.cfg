CONSTANTS
  CHUNKSIZE <- MC_CHUNK
  MAX_HEAP <- MC_MAX_HEAP
  SIZE_BITS <- MC_SIZE_BITS
  Requests <- MC_ZeroAsizeRequests
  CallocArgs <- MC_RefCallocArgs
SPECIFICATION Spec
INVARIANTS
  LiveBlocksExact
