CONSTANTS
  CHUNKSIZE <- MC_CHUNK
  MAX_HEAP <- MC_MAX_HEAP
  SIZE_BITS <- MC_SIZE_BITS
  Requests <- MC_RefRequests
  CallocArgs <- MC_RefCallocArgs
SPECIFICATION Spec
PROPERTIES
  AllocatorRefinement
