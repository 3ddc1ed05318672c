CONSTANTS
  CHUNKSIZE <- MC_CHUNK
  MAX_HEAP <- MC_ReuseMaxHeap
  SIZE_BITS <- MC_SIZE_BITS
  Requests <- MC_ReuseRequests
  CallocArgs <- MC_RefCallocArgs
SPECIFICATION Spec
PROPERTIES
  FitNotMissed
