CONSTANTS
  CHUNKSIZE <- MC_InvChunk
  MAX_HEAP <- MC_InvMaxHeap
  SIZE_BITS <- MC_SIZE_BITS
  Requests <- MC_InvRequests
  CallocArgs <- MC_InvCallocArgs
SPECIFICATION Spec
INVARIANTS
  TypeOK
  ImplicitListWellFormed
  BoundaryTagsAgree
  PrevFreeBitsAccurate
  NoAdjacentFree
  SegListsExact
  LiveBlocksExact
  PayloadCoversRequest
VIEW MC_InvView
