CONSTANTS
  SIZE_T_MOD <- MC_SIZE_T_MOD
  MAX_HEAP <- MC_MAX_HEAP
  CHUNKSIZE <- MC_CHUNKSIZE
  SEARCH_TIME <- MC_SEARCH_TIME
  MallocSizes <- MC_HugeSizes
  CallocArgs <- MC_CallocArgs

SPECIFICATION Spec

INVARIANT PayloadCoversRequest
