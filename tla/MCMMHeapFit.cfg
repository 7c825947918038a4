CONSTANTS
  SIZE_T_MOD <- MC_SIZE_T_MOD
  MAX_HEAP <- MC_FIT_MAX_HEAP
  CHUNKSIZE <- MC_FIT_CHUNKSIZE
  SEARCH_TIME <- MC_SEARCH_TIME
  MallocSizes <- MC_FitSizes
  CallocArgs <- MC_NoCallocArgs
SPECIFICATION Spec
INVARIANT FindFitScansWindow
