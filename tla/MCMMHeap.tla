------------------------------- MODULE MCMMHeap -------------------------------
(* A small heap for TLC: 16 bytes of prologue/epilogue and room for six    *)
(* 16-byte blocks, 32-byte chunks, a search window of one node past the    *)
(* head and size_t cut to 16 bits.                                        *)
EXTENDS MMCheck

MC_SIZE_T_MOD == 2^16
MC_MAX_HEAP == 112
MC_CHUNKSIZE == 32
MC_SEARCH_TIME == 1
MC_MallocSizes == {0, 1, 12}
(* (2^15 + 1) * 2 wraps to 2 in the 16-bit size_t: calloc must refuse it. *)
MC_CallocArgs == {<<2, 6>>, <<2^15 + 1, 2>>}

(* A heap of 256 bytes, one chunk filling it, and requests for 80-, 16-  *)
(* and 128-byte blocks: enough to leave an 80-byte head and a 128-byte   *)
(* block together in bucket 4 (65..128 bytes).                           *)
MC_FIT_MAX_HEAP == 256
MC_FIT_CHUNKSIZE == 240
MC_FitSizes == {1, 72, 120}
MC_NoCallocArgs == {}

(* Requests near SIZE_MAX: size + wsize wraps in malloc. *)
MC_HugeSizes == {1, 2^16 - 1}
=============================================================================
