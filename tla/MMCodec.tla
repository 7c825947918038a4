------------------------------- MODULE MMCodec -------------------------------
(***************************************************************************)
(* The block codec of mm.c: the packed header/footer word, the size        *)
(* arithmetic of the allocator and the size classes of the 14 segregated   *)
(* free lists.  Everything here is a pure operator over integers.          *)
(*                                                                         *)
(* A header word is an integer: bits 63..4 hold the block size (a         *)
(* multiple of 16), bit 2 "previous block is a minimum block", bit 1       *)
(* "previous block allocated", bit 0 "this block allocated".  size_t       *)
(* arithmetic wraps modulo SIZE_T_MOD (2^64 in the code).                  *)
(***************************************************************************)
EXTENDS Integers

CONSTANT SIZE_T_MOD   \* 2^64 for the code's size_t; a smaller power of 2 for TLC

ASSUME SizeTModAssumption == SIZE_T_MOD \in Nat /\ SIZE_T_MOD >= 65536

wsize == 8                \* sizeof(word_t)
dsize == 16               \* 2 * wsize
min_block_size == 16      \* dsize
free_size == 14           \* number of segregated free lists
NULL == 0                 \* the null pointer; no block lives at heap_lo

Buckets == 0 .. free_size - 1

Bit(b) == IF b THEN 1 ELSE 0

(* max(x, y) of mm.c *)
max(x, y) == IF x > y THEN x ELSE y

(* round_up(size, n) == n * ((size + (n - 1)) / n), in size_t arithmetic. *)
round_up(size, n) == (n * (((size + (n - 1)) % SIZE_T_MOD) \div n)) % SIZE_T_MOD

(* pack: size | (alloc_prev << 1) | alloc_curr, with min_mask 0x4 or'ed in *)
(* when min_block.  size is a multiple of 16, so | is +.                   *)
pack(size, alloc_prev, alloc_curr, min_block) ==
  size + 2 * Bit(alloc_prev) + Bit(alloc_curr) + 4 * Bit(min_block)

(* word & size_mask, size_mask = ~0xF *)
extract_size(word) == word - (word % 16)

(* word & alloc_mask, alloc_mask = 0x7 *)
extract_alloc(word) == word % 8

(* get_alloc(block, prev) on the block's header word *)
get_alloc(word, prev) ==
  IF prev THEN (extract_alloc(word) \div 2) % 2 = 1
          ELSE extract_alloc(word) % 2 = 1

(* is_minblock: (alloc_status >> 2) != 0 *)
is_minblock(word) == extract_alloc(word) \div 4 /= 0

(* The upper bounds free_16 .. free_32768 of buckets 0 .. 12. *)
free_limit == <<16, 32, 48, 64, 128, 256, 512, 1024, 2048, 4096, 8192,
                16384, 32768>>

(* get_free_list: the first bucket whose upper bound is >= size, 13 above. *)
get_free_list(size) ==
  IF size > 32768 THEN 13
  ELSE CHOOSE i \in 0 .. 12 :
         /\ size <= free_limit[i + 1]
         /\ i > 0 => size > free_limit[i]

(* The size bounds mm_checkheap checks bucket i against: check_minimatch *)
(* and check_freematch take (size, prevsize) = (free_16, 0) for bucket 0, *)
(* (free_limit of i, of i - 1) for 1..12 and (0, free_32768) for 13.      *)
BucketSize(i) == IF i = free_size - 1 THEN 0 ELSE free_limit[i + 1]

BucketPrevSize(i) == IF i = 0 THEN 0 ELSE free_limit[i]

=============================================================================
