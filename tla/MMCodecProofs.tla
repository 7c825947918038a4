---------------------------- MODULE MMCodecProofs ----------------------------
(***************************************************************************)
(* Facts about the block codec and the size arithmetic of mm.c, for every  *)
(* SIZE_T_MOD the assumption allows (2^64 among them).  They are the       *)
(* arithmetic the heap invariants of MMHeap rest on: that a header word    *)
(* gives back the size and bits pack put in, that the bucket mm_checkheap  *)
(* checks a free block against is the one get_free_list puts it in, and   *)
(* how malloc's adjusted size relates to the request, on both sides of    *)
(* the size_t wrap.                                                       *)
(***************************************************************************)
EXTENDS MMCodec, TLAPS

(* Adding flags 0..7 to a multiple of 16 leaves them as the low bits. *)
LEMMA ModLow ==
  ASSUME NEW size \in Nat, size % 16 = 0, NEW k \in 0 .. 7
  PROVE  /\ (size + k) % 16 = k
         /\ (size + k) % 8 = k
         /\ (size + k) - ((size + k) % 16) = size
  <1>1. size = 16 * (size \div 16)
    BY SMT
  <1>. QED
    BY <1>1, SMT

(* The low four bits of a packed word are the three flags. *)
LEMMA PackLowBits ==
  ASSUME NEW size \in Nat, size % 16 = 0,
         NEW pa \in BOOLEAN, NEW a \in BOOLEAN, NEW mb \in BOOLEAN
  PROVE  /\ pack(size, pa, a, mb) % 8 = 2 * Bit(pa) + Bit(a) + 4 * Bit(mb)
         /\ extract_size(pack(size, pa, a, mb)) = size
  <1> DEFINE k == 2 * Bit(pa) + Bit(a) + 4 * Bit(mb)
  <1>1. k \in 0 .. 7
    BY DEF Bit
  <1>2. pack(size, pa, a, mb) = size + k
    BY DEF pack, Bit
  <1>3. PICK j \in 0 .. 7 : j = k
    BY <1>1
  <1>4. /\ (size + j) % 8 = j
        /\ (size + j) - ((size + j) % 16) = size
    BY ModLow
  <1>. QED
    BY <1>2, <1>3, <1>4 DEF extract_size

(* The flags word 2 * pa + a + 4 * mb: bit 0 is a, bit 1 is pa, bit 2 mb. *)
LEMMA FlagBits ==
  ASSUME NEW pa \in BOOLEAN, NEW a \in BOOLEAN, NEW mb \in BOOLEAN
  PROVE  LET k == 2 * Bit(pa) + Bit(a) + 4 * Bit(mb)
         IN  /\ ((k \div 2) % 2 = 1) <=> pa
             /\ (k % 2 = 1) <=> a
             /\ (k \div 4 /= 0) <=> mb
  BY DEF Bit

(* write_block packs a header with pack and every reader takes it apart  *)
(* with extract_size, get_alloc and is_minblock: for a size that is a     *)
(* multiple of 16 the readers give back exactly the size and the three    *)
(* bits that were packed, so no flag leaks into the size or into another *)
(* flag.                                                                  *)
THEOREM PackDecode ==
  ASSUME NEW size \in Nat, size % 16 = 0,
         NEW pa \in BOOLEAN, NEW a \in BOOLEAN, NEW mb \in BOOLEAN
  PROVE  LET w == pack(size, pa, a, mb)
         IN  /\ extract_size(w) = size
             /\ get_alloc(w, FALSE) = a
             /\ get_alloc(w, TRUE) = pa
             /\ is_minblock(w) = mb
  <1>2. extract_alloc(pack(size, pa, a, mb)) = 2 * Bit(pa) + Bit(a) + 4 * Bit(mb)
    BY PackLowBits DEF extract_alloc
  <1>3. extract_size(pack(size, pa, a, mb)) = size
    BY PackLowBits
  <1>. QED
    BY <1>2, <1>3, FlagBits DEF get_alloc, is_minblock

(* The size test mm_checkheap makes of a block on list i (check_minimatch *)
(* and check_freematch): the block fails when it is above the bucket's    *)
(* bound, where the bound is not 0, or not above the previous bucket's.   *)
PassesBucketTest(size, i) ==
  ~((size > BucketSize(i) /\ BucketSize(i) /= 0) \/ size <= BucketPrevSize(i))

(* The class get_free_list chooses from for sizes up to 32768. *)
InClass(size, j) ==
  /\ size <= free_limit[j + 1]
  /\ j > 0 => size > free_limit[j]

LEMMA BucketsEnum == Buckets = {0, 1, 2, 3, 4, 5, 6, 7, 8, 9, 10, 11, 12, 13}
  BY DEF Buckets, free_size

LEMMA ClassRangeEnum == 0 .. 12 = {0, 1, 2, 3, 4, 5, 6, 7, 8, 9, 10, 11, 12}
  OBVIOUS

LEMMA LimitIndexEnum == 1 .. 13 = {1, 2, 3, 4, 5, 6, 7, 8, 9, 10, 11, 12, 13}
  OBVIOUS

(* Every bucket bound is a natural number. *)
LEMMA LimitNat ==
  ASSUME NEW m \in 1 .. 13
  PROVE  free_limit[m] \in Nat
  <1>1. CASE m = 1
    BY <1>1 DEF free_limit
  <1>2. CASE m = 2
    BY <1>2 DEF free_limit
  <1>3. CASE m = 3
    BY <1>3 DEF free_limit
  <1>4. CASE m = 4
    BY <1>4 DEF free_limit
  <1>5. CASE m = 5
    BY <1>5 DEF free_limit
  <1>6. CASE m = 6
    BY <1>6 DEF free_limit
  <1>7. CASE m = 7
    BY <1>7 DEF free_limit
  <1>8. CASE m = 8
    BY <1>8 DEF free_limit
  <1>9. CASE m = 9
    BY <1>9 DEF free_limit
  <1>10. CASE m = 10
    BY <1>10 DEF free_limit
  <1>11. CASE m = 11
    BY <1>11 DEF free_limit
  <1>12. CASE m = 12
    BY <1>12 DEF free_limit
  <1>13. CASE m = 13
    BY <1>13 DEF free_limit
  <1>. QED
    BY <1>1, <1>2, <1>3, <1>4, <1>5, <1>6, <1>7, <1>8, <1>9, <1>10, <1>11, <1>12, <1>13, LimitIndexEnum

(* The bucket bounds free_16 .. free_32768 increase. *)
LEMMA LimitMono ==
  ASSUME NEW m \in 1 .. 13, NEW n \in 1 .. 13, m < n
  PROVE  free_limit[m] < free_limit[n]
  <1>1. CASE m = 1
    BY <1>1, LimitIndexEnum DEF free_limit
  <1>2. CASE m = 2
    BY <1>2, LimitIndexEnum DEF free_limit
  <1>3. CASE m = 3
    BY <1>3, LimitIndexEnum DEF free_limit
  <1>4. CASE m = 4
    BY <1>4, LimitIndexEnum DEF free_limit
  <1>5. CASE m = 5
    BY <1>5, LimitIndexEnum DEF free_limit
  <1>6. CASE m = 6
    BY <1>6, LimitIndexEnum DEF free_limit
  <1>7. CASE m = 7
    BY <1>7, LimitIndexEnum DEF free_limit
  <1>8. CASE m = 8
    BY <1>8, LimitIndexEnum DEF free_limit
  <1>9. CASE m = 9
    BY <1>9, LimitIndexEnum DEF free_limit
  <1>10. CASE m = 10
    BY <1>10, LimitIndexEnum DEF free_limit
  <1>11. CASE m = 11
    BY <1>11, LimitIndexEnum DEF free_limit
  <1>12. CASE m = 12
    BY <1>12, LimitIndexEnum DEF free_limit
  <1>13. CASE m = 13
    BY <1>13, LimitIndexEnum DEF free_limit
  <1>. QED
    BY <1>1, <1>2, <1>3, <1>4, <1>5, <1>6, <1>7, <1>8, <1>9, <1>10, <1>11, <1>12, <1>13, LimitIndexEnum

(* A later bucket's lower bound is at least an earlier one's upper bound. *)
LEMMA LimitStep ==
  ASSUME NEW j \in 0 .. 12, NEW k \in 0 .. 12, j < k
  PROVE  free_limit[j + 1] <= free_limit[k]
  <1>1. CASE j + 1 = k
    <2>1. free_limit[j + 1] = free_limit[k]
      BY <1>1, Zenon
    <2>2. free_limit[k] \in Nat
      BY LimitNat
    <2>. QED
      BY <2>1, <2>2
  <1>2. CASE j + 1 < k
    <2>1. j + 1 \in 1 .. 13 /\ k \in 1 .. 13
      OBVIOUS
    <2>2. free_limit[j + 1] < free_limit[k]
      BY <1>2, <2>1, LimitMono, Zenon
    <2>3. free_limit[k] \in Nat /\ free_limit[j + 1] \in Nat
      BY <2>1, LimitNat
    <2>. QED
      BY <2>2, <2>3
  <1>. QED
    BY <1>1, <1>2

(* No size is in two of the classes 0 .. 12. *)
LEMMA ClassDisjoint ==
  ASSUME NEW size \in Nat, 0 < size, size <= 32768,
         NEW j \in 0 .. 12, NEW k \in 0 .. 12, j < k,
         InClass(size, j), InClass(size, k)
  PROVE  FALSE
  <1>1. free_limit[j + 1] <= free_limit[k]
    BY LimitStep
  <1>2. free_limit[j + 1] \in Nat /\ free_limit[k] \in Nat
    BY LimitNat
  <1>. QED
    BY <1>1, <1>2 DEF InClass

(* Every size from 1 to 32768 is in exactly one of the classes 0 .. 12. *)
LEMMA ClassUnique ==
  ASSUME NEW size \in Nat, 0 < size, size <= 32768
  PROVE  /\ \E j \in 0 .. 12 : InClass(size, j)
         /\ \A j, k \in 0 .. 12 : InClass(size, j) /\ InClass(size, k) => j = k
  <1>1. \/ InClass(size, 0) \/ InClass(size, 1) \/ InClass(size, 2)
        \/ InClass(size, 3) \/ InClass(size, 4) \/ InClass(size, 5)
        \/ InClass(size, 6) \/ InClass(size, 7) \/ InClass(size, 8)
        \/ InClass(size, 9) \/ InClass(size, 10) \/ InClass(size, 11)
        \/ InClass(size, 12)
    BY DEF InClass, free_limit
  <1>. QED
    <2>1. \A j, k \in 0 .. 12 : InClass(size, j) /\ InClass(size, k) => j = k
      <3>. SUFFICES ASSUME NEW j \in 0 .. 12, NEW k \in 0 .. 12,
                           InClass(size, j), InClass(size, k)
                    PROVE  j = k
        OBVIOUS
      <3>1. ~(j < k) /\ ~(k < j)
        BY ClassDisjoint
      <3>. QED
        BY <3>1
    <2>. QED
      BY <1>1, <2>1, ClassRangeEnum

(* mm_checkheap finds every free block on the list add_free_block put it  *)
(* on, and on no other: for every positive size the checker's bounds of   *)
(* bucket b admit the size exactly when get_free_list(size) is b.  So a   *)
(* block the allocator files correctly never fails the check, and one    *)
(* filed in any other bucket always does.                                 *)
THEOREM BucketTestIsClass ==
  ASSUME NEW size \in Nat \ {0}, NEW b \in Buckets
  PROVE  PassesBucketTest(size, b) <=> b = get_free_list(size)
  <1>1. CASE size > 32768
    <2>1. get_free_list(size) = 13
      BY <1>1 DEF get_free_list
    <2>. QED
      BY <1>1, <2>1, BucketsEnum
         DEF PassesBucketTest, BucketSize, BucketPrevSize, free_limit, free_size
  <1>2. CASE size <= 32768
    <2>1. 0 < size /\ size <= 32768
      BY <1>2
    <2>2. get_free_list(size) \in 0 .. 12 /\ InClass(size, get_free_list(size))
      <3>1. \E j \in 0 .. 12 : InClass(size, j)
        BY <2>1, ClassUnique
      <3>2. get_free_list(size) = CHOOSE j \in 0 .. 12 : InClass(size, j)
        <4>1. ~(size > 32768)
          BY <1>2
        <4>2. get_free_list(size) = CHOOSE j \in 0 .. 12 :
                                      /\ size <= free_limit[j + 1]
                                      /\ j > 0 => size > free_limit[j]
          BY <4>1 DEF get_free_list
        <4>. QED
          BY <4>2 DEF InClass
      <3>. QED
        BY <3>1, <3>2, Zenon
    <2>3. \A j \in 0 .. 12 : PassesBucketTest(size, j) <=> InClass(size, j)
      BY <2>1, ClassRangeEnum
         DEF PassesBucketTest, InClass, BucketSize, BucketPrevSize, free_limit, free_size
    <2>4. ~PassesBucketTest(size, 13)
      BY <2>1 DEF PassesBucketTest, BucketSize, BucketPrevSize, free_limit, free_size
    <2>. QED
      BY <2>1, <2>2, <2>3, <2>4, ClassUnique, BucketsEnum
  <1>. QED
    BY <1>1, <1>2

-----------------------------------------------------------------------------
(* The adjusted size malloc asks find_fit for: round_up(size + wsize,     *)
(* dsize) in size_t arithmetic, as malloc_on of MMHeap computes it.       *)
AdjustedSize(size) == round_up((size + wsize) % SIZE_T_MOD, dsize)

(* size_t addition: a sum below the modulus is kept, one at most twice   *)
(* the modulus wraps once.                                               *)
LEMMA ModKeep ==
  ASSUME NEW a \in Nat, a < SIZE_T_MOD
  PROVE  a % SIZE_T_MOD = a
  BY SizeTModAssumption

LEMMA ModWrapOnce ==
  ASSUME NEW a \in Nat, SIZE_T_MOD <= a, a < 2 * SIZE_T_MOD
  PROVE  a % SIZE_T_MOD = a - SIZE_T_MOD
  <1>1. a - SIZE_T_MOD \in Nat /\ a - SIZE_T_MOD < SIZE_T_MOD
    BY SizeTModAssumption
  <1>2. (a - SIZE_T_MOD) % SIZE_T_MOD = a % SIZE_T_MOD
    BY SizeTModAssumption
  <1>. QED
    BY <1>1, <1>2, ModKeep

(* Below the wrap round_up is the ordinary rounding up to 16. *)
LEMMA RoundUpNoWrap ==
  ASSUME NEW x \in Nat, x + 15 < SIZE_T_MOD
  PROVE  /\ round_up(x, dsize) = 16 * ((x + 15) \div 16)
         /\ round_up(x, dsize) % 16 = 0
         /\ x <= round_up(x, dsize)
         /\ round_up(x, dsize) <= x + 15
         /\ round_up(x, dsize) \in Nat
  <1>1. (x + 15) % SIZE_T_MOD = x + 15
    BY ModKeep
  <1>2. 16 * ((x + 15) \div 16) \in x .. x + 15
    BY SMT
  <1>3. (16 * ((x + 15) \div 16)) % SIZE_T_MOD = 16 * ((x + 15) \div 16)
    <2>1. PICK y \in Nat : y = 16 * ((x + 15) \div 16)
      BY <1>2
    <2>2. y < SIZE_T_MOD
      BY <1>2, <2>1, SizeTModAssumption
    <2>. QED
      BY <2>1, <2>2, ModKeep
  <1>4. round_up(x, dsize) = 16 * ((x + 15) \div 16)
    BY <1>1, <1>3 DEF round_up, dsize
  <1>. QED
    BY <1>2, <1>4

(* malloc's adjusted size for every request that does not wrap, that is  *)
(* up to SIZE_MAX - 23: a multiple of 16 of at least min_block_size that *)
(* holds the request and its header word and wastes less than 16 bytes.  *)
THEOREM AdjustedSizeCovers ==
  ASSUME NEW size \in Nat, 0 < size, size + 24 <= SIZE_T_MOD
  PROVE  /\ AdjustedSize(size) \in Nat
         /\ AdjustedSize(size) % dsize = 0
         /\ min_block_size <= AdjustedSize(size)
         /\ size + wsize <= AdjustedSize(size)
         /\ AdjustedSize(size) < size + wsize + dsize
  <1>1. PICK x \in Nat : x = size + 8
    OBVIOUS
  <1>2. x + 15 < SIZE_T_MOD
    BY <1>1, SizeTModAssumption
  <1>3. (size + wsize) % SIZE_T_MOD = x
    <2>1. x % SIZE_T_MOD = x
      BY <1>2, ModKeep, SizeTModAssumption
    <2>. QED
      BY <1>1, <2>1 DEF wsize
  <1>4. /\ round_up(x, dsize) % 16 = 0
        /\ x <= round_up(x, dsize)
        /\ round_up(x, dsize) <= x + 15
        /\ round_up(x, dsize) \in Nat
    BY <1>2, RoundUpNoWrap
  <1>5. round_up(x, dsize) >= 16
    BY <1>1, <1>4
  <1>. QED
    BY <1>1, <1>3, <1>4, <1>5 DEF AdjustedSize, dsize, wsize, min_block_size

(* PayloadCoversRequest, the arithmetic: a block of at least the adjusted *)
(* size, whatever block malloc places the request in, offers the payload  *)
(* get_payload_size computes for an allocated block (the whole 16 bytes  *)
(* less nothing of a minimum block, else all but the header), and that   *)
(* payload holds the request.                                             *)
THEOREM PlacedPayloadCovers ==
  ASSUME NEW size \in Nat, 0 < size, size + 24 <= SIZE_T_MOD,
         NEW bsize \in Nat, AdjustedSize(size) <= bsize
  PROVE  (IF bsize = min_block_size THEN wsize ELSE bsize - wsize) >= size
  <1>1. size + wsize <= AdjustedSize(size) /\ AdjustedSize(size) \in Nat
    BY AdjustedSizeCovers
  <1>. QED
    BY <1>1 DEF min_block_size, wsize

(* The wrap of malloc's adjustment (mm.c:1524): for the 23 largest       *)
(* requests the addition of wsize, or the one of n - 1 inside round_up,   *)
(* wraps past SIZE_MAX, round_up gives 0 or 16, and malloc asks find_fit *)
(* for a block smaller than the request, for every width of size_t, 2^64  *)
(* included.                                                              *)
THEOREM HugeRequestWraps ==
  ASSUME NEW size \in Nat, SIZE_T_MOD - 24 < size, size < SIZE_T_MOD
  PROVE  /\ AdjustedSize(size) \in {0, dsize}
         /\ AdjustedSize(size) < size
  <1>1. CASE size + 8 < SIZE_T_MOD
    <2>1. (size + wsize) % SIZE_T_MOD = size + 8
      BY <1>1, ModKeep DEF wsize
    <2>2. (size + 8 + 15) % SIZE_T_MOD = size + 23 - SIZE_T_MOD
      BY <1>1, ModWrapOnce, SizeTModAssumption
    <2>3. (size + 23 - SIZE_T_MOD) \div 16 = 0
      BY <1>1, SizeTModAssumption
    <2>4. AdjustedSize(size) = 0
      BY <2>1, <2>2, <2>3, SizeTModAssumption DEF AdjustedSize, round_up, dsize
    <2>. QED
      BY <2>4, SizeTModAssumption DEF dsize
  <1>2. CASE SIZE_T_MOD <= size + 8
    <2>1. PICK x \in 0 .. 7 : x = size + 8 - SIZE_T_MOD
      BY <1>2, SizeTModAssumption
    <2>2. (size + wsize) % SIZE_T_MOD = x
      BY <1>2, <2>1, ModWrapOnce, SizeTModAssumption DEF wsize
    <2>3. round_up(x, dsize) = 16 * ((x + 15) \div 16)
      BY <2>1, RoundUpNoWrap, SizeTModAssumption
    <2>4. 16 * ((x + 15) \div 16) \in {0, 16}
      BY <2>1
    <2>. QED
      BY <2>2, <2>3, <2>4, SizeTModAssumption DEF AdjustedSize, dsize
  <1>. QED
    BY <1>1, <1>2, SizeTModAssumption

=============================================================================
