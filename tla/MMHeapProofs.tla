----------------------------- MODULE MMHeapProofs -----------------------------
(***************************************************************************)
(* Type correctness of the allocator for every heap size, chunk size,      *)
(* search window and size_t width: every call of mm.c maps a well-typed   *)
(* allocator state (StateB) to a well-typed one.  The argument is one      *)
(* closure lemma per C function, from the word accessors up to the entry  *)
(* points; recursive functions (the list walks) are never unfolded, since  *)
(* every value they feed back into the state is a word read, and a read    *)
(* of the heap array is an integer whatever its address.                   *)
(***************************************************************************)
EXTENDS MMHeap, WellFoundedInduction, TLAPS

(* Allocator states whose break lies in B.  Only mem_sbrk writes the      *)
(* break, so every lemma about the engine carries B through unchanged;   *)
(* with B = lo .. MAX_HEAP the shell lemmas show that no call lowers it.  *)
StateB(B, H) == [mem : [Words -> Int], fl : [Buckets -> Int], brk : B, hs : H]

BlkB(B, H) == [st : StateB(B, H), blk : Int]

BpB(B, H) == [st : StateB(B, H), bp : Int]

-----------------------------------------------------------------------------
(* A nonempty set of naturals has a least element (from the well-         *)
(* foundedness of < on Nat); it makes the CHOOSE of find_fit's first hit   *)
(* and of clear_free_mini's first predecessor denote a member of the set.  *)
LEMMA LeastExists ==
  ASSUME NEW T \in SUBSET Nat, T /= {}
  PROVE  \E x \in T : \A y \in T : x <= y
<1>1. \E x \in T : \A y \in T : ~(<<y, x>> \in OpToRel(<, Nat))
  BY NatLessThanWellFounded, WFMin
<1>2. PICK x \in T : \A y \in T : ~(<<y, x>> \in OpToRel(<, Nat))
  BY <1>1
<1>3. ASSUME NEW y \in T PROVE x <= y
  <2>1. y < x => <<y, x>> \in OpToRel(<, Nat)
    BY Zenon DEF OpToRel
  <2>2. ~(y < x)
    BY Zenon, <1>2, <2>1
  <2>. QED  BY <2>2
<1>. QED  BY <1>3

(* A read of the heap array is an integer, at any address. *)
LEMMA ReadInt ==
  ASSUME NEW m \in [Words -> Int], NEW a
  PROVE  Read(m, a) \in Int
BY DEF Read

(* Writing an integer word, anywhere, keeps the state well typed. *)
LEMMA SetWordT ==
  ASSUME NEW B, NEW H, NEW s \in StateB(B, H), NEW a, NEW v \in Int
  PROVE  set_word(s, a, v) \in StateB(B, H)
BY DEF set_word, Write, StateB

LEMMA SetHeadT ==
  ASSUME NEW B, NEW H, NEW s \in StateB(B, H), NEW i, NEW v \in Int
  PROVE  set_head(s, i, v) \in StateB(B, H)
BY DEF set_head, StateB

LEMMA LinkT ==
  ASSUME NEW B, NEW H, NEW s \in StateB(B, H), NEW b, NEW v \in Int
  PROVE  /\ set_next(s, b, v) \in StateB(B, H)
         /\ set_prev(s, b, v) \in StateB(B, H)
         /\ find_next_free(s, b) \in Int
         /\ find_prev_free(s, b) \in Int
         /\ get_size(s, b) \in Int
BY SetWordT, ReadInt DEF set_next, set_prev, find_next_free, find_prev_free,
   get_size, extract_size, StateB

(* The codec yields integers. *)
LEMMA PackInt ==
  ASSUME NEW size \in Int, NEW p, NEW a, NEW m
  PROVE  pack(size, p, a, m) \in Int
BY DEF pack, Bit

(* Every size maps to one of the 14 buckets. *)
LEMMA GetFreeListBucket ==
  ASSUME NEW size \in Int
  PROVE  get_free_list(size) \in Buckets
<1>1. CASE size > 32768
  BY <1>1 DEF get_free_list, Buckets, free_size
<1>2. CASE size <= 32768
  <2>1. \E i \in 0 .. 12 : /\ size <= free_limit[i + 1]
                           /\ i > 0 => size > free_limit[i]
    BY <1>2 DEF free_limit
  <2>. QED  BY <1>2, <2>1 DEF get_free_list, Buckets, free_size
<1>. QED  BY <1>1, <1>2

-----------------------------------------------------------------------------
(* The free-list directory: insert and remove keep the state well typed. *)
LEMMA InsertFreeT ==
  ASSUME NEW B, NEW H, NEW s \in StateB(B, H), NEW b \in Int
  PROVE  insert_free(s, b) \in StateB(B, H)
<1>. DEFINE i == get_free_list(get_size(s, b))
<1>1. i \in Buckets /\ s.fl[i] \in Int
  BY LinkT, GetFreeListBucket DEF StateB
<1>2. insert_free_mini(s, b, i) \in StateB(B, H)
  BY <1>1, LinkT, SetHeadT DEF insert_free_mini
<1>3. insert_free_basic(s, b, i) \in StateB(B, H)
  <2>1. CASE s.fl[i] = NULL
    BY <2>1, LinkT, SetHeadT DEF insert_free_basic
  <2>2. CASE s.fl[i] /= NULL
    <3>. DEFINE old_start == s.fl[i]
                old_end == find_prev_free(s, old_start)
                s1 == set_next(set_prev(s, b, old_end), old_end, b)
    <3>1. old_end \in Int /\ s1 \in StateB(B, H)
      BY <1>1, LinkT
    <3>2. set_head(set_prev(set_next(s1, b, old_start), old_start, b), i, b) \in StateB(B, H)
      BY <1>1, <3>1, LinkT, SetHeadT
    <3>. QED  BY <2>2, <3>2 DEF insert_free_basic
  <2>. QED  BY <2>1, <2>2
<1>. QED  BY <1>2, <1>3 DEF insert_free

LEMMA ClearFreeT ==
  ASSUME NEW B, NEW H, NEW s \in StateB(B, H), NEW b \in Int
  PROVE  clear_free(s, b) \in StateB(B, H)
<1>. DEFINE i == get_free_list(get_size(s, b))
<1>1. i \in Buckets /\ s.fl[i] \in Int
  BY LinkT, GetFreeListBucket DEF StateB
<1>2. clear_free_mini(s, b, i) \in StateB(B, H)
  <2>. DEFINE nb == find_next_free(s, b)
  <2>1. nb \in Int
    BY LinkT
  <2>2. /\ set_head(s, i, NULL) \in StateB(B, H)
        /\ set_head(s, i, nb) \in StateB(B, H)
        /\ \A a : set_next(s, a, nb) \in StateB(B, H)
    BY <2>1, LinkT, SetHeadT DEF NULL
  <2>. QED  BY <2>2 DEF clear_free_mini
<1>3. clear_free_basic(s, b, i) \in StateB(B, H)
  <2>. DEFINE pb == find_prev_free(s, b)
              nb == find_next_free(s, b)
              s1 == IF pb = nb
                    THEN IF pb = b THEN set_head(s, i, NULL)
                         ELSE set_head(set_next(set_prev(s, pb, pb), pb, pb), i, pb)
                    ELSE s
              s2 == set_prev(set_next(s1, pb, nb), nb, pb)
  <2>1. pb \in Int /\ nb \in Int
    BY LinkT
  <2>2. s1 \in StateB(B, H)
    <3>1. set_head(set_next(set_prev(s, pb, pb), pb, pb), i, pb) \in StateB(B, H)
      BY <2>1, LinkT, SetHeadT
    <3>2. set_head(s, i, NULL) \in StateB(B, H)
      BY SetHeadT DEF NULL
    <3>. QED  BY <3>1, <3>2
  <2>3. s2 \in StateB(B, H)
    BY <2>1, <2>2, LinkT
  <2>4. (IF b = s2.fl[i] THEN set_head(s2, i, nb) ELSE s2) \in StateB(B, H)
    BY <2>1, <2>3, SetHeadT
  <2>. QED  BY <2>4 DEF clear_free_basic
<1>. QED  BY <1>2, <1>3 DEF clear_free

-----------------------------------------------------------------------------
(* The placement engine returns an integer: a block, NULL or Diverge.  Its *)
(* loop is never unfolded: every block it can return is the start or a    *)
(* next link read from the heap.                                          *)
LEMMA FindFitBasicInt ==
  ASSUME NEW B, NEW H, NEW s \in StateB(B, H), NEW asize, NEW start \in Int
  PROVE  find_fit_basic(s, asize, start) \in Int
<1>0. start \in Int
  OBVIOUS
<1>1. \A a : find_next_free(s, a) \in Int
  BY LinkT
<1>2. \A k : (IF k = 0 THEN start ELSE find_next_free(s, k)) \in Int
  BY <1>1
<1>3. CASE start = NULL
  BY <1>3 DEF find_fit_basic
<1>4. CASE start /= NULL
  <2>. DEFINE size(b) == get_size(s, b)
              near(b) == asize <= size(b) /\ size(b) - asize <= 16
              init == asize <= size(start)
              node[k \in 0 .. MaxBlocks + 1] ==
                IF k = 0 THEN start ELSE find_next_free(s, node[k - 1])
              visit(k) == IF k = 0 THEN start ELSE find_next_free(s, node[k - 1])
              loop[k \in 0 .. MaxBlocks + 1] ==
                IF k = 0
                THEN [over |-> FALSE, hit |-> FALSE, at |-> 0, best |-> 0,
                      mindiff |-> IF init THEN size(start) - asize ELSE 0]
                ELSE LET st == loop[k - 1]
                         b == visit(k)
                         diff == (size(b) - asize) % SIZE_T_MOD
                     IN  CASE st.over \/ b = start -> [st EXCEPT !.over = TRUE]
                           [] near(b) -> [st EXCEPT !.over = TRUE, !.hit = TRUE, !.at = k]
                           [] k - 1 = SEARCH_TIME /\ init ->
                                [st EXCEPT !.over = TRUE, !.hit = TRUE, !.at = st.best]
                           [] k - 1 = SEARCH_TIME -> st
                           [] ~init \/ diff < st.mindiff ->
                                [st EXCEPT !.best = k, !.mindiff = diff]
                           [] OTHER -> st
              fin == loop[MaxBlocks + 1]
              result == CASE near(start) -> start
                          [] ~fin.over   -> Diverge
                          [] fin.hit     -> visit(fin.at)
                          [] init        -> visit(fin.best)
                          [] OTHER       -> NULL
  <2>1. \A k : visit(k) \in Int
    BY <1>1
  <2>2. result \in Int
    <3>1. visit(fin.at) \in Int /\ visit(fin.best) \in Int
      BY <2>1
    <3>2. result \in {start, Diverge, visit(fin.at), visit(fin.best), NULL}
      BY Zenon
    <3>3. Diverge \in Int /\ NULL \in Int
      BY DEF Diverge, NULL
    <3>. QED  BY Zenon, <1>0, <3>1, <3>2, <3>3
  <2>3. find_fit_basic(s, asize, start) = result
    BY <1>4 DEF find_fit_basic
  <2>. QED  BY <2>2, <2>3
<1>. QED  BY <1>3, <1>4

LEMMA FindFitInt ==
  ASSUME NEW B, NEW H, NEW s \in StateB(B, H), NEW asize \in Int
  PROVE  find_fit(s, asize) \in Int
<1>. DEFINE i0 == get_free_list(asize)
            r == [i \in i0 .. free_size - 1 |-> find_fit_basic(s, asize, s.fl[i])]
            hits == {i \in i0 .. free_size - 1 : r[i] /= NULL}
<1>1. i0 \in Buckets
  BY GetFreeListBucket
<1>2. \A i \in i0 .. free_size - 1 : r[i] \in Int
  BY <1>1, FindFitBasicInt DEF StateB, Buckets, free_size
<1>3. CASE hits /= {}
  <2>1. hits \in SUBSET Nat
    BY <1>1 DEF Buckets, free_size
  <2>2. \E x \in hits : \A y \in hits : x <= y
    BY <1>3, <2>1, LeastExists
  <2>3. (CHOOSE i \in hits : \A j \in hits : i <= j) \in hits
    BY <2>2
  <2>. QED  BY <1>2, <2>3 DEF find_fit
<1>4. CASE hits = {}
  BY <1>4 DEF find_fit, NULL
<1>. QED  BY <1>3, <1>4

-----------------------------------------------------------------------------
(* The transition engine. *)

LEMMA NeighbourInt ==
  ASSUME NEW B, NEW H, NEW s \in StateB(B, H), NEW b \in Int
  PROVE  /\ find_next(s, b) \in Int
         /\ find_prev(s, b) \in Int
<1>1. find_next(s, b) \in Int
  BY LinkT DEF find_next
<1>2. Read(s.mem, b - 8) \in Int
  BY ReadInt DEF StateB
<1>3. find_prev(s, b) \in Int
  BY <1>2 DEF find_prev, extract_size, NULL
<1>. QED  BY <1>1, <1>3

LEMMA Alloc2FreeT ==
  ASSUME NEW B, NEW H, NEW s \in StateB(B, H), NEW b \in Int, NEW size \in Int, NEW prev, NEW alloc
  PROVE  alloc2free(s, b, size, prev, alloc) \in StateB(B, H)
<1>. DEFINE w == pack(size, prev, alloc, is_minblock(Read(s.mem, b)))
            s1 == set_word(s, b, w)
            s2 == IF size /= min_block_size THEN set_word(s1, b + size - 8, w) ELSE s1
<1>1. w \in Int
  BY PackInt
<1>2. s2 \in StateB(B, H)
  BY <1>1, SetWordT
<1>. QED  BY <1>2, InsertFreeT DEF alloc2free

LEMMA SetHeaderT ==
  ASSUME NEW B, NEW H, NEW s \in StateB(B, H), NEW b, NEW size \in Int, NEW prev, NEW alloc
  PROVE  set_header(s, b, size, prev, alloc) \in StateB(B, H)
BY PackInt, SetWordT DEF set_header

LEMMA Free2AllocT ==
  ASSUME NEW B, NEW H, NEW s \in StateB(B, H), NEW b \in Int, NEW size \in Int, NEW prev, NEW alloc
  PROVE  free2alloc(s, b, size, prev, alloc) \in StateB(B, H)
BY ClearFreeT, SetHeaderT DEF free2alloc

LEMMA ModifyNextT ==
  ASSUME NEW B, NEW H, NEW s \in StateB(B, H), NEW n \in Int, NEW prev, NEW is_min
  PROVE  modify_next(s, n, prev, is_min) \in StateB(B, H)
<1>. DEFINE size == get_size(s, n)
            w == pack(size, prev, get_alloc(Read(s.mem, n), FALSE), is_min)
<1>1. size \in Int /\ w \in Int
  BY LinkT, PackInt
<1>2. set_word(s, n, w) \in StateB(B, H)
  BY <1>1, SetWordT
<1>. QED  BY <1>1, <1>2, SetWordT DEF modify_next

LEMMA ModifyNextOfT ==
  ASSUME NEW B, NEW H, NEW s \in StateB(B, H), NEW b \in Int, NEW prev, NEW is_min
  PROVE  modify_next_of(s, b, prev, is_min) \in StateB(B, H)
BY NeighbourInt, ModifyNextT DEF modify_next_of

LEMMA MergedT ==
  ASSUME NEW B, NEW H, NEW s \in StateB(B, H), NEW first \in Int, NEW size \in Int, NEW pa
  PROVE  merged(s, first, size, pa) \in BlkB(B, H)
BY Alloc2FreeT, ModifyNextOfT DEF merged, BlkB

LEMMA ClearIfT ==
  ASSUME NEW B, NEW H, NEW s \in StateB(B, H), NEW c, NEW b \in Int
  PROVE  clear_if(s, c, b) \in StateB(B, H)
BY ClearFreeT DEF clear_if

LEMMA CoalesceT ==
  ASSUME NEW B, NEW H, NEW s \in StateB(B, H), NEW b \in Int
  PROVE  coalesce_block(s, b) \in BlkB(B, H)
<1>. DEFINE hb == Read(s.mem, b)
            next == find_next(s, b)
            prev_free == ~get_alloc(hb, TRUE)
            next_free == ~get_alloc(Read(s.mem, next), FALSE)
            prev == IF is_minblock(hb) THEN b - dsize ELSE find_prev(s, b)
            first == IF prev_free THEN prev ELSE b
            size == (IF prev_free THEN get_size(s, prev) ELSE 0) + get_size(s, b)
                      + (IF next_free THEN get_size(s, next) ELSE 0)
            cleared == clear_if(clear_if(clear_free(s, b), prev_free, prev), next_free, next)
<1>1. next \in Int /\ prev \in Int /\ first \in Int
  <2>1. next \in Int /\ find_prev(s, b) \in Int
    BY NeighbourInt
  <2>2. b - dsize \in Int /\ prev \in Int
    <3>1. b - dsize \in Int
      BY DEF dsize
    <3>. QED  BY <2>1, <3>1, Zenon
  <2>. HIDE DEF next, prev
  <2>. QED  BY <2>1, <2>2, Zenon
<1>2. size \in Int
  <2>1. get_size(s, prev) \in Int /\ get_size(s, b) \in Int /\ get_size(s, next) \in Int
    BY <1>1, LinkT
  <2>. HIDE DEF prev, next, prev_free, next_free
  <2>0. 0 \in Int
    OBVIOUS
  <2>2. /\ (IF prev_free THEN get_size(s, prev) ELSE 0) \in Int
        /\ (IF next_free THEN get_size(s, next) ELSE 0) \in Int
    BY <2>0, <2>1, Zenon
  <2>. QED  BY <2>1, <2>2
<1>3. cleared \in StateB(B, H)
  <2>1. clear_free(s, b) \in StateB(B, H)
    BY ClearFreeT
  <2>2. clear_if(clear_free(s, b), prev_free, prev) \in StateB(B, H)
    BY <1>1, <2>1, ClearIfT
  <2>. HIDE DEF prev, next, prev_free, next_free
  <2>. QED  BY <1>1, <2>2, ClearIfT DEF cleared
<1>4. merged(cleared, first, size, get_alloc(Read(s.mem, first), TRUE)) \in BlkB(B, H)
  BY <1>1, <1>2, <1>3, MergedT
<1>5. [st |-> s, blk |-> b] \in BlkB(B, H)
  BY DEF BlkB
<1>. HIDE DEF hb, next, prev_free, next_free, prev, first, size, cleared
<1>6. coalesce_block(s, b) \in
        {merged(cleared, first, size, get_alloc(Read(s.mem, first), TRUE)),
         [st |-> s, blk |-> b]}
  BY Zenon DEF coalesce_block, hb, next, prev_free, next_free, prev, first, size, cleared
<1>. QED  BY Zenon, <1>4, <1>5, <1>6

(* mem_sbrk only raises the break, and only up to MAX_HEAP: a negative   *)
(* signed increment and one past MAX_HEAP both fail.                      *)
LEMMA MemSbrkT ==
  ASSUME NEW lo \in Int, NEW H, NEW s \in StateB(lo .. MAX_HEAP, H), NEW incr \in Int
  PROVE  mem_sbrk(s, incr) \in BpB(lo .. MAX_HEAP, H)
<1>. DEFINE signed == IF incr >= SIZE_T_MOD \div 2 THEN incr - SIZE_T_MOD ELSE incr
<1>1. signed \in Int
  BY SizeTModAssumption
<1>2. [st |-> s, bp |-> SBRK_FAIL] \in BpB(lo .. MAX_HEAP, H)
  BY DEF SBRK_FAIL, BpB
<1>3. ASSUME ~(signed < 0 \/ s.brk + signed > MAX_HEAP)
      PROVE  [st |-> [s EXCEPT !.brk = @ + signed], bp |-> s.brk] \in BpB(lo .. MAX_HEAP, H)
  <2>. HIDE DEF signed
  <2>1. s.brk \in lo .. MAX_HEAP
    BY DEF StateB
  <2>2. s.brk + signed \in lo .. MAX_HEAP
    BY <1>1, <1>3, <2>1, HeapAssumption
  <2>3. [s EXCEPT !.brk = @ + signed] \in StateB(lo .. MAX_HEAP, H)
    BY <2>2 DEF StateB
  <2>. QED  BY <2>1, <2>3 DEF BpB
<1>. QED  BY <1>2, <1>3 DEF mem_sbrk

LEMMA ExtendBlockT ==
  ASSUME NEW B, NEW H, NEW s \in StateB(B, H), NEW b \in Int, NEW sz \in Int
  PROVE  extend_block(s, b, sz) \in BlkB(B, H)
<1>. DEFINE s1 == alloc2free(s, b, sz, get_alloc(Read(s.mem, b), TRUE), FALSE)
<1>1. s1 \in StateB(B, H) /\ find_next(s1, b) \in Int
  BY Alloc2FreeT, NeighbourInt
<1>2. write_epilogue(s1, find_next(s1, b), FALSE) \in StateB(B, H)
  <2>1. pack(0, FALSE, TRUE, FALSE) \in Int
    BY DEF pack, Bit
  <2>. QED  BY <1>1, <2>1, SetWordT DEF write_epilogue
<1>. QED  BY <1>2, CoalesceT DEF extend_block

LEMMA ExtendHeapT ==
  ASSUME NEW lo \in Int, NEW H, NEW s \in StateB(lo .. MAX_HEAP, H), NEW size \in Int
  PROVE  extend_heap(s, size) \in BlkB(lo .. MAX_HEAP, H)
<1>. DEFINE sz == round_up(size, dsize)
            r == mem_sbrk(s, sz)
<1>1. sz \in Int
  BY SizeTModAssumption DEF round_up, dsize
<1>2. r \in BpB(lo .. MAX_HEAP, H)
  BY <1>1, MemSbrkT
<1>3. extend_block(r.st, r.bp - wsize, sz) \in BlkB(lo .. MAX_HEAP, H)
  BY <1>1, <1>2, ExtendBlockT DEF wsize, BpB
<1>4. [st |-> s, blk |-> NULL] \in BlkB(lo .. MAX_HEAP, H)
  BY DEF BlkB, NULL
<1>. QED  BY <1>3, <1>4 DEF extend_heap, extend_region

LEMMA SplitT ==
  ASSUME NEW B, NEW H, NEW s \in StateB(B, H), NEW b \in Int, NEW asize \in Int
  PROVE  split_block(s, b, asize) \in StateB(B, H)
<1>. DEFINE rest == (get_size(s, b) - asize) % SIZE_T_MOD
            s1 == free2alloc(s, b, asize, get_alloc(Read(s.mem, b), TRUE), TRUE)
<1>1. rest \in Int
  BY LinkT, SizeTModAssumption
<1>2. s1 \in StateB(B, H) /\ find_next(s1, b) \in Int
  BY Free2AllocT, NeighbourInt
<1>3. split_tail(s1, b, asize, rest) \in StateB(B, H)
  BY <1>1, <1>2, Alloc2FreeT, ModifyNextT, ModifyNextOfT DEF split_tail
<1>. QED  BY <1>3 DEF split_block

-----------------------------------------------------------------------------
(* The heap shell and the entry points. *)
LEMMA RecBpT ==
  ASSUME NEW B, NEW H, NEW t \in StateB(B, H), NEW v \in Int
  PROVE  [st |-> t, bp |-> v] \in BpB(B, H)
BY DEF BpB

LEMMA MmInitT ==
  ASSUME NEW lo \in Int, NEW s \in StateB(lo .. MAX_HEAP, Int)
  PROVE  mm_init(s) \in StateB(lo .. MAX_HEAP, Int)
<1>. DEFINE r == mem_sbrk(s, 2 * wsize)
            s1 == set_word(set_word(r.st, r.bp, pack(0, FALSE, TRUE, TRUE)),
                           r.bp + wsize, pack(0, TRUE, TRUE, TRUE))
            s2 == [s1 EXCEPT !.hs = r.bp + wsize, !.fl = [i \in Buckets |-> NULL]]
<1>1. r \in BpB(lo .. MAX_HEAP, Int)
  BY MemSbrkT DEF wsize
<1>2. pack(0, FALSE, TRUE, TRUE) \in Int /\ pack(0, TRUE, TRUE, TRUE) \in Int
  BY DEF pack, Bit
<1>3. s1 \in StateB(lo .. MAX_HEAP, Int)
  BY <1>1, <1>2, SetWordT DEF BpB
<1>4. s2 \in StateB(lo .. MAX_HEAP, Int)
  <2>1. r.bp + wsize \in Int
    BY <1>1 DEF BpB, wsize
  <2>2. [i \in Buckets |-> NULL] \in [Buckets -> Int]
    BY DEF NULL
  <2>. QED  BY <1>3, <2>1, <2>2 DEF StateB
<1>5. extend_heap(s2, CHUNKSIZE) \in BlkB(lo .. MAX_HEAP, Int)
  BY <1>4, ExtendHeapT, ChunkAssumption
<1>. QED  BY <1>5 DEF mm_init, BlkB

LEMMA MallocPlaceT ==
  ASSUME NEW B, NEW H, NEW e \in BlkB(B, H), NEW asize \in Int
  PROVE  malloc_place(e, asize) \in BpB(B, H)
<1>1. e.st \in StateB(B, H) /\ e.blk \in Int
  BY DEF BlkB
<1>2. free2alloc(e.st, e.blk, get_size(e.st, e.blk),
                 get_alloc(Read(e.st.mem, e.blk), TRUE), TRUE) \in StateB(B, H)
  BY <1>1, LinkT, Free2AllocT
<1>3. split_block(modify_next_of(free2alloc(e.st, e.blk, get_size(e.st, e.blk),
                                            get_alloc(Read(e.st.mem, e.blk), TRUE), TRUE),
                                 e.blk, TRUE, asize = min_block_size),
                  e.blk, asize) \in StateB(B, H)
  BY <1>1, <1>2, ModifyNextOfT, SplitT
<1>4. [st |-> e.st, bp |-> NULL] \in BpB(B, H) /\ e.blk + wsize \in Int
  BY <1>1, RecBpT DEF NULL, wsize
<1>. QED  BY <1>3, <1>4, RecBpT DEF malloc_place

LEMMA MallocFitT ==
  ASSUME NEW lo \in Int, NEW H, NEW s \in StateB(lo .. MAX_HEAP, H), NEW asize \in Int, NEW fit \in Int
  PROVE  malloc_fit(s, asize, fit) \in BpB(lo .. MAX_HEAP, H)
<1>1. max(asize, CHUNKSIZE) \in Int
  BY ChunkAssumption DEF max
<1>2. (IF fit = NULL THEN extend_heap(s, max(asize, CHUNKSIZE))
       ELSE [st |-> s, blk |-> fit]) \in BlkB(lo .. MAX_HEAP, H)
  BY <1>1, ExtendHeapT DEF BlkB
<1>3. [st |-> s, bp |-> Diverge] \in BpB(lo .. MAX_HEAP, H)
  BY RecBpT DEF Diverge
<1>. QED  BY <1>2, <1>3, MallocPlaceT DEF malloc_fit

LEMMA MallocT ==
  ASSUME NEW lo \in Int, NEW s \in StateB(lo .. MAX_HEAP, Int), NEW size \in Int
  PROVE  malloc(s, size) \in BpB(lo .. MAX_HEAP, Int)
<1>. DEFINE s0 == IF s.hs = NULL THEN mm_init(s) ELSE s
            asize == round_up((size + wsize) % SIZE_T_MOD, dsize)
<1>1. s0 \in StateB(lo .. MAX_HEAP, Int)
  BY MmInitT
<1>2. asize \in Int
  BY SizeTModAssumption DEF round_up, wsize, dsize
<1>3. malloc_fit(s0, asize, find_fit(s0, asize)) \in BpB(lo .. MAX_HEAP, Int)
  BY <1>1, <1>2, FindFitInt, MallocFitT
<1>4. [st |-> s0, bp |-> NULL] \in BpB(lo .. MAX_HEAP, Int)
  BY <1>1, RecBpT DEF NULL
<1>. QED  BY <1>3, <1>4 DEF malloc, malloc_on

(* free never calls mem_sbrk: it keeps the break in whatever set it is in. *)
LEMMA FreeT ==
  ASSUME NEW B, NEW H, NEW s \in StateB(B, H), NEW bp \in Int
  PROVE  free(s, bp) \in StateB(B, H)
<1>. DEFINE b == bp - wsize
            size == get_size(s, b)
<1>1. b \in Int /\ size \in Int
  BY LinkT DEF wsize
<1>2. modify_next_of(alloc2free(s, b, size, get_alloc(Read(s.mem, b), TRUE), FALSE),
                     b, FALSE, size = min_block_size) \in StateB(B, H)
  BY <1>1, Alloc2FreeT, ModifyNextOfT
<1>. QED  BY <1>1, <1>2, CoalesceT DEF free, BlkB

LEMMA ReallocT ==
  ASSUME NEW lo \in Int, NEW s \in StateB(lo .. MAX_HEAP, Int), NEW ptr \in Int, NEW size \in Int
  PROVE  realloc(s, ptr, size) \in BpB(lo .. MAX_HEAP, Int)
<1>1. malloc(s, size) \in BpB(lo .. MAX_HEAP, Int)
  BY MallocT
<1>2. realloc_done(malloc(s, size), ptr) \in BpB(lo .. MAX_HEAP, Int)
  <2>1. malloc(s, size).st \in StateB(lo .. MAX_HEAP, Int) /\ malloc(s, size).bp \in Int
    BY <1>1 DEF BpB
  <2>2. free(malloc(s, size).st, ptr) \in StateB(lo .. MAX_HEAP, Int)
    BY <2>1, FreeT
  <2>. QED  BY <1>1, <2>1, <2>2, RecBpT DEF realloc_done
<1>3. [st |-> free(s, ptr), bp |-> NULL] \in BpB(lo .. MAX_HEAP, Int)
  BY FreeT, RecBpT DEF NULL
<1>. QED  BY <1>2, <1>3 DEF realloc

LEMMA CallocT ==
  ASSUME NEW lo \in Int, NEW s \in StateB(lo .. MAX_HEAP, Int), NEW elements \in Int, NEW size \in Int
  PROVE  calloc(s, elements, size) \in BpB(lo .. MAX_HEAP, Int)
<1>1. (elements * size) % SIZE_T_MOD \in Int
  BY SizeTModAssumption
<1>2. malloc(s, (elements * size) % SIZE_T_MOD) \in BpB(lo .. MAX_HEAP, Int)
  BY <1>1, MallocT
<1>3. [st |-> s, bp |-> NULL] \in BpB(lo .. MAX_HEAP, Int)
  BY RecBpT DEF NULL
<1>. QED  BY <1>2, <1>3 DEF calloc

-----------------------------------------------------------------------------
(* A step that installs a state whose break is in B. *)
LEMMA ApplyT ==
  ASSUME NEW B, NEW H, NEW t \in StateB(B, H), Apply(t)
  PROVE  S' \in StateB(B, H)
BY DEF Apply, S, StateB

(* The client's record stays a map from payload addresses to sizes. *)
LEMMA HoldT ==
  ASSUME NEW h \in [Payloads -> Nat], NEW bp, NEW n \in Nat
  PROVE  Hold(h, bp, n) \in [Payloads -> Nat]
BY DEF Hold

(* A call's return keeps both the allocator and the client well typed. *)
LEMMA ReturnT ==
  ASSUME NEW B, NEW H, NEW r \in BpB(B, H), NEW h \in [Payloads -> Nat], NEW n \in Nat, Return(r, h, n)
  PROVE  S' \in StateB(B, H) /\ held' \in [Payloads -> Nat]
<1>1. r.st \in StateB(B, H)
  BY DEF BpB
<1>. QED  BY <1>1, ApplyT, HoldT DEF Return

(* A state whose break is at least lo, for lo in 0 .. MAX_HEAP, is well   *)
(* typed; the current state has its break in mem_brk .. MAX_HEAP and, for *)
(* free, in {mem_brk}.                                                    *)
LEMMA StateBT ==
  ASSUME NEW lo \in 0 .. MAX_HEAP, NEW t \in StateB(lo .. MAX_HEAP, Int)
  PROVE  t \in StateT /\ t.brk \in lo .. MAX_HEAP
BY DEF StateB, StateT

LEMMA CurrentB ==
  ASSUME TypeOK
  PROVE  /\ mem_brk \in 0 .. MAX_HEAP
         /\ S \in StateB(mem_brk .. MAX_HEAP, Int)
         /\ S \in StateB({mem_brk}, Int)
BY DEF TypeOK, S, StateT, StateB

LEMMA InitTypeOK == Init => TypeOK
BY HeapAssumption DEF Init, TypeOK, S, StateT, NULL

(* A step keeps the state well typed and does not lower the break. *)
Grows == TypeOK' /\ mem_brk' \in mem_brk .. MAX_HEAP

LEMMA NextGrows == TypeOK /\ [Next]_vars => Grows
<1> SUFFICES ASSUME TypeOK, [Next]_vars PROVE Grows
  OBVIOUS
<1>. DEFINE lo == mem_brk
            Up == lo .. MAX_HEAP
<1>1. /\ lo \in 0 .. MAX_HEAP /\ S \in StateB(Up, Int)
      /\ held \in [Payloads -> Nat]
  BY CurrentB DEF TypeOK
<1>2. \A p \in Held \cup {NULL} : p \in Int
  BY DEF Held, Payloads, NULL
<1>3. \A size \in MallocSizes : size \in Nat
  BY RequestAssumption, SizeTModAssumption
(* Every call installs a state with its break in Up. *)
<1>4. ASSUME S' \in StateB(Up, Int), held' \in [Payloads -> Nat]
      PROVE  Grows
  <2>1. S' \in StateT /\ S'.brk \in Up
    BY <1>1, <1>4, StateBT
  <2>. QED  BY <1>4, <2>1 DEF Grows, TypeOK, S
<1>5. CASE MmInit
  BY <1>1, <1>4, <1>5, MmInitT, ApplyT DEF MmInit
<1>6. ASSUME NEW size \in MallocSizes, Malloc(size) PROVE Grows
  <2>1. malloc(S, size) \in BpB(Up, Int)
    BY <1>1, <1>3, MallocT
  <2>. QED  BY <1>1, <1>3, <1>4, <1>6, <2>1, ReturnT DEF Malloc
<1>7. ASSUME NEW p \in Held, Free(p) PROVE Grows
  <2>1. free(S, p) \in StateB(Up, Int)
    BY <1>1, <1>2, FreeT
  <2>. QED  BY <1>1, <1>4, <1>7, <2>1, ApplyT DEF Free
<1>8. ASSUME NEW p \in Held \cup {NULL}, NEW size \in MallocSizes, Realloc(p, size)
      PROVE Grows
  <2>1. realloc(S, p, size) \in BpB(Up, Int)
    BY <1>1, <1>2, <1>3, ReallocT
  <2>2. (IF p = NULL \/ (realloc(S, p, size).bp = NULL /\ size /= 0) THEN held
         ELSE [held EXCEPT ![p] = 0]) \in [Payloads -> Nat]
    BY <1>1
  <2>. QED  BY <1>3, <1>4, <1>8, <2>1, <2>2, ReturnT DEF Realloc, ReallocReturn
<1>9. ASSUME NEW a \in CallocArgs, Calloc(a[1], a[2]) PROVE Grows
  <2>1. a[1] \in Nat /\ a[2] \in Nat
    BY RequestAssumption, SizeTModAssumption
  <2>2. calloc(S, a[1], a[2]) \in BpB(Up, Int) /\ a[1] * a[2] \in Nat
    BY <1>1, <2>1, CallocT, SizeTModAssumption
  <2>. QED  BY <1>1, <1>4, <1>9, <2>2, ReturnT DEF Calloc
<1>10. CASE UNCHANGED vars
  BY <1>1, <1>10 DEF vars, TypeOK, S, Grows
<1>. QED  BY <1>5, <1>6, <1>7, <1>8, <1>9, <1>10 DEF Next

(* A free step leaves the break where it was: free never calls mem_sbrk. *)
LEMMA FreeKeepsBreak ==
  ASSUME TypeOK, NEW p \in Held, Free(p)
  PROVE  mem_brk' = mem_brk
<1>1. S \in StateB({mem_brk}, Int) /\ p \in Int
  BY CurrentB DEF Held, Payloads
<1>2. S' \in StateB({mem_brk}, Int)
  BY <1>1, FreeT, ApplyT DEF Free
<1>. QED  BY <1>2 DEF StateB, S

(* Type correctness: in every reachable state the heap words, the bucket *)
(* heads and heap_start are integers, mem_brk stays within memlib's      *)
(* MAX_HEAP (mem_sbrk's bound check), and the client's record maps       *)
(* payload addresses to sizes; for every value of the constants.          *)
THEOREM TypeCorrect == Spec => []TypeOK
<1>1. TypeOK /\ [Next]_vars => TypeOK'
  BY NextGrows DEF Grows
<1>. QED  BY InitTypeOK, <1>1, PTL DEF Spec

(* The break is the abstract allocator's top (ImplementsAlloc): no call   *)
(* of malloc, realloc, calloc or mm_init lowers it, since mem_sbrk fails  *)
(* on a negative signed increment, and free, which never calls mem_sbrk,  *)
(* leaves it where it was; for every value of the constants.              *)
THEOREM BreakNeverShrinks ==
  Spec => [][/\ mem_brk' \in mem_brk .. MAX_HEAP
             /\ \A p \in Held : Free(p) => mem_brk' = mem_brk]_vars
<1>1. TypeOK /\ [Next]_vars => TypeOK'
  BY NextGrows DEF Grows
<1>2. TypeOK /\ [Next]_vars =>
        [/\ mem_brk' \in mem_brk .. MAX_HEAP
         /\ \A p \in Held : Free(p) => mem_brk' = mem_brk]_vars
  BY NextGrows, FreeKeepsBreak DEF Grows
<1>. QED  BY InitTypeOK, <1>1, <1>2, PTL DEF Spec

=============================================================================
