-------------------------------- MODULE MMHeap --------------------------------
(***************************************************************************)
(* The allocator of mm.c: the transition engine (alloc2free, free2alloc,   *)
(* modify_next, coalesce_block, split_block), the heap shell (mem_sbrk of  *)
(* memlib, extend_heap, mm_init) and the public entry points malloc, free, *)
(* realloc and calloc, driven by a client that holds the payload pointers *)
(* it was given.  Each C function is an operator from an allocator state   *)
(* record (see MMFreeList) to the next; each entry point is one atomic     *)
(* action, since the allocator is single-threaded and never suspends.      *)
(***************************************************************************)
EXTENDS MMFreeList

CONSTANTS
  CHUNKSIZE,     \* chunksize: the least heap extension
  MallocSizes,   \* request sizes the client passes to malloc and realloc
  CallocArgs     \* <<elements, size>> pairs the client passes to calloc

ASSUME ChunkAssumption == CHUNKSIZE \in Nat /\ CHUNKSIZE % 16 = 0 /\ CHUNKSIZE > 16
ASSUME RequestAssumption ==
  /\ \A n \in MallocSizes : n \in 0 .. SIZE_T_MOD - 1
  /\ \A a \in CallocArgs : /\ a[1] \in 0 .. SIZE_T_MOD - 1
                           /\ a[2] \in 0 .. SIZE_T_MOD - 1

VARIABLES
  mem,               \* the heap words
  free_list_start,   \* the 14 bucket heads
  mem_brk,           \* memlib's break
  heap_start,        \* pointer to the first block, NULL before mm_init
  held               \* held[p]: bytes the client asked for at payload p, 0 if not held

vars == <<mem, free_list_start, mem_brk, heap_start, held>>

(* Payload addresses a block can have: blocks start at 8 + 16k. *)
Payloads == {16 * (k + 1) : k \in 0 .. MaxBlocks - 1}

StateT == [mem : [Words -> Int], fl : [Buckets -> Int], brk : 0 .. MAX_HEAP, hs : Int]

S == [mem |-> mem, fl |-> free_list_start, brk |-> mem_brk, hs |-> heap_start]

Apply(t) ==
  /\ mem' = t.mem
  /\ free_list_start' = t.fl
  /\ mem_brk' = t.brk
  /\ heap_start' = t.hs

-----------------------------------------------------------------------------
(* memlib's mem_sbrk: fails with (void * )-1 when the signed increment is *)
(* negative or would pass MAX_HEAP.                                       *)
SBRK_FAIL == -1

(* Mutant: the MAX_HEAP bound of memlib dropped. *)
mem_sbrk_unbounded(s, incr) ==
  LET signed == IF incr >= SIZE_T_MOD \div 2 THEN incr - SIZE_T_MOD ELSE incr
  IN  IF signed < 0 THEN [st |-> s, bp |-> SBRK_FAIL]
      ELSE [st |-> [s EXCEPT !.brk = @ + signed], bp |-> s.brk]

mem_sbrk(s, incr) ==
  LET signed == IF incr >= SIZE_T_MOD \div 2 THEN incr - SIZE_T_MOD ELSE incr
  IN  IF signed < 0 \/ s.brk + signed > MAX_HEAP
      THEN [st |-> s, bp |-> SBRK_FAIL]
      ELSE [st |-> [s EXCEPT !.brk = @ + signed], bp |-> s.brk]

find_next(s, b) == b + get_size(s, b)

write_epilogue(s, b, prev) == set_word(s, b, pack(0, prev, TRUE, FALSE))

(* Header (and footer unless minimum size) of a free block, then insert; *)
(* the prev-is-min bit is kept from the word already at b.               *)
alloc2free(s, b, size, prev, alloc) ==
  LET w == pack(size, prev, alloc, is_minblock(Read(s.mem, b)))
      s1 == set_word(s, b, w)
      s2 == IF size /= min_block_size THEN set_word(s1, b + size - 8, w) ELSE s1
  IN  insert_free(s2, b)

(* block->header = pack(size, prev, alloc, is_minblock(block)) *)
set_header(s, b, size, prev, alloc) ==
  set_word(s, b, pack(size, prev, alloc, is_minblock(Read(s.mem, b))))

(* Mutant: the block is marked allocated but left on its free list. *)
free2alloc_noclear(s, b, size, prev, alloc) == set_header(s, b, size, prev, alloc)

(* Remove from its bucket, then rewrite the header keeping prev-is-min. *)
free2alloc(s, b, size, prev, alloc) ==
  set_header(clear_free(s, b), b, size, prev, alloc)

(* Rewrite bits 1-2 of block n (and its footer if n is free, not minimum). *)
(* Mutant: the footer of a free next block is not rewritten. *)
modify_next_nofooter(s, n, prev, is_min) ==
  set_word(s, n, pack(get_size(s, n), prev, get_alloc(Read(s.mem, n), FALSE), is_min))

(* Mutant: the footer is written whatever the next block's state. *)
modify_next_anyfooter(s, n, prev, is_min) ==
  LET size == get_size(s, n)
      w == pack(size, prev, get_alloc(Read(s.mem, n), FALSE), is_min)
      s1 == set_word(s, n, w)
  IN  IF size /= 0 /\ size /= min_block_size THEN set_word(s1, n + size - 8, w) ELSE s1

modify_next(s, n, prev, is_min) ==
  LET size == get_size(s, n)
      alloc == get_alloc(Read(s.mem, n), FALSE)
      w == pack(size, prev, alloc, is_min)
      s1 == set_word(s, n, w)
  IN  IF size /= 0 /\ ~alloc /\ size /= min_block_size
      THEN set_word(s1, n + size - 8, w) ELSE s1

(* The previous block from its footer; NULL on the prologue. *)
find_prev(s, b) ==
  LET f == Read(s.mem, b - 8)
  IN  IF extract_size(f) = 0 THEN NULL ELSE b - extract_size(f)

(* modify_next(find_next(block), prev, is_min) *)
modify_next_of(s, b, prev, is_min) == modify_next(s, find_next(s, b), prev, is_min)

(* The common tail of the three merging cases of coalesce_block. *)
merged(s, first, size, prev_alloc) ==
  [st |-> modify_next_of(alloc2free(s, first, size, prev_alloc, FALSE), first,
                         FALSE, size = min_block_size),
   blk |-> first]

(* clear_free(block) when the code's branch takes it. *)
clear_if(s, c, b) == IF c THEN clear_free(s, b) ELSE s

(* Mutant: a free next block is never merged. *)
coalesce_block_nonext(s, b) ==
  LET hb == Read(s.mem, b)
      prev == IF is_minblock(hb) THEN b - dsize ELSE find_prev(s, b)
  IN  IF ~get_alloc(hb, TRUE)
      THEN merged(clear_free(clear_free(s, b), prev), prev,
                  get_size(s, prev) + get_size(s, b), get_alloc(Read(s.mem, prev), TRUE))
      ELSE [st |-> s, blk |-> b]

(* Mutant: the three-way merge leaves the next block on its list. *)
coalesce_block_keepnext(s, b) ==
  LET hb == Read(s.mem, b)
      next == find_next(s, b)
      prev_free == ~get_alloc(hb, TRUE)
      next_free == ~get_alloc(Read(s.mem, next), FALSE)
      prev == IF is_minblock(hb) THEN b - dsize ELSE find_prev(s, b)
      first == IF prev_free THEN prev ELSE b
      size == (IF prev_free THEN get_size(s, prev) ELSE 0) + get_size(s, b)
                + (IF next_free THEN get_size(s, next) ELSE 0)
  IN  IF ~prev_free /\ ~next_free THEN [st |-> s, blk |-> b]
      ELSE merged(clear_if(clear_if(clear_free(s, b), prev_free, prev),
                           next_free /\ ~prev_free, next),
                  first, size, get_alloc(Read(s.mem, first), TRUE))

(* The four cases share their shape: clear block, then prev if it is free, *)
(* then next if it is free; the merged block starts at prev or at block,  *)
(* and takes the prev-alloc bit of that first block, read beforehand.     *)
coalesce_block(s, b) ==
  LET hb == Read(s.mem, b)
      next == find_next(s, b)
      prev_free == ~get_alloc(hb, TRUE)
      next_free == ~get_alloc(Read(s.mem, next), FALSE)
      prev == IF is_minblock(hb) THEN b - dsize ELSE find_prev(s, b)
      first == IF prev_free THEN prev ELSE b
      size == (IF prev_free THEN get_size(s, prev) ELSE 0) + get_size(s, b)
                + (IF next_free THEN get_size(s, next) ELSE 0)
  IN  IF ~prev_free /\ ~next_free THEN [st |-> s, blk |-> b]
      ELSE merged(clear_if(clear_if(clear_free(s, b), prev_free, prev), next_free, next),
                  first, size, get_alloc(Read(s.mem, first), TRUE))

(* extend_heap from the new region onwards: the old epilogue b becomes the *)
(* header of a free block of sz bytes, a new epilogue follows, and the    *)
(* block is coalesced.                                                     *)
(* Mutant: no new epilogue after the extension. *)
extend_block_noepilogue(s, b, sz) ==
  coalesce_block(alloc2free(s, b, sz, get_alloc(Read(s.mem, b), TRUE), FALSE), b)

extend_block(s, b, sz) ==
  LET s1 == alloc2free(s, b, sz, get_alloc(Read(s.mem, b), TRUE), FALSE)
  IN  coalesce_block(write_epilogue(s1, find_next(s1, b), FALSE), b)

extend_region(s, r, sz) ==
  IF r.bp = SBRK_FAIL THEN [st |-> s, blk |-> NULL]
  ELSE extend_block(r.st, r.bp - wsize, sz)

extend_heap(s, size) ==
  extend_region(s, mem_sbrk(s, round_up(size, dsize)), round_up(size, dsize))

(* The tail split off block b, of rest bytes, after b shrank to asize. *)
split_tail(s, b, asize, rest) ==
  LET bn == find_next(s, b)
  IN  modify_next_of(modify_next(alloc2free(s, bn, rest, TRUE, FALSE), bn, TRUE,
                                 asize = min_block_size),
                     bn, FALSE, rest = min_block_size)

(* Carve a free tail off an allocated block when at least 16 bytes spare. *)
split_block(s, b, asize) ==
  LET rest == (get_size(s, b) - asize) % SIZE_T_MOD
  IN  IF rest >= min_block_size
      THEN split_tail(free2alloc(s, b, asize, get_alloc(Read(s.mem, b), TRUE), TRUE),
                      b, asize, rest)
      ELSE s

(* mm_init: prologue and epilogue words, empty buckets, one chunk.  Its *)
(* boolean result is ignored by every caller and is not modelled.       *)
mm_init(s) ==
  LET r == mem_sbrk(s, 2 * wsize)
      s1 == set_word(set_word(r.st, r.bp, pack(0, FALSE, TRUE, TRUE)),
                     r.bp + wsize, pack(0, TRUE, TRUE, TRUE))
  IN  IF r.bp = SBRK_FAIL THEN s
      ELSE extend_heap([s1 EXCEPT !.hs = r.bp + wsize,
                                  !.fl = [i \in Buckets |-> NULL]], CHUNKSIZE).st

-----------------------------------------------------------------------------
(* The block e.blk of a found or extended heap e is marked allocated, the *)
(* next block told, and the block split; bp is its payload.               *)
(* Mutant: the fitted block is handed out without being marked allocated. *)
malloc_place_nomark(e, asize) ==
  IF e.blk = NULL THEN [st |-> e.st, bp |-> NULL]
  ELSE [st |-> e.st, bp |-> e.blk + wsize]

malloc_place(e, asize) ==
  LET s == e.st
      b == e.blk
  IN  IF b = NULL THEN [st |-> s, bp |-> NULL]
      ELSE [st |-> split_block(modify_next_of(free2alloc(s, b, get_size(s, b),
                                                         get_alloc(Read(s.mem, b), TRUE), TRUE),
                                              b, TRUE, asize = min_block_size),
                               b, asize),
            bp |-> b + wsize]

(* The search result fit: Diverge if find_fit loops, else place the block *)
(* found, or one the heap is extended by.                                 *)
malloc_fit(s, asize, fit) ==
  IF fit = Diverge THEN [st |-> s, bp |-> Diverge]
  ELSE malloc_place(IF fit = NULL THEN extend_heap(s, max(asize, CHUNKSIZE))
                    ELSE [st |-> s, blk |-> fit], asize)

(* malloc once the heap is initialised; bp is the payload pointer, NULL,  *)
(* or Diverge if find_fit loops.                                          *)
malloc_on(s, size) ==
  LET asize == round_up((size + wsize) % SIZE_T_MOD, dsize)
  IN  IF size = 0 THEN [st |-> s, bp |-> NULL]
      ELSE malloc_fit(s, asize, find_fit(s, asize))

(* Mutant: the lazy mm_init call dropped. *)
malloc_noinit(s, size) == malloc_on(s, size)

malloc(s, size) == malloc_on(IF s.hs = NULL THEN mm_init(s) ELSE s, size)

free(s, bp) ==
  LET b == bp - wsize
      size == get_size(s, b)
  IN  IF bp = NULL THEN s
      ELSE coalesce_block(modify_next_of(alloc2free(s, b, size, get_alloc(Read(s.mem, b), TRUE),
                                                    FALSE),
                                         b, FALSE, size = min_block_size), b).st

(* Mutant: realloc frees the old block even when malloc failed. *)
realloc_done_freefail(r, ptr) ==
  IF ptr = NULL \/ r.bp = Diverge THEN r
  ELSE [st |-> free(r.st, ptr), bp |-> r.bp]

(* realloc after its call of malloc returned r: the old block is freed *)
(* unless ptr was NULL or malloc failed.                                *)
realloc_done(r, ptr) ==
  IF ptr = NULL \/ r.bp \in {NULL, Diverge} THEN r
  ELSE [st |-> free(r.st, ptr), bp |-> r.bp]

(* realloc: the copy of the payload is not modelled (payload bytes are not). *)
realloc(s, ptr, size) ==
  IF size = 0 THEN [st |-> free(s, ptr), bp |-> NULL]
  ELSE realloc_done(malloc(s, size), ptr)

(* Mutant: calloc without its overflow check. *)
calloc_nocheck(s, elements, size) ==
  IF elements = 0 THEN [st |-> s, bp |-> NULL]
  ELSE malloc(s, (elements * size) % SIZE_T_MOD)

(* calloc: overflow check on elements * size; the zero fill is not modelled. *)
calloc(s, elements, size) ==
  LET asize == (elements * size) % SIZE_T_MOD
  IN  IF elements = 0 \/ asize \div elements /= size
      THEN [st |-> s, bp |-> NULL]
      ELSE malloc(s, asize)

-----------------------------------------------------------------------------
Init ==
  /\ mem = [w \in Words |-> 0]
  /\ free_list_start = [i \in Buckets |-> NULL]
  /\ mem_brk = 0
  /\ heap_start = NULL
  /\ held = [p \in Payloads |-> 0]

(* The client now holds the pointer a call returned, for n bytes. *)
Hold(h, bp, n) == IF bp = NULL THEN h ELSE [h EXCEPT ![bp] = n]

Held == {p \in Payloads : held[p] > 0}

(* A call that returned r: it returns (r.bp is not Diverge), its state is *)
(* the allocator's, and the client holds r.bp for n bytes on top of h.    *)
Return(r, h, n) ==
  /\ r.bp /= Diverge
  /\ Apply(r.st)
  /\ held' = Hold(h, r.bp, n)

MmInit ==
  /\ heap_start = NULL
  /\ Apply(mm_init(S))
  /\ UNCHANGED held

Malloc(size) == Return(malloc(S, size), held, size)

Free(p) ==
  /\ Apply(free(S, p))
  /\ held' = [held EXCEPT ![p] = 0]

(* The client drops p once realloc freed it: for size 0, or on success. *)
ReallocReturn(r, p, size) ==
  Return(r, IF p = NULL \/ (r.bp = NULL /\ size /= 0) THEN held
            ELSE [held EXCEPT ![p] = 0], size)

Realloc(p, size) == ReallocReturn(realloc(S, p, size), p, size)

(* The client asked calloc for n * size bytes: the product itself, not *)
(* the size_t product calloc computes.                                 *)
Calloc(n, size) == Return(calloc(S, n, size), held, n * size)

Next ==
  \/ MmInit
  \/ \E size \in MallocSizes : Malloc(size)
  \/ \E p \in Held : Free(p)
  \/ \E p \in Held \cup {NULL}, size \in MallocSizes : Realloc(p, size)
  \/ \E a \in CallocArgs : Calloc(a[1], a[2])

Spec == Init /\ [][Next]_vars

-----------------------------------------------------------------------------
(* The implicit list: node k of the walk from heap_start by block sizes. *)
HeapNode[k \in 0 .. MaxBlocks + 1] ==
  IF k = 0 THEN heap_start ELSE find_next(S, HeapNode[k - 1])

SizeZeroAt == {k \in 0 .. MaxBlocks + 1 : get_size(S, HeapNode[k]) = 0}

(* The walk meets a size-0 word; Epi is the index of the first. *)
WalkEnds == SizeZeroAt /= {}

Epi == CHOOSE k \in SizeZeroAt : \A j \in SizeZeroAt : k <= j

HeapBlocks == {HeapNode[k] : k \in 0 .. Epi - 1}

Header(b) == Read(mem, b)

IsFree(b) == ~get_alloc(Header(b), FALSE)

(* Walk of bucket i by next links from its head. *)
ListNode[i \in Buckets, k \in 0 .. MaxBlocks] ==
  IF k = 0 THEN free_list_start[i] ELSE find_next_free(S, ListNode[i, k - 1])

(* n closes the list: bucket 0 ends at a node whose next is itself, the *)
(* others come back round to the head.                                  *)
ListEnds(i) ==
  {n \in 1 .. MaxBlocks :
     IF i = 0 THEN find_next_free(S, ListNode[i, n - 1]) = ListNode[i, n - 1]
     ELSE ListNode[i, n] = free_list_start[i]}

ListLen(i) ==
  IF free_list_start[i] = NULL \/ ListEnds(i) = {} THEN 0
  ELSE CHOOSE n \in ListEnds(i) : \A m \in ListEnds(i) : n <= m

Members(i) == {ListNode[i, k] : k \in 0 .. ListLen(i) - 1}

Ready == heap_start /= NULL /\ WalkEnds

-----------------------------------------------------------------------------
(* The type of the state: heap words and bucket heads are integers (C    *)
(* pointers and packed words), the break stays inside memlib's region.   *)
TypeOK ==
  /\ S \in StateT
  /\ held \in [Payloads -> Nat]

(* mm_checkheap's walk: once mm_init ran, the prologue word is a size-0  *)
(* allocated word, the walk from heap_start by block sizes meets only    *)
(* blocks of at least 16 bytes and lands exactly on an allocated size-0  *)
(* epilogue at mem_heap_hi() - 7.  Breaks when a split, a merge or a heap *)
(* extension writes a wrong size or a misplaced epilogue.                *)
ImplicitListWellFormed ==
  heap_start /= NULL =>
    /\ extract_size(Read(mem, 0)) = 0 /\ get_alloc(Read(mem, 0), FALSE)
    /\ WalkEnds
    /\ HeapNode[Epi] = mem_brk - 8
    /\ get_alloc(Header(HeapNode[Epi]), FALSE)
    /\ \A k \in 0 .. Epi - 1 : get_size(S, HeapNode[k]) >= min_block_size

(* Boundary tags agree with the neighbours (data-model invariants 2, 3   *)
(* and 7): every header's prev-allocated bit is the allocation bit of    *)
(* the block before it (the prologue for the first), its prev-is-min bit *)
(* says whether that block has 16 bytes, and a free block of more than   *)
(* 16 bytes ends in a footer equal to its header.  modify_next, split    *)
(* and the merges of coalesce_block must each rewrite the right words.   *)
BoundaryTagsCoherent ==
  Ready =>
    /\ get_alloc(Header(heap_start), TRUE)
    /\ \A k \in 0 .. Epi - 1 :
         LET b == HeapNode[k]
             n == HeapNode[k + 1]
         IN  /\ get_alloc(Header(n), TRUE) = ~IsFree(b)
             /\ is_minblock(Header(n)) = (get_size(S, b) = min_block_size)
             /\ IsFree(b) /\ get_size(S, b) /= min_block_size =>
                  Read(mem, b + get_size(S, b) - 8) = Header(b)

(* The coalescing invariant: no two neighbouring blocks are both free.   *)
NoAdjacentFree ==
  Ready => \A k \in 0 .. Epi - 2 : ~(IsFree(HeapNode[k]) /\ IsFree(HeapNode[k + 1]))

(* Every bucket is a well-formed list of free heap blocks of its size    *)
(* class: bucket 0 ends in a self-looped tail, buckets 1..13 close back  *)
(* on their head with x.next.prev = x, and each member is a free block   *)
(* of the implicit list whose size get_free_list maps to the bucket.     *)
(* malloc hands out only list members, so this is what keeps it from    *)
(* returning a block that is allocated or lies inside another block.     *)
FreeListsSound ==
  Ready =>
    \A i \in Buckets : free_list_start[i] /= NULL =>
      /\ ListEnds(i) /= {}
      /\ \A b \in Members(i) :
           /\ b \in HeapBlocks
           /\ IsFree(b)
           /\ get_free_list(get_size(S, b)) = i
           /\ i /= 0 => find_prev_free(S, find_next_free(S, b)) = b

(* The other half of mm_checkheap's count check: every free block of the *)
(* implicit list is a member of the bucket of its size.                  *)
FreeListsComplete ==
  Ready =>
    \A b \in HeapBlocks : IsFree(b) => b \in Members(get_free_list(get_size(S, b)))

(* The client holds exactly the allocated blocks: a pointer malloc,      *)
(* realloc or calloc returned and that was not freed is the payload of   *)
(* an allocated block, and every allocated block is held by the client   *)
(* (none is handed out twice, none is lost).                              *)
AllocatedExactlyHeld ==
  /\ heap_start = NULL => Held = {}
  /\ Ready =>
       \A p \in Payloads : held[p] > 0 <=> (p - 8 \in HeapBlocks /\ ~IsFree(p - 8))

(* Until mm_init has run the allocator is in its initial state: memlib's *)
(* heap is empty and the client holds nothing.  malloc ignores mm_init's *)
(* result, so this rests on the first mem_sbrk of mm_init (16 bytes of    *)
(* prologue and epilogue) never failing on an empty heap, and on malloc   *)
(* calling mm_init before it searches or extends anything.               *)
NothingBeforeInit == heap_start = NULL => mem_brk = 0 /\ Held = {}

(* A call that fails leaves the heap exactly as it was: when mem_sbrk    *)
(* fails in extend_heap, malloc returns NULL before anything is written,  *)
(* a realloc whose malloc failed keeps the old block, and a calloc that   *)
(* fails its overflow test does nothing.  Once mm_init has run, a step    *)
(* that changes nothing the client holds changes no heap word, bucket    *)
(* head or break.                                                        *)
FailedCallLeavesHeap ==
  [][heap_start /= NULL /\ held' = held =>
       UNCHANGED <<mem, free_list_start, mem_brk>>]_vars

(* get_payload_size: the bytes of payload an allocated block offers. *)
get_payload_size(s, b) ==
  CASE get_size(s, b) = min_block_size    -> wsize
    [] get_alloc(Read(s.mem, b), FALSE)   -> get_size(s, b) - wsize
    [] OTHER                              -> get_size(s, b) - dsize

(* Every held block offers at least the bytes that were asked for. *)
PayloadCoversRequest ==
  \A p \in Held : get_payload_size(S, p - 8) >= held[p]

(* find_fit returns for every adjusted size malloc can pass it: the     *)
(* walk of find_fit_basic comes back to the bucket head or meets a near  *)
(* fit.  Bucket 0 is not circular, so a walk of it that passes its head  *)
(* never ends; only the bucket choice of find_fit and the near-fit test  *)
(* on the head keep malloc from looping there.                           *)
FindFitTerminates ==
  Ready => \A k \in 1 .. MaxBlocks : find_fit(S, 16 * k) /= Diverge

(* spec 4.3: find_fit returns "not found" only if no bucket from the     *)
(* request's size class up holds, among the nodes its bounded scan       *)
(* examines (the head and SEARCH_TIME more), a block that fits.  This is *)
(* the search of find_fit_basic, which tracks the best candidate only    *)
(* once the head itself fits.                                            *)
FindFitScansWindow ==
  Ready =>
    \A k \in 1 .. MaxBlocks :
      find_fit(S, 16 * k) = NULL =>
        \A i \in get_free_list(16 * k) .. free_size - 1, j \in 0 .. SEARCH_TIME :
          j < ListLen(i) => get_size(S, ListNode[i, j]) < 16 * k

(* The words of a held block's payload: from p to the end of the block. *)
PayloadWords(s, p) == {w \in Words : p <= 8 * w /\ 8 * w < p - 8 + get_size(s, p - 8)}

(* No call moves, resizes or writes into a block the client still holds *)
(* before and after it: merges, splits, footers and link updates touch   *)
(* only free blocks and headers.                                         *)
HeldBlocksUntouched ==
  [][\A p \in Held \cap Held' :
       /\ get_size(S, p - 8) = get_size(S', p - 8)
       /\ \A w \in PayloadWords(S, p) : mem'[w] = mem[w]]_vars

-----------------------------------------------------------------------------
(* The refinement mapping: the client's record is the abstract allocator's *)
(* set of live payloads, memlib's break its extent, and the requests it    *)
(* can be asked for are the nonzero sizes malloc, realloc and calloc get.  *)
RequestSizes ==
  {n \in MallocSizes \cup {a[1] * a[2] : a \in CallocArgs} : n > 0}

Abstract == INSTANCE MMAlloc WITH
  Ptr <- Payloads, Sizes <- RequestSizes, Limit <- MAX_HEAP,
  live <- held, top <- mem_brk

(* The allocator implements MMAlloc: every call hands out only a payload  *)
(* that overlaps no payload the client still holds and lies inside the    *)
(* heap, frees exactly the pointer it is given, moves a block in realloc  *)
(* only to a fresh payload, and never shrinks the heap.                   *)
ImplementsAlloc == Abstract!Spec

=============================================================================
