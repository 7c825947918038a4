-------------------------------- MODULE MMCheck --------------------------------
(***************************************************************************)
(* The heap checker of mm.c: mm_checkheap and its helpers check_freenull,  *)
(* check_minimatch and check_freematch, as the verdict they return on the *)
(* current heap.  The debug build calls mm_checkheap on entry to and exit *)
(* from every public function (dbg_requires, dbg_ensures) and stops the    *)
(* program when it returns false.  The checker changes no state; what it  *)
(* prints is left out.  Addresses are offsets from mem_heap_lo(), so low  *)
(* is 0 and high - 7, the address of the epilogue, is mem_brk - 8.         *)
(***************************************************************************)
EXTENDS MMHeap, FiniteSets

LOCAL FSE == INSTANCE FiniteSetsExt

(* The per-node tests both list checkers make: the block lies strictly   *)
(* between low and high - 7, and its size is in the bucket's range.       *)
ListNodeOK(i, b) ==
  /\ b > 0
  /\ b < mem_brk - 8
  /\ ~((get_size(S, b) > BucketSize(i) /\ BucketSize(i) /= 0)
       \/ get_size(S, b) <= BucketPrevSize(i))

(* check_freematch also checks that next->prev and prev->next are b. *)
LinksOK(b) ==
  /\ find_prev_free(S, find_next_free(S, b)) = b
  /\ find_next_free(S, find_prev_free(S, b)) = b

(* check_freenull: every bucket head is NULL. *)
check_freenull == \A i \in Buckets : free_list_start[i] = NULL

(* The list walks end: bucket 0 at a node that is its own next, the      *)
(* others back at their head.  Otherwise a checker loop never returns.   *)
ListWalksEnd == \A i \in Buckets : free_list_start[i] /= NULL => ListEnds(i) /= {}

(* check_minimatch on bucket 0: the head is checked and counted, then    *)
(* the loop runs while the node is not its own next, so the nodes        *)
(* checked and counted are the head and those strictly between it and    *)
(* the self-looped tail.  A failed test returns false, that is 0.         *)
MiniVisited == {0} \cup 1 .. ListLen(0) - 2

check_minimatch ==
  CASE free_list_start[0] = NULL                          -> 0
    [] \E k \in MiniVisited : ~ListNodeOK(0, ListNode[0, k]) -> 0
    [] OTHER                                              -> Cardinality(MiniVisited)

(* check_freematch on bucket i: every node from the head until the walk  *)
(* is back at the head is checked and counted.                           *)
check_freematch(i) ==
  CASE free_list_start[i] = NULL -> 0
    [] \E k \in 0 .. ListLen(i) - 1 :
         ~(LinksOK(ListNode[i, k]) /\ ListNodeOK(i, ListNode[i, k])) -> 0
    [] OTHER                     -> ListLen(i)

(* mm_checkheap's tests of the prologue word at mem_heap_lo() and the    *)
(* epilogue header at mem_heap_hi() - 7.                                  *)
CheckEnds ==
  /\ extract_size(Read(mem, 0)) = 0
  /\ extract_alloc(Read(mem, 0)) /= 0
  /\ get_size(S, mem_brk - 8) = 0
  /\ get_alloc(Read(mem, mem_brk - 8), FALSE)

(* The tests on block k of the walk from heap_start: inside the heap, a  *)
(* free block of more than 16 bytes has a footer with its header's size  *)
(* and bits, the size is a multiple of 16, and it is not free after a    *)
(* free block (is_empty).  The test block + size = find_next(block)      *)
(* holds by the definition of find_next, and the test of the next        *)
(* block's min bit only prints.                                           *)
CheckBlock(k) ==
  LET b == HeapNode[k]
      size == get_size(S, b)
  IN  /\ b > 0
      /\ b < mem_brk - 8
      /\ IsFree(b) /\ size /= min_block_size =>
           /\ extract_size(Header(b)) = extract_size(Read(mem, b + size - 8))
           /\ extract_alloc(Header(b)) = extract_alloc(Read(mem, b + size - 8))
      /\ size % dsize = 0
      /\ k > 0 /\ IsFree(b) => ~IsFree(HeapNode[k - 1])

(* count: the free blocks of the walk. *)
FreeCount == Cardinality({k \in 0 .. Epi - 1 : IsFree(HeapNode[k])})

(* count_free: the sum of what the fourteen list checkers return. *)
FreeListCount == check_minimatch + FSE!MapThenSumSet(check_freematch, 1 .. free_size - 1)

(* The free-list half: no free block iff every bucket is empty, and then *)
(* count and count_free agree.                                            *)
CheckFreeCount ==
  /\ FreeCount = 0 => check_freenull
  /\ FreeCount /= 0 => ~check_freenull
  /\ ~check_freenull => FreeCount = FreeListCount

(* mm_checkheap returns true: its walks end and every test passes. *)
mm_checkheap ==
  /\ WalkEnds
  /\ ListWalksEnd
  /\ CheckEnds
  /\ \A k \in 0 .. Epi - 1 : CheckBlock(k)
  /\ CheckFreeCount

-----------------------------------------------------------------------------
(* The debug build asserts mm_checkheap on entry to and exit from malloc, *)
(* free, realloc and calloc: once mm_init has run, the checker accepts    *)
(* every heap the allocator can reach.                                    *)
CheckHeapAccepts == Ready => mm_checkheap

=============================================================================
