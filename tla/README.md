# A TLA+ model of the segregated-list allocator in `src/mm.c`

`src/mm.c` is a malloc package over one contiguous heap, which memlib's
`mem_sbrk` grows. Its parts, in the order the code depends on them:

| Part | Code | Module |
|------|------|--------|
| Block codec: the packed header word, size rounding, size classes | `pack`, `extract_*`, `get_alloc`, `is_minblock`, `round_up`, `get_free_list` | `MMCodec` |
| Free-list directory: 14 buckets; bucket 0 singly linked and ended by a self-loop, buckets 1..13 circular and doubly linked | `insert_free*`, `clear_free*` | `MMFreeList` |
| Placement engine: size-class search with a bounded best fit | `find_fit_basic`, `find_fit` | `MMFreeList` |
| Transition engine | `alloc2free`, `free2alloc`, `modify_next`, `find_prev`, `coalesce_block`, `split_block` | `MMHeap` |
| Heap shell and entry points | `extend_heap`, `mm_init`, `malloc`, `free`, `realloc`, `calloc` | `MMHeap` |
| Consistency checker | `mm_checkheap`, `check_freenull`, `check_minimatch`, `check_freematch` | `MMCheck`, and invariants in `MMHeap` |
| What the package promises its client | the four entry points, seen from outside | `MMAlloc` |

`MCMMHeap` gives the constants values for TLC. `MMCodecProofs`,
`MMHeapProofs`, `MMInitProofs` and `MMAllocProofs` hold the TLAPS proofs.

## How the state corresponds to the code

The allocator's memory is one array `mem` of 8-byte words. Byte address `a`,
counted from `mem_heap_lo()`, lives in word `a \div 8`.

A block at address `b` has:
- its header at `b`;
- its next link at `b + 8` (`block->next`);
- its prev link at `b + 16` (`block->prev`);
- its footer at `b + size - 8`.

Because all of these share the one array, a link write lands exactly where the
C pointer points. In particular, the next link of a 16-byte block is the word
that would be its footer, and a stale link of an allocated block is payload.

| Model | Code |
|-------|------|
| `free_list_start` | the bucket-head array |
| `heap_start` | the global `heap_start` |
| `mem_brk` | memlib's break |
| `NULL` | 0, the prologue's address, where no block can start |

A header is the integer `size + 2*prev_alloc + alloc + 4*prev_is_min`. The
sizes are multiples of 16, so this equals the C bitwise OR. `size_t`
arithmetic wraps modulo the constant `SIZE_T_MOD`: 2^64 in the code, 2^16 on
the checked instance.

Every C function is an operator from an allocator state record
`[mem, fl, brk, hs]` to the next one. Each operator writes in the order the C
statements do: header before footer, and `clear_free` before the header
rewrite in `free2alloc`.

The longer functions are split into stages, each a consecutive part of
the C body, that take the previous stage's result as a parameter:
- `malloc` is `malloc` (the `mm_init` on first use), `malloc_on` (the size
  adjustment and the search), `malloc_fit` (the extension when nothing fits)
  and `malloc_place` (the marking and split);
- `extend_heap` is `extend_region` and `extend_block`;
- `split_block` ends in `split_tail`, and `realloc` in `realloc_done`.
`coalesce_block` runs its four cases as one sequence: clear the block, clear
`prev` if it is free, clear `next` if it is free, and merge unless neither was.
This is the order of `clear_free` calls in each case of the C code.

Each public entry point is one action (`MmInit`, `Malloc`, `Free`, `Realloc`,
`Calloc`). The package is single-threaded and never yields, so a call is
atomic. Every helper it calls is part of the action: `modify_next`,
`split_block` and `coalesce_block` all run inside the call that triggers them.

The client is the variable `held`. It maps each payload pointer the client
holds to the byte count it asked for. The client frees and reallocates only
pointers it holds, as the driver does.

`find_fit_basic` walks a bucket until it is back at the head. A walk that never
comes back (bucket 0 is not circular) yields the value `Diverge`. A call that
would return it is not a step of the model, so such a call shows up as a
violation of `FindFitTerminates`.

`MMCheck` models the checker as the verdict `mm_checkheap` on the current
heap, with one operator per helper and per group of tests:
- `CheckEnds` tests the prologue and epilogue words;
- `CheckBlock(k)` tests block `k` of the walk;
- `FreeCount` is the walk's count of free blocks;
- `check_minimatch` and `check_freematch(i)` return what the C helpers return.
  A failed test inside a helper returns `false`, which is the count 0, and it
  then shows up only in the count comparison, as in the code.

The test `block + size == find_next(block)` holds by the definition of
`find_next`. The test of the next block's min bit only prints. Neither is
modelled.

The payload bytes are not modelled: the copy in `realloc` and the fill in
`calloc` are left out. Which words a call writes is still tracked, and
`HeldBlocksUntouched` is about exactly that.

## Runs

| Run | cfg | Result |
|-----|-----|--------|
| `mm_heap` | `MCMMHeap.cfg` | passes: 81,689 distinct states, about 2.5 minutes |
| `mm_lost_free_block` | `MCMMHeapLost.cfg` | `FreeListsComplete` violated after 3 calls |
| `mm_huge_request` | `MCMMHeapHuge.cfg` | `PayloadCoversRequest` violated after 1 call (a malloc that runs `mm_init` itself) |
| `mm_refines_alloc` | `MCMMHeapAlloc.cfg` | passes: `ImplementsAlloc`, 81,689 distinct states, under a minute |
| `mm_best_fit` | `MCMMHeapFit.cfg` | `FindFitScansWindow` violated after 3 calls |
| `mm_checkheap_false_alarm` | `MCMMHeapCheck.cfg` | `CheckHeapAccepts` violated after 2 calls |

**`mm_heap`** runs every sequence of calls on the checked instance:
- a 112-byte heap: the prologue and epilogue, then room for six 16-byte blocks;
- 32-byte chunks, so the heap is extended twice before `mem_sbrk` fails;
- requests of 0, 1 and 12 bytes (16- and 32-byte blocks);
- `calloc(2, 6)`, and `calloc(2^15 + 1, 2)`, whose product wraps to 2 in the
  16-bit `size_t`. The client's record holds the product it asked for, 65,538
  bytes, so a `calloc` that let the wrapped product through would break
  `PayloadCoversRequest`.

This reaches:
- all four coalescing cases;
- splits that leave 16- and 32-byte remainders;
- bucket 0 with several members, and bucket 1 and larger lists;
- heap exhaustion;
- each branch of `realloc` and the overflow test of `calloc`.

The run checks:
- `TypeOK`;
- `ImplicitListWellFormed`: the walk of `mm_checkheap` ends on the epilogue
  at `mem_heap_hi() - 7`;
- `BoundaryTagsCoherent`: the prev-alloc and prev-is-min bits, and the
  footers, agree with the neighbouring blocks;
- `NoAdjacentFree`;
- `FreeListsSound`: each bucket is a well-formed list of free blocks of its
  size class;
- `AllocatedExactlyHeld`: the allocated blocks are exactly the pointers the
  client holds;
- `PayloadCoversRequest`;
- `FindFitTerminates`;
- `NothingBeforeInit`: while `heap_start` is NULL the heap is empty and the
  client holds nothing;
- the action property `HeldBlocksUntouched`: no call resizes or writes into a
  block the client holds both before and after it;
- the action property `FailedCallLeavesHeap`: once `mm_init` has run, a call
  that changes nothing the client holds changes no heap word, bucket head or
  break. This covers a `malloc` whose `extend_heap` meets a failing
  `mem_sbrk` (`src/mm.c:874`), a `realloc` whose `malloc` failed, and a
  `calloc` that fails its overflow test.

Each property has a mutant in `PROJECT.json`: a plausible slip in the code
that TLC then catches. The slips are:
- a `mem_sbrk` without its bound;
- an `extend_heap` without its epilogue;
- a `modify_next` that never writes the footer, and one that writes it
  whatever the block's state;
- a `coalesce_block` that ignores a free next block, and one that leaves that
  block on its list;
- a `malloc` that does not mark the block allocated;
- a `calloc` without its overflow check;
- a `find_fit` that searches from bucket 0;
- a `malloc` without its lazy `mm_init` call;
- a `realloc` that frees the old block even when its `malloc` failed.

**`mm_lost_free_block`** finds the bug at `src/mm.c:580`. `clear_free_mini`
takes a block whose `next` is itself for the only member of bucket 0. But the
tail of every longer bucket-0 list also points to itself. TLC's trace:
1. `malloc(1)` splits the first chunk into A (16 bytes, allocated) and B (16
   bytes, free, in bucket 0).
2. `realloc(A, 12)` extends the heap. The new chunk merges with B and is split
   into a 32-byte block and a free 16-byte C. A is freed, so bucket 0 is
   A -> C, and C points to itself.
3. `malloc(12)` extends the heap again. The new chunk is merged with C, and
   removing C from bucket 0 sets the bucket to NULL.

A is now free but on no list. `find_fit` can no longer hand it out; it
returns to use only if a neighbour is freed and absorbs it. spec 4.2 and
`mm_checkheap`'s count check both say that every free block is in its bucket.

**`mm_huge_request`** finds the overflow at `src/mm.c:1524`. `malloc(SIZE_MAX)`
computes `size + wsize`, which wraps to 7, and returns a 16-byte block instead
of NULL.

**`mm_refines_alloc`** checks that the allocator implements `MMAlloc`, the
abstract allocator. `MMAlloc` has no blocks, headers or lists. It has:
- `live[p]`: the bytes handed out at payload `p`, or 0;
- `top`: the heap's extent.

A call of `MMAlloc` does one of four things:
- `Alloc`: hands out a fresh payload that overlaps no live payload and lies
  below the new `top`;
- `Release`: frees a live payload;
- `Move`: does both at once, as `realloc` does;
- `Fail`: changes nothing.

Any call may raise `top`, and no call lowers it. The refinement mapping in
`MMHeap` is:
- `live` is the client's record `held`;
- `top` is `mem_brk`;
- the payload set is `Payloads`;
- the sizes are the nonzero requests (`RequestSizes`).

`ImplementsAlloc == Abstract!Spec` is checked as a temporal property. Its
mutant is a `free2alloc` that leaves the block on its free list. `malloc` can
then hand the same block out a second time, over a payload the client still
holds. `ImplementsAlloc` fails on the huge-request instance too, since the
wrapped request yields a payload that overlaps the next block.

**`mm_best_fit`** uses a 256-byte heap with one 240-byte chunk. The requests
are 1, 72 and 120 bytes, to fill bucket 4 (65 to 128 bytes). TLC's trace:
1. `malloc(1)` runs `mm_init`, which lays out the 240-byte chunk, and takes a
   16-byte block at 8. The 224-byte rest at 24 is in bucket 5.
2. `malloc(72)` takes an 80-byte block B at 24 (payload 32). The 144-byte
   rest at 104 is in bucket 5.
3. `realloc(32, 1)` takes a 16-byte block at 104, which leaves a 128-byte
   free block C at 120, and then frees B. Bucket 4 is B (80 bytes), then C
   (128 bytes).

`find_fit(96)` now returns NULL. The head B does not fit. C fits, with 32
bytes of slack, and lies
within the one node the scan may pass, so spec 4.3 says it should be
returned. The code sets `init` only when the head fits, and
`(sizeb - asize) >= 0` is a `size_t` test, which is always true. So once the
head does not fit, `best` is overwritten by every node and never returned,
and only a near fit (slack at most 16) can answer. This is recorded as a
divergence from the spec (`src/mm.c:976`). It costs memory (the heap grows),
not safety.

**`mm_checkheap_false_alarm`** finds a bug in the checker itself
(`src/mm.c:1175`). `check_minimatch` counts the head of bucket 0 and then
loops while `freeblock != freeblock->next`. The self-looped tail ends the
loop before it is counted. The trace:
1. `malloc(1)`, which runs `mm_init` first.
2. `realloc` of that pointer to 12 bytes.

This leaves two free 16-byte blocks, both in bucket 0. The walk counts 2 and
the lists count 1, so `mm_checkheap` returns false on a heap that every
invariant of `mm_heap` accepts. A debug build then stops in `dbg_requires` at
the next call.

With the tail counted, the checker rejects nothing but the state of the
bucket-0 bug at `src/mm.c:580` (`mm_lost_free_block`). This was checked on a
copy of the module.

### Why the bounds are enough

- Every control path of every call needs at most three blocks side by side,
  plus the epilogue, and the instance holds six.
- The blocks of the two sizes cover bucket 0, with its own list discipline,
  and bucket 1, a circular doubly linked list.
- `SEARCH_TIME = 1` is the smallest window that still passes the head. The
  limit branch of `find_fit_basic` (`src/mm.c:967-972`) is taken only at a
  bucket's third member, after a head that does not fit. No bucket of the
  112-byte heap ever holds three blocks past such a head, so `mm_heap` never
  takes that branch. Only the best-fit run reaches a head that does not
  fit, and it does not reach the limit either. Buckets 0 to 3 each hold one
  block size, so the first bucket where a head can be too small is bucket 4
  (65 to 128 bytes).
- `SIZE_T_MOD = 2^16` keeps the wrap of `size_t` in reach of TLC's 32-bit
  integers.

The bucket-0 bug needs four 16-byte blocks, and the instance holds six.
Buckets above 2 and the best-fit slack rule need blocks larger than that
heap allows. `mm_best_fit` uses a 256-byte heap for them.

An exhaustive run on a larger heap is out of reach. With a 176-byte heap and
40-byte requests, the payloads can sit at many more offsets. TLC passes 50,000
distinct states in the first minute and the queue is still growing. So the
larger heap serves only the targeted best-fit run.

No fairness is assumed and no liveness property is checked. The allocator
reacts to calls and owes no progress of its own; whether a call returns is a
safety question here (`FindFitTerminates`).

## What is proved (`MMHeapProofs`)

`THEOREM TypeCorrect == Spec => []TypeOK` holds for every value of the
constants. It rests on the assumptions `SizeTModAssumption`, `HeapAssumption`,
`SearchAssumption`, `ChunkAssumption` and `RequestAssumption`: the constants
are naturals, `MAX_HEAP` and `CHUNKSIZE` are multiples of 16, and requests fit
in a `size_t`.

The argument has one closure lemma per C function. Each lemma says that a
state in `StateT` maps to a state in `StateT` (or to a record of a state and
an integer):
- from `SetWordT`, `ReadInt`, `LinkT` and `GetFreeListBucket`, via
  `InsertFreeT` and `ClearFreeT`, `FindFitBasicInt` and `FindFitInt`,
  `Alloc2FreeT` ... `CoalesceT`, and `MemSbrkT` and `ExtendHeapT`,
- up to `MallocT`, `FreeT`, `ReallocT` and `CallocT`.

`TypeOK` is inductive as it stands, so no strengthening is needed.

The closure lemmas are stated for `StateB(B, H)`: the states whose break lies
in a set `B` and whose `heap_start` lies in a set `H`. Only `mem_sbrk` writes
the break and only `mm_init` writes `heap_start`, so the engine lemmas carry
any `B` and `H` through unchanged (`MMInitProofs` uses `H`). `MemSbrkT` shows that `mem_sbrk` keeps the break in
`lo .. MAX_HEAP`: a negative signed increment fails, and so does one that
passes `MAX_HEAP`. With `B = mem_brk .. MAX_HEAP`, `NextGrows` gives both
`TypeOK'` and a break that has not dropped. With `B = {mem_brk}`,
`FreeKeepsBreak` shows that a `free` leaves the break unchanged.

`THEOREM BreakNeverShrinks` combines these:
- no step lowers `mem_brk` or lifts it past `MAX_HEAP`;
- a `Free` step leaves it unchanged.

These are the clauses `Grow` and `UNCHANGED top` of `MMAlloc` for the
variable that the refinement mapping sends to `top`. The clauses about `live`
(fresh, disjoint payloads) are only checked by TLC. The list
walks are recursive functions, and the proof never unfolds them. Every value a
walk can feed back into the state is a word read from the heap array, and such
a read is an integer at any address. The least bucket that `find_fit` picks
exists by `LeastExists`, which is proved from `WFMin` and
`NatLessThanWellFounded`.

What stays with TLC: the structural invariants, which hold on the instance
above but are not yet proved, and everything about what a walk computes. The
proof system cannot do induction over those recursive definitions.

## What is proved (`MMInitProofs`)

`malloc` initialises the heap lazily (`src/mm.c:1513`) and ignores the result
of `mm_init`. One theorem about that protocol holds for every value of the
constants:
- `NoCallBeforeInit`: `Spec => []NothingBeforeInit`.

`NothingBeforeInit` is not inductive on its own. A state with `heap_start`
NULL, an empty heap and stale heap words or bucket heads satisfies it. From
such a state, `malloc_on` could work on words that `mm_init` never wrote. The
strengthening `InitInv` says that while `heap_start` is NULL the whole state
is the initial one. `InitInvStep` proves it inductive:
- `MmInitFromEmpty`: on an empty heap, the 16-byte `mem_sbrk` of `mm_init`
  succeeds at address 0. This uses `HeapAssumption`, `MAX_HEAP >= 16`.
  `heap_start` becomes `wsize` whether or not the `extend_heap` that follows
  fails.
- A first call of `malloc`, `realloc` or `calloc` either runs `mm_init`
  (`MallocFromEmpty`) or returns NULL with nothing changed (`QuietReturn`).
  The second case is `realloc(NULL, 0)`, or a `calloc` that fails its
  overflow test.
- `free` is disabled, because nothing is held.
- From a state where `heap_start` is set, it stays set (`HeapStartKept`).
  `MmInit` is disabled. The other calls run on a state in
  `StateB(mem_brk .. MAX_HEAP, {heap_start})`, and `MallocReadyT`,
  `ReallocReadyT`, `CallocReadyT` and `FreeT` keep it there.

This covers the partial failure at `src/mm.c:1514` for every `MAX_HEAP` and
`CHUNKSIZE`. It includes the instances whose first chunk does not fit, where
every later extension fails too and no run reaches a hundred states.

## What is proved (`MMAllocProofs`)

`THEOREM AllocSafe == ASSUME AllocAssumption PROVE Spec => [](Disjoint /\ InHeap)`
holds for `MMAlloc`, for every set of payload addresses (naturals), nonzero
sizes and heap limit. It says:
- no two live payloads share a byte;
- every live payload ends at or below `top`.

`Disjoint` alone is not inductive. `Fits` compares the new payload with
`top'` and with the payloads live before the step, so the proof needs `InHeap`
and the type. The inductive invariant is `IInv == TypeOK /\ Disjoint /\ InHeap`:
- `InitIInv`: the initial state satisfies it.
- `FreshIInv`: adding a fresh payload that passes `Fits` preserves it, with or
  without releasing another payload in the same step. This lemma serves both
  `Alloc` and `Move`.
- `NextIInv`: every step preserves it, with one case per disjunct of `Next`.

Together with `ImplementsAlloc`, which TLC checks of `MMHeap`, this is the
argument that the payloads `mm.c` hands out are disjoint and inside the heap.
The theorem covers every instance. That `MMHeap` refines `MMAlloc` is only
model-checked, on the instance of `mm_refines_alloc`.

Liveness is not checked anywhere. The allocator runs only when it is called,
owes the client no progress of its own, and no scheduler or fairness is
involved.

## What is proved (`MMCodecProofs`)

These are facts about the pure operators of `MMCodec`, for every `SIZE_T_MOD`
that `SizeTModAssumption` allows. The real width 2^64 is one of them; TLC's
runs use 2^16.

- `PackDecode`: for a size that is a multiple of 16, `extract_size`,
  `get_alloc(_, FALSE)`, `get_alloc(_, TRUE)` and `is_minblock` give back the
  size and the three bits that `pack` put in. It rests on `ModLow`: flags
  0..7 added to a multiple of 16 are its low bits. It also rests on
  `FlagBits`, which decodes the three bits.
- `BucketTestIsClass`: for every positive size and every bucket `b`, the
  checker's size test accepts the size in `b` exactly when `b` is
  `get_free_list(size)`. The test is the pair `BucketSize` and
  `BucketPrevSize` that `check_minimatch` and `check_freematch` use. So
  `ListNodeOK` in `MMCheck` and the class test of `FreeListsSound` in `MMHeap`
  say the same thing. The proof shows that the thirteen classes up to 32768
  are disjoint and cover every size:
  - `LimitNat`, `LimitMono` and `LimitStep` give the order of `free_limit`,
    one case per index;
  - `ClassDisjoint` and `ClassUnique` follow from it.
  `get_free_list`'s `CHOOSE` then denotes the one class.
- `AdjustedSizeCovers`: for a request from 1 to `SIZE_MAX - 23`, malloc's
  `round_up(size + wsize, dsize)` has these properties:
  - it is a multiple of 16;
  - it is at least `min_block_size`;
  - it holds the request and its header;
  - it wastes less than 16 bytes.
- `PlacedPayloadCovers`: any block at least that large offers an allocated
  payload that holds the request, as `get_payload_size` computes it. This is
  the arithmetic half of `PayloadCoversRequest`. The other half, that the
  block really is that large and keeps its size while held, is about the heap
  and stays with TLC.
- `HugeRequestWraps`: for the 23 largest requests the adjusted size is 0 or
  16, below the request. The wrap happens either in `size + wsize` or in the
  `+ (n - 1)` inside `round_up`; the two cases are `ModKeep` and
  `ModWrapOnce`. So the finding at `mm.c:1524`, which the run
  `mm_huge_request` shows with a 16-bit `size_t`, holds for every width.

## What stays with TLC, and why

- The structural heap invariants: `ImplicitListWellFormed`,
  `BoundaryTagsCoherent`, `NoAdjacentFree`, `FreeListsSound`,
  `AllocatedExactlyHeld`, `PayloadCoversRequest`, `FindFitTerminates` and
  `HeldBlocksUntouched`. Each of them says what a walk over the blocks or
  over a bucket computes. Their inductive strengthening needs induction over
  the walks, and the installed provers cannot instantiate the library's
  induction theorems.
- The refinement `ImplementsAlloc`, for the same reason. Its initial state
  and the steps that hand out no payload follow from the definition of the
  client's record and from `BreakNeverShrinks`. The steps that do hand one
  out are where `mm.c`'s block logic matters, and they rest on
  `AllocatedExactlyHeld` and the implicit list.
- `FailedCallLeavesHeap`: that a failed call writes nothing needs `find_fit`
  and `extend_heap` to return a real block whenever they return non-NULL,
  which again is a statement about the walks.
- Liveness: there is none to state (see above).

## Not modelled

- Payload contents: the client's writes, and the `memcpy` and `memset` of
  `realloc` and `calloc`.
- The driver aliases and the debug macros (compiled out).
- The messages of `mm_checkheap`.
- memlib is not in this repository. `mem_sbrk` is modelled from its
  documented behaviour: it fails on a negative increment, or on one that
  passes `MAX_HEAP`.

## Plan

- Proofs of the `live` half of the refinement to `MMAlloc`. These need the
  structural invariants (`FreeListsSound`, `AllocatedExactlyHeld`) as an
  inductive invariant of `MMHeap`, and with it a way to reason about the
  walks without induction: for instance, bounded unrollings of the walks on
  the heap sizes that matter.
- Proofs of `NoAdjacentFree` and of the boundary-tag invariant, under the
  same condition.
