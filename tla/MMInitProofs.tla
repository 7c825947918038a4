----------------------------- MODULE MMInitProofs -----------------------------
(***************************************************************************)
(* The lazy initialisation of mm.c, for every value of the constants.     *)
(* heap_start is written by mm_init alone, and malloc calls mm_init only   *)
(* while heap_start is NULL, so once set heap_start never moves            *)
(* (HeapStartKept).  Before that the allocator is in its initial state     *)
(* (NothingBeforeInit): malloc's first call runs mm_init, whose mem_sbrk  *)
(* of 16 bytes cannot fail on an empty heap (MAX_HEAP >= 16), so the       *)
(* boolean result malloc ignores is never the failure of that first step.  *)
(* The closure lemmas of MMHeapProofs carry the set H that heap_start lies *)
(* in through every engine and shell function but mm_init.                 *)
(***************************************************************************)
EXTENDS MMHeapProofs

(* The allocator record of Init. *)
InitS == [mem |-> [w \in Words |-> 0], fl |-> [i \in Buckets |-> NULL],
          brk |-> 0, hs |-> NULL]

(* NothingBeforeInit made inductive: while heap_start is NULL the whole  *)
(* state is the initial one, not just the break and the client's record. *)
InitInv ==
  /\ TypeOK
  /\ heap_start = NULL => S = InitS /\ held = [p \in Payloads |-> 0]

-----------------------------------------------------------------------------
(* malloc past its mm_init test keeps heap_start: malloc_on calls only    *)
(* find_fit, extend_heap and the engine.                                  *)
LEMMA MallocOnT ==
  ASSUME NEW lo \in Int, NEW H, NEW s \in StateB(lo .. MAX_HEAP, H), NEW size \in Int
  PROVE  malloc_on(s, size) \in BpB(lo .. MAX_HEAP, H)
<1>. DEFINE asize == round_up((size + wsize) % SIZE_T_MOD, dsize)
<1>1. asize \in Int
  BY SizeTModAssumption DEF round_up, wsize, dsize
<1>2. malloc_fit(s, asize, find_fit(s, asize)) \in BpB(lo .. MAX_HEAP, H)
  BY <1>1, FindFitInt, MallocFitT
<1>3. [st |-> s, bp |-> NULL] \in BpB(lo .. MAX_HEAP, H)
  BY RecBpT DEF NULL
<1>. QED  BY <1>2, <1>3 DEF malloc_on

(* Once heap_start is set, malloc, realloc and calloc keep it. *)
LEMMA MallocReadyT ==
  ASSUME NEW lo \in Int, NEW H, NEW s \in StateB(lo .. MAX_HEAP, H), s.hs /= NULL,
         NEW size \in Int
  PROVE  malloc(s, size) \in BpB(lo .. MAX_HEAP, H)
BY MallocOnT DEF malloc

LEMMA ReallocReadyT ==
  ASSUME NEW lo \in Int, NEW H, NEW s \in StateB(lo .. MAX_HEAP, H), s.hs /= NULL,
         NEW ptr \in Int, NEW size \in Int
  PROVE  realloc(s, ptr, size) \in BpB(lo .. MAX_HEAP, H)
<1>1. malloc(s, size) \in BpB(lo .. MAX_HEAP, H)
  BY MallocReadyT
<1>2. realloc_done(malloc(s, size), ptr) \in BpB(lo .. MAX_HEAP, H)
  <2>1. malloc(s, size).st \in StateB(lo .. MAX_HEAP, H) /\ malloc(s, size).bp \in Int
    BY <1>1 DEF BpB
  <2>2. free(malloc(s, size).st, ptr) \in StateB(lo .. MAX_HEAP, H)
    BY <2>1, FreeT
  <2>. QED  BY <1>1, <2>1, <2>2, RecBpT DEF realloc_done
<1>3. [st |-> free(s, ptr), bp |-> NULL] \in BpB(lo .. MAX_HEAP, H)
  BY FreeT, RecBpT DEF NULL
<1>. QED  BY <1>2, <1>3 DEF realloc

LEMMA CallocReadyT ==
  ASSUME NEW lo \in Int, NEW H, NEW s \in StateB(lo .. MAX_HEAP, H), s.hs /= NULL,
         NEW elements \in Int, NEW size \in Int
  PROVE  calloc(s, elements, size) \in BpB(lo .. MAX_HEAP, H)
<1>1. (elements * size) % SIZE_T_MOD \in Int
  BY SizeTModAssumption
<1>2. malloc(s, (elements * size) % SIZE_T_MOD) \in BpB(lo .. MAX_HEAP, H)
  BY <1>1, MallocReadyT
<1>3. [st |-> s, bp |-> NULL] \in BpB(lo .. MAX_HEAP, H)
  BY RecBpT DEF NULL
<1>. QED  BY <1>2, <1>3 DEF calloc

(* The arguments every action passes are integers. *)
LEMMA ArgsInt ==
  /\ \A p \in Held \cup {NULL} : p \in Int
  /\ \A size \in MallocSizes : size \in Nat
  /\ \A a \in CallocArgs : a[1] \in Nat /\ a[2] \in Nat
BY RequestAssumption, SizeTModAssumption DEF Held, Payloads, NULL

(* A step that installs a state whose heap_start is in {h} sets it to h. *)
LEMMA InstallsHs ==
  ASSUME NEW B, NEW h, NEW t \in StateB(B, {h}), Apply(t)
  PROVE  heap_start' = h
BY DEF Apply, StateB

LEMMA ReturnsHs ==
  ASSUME NEW B, NEW h, NEW r \in BpB(B, {h}), NEW g, NEW n, Return(r, g, n)
  PROVE  heap_start' = h
<1>1. r.st \in StateB(B, {h})
  BY DEF BpB
<1>. QED  BY <1>1, InstallsHs DEF Return

(* No step moves a heap_start that is set: mm_init is disabled, and every *)
(* other call runs on a state whose heap_start lies in {heap_start}.      *)
LEMMA HeapStartKept ==
  ASSUME TypeOK, heap_start /= NULL, [Next]_vars
  PROVE  heap_start' = heap_start
<1>. DEFINE Up == mem_brk .. MAX_HEAP
            Hs == {heap_start}
<1>1. mem_brk \in Int /\ S \in StateB(Up, Hs) /\ S.hs /= NULL
  BY DEF TypeOK, S, StateT, StateB
<1>2. CASE MmInit
  BY <1>2 DEF MmInit
<1>3. ASSUME NEW size \in MallocSizes, Malloc(size) PROVE heap_start' = heap_start
  <2>1. malloc(S, size) \in BpB(Up, Hs)
    BY <1>1, ArgsInt, MallocReadyT
  <2>. QED  BY <1>3, <2>1, ReturnsHs DEF Malloc
<1>4. ASSUME NEW p \in Held, Free(p) PROVE heap_start' = heap_start
  <2>1. free(S, p) \in StateB(Up, Hs)
    BY <1>1, ArgsInt, FreeT
  <2>. QED  BY <1>4, <2>1, InstallsHs DEF Free
<1>5. ASSUME NEW p \in Held \cup {NULL}, NEW size \in MallocSizes, Realloc(p, size)
      PROVE  heap_start' = heap_start
  <2>1. realloc(S, p, size) \in BpB(Up, Hs)
    BY <1>1, ArgsInt, ReallocReadyT
  <2>. QED  BY <1>5, <2>1, ReturnsHs DEF Realloc, ReallocReturn
<1>6. ASSUME NEW a \in CallocArgs, Calloc(a[1], a[2]) PROVE heap_start' = heap_start
  <2>1. calloc(S, a[1], a[2]) \in BpB(Up, Hs)
    BY <1>1, ArgsInt, CallocReadyT
  <2>. QED  BY <1>6, <2>1, ReturnsHs DEF Calloc
<1>7. CASE UNCHANGED vars
  BY <1>7 DEF vars
<1>. QED  BY <1>2, <1>3, <1>4, <1>5, <1>6, <1>7 DEF Next

-----------------------------------------------------------------------------
(* mm_init on an empty heap: its mem_sbrk of 16 bytes succeeds at address *)
(* 0 (MAX_HEAP >= 16), so heap_start becomes wsize and stays there through *)
(* the extend_heap that follows, whether or not that extension fails.      *)
LEMMA MmInitFromEmpty ==
  ASSUME NEW s \in StateB(0 .. MAX_HEAP, Int), s.brk = 0
  PROVE  mm_init(s) \in StateB(0 .. MAX_HEAP, {wsize})
<1>. DEFINE r == mem_sbrk(s, 2 * wsize)
            s1 == set_word(set_word(r.st, r.bp, pack(0, FALSE, TRUE, TRUE)),
                           r.bp + wsize, pack(0, TRUE, TRUE, TRUE))
            s2 == [s1 EXCEPT !.hs = r.bp + wsize, !.fl = [i \in Buckets |-> NULL]]
<1>1. r.bp = 0
  <2>1. ~(2 * wsize >= SIZE_T_MOD \div 2)
    BY SizeTModAssumption DEF wsize
  <2>2. ~(2 * wsize < 0 \/ s.brk + 2 * wsize > MAX_HEAP)
    BY HeapAssumption DEF wsize
  <2>. QED  BY <2>1, <2>2 DEF mem_sbrk
<1>2. r \in BpB(0 .. MAX_HEAP, Int)
  BY MemSbrkT DEF wsize
<1>3. s1 \in StateB(0 .. MAX_HEAP, Int)
  <2>1. pack(0, FALSE, TRUE, TRUE) \in Int /\ pack(0, TRUE, TRUE, TRUE) \in Int
    BY DEF pack, Bit
  <2>. QED  BY <1>2, <2>1, SetWordT DEF BpB
<1>4. s2 \in StateB(0 .. MAX_HEAP, {wsize})
  <2>1. [i \in Buckets |-> NULL] \in [Buckets -> Int]
    BY DEF NULL
  <2>2. r.bp + wsize \in {wsize}
    BY <1>1 DEF wsize
  <2>. HIDE DEF r
  <2>. QED  BY <1>3, <2>1, <2>2 DEF StateB
<1>5. extend_heap(s2, CHUNKSIZE) \in BlkB(0 .. MAX_HEAP, {wsize})
  BY <1>4, ExtendHeapT, ChunkAssumption
<1>. QED  BY <1>1, <1>5 DEF mm_init, BlkB, SBRK_FAIL

(* malloc, realloc and calloc on the empty heap either return at once     *)
(* with nothing changed or run mm_init first.                              *)
LEMMA MallocFromEmpty ==
  ASSUME NEW s \in StateB(0 .. MAX_HEAP, Int), s.brk = 0, s.hs = NULL, NEW size \in Int
  PROVE  malloc(s, size) \in BpB(0 .. MAX_HEAP, {wsize})
<1>1. mm_init(s) \in StateB(0 .. MAX_HEAP, {wsize})
  BY MmInitFromEmpty
<1>. QED  BY <1>1, MallocOnT DEF malloc

(* A call that returns NULL on the state it was given changes nothing. *)
LEMMA QuietReturn ==
  ASSUME NEW g, NEW n, Return([st |-> S, bp |-> NULL], g, n)
  PROVE  S' = S /\ held' = g
BY DEF Return, Apply, S, Hold

(* The initial state satisfies InitInv, and InitInv gives NothingBeforeInit. *)
LEMMA InitInvInit == Init => InitInv
BY InitTypeOK DEF Init, InitInv, InitS, S

LEMMA InitInvSafe == InitInv => NothingBeforeInit
BY DEF InitInv, NothingBeforeInit, InitS, S, Held

(* InitInv is inductive.  A step from a state with heap_start set keeps  *)
(* it set (HeapStartKept); a step from the initial state either runs      *)
(* mm_init, directly or through malloc, and sets heap_start to wsize, or *)
(* is a realloc(NULL, 0) or a calloc that fails its overflow test, which *)
(* returns NULL and changes nothing.  free is disabled: nothing is held. *)
LEMMA InitInvStep ==
  ASSUME InitInv, [Next]_vars
  PROVE  InitInv'
<1>1. TypeOK'
  BY NextGrows DEF InitInv, Grows
<1>2. CASE heap_start /= NULL
  BY <1>1, <1>2, HeapStartKept DEF InitInv
<1>3. CASE heap_start = NULL
  <2>. SUFFICES heap_start' = wsize \/ (S' = S /\ held' = held)
    BY <1>1, <1>3 DEF InitInv, wsize, NULL, S
  <2>1. /\ S \in StateB(0 .. MAX_HEAP, Int) /\ S.brk = 0 /\ S.hs = NULL
        /\ Held = {}
    BY <1>3, HeapAssumption DEF InitInv, InitS, S, StateB, Held, NULL
  <2>1a. ASSUME NEW n \in Int PROVE malloc(S, n) \in BpB(0 .. MAX_HEAP, {wsize})
    <3>1. PICK t \in StateB(0 .. MAX_HEAP, Int) : t = S
      BY <2>1
    <3>2. malloc(t, n) \in BpB(0 .. MAX_HEAP, {wsize})
      BY <2>1, <3>1, MallocFromEmpty
    <3>. QED  BY <3>1, <3>2
  <2>2. CASE MmInit
    BY <2>1, <2>2, MmInitFromEmpty, InstallsHs DEF MmInit
  <2>3. ASSUME NEW size \in MallocSizes, Malloc(size) PROVE heap_start' = wsize
    <3>1. malloc(S, size) \in BpB(0 .. MAX_HEAP, {wsize})
      BY <2>1a, ArgsInt
    <3>. QED  BY <2>3, <3>1, ReturnsHs DEF Malloc
  <2>4. ASSUME NEW p \in Held, Free(p) PROVE FALSE
    BY <2>1, <2>4
  <2>5. ASSUME NEW p \in Held \cup {NULL}, NEW size \in MallocSizes, Realloc(p, size)
        PROVE  heap_start' = wsize \/ (S' = S /\ held' = held)
    <3>1. p = NULL
      BY <2>1
    <3>2. CASE size = 0
      <4>1. realloc(S, p, size) = [st |-> S, bp |-> NULL]
        BY <3>1, <3>2 DEF realloc, free
      <4>. QED  BY <2>5, <3>1, <4>1, QuietReturn DEF Realloc, ReallocReturn
    <3>3. CASE size /= 0
      <4>1. realloc(S, p, size) = malloc(S, size)
        BY <3>1, <3>3 DEF realloc, realloc_done
      <4>2. malloc(S, size) \in BpB(0 .. MAX_HEAP, {wsize})
        BY <2>1a, ArgsInt
      <4>. QED  BY <2>5, <4>1, <4>2, ReturnsHs DEF Realloc, ReallocReturn
    <3>. QED  BY <3>2, <3>3
  <2>6. ASSUME NEW a \in CallocArgs, Calloc(a[1], a[2])
        PROVE  heap_start' = wsize \/ (S' = S /\ held' = held)
    <3>. DEFINE asize == (a[1] * a[2]) % SIZE_T_MOD
    <3>1. CASE a[1] = 0 \/ asize \div a[1] /= a[2]
      <4>1. calloc(S, a[1], a[2]) = [st |-> S, bp |-> NULL]
        BY <3>1 DEF calloc
      <4>. QED  BY <2>6, <4>1, QuietReturn DEF Calloc
    <3>2. CASE ~(a[1] = 0 \/ asize \div a[1] /= a[2])
      <4>1. calloc(S, a[1], a[2]) = malloc(S, asize)
        BY <3>2 DEF calloc
      <4>2. asize \in Int
        BY ArgsInt, SizeTModAssumption
      <4>3. malloc(S, asize) \in BpB(0 .. MAX_HEAP, {wsize})
        BY <2>1a, <4>2
      <4>. HIDE DEF asize
      <4>. QED  BY <2>6, <4>1, <4>3, ReturnsHs DEF Calloc
    <3>. QED  BY <3>1, <3>2
  <2>7. CASE UNCHANGED vars
    BY <2>7 DEF vars, S
  <2>. QED  BY <2>2, <2>3, <2>4, <2>5, <2>6, <2>7 DEF Next
<1>. QED  BY <1>2, <1>3

(* Nothing happens before mm_init (NothingBeforeInit): while heap_start  *)
(* is NULL memlib's heap is empty and the client holds no pointer, so    *)
(* malloc never works on a heap that mm_init has not laid out, although  *)
(* it ignores mm_init's result; for every value of the constants.        *)
THEOREM NoCallBeforeInit == Spec => []NothingBeforeInit
<1>1. InitInv /\ [Next]_vars => InitInv'
  BY InitInvStep
<1>. QED  BY InitInvInit, <1>1, InitInvSafe, PTL DEF Spec

=============================================================================
