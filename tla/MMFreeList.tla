------------------------------ MODULE MMFreeList ------------------------------
(***************************************************************************)
(* The heap memory and the free-list directory of mm.c, with the placement *)
(* engine that searches it.                                                *)
(*                                                                         *)
(* The allocator's state is a record s:                                    *)
(*   s.mem  the heap as an array of 8-byte words; byte address a is word   *)
(*          a \div 8, addresses are offsets from mem_heap_lo()             *)
(*   s.fl   free_list_start[0..13], the bucket heads                       *)
(*   s.brk  memlib's break: the heap occupies bytes 0 .. s.brk - 1         *)
(*   s.hs   heap_start                                                     *)
(* A block at address b keeps its header at b, its next link at b + 8 and *)
(* its prev link at b + 16 (struct block); a footer sits at b + size - 8.  *)
(* Headers, footers and links share the one word array, so a write through *)
(* a link lands where the code's pointer points.                           *)
(***************************************************************************)
EXTENDS MMCodec

CONSTANTS
  MAX_HEAP,      \* memlib's MAX_HEAP: bytes the page provider can hand out
  SEARCH_TIME    \* searchtime: nodes find_fit_basic compares before it settles

ASSUME HeapAssumption == MAX_HEAP \in Nat /\ MAX_HEAP % 16 = 0 /\ MAX_HEAP >= 16
ASSUME SearchAssumption == SEARCH_TIME \in Nat

Words == 0 .. (MAX_HEAP \div 8) - 1

(* Most blocks the heap can hold: every block is at least 16 bytes. *)
MaxBlocks == MAX_HEAP \div 16

(* A word read; outside the memlib region it yields 0. *)
Read(m, a) == IF a \div 8 \in Words THEN m[a \div 8] ELSE 0

Write(m, a, v) == [m EXCEPT ![a \div 8] = v]

set_word(s, a, v) == [s EXCEPT !.mem = Write(@, a, v)]

get_size(s, b) == extract_size(Read(s.mem, b))

(* block->next and block->prev *)
find_next_free(s, b) == Read(s.mem, b + 8)
find_prev_free(s, b) == Read(s.mem, b + 16)

set_next(s, b, v) == set_word(s, b + 8, v)
set_prev(s, b, v) == set_word(s, b + 16, v)
set_head(s, i, v) == [s EXCEPT !.fl[i] = v]

-----------------------------------------------------------------------------
(* Buckets 1..13: doubly linked circular lists, LIFO at the head. *)
insert_free_basic(s, b, i) ==
  IF s.fl[i] = NULL
  THEN set_head(set_next(set_prev(s, b, b), b, b), i, b)
  ELSE LET old_start == s.fl[i]
           old_end == find_prev_free(s, old_start)
           s1 == set_next(set_prev(s, b, old_end), old_end, b)
       IN  set_head(set_prev(set_next(s1, b, old_start), old_start, b), i, b)

(* Bucket 0: singly linked, the tail's next is itself. *)
insert_free_mini(s, b, i) ==
  IF s.fl[i] = NULL
  THEN set_head(set_next(s, b, b), i, b)
  ELSE set_head(set_next(s, b, s.fl[i]), i, b)

insert_free(s, b) ==
  LET i == get_free_list(get_size(s, b))
  IN  IF i = 0 THEN insert_free_mini(s, b, i) ELSE insert_free_basic(s, b, i)

(* Unlinks b from bucket i through b's own prev and next links. *)
clear_free_basic(s, b, i) ==
  IF s.fl[i] = NULL THEN s
  ELSE LET pb == find_prev_free(s, b)
           nb == find_next_free(s, b)
           s1 == IF pb = nb
                 THEN IF pb = b THEN set_head(s, i, NULL)
                      ELSE set_head(set_next(set_prev(s, pb, pb), pb, pb), i, pb)
                 ELSE s
           s2 == set_prev(set_next(s1, pb, nb), nb, pb)
       IN  IF b = s2.fl[i] THEN set_head(s2, i, nb) ELSE s2

(* Bucket 0: a block whose next is itself is taken for the only member;   *)
(* otherwise the head advances, or the walk from the head (which stops at *)
(* the self-looped tail) relinks the first node whose next is b.          *)
clear_free_mini(s, b, i) ==
  IF s.fl[i] = NULL THEN s
  ELSE LET nb == find_next_free(s, b)
           node[k \in 0 .. MaxBlocks] ==
             IF k = 0 THEN s.fl[i] ELSE find_next_free(s, node[k - 1])
           hits == {k \in 0 .. MaxBlocks :
                      /\ find_next_free(s, node[k]) = b
                      /\ \A j \in 0 .. k : node[j] /= find_next_free(s, node[j])}
       IN  CASE b = nb         -> set_head(s, i, NULL)
             [] b = s.fl[i]    -> set_head(s, i, nb)
             [] hits = {}      -> s
             [] OTHER          ->
                  set_next(s, node[CHOOSE k \in hits : \A j \in hits : k <= j], nb)

clear_free(s, b) ==
  LET i == get_free_list(get_size(s, b))
  IN  IF i = 0 THEN clear_free_mini(s, b, i) ELSE clear_free_basic(s, b, i)

-----------------------------------------------------------------------------
(* The value of a call that never returns. *)
Diverge == -1

(* find_fit_basic: the loop walks the list from start by next links until *)
(* it is back at start.  Iteration k visits node k with times = k - 1.     *)
(* A near fit (slack <= 16) returns at once; at times = searchtime the     *)
(* best fit so far is returned if the head fits; otherwise best tracks    *)
(* the least (size_t) slack, and, while the head does not fit, simply the *)
(* last node visited.  The loop state holds node indices; node k is start *)
(* for k = 0 and the next link of node k - 1 otherwise.                   *)
find_fit_basic(s, asize, start) ==
  IF start = NULL THEN NULL
  ELSE
  LET size(b) == get_size(s, b)
      near(b) == asize <= size(b) /\ size(b) - asize <= 16
      init == asize <= size(start)
      node[k \in 0 .. MaxBlocks + 1] ==
        IF k = 0 THEN start ELSE find_next_free(s, node[k - 1])
      visit(k) == IF k = 0 THEN start ELSE find_next_free(s, node[k - 1])
      loop[k \in 0 .. MaxBlocks + 1] ==
        IF k = 0
        THEN [over |-> FALSE, hit |-> FALSE, at |-> 0, best |-> 0,
              mindiff |-> IF init THEN size(start) - asize ELSE 0]
        ELSE LET st == loop[k - 1]
                 b == visit(k)
                 diff == (size(b) - asize) % SIZE_T_MOD
             IN  CASE st.over \/ b = start -> [st EXCEPT !.over = TRUE]
                   [] near(b) -> [st EXCEPT !.over = TRUE, !.hit = TRUE, !.at = k]
                   [] k - 1 = SEARCH_TIME /\ init ->
                        [st EXCEPT !.over = TRUE, !.hit = TRUE, !.at = st.best]
                   [] k - 1 = SEARCH_TIME -> st
                   [] ~init \/ diff < st.mindiff ->
                        [st EXCEPT !.best = k, !.mindiff = diff]
                   [] OTHER -> st
      fin == loop[MaxBlocks + 1]
  IN  CASE near(start) -> start
        [] ~fin.over   -> Diverge
        [] fin.hit     -> visit(fin.at)
        [] init        -> visit(fin.best)
        [] OTHER       -> NULL

(* Mutant: every bucket from 0 up is searched, whatever asize. *)
find_fit_allbuckets(s, asize) ==
  LET r == [i \in Buckets |-> find_fit_basic(s, asize, s.fl[i])]
      hits == {i \in Buckets : r[i] /= NULL}
  IN  IF hits = {} THEN NULL ELSE r[CHOOSE i \in hits : \A j \in hits : i <= j]

(* find_fit: buckets get_free_list(asize) .. 13 in order, the first       *)
(* non-NULL answer of find_fit_basic.                                     *)
find_fit(s, asize) ==
  LET i0 == get_free_list(asize)
      r == [i \in i0 .. free_size - 1 |-> find_fit_basic(s, asize, s.fl[i])]
      hits == {i \in i0 .. free_size - 1 : r[i] /= NULL}
  IN  IF hits = {} THEN NULL ELSE r[CHOOSE i \in hits : \A j \in hits : i <= j]

=============================================================================
