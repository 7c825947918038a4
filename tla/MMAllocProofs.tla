----------------------------- MODULE MMAllocProofs -----------------------------
(***************************************************************************)
(* Proofs about the abstract allocator MMAlloc: the live payloads never   *)
(* overlap and always lie inside the heap.  With ImplementsAlloc, which   *)
(* TLC checks of MMHeap, this carries over to the payloads mm.c hands out. *)
(***************************************************************************)
EXTENDS MMAlloc, TLAPS

(* The inductive invariant: types, disjointness and containment together. *)
IInv == TypeOK /\ Disjoint /\ InHeap

LEMMA InitIInv ==
  ASSUME AllocAssumption
  PROVE  Init => IInv
BY DEF AllocAssumption, Init, IInv, TypeOK, Disjoint, InHeap

(* A payload obtained through Fits, against the payloads live before the *)
(* step, keeps the invariant; p is the payload released at the same time *)
(* (q itself for a plain Alloc, where nothing is released).              *)
LEMMA FreshIInv ==
  ASSUME AllocAssumption, IInv,
         NEW p \in Ptr, NEW q \in Ptr, NEW n \in Sizes,
         live[q] = 0, Fits(q, n), Grow,
         live' = [live EXCEPT ![p] = 0, ![q] = n] \/ live' = [live EXCEPT ![q] = n]
  PROVE  IInv'
<1>. USE DEF AllocAssumption
<1>1. n \in Nat /\ n > 0 /\ q \in Nat
  OBVIOUS
<1>2. top' \in 0 .. Limit /\ top <= top'
  BY DEF Grow, IInv, TypeOK
<1>3. \A r \in Ptr : live'[r] = 0 \/ live'[r] = live[r] \/ (r = q /\ live'[r] = n)
  BY DEF IInv, TypeOK
<1>4. live' \in [Ptr -> Nat]
  BY <1>1 DEF IInv, TypeOK
<1>5. Disjoint'
  <2> SUFFICES ASSUME NEW a \in Ptr, NEW b \in Ptr, a /= b, live'[a] > 0, live'[b] > 0
               PROVE  a + live'[a] <= b \/ b + live'[b] <= a
    BY DEF Disjoint
  <2>1. CASE a = q
    BY <1>1, <1>3, <2>1 DEF Fits, IInv, TypeOK
  <2>2. CASE b = q
    BY <1>1, <1>3, <2>2 DEF Fits, IInv, TypeOK
  <2>3. CASE a /= q /\ b /= q
    BY <1>3, <2>3 DEF IInv, Disjoint, TypeOK
  <2>. QED  BY <2>1, <2>2, <2>3
<1>6. InHeap'
  <2> SUFFICES ASSUME NEW a \in Ptr, live'[a] > 0 PROVE a + live'[a] <= top'
    BY DEF InHeap
  <2>1. CASE a = q
    BY <1>3, <2>1 DEF Fits
  <2>2. CASE a /= q
    BY <1>2, <1>3, <2>2 DEF IInv, InHeap, TypeOK
  <2>. QED  BY <2>1, <2>2
<1>. QED  BY <1>2, <1>4, <1>5, <1>6 DEF IInv, TypeOK

LEMMA NextIInv ==
  ASSUME AllocAssumption
  PROVE  IInv /\ [Next]_vars => IInv'
<1> SUFFICES ASSUME IInv, [Next]_vars PROVE IInv'
  OBVIOUS
<1>1. CASE Fail
  BY <1>1 DEF AllocAssumption, Fail, Grow, IInv, TypeOK, Disjoint, InHeap
<1>2. ASSUME NEW p \in Ptr, Release(p) PROVE IInv'
  <2>1. \A r \in Ptr : live'[r] = 0 \/ live'[r] = live[r]
    BY <1>2 DEF Release, IInv, TypeOK
  <2>2. live' \in [Ptr -> Nat]
    BY <1>2 DEF Release, IInv, TypeOK
  <2>. QED  BY <1>2, <2>1, <2>2 DEF Release, IInv, TypeOK, Disjoint, InHeap
<1>3. ASSUME NEW q \in Ptr, NEW n \in Sizes, Alloc(q, n) PROVE IInv'
  BY <1>3, FreshIInv DEF Alloc
<1>4. ASSUME NEW p \in Ptr, NEW q \in Ptr, NEW n \in Sizes, Move(p, q, n) PROVE IInv'
  BY <1>4, FreshIInv DEF Move
<1>5. CASE UNCHANGED vars
  BY <1>5 DEF vars, IInv, TypeOK, Disjoint, InHeap
<1>. QED  BY <1>1, <1>2, <1>3, <1>4, <1>5 DEF Next

(* Whatever calls the client makes, no two live payloads share a byte and *)
(* every live payload lies inside the heap: malloc, calloc and realloc    *)
(* only hand out bytes no other live payload holds, below the break.      *)
THEOREM AllocSafe ==
  ASSUME AllocAssumption
  PROVE  Spec => [](Disjoint /\ InHeap)
<1>1. Init => IInv
  BY InitIInv
<1>2. IInv /\ [Next]_vars => IInv'
  BY NextIInv
<1>3. IInv => Disjoint /\ InHeap
  BY DEF IInv
<1>. QED  BY <1>1, <1>2, <1>3, PTL DEF Spec

=============================================================================
