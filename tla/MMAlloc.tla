-------------------------------- MODULE MMAlloc --------------------------------
(***************************************************************************)
(* What the malloc package promises its client, without blocks, headers   *)
(* or lists: a set of live payloads, each an address with the byte count  *)
(* it was handed out for, inside a heap that only grows.                   *)
(*                                                                         *)
(*   live[p]  bytes the client may use from payload address p; 0 if p is   *)
(*            not live                                                     *)
(*   top      the heap's extent: every live payload lies below it          *)
(*                                                                         *)
(* A call may allocate one fresh payload, release one, or do both at once *)
(* (realloc: the new payload is obtained while the old one is still live, *)
(* and then the old one is released).  Any call may grow the heap, and a  *)
(* call that fails changes nothing else.                                   *)
(***************************************************************************)
EXTENDS Integers

CONSTANTS
  Ptr,      \* the addresses a payload can have
  Sizes,    \* the byte counts the client asks for
  Limit     \* the most bytes the heap can grow to

(* What the proofs take of the constants.  The module is used through    *)
(* INSTANCE, so this is a hypothesis of its theorems, not an ASSUME.     *)
AllocAssumption == Ptr \subseteq Nat /\ Sizes \subseteq Nat \ {0} /\ Limit \in Nat

VARIABLES live, top

vars == <<live, top>>

TypeOK ==
  /\ live \in [Ptr -> Nat]
  /\ top \in 0 .. Limit

(* n bytes from q lie below the heap's new extent and overlap no payload *)
(* that is live before the call.                                          *)
Fits(q, n) ==
  /\ q + n <= top'
  /\ \A p \in Ptr : live[p] > 0 => q + n <= p \/ p + live[p] <= q

(* The heap's extent never shrinks and never passes Limit. *)
Grow == top' \in top .. Limit

Init ==
  /\ live = [p \in Ptr |-> 0]
  /\ top = 0

(* malloc or calloc hands out the fresh payload q, of n bytes. *)
Alloc(q, n) ==
  /\ live[q] = 0
  /\ live' = [live EXCEPT ![q] = n]
  /\ Grow
  /\ Fits(q, n)

(* free, or realloc to size 0, releases p. *)
Release(p) ==
  /\ live[p] > 0
  /\ live' = [live EXCEPT ![p] = 0]
  /\ UNCHANGED top

(* realloc moves p to the fresh payload q, of n bytes. *)
Move(p, q, n) ==
  /\ live[p] > 0
  /\ live[q] = 0
  /\ live' = [live EXCEPT ![p] = 0, ![q] = n]
  /\ Grow
  /\ Fits(q, n)

(* A call that hands out and releases nothing: a request of size 0, a    *)
(* failed one, mm_init.                                                   *)
Fail ==
  /\ UNCHANGED live
  /\ Grow

Next ==
  \/ Fail
  \/ \E p \in Ptr : Release(p)
  \/ \E q \in Ptr, n \in Sizes : Alloc(q, n)
  \/ \E p, q \in Ptr, n \in Sizes : Move(p, q, n)

Spec == Init /\ [][Next]_vars

-----------------------------------------------------------------------------
(* No two live payloads share a byte: the client's writes to one payload *)
(* never reach another, whatever sequence of calls it makes.              *)
Disjoint ==
  \A p, q \in Ptr :
    p /= q /\ live[p] > 0 /\ live[q] > 0 => p + live[p] <= q \/ q + live[q] <= p

(* Every live payload lies inside the heap. *)
InHeap == \A p \in Ptr : live[p] > 0 => p + live[p] <= top

=============================================================================
