----------------------------- MODULE Allocator -----------------------------
(***************************************************************************)
(* What a memory manager owes the objects that live in it, whatever the    *)
(* way it finds room for them: memory that nobody else uses.  It may take  *)
(* back any number of allocations and make any number of new ones in a     *)
(* step.  Addresses are never handed out twice, so that a reference to a   *)
(* dead object cannot come to mean a new one.                              *)
(*                                                                         *)
(* MemoryManager implements it with byte addresses.  Interpreter           *)
(* implements it with the numbers that stand for its objects.              *)
(***************************************************************************)
VARIABLES
  regions,   \* the live allocations, each a set of addresses
  spent      \* the addresses that have been handed out so far

Disjoint(R) == \A r, s \in R : r # s => r \cap s = {}

Init == regions = {}

Next ==
  /\ spent \subseteq spent'
  /\ \A r \in regions' \ regions : r # {} /\ r \subseteq spent' \ spent
  /\ Disjoint(regions' \ regions)

Spec == Init /\ [][Next]_<<regions, spent>>

-----------------------------------------------------------------------------
\* No two live allocations share an address, so that each object's memory is
\* its own; and only addresses that were handed out are in use.
Separated == Disjoint(regions) /\ \A r \in regions : r \subseteq spent

=============================================================================
