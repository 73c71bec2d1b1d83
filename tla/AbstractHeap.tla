---------------------------- MODULE AbstractHeap ----------------------------
(***************************************************************************)
(* What the library's callers take malloc and free for.  A block is an     *)
(* interval of bytes, its header included.  malloc gives a pointer a block *)
(* that shares no byte with a block in use, free takes one back, and       *)
(* nothing else ever changes a block.  A call that fails changes nothing.  *)
(***************************************************************************)
EXTENDS Integers

CONSTANTS
  Handles,  \* the pointers
  None      \* the value of a pointer without a block

VARIABLE held  \* the block of each pointer

Intervals == [from : Nat, to : Nat]
Disjoint(a, b) == a.to <= b.from \/ b.to <= a.from

Init == held = [h \in Handles |-> None]

malloc(h) ==
  /\ held[h] = None
  /\ held'[h] \in Intervals /\ held'[h].from < held'[h].to
  /\ held' = [held EXCEPT ![h] = held'[h]]
  /\ \A g \in Handles \ {h} :
       held[g] # None => Disjoint(held[g], held'[h])

free(h) ==
  /\ held[h] # None
  /\ held' = [held EXCEPT ![h] = None]

Next == \E h \in Handles : malloc(h) \/ free(h)

Spec == Init /\ [][Next]_held
=============================================================================
