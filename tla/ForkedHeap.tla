----------------------------- MODULE ForkedHeap -----------------------------
(***************************************************************************)
(* The allocator of module Heap in a process and in a child that cmd of    *)
(* lib/src/os.c has forked and whose execve failed: the child returns into *)
(* the caller's code and allocates and frees there, while the parent waits *)
(* for its end.                                                            *)
(*                                                                         *)
(* The pages are MAP_SHARED: what the child writes to a page that its      *)
(* parent had mapped stays.  Its copies of the globals, its own mappings   *)
(* and what it unmapped are gone with it, at whatever step it ends.        *)
(***************************************************************************)
EXTENDS HeapProperties

CONSTANT MaxForks  \* bound: children, one after the other

ASSUME ForkAssumption == MaxForks \in Nat

VARIABLES
  parent,  \* what is private to the process that waits, NoParent without one
  forks

fhvars == <<vars, parent, forks>>

NoParent == <<>>
InChild  == parent # NoParent

Private ==
  [mapped |-> mapped, first_page_ptr |-> first_page_ptr,
   current_page |-> current_page, current_block |-> current_block,
   current_page_free_bytes |-> current_page_free_bytes, touched |-> touched,
   live |-> live, ret |-> ret]

FHInit == Init /\ parent = NoParent /\ forks = 0

(* cmd, between two calls of the allocator.  A fourth rule: only while     *)
(* there is no fragment page, for its nodes are shared too, and the parent *)
(* would follow the links of its child.  A fifth: not before the current   *)
(* page has a block (the malloc that mapped it failed), for the child's    *)
(* first block would be where its parent's is to be.                       *)
Fork ==
  /\ ~InChild /\ pc = "idle" /\ forks < MaxForks
  /\ first_fragment_list_header = nullptr
  /\ first_page_ptr # nullptr => Header(CurrentBlock).type # "FREE"
  /\ parent' = Private /\ forks' = forks + 1
  /\ UNCHANGED vars

(* What the child has left on the page that the parent goes on using: data *)
(* up to where it got, and on all of the page if it has left it.           *)
TouchedByBoth ==
  IF current_page # parent.current_page THEN MALLOC_PAGE_SIZE
  ELSE IF touched > parent.touched THEN touched ELSE parent.touched

(* The child exits or is killed and wait4 returns in the parent. *)
ChildEnds ==
  /\ InChild
  /\ blocks' = [a \in {a \in DOMAIN blocks : parent.mapped[a.page] # "none"}
                  |-> blocks[a]]
  /\ page_hdr' = page_hdr
  /\ mapped' = parent.mapped
  /\ first_page_ptr' = parent.first_page_ptr
  /\ current_page' = parent.current_page
  /\ current_block' = parent.current_block
  /\ current_page_free_bytes' = parent.current_page_free_bytes
  /\ touched' = TouchedByBoth
  /\ first_fragment_list_header' = nullptr
  /\ free_spaces' = 0 /\ nodes_taken' = 0 /\ fragments' = <<>>
  /\ pc' = "idle" /\ handle' = NoHandle /\ req' = 0 /\ block' = Nothing
  /\ next_page_ptr' = nullptr
  /\ live' = parent.live /\ ret' = parent.ret
  /\ parent' = NoParent /\ UNCHANGED forks

(* A sixth rule: the child does not free what it has from its parent. *)
Inherited(h) == InChild /\ parent.live[h] # NoBlock

(* A seventh: where there has been a child, a call that fails is the last  *)
(* one.  A malloc that fails half way can leave a current block whose type *)
(* is old data of the child (OpenPage), and the next block, header and     *)
(* all, would be written behind the page (malloc.c:501).                   *)
StopsOnError == forks > 0 => ret # "error"

FHNext ==
  \/ Fork \/ ChildEnds
  \/ /\ \/ \E h \in Handles, n \in Requests :
                StopsOnError /\ MallocCall(h, n)
        \/ \E h \in Handles :
                StopsOnError /\ ~Inherited(h) /\ FreeCall(h)
        \/ Step
     /\ UNCHANGED <<parent, forks>>

FHSpec == FHInit /\ [][FHNext]_fhvars

(***************************************************************************)
(* Properties, in parent and child, for clients that keep the rules.       *)
(***************************************************************************)

(* A page counts at least the blocks that are charged to it, so that it is *)
(* not unmapped under one: blocks of a child that has ended are counted    *)
(* for ever.                                                               *)
UsesCovered ==
  pc = "idle" =>
    \A p \in Page : Is(p, "norm") =>
      page_hdr[p].usages >= Cardinality(ChargedTo(p))
=============================================================================
