------------------------ MODULE ForkedHeapInvariant ------------------------
(***************************************************************************)
(* The inductive invariant of a heap whose pages a process shares with its *)
(* children, one after the other: the running process has its memory in    *)
(* order (RInv), and what its parent needs to go on is as it was.          *)
(***************************************************************************)
EXTENDS ForkedHeap, HeapRules

ParentBlock == At(parent.current_page, parent.current_block)
OfParent(p) == p \in Page /\ parent.mapped[p] # "none"
Inheritance == {h \in Handles : parent.live[h] # NoBlock}

(* Where a child writes headers: on its own pages, and behind its parent's *)
(* current block.                                                          *)
Beyond(a) ==
  ~OfParent(a.page) \/ (a.page = parent.current_page /\ a.off > parent.current_block)

ParentType ==
  /\ parent.mapped \in [Page -> {"none", "norm", "frag", "huge"}]
  /\ parent.live \in [Handles -> [page : Page \cup {nullptr}, off : Nat, size : Nat]]
  /\ parent.first_page_ptr \in Page \cup {nullptr}
  /\ parent.current_page \in Page \cup {nullptr}
  /\ parent.current_block \in Nat /\ parent.touched \in Nat
  /\ parent.current_page_free_bytes \in Int
  /\ parent.ret \in {"none", "ok", "error"}

(* The parent's pages are what they were, and no step is about to unmap    *)
(* one.                                                                    *)
ParentPages ==
  /\ \A p \in Page : OfParent(p) => mapped[p] = parent.mapped[p]
  /\ ~OfParent(first_fragment_list_header)
  /\ OpeningPage => ~OfParent(next_page_ptr)

(* The parent's blocks are in use, described by the headers they had, on   *)
(* its pages and not behind its current block.                             *)
ParentBlocks ==
  /\ \A h \in Inheritance :
       /\ live[h] = parent.live[h]
       /\ OfParent(live[h].page)
       /\ live[h].off # 0 =>
            /\ OfParent(blocks[Address(h)].page)
            /\ live[h].page = parent.current_page =>
                 Address(h) = ParentBlock \/ End(Address(h)) <= parent.current_block
       /\ live[h].off = 0 => \A q \in PagesOf(live[h]) : OfParent(q)
  /\ pc = "large_free_bro" \/ FreeingSmall => handle \notin Inheritance
  /\ \A h \in Live \ Inheritance : live[h].off = 0 => ~OfParent(live[h].page)

(* The parent's current block, and the room that its counter promises. *)
ParentArena ==
  /\ parent.first_page_ptr = nullptr =>
       /\ parent.current_page = nullptr
       /\ \A a \in DOMAIN blocks : OfParent(a.page) => a.off = 0
       /\ \A h \in Inheritance : parent.live[h].off = 0
  /\ parent.first_page_ptr # nullptr =>
       /\ first_page_ptr # nullptr
       /\ parent.current_block >= PHEADERSIZE
       /\ OfParent(parent.current_page)
       /\ parent.mapped[parent.current_page] = "norm"
       /\ ParentBlock \in DOMAIN blocks
       /\ blocks[ParentBlock].type # "FREE"
       /\ parent.current_page_free_bytes
            <= MALLOC_PAGE_SIZE - parent.current_block - BHEADERSIZE
       /\ \/ parent.current_page_free_bytes
               <= MALLOC_PAGE_SIZE - End(ParentBlock) - BHEADERSIZE
          \/ /\ blocks[ParentBlock].type = "STALE"
             /\ End(ParentBlock) = MALLOC_PAGE_SIZE

(* What the child has, and where it goes on, is beyond what its parent has.*)
ChildBeyond ==
  /\ first_page_ptr # nullptr => CurrentBlock = ParentBlock \/ Beyond(CurrentBlock)
  /\ \A i \in 1..Len(fragments) : Beyond(fragments[i])
  /\ \A h \in Small \ Inheritance : Beyond(Address(h))
  /\ pc = "fix_block_header" => Beyond(block)
  /\ pc = "insert_fragment" => Beyond(block)

ParentKept ==
  InChild =>
    /\ ParentType /\ ParentPages /\ ParentBlocks /\ ParentArena /\ ChildBeyond

(* A current block whose type is old data is what a malloc left that       *)
(* failed, or fails now: nobody goes on from it.                           *)
OldDataIn(a) == a \in DOMAIN blocks /\ blocks[a].type = "STALE"
StaleFails ==
  /\ forks \in Nat /\ (InChild => forks > 0)
  /\ forks = 0 => NoOldData
  /\ OldDataIn(CurrentBlock) =>
       \/ pc \in Crashes \/ Carved
       \/ OpeningPage /\ pc \in {"insert_fragment", "undo_open_page"}
       \/ forks > 0 /\ pc = "idle" /\ ret = "error"
  /\ InChild /\ OldDataIn(ParentBlock) => parent.ret = "error"

(* So the headers that malloc is about to write lie on their page. *)
BlockFits == pc = "fix_block_header" => ~PastEnd(block)
WrittenInPage == CurrentFits /\ BlockFits

UsesCover ==
  \A p \in Page : Is(p, "norm") => page_hdr[p].usages >= Cardinality(ChargedTo(p))

FHInv == IInv /\ RInv /\ ParentKept
=============================================================================
