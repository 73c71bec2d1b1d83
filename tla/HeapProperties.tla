-------------------------- MODULE HeapProperties --------------------------
(***************************************************************************)
(* What the allocator of module Heap promises, and to which clients.       *)
(***************************************************************************)
EXTENDS Heap

BlockTypes == {"FREE", "USED", "HUGE", "STALE"}
Steps == {"first_setup", "find_available_fragment", "no_good_fragments",
          "open_page", "undo_open_page", "link_page", "fix_block_header",
          "large_bro", "large_free_bro", "drop_usage", "insert_fragment"}
Crashes == {"segv", "wild", "clobbered"}

Address0 == [page : Page \cup {nullptr}, off : Nat]
PageHeader == [usages : Int, next_page : Page \cup {nullptr},
               prev_page : Page \cup {nullptr}]
BlockHeader == [type : BlockTypes, size : Nat, page : Page \cup {nullptr}]

(* Every variable has its type; only addresses inside pages have headers,  *)
(* and a counter of uses is an integer, for 0 - 1 wraps in the code.       *)
TypeOK ==
  /\ mapped \in [Page -> {"none", "norm", "frag", "huge"}]
  /\ page_hdr \in [Page -> PageHeader]
  /\ DOMAIN blocks \subseteq [page : Page, off : Nat]
  /\ \A a \in DOMAIN blocks : blocks[a] \in BlockHeader
  /\ first_page_ptr \in Page \cup {nullptr}
  /\ current_page \in Page \cup {nullptr}
  /\ current_block \in Nat
  /\ current_page_free_bytes \in Int
  /\ touched \in Nat
  /\ first_fragment_list_header \in Page \cup {nullptr, ErrPtr}
  /\ free_spaces \in Int
  /\ nodes_taken \in Int
  /\ fragments \in Seq([page : Page, off : Nat])
  /\ pc \in {"idle"} \cup Steps \cup Crashes
  /\ handle \in Handles \cup {NoHandle}
  /\ req \in Nat
  /\ block \in Address0
  /\ next_page_ptr \in Page \cup {nullptr}
  /\ live \in [Handles -> [page : Page \cup {nullptr}, off : Nat, size : Nat]]
  /\ ret \in {"none", "ok", "error"}

Small == {h \in Live : live[h].off # 0}

(***************************************************************************)
(* For clients that keep the rules.  Without any one of them blocks come   *)
(* to overlap, or to lie behind their page, and what the allocator reads   *)
(* is then what the client wrote.                                          *)
(***************************************************************************)

(* No header, page head or node of the allocator is ever overwritten, by   *)
(* what clients write into the blocks they were given or by a header that  *)
(* malloc writes past the end of a page (malloc.c:460, 501).               *)
HeadersIntact == pc # "clobbered"

(* The list of fragments never has two nodes, whatever is freed: an        *)
(* insertion into a list of one drops the old node (insert_fragment), and  *)
(* no listed header has the size 0 for which it would not (line 202).      *)
SingleFragment == Len(fragments) <= 1

(* Bytes between the header that the next block of the current page would  *)
(* have and the end of the page.                                           *)
RoomLeft == MALLOC_PAGE_SIZE - NextBlock - BHEADERSIZE

(* current_page_free_bytes never promises more than the page has, although *)
(* it is also charged for fragments that lie on other pages.               *)
FreeBytesSound ==
  /\ current_page # nullptr
  /\ pc \in {"idle", "no_good_fragments", "open_page"}
  => current_page_free_bytes <= RoomLeft

(* Every block that malloc handed out from a page lies inside the page,    *)
(* header and data, and behind the page's own header.                      *)
BlocksInPage ==
  \A h \in Small : /\ live[h].off >= PHEADERSIZE
                   /\ live[h].off + BHEADERSIZE + live[h].size
                        <= MALLOC_PAGE_SIZE

Apart(x, y) == Past(x) <= First(y) \/ Past(y) <= First(x)

Fragment(i) == [page |-> fragments[i].page, off |-> fragments[i].off,
                size |-> Header(fragments[i]).size]

(* No two blocks in the client's hands share a byte, headers included.     *)
(* (A huge block whose header does not fit into its last page is none that *)
(* the rules allow for: see HugeBacked.)                                   *)
DisjointBlocks ==
  \A g, h \in Live : g # h => Apart(live[g], live[h])

(* malloc and free are those of AbstractHeap: whatever happens inside a    *)
(* call, what the client holds changes by one block that was nobody's, or  *)
(* by one that is given back.                                              *)
Held == [h \in Handles |->
           IF live[h] = NoBlock THEN NoBlock
           ELSE [from |-> First(live[h]), to |-> Past(live[h])]]
Abstract == INSTANCE AbstractHeap WITH None <- NoBlock, held <- Held
ImplementsAbstract == Abstract!Spec

(* A huge block, header and data, lies in pages mapped for it from its     *)
(* malloc to its free, whatever is unmapped meanwhile, if its length       *)
(* leaves room for the header: the mapping is as long as the data alone    *)
(* (malloc, large_bro).                                                    *)
HeaderFits(n) == PagesFor(n + BHEADERSIZE) = PagesFor(n)
HugeBacked ==
  \A h \in Live \ Small : HeaderFits(live[h].size) =>
    \A q \in live[h].page..((Past(live[h]) - 1) \div MALLOC_PAGE_SIZE) :
      Is(q, "huge")

(* What the list holds is free, and apart from every block in use.         *)
ListedAreFree ==
  pc = "idle" =>
    \A i \in 1..Len(fragments) :
      /\ Header(fragments[i]).type = "FREE"
      /\ \A h \in Small : Apart(Fragment(i), live[h])

(* The uses counted on a page are the live blocks charged to it: the page  *)
(* in the block's header, not the page the block lies on.                  *)
ChargedTo(p) == {h \in Small : Header(Address(h)).page = p}
UsagesExact ==
  pc = "idle" =>
    \A p \in Page : Is(p, "norm") =>
      page_hdr[p].usages = Cardinality(ChargedTo(p))

(* Every page of small blocks but the first one is the next_page of the    *)
(* page that its prev_page names, which is mapped: a malloc that failed    *)
(* half way has given its new page back, and no page is unmapped between.  *)
PagesLinked ==
  pc = "idle" =>
    \A p \in Page : Is(p, "norm") =>
      \/ p = first_page_ptr
      \/ LET q == page_hdr[p].prev_page
         IN Is(q, "norm") /\ page_hdr[q].next_page = p /\ q # p

(* The allocator touches memory it does not have only after an mmap for a  *)
(* fragment page failed (its error code is kept as the page's address) or  *)
(* when a fragment page is full; nothing of its own is ever overwritten.   *)
FaultsExplained ==
  /\ pc = "segv" => first_fragment_list_header = ErrPtr
  /\ pc = "wild" => nodes_taken = MaxListNodes
  /\ HeadersIntact
=============================================================================
