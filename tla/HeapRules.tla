----------------------------- MODULE HeapRules -----------------------------
(***************************************************************************)
(* The inductive invariant behind the properties that module Heap has for  *)
(* a client that keeps all three rules.                                    *)
(***************************************************************************)
EXTENDS HeapInvariant

(* The client: its huge requests leave room for the header. *)
RulesKept ==
  /\ Rules = RuleNames
  /\ \A n \in Requests : n > FreshBytes => HeaderFits(n)

End(a) == a.off + BHEADERSIZE + blocks[a].size

(* No pointer of the allocator to a page is stale. *)
PagesThere ==
  /\ first_page_ptr # nullptr => Is(current_page, "norm")
  /\ first_fragment_list_header \in Page => Is(first_fragment_list_header, "frag")

(* Every header lies where its kind of block may, with its data. *)
HeadersThere ==
  \A a \in DOMAIN blocks :
    /\ Readable(a)
    /\ a.off # 0 => End(a) <= MALLOC_PAGE_SIZE

(* The blocks of the pages that are somebody's: the client's, the list's,  *)
(* and a fragment that malloc has taken off the list.                      *)
Taken ==
  {Address(h) : h \in Small} \cup {fragments[i] : i \in 1..Len(fragments)}
    \cup (IF pc = "fix_block_header" /\ block # CurrentBlock THEN {block} ELSE {})

(* They do not overlap. *)
Tiled ==
  \A a, b \in Taken :
    a.page = b.page /\ a # b => End(a) <= b.off \/ End(b) <= a.off

(* The current block is the last one of its page. *)
CurrentIsLast ==
  \A a \in Taken :
    a.page = current_page => a = CurrentBlock \/ End(a) <= current_block

(* A block in use is the one its header describes, and nobody else's. *)
Dropping(h) == pc = "drop_usage" /\ h = handle
LiveHeaders ==
  /\ \A h \in Live :
       LET a == Address(h) IN
       /\ a \in DOMAIN blocks /\ blocks[a].size = live[h].size
       /\ a.off # 0 =>
            /\ blocks[a].type = IF Dropping(h) THEN "FREE" ELSE "USED"
            /\ Is(blocks[a].page, "norm")
  /\ \A g, h \in Live : Address(g) = Address(h) => g = h

(* What is on the list is free, and only a call in progress may be about   *)
(* to free it or to leave its page.                                        *)
ListFree ==
  \A i \in 1..Len(fragments) :
    /\ fragments[i] \in DOMAIN blocks /\ fragments[i].off # 0
    /\ blocks[fragments[i]].type = "FREE"
    /\ pc # "link_page" => fragments[i] # CurrentBlock
    /\ \A h \in Live : Address(h) = fragments[i] => Dropping(h)

(* The call of malloc in progress.  A block it is about to hand out is     *)
(* either the current one, or a fragment of at least the size.             *)
MallocCalled ==
  /\ InMalloc => handle \in Handles /\ live[handle] = NoBlock
  /\ pc \in SmallCall \cup {"first_setup"} \/ OpeningPage => req <= FreshBytes
  /\ pc = "large_bro" => HeaderFits(req)
  /\ /\ pc \in {"first_setup", "find_available_fragment", "no_good_fragments"}
     /\ first_page_ptr # nullptr
     => current_page_free_bytes >= BHEADERSIZE
  /\ pc = "fix_block_header" =>
       /\ Is(block.page, "norm")
       /\ BlockEnd <= MALLOC_PAGE_SIZE \/ block.off = MALLOC_PAGE_SIZE
       /\ \A h \in Live : Address(h) # block
       /\ \A i \in 1..Len(fragments) : fragments[i] # block
       /\ block # CurrentBlock =>
            block \in DOMAIN blocks /\ req <= blocks[block].size

(* The page that a call of malloc opens: nothing is on it. *)
NextPageFresh ==
  OpeningPage =>
    /\ Is(next_page_ptr, "norm") /\ next_page_ptr # current_page
    /\ \A a \in DOMAIN blocks : a.page # next_page_ptr
    /\ \A h \in Small : blocks[Address(h)].page # next_page_ptr
    /\ pc = "insert_fragment" =>
         /\ block = CurrentBlock /\ block \in DOMAIN blocks
         /\ blocks[block].type # "USED"

(* The call of free in progress: not of the last block of a page. *)
FreeCalled ==
  /\ pc = "large_free_bro" \/ FreeingSmall =>
       handle \in Live /\ block = Address(handle)
  /\ pc = "large_free_bro" => block.off = 0
  /\ FreeingSmall =>
       /\ block.off # 0 /\ block # CurrentBlock
       /\ page_hdr[blocks[block].page].usages # 1

(* Huge blocks have pages of their own. *)
PagesOf(x) == x.page..(x.page + PagesFor(x.size) - 1)
HugeApart ==
  \A h \in Live \ Small :
    /\ HeaderFits(live[h].size)
    /\ \A q \in PagesOf(live[h]) :
         /\ Is(q, "huge")
         /\ \A g \in Live \ Small : q \in PagesOf(live[g]) => g = h

(* The memory of the allocator in order. *)
RInv ==
  /\ PagesThere /\ HeadersThere /\ Tiled /\ CurrentIsLast /\ LiveHeaders
  /\ ListFree /\ HugeApart /\ MallocCalled /\ NextPageFresh /\ FreeCalled

(* In the memory of a single process no header is old data: nothing has    *)
(* ever been behind the current block.                                     *)
NoOldData ==
  /\ \A a \in DOMAIN blocks :
       /\ blocks[a].type # "STALE"
       /\ a.page = current_page => a = CurrentBlock \/ End(a) <= current_block
  /\ touched <= NextBlock
  /\ pc = "fix_block_header" => BlockEnd <= MALLOC_PAGE_SIZE
  /\ pc \in {"fix_block_header", "insert_fragment"} /\ block = CurrentBlock =>
       Header(block).type = "FREE"

(* The header of the current block lies on its page, once it is written. *)
CurrentFits ==
  first_page_ptr # nullptr /\ pc \notin Crashes =>
    current_block + BHEADERSIZE <= MALLOC_PAGE_SIZE \/ Carved

(* A fragment page never has more nodes in use than it has nodes. *)
NodesBounded == nodes_taken <= MaxListNodes

(* Uses are exact in every step of a call. *)
UsesCounted ==
  \A p \in Page : Is(p, "norm") =>
    page_hdr[p].usages = Cardinality(ChargedTo(p))

(* Every page but the one being opened is linked, and the current page has *)
(* no successor yet.                                                       *)
Linked(p) ==
  \/ p = first_page_ptr
  \/ LET q == page_hdr[p].prev_page
     IN Is(q, "norm") /\ page_hdr[q].next_page = p /\ q # p
LinksKept ==
  pc \notin Crashes =>
    /\ first_page_ptr # nullptr => Is(first_page_ptr, "norm")
    /\ OpeningPage => first_page_ptr # next_page_ptr
    /\ \A p \in Page : Is(p, "norm") =>
         LET q == page_hdr[p].prev_page IN
         /\ Linked(p) \/ (OpeningPage /\ p = next_page_ptr)
         /\ q = nullptr \/ Is(q, "norm")
         /\ first_page_ptr # nullptr => q # current_page
         /\ OpeningPage => q # next_page_ptr
=============================================================================
