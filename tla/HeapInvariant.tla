--------------------------- MODULE HeapInvariant ---------------------------
(***************************************************************************)
(* The inductive invariant of the steps of a call, whatever rules the      *)
(* client keeps.  Where it keeps none, the steps are those of the code     *)
(* until something that the allocator reads is overwritten.                *)
(***************************************************************************)
EXTENDS HeapProperties

(* Headers.  A written header has a positive size, a header at the start   *)
(* of a mapping is that of a huge block.                                   *)
HeadersPositive ==
  \A a \in DOMAIN blocks :
    /\ blocks[a].size > 0
    /\ a.off = 0 \/ a.off >= PHEADERSIZE
    /\ a.off = 0 => blocks[a].type = "HUGE"

(* Before the first page there are only huge blocks. *)
SmallCall == {"find_available_fragment", "no_good_fragments", "open_page",
              "undo_open_page", "link_page", "fix_block_header"}
BeforeFirstPage ==
  first_page_ptr = nullptr =>
    /\ \A a \in DOMAIN blocks : a.off = 0
    /\ \A h \in Handles : live[h].off = 0
    /\ current_page = nullptr /\ next_page_ptr = nullptr
    /\ fragments = <<>>
    /\ pc \notin SmallCall
AfterFirstPage == first_page_ptr # nullptr => current_block >= PHEADERSIZE

(* The list has a node when it has a page, and only then.  As long as the  *)
(* block it holds can be read, its header is where it was written.         *)
ListHasOne ==
  /\ Len(fragments) = IF first_fragment_list_header \in Page THEN 1 ELSE 0
  /\ \A i \in 1..Len(fragments) :
       /\ fragments[i].off >= PHEADERSIZE
       /\ Readable(fragments[i]) => fragments[i] \in DOMAIN blocks
       /\ pc = "no_good_fragments" => Readable(fragments[i])
  /\ first_fragment_list_header \in Page =>
       /\ free_spaces + nodes_taken = MaxListNodes + 1
       /\ nodes_taken >= 1

(* What the counter allows, with the current block's header and without.   *)
(* A block whose type is old data reaches to the end of the page, and the  *)
(* block carved after it starts there.                                     *)
RoomAtBlock == MALLOC_PAGE_SIZE - current_block - BHEADERSIZE
Carved == pc = "fix_block_header" /\ block = CurrentBlock
CounterBound ==
  first_page_ptr # nullptr /\ pc \notin Crashes =>
    /\ \/ current_page_free_bytes <= RoomAtBlock
       \/ Carved /\ current_block = MALLOC_PAGE_SIZE
    /\ ~Carved =>
         \/ current_page_free_bytes <= RoomLeft
         \/ /\ Header(CurrentBlock).type = "STALE"
            /\ Header(CurrentBlock).size = RoomAtBlock

(* A page is left only while the counter is sound, so a negative counter   *)
(* stays: nothing sets it again.                                           *)
OpeningPage == pc \in {"open_page", "undo_open_page", "link_page"}
                 \/ (pc = "insert_fragment" /\ next_page_ptr # nullptr)
CounterInCall ==
  /\ pc \in {"first_setup", "find_available_fragment", "no_good_fragments"}
       => current_page_free_bytes >= -MaxDebt
  /\ OpeningPage => current_page_free_bytes >= BHEADERSIZE

(* The call in progress. *)
CallOK ==
  /\ pc \in SmallCall \cup {"first_setup"} \/ OpeningPage =>
       req > 0 /\ req < FreshBytes + WORDSIZE
  /\ pc = "large_bro" => req > 0
  /\ pc \in {"idle", "first_setup", "find_available_fragment",
             "no_good_fragments"} => next_page_ptr = nullptr
  /\ pc \in {"open_page", "undo_open_page", "link_page"} => next_page_ptr # nullptr
  /\ pc \in {"insert_fragment", "large_free_bro", "fix_block_header"} =>
       block.page # nullptr
  /\ pc = "insert_fragment" => block.off >= PHEADERSIZE \/ block \notin DOMAIN blocks
  /\ pc = "fix_block_header" => block.off >= PHEADERSIZE

(* While the counter is not negative, headers describe blocks inside pages.*)
InPage(x) == x.off + BHEADERSIZE + x.size <= MALLOC_PAGE_SIZE
AllInPage ==
  current_page_free_bytes >= 0 =>
    /\ \A a \in DOMAIN blocks :
         a.off # 0 => a.off + BHEADERSIZE + blocks[a].size <= MALLOC_PAGE_SIZE
    /\ \A h \in Handles :
         live[h].off # 0 => InPage(live[h])
    /\ pc = "fix_block_header" =>
         Carved \/ BlockEnd <= MALLOC_PAGE_SIZE
LiveOffsets == \A h \in Handles : live[h].off = 0 \/ live[h].off >= PHEADERSIZE

(* The invariant: everything the steps of one call owe the next. *)
IInv ==
  /\ TypeOK
  /\ HeadersPositive /\ BeforeFirstPage /\ AfterFirstPage
  /\ ListHasOne /\ CounterBound /\ CounterInCall
  /\ CallOK /\ AllInPage /\ LiveOffsets
(***************************************************************************)
(* The uses of the current page.                                           *)
(***************************************************************************)

(* The call in progress and the client's block. *)
InMalloc == pc \in SmallCall \cup {"first_setup", "large_bro"} \/ OpeningPage
FreeingSmall == pc = "drop_usage" \/ (pc = "insert_fragment" /\ ~OpeningPage)
CallersBlock ==
  /\ InMalloc => handle \in Handles /\ live[handle] = NoBlock
  /\ pc = "large_free_bro" \/ FreeingSmall =>
       handle \in Live /\ block = Address(handle)
  /\ pc = "large_free_bro" => block.off = 0
  /\ FreeingSmall => block.off # 0 \/ block \notin DOMAIN blocks
HugeHeads == \A a \in DOMAIN blocks : blocks[a].type = "HUGE" => a.off = 0

(* The blocks that may have been charged to the current page: a header     *)
(* that is lost or was overwritten names no page.  There are as many as    *)
(* the page has uses, or more.                                             *)
MayBeCharged ==
  {h \in Small : Header(Address(h)).page \in {current_page, nullptr}}
UsesBounded ==
  Is(current_page, "norm") =>
    page_hdr[current_page].usages <= Cardinality(MayBeCharged)

(* The page has a use, unless its first block is yet to be made. *)
Unused ==
  \/ touched = PHEADERSIZE /\ Small = {}
  \/ pc = "fix_block_header"
  \/ OpeningPage /\ next_page_ptr = current_page
UsesSome ==
  Is(current_page, "norm") /\ pc \notin Crashes =>
    \/ page_hdr[current_page].usages >= 1
    \/ page_hdr[current_page].usages = 0 /\ Unused

UsesInv == CallersBlock /\ HugeHeads /\ UsesBounded /\ UsesSome
=============================================================================
