------------------------ MODULE PrintfHeapInvariant ------------------------
(***************************************************************************)
(* The inductive invariant behind FirstPageDisjoint of module PrintfHeap.  *)
(***************************************************************************)
EXTENDS PrintfHeap, HeapRules

(* The formats: the array of their entries has room on a page. *)
ArraysSmall ==
  \A f \in Formats : EntrySize * P!findoccurrences(f, "%") <= FreshBytes

(* the strings that another x replaces *)
Made == {P!Expansion(Len(entries), j) : j \in 1..hexes}

(***************************************************************************)
(* The first page, for every client.  It is the only one for small blocks, *)
(* or the allocator went on to another, or it was unmapped: then the list  *)
(* has a block that lay on it, and the next malloc of a small block reads  *)
(* its header.                                                             *)
(***************************************************************************)
OnFirstPage ==
  /\ OnePage
  /\ \A p \in Page : Is(p, "norm") =>
       p = first_page_ptr \/ (OpeningPage /\ p = next_page_ptr)
FirstPageLeft == Is(first_page_ptr, "norm") /\ current_page # first_page_ptr
FirstPageLost ==
  /\ current_page = first_page_ptr
  /\ \A p \in Page : ~Is(p, "norm")
  /\ Len(fragments) = 1
  /\ ~OpeningPage
  /\ pc \notin SmallCall \ {"find_available_fragment"}
  /\ FreeingSmall => block.off = 0
PagesInv ==
  /\ first_page_ptr = nullptr => \A p \in Page : ~Is(p, "norm")
  /\ pc = "large_free_bro" => Is(block.page, "huge")
  /\ pc = "drop_usage" /\ block \in DOMAIN blocks => fragments = <<block>>
  /\ first_page_ptr # nullptr /\ pc \notin Crashes =>
       /\ first_fragment_list_header # first_page_ptr
       /\ OpeningPage => next_page_ptr # first_page_ptr
       /\ OnFirstPage \/ FirstPageLeft \/ FirstPageLost

(***************************************************************************)
(* The blocks of the page.                                                 *)
(***************************************************************************)
SmallHeaders ==
  /\ \A h \in Small :
       LET a == Address(h) IN
       /\ a \in DOMAIN blocks /\ a.page = current_page
       /\ blocks[a].size = live[h].size
       /\ pc \notin Crashes =>
            blocks[a].type = IF Dropping(h) THEN "FREE" ELSE "USED"
  /\ \A g, h \in Small : Address(g) = Address(h) => g = h
Listed ==
  \A n \in 1..Len(fragments) :
    /\ fragments[n] \in DOMAIN blocks /\ fragments[n].page = current_page
    /\ pc \notin Crashes =>
         \A h \in Small : Address(h) = fragments[n] => Dropping(h)
InHand ==
  /\ pc = "fix_block_header" =>
       /\ block.page = current_page
       /\ \A h \in Small : Address(h) # block
       /\ \A n \in 1..Len(fragments) : fragments[n] # block
       /\ block # CurrentBlock =>
            /\ block \in DOMAIN blocks /\ req <= blocks[block].size
            /\ fragments = <<>>
  /\ pc = "insert_fragment" /\ OpeningPage =>
       block = CurrentBlock /\ \A h \in Small : Address(h) # block
InOrder == SmallHeaders /\ Listed /\ InHand /\ Tiled /\ CurrentIsLast

(***************************************************************************)
(* What printf does with the current block.  When a malloc looks at it, it *)
(* is not on the list.                                                     *)
(***************************************************************************)
Allocating == printf_pc \in {"idle", "create_str_array", "expand_formatters"}
ListBehind ==
  \/ Allocating /\ pc \notin Crashes \cup {"drop_usage", "link_page"}
  \/ printf_pc = "free_array" /\ called /\ pc = "idle" /\ Live \subseteq {Mine}
  => \A n \in 1..Len(fragments) : fragments[n] # CurrentBlock

(* The array is never huge, and is there for a formatter.                  *)
ArraySmall ==
  /\ pc = "large_bro" => printf_pc # "create_str_array" /\ ~Expanding
  /\ P!Array \in Live => live[P!Array].off # 0
  /\ printf_pc = "expand_formatters" => P!Percents >= 1

(* The array, which is freed last, is the current block only as long as    *)
(* printf is going to make strings, or when it frees the program's block.  *)
Others == Live \ {Mine, P!Array}
UserEntry == \E n \in 1..Len(entries) : entries[n].string[1] = "user"
StringsToCome == printf_pc \in {"create_str_array", "expand_formatters"}
StringSize == 24   \* ItosSize and HexstrSize, aligned
NoneFits == pc # "fix_block_header"
            /\ \A n \in 1..Len(fragments) : Header(fragments[n]).size < StringSize
NoString == Others = {} /\ (P!Percents >= 2 \/ NoneFits)
OneString == /\ P!Percents >= 2 /\ fragments = <<>> /\ pc # "fix_block_header"
             /\ \E h \in Handles : Others = {h}
ArrayLast ==
  /\ P!Array \in Live /\ Address(P!Array) = CurrentBlock
  /\ printf_pc \notin {"idle", "wild", "segv", "panic", "clobbered"} /\ pc \notin Crashes
  => UserEntry \/ (StringsToCome /\ (NoString \/ OneString))
UserFreed(n) ==
  entries[n].string[1] = "user" =>
    Mine \notin Live \/ first_fragment_list_header = ErrPtr
StringsFreed ==
  /\ printf_pc \in {"final_copy", "free_buffer", "free_array"} =>
       \A n \in 1..k : UserFreed(n)
  /\ printf_pc = "final_copy" /\ called /\ pc = "idle" => UserFreed(k + 1)

(* What the malloc in progress was asked for. *)
AskedFor ==
  called /\ InMalloc /\ pc # "large_bro" =>
    /\ printf_pc = "create_str_array" =>
         handle = P!Array /\ req = EntrySize * P!Percents
    /\ printf_pc = "expand_formatters" /\ P!Char(i) = "%" => req = StringSize

(* A block that is about to be carved is larger than what is listed. *)
NoneListedFits ==
  pc = "no_good_fragments" \/ (pc = "fix_block_header" /\ block = CurrentBlock) =>
    \A n \in 1..Len(fragments) : Header(fragments[n]).size < req

FirstInv == OnePage /\ NothingLeft =>
     InOrder /\ ListBehind /\ ArrayLast /\ NoneListedFits
PageInv == PagesInv /\ ArraySmall /\ StringsFreed /\ AskedFor /\ FirstInv
=============================================================================
