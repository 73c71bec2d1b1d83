------------------------------- MODULE Heap -------------------------------
(***************************************************************************)
(* The allocator of lib/src/malloc.c: malloc, free, insert_fragment and    *)
(* remove_fragment over pages that the kernel maps and unmaps.             *)
(*                                                                         *)
(* A call of the C code is a sequence of steps named after its labels      *)
(* (first_setup, find_available_fragment, no_good_fragments, ...); between *)
(* two calls pc is "idle" and the client may make the next one.  A         *)
(* dereference of an unmapped page ends the run in pc = "segv", of a page  *)
(* that no longer holds what the pointer was made for, or of an            *)
(* uninitialised pointer, in "wild", and a write over what the allocator   *)
(* is going to read, by the client into its block or by the allocator past *)
(* the end of a page, in "clobbered": the program goes on from there, but  *)
(* with whatever was written for sizes and pointers, and the model does    *)
(* not.  So a property says something of the code only where "clobbered"   *)
(* is excluded: see HeadersIntact.  Sizes and offsets are in bytes, a page *)
(* is named by its number, and nullptr is 0.                               *)
(***************************************************************************)
EXTENDS Integers, Sequences, FiniteSets

CONSTANTS
  MALLOC_PAGE_SIZE,  \* bytes of a page: 4096 in the code
  U64Range,          \* 2^64 in the code
  LastPage,          \* the address space has the pages 1..LastPage
  Handles,           \* pointer variables of the client
  NoHandle,          \* no call in progress
  Requests,          \* sizes the client asks for
  MaxDebt,           \* bound: no malloc once the free-byte counter is below -MaxDebt
  Rules              \* rules the client keeps to, a subset of RuleNames

(* Three rules a client may keep to.  No doc of the library asks for them;  *)
(* the runs show which property needs which.                                *)
(*   keep_last_block: do not free the block current_block points at         *)
(*   keep_page_used:  do not free the last block charged to a page          *)
(*   spare_header:    do not call malloc when fewer than BHEADERSIZE bytes  *)
(*                    are left on the current page's counter                *)
RuleNames == {"keep_last_block", "keep_page_used", "spare_header"}

WORDSIZE    == 8
PHEADERSIZE == 4 * WORDSIZE
BHEADERSIZE == 3 * WORDSIZE
NODESIZE    == 2 * WORDSIZE
NHEADERSIZE == 2 * WORDSIZE

ASSUME PageAssumption ==
  /\ MALLOC_PAGE_SIZE \in Nat
  /\ MALLOC_PAGE_SIZE % WORDSIZE = 0
  /\ MALLOC_PAGE_SIZE > PHEADERSIZE + 2 * BHEADERSIZE
ASSUME BoundAssumption ==
  /\ LastPage \in Nat \ {0}
  /\ MaxDebt \in Nat
  /\ U64Range \in Nat
  /\ U64Range > MaxDebt + 3 * MALLOC_PAGE_SIZE
ASSUME ClientAssumption ==
  /\ NoHandle \notin Handles
  /\ Requests \subseteq Nat
  /\ Rules \subseteq RuleNames

Page    == 1..LastPage
nullptr == 0
ErrPtr  == -1     \* an error code of mmap kept in a pointer (iserr)

(* free bytes of a page that holds its header and one block header *)
FreshBytes == MALLOC_PAGE_SIZE - (PHEADERSIZE + BHEADERSIZE)
MaxListNodes == (MALLOC_PAGE_SIZE - NHEADERSIZE) \div NODESIZE

align(v) == ((v + (WORDSIZE - 1)) \div WORDSIZE) * WORDSIZE

(* the signed value x read as a u64 *)
AsU64(x) == IF x < 0 THEN x + U64Range ELSE x

VARIABLES
  mapped,      \* what each page is mapped for
  page_hdr,    \* page headers
  blocks,      \* block headers written so far, by the address of the header
  first_page_ptr, current_page, current_block, current_page_free_bytes,
  touched,     \* first offset of the current page that was never handed out
  first_fragment_list_header,
  free_spaces, \* of the fragment page's header
  nodes_taken, \* nodes of the fragment page whose addr is not 0
  fragments,   \* block addresses on the list that starts at fragments_list_head
  pc, handle, req, block, next_page_ptr,      \* the call in progress
  live,        \* blocks the client was given and has not freed
  ret          \* how the last call ended

memory == <<mapped, page_hdr, blocks>>
arena  == <<first_page_ptr, current_page, current_block,
            current_page_free_bytes, touched>>
frags  == <<first_fragment_list_header, free_spaces, nodes_taken, fragments>>
call   == <<handle, req, block, next_page_ptr>>
client == <<live, ret>>
vars   == <<memory, arena, frags, pc, call, client>>

At(p, o)   == [page |-> p, off |-> o]
Nothing    == At(nullptr, 0)
NoBlock    == [page |-> nullptr, off |-> 0, size |-> 0]
ZeroHeader == [type |-> "FREE", size |-> 0, page |-> nullptr]
BlankPage  == [usages |-> 0, next_page |-> nullptr, prev_page |-> nullptr]

(***************************************************************************)
(* Memory.                                                                 *)
(***************************************************************************)

Header(a) == IF a \in DOMAIN blocks THEN blocks[a] ELSE ZeroHeader

WithHeader(a, h) ==
  [x \in DOMAIN blocks \cup {a} |-> IF x = a THEN h ELSE blocks[x]]

WithoutPage(p) == [x \in {a \in DOMAIN blocks : a.page # p} |-> blocks[x]]

(* mmap and munmap.  The kernel picks any unmapped run of pages. *)
CanMap(p, n) == \A q \in p..(p + n - 1) : q \in Page /\ mapped[q] = "none"
MapAs(p, n, kind) ==
  [q \in Page |-> IF q \in p..(p + n - 1) THEN kind ELSE mapped[q]]
Unmap(p) == /\ mapped' = [mapped EXCEPT ![p] = "none"]
            /\ blocks' = WithoutPage(p)

Is(p, kind) == p \in Page /\ mapped[p] = kind
(* a block header lies at the start of a huge mapping or inside a page *)
Readable(a) == Is(a.page, IF a.off = 0 THEN "huge" ELSE "norm")
Fault(p)    == IF p \in Page /\ mapped[p] # "none" THEN "wild" ELSE "segv"

(* A header that does not end on its page is written to the pages behind.  *)
PastEnd(a) == a.off + BHEADERSIZE > MALLOC_PAGE_SIZE
WritePast(a) ==
  IF \A q \in {a.page + (a.off \div MALLOC_PAGE_SIZE),
              a.page + ((a.off + BHEADERSIZE - 1) \div MALLOC_PAGE_SIZE)} :
       q \in Page /\ mapped[q] # "none"
    THEN "clobbered" ELSE "segv"

Crash(how) == /\ pc' = how
              /\ UNCHANGED <<memory, arena, frags, call, client>>

Return(result) ==
  /\ pc' = "idle" /\ ret' = result
  /\ handle' = NoHandle /\ req' = 0 /\ block' = Nothing
  /\ next_page_ptr' = nullptr

Init ==
  /\ mapped = [p \in Page |-> "none"]
  /\ page_hdr = [p \in Page |-> BlankPage]
  /\ blocks = [a \in {} |-> ZeroHeader]
  /\ first_page_ptr = nullptr /\ current_page = nullptr
  /\ current_block = 0 /\ current_page_free_bytes = 0 /\ touched = 0
  /\ first_fragment_list_header = nullptr
  /\ free_spaces = 0 /\ nodes_taken = 0 /\ fragments = <<>>
  /\ pc = "idle" /\ handle = NoHandle /\ req = 0 /\ block = Nothing
  /\ next_page_ptr = nullptr
  /\ live = [h \in Handles |-> NoBlock] /\ ret = "none"

(***************************************************************************)
(* malloc                                                                  *)
(***************************************************************************)

(* the argument checks; the result goes to the client's variable h *)
MallocCall(h, n) ==
  /\ pc = "idle" /\ live[h] = NoBlock
  /\ current_page_free_bytes >= -MaxDebt
  /\ "spare_header" \in Rules =>
       first_page_ptr = nullptr \/ current_page_free_bytes >= BHEADERSIZE
  /\ IF n < 1
       THEN /\ Return("error")
            /\ UNCHANGED live
       ELSE /\ handle' = h
            /\ IF n > FreshBytes THEN pc' = "large_bro" /\ req' = n
                                 ELSE pc' = "first_setup" /\ req' = align(n)
            /\ UNCHANGED <<block, next_page_ptr, client>>
  /\ UNCHANGED <<memory, arena, frags>>

FirstSetup_KeepError ==
  /\ pc = "first_setup" /\ first_page_ptr = nullptr
  /\ first_page_ptr' = ErrPtr
  /\ Return("error")
  /\ UNCHANGED <<memory, current_page, current_block, current_page_free_bytes,
                 touched, frags, live>>

FirstSetup ==
  /\ pc = "first_setup"
  /\ \/ /\ first_page_ptr # nullptr
        /\ pc' = "find_available_fragment"
        /\ UNCHANGED <<memory, arena, frags, call, client>>
     \/ /\ first_page_ptr = nullptr
        /\ \E p \in Page :
             /\ CanMap(p, 1)
             /\ mapped' = MapAs(p, 1, "norm")
             /\ page_hdr' = [page_hdr EXCEPT ![p] = BlankPage]
             /\ first_page_ptr' = p /\ current_page' = p
        /\ current_block' = PHEADERSIZE
        /\ current_page_free_bytes' = FreshBytes
        /\ touched' = PHEADERSIZE
        /\ pc' = "find_available_fragment"
        /\ UNCHANGED <<blocks, frags, call, client>>
     \/ /\ first_page_ptr = nullptr        \* mmap fails
        /\ Return("error")
        /\ UNCHANGED <<memory, arena, frags, live>>

(* The list is walked in order up to the first node that is big enough.    *)
(* Its nodes can be read: the fragment page is only unmapped with its last *)
(* node.                                                                   *)
BigEnough(i)  == Header(fragments[i]).size >= req
WalkReads(i)  == \A j \in 1..(i - 1) : ~BigEnough(j)
RemoveNode_Keep(i) == fragments
RemoveNode(i) == SubSeq(fragments, 1, i - 1)
                   \o SubSeq(fragments, i + 1, Len(fragments))

RemoveFragment_KeepHeader(i) ==
  /\ fragments' = RemoveNode(i)
  /\ Unmap(first_fragment_list_header)
  /\ UNCHANGED <<page_hdr, first_fragment_list_header, free_spaces, nodes_taken>>

(* remove_fragment: the only node goes with the fragment page, another one *)
(* gives its place on the page back                                        *)
RemoveFragment(i) ==
  /\ fragments' = RemoveNode(i)
  /\ IF Len(fragments) = 1 \/ free_spaces + 1 = MaxListNodes
       THEN /\ Unmap(first_fragment_list_header)
            /\ first_fragment_list_header' = nullptr
            /\ free_spaces' = 0 /\ nodes_taken' = 0
       ELSE /\ free_spaces' = free_spaces + 1 /\ nodes_taken' = nodes_taken - 1
            /\ UNCHANGED <<mapped, blocks, first_fragment_list_header>>
  /\ UNCHANGED page_hdr

FindAvailableFragment ==
  /\ pc = "find_available_fragment"
  /\ \/ \E i \in 1..Len(fragments) :
          /\ WalkReads(i)
          /\ ~Readable(fragments[i])
          /\ Crash(Fault(fragments[i].page))
     \/ /\ \A i \in 1..Len(fragments) : WalkReads(i) => Readable(fragments[i])
        /\ \/ \E i \in 1..Len(fragments) :
                /\ WalkReads(i) /\ BigEnough(i)
                /\ block' = fragments[i]
                /\ RemoveFragment(i)
                /\ pc' = "fix_block_header"
                /\ UNCHANGED <<arena, handle, req, next_page_ptr, client>>
           \/ /\ \A i \in 1..Len(fragments) : ~BigEnough(i)
              /\ pc' = "no_good_fragments"
              /\ UNCHANGED <<memory, arena, frags, call, client>>

(* MOVE_TO_NEXT_BLOCK_PTR *)
CurrentBlock == At(current_page, current_block)
NextBlock_NoHeader == IF Header(CurrentBlock).type = "FREE" THEN current_block
                      ELSE current_block + Header(CurrentBlock).size
NextBlock == IF Header(CurrentBlock).type = "FREE" THEN current_block
             ELSE current_block + Header(CurrentBlock).size + BHEADERSIZE

(* The room on the page, compared as unsigned numbers. *)
BlockAvailable == req <= AsU64(current_page_free_bytes - BHEADERSIZE)

NoGoodFragments ==
  /\ pc = "no_good_fragments"
  /\ \/ /\ BlockAvailable
        /\ Is(current_page, "norm")
        /\ current_block' = NextBlock
        /\ block' = At(current_page, NextBlock)
        /\ pc' = "fix_block_header"
        /\ UNCHANGED <<memory, first_page_ptr, current_page,
                       current_page_free_bytes, touched, frags, handle, req,
                       next_page_ptr, client>>
     \/ /\ BlockAvailable
        /\ ~Is(current_page, "norm")
        /\ Crash(Fault(current_page))
     \/ /\ ~BlockAvailable
        /\ \E p \in Page :
             /\ CanMap(p, 1)
             /\ mapped' = MapAs(p, 1, "norm")
             /\ page_hdr' = [page_hdr EXCEPT ![p] = BlankPage]
             /\ next_page_ptr' = p
        /\ pc' = "open_page"
        /\ UNCHANGED <<blocks, arena, frags, handle, req, block, client>>
     \/ /\ ~BlockAvailable                  \* mmap fails
        /\ Return("error")
        /\ UNCHANGED <<memory, arena, frags, live>>

(* The rest of the current page becomes a block, to be put on the list.  A *)
(* block that starts where client data once was has whatever type is there.*)
OpenPage ==
  /\ pc = "open_page"
  /\ \/ /\ ~Is(current_page, "norm")
        /\ Crash(Fault(current_page))
     \/ /\ Is(current_page, "norm")
        /\ PastEnd(At(current_page, NextBlock))
        /\ Crash(WritePast(At(current_page, NextBlock)))
     \/ /\ Is(current_page, "norm")
        /\ ~PastEnd(At(current_page, NextBlock))
        /\ \E t \in IF NextBlock # current_block /\ NextBlock < touched
                      THEN {"FREE", "STALE"} ELSE {"FREE"} :
             blocks' = WithHeader(At(current_page, NextBlock),
                         [type |-> t, page |-> nullptr,
                          size |-> MALLOC_PAGE_SIZE - NextBlock - BHEADERSIZE])
        /\ current_block' = NextBlock
        /\ block' = At(current_page, NextBlock)
        /\ pc' = "insert_fragment"
        /\ UNCHANGED <<mapped, page_hdr, first_page_ptr, current_page,
                       current_page_free_bytes, touched, frags, handle, req,
                       next_page_ptr, client>>

UndoOpenPage_KeepPage ==
  /\ pc = "undo_open_page"
  /\ Return("error")
  /\ UNCHANGED <<memory, arena, frags, live>>

(* insert_fragment failed: give the new page back *)
UndoOpenPage ==
  /\ pc = "undo_open_page"
  /\ Unmap(next_page_ptr)
  /\ Return("error")
  /\ UNCHANGED <<page_hdr, arena, frags, live>>

LinkPage ==
  /\ pc = "link_page"
  /\ page_hdr' = [page_hdr EXCEPT
                    ![next_page_ptr].usages = 0,
                    ![next_page_ptr].prev_page = current_page,
                    ![current_page].next_page = next_page_ptr]
  /\ current_page' = next_page_ptr
  /\ current_block' = PHEADERSIZE
  /\ current_page_free_bytes' = FreshBytes
  /\ touched' = PHEADERSIZE
  /\ block' = At(next_page_ptr, PHEADERSIZE)
  /\ pc' = "fix_block_header"
  /\ UNCHANGED <<mapped, blocks, first_page_ptr, frags, handle, req,
                 next_page_ptr, client>>

BlockEnd == block.off + BHEADERSIZE + req

(* What the call costs the current page, and the page it is charged to,    *)
(* which for a fragment that is used again need not be the one it lies on. *)
Charge_NoHeader == req
Charge == req + BHEADERSIZE
ChargedPage_OwnPage == block.page
ChargedPage == current_page

FixBlockHeader ==
  /\ pc = "fix_block_header"
  /\ \/ /\ PastEnd(block)
        /\ Crash(WritePast(block))
     \/ /\ ~PastEnd(block)
        /\ ~Is(current_page, "norm")
        /\ Crash(Fault(current_page))
     \/ /\ ~PastEnd(block)
        /\ Is(current_page, "norm")
        /\ blocks' = WithHeader(block,
             [type |-> "USED", size |-> req, page |-> current_page])
        /\ page_hdr' = [page_hdr EXCEPT ![ChargedPage].usages = @ + 1]
        /\ current_page_free_bytes' = current_page_free_bytes - Charge
        /\ touched' = IF block.page = current_page /\ BlockEnd > touched
                        THEN BlockEnd ELSE touched
        /\ live' = [live EXCEPT ![handle] =
                      [page |-> block.page, off |-> block.off, size |-> req]]
        /\ Return("ok")
        /\ UNCHANGED <<mapped, first_page_ptr, current_page, current_block, frags>>

(* Pages mapped for a large request: the kernel rounds the length up. *)
PagesFor_Down(n) == n \div MALLOC_PAGE_SIZE
PagesFor(n) == (n + MALLOC_PAGE_SIZE - 1) \div MALLOC_PAGE_SIZE

LargeBro ==
  /\ pc = "large_bro"
  /\ \/ \E p \in Page :
          /\ CanMap(p, PagesFor(req))
          /\ mapped' = MapAs(p, PagesFor(req), "huge")
          /\ blocks' = WithHeader(At(p, 0),
               [type |-> "HUGE", size |-> req, page |-> p])
          /\ live' = [live EXCEPT ![handle] =
                        [page |-> p, off |-> 0, size |-> req]]
          /\ Return("ok")
          /\ UNCHANGED <<page_hdr, arena, frags>>
     \/ /\ Return("error")                  \* mmap fails
        /\ UNCHANGED <<memory, arena, frags, live>>

(***************************************************************************)
(* free                                                                    *)
(***************************************************************************)

Address(h) == At(live[h].page, live[h].off)

FreeCall(h) ==
  /\ pc = "idle" /\ live[h] # NoBlock
  /\ "keep_last_block" \in Rules => Address(h) # CurrentBlock
  /\ "keep_page_used" \in Rules =>
       LET p == Header(Address(h)).page
       IN Is(p, "norm") => page_hdr[p].usages # 1
  /\ \/ /\ ~Readable(Address(h))
        /\ Crash(Fault(live[h].page))
     \/ /\ Readable(Address(h))
        /\ handle' = h
        /\ block' = Address(h)
        /\ pc' = IF Header(Address(h)).type = "HUGE" THEN "large_free_bro"
                                                      ELSE "insert_fragment"
        /\ UNCHANGED <<memory, arena, frags, req, next_page_ptr, client>>

(* one page is given back, whatever the length of the mapping *)
LargeFreeBro ==
  /\ pc = "large_free_bro"
  /\ Unmap(block.page)
  /\ live' = [live EXCEPT ![handle] = NoBlock]
  /\ Return("ok")
  /\ UNCHANGED <<page_hdr, arena, frags>>

(* the page's uses before this free: it is the last one *)
Emptied_TooLate(p) == page_hdr[p].usages = 0
Emptied(p) == page_hdr[p].usages = 1

(* The block is on the list.  Its page loses a user, and with the last one *)
(* the current page is unmapped.                                           *)
DropUsage ==
  /\ pc = "drop_usage"
  /\ LET p == Header(block).page IN
     \/ /\ ~Is(p, "norm")
        /\ Crash(Fault(p))
     \/ /\ Is(p, "norm")
        /\ page_hdr' = [page_hdr EXCEPT ![p].usages = @ - 1]
        /\ IF Emptied(p)
             THEN Unmap(current_page)
             ELSE UNCHANGED <<mapped, blocks>>
        /\ live' = [live EXCEPT ![handle] = NoBlock]
        /\ Return("ok")
        /\ UNCHANGED <<arena, frags>>

(***************************************************************************)
(* insert_fragment, called by malloc for the rest of a page and by free    *)
(***************************************************************************)

CalledByMalloc == next_page_ptr # nullptr
Inserted == pc' = IF CalledByMalloc THEN "link_page" ELSE "drop_usage"

(* the blocks that an insertion at block compares sizes with *)
ComparedWith == IF Len(fragments) = 1 THEN {1} ELSE 2..Len(fragments)

(* A single node is not kept: the new node becomes the head and is then    *)
(* linked after the old one, which nothing points at any more.  Otherwise  *)
(* the new node goes after the head and all following smaller nodes.       *)
Ordered_Prepend(size) == <<block>> \o fragments
Ordered(size) ==
  IF Len(fragments) = 1 /\ Header(fragments[1]).size # 0
    THEN <<block>>
    ELSE LET Fits(i) == \/ i = Len(fragments)
                        \/ Header(fragments[i + 1]).size >= size
             after == CHOOSE i \in 1..Len(fragments) :
                        Fits(i) /\ \A j \in 1..(i - 1) : ~Fits(j)
         IN SubSeq(fragments, 1, after) \o <<block>>
              \o SubSeq(fragments, after + 1, Len(fragments))

(* A full page is never found full: its first node was not counted, so one *)
(* space is left on the counter when no node is free, and new is not set.  *)
SpaceFound == free_spaces > 0 /\ nodes_taken < MaxListNodes

(* The node taken by the first insertion is not counted. *)
FirstSpaces == MaxListNodes

InsertFragment ==
  /\ pc = "insert_fragment"
  /\ \/ /\ Header(block).size = 0
        /\ Inserted
        /\ UNCHANGED <<memory, arena, frags, call, client>>
     \/ /\ Header(block).size # 0
        /\ first_fragment_list_header = nullptr
        /\ \E p \in Page :
             /\ CanMap(p, 1)
             /\ mapped' = MapAs(p, 1, "frag")
             /\ first_fragment_list_header' = p
        /\ free_spaces' = FirstSpaces /\ nodes_taken' = 1
        /\ fragments' = <<block>>
        /\ blocks' = WithHeader(block, [Header(block) EXCEPT !.type = "FREE"])
        /\ Inserted
        /\ UNCHANGED <<page_hdr, arena, call, client>>
     \/ /\ Header(block).size # 0
        /\ first_fragment_list_header = nullptr      \* mmap fails
        /\ first_fragment_list_header' = ErrPtr
        /\ IF CalledByMalloc
             THEN pc' = "undo_open_page" /\ UNCHANGED <<call, ret>>
             ELSE Return("error")
        /\ UNCHANGED <<memory, arena, free_spaces, nodes_taken, fragments, live>>
     \/ /\ Header(block).size # 0
        /\ first_fragment_list_header # nullptr
        /\ ~Is(first_fragment_list_header, "frag")
        /\ Crash(Fault(first_fragment_list_header))
     \/ /\ Header(block).size # 0
        /\ Is(first_fragment_list_header, "frag")
        /\ ~SpaceFound
        /\ Crash("wild")
     \/ /\ Header(block).size # 0
        /\ Is(first_fragment_list_header, "frag")
        /\ SpaceFound
        /\ \E i \in ComparedWith :
             /\ ~Readable(fragments[i])
             /\ Crash(Fault(fragments[i].page))
     \/ /\ Header(block).size # 0
        /\ Is(first_fragment_list_header, "frag")
        /\ SpaceFound
        /\ \A i \in ComparedWith : Readable(fragments[i])
        /\ free_spaces' = free_spaces - 1 /\ nodes_taken' = nodes_taken + 1
        /\ fragments' = Ordered(Header(block).size)
        /\ blocks' = WithHeader(block, [Header(block) EXCEPT !.type = "FREE"])
        /\ Inserted
        /\ UNCHANGED <<mapped, page_hdr, arena, first_fragment_list_header,
                       call, client>>

(***************************************************************************)
(* The client writes into its blocks, and a block that does not have its   *)
(* bytes to itself reaches what the allocator is going to read: the        *)
(* headers of blocks in use, of the listed ones and of the current one,    *)
(* the head of a page, the nodes of a fragment page.                       *)
(***************************************************************************)

First(x) == x.page * MALLOC_PAGE_SIZE + x.off
Past(x)  == First(x) + BHEADERSIZE + x.size

Live == {h \in Handles : live[h] # NoBlock}
ReadLater ==
  {Address(g) : g \in Live} \cup {fragments[i] : i \in 1..Len(fragments)}
    \cup (IF Is(current_page, "norm") THEN {CurrentBlock} ELSE {})

PagesReached(x) ==
  {q \in Page : x.page <= q /\ q * MALLOC_PAGE_SIZE < Past(x)}
Overwrites(h) ==
  \/ \E a \in ReadLater \ {Address(h)} :
       First(a) < Past(live[h]) /\ First(live[h]) < First(a) + BHEADERSIZE
  \/ \E q \in PagesReached(live[h]) :
       Is(q, "frag") \/ (Is(q, "norm") /\ (live[h].off = 0 \/ q # live[h].page))

ClientWrites ==
  /\ pc = "idle"
  /\ \E h \in Live : Overwrites(h)
  /\ Crash("clobbered")

(***************************************************************************)

Step ==
  \/ FirstSetup \/ FindAvailableFragment \/ NoGoodFragments \/ OpenPage
  \/ UndoOpenPage \/ LinkPage \/ FixBlockHeader \/ LargeBro
  \/ LargeFreeBro \/ DropUsage \/ InsertFragment \/ ClientWrites

Next ==
  \/ \E h \in Handles, n \in Requests : MallocCall(h, n)
  \/ \E h \in Handles : FreeCall(h)
  \/ Step

Spec == Init /\ [][Next]_vars
=============================================================================
