---------------------------- MODULE HeapProofs ----------------------------
(***************************************************************************)
(* The invariants of module Heap, proved for every page size, every set of *)
(* requests, every number of pages and handles and every failing mmap, one *)
(* lemma for each step of a call: first those that the allocator has for   *)
(* every client, then those it has for a client that keeps the three       *)
(* rules; and what follows from them.                                      *)
(***************************************************************************)
EXTENDS HeapRules, FiniteSetTheorems, TLAPS

USE DEF nullptr, ErrPtr, WORDSIZE, PHEADERSIZE, BHEADERSIZE, NODESIZE,
        NHEADERSIZE

(* align rounds up to the next multiple of the word size (malloc.c:90). *)
LEMMA AlignUp ==
  ASSUME NEW n \in Nat
  PROVE  align(n) \in Nat /\ align(n) >= n /\ align(n) < n + WORDSIZE
         /\ align(n) % WORDSIZE = 0
  BY DEF align

(* The sizes a page is divided into. *)
LEMMA Sizes ==
  /\ MALLOC_PAGE_SIZE \in Nat /\ MALLOC_PAGE_SIZE >= 81
  /\ FreshBytes \in Nat /\ FreshBytes = MALLOC_PAGE_SIZE - 56
  /\ MaxListNodes \in Nat /\ MaxListNodes >= 1
  /\ nullptr \notin Page /\ ErrPtr \notin Page
  /\ Page \subseteq Int
  BY PageAssumption, BoundAssumption DEF FreshBytes, MaxListNodes, Page

(* The initial state. *)
LEMMA InitInv == Init => IInv
<1> SUFFICES ASSUME Init PROVE IInv
  OBVIOUS
<1>1. TypeOK
  BY Sizes, ClientAssumption
  DEF Init, TypeOK, PageHeader, BlankPage, Nothing, At, NoBlock, Address0
<1>2. HeadersPositive /\ BeforeFirstPage /\ AfterFirstPage /\ LiveOffsets
  BY DEF Init, HeadersPositive, BeforeFirstPage, AfterFirstPage, LiveOffsets,
         NoBlock, SmallCall
<1>3. ListHasOne /\ CounterBound /\ CounterInCall /\ CallOK
  BY Sizes
  DEF Init, ListHasOne, CounterBound, CounterInCall, CallOK, OpeningPage,
      SmallCall
<1>4. AllInPage
  BY DEF Init, AllInPage, NoBlock
<1> QED
  BY <1>1, <1>2, <1>3, <1>4 DEF IInv

(* A run that crashed keeps everything but pc. *)
LEMMA CrashInv ==
  ASSUME IInv, NEW how \in Crashes, Crash(how)
  PROVE  IInv'
<1> USE DEF Crash, memory, arena, frags, call, client
<1>1. TypeOK'
  BY DEF IInv, TypeOK, Crashes, Address0, BlockHeader, BlockTypes
<1>2. HeadersPositive' /\ AfterFirstPage' /\ LiveOffsets'
  BY DEF IInv, HeadersPositive, AfterFirstPage, LiveOffsets
<1>3. BeforeFirstPage'
  BY DEF IInv, BeforeFirstPage, SmallCall, Crashes
<1>4. ListHasOne'
  BY DEF IInv, ListHasOne, Crashes, Readable, Is
<1>5. CounterBound' /\ CounterInCall'
  BY DEF IInv, CounterBound, CounterInCall, OpeningPage, Crashes, Carved, RoomAtBlock,
         RoomLeft, NextBlock, CurrentBlock, Header, At
<1>6. CallOK'
  BY DEF IInv, CallOK, SmallCall, Crashes, OpeningPage
<1>7. AllInPage'
  BY DEF IInv, AllInPage, InPage, Crashes
<1> QED
  BY <1>1, <1>2, <1>3, <1>4, <1>5, <1>6, <1>7 DEF IInv

(* A step that leaves the memory and the allocator's variables alone keeps *)
(* every part of the invariant that does not name the call in progress.    *)
LEMMA QuietStep ==
  ASSUME IInv, UNCHANGED <<memory, arena, frags, live>>,
         pc \notin Crashes \cup {"fix_block_header"},
         pc' \notin {"no_good_fragments", "fix_block_header"}
  PROVE  /\ HeadersPositive' /\ AfterFirstPage' /\ LiveOffsets'
         /\ ListHasOne' /\ CounterBound' /\ AllInPage'
<1> USE DEF memory, arena, frags
<1>1. HeadersPositive' /\ AfterFirstPage' /\ LiveOffsets'
  BY DEF IInv, HeadersPositive, AfterFirstPage, LiveOffsets
<1>2. ListHasOne'
  BY DEF IInv, ListHasOne, Readable, Is
<1>3. CounterBound'
  BY DEF IInv, CounterBound, Carved, RoomAtBlock, RoomLeft, NextBlock, CurrentBlock,
         Header, At
<1>4. AllInPage'
  BY DEF IInv, AllInPage, InPage
<1> QED
  BY <1>1, <1>2, <1>3, <1>4

(***************************************************************************)
(* malloc                                                                  *)
(***************************************************************************)

LEMMA MallocCallInv ==
  ASSUME IInv, NEW h \in Handles, NEW n \in Nat, MallocCall(h, n)
  PROVE  IInv'
<1>1. /\ n \in Nat /\ align(n) \in Nat /\ align(n) >= n
      /\ align(n) < n + WORDSIZE
  BY AlignUp
<1>2. UNCHANGED <<memory, arena, frags, live>> /\ pc = "idle"
      /\ next_page_ptr' = nullptr /\ pc' \in {"idle", "large_bro", "first_setup"}
  BY DEF MallocCall, Return, client, IInv, CallOK
<1>3. TypeOK'
  BY <1>1
  DEF MallocCall, Return, IInv, TypeOK, memory, arena, frags, client, Steps,
      Address0, Nothing, At
<1>4. BeforeFirstPage'
  BY <1>2 DEF IInv, BeforeFirstPage, SmallCall, memory, arena, frags
<1>5. CounterInCall'
  BY <1>2, BoundAssumption
  DEF MallocCall, Return, IInv, CounterInCall, OpeningPage, arena
<1>6. CallOK'
  <2>1. CASE n < 1
    BY <2>1, <1>2 DEF MallocCall, Return, CallOK, SmallCall, OpeningPage
  <2>2. CASE ~(n < 1)
    BY <2>2, <1>1, <1>2, Sizes DEF MallocCall, CallOK, SmallCall, OpeningPage
  <2> QED
    BY <2>1, <2>2
<1> QED
  BY <1>2, <1>3, <1>4, <1>5, <1>6, QuietStep DEF IInv, Crashes

LEMMA FirstSetupInv ==
  ASSUME IInv, FirstSetup
  PROVE  IInv'
<1>1. CASE first_page_ptr # nullptr /\ pc' = "find_available_fragment"
           /\ UNCHANGED <<memory, arena, frags, call, client>>
  <2>1. TypeOK'
    BY <1>1
    DEF IInv, TypeOK, memory, arena, frags, call, client, Steps
  <2>2. BeforeFirstPage' /\ CounterInCall' /\ CallOK'
    BY <1>1
    DEF FirstSetup, IInv, BeforeFirstPage, CounterInCall, CallOK, OpeningPage,
        SmallCall, memory, arena, frags, call, client
  <2> QED
    BY <1>1, <2>1, <2>2, QuietStep DEF FirstSetup, IInv, Crashes, client
<1>2. CASE Return("error") /\ UNCHANGED <<memory, arena, frags, live>>
  <2>1. TypeOK'
    BY <1>2
    DEF Return, IInv, TypeOK, memory, arena, frags, Address0, Nothing, At
  <2>2. BeforeFirstPage' /\ CounterInCall' /\ CallOK'
    BY <1>2
    DEF Return, IInv, BeforeFirstPage, CounterInCall, CallOK, OpeningPage,
        SmallCall, memory, arena, frags
  <2> QED
    BY <1>2, <2>1, <2>2, QuietStep DEF FirstSetup, Return, IInv, Crashes
<1>3. ASSUME NEW p \in Page, first_page_ptr = nullptr,
             CanMap(p, 1), mapped' = MapAs(p, 1, "norm"),
             page_hdr' = [page_hdr EXCEPT ![p] = BlankPage],
             first_page_ptr' = p, current_page' = p,
             current_block' = PHEADERSIZE,
             current_page_free_bytes' = FreshBytes, touched' = PHEADERSIZE,
             pc' = "find_available_fragment",
             UNCHANGED <<blocks, frags, call, client>>
      PROVE  IInv'
  <2> USE DEF frags, call, client
  <2>1. TypeOK'
    BY <1>3, Sizes DEF IInv, TypeOK, MapAs, PageHeader, BlankPage, Steps
  <2>2. /\ \A a \in DOMAIN blocks : a.off = 0
        /\ \A h \in Handles : live[h].off = 0
        /\ fragments = <<>> /\ next_page_ptr = nullptr
        /\ first_fragment_list_header \notin Page
    BY <1>3 DEF IInv, BeforeFirstPage, ListHasOne
  <2>3. HeadersPositive' /\ BeforeFirstPage' /\ AfterFirstPage' /\ LiveOffsets'
    BY <1>3, Sizes
    DEF IInv, HeadersPositive, BeforeFirstPage, AfterFirstPage, LiveOffsets
  <2>4. ListHasOne'
    BY <1>3, <2>2 DEF ListHasOne
  <2>5. CounterBound'
    <3>1. Header(CurrentBlock)' = ZeroHeader
      BY <1>3, <2>2 DEF Header, CurrentBlock, At
    <3> QED
      BY <1>3, <3>1, Sizes
      DEF CounterBound, Carved, RoomAtBlock, RoomLeft, NextBlock, ZeroHeader
  <2>6. CounterInCall'
    BY <1>3, Sizes, BoundAssumption DEF CounterInCall, OpeningPage
  <2>7. CallOK'
    BY <1>3, <2>2 DEF FirstSetup, IInv, CallOK, SmallCall
  <2>8. AllInPage'
    BY <1>3, <2>2 DEF AllInPage
  <2> QED
    BY <2>1, <2>3, <2>4, <2>5, <2>6, <2>7, <2>8 DEF IInv
<1> QED
  BY <1>1, <1>2, <1>3 DEF FirstSetup

LEMMA FindAvailableFragmentInv ==
  ASSUME IInv, FindAvailableFragment
  PROVE  IInv'
<1>1. CASE \E i \in 1..Len(fragments) : Crash(Fault(fragments[i].page))
  <2>1. PICK i \in 1..Len(fragments) : Crash(Fault(fragments[i].page))
    BY <1>1
  <2>2. Fault(fragments[i].page) \in Crashes
    BY DEF Fault, Crashes
  <2> QED
    BY <2>1, <2>2, CrashInv
<1>2. ASSUME \A i \in 1..Len(fragments) : WalkReads(i) => Readable(fragments[i]),
             pc = "find_available_fragment", pc' = "no_good_fragments",
             UNCHANGED <<memory, arena, frags, call, client>>
      PROVE  IInv'
  <2> USE <1>2 DEF memory, arena, frags, call, client
  <2>1. TypeOK'
    BY DEF IInv, TypeOK, Steps
  <2>2. HeadersPositive' /\ AfterFirstPage' /\ LiveOffsets' /\ BeforeFirstPage'
    BY DEF IInv, HeadersPositive, AfterFirstPage, LiveOffsets, BeforeFirstPage,
           SmallCall
  <2>3. \A i \in 1..Len(fragments) : Readable(fragments[i])
    BY DEF IInv, ListHasOne, WalkReads, TypeOK
  <2>4. ListHasOne'
    BY <2>3 DEF IInv, ListHasOne, Readable, Is
  <2>5. CounterBound'
    BY DEF IInv, CounterBound, Carved, RoomAtBlock, RoomLeft, NextBlock, CurrentBlock,
           Header, At, Crashes
  <2>6. CounterInCall' /\ CallOK' /\ AllInPage'
    BY DEF IInv, CounterInCall, CallOK, AllInPage, OpeningPage, SmallCall, InPage
  <2> QED
    BY <2>1, <2>2, <2>4, <2>5, <2>6 DEF IInv
<1>3. ASSUME NEW i \in 1..Len(fragments), Readable(fragments[i]),
             BigEnough(i), block' = fragments[i], RemoveFragment(i),
             pc = "find_available_fragment", pc' = "fix_block_header",
             UNCHANGED <<arena, handle, req, next_page_ptr, client>>
      PROVE  IInv'
  <2> USE <1>3 DEF arena, client
  <2>1. /\ i = 1 /\ Len(fragments) = 1 /\ first_fragment_list_header \in Page
        /\ fragments[1] \in DOMAIN blocks /\ fragments[1].off >= PHEADERSIZE
        /\ fragments[1] \in [page : Page, off : Nat]
    BY DEF IInv, ListHasOne, TypeOK
  <2>2. /\ fragments' = <<>> /\ first_fragment_list_header' = nullptr
        /\ Unmap(first_fragment_list_header)
        /\ free_spaces' = 0 /\ nodes_taken' = 0 /\ page_hdr' = page_hdr
    BY <2>1 DEF RemoveFragment, RemoveNode, IInv, TypeOK
  <2>3. /\ DOMAIN blocks' \subseteq DOMAIN blocks
        /\ \A a \in DOMAIN blocks' : blocks'[a] = blocks[a]
        /\ mapped' \in [Page -> {"none", "norm", "frag", "huge"}]
    BY <2>1, <2>2 DEF Unmap, WithoutPage, IInv, TypeOK
  <2>4. TypeOK'
    BY <2>1, <2>2, <2>3 DEF IInv, TypeOK, Steps, Address0
  <2>5. HeadersPositive' /\ AfterFirstPage' /\ LiveOffsets' /\ BeforeFirstPage'
    BY <2>2, <2>3
    DEF IInv, HeadersPositive, AfterFirstPage, LiveOffsets, BeforeFirstPage,
        SmallCall
  <2>6. ListHasOne'
    BY <2>2, Sizes DEF ListHasOne
  <2>7. CounterBound' /\ CounterInCall'
    <3>1. Header(CurrentBlock)' \in {Header(CurrentBlock), ZeroHeader}
      BY <2>3 DEF Header, CurrentBlock, At
    <3> QED
      BY <3>1
      DEF IInv, CounterBound, Carved, CounterInCall, RoomAtBlock, RoomLeft,
          NextBlock, ZeroHeader, OpeningPage, Crashes
  <2>8. CallOK'
    BY <2>1, Sizes DEF IInv, CallOK, SmallCall
  <2>9. AllInPage'
    <3>1. Header(fragments[1]) = blocks[fragments[1]] /\ req <= blocks[fragments[1]].size
          /\ req \in Nat /\ blocks[fragments[1]].size \in Nat
      BY <2>1 DEF Header, BigEnough, IInv, TypeOK, BlockHeader
    <3> QED
      BY <2>1, <2>3, <3>1, Sizes DEF IInv, AllInPage, Carved, BlockEnd, InPage
  <2> QED
    BY <2>4, <2>5, <2>6, <2>7, <2>8, <2>9 DEF IInv
<1> QED
  BY <1>1, <1>2, <1>3 DEF FindAvailableFragment

(* The next block of a page starts after the current one. *)
LEMMA NextBlockBounds ==
  ASSUME TypeOK
  PROVE  /\ NextBlock \in Nat /\ NextBlock >= current_block
         /\ CurrentBlock.page = current_page /\ CurrentBlock.off = current_block
         /\ Header(CurrentBlock).size \in Nat
<1>1. Header(CurrentBlock).size \in Nat
  BY DEF TypeOK, Header, ZeroHeader, BlockHeader
<1> QED
  BY <1>1 DEF TypeOK, NextBlock, CurrentBlock, At

LEMMA NoGoodFragmentsInv ==
  ASSUME IInv, NoGoodFragments
  PROVE  IInv'
<1> USE DEF memory, arena, frags, call, client
<1>1. /\ pc = "no_good_fragments" /\ first_page_ptr # nullptr
      /\ next_page_ptr = nullptr /\ req \in Nat /\ req > 0
      /\ req < FreshBytes + WORDSIZE
      /\ current_block \in Nat /\ current_block >= PHEADERSIZE
      /\ current_page_free_bytes \in Int /\ current_page_free_bytes >= -MaxDebt
  BY DEF NoGoodFragments, IInv, BeforeFirstPage, AfterFirstPage, CallOK,
         SmallCall, CounterInCall, TypeOK
<1>2. ASSUME BlockAvailable, Is(current_page, "norm"),
             current_block' = NextBlock, block' = At(current_page, NextBlock),
             pc' = "fix_block_header",
             UNCHANGED <<memory, first_page_ptr, current_page,
                         current_page_free_bytes, touched, frags, handle, req,
                         next_page_ptr, client>>
      PROVE  IInv'
  <2> USE <1>2
  <2>1. current_page \in Page /\ TypeOK
    BY DEF Is, IInv
  <2>2. TypeOK'
    BY <2>1, NextBlockBounds DEF TypeOK, Steps, Address0, At
  <2>3. HeadersPositive' /\ AfterFirstPage' /\ LiveOffsets' /\ BeforeFirstPage'
    BY <1>1, <2>1, NextBlockBounds
    DEF IInv, HeadersPositive, AfterFirstPage, LiveOffsets, BeforeFirstPage
  <2>4. ListHasOne'
    BY <1>1 DEF IInv, ListHasOne, Readable, Is
  <2>5. Carved'
    BY DEF Carved, CurrentBlock, At
  <2>6. CounterBound'
    BY <1>1, <2>1, <2>5, NextBlockBounds, Sizes
    DEF IInv, CounterBound, RoomAtBlock, RoomLeft, Carved, NextBlock, Crashes
  <2>7. CounterInCall'
    BY DEF CounterInCall, OpeningPage
  <2>8. CallOK'
    BY <1>1, <2>1, NextBlockBounds, Sizes DEF CallOK, OpeningPage, At
  <2>9. AllInPage'
    BY <2>5 DEF IInv, AllInPage, InPage
  <2> QED
    BY <2>2, <2>3, <2>4, <2>6, <2>7, <2>8, <2>9 DEF IInv
<1>3. CASE Crash(Fault(current_page))
  BY <1>3, CrashInv DEF Fault, Crashes
<1>4. ASSUME NEW p \in Page, ~BlockAvailable, CanMap(p, 1),
             mapped' = MapAs(p, 1, "norm"),
             page_hdr' = [page_hdr EXCEPT ![p] = BlankPage],
             next_page_ptr' = p, pc' = "open_page",
             UNCHANGED <<blocks, arena, frags, handle, req, block, client>>
      PROVE  IInv'
  <2> USE <1>4
  <2>1. TypeOK'
    BY DEF IInv, TypeOK, MapAs, PageHeader, BlankPage, Steps
  <2>2. HeadersPositive' /\ AfterFirstPage' /\ LiveOffsets' /\ BeforeFirstPage'
    BY <1>1
    DEF IInv, HeadersPositive, AfterFirstPage, LiveOffsets, BeforeFirstPage
  <2>3. ListHasOne'
    <3>1. mapped[p] = "none"
      BY DEF CanMap, Page
    <3>2. \A i \in 1..Len(fragments) :
            fragments[i] \in DOMAIN blocks /\ fragments[i].page # p
      BY <1>1, <3>1 DEF IInv, ListHasOne, Readable, Is
    <3> QED
      BY <3>2 DEF IInv, ListHasOne
  <2>4. CounterBound'
    BY <1>1
    DEF IInv, CounterBound, Carved, RoomAtBlock, RoomLeft, NextBlock,
        CurrentBlock, Header, At, Crashes
  <2>5. current_page_free_bytes >= BHEADERSIZE
    BY <1>1, Sizes, BoundAssumption DEF BlockAvailable, AsU64
  <2>6. CounterInCall' /\ CallOK'
    BY <1>1, <2>5, Sizes DEF IInv, CounterInCall, CallOK, OpeningPage, SmallCall
  <2>7. AllInPage'
    BY <1>1 DEF IInv, AllInPage, InPage
  <2> QED
    BY <2>1, <2>2, <2>3, <2>4, <2>6, <2>7 DEF IInv
<1>5. CASE Return("error") /\ UNCHANGED <<memory, arena, frags, live>>
  <2>1. TypeOK'
    BY <1>5 DEF Return, IInv, TypeOK, Address0, Nothing, At
  <2>2. BeforeFirstPage' /\ CounterInCall' /\ CallOK'
    BY <1>5
    DEF Return, IInv, BeforeFirstPage, CounterInCall, CallOK, OpeningPage,
        SmallCall
  <2> QED
    BY <1>1, <1>5, <2>1, <2>2, QuietStep DEF Return, IInv, Crashes
<1> QED
  BY <1>2, <1>3, <1>4, <1>5 DEF NoGoodFragments

(* Writing a header: the other headers stay. *)
LEMMA WithHeaderFacts ==
  ASSUME NEW a, NEW h
  PROVE  /\ DOMAIN WithHeader(a, h) = DOMAIN blocks \cup {a}
         /\ WithHeader(a, h)[a] = h
         /\ \A x \in DOMAIN blocks : x # a => WithHeader(a, h)[x] = blocks[x]
  BY DEF WithHeader

LEMMA OpenPageInv ==
  ASSUME IInv, OpenPage
  PROVE  IInv'
<1> USE DEF frags, call, client
<1>1. CASE Crash(Fault(current_page)) \/ Crash(WritePast(At(current_page, NextBlock)))
  BY <1>1, CrashInv DEF Fault, WritePast, Crashes
<1>2. ASSUME NEW t \in {"FREE", "STALE"}, pc = "open_page",
             Is(current_page, "norm"),
             ~PastEnd(At(current_page, NextBlock)),
             blocks' = WithHeader(At(current_page, NextBlock),
                         [type |-> t, page |-> nullptr,
                          size |-> MALLOC_PAGE_SIZE - NextBlock - BHEADERSIZE]),
             current_block' = NextBlock,
             block' = At(current_page, NextBlock),
             pc' = "insert_fragment",
             UNCHANGED <<mapped, page_hdr, first_page_ptr, current_page,
                         current_page_free_bytes, touched, frags, handle, req,
                         next_page_ptr, client>>
      PROVE  IInv'
  <2> USE <1>2
  <2> DEFINE a == At(current_page, NextBlock)
             size == MALLOC_PAGE_SIZE - NextBlock - BHEADERSIZE
             hdr == [type |-> t, page |-> nullptr, size |-> size]
  <2>1. /\ TypeOK /\ current_page \in Page /\ first_page_ptr # nullptr
        /\ next_page_ptr # nullptr /\ current_block \in Nat
        /\ current_block >= PHEADERSIZE
        /\ req > 0 /\ req < FreshBytes + WORDSIZE
        /\ current_page_free_bytes \in Int
        /\ current_page_free_bytes >= BHEADERSIZE
    BY DEF Is, IInv, BeforeFirstPage, AfterFirstPage, CallOK, SmallCall,
           CounterInCall, OpeningPage, TypeOK
  <2>2. /\ NextBlock \in Nat /\ NextBlock >= PHEADERSIZE
        /\ a.page = current_page /\ a.off = NextBlock
        /\ a \in [page : Page, off : Nat]
    BY <2>1, NextBlockBounds DEF At
  <2>3. current_page_free_bytes <= size /\ size \in Nat /\ size > 0
    <3>1. NextBlock + BHEADERSIZE <= MALLOC_PAGE_SIZE
      BY <2>2, Sizes DEF PastEnd
    <3> QED
      BY <2>1, <2>2, <3>1, Sizes
      DEF IInv, CounterBound, Carved, RoomAtBlock, RoomLeft, NextBlock, Crashes
  <2> HIDE DEF a
  <2>4. /\ blocks' = WithHeader(a, hdr) /\ block' = a
        /\ hdr \in BlockHeader /\ hdr.size = size /\ hdr.type = t
    BY <2>3 DEF a, BlockHeader, BlockTypes
  <2> HIDE DEF hdr
  <2>5. /\ DOMAIN blocks' = DOMAIN blocks \cup {a} /\ blocks'[a] = hdr
        /\ \A x \in DOMAIN blocks : x # a => blocks'[x] = blocks[x]
    BY <2>4, WithHeaderFacts
  <2>6. TypeOK'
    BY <2>1, <2>2, <2>4, <2>5 DEF TypeOK, Steps, Address0
  <2>7. HeadersPositive' /\ AfterFirstPage' /\ LiveOffsets' /\ BeforeFirstPage'
    <3>1. HeadersPositive'
      <4>1. a.off >= PHEADERSIZE /\ a.off # 0 /\ blocks'[a].size > 0
        BY <2>2, <2>3, <2>4, <2>5
      <4> QED
        BY <4>1, <2>5 DEF IInv, HeadersPositive
    <3>2. AfterFirstPage' /\ LiveOffsets' /\ BeforeFirstPage'
      BY <2>1, <2>2 DEF IInv, AfterFirstPage, LiveOffsets, BeforeFirstPage
    <3> QED
      BY <3>1, <3>2
  <2>8. ListHasOne'
    BY <2>5 DEF IInv, ListHasOne, Readable, Is
  <2>9. CounterBound'
    <3>1. Header(CurrentBlock)' = hdr
      BY <2>5 DEF a, Header, CurrentBlock, At
    <3> QED
      BY <2>1, <2>2, <2>3, <2>4, <3>1, Sizes
      DEF CounterBound, Carved, RoomAtBlock, RoomLeft, NextBlock
  <2>10. CounterInCall' /\ CallOK'
    <3>1. block'.page # nullptr /\ block'.off >= PHEADERSIZE
      BY <2>1, <2>2, <2>4, Sizes
    <3> QED
      BY <2>1, <3>1 DEF CounterInCall, CallOK, OpeningPage, SmallCall
  <2>11. AllInPage'
    <3>1. a.off + BHEADERSIZE + blocks'[a].size = MALLOC_PAGE_SIZE
      BY <2>2, <2>3, <2>4, <2>5, Sizes
    <3> QED
      BY <2>1, <2>5, <3>1, Sizes DEF IInv, AllInPage, InPage
  <2> QED
    BY <2>6, <2>7, <2>8, <2>9, <2>10, <2>11 DEF IInv
<1> QED
  BY <1>1, <1>2 DEF OpenPage

(* Between calls a page may go, with the headers on it and perhaps a block *)
(* of the client's.                                                        *)
LEMMA UnmapStep ==
  ASSUME IInv, UNCHANGED <<arena, frags>>,
         NEW p \in Page \cup {nullptr}, Unmap(p) \/ UNCHANGED <<mapped, blocks>>,
         \A h \in Handles : live'[h] \in {live[h], NoBlock},
         pc \notin Crashes \cup {"fix_block_header"}, Return("error") \/ Return("ok")
  PROVE  /\ mapped' \in [Page -> {"none", "norm", "frag", "huge"}]
         /\ DOMAIN blocks' \subseteq DOMAIN blocks
         /\ \A a \in DOMAIN blocks' : blocks'[a] = blocks[a]
         /\ HeadersPositive' /\ AfterFirstPage' /\ LiveOffsets' /\ BeforeFirstPage'
         /\ ListHasOne' /\ CounterBound' /\ CounterInCall' /\ CallOK' /\ AllInPage'
<1> USE DEF arena, frags, Return
<1>1. /\ mapped' \in [Page -> {"none", "norm", "frag", "huge"}]
      /\ \A q \in Page : mapped'[q] \in {mapped[q], "none"}
      /\ DOMAIN blocks' \subseteq DOMAIN blocks
      /\ \A a \in DOMAIN blocks \ DOMAIN blocks' :
           a.page \in Page => mapped'[a.page] = "none"
      /\ \A a \in DOMAIN blocks' : blocks'[a] = blocks[a]
  BY DEF Unmap, WithoutPage, IInv, TypeOK
<1>2. HeadersPositive' /\ AfterFirstPage' /\ LiveOffsets'
  BY <1>1 DEF IInv, HeadersPositive, AfterFirstPage, LiveOffsets, NoBlock
<1>3. BeforeFirstPage'
  BY <1>1 DEF IInv, BeforeFirstPage, SmallCall, NoBlock
<1>4. ListHasOne'
  BY <1>1 DEF IInv, ListHasOne, Readable, Is
<1>5. CounterBound'
  <2>1. Header(CurrentBlock)' \in {Header(CurrentBlock), ZeroHeader}
    BY <1>1 DEF Header, CurrentBlock, At
  <2> QED
    BY <2>1
    DEF IInv, CounterBound, Carved, RoomAtBlock, RoomLeft, NextBlock,
        ZeroHeader, Crashes
<1>6. CounterInCall' /\ CallOK'
  BY DEF CounterInCall, CallOK, OpeningPage, SmallCall
<1>7. AllInPage'
  BY <1>1 DEF IInv, AllInPage, InPage, NoBlock
<1> QED
  BY <1>1, <1>2, <1>3, <1>4, <1>5, <1>6, <1>7

LEMMA UndoOpenPageInv ==
  ASSUME IInv, UndoOpenPage
  PROVE  IInv'
<1>1. /\ Unmap(next_page_ptr) /\ Return("error") /\ pc = "undo_open_page"
      /\ UNCHANGED <<page_hdr, arena, frags, live>>
      /\ next_page_ptr \in Page \cup {nullptr}
  BY DEF UndoOpenPage, IInv, TypeOK
<1>2. /\ mapped' \in [Page -> {"none", "norm", "frag", "huge"}]
      /\ DOMAIN blocks' \subseteq DOMAIN blocks
      /\ \A a \in DOMAIN blocks' : blocks'[a] = blocks[a]
      /\ HeadersPositive' /\ AfterFirstPage' /\ LiveOffsets' /\ BeforeFirstPage'
      /\ ListHasOne' /\ CounterBound' /\ CounterInCall' /\ CallOK' /\ AllInPage'
  BY <1>1, UnmapStep DEF Crashes
<1>3. TypeOK'
  BY <1>1, <1>2
  DEF Return, IInv, TypeOK, arena, frags, Address0, Nothing, At
<1> QED
  BY <1>2, <1>3 DEF IInv

(* Setting a field of one page's header. *)
LEMMA UsagesFacts ==
  ASSUME NEW H \in [Page -> PageHeader], NEW p
  PROVE  /\ [H EXCEPT ![p].usages = 0] \in [Page -> PageHeader]
         /\ [H EXCEPT ![p].usages = @ + 1] \in [Page -> PageHeader]
         /\ [H EXCEPT ![p].usages = @ - 1] \in [Page -> PageHeader]
<1>1. ASSUME NEW v \in Int
      PROVE  [H EXCEPT ![p].usages = v] \in [Page -> PageHeader]
  <2>1. \A x \in PageHeader : [x EXCEPT !.usages = v] \in PageHeader
    BY DEF PageHeader
  <2>2. CASE p \in Page
    <3>1. H[p] \in PageHeader
      BY <2>2
    <3>2. \A y \in PageHeader : [H EXCEPT ![p] = y] \in [Page -> PageHeader]
      OBVIOUS
    <3> QED
      BY <2>1, <3>1, <3>2
  <2>3. CASE p \notin Page
    BY <2>3
  <2> QED
    BY <2>2, <2>3
<1>2. CASE p \in Page
  <2>1. H[p].usages + 1 \in Int /\ H[p].usages - 1 \in Int
    BY <1>2 DEF PageHeader
  <2> QED
    BY <1>1, <2>1
<1>3. CASE p \notin Page
  BY <1>3
<1> QED
  BY <1>2, <1>3

LEMMA LinkFacts ==
  ASSUME NEW H \in [Page -> PageHeader], NEW p, NEW q \in Page \cup {nullptr}
  PROVE  /\ [H EXCEPT ![p].next_page = q] \in [Page -> PageHeader]
         /\ [H EXCEPT ![p].prev_page = q] \in [Page -> PageHeader]
<1>1. \A x \in PageHeader : /\ [x EXCEPT !.next_page = q] \in PageHeader
                            /\ [x EXCEPT !.prev_page = q] \in PageHeader
  BY DEF PageHeader
<1>2. CASE p \in Page
  <2>1. H[p] \in PageHeader
    BY <1>2
  <2>2. \A y \in PageHeader : [H EXCEPT ![p] = y] \in [Page -> PageHeader]
    OBVIOUS
  <2> QED
    BY <1>1, <2>1, <2>2
<1>3. CASE p \notin Page
  BY <1>3
<1> QED
  BY <1>2, <1>3

LEMMA LinkPageInv ==
  ASSUME IInv, LinkPage
  PROVE  IInv'
<1> USE DEF LinkPage, frags
<1>1. /\ TypeOK /\ first_page_ptr # nullptr
      /\ next_page_ptr \in Page /\ next_page_ptr # nullptr
      /\ req > 0 /\ req < FreshBytes + WORDSIZE
      /\ current_page_free_bytes \in Int
      /\ current_page_free_bytes >= BHEADERSIZE
  BY DEF IInv, BeforeFirstPage, CallOK, SmallCall, CounterInCall, OpeningPage,
         TypeOK
<1>2. TypeOK'
  <2>1. page_hdr' \in [Page -> PageHeader]
    <3> DEFINE H1 == [page_hdr EXCEPT ![next_page_ptr].usages = 0]
               H2 == [H1 EXCEPT ![next_page_ptr].prev_page = current_page]
               H3 == [H2 EXCEPT ![current_page].next_page = next_page_ptr]
    <3>1. page_hdr' = H3
      OBVIOUS
    <3>2. H1 \in [Page -> PageHeader]
      BY <1>1, UsagesFacts DEF TypeOK
    <3> HIDE DEF H1
    <3>3. H2 \in [Page -> PageHeader]
      BY <1>1, <3>2, LinkFacts DEF TypeOK
    <3> HIDE DEF H2
    <3>4. H3 \in [Page -> PageHeader]
      BY <1>1, <3>3, LinkFacts
    <3> QED
      BY <3>1, <3>4
  <2>2. /\ current_page' = next_page_ptr
        /\ current_block' = PHEADERSIZE /\ current_page_free_bytes' = FreshBytes
        /\ touched' = PHEADERSIZE /\ block' = At(next_page_ptr, PHEADERSIZE)
        /\ pc' = "fix_block_header"
        /\ UNCHANGED <<mapped, blocks, first_page_ptr, frags, handle, req,
                       next_page_ptr, client>>
    OBVIOUS
  <2> HIDE DEF LinkPage
  <2> QED
    BY <1>1, <2>1, <2>2, Sizes DEF TypeOK, Steps, Address0, At, client
<1>3. HeadersPositive' /\ AfterFirstPage' /\ LiveOffsets' /\ BeforeFirstPage'
  BY <1>1
  DEF IInv, HeadersPositive, AfterFirstPage, LiveOffsets, BeforeFirstPage, client
<1>4. ListHasOne'
  BY DEF IInv, ListHasOne, Readable, Is
<1>5. Carved'
  BY DEF Carved, CurrentBlock, At
<1>6. CounterBound' /\ CounterInCall'
  BY <1>5, Sizes DEF CounterBound, RoomAtBlock, CounterInCall, OpeningPage
<1>7. CallOK'
  BY <1>1 DEF CallOK, OpeningPage, At
<1>8. AllInPage'
  BY <1>1, <1>5 DEF IInv, AllInPage, InPage, client
<1> QED
  BY <1>2, <1>3, <1>4, <1>6, <1>7, <1>8 DEF IInv

LEMMA FixBlockHeaderInv ==
  ASSUME IInv, FixBlockHeader
  PROVE  IInv'
<1>1. CASE Crash(WritePast(block)) \/ Crash(Fault(current_page))
  BY <1>1, CrashInv DEF Fault, WritePast, Crashes
<1>2. ASSUME pc = "fix_block_header",
             ~PastEnd(block),
             blocks' = WithHeader(block,
                [type |-> "USED", size |-> req, page |-> current_page]),
             page_hdr' = [page_hdr EXCEPT ![ChargedPage].usages = @ + 1],
             current_page_free_bytes' = current_page_free_bytes - Charge,
             touched' = IF block.page = current_page /\ BlockEnd > touched
                          THEN BlockEnd ELSE touched,
             live' = [live EXCEPT ![handle] =
                        [page |-> block.page, off |-> block.off, size |-> req]],
             Return("ok"),
             UNCHANGED <<mapped, first_page_ptr, current_page, current_block, frags>>
      PROVE  IInv'
  <2> USE <1>2 DEF frags, Return
  <2> DEFINE hdr == [type |-> "USED", size |-> req, page |-> current_page]
             given == [page |-> block.page, off |-> block.off, size |-> req]
  <2>1. /\ TypeOK /\ first_page_ptr # nullptr
        /\ req \in Nat /\ req > 0
        /\ block.page \in Page /\ block.off \in Nat /\ block.off >= PHEADERSIZE
        /\ block \in [page : Page, off : Nat]
        /\ current_block \in Nat /\ current_page \in Page \cup {nullptr}
        /\ current_page_free_bytes \in Int
    BY DEF IInv, BeforeFirstPage, CallOK, SmallCall, TypeOK, Address0
  <2>0. block.off + BHEADERSIZE <= MALLOC_PAGE_SIZE
    BY <2>1, Sizes DEF PastEnd
  <2>2. /\ hdr \in BlockHeader /\ hdr.size = req /\ hdr.type = "USED"
        /\ given \in [page : Page \cup {nullptr}, off : Nat, size : Nat]
        /\ given.off = block.off /\ given.size = req
    BY <2>1 DEF BlockHeader, BlockTypes
  <2> HIDE DEF hdr, given
  <2>3. /\ DOMAIN blocks' = DOMAIN blocks \cup {block} /\ blocks'[block] = hdr
        /\ \A x \in DOMAIN blocks : x # block => blocks'[x] = blocks[x]
    <3>1. blocks' = WithHeader(block, hdr)
      BY DEF hdr
    <3> QED
      BY <3>1 DEF WithHeader
  <2>4. /\ live' \in [Handles -> [page : Page \cup {nullptr}, off : Nat, size : Nat]]
        /\ \A h \in Handles : live'[h] = live[h] \/ live'[h] = given
    BY <2>1, <2>2 DEF given, TypeOK
  <2>5. current_page_free_bytes' = current_page_free_bytes - req - BHEADERSIZE
    BY <2>1 DEF Charge
  <2>6. TypeOK'
    <3>1. page_hdr' \in [Page -> PageHeader]
      BY <2>1, UsagesFacts DEF TypeOK, ChargedPage
    <3>2. touched' \in Nat
      BY <2>1 DEF TypeOK, BlockEnd
    <3>3. \A a \in DOMAIN blocks' : blocks'[a] \in BlockHeader
      BY <2>1, <2>2, <2>3 DEF TypeOK
    <3>4. /\ pc' = "idle" /\ ret' = "ok" /\ handle' = NoHandle /\ req' = 0
          /\ block' = Nothing /\ next_page_ptr' = nullptr
          /\ UNCHANGED <<mapped, first_page_ptr, current_page, current_block, frags>>
      OBVIOUS
    <3> HIDE <1>2
    <3> QED
      BY <2>1, <2>3, <2>4, <2>5, <3>1, <3>2, <3>3, <3>4
      DEF TypeOK, Address0, Nothing, At
  <2>7. HeadersPositive'
    <3>1. block.off # 0 /\ blocks'[block].size > 0
      BY <2>1, <2>2, <2>3
    <3> QED
      BY <2>1, <2>3, <3>1 DEF IInv, HeadersPositive
  <2>8. AfterFirstPage' /\ LiveOffsets' /\ BeforeFirstPage'
    BY <2>1, <2>2, <2>4 DEF IInv, AfterFirstPage, LiveOffsets, BeforeFirstPage
  <2>9. ListHasOne'
    BY <2>3 DEF IInv, ListHasOne, Readable, Is
  <2>10. CounterBound'
    <3>1. current_page_free_bytes <= RoomAtBlock
      BY <2>0, <2>1, Sizes DEF IInv, CounterBound, Carved, CurrentBlock, At, Crashes
    <3>2. CASE block = CurrentBlock
      <4>1. Header(CurrentBlock)' = hdr
        BY <2>3, <3>2 DEF Header, CurrentBlock, At
      <4> QED
        BY <2>1, <2>2, <2>5, <3>1, <4>1, Sizes
        DEF CounterBound, Carved, RoomAtBlock, RoomLeft, NextBlock
    <3>3. CASE block # CurrentBlock
      <4>1. Header(CurrentBlock)' = Header(CurrentBlock)
        BY <2>3, <3>3 DEF Header, CurrentBlock, At
      <4>2. RoomLeft' = RoomLeft /\ RoomAtBlock' = RoomAtBlock
        BY <4>1 DEF RoomLeft, NextBlock, RoomAtBlock
      <4>3. \/ current_page_free_bytes <= RoomLeft
            \/ /\ Header(CurrentBlock).type = "STALE"
               /\ Header(CurrentBlock).size = RoomAtBlock
        BY <2>1, <3>3 DEF IInv, CounterBound, Carved, Crashes
      <4>4. RoomLeft \in Int /\ RoomAtBlock \in Int
        BY <2>1, NextBlockBounds, Sizes DEF RoomLeft, RoomAtBlock
      <4>5. \A r \in Int : current_page_free_bytes <= r
                             => current_page_free_bytes' <= r
        BY <2>1, <2>5
      <4> QED
        BY <3>1, <4>1, <4>2, <4>3, <4>4, <4>5 DEF CounterBound
    <3> QED
      BY <3>2, <3>3
  <2>11. CounterInCall' /\ CallOK'
    BY DEF CounterInCall, CallOK, OpeningPage, SmallCall
  <2>12. AllInPage'
    <3> SUFFICES ASSUME current_page_free_bytes' >= 0
                 PROVE  AllInPage'
      BY DEF AllInPage
    <3>1. current_page_free_bytes >= 0
      BY <2>1, <2>5
    <3>2. block.off + BHEADERSIZE + req <= MALLOC_PAGE_SIZE
      <4>1. CASE Carved
        BY <2>0, <2>1, <2>5, <4>1, Sizes
        DEF IInv, CounterBound, Carved, CurrentBlock, At, RoomAtBlock, Crashes
      <4>2. CASE ~Carved
        BY <3>1, <4>2, <2>1 DEF IInv, AllInPage, BlockEnd
      <4> QED
        BY <4>1, <4>2
    <3> QED
      BY <2>1, <2>2, <2>3, <2>4, <3>1, <3>2 DEF IInv, AllInPage, InPage
  <2> QED
    BY <2>6, <2>7, <2>8, <2>9, <2>10, <2>11, <2>12 DEF IInv
<1> QED
  BY <1>1, <1>2 DEF FixBlockHeader

LEMMA LargeBroInv ==
  ASSUME IInv, LargeBro
  PROVE  IInv'
<1> USE DEF arena, frags, Return
<1>1. ASSUME NEW p \in Page, pc = "large_bro",
             CanMap(p, PagesFor(req)),
             mapped' = MapAs(p, PagesFor(req), "huge"),
             blocks' = WithHeader(At(p, 0),
                         [type |-> "HUGE", size |-> req, page |-> p]),
             live' = [live EXCEPT ![handle] =
                        [page |-> p, off |-> 0, size |-> req]],
             Return("ok"), UNCHANGED <<page_hdr, arena, frags>>
      PROVE  IInv'
  <2> USE <1>1
  <2> DEFINE a == At(p, 0)
             hdr == [type |-> "HUGE", size |-> req, page |-> p]
             given == [page |-> p, off |-> 0, size |-> req]
  <2>1. TypeOK /\ req \in Nat /\ req > 0
    BY DEF IInv, TypeOK, CallOK
  <2>2. /\ hdr \in BlockHeader /\ hdr.size = req /\ hdr.type = "HUGE"
        /\ given \in [page : Page \cup {nullptr}, off : Nat, size : Nat]
        /\ given.off = 0
        /\ a \in [page : Page, off : Nat] /\ a.page = p /\ a.off = 0
    BY <2>1 DEF BlockHeader, BlockTypes, At
  <2>3. DOMAIN blocks' = DOMAIN blocks \cup {a} /\ blocks'[a] = hdr
        /\ \A x \in DOMAIN blocks : x # a => blocks'[x] = blocks[x]
    BY DEF WithHeader
  <2>4. /\ live' \in [Handles -> [page : Page \cup {nullptr}, off : Nat, size : Nat]]
        /\ \A h \in Handles : live'[h] = live[h] \/ live'[h] = given
    BY <2>1, <2>2 DEF TypeOK
  <2>5. /\ mapped' \in [Page -> {"none", "norm", "frag", "huge"}]
        /\ \A q \in Page : mapped'[q] \in {mapped[q], "huge"}
    BY <2>1 DEF TypeOK, MapAs
  <2>6. /\ pc' = "idle" /\ ret' = "ok" /\ handle' = NoHandle /\ req' = 0
        /\ block' = Nothing /\ next_page_ptr' = nullptr
        /\ UNCHANGED <<page_hdr, arena, frags>>
    OBVIOUS
  <2> HIDE <1>1
  <2> HIDE DEF a, hdr, given
  <2>7. TypeOK'
    <3>1. \A x \in DOMAIN blocks' : blocks'[x] \in BlockHeader
      BY <2>1, <2>2, <2>3 DEF TypeOK
    <3> QED
      BY <2>1, <2>2, <2>3, <2>4, <2>5, <2>6, <3>1
      DEF TypeOK, Address0, Nothing, At
  <2>8. HeadersPositive'
    <3>1. blocks'[a].size > 0 /\ blocks'[a].type = "HUGE"
      BY <2>1, <2>2, <2>3
    <3> QED
      BY <2>2, <2>3, <3>1 DEF IInv, HeadersPositive
  <2>9. AfterFirstPage' /\ LiveOffsets' /\ BeforeFirstPage'
    BY <2>2, <2>3, <2>4, <2>6
    DEF IInv, AfterFirstPage, LiveOffsets, BeforeFirstPage, SmallCall
  <2>10. ListHasOne'
    <3>1. \A i \in 1..Len(fragments) :
            Readable(fragments[i])' => Readable(fragments[i])
      BY <2>5, <2>6 DEF IInv, ListHasOne, Readable, Is
    <3> QED
      BY <2>3, <2>6, <3>1 DEF IInv, ListHasOne
  <2>11. CounterBound'
    <3> SUFFICES ASSUME first_page_ptr # nullptr PROVE CounterBound'
      BY <2>6 DEF CounterBound
    <3>1. CurrentBlock # a
      BY <2>2 DEF IInv, AfterFirstPage, CurrentBlock, At
    <3>2. Header(CurrentBlock)' = Header(CurrentBlock)
      BY <2>3, <2>6, <3>1 DEF Header, CurrentBlock, At
    <3> QED
      BY <1>1, <2>6, <3>2
      DEF IInv, CounterBound, Carved, RoomAtBlock, RoomLeft, NextBlock, Crashes
  <2>12. CounterInCall' /\ CallOK'
    BY <2>6 DEF CounterInCall, CallOK, OpeningPage, SmallCall
  <2>13. AllInPage'
    BY <2>2, <2>3, <2>4, <2>6 DEF IInv, AllInPage, InPage
  <2> QED
    BY <2>7, <2>8, <2>9, <2>10, <2>11, <2>12, <2>13 DEF IInv
<1>2. CASE Return("error") /\ UNCHANGED <<memory, arena, frags, live>>
  <2>1. TypeOK'
    BY <1>2 DEF IInv, TypeOK, memory, Address0, Nothing, At
  <2>2. BeforeFirstPage' /\ CounterInCall' /\ CallOK'
    BY <1>2
    DEF IInv, BeforeFirstPage, CounterInCall, CallOK, OpeningPage, SmallCall,
        memory
  <2> QED
    BY <1>2, <2>1, <2>2, QuietStep DEF LargeBro, IInv, Crashes
<1> QED
  BY <1>1, <1>2 DEF LargeBro

(***************************************************************************)
(* free                                                                    *)
(***************************************************************************)

LEMMA FreeCallInv ==
  ASSUME IInv, NEW h \in Handles, FreeCall(h)
  PROVE  IInv'
<1>1. CASE Crash(Fault(live[h].page))
  BY <1>1, CrashInv DEF Fault, Crashes
<1>2. ASSUME Readable(Address(h)), handle' = h, block' = Address(h),
             pc' = IF Header(Address(h)).type = "HUGE"
                     THEN "large_free_bro" ELSE "insert_fragment",
             UNCHANGED <<memory, arena, frags, req, next_page_ptr, client>>,
             pc = "idle"
      PROVE  IInv'
  <2> USE <1>2 DEF memory, arena, frags, client
  <2>1. /\ Address(h) \in [page : Page, off : Nat]
        /\ Address(h).page # nullptr /\ Address(h).off = live[h].off
        /\ next_page_ptr = nullptr
    BY Sizes DEF Address, At, Readable, Is, IInv, TypeOK, CallOK
  <2>2. TypeOK'
    BY <2>1 DEF IInv, TypeOK, Steps, Address0
  <2>3. BeforeFirstPage' /\ CounterInCall'
    BY <2>1 DEF IInv, BeforeFirstPage, CounterInCall, OpeningPage, SmallCall
  <2>4. CallOK'
    <3>1. pc' = "insert_fragment" =>
            Address(h).off >= PHEADERSIZE \/ Address(h) \notin DOMAIN blocks
      BY <2>1 DEF IInv, LiveOffsets, HeadersPositive, Header
    <3> QED
      BY <2>1, <3>1 DEF CallOK, OpeningPage, SmallCall
  <2> QED
    BY <2>2, <2>3, <2>4, QuietStep DEF IInv, Crashes
<1> QED
  BY <1>1, <1>2 DEF FreeCall

LEMMA LargeFreeBroInv ==
  ASSUME IInv, LargeFreeBro
  PROVE  IInv'
<1>1. /\ Unmap(block.page) /\ Return("ok") /\ pc = "large_free_bro"
      /\ UNCHANGED <<page_hdr, arena, frags>>
      /\ block.page \in Page \cup {nullptr}
      /\ live' = [live EXCEPT ![handle] = NoBlock]
  BY DEF LargeFreeBro, IInv, TypeOK, Address0
<1>2. /\ live' \in [Handles -> [page : Page \cup {nullptr}, off : Nat, size : Nat]]
      /\ \A h \in Handles : live'[h] \in {live[h], NoBlock}
  BY <1>1 DEF IInv, TypeOK, NoBlock
<1>3. /\ mapped' \in [Page -> {"none", "norm", "frag", "huge"}]
      /\ DOMAIN blocks' \subseteq DOMAIN blocks
      /\ \A a \in DOMAIN blocks' : blocks'[a] = blocks[a]
      /\ HeadersPositive' /\ AfterFirstPage' /\ LiveOffsets' /\ BeforeFirstPage'
      /\ ListHasOne' /\ CounterBound' /\ CounterInCall' /\ CallOK' /\ AllInPage'
  BY <1>1, <1>2, UnmapStep DEF Crashes
<1>4. TypeOK'
  BY <1>1, <1>2, <1>3
  DEF Return, IInv, TypeOK, arena, frags, Address0, Nothing, At
<1> QED
  BY <1>3, <1>4 DEF IInv

LEMMA DropUsageInv ==
  ASSUME IInv, DropUsage
  PROVE  IInv'
<1> DEFINE p == Header(block).page
<1>1. CASE Crash(Fault(p))
  BY <1>1, CrashInv DEF Fault, Crashes
<1>2. ASSUME page_hdr' = [page_hdr EXCEPT ![p].usages = @ - 1],
             Unmap(current_page) \/ UNCHANGED <<mapped, blocks>>,
             live' = [live EXCEPT ![handle] = NoBlock],
             Return("ok"), UNCHANGED <<arena, frags>>
      PROVE  IInv'
  <2>1. /\ live' \in [Handles -> [page : Page \cup {nullptr}, off : Nat, size : Nat]]
        /\ \A h \in Handles : live'[h] \in {live[h], NoBlock}
    BY <1>2 DEF IInv, TypeOK, NoBlock
  <2>2. current_page \in Page \cup {nullptr} /\ pc = "drop_usage"
    BY DEF IInv, TypeOK, DropUsage
  <2>3. /\ mapped' \in [Page -> {"none", "norm", "frag", "huge"}]
        /\ DOMAIN blocks' \subseteq DOMAIN blocks
        /\ \A a \in DOMAIN blocks' : blocks'[a] = blocks[a]
        /\ HeadersPositive' /\ AfterFirstPage' /\ LiveOffsets' /\ BeforeFirstPage'
        /\ ListHasOne' /\ CounterBound' /\ CounterInCall' /\ CallOK' /\ AllInPage'
    BY <1>2, <2>1, <2>2, UnmapStep DEF Crashes
  <2> HIDE DEF p
  <2>4. page_hdr' \in [Page -> PageHeader]
    BY <1>2, UsagesFacts DEF IInv, TypeOK
  <2>5. TypeOK'
    BY <1>2, <2>1, <2>3, <2>4
    DEF Return, IInv, TypeOK, arena, frags, Address0, Nothing, At
  <2> QED
    BY <2>3, <2>5 DEF IInv
<1> QED
  BY <1>1, <1>2 DEF DropUsage

(***************************************************************************)
(* insert_fragment                                                         *)
(***************************************************************************)

(* The header of the inserted block changes its type and keeps its size. *)
LEMMA FreedHeader ==
  ASSUME TypeOK, NEW a \in DOMAIN blocks,
         blocks' = WithHeader(a, [Header(a) EXCEPT !.type = "FREE"])
  PROVE  /\ DOMAIN blocks' = DOMAIN blocks
         /\ \A x \in DOMAIN blocks : /\ blocks'[x] \in BlockHeader
                                     /\ blocks'[x].size = blocks[x].size
                                     /\ x # a => blocks'[x] = blocks[x]
         /\ blocks'[a].type = "FREE"
<1> DEFINE hdr == [Header(a) EXCEPT !.type = "FREE"]
<1>1. /\ Header(a) = blocks[a] /\ blocks[a] \in BlockHeader
      /\ hdr \in BlockHeader /\ hdr.type = "FREE" /\ hdr.size = blocks[a].size
  BY DEF TypeOK, Header, BlockHeader, BlockTypes
<1>2. blocks' = WithHeader(a, hdr)
  OBVIOUS
<1> HIDE DEF hdr
<1>3. /\ DOMAIN blocks' = DOMAIN blocks /\ blocks'[a] = hdr
      /\ \A x \in DOMAIN blocks : x # a => blocks'[x] = blocks[x]
  BY <1>2 DEF WithHeader
<1> QED
  BY <1>1, <1>3 DEF TypeOK

(* What an insertion that put block on the list owes the invariant. *)
LEMMA InsertedStep ==
  ASSUME IInv, pc = "insert_fragment", Header(block).size # 0,
         blocks' = WithHeader(block, [Header(block) EXCEPT !.type = "FREE"]),
         fragments' = <<block>>, first_fragment_list_header' \in Page,
         free_spaces' \in Int, nodes_taken' \in Int,
         free_spaces' + nodes_taken' = MaxListNodes + 1, nodes_taken' >= 1,
         mapped' \in [Page -> {"none", "norm", "frag", "huge"}],
         Inserted, UNCHANGED <<page_hdr, arena, call, client>>
  PROVE  IInv'
<1> USE DEF arena, call, client
<1>1. /\ TypeOK /\ block \in DOMAIN blocks /\ block.off >= PHEADERSIZE
      /\ block \in [page : Page, off : Nat]
  BY DEF IInv, TypeOK, CallOK, Header, ZeroHeader
<1>2. /\ DOMAIN blocks' = DOMAIN blocks
      /\ \A x \in DOMAIN blocks : /\ blocks'[x] \in BlockHeader
                                  /\ blocks'[x].size = blocks[x].size
                                  /\ x # block => blocks'[x] = blocks[x]
      /\ blocks'[block].type = "FREE"
  BY <1>1, FreedHeader
<1>3. pc' = IF next_page_ptr # nullptr THEN "link_page" ELSE "drop_usage"
  BY DEF Inserted, CalledByMalloc
<1>4. first_page_ptr # nullptr
  BY <1>1 DEF IInv, BeforeFirstPage
<1>5. TypeOK'
  <2>1. fragments' \in Seq([page : Page, off : Nat])
    BY <1>1
  <2>2. /\ DOMAIN blocks' \subseteq [page : Page, off : Nat]
        /\ \A x \in DOMAIN blocks' : blocks'[x] \in BlockHeader
    BY <1>1, <1>2 DEF TypeOK
  <2>3. pc' \in Steps
    BY <1>3 DEF Steps
  <2> QED
    BY <1>1, <2>1, <2>2, <2>3 DEF TypeOK
<1>6. HeadersPositive'
  BY <1>1, <1>2 DEF IInv, HeadersPositive
<1>7. AfterFirstPage' /\ LiveOffsets' /\ BeforeFirstPage'
  BY <1>4 DEF IInv, AfterFirstPage, LiveOffsets, BeforeFirstPage
<1>8. ListHasOne'
  BY <1>1, <1>2, <1>3 DEF ListHasOne
<1>9. CounterBound'
  <2>1. current_page_free_bytes <= RoomAtBlock
    BY <1>4 DEF IInv, CounterBound, Carved, Crashes
  <2>2. CASE block = CurrentBlock
    <3>1. Header(CurrentBlock)'.type = "FREE"
      BY <1>1, <1>2, <2>2 DEF Header, CurrentBlock, At
    <3> QED
      BY <2>1, <3>1 DEF CounterBound, Carved, RoomAtBlock, RoomLeft, NextBlock
  <2>3. CASE block # CurrentBlock
    <3>1. Header(CurrentBlock)' = Header(CurrentBlock)
      BY <1>2, <2>3 DEF Header, CurrentBlock, At
    <3> QED
      BY <1>4, <2>1, <3>1
      DEF IInv, CounterBound, Carved, RoomAtBlock, RoomLeft, NextBlock, Crashes
  <2> QED
    BY <2>2, <2>3
<1>10. CounterInCall' /\ CallOK'
  BY <1>3 DEF IInv, CounterInCall, CallOK, OpeningPage, SmallCall
<1>11. AllInPage'
  BY <1>1, <1>2, <1>3 DEF IInv, AllInPage, InPage
<1> QED
  BY <1>5, <1>6, <1>7, <1>8, <1>9, <1>10, <1>11 DEF IInv

LEMMA InsertFragmentInv ==
  ASSUME IInv, InsertFragment
  PROVE  IInv'
<1> USE DEF memory, arena, frags, call, client
<1>1. CASE \E how \in Crashes : Crash(how)
  BY <1>1, CrashInv
<1>2. CASE Inserted /\ UNCHANGED <<memory, arena, frags, call, client>>
  <2>1. /\ pc = "insert_fragment"
        /\ pc' = IF next_page_ptr # nullptr THEN "link_page" ELSE "drop_usage"
    BY <1>2 DEF InsertFragment, Inserted, CalledByMalloc
  <2>2. TypeOK'
    BY <1>2, <2>1 DEF IInv, TypeOK, Steps
  <2>3. BeforeFirstPage' /\ CounterInCall' /\ CallOK'
    BY <1>2, <2>1
    DEF IInv, BeforeFirstPage, CounterInCall, CallOK, OpeningPage, SmallCall
  <2> QED
    BY <1>2, <2>1, <2>2, <2>3, QuietStep DEF IInv, Crashes
<1>3. ASSUME NEW p \in Page, Header(block).size # 0,
             mapped' = MapAs(p, 1, "frag"), first_fragment_list_header' = p,
             free_spaces' = FirstSpaces, nodes_taken' = 1,
             fragments' = <<block>>,
             blocks' = WithHeader(block, [Header(block) EXCEPT !.type = "FREE"]),
             Inserted, UNCHANGED <<page_hdr, arena, call, client>>
      PROVE  IInv'
  <2>1. mapped' \in [Page -> {"none", "norm", "frag", "huge"}]
    BY <1>3 DEF MapAs, IInv, TypeOK
  <2> QED
    BY <1>3, <2>1, InsertedStep, Sizes DEF InsertFragment, FirstSpaces
<1>4. ASSUME first_fragment_list_header = nullptr,
             first_fragment_list_header' = ErrPtr,
             IF CalledByMalloc
               THEN pc' = "undo_open_page" /\ UNCHANGED <<call, ret>>
               ELSE Return("error"),
             UNCHANGED <<memory, arena, free_spaces, nodes_taken, fragments, live>>
      PROVE  IInv'
  <2> USE <1>4
  <2>1. /\ pc = "insert_fragment" /\ pc' \in {"undo_open_page", "idle"}
        /\ fragments = <<>>
    BY Sizes DEF InsertFragment, Return, IInv, ListHasOne, TypeOK
  <2>2. TypeOK'
    BY DEF Return, IInv, TypeOK, Address0, Nothing, At, Steps
  <2>3. HeadersPositive' /\ AfterFirstPage' /\ LiveOffsets'
    BY DEF IInv, HeadersPositive, AfterFirstPage, LiveOffsets
  <2>4. BeforeFirstPage'
    BY <2>1 DEF Return, CalledByMalloc, IInv, BeforeFirstPage, SmallCall
  <2>5. ListHasOne'
    BY <2>1, Sizes DEF ListHasOne
  <2>6. CounterBound'
    BY <2>1
    DEF IInv, CounterBound, Carved, RoomAtBlock, RoomLeft, NextBlock,
        CurrentBlock, Header, At, Crashes
  <2>7. CounterInCall' /\ CallOK'
    BY <2>1
    DEF Return, CalledByMalloc, IInv, CounterInCall, CallOK, OpeningPage, SmallCall
  <2>8. AllInPage'
    BY <2>1 DEF IInv, AllInPage, InPage
  <2> QED
    BY <2>2, <2>3, <2>4, <2>5, <2>6, <2>7, <2>8 DEF IInv
<1>5. ASSUME Header(block).size # 0, Is(first_fragment_list_header, "frag"),
             \A i \in ComparedWith : Readable(fragments[i]),
             free_spaces' = free_spaces - 1, nodes_taken' = nodes_taken + 1,
             fragments' = Ordered(Header(block).size),
             blocks' = WithHeader(block, [Header(block) EXCEPT !.type = "FREE"]),
             Inserted,
             UNCHANGED <<mapped, page_hdr, arena, first_fragment_list_header,
                         call, client>>
      PROVE  IInv'
  <2>1. /\ first_fragment_list_header \in Page /\ Len(fragments) = 1
        /\ free_spaces \in Int /\ nodes_taken \in Int
        /\ free_spaces + nodes_taken = MaxListNodes + 1 /\ nodes_taken >= 1
    BY <1>5 DEF IInv, ListHasOne, TypeOK, Is
  <2>2. Header(fragments[1]).size # 0
    <3>1. fragments[1] \in DOMAIN blocks
      BY <1>5, <2>1 DEF ComparedWith, IInv, ListHasOne
    <3> QED
      BY <3>1 DEF IInv, HeadersPositive, Header
  <2>3. fragments' = <<block>>
    BY <1>5, <2>1, <2>2 DEF Ordered
  <2>4. mapped' \in [Page -> {"none", "norm", "frag", "huge"}]
    BY <1>5 DEF IInv, TypeOK
  <2> QED
    BY <1>5, <2>1, <2>3, <2>4, InsertedStep, Sizes DEF InsertFragment
<1>6. /\ Fault(first_fragment_list_header) \in Crashes
      /\ "wild" \in Crashes
      /\ \A i : Fault(fragments[i].page) \in Crashes
  BY DEF Fault, Crashes
<1> QED
  BY <1>1, <1>2, <1>3, <1>4, <1>5, <1>6 DEF InsertFragment

(***************************************************************************)
(* The theorems.                                                           *)
(***************************************************************************)

LEMMA IUnchanged ==
  ASSUME IInv, UNCHANGED vars
  PROVE  IInv'
<1> USE DEF vars, memory, arena, frags, call, client
<1>1. TypeOK' /\ HeadersPositive' /\ AfterFirstPage' /\ LiveOffsets'
  BY DEF IInv, TypeOK, HeadersPositive, AfterFirstPage, LiveOffsets
<1>2. BeforeFirstPage' /\ CounterInCall' /\ CallOK'
  BY DEF IInv, BeforeFirstPage, CounterInCall, CallOK, OpeningPage
<1>3. ListHasOne'
  BY DEF IInv, ListHasOne, Readable, Is
<1>4. CounterBound' /\ AllInPage'
  BY DEF IInv, CounterBound, AllInPage, InPage, Carved, RoomAtBlock,
         RoomLeft, NextBlock, CurrentBlock, Header, At, BlockEnd
<1> QED
  BY <1>1, <1>2, <1>3, <1>4 DEF IInv

LEMMA ClientWritesInv ==
  ASSUME IInv, ClientWrites
  PROVE  IInv'
BY CrashInv DEF ClientWrites, Crashes

(* Every step keeps the invariant. *)
LEMMA InvStep ==
  ASSUME IInv, [Next]_vars
  PROVE  IInv'
<1>1. ASSUME NEW h \in Handles, NEW n \in Requests, MallocCall(h, n)
      PROVE  IInv'
  BY <1>1, MallocCallInv, ClientAssumption
<1>2. ASSUME NEW h \in Handles, FreeCall(h)
      PROVE  IInv'
  BY <1>2, FreeCallInv
<1>3. CASE Step
  BY <1>3, FirstSetupInv, FindAvailableFragmentInv, NoGoodFragmentsInv,
     OpenPageInv, UndoOpenPageInv, LinkPageInv, FixBlockHeaderInv,
     LargeBroInv, LargeFreeBroInv, DropUsageInv, InsertFragmentInv,
     ClientWritesInv
  DEF Step
<1>4. CASE UNCHANGED vars
  BY <1>4, IUnchanged
<1> QED
  BY <1>1, <1>2, <1>3, <1>4 DEF Next

(* The invariant of the steps of a call.  A run that overwrites what the   *)
(* allocator reads ends in "clobbered", so this is about a client only as  *)
(* far as FaultsAreExplained excludes that; the theorems below rest on it. *)
THEOREM Invariant == Spec => []IInv
<1>1. Init => IInv
  BY InitInv
<1>2. IInv /\ [Next]_vars => IInv'
  BY InvStep
<1> QED
  BY <1>1, <1>2, PTL DEF Spec

(* Every variable keeps its type. *)
THEOREM TypeCorrect == Spec => []TypeOK
<1>1. IInv => TypeOK
  BY DEF IInv
<1> QED
  BY <1>1, Invariant, PTL

(***************************************************************************)
(* For a client that keeps the rules.                                      *)
(***************************************************************************)

(* Pages lie one behind the other. *)
LEMMA Pages ==
  ASSUME NEW p \in Nat, NEW q \in Nat, p < q
  PROVE  /\ p * MALLOC_PAGE_SIZE \in Nat /\ q * MALLOC_PAGE_SIZE \in Nat
         /\ p * MALLOC_PAGE_SIZE + MALLOC_PAGE_SIZE <= q * MALLOC_PAGE_SIZE
<1> DEFINE d == q - p - 1
<1>1. d \in Nat /\ q = p + 1 + d
  OBVIOUS
<1>2. q * MALLOC_PAGE_SIZE = p * MALLOC_PAGE_SIZE + MALLOC_PAGE_SIZE + d * MALLOC_PAGE_SIZE
  BY <1>1, Sizes
<1>3. d * MALLOC_PAGE_SIZE \in Nat /\ p * MALLOC_PAGE_SIZE \in Nat /\ q * MALLOC_PAGE_SIZE \in Nat
  BY <1>1, Sizes
<1> QED
  BY <1>2, <1>3, Sizes

(* The pages mapped for n bytes hold n bytes. *)
LEMMA PagesHold ==
  ASSUME NEW n \in Nat
  PROVE  PagesFor(n) \in Nat /\ n <= PagesFor(n) * MALLOC_PAGE_SIZE
<1> DEFINE P == MALLOC_PAGE_SIZE
           v == n + P - 1
<1>1. P \in Nat /\ P > 0 /\ v \in Nat
  BY Sizes
<1>2. v \div P \in Nat /\ v % P \in 0..(P - 1) /\ v = P * (v \div P) + (v % P)
  BY <1>1
<1> QED
  BY <1>1, <1>2 DEF PagesFor


LEMMA RInit == Init => RInv
<1> SUFFICES ASSUME Init PROVE RInv
  OBVIOUS
<1>1. Live = {} /\ Taken = {}
  BY DEF Init, Live, Small, Taken
<1>2. PagesThere /\ HeadersThere /\ Tiled /\ CurrentIsLast
  BY <1>1, Sizes DEF Init, PagesThere, HeadersThere, Tiled, CurrentIsLast
<1>3. LiveHeaders /\ ListFree /\ HugeApart
  BY <1>1 DEF Init, LiveHeaders, ListFree, HugeApart, Small
<1>4. MallocCalled /\ NextPageFresh /\ FreeCalled
  BY DEF Init, MallocCalled, NextPageFresh, FreeCalled, InMalloc, SmallCall,
         OpeningPage, FreeingSmall
<1> QED
  BY <1>2, <1>3, <1>4 DEF RInv

(* What stays true of the blocks when no header is written or lost and no  *)
(* page that may have one is unmapped.                                     *)
BlocksKept ==
  /\ DOMAIN blocks' = DOMAIN blocks
  /\ \A a \in DOMAIN blocks : blocks'[a] = blocks[a]
  /\ \A q \in Page : mapped[q] \in {"norm", "huge"} => mapped'[q] = mapped[q]

LEMMA KeptHeaders ==
  ASSUME RInv, BlocksKept
  PROVE  HeadersThere'
BY DEF RInv, HeadersThere, Readable, Is, End, BlocksKept

(* What is somebody's has a header, and which blocks are. *)
LEMMA TakenThere ==
  ASSUME RInv, NEW a \in Taken
  PROVE  a \in DOMAIN blocks
BY DEF RInv, Taken, LiveHeaders, ListFree, MallocCalled, Small

LEMMA TakenSmall ==
  ASSUME IInv, RInv, NEW a \in Taken
  PROVE  a.off # 0
BY DEF IInv, CallOK, RInv, Taken, ListFree, Small, Address, At

LEMMA IsTaken ==
  /\ \A h \in Small : Address(h) \in Taken
  /\ \A i \in 1..Len(fragments) : fragments[i] \in Taken
  /\ pc = "fix_block_header" /\ block # CurrentBlock => block \in Taken
BY DEF Taken

LEMMA FewerTaken ==
  ASSUME fragments' = fragments, Small' \subseteq Small,
         \A h \in Small' : Address(h)' = Address(h),
         pc' # "fix_block_header" \/ block' = CurrentBlock'
  PROVE  Taken' \subseteq Taken
<1>1. ASSUME NEW a \in Taken' PROVE a \in Taken
  <2>1. \/ \E h \in Small' : a = Address(h)'
        \/ \E i \in 1..Len(fragments) : a = fragments[i]
    BY <1>1 DEF Taken
  <2> QED
    BY <2>1, IsTaken
<1> QED
  BY <1>1

LEMMA SameTaken ==
  ASSUME UNCHANGED <<fragments, live>>,
         pc' # "fix_block_header" \/ block' = CurrentBlock'
  PROVE  Taken' \subseteq Taken
<1>1. Small' = Small /\ \A h \in Handles : Address(h)' = Address(h)
  BY DEF Small, Live, Address
<1> QED
  BY <1>1, FewerTaken DEF Small, Live

(* No block is taken, and none grows. *)
LEMMA KeptTiled ==
  ASSUME RInv, Taken' \subseteq Taken,
         \A a \in Taken : blocks'[a].size = blocks[a].size
  PROVE  Tiled'
BY DEF RInv, Tiled, End

LEMMA KeptCurrent ==
  ASSUME RInv, Taken' \subseteq Taken,
         \A a \in Taken : blocks'[a].size = blocks[a].size,
         UNCHANGED <<current_page, current_block>>
  PROVE  CurrentIsLast'
<1>1. CurrentBlock' = CurrentBlock
  BY DEF CurrentBlock
<1> QED
  BY <1>1 DEF RInv, CurrentIsLast, End

LEMMA KeptSizes ==
  ASSUME RInv, BlocksKept
  PROVE  \A a \in Taken : blocks'[a].size = blocks[a].size
BY TakenThere DEF BlocksKept

LEMMA KeptLive ==
  ASSUME RInv, BlocksKept, live' = live, \A h \in Live : Dropping(h)' = Dropping(h)
  PROVE  LiveHeaders' /\ HugeApart'
<1>1. Live' = Live /\ Small' = Small
  BY DEF Live, Small
<1>2. ASSUME NEW h \in Handles PROVE Address(h)' = Address(h)
  BY DEF Address
<1>3. LiveHeaders'
  <2>1. ASSUME NEW h \in Live
        PROVE  LET a == Address(h) IN
               /\ a \in DOMAIN blocks' /\ blocks'[a].size = live[h].size
               /\ a.off # 0 =>
                    /\ blocks'[a].type = IF Dropping(h) THEN "FREE" ELSE "USED"
                    /\ blocks'[a].page \in Page /\ mapped'[blocks'[a].page] = "norm"
    BY DEF RInv, LiveHeaders, BlocksKept, Is
  <2>2. \A g, h \in Live : Address(g) = Address(h) => g = h
    BY DEF RInv, LiveHeaders
  <2>3. \A h \in Live : Address(h)' = Address(h) /\ live'[h] = live[h]
    BY <1>2 DEF Live
  <2> QED
    BY <1>1, <2>1, <2>2, <2>3 DEF LiveHeaders, Is
<1>4. HugeApart'
  BY <1>1 DEF RInv, HugeApart, Is, PagesOf, BlocksKept
<1> QED
  BY <1>3, <1>4

LEMMA KeptList ==
  ASSUME RInv, BlocksKept, UNCHANGED <<arena, fragments, live>>,
         pc # "link_page", \A h \in Live : Dropping(h)' = Dropping(h)
  PROVE  ListFree'
<1>1. Live' = Live /\ CurrentBlock' = CurrentBlock
  BY DEF Live, CurrentBlock, arena
<1>2. ASSUME NEW h \in Handles PROVE Address(h)' = Address(h)
  BY DEF Address
<1> QED
  BY <1>1, <1>2 DEF RInv, ListFree, BlocksKept, Live

(* A step that leaves memory, the allocator's variables and the client's   *)
(* blocks alone.                                                           *)
LEMMA RQuiet ==
  ASSUME RInv, UNCHANGED <<memory, arena, frags, live>>,
         pc \notin {"drop_usage", "link_page"},
         pc' \notin {"drop_usage", "fix_block_header"}
  PROVE  PagesThere' /\ HeadersThere' /\ Tiled' /\ CurrentIsLast'
           /\ LiveHeaders' /\ ListFree' /\ HugeApart'
<1>1. BlocksKept
  BY DEF BlocksKept, memory
<1>2. \A h \in Live : Dropping(h)' = Dropping(h)
  BY DEF Dropping
<1>3. PagesThere'
  BY DEF RInv, PagesThere, Is, memory, arena, frags
<1>4. Taken' \subseteq Taken
  BY SameTaken DEF frags
<1>5. Tiled' /\ CurrentIsLast'
  BY <1>1, <1>4, KeptSizes, KeptTiled, KeptCurrent DEF arena
<1> QED
  BY <1>1, <1>2, <1>3, <1>5, KeptHeaders, KeptLive, KeptList DEF frags

LEMMA RCrash ==
  ASSUME RInv, NEW how \in Crashes, Crash(how),
         pc \notin {"drop_usage", "link_page"}
  PROVE  RInv'
<1>1. UNCHANGED <<memory, arena, frags, live>> /\ pc' = how
  BY DEF Crash, client
<1>2. pc' \notin Steps /\ pc' # "idle"
  BY <1>1 DEF Crashes, Steps
<1>3. PagesThere' /\ HeadersThere' /\ Tiled' /\ CurrentIsLast'
        /\ LiveHeaders' /\ ListFree' /\ HugeApart'
  BY <1>1, <1>2, RQuiet DEF Steps
<1>4. MallocCalled' /\ NextPageFresh' /\ FreeCalled'
  BY <1>2 DEF MallocCalled, NextPageFresh, FreeCalled, InMalloc, SmallCall,
              OpeningPage, FreeingSmall, Steps
<1> QED
  BY <1>3, <1>4 DEF RInv

(***************************************************************************)
(* malloc                                                                  *)
(***************************************************************************)

LEMMA RMallocCall ==
  ASSUME IInv, RInv, RulesKept, NEW h \in Handles, NEW n \in Requests,
         MallocCall(h, n)
  PROVE  RInv'
<1>1. UNCHANGED <<memory, arena, frags, live>> /\ pc = "idle"
      /\ pc' \in {"idle", "large_bro", "first_setup"}
  BY DEF MallocCall, Return, client
<1>2. PagesThere' /\ HeadersThere' /\ Tiled' /\ CurrentIsLast'
        /\ LiveHeaders' /\ ListFree' /\ HugeApart'
  BY <1>1, RQuiet
<1>3. n \in Nat /\ (n <= FreshBytes => align(n) <= FreshBytes)
  <2>1. n \in Nat /\ align(n) < n + 8 /\ align(n) % 8 = 0 /\ align(n) \in Nat
    BY AlignUp, ClientAssumption
  <2>2. MALLOC_PAGE_SIZE % 8 = 0
    BY PageAssumption
  <2> QED
    BY <2>1, <2>2, Sizes
<1>4. NextPageFresh' /\ FreeCalled'
  BY <1>1 DEF NextPageFresh, FreeCalled, OpeningPage, FreeingSmall
<1>5. MallocCalled'
  <2>1. CASE n < 1
    BY <1>1, <2>1 DEF MallocCall, Return, MallocCalled, InMalloc, SmallCall, OpeningPage
  <2>2. CASE ~(n < 1) /\ n > FreshBytes
    BY <1>1, <2>2 DEF MallocCall, MallocCalled, InMalloc, SmallCall, OpeningPage,
                      RulesKept, client
  <2>3. CASE ~(n < 1) /\ ~(n > FreshBytes)
    <3>1. first_page_ptr # nullptr => current_page_free_bytes >= BHEADERSIZE
      BY DEF MallocCall, RulesKept, RuleNames
    <3>2. pc' = "first_setup" /\ req' = align(n) /\ handle' = h /\ live[h] = NoBlock
      BY <2>3 DEF MallocCall
    <3> QED
      BY <1>1, <1>3, <2>3, <3>1, <3>2, Sizes
      DEF MallocCalled, InMalloc, SmallCall, OpeningPage, arena
  <2> QED
    BY <2>1, <2>2, <2>3
<1> QED
  BY <1>2, <1>4, <1>5 DEF RInv

(* A fresh page of small blocks. *)
LEMMA FreshPage ==
  ASSUME TypeOK, NEW p \in Page, CanMap(p, 1), mapped' = MapAs(p, 1, "norm")
  PROVE  /\ mapped[p] = "none" /\ mapped'[p] = "norm"
         /\ \A q \in Page : q # p => mapped'[q] = mapped[q]
<1>1. \A q \in Page : q \in p..(p + 1 - 1) <=> q = p
  BY Sizes
<1> QED
  BY <1>1, Sizes DEF CanMap, MapAs

LEMMA RFirstSetup ==
  ASSUME IInv, RInv, FirstSetup
  PROVE  RInv'
<1>1. pc = "first_setup"
  BY DEF FirstSetup
<1>2. ASSUME first_page_ptr # nullptr, pc' = "find_available_fragment",
             UNCHANGED <<memory, arena, frags, call, client>>
      PROVE  RInv'
  <2>1. PagesThere' /\ HeadersThere' /\ Tiled' /\ CurrentIsLast'
        /\ LiveHeaders' /\ ListFree' /\ HugeApart'
    BY <1>1, <1>2, RQuiet DEF client
  <2>2. MallocCalled' /\ NextPageFresh' /\ FreeCalled'
    BY <1>1, <1>2
    DEF RInv, MallocCalled, NextPageFresh, FreeCalled, InMalloc, SmallCall,
        OpeningPage, FreeingSmall, arena, call, client
  <2> QED
    BY <2>1, <2>2 DEF RInv
<1>3. ASSUME first_page_ptr = nullptr, NEW p \in Page, CanMap(p, 1),
             mapped' = MapAs(p, 1, "norm"), first_page_ptr' = p,
             current_page' = p, current_block' = PHEADERSIZE,
             current_page_free_bytes' = FreshBytes, touched' = PHEADERSIZE,
             pc' = "find_available_fragment",
             UNCHANGED <<blocks, frags, call, client>>
      PROVE  RInv'
  <2>1. /\ mapped[p] = "none" /\ mapped'[p] = "norm"
        /\ \A q \in Page : q # p => mapped'[q] = mapped[q]
    BY <1>3, FreshPage DEF IInv
  <2>2. BlocksKept /\ live' = live /\ \A h \in Live : Dropping(h)' = Dropping(h)
    BY <1>1, <1>3, <2>1 DEF BlocksKept, client, Dropping
  <2>3. HeadersThere' /\ LiveHeaders' /\ HugeApart'
    BY <2>2, KeptHeaders, KeptLive
  <2>4. PagesThere'
    BY <1>3, <2>1 DEF RInv, PagesThere, Is, frags
  <2>5. Tiled' /\ CurrentIsLast'
    <3>1. \A a \in DOMAIN blocks : a.page # p
      BY <2>1 DEF RInv, HeadersThere, Readable, Is
    <3>2. Taken' \subseteq Taken
      BY <1>3, SameTaken DEF frags, client
    <3>3. Tiled'
      BY <2>2, <3>2, KeptSizes, KeptTiled
    <3>4. CurrentIsLast'
      BY <1>3, <3>1, <3>2, TakenThere DEF CurrentIsLast
    <3> QED
      BY <3>3, <3>4
  <2>6. ListFree'
    BY <1>3 DEF IInv, BeforeFirstPage, ListFree, frags
  <2>7. MallocCalled' /\ NextPageFresh' /\ FreeCalled'
    BY <1>1, <1>3, Sizes
    DEF RInv, MallocCalled, NextPageFresh, FreeCalled, InMalloc, SmallCall,
        OpeningPage, FreeingSmall, call, client
  <2> QED
    BY <2>3, <2>4, <2>5, <2>6, <2>7 DEF RInv
<1>4. ASSUME Return("error"), UNCHANGED <<memory, arena, frags, live>>
      PROVE  RInv'
  <2>1. PagesThere' /\ HeadersThere' /\ Tiled' /\ CurrentIsLast'
        /\ LiveHeaders' /\ ListFree' /\ HugeApart'
    BY <1>1, <1>4, RQuiet DEF Return
  <2>2. MallocCalled' /\ NextPageFresh' /\ FreeCalled'
    BY <1>4
    DEF Return, MallocCalled, NextPageFresh, FreeCalled, InMalloc, SmallCall,
        OpeningPage, FreeingSmall
  <2> QED
    BY <2>1, <2>2 DEF RInv
<1> QED
  BY <1>2, <1>3, <1>4 DEF FirstSetup

(* remove_fragment: the fragment page goes, and no header was on it. *)
LEMMA FragmentPageGone ==
  ASSUME IInv, RInv, first_fragment_list_header \in Page,
         Unmap(first_fragment_list_header)
  PROVE  /\ BlocksKept
         /\ \A q \in Page : mapped[q] = "norm" => mapped'[q] = "norm"
<1>1. mapped[first_fragment_list_header] = "frag"
  BY DEF RInv, PagesThere, Is
<1>2. \A q \in Page : mapped[q] \in {"norm", "huge"} => mapped'[q] = mapped[q]
  BY <1>1 DEF Unmap, IInv, TypeOK
<1>3. \A a \in DOMAIN blocks : a.page # first_fragment_list_header
  BY <1>1 DEF RInv, HeadersThere, Readable, Is
<1>4. DOMAIN blocks' = DOMAIN blocks /\ \A a \in DOMAIN blocks : blocks'[a] = blocks[a]
  BY <1>3 DEF Unmap, WithoutPage
<1> QED
  BY <1>2, <1>4 DEF BlocksKept

LEMMA RFindAvailableFragment ==
  ASSUME IInv, RInv, FindAvailableFragment
  PROVE  RInv'
<1>1. pc = "find_available_fragment"
  BY DEF FindAvailableFragment
<1>2. CASE \E i \in 1..Len(fragments) : Crash(Fault(fragments[i].page))
  <2>1. PICK i \in 1..Len(fragments) : Crash(Fault(fragments[i].page))
    BY <1>2
  <2>2. Fault(fragments[i].page) \in Crashes
    BY DEF Fault, Crashes
  <2> QED
    BY <1>1, <2>1, <2>2, RCrash
<1>3. ASSUME pc' = "no_good_fragments",
             UNCHANGED <<memory, arena, frags, call, client>>
      PROVE  RInv'
  <2>1. PagesThere' /\ HeadersThere' /\ Tiled' /\ CurrentIsLast'
        /\ LiveHeaders' /\ ListFree' /\ HugeApart'
    BY <1>1, <1>3, RQuiet DEF client
  <2>2. MallocCalled' /\ NextPageFresh' /\ FreeCalled'
    BY <1>1, <1>3
    DEF RInv, MallocCalled, NextPageFresh, FreeCalled, InMalloc, SmallCall,
        OpeningPage, FreeingSmall, arena, call, client
  <2> QED
    BY <2>1, <2>2 DEF RInv
<1>4. ASSUME NEW i \in 1..Len(fragments), BigEnough(i), block' = fragments[i],
             RemoveFragment(i), pc' = "fix_block_header",
             UNCHANGED <<arena, handle, req, next_page_ptr, client>>
      PROVE  RInv'
  <2>1. /\ i = 1 /\ Len(fragments) = 1 /\ first_fragment_list_header \in Page
        /\ fragments[1] \in DOMAIN blocks /\ fragments[1].off >= PHEADERSIZE
        /\ fragments[1] \in [page : Page, off : Nat]
        /\ blocks[fragments[1]].type = "FREE" /\ fragments[1] # CurrentBlock
        /\ \A h \in Live : Address(h) # fragments[1]
    <3>1. i = 1 /\ Len(fragments) = 1 /\ first_fragment_list_header \in Page
      BY DEF IInv, ListHasOne
    <3> QED
      BY <1>1, <3>1 DEF IInv, TypeOK, ListHasOne, RInv, ListFree, Dropping
  <2>2. /\ fragments' = <<>> /\ first_fragment_list_header' = nullptr
        /\ Unmap(first_fragment_list_header)
    BY <1>4, <2>1 DEF RemoveFragment, RemoveNode, IInv, TypeOK
  <2>3. /\ BlocksKept
        /\ \A q \in Page : mapped[q] = "norm" => mapped'[q] = "norm"
    BY <2>1, <2>2, FragmentPageGone
  <2>4. live' = live /\ \A h \in Live : Dropping(h)' = Dropping(h)
    BY <1>1, <1>4 DEF client, Dropping
  <2>5. HeadersThere' /\ Tiled' /\ LiveHeaders' /\ HugeApart' /\ CurrentIsLast'
    <3>1. Small' = Small /\ \A h \in Handles : Address(h)' = Address(h)
      BY <2>4 DEF Small, Live, Address
    <3>2. ASSUME NEW a \in Taken' PROVE a \in Taken
      <4>1. a = fragments[1] \/ \E h \in Small' : a = Address(h)'
        BY <1>4, <2>1, <2>2, <3>2 DEF Taken
      <4> QED
        BY <2>1, <3>1, <4>1, IsTaken DEF Small, Live
    <3>3. Tiled' /\ CurrentIsLast'
      BY <1>4, <2>3, <3>2, KeptSizes, KeptTiled, KeptCurrent DEF arena
    <3> QED
      BY <2>3, <2>4, <3>3, KeptHeaders, KeptLive
  <2>6. PagesThere' /\ ListFree'
    <3>1. PagesThere'
      BY <1>4, <2>2, <2>3, Sizes DEF RInv, PagesThere, Is, arena
    <3>2. ListFree'
      BY <2>2 DEF ListFree
    <3> QED
      BY <3>1, <3>2
  <2>7. NextPageFresh' /\ FreeCalled'
    BY <1>4 DEF NextPageFresh, FreeCalled, OpeningPage, FreeingSmall
  <2>8. MallocCalled'
    <3> DEFINE b == fragments[1]
    <3>1. Is(b.page, "norm") /\ End(b) <= MALLOC_PAGE_SIZE
      BY <2>1 DEF RInv, HeadersThere, Readable
    <3>2. req <= blocks[b].size /\ req \in Nat /\ blocks[b].size \in Nat
      BY <2>1, <1>4 DEF BigEnough, Header, IInv, TypeOK, BlockHeader
    <3>3. BlockEnd' <= MALLOC_PAGE_SIZE
      BY <1>4, <2>1, <3>1, <3>2, Sizes DEF BlockEnd, End
    <3>4. Is(block.page, "norm")'
      BY <1>4, <2>1, <2>3, <3>1 DEF Is
    <3>5. block' = b /\ CurrentBlock' = CurrentBlock /\ b \in DOMAIN blocks'
          /\ blocks'[b].size = blocks[b].size
      BY <1>4, <2>1, <2>3 DEF CurrentBlock, arena, BlocksKept
    <3>6. \A h \in Live' : Address(h)' # b
      BY <2>1, <2>4 DEF Live, Address
    <3>7. handle' = handle /\ req' = req /\ handle \in Handles
          /\ live[handle] = NoBlock /\ req <= FreshBytes
      BY <1>1, <1>4 DEF RInv, MallocCalled, InMalloc, SmallCall
    <3> QED
      BY <1>4, <2>1, <2>2, <2>4, <3>2, <3>3, <3>4, <3>5, <3>6, <3>7
      DEF MallocCalled, InMalloc, SmallCall, OpeningPage
  <2> QED
    BY <2>5, <2>6, <2>7, <2>8 DEF RInv
<1> QED
  BY <1>2, <1>3, <1>4 DEF FindAvailableFragment

(* Where MOVE_TO_NEXT_BLOCK_PTR goes, no block in use and none on the list *)
(* begins, and the other blocks of the page end before.                    *)
NextAddress == At(current_page, NextBlock)

LEMMA NextFree ==
  ASSUME IInv, RInv, first_page_ptr # nullptr,
         pc \notin {"link_page", "drop_usage"}
  PROVE  /\ NextBlock \in Nat /\ NextBlock >= current_block
         /\ current_block >= PHEADERSIZE /\ current_block \in Nat
         /\ Is(current_page, "norm") /\ current_page \in Page
         /\ NextAddress.page = current_page /\ NextAddress.off = NextBlock
         /\ \A a \in Taken :
              a.page = current_page => a # NextAddress /\ End(a) <= NextBlock
         /\ \A h \in Live : Address(h) # NextAddress
         /\ \A i \in 1..Len(fragments) : fragments[i] # NextAddress
<1>1. /\ NextBlock \in Nat /\ NextBlock >= current_block /\ current_block \in Nat
      /\ CurrentBlock.page = current_page /\ CurrentBlock.off = current_block
      /\ current_block >= PHEADERSIZE
  BY NextBlockBounds DEF IInv, TypeOK, AfterFirstPage
<1>2. Is(current_page, "norm") /\ current_page \in Page
  BY DEF RInv, PagesThere, Is
<1>3. NextAddress.page = current_page /\ NextAddress.off = NextBlock
  BY DEF NextAddress, At
<1>4. ASSUME NEW a \in Taken
      PROVE  a \in DOMAIN blocks /\ End(a) > a.off /\ End(a) \in Nat
  BY TakenThere DEF End, IInv, TypeOK, BlockHeader
<1>5. ASSUME NEW a \in Taken, a.page = current_page
      PROVE  End(a) <= NextBlock
  <2>1. CASE a # CurrentBlock
    BY <1>1, <1>4, <1>5, <2>1 DEF RInv, CurrentIsLast
  <2>2. CASE a = CurrentBlock
    <3>1. a \in DOMAIN blocks
      BY <1>4
    <3>2. \/ \E h \in Small : a = Address(h)
          \/ \E i \in 1..Len(fragments) : a = fragments[i]
      BY <2>2 DEF Taken
    <3>3. \E h \in Small : a = Address(h)
      BY <2>2, <3>2 DEF RInv, ListFree
    <3>4. Header(CurrentBlock) = blocks[a] /\ blocks[a].type = "USED"
      BY <2>2, <3>1, <3>3 DEF RInv, LiveHeaders, Dropping, Header, Small, Address, At
    <3>5. NextBlock = End(a)
      BY <1>1, <2>2, <3>4, <1>4 DEF NextBlock, End, IInv, TypeOK, BlockHeader
    <3> QED
      BY <1>1, <3>5
  <2> QED
    BY <2>1, <2>2
<1>6. NextAddress \notin Taken
  BY <1>1, <1>3, <1>4, <1>5
<1>7. \A h \in Live : Address(h) # NextAddress
  <2>1. \A h \in Live \ Small : Address(h).off = 0
    BY DEF Small, Address, At
  <2> QED
    BY <1>1, <1>3, <1>6, <2>1, IsTaken
<1> QED
  BY <1>1, <1>2, <1>3, <1>5, <1>6, <1>7, IsTaken

(* The current block moves to where the next one begins. *)
LEMMA MovedCurrent ==
  ASSUME IInv, RInv, first_page_ptr # nullptr,
         pc \notin {"link_page", "drop_usage"},
         current_page' = current_page, current_block' = NextBlock,
         Taken' \subseteq Taken,
         \A a \in Taken : blocks'[a].size = blocks[a].size
  PROVE  CurrentBlock' = NextAddress /\ CurrentIsLast'
<1>1. CurrentBlock' = NextAddress
  BY DEF CurrentBlock, NextAddress
<1>2. \A a \in Taken : a.page = current_page => End(a) <= NextBlock
  BY NextFree
<1> QED
  BY <1>1, <1>2 DEF CurrentIsLast, End

LEMMA RNoGoodFragments ==
  ASSUME IInv, RInv, NoGoodFragments
  PROVE  RInv'
<1>1. /\ pc = "no_good_fragments" /\ first_page_ptr # nullptr
      /\ current_page_free_bytes >= BHEADERSIZE /\ current_page_free_bytes \in Int
      /\ req \in Nat /\ req <= FreshBytes
      /\ handle \in Handles /\ live[handle] = NoBlock
  BY DEF NoGoodFragments, RInv, MallocCalled, InMalloc, SmallCall, IInv, TypeOK,
         BeforeFirstPage
<1>2. ASSUME BlockAvailable, current_block' = NextBlock, block' = NextAddress,
             pc' = "fix_block_header",
             UNCHANGED <<memory, first_page_ptr, current_page,
                         current_page_free_bytes, touched, frags, handle, req,
                         next_page_ptr, client>>
      PROVE  RInv'
  <2> USE <1>2 DEF memory, frags, client
  <2>1. BlocksKept /\ live' = live /\ \A h \in Live : Dropping(h)' = Dropping(h)
    BY <1>1 DEF BlocksKept, Dropping
  <2>2. HeadersThere' /\ LiveHeaders' /\ HugeApart'
    BY <2>1, KeptHeaders, KeptLive
  <2>3. CurrentBlock' = NextAddress /\ CurrentIsLast' /\ Tiled'
    <3>1. block' = CurrentBlock'
      BY DEF CurrentBlock, NextAddress
    <3>2. Taken' \subseteq Taken
      BY <3>1, SameTaken
    <3> QED
      BY <1>1, <2>1, <3>2, MovedCurrent, KeptSizes, KeptTiled
  <2>4. PagesThere'
    BY DEF RInv, PagesThere, Is
  <2>5. Live' = Live /\ \A h \in Handles : Address(h)' = Address(h)
    BY DEF Live, Address
  <2>6. ListFree'
    BY <1>1, <2>3, <2>5, NextFree DEF RInv, ListFree, Dropping, Live
  <2>7. NextPageFresh' /\ FreeCalled'
    BY DEF NextPageFresh, FreeCalled, OpeningPage, FreeingSmall
  <2>8. (BlockEnd <= MALLOC_PAGE_SIZE \/ block.off = MALLOC_PAGE_SIZE)'
    <3>1. \/ current_page_free_bytes <= MALLOC_PAGE_SIZE - NextBlock - BHEADERSIZE
          \/ /\ Header(CurrentBlock).type = "STALE"
             /\ Header(CurrentBlock).size = RoomAtBlock
      BY <1>1 DEF IInv, CounterBound, Crashes, Carved, RoomLeft
    <3>2. req <= current_page_free_bytes - BHEADERSIZE
      BY <1>1 DEF BlockAvailable, AsU64
    <3>3. CASE current_page_free_bytes <= MALLOC_PAGE_SIZE - NextBlock - BHEADERSIZE
      BY SMTT(30), <1>1, <3>2, <3>3, NextFree, Sizes DEF BlockEnd
    <3>4. CASE /\ Header(CurrentBlock).type = "STALE"
               /\ Header(CurrentBlock).size = RoomAtBlock
      <4>1. NextBlock = MALLOC_PAGE_SIZE
        BY <1>1, <3>4, NextFree, Sizes DEF NextBlock, RoomAtBlock
      <4> QED
        BY <1>1, <4>1, NextFree
    <3> QED
      BY <3>1, <3>3, <3>4
  <2>9. MallocCalled'
    <3>1. Is(block.page, "norm")'
      BY <1>1, NextFree DEF Is
    <3>2. block' = CurrentBlock'
      BY <2>3
    <3>3. /\ \A h \in Live' : Address(h)' # block'
          /\ \A i \in 1..Len(fragments') : fragments'[i] # block'
      BY <1>1, <2>5, NextFree DEF Live
    <3> QED
      BY <1>1, <2>8, <3>1, <3>2, <3>3
      DEF MallocCalled, InMalloc, SmallCall, OpeningPage
  <2> QED
    BY <2>2, <2>3, <2>4, <2>6, <2>7, <2>9 DEF RInv
<1>3. CASE Crash(Fault(current_page))
  <2>1. Fault(current_page) \in Crashes
    BY DEF Fault, Crashes
  <2> QED
    BY <1>1, <1>3, <2>1, RCrash
<1>4. ASSUME NEW p \in Page, CanMap(p, 1), mapped' = MapAs(p, 1, "norm"),
             next_page_ptr' = p, pc' = "open_page",
             UNCHANGED <<blocks, arena, frags, handle, req, block, client>>
      PROVE  RInv'
  <2> USE <1>4 DEF frags, client
  <2>1. /\ mapped[p] = "none" /\ mapped'[p] = "norm"
        /\ \A q \in Page : q # p => mapped'[q] = mapped[q]
    BY FreshPage DEF IInv
  <2>2. BlocksKept /\ live' = live /\ \A h \in Live : Dropping(h)' = Dropping(h)
    BY <1>1, <2>1 DEF BlocksKept, Dropping
  <2>3. HeadersThere' /\ Tiled' /\ LiveHeaders' /\ HugeApart' /\ CurrentIsLast'
        /\ ListFree'
    <3>1. Taken' \subseteq Taken
      BY SameTaken
    <3>2. Tiled' /\ CurrentIsLast'
      BY <2>2, <3>1, KeptSizes, KeptTiled, KeptCurrent DEF arena
    <3> QED
      BY <1>1, <2>2, <3>2, KeptHeaders, KeptLive, KeptList
  <2>4. PagesThere'
    BY <2>1 DEF RInv, PagesThere, Is, arena
  <2>5. NextPageFresh'
    <3>1. \A a \in DOMAIN blocks : a.page # p
      BY <2>1 DEF RInv, HeadersThere, Readable, Is
    <3>2. \A h \in Small' : blocks'[Address(h)'].page # p
      BY <2>1 DEF RInv, LiveHeaders, Small, Live, Is, Address, At
    <3>3. p # current_page
      BY <1>1, <2>1 DEF RInv, PagesThere, Is
    <3> QED
      BY <2>1, <3>1, <3>2, <3>3 DEF NextPageFresh, Is, arena
  <2>6. MallocCalled' /\ FreeCalled'
    BY <1>1
    DEF MallocCalled, FreeCalled, InMalloc, SmallCall, OpeningPage, FreeingSmall
  <2> QED
    BY <2>3, <2>4, <2>5, <2>6 DEF RInv
<1>5. ASSUME Return("error"), UNCHANGED <<memory, arena, frags, live>>
      PROVE  RInv'
  <2>1. PagesThere' /\ HeadersThere' /\ Tiled' /\ CurrentIsLast'
        /\ LiveHeaders' /\ ListFree' /\ HugeApart'
    BY <1>1, <1>5, RQuiet DEF Return
  <2>2. MallocCalled' /\ NextPageFresh' /\ FreeCalled'
    BY <1>5
    DEF Return, MallocCalled, NextPageFresh, FreeCalled, InMalloc, SmallCall,
        OpeningPage, FreeingSmall
  <2> QED
    BY <2>1, <2>2 DEF RInv
<1> QED
  BY <1>2, <1>3, <1>4, <1>5 DEF NoGoodFragments, NextAddress

(* A header is written into a page of small blocks where there is room. *)
LEMMA Written ==
  ASSUME RInv, NEW a, NEW hdr, a.off # 0, Is(a.page, "norm"),
         a.off + BHEADERSIZE + hdr.size <= MALLOC_PAGE_SIZE,
         blocks' = WithHeader(a, hdr), mapped' = mapped
  PROVE  /\ DOMAIN blocks' = DOMAIN blocks \cup {a} /\ blocks'[a] = hdr
         /\ \A b \in DOMAIN blocks : b # a => blocks'[b] = blocks[b]
         /\ HeadersThere'
<1>1. /\ DOMAIN blocks' = DOMAIN blocks \cup {a} /\ blocks'[a] = hdr
      /\ \A b \in DOMAIN blocks : b # a => blocks'[b] = blocks[b]
  BY DEF WithHeader
<1>2. HeadersThere'
  BY <1>1 DEF RInv, HeadersThere, Readable, Is, End
<1> QED
  BY <1>1, <1>2

(* Blocks in use whose headers stay. *)
LEMMA LiveStays ==
  ASSUME RInv, live' = live, mapped' = mapped, NEW a,
         \A h \in Live : Address(h) # a,
         DOMAIN blocks' = DOMAIN blocks \cup {a},
         \A b \in DOMAIN blocks : b # a => blocks'[b] = blocks[b],
         \A h \in Live : Dropping(h)' = Dropping(h)
  PROVE  LiveHeaders' /\ HugeApart'
<1>1. Live' = Live /\ Small' = Small /\ \A h \in Handles : Address(h)' = Address(h)
  BY DEF Live, Small, Address
<1>2. LiveHeaders'
  BY <1>1 DEF RInv, LiveHeaders, Is, Live
<1>3. HugeApart'
  BY <1>1 DEF RInv, HugeApart, Is, PagesOf
<1> QED
  BY <1>2, <1>3

LEMMA ROpenPage ==
  ASSUME IInv, RInv, OpenPage
  PROVE  RInv'
<1>1. /\ pc = "open_page" /\ next_page_ptr # nullptr /\ first_page_ptr # nullptr
      /\ req <= FreshBytes /\ handle \in Handles /\ live[handle] = NoBlock
      /\ Is(next_page_ptr, "norm") /\ next_page_ptr # current_page
      /\ \A a \in DOMAIN blocks : a.page # next_page_ptr
      /\ \A h \in Small : blocks[Address(h)].page # next_page_ptr
  BY DEF OpenPage, IInv, CallOK, RInv, NextPageFresh, MallocCalled, InMalloc,
         OpeningPage, BeforeFirstPage, SmallCall
<1>2. CASE Crash(Fault(current_page)) \/ Crash(WritePast(NextAddress))
  <2>1. Fault(current_page) \in Crashes /\ WritePast(NextAddress) \in Crashes
    BY DEF Fault, WritePast, Crashes
  <2> QED
    BY <1>1, <1>2, <2>1, RCrash
<1>3. ASSUME ~PastEnd(NextAddress), NEW t,
             t \in {"FREE", "STALE"},
             blocks' = WithHeader(NextAddress,
                         [type |-> t, page |-> nullptr,
                          size |-> MALLOC_PAGE_SIZE - NextBlock - BHEADERSIZE]),
             current_block' = NextBlock, block' = NextAddress,
             pc' = "insert_fragment",
             UNCHANGED <<mapped, page_hdr, first_page_ptr, current_page,
                         current_page_free_bytes, touched, frags, handle, req,
                         next_page_ptr, client>>
      PROVE  RInv'
  <2> DEFINE hdr == [type |-> t, page |-> nullptr,
                     size |-> MALLOC_PAGE_SIZE - NextBlock - BHEADERSIZE]
  <2> USE <1>3 DEF frags, client
  <2>1. /\ NextBlock \in Nat /\ NextBlock >= 32
        /\ Is(current_page, "norm")
        /\ NextAddress.page = current_page /\ NextAddress.off = NextBlock
        /\ \A a \in Taken : a.page = current_page => a # NextAddress
        /\ \A h \in Live : Address(h) # NextAddress
        /\ \A i \in 1..Len(fragments) : fragments[i] # NextAddress
    BY <1>1, NextFree
  <2>2. blocks' = WithHeader(NextAddress, hdr)
    OBVIOUS
  <2>3. /\ DOMAIN blocks' = DOMAIN blocks \cup {NextAddress}
        /\ blocks'[NextAddress] = hdr
        /\ \A b \in DOMAIN blocks : b # NextAddress => blocks'[b] = blocks[b]
        /\ HeadersThere'
    <3>1. /\ NextAddress.off # 0
          /\ NextAddress.off + BHEADERSIZE + hdr.size <= MALLOC_PAGE_SIZE
          /\ Is(NextAddress.page, "norm")
      BY <2>1, Sizes
    <3>2. mapped' = mapped /\ RInv
      OBVIOUS
    <3> HIDE DEF hdr
    <3> QED
      BY ONLY <2>2, <3>1, <3>2, Written
  <2>4. \A h \in Live : Dropping(h)' = Dropping(h)
    BY <1>1 DEF Dropping
  <2>5. LiveHeaders' /\ HugeApart'
    BY <2>1, <2>3, <2>4, LiveStays
  <2>6. CurrentBlock' = NextAddress
    BY DEF CurrentBlock, NextAddress
  <2>7. CurrentIsLast' /\ Tiled'
    <3>1. Taken' \subseteq Taken
      BY SameTaken
    <3>2. \A a \in Taken : blocks'[a].size = blocks[a].size
      BY <2>1, <2>3, TakenThere
    <3> QED
      BY <1>1, <3>1, <3>2, MovedCurrent, KeptTiled
  <2>8. PagesThere'
    BY DEF RInv, PagesThere, Is
  <2>9. Live' = Live /\ Small' = Small /\ \A h \in Handles : Address(h)' = Address(h)
    BY DEF Live, Small, Address
  <2>10. ListFree'
    BY <1>1, <2>1, <2>3, <2>6, <2>9 DEF RInv, ListFree, Dropping, Live
  <2>11. NextPageFresh'
    <3>1. \A h \in Small : Address(h) \in DOMAIN blocks /\ Address(h) # NextAddress
      BY <2>1 DEF RInv, LiveHeaders, Small
    <3>2. \A h \in Small : blocks'[Address(h)].page # next_page_ptr
      BY <1>1, <2>3, <3>1
    <3>3. \A h \in Small' : blocks'[Address(h)'].page # next_page_ptr
      BY <2>9, <3>2 DEF Small, Live
    <3> QED
      BY <1>1, <2>1, <2>2, <2>3, <2>6, <3>3 DEF NextPageFresh, OpeningPage, Is
  <2>12. MallocCalled' /\ FreeCalled'
    BY <1>1
    DEF MallocCalled, FreeCalled, InMalloc, SmallCall, OpeningPage, FreeingSmall
  <2> QED
    BY <2>3, <2>5, <2>7, <2>8, <2>10, <2>11, <2>12 DEF RInv
<1>4. CASE /\ ~PastEnd(NextAddress)
           /\ \E t \in IF NextBlock # current_block /\ NextBlock < touched
                         THEN {"FREE", "STALE"} ELSE {"FREE"} :
                blocks' = WithHeader(NextAddress,
                            [type |-> t, page |-> nullptr,
                             size |-> MALLOC_PAGE_SIZE - NextBlock - BHEADERSIZE])
           /\ current_block' = NextBlock /\ block' = NextAddress
           /\ pc' = "insert_fragment"
           /\ UNCHANGED <<mapped, page_hdr, first_page_ptr, current_page,
                          current_page_free_bytes, touched, frags, handle, req,
                          next_page_ptr, client>>
  BY <1>3, <1>4
<1> QED
  BY <1>2, <1>4 DEF OpenPage, NextAddress

LEMMA RUndoOpenPage ==
  ASSUME IInv, RInv, UndoOpenPage
  PROVE  RInv'
<1> USE DEF UndoOpenPage, arena, frags
<1>1. /\ pc = "undo_open_page" /\ first_page_ptr # nullptr
      /\ Is(next_page_ptr, "norm") /\ next_page_ptr # current_page
      /\ \A a \in DOMAIN blocks : a.page # next_page_ptr
      /\ \A h \in Small : blocks[Address(h)].page # next_page_ptr
  BY DEF IInv, RInv, NextPageFresh, OpeningPage, BeforeFirstPage, SmallCall
<1>2. /\ DOMAIN blocks' = DOMAIN blocks
      /\ \A a \in DOMAIN blocks : blocks'[a] = blocks[a]
      /\ \A q \in Page : q # next_page_ptr => mapped'[q] = mapped[q]
  BY <1>1 DEF Unmap, WithoutPage, IInv, TypeOK
<1>3. PagesThere'
  BY <1>1, <1>2 DEF RInv, PagesThere, Is
<1>4. HeadersThere'
  BY <1>1, <1>2 DEF RInv, HeadersThere, Readable, Is, End
<1>5. CurrentBlock' = CurrentBlock
  BY DEF CurrentBlock
<1>6. Taken' \subseteq Taken /\ \A a \in Taken : blocks'[a].size = blocks[a].size
  BY <1>2, SameTaken, TakenThere DEF Return
<1>7. Tiled' /\ CurrentIsLast'
  BY <1>6, KeptTiled, KeptCurrent
<1>8. /\ Live' = Live /\ Small' = Small /\ \A h \in Handles : Address(h)' = Address(h)
      /\ \A h \in Live : ~Dropping(h) /\ ~Dropping(h)'
  BY DEF Live, Small, Address, Dropping, Return
<1>9. LiveHeaders'
  <2>1. ASSUME NEW h \in Live, Address(h).off # 0
        PROVE  /\ blocks'[Address(h)].page \in Page
               /\ mapped'[blocks'[Address(h)].page] = "norm"
    <3>1. h \in Small
      BY <2>1 DEF Small, Address, At
    <3> QED
      BY <1>1, <1>2, <2>1, <3>1 DEF RInv, LiveHeaders, Is
  <2> QED
    BY <1>2, <1>8, <2>1 DEF RInv, LiveHeaders, Is, Live
<1>10. ListFree'
  BY <1>2, <1>5, <1>8 DEF RInv, ListFree, Live
<1>11. HugeApart'
  BY <1>1, <1>2, <1>8 DEF RInv, HugeApart, Is, PagesOf
<1>12. MallocCalled' /\ NextPageFresh' /\ FreeCalled'
  BY DEF Return, MallocCalled, NextPageFresh, FreeCalled, InMalloc, SmallCall,
         OpeningPage, FreeingSmall
<1> QED
  BY <1>3, <1>4, <1>7, <1>9, <1>10, <1>11, <1>12 DEF RInv

LEMMA RLinkPage ==
  ASSUME IInv, RInv, LinkPage
  PROVE  RInv'
<1>1. /\ pc = "link_page" /\ first_page_ptr # nullptr
      /\ req \in Nat /\ req <= FreshBytes
      /\ handle \in Handles /\ live[handle] = NoBlock
      /\ Is(next_page_ptr, "norm") /\ next_page_ptr # current_page
      /\ \A a \in DOMAIN blocks : a.page # next_page_ptr
  BY DEF LinkPage, IInv, TypeOK, RInv, NextPageFresh, OpeningPage, BeforeFirstPage,
         SmallCall, MallocCalled, InMalloc
<1>2. /\ UNCHANGED <<mapped, blocks, first_page_ptr, frags, live, handle, req>>
      /\ current_page' = next_page_ptr /\ current_block' = PHEADERSIZE
      /\ touched' = PHEADERSIZE /\ block' = At(next_page_ptr, PHEADERSIZE)
      /\ pc' = "fix_block_header"
  BY DEF LinkPage, client
<1>3. BlocksKept /\ \A h \in Live : Dropping(h)' = Dropping(h)
  BY <1>1, <1>2 DEF BlocksKept, Dropping
<1>4. HeadersThere' /\ LiveHeaders' /\ HugeApart'
  BY <1>2, <1>3, KeptHeaders, KeptLive
<1>5. PagesThere'
  BY <1>1, <1>2 DEF RInv, PagesThere, Is, frags
<1>6. CurrentBlock' = block' /\ block'.page = next_page_ptr /\ block'.off = 32
  BY <1>2 DEF CurrentBlock, At
<1>7. Taken' \subseteq Taken
  BY <1>2, <1>6, SameTaken DEF frags
<1>8. CurrentIsLast' /\ Tiled'
  <2>1. CurrentIsLast'
    BY <1>1, <1>2, <1>7, TakenThere DEF CurrentIsLast
  <2> QED
    BY <1>3, <1>7, <2>1, KeptSizes, KeptTiled
<1>9. \A h \in Handles : Address(h)' = Address(h)
  BY <1>2 DEF Address
<1>10. ListFree'
  BY <1>1, <1>2, <1>3, <1>6, <1>9 DEF RInv, ListFree, Live, frags
<1>11. MallocCalled'
  <2>1. BlockEnd' <= MALLOC_PAGE_SIZE
    BY <1>1, <1>2, <1>6, Sizes DEF BlockEnd
  <2>2. Is(block.page, "norm")'
    BY <1>1, <1>2, <1>6 DEF Is
  <2>3. \A h \in Live' : Address(h)' # block'
    BY <1>1, <1>2, <1>6, <1>9 DEF RInv, LiveHeaders, Live
  <2>4. \A i \in 1..Len(fragments') : fragments'[i] # block'
    BY <1>1, <1>2, <1>6 DEF RInv, ListFree, frags
  <2>5. block' = CurrentBlock'
    BY <1>6
  <2> QED
    BY <1>1, <1>2, <2>1, <2>2, <2>3, <2>4, <2>5
    DEF MallocCalled, InMalloc, SmallCall, OpeningPage
<1>12. NextPageFresh' /\ FreeCalled'
  BY <1>2 DEF NextPageFresh, FreeCalled, OpeningPage, FreeingSmall
<1> QED
  BY <1>4, <1>5, <1>8, <1>10, <1>11, <1>12 DEF RInv

LEMMA RFixBlockHeader ==
  ASSUME IInv, RInv, FixBlockHeader
  PROVE  RInv'
<1>1. /\ pc = "fix_block_header" /\ first_page_ptr # nullptr
      /\ req \in Nat /\ req > 0
      /\ handle \in Handles /\ live[handle] = NoBlock
      /\ block \in [page : Page, off : Nat] /\ block.off >= 32
      /\ block = At(block.page, block.off)
      /\ Is(block.page, "norm")
      /\ BlockEnd <= MALLOC_PAGE_SIZE \/ block.off = MALLOC_PAGE_SIZE
      /\ current_block \in Nat
      /\ \A a \in DOMAIN blocks : blocks[a] \in BlockHeader
      /\ \A h \in Live : Address(h) # block
      /\ \A i \in 1..Len(fragments) : fragments[i] # block
      /\ block # CurrentBlock =>
           block \in DOMAIN blocks /\ req <= blocks[block].size
  <2>1. pc = "fix_block_header"
    BY DEF FixBlockHeader
  <2>2. block \in [page : Page, off : Nat] /\ block.off >= 32
    BY <2>1 DEF IInv, TypeOK, CallOK, RInv, MallocCalled, Is, Address0
  <2>3. block = At(block.page, block.off)
    BY <2>2 DEF At
  <2> QED
    BY <2>1, <2>2, <2>3
    DEF IInv, TypeOK, CallOK, BeforeFirstPage, RInv, MallocCalled, SmallCall, InMalloc
<1>2. CASE Crash(Fault(current_page)) \/ Crash(WritePast(block))
  <2>1. Fault(current_page) \in Crashes /\ WritePast(block) \in Crashes
    BY DEF Fault, WritePast, Crashes
  <2> QED
    BY <1>1, <1>2, <2>1, RCrash
<1>3. ASSUME blocks' = WithHeader(block,
               [type |-> "USED", size |-> req, page |-> current_page]),
             Is(current_page, "norm"), ~PastEnd(block),
             live' = [live EXCEPT ![handle] =
                       [page |-> block.page, off |-> block.off, size |-> req]],
             Return("ok"),
             UNCHANGED <<mapped, first_page_ptr, current_page, current_block, frags>>
      PROVE  RInv'
  <2> DEFINE hdr == [type |-> "USED", size |-> req, page |-> current_page]
  <2> USE <1>3 DEF frags
  <2>1. /\ DOMAIN blocks' = DOMAIN blocks \cup {block} /\ blocks'[block] = hdr
        /\ \A b \in DOMAIN blocks : b # block => blocks'[b] = blocks[b]
        /\ HeadersThere'
    <3>1. /\ block.off # 0 /\ Is(block.page, "norm")
          /\ block.off + BHEADERSIZE + hdr.size <= MALLOC_PAGE_SIZE
      BY <1>1, Sizes DEF BlockEnd, PastEnd
    <3>2. mapped' = mapped /\ RInv /\ blocks' = WithHeader(block, hdr)
      OBVIOUS
    <3> HIDE DEF hdr
    <3> QED
      BY ONLY <3>1, <3>2, Written
  <2>2. /\ Live' = Live \cup {handle} /\ handle \notin Live
        /\ Live' \ Small' = Live \ Small
        /\ \A h \in Live : Address(h)' = Address(h) /\ live'[h] = live[h]
        /\ \A h \in Handles : h = handle =>
             Address(h)' = block /\ live'[h].size = req
        /\ \A h \in Handles : ~Dropping(h) /\ ~Dropping(h)'
    <3> DEFINE b == [page |-> block.page, off |-> block.off, size |-> req]
    <3>1. b # NoBlock /\ b.off # 0 /\ At(b.page, b.off) = block /\ b.size = req
      BY <1>1 DEF NoBlock
    <3>2. /\ live'[handle] = b
          /\ \A h \in Handles : h # handle => live'[h] = live[h]
      BY <1>1 DEF IInv, TypeOK
    <3> HIDE DEF b
    <3>3. Live' = Live \cup {handle} /\ handle \notin Live
      BY ONLY <1>1, <3>1, <3>2 DEF Live
    <3>4. Live' \ Small' = Live \ Small
      BY ONLY <1>1, <3>1, <3>2, <3>3 DEF Small, Live
    <3> QED
      BY <1>1, <3>1, <3>2, <3>3, <3>4 DEF Address, Live, Dropping, Return
  <2>3. PagesThere'
    BY DEF RInv, PagesThere, Is
  <2>4. CurrentIsLast' /\ Tiled'
    <3>1. CurrentBlock' = CurrentBlock
      BY DEF CurrentBlock
    <3>2. Taken' \subseteq Taken \cup {block}
      <4>1. ASSUME NEW a \in Taken', a # block PROVE a \in Taken
        <5>1. \/ \E h \in Small' : a = Address(h)'
              \/ \E i \in 1..Len(fragments) : a = fragments[i]
          BY <4>1 DEF Taken, Return
        <5>2. \A h \in Small' : h = handle \/ h \in Small
          BY <2>2 DEF Small
        <5> QED
          BY <2>2, <4>1, <5>1, <5>2, IsTaken DEF Small, Live
      <4> QED
        BY <4>1
    <3>3. \A a \in Taken : a # block => End(a)' = End(a)
      BY <2>1, TakenThere DEF End
    <3>4. \A a : a = block => End(a)' = BlockEnd
      BY <2>1 DEF End, BlockEnd
    <3>5. block # CurrentBlock => block \in Taken /\ BlockEnd <= End(block)
      BY <1>1, IsTaken DEF End, BlockEnd, BlockHeader
    <3>6. ASSUME NEW a \in Taken, a # block, a.page = block.page
          PROVE  End(a) <= block.off \/ BlockEnd <= a.off
      <4>1. CASE block = CurrentBlock
        BY <3>6, <4>1 DEF RInv, CurrentIsLast, CurrentBlock, At
      <4>2. CASE block # CurrentBlock
        <5>1. End(a) <= block.off \/ End(block) <= a.off
          BY <3>5, <3>6, <4>2 DEF RInv, Tiled
        <5>2. BlockEnd \in Nat /\ End(block) \in Nat /\ a.off \in Nat
          BY <1>1, <4>2, TakenThere DEF End, BlockEnd, BlockHeader, IInv, TypeOK
        <5> QED
          BY <3>5, <4>2, <5>1, <5>2
      <4> QED
        BY <4>1, <4>2
    <3>7. Tiled'
      BY <3>2, <3>3, <3>4, <3>6 DEF RInv, Tiled
    <3>8. ASSUME NEW a \in Taken', a.page = current_page, a # CurrentBlock
          PROVE  End(a)' <= current_block
      <4>1. CASE a = block
        <5>1. End(block) <= current_block /\ BlockEnd <= End(block)
          BY <3>5, <3>8, <4>1 DEF RInv, CurrentIsLast
        <5>2. BlockEnd \in Nat /\ End(block) \in Nat
          BY <1>1, <3>8, <4>1 DEF End, BlockEnd, BlockHeader
        <5> QED
          BY <1>1, <3>4, <4>1, <5>1, <5>2
      <4>2. CASE a # block
        BY <3>2, <3>3, <3>8, <4>2 DEF RInv, CurrentIsLast
      <4> QED
        BY <4>1, <4>2
    <3> QED
      BY <3>1, <3>7, <3>8 DEF CurrentIsLast
  <2>5. LiveHeaders'
    <3>1. ASSUME NEW h \in Live'
          PROVE  /\ Address(h)' \in DOMAIN blocks'
                 /\ blocks'[Address(h)'].size = live'[h].size
                 /\ Address(h)'.off # 0 =>
                      /\ blocks'[Address(h)'].type = "USED"
                      /\ blocks'[Address(h)'].page \in Page
                      /\ mapped'[blocks'[Address(h)'].page] = "norm"
      <4>1. CASE h = handle
        BY <1>1, <2>1, <2>2, <4>1 DEF Is
      <4>2. CASE h \in Live
        BY <1>1, <2>1, <2>2, <4>2 DEF RInv, LiveHeaders, Is, Live
      <4> QED
        BY <2>2, <4>1, <4>2
    <3>2. \A g, h \in Live' : Address(g)' = Address(h)' => g = h
      BY <1>1, <2>2 DEF RInv, LiveHeaders
    <3> QED
      BY <2>2, <3>1, <3>2 DEF LiveHeaders, Is, Live
  <2>6. ListFree'
    <3>1. CurrentBlock' = CurrentBlock
      BY DEF CurrentBlock
    <3> QED
      BY <1>1, <2>1, <2>2, <3>1 DEF RInv, ListFree, Live
  <2>7. HugeApart'
    BY <2>2 DEF RInv, HugeApart, Is, PagesOf
  <2>8. MallocCalled' /\ NextPageFresh' /\ FreeCalled'
    BY DEF Return, MallocCalled, NextPageFresh, FreeCalled, InMalloc, SmallCall,
           OpeningPage, FreeingSmall
  <2> QED
    BY <2>1, <2>3, <2>4, <2>5, <2>6, <2>7, <2>8 DEF RInv
<1> QED
  BY <1>2, <1>3 DEF FixBlockHeader

LEMMA RLargeBro ==
  ASSUME IInv, RInv, LargeBro
  PROVE  RInv'
<1>1. /\ pc = "large_bro" /\ req \in Nat /\ req > 0 /\ HeaderFits(req)
      /\ handle \in Handles /\ live[handle] = NoBlock
  BY DEF LargeBro, IInv, TypeOK, CallOK, RInv, MallocCalled, InMalloc
<1>2. ASSUME NEW p \in Page, CanMap(p, PagesFor(req)),
             mapped' = MapAs(p, PagesFor(req), "huge"),
             blocks' = WithHeader(At(p, 0),
                         [type |-> "HUGE", size |-> req, page |-> p]),
             live' = [live EXCEPT ![handle] = [page |-> p, off |-> 0, size |-> req]],
             Return("ok"), UNCHANGED <<page_hdr, arena, frags>>
      PROVE  RInv'
  <2> DEFINE new == p..(p + PagesFor(req) - 1)
             hdr == [type |-> "HUGE", size |-> req, page |-> p]
             b   == [page |-> p, off |-> 0, size |-> req]
  <2> USE <1>2 DEF frags, arena
  <2>1. /\ p \in new /\ p # nullptr /\ new \subseteq Page
        /\ \A q \in new : mapped[q] = "none" /\ mapped'[q] = "huge"
        /\ \A q \in Page : q \notin new => mapped'[q] = mapped[q]
    <3>1. PagesFor(req) \in Nat /\ PagesFor(req) # 0
      BY <1>1, PagesHold, Sizes
    <3>2. p \in new
      BY <3>1, Sizes
    <3> QED
      BY <3>2, Sizes DEF CanMap, MapAs
  <2> HIDE DEF new
  <2>2. \A a \in DOMAIN blocks : a.page \in Page /\ a.page \notin new
    BY <2>1 DEF RInv, HeadersThere, Readable, Is
  <2>3. At(p, 0).page = p /\ At(p, 0).off = 0 /\ At(p, 0) \notin DOMAIN blocks
    BY <2>1, <2>2 DEF At
  <2>4. /\ DOMAIN blocks' = DOMAIN blocks \cup {At(p, 0)}
        /\ blocks'[At(p, 0)].type = "HUGE" /\ blocks'[At(p, 0)].size = req
        /\ \A a \in DOMAIN blocks : blocks'[a] = blocks[a]
    BY <2>3 DEF WithHeader
  <2>5. /\ b # NoBlock /\ b.off = 0 /\ b.size = req /\ b.page = p
        /\ live'[handle] = b
        /\ \A h \in Handles : h # handle => live'[h] = live[h]
    BY <1>1, <2>1 DEF NoBlock, IInv, TypeOK
  <2> HIDE DEF b
  <2>6. /\ Live' = Live \cup {handle} /\ handle \notin Live /\ Small' = Small
        /\ \A h \in Live : Address(h)' = Address(h) /\ live'[h] = live[h]
        /\ \A h \in Handles : h = handle => Address(h)' = At(p, 0)
        /\ \A h \in Handles : ~Dropping(h) /\ ~Dropping(h)'
    <3>1. Live' = Live \cup {handle} /\ handle \notin Live
      BY <1>1, <2>5 DEF Live
    <3>2. Small' = Small
      BY <2>5, <3>1 DEF Small, Live
    <3> QED
      BY <1>1, <2>5, <3>1, <3>2 DEF Address, Live, Dropping, Return
  <2>7. PagesThere'
    BY <2>1 DEF RInv, PagesThere, Is
  <2>8. HeadersThere'
    BY <2>1, <2>2, <2>3, <2>4 DEF RInv, HeadersThere, Readable, Is, End
  <2>9. Tiled' /\ CurrentIsLast'
    <3>1. \A h \in Small' : Address(h)' = Address(h)
      BY <2>6 DEF Small
    <3>2. Taken' \subseteq Taken
      BY <2>6, <3>1, FewerTaken DEF Return
    <3>3. \A a \in Taken : blocks'[a].size = blocks[a].size
      BY <2>4, TakenThere
    <3> QED
      BY <3>2, <3>3, KeptTiled, KeptCurrent
  <2>10. CurrentBlock' = CurrentBlock /\ current_page # p
    BY <2>1 DEF CurrentBlock, RInv, PagesThere, Is, IInv, BeforeFirstPage
  <2>12. LiveHeaders'
    <3>1. ASSUME NEW h \in Live'
          PROVE  /\ Address(h)' \in DOMAIN blocks'
                 /\ blocks'[Address(h)'].size = live'[h].size
                 /\ Address(h)'.off # 0 =>
                      /\ blocks'[Address(h)'].type = "USED"
                      /\ blocks'[Address(h)'].page \in Page
                      /\ mapped'[blocks'[Address(h)'].page] = "norm"
      <4>1. CASE h = handle
        BY <1>1, <2>3, <2>4, <2>5, <2>6, <4>1
      <4>2. CASE h \in Live
        BY <2>1, <2>4, <2>6, <4>2 DEF RInv, LiveHeaders, Is, Live
      <4> QED
        BY <2>6, <4>1, <4>2
    <3>2. \A h \in Live : Address(h) # At(p, 0)
      BY <2>3 DEF RInv, LiveHeaders
    <3>3. \A g, h \in Live' : Address(g)' = Address(h)' => g = h
      BY <1>1, <2>6, <3>2 DEF RInv, LiveHeaders
    <3> QED
      BY <2>6, <3>1, <3>3 DEF LiveHeaders, Is, Live
  <2>13. ListFree'
    BY <1>1, <2>3, <2>4, <2>6, <2>10 DEF RInv, ListFree, Live
  <2>14. HugeApart'
    <3>1. PagesOf(b) = new
      BY <2>5 DEF PagesOf, new
    <3>2. \A h \in Live \ Small : \A q \in PagesOf(live[h]) :
             q \in Page /\ q \notin new
      BY <2>1 DEF RInv, HugeApart, Is
    <3>3. ASSUME NEW h \in Live' \ Small'
          PROVE  /\ HeaderFits(live'[h].size)
                 /\ \A q \in PagesOf(live'[h]) :
                      /\ q \in Page /\ mapped'[q] = "huge"
                      /\ \A g \in Live' \ Small' : q \in PagesOf(live'[g]) => g = h
      <4>1. CASE h = handle
        BY <1>1, <2>1, <2>5, <2>6, <3>1, <3>2, <4>1
      <4>2. CASE h \in Live
        <5>1. live'[h] = live[h] /\ h \in Live \ Small
          BY <2>6, <4>2
        <5>2. \A q \in PagesOf(live[h]) : q \in Page /\ mapped'[q] = "huge" /\ q \notin new
          BY <2>1, <3>2, <5>1 DEF RInv, HugeApart, Is
        <5>3. ASSUME NEW q \in PagesOf(live[h]), NEW g \in Live' \ Small',
                     q \in PagesOf(live'[g])
              PROVE  g = h
          <6>1. g # handle
            BY <2>5, <3>1, <5>2, <5>3
          <6> QED
            BY <2>6, <5>1, <5>3, <6>1 DEF RInv, HugeApart
        <5>4. HeaderFits(live[h].size)
          BY <5>1 DEF RInv, HugeApart
        <5> QED
          BY <5>1, <5>2, <5>3, <5>4
      <4> QED
        BY <2>6, <4>1, <4>2
    <3>4. \A n : HeaderFits(n)' <=> HeaderFits(n)
      BY DEF HeaderFits, PagesFor
    <3>5. \A x : PagesOf(x)' = PagesOf(x)
      BY DEF PagesOf, PagesFor
    <3> QED
      BY <3>3, <3>4, <3>5 DEF HugeApart, Is, PagesOf
  <2>15. MallocCalled' /\ NextPageFresh' /\ FreeCalled'
    BY DEF Return, MallocCalled, NextPageFresh, FreeCalled, InMalloc, SmallCall,
           OpeningPage, FreeingSmall
  <2> QED
    BY <2>7, <2>8, <2>9, <2>12, <2>13, <2>14, <2>15 DEF RInv
<1>3. ASSUME Return("error"), UNCHANGED <<memory, arena, frags, live>>
      PROVE  RInv'
  <2>1. PagesThere' /\ HeadersThere' /\ Tiled' /\ CurrentIsLast'
        /\ LiveHeaders' /\ ListFree' /\ HugeApart'
    BY <1>1, <1>3, RQuiet DEF Return
  <2>2. MallocCalled' /\ NextPageFresh' /\ FreeCalled'
    BY <1>3
    DEF Return, MallocCalled, NextPageFresh, FreeCalled, InMalloc, SmallCall,
        OpeningPage, FreeingSmall
  <2> QED
    BY <2>1, <2>2 DEF RInv
<1> QED
  BY <1>2, <1>3 DEF LargeBro

(***************************************************************************)
(* free                                                                    *)
(***************************************************************************)

LEMMA RFreeCall ==
  ASSUME IInv, RInv, RulesKept, NEW h \in Handles, FreeCall(h)
  PROVE  RInv'
<1>1. /\ pc = "idle" /\ h \in Live /\ next_page_ptr = nullptr
      /\ Address(h) \in DOMAIN blocks /\ Readable(Address(h))
      /\ Address(h) # CurrentBlock
      /\ Header(Address(h)) = blocks[Address(h)]
  BY DEF FreeCall, Live, IInv, CallOK, RInv, LiveHeaders, HeadersThere, RulesKept,
         RuleNames, Header
<1>2. Address(h).off = 0 <=> Header(Address(h)).type = "HUGE"
  BY <1>1 DEF IInv, HeadersPositive, RInv, LiveHeaders, Dropping
<1>3. Address(h).off # 0 => page_hdr[blocks[Address(h)].page].usages # 1
  BY <1>1 DEF FreeCall, RulesKept, RuleNames, RInv, LiveHeaders
<1>4. /\ handle' = h /\ block' = Address(h)
      /\ pc' = IF Header(Address(h)).type = "HUGE" THEN "large_free_bro"
                                                    ELSE "insert_fragment"
      /\ UNCHANGED <<memory, arena, frags, req, next_page_ptr, client>>
  BY <1>1 DEF FreeCall
<1>5. PagesThere' /\ HeadersThere' /\ Tiled' /\ CurrentIsLast'
        /\ LiveHeaders' /\ ListFree' /\ HugeApart'
  BY <1>1, <1>4, RQuiet DEF client
<1>6. MallocCalled' /\ NextPageFresh'
  BY <1>1, <1>4 DEF MallocCalled, NextPageFresh, InMalloc, SmallCall, OpeningPage
<1>7. FreeCalled'
  <2>1. Live' = Live /\ block' = (At(live'[h].page, live'[h].off))
    BY <1>4 DEF Live, Address, client
  <2>2. CurrentBlock' = CurrentBlock
    BY <1>4 DEF CurrentBlock, arena
  <2> QED
    BY <1>1, <1>2, <1>3, <1>4, <2>1, <2>2
    DEF FreeCalled, FreeingSmall, Address, memory
<1> QED
  BY <1>5, <1>6, <1>7 DEF RInv

LEMMA RLargeFreeBro ==
  ASSUME IInv, RInv, LargeFreeBro
  PROVE  RInv'
<1> USE DEF frags, arena
<1>1. /\ pc = "large_free_bro" /\ handle \in Live /\ handle \in Handles
      /\ block = Address(handle) /\ block.off = 0
      /\ block \in DOMAIN blocks /\ Is(block.page, "huge")
      /\ handle \in Live \ Small /\ live[handle].page = block.page
      /\ live[handle].size \in Nat /\ live[handle].size > 0
  <2>1. pc = "large_free_bro" /\ handle \in Live /\ block = Address(handle)
        /\ block.off = 0
    BY DEF LargeFreeBro, RInv, FreeCalled
  <2>2. block \in DOMAIN blocks /\ blocks[block].size = live[handle].size
    BY <2>1 DEF RInv, LiveHeaders
  <2>3. live[handle].page = block.page /\ live[handle].off = 0
    BY <2>1 DEF Address, At
  <2> QED
    BY <2>1, <2>2, <2>3
    DEF RInv, HeadersThere, Readable, IInv, TypeOK, HeadersPositive, Live, Small
<1> DEFINE p == block.page
<1>2. /\ p \in Page /\ mapped[p] = "huge"
      /\ \A q \in Page : q # p => mapped'[q] = mapped[q]
      /\ DOMAIN blocks' = {a \in DOMAIN blocks : a.page # p}
      /\ \A a \in DOMAIN blocks' : blocks'[a] = blocks[a]
  BY <1>1 DEF LargeFreeBro, Unmap, WithoutPage, IInv, TypeOK, Is
<1>3. /\ live' = [live EXCEPT ![handle] = NoBlock] /\ pc' = "idle"
      /\ UNCHANGED <<page_hdr, arena, frags>>
  BY DEF LargeFreeBro, Return
<1> HIDE DEF p
<1>4. /\ Live' = Live \ {handle}
      /\ Live' \ Small' = (Live \ Small) \ {handle}
      /\ \A h \in Live' : Address(h)' = Address(h) /\ live'[h] = live[h]
      /\ \A h \in Handles : ~Dropping(h) /\ ~Dropping(h)'
  <2>1. \A h \in Handles : live'[h] = IF h = handle THEN NoBlock ELSE live[h]
    BY <1>1, <1>3 DEF IInv, TypeOK
  <2>2. Live' = Live \ {handle}
    BY <2>1 DEF Live
  <2>3. Live' \ Small' = (Live \ Small) \ {handle}
    BY <2>1, <2>2 DEF Small, Live
  <2> QED
    BY <1>1, <1>3, <2>1, <2>2, <2>3 DEF Address, Live, Dropping
<1>5. PagesThere'
  BY <1>2, <1>3 DEF RInv, PagesThere, Is
<1>6. HeadersThere'
  BY <1>2 DEF RInv, HeadersThere, Readable, Is, End
<1>7. CurrentBlock' = CurrentBlock /\ current_page # p
  BY <1>2, <1>3, Sizes DEF CurrentBlock, RInv, PagesThere, Is, IInv, BeforeFirstPage
<1>8. \A a \in DOMAIN blocks : a.off # 0 => a \in DOMAIN blocks'
  BY <1>2 DEF RInv, HeadersThere, Readable, Is
<1>9. Tiled' /\ CurrentIsLast'
  <2>1. Small' \subseteq Small /\ \A h \in Small' : Address(h)' = Address(h)
    BY <1>3, <1>4 DEF Small
  <2>2. Taken' \subseteq Taken
    BY <1>3, <2>1, FewerTaken
  <2>3. \A a \in Taken : blocks'[a].size = blocks[a].size
    BY <1>2, <1>8, TakenThere, TakenSmall
  <2> QED
    BY <1>3, <2>2, <2>3, KeptTiled, KeptCurrent
<1>10. ASSUME NEW h \in Live, h # handle PROVE Address(h).page # p
  <2>1. Address(h) \in DOMAIN blocks /\ Readable(Address(h))
    BY DEF RInv, LiveHeaders, HeadersThere
  <2>2. Address(h).page = p => Address(h).off = 0
    BY <1>2, <2>1 DEF Readable, Is
  <2>3. Address(h).page = p => Address(h) = Address(handle)
    BY <1>1, <2>2 DEF Address, At, p
  <2> QED
    BY <1>1, <1>10, <2>3 DEF RInv, LiveHeaders
<1>11. LiveHeaders'
  BY <1>2, <1>4, <1>10 DEF RInv, LiveHeaders, Is, Live
<1>12. ListFree'
  <2>1. \A i \in 1..Len(fragments) : fragments[i] \in DOMAIN blocks'
    BY <1>8 DEF RInv, ListFree
  <2> QED
    BY <1>1, <1>2, <1>3, <1>4, <1>7, <2>1 DEF RInv, ListFree, Live
<1>13. HugeApart'
  <2>1. p \in PagesOf(live[handle])
    <3>1. PagesFor(live[handle].size) \in Nat /\ PagesFor(live[handle].size) # 0
      BY <1>1, PagesHold, Sizes
    <3>2. p \in p..(p + PagesFor(live[handle].size) - 1)
      BY <1>2, <3>1, Sizes
    <3>3. live[handle].page = p
      BY <1>1 DEF p
    <3> QED
      BY <3>2, <3>3 DEF PagesOf
  <2>2. \A h \in Live' \ Small' : p \notin PagesOf(live[h])
    BY <1>1, <1>4, <2>1 DEF RInv, HugeApart
  <2>3. ASSUME NEW h \in Live' \ Small'
        PROVE  /\ HeaderFits(live[h].size) /\ live'[h] = live[h]
               /\ \A q \in PagesOf(live[h]) :
                    /\ q \in Page /\ mapped'[q] = "huge"
                    /\ \A g \in Live' \ Small' : q \in PagesOf(live'[g]) => g = h
    BY <1>2, <1>4, <2>2 DEF RInv, HugeApart, Is
  <2> QED
    BY <2>3 DEF HugeApart, Is, PagesOf, HeaderFits, PagesFor
<1>14. MallocCalled' /\ NextPageFresh' /\ FreeCalled'
  BY <1>3 DEF MallocCalled, NextPageFresh, FreeCalled, InMalloc, SmallCall,
              OpeningPage, FreeingSmall
<1> QED
  BY <1>5, <1>6, <1>9, <1>11, <1>12, <1>13, <1>14 DEF RInv

LEMMA RDropUsage ==
  ASSUME IInv, RInv, DropUsage
  PROVE  RInv'
<1>1. /\ pc = "drop_usage" /\ handle \in Live /\ handle \in Handles
      /\ block = Address(handle) /\ block.off # 0
      /\ block \in DOMAIN blocks /\ Header(block) = blocks[block]
      /\ Is(blocks[block].page, "norm")
      /\ page_hdr[blocks[block].page].usages # 1
  BY DEF DropUsage, RInv, FreeCalled, FreeingSmall, LiveHeaders, Live, Header
<1>2. /\ UNCHANGED <<mapped, blocks, arena, frags>> /\ pc' = "idle"
      /\ live' = [live EXCEPT ![handle] = NoBlock]
  BY <1>1 DEF DropUsage, Emptied, Return
<1>3. BlocksKept
  BY <1>2 DEF BlocksKept
<1>4. HeadersThere'
  BY <1>3, KeptHeaders
<1>5. PagesThere'
  BY <1>2 DEF RInv, PagesThere, Is, arena, frags
<1>6. /\ Live' = Live \ {handle} /\ Live' \ Small' \subseteq Live \ Small
      /\ \A h \in Live' : /\ Address(h)' = Address(h) /\ live'[h] = live[h]
                          /\ ~Dropping(h) /\ ~Dropping(h)'
  <2>1. \A h \in Handles : live'[h] = IF h = handle THEN NoBlock ELSE live[h]
    BY <1>1, <1>2 DEF IInv, TypeOK
  <2>2. Live' = Live \ {handle}
    BY <2>1 DEF Live
  <2>3. Live' \ Small' \subseteq Live \ Small
    BY <2>1, <2>2 DEF Small, Live
  <2> QED
    BY <1>1, <1>2, <2>1, <2>2, <2>3 DEF Address, Live, Dropping
<1>7. LiveHeaders'
  BY <1>2, <1>6 DEF RInv, LiveHeaders, Is, Live
<1>8. ListFree'
  BY <1>1, <1>2, <1>6 DEF RInv, ListFree, Live, frags, arena, CurrentBlock
<1>9. HugeApart'
  BY <1>2, <1>6 DEF RInv, HugeApart, Is, PagesOf
<1>10. MallocCalled' /\ NextPageFresh' /\ FreeCalled'
  BY <1>2 DEF MallocCalled, NextPageFresh, FreeCalled, InMalloc, SmallCall,
              OpeningPage, FreeingSmall
<1>11. Tiled' /\ CurrentIsLast'
  <2>1. Small' \subseteq Small /\ \A h \in Small' : Address(h)' = Address(h)
    BY <1>6 DEF Small
  <2>2. Taken' \subseteq Taken
    BY <1>2, <2>1, FewerTaken DEF frags
  <2> QED
    BY <1>2, <1>3, <2>2, KeptSizes, KeptTiled, KeptCurrent DEF arena
<1> QED
  BY <1>4, <1>5, <1>7, <1>8, <1>9, <1>10, <1>11 DEF RInv

(***************************************************************************)
(* insert_fragment                                                         *)
(***************************************************************************)

(* The block that is inserted: the rest of a page that malloc leaves, or   *)
(* the one that free was given.                                            *)
LEMMA RInserting ==
  ASSUME IInv, RInv, pc = "insert_fragment"
  PROVE  /\ block \in DOMAIN blocks /\ block.off # 0
         /\ Header(block) = blocks[block] /\ Header(block).size # 0
         /\ CalledByMalloc =>
              /\ OpeningPage /\ block = CurrentBlock
              /\ \A h \in Live : Address(h) # block
         /\ ~CalledByMalloc =>
              /\ FreeingSmall /\ ~OpeningPage /\ handle \in Live
              /\ block = Address(handle)
              /\ block # CurrentBlock
              /\ \A h \in Live : Address(h) = block => h = handle
<1>1. block \in DOMAIN blocks
  BY DEF RInv, NextPageFresh, FreeCalled, FreeingSmall, OpeningPage, LiveHeaders
<1>2. block.off # 0
  BY <1>1 DEF IInv, CallOK
<1>3. Header(block) = blocks[block] /\ Header(block).size # 0
  BY <1>1 DEF IInv, TypeOK, HeadersPositive, Header, BlockHeader
<1>4. CASE CalledByMalloc
  <2>1. OpeningPage /\ block = CurrentBlock /\ blocks[block].type # "USED"
    BY <1>4 DEF CalledByMalloc, OpeningPage, RInv, NextPageFresh
  <2>2. \A h \in Live : Address(h) # block
    BY <1>2, <2>1 DEF RInv, LiveHeaders, Dropping
  <2> QED
    BY <1>1, <1>2, <1>3, <1>4, <2>1, <2>2
<1>5. CASE ~CalledByMalloc
  <2>1. FreeingSmall /\ ~OpeningPage
    BY <1>5 DEF CalledByMalloc, OpeningPage, FreeingSmall
  <2> QED
    BY <1>1, <1>2, <1>3, <1>5, <2>1 DEF RInv, FreeCalled, LiveHeaders
<1> QED
  BY <1>4, <1>5

(* An insertion that found a node. *)
LEMMA RInsertedStep ==
  ASSUME IInv, RInv, pc = "insert_fragment",
         blocks' = WithHeader(block, [Header(block) EXCEPT !.type = "FREE"]),
         fragments' = <<block>>, Is(first_fragment_list_header, "frag")',
         \A q \in Page : mapped[q] \in {"norm", "huge"} => mapped'[q] = mapped[q],
         Inserted, UNCHANGED <<page_hdr, arena, call, client>>
  PROVE  RInv'
<1> USE DEF arena, call, client
<1>1. /\ block \in DOMAIN blocks /\ block.off # 0
      /\ CalledByMalloc =>
           /\ OpeningPage /\ block = CurrentBlock
           /\ \A h \in Live : Address(h) # block
      /\ ~CalledByMalloc =>
           /\ FreeingSmall /\ ~OpeningPage /\ handle \in Live
           /\ block = Address(handle) /\ block # CurrentBlock
           /\ \A h \in Live : Address(h) = block => h = handle
  BY RInserting
<1>2. /\ DOMAIN blocks' = DOMAIN blocks
      /\ \A a \in DOMAIN blocks : /\ blocks'[a].size = blocks[a].size
                                  /\ a # block => blocks'[a] = blocks[a]
      /\ blocks'[block].type = "FREE"
  BY <1>1, FreedHeader DEF IInv
<1>3. \A a \in DOMAIN blocks : blocks'[a].page = blocks[a].page
  <2>1. [Header(block) EXCEPT !.type = "FREE"].page = blocks[block].page
    BY <1>1 DEF Header, IInv, TypeOK, BlockHeader
  <2>2. blocks'[block] = [Header(block) EXCEPT !.type = "FREE"]
    BY <1>1 DEF WithHeader
  <2>3. blocks'[block].page = blocks[block].page
    BY <2>1, <2>2
  <2> QED
    BY <1>2, <2>3
<1>4. /\ Live' = Live /\ Small' = Small /\ CurrentBlock' = CurrentBlock
      /\ \A h \in Handles : Address(h)' = Address(h)
  BY DEF Live, Small, Address, CurrentBlock
<1>5. PagesThere'
  BY DEF RInv, PagesThere, Is
<1>6. HeadersThere'
  BY <1>2 DEF RInv, HeadersThere, Readable, Is, End
<1>7. /\ Taken' \subseteq Taken \cup {block}
      /\ block \in Taken \/ block = CurrentBlock
      /\ \A a \in Taken \cup {block} : End(a)' = End(a)
  <2>1. ASSUME NEW a \in Taken', a # block PROVE a \in Taken
    <3>1. \E h \in Small' : a = Address(h)'
      BY <2>1 DEF Taken, Inserted
    <3> QED
      BY <1>4, <3>1, IsTaken DEF Small, Live
  <2>2. ~CalledByMalloc => block \in Taken
    BY <1>1, IsTaken DEF Small, Address, At
  <2>3. \A a \in Taken \cup {block} : End(a)' = End(a)
    BY <1>1, <1>2, TakenThere DEF End
  <2> QED
    BY <1>1, <2>1, <2>2, <2>3
<1>8. Tiled' /\ CurrentIsLast'
  <2>1. ASSUME NEW a \in Taken', NEW b \in Taken', a.page = b.page, a # b
        PROVE  End(a) <= b.off \/ End(b) <= a.off
    <3>1. CASE a \in Taken /\ b \in Taken
      BY <2>1, <3>1 DEF RInv, Tiled
    <3>2. CASE a = CurrentBlock \/ b = CurrentBlock
      BY <1>7, <2>1, <3>2 DEF RInv, CurrentIsLast, CurrentBlock, At
    <3> QED
      BY <1>7, <3>1, <3>2
  <2>2. Tiled'
    BY <1>7, <2>1 DEF Tiled
  <2>3. CurrentIsLast'
    BY <1>4, <1>7 DEF RInv, CurrentIsLast
  <2> QED
    BY <2>2, <2>3
<1>9. pc' = IF CalledByMalloc THEN "link_page" ELSE "drop_usage"
  BY DEF Inserted
<1>10. LiveHeaders'
  <2>1. ASSUME NEW h \in Live, Address(h).off # 0
        PROVE  /\ blocks'[Address(h)].type = IF Dropping(h)' THEN "FREE" ELSE "USED"
               /\ blocks'[Address(h)].page \in Page
               /\ mapped'[blocks'[Address(h)].page] = "norm"
    <3>1. blocks[Address(h)].type = "USED" /\ Is(blocks[Address(h)].page, "norm")
          /\ Address(h) \in DOMAIN blocks
      BY <2>1 DEF RInv, LiveHeaders, Dropping
    <3>2. Dropping(h)' <=> ~CalledByMalloc /\ h = handle
      BY <1>9 DEF Dropping
    <3>3. Address(h) = block <=> ~CalledByMalloc /\ h = handle
      BY <1>1
    <3> QED
      BY <1>2, <1>3, <3>1, <3>2, <3>3 DEF Is
  <2> QED
    BY <1>2, <1>4, <2>1 DEF RInv, LiveHeaders, Is, Live
<1>11. ListFree'
  <2>1. Len(fragments') = 1 /\ fragments'[1] = block
    OBVIOUS
  <2>2. ASSUME pc' # "link_page" PROVE block # CurrentBlock
    BY <1>1, <1>9, <2>2
  <2>3. \A h \in Live : Address(h) = block => Dropping(h)'
    BY <1>1, <1>9 DEF Dropping
  <2> QED
    BY <1>1, <1>2, <1>4, <2>1, <2>2, <2>3 DEF ListFree, Live
<1>12. HugeApart'
  BY <1>4 DEF RInv, HugeApart, Is, PagesOf
<1>13. MallocCalled'
  BY <1>1, <1>9 DEF RInv, MallocCalled, InMalloc, SmallCall, OpeningPage
<1>14. NextPageFresh'
  <2>1. CASE CalledByMalloc
    <3>1. /\ Is(next_page_ptr, "norm") /\ next_page_ptr # current_page
          /\ \A a \in DOMAIN blocks : a.page # next_page_ptr
          /\ \A h \in Small : blocks[Address(h)].page # next_page_ptr
      BY <1>1, <2>1 DEF RInv, NextPageFresh
    <3>2. \A h \in Small : Address(h) \in DOMAIN blocks
      BY DEF RInv, LiveHeaders, Small
    <3> QED
      BY <1>2, <1>3, <1>4, <1>9, <2>1, <3>1, <3>2 DEF NextPageFresh, Is, Small, Live
  <2>2. CASE ~CalledByMalloc
    BY <1>9, <2>2 DEF NextPageFresh, OpeningPage
  <2> QED
    BY <2>1, <2>2
<1>15. FreeCalled'
  <2>1. CASE CalledByMalloc
    BY <1>9, <2>1 DEF FreeCalled, FreeingSmall
  <2>2. CASE ~CalledByMalloc
    <3>1. page_hdr[blocks[block].page].usages # 1
      BY <1>1, <2>2 DEF RInv, FreeCalled
    <3> QED
      BY <1>1, <1>2, <1>3, <1>4, <1>9, <2>2, <3>1
      DEF FreeCalled, FreeingSmall, Live, Address
  <2> QED
    BY <2>1, <2>2
<1> QED
  BY <1>5, <1>6, <1>8, <1>10, <1>11, <1>12, <1>13, <1>14, <1>15 DEF RInv

LEMMA RInsertFragment ==
  ASSUME IInv, RInv, InsertFragment
  PROVE  RInv'
<1>1. pc = "insert_fragment" /\ Header(block).size # 0
  BY RInserting DEF InsertFragment
<1>2. ASSUME first_fragment_list_header = nullptr, NEW p \in Page, CanMap(p, 1),
             mapped' = MapAs(p, 1, "frag"), first_fragment_list_header' = p,
             fragments' = <<block>>,
             blocks' = WithHeader(block, [Header(block) EXCEPT !.type = "FREE"]),
             Inserted, UNCHANGED <<page_hdr, arena, call, client>>
      PROVE  RInv'
  <2>1. /\ mapped'[p] = "frag"
        /\ \A q \in Page : mapped[q] \in {"norm", "huge"} => mapped'[q] = mapped[q]
    <3>1. \A q \in Page : q \in p..(p + 1 - 1) <=> q = p
      BY Sizes
    <3> QED
      BY <1>2, <3>1, Sizes DEF CanMap, MapAs
  <2>2. Is(first_fragment_list_header, "frag")'
    BY <1>2, <2>1 DEF Is
  <2> QED
    BY <1>1, <1>2, <2>1, <2>2, RInsertedStep
<1>3. ASSUME first_fragment_list_header = nullptr,
             first_fragment_list_header' = ErrPtr,
             IF CalledByMalloc
               THEN pc' = "undo_open_page" /\ UNCHANGED <<call, ret>>
               ELSE Return("error"),
             UNCHANGED <<memory, arena, free_spaces, nodes_taken, fragments, live>>
      PROVE  RInv'
  <2>1. pc' = IF CalledByMalloc THEN "undo_open_page" ELSE "idle"
    BY <1>3 DEF Return
  <2>2. BlocksKept /\ \A h \in Live : Dropping(h)' = Dropping(h)
    BY <1>1, <1>3, <2>1 DEF BlocksKept, memory, Dropping
  <2>3. HeadersThere' /\ Tiled' /\ LiveHeaders' /\ HugeApart' /\ CurrentIsLast'
        /\ ListFree'
    <3>1. Taken' \subseteq Taken
      BY <1>3, <2>1, SameTaken
    <3>2. Tiled' /\ CurrentIsLast'
      BY <1>3, <2>2, <3>1, KeptSizes, KeptTiled, KeptCurrent DEF arena
    <3> QED
      BY <1>1, <1>3, <2>2, <3>2, KeptHeaders, KeptLive, KeptList
  <2>4. PagesThere'
    BY <1>3, Sizes DEF RInv, PagesThere, Is, memory, arena
  <2>5. FreeCalled'
    BY <2>1 DEF FreeCalled, FreeingSmall
  <2>6. MallocCalled' /\ NextPageFresh'
    <3>1. CASE CalledByMalloc
      <4>1. OpeningPage /\ pc' = "undo_open_page" /\ UNCHANGED call
        BY <1>1, <1>3, <2>1, <3>1 DEF CalledByMalloc, OpeningPage
      <4>2. Small' = Small /\ \A h \in Handles : Address(h)' = Address(h)
        BY <1>3 DEF Small, Live, Address
      <4> QED
        BY <1>3, <4>1, <4>2
        DEF RInv, MallocCalled, NextPageFresh, InMalloc, SmallCall, OpeningPage,
            call, memory, arena, Is, Small, Live
    <3>2. CASE ~CalledByMalloc
      BY <2>1, <3>2 DEF MallocCalled, NextPageFresh, InMalloc, SmallCall, OpeningPage
    <3> QED
      BY <3>1, <3>2
  <2> QED
    BY <2>3, <2>4, <2>5, <2>6 DEF RInv
<1>4. ASSUME Is(first_fragment_list_header, "frag"),
             fragments' = Ordered(Header(block).size),
             blocks' = WithHeader(block, [Header(block) EXCEPT !.type = "FREE"]),
             Inserted,
             UNCHANGED <<mapped, page_hdr, arena, first_fragment_list_header,
                         call, client>>
      PROVE  RInv'
  <2>1. Len(fragments) = 1 /\ fragments[1] \in DOMAIN blocks
    BY <1>4 DEF IInv, ListHasOne, Is, RInv, ListFree
  <2>2. Header(fragments[1]).size # 0
    BY <2>1 DEF Header, IInv, TypeOK, HeadersPositive, BlockHeader
  <2>3. fragments' = <<block>>
    BY <1>4, <2>1, <2>2 DEF Ordered
  <2>4. Is(first_fragment_list_header, "frag")'
    BY <1>4 DEF Is
  <2> QED
    BY <1>1, <1>4, <2>3, <2>4, RInsertedStep
<1>5. ASSUME NEW how \in Crashes, Crash(how) PROVE RInv'
  BY <1>1, <1>5, RCrash
<1>6. /\ Fault(first_fragment_list_header) \in Crashes
      /\ "wild" \in Crashes
      /\ \A i : Fault(fragments[i].page) \in Crashes
  BY DEF Fault, Crashes
<1> QED
  BY <1>1, <1>2, <1>3, <1>4, <1>5, <1>6 DEF InsertFragment

(***************************************************************************)
(* The theorems.                                                           *)
(***************************************************************************)

LEMMA RUnchanged ==
  ASSUME RInv, UNCHANGED vars
  PROVE  RInv'
<1> USE DEF vars, memory, arena, frags, call, client
<1>1. BlocksKept /\ \A h \in Live : Dropping(h)' = Dropping(h)
  BY DEF BlocksKept, Dropping
<1>2. HeadersThere' /\ LiveHeaders' /\ HugeApart'
  BY <1>1, KeptHeaders, KeptLive
<1>3. Live' = Live /\ Small' = Small /\ CurrentBlock' = CurrentBlock
      /\ BlockEnd' = BlockEnd
      /\ \A h \in Handles : Address(h)' = Address(h)
  BY DEF Live, Small, CurrentBlock, Address, BlockEnd
<1>4. PagesThere' /\ ListFree'
  BY <1>1, <1>3 DEF RInv, PagesThere, Is, ListFree, Live
<1>5. MallocCalled'
  BY <1>3 DEF RInv, MallocCalled, InMalloc, OpeningPage, SmallCall, Is, Header, Live
<1>6. NextPageFresh'
  BY <1>3 DEF RInv, NextPageFresh, OpeningPage, Is, Small, Live
<1>7. FreeCalled'
  <2>1. block' = block /\ \A h \in Live : handle = h => Address(handle)' = Address(h)
    BY <1>3 DEF Address
  <2> QED
    BY <1>3, <2>1 DEF RInv, FreeCalled, FreeingSmall, OpeningPage, Live
<1>8. Tiled' /\ CurrentIsLast'
  <2>1. {Address(h)' : h \in Small'} = {Address(h) : h \in Small}
    BY <1>3 DEF Small, Live
  <2>2. Taken' \subseteq Taken
    BY <1>3, <2>1 DEF Taken
  <2> QED
    BY <1>1, <2>2, KeptSizes, KeptTiled, KeptCurrent
<1> QED
  BY <1>2, <1>4, <1>5, <1>6, <1>7, <1>8 DEF RInv

LEMMA RClientWrites ==
  ASSUME RInv, ClientWrites
  PROVE  RInv'
BY RCrash DEF ClientWrites, Crashes

LEMMA RulesStep ==
  ASSUME RulesKept, IInv, RInv, [Next]_vars
  PROVE  RInv'
<1>1. CASE UNCHANGED vars
  BY <1>1, RUnchanged
<1>2. CASE \E h \in Handles, n \in Requests : MallocCall(h, n)
  BY <1>2, RMallocCall
<1>3. CASE \E h \in Handles : FreeCall(h)
  BY <1>3, RFreeCall
<1>4. CASE Step
  BY <1>4, RFirstSetup, RFindAvailableFragment, RNoGoodFragments, ROpenPage,
     RUndoOpenPage, RLinkPage, RFixBlockHeader, RLargeBro, RLargeFreeBro,
     RDropUsage, RInsertFragment, RClientWrites
  DEF Step
<1> QED
  BY <1>1, <1>2, <1>3, <1>4 DEF Next

(* Under the rules, the memory of the allocator stays in order: what it    *)
(* points at is mapped for it, the blocks of a page do not overlap, and a  *)
(* block in use is described by its own header.                            *)
THEOREM RulesInvariant ==
  ASSUME RulesKept
  PROVE  Spec => []RInv
<1>1. Init => RInv
  BY RInit
<1>2. IInv /\ RInv /\ [Next]_vars => RInv'
  BY RulesStep
<1> QED
  BY <1>1, <1>2, Invariant, PTL DEF Spec

(***************************************************************************)
(* What follows from the invariant: the client's blocks are disjoint and   *)
(* its own, malloc and free implement AbstractHeap, and the uses of the    *)
(* pages are exact and none of them is lost.                               *)
(***************************************************************************)

(* A block ends before the next page that it has not to itself begins. *)
LEMMA PagesApart ==
  ASSUME IInv, RInv, NEW g \in Live, NEW h \in Live,
         live[g].page < live[h].page
  PROVE  Past(live[g]) <= First(live[h])
<1> DEFINE p == live[g].page
           q == live[h].page
           P == MALLOC_PAGE_SIZE
<1>1. /\ Address(g) \in DOMAIN blocks /\ blocks[Address(g)].size = live[g].size
      /\ Address(g).page = p /\ Address(g).off = live[g].off
      /\ Address(h) \in DOMAIN blocks
      /\ Address(h).page = q /\ Address(h).off = live[h].off
      /\ Readable(Address(g)) /\ Readable(Address(h))
  BY DEF RInv, LiveHeaders, HeadersThere, Address, At
<1>2. /\ p \in Nat /\ q \in Nat /\ live[h].off \in Nat /\ live[g].off \in Nat
      /\ live[g].size \in Nat /\ P \in Nat
  BY <1>1, Sizes DEF IInv, TypeOK, Page, Live
<1>3. p < q
  OBVIOUS
<1>4. CASE live[g].off # 0
  <2>1. live[g].off + 24 + live[g].size <= P
    BY <1>1, <1>4 DEF RInv, HeadersThere, End
  <2>2. p * P \in Nat /\ q * P \in Nat /\ p * P + P <= q * P
    BY <1>2, Pages
  <2>3. Past(live[g]) = p * P + live[g].off + 24 + live[g].size
    BY DEF Past, First
  <2>4. First(live[h]) = q * P + live[h].off
    BY DEF First
  <2> HIDE DEF p, q, P
  <2> QED
    BY <1>2, <2>1, <2>2, <2>3, <2>4
<1>5. CASE live[g].off = 0
  <2> DEFINE n == PagesFor(live[g].size)
  <2>1. g \in Live \ Small
    BY <1>5 DEF Small
  <2>2. live[g].size + 24 <= n * P /\ n \in Nat
    <3>1. HeaderFits(live[g].size)
      BY <2>1 DEF RInv, HugeApart
    <3> QED
      BY <1>2, <3>1, PagesHold DEF HeaderFits
  <2>3. q \notin p..(p + n - 1)
    <3>1. ASSUME q \in p..(p + n - 1) PROVE FALSE
      <4>1. q \in PagesOf(live[g]) /\ Is(q, "huge")
        BY <2>1, <3>1 DEF RInv, HugeApart, PagesOf
      <4>2. Address(h).off = 0
        BY <1>1, <4>1 DEF Readable, Is
      <4>3. h \in Live \ Small /\ live[h].size \in Nat /\ live[h].size > 0
        BY <1>1, <4>2
        DEF Small, RInv, LiveHeaders, IInv, TypeOK, HeadersPositive, Live
      <4>4. PagesFor(live[h].size) \in Nat /\ PagesFor(live[h].size) # 0
        BY <4>3, PagesHold, Sizes
      <4>5. q \in PagesOf(live[h])
        <5>1. q \in q..(q + PagesFor(live[h].size) - 1)
          BY <1>2, <4>4
        <5> QED
          BY <5>1 DEF PagesOf
      <4>6. h = g
        BY <2>1, <4>1, <4>3, <4>5 DEF RInv, HugeApart
      <4> QED
        BY <1>2, <1>3, <4>6
    <3> QED
      BY <3>1
  <2>4. (p + n) * P <= q * P /\ (p + n) * P = p * P + n * P
        /\ p * P \in Nat /\ n * P \in Nat /\ q * P \in Nat
    <3> HIDE DEF p, q, P, n
    <3>1. p + n <= q
      BY <1>2, <1>3, <2>2, <2>3
    <3>2. (p + n) * P <= q * P
      <4>1. CASE p + n = q
        <5>1. q * P \in Nat
          BY <1>2
        <5> QED
          BY <4>1, <5>1
      <4>2. CASE p + n < q
        BY <1>2, <2>2, <4>2, Pages DEF P
      <4> QED
        BY <1>2, <2>2, <3>1, <4>1, <4>2
    <3>3. (p + n) * P = p * P + n * P /\ p * P \in Nat /\ n * P \in Nat /\ q * P \in Nat
      BY <1>2, <2>2
    <3> QED
      BY <3>2, <3>3
  <2>5. Past(live[g]) = p * P + 0 + 24 + live[g].size
    BY <1>5 DEF Past, First
  <2>6. First(live[h]) = q * P + live[h].off
    BY DEF First
  <2> HIDE DEF p, q, P, n
  <2> QED
    BY <1>2, <2>2, <2>4, <2>5, <2>6
<1> QED
  BY <1>4, <1>5

LEMMA DisjointState ==
  ASSUME IInv, RInv, NEW g \in Live, NEW h \in Live, g # h
  PROVE  Apart(live[g], live[h])
<1>1. live[g].page \in Nat /\ live[h].page \in Nat
  BY DEF IInv, TypeOK, Page, Live
<1>2. CASE live[g].page < live[h].page \/ live[h].page < live[g].page
  BY <1>2, PagesApart DEF Apart
<1>3. CASE live[g].page = live[h].page
  <2> DEFINE a == Address(g)
             b == Address(h)
  <2>1. /\ a \in DOMAIN blocks /\ b \in DOMAIN blocks /\ a # b /\ a.page = b.page
        /\ a.page = live[g].page /\ a.off = live[g].off /\ b.off = live[h].off
        /\ blocks[a].size = live[g].size /\ blocks[b].size = live[h].size
    BY <1>3 DEF RInv, LiveHeaders, Address, At
  <2>2. End(a) <= b.off \/ End(b) <= a.off
    <3>1. a.off # 0 /\ b.off # 0
      <4>1. a.off = 0 <=> b.off = 0
        BY <2>1 DEF RInv, HeadersThere, Readable, Is
      <4>2. a.off = 0 /\ b.off = 0 => a = b
        BY <2>1 DEF Address, At
      <4> QED
        BY <2>1, <4>1, <4>2
    <3>2. a \in Taken /\ b \in Taken
      BY <2>1, <3>1, IsTaken DEF Small
    <3> QED
      BY <2>1, <3>2 DEF RInv, Tiled
  <2>3. /\ live[g].off \in Nat /\ live[g].size \in Nat
        /\ live[h].off \in Nat /\ live[h].size \in Nat
    BY DEF IInv, TypeOK, Live
  <2>4. live[g].page * MALLOC_PAGE_SIZE \in Nat
    BY <1>1, Sizes
  <2> QED
    BY <1>3, <2>1, <2>2, <2>3, <2>4 DEF Apart, Past, First, End
<1> QED
  BY <1>1, <1>2, <1>3

(* No two blocks that the client holds share a byte (malloc, free): a      *)
(* block is carved where no header was, or taken off the list, which holds *)
(* no block in use.                                                        *)
THEOREM BlocksDisjoint ==
  ASSUME RulesKept
  PROVE  Spec => []DisjointBlocks
<1>1. IInv /\ RInv => DisjointBlocks
  BY DisjointState DEF DisjointBlocks
<1> QED
  BY <1>1, Invariant, RulesInvariant, PTL

(* Two blocks in pages of small blocks, whoever has them. *)
LEMMA SmallBefore ==
  ASSUME IInv, RInv, NEW a \in DOMAIN blocks, NEW b \in DOMAIN blocks,
         a.off # 0, a.page < b.page
  PROVE  a.page * MALLOC_PAGE_SIZE + End(a) <= b.page * MALLOC_PAGE_SIZE + b.off
<1> DEFINE p == a.page
           q == b.page
           P == MALLOC_PAGE_SIZE
<1>1. /\ p \in Nat /\ q \in Nat /\ b.off \in Nat /\ P \in Nat /\ p < q
      /\ End(a) \in Nat /\ End(a) <= P
  BY SMTT(30), Sizes DEF IInv, TypeOK, Page, RInv, HeadersThere, End, BlockHeader
<1>2. p * P \in Nat /\ q * P \in Nat /\ p * P + P <= q * P
  BY <1>1, Pages
<1> HIDE DEF p, q, P
<1>3. p * P + End(a) <= q * P + b.off
  BY <1>1, <1>2
<1> QED
  BY <1>3 DEF p, q, P

LEMMA BlockNumbers ==
  ASSUME IInv, NEW a \in DOMAIN blocks
  PROVE  /\ a.page \in Nat /\ a.off \in Nat /\ blocks[a].size \in Nat
         /\ End(a) \in Nat /\ a.page * MALLOC_PAGE_SIZE \in Nat
<1>1. a.page \in Nat /\ a.off \in Nat /\ blocks[a].size \in Nat
  BY DEF IInv, TypeOK, Page, BlockHeader
<1> QED
  BY <1>1, Sizes DEF End

LEMMA FragmentApart ==
  ASSUME IInv, RInv, pc = "idle", NEW i \in 1..Len(fragments), NEW h \in Small
  PROVE  Apart(Fragment(i), live[h])
<1> DEFINE a == fragments[i]
           b == Address(h)
           P == MALLOC_PAGE_SIZE
<1>1. /\ a \in DOMAIN blocks /\ b \in DOMAIN blocks /\ a # b
      /\ a.off # 0 /\ b.off # 0 /\ blocks[b].size = live[h].size
      /\ b.page = live[h].page /\ b.off = live[h].off
      /\ Header(a) = blocks[a]
  BY DEF RInv, ListFree, LiveHeaders, Dropping, Small, Header, Address, At
<1>2. /\ a.page \in Nat /\ b.page \in Nat /\ a.off \in Nat /\ b.off \in Nat
      /\ blocks[a].size \in Nat /\ blocks[b].size \in Nat
      /\ End(a) \in Nat /\ End(b) \in Nat
      /\ a.page * P \in Nat /\ b.page * P \in Nat
  BY <1>1, BlockNumbers
<1>3. \/ a.page * P + End(a) <= b.page * P + b.off
      \/ b.page * P + End(b) <= a.page * P + a.off
  <2>1. CASE a.page = b.page
    <3>1. End(a) <= b.off \/ End(b) <= a.off
      BY <1>1, <2>1, IsTaken DEF RInv, Tiled
    <3> QED
      BY <1>2, <2>1, <3>1
  <2>2. CASE a.page < b.page
    BY <1>1, <2>2, SmallBefore
  <2>3. CASE b.page < a.page
    BY <1>1, <2>3, SmallBefore
  <2> QED
    BY <1>2, <2>1, <2>2, <2>3
<1>4. /\ First(Fragment(i)) = a.page * P + a.off
      /\ Past(Fragment(i)) = a.page * P + a.off + 24 + blocks[a].size
      /\ First(live[h]) = b.page * P + b.off
      /\ Past(live[h]) = b.page * P + b.off + 24 + blocks[b].size
  BY <1>1 DEF First, Past, Fragment
<1>5. PICK x \in Nat, y \in Nat : x = a.page * P /\ y = b.page * P
  BY <1>2
<1>6. PICK u \in Nat, m \in Nat : u = a.off /\ m = blocks[a].size
  BY <1>2
<1>7. PICK v \in Nat, n \in Nat : v = b.off /\ n = blocks[b].size
  BY <1>2
<1>8. End(a) = u + 24 + m /\ End(b) = v + 24 + n
  BY <1>6, <1>7 DEF End
<1>9. /\ First(Fragment(i)) = x + u /\ Past(Fragment(i)) = x + u + 24 + m
      /\ First(live[h]) = y + v /\ Past(live[h]) = y + v + 24 + n
  BY <1>4, <1>5, <1>6, <1>7
<1>10. x + (u + 24 + m) <= y + v \/ y + (v + 24 + n) <= x + u
  BY <1>3, <1>5, <1>6, <1>7, <1>8
<1>11. x + u + 24 + m <= y + v \/ y + v + 24 + n <= x + u
  BY <1>10
<1> QED
  BY <1>9, <1>11 DEF Apart

(* Between calls, what the list of fragments holds is free and apart from  *)
(* every block in use (insert_fragment, remove_fragment): free lists a     *)
(* block once, and malloc takes it off before it hands it out.             *)
THEOREM ListApart ==
  ASSUME RulesKept
  PROVE  Spec => []ListedAreFree
<1>1. IInv /\ RInv => ListedAreFree
  <2> SUFFICES ASSUME IInv, RInv, pc = "idle", NEW i \in 1..Len(fragments)
               PROVE  /\ Header(fragments[i]).type = "FREE"
                      /\ \A h \in Small : Apart(Fragment(i), live[h])
    BY DEF ListedAreFree
  <2> QED
    BY FragmentApart DEF RInv, ListFree, Header
<1> QED
  BY <1>1, Invariant, RulesInvariant, PTL

LEMMA BackedState ==
  ASSUME IInv, RInv, NEW h \in Live \ Small,
         NEW q \in live[h].page..((Past(live[h]) - 1) \div MALLOC_PAGE_SIZE)
  PROVE  Is(q, "huge")
<1> DEFINE p == live[h].page
           n == PagesFor(live[h].size)
           P == MALLOC_PAGE_SIZE
           v == Past(live[h]) - 1
           d == v \div P
<1>1. /\ live[h].off = 0 /\ live[h].size \in Nat /\ p \in Nat /\ P \in Nat /\ P > 0
      /\ n \in Nat
  <2>1. live[h].off = 0 /\ live[h].size \in Nat /\ live[h].page \in Nat
    BY DEF IInv, TypeOK, Small, Live, Page
  <2> QED
    BY <2>1, Sizes, PagesHold
<1>2. live[h].size + 24 <= n * P
  <2>1. HeaderFits(live[h].size)
    BY DEF RInv, HugeApart
  <2> QED
    BY <1>1, <2>1, PagesHold DEF HeaderFits
<1>3. v = p * P + 24 + live[h].size - 1
  BY <1>1 DEF Past, First
<1>4. p * P \in Nat /\ n * P \in Nat /\ (p + n) * P = p * P + n * P
  <2> HIDE DEF p, n, P
  <2> QED
    BY <1>1
<1>5. v \in Nat /\ v < (p + n) * P
  <2> HIDE DEF p, n, P, v
  <2> QED
    BY <1>1, <1>2, <1>3, <1>4
<1>6. d \in Nat /\ v % P \in 0..(P - 1) /\ v = P * d + (v % P)
  <2> HIDE DEF P, v
  <2> QED
    BY <1>1, <1>5
<1>7. d < p + n
  <2> HIDE DEF p, n, P, v, d
  <2>1. ASSUME p + n <= d PROVE FALSE
    <3>1. (p + n) * P <= d * P
      <4>1. CASE p + n = d
        <5>1. d * P \in Nat
          BY <1>1, <1>6
        <5> QED
          BY <4>1, <5>1
      <4>2. CASE p + n < d
        BY <1>1, <1>6, <4>2, Pages DEF P
      <4> QED
        BY <1>1, <1>6, <2>1, <4>1, <4>2
    <3>2. d * P = P * d /\ d * P \in Nat
      BY <1>1, <1>6
    <3> QED
      BY <1>1, <1>4, <1>5, <1>6, <3>1, <3>2
  <2> QED
    BY <1>1, <1>6, <2>1
<1>8. q \in PagesOf(live[h])
  <2>1. q \in p..d
    OBVIOUS
  <2>2. q \in p..(p + n - 1)
    <3> HIDE DEF p, n, d
    <3> QED
      BY <1>1, <1>6, <1>7, <2>1
  <2> QED
    BY <2>2 DEF PagesOf
<1> QED
  BY <1>8 DEF RInv, HugeApart

(* A huge block has the pages that its header and data lie in from malloc  *)
(* to free (large_bro, large_free_bro), whatever is freed meanwhile.       *)
THEOREM HugeBlocksBacked ==
  ASSUME RulesKept
  PROVE  Spec => []HugeBacked
<1>1. IInv /\ RInv => HugeBacked
  BY BackedState DEF HugeBacked
<1> QED
  BY <1>1, Invariant, RulesInvariant, PTL

(***************************************************************************)
(* Old data.                                                               *)
(***************************************************************************)

(* Behind the current block nothing was ever written. *)
LEMMA NothingBehind ==
  ASSUME IInv, RInv, NoOldData, first_page_ptr # nullptr
  PROVE  /\ Header(NextAddress).type = "FREE"
         /\ \A a \in DOMAIN blocks :
              a.page = current_page => a = NextAddress \/ End(a) <= NextBlock
         /\ current_page_free_bytes <= RoomLeft \/ pc \in Crashes \/ Carved
<1>1. /\ NextBlock \in Nat /\ NextBlock >= current_block /\ current_block \in Nat
      /\ CurrentBlock.page = current_page /\ CurrentBlock.off = current_block
      /\ NextAddress.page = current_page /\ NextAddress.off = NextBlock
  BY NextBlockBounds DEF IInv, TypeOK, AfterFirstPage, NextAddress, At
<1>2. current_page_free_bytes <= RoomLeft \/ pc \in Crashes \/ Carved
  <2>1. Header(CurrentBlock).type # "STALE"
    BY DEF NoOldData, Header, ZeroHeader
  <2> QED
    BY <2>1 DEF IInv, CounterBound
<1>3. CASE Header(CurrentBlock).type = "FREE"
  <2>1. NextAddress = CurrentBlock /\ NextBlock = current_block
    BY <1>3 DEF NextAddress, CurrentBlock, NextBlock
  <2> QED
    BY <1>2, <1>3, <2>1 DEF NoOldData
<1>4. CASE Header(CurrentBlock).type # "FREE"
  <2>1. CurrentBlock \in DOMAIN blocks /\ Header(CurrentBlock) = blocks[CurrentBlock]
    BY <1>4 DEF Header, ZeroHeader
  <2>2. NextBlock = End(CurrentBlock) /\ NextBlock > current_block
    BY <1>1, <1>4, <2>1, NextBlockBounds DEF NextBlock, End, IInv
  <2>3. ASSUME NEW a \in DOMAIN blocks, a.page = current_page
        PROVE  End(a) <= NextBlock /\ End(a) > a.off /\ End(a) \in Nat
    <3>1. End(a) > a.off /\ End(a) \in Nat
      BY DEF End, IInv, TypeOK, BlockHeader
    <3> QED
      BY <1>1, <2>2, <2>3, <3>1 DEF NoOldData
  <2>4. NextAddress \notin DOMAIN blocks
    BY <1>1, <2>3
  <2> QED
    BY <1>2, <2>3, <2>4 DEF Header, ZeroHeader
<1> QED
  BY <1>3, <1>4

(* Headers may go, but not that of the current block. *)
LEMMA NoOldDataKept ==
  ASSUME NoOldData, UNCHANGED <<current_page, current_block, touched>>,
         DOMAIN blocks' \subseteq DOMAIN blocks,
         \A a \in DOMAIN blocks' : blocks'[a] = blocks[a],
         CurrentBlock \in DOMAIN blocks => CurrentBlock \in DOMAIN blocks',
         pc' = "fix_block_header" => BlockEnd' <= MALLOC_PAGE_SIZE,
         pc' \in {"fix_block_header", "insert_fragment"} => block' # CurrentBlock
  PROVE  NoOldData'
<1>1. CurrentBlock' = CurrentBlock
  BY DEF CurrentBlock
<1>2. Header(CurrentBlock)' = Header(CurrentBlock)
  BY <1>1 DEF Header
<1>3. NextBlock' = NextBlock
  BY <1>2 DEF NextBlock
<1> QED
  BY <1>1, <1>3 DEF NoOldData, End

LEMMA OldOpenPage ==
  ASSUME IInv, RInv, NoOldData, OpenPage
  PROVE  NoOldData'
<1>1. pc = "open_page" /\ first_page_ptr # nullptr
  BY DEF OpenPage, IInv, BeforeFirstPage, SmallCall
<1>2. ASSUME NEW how \in Crashes, Crash(how) PROVE NoOldData'
  <2>1. UNCHANGED <<blocks, arena>> /\ pc' \in Crashes
    BY <1>2 DEF Crash, memory
  <2> QED
    BY <2>1, NoOldDataKept DEF Crashes, arena
<1>3. ASSUME NEW t, t = "STALE" => NextBlock < touched, t \in {"FREE", "STALE"},
             blocks' = WithHeader(NextAddress,
                         [type |-> t, page |-> nullptr,
                          size |-> MALLOC_PAGE_SIZE - NextBlock - BHEADERSIZE]),
             current_block' = NextBlock, block' = NextAddress,
             pc' = "insert_fragment", UNCHANGED <<current_page, touched>>
      PROVE  NoOldData'
  <2>1. t = "FREE" /\ touched <= NextBlock
    <3>1. touched <= NextBlock /\ NextBlock \in Nat /\ touched \in Nat
      BY <1>1, NextFree DEF NoOldData, IInv, TypeOK
    <3> QED
      BY <1>3, <3>1
  <2>2. /\ DOMAIN blocks' = DOMAIN blocks \cup {NextAddress}
        /\ blocks'[NextAddress].type = "FREE"
        /\ \A b \in DOMAIN blocks : b # NextAddress => blocks'[b] = blocks[b]
    BY <1>3, <2>1 DEF WithHeader
  <2>3. CurrentBlock' = NextAddress
    BY <1>3 DEF CurrentBlock, NextAddress
  <2>4. Header(CurrentBlock)'.type = "FREE"
    BY <2>2, <2>3 DEF Header
  <2>5. NextBlock' = NextBlock
    BY <1>3, <2>4 DEF NextBlock
  <2>6. \A a \in DOMAIN blocks :
          a.page = current_page => a = NextAddress \/ End(a) <= NextBlock
    BY <1>1, NothingBehind
  <2>7. ASSUME NEW a \in DOMAIN blocks'
        PROVE  /\ blocks'[a].type # "STALE"
               /\ a.page = current_page =>
                    a = CurrentBlock' \/ End(a)' <= current_block'
    <3>1. CASE a = NextAddress
      BY <2>2, <2>3, <3>1
    <3>2. CASE a # NextAddress
      BY <1>3, <2>2, <2>6, <3>2 DEF End, NoOldData
    <3> QED
      BY <3>1, <3>2
  <2> QED
    BY <1>3, <2>1, <2>3, <2>4, <2>5, <2>7 DEF NoOldData
<1>4. Fault(current_page) \in Crashes /\ WritePast(NextAddress) \in Crashes
  BY DEF Fault, WritePast, Crashes
<1>5. CASE \E t \in IF NextBlock # current_block /\ NextBlock < touched
                        THEN {"FREE", "STALE"} ELSE {"FREE"} :
             /\ blocks' = WithHeader(NextAddress,
                            [type |-> t, page |-> nullptr,
                             size |-> MALLOC_PAGE_SIZE - NextBlock - BHEADERSIZE])
             /\ current_block' = NextBlock /\ block' = NextAddress
             /\ pc' = "insert_fragment" /\ UNCHANGED <<current_page, touched>>
  BY <1>3, <1>5
<1> QED
  BY <1>2, <1>4, <1>5 DEF OpenPage, NextAddress

LEMMA OldFixBlockHeader ==
  ASSUME IInv, RInv, NoOldData, FixBlockHeader
  PROVE  NoOldData'
<1>1. /\ pc = "fix_block_header" /\ first_page_ptr # nullptr
      /\ req \in Nat /\ block.off \in Nat /\ current_block \in Nat /\ touched \in Nat
      /\ BlockEnd <= MALLOC_PAGE_SIZE /\ touched <= NextBlock
      /\ block = CurrentBlock => Header(block).type = "FREE"
      /\ block # CurrentBlock =>
           block \in DOMAIN blocks /\ req <= blocks[block].size
      /\ \A a \in DOMAIN blocks : blocks[a] \in BlockHeader
  BY DEF FixBlockHeader, IInv, TypeOK, Address0, BeforeFirstPage, SmallCall, RInv,
         MallocCalled, NoOldData
<1>2. ASSUME NEW how \in Crashes, Crash(how) PROVE NoOldData'
  <2>1. UNCHANGED <<blocks, arena>> /\ pc' \in Crashes
    BY <1>2 DEF Crash, memory
  <2> QED
    BY <2>1, NoOldDataKept DEF Crashes, arena
<1>3. ASSUME blocks' = WithHeader(block,
               [type |-> "USED", size |-> req, page |-> current_page]),
             touched' = IF block.page = current_page /\ BlockEnd > touched
                          THEN BlockEnd ELSE touched,
             pc' = "idle", UNCHANGED <<current_page, current_block>>
      PROVE  NoOldData'
  <2>1. /\ DOMAIN blocks' = DOMAIN blocks \cup {block}
        /\ blocks'[block].type = "USED" /\ blocks'[block].size = req
        /\ \A a \in DOMAIN blocks : a # block => blocks'[a] = blocks[a]
    BY <1>3 DEF WithHeader
  <2>2. CurrentBlock' = CurrentBlock /\ CurrentBlock.page = current_page
        /\ CurrentBlock.off = current_block
    BY <1>3 DEF CurrentBlock, At
  <2>3. ASSUME NEW a \in DOMAIN blocks', a # block
        PROVE  /\ blocks'[a].type # "STALE"
               /\ a.page = current_page =>
                    a = CurrentBlock \/ End(a)' <= current_block
    BY <2>1, <2>3 DEF NoOldData, End
  <2>4. CASE block = CurrentBlock
    <3>1. touched <= current_block
      BY <1>1, <2>4 DEF NextBlock
    <3>2. NextBlock' = current_block + req + 24
      BY <1>3, <2>1, <2>2, <2>4 DEF NextBlock, Header
    <3>3. touched' <= NextBlock'
      BY <1>1, <1>3, <2>2, <2>4, <3>1, <3>2 DEF BlockEnd
    <3>4. blocks'[block].type # "STALE"
      BY <2>1
    <3> QED
      BY <1>3, <2>2, <2>3, <2>4, <3>3, <3>4 DEF NoOldData
  <2>5. CASE block # CurrentBlock
    <3>1. block \in DOMAIN blocks /\ BlockEnd <= End(block) /\ BlockEnd \in Nat
          /\ End(block) \in Nat
      BY <1>1, <2>5 DEF BlockEnd, End, BlockHeader
    <3>2. block.page = current_page => BlockEnd <= current_block
      BY <1>1, <2>5, <3>1 DEF NoOldData
    <3>3. NextBlock' = NextBlock /\ current_block <= NextBlock /\ NextBlock \in Int
      <4>1. Header(CurrentBlock)' = Header(CurrentBlock)
        BY <2>1, <2>2, <2>5 DEF Header
      <4>2. NextBlock \in Int /\ NextBlock >= current_block
        BY NextBlockBounds DEF IInv
      <4> QED
        BY <1>3, <4>1, <4>2 DEF NextBlock
    <3>4. touched' <= NextBlock'
      BY <1>1, <1>3, <3>1, <3>2, <3>3
    <3>5. \A a : a = block => End(a)' = BlockEnd
      BY <2>1 DEF End, BlockEnd
    <3>6. blocks'[block].type # "STALE"
      BY <2>1
    <3> QED
      BY <1>3, <2>2, <2>3, <3>2, <3>4, <3>5, <3>6 DEF NoOldData
  <2> QED
    BY <2>4, <2>5
<1>4. Fault(current_page) \in Crashes /\ WritePast(block) \in Crashes
  BY DEF Fault, WritePast, Crashes
<1> QED
  BY <1>2, <1>3, <1>4 DEF FixBlockHeader, Return

LEMMA OldInserted ==
  ASSUME IInv, RInv, NoOldData, pc = "insert_fragment",
         blocks' = WithHeader(block, [Header(block) EXCEPT !.type = "FREE"]),
         UNCHANGED arena, pc' \in {"link_page", "drop_usage"}
  PROVE  NoOldData'
<1>1. block \in DOMAIN blocks /\ (block = CurrentBlock => blocks[block].type = "FREE")
  BY RInserting DEF NoOldData
<1>2. /\ DOMAIN blocks' = DOMAIN blocks
      /\ \A a \in DOMAIN blocks : /\ blocks'[a].size = blocks[a].size
                                  /\ a # block => blocks'[a] = blocks[a]
      /\ blocks'[block].type = "FREE"
  BY <1>1, FreedHeader DEF IInv
<1>3. CurrentBlock' = CurrentBlock
  BY DEF CurrentBlock, arena
<1>4. NextBlock' = NextBlock
  <2>1. CASE block = CurrentBlock
    BY <1>1, <1>2, <1>3, <2>1 DEF NextBlock, Header, arena
  <2>2. CASE block # CurrentBlock
    BY <1>1, <1>2, <1>3, <2>2 DEF NextBlock, Header, arena
  <2> QED
    BY <2>1, <2>2
<1>5. \A a \in DOMAIN blocks : blocks'[a].type # "STALE" /\ End(a)' = End(a)
  BY <1>2 DEF NoOldData, End
<1> QED
  BY <1>2, <1>3, <1>4, <1>5 DEF NoOldData, arena

LEMMA OldDataStep ==
  ASSUME IInv, RInv, RInv', RulesKept, NoOldData, [Next]_vars
  PROVE  NoOldData'
<1>1. ASSUME UNCHANGED <<blocks, arena>>, pc' # "fix_block_header",
             pc' = "insert_fragment" => block' # CurrentBlock
      PROVE  NoOldData'
  BY <1>1, NoOldDataKept DEF arena
<1>2. ASSUME NEW how \in Crashes, Crash(how) PROVE NoOldData'
  BY <1>1, <1>2 DEF Crash, memory, Crashes
<1>3. ASSUME NEW p \in Page, \A a \in DOMAIN blocks : a.page # p,
             blocks' = blocks, current_page' = p, current_block' = PHEADERSIZE,
             touched' = PHEADERSIZE, pc' # "insert_fragment",
             pc' = "fix_block_header" =>
               block' = At(p, PHEADERSIZE) /\ BlockEnd' <= MALLOC_PAGE_SIZE
      PROVE  NoOldData'
  <2>1. CurrentBlock' = At(p, PHEADERSIZE) /\ At(p, PHEADERSIZE).page = p
    BY <1>3 DEF CurrentBlock, At
  <2>2. Header(At(p, PHEADERSIZE))' = ZeroHeader
    BY <1>3, <2>1 DEF Header
  <2>3. NextBlock' = PHEADERSIZE
    BY <1>3, <2>1, <2>2 DEF NextBlock, ZeroHeader
  <2>4. pc' = "fix_block_header" => Header(block)'.type = "FREE"
    BY <1>3, <2>2 DEF Header, ZeroHeader
  <2> QED
    BY <1>3, <2>3, <2>4 DEF NoOldData
<1>4. CASE UNCHANGED vars
  <2>1. CurrentBlock' = CurrentBlock /\ NextBlock' = NextBlock
        /\ BlockEnd' = BlockEnd
    BY <1>4 DEF CurrentBlock, NextBlock, BlockEnd, Header, vars, arena, call, memory
  <2> QED
    BY <1>4, <2>1 DEF NoOldData, vars, arena, call, memory, End, Header
<1>5. CASE \E h \in Handles, n \in Requests : MallocCall(h, n)
  BY <1>1, <1>5 DEF MallocCall, Return, memory
<1>6. CASE \E h \in Handles : FreeCall(h)
  <2>1. \A p : Fault(p) \in Crashes
    BY DEF Fault, Crashes
  <2> QED
    BY <1>1, <1>2, <1>6, <2>1 DEF FreeCall, RulesKept, RuleNames, memory
<1>7. CASE FirstSetup
  <2>1. ASSUME NEW p \in Page, CanMap(p, 1), mapped' = MapAs(p, 1, "norm"),
               blocks' = blocks, current_page' = p, current_block' = PHEADERSIZE,
               touched' = PHEADERSIZE, pc' = "find_available_fragment"
        PROVE  NoOldData'
    <3>1. \A a \in DOMAIN blocks : a.page # p
      BY <2>1, FreshPage DEF IInv, RInv, HeadersThere, Readable, Is
    <3> QED
      BY <1>3, <2>1, <3>1
  <2> QED
    BY <1>1, <1>7, <2>1 DEF FirstSetup, Return, memory
<1>8. CASE FindAvailableFragment
  <2>1. ASSUME NEW i \in 1..Len(fragments), BigEnough(i), block' = fragments[i],
               RemoveFragment(i), pc' = "fix_block_header", req' = req,
               UNCHANGED arena, pc = "find_available_fragment"
        PROVE  NoOldData'
    <3>1. /\ Len(fragments) = 1 /\ first_fragment_list_header \in Page
          /\ fragments[i] \in DOMAIN blocks /\ fragments[i] # CurrentBlock
      BY <2>1 DEF IInv, ListHasOne, RInv, ListFree
    <3>2. Unmap(first_fragment_list_header)
      BY <2>1, <3>1 DEF RemoveFragment
    <3>3. BlocksKept
      BY <3>1, <3>2, FragmentPageGone
    <3>4. BlockEnd' <= MALLOC_PAGE_SIZE
      <4>1. req <= blocks[fragments[i]].size /\ blocks[fragments[i]].size \in Nat
            /\ fragments[i].off \in Nat /\ req \in Nat
        BY <2>1, <3>1 DEF BigEnough, Header, IInv, TypeOK, BlockHeader
      <4>2. End(fragments[i]) <= MALLOC_PAGE_SIZE
        BY <2>1, <3>1 DEF RInv, HeadersThere, ListFree
      <4>3. BlockEnd' = fragments[i].off + BHEADERSIZE + req
        BY <2>1 DEF BlockEnd
      <4>4. fragments[i].off + BHEADERSIZE + blocks[fragments[i]].size
              <= MALLOC_PAGE_SIZE
        BY <4>2 DEF End
      <4> HIDE DEF BlockEnd
      <4> QED
        BY <4>1, <4>3, <4>4, Sizes
    <3> QED
      BY <2>1, <3>1, <3>3, <3>4, NoOldDataKept DEF BlocksKept, arena
  <2>2. \A p : Fault(p) \in Crashes
    BY DEF Fault, Crashes
  <2> QED
    BY <1>1, <1>2, <1>8, <2>1, <2>2 DEF FindAvailableFragment, memory
<1>9. CASE NoGoodFragments
  <2>1. /\ pc = "no_good_fragments" /\ first_page_ptr # nullptr
        /\ current_page_free_bytes >= BHEADERSIZE /\ current_page_free_bytes \in Int
        /\ req \in Nat
    BY <1>9 DEF NoGoodFragments, RInv, MallocCalled, IInv, TypeOK, BeforeFirstPage,
                SmallCall
  <2>2. ASSUME BlockAvailable, current_block' = NextBlock, block' = NextAddress,
               pc' = "fix_block_header",
               UNCHANGED <<blocks, current_page, touched, req>>
        PROVE  NoOldData'
    <3>1. /\ Header(NextAddress).type = "FREE"
          /\ \A a \in DOMAIN blocks :
               a.page = current_page => a = NextAddress \/ End(a) <= NextBlock
          /\ current_page_free_bytes <= MALLOC_PAGE_SIZE - NextBlock - BHEADERSIZE
      BY <2>1, NothingBehind DEF RoomLeft, Crashes, Carved
    <3>2. CurrentBlock' = NextAddress
      BY <2>2 DEF CurrentBlock, NextAddress
    <3>3. Header(NextAddress)'.type = "FREE" /\ NextBlock' = NextBlock
      BY <2>2, <3>1, <3>2 DEF NextBlock, Header, NextAddress
    <3>4. req <= current_page_free_bytes - BHEADERSIZE
      BY <2>1, <2>2 DEF BlockAvailable, AsU64
    <3>5. BlockEnd' <= MALLOC_PAGE_SIZE
      BY SMTT(30), <2>1, <2>2, <3>1, <3>4, NextFree, Sizes DEF BlockEnd
    <3>6. Header(block)'.type = "FREE"
      BY <2>2, <3>1 DEF Header
    <3> QED
      BY <2>2, <3>1, <3>2, <3>3, <3>5, <3>6 DEF NoOldData, End
  <2>3. Fault(current_page) \in Crashes
    BY DEF Fault, Crashes
  <2> QED
    BY <1>1, <1>2, <1>9, <2>2, <2>3 DEF NoGoodFragments, NextAddress, Return, memory
<1>10. CASE OpenPage
  BY <1>10, OldOpenPage
<1>11. CASE UndoOpenPage
  <2>1. \A a \in DOMAIN blocks : a.page # next_page_ptr
    BY <1>11 DEF UndoOpenPage, RInv, NextPageFresh, OpeningPage
  <2>2. DOMAIN blocks' = DOMAIN blocks /\ \A a \in DOMAIN blocks : blocks'[a] = blocks[a]
    BY <1>11, <2>1 DEF UndoOpenPage, Unmap, WithoutPage
  <2> QED
    BY <1>11, <2>2, NoOldDataKept DEF UndoOpenPage, Return, arena
<1>12. CASE LinkPage
  <2>1. /\ pc = "link_page" /\ Is(next_page_ptr, "norm") /\ req \in Nat
        /\ req <= FreshBytes /\ \A a \in DOMAIN blocks : a.page # next_page_ptr
    BY <1>12 DEF LinkPage, RInv, NextPageFresh, OpeningPage, MallocCalled, IInv, TypeOK
  <2>2. block' = At(next_page_ptr, PHEADERSIZE) /\ BlockEnd' <= MALLOC_PAGE_SIZE
    BY <1>12, <2>1, Sizes DEF LinkPage, BlockEnd, At
  <2> QED
    BY <1>3, <1>12, <2>1, <2>2 DEF LinkPage, Is
<1>13. CASE FixBlockHeader
  BY <1>13, OldFixBlockHeader
<1>14. CASE LargeBro
  <2>1. ASSUME NEW p \in Page, CanMap(p, PagesFor(req)),
               blocks' = WithHeader(At(p, 0),
                           [type |-> "HUGE", size |-> req, page |-> p]),
               pc' = "idle", UNCHANGED arena, pc = "large_bro"
        PROVE  NoOldData'
    <3>1. mapped[p] = "none"
      <4>1. PagesFor(req) \in Nat /\ PagesFor(req) # 0
        <5>1. req \in Nat /\ req > 0
          BY <2>1 DEF IInv, TypeOK, CallOK
        <5> QED
          BY <5>1, PagesHold, Sizes
      <4> QED
        BY <2>1, <4>1, Sizes DEF CanMap
    <3>2. At(p, 0).page = p /\ current_page # p
      BY <3>1 DEF At, RInv, PagesThere, Is, IInv, BeforeFirstPage, Page
    <3>3. CurrentBlock' = CurrentBlock /\ CurrentBlock # At(p, 0)
      BY <2>1, <3>2 DEF CurrentBlock, At, arena
    <3>4. /\ DOMAIN blocks' = DOMAIN blocks \cup {At(p, 0)}
          /\ blocks'[At(p, 0)].type = "HUGE"
          /\ \A a \in DOMAIN blocks : a # At(p, 0) => blocks'[a] = blocks[a]
      BY <2>1 DEF WithHeader
    <3>5. NextBlock' = NextBlock
      BY <2>1, <3>3, <3>4 DEF NextBlock, Header, arena
    <3> QED
      BY <2>1, <3>2, <3>3, <3>4, <3>5 DEF NoOldData, End, arena
  <2> QED
    BY <1>1, <1>14, <2>1 DEF LargeBro, Return, memory
<1>15. CASE LargeFreeBro
  <2>1. Is(block.page, "huge") /\ (first_page_ptr # nullptr => block.page # current_page)
    BY <1>15 DEF LargeFreeBro, RInv, FreeCalled, LiveHeaders, HeadersThere, Readable,
                 PagesThere, Is
  <2>2. /\ DOMAIN blocks' = {a \in DOMAIN blocks : a.page # block.page}
        /\ \A a \in DOMAIN blocks' : blocks'[a] = blocks[a]
    BY <1>15 DEF LargeFreeBro, Unmap, WithoutPage
  <2>3. CurrentBlock.page # block.page
    BY <2>1 DEF CurrentBlock, At, IInv, BeforeFirstPage, Is, Page
  <2> QED
    BY <1>15, <2>2, <2>3, NoOldDataKept DEF LargeFreeBro, Return, arena
<1>16. CASE DropUsage
  <2>1. Is(Header(block).page, "norm") /\ page_hdr[Header(block).page].usages # 1
    BY <1>16 DEF DropUsage, RInv, FreeCalled, FreeingSmall, LiveHeaders, Header
  <2> QED
    BY <1>1, <1>16, <2>1 DEF DropUsage, Emptied, Return
<1>17. CASE InsertFragment
  <2>1. pc = "insert_fragment" /\ Header(block).size # 0
    BY <1>17, RInserting DEF InsertFragment
  <2>2. Inserted => pc' \in {"link_page", "drop_usage"}
    BY DEF Inserted
  <2>3. "wild" \in Crashes /\ \A p : Fault(p) \in Crashes
    BY DEF Fault, Crashes
  <2>4. ASSUME blocks' = WithHeader(block, [Header(block) EXCEPT !.type = "FREE"]),
               UNCHANGED arena, Inserted
        PROVE  NoOldData'
    BY <2>1, <2>2, <2>4, OldInserted
  <2>5. ASSUME UNCHANGED <<blocks, arena>>, pc' \in {"idle", "undo_open_page"}
        PROVE  NoOldData'
    BY <1>1, <2>5
  <2> QED
    BY <1>2, <1>17, <2>1, <2>3, <2>4, <2>5 DEF InsertFragment, Return, memory
<1>18. CASE ClientWrites
  BY <1>2, <1>18 DEF ClientWrites, Crashes
<1> QED
  BY <1>4, <1>5, <1>6, <1>7, <1>8, <1>9, <1>10, <1>11, <1>12, <1>13, <1>14, <1>15,
     <1>16, <1>17, <1>18
  DEF Next, Step

(* A process that shares its memory with no other finds no old data: its   *)
(* free-byte counter never promises room that it has not (MOVE_TO_NEXT_-   *)
(* BLOCK_PTR reads the type of a header that was never written as FREE).   *)
LEMMA OldDataNowhere ==
  ASSUME RulesKept
  PROVE  Spec => []NoOldData
<1>1. Init => NoOldData
  BY DEF Init, NoOldData, NextBlock, Header, CurrentBlock, ZeroHeader, At
<1>2. IInv /\ RInv /\ RInv' /\ NoOldData /\ [Next]_vars => NoOldData'
  BY OldDataStep
<1> QED
  BY <1>1, <1>2, Invariant, RulesInvariant, PTL DEF Spec

(* The fragment list never holds two blocks: of what is freed, all but the *)
(* last is lost (insert_fragment).                                         *)
THEOREM ListOfOne ==
  ASSUME RulesKept
  PROVE  Spec => []SingleFragment
<1>1. IInv => SingleFragment
  BY DEF IInv, ListHasOne, SingleFragment
<1> QED
  BY <1>1, Invariant, PTL

(* current_page_free_bytes never promises more than the page has, although *)
(* fragments of other pages are charged to it (fix_block_header).          *)
THEOREM CounterSound ==
  ASSUME RulesKept
  PROVE  Spec => []FreeBytesSound
<1>1. IInv /\ RInv /\ NoOldData => FreeBytesSound
  <2> SUFFICES ASSUME IInv, RInv, NoOldData, current_page # nullptr,
                      pc \in {"idle", "no_good_fragments", "open_page"}
               PROVE  current_page_free_bytes <= RoomLeft
    BY DEF FreeBytesSound
  <2>1. first_page_ptr # nullptr
    BY DEF IInv, BeforeFirstPage
  <2> QED
    BY <2>1, NothingBehind DEF Carved, Crashes
<1> QED
  BY <1>1, Invariant, RulesInvariant, OldDataNowhere, PTL

(* Every block in use lies on its page with its header, behind the head of *)
(* the page.                                                               *)
THEOREM InsidePages ==
  ASSUME RulesKept
  PROVE  Spec => []BlocksInPage
<1>1. IInv /\ RInv => BlocksInPage
  <2> SUFFICES ASSUME IInv, RInv, NEW h \in Small
               PROVE  /\ live[h].off >= PHEADERSIZE
                      /\ live[h].off + BHEADERSIZE + live[h].size
                           <= MALLOC_PAGE_SIZE
    BY DEF BlocksInPage
  <2>1. /\ Address(h) \in DOMAIN blocks /\ blocks[Address(h)].size = live[h].size
        /\ Address(h).off = live[h].off /\ live[h].off # 0
    BY DEF RInv, LiveHeaders, Address, At, Small
  <2> QED
    BY <2>1 DEF IInv, LiveOffsets, RInv, HeadersThere, End, Small, Live
<1> QED
  BY <1>1, Invariant, RulesInvariant, PTL

(***************************************************************************)
(* Nothing of the allocator is overwritten.                                *)
(***************************************************************************)

(* A step keeps the current block's header on its page. *)
LEMMA FitsStep ==
  ASSUME IInv, CurrentFits, [Next]_vars
  PROVE  CurrentFits'
<1>1. ASSUME UNCHANGED <<first_page_ptr, current_block>>, pc # "fix_block_header",
             pc \notin Crashes
      PROVE  CurrentFits'
  BY <1>1 DEF CurrentFits, Carved
<1>2. ASSUME NEW how \in Crashes, Crash(how)
      PROVE  CurrentFits'
  BY <1>2 DEF CurrentFits, Crash
<1>3. CASE UNCHANGED vars
  <2>1. CurrentBlock' = CurrentBlock
    BY <1>3 DEF CurrentBlock, vars, arena
  <2> QED
    BY <1>3, <2>1 DEF CurrentFits, Carved, vars, arena, call
<1>4. ASSUME current_block' = PHEADERSIZE
      PROVE  CurrentFits'
  BY <1>4, Sizes DEF CurrentFits
<1>5. CASE \/ \E h \in Handles, n \in Requests : MallocCall(h, n)
           \/ \E h \in Handles : FreeCall(h)
  BY <1>1, <1>5 DEF MallocCall, FreeCall, Crash, arena, Crashes
<1>6. CASE FirstSetup
  BY <1>1, <1>4, <1>6 DEF FirstSetup, arena, Crashes
<1>7. CASE FindAvailableFragment \/ UndoOpenPage \/ LargeBro \/ LargeFreeBro
             \/ DropUsage \/ InsertFragment \/ ClientWrites
  BY <1>1, <1>7
  DEF FindAvailableFragment, UndoOpenPage, LargeBro, LargeFreeBro, DropUsage,
      InsertFragment, ClientWrites, Crash, arena, Crashes
<1>8. CASE NoGoodFragments
  <2>1. ASSUME current_block' = NextBlock, block' = At(current_page, NextBlock),
               pc' = "fix_block_header", current_page' = current_page
        PROVE  CurrentFits'
    BY <2>1 DEF CurrentFits, Carved, CurrentBlock
  <2> QED
    BY <1>1, <1>8, <2>1 DEF NoGoodFragments, Crash, arena, Crashes
<1>9. CASE OpenPage
  <2>1. ASSUME current_block' = NextBlock, ~PastEnd(At(current_page, NextBlock)),
               pc = "open_page"
        PROVE  CurrentFits'
    <3>1. NextBlock \in Nat
      BY <2>1, NextBlockBounds DEF IInv
    <3> QED
      BY <2>1, <3>1, Sizes DEF CurrentFits, PastEnd, At
  <2> QED
    BY <1>1, <1>9, <2>1 DEF OpenPage, Crash, arena, Crashes
<1>10. CASE LinkPage
  BY <1>4, <1>10 DEF LinkPage
<1>11. CASE FixBlockHeader
  <2>1. Fault(current_page) \in Crashes /\ WritePast(block) \in Crashes
    BY DEF Fault, WritePast, Crashes
  <2>2. ASSUME ~PastEnd(block), UNCHANGED <<first_page_ptr, current_block>>,
               pc = "fix_block_header"
        PROVE  CurrentFits'
    <3>1. block = CurrentBlock => current_block + BHEADERSIZE <= MALLOC_PAGE_SIZE
      BY <2>2, Sizes DEF CurrentBlock, PastEnd, At, IInv, TypeOK
    <3> QED
      BY <2>2, <3>1 DEF CurrentFits, Carved, Crashes
  <2> QED
    BY <1>2, <1>11, <2>1, <2>2 DEF FixBlockHeader
<1> QED
  BY <1>3, <1>5, <1>6, <1>7, <1>8, <1>9, <1>10, <1>11 DEF Next, Step

(* What a block in use reaches of a page is its own. *)
LEMMA ReachedOwn ==
  ASSUME IInv, RInv, NEW h \in Live, NEW q \in Page, live[h].page <= q,
         q * MALLOC_PAGE_SIZE < Past(live[h])
  PROVE  \/ Is(q, "huge")
         \/ Is(q, "norm") /\ live[h].off # 0 /\ q = live[h].page
<1> DEFINE p == live[h].page
           P == MALLOC_PAGE_SIZE
           v == Past(live[h])
<1>1. /\ p \in Nat /\ q \in Nat /\ P \in Nat /\ P > 0 /\ p <= q
      /\ live[h].off \in Nat /\ live[h].size \in Nat
      /\ p * P \in Nat /\ q * P \in Nat
  <2>1. /\ p \in Nat /\ q \in Nat /\ live[h].off \in Nat /\ live[h].size \in Nat
    BY DEF IInv, TypeOK, Page, Live
  <2>2. P \in Nat /\ P > 0 /\ p <= q
    BY Sizes
  <2> HIDE DEF p, P
  <2> QED
    BY <2>1, <2>2
<1>2. v = p * P + live[h].off + 24 + live[h].size /\ v \in Nat /\ v > 0
  <2>1. v = p * P + live[h].off + 24 + live[h].size
    BY DEF Past, First
  <2> HIDE DEF p, P, v
  <2> QED
    BY <1>1, <2>1
<1>3. CASE live[h].off = 0
  <2>1. q <= (v - 1) \div P
    <3> HIDE DEF p, P, v
    <3>1. v - 1 \in Nat /\ (v - 1) \div P \in Nat
          /\ v - 1 = P * ((v - 1) \div P) + ((v - 1) % P)
          /\ (v - 1) % P \in 0..(P - 1)
      BY <1>1, <1>2
    <3> DEFINE d == (v - 1) \div P
    <3>2. d \in Nat /\ P * d = d * P /\ d * P \in Nat
      <4>1. d \in Nat
        BY <3>1
      <4> HIDE DEF d
      <4> QED
        BY <1>1, <4>1
    <3>3. v - 1 < d * P + P
      BY <1>1, <1>2, <3>1, <3>2
    <3>4. q * P <= v - 1
      BY <1>1, <1>2 DEF P, v
    <3>5. ASSUME d < q PROVE FALSE
      <4>1. d * P + P <= q * P
        BY <1>1, <3>2, <3>5, Pages DEF P
      <4> QED
        BY <1>1, <1>2, <3>2, <3>3, <3>4, <4>1
    <3> QED
      BY <1>1, <3>2, <3>5
  <2>2. h \in Live \ Small
    BY <1>3 DEF Small
  <2>3. q \in p..((v - 1) \div P)
    <3> HIDE DEF p, P, v
    <3>1. (v - 1) \div P \in Nat
      BY <1>1, <1>2
    <3> QED
      BY <1>1, <2>1, <3>1
  <2> QED
    BY <2>2, <2>3, BackedState
<1>4. CASE live[h].off # 0
  <2>1. /\ Address(h) \in DOMAIN blocks /\ blocks[Address(h)].size = live[h].size
        /\ Address(h).page = p /\ Address(h).off = live[h].off
    BY DEF RInv, LiveHeaders, Address, At
  <2>2. Is(p, "norm") /\ live[h].off + 24 + live[h].size <= P
    BY <1>4, <2>1 DEF RInv, HeadersThere, Readable, End
  <2>3. q = p
    <3>1. ASSUME p < q PROVE FALSE
      <4>1. p * P + P <= q * P
        BY <1>1, <3>1, Pages
      <4> HIDE DEF p, P, v
      <4>2. q * P < v
        BY DEF P, v
      <4> QED
        BY <1>1, <1>2, <2>2, <4>1, <4>2
    <3>2. p \in Nat /\ q \in Nat /\ p <= q
      BY <1>1
    <3> HIDE DEF p
    <3> QED
      BY <3>1, <3>2
  <2> QED
    BY <1>4, <2>2, <2>3
<1> QED
  BY <1>3, <1>4

(* A header on a page of small blocks is out of reach of a block that is   *)
(* apart from it on the page.                                              *)
LEMMA HeaderApart ==
  ASSUME IInv, RInv, NEW h \in Live, NEW a, a.page \in Page, a.off \in Nat,
         Is(a.page, "norm"), a.off + BHEADERSIZE <= MALLOC_PAGE_SIZE,
         live[h].off # 0 /\ live[h].page = a.page =>
           \/ live[h].off + BHEADERSIZE + live[h].size <= a.off
           \/ a.off + BHEADERSIZE <= live[h].off,
         First(a) < Past(live[h]), First(live[h]) < First(a) + BHEADERSIZE
  PROVE  FALSE
<1> DEFINE p == live[h].page
           q == a.page
           P == MALLOC_PAGE_SIZE
           v == Past(live[h])
<1>1. /\ p \in Nat /\ q \in Nat /\ P \in Nat
      /\ live[h].off \in Nat /\ live[h].size \in Nat /\ a.off \in Nat
      /\ p * P \in Nat /\ q * P \in Nat /\ a.off + 24 <= P
  <2>1. live[h] \in [page : Page \cup {nullptr}, off : Nat, size : Nat]
    BY DEF IInv, TypeOK, Live
  <2>2. p \in Nat /\ q \in Nat /\ live[h].off \in Nat /\ live[h].size \in Nat
    BY <2>1 DEF Page
  <2>3. P \in Nat /\ a.off + 24 <= P
    BY Sizes
  <2> HIDE DEF p, q, P
  <2> QED
    BY <2>2, <2>3
<1>2. /\ v = p * P + live[h].off + 24 + live[h].size
      /\ First(live[h]) = p * P + live[h].off /\ First(a) = q * P + a.off
  BY DEF Past, First
<1>3. q * P < v /\ p * P < q * P + P
  <2>1. First(a) < v /\ First(live[h]) < First(a) + 24
    BY Sizes
  <2> HIDE DEF p, q, P, v
  <2> QED
    BY <1>1, <1>2, <2>1
<1>4. p <= q
  <2>1. ASSUME q < p PROVE FALSE
    <3>1. q * P + P <= p * P
      BY <1>1, <2>1, Pages
    <3> HIDE DEF p, q, P
    <3> QED
      BY <1>1, <1>3, <3>1
  <2> QED
    BY <1>1, <2>1
<1>5. live[h].off # 0 /\ q = p
  BY <1>3, <1>4, ReachedOwn DEF Is
<1>6. live[h].off + 24 + live[h].size <= a.off \/ a.off + 24 <= live[h].off
  BY <1>5
<1>7. First(a) < v /\ First(live[h]) < First(a) + 24
  BY Sizes
<1>8. p * P = q * P
  BY <1>5
<1> HIDE DEF p, q, P, v
<1> QED
  BY <1>1, <1>2, <1>6, <1>7, <1>8

(* Between calls no block in use reaches what the allocator will read. *)
LEMMA NothingOverwritten ==
  ASSUME IInv, RInv, CurrentFits, pc = "idle", NEW h \in Live
  PROVE  ~Overwrites(h)
<1>1. ASSUME NEW q \in PagesReached(live[h]),
             Is(q, "frag") \/ (Is(q, "norm") /\ (live[h].off = 0 \/ q # live[h].page))
      PROVE  FALSE
  BY <1>1, ReachedOwn DEF PagesReached, Is
<1>2. /\ Address(h) \in DOMAIN blocks /\ blocks[Address(h)].size = live[h].size
      /\ Address(h).page = live[h].page /\ Address(h).off = live[h].off
      /\ live[h].off \in Nat /\ live[h].size \in Nat
      /\ End(Address(h)) = live[h].off + 24 + live[h].size
  <2>1. /\ Address(h) \in DOMAIN blocks /\ blocks[Address(h)].size = live[h].size
    BY DEF RInv, LiveHeaders
  <2>2. Address(h).page = live[h].page /\ Address(h).off = live[h].off
    BY DEF Address, At
  <2>3. live[h].off \in Nat /\ live[h].size \in Nat
    BY DEF IInv, TypeOK, Live
  <2> QED
    BY <2>1, <2>2, <2>3 DEF End
<1>3. live[h].off # 0 => Address(h) \in Taken
  BY <1>2, IsTaken DEF Small
<1>4. ASSUME NEW g \in Live, Address(g) # Address(h),
             First(Address(g)) < Past(live[h]),
             First(live[h]) < First(Address(g)) + BHEADERSIZE
      PROVE  FALSE
  <2>1. Apart(live[g], live[h])
    BY <1>4, DisjointState
  <2>2. /\ First(live[g]) = First(Address(g)) /\ First(live[g]) \in Nat
        /\ Past(live[g]) = First(live[g]) + 24 + live[g].size /\ live[g].size \in Nat
        /\ First(live[h]) \in Nat
        /\ Past(live[h]) = First(live[h]) + 24 + live[h].size
    <3>1. /\ live[g].page \in Nat /\ live[g].off \in Nat /\ live[g].size \in Nat
          /\ live[h].page \in Nat /\ live[g].page * MALLOC_PAGE_SIZE \in Nat
          /\ live[h].page * MALLOC_PAGE_SIZE \in Nat
      <4>1. /\ live[g].page \in Nat /\ live[g].off \in Nat
            /\ live[g].size \in Nat /\ live[h].page \in Nat
        BY DEF IInv, TypeOK, Page, Live
      <4> QED
        BY <4>1, Sizes
    <3> QED
      BY <1>2, <3>1 DEF First, Past, Address, At
  <2> QED
    BY <1>2, <1>4, <2>1, <2>2, Sizes DEF Apart
<1>5. ASSUME NEW i \in 1..Len(fragments), fragments[i] # Address(h),
             First(fragments[i]) < Past(live[h]),
             First(live[h]) < First(fragments[i]) + BHEADERSIZE
      PROVE  FALSE
  <2> DEFINE a == fragments[i]
  <2>1. a \in DOMAIN blocks /\ a.off # 0 /\ a \in Taken
    BY IsTaken DEF RInv, ListFree
  <2>2. /\ a.page \in Page /\ a.off \in Nat /\ Is(a.page, "norm")
        /\ blocks[a].size \in Nat /\ End(a) = a.off + 24 + blocks[a].size
        /\ End(a) <= MALLOC_PAGE_SIZE
    BY <2>1 DEF RInv, HeadersThere, Readable, End, IInv, TypeOK, BlockHeader
  <2>3. live[h].off # 0 /\ live[h].page = a.page =>
          \/ live[h].off + 24 + live[h].size <= a.off
          \/ a.off + 24 <= live[h].off
    <3>1. live[h].off # 0 /\ live[h].page = a.page =>
            End(a) <= Address(h).off \/ End(Address(h)) <= a.off
      BY <1>2, <1>3, <1>5, <2>1 DEF RInv, Tiled
    <3> HIDE DEF a
    <3> QED
      BY <1>2, <2>2, <3>1
  <2>4. a.off + 24 <= MALLOC_PAGE_SIZE
    <3> HIDE DEF a
    <3> QED
      BY <2>2, Sizes
  <2>5. First(a) < Past(live[h]) /\ First(live[h]) < First(a) + 24
    BY <1>5, Sizes
  <2> HIDE DEF a
  <2> QED
    BY <2>2, <2>3, <2>4, <2>5, HeaderApart, Sizes
<1>6. ASSUME Is(current_page, "norm"), CurrentBlock # Address(h),
             First(CurrentBlock) < Past(live[h]),
             First(live[h]) < First(CurrentBlock) + BHEADERSIZE
      PROVE  FALSE
  <2>1. first_page_ptr # nullptr
    BY <1>6 DEF IInv, BeforeFirstPage, Is, Page
  <2>2. /\ CurrentBlock.page = current_page /\ CurrentBlock.off = current_block
        /\ current_block \in Nat /\ current_page \in Page
        /\ current_block + BHEADERSIZE <= MALLOC_PAGE_SIZE
    BY <1>6, <2>1 DEF CurrentFits, Carved, Crashes, CurrentBlock, At, IInv, TypeOK, Is
  <2>3. live[h].off # 0 /\ live[h].page = current_page =>
          live[h].off + BHEADERSIZE + live[h].size <= current_block
    BY <1>2, <1>3, <1>6, Sizes DEF RInv, CurrentIsLast
  <2> QED
    BY <1>6, <2>2, <2>3, HeaderApart
<1>7. ASSUME NEW a \in ReadLater \ {Address(h)},
             First(a) < Past(live[h]), First(live[h]) < First(a) + BHEADERSIZE
      PROVE  FALSE
  BY <1>4, <1>5, <1>6, <1>7 DEF ReadLater
<1> QED
  BY <1>1, <1>7 DEF Overwrites

(* What can go wrong, and what cannot, in the steps of a call. *)
LEMMA FaultsStep ==
  ASSUME IInv, RInv, NoOldData, CurrentFits, RulesKept, FaultsExplained,
         NodesBounded, [Next]_vars
  PROVE  FaultsExplained' /\ NodesBounded'
<1> USE DEF NodesBounded, HeadersIntact
<1>1. ASSUME pc' \notin Crashes, UNCHANGED frags
      PROVE  FaultsExplained' /\ NodesBounded'
  BY <1>1, Sizes DEF FaultsExplained, Crashes, frags, MaxListNodes
<1>2. CASE UNCHANGED vars
  BY <1>2 DEF vars, frags, FaultsExplained, MaxListNodes
<1>3. CASE \E h \in Handles, n \in Requests : MallocCall(h, n)
  BY <1>1, <1>3 DEF MallocCall, Return, Crashes
<1>4. CASE \E h \in Handles : FreeCall(h)
  <2>1. PICK h \in Handles : FreeCall(h)
    BY <1>4
  <2>2. Readable(Address(h))
    BY <2>1 DEF FreeCall, RInv, LiveHeaders, HeadersThere, Live
  <2> QED
    BY <1>1, <2>1, <2>2 DEF FreeCall, Crashes
<1>5. CASE FirstSetup
  BY <1>1, <1>5 DEF FirstSetup, Return, Crashes
<1>6. CASE FindAvailableFragment
  <2>1. \A i \in 1..Len(fragments) : Readable(fragments[i])
    BY DEF RInv, ListFree, HeadersThere
  <2>2. ASSUME NEW i \in 1..Len(fragments), RemoveFragment(i),
               pc' = "fix_block_header"
        PROVE  FaultsExplained' /\ NodesBounded'
    <3>1. Len(fragments) = 1
      BY DEF IInv, ListHasOne
    <3>2. nodes_taken' = 0
      BY <2>2, <3>1 DEF RemoveFragment
    <3> QED
      BY <2>2, <3>2, Sizes DEF FaultsExplained, MaxListNodes
  <2> QED
    BY <1>1, <1>6, <2>1, <2>2 DEF FindAvailableFragment, Crashes
<1>7. CASE NoGoodFragments
  <2>1. Is(current_page, "norm")
    BY <1>7 DEF NoGoodFragments, IInv, BeforeFirstPage, SmallCall, RInv, PagesThere
  <2> QED
    BY <1>1, <1>7, <2>1 DEF NoGoodFragments, Return, Crashes
<1>8. CASE OpenPage
  <2>1. pc = "open_page" /\ first_page_ptr # nullptr /\ Is(current_page, "norm")
    BY <1>8 DEF OpenPage, IInv, BeforeFirstPage, SmallCall, RInv, PagesThere
  <2>2. Header(CurrentBlock).type # "STALE"
    BY DEF NoOldData, Header, ZeroHeader
  <2>3. current_page_free_bytes <= RoomLeft /\ current_page_free_bytes >= 24
    BY <2>1, <2>2
    DEF IInv, CounterBound, CounterInCall, OpeningPage, Carved, Crashes
  <2>4. NextBlock \in Int /\ current_page_free_bytes \in Int
    BY DEF IInv, TypeOK, NextBlock, Header, ZeroHeader, BlockHeader
  <2>5. NextBlock + BHEADERSIZE <= MALLOC_PAGE_SIZE
    BY <2>3, <2>4, Sizes DEF RoomLeft
  <2> QED
    BY <1>1, <1>8, <2>1, <2>4, <2>5, Sizes DEF OpenPage, PastEnd, At, Crashes
<1>9. CASE UndoOpenPage \/ LinkPage \/ LargeBro \/ LargeFreeBro
  BY <1>1, <1>9 DEF UndoOpenPage, LinkPage, LargeBro, LargeFreeBro, Return, Crashes
<1>10. CASE FixBlockHeader
  <2>1. pc = "fix_block_header" /\ Is(current_page, "norm")
    BY <1>10 DEF FixBlockHeader, IInv, BeforeFirstPage, SmallCall, RInv, PagesThere
  <2>2. block.off \in Nat /\ req \in Nat /\ BlockEnd <= MALLOC_PAGE_SIZE
    BY <2>1 DEF IInv, TypeOK, Address0, NoOldData
  <2>3. ~PastEnd(block)
    BY <2>2, Sizes DEF BlockEnd, PastEnd
  <2> QED
    BY <1>1, <1>10, <2>1, <2>3 DEF FixBlockHeader, Return, Crashes
<1>11. CASE DropUsage
  <2>1. Is(Header(block).page, "norm")
    BY <1>11 DEF DropUsage, RInv, FreeCalled, FreeingSmall, LiveHeaders, Header
  <2> QED
    BY <1>1, <1>11, <2>1 DEF DropUsage, Return, Crashes
<1>12. CASE InsertFragment
  <2>1. pc = "insert_fragment" /\ Header(block).size # 0
    BY <1>12, RInserting DEF InsertFragment
  <2>2. pc' \notin Crashes \/ UNCHANGED frags
    BY <1>12 DEF InsertFragment, Crash, Inserted, Return, Crashes
  <2>3. /\ nodes_taken \in Int /\ free_spaces \in Int
        /\ first_fragment_list_header \in Page =>
             free_spaces + nodes_taken = MaxListNodes + 1
    BY DEF IInv, TypeOK, ListHasOne
  <2>4. NodesBounded'
    BY <1>12, <2>3, Sizes
    DEF InsertFragment, Crash, SpaceFound, Is, frags, MaxListNodes
  <2>5. ASSUME Crash(Fault(first_fragment_list_header)),
               first_fragment_list_header # nullptr,
               ~Is(first_fragment_list_header, "frag")
        PROVE  FaultsExplained'
    <3>1. first_fragment_list_header = ErrPtr
      BY <2>5 DEF IInv, TypeOK, RInv, PagesThere
    <3>2. Fault(first_fragment_list_header) = "segv"
      BY <3>1, Sizes DEF Fault
    <3> QED
      BY <2>5, <3>1, <3>2 DEF FaultsExplained, Crash, frags
  <2>6. ASSUME Crash("wild"), Is(first_fragment_list_header, "frag"), ~SpaceFound
        PROVE  FaultsExplained'
    <3>1. nodes_taken = MaxListNodes
      BY <2>3, <2>6, Sizes DEF SpaceFound, Is
    <3> QED
      BY <2>6, <3>1 DEF FaultsExplained, Crash, frags, MaxListNodes
  <2>7. ASSUME NEW i \in ComparedWith, Is(first_fragment_list_header, "frag"),
               ~Readable(fragments[i])
        PROVE  FALSE
    <3>1. Len(fragments) = 1 /\ i = 1
      BY <2>7 DEF IInv, ListHasOne, Is, ComparedWith
    <3> QED
      BY <2>7, <3>1 DEF RInv, ListFree, HeadersThere
  <2>8. ASSUME pc' \notin Crashes PROVE FaultsExplained'
    BY <2>8 DEF FaultsExplained, Crashes
  <2>9. ASSUME Inserted \/ Return("error") \/ pc' = "undo_open_page"
        PROVE  pc' \notin Crashes
    BY <2>9 DEF Inserted, Return, Crashes
  <2>10. FaultsExplained'
    BY <1>12, <2>1, <2>5, <2>6, <2>7, <2>8, <2>9 DEF InsertFragment
  <2> QED
    BY <2>4, <2>10
<1>13. CASE ClientWrites
  BY <1>13, NothingOverwritten DEF ClientWrites
<1> QED
  BY <1>2, <1>3, <1>4, <1>5, <1>6, <1>7, <1>8, <1>9, <1>10, <1>11, <1>12, <1>13
  DEF Next, Step

(* Under the rules, the allocator leaves its memory only through the error *)
(* code that a failed mmap leaves in first_fragment_list_header, and reads *)
(* an uninitialised pointer only on a full page of fragments               *)
(* (insert_fragment).  Nothing of its own is overwritten: no client's      *)
(* block reaches a header, and no header is written past a page's end.     *)
THEOREM FaultsAreExplained ==
  ASSUME RulesKept
  PROVE  Spec => []FaultsExplained
<1>1. Init => FaultsExplained /\ NodesBounded /\ CurrentFits
  BY Sizes DEF Init, FaultsExplained, HeadersIntact, NodesBounded, CurrentFits
<1>2. IInv /\ RInv /\ NoOldData /\ CurrentFits /\ FaultsExplained /\ NodesBounded
        /\ [Next]_vars
        => FaultsExplained' /\ NodesBounded' /\ CurrentFits'
  BY FaultsStep, FitsStep
<1> QED
  BY <1>1, <1>2, Invariant, RulesInvariant, OldDataNowhere, PTL DEF Spec

(***************************************************************************)
(* malloc and free implement AbstractHeap.                                 *)
(***************************************************************************)

(* What a step may do to the blocks that the client holds. *)
LEMMA LiveStep ==
  ASSUME IInv, RInv, Next
  PROVE  \/ live' = live
         \/ \E h \in Handles, b \in [page : Page, off : Nat, size : Nat] :
              live[h] = NoBlock /\ live' = [live EXCEPT ![h] = b]
         \/ \E h \in Handles :
              live[h] # NoBlock /\ live' = [live EXCEPT ![h] = NoBlock]
<1>1. ASSUME NEW how, Crash(how) PROVE live' = live
  BY <1>1 DEF Crash, client
<1>2. CASE \/ \E h \in Handles, n \in Requests : MallocCall(h, n)
           \/ \E h \in Handles : FreeCall(h)
  BY <1>1, <1>2 DEF MallocCall, FreeCall, client
<1>3. CASE FirstSetup \/ NoGoodFragments \/ OpenPage \/ UndoOpenPage \/ LinkPage
  BY <1>1, <1>3
  DEF FirstSetup, NoGoodFragments, OpenPage, UndoOpenPage, LinkPage, client
<1>4. CASE FindAvailableFragment \/ InsertFragment
  BY <1>1, <1>4 DEF FindAvailableFragment, InsertFragment, client
<1>5. CASE FixBlockHeader
  <2>1. /\ handle \in Handles /\ live[handle] = NoBlock
        /\ block.page \in Page /\ block.off \in Nat /\ req \in Nat
    BY <1>5 DEF FixBlockHeader, RInv, MallocCalled, InMalloc, SmallCall, Is,
                IInv, TypeOK, Address0
  <2> QED
    BY <1>1, <1>5, <2>1 DEF FixBlockHeader
<1>6. CASE LargeBro
  <2>1. handle \in Handles /\ live[handle] = NoBlock /\ req \in Nat
    BY <1>6 DEF LargeBro, RInv, MallocCalled, InMalloc, IInv, TypeOK
  <2>2. CASE live' = live
    BY <2>2
  <2>3. CASE \E p \in Page : live' = [live EXCEPT ![handle] =
                                        [page |-> p, off |-> 0, size |-> req]]
    BY <2>1, <2>3
  <2> QED
    BY <1>6, <2>2, <2>3 DEF LargeBro
<1>7. CASE LargeFreeBro \/ DropUsage
  <2>1. handle \in Live
    BY <1>7 DEF LargeFreeBro, DropUsage, RInv, FreeCalled, FreeingSmall
  <2> QED
    BY <1>1, <1>7, <2>1 DEF LargeFreeBro, DropUsage, Live
<1>8. CASE ClientWrites
  BY <1>1, <1>8 DEF ClientWrites
<1> QED
  BY <1>2, <1>3, <1>4, <1>5, <1>6, <1>7, <1>8 DEF Next, Step

LEMMA AbstractStep ==
  ASSUME IInv, RInv, DisjointBlocks', [Next]_vars
  PROVE  [Abstract!Next]_Held
<1> DEFINE Span(x) == [from |-> First(x), to |-> Past(x)]
<1>1. ASSUME NEW x PROVE Span(x) # NoBlock
  <2>1. DOMAIN Span(x) = {"from", "to"} /\ DOMAIN NoBlock = {"page", "off", "size"}
    BY DEF NoBlock
  <2> QED
    BY <2>1
<1>2. /\ live \in [Handles -> [page : Page \cup {nullptr}, off : Nat, size : Nat]]
      /\ Held = [h \in Handles |-> IF live[h] = NoBlock THEN NoBlock ELSE Span(live[h])]
      /\ Held' = [h \in Handles |->
                    IF live'[h] = NoBlock THEN NoBlock ELSE Span(live'[h])]
  BY DEF IInv, TypeOK, Held, First, Past
<1>3. CASE live' = live
  BY <1>2, <1>3
<1>4. ASSUME NEW h \in Handles, NEW b \in [page : Page, off : Nat, size : Nat],
             live[h] = NoBlock, live' = [live EXCEPT ![h] = b]
      PROVE  Abstract!Next
  <2>1. b # NoBlock /\ First(b) \in Nat /\ Past(b) \in Nat /\ First(b) < Past(b)
    <3>1. b.page \in Nat /\ b.off \in Nat /\ b.size \in Nat /\ b.page # 0
      BY DEF Page
    <3>2. b.page * MALLOC_PAGE_SIZE \in Nat
      BY <3>1, Sizes
    <3> QED
      BY <3>1, <3>2 DEF NoBlock, First, Past
  <2>2. Held[h] = NoBlock /\ Held'[h] = Span(b)
    BY <1>2, <1>4, <2>1
  <2>3. Held' = [Held EXCEPT ![h] = Held'[h]]
    BY <1>2, <1>4, <2>1
  <2>4. ASSUME NEW g \in Handles \ {h}, Held[g] # NoBlock
        PROVE  Abstract!Disjoint(Held[g], Held'[h])
    <3>1. live[g] # NoBlock /\ live'[g] = live[g] /\ Held[g] = Span(live[g])
          /\ live'[h] = b
      BY <1>2, <1>4, <2>4
    <3>2. g \in Live' /\ h \in Live'
      BY <2>1, <3>1 DEF Live
    <3>3. Apart(live'[g], live'[h])
      BY <2>4, <3>2 DEF DisjointBlocks, Apart, First, Past
    <3> QED
      BY <2>2, <3>1, <3>3 DEF Abstract!Disjoint, Apart
  <2>5. Held'[h] \in Abstract!Intervals /\ Held'[h].from < Held'[h].to
    BY <2>1, <2>2 DEF Abstract!Intervals
  <2> QED
    BY <2>2, <2>3, <2>4, <2>5 DEF Abstract!Next, Abstract!malloc
<1>5. ASSUME NEW h \in Handles, live[h] # NoBlock, live' = [live EXCEPT ![h] = NoBlock]
      PROVE  Abstract!Next
  <2>1. Held[h] # NoBlock
    BY <1>1, <1>2, <1>5
  <2>2. Held' = [Held EXCEPT ![h] = NoBlock]
    BY <1>2, <1>5
  <2> QED
    BY <2>1, <2>2 DEF Abstract!Next, Abstract!free
<1>6. CASE UNCHANGED vars
  BY <1>3, <1>6 DEF vars, client
<1> QED
  BY <1>3, <1>4, <1>5, <1>6, LiveStep

(* Under the rules, malloc and free are those of AbstractHeap: malloc adds *)
(* a block that shares no byte with one in use, free takes one back, and   *)
(* every other step of a call leaves what the client holds alone.          *)
THEOREM Refinement ==
  ASSUME RulesKept
  PROVE  Spec => ImplementsAbstract
<1>1. Init => Abstract!Init
  BY DEF Init, Abstract!Init, Held
<1>2. IInv /\ RInv /\ DisjointBlocks' /\ [Next]_vars => [Abstract!Next]_Held
  BY AbstractStep
<1> QED
  BY <1>1, <1>2, Invariant, RulesInvariant, BlocksDisjoint, PTL
  DEF Spec, ImplementsAbstract, Abstract!Spec

(***************************************************************************)
(* The uses of the current page, for every client.                         *)
(***************************************************************************)

LEMMA MayBeFinite ==
  ASSUME IsFiniteSet(Handles)
  PROVE  IsFiniteSet(MayBeCharged) /\ Cardinality(MayBeCharged) \in Nat
<1>1. MayBeCharged \subseteq Handles
  BY DEF MayBeCharged, Small, Live
<1> QED
  BY <1>1, FS_Subset, FS_CardinalityType

LEMMA MayBeFinitePrime ==
  ASSUME IsFiniteSet(Handles)
  PROVE  IsFiniteSet(MayBeCharged') /\ Cardinality(MayBeCharged') \in Nat
<1>1. MayBeCharged' \subseteq Handles
  BY DEF MayBeCharged, Small, Live
<1> QED
  BY <1>1, FS_Subset, FS_CardinalityType

(* A step that leaves the client's blocks, the current page and its uses   *)
(* alone may only lose headers, and does not end what excuses a page       *)
(* without uses.                                                           *)
Excused == OpeningPage /\ next_page_ptr = current_page
LEMMA BoundStays ==
  ASSUME TypeOK, UsesInv, IsFiniteSet(Handles),
         live' = live, current_page' = current_page,
         Is(current_page, "norm")' =>
           /\ Is(current_page, "norm")
           /\ page_hdr'[current_page].usages = page_hdr[current_page].usages,
         \A h \in Small : blocks' # blocks =>
           Header(Address(h))'.page \in {Header(Address(h)).page, nullptr}
  PROVE  UsesBounded'
<1>1. Small' = Small /\ \A h \in Handles : Address(h)' = Address(h)
  BY DEF Small, Live, Address
<1>2. \A h \in Small : Header(Address(h))'.page \in {Header(Address(h)).page, nullptr}
  BY <1>1 DEF Header, Small, Live
<1>3. MayBeCharged \subseteq MayBeCharged'
  BY <1>1, <1>2 DEF MayBeCharged
<1>4. Cardinality(MayBeCharged) <= Cardinality(MayBeCharged')
  BY <1>3, MayBeFinitePrime, FS_Subset
<1>5. Cardinality(MayBeCharged) \in Nat /\ Cardinality(MayBeCharged') \in Nat
  BY MayBeFinite, MayBeFinitePrime
<1>6. SUFFICES ASSUME Is(current_page, "norm")'
               PROVE  page_hdr'[current_page].usages <= Cardinality(MayBeCharged')
  BY DEF UsesBounded
<1>7. page_hdr[current_page].usages \in Int
  BY <1>6 DEF TypeOK, PageHeader, Is
<1> QED
  BY <1>4, <1>5, <1>6, <1>7 DEF UsesInv, UsesBounded

LEMMA SomeStays ==
  ASSUME UsesInv, pc \notin Crashes,
         live' = live, current_page' = current_page, touched' = touched,
         Is(current_page, "norm")' =>
           /\ Is(current_page, "norm")
           /\ page_hdr'[current_page].usages = page_hdr[current_page].usages
           /\ pc = "fix_block_header" => pc' \in Crashes
           /\ Excused => Excused' \/ pc' \in Crashes
  PROVE  UsesSome'
<1>1. Small' = Small
  BY DEF Small, Live
<1> QED
  BY <1>1 DEF UsesInv, UsesSome, Unused, Excused

LEMMA UsesBegin == Init => UsesInv
<1> SUFFICES ASSUME Init PROVE UsesInv
  OBVIOUS
<1>1. ~Is(current_page, "norm")
  BY Sizes DEF Init, Is
<1> QED
  BY <1>1 DEF Init, UsesInv, UsesBounded, UsesSome, CallersBlock, HugeHeads,
              InMalloc, SmallCall, OpeningPage, FreeingSmall

(* Steps that leave the memory and the client's blocks alone. *)
LEMMA UsesIdle ==
  ASSUME IInv, UsesInv, IsFiniteSet(Handles),
         pc \notin Crashes \cup {"fix_block_header"},
         UNCHANGED <<memory, live, current_page, touched>>,
         Excused => Excused' \/ pc' \in Crashes, CallersBlock'
  PROVE  UsesInv'
<1> USE DEF memory
<1>1. UsesBounded'
  BY BoundStays DEF IInv, Is
<1>2. UsesSome'
  BY SomeStays DEF Is
<1> QED
  BY <1>1, <1>2 DEF UsesInv, HugeHeads

LEMMA UsesCrash ==
  ASSUME IInv, UsesInv, IsFiniteSet(Handles), NEW how \in Crashes, Crash(how)
  PROVE  UsesInv'
<1> USE DEF Crash, memory, arena, frags, call, client
<1>1. UsesBounded'
  BY BoundStays DEF IInv, Is
<1>2. UsesSome' /\ CallersBlock'
  BY DEF UsesSome, CallersBlock, Crashes, InMalloc, SmallCall, OpeningPage, FreeingSmall
<1> QED
  BY <1>1, <1>2 DEF UsesInv, HugeHeads

LEMMA UsesMallocCall ==
  ASSUME IInv, UsesInv, IsFiniteSet(Handles),
         NEW h \in Handles, NEW n \in Nat, MallocCall(h, n)
  PROVE  UsesInv'
<1>1. UNCHANGED <<memory, arena, frags, live>> /\ pc = "idle"
      /\ next_page_ptr' = nullptr /\ pc' \in {"idle", "large_bro", "first_setup"}
  BY DEF MallocCall, Return, client, IInv, CallOK
<1>2. CallersBlock'
  BY <1>1 DEF MallocCall, Return, CallersBlock, InMalloc, SmallCall, OpeningPage,
              FreeingSmall
<1> QED
  BY <1>1, <1>2, UsesIdle DEF arena, Crashes, Excused, OpeningPage

LEMMA UsesFreeCall ==
  ASSUME IInv, UsesInv, IsFiniteSet(Handles), NEW h \in Handles, FreeCall(h)
  PROVE  UsesInv'
<1>1. CASE Crash(Fault(live[h].page))
  BY <1>1, UsesCrash DEF Fault, Crashes
<1>2. CASE ~Crash(Fault(live[h].page))
  <2>1. /\ Readable(Address(h)) /\ handle' = h /\ block' = Address(h)
        /\ pc' = IF Header(Address(h)).type = "HUGE" THEN "large_free_bro"
                                                     ELSE "insert_fragment"
        /\ UNCHANGED <<memory, arena, frags, req, next_page_ptr, client>>
        /\ pc = "idle" /\ next_page_ptr = nullptr /\ h \in Live
    BY <1>2 DEF FreeCall, IInv, CallOK, Live
  <2>2. Address(h)' = Address(h) /\ h \in Live'
    BY <2>1 DEF Address, client, Live
  <2>3. pc' = "large_free_bro" => block'.off = 0
    BY <2>1 DEF UsesInv, HugeHeads, Header, ZeroHeader
  <2>4. pc' = "insert_fragment" => block'.off # 0 \/ block' \notin DOMAIN blocks
    BY <2>1 DEF IInv, HeadersPositive, Header
  <2>5. CallersBlock'
    BY <2>1, <2>2, <2>3, <2>4
    DEF CallersBlock, InMalloc, SmallCall, OpeningPage, FreeingSmall, memory
  <2> QED
    BY <2>1, <2>5, UsesIdle DEF arena, client, Crashes, Excused, OpeningPage
<1> QED
  BY <1>1, <1>2

LEMMA UsesFirstSetup ==
  ASSUME IInv, IInv', UsesInv, IsFiniteSet(Handles), FirstSetup
  PROVE  UsesInv'
<1>1. CASE first_page_ptr # nullptr /\ pc' = "find_available_fragment"
           /\ UNCHANGED <<memory, arena, frags, call, client>>
  <2>1. CallersBlock'
    BY <1>1 DEF FirstSetup, UsesInv, CallersBlock, InMalloc, SmallCall, OpeningPage,
                FreeingSmall, call, client
  <2> QED
    BY <1>1, <2>1, UsesIdle DEF FirstSetup, arena, client, Crashes, Excused, OpeningPage
<1>2. CASE Return("error") /\ UNCHANGED <<memory, arena, frags, live>>
  <2>1. CallersBlock'
    BY <1>2 DEF Return, CallersBlock, InMalloc, SmallCall, OpeningPage, FreeingSmall
  <2> QED
    BY <1>2, <2>1, UsesIdle DEF FirstSetup, Return, arena, Crashes, Excused, OpeningPage
<1>3. ASSUME NEW p \in Page, first_page_ptr = nullptr, pc = "first_setup",
             page_hdr' = [page_hdr EXCEPT ![p] = BlankPage],
             current_page' = p, touched' = PHEADERSIZE,
             pc' = "find_available_fragment",
             UNCHANGED <<blocks, frags, call, client>>
      PROVE  UsesInv'
  <2>1. page_hdr'[current_page'].usages = 0
    BY <1>3 DEF BlankPage, IInv, TypeOK
  <2>2. Small' = {}
    BY <1>3 DEF IInv, BeforeFirstPage, Small, Live, client
  <2>3. UsesBounded'
    BY <2>1, MayBeFinitePrime DEF UsesBounded
  <2>4. UsesSome'
    BY <1>3, <2>1, <2>2 DEF UsesSome, Unused
  <2>5. CallersBlock'
    BY <1>3 DEF UsesInv, CallersBlock, InMalloc, SmallCall, OpeningPage,
                FreeingSmall, call, client
  <2> QED
    BY <1>3, <2>3, <2>4, <2>5 DEF UsesInv, HugeHeads
<1> QED
  BY <1>1, <1>2, <1>3 DEF FirstSetup

(* Unmapping a page loses its headers, and no page appears. *)
LEMMA UsesUnmap ==
  ASSUME IInv, UsesInv, IsFiniteSet(Handles),
         pc \notin Crashes \cup {"fix_block_header"},
         NEW q, Unmap(q), page_hdr' = page_hdr,
         UNCHANGED <<live, current_page, touched>>,
         Excused => Excused' \/ ~Is(current_page, "norm")', CallersBlock'
  PROVE  UsesInv'
<1>1. Is(current_page, "norm")' => Is(current_page, "norm")
  BY DEF Unmap, Is, IInv, TypeOK
<1>2. /\ DOMAIN blocks' \subseteq DOMAIN blocks
      /\ \A a \in DOMAIN blocks' : blocks'[a] = blocks[a]
  BY DEF Unmap, WithoutPage
<1>3. \A h \in Small : Header(Address(h))'.page \in {Header(Address(h)).page, nullptr}
  <2>1. \A h \in Small : Address(h)' = Address(h)
    BY DEF Address
  <2> QED
    BY <1>2, <2>1 DEF Header, ZeroHeader
<1>4. UsesBounded'
  BY <1>1, <1>3, BoundStays DEF IInv
<1>5. UsesSome'
  BY <1>1, SomeStays
<1> QED
  BY <1>2, <1>4, <1>5 DEF UsesInv, HugeHeads

LEMMA UsesFindAvailableFragment ==
  ASSUME IInv, IInv', UsesInv, IsFiniteSet(Handles), FindAvailableFragment
  PROVE  UsesInv'
<1>1. CASE \E i \in 1..Len(fragments) : Crash(Fault(fragments[i].page))
  BY <1>1, UsesCrash DEF Fault, Crashes
<1>2. ASSUME pc = "find_available_fragment", pc' = "no_good_fragments",
             UNCHANGED <<memory, arena, frags, call, client>>
      PROVE  UsesInv'
  <2>1. CallersBlock'
    BY <1>2 DEF UsesInv, CallersBlock, InMalloc, SmallCall, OpeningPage,
                FreeingSmall, call, client
  <2> QED
    BY <1>2, <2>1, UsesIdle DEF arena, client, Crashes, Excused, OpeningPage
<1>3. ASSUME NEW i \in 1..Len(fragments), RemoveFragment(i),
             pc = "find_available_fragment", pc' = "fix_block_header",
             UNCHANGED <<arena, handle, req, next_page_ptr, client>>
      PROVE  UsesInv'
  <2>1. CallersBlock'
    BY <1>3 DEF UsesInv, CallersBlock, InMalloc, SmallCall, OpeningPage,
                FreeingSmall, client
  <2>2. ~Excused
    BY <1>3 DEF Excused, OpeningPage
  <2>3. CASE UNCHANGED <<mapped, blocks>>
    BY <1>3, <2>1, <2>2, <2>3, UsesIdle DEF RemoveFragment, arena, client, memory, Crashes
  <2>4. CASE Unmap(first_fragment_list_header)
    BY <1>3, <2>1, <2>2, <2>4, UsesUnmap DEF RemoveFragment, arena, client, Crashes
  <2> QED
    BY <1>3, <2>3, <2>4 DEF RemoveFragment
<1> QED
  BY <1>1, <1>2, <1>3 DEF FindAvailableFragment

LEMMA UsesNoGoodFragments ==
  ASSUME IInv, IInv', UsesInv, IsFiniteSet(Handles), NoGoodFragments
  PROVE  UsesInv'
<1>1. pc = "no_good_fragments" /\ ~Excused
  BY DEF NoGoodFragments, Excused, OpeningPage
<1>2. ASSUME pc' = "fix_block_header",
             UNCHANGED <<memory, current_page, touched, handle, req, next_page_ptr, client>>
      PROVE  UsesInv'
  <2>1. CallersBlock'
    BY <1>1, <1>2 DEF UsesInv, CallersBlock, InMalloc, SmallCall, OpeningPage,
                FreeingSmall, client
  <2> QED
    BY <1>1, <1>2, <2>1, UsesIdle DEF client, Crashes
<1>3. CASE Crash(Fault(current_page))
  BY <1>3, UsesCrash DEF Fault, Crashes
<1>4. ASSUME NEW p \in Page, CanMap(p, 1),
             mapped' = MapAs(p, 1, "norm"),
             page_hdr' = [page_hdr EXCEPT ![p] = BlankPage],
             next_page_ptr' = p, pc' = "open_page",
             UNCHANGED <<blocks, arena, frags, handle, req, block, client>>
      PROVE  UsesInv'
  <2>1. CallersBlock'
    BY <1>1, <1>4 DEF UsesInv, CallersBlock, InMalloc, SmallCall, OpeningPage,
                FreeingSmall, client
  <2>2. /\ mapped[p] = "none" /\ mapped'[p] = "norm"
        /\ \A q \in Page : q # p => mapped'[q] = mapped[q]
    BY <1>4, FreshPage DEF IInv
  <2>3. CASE current_page = p
    <3>1. page_hdr'[current_page'].usages = 0 /\ current_page' = p
      BY <1>4, <2>3 DEF BlankPage, IInv, TypeOK, arena
    <3>2. UsesBounded'
      BY <3>1, MayBeFinitePrime DEF UsesBounded
    <3>3. UsesSome'
      BY <1>4, <3>1 DEF UsesSome, Unused, OpeningPage
    <3> QED
      BY <1>4, <2>1, <3>2, <3>3 DEF UsesInv, HugeHeads
  <2>4. CASE current_page # p
    <3>1. Is(current_page, "norm")' =>
           /\ Is(current_page, "norm")
           /\ page_hdr'[current_page].usages = page_hdr[current_page].usages
      BY <1>4, <2>2, <2>4 DEF Is, arena, IInv, TypeOK
    <3>2. UsesBounded'
      BY <1>4, <3>1, BoundStays DEF arena, client, IInv
    <3>3. UsesSome'
      BY <1>1, <1>4, <3>1, SomeStays DEF arena, client, Crashes
    <3> QED
      BY <1>4, <2>1, <3>2, <3>3 DEF UsesInv, HugeHeads
  <2> QED
    BY <2>3, <2>4
<1>5. CASE Return("error") /\ UNCHANGED <<memory, arena, frags, live>>
  <2>1. CallersBlock'
    BY <1>5 DEF Return, CallersBlock, InMalloc, SmallCall, OpeningPage, FreeingSmall
  <2> QED
    BY <1>1, <1>5, <2>1, UsesIdle DEF arena, Crashes
<1> QED
  BY <1>2, <1>3, <1>4, <1>5 DEF NoGoodFragments, arena

LEMMA UsesOpenPage ==
  ASSUME IInv, IInv', UsesInv, IsFiniteSet(Handles), OpenPage
  PROVE  UsesInv'
<1>1. CASE Crash(Fault(current_page)) \/ Crash(WritePast(At(current_page, NextBlock)))
  BY <1>1, UsesCrash DEF Fault, WritePast, Crashes
<1>2. ASSUME NEW t \in {"FREE", "STALE"}, pc = "open_page",
             blocks' = WithHeader(At(current_page, NextBlock),
                         [type |-> t, page |-> nullptr,
                          size |-> MALLOC_PAGE_SIZE - NextBlock - BHEADERSIZE]),
             pc' = "insert_fragment",
             UNCHANGED <<mapped, page_hdr, current_page, touched, frags, handle,
                         req, next_page_ptr, client>>
      PROVE  UsesInv'
  <2> DEFINE a == At(current_page, NextBlock)
             hdr == [type |-> t, page |-> nullptr,
                     size |-> MALLOC_PAGE_SIZE - NextBlock - BHEADERSIZE]
  <2>1. hdr.page = nullptr /\ hdr.type # "HUGE" /\ blocks' = WithHeader(a, hdr)
    BY <1>2
  <2> HIDE DEF a, hdr
  <2>2. /\ DOMAIN blocks' = DOMAIN blocks \cup {a} /\ blocks'[a] = hdr
        /\ \A x \in DOMAIN blocks : x # a => blocks'[x] = blocks[x]
    BY <2>1, WithHeaderFacts
  <2>3. next_page_ptr # nullptr
    BY <1>2 DEF IInv, CallOK
  <2>4. \A h \in Small : Header(Address(h))'.page \in {Header(Address(h)).page, nullptr}
    <3>1. \A h \in Small : Address(h)' = Address(h)
      BY <1>2 DEF Address, client
    <3> QED
      BY <2>1, <2>2, <3>1 DEF Header, ZeroHeader
  <2>5. UsesBounded'
    BY <1>2, <2>4, BoundStays DEF IInv, client, Is
  <2>6. UsesSome'
    BY <1>2, <2>3, SomeStays DEF client, Is, Crashes, Excused, OpeningPage
  <2>7. CallersBlock'
    BY <1>2, <2>3 DEF UsesInv, CallersBlock, InMalloc, OpeningPage, FreeingSmall,
                      SmallCall, client
  <2>8. HugeHeads'
    BY <2>1, <2>2 DEF UsesInv, HugeHeads
  <2> QED
    BY <2>5, <2>6, <2>7, <2>8 DEF UsesInv
<1> QED
  BY <1>1, <1>2 DEF OpenPage

LEMMA UsesUndoOpenPage ==
  ASSUME IInv, IInv', UsesInv, IsFiniteSet(Handles), UndoOpenPage
  PROVE  UsesInv'
<1>1. CallersBlock'
  BY DEF UndoOpenPage, Return, CallersBlock, InMalloc, SmallCall, OpeningPage,
         FreeingSmall
<1>2. Excused => ~Is(current_page, "norm")'
  BY DEF UndoOpenPage, Unmap, Excused, Is, IInv, TypeOK, arena
<1> QED
  BY <1>1, <1>2, UsesUnmap DEF UndoOpenPage, arena, Crashes

LEMMA UsesLinkPage ==
  ASSUME IInv, IInv', UsesInv, IsFiniteSet(Handles), LinkPage
  PROVE  UsesInv'
<1>1. next_page_ptr \in Page /\ page_hdr \in [Page -> PageHeader]
  BY DEF LinkPage, IInv, CallOK, TypeOK
<1>2. page_hdr'[next_page_ptr].usages = 0
  <2> DEFINE H1 == [page_hdr EXCEPT ![next_page_ptr].usages = 0]
             H2 == [H1 EXCEPT ![next_page_ptr].prev_page = current_page]
             H3 == [H2 EXCEPT ![current_page].next_page = next_page_ptr]
  <2>1. H1 \in [Page -> PageHeader] /\ H1[next_page_ptr].usages = 0
    BY <1>1, UsagesFacts DEF PageHeader
  <2> HIDE DEF H1
  <2>2. H2[next_page_ptr].usages = 0 /\ H2 \in [Page -> PageHeader]
    <3>1. H2 \in [Page -> PageHeader]
      BY <1>1, <2>1, LinkFacts DEF IInv, TypeOK
    <3>2. H2[next_page_ptr] = [H1[next_page_ptr] EXCEPT !.prev_page = current_page]
      BY <1>1, <2>1
    <3> QED
      BY <1>1, <2>1, <3>1, <3>2 DEF PageHeader
  <2> HIDE DEF H2
  <2>3. H3[next_page_ptr].usages = 0
    BY <1>1, <2>2 DEF PageHeader
  <2> QED
    BY <2>3 DEF LinkPage, H1, H2, H3
<1>3. UsesBounded'
  BY <1>2, MayBeFinitePrime DEF LinkPage, UsesBounded
<1>4. UsesSome'
  BY <1>2 DEF LinkPage, UsesSome, Unused
<1>5. CallersBlock'
  BY DEF LinkPage, UsesInv, CallersBlock, InMalloc, OpeningPage, FreeingSmall,
         SmallCall, client
<1> QED
  BY <1>3, <1>4, <1>5 DEF LinkPage, UsesInv, HugeHeads

LEMMA UsesFixBlockHeader ==
  ASSUME IInv, IInv', UsesInv, IsFiniteSet(Handles), FixBlockHeader
  PROVE  UsesInv'
<1>1. CASE Crash(WritePast(block)) \/ Crash(Fault(current_page))
  BY <1>1, UsesCrash DEF Fault, WritePast, Crashes
<1>2. ASSUME Is(current_page, "norm"), pc = "fix_block_header",
             blocks' = WithHeader(block,
               [type |-> "USED", size |-> req, page |-> current_page]),
             page_hdr' = [page_hdr EXCEPT ![ChargedPage].usages = @ + 1],
             live' = [live EXCEPT ![handle] =
                       [page |-> block.page, off |-> block.off, size |-> req]],
             Return("ok"), UNCHANGED <<mapped, current_page>>
      PROVE  UsesInv'
  <2> DEFINE b == [page |-> block.page, off |-> block.off, size |-> req]
             hdr == [type |-> "USED", size |-> req, page |-> current_page]
  <2>1. /\ handle \in Handles /\ live[handle] = NoBlock
        /\ block \in [page : Page, off : Nat] /\ block.off # 0
    BY <1>2 DEF UsesInv, CallersBlock, InMalloc, SmallCall, IInv, TypeOK, CallOK, Address0
  <2>2. /\ b # NoBlock /\ b.off # 0 /\ At(b.page, b.off) = block
        /\ live'[handle] = b
        /\ \A h \in Handles : h # handle => live'[h] = live[h]
    BY <1>2, <2>1 DEF NoBlock, At, IInv, TypeOK
  <2>3. hdr.page = current_page /\ hdr.type = "USED" /\ blocks' = WithHeader(block, hdr)
    BY <1>2
  <2> HIDE DEF b, hdr
  <2>4. /\ DOMAIN blocks' = DOMAIN blocks \cup {block} /\ blocks'[block] = hdr
        /\ \A x \in DOMAIN blocks : x # block => blocks'[x] = blocks[x]
    BY <2>3 DEF WithHeader
  <2>5. Small \subseteq Small' /\ handle \in Small' /\ handle \notin Small
    BY <2>1, <2>2 DEF Small, Live
  <2>6. handle \in MayBeCharged'
    <3>1. \A h \in Handles : h = handle => Address(h)' = block
      BY <2>2 DEF Address
    <3>2. \A h \in Handles : h = handle => Header(Address(h))'.page = current_page
      BY <2>3, <2>4, <3>1 DEF Header
    <3> QED
      BY <1>2, <2>1, <2>5, <3>2 DEF MayBeCharged
  <2>7. MayBeCharged \subseteq MayBeCharged'
    <3> SUFFICES ASSUME NEW h \in MayBeCharged PROVE h \in MayBeCharged'
      OBVIOUS
    <3>1. Address(h)' = Address(h) /\ h \in Small'
      BY <2>2, <2>5 DEF Address, MayBeCharged, Small, Live
    <3>2. Header(Address(h))'.page \in {Header(Address(h)).page, current_page}
      BY <2>3, <2>4, <3>1 DEF Header
    <3> QED
      BY <1>2, <3>1, <3>2 DEF MayBeCharged
  <2>8. Cardinality(MayBeCharged) + 1 <= Cardinality(MayBeCharged')
    <3>1. handle \notin MayBeCharged
      BY <2>5 DEF MayBeCharged
    <3>2. /\ Cardinality(MayBeCharged \cup {handle}) = Cardinality(MayBeCharged) + 1
          /\ IsFiniteSet(MayBeCharged')
      BY <3>1, MayBeFinite, MayBeFinitePrime, FS_AddElement
    <3> QED
      BY <2>6, <2>7, <3>2, FS_Subset
  <2>9. /\ page_hdr[current_page].usages \in Int
        /\ page_hdr'[current_page].usages = page_hdr[current_page].usages + 1
    BY <1>2 DEF ChargedPage, Is, IInv, TypeOK, PageHeader
  <2>10. UsesBounded'
    BY <1>2, <2>8, <2>9, MayBeFinite, MayBeFinitePrime DEF UsesInv, UsesBounded
  <2>11. UsesSome'
    BY <1>2, <2>9 DEF UsesInv, UsesSome, Crashes
  <2>12. CallersBlock'
    BY <1>2 DEF Return, CallersBlock, InMalloc, SmallCall, OpeningPage, FreeingSmall
  <2>13. HugeHeads'
    BY <2>3, <2>4 DEF UsesInv, HugeHeads
  <2> QED
    BY <2>10, <2>11, <2>12, <2>13 DEF UsesInv
<1> QED
  BY <1>1, <1>2 DEF FixBlockHeader

LEMMA UsesLargeBro ==
  ASSUME IInv, IInv', UsesInv, IsFiniteSet(Handles), LargeBro
  PROVE  UsesInv'
<1>1. CASE Return("error") /\ UNCHANGED <<memory, arena, frags, live>>
  <2>1. CallersBlock'
    BY <1>1 DEF Return, CallersBlock, InMalloc, SmallCall, OpeningPage, FreeingSmall
  <2> QED
    BY <1>1, <2>1, UsesIdle DEF LargeBro, arena, Crashes, Excused, OpeningPage
<1>2. ASSUME NEW p \in Page, pc = "large_bro",
             mapped' = MapAs(p, PagesFor(req), "huge"),
             blocks' = WithHeader(At(p, 0),
               [type |-> "HUGE", size |-> req, page |-> p]),
             live' = [live EXCEPT ![handle] =
                        [page |-> p, off |-> 0, size |-> req]],
             Return("ok"), UNCHANGED <<page_hdr, arena, frags>>
      PROVE  UsesInv'
  <2> DEFINE hdr == [type |-> "HUGE", size |-> req, page |-> p]
             a == At(p, 0)
  <2>1. blocks' = WithHeader(a, hdr) /\ a.off = 0
    BY <1>2 DEF At
  <2> HIDE DEF hdr, a
  <2>2. /\ DOMAIN blocks' = DOMAIN blocks \cup {a}
        /\ \A x \in DOMAIN blocks : x # a => blocks'[x] = blocks[x]
    BY <2>1 DEF WithHeader
  <2>3. handle \in Handles /\ live[handle] = NoBlock
    BY <1>2 DEF UsesInv, CallersBlock, InMalloc
  <2>4. /\ live'[handle].off = 0
        /\ \A h \in Handles : h # handle => live'[h] = live[h]
    BY <1>2, <2>3 DEF IInv, TypeOK
  <2>5. Small' = Small
    BY <2>3, <2>4 DEF Small, Live, NoBlock
  <2>6. \A h \in Small : Address(h)' = Address(h) /\ Address(h) # a
    BY <2>1, <2>3, <2>4 DEF Small, Live, Address, At
  <2>7. MayBeCharged' = MayBeCharged
    BY <1>2, <2>2, <2>5, <2>6 DEF MayBeCharged, Header, arena
  <2>8. Is(current_page, "norm")' => Is(current_page, "norm")
    BY <1>2 DEF Is, MapAs, arena
  <2>9. UsesBounded' /\ UsesSome'
    BY <1>2, <2>5, <2>7, <2>8
    DEF UsesInv, UsesBounded, UsesSome, Unused, OpeningPage, arena, Crashes
  <2>10. CallersBlock'
    BY <1>2 DEF Return, CallersBlock, InMalloc, SmallCall, OpeningPage, FreeingSmall
  <2>11. HugeHeads'
    BY <2>1, <2>2 DEF UsesInv, HugeHeads
  <2> QED
    BY <2>9, <2>10, <2>11 DEF UsesInv
<1> QED
  BY <1>1, <1>2 DEF LargeBro

(* What the free of a block leaves. *)
LEMMA UsesFreed ==
  ASSUME IInv, UsesInv, NEW h \in Live, live' = [live EXCEPT ![h] = NoBlock]
  PROVE  /\ Small' = Small \ {h}
         /\ \A g \in Small' : Address(g)' = Address(g)
<1>1. h \in Handles /\ \A g \in Handles : live'[g] = IF g = h THEN NoBlock ELSE live[g]
  BY DEF Live, IInv, TypeOK
<1> QED
  BY <1>1 DEF Small, Live, Address

LEMMA UsesLargeFreeBro ==
  ASSUME IInv, IInv', UsesInv, IsFiniteSet(Handles), LargeFreeBro
  PROVE  UsesInv'
<1>1. /\ pc = "large_free_bro" /\ handle \in Live /\ handle \notin Small
      /\ live' = [live EXCEPT ![handle] = NoBlock]
      /\ Unmap(block.page) /\ Return("ok") /\ UNCHANGED <<page_hdr, arena>>
  BY DEF LargeFreeBro, UsesInv, CallersBlock, Small, Address, At
<1>2. /\ Small' = Small /\ \A g \in Small : Address(g)' = Address(g)
  BY <1>1, UsesFreed
<1>3. /\ DOMAIN blocks' \subseteq DOMAIN blocks
      /\ \A a \in DOMAIN blocks' : blocks'[a] = blocks[a]
  BY <1>1 DEF Unmap, WithoutPage
<1>4. MayBeCharged \subseteq MayBeCharged'
  BY <1>1, <1>2, <1>3 DEF MayBeCharged, Header, ZeroHeader, arena
<1>5. Cardinality(MayBeCharged) <= Cardinality(MayBeCharged')
  BY <1>4, MayBeFinitePrime, FS_Subset
<1>6. Is(current_page, "norm")' => Is(current_page, "norm")
  BY <1>1 DEF Unmap, Is, IInv, TypeOK, arena
<1>7. UsesBounded'
  <2> SUFFICES ASSUME Is(current_page, "norm")'
               PROVE  page_hdr'[current_page'].usages <= Cardinality(MayBeCharged')
    BY DEF UsesBounded
  <2>1. page_hdr[current_page].usages \in Int /\ page_hdr' = page_hdr
        /\ current_page' = current_page
    BY <1>1, <1>6 DEF IInv, TypeOK, PageHeader, Is, arena
  <2> QED
    BY <1>5, <1>6, <2>1, MayBeFinite, MayBeFinitePrime DEF UsesInv, UsesBounded
<1>8. UsesSome'
  BY <1>1, <1>2, <1>6 DEF UsesInv, UsesSome, Unused, OpeningPage, arena, Crashes
<1>9. CallersBlock'
  BY <1>1 DEF Return, CallersBlock, InMalloc, SmallCall, OpeningPage, FreeingSmall
<1> QED
  BY <1>3, <1>7, <1>8, <1>9 DEF UsesInv, HugeHeads

LEMMA UsesDropUsage ==
  ASSUME IInv, IInv', UsesInv, IsFiniteSet(Handles), DropUsage
  PROVE  UsesInv'
<1> DEFINE p == Header(block).page
<1>1. CASE Crash(Fault(p))
  BY <1>1, UsesCrash DEF Fault, Crashes
<1>2. CASE ~Crash(Fault(p))
  <2>1. /\ pc = "drop_usage" /\ p \in Page /\ mapped[p] = "norm"
        /\ page_hdr' = [page_hdr EXCEPT ![p].usages = @ - 1]
        /\ IF Emptied(p) THEN Unmap(current_page) ELSE UNCHANGED <<mapped, blocks>>
        /\ live' = [live EXCEPT ![handle] = NoBlock]
        /\ Return("ok") /\ UNCHANGED <<arena, frags>>
    BY <1>2 DEF DropUsage, Is
  <2>2. /\ handle \in Live /\ block = Address(handle) /\ handle \in Small
    <3>1. block \in DOMAIN blocks
      BY <2>1, Sizes DEF Header, ZeroHeader
    <3> QED
      BY <2>1, <3>1 DEF UsesInv, CallersBlock, FreeingSmall, Small, Address, At
  <2>3. Small' = Small \ {handle} /\ \A g \in Small' : Address(g)' = Address(g)
    BY <2>1, <2>2, UsesFreed
  <2>4. CallersBlock'
    BY <2>1 DEF Return, CallersBlock, InMalloc, SmallCall, OpeningPage, FreeingSmall
  <2>5. HugeHeads'
    BY <2>1 DEF UsesInv, HugeHeads, Unmap, WithoutPage
  <2>6. SUFFICES ASSUME Is(current_page, "norm")'
                 PROVE  UsesBounded' /\ UsesSome'
    BY <2>4, <2>5 DEF UsesInv, UsesBounded, UsesSome
  <2>7. ~Emptied(p) /\ UNCHANGED <<mapped, blocks, current_page, touched>>
        /\ Is(current_page, "norm")
    BY <2>1, <2>6 DEF Unmap, Is, IInv, TypeOK, arena
  <2>8. /\ page_hdr'[p].usages = page_hdr[p].usages - 1
        /\ \A q \in Page : q # p => page_hdr'[q] = page_hdr[q]
        /\ page_hdr[p].usages \in Int /\ page_hdr[p].usages # 1
        /\ current_page \in Page /\ page_hdr[current_page].usages \in Int
    BY <2>1, <2>7 DEF IInv, TypeOK, PageHeader, Emptied, Is
  <2>9. MayBeCharged' = MayBeCharged \ {handle}
    <3>1. \A g \in Small' : Header(Address(g))' = Header(Address(g))
      BY <2>3, <2>7 DEF Header
    <3> QED
      BY <2>3, <2>7, <3>1 DEF MayBeCharged
  <2>10. page_hdr[current_page].usages <= Cardinality(MayBeCharged)
    BY <2>7 DEF UsesInv, UsesBounded
  <2>11. page_hdr[current_page].usages >= 1
    <3>1. Small # {} /\ ~OpeningPage
      BY <2>1, <2>2 DEF OpeningPage
    <3> QED
      BY <2>1, <2>7, <3>1 DEF UsesInv, UsesSome, Unused, Crashes
  <2>12. CASE p = current_page
    <3>1. handle \in MayBeCharged
      BY <2>2, <2>12 DEF MayBeCharged
    <3>2. Cardinality(MayBeCharged') = Cardinality(MayBeCharged) - 1
      BY <2>9, <3>1, MayBeFinite, FS_RemoveElement
    <3>3. page_hdr'[current_page'].usages = page_hdr[current_page].usages - 1
      BY <2>7, <2>8, <2>12
    <3> QED
      BY <2>8, <2>10, <2>11, <2>12, <3>2, <3>3, MayBeFinite DEF UsesBounded, UsesSome
  <2>13. CASE p # current_page
    <3>1. handle \notin MayBeCharged
      BY <2>1, <2>2, <2>13, Sizes DEF MayBeCharged
    <3>2. MayBeCharged' = MayBeCharged
      BY <2>9, <3>1
    <3>3. page_hdr'[current_page'].usages = page_hdr[current_page].usages
      BY <2>7, <2>8, <2>13
    <3> QED
      BY <2>10, <2>11, <3>2, <3>3 DEF UsesBounded, UsesSome
  <2> QED
    BY <2>12, <2>13
<1> QED
  BY <1>1, <1>2

LEMMA UsesInsertFragment ==
  ASSUME IInv, IInv', UsesInv, IsFiniteSet(Handles), InsertFragment
  PROVE  UsesInv'
<1>1. ASSUME NEW q, Crash(Fault(q)) PROVE UsesInv'
  BY <1>1, UsesCrash DEF Fault, Crashes
<1>2. CASE Crash("wild")
  BY <1>2, UsesCrash DEF Crashes
<1>3. ASSUME Inserted, UNCHANGED <<arena, call, client>>, pc = "insert_fragment",
             DOMAIN blocks' \subseteq DOMAIN blocks
      PROVE  CallersBlock' /\ (Excused => Excused')
  <2>1. /\ OpeningPage => OpeningPage' /\ next_page_ptr' = next_page_ptr /\ InMalloc
        /\ ~OpeningPage => pc' = "drop_usage" /\ FreeingSmall
        /\ OpeningPage <=> next_page_ptr # nullptr
    BY <1>3 DEF Inserted, CalledByMalloc, OpeningPage, call, InMalloc, FreeingSmall
  <2>2. CASE OpeningPage
    <3>1. handle' \in Handles /\ live'[handle'] = NoBlock
      BY <1>3, <2>1, <2>2 DEF UsesInv, CallersBlock, call, client
    <3>2. pc' = "link_page"
      BY <1>3, <2>1, <2>2 DEF Inserted, CalledByMalloc
    <3>3. ~FreeingSmall'
      BY <3>2 DEF FreeingSmall
    <3> QED
      BY <1>3, <2>1, <3>1, <3>2, <3>3 DEF CallersBlock, Excused, arena
  <2>3. CASE ~OpeningPage
    <3>1. /\ handle' \in Live' /\ block' = Address(handle)'
          /\ block'.off # 0 \/ block' \notin DOMAIN blocks'
      BY <1>3, <2>1, <2>3 DEF UsesInv, CallersBlock, call, client, Live, Address
    <3>2. pc' = "drop_usage"
      BY <2>1, <2>3
    <3>3. ~InMalloc'
      BY <3>2 DEF InMalloc, SmallCall, OpeningPage
    <3> QED
      BY <2>3, <3>1, <3>2, <3>3 DEF CallersBlock, Excused
  <2> QED
    BY <2>2, <2>3
<1>4. CASE Inserted /\ UNCHANGED <<memory, arena, frags, call, client>>
  BY <1>3, <1>4, UsesIdle DEF InsertFragment, memory, arena, client, Crashes
<1>5. ASSUME Inserted, Header(block).size # 0, pc = "insert_fragment",
             blocks' = WithHeader(block, [Header(block) EXCEPT !.type = "FREE"]),
             UNCHANGED <<page_hdr, arena, call, client>>,
             Is(current_page, "norm")' => Is(current_page, "norm")
      PROVE  UsesInv'
  <2>1. block \in DOMAIN blocks /\ Header(block) = blocks[block]
        /\ blocks[block] \in BlockHeader
    BY <1>5 DEF Header, ZeroHeader, IInv, TypeOK
  <2> DEFINE hdr == [Header(block) EXCEPT !.type = "FREE"]
  <2>2. hdr.type = "FREE" /\ hdr.page = blocks[block].page
    BY <2>1 DEF BlockHeader
  <2> HIDE DEF hdr
  <2>3. /\ DOMAIN blocks' = DOMAIN blocks /\ blocks'[block] = hdr
        /\ \A x \in DOMAIN blocks : x # block => blocks'[x] = blocks[x]
    <3>1. blocks' = WithHeader(block, hdr)
      BY <1>5 DEF hdr
    <3> QED
      BY <2>1, <3>1 DEF WithHeader
  <2>4. CallersBlock' /\ (Excused => Excused')
    BY <1>3, <1>5, <2>3
  <2>5. \A h \in Small : Header(Address(h))'.page = Header(Address(h)).page
    <3>1. \A h \in Small : Address(h)' = Address(h)
      BY <1>5 DEF Address, client
    <3> QED
      BY <2>2, <2>3, <3>1 DEF Header
  <2>6. UsesBounded'
    BY <1>5, <2>5, BoundStays DEF IInv, arena, client
  <2>7. UsesSome'
    BY <1>5, <2>4, SomeStays DEF arena, client, Crashes
  <2>8. HugeHeads'
    BY <2>2, <2>3 DEF UsesInv, HugeHeads
  <2> QED
    BY <2>4, <2>6, <2>7, <2>8 DEF UsesInv
<1>6. CASE /\ CalledByMalloc /\ pc' = "undo_open_page" /\ UNCHANGED <<call, ret>>
           /\ pc = "insert_fragment" /\ UNCHANGED <<memory, arena, live>>
  <2>1. OpeningPage /\ OpeningPage' /\ pc \notin Crashes
    BY <1>6 DEF OpeningPage, CalledByMalloc, Crashes
  <2>2. CallersBlock'
    BY <1>6, <2>1 DEF UsesInv, CallersBlock, InMalloc, FreeingSmall, call
  <2> QED
    BY <1>6, <2>1, <2>2, UsesIdle DEF Excused, call, arena
<1>7. CASE /\ ~CalledByMalloc /\ Return("error") /\ pc = "insert_fragment"
           /\ UNCHANGED <<memory, arena, live>>
  <2>1. ~OpeningPage
    BY <1>7 DEF OpeningPage, CalledByMalloc
  <2>2. CallersBlock'
    BY <1>7 DEF Return, CallersBlock, InMalloc, SmallCall, OpeningPage, FreeingSmall
  <2> QED
    BY <1>7, <2>1, <2>2, UsesIdle DEF Excused, arena, Crashes
<1>8. \A p \in Page : mapped' = MapAs(p, 1, "frag") /\ UNCHANGED arena
        => (Is(current_page, "norm")' => Is(current_page, "norm"))
  BY DEF MapAs, Is, arena
<1>9. CASE UNCHANGED mapped /\ UNCHANGED arena
  <2>1. Is(current_page, "norm")' => Is(current_page, "norm")
    BY <1>9 DEF Is, arena
  <2> QED
    BY <1>1, <1>2, <1>4, <1>5, <1>6, <1>7, <2>1 DEF InsertFragment
<1> QED
  BY <1>1, <1>2, <1>4, <1>5, <1>6, <1>7, <1>8, <1>9 DEF InsertFragment, Crash, memory

LEMMA UsesUnchanged ==
  ASSUME UsesInv, UNCHANGED vars
  PROVE  UsesInv'
<1> USE DEF vars, memory, arena, frags, call, client
<1>1. Small' = Small /\ Live' = Live /\ \A h : Address(h)' = Address(h)
  BY DEF Small, Live, Address
<1>2. MayBeCharged' = MayBeCharged
  BY <1>1 DEF MayBeCharged, Header
<1> QED
  BY <1>1, <1>2 DEF UsesInv, UsesBounded, UsesSome, Unused, CallersBlock, HugeHeads,
                    InMalloc, OpeningPage, FreeingSmall, Is

LEMMA UsesClientWrites ==
  ASSUME IInv, UsesInv, IsFiniteSet(Handles), ClientWrites
  PROVE  UsesInv'
BY UsesCrash DEF ClientWrites, Crashes

LEMMA UsesInStep ==
  ASSUME IInv, IInv', UsesInv, IsFiniteSet(Handles), Step
  PROVE  UsesInv'
BY UsesFirstSetup, UsesFindAvailableFragment, UsesNoGoodFragments, UsesOpenPage,
   UsesUndoOpenPage, UsesLinkPage, UsesFixBlockHeader, UsesLargeBro,
   UsesLargeFreeBro, UsesDropUsage, UsesInsertFragment, UsesClientWrites
DEF Step

(* A page without a block in use has been unmapped, or nothing was ever    *)
(* made of it.                                                             *)
LEMMA EmptyGone ==
  ASSUME IInv, UsesInv, pc = "idle", Live = {}
  PROVE  ~Is(current_page, "norm") \/ touched = PHEADERSIZE
<1>1. MayBeCharged = {}
  BY DEF MayBeCharged, Small
<1>2. Cardinality(MayBeCharged) = 0
  BY <1>1, FS_EmptySet
<1> QED
  BY <1>2 DEF UsesInv, UsesBounded, UsesSome, Unused, Crashes, OpeningPage, IInv,
              TypeOK, PageHeader, Is

(***************************************************************************)
(* The uses of a page, for a client that keeps the rules.                  *)
(***************************************************************************)

LEMMA ChargesKept ==
  ASSUME RInv, RInv', Small' = Small,
         \A h \in Small : /\ Address(h)' = Address(h)
                          /\ blocks'[Address(h)].page = blocks[Address(h)].page,
         NEW p \in Page
  PROVE  ChargedTo(p)' = ChargedTo(p)
<1>1. \A h \in Small : Address(h) \in DOMAIN blocks
  BY DEF RInv, LiveHeaders, Small
<1>2. \A h \in Small : Address(h) \in DOMAIN blocks'
  <2>1. ASSUME NEW h \in Small PROVE Address(h)' \in DOMAIN blocks'
    <3>1. h \in Small'
      OBVIOUS
    <3> QED
      BY <3>1 DEF RInv, LiveHeaders, Small
  <2> QED
    BY <2>1
<1> QED
  BY <1>1, <1>2 DEF ChargedTo, Header

(* Uses of a page that no block in use accounts for: a step of a single    *)
(* process adds none and takes none away.                                  *)
Extra(p) == page_hdr[p].usages - Cardinality(ChargedTo(p))
UsesSteady ==
  \A p \in Page : mapped'[p] = "norm" =>
    Extra(p)' = 0 \/ (mapped[p] = "norm" /\ Extra(p)' = Extra(p))

LEMMA ChargesFinite ==
  ASSUME IsFiniteSet(Handles), NEW p \in Page
  PROVE  IsFiniteSet(ChargedTo(p)) /\ Cardinality(ChargedTo(p)) \in Nat
<1>1. ChargedTo(p) \subseteq Handles
  BY DEF ChargedTo, Small, Live
<1> QED
  BY <1>1, FS_Subset, FS_CardinalityType

LEMMA UsesKept ==
  ASSUME RInv, RInv', Small' = Small,
         \A h \in Small : /\ Address(h)' = Address(h)
                          /\ blocks'[Address(h)].page = blocks[Address(h)].page,
         \A p \in Page : mapped'[p] = "norm" =>
           mapped[p] = "norm" /\ page_hdr'[p].usages = page_hdr[p].usages
  PROVE  UsesSteady
<1>1. ASSUME NEW p \in Page, mapped'[p] = "norm"
      PROVE  mapped[p] = "norm" /\ Extra(p)' = Extra(p)
  BY <1>1, ChargesKept DEF Extra
<1> QED
  BY <1>1 DEF UsesSteady

(* A new page is charged for nothing. *)
LEMMA UsesOfNewPage ==
  ASSUME IInv, RInv, RInv', NEW q \in Page, CanMap(q, 1),
         mapped' = MapAs(q, 1, "norm"),
         page_hdr' = [page_hdr EXCEPT ![q] = BlankPage],
         blocks' = blocks, live' = live
  PROVE  UsesSteady
<1>1. /\ mapped[q] = "none" /\ mapped'[q] = "norm"
      /\ \A p \in Page : p # q => mapped'[p] = mapped[p]
  BY FreshPage DEF IInv
<1>2. Small' = Small /\ \A h \in Handles : Address(h)' = Address(h)
  BY DEF Small, Live, Address
<1>3. \A p \in Page : ChargedTo(p)' = ChargedTo(p)
  BY <1>2, ChargesKept DEF Small, Live
<1>4. ChargedTo(q) = {}
  <2>1. \A h \in Small : Header(Address(h)).page # q
    BY <1>1 DEF RInv, LiveHeaders, Small, Header, Is, Address, At
  <2> QED
    BY <2>1 DEF ChargedTo
<1>5. page_hdr'[q].usages = 0 /\ \A p \in Page : p # q => page_hdr'[p] = page_hdr[p]
  BY DEF BlankPage, IInv, TypeOK
<1>6. Cardinality(ChargedTo(q)') = 0
  BY <1>3, <1>4, FS_EmptySet
<1> QED
  BY <1>1, <1>3, <1>5, <1>6 DEF UsesSteady, Extra

LEMMA UsesFixed ==
  ASSUME IInv, RInv, RInv', IsFiniteSet(Handles), FixBlockHeader
  PROVE  UsesSteady
<1> USE DEF memory
<1>1. CASE \E how \in Crashes : Crash(how)
  <2>1. Small' = Small /\ \A h \in Handles : Address(h)' = Address(h)
    BY <1>1 DEF Crash, client, Small, Live, Address
  <2> QED
    BY <1>1, <2>1, UsesKept DEF Crash, Small, Live
<1>2. ASSUME blocks' = WithHeader(block,
               [type |-> "USED", size |-> req, page |-> current_page]),
             Is(current_page, "norm"), pc = "fix_block_header",
             page_hdr' = [page_hdr EXCEPT ![ChargedPage].usages = @ + 1],
             live' = [live EXCEPT ![handle] =
                       [page |-> block.page, off |-> block.off, size |-> req]],
             UNCHANGED <<mapped, current_page>>
      PROVE  UsesSteady
  <2> DEFINE b == [page |-> block.page, off |-> block.off, size |-> req]
  <2>1. /\ handle \in Handles /\ live[handle] = NoBlock
        /\ block \in [page : Page, off : Nat] /\ block.off # 0
        /\ \A h \in Live : Address(h) # block
    BY <1>2 DEF RInv, MallocCalled, InMalloc, SmallCall, IInv, TypeOK, CallOK, Is,
                Address0
  <2>2. /\ b # NoBlock /\ b.off # 0 /\ At(b.page, b.off) = block
        /\ live'[handle] = b
        /\ \A h \in Handles : h # handle => live'[h] = live[h]
    BY <1>2, <2>1 DEF NoBlock, At, IInv, TypeOK
  <2> HIDE DEF b
  <2>3. Live' = Live \cup {handle} /\ handle \notin Live
    BY <2>1, <2>2 DEF Live
  <2>4. Small' = Small \cup {handle} /\ handle \notin Small
    BY <2>1, <2>2, <2>3 DEF Small, Live
  <2>5. \A h \in Small : Address(h)' = Address(h) /\ Address(h) # block
    BY <2>1, <2>2, <2>3 DEF Address, Small, Live
  <2>6. \A h \in Handles : h = handle => Address(h)' = block
    BY <2>2 DEF Address
  <2>7. /\ \A h \in Small : Header(Address(h))'.page = Header(Address(h)).page
        /\ \A h \in Handles : h = handle => Header(Address(h))'.page = current_page
    <3>1. /\ DOMAIN blocks' = DOMAIN blocks \cup {block}
          /\ blocks'[block].page = current_page
          /\ \A a \in DOMAIN blocks : a # block => blocks'[a] = blocks[a]
      BY <1>2 DEF WithHeader
    <3>2. \A h \in Small : Address(h) \in DOMAIN blocks
      BY DEF RInv, LiveHeaders, Small
    <3> QED
      BY <2>5, <2>6, <3>1, <3>2 DEF Header
  <2>8. ASSUME NEW p \in Page
        PROVE  ChargedTo(p)' = IF p = current_page THEN ChargedTo(p) \cup {handle}
                                                   ELSE ChargedTo(p)
    BY <2>1, <2>4, <2>7 DEF ChargedTo, Small, Live
  <2>9. /\ current_page \in Page
        /\ page_hdr'[current_page].usages = page_hdr[current_page].usages + 1
        /\ \A p \in Page : p # current_page => page_hdr'[p] = page_hdr[p]
    BY <1>2 DEF ChargedPage, Is, IInv, TypeOK, PageHeader
  <2>10. ASSUME NEW p \in Page
         PROVE  /\ IsFiniteSet(ChargedTo(p)) /\ handle \notin ChargedTo(p)
                /\ Cardinality(ChargedTo(p) \cup {handle})
                     = Cardinality(ChargedTo(p)) + 1
    <3>1. ChargedTo(p) \subseteq Handles /\ handle \notin ChargedTo(p)
      BY <2>4 DEF ChargedTo, Small, Live
    <3>2. IsFiniteSet(ChargedTo(p))
      BY <3>1, FS_Subset
    <3> QED
      BY <3>1, <3>2, FS_AddElement
  <2>11. ASSUME NEW p \in Page, mapped'[p] = "norm"
         PROVE  mapped[p] = "norm" /\ Extra(p)' = Extra(p)
    <3>1. /\ mapped[p] = "norm" /\ page_hdr[p].usages \in Int
          /\ Cardinality(ChargedTo(p)) \in Nat
      BY <1>2, <2>11, ChargesFinite DEF IInv, TypeOK, PageHeader
    <3>2. CASE p = current_page
      BY <2>8, <2>9, <2>10, <3>1, <3>2 DEF Extra
    <3>3. CASE p # current_page
      BY <2>8, <2>9, <3>1, <3>3 DEF Extra
    <3> QED
      BY <3>2, <3>3
  <2> QED
    BY <2>11 DEF UsesSteady
<1>3. Fault(current_page) \in Crashes /\ WritePast(block) \in Crashes
  BY DEF Fault, WritePast, Crashes
<1> QED
  BY <1>1, <1>2, <1>3 DEF FixBlockHeader

LEMMA UsesDropped ==
  ASSUME IInv, RInv, RInv', IsFiniteSet(Handles), DropUsage
  PROVE  UsesSteady
<1> DEFINE q == blocks[block].page
<1>1. /\ handle \in Live /\ handle \in Handles /\ block = Address(handle)
      /\ block.off # 0 /\ block \in DOMAIN blocks /\ Header(block) = blocks[block]
      /\ q \in Page /\ mapped[q] = "norm" /\ page_hdr[q].usages # 1
  BY DEF DropUsage, RInv, FreeCalled, FreeingSmall, LiveHeaders, Live, Header, Is
<1>2. /\ UNCHANGED <<mapped, blocks>>
      /\ page_hdr' = [page_hdr EXCEPT ![q].usages = @ - 1]
      /\ live' = [live EXCEPT ![handle] = NoBlock]
  BY <1>1 DEF DropUsage, Emptied, Is
<1>3. /\ page_hdr'[q].usages = page_hdr[q].usages - 1
      /\ \A p \in Page : p # q => page_hdr'[p] = page_hdr[p]
  BY <1>1, <1>2 DEF IInv, TypeOK, PageHeader
<1>4. handle \in ChargedTo(q) /\ \A p \in Page : handle \in ChargedTo(p) => p = q
  BY <1>1 DEF ChargedTo, Small, Address, At
<1> HIDE DEF q
<1>5. \A h \in Handles : live'[h] = IF h = handle THEN NoBlock ELSE live[h]
  BY <1>1, <1>2 DEF IInv, TypeOK
<1>6. Small' = Small \ {handle}
  BY <1>5 DEF Small, Live
<1>7. \A h \in Small' : Header(Address(h))' = Header(Address(h))
  BY <1>2, <1>5, <1>6 DEF Address, Header, Small, Live
<1>8. \A p \in Page : ChargedTo(p)' = ChargedTo(p) \ {handle}
  BY <1>6, <1>7 DEF ChargedTo
<1>9. ASSUME NEW p \in Page, mapped'[p] = "norm"
      PROVE  mapped[p] = "norm" /\ Extra(p)' = Extra(p)
  <2>1. mapped[p] = "norm" /\ page_hdr[p].usages \in Int
    BY <1>2, <1>9 DEF IInv, TypeOK, PageHeader
  <2>2. IsFiniteSet(ChargedTo(p)) /\ Cardinality(ChargedTo(p)) \in Nat
    BY ChargesFinite
  <2>3. CASE p = q
    <3>1. Cardinality(ChargedTo(p) \ {handle}) = Cardinality(ChargedTo(p)) - 1
      BY <1>4, <2>2, <2>3, FS_RemoveElement
    <3> QED
      BY <1>3, <1>8, <2>1, <2>2, <2>3, <3>1 DEF Extra
  <2>4. CASE p # q
    BY <1>3, <1>4, <1>8, <2>1, <2>4 DEF Extra
  <2> QED
    BY <2>3, <2>4
<1> QED
  BY <1>9 DEF UsesSteady

(* What linking page n after page c changes. *)
LinkAfter(H, n, c) ==
  [H EXCEPT ![n].usages = 0, ![n].prev_page = c, ![c].next_page = n]

LEMMA LinkedHeaders ==
  ASSUME NEW H \in [Page -> PageHeader], NEW n \in Page, NEW c \in Page, n # c,
         NEW G, G = LinkAfter(H, n, c)
  PROVE  /\ G[n].usages = 0 /\ G[n].prev_page = c
         /\ G[c].next_page = n /\ G[c].usages = H[c].usages
         /\ G[c].prev_page = H[c].prev_page
         /\ G[n].next_page = H[n].next_page
         /\ \A p \in Page : p # n /\ p # c => G[p] = H[p]
<1> DEFINE H1 == [H EXCEPT ![n].usages = 0]
           H2 == [H1 EXCEPT ![n].prev_page = c]
           H3 == [H2 EXCEPT ![c].next_page = n]
<1>1. \A x \in PageHeader, v \in Page :
        /\ [x EXCEPT !.usages = 0].usages = 0
        /\ [x EXCEPT !.usages = 0].next_page = x.next_page
        /\ [x EXCEPT !.prev_page = v].usages = x.usages
        /\ [x EXCEPT !.prev_page = v].prev_page = v
        /\ [x EXCEPT !.prev_page = v].next_page = x.next_page
        /\ [x EXCEPT !.next_page = v].usages = x.usages
        /\ [x EXCEPT !.next_page = v].prev_page = x.prev_page
        /\ [x EXCEPT !.next_page = v].next_page = v
  BY DEF PageHeader
<1>2. G = H3
  BY DEF LinkAfter
<1>3. /\ H1 \in [Page -> PageHeader] /\ H1[n] = [H[n] EXCEPT !.usages = 0]
      /\ \A p \in Page : p # n => H1[p] = H[p]
  <2>1. H1 \in [Page -> PageHeader]
    BY UsagesFacts
  <2>2. H1[n] = [H[n] EXCEPT !.usages = 0] /\ \A p \in Page : p # n => H1[p] = H[p]
    OBVIOUS
  <2> QED
    BY <2>1, <2>2
<1> HIDE DEF H1
<1>4. /\ H2 \in [Page -> PageHeader] /\ H2[n] = [H1[n] EXCEPT !.prev_page = c]
      /\ \A p \in Page : p # n => H2[p] = H1[p]
  BY <1>3, LinkFacts
<1> HIDE DEF H2
<1>5. /\ H3[c] = [H2[c] EXCEPT !.next_page = n]
      /\ \A p \in Page : p # c => H3[p] = H2[p]
  BY <1>4
<1> HIDE DEF H3
<1>6. H[n] \in PageHeader /\ H1[n] \in PageHeader /\ H2[c] \in PageHeader
  BY <1>3, <1>4
<1>7. /\ H1[n].usages = 0 /\ H1[n].next_page = H[n].next_page
      /\ H2[n].usages = H1[n].usages /\ H2[n].prev_page = c
      /\ H2[n].next_page = H1[n].next_page
      /\ H3[c].usages = H2[c].usages /\ H3[c].prev_page = H2[c].prev_page
      /\ H3[c].next_page = n
  BY <1>1, <1>3, <1>4, <1>5, <1>6
<1>8. H2[c] = H[c] /\ H3[n] = H2[n]
      /\ \A p \in Page : p # n /\ p # c => H3[p] = H[p]
  BY <1>3, <1>4, <1>5
<1> QED
  BY <1>2, <1>7, <1>8

(* Steps that leave the client's blocks alone. *)
LEMMA UsesQuiet ==
  ASSUME RInv, RInv', live' = live,
         \A h \in Small : blocks'[Address(h)].page = blocks[Address(h)].page,
         \A p \in Page : mapped'[p] = "norm" =>
           mapped[p] = "norm" /\ page_hdr'[p].usages = page_hdr[p].usages
  PROVE  UsesSteady
<1>1. Small' = Small /\ \A h \in Handles : Address(h)' = Address(h)
  BY DEF Small, Live, Address
<1> QED
  BY <1>1, UsesKept DEF Small, Live

LEMMA UsesStep ==
  ASSUME IInv, RInv, RInv', IsFiniteSet(Handles), [Next]_vars
  PROVE  UsesSteady
<1>1. ASSUME UNCHANGED <<memory, live>> PROVE UsesSteady
  BY <1>1, UsesQuiet DEF memory
<1>2. ASSUME NEW how, Crash(how) PROVE UsesSteady
  BY <1>1, <1>2 DEF Crash, client
<1>3. CASE \/ \E h \in Handles, n \in Requests : MallocCall(h, n)
           \/ \E h \in Handles : FreeCall(h)
           \/ UNCHANGED vars
  BY <1>1, <1>2, <1>3 DEF MallocCall, FreeCall, client, vars
<1>4. CASE FirstSetup
  BY <1>1, <1>4, UsesOfNewPage DEF FirstSetup, client
<1>5. CASE FindAvailableFragment
  <2>1. ASSUME NEW i \in 1..Len(fragments), RemoveFragment(i), live' = live
        PROVE  UsesSteady
    <3>1. Len(fragments) = 1 /\ first_fragment_list_header \in Page
      BY DEF IInv, ListHasOne
    <3>2. Unmap(first_fragment_list_header) /\ page_hdr' = page_hdr
      BY <2>1, <3>1 DEF RemoveFragment
    <3>3. BlocksKept
      BY <3>1, <3>2, FragmentPageGone
    <3>4. \A p \in Page : mapped'[p] = "norm" => mapped[p] = "norm"
      BY <3>1, <3>2 DEF Unmap, IInv, TypeOK
    <3>5. \A h \in Small : Address(h) \in DOMAIN blocks
      BY DEF RInv, LiveHeaders, Small
    <3> QED
      BY <2>1, <3>2, <3>3, <3>4, <3>5, UsesQuiet DEF BlocksKept
  <2> QED
    BY <1>1, <1>2, <1>5, <2>1 DEF FindAvailableFragment, client
<1>6. CASE NoGoodFragments
  BY <1>1, <1>2, <1>6, UsesOfNewPage DEF NoGoodFragments, client, memory
<1>7. CASE OpenPage
  <2>1. \A h \in Live : Address(h) \in DOMAIN blocks /\ Address(h) # NextAddress
    <3>1. pc = "open_page" /\ first_page_ptr # nullptr
      BY <1>7 DEF OpenPage, IInv, BeforeFirstPage, SmallCall
    <3> QED
      BY <3>1, NextFree DEF RInv, LiveHeaders
  <2>2. ASSUME NEW hdr, blocks' = WithHeader(NextAddress, hdr),
               UNCHANGED <<mapped, page_hdr, live>>
        PROVE  UsesSteady
    <3>1. \A h \in Small : blocks'[Address(h)] = blocks[Address(h)]
      BY <2>1, <2>2 DEF WithHeader, Small
    <3> QED
      BY <2>2, <3>1, UsesQuiet
  <2> QED
    BY <1>2, <1>7, <2>2 DEF OpenPage, NextAddress, client
<1>8. CASE UndoOpenPage
  <2>1. \A h \in Small : blocks'[Address(h)] = blocks[Address(h)]
    BY <1>8 DEF UndoOpenPage, Unmap, WithoutPage, RInv, NextPageFresh, OpeningPage,
                LiveHeaders, Small
  <2>2. \A p \in Page : mapped'[p] = "norm" => mapped[p] = "norm"
    BY <1>8 DEF UndoOpenPage, Unmap, IInv, TypeOK
  <2> QED
    BY <1>8, <2>1, <2>2, UsesQuiet DEF UndoOpenPage
<1>9. CASE LinkPage
  <2>1. pc = "link_page" /\ Is(next_page_ptr, "norm")
        /\ \A h \in Small : blocks[Address(h)].page # next_page_ptr
    BY <1>9 DEF LinkPage, RInv, NextPageFresh, OpeningPage
  <2>2. ChargedTo(next_page_ptr) = {}
    BY <2>1 DEF ChargedTo, Header, RInv, LiveHeaders, Small
  <2>3. ASSUME NEW p \in Page PROVE ChargedTo(p)' = ChargedTo(p)
    <3>1. live' = live /\ blocks' = blocks
      BY <1>9 DEF LinkPage, client
    <3> QED
      BY <3>1 DEF ChargedTo, Small, Live, Address, Header
  <2>4. /\ page_hdr'[next_page_ptr].usages = 0
        /\ \A p \in Page : p # next_page_ptr =>
             page_hdr'[p].usages = page_hdr[p].usages
    <3>1. /\ page_hdr \in [Page -> PageHeader]
          /\ next_page_ptr \in Page /\ current_page \in Page
          /\ next_page_ptr # current_page
      BY <2>1 DEF RInv, NextPageFresh, PagesThere, OpeningPage, IInv, TypeOK,
                  BeforeFirstPage, SmallCall, Is
    <3>2. page_hdr' = LinkAfter(page_hdr, next_page_ptr, current_page)
      BY <1>9 DEF LinkPage, LinkAfter
    <3>3. /\ page_hdr'[next_page_ptr].usages = 0
          /\ page_hdr'[current_page].usages = page_hdr[current_page].usages
          /\ \A p \in Page : p # next_page_ptr /\ p # current_page =>
               page_hdr'[p] = page_hdr[p]
      BY <3>1, <3>2, LinkedHeaders
    <3> QED
      BY <3>3
  <2>5. mapped' = mapped /\ next_page_ptr \in Page
    BY <1>9, <2>1 DEF LinkPage, Is
  <2>6. ASSUME NEW p \in Page PROVE Extra(p)' = 0 \/ Extra(p)' = Extra(p)
    <3>1. CASE p = next_page_ptr
      BY <2>2, <2>3, <2>4, <3>1, FS_EmptySet DEF Extra
    <3>2. CASE p # next_page_ptr
      BY <2>3, <2>4, <3>2 DEF Extra
    <3> QED
      BY <3>1, <3>2
  <2> QED
    BY <2>5, <2>6 DEF UsesSteady
<1>10. CASE FixBlockHeader
  BY <1>10, UsesFixed
<1>11. CASE LargeBro
  <2>1. ASSUME NEW p \in Page, CanMap(p, PagesFor(req)),
               mapped' = MapAs(p, PagesFor(req), "huge"),
               blocks' = WithHeader(At(p, 0),
                           [type |-> "HUGE", size |-> req, page |-> p]),
               live' = [live EXCEPT ![handle] = [page |-> p, off |-> 0, size |-> req]],
               page_hdr' = page_hdr, pc = "large_bro"
        PROVE  UsesSteady
    <3>1. handle \in Handles /\ live[handle] = NoBlock
      BY <2>1 DEF RInv, MallocCalled, InMalloc
    <3>2. \A h \in Handles : h # handle => live'[h] = live[h]
      BY <2>1 DEF IInv, TypeOK
    <3>3. live'[handle].off = 0
      BY <2>1, <3>1 DEF IInv, TypeOK
    <3>4. Small' = Small /\ handle \notin Small
      BY <3>1, <3>2, <3>3 DEF Small, Live
    <3>5. \A h \in Small : Address(h)' = Address(h) /\ Address(h) # At(p, 0)
                           /\ Address(h) \in DOMAIN blocks
      BY <3>2, <3>4 DEF Small, Live, Address, At, RInv, LiveHeaders
    <3>6. \A h \in Small : blocks'[Address(h)] = blocks[Address(h)]
      BY <2>1, <3>5 DEF WithHeader
    <3>7. \A q \in Page : mapped'[q] = "norm" => mapped[q] = "norm"
      BY <2>1 DEF MapAs
    <3> QED
      BY <2>1, <3>4, <3>5, <3>6, <3>7, UsesKept
  <2> QED
    BY <1>1, <1>11, <2>1 DEF LargeBro, client
<1>12. CASE LargeFreeBro
  <2>1. /\ handle \in Live /\ block = Address(handle) /\ block.off = 0
        /\ Is(block.page, "huge")
    BY <1>12 DEF LargeFreeBro, RInv, FreeCalled, LiveHeaders, HeadersThere, Readable
  <2>2. \A h \in Handles : live'[h] = IF h = handle THEN NoBlock ELSE live[h]
    BY <1>12 DEF LargeFreeBro, IInv, TypeOK
  <2>3. Small' = Small /\ handle \notin Small
    BY <2>1, <2>2 DEF Small, Live, Address, At
  <2>4. \A h \in Small : Address(h)' = Address(h)
    BY <2>2, <2>3 DEF Small, Live, Address
  <2>5. ASSUME NEW h \in Small PROVE blocks'[Address(h)] = blocks[Address(h)]
    <3>1. Address(h) \in DOMAIN blocks /\ Is(Address(h).page, "norm")
      BY DEF RInv, LiveHeaders, HeadersThere, Readable, Small, Address, At
    <3> QED
      BY <1>12, <2>1, <3>1 DEF LargeFreeBro, Unmap, WithoutPage, Is
  <2>6. \A p \in Page : mapped'[p] = "norm" => mapped[p] = "norm"
    BY <1>12 DEF LargeFreeBro, Unmap, IInv, TypeOK
  <2> QED
    BY <1>12, <2>3, <2>4, <2>5, <2>6, UsesKept DEF LargeFreeBro
<1>13. CASE DropUsage
  BY <1>13, UsesDropped
<1>14. CASE InsertFragment
  <2>1. pc = "insert_fragment" /\ block \in DOMAIN blocks
    BY <1>14, RInserting DEF InsertFragment
  <2>2. ASSUME blocks' = WithHeader(block, [Header(block) EXCEPT !.type = "FREE"]),
               \A p \in Page : mapped'[p] = "norm" => mapped[p] = "norm",
               UNCHANGED <<page_hdr, live>>
        PROVE  UsesSteady
    <3>1. [Header(block) EXCEPT !.type = "FREE"].page = blocks[block].page
      BY <2>1 DEF Header, IInv, TypeOK, BlockHeader
    <3>2. \A a \in DOMAIN blocks : blocks'[a].page = blocks[a].page
      <4>1. blocks'[block] = [Header(block) EXCEPT !.type = "FREE"]
        BY <2>1, <2>2 DEF WithHeader
      <4>2. blocks'[block].page = blocks[block].page
        BY <3>1, <4>1
      <4>3. \A a \in DOMAIN blocks : a # block => blocks'[a] = blocks[a]
        BY <2>2 DEF WithHeader
      <4> QED
        BY <4>2, <4>3
    <3>3. \A h \in Small : Address(h) \in DOMAIN blocks
      BY DEF RInv, LiveHeaders, Small
    <3> QED
      BY <2>2, <3>2, <3>3, UsesQuiet
  <2>3. ASSUME NEW p, mapped' = MapAs(p, 1, "frag")
        PROVE  \A q \in Page : mapped'[q] = "norm" => mapped[q] = "norm"
    BY <2>3 DEF MapAs
  <2> QED
    BY <1>1, <1>2, <1>14, <2>2, <2>3 DEF InsertFragment, client
<1>15. CASE ClientWrites
  BY <1>2, <1>15 DEF ClientWrites
<1> QED
  BY <1>3, <1>4, <1>5, <1>6, <1>7, <1>8, <1>9, <1>10, <1>11, <1>12, <1>13, <1>14,
     <1>15
  DEF Next, Step

(* The uses counted on a page are the blocks in use that are charged to it *)
(* (fix_block_header adds one, free takes one off), for finitely many      *)
(* pointers and a client that keeps the rules.                             *)
THEOREM UsesAreExact ==
  ASSUME RulesKept, IsFiniteSet(Handles)
  PROVE  Spec => []UsagesExact
<1>1. Init => UsesCounted
  BY DEF Init, UsesCounted, Is
<1>2. IInv /\ IInv' /\ RInv /\ RInv' /\ UsesCounted /\ [Next]_vars => UsesCounted'
  <2> SUFFICES ASSUME IInv, IInv', RInv, RInv', UsesCounted, [Next]_vars,
                      NEW p \in Page, mapped'[p] = "norm"
               PROVE  page_hdr'[p].usages = Cardinality(ChargedTo(p)')
    BY DEF UsesCounted, Is
  <2>1. /\ page_hdr[p].usages \in Int /\ page_hdr'[p].usages \in Int
        /\ Cardinality(ChargedTo(p)) \in Nat /\ Cardinality(ChargedTo(p)') \in Nat
    <3>1. page_hdr[p].usages \in Int /\ page_hdr'[p].usages \in Int
      BY DEF IInv, TypeOK, PageHeader
    <3>2. ChargedTo(p)' \subseteq Handles
      BY DEF ChargedTo, Small, Live
    <3> QED
      BY <3>1, <3>2, ChargesFinite, FS_Subset, FS_CardinalityType
  <2>2. Extra(p)' = 0 \/ (mapped[p] = "norm" /\ Extra(p)' = Extra(p))
    BY UsesStep DEF UsesSteady
  <2>3. mapped[p] = "norm" => page_hdr[p].usages = Cardinality(ChargedTo(p))
    BY DEF UsesCounted, Is
  <2> QED
    BY <2>1, <2>2, <2>3 DEF Extra
<1>3. UsesCounted => UsagesExact
  BY DEF UsesCounted, UsagesExact
<1> QED
  BY <1>1, <1>2, <1>3, Invariant, RulesInvariant, PTL DEF Spec

(***************************************************************************)
(* The list of pages.                                                      *)
(***************************************************************************)

LEMMA LinksQuiet ==
  ASSUME LinksKept, pc \notin Crashes, UNCHANGED <<first_page_ptr, current_page>>,
         \A p \in Page : /\ mapped'[p] = "norm" <=> mapped[p] = "norm"
                         /\ page_hdr'[p].prev_page = page_hdr[p].prev_page
                         /\ page_hdr'[p].next_page = page_hdr[p].next_page,
         OpeningPage' <=> OpeningPage,
         OpeningPage => next_page_ptr' = next_page_ptr
  PROVE  LinksKept'
<1>1. \A p \in Page \cup {nullptr} : Is(p, "norm")' <=> Is(p, "norm")
  BY DEF Is
<1>2. \A p \in Page : Linked(p) => Linked(p)'
  BY DEF Linked, Is
<1> QED
  BY <1>1, <1>2 DEF LinksKept, Is

(* What holds of page p after page n was mapped. *)
PageKept(n, p) ==
  /\ page_hdr'[p] = page_hdr[p] /\ page_hdr[p].prev_page # n
  /\ \/ page_hdr[p].prev_page = nullptr
     \/ page_hdr[p].prev_page \in Page /\ mapped'[page_hdr[p].prev_page] = "norm"
  /\ \/ p = first_page_ptr
     \/ /\ page_hdr[p].prev_page \in Page /\ page_hdr[p].prev_page # p
        /\ page_hdr'[page_hdr[p].prev_page].next_page = p

LEMMA LinksOfNewPage ==
  ASSUME IInv, RInv, LinksKept, pc \notin Crashes, ~OpeningPage,
         NEW n \in Page, CanMap(n, 1), mapped' = MapAs(n, 1, "norm"),
         page_hdr' = [page_hdr EXCEPT ![n] = BlankPage]
  PROVE  /\ mapped[n] = "none" /\ mapped'[n] = "norm"
         /\ page_hdr'[n].prev_page = nullptr
         /\ \A p \in Page : p # n => mapped'[p] = mapped[p]
         /\ \A p \in Page : mapped[p] = "norm" => PageKept(n, p)
<1>1. mapped[n] = "none" /\ mapped'[n] = "norm"
      /\ \A p \in Page : p # n => mapped'[p] = mapped[p]
  BY FreshPage DEF IInv
<1>2. /\ page_hdr'[n].prev_page = nullptr
      /\ \A p \in Page : p # n => page_hdr'[p] = page_hdr[p]
  BY DEF BlankPage, IInv, TypeOK
<1>3. ASSUME NEW p \in Page, mapped[p] = "norm"
      PROVE  PageKept(n, p)
  <2> DEFINE q == page_hdr[p].prev_page
  <2>1. /\ q = nullptr \/ (q \in Page /\ mapped[q] = "norm")
        /\ \/ p = first_page_ptr
           \/ q \in Page /\ mapped[q] = "norm" /\ page_hdr[q].next_page = p /\ q # p
    BY <1>3 DEF LinksKept, Linked, Is
  <2> HIDE DEF q
  <2>2. nullptr # n
    BY Sizes
  <2>3. q # n /\ (q \in Page /\ mapped[q] = "norm" =>
                   mapped'[q] = "norm" /\ page_hdr'[q] = page_hdr[q])
    BY <1>1, <1>2, <2>1, <2>2
  <2>4. page_hdr'[p] = page_hdr[p]
    BY <1>1, <1>2, <1>3
  <2>5. /\ page_hdr'[p] = page_hdr[p] /\ q # n
        /\ q = nullptr \/ (q \in Page /\ mapped'[q] = "norm")
        /\ p = first_page_ptr \/ (q \in Page /\ q # p /\ page_hdr'[q].next_page = p)
    BY <2>1, <2>3, <2>4
  <2> QED
    BY <2>5 DEF q, PageKept
<1> QED
  BY <1>1, <1>2, <1>3

LEMMA LinksLinked ==
  ASSUME IInv, RInv, LinksKept, LinkPage
  PROVE  LinksKept'
<1> DEFINE n == next_page_ptr
           c == current_page
<1>1. /\ pc = "link_page" /\ OpeningPage /\ first_page_ptr # nullptr
      /\ pc \notin Crashes
      /\ page_hdr \in [Page -> PageHeader]
      /\ n \in Page /\ mapped[n] = "norm" /\ n # c /\ c \in Page /\ mapped[c] = "norm"
  BY DEF LinkPage, OpeningPage, Crashes, IInv, TypeOK, BeforeFirstPage, SmallCall,
         RInv, NextPageFresh, PagesThere, Is
<1>2. /\ UNCHANGED <<mapped, first_page_ptr>> /\ current_page' = n
      /\ pc' = "fix_block_header" /\ ~OpeningPage'
      /\ page_hdr' = LinkAfter(page_hdr, n, c)
  BY DEF LinkPage, LinkAfter, OpeningPage
<1> HIDE DEF n, c
<1>3. /\ page_hdr'[n].prev_page = c /\ page_hdr'[c].next_page = n
      /\ page_hdr'[c].prev_page = page_hdr[c].prev_page
      /\ page_hdr'[n].next_page = page_hdr[n].next_page
      /\ \A p \in Page : p # n /\ p # c => page_hdr'[p] = page_hdr[p]
  BY <1>1, <1>2, LinkedHeaders
<1>4. /\ first_page_ptr \in Page /\ mapped[first_page_ptr] = "norm"
      /\ \A p \in Page : mapped[p] = "norm" =>
           LET q == page_hdr[p].prev_page IN
           /\ \/ p = first_page_ptr \/ p = n
              \/ q \in Page /\ mapped[q] = "norm" /\ page_hdr[q].next_page = p /\ q # p
           /\ q = nullptr \/ (q \in Page /\ mapped[q] = "norm")
           /\ q # c /\ q # n
  BY <1>1 DEF LinksKept, Linked, Is, n, c
<1>5. ASSUME NEW p \in Page, mapped[p] = "norm"
      PROVE  LET q == page_hdr'[p].prev_page IN
             /\ \/ p = first_page_ptr
                \/ q \in Page /\ mapped[q] = "norm" /\ page_hdr'[q].next_page = p /\ q # p
             /\ q = nullptr \/ (q \in Page /\ mapped[q] = "norm")
             /\ q # n
  <2>1. CASE p = n
    BY <1>1, <1>3, <2>1
  <2>2. CASE p # n
    <3>1. page_hdr'[p].prev_page = page_hdr[p].prev_page
      BY <1>3, <2>2
    <3>2. page_hdr[p].prev_page \in Page =>
            page_hdr'[page_hdr[p].prev_page].next_page
              = page_hdr[page_hdr[p].prev_page].next_page
      BY <1>3, <1>4, <1>5
    <3> QED
      BY <1>4, <1>5, <2>2, <3>1, <3>2
  <2> QED
    BY <2>1, <2>2
<1> QED
  BY <1>2, <1>4, <1>5 DEF LinksKept, Linked, Is

LEMMA LinksStep ==
  ASSUME IInv, RInv, LinksKept, [Next]_vars
  PROVE  LinksKept'
<1>1. ASSUME pc' \in Crashes PROVE LinksKept'
  BY <1>1 DEF LinksKept
<1>2. ASSUME NEW how \in Crashes, Crash(how) PROVE LinksKept'
  BY <1>1, <1>2 DEF Crash
<1>3. ASSUME pc \notin Crashes, UNCHANGED <<memory, arena>>, ~OpeningPage, ~OpeningPage'
      PROVE  LinksKept'
  BY <1>3, LinksQuiet DEF memory, arena
<1>4. CASE UNCHANGED vars
  <2>1. CASE pc \in Crashes
    BY <1>1, <1>4, <2>1 DEF vars
  <2>2. CASE pc \notin Crashes
    <3>1. OpeningPage' <=> OpeningPage
      BY <1>4 DEF vars, call, OpeningPage
    <3> QED
      BY <1>4, <2>2, <3>1, LinksQuiet DEF vars, memory, arena, call
  <2> QED
    BY <2>1, <2>2
<1>5. CASE \/ \E h \in Handles, n \in Requests : MallocCall(h, n)
           \/ \E h \in Handles : FreeCall(h)
  <2>1. pc = "idle" /\ pc \notin Crashes /\ ~OpeningPage /\ next_page_ptr = nullptr
    BY <1>5 DEF MallocCall, FreeCall, Crashes, OpeningPage, IInv, CallOK
  <2>2. ASSUME NEW h \in Handles, NEW n \in Requests, MallocCall(h, n)
        PROVE  LinksKept'
    BY <1>3, <2>1, <2>2 DEF MallocCall, Return, OpeningPage
  <2>3. ASSUME NEW h \in Handles, FreeCall(h)
        PROVE  LinksKept'
    <3>1. Fault(live[h].page) \in Crashes
      BY DEF Fault, Crashes
    <3> QED
      BY <1>2, <1>3, <2>1, <2>3, <3>1 DEF FreeCall, OpeningPage
  <2> QED
    BY <1>5, <2>2, <2>3
<1>6. CASE FirstSetup
  <2>1. pc = "first_setup" /\ pc \notin Crashes /\ ~OpeningPage
    BY <1>6 DEF FirstSetup, Crashes, OpeningPage
  <2>2. ASSUME NEW n \in Page, CanMap(n, 1), mapped' = MapAs(n, 1, "norm"),
               page_hdr' = [page_hdr EXCEPT ![n] = BlankPage],
               first_page_ptr' = n, current_page' = n,
               pc' = "find_available_fragment", first_page_ptr = nullptr
        PROVE  LinksKept'
    <3>0. /\ mapped'[n] = "norm" /\ page_hdr'[n].prev_page = nullptr
          /\ \A p \in Page : p # n => mapped'[p] = mapped[p]
          /\ \A p \in Page : mapped[p] = "norm" => PageKept(n, p)
          /\ mapped[n] = "none"
      BY <2>1, <2>2, LinksOfNewPage
    <3>1. ~OpeningPage' /\ first_page_ptr' = n /\ current_page' = n /\ nullptr # n
          /\ \A p \in Page : p # first_page_ptr
      BY <2>2, Sizes DEF OpeningPage
    <3>2. ASSUME NEW p \in Page, mapped'[p] = "norm"
          PROVE  LET q == page_hdr'[p].prev_page IN
                 /\ \/ p = n
                    \/ q \in Page /\ mapped'[q] = "norm" /\ page_hdr'[q].next_page = p
                         /\ q # p
                 /\ q = nullptr \/ (q \in Page /\ mapped'[q] = "norm")
                 /\ q # n
      <4>1. CASE p = n
        BY <3>0, <3>1, <4>1
      <4>2. CASE p # n
        <5>1. mapped[p] = "norm"
          BY <3>0, <3>2, <4>2
        <5>2. PageKept(n, p)
          BY <3>0, <5>1
        <5> QED
          BY <3>1, <5>1, <5>2, Sizes DEF PageKept
      <4> QED
        BY <4>1, <4>2
    <3> QED
      BY <3>0, <3>1, <3>2 DEF LinksKept, Linked, Is
  <2> QED
    BY <1>3, <1>6, <2>1, <2>2 DEF FirstSetup, Return, OpeningPage
<1>7. CASE FindAvailableFragment
  <2>1. pc \notin Crashes /\ ~OpeningPage
    BY <1>7 DEF FindAvailableFragment, Crashes, OpeningPage
  <2>2. ASSUME NEW i \in 1..Len(fragments), RemoveFragment(i),
               pc' = "fix_block_header", UNCHANGED arena
        PROVE  LinksKept'
    <3>1. Len(fragments) = 1 /\ Is(first_fragment_list_header, "frag")
      BY DEF IInv, ListHasOne, RInv, PagesThere
    <3>2. Unmap(first_fragment_list_header) /\ page_hdr' = page_hdr
      BY <2>2, <3>1 DEF RemoveFragment
    <3>3. \A p \in Page : mapped'[p] = "norm" <=> mapped[p] = "norm"
      BY <3>1, <3>2 DEF Unmap, Is, IInv, TypeOK
    <3>4. ~OpeningPage'
      BY <2>2 DEF OpeningPage
    <3> QED
      BY <2>1, <2>2, <3>2, <3>3, <3>4, LinksQuiet DEF arena
  <2>3. \A i : Fault(fragments[i].page) \in Crashes
    BY DEF Fault, Crashes
  <2> QED
    BY <1>2, <1>3, <1>7, <2>1, <2>2, <2>3 DEF FindAvailableFragment, OpeningPage
<1>8. CASE NoGoodFragments
  <2>1. pc \notin Crashes /\ ~OpeningPage /\ first_page_ptr # nullptr
        /\ Is(current_page, "norm")
    BY <1>8 DEF NoGoodFragments, Crashes, OpeningPage, IInv, BeforeFirstPage, SmallCall,
                RInv, PagesThere
  <2>2. ASSUME NEW n \in Page, CanMap(n, 1), mapped' = MapAs(n, 1, "norm"),
               page_hdr' = [page_hdr EXCEPT ![n] = BlankPage],
               next_page_ptr' = n, pc' = "open_page", UNCHANGED arena
        PROVE  LinksKept'
    <3>0. /\ mapped'[n] = "norm" /\ page_hdr'[n].prev_page = nullptr
          /\ \A p \in Page : p # n => mapped'[p] = mapped[p]
          /\ \A p \in Page : mapped[p] = "norm" => PageKept(n, p)
          /\ mapped[n] = "none"
      BY <2>1, <2>2, LinksOfNewPage
    <3>1. /\ OpeningPage' /\ first_page_ptr' = first_page_ptr
          /\ current_page' = current_page /\ next_page_ptr' = n
          /\ first_page_ptr \in Page /\ mapped[first_page_ptr] = "norm"
          /\ nullptr # n /\ current_page # nullptr
      BY <2>1, <2>2, Sizes DEF LinksKept, OpeningPage, arena, Is
    <3>2. ASSUME NEW p \in Page, mapped'[p] = "norm"
          PROVE  LET q == page_hdr'[p].prev_page IN
                 /\ \/ p = first_page_ptr \/ p = n
                    \/ q \in Page /\ mapped'[q] = "norm" /\ page_hdr'[q].next_page = p
                         /\ q # p
                 /\ q = nullptr \/ (q \in Page /\ mapped'[q] = "norm")
                 /\ q # current_page /\ q # n
      <4>1. CASE p = n
        BY <3>0, <3>1, <4>1
      <4>2. CASE p # n
        <5>1. mapped[p] = "norm"
          BY <3>0, <3>2, <4>2
        <5>2. page_hdr[p].prev_page # current_page
          BY <2>1, <5>1 DEF LinksKept, Is
        <5>3. PageKept(n, p)
          BY <3>0, <5>1
        <5> QED
          BY <3>1, <5>1, <5>2, <5>3, Sizes DEF PageKept
      <4> QED
        BY <4>1, <4>2
    <3>3. first_page_ptr # n /\ mapped'[first_page_ptr] = "norm"
      BY <3>0, <3>1
    <3> QED
      BY <3>1, <3>2, <3>3 DEF LinksKept, Linked, Is
  <2>3. Fault(current_page) \in Crashes
    BY DEF Fault, Crashes
  <2>4. ASSUME UNCHANGED <<memory, arena>>, pc' \in {"idle", "fix_block_header"}
        PROVE  LinksKept'
    BY <1>3, <2>1, <2>4 DEF OpeningPage
  <2>5. ASSUME UNCHANGED <<memory, first_page_ptr, current_page>>,
               pc' = "fix_block_header"
        PROVE  LinksKept'
    BY <2>1, <2>5, LinksQuiet DEF OpeningPage, memory
  <2> QED
    BY <1>2, <1>8, <2>1, <2>2, <2>3, <2>4, <2>5 DEF NoGoodFragments, Return
<1>9. CASE OpenPage
  <2>1. pc \notin Crashes /\ OpeningPage
    BY <1>9 DEF OpenPage, Crashes, OpeningPage
  <2>2. Fault(current_page) \in Crashes /\ WritePast(At(current_page, NextBlock)) \in Crashes
    BY DEF Fault, WritePast, Crashes
  <2>3. ASSUME pc' = "insert_fragment",
               UNCHANGED <<mapped, page_hdr, first_page_ptr, current_page,
                           next_page_ptr>>
        PROVE  LinksKept'
    <3>1. OpeningPage'
      BY <1>9, <2>3 DEF OpenPage, OpeningPage, IInv, CallOK
    <3> QED
      BY <2>1, <2>3, <3>1, LinksQuiet
  <2> QED
    BY <1>2, <1>9, <2>2, <2>3 DEF OpenPage
<1>10. CASE UndoOpenPage
  <2> DEFINE n == next_page_ptr
  <2>1. /\ pc \notin Crashes /\ OpeningPage /\ first_page_ptr # nullptr
        /\ n \in Page /\ ~OpeningPage'
        /\ UNCHANGED <<page_hdr, first_page_ptr, current_page>>
        /\ mapped' = [mapped EXCEPT ![n] = "none"]
    BY <1>10 DEF UndoOpenPage, Crashes, OpeningPage, IInv, BeforeFirstPage, SmallCall,
                 RInv, NextPageFresh, Is, Return, Unmap, arena
  <2>2. \A p \in Page : mapped'[p] = IF p = n THEN "none" ELSE mapped[p]
    BY <2>1 DEF IInv, TypeOK
  <2> HIDE DEF n
  <2>3. /\ Is(first_page_ptr, "norm") /\ first_page_ptr # n
        /\ \A p \in Page : Is(p, "norm") =>
             LET q == page_hdr[p].prev_page IN
             /\ Linked(p) \/ p = n
             /\ q = nullptr \/ Is(q, "norm")
             /\ q # current_page /\ q # n
    BY <2>1 DEF LinksKept, n
  <2> QED
    BY <2>1, <2>2, <2>3 DEF LinksKept, Linked, Is
<1>11. CASE LinkPage
  BY <1>11, LinksLinked
<1>12. CASE FixBlockHeader
  <2>1. pc \notin Crashes /\ ~OpeningPage
    BY <1>12 DEF FixBlockHeader, Crashes, OpeningPage
  <2>2. Fault(current_page) \in Crashes /\ WritePast(block) \in Crashes
    BY DEF Fault, WritePast, Crashes
  <2>3. ASSUME page_hdr' = [page_hdr EXCEPT ![ChargedPage].usages = @ + 1],
               UNCHANGED <<mapped, first_page_ptr, current_page>>, pc' = "idle"
        PROVE  LinksKept'
    <3>1. \A p \in Page : /\ page_hdr'[p].prev_page = page_hdr[p].prev_page
                          /\ page_hdr'[p].next_page = page_hdr[p].next_page
      BY <2>3 DEF IInv, TypeOK, PageHeader
    <3>2. ~OpeningPage'
      BY <2>3 DEF OpeningPage
    <3> QED
      BY <2>1, <2>3, <3>1, <3>2, LinksQuiet
  <2> QED
    BY <1>2, <1>12, <2>2, <2>3 DEF FixBlockHeader, Return
<1>13. CASE LargeBro
  <2>1. pc \notin Crashes /\ ~OpeningPage
    BY <1>13 DEF LargeBro, Crashes, OpeningPage
  <2>2. ASSUME NEW p \in Page, CanMap(p, PagesFor(req)),
               mapped' = MapAs(p, PagesFor(req), "huge"),
               pc' = "idle", UNCHANGED <<page_hdr, arena>>
        PROVE  LinksKept'
    <3>1. \A q \in Page : mapped'[q] = "norm" <=> mapped[q] = "norm"
      BY <2>2 DEF CanMap, MapAs
    <3>2. ~OpeningPage'
      BY <2>2 DEF OpeningPage
    <3> QED
      BY <2>1, <2>2, <3>1, <3>2, LinksQuiet DEF arena
  <2> QED
    BY <1>3, <1>13, <2>1, <2>2 DEF LargeBro, Return, OpeningPage
<1>14. CASE LargeFreeBro
  <2>1. pc \notin Crashes /\ ~OpeningPage /\ ~OpeningPage'
    BY <1>14 DEF LargeFreeBro, Crashes, OpeningPage, Return
  <2>2. Is(block.page, "huge")
    BY <1>14 DEF LargeFreeBro, RInv, FreeCalled, LiveHeaders, HeadersThere, Readable
  <2>3. \A q \in Page : mapped'[q] = "norm" <=> mapped[q] = "norm"
    BY <1>14, <2>2 DEF LargeFreeBro, Unmap, Is, IInv, TypeOK
  <2> QED
    BY <1>14, <2>1, <2>3, LinksQuiet DEF LargeFreeBro, arena
<1>15. CASE DropUsage
  <2> DEFINE q == Header(block).page
  <2>1. pc \notin Crashes /\ ~OpeningPage
    BY <1>15 DEF DropUsage, Crashes, OpeningPage
  <2>2. Is(q, "norm") /\ page_hdr[q].usages # 1
    BY <1>15 DEF DropUsage, RInv, FreeCalled, FreeingSmall, LiveHeaders, Header
  <2>3. /\ page_hdr' = [page_hdr EXCEPT ![q].usages = @ - 1]
        /\ UNCHANGED <<mapped, arena>> /\ pc' = "idle"
    BY <1>15, <2>2 DEF DropUsage, Emptied, Return
  <2> HIDE DEF q
  <2>4. \A p \in Page : /\ page_hdr'[p].prev_page = page_hdr[p].prev_page
                        /\ page_hdr'[p].next_page = page_hdr[p].next_page
    BY <2>3 DEF IInv, TypeOK, PageHeader
  <2>5. ~OpeningPage'
    BY <2>3 DEF OpeningPage
  <2> QED
    BY <2>1, <2>3, <2>4, <2>5, LinksQuiet DEF arena
<1>16. CASE InsertFragment
  <2>1. pc = "insert_fragment" /\ pc \notin Crashes /\ Header(block).size # 0
    BY <1>16, RInserting DEF InsertFragment, Crashes
  <2>2. ASSUME \A p \in Page : mapped'[p] = "norm" <=> mapped[p] = "norm",
               Inserted \/ (IF CalledByMalloc THEN pc' = "undo_open_page"
                                              ELSE pc' = "idle"),
               CalledByMalloc => next_page_ptr' = next_page_ptr,
               UNCHANGED <<page_hdr, arena>>
        PROVE  LinksKept'
    <3>1. OpeningPage' <=> OpeningPage
      BY <2>1, <2>2 DEF OpeningPage, Inserted, CalledByMalloc
    <3>2. OpeningPage => CalledByMalloc
      BY <2>1 DEF OpeningPage, CalledByMalloc
    <3> QED
      BY <2>1, <2>2, <3>1, <3>2, LinksQuiet DEF arena
  <2>3. ASSUME NEW p \in Page, CanMap(p, 1), mapped' = MapAs(p, 1, "frag")
        PROVE  \A q \in Page : mapped'[q] = "norm" <=> mapped[q] = "norm"
    BY <2>3 DEF CanMap, MapAs
  <2>4. /\ Fault(first_fragment_list_header) \in Crashes
        /\ "wild" \in Crashes
        /\ \A i : Fault(fragments[i].page) \in Crashes
    BY DEF Fault, Crashes
  <2> QED
    BY <1>2, <1>16, <2>1, <2>2, <2>3, <2>4 DEF InsertFragment, Return, call, memory
<1>17. CASE ClientWrites
  BY <1>2, <1>17 DEF ClientWrites, Crashes
<1> QED
  BY <1>4, <1>5, <1>6, <1>7, <1>8, <1>9, <1>10, <1>11, <1>12, <1>13, <1>14, <1>15,
     <1>16, <1>17
  DEF Next, Step

(* Between calls every page of small blocks is on the list that starts at  *)
(* the first page: the page that a failing malloc mapped is gone, and a    *)
(* page is linked once, behind the last one (no_good_fragments).           *)
THEOREM PagesAreLinked ==
  ASSUME RulesKept
  PROVE  Spec => []PagesLinked
<1>1. Init => LinksKept
  BY DEF Init, LinksKept, Is, OpeningPage
<1>2. IInv /\ RInv /\ LinksKept /\ [Next]_vars => LinksKept'
  BY LinksStep
<1>3. LinksKept => PagesLinked
  BY DEF LinksKept, PagesLinked, Linked, Crashes, OpeningPage
<1> QED
  BY <1>1, <1>2, <1>3, Invariant, RulesInvariant, PTL DEF Spec
=============================================================================
