-------------------------- MODULE ForkedHeapProofs --------------------------
(***************************************************************************)
(* What the allocator promises to a process and to the child it has forked *)
(* (module ForkedHeap), proved for every page size, every number of pages, *)
(* handles and children, and every step at which a child ends.             *)
(***************************************************************************)
EXTENDS ForkedHeapInvariant, HeapProofs

USE DEF nullptr, ErrPtr, WORDSIZE, PHEADERSIZE, BHEADERSIZE, NODESIZE,
        NHEADERSIZE

(***************************************************************************)
(* cmd forks.                                                              *)
(***************************************************************************)

(* What the parent keeps to itself is what the child starts with. *)
LEMMA ForkedParent ==
  ASSUME IInv, RInv, Fork
  PROVE  /\ pc = "idle" /\ first_fragment_list_header = nullptr /\ fragments = <<>>
         /\ OfParent(nullptr)' = FALSE
         /\ \A p \in Page : OfParent(p)' <=> mapped[p] # "none"
         /\ Inheritance' = Live /\ Live' = Live /\ Small' = Small
         /\ \A h \in Handles : Address(h)' = Address(h)
         /\ ParentBlock' = CurrentBlock /\ CurrentBlock' = CurrentBlock
         /\ InChild'
<1>1. /\ pc = "idle" /\ first_fragment_list_header = nullptr
      /\ parent' = Private /\ UNCHANGED vars
  BY DEF Fork
<1>2. UNCHANGED <<memory, arena, frags, pc, call, client>>
  BY <1>1 DEF vars
<1>3. fragments = <<>>
  BY <1>1, Sizes DEF IInv, ListHasOne, TypeOK
<1>4. /\ parent'.mapped = mapped /\ parent'.live = live
      /\ parent'.current_page = current_page
      /\ parent'.current_block = current_block
  BY <1>1 DEF Private
<1>5. OfParent(nullptr)' = FALSE
  BY Sizes DEF OfParent
<1>6. \A p \in Page : OfParent(p)' <=> mapped[p] # "none"
  BY <1>4 DEF OfParent
<1>7. /\ Inheritance' = Live /\ Live' = Live /\ Small' = Small
      /\ \A h \in Handles : Address(h)' = Address(h)
  BY <1>2, <1>4 DEF Inheritance, Live, Small, Address, client
<1>8. ParentBlock' = CurrentBlock /\ CurrentBlock' = CurrentBlock
  BY <1>2, <1>4 DEF ParentBlock, CurrentBlock, arena
<1>9. InChild'
  BY <1>1 DEF InChild, NoParent, Private
<1> QED
  BY <1>1, <1>3, <1>5, <1>6, <1>7, <1>8, <1>9

LEMMA ForkKeeps ==
  ASSUME IInv, RInv, Fork
  PROVE  ParentKept'
<1>1. /\ pc = "idle" /\ first_fragment_list_header = nullptr /\ fragments = <<>>
      /\ OfParent(nullptr)' = FALSE
      /\ \A p \in Page : OfParent(p)' <=> mapped[p] # "none"
      /\ Inheritance' = Live /\ Live' = Live /\ Small' = Small
      /\ \A h \in Handles : Address(h)' = Address(h)
      /\ ParentBlock' = CurrentBlock /\ CurrentBlock' = CurrentBlock
  BY ForkedParent
<1>2. UNCHANGED <<memory, arena, frags, pc, call, client>> /\ parent' = Private
  BY DEF Fork, vars
<1> USE DEF memory, arena, frags, call, client
<1>3. /\ parent'.mapped = mapped /\ parent'.first_page_ptr = first_page_ptr
      /\ parent'.current_page = current_page
      /\ parent'.current_block = current_block
      /\ parent'.current_page_free_bytes = current_page_free_bytes
      /\ parent'.touched = touched /\ parent'.live = live /\ parent'.ret = ret
  BY <1>2 DEF Private
<1>4. ParentType'
  BY <1>3 DEF ParentType, IInv, TypeOK
<1>5. ParentPages'
  BY <1>1, <1>2, <1>3 DEF ParentPages, OpeningPage
<1>6. ParentBlocks'
  <2>1. ASSUME NEW h \in Live
        PROVE  /\ live[h].page \in Page /\ mapped[live[h].page] # "none"
               /\ live[h].off # 0 =>
                    /\ blocks[Address(h)].page \in Page
                    /\ mapped[blocks[Address(h)].page] # "none"
                    /\ live[h].page = current_page =>
                         Address(h) = CurrentBlock \/ End(Address(h)) <= current_block
               /\ live[h].off = 0 => \A q \in PagesOf(live[h]) :
                    q \in Page /\ mapped[q] # "none"
    <3>1. Address(h) \in DOMAIN blocks /\ Address(h).page = live[h].page
          /\ Address(h).off = live[h].off
      BY DEF RInv, LiveHeaders, Address, At
    <3>2. live[h].page \in Page /\ mapped[live[h].page] # "none"
      BY <3>1 DEF RInv, HeadersThere, Readable, Is
    <3>3. live[h].off # 0 =>
            /\ Is(blocks[Address(h)].page, "norm")
            /\ Address(h) \in Taken
      BY <3>1, IsTaken DEF RInv, LiveHeaders, Small
    <3>4. live[h].off = 0 => \A q \in PagesOf(live[h]) : Is(q, "huge")
      BY DEF RInv, HugeApart, Small
    <3> QED
      BY <3>1, <3>2, <3>3, <3>4 DEF RInv, CurrentIsLast, Is
  <2>2. \A h \in Live : End(Address(h))' = End(Address(h))
    BY <1>1, <1>2 DEF End, Live
  <2>3. ASSUME NEW h \in Live
        PROVE  /\ live'[h] = parent'.live[h]
               /\ OfParent(live[h].page)'
               /\ live'[h].off # 0 =>
                    /\ OfParent(blocks[Address(h)].page)'
                    /\ live'[h].page = parent'.current_page =>
                         Address(h)' = ParentBlock'
                           \/ End(Address(h))' <= parent'.current_block
               /\ live'[h].off = 0 =>
                    \A q \in PagesOf(live[h])' : OfParent(q)'
    <3>1. Address(h)' = Address(h) /\ PagesOf(live[h])' = PagesOf(live[h])
      BY <1>1, <1>2 DEF Live, PagesOf
    <3> QED
      BY <1>1, <1>2, <1>3, <2>1, <2>2, <3>1 DEF OfParent
  <2> QED
    BY <1>1, <1>2, <2>3 DEF ParentBlocks, FreeingSmall
<1>7. ParentArena'
  <2>1. CASE first_page_ptr = nullptr
    BY <1>1, <1>2, <1>3, <2>1 DEF ParentArena, IInv, BeforeFirstPage, Live
  <2>2. CASE first_page_ptr # nullptr
    <3>1. /\ Is(current_page, "norm") /\ current_block >= PHEADERSIZE
          /\ current_block \in Nat /\ current_page_free_bytes \in Int
      BY <2>2 DEF RInv, PagesThere, IInv, AfterFirstPage, TypeOK
    <3>2. CurrentBlock \in DOMAIN blocks /\ blocks[CurrentBlock].type # "FREE"
          /\ Header(CurrentBlock) = blocks[CurrentBlock]
      BY <2>2 DEF Fork, Header, ZeroHeader
    <3>3. blocks[CurrentBlock].size \in Nat
          /\ CurrentBlock.off = current_block /\ CurrentBlock.page = current_page
      BY <3>2 DEF IInv, TypeOK, BlockHeader, CurrentBlock, At
    <3>4. End(CurrentBlock) = NextBlock
      BY <3>1, <3>2, <3>3 DEF End, NextBlock
    <3>5. /\ current_page_free_bytes <= RoomAtBlock
          /\ \/ current_page_free_bytes <= RoomLeft
             \/ /\ blocks[CurrentBlock].type = "STALE"
                /\ blocks[CurrentBlock].size = RoomAtBlock
      BY <1>1, <2>2, <3>2 DEF IInv, CounterBound, Carved, Crashes
    <3>6. blocks[CurrentBlock].size = RoomAtBlock => End(CurrentBlock) = MALLOC_PAGE_SIZE
      BY <3>1, <3>3, Sizes DEF End, RoomAtBlock
    <3>7. End(ParentBlock)' = End(CurrentBlock)
      BY <1>1, <1>2 DEF End
    <3> HIDE DEF CurrentBlock
    <3> QED
      BY <1>1, <1>2, <1>3, <2>2, <3>1, <3>2, <3>4, <3>5, <3>6, <3>7
      DEF ParentArena, RoomAtBlock, RoomLeft, Is
  <2> QED
    BY <2>1, <2>2
<1>8. ChildBeyond'
  BY <1>1, <1>2 DEF ChildBeyond, Small
<1> QED
  BY <1>4, <1>5, <1>6, <1>7, <1>8 DEF ParentKept

(***************************************************************************)
(* The child ends.                                                         *)
(***************************************************************************)

(* What is left to the parent: the pages it had mapped, and what it had    *)
(* allocated, as it was.                                                   *)
LEMMA BackToParent ==
  ASSUME IInv, RInv, ParentKept, ChildEnds
  PROVE  /\ \A p \in Page : mapped'[p] # "none" <=> OfParent(p)
         /\ \A p \in Page : OfParent(p) => mapped'[p] = mapped[p]
         /\ DOMAIN blocks' = {a \in DOMAIN blocks : OfParent(a.page)}
         /\ \A a \in DOMAIN blocks' : blocks'[a] = blocks[a]
         /\ Live' = Inheritance /\ Inheritance \subseteq Live
         /\ Small' = Inheritance \cap Small
         /\ \A h \in Inheritance : /\ live'[h] = live[h]
                                   /\ Address(h)' = Address(h)
                                   /\ Address(h) \in DOMAIN blocks'
                                   /\ PagesOf(live[h])' = PagesOf(live[h])
         /\ CurrentBlock' = ParentBlock
<1>1. /\ mapped' = parent.mapped /\ live' = parent.live
      /\ current_page' = parent.current_page
      /\ current_block' = parent.current_block
      /\ blocks' = [a \in {a \in DOMAIN blocks : parent.mapped[a.page] # "none"}
                      |-> blocks[a]]
      /\ ParentType /\ ParentPages /\ ParentBlocks
  BY DEF ChildEnds, ParentKept
<1>2. \A a \in DOMAIN blocks : a.page \in Page
  BY DEF IInv, TypeOK
<1>3. Inheritance \subseteq Live
  BY <1>1 DEF Inheritance, Live, ParentBlocks
<1>4. Live' = Inheritance
  BY <1>1 DEF Inheritance, Live
<1>5. \A h \in Inheritance : live'[h] = live[h] /\ h \in Handles /\ h \in Live
  BY <1>1, <1>3 DEF ParentBlocks, Live
<1>6. Small' = Inheritance \cap Small
  BY <1>3, <1>4, <1>5 DEF Small
<1>7. \A h \in Inheritance : Address(h)' = Address(h)
                               /\ PagesOf(live[h])' = PagesOf(live[h])
  BY <1>5 DEF Address, PagesOf
<1>8. /\ DOMAIN blocks' = {a \in DOMAIN blocks : OfParent(a.page)}
      /\ \A a \in DOMAIN blocks' : blocks'[a] = blocks[a]
  BY <1>1, <1>2 DEF OfParent
<1>9. \A h \in Inheritance : Address(h) \in DOMAIN blocks'
  BY <1>1, <1>5, <1>8 DEF ParentBlocks, RInv, LiveHeaders, Address, At
<1>10. CurrentBlock' = ParentBlock
  BY <1>1 DEF CurrentBlock, ParentBlock
<1>11. \A p \in Page : mapped'[p] # "none" <=> OfParent(p)
  BY <1>1 DEF OfParent
<1>12. \A p \in Page : OfParent(p) => mapped'[p] = mapped[p]
  BY <1>1 DEF ParentPages
<1> QED
  BY <1>3, <1>4, <1>5, <1>6, <1>7, <1>8, <1>9, <1>10, <1>11, <1>12

LEMMA EndRestores ==
  ASSUME IInv, RInv, ParentKept, ChildEnds
  PROVE  RInv'
<1>1. /\ \A p \in Page : mapped'[p] # "none" <=> OfParent(p)
      /\ \A p \in Page : OfParent(p) => mapped'[p] = mapped[p]
      /\ DOMAIN blocks' = {a \in DOMAIN blocks : OfParent(a.page)}
      /\ \A a \in DOMAIN blocks' : blocks'[a] = blocks[a]
      /\ Live' = Inheritance /\ Inheritance \subseteq Live
      /\ Small' = Inheritance \cap Small
      /\ \A h \in Inheritance : /\ live'[h] = live[h]
                                /\ Address(h)' = Address(h)
                                /\ Address(h) \in DOMAIN blocks'
                                /\ PagesOf(live[h])' = PagesOf(live[h])
      /\ CurrentBlock' = ParentBlock
  BY BackToParent
<1>2. /\ pc' = "idle" /\ first_fragment_list_header' = nullptr /\ fragments' = <<>>
      /\ first_page_ptr' = parent.first_page_ptr
      /\ current_page' = parent.current_page
      /\ current_block' = parent.current_block /\ mapped' = parent.mapped
  BY DEF ChildEnds
<1>3. ParentType /\ ParentPages /\ ParentBlocks /\ ParentArena
  BY DEF ParentKept, ChildEnds
<1>4. PagesThere'
  BY <1>2, <1>3, Sizes DEF PagesThere, ParentArena, Is, OfParent
<1>5. HeadersThere'
  BY <1>1 DEF RInv, HeadersThere, Readable, Is, End, OfParent
<1>6. Taken' = {Address(h) : h \in Small'}
  <2>1. {Address(h)' : h \in Small'} = {Address(h) : h \in Small'}
    BY <1>1
  <2> QED
    BY <1>2, <2>1 DEF Taken
<1>7. Taken' \subseteq Taken /\ \A a \in Taken' : End(a)' = End(a)
  BY <1>1, <1>6, IsTaken DEF End
<1>8. Tiled'
  BY <1>7 DEF RInv, Tiled
<1>9. CurrentIsLast'
  <2>1. ASSUME NEW h \in Small', Address(h).page = parent.current_page
        PROVE  Address(h) = ParentBlock \/ End(Address(h)) <= parent.current_block
    BY <1>1, <1>3, <2>1 DEF ParentBlocks, Small, Address, At
  <2> QED
    BY <1>1, <1>2, <1>6, <1>7, <2>1 DEF CurrentIsLast
<1>10. LiveHeaders'
  <2>1. ASSUME NEW h \in Inheritance
        PROVE  LET a == Address(h) IN
               /\ a \in DOMAIN blocks' /\ blocks'[a].size = live'[h].size
               /\ a.off # 0 =>
                    /\ blocks'[a].type = "USED"
                    /\ blocks'[a].page \in Page
                    /\ mapped'[blocks'[a].page] = "norm"
    <3>1. ~Dropping(h)
      BY <1>3 DEF ParentBlocks, Dropping, FreeingSmall
    <3>2. Address(h).off # 0 => OfParent(blocks[Address(h)].page)
      BY <1>3 DEF ParentBlocks, Address, At
    <3> QED
      BY <1>1, <3>1, <3>2 DEF RInv, LiveHeaders, Is, OfParent
  <2>2. \A h : ~Dropping(h)'
    BY <1>2 DEF Dropping
  <2>3. \A g, h \in Inheritance : Address(g) = Address(h) => g = h
    BY <1>1 DEF RInv, LiveHeaders
  <2>4. \A h \in Live' : Address(h)' = Address(h)
    BY <1>1
  <2>5. \A g, h \in Live' : Address(g)' = Address(h)' => g = h
    BY <1>1, <2>3, <2>4
  <2>6. \A h \in Live' :
          LET a == Address(h) IN
          /\ a \in DOMAIN blocks' /\ blocks'[a].size = live'[h].size
          /\ a.off # 0 =>
               /\ blocks'[a].type = "USED"
               /\ blocks'[a].page \in Page
               /\ mapped'[blocks'[a].page] = "norm"
    BY <1>1, <2>1
  <2> QED
    BY <2>2, <2>4, <2>5, <2>6 DEF LiveHeaders, Is
<1>11. ListFree'
  BY <1>2 DEF ListFree
<1>12. HugeApart'
  <2>1. \A h \in Live' \ Small' : h \in Live \ Small /\ live[h].off = 0
    BY <1>1 DEF Small
  <2>2. \A h \in Live' \ Small' : \A q \in PagesOf(live[h]) : OfParent(q)
    BY <1>1, <1>3, <2>1 DEF ParentBlocks
  <2>3. ASSUME NEW h \in Live' \ Small'
        PROVE  /\ HeaderFits(live'[h].size)
               /\ \A q \in PagesOf(live[h]) :
                    /\ q \in Page /\ mapped'[q] = "huge"
                    /\ \A g \in Live' \ Small' : q \in PagesOf(live[g]) => g = h
    BY <1>1, <2>1, <2>2 DEF RInv, HugeApart, Is, OfParent
  <2>4. \A h \in Live' \ Small' : PagesOf(live[h])' = PagesOf(live[h])
    BY <1>1
  <2> QED
    BY <2>3, <2>4 DEF HugeApart, Is
<1>13. MallocCalled' /\ NextPageFresh' /\ FreeCalled'
  BY <1>2 DEF MallocCalled, NextPageFresh, FreeCalled, InMalloc, SmallCall,
              OpeningPage, FreeingSmall
<1> QED
  BY <1>4, <1>5, <1>8, <1>9, <1>10, <1>11, <1>12, <1>13 DEF RInv

LEMMA EndInv ==
  ASSUME IInv, RInv, ParentKept, ChildEnds
  PROVE  IInv'
<1>1. /\ DOMAIN blocks' = {a \in DOMAIN blocks : OfParent(a.page)}
      /\ \A a \in DOMAIN blocks' : blocks'[a] = blocks[a]
      /\ \A h \in Inheritance : live'[h] = live[h] /\ h \in Live
      /\ \A p \in Page : OfParent(p) => mapped'[p] = mapped[p]
      /\ CurrentBlock' = ParentBlock
  BY BackToParent
<1>2. /\ pc' = "idle" /\ first_fragment_list_header' = nullptr /\ fragments' = <<>>
      /\ free_spaces' = 0 /\ nodes_taken' = 0
      /\ handle' = NoHandle /\ req' = 0 /\ block' = Nothing
      /\ next_page_ptr' = nullptr /\ page_hdr' = page_hdr
      /\ first_page_ptr' = parent.first_page_ptr
      /\ current_page' = parent.current_page
      /\ current_block' = parent.current_block /\ mapped' = parent.mapped
      /\ current_page_free_bytes' = parent.current_page_free_bytes
      /\ touched' = TouchedByBoth
      /\ live' = parent.live /\ ret' = parent.ret
  BY DEF ChildEnds
<1>3. ParentType /\ ParentArena
  BY DEF ParentKept, ChildEnds
<1>4. \A h \in Handles : live'[h] = NoBlock \/ (h \in Live /\ live'[h] = live[h])
  BY <1>1, <1>2 DEF Inheritance
<1>5. TypeOK'
  <2>1. touched' \in Nat
    BY <1>2, <1>3, Sizes DEF TouchedByBoth, ParentType, IInv, TypeOK
  <2>2. /\ DOMAIN blocks' \subseteq [page : Page, off : Nat]
        /\ \A a \in DOMAIN blocks' : blocks'[a] \in BlockHeader
    BY <1>1 DEF IInv, TypeOK
  <2>3. page_hdr' \in [Page -> PageHeader]
    BY <1>2 DEF IInv, TypeOK
  <2>4. block' \in Address0
    BY <1>2 DEF Address0, Nothing, At
  <2> QED
    BY <1>2, <1>3, <2>1, <2>2, <2>3, <2>4 DEF TypeOK, ParentType
<1>6. HeadersPositive'
  BY <1>1 DEF IInv, HeadersPositive
<1>7. LiveOffsets'
  BY <1>4 DEF IInv, LiveOffsets, NoBlock, Live
<1>8. BeforeFirstPage' /\ AfterFirstPage'
  <2>1. ASSUME first_page_ptr' = nullptr
        PROVE  /\ \A a \in DOMAIN blocks' : a.off = 0
               /\ \A h \in Handles : live'[h].off = 0
               /\ current_page' = nullptr
    BY <1>1, <1>2, <1>3, <2>1 DEF ParentArena, Inheritance, NoBlock
  <2> QED
    BY <1>2, <1>3, <2>1 DEF BeforeFirstPage, AfterFirstPage, SmallCall, ParentArena
<1>9. ListHasOne'
  BY <1>2, Sizes DEF ListHasOne
<1>10. CounterBound'
  <2> SUFFICES ASSUME first_page_ptr' # nullptr
               PROVE  /\ current_page_free_bytes' <= RoomAtBlock'
                      /\ \/ current_page_free_bytes' <= RoomLeft'
                         \/ /\ Header(CurrentBlock)'.type = "STALE"
                            /\ Header(CurrentBlock)'.size = RoomAtBlock'
    BY DEF CounterBound
  <2> DEFINE E == End(ParentBlock)
  <2>1. /\ ParentBlock \in DOMAIN blocks /\ OfParent(ParentBlock.page)
        /\ blocks[ParentBlock].type # "FREE"
        /\ ParentBlock.off = parent.current_block /\ parent.current_block \in Nat
        /\ current_page_free_bytes' <= MALLOC_PAGE_SIZE - parent.current_block - 24
        /\ \/ current_page_free_bytes' <= MALLOC_PAGE_SIZE - E - 24
           \/ blocks[ParentBlock].type = "STALE" /\ E = MALLOC_PAGE_SIZE
    BY <1>2, <1>3 DEF ParentArena, ParentType, ParentBlock, At
  <2>2. Header(CurrentBlock)' = blocks[ParentBlock] /\ blocks[ParentBlock].size \in Nat
    BY <1>1, <2>1 DEF Header, IInv, TypeOK, BlockHeader
  <2>3. E = parent.current_block + 24 + blocks[ParentBlock].size
    BY <2>1 DEF End
  <2>4. NextBlock' = E
    BY <1>2, <2>1, <2>2, <2>3 DEF NextBlock
  <2>5. RoomAtBlock' = MALLOC_PAGE_SIZE - parent.current_block - 24
        /\ RoomLeft' = MALLOC_PAGE_SIZE - E - 24
    BY <1>2, <2>4 DEF RoomAtBlock, RoomLeft
  <2> HIDE DEF E
  <2>6. E = MALLOC_PAGE_SIZE => blocks[ParentBlock].size = RoomAtBlock'
    BY <2>1, <2>2, <2>3, <2>5, Sizes
  <2> QED
    BY <2>1, <2>2, <2>5, <2>6
<1>11. CounterInCall' /\ CallOK'
  BY <1>2 DEF CounterInCall, CallOK, OpeningPage, SmallCall
<1>12. AllInPage'
  <2>1. \A a \in DOMAIN blocks' : a.off # 0 =>
          a.off + BHEADERSIZE + blocks'[a].size <= MALLOC_PAGE_SIZE
    BY <1>1 DEF RInv, HeadersThere, End
  <2>2. ASSUME NEW h \in Handles, live'[h].off # 0
        PROVE  live'[h].off + BHEADERSIZE + live'[h].size <= MALLOC_PAGE_SIZE
    <3>1. h \in Live /\ live'[h] = live[h]
      BY <1>4, <2>2 DEF NoBlock
    <3>2. /\ Address(h) \in DOMAIN blocks /\ Address(h).off = live[h].off
          /\ blocks[Address(h)].size = live[h].size
      BY <3>1 DEF RInv, LiveHeaders, Address, At
    <3> QED
      BY <2>2, <3>1, <3>2 DEF RInv, HeadersThere, End
  <2> QED
    BY <1>2, <2>1, <2>2 DEF AllInPage, InPage
<1> QED
  BY <1>5, <1>6, <1>7, <1>8, <1>9, <1>10, <1>11, <1>12 DEF IInv

(***************************************************************************)
(* A step of the child.                                                    *)
(***************************************************************************)

(* Nothing of the parent's is unmapped, given away, or written to.         *)
Undisturbed ==
  /\ \A p \in Page : OfParent(p) => mapped'[p] = mapped[p]
  /\ \A a \in DOMAIN blocks : ~Beyond(a) =>
       a \in DOMAIN blocks' /\ blocks'[a] = blocks[a]
  /\ \A a \in DOMAIN blocks' : a \in DOMAIN blocks \/ Beyond(a)
  /\ \A h \in Inheritance : live'[h] = live[h]
  /\ first_page_ptr # nullptr => first_page_ptr' # nullptr

LEMMA SameParent ==
  ASSUME parent' = parent
  PROVE  /\ \A p : OfParent(p)' <=> OfParent(p)
         /\ \A a : Beyond(a)' <=> Beyond(a)
         /\ Inheritance' = Inheritance /\ ParentBlock' = ParentBlock
         /\ InChild' <=> InChild
         /\ ParentType' <=> ParentType
BY DEF OfParent, Beyond, Inheritance, ParentBlock, InChild, ParentType

(* What is inherited is not beyond. *)
LEMMA InheritedBefore ==
  ASSUME IInv, RInv, ParentKept, InChild
  PROVE  /\ \A h \in Inheritance : Address(h) \in DOMAIN blocks /\ ~Beyond(Address(h))
         /\ parent.first_page_ptr # nullptr => ~Beyond(ParentBlock)
<1>1. ParentType /\ ParentBlocks /\ ParentArena
  BY DEF ParentKept
<1>2. ASSUME NEW h \in Inheritance
      PROVE  Address(h) \in DOMAIN blocks /\ ~Beyond(Address(h))
  <2>1. /\ h \in Live /\ live[h] = parent.live[h] /\ OfParent(live[h].page)
        /\ Address(h).page = live[h].page /\ Address(h).off = live[h].off
    BY <1>1 DEF ParentBlocks, Inheritance, Live, Address, At
  <2>2. Address(h) \in DOMAIN blocks /\ live[h].off \in Nat
        /\ parent.current_block \in Nat
    BY <1>1, <2>1 DEF RInv, LiveHeaders, IInv, TypeOK, ParentType, Inheritance
  <2>3. live[h].off # 0 /\ live[h].page = parent.current_page
          => live[h].off <= parent.current_block
    <3>1. CASE Address(h) = ParentBlock
      BY <2>1, <2>2, <3>1 DEF ParentBlock, At
    <3>2. CASE End(Address(h)) <= parent.current_block
      BY <2>1, <2>2, <3>2 DEF End, IInv, TypeOK, BlockHeader
    <3> QED
      BY <1>1, <3>1, <3>2 DEF ParentBlocks
  <2> QED
    BY <2>1, <2>2, <2>3 DEF Beyond
<1>3. parent.first_page_ptr # nullptr => ~Beyond(ParentBlock)
  <2>1. ParentBlock.page = parent.current_page
        /\ ParentBlock.off = parent.current_block /\ parent.current_block \in Nat
    BY <1>1 DEF ParentBlock, At, ParentType
  <2> QED
    BY <1>1, <2>1 DEF ParentArena, Beyond
<1> QED
  BY <1>2, <1>3

(* An undisturbed parent finds its blocks and its room as they were. *)
LEMMA Inherits ==
  ASSUME IInv, RInv, ParentKept, InChild, parent' = parent, Undisturbed
  PROVE  /\ ParentType' /\ ParentArena'
         /\ \A p \in Page : OfParent(p) => mapped'[p] = parent.mapped[p]
         /\ \A h \in Inheritance :
              /\ live'[h] = parent.live[h]
              /\ OfParent(live'[h].page)
              /\ live'[h].off # 0 =>
                   /\ OfParent(blocks'[Address(h)'].page)
                   /\ live'[h].page = parent.current_page =>
                        \/ Address(h)' = ParentBlock
                        \/ End(Address(h))' <= parent.current_block
              /\ live'[h].off = 0 => \A q \in PagesOf(live'[h]) : OfParent(q)
<1>1. ParentType /\ ParentPages /\ ParentBlocks /\ ParentArena
  BY DEF ParentKept
<1>2. ParentType'
  BY <1>1, SameParent
<1>3. \A p \in Page : OfParent(p) => mapped'[p] = parent.mapped[p]
  BY <1>1 DEF ParentPages, Undisturbed
<1>4. ASSUME NEW h \in Inheritance
      PROVE  /\ live'[h] = live[h] /\ Address(h)' = Address(h) /\ h \in Handles
             /\ blocks'[Address(h)] = blocks[Address(h)]
             /\ End(Address(h))' = End(Address(h))
  <2>1. live'[h] = live[h] /\ h \in Handles
    BY DEF Undisturbed, Inheritance
  <2>2. Address(h)' = Address(h)
    BY <2>1 DEF Address
  <2>3. blocks'[Address(h)] = blocks[Address(h)]
    BY InheritedBefore DEF Undisturbed
  <2> QED
    BY <2>1, <2>2, <2>3 DEF End
<1>5. ParentArena'
  <2>1. CASE parent.first_page_ptr = nullptr
    <3>1. ASSUME NEW a \in DOMAIN blocks', OfParent(a.page) PROVE a.off = 0
      <4>1. ~Beyond(a)
        BY <1>1, <2>1, <3>1, Sizes DEF ParentArena, Beyond, OfParent
      <4> QED
        BY <1>1, <2>1, <3>1, <4>1 DEF ParentArena, Undisturbed
    <3> QED
      BY <1>1, <2>1, <3>1, SameParent DEF ParentArena
  <2>2. CASE parent.first_page_ptr # nullptr
    <3>1. ParentBlock \in DOMAIN blocks' /\ blocks'[ParentBlock] = blocks[ParentBlock]
      BY <1>1, <2>2, InheritedBefore DEF ParentArena, Undisturbed
    <3>2. End(ParentBlock)' = End(ParentBlock) /\ ParentBlock' = ParentBlock
      BY <3>1, SameParent DEF End
    <3>3. OfParent(parent.current_page)' <=> OfParent(parent.current_page)
      BY SameParent
    <3> QED
      BY <1>1, <2>2, <3>1, <3>2, <3>3 DEF ParentArena, Undisturbed
  <2> QED
    BY <2>1, <2>2
<1>6. ASSUME NEW h \in Inheritance
      PROVE  /\ live'[h] = parent.live[h]
             /\ OfParent(live'[h].page)
             /\ live'[h].off # 0 =>
                  /\ OfParent(blocks'[Address(h)'].page)
                  /\ live'[h].page = parent.current_page =>
                       \/ Address(h)' = ParentBlock
                       \/ End(Address(h))' <= parent.current_block
             /\ live'[h].off = 0 => \A q \in PagesOf(live'[h]) : OfParent(q)
  BY <1>1, <1>4 DEF ParentBlocks
<1> QED
  BY <1>2, <1>3, <1>5, <1>6

(* Where the child goes on is its own, or beyond what its parent has.      *)
ChildGoesOn ==
  /\ ~OfParent(first_fragment_list_header')
  /\ OpeningPage' => ~OfParent(next_page_ptr')
  /\ pc' = "large_free_bro" \/ FreeingSmall' => handle' \notin Inheritance
  /\ \A h \in Live' \ Inheritance : live'[h].off = 0 => ~OfParent(live'[h].page)
  /\ first_page_ptr' # nullptr => CurrentBlock' = ParentBlock \/ Beyond(CurrentBlock')
  /\ \A i \in 1..Len(fragments') : Beyond(fragments'[i])
  /\ \A h \in Small' \ Inheritance : Beyond(Address(h)')
  /\ pc' \in {"fix_block_header", "insert_fragment"} => Beyond(block')

LEMMA KeepsParent ==
  ASSUME IInv, RInv, ParentKept, InChild, parent' = parent,
         Undisturbed, ChildGoesOn
  PROVE  ParentKept'
<1>1. /\ ParentType' /\ ParentArena'
      /\ \A p \in Page : OfParent(p) => mapped'[p] = parent.mapped[p]
      /\ \A h \in Inheritance :
           /\ live'[h] = parent.live[h]
           /\ OfParent(live'[h].page)
           /\ live'[h].off # 0 =>
                /\ OfParent(blocks'[Address(h)'].page)
                /\ live'[h].page = parent.current_page =>
                     \/ Address(h)' = ParentBlock
                     \/ End(Address(h))' <= parent.current_block
           /\ live'[h].off = 0 => \A q \in PagesOf(live'[h]) : OfParent(q)
  BY Inherits
<1>2. Inheritance' = Inheritance /\ ParentBlock' = ParentBlock
      /\ \A h : PagesOf(live[h])' = PagesOf(live'[h])
  BY SameParent DEF PagesOf
<1>3. ParentPages'
  BY <1>1 DEF ParentPages, ChildGoesOn, OfParent
<1>4. ParentBlocks'
  <2>1. \A h \in Inheritance :
           /\ live'[h] = parent'.live[h]
           /\ OfParent(live[h].page)'
           /\ live'[h].off # 0 =>
                /\ OfParent(blocks[Address(h)].page)'
                /\ live'[h].page = parent'.current_page =>
                     \/ Address(h)' = ParentBlock'
                     \/ End(Address(h))' <= parent'.current_block
           /\ live'[h].off = 0 => \A q \in PagesOf(live[h])' : OfParent(q)'
    BY <1>1, <1>2 DEF OfParent
  <2>2. pc' = "large_free_bro" \/ FreeingSmall' => handle' \notin Inheritance'
    BY <1>2 DEF ChildGoesOn
  <2>3. \A h \in Live' \ Inheritance' : live'[h].off = 0 => ~OfParent(live[h].page)'
    BY <1>2 DEF ChildGoesOn, OfParent
  <2> QED
    BY <1>2, <2>1, <2>2, <2>3 DEF ParentBlocks
<1>5. ChildBeyond'
  BY <1>2 DEF ChildBeyond, ChildGoesOn, Beyond, OfParent
<1> QED
  BY <1>1, <1>3, <1>4, <1>5 DEF ParentKept

(* A step that leaves memory, the allocator's variables and the client's   *)
(* blocks alone.                                                           *)
LEMMA QuietKeeps ==
  ASSUME IInv, RInv, ParentKept, InChild, parent' = parent,
         UNCHANGED <<memory, arena, frags, live>>,
         OpeningPage' => OpeningPage /\ next_page_ptr' = next_page_ptr,
         pc' = "large_free_bro" \/ FreeingSmall' => handle' \notin Inheritance,
         pc' \in {"fix_block_header", "insert_fragment"} => Beyond(block')
  PROVE  ParentKept'
<1>1. ParentPages /\ ParentBlocks /\ ChildBeyond
  BY DEF ParentKept
<1>2. /\ Live' = Live /\ Small' = Small /\ CurrentBlock' = CurrentBlock
      /\ \A h \in Handles : Address(h)' = Address(h)
  BY DEF Live, Small, CurrentBlock, Address, arena
<1>3. Undisturbed
  BY DEF Undisturbed, memory, arena
<1>4. ChildGoesOn
  BY <1>1, <1>2 DEF ChildGoesOn, ParentPages, ParentBlocks, ChildBeyond, arena, frags,
                    Small, Live
<1> QED
  BY <1>3, <1>4, KeepsParent

LEMMA CrashKeeps ==
  ASSUME IInv, RInv, ParentKept, InChild, parent' = parent,
         NEW how \in Crashes, Crash(how)
  PROVE  ParentKept'
BY QuietKeeps DEF Crash, Crashes, client, OpeningPage, FreeingSmall

LEMMA MallocCallKeeps ==
  ASSUME IInv, RInv, ParentKept, InChild, parent' = parent,
         NEW h \in Handles, NEW n \in Requests, MallocCall(h, n)
  PROVE  ParentKept'
<1>1. UNCHANGED <<memory, arena, frags, live>>
      /\ pc' \in {"idle", "large_bro", "first_setup"}
  BY DEF MallocCall, Return, client
<1> QED
  BY <1>1, QuietKeeps DEF OpeningPage, FreeingSmall

LEMMA FreeCallKeeps ==
  ASSUME IInv, RInv, ParentKept, InChild, parent' = parent,
         NEW h \in Handles, ~Inherited(h), FreeCall(h)
  PROVE  ParentKept'
<1>1. ASSUME NEW how \in Crashes, Crash(how) PROVE ParentKept'
  BY <1>1, CrashKeeps
<1>2. ASSUME Readable(Address(h)), handle' = h, block' = Address(h),
             pc' = IF Header(Address(h)).type = "HUGE" THEN "large_free_bro"
                                                       ELSE "insert_fragment",
             UNCHANGED <<memory, arena, frags, req, next_page_ptr, client>>
      PROVE  ParentKept'
  <2>1. h \notin Inheritance /\ h \in Live /\ next_page_ptr = nullptr
    BY DEF Inherited, Inheritance, FreeCall, Live, IInv, CallOK
  <2>2. Header(Address(h)).type # "HUGE" => h \in Small
    BY <2>1 DEF RInv, LiveHeaders, Header, IInv, HeadersPositive, Small, Address, At
  <2>3. pc' = "insert_fragment" => Beyond(block')
    BY <1>2, <2>1, <2>2 DEF ParentKept, ChildBeyond
  <2>4. ~OpeningPage'
    BY <1>2, <2>1 DEF OpeningPage
  <2> QED
    BY <1>2, <2>1, <2>3, <2>4, QuietKeeps DEF client
<1>3. Fault(live[h].page) \in Crashes
  BY DEF Fault, Crashes
<1> QED
  BY <1>1, <1>2, <1>3 DEF FreeCall

LEMMA NoneOfParent ==
  ASSUME ParentKept, InChild, NEW p \in Page, mapped[p] = "none"
  PROVE  ~OfParent(p)
BY DEF ParentKept, ParentPages, OfParent

(* A page is mapped for the child alone. *)
LEMMA NewPageKeeps ==
  ASSUME IInv, RInv, ParentKept, InChild, parent' = parent,
         NEW p \in Page, CanMap(p, 1), mapped' = MapAs(p, 1, "norm"),
         blocks' = blocks, live' = live, fragments' = fragments,
         first_page_ptr # nullptr => first_page_ptr' # nullptr,
         first_fragment_list_header' = first_fragment_list_header,
         current_page' = p \/ (/\ first_page_ptr' = first_page_ptr
                               /\ UNCHANGED <<current_page, current_block>>),
         OpeningPage' => next_page_ptr' = p,
         pc' \notin {"large_free_bro", "drop_usage", "insert_fragment",
                     "fix_block_header"}
  PROVE  ParentKept'
<1>1. ~OfParent(p) /\ \A q \in Page : OfParent(q) => mapped'[q] = mapped[q]
  BY FreshPage, NoneOfParent DEF IInv
<1>2. Undisturbed
  BY <1>1 DEF Undisturbed
<1>3. /\ Live' = Live /\ Small' = Small
      /\ \A h \in Handles : Address(h)' = Address(h)
  BY DEF Live, Small, Address
<1>4. ASSUME first_page_ptr' # nullptr
      PROVE  CurrentBlock' = ParentBlock \/ Beyond(CurrentBlock')
  <2>1. CASE current_page' = p
    BY <1>1, <2>1 DEF CurrentBlock, At, Beyond
  <2>2. CASE first_page_ptr' = first_page_ptr /\ UNCHANGED <<current_page, current_block>>
    BY <1>4, <2>2 DEF CurrentBlock, ParentKept, ChildBeyond
  <2> QED
    BY <2>1, <2>2
<1>5. ChildGoesOn
  BY <1>1, <1>3, <1>4 DEF ChildGoesOn, ParentKept, ParentPages, ParentBlocks, ChildBeyond,
                          FreeingSmall, Small, Live
<1> QED
  BY <1>2, <1>5, KeepsParent

LEMMA FirstSetupKeeps ==
  ASSUME IInv, RInv, ParentKept, InChild, parent' = parent, FirstSetup
  PROVE  ParentKept'
<1>1. ASSUME pc' \in {"idle", "find_available_fragment"},
             UNCHANGED <<memory, arena, frags, live>>
      PROVE  ParentKept'
  BY <1>1, QuietKeeps DEF OpeningPage, FreeingSmall
<1>2. ASSUME NEW p \in Page, CanMap(p, 1), mapped' = MapAs(p, 1, "norm"),
             first_page_ptr = nullptr, current_page' = p,
             pc' = "find_available_fragment",
             UNCHANGED <<blocks, frags, call, client>>
      PROVE  ParentKept'
  BY <1>2, NewPageKeeps DEF frags, client, OpeningPage
<1> QED
  BY <1>1, <1>2 DEF FirstSetup, Return, client

LEMMA FindAvailableFragmentKeeps ==
  ASSUME IInv, RInv, ParentKept, InChild, parent' = parent, FindAvailableFragment
  PROVE  ParentKept'
<1>1. ASSUME NEW how \in Crashes, Crash(how) PROVE ParentKept'
  BY <1>1, CrashKeeps
<1>2. ASSUME pc' = "no_good_fragments",
             UNCHANGED <<memory, arena, frags, call, client>>
      PROVE  ParentKept'
  BY <1>2, QuietKeeps DEF OpeningPage, FreeingSmall, client
<1>3. ASSUME NEW i \in 1..Len(fragments), block' = fragments[i],
             RemoveFragment(i), pc' = "fix_block_header",
             UNCHANGED <<arena, handle, req, next_page_ptr, client>>
      PROVE  ParentKept'
  <2>1. i = 1 /\ Len(fragments) = 1 /\ first_fragment_list_header \in Page
    BY DEF IInv, ListHasOne
  <2>2. /\ fragments' = <<>> /\ first_fragment_list_header' = nullptr
        /\ Unmap(first_fragment_list_header)
    BY <1>3, <2>1 DEF RemoveFragment, RemoveNode, IInv, TypeOK
  <2>3. BlocksKept
    BY <2>1, <2>2, FragmentPageGone
  <2>4. Undisturbed
    <3>1. \A p \in Page : OfParent(p) => mapped'[p] = mapped[p]
      BY <2>1, <2>2 DEF ParentKept, ParentPages, Unmap, IInv, TypeOK
    <3> QED
      BY <1>3, <2>3, <3>1 DEF Undisturbed, BlocksKept, arena, client
  <2>5. ChildGoesOn
    <3>1. /\ Live' = Live /\ Small' = Small /\ CurrentBlock' = CurrentBlock
          /\ \A h \in Handles : Address(h)' = Address(h)
          /\ first_page_ptr' = first_page_ptr /\ live' = live
      BY <1>3 DEF Live, Small, CurrentBlock, Address, arena, client
    <3>2. ~OfParent(first_fragment_list_header')
      BY <2>2, Sizes DEF OfParent
    <3> QED
      BY <1>3, <2>1, <2>2, <3>1, <3>2
      DEF ChildGoesOn, ParentKept, ParentBlocks, ChildBeyond, Small, Live,
          OpeningPage, FreeingSmall
  <2> QED
    BY <2>4, <2>5, KeepsParent
<1>4. \A p : Fault(p) \in Crashes
  BY DEF Fault, Crashes
<1> QED
  BY <1>1, <1>2, <1>3, <1>4 DEF FindAvailableFragment

(* The child carves its blocks behind those of its parent. *)
LEMMA NextBeyond ==
  ASSUME IInv, RInv, ParentKept, InChild, first_page_ptr # nullptr,
         pc \notin {"link_page", "drop_usage"}
  PROVE  Beyond(NextAddress)
<1>1. /\ NextBlock \in Nat /\ NextBlock >= current_block /\ current_block \in Nat
      /\ current_page \in Page
      /\ NextAddress.page = current_page /\ NextAddress.off = NextBlock
      /\ CurrentBlock.page = current_page /\ CurrentBlock.off = current_block
  BY NextFree DEF CurrentBlock, At
<1>2. CASE Beyond(CurrentBlock)
  BY <1>1, <1>2 DEF Beyond, ParentKept, ParentType
<1>3. CASE CurrentBlock = ParentBlock
  <2>1. current_page = parent.current_page /\ current_block = parent.current_block
    BY <1>3, <1>1 DEF ParentBlock, At
  <2>2. parent.first_page_ptr # nullptr
    BY <1>1, <2>1, Sizes DEF ParentKept, ParentArena
  <2>3. CurrentBlock \in DOMAIN blocks /\ blocks[CurrentBlock].type # "FREE"
        /\ blocks[CurrentBlock].size \in Nat
    BY <1>3, <2>2 DEF ParentKept, ParentArena, IInv, TypeOK, BlockHeader
  <2>4. NextBlock > current_block
    BY <1>1, <2>3 DEF NextBlock, Header
  <2> QED
    BY <1>1, <2>1, <2>4 DEF Beyond
<1> QED
  BY <1>2, <1>3 DEF ParentKept, ChildBeyond

LEMMA NoGoodFragmentsKeeps ==
  ASSUME IInv, RInv, ParentKept, InChild, parent' = parent, NoGoodFragments
  PROVE  ParentKept'
<1>1. /\ pc = "no_good_fragments" /\ first_page_ptr # nullptr
      /\ Beyond(NextAddress)
  BY NextBeyond DEF NoGoodFragments, IInv, BeforeFirstPage, SmallCall
<1>2. ASSUME current_block' = NextBlock, block' = NextAddress, pc' = "fix_block_header",
             UNCHANGED <<memory, first_page_ptr, current_page, frags, client>>
      PROVE  ParentKept'
  <2>1. /\ Live' = Live /\ Small' = Small /\ CurrentBlock' = NextAddress
        /\ \A h \in Handles : Address(h)' = Address(h)
    BY <1>2 DEF Live, Small, CurrentBlock, NextAddress, Address, client
  <2>2. Undisturbed
    BY <1>2 DEF Undisturbed, memory, client
  <2>3. ChildGoesOn
    BY <1>1, <1>2, <2>1
    DEF ChildGoesOn, ParentKept, ParentPages, ParentBlocks, ChildBeyond, frags, client,
        OpeningPage, FreeingSmall, Small, Live
  <2> QED
    BY <2>2, <2>3, KeepsParent
<1>3. ASSUME NEW how \in Crashes, Crash(how) PROVE ParentKept'
  BY <1>3, CrashKeeps
<1>4. ASSUME NEW p \in Page, CanMap(p, 1), mapped' = MapAs(p, 1, "norm"),
             next_page_ptr' = p, pc' = "open_page",
             UNCHANGED <<blocks, arena, frags, client>>
      PROVE  ParentKept'
  BY <1>4, NewPageKeeps DEF frags, arena, client
<1>5. ASSUME Return("error"), UNCHANGED <<memory, arena, frags, live>>
      PROVE  ParentKept'
  BY <1>5, QuietKeeps DEF OpeningPage, FreeingSmall, Return
<1>6. Fault(current_page) \in Crashes
  BY DEF Fault, Crashes
<1> QED
  BY <1>2, <1>3, <1>4, <1>5, <1>6 DEF NoGoodFragments, NextAddress

LEMMA OpenPageKeeps ==
  ASSUME IInv, RInv, ParentKept, InChild, parent' = parent, OpenPage
  PROVE  ParentKept'
<1>1. /\ pc = "open_page" /\ first_page_ptr # nullptr /\ next_page_ptr # nullptr
      /\ Beyond(NextAddress) /\ ~OfParent(next_page_ptr)
  BY NextBeyond DEF OpenPage, IInv, BeforeFirstPage, SmallCall, CallOK,
                    ParentKept, ParentPages, OpeningPage
<1>2. ASSUME NEW hdr, blocks' = WithHeader(NextAddress, hdr),
             current_block' = NextBlock, block' = NextAddress,
             pc' = "insert_fragment",
             UNCHANGED <<mapped, first_page_ptr, current_page, frags, next_page_ptr,
                         client>>
      PROVE  ParentKept'
  <2>1. /\ Live' = Live /\ Small' = Small /\ CurrentBlock' = NextAddress
        /\ \A h \in Handles : Address(h)' = Address(h)
    BY <1>2 DEF Live, Small, CurrentBlock, NextAddress, Address, client
  <2>2. Undisturbed
    BY <1>1, <1>2 DEF Undisturbed, WithHeader, client
  <2>3. ChildGoesOn
    BY <1>1, <1>2, <2>1
    DEF ChildGoesOn, ParentKept, ParentPages, ParentBlocks, ChildBeyond, frags, client,
        OpeningPage, FreeingSmall, Small, Live
  <2> QED
    BY <2>2, <2>3, KeepsParent
<1>3. ASSUME NEW how \in Crashes, Crash(how) PROVE ParentKept'
  BY <1>3, CrashKeeps
<1>4. Fault(current_page) \in Crashes /\ WritePast(NextAddress) \in Crashes
  BY DEF Fault, WritePast, Crashes
<1> QED
  BY <1>2, <1>3, <1>4 DEF OpenPage, NextAddress

(* A page that is not the parent's is unmapped. *)
LEMMA UnmapKeeps ==
  ASSUME IInv, RInv, ParentKept, InChild, parent' = parent,
         NEW p \in Page, ~OfParent(p), Unmap(p),
         UNCHANGED <<arena, frags>>, pc' = "idle",
         \A h \in Live' : live'[h] = live[h] /\ h \in Live,
         \A h \in Inheritance : live'[h] = live[h]
  PROVE  ParentKept'
<1>1. /\ Live' \subseteq Live /\ Small' \subseteq Small
      /\ CurrentBlock' = CurrentBlock
      /\ \A h \in Live' : Address(h)' = Address(h)
  BY DEF Live, Small, CurrentBlock, Address, arena
<1>2. Undisturbed
  BY DEF Undisturbed, Unmap, WithoutPage, Beyond, arena, IInv, TypeOK, OfParent
<1>3. ChildGoesOn
  BY <1>1 DEF ChildGoesOn, ParentKept, ParentPages, ParentBlocks, ChildBeyond, frags,
              arena, OpeningPage, FreeingSmall, Small
<1> QED
  BY <1>2, <1>3, KeepsParent

LEMMA UndoOpenPageKeeps ==
  ASSUME IInv, RInv, ParentKept, InChild, parent' = parent, UndoOpenPage
  PROVE  ParentKept'
<1>1. next_page_ptr \in Page /\ ~OfParent(next_page_ptr)
  BY DEF UndoOpenPage, OpeningPage, ParentKept, ParentPages, IInv, CallOK, TypeOK
<1>2. /\ Unmap(next_page_ptr) /\ UNCHANGED <<arena, frags, live>> /\ pc' = "idle"
  BY DEF UndoOpenPage, Return
<1>3. Live' = Live /\ \A h \in Inheritance : live'[h] = live[h]
  BY <1>2 DEF Live
<1> QED
  BY <1>1, <1>2, <1>3, UnmapKeeps

LEMMA LinkPageKeeps ==
  ASSUME IInv, RInv, ParentKept, InChild, parent' = parent, LinkPage
  PROVE  ParentKept'
<1>1. /\ current_page' = next_page_ptr /\ current_block' = PHEADERSIZE
      /\ block' = At(next_page_ptr, PHEADERSIZE) /\ pc' = "fix_block_header"
      /\ UNCHANGED <<mapped, blocks, first_page_ptr, frags, client>>
      /\ ~OfParent(next_page_ptr)
  BY DEF LinkPage, OpeningPage, ParentKept, ParentPages
<1>2. Beyond(At(next_page_ptr, PHEADERSIZE))
  BY <1>1 DEF Beyond, At
<1>3. /\ Live' = Live /\ Small' = Small /\ CurrentBlock' = At(next_page_ptr, PHEADERSIZE)
      /\ \A h \in Handles : Address(h)' = Address(h)
  BY <1>1 DEF Live, Small, CurrentBlock, Address, client
<1>4. Undisturbed
  BY <1>1 DEF Undisturbed, client
<1>5. ChildGoesOn
  BY <1>1, <1>2, <1>3
  DEF ChildGoesOn, ParentKept, ParentPages, ParentBlocks, ChildBeyond, frags, client,
      OpeningPage, FreeingSmall, Small, Live
<1> QED
  BY <1>4, <1>5, KeepsParent

LEMMA FixBlockHeaderKeeps ==
  ASSUME IInv, RInv, ParentKept, InChild, parent' = parent, FixBlockHeader
  PROVE  ParentKept'
<1>1. ASSUME NEW how \in Crashes, Crash(how) PROVE ParentKept'
  BY <1>1, CrashKeeps
<1>2. /\ pc = "fix_block_header" /\ handle \in Handles /\ live[handle] = NoBlock
      /\ Beyond(block) /\ block.off # 0
  BY DEF FixBlockHeader, ParentKept, ChildBeyond, RInv, MallocCalled, InMalloc,
         SmallCall, IInv, CallOK
<1>3. ASSUME blocks' = WithHeader(block,
               [type |-> "USED", size |-> req, page |-> current_page]),
             live' = [live EXCEPT ![handle] =
                       [page |-> block.page, off |-> block.off, size |-> req]],
             Return("ok"),
             UNCHANGED <<mapped, first_page_ptr, current_page, current_block, frags>>
      PROVE  ParentKept'
  <2> DEFINE b == [page |-> block.page, off |-> block.off, size |-> req]
  <2>1. b.off # 0 /\ At(b.page, b.off) = block
    BY <1>2 DEF At, IInv, TypeOK, Address0
  <2>2. \A h \in Handles : live'[h] = IF h = handle THEN b ELSE live[h]
    BY <1>2, <1>3 DEF IInv, TypeOK
  <2> HIDE DEF b
  <2>3. handle \notin Live /\ handle \notin Inheritance /\ Inheritance \subseteq Handles
    BY <1>2 DEF Live, ParentKept, ParentBlocks, Inheritance
  <2>4. /\ \A h \in Live' : h # handle => h \in Live /\ live'[h] = live[h]
        /\ \A h \in Small' : h # handle => h \in Small /\ Address(h)' = Address(h)
        /\ \A h \in Handles : h = handle => Address(h)' = block
    BY <2>1, <2>2 DEF Live, Small, Address
  <2>5. Undisturbed
    BY <1>2, <1>3, <2>2, <2>3 DEF Undisturbed, WithHeader
  <2>6. CurrentBlock' = CurrentBlock /\ first_page_ptr' = first_page_ptr
    BY <1>3 DEF CurrentBlock
  <2>7. /\ \A h \in Live' \ Inheritance : live'[h].off = 0 => ~OfParent(live'[h].page)
        /\ \A h \in Small' \ Inheritance : Beyond(Address(h)')
    BY <1>2, <2>1, <2>2, <2>4 DEF ParentKept, ParentBlocks, ChildBeyond, Live, Small
  <2>8. ChildGoesOn
    BY <1>3, <2>6, <2>7
    DEF ChildGoesOn, ParentKept, ParentPages, ChildBeyond, frags, Return,
        OpeningPage, FreeingSmall
  <2> QED
    BY <2>5, <2>8, KeepsParent
<1>4. Fault(current_page) \in Crashes /\ WritePast(block) \in Crashes
  BY DEF Fault, WritePast, Crashes
<1> QED
  BY <1>1, <1>3, <1>4 DEF FixBlockHeader

LEMMA LargeBroKeeps ==
  ASSUME IInv, RInv, ParentKept, InChild, parent' = parent, LargeBro
  PROVE  ParentKept'
<1>1. /\ pc = "large_bro" /\ req \in Nat /\ req > 0
      /\ handle \in Handles /\ live[handle] = NoBlock
  BY DEF LargeBro, IInv, TypeOK, CallOK, RInv, MallocCalled, InMalloc
<1>2. ASSUME NEW p \in Page, CanMap(p, PagesFor(req)),
             mapped' = MapAs(p, PagesFor(req), "huge"),
             blocks' = WithHeader(At(p, 0),
                         [type |-> "HUGE", size |-> req, page |-> p]),
             live' = [live EXCEPT ![handle] = [page |-> p, off |-> 0, size |-> req]],
             Return("ok"), UNCHANGED <<page_hdr, arena, frags>>
      PROVE  ParentKept'
  <2> DEFINE new == p..(p + PagesFor(req) - 1)
             b   == [page |-> p, off |-> 0, size |-> req]
  <2>1. /\ \A q \in new : q \in Page /\ ~OfParent(q)
        /\ p \in new /\ \A q \in Page : q \notin new => mapped'[q] = mapped[q]
    <3>1. PagesFor(req) \in Nat /\ PagesFor(req) # 0
      BY <1>1, PagesHold, Sizes
    <3>2. p \in new
      BY <3>1, Sizes
    <3>3. \A q \in new : q \in Page /\ mapped[q] = "none"
      BY <1>2 DEF CanMap
    <3> QED
      BY <1>2, <3>2, <3>3, NoneOfParent DEF MapAs
  <2> HIDE DEF new
  <2>2. b.page = p /\ b.off = 0 /\ Beyond(At(p, 0))
    BY <2>1 DEF Beyond, At
  <2>3. \A h \in Handles : live'[h] = IF h = handle THEN b ELSE live[h]
    BY <1>1, <1>2 DEF IInv, TypeOK
  <2> HIDE DEF b
  <2>4. handle \notin Inheritance /\ Inheritance \subseteq Handles
    BY <1>1 DEF Live, ParentKept, ParentBlocks, Inheritance
  <2>5. /\ \A h \in Live' : h # handle => h \in Live /\ live'[h] = live[h]
        /\ \A h \in Small' : h \in Small /\ Address(h)' = Address(h)
    BY <2>2, <2>3 DEF Live, Small, Address
  <2>6. Undisturbed
    BY <1>2, <2>1, <2>2, <2>3, <2>4 DEF Undisturbed, WithHeader, arena
  <2>7. CurrentBlock' = CurrentBlock /\ first_page_ptr' = first_page_ptr
    BY <1>2 DEF CurrentBlock, arena
  <2>8. \A h \in Live' \ Inheritance : live'[h].off = 0 => ~OfParent(live'[h].page)
    BY <2>1, <2>2, <2>3, <2>5 DEF ParentKept, ParentBlocks, Live
  <2>9. \A h \in Small' \ Inheritance : Beyond(Address(h)')
    BY <2>5 DEF ParentKept, ChildBeyond
  <2>10. ChildGoesOn
    BY <1>2, <2>7, <2>8, <2>9
    DEF ChildGoesOn, ParentKept, ParentPages, ChildBeyond, frags, Return,
        OpeningPage, FreeingSmall
  <2> QED
    BY <2>6, <2>10, KeepsParent
<1>3. ASSUME Return("error"), UNCHANGED <<memory, arena, frags, live>>
      PROVE  ParentKept'
  BY <1>3, QuietKeeps DEF OpeningPage, FreeingSmall, Return
<1> QED
  BY <1>2, <1>3 DEF LargeBro

LEMMA LargeFreeBroKeeps ==
  ASSUME IInv, RInv, ParentKept, InChild, parent' = parent, LargeFreeBro
  PROVE  ParentKept'
<1>1. /\ handle \in Live /\ handle \in Handles /\ handle \notin Inheritance
      /\ block = Address(handle) /\ block.off = 0
  BY DEF LargeFreeBro, RInv, FreeCalled, ParentKept, ParentBlocks, Live
<1>2. block.page = live[handle].page /\ live[handle].off = 0 /\ block \in DOMAIN blocks
  BY <1>1 DEF Address, At, RInv, LiveHeaders
<1>3. block.page \in Page /\ ~OfParent(block.page)
  BY <1>1, <1>2 DEF ParentKept, ParentBlocks, IInv, TypeOK
<1>4. \A h \in Handles : live'[h] = IF h = handle THEN NoBlock ELSE live[h]
  BY <1>1 DEF LargeFreeBro, IInv, TypeOK
<1>5. /\ \A h \in Live' : live'[h] = live[h] /\ h \in Live
      /\ \A h \in Inheritance : live'[h] = live[h]
  BY <1>1, <1>4 DEF Live, Inheritance
<1>6. Unmap(block.page) /\ UNCHANGED <<arena, frags>> /\ pc' = "idle"
  BY DEF LargeFreeBro, Return
<1> QED
  BY <1>3, <1>5, <1>6, UnmapKeeps

LEMMA DropUsageKeeps ==
  ASSUME IInv, RInv, ParentKept, InChild, parent' = parent, DropUsage
  PROVE  ParentKept'
<1>1. /\ pc = "drop_usage" /\ handle \in Live /\ handle \in Handles
      /\ handle \notin Inheritance
      /\ block \in DOMAIN blocks /\ Header(block) = blocks[block]
      /\ Is(blocks[block].page, "norm")
      /\ page_hdr[blocks[block].page].usages # 1
  BY DEF DropUsage, RInv, FreeCalled, FreeingSmall, LiveHeaders, Live, Header,
         ParentKept, ParentBlocks
<1>2. /\ UNCHANGED <<mapped, blocks, arena, frags>> /\ pc' = "idle"
      /\ live' = [live EXCEPT ![handle] = NoBlock]
  BY <1>1 DEF DropUsage, Emptied, Return
<1>3. \A h \in Handles : live'[h] = IF h = handle THEN NoBlock ELSE live[h]
  BY <1>1, <1>2 DEF IInv, TypeOK
<1>4. /\ \A h \in Live' : live'[h] = live[h] /\ h \in Live
      /\ \A h \in Inheritance : live'[h] = live[h]
  BY <1>1, <1>3 DEF Live, Inheritance
<1>5. /\ Live' \subseteq Live /\ Small' \subseteq Small
      /\ CurrentBlock' = CurrentBlock
      /\ \A h \in Live' : Address(h)' = Address(h)
  BY <1>2, <1>4 DEF Live, Small, CurrentBlock, Address, arena
<1>6. Undisturbed
  BY <1>2, <1>4 DEF Undisturbed, arena
<1>7. ChildGoesOn
  BY <1>2, <1>4, <1>5
  DEF ChildGoesOn, ParentKept, ParentPages, ParentBlocks, ChildBeyond, frags,
      arena, OpeningPage, FreeingSmall, Small
<1> QED
  BY <1>6, <1>7, KeepsParent

LEMMA InsertFragmentKeeps ==
  ASSUME IInv, RInv, ParentKept, InChild, parent' = parent, InsertFragment
  PROVE  ParentKept'
<1>1. /\ pc = "insert_fragment" /\ Header(block).size # 0 /\ Beyond(block)
      /\ OpeningPage <=> CalledByMalloc
      /\ ~CalledByMalloc => handle \notin Inheritance
  BY RInserting
  DEF InsertFragment, ParentKept, ParentBlocks, ChildBeyond, OpeningPage,
      CalledByMalloc, FreeingSmall
<1>2. ASSUME NEW how \in Crashes, Crash(how) PROVE ParentKept'
  BY <1>2, CrashKeeps
<1>3. ASSUME blocks' = WithHeader(block, [Header(block) EXCEPT !.type = "FREE"]),
             fragments' = <<block>>, ~OfParent(first_fragment_list_header'),
             \A p \in Page : mapped[p] # "none" => mapped'[p] = mapped[p],
             Inserted, UNCHANGED <<arena, call, client>>
      PROVE  ParentKept'
  <2>1. /\ Live' = Live /\ Small' = Small /\ CurrentBlock' = CurrentBlock
        /\ \A h \in Handles : Address(h)' = Address(h)
    BY <1>3 DEF Live, Small, CurrentBlock, Address, arena, client
  <2>2. \A p \in Page : OfParent(p) => mapped'[p] = mapped[p]
    BY <1>3 DEF ParentKept, ParentPages, OfParent
  <2>3. Undisturbed
    BY <1>1, <1>3, <2>2 DEF Undisturbed, WithHeader, arena, client
  <2>4. \A i \in 1..Len(fragments') : Beyond(fragments'[i])
    BY <1>1, <1>3
  <2>5. /\ OpeningPage' => ~OfParent(next_page_ptr')
        /\ pc' = "large_free_bro" \/ FreeingSmall' => handle' \notin Inheritance
        /\ pc' \notin {"fix_block_header", "insert_fragment"}
    BY <1>1, <1>3
    DEF Inserted, OpeningPage, FreeingSmall, call, ParentKept, ParentPages
  <2>6. ChildGoesOn
    BY <1>3, <2>1, <2>4, <2>5
    DEF ChildGoesOn, ParentKept, ParentBlocks, ChildBeyond, client, arena, Small, Live
  <2> QED
    BY <2>3, <2>6, KeepsParent
<1>4. ASSUME NEW p \in Page, CanMap(p, 1), mapped' = MapAs(p, 1, "frag"),
             first_fragment_list_header' = p, fragments' = <<block>>,
             blocks' = WithHeader(block, [Header(block) EXCEPT !.type = "FREE"]),
             Inserted, UNCHANGED <<arena, call, client>>
      PROVE  ParentKept'
  <2>1. mapped[p] = "none" /\ \A q \in Page : mapped[q] # "none" => mapped'[q] = mapped[q]
    <3>1. \A q \in Page : q \in p..(p + 1 - 1) <=> q = p
      BY Sizes
    <3> QED
      BY <1>4, <3>1, Sizes DEF CanMap, MapAs
  <2> QED
    BY <1>3, <1>4, <2>1, NoneOfParent
<1>5. ASSUME Is(first_fragment_list_header, "frag"),
             fragments' = Ordered(Header(block).size),
             blocks' = WithHeader(block, [Header(block) EXCEPT !.type = "FREE"]),
             Inserted,
             UNCHANGED <<mapped, arena, first_fragment_list_header, call, client>>
      PROVE  ParentKept'
  <2>1. Len(fragments) = 1 /\ fragments[1] \in DOMAIN blocks
    BY <1>5 DEF IInv, ListHasOne, Is, RInv, ListFree
  <2>2. Header(fragments[1]).size # 0
    BY <2>1 DEF Header, IInv, TypeOK, HeadersPositive, BlockHeader
  <2>3. fragments' = <<block>>
    BY <1>5, <2>1, <2>2 DEF Ordered
  <2> QED
    BY <1>3, <1>5, <2>3 DEF ParentKept, ParentPages
<1>6. ASSUME first_fragment_list_header' = ErrPtr,
             IF CalledByMalloc
               THEN pc' = "undo_open_page" /\ UNCHANGED <<call, ret>>
               ELSE Return("error"),
             UNCHANGED <<memory, arena, free_spaces, nodes_taken, fragments, live>>
      PROVE  ParentKept'
  <2>1. /\ Live' = Live /\ Small' = Small /\ CurrentBlock' = CurrentBlock
        /\ \A h \in Handles : Address(h)' = Address(h)
    BY <1>6 DEF Live, Small, CurrentBlock, Address, arena
  <2>2. Undisturbed
    BY <1>6 DEF Undisturbed, memory, arena
  <2>3. /\ OpeningPage' => ~OfParent(next_page_ptr')
        /\ pc' \notin {"fix_block_header", "insert_fragment", "large_free_bro",
                       "drop_usage"}
        /\ ~OfParent(first_fragment_list_header')
    BY <1>1, <1>6, Sizes
    DEF Return, OpeningPage, call, ParentKept, ParentPages, OfParent
  <2>4. ChildGoesOn
    BY <1>6, <2>1, <2>3
    DEF ChildGoesOn, ParentKept, ParentBlocks, ChildBeyond, arena, Small, Live,
        FreeingSmall
  <2> QED
    BY <2>2, <2>4, KeepsParent
<1>7. /\ Fault(first_fragment_list_header) \in Crashes
      /\ "wild" \in Crashes
      /\ \A i : Fault(fragments[i].page) \in Crashes
  BY DEF Fault, Crashes
<1> QED
  BY <1>1, <1>2, <1>4, <1>5, <1>6, <1>7 DEF InsertFragment

(***************************************************************************)
(* The theorems.                                                           *)
(***************************************************************************)

(* What the running process does between two forks. *)
HeapStep ==
  \/ \E h \in Handles, n \in Requests : StopsOnError /\ MallocCall(h, n)
  \/ \E h \in Handles : StopsOnError /\ ~Inherited(h) /\ FreeCall(h)
  \/ Step

LEMMA ClientWritesKeeps ==
  ASSUME IInv, RInv, ParentKept, InChild, parent' = parent, ClientWrites
  PROVE  ParentKept'
BY CrashKeeps DEF ClientWrites, Crashes

LEMMA ChildStep ==
  ASSUME IInv, RInv, ParentKept, InChild, parent' = parent, HeapStep
  PROVE  ParentKept'
<1>1. ASSUME NEW h \in Handles, NEW n \in Requests, MallocCall(h, n)
      PROVE  ParentKept'
  BY <1>1, MallocCallKeeps
<1>2. ASSUME NEW h \in Handles, ~Inherited(h), FreeCall(h)
      PROVE  ParentKept'
  BY <1>2, FreeCallKeeps
<1>3. CASE Step
  BY <1>3, FirstSetupKeeps, FindAvailableFragmentKeeps, NoGoodFragmentsKeeps,
     OpenPageKeeps, UndoOpenPageKeeps, LinkPageKeeps, FixBlockHeaderKeeps,
     LargeBroKeeps, LargeFreeBroKeeps, DropUsageKeeps, InsertFragmentKeeps,
     ClientWritesKeeps
  DEF Step
<1> QED
  BY <1>1, <1>2, <1>3 DEF HeapStep

(* Every step keeps the invariant. *)
LEMMA ForkStep ==
  ASSUME RulesKept, FHInv, [FHNext]_fhvars
  PROVE  FHInv'
<1>1. CASE Fork
  <2>1. IInv' /\ RInv'
    BY <1>1, IUnchanged, RUnchanged DEF FHInv, Fork
  <2> QED
    BY <1>1, <2>1, ForkKeeps DEF FHInv
<1>2. CASE ChildEnds
  <2>1. ~InChild'
    BY <1>2 DEF ChildEnds, InChild
  <2> QED
    BY <1>2, <2>1, EndRestores, EndInv DEF FHInv, ParentKept
<1>3. CASE HeapStep /\ UNCHANGED <<parent, forks>>
  <2>1. IInv' /\ RInv'
    <3>1. Next
      BY <1>3 DEF HeapStep, Next
    <3> QED
      BY <3>1, InvStep, RulesStep DEF FHInv
  <2>2. InChild => ParentKept'
    BY <1>3, ChildStep DEF FHInv
  <2>3. ~InChild => ParentKept'
    BY <1>3 DEF ParentKept, InChild
  <2> QED
    BY <2>1, <2>2, <2>3 DEF FHInv
<1>4. CASE UNCHANGED fhvars
  <2>1. UNCHANGED vars /\ parent' = parent
    BY <1>4 DEF fhvars
  <2>2. IInv' /\ RInv'
    BY <2>1, IUnchanged, RUnchanged DEF FHInv
  <2>3. InChild => ParentKept'
    <3>1. UNCHANGED <<memory, arena, frags, live, pc, handle, block, next_page_ptr>>
      BY <2>1 DEF vars, call, client
    <3>2. OpeningPage' <=> OpeningPage
      BY <3>1 DEF OpeningPage
    <3>3. FreeingSmall' <=> FreeingSmall
      BY <3>1, <3>2 DEF FreeingSmall
    <3> QED
      BY <2>1, <3>1, <3>2, <3>3, QuietKeeps
      DEF FHInv, ParentKept, ParentBlocks, ChildBeyond
  <2>4. ~InChild => ParentKept'
    BY <2>1 DEF ParentKept, InChild
  <2> QED
    BY <2>2, <2>3, <2>4 DEF FHInv
<1> QED
  BY <1>1, <1>2, <1>3, <1>4 DEF FHNext, HeapStep

(* In parent and child the memory of the allocator stays in order, and     *)
(* what the child does leaves all that its parent needs to go on: its      *)
(* blocks and their headers, and the room behind its current block.        *)
THEOREM ForkedInvariant ==
  ASSUME RulesKept
  PROVE  FHSpec => []FHInv
<1>1. FHInit => FHInv
  BY InitInv, RInit DEF FHInit, FHInv, ParentKept, InChild
<1>2. FHInv /\ [FHNext]_fhvars => FHInv'
  BY ForkStep
<1> QED
  BY <1>1, <1>2, PTL DEF FHSpec

(* No two blocks that a process holds share a byte, whether it has them    *)
(* from its parent, shares its pages with a child, or had children that    *)
(* ended at any step of a call (cmd, malloc, free).                        *)
THEOREM ForkedBlocksDisjoint ==
  ASSUME RulesKept
  PROVE  FHSpec => []DisjointBlocks
<1>1. FHInv => DisjointBlocks
  BY DisjointState DEF FHInv, DisjointBlocks
<1> QED
  BY <1>1, ForkedInvariant, PTL

(* What the list holds is free, and apart from every block in use.         *)
THEOREM ForkedListApart ==
  ASSUME RulesKept
  PROVE  FHSpec => []ListedAreFree
<1>1. FHInv => ListedAreFree
  BY FragmentApart DEF FHInv, RInv, ListFree, ListedAreFree, Header
<1> QED
  BY <1>1, ForkedInvariant, PTL

(* A huge block of either process lies in pages mapped for it.             *)
THEOREM ForkedHugeBacked ==
  ASSUME RulesKept
  PROVE  FHSpec => []HugeBacked
<1>1. FHInv => HugeBacked
  BY BackedState DEF FHInv, HugeBacked
<1> QED
  BY <1>1, ForkedInvariant, PTL

(***************************************************************************)
(* Nothing is overwritten.                                                 *)
(***************************************************************************)

(* The headers that a step makes old data, if it makes any. *)
OldDataAfter(a) == a \in DOMAIN blocks' /\ blocks'[a].type = "STALE"
NoneGetsOld == \A a : OldDataAfter(a) => OldDataIn(a)

LEMMA HeadersKept ==
  /\ blocks' = blocks => NoneGetsOld
  /\ \A p : blocks' = WithoutPage(p) => NoneGetsOld
  /\ \A b, h : blocks' = WithHeader(b, h) /\ h.type # "STALE" =>
       NoneGetsOld /\ ~OldDataAfter(b)
<1>1. blocks' = blocks => NoneGetsOld
  BY DEF NoneGetsOld, OldDataAfter, OldDataIn
<1>2. ASSUME NEW p, blocks' = WithoutPage(p)
      PROVE  NoneGetsOld
  BY <1>2 DEF NoneGetsOld, OldDataAfter, OldDataIn, WithoutPage
<1>3. ASSUME NEW b, NEW h, blocks' = WithHeader(b, h), h.type # "STALE"
      PROVE  NoneGetsOld /\ ~OldDataAfter(b)
  BY <1>3 DEF NoneGetsOld, OldDataAfter, OldDataIn, WithHeader
<1> QED
  BY <1>1, <1>2, <1>3

(* What a step owes: the header of the parent's current block does not     *)
(* become old data, and that of the current block only if malloc fails.    *)
OldDataFails ==
  OldDataAfter(CurrentBlock') =>
    \/ pc' \in Crashes \/ Carved'
    \/ OpeningPage' /\ pc' \in {"insert_fragment", "undo_open_page"}
    \/ forks > 0 /\ pc' = "idle" /\ ret' = "error"

LEMMA FailsKept ==
  ASSUME StaleFails, UNCHANGED <<parent, forks>>, forks = 0 => NoOldData',
         InChild /\ OldDataAfter(ParentBlock) => OldDataIn(ParentBlock),
         OldDataFails
  PROVE  StaleFails'
<1>1. ParentBlock' = ParentBlock /\ InChild' = InChild
  BY DEF ParentBlock, InChild
<1>2. /\ OldDataIn(CurrentBlock)' <=> OldDataAfter(CurrentBlock')
      /\ OldDataIn(ParentBlock)' <=> OldDataAfter(ParentBlock)
  BY <1>1 DEF OldDataIn, OldDataAfter
<1> QED
  BY <1>1, <1>2 DEF StaleFails, OldDataFails

(* In the steps before a block is carved, and in those of free, the        *)
(* current block is none of old data.                                      *)
BeforeCarving == {"first_setup", "find_available_fragment", "no_good_fragments",
                  "open_page", "link_page", "large_bro", "large_free_bro",
                  "drop_usage"}

LEMMA NoneBefore ==
  ASSUME StaleFails, pc \in BeforeCarving
  PROVE  ~OldDataIn(CurrentBlock)
BY DEF StaleFails, BeforeCarving, Crashes, Carved

LEMMA StaysNew ==
  ASSUME StaleFails, pc \in BeforeCarving, NoneGetsOld, UNCHANGED arena
  PROVE  OldDataFails
<1>1. CurrentBlock' = CurrentBlock
  BY DEF CurrentBlock, arena
<1> QED
  BY <1>1, NoneBefore DEF OldDataFails, NoneGetsOld

LEMMA CallsStayNew ==
  ASSUME StaleFails, StopsOnError, NEW h \in Handles,
         (\E n \in Requests : MallocCall(h, n)) \/ FreeCall(h)
  PROVE  NoneGetsOld /\ OldDataFails
<1>1. pc = "idle" /\ UNCHANGED <<memory, arena>>
  BY DEF MallocCall, FreeCall, Crash
<1>2. ~OldDataIn(CurrentBlock)
  BY <1>1 DEF StaleFails, StopsOnError, Crashes, Carved, OpeningPage
<1>3. CurrentBlock' = CurrentBlock /\ NoneGetsOld
  BY <1>1, HeadersKept DEF CurrentBlock, arena, memory
<1> QED
  BY <1>2, <1>3 DEF OldDataFails, NoneGetsOld

LEMMA CrashStaysNew ==
  ASSUME NEW how \in Crashes, Crash(how)
  PROVE  NoneGetsOld /\ OldDataFails
BY HeadersKept DEF Crash, memory, OldDataFails

(* The first block of a page that was just mapped has no header. *)
LEMMA FirstIsNew ==
  ASSUME NEW p, \A a \in DOMAIN blocks : a.page # p, blocks' = blocks,
         current_page' = p
  PROVE  NoneGetsOld /\ OldDataFails
<1>1. CurrentBlock'.page = p
  BY DEF CurrentBlock, At
<1> QED
  BY <1>1, HeadersKept DEF OldDataFails, OldDataAfter

LEMMA FirstSetupStaysNew ==
  ASSUME IInv, RInv, StaleFails, FirstSetup
  PROVE  NoneGetsOld /\ OldDataFails
<1>1. CASE UNCHANGED <<blocks, arena>>
  BY <1>1, StaysNew, HeadersKept DEF FirstSetup, BeforeCarving
<1>2. ASSUME NEW p \in Page, CanMap(p, 1), current_page' = p, blocks' = blocks
      PROVE  NoneGetsOld /\ OldDataFails
  <2>1. mapped[p] = "none"
    BY <1>2, Sizes DEF CanMap
  <2>2. \A a \in DOMAIN blocks : a.page # p
    BY <2>1 DEF RInv, HeadersThere, Readable, Is
  <2> QED
    BY <1>2, <2>2, FirstIsNew
<1> QED
  BY <1>1, <1>2 DEF FirstSetup, memory

LEMMA FindAvailableFragmentStaysNew ==
  ASSUME IInv, RInv, StaleFails, FindAvailableFragment
  PROVE  NoneGetsOld /\ OldDataFails
<1>1. CASE NoneGetsOld /\ UNCHANGED arena
  BY <1>1, StaysNew DEF FindAvailableFragment, BeforeCarving
<1>2. ASSUME NEW i \in 1..Len(fragments), RemoveFragment(i) PROVE NoneGetsOld
  BY <1>2, HeadersKept DEF RemoveFragment, Unmap
<1>3. UNCHANGED memory => NoneGetsOld
  BY HeadersKept DEF memory
<1> QED
  BY <1>1, <1>2, <1>3 DEF FindAvailableFragment, Crash

LEMMA NoGoodFragmentsStaysNew ==
  ASSUME IInv, RInv, StaleFails, NoGoodFragments
  PROVE  NoneGetsOld /\ OldDataFails
<1>1. CASE NoneGetsOld /\ UNCHANGED arena
  BY <1>1, StaysNew DEF NoGoodFragments, BeforeCarving
<1>2. ASSUME pc' = "fix_block_header", current_block' = NextBlock,
             current_page' = current_page, block' = At(current_page, NextBlock)
      PROVE  OldDataFails
  BY <1>2 DEF OldDataFails, Carved, CurrentBlock
<1>3. NoneGetsOld
  BY HeadersKept DEF NoGoodFragments, memory, Crash
<1> QED
  BY <1>1, <1>2, <1>3 DEF NoGoodFragments, Crash

(* A child never writes where its parent's current block is. *)
LEMMA OpenPageApart ==
  ASSUME IInv, RInv, ParentKept, InChild, OpenPage
  PROVE  ParentBlock # NextAddress
<1>1. first_page_ptr # nullptr /\ pc = "open_page"
  BY DEF OpenPage, IInv, BeforeFirstPage, SmallCall
<1>2. Beyond(NextAddress) /\ NextAddress.page \in Page
  BY <1>1, NextBeyond, NextFree
<1>3. parent.first_page_ptr = nullptr => ParentBlock.page = nullptr
  BY DEF ParentKept, ParentArena, ParentBlock, At
<1> QED
  BY <1>2, <1>3, InheritedBefore, Sizes

LEMMA OpenPageFails ==
  ASSUME IInv, RInv, ParentKept, StaleFails, OpenPage
  PROVE  /\ InChild /\ OldDataAfter(ParentBlock) => OldDataIn(ParentBlock)
         /\ OldDataFails
<1>1. next_page_ptr # nullptr
  BY DEF OpenPage, IInv, CallOK
<1>2. ASSUME NEW how \in Crashes, Crash(how)
      PROVE  /\ InChild /\ OldDataAfter(ParentBlock) => OldDataIn(ParentBlock)
             /\ OldDataFails
  BY <1>2, CrashStaysNew DEF NoneGetsOld
<1>3. ASSUME NEW h, blocks' = WithHeader(NextAddress, h), pc' = "insert_fragment",
             next_page_ptr' = next_page_ptr
      PROVE  /\ InChild /\ OldDataAfter(ParentBlock) => OldDataIn(ParentBlock)
             /\ OldDataFails
  <2>1. InChild => ParentBlock # NextAddress
    BY OpenPageApart
  <2>2. InChild /\ OldDataAfter(ParentBlock) => OldDataIn(ParentBlock)
    BY <1>3, <2>1 DEF OldDataAfter, OldDataIn, WithHeader
  <2> QED
    BY <1>1, <1>3, <2>2 DEF OldDataFails, OpeningPage
<1>4. Fault(current_page) \in Crashes /\ WritePast(NextAddress) \in Crashes
  BY DEF Fault, WritePast, Crashes
<1> QED
  BY <1>2, <1>3, <1>4 DEF OpenPage, NextAddress

LEMMA UndoOpenPageFails ==
  ASSUME IInv, RInv, StaleFails, UndoOpenPage
  PROVE  NoneGetsOld /\ OldDataFails
<1>1. blocks' = WithoutPage(next_page_ptr) /\ pc' = "idle" /\ ret' = "error"
      /\ UNCHANGED arena
  BY DEF UndoOpenPage, Unmap, Return
<1>2. NoneGetsOld /\ CurrentBlock' = CurrentBlock
  BY <1>1, HeadersKept DEF CurrentBlock, arena
<1>3. OldDataIn(CurrentBlock) => forks > 0
  BY DEF StaleFails, NoOldData, OldDataIn
<1> QED
  BY <1>1, <1>2, <1>3 DEF OldDataFails, NoneGetsOld

LEMMA LinkPageStaysNew ==
  ASSUME IInv, RInv, StaleFails, LinkPage
  PROVE  NoneGetsOld /\ OldDataFails
<1>1. /\ blocks' = blocks /\ current_page' = next_page_ptr
      /\ \A a \in DOMAIN blocks : a.page # next_page_ptr
  BY DEF LinkPage, RInv, NextPageFresh, OpeningPage
<1> QED
  BY <1>1, FirstIsNew

LEMMA FixBlockHeaderStaysNew ==
  ASSUME IInv, RInv, StaleFails, FixBlockHeader
  PROVE  NoneGetsOld /\ OldDataFails
<1>1. ASSUME NEW how \in Crashes, Crash(how) PROVE NoneGetsOld /\ OldDataFails
  BY <1>1, CrashStaysNew
<1>2. ASSUME NEW h, blocks' = WithHeader(block, h), h.type = "USED",
             UNCHANGED <<current_page, current_block>>
      PROVE  NoneGetsOld /\ OldDataFails
  <2>1. NoneGetsOld /\ ~OldDataAfter(block)
    BY <1>2, HeadersKept
  <2>2. CurrentBlock' = CurrentBlock
    BY <1>2 DEF CurrentBlock
  <2>3. block # CurrentBlock => ~OldDataIn(CurrentBlock)
    BY DEF FixBlockHeader, StaleFails, Crashes, Carved
  <2> QED
    BY <2>1, <2>2, <2>3 DEF OldDataFails, NoneGetsOld
<1>3. Fault(current_page) \in Crashes /\ WritePast(block) \in Crashes
  BY DEF Fault, WritePast, Crashes
<1> QED
  BY <1>1, <1>2, <1>3 DEF FixBlockHeader

LEMMA HugeStaysNew ==
  ASSUME StaleFails, LargeBro \/ LargeFreeBro \/ DropUsage
  PROVE  NoneGetsOld /\ OldDataFails
<1>1. pc \in BeforeCarving /\ UNCHANGED arena
  BY DEF LargeBro, LargeFreeBro, DropUsage, BeforeCarving, Crash
<1>2. ASSUME LargeBro PROVE NoneGetsOld
  <2>1. ASSUME NEW p, blocks' = WithHeader(At(p, 0),
                         [type |-> "HUGE", size |-> req, page |-> p])
        PROVE  NoneGetsOld
    <3>1. \A h : blocks' = WithHeader(At(p, 0), h) /\ h.type # "STALE" => NoneGetsOld
      BY HeadersKept
    <3>2. [type |-> "HUGE", size |-> req, page |-> p].type # "STALE"
      OBVIOUS
    <3> QED
      BY <2>1, <3>1, <3>2
  <2>2. UNCHANGED memory => NoneGetsOld
    BY HeadersKept DEF memory
  <2> QED
    BY <1>2, <2>1, <2>2 DEF LargeBro
<1>3. ASSUME LargeFreeBro \/ DropUsage PROVE NoneGetsOld
  BY <1>3, HeadersKept DEF LargeFreeBro, DropUsage, Unmap, Crash, memory
<1>4. NoneGetsOld
  BY <1>2, <1>3
<1> QED
  BY <1>1, <1>4, StaysNew

LEMMA InsertFragmentFails ==
  ASSUME IInv, RInv, StaleFails, InsertFragment
  PROVE  NoneGetsOld /\ OldDataFails
<1>1. /\ pc = "insert_fragment" /\ Header(block).size # 0
      /\ CalledByMalloc => OpeningPage /\ block = CurrentBlock
      /\ ~CalledByMalloc => ~OpeningPage
  BY RInserting DEF InsertFragment
<1>2. ASSUME NEW how \in Crashes, Crash(how) PROVE NoneGetsOld /\ OldDataFails
  BY <1>2, CrashStaysNew
<1>3. ~CalledByMalloc => ~OldDataIn(CurrentBlock)
  BY <1>1 DEF StaleFails, Crashes, Carved
<1>4. ASSUME blocks' = WithHeader(block, [Header(block) EXCEPT !.type = "FREE"]),
             UNCHANGED arena
      PROVE  NoneGetsOld /\ OldDataFails
  <2>1. [Header(block) EXCEPT !.type = "FREE"].type # "STALE"
    BY RInserting, <1>1 DEF IInv, TypeOK, BlockHeader
  <2>2. NoneGetsOld /\ ~OldDataAfter(block)
    BY <1>4, <2>1, HeadersKept
  <2>3. CurrentBlock' = CurrentBlock
    BY <1>4 DEF CurrentBlock, arena
  <2> QED
    BY <1>1, <1>3, <2>2, <2>3 DEF OldDataFails, NoneGetsOld
<1>5. ASSUME UNCHANGED <<memory, arena>>,
             IF CalledByMalloc
               THEN pc' = "undo_open_page" /\ UNCHANGED <<call, ret>>
               ELSE Return("error")
      PROVE  NoneGetsOld /\ OldDataFails
  <2>1. NoneGetsOld /\ CurrentBlock' = CurrentBlock
    BY <1>5, HeadersKept DEF memory, CurrentBlock, arena
  <2>2. CalledByMalloc => OpeningPage' /\ pc' = "undo_open_page"
    BY <1>5 DEF OpeningPage
  <2> QED
    BY <1>3, <2>1, <2>2 DEF OldDataFails, NoneGetsOld
<1>6. /\ Fault(first_fragment_list_header) \in Crashes
      /\ "wild" \in Crashes
      /\ \A i : Fault(fragments[i].page) \in Crashes
  BY DEF Fault, Crashes
<1> QED
  BY <1>1, <1>2, <1>4, <1>5, <1>6 DEF InsertFragment

LEMMA StaleStep ==
  ASSUME RulesKept, FHInv, RInv', StaleFails, HeapStep, UNCHANGED <<parent, forks>>
  PROVE  StaleFails'
<1>1. Next /\ IInv /\ RInv /\ ParentKept
  BY DEF HeapStep, Next, FHInv
<1>2. forks = 0 => NoOldData'
  BY <1>1, OldDataStep DEF StaleFails
<1>3. ASSUME NoneGetsOld /\ OldDataFails PROVE StaleFails'
  BY <1>2, <1>3, FailsKept DEF NoneGetsOld
<1>4. CASE OpenPage
  BY <1>1, <1>2, <1>4, OpenPageFails, FailsKept
<1>5. CASE \E h \in Handles :
             StopsOnError /\ ((\E n \in Requests : MallocCall(h, n)) \/ FreeCall(h))
  BY <1>3, <1>5, CallsStayNew
<1>6. CASE ClientWrites
  BY <1>3, <1>6, CrashStaysNew DEF ClientWrites, Crashes
<1> QED
  BY <1>1, <1>3, <1>4, <1>5, <1>6, FirstSetupStaysNew, FindAvailableFragmentStaysNew,
     NoGoodFragmentsStaysNew, UndoOpenPageFails, LinkPageStaysNew,
     FixBlockHeaderStaysNew, HugeStaysNew, InsertFragmentFails
  DEF HeapStep, Step

LEMMA StaleForks ==
  ASSUME RulesKept, FHInv, StaleFails, Fork
  PROVE  StaleFails'
<1>1. /\ pc' = "idle" /\ ParentBlock' = CurrentBlock /\ CurrentBlock' = CurrentBlock
      /\ pc = "idle" /\ InChild' /\ blocks' = blocks /\ ret' = ret
      /\ parent'.ret = ret /\ forks' = forks + 1
  BY ForkedParent DEF FHInv, Fork, Private, vars, memory, client
<1>2. OldDataIn(CurrentBlock) => ret = "error" /\ forks > 0
  BY <1>1 DEF StaleFails, Crashes, Carved, OpeningPage
<1>3. forks \in Nat
  BY DEF StaleFails
<1>4. (OldDataIn(CurrentBlock)' <=> OldDataIn(CurrentBlock))
      /\ (OldDataIn(ParentBlock)' <=> OldDataIn(CurrentBlock))
  BY <1>1 DEF OldDataIn
<1> QED
  BY <1>1, <1>2, <1>3, <1>4 DEF StaleFails

LEMMA StaleEnds ==
  ASSUME RulesKept, FHInv, StaleFails, ChildEnds
  PROVE  StaleFails'
<1>1. /\ DOMAIN blocks' \subseteq DOMAIN blocks
      /\ \A a \in DOMAIN blocks' : blocks'[a] = blocks[a]
      /\ CurrentBlock' = ParentBlock
      /\ pc' = "idle" /\ ret' = parent.ret /\ forks' = forks /\ ~InChild'
  BY BackToParent DEF FHInv, ChildEnds, InChild
<1>2. InChild /\ forks \in Nat /\ forks > 0
  BY DEF ChildEnds, StaleFails
<1>3. OldDataIn(CurrentBlock)' => OldDataIn(ParentBlock)
  BY <1>1 DEF OldDataIn
<1> QED
  BY <1>1, <1>2, <1>3 DEF StaleFails

(* While malloc goes on, the counter is what the page has room for. *)
LEMMA RoomForNext ==
  ASSUME IInv, RInv, StaleFails, pc \in {"no_good_fragments", "open_page"}
  PROVE  ~PastEnd(NextAddress)
<1>1. first_page_ptr # nullptr /\ current_page_free_bytes \in Int
      /\ current_page_free_bytes >= BHEADERSIZE
  BY DEF IInv, BeforeFirstPage, SmallCall, TypeOK, CounterInCall, OpeningPage,
         RInv, MallocCalled
<1>2. Header(CurrentBlock).type # "STALE"
  BY NoneBefore DEF BeforeCarving, Header, OldDataIn, ZeroHeader
<1>3. current_page_free_bytes <= RoomLeft
  BY <1>1, <1>2 DEF IInv, CounterBound, Carved, Crashes
<1>4. NextBlock \in Nat /\ NextAddress.off = NextBlock
  BY NextBlockBounds DEF IInv, NextAddress, At
<1> QED
  BY <1>1, <1>3, <1>4, Sizes DEF RoomLeft, PastEnd

LEMMA BlockFitsStep ==
  ASSUME RulesKept, FHInv, StaleFails, BlockFits, [FHNext]_fhvars
  PROVE  BlockFits'
<1>1. IInv /\ RInv
  BY DEF FHInv
<1>2. CASE UNCHANGED vars
  BY <1>2 DEF BlockFits, PastEnd, vars, call
<1>3. CASE pc' # "fix_block_header"
  BY <1>3 DEF BlockFits
<1>4. CASE FindAvailableFragment
  <2>1. ASSUME NEW i \in 1..Len(fragments), block' = fragments[i]
        PROVE  BlockFits'
    <3>1. /\ fragments[i] \in DOMAIN blocks /\ fragments[i].off # 0
          /\ End(fragments[i]) <= MALLOC_PAGE_SIZE
          /\ fragments[i].off \in Nat /\ blocks[fragments[i]].size \in Nat
      BY <1>1 DEF RInv, ListFree, HeadersThere, IInv, TypeOK, BlockHeader
    <3> QED
      BY <2>1, <3>1, Sizes DEF BlockFits, PastEnd, End
  <2> QED
    BY <1>3, <1>4, <2>1 DEF FindAvailableFragment, Crash, Crashes, Fault
<1>5. CASE NoGoodFragments
  <2>1. ASSUME block' = NextAddress PROVE BlockFits'
    BY <1>1, <1>5, <2>1, RoomForNext DEF NoGoodFragments, BlockFits, PastEnd
  <2> QED
    BY <1>3, <1>5, <2>1 DEF NoGoodFragments, Crash, Crashes, Fault, Return, NextAddress
<1>6. CASE LinkPage
  BY <1>6, Sizes DEF LinkPage, BlockFits, PastEnd, At
<1>7. CASE FirstSetup \/ OpenPage \/ UndoOpenPage \/ FixBlockHeader \/ LargeBro
             \/ LargeFreeBro \/ DropUsage \/ InsertFragment \/ ClientWrites
  BY <1>3, <1>7
  DEF FirstSetup, OpenPage, UndoOpenPage, FixBlockHeader, LargeBro, LargeFreeBro,
      DropUsage, InsertFragment, ClientWrites, Crash, Fault, WritePast, Return, Inserted
<1>8. CASE \/ \E h \in Handles, n \in Requests : MallocCall(h, n)
           \/ \E h \in Handles : FreeCall(h)
           \/ ChildEnds
  BY <1>3, <1>8 DEF MallocCall, FreeCall, ChildEnds, Crash, Fault, Return
<1> QED
  BY <1>2, <1>4, <1>5, <1>6, <1>7, <1>8 DEF FHNext, Step, Fork, fhvars, vars

LEMMA CurrentFitsStep ==
  ASSUME RulesKept, FHInv, CurrentFits, [FHNext]_fhvars
  PROVE  CurrentFits'
<1>1. CASE [Next]_vars
  BY <1>1, FitsStep DEF FHInv
<1>2. CASE ChildEnds
  <2>1. /\ first_page_ptr' = parent.first_page_ptr
        /\ current_block' = parent.current_block
        /\ ParentArena /\ ParentType
    BY <1>2 DEF ChildEnds, FHInv, ParentKept
  <2>2. ASSUME parent.first_page_ptr # nullptr
        PROVE  parent.current_block + BHEADERSIZE <= MALLOC_PAGE_SIZE
    <3>1. /\ ParentBlock \in DOMAIN blocks /\ ParentBlock.off = parent.current_block
          /\ parent.current_block # 0 /\ parent.current_block \in Nat
      BY <2>1, <2>2 DEF ParentArena, ParentType, ParentBlock, At
    <3>2. End(ParentBlock) <= MALLOC_PAGE_SIZE /\ blocks[ParentBlock].size \in Nat
      BY <3>1 DEF FHInv, RInv, HeadersThere, IInv, TypeOK, BlockHeader
    <3> QED
      BY <3>1, <3>2, Sizes DEF End
  <2> QED
    BY <2>1, <2>2 DEF CurrentFits
<1>3. [FHNext]_fhvars => ChildEnds \/ [Next]_vars
  BY DEF FHNext, Fork, Next, fhvars
<1> QED
  BY <1>1, <1>2, <1>3

LEMMA IntactStep ==
  ASSUME RulesKept, FHInv, StaleFails, BlockFits, CurrentFits, HeadersIntact,
         [FHNext]_fhvars
  PROVE  HeadersIntact'
<1>1. IInv /\ RInv
  BY DEF FHInv
<1>2. ASSUME NEW p, Crash(Fault(p)) PROVE HeadersIntact'
  BY <1>2 DEF Crash, Fault, HeadersIntact
<1>3. CASE UNCHANGED vars
  BY <1>3 DEF HeadersIntact, vars
<1>4. CASE OpenPage
  <2>1. pc = "open_page" /\ ~PastEnd(NextAddress)
    BY <1>1, <1>4, RoomForNext DEF OpenPage
  <2> QED
    BY <1>2, <1>4, <2>1 DEF OpenPage, NextAddress, HeadersIntact
<1>5. CASE FixBlockHeader
  <2>1. ~PastEnd(block)
    BY <1>5 DEF FixBlockHeader, BlockFits
  <2> QED
    BY <1>2, <1>5, <2>1 DEF FixBlockHeader, Return, HeadersIntact
<1>6. CASE ClientWrites
  BY <1>1, <1>6, NothingOverwritten DEF ClientWrites
<1>7. CASE FirstSetup \/ UndoOpenPage \/ LinkPage \/ LargeBro \/ LargeFreeBro
             \/ DropUsage \/ NoGoodFragments \/ FindAvailableFragment
  BY <1>2, <1>7
  DEF FirstSetup, UndoOpenPage, LinkPage, LargeBro, LargeFreeBro, DropUsage,
      NoGoodFragments, FindAvailableFragment, Return, HeadersIntact
<1>8. CASE InsertFragment
  BY <1>2, <1>8 DEF InsertFragment, Inserted, Return, HeadersIntact, Crash
<1>9. CASE \/ \E h \in Handles, n \in Requests : MallocCall(h, n)
           \/ \E h \in Handles : FreeCall(h)
           \/ ChildEnds
  BY <1>2, <1>9 DEF MallocCall, FreeCall, ChildEnds, Return, HeadersIntact
<1> QED
  BY <1>3, <1>4, <1>5, <1>6, <1>7, <1>8, <1>9 DEF FHNext, Step, Fork, fhvars

(* In parent and child, for clients that keep the seven rules, nothing     *)
(* that the allocator reads is overwritten, by client data or by a header  *)
(* that malloc writes (malloc.c:460, 501): so its steps are those of the   *)
(* code to the end of every run, and the other theorems say something of   *)
(* all of them.                                                            *)
THEOREM ForkedHeadersIntact ==
  ASSUME RulesKept
  PROVE  FHSpec => []HeadersIntact
<1> DEFINE Inv == StaleFails /\ WrittenInPage /\ HeadersIntact
<1>1. FHInit => Inv
  <2>1. FHInit => NoOldData
    BY DEF FHInit, Init, NoOldData, NextBlock, Header, CurrentBlock, ZeroHeader, At
  <2> QED
    BY <2>1 DEF FHInit, Init, StaleFails, OldDataIn, InChild, WrittenInPage,
                CurrentFits, BlockFits, HeadersIntact
<1>2. FHInv /\ FHInv' /\ Inv /\ [FHNext]_fhvars => Inv'
  <2> SUFFICES ASSUME FHInv, FHInv', Inv, [FHNext]_fhvars PROVE Inv'
    OBVIOUS
  <2>1. StaleFails'
    <3>1. CASE UNCHANGED fhvars
      BY <3>1 DEF fhvars, vars, memory, arena, frags, call, client, StaleFails,
                  OldDataIn, InChild, NoOldData, CurrentBlock, ParentBlock,
                  Carved, OpeningPage, NextBlock, Header, BlockEnd, End
    <3>2. CASE HeapStep /\ UNCHANGED <<parent, forks>>
      BY <3>2, StaleStep DEF FHInv
    <3> QED
      BY <3>1, <3>2, StaleForks, StaleEnds DEF FHNext, HeapStep
  <2>2. BlockFits' /\ CurrentFits'
    BY BlockFitsStep, CurrentFitsStep DEF WrittenInPage
  <2>3. HeadersIntact'
    BY IntactStep DEF WrittenInPage
  <2> QED
    BY <2>1, <2>2, <2>3 DEF WrittenInPage
<1> QED
  BY <1>1, <1>2, ForkedInvariant, PTL DEF FHSpec

(***************************************************************************)
(* The uses of a page.                                                     *)
(***************************************************************************)

(* A child's end leaves the counts, and never more blocks charged to them. *)
LEMMA EndCovers ==
  ASSUME FHInv, UsesCover, IsFiniteSet(Handles), ChildEnds
  PROVE  UsesCover'
<1>1. /\ \A p \in Page : mapped'[p] # "none" <=> OfParent(p)
      /\ \A p \in Page : OfParent(p) => mapped'[p] = mapped[p]
      /\ \A a \in DOMAIN blocks' : blocks'[a] = blocks[a] /\ a \in DOMAIN blocks
      /\ Small' = Inheritance \cap Small
      /\ \A h \in Inheritance : /\ Address(h)' = Address(h)
                                /\ Address(h) \in DOMAIN blocks'
  BY BackToParent DEF FHInv
<1>2. page_hdr' = page_hdr
  BY DEF ChildEnds
<1>3. ASSUME NEW p \in Page, mapped'[p] = "norm"
      PROVE  page_hdr'[p].usages >= Cardinality(ChargedTo(p)')
  <2>1. ChargedTo(p)' \subseteq ChargedTo(p)
    BY <1>1 DEF ChargedTo, Header
  <2>2. /\ Cardinality(ChargedTo(p)') <= Cardinality(ChargedTo(p))
        /\ Cardinality(ChargedTo(p)') \in Nat /\ Cardinality(ChargedTo(p)) \in Nat
    BY <2>1, ChargesFinite, FS_Subset, FS_CardinalityType
  <2>3. page_hdr[p].usages >= Cardinality(ChargedTo(p)) /\ page_hdr[p].usages \in Int
    BY <1>1, <1>3 DEF UsesCover, Is, FHInv, IInv, TypeOK, PageHeader
  <2> QED
    BY <1>2, <2>2, <2>3
<1> QED
  BY <1>3 DEF UsesCover, Is

LEMMA CoverStep ==
  ASSUME RulesKept, FHInv, FHInv', UsesCover, IsFiniteSet(Handles),
         [FHNext]_fhvars
  PROVE  UsesCover'
<1>1. CASE ChildEnds
  BY <1>1, EndCovers
<1>2. CASE [Next]_vars
  <2> SUFFICES ASSUME NEW p \in Page, mapped'[p] = "norm"
               PROVE  page_hdr'[p].usages >= Cardinality(ChargedTo(p)')
    BY DEF UsesCover, Is
  <2>1. /\ page_hdr[p].usages \in Int /\ page_hdr'[p].usages \in Int
        /\ Cardinality(ChargedTo(p)) \in Nat /\ Cardinality(ChargedTo(p)') \in Nat
    <3>1. page_hdr[p].usages \in Int /\ page_hdr'[p].usages \in Int
      BY DEF FHInv, IInv, TypeOK, PageHeader
    <3>2. ChargedTo(p)' \subseteq Handles
      BY DEF ChargedTo, Small, Live
    <3> QED
      BY <3>1, <3>2, ChargesFinite, FS_Subset, FS_CardinalityType
  <2>2. Extra(p)' = 0 \/ (mapped[p] = "norm" /\ Extra(p)' = Extra(p))
    BY <1>2, UsesStep DEF UsesSteady, FHInv
  <2>3. mapped[p] = "norm" => page_hdr[p].usages >= Cardinality(ChargedTo(p))
    BY DEF UsesCover, Is
  <2> QED
    BY <2>1, <2>2, <2>3 DEF Extra
<1>3. [FHNext]_fhvars => ChildEnds \/ [Next]_vars
  BY DEF FHNext, Fork, Next, fhvars
<1> QED
  BY <1>1, <1>2, <1>3

(* A page counts at least the blocks in use that are charged to it, in     *)
(* parent and child and after a child has ended anywhere in a call, so     *)
(* that free does not unmap it under one (free, malloc.c).                 *)
THEOREM ForkedUsesCovered ==
  ASSUME RulesKept, IsFiniteSet(Handles)
  PROVE  FHSpec => []UsesCovered
<1>1. FHInit => UsesCover
  BY DEF FHInit, Init, UsesCover, Is
<1>2. FHInv /\ FHInv' /\ UsesCover /\ [FHNext]_fhvars => UsesCover'
  BY CoverStep
<1>3. UsesCover => UsesCovered
  BY DEF UsesCover, UsesCovered
<1> QED
  BY <1>1, <1>2, <1>3, ForkedInvariant, PTL DEF FHSpec
=============================================================================
