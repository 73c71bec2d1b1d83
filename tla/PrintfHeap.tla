----------------------------- MODULE PrintfHeap -----------------------------
(***************************************************************************)
(* printf (module Printf) with its array, buffer and expansions on the     *)
(* pages of the allocator (module Heap), next to blocks of the program.    *)
(*                                                                         *)
(* Where printf calls malloc or free, the allocator's steps run to their   *)
(* end, and printf goes on with what the call returned.  An area of Printf *)
(* is the Heap's pointer of the same name; a string that the program gives *)
(* to %s is the program's block, or where it was: printf frees it, and the *)
(* program's pointer stays.                                                *)
(***************************************************************************)
EXTENDS HeapProperties

CONSTANTS
  Formats, MaxCalls, Lengths, StaleLengths, MemoryMayFail,  \* of Printf
  Mine     \* the program's pointer

VARIABLES
  printf_pc, calls, gp_offset, format, i, entries, rbx, k, written,
  allocated, user_freed, unfreed, result,
  called,  \* whether printf, or the program, waits for the allocator
  hexes,   \* strings in hexadecimal made so far for the formatter at hand
  pointer, \* where the program's block is, or was last
  again    \* whether a block of the program was freed a second time

P == INSTANCE Printf WITH pc <- printf_pc

(* The program's pointer is none of printf's, and each of these is a       *)
(* variable of its own.                                                    *)
Areas == {"array", "buffer", "expansion"} \X Nat \X Nat
ASSUME PrintfHeapAssumption ==
  /\ Formats \subseteq Seq(P!Alphabet)
  /\ MaxCalls \in Nat /\ MemoryMayFail \in BOOLEAN
  /\ Lengths \subseteq Nat \ {0} /\ StaleLengths \subseteq Nat
  /\ Mine \in Handles \ Areas
  /\ \A c \in 1..MaxCalls :
       /\ {<<"array", c, 0>>, <<"buffer", c, 0>>} \subseteq Handles
       /\ \A f \in Formats : \A n, j \in 0..Len(f) :
            <<"expansion", c, n * (Len(f) + 1) + j>> \in Handles

printf_vars == <<printf_pc, calls, gp_offset, format, i, entries, rbx, k,
                 written, allocated, user_freed, unfreed, result>>
phvars == <<vars, printf_vars, called, hexes, pointer, again>>

EntrySize   == 16   \* struct formattedstr
ItosSize    == 22
HexstrSize  == 19

Ready == pc = "idle" /\ ~called

(* the calls that printf makes where it stands: malloc(size) for an area,  *)
(* or free of one                                                          *)
Expanding == printf_pc = "expand_formatters" /\ P!Char(i) = "%"
             /\ P!Char(i + 1) = "d" /\ P!ArgThere
Mallocs ==
  (IF printf_pc = "create_str_array"
     THEN {<<P!Array, EntrySize * P!Percents>>} ELSE {})
  \cup (IF ~Expanding THEN {}
        ELSE IF P!Hexes > 0
          THEN {<<P!Expansion(Len(entries), hexes + 1), HexstrSize>>}
        ELSE {<<P!Expansion(Len(entries), 0), ItosSize>>})
  \cup (IF printf_pc = "expand_formatters" /\ P!Char(i) = P!NUL
          THEN {<<P!Buffer, rbx>>} ELSE {})
Frees ==
  (IF printf_pc = "final_copy" /\ P!Char(i) = "%"
     THEN {entries[k + 1].string} ELSE {})
  \cup (IF printf_pc = "free_buffer" THEN {P!Buffer} ELSE {})
  \cup (IF printf_pc = "free_array"  THEN {P!Array} ELSE {})
PointerOf(area) == IF area[1] = "user" THEN Mine ELSE area

PHInit == /\ Init /\ P!Init /\ called = FALSE /\ hexes = 0
          /\ pointer = Nothing /\ again = FALSE

(* printf calls the allocator *)
Ask ==
  /\ Ready
  /\ \/ \E m \in Mallocs : MallocCall(m[1], m[2])
     \/ \E area \in Frees : FreeCall(PointerOf(area))
  /\ called' = TRUE
  /\ UNCHANGED <<printf_vars, hexes, pointer, again>>

(* the program does, between two calls of printf *)
Program ==
  /\ Ready /\ printf_pc = "idle"
  /\ (\E n \in Requests : MallocCall(Mine, n)) \/ FreeCall(Mine)
  /\ called' = TRUE
  /\ UNCHANGED <<printf_vars, hexes, pointer, again>>

(* A block that the program, or printf for it, has freed is freed again:   *)
(* the program gave one string to two %s, used or freed one that printf    *)
(* had freed.  free takes the bytes at the pointer for the header.         *)
HeaderLost ==
  \E h \in Live : /\ Address(h) # pointer /\ First(pointer) < Past(live[h])
                  /\ First(live[h]) < First(pointer) + BHEADERSIZE
FreeAgain ==
  /\ Ready /\ Mine \notin Live /\ pointer # Nothing
  /\ printf_pc = "idle" \/ \E area \in Frees : PointerOf(area) = Mine
  /\ \/ ~Readable(pointer) /\ Crash(Fault(pointer.page))
     \/ Readable(pointer) /\ HeaderLost /\ Crash("clobbered")
     \/ /\ Readable(pointer) /\ ~HeaderLost
        /\ handle' = Mine
        /\ block' = pointer
        /\ pc' = IF Header(pointer).type = "HUGE" THEN "large_free_bro"
                                                  ELSE "insert_fragment"
        /\ UNCHANGED <<memory, arena, frags, req, next_page_ptr, client>>
  /\ again' = TRUE /\ called' = TRUE
  /\ UNCHANGED <<printf_vars, hexes, pointer>>

Allocator ==
  called /\ Step /\ UNCHANGED <<printf_vars, called, hexes, pointer, again>>

(* another x in the formatter: the loop over its options goes on, and the  *)
(* string that was made is replaced                                        *)
MoreHexes == Expanding /\ hexes + 1 < P!Hexes
NextOption ==
  /\ called /\ pc = "idle" /\ called' = FALSE
  /\ ret = "ok" /\ MoreHexes
  /\ hexes' = hexes + 1
  /\ UNCHANGED <<vars, printf_vars, pointer, again>>

(* printf goes on after the call: it has failed if malloc or free has *)
Failed == printf_pc' \in {"wild", "segv"} \/ unfreed' # unfreed
Answer ==
  /\ called /\ pc = "idle" /\ called' = FALSE
  /\ ret = "error" \/ ~MoreHexes
  /\ hexes' = IF ret = "error" THEN hexes ELSE 0
  /\ pointer' = IF Mine \in Live THEN Address(Mine) ELSE pointer
  /\ \/ /\ printf_pc # "idle"
        /\ \/ P!CreateStrArray \/ P!ExpandFormatter \/ P!CreateBuffer
           \/ P!CopyFormatted \/ P!FreeBros
        /\ Failed <=> ret = "error"
     \/ /\ printf_pc = "idle"
        /\ UNCHANGED printf_vars
  /\ UNCHANGED <<vars, again>>

(* the steps of printf that need no memory; a string is read where it is,  *)
(* or was                                                                  *)
ReadsString == printf_pc = "expand_formatters" /\ P!Char(i) = "%"
               /\ P!Char(i + 1) = "s" /\ P!ArgThere
Start == \E f \in Formats : /\ "s" \in {f[n] : n \in 1..Len(f)} => pointer # Nothing
                            /\ P!Call(f)
Alone ==
  /\ Ready
  /\ \/ /\ Mallocs = {} /\ Frees = {}
        /\ \/ Start \/ P!CountText \/ P!CopyText \/ P!Write
           \/ (ReadsString => Readable(pointer)) /\ P!ExpandFormatter
           \/ ReadsString /\ ~Readable(pointer) /\ P!Stop("segv")
     \/ P!CopyPastBuffer
  /\ UNCHANGED <<vars, called, hexes, pointer, again>>

PHNext == Ask \/ Program \/ FreeAgain \/ Allocator \/ NextOption \/ Answer \/ Alone
PHSpec == PHInit /\ [][PHNext]_phvars

(***************************************************************************)
(* Properties.                                                             *)
(***************************************************************************)

(* When the last block in use has been freed, be it printf's own array,    *)
(* the page that the allocator goes on using is gone: a printf that has    *)
(* the heap to itself leaves it so (printf.s:212, malloc.c:557).  The page *)
(* is there only if no block was ever made from it, because the malloc     *)
(* that mapped it failed.  Nothing is said of a run in which a block that  *)
(* an earlier call left behind overlaps another (pc = "clobbered").        *)
EmptyHeapGone ==
  Ready /\ Live = {} => ~Is(current_page, "norm") \/ touched = PHEADERSIZE

(* As long as the heap has only its first page, and no call of printf has  *)
(* left a string behind (each formatter with several x does), the blocks   *)
(* on the page are disjoint, although printf frees the block that          *)
(* current_block points at, until the program's block is freed again.      *)
OnePage ==
  /\ current_page = first_page_ptr /\ Is(first_page_ptr, "norm")
  /\ page_hdr[first_page_ptr].next_page = nullptr
NothingLeft ==
  \A h \in Live \ {Mine} : printf_pc # "idle" /\ h[2] = calls
FirstPageDisjoint ==
  ~again /\ OnePage /\ NothingLeft =>
    \A g, h \in Small : g # h => Apart(live[g], live[h])
=============================================================================
