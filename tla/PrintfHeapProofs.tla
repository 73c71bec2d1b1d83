-------------------------- MODULE PrintfHeapProofs --------------------------
(***************************************************************************)
(* For every page size, any formats, any blocks of the program and every   *)
(* mmap that fails, until a block of the program is freed twice: the last  *)
(* block that is freed takes its page with it, and the blocks of the first *)
(* page are disjoint as long as it is the only one.  Both rest on a printf *)
(* that waits for malloc or free being one call behind the allocator, and  *)
(* never two.                                                              *)
(***************************************************************************)
EXTENDS PrintfHeapInvariant, HeapProofs

(***************************************************************************)
(* What a call of the allocator does to the client's pointers.             *)
(***************************************************************************)

Mallocking ==
  \/ pc \in {"first_setup", "find_available_fragment", "no_good_fragments",
             "open_page", "undo_open_page", "link_page", "fix_block_header",
             "large_bro"}
  \/ pc = "insert_fragment" /\ CalledByMalloc
Freeing ==
  \/ pc \in {"large_free_bro", "drop_usage"}
  \/ pc = "insert_fragment" /\ ~CalledByMalloc
Crashed == pc \in {"segv", "wild", "clobbered"}

PointersOK ==
  /\ DOMAIN live = Handles
  /\ pc = "idle" => next_page_ptr = nullptr
  /\ pc = "open_page" => next_page_ptr # nullptr
  /\ Mallocking => handle \in Handles /\ req \in Nat \ {0}
  /\ Freeing => handle \in Handles

(* A step of a call: it goes on with the same pointer, has failed, has     *)
(* handed the block out, or has taken it back.                             *)
GoesOn ==
  /\ live' = live /\ handle' = handle /\ pc' # "idle"
  /\ Mallocking => Mallocking' \/ Crashed'
  /\ Freeing => Freeing' \/ Crashed'
Fails   == live' = live /\ pc' = "idle" /\ ret' = "error"
Gives   == Mallocking /\ pc' = "idle" /\ ret' = "ok" /\ Live' = Live \cup {handle}
Takes   == Freeing /\ pc' = "idle" /\ ret' = "ok" /\ Live' = Live \ {handle}

LEMMA CallMoves ==
  ASSUME PointersOK, Step, pc # "idle"
  PROVE  PointersOK' /\ (Mallocking \/ Freeing) /\ (GoesOn \/ Fails \/ Gives \/ Takes)
<1> USE DEF PointersOK, Mallocking, Freeing, Crashed, CalledByMalloc, nullptr
<1>1. CASE FirstSetup
  BY <1>1 DEF FirstSetup, GoesOn, Fails, Return, Crash, call, client
<1>2. CASE FindAvailableFragment
  BY <1>2 DEF FindAvailableFragment, GoesOn, Crash, Fault, call, client
<1>3. CASE NoGoodFragments
  BY <1>3 DEF NoGoodFragments, GoesOn, Fails, Return, Crash, Fault, call, client, Page
<1>4. CASE OpenPage
  BY <1>4 DEF OpenPage, GoesOn, Crash, Fault, WritePast, call, client
<1>5. CASE UndoOpenPage
  BY <1>5 DEF UndoOpenPage, Fails, Return
<1>6. CASE LinkPage
  BY <1>6 DEF LinkPage, GoesOn, client
<1>7. CASE FixBlockHeader
  BY <1>7 DEF FixBlockHeader, GoesOn, Gives, Live, NoBlock, Return, Crash, Fault,
              WritePast, call, client
<1>8. CASE LargeBro
  <2>1. ASSUME NEW p, live' = [live EXCEPT ![handle] = [page |-> p, off |-> 0, size |-> req]],
               pc = "large_bro"
        PROVE  DOMAIN live' = Handles /\ Live' = Live \cup {handle}
    BY <2>1 DEF Live, NoBlock
  <2>2. CASE Return("error") /\ UNCHANGED live
    BY <1>8, <2>2 DEF LargeBro, Fails, Return
  <2>3. CASE ~(Return("error") /\ UNCHANGED live)
    BY <1>8, <2>1, <2>3 DEF LargeBro, Gives, Return
  <2> QED
    BY <2>2, <2>3
<1>9. CASE LargeFreeBro
  BY <1>9 DEF LargeFreeBro, Takes, Live, Return
<1>10. CASE DropUsage
  BY <1>10 DEF DropUsage, GoesOn, Takes, Live, Return, Crash, Fault, call, client
<1>11. CASE InsertFragment
  BY <1>11 DEF InsertFragment, GoesOn, Fails, Inserted, Return, Crash, Fault,
               call, client
<1> QED
  BY <1>1, <1>2, <1>3, <1>4, <1>5, <1>6, <1>7, <1>8, <1>9, <1>10, <1>11
  DEF Step, ClientWrites

LEMMA AtWork == Mallocking \/ Freeing => pc # "idle"
BY DEF Mallocking, Freeing

(* Between two calls the only step is the one that ends the run. *)
LEMMA IdleStep ==
  ASSUME Step, pc = "idle"
  PROVE  /\ pc' = "clobbered"
         /\ UNCHANGED <<memory, arena, frags, call, client>>
BY DEF Step, ClientWrites, Crash, FirstSetup, FindAvailableFragment, NoGoodFragments,
       OpenPage, UndoOpenPage, LinkPage, FixBlockHeader, LargeBro, LargeFreeBro,
       DropUsage, InsertFragment

LEMMA MallocBegins ==
  ASSUME PointersOK, NEW h \in Handles, NEW n \in Nat, MallocCall(h, n)
  PROVE  /\ PointersOK' /\ live' = live
         /\ Fails \/ (Mallocking' /\ handle' = h)
<1>1. align(n) \in Nat \ {0} \/ n < 1
  BY DEF align, WORDSIZE
<1>2. CASE n < 1
  BY <1>2 DEF MallocCall, PointersOK, Return, Fails, Mallocking, Freeing, CalledByMalloc
<1>3. CASE n >= 1
  BY <1>1, <1>3 DEF MallocCall, PointersOK, Mallocking, Freeing, CalledByMalloc,
                    client, frags, arena, memory
<1> QED
  BY <1>2, <1>3

LEMMA FreeBegins ==
  ASSUME PointersOK, NEW h \in Handles, FreeCall(h)
  PROVE  /\ PointersOK' /\ live' = live /\ pc' # "idle"
         /\ Crashed' \/ (Freeing' /\ handle' = h)
BY DEF FreeCall, PointersOK, Crashed, Freeing, Mallocking, CalledByMalloc, Crash,
       Fault, call, client

(***************************************************************************)
(* What printf knows: the invariant of PrintfProofs, and what could not be *)
(* freed.                                                                  *)
(***************************************************************************)

PP == INSTANCE PrintfProofs WITH pc <- printf_pc

LEMMA Assumed == PP!PrintfAssumption
  BY PrintfHeapAssumption DEF PP!PrintfAssumption, PP!Alphabet, P!Alphabet

(* Both instances mean the same. *)
LEMMA SameNames ==
  /\ P!NUL = PP!NUL /\ P!Array = PP!Array /\ P!Buffer = PP!Buffer
  /\ \A n, j : P!Expansion(n, j) = PP!Expansion(n, j)
  /\ \A p : P!Char(p) = PP!Char(p)
  /\ P!Percents = PP!Percents /\ P!Hexes = PP!Hexes
<1>1. \A n, j : P!Expansion(n, j) = PP!Expansion(n, j)
  BY DEF P!Expansion, PP!Expansion
<1>2. \A p : P!Char(p) = PP!Char(p)
  BY DEF P!Char, PP!Char, P!NUL, PP!NUL
<1>3. P!Percents = PP!Percents
  BY Zenon DEF P!Percents, PP!Percents, P!findoccurrences, PP!findoccurrences,
               P!Cardinality, PP!Cardinality
<1>4. P!Hexes = PP!Hexes
  BY <1>2 DEF P!Hexes, PP!Hexes
<1> QED
  BY <1>1, <1>2, <1>3, <1>4 DEF P!NUL, PP!NUL, P!Array, PP!Array, P!Buffer, PP!Buffer

LEMMA SameSteps == P!Next => PP!Next
<1> USE DEF P!NUL, PP!NUL, P!Array, PP!Array, P!Buffer, PP!Buffer, P!Expansion,
            PP!Expansion, P!Char, PP!Char, P!Stop, PP!Stop, P!Free, PP!Free
<1>0. /\ \A entry : P!LengthsNow(entry) = PP!LengthsNow(entry)
      /\ \A length : P!Strln(length) = PP!Strln(length)
      /\ P!BufferBytes = PP!BufferBytes
  BY DEF P!LengthsNow, PP!LengthsNow, P!NulInside, PP!NulInside, P!Strln, PP!Strln,
         P!StringBlock, PP!StringBlock, P!BufferBytes, PP!BufferBytes
<1>1. ASSUME NEW f \in Formats, P!Call(f) PROVE PP!Call(f)
  BY <1>1 DEF P!Call, PP!Call
<1>2. P!CreateStrArray => PP!CreateStrArray
  BY SameNames DEF P!CreateStrArray, PP!CreateStrArray
<1>3. P!ExpandFormatter => PP!ExpandFormatter
  <2>1. P!Hexes = PP!Hexes
    BY DEF P!Hexes, PP!Hexes
  <2>2. /\ P!ArgThere = PP!ArgThere /\ P!va_start = PP!va_start
        /\ P!Arg = PP!Arg
    BY DEF P!ArgThere, PP!ArgThere, P!Arg, PP!Arg, P!va_start, PP!va_start
  <2>3. P!FormatterLength = PP!FormatterLength
    BY <2>1 DEF P!FormatterLength, PP!FormatterLength
  <2>4. \A string, length, n : P!AddEntry(string, length, n) = PP!AddEntry(string, length, n)
    BY <2>2 DEF P!AddEntry, PP!AddEntry, P!Strln, PP!Strln
  <2>5. P!ExpandString => PP!ExpandString
    BY <2>4 DEF P!ExpandString, PP!ExpandString
  <2>6. P!ExpandHex => PP!ExpandHex
    BY <2>1, <2>3, <2>4 DEF P!ExpandHex, PP!ExpandHex, P!HexLength, PP!HexLength
  <2>7. P!ExpandDecimal => PP!ExpandDecimal
    BY <2>1, <2>3, <2>4 DEF P!ExpandDecimal, PP!ExpandDecimal
  <2> QED
    BY <2>2, <2>5, <2>6, <2>7 DEF P!ExpandFormatter, PP!ExpandFormatter
<1>4. P!CountText => PP!CountText
  BY DEF P!CountText, PP!CountText
<1>5. P!CreateBuffer => PP!CreateBuffer
  BY DEF P!CreateBuffer, PP!CreateBuffer
<1>6. P!CopyText => PP!CopyText
  BY <1>0 DEF P!CopyText, PP!CopyText
<1>7. P!CopyFormatted => PP!CopyFormatted
  BY <1>0 DEF P!CopyFormatted, PP!CopyFormatted
<1>8. P!Write => PP!Write
  BY DEF P!Write, PP!Write
<1>9. P!FreeBros => PP!FreeBros
  BY DEF P!FreeBros, PP!FreeBros
<1>10. P!CopyPastBuffer => PP!CopyPastBuffer
  BY <1>0 DEF P!CopyPastBuffer, PP!CopyPastBuffer
<1> QED
  BY <1>1, <1>2, <1>3, <1>4, <1>5, <1>6, <1>7, <1>8, <1>9, <1>10
  DEF P!Next, PP!Next

(* The steps until a block of the program is freed a second time.          *)
Moves == Ask \/ Program \/ Allocator \/ NextOption \/ Answer \/ Alone

StringGone == ReadsString /\ P!Stop("segv")
PrintfStep == P!Next \/ StringGone \/ UNCHANGED printf_vars

LEMMA PrintfMoves == [Moves]_phvars => PrintfStep
BY DEF Moves, Ask, Program, Allocator, NextOption, Answer, Alone, Start,
       PrintfStep, StringGone, P!Next, phvars

LEMMA NextIs == [PHNext]_phvars => (again => again') /\ ([Moves]_phvars \/ again')
BY DEF PHNext, Moves, Ask, Program, FreeAgain, Allocator, NextOption, Answer, Alone,
       phvars

(* The calls so far, whose areas are allocated, and which of this call     *)
(* could not be freed: none that printf has still to free.                 *)
CallsInv ==
  /\ calls <= MaxCalls
  /\ printf_pc # "idle" => calls >= 1 /\ format \in Formats
OwnInv == \A area \in allocated : area[1] # "user"
ReportedInv ==
  /\ printf_pc \in {"create_str_array", "expand_formatters"} => unfreed = {}
  /\ printf_pc \in {"final_copy", "free_buffer", "free_array"} =>
       \A area \in unfreed :
         \/ \E n \in 1..k : area = entries[n].string
         \/ printf_pc = "free_array" /\ area = P!Buffer
PrintfInv == PP!PInv /\ CallsInv /\ OwnInv /\ ReportedInv

LEMMA PrintfKeeps ==
  ASSUME PrintfInv, PrintfStep
  PROVE  PrintfInv'
<1> USE DEF PrintfInv
<1>1. PP!PInv'
  <2>1. CASE StringGone
    <3>1. PP!Stop("segv") /\ printf_pc # "idle"
      BY <2>1 DEF StringGone, ReadsString, P!Stop, PP!Stop
    <3> QED
      BY <3>1, PP!PStop, Assumed
  <2>2. CASE ~StringGone
    <3>1. PP!Next \/ UNCHANGED PP!vars
      BY <2>2, SameSteps DEF PrintfStep, printf_vars, PP!vars
    <3> QED
      BY <3>1, PP!PStep, Assumed
  <2> QED
    BY <2>1, <2>2
<1>2. calls \in Nat /\ MaxCalls \in Nat /\ k \in Nat
  BY PrintfHeapAssumption DEF PP!PInv, PP!TypeInv
<1>3. CallsInv'
  BY <1>2 DEF CallsInv, PrintfStep, printf_vars, P!Next, P!Call, P!CreateStrArray,
              P!ExpandFormatter, P!CountText, P!CreateBuffer, P!CopyText,
              P!CopyFormatted, P!CopyPastBuffer, P!Write, P!FreeBros, P!Stop,
              StringGone, ReadsString
<1>4. OwnInv'
  BY DEF OwnInv, PrintfStep, printf_vars, P!Next, P!Call, P!CreateStrArray,
         P!ExpandFormatter, P!ExpandString, P!ExpandHex, P!ExpandDecimal,
         P!CountText, P!CreateBuffer, P!CopyText, P!CopyFormatted,
         P!CopyPastBuffer, P!Write, P!FreeBros, P!Free, P!Stop, P!Array,
         P!Buffer, P!Expansion, StringGone
<1>5. ReportedInv'
  <2> USE DEF ReportedInv
  <2>1. CASE \/ \E f \in Formats : P!Call(f)
             \/ P!CreateStrArray \/ P!ExpandFormatter \/ P!CountText
             \/ P!CopyPastBuffer \/ StringGone
    BY <2>1 DEF P!Call, P!CreateStrArray, P!ExpandFormatter, P!CountText,
                P!CopyPastBuffer, StringGone, P!Stop
  <2>2. CASE P!CreateBuffer \/ P!CopyText \/ P!Write \/ UNCHANGED printf_vars
    BY <2>2 DEF P!CreateBuffer, P!CopyText, P!Write, P!Stop, printf_vars, P!Buffer
  <2>3. CASE P!CopyFormatted
    BY <1>2, <2>3 DEF P!CopyFormatted, P!Free, P!Stop
  <2>4. CASE P!FreeBros
    BY <2>4 DEF P!FreeBros, P!Free, P!Buffer
  <2> QED
    BY <2>1, <2>2, <2>3, <2>4 DEF PrintfStep, P!Next
<1> QED
  BY <1>1, <1>3, <1>4, <1>5

LEMMA PrintfBegins == PHInit => PrintfInv
<1>1. P!Init => PP!Init
  BY DEF P!Init, PP!Init
<1>2. PHInit => PP!PInv
  BY <1>1, PP!PInit, Assumed DEF PHInit
<1> QED
  BY <1>2, PrintfHeapAssumption
  DEF PHInit, P!Init, PrintfInv, CallsInv, OwnInv, ReportedInv

(***************************************************************************)
(* What printf asks for.                                                   *)
(***************************************************************************)

HexesInv ==
  /\ hexes \in Nat
  /\ hexes # 0 => printf_pc = "segv" \/ (Expanding /\ hexes < P!Hexes)

LEMMA Counts ==
  ASSUME PrintfInv
  PROVE  /\ P!Percents \in Nat /\ P!Hexes \in 0..Len(format)
         /\ Len(entries) \in 0..Len(format) /\ Len(format) \in Nat
         /\ rbx \in Nat /\ calls \in Nat
<1>1. PP!TypeInv /\ PP!FormatOK /\ rbx \in Nat /\ calls \in Nat
  BY DEF PrintfInv, PP!PInv, PP!TypeInv
<1>2. Len(format) \in Nat /\ i \in Nat /\ Len(entries) \in Nat
  BY <1>1 DEF PP!TypeInv, PP!FormatOK
<1>3. P!Hexes \in 0..Len(format)
  BY <1>1, <1>2, PP!HexesCounted, Assumed, SameNames
<1>4. P!Percents \in Nat
  BY <1>1, <1>2, PP!BeforeFinite, Assumed, SameNames
<1>5. P!Percents <= Len(format)
  <2> DEFINE T == {n \in 1..Len(format) : format[n] = "%"}
  <2>1. P!Percents = Cardinality(T)
    BY Zenon DEF P!Percents, P!findoccurrences, P!Cardinality, Cardinality
  <2>2. IsFiniteSet(1..Len(format)) /\ Cardinality(1..Len(format)) = Len(format)
    <3> DEFINE l == Len(format)
               low == 1
    <3>1. low \in Int /\ l \in Int /\ l >= 0 /\ low = 1
      BY <1>2
    <3> HIDE DEF l, low
    <3>2. IsFiniteSet(low..l) /\ Cardinality(low..l) = IF low > l THEN 0 ELSE l - low + 1
      BY <3>1, FS_Interval
    <3>3. IsFiniteSet(low..l) /\ Cardinality(low..l) = l
      BY <3>1, <3>2
    <3> QED
      BY <3>3 DEF low, l
  <2> QED
    BY <2>1, <2>2, FS_Subset
<1>6. Len(entries) <= P!Percents
  BY SameNames DEF PrintfInv, PP!PInv, PP!PassesInv
<1> QED
  BY <1>1, <1>2, <1>3, <1>4, <1>5, <1>6

LEMMA AreasAre ==
  ASSUME PrintfInv
  PROVE  /\ P!Array \in Areas /\ P!Buffer \in Areas
         /\ \A n, j \in Nat : P!Expansion(n, j) \in Areas
         /\ allocated \subseteq Areas
<1>1. Len(format) \in Nat /\ calls \in Nat
  BY Counts
<1>2. \A n, j \in Nat : n * (Len(format) + 1) + j \in Nat
  BY <1>1
<1>3. allocated \subseteq Areas
  BY DEF PrintfInv, OwnInv, PP!PInv, PP!TypeInv, PP!Memory, Areas
<1> QED
  BY <1>1, <1>2, <1>3 DEF Areas, P!Array, P!Buffer, P!Expansion

LEMMA MallocsAre ==
  ASSUME PrintfInv, HexesInv, NEW m \in Mallocs
  PROVE  m[1] \in Handles /\ m[1] \in Areas /\ m[2] \in Nat
<1>1. /\ P!Percents \in Nat /\ P!Hexes \in 0..Len(format)
      /\ Len(entries) \in 0..Len(format) /\ Len(format) \in Nat
      /\ rbx \in Nat /\ calls \in Nat
  BY Counts
<1>2. calls \in 1..MaxCalls /\ format \in Formats
  BY <1>1, PrintfHeapAssumption DEF PrintfInv, CallsInv, Mallocs, Expanding
<1>3. \A n, j \in 0..Len(format) : P!Expansion(n, j) \in Handles
  BY <1>2, PrintfHeapAssumption DEF P!Expansion
<1>4. P!Array \in Handles /\ P!Buffer \in Handles
  BY <1>2, PrintfHeapAssumption DEF P!Array, P!Buffer
<1>5. CASE m = <<P!Array, EntrySize * P!Percents>> \/ m = <<P!Buffer, rbx>>
  BY <1>1, <1>4, <1>5, AreasAre DEF EntrySize
<1>6. CASE P!Hexes > 0 /\ m = <<P!Expansion(Len(entries), hexes + 1), HexstrSize>>
           /\ Expanding
  <2>1. hexes + 1 \in 0..Len(format)
    BY <1>1, <1>6 DEF HexesInv, Expanding
  <2> QED
    BY <1>1, <1>3, <1>6, <2>1, AreasAre DEF HexstrSize
<1>7. CASE m = <<P!Expansion(Len(entries), 0), ItosSize>>
  BY <1>1, <1>3, <1>7, AreasAre DEF ItosSize
<1> QED
  BY <1>5, <1>6, <1>7 DEF Mallocs

(* What printf frees is its own and not freed in vain yet, or the          *)
(* program's.                                                              *)
LEMMA FreesAre ==
  ASSUME PrintfInv, NEW area \in Frees
  PROVE  /\ area \notin unfreed
         /\ \/ area[1] = "user" /\ area \notin allocated /\ PointerOf(area) = Mine
            \/ area \in allocated /\ PointerOf(area) = area
<1>1. /\ PP!TypeInv /\ PP!MemoryInv /\ PP!PassesInv /\ PP!PassesAgree
  BY PP!PassesAreRight, Assumed DEF PrintfInv, PP!PInv
<1>2. /\ k \in Nat /\ entries \in Seq(PP!Entry) /\ Len(entries) \in Nat
      /\ Len(format) \in Nat
  BY <1>1, Counts DEF PP!TypeInv
<1>3. CASE printf_pc = "final_copy" /\ P!Char(i) = "%" /\ area = entries[k + 1].string
  <2>1. k < Len(entries)
    BY <1>1, <1>3, SameNames DEF PP!PassesAgree
  <2>2. k + 1 \in 1..Len(entries) /\ k + 1 \in (k + 1)..Len(entries)
    BY <1>2, <2>1
  <2>3. area[1] = "user" \/ area \in allocated
    BY <1>1, <1>3, <2>2 DEF PP!MemoryInv, PP!InUse
  <2>4. area \notin unfreed
    <3> SUFFICES ASSUME NEW n \in 1..k, area = entries[n].string PROVE FALSE
      BY <1>3 DEF PrintfInv, ReportedInv
    <3>1. n \in 1..Len(entries) /\ n - 1 \in Nat /\ n - 1 < k /\ (k + 1) - 1 = k
      BY <1>2, <2>1
    <3>2. \/ area = <<"user", calls, k>>
          \/ \E j \in 0..Len(format) : area = PP!Expansion(k, j)
      BY <1>1, <1>3, <2>2, <3>1 DEF PP!MemoryInv, PP!Strings
    <3>3. \/ area = <<"user", calls, n - 1>>
          \/ \E j \in 0..Len(format) : area = PP!Expansion(n - 1, j)
      BY <1>1, <3>1 DEF PP!MemoryInv, PP!Strings
    <3>4. \A a, b \in 0..Len(format) : PP!Expansion(n - 1, a) # PP!Expansion(k, b)
      BY <1>1, <1>2, <3>1, PP!ExpansionsDiffer, Assumed
    <3>5. \A x, y : PP!Expansion(x, y)[1] = "expansion"
      BY DEF PP!Expansion
    <3>6. <<"user", calls, k>> # <<"user", calls, n - 1>>
      BY <1>2, <3>1
    <3> QED
      BY <3>2, <3>3, <3>4, <3>5, <3>6
  <2> QED
    BY <2>3, <2>4 DEF PointerOf, PrintfInv, OwnInv
<1>4. CASE printf_pc = "free_buffer" /\ area = P!Buffer
  <2>1. area \in allocated
    BY <1>1, <1>4, SameNames DEF PP!MemoryInv, PP!InUse
  <2>2. area[1] = "buffer"
    BY <1>4 DEF P!Buffer
  <2>3. area \notin unfreed
    <3> SUFFICES ASSUME NEW n \in 1..k, area = entries[n].string PROVE FALSE
      BY <1>4 DEF PrintfInv, ReportedInv
    <3>1. n \in 1..Len(entries)
      BY <1>1, <1>2, <1>4 DEF PP!PassesAgree
    <3> QED
      BY <1>1, <2>2, <3>1 DEF PP!MemoryInv, PP!Strings, PP!Expansion
  <2> QED
    BY <2>1, <2>2, <2>3 DEF PointerOf
<1>5. CASE printf_pc = "free_array" /\ area = P!Array
  <2>1. area \in allocated
    BY <1>1, <1>5, SameNames DEF PP!MemoryInv, PP!InUse
  <2>2. area[1] = "array" /\ area # P!Buffer
    BY <1>5 DEF P!Array, P!Buffer
  <2>3. area \notin unfreed
    <3> SUFFICES ASSUME NEW n \in 1..k, area = entries[n].string PROVE FALSE
      BY <1>5, <2>2 DEF PrintfInv, ReportedInv
    <3>1. k = Len(entries)
      BY <1>1, <1>5 DEF PP!PassesInv, PP!Copied
    <3>2. n \in 1..Len(entries)
      BY <3>1
    <3> QED
      BY <1>1, <2>2, <3>2 DEF PP!MemoryInv, PP!Strings, PP!Expansion
  <2> QED
    BY <2>1, <2>2, <2>3 DEF PointerOf
<1> QED
  BY <1>3, <1>4, <1>5 DEF Frees

(***************************************************************************)
(* One call behind.                                                        *)
(***************************************************************************)

(* Between two calls both own the same; while a call runs, the allocator   *)
(* works on what printf, or the program, asked for; and when it is over    *)
(* they differ by that.                                                    *)
Owned  == allocated \cup Made
Agreed == Owned = Live \ {Mine}
Asked ==
  /\ Mallocking => IF printf_pc = "idle" THEN handle = Mine
                   ELSE \E m \in Mallocs : handle = m[1]
  /\ Freeing => IF printf_pc = "idle" THEN handle = Mine
                ELSE \E area \in Frees : handle = PointerOf(area)
Answered ==
  \/ ret = "error" /\ Agreed
  \/ ret = "ok" /\ printf_pc = "idle" /\ Agreed
  \/ ret = "ok" /\ printf_pc # "idle"
     /\ \/ \E m \in Mallocs : Owned \cup {m[1]} = Live \ {Mine}
        \/ \E area \in Frees : Owned \ {PointerOf(area)} = Live \ {Mine}
LockInv ==
  /\ ~called => pc = "idle" /\ Agreed
  /\ called /\ (Mallocking \/ Freeing) => Agreed /\ Asked
  /\ called /\ pc = "idle" => Answered
PHInv == PrintfInv /\ PointersOK /\ HexesInv /\ LockInv

(* While printf waits, what it asks for stays the same. *)
LEMMA PrintfWaits ==
  ASSUME UNCHANGED printf_vars
  PROVE  /\ Frees' = Frees /\ Expanding' = Expanding /\ P!Hexes' = P!Hexes
         /\ \A n, j : P!Expansion(n, j)' = P!Expansion(n, j)
         /\ hexes' = hexes => /\ Mallocs' = Mallocs /\ Owned' = Owned
                              /\ HexesInv => HexesInv'
<1> USE DEF printf_vars
<1>1. \A p : P!Char(p)' = P!Char(p)
  BY DEF P!Char
<1>2. P!Hexes' = P!Hexes
  BY <1>1 DEF P!Hexes
<1>3. Expanding' = Expanding
  BY <1>1 DEF Expanding, P!ArgThere, P!va_start
<1>4. Frees' = Frees
  BY <1>1 DEF Frees, P!Array, P!Buffer
<1>5. \A n, j : P!Expansion(n, j)' = P!Expansion(n, j)
  BY DEF P!Expansion
<1>6. hexes' = hexes => Mallocs' = Mallocs
  <2>1. P!Percents' = P!Percents
    BY DEF P!Percents
  <2> QED
    BY <1>1, <1>2, <1>3, <2>1 DEF Mallocs, P!Array, P!Buffer, P!Expansion
<1>7. hexes' = hexes => Owned' = Owned
  BY <1>5 DEF Owned, Made
<1> QED
  BY <1>2, <1>3, <1>4, <1>5, <1>6, <1>7 DEF HexesInv

LEMMA MineIs == Mine \in Handles /\ Mine \notin Areas
BY PrintfHeapAssumption

LEMMA LAsk ==
  ASSUME PHInv, Ask
  PROVE  PointersOK' /\ HexesInv' /\ LockInv'
<1>1. /\ PrintfInv /\ PointersOK /\ HexesInv /\ pc = "idle" /\ ~called /\ Agreed
      /\ called' /\ UNCHANGED <<printf_vars, hexes>> /\ printf_pc # "idle"
  BY DEF PHInv, LockInv, Ask, Ready, Mallocs, Frees, Expanding
<1>2. /\ Mallocs' = Mallocs /\ Frees' = Frees /\ Owned' = Owned /\ HexesInv'
      /\ printf_pc' = printf_pc
  BY <1>1, PrintfWaits DEF printf_vars
<1>3. CASE \E m \in Mallocs : MallocCall(m[1], m[2])
  <2>1. PICK m \in Mallocs : MallocCall(m[1], m[2])
    BY <1>3
  <2>2. /\ PointersOK' /\ live' = live
        /\ Fails \/ (Mallocking' /\ handle' = m[1])
    BY <1>1, <2>1, MallocsAre, MallocBegins
  <2>3. Agreed'
    BY <1>1, <1>2, <2>2 DEF Agreed, Live
  <2>4. CASE Fails
    BY <1>1, <1>2, <2>2, <2>3, <2>4
    DEF LockInv, Fails, Answered, Mallocking, Freeing
  <2>5. CASE Mallocking' /\ handle' = m[1]
    BY <1>1, <1>2, <2>2, <2>3, <2>5
    DEF LockInv, Asked, Mallocking, Freeing
  <2> QED
    BY <1>2, <2>2, <2>4, <2>5
<1>4. CASE \E area \in Frees : FreeCall(PointerOf(area))
  <2>1. PICK area \in Frees : FreeCall(PointerOf(area))
    BY <1>4
  <2>2. PointerOf(area) \in Handles
    BY <1>1, FreesAre, MineIs DEF Agreed, Owned, Live
  <2>3. /\ PointersOK' /\ live' = live /\ pc' # "idle"
        /\ Crashed' \/ (Freeing' /\ handle' = PointerOf(area))
    BY <1>1, <2>1, <2>2, FreeBegins
  <2>4. Agreed'
    BY <1>1, <1>2, <2>3 DEF Agreed, Live
  <2> QED
    BY <1>1, <1>2, <2>1, <2>3, <2>4
    DEF LockInv, Asked, Mallocking, Freeing, Crashed, PointerOf
<1> QED
  BY <1>3, <1>4 DEF Ask

LEMMA LProgram ==
  ASSUME PHInv, Program
  PROVE  PointersOK' /\ HexesInv' /\ LockInv'
<1>1. /\ PrintfInv /\ PointersOK /\ HexesInv /\ pc = "idle" /\ ~called /\ Agreed
      /\ called' /\ UNCHANGED <<printf_vars, hexes>> /\ printf_pc = "idle"
  BY DEF PHInv, LockInv, Program, Ready
<1>2. Owned' = Owned /\ HexesInv' /\ printf_pc' = "idle"
  BY <1>1, PrintfWaits DEF printf_vars
<1>3. /\ PointersOK' /\ live' = live
      /\ Fails \/ ((Mallocking' \/ Freeing') /\ handle' = Mine) \/ Crashed'
  <2>1. CASE \E n \in Requests : MallocCall(Mine, n)
    BY <1>1, <2>1, ClientAssumption, MineIs, MallocBegins
  <2>2. CASE FreeCall(Mine)
    BY <1>1, <2>2, MineIs, FreeBegins
  <2> QED
    BY <2>1, <2>2 DEF Program
<1>4. Agreed'
  BY <1>1, <1>2, <1>3 DEF Agreed, Live
<1> QED
  BY <1>1, <1>2, <1>3, <1>4
  DEF LockInv, Fails, Answered, Asked, Mallocking, Freeing, Crashed

LEMMA LAllocator ==
  ASSUME PHInv, Allocator
  PROVE  PointersOK' /\ HexesInv' /\ LockInv'
<1>1. /\ PrintfInv /\ PointersOK /\ HexesInv /\ called /\ called' /\ Step
      /\ UNCHANGED <<printf_vars, hexes>>
  BY DEF PHInv, Allocator
<1>2. /\ Mallocs' = Mallocs /\ Frees' = Frees /\ Owned' = Owned /\ HexesInv'
      /\ printf_pc' = printf_pc
  BY <1>1, PrintfWaits DEF printf_vars
<1>9. CASE pc = "idle"
  <2>1. /\ pc' = "clobbered"
        /\ UNCHANGED <<live, handle, req, next_page_ptr, ret>>
    BY <1>1, <1>9
    DEF Step, ClientWrites, Crash, call, client, FirstSetup, FindAvailableFragment,
        NoGoodFragments, OpenPage, UndoOpenPage, LinkPage, FixBlockHeader,
        LargeBro, LargeFreeBro, DropUsage, InsertFragment
  <2> QED
    BY <1>1, <1>2, <2>1
    DEF PointersOK, Mallocking, Freeing, CalledByMalloc, LockInv
<1> SUFFICES ASSUME pc # "idle" PROVE PointersOK' /\ HexesInv' /\ LockInv'
  BY <1>9
<1>3. /\ PointersOK' /\ (Mallocking \/ Freeing)
      /\ GoesOn \/ Fails \/ Gives \/ Takes
  BY <1>1, CallMoves
<1>4. Agreed /\ Asked
  BY <1>1, <1>3 DEF PHInv, LockInv
<1>5. CASE GoesOn
  <2>1. Agreed'
    BY <1>2, <1>4, <1>5 DEF Agreed, GoesOn, Live
  <2>2. Mallocking' \/ Freeing' => Asked'
    <3>1. ~(Mallocking' /\ Freeing') /\ ~(Crashed' /\ (Mallocking' \/ Freeing'))
      BY DEF Mallocking, Freeing, Crashed
    <3> QED
      BY <1>2, <1>3, <1>4, <1>5, <3>1 DEF Asked, GoesOn, PointerOf
  <2> QED
    BY <1>1, <1>2, <1>3, <1>5, <2>1, <2>2 DEF LockInv, GoesOn
<1>6. CASE Fails
  BY <1>1, <1>2, <1>3, <1>4, <1>6
  DEF LockInv, Fails, Answered, Agreed, Live, Mallocking, Freeing
<1>7. CASE Gives
  <2>1. CASE printf_pc = "idle"
    <3>1. Agreed'
      BY <1>2, <1>4, <1>7, <2>1 DEF Agreed, Asked, Gives
    <3> QED
      BY <1>1, <1>2, <1>3, <1>7, <2>1, <3>1
      DEF LockInv, Gives, Answered, Mallocking, Freeing
  <2>2. CASE printf_pc # "idle"
    <3>1. PICK m \in Mallocs : handle = m[1]
      BY <1>4, <1>7, <2>2 DEF Asked, Gives
    <3>2. m[1] # Mine
      BY <1>1, MallocsAre, MineIs
    <3>3. Owned' \cup {m[1]} = Live' \ {Mine}
      BY <1>2, <1>4, <1>7, <3>1, <3>2 DEF Agreed, Gives
    <3> QED
      BY <1>1, <1>2, <1>3, <1>7, <2>2, <3>3
      DEF LockInv, Gives, Answered, Mallocking, Freeing
  <2> QED
    BY <2>1, <2>2
<1>8. CASE Takes
  <2>1. CASE printf_pc = "idle"
    <3>1. Agreed'
      BY <1>2, <1>4, <1>8, <2>1 DEF Agreed, Asked, Takes
    <3> QED
      BY <1>1, <1>2, <1>3, <1>8, <2>1, <3>1
      DEF LockInv, Takes, Answered, Mallocking, Freeing
  <2>2. CASE printf_pc # "idle"
    <3>1. PICK area \in Frees : handle = PointerOf(area)
      BY <1>4, <1>8, <2>2 DEF Asked, Takes
    <3>2. Owned' \ {PointerOf(area)} = Live' \ {Mine}
      BY <1>2, <1>4, <1>8, <3>1 DEF Agreed, Takes
    <3> QED
      BY <1>1, <1>2, <1>3, <1>8, <2>2, <3>1, <3>2
      DEF LockInv, Takes, Answered, Mallocking, Freeing, PointerOf
  <2> QED
    BY <2>1, <2>2
<1> QED
  BY <1>3, <1>5, <1>6, <1>7, <1>8

(* The strings made so far, one by one.                                    *)
LEMMA MadeOneMore ==
  ASSUME HexesInv
  PROVE  {P!Expansion(Len(entries), j) : j \in 1..(hexes + 1)}
           = Made \cup {P!Expansion(Len(entries), hexes + 1)}
<1>1. 1..(hexes + 1) = (1..hexes) \cup {hexes + 1}
  BY DEF HexesInv
<1> QED
  BY <1>1 DEF Made

LEMMA NothingMade == hexes = 0 => Made = {}
BY DEF Made

LEMMA LNextOption ==
  ASSUME PHInv, NextOption
  PROVE  PointersOK' /\ HexesInv' /\ LockInv'
<1>1. /\ PrintfInv /\ PointersOK /\ HexesInv /\ called /\ ~called' /\ Answered
      /\ pc = "idle" /\ ret = "ok" /\ Expanding /\ hexes + 1 < P!Hexes
      /\ hexes' = hexes + 1 /\ UNCHANGED <<vars, printf_vars>>
  BY DEF PHInv, NextOption, LockInv, MoreHexes
<1>2. /\ Expanding' /\ P!Hexes' = P!Hexes
      /\ \A n, j : P!Expansion(n, j)' = P!Expansion(n, j)
  BY <1>1, PrintfWaits
<1>3. UNCHANGED <<pc, live, handle, req, next_page_ptr, ret, entries, allocated>>
  BY <1>1 DEF vars, call, client, printf_vars
<1>4. PointersOK'
  BY <1>1, <1>3 DEF PointersOK, Mallocking, Freeing, CalledByMalloc
<1>5. HexesInv'
  BY <1>1, <1>2 DEF HexesInv
<1>6. P!Hexes > 0 /\ printf_pc = "expand_formatters"
  BY <1>1, Counts DEF HexesInv, Expanding
<1>7. /\ Mallocs = {<<P!Expansion(Len(entries), hexes + 1), HexstrSize>>}
      /\ Frees = {}
  BY <1>1, <1>6 DEF Mallocs, Frees, Expanding, P!NUL
<1>8. Owned \cup {P!Expansion(Len(entries), hexes + 1)} = Live \ {Mine}
  BY <1>1, <1>6, <1>7 DEF Answered
<1>9. Made' = Made \cup {P!Expansion(Len(entries), hexes + 1)}
  BY <1>1, <1>2, <1>3, MadeOneMore DEF Made
<1>10. Agreed'
  BY <1>3, <1>8, <1>9 DEF Agreed, Owned, Live
<1> QED
  BY <1>1, <1>3, <1>4, <1>5, <1>10 DEF LockInv

(* An answer: what printf takes for its own follows the allocator's.       *)
LEMMA LAnswered ==
  ASSUME PHInv, Answer
  PROVE  hexes' \in Nat /\ (hexes' # 0 => printf_pc' = "segv") /\ Agreed'
<1>1. /\ PrintfInv /\ HexesInv /\ called /\ Answered /\ pc = "idle"
      /\ UNCHANGED vars /\ (ret = "error" \/ ~MoreHexes)
      /\ hexes' = IF ret = "error" THEN hexes ELSE 0
  BY DEF PHInv, Answer, LockInv
<1>2. Live' = Live
  <2>1. live' = live
    BY DEF Answer, vars, client
  <2> QED
    BY <2>1 DEF Live
<1>3. CASE printf_pc = "idle"
  <2>1. UNCHANGED printf_vars /\ hexes = 0
    BY <1>1, <1>3 DEF Answer, HexesInv, Expanding
  <2>2. Agreed /\ hexes' = hexes
    BY <1>1, <1>3, <2>1 DEF Answered
  <2>3. Owned' = Owned
    BY <2>1, <2>2, PrintfWaits
  <2> QED
    BY <1>2, <2>1, <2>2, <2>3 DEF Agreed
<1>4. CASE printf_pc # "idle" /\ ret = "error"
  <2>1. /\ Failed /\ hexes' = hexes /\ Agreed
        /\ \/ P!CreateStrArray \/ P!ExpandFormatter \/ P!CreateBuffer
           \/ P!CopyFormatted \/ P!FreeBros
    BY <1>1, <1>4 DEF Answer, Answered
  <2>2. UNCHANGED <<allocated, entries, calls, format>>
    BY <2>1 DEF Failed, P!CreateStrArray, P!ExpandFormatter, P!CreateBuffer,
                P!CopyFormatted, P!FreeBros, P!Free, P!Stop
  <2>3. hexes # 0 => printf_pc' = "segv"
    BY <1>1, <1>4, <2>1
    DEF HexesInv, Expanding, Failed, P!CreateStrArray, P!ExpandFormatter,
        P!CreateBuffer, P!CopyFormatted, P!FreeBros, P!Stop, P!NUL
  <2>4. Owned' = Owned
    BY <2>1, <2>2 DEF Owned, Made, P!Expansion
  <2> QED
    BY <1>1, <1>2, <2>1, <2>3, <2>4 DEF Agreed, HexesInv
<1>5. CASE printf_pc # "idle" /\ ret # "error"
  <2>1. ret = "ok" /\ hexes' = 0 /\ ~MoreHexes
    BY <1>1, <1>5 DEF Answered
  <2>2. /\ printf_pc' \notin {"wild", "segv"} /\ unfreed' = unfreed
        /\ \/ P!CreateStrArray \/ P!ExpandFormatter \/ P!CreateBuffer
           \/ P!CopyFormatted \/ P!FreeBros
    BY <1>1, <1>5 DEF Answer, Failed
  <2>3. Made' = {}
    BY <2>1 DEF Made
  <2>4. \/ \E m \in Mallocs : Owned \cup {m[1]} = Live \ {Mine}
        \/ \E area \in Frees : Owned \ {PointerOf(area)} = Live \ {Mine}
    BY <1>1, <1>5 DEF Answered
  <2>5. SUFFICES allocated' = Live \ {Mine}
    BY <1>2, <2>1, <2>3 DEF Agreed, Owned
  <2>6. ~Expanding => Made = {}
    BY <1>1, <1>5, <2>2, NothingMade
    DEF HexesInv, P!CreateStrArray, P!ExpandFormatter, P!CreateBuffer,
        P!CopyFormatted, P!FreeBros
  <2>7. CASE P!CreateStrArray
    <3>1. allocated' = allocated \cup {P!Array} /\ printf_pc = "create_str_array"
      BY <2>2, <2>7 DEF P!CreateStrArray, P!Stop
    <3>2. /\ Mallocs = {<<P!Array, EntrySize * P!Percents>>} /\ Frees = {}
          /\ ~Expanding
      BY <3>1 DEF Mallocs, Frees, Expanding
    <3> QED
      BY <2>4, <2>6, <3>1, <3>2 DEF Owned
  <2>8. CASE P!CreateBuffer
    <3>1. /\ allocated' = allocated \cup {P!Buffer} /\ P!Char(i) = P!NUL
          /\ printf_pc = "expand_formatters"
      BY <2>2, <2>8 DEF P!CreateBuffer, P!Stop
    <3>2. /\ Mallocs = {<<P!Buffer, rbx>>} /\ Frees = {}
          /\ ~Expanding
      BY <3>1 DEF Mallocs, Frees, Expanding, P!NUL
    <3> QED
      BY <2>4, <2>6, <3>1, <3>2 DEF Owned
  <2>9. CASE P!ExpandFormatter
    <3>1. /\ printf_pc = "expand_formatters" /\ P!Char(i) = "%" /\ Frees = {}
      BY <2>9 DEF P!ExpandFormatter, Frees
    <3>2. Expanding
      BY <2>4, <3>1 DEF Mallocs, P!NUL
    <3>3. P!ExpandHex \/ P!ExpandDecimal
      BY <2>2, <2>9, <3>2
      DEF P!ExpandFormatter, P!Stop, P!ExpandString, Expanding
    <3>4. CASE P!Hexes > 0
      <4>1. Mallocs = {<<P!Expansion(Len(entries), hexes + 1), HexstrSize>>}
        BY <3>1, <3>2, <3>4 DEF Mallocs, P!NUL
      <4>2. hexes + 1 = P!Hexes
        BY <1>1, <2>1, <3>2, <3>4, <3>1, Counts DEF MoreHexes, HexesInv
      <4>3. allocated' = allocated \cup
                {P!Expansion(Len(entries), j) : j \in 1..(hexes + 1)}
        BY <3>3, <3>4, <4>2 DEF P!ExpandHex, P!ExpandDecimal
      <4>4. Owned \cup {P!Expansion(Len(entries), hexes + 1)} = Live \ {Mine}
        BY <2>4, <3>1, <4>1
      <4> QED
        BY <1>1, <4>3, <4>4, MadeOneMore DEF Owned
    <3>5. CASE ~(P!Hexes > 0)
      <4>1. Mallocs = {<<P!Expansion(Len(entries), 0), ItosSize>>}
        BY <3>1, <3>2, <3>5 DEF Mallocs, P!NUL
      <4>2. Made = {}
        BY <1>1, <3>1, <3>5, NothingMade, Counts DEF HexesInv
      <4>3. allocated' = allocated \cup {P!Expansion(Len(entries), 0)}
        BY <3>3, <3>5 DEF P!ExpandHex, P!ExpandDecimal
      <4> QED
        BY <2>4, <3>1, <4>1, <4>2, <4>3 DEF Owned
    <3> QED
      BY <3>4, <3>5
  <2>10. CASE P!CopyFormatted \/ P!FreeBros
    <3>1. PICK area : /\ Frees = {area} /\ Mallocs = {} /\ ~Expanding
                      /\ P!Free(area)
      BY <2>2, <2>10
      DEF P!CopyFormatted, P!FreeBros, P!Stop, Frees, Mallocs, Expanding
    <3>2. /\ area \notin unfreed
          /\ \/ area \notin allocated /\ PointerOf(area) = Mine
             \/ area \in allocated /\ PointerOf(area) = area
      BY <1>1, <3>1, FreesAre
    <3>3. allocated' = allocated \ {area}
      BY <2>2, <3>1, <3>2 DEF P!Free
    <3>4. allocated \ {PointerOf(area)} = Live \ {Mine}
      BY <2>4, <2>6, <3>1 DEF Owned
    <3>5. Mine \notin allocated
      BY <1>1, AreasAre, MineIs
    <3> QED
      BY <3>2, <3>3, <3>4, <3>5
  <2> QED
    BY <2>2, <2>7, <2>8, <2>9, <2>10
<1> QED
  BY <1>3, <1>4, <1>5

LEMMA LAnswer ==
  ASSUME PHInv, Answer
  PROVE  PointersOK' /\ HexesInv' /\ LockInv'
<1>1. UNCHANGED vars /\ ~called' /\ PointersOK /\ pc = "idle"
  BY DEF PHInv, Answer
<1>2. PointersOK' /\ pc' = "idle"
  BY <1>1 DEF PointersOK, vars, call, client, Mallocking, Freeing, CalledByMalloc
<1> QED
  BY <1>1, <1>2, LAnswered DEF HexesInv, LockInv

LEMMA LAlone ==
  ASSUME PHInv, Alone
  PROVE  PointersOK' /\ HexesInv' /\ LockInv'
<1>1. /\ PrintfInv /\ HexesInv /\ ~called /\ ~called' /\ Agreed /\ PointersOK
      /\ pc = "idle" /\ UNCHANGED vars /\ hexes' = hexes
      /\ \/ /\ Mallocs = {}
            /\ \/ \E f \in Formats : P!Call(f)
               \/ P!ExpandFormatter \/ P!CountText \/ P!CopyText \/ P!Write
               \/ StringGone
         \/ P!CopyPastBuffer
  BY DEF PHInv, Alone, Start, StringGone, LockInv, Ready
<1>2. ~Expanding
  BY <1>1 DEF Mallocs, Expanding, P!CopyPastBuffer
<1>3. hexes = 0
  BY <1>1, <1>2
  DEF HexesInv, P!Call, P!ExpandFormatter, P!CountText, P!CopyText, P!Write,
      P!CopyPastBuffer, StringGone, ReadsString
<1>4. allocated' = allocated
  BY <1>1, <1>2
  DEF P!Call, P!ExpandFormatter, P!CountText, P!CopyText, P!Write, P!Stop,
      P!ExpandString, P!ExpandHex, P!ExpandDecimal, P!CopyPastBuffer, StringGone,
      Expanding
<1>5. Agreed'
  BY <1>1, <1>3, <1>4 DEF Agreed, Owned, Made, Live, vars, client
<1>6. PointersOK' /\ pc' = "idle"
  BY <1>1 DEF PointersOK, vars, call, client, Mallocking, Freeing, CalledByMalloc
<1> QED
  BY <1>1, <1>3, <1>5, <1>6 DEF HexesInv, LockInv

LEMMA PHBegins == PHInit => PHInv
<1> SUFFICES ASSUME PHInit PROVE PHInv
  OBVIOUS
<1>1. /\ PrintfInv /\ hexes = 0 /\ ~called /\ pc = "idle" /\ allocated = {}
      /\ live = [h \in Handles |-> NoBlock] /\ next_page_ptr = nullptr
  BY PrintfBegins DEF PHInit, Init, P!Init
<1>2. PointersOK /\ HexesInv
  BY <1>1 DEF PointersOK, HexesInv, Mallocking, Freeing
<1>3. Agreed
  BY <1>1 DEF Agreed, Owned, Made, Live
<1> QED
  BY <1>1, <1>2, <1>3 DEF PHInv, LockInv

LEMMA PHStep == PHInv /\ [Moves]_phvars => PHInv'
<1> SUFFICES ASSUME PHInv, [Moves]_phvars PROVE PHInv'
  OBVIOUS
<1>1. PrintfInv'
  BY PrintfMoves, PrintfKeeps DEF PHInv
<1>2. PointersOK' /\ HexesInv' /\ LockInv'
  <2>1. CASE UNCHANGED phvars
    <3>1. UNCHANGED <<printf_vars, hexes, called, vars>>
      BY <2>1 DEF phvars
    <3>2. UNCHANGED <<pc, live, handle, req, next_page_ptr, ret, printf_pc>>
      BY <3>1 DEF vars, call, client, printf_vars
    <3>3. /\ Mallocs' = Mallocs /\ Frees' = Frees /\ Owned' = Owned /\ HexesInv'
      BY <3>1, PrintfWaits DEF PHInv
    <3>4. Mallocking' = Mallocking /\ Freeing' = Freeing /\ Live' = Live
      BY <3>2 DEF Mallocking, Freeing, CalledByMalloc, Live
    <3> QED
      BY <3>1, <3>2, <3>3, <3>4
      DEF PHInv, PointersOK, LockInv, Asked, Answered, Agreed, PointerOf
  <2> QED
    BY <2>1, LAsk, LProgram, LAllocator, LNextOption, LAnswer, LAlone DEF Moves
<1> QED
  BY <1>1, <1>2 DEF PHInv

USE DEF nullptr, ErrPtr, WORDSIZE, PHEADERSIZE, BHEADERSIZE, NODESIZE,
        NHEADERSIZE

(***************************************************************************)
(* The memory below printf is that of module Heap.                         *)
(***************************************************************************)

LEMMA HeapMoves ==
  ASSUME PHInv, [Moves]_phvars
  PROVE  \/ UNCHANGED vars
         \/ Step
         \/ \E h \in Handles, n \in Nat : MallocCall(h, n)
         \/ \E h \in Handles : FreeCall(h)
<1>1. CASE UNCHANGED phvars \/ NextOption \/ Answer \/ Alone
  BY <1>1 DEF phvars, NextOption, Answer, Alone
<1>2. CASE Allocator
  BY <1>2 DEF Allocator
<1>3. CASE Program
  BY <1>3, MineIs, ClientAssumption DEF Program
<1>4. CASE Ask
  <2>1. \A m \in Mallocs : m[1] \in Handles /\ m[2] \in Nat
    BY MallocsAre DEF PHInv
  <2>2. \A area \in Frees : PointerOf(area) \in Handles
    <3>1. Agreed
      BY <1>4 DEF PHInv, LockInv, Ask, Ready
    <3> QED
      BY <3>1, FreesAre, MineIs DEF PHInv, Agreed, Owned, Live
  <2> QED
    BY <1>4, <2>1, <2>2 DEF Ask
<1> QED
  BY <1>1, <1>2, <1>3, <1>4 DEF Moves

LEMMA MemoryStep ==
  ASSUME PHInv, IInv, [Moves]_phvars
  PROVE  IInv'
BY HeapMoves, IUnchanged, InvStep, MallocCallInv DEF Next

LEMMA UsesInvStep ==
  ASSUME PHInv, IInv, IInv', UsesInv, IsFiniteSet(Handles), [Moves]_phvars
  PROVE  UsesInv'
BY HeapMoves, UsesUnchanged, UsesInStep, UsesMallocCall, UsesFreeCall

(* Until then, whatever a second free does to the memory after.            *)
OnceInv == PHInv /\ IInv
LEMMA MemoryInvariant == PHSpec => [](again \/ OnceInv)
<1>1. PHInit => OnceInv
  BY PHBegins, InitInv DEF PHInit, OnceInv
<1>2. OnceInv /\ [Moves]_phvars => OnceInv'
  BY PHStep, MemoryStep DEF OnceInv
<1>3. [PHNext]_phvars => (again => again') /\ ([Moves]_phvars \/ again')
  BY NextIs
<1> QED
  BY <1>1, <1>2, <1>3, PTL DEF PHSpec

LEMMA UsesInvariant ==
  ASSUME IsFiniteSet(Handles)
  PROVE  PHSpec => [](again \/ UsesInv)
<1>1. PHInit => UsesInv
  BY UsesBegin DEF PHInit
<1>2. OnceInv /\ OnceInv' /\ UsesInv /\ [Moves]_phvars => UsesInv'
  BY UsesInvStep DEF OnceInv
<1>3. [PHNext]_phvars => (again => again') /\ ([Moves]_phvars \/ again')
  BY NextIs
<1> QED
  BY <1>1, <1>2, <1>3, MemoryInvariant, PTL DEF PHSpec

(* When no block is in use, the page the allocator goes on using has been  *)
(* unmapped, or it never had a block (drop_usage unmaps the current page   *)
(* with its last use), for finitely many pointers, as long as no block of  *)
(* the program is freed twice and no header is overwritten.                *)
THEOREM EmptiedHeapGone ==
  ASSUME IsFiniteSet(Handles)
  PROVE  PHSpec => [](~again => EmptyHeapGone)
<1>1. IInv /\ UsesInv => EmptyHeapGone
  BY EmptyGone DEF EmptyHeapGone, Ready
<1> QED
  BY <1>1, MemoryInvariant, UsesInvariant, PTL DEF OnceInv

(***************************************************************************)
(* The first page.                                                         *)
(***************************************************************************)

(* A step that maps no page for small blocks, and keeps the first one. *)
LEMMA PagesKept ==
  ASSUME PagesInv, pc \notin Crashes,
         UNCHANGED <<first_page_ptr, current_page>>,
         \A p \in Page : mapped'[p] = "norm" => mapped[p] = "norm",
         Is(first_page_ptr, "norm") =>
           /\ mapped'[first_page_ptr] = "norm"
           /\ page_hdr'[first_page_ptr].next_page = page_hdr[first_page_ptr].next_page,
         first_page_ptr # nullptr => first_fragment_list_header' # first_page_ptr,
         OpeningPage' => OpeningPage /\ next_page_ptr' = next_page_ptr,
         OpeningPage => \/ OpeningPage' \/ pc' \in Crashes
                        \/ mapped'[next_page_ptr] # "norm",
         pc' = "large_free_bro" => Is(block.page, "huge")',
         pc' = "drop_usage" /\ block' \in DOMAIN blocks' => fragments' = <<block'>>,
         first_page_ptr # nullptr /\ FirstPageLost =>
           pc' \in Crashes \/ (/\ fragments' = fragments
                               /\ pc' \notin SmallCall \ {"find_available_fragment"}
                               /\ FreeingSmall' => block'.off = 0)
  PROVE  PagesInv'
<1>1. \A p \in Page : Is(p, "norm")' => Is(p, "norm")
  BY DEF Is
<1>2. first_page_ptr # nullptr /\ pc' \notin Crashes =>
        /\ OpeningPage' => next_page_ptr' # first_page_ptr
        /\ (OnFirstPage \/ FirstPageLeft \/ FirstPageLost)
    BY DEF PagesInv
<1>3. pc' \notin Crashes /\ OnFirstPage => OnFirstPage'
  BY <1>1 DEF OnFirstPage, OnePage, Is
<1>4. FirstPageLeft => FirstPageLeft'
  BY DEF FirstPageLeft, Is
<1>5. pc' \notin Crashes /\ first_page_ptr # nullptr /\ FirstPageLost => FirstPageLost'
  BY <1>1 DEF FirstPageLost
<1> QED
  BY <1>1, <1>2, <1>3, <1>4, <1>5 DEF PagesInv

LEMMA PagesBegin == Init => PagesInv
BY DEF Init, PagesInv, Is

LEMMA PagesCrash ==
  ASSUME PagesInv, NEW how \in Crashes, Crash(how)
  PROVE  PagesInv'
BY DEF Crash, PagesInv, Crashes, memory, arena, frags, call, client, Is

LEMMA PagesUnchanged ==
  ASSUME PagesInv, UNCHANGED vars
  PROVE  PagesInv'
<1> USE DEF vars, memory, arena, frags, call
<1>1. OnFirstPage' = OnFirstPage /\ FirstPageLeft' = FirstPageLeft
      /\ FirstPageLost' = FirstPageLost /\ OpeningPage' = OpeningPage
  BY DEF OnFirstPage, FirstPageLeft, FirstPageLost, OnePage, OpeningPage, Is,
         FreeingSmall
<1> QED
  BY <1>1 DEF PagesInv, Is

(* Steps that leave the memory and the list alone. *)
LEMMA PagesIdle ==
  ASSUME PagesInv, pc \notin Crashes,
         UNCHANGED <<mapped, page_hdr, first_page_ptr, current_page,
                     first_fragment_list_header, fragments>>,
         pc' \notin {"large_free_bro", "drop_usage"},
         OpeningPage' => OpeningPage /\ next_page_ptr' = next_page_ptr,
         OpeningPage => OpeningPage',
         first_page_ptr # nullptr /\ FirstPageLost =>
           /\ pc' \notin SmallCall \ {"find_available_fragment"}
           /\ FreeingSmall' => block'.off = 0
  PROVE  PagesInv'
BY PagesKept DEF PagesInv, Is

LEMMA PagesMallocCall ==
  ASSUME IInv, PagesInv, NEW h \in Handles, NEW n \in Nat, MallocCall(h, n)
  PROVE  PagesInv'
<1>1. UNCHANGED <<memory, arena, frags, live>> /\ pc = "idle"
      /\ next_page_ptr' = nullptr /\ pc' \in {"idle", "large_bro", "first_setup"}
  BY DEF MallocCall, Return, client, IInv, CallOK
<1> QED
  BY <1>1, PagesIdle
  DEF memory, arena, frags, Crashes, OpeningPage, SmallCall, FreeingSmall

LEMMA PagesFreeCall ==
  ASSUME IInv, UsesInv, PagesInv, NEW h \in Handles, FreeCall(h)
  PROVE  PagesInv'
<1>1. CASE Crash(Fault(live[h].page))
  BY <1>1, PagesCrash DEF Fault, Crashes
<1>2. CASE ~Crash(Fault(live[h].page))
  <2>1. /\ Readable(Address(h)) /\ block' = Address(h)
        /\ pc' = IF Header(Address(h)).type = "HUGE" THEN "large_free_bro"
                                                     ELSE "insert_fragment"
        /\ UNCHANGED <<memory, arena, frags, next_page_ptr>>
        /\ pc = "idle" /\ next_page_ptr = nullptr
    BY <1>2 DEF FreeCall, IInv, CallOK
  <2>2. pc' = "large_free_bro" => Is(block.page, "huge")'
    <3>1. Header(Address(h)).type = "HUGE" => Address(h).off = 0
      BY DEF UsesInv, HugeHeads, Header, ZeroHeader
    <3> QED
      BY <2>1, <3>1 DEF Readable, Is, memory
  <2>3. FirstPageLost => block'.off = 0
    BY <2>1 DEF FirstPageLost, Readable, Is
  <2>4. ~OpeningPage /\ ~OpeningPage' /\ pc \notin Crashes
    BY <2>1 DEF OpeningPage, Crashes
  <2> QED
    BY <2>1, <2>2, <2>3, <2>4, PagesKept
    DEF memory, arena, frags, SmallCall, PagesInv, Is
<1> QED
  BY <1>1, <1>2

LEMMA PagesFirstSetup ==
  ASSUME IInv, PagesInv, FirstSetup
  PROVE  PagesInv'
<1>1. CASE /\ pc = "first_setup" /\ pc' = "find_available_fragment"
           /\ UNCHANGED <<memory, arena, frags, call, client>>
  BY <1>1, PagesIdle
  DEF memory, arena, frags, call, Crashes, OpeningPage, SmallCall, FreeingSmall
<1>2. CASE pc = "first_setup" /\ Return("error") /\ UNCHANGED <<memory, arena, frags, live>>
  BY <1>2, PagesIdle
  DEF Return, memory, arena, frags, Crashes, OpeningPage, SmallCall, FreeingSmall
<1>3. ASSUME NEW p \in Page, first_page_ptr = nullptr, pc = "first_setup",
             CanMap(p, 1), mapped' = MapAs(p, 1, "norm"),
             page_hdr' = [page_hdr EXCEPT ![p] = BlankPage],
             first_page_ptr' = p, current_page' = p,
             pc' = "find_available_fragment", UNCHANGED frags
      PROVE  PagesInv'
  <2>1. /\ mapped'[p] = "norm" /\ \A q \in Page : q # p => mapped'[q] = mapped[q]
    BY <1>3, FreshPage DEF IInv
  <2>2. first_fragment_list_header' # p
    BY <1>3 DEF IInv, BeforeFirstPage, ListHasOne, frags
  <2>3. page_hdr'[p].next_page = nullptr
    BY <1>3 DEF BlankPage, IInv, TypeOK
  <2>4. OnePage'
    BY <1>3, <2>1, <2>3 DEF OnePage, Is
  <2>5. \A q \in Page : Is(q, "norm")' => q = p
    BY <1>3, <2>1 DEF PagesInv, Is
  <2>6. OnFirstPage' /\ ~OpeningPage'
    BY <1>3, <2>4, <2>5 DEF OnFirstPage, OpeningPage
  <2> QED
    BY <1>3, <2>2, <2>6, Sizes DEF PagesInv
<1> QED
  BY <1>1, <1>2, <1>3 DEF FirstSetup

(* A readable block of the list shows that the first page is not lost. *)
LEMMA NotLost ==
  ASSUME IInv, \A n \in 1..Len(fragments) : Readable(fragments[n])
  PROVE  ~FirstPageLost
<1> SUFFICES ASSUME FirstPageLost PROVE FALSE
  OBVIOUS
<1>1. 1 \in 1..Len(fragments) /\ fragments[1].off >= PHEADERSIZE /\ Readable(fragments[1])
  BY DEF FirstPageLost, IInv, ListHasOne
<1> QED
  BY <1>1 DEF FirstPageLost, Readable, Is

LEMMA PagesFindAvailableFragment ==
  ASSUME IInv, PagesInv, FindAvailableFragment
  PROVE  PagesInv'
<1>1. CASE \E n \in 1..Len(fragments) : Crash(Fault(fragments[n].page))
  BY <1>1, PagesCrash DEF Fault, Crashes
<1> SUFFICES ASSUME ~ \E n \in 1..Len(fragments) : Crash(Fault(fragments[n].page))
             PROVE  PagesInv'
  BY <1>1
<1>2. /\ pc = "find_available_fragment"
      /\ \A n \in 1..Len(fragments) : WalkReads(n) => Readable(fragments[n])
  BY DEF FindAvailableFragment
<1>3. /\ Len(fragments) \in {0, 1}
      /\ \A n \in 1..Len(fragments) : Readable(fragments[n])
  BY <1>2 DEF IInv, ListHasOne, WalkReads
<1>4. ~FirstPageLost
  BY <1>3, NotLost
<1>5. CASE /\ pc' = "no_good_fragments"
           /\ UNCHANGED <<memory, arena, frags, call, client>>
  BY <1>2, <1>4, <1>5, PagesIdle
  DEF memory, arena, frags, call, Crashes, OpeningPage
<1>6. ASSUME NEW n \in 1..Len(fragments), RemoveFragment(n),
             pc' = "fix_block_header", UNCHANGED arena
      PROVE  PagesInv'
  <2>1. /\ Len(fragments) = 1 /\ first_fragment_list_header \in Page
        /\ Unmap(first_fragment_list_header) /\ page_hdr' = page_hdr
        /\ first_fragment_list_header' = nullptr
    <3>1. Len(fragments) = 1
      BY <1>3
    <3>2. first_fragment_list_header \in Page
      BY <3>1 DEF IInv, ListHasOne
    <3> QED
      BY <1>6, <3>1, <3>2 DEF RemoveFragment
  <2>2. /\ \A p \in Page : mapped'[p] = "norm" => mapped[p] = "norm"
        /\ \A p \in Page : p # first_fragment_list_header => mapped'[p] = mapped[p]
    BY <2>1 DEF Unmap, IInv, TypeOK
  <2>3. first_page_ptr # nullptr
    BY <1>2 DEF IInv, BeforeFirstPage, SmallCall
  <2>4. first_fragment_list_header # first_page_ptr
    BY <1>2, <2>3 DEF PagesInv, Crashes
  <2>5. ~OpeningPage /\ ~OpeningPage'
    BY <1>2, <1>6 DEF OpeningPage
  <2> QED
    BY <1>2, <1>4, <1>6, <2>1, <2>2, <2>3, <2>4, <2>5, PagesKept
    DEF arena, Is, Crashes
<1> QED
  BY <1>5, <1>6 DEF FindAvailableFragment

(* While a call of malloc is past the list, the first page is there. *)
LEMMA FirstThere ==
  ASSUME IInv, PagesInv, pc \in SmallCall \ {"find_available_fragment"} \/ OpeningPage
  PROVE  /\ first_page_ptr \in Page /\ Is(first_page_ptr, "norm")
         /\ first_page_ptr # nullptr /\ ~FirstPageLost /\ pc \notin Crashes
         /\ first_fragment_list_header # first_page_ptr
         /\ OpeningPage => next_page_ptr # first_page_ptr
         /\ OnFirstPage \/ FirstPageLeft
<1>1. pc \notin Crashes
  BY DEF Crashes, SmallCall, OpeningPage
<1>2. first_page_ptr # nullptr
  BY DEF IInv, BeforeFirstPage, SmallCall, OpeningPage
<1>3. ~FirstPageLost
  BY DEF FirstPageLost
<1> QED
  BY <1>1, <1>2, <1>3 DEF PagesInv, OnFirstPage, OnePage, FirstPageLeft, Is

LEMMA PagesNoGoodFragments ==
  ASSUME IInv, PagesInv, NoGoodFragments
  PROVE  PagesInv'
<1>1. /\ pc = "no_good_fragments" /\ ~OpeningPage
      /\ pc \in SmallCall \ {"find_available_fragment"}
  BY DEF NoGoodFragments, OpeningPage, SmallCall
<1>2. /\ first_page_ptr \in Page /\ Is(first_page_ptr, "norm")
      /\ first_page_ptr # nullptr /\ ~FirstPageLost /\ pc \notin Crashes
      /\ first_fragment_list_header # first_page_ptr
      /\ OnFirstPage \/ FirstPageLeft
  BY <1>1, FirstThere
<1>3. CASE pc' = "fix_block_header" /\ UNCHANGED <<memory, first_page_ptr, current_page, frags>>
  BY <1>1, <1>2, <1>3, PagesIdle DEF OpeningPage, memory, frags
<1>4. CASE Crash(Fault(current_page))
  BY <1>4, PagesCrash DEF Fault, Crashes
<1>5. CASE Return("error") /\ UNCHANGED <<memory, arena, frags, live>>
  BY <1>1, <1>2, <1>5, PagesIdle DEF Return, OpeningPage, memory, arena, frags
<1>6. ASSUME NEW p \in Page, CanMap(p, 1), mapped' = MapAs(p, 1, "norm"),
             page_hdr' = [page_hdr EXCEPT ![p] = BlankPage],
             next_page_ptr' = p, pc' = "open_page", UNCHANGED <<arena, frags>>
      PROVE  PagesInv'
  <2>1. /\ mapped[p] = "none" /\ mapped'[p] = "norm"
        /\ \A q \in Page : q # p => mapped'[q] = mapped[q]
    BY <1>6, FreshPage DEF IInv
  <2>2. p # first_page_ptr /\ OpeningPage'
    BY <1>2, <1>6, <2>1 DEF Is, OpeningPage
  <2>3. Is(first_page_ptr, "norm")' /\ page_hdr'[first_page_ptr] = page_hdr[first_page_ptr]
    BY <1>2, <1>6, <2>1, <2>2 DEF Is, arena
  <2>4. OnFirstPage => OnFirstPage'
    <3>1. OnFirstPage => OnePage'
      BY <1>6, <2>3 DEF OnFirstPage, OnePage, arena
    <3>2. OnFirstPage => \A q \in Page : Is(q, "norm")' => q = first_page_ptr \/ q = p
      BY <1>1, <2>1 DEF OnFirstPage, Is
    <3> QED
      BY <1>6, <2>2, <3>1, <3>2 DEF OnFirstPage, arena
  <2>5. FirstPageLeft => FirstPageLeft'
    BY <1>6, <2>3 DEF FirstPageLeft, arena
  <2> QED
    BY <1>2, <1>6, <2>2, <2>4, <2>5 DEF PagesInv, arena, frags
<1> QED
  BY <1>3, <1>4, <1>5, <1>6 DEF NoGoodFragments, arena

LEMMA PagesOpenPage ==
  ASSUME IInv, PagesInv, OpenPage
  PROVE  PagesInv'
<1>1. CASE Crash(Fault(current_page)) \/ Crash(WritePast(At(current_page, NextBlock)))
  BY <1>1, PagesCrash DEF Fault, WritePast, Crashes
<1>2. CASE ~(Crash(Fault(current_page)) \/ Crash(WritePast(At(current_page, NextBlock))))
  <2>1. /\ pc = "open_page" /\ pc' = "insert_fragment" /\ OpeningPage
        /\ UNCHANGED <<mapped, page_hdr, first_page_ptr, current_page, frags, next_page_ptr>>
    BY <1>2 DEF OpenPage, OpeningPage
  <2>2. ~FirstPageLost /\ pc \notin Crashes /\ next_page_ptr # nullptr
    BY <2>1, FirstThere DEF IInv, CallOK
  <2>3. OpeningPage'
    BY <2>1, <2>2 DEF OpeningPage
  <2> QED
    BY <2>1, <2>2, <2>3, PagesIdle DEF frags
<1> QED
  BY <1>1, <1>2

LEMMA PagesUndoOpenPage ==
  ASSUME IInv, PagesInv, UndoOpenPage
  PROVE  PagesInv'
<1>1. /\ pc = "undo_open_page" /\ OpeningPage /\ pc' = "idle" /\ ~OpeningPage'
      /\ Unmap(next_page_ptr) /\ UNCHANGED <<page_hdr, arena, frags>>
  BY DEF UndoOpenPage, OpeningPage, Return
<1>2. /\ first_page_ptr \in Page /\ ~FirstPageLost /\ pc \notin Crashes
      /\ first_fragment_list_header # first_page_ptr
      /\ next_page_ptr # first_page_ptr
  BY <1>1, FirstThere
<1>3. /\ \A p \in Page : mapped'[p] = "norm" => mapped[p] = "norm"
      /\ \A p \in Page : p # next_page_ptr => mapped'[p] = mapped[p]
      /\ mapped'[next_page_ptr] # "norm"
  <2>1. next_page_ptr \in Page
    BY <1>1 DEF IInv, CallOK, TypeOK
  <2> QED
    BY <1>1, <2>1 DEF Unmap, IInv, TypeOK
<1> QED
  BY <1>1, <1>2, <1>3, PagesKept DEF arena, frags, Is

LEMMA PagesLinkPage ==
  ASSUME IInv, PagesInv, LinkPage
  PROVE  PagesInv'
<1>1. pc = "link_page" /\ OpeningPage
  BY DEF LinkPage, OpeningPage
<1>2. /\ first_page_ptr \in Page /\ Is(first_page_ptr, "norm")
      /\ first_page_ptr # nullptr /\ first_fragment_list_header # first_page_ptr
      /\ next_page_ptr # first_page_ptr
  BY <1>1, FirstThere
<1>3. FirstPageLeft'
  BY <1>2 DEF LinkPage, FirstPageLeft, Is
<1>4. pc' = "fix_block_header" /\ ~OpeningPage'
  BY DEF LinkPage, OpeningPage
<1> QED
  BY <1>2, <1>3, <1>4 DEF PagesInv, LinkPage, frags

LEMMA PagesFixBlockHeader ==
  ASSUME IInv, PagesInv, FixBlockHeader
  PROVE  PagesInv'
<1>1. CASE Crash(WritePast(block)) \/ Crash(Fault(current_page))
  BY <1>1, PagesCrash DEF Fault, WritePast, Crashes
<1>2. CASE ~(Crash(WritePast(block)) \/ Crash(Fault(current_page)))
  <2>1. /\ pc = "fix_block_header" /\ Is(current_page, "norm")
        /\ page_hdr' = [page_hdr EXCEPT ![ChargedPage].usages = @ + 1]
        /\ Return("ok")
        /\ UNCHANGED <<mapped, first_page_ptr, current_page, frags>>
    BY <1>2 DEF FixBlockHeader
  <2>2. /\ first_page_ptr \in Page /\ ~FirstPageLost /\ pc \notin Crashes
        /\ first_page_ptr # nullptr /\ first_fragment_list_header # first_page_ptr
    BY <2>1, FirstThere DEF SmallCall
  <2>3. page_hdr'[first_page_ptr].next_page = page_hdr[first_page_ptr].next_page
    BY <2>1, <2>2 DEF ChargedPage, Is, IInv, TypeOK, PageHeader
  <2>4. ~OpeningPage /\ ~OpeningPage' /\ pc' = "idle"
    BY <2>1 DEF OpeningPage, Return
  <2> QED
    BY <2>1, <2>2, <2>3, <2>4, PagesKept DEF frags, Is
<1> QED
  BY <1>1, <1>2

LEMMA PagesLargeBro ==
  ASSUME IInv, PagesInv, LargeBro
  PROVE  PagesInv'
<1>1. /\ pc = "large_bro" /\ pc' = "idle" /\ ~OpeningPage /\ ~OpeningPage'
      /\ pc \notin Crashes /\ UNCHANGED <<page_hdr, arena, frags>>
  BY DEF LargeBro, Return, OpeningPage, Crashes, memory
<1>2. \A p \in Page : mapped'[p] = "norm" <=> mapped[p] = "norm"
  <2>1. CASE UNCHANGED memory
    BY <2>1 DEF memory
  <2>2. ASSUME NEW p \in Page, CanMap(p, PagesFor(req)),
               mapped' = MapAs(p, PagesFor(req), "huge")
        PROVE  \A q \in Page : mapped'[q] = "norm" <=> mapped[q] = "norm"
    BY <2>2 DEF CanMap, MapAs
  <2> QED
    BY <2>1, <2>2 DEF LargeBro
<1>3. first_page_ptr # nullptr => first_fragment_list_header # first_page_ptr
  BY <1>1 DEF PagesInv
<1> QED
  BY <1>1, <1>2, <1>3, PagesKept DEF arena, frags, Is, SmallCall, FreeingSmall

LEMMA PagesLargeFreeBro ==
  ASSUME IInv, PagesInv, LargeFreeBro
  PROVE  PagesInv'
<1>1. /\ pc = "large_free_bro" /\ pc' = "idle" /\ ~OpeningPage /\ ~OpeningPage'
      /\ pc \notin Crashes /\ UNCHANGED <<page_hdr, arena, frags>>
      /\ Unmap(block.page)
  BY DEF LargeFreeBro, Return, OpeningPage, Crashes
<1>2. \A p \in Page : mapped'[p] = "norm" <=> mapped[p] = "norm"
  <2>1. Is(block.page, "huge")
    BY <1>1 DEF PagesInv
  <2> QED
    BY <1>1, <2>1 DEF Unmap, Is, IInv, TypeOK
<1>3. first_page_ptr # nullptr => first_fragment_list_header # first_page_ptr
  BY <1>1 DEF PagesInv
<1> QED
  BY <1>1, <1>2, <1>3, PagesKept DEF arena, frags, Is, SmallCall, FreeingSmall

LEMMA PagesDropUsage ==
  ASSUME IInv, UsesInv, PagesInv, DropUsage
  PROVE  PagesInv'
<1> DEFINE p == Header(block).page
<1>1. CASE Crash(Fault(p))
  BY <1>1, PagesCrash DEF Fault, Crashes
<1>2. CASE ~Crash(Fault(p))
  <2>1. /\ pc = "drop_usage" /\ p \in Page /\ mapped[p] = "norm"
        /\ page_hdr' = [page_hdr EXCEPT ![p].usages = @ - 1]
        /\ IF Emptied(p) THEN Unmap(current_page) ELSE UNCHANGED <<mapped, blocks>>
        /\ Return("ok") /\ UNCHANGED <<arena, frags>>
    BY <1>2 DEF DropUsage, Is
  <2>2. /\ block \in DOMAIN blocks /\ block.off # 0 /\ fragments = <<block>>
    <3>1. block \in DOMAIN blocks
      BY <2>1, Sizes DEF Header, ZeroHeader
    <3> QED
      BY <2>1, <3>1 DEF UsesInv, CallersBlock, FreeingSmall, PagesInv
  <2>3. ~FirstPageLost /\ pc \notin Crashes /\ pc' = "idle"
        /\ ~OpeningPage /\ ~OpeningPage'
    BY <2>1, <2>2 DEF FirstPageLost, FreeingSmall, Crashes, Return, OpeningPage
  <2>4. first_page_ptr # nullptr
    BY <2>1 DEF PagesInv, Is
  <2>5. first_fragment_list_header # first_page_ptr /\ (OnFirstPage \/ FirstPageLeft)
    BY <2>3, <2>4 DEF PagesInv
  <2>6. /\ first_page_ptr \in Page /\ Is(first_page_ptr, "norm")
    BY <2>5 DEF OnFirstPage, OnePage, FirstPageLeft, Is
  <2>7. page_hdr'[first_page_ptr].next_page = page_hdr[first_page_ptr].next_page
    BY <2>1, <2>6 DEF IInv, TypeOK, PageHeader
  <2>8. CASE ~Emptied(p) \/ current_page # first_page_ptr
    <3>1. /\ \A q \in Page : mapped'[q] = "norm" => mapped[q] = "norm"
          /\ mapped'[first_page_ptr] = mapped[first_page_ptr]
      BY <2>1, <2>6, <2>8 DEF Unmap, IInv, TypeOK
    <3> QED
      BY <2>1, <2>3, <2>4, <2>5, <2>6, <2>7, <3>1, PagesKept DEF arena, frags, Is
  <2>9. CASE Emptied(p) /\ current_page = first_page_ptr
    <3>1. \A q \in Page : ~Is(q, "norm")'
      BY <2>1, <2>3, <2>5, <2>9 DEF OnFirstPage, FirstPageLeft, Unmap, Is, IInv, TypeOK
    <3>2. FirstPageLost'
      BY <2>1, <2>2, <2>3, <2>9, <3>1
      DEF FirstPageLost, arena, frags, SmallCall, FreeingSmall
    <3> QED
      BY <2>1, <2>3, <2>4, <2>5, <3>1, <3>2 DEF PagesInv, arena, frags
  <2> QED
    BY <2>8, <2>9
<1> QED
  BY <1>1, <1>2

(* An insertion into the list leaves the block alone on it. *)
LEMMA InsertedAlone ==
  ASSUME IInv, Is(first_fragment_list_header, "frag"),
         \A n \in ComparedWith : Readable(fragments[n]), NEW size
  PROVE  Ordered(size) = <<block>>
<1>1. Len(fragments) = 1 /\ ComparedWith = {1}
  BY DEF IInv, ListHasOne, ComparedWith, Is
<1>2. fragments[1] \in DOMAIN blocks /\ blocks[fragments[1]].size > 0
  BY <1>1 DEF IInv, ListHasOne, HeadersPositive
<1> QED
  BY <1>1, <1>2 DEF Ordered, Header

LEMMA PagesInsertFragment ==
  ASSUME IInv, UsesInv, PagesInv, InsertFragment
  PROVE  PagesInv'
<1>0. /\ pc = "insert_fragment" /\ pc \notin Crashes
      /\ CalledByMalloc <=> OpeningPage
  BY DEF InsertFragment, Crashes, CalledByMalloc, OpeningPage
<1>1. ASSUME NEW q, Crash(Fault(q)) PROVE PagesInv'
  BY <1>1, PagesCrash DEF Fault, Crashes
<1>2. CASE Crash("wild")
  BY <1>2, PagesCrash DEF Crashes
<1>3. ASSUME Inserted, UNCHANGED call
      PROVE  /\ OpeningPage' <=> OpeningPage
             /\ next_page_ptr' = next_page_ptr /\ block' = block
             /\ pc' = IF OpeningPage THEN "link_page" ELSE "drop_usage"
  BY <1>0, <1>3 DEF Inserted, OpeningPage, CalledByMalloc, call
<1>4. CASE Header(block).size = 0 /\ Inserted
           /\ UNCHANGED <<memory, arena, frags, call, client>>
  <2>1. block \notin DOMAIN blocks
    BY <1>4 DEF IInv, HeadersPositive, Header
  <2>2. FirstPageLost => ~OpeningPage /\ block.off = 0
    BY <1>0 DEF FirstPageLost, FreeingSmall
  <2>3. first_page_ptr # nullptr => first_fragment_list_header # first_page_ptr
    BY <1>0 DEF PagesInv
  <2> QED
    BY <1>0, <1>3, <1>4, <2>1, <2>2, <2>3, PagesKept
    DEF memory, arena, frags, Is, SmallCall
<1>5. ASSUME Header(block).size # 0
      PROVE  /\ block \in DOMAIN blocks /\ ~FirstPageLost /\ first_page_ptr # nullptr
             /\ first_page_ptr \in Page /\ Is(first_page_ptr, "norm")
             /\ first_fragment_list_header # first_page_ptr
  <2>1. block \in DOMAIN blocks
    BY <1>5 DEF Header, ZeroHeader
  <2>2. first_page_ptr # nullptr
    BY <1>0, <2>1 DEF IInv, BeforeFirstPage, CallOK
  <2>3. ~FirstPageLost
    BY <1>0, <2>1 DEF FirstPageLost, UsesInv, CallersBlock, FreeingSmall
  <2> QED
    BY <1>0, <2>1, <2>2, <2>3 DEF PagesInv, OnFirstPage, OnePage, FirstPageLeft, Is
<1>6. ASSUME Header(block).size # 0, Inserted,
             UNCHANGED <<page_hdr, arena, call, client>>,
             \A q \in Page : mapped'[q] = "norm" <=> mapped[q] = "norm",
             first_fragment_list_header' # first_page_ptr, fragments' = <<block>>
      PROVE  PagesInv'
  BY <1>0, <1>3, <1>5, <1>6, PagesKept DEF arena, Is
<1>7. CASE /\ Header(block).size # 0 /\ CalledByMalloc /\ pc' = "undo_open_page"
           /\ first_fragment_list_header' = ErrPtr
           /\ UNCHANGED call /\ UNCHANGED <<memory, arena>>
  <2>1. OpeningPage' /\ next_page_ptr' = next_page_ptr /\ ErrPtr \notin Page
    BY <1>7, Sizes DEF OpeningPage, call
  <2> QED
    BY <1>0, <1>5, <1>7, <2>1, PagesKept DEF memory, arena, Is
<1>8. CASE /\ Header(block).size # 0 /\ ~CalledByMalloc /\ Return("error")
           /\ first_fragment_list_header' = ErrPtr /\ UNCHANGED <<memory, arena>>
  <2>1. ~OpeningPage /\ ~OpeningPage' /\ pc' = "idle" /\ ErrPtr \notin Page
    BY <1>0, <1>8, Sizes DEF OpeningPage, Return
  <2> QED
    BY <1>5, <1>8, <2>1, <1>0, PagesKept DEF memory, arena, Is
<1>9. ASSUME Header(block).size # 0, NEW p \in Page, CanMap(p, 1),
             mapped' = MapAs(p, 1, "frag"), first_fragment_list_header' = p,
             fragments' = <<block>>, Inserted,
             UNCHANGED <<page_hdr, arena, call, client>>
      PROVE  PagesInv'
  <2>1. \A q \in p..(p + 1 - 1) : mapped[q] = "none"
    BY <1>9 DEF CanMap
  <2>2. mapped[p] = "none" /\ \A q \in Page : mapped'[q] = "norm" <=> mapped[q] = "norm"
    BY <1>9, <2>1, Sizes DEF MapAs
  <2>3. p # first_page_ptr
    BY <1>5, <1>9, <2>2 DEF Is
  <2> QED
    BY <1>6, <1>9, <2>2, <2>3
<1>10. CASE /\ Header(block).size # 0 /\ Is(first_fragment_list_header, "frag")
            /\ \A n \in ComparedWith : Readable(fragments[n])
            /\ fragments' = Ordered(Header(block).size) /\ Inserted
            /\ UNCHANGED <<mapped, page_hdr, arena, first_fragment_list_header,
                           call, client>>
  BY <1>5, <1>6, <1>10, InsertedAlone
<1> QED
  BY <1>1, <1>2, <1>4, <1>7, <1>8, <1>9, <1>10 DEF InsertFragment

LEMMA PagesInvStep ==
  ASSUME PHInv, IInv, UsesInv, PagesInv, [Moves]_phvars
  PROVE  PagesInv'
<1>1. Step => PagesInv'
  BY PagesFirstSetup, PagesFindAvailableFragment, PagesNoGoodFragments,
     PagesOpenPage, PagesUndoOpenPage, PagesLinkPage, PagesFixBlockHeader,
     PagesLargeBro, PagesLargeFreeBro, PagesDropUsage, PagesInsertFragment,
     PagesCrash
  DEF Step, ClientWrites, Crashes
<1> QED
  BY <1>1, HeapMoves, PagesUnchanged, PagesMallocCall, PagesFreeCall

(***************************************************************************)
(* The blocks of the first page lie in order.                              *)
(***************************************************************************)

LEMMA TakenHere ==
  ASSUME TypeOK, InOrder, NEW a \in Taken
  PROVE  /\ a \in DOMAIN blocks /\ a.page = current_page
         /\ a.off \in Nat /\ blocks[a].size \in Nat
         /\ End(a) \in Nat /\ End(a) > a.off
<1>1. a \in DOMAIN blocks /\ a.page = current_page
  BY DEF Taken, InOrder, SmallHeaders, Listed, InHand
<1>2. a.off \in Nat /\ blocks[a].size \in Nat
  BY <1>1 DEF TypeOK, BlockHeader
<1> QED
  BY <1>1, <1>2 DEF End

(* A step that keeps the headers of the page and the current block, takes  *)
(* no block, and lists none.                                               *)
HeadersKept ==
  \A a \in DOMAIN blocks : a.page = current_page =>
    a \in DOMAIN blocks' /\ blocks'[a] = blocks[a]

LEMMA OrderQuiet ==
  ASSUME TypeOK, InOrder, HeadersKept, pc \notin Crashes,
         UNCHANGED <<current_page, current_block>>,
         Small' \subseteq Small, \A h \in Small' : live'[h] = live[h],
         fragments' = fragments \/ fragments' = <<>>,
         pc' \in Crashes \/ \A h \in Small' : (Dropping(h)' <=> Dropping(h)),
         pc' # "fix_block_header", ~(pc' = "insert_fragment" /\ OpeningPage')
  PROVE  InOrder'
<1>1. \A h \in Small' : Address(h)' = Address(h)
  BY DEF Address
<1>2. \A n \in 1..Len(fragments') : n \in 1..Len(fragments) /\ fragments'[n] = fragments[n]
  OBVIOUS
<1>3. Taken' \subseteq Taken
  <2> SUFFICES ASSUME NEW a \in Taken' PROVE a \in Taken
    OBVIOUS
  <2>1. \/ \E h \in Small' : a = Address(h)'
        \/ \E n \in 1..Len(fragments') : a = fragments'[n]
    BY DEF Taken
  <2> QED
    BY <1>1, <1>2, <2>1, IsTaken
<1>4. \A a \in Taken : a \in DOMAIN blocks' /\ blocks'[a] = blocks[a] /\ End(a)' = End(a)
  BY TakenHere DEF HeadersKept, End
<1>5. SmallHeaders'
  <2>1. \A h \in Small' : /\ Address(h) \in DOMAIN blocks /\ Address(h).page = current_page
                          /\ blocks[Address(h)].size = live[h].size
                          /\ blocks[Address(h)].type = IF Dropping(h) THEN "FREE" ELSE "USED"
    BY DEF InOrder, SmallHeaders
  <2>2. \A h \in Small' : Address(h) \in DOMAIN blocks' /\ blocks'[Address(h)] = blocks[Address(h)]
    BY <2>1 DEF HeadersKept
  <2>3. \A g, h \in Small' : Address(g) = Address(h) => g = h
    BY DEF InOrder, SmallHeaders
  <2> QED
    BY <1>1, <2>1, <2>2, <2>3 DEF SmallHeaders
<1>6. Listed'
  <2>1. \A n \in 1..Len(fragments') :
          /\ fragments[n] \in DOMAIN blocks /\ fragments[n].page = current_page
          /\ \A h \in Small' : Address(h) = fragments[n] => Dropping(h)
    BY <1>2 DEF InOrder, Listed
  <2>2. \A n \in 1..Len(fragments') : fragments[n] \in DOMAIN blocks'
    BY <2>1 DEF HeadersKept
  <2> QED
    BY <1>1, <1>2, <2>1, <2>2 DEF Listed
<1>7. InHand'
  BY DEF InHand
<1>8. CurrentBlock' = CurrentBlock
  BY DEF CurrentBlock
<1>9. Tiled' /\ CurrentIsLast'
  BY <1>3, <1>4, <1>8 DEF InOrder, Tiled, CurrentIsLast
<1> QED
  BY <1>5, <1>6, <1>7, <1>9 DEF InOrder

(* Where the next block begins, no block in use and none on the list does, *)
(* and the others end before.                                              *)
LEMMA NextInOrder ==
  ASSUME IInv, InOrder, first_page_ptr # nullptr, pc \notin Crashes,
         pc # "drop_usage", \A n \in 1..Len(fragments) : fragments[n] # CurrentBlock
  PROVE  /\ NextBlock \in Nat /\ NextBlock >= current_block
         /\ current_block >= PHEADERSIZE /\ current_block \in Nat
         /\ NextAddress.page = current_page /\ NextAddress.off = NextBlock
         /\ \A a \in Taken : a # NextAddress /\ End(a) <= NextBlock
         /\ \A h \in Small : Address(h) # NextAddress
         /\ \A n \in 1..Len(fragments) : fragments[n] # NextAddress
<1>1. /\ NextBlock \in Nat /\ NextBlock >= current_block /\ current_block \in Nat
      /\ CurrentBlock.page = current_page /\ CurrentBlock.off = current_block
      /\ current_block >= PHEADERSIZE
  BY NextBlockBounds DEF IInv, TypeOK, AfterFirstPage
<1>2. NextAddress.page = current_page /\ NextAddress.off = NextBlock
  BY DEF NextAddress, At
<1>3. ASSUME NEW a \in Taken
      PROVE  a # NextAddress /\ End(a) <= NextBlock
  <2>1. /\ a \in DOMAIN blocks /\ a.page = current_page /\ a.off \in Nat
        /\ End(a) \in Nat /\ End(a) > a.off
    BY TakenHere DEF IInv
  <2>2. CASE a # CurrentBlock
    BY <1>1, <1>2, <2>1, <2>2 DEF InOrder, CurrentIsLast
  <2>3. CASE a = CurrentBlock
    <3>1. PICK h \in Small : a = Address(h)
      BY <2>3 DEF Taken
    <3>2. Header(CurrentBlock) = blocks[a] /\ blocks[a].type = "USED"
      BY <2>1, <2>3, <3>1 DEF InOrder, SmallHeaders, Dropping, Header
    <3>3. NextBlock = End(a)
      BY <1>1, <2>1, <2>3, <3>2 DEF NextBlock, End, IInv, TypeOK, BlockHeader
    <3> QED
      BY <1>1, <1>2, <2>1, <3>3
  <2> QED
    BY <2>2, <2>3
<1> QED
  BY <1>1, <1>2, <1>3, IsTaken

OrderNow == IInv /\ UsesInv /\ PagesInv /\ OnePage /\ InOrder

LEMMA PageNow ==
  ASSUME OrderNow, pc \notin Crashes
  PROVE  /\ current_page \in Page /\ mapped[current_page] = "norm"
         /\ first_page_ptr # nullptr /\ current_page = first_page_ptr
         /\ first_fragment_list_header # current_page
         /\ OpeningPage => next_page_ptr # current_page
         /\ \A p \in Page : Is(p, "norm") =>
              p = current_page \/ (OpeningPage /\ p = next_page_ptr)
<1>1. current_page \in Page /\ mapped[current_page] = "norm" /\ current_page = first_page_ptr
  BY DEF OrderNow, OnePage, Is
<1>2. first_page_ptr # nullptr
  BY <1>1, Sizes
<1>3. OnFirstPage
  BY <1>1, <1>2 DEF OrderNow, PagesInv, FirstPageLeft, FirstPageLost, Is
<1> QED
  BY <1>1, <1>2, <1>3 DEF OrderNow, PagesInv, OnFirstPage

LEMMA KeptBySame == blocks' = blocks => HeadersKept
BY DEF HeadersKept

LEMMA KeptByUnmap ==
  ASSUME NEW p, p # current_page, Unmap(p)
  PROVE  HeadersKept
BY DEF HeadersKept, Unmap, WithoutPage

LEMMA SameSmall ==
  ASSUME live' = live
  PROVE  /\ Live' = Live /\ Small' = Small
         /\ \A h \in Handles : Address(h)' = Address(h)
BY DEF Live, Small, Address

(* A step that keeps the client's blocks and the page. *)
LEMMA OrderIdle ==
  ASSUME OrderNow, HeadersKept, pc \notin Crashes \cup {"drop_usage"},
         UNCHANGED <<current_page, current_block, live>>,
         fragments' = fragments \/ fragments' = <<>>,
         pc' \notin {"drop_usage", "fix_block_header"},
         ~(pc' = "insert_fragment" /\ OpeningPage')
  PROVE  InOrder'
<1>1. Small' = Small
  BY SameSmall
<1>2. TypeOK /\ InOrder
  BY DEF OrderNow, IInv
<1> QED
  BY <1>1, <1>2, OrderQuiet DEF Dropping

LEMMA OrderCrash ==
  ASSUME OrderNow, pc \notin Crashes, NEW how \in Crashes, Crash(how)
  PROVE  InOrder'
<1>1. /\ UNCHANGED <<blocks, current_page, current_block, live, fragments>>
      /\ pc' \in Crashes
  BY DEF Crash, memory, arena, frags, client
<1>2. Small' = Small
  BY <1>1, SameSmall
<1> QED
  BY <1>1, <1>2, KeptBySame, OrderQuiet DEF OrderNow, IInv, Crashes

LEMMA OrderMallocCall ==
  ASSUME OrderNow, NEW h \in Handles, NEW n \in Nat, MallocCall(h, n)
  PROVE  InOrder'
<1>1. UNCHANGED <<memory, arena, frags, live>> /\ pc = "idle"
      /\ pc' \in {"idle", "large_bro", "first_setup"}
  BY DEF MallocCall, Return, client
<1> QED
  BY <1>1, KeptBySame, OrderIdle DEF memory, arena, frags, Crashes

LEMMA OrderFreeCall ==
  ASSUME OrderNow, NEW h \in Handles, FreeCall(h)
  PROVE  InOrder'
<1>1. CASE Crash(Fault(live[h].page))
  <2>1. pc = "idle" /\ Fault(live[h].page) \in Crashes
    BY DEF FreeCall, Fault, Crashes
  <2> QED
    BY <1>1, <2>1, OrderCrash DEF Crashes
<1>2. CASE ~Crash(Fault(live[h].page))
  <2>1. UNCHANGED <<memory, arena, frags, live>> /\ pc = "idle"
        /\ pc' \in {"large_free_bro", "insert_fragment"}
        /\ next_page_ptr' = next_page_ptr /\ next_page_ptr = nullptr
    BY <1>2 DEF FreeCall, client, OrderNow, IInv, CallOK
  <2> QED
    BY <2>1, KeptBySame, OrderIdle DEF memory, arena, frags, Crashes, OpeningPage
<1> QED
  BY <1>1, <1>2

LEMMA OrderFirstSetup ==
  ASSUME OrderNow, FirstSetup
  PROVE  InOrder'
<1>1. first_page_ptr # nullptr /\ pc = "first_setup" /\ pc \notin Crashes
  BY PageNow DEF FirstSetup, Crashes
<1>2. UNCHANGED <<memory, arena, frags, live>> /\ pc' = "find_available_fragment"
  BY <1>1 DEF FirstSetup, client
<1> QED
  BY <1>1, <1>2, KeptBySame, OrderIdle DEF memory, arena, frags

LEMMA OrderFindAvailableFragment ==
  ASSUME OrderNow, FindAvailableFragment
  PROVE  InOrder'
<1>1. pc = "find_available_fragment" /\ pc \notin Crashes
  BY DEF FindAvailableFragment, Crashes
<1>2. ASSUME NEW n \in 1..Len(fragments), Crash(Fault(fragments[n].page))
      PROVE  InOrder'
  BY <1>1, <1>2, OrderCrash DEF Fault, Crashes
<1>3. CASE pc' = "no_good_fragments" /\ UNCHANGED <<memory, arena, frags, call, client>>
  BY <1>1, <1>3, KeptBySame, OrderIdle DEF memory, arena, frags, client
<1>4. ASSUME NEW n \in 1..Len(fragments), BigEnough(n), block' = fragments[n],
             RemoveFragment(n), pc' = "fix_block_header",
             UNCHANGED <<arena, handle, req, next_page_ptr, client>>
      PROVE  InOrder'
  <2>1. /\ n = 1 /\ Len(fragments) = 1 /\ first_fragment_list_header \in Page
        /\ fragments[n] \in DOMAIN blocks /\ fragments[n].page = current_page
        /\ \A h \in Small : Address(h) # fragments[n]
    <3>1. n = 1 /\ Len(fragments) = 1 /\ first_fragment_list_header \in Page
      BY DEF OrderNow, IInv, ListHasOne
    <3> QED
      BY <1>1, <3>1 DEF OrderNow, InOrder, Listed, Dropping
  <2>2. fragments' = <<>> /\ Unmap(first_fragment_list_header)
    BY <1>4, <2>1 DEF RemoveFragment, RemoveNode, OrderNow, IInv, TypeOK
  <2>3. HeadersKept
    BY <1>1, <2>2, PageNow, KeptByUnmap
  <2>4. UNCHANGED <<current_page, current_block, live>> /\ CurrentBlock' = CurrentBlock
    BY <1>4 DEF arena, client, CurrentBlock
  <2>5. Small' = Small /\ \A h \in Handles : Address(h)' = Address(h)
    BY <2>4, SameSmall
  <2>6. Taken' \subseteq Taken
    <3> SUFFICES ASSUME NEW a \in Taken' PROVE a \in Taken
      OBVIOUS
    <3>1. a = fragments[n] \/ \E h \in Small' : a = Address(h)'
      BY <1>4, <2>2 DEF Taken
    <3> QED
      BY <2>5, <3>1, IsTaken DEF Small, Live
  <2>7. \A a \in Taken : a \in DOMAIN blocks' /\ blocks'[a] = blocks[a] /\ End(a)' = End(a)
    BY <2>3, TakenHere DEF HeadersKept, End, OrderNow, IInv
  <2>8. Tiled' /\ CurrentIsLast'
    BY <2>4, <2>6, <2>7 DEF OrderNow, InOrder, Tiled, CurrentIsLast
  <2>9. SmallHeaders'
    <3>1. \A h \in Small : /\ Address(h) \in DOMAIN blocks /\ Address(h).page = current_page
                           /\ blocks[Address(h)].size = live[h].size
                           /\ blocks[Address(h)].type = "USED"
      BY <1>1 DEF OrderNow, InOrder, SmallHeaders, Dropping
    <3>2. \A h \in Small : Address(h) \in DOMAIN blocks' /\ blocks'[Address(h)] = blocks[Address(h)]
      BY <2>3, <3>1 DEF HeadersKept
    <3>3. \A g, h \in Small : Address(g) = Address(h) => g = h
      BY DEF OrderNow, InOrder, SmallHeaders
    <3>4. \A h \in Small : h \in Handles
      BY DEF Small, Live
    <3> QED
      BY <1>4, <2>4, <2>5, <3>1, <3>2, <3>3, <3>4 DEF SmallHeaders, Dropping
  <2>10. Listed'
    BY <2>2 DEF Listed
  <2>11. InHand'
    <3>1. \A h \in Small' : Address(h)' # block'
      BY <1>4, <2>1, <2>5 DEF Small, Live
    <3>2. block' \in DOMAIN blocks' /\ blocks'[block'] = blocks[fragments[n]]
      BY <1>4, <2>1, <2>3 DEF HeadersKept
    <3>3. req' <= blocks'[block'].size
      BY <1>4, <2>1, <3>2 DEF BigEnough, Header, OrderNow, IInv, TypeOK, BlockHeader
    <3> QED
      BY <1>4, <2>1, <2>2, <2>4, <3>1, <3>2, <3>3 DEF InHand
  <2> QED
    BY <2>8, <2>9, <2>10, <2>11 DEF InOrder
<1> QED
  BY <1>2, <1>3, <1>4 DEF FindAvailableFragment

NotListed == \A n \in 1..Len(fragments) : fragments[n] # CurrentBlock

LEMMA OrderNoGoodFragments ==
  ASSUME OrderNow, NotListed, NoGoodFragments
  PROVE  InOrder'
<1>1. pc = "no_good_fragments" /\ pc \notin Crashes
  BY DEF NoGoodFragments, Crashes
<1>2. first_page_ptr # nullptr
  BY <1>1, PageNow
<1>3. CASE Crash(Fault(current_page))
  BY <1>1, <1>3, OrderCrash DEF Fault, Crashes
<1>4. CASE pc' = "open_page" /\ UNCHANGED <<blocks, arena, frags, client>>
  BY <1>1, <1>4, KeptBySame, OrderIdle DEF arena, frags, client
<1>5. CASE Return("error") /\ UNCHANGED <<memory, arena, frags, live>>
  BY <1>1, <1>5, KeptBySame, OrderIdle DEF memory, arena, frags, Return
<1>6. CASE /\ current_block' = NextBlock /\ block' = NextAddress
           /\ pc' = "fix_block_header"
           /\ UNCHANGED <<blocks, current_page, frags, req, next_page_ptr, live>>
  <2>1. CurrentBlock' = NextAddress /\ fragments' = fragments
    BY <1>6 DEF CurrentBlock, NextAddress, frags
  <2>2. /\ \A a \in Taken : a # NextAddress /\ End(a) <= NextBlock
        /\ \A h \in Small : Address(h) # NextAddress
        /\ \A n \in 1..Len(fragments) : fragments[n] # NextAddress
        /\ NextAddress.page = current_page
    BY <1>1, <1>2, NextInOrder DEF OrderNow, NotListed
  <2>3. Small' = Small /\ \A h \in Handles : Address(h)' = Address(h)
    BY <1>6, SameSmall
  <2>4. Taken' \subseteq Taken
    <3> SUFFICES ASSUME NEW a \in Taken' PROVE a \in Taken
      OBVIOUS
    <3>1. \/ \E h \in Small' : a = Address(h)'
          \/ \E n \in 1..Len(fragments) : a = fragments[n]
      BY <1>6, <2>1 DEF Taken
    <3> QED
      BY <2>3, <3>1, IsTaken DEF Small, Live
  <2>5. Tiled' /\ CurrentIsLast'
    BY <1>6, <2>1, <2>2, <2>4 DEF OrderNow, InOrder, Tiled, CurrentIsLast, End
  <2>6. \A h \in Small : h \in Handles
    BY DEF Small, Live
  <2>7. SmallHeaders' /\ Listed'
    BY <1>1, <1>6, <2>1, <2>3, <2>6
    DEF OrderNow, InOrder, SmallHeaders, Listed, Dropping, Crashes
  <2>8. InHand'
    BY <1>6, <2>1, <2>2, <2>3, <2>6 DEF InHand
  <2> QED
    BY <2>5, <2>7, <2>8 DEF InOrder
<1> QED
  BY <1>3, <1>4, <1>5, <1>6
  DEF NoGoodFragments, NextAddress, memory, client

(* A header that is not one of a block that is taken. *)
LEMMA OtherHeader ==
  ASSUME TypeOK, InOrder, NEW b, b \notin Taken, NEW hdr, blocks' = WithHeader(b, hdr)
  PROVE  /\ b \in DOMAIN blocks' /\ blocks'[b] = hdr
         /\ \A a \in Taken : a \in DOMAIN blocks' /\ blocks'[a] = blocks[a]
                             /\ End(a)' = End(a)
<1>1. b \in DOMAIN blocks' /\ blocks'[b] = hdr
  BY DEF WithHeader
<1>2. ASSUME NEW a \in Taken
      PROVE  a \in DOMAIN blocks' /\ blocks'[a] = blocks[a]
  <2>1. a \in DOMAIN blocks /\ a # b
    BY TakenHere
  <2> QED
    BY <2>1 DEF WithHeader
<1> QED
  BY <1>1, <1>2 DEF End

LEMMA OrderOpenPage ==
  ASSUME OrderNow, NotListed, OpenPage
  PROVE  InOrder'
<1>1. pc = "open_page" /\ pc \notin Crashes
  BY DEF OpenPage, Crashes
<1>2. first_page_ptr # nullptr
  BY <1>1, PageNow
<1>3. CASE Crash(Fault(current_page)) \/ Crash(WritePast(At(current_page, NextBlock)))
  BY <1>1, <1>3, OrderCrash DEF Fault, WritePast, Crashes
<1>4. ASSUME NEW hdr, blocks' = WithHeader(NextAddress, hdr),
             current_block' = NextBlock, block' = NextAddress,
             pc' = "insert_fragment",
             UNCHANGED <<current_page, frags, req, next_page_ptr, live>>
      PROVE  InOrder'
  <2>1. CurrentBlock' = NextAddress /\ fragments' = fragments
    BY <1>4 DEF CurrentBlock, NextAddress, frags
  <2>2. /\ \A a \in Taken : a # NextAddress /\ End(a) <= NextBlock
        /\ \A h \in Small : Address(h) # NextAddress
        /\ \A n \in 1..Len(fragments) : fragments[n] # NextAddress
        /\ NextAddress.page = current_page
    BY <1>1, <1>2, NextInOrder DEF OrderNow, NotListed
  <2>3. Small' = Small /\ \A h \in Handles : Address(h)' = Address(h)
    BY <1>4, SameSmall
  <2>4. /\ NextAddress \in DOMAIN blocks'
        /\ \A a \in Taken : a \in DOMAIN blocks' /\ blocks'[a] = blocks[a]
                            /\ End(a)' = End(a)
    BY <1>4, <2>2, OtherHeader DEF OrderNow, IInv
  <2>5. Taken' \subseteq Taken
    <3> SUFFICES ASSUME NEW a \in Taken' PROVE a \in Taken
      OBVIOUS
    <3>1. \/ \E h \in Small' : a = Address(h)'
          \/ \E n \in 1..Len(fragments) : a = fragments[n]
      BY <1>4, <2>1 DEF Taken
    <3> QED
      BY <2>3, <3>1, IsTaken DEF Small, Live
  <2>6. Tiled' /\ CurrentIsLast'
    BY <1>4, <2>1, <2>2, <2>4, <2>5 DEF OrderNow, InOrder, Tiled, CurrentIsLast
  <2>7. \A h \in Small : h \in Handles
    BY DEF Small, Live
  <2>8. SmallHeaders' /\ Listed'
    <3>1. \A h \in Small : Address(h) \in Taken
      BY IsTaken
    <3>2. \A n \in 1..Len(fragments) : fragments[n] \in Taken
      BY IsTaken
    <3> QED
      BY <1>1, <1>4, <2>1, <2>3, <2>4, <2>7, <3>1, <3>2
      DEF OrderNow, InOrder, SmallHeaders, Listed, Dropping, Crashes
  <2>9. InHand'
    BY <1>4, <2>1, <2>2, <2>3, <2>7 DEF InHand
  <2> QED
    BY <2>6, <2>8, <2>9 DEF InOrder
<1> QED
  BY <1>3, <1>4 DEF OpenPage, NextAddress, client

LEMMA OrderUndoOpenPage ==
  ASSUME OrderNow, UndoOpenPage
  PROVE  InOrder'
<1>1. /\ pc = "undo_open_page" /\ pc \notin Crashes /\ OpeningPage
      /\ pc' = "idle" /\ Unmap(next_page_ptr) /\ UNCHANGED <<arena, frags, live>>
  BY DEF UndoOpenPage, Crashes, OpeningPage, Return
<1>2. HeadersKept
  BY <1>1, PageNow, KeptByUnmap
<1> QED
  BY <1>1, <1>2, OrderIdle DEF arena, frags

(* The header of the block that malloc hands out is written. *)
LEMMA OrderFixed ==
  ASSUME OrderNow, pc = "fix_block_header",
         NEW x, x = handle, NEW b, b = block, NEW hdr, NEW new,
         blocks' = WithHeader(block, hdr), hdr.type = "USED", hdr.size = req,
         live' = [live EXCEPT ![handle] = new],
         new.page = block.page, new.off = block.off, new.size = req,
         pc' = "idle", UNCHANGED <<current_page, current_block, fragments>>
  PROVE  InOrder'
<1>1. /\ x \in Handles /\ live[x] = NoBlock
      /\ b.off >= PHEADERSIZE /\ b \in Address0 /\ req \in Nat
      /\ current_page \in Page /\ current_block \in Nat
      /\ live \in [Handles -> [page : Page \cup {nullptr}, off : Nat, size : Nat]]
  BY PageNow DEF OrderNow, UsesInv, CallersBlock, InMalloc, SmallCall, Crashes,
                 IInv, CallOK, TypeOK
<1>2. TypeOK /\ InOrder
  BY DEF OrderNow, IInv
<1>3. /\ b.page = current_page
      /\ \A h \in Small : Address(h) # b
      /\ \A n \in 1..Len(fragments) : fragments[n] # b
      /\ b # CurrentBlock =>
           b \in DOMAIN blocks /\ req <= blocks[b].size
  BY <1>2 DEF InOrder, InHand
<1>4. /\ b \in DOMAIN blocks' /\ blocks'[b] = hdr
      /\ \A a \in DOMAIN blocks : a # b => blocks'[a] = blocks[a]
      /\ \A a \in DOMAIN blocks : a \in DOMAIN blocks'
  BY DEF WithHeader
<1>5. /\ live'[x] = new
      /\ \A h \in Handles : h # x => live'[h] = live[h]
  BY <1>1
<1>6. Address(x)' = b
  BY <1>1, <1>5 DEF Address, At, Address0
<1>7. \A h \in Handles : h # x => Address(h)' = Address(h)
  BY <1>5 DEF Address
<1>8. /\ Small' = Small \cup {x} /\ x \notin Small
      /\ \A h \in Small : h \in Handles /\ h # x
  <2>1. new # NoBlock /\ new.off # 0
    BY <1>1 DEF NoBlock
  <2>2. NoBlock.off = 0
    BY DEF NoBlock
  <2> QED
    BY <1>1, <1>5, <2>1, <2>2 DEF Small, Live
<1>9. CurrentBlock' = CurrentBlock
  BY DEF CurrentBlock
<1>10. ASSUME NEW h \in Small
       PROVE  /\ Address(h) \in DOMAIN blocks /\ Address(h).page = current_page
              /\ blocks[Address(h)].size = live[h].size
              /\ blocks[Address(h)].type = "USED"
              /\ Address(h)' = Address(h) /\ Address(h) # b /\ live'[h] = live[h]
              /\ blocks'[Address(h)] = blocks[Address(h)]
  <2>1. /\ Address(h) \in DOMAIN blocks /\ Address(h).page = current_page
        /\ blocks[Address(h)].size = live[h].size
        /\ blocks[Address(h)].type = "USED"
    BY <1>2 DEF InOrder, SmallHeaders, Dropping, Crashes
  <2> QED
    BY <1>3, <1>4, <1>5, <1>7, <1>8, <2>1
<1>11. SmallHeaders'
  <2>1. \A g, h \in Small : Address(g) = Address(h) => g = h
    BY <1>2 DEF InOrder, SmallHeaders
  <2>2. ASSUME NEW g \in Small', NEW h \in Small', Address(g)' = Address(h)'
        PROVE  g = h
    <3>1. CASE g = x /\ h = x
      BY <3>1
    <3>2. CASE g \in Small /\ h \in Small
      BY <1>10, <2>1, <2>2, <3>2
    <3>3. CASE g = x /\ h \in Small
      BY <1>6, <1>10, <2>2, <3>3
    <3>4. CASE g \in Small /\ h = x
      BY <1>6, <1>10, <2>2, <3>4
    <3> QED
      BY <1>8, <3>1, <3>2, <3>3, <3>4
  <2>3. ASSUME NEW h \in Small'
        PROVE  /\ Address(h)' \in DOMAIN blocks' /\ Address(h)'.page = current_page
               /\ blocks'[Address(h)'].size = live'[h].size
               /\ blocks'[Address(h)'].type = "USED"
    <3>1. CASE h = x
      BY <1>3, <1>4, <1>5, <1>6, <3>1
    <3>2. CASE h \in Small
      BY <1>4, <1>10, <3>2
    <3> QED
      BY <1>8, <3>1, <3>2
  <2>4. \A h : ~Dropping(h)'
    BY DEF Dropping
  <2> QED
    BY <2>2, <2>3, <2>4 DEF SmallHeaders
<1>12. Listed'
  <2>1. \A n \in 1..Len(fragments) :
          /\ fragments[n] \in DOMAIN blocks /\ fragments[n].page = current_page
          /\ \A h \in Small : Address(h) # fragments[n]
    BY <1>2 DEF InOrder, Listed, Dropping, Crashes
  <2>2. ASSUME NEW n \in 1..Len(fragments), NEW h \in Small'
        PROVE  Address(h)' # fragments[n]
    <3>1. CASE h = x
      BY <1>3, <1>6, <3>1
    <3>2. CASE h \in Small
      BY <1>10, <2>1, <3>2
    <3> QED
      BY <1>8, <3>1, <3>2
  <2> QED
    BY <1>4, <2>1, <2>2 DEF Listed
<1>13. InHand'
  BY DEF InHand
<1>14. ASSUME NEW a \in Taken' PROVE a \in Taken \/ a = b
  <2>1. \/ \E h \in Small' : a = Address(h)'
        \/ \E n \in 1..Len(fragments) : a = fragments[n]
    BY DEF Taken
  <2>2. ASSUME NEW h \in Small', a = Address(h)' PROVE a \in Taken \/ a = b
    BY <1>6, <1>8, <1>10, <2>2, IsTaken
  <2> QED
    BY <2>1, <2>2, IsTaken
<1>15. ASSUME NEW a \in Taken
       PROVE  /\ a \in DOMAIN blocks /\ End(a) \in Nat /\ a.off \in Nat
              /\ a # b => End(a)' = End(a)
  <2>1. a \in DOMAIN blocks /\ a.off \in Nat /\ End(a) \in Nat
    BY <1>2, TakenHere
  <2> QED
    BY <1>4, <2>1 DEF End
<1>16. End(b)' = b.off + BHEADERSIZE + req /\ End(b)' \in Nat
       /\ b.off \in Nat
  BY <1>1, <1>4 DEF End, Address0
<1>17. b # CurrentBlock => b \in Taken /\ End(b)' <= End(b)
  <2>1. b # CurrentBlock =>
          /\ b \in Taken /\ req <= blocks[b].size
          /\ blocks[b].size \in Nat
    BY <1>2, <1>3, IsTaken, TakenHere
  <2> QED
    BY <1>1, <1>16, <2>1 DEF End
<1>18. b = CurrentBlock => \A a \in Taken : a # b => End(a) <= b.off
  <2>1. CurrentBlock.off = current_block
    BY DEF CurrentBlock, At
  <2>2. \A a \in Taken : a.page = current_page
    BY <1>2, TakenHere
  <2> QED
    BY <1>2, <2>1, <2>2 DEF InOrder, CurrentIsLast
<1>19. \A a, c \in Taken : a.page = c.page /\ a # c => End(a) <= c.off \/ End(c) <= a.off
  BY <1>2 DEF InOrder, Tiled
<1>20. ASSUME NEW a \in Taken, a # b, a.page = b.page
       PROVE  End(a)' <= b.off \/ End(b)' <= a.off
  <2>1. CASE b = CurrentBlock
    BY <1>15, <1>18, <1>20, <2>1
  <2>2. CASE b # CurrentBlock
    <3>1. End(a) <= b.off \/ End(b) <= a.off
      BY <1>17, <1>19, <1>20, <2>2
    <3>2. End(a)' = End(a) /\ End(b)' <= End(b) /\ End(b) \in Nat /\ a.off \in Nat
      BY <1>15, <1>17, <1>20, <2>2
    <3> QED
      BY <1>16, <3>1, <3>2
  <2> QED
    BY <2>1, <2>2
<1>21. Tiled'
  <2> SUFFICES ASSUME NEW a \in Taken', NEW c \in Taken', a.page = c.page, a # c
               PROVE  End(a)' <= c.off \/ End(c)' <= a.off
    BY DEF Tiled
  <2>1. CASE a # b /\ c # b
    BY <1>14, <1>15, <1>19, <2>1
  <2>2. CASE a = b
    BY <1>14, <1>20, <2>2
  <2>3. CASE c = b
    BY <1>14, <1>20, <2>3
  <2> QED
    BY <2>1, <2>2, <2>3
<1>22. CurrentIsLast'
  <2> SUFFICES ASSUME NEW a \in Taken', a.page = current_page, a # CurrentBlock
               PROVE  End(a)' <= current_block
    BY <1>9 DEF CurrentIsLast
  <2>1. a \in Taken
    BY <1>14, <1>17
  <2>2. End(a) <= current_block
    BY <1>2, <2>1 DEF InOrder, CurrentIsLast
  <2>3. CASE a # b
    BY <1>15, <2>1, <2>2, <2>3
  <2>4. CASE a = b
    <3>1. End(b)' <= End(b) /\ End(b) <= current_block /\ End(b) \in Nat
      BY <1>15, <1>17, <2>1, <2>2, <2>4
    <3> QED
      BY <1>1, <1>16, <2>4, <3>1
  <2> QED
    BY <2>3, <2>4
<1> QED
  BY <1>11, <1>12, <1>13, <1>21, <1>22 DEF InOrder

LEMMA OrderFixBlockHeader ==
  ASSUME OrderNow, FixBlockHeader
  PROVE  InOrder'
<1>1. pc = "fix_block_header" /\ pc \notin Crashes
  BY DEF FixBlockHeader, Crashes
<1>2. CASE Crash(WritePast(block)) \/ Crash(Fault(current_page))
  BY <1>1, <1>2, OrderCrash DEF Fault, WritePast, Crashes
<1>3. CASE ~(Crash(WritePast(block)) \/ Crash(Fault(current_page)))
  <2>1. \E hdr : /\ blocks' = WithHeader(block, hdr)
                 /\ hdr.type = "USED" /\ hdr.size = req
    BY <1>3 DEF FixBlockHeader
  <2>2. \E new : /\ live' = [live EXCEPT ![handle] = new]
                 /\ new.page = block.page /\ new.off = block.off /\ new.size = req
    <3> DEFINE n == [page |-> block.page, off |-> block.off, size |-> req]
    <3>1. live' = [live EXCEPT ![handle] = n]
      BY <1>3 DEF FixBlockHeader
    <3>2. n.page = block.page /\ n.off = block.off /\ n.size = req
      OBVIOUS
    <3> HIDE DEF n
    <3> QED
      BY <3>1, <3>2
  <2>3. pc' = "idle" /\ UNCHANGED <<current_page, current_block, fragments>>
    BY <1>3 DEF FixBlockHeader, Return, frags
  <2> QED
    BY <1>1, <2>1, <2>2, <2>3, OrderFixed
<1> QED
  BY <1>2, <1>3

LEMMA OrderLargeBro ==
  ASSUME OrderNow, LargeBro
  PROVE  InOrder'
<1>1. /\ pc = "large_bro" /\ pc' = "idle" /\ UNCHANGED <<arena, frags>>
  BY DEF LargeBro, Return
<1>2. CASE UNCHANGED <<memory, live>>
  BY <1>1, <1>2, KeptBySame, OrderIdle DEF arena, frags, memory, Crashes
<1>3. ASSUME NEW p \in Page, CanMap(p, PagesFor(req)),
             NEW hdr, blocks' = WithHeader(At(p, 0), hdr),
             NEW new, new.off = 0, live' = [live EXCEPT ![handle] = new]
      PROVE  InOrder'
  <2>1. handle \in Handles /\ live[handle] = NoBlock /\ req \in Nat /\ req > 0
        /\ live \in [Handles -> [page : Page \cup {nullptr}, off : Nat, size : Nat]]
    BY <1>1 DEF OrderNow, UsesInv, CallersBlock, InMalloc, IInv, TypeOK, CallOK
  <2>2. p # current_page
    <3>1. PagesFor(req) # 0 /\ PagesFor(req) \in Nat
      BY <2>1, PagesHold, Sizes
    <3>2. p \in p..(p + PagesFor(req) - 1)
      BY <3>1, Sizes DEF Page
    <3> QED
      BY <1>1, <1>3, <3>2, PageNow DEF CanMap, Crashes
  <2>3. HeadersKept
    BY <1>3, <2>2 DEF HeadersKept, WithHeader, At
  <2>4. Small' = Small /\ \A h \in Small : live'[h] = live[h]
    BY <1>3, <2>1 DEF Small, Live, NoBlock
  <2> QED
    BY <1>1, <2>3, <2>4, OrderQuiet
    DEF OrderNow, IInv, Dropping, arena, frags, Crashes
<1>4. ASSUME NEW p \in Page, CanMap(p, PagesFor(req)),
             blocks' = WithHeader(At(p, 0), [type |-> "HUGE", size |-> req, page |-> p]),
             live' = [live EXCEPT ![handle] = [page |-> p, off |-> 0, size |-> req]]
      PROVE  InOrder'
  <2> DEFINE new == [page |-> p, off |-> 0, size |-> req]
  <2>1. new.off = 0 /\ live' = [live EXCEPT ![handle] = new]
    BY <1>4
  <2> HIDE DEF new
  <2> QED
    BY <1>3, <1>4, <2>1
<1> QED
  BY <1>2, <1>4 DEF LargeBro

LEMMA OrderLargeFreeBro ==
  ASSUME OrderNow, LargeFreeBro
  PROVE  InOrder'
<1>1. /\ pc = "large_free_bro" /\ pc' = "idle" /\ UNCHANGED <<arena, frags>>
      /\ Unmap(block.page) /\ live' = [live EXCEPT ![handle] = NoBlock]
  BY DEF LargeFreeBro, Return
<1>2. handle \in Live /\ live[handle].off = 0
  BY <1>1 DEF OrderNow, UsesInv, CallersBlock, Address, At
<1>3. live \in [Handles -> [page : Page \cup {nullptr}, off : Nat, size : Nat]]
  BY DEF OrderNow, IInv, TypeOK
<1>4. block.page # current_page
  BY <1>1, PageNow DEF OrderNow, PagesInv, Is, Crashes
<1>5. HeadersKept
  BY <1>1, <1>4, KeptByUnmap
<1>6. Small' \subseteq Small /\ \A h \in Small' : live'[h] = live[h]
  BY <1>1, <1>2, <1>3 DEF Small, Live
<1> QED
  BY <1>1, <1>5, <1>6, OrderQuiet
  DEF OrderNow, IInv, Dropping, arena, frags, Crashes

LEMMA OrderDropUsage ==
  ASSUME OrderNow, DropUsage, OnePage'
  PROVE  InOrder'
<1>1. pc = "drop_usage" /\ pc \notin Crashes
  BY DEF DropUsage, Crashes
<1>2. CASE Crash(Fault(Header(block).page))
  BY <1>1, <1>2, OrderCrash DEF Fault, Crashes
<1>3. CASE ~Crash(Fault(Header(block).page))
  <2>1. /\ pc' = "idle" /\ UNCHANGED <<arena, frags>>
        /\ live' = [live EXCEPT ![handle] = NoBlock]
        /\ Unmap(current_page) \/ blocks' = blocks
    BY <1>3 DEF DropUsage, Return
  <2>2. ~Unmap(current_page)
    <3>1. current_page \in Page /\ current_page' = current_page
          /\ mapped \in [Page -> {"none", "norm", "huge", "frag"}]
      BY <1>1, <2>1, PageNow DEF arena, OrderNow, IInv, TypeOK
    <3> QED
      BY <3>1 DEF Unmap, OnePage, Is
  <2>3. HeadersKept
    BY <2>1, <2>2, KeptBySame
  <2>4. live \in [Handles -> [page : Page \cup {nullptr}, off : Nat, size : Nat]]
        /\ handle \in Live
    BY <1>1 DEF OrderNow, IInv, TypeOK, UsesInv, CallersBlock, FreeingSmall
  <2>5. /\ Small' \subseteq Small /\ \A h \in Small' : live'[h] = live[h]
        /\ handle \notin Small'
    BY <2>1, <2>4 DEF Small, Live
  <2>6. \A h \in Small' : ~Dropping(h)' /\ ~Dropping(h)
    BY <2>1, <2>5 DEF Dropping
  <2>7. UNCHANGED <<current_page, current_block, fragments>> /\ TypeOK /\ InOrder
    BY <2>1 DEF OrderNow, IInv, arena, frags
  <2>8. \A h \in Small' : (Dropping(h)' <=> Dropping(h))
    BY <2>6
  <2>9. pc' \notin {"fix_block_header", "insert_fragment"}
    BY <2>1
  <2> QED
    BY <1>1, <2>3, <2>5, <2>7, <2>8, <2>9, OrderQuiet
<1> QED
  BY <1>2, <1>3

(* The block is listed alone, its size unchanged.  It is either the one    *)
(* that is freed or the current block.                                     *)
LEMMA OrderInserted ==
  ASSUME OrderNow, pc = "insert_fragment", NEW b, b = block,
         NEW hdr, blocks' = WithHeader(b, hdr), b \in DOMAIN blocks,
         hdr.type = "FREE", hdr.size = blocks[b].size,
         fragments' = <<b>>, Inserted,
         UNCHANGED <<current_page, current_block, live, handle, next_page_ptr, block>>
  PROVE  InOrder'
<1>1. TypeOK /\ InOrder
  BY DEF OrderNow, IInv
<1>2. Small' = Small /\ (\A h \in Handles : Address(h)' = Address(h))
      /\ (\A h \in Small : h \in Handles) /\ CurrentBlock' = CurrentBlock
  BY SameSmall DEF Small, Live, CurrentBlock
<1>3. /\ b \in DOMAIN blocks' /\ blocks'[b] = hdr
      /\ \A a \in DOMAIN blocks : a # b => blocks'[a] = blocks[a]
      /\ \A a \in DOMAIN blocks : a \in DOMAIN blocks'
      /\ \A a \in DOMAIN blocks : blocks'[a].size = blocks[a].size
  BY DEF WithHeader
<1>4. ASSUME NEW h \in Small
      PROVE  /\ Address(h) \in DOMAIN blocks /\ Address(h).page = current_page
             /\ blocks[Address(h)].size = live[h].size
             /\ blocks[Address(h)].type = "USED"
  BY <1>1 DEF InOrder, SmallHeaders, Dropping, Crashes
<1>5. \A g, h \in Small : Address(g) = Address(h) => g = h
  BY <1>1 DEF InOrder, SmallHeaders
<1>6. /\ pc' = "drop_usage" \/ pc' = "link_page"
      /\ pc' = "drop_usage" => handle \in Small /\ b = Address(handle)
      /\ pc' = "link_page" => b = CurrentBlock /\ \A h \in Small : Address(h) # b
  <2>1. pc' = IF OpeningPage THEN "link_page" ELSE "drop_usage"
    BY DEF Inserted, CalledByMalloc, OpeningPage
  <2>2. ~OpeningPage => handle \in Live /\ b = Address(handle) /\ b.off # 0
    BY DEF OrderNow, UsesInv, CallersBlock, FreeingSmall
  <2>3. ~OpeningPage => handle \in Small
    BY <2>2 DEF Small, Address, At
  <2>4. OpeningPage => b = CurrentBlock /\ \A h \in Small : Address(h) # b
    BY <1>1 DEF InOrder, InHand
  <2> QED
    BY <2>1, <2>2, <2>3, <2>4
<1>7. b.page = current_page
  BY <1>4, <1>6 DEF CurrentBlock, At
<1>8. \A h \in Small : Address(h) = b <=> Dropping(h)'
  BY <1>5, <1>6 DEF Dropping
<1>9. SmallHeaders'
  <2>1. ASSUME NEW h \in Small
        PROVE  /\ Address(h) \in DOMAIN blocks' /\ blocks'[Address(h)].size = live[h].size
               /\ blocks'[Address(h)].type = IF Dropping(h)' THEN "FREE" ELSE "USED"
    <3>1. CASE Address(h) = b
      BY <1>3, <1>4, <1>8, <3>1
    <3>2. CASE Address(h) # b
      BY <1>3, <1>4, <1>8, <3>2
    <3> QED
      BY <3>1, <3>2
  <2> QED
    BY <1>2, <1>4, <1>5, <2>1 DEF SmallHeaders
<1>10. Listed'
  BY <1>2, <1>3, <1>7, <1>8 DEF Listed
<1>11. InHand'
  BY <1>6 DEF InHand
<1>12. ASSUME NEW a \in Taken' PROVE a = b \/ a \in Taken
  <2>1. a = b \/ \E h \in Small' : a = Address(h)'
    BY <1>6 DEF Taken
  <2> QED
    BY <1>2, <2>1, IsTaken
<1>13. b \in Taken \/ b = CurrentBlock
  BY <1>6, IsTaken
<1>14. ASSUME NEW a, a = b \/ a \in Taken
       PROVE  a \in DOMAIN blocks /\ a.off \in Nat /\ End(a)' = End(a)
  <2>1. a \in DOMAIN blocks
    BY <1>1, <1>14, TakenHere
  <2> QED
    BY <1>1, <1>3, <2>1 DEF End, TypeOK, Address0
<1>15. \A a \in Taken : a = CurrentBlock \/ End(a) <= current_block
  BY <1>1, TakenHere DEF InOrder, CurrentIsLast
<1>16. Tiled'
  <2> SUFFICES ASSUME NEW a \in Taken', NEW c \in Taken', a.page = c.page, a # c
               PROVE  End(a)' <= c.off \/ End(c)' <= a.off
    BY DEF Tiled
  <2>1. CurrentBlock.off = current_block
    BY DEF CurrentBlock, At
  <2>2. CASE a \in Taken /\ c \in Taken
    BY <1>1, <1>14, <2>2 DEF InOrder, Tiled
  <2>3. CASE a = CurrentBlock
    BY <1>12, <1>13, <1>14, <1>15, <2>1, <2>3
  <2>4. CASE c = CurrentBlock
    BY <1>12, <1>13, <1>14, <1>15, <2>1, <2>4
  <2> QED
    BY <1>12, <1>13, <2>2, <2>3, <2>4
<1>17. CurrentIsLast'
  BY <1>2, <1>12, <1>13, <1>14, <1>15 DEF CurrentIsLast
<1> QED
  BY <1>9, <1>10, <1>11, <1>16, <1>17 DEF InOrder

LEMMA OrderInsertFragment ==
  ASSUME OrderNow, InsertFragment
  PROVE  InOrder'
<1>1. pc = "insert_fragment" /\ pc \notin Crashes
  BY DEF InsertFragment, Crashes
<1>2. ASSUME NEW p, Crash(Fault(p)) PROVE InOrder'
  BY <1>1, <1>2, OrderCrash DEF Fault, Crashes
<1>3. CASE Crash("wild")
  BY <1>1, <1>3, OrderCrash DEF Crashes
<1>4. CASE Header(block).size = 0 /\ Inserted
           /\ UNCHANGED <<memory, arena, frags, call, client>>
  <2>1. block \notin DOMAIN blocks
    BY <1>4 DEF OrderNow, IInv, HeadersPositive, Header
  <2>2. \A h \in Small : Address(h) # block
    BY <2>1 DEF OrderNow, InOrder, SmallHeaders
  <2>3. pc' = IF OpeningPage THEN "link_page" ELSE "drop_usage"
    BY <1>1, <1>4 DEF Inserted, CalledByMalloc, OpeningPage
  <2>4. ~OpeningPage => block = Address(handle)
    BY <1>1 DEF OrderNow, UsesInv, CallersBlock, FreeingSmall
  <2>5. Small' = Small /\ \A h \in Small : live'[h] = live[h]
    BY <1>4, SameSmall DEF client
  <2>6. \A h \in Small : ~Dropping(h) /\ ~Dropping(h)'
    BY <1>1, <1>4, <2>2, <2>3, <2>4 DEF Dropping, call
  <2>7. UNCHANGED <<blocks, current_page, current_block, fragments>> /\ TypeOK /\ InOrder
    BY <1>4 DEF OrderNow, IInv, arena, frags, memory
  <2>8. \A h \in Small' : (Dropping(h)' <=> Dropping(h))
    BY <2>5, <2>6
  <2>9. pc' \notin {"fix_block_header", "insert_fragment"}
    BY <2>3
  <2> QED
    BY <1>1, <2>5, <2>7, <2>8, <2>9, KeptBySame, OrderQuiet
<1>5. CASE pc' \in {"undo_open_page", "idle"} /\ UNCHANGED <<memory, arena, fragments, live>>
  BY <1>1, <1>5, KeptBySame, OrderIdle DEF arena, memory
<1>6. CASE /\ Header(block).size # 0 /\ Inserted
           /\ fragments' = <<block>> \/ fragments' = Ordered(Header(block).size)
           /\ first_fragment_list_header = nullptr => fragments' = <<block>>
           /\ first_fragment_list_header = nullptr \/ Is(first_fragment_list_header, "frag")
           /\ blocks' = WithHeader(block, [Header(block) EXCEPT !.type = "FREE"])
           /\ UNCHANGED <<arena, call, client>>
  <2>1. block \in DOMAIN blocks /\ Header(block) = blocks[block]
    BY <1>6 DEF Header, ZeroHeader
  <2>2. fragments' = <<block>>
    <3>1. CASE Is(first_fragment_list_header, "frag")
      <4>1. Len(fragments) = 1
        BY <3>1 DEF OrderNow, IInv, ListHasOne, Is
      <4>2. fragments[1] \in DOMAIN blocks
        BY <4>1 DEF OrderNow, InOrder, Listed
      <4>3. Header(fragments[1]).size # 0
        BY <4>2 DEF OrderNow, IInv, HeadersPositive, Header
      <4> QED
        BY <1>6, <4>1, <4>3 DEF Ordered
    <3> QED
      BY <1>6, <3>1
  <2> DEFINE hdr == [blocks[block] EXCEPT !.type = "FREE"]
  <2>3. hdr.type = "FREE" /\ hdr.size = blocks[block].size
        /\ blocks' = WithHeader(block, hdr)
    BY <1>6, <2>1 DEF OrderNow, IInv, TypeOK, BlockHeader
  <2> HIDE DEF hdr
  <2> QED
    BY <1>1, <1>6, <2>1, <2>2, <2>3, OrderInserted DEF arena, call, client
<1>7. ASSUME ~Crash("wild"), \A p : ~Crash(Fault(p)),
             ~(Header(block).size = 0 /\ Inserted
                 /\ UNCHANGED <<memory, arena, frags, call, client>>)
      PROVE  \/ pc' \in {"undo_open_page", "idle"} /\ UNCHANGED <<memory, arena, fragments, live>>
             \/ /\ Header(block).size # 0 /\ Inserted
                /\ fragments' = <<block>> \/ fragments' = Ordered(Header(block).size)
                /\ first_fragment_list_header = nullptr => fragments' = <<block>>
                /\ first_fragment_list_header = nullptr \/ Is(first_fragment_list_header, "frag")
                /\ blocks' = WithHeader(block, [Header(block) EXCEPT !.type = "FREE"])
                /\ UNCHANGED <<arena, call, client>>
  <2>1. Is(first_fragment_list_header, "frag") => first_fragment_list_header # nullptr
    BY Sizes DEF Is, Page
  <2> QED
    BY <1>7, <2>1 DEF InsertFragment, Return, memory, arena, frags, call, client
<1> QED
  BY <1>2, <1>3, <1>4, <1>5, <1>6, <1>7

LEMMA LinkLeaves == IInv /\ PagesInv /\ OnePage /\ LinkPage => ~OnePage'
<1> SUFFICES ASSUME IInv, PagesInv, OnePage, LinkPage PROVE ~OnePage'
  OBVIOUS
<1>1. first_page_ptr # nullptr /\ pc = "link_page" /\ pc \notin Crashes /\ OpeningPage
  BY Sizes DEF OnePage, Is, LinkPage, Crashes, OpeningPage
<1> QED
  BY <1>1 DEF PagesInv, LinkPage, OnePage

(* A heap of one page was one before, or is new. *)
FirstPageMapped == first_page_ptr = nullptr /\ FirstSetup /\ pc' = "find_available_fragment"
LEMMA OnePageBefore ==
  ASSUME IInv, PagesInv, Step, OnePage'
  PROVE  OnePage \/ FirstPageMapped
<1>1. /\ mapped \in [Page -> {"none", "norm", "huge", "frag"}]
      /\ page_hdr \in [Page -> PageHeader]
  BY DEF IInv, TypeOK
<1>2. ASSUME UNCHANGED <<first_page_ptr, current_page>>,
             \A p \in Page : /\ mapped'[p] = "norm" => mapped[p] = "norm"
                             /\ page_hdr'[p].next_page = page_hdr[p].next_page
      PROVE  OnePage
  BY <1>2 DEF OnePage, Is
<1>3. ASSUME NEW p, Unmap(p)
      PROVE  \A q \in Page : mapped'[q] = "norm" => mapped[q] = "norm"
  BY <1>1, <1>3 DEF Unmap
<1>4. ASSUME UNCHANGED <<first_page_ptr, current_page, page_hdr>>, NEW p, Unmap(p)
      PROVE  OnePage
  BY <1>2, <1>3, <1>4
<1>5. ASSUME UNCHANGED <<memory, arena>> PROVE OnePage
  BY <1>2, <1>5 DEF memory, arena
<1>6. ASSUME NEW how, Crash(how) PROVE OnePage
  BY <1>5, <1>6 DEF Crash
<1>7. CASE FirstSetup
  BY <1>5, <1>7 DEF FirstSetup, FirstPageMapped
<1>8. CASE FindAvailableFragment
  <2>1. ASSUME NEW n \in 1..Len(fragments), RemoveFragment(n), UNCHANGED arena
        PROVE  OnePage
    <3>1. Unmap(first_fragment_list_header) \/ UNCHANGED <<mapped, blocks>>
      BY <2>1 DEF RemoveFragment
    <3> QED
      BY <1>2, <1>4, <2>1, <3>1 DEF RemoveFragment, arena
  <2> QED
    BY <1>5, <1>6, <1>8, <2>1 DEF FindAvailableFragment
<1>9. CASE NoGoodFragments
  <2>1. pc = "no_good_fragments" /\ UNCHANGED <<first_page_ptr, current_page>>
    BY <1>9 DEF NoGoodFragments, Crash, arena
  <2>2. first_page_ptr # nullptr /\ pc \notin Crashes
    BY <2>1 DEF IInv, BeforeFirstPage, SmallCall, Crashes
  <2>3. ~FirstPageLeft
    BY <2>1 DEF OnePage, FirstPageLeft
  <2>4. ~FirstPageLost
    BY <2>1 DEF FirstPageLost, SmallCall
  <2> QED
    BY <2>2, <2>3, <2>4 DEF PagesInv, OnFirstPage
<1>10. CASE OpenPage
  BY <1>2, <1>6, <1>10 DEF OpenPage
<1>11. CASE UndoOpenPage
  BY <1>4, <1>11 DEF UndoOpenPage, arena
<1>12. CASE LinkPage
  <2>1. first_page_ptr # nullptr /\ pc \notin Crashes /\ OpeningPage
    BY <1>12 DEF LinkPage, IInv, BeforeFirstPage, SmallCall, Crashes, OpeningPage
  <2> QED
    BY <1>12, <2>1 DEF PagesInv, LinkPage, OnePage
<1>13. CASE FixBlockHeader
  <2>1. ASSUME NEW q, page_hdr' = [page_hdr EXCEPT ![q].usages = @ + 1]
        PROVE  \A p \in Page : page_hdr'[p].next_page = page_hdr[p].next_page
    BY <1>1, <2>1 DEF PageHeader
  <2> QED
    BY <1>2, <1>6, <1>13, <2>1 DEF FixBlockHeader
<1>14. CASE LargeBro
  <2>1. ASSUME NEW p, NEW n, mapped' = MapAs(p, n, "huge")
        PROVE  \A q \in Page : mapped'[q] = "norm" => mapped[q] = "norm"
    BY <2>1 DEF MapAs
  <2> QED
    BY <1>2, <1>5, <1>14, <2>1 DEF LargeBro, arena
<1>15. CASE LargeFreeBro
  BY <1>4, <1>15 DEF LargeFreeBro, arena
<1>16. CASE DropUsage
  <2>1. ASSUME NEW q, page_hdr' = [page_hdr EXCEPT ![q].usages = @ - 1]
        PROVE  \A p \in Page : page_hdr'[p].next_page = page_hdr[p].next_page
    BY <1>1, <2>1 DEF PageHeader
  <2>2. (\E q : page_hdr' = [page_hdr EXCEPT ![q].usages = @ - 1]) \/ UNCHANGED page_hdr
    BY <1>16 DEF DropUsage, Crash, memory
  <2>3. \A q \in Page : mapped'[q] = "norm" => mapped[q] = "norm"
    BY <1>3, <1>16 DEF DropUsage, Crash, memory
  <2>4. UNCHANGED arena
    BY <1>16 DEF DropUsage, Crash
  <2> QED
    BY <1>2, <2>1, <2>2, <2>3, <2>4 DEF arena
<1>17. CASE InsertFragment
  <2>1. UNCHANGED <<arena, page_hdr>>
    BY <1>17 DEF InsertFragment, Crash, memory
  <2>2. ASSUME NEW p, NEW n, mapped' = MapAs(p, n, "frag")
        PROVE  \A q \in Page : mapped'[q] = "norm" => mapped[q] = "norm"
    BY <2>2 DEF MapAs
  <2>3. UNCHANGED mapped \/ \E p \in Page : mapped' = MapAs(p, 1, "frag")
    BY <1>17 DEF InsertFragment, Crash, memory
  <2> QED
    BY <1>2, <2>1, <2>2, <2>3 DEF arena
<1>18. CASE ClientWrites
  BY <1>6, <1>18 DEF ClientWrites
<1> QED
  BY <1>7, <1>8, <1>9, <1>10, <1>11, <1>12, <1>13, <1>14, <1>15, <1>16, <1>17, <1>18
  DEF Step

(* The blocks stay in order, provided that no block is carved behind one   *)
(* that is listed.                                                         *)
Carving == pc \in {"no_good_fragments", "open_page"}
LEMMA OrderInStep ==
  ASSUME OrderNow, Step, OnePage', Carving => NotListed
  PROVE  InOrder'
<1>1. CASE NoGoodFragments \/ OpenPage
  <2>1. NotListed
    BY <1>1 DEF Carving, NoGoodFragments, OpenPage
  <2> QED
    BY <1>1, <2>1, OrderNoGoodFragments, OrderOpenPage
<1>2. ~LinkPage
  BY LinkLeaves DEF OrderNow
<1>3. CASE ClientWrites
  BY <1>3, OrderCrash DEF ClientWrites, Crashes
<1> QED
  BY <1>1, <1>2, <1>3, OrderFirstSetup, OrderFindAvailableFragment, OrderUndoOpenPage,
     OrderFixBlockHeader, OrderLargeBro, OrderLargeFreeBro, OrderDropUsage,
     OrderInsertFragment DEF Step

(* The first page is mapped: nothing is on it. *)
LEMMA FirstOrder ==
  ASSUME IInv, FirstPageMapped
  PROVE  /\ InOrder' /\ Small' = {} /\ fragments' = <<>>
         /\ pc' = "find_available_fragment"
<1>1. fragments' = <<>> /\ pc' = "find_available_fragment" /\ live' = live
  BY DEF FirstPageMapped, FirstSetup, Return, IInv, BeforeFirstPage, frags, client
<1>2. Small' = {}
  <2>1. Small = {}
    BY DEF FirstPageMapped, IInv, BeforeFirstPage, Small, Live
  <2> QED
    BY <1>1, <2>1 DEF Small, Live
<1>3. Taken' = {}
  BY <1>1, <1>2 DEF Taken
<1> QED
  BY <1>1, <1>2, <1>3 DEF InOrder, SmallHeaders, Listed, InHand, Tiled, CurrentIsLast

(***************************************************************************)
(* What printf does with the first page.                                   *)
(***************************************************************************)

LEMMA AreasNames ==
  /\ P!Array[1] = "array" /\ P!Buffer[1] = "buffer"
  /\ \A n, j : P!Expansion(n, j)[1] = "expansion"
  /\ P!Array[2] = calls /\ P!Buffer[2] = calls
  /\ \A n, j : P!Expansion(n, j)[2] = calls
BY DEF P!Array, P!Buffer, P!Expansion

(* Who waits for the call that runs, and for which block. *)
LEMMA Caller ==
  ASSUME PHInv, called, Mallocking \/ Freeing
  PROVE  /\ Mallocking => Allocating
         /\ Freeing => printf_pc \in {"idle", "final_copy", "free_buffer", "free_array"}
         /\ printf_pc = "idle" => handle = Mine
         /\ printf_pc = "create_str_array" => handle = P!Array
         /\ printf_pc = "expand_formatters" =>
              /\ handle # P!Array /\ handle # Mine
              /\ Expanding \/ P!Char(i) = P!NUL
         /\ printf_pc = "final_copy" => handle = PointerOf(entries[k + 1].string)
         /\ printf_pc = "free_array" => handle = P!Array
         /\ Freeing /\ printf_pc # "idle" => \E area \in Frees : handle = PointerOf(area)
<1>1. Asked /\ PrintfInv /\ HexesInv
  BY DEF PHInv, LockInv
<1>2. ~(Mallocking /\ Freeing)
  BY DEF Mallocking, Freeing
<1>3. CASE printf_pc = "idle"
  BY <1>1, <1>3 DEF Asked, Allocating
<1>4. CASE Mallocking /\ printf_pc # "idle"
  <2>1. PICK m \in Mallocs : handle = m[1]
    BY <1>1, <1>4 DEF Asked
  <2>2. printf_pc \in {"create_str_array", "expand_formatters"}
    BY <2>1 DEF Mallocs, Expanding
  <2>3. printf_pc = "create_str_array" => handle = P!Array
    BY <2>1 DEF Mallocs, Expanding
  <2>4. printf_pc = "expand_formatters" =>
          /\ handle = P!Buffer \/ \E n, j : handle = P!Expansion(n, j)
          /\ Expanding \/ P!Char(i) = P!NUL
    BY <2>1 DEF Mallocs, Expanding
  <2>5. handle # Mine
    BY <1>1, <2>1, MallocsAre, MineIs
  <2> QED
    BY <1>2, <1>4, <2>2, <2>3, <2>4, <2>5, AreasNames DEF Allocating
<1>5. CASE Freeing /\ printf_pc # "idle"
  <2>1. PICK area \in Frees : handle = PointerOf(area)
    BY <1>1, <1>5 DEF Asked
  <2>2. printf_pc \in {"final_copy", "free_buffer", "free_array"}
    BY <2>1 DEF Frees
  <2>3. printf_pc = "free_array" => handle = P!Array
    BY <2>1, AreasNames DEF Frees, PointerOf
  <2>4. printf_pc = "final_copy" => handle = PointerOf(entries[k + 1].string)
    BY <2>1 DEF Frees
  <2> QED
    BY <1>2, <1>5, <2>1, <2>2, <2>3, <2>4 DEF Asked
<1> QED
  BY <1>3, <1>4, <1>5

(* What printf frees is of the call it is in. *)
LEMMA FreesOfCall ==
  ASSUME PrintfInv, NEW area \in Frees
  PROVE  PointerOf(area) = Mine \/ (printf_pc # "idle" /\ PointerOf(area)[2] = calls)
<1>1. /\ PP!TypeInv /\ PP!MemoryInv /\ PP!PassesAgree
  BY PP!PassesAreRight, Assumed DEF PrintfInv, PP!PInv
<1>2. CASE printf_pc = "final_copy" /\ P!Char(i) = "%" /\ area = entries[k + 1].string
  <2>1. k < Len(entries) /\ k \in Nat /\ Len(entries) \in Nat
    BY <1>1, <1>2, SameNames DEF PP!PassesAgree, PP!TypeInv
  <2>2. k + 1 \in 1..Len(entries)
    BY <2>1
  <2>3. area[2] = calls
    BY <1>1, <1>2, <2>2, SameNames, AreasNames DEF PP!MemoryInv, PP!Strings
  <2> QED
    BY <1>2, <2>3 DEF PointerOf
<1>3. CASE printf_pc \in {"free_buffer", "free_array"} /\ area \in {P!Buffer, P!Array}
  BY <1>3, AreasNames DEF PointerOf
<1> QED
  BY <1>2, <1>3 DEF Frees

(* A state in which earlier calls have left nothing comes after one. *)
LEMMA NothingLeftBefore ==
  ASSUME PHInv, [Moves]_phvars, NothingLeft'
  PROVE  NothingLeft
<1>1. PrintfInv /\ PointersOK /\ HexesInv
  BY DEF PHInv
<1>2. ASSUME Live \subseteq Live', UNCHANGED <<printf_pc, calls>>
      PROVE  NothingLeft
  BY <1>2 DEF NothingLeft
<1>3. CASE Ask
  <2>1. \A m \in Mallocs : m[1] \in Handles /\ m[2] \in Nat
    BY <1>1, MallocsAre
  <2>2. \A area \in Frees : PointerOf(area) \in Handles
    <3>1. Agreed
      BY <1>3 DEF PHInv, LockInv, Ask, Ready
    <3> QED
      BY <1>1, <3>1, FreesAre, MineIs DEF Agreed, Owned, Live
  <2>3. live' = live
    BY <1>1, <1>3, <2>1, <2>2, MallocBegins, FreeBegins DEF Ask
  <2>4. UNCHANGED <<printf_pc, calls>>
    BY <1>3 DEF Ask, printf_vars
  <2> QED
    BY <1>2, <2>3, <2>4 DEF Live
<1>4. CASE Program
  <2>1. live' = live
    BY <1>1, <1>4, ClientAssumption, MineIs, MallocBegins, FreeBegins DEF Program
  <2> QED
    BY <1>2, <1>4, <2>1 DEF Live, Program, printf_vars
<1>5. CASE Allocator
  <2>1. UNCHANGED <<printf_pc, calls>> /\ called
    BY <1>5 DEF Allocator, printf_vars
  <2> CASE pc = "idle"
    BY <1>2, <1>5, <2>1, IdleStep DEF Allocator, client, Live
  <2> SUFFICES ASSUME pc # "idle" PROVE NothingLeft
    OBVIOUS
  <2>2. (Mallocking \/ Freeing) /\ (GoesOn \/ Fails \/ Gives \/ Takes)
    BY <1>1, <1>5, CallMoves DEF Allocator
  <2>3. CASE GoesOn \/ Fails \/ Gives
    BY <1>2, <2>1, <2>3 DEF GoesOn, Fails, Gives, Live
  <2>4. CASE Takes
    <3>1. handle = Mine \/ (printf_pc # "idle" /\ handle[2] = calls)
      BY <1>1, <2>1, <2>2, <2>4, Caller, FreesOfCall DEF Takes
    <3> QED
      BY <2>1, <2>4, <3>1 DEF NothingLeft, Takes
  <2> QED
    BY <2>2, <2>3, <2>4
<1>6. CASE NextOption \/ UNCHANGED phvars
  <2>1. live' = live /\ UNCHANGED <<printf_pc, calls>>
    BY <1>6 DEF NextOption, phvars, vars, client, printf_vars
  <2> QED
    BY <1>2, <2>1 DEF Live
<1>7. CASE Answer
  <2>1. live' = live /\ calls' = calls
    BY <1>7 DEF Answer, vars, client, printf_vars, P!CreateStrArray, P!ExpandFormatter,
                P!CreateBuffer, P!CopyFormatted, P!FreeBros, P!Stop
  <2>2. printf_pc' # "idle" => printf_pc # "idle"
    BY <1>7 DEF Answer, printf_vars
  <2> QED
    BY <2>1, <2>2 DEF NothingLeft, Live
<1>8. CASE Alone
  <2>1. live' = live /\ ~called
    BY <1>8 DEF Alone, vars, client, Ready
  <2>2. CASE \E f \in Formats : P!Call(f)
    <3>1. hexes = 0 /\ calls' = calls + 1
      BY <1>1, <2>2 DEF P!Call, HexesInv, Expanding
    <3>2. Live \ {Mine} = allocated
      BY <2>1, <3>1, NothingMade DEF PHInv, LockInv, Agreed, Owned
    <3>3. \A h \in allocated : h[2] \in Nat /\ h[2] <= calls
      BY <1>1 DEF PrintfInv, PP!PInv, PP!TypeInv, PP!Memory, PP!MemoryInv, PP!Allocated
    <3>4. calls \in Nat
      BY <1>1 DEF PrintfInv, PP!PInv, PP!TypeInv
    <3> QED
      BY <2>1, <3>1, <3>2, <3>3, <3>4 DEF NothingLeft, Live
  <2>3. CASE P!ExpandFormatter \/ P!CountText \/ P!CopyText \/ P!CopyPastBuffer
             \/ P!Write \/ StringGone
    <3>1. calls' = calls /\ printf_pc # "idle"
      BY <2>3 DEF P!ExpandFormatter, P!CountText, P!CopyText, P!CopyPastBuffer,
                  P!Write, P!Stop, StringGone, ReadsString
    <3> QED
      BY <2>1, <3>1 DEF NothingLeft, Live
  <2> QED
    BY <1>8, <2>2, <2>3 DEF Alone, Start, StringGone
<1> QED
  BY <1>3, <1>4, <1>5, <1>6, <1>7, <1>8 DEF Moves

LEMMA PrintfStands ==
  ASSUME UNCHANGED printf_vars
  PROVE  /\ P!Array' = P!Array /\ P!Percents' = P!Percents
         /\ \A p : P!Char(p)' = P!Char(p)
         /\ UserEntry' = UserEntry /\ StringsToCome' = StringsToCome
         /\ Expanding' = Expanding
         /\ UNCHANGED <<printf_pc, i, k, entries, calls, format>>
<1> USE DEF printf_vars
<1>1. P!Percents' = P!Percents
  BY DEF P!Percents
<1>2. UserEntry' = UserEntry /\ StringsToCome' = StringsToCome
  BY DEF UserEntry, StringsToCome
<1>3. \A p : P!Char(p)' = P!Char(p)
  BY DEF P!Char
<1> QED
  BY <1>1, <1>2, <1>3, PrintfWaits DEF P!Array

(* What malloc was asked for stays. *)
LEMMA MallocGoesOn ==
  ASSUME PointersOK, Step
  PROVE  /\ pc' # "large_bro"
         /\ Mallocking' => Mallocking /\ UNCHANGED <<req, handle>>
<1> USE DEF PointersOK, Mallocking, Freeing, CalledByMalloc
<1>1. CASE FirstSetup
  BY <1>1 DEF FirstSetup, Return, call
<1>2. CASE FindAvailableFragment
  BY <1>2 DEF FindAvailableFragment, Crash, Fault, call
<1>3. CASE NoGoodFragments
  BY <1>3 DEF NoGoodFragments, Return, Crash, Fault, call
<1>4. CASE OpenPage
  BY <1>4 DEF OpenPage, Crash, Fault, WritePast, call
<1>5. CASE UndoOpenPage \/ LargeBro \/ LargeFreeBro
  BY <1>5 DEF UndoOpenPage, LargeBro, LargeFreeBro, Return
<1>6. CASE LinkPage
  BY <1>6 DEF LinkPage
<1>7. CASE FixBlockHeader
  BY <1>7 DEF FixBlockHeader, Return, Crash, Fault, WritePast
<1>8. CASE DropUsage
  BY <1>8 DEF DropUsage, Return, Crash, Fault
<1>9. CASE InsertFragment
  BY <1>9 DEF InsertFragment, Inserted, Return, Crash, Fault, call
<1>10. CASE ClientWrites
  BY <1>10 DEF ClientWrites, Crash
<1> QED
  BY <1>1, <1>2, <1>3, <1>4, <1>5, <1>6, <1>7, <1>8, <1>9, <1>10 DEF Step

LEMMA InMallocIs ==
  /\ InMalloc <=> Mallocking
  /\ (pc = "large_free_bro" \/ FreeingSmall) <=> Freeing
BY DEF InMalloc, Mallocking, Freeing, FreeingSmall, OpeningPage, SmallCall, CalledByMalloc

(* printf asks, as printf_pc says. *)
LEMMA AskBegins ==
  ASSUME PHInv, Ask
  PROVE  /\ UNCHANGED <<printf_vars, hexes, memory, arena, frags, live>> /\ called'
         /\ \/ \E m \in Mallocs :
                 /\ m[1] \in Handles /\ m[2] \in Nat /\ MallocCall(m[1], m[2])
            \/ \E area \in Frees :
                 PointerOf(area) \in Handles /\ FreeCall(PointerOf(area))
         /\ pc = "idle" /\ ~called
<1>1. PrintfInv /\ PointersOK /\ HexesInv
  BY DEF PHInv
<1>2. \A m \in Mallocs : m[1] \in Handles /\ m[2] \in Nat
  BY <1>1, MallocsAre
<1>3. \A area \in Frees : PointerOf(area) \in Handles
  <2>1. Agreed
    BY DEF PHInv, LockInv, Ask, Ready
  <2> QED
    BY <1>1, <2>1, FreesAre, MineIs DEF Agreed, Owned, Live
<1>4. ASSUME NEW h, NEW n, MallocCall(h, n)
      PROVE  UNCHANGED <<memory, arena, frags, live>>
  BY <1>4 DEF MallocCall, client
<1>5. ASSUME NEW h, FreeCall(h)
      PROVE  UNCHANGED <<memory, arena, frags, live>>
  BY <1>5 DEF FreeCall, Crash, client
<1> QED
  BY <1>2, <1>3, <1>4, <1>5 DEF Ask, Ready

LEMMA AskedForStep ==
  ASSUME PHInv, AskedFor, [Moves]_phvars
  PROVE  AskedFor'
<1>1. CASE Ask
  <2>1. /\ UNCHANGED printf_vars
        /\ \/ \E m \in Mallocs :
                m[1] \in Handles /\ m[2] \in Nat /\ MallocCall(m[1], m[2])
           \/ \E area \in Frees : FreeCall(PointerOf(area))
    BY <1>1, AskBegins
  <2>3. CASE \E area \in Frees : FreeCall(PointerOf(area))
    <3>1. printf_pc \in {"final_copy", "free_buffer", "free_array"}
      BY <2>3 DEF Frees
    <3> QED
      BY <2>1, <3>1, PrintfStands DEF AskedFor
  <2>4. ASSUME NEW m \in Mallocs, m[2] \in Nat, MallocCall(m[1], m[2])
        PROVE  AskedFor'
    <3>1. InMalloc' /\ pc' # "large_bro" => handle' = m[1] /\ req' = align(m[2])
      BY <2>4 DEF MallocCall, Return, InMalloc, SmallCall, OpeningPage
    <3>2. printf_pc = "create_str_array" => m = <<P!Array, EntrySize * P!Percents>>
      BY DEF Mallocs, Expanding
    <3>3. printf_pc = "expand_formatters" /\ P!Char(i) = "%" => m[2] \in {ItosSize, HexstrSize}
      BY DEF Mallocs, Expanding, P!NUL
    <3>4. \A n \in Nat : align(EntrySize * n) = EntrySize * n
      BY DEF align, EntrySize
    <3>5. align(ItosSize) = 24 /\ align(HexstrSize) = 24
      BY DEF align, ItosSize, HexstrSize
    <3>6. P!Percents \in Nat
      BY Counts DEF PHInv
    <3>7. printf_pc = "create_str_array" => m[1] = P!Array /\ align(m[2]) = EntrySize * P!Percents
      BY <3>2, <3>4, <3>6
    <3>8. printf_pc = "expand_formatters" /\ P!Char(i) = "%" => align(m[2]) = 24
      BY <3>3, <3>5
    <3> QED
      BY <2>1, <3>1, <3>7, <3>8, PrintfStands DEF AskedFor, StringSize
  <2> QED
    BY <2>1, <2>3, <2>4
<1>2. CASE Program
  <2>1. printf_pc' = "idle"
    BY <1>2 DEF Program, printf_vars
  <2> QED
    BY <2>1 DEF AskedFor
<1>3. CASE Allocator
  <2>1. Step /\ called /\ UNCHANGED printf_vars /\ PointersOK
    BY <1>3 DEF Allocator, PHInv
  <2>2. InMalloc' => InMalloc /\ pc # "large_bro" /\ UNCHANGED <<req, handle>>
    <3>1. pc = "large_bro" => pc' = "idle" /\ next_page_ptr' = nullptr
      BY <2>1 DEF Step, LargeBro, Return, FirstSetup, FindAvailableFragment,
                  NoGoodFragments, OpenPage, UndoOpenPage, LinkPage, FixBlockHeader,
                  LargeFreeBro, DropUsage, InsertFragment, ClientWrites
    <3>2. pc' = "idle" => ~InMalloc'
      BY DEF InMalloc, SmallCall, OpeningPage
    <3>3. InMalloc' <=> Mallocking'
      BY DEF InMalloc, Mallocking, OpeningPage, SmallCall, CalledByMalloc
    <3> QED
      BY <2>1, <3>1, <3>2, <3>3, MallocGoesOn, InMallocIs
  <2> QED
    BY <2>1, <2>2, PrintfStands DEF AskedFor
<1>4. CASE NextOption \/ Answer \/ Alone
  BY <1>4 DEF NextOption, Answer, Alone, Ready, AskedFor
<1>5. CASE UNCHANGED phvars
  <2>1. UNCHANGED <<printf_vars, called, pc, next_page_ptr, req, handle>>
    BY <1>5 DEF phvars, vars, call
  <2> QED
    BY <2>1, PrintfStands DEF AskedFor, InMalloc, OpeningPage
<1> QED
  BY <1>1, <1>2, <1>3, <1>4, <1>5 DEF Moves

(* malloc is asked for a huge block only for the buffer, or by the program.*)
LEMMA LargeAsked ==
  ASSUME ArraysSmall, PHInv, Ask, pc' = "large_bro"
  PROVE  printf_pc # "create_str_array" /\ ~Expanding
<1>1. PICK m \in Mallocs : m[2] \in Nat /\ m[2] > FreshBytes
  <2>1. ASSUME NEW m \in Mallocs, m[2] \in Nat, MallocCall(m[1], m[2])
        PROVE  m[2] > FreshBytes
    BY <2>1 DEF MallocCall, Return
  <2>2. ASSUME NEW h, FreeCall(h) PROVE FALSE
    BY <2>2 DEF FreeCall, Crash, Fault
  <2> QED
    BY <2>1, <2>2, AskBegins
<1>2. printf_pc = "create_str_array" => m[2] = EntrySize * P!findoccurrences(format, "%")
                                        /\ format \in Formats
  BY DEF Mallocs, Expanding, P!Percents, PHInv, PrintfInv, CallsInv
<1>3. Expanding => m[2] \in {ItosSize, HexstrSize}
  BY DEF Mallocs, Expanding, P!NUL
<1>4. FreshBytes >= 25 /\ FreshBytes \in Nat
  BY Sizes
<1>5. P!Percents \in Nat
  BY Counts DEF PHInv
<1>6. printf_pc = "create_str_array" => m[2] <= FreshBytes
  BY <1>2 DEF ArraysSmall
<1> QED
  BY <1>1, <1>3, <1>4, <1>6 DEF ItosSize, HexstrSize

(* A block that was handed out is the caller's, and small unless it is     *)
(* huge.                                                                   *)
LEMMA StepLive ==
  ASSUME IInv, Step, NEW h \in Live', h \notin Live \/ live'[h] # live[h]
  PROVE  /\ h = handle /\ Mallocking
         /\ pc = "large_bro" \/ live'[h].off # 0
<1>1. live \in [Handles -> [page : Page \cup {nullptr}, off : Nat, size : Nat]]
      /\ h \in Handles
  BY DEF IInv, TypeOK, Live
<1>2. live' # live
  BY <1>1 DEF Live
<1>3. FixBlockHeader \/ LargeBro \/ LargeFreeBro \/ DropUsage
  BY <1>2 DEF Step, FirstSetup, FindAvailableFragment, NoGoodFragments, OpenPage,
              UndoOpenPage, LinkPage, InsertFragment, ClientWrites, Crash, Return, client
<1>4. CASE FixBlockHeader
  <2>1. live' = [live EXCEPT ![handle] =
                   [page |-> block.page, off |-> block.off, size |-> req]]
        /\ pc = "fix_block_header"
    BY <1>2, <1>4 DEF FixBlockHeader, Crash, client
  <2>2. block.off >= PHEADERSIZE /\ block.off \in Nat
    BY <2>1 DEF IInv, CallOK, TypeOK, Address0
  <2>3. h = handle
    BY <1>1, <2>1 DEF Live
  <2>4. live'[h].off = block.off
    BY <1>1, <2>1, <2>3
  <2> QED
    BY <2>1, <2>2, <2>3, <2>4 DEF Mallocking
<1>5. CASE LargeBro
  <2>1. pc = "large_bro" /\ \E x : live' = [live EXCEPT ![handle] = x]
    BY <1>2, <1>5 DEF LargeBro
  <2> QED
    BY <1>1, <2>1 DEF Live, Mallocking
<1>6. CASE LargeFreeBro \/ DropUsage
  <2>1. live' = [live EXCEPT ![handle] = NoBlock]
    BY <1>2, <1>6 DEF LargeFreeBro, DropUsage, Crash, client
  <2> QED
    BY <1>1, <2>1 DEF Live
<1> QED
  BY <1>3, <1>4, <1>5, <1>6

LEMMA OtherSteps ==
  ASSUME PHInv, [Moves]_phvars, ~Allocator
  PROVE  UNCHANGED <<live, memory, arena, frags>>
<1>1. ASSUME NEW h, NEW n, MallocCall(h, n)
      PROVE  UNCHANGED <<memory, arena, frags, live>>
  BY <1>1 DEF MallocCall, client
<1>2. ASSUME NEW h, FreeCall(h)
      PROVE  UNCHANGED <<memory, arena, frags, live>>
  BY <1>2 DEF FreeCall, Crash, client
<1> QED
  BY <1>1, <1>2 DEF Moves, Ask, Program, NextOption, Answer, Alone, phvars, vars, client

LEMMA ArraySmallStep ==
  ASSUME ArraysSmall, PHInv, IInv, ArraySmall, [Moves]_phvars
  PROVE  ArraySmall'
<1>1. pc' = "large_bro" => printf_pc' # "create_str_array" /\ ~Expanding'
  <2>1. CASE Ask
    BY <2>1, LargeAsked, PrintfStands DEF Ask
  <2>2. CASE Program
    BY <2>2 DEF Program, printf_vars, Expanding
  <2>3. CASE Allocator
    BY <2>3, MallocGoesOn DEF Allocator, PHInv
  <2>4. CASE NextOption \/ Answer \/ Alone
    BY <2>4 DEF NextOption, Answer, Alone, Ready, vars
  <2>5. CASE UNCHANGED phvars
    <3>1. UNCHANGED <<printf_vars, pc>>
      BY <2>5 DEF phvars, vars
    <3> QED
      BY <3>1, PrintfStands DEF ArraySmall
  <2> QED
    BY <2>1, <2>2, <2>3, <2>4, <2>5 DEF Moves
<1>2. P!Array' \in Live' => live'[P!Array'].off # 0
  <2>1. CASE Allocator
    <3>1. P!Array' = P!Array /\ Step /\ called
      BY <2>1, PrintfStands DEF Allocator
    <3>2. CASE P!Array \in Live /\ live'[P!Array] = live[P!Array]
      BY <3>1, <3>2 DEF ArraySmall
    <3>3. CASE ~(P!Array \in Live /\ live'[P!Array] = live[P!Array])
      <4> SUFFICES ASSUME P!Array \in Live' PROVE live'[P!Array].off # 0
        BY <3>1
      <4>1. P!Array = handle /\ Mallocking /\ (pc = "large_bro" \/ live'[P!Array].off # 0)
        BY <3>1, <3>3, StepLive
      <4>2. P!Array # Mine
        BY AreasAre, MineIs DEF PHInv
      <4>3. printf_pc = "create_str_array"
        BY <3>1, <4>1, <4>2, Caller DEF Allocating
      <4> QED
        BY <4>1, <4>3 DEF ArraySmall
    <3> QED
      BY <3>2, <3>3
  <2>2. CASE ~Allocator
    <3>1. live' = live /\ Live' = Live
      BY <2>2, OtherSteps DEF Live
    <3>2. CASE calls' = calls
      BY <3>1, <3>2 DEF ArraySmall, P!Array
    <3>3. CASE calls' # calls
      <4>1. Alone /\ \E f \in Formats : P!Call(f)
        BY <2>2, <3>3
        DEF Moves, phvars, Ask, Program, NextOption, Answer, Alone, Start, printf_vars,
            P!CreateStrArray, P!ExpandFormatter, P!CreateBuffer, P!CopyFormatted,
            P!CopyPastBuffer, P!FreeBros, P!CountText, P!CopyText, P!Write, P!Stop
      <4>2. calls' = calls + 1 /\ hexes = 0 /\ ~called
        BY <4>1 DEF P!Call, PHInv, HexesInv, Expanding, Alone, Ready
      <4>3. Live \ {Mine} = allocated
        BY <4>2, NothingMade DEF PHInv, LockInv, Agreed, Owned
      <4>4. \A h \in allocated : h[2] <= calls
        BY DEF PHInv, PrintfInv, PP!PInv, PP!MemoryInv, PP!Allocated
      <4>5. calls \in Nat
        BY DEF PHInv, PrintfInv, PP!PInv, PP!TypeInv
      <4>6. P!Array' = <<"array", calls + 1, 0>> /\ P!Array'[2] = calls + 1
        BY <4>2 DEF P!Array
      <4>7. P!Array' # Mine
        BY <4>5, <4>6, MineIs DEF Areas
      <4> QED
        BY <3>1, <4>3, <4>4, <4>5, <4>6, <4>7
    <3> QED
      BY <3>2, <3>3
  <2> QED
    BY <2>1, <2>2
<1>3. printf_pc' = "expand_formatters" => P!Percents' >= 1
  <2>1. CASE P!CreateStrArray
    <3>1. P!Percents \in Nat
      BY Counts DEF PHInv
    <3> QED
      BY <2>1, <3>1 DEF P!CreateStrArray, P!Stop, P!Percents
  <2>2. CASE P!ExpandFormatter \/ P!CountText \/ UNCHANGED printf_vars
    BY <2>2 DEF P!ExpandFormatter, P!CountText, P!Stop, printf_vars, ArraySmall, P!Percents
  <2>3. CASE (\E f \in Formats : P!Call(f)) \/ P!CreateBuffer \/ P!CopyText
             \/ P!CopyFormatted \/ P!CopyPastBuffer \/ P!Write \/ P!FreeBros
             \/ StringGone
    BY <2>3 DEF P!Call, P!CreateBuffer, P!CopyText, P!CopyFormatted, P!CopyPastBuffer,
                P!Write, P!FreeBros, P!Stop, StringGone, ArraySmall, P!Percents
  <2> QED
    BY <2>1, <2>2, <2>3, PrintfMoves DEF PrintfStep, P!Next
<1> QED
  BY <1>1, <1>2, <1>3 DEF ArraySmall

(* A free ends with the block taken back, or it has no page for its list.  *)
LEMMA FreeEnds ==
  ASSUME IInv, PointersOK, Step, Freeing
  PROVE  /\ Live' \subseteq Live
         /\ first_fragment_list_header = ErrPtr => first_fragment_list_header' = ErrPtr
         /\ pc' = "idle" => handle \notin Live' \/ first_fragment_list_header' = ErrPtr
<1>1. GoesOn \/ Fails \/ Gives \/ Takes
  BY CallMoves, AtWork
<1>2. ~Gives
  BY DEF Gives, Mallocking, Freeing
<1>3. Live' \subseteq Live
  BY <1>1, <1>2 DEF GoesOn, Fails, Takes, Live
<1>4. InsertFragment \/ DropUsage \/ LargeFreeBro
  BY DEF Step, Freeing, FirstSetup, FindAvailableFragment, NoGoodFragments, OpenPage,
         UndoOpenPage, LinkPage, FixBlockHeader, LargeBro, ClientWrites
<1>5. first_fragment_list_header = ErrPtr => first_fragment_list_header' = ErrPtr
  BY <1>4 DEF InsertFragment, DropUsage, LargeFreeBro, Crash, frags
<1>6. ASSUME Fails PROVE first_fragment_list_header' = ErrPtr
  BY <1>4, <1>6 DEF Fails, InsertFragment, DropUsage, LargeFreeBro, Crash, Inserted,
                    Return, Fault
<1>7. pc' = "idle" => Fails \/ Takes
  BY <1>1, <1>2 DEF GoesOn
<1> QED
  BY <1>3, <1>5, <1>6, <1>7 DEF Takes

LEMMA StringsFreedStep ==
  ASSUME PHInv, IInv, StringsFreed, [Moves]_phvars
  PROVE  StringsFreed'
<1> DEFINE Freers == {"final_copy", "free_buffer", "free_array"}
<1>1. k \in Nat
  BY DEF PHInv, PrintfInv, PP!PInv, PP!TypeInv
<1>2. CASE Allocator
  <2>1. Step /\ called /\ called' /\ UNCHANGED printf_vars
    BY <1>2 DEF Allocator
  <2>2. UNCHANGED <<printf_pc, k, entries>>
    BY <2>1, PrintfStands
  <2> CASE pc = "idle"
    <3>1. pc' = "clobbered" /\ UNCHANGED <<live, first_fragment_list_header>>
      BY <2>1, IdleStep DEF client, frags
    <3> QED
      BY <2>2, <3>1 DEF StringsFreed, UserFreed, Live
  <2> SUFFICES ASSUME pc # "idle" PROVE StringsFreed'
    OBVIOUS
  <2>3. CASE printf_pc \in Freers
    <3>1. PointersOK /\ (Mallocking \/ Freeing)
      BY <2>1, CallMoves DEF PHInv
    <3>2. Freeing /\ (printf_pc = "final_copy" => handle = PointerOf(entries[k + 1].string))
      BY <2>1, <2>3, <3>1, Caller DEF Allocating
    <3>3. /\ Live' \subseteq Live
          /\ first_fragment_list_header = ErrPtr => first_fragment_list_header' = ErrPtr
          /\ pc' = "idle" => handle \notin Live' \/ first_fragment_list_header' = ErrPtr
      BY <2>1, <3>1, <3>2, FreeEnds
    <3>4. \A n \in 1..k : UserFreed(n)'
      BY <2>2, <2>3, <3>3 DEF StringsFreed, UserFreed
    <3>5. printf_pc = "final_copy" /\ pc' = "idle" => UserFreed(k + 1)'
      BY <2>2, <3>2, <3>3 DEF UserFreed, PointerOf
    <3> QED
      BY <2>2, <3>4, <3>5 DEF StringsFreed, UserFreed
  <2>4. CASE printf_pc \notin Freers
    BY <2>2, <2>4 DEF StringsFreed
  <2> QED
    BY <2>3, <2>4
<1>3. CASE ~Allocator
  <2>1. /\ Live' = Live /\ first_fragment_list_header' = first_fragment_list_header
    BY <1>3, OtherSteps DEF Live, frags
  <2>2. ASSUME UNCHANGED <<printf_pc, k, entries>>, printf_pc = "final_copy" /\ called' /\ pc' = "idle"
                                                      => called /\ pc = "idle"
        PROVE  StringsFreed'
    BY <2>1, <2>2 DEF StringsFreed, UserFreed
  <2>3. CASE Ask \/ Program \/ NextOption \/ UNCHANGED phvars
    <3>1. UNCHANGED <<printf_pc, k, entries>>
      BY <2>3 DEF Ask, Program, NextOption, phvars, printf_vars
    <3>2. CASE Ask /\ printf_pc = "final_copy"
      <4>1. \E area \in Frees : FreeCall(PointerOf(area))
        BY <3>2, AskBegins DEF Mallocs, Expanding
      <4>2. pc' # "idle"
        BY <4>1 DEF FreeCall, Crash, Fault
      <4> QED
        BY <2>2, <3>1, <4>2
    <3>3. CASE printf_pc # "final_copy"
      BY <2>2, <3>1, <3>3
    <3>4. CASE (Program \/ NextOption \/ UNCHANGED phvars) /\ printf_pc = "final_copy"
      BY <2>2, <3>1, <3>4 DEF Program, NextOption, phvars, vars
    <3> QED
      BY <2>3, <3>2, <3>3, <3>4
  <2>4. CASE Answer
    <3>1. CASE P!CopyFormatted
      <4>1. printf_pc = "final_copy" /\ called /\ pc = "idle" /\ ~called' /\ k' \in {k, k + 1}
            /\ entries' = entries /\ (printf_pc' \in Freers => k' = k + 1)
        BY <2>4, <3>1 DEF Answer, P!CopyFormatted, P!Stop
      <4>2. \A n \in 1..(k + 1) : UserFreed(n)
        BY <1>1, <4>1 DEF StringsFreed
      <4> QED
        BY <2>1, <4>1, <4>2 DEF StringsFreed, UserFreed
    <3>2. CASE P!CreateBuffer
      <4>1. k = 0 /\ ~called'
        BY <2>4, <3>2 DEF Answer, P!CreateBuffer, PHInv, PrintfInv, PP!PInv, PP!PassesInv, PP!Copied
      <4>2. k' = 0
        BY <3>2, <4>1 DEF P!CreateBuffer, P!Stop
      <4> QED
        BY <4>1, <4>2 DEF StringsFreed
    <3>3. CASE P!FreeBros
      BY <2>1, <2>4, <3>3 DEF Answer, P!FreeBros, StringsFreed, UserFreed
    <3>4. CASE P!CreateStrArray \/ P!ExpandFormatter
      BY <2>4, <3>4 DEF Answer, P!CreateStrArray, P!ExpandFormatter, P!Stop, StringsFreed
    <3>5. CASE UNCHANGED printf_vars
      BY <2>2, <2>4, <3>5 DEF Answer, printf_vars
    <3> QED
      BY <2>4, <3>1, <3>2, <3>3, <3>4, <3>5 DEF Answer
  <2>5. CASE Alone
    <3>1. ~called'
      BY <2>5 DEF Alone, Ready
    <3>2. CASE P!CopyText \/ P!Write
      BY <2>1, <3>1, <3>2 DEF P!CopyText, P!Write, StringsFreed, UserFreed
    <3>3. CASE (\E f \in Formats : P!Call(f)) \/ P!ExpandFormatter \/ P!CountText
      BY <3>1, <3>3 DEF P!Call, P!ExpandFormatter, P!CountText, P!Stop, StringsFreed
    <3>4. CASE P!CopyPastBuffer \/ StringGone
      BY <3>4 DEF P!CopyPastBuffer, StringGone, P!Stop, StringsFreed
    <3> QED
      BY <2>5, <3>2, <3>3, <3>4 DEF Alone, Start, StringGone
  <2> QED
    BY <1>3, <2>3, <2>4, <2>5 DEF Moves
<1> QED
  BY <1>2, <1>3

(* The page goes with its last block. *)
LEMMA LastBlockGoes ==
  ASSUME OrderNow, DropUsage, Live = {handle}, pc' = "idle", OnePage'
  PROVE  FALSE
<1>1. pc = "drop_usage" /\ pc \notin Crashes /\ ~OpeningPage
  BY DEF DropUsage, Crashes, OpeningPage
<1>2. /\ Is(Header(block).page, "norm")
      /\ Emptied(Header(block).page) => Unmap(current_page)
      /\ UNCHANGED arena
  BY DEF DropUsage, Crash, Fault
<1>3. block \in DOMAIN blocks
  BY <1>2, Sizes DEF Header, ZeroHeader, Is
<1>4. Header(block).page = current_page /\ current_page \in Page
      /\ mapped[current_page] = "norm"
  <2>1. Header(block).page \in Page
    BY <1>2 DEF Is
  <2> QED
    BY <1>1, <1>2, <2>1, PageNow
<1>5. handle \in Live /\ block = Address(handle) /\ block.off # 0
  BY <1>1, <1>3 DEF OrderNow, UsesInv, CallersBlock, FreeingSmall
<1>6. handle \in Small
  BY <1>5 DEF Small, Address, At
<1>7. Cardinality(MayBeCharged) <= 1 /\ Cardinality(MayBeCharged) \in Nat
  <2>1. MayBeCharged \subseteq {handle}
    BY DEF MayBeCharged, Small
  <2>2. IsFiniteSet({handle}) /\ Cardinality({handle}) = 1
    BY FS_Singleton
  <2> QED
    BY <2>1, <2>2, FS_Subset, FS_CardinalityType
<1>8. page_hdr[current_page].usages <= Cardinality(MayBeCharged)
  BY <1>4 DEF OrderNow, UsesInv, UsesBounded, Is
<1>9. page_hdr[current_page].usages >= 1
  <2>1. ~Unused
    BY <1>1, <1>6 DEF Unused
  <2> QED
    BY <1>1, <1>4, <2>1 DEF OrderNow, UsesInv, UsesSome, Is
<1>10. page_hdr[current_page].usages \in Int
  BY <1>4 DEF OrderNow, IInv, TypeOK, PageHeader
<1>11. Unmap(current_page)
  BY <1>2, <1>4, <1>7, <1>8, <1>9, <1>10 DEF Emptied
<1>12. mapped \in [Page -> {"none", "norm", "huge", "frag"}]
  BY DEF OrderNow, IInv, TypeOK
<1> QED
  BY <1>2, <1>4, <1>11, <1>12 DEF Unmap, OnePage, Is, arena

(* The current block after a step of malloc: not a listed one. *)
LEMMA BehindInMalloc ==
  ASSUME OrderNow, NotListed, Step, Mallocking, OnePage'
  PROVE  pc' \in Crashes \cup {"link_page"} \/ NotListed'
<1>1. pc \notin Crashes
  BY DEF Mallocking, Crashes
<1>2. first_page_ptr # nullptr
  BY <1>1, PageNow
<1>3. ASSUME UNCHANGED <<current_page, current_block>>,
             fragments' = fragments \/ fragments' = <<>>
      PROVE  NotListed'
  BY <1>3 DEF NotListed, CurrentBlock
<1>4. ASSUME UNCHANGED arena, UNCHANGED frags PROVE NotListed'
  BY <1>3, <1>4 DEF arena, frags
<1>5. ASSUME current_block' = NextBlock, UNCHANGED <<current_page, fragments>>,
             Carving
      PROVE  NotListed'
  <2>1. CurrentBlock' = NextAddress
    BY <1>5 DEF CurrentBlock, NextAddress
  <2>2. \A n \in 1..Len(fragments) : fragments[n] # NextAddress
    BY <1>1, <1>2, <1>5, NextInOrder DEF OrderNow, NotListed, Carving
  <2> QED
    BY <1>5, <2>1, <2>2 DEF NotListed
<1>6. ASSUME NEW how, Crash(how), how \in Crashes PROVE pc' \in Crashes
  BY <1>6 DEF Crash
<1>7. CASE FirstSetup
  BY <1>2, <1>4, <1>7 DEF FirstSetup
<1>8. CASE FindAvailableFragment
  <2>1. ASSUME NEW n \in 1..Len(fragments), RemoveFragment(n), UNCHANGED arena
        PROVE  NotListed'
    <3>1. n = 1 /\ Len(fragments) = 1
      BY DEF OrderNow, IInv, ListHasOne
    <3>2. fragments' = <<>>
      BY <2>1, <3>1 DEF RemoveFragment, RemoveNode, OrderNow, IInv, TypeOK
    <3> QED
      BY <1>3, <2>1, <3>2 DEF arena
  <2> QED
    BY <1>4, <1>8, <2>1 DEF FindAvailableFragment, Crash, Fault, Crashes
<1>9. CASE NoGoodFragments
  BY <1>4, <1>5, <1>9 DEF NoGoodFragments, Carving, Crash, Fault, Crashes, frags
<1>10. CASE OpenPage
  BY <1>5, <1>10 DEF OpenPage, Carving, Crash, Fault, WritePast, Crashes, frags
<1>11. CASE UndoOpenPage \/ LargeBro
  BY <1>4, <1>11 DEF UndoOpenPage, LargeBro
<1>12. ~LinkPage
  BY LinkLeaves DEF OrderNow
<1>13. CASE FixBlockHeader
  BY <1>3, <1>13 DEF FixBlockHeader, Crash, Fault, WritePast, Crashes, frags
<1>14. CASE InsertFragment
  <2>1. CalledByMalloc
    BY <1>14 DEF InsertFragment, Mallocking
  <2> QED
    BY <1>3, <1>14, <2>1 DEF InsertFragment, Inserted, Crash, Fault, Crashes, arena
<1>15. ~LargeFreeBro /\ ~DropUsage
  BY DEF LargeFreeBro, DropUsage, Mallocking
<1> QED
  BY <1>7, <1>8, <1>9, <1>10, <1>11, <1>12, <1>13, <1>14, <1>15, AtWork
  DEF Step, ClientWrites

(* and after a step of free, which lists the block, or fails. *)
LEMMA BehindInFree ==
  ASSUME OrderNow, Step, Freeing
  PROVE  /\ UNCHANGED <<current_page, current_block>>
         /\ fragments' = fragments \/ pc' = "drop_usage"
         /\ pc' = "idle" => \/ fragments = <<>>
                            \/ LargeFreeBro
                            \/ DropUsage /\ block \in DOMAIN blocks
<1>1. LargeFreeBro \/ DropUsage \/ InsertFragment
  BY DEF Step, Freeing, FirstSetup, FindAvailableFragment, NoGoodFragments, OpenPage,
         UndoOpenPage, LinkPage, FixBlockHeader, LargeBro, ClientWrites
<1>2. CASE LargeFreeBro
  BY <1>2 DEF LargeFreeBro, arena, frags
<1>3. CASE DropUsage
  <2>1. pc' = "idle" => block \in DOMAIN blocks
    BY <1>3, Sizes DEF DropUsage, Crash, Fault, Header, ZeroHeader, Is
  <2> QED
    BY <1>3, <2>1 DEF DropUsage, Crash, arena, frags
<1>4. CASE InsertFragment
  <2>1. ~CalledByMalloc
    BY <1>4 DEF InsertFragment, Freeing
  <2>2. first_fragment_list_header = nullptr => fragments = <<>>
    BY Sizes DEF OrderNow, IInv, ListHasOne, TypeOK
  <2> QED
    BY <1>4, <2>1, <2>2 DEF InsertFragment, Inserted, Crash, Fault, arena, frags
<1> QED
  BY <1>1, <1>2, <1>3, <1>4

LEMMA BehindInStep ==
  ASSUME OrderNow, PHInv, NothingLeft, ListBehind, ArrayLast, StringsFreed,
         ArraySmall, Allocator, OnePage'
  PROVE  ListBehind'
<1>0. CASE pc = "idle"
  <2>1. pc' = "clobbered" /\ UNCHANGED printf_vars
    BY <1>0, IdleStep DEF Allocator
  <2>2. UNCHANGED printf_pc
    BY <2>1 DEF printf_vars
  <2> QED
    BY <2>1, <2>2 DEF ListBehind, Crashes
<1> SUFFICES ASSUME pc # "idle" PROVE ListBehind'
  BY <1>0
<1>1. /\ Step /\ called /\ UNCHANGED printf_vars /\ PointersOK /\ PrintfInv
      /\ Mallocking \/ Freeing
  BY CallMoves DEF Allocator, PHInv
<1>2. UNCHANGED <<printf_pc, calls>>
  BY <1>1 DEF printf_vars
<1>3. CASE Mallocking
  <2>1. Allocating
    BY <1>1, <1>3, Caller
  <2>2. pc # "link_page"
    <3>1. pc = "link_page" => LinkPage
      BY <1>1 DEF Step, FirstSetup, FindAvailableFragment, NoGoodFragments, OpenPage,
                  UndoOpenPage, FixBlockHeader, LargeBro, LargeFreeBro, DropUsage,
                  InsertFragment, ClientWrites
    <3> QED
      BY <3>1, LinkLeaves DEF OrderNow
  <2>3. NotListed
    BY <1>3, <2>1, <2>2 DEF ListBehind, NotListed, Mallocking, Crashes
  <2>4. pc' \in Crashes \cup {"link_page"} \/ NotListed'
    BY <1>1, <1>3, <2>3, BehindInMalloc
  <2> QED
    BY <1>2, <2>1, <2>4 DEF ListBehind, NotListed, Allocating, Crashes
<1>4. CASE Freeing
  <2>1. /\ UNCHANGED <<current_page, current_block>>
        /\ fragments' = fragments \/ pc' = "drop_usage"
        /\ pc' = "idle" => \/ fragments = <<>>
                           \/ LargeFreeBro
                           \/ DropUsage /\ block \in DOMAIN blocks
    BY <1>1, <1>4, BehindInFree
  <2>2. /\ printf_pc \in {"idle", "final_copy", "free_buffer", "free_array"}
        /\ printf_pc = "idle" => handle = Mine
        /\ printf_pc = "free_array" => handle = P!Array
    BY <1>1, <1>4, Caller
  <2>3. handle \in Live /\ block = Address(handle)
    BY <1>4, InMallocIs DEF OrderNow, UsesInv, CallersBlock
  <2>4. pc = "drop_usage" <=> DropUsage
    BY <1>1 DEF Step, FirstSetup, FindAvailableFragment, NoGoodFragments, OpenPage,
                UndoOpenPage, LinkPage, FixBlockHeader, LargeBro, LargeFreeBro,
                DropUsage, InsertFragment, ClientWrites
  <2>5. NotListed /\ fragments' = fragments => NotListed'
    BY <2>1 DEF NotListed, CurrentBlock
  <2>6. CASE printf_pc = "idle"
    <3>1. Live \subseteq {Mine}
      BY <2>6 DEF NothingLeft
    <3>2. CASE DropUsage
      <4>1. pc' \in Crashes \/ pc' = "idle"
        BY <3>2 DEF DropUsage, Crash, Fault, Crashes, Return
      <4>2. pc' # "idle"
        BY <2>2, <2>3, <2>6, <3>1, <3>2, LastBlockGoes
      <4> QED
        BY <1>2, <2>6, <4>1, <4>2 DEF ListBehind
    <3>3. CASE ~DropUsage
      <4>1. NotListed
        BY <1>4, <2>4, <2>6, <3>3 DEF ListBehind, NotListed, Allocating, Freeing, Crashes
      <4> QED
        BY <1>2, <2>1, <2>5, <2>6, <4>1 DEF ListBehind, NotListed, Allocating
    <3> QED
      BY <3>2, <3>3
  <2>7. CASE printf_pc = "free_array"
    <3> SUFFICES ASSUME pc' = "idle", Live' \subseteq {Mine} PROVE NotListed'
      BY <1>2, <2>7 DEF ListBehind, NotListed, Allocating
    <3>1. CASE fragments = <<>>
      BY <2>1, <3>1 DEF NotListed
    <3>2. CASE LargeFreeBro
      <4>1. live[handle].off = 0
        BY <2>3, <3>2 DEF LargeFreeBro, OrderNow, UsesInv, CallersBlock, Address, At
      <4> QED
        BY <2>2, <2>3, <2>7, <4>1 DEF ArraySmall
    <3>3. CASE DropUsage /\ block \in DOMAIN blocks
      <4>1. fragments = <<block>> /\ pc = "drop_usage"
        BY <3>3 DEF DropUsage, OrderNow, PagesInv
      <4>2. CASE block # CurrentBlock
        BY <2>1, <2>5, <4>1, <4>2 DEF NotListed
      <4>3. CASE block = CurrentBlock
        <5>1. UserEntry
          BY <2>2, <2>3, <2>7, <4>1, <4>3 DEF ArrayLast, StringsToCome, Crashes
        <5>2. PICK n \in 1..Len(entries) : entries[n].string[1] = "user"
          BY <5>1 DEF UserEntry
        <5>3. k = Len(entries)
          BY <1>1, <2>7 DEF PrintfInv, PP!PInv, PP!PassesInv, PP!Copied
        <5>4. UserFreed(n)
          BY <2>7, <5>2, <5>3 DEF StringsFreed
        <5>5. first_fragment_list_header # ErrPtr
          BY <4>1, Sizes DEF OrderNow, IInv, ListHasOne
        <5>6. Mine \notin Live
          BY <5>2, <5>4, <5>5 DEF UserFreed
        <5>7. Live' = Live \ {handle}
          <6>1. GoesOn \/ Fails \/ Gives \/ Takes
            BY <1>1, CallMoves
          <6>2. ret' = "ok"
            BY <3>3 DEF DropUsage, Return, Crash, Fault
          <6> QED
            BY <1>4, <6>1, <6>2 DEF GoesOn, Fails, Gives, Takes, Mallocking, Freeing
        <5>8. Live = {handle}
          BY <2>3, <5>6, <5>7
        <5> QED
          BY <3>3, <5>8, LastBlockGoes
      <4> QED
        BY <4>2, <4>3
    <3> QED
      BY <2>1, <3>1, <3>2, <3>3
  <2>8. CASE printf_pc \in {"final_copy", "free_buffer"}
    BY <1>2, <2>8 DEF ListBehind, Allocating
  <2> QED
    BY <2>2, <2>6, <2>7, <2>8
<1> QED
  BY <1>1, <1>3, <1>4

(* Every read of a listed header is of a number. *)
LEMMA HeaderSizes ==
  ASSUME TypeOK, NEW a
  PROVE  Header(a).size \in Nat
BY DEF TypeOK, BlockHeader, Header, ZeroHeader

LEMMA NoneFitsInStep ==
  ASSUME OrderNow, NoneListedFits, Step, OnePage'
  PROVE  NoneListedFits'
<1>1. CASE FindAvailableFragment
  <2>1. ASSUME NEW n \in 1..Len(fragments), RemoveFragment(n)
        PROVE  fragments' = <<>>
    <3>1. n = 1 /\ Len(fragments) = 1
      BY <2>1 DEF OrderNow, IInv, ListHasOne
    <3> QED
      BY <2>1, <3>1 DEF RemoveFragment, RemoveNode, OrderNow, IInv, TypeOK
  <2>2. ASSUME \A n \in 1..Len(fragments) : ~BigEnough(n),
               UNCHANGED <<blocks, fragments, req>>
        PROVE  NoneListedFits'
    <3>1. \A n \in 1..Len(fragments) : Header(fragments[n]).size < req
      <4>1. req \in Nat /\ \A n \in 1..Len(fragments) : Header(fragments[n]).size \in Nat
        BY HeaderSizes DEF OrderNow, IInv, TypeOK
      <4> QED
        BY <2>2, <4>1 DEF BigEnough
    <3> QED
      BY <2>2, <3>1 DEF NoneListedFits, Header
  <2>3. CASE pc' \in {"wild", "segv"}
    BY <2>3 DEF NoneListedFits
  <2> QED
    BY <1>1, <2>1, <2>2, <2>3
    DEF FindAvailableFragment, Crash, Fault, NoneListedFits, memory, frags, call
<1>2. CASE NoGoodFragments
  <2>1. CASE pc' = "fix_block_header"
    BY <1>2, <2>1 DEF NoGoodFragments, NoneListedFits, Header, memory, frags,
                      Crash, Fault, Return
  <2>2. CASE pc' # "fix_block_header"
    BY <1>2, <2>2 DEF NoGoodFragments, NoneListedFits, Crash, Fault, Return
  <2> QED
    BY <2>1, <2>2
<1>3. ~LinkPage
  BY LinkLeaves DEF OrderNow
<1>4. CASE FirstSetup \/ OpenPage \/ UndoOpenPage \/ FixBlockHeader \/ LargeBro
           \/ LargeFreeBro \/ DropUsage \/ InsertFragment \/ ClientWrites
  <2>1. pc' \notin {"no_good_fragments", "fix_block_header"}
    BY <1>4 DEF FirstSetup, OpenPage, UndoOpenPage, FixBlockHeader, LargeBro,
                LargeFreeBro, DropUsage, InsertFragment, ClientWrites, Inserted, Crash,
                Fault, WritePast, Return
  <2> QED
    BY <2>1 DEF NoneListedFits
<1> QED
  BY <1>1, <1>2, <1>3, <1>4 DEF Step

(* What printf owns while it expands is in use. *)
LEMMA OwnedInUse ==
  ASSUME PHInv, IInv, pc \notin Crashes, printf_pc = "expand_formatters"
  PROVE  allocated \subseteq Live \ {Mine}
<1>1. CASE called /\ pc = "idle"
  <2>1. Frees = {}
    BY DEF Frees
  <2> QED
    BY <1>1, <2>1 DEF PHInv, LockInv, Answered, Agreed, Owned
<1>2. CASE ~called
  BY <1>2 DEF PHInv, LockInv, Agreed, Owned
<1>3. CASE called /\ pc # "idle"
  <2>1. Mallocking \/ Freeing
    BY <1>3 DEF IInv, TypeOK, Steps, Crashes, Mallocking, Freeing
  <2> QED
    BY <1>3, <2>1 DEF PHInv, LockInv, Agreed, Owned
<1> QED
  BY <1>1, <1>2, <1>3

(* At the end of the format all strings are made.                          *)
LEMMA AllMade ==
  ASSUME PHInv, IInv, ArraySmall, pc \notin Crashes, printf_pc = "expand_formatters",
         P!Char(i) = P!NUL, ~UserEntry
  PROVE  ~NoString /\ ~OneString
<1>1. PP!TypeInv /\ PP!MemoryInv /\ PP!PassesInv /\ PrintfInv
  BY DEF PHInv, PrintfInv, PP!PInv
<1>2. PICK t : PP!SecondPass(t) /\ PP!Copied(t)
  BY <1>1 DEF PP!PassesInv
<1>3. k = 0 /\ i <= Len(format) /\ Len(entries) = PP!PercentsBefore(i)
  BY <1>2 DEF PP!SecondPass, PP!Copied, PP!Reached
<1>4. i = Len(format)
  <2>1. i \in Nat /\ PP!FormatOK
    BY <1>1 DEF PP!TypeInv
  <2>2. CASE i < Len(format)
    <3>1. PP!Char(i) # "NUL"
      BY <2>1, <2>2, PP!CharAt, Assumed DEF PP!Alphabet
    <3> QED
      BY <3>1, SameNames DEF P!NUL
  <2> QED
    BY <1>3, <2>1, <2>2 DEF PP!FormatOK
<1>5. Len(entries) = P!Percents
  BY <1>1, <1>3, <1>4, PP!BeforeEnds, Assumed, SameNames DEF PP!TypeInv
<1>6. P!Percents >= 1 /\ P!Percents \in Nat /\ Len(entries) \in Nat
  BY <1>1, Counts DEF ArraySmall
<1>7. ASSUME NEW n \in 1..Len(entries)
      PROVE  /\ \E j \in 0..Len(format) : entries[n].string = PP!Expansion(n - 1, j)
             /\ entries[n].string \in Others
  <2>1. entries[n].string[1] # "user"
    BY DEF UserEntry
  <2>2. entries[n].string \in allocated
    BY <1>1, <1>3, <2>1 DEF PP!MemoryInv, PP!InUse
  <2>3. PICK j \in 0..Len(format) : entries[n].string = PP!Expansion(n - 1, j)
    BY <1>1, <2>1 DEF PP!MemoryInv, PP!Strings
  <2>4. entries[n].string # P!Array
    BY <2>3, SameNames, AreasNames
  <2> QED
    BY <2>2, <2>3, <2>4, OwnedInUse DEF Others
<1>8. ~NoString
  <2>1. 1 \in 1..Len(entries)
    BY <1>5, <1>6
  <2> QED
    BY <1>7, <2>1 DEF NoString
<1>9. ~OneString
  <2> SUFFICES ASSUME P!Percents >= 2, NEW h, Others = {h} PROVE FALSE
    BY DEF OneString
  <2>1. 1 \in 1..Len(entries) /\ 2 \in 1..Len(entries)
    BY <1>5, <1>6
  <2>2. PICK a \in 0..Len(format) : entries[1].string = PP!Expansion(0, a)
    BY <1>7, <2>1
  <2>3. PICK b \in 0..Len(format) : entries[2].string = PP!Expansion(1, b)
    BY <1>7, <2>1
  <2>4. b \in Nat
    BY <1>1 DEF PP!TypeInv, PP!FormatOK
  <2>5. entries[1].string # entries[2].string
    BY <1>1, <2>2, <2>3, <2>4, PP!ExpansionsDiffer, Assumed
  <2> QED
    BY <1>7, <2>1, <2>5
<1> QED
  BY <1>8, <1>9

(* Why the array may be the current block. *)
LastWell == UserEntry \/ (StringsToCome /\ (NoString \/ OneString))

LEMMA LastWellKept ==
  ASSUME InOrder, HeadersKept, UNCHANGED <<live, fragments, printf_vars>>,
         pc' # "fix_block_header", LastWell
  PROVE  LastWell'
<1>1. Others' = Others
  BY PrintfStands DEF Others, Live
<1>2. \A n \in 1..Len(fragments) : Header(fragments[n])' = Header(fragments[n])
  BY DEF InOrder, Listed, HeadersKept, Header
<1>3. NoneFits => NoneFits'
  BY <1>2 DEF NoneFits
<1>4. NoString => NoString'
  BY <1>1, <1>3, PrintfStands DEF NoString
<1>5. OneString => OneString'
  BY <1>1, PrintfStands DEF OneString
<1> QED
  BY <1>4, <1>5, PrintfStands DEF LastWell

(* The array was made. *)
LEMMA LastOfArray ==
  ASSUME OrderNow, PHInv, NothingLeft, NoneListedFits, AskedFor, ArraySmall, Step, called,
         UNCHANGED printf_vars, printf_pc = "create_str_array", Mallocking,
         P!Array \in Live', Address(P!Array)' = CurrentBlock'
  PROVE  LastWell'
<1>1. /\ handle = P!Array /\ PrintfInv /\ HexesInv /\ PointersOK /\ Agreed
      /\ live[handle] = NoBlock
  BY Caller, InMallocIs DEF PHInv, LockInv, OrderNow, UsesInv, CallersBlock
<1>2. P!Array \notin Live
  BY <1>1 DEF Live
<1>3. pc # "large_bro"
  BY DEF ArraySmall
<1>4. GoesOn \/ Fails \/ Gives \/ Takes
  BY <1>1, CallMoves, AtWork
<1>5. Gives
  BY <1>2, <1>4, PrintfStands DEF GoesOn, Fails, Takes, Live
<1>6. FixBlockHeader /\ pc = "fix_block_header"
  BY <1>3, <1>5 DEF Gives, Mallocking, Step, FirstSetup, FindAvailableFragment, NoGoodFragments,
                    OpenPage, UndoOpenPage, LinkPage, FixBlockHeader, LargeBro,
                    LargeFreeBro, DropUsage, InsertFragment, ClientWrites, Inserted, Return,
                    CalledByMalloc, Crash, Fault, WritePast
<1>7. /\ live' = [live EXCEPT ![handle] = [page |-> block.page, off |-> block.off, size |-> req]]
      /\ UNCHANGED <<current_page, current_block, fragments>> /\ pc' = "idle"
      /\ \E hdr : blocks' = WithHeader(block, hdr)
  BY <1>5, <1>6 DEF Gives, FixBlockHeader, Crash, Fault, WritePast, frags
<1>8. block = CurrentBlock
  <2>1. block \in Address0 /\ P!Array \in DOMAIN live /\ P!Array' = P!Array
    BY <1>1, PrintfStands DEF OrderNow, IInv, TypeOK, PointersOK
  <2>2. Address(P!Array)' = block
    BY <1>1, <1>7, <2>1 DEF Address, At, Address0
  <2>3. CurrentBlock' = CurrentBlock
    BY <1>7 DEF CurrentBlock
  <2> QED
    BY <2>2, <2>3
<1>9. \A n \in 1..Len(fragments) :
        Header(fragments[n]).size < req /\ fragments[n] # block
  BY <1>6, <1>8 DEF NoneListedFits, OrderNow, InOrder, InHand
<1>10. req = 16 * P!Percents /\ req \in Nat \ {0} /\ P!Percents \in Nat
  BY <1>1, <1>3, InMallocIs, Counts DEF AskedFor, EntrySize, PointersOK
<1>11. Others' = {}
  <2>1. Live' = Live \cup {P!Array}
    BY <1>1, <1>5 DEF Gives
  <2>2. Live \ {Mine} = allocated
    BY <1>1, NothingMade DEF Agreed, Owned, HexesInv, Expanding
  <2>3. \A h \in allocated : h[2] < calls
    BY <1>1 DEF PrintfInv, PP!PInv, PP!MemoryInv, PP!Allocated
  <2>4. calls \in Nat
    BY <1>1 DEF PrintfInv, PP!PInv, PP!TypeInv
  <2>5. Live \ {Mine} = {}
    BY <2>2, <2>3, <2>4 DEF NothingLeft
  <2> QED
    BY <2>1, <2>5, PrintfStands DEF Others
<1>12. P!Percents = 1 => NoneFits'
  <2>1. \A n \in 1..Len(fragments) : Header(fragments[n])' = Header(fragments[n])
    BY <1>7, <1>9 DEF Header, WithHeader
  <2>2. \A n \in 1..Len(fragments) : Header(fragments[n]).size \in Nat
    BY HeaderSizes DEF OrderNow, IInv
  <2> QED
    BY <1>7, <1>9, <1>10, <2>1, <2>2 DEF NoneFits, StringSize
<1>13. P!Percents >= 2 \/ P!Percents = 1
  BY <1>10
<1> QED
  BY <1>11, <1>12, <1>13, PrintfStands DEF LastWell, NoString, StringsToCome

(* A string, or the buffer, was made next to it. *)
LEMMA LastOfString ==
  ASSUME OrderNow, PHInv, LastWell, Step, called, pc' \notin Crashes,
         UNCHANGED printf_vars, printf_pc = "expand_formatters",
         pc = "fix_block_header",
         P!Array \in Small, Address(P!Array) = CurrentBlock
  PROVE  LastWell'
<1>1. PointersOK /\ Mallocking /\ FixBlockHeader
  BY DEF PHInv, Mallocking, Step, FirstSetup, FindAvailableFragment, NoGoodFragments,
         OpenPage, UndoOpenPage, LinkPage, FixBlockHeader, LargeBro, LargeFreeBro,
         DropUsage, InsertFragment, ClientWrites
<1>2. /\ pc' = "idle" /\ ret' = "ok" /\ fragments' = fragments
  BY <1>1 DEF FixBlockHeader, Return, Crash, Fault, WritePast, Crashes, frags
<1>3. Live' = Live \cup {handle}
  BY <1>1, <1>2, CallMoves, AtWork DEF GoesOn, Fails, Gives, Takes, Freeing
<1>4. handle # P!Array /\ handle # Mine /\ handle \in Handles
  BY <1>1, Caller DEF PointersOK
<1>5. CASE UserEntry
  BY <1>5, PrintfStands DEF LastWell
<1>6. CASE ~UserEntry
  <2>1. P!Percents >= 2 /\ Others = {}
    BY <1>6 DEF LastWell, NoString, NoneFits, OneString
  <2>2. block # CurrentBlock
    BY DEF OrderNow, InOrder, InHand
  <2>3. fragments = <<>>
    BY <2>2 DEF OrderNow, InOrder, InHand
  <2>4. Others' = {handle}
    BY <1>3, <1>4, <2>1, PrintfStands DEF Others
  <2>5. OneString'
    BY <1>2, <1>4, <2>1, <2>3, <2>4, PrintfStands DEF OneString
  <2> QED
    BY <2>5, PrintfStands DEF LastWell, StringsToCome
<1> QED
  BY <1>5, <1>6

(* A block of the list is taken for a string. *)
LEMMA LastOfTaken ==
  ASSUME OrderNow, PHInv, LastWell, ArraySmall, AskedFor, called,
         UNCHANGED <<printf_vars, live>>, printf_pc = "expand_formatters",
         pc = "find_available_fragment",
         NEW n \in 1..Len(fragments), BigEnough(n)
  PROVE  LastWell'
<1>1. pc \notin Crashes /\ InMalloc /\ pc # "large_bro" /\ Mallocking
  BY DEF Crashes, InMalloc, SmallCall, Mallocking
<1>2. CASE UserEntry
  BY <1>2, PrintfStands DEF LastWell
<1>3. CASE ~UserEntry
  <2>1. ~OneString
    BY DEF OneString
  <2>2. Expanding
    BY <1>1, <1>3, Caller, AllMade DEF OrderNow, LastWell
  <2>3. req = StringSize
    BY <1>1, <2>2 DEF AskedFor, Expanding
  <2>4. ~NoneFits
    <3>1. Header(fragments[n]).size \in Nat
      BY HeaderSizes DEF OrderNow, IInv
    <3> QED
      BY <2>3, <3>1 DEF NoneFits, BigEnough, StringSize
  <2>5. Others = {} /\ P!Percents >= 2
    BY <1>3, <2>1, <2>4 DEF LastWell, NoString
  <2>6. Others' = Others
    BY PrintfStands DEF Others, Live
  <2> QED
    BY <2>5, <2>6, PrintfStands DEF LastWell, NoString, StringsToCome
<1> QED
  BY <1>2, <1>3

(* malloc of a string, or of the buffer, with the array there. *)
LEMMA LastInExpand ==
  ASSUME OrderNow, PHInv, ListBehind, ArrayLast, AskedFor, ArraySmall,
         Step, called, UNCHANGED printf_vars, printf_pc = "expand_formatters",
         Mallocking, OnePage', pc' \notin Crashes,
         P!Array \in Live, live'[P!Array] = live[P!Array],
         Address(P!Array)' = CurrentBlock'
  PROVE  LastWell'
<1> DEFINE x == P!Array
<1>1. /\ pc \notin Crashes /\ Address(x)' = Address(x) /\ x \in Small
      /\ InOrder /\ first_page_ptr # nullptr
  <2>1. pc \notin Crashes
    BY DEF Mallocking, Crashes
  <2>2. Address(x)' = Address(x)
    BY PrintfStands DEF Address
  <2>3. x \in Small
    BY DEF ArraySmall, Small
  <2> QED
    BY <2>1, <2>2, <2>3, PageNow DEF OrderNow
<1>2. CurrentBlock' = CurrentBlock => LastWell
  BY <1>1 DEF ArrayLast, Crashes, LastWell
<1> HIDE DEF x
<1>3. NotListed
  <2>1. pc # "link_page"
    <3>1. pc = "link_page" => LinkPage
      BY DEF Step, FirstSetup, FindAvailableFragment, NoGoodFragments, OpenPage,
             UndoOpenPage, FixBlockHeader, LargeBro, LargeFreeBro, DropUsage,
             InsertFragment, ClientWrites
    <3> QED
      BY <3>1, LinkLeaves DEF OrderNow
  <2> QED
    BY <1>1, <2>1 DEF ListBehind, NotListed, Allocating, Mallocking
<1>4. CurrentBlock' # NextAddress \/ ~Carving
  <2>1. Carving => Address(x) # NextAddress
    BY <1>1, <1>3, NextInOrder DEF OrderNow, NotListed, Carving
  <2> QED
    BY <1>1, <2>1 DEF x
<1>5. ASSUME UNCHANGED <<current_page, current_block>>, HeadersKept, live' = live,
             fragments' = fragments, pc' # "fix_block_header"
      PROVE  LastWell'
  <2>1. CurrentBlock' = CurrentBlock
    BY <1>5 DEF CurrentBlock
  <2> QED
    BY <1>1, <1>2, <1>5, <2>1, LastWellKept
<1>6. ASSUME UNCHANGED <<memory, arena, frags, live>>, pc' # "fix_block_header"
      PROVE  LastWell'
  BY <1>5, <1>6, KeptBySame DEF memory, arena, frags
<1>7. ASSUME current_block' = NextBlock, current_page' = current_page, Carving
      PROVE  FALSE
  BY <1>4, <1>7 DEF CurrentBlock, NextAddress
<1>8. CASE FirstSetup
  BY <1>1, <1>6, <1>8 DEF FirstSetup, client
<1>9. CASE FindAvailableFragment
  <2>1. ASSUME NEW n \in 1..Len(fragments), BigEnough(n), UNCHANGED <<arena, client>>
        PROVE  LastWell'
    <3>1. CurrentBlock' = CurrentBlock /\ live' = live
      BY <2>1 DEF arena, client, CurrentBlock
    <3> QED
      BY <1>2, <1>9, <2>1, <3>1, LastOfTaken DEF FindAvailableFragment
  <2> QED
    BY <1>6, <1>9, <2>1 DEF FindAvailableFragment, Crash, Fault, Crashes, client
<1>10. CASE NoGoodFragments
  <2>1. ASSUME UNCHANGED <<blocks, arena, frags, live>>, pc' # "fix_block_header"
        PROVE  LastWell'
    BY <1>5, <2>1, KeptBySame DEF arena, frags
  <2> QED
    BY <1>7, <1>10, <2>1
    DEF NoGoodFragments, Carving, Crash, Fault, Crashes, Return, memory, client
<1>11. CASE OpenPage
  BY <1>7, <1>11 DEF OpenPage, Carving, Crash, Fault, WritePast, Crashes
<1>12. CASE UndoOpenPage
  <2>1. OpeningPage /\ Unmap(next_page_ptr)
    BY <1>12 DEF UndoOpenPage, OpeningPage
  <2>2. HeadersKept
    BY <1>1, <2>1, PageNow, KeptByUnmap
  <2> QED
    BY <1>5, <1>12, <2>2 DEF UndoOpenPage, Return, arena, frags
<1>13. ~LinkPage
  BY LinkLeaves DEF OrderNow
<1>14. CASE FixBlockHeader
  <2>1. CurrentBlock' = CurrentBlock /\ pc = "fix_block_header"
    BY <1>14 DEF FixBlockHeader, Crash, Fault, WritePast, Crashes, CurrentBlock
  <2> QED
    BY <1>1, <1>2, <2>1, LastOfString DEF x
<1>15. CASE LargeBro
  <2>1. pc = "large_bro" /\ CurrentBlock' = CurrentBlock
    BY <1>15 DEF LargeBro, arena, CurrentBlock
  <2>2. ~Expanding /\ P!Char(i) = P!NUL
    BY <2>1, Caller DEF ArraySmall
  <2>3. UserEntry
    BY <1>1, <1>2, <2>1, <2>2, AllMade DEF LastWell, OrderNow
  <2> QED
    BY <2>3, PrintfStands DEF LastWell
<1>16. CASE InsertFragment
  <2>1. /\ pc = "insert_fragment" /\ OpeningPage /\ CurrentBlock' = CurrentBlock
    BY <1>16 DEF InsertFragment, Mallocking, CalledByMalloc, OpeningPage, Crash, arena, CurrentBlock
  <2>2. Address(x) # CurrentBlock
    BY <1>1, <2>1 DEF InOrder, InHand
  <2> QED
    BY <1>1, <2>1, <2>2 DEF x
<1>17. ~LargeFreeBro /\ ~DropUsage
  BY DEF LargeFreeBro, DropUsage, Mallocking
<1> QED
  BY <1>8, <1>9, <1>10, <1>11, <1>12, <1>13, <1>14, <1>15, <1>16, <1>17, AtWork
  DEF Step, ClientWrites

LEMMA ArrayLastInStep ==
  ASSUME OrderNow, PHInv, NothingLeft, ListBehind, ArrayLast, NoneListedFits,
         AskedFor, ArraySmall, Allocator, OnePage'
  PROVE  ArrayLast'
<1>0. CASE pc = "idle"
  BY <1>0, IdleStep DEF Allocator, ArrayLast, Crashes
<1> SUFFICES ASSUME pc # "idle" PROVE ArrayLast'
  BY <1>0
<1>1. /\ Step /\ called /\ UNCHANGED printf_vars /\ PointersOK
      /\ Mallocking \/ Freeing
  BY CallMoves DEF Allocator, PHInv
<1>2. P!Array' = P!Array /\ printf_pc' = printf_pc
  BY <1>1, PrintfStands
<1> SUFFICES ASSUME P!Array \in Live', Address(P!Array)' = CurrentBlock',
                    printf_pc \notin {"idle", "wild", "segv", "panic", "clobbered"},
                    pc' \notin Crashes
             PROVE  LastWell'
  BY <1>2 DEF ArrayLast, LastWell
<1>3. ~(P!Array \in Live /\ live'[P!Array] = live[P!Array]) =>
        P!Array = handle /\ Mallocking
  BY <1>1, StepLive DEF OrderNow
<1>4. CASE Freeing
  <2>1. ~Mallocking /\ pc \notin Crashes
    BY <1>4 DEF Mallocking, Freeing, Crashes
  <2>2. P!Array \in Live /\ Address(P!Array)' = Address(P!Array)
    BY <1>2, <1>3, <2>1 DEF Address
  <2>3. CurrentBlock' = CurrentBlock
    BY <1>1, <1>4, BehindInFree DEF CurrentBlock
  <2>4. ~StringsToCome
    BY <1>1, <1>4, Caller DEF StringsToCome
  <2> QED
    BY <1>1, <2>1, <2>2, <2>3, <2>4, PrintfStands DEF ArrayLast, LastWell
<1>5. CASE Mallocking /\ printf_pc = "create_str_array"
  BY <1>1, <1>5, LastOfArray
<1>6. CASE Mallocking /\ printf_pc = "expand_formatters"
  <2>1. P!Array \in Live /\ live'[P!Array] = live[P!Array]
    BY <1>1, <1>3, <1>6, Caller
  <2> QED
    BY <1>1, <1>6, <2>1, LastInExpand
<1> QED
  BY <1>1, <1>4, <1>5, <1>6, Caller DEF Allocating

(* printf goes on, the allocator does not. *)
LEMMA ArrayLastElse ==
  ASSUME PHInv, IInv, ArrayLast, ArraySmall, [Moves]_phvars, ~Allocator
  PROVE  ArrayLast'
<1>1. UNCHANGED <<live, memory, arena, frags>>
  BY OtherSteps
<1>2. CurrentBlock' = CurrentBlock /\ Live' = Live /\ Small' = Small
  BY <1>1, SameSmall DEF arena, CurrentBlock
<1>3. \A h : Address(h)' = Address(h)
  BY <1>1 DEF Address
<1>4. CASE UNCHANGED phvars
  <2>1. UNCHANGED <<printf_vars, pc>>
    BY <1>4 DEF phvars, vars
  <2>2. NoneFits' = NoneFits /\ Others' = Others /\ OneString' = OneString
    BY <1>1, <1>2, <2>1, PrintfStands DEF NoneFits, Others, OneString, Header, memory, frags
  <2> QED
    BY <1>2, <1>3, <2>1, <2>2, PrintfStands DEF ArrayLast, NoString
<1>5. ASSUME pc = "idle", pc' # "fix_block_header",
             P!Array' = P!Array, P!Percents' = P!Percents,
             printf_pc \notin {"idle", "wild", "segv", "panic", "clobbered"},
             P!Array \in Live, Address(P!Array) = CurrentBlock
      PROVE  LastWell /\ (NoString => NoString') /\ (OneString => OneString')
  <2>1. NoneFits => NoneFits'
    BY <1>1, <1>5 DEF NoneFits, Header, memory, frags
  <2>2. Others' = Others
    BY <1>2, <1>5 DEF Others
  <2> QED
    BY <1>1, <1>5, <2>1, <2>2 DEF ArrayLast, Crashes, LastWell, NoString, OneString, frags
<1>6. ASSUME entries' = entries \/ \E e : entries' = Append(entries, e), UserEntry
      PROVE  UserEntry'
  <2>1. entries \in Seq(PP!Entry)
    BY DEF PHInv, PrintfInv, PP!PInv, PP!TypeInv
  <2> QED
    BY <1>6, <2>1 DEF UserEntry
<1>7. CASE Ask \/ Program \/ NextOption
  <2>1. UNCHANGED printf_vars /\ pc = "idle"
    BY <1>7 DEF Ask, Program, NextOption, Ready
  <2>2. pc' # "fix_block_header"
    <3>1. ASSUME NEW h, NEW n, MallocCall(h, n) PROVE pc' # "fix_block_header"
      BY <3>1 DEF MallocCall, Return
    <3>2. ASSUME NEW h, FreeCall(h) PROVE pc' # "fix_block_header"
      BY <3>2 DEF FreeCall, Crash, Fault
    <3> QED
      BY <1>7, <3>1, <3>2 DEF Ask, Program, NextOption, Ready, vars
  <2> SUFFICES ASSUME P!Array \in Live, Address(P!Array) = CurrentBlock,
                      printf_pc \notin {"idle", "wild", "segv", "panic", "clobbered"}
               PROVE  LastWell'
    BY <1>2, <1>3, <2>1, PrintfStands DEF ArrayLast, LastWell
  <2> QED
    BY <1>5, <2>1, <2>2, PrintfStands DEF LastWell
<1>8. CASE Answer \/ Alone
  <2>1. pc = "idle" /\ pc' = "idle"
    BY <1>8 DEF Answer, Alone, Ready, vars
  <2>2. CASE \E f \in Formats : P!Call(f)
    <3>1. calls' = calls + 1 /\ printf_pc = "idle"
      BY <2>2 DEF P!Call
    <3>2. hexes = 0
      BY <3>1 DEF PHInv, HexesInv, Expanding
    <3>3. Live \ {Mine} = allocated
      <4>1. Alone
        BY <1>8, <2>2, <3>1 DEF Answer, printf_vars, P!Call, PHInv, PrintfInv, PP!PInv, PP!TypeInv
      <4> QED
        BY <3>2, <4>1, NothingMade DEF PHInv, LockInv, Agreed, Owned, Alone, Ready
    <3>4. \A h \in allocated : h[2] <= calls
      BY DEF PHInv, PrintfInv, PP!PInv, PP!MemoryInv, PP!Allocated
    <3>5. calls \in Nat
      BY DEF PHInv, PrintfInv, PP!PInv, PP!TypeInv
    <3>6. P!Array' = <<"array", calls + 1, 0>> /\ P!Array'[2] = calls + 1
      BY <3>1 DEF P!Array
    <3>7. P!Array' # Mine
      BY <3>5, <3>6, MineIs DEF Areas
    <3>8. P!Array' \notin Live'
      BY <1>2, <3>3, <3>4, <3>5, <3>6, <3>7
    <3> QED
      BY <3>8 DEF ArrayLast
  <2>3. CASE ~\E f \in Formats : P!Call(f)
    <3> SUFFICES ASSUME P!Array' \in Live, Address(P!Array') = CurrentBlock,
                        printf_pc' \notin {"idle", "wild", "segv", "panic", "clobbered"}
                 PROVE  LastWell'
      <4>1. Address(P!Array)' = Address(P!Array')
        BY <1>1 DEF Address
      <4> QED
        BY <1>2, <4>1 DEF ArrayLast, LastWell
    <3>1. \/ UNCHANGED printf_vars
          \/ P!CreateStrArray \/ P!ExpandFormatter \/ P!CreateBuffer
          \/ P!CopyFormatted \/ P!FreeBros \/ P!CountText \/ P!CopyText \/ P!Write
      <4>1. CASE P!CopyPastBuffer \/ P!Stop("segv")
        <5>1. printf_pc' \in {"clobbered", "segv"}
          BY <4>1 DEF P!CopyPastBuffer, P!Stop
        <5> QED
          BY <5>1
      <4> QED
        BY <1>8, <2>3, <4>1 DEF Answer, Alone, Start
    <3>2. /\ P!Array' = P!Array /\ P!Percents' = P!Percents
          /\ printf_pc \notin {"idle", "wild", "segv", "panic", "clobbered"}
      <4>1. UNCHANGED <<calls, format>>
        BY <3>1 DEF printf_vars, P!CreateStrArray, P!ExpandFormatter, P!CreateBuffer,
                    P!CopyFormatted, P!FreeBros, P!CountText, P!CopyText, P!Write, P!Stop
      <4>2. printf_pc \notin {"idle", "wild", "segv", "panic", "clobbered"}
        BY <3>1 DEF printf_vars, P!CreateStrArray, P!ExpandFormatter, P!CreateBuffer,
                    P!CopyFormatted, P!FreeBros, P!CountText, P!CopyText, P!Write, P!Stop
      <4> QED
        BY <4>1, <4>2 DEF P!Array, P!Percents
    <3>3. LastWell /\ (NoString => NoString') /\ (OneString => OneString')
      BY <1>5, <2>1, <3>2
    <3>4. UserEntry => UserEntry'
      <4>1. entries' = entries \/ \E e : entries' = Append(entries, e)
        BY <3>1 DEF printf_vars, P!CreateStrArray, P!ExpandFormatter, P!CreateBuffer,
                    P!CopyFormatted, P!FreeBros, P!CountText, P!CopyText, P!Write, P!Stop,
                    P!ExpandString, P!ExpandHex, P!ExpandDecimal, P!AddEntry
      <4> QED
        BY <1>6, <4>1
    <3>5. CASE StringsToCome'
      <4>1. StringsToCome
        BY <3>1, <3>5 DEF StringsToCome, printf_vars, P!CreateStrArray, P!ExpandFormatter,
                    P!CreateBuffer, P!CopyFormatted, P!FreeBros, P!CountText, P!CopyText,
                    P!Write, P!Stop
      <4> QED
        BY <3>3, <3>4, <3>5 DEF LastWell
    <3>6. CASE ~StringsToCome'
      <4>1. CASE StringsToCome
        <5>1. P!CreateBuffer
          BY <3>1, <3>6, <4>1 DEF StringsToCome, printf_vars, P!CreateStrArray,
                    P!ExpandFormatter, P!CreateBuffer, P!CopyFormatted, P!FreeBros,
                    P!CountText, P!CopyText, P!Write, P!Stop
        <5>2. printf_pc = "expand_formatters" /\ P!Char(i) = P!NUL
          BY <5>1 DEF P!CreateBuffer
        <5>3. UserEntry
          BY <2>1, <3>3, <5>2, AllMade DEF LastWell, Crashes
        <5> QED
          BY <3>4, <5>3 DEF LastWell
      <4>2. CASE ~StringsToCome
        BY <3>3, <3>4, <4>2 DEF LastWell
      <4> QED
        BY <4>1, <4>2
    <3> QED
      BY <3>5, <3>6
  <2> QED
    BY <2>2, <2>3
<1> QED
  BY <1>4, <1>7, <1>8 DEF Moves

(* Between the steps of the allocator the page stays as it is.             *)
LEMMA OrderUnchanged ==
  ASSUME InOrder, UNCHANGED vars
  PROVE  InOrder'
<1>1. /\ UNCHANGED <<mapped, page_hdr, blocks, current_page, current_block, fragments,
                     pc, handle, req, block, next_page_ptr, live>>
  BY DEF vars, memory, arena, frags, call, client
<1>2. Small' = Small /\ (\A h : Address(h)' = Address(h)) /\ CurrentBlock' = CurrentBlock
  BY <1>1 DEF Small, Live, Address, CurrentBlock
<1>3. (\A a : End(a)' = End(a)) /\ (\A h : Dropping(h)' <=> Dropping(h))
  BY <1>1 DEF End, Dropping
<1>4. Taken' = Taken
  BY <1>1, <1>2 DEF Taken
<1>5. SmallHeaders' /\ Listed'
  BY <1>1, <1>2, <1>3 DEF InOrder, SmallHeaders, Listed
<1>6. InHand'
  BY <1>1, <1>2 DEF InOrder, InHand, OpeningPage
<1>7. Tiled' /\ CurrentIsLast'
  BY <1>1, <1>2, <1>3, <1>4 DEF InOrder, Tiled, CurrentIsLast
<1> QED
  BY <1>5, <1>6, <1>7 DEF InOrder

(* A call begins, by printf or by the program. *)
LEMMA CallBegins ==
  ASSUME PHInv, Ask \/ Program
  PROVE  /\ pc = "idle" /\ ~called /\ UNCHANGED printf_vars
         /\ \/ \E h \in Handles, n \in Nat : MallocCall(h, n)
            \/ \E h \in Handles : FreeCall(h)
         /\ pc' \notin {"no_good_fragments", "fix_block_header"}
         /\ pc' = "idle" => printf_pc # "free_array"
<1>1. \/ \E h \in Handles, n \in Nat : MallocCall(h, n)
      \/ \E h \in Handles : FreeCall(h)
  BY AskBegins, MineIs, ClientAssumption DEF Program
<1>2. pc' \notin {"no_good_fragments", "fix_block_header"}
  BY <1>1 DEF MallocCall, FreeCall, Return, Crash, Fault
<1>3. pc' = "idle" => printf_pc # "free_array"
  <2>1. CASE Program
    BY <2>1 DEF Program
  <2>2. CASE Ask
    <3>1. ASSUME NEW h, FreeCall(h) PROVE pc' # "idle"
      BY <3>1 DEF FreeCall, Crash, Fault
    <3>2. ASSUME NEW m \in Mallocs PROVE printf_pc # "free_array"
      BY <3>2 DEF Mallocs, Expanding
    <3> QED
      BY <2>2, <3>1, <3>2, AskBegins
  <2> QED
    BY <2>1, <2>2
<1>4. pc = "idle" /\ ~called /\ UNCHANGED printf_vars
  BY DEF Ask, Program, Ready
<1> QED
  BY <1>1, <1>2, <1>3, <1>4

LEMMA OrderElse ==
  ASSUME PHInv, OrderNow, [Moves]_phvars, ~Allocator
  PROVE  InOrder'
<1>1. CASE Ask \/ Program
  BY <1>1, CallBegins, OrderMallocCall, OrderFreeCall
<1>2. CASE NextOption \/ Answer \/ Alone \/ UNCHANGED phvars
  <2>1. UNCHANGED vars
    BY <1>2 DEF NextOption, Answer, Alone, phvars
  <2> QED
    BY <2>1, OrderUnchanged DEF OrderNow
<1> QED
  BY <1>1, <1>2 DEF Moves

LEMMA BehindElse ==
  ASSUME PHInv, ListBehind, NothingLeft', [Moves]_phvars, ~Allocator
  PROVE  ListBehind'
<1>1. UNCHANGED <<live, memory, arena, frags>>
  BY OtherSteps
<1>2. NotListed' <=> NotListed
  BY <1>1 DEF NotListed, CurrentBlock, arena, frags
<1>3. Live' = Live
  BY <1>1 DEF Live
<1>4. CASE Ask \/ Program
  <2>1. Allocating' = Allocating /\ printf_pc' = printf_pc
    BY <1>4, CallBegins DEF printf_vars, Allocating
  <2> QED
    BY <1>2, <1>4, <2>1, CallBegins DEF ListBehind, NotListed, Crashes
<1>5. CASE NextOption \/ UNCHANGED phvars
  <2>1. UNCHANGED <<pc, printf_pc>> /\ (called' => called)
    BY <1>5 DEF NextOption, phvars, vars, printf_vars
  <2> QED
    BY <1>2, <1>3, <2>1 DEF ListBehind, NotListed, Allocating
<1>6. CASE Answer
  <2>1. pc = "idle" /\ pc' = "idle" /\ called /\ ~called'
    BY <1>6 DEF Answer, vars
  <2>2. Allocating' => Allocating \/ (printf_pc = "free_array" /\ printf_pc' = "idle")
    BY <1>6 DEF Answer, Allocating, printf_vars, P!CreateStrArray, P!ExpandFormatter,
                P!CreateBuffer, P!CopyFormatted, P!FreeBros, P!Stop
  <2>3. printf_pc' = "idle" => Live \subseteq {Mine}
    BY <1>3 DEF NothingLeft
  <2> QED
    BY <1>2, <2>1, <2>2, <2>3 DEF ListBehind, NotListed, Crashes
<1>7. CASE Alone
  <2>1. pc = "idle" /\ pc' = "idle" /\ ~called /\ ~called'
    BY <1>7 DEF Alone, Ready, vars
  <2>2. Allocating' => Allocating
    BY <1>7 DEF Alone, Start, Allocating, P!Call, P!ExpandFormatter, P!CountText,
                P!CopyText, P!CopyPastBuffer, P!Write, P!Stop
  <2> QED
    BY <1>2, <2>1, <2>2 DEF ListBehind, NotListed, Crashes
<1> QED
  BY <1>4, <1>5, <1>6, <1>7 DEF Moves

LEMMA NoneFitsElse ==
  ASSUME PHInv, NoneListedFits, [Moves]_phvars, ~Allocator
  PROVE  NoneListedFits'
<1>1. CASE Ask \/ Program
  BY <1>1, CallBegins DEF NoneListedFits
<1>2. CASE NextOption \/ Answer \/ Alone \/ UNCHANGED phvars
  <2>1. UNCHANGED <<blocks, fragments, current_page, current_block, pc, block, req>>
    BY <1>2 DEF NextOption, Answer, Alone, phvars, vars, memory, arena, frags, call
  <2> QED
    BY <2>1 DEF NoneListedFits, CurrentBlock, Header
<1> QED
  BY <1>1, <1>2 DEF Moves

(***************************************************************************)
(* The invariant.                                                          *)
(***************************************************************************)
LEMMA FirstInvStep ==
  ASSUME PHInv, IInv, UsesInv, PageInv, ArraySmall', [Moves]_phvars
  PROVE  FirstInv'
<1> SUFFICES ASSUME OnePage', NothingLeft'
             PROVE  InOrder' /\ ListBehind' /\ ArrayLast' /\ NoneListedFits'
  BY DEF FirstInv
<1>1. NothingLeft
  BY NothingLeftBefore
<1>2. PagesInv /\ ArraySmall /\ StringsFreed /\ AskedFor /\ FirstInv
  BY DEF PageInv
<1>3. CASE Allocator /\ OnePage
  <2>1. /\ OrderNow /\ ListBehind /\ ArrayLast /\ NoneListedFits
        /\ Step /\ called
    BY <1>1, <1>2, <1>3 DEF FirstInv, OrderNow, Allocator
  <2>2. Carving => NotListed
    <3>1. Carving => Mallocking /\ pc \notin Crashes \cup {"drop_usage", "link_page"}
      BY DEF Carving, Mallocking, Crashes
    <3> QED
      BY <2>1, <3>1, Caller DEF ListBehind, NotListed
  <2> QED
    BY <1>1, <1>2, <1>3, <2>1, <2>2, OrderInStep, BehindInStep, ArrayLastInStep,
       NoneFitsInStep
<1>4. CASE Allocator /\ ~OnePage
  <2>1. FirstPageMapped
    BY <1>2, <1>4, OnePageBefore DEF Allocator
  <2>2. InOrder' /\ Small' = {} /\ fragments' = <<>> /\ pc' = "find_available_fragment"
    BY <2>1, FirstOrder
  <2>3. P!Array' \notin Live'
    BY <2>2 DEF ArraySmall, Small
  <2> QED
    BY <2>2, <2>3 DEF ListBehind, ArrayLast, NoneListedFits
<1>5. CASE ~Allocator
  <2>1. OnePage
    BY <1>5, OtherSteps DEF OnePage, Is, memory, arena
  <2>2. OrderNow /\ ListBehind /\ ArrayLast /\ NoneListedFits
    BY <1>1, <1>2, <2>1 DEF FirstInv, OrderNow
  <2> QED
    BY <1>2, <1>5, <2>2, OrderElse, BehindElse, ArrayLastElse, NoneFitsElse
<1> QED
  BY <1>3, <1>4, <1>5

LEMMA PageBegins == PHInit => PageInv
<1> SUFFICES ASSUME PHInit PROVE PageInv
  OBVIOUS
<1>1. /\ first_page_ptr = nullptr /\ mapped = [p \in Page |-> "none"] /\ pc = "idle"
      /\ live = [h \in Handles |-> NoBlock] /\ ~called /\ printf_pc = "idle"
  BY DEF PHInit, Init, P!Init
<1>2. Live = {}
  BY <1>1 DEF Live
<1>3. PagesInv
  BY <1>1 DEF PagesInv, Is
<1>4. ArraySmall /\ StringsFreed /\ AskedFor
  BY <1>1, <1>2 DEF ArraySmall, StringsFreed, AskedFor
<1>5. ~OnePage
  BY <1>1 DEF OnePage, Is
<1> QED
  BY <1>3, <1>4, <1>5 DEF PageInv, FirstInv

LEMMA PageInvariant ==
  ASSUME IsFiniteSet(Handles), ArraysSmall
  PROVE  PHSpec => [](again \/ PageInv)
<1>1. PHInit => PageInv
  BY PageBegins
<1>2. OnceInv /\ UsesInv /\ PageInv /\ [Moves]_phvars => PageInv'
  <2> USE DEF OnceInv
  <2> SUFFICES ASSUME PHInv, IInv, UsesInv, PageInv, [Moves]_phvars PROVE PageInv'
    OBVIOUS
  <2>1. PagesInv' /\ ArraySmall' /\ StringsFreed' /\ AskedFor'
    BY PagesInvStep, ArraySmallStep, StringsFreedStep, AskedForStep DEF PageInv
  <2> QED
    BY <2>1, FirstInvStep DEF PageInv
<1>3. [PHNext]_phvars => (again => again') /\ ([Moves]_phvars \/ again')
  BY NextIs
<1> QED
  BY <1>1, <1>2, <1>3, MemoryInvariant, UsesInvariant, PTL DEF PHSpec

(* As long as the heap has only its first page, and no call of printf has  *)
(* left a string behind, the blocks on the page are disjoint, although     *)
(* printf frees its array last, when current_block points at it: by then   *)
(* nothing is carved behind it any more (printf.s:208-212, malloc.c:400),  *)
(* for finitely many pointers, any formats whose entries fit on a page,    *)
(* any sizes and any blocks of the program.                                *)
THEOREM FirstPageApart ==
  ASSUME IsFiniteSet(Handles), ArraysSmall
  PROVE  PHSpec => []FirstPageDisjoint
<1>1. IInv /\ PageInv => FirstPageDisjoint
  <2> SUFFICES ASSUME IInv, PageInv, OnePage, NothingLeft,
                      NEW g \in Small, NEW h \in Small, g # h
               PROVE  Apart(live[g], live[h])
    BY DEF FirstPageDisjoint
  <2>1. SmallHeaders /\ Tiled
    BY DEF PageInv, FirstInv, InOrder
  <2> DEFINE a == Address(g)
             b == Address(h)
  <2>2. a # b /\ a.page = b.page /\ a \in Taken /\ b \in Taken
    BY <2>1 DEF SmallHeaders, Taken
  <2>3. /\ End(a) = live[g].off + BHEADERSIZE + live[g].size
        /\ End(b) = live[h].off + BHEADERSIZE + live[h].size
    BY <2>1 DEF SmallHeaders, End, Address, At
  <2>4. End(a) <= b.off \/ End(b) <= a.off
    BY <2>1, <2>2 DEF Tiled
  <2>5. /\ live[g].page = live[h].page /\ a.off = live[g].off /\ b.off = live[h].off
        /\ live[g].page \in Nat
        /\ live[g].off \in Nat /\ live[h].off \in Nat
        /\ live[g].size \in Nat /\ live[h].size \in Nat
    <3>1. g \in Handles /\ h \in Handles
      BY DEF Small, Live
    <3> QED
      BY <2>2, <3>1, Sizes DEF IInv, TypeOK, Address, At, Page
  <2>6. live[g].page * MALLOC_PAGE_SIZE \in Nat
    BY <2>5, PageAssumption
  <2> HIDE DEF a, b
  <2> QED
    BY <2>3, <2>4, <2>5, <2>6 DEF Apart, First, Past
<1>2. again => FirstPageDisjoint
  BY DEF FirstPageDisjoint
<1> QED
  BY <1>1, <1>2, MemoryInvariant, PageInvariant, PTL DEF OnceInv
=============================================================================
