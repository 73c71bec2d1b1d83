------------------------------- MODULE Printf -------------------------------
(***************************************************************************)
(* printf of lib/src/printf.s and printf_expand_d of lib/src/printf.c.     *)
(* One call goes through the format three times: it counts the percent     *)
(* signs and allocates an array with an entry for each, it expands each    *)
(* formatter into a string of its own and adds the lengths up, and it      *)
(* copies text and expansions into one buffer, which is written.           *)
(*                                                                         *)
(* A string stands for its length, memory for the set of the areas that    *)
(* are allocated and not yet freed.  A string of the user ends inside      *)
(* memory that nothing else writes; a number need not (itos).              *)
(***************************************************************************)
EXTENDS Integers, SequencesExt, FiniteSetsExt

CONSTANTS
  Formats,         \* formats the program calls printf with
  MaxCalls,        \* bound: calls of printf
  Lengths,         \* lengths of the decimal numbers and of the user's strings
  StaleLengths,    \* characters left behind a number in memory used before
  MemoryMayFail    \* whether malloc and free may fail

Alphabet == {"c", "%", "d", "s", "x", "\\"}   \* "c" is any other character
NUL == "NUL"
RegisterArgs == 5                  \* rsi, rdx, rcx, r8, r9
HexLength == 18                    \* 0x and 16 digits
StringBlock == 24                  \* the block of malloc(19) and of malloc(22)

ASSUME PrintfAssumption ==
  /\ Formats \subseteq Seq(Alphabet)
  /\ MaxCalls \in Nat /\ MemoryMayFail \in BOOLEAN
  /\ Lengths \subseteq Nat \ {0} /\ StaleLengths \subseteq Nat

VARIABLES
  pc,
  calls,        \* calls made so far
  gp_offset,    \* of the global ap: the next argument's place, 0 before any
  format, i,    \* the argument and the position in it
  entries,      \* the array: formatter length, string, length of the string
  rbx,          \* the total length
  k,            \* entries that were copied
  written,      \* characters in the buffer
  allocated,    \* areas of memory that are printf's to free
  user_freed,   \* strings of the user that were freed
  unfreed,      \* areas of this call whose free failed
  result

vars == <<pc, calls, gp_offset, format, i, entries, rbx, k, written, allocated,
          user_freed, unfreed, result>>

Char(p) == IF p < Len(format) THEN format[p + 1] ELSE NUL

Array  == <<"array", calls, 0>>
Buffer == <<"buffer", calls, 0>>
Expansion(n, j) == <<"expansion", calls, n * (Len(format) + 1) + j>>

Init ==
  /\ pc = "idle" /\ calls = 0 /\ gp_offset = 0
  /\ format = <<>> /\ i = 0 /\ entries = <<>> /\ rbx = 0
  /\ k = 0 /\ written = 0 /\ allocated = {} /\ user_freed = {}
  /\ unfreed = {} /\ result = 0

(* the end of what is modelled: "segv", "panic", "wild" for a free of a     *)
(* local variable that was never set and for a copy with lost registers,    *)
(* "clobbered" for bytes written behind a block, which the code goes on from*)
Stop(how) ==
  /\ pc' = how
  /\ UNCHANGED <<calls, gp_offset, format, i, entries, rbx, k, written,
                 allocated, user_freed, unfreed, result>>

Call(f) ==
  /\ pc = "idle" /\ calls < MaxCalls
  /\ calls' = calls + 1 /\ format' = f /\ pc' = "create_str_array"
  /\ i' = 0 /\ entries' = <<>> /\ rbx' = 0 /\ k' = 0 /\ written' = 0
  /\ unfreed' = {}
  /\ UNCHANGED <<gp_offset, allocated, user_freed, result>>

findoccurrences(s, chr) == Cardinality({n \in 1..Len(s) : s[n] = chr})

(* find_percent_signs.  malloc(0) is an error, and after an error the two   *)
(* local pointers are freed although nothing was put into them.             *)
Percents == findoccurrences(format, "%")

CreateStrArray ==
  /\ pc = "create_str_array"
  /\ \/ /\ Percents > 0
        /\ allocated' = allocated \cup {Array}
        /\ pc' = "expand_formatters"
        /\ UNCHANGED <<calls, gp_offset, format, i, entries, rbx, k, written,
                       user_freed, unfreed, result>>
     \/ /\ Percents = 0 \/ MemoryMayFail
        /\ Stop("wild")

(***************************************************************************)
(* printf_expand_d                                                         *)
(***************************************************************************)

(* va_start only initialises ap when it never was, by any call.  The       *)
(* argument area stays that of the first call: all are made at one depth.  *)
va_start_Missing == gp_offset
va_start == IF gp_offset = 0 THEN 8 ELSE gp_offset
ArgThere == va_start <= 47
Arg      == va_start \div 8

(* options after %d: every x makes a string in hexadecimal, a backslash    *)
(* ends the formatter                                                      *)
Hexes == CHOOSE n \in 0..Len(format) :
           /\ \A j \in 0..(n - 1) : Char(i + 2 + j) = "x"
           /\ Char(i + 2 + n) # "x"
FormatterLength_SkipsNext ==
  2 + Hexes + (IF Char(i + 2 + Hexes) = "\\" THEN 2 ELSE 0)
FormatterLength == 2 + Hexes + (IF Char(i + 2 + Hexes) = "\\" THEN 1 ELSE 0)

Strln(n) == n + 1

(* the entry is made, its string's length, the NUL included, is added to   *)
(* the total and the formatter is passed over                              *)
AddEntry_Uncounted(string, length, formatterlength) ==
  /\ entries' = Append(entries, [formatterlength |-> formatterlength,
                                 string |-> string, length |-> length,
                                 arg |-> Arg])
  /\ rbx' = rbx + formatterlength
  /\ i' = i + formatterlength
AddEntry(string, length, formatterlength) ==
  /\ entries' = Append(entries, [formatterlength |-> formatterlength,
                                 string |-> string, length |-> length,
                                 arg |-> Arg])
  /\ rbx' = rbx + Strln(length)
  /\ i' = i + formatterlength

ExpandString ==
  /\ Char(i + 1) = "s"
  /\ \E length \in Lengths :
       AddEntry(<<"user", calls, Len(entries)>>, length, 2)
  /\ UNCHANGED allocated

(* With several x only the last string is kept. *)
ExpandHex ==
  /\ Char(i + 1) = "d" /\ Hexes > 0
  /\ allocated' = allocated \cup {Expansion(Len(entries), j) : j \in 1..Hexes}
  /\ AddEntry(Expansion(Len(entries), Hexes), HexLength, FormatterLength)

(* itos writes no NUL: what was in the memory before may follow the number *)
ExpandDecimal ==
  /\ Char(i + 1) = "d" /\ Hexes = 0
  /\ allocated' = allocated \cup {Expansion(Len(entries), 0)}
  /\ \E length \in Lengths, stale \in StaleLengths \cup {0} :
       AddEntry(Expansion(Len(entries), 0), length + stale, FormatterLength)

ExpandFormatter ==
  /\ pc = "expand_formatters" /\ Char(i) = "%"
  /\ \/ /\ Char(i + 1) \notin {"d", "s"}
        /\ Stop("panic")
     \/ /\ Char(i + 1) \in {"d", "s"} /\ ~ArgThere     \* overflow_arg_area is 0
        /\ Stop("segv")
     \/ /\ Char(i + 1) = "d" /\ ArgThere /\ MemoryMayFail
        /\ Stop("segv")                    \* the error code is written through
     \/ /\ Char(i + 1) \in {"d", "s"} /\ ArgThere
        /\ gp_offset' = va_start + 8
        /\ ExpandString \/ ExpandHex \/ ExpandDecimal
        /\ UNCHANGED <<pc, calls, format, k, written, user_freed, unfreed,
                       result>>

CountText ==
  /\ pc = "expand_formatters" /\ Char(i) \notin {"%", NUL}
  /\ rbx' = rbx + 1 /\ i' = i + 1
  /\ UNCHANGED <<pc, calls, gp_offset, format, entries, k, written, allocated,
                 user_freed, unfreed, result>>

CreateBuffer ==
  /\ pc = "expand_formatters" /\ Char(i) = NUL
  /\ \/ /\ allocated' = allocated \cup {Buffer}
        /\ pc' = "final_copy" /\ i' = 0
        /\ UNCHANGED <<calls, gp_offset, format, entries, rbx, k, written,
                       user_freed, unfreed, result>>
     \/ /\ MemoryMayFail
        /\ Stop("wild")

(***************************************************************************)
(* final_copy                                                              *)
(***************************************************************************)

(* malloc rounds the total up to whole words *)
BufferBytes == 8 * ((rbx + 7) \div 8)

CopyText ==
  /\ pc = "final_copy" /\ Char(i) \notin {"%", NUL}
  /\ written < BufferBytes
  /\ written' = written + 1 /\ i' = i + 1
  /\ UNCHANGED <<pc, calls, gp_offset, format, entries, rbx, k, allocated,
                 user_freed, unfreed, result>>

(* free, which is called on the user's strings too; when it fails the area *)
(* stays.  check_free_errors then prints a message or does not: free       *)
(* returns an int, and 64 bits are compared.                               *)
Free_Keep(area) == UNCHANGED <<allocated, user_freed, unfreed>>
Free(area) ==
  \/ /\ allocated' = allocated \ {area}
     /\ user_freed' = user_freed \cup ({area} \ allocated)
     /\ UNCHANGED unfreed
  \/ /\ MemoryMayFail
     /\ unfreed' = unfreed \cup {area}
     /\ UNCHANGED <<allocated, user_freed>>

(* The copy looks for the NUL again.  Behind a number that fills its block *)
(* is a header or what a later call wrote there: the text may have become  *)
(* longer or shorter since it was measured, but not shorter than the block.*)
NulInside(entry) == entry.string[1] = "user" \/ entry.length < StringBlock
LengthsNow(entry) ==
  {entry.length} \cup
    (IF NulInside(entry) THEN {} ELSE {StringBlock + n : n \in StaleLengths \cup {0}})

CopyFormatted_FreesBuffer ==
  /\ pc = "final_copy" /\ Char(i) = "%"
  /\ LET entry == entries[k + 1] IN
       /\ written' = written + entry.length
       /\ i' = i + entry.formatterlength
       /\ Free(Buffer)
  /\ k' = k + 1
  /\ UNCHANGED <<pc, calls, gp_offset, format, entries, rbx, result>>

CopyFormatted ==
  /\ pc = "final_copy" /\ Char(i) = "%"
  /\ LET entry == entries[k + 1] IN
       \/ /\ \E length \in LengthsNow(entry) :
               /\ written + Strln(length) <= BufferBytes
               /\ written' = written + length
          /\ i' = i + entry.formatterlength
          /\ Free(entry.string)
          /\ k' = k + 1
          /\ UNCHANGED <<pc, calls, gp_offset, format, entries, rbx, result>>
       \/ /\ entry.string[1] = "user"     \* there may be no block header
          /\ Stop("segv")
       \/ /\ MemoryMayFail     \* r8 to r10 do not outlive the message's calls
          /\ Stop("wild")

(* A character, or an expansion and its NUL, goes behind the buffer. *)
CopyPastBuffer ==
  /\ pc = "final_copy"
  /\ \/ Char(i) \notin {"%", NUL} /\ written >= BufferBytes
     \/ /\ Char(i) = "%"
        /\ \E length \in LengthsNow(entries[k + 1]) :
             written + Strln(length) > BufferBytes
  /\ Stop("clobbered")

Write ==
  /\ pc = "final_copy" /\ Char(i) = NUL
  /\ result' = rbx
  /\ pc' = "free_buffer"
  /\ UNCHANGED <<calls, gp_offset, format, i, entries, rbx, k, written,
                 allocated, user_freed, unfreed>>

FreeBros ==
  /\ \/ pc = "free_buffer" /\ Free(Buffer) /\ pc' = "free_array"
     \/ pc = "free_array"  /\ Free(Array)  /\ pc' = "idle"
  /\ UNCHANGED <<calls, gp_offset, format, i, entries, rbx, k, written, result>>

Next ==
  \/ \E f \in Formats : Call(f)
  \/ CreateStrArray \/ ExpandFormatter \/ CountText \/ CreateBuffer
  \/ CopyText \/ CopyFormatted \/ CopyPastBuffer \/ Write \/ FreeBros

Spec == Init /\ [][Next]_vars
=============================================================================
