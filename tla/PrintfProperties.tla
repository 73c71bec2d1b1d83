-------------------------- MODULE PrintfProperties --------------------------
(***************************************************************************)
(* What the three passes of printf owe each other, and what a call leaves  *)
(* behind.                                                                 *)
(***************************************************************************)
EXTENDS Printf

Copying == pc \in {"final_copy", "free_buffer", "free_array"}

(* While every expansion ends inside its block, as those in hexadecimal    *)
(* and the numbers in fresh memory do, the total that sizes the buffer is  *)
(* exactly one byte too large for each, whose NUL it counts: the copy      *)
(* never writes past the buffer, and at its end as many bytes are left as  *)
(* there are formatters.                                                   *)
InsideBlocks == \A n \in 1..Len(entries) : NulInside(entries[n])
TotalOverByNuls ==
  InsideBlocks =>
    /\ pc # "clobbered"
    /\ Copying => written + k <= rbx
    /\ pc = "free_buffer" => rbx = written + k

(* The three passes agree on what a formatter is: the array is as long as  *)
(* the expansion fills it, and the copy uses every entry once.             *)
PassesAgree ==
  /\ Len(entries) <= Percents
  /\ pc = "final_copy" /\ Char(i) = "%" => k < Len(entries)
  /\ pc = "free_buffer" => k = Len(entries) /\ k = Percents

(* The formatters of a call get arguments that follow each other; those of *)
(* the first call begin with the first.  A later call goes on where the    *)
(* one before ended (va_start), so nothing is said of its first argument.  *)
ArgsInOrder ==
  \A n \in 1..Len(entries) :
    entries[n].arg = (n - 1) + (IF calls = 1 THEN 1 ELSE entries[1].arg)

(* What a call that returns has not freed is an area whose free failed, or *)
(* a string in hexadecimal that another x of the same formatter replaced.  *)
Replaced(area) ==
  area[1] = "expansion" /\ \A n \in 1..Len(entries) : entries[n].string # area
NothingLeaked ==
  pc = "idle" =>
    \A area \in allocated :
      area[2] = calls => area \in unfreed \/ Replaced(area)

(* free is called once for each area that printf allocated, and of other   *)
(* memory only for strings that the user gave to %s.                       *)
FreesOwnOrStrings == \A area \in user_freed : area[1] = "user"
=============================================================================
