--------------------------- MODULE SystemCommand ---------------------------
(***************************************************************************)
(* system of lib/src/os.c: splitstr (module Strings) makes the argument    *)
(* vector and execve reads it from memory.  What cmd does in between is    *)
(* module Process.                                                         *)
(*                                                                         *)
(* The memory is that of an allocator whose page has room for one call:    *)
(* its blocks lie one behind the other, each after its header.             *)
(***************************************************************************)
EXTENDS Strings

CONSTANTS
  WORDSIZE,  \* bytes of a word: 8 in the code
  MaxCalls   \* bound: calls of system

ASSUME SystemAssumption ==
  /\ WORDSIZE \in Nat \ {0, 1}
  /\ MaxCalls \in Nat \ {0}

VARIABLE calls   \* calls of system so far

sysvars == <<vars, calls>>

(***************************************************************************)
(* Memory                                                                  *)
(***************************************************************************)

BLOCK_TYPE_USED == "used"
Filler  == IF fresh THEN NUL ELSE "stale"   \* memory that nobody has written
Fill(n) == [x \in 1..n |-> Filler]

Word(x) == <<x>> \o [y \in 1..(WORDSIZE - 1) |-> NUL]
BlockHeader == Word(BLOCK_TYPE_USED) \o Word("size") \o Word("page")

Padding(s) == (WORDSIZE - (Len(s) % WORDSIZE)) % WORDSIZE
BlockOf(s) == BlockHeader \o s \o Fill(Padding(s))

(* the tokens in the order in which they were allocated *)
Made == [t \in 1..Cardinality({u \in DOMAIN retval : retval[u] \notin {Unset, Null}})
           |-> retval[t - 1]]
Blocks == FlattenSeq([t \in 1..Len(Made) |-> BlockOf(Made[t])])

(* where the characters of token t are in Blocks *)
Pointer(t) ==
  Len(FlattenSeq([u \in 1..(t - 1) |-> BlockOf(Made[u])])) + Len(BlockHeader) + 1

(* what a reader of the string at address p finds *)
StringAt(p) ==
  LET mem == Blocks \o Fill(1)
      end == CHOOSE e \in p..(Len(mem) + 1) :
               /\ e = Len(mem) + 1 \/ mem[e] = NUL
               /\ \A x \in p..(e - 1) : mem[x] # NUL
  IN SubSeq(mem, p, end - 1)

(* what execve takes for the arguments: the strings whose addresses come   *)
(* before the first slot that is 0; behind memory used before there is no  *)
(* telling                                                                 *)
argv == [t \in 1..Len(Made) |-> StringAt(Pointer(t))]
Ended == retval[num_of_tokens] = Null

(***************************************************************************)
(* The calls                                                               *)
(***************************************************************************)

SysInit == Init /\ calls = 1

Split ==
  /\ CountChar \/ CountEnd \/ SplitChar \/ SplitEnd
  /\ UNCHANGED calls

(* argv[0] of an array that is an error code *)
NoVector ==
  /\ pc = "done" /\ retval = NoArray
  /\ pc' = "segv"
  /\ UNCHANGED <<str, i, waspressed, count, num_of_tokens, prev, curtoken,
                 retval, fresh, calls>>

(* cmd(argv[0], argv, envp) returns, and with it system: a next command *)
System ==
  /\ pc = "done" /\ retval # NoArray /\ calls < MaxCalls
  /\ str' \in Strs /\ fresh' \in BOOLEAN
  /\ pc' = "count" /\ i' = 0 /\ waspressed' = TRUE
  /\ count' = 0 /\ num_of_tokens' = 0 /\ prev' = -1 /\ curtoken' = 0
  /\ retval' = NoArray
  /\ calls' = calls + 1

SysNext == Split \/ NoVector \/ System
SysSpec == SysInit /\ [][SysNext]_sysvars

(***************************************************************************)
(* Properties.                                                             *)
(***************************************************************************)

(* The tokens of a string, by their positions alone. *)
Tokens(s) ==
  [t \in 1..Cardinality(Bounds(s)) |->
     LET x == CHOOSE x \in Bounds(s) : Before(s, x) = t - 1
     IN SubSeq(s, x[1], x[2])]

(* In memory that was never used execve finds the end of the vector and, in*)
(* it, as many arguments as the command has tokens: each is its token, read*)
(* on at the most into the first byte of the next block's header, since a  *)
(* token has no NUL of its own.  No argument runs into another one.        *)
ArgumentsApart ==
  pc = "done" /\ fresh /\ str # <<>> /\ retval # NoArray =>
    /\ Ended
    /\ Len(argv) = Len(Tokens(str))
    /\ \A t \in 1..Len(argv) :
         argv[t] \in {Tokens(str)[t], Append(Tokens(str)[t], BLOCK_TYPE_USED)}

(* What str.c says of the array: "pt1, pt2, pt3, ..., 0x00".  Nothing      *)
(* writes the last slot of a string with characters, so in memory that was *)
(* used before execve reads on behind it.                                  *)
ArrayEnded == pc = "done" /\ retval # NoArray => Ended
=============================================================================
