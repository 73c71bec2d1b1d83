------------------------------ MODULE Strings ------------------------------
(***************************************************************************)
(* splitstr of lib/src/str.c and the findspaces it sizes its result with,  *)
(* one step per iteration of their loops, and the string functions of      *)
(* str.c and util.c as operators.  A string is the sequence of its         *)
(* characters; str[i] of the code is Char(s, i), with NUL after the last.  *)
(***************************************************************************)
EXTENDS Memory, SequencesExt, FiniteSetsExt

CONSTANTS
  Chars,   \* characters that are not the separator
  Sep,     \* the separator
  MaxLen   \* bound: length of a string

NUL == "NUL"

ASSUME StringsAssumption ==
  /\ Sep \notin Chars
  /\ {NUL, "stale", "null", "set", "error", "garbage"} \cap (Chars \cup {Sep}) = {}
  /\ MaxLen \in Nat \ {0}

CharSet == Chars \cup {Sep}
Strs == BoundedSeq(CharSet, MaxLen)

Char(s, i) == IF i = Len(s) THEN NUL ELSE s[i + 1]

(***************************************************************************)
(* str.c, util.c                                                           *)
(***************************************************************************)

strln(s) == 1 + CHOOSE i \in 0..Len(s) : Char(s, i) = NUL

(* strcpy copies the NUL too and returns the number of bytes copied.  A    *)
(* memory is a function from addresses to bytes.                           *)
Stored(s, at, mem) ==
  [a \in DOMAIN mem |->
     IF a - at \in 0..Len(s) THEN Char(s, a - at) ELSE mem[a]]
strcpyReturns(s) == strln(s)

(* strcat(a, b) in the memory mem, whose first bytes malloc returned. *)
strcatLength(a, b) == strln(a) + strln(b)
strcat_OnNul(a, b, mem) ==
  Stored(b, strcpyReturns(a), Stored(a, 0, mem))
strcat(a, b, mem) ==
  Stored(b, strcpyReturns(a) - 1, Stored(a, 0, mem))

(***************************************************************************)
(* findspaces and splitstr                                                 *)
(***************************************************************************)

VARIABLES
  str,            \* the argument
  pc,             \* "count", "split", "done" or, at a fault, "segv"
  i, waspressed,  \* of the running loop
  count,          \* findspaces: retval
  num_of_tokens,
  prev, curtoken,
  retval,         \* the array: what each of its slots points at
  fresh           \* whether malloc returned memory that was never used

vars == <<str, pc, i, waspressed, count, num_of_tokens, prev, curtoken, retval,
          fresh>>

(* What a slot may hold besides a token: memory as malloc returned it, the *)
(* error code of a malloc that failed, a block with bytes of no token.     *)
Unset   == <<"stale">>
Null    == <<"null">>
Failed  == <<"error">>
Garbage == <<"garbage">>
Slots(n) == 0..n
NoArray == [t \in {} |-> Null]   \* none yet, or retval is an error code

Init ==
  /\ str \in Strs /\ fresh \in BOOLEAN
  /\ pc = "count" /\ i = 0 /\ waspressed = TRUE
  /\ count = 0 /\ num_of_tokens = 0
  /\ prev = -1 /\ curtoken = 0
  /\ retval = NoArray

(* the array is allocated, or is not, and the second loop starts *)
StartSplit(n) ==
  /\ num_of_tokens' = n
  /\ retval' \in {NoArray, [t \in Slots(n) |-> IF fresh THEN Null ELSE Unset]}
  /\ pc' = "split" /\ i' = 0 /\ waspressed' = TRUE

CountChar ==
  /\ pc = "count" /\ i < Len(str)
  /\ waspressed' = (Char(str, i) = Sep)
  /\ count' = IF ~waspressed /\ Char(str, i) = Sep THEN count + 1 ELSE count
  /\ i' = i + 1
  /\ UNCHANGED <<str, pc, num_of_tokens, prev, curtoken, retval, fresh>>

(* an empty string has no last character to look at *)
CountEnd_NoTrailing ==
  /\ pc = "count" /\ i = Len(str)
  /\ StartSplit(IF str = <<>> THEN 0 ELSE count + 1)
  /\ UNCHANGED <<str, count, prev, curtoken, fresh>>

CountEnd ==
  /\ pc = "count" /\ i = Len(str)
  /\ StartSplit(IF str = <<>> THEN 0
                ELSE IF Char(str, i - 1) = Sep THEN count ELSE count + 1)
  /\ UNCHANGED <<str, count, prev, curtoken, fresh>>

Put(x) == retval' = [t \in DOMAIN retval \cup {curtoken} |->
                       IF t = curtoken THEN x ELSE retval[t]]

(* malloc and memcpy of the characters from prev to i, no NUL after them.  *)
(* Nothing looks whether malloc failed: memcpy to its error code faults,   *)
(* and so does the slot of an array that there is not.                     *)
Token_WithSep == SubSeq(str, prev + 1, IF i < Len(str) THEN i + 1 ELSE i)
Token == SubSeq(str, prev + 1, i)
Store(next) ==
  \/ /\ retval # NoArray
     /\ Put(Token) /\ pc' = next
  \/ /\ retval # NoArray
     /\ Put(Failed) /\ pc' = "segv"
  \/ /\ retval = NoArray
     /\ pc' = "segv" /\ UNCHANGED retval

SplitChar ==
  /\ pc = "split" /\ i < Len(str)
  /\ waspressed' = (Char(str, i) = Sep)
  /\ prev' = IF waspressed /\ Char(str, i) # Sep THEN i ELSE prev
  /\ IF ~waspressed /\ Char(str, i) = Sep
       THEN Store("split") /\ curtoken' = curtoken + 1
       ELSE UNCHANGED <<pc, retval, curtoken>>
  /\ i' = i + 1
  /\ UNCHANGED <<str, count, num_of_tokens, fresh>>

(* The empty string: str[-1] is read, and may fault.  If it is not the     *)
(* separator, a token of an undefined length, prev having no value, goes to*)
(* the only slot, the last one: no block or one of garbage, and memcpy may *)
(* fault whichever it is.                                                  *)
EmptyEnd ==
  \/ pc' \in {"done", "segv"} /\ UNCHANGED retval
  \/ /\ retval # NoArray
     /\ \E x \in {Failed, Garbage} : Put(x)
     /\ pc' \in {"done", "segv"}

(* After the loop a token may be left. *)
SplitEnd ==
  /\ pc = "split" /\ i = Len(str)
  /\ \/ str = <<>> /\ EmptyEnd
     \/ /\ str # <<>> /\ Char(str, i - 1) # Sep
        /\ Store("done")
     \/ /\ str # <<>> /\ Char(str, i - 1) = Sep
        /\ pc' = "done" /\ UNCHANGED retval
  /\ UNCHANGED <<str, i, waspressed, count, num_of_tokens, prev, curtoken, fresh>>

Next == CountChar \/ CountEnd \/ SplitChar \/ SplitEnd
Spec == Init /\ [][Next]_vars

(***************************************************************************)
(* Properties.                                                             *)
(***************************************************************************)

(* Where the tokens of s start and end: the longest runs without Sep.      *)
Bounds(s) ==
  {x \in (1..Len(s)) \X (1..Len(s)) :
     /\ x[1] <= x[2] /\ \A k \in x[1]..x[2] : s[k] # Sep
     /\ x[1] = 1 \/ s[x[1] - 1] = Sep
     /\ x[2] = Len(s) \/ s[x[2] + 1] = Sep}
Before(s, x) == Cardinality({y \in Bounds(s) : y[1] < x[1]})

(* findspaces counts the tokens, also with separators at the ends and in   *)
(* rows, and the second loop of splitstr, which finds them by rules of its *)
(* own, stays inside the array that the first one sized, whatever fails,   *)
(* and puts no token of a string with characters into its last slot.       *)
ArrayFits ==
  pc # "count" =>
    /\ num_of_tokens = Cardinality(Bounds(str))
    /\ retval # NoArray =>
         /\ DOMAIN retval = Slots(num_of_tokens)
         /\ str # <<>> => retval[num_of_tokens] \in {Unset, Null}

(* If splitstr returns, every token of the string is in the array, and they*)
(* are in their order.                                                     *)
TokensInOrder ==
  pc = "done" =>
    \A x \in Bounds(str) :
      retval[Before(str, x)] = SubSeq(str, x[1], x[2])

(***************************************************************************)
(* The functions without steps, for every string a run starts with.        *)
(***************************************************************************)

AtStart == pc = "count" /\ i = 0 /\ fresh
Area(s) == [a \in 0..Len(s) |-> Char(s, a)]
Offsets == 0..Len(str)
Sizes(from, to) == 0..(Len(str) + 1 - Max({from, to}))

(* strcat writes the two strings and one NUL to the area it allocates, and *)
(* to no byte behind them, in the area or after it.                        *)
Behind(a, b) == [x \in 0..(strcatLength(a, b) + 1) |-> "stale"]
StrcatJoins(a, b) ==
  /\ Len(a \o b) < strcatLength(a, b)
  /\ \A k \in DOMAIN Behind(a, b) :
       strcat(a, b, Behind(a, b))[k]
         = IF k \in 0..Len(a \o b) THEN Char(a \o b, k) ELSE "stale"

(* memcpy gives the target what the source held, unless the source starts  *)
(* after the target and they overlap: it copies from the end.  It changes  *)
(* no byte outside the target.  memcmp is TRUE of areas that are equal and *)
(* of no others, and memset sets the bytes of its area and no others.      *)
CopyIsExact ==
  \A from, to \in Offsets : \A size \in Sizes(from, to) :
    from <= to \/ to + size <= from =>
      LET after == memcpy(Area(str), from, to, size)
      IN \A a \in Offsets :
           after[a] = IF a \in to..(to + size - 1) THEN Area(str)[a - to + from]
                      ELSE Area(str)[a]
MemcmpIsExact ==
  \A pt1, pt2 \in Offsets : \A size \in Sizes(pt1, pt2) :
    memcmp(Area(str), pt1, pt2, size) <=>
      \A n \in 0..(size - 1) : Area(str)[pt1 + n] = Area(str)[pt2 + n]
MemsetIsExact ==
  \A ptr \in Offsets : \A size \in Sizes(ptr, 0) :
    LET after == memset(Area(str), ptr, "set", size)
    IN \A a \in Offsets :
         after[a] = IF a \in ptr..(ptr + size - 1) THEN "set" ELSE Area(str)[a]
BytesExact ==
  AtStart =>
    /\ \A a, b \in {str} \cup {<<>>} \cup {<<c>> : c \in CharSet} : StrcatJoins(a, b)
    /\ CopyIsExact /\ MemcmpIsExact /\ MemsetIsExact

(* brkto never reports a success that is none, in whichever order its      *)
(* comparison is evaluated: a result that is no error is the break that    *)
(* was asked for, and it has moved.  Only when curbrk() comes first every  *)
(* move is reported; the other order calls each one an error.              *)
BrkHonest ==
  AtStart /\ str = <<>> =>
    \A old, top \in 1..MaxLen : \A addr \in 0..(MaxLen + 1), order \in Orders :
      old <= top =>
        LET r == brkto(old, addr, order, 1, top)
        IN /\ r.rv # Error => r.rv = addr /\ r.brk = addr /\ addr # old
           /\ r.brk # old => r.brk = addr /\ (r.rv = Error <=> order = "brk first")
           /\ \A by \in 0..MaxLen :
                LET sr == sbrk(old, by, order, 1, top)
                IN sr.rv # Error => sr.brk = old + by /\ by # 0
=============================================================================
