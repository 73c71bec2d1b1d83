------------------------------- MODULE Memory -------------------------------
(***************************************************************************)
(* memcpy, memset, memcmp, brkto and sbrk of lib/src/mem.c as operators.   *)
(* A memory is a function from addresses to bytes; the program break is a  *)
(* number below Top that the kernel never lets fall under Bottom.          *)
(***************************************************************************)
EXTENDS Integers

(* The loops count size down to 0 and look at the byte at size. *)
memcpy_Forward(mem, from, to, size) ==
  LET copied[n \in 0..size] ==
        IF n = 0 THEN mem
        ELSE [copied[n - 1] EXCEPT ![to + n - 1] = copied[n - 1][from + n - 1]]
  IN copied[size]

(* mem after memcpy(from, to, size), also when the areas overlap *)
memcpy(mem, from, to, size) ==
  LET copied[n \in 0..size] ==
        IF n = size THEN mem
        ELSE [copied[n + 1] EXCEPT ![to + n] = copied[n + 1][from + n]]
  IN copied[0]

(* mem after memset(ptr, value, size) *)
memset(mem, ptr, value, size) ==
  LET filled[n \in 0..size] ==
        IF n = size THEN mem ELSE [filled[n + 1] EXCEPT ![ptr + n] = value]
  IN filled[0]

(* the result of the loop with n bytes to go: FALSE at the first difference*)
memcmp(mem, pt1, pt2, size) ==
  LET equal[n \in 0..size] ==
        IF n = 0 THEN TRUE
        ELSE IF mem[pt1 + n - 1] # mem[pt2 + n - 1] THEN FALSE
        ELSE equal[n - 1]
  IN equal[size]

(* brk returns the break that holds afterwards, moved or not; curbrk() is  *)
(* brk(0), which never moves it.                                           *)
Error == -1
Break(bottom, top) == bottom..top
brk(old, addr, bottom, top) ==
  IF addr \in Break(bottom, top) THEN addr ELSE old

(* The operands of the comparison are evaluated in either order; curbrk()  *)
(* is compared with what brk returned.                                     *)
Orders == {"curbrk first", "brk first"}
brkto_Unchecked(old, addr, order, bottom, top) ==
  LET rv == brk(old, addr, bottom, top) IN [brk |-> rv, rv |-> rv]
brkto(old, addr, order, bottom, top) ==
  LET rv     == brk(old, addr, bottom, top)
      curbrk == IF order = "curbrk first" THEN old ELSE rv
  IN [brk |-> rv, rv |-> IF curbrk = rv THEN Error ELSE rv]

sbrk(old, by, order, bottom, top) ==
  brkto(old, old + by, order, bottom, top)
=============================================================================
