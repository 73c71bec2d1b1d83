------------------------------ MODULE Numerals ------------------------------
(***************************************************************************)
(* The functions that write a number: printint, printbyte and printhex of  *)
(* lib/src/io.c, itos, hexstr8 and hexstr64 of lib/src/str.c, one step per *)
(* digit, with abs of util.c.  int and u64 have Bits bits here; characters *)
(* are their codes.                                                        *)
(***************************************************************************)
EXTENDS Integers, Sequences

CONSTANTS
  Bits,  \* width of a number, a multiple of 4
  Funs   \* the functions that are called

ASSUME NumeralsAssumption == Bits \in Nat /\ Bits >= 8 /\ Bits % 4 = 0

Digits  == Bits \div 4            \* hexadecimal digits of a number
Power16[n \in 0..Digits] == IF n = 0 THEN 1 ELSE 16 * Power16[n - 1]
Range2  == Power16[Digits]        \* 2 ^ Bits
MaxInt  == (Range2 \div 2) - 1
ASCII0  == 48
ASCIIA  == 65
Minus   == 45

(* signed overflow wraps in what the code is compiled to *)
ToInt(x) == ((x + Range2 \div 2) % Range2) - Range2 \div 2
(* division rounds towards 0 *)
Quot(a, b) == IF a < 0 THEN -((-a) \div b) ELSE a \div b

(* 1E9 for a 32 bit int, 1E19 for a u64: the highest power of ten there is *)
TopPow[max \in 0..Range2] == IF max < 10 THEN 1 ELSE 10 * TopPow[max \div 10]

(* util.c: for a negative number the sign (-1) is added and not subtracted *)
abs(x) == IF x < 0 THEN ToInt((-x - 1) + (-1)) ELSE x

(* io.c *)
hexdigit_NoGap(d) == d + ASCII0
hexdigit(d) == d + (IF d < 10 THEN ASCII0 ELSE ASCIIA - 10)

Unsigned == 0..(Range2 - 1)
Signed   == (-MaxInt - 1)..MaxInt
Arguments(f) == CASE f = "printint"  -> Signed
                  [] f = "printbyte" -> 0..255
                  [] f = "hexstr8"   -> 0..255
                  [] OTHER           -> Unsigned

VARIABLES
  fun, arg,          \* the call
  value, pow,        \* of the decimal loops
  pos,               \* hexadecimal digits that are done
  print_zero_flag,
  out,               \* characters written so far
  pc                 \* "digits", "finish", "done"

vars == <<fun, arg, value, pow, pos, print_zero_flag, out, pc>>

Sign(f, x) == IF f = "printint" /\ x < 0 THEN <<Minus>> ELSE <<>>
Prefix == <<ASCII0, 120>>         \* 0x

Decimal == {"printint", "itos"}

Init ==
  /\ fun \in Funs /\ arg \in Arguments(fun) /\ value = arg
  /\ pow = TopPow[IF fun = "printint" THEN MaxInt ELSE Range2 - 1]
  /\ pos = 0 /\ print_zero_flag = FALSE /\ pc = "digits"
  /\ out = IF fun \in Decimal THEN Sign(fun, arg) ELSE Prefix

(* whether a turn of the loop of printint and itos writes a character *)
Shown_Positive(res) == res > 0 \/ print_zero_flag
Shown(res) == res # 0 \/ print_zero_flag

(* one turn of the loop of printint and itos *)
DecimalDigit ==
  /\ fun \in Decimal /\ pc = "digits"
  /\ LET res == Quot(value, pow) IN
       IF Shown(res)
         THEN /\ print_zero_flag' = TRUE
              /\ value' = value - res * pow
              /\ out' = Append(out, ASCII0 + abs(res))
         ELSE UNCHANGED <<print_zero_flag, value, out>>
  /\ pow' = pow \div 10
  /\ pc' = IF pow \div 10 > 0 THEN "digits" ELSE "finish"
  /\ UNCHANGED <<fun, arg, pos>>

DecimalEnd_NoZero ==
  /\ fun \in Decimal /\ pc = "finish"
  /\ pc' = "done"
  /\ UNCHANGED <<fun, arg, value, pow, pos, print_zero_flag, out>>

(* a number of which no digit was written is 0; itos writes no terminator  *)
DecimalEnd ==
  /\ fun \in Decimal /\ pc = "finish"
  /\ out' = IF print_zero_flag THEN out ELSE Append(out, ASCII0)
  /\ pc' = "done"
  /\ UNCHANGED <<fun, arg, value, pow, pos, print_zero_flag>>

Nibble(n) == (arg \div Power16[n - 1 - pos]) % 16

(* printhex leaves leading zeros out and pads with zeros at the right end, *)
(* so that at least two digits are written                                 *)
PrinthexDigit ==
  /\ fun = "printhex" /\ pc = "digits"
  /\ LET tmp == Nibble(Digits) IN
       IF tmp # 0 \/ print_zero_flag
         THEN print_zero_flag' = TRUE /\ out' = Append(out, hexdigit(tmp))
         ELSE UNCHANGED <<print_zero_flag, out>>
  /\ pos' = pos + 1
  /\ pc' = IF pos + 1 = Digits THEN "finish" ELSE "digits"
  /\ UNCHANGED <<fun, arg, value, pow>>

PrinthexEnd ==
  /\ fun = "printhex" /\ pc = "finish"
  /\ LET align == 2 - (Len(out) - Len(Prefix)) IN
       out' = out \o [k \in 1..align |-> ASCII0]
  /\ pc' = "done"
  /\ UNCHANGED <<fun, arg, value, pow, pos, print_zero_flag>>

(* hexstr64 and printbyte write all digits; so does hexstr8, that counts   *)
(* on from '9' for the digits above 9                                      *)
FixedDigit ==
  /\ fun \in {"hexstr64", "printbyte", "hexstr8"} /\ pc = "digits"
  /\ LET n == IF fun = "hexstr64" THEN Digits ELSE 2
         d == Nibble(n)
     IN /\ out' = Append(out, IF fun = "hexstr8" THEN d + ASCII0 ELSE hexdigit(d))
        /\ pos' = pos + 1
        /\ pc' = IF pos + 1 = n THEN "done" ELSE "digits"
  /\ UNCHANGED <<fun, arg, value, pow, print_zero_flag>>

Next == DecimalDigit \/ DecimalEnd \/ PrinthexDigit \/ PrinthexEnd \/ FixedDigit
Spec == Init /\ [][Next]_vars

(***************************************************************************)
(* Properties.                                                             *)
(***************************************************************************)

DigitValue(c) == CASE c \in ASCII0..(ASCII0 + 9) -> c - ASCII0
                   [] c \in ASCIIA..(ASCIIA + 5) -> c - ASCIIA + 10
                   [] OTHER -> 99
ValueIn(base, s) ==
  LET value_of[n \in 0..Len(s)] ==
        IF n = 0 THEN 0 ELSE base * value_of[n - 1] + DigitValue(s[n])
  IN value_of[Len(s)]
IsNumeral(s, base, x) ==
  /\ s # <<>> /\ \A k \in 1..Len(s) : DigitValue(s[k]) < base
  /\ ValueIn(base, s) = x
NoLeadingZero(s) == Len(s) > 1 => s[1] # ASCII0
AfterPrefix == SubSeq(out, 3, Len(out))

(* itos and, for numbers that are not negative, printint write the numeral *)
(* of their argument without leading zeros.                                *)
DecimalRight ==
  pc = "done" /\ fun \in Decimal /\ arg >= 0 =>
    IsNumeral(out, 10, arg) /\ NoLeadingZero(out)

(* The hexadecimal functions write the numeral of their argument after     *)
(* "0x".  Nothing is said of printhex with a single digit, which it pads on*)
(* the right, and of hexstr8 with a digit above nine, for which it has no  *)
(* letters.                                                                *)
HexRight ==
  pc = "done" /\ fun \notin Decimal =>
    /\ SubSeq(out, 1, 2) = Prefix
    /\ fun = "printhex" /\ arg >= 16 => IsNumeral(AfterPrefix, 16, arg)
    /\ fun = "hexstr64"  => IsNumeral(AfterPrefix, 16, arg) /\ Len(AfterPrefix) = Digits
    /\ fun = "printbyte" => IsNumeral(AfterPrefix, 16, arg) /\ Len(AfterPrefix) = 2
    /\ fun = "hexstr8" /\ arg \div 16 < 10 /\ arg % 16 < 10 =>
         IsNumeral(AfterPrefix, 16, arg)

(* printint of a negative number, also of the lowest, whose magnitude is no*)
(* int: the sign, and then one character for each digit, a 0 where the     *)
(* digit is 0.  Nothing is said of the other digits, for which abs is off. *)
DigitsOf[x \in 0..Range2] ==
  IF x < 1 THEN <<>> ELSE Append(DigitsOf[x \div 10], x % 10)
NegativeShape ==
  pc = "done" /\ fun = "printint" /\ arg < 0 =>
    /\ Len(out) = 1 + Len(DigitsOf[-arg]) /\ out[1] = Minus
    /\ \A k \in 1..Len(DigitsOf[-arg]) :
         DigitsOf[-arg][k] = 0 => out[k + 1] = ASCII0
=============================================================================
