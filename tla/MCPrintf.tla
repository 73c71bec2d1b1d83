------------------------------ MODULE MCPrintf ------------------------------
EXTENDS PrintfProperties

(* every format of up to three characters, and longer ones with the        *)
(* options of %d and with more formatters than there are argument registers*)
ShortFormats == BoundedSeq(Alphabet, 3)
d == <<"%", "d">>
s == <<"%", "s">>
LongFormats ==
  { d \o <<"x", "\\", "x", "c">> \o s, d \o <<"x", "x", "c">> \o d \o <<"x">>,
    d \o d \o d \o d \o d \o d, <<"c">> \o s \o d \o <<"c">> \o s,
    d \o <<"\\">> \o s }
MCFormats == ShortFormats \cup LongFormats
=============================================================================
