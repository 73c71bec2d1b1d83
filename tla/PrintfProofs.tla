---------------------------- MODULE PrintfProofs ----------------------------
(***************************************************************************)
(* What the passes of printf owe each other, proved for every format, any  *)
(* number of calls and every allocation and free that fails.               *)
(***************************************************************************)
EXTENDS PrintfProperties, FiniteSetTheorems, WellFoundedInduction, TLAPS

USE DEF NUL

(***************************************************************************)
(* Positions in a format.                                                  *)
(***************************************************************************)

(* A set of numbers has a least one. *)
Smaller == {p \in Nat \X Nat : p[1] < p[2]}
LEMMA LeastNumber ==
  ASSUME NEW T \in SUBSET Nat, T # {}
  PROVE  \E m \in T : \A n \in T : m <= n
<1>1. IsWellFoundedOn(Smaller, Nat)
  BY NatLessThanWellFounded DEF OpToRel, Smaller
<1>2. PICK m \in T : \A n \in T : <<n, m>> \notin Smaller
  BY <1>1, WFMin
<1>3. \A n \in T : ~(n < m)
  BY <1>2 DEF Smaller
<1> QED
  BY <1>3

FormatOK == format \in Seq(Alphabet)

LEMMA CharAt ==
  ASSUME FormatOK, NEW p \in Nat
  PROVE  /\ Char(p) = NUL <=> p >= Len(format)
         /\ p < Len(format) => Char(p) = format[p + 1] /\ Char(p) \in Alphabet
  BY DEF FormatOK, Char, Alphabet

(* the percent signs before position p *)
Before(p) == {n \in 1..Len(format) : n <= p /\ format[n] = "%"}
PercentsBefore(p) == Cardinality(Before(p))

LEMMA BeforeFinite ==
  ASSUME FormatOK, NEW p \in Nat
  PROVE  /\ IsFiniteSet(Before(p)) /\ PercentsBefore(p) \in Nat
         /\ PercentsBefore(p) <= Percents /\ Percents \in Nat
<1>1. IsFiniteSet(1..Len(format))
  BY FS_Interval DEF FormatOK
<1>2. IsFiniteSet({n \in 1..Len(format) : format[n] = "%"})
  BY <1>1, FS_Subset
<1>3. Before(p) \subseteq {n \in 1..Len(format) : format[n] = "%"}
  BY DEF Before
<1> QED
  BY <1>2, <1>3, FS_Subset, FS_CardinalityType
  DEF PercentsBefore, Percents, findoccurrences

LEMMA BeforeEnds ==
  ASSUME FormatOK
  PROVE  PercentsBefore(0) = 0 /\ PercentsBefore(Len(format)) = Percents
<1>1. Before(0) = {}
  BY DEF Before
<1>2. Before(Len(format)) = {n \in 1..Len(format) : format[n] = "%"}
  BY DEF Before, FormatOK
<1> QED
  BY <1>1, <1>2, FS_EmptySet DEF PercentsBefore, Percents, findoccurrences

LEMMA BeforeText ==
  ASSUME FormatOK, NEW p \in Nat, Char(p) # "%"
  PROVE  PercentsBefore(p + 1) = PercentsBefore(p)
<1>1. Before(p + 1) = Before(p)
  BY DEF Before, Char, FormatOK
<1> QED
  BY <1>1 DEF PercentsBefore

LEMMA BeforeFormatter ==
  ASSUME FormatOK, NEW p \in Nat, NEW q \in Nat, p < q,
         Char(p) = "%", \A r \in (p + 1)..(q - 1) : Char(r) # "%"
  PROVE  PercentsBefore(q) = PercentsBefore(p) + 1
<1>1. p < Len(format) /\ format[p + 1] = "%"
  BY DEF Char
<1>2. \A n \in 1..Len(format) : p + 2 <= n /\ n <= q => format[n] # "%"
  <2> SUFFICES ASSUME NEW n \in 1..Len(format), p + 2 <= n, n <= q
               PROVE  format[n] # "%"
    OBVIOUS
  <2>1. n - 1 \in (p + 1)..(q - 1) /\ n - 1 < Len(format)
    BY DEF FormatOK
  <2> QED
    BY <2>1 DEF Char
<1>3. Before(q) = Before(p) \cup {p + 1} /\ p + 1 \notin Before(p)
  BY <1>1, <1>2 DEF Before, FormatOK
<1> QED
  BY <1>3, BeforeFinite, FS_AddElement DEF PercentsBefore

(* The options of %d: where they end, and that no percent sign is among    *)
(* them (printf_expand_d).                                                 *)
LEMMA HexesCounted ==
  ASSUME FormatOK, i \in Nat
  PROVE  /\ Hexes \in 0..Len(format)
         /\ \A j \in 0..(Hexes - 1) : Char(i + 2 + j) = "x"
         /\ Char(i + 2 + Hexes) # "x"
<1> DEFINE T == {n \in Nat : Char(i + 2 + n) # "x"}
<1>1. Len(format) \in Nat /\ Len(format) \in T
  BY DEF FormatOK, Char
<1>2. PICK m \in T : \A n \in T : m <= n
  BY <1>1, LeastNumber
<1>3. m \in 0..Len(format) /\ Char(i + 2 + m) # "x"
  BY <1>1, <1>2
<1>4. \A j \in 0..(m - 1) : Char(i + 2 + j) = "x"
  BY <1>2, <1>3
<1> QED
  BY <1>3, <1>4 DEF Hexes

LEMMA FormatterInside ==
  ASSUME FormatOK, i \in Nat, Char(i) = "%", Char(i + 1) = "d"
  PROVE  /\ FormatterLength \in Nat /\ FormatterLength >= 2
         /\ i + FormatterLength <= Len(format)
         /\ \A r \in (i + 1)..(i + FormatterLength - 1) : Char(r) # "%"
<1> DEFINE n == Hexes
<1>1. /\ n \in 0..Len(format) /\ Char(i + 2 + n) # "x"
      /\ \A j \in 0..(n - 1) : Char(i + 2 + j) = "x"
  BY HexesCounted
<1> HIDE DEF n
<1>2. i + 2 + n <= Len(format)
  <2>1. CASE n = 0
    BY <2>1, CharAt DEF Char, FormatOK
  <2>2. CASE n > 0
    <3>1. n - 1 \in 0..(n - 1) /\ Char(i + 2 + (n - 1)) = "x"
      BY <1>1, <2>2
    <3> QED
      BY <3>1, <1>1 DEF Char, FormatOK
  <2> QED
    BY <1>1, <2>1, <2>2 DEF FormatOK
<1>3. \A r \in (i + 1)..(i + 1 + n) : Char(r) # "%"
  <2> SUFFICES ASSUME NEW r \in (i + 1)..(i + 1 + n) PROVE Char(r) # "%"
    OBVIOUS
  <2>1. CASE r = i + 1
    BY <2>1
  <2>2. CASE r # i + 1
    <3>1. r - i - 2 \in 0..(n - 1) /\ i + 2 + (r - i - 2) = r
      BY <2>2, <1>1
    <3> QED
      BY <3>1, <1>1
  <2> QED
    BY <2>1, <2>2
<1>4. CASE Char(i + 2 + n) = "\\"
  <2>1. FormatterLength = 3 + n /\ i + 2 + n < Len(format)
    BY <1>1, <1>4, <1>2 DEF FormatterLength, n, Char, FormatOK
  <2> QED
    BY <2>1, <1>1, <1>2, <1>3, <1>4 DEF FormatOK
<1>5. CASE Char(i + 2 + n) # "\\"
  <2>1. FormatterLength = 2 + n
    BY <1>1, <1>5 DEF FormatterLength, n
  <2> QED
    BY <2>1, <1>1, <1>2, <1>3 DEF FormatOK
<1> QED
  BY <1>4, <1>5

(***************************************************************************)
(* Types.                                                                  *)
(***************************************************************************)

Memory == {"array", "buffer", "expansion", "user"} \X Nat \X Nat
Entry == [formatterlength : Nat, string : Memory, length : Nat, arg : Nat]
TypeInv ==
  /\ pc \in {"idle", "create_str_array", "expand_formatters", "final_copy",
            "free_buffer", "free_array", "wild", "segv", "panic", "clobbered"}
  /\ calls \in Nat /\ gp_offset \in Nat /\ FormatOK /\ i \in Nat
  /\ entries \in Seq(Entry) /\ rbx \in Nat /\ k \in Nat /\ written \in Nat
  /\ allocated \subseteq Memory

LEMMA AreasTyped ==
  ASSUME TypeInv
  PROVE  /\ Array \in Memory /\ Buffer \in Memory
         /\ \A n, j \in Nat : Expansion(n, j) \in Memory
         /\ \A n \in Nat : <<"user", calls, n>> \in Memory
<1>1. \A n, j \in Nat : n * (Len(format) + 1) + j \in Nat
  BY DEF TypeInv, FormatOK
<1> QED
  BY <1>1 DEF TypeInv, Memory, Array, Buffer, Expansion

(* Expansions of different entries are different areas. *)
LEMMA ExpansionsDiffer ==
  ASSUME TypeInv, NEW m \in Nat, NEW n \in Nat, m < n,
         NEW a \in 0..Len(format), NEW b \in Nat
  PROVE  Expansion(m, a) # Expansion(n, b)
<1> DEFINE L == Len(format) + 1
<1>1. L \in Nat /\ a < L
  BY DEF TypeInv, FormatOK
<1> HIDE DEF L
<1>2. PICK d \in Nat : n = m + 1 + d
  BY n - m - 1 \in Nat /\ n = m + 1 + (n - m - 1)
<1>3. n * L = m * L + L + d * L /\ d * L \in Nat /\ m * L \in Nat
  BY <1>1, <1>2
<1>4. m * L + a # n * L + b
  BY <1>1, <1>3
<1> QED
  BY <1>4 DEF Expansion, L

(* What printf_expand_d adds for a formatter, of which it makes an entry.  *)
LEMMA Expanded ==
  ASSUME TypeInv, ExpandFormatter, ~Stop("panic"), ~Stop("segv")
  PROVE  /\ pc = "expand_formatters" /\ Char(i) = "%" /\ ArgThere
         /\ gp_offset' = va_start + 8
         /\ \E e \in Entry :
              /\ entries' = Append(entries, e)
              /\ rbx' = rbx + Strln(e.length)
              /\ i' = i + e.formatterlength
              /\ e.arg = Arg /\ e.formatterlength >= 2
              /\ i + e.formatterlength <= Len(format)
              /\ \A r \in (i + 1)..(i + e.formatterlength - 1) : Char(r) # "%"
              /\ \/ e.string = <<"user", calls, Len(entries)>>
                 \/ /\ \E j \in 0..Len(format) : e.string = Expansion(Len(entries), j)
                    /\ e.string \in allocated'
         /\ allocated \subseteq allocated'
         /\ \A area \in allocated' \ allocated :
              \E j \in 0..Len(format) : area = Expansion(Len(entries), j)
         /\ UNCHANGED <<pc, calls, format, k, written, user_freed, unfreed>>
<1>1. /\ pc = "expand_formatters" /\ Char(i) = "%" /\ ArgThere
      /\ gp_offset' = va_start + 8
      /\ UNCHANGED <<pc, calls, format, k, written, user_freed, unfreed>>
      /\ ExpandString \/ ExpandHex \/ ExpandDecimal
  BY DEF ExpandFormatter
<1>2. /\ Len(entries) \in Nat /\ Len(format) \in Nat /\ i \in Nat
      /\ va_start \in Nat /\ Arg \in Nat /\ FormatOK
  BY DEF TypeInv, FormatOK, va_start, Arg
<1>3. CASE ExpandString
  <2>1. PICK length \in Lengths :
          AddEntry(<<"user", calls, Len(entries)>>, length, 2)
    BY <1>3 DEF ExpandString
  <2> DEFINE e == [formatterlength |-> 2, string |-> <<"user", calls, Len(entries)>>,
                   length |-> length, arg |-> Arg]
  <2>2. e \in Entry
    BY <1>2, AreasTyped, PrintfAssumption DEF Entry
  <2>3. i + 2 <= Len(format) /\ Char(i + 1) = "s"
    BY <1>2, <1>3, CharAt DEF ExpandString, Char, FormatOK
  <2>4. \A r \in (i + 1)..(i + 2 - 1) : Char(r) # "%"
    BY <1>2, <2>3
  <2>5. /\ entries' = Append(entries, e) /\ rbx' = rbx + Strln(e.length)
        /\ i' = i + 2 /\ allocated' = allocated
    BY <2>1, <1>3 DEF AddEntry, ExpandString
  <2>6. /\ e.formatterlength = 2 /\ e.arg = Arg
        /\ e.string = <<"user", calls, Len(entries)>>
    OBVIOUS
  <2> HIDE DEF e
  <2>7. \A r \in (i + 1)..(i + e.formatterlength - 1) : Char(r) # "%"
    BY <2>4, <2>6
  <2>8. /\ i' = i + e.formatterlength /\ e.formatterlength >= 2
        /\ i + e.formatterlength <= Len(format)
    BY <2>3, <2>5, <2>6
  <2> QED
    BY <1>1, <2>2, <2>5, <2>6, <2>7, <2>8
<1>4. CASE ExpandHex
  <2> DEFINE e == [formatterlength |-> FormatterLength,
                   string |-> Expansion(Len(entries), Hexes),
                   length |-> HexLength, arg |-> Arg]
  <2>1. /\ Hexes \in 1..Len(format) /\ Char(i + 1) = "d"
        /\ allocated' = allocated \cup {Expansion(Len(entries), j) : j \in 1..Hexes}
        /\ entries' = Append(entries, e) /\ rbx' = rbx + Strln(e.length)
        /\ i' = i + e.formatterlength
    BY <1>2, <1>4, HexesCounted DEF ExpandHex, AddEntry
  <2>2. /\ FormatterLength \in Nat /\ FormatterLength >= 2
        /\ i + FormatterLength <= Len(format)
        /\ \A r \in (i + 1)..(i + FormatterLength - 1) : Char(r) # "%"
    BY <1>1, <1>2, <2>1, FormatterInside
  <2>3. e \in Entry
    BY <1>2, <2>1, <2>2, AreasTyped DEF Entry, HexLength
  <2>4. e.string \in allocated' /\ e.string = Expansion(Len(entries), Hexes)
    BY <2>1
  <2> QED
    BY SMTT(30), <1>1, <1>2, <2>1, <2>2, <2>3, <2>4
<1>5. CASE ExpandDecimal
  <2>1. PICK length \in Lengths, stale \in StaleLengths \cup {0} :
          AddEntry(Expansion(Len(entries), 0), length + stale, FormatterLength)
    BY <1>5 DEF ExpandDecimal
  <2> DEFINE e == [formatterlength |-> FormatterLength,
                   string |-> Expansion(Len(entries), 0),
                   length |-> length + stale, arg |-> Arg]
  <2>2. /\ allocated' = allocated \cup {Expansion(Len(entries), 0)}
        /\ Char(i + 1) = "d" /\ entries' = Append(entries, e)
        /\ rbx' = rbx + Strln(e.length) /\ i' = i + e.formatterlength
    BY <1>5, <2>1 DEF ExpandDecimal, AddEntry
  <2>3. /\ FormatterLength \in Nat /\ FormatterLength >= 2
        /\ i + FormatterLength <= Len(format)
        /\ \A r \in (i + 1)..(i + FormatterLength - 1) : Char(r) # "%"
    BY <1>1, <1>2, <2>2, FormatterInside
  <2>4. e \in Entry
    BY <1>2, <2>3, AreasTyped, PrintfAssumption DEF Entry
  <2>5. 0 \in 0..Len(format)
    BY <1>2
  <2>6. e.string \in allocated' /\ e.string = Expansion(Len(entries), 0)
    BY <2>2
  <2> QED
    BY <1>1, <2>2, <2>3, <2>4, <2>5, <2>6
<1> QED
  BY <1>1, <1>3, <1>4, <1>5

(***************************************************************************)
(* The passes.                                                             *)
(***************************************************************************)

(* The way of the second pass through the format: the positions at which   *)
(* it has been, with the total at each.  The copy goes the same way.       *)
EntryAt(p) == entries[PercentsBefore(p) + 1]
NextPlace(p) == IF Char(p) = "%" THEN p + EntryAt(p).formatterlength ELSE p + 1
Counted(p) == IF Char(p) = "%" THEN Strln(EntryAt(p).length) ELSE 1
Reached == IF pc = "expand_formatters" THEN i ELSE Len(format)
SecondPass(t) ==
  /\ DOMAIN t \subseteq 0..Reached /\ t \in [DOMAIN t -> Nat]
  /\ 0 \in DOMAIN t /\ t[0] = 0
  /\ Reached \in DOMAIN t /\ t[Reached] = rbx
  /\ Reached <= Len(format) /\ Len(entries) = PercentsBefore(Reached)
  /\ \A p \in DOMAIN t \ {Reached} :
       /\ t[p] <= rbx
       /\ NextPlace(p) \in DOMAIN t
       /\ t[NextPlace(p)] = t[p] + Counted(p)
       /\ Char(p) = "%" => /\ PercentsBefore(p) < Len(entries)
                           /\ PercentsBefore(NextPlace(p)) = PercentsBefore(p) + 1
Copied(t) ==
  /\ pc = "expand_formatters" => k = 0 /\ written = 0
  /\ pc = "final_copy" =>
       /\ i \in DOMAIN t /\ k = PercentsBefore(i)
       /\ InsideBlocks => t[i] = written + k
  /\ pc \in {"free_buffer", "free_array"} =>
       k = Len(entries) /\ (InsideBlocks => rbx = written + k)
PassesInv ==
  /\ Len(entries) <= Percents
  /\ pc = "create_str_array" =>
       i = 0 /\ rbx = 0 /\ k = 0 /\ written = 0 /\ entries = <<>>
  /\ pc \in {"expand_formatters", "final_copy", "free_buffer", "free_array"} =>
       \E t : SecondPass(t) /\ Copied(t)
  /\ pc = "clobbered" => ~InsideBlocks

LEMMA PassesAreRight ==
  ASSUME TypeInv, PassesInv
  PROVE  TotalOverByNuls /\ PassesAgree
<1>1. Copying => \E t : SecondPass(t) /\ Copied(t) /\ Reached = Len(format)
  BY DEF Copying, PassesInv, Reached
<1>2. ASSUME NEW t, SecondPass(t), Copied(t), Copying, Reached = Len(format)
      PROVE  /\ InsideBlocks => written + k <= rbx
             /\ pc = "free_buffer" => /\ InsideBlocks => rbx = written + k
                                      /\ k = Percents /\ k = Len(entries)
             /\ pc = "final_copy" /\ Char(i) = "%" => k < Len(entries)
  <2>1. Len(entries) = Percents
    BY <1>2, BeforeEnds DEF SecondPass, TypeInv
  <2>2. CASE pc = "final_copy"
    <3>1. /\ i \in DOMAIN t /\ k = PercentsBefore(i)
          /\ InsideBlocks => t[i] = written + k
      BY <1>2, <2>2 DEF Copied
    <3>2. t[i] <= rbx
      BY <1>2, <3>1 DEF SecondPass, TypeInv
    <3>3. Char(i) = "%" => i # Reached
      BY <1>2 DEF Char
    <3> QED
      BY <1>2, <2>2, <3>1, <3>2, <3>3 DEF SecondPass
  <2>3. CASE pc \in {"free_buffer", "free_array"}
    BY <1>2, <2>1, <2>3 DEF Copied, TypeInv
  <2> QED
    BY <1>2, <2>2, <2>3 DEF Copying
<1> QED
  BY <1>1, <1>2 DEF TotalOverByNuls, PassesAgree, PassesInv, Copying

(* A step of the second pass, from a to b, goes on along its way. *)
LEMMA SecondPassGoesOn ==
  ASSUME TypeInv, NEW t, SecondPass(t), pc = "expand_formatters",
         UNCHANGED <<pc, format>>,
         NEW CONSTANT a \in Nat, NEW CONSTANT b \in Nat, i = a, i' = b,
         a < b, b <= Len(format),
         rbx' \in Nat, rbx <= rbx', entries' \in Seq(Entry),
         Len(entries) <= Len(entries'), Len(entries') = PercentsBefore(b),
         \A n \in 1..Len(entries) : entries'[n] = entries[n],
         NextPlace(a)' = b, rbx' = rbx + Counted(a)',
         Char(a) = "%" => Len(entries') = Len(entries) + 1
  PROVE  \E u : SecondPass(u)'
<1>0. PICK u : u = [p \in DOMAIN t \cup {b} |-> IF p = b THEN rbx' ELSE t[p]]
  OBVIOUS
<1>1. Reached = a /\ Reached' = b
  BY DEF Reached
<1>2. /\ DOMAIN t \subseteq 0..a /\ a \in DOMAIN t /\ t[a] = rbx
      /\ 0 \in DOMAIN t /\ t[0] = 0 /\ Len(entries) = PercentsBefore(a)
      /\ \A p \in DOMAIN t : t[p] \in Nat
  BY <1>1 DEF SecondPass
<1>3. /\ b \notin DOMAIN t /\ DOMAIN u = DOMAIN t \cup {b} /\ u[b] = rbx'
      /\ \A p \in DOMAIN t : u[p] = t[p]
  BY <1>0, <1>2
<1>4. \A p : Char(p)' = Char(p) /\ PercentsBefore(p)' = PercentsBefore(p)
  BY DEF Char, PercentsBefore, Before
<1>5. ASSUME NEW CONSTANT p \in DOMAIN t, p # a
      PROVE  /\ NextPlace(p)' = NextPlace(p) /\ Counted(p)' = Counted(p)
             /\ NextPlace(p) \in DOMAIN t /\ t[NextPlace(p)] = t[p] + Counted(p)
             /\ Char(p) = "%" => /\ PercentsBefore(p) < Len(entries)
                                 /\ PercentsBefore(NextPlace(p)) = PercentsBefore(p) + 1
             /\ t[p] <= rbx
  <2>1. /\ NextPlace(p) \in DOMAIN t /\ t[NextPlace(p)] = t[p] + Counted(p)
        /\ Char(p) = "%" => /\ PercentsBefore(p) < Len(entries)
                            /\ PercentsBefore(NextPlace(p)) = PercentsBefore(p) + 1
        /\ t[p] <= rbx
    BY <1>1, <1>5 DEF SecondPass
  <2>2. p \in Nat /\ PercentsBefore(p) \in Nat /\ Len(entries) \in Nat
    BY SMTT(30), <1>2, BeforeFinite DEF TypeInv
  <2>3. Char(p) = "%" => EntryAt(p)' = EntryAt(p)
    BY <1>4, <2>1, <2>2 DEF EntryAt
  <2> QED
    BY <1>4, <2>1, <2>3 DEF NextPlace, Counted
<1>6. PercentsBefore(a)' = Len(entries) /\ PercentsBefore(b)' = Len(entries')
  BY <1>2, <1>4
<1>7. ASSUME NEW CONSTANT p \in DOMAIN u \ {b}
      PROVE  /\ u[p] <= rbx'
             /\ NextPlace(p)' \in DOMAIN u
             /\ u[NextPlace(p)'] = u[p] + Counted(p)'
             /\ Char(p)' = "%" =>
                  /\ PercentsBefore(p)' < Len(entries')
                  /\ PercentsBefore(NextPlace(p))' = PercentsBefore(p)' + 1
  <2>1. CASE p = a
    <3>1. PercentsBefore(NextPlace(p))' = PercentsBefore(b)'
      BY <2>1 DEF PercentsBefore, Before
    <3> QED
      BY <1>2, <1>3, <1>4, <1>6, <2>1, <3>1 DEF TypeInv
  <2>2. CASE p # a
    <3>1. p \in DOMAIN t
      BY <1>3
    <3>2. PercentsBefore(NextPlace(p))' = PercentsBefore(NextPlace(p))
      BY <1>5, <3>1, <2>2 DEF PercentsBefore, Before
    <3>3. /\ u[p] = t[p] /\ NextPlace(p)' = NextPlace(p)
          /\ Counted(p)' = Counted(p) /\ NextPlace(p) \in DOMAIN t
          /\ t[p] \in Nat /\ t[p] <= rbx
          /\ t[NextPlace(p)] = t[p] + Counted(p)
      BY <1>2, <1>3, <1>5, <3>1, <2>2
    <3>4. u[NextPlace(p)'] = u[p] + Counted(p)' /\ NextPlace(p)' \in DOMAIN u
      BY <1>3, <3>3
    <3>5. u[p] <= rbx'
      BY <3>3 DEF TypeInv
    <3>6. Char(p)' = "%" =>
            /\ PercentsBefore(p)' < Len(entries')
            /\ PercentsBefore(NextPlace(p))' = PercentsBefore(p)' + 1
      <4>1. p \in Nat /\ PercentsBefore(p) \in Nat
        BY SMTT(30), <1>2, <3>1, BeforeFinite DEF TypeInv
      <4> QED
        BY <1>4, <1>5, <3>1, <3>2, <2>2, <4>1 DEF TypeInv
    <3> QED
      BY <3>4, <3>5, <3>6
  <2> QED
    BY <2>1, <2>2
<1>8. DOMAIN u \subseteq 0..b /\ u \in [DOMAIN u -> Nat]
  BY <1>0, <1>2, <1>3
<1>9. SecondPass(u)'
  <2>1. b <= Len(format') /\ Len(entries') = PercentsBefore(Reached)'
    BY <1>1, <1>6 DEF PercentsBefore, Before
  <2> QED
    BY <1>1, <1>2, <1>3, <1>7, <1>8, <2>1 DEF SecondPass
<1> QED
  BY <1>9

(***************************************************************************)
(* Arguments and memory.                                                   *)
(***************************************************************************)

ArgsInv ==
  /\ calls = 0 => pc = "idle" /\ entries = <<>>
  /\ calls <= 1 /\ entries = <<>> => gp_offset = 0
  /\ entries # <<>> => gp_offset = 8 * (entries[Len(entries)].arg + 1)
  /\ \E m \in Nat : gp_offset = 8 * m
  /\ ArgsInOrder

(* Whose memory is whose: the strings of the entries, what is allocated,   *)
(* what is still to be freed, and what could not be.                       *)
Strings ==
  \A n \in 1..Len(entries) :
    \/ entries[n].string = <<"user", calls, n - 1>>
    \/ \E j \in 0..Len(format) : entries[n].string = Expansion(n - 1, j)
Allocated ==
  \A area \in allocated :
    /\ area[2] <= calls
    /\ pc = "create_str_array" => area[2] < calls
    /\ area[2] = calls => area \in {Array, Buffer} \/ area[1] = "expansion"
InUse ==
  /\ pc \in {"expand_formatters", "final_copy", "free_buffer", "free_array"} =>
       Array \in allocated
  /\ pc \in {"final_copy", "free_buffer"} => Buffer \in allocated
  /\ pc \in {"expand_formatters", "final_copy"} =>
       \A n \in (k + 1)..Len(entries) :
         entries[n].string[1] = "user" \/ entries[n].string \in allocated
Freed ==
  /\ pc \in {"free_array", "idle"} => (Buffer \in allocated => Buffer \in unfreed)
  /\ pc = "idle" => (Array \in allocated => Array \in unfreed)
  /\ pc \in {"final_copy", "free_buffer", "free_array", "idle"} =>
       \A n \in 1..k : (entries[n].string \in allocated =>
                         entries[n].string \in unfreed)
  /\ pc = "idle" => k = Len(entries)
MemoryInv == Strings /\ Allocated /\ InUse /\ Freed /\ FreesOwnOrStrings

PInv == TypeInv /\ PassesInv /\ ArgsInv /\ MemoryInv

LEMMA NothingIsLeaked ==
  ASSUME TypeInv, MemoryInv
  PROVE  NothingLeaked
<1> SUFFICES ASSUME pc = "idle", NEW area \in allocated, area[2] = calls,
                    ~Replaced(area)
             PROVE  area \in unfreed
  BY DEF NothingLeaked
<1>1. CASE area \in {Array, Buffer}
  BY <1>1 DEF MemoryInv, Freed
<1>2. CASE area[1] = "expansion"
  <2>1. PICK n \in 1..Len(entries) : entries[n].string = area
    BY <1>2 DEF Replaced
  <2> QED
    BY <2>1 DEF MemoryInv, Freed
<1> QED
  BY <1>1, <1>2 DEF MemoryInv, Allocated

LEMMA PInit == Init => PInv
<1> SUFFICES ASSUME Init PROVE PInv
  OBVIOUS
<1>1. TypeInv
  BY DEF Init, TypeInv, FormatOK
<1>2. Percents \in Nat
  BY <1>1, BeforeFinite DEF TypeInv
<1>3. PassesInv /\ ArgsInv
  BY <1>2 DEF Init, PassesInv, ArgsInv, ArgsInOrder
<1>4. MemoryInv
  BY DEF Init, MemoryInv, Strings, Allocated, InUse, Freed, FreesOwnOrStrings
<1> QED
  BY <1>1, <1>3, <1>4 DEF PInv

(***************************************************************************)
(* The steps.                                                              *)
(***************************************************************************)

LEMMA PStop ==
  ASSUME PInv, NEW how \in {"segv", "panic", "wild", "clobbered"}, Stop(how),
         pc # "idle", how = "clobbered" => ~InsideBlocks
  PROVE  PInv'
<1> USE DEF PInv, Stop
<1>1. TypeInv'
  BY DEF TypeInv, FormatOK
<1>2. Percents' = Percents
  BY DEF Percents
<1>3. InsideBlocks' = InsideBlocks
  BY DEF InsideBlocks, NulInside
<1>4. PassesInv' /\ ArgsInv'
  BY <1>2, <1>3 DEF PassesInv, ArgsInv, ArgsInOrder
<1>5. MemoryInv'
  BY DEF MemoryInv, Strings, Allocated, InUse, Freed, FreesOwnOrStrings,
         Array, Buffer, Expansion
<1> QED
  BY <1>1, <1>4, <1>5

LEMMA PCall ==
  ASSUME PInv, NEW f \in Formats, Call(f)
  PROVE  PInv'
<1> USE DEF PInv, Call
<1>1. TypeInv'
  BY PrintfAssumption DEF TypeInv, FormatOK
<1>2. PassesInv'
  <2>1. Percents' \in Nat
    <3>1. FormatOK'
      BY <1>1 DEF TypeInv
    <3>2. IsFiniteSet({n \in 1..Len(f) : f[n] = "%"})
      BY SMTT(30), <3>1, FS_Interval, FS_Subset DEF FormatOK
    <3> QED
      BY <3>2, FS_CardinalityType DEF Percents, findoccurrences
  <2> QED
    BY <2>1 DEF PassesInv
<1>3. ArgsInv'
  BY DEF TypeInv, ArgsInv, ArgsInOrder
<1>4. MemoryInv'
  <2>1. \A area \in allocated' : area[2] \in Nat /\ area[2] < calls'
    BY DEF MemoryInv, Allocated, TypeInv, Memory
  <2>2. Allocated'
    BY <2>1 DEF Allocated, TypeInv
  <2>3. Strings' /\ InUse' /\ Freed' /\ FreesOwnOrStrings'
    BY DEF MemoryInv, Strings, InUse, Freed, FreesOwnOrStrings
  <2> QED
    BY <2>2, <2>3 DEF MemoryInv
<1> QED
  BY <1>1, <1>2, <1>3, <1>4

LEMMA PCreateStrArray ==
  ASSUME PInv, CreateStrArray
  PROVE  PInv'
<1> USE DEF PInv
<1>1. CASE pc = "create_str_array" /\ Stop("wild")
  BY <1>1, PStop
<1>2. CASE /\ pc = "create_str_array" /\ pc' = "expand_formatters"
           /\ allocated' = allocated \cup {Array}
           /\ UNCHANGED <<calls, gp_offset, format, i, entries, rbx, k, written,
                          user_freed, unfreed, result>>
  <2> USE <1>2
  <2>1. TypeInv'
    BY AreasTyped DEF TypeInv, FormatOK
  <2>2. i = 0 /\ rbx = 0 /\ k = 0 /\ written = 0 /\ entries = <<>>
    BY DEF PassesInv
  <2>3. PassesInv'
    <3> DEFINE t == [p \in {0} |-> 0]
    <3>1. PercentsBefore(0)' = 0
      BY <2>1, BeforeEnds DEF TypeInv, PercentsBefore, Before, FormatOK
    <3>2. SecondPass(t)'
      BY <2>2, <3>1 DEF SecondPass, Reached, PercentsBefore, Before, TypeInv, FormatOK
    <3>3. Copied(t)'
      BY <2>2 DEF Copied
    <3>4. Percents' = Percents
      BY DEF Percents
    <3> QED
      BY <3>2, <3>3, <3>4 DEF PassesInv
  <2>4. ArgsInv'
    BY DEF ArgsInv, ArgsInOrder
  <2>5. MemoryInv'
    BY <2>2
    DEF MemoryInv, Strings, Allocated, InUse, Freed, FreesOwnOrStrings, Array,
        Buffer, Expansion, TypeInv, Memory
  <2> QED
    BY <2>1, <2>3, <2>4, <2>5
<1> QED
  BY <1>1, <1>2 DEF CreateStrArray

(* An entry more, and the way goes on behind its formatter. *)
LEMMA PExpand ==
  ASSUME PInv, ExpandFormatter, ~Stop("panic"), ~Stop("segv")
  PROVE  PInv'
<1> USE DEF PInv
<1>1. /\ pc = "expand_formatters" /\ Char(i) = "%" /\ ArgThere
      /\ gp_offset' = va_start + 8 /\ allocated \subseteq allocated'
      /\ \A area \in allocated' \ allocated :
           \E j \in 0..Len(format) : area = Expansion(Len(entries), j)
      /\ UNCHANGED <<pc, calls, format, k, written, user_freed, unfreed>>
  BY Expanded
<1>2. PICK e \in Entry :
        /\ entries' = Append(entries, e)
        /\ rbx' = rbx + Strln(e.length) /\ i' = i + e.formatterlength
        /\ e.arg = Arg /\ e.formatterlength >= 2
        /\ i + e.formatterlength <= Len(format)
        /\ \A r \in (i + 1)..(i + e.formatterlength - 1) : Char(r) # "%"
        /\ \/ e.string = <<"user", calls, Len(entries)>>
           \/ /\ \E j \in 0..Len(format) : e.string = Expansion(Len(entries), j)
              /\ e.string \in allocated'
  BY Expanded
<1>3. /\ Len(entries) \in Nat /\ i \in Nat /\ Len(format) \in Nat
      /\ e.formatterlength \in Nat /\ e.length \in Nat /\ e.arg \in Nat
      /\ rbx \in Nat /\ k \in Nat /\ entries \in Seq(Entry)
  BY DEF TypeInv, FormatOK, Entry
<1>4. /\ entries' \in Seq(Entry) /\ Len(entries') = Len(entries) + 1
      /\ entries'[Len(entries) + 1] = e
      /\ \A n \in 1..Len(entries) : entries'[n] = entries[n]
  BY <1>2, <1>3
<1>5. TypeInv'
  <2>1. \A j \in Nat : Expansion(Len(entries), j) \in Memory
    BY <1>3, AreasTyped
  <2>2. allocated' \subseteq Memory
    BY <1>1, <1>3, <2>1 DEF TypeInv
  <2>3. va_start \in Nat
    BY DEF TypeInv, va_start
  <2>4. gp_offset' \in Nat /\ i' \in Nat /\ rbx' \in Nat
    <3>1. gp_offset' \in Nat
      BY <1>1, <2>3
    <3>2. i' \in Nat
      BY <1>2, <1>3
    <3>3. rbx' \in Nat
      BY SMTT(30), <1>2, <1>3 DEF Strln
    <3> QED
      BY <3>1, <3>2, <3>3
  <2> QED
    BY <1>1, <1>4, <2>2, <2>4 DEF TypeInv, FormatOK
<1>6. PassesInv'
  <2>1. PICK t : SecondPass(t) /\ Copied(t)
    BY <1>1 DEF PassesInv
  <2> DEFINE a == i
             b == i + e.formatterlength
  <2>2. Len(entries) = PercentsBefore(i)
    BY <1>1, <2>1 DEF SecondPass, Reached
  <2>3. PercentsBefore(b) = PercentsBefore(a) + 1
    BY SMTT(30), <1>1, <1>2, <1>3, BeforeFormatter DEF TypeInv
  <2>4. \A p : Char(p)' = Char(p) /\ PercentsBefore(p)' = PercentsBefore(p)
    BY <1>1 DEF Char, PercentsBefore, Before
  <2>5. \E u : SecondPass(u)'
    <3> SUFFICES ASSUME NEW CONSTANT c \in Nat, c = i,
                        NEW CONSTANT d \in Nat, d = b
                 PROVE  \E u : SecondPass(u)'
      BY <1>3
    <3>1. EntryAt(c)' = e
      BY <1>4, <2>2, <2>4 DEF EntryAt
    <3>2. NextPlace(c)' = d /\ Counted(c)' = Strln(e.length)
      BY <1>1, <2>4, <3>1 DEF NextPlace, Counted
    <3>3. i' = d /\ c < d /\ d <= Len(format) /\ Len(entries') = PercentsBefore(d)
      BY <1>2, <1>3, <1>4, <2>2, <2>3
    <3>4. rbx' \in Nat /\ rbx <= rbx' /\ rbx' = rbx + Counted(c)'
      BY SMTT(30), <1>2, <1>3, <3>2 DEF Strln
    <3> HIDE DEF b
    <3> QED
      BY <1>1, <1>3, <1>4, <2>1, <3>2, <3>3, <3>4, SecondPassGoesOn
  <2>6. \A u : Copied(u)'
    BY <1>1, <2>1 DEF Copied
  <2>7. Len(entries') <= Percents'
    <3>1. Len(entries') = PercentsBefore(b) /\ b \in Nat
      BY <1>3, <1>4, <2>2, <2>3
    <3>2. PercentsBefore(b) <= Percents /\ Percents' = Percents
      BY <1>1, <3>1, BeforeFinite DEF Percents, TypeInv
    <3> QED
      BY <3>1, <3>2
  <2> QED
    BY <1>1, <2>5, <2>6, <2>7 DEF PassesInv
<1>7. ArgsInv'
  <2>1. PICK m \in Nat : gp_offset = 8 * m
    BY DEF ArgsInv
  <2>2. va_start = IF m = 0 THEN 8 ELSE 8 * m
    BY <2>1 DEF va_start
  <2>3. e.arg = IF m = 0 THEN 1 ELSE m
    BY <1>2, <2>2 DEF Arg
  <2>4. gp_offset' = 8 * (e.arg + 1)
    BY <1>1, <2>2, <2>3
  <2>5. calls \in Nat /\ calls # 0 /\ calls' = calls
    BY <1>1 DEF ArgsInv, TypeInv
  <2>6. ArgsInOrder'
    <3> DEFINE start == IF calls = 1 THEN 1 ELSE entries'[1].arg
    <3>1. CASE entries = <<>>
      <4>1. Len(entries') = 1 /\ entries'[1].arg = e.arg
        BY <1>4, <3>1
      <4>2. calls = 1 => e.arg = 1
        BY <2>1, <2>3, <2>5, <3>1 DEF ArgsInv
      <4>3. \A n \in 1..Len(entries') : n = 1
        BY <4>1
      <4>4. e.arg = 0 + start
        BY <1>3, <4>1, <4>2
      <4>5. \A n \in 1..Len(entries') : entries'[n].arg = (n - 1) + start
        BY <4>1, <4>3, <4>4
      <4> QED
        BY <2>5, <4>5 DEF ArgsInOrder
    <3>2. CASE entries # <<>>
      <4>1. /\ Len(entries) \in 1..Len(entries) /\ 1 \in 1..Len(entries)
            /\ entries[Len(entries)] \in Entry /\ entries'[1] = entries[1]
            /\ entries[1] \in Entry
        BY <1>3, <1>4, <3>2
      <4>2. entries[Len(entries)].arg \in Nat /\ start \in Nat
        BY <4>1 DEF Entry
      <4>3. gp_offset = 8 * (entries[Len(entries)].arg + 1)
        BY <3>2 DEF ArgsInv
      <4>4. e.arg = entries[Len(entries)].arg + 1
        BY <2>1, <2>3, <4>2, <4>3
      <4>5. \A n \in 1..Len(entries) : entries[n].arg = (n - 1) + start
        BY <4>1 DEF ArgsInv, ArgsInOrder
      <4>6. e.arg = Len(entries) + start
        <5> HIDE DEF start
        <5>1. entries[Len(entries)].arg = (Len(entries) - 1) + start
          BY <4>1, <4>5
        <5> QED
          BY <1>3, <4>2, <4>4, <5>1
      <4>7. ASSUME NEW n \in 1..Len(entries')
            PROVE  entries'[n].arg = (n - 1) + start
        <5>1. CASE n = Len(entries) + 1
          BY <1>3, <1>4, <4>6, <5>1
        <5>2. CASE n # Len(entries) + 1
          <6>1. n \in 1..Len(entries)
            BY <1>3, <1>4, <5>2
          <6> QED
            BY <1>4, <4>5, <6>1
        <5> QED
          BY <5>1, <5>2
      <4> QED
        BY <2>5, <4>7 DEF ArgsInOrder
    <3> QED
      BY <3>1, <3>2
  <2>7. entries' # <<>> /\ entries'[Len(entries')] = e
    BY <1>3, <1>4
  <2>8. \E n \in Nat : gp_offset' = 8 * n
    <3>1. e.arg + 1 \in Nat
      BY <1>3
    <3> QED
      BY <2>4, <3>1
  <2> QED
    BY <2>4, <2>5, <2>6, <2>7, <2>8 DEF ArgsInv
<1>8. MemoryInv'
  <2>1. Array' = Array /\ Buffer' = Buffer
        /\ \A n, j : Expansion(n, j)' = Expansion(n, j)
    BY <1>1 DEF Array, Buffer, Expansion
  <2>2. Strings'
    <3> SUFFICES ASSUME NEW n \in 1..Len(entries')
                 PROVE  \/ entries'[n].string = <<"user", calls, n - 1>>
                        \/ \E j \in 0..Len(format) :
                             entries'[n].string = Expansion(n - 1, j)
      BY <1>1, <2>1 DEF Strings
    <3>1. CASE n = Len(entries) + 1
      <4>1. n - 1 = Len(entries) /\ entries'[n] = e
        BY <1>3, <1>4, <3>1
      <4> QED
        BY <1>2, <4>1
    <3>2. CASE n # Len(entries) + 1
      <4>1. n \in 1..Len(entries) /\ entries'[n] = entries[n]
        BY <1>3, <1>4, <3>2
      <4> QED
        BY <4>1 DEF MemoryInv, Strings
    <3> QED
      BY <3>1, <3>2
  <2>3. \A area \in allocated' \ allocated :
          area[1] = "expansion" /\ area[2] = calls
    BY <1>1 DEF Expansion
  <2>4. Allocated'
    BY <1>1, <2>1, <2>3 DEF MemoryInv, Allocated, TypeInv
  <2>5. InUse'
    <3>1. ASSUME NEW n \in (k + 1)..Len(entries')
          PROVE  entries'[n].string[1] = "user" \/ entries'[n].string \in allocated'
      <4>1. CASE n = Len(entries) + 1
        <5>1. entries'[n] = e
          BY <1>4, <4>1
        <5>2. e.string[1] = "user" \/ e.string \in allocated'
          BY <1>2
        <5> QED
          BY <5>1, <5>2
      <4>2. CASE n # Len(entries) + 1
        <5>1. n \in (k + 1)..Len(entries) /\ n \in 1..Len(entries)
          BY <1>3, <1>4, <4>2
        <5>2. entries'[n] = entries[n]
          BY <1>4, <5>1
        <5>3. entries[n].string[1] = "user" \/ entries[n].string \in allocated
          BY <1>1, <5>1 DEF MemoryInv, InUse
        <5> QED
          BY <1>1, <5>2, <5>3
      <4> QED
        BY <4>1, <4>2
    <3>2. Array \in allocated' /\ pc # "final_copy" /\ pc # "free_buffer"
      BY <1>1 DEF MemoryInv, InUse
    <3> QED
      BY <1>1, <2>1, <3>1, <3>2 DEF InUse
  <2>6. Freed' /\ FreesOwnOrStrings'
    BY <1>1 DEF MemoryInv, Freed, FreesOwnOrStrings
  <2> QED
    BY <2>2, <2>4, <2>5, <2>6 DEF MemoryInv
<1> QED
  BY <1>5, <1>6, <1>7, <1>8

(* The way of the second pass stays while the copy follows it. *)
LEMMA SecondPassKept ==
  ASSUME NEW t, SecondPass(t), Reached' = Reached,
         UNCHANGED <<format, entries, rbx>>
  PROVE  SecondPass(t)'
<1>1. \A p : /\ Char(p)' = Char(p) /\ PercentsBefore(p)' = PercentsBefore(p)
             /\ EntryAt(p)' = EntryAt(p)
  BY DEF Char, PercentsBefore, Before, EntryAt
<1>2. \A p : NextPlace(p)' = NextPlace(p) /\ Counted(p)' = Counted(p)
  BY <1>1 DEF NextPlace, Counted
<1>3. \A p : PercentsBefore(NextPlace(p))' = PercentsBefore(NextPlace(p))
  BY <1>2 DEF PercentsBefore, Before
<1>4. PercentsBefore(Reached)' = PercentsBefore(Reached)
  BY DEF PercentsBefore, Before
<1> QED
  BY <1>1, <1>2, <1>3, <1>4 DEF SecondPass

LEMMA PCountText ==
  ASSUME PInv, CountText
  PROVE  PInv'
<1> USE DEF PInv, CountText
<1>1. TypeInv'
  BY DEF TypeInv, FormatOK
<1>2. PassesInv'
  <2>1. PICK t : SecondPass(t) /\ Copied(t)
    BY DEF PassesInv
  <2>2. i \in Nat /\ i + 1 <= Len(format) /\ Len(format) \in Nat
    BY CharAt DEF TypeInv, FormatOK
  <2>3. Len(entries) = PercentsBefore(i) /\ PercentsBefore(i + 1) = PercentsBefore(i)
    BY <2>1, BeforeText DEF SecondPass, Reached, TypeInv
  <2>4. \E u : SecondPass(u)'
    <3> SUFFICES ASSUME NEW CONSTANT c \in Nat, c = i,
                        NEW CONSTANT d \in Nat, d = i + 1
                 PROVE  \E u : SecondPass(u)'
      BY <2>2
    <3>1. NextPlace(c)' = d /\ Counted(c)' = 1
      BY DEF NextPlace, Counted, Char
    <3>2. /\ i' = d /\ c < d /\ d <= Len(format) /\ Char(c) # "%"
          /\ rbx' \in Nat /\ rbx <= rbx' /\ rbx' = rbx + Counted(c)'
          /\ entries' \in Seq(Entry) /\ Len(entries) <= Len(entries')
          /\ \A n \in 1..Len(entries) : entries'[n] = entries[n]
      BY <2>2, <3>1 DEF TypeInv
    <3>3. Len(entries') = PercentsBefore(d)
      BY <2>3
    <3> QED
      BY <2>1, <3>1, <3>2, <3>3, SecondPassGoesOn
  <2>5. \A u : Copied(u)'
    BY <2>1 DEF Copied
  <2>6. Percents' = Percents
    BY DEF Percents
  <2> QED
    BY <2>4, <2>5, <2>6 DEF PassesInv
<1>3. ArgsInv'
  BY DEF ArgsInv, ArgsInOrder
<1>4. MemoryInv'
  BY DEF MemoryInv, Strings, Allocated, InUse, Freed, FreesOwnOrStrings,
         Array, Buffer, Expansion
<1> QED
  BY <1>1, <1>2, <1>3, <1>4

LEMMA PCreateBuffer ==
  ASSUME PInv, CreateBuffer
  PROVE  PInv'
<1> USE DEF PInv
<1>1. CASE pc = "expand_formatters" /\ Stop("wild")
  BY <1>1, PStop
<1>2. CASE /\ pc = "expand_formatters" /\ Char(i) = NUL
           /\ allocated' = allocated \cup {Buffer}
           /\ pc' = "final_copy" /\ i' = 0
           /\ UNCHANGED <<calls, gp_offset, format, entries, rbx, k, written,
                          user_freed, unfreed, result>>
  <2> USE <1>2
  <2>1. TypeInv'
    BY AreasTyped DEF TypeInv, FormatOK
  <2>2. PassesInv'
    <3>1. PICK t : SecondPass(t) /\ Copied(t)
      BY DEF PassesInv
    <3>2. i = Len(format)
      BY <3>1, CharAt DEF SecondPass, Reached, TypeInv, FormatOK
    <3>3. SecondPass(t)'
      BY <3>1, <3>2, SecondPassKept DEF Reached
    <3>4. PercentsBefore(0)' = 0
      BY <2>1, BeforeEnds DEF TypeInv, PercentsBefore, Before
    <3>5. Copied(t)'
      <4>1. PercentsBefore(i)' = 0
        BY <3>4 DEF PercentsBefore, Before
      <4> QED
        BY <3>1, <4>1 DEF SecondPass, Copied
    <3>6. Percents' = Percents
      BY DEF Percents
    <3> QED
      BY <3>3, <3>5, <3>6 DEF PassesInv
  <2>3. ArgsInv'
    BY DEF ArgsInv, ArgsInOrder
  <2>4. k = 0
    BY DEF PassesInv, Copied
  <2>5. MemoryInv'
    BY <2>4
    DEF MemoryInv, Strings, Allocated, InUse, Freed, FreesOwnOrStrings, Array,
        Buffer, Expansion, TypeInv, Memory
  <2> QED
    BY <2>1, <2>2, <2>3, <2>5
<1> QED
  BY <1>1, <1>2 DEF CreateBuffer

(* What the copy finds at a place that is not the end. *)
LEMMA CopyGoesOn ==
  ASSUME TypeInv, NEW t, SecondPass(t), Copied(t), pc = "final_copy",
         Char(i) # NUL
  PROVE  /\ NextPlace(i) \in DOMAIN t /\ NextPlace(i) \in Nat
         /\ t[NextPlace(i)] <= rbx
         /\ InsideBlocks => t[NextPlace(i)] = written + k + Counted(i)
         /\ Char(i) = "%" => /\ k < Len(entries) /\ EntryAt(i) = entries[k + 1]
                             /\ PercentsBefore(NextPlace(i)) = k + 1
         /\ Char(i) # "%" => PercentsBefore(NextPlace(i)) = k
<1>1. /\ i \in Nat /\ i # Reached /\ i \in DOMAIN t /\ k = PercentsBefore(i)
      /\ InsideBlocks => t[i] = written + k
  BY CharAt DEF TypeInv, Reached, Copied, FormatOK
<1>2. /\ NextPlace(i) \in DOMAIN t /\ t[NextPlace(i)] = t[i] + Counted(i)
      /\ Char(i) = "%" => /\ PercentsBefore(i) < Len(entries)
                          /\ PercentsBefore(NextPlace(i)) = PercentsBefore(i) + 1
  BY <1>1 DEF SecondPass
<1>3. NextPlace(i) \in Nat
  BY <1>2 DEF SecondPass, Reached, TypeInv, FormatOK
<1>4. Char(i) # "%" => PercentsBefore(NextPlace(i)) = k
  BY <1>1, BeforeText DEF NextPlace, TypeInv
<1>5. t[NextPlace(i)] <= rbx
  BY <1>2 DEF SecondPass, TypeInv
<1> QED
  BY <1>1, <1>2, <1>3, <1>4, <1>5 DEF EntryAt

LEMMA PCopyText ==
  ASSUME PInv, CopyText
  PROVE  PInv'
<1> USE DEF PInv, CopyText
<1>1. TypeInv'
  BY DEF TypeInv, FormatOK
<1>2. PassesInv'
  <2>1. PICK t : SecondPass(t) /\ Copied(t)
    BY DEF PassesInv
  <2>2. SecondPass(t)'
    BY <2>1, SecondPassKept DEF Reached
  <2>3. /\ i + 1 \in DOMAIN t /\ PercentsBefore(i + 1) = k
        /\ InsideBlocks => t[i + 1] = written + k + 1
    BY <2>1, CopyGoesOn DEF NextPlace, Counted
  <2>4. PercentsBefore(i)' = k /\ InsideBlocks' = InsideBlocks
    BY <2>3 DEF PercentsBefore, Before, InsideBlocks, NulInside
  <2>5. Copied(t)'
    BY <2>3, <2>4 DEF Copied, TypeInv
  <2>6. Percents' = Percents
    BY DEF Percents
  <2> QED
    BY <2>2, <2>5, <2>6 DEF PassesInv
<1>3. ArgsInv'
  BY DEF ArgsInv, ArgsInOrder
<1>4. MemoryInv'
  BY DEF MemoryInv, Strings, Allocated, InUse, Freed, FreesOwnOrStrings,
         Array, Buffer, Expansion
<1> QED
  BY <1>1, <1>2, <1>3, <1>4

(* What a free leaves: the area is gone or unfreed, the others stay. *)
LEMMA FreeLeaves ==
  ASSUME NEW area, Free(area)
  PROVE  /\ allocated' \subseteq allocated /\ allocated \ {area} \subseteq allocated'
         /\ area \in allocated' => area \in unfreed'
         /\ unfreed \subseteq unfreed'
         /\ user_freed' \subseteq user_freed \cup ({area} \ allocated)
BY DEF Free

LEMMA PCopyFormatted ==
  ASSUME PInv, CopyFormatted
  PROVE  PInv'
<1> USE DEF PInv
<1> DEFINE entry == entries[k + 1]
<1>1. CASE pc = "final_copy" /\ (Stop("segv") \/ Stop("wild"))
  BY <1>1, PStop
<1>2. CASE /\ pc = "final_copy" /\ Char(i) = "%"
           /\ \E length \in LengthsNow(entry) : written' = written + length
           /\ i' = i + entry.formatterlength
           /\ Free(entry.string)
           /\ k' = k + 1
           /\ UNCHANGED <<pc, calls, gp_offset, format, entries, rbx, result>>
  <2>1. PICK t : SecondPass(t) /\ Copied(t)
    BY <1>2 DEF PassesInv
  <2>2. /\ NextPlace(i) \in DOMAIN t /\ NextPlace(i) \in Nat
        /\ InsideBlocks => t[NextPlace(i)] = written + k + Counted(i)
        /\ k < Len(entries) /\ EntryAt(i) = entry
        /\ PercentsBefore(NextPlace(i)) = k + 1
    BY <1>2, <2>1, CopyGoesOn
  <2>3. /\ Len(entries) \in Nat /\ k \in Nat /\ written \in Nat /\ i \in Nat
        /\ entries \in Seq(Entry) /\ Len(format) \in Nat
    BY DEF TypeInv, FormatOK
  <2>4. k + 1 \in 1..Len(entries) /\ entry \in Entry
    BY <2>2, <2>3
  <2>5. /\ entry.length \in Nat /\ entry.formatterlength \in Nat
        /\ entry.string \in Memory
    BY <2>4 DEF Entry
  <2>12. PICK length \in LengthsNow(entry) : written' = written + length
    BY <1>2
  <2>13. length \in Nat /\ (InsideBlocks => length = entry.length)
    <3>1. StaleLengths \subseteq Nat
      BY PrintfAssumption
    <3>2. InsideBlocks => NulInside(entry)
      BY <2>4 DEF InsideBlocks
    <3> HIDE DEF entry
    <3>3. length = entry.length \/ (~NulInside(entry) /\ length \in Nat)
      BY <2>12, <3>1 DEF LengthsNow, StringBlock
    <3> QED
      BY <2>5, <3>2, <3>3
  <2> HIDE DEF entry
  <2>6. /\ allocated' \subseteq allocated
        /\ allocated \ {entry.string} \subseteq allocated'
        /\ entry.string \in allocated' => entry.string \in unfreed'
        /\ unfreed \subseteq unfreed'
        /\ user_freed' \subseteq user_freed \cup ({entry.string} \ allocated)
    BY <1>2, FreeLeaves
  <2>7. i' = NextPlace(i) /\ (InsideBlocks => written' + k' = t[NextPlace(i)])
    <3>1. NextPlace(i) = i + entry.formatterlength /\ Counted(i) = entry.length + 1
      BY <1>2, <2>2 DEF NextPlace, Counted, Strln
    <3>2. i' = i + entry.formatterlength /\ k' = k + 1
      BY <1>2
    <3>3. ASSUME InsideBlocks PROVE written' + k' = t[NextPlace(i)]
      <4>1. t[NextPlace(i)] = written + k + (entry.length + 1)
        BY <2>2, <3>1, <3>3
      <4>2. written' = written + entry.length
        BY <2>12, <2>13, <3>3
      <4>3. k' = k + 1
        BY <3>2
      <4>4. written' + k' = written + k + (entry.length + 1)
        <5>1. k \in Nat /\ written \in Nat /\ entry.length \in Nat
          BY <2>3, <2>5
        <5> QED
          BY <4>2, <4>3, <5>1
      <4> QED
        BY <4>1, <4>4
    <3> QED
      BY <3>1, <3>2, <3>3
  <2>8. TypeInv'
    <3>1. written' \in Nat
      BY <2>3, <2>12, <2>13
    <3> QED
      BY SMTT(30), <1>2, <2>2, <2>3, <2>6, <2>7, <3>1 DEF TypeInv, FormatOK
  <2>9. PassesInv'
    <3>1. SecondPass(t)'
      BY <1>2, <2>1, SecondPassKept DEF Reached
    <3>2. PercentsBefore(i)' = k' /\ InsideBlocks' = InsideBlocks
      BY <1>2, <2>2, <2>7
      DEF PercentsBefore, Before, InsideBlocks, NulInside
    <3>3. Copied(t)'
      BY <1>2, <2>2, <2>7, <3>2 DEF Copied
    <3>4. Percents' = Percents
      BY <1>2 DEF Percents
    <3> QED
      BY <1>2, <3>1, <3>3, <3>4 DEF PassesInv
  <2>10. ArgsInv'
    BY <1>2 DEF ArgsInv, ArgsInOrder
  <2>11. MemoryInv'
    <3>1. Array' = Array /\ Buffer' = Buffer
          /\ \A n, j : Expansion(n, j)' = Expansion(n, j)
      BY <1>2 DEF Array, Buffer, Expansion
    <3>2. Strings'
      BY <1>2, <3>1 DEF MemoryInv, Strings
    <3>3. Allocated'
      BY <1>2, <2>6, <3>1 DEF MemoryInv, Allocated
    <3>4. \/ entry.string = <<"user", calls, k>>
          \/ \E j \in 0..Len(format) : entry.string = Expansion(k, j)
      BY <2>3, <2>4 DEF MemoryInv, Strings, entry
    <3>5. entry.string # Array /\ entry.string # Buffer
      BY <3>4 DEF Array, Buffer, Expansion
    <3>6. entry.string \notin allocated => entry.string[1] = "user"
      BY <1>2, <2>3, <2>4 DEF MemoryInv, InUse, entry
    <3>7. ASSUME NEW n \in (k + 2)..Len(entries), entries[n].string[1] # "user"
          PROVE  entries[n].string # entry.string
      <4>1. PICK j \in 0..Len(format) : entries[n].string = Expansion(n - 1, j)
        BY <2>3, <3>7 DEF MemoryInv, Strings
      <4>2. CASE entry.string = <<"user", calls, k>>
        BY <4>1, <4>2 DEF Expansion
      <4>3. CASE \E a \in 0..Len(format) : entry.string = Expansion(k, a)
        <5>1. PICK a \in 0..Len(format) : entry.string = Expansion(k, a)
          BY <4>3
        <5>2. n - 1 \in Nat /\ k < n - 1 /\ j \in Nat
          BY <2>3
        <5> QED
          BY <2>3, <4>1, <5>1, <5>2, ExpansionsDiffer
      <4> QED
        BY <3>4, <4>2, <4>3
    <3>8. InUse'
      <4>1. Array \in allocated' /\ Buffer \in allocated'
        BY <1>2, <2>6, <3>5 DEF MemoryInv, InUse
      <4>2. ASSUME NEW n \in (k' + 1)..Len(entries), entries[n].string[1] # "user"
            PROVE  entries[n].string \in allocated'
        <5>1. n \in (k + 2)..Len(entries) /\ n \in (k + 1)..Len(entries)
          BY <1>2, <2>3
        <5>2. entries[n].string \in allocated
          BY <1>2, <4>2, <5>1 DEF MemoryInv, InUse
        <5> QED
          BY <2>6, <3>7, <4>2, <5>1, <5>2
      <4> QED
        BY <1>2, <3>1, <4>1, <4>2 DEF InUse
    <3>9. Freed'
      <4>1. ASSUME NEW n \in 1..k', entries[n].string \in allocated'
            PROVE  entries[n].string \in unfreed'
        <5>1. CASE n = k + 1
          BY <2>6, <4>1, <5>1 DEF entry
        <5>2. CASE n # k + 1
          <6>1. n \in 1..k
            BY <1>2, <2>3, <5>2
          <6> QED
            BY <1>2, <2>6, <4>1, <6>1 DEF MemoryInv, Freed
        <5> QED
          BY <5>1, <5>2
      <4> QED
        BY <1>2, <4>1 DEF Freed
    <3>10. FreesOwnOrStrings'
      BY <2>6, <3>6 DEF MemoryInv, FreesOwnOrStrings
    <3> QED
      BY <3>2, <3>3, <3>8, <3>9, <3>10 DEF MemoryInv
  <2> QED
    BY <2>8, <2>9, <2>10, <2>11
<1> QED
  BY <1>1, <1>2 DEF CopyFormatted

(* What goes past the buffer comes from an expansion that left its block.  *)
LEMMA PCopyPastBuffer ==
  ASSUME PInv, CopyPastBuffer
  PROVE  PInv'
<1> USE DEF PInv
<1>1. /\ pc = "final_copy" /\ Stop("clobbered")
      /\ \/ Char(i) \notin {"%", NUL} /\ written >= BufferBytes
         \/ /\ Char(i) = "%"
            /\ \E length \in LengthsNow(entries[k + 1]) :
                 written + Strln(length) > BufferBytes
  BY DEF CopyPastBuffer
<1>2. PICK t : SecondPass(t) /\ Copied(t)
  BY <1>1 DEF PassesInv
<1>3. ~InsideBlocks
  <2> SUFFICES ASSUME InsideBlocks PROVE FALSE
    OBVIOUS
  <2>1. /\ k \in Nat /\ written \in Nat /\ rbx \in Nat /\ rbx <= BufferBytes
        /\ BufferBytes \in Nat
    BY DEF TypeInv, BufferBytes
  <2>2. Char(i) # NUL
    BY <1>1
  <2>3. written + k + Counted(i) <= rbx
    BY <1>1, <1>2, <2>2, CopyGoesOn
  <2>4. CASE Char(i) \notin {"%", NUL} /\ written >= BufferBytes
    BY <2>1, <2>3, <2>4 DEF Counted
  <2>5. CASE Char(i) = "%"
    <3>1. k < Len(entries) /\ EntryAt(i) = entries[k + 1]
      BY <1>1, <1>2, <2>2, <2>5, CopyGoesOn
    <3>2. k + 1 \in 1..Len(entries) /\ entries[k + 1] \in Entry
      BY <2>1, <3>1 DEF TypeInv
    <3>3. entries[k + 1].length \in Nat
      BY <3>2 DEF Entry
    <3>4. NulInside(entries[k + 1])
      BY <3>2 DEF InsideBlocks
    <3>5. written + Strln(entries[k + 1].length) > BufferBytes
      BY <1>1, <2>5, <3>4 DEF LengthsNow
    <3>6. Counted(i) = entries[k + 1].length + 1
      BY <2>5, <3>1 DEF Counted, Strln
    <3> QED
      BY <2>1, <2>3, <3>3, <3>5, <3>6 DEF Strln
  <2> QED
    BY <1>1, <2>4, <2>5
<1> QED
  BY <1>1, <1>3, PStop

LEMMA PWrite ==
  ASSUME PInv, Write
  PROVE  PInv'
<1> USE DEF PInv, Write
<1>1. TypeInv'
  BY DEF TypeInv, FormatOK
<1>2. PassesInv'
  <2>1. PICK t : SecondPass(t) /\ Copied(t)
    BY DEF PassesInv
  <2>2. SecondPass(t)'
    BY <2>1, SecondPassKept DEF Reached
  <2>3. i = Len(format)
    BY <2>1, CharAt DEF SecondPass, Reached, Copied, TypeInv, FormatOK
  <2>4. Copied(t)'
    BY <2>1, <2>3 DEF SecondPass, Reached, Copied, InsideBlocks, NulInside
  <2>5. Percents' = Percents
    BY DEF Percents
  <2> QED
    BY <2>2, <2>4, <2>5 DEF PassesInv
<1>3. ArgsInv'
  BY DEF ArgsInv, ArgsInOrder
<1>4. MemoryInv'
  BY DEF MemoryInv, Strings, Allocated, InUse, Freed, FreesOwnOrStrings,
         Array, Buffer, Expansion
<1> QED
  BY <1>1, <1>2, <1>3, <1>4

LEMMA PFreeBros ==
  ASSUME PInv, FreeBros
  PROVE  PInv'
<1> USE DEF PInv
<1> DEFINE area == IF pc = "free_buffer" THEN Buffer ELSE Array
<1>1. /\ \/ pc = "free_buffer" /\ pc' = "free_array"
         \/ pc = "free_array" /\ pc' = "idle"
      /\ Free(area)
      /\ UNCHANGED <<calls, gp_offset, format, i, entries, rbx, k, written, result>>
  BY DEF FreeBros
<1>2. /\ allocated' \subseteq allocated /\ allocated \ {area} \subseteq allocated'
      /\ area \in allocated' => area \in unfreed'
      /\ unfreed \subseteq unfreed'
      /\ user_freed' \subseteq user_freed \cup ({area} \ allocated)
  BY <1>1, FreeLeaves
<1>3. area \in allocated /\ Array # Buffer
  BY <1>1 DEF MemoryInv, InUse, Array, Buffer
<1>4. PICK t : SecondPass(t) /\ Copied(t)
  BY <1>1 DEF PassesInv
<1>5. TypeInv'
  BY <1>1, <1>2 DEF TypeInv, FormatOK
<1>6. PassesInv'
  <2>1. SecondPass(t)'
    BY <1>1, <1>4, SecondPassKept DEF Reached
  <2>2. Copied(t)'
    BY <1>1, <1>4 DEF Copied, InsideBlocks, NulInside
  <2>3. Percents' = Percents
    BY <1>1 DEF Percents
  <2> QED
    BY <1>1, <2>1, <2>2, <2>3 DEF PassesInv
<1>7. ArgsInv'
  BY <1>1 DEF ArgsInv, ArgsInOrder
<1>8. MemoryInv'
  <2>1. Array' = Array /\ Buffer' = Buffer
        /\ \A n, j : Expansion(n, j)' = Expansion(n, j)
    BY <1>1 DEF Array, Buffer, Expansion
  <2>2. Strings'
    BY <1>1, <2>1 DEF MemoryInv, Strings
  <2>3. Allocated'
    BY <1>1, <1>2, <2>1 DEF MemoryInv, Allocated
  <2>4. InUse'
    BY <1>1, <1>2, <1>3, <2>1 DEF MemoryInv, InUse
  <2>5. k = Len(entries)
    BY <1>1, <1>4 DEF Copied
  <2>6. Freed'
    BY <1>1, <1>2, <1>3, <2>1, <2>5 DEF MemoryInv, Freed
  <2>7. FreesOwnOrStrings'
    BY <1>2, <1>3 DEF MemoryInv, FreesOwnOrStrings
  <2> QED
    BY <2>2, <2>3, <2>4, <2>6, <2>7 DEF MemoryInv
<1> QED
  BY <1>5, <1>6, <1>7, <1>8

LEMMA PStep == PInv /\ [Next]_vars => PInv'
<1> SUFFICES ASSUME PInv, [Next]_vars PROVE PInv'
  OBVIOUS
<1>1. ASSUME NEW f \in Formats, Call(f) PROVE PInv'
  BY <1>1, PCall
<1>2. CASE CreateStrArray
  BY <1>2, PCreateStrArray
<1>3. CASE ExpandFormatter
  <2>1. CASE Stop("panic") \/ Stop("segv")
    BY <1>3, <2>1, PStop DEF ExpandFormatter
  <2> QED
    BY <1>3, <2>1, PExpand
<1>4. CASE CountText
  BY <1>4, PCountText
<1>5. CASE CreateBuffer
  BY <1>5, PCreateBuffer
<1>6. CASE CopyText
  BY <1>6, PCopyText
<1>7. CASE CopyFormatted
  BY <1>7, PCopyFormatted
<1>8. CASE Write
  BY <1>8, PWrite
<1>11. CASE CopyPastBuffer
  BY <1>11, PCopyPastBuffer
<1>9. CASE FreeBros
  BY <1>9, PFreeBros
<1>10. CASE UNCHANGED vars
  <2> USE <1>10 DEF PInv, vars
  <2>1. TypeInv' /\ ArgsInv'
    BY DEF TypeInv, FormatOK, ArgsInv, ArgsInOrder
  <2>2. PassesInv'
    <3>1. Percents' = Percents
      BY DEF Percents
    <3>2. \A t : SecondPass(t) => SecondPass(t)'
      BY SecondPassKept DEF Reached
    <3>3. \A t : Copied(t) => Copied(t)'
      BY DEF Copied, PercentsBefore, Before, InsideBlocks, NulInside
    <3> QED
      BY <3>1, <3>2, <3>3 DEF PassesInv, InsideBlocks, NulInside
  <2>3. MemoryInv'
    BY DEF MemoryInv, Strings, Allocated, InUse, Freed, FreesOwnOrStrings,
           Array, Buffer, Expansion
  <2> QED
    BY <2>1, <2>2, <2>3
<1> QED
  BY <1>1, <1>2, <1>3, <1>4, <1>5, <1>6, <1>7, <1>8, <1>9, <1>10, <1>11
  DEF Next

(***************************************************************************)
(* What holds in every call.                                               *)
(***************************************************************************)

LEMMA PrintfInvariant == Spec => []PInv
BY PInit, PStep, PTL DEF Spec

(* While every expansion ends inside its block, printf's total, by which   *)
(* the buffer is allocated, is never smaller than what the copy writes, is *)
(* larger by one for each formatter at its end, and nothing is written     *)
(* behind the buffer, whatever the lengths.                                *)
THEOREM PrintfTotal == Spec => []TotalOverByNuls
<1>1. PInv => TotalOverByNuls
  BY PassesAreRight DEF PInv
<1> QED
  BY <1>1, PrintfInvariant, PTL

(* The array that find_percent_signs sizes has an entry for each formatter *)
(* that printf_expand_d finds, and final_copy uses each of them once.      *)
THEOREM PrintfPasses == Spec => []PassesAgree
<1>1. PInv => PassesAgree
  BY PassesAreRight DEF PInv
<1> QED
  BY <1>1, PrintfInvariant, PTL

(* The formatters of a call get arguments that follow each other, those of *)
(* the first call from the first on (va_start, va_arg).                    *)
THEOREM PrintfArguments == Spec => []ArgsInOrder
<1>1. PInv => ArgsInOrder
  BY DEF PInv, ArgsInv
<1> QED
  BY <1>1, PrintfInvariant, PTL

(* A printf that returns has freed all it allocated, except the areas whose*)
(* free failed and the strings that another x of a formatter replaced.     *)
THEOREM PrintfLeaks == Spec => []NothingLeaked
<1>1. PInv => NothingLeaked
  BY NothingIsLeaked DEF PInv
<1> QED
  BY <1>1, PrintfInvariant, PTL

(* final_copy and free_bros free no area twice, and of memory that printf  *)
(* did not allocate only the strings of %s.                                *)
THEOREM PrintfFrees == Spec => []FreesOwnOrStrings
<1>1. PInv => FreesOwnOrStrings
  BY DEF PInv, MemoryInv
<1> QED
  BY <1>1, PrintfInvariant, PTL
=============================================================================
