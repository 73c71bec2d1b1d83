--------------------------- MODULE StringsProofs ---------------------------
(***************************************************************************)
(* What splitstr returns and execve reads of it, proved for every string   *)
(* and any number of calls, and the functions of mem.c and str.c.          *)
(***************************************************************************)
EXTENDS SystemCommand, FiniteSetTheorems, SequenceTheorems,
        WellFoundedInduction, TLAPS

(***************************************************************************)
(* Numbers.                                                                *)
(***************************************************************************)

(* A set of numbers has a least one. *)
Smaller == {p \in Nat \X Nat : p[1] < p[2]}
LEMMA LeastNumber ==
  ASSUME NEW T \in SUBSET Nat, T # {}
  PROVE  \E m \in T : \A n \in T : m <= n
<1>1. IsWellFoundedOn(Smaller, Nat)
  BY NatLessThanWellFounded DEF OpToRel, Smaller
<1>2. PICK m \in T : \A n \in T : <<n, m>> \notin Smaller
  BY <1>1, WFMin
<1>3. \A n \in T : ~(n < m)
  BY <1>2 DEF Smaller
<1> QED
  BY <1>3

(* Induction, for the set of the numbers that have a property. *)
LEMMA InductionInSet ==
  ASSUME NEW T \in SUBSET Nat, 0 \in T, \A n \in T : n + 1 \in T
  PROVE  T = Nat
<1> SUFFICES ASSUME Nat \ T # {} PROVE FALSE
  OBVIOUS
<1>1. PICK m \in Nat \ T : \A n \in Nat \ T : m <= n
  BY LeastNumber
<1>2. m - 1 \in Nat /\ m - 1 \notin Nat \ T
  BY <1>1
<1> QED
  BY <1>2

(***************************************************************************)
(* The tokens of a string.                                                 *)
(***************************************************************************)

LEMMA BoundsFinite ==
  ASSUME NEW s \in Seq(CharSet), NEW T \in SUBSET Bounds(s)
  PROVE  IsFiniteSet(T) /\ Cardinality(T) \in Nat
<1>1. IsFiniteSet(1..Len(s))
  BY FS_Interval
<1>2. IsFiniteSet((1..Len(s)) \X (1..Len(s)))
  BY <1>1, FS_Product
<1>3. T \subseteq (1..Len(s)) \X (1..Len(s))
  BY DEF Bounds
<1> QED
  BY <1>2, <1>3, FS_Subset, FS_CardinalityType

(* what the definition of a token says of it *)
LEMMA BoundsAre ==
  ASSUME NEW s \in Seq(CharSet), NEW x \in Bounds(s)
  PROVE  /\ x[1] \in 1..Len(s) /\ x[2] \in 1..Len(s) /\ x = <<x[1], x[2]>>
         /\ x[1] <= x[2] /\ \A k \in x[1]..x[2] : s[k] # Sep
         /\ x[1] = 1 \/ s[x[1] - 1] = Sep
         /\ x[2] = Len(s) \/ s[x[2] + 1] = Sep
BY DEF Bounds

LEMMA NoTokens == Bounds(<<>>) = {}
<1>1. Len(<<>>) = 0 /\ 1..0 = {}
  OBVIOUS
<1> QED
  BY <1>1 DEF Bounds

(* Two tokens do not overlap. *)
LEMMA BoundsApart ==
  ASSUME NEW s \in Seq(CharSet), NEW x \in Bounds(s), NEW y \in Bounds(s)
  PROVE  /\ x[1] < y[1] <=> x[2] < y[2]
         /\ x[2] = y[2] => x = y
<1> DEFINE a == x[1]
           b == x[2]
           c == y[1]
           d == y[2]
<1>1. /\ a \in 1..Len(s) /\ b \in 1..Len(s) /\ a <= b
      /\ \A k \in a..b : s[k] # Sep
      /\ a = 1 \/ s[a - 1] = Sep
      /\ b = Len(s) \/ s[b + 1] = Sep
      /\ x = <<a, b>>
  BY BoundsAre
<1>2. /\ c \in 1..Len(s) /\ d \in 1..Len(s) /\ c <= d
      /\ \A k \in c..d : s[k] # Sep
      /\ c = 1 \/ s[c - 1] = Sep
      /\ d = Len(s) \/ s[d + 1] = Sep
      /\ y = <<c, d>>
  BY BoundsAre
<1> HIDE DEF a, b, c, d
<1>3. a < c => b < c
  <2> SUFFICES ASSUME a < c, c <= b PROVE FALSE
    BY <1>1, <1>2
  <2>1. c - 1 \in a..b /\ c # 1
    BY <1>1, <1>2
  <2> QED
    BY <1>1, <1>2, <2>1
<1>4. c < a => d < a
  <2> SUFFICES ASSUME c < a, a <= d PROVE FALSE
    BY <1>1, <1>2
  <2>1. a - 1 \in c..d /\ a # 1
    BY <1>1, <1>2
  <2> QED
    BY <1>1, <1>2, <2>1
<1>5. a = c => b = d
  <2> SUFFICES ASSUME a = c, b # d PROVE FALSE
    OBVIOUS
  <2>1. CASE b < d
    <3>1. b + 1 \in c..d /\ b # Len(s)
      BY <1>1, <1>2, <2>1
    <3> QED
      BY <1>1, <1>2, <3>1
  <2>2. CASE d < b
    <3>1. d + 1 \in a..b /\ d # Len(s)
      BY <1>1, <1>2, <2>2
    <3> QED
      BY <1>1, <1>2, <3>1
  <2> QED
    BY <1>1, <1>2, <2>1, <2>2
<1>6. (a < c <=> b < d) /\ (b = d => a = c)
  BY <1>1, <1>2, <1>3, <1>4, <1>5
<1> QED
  BY <1>1, <1>2, <1>6 DEF a, b, c, d

(* Where a run of characters ends, a token does. *)
LEMMA TokenEnds ==
  ASSUME NEW s \in Seq(CharSet), NEW b \in 1..Len(s), s[b] # Sep,
         b = Len(s) \/ s[b + 1] = Sep
  PROVE  \E x \in Bounds(s) : x[2] = b
<1> DEFINE T == {a \in Nat : a \in 1..b /\ \A k \in a..b : s[k] # Sep}
<1>1. b \in T
  OBVIOUS
<1>2. PICK a \in T : \A n \in T : a <= n
  BY <1>1, LeastNumber
<1>3. a \in 1..b /\ \A k \in a..b : s[k] # Sep
  BY <1>2
<1>4. a = 1 \/ s[a - 1] = Sep
  <2> SUFFICES ASSUME a # 1, s[a - 1] # Sep PROVE FALSE
    OBVIOUS
  <2>1. a - 1 \in Nat /\ a - 1 \in 1..b
    BY <1>3
  <2>2. \A k \in (a - 1)..b : k = a - 1 \/ k \in a..b
    BY <1>3
  <2>3. a - 1 \in T
    BY <1>3, <2>1, <2>2
  <2>4. a <= a - 1
    BY <1>2, <2>3
  <2> QED
    BY <1>3, <2>4
<1>5. <<a, b>> \in Bounds(s)
  BY <1>3, <1>4 DEF Bounds
<1> QED
  BY <1>5

(* The tokens that end before position p: their separator was seen when p  *)
(* characters were.                                                        *)
EndsBefore(s, p) == {x \in Bounds(s) : x[2] < p}

LEMMA EndsBeforeNone ==
  ASSUME NEW s \in Seq(CharSet)
  PROVE  EndsBefore(s, 0) = {} /\ EndsBefore(s, Len(s) + 1) = Bounds(s)
BY BoundsAre DEF EndsBefore

LEMMA EndsBeforeStays ==
  ASSUME NEW s \in Seq(CharSet), NEW p \in 0..(Len(s) - 1),
         s[p + 1] # Sep \/ p = 0 \/ s[p] = Sep
  PROVE  EndsBefore(s, p + 1) = EndsBefore(s, p)
<1>1. ASSUME NEW x \in Bounds(s), x[2] = p PROVE FALSE
  BY <1>1, BoundsAre
<1> QED
  BY <1>1, BoundsAre DEF EndsBefore

LEMMA EndsBeforeGrows ==
  ASSUME NEW s \in Seq(CharSet), NEW p \in 1..Len(s), s[p] # Sep,
         p = Len(s) \/ s[p + 1] = Sep
  PROVE  \E x \in Bounds(s) :
           /\ x[2] = p /\ x \notin EndsBefore(s, p)
           /\ EndsBefore(s, p + 1) = EndsBefore(s, p) \cup {x}
           /\ Cardinality(EndsBefore(s, p + 1)) = Cardinality(EndsBefore(s, p)) + 1
           /\ Before(s, x) = Cardinality(EndsBefore(s, p))
<1>1. PICK x \in Bounds(s) : x[2] = p
  BY TokenEnds
<1>2. x \notin EndsBefore(s, p)
  BY <1>1 DEF EndsBefore
<1>3. EndsBefore(s, p + 1) = EndsBefore(s, p) \cup {x}
  BY <1>1, BoundsAre, BoundsApart DEF EndsBefore
<1>4. IsFiniteSet(EndsBefore(s, p))
  BY BoundsFinite DEF EndsBefore
<1>5. {y \in Bounds(s) : y[1] < x[1]} = EndsBefore(s, p)
  BY <1>1, BoundsApart DEF EndsBefore
<1> QED
  BY ZenonT(60), <1>1, <1>2, <1>3, <1>4, <1>5, FS_AddElement DEF Before

LEMMA BeforeLess ==
  ASSUME NEW s \in Seq(CharSet), NEW p \in Nat, NEW x \in EndsBefore(s, p)
  PROVE  Before(s, x) \in Nat /\ Before(s, x) < Cardinality(EndsBefore(s, p))
<1> DEFINE T == {y \in Bounds(s) : y[1] < x[1]}
<1>1. x \in Bounds(s) /\ x[2] < p /\ x[2] \in Nat
  BY BoundsAre DEF EndsBefore
<1>2. T \subseteq EndsBefore(s, p)
  BY <1>1, BoundsAre, BoundsApart DEF EndsBefore
<1>3. x \notin T
  BY <1>1, BoundsAre
<1>4. /\ IsFiniteSet(EndsBefore(s, p)) /\ Cardinality(EndsBefore(s, p)) \in Nat
      /\ Cardinality(T) \in Nat
  BY BoundsFinite DEF EndsBefore
<1>5. Cardinality(T) <= Cardinality(EndsBefore(s, p)) /\ T # EndsBefore(s, p)
  BY <1>2, <1>3, <1>4, FS_Subset
<1>6. Cardinality(T) # Cardinality(EndsBefore(s, p))
  BY <1>2, <1>4, <1>5, FS_Subset
<1> QED
  BY <1>4, <1>5, <1>6 DEF Before

(***************************************************************************)
(* The inductive invariant.                                                *)
(***************************************************************************)

Type ==
  /\ str \in Seq(CharSet) /\ fresh \in BOOLEAN
  /\ pc \in {"count", "split", "done", "segv"} /\ i \in 0..Len(str)

AtGap(p) == p = 0 \/ str[p] = Sep

(* the characters of a token that the second loop has begun *)
InToken ==
  /\ prev \in 0..(i - 1)
  /\ prev = 0 \/ str[prev] = Sep
  /\ \A k \in (prev + 1)..i : str[k] # Sep

(* The slots of r before slot m are filled, the others as malloc left them. *)
Mark == IF fresh THEN Null ELSE Unset
FilledIn(r, m, n, mark) ==
  /\ DOMAIN r = Slots(n)
  /\ \A t \in 0..(m - 1) : r[t] \notin {Unset, Null}
  /\ \A t \in m..n : r[t] = mark
StoredIn(r, s, T) ==
  \A x \in T : r[Before(s, x)] = SubSeq(s, x[1], x[2])

CountInv ==
  pc = "count" =>
    /\ waspressed = AtGap(i) /\ count = Cardinality(EndsBefore(str, i))
    /\ curtoken = 0 /\ retval = NoArray

(* The tokens that end before p are in the array; without an array there   *)
(* are none.                                                               *)
Kept(r, p) ==
  /\ r = NoArray => EndsBefore(str, p) = {}
  /\ r # NoArray =>
       /\ StoredIn(r, str, EndsBefore(str, p))
       /\ FilledIn(r, Cardinality(EndsBefore(str, p)), num_of_tokens, Mark)

(* what is true of the array even after a fault *)
Sized(r) ==
  r # NoArray => /\ DOMAIN r = Slots(num_of_tokens)
                 /\ str # <<>> => r[num_of_tokens] = Mark

SplitInv ==
  /\ pc # "count" => num_of_tokens = Cardinality(Bounds(str)) /\ Sized(retval)
  /\ pc = "split" =>
       /\ waspressed = AtGap(i)
       /\ ~waspressed => InToken
       /\ curtoken = Cardinality(EndsBefore(str, i))
       /\ Kept(retval, i)
  /\ pc = "done" /\ str # <<>> => Kept(retval, Len(str) + 1)

SInv == Type /\ CountInv /\ SplitInv

LEMMA CharAt ==
  ASSUME NEW s \in Seq(CharSet), NEW p \in 0..(Len(s) - 1)
  PROVE  Char(s, p) = s[p + 1] /\ s[p + 1] \in CharSet
BY DEF Char

LEMMA TokenIsNoMark ==
  ASSUME NEW s \in Seq(CharSet), NEW a \in 1..Len(s), NEW b \in a..Len(s)
  PROVE  SubSeq(s, a, b) \notin {Unset, Null}
<1>1. Len(SubSeq(s, a, b)) >= 1 /\ SubSeq(s, a, b)[1] = s[a]
  OBVIOUS
<1>2. s[a] \in CharSet
  OBVIOUS
<1>3. Unset[1] = "stale" /\ Null[1] = "null"
  BY DEF Unset, Null
<1>4. s[a] # "stale" /\ s[a] # "null"
  BY <1>2, StringsAssumption DEF CharSet
<1> QED
  BY <1>1, <1>3, <1>4

(* A token is stored in the next free slot, and there is one, or nothing   *)
(* is and the run ends.                                                    *)
LEMMA TokenStored ==
  ASSUME Type, SplitInv, pc = "split", ~waspressed, NEW next, Store(next),
         i = Len(str) \/ str[i + 1] = Sep
  PROVE  /\ Cardinality(EndsBefore(str, i + 1)) = curtoken + 1
         /\ Sized(retval')
         /\ \/ pc' = next /\ Kept(retval', i + 1)
            \/ pc' = "segv"
<1>1. /\ str \in Seq(CharSet) /\ Len(str) \in Nat /\ i \in 0..Len(str)
      /\ InToken /\ curtoken = Cardinality(EndsBefore(str, i))
      /\ Kept(retval, i)
      /\ num_of_tokens = Cardinality(Bounds(str))
  BY DEF Type, SplitInv
<1>2. i \in 1..Len(str) /\ str[i] # Sep
  BY <1>1 DEF InToken
<1>3. PICK x \in Bounds(str) :
        /\ x[2] = i /\ x \notin EndsBefore(str, i)
        /\ EndsBefore(str, i + 1) = EndsBefore(str, i) \cup {x}
        /\ Cardinality(EndsBefore(str, i + 1)) = curtoken + 1
        /\ Before(str, x) = curtoken
  BY <1>1, <1>2, EndsBeforeGrows
<1>4. x = <<prev + 1, i>>
  <2>1. <<prev + 1, i>> \in Bounds(str)
    BY <1>1, <1>2 DEF InToken, Bounds
  <2> QED
    BY <1>1, <1>3, <2>1, BoundsApart
<1>5. curtoken \in Nat /\ num_of_tokens \in Nat /\ curtoken < num_of_tokens
  <2>1. EndsBefore(str, i) \subseteq Bounds(str) /\ EndsBefore(str, i) # Bounds(str)
    BY <1>3 DEF EndsBefore
  <2>2. IsFiniteSet(Bounds(str)) /\ num_of_tokens \in Nat /\ curtoken \in Nat
    BY <1>1, <2>1, BoundsFinite
  <2>3. curtoken <= num_of_tokens /\ curtoken # num_of_tokens
    BY <1>1, <2>1, <2>2, FS_Subset
  <2> QED
    BY <2>2, <2>3
<1>6. CASE retval = NoArray
  BY <1>3, <1>6 DEF Store, Sized
<1>7. CASE retval # NoArray
  <2>1. /\ StoredIn(retval, str, EndsBefore(str, i))
        /\ FilledIn(retval, curtoken, num_of_tokens, Mark)
    BY <1>1, <1>7 DEF Kept
  <2>2. DOMAIN retval \cup {curtoken} = DOMAIN retval
    BY <1>5, <2>1 DEF FilledIn, Slots
  <2>3. ASSUME NEW v, Put(v)
        PROVE  /\ DOMAIN retval' = DOMAIN retval /\ retval'[curtoken] = v
               /\ \A t \in DOMAIN retval : t # curtoken => retval'[t] = retval[t]
               /\ Sized(retval')
    <3>1. /\ DOMAIN retval' = DOMAIN retval /\ retval'[curtoken] = v
          /\ \A t \in DOMAIN retval : t # curtoken => retval'[t] = retval[t]
      BY <2>2, <2>3 DEF Put
    <3>2. num_of_tokens \in curtoken..num_of_tokens /\ num_of_tokens # curtoken
      BY <1>5
    <3>3. num_of_tokens \in DOMAIN retval /\ retval[num_of_tokens] = Mark
      BY <1>5, <2>1, <3>2 DEF FilledIn, Slots
    <3>4. retval'[num_of_tokens] = Mark
      BY <3>1, <3>2, <3>3
    <3> QED
      BY <2>1, <3>1, <3>4 DEF Sized, FilledIn
  <2>4. CASE Put(Failed) /\ pc' = "segv"
    BY <1>3, <2>3, <2>4
  <2>5. CASE Put(Token) /\ pc' = next
    <3>1. /\ DOMAIN retval' = DOMAIN retval /\ retval'[curtoken] = Token
          /\ \A t \in DOMAIN retval : t # curtoken => retval'[t] = retval[t]
          /\ Sized(retval')
      BY <2>3, <2>5
    <3>2. Token = SubSeq(str, x[1], x[2]) /\ Token \notin {Unset, Null}
      <4>1. Token = SubSeq(str, x[1], x[2])
        BY <1>4 DEF Token
      <4>2. x[1] \in 1..Len(str) /\ x[2] \in x[1]..Len(str)
        BY <1>1, BoundsAre
      <4> QED
        BY <1>1, <4>1, <4>2, TokenIsNoMark
    <3>3. StoredIn(retval', str, EndsBefore(str, i + 1))
      <4> SUFFICES ASSUME NEW y \in EndsBefore(str, i + 1)
                   PROVE  retval'[Before(str, y)] = SubSeq(str, y[1], y[2])
        BY DEF StoredIn
      <4>1. CASE y = x
        BY <1>3, <3>1, <3>2, <4>1
      <4>2. CASE y # x
        <5>1. y \in EndsBefore(str, i)
          BY <1>3, <4>2
        <5>2. Before(str, y) \in Nat /\ Before(str, y) < curtoken
          BY <1>1, <5>1, BeforeLess
        <5>3. Before(str, y) \in DOMAIN retval
          BY <1>5, <2>1, <5>2 DEF FilledIn, Slots
        <5> QED
          BY <2>1, <3>1, <5>1, <5>2, <5>3 DEF StoredIn
      <4> QED
        BY <4>1, <4>2
    <3>4. FilledIn(retval', curtoken + 1, num_of_tokens, Mark)
      <4>1. \A t \in 0..curtoken : retval'[t] \notin {Unset, Null}
        BY SMTT(30), <1>5, <2>1, <3>1, <3>2 DEF FilledIn, Slots
      <4>2. \A t \in (curtoken + 1)..num_of_tokens : retval'[t] = Mark
        BY <1>5, <2>1, <3>1 DEF FilledIn, Slots
      <4> QED
        BY <1>5, <2>1, <3>1, <4>1, <4>2 DEF FilledIn
    <3>5. retval' # NoArray
      <4>1. curtoken \in DOMAIN retval' /\ curtoken \notin DOMAIN NoArray
        BY <2>2, <3>1 DEF NoArray
      <4> QED
        BY <4>1
    <3>6. Kept(retval', i + 1)
      BY <1>3, <3>3, <3>4, <3>5 DEF Kept
    <3> QED
      BY <1>3, <2>5, <3>1, <3>6
  <2> QED
    BY <1>7, <2>4, <2>5 DEF Store
<1> QED
  BY <1>6, <1>7

(***************************************************************************)
(* The steps.                                                              *)
(***************************************************************************)

LEMMA BoundedSeqs ==
  ASSUME NEW s \in Strs
  PROVE  s \in Seq(CharSet)
BY DEF Strs, BoundedSeq, SeqOf

LEMMA SInit == SysInit => SInv
<1> SUFFICES ASSUME SysInit PROVE SInv
  OBVIOUS
<1> USE DEF SysInit, Init
<1>1. Type
  BY BoundedSeqs DEF Type
<1>2. CountInv /\ SplitInv
  BY <1>1, EndsBeforeNone, FS_EmptySet DEF CountInv, SplitInv, AtGap, Type
<1> QED
  BY <1>1, <1>2 DEF SInv

LEMMA SCountChar ==
  ASSUME Type, CountInv, SplitInv, CountChar
  PROVE  Type' /\ CountInv' /\ SplitInv'
<1> USE DEF CountChar
<1>1. /\ str \in Seq(CharSet) /\ i \in 0..(Len(str) - 1) /\ Len(str) \in Nat
      /\ waspressed = AtGap(i) /\ count = Cardinality(EndsBefore(str, i))
      /\ Char(str, i) = str[i + 1]
  BY CharAt DEF Type, CountInv
<1>2. Type'
  BY <1>1 DEF Type
<1>3. waspressed' = (str[i + 1] = Sep)
  BY <1>1
<1>4. count' = Cardinality(EndsBefore(str, i + 1))
  <2>1. CASE ~waspressed /\ str[i + 1] = Sep
    <3>1. ~AtGap(i)
      BY <1>1, <2>1
    <3>2. i \in 1..Len(str) /\ str[i] # Sep
      BY <1>1, <3>1 DEF AtGap
    <3> QED
      BY <1>1, <2>1, <3>2, EndsBeforeGrows
  <2>2. CASE waspressed \/ str[i + 1] # Sep
    BY <1>1, <2>2, EndsBeforeStays DEF AtGap
  <2> QED
    BY <2>1, <2>2
<1>5. CountInv'
  BY <1>1, <1>3, <1>4 DEF CountInv, AtGap
<1> QED
  BY <1>2, <1>5 DEF SplitInv

LEMMA SCountEnd ==
  ASSUME Type, CountInv, CountEnd
  PROVE  Type' /\ CountInv' /\ SplitInv'
<1> DEFINE n == IF str = <<>> THEN 0
                ELSE IF Char(str, i - 1) = Sep THEN count ELSE count + 1
<1>1. /\ str \in Seq(CharSet) /\ Len(str) \in Nat /\ i = Len(str)
      /\ waspressed = AtGap(i) /\ count = Cardinality(EndsBefore(str, i))
      /\ curtoken = 0
  BY DEF Type, CountInv, CountEnd
<1>2. /\ num_of_tokens' = n
      /\ retval' \in {NoArray, [t \in Slots(n) |-> Mark]}
      /\ pc' = "split" /\ i' = 0 /\ waspressed' = TRUE
      /\ UNCHANGED <<str, curtoken, fresh>>
  BY DEF CountEnd, StartSplit, Mark
<1>3. n = Cardinality(Bounds(str))
  <2>1. CASE str = <<>>
    <3>1. Bounds(str) = {}
      BY <2>1, NoTokens
    <3> QED
      BY <2>1, <3>1, FS_EmptySet
  <2>2. CASE str # <<>>
    <3>1. Len(str) \in 1..Len(str) /\ Char(str, i - 1) = str[i]
      BY <1>1, <2>2 DEF Char
    <3>2. CASE str[i] = Sep
      <4>1. EndsBefore(str, i) = Bounds(str)
        BY <1>1, <3>1, <3>2, BoundsAre DEF EndsBefore
      <4> QED
        BY <1>1, <2>2, <3>1, <3>2, <4>1
    <3>3. CASE str[i] # Sep
      <4>1. Cardinality(EndsBefore(str, i + 1)) = count + 1
        BY <1>1, <3>1, <3>3, EndsBeforeGrows
      <4> QED
        BY <1>1, <2>2, <3>1, <3>3, <4>1, EndsBeforeNone
    <3> QED
      BY <3>2, <3>3
  <2> QED
    BY <2>1, <2>2
<1> HIDE DEF n
<1>4. n \in Nat
  BY <1>1, <1>3, BoundsFinite
<1>5. Type' /\ CountInv'
  BY <1>1, <1>2 DEF Type, CountInv
<1>6. EndsBefore(str, 0) = {} /\ Cardinality(EndsBefore(str, 0)) = 0
  BY <1>1, EndsBeforeNone, FS_EmptySet
<1>7. CASE retval' = NoArray
  <2>1. Sized(retval)' /\ Kept(retval, 0)'
    BY <1>2, <1>6, <1>7 DEF Sized, Kept
  <2> QED
    BY <1>1, <1>2, <1>3, <1>5, <1>6, <2>1 DEF SplitInv, AtGap
<1>8. CASE retval' = [t \in Slots(n) |-> Mark]
  <2>1. DOMAIN retval' = 0..n /\ \A t \in 0..n : retval'[t] = Mark
    BY <1>8 DEF Slots
  <2>2. FilledIn(retval', 0, n, Mark) /\ retval'[n] = Mark
    BY <1>4, <2>1 DEF FilledIn, Slots
  <2>3. StoredIn(retval', str, EndsBefore(str, 0))
    BY <1>6 DEF StoredIn
  <2>4. Sized(retval)'
    BY <1>2, <2>1, <2>2 DEF Sized, Slots, Mark
  <2>5. Kept(retval, 0)'
    BY <1>2, <1>6, <2>2, <2>3 DEF Kept, Mark
  <2> QED
    BY <1>1, <1>2, <1>3, <1>5, <1>6, <2>4, <2>5 DEF SplitInv, AtGap
<1> QED
  BY <1>2, <1>7, <1>8

LEMMA SSplitChar ==
  ASSUME Type, SplitInv, SplitChar
  PROVE  Type' /\ CountInv' /\ SplitInv'
<1> USE DEF SplitChar
<1>1. /\ str \in Seq(CharSet) /\ i \in 0..(Len(str) - 1) /\ Len(str) \in Nat
      /\ waspressed = AtGap(i) /\ Char(str, i) = str[i + 1]
      /\ curtoken = Cardinality(EndsBefore(str, i))
      /\ num_of_tokens = Cardinality(Bounds(str))
      /\ Kept(retval, i) /\ Sized(retval) /\ pc = "split"
      /\ ~waspressed => InToken
      /\ i' = i + 1 /\ UNCHANGED <<str, num_of_tokens, fresh>>
  BY CharAt DEF Type, SplitInv
<1>3. waspressed' = AtGap(i)'
  BY <1>1 DEF AtGap
<1>4. ~waspressed' => InToken'
  <2> SUFFICES ASSUME str[i + 1] # Sep PROVE InToken'
    BY <1>1, <1>3 DEF AtGap
  <2>1. CASE waspressed
    <3>1. prev' = i /\ i' = i + 1 /\ str' = str
      BY <1>1, <2>1
    <3>2. i = 0 \/ str[i] = Sep
      BY <1>1, <2>1 DEF AtGap
    <3> QED
      BY <1>1, <3>1, <3>2 DEF InToken
  <2>2. CASE ~waspressed
    <3>1. prev' = prev /\ i' = i + 1 /\ str' = str /\ InToken
      BY <1>1, <2>2
    <3> QED
      BY <1>1, <3>1 DEF InToken
  <2> QED
    BY <2>1, <2>2
<1>5. /\ curtoken' = Cardinality(EndsBefore(str, i + 1))
      /\ Sized(retval')
      /\ \/ pc' = "split" /\ Kept(retval', i + 1)
         \/ pc' = "segv"
  <2>1. CASE ~waspressed /\ str[i + 1] = Sep
    <3>1. Store("split") /\ curtoken' = curtoken + 1
      BY <1>1, <2>1
    <3> QED
      BY <1>1, <2>1, <3>1, TokenStored
  <2>2. CASE waspressed \/ str[i + 1] # Sep
    <3>1. UNCHANGED <<pc, retval, curtoken>>
      BY <1>1, <2>2
    <3>2. EndsBefore(str, i + 1) = EndsBefore(str, i)
      BY <1>1, <2>2, EndsBeforeStays DEF AtGap
    <3> QED
      BY <1>1, <3>1, <3>2 DEF Kept
  <2> QED
    BY <2>1, <2>2
<1>6. Type' /\ CountInv'
  BY <1>1, <1>5 DEF Type, CountInv
<1>7. Sized(retval)'
  BY <1>1, <1>5 DEF Sized, Mark
<1>8. pc' = "split" => Kept(retval, i)'
  BY <1>1, <1>5 DEF Kept, Mark
<1>9. SplitInv'
  BY <1>1, <1>3, <1>4, <1>5, <1>7, <1>8 DEF SplitInv
<1> QED
  BY <1>6, <1>9

LEMMA SSplitEnd ==
  ASSUME Type, SplitInv, SplitEnd
  PROVE  Type' /\ CountInv' /\ SplitInv'
<1>1. /\ str \in Seq(CharSet) /\ i = Len(str) /\ Len(str) \in Nat
      /\ waspressed = AtGap(i) /\ pc = "split"
      /\ curtoken = Cardinality(EndsBefore(str, i))
      /\ num_of_tokens = Cardinality(Bounds(str))
      /\ Kept(retval, i) /\ Sized(retval)
      /\ UNCHANGED <<str, i, num_of_tokens, fresh>>
  BY DEF Type, SplitInv, SplitEnd
<1>2. /\ pc' \in {"done", "segv"} /\ Sized(retval')
      /\ pc' = "done" /\ str # <<>> => Kept(retval', Len(str) + 1)
  <2>1. CASE str = <<>>
    <3>1. EmptyEnd
      BY <2>1 DEF SplitEnd
    <3>2. pc' \in {"done", "segv"}
      BY <3>1 DEF EmptyEnd
    <3>3. CASE UNCHANGED retval
      BY <1>1, <2>1, <3>2, <3>3
    <3>4. CASE retval # NoArray /\ \E x \in {Failed, Garbage} : Put(x)
      <4>1. Bounds(str) = {} /\ EndsBefore(str, i) = {}
        BY <2>1, NoTokens DEF EndsBefore
      <4>2. curtoken = 0 /\ num_of_tokens = 0
        BY <1>1, <4>1, FS_EmptySet
      <4>3. DOMAIN retval = Slots(0) /\ 0 \in Slots(0)
        BY <1>1, <3>4, <4>2 DEF Sized, Slots
      <4>4. DOMAIN retval' = Slots(0)
        BY <3>4, <4>2, <4>3 DEF Put
      <4> QED
        BY <2>1, <3>2, <4>2, <4>4 DEF Sized
    <3> QED
      BY <3>1, <3>3, <3>4 DEF EmptyEnd
  <2>2. CASE str # <<>> /\ Char(str, i - 1) # Sep
    <3>1. i \in 1..Len(str) /\ str[i] # Sep /\ Store("done")
      BY <1>1, <2>2 DEF SplitEnd, Char
    <3>2. ~AtGap(i)
      BY <3>1 DEF AtGap
    <3>3. ~waspressed
      BY <1>1, <3>2
    <3>4. /\ Sized(retval')
          /\ \/ pc' = "done" /\ Kept(retval', i + 1)
             \/ pc' = "segv"
      BY <1>1, <3>1, <3>3, TokenStored
    <3> QED
      BY <1>1, <3>4
  <2>3. CASE str # <<>> /\ Char(str, i - 1) = Sep
    <3>1. pc' = "done" /\ retval' = retval
      BY <2>3 DEF SplitEnd
    <3>2. i \in 1..Len(str) /\ str[i] = Sep
      BY <1>1, <2>3 DEF Char
    <3>3. EndsBefore(str, i) = EndsBefore(str, Len(str) + 1)
      BY <1>1, <3>2, BoundsAre DEF EndsBefore
    <3> QED
      BY <1>1, <3>1, <3>3 DEF Kept
  <2> QED
    BY <2>1, <2>2, <2>3
<1>3. Type' /\ CountInv'
  BY <1>1, <1>2 DEF Type, CountInv
<1>4. Sized(retval)'
  BY <1>1, <1>2 DEF Sized, Mark
<1>5. (pc = "done" /\ str # <<>>)' => Kept(retval, Len(str) + 1)'
  BY <1>1, <1>2 DEF Kept, Mark
<1>6. SplitInv'
  BY <1>1, <1>2, <1>4, <1>5 DEF SplitInv
<1> QED
  BY <1>3, <1>6

LEMMA SStep == SInv /\ [SysNext]_sysvars => SInv'
<1> SUFFICES ASSUME SInv, [SysNext]_sysvars PROVE SInv'
  OBVIOUS
<1>1. Type /\ CountInv /\ SplitInv
  BY DEF SInv
<1>2. CASE Split
  <2>1. Type' /\ CountInv' /\ SplitInv'
    BY <1>1, <1>2, SCountChar, SCountEnd, SSplitChar, SSplitEnd DEF Split
  <2> QED
    BY <2>1 DEF SInv
<1>3. CASE NoVector
  <2> USE <1>1, <1>3 DEF NoVector
  <2>1. Type' /\ CountInv'
    BY DEF Type, CountInv
  <2>2. SplitInv'
    BY DEF SplitInv, Sized, Mark
  <2> QED
    BY <2>1, <2>2 DEF SInv
<1>4. CASE System
  <2> USE <1>4 DEF System
  <2>1. Type'
    BY BoundedSeqs DEF Type
  <2>2. CountInv'
    BY <2>1, EndsBeforeNone, FS_EmptySet DEF CountInv, AtGap, Type
  <2>3. SplitInv'
    BY DEF SplitInv
  <2> QED
    BY <2>1, <2>2, <2>3 DEF SInv
<1>5. CASE UNCHANGED sysvars
  BY <1>1, <1>5
  DEF SInv, sysvars, vars, Type, CountInv, SplitInv, AtGap, InToken, Mark,
      Kept, Sized
<1> QED
  BY <1>2, <1>3, <1>4, <1>5 DEF SysNext

LEMMA SystemInvariant == SysSpec => []SInv
BY SInit, SStep, PTL DEF SysSpec

(***************************************************************************)
(* What splitstr and system do.                                            *)
(***************************************************************************)

(* findspaces counts the tokens, wherever separators are, and splitstr's   *)
(* own loop stays inside the array of that size; for a string with         *)
(* characters it leaves the last slot as malloc returned it.               *)
THEOREM SplitstrFits == SysSpec => []ArrayFits
<1>1. SInv => ArrayFits
  BY DEF SInv, SplitInv, Sized, Mark, ArrayFits
<1> QED
  BY <1>1, SystemInvariant, PTL

(* When splitstr returns, every token of the string is in the array, and   *)
(* in their order.                                                         *)
THEOREM SplitstrTokens == SysSpec => []TokensInOrder
<1>1. SInv => TokensInOrder
  <2> SUFFICES ASSUME SInv, pc = "done", NEW x \in Bounds(str)
               PROVE  retval[Before(str, x)] = SubSeq(str, x[1], x[2])
    BY DEF TokensInOrder
  <2>1. str \in Seq(CharSet) /\ str # <<>>
    BY NoTokens DEF SInv, Type
  <2>2. Kept(retval, Len(str) + 1) /\ EndsBefore(str, Len(str) + 1) = Bounds(str)
    BY <2>1, EndsBeforeNone DEF SInv, SplitInv
  <2> QED
    BY <2>2 DEF Kept, StoredIn
<1> QED
  BY <1>1, SystemInvariant, PTL

(***************************************************************************)
(* The functions of mem.c, str.c and util.c.                               *)
(***************************************************************************)

BrkFirst(order) == order = "brk first"

LEMMA BrktoReports ==
  ASSUME NEW old \in Nat, NEW top \in Nat, NEW addr \in Nat,
         NEW order \in Orders, old >= 1, old <= top
  PROVE  /\ brkto(old, addr, order, 1, top).rv # Error =>
              /\ brkto(old, addr, order, 1, top).rv = addr
              /\ brkto(old, addr, order, 1, top).brk = addr
              /\ addr # old
         /\ brkto(old, addr, order, 1, top).brk # old =>
              /\ brkto(old, addr, order, 1, top).brk = addr
              /\ brkto(old, addr, order, 1, top).rv = Error <=> BrkFirst(order)
<1> DEFINE r == brkto(old, addr, order, 1, top)
           rv == brk(old, addr, 1, top)
<1>1. /\ r.brk = rv
      /\ r.rv = IF (IF order = "curbrk first" THEN old ELSE rv) = rv THEN -1 ELSE rv
  BY DEF brkto, Error
<1>2. rv \in Nat /\ rv >= 1 /\ (rv = addr \/ rv = old)
  BY DEF brk, Break
<1> HIDE DEF r, rv
<1>3. CASE order = "curbrk first"
  <2>1. r.rv = IF old = rv THEN -1 ELSE rv
    BY <1>1, <1>3
  <2>2. ~BrkFirst(order)
    BY <1>3 DEF BrkFirst
  <2>3. old = rv => r.rv = Error /\ r.brk = old
    BY <1>1, <2>1 DEF Error
  <2>4. old # rv => r.rv = addr /\ r.brk = addr /\ addr # old /\ r.rv # Error
    <3> SUFFICES ASSUME old # rv
                 PROVE  r.rv = addr /\ r.brk = addr /\ addr # old /\ r.rv # Error
      OBVIOUS
    <3>1. rv = addr
      BY <1>2
    <3>2. r.rv = rv
      BY <2>1
    <3>3. rv # Error
      BY <1>2 DEF Error
    <3> QED
      BY <1>1, <3>1, <3>2, <3>3
  <2> QED
    BY <2>2, <2>3, <2>4 DEF r
<1>4. CASE order = "brk first"
  <2>1. r.rv = Error /\ (r.brk # old => r.brk = addr)
    BY <1>1, <1>2, <1>4 DEF Error
  <2>2. BrkFirst(order)
    BY <1>4 DEF BrkFirst
  <2> QED
    BY <2>1, <2>2 DEF r
<1> QED
  BY <1>3, <1>4 DEF Orders

(* brkto and sbrk report a success only for the move that was asked for,   *)
(* in both orders of the comparison; each move is reported in one of them. *)
THEOREM BrkReports == SysSpec => []BrkHonest
<1>1. BrkHonest
  <2> SUFFICES ASSUME NEW old \in 1..MaxLen, NEW top \in 1..MaxLen,
                      NEW addr \in 0..(MaxLen + 1), NEW order \in Orders,
                      old <= top
               PROVE  LET r == brkto(old, addr, order, 1, top)
                      IN /\ r.rv # Error => r.rv = addr /\ r.brk = addr /\ addr # old
                         /\ r.brk # old =>
                              r.brk = addr /\ (r.rv = Error <=> order = "brk first")
                         /\ \A by \in 0..MaxLen :
                              LET sr == sbrk(old, by, order, 1, top)
                              IN sr.rv # Error => sr.brk = old + by /\ by # 0
    BY DEF BrkHonest
  <2> DEFINE r == brkto(old, addr, order, 1, top)
             sr(by) == brkto(old, old + by, order, 1, top)
  <2>1. old \in Nat /\ top \in Nat /\ addr \in Nat /\ old >= 1 /\ old <= top
    BY StringsAssumption
  <2>2. ASSUME NEW by \in 0..MaxLen, sr(by).rv # Error
        PROVE  sr(by).brk = old + by /\ by # 0
    <3>1. old + by \in Nat /\ by \in Nat
      BY <2>1, StringsAssumption
    <3>2. sr(by).rv # Error => sr(by).brk = old + by /\ old + by # old
      BY <2>1, <3>1, BrktoReports
    <3> QED
      BY <2>1, <2>2, <3>1, <3>2
  <2>3. /\ r.rv # Error => r.rv = addr /\ r.brk = addr /\ addr # old
        /\ r.brk # old => r.brk = addr /\ (r.rv = Error <=> BrkFirst(order))
    BY <2>1, BrktoReports
  <2> QED
    BY <2>2, <2>3 DEF sbrk, BrkFirst
<1> QED
  BY <1>1, PTL

(* What memcpy leaves, if the areas do not overlap or the target lies      *)
(* behind the source: the recursion, that copies from the end, never reads *)
(* a byte it has written.                                                  *)
Copied(mem, from, to, size, n) ==
  [a \in DOMAIN mem |-> IF a \in (to + n)..(to + size - 1) THEN mem[a - to + from]
                        ELSE mem[a]]
LEMMA MemcpyCopies ==
  ASSUME NEW mem, mem = [a \in DOMAIN mem |-> mem[a]],
         NEW from \in Nat, NEW to \in Nat, NEW size \in Nat,
         \A n \in 0..(size - 1) : from + n \in DOMAIN mem /\ to + n \in DOMAIN mem,
         DOMAIN mem \subseteq Nat,
         from <= to \/ to + size <= from
  PROVE  memcpy(mem, from, to, size) = Copied(mem, from, to, size, 0)
<1> DEFINE W(n) == Copied(mem, from, to, size, n)
           D(f) == [n \in 0..size |->
                      IF n = size THEN mem
                      ELSE [f[n + 1] EXCEPT ![to + n] = f[n + 1][from + n]]]
           g == CHOOSE f : f = D(f)
<1>1. memcpy(mem, from, to, size) = g[0]
  BY DEF memcpy
<1>2. W(size) = mem
  BY DEF Copied
<1>3. ASSUME NEW n \in 0..(size - 1)
      PROVE  [W(n + 1) EXCEPT ![to + n] = W(n + 1)[from + n]] = W(n)
  <2>1. from + n \in DOMAIN mem /\ to + n \in DOMAIN mem
    OBVIOUS
  <2>2. from + n \notin (to + (n + 1))..(to + size - 1)
    OBVIOUS
  <2>3. W(n + 1)[from + n] = mem[from + n]
    BY <2>1, <2>2 DEF Copied
  <2>4. ASSUME NEW a \in DOMAIN mem
        PROVE  [W(n + 1) EXCEPT ![to + n] = mem[from + n]][a] = W(n)[a]
    <3>1. CASE a = to + n
      <4>1. a \in (to + n)..(to + size - 1) /\ a - to + from = from + n
        BY <3>1
      <4> QED
        BY <3>1, <4>1 DEF Copied
    <3>2. CASE a # to + n
      <4>1. a \in (to + n)..(to + size - 1) <=> a \in (to + (n + 1))..(to + size - 1)
        BY <3>2
      <4> QED
        BY <3>2, <4>1 DEF Copied
    <3> QED
      BY <3>1, <3>2
  <2>5. /\ DOMAIN [W(n + 1) EXCEPT ![to + n] = mem[from + n]] = DOMAIN mem
        /\ DOMAIN W(n) = DOMAIN mem
    BY DEF Copied
  <2>6. [W(n + 1) EXCEPT ![to + n] = mem[from + n]] = W(n)
    BY <2>4, <2>5 DEF Copied
  <2> QED
    BY <2>3, <2>6
<1> HIDE DEF W
<1>4. g = D(g)
  <2> DEFINE w == [n \in 0..size |-> W(n)]
  <2>1. \A n \in 0..size : w[n] = D(w)[n]
    BY <1>2, <1>3
  <2>2. w = D(w)
    BY <2>1
  <2> QED
    BY <2>2
<1> HIDE DEF g
<1>5. \A k \in Nat : k <= size => g[size - k] = W(size - k)
  <2> DEFINE T == {k \in Nat : k <= size => g[size - k] = W(size - k)}
  <2>1. 0 \in T
    BY <1>2, <1>4
  <2>2. ASSUME NEW k \in T, k + 1 <= size
        PROVE  g[size - (k + 1)] = W(size - (k + 1))
    <3> DEFINE n == size - (k + 1)
    <3>1. n \in 0..(size - 1) /\ n + 1 = size - k /\ k <= size
      BY <2>2
    <3>2. g[n + 1] = W(n + 1)
      BY <2>2, <3>1
    <3> HIDE DEF n
    <3>3. g[n] = [g[n + 1] EXCEPT ![to + n] = g[n + 1][from + n]]
      <4>1. n \in 0..size /\ n # size
        BY <3>1
      <4>2. D(g)[n] = [g[n + 1] EXCEPT ![to + n] = g[n + 1][from + n]]
        BY <4>1
      <4>3. g[n] = D(g)[n]
        BY <1>4
      <4> QED
        BY <4>2, <4>3
    <3>4. g[n] = W(n)
      BY <1>3, <3>1, <3>2, <3>3
    <3> QED
      BY <3>4 DEF n
  <2>3. \A k \in T : k + 1 \in T
    BY <2>2
  <2> HIDE DEF T
  <2>4. T = Nat
    BY <2>1, <2>3, InductionInSet DEF T
  <2> QED
    BY <2>4 DEF T
<1>6. g[0] = W(0)
  <2>1. size - size = 0 /\ size <= size
    OBVIOUS
  <2> QED
    BY <1>5, <2>1
<1> QED
  BY <1>1, <1>6 DEF W

LEMMA MaxOfTwo ==
  ASSUME NEW a \in Nat, NEW b \in Nat
  PROVE  Max({a, b}) \in Nat /\ Max({a, b}) >= a /\ Max({a, b}) >= b
<1>1. \E x \in {a, b} : \A y \in {a, b} : x >= y
  <2>1. CASE a >= b
    BY <2>1
  <2>2. CASE b >= a
    BY <2>2
  <2> QED
    BY <2>1, <2>2
<1> QED
  BY <1>1 DEF Max

LEMMA AreaIs ==
  ASSUME NEW s \in Seq(CharSet)
  PROVE  /\ Area(s) = [a \in DOMAIN Area(s) |-> Area(s)[a]]
         /\ DOMAIN Area(s) = 0..Len(s) /\ Len(s) \in Nat
         /\ \A a \in 0..Len(s) : Area(s)[a] = Char(s, a) /\ Area(s)[a] # "set"
<1>1. ASSUME NEW a \in 0..Len(s) PROVE Char(s, a) # "set"
  <2>1. CASE a = Len(s)
    BY <2>1 DEF Char, NUL
  <2>2. CASE a # Len(s)
    <3>1. Char(s, a) \in CharSet
      BY <2>2, CharAt
    <3> QED
      BY <3>1, StringsAssumption DEF CharSet
  <2> QED
    BY <2>1, <2>2
<1> QED
  BY <1>1 DEF Area

LEMMA CopyExact ==
  ASSUME str \in Seq(CharSet)
  PROVE  CopyIsExact
<1> SUFFICES ASSUME NEW from \in Offsets, NEW to \in Offsets,
                    NEW size \in Sizes(from, to), NEW a \in Offsets,
                    from <= to \/ to + size <= from
             PROVE  memcpy(Area(str), from, to, size)[a]
                      = IF a \in to..(to + size - 1) THEN Area(str)[a - to + from]
                        ELSE Area(str)[a]
  BY DEF CopyIsExact
<1> DEFINE mem == Area(str)
<1>1. /\ from \in Nat /\ to \in Nat /\ size \in Nat /\ Len(str) \in Nat
      /\ from + size <= Len(str) + 1 /\ to + size <= Len(str) + 1
  BY MaxOfTwo DEF Offsets, Sizes
<1>2. mem = [x \in DOMAIN mem |-> mem[x]] /\ DOMAIN mem = 0..Len(str)
  BY AreaIs
<1> HIDE DEF mem
<1>3. \A n \in 0..(size - 1) : from + n \in DOMAIN mem /\ to + n \in DOMAIN mem
  BY <1>1, <1>2
<1>4. DOMAIN mem \subseteq Nat
  BY <1>1, <1>2
<1>5. memcpy(mem, from, to, size) = Copied(mem, from, to, size, 0)
  BY <1>1, <1>2, <1>3, <1>4, MemcpyCopies
<1>6. a \in DOMAIN mem /\ to + 0 = to
  BY <1>1, <1>2 DEF Offsets
<1> QED
  BY <1>5, <1>6 DEF Copied, mem

(* A function on 0..size that the loop's equations define from size down.  *)
LEMMA CountedDown ==
  ASSUME NEW size \in Nat, NEW g, NEW w, g[size] = w[size],
         \A n \in 0..(size - 1) : g[n + 1] = w[n + 1] => g[n] = w[n]
  PROVE  g[0] = w[0]
<1> DEFINE T == {k \in Nat : k <= size => g[size - k] = w[size - k]}
<1>1. 0 \in T
  OBVIOUS
<1>2. ASSUME NEW k \in T, k + 1 <= size
      PROVE  g[size - (k + 1)] = w[size - (k + 1)]
  <2> DEFINE n == size - (k + 1)
  <2>1. n \in 0..(size - 1) /\ n + 1 = size - k /\ k <= size
    BY <1>2
  <2>2. g[n + 1] = w[n + 1]
    BY <1>2, <2>1
  <2> QED
    BY <2>1, <2>2
<1>3. \A k \in T : k + 1 \in T
  BY <1>2
<1> HIDE DEF T
<1>4. T = Nat
  BY <1>1, <1>3, InductionInSet DEF T
<1>5. size \in T /\ size - size = 0 /\ size <= size
  BY <1>4
<1> QED
  BY <1>5 DEF T

(* What memset leaves after its steps down to n. *)
Filled(mem, ptr, value, size, n) ==
  [a \in DOMAIN mem |-> IF a \in (ptr + n)..(ptr + size - 1) THEN value ELSE mem[a]]
LEMMA MemsetFills ==
  ASSUME NEW mem, mem = [a \in DOMAIN mem |-> mem[a]],
         NEW ptr \in Nat, NEW size \in Nat, NEW value,
         \A n \in 0..(size - 1) : ptr + n \in DOMAIN mem,
         DOMAIN mem \subseteq Nat
  PROVE  memset(mem, ptr, value, size) = Filled(mem, ptr, value, size, 0)
<1> DEFINE W(n) == Filled(mem, ptr, value, size, n)
           D(f) == [n \in 0..size |->
                      IF n = size THEN mem ELSE [f[n + 1] EXCEPT ![ptr + n] = value]]
           g == CHOOSE f : f = D(f)
           w == [n \in 0..size |-> W(n)]
<1>1. memset(mem, ptr, value, size) = g[0]
  BY DEF memset
<1>2. W(size) = mem
  BY DEF Filled
<1>3. ASSUME NEW n \in 0..(size - 1)
      PROVE  [W(n + 1) EXCEPT ![ptr + n] = value] = W(n)
  <2>1. ptr + n \in DOMAIN mem
    OBVIOUS
  <2>2. ASSUME NEW a \in DOMAIN mem
        PROVE  [W(n + 1) EXCEPT ![ptr + n] = value][a] = W(n)[a]
    <3>1. CASE a = ptr + n
      <4>1. a \in (ptr + n)..(ptr + size - 1)
        BY <3>1
      <4> QED
        BY <3>1, <4>1 DEF Filled
    <3>2. CASE a # ptr + n
      <4>1. a \in (ptr + n)..(ptr + size - 1) <=> a \in (ptr + (n + 1))..(ptr + size - 1)
        BY <3>2
      <4> QED
        BY <3>2, <4>1 DEF Filled
    <3> QED
      BY <3>1, <3>2
  <2> QED
    BY <2>2 DEF Filled
<1> HIDE DEF W
<1>4. w = D(w)
  <2>1. \A n \in 0..size : w[n] = D(w)[n]
    BY <1>2, <1>3
  <2> QED
    BY <2>1
<1>5. g = D(g)
  BY <1>4
<1> HIDE DEF g
<1>6. g[size] = w[size]
  BY <1>2, <1>5
<1>7. ASSUME NEW n \in 0..(size - 1), g[n + 1] = w[n + 1]
      PROVE  g[n] = w[n]
  <2>1. n \in 0..size /\ n + 1 \in 0..size /\ n # size
    OBVIOUS
  <2>2. D(g)[n] = [g[n + 1] EXCEPT ![ptr + n] = value]
    BY <2>1
  <2>3. g[n] = [g[n + 1] EXCEPT ![ptr + n] = value]
    BY <1>5, <2>2
  <2> QED
    BY <1>3, <1>7, <2>1, <2>3
<1> HIDE DEF w, D
<1>8. g[0] = w[0]
  <2>1. \A n \in 0..(size - 1) : g[n + 1] = w[n + 1] => g[n] = w[n]
    BY <1>7
  <2> QED
    BY <1>6, <2>1, CountedDown
<1>9. 0 \in 0..size
  OBVIOUS
<1> QED
  BY <1>1, <1>8, <1>9 DEF W, w

LEMMA MemsetExact ==
  ASSUME str \in Seq(CharSet)
  PROVE  MemsetIsExact
<1> SUFFICES ASSUME NEW ptr \in Offsets, NEW size \in Sizes(ptr, 0),
                    NEW a \in Offsets
             PROVE  memset(Area(str), ptr, "set", size)[a]
                      = IF a \in ptr..(ptr + size - 1) THEN "set" ELSE Area(str)[a]
  BY DEF MemsetIsExact
<1> DEFINE mem == Area(str)
<1>1. /\ ptr \in Nat /\ size \in Nat /\ ptr + size <= Len(str) + 1
      /\ Len(str) \in Nat
  BY MaxOfTwo DEF Offsets, Sizes
<1>2. mem = [x \in DOMAIN mem |-> mem[x]] /\ DOMAIN mem = 0..Len(str)
  BY AreaIs
<1> HIDE DEF mem
<1>3. (\A n \in 0..(size - 1) : ptr + n \in DOMAIN mem) /\ DOMAIN mem \subseteq Nat
  BY <1>1, <1>2
<1>4. memset(mem, ptr, "set", size) = Filled(mem, ptr, "set", size, 0)
  BY <1>1, <1>2, <1>3, MemsetFills
<1>5. a \in DOMAIN mem /\ ptr + 0 = ptr
  BY <1>1, <1>2 DEF Offsets
<1> QED
  BY <1>4, <1>5 DEF Filled, mem

LEMMA MemcmpCompares ==
  ASSUME NEW mem, NEW pt1 \in Nat, NEW pt2 \in Nat, NEW size \in Nat
  PROVE  memcmp(mem, pt1, pt2, size) <=>
           \A n \in 0..(size - 1) : mem[pt1 + n] = mem[pt2 + n]
<1> DEFINE W(k) == \A n \in 0..(k - 1) : mem[pt1 + n] = mem[pt2 + n]
           D(f) == [n \in 0..size |->
                      IF n = 0 THEN TRUE
                      ELSE IF mem[pt1 + n - 1] # mem[pt2 + n - 1] THEN FALSE
                      ELSE f[n - 1]]
           g == CHOOSE f : f = D(f)
           w == [n \in 0..size |-> W(n)]
<1>1. memcmp(mem, pt1, pt2, size) = g[size]
  BY DEF memcmp
<1>2. W(0) = TRUE
  OBVIOUS
<1>3. ASSUME NEW n \in 1..size
      PROVE  W(n) = IF mem[pt1 + n - 1] # mem[pt2 + n - 1] THEN FALSE ELSE W(n - 1)
  <2>1. pt1 + n - 1 = pt1 + (n - 1) /\ pt2 + n - 1 = pt2 + (n - 1)
    OBVIOUS
  <2>2. n - 1 \in 0..(n - 1) /\ \A k \in 0..(n - 1) : k = n - 1 \/ k \in 0..(n - 1 - 1)
    OBVIOUS
  <2>3. 0..(n - 1 - 1) \subseteq 0..(n - 1)
    OBVIOUS
  <2> QED
    BY <2>1, <2>2, <2>3
<1> HIDE DEF W
<1>4. w = D(w)
  <2>1. \A n \in 0..size : w[n] = D(w)[n]
    <3> SUFFICES ASSUME NEW n \in 0..size PROVE w[n] = D(w)[n]
      OBVIOUS
    <3>1. CASE n = 0
      BY <1>2, <3>1
    <3>2. CASE n # 0
      <4>1. n \in 1..size /\ n - 1 \in 0..size
        BY <3>2
      <4> QED
        BY <1>3, <3>2, <4>1
    <3> QED
      BY <3>1, <3>2
  <2> QED
    BY <2>1
<1>5. g = D(g)
  BY <1>4
<1> HIDE DEF g, w
<1>0. \A n \in 0..size :
        g[n] = IF n = 0 THEN TRUE
               ELSE IF mem[pt1 + n - 1] # mem[pt2 + n - 1] THEN FALSE ELSE g[n - 1]
  BY <1>5
<1> HIDE DEF D
<1> DEFINE T == {n \in Nat : n <= size => g[n] = W(n)}
<1>6. 0 \in T
  <2>1. 0 \in 0..size /\ 0 \in Nat
    OBVIOUS
  <2>2. g[0] = TRUE
    BY <1>0, <2>1
  <2> QED
    BY <1>2, <2>1, <2>2
<1>7. ASSUME NEW k \in T, k + 1 <= size PROVE g[k + 1] = W(k + 1)
  <2> DEFINE n == k + 1
             differ == mem[pt1 + n - 1] # mem[pt2 + n - 1]
  <2>1. n \in 1..size /\ n \in 0..size /\ n # 0 /\ n - 1 = k /\ k <= size
    BY <1>7
  <2>2. g[n - 1] = W(n - 1)
    BY <2>1
  <2> HIDE DEF n, T
  <2>3. g[n] = IF differ THEN FALSE ELSE g[n - 1]
    BY Zenon, <1>0, <2>1
  <2>4. W(n) = IF differ THEN FALSE ELSE W(n - 1)
    BY Zenon, <1>3, <2>1
  <2> HIDE DEF differ
  <2>5. g[n] = W(n)
    <3>1. CASE differ
      BY Zenon, <2>3, <2>4, <3>1
    <3>2. CASE ~differ
      <4>1. g[n] = g[n - 1] /\ W(n) = W(n - 1)
        BY Zenon, <2>3, <2>4, <3>2
      <4> QED
        BY Zenon, <2>2, <4>1
    <3> QED
      BY <3>1, <3>2
  <2> QED
    BY Zenon, <2>5 DEF n
<1>8. \A k \in T : k + 1 \in T
  BY <1>7
<1> HIDE DEF T
<1>9. T = Nat
  BY <1>6, <1>8, InductionInSet DEF T
<1>10. g[size] = W(size)
  BY <1>9 DEF T
<1> QED
  BY <1>1, <1>10 DEF W

LEMMA MemcmpExact ==
  ASSUME str \in Seq(CharSet)
  PROVE  MemcmpIsExact
<1> SUFFICES ASSUME NEW pt1 \in Offsets, NEW pt2 \in Offsets,
                    NEW size \in Sizes(pt1, pt2)
             PROVE  memcmp(Area(str), pt1, pt2, size) <=>
                      \A n \in 0..(size - 1) :
                        Area(str)[pt1 + n] = Area(str)[pt2 + n]
  BY DEF MemcmpIsExact
<1>1. pt1 \in Nat /\ pt2 \in Nat /\ size \in Nat
  BY MaxOfTwo DEF Offsets, Sizes
<1> QED
  BY <1>1, MemcmpCompares

LEMMA StrcatExact ==
  ASSUME NEW a \in Seq(CharSet), NEW b \in Seq(CharSet)
  PROVE  StrcatJoins(a, b)
<1>1. ASSUME NEW s \in Seq(CharSet) PROVE strln(s) = 1 + Len(s)
  <2>1. \A n \in 0..Len(s) : Char(s, n) = NUL <=> n = Len(s)
    <3> SUFFICES ASSUME NEW n \in 0..Len(s), n # Len(s) PROVE Char(s, n) # NUL
      BY DEF Char
    <3> QED
      BY CharAt, StringsAssumption DEF CharSet
  <2>2. Len(s) \in 0..Len(s)
    OBVIOUS
  <2> QED
    BY <2>1, <2>2 DEF strln
<1> DEFINE p == Len(a)
           q == Len(b)
           mem == Behind(a, b)
<1>2. p \in Nat /\ q \in Nat /\ Len(a \o b) = p + q
  OBVIOUS
<1>3. strcatLength(a, b) = p + q + 2 /\ strcpyReturns(a) - 1 = p
  BY <1>1, <1>2 DEF strcatLength, strcpyReturns
<1>4. mem = [x \in 0..(p + q + 3) |-> "stale"]
  BY <1>2, <1>3 DEF Behind
<1>5. strcat(a, b, mem) = Stored(b, p, Stored(a, 0, mem))
  BY <1>3 DEF strcat
<1> HIDE DEF mem
<1>6. \A x \in 0..(p + q + 3) :
        strcat(a, b, mem)[x] = IF x - p \in 0..q THEN Char(b, x - p)
                               ELSE IF x - 0 \in 0..p THEN Char(a, x - 0) ELSE "stale"
  BY <1>4, <1>5 DEF Stored
<1>7. ASSUME NEW k \in 0..(p + q + 3)
      PROVE  strcat(a, b, mem)[k]
               = IF k \in 0..(p + q) THEN Char(a \o b, k) ELSE "stale"
  <2>1. CASE k < p
    <3>1. strcat(a, b, mem)[k] = Char(a, k)
      BY <1>2, <1>6, <2>1
    <3>2. (a \o b)[k + 1] = a[k + 1]
      BY <1>2, <2>1
    <3> QED
      BY <1>2, <2>1, <3>1, <3>2 DEF Char
  <2>2. CASE k >= p /\ k <= p + q
    <3>1. strcat(a, b, mem)[k] = Char(b, k - p)
      BY <1>2, <1>6, <2>2
    <3>2. k < p + q => (a \o b)[k + 1] = b[k + 1 - p]
      BY <1>2, <2>2
    <3>3. CASE k = p + q
      BY <1>2, <2>2, <3>1, <3>3 DEF Char
    <3>4. CASE k # p + q
      <4>1. k < p + q /\ k - p # q /\ k - p + 1 = k + 1 - p
        BY <1>2, <2>2, <3>4
      <4>2. Char(a \o b, k) = b[k + 1 - p] /\ Char(b, k - p) = b[k + 1 - p]
        BY <1>2, <3>2, <3>4, <4>1 DEF Char
      <4> QED
        BY <1>2, <2>2, <3>1, <4>2
    <3> QED
      BY <3>3, <3>4
  <2>3. CASE k > p + q
    BY <1>2, <1>6, <2>3
  <2> QED
    BY <1>2, <2>1, <2>2, <2>3
<1>8. DOMAIN mem = 0..(p + q + 3)
  BY <1>4
<1> QED
  BY <1>2, <1>3, <1>7, <1>8 DEF mem, StrcatJoins

(* strcat writes both strings and one NUL, and stays inside what it        *)
(* allocates.  memcpy gives the target what the source held unless the     *)
(* source overlaps it from behind, and changes nothing else; memset sets   *)
(* its area and nothing else; memcmp is TRUE of equal areas and no others. *)
THEOREM BytesAreExact == SysSpec => []BytesExact
<1>1. SInv => BytesExact
  <2> SUFFICES ASSUME str \in Seq(CharSet) PROVE BytesExact
    BY DEF SInv, Type
  <2>1. <<>> \in Seq(CharSet) /\ \A c \in CharSet : <<c>> \in Seq(CharSet)
    OBVIOUS
  <2>2. \A a, b \in {str} \cup {<<>>} \cup {<<c>> : c \in CharSet} :
          StrcatJoins(a, b)
    BY <2>1, StrcatExact
  <2> QED
    BY <2>2, CopyExact, MemcmpExact, MemsetExact DEF BytesExact
<1> QED
  BY <1>1, SystemInvariant, PTL

(***************************************************************************)
(* The memory that execve reads.                                           *)
(***************************************************************************)

(* c is a with b behind it. *)
Joined(c, a, b) ==
  /\ Len(a) \in Nat /\ Len(b) \in Nat /\ Len(c) = Len(a) + Len(b)
  /\ \A k \in 1..Len(a) : c[k] = a[k]
  /\ \A k \in 1..Len(b) : c[Len(a) + k] = b[k]

LEMMA JoinedAre ==
  ASSUME NEW S, NEW a \in Seq(S), NEW b \in Seq(S)
  PROVE  a \o b \in Seq(S) /\ Joined(a \o b, a, b)
BY DEF Joined

(* A function given by recursion on a number exists. *)
Recursion(f, V, n, base, next) ==
  /\ f \in [0..n -> V] /\ f[0] = base
  /\ \A k \in 1..n : f[k] = next[<<k, f[k - 1]>>]

LEMMA RecursionExists ==
  ASSUME NEW V, NEW n \in Nat, NEW base \in V, NEW next \in [Nat \X V -> V]
  PROVE  \E f : Recursion(f, V, n, base, next)
<1> DEFINE Right(f, m) ==
             f[0] = base /\ \A k \in 1..m : f[k] = next[<<k, f[k - 1]>>]
           T == {m \in Nat : \E f \in [0..m -> V] : Right(f, m)}
<1>1. 0 \in T
  <2>1. [k \in 0..0 |-> base] \in [0..0 -> V] /\ Right([k \in 0..0 |-> base], 0)
    OBVIOUS
  <2> QED
    BY <2>1
<1>2. ASSUME NEW m \in T PROVE m + 1 \in T
  <2>1. PICK f \in [0..m -> V] : Right(f, m)
    OBVIOUS
  <2> DEFINE g == [k \in 0..(m + 1) |->
                     IF k = m + 1 THEN next[<<m + 1, f[m]>>] ELSE f[k]]
  <2>2. g \in [0..(m + 1) -> V]
    OBVIOUS
  <2>3. g[0] = base
    BY <2>1
  <2>4. ASSUME NEW k \in 1..(m + 1) PROVE g[k] = next[<<k, g[k - 1]>>]
    <3>0. m \in Nat
      OBVIOUS
    <3>1. CASE k = m + 1
      <4>1. k - 1 = m /\ m \in 0..(m + 1) /\ m # m + 1 /\ k \in 0..(m + 1)
        BY <3>0, <3>1
      <4>2. g[k] = next[<<k, f[m]>>] /\ g[k - 1] = f[m]
        BY <3>1, <4>1
      <4> QED
        BY <4>2
    <3>2. CASE k # m + 1
      <4>1. k \in 1..m /\ k - 1 \in 0..m
        BY <3>0, <3>2
      <4> QED
        BY <2>1, <4>1
    <3> QED
      BY <3>1, <3>2
  <2> HIDE DEF g
  <2> QED
    BY <2>2, <2>3, <2>4
<1> HIDE DEF T
<1>3. T = Nat
  BY <1>1, <1>2, InductionInSet DEF T
<1> QED
  BY <1>3 DEF T, Recursion

(* What FlattenSeq does: the sequences that f says are the concatenations  *)
(* of the first ones.                                                      *)
Joins(f, bs, S) ==
  /\ Len(bs) \in Nat /\ \A k \in 1..Len(bs) : bs[k] \in Seq(S)
  /\ f \in [0..Len(bs) -> Seq(S)] /\ f[0] = <<>>
  /\ \A k \in 1..Len(bs) : f[k] = f[k - 1] \o bs[k]

LEMMA JoinsExists ==
  ASSUME NEW S, NEW bs \in Seq(Seq(S))
  PROVE  \E f : Joins(f, bs, S)
<1> DEFINE next == [x \in Nat \X Seq(S) |->
                      IF x[1] \in 1..Len(bs) THEN x[2] \o bs[x[1]] ELSE <<>>]
<1>1. \A x \in Nat \X Seq(S) : x[1] \in 1..Len(bs) => x[2] \o bs[x[1]] \in Seq(S)
  <2> SUFFICES ASSUME NEW k \in 1..Len(bs), NEW s \in Seq(S)
               PROVE  s \o bs[k] \in Seq(S)
    OBVIOUS
  <2>1. bs[k] \in Seq(S)
    OBVIOUS
  <2> QED
    BY <2>1, ConcatProperties
<1>2. next \in [Nat \X Seq(S) -> Seq(S)] /\ <<>> \in Seq(S) /\ Len(bs) \in Nat
  BY <1>1
<1>3. ASSUME NEW k \in 1..Len(bs), NEW s \in Seq(S)
      PROVE  next[<<k, s>>] = s \o bs[k]
  <2>1. k \in Nat /\ <<k, s>> \in Nat \X Seq(S)
    BY <1>2
  <2> QED
    BY <2>1
<1> HIDE DEF next
<1>4. PICK f \in [0..Len(bs) -> Seq(S)] :
        f[0] = <<>> /\ \A k \in 1..Len(bs) : f[k] = next[<<k, f[k - 1]>>]
  <2>1. \E f : Recursion(f, Seq(S), Len(bs), <<>>, next)
    BY <1>2, RecursionExists
  <2> QED
    BY <2>1 DEF Recursion
<1>5. ASSUME NEW k \in 1..Len(bs) PROVE f[k] = f[k - 1] \o bs[k]
  <2>1. k - 1 \in 0..Len(bs)
    BY <1>2
  <2> QED
    BY <1>3, <1>4, <2>1
<1>6. \A k \in 1..Len(bs) : bs[k] \in Seq(S)
  OBVIOUS
<1> QED
  BY <1>2, <1>4, <1>5, <1>6 DEF Joins

LEMMA FlattenIs ==
  ASSUME NEW S, NEW bs, NEW f, Joins(f, bs, S),
         NEW m \in 0..Len(bs)
  PROVE  FlattenSeq([u \in 1..m |-> bs[u]]) = f[m]
<1> DEFINE seqs == [u \in 1..m |-> bs[u]]
           D(h) == [j \in 1..m |-> IF j = 1 THEN seqs[j] ELSE h[j - 1] \o seqs[j]]
           g == CHOOSE h : h = D(h)
<1>1. /\ m \in Nat /\ m <= Len(bs) /\ Len(bs) \in Nat
      /\ \A k \in 1..m : bs[k] \in Seq(S)
  BY DEF Joins
<1>2. seqs \in Seq(Seq(S)) /\ Len(seqs) = m
  <2>1. seqs \in [1..m -> Seq(S)]
    BY <1>1
  <2> HIDE DEF seqs
  <2>2. seqs \in Seq(Seq(S)) /\ DOMAIN seqs = 1..m
    BY <1>1, <2>1
  <2> QED
    BY <1>1, <2>2, LenProperties
<1>3. CASE m = 0
  <2>1. FlattenSeq(seqs) = seqs
    BY <1>2, <1>3 DEF FlattenSeq
  <2>2. seqs = <<>>
    BY <1>2, <1>3, EmptySeq
  <2> QED
    BY <1>3, <2>1, <2>2 DEF Joins
<1>4. CASE m # 0
  <2>1. FlattenSeq(seqs) = g[m]
    BY <1>2, <1>4 DEF FlattenSeq
  <2>2. \A j \in 1..m : seqs[j] = bs[j]
    OBVIOUS
  <2> HIDE DEF seqs
  <2>3. g = D(g)
    <3> DEFINE w == [j \in 1..m |-> f[j]]
    <3>1. ASSUME NEW j \in 1..m PROVE w[j] = D(w)[j]
      <4>0. j \in 1..Len(bs)
        BY <1>1
      <4>1. j \in 1..Len(bs) /\ f[j] = f[j - 1] \o bs[j] /\ bs[j] \in Seq(S)
        BY <4>0 DEF Joins
      <4>2. CASE j = 1
        <5>1. j - 1 = 0 /\ f[0] = <<>>
          BY <4>2 DEF Joins
        <5>2. f[j] = bs[j]
          BY <4>1, <5>1, ConcatEmptySeq
        <5>3. f[1] = bs[1]
          BY <4>2, <5>2
        <5> QED
          BY <2>2, <4>2, <5>3
      <4>3. CASE j # 1
        <5>1. j - 1 \in 1..m
          BY <1>1, <4>3
        <5> QED
          BY <2>2, <4>1, <4>3, <5>1
      <4> QED
        BY <4>2, <4>3
    <3>2. w = D(w)
      BY <3>1
    <3> QED
      BY <3>2
  <2> HIDE DEF g
  <2> DEFINE T == {k \in Nat : k + 1 <= m => g[k + 1] = f[k + 1]}
  <2>4. 0 \in T
    <3>1. 1 \in 1..m /\ 1 \in 1..Len(bs) /\ bs[1] \in Seq(S)
      BY <1>1, <1>4
    <3>2. g[1] = bs[1]
      BY <2>2, <2>3, <3>1
    <3>3. f[1] = f[0] \o bs[1] /\ f[0] = <<>>
      <4>1. f[1] = f[1 - 1] \o bs[1] /\ f[0] = <<>>
        BY <3>1 DEF Joins
      <4>2. 1 - 1 = 0
        OBVIOUS
      <4> QED
        BY <4>1, <4>2
    <3>4. g[1] = f[1]
      BY <3>1, <3>2, <3>3, ConcatEmptySeq
    <3>5. 0 + 1 = 1
      OBVIOUS
    <3> QED
      BY <3>4, <3>5
  <2>5. ASSUME NEW k \in T, (k + 1) + 1 <= m
        PROVE  g[(k + 1) + 1] = f[(k + 1) + 1]
    <3> DEFINE j == (k + 1) + 1
    <3>1. j \in 1..m /\ j # 1 /\ j - 1 = k + 1 /\ k + 1 <= m /\ j \in 1..Len(bs)
      BY <2>5
    <3>2. g[k + 1] = f[k + 1]
      BY <3>1
    <3> HIDE DEF j, T
    <3>3. g[j] = g[j - 1] \o seqs[j]
      BY <2>3, <3>1
    <3>4. f[j] = f[j - 1] \o bs[j]
      BY <3>1 DEF Joins
    <3>5. g[j] = f[j]
      BY <2>2, <3>1, <3>2, <3>3, <3>4
    <3> QED
      BY <3>5 DEF j
  <2>6. \A k \in T : k + 1 \in T
    BY <2>5
  <2> HIDE DEF T
  <2>7. T = Nat
    BY <2>4, <2>6, InductionInSet DEF T
  <2>8. g[(m - 1) + 1] = f[(m - 1) + 1]
    <3>1. m - 1 \in T /\ (m - 1) + 1 <= m
      BY <1>1, <1>4, <2>7
    <3> QED
      BY <3>1 DEF T
  <2>9. (m - 1) + 1 = m
    BY <1>1
  <2> QED
    BY <2>1, <2>8, <2>9 DEF seqs
<1> QED
  BY <1>3, <1>4

(* What was joined first stays where it is. *)
LEMMA JoinsGrow ==
  ASSUME NEW S, NEW bs, NEW f, Joins(f, bs, S),
         NEW t \in 0..Len(bs)
  PROVE  \A m \in t..Len(bs) :
           /\ Len(f[t]) <= Len(f[m])
           /\ \A q \in 1..Len(f[t]) : f[m][q] = f[t][q]
<1> DEFINE Stays(m) == /\ Len(f[t]) <= Len(f[m])
                       /\ \A q \in 1..Len(f[t]) : f[m][q] = f[t][q]
           T == {k \in Nat : t + k <= Len(bs) => Stays(t + k)}
<1>1. /\ t \in Nat /\ Len(bs) \in Nat /\ \A m \in 0..Len(bs) : f[m] \in Seq(S)
      /\ Len(f[t]) \in Nat
  BY DEF Joins
<1>2. 0 \in T
  <2>1. t + 0 = t
    BY <1>1
  <2>2. Stays(t)
    BY <1>1
  <2> QED
    BY <2>1, <2>2
<1>3. ASSUME NEW k \in T, t + (k + 1) <= Len(bs) PROVE Stays(t + (k + 1))
  <2> DEFINE m == t + (k + 1)
  <2>0. m \in 1..Len(bs) /\ m - 1 = t + k /\ t + k \in 0..Len(bs)
    BY <1>1, <1>3
  <2>1. /\ m \in 1..Len(bs) /\ m - 1 = t + k /\ t + k \in 0..Len(bs)
        /\ f[m] = f[t + k] \o bs[m] /\ bs[m] \in Seq(S) /\ f[t + k] \in Seq(S)
        /\ f[t] \in Seq(S)
    BY <1>1, <2>0 DEF Joins
  <2>2. Stays(t + k)
    BY <2>0
  <2> HIDE DEF m
  <2>3. Joined(f[m], f[t + k], bs[m])
    BY <2>1, JoinedAre
  <2>4. Len(f[t]) \in Nat /\ Len(f[t + k]) \in Nat /\ Len(bs[m]) \in Nat
    BY <1>1, <2>3 DEF Joined
  <2>5. Len(f[t]) <= Len(f[m])
    <3>1. Len(f[t]) <= Len(f[t + k]) /\ Len(f[m]) = Len(f[t + k]) + Len(bs[m])
      BY <2>2, <2>3 DEF Joined
    <3> DEFINE x == Len(f[t])
               y == Len(f[t + k])
               z == Len(f[m])
               b == Len(bs[m])
    <3>2. x \in Nat /\ y \in Nat /\ b \in Nat /\ x <= y /\ z = y + b
      BY <2>4, <3>1
    <3> HIDE DEF x, y, z, b
    <3>3. x <= z
      BY <3>2
    <3> QED
      BY <3>3 DEF x, z
  <2>6. ASSUME NEW q \in 1..Len(f[t]) PROVE f[m][q] = f[t][q]
    <3>1. q \in 1..Len(f[t + k]) /\ f[t + k][q] = f[t][q]
      BY <2>2, <2>4
    <3> QED
      BY <2>3, <3>1 DEF Joined
  <2> QED
    BY <2>5, <2>6 DEF m
<1> HIDE DEF Stays
<1>4. \A k \in T : k + 1 \in T
  BY <1>3
<1> HIDE DEF T
<1>5. T = Nat
  BY <1>2, <1>4, InductionInSet DEF T
<1>6. ASSUME NEW m \in t..Len(bs) PROVE Stays(m)
  <2>1. m - t \in Nat /\ t + (m - t) = m /\ t + (m - t) <= Len(bs)
    BY <1>1
  <2>2. Stays(t + (m - t))
    BY <1>5, <2>1 DEF T
  <2> QED
    BY <2>1, <2>2
<1> QED
  BY <1>6 DEF Stays

(* What a block holds: its header, the token, and NULs up to the next word.*)
Bytes == CharSet \cup {"used", "size", "page", NUL}

LEMMA WordIs ==
  ASSUME NEW x \in Bytes
  PROVE  /\ Word(x) \in Seq(Bytes) /\ Len(Word(x)) = WORDSIZE
         /\ Word(x)[1] = x /\ Word(x)[2] = NUL
<1> DEFINE rest == [y \in 1..(WORDSIZE - 1) |-> NUL]
           m == WORDSIZE - 1
<1>1. m \in Nat /\ m >= 1 /\ WORDSIZE = m + 1 /\ NUL \in Bytes
  BY SystemAssumption DEF Bytes
<1>2. rest \in [1..m -> Bytes] /\ rest[1] = NUL
  BY <1>1
<1>3. Word(x) = <<x>> \o rest
  BY DEF Word
<1> HIDE DEF rest, m
<1>4. rest \in Seq(Bytes) /\ DOMAIN rest = 1..m
  BY <1>1, <1>2
<1>5. Len(rest) = m
  BY <1>1, <1>4, LenProperties
<1> QED
  BY <1>1, <1>2, <1>3, <1>4, <1>5, ConcatProperties

LEMMA HeaderIs ==
  /\ BlockHeader \in Seq(Bytes) /\ Len(BlockHeader) \in Nat /\ Len(BlockHeader) >= 2
  /\ BlockHeader[1] = BLOCK_TYPE_USED /\ BlockHeader[2] = NUL
<1> DEFINE u == BLOCK_TYPE_USED
           v == "size"
           w == "page"
<1>1. u \in Bytes /\ v \in Bytes /\ w \in Bytes
  BY DEF Bytes, BLOCK_TYPE_USED
<1>2. BlockHeader = (Word(u) \o Word(v)) \o Word(w)
  BY DEF BlockHeader
<1> HIDE DEF u, v, w
<1> DEFINE a == Word(u)
           b == Word(v)
           c == Word(w)
<1>3. /\ a \in Seq(Bytes) /\ b \in Seq(Bytes) /\ c \in Seq(Bytes)
      /\ Len(a) = WORDSIZE /\ Len(b) = WORDSIZE /\ Len(c) = WORDSIZE
      /\ a[1] = u /\ a[2] = NUL
  BY <1>1, WordIs
<1>4. WORDSIZE \in Nat /\ WORDSIZE >= 2
  BY SystemAssumption
<1> HIDE DEF a, b, c
<1> DEFINE d == a \o b
           e == d \o c
<1>5. d \in Seq(Bytes) /\ Joined(d, a, b)
  BY <1>3, JoinedAre
<1> HIDE DEF d
<1>6. e \in Seq(Bytes) /\ Joined(e, d, c)
  BY <1>3, <1>5, JoinedAre
<1> HIDE DEF e
<1>7. Len(d) = WORDSIZE + WORDSIZE /\ d[1] = u /\ d[2] = NUL
  BY <1>3, <1>4, <1>5 DEF Joined
<1>8. Len(e) \in Nat /\ Len(e) >= 2 /\ e[1] = u /\ e[2] = NUL
  BY <1>3, <1>4, <1>6, <1>7 DEF Joined
<1> QED
  BY <1>2, <1>6, <1>8 DEF a, b, c, d, e, u

LEMMA FillIs ==
  ASSUME fresh, NEW n \in Nat
  PROVE  /\ Fill(n) \in Seq(Bytes) /\ Len(Fill(n)) = n
         /\ \A k \in 1..n : Fill(n)[k] = NUL
<1> DEFINE r == [x \in 1..n |-> NUL]
<1>1. Fill(n) = r
  BY DEF Fill, Filler
<1>2. r \in [1..n -> Bytes] /\ \A k \in 1..n : r[k] = NUL
  BY DEF Bytes
<1> HIDE DEF r
<1>3. r \in Seq(Bytes) /\ DOMAIN r = 1..n
  BY <1>2
<1>4. Len(r) = n
  BY <1>3, LenProperties
<1> QED
  BY <1>1, <1>2, <1>3, <1>4

(* A token that fills its words is followed by nothing. *)
LEMMA PaddingIs ==
  ASSUME NEW s \in Seq(CharSet)
  PROVE  Padding(s) \in Nat /\ (Padding(s) = 0 <=> Len(s) % WORDSIZE = 0)
<1>1. WORDSIZE \in Nat /\ WORDSIZE > 0 /\ Len(s) \in Nat
  BY SystemAssumption
<1> DEFINE q == Len(s) % WORDSIZE
<1>2. q \in 0..(WORDSIZE - 1)
  BY <1>1
<1>3. CASE q = 0
  <2>1. WORDSIZE % WORDSIZE = 0
    BY <1>1
  <2> QED
    BY <1>1, <1>3, <2>1 DEF Padding
<1>4. CASE q # 0
  <2>1. \A x \in 1..(WORDSIZE - 1) : x % WORDSIZE = x
    BY <1>1
  <2>2. WORDSIZE - q \in 1..(WORDSIZE - 1)
    BY <1>1, <1>2, <1>4
  <2>3. Padding(s) = WORDSIZE - q
    BY <2>1, <2>2 DEF Padding
  <2> QED
    BY <1>4, <2>2, <2>3
<1> QED
  BY <1>3, <1>4

LEMMA BlockIs ==
  ASSUME fresh, NEW s \in Seq(CharSet)
  PROVE  LET h == Len(BlockHeader)
             b == BlockOf(s)
         IN /\ b \in Seq(Bytes) /\ Len(b) = h + Len(s) + Padding(s)
            /\ b[1] = BLOCK_TYPE_USED /\ b[2] = NUL
            /\ \A k \in 1..Len(s) : b[h + k] = s[k]
            /\ Padding(s) # 0 => b[h + Len(s) + 1] = NUL
<1> DEFINE h == Len(BlockHeader)
           g == BlockHeader
           w == Fill(Padding(s))
<1>1. /\ g \in Seq(Bytes) /\ h \in Nat /\ h >= 2 /\ h = Len(g)
      /\ g[1] = BLOCK_TYPE_USED /\ g[2] = NUL
  BY HeaderIs
<1>2. Padding(s) \in Nat
  BY PaddingIs
<1>3. /\ w \in Seq(Bytes) /\ Len(w) = Padding(s)
      /\ Padding(s) # 0 => w[1] = NUL
  BY <1>2, FillIs
<1>4. s \in Seq(Bytes) /\ Len(s) \in Nat
  BY DEF Bytes
<1>5. BlockOf(s) = (g \o s) \o w
  BY DEF BlockOf
<1> HIDE DEF h, g, w
<1> DEFINE c == g \o s
           d == c \o w
<1>6. c \in Seq(Bytes) /\ Joined(c, g, s)
  BY <1>1, <1>4, JoinedAre
<1> HIDE DEF c
<1>7. d \in Seq(Bytes) /\ Joined(d, c, w)
  BY <1>3, <1>6, JoinedAre
<1> HIDE DEF d
<1>8. BlockOf(s) = d
  BY <1>5 DEF c, d
<1>9. Len(c) = h + Len(s) /\ Len(d) = h + Len(s) + Padding(s)
  BY <1>1, <1>3, <1>6, <1>7 DEF Joined
<1>10. ASSUME NEW k \in 1..Len(s) PROVE d[h + k] = s[k]
  <2>1. h + k \in 1..Len(c)
    BY <1>1, <1>4, <1>9
  <2>2. d[h + k] = c[h + k]
    BY <1>7, <2>1 DEF Joined
  <2>3. c[h + k] = s[k]
    BY <1>1, <1>6 DEF Joined
  <2> QED
    BY <2>2, <2>3
<1>11. d[1] = BLOCK_TYPE_USED /\ d[2] = NUL
  <2>1. 1 \in 1..Len(c) /\ 2 \in 1..Len(c) /\ 1 \in 1..h /\ 2 \in 1..h
    BY <1>1, <1>4, <1>9
  <2> QED
    BY <1>1, <1>6, <1>7, <2>1 DEF Joined
<1>12. Padding(s) # 0 => d[h + Len(s) + 1] = NUL
  <2>1. Padding(s) # 0 => 1 \in 1..Len(w)
    BY <1>2, <1>3
  <2> QED
    BY <1>3, <1>7, <1>9, <2>1 DEF Joined
<1> QED
  BY <1>7, <1>8, <1>9, <1>10, <1>11, <1>12 DEF h

(* The string at an address ends at the first NUL. *)
StringIn(mem, p) ==
  LET end == CHOOSE e \in p..(Len(mem) + 1) :
               /\ e = Len(mem) + 1 \/ mem[e] = NUL
               /\ \A x \in p..(e - 1) : mem[x] # NUL
  IN SubSeq(mem, p, end - 1)

LEMMA StringIs ==
  ASSUME NEW mem \in Seq(Bytes), NEW p \in 1..Len(mem), NEW e \in p..Len(mem),
         mem[e] = NUL, \A x \in p..(e - 1) : mem[x] # NUL
  PROVE  StringIn(mem, p) = SubSeq(mem, p, e - 1)
<1> DEFINE End(x) == /\ x = Len(mem) + 1 \/ mem[x] = NUL
                     /\ \A y \in p..(x - 1) : mem[y] # NUL
           end == CHOOSE x \in p..(Len(mem) + 1) : End(x)
<1>1. Len(mem) \in Nat /\ p \in Nat /\ e \in Nat
  OBVIOUS
<1>2. e \in p..(Len(mem) + 1) /\ End(e)
  BY <1>1
<1>3. end \in p..(Len(mem) + 1) /\ End(end)
  BY <1>2
<1>4. StringIn(mem, p) = SubSeq(mem, p, end - 1)
  BY DEF StringIn
<1> HIDE DEF end
<1>5. end = e
  <2>1. CASE end < e
    <3>1. end \in p..(e - 1) /\ end # Len(mem) + 1
      BY <1>1, <1>3, <2>1
    <3> QED
      BY <1>2, <1>3, <3>1
  <2>2. CASE e < end
    <3>1. e \in p..(end - 1)
      BY <1>1, <1>3, <2>2
    <3> QED
      BY <1>2, <1>3, <3>1
  <2> QED
    BY <1>1, <1>3, <2>1, <2>2
<1> QED
  BY <1>4, <1>5

LEMMA PartIs ==
  ASSUME NEW mem \in Seq(Bytes), NEW p \in 1..Len(mem), NEW s \in Seq(Bytes),
         p + Len(s) <= Len(mem) + 1,
         \A k \in 1..Len(s) : mem[p + k - 1] = s[k]
  PROVE  SubSeq(mem, p, p + Len(s) - 1) = s
<1> DEFINE r == SubSeq(mem, p, p + Len(s) - 1)
<1>1. Len(mem) \in Nat /\ Len(s) \in Nat /\ p \in Nat
  OBVIOUS
<1>2. p + Len(s) - 1 \in (p - 1)..Len(mem)
  BY <1>1
<1>3. /\ r \in Seq(Bytes) /\ Len(r) = Len(s)
      /\ \A k \in 1..Len(s) : r[k] = mem[p + k - 1]
  <2>1. /\ r \in Seq(Bytes)
        /\ Len(r) = IF p <= p + Len(s) - 1 THEN p + Len(s) - 1 - p + 1 ELSE 0
        /\ \A k \in 1..(p + Len(s) - 1 - p + 1) : r[k] = mem[p + k - 1]
    BY <1>1, <1>2, SubSeqProperties
  <2> QED
    BY <1>1, <2>1
<1> HIDE DEF r
<1> QED
  BY <1>3, SeqEqual DEF r

(* mem holds b behind its first characters, at of them. *)
PartAt(mem, at, b) ==
  /\ at \in Nat /\ Len(b) \in Nat /\ at + Len(b) <= Len(mem)
  /\ \A k \in 1..Len(b) : mem[at + k] = b[k]

LiesIn(f, bs, u) ==
  /\ PartAt(f[Len(bs)], Len(f[u - 1]), bs[u])
  /\ Len(f[u]) = Len(f[u - 1]) + Len(bs[u])

LEMMA JoinsParts ==
  ASSUME NEW S, NEW bs, NEW f, Joins(f, bs, S), NEW u \in 1..Len(bs)
  PROVE  LiesIn(f, bs, u)
<1> DEFINE n == Len(bs)
           x == f[u - 1]
           y == f[u]
           z == f[n]
           b == bs[u]
<1>1. n \in Nat /\ u \in 1..n /\ u - 1 \in 0..n /\ u \in 0..n /\ n \in u..n
  BY DEF Joins
<1>2. x \in Seq(S) /\ y \in Seq(S) /\ z \in Seq(S) /\ b \in Seq(S) /\ y = x \o b
  BY <1>1 DEF Joins
<1>3. Len(y) <= Len(z) /\ \A q \in 1..Len(y) : z[q] = y[q]
  BY <1>1, JoinsGrow
<1> HIDE DEF x, y, z, b, n
<1>4. Joined(y, x, b) /\ Len(z) \in Nat
  BY <1>2, JoinedAre
<1>5. ASSUME NEW k \in 1..Len(b) PROVE z[Len(x) + k] = b[k]
  <2>1. Len(x) + k \in 1..Len(y)
    BY <1>4 DEF Joined
  <2> QED
    BY <1>3, <1>4, <2>1 DEF Joined
<1>6. PartAt(z, Len(x), b) /\ Len(y) = Len(x) + Len(b)
  BY <1>3, <1>4, <1>5 DEF PartAt, Joined
<1> QED
  BY <1>6 DEF x, y, z, b, n, LiesIn

(* Where the blocks of the tokens ts are, when they lie one behind the     *)
(* other in memory that nobody has written.                                *)
BlocksOf(ts, m) == FlattenSeq([u \in 1..m |-> BlockOf(ts[u])])
MemoryOf(ts) == BlocksOf(ts, Len(ts)) \o Fill(1)
Start(ts, u) == Len(BlocksOf(ts, u - 1))

LEMMA BlocksLie ==
  ASSUME fresh, NEW ts \in Seq(Seq(CharSet))
  PROVE  /\ \A u \in 1..Len(ts) :
              /\ PartAt(MemoryOf(ts), Start(ts, u), BlockOf(ts[u]))
              /\ Len(BlocksOf(ts, u)) = Start(ts, u) + Len(BlockOf(ts[u]))
              /\ Len(BlocksOf(ts, u)) <= Len(BlocksOf(ts, Len(ts)))
         /\ MemoryOf(ts) \in Seq(Bytes) /\ Len(BlocksOf(ts, Len(ts))) \in Nat
         /\ Len(MemoryOf(ts)) = Len(BlocksOf(ts, Len(ts))) + 1
         /\ MemoryOf(ts)[Len(BlocksOf(ts, Len(ts))) + 1] = NUL
<1> DEFINE n == Len(ts)
           bs == [u \in 1..n |-> BlockOf(ts[u])]
<1>1. n \in Nat /\ \A u \in 1..n : ts[u] \in Seq(CharSet)
  OBVIOUS
<1>2. \A u \in 1..n : BlockOf(ts[u]) \in Seq(Bytes)
  BY <1>1, BlockIs
<1>3. bs \in [1..n -> Seq(Bytes)] /\ \A u \in 1..n : bs[u] = BlockOf(ts[u])
  BY <1>2
<1> HIDE DEF n, bs
<1>4. bs \in Seq(Seq(Bytes)) /\ DOMAIN bs = 1..n
  BY <1>1, <1>3
<1>5. Len(bs) = n
  BY <1>1, <1>4, LenProperties
<1>6. PICK f : Joins(f, bs, Bytes)
  BY <1>4, JoinsExists
<1>7. ASSUME NEW m \in 0..n PROVE BlocksOf(ts, m) = f[m]
  <2>1. [u \in 1..m |-> bs[u]] = [u \in 1..m |-> BlockOf(ts[u])]
    BY <1>1, <1>3
  <2>2. m \in 0..Len(bs)
    BY <1>5
  <2>3. FlattenSeq([u \in 1..m |-> bs[u]]) = f[m]
    BY <1>6, <2>2, FlattenIs
  <2> QED
    BY <2>1, <2>3 DEF BlocksOf
<1> DEFINE all == BlocksOf(ts, n)
           mem == all \o Fill(1)
<1>8. all \in Seq(Bytes) /\ all = f[n]
  <2>1. n \in 0..n /\ n \in 0..Len(bs)
    BY <1>1, <1>5
  <2>2. f[n] \in Seq(Bytes)
    BY <1>6, <2>1 DEF Joins
  <2> QED
    BY <1>7, <2>1, <2>2
<1> HIDE DEF all
<1>9. Fill(1) \in Seq(Bytes) /\ Len(Fill(1)) = 1 /\ Fill(1)[1] = NUL
  <2>1. 1 \in Nat /\ 1 \in 1..1
    OBVIOUS
  <2> QED
    BY <2>1, FillIs
<1>10. mem \in Seq(Bytes) /\ Joined(mem, all, Fill(1))
  BY <1>8, <1>9, JoinedAre
<1> HIDE DEF mem
<1>11. Len(all) \in Nat /\ Len(mem) = Len(all) + 1 /\ mem[Len(all) + 1] = NUL
  <2>1. 1 \in 1..Len(Fill(1))
    BY <1>9
  <2> QED
    BY <1>9, <1>10, <2>1 DEF Joined
<1>12. ASSUME NEW u \in 1..n
       PROVE  /\ PartAt(mem, Start(ts, u), BlockOf(ts[u]))
              /\ Len(BlocksOf(ts, u)) = Start(ts, u) + Len(BlockOf(ts[u]))
              /\ Len(BlocksOf(ts, u)) <= Len(all)
  <2> DEFINE at == Start(ts, u)
             b == BlockOf(ts[u])
  <2>1. u \in 1..Len(bs) /\ u - 1 \in 0..n /\ u \in 0..n
    BY <1>1, <1>5
  <2>2. at = Len(f[u - 1]) /\ BlocksOf(ts, u) = f[u] /\ b = bs[u]
    BY <1>3, <1>7, <2>1 DEF Start
  <2>3. LiesIn(f, bs, u)
    BY <1>6, <2>1, JoinsParts
  <2>4. PartAt(all, at, b) /\ Len(BlocksOf(ts, u)) = at + Len(b)
    BY <1>5, <1>8, <2>2, <2>3 DEF LiesIn
  <2> HIDE DEF at, b
  <2>5. ASSUME NEW k \in 1..Len(b) PROVE mem[at + k] = b[k]
    <3>1. at + k \in 1..Len(all) /\ all[at + k] = b[k]
      BY <1>11, <2>4 DEF PartAt
    <3> QED
      BY <1>10, <3>1 DEF Joined
  <2>6. PartAt(mem, at, b)
    BY <1>11, <2>4, <2>5 DEF PartAt
  <2>7. Len(BlocksOf(ts, u)) <= Len(all)
    BY <2>4 DEF PartAt
  <2> QED
    BY <2>4, <2>6, <2>7 DEF at, b
<1> QED
  BY <1>10, <1>11, <1>12 DEF mem, all, n, MemoryOf

(* The string at the start of token t in this memory: the token, and the   *)
(* type of the next block if the token fills its words and there is one.   *)
LEMMA ReadToken ==
  ASSUME fresh, NEW ts \in Seq(Seq(CharSet)), NEW t \in 1..Len(ts)
  PROVE  StringIn(MemoryOf(ts), Start(ts, t) + Len(BlockHeader) + 1)
           = IF Len(ts[t]) % WORDSIZE = 0 /\ t < Len(ts)
             THEN Append(ts[t], BLOCK_TYPE_USED) ELSE ts[t]
<1> DEFINE n == Len(ts)
           mem == MemoryOf(ts)
           base == Start(ts, t)
           h == Len(BlockHeader)
           b == BlockOf(ts[t])
           s == ts[t]
           last == Len(BlocksOf(ts, n))
           p == base + h + 1
<1>1. n \in Nat /\ t \in 1..n /\ s \in Seq(CharSet) /\ h \in Nat /\ h >= 2
  BY HeaderIs
<1>2. /\ PartAt(mem, base, b) /\ Len(BlocksOf(ts, t)) = base + Len(b)
      /\ Len(BlocksOf(ts, t)) <= last
      /\ mem \in Seq(Bytes) /\ last \in Nat /\ Len(mem) = last + 1
      /\ mem[last + 1] = NUL
  BY BlocksLie
<1>3. /\ Len(b) = h + Len(s) + Padding(s)
      /\ \A k \in 1..Len(s) : b[h + k] = s[k]
      /\ Padding(s) # 0 => b[h + Len(s) + 1] = NUL
  BY <1>1, BlockIs
<1>4. /\ Padding(s) \in Nat /\ (Padding(s) = 0 <=> Len(s) % WORDSIZE = 0)
      /\ Len(s) \in Nat /\ s \in Seq(Bytes)
  BY <1>1, PaddingIs DEF Bytes
<1>5. \A k \in 1..Len(s) : s[k] # NUL
  <2> SUFFICES ASSUME NEW k \in 1..Len(s) PROVE s[k] # NUL
    OBVIOUS
  <2>1. s[k] \in CharSet
    BY <1>1
  <2> HIDE DEF s
  <2> QED
    BY <2>1, StringsAssumption DEF CharSet
<1> HIDE DEF n, mem, base, h, b, s, last
<1>6. /\ base \in Nat /\ base + Len(b) <= last
      /\ \A k \in 1..Len(b) : mem[base + k] = b[k]
  BY <1>2 DEF PartAt
<1>7. p \in 1..Len(mem) /\ p + Len(s) <= last + 1
  BY SMTT(30), <1>1, <1>2, <1>3, <1>4, <1>6
(* a string that the memory holds from there on, and a NUL behind it *)
<1>8. ASSUME NEW r \in Seq(Bytes), p + Len(r) <= Len(mem), mem[p + Len(r)] = NUL,
             \A k \in 1..Len(r) : mem[p + k - 1] = r[k] /\ r[k] # NUL
      PROVE  StringIn(mem, p) = r
  <2>1. Len(r) \in Nat /\ p \in Nat
    BY <1>7
  <2>2. p + Len(r) \in p..Len(mem) /\ p + Len(r) <= Len(mem) + 1
    BY <1>2, <1>8, <2>1
  <2>3. ASSUME NEW x \in p..((p + Len(r)) - 1) PROVE mem[x] # NUL
    <3>1. x - p + 1 \in 1..Len(r) /\ p + (x - p + 1) - 1 = x
      BY <2>1
    <3> HIDE DEF p
    <3> QED
      BY <1>8, <3>1
  <2> HIDE DEF p
  <2> DEFINE e == p + Len(r)
  <2>4. StringIn(mem, p) = SubSeq(mem, p, e - 1)
    BY <1>2, <1>7, <1>8, <2>2, <2>3, StringIs
  <2>5. SubSeq(mem, p, e - 1) = r
    BY <1>2, <1>7, <1>8, <2>2, PartIs
  <2> HIDE DEF e
  <2>6. StringIn(mem, p) = r
    BY <2>4, <2>5
  <2> QED
    BY <2>6 DEF p
<1>9. ASSUME NEW k \in 1..Len(s) PROVE mem[p + k - 1] = s[k]
  <2>1. h + k \in 1..Len(b) /\ base + (h + k) = p + k - 1
    BY <1>1, <1>3, <1>4, <1>6
  <2>2. mem[base + (h + k)] = b[h + k]
    BY <1>6, <2>1
  <2> QED
    BY <1>3, <2>1, <2>2
<1>10. CASE Padding(s) # 0
  <2>1. /\ h + Len(s) + 1 \in 1..Len(b) /\ base + (h + Len(s) + 1) = p + Len(s)
        /\ p + Len(s) <= Len(mem)
    BY SMTT(30), <1>1, <1>2, <1>3, <1>4, <1>6, <1>10
  <2>2. mem[p + Len(s)] = NUL
    BY <1>3, <1>6, <1>10, <2>1
  <2>3. StringIn(mem, p) = s
    BY <1>4, <1>5, <1>8, <1>9, <2>1, <2>2
  <2> QED
    BY <1>4, <1>10, <2>3 DEF mem, base, h, s, n
<1>11. CASE Padding(s) = 0 /\ t = n
  <2>1. last = base + Len(b)
    BY <1>2, <1>11 DEF last
  <2>2. last + 1 = p + Len(s) /\ p + Len(s) <= Len(mem)
    BY <1>1, <1>2, <1>3, <1>4, <1>6, <1>11, <2>1
  <2>3. StringIn(mem, p) = s
    BY <1>2, <1>4, <1>5, <1>8, <1>9, <2>2
  <2>4. ~(t < n)
    BY <1>1, <1>11
  <2> QED
    BY <2>3, <2>4 DEF mem, base, h, s, n
<1>12. CASE Padding(s) = 0 /\ t # n
  <2> DEFINE base2 == Start(ts, t + 1)
             b2 == BlockOf(ts[t + 1])
             r == Append(s, BLOCK_TYPE_USED)
  <2>1. t + 1 \in 1..n /\ (t + 1) - 1 = t /\ t < n
    BY <1>1, <1>12
  <2>2. PartAt(mem, base2, b2) /\ base2 = base + Len(b)
    <3>1. base2 = Len(BlocksOf(ts, t))
      BY <2>1 DEF Start
    <3> QED
      BY <1>2, <2>1, <3>1, BlocksLie DEF mem, n
  <2>3. Len(b2) \in Nat /\ Len(b2) >= 2 /\ b2[1] = BLOCK_TYPE_USED /\ b2[2] = NUL
    <3> DEFINE s2 == ts[t + 1]
    <3>1. s2 \in Seq(CharSet)
      BY <2>1 DEF n
    <3>2. b2 = BlockOf(s2)
      OBVIOUS
    <3> HIDE DEF s2, b2
    <3>3. Padding(s2) \in Nat /\ Len(s2) \in Nat
      BY <3>1, PaddingIs
    <3>4. /\ Len(b2) = h + Len(s2) + Padding(s2)
          /\ b2[1] = BLOCK_TYPE_USED /\ b2[2] = NUL
      BY <3>1, <3>2, BlockIs DEF h
    <3> QED
      BY <1>1, <3>3, <3>4
  <2> HIDE DEF base2, b2
  <2>4. /\ mem[base2 + 1] = BLOCK_TYPE_USED /\ mem[base2 + 2] = NUL
        /\ base2 + 2 <= Len(mem)
    <3>1. 1 \in 1..Len(b2) /\ 2 \in 1..Len(b2)
      BY <2>3
    <3> QED
      BY SMTT(30), <1>2, <2>2, <2>3, <3>1 DEF PartAt
  <2>5. base2 + 1 = p + Len(s) /\ base2 + 2 = p + Len(s) + 1
    BY <1>1, <1>3, <1>4, <1>6, <1>12, <2>2
  <2>6. BLOCK_TYPE_USED \in Bytes /\ BLOCK_TYPE_USED # NUL
    BY DEF Bytes, BLOCK_TYPE_USED, NUL
  <2>7. r \in Seq(Bytes) /\ Len(r) = Len(s) + 1 /\ r[Len(s) + 1] = BLOCK_TYPE_USED
        /\ \A k \in 1..Len(s) : r[k] = s[k]
    BY <1>4, <2>6
  <2> HIDE DEF r
  <2>8. ASSUME NEW k \in 1..Len(r) PROVE mem[p + k - 1] = r[k] /\ r[k] # NUL
    <3>1. CASE k \in 1..Len(s)
      BY <1>5, <1>9, <2>7, <3>1
    <3>2. CASE k \notin 1..Len(s)
      <4>0. k \in 1..(Len(s) + 1)
        BY <2>7
      <4>1. k = Len(s) + 1
        BY <1>4, <3>2, <4>0
      <4>2. p \in Nat
        BY <1>1, <1>6
      <4> HIDE DEF p
      <4>3. p + k - 1 = base2 + 1
        BY <1>4, <2>5, <4>1, <4>2
      <4> QED
        BY <2>4, <2>6, <2>7, <4>1, <4>3
    <3> QED
      BY <3>1, <3>2
  <2>9. p + Len(r) = base2 + 2
    BY <1>4, <1>7, <2>5, <2>7
  <2>10. StringIn(mem, p) = r
    BY <1>8, <2>4, <2>7, <2>8, <2>9
  <2> QED
    BY <1>4, <1>12, <2>1, <2>10 DEF mem, base, h, s, n, r
<1> QED
  BY <1>10, <1>11, <1>12

(* Each number below that of the tokens is the number before one of them.  *)
LEMMA TokenAtPlace ==
  ASSUME NEW s \in Seq(CharSet)
  PROVE  \A k \in 0..(Cardinality(Bounds(s)) - 1) :
           \E x \in Bounds(s) : Before(s, x) = k
<1> DEFINE Card(p) == Cardinality(EndsBefore(s, p))
           Found(p) == \A k \in Nat : k < Card(p) =>
                         \E x \in Bounds(s) : Before(s, x) = k
           T == {p \in Nat : p <= Len(s) + 1 => Found(p)}
<1>1. Len(s) \in Nat /\ \A p \in Nat : Card(p) \in Nat
  BY BoundsFinite DEF EndsBefore
<1>2. 0 \in T
  <2>1. Card(0) = 0
    BY EndsBeforeNone, FS_EmptySet
  <2> QED
    BY <2>1
<1>3. ASSUME NEW p \in T, p + 1 <= Len(s) + 1 PROVE Found(p + 1)
  <2>0. p \in Nat /\ p <= Len(s) /\ p <= Len(s) + 1
    BY <1>1, <1>3
  <2>1. p \in Nat /\ p <= Len(s) /\ Found(p) /\ Card(p) \in Nat
    BY <1>1, <2>0
  <2>2. CASE p \in 1..Len(s) /\ s[p] # Sep /\ (p = Len(s) \/ s[p + 1] = Sep)
    <3>1. \E x \in Bounds(s) : Card(p + 1) = Card(p) + 1 /\ Before(s, x) = Card(p)
      BY <2>2, EndsBeforeGrows
    <3> HIDE DEF Card
    <3> QED
      BY <2>1, <3>1
  <2>3. CASE p < Len(s) /\ (s[p + 1] # Sep \/ p = 0 \/ s[p] = Sep)
    <3>1. p \in 0..(Len(s) - 1)
      BY <1>1, <2>1, <2>3
    <3>2. EndsBefore(s, p + 1) = EndsBefore(s, p)
      BY <2>3, <3>1, EndsBeforeStays
    <3> QED
      BY <2>1, <3>2
  <2>4. CASE p = Len(s) /\ (p = 0 \/ s[p] = Sep)
    <3>1. EndsBefore(s, p + 1) = EndsBefore(s, p)
      <4>1. ASSUME NEW x \in Bounds(s), x[2] = p PROVE FALSE
        BY <2>4, <4>1, BoundsAre
      <4> QED
        BY <1>1, <2>1, <4>1, BoundsAre DEF EndsBefore
    <3> QED
      BY <2>1, <3>1
  <2>5. p = 0 \/ p \in 1..Len(s)
    BY <1>1, <2>1
  <2>6. p < Len(s) \/ p = Len(s)
    BY <1>1, <2>1
  <2> HIDE DEF Found
  <2> QED
    BY <2>2, <2>3, <2>4, <2>5, <2>6
<1>4. \A p \in T : p + 1 \in T
  BY <1>3
<1> HIDE DEF T
<1>5. T = Nat
  BY <1>2, <1>4, InductionInSet DEF T
<1> HIDE DEF Found
<1>6. Found(Len(s) + 1)
  <2>1. Len(s) + 1 \in T /\ Len(s) + 1 <= Len(s) + 1
    BY <1>1, <1>5
  <2> QED
    BY <2>1 DEF T
<1>7. Card(Len(s) + 1) = Cardinality(Bounds(s))
  BY EndsBeforeNone
<1> HIDE DEF Card
<1>8. Cardinality(Bounds(s)) \in Nat
  BY BoundsFinite
<1> QED
  BY <1>6, <1>7, <1>8 DEF Found

(* splitstr's result is the tokens of its argument, by their positions.    *)
LEMMA MadeIsTokens ==
  ASSUME Type, SplitInv, pc = "done", str # <<>>, retval # NoArray
  PROVE  /\ Made = Tokens(str) /\ Made \in Seq(Seq(CharSet))
         /\ Len(Made) = Cardinality(Bounds(str))
<1> DEFINE n == Cardinality(Bounds(str))
<1>1. /\ str \in Seq(CharSet) /\ num_of_tokens = n /\ n \in Nat
      /\ StoredIn(retval, str, Bounds(str))
      /\ FilledIn(retval, num_of_tokens, num_of_tokens, Mark)
  <2>1. str \in Seq(CharSet) /\ Kept(retval, Len(str) + 1)
    BY DEF Type, SplitInv
  <2>2. EndsBefore(str, Len(str) + 1) = Bounds(str)
    BY <2>1, EndsBeforeNone
  <2> QED
    BY <2>1, <2>2, BoundsFinite DEF SplitInv, Kept
<1>2. {u \in DOMAIN retval : retval[u] \notin {Unset, Null}} = 0..(n - 1)
  BY <1>1 DEF FilledIn, Slots, Mark
<1>3. Cardinality(0..(n - 1)) = n
  BY <1>1, FS_Interval
<1>4. Made = [t \in 1..n |-> retval[t - 1]]
  BY <1>2, <1>3 DEF Made
<1> HIDE DEF n
<1> DEFINE At(t) == CHOOSE x \in Bounds(str) : Before(str, x) = t - 1
<1>5. ASSUME NEW t \in 1..n
      PROVE  /\ At(t) \in Bounds(str)
             /\ retval[t - 1] = SubSeq(str, At(t)[1], At(t)[2])
             /\ retval[t - 1] \in Seq(CharSet)
  <2>1. t - 1 \in 0..(n - 1)
    BY <1>1
  <2>2. \E x \in Bounds(str) : Before(str, x) = t - 1
    BY <1>1, <2>1, TokenAtPlace DEF n
  <2>3. At(t) \in Bounds(str) /\ Before(str, At(t)) = t - 1
    BY <2>2
  <2> HIDE DEF At
  <2>4. retval[t - 1] = SubSeq(str, At(t)[1], At(t)[2])
    BY <1>1, <2>3 DEF StoredIn
  <2>5. At(t)[1] \in 1..Len(str) /\ At(t)[2] \in 1..Len(str)
    BY <1>1, <2>3, BoundsAre
  <2>6. SubSeq(str, At(t)[1], At(t)[2]) \in Seq(CharSet)
    BY <1>1, <2>5, SubSeqProperties
  <2> QED
    BY <2>3, <2>4, <2>6
<1>6. Tokens(str) = [t \in 1..n |-> SubSeq(str, At(t)[1], At(t)[2])]
  BY DEF Tokens, n
<1> HIDE DEF At
<1>7. Made = Tokens(str)
  BY <1>4, <1>5, <1>6
<1>8. Made \in [1..n -> Seq(CharSet)]
  BY <1>4, <1>5
<1>9. Made \in Seq(Seq(CharSet)) /\ DOMAIN Made = 1..n
  BY <1>1, <1>8
<1>10. Len(Made) = n
  BY <1>1, <1>9, LenProperties
<1> QED
  BY <1>7, <1>9, <1>10 DEF n

(* In memory that was never used the vector ends where its tokens do, and  *)
(* each argument is its token, with at the most the first byte of the next *)
(* block's header behind it: none runs into another.                       *)
THEOREM ArgvReads == SysSpec => []ArgumentsApart
<1>1. SInv => ArgumentsApart
  <2> SUFFICES ASSUME SInv, pc = "done", fresh, str # <<>>, retval # NoArray
               PROVE  /\ Ended
                      /\ Len(argv) = Len(Tokens(str))
                      /\ \A t \in 1..Len(argv) :
                           argv[t] \in {Tokens(str)[t],
                                       Append(Tokens(str)[t], BLOCK_TYPE_USED)}
    BY DEF ArgumentsApart
  <2> DEFINE n == Cardinality(Bounds(str))
  <2>1. Type /\ SplitInv
    BY DEF SInv
  <2>2. Made = Tokens(str) /\ Made \in Seq(Seq(CharSet)) /\ Len(Made) = n
    BY <2>1, MadeIsTokens
  <2>3. n \in Nat
    BY <2>1, BoundsFinite DEF Type
  <2>4. Ended
    BY <2>1 DEF SplitInv, Sized, Ended, Mark
  <2> HIDE DEF n
  <2>5. ASSUME NEW t \in 1..n
        PROVE  StringAt(Pointer(t)) \in {Made[t], Append(Made[t], BLOCK_TYPE_USED)}
    <3>1. Blocks \o Fill(1) = MemoryOf(Made)
      BY DEF Blocks, BlocksOf, MemoryOf
    <3>2. Pointer(t) = Start(Made, t) + Len(BlockHeader) + 1
      BY DEF Pointer, BlocksOf, Start
    <3>3. StringAt(Pointer(t)) = StringIn(Blocks \o Fill(1), Pointer(t))
      BY DEF StringAt, StringIn
    <3> QED
      BY <2>2, <3>1, <3>2, <3>3, ReadToken
  <2>6. argv = [t \in 1..n |-> StringAt(Pointer(t))]
    BY <2>2 DEF argv
  <2>7. Len(argv) = n
    BY <2>3, <2>6
  <2> QED
    BY <2>2, <2>4, <2>5, <2>6, <2>7
<1> QED
  BY <1>1, SystemInvariant, PTL
=============================================================================
