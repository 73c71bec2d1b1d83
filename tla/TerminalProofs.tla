--------------------------- MODULE TerminalProofs ---------------------------
(***************************************************************************)
(* The properties of module Terminal that hold for every number of         *)
(* processes, every mix of calls and every state of the terminal.          *)
(***************************************************************************)
EXTENDS Terminal, TLAPS

LEMMA Masks == \A f \in Calls : mask(f) \subseteq {ICANON, ECHO}
  BY DEF mask

(* Every variable keeps its type; in particular no call changes a flag     *)
(* other than ICANON and ECHO.                                             *)
THEOREM TypeCorrect == Spec => []TypeOK
<1>1. Init => TypeOK
  <2> SUFFICES ASSUME Init PROVE TypeOK
    OBVIOUS
  <2>1. c_lflag \in SUBSET {ICANON, ECHO} /\ start \in StartFlags
    BY TerminalAssumption DEF Init
  <2>2. termios \in [Procs -> SUBSET {ICANON, ECHO}]
    BY DEF Init
  <2> QED
    BY <2>1, <2>2 DEF Init, TypeOK
<1>2. TypeOK /\ [Next]_vars => TypeOK'
  <2> SUFFICES ASSUME TypeOK, [Next]_vars PROVE TypeOK'
    OBVIOUS
  <2>1. ASSUME NEW p \in Procs, NEW f \in Calls, Call(p, f) PROVE TypeOK'
    BY <2>1 DEF TypeOK, Call, Goto, tty
  <2>2. ASSUME NEW p \in Procs, TcGets(p) PROVE TypeOK'
    BY <2>2 DEF TypeOK, TcGets, Goto, tty
  <2>3. ASSUME NEW p \in Procs, ResetBits(p) PROVE TypeOK'
    <3>1. termios[p] \ mask(fun[p]) \in SUBSET {ICANON, ECHO}
      BY DEF TypeOK
    <3> QED
      BY <2>3, <3>1 DEF TypeOK, ResetBits, WriteFlags, Goto
  <2>4. ASSUME NEW p \in Procs, SetBits(p) PROVE TypeOK'
    <3>1. termios[p] \cup mask(fun[p]) \in SUBSET {ICANON, ECHO}
      BY Masks DEF TypeOK
    <3> QED
      BY <2>4, <3>1 DEF TypeOK, SetBits, WriteFlags, Goto
  <2>5. ASSUME NEW p \in Procs, Read(p) PROVE TypeOK'
    BY <2>5 DEF TypeOK, Read, Goto
  <2>6. ASSUME NEW p \in Procs, Die(p) PROVE TypeOK'
    BY <2>6 DEF TypeOK, Die, Goto, tty
  <2>7. CASE Key
    BY <2>7 DEF TypeOK, Key
  <2>8. CASE Enter
    BY <2>8 DEF TypeOK, Enter, Waiting
  <2>9. CASE HangUp
    BY <2>9 DEF TypeOK, HangUp
  <2>10. CASE UNCHANGED vars
    BY <2>10 DEF TypeOK, vars, tty
  <2> QED
    BY <2>1, <2>2, <2>3, <2>4, <2>5, <2>6, <2>7, <2>8, <2>9, <2>10
    DEF Next, Step
<1> QED
  BY <1>1, <1>2, PTL DEF Spec

(* A bit that is missing is one that a call in progress will set, or a     *)
(* killed process would have: it has written its reset flags and not yet   *)
(* its set ones.                                                           *)
Owing == {"read", "set_get", "set_set", "dead"}
Missing == ~(CommonBits \cap start \subseteq c_lflag)
OwedBySomeone == Missing => \E p \in Procs : pc[p] \in Owing

LEMMA CommonBitsAreMasked ==
  ASSUME NEW f \in Calls PROVE CommonBits \subseteq mask(f)
  BY DEF CommonBits

(* As long as no process is killed, the bits that all calls reset are on   *)
(* again whenever no call is in progress (getc and getc_mute of io.c).     *)
THEOREM BitsComeBack == Spec => []CommonBitsBack
<1> USE DEF Missing, OwedBySomeone
<1>1. Init => OwedBySomeone
  BY DEF Init
<1>2. TypeOK /\ OwedBySomeone /\ [Next]_vars => OwedBySomeone'
  <2> SUFFICES ASSUME TypeOK, OwedBySomeone, [Next]_vars PROVE OwedBySomeone'
    OBVIOUS
  <2>1. ASSUME NEW p \in Procs, NEW f \in Calls, Call(p, f)
        PROVE OwedBySomeone'
    BY <2>1 DEF TypeOK, Owing, Call, Goto, tty
  <2>2. ASSUME NEW p \in Procs, TcGets(p) PROVE OwedBySomeone'
    BY <2>2 DEF TypeOK, Owing, TcGets, Goto, tty
  <2>3. ASSUME NEW p \in Procs, ResetBits(p) PROVE OwedBySomeone'
    BY <2>3 DEF TypeOK, Owing, ResetBits, Goto
  <2>4. ASSUME NEW p \in Procs, SetBits(p) PROVE OwedBySomeone'
    <3>1. CommonBits \subseteq mask(fun[p])
      BY CommonBitsAreMasked DEF TypeOK
    <3>2. c_lflag' = termios[p] \cup mask(fun[p]) /\ start' = start
      BY <2>4 DEF SetBits, WriteFlags
    <3> QED
      BY <3>1, <3>2
  <2>5. ASSUME NEW p \in Procs, Read(p) PROVE OwedBySomeone'
    BY <2>5 DEF TypeOK, Owing, Read, Goto
  <2>6. ASSUME NEW p \in Procs, Die(p) PROVE OwedBySomeone'
    BY <2>6 DEF TypeOK, Owing, Die, Goto, tty
  <2>7. CASE Key \/ Enter \/ HangUp \/ UNCHANGED vars
    BY <2>7 DEF Key, Enter, HangUp, vars, tty
  <2> QED
    BY <2>1, <2>2, <2>3, <2>4, <2>5, <2>6, <2>7 DEF Next, Step
<1>3. OwedBySomeone => CommonBitsBack
  BY DEF CommonBitsBack, AllIdle, Owing
<1>4. Spec => []TypeOK
  BY TypeCorrect
<1> QED
  BY <1>1, <1>2, <1>3, <1>4, PTL DEF Spec

(* A process that is about to set its bits has been through its read.      *)
HasRead == \A p \in Procs : pc[p] \in {"set_get", "set_set"} => c[p] # "none"
KeysInv == HasRead /\ ReadsKeys

(* A process never waits for a line while all others are still before      *)
(* their first write: from termios_reset_bits to read nothing else writes  *)
(* the flags.                                                              *)
THEOREM AloneReadsKeys == Spec => []ReadsKeys
<1>1. Init => KeysInv
  BY DEF Init, KeysInv, HasRead, ReadsKeys
<1>2. TypeOK /\ KeysInv /\ [Next]_vars => KeysInv'
  <2> SUFFICES ASSUME TypeOK, KeysInv, [Next]_vars PROVE KeysInv'
    OBVIOUS
  <2> USE DEF TypeOK, KeysInv, HasRead, ReadsKeys, Untouched
  <2>1. ASSUME NEW p \in Procs, NEW f \in Calls, Call(p, f) PROVE KeysInv'
    BY <2>1 DEF Call, Goto, tty
  <2>2. ASSUME NEW p \in Procs, TcGets(p) PROVE KeysInv'
    BY <2>2 DEF TcGets, Goto, tty
  <2>3. ASSUME NEW p \in Procs, ResetBits(p) PROVE KeysInv'
    <3>1. ICANON \in mask(fun[p])
      BY DEF mask
    <3> QED
      BY <2>3, <3>1 DEF ResetBits, WriteFlags, Goto
  <2>4. ASSUME NEW p \in Procs, SetBits(p) PROVE KeysInv'
    BY <2>4 DEF SetBits, WriteFlags, Goto
  <2>5. ASSUME NEW p \in Procs, Read(p) PROVE KeysInv'
    BY <2>5 DEF Read, Goto
  <2>6. ASSUME NEW p \in Procs, Die(p) PROVE KeysInv'
    BY <2>6 DEF Die, Goto, tty
  <2>7. CASE Key \/ Enter \/ HangUp \/ UNCHANGED vars
    BY <2>7 DEF Key, Enter, HangUp, vars, tty
  <2> QED
    BY <2>1, <2>2, <2>3, <2>4, <2>5, <2>6, <2>7 DEF Next, Step
<1>3. Spec => []TypeOK
  BY TypeCorrect
<1>4. KeysInv => ReadsKeys
  BY DEF KeysInv
<1> QED
  BY <1>1, <1>2, <1>3, <1>4, PTL DEF Spec
=============================================================================
