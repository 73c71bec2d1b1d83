------------------------------ MODULE Terminal ------------------------------
(***************************************************************************)
(* getc and getc_mute of lib/src/io.c over termios_reset_bits and          *)
(* termios_set_bits of lib/src/termios.c: processes that share one         *)
(* terminal, whose flags they read (TCGETS), change and write back         *)
(* (TCSETS) in separate system calls.                                      *)
(***************************************************************************)
EXTENDS Naturals, FiniteSets

CONSTANTS
  Procs,        \* processes with the terminal as standard input
  Calls,        \* the functions they call: "getc", "getc_mute"
  StartFlags,   \* flags the terminal may have at the start
  MayDie,       \* whether a signal may kill a process
  MayEnd,       \* whether the input may come to an end
  MaxKeys       \* bound: keys typed and not read

ICANON == "ICANON"  \* lines are read, not keys
ECHO   == "ECHO"    \* keys are printed
mask_EchoOnly(f) == IF f = "getc" THEN {ICANON} ELSE {ECHO}
mask_Isig(f) == IF f = "getc" THEN {ICANON, "ISIG"} ELSE {ICANON, ECHO}
mask(f) == IF f = "getc" THEN {ICANON} ELSE {ICANON, ECHO}

ASSUME TerminalAssumption ==
  /\ Calls \subseteq {"getc", "getc_mute"}
  /\ StartFlags \subseteq SUBSET {ICANON, ECHO}
  /\ MayDie \in BOOLEAN /\ MayEnd \in BOOLEAN
  /\ MaxKeys \in Nat \ {0}

VARIABLES
  c_lflag,   \* the terminal's flags
  partial,   \* keys of a line that is not finished
  ready,     \* keys that a read can return
  ended,     \* the other side has gone: reads return nothing
  pc,        \* where each process is
  fun,       \* the function it called
  termios,   \* its copy of the flags
  c,         \* what its last call returned
  start      \* the flags at the start

tty  == <<c_lflag, partial, ready, ended>>
vars == <<tty, pc, fun, termios, c, start>>

Init ==
  /\ start \in StartFlags /\ c_lflag = start
  /\ partial = 0 /\ ready = 0 /\ ended = FALSE
  /\ pc = [p \in Procs |-> "idle"]
  /\ fun \in [Procs -> Calls]
  /\ termios = [p \in Procs |-> {}]
  /\ c = [p \in Procs |-> "none"]

Goto(p, label) == pc' = [pc EXCEPT ![p] = label]

Call(p, f) ==
  /\ pc[p] = "idle"
  /\ fun' = [fun EXCEPT ![p] = f]
  /\ Goto(p, "reset_get")
  /\ UNCHANGED <<tty, termios, c, start>>

(* ioctl(TCGETS), before the bits are reset and before they are set.  Where *)
(* standard input is no terminal it fails and so does TCSETS: that is not   *)
(* modelled, there are no flags then.                                       *)
TcGets(p) ==
  /\ \/ pc[p] = "reset_get" /\ Goto(p, "reset_set")
     \/ pc[p] = "set_get"   /\ Goto(p, "set_set")
  /\ termios' = [termios EXCEPT ![p] = c_lflag]
  /\ UNCHANGED <<tty, fun, c, start>>

(* ioctl(TCSETS).  The kernel makes everything typed so far readable when  *)
(* ICANON changes.                                                         *)
WriteFlags(new) ==
  /\ c_lflag' = new
  /\ IF (ICANON \in new) # (ICANON \in c_lflag)
       THEN ready' = ready + partial /\ partial' = 0
       ELSE UNCHANGED <<ready, partial>>

ResetBits(p) ==
  /\ pc[p] = "reset_set"
  /\ WriteFlags(termios[p] \ mask(fun[p]))
  /\ Goto(p, "read")
  /\ UNCHANGED <<ended, fun, termios, c, start>>

SetBits(p) ==
  /\ pc[p] = "set_set"
  /\ WriteFlags(termios[p] \cup mask(fun[p]))
  /\ Goto(p, "idle")
  /\ UNCHANGED <<ended, fun, termios, c, start>>

Read_NoRestore(p) ==
  /\ pc[p] = "read" /\ ready > 0
  /\ ready' = ready - 1
  /\ c' = [c EXCEPT ![p] = "key"]
  /\ Goto(p, "idle")
  /\ UNCHANGED <<c_lflag, partial, ended, fun, termios, start>>

(* The result of read is not looked at: when it is not 1, c is what was on *)
(* the stack.                                                              *)
Read(p) ==
  /\ pc[p] = "read"
  /\ \/ /\ ready > 0
        /\ ready' = ready - 1
        /\ c' = [c EXCEPT ![p] = "key"]
     \/ /\ ready = 0 /\ ended
        /\ c' = [c EXCEPT ![p] = "uninitialised"]
        /\ UNCHANGED ready
  /\ Goto(p, "set_get")
  /\ UNCHANGED <<c_lflag, partial, ended, fun, termios, start>>

(* a signal whose default action ends the process *)
Die(p) ==
  /\ MayDie /\ pc[p] # "dead"
  /\ Goto(p, "dead")
  /\ UNCHANGED <<tty, fun, termios, c, start>>

(***************************************************************************)
(* The keyboard.                                                           *)
(***************************************************************************)

Waiting == partial + ready
Key ==
  /\ ~ended /\ Waiting < MaxKeys
  /\ IF ICANON \in c_lflag
       THEN partial' = partial + 1 /\ UNCHANGED ready
       ELSE ready' = ready + 1 /\ UNCHANGED partial
  /\ UNCHANGED <<c_lflag, ended, pc, fun, termios, c, start>>

Enter ==
  /\ ~ended /\ Waiting < MaxKeys
  /\ ready' = Waiting + 1 /\ partial' = 0
  /\ UNCHANGED <<c_lflag, ended, pc, fun, termios, c, start>>

HangUp ==
  /\ MayEnd /\ ended' = TRUE
  /\ UNCHANGED <<c_lflag, partial, ready, pc, fun, termios, c, start>>

(***************************************************************************)

Step(p) == TcGets(p) \/ ResetBits(p) \/ Read(p) \/ SetBits(p)

Next ==
  \/ \E p \in Procs : \E f \in Calls : Call(p, f)
  \/ \E p \in Procs : Step(p) \/ Die(p)
  \/ Key \/ Enter \/ HangUp

Spec == Init /\ [][Next]_vars

(* The kernel runs every process that can run, and the user types on. *)
FairSpec == Spec /\ (\A p \in Procs : WF_vars(Step(p))) /\ WF_vars(Key)

(***************************************************************************)
(* Properties.                                                             *)
(***************************************************************************)

TypeOK ==
  /\ c_lflag \in SUBSET {ICANON, ECHO} /\ start \in StartFlags
  /\ partial \in Nat /\ ready \in Nat /\ ended \in BOOLEAN
  /\ pc \in [Procs -> {"idle", "reset_get", "reset_set", "read", "set_get",
                       "set_set", "dead"}]
  /\ fun \in [Procs -> Calls]
  /\ termios \in [Procs -> SUBSET {ICANON, ECHO}]
  /\ c \in [Procs -> {"none", "key", "uninitialised"}]

AllIdle == \A p \in Procs : pc[p] = "idle"
SomeoneDied == \E p \in Procs : pc[p] = "dead"

(* Bits that every call resets and sets.                                   *)
CommonBits == {b \in {ICANON, ECHO} : \A f \in Calls : b \in mask(f)}

(* However the calls of several processes overlap, when all are over and   *)
(* nobody was killed, the bits that all of them reset and set are on again *)
(* if they were at the start: the last write of a call is one that sets    *)
(* them.                                                                   *)
CommonBitsBack ==
  AllIdle => CommonBits \cap start \subseteq c_lflag

(* A terminal that was in line mode and that a getc took out of it goes    *)
(* back to it, however many processes keep calling getc, unless one of     *)
(* them is killed (io.c:66 "set the bits back to what they once were").    *)
LineModeReturns ==
  (ICANON \in start /\ ICANON \notin c_lflag) ~> (ICANON \in c_lflag \/ SomeoneDied)

(* io.c:62: "read a single char", once ICANON is reset: no line has to be  *)
(* finished first, as long as no other process has come further than       *)
(* reading the flags; one that ends a getc may set the bit again.          *)
Untouched(q) == pc[q] \in {"idle", "reset_get"} /\ c[q] = "none"
ReadsKeys ==
  \A p \in Procs :
    pc[p] = "read" /\ (\A q \in Procs \ {p} : Untouched(q)) =>
      ICANON \notin c_lflag

(* io.c:66 and io.c:88: a call ends by setting "the bits back to what they *)
(* once were".  They are set in a copy of the flags that may be old.       *)
BitsBack == AllIdle => c_lflag = start
=============================================================================
