------------------------------ MODULE Process ------------------------------
(***************************************************************************)
(* cmd and system of lib/src/os.c over fork, execve, wait4, kill and       *)
(* sigaction of lib/src/proc.c: a program, the processes that its calls of *)
(* cmd create, and the kernel's process table.                             *)
(***************************************************************************)
EXTENDS Integers, FiniteSets

CONSTANTS
  Pids,          \* bound: processes there can be at a time
  Root,          \* the process the program starts as
  Codes,         \* exit codes
  ExecMayFail,   \* whether execve may fail, for instance for a missing file
  SignalsSent,   \* whether processes send signals
  HandlersSet    \* whether the program installs handlers for them

NoPid         == 0
ForkError     == -11  \* -EAGAIN
Uninitialised == -1   \* the status of a cmd that wait4 did not set

ASSUME ProcessAssumption ==
  /\ Pids \subseteq Nat \ {0} /\ Root \in Pids
  /\ Codes \subseteq 0..255 /\ 0 \in Codes
  /\ ExecMayFail \in BOOLEAN /\ SignalsSent \in BOOLEAN /\ HandlersSet \in BOOLEAN

VARIABLES
  state,     \* "none", "running" or "zombie"
  parent,    \* NoPid: the init process, which reaps at once
  image,     \* what it runs: the "caller" of cmd or another "program"
  pc,        \* where the caller is in cmd
  child_id,  \* what fork returned in the last cmd
  handled,   \* whether the signal has a handler
  status,    \* what wait4 will tell of a zombie
  ret        \* what the last cmd returned

vars == <<state, parent, image, pc, child_id, handled, status, ret>>

Exited(code) == [code |-> code, killed |-> FALSE]
Killed       == [code |-> 0, killed |-> TRUE]

(* bits 8 to 15 of a status; they are 0 when a signal ended the process *)
RET_CODE_NoShift(s) == IF s.killed THEN 9 ELSE s.code * 256
RET_CODE(s) == IF s.killed THEN 0 ELSE s.code

Init ==
  /\ state = [p \in Pids |-> IF p = Root THEN "running" ELSE "none"]
  /\ parent = [p \in Pids |-> NoPid]
  /\ image = [p \in Pids |-> "caller"]
  /\ pc = [p \in Pids |-> "idle"]
  /\ child_id = [p \in Pids |-> NoPid]
  /\ handled = [p \in Pids |-> FALSE]
  /\ status = [p \in Pids |-> Exited(0)]
  /\ ret = [p \in Pids |-> Uninitialised]

At(p, label) == state[p] = "running" /\ image[p] = "caller" /\ pc[p] = label

(***************************************************************************)
(* cmd                                                                     *)
(***************************************************************************)

Forked_ChildWaits(p, q) ==
  /\ state[q] = "none"
  /\ state' = [state EXCEPT ![q] = "running"]
  /\ parent' = [parent EXCEPT ![q] = p]
  /\ image' = [image EXCEPT ![q] = "caller"]
  /\ pc' = [pc EXCEPT ![p] = "wait4", ![q] = "wait4"]
  /\ child_id' = [child_id EXCEPT ![p] = q, ![q] = NoPid]
  /\ UNCHANGED <<handled, ret>>

(* fork: the child runs the same code with the same handlers, and sees 0.  *)
(* The parent goes on to wait4, also when fork has failed.                 *)
Forked(p, q) ==
  /\ state[q] = "none"
  /\ state' = [state EXCEPT ![q] = "running"]
  /\ parent' = [parent EXCEPT ![q] = p]
  /\ image' = [image EXCEPT ![q] = "caller"]
  /\ pc' = [pc EXCEPT ![p] = "wait4", ![q] = "execve"]
  /\ child_id' = [child_id EXCEPT ![p] = q, ![q] = NoPid]
  /\ handled' = [handled EXCEPT ![q] = handled[p]]
  /\ ret' = [ret EXCEPT ![q] = Uninitialised]

NotForked(p) ==
  /\ pc' = [pc EXCEPT ![p] = "wait4"]
  /\ child_id' = [child_id EXCEPT ![p] = ForkError]
  /\ UNCHANGED <<state, parent, image, handled, ret>>

Fork(p) ==
  /\ At(p, "idle")
  /\ \/ \E q \in Pids : Forked(p, q)
     \/ NotForked(p)
  /\ UNCHANGED status

(* A failed execve returns in the child, which prints "WHAT" and returns   *)
(* from cmd to the caller's code.                                          *)
Execve(p) ==
  /\ At(p, "execve")
  /\ \/ /\ image' = [image EXCEPT ![p] = "program"]
        /\ handled' = [handled EXCEPT ![p] = FALSE]
        /\ UNCHANGED pc
     \/ /\ ExecMayFail
        /\ pc' = [pc EXCEPT ![p] = "idle"]
        /\ UNCHANGED <<image, handled>>
  /\ UNCHANGED <<state, parent, child_id, status, ret>>

Return(p, code) ==
  /\ pc' = [pc EXCEPT ![p] = "idle"]
  /\ ret' = [ret EXCEPT ![p] = code]

Wait4_AnyEnd(p) ==
  /\ At(p, "wait4")
  /\ Return(p, Uninitialised)
  /\ UNCHANGED <<state, parent, image, child_id, handled, status>>

Wait4_UntilExited(p) ==
  /\ At(p, "wait4")
  /\ \E q \in Pids :
       /\ q = child_id[p] /\ state[q] = "zombie" /\ parent[q] = p
       /\ ~status[q].killed
       /\ state' = [state EXCEPT ![q] = "none"]
       /\ Return(p, RET_CODE(status[q]))
  /\ UNCHANGED <<parent, image, child_id, handled, status>>

(* Without a child to wait for, after a failed fork, wait4 fails at once   *)
(* and status stays uninitialised.                                         *)
Wait4(p) ==
  /\ At(p, "wait4")
  /\ \/ \E q \in Pids :
          /\ q = child_id[p] /\ state[q] = "zombie" /\ parent[q] = p
          /\ state' = [state EXCEPT ![q] = "none"]
          /\ Return(p, RET_CODE(status[q]))
     \/ /\ ~\E q \in Pids : /\ q = child_id[p] /\ parent[q] = p
                            /\ state[q] # "none"
        /\ Return(p, Uninitialised)
        /\ UNCHANGED state
  /\ UNCHANGED <<parent, image, child_id, handled, status>>

(***************************************************************************)
(* The end of a process.  Its zombies go, its other children get the init  *)
(* process as parent; of itself nothing but the status stays.              *)
(***************************************************************************)

Ends(p, s) ==
  /\ state' = [q \in Pids |->
       CASE q = p -> IF parent[p] = NoPid THEN "none" ELSE "zombie"
         [] q # p /\ parent[q] = p /\ state[q] = "zombie" -> "none"
         [] OTHER -> state[q]]
  /\ parent' = [q \in Pids |-> IF parent[q] = p THEN NoPid ELSE parent[q]]
  /\ status' = [status EXCEPT ![p] = s]
  /\ image' = [image EXCEPT ![p] = "caller"]
  /\ pc' = [pc EXCEPT ![p] = "idle"]
  /\ child_id' = [child_id EXCEPT ![p] = NoPid]
  /\ handled' = [handled EXCEPT ![p] = FALSE]
  /\ ret' = [ret EXCEPT ![p] = Uninitialised]

Exit(p) ==
  /\ At(p, "idle") \/ (state[p] = "running" /\ image[p] = "program")
  /\ \E code \in Codes : Ends(p, Exited(code))

(***************************************************************************)
(* Signals                                                                 *)
(***************************************************************************)

(* The kernel is given no flag but SA_RESTORER: a wait4 that a handler     *)
(* interrupts is not restarted.                                            *)
Sigaction(p) ==
  /\ HandlersSet /\ At(p, "idle") /\ ~handled[p]
  /\ handled' = [handled EXCEPT ![p] = TRUE]
  /\ UNCHANGED <<state, parent, image, pc, child_id, status, ret>>

(* kill, and with p = q raise *)
Kill(p, q) ==
  /\ SignalsSent
  /\ At(p, "idle") \/ (state[p] = "running" /\ image[p] = "program")
  /\ state[q] = "running"
  /\ \/ ~handled[q] /\ Ends(q, Killed)
     \/ /\ handled[q] /\ At(q, "wait4")
        /\ Return(q, Uninitialised)
        /\ UNCHANGED <<state, parent, image, child_id, handled, status>>

(***************************************************************************)

Next ==
  \/ \E p \in Pids : Fork(p) \/ Execve(p) \/ Wait4(p) \/ Exit(p) \/ Sigaction(p)
  \/ \E p, q \in Pids : Kill(p, q)

Spec == Init /\ [][Next]_vars

ProgramExit(p) == image[p] = "program" /\ Exit(p)

(* The kernel runs who can run, and the programs that cmd starts end.      *)
FairSpec ==
  Spec /\ \A p \in Pids : WF_vars(Execve(p) \/ Wait4(p) \/ ProgramExit(p))

(***************************************************************************)
(* Properties.                                                             *)
(***************************************************************************)

TypeOK ==
  /\ state \in [Pids -> {"none", "running", "zombie"}]
  /\ parent \in [Pids -> Pids \cup {NoPid}]
  /\ image \in [Pids -> {"caller", "program"}]
  /\ pc \in [Pids -> {"idle", "execve", "wait4"}]
  /\ child_id \in [Pids -> Pids \cup {NoPid, ForkError}]
  /\ handled \in [Pids -> BOOLEAN]
  /\ status \in [Pids -> [code : Codes, killed : BOOLEAN]]
  /\ ret \in [Pids -> Codes \cup {Uninitialised}]

Children(p) == {q \in Pids : parent[q] = p /\ state[q] # "none"}

(* The process a wait4 waits for exists and is the caller's child, however *)
(* pids are used again and whichever processes are killed: nobody else has *)
(* waited for it, and a wait4 does not fail for want of a child unless     *)
(* fork has failed.  A handler that runs ends it without the child's       *)
(* status all the same (proc.c:108).                                       *)
ChildIsThere ==
  \A p \in Pids : At(p, "wait4") /\ child_id[p] # ForkError =>
    child_id[p] \in Children(p)

(* A process that installs no handlers leaves nothing behind: when it is   *)
(* not in a cmd it has no children, running or zombie.                     *)
NothingLeft ==
  \A p \in Pids : At(p, "idle") /\ ~handled[p] => Children(p) = {}

(* Without handlers one process runs for each that the init process has as *)
(* a child, the program at first and later what killed callers left: all   *)
(* others that calls of cmd created wait, whether or not execve succeeds.  *)
Running == {p \in Pids : state[p] = "running"}
OneRuns ==
  (\A p \in Running : ~handled[p]) =>
    Cardinality({p \in Running : pc[p] # "wait4"})
      <= Cardinality({p \in Running : parent[p] = NoPid})

(* A cmd returns, if the program it starts ends, whatever signals come; if *)
(* execve fails the child runs the caller's code, of which nothing is      *)
(* known.                                                                  *)
ChildRunsCaller(p) ==
  \E q \in Children(p) :
    state[q] = "running" /\ image[q] = "caller" /\ pc[q] # "execve"
CmdReturns ==
  \A p \in Pids : At(p, "wait4") ~> (~At(p, "wait4") \/ ChildRunsCaller(p))
=============================================================================
