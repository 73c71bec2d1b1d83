--------------------------- MODULE ProcessProofs ---------------------------
(***************************************************************************)
(* What cmd of lib/src/os.c keeps for any number of processes, whatever    *)
(* execve and the senders of signals do.                                   *)
(***************************************************************************)
EXTENDS Process, FiniteSetTheorems, TLAPS

LEMMA NoPidIsNone == NoPid \notin Pids /\ ForkError \notin Pids
  BY ProcessAssumption DEF NoPid, ForkError

(* What the end of a process does to the table. *)
LEMMA EndsTypes ==
  ASSUME TypeOK, NEW p \in Pids, NEW s \in [code : Codes, killed : BOOLEAN],
         Ends(p, s)
  PROVE  TypeOK'
<1>1. state' \in [Pids -> {"none", "running", "zombie"}]
  BY DEF Ends, TypeOK
<1>2. parent' \in [Pids -> Pids \cup {NoPid}]
  BY DEF Ends, TypeOK
<1>3. status' \in [Pids -> [code : Codes, killed : BOOLEAN]]
  BY DEF Ends, TypeOK
<1>4. /\ image' \in [Pids -> {"caller", "program"}]
      /\ pc' \in [Pids -> {"idle", "execve", "wait4"}]
      /\ child_id' \in [Pids -> Pids \cup {NoPid, ForkError}]
      /\ handled' \in [Pids -> BOOLEAN]
      /\ ret' \in [Pids -> Codes \cup {Uninitialised}]
  BY DEF Ends, TypeOK
<1> QED
  BY <1>1, <1>2, <1>3, <1>4 DEF TypeOK

LEMMA StatusTypes ==
  /\ \A code \in Codes : Exited(code) \in [code : Codes, killed : BOOLEAN]
  /\ Killed \in [code : Codes, killed : BOOLEAN]
  /\ \A s \in [code : Codes, killed : BOOLEAN] : RET_CODE(s) \in Codes
  BY ProcessAssumption DEF Exited, Killed, RET_CODE

(* Every variable keeps its type: what cmd returns is an exit code or the  *)
(* uninitialised status.                                                   *)
THEOREM TypeCorrect == Spec => []TypeOK
<1>1. Init => TypeOK
  BY ProcessAssumption, StatusTypes DEF Init, TypeOK, NoPid
<1>2. TypeOK /\ [Next]_vars => TypeOK'
  <2> SUFFICES ASSUME TypeOK, [Next]_vars PROVE TypeOK'
    OBVIOUS
  <2>1. ASSUME NEW p \in Pids, Fork(p) PROVE TypeOK'
    <3>1. ASSUME NEW q \in Pids, Forked(p, q) PROVE TypeOK'
      <4>1. /\ state' \in [Pids -> {"none", "running", "zombie"}]
            /\ parent' \in [Pids -> Pids \cup {NoPid}]
            /\ image' \in [Pids -> {"caller", "program"}]
        BY <3>1 DEF TypeOK, Forked
      <4>2. /\ pc' \in [Pids -> {"idle", "execve", "wait4"}]
            /\ child_id' \in [Pids -> Pids \cup {NoPid, ForkError}]
            /\ handled' \in [Pids -> BOOLEAN]
        BY <3>1 DEF TypeOK, Forked
      <4>3. ret' \in [Pids -> Codes \cup {Uninitialised}]
        BY <3>1 DEF TypeOK, Forked
      <4> QED
        BY <2>1, <4>1, <4>2, <4>3 DEF TypeOK, Fork
    <3>2. CASE NotForked(p)
      BY <2>1, <3>2 DEF TypeOK, Fork, NotForked
    <3> QED
      BY <2>1, <3>1, <3>2 DEF Fork
  <2>2. ASSUME NEW p \in Pids, Execve(p) PROVE TypeOK'
    <3>1. /\ image' \in [Pids -> {"caller", "program"}]
          /\ handled' \in [Pids -> BOOLEAN]
          /\ pc' \in [Pids -> {"idle", "execve", "wait4"}]
      BY <2>2 DEF TypeOK, Execve
    <3> QED
      BY <2>2, <3>1 DEF TypeOK, Execve
  <2>3. ASSUME NEW p \in Pids, Wait4(p) PROVE TypeOK'
    <3>1. \A q \in Pids : RET_CODE(status[q]) \in Codes
      BY StatusTypes DEF TypeOK
    <3>2. /\ state' \in [Pids -> {"none", "running", "zombie"}]
          /\ pc' \in [Pids -> {"idle", "execve", "wait4"}]
          /\ UNCHANGED <<parent, image, child_id, handled, status>>
      BY <2>3 DEF TypeOK, Wait4, Return
    <3>3. ret' \in [Pids -> Codes \cup {Uninitialised}]
      BY <2>3, <3>1 DEF TypeOK, Wait4, Return
    <3> QED
      BY <3>2, <3>3 DEF TypeOK
  <2>4. ASSUME NEW p \in Pids, Exit(p) PROVE TypeOK'
    BY <2>4, EndsTypes, StatusTypes DEF Exit
  <2>5. ASSUME NEW p \in Pids, Sigaction(p) PROVE TypeOK'
    BY <2>5 DEF TypeOK, Sigaction
  <2>6. ASSUME NEW p \in Pids, NEW q \in Pids, Kill(p, q) PROVE TypeOK'
    <3>1. CASE Ends(q, Killed)
      BY <3>1, EndsTypes, StatusTypes
    <3>2. CASE /\ Return(q, Uninitialised)
               /\ UNCHANGED <<state, parent, image, child_id, handled, status>>
      BY <3>2 DEF TypeOK, Return
    <3> QED
      BY <2>6, <3>1, <3>2 DEF Kill
  <2>7. CASE UNCHANGED vars
    BY <2>7 DEF TypeOK, vars
  <2> QED
    BY <2>1, <2>2, <2>3, <2>4, <2>5, <2>6, <2>7 DEF Next
<1> QED
  BY <1>1, <1>2, PTL DEF Spec

(* A process that waits keeps its child when another one ends. *)
LEMMA EndsKeepsChild ==
  ASSUME TypeOK, ChildIsThere, NEW p \in Pids, NEW s, state[p] = "running",
         Ends(p, s)
  PROVE  ChildIsThere'
<1> SUFFICES ASSUME NEW w \in Pids, At(w, "wait4")', child_id'[w] # ForkError
             PROVE  child_id'[w] \in Children(w)'
  BY DEF ChildIsThere
<1> DEFINE q == child_id[w]
<1>1. /\ \A x \in Pids \ {p} : /\ image'[x] = image[x] /\ pc'[x] = pc[x]
                               /\ child_id'[x] = child_id[x]
      /\ \A x \in Pids : parent'[x] = IF parent[x] = p THEN NoPid ELSE parent[x]
  BY DEF Ends, TypeOK
<1>2. w # p
  BY DEF Ends, TypeOK, At
<1>3. At(w, "wait4") /\ child_id[w] # ForkError
  BY <1>1, <1>2 DEF Ends, TypeOK, At
<1>4. q \in Pids /\ parent[q] = w /\ state[q] # "none"
  BY <1>3 DEF ChildIsThere, Children
<1>5. parent'[q] = w
  BY <1>1, <1>2, <1>4
<1>6. state'[q] # "none"
  BY <1>2, <1>4, NoPidIsNone DEF Ends, TypeOK
<1> QED
  BY <1>1, <1>2, <1>4, <1>5, <1>6 DEF Children

(* A new child takes a pid that nobody waits for. *)
LEMMA ForkKeepsChild ==
  ASSUME TypeOK, ChildIsThere, NEW p \in Pids, NEW q \in Pids,
         At(p, "idle"), Forked(p, q)
  PROVE  ChildIsThere'
<1> SUFFICES ASSUME NEW w \in Pids, At(w, "wait4")', child_id'[w] # ForkError
             PROVE  child_id'[w] \in Children(w)'
  BY DEF ChildIsThere
<1>1. p # q
  BY DEF Forked, At
<1>2. w # q
  BY <1>1 DEF Forked, TypeOK, At
<1>3. CASE w = p
  <2>1. child_id'[w] = q
    BY <1>1, <1>3 DEF Forked, TypeOK
  <2> QED
    BY <1>3, <2>1 DEF Forked, TypeOK, Children
<1>4. CASE w # p
  <2>1. /\ At(w, "wait4") /\ child_id'[w] = child_id[w]
    BY <1>2, <1>4 DEF Forked, TypeOK, At
  <2>2. child_id[w] \in Pids /\ child_id[w] # q /\ parent[child_id[w]] = w
        /\ state[child_id[w]] # "none"
    BY <2>1 DEF ChildIsThere, Children, Forked
  <2> QED
    BY <2>1, <2>2 DEF Forked, TypeOK, Children
<1> QED
  BY <1>3, <1>4

(* A wait4 always has its child: no pid is used again before the wait that *)
(* reaps it, whoever is killed and whether or not execve succeeds.         *)
THEOREM WaitHasChild == Spec => []ChildIsThere
<1>1. Init => ChildIsThere
  BY DEF Init, ChildIsThere, At
<1>2. TypeOK /\ ChildIsThere /\ [Next]_vars => ChildIsThere'
  <2> SUFFICES ASSUME TypeOK, ChildIsThere, [Next]_vars PROVE ChildIsThere'
    OBVIOUS
  <2>1. ASSUME NEW p \in Pids, Fork(p) PROVE ChildIsThere'
    <3>1. ASSUME NEW q \in Pids, Forked(p, q) PROVE ChildIsThere'
      BY <2>1, <3>1, ForkKeepsChild DEF Fork
    <3>2. CASE NotForked(p)
      BY <2>1, <3>2 DEF TypeOK, Fork, NotForked, ChildIsThere, Children, At
    <3> QED
      BY <2>1, <3>1, <3>2 DEF Fork
  <2>2. ASSUME NEW p \in Pids, Execve(p) PROVE ChildIsThere'
    BY <2>2 DEF TypeOK, Execve, ChildIsThere, Children, At
  <2>3. ASSUME NEW p \in Pids, Wait4(p) PROVE ChildIsThere'
    BY <2>3 DEF TypeOK, Wait4, Return, ChildIsThere, Children, At
  <2>4. ASSUME NEW p \in Pids, Exit(p) PROVE ChildIsThere'
    BY <2>4, EndsKeepsChild DEF Exit, At
  <2>5. ASSUME NEW p \in Pids, Sigaction(p) PROVE ChildIsThere'
    BY <2>5 DEF TypeOK, Sigaction, ChildIsThere, Children, At
  <2>6. ASSUME NEW p \in Pids, NEW q \in Pids, Kill(p, q) PROVE ChildIsThere'
    <3>1. CASE Ends(q, Killed)
      BY <2>6, <3>1, EndsKeepsChild DEF Kill
    <3>2. CASE /\ Return(q, Uninitialised)
               /\ UNCHANGED <<state, parent, image, child_id, handled, status>>
      BY <3>2 DEF TypeOK, Return, ChildIsThere, Children, At
    <3> QED
      BY <2>6, <3>1, <3>2 DEF Kill
  <2>7. CASE UNCHANGED vars
    BY <2>7 DEF vars, ChildIsThere, Children, At
  <2> QED
    BY <2>1, <2>2, <2>3, <2>4, <2>5, <2>6, <2>7 DEF Next
<1> QED
  BY <1>1, <1>2, TypeCorrect, PTL DEF Spec

(* Parents run.  A process in wait4 has at most the child of its fork, and *)
(* every other one that has no handler installed has none; a child that is *)
(* about to execve has none either.                                        *)
ParentsRun ==
  \A x \in Pids : state[x] # "none" /\ parent[x] # NoPid =>
    state[parent[x]] = "running"
OwnChild(p, x) == ~handled[p] => pc[p] = "wait4" /\ x = child_id[p]
OnlyOwnChild ==
  \A x \in Pids : state[x] # "none" /\ parent[x] # NoPid =>
    OwnChild(parent[x], x)
ExecAlone ==
  \A x \in Pids : state[x] # "none" /\ parent[x] # NoPid =>
    pc[parent[x]] # "execve"
QuietInv == ParentsRun /\ OnlyOwnChild /\ ExecAlone

LEMMA EndsKeepsQuiet ==
  ASSUME TypeOK, QuietInv, NEW p \in Pids, NEW s, state[p] = "running",
         Ends(p, s)
  PROVE  QuietInv'
<1> USE NoPidIsNone
<1>1. /\ \A x \in Pids \ {p} : /\ pc'[x] = pc[x] /\ child_id'[x] = child_id[x]
                               /\ handled'[x] = handled[x]
      /\ \A x \in Pids : parent'[x] = IF parent[x] = p THEN NoPid ELSE parent[x]
  BY DEF Ends, TypeOK
<1>2. \A x \in Pids :
        /\ state'[x] # "none" => state[x] # "none"
        /\ x # p /\ state[x] = "running" => state'[x] = "running"
  BY DEF Ends, TypeOK
<1> SUFFICES ASSUME NEW x \in Pids, state'[x] # "none", parent'[x] # NoPid
             PROVE  /\ state'[parent'[x]] = "running"
                    /\ OwnChild(parent[x], x)' /\ parent'[x] = parent[x]
                    /\ pc'[parent'[x]] # "execve"
  BY DEF QuietInv, ParentsRun, OnlyOwnChild, ExecAlone, OwnChild
<1>3. parent'[x] = parent[x] /\ parent[x] # p /\ parent[x] \in Pids
  BY <1>1 DEF TypeOK
<1>4. /\ state[parent[x]] = "running" /\ OwnChild(parent[x], x)
      /\ pc[parent[x]] # "execve"
  BY <1>2, <1>3 DEF QuietInv, ParentsRun, OnlyOwnChild, ExecAlone
<1> QED
  BY <1>1, <1>2, <1>3, <1>4 DEF OwnChild

LEMMA ForkKeepsQuiet ==
  ASSUME TypeOK, QuietInv, NEW p \in Pids, NEW q \in Pids,
         At(p, "idle"), Forked(p, q)
  PROVE  QuietInv'
<1> USE NoPidIsNone
<1>1. p # q /\ state[p] = "running" /\ pc[p] = "idle" /\ state[q] = "none"
  BY DEF Forked, At
<1>2. /\ \A x \in Pids : state'[x] = IF x = q THEN "running" ELSE state[x]
      /\ \A x \in Pids : parent'[x] = IF x = q THEN p ELSE parent[x]
  BY DEF Forked, TypeOK
<1>3. /\ pc'[p] = "wait4" /\ child_id'[p] = q /\ handled'[p] = handled[p]
      /\ \A x \in Pids \ {p, q} : /\ pc'[x] = pc[x] /\ child_id'[x] = child_id[x]
                                  /\ handled'[x] = handled[x]
  BY <1>1 DEF Forked, TypeOK
<1> SUFFICES ASSUME NEW x \in Pids, state'[x] # "none", parent'[x] # NoPid,
                    NEW w \in Pids, w = parent'[x]
             PROVE  /\ state'[w] = "running" /\ pc'[w] # "execve"
                    /\ handled'[w] \/ (pc'[w] = "wait4" /\ x = child_id'[w])
  <2>1. parent' \in [Pids -> Pids \cup {NoPid}]
    BY DEF Forked, TypeOK
  <2> QED
    BY <2>1 DEF QuietInv, ParentsRun, OnlyOwnChild, ExecAlone, OwnChild
<1>4. CASE x = q
  BY <1>1, <1>2, <1>3, <1>4
<1>5. CASE x # q
  <2>1. /\ state[x] # "none" /\ parent[x] = w /\ state[w] = "running"
        /\ pc[w] # "execve" /\ OwnChild(w, x)
    BY <1>2, <1>5 DEF QuietInv, ParentsRun, OnlyOwnChild, ExecAlone
  <2>2. CASE w = p
    BY <1>1, <1>2, <1>3, <2>1, <2>2 DEF OwnChild
  <2>3. CASE w # p
    BY <1>1, <1>2, <1>3, <2>1, <2>3 DEF OwnChild
  <2> QED
    BY <2>2, <2>3
<1> QED
  BY <1>4, <1>5

LEMMA Wait4KeepsQuiet ==
  ASSUME TypeOK, QuietInv, NEW p \in Pids, Wait4(p)
  PROVE  QuietInv'
<1> USE NoPidIsNone
<1>1. /\ UNCHANGED <<parent, image, child_id, handled>>
      /\ pc' = [pc EXCEPT ![p] = "idle"]
  BY DEF Wait4, Return
<1>2. state[p] = "running" /\ pc[p] = "wait4"
  BY DEF Wait4, At
<1>3. /\ \A x \in Pids : state'[x] # state[x] =>
           state[x] = "zombie" /\ state'[x] = "none"
      /\ \A x \in Pids : state'[x] # "none" /\ parent[x] = p => x # child_id[p]
  BY DEF Wait4, TypeOK
<1> SUFFICES ASSUME NEW x \in Pids, state'[x] # "none", parent[x] # NoPid
             PROVE  /\ state'[parent[x]] = "running"
                    /\ pc'[parent[x]] # "execve"
                    /\ handled[parent[x]] \/ (/\ pc'[parent[x]] = "wait4"
                                              /\ x = child_id[parent[x]])
  BY <1>1 DEF QuietInv, ParentsRun, OnlyOwnChild, ExecAlone, OwnChild
<1>4. /\ state[x] # "none" /\ state[parent[x]] = "running"
      /\ pc[parent[x]] # "execve" /\ OwnChild(parent[x], x)
      /\ parent[x] \in Pids
  BY <1>3 DEF QuietInv, ParentsRun, OnlyOwnChild, ExecAlone, TypeOK
<1> QED
  BY <1>1, <1>2, <1>3, <1>4 DEF OwnChild, TypeOK

LEMMA QuietKept == Spec => [](TypeOK /\ QuietInv)
<1>1. Init => QuietInv
  BY NoPidIsNone DEF Init, QuietInv, ParentsRun, OnlyOwnChild, ExecAlone
<1>2. TypeOK /\ QuietInv /\ [Next]_vars => QuietInv'
  <2> SUFFICES ASSUME TypeOK, QuietInv, [Next]_vars PROVE QuietInv'
    OBVIOUS
  <2> USE NoPidIsNone
  <2>1. ASSUME NEW p \in Pids, Fork(p) PROVE QuietInv'
    <3>1. ASSUME NEW q \in Pids, Forked(p, q) PROVE QuietInv'
      BY <2>1, <3>1, ForkKeepsQuiet DEF Fork
    <3>2. CASE NotForked(p)
      <4>1. pc[p] = "idle" /\ UNCHANGED <<state, parent, handled>>
        BY <2>1, <3>2 DEF Fork, At, NotForked
      <4>2. \A x \in Pids \ {p} : pc'[x] = pc[x] /\ child_id'[x] = child_id[x]
        BY <3>2 DEF NotForked, TypeOK
      <4>3. pc'[p] = "wait4"
        BY <3>2 DEF NotForked, TypeOK
      <4>4. ParentsRun' /\ ExecAlone'
        BY <4>1, <4>2, <4>3 DEF QuietInv, ParentsRun, ExecAlone, TypeOK
      <4>5. OnlyOwnChild'
        BY <4>1, <4>2, <4>3 DEF QuietInv, OnlyOwnChild, OwnChild, TypeOK
      <4> QED
        BY <4>4, <4>5 DEF QuietInv
    <3> QED
      BY <2>1, <3>1, <3>2 DEF Fork
  <2>2. ASSUME NEW p \in Pids, Execve(p) PROVE QuietInv'
    <3>1. UNCHANGED <<state, parent, child_id>> /\ pc[p] = "execve"
      BY <2>2 DEF Execve, At
    <3>2. \A w \in Pids \ {p} : pc'[w] = pc[w] /\ handled'[w] = handled[w]
      BY <2>2 DEF Execve, TypeOK
    <3>3. \A x \in Pids : state[x] # "none" => parent[x] # p
      BY <3>1 DEF QuietInv, ExecAlone
    <3> QED
      BY <3>1, <3>2, <3>3
      DEF QuietInv, ParentsRun, OnlyOwnChild, ExecAlone, OwnChild, TypeOK
  <2>3. ASSUME NEW p \in Pids, Wait4(p) PROVE QuietInv'
    BY <2>3, Wait4KeepsQuiet
  <2>4. ASSUME NEW p \in Pids, Exit(p) PROVE QuietInv'
    BY <2>4, EndsKeepsQuiet DEF Exit, At
  <2>5. ASSUME NEW p \in Pids, Sigaction(p) PROVE QuietInv'
    BY <2>5 DEF Sigaction, QuietInv, ParentsRun, OnlyOwnChild, ExecAlone,
                OwnChild, TypeOK
  <2>6. ASSUME NEW p \in Pids, NEW q \in Pids, Kill(p, q) PROVE QuietInv'
    <3>1. CASE Ends(q, Killed)
      BY <2>6, <3>1, EndsKeepsQuiet DEF Kill
    <3>2. CASE /\ handled[q] /\ Return(q, Uninitialised)
               /\ UNCHANGED <<state, parent, image, child_id, handled, status>>
      BY <3>2 DEF Return, QuietInv, ParentsRun, OnlyOwnChild, ExecAlone,
                  OwnChild, TypeOK
    <3> QED
      BY <2>6, <3>1, <3>2 DEF Kill
  <2>7. CASE UNCHANGED vars
    BY <2>7 DEF vars, QuietInv, ParentsRun, OnlyOwnChild, ExecAlone, OwnChild
  <2> QED
    BY <2>1, <2>2, <2>3, <2>4, <2>5, <2>6, <2>7 DEF Next
<1> QED
  BY <1>1, <1>2, TypeCorrect, PTL DEF Spec

(* A process that installs no handlers has no children, running or zombie, *)
(* when it is not in a cmd, whichever processes are killed and whether or  *)
(* not fork and execve succeed.                                            *)
THEOREM LeavesNothing == Spec => []NothingLeft
<1>1. QuietInv => NothingLeft
  BY NoPidIsNone
  DEF QuietInv, OnlyOwnChild, OwnChild, NothingLeft, Children, At
<1> QED
  BY <1>1, QuietKept, PTL

(* Each running process but the children of the init process is the one    *)
(* child of a parent that waits for it, so as many processes wait.         *)
LEMMA OneRunsState ==
  ASSUME TypeOK, QuietInv, IsFiniteSet(Pids)
  PROVE  OneRuns
<1> SUFFICES ASSUME \A p \in Running : ~handled[p]
             PROVE  Cardinality({p \in Running : pc[p] # "wait4"})
                      <= Cardinality({p \in Running : parent[p] = NoPid})
  BY DEF OneRuns
<1> DEFINE Waiting  == {p \in Running : pc[p] = "wait4"}
           Others   == {p \in Running : pc[p] # "wait4"}
           Orphans  == {p \in Running : parent[p] = NoPid}
           HaveParent == {p \in Running : parent[p] # NoPid}
           Parent   == [p \in HaveParent |-> parent[p]]
<1>1. IsFiniteSet(Running)
  BY FS_Subset DEF Running
<1>2. Parent \in Injection(HaveParent, Waiting)
  <2>1. ASSUME NEW p \in HaveParent
        PROVE  parent[p] \in Waiting /\ child_id[parent[p]] = p
    <3>1. parent[p] \in Pids /\ state[parent[p]] = "running" /\ OwnChild(parent[p], p)
      BY <2>1 DEF Running, QuietInv, ParentsRun, OnlyOwnChild, TypeOK
    <3> QED
      BY <3>1 DEF Running, OwnChild
  <2>2. Parent \in [HaveParent -> Waiting]
    BY <2>1
  <2>3. \A p, q \in HaveParent : Parent[p] = Parent[q] => p = q
    BY <2>1
  <2> QED
    BY <2>2, <2>3 DEF Injection, IsInjective
<1>3. /\ IsFiniteSet(Waiting) /\ IsFiniteSet(Others)
      /\ IsFiniteSet(Orphans) /\ IsFiniteSet(HaveParent)
  BY <1>1, FS_Subset
<1>4. Cardinality(HaveParent) <= Cardinality(Waiting)
  BY <1>2, <1>3, FS_Injection
<1>5. Cardinality(Running) = Cardinality(Waiting) + Cardinality(Others)
  <2>1. Running = Waiting \cup Others /\ Waiting \cap Others = {}
    OBVIOUS
  <2> HIDE DEF Waiting, Others
  <2>2. Cardinality(Running)
          = Cardinality(Waiting) + Cardinality(Others) - Cardinality({})
    BY <2>1, <1>3, FS_Union
  <2> QED
    BY <2>2, <1>3, FS_EmptySet, FS_CardinalityType
<1>6. Cardinality(Running) = Cardinality(Orphans) + Cardinality(HaveParent)
  <2>1. Running = Orphans \cup HaveParent /\ Orphans \cap HaveParent = {}
    OBVIOUS
  <2> HIDE DEF Orphans, HaveParent
  <2>2. Cardinality(Running)
          = Cardinality(Orphans) + Cardinality(HaveParent) - Cardinality({})
    BY <2>1, <1>3, FS_Union
  <2> QED
    BY <2>2, <1>3, FS_EmptySet, FS_CardinalityType
<1>7. /\ Cardinality(Waiting) \in Nat /\ Cardinality(Others) \in Nat
      /\ Cardinality(Orphans) \in Nat /\ Cardinality(HaveParent) \in Nat
  BY <1>3, FS_CardinalityType
<1> QED
  BY <1>4, <1>5, <1>6, <1>7

(* Without handlers no more processes run, outside of a wait4, than the    *)
(* init process has children: of all the processes that calls of cmd have  *)
(* created the others wait, whether or not execve succeeds.                *)
THEOREM OthersWait ==
  ASSUME IsFiniteSet(Pids)
  PROVE  Spec => []OneRuns
<1>1. TypeOK /\ QuietInv => OneRuns
  BY OneRunsState
<1> QED
  BY <1>1, QuietKept, PTL
=============================================================================
