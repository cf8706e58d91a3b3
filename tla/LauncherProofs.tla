--------------------------- MODULE LauncherProofs ----------------------------
(***************************************************************************)
(* Proofs about Launcher, for any number of launcher processes, ports and  *)
(* routers launched.                                                       *)
(*                                                                         *)
(* The file lock is held from the first look at the runtime record to the  *)
(* last, so that each holder knows what the record says at every program   *)
(* point, although it and its child may die at any of them.                *)
(***************************************************************************)
EXTENDS Launcher, TLAPS

ChildState == {"none", "boot", "ready", "acked", "serving", "draining", "gone"}

RuntimeRecord == [i : Instance, port : Port, serve : BOOLEAN, advertised : BOOLEAN]

\* Where a command holds the launcher lock.
Locked == {"probe", "launch", "handshake", "write", "acknowledge", "setup", "publish",
           "failed", "exited", "stop", "drain", "clean"}

ProcRow == [pc : Locked \cup {"idle", "wait", "relock"}, i : Instance \cup {0},
            bg : BOOLEAN, share : BOOLEAN]

\* What outlives a command.
TablesOK ==
    /\ record \in RuntimeRecord \cup {NoRecord}
    /\ child \in [Instance -> [st : ChildState, port : Port \cup {0}]]
    /\ forward \in [Port -> {"none", "foreign", "ours", "late"}]
    /\ late \in SUBSET Port

TypeOK == lock \in Proc \cup {None} /\ proc \in [Proc -> ProcRow] /\ TablesOK

\* Commands exclude each other wherever they touch the record.
LockHeld == \A p \in Proc : proc[p].pc \in Locked => lock = p

\* A launched router has a port, and a recorded one has reported it.
ChildrenHavePorts == \A i \in Instance : child[i].st # "none" => child[i].port \in Port

RecordedIsReady == record # NoRecord => child[record.i].st \notin {"none", "boot"}

\* From its acknowledgement on, a router is the recorded one.
AckedIsRecorded == \A i \in Instance : child[i].st \in {"acked", "serving"} => record.i = i

\* The child a command has launched.
OwnChild(p) ==
    /\ proc[p].pc \in {"handshake", "write", "acknowledge", "setup", "publish", "failed",
                       "wait", "relock", "exited"}
          => proc[p].i \in Instance /\ child[proc[p].i].st # "none"
    /\ proc[p].pc \in {"write", "acknowledge", "setup", "publish", "failed"}
          => child[proc[p].i].st # "boot"
    /\ proc[p].pc \in {"relock", "exited"} => child[proc[p].i].st = "gone"

\* What the holder of the lock knows of the record.
OwnRecord(p) ==
    /\ proc[p].pc \in {"launch", "handshake", "write"} => record = NoRecord
    /\ proc[p].pc \in {"acknowledge", "setup", "publish", "failed"} =>
          /\ record # NoRecord /\ record.i = proc[p].i /\ record.serve = proc[p].share
          /\ record.port = child[proc[p].i].port
    /\ proc[p].pc = "acknowledge" => \A n \in Port : forward[n] # "ours"
    /\ proc[p].pc \in {"stop", "drain", "clean"} => record # NoRecord
    /\ proc[p].pc = "clean" => child[record.i].st \in {"draining", "gone"}

Inv == /\ TypeOK /\ LockHeld /\ ChildrenHavePorts /\ RecordedIsReady /\ AckedIsRecorded
       /\ ForwardIsRecorded
       /\ \A p \in Proc : OwnChild(p) /\ OwnRecord(p)

-----------------------------------------------------------------------------
(* What the steps of a command do to the tables *)

\* The life of a child has one direction.
Onward(i) ==
    /\ child[i].st # "none" => child'[i].st # "none" /\ child'[i].port = child[i].port
    /\ child[i].st \notin {"none", "boot"} => child'[i].st \notin {"none", "boot"}
    /\ child[i].st \in {"draining", "gone"} => child'[i].st \in {"draining", "gone"}
    /\ child[i].st = "gone" => child'[i].st = "gone"

LEMMA ChildMoves ==
    ASSUME TypeOK, NEW i \in Instance, NEW st \in ChildState, child' = [child EXCEPT ![i].st = st]
    PROVE  /\ child' \in [Instance -> [st : ChildState, port : Port \cup {0}]]
           /\ child'[i].st = st /\ child'[i].port = child[i].port
           /\ \A j \in Instance \ {i} : child'[j] = child[j]
  BY DEF TypeOK, TablesOK

LEMMA GotoRow ==
    ASSUME TypeOK, NEW p \in Proc, NEW pc \in Locked \cup {"idle", "wait", "relock"}, Goto(p, pc)
    PROVE  /\ proc' \in [Proc -> ProcRow] /\ proc'[p].pc = pc
           /\ proc'[p].i = proc[p].i /\ proc'[p].share = proc[p].share
           /\ \A q \in Proc \ {p} : proc'[q] = proc[q]
  BY DEF TypeOK, TablesOK, ProcRow, Goto

LEMMA IdleRow ==
    ASSUME TypeOK, NEW p \in Proc, proc' = [proc EXCEPT ![p] = Idle]
    PROVE  /\ proc' \in [Proc -> ProcRow] /\ proc'[p].pc = "idle"
           /\ \A q \in Proc \ {p} : proc'[q] = proc[q]
  BY DEF TypeOK, TablesOK, ProcRow, Idle

\* cleanup_owned_serve withdraws the forward of the record before it is forgotten.
LEMMA CleanEffect ==
    ASSUME TypeOK, ForwardIsRecorded, record # NoRecord, NEW ok \in BOOLEAN, CleanAndRemove(ok)
    PROVE  /\ forward' \in [Port -> {"none", "foreign", "ours", "late"}]
           /\ record' = IF ok THEN NoRecord ELSE record
           /\ \A n \in Port : forward'[n] = "ours" => forward[n] = "ours"
           /\ ok => \A n \in Port : forward'[n] # "ours"
<1> DEFINE off == [forward EXCEPT ![record.port] = "none"]
<1>1. PICK c \in CleanedServe(record) : c.ok = ok /\ forward' = c.forward
  BY DEF CleanAndRemove
<1>2. record \in RuntimeRecord /\ record.port \in Port /\ record.serve \in BOOLEAN
  BY DEF TypeOK, TablesOK, RuntimeRecord
<1>3. CASE ~ record.serve
  <2>1. forward' = forward
    BY <1>1, <1>3 DEF CleanedServe
  <2> QED
    BY <1>3, <2>1 DEF TypeOK, TablesOK, ForwardIsRecorded, Recorded, CleanAndRemove
<1>4. CASE record.serve
  <2>1. \/ forward' = forward /\ (ok => forward[record.port] = "none")
        \/ forward' = off
    <3> HIDE DEF off
    <3>0. forward[record.port] \in {"none", "foreign", "ours", "late"}
      BY <1>2 DEF TypeOK, TablesOK
    <3>1. CASE forward[record.port] = "none"
      <4>1. c \in {[ok |-> b, forward |-> forward] : b \in BOOLEAN}
        BY <1>1, <1>4, <3>1 DEF CleanedServe
      <4> QED
        BY <1>1, <3>1, <4>1
    <3>2. CASE forward[record.port] \in {"ours", "late"}
      <4>1. c \in {[ok |-> TRUE, forward |-> off]}
                   \cup {[ok |-> FALSE, forward |-> f] : f \in {off, forward}}
        BY <1>1, <1>4, <3>2 DEF CleanedServe, off
      <4> QED
        BY <1>1, <4>1
    <3>3. CASE forward[record.port] = "foreign"
      <4>1. c \in {[ok |-> FALSE, forward |-> forward]}
        BY <1>1, <1>4, <3>3 DEF CleanedServe
      <4> QED
        BY <1>1, <4>1
    <3> QED
      BY <3>0, <3>1, <3>2, <3>3
  <2> QED
    BY <1>2, <2>1 DEF TypeOK, TablesOK, ForwardIsRecorded, Recorded, CleanAndRemove
<1> QED
  BY <1>2, <1>3, <1>4

-----------------------------------------------------------------------------
(* The invariant *)

\* A step of process p disturbs no other one: either it holds the lock, and then
\* no other process relies on the record, or it leaves the record alone.
LEMMA ProcessStep ==
    ASSUME Inv, TypeOK', NEW p \in Proc, \A q \in Proc \ {p} : proc'[q] = proc[q],
           lock' = lock \/ lock \in {None, p}, proc'[p].pc \in Locked => lock' = p,
           \A i \in Instance : Onward(i),
           proc[p].pc \in Locked \/ UNCHANGED <<record, forward>>,
           ChildrenHavePorts', RecordedIsReady', AckedIsRecorded', ForwardIsRecorded',
           OwnChild(p)', OwnRecord(p)'
    PROVE  Inv'
<1>1. LockHeld'
  BY LauncherAssumption DEF Inv, LockHeld
<1>2. ASSUME NEW q \in Proc \ {p} PROVE OwnChild(q)' /\ OwnRecord(q)'
  <2>1. proc'[q] = proc[q] /\ proc[q] \in ProcRow /\ OwnChild(q) /\ OwnRecord(q) /\ TypeOK
    BY DEF Inv, TypeOK, TablesOK
  <2>2. OwnChild(q)'
    BY <2>1 DEF OwnChild, Onward
  <2>3. CASE proc[p].pc \in Locked
    <3>1. proc[q].pc \notin Locked
      BY <2>3 DEF Inv, LockHeld
    <3> QED
      BY <2>1, <2>2, <3>1 DEF OwnRecord, Locked
  <2>4. CASE UNCHANGED <<record, forward>>
    <3>1. record # NoRecord => record.i \in Instance
      BY <2>1 DEF TypeOK, TablesOK, RuntimeRecord
    <3> QED
      BY <2>1, <2>2, <2>4, <3>1 DEF OwnRecord, OwnChild, Onward
  <2> QED
    BY <2>3, <2>4
<1> QED
  BY <1>1, <1>2 DEF Inv

\* Children, and commands that were abandoned, go on without the launchers.
LEMMA BackgroundStep ==
    ASSUME Inv, TypeOK', UNCHANGED <<lock, record, proc>>,
           \A n \in Port : forward'[n] = "ours" => forward[n] = "ours",
           \A i \in Instance : Onward(i),
           \A i \in Instance : child'[i].st # "none" => child[i].st # "none",
           \A i \in Instance : child'[i].st \in {"acked", "serving"} => child[i].st \in {"acked", "serving"}
    PROVE  Inv'
<1>1. TypeOK /\ (record # NoRecord => record.i \in Instance)
  BY DEF Inv, TypeOK, TablesOK, RuntimeRecord
<1>2. LockHeld' /\ ForwardIsRecorded'
  BY DEF Inv, LockHeld, ForwardIsRecorded, Recorded
<1>3. ChildrenHavePorts' /\ RecordedIsReady' /\ AckedIsRecorded'
  BY <1>1 DEF Inv, ChildrenHavePorts, RecordedIsReady, AckedIsRecorded, Onward
<1>4. ASSUME NEW p \in Proc PROVE OwnChild(p)' /\ OwnRecord(p)'
  <2>1. OwnChild(p) /\ OwnRecord(p)
    BY DEF Inv
  <2>2. OwnChild(p)'
    BY <2>1 DEF OwnChild, Onward
  <2>3. OwnRecord(p)'
    BY <1>1, <2>1 DEF OwnRecord, OwnChild, Onward
  <2> QED
    BY <2>2, <2>3
<1> QED
  BY <1>2, <1>3, <1>4 DEF Inv

LEMMA InvStep == ASSUME Inv, [Next]_vars PROVE Inv'
<1> USE LauncherAssumption
<1>i. /\ TypeOK /\ LockHeld /\ ChildrenHavePorts /\ RecordedIsReady /\ AckedIsRecorded
      /\ ForwardIsRecorded
  BY DEF Inv
<1>0. 0 \notin Instance
  BY DEF Instance
<1>p. ASSUME NEW p \in Proc PROVE proc[p] \in ProcRow /\ OwnChild(p) /\ OwnRecord(p)
  BY DEF Inv, TypeOK, TablesOK
<1>r. /\ record # NoRecord => /\ record \in RuntimeRecord /\ record.i \in Instance
                              /\ record.port \in Port
      /\ record = NoRecord => record.i = 0
  BY <1>i DEF TypeOK, TablesOK, RuntimeRecord, NoRecord
<1>n. record = NoRecord =>
         /\ \A i \in Instance : child[i].st \notin {"acked", "serving"}
         /\ \A n \in Port : forward[n] # "ours"
  BY <1>i, <1>0, <1>r DEF AckedIsRecorded, ForwardIsRecorded, Recorded
<1>o. ASSUME child' = child PROVE \A i \in Instance : Onward(i)
  BY <1>o DEF Onward
<1>k. ASSUME child' = child
      PROVE  ChildrenHavePorts' /\ (record' = record => RecordedIsReady' /\ AckedIsRecorded')
  BY <1>i, <1>k DEF ChildrenHavePorts, RecordedIsReady, AckedIsRecorded
<1>f. ASSUME record' = record, \A n \in Port : forward'[n] = "ours" => forward[n] = "ours"
      PROVE  ForwardIsRecorded'
  BY <1>i, <1>f DEF ForwardIsRecorded, Recorded
<1>1. ASSUME NEW p \in Proc, NEW bg \in BOOLEAN, NEW share \in BOOLEAN, Start(p, bg, share) PROVE Inv'
  <2>1. /\ lock = None /\ lock' = p /\ proc[p] = Idle /\ UNCHANGED <<record, child, forward, late>>
        /\ proc' = [proc EXCEPT ![p] = [pc |-> "probe", i |-> 0, bg |-> bg, share |-> share]]
    BY <1>1 DEF Start
  <2>2. /\ proc' \in [Proc -> ProcRow] /\ proc'[p].pc = "probe"
        /\ \A q \in Proc \ {p} : proc'[q] = proc[q]
    BY <1>i, <2>1 DEF TypeOK, TablesOK, ProcRow, Locked
  <2>3. TypeOK'
    BY <1>i, <2>1, <2>2 DEF TypeOK, TablesOK
  <2>4. OwnChild(p)' /\ OwnRecord(p)'
    BY <2>2 DEF OwnChild, OwnRecord
  <2> QED
    BY <1>o, <1>k, <1>f, <2>1, <2>2, <2>3, <2>4, ProcessStep
<1>2. ASSUME NEW p \in Proc, NEW e, Stop(p, e) PROVE Inv'
  <2>1. /\ lock = None /\ lock' = p /\ record # NoRecord /\ Goto(p, "stop")
        /\ UNCHANGED <<record, child, forward, late>>
    BY <1>2 DEF Stop, Goto
  <2>2. /\ proc' \in [Proc -> ProcRow] /\ proc'[p].pc = "stop"
        /\ \A q \in Proc \ {p} : proc'[q] = proc[q]
    BY <1>i, <2>1, GotoRow DEF Locked
  <2>3. TypeOK'
    BY <1>i, <2>1, <2>2 DEF TypeOK, TablesOK
  <2>4. OwnChild(p)' /\ OwnRecord(p)'
    BY <2>1, <2>2 DEF OwnChild, OwnRecord
  <2> QED
    BY <1>o, <1>k, <1>f, <2>1, <2>2, <2>3, <2>4, ProcessStep
\* A step to another program point that changes nothing else.
<1>g. ASSUME NEW p \in Proc, NEW pc \in Locked, proc[p].pc \in Locked, Goto(p, pc),
             UNCHANGED <<lock, record, child, forward, late>>, OwnChild(p)', OwnRecord(p)'
      PROVE  Inv'
  <2>1. proc' \in [Proc -> ProcRow] /\ proc'[p].pc = pc /\ \A q \in Proc \ {p} : proc'[q] = proc[q]
    BY <1>i, <1>g, GotoRow
  <2>2. TypeOK' /\ lock' = p
    BY <1>i, <1>g, <2>1 DEF TypeOK, TablesOK, LockHeld
  <2> QED
    BY <1>o, <1>k, <1>f, <1>g, <2>1, <2>2, ProcessStep
\* The command returns.
<1>q. ASSUME NEW p \in Proc, proc[p].pc \in Locked, Return(p), TablesOK', \A i \in Instance : Onward(i),
             ChildrenHavePorts', RecordedIsReady', AckedIsRecorded', ForwardIsRecorded'
      PROVE  Inv'
  <2>1. /\ proc' \in [Proc -> ProcRow] /\ proc'[p].pc = "idle"
        /\ \A q \in Proc \ {p} : proc'[q] = proc[q]
    BY <1>i, <1>q, IdleRow DEF Return
  <2>2. TypeOK'
    BY <1>q, <2>1 DEF TypeOK, Return
  <2>3. OwnChild(p)' /\ OwnRecord(p)' /\ proc'[p].pc \notin Locked
    BY <2>1 DEF OwnChild, OwnRecord, Locked
  <2>4. lock = p
    BY <1>i, <1>q DEF LockHeld
  <2> QED
    BY <1>q, <2>1, <2>2, <2>3, <2>4, ProcessStep
\* Nothing but the command ends.
<1>e. ASSUME NEW p \in Proc, proc[p].pc \in Locked, Return(p), UNCHANGED <<record, child, forward, late>>
      PROVE  Inv'
  <2>1. TablesOK'
    BY <1>i, <1>e DEF TypeOK, TablesOK
  <2> QED
    BY <1>o, <1>k, <1>f, <1>e, <1>q, <2>1
\* The child of a command is terminated.
<1>t. ASSUME NEW i \in Instance, Terminate(i), child[i].st # "none"
      PROVE  /\ child' \in [Instance -> [st : ChildState, port : Port \cup {0}]]
             /\ child'[i].st = "gone" /\ \A j \in Instance : Onward(j)
             /\ \A j \in Instance : child'[j].st \in {"acked", "serving"} =>
                   j # i /\ child[j].st \in {"acked", "serving"}
             /\ ChildrenHavePorts'
             /\ record' = record => RecordedIsReady' /\ AckedIsRecorded'
             /\ record' = NoRecord /\ record.i = i => RecordedIsReady' /\ AckedIsRecorded'
  <2>1. /\ child' \in [Instance -> [st : ChildState, port : Port \cup {0}]]
        /\ child'[i].st = "gone" /\ child'[i].port = child[i].port
        /\ \A j \in Instance \ {i} : child'[j] = child[j]
    BY <1>i, <1>t, ChildMoves DEF Terminate, Terminated, ChildState
  <2>2. \A j \in Instance : Onward(j)
    BY <2>1 DEF Onward
  <2>3. \A j \in Instance : child'[j].st \in {"acked", "serving"} =>
            j # i /\ child[j].st \in {"acked", "serving"}
    BY <2>1
  <2>4. ChildrenHavePorts'
    BY <1>i, <1>t, <2>1 DEF ChildrenHavePorts
  <2>5. record' = record => RecordedIsReady' /\ AckedIsRecorded'
    BY <1>i, <1>r, <2>2, <2>3 DEF RecordedIsReady, AckedIsRecorded, Onward
  <2>6. record' = NoRecord /\ record.i = i => RecordedIsReady' /\ AckedIsRecorded'
    BY <1>i, <2>3 DEF RecordedIsReady, AckedIsRecorded
  <2> QED
    BY <2>1, <2>2, <2>3, <2>4, <2>5, <2>6
\* A child that could not be handed over is terminated, and the command returns.
<1>a. ASSUME NEW p \in Proc, proc[p].pc \in Locked, proc[p].i \in Instance,
             child[proc[p].i].st # "none", Terminate(proc[p].i), Return(p),
             UNCHANGED <<record, forward, late>>
      PROVE  Inv'
  <2>1. PICK i \in Instance : i = proc[p].i
    BY <1>a
  <2>2. /\ child' \in [Instance -> [st : ChildState, port : Port \cup {0}]]
        /\ \A j \in Instance : Onward(j)
        /\ ChildrenHavePorts' /\ RecordedIsReady' /\ AckedIsRecorded'
    BY <1>a, <1>t, <2>1
  <2>3. TablesOK'
    BY <1>i, <1>a, <2>2 DEF TypeOK, TablesOK
  <2> QED
    BY <1>a, <1>f, <1>q, <2>2, <2>3
<1>3. ASSUME NEW p \in Proc, Handshake(p) PROVE Inv'
  <2>1. proc[p].pc = "handshake" /\ proc[p].pc \in Locked /\ record = NoRecord
        /\ proc[p].i \in Instance /\ child[proc[p].i].st # "none"
    BY <1>3, <1>p DEF Handshake, Locked, OwnChild, OwnRecord
  <2>2. CASE /\ child[proc[p].i].st = "ready" /\ Goto(p, "write")
             /\ UNCHANGED <<lock, record, child, forward, late>>
    <3>1. proc'[p].pc = "write" /\ proc'[p].i = proc[p].i /\ "write" \in Locked
      BY <1>i, <2>2, GotoRow DEF Locked
    <3>2. OwnChild(p)' /\ OwnRecord(p)'
      BY <2>1, <2>2, <3>1 DEF OwnChild, OwnRecord
    <3> QED
      BY <1>g, <2>1, <2>2, <3>1, <3>2
  <2>3. CASE Terminate(proc[p].i) /\ Return(p) /\ UNCHANGED <<record, forward, late>>
    BY <1>a, <2>1, <2>3
  <2> QED
    BY <1>3, <2>2, <2>3 DEF Handshake
<1>4. ASSUME NEW p \in Proc, WriteRecord(p) PROVE Inv'
  <2>1. /\ proc[p].pc = "write" /\ proc[p].pc \in Locked /\ record = NoRecord
        /\ proc[p].i \in Instance /\ child[proc[p].i].st \notin {"none", "boot"}
        /\ UNCHANGED <<forward, late>>
    BY <1>4, <1>p DEF WriteRecord, Locked, OwnChild, OwnRecord
  <2>2. CASE record' = Record(p, FALSE) /\ Goto(p, "acknowledge") /\ UNCHANGED <<lock, child>>
    <3>1. /\ proc' \in [Proc -> ProcRow] /\ proc'[p].pc = "acknowledge" /\ proc'[p].i = proc[p].i
          /\ proc'[p].share = proc[p].share /\ \A q \in Proc \ {p} : proc'[q] = proc[q]
      BY <1>i, <2>2, GotoRow DEF Locked
    <3>2. child[proc[p].i].port \in Port
      BY <1>i, <2>1 DEF ChildrenHavePorts
    <3>3. /\ record' \in RuntimeRecord /\ record' # NoRecord /\ record'.i = proc[p].i
          /\ record'.serve = proc[p].share /\ record'.port = child[proc[p].i].port
      BY <1>0, <1>p, <2>1, <2>2, <3>2 DEF Record, RuntimeRecord, NoRecord, ProcRow
    <3>4. TypeOK' /\ lock' = p
      BY <1>i, <2>1, <2>2, <3>1, <3>3 DEF TypeOK, TablesOK, LockHeld
    <3>5. ChildrenHavePorts' /\ RecordedIsReady' /\ AckedIsRecorded' /\ ForwardIsRecorded'
      BY <1>i, <1>n, <2>1, <2>2, <3>3
      DEF ChildrenHavePorts, RecordedIsReady, AckedIsRecorded, ForwardIsRecorded
    <3>6. OwnChild(p)' /\ OwnRecord(p)'
      BY <1>n, <2>1, <2>2, <3>1, <3>3 DEF OwnChild, OwnRecord
    <3> QED
      BY <1>o, <2>1, <2>2, <3>1, <3>4, <3>5, <3>6, ProcessStep
  <2>3. CASE Terminate(proc[p].i) /\ Return(p) /\ UNCHANGED record
    BY <1>a, <2>1, <2>3
  <2> QED
    BY <1>4, <2>2, <2>3 DEF WriteRecord
<1>5. ASSUME NEW p \in Proc, Acknowledge(p) PROVE Inv'
  <2>1. PICK i \in Instance : i = proc[p].i
    BY <1>5, <1>p DEF Acknowledge, OwnChild
  <2>2. /\ proc[p].pc = "acknowledge" /\ proc[p].pc \in Locked /\ record # NoRecord
        /\ record.i = i /\ child[i].st \notin {"none", "boot"}
        /\ record.serve = proc[p].share /\ record.port = child[i].port
        /\ \A n \in Port : forward[n] # "ours"
        /\ UNCHANGED <<forward, late>>
    BY <1>5, <1>p, <2>1 DEF Acknowledge, Locked, OwnChild, OwnRecord
  <2>3. CASE /\ child[i].st = "ready" /\ child' = [child EXCEPT ![i].st = "acked"]
             /\ Goto(p, "setup") /\ UNCHANGED <<lock, record>>
    <3>1. /\ proc' \in [Proc -> ProcRow] /\ proc'[p].pc = "setup" /\ proc'[p].i = i
          /\ proc'[p].share = proc[p].share /\ \A q \in Proc \ {p} : proc'[q] = proc[q]
      BY <1>i, <2>1, <2>3, GotoRow DEF Locked
    <3>2. /\ child' \in [Instance -> [st : ChildState, port : Port \cup {0}]]
          /\ child'[i].st = "acked" /\ child'[i].port = child[i].port
          /\ \A j \in Instance \ {i} : child'[j] = child[j]
      BY <1>i, <2>3, ChildMoves DEF ChildState
    <3>3. TypeOK' /\ lock' = p
      BY <1>i, <2>2, <2>3, <3>1, <3>2 DEF TypeOK, TablesOK, LockHeld
    <3>4. \A j \in Instance : Onward(j)
      BY <2>3, <3>2 DEF Onward
    <3>5. ChildrenHavePorts' /\ RecordedIsReady' /\ AckedIsRecorded'
      BY <1>i, <2>2, <2>3, <3>2 DEF ChildrenHavePorts, RecordedIsReady, AckedIsRecorded
    <3>6. OwnChild(p)' /\ OwnRecord(p)'
      BY <2>2, <2>3, <3>1, <3>2 DEF OwnChild, OwnRecord
    <3> QED
      BY <1>f, <2>2, <2>3, <3>1, <3>3, <3>4, <3>5, <3>6, ProcessStep
  <2>4. CASE Terminate(i) /\ Return(p) /\ record' = NoRecord
    <3>1. /\ child' \in [Instance -> [st : ChildState, port : Port \cup {0}]]
          /\ \A j \in Instance : Onward(j)
          /\ ChildrenHavePorts' /\ RecordedIsReady' /\ AckedIsRecorded'
      BY <1>t, <2>2, <2>4
    <3>2. TablesOK' /\ ForwardIsRecorded'
      BY <1>i, <2>2, <2>4, <3>1 DEF TypeOK, TablesOK, ForwardIsRecorded
    <3> QED
      BY <1>q, <2>2, <2>4, <3>1, <3>2
  <2> QED
    BY <1>5, <2>1, <2>2, <2>3, <2>4 DEF Acknowledge
<1>6. ASSUME NEW p \in Proc, FinishStart(p) PROVE Inv'
  <2>1. PICK i \in Instance : i = proc[p].i
    BY <1>6, <1>p DEF FinishStart, OwnChild
  <2>2. /\ proc[p].pc = "setup" /\ proc[p].pc \in Locked /\ record # NoRecord
        /\ record.i = i /\ child[i].st \notin {"none", "boot"}
        /\ record.serve = proc[p].share /\ record.port = child[i].port
        /\ UNCHANGED <<lock, record, child>>
    BY <1>6, <1>p, <2>1 DEF FinishStart, Locked, OwnChild, OwnRecord
  <2>3. PICK pc \in {"publish", "failed"} : Goto(p, pc)
    BY <1>6 DEF FinishStart
  <2>4. /\ proc' \in [Proc -> ProcRow] /\ proc'[p].pc = pc /\ pc \in Locked /\ proc'[p].i = i
        /\ proc'[p].share = proc[p].share /\ \A q \in Proc \ {p} : proc'[q] = proc[q]
    BY <1>i, <2>1, <2>3, GotoRow DEF Locked
  <2>5. /\ forward' = forward \/ (proc[p].share /\ forward' = [forward EXCEPT ![record.port] = "ours"])
        /\ late' = late \/ late' = late \cup {record.port}
    BY <1>6, <2>1, <2>2 DEF FinishStart
  <2>6. TypeOK' /\ lock' = p
    BY <1>i, <1>r, <2>2, <2>4, <2>5 DEF TypeOK, TablesOK, LockHeld
  <2>7. ForwardIsRecorded'
    BY <1>i, <1>r, <2>2, <2>5 DEF ForwardIsRecorded, Recorded, TypeOK, TablesOK
  <2>8. OwnChild(p)' /\ OwnRecord(p)'
    BY <2>2, <2>4 DEF OwnChild, OwnRecord
  <2> QED
    BY <1>o, <1>k, <2>2, <2>4, <2>6, <2>7, <2>8, ProcessStep
<1>7. ASSUME NEW p \in Proc, Publish(p) PROVE Inv'
  <2>1. PICK i \in Instance : i = proc[p].i
    BY <1>7, <1>p DEF Publish, OwnChild
  <2>2. /\ proc[p].pc = "publish" /\ proc[p].pc \in Locked /\ record # NoRecord
        /\ record.i = i /\ child[i].st \notin {"none", "boot"}
        /\ record.serve = proc[p].share /\ record.port = child[i].port
        /\ UNCHANGED <<child, forward, late>>
    BY <1>7, <1>p, <2>1 DEF Publish, Locked, OwnChild, OwnRecord
  <2>3. /\ record' \in RuntimeRecord /\ record' # NoRecord /\ record'.i = i
        /\ record'.serve = proc[p].share /\ record'.port = child[i].port
    <3>1. record' = record \/ record' = Record(p, proc[p].share)
      BY <1>7 DEF Publish
    <3>2. Record(p, proc[p].share) = [i |-> i, port |-> record.port, serve |-> proc[p].share,
                                      advertised |-> proc[p].share]
      BY <2>1, <2>2 DEF Record
    <3>3. proc[p].share \in BOOLEAN
      BY <1>p DEF ProcRow
    <3> QED
      BY <1>0, <1>r, <2>2, <3>1, <3>2, <3>3 DEF RuntimeRecord, NoRecord
  <2>4. TablesOK'
    BY <1>i, <2>2, <2>3 DEF TypeOK, TablesOK
  <2>5. ChildrenHavePorts' /\ RecordedIsReady' /\ AckedIsRecorded' /\ ForwardIsRecorded'
    BY <1>i, <2>2, <2>3
    DEF ChildrenHavePorts, RecordedIsReady, AckedIsRecorded, ForwardIsRecorded, Recorded
  <2>6. lock = p
    BY <1>i, <2>2 DEF LockHeld
  <2>7. CASE Return(p)
    BY <1>o, <1>q, <2>2, <2>4, <2>5, <2>7
  <2>8. CASE Goto(p, "wait") /\ lock' = None
    <3>1. /\ proc' \in [Proc -> ProcRow] /\ proc'[p].pc = "wait" /\ proc'[p].i = i
          /\ \A q \in Proc \ {p} : proc'[q] = proc[q]
      BY <1>i, <2>1, <2>8, GotoRow
    <3>2. TypeOK'
      BY <2>4, <2>8, <3>1 DEF TypeOK
    <3>3. OwnChild(p)' /\ OwnRecord(p)' /\ proc'[p].pc \notin Locked
      BY <2>2, <3>1 DEF OwnChild, OwnRecord, Locked
    <3> QED
      BY <1>o, <2>2, <2>5, <2>6, <3>1, <3>2, <3>3, ProcessStep
  <2>9. CASE Goto(p, "failed") /\ UNCHANGED lock
    <3>1. /\ proc' \in [Proc -> ProcRow] /\ proc'[p].pc = "failed" /\ proc'[p].i = i
          /\ proc'[p].share = proc[p].share /\ \A q \in Proc \ {p} : proc'[q] = proc[q]
      BY <1>i, <2>1, <2>9, GotoRow DEF Locked
    <3>2. TypeOK'
      BY <1>i, <2>4, <2>9, <3>1 DEF TypeOK
    <3>3. OwnChild(p)' /\ OwnRecord(p)'
      BY <2>2, <2>3, <3>1 DEF OwnChild, OwnRecord
    <3> QED
      BY <1>o, <2>2, <2>5, <2>6, <2>9, <3>1, <3>2, <3>3, ProcessStep
  <2> QED
    BY <1>7, <2>7, <2>8, <2>9 DEF Publish
\* The forward of the record is withdrawn before the record is removed.
<1>v. ASSUME record # NoRecord, NEW ok \in BOOLEAN, CleanAndRemove(ok)
      PROVE  /\ forward' \in [Port -> {"none", "foreign", "ours", "late"}]
             /\ record' = (IF ok THEN NoRecord ELSE record)
             /\ record' \in RuntimeRecord \cup {NoRecord}
             /\ ForwardIsRecorded'
  <2>1. /\ forward' \in [Port -> {"none", "foreign", "ours", "late"}]
        /\ record' = (IF ok THEN NoRecord ELSE record)
        /\ \A n \in Port : forward'[n] = "ours" => forward[n] = "ours"
        /\ ok => \A n \in Port : forward'[n] # "ours"
    BY <1>i, <1>v, CleanEffect
  <2> QED
    BY <1>i, <1>f, <2>1 DEF ForwardIsRecorded, TypeOK, TablesOK
\* Where the recorded router is gone, its record may be cleaned up.
<1>c. ASSUME record # NoRecord, child[record.i].st \notin {"acked", "serving"}, child' = child,
             record' \in {record, NoRecord}
      PROVE  ChildrenHavePorts' /\ RecordedIsReady' /\ AckedIsRecorded'
  BY <1>i, <1>k, <1>c DEF RecordedIsReady, AckedIsRecorded
<1>s. ASSUME NEW p \in Proc, proc[p].pc \in Locked, record # NoRecord,
             child[record.i].st \notin {"acked", "serving"},
             NEW ok \in BOOLEAN, CleanAndRemove(ok), Return(p), UNCHANGED <<child, late>>
      PROVE  Inv'
  <2>1. TablesOK'
    BY <1>i, <1>s, <1>v DEF TypeOK, TablesOK
  <2>2. ChildrenHavePorts' /\ RecordedIsReady' /\ AckedIsRecorded' /\ ForwardIsRecorded'
    BY <1>s, <1>v, <1>c
  <2> QED
    BY <1>o, <1>q, <1>s, <2>1, <2>2
<1>8. ASSUME NEW p \in Proc, CleanupFailedStart(p) PROVE Inv'
  <2>1. PICK i \in Instance : i = proc[p].i
    BY <1>8, <1>p DEF CleanupFailedStart, OwnChild
  <2>2. /\ proc[p].pc \in Locked /\ record # NoRecord /\ record.i = i /\ child[i].st # "none"
        /\ Terminate(i) /\ Return(p) /\ late' = late
    BY <1>8, <1>p, <2>1 DEF CleanupFailedStart, Locked, OwnChild, OwnRecord
  <2>3. PICK ok \in BOOLEAN : CleanAndRemove(ok)
    BY <1>8 DEF CleanupFailedStart
  <2>4. /\ forward' \in [Port -> {"none", "foreign", "ours", "late"}]
        /\ record' \in RuntimeRecord \cup {NoRecord}
        /\ record' \in {record, NoRecord} /\ ForwardIsRecorded'
    BY <1>v, <2>2, <2>3
  <2>5. /\ child' \in [Instance -> [st : ChildState, port : Port \cup {0}]]
        /\ \A j \in Instance : Onward(j)
        /\ ChildrenHavePorts' /\ RecordedIsReady' /\ AckedIsRecorded'
    BY <1>t, <2>2, <2>4
  <2>6. TablesOK'
    BY <1>i, <2>2, <2>4, <2>5 DEF TypeOK, TablesOK
  <2> QED
    BY <1>q, <2>2, <2>4, <2>5, <2>6
<1>9. ASSUME NEW p \in Proc, Wait(p) PROVE Inv'
  <2>1. PICK i \in Instance : i = proc[p].i
    BY <1>9, <1>p DEF Wait, OwnChild
  <2>2. /\ child[i].st # "none" /\ Terminate(i) /\ Goto(p, "relock")
        /\ UNCHANGED <<lock, record, forward, late>>
    BY <1>9, <1>p, <2>1 DEF Wait, OwnChild
  <2>3. /\ proc' \in [Proc -> ProcRow] /\ proc'[p].pc = "relock" /\ proc'[p].i = i
        /\ \A q \in Proc \ {p} : proc'[q] = proc[q]
    BY <1>i, <2>1, <2>2, GotoRow
  <2>4. /\ child' \in [Instance -> [st : ChildState, port : Port \cup {0}]]
        /\ child'[i].st = "gone" /\ \A j \in Instance : Onward(j)
        /\ ChildrenHavePorts' /\ RecordedIsReady' /\ AckedIsRecorded'
    BY <1>t, <2>2
  <2>5. TypeOK'
    BY <1>i, <2>2, <2>3, <2>4 DEF TypeOK, TablesOK
  <2>6. OwnChild(p)' /\ OwnRecord(p)' /\ proc'[p].pc \notin Locked
    BY <2>3, <2>4 DEF OwnChild, OwnRecord, Locked
  <2> QED
    BY <1>f, <2>2, <2>3, <2>4, <2>5, <2>6, ProcessStep
<1>10. ASSUME NEW p \in Proc, Relock(p) PROVE Inv'
  <2>1. /\ proc[p].i \in Instance /\ child[proc[p].i].st = "gone"
        /\ UNCHANGED <<record, child, forward, late>>
    BY <1>10, <1>p DEF Relock, OwnChild
  <2>2. CASE lock = None /\ lock' = p /\ Goto(p, "exited")
    <3>1. /\ proc' \in [Proc -> ProcRow] /\ proc'[p].pc = "exited" /\ proc'[p].i = proc[p].i
          /\ \A q \in Proc \ {p} : proc'[q] = proc[q]
      BY <1>i, <2>2, GotoRow DEF Locked
    <3>2. TypeOK'
      BY <1>i, <2>1, <2>2, <3>1 DEF TypeOK, TablesOK
    <3>3. OwnChild(p)' /\ OwnRecord(p)'
      BY <2>1, <3>1 DEF OwnChild, OwnRecord
    <3> QED
      BY <1>o, <1>k, <1>f, <2>1, <2>2, <3>1, <3>2, <3>3, ProcessStep
  <2>3. CASE proc' = [proc EXCEPT ![p] = Idle] /\ lock' = lock
    <3>1. /\ proc' \in [Proc -> ProcRow] /\ proc'[p].pc = "idle"
          /\ \A q \in Proc \ {p} : proc'[q] = proc[q]
      BY <1>i, <2>3, IdleRow
    <3>2. TypeOK'
      BY <1>i, <2>1, <2>3, <3>1 DEF TypeOK, TablesOK
    <3>3. OwnChild(p)' /\ OwnRecord(p)' /\ proc'[p].pc \notin Locked
      BY <3>1 DEF OwnChild, OwnRecord, Locked
    <3> QED
      BY <1>o, <1>k, <1>f, <2>1, <2>3, <3>1, <3>2, <3>3, ProcessStep
  <2> QED
    BY <1>10, <2>2, <2>3 DEF Relock
<1>11. ASSUME NEW p \in Proc, Exited(p) PROVE Inv'
  <2>1. /\ proc[p].pc \in Locked /\ proc[p].i \in Instance /\ child[proc[p].i].st = "gone"
        /\ Return(p) /\ UNCHANGED <<child, late>>
    BY <1>11, <1>p DEF Exited, OwnChild, Locked
  <2>2. CASE record.i = proc[p].i
    <3>1. record # NoRecord
      BY <1>0, <1>r, <2>1, <2>2
    <3>2. PICK ok \in BOOLEAN : CleanAndRemove(ok)
      BY <1>11, <2>2 DEF Exited
    <3> QED
      BY <1>s, <2>1, <2>2, <3>1, <3>2
  <2>3. CASE record.i # proc[p].i
    <3>1. UNCHANGED <<record, forward>>
      BY <1>11, <2>3 DEF Exited
    <3> QED
      BY <1>e, <2>1, <3>1
  <2> QED
    BY <2>2, <2>3
\* What a refused probe tells of the recorded router.
<1>b. ASSUME record # NoRecord, "refused" \in Probe(record)
      PROVE  child[record.i].st \in {"draining", "gone"}
  <2>1. child[record.i].st \in ChildState /\ child[record.i].st \notin {"none", "boot"}
    BY <1>i, <1>r, <1>b DEF TypeOK, TablesOK, RecordedIsReady
  <2>2. child[record.i].st # "serving" /\ ~ Bound(record.i)
    BY <1>b, <1>r DEF Probe
  <2> QED
    BY <2>1, <2>2 DEF Bound, ChildState
<1>12. ASSUME NEW p \in Proc, StopProbe(p) PROVE Inv'
  <2>1. /\ proc[p].pc = "stop" /\ proc[p].pc \in Locked /\ record # NoRecord
        /\ UNCHANGED <<record, forward, late>> /\ lock = p
    BY <1>12, <1>i, <1>p DEF StopProbe, Locked, OwnRecord, LockHeld
  <2>2. CASE "refused" \in Probe(record) /\ Goto(p, "clean") /\ UNCHANGED <<lock, child>>
    <3>1. proc'[p].pc = "clean" /\ "clean" \in Locked
      BY <1>i, <2>2, GotoRow DEF Locked
    <3>2. OwnChild(p)' /\ OwnRecord(p)'
      BY <1>b, <2>1, <2>2, <3>1 DEF OwnChild, OwnRecord
    <3> QED
      BY <1>g, <2>1, <2>2, <3>1, <3>2
  <2>3. CASE Return(p) /\ UNCHANGED child
    BY <1>e, <2>1, <2>3
  <2>4. CASE /\ "ok" \in Probe(record) /\ child' = [child EXCEPT ![record.i].st = "draining"]
             /\ Goto(p, "drain") /\ UNCHANGED lock
    <3>1. PICK i \in Instance : i = record.i
      BY <1>r, <2>1
    <3>2. child[i].st = "serving"
      BY <2>4, <3>1 DEF Probe
    <3>3. /\ child' \in [Instance -> [st : ChildState, port : Port \cup {0}]]
          /\ child'[i].st = "draining" /\ child'[i].port = child[i].port
          /\ \A j \in Instance \ {i} : child'[j] = child[j]
      BY <1>i, <2>4, <3>1, ChildMoves DEF ChildState
    <3>4. \A j \in Instance : Onward(j)
      BY <3>2, <3>3 DEF Onward
    <3>5. /\ proc' \in [Proc -> ProcRow] /\ proc'[p].pc = "drain"
          /\ \A q \in Proc \ {p} : proc'[q] = proc[q]
      BY <1>i, <2>4, GotoRow DEF Locked
    <3>6. TypeOK'
      BY <1>i, <2>1, <2>4, <3>3, <3>5 DEF TypeOK, TablesOK
    <3>7. ChildrenHavePorts' /\ RecordedIsReady' /\ AckedIsRecorded'
      BY <1>i, <2>1, <3>1, <3>2, <3>3 DEF ChildrenHavePorts, RecordedIsReady, AckedIsRecorded
    <3>8. OwnChild(p)' /\ OwnRecord(p)'
      BY <2>1, <3>5 DEF OwnChild, OwnRecord
    <3> QED
      BY <1>f, <2>1, <2>4, <3>4, <3>5, <3>6, <3>7, <3>8, ProcessStep
  <2> QED
    BY <1>12, <2>2, <2>3, <2>4 DEF StopProbe
<1>13. ASSUME NEW p \in Proc, WaitStopped(p) PROVE Inv'
  <2>1. /\ proc[p].pc \in Locked /\ record # NoRecord /\ UNCHANGED <<record, child, forward, late>>
    BY <1>13, <1>p DEF WaitStopped, Locked, OwnRecord
  <2>2. CASE "refused" \in Probe(record) /\ Goto(p, "clean") /\ UNCHANGED lock
    <3>1. proc'[p].pc = "clean" /\ "clean" \in Locked
      BY <1>i, <2>2, GotoRow DEF Locked
    <3>2. OwnChild(p)' /\ OwnRecord(p)'
      BY <1>b, <2>1, <2>2, <3>1 DEF OwnChild, OwnRecord
    <3> QED
      BY <1>g, <2>1, <2>2, <3>1, <3>2
  <2>3. CASE Return(p)
    BY <1>e, <2>1, <2>3
  <2> QED
    BY <1>13, <2>2, <2>3 DEF WaitStopped
<1>14. ASSUME NEW p \in Proc, StopClean(p) PROVE Inv'
  <2>1. /\ proc[p].pc \in Locked /\ record # NoRecord /\ child[record.i].st \in {"draining", "gone"}
        /\ Return(p) /\ UNCHANGED <<child, late>>
    BY <1>14, <1>p DEF StopClean, Locked, OwnRecord
  <2>2. PICK ok \in BOOLEAN : CleanAndRemove(ok)
    BY <1>14 DEF StopClean
  <2> QED
    BY <1>s, <2>1, <2>2
<1>15. ASSUME NEW p \in Proc, StartProbe(p) PROVE Inv'
  <2>1. proc[p].pc = "probe" /\ proc[p].pc \in Locked /\ UNCHANGED <<child, late>> /\ lock = p
    BY <1>15, <1>i DEF StartProbe, Locked, LockHeld
  <2>2. ASSUME Goto(p, "launch")
        PROVE  /\ proc' \in [Proc -> ProcRow] /\ proc'[p].pc = "launch" /\ "launch" \in Locked
               /\ \A q \in Proc \ {p} : proc'[q] = proc[q]
    BY <1>i, <2>2, GotoRow DEF Locked
  <2>3. CASE record = NoRecord /\ Goto(p, "launch") /\ UNCHANGED <<lock, record, forward>>
    <3>1. OwnChild(p)' /\ OwnRecord(p)'
      BY <2>2, <2>3 DEF OwnChild, OwnRecord
    <3> QED
      BY <1>g, <2>1, <2>2, <2>3, <3>1
  <2>4. CASE Return(p) /\ UNCHANGED <<record, forward>>
    BY <1>e, <2>1, <2>4
  <2>5. CASE record # NoRecord /\ "refused" \in Probe(record) /\ CleanAndRemove(TRUE)
             /\ Goto(p, "launch") /\ UNCHANGED lock
    <3>1. PICK ok \in BOOLEAN : ok = TRUE
      OBVIOUS
    <3>2. /\ forward' \in [Port -> {"none", "foreign", "ours", "late"}]
          /\ record' = NoRecord /\ ForwardIsRecorded'
      BY <1>v, <2>5, <3>1
    <3>3. ChildrenHavePorts' /\ RecordedIsReady' /\ AckedIsRecorded'
      BY <1>b, <1>c, <2>1, <2>5, <3>2
    <3>4. TypeOK'
      BY <1>i, <2>1, <2>2, <2>5, <3>2 DEF TypeOK, TablesOK
    <3>5. OwnChild(p)' /\ OwnRecord(p)'
      BY <2>2, <2>5, <3>2 DEF OwnChild, OwnRecord
    <3> QED
      BY <1>o, <2>1, <2>2, <2>5, <3>2, <3>3, <3>4, <3>5, ProcessStep
  <2>6. CASE record # NoRecord /\ "refused" \in Probe(record) /\ CleanAndRemove(FALSE) /\ Return(p)
    <3>1. PICK ok \in BOOLEAN : ok = FALSE
      OBVIOUS
    <3>2. CleanAndRemove(ok)
      BY <2>6, <3>1
    <3> QED
      BY <1>b, <1>s, <2>1, <2>6, <3>2
  <2> QED
    BY <1>15, <2>3, <2>4, <2>5, <2>6 DEF StartProbe
<1>16. ASSUME NEW p \in Proc, Launch(p) PROVE Inv'
  <2>1. /\ proc[p].pc \in Locked /\ record = NoRecord /\ UNCHANGED <<record, forward, late>> /\ lock = p
    BY <1>16, <1>i, <1>p DEF Launch, Locked, OwnRecord, LockHeld
  <2>2. ASSUME NEW i \in Fresh, NEW n \in Port,
               child' = [child EXCEPT ![i] = [st |-> "boot", port |-> n]],
               proc' = [proc EXCEPT ![p].pc = "handshake", ![p].i = i], UNCHANGED lock
        PROVE  Inv'
    <3>1. i \in Instance /\ child[i].st = "none"
      BY DEF Fresh
    <3>2. /\ child' \in [Instance -> [st : ChildState, port : Port \cup {0}]]
          /\ child'[i].st = "boot" /\ child'[i].port = n
          /\ \A j \in Instance \ {i} : child'[j] = child[j]
      BY <1>i, <2>2, <3>1 DEF TypeOK, TablesOK, ChildState
    <3>3. /\ proc' \in [Proc -> ProcRow] /\ proc'[p].pc = "handshake" /\ proc'[p].i = i
          /\ \A q \in Proc \ {p} : proc'[q] = proc[q]
      BY <1>i, <2>2, <3>1 DEF TypeOK, ProcRow, Locked
    <3>4. TypeOK'
      BY <1>i, <2>1, <2>2, <3>2, <3>3 DEF TypeOK, TablesOK
    <3>5. \A j \in Instance : Onward(j)
      BY <3>1, <3>2 DEF Onward
    <3>6. ChildrenHavePorts' /\ RecordedIsReady' /\ AckedIsRecorded'
      BY <1>i, <2>1, <3>2 DEF ChildrenHavePorts, RecordedIsReady, AckedIsRecorded
    <3>7. OwnChild(p)' /\ OwnRecord(p)'
      BY <2>1, <3>1, <3>2, <3>3 DEF OwnChild, OwnRecord
    <3> QED
      BY <1>f, <2>1, <2>2, <3>3, <3>4, <3>5, <3>6, <3>7, ProcessStep
  <2>3. CASE Return(p) /\ UNCHANGED child
    BY <1>e, <2>1, <2>3
  <2> QED
    BY <1>16, <2>2, <2>3 DEF Launch
<1>17. ASSUME NEW p \in Proc, Crash(p) PROVE Inv'
  <2>1. /\ proc' = [proc EXCEPT ![p] = Idle] /\ lock' = (IF lock = p THEN None ELSE lock)
        /\ UNCHANGED <<record, child, forward, late>>
    BY <1>17 DEF Crash
  <2>2. /\ proc' \in [Proc -> ProcRow] /\ proc'[p].pc = "idle"
        /\ \A q \in Proc \ {p} : proc'[q] = proc[q]
    BY <1>i, <2>1, IdleRow
  <2>3. TypeOK'
    BY <1>i, <2>1, <2>2 DEF TypeOK, TablesOK
  <2>4. OwnChild(p)' /\ OwnRecord(p)' /\ proc'[p].pc \notin Locked
    BY <2>2 DEF OwnChild, OwnRecord, Locked
  <2> QED
    BY <1>o, <1>k, <1>f, <2>1, <2>2, <2>3, <2>4, ProcessStep
\* The steps of the children.
<1>18. ASSUME NEW i \in Instance, NEW st \in {"ready", "serving", "gone"},
              child' = [child EXCEPT ![i].st = st], UNCHANGED <<lock, record, proc, forward, late>>,
              \/ child[i].st = "boot" /\ st = "ready"
              \/ child[i].st = "acked" /\ st = "serving"
              \/ child[i].st # "none" /\ st = "gone"
       PROVE  Inv'
  <2>1. /\ child' \in [Instance -> [st : ChildState, port : Port \cup {0}]]
        /\ child'[i].st = st /\ child'[i].port = child[i].port
        /\ \A j \in Instance \ {i} : child'[j] = child[j]
    BY <1>i, <1>18, ChildMoves DEF ChildState
  <2>2. TypeOK'
    BY <1>i, <1>18, <2>1 DEF TypeOK, TablesOK
  <2>3. \A j \in Instance : Onward(j)
    BY <1>18, <2>1 DEF Onward
  <2>4. \A j \in Instance : /\ child'[j].st # "none" => child[j].st # "none"
                            /\ child'[j].st \in {"acked", "serving"} => child[j].st \in {"acked", "serving"}
    BY <1>18, <2>1
  <2> QED
    BY <1>18, <2>2, <2>3, <2>4, BackgroundStep
<1>19. ASSUME NEW n \in Port, LateCommand(n) PROVE Inv'
  <2>1. PICK f \in {"late", forward[n]} : forward' = [forward EXCEPT ![n] = f]
    BY <1>19 DEF LateCommand
  <2>2. late' \subseteq late /\ UNCHANGED <<lock, record, child, proc>>
    BY <1>19 DEF LateCommand
  <2>3. TypeOK' /\ \A m \in Port : forward'[m] = "ours" => forward[m] = "ours"
    BY <1>i, <2>1, <2>2 DEF TypeOK, TablesOK
  <2> QED
    BY <1>o, <2>2, <2>3, BackgroundStep
<1>20. ASSUME NEW p \in Proc, StartStep(p) PROVE Inv'
  BY <1>20, <1>3, <1>4, <1>5, <1>6, <1>7, <1>8, <1>10, <1>11, <1>15, <1>16 DEF StartStep
<1>21. ASSUME NEW p \in Proc, StopStep(p) PROVE Inv'
  BY <1>21, <1>12, <1>13, <1>14 DEF StopStep
<1>22. ASSUME NEW i \in Instance, ChildReady(i) \/ ChildServes(i) \/ ChildExits(i) PROVE Inv'
  BY <1>22, <1>18 DEF ChildReady, ChildServes, ChildExits, Terminate, Terminated
<1>23. CASE UNCHANGED vars
  <2>1. TypeOK'
    BY <1>i, <1>23 DEF vars, TypeOK, TablesOK
  <2> QED
    BY <1>23, <1>o, <2>1, BackgroundStep DEF vars
<1> QED
  BY <1>1, <1>2, <1>9, <1>17, <1>19, <1>20, <1>21, <1>22, <1>23 DEF Next

LEMMA Invariant == Spec => []Inv
<1>1. Init => Inv
  <2> SUFFICES ASSUME Init PROVE Inv
    OBVIOUS
  <2>1. /\ lock = None /\ record = NoRecord /\ late = {}
        /\ \A i \in Instance : child[i].st = "none" /\ child[i].port = 0
        /\ \A p \in Proc : proc[p] = Idle /\ proc[p].pc = "idle"
        /\ \A n \in Port : forward[n] # "ours"
    BY DEF Init, Idle
  <2>2. TypeOK
    BY DEF Init, TypeOK, TablesOK, ChildState, ProcRow, Idle
  <2> QED
    BY <2>1, <2>2 DEF Inv, LockHeld, ChildrenHavePorts, RecordedIsReady, AckedIsRecorded,
                      ForwardIsRecorded, OwnChild, OwnRecord, Locked
<1>2. Inv /\ [Next]_vars => Inv'
  BY InvStep
<1> QED
  BY <1>1, <1>2, PTL DEF Spec

\* ServingIsRecorded, checked by the run launcher: for any number of launchers,
\* whichever of them crash, a router that serves is the one the runtime record
\* names, so that start reuses it and stop finds it.
THEOREM ServingRouterIsRecorded == Spec => []ServingIsRecorded
<1>1. Inv => ServingIsRecorded
  BY DEF Inv, AckedIsRecorded, ServingIsRecorded
<1> QED
  BY <1>1, Invariant, PTL

\* ForwardIsRecorded, checked by the run launcher: every forward a launcher
\* enabled in time is named by the runtime record until it is withdrawn.
THEOREM ForwardsAreRecorded == Spec => []ForwardIsRecorded
<1>1. Inv => ForwardIsRecorded
  BY DEF Inv
<1> QED
  BY <1>1, Invariant, PTL

\* At most one launcher reads and changes the runtime record at a time.
THEOREM LaunchersExclude ==
    Spec => [](\A p, q \in Proc : proc[p].pc \in Locked /\ proc[q].pc \in Locked => p = q)
<1>1. Inv => \A p, q \in Proc : proc[p].pc \in Locked /\ proc[q].pc \in Locked => p = q
  BY DEF Inv, LockHeld
<1> QED
  BY <1>1, Invariant, PTL
==============================================================================
