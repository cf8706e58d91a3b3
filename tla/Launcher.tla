------------------------------ MODULE Launcher ------------------------------
(* The launcher of the owned router: src/src/process.rs and the part of       *)
(* src/src/app.rs that calls it and that runs the child.                      *)
(*                                                                            *)
(* Launcher processes start and stop one router per data directory.  They     *)
(* exclude each other with a file lock, find the router through a runtime     *)
(* record, hand the child over by a handshake on its standard streams and     *)
(* share it through a Tailscale forward that they own.  Launchers and         *)
(* children may die at any step; files and forwards outlive them.             *)
EXTENDS Naturals

CONSTANTS
    Proc,         \* launcher processes
    None,         \* no process
    Port,         \* ports the router may listen on; one when ASR_BIND fixes it
    MaxInstance   \* bound: routers launched

ASSUME LauncherAssumption == None \notin Proc /\ MaxInstance \in Nat \ {0} /\ 0 \notin Port

VARIABLES
    lock,      \* holder of the launcher lock
    record,    \* the runtime record in the data directory
    child,     \* the routers launched, by instance
    proc,      \* the launcher processes
    forward,   \* TCP forwards of Tailscale Serve; "late" is one of ours, made too late
    late       \* ports with an abandoned `tailscale serve` still running

Instance == 1 .. MaxInstance

NoRecord == [i |-> 0]

Idle == [pc |-> "idle", i |-> 0, bg |-> FALSE, share |-> FALSE]

vars == <<lock, record, child, proc, forward, late>>

\* A child boots, holds the store and waits for its acknowledgement, serves,
\* and closes its listener before it exits.
Bound(i) == child[i].st \in {"ready", "acked", "serving"}

Fresh == {i \in Instance : child[i].st = "none" /\ \A j \in Instance : j < i => child[j].st # "none"}

-----------------------------------------------------------------------------
(* Steps every command is made of.                                            *)

Goto(p, pc) == proc' = [proc EXCEPT ![p].pc = pc]

\* The command returns and its lock is dropped.
Return(p) == proc' = [proc EXCEPT ![p] = Idle] /\ lock' = None

Terminated(i) == [child EXCEPT ![i].st = "gone"]

Terminate(i) == child' = Terminated(i)

\* What a health probe of the recorded router can find.
Probe(r) ==
    IF child[r.i].st = "serving" THEN {"ok", "error"}
    ELSE IF \E j \in Instance : Bound(j) /\ (j = r.i \/ child[j].port = r.port) THEN {"error"}
    ELSE {"refused"}

\* cleanup_owned_serve: forwards before and after, and whether it succeeded.
\* A forward to another target is a conflict; the command may fail either way.
CleanedServe(r) ==
    IF ~r.serve THEN {[ok |-> TRUE, forward |-> forward]}
    ELSE LET off == [forward EXCEPT ![r.port] = "none"] IN
         CASE forward[r.port] = "none" -> {[ok |-> ok, forward |-> forward] : ok \in BOOLEAN}
           [] forward[r.port] \in {"ours", "late"} -> {[ok |-> TRUE, forward |-> off]}
                                          \cup {[ok |-> FALSE, forward |-> f] : f \in {off, forward}}
           [] OTHER -> {[ok |-> FALSE, forward |-> forward]}

\* MUTANT: the forward is taken to be gone when the record is stale.
MutRemoveOnly(ok) == forward' = forward /\ record' = IF ok THEN NoRecord ELSE record

\* The forward of the record is cleaned up and then the record is removed.
CleanAndRemove(ok) ==
    \E c \in CleanedServe(record) :
        c.ok = ok /\ forward' = c.forward /\ record' = IF ok THEN NoRecord ELSE record

-----------------------------------------------------------------------------
(* start.                                                                     *)

Start(p, bg, share) ==
    /\ proc[p] = Idle /\ lock = None
    /\ lock' = p
    /\ proc' = [proc EXCEPT ![p] = [pc |-> "probe", i |-> 0, bg |-> bg, share |-> share]]
    /\ UNCHANGED <<record, child, forward, late>>

\* An existing router is reused, a stale record is cleaned up.
StartProbe(p) ==
    /\ proc[p].pc = "probe"
    /\ \/ record = NoRecord /\ Goto(p, "launch") /\ UNCHANGED <<lock, record, forward>>
       \/ /\ record # NoRecord /\ Probe(record) \ {"refused"} # {}
          /\ Return(p) /\ UNCHANGED <<record, forward>>
       \/ /\ record # NoRecord /\ "refused" \in Probe(record)
          /\ \/ CleanAndRemove(TRUE) /\ Goto(p, "launch") /\ UNCHANGED lock
             \/ CleanAndRemove(FALSE) /\ Return(p)
    /\ UNCHANGED <<child, late>>

\* The share mode is resolved and the child spawned, unless either is refused.
Launch(p) ==
    /\ proc[p].pc = "launch"
    /\ \/ \E i \in Fresh, n \in Port :
            /\ child' = [child EXCEPT ![i] = [st |-> "boot", port |-> n]]
            /\ proc' = [proc EXCEPT ![p].pc = "handshake", ![p].i = i]
            /\ UNCHANGED lock
       \/ Return(p) /\ UNCHANGED child
    /\ UNCHANGED <<record, forward, late>>

\* Readiness is read, and for a shared router the port must be free of forwards.
\* A child that is late, wrong or interrupted is terminated.
Handshake(p) ==
    /\ proc[p].pc = "handshake"
    /\ \/ /\ child[proc[p].i].st = "ready"
          /\ proc[p].share => forward[child[proc[p].i].port] = "none"
          /\ Goto(p, "write") /\ UNCHANGED <<lock, child>>
       \/ Terminate(proc[p].i) /\ Return(p)
    /\ UNCHANGED <<record, forward, late>>

Record(p, advertised) ==
    [i |-> proc[p].i, port |-> child[proc[p].i].port, serve |-> proc[p].share,
     advertised |-> advertised]

\* The record names the instance and its forward before either is let go.
WriteRecord(p) ==
    /\ proc[p].pc = "write"
    /\ \/ record' = Record(p, FALSE) /\ Goto(p, "acknowledge") /\ UNCHANGED <<lock, child>>
       \/ Terminate(proc[p].i) /\ Return(p) /\ UNCHANGED record
    /\ UNCHANGED <<forward, late>>

Acknowledge(p) ==
    /\ proc[p].pc = "acknowledge"
    /\ \/ /\ child[proc[p].i].st = "ready"
          /\ child' = [child EXCEPT ![proc[p].i].st = "acked"]
          /\ Goto(p, "setup") /\ UNCHANGED <<lock, record>>
       \/ /\ Terminate(proc[p].i) /\ Return(p)
          /\ record' = IF record.i = proc[p].i THEN NoRecord ELSE record
    /\ UNCHANGED <<forward, late>>

\* finish_start: the router answers, and for a shared one the forward is
\* enabled.  STARTUP_TIMEOUT abandons the command, it does not undo it.
FinishStart(p) ==
    /\ proc[p].pc = "setup"
    /\ LET n == child[proc[p].i].port IN
       \/ /\ child[proc[p].i].st = "serving"
          /\ forward' = IF proc[p].share THEN [forward EXCEPT ![n] = "ours"] ELSE forward
          /\ Goto(p, "publish") /\ UNCHANGED late
       \/ Goto(p, "failed") /\ UNCHANGED <<forward, late>>
       \/ /\ proc[p].share /\ child[proc[p].i].st = "serving"
          /\ Goto(p, "failed")
          /\ \/ forward' = [forward EXCEPT ![n] = "ours"] /\ UNCHANGED late
             \/ late' = late \cup {n} /\ UNCHANGED forward
    /\ UNCHANGED <<lock, record, child>>

\* MUTANT: a foreground launcher waits for its child under the lock.
MutWaitLocked(p) ==
    /\ proc[p].pc = "publish" /\ record' = Record(p, proc[p].share)
    /\ IF proc[p].bg THEN Return(p) ELSE Goto(p, "wait") /\ UNCHANGED lock
    /\ UNCHANGED <<child, forward, late>>

\* The advertised URL and the profile are written; a background router is
\* detached, a foreground one is waited for without the lock.
Publish(p) ==
    /\ proc[p].pc = "publish"
    /\ \/ /\ record' = Record(p, proc[p].share)
          /\ \/ proc[p].bg /\ Return(p)
             \/ ~proc[p].bg /\ Goto(p, "wait") /\ lock' = None
       \/ record' \in {record, Record(p, proc[p].share)} /\ Goto(p, "failed") /\ UNCHANGED lock
    /\ UNCHANGED <<child, forward, late>>

\* cleanup_failed_start.
CleanupFailedStart(p) ==
    /\ proc[p].pc = "failed"
    /\ Terminate(proc[p].i)
    /\ \E ok \in BOOLEAN : CleanAndRemove(ok)
    /\ Return(p)
    /\ UNCHANGED late

\* The child exits, or an interrupt is forwarded and it is reaped.
Wait(p) ==
    /\ proc[p].pc = "wait"
    /\ Terminate(proc[p].i)
    /\ Goto(p, "relock")
    /\ UNCHANGED <<lock, record, forward, late>>

\* acquire_lock_with_retry, for SHUTDOWN_TIMEOUT at most.
Relock(p) ==
    /\ proc[p].pc = "relock"
    /\ \/ lock = None /\ lock' = p /\ Goto(p, "exited")
       \/ lock # None /\ proc' = [proc EXCEPT ![p] = Idle] /\ UNCHANGED lock
    /\ UNCHANGED <<record, child, forward, late>>

\* MUTANT: whatever record is there is removed.
MutExitedAnyRecord(p) ==
    /\ proc[p].pc = "exited" /\ Return(p)
    /\ IF record # NoRecord THEN \E ok \in BOOLEAN : CleanAndRemove(ok)
       ELSE UNCHANGED <<record, forward>>
    /\ UNCHANGED <<child, late>>

\* Only the record of the child that has exited is cleaned up.
Exited(p) ==
    /\ proc[p].pc = "exited" /\ Return(p)
    /\ IF record.i = proc[p].i THEN \E ok \in BOOLEAN : CleanAndRemove(ok)
       ELSE UNCHANGED <<record, forward>>
    /\ UNCHANGED <<child, late>>

-----------------------------------------------------------------------------
(* stop and stop_if_instance.                                                 *)

\* `expected` is the instance the console was attached to, or 0.
Stop(p, expected) ==
    /\ proc[p] = Idle /\ lock = None
    /\ record # NoRecord /\ expected \in {0, record.i}
    /\ lock' = p /\ proc' = [proc EXCEPT ![p].pc = "stop"]
    /\ UNCHANGED <<record, child, forward, late>>

StopProbe(p) ==
    /\ proc[p].pc = "stop"
    /\ \/ "refused" \in Probe(record) /\ Goto(p, "clean") /\ UNCHANGED <<lock, child>>
       \/ "error" \in Probe(record) /\ Return(p) /\ UNCHANGED child
       \/ /\ "ok" \in Probe(record)
          /\ child' = [child EXCEPT ![record.i].st = "draining"]
          /\ Goto(p, "drain") /\ UNCHANGED lock
    /\ UNCHANGED <<record, forward, late>>

\* wait_stopped, for SHUTDOWN_TIMEOUT at most.
WaitStopped(p) ==
    /\ proc[p].pc = "drain"
    /\ \/ "refused" \in Probe(record) /\ Goto(p, "clean") /\ UNCHANGED lock
       \/ Return(p)
    /\ UNCHANGED <<record, child, forward, late>>

StopClean(p) ==
    /\ proc[p].pc = "clean"
    /\ \E ok \in BOOLEAN : CleanAndRemove(ok)
    /\ Return(p)
    /\ UNCHANGED <<child, late>>

-----------------------------------------------------------------------------
(* The child (run_owned_child), faults and the abandoned command.             *)

\* The listener is bound, then the store opened, which one process can do.
ChildReady(i) ==
    /\ child[i].st = "boot"
    /\ \A j \in Instance : ~Bound(j)
    /\ child' = [child EXCEPT ![i].st = "ready"]
    /\ UNCHANGED <<lock, record, proc, forward, late>>

ChildServes(i) ==
    /\ child[i].st = "acked"
    /\ child' = [child EXCEPT ![i].st = "serving"]
    /\ UNCHANGED <<lock, record, proc, forward, late>>

\* The child fails, crashes, is not acknowledged, or has drained.
ChildExits(i) ==
    /\ child[i].st \notin {"none", "gone"}
    /\ Terminate(i)
    /\ UNCHANGED <<lock, record, proc, forward, late>>

Crash(p) ==
    /\ proc[p] # Idle
    /\ proc' = [proc EXCEPT ![p] = Idle]
    /\ lock' = IF lock = p THEN None ELSE lock
    /\ UNCHANGED <<record, child, forward, late>>

LateCommand(n) ==
    /\ n \in late
    /\ late' = late \ {n}
    /\ \E f \in {"late", forward[n]} : forward' = [forward EXCEPT ![n] = f]
    /\ UNCHANGED <<lock, record, child, proc>>

Init ==
    /\ lock = None /\ record = NoRecord /\ late = {}
    /\ child = [i \in Instance |-> [st |-> "none", port |-> 0]]
    /\ proc = [p \in Proc |-> Idle]
    /\ forward \in [Port -> {"none", "foreign"}]

StartStep(p) ==
    \/ StartProbe(p) \/ Launch(p) \/ Handshake(p) \/ WriteRecord(p) \/ Acknowledge(p)
    \/ FinishStart(p) \/ Publish(p) \/ CleanupFailedStart(p) \/ Relock(p) \/ Exited(p)

StopStep(p) == StopProbe(p) \/ WaitStopped(p) \/ StopClean(p)

Next ==
    \/ \E p \in Proc :
        \/ StartStep(p) \/ StopStep(p) \/ Wait(p) \/ Crash(p)
        \/ \E bg, share \in BOOLEAN : Start(p, bg, share)
        \/ \E e \in 0 .. MaxInstance : Stop(p, e)
    \/ \E i \in Instance : ChildReady(i) \/ ChildServes(i) \/ ChildExits(i)
    \/ \E n \in Port : LateCommand(n)

Spec == Init /\ [][Next]_vars

\* Every wait of a command has a timeout, except the wait for a foreground child.
FairSpec == Spec /\ \A p \in Proc : WF_vars(StartStep(p)) /\ WF_vars(StopStep(p))

-----------------------------------------------------------------------------
(* Properties.                                                                *)

\* A router that serves is the recorded one, whoever crashed: start reuses it,
\* stop finds it, and it is never left running unknown to both.
ServingIsRecorded == \A i \in Instance : child[i].st = "serving" => record.i = i

Recorded(n) == record # NoRecord /\ record.serve /\ record.port = n

\* A forward that a launcher made is named by the record, so that a later start
\* or stop withdraws it: nothing stays exposed after the router is gone.
ForwardIsRecorded == \A n \in Port : forward[n] = "ours" => Recorded(n)

\* No command holds the launcher lock for ever, not even one whose child hangs.
LockIsReleased == lock # None ~> lock = None
=============================================================================
