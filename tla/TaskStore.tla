------------------------------ MODULE TaskStore ------------------------------
(***************************************************************************)
(* The durable task rows of the router: src/src/tasks.rs on the SQLite     *)
(* schema of src/src/store.rs, for one workspace.  Every action is one     *)
(* committed SQLite transaction; a command that is refused rolls back and  *)
(* is therefore no step at all.                                            *)
(*                                                                         *)
(* A caller is described by what the code compares: for an agent or its    *)
(* delegate, the owner of the session it runs in.  A session stands for    *)
(* the pair (session_id, connection_generation), both of which are new at  *)
(* every registration.                                                     *)
(*                                                                         *)
(* Titles, texts, report bodies and timestamps are left out.  A report is  *)
(* named by the version of the task that recorded it, which is unique      *)
(* among the checkpoints and results of one task.  Of the reasons for      *)
(* which an attempt ended, the order of an operator is told from the rest. *)
(***************************************************************************)
EXTENDS Naturals, FiniteSets

CONSTANTS
    Task,         \* task ids the workspace can hand out (next_task_id)
    Attempt,      \* attempt ids, Uuid::new_v4 in apply_begin
    Agent,        \* agent ids
    Credential,   \* ids of agent credentials
    Subject,      \* Subject[k] is the agent that credential k speaks for
    Session,      \* agent sessions
    Request,      \* work request ids
    None,         \* SQL NULL
    MaxVersion,   \* bound: no command that opens work applies at this version
    MaxTexts      \* bound: edits and notes, which change nothing but texts

ASSUME SubjectAssumption == Subject \in [Credential -> Agent]
ASSUME NoneAssumption == /\ None \notin Attempt
                         /\ None \notin Agent
                         /\ None \notin Task
                         /\ None \notin Session
                         /\ None \notin Request
ASSUME BoundAssumption == MaxVersion \in Nat /\ MaxTexts \in Nat

VARIABLES
    tasks,      \* the table tasks, one row per task id; state "absent" is no row
    attempts,   \* the table task_attempts; status "absent" is no row
    receipts,   \* the table task_mutations: what was applied, by whom
    revoked     \* credentials whose revoked_at is set

storeVars == <<tasks, attempts, receipts, revoked>>

-----------------------------------------------------------------------------
TaskState == {"todo", "in_progress", "blocked", "paused", "done", "cancelled"}

IsTerminal(state) == state \in {"done", "cancelled"}

IsBeginable(state) == state \in {"todo", "paused", "blocked"}

AttemptStatus == {"running", "released", "completed", "interrupted"}

StopEvidence == {"released", "confirmed", "unknown"}

PauseReason == {"operator_interrupt", "other"}

\* The identity an attempt is fenced by: credential (and with it the agent)
\* and session.
Owner == [cred : Credential, session : Session]

TaskRow == [state      : TaskState \cup {"absent"},
            version    : Nat,
            assigned   : Agent \cup {None},
            current    : Attempt \cup {None},
            last       : Attempt \cup {None},
            checkpoint : Nat,     \* 0 is NULL
            result     : Nat]     \* 0 is NULL

AttemptRow == [task     : Task \cup {None},
               agent    : Agent \cup {None},
               owner    : Owner \cup {None},
               request  : Request \cup {None},
               resumed  : Nat,
               status   : AttemptStatus \cup {"absent"},
               evidence : StopEvidence,
               reason   : PauseReason \cup {None}]

Kind == {"create", "edit", "assign", "note", "begin", "checkpoint", "pause",
         "complete", "cancel", "reopen", "interrupt", "confirm"}

\* A receipt stands for its operation id together with the actor and the hash of
\* the command, which a retry must repeat.
Receipt == [kind : Kind, task : Task, version : Nat, attempt : Attempt \cup {None}]

NoTask == [state |-> "absent", version |-> 0, assigned |-> None,
           current |-> None, last |-> None, checkpoint |-> 0, result |-> 0]

NoAttempt == [task |-> None, agent |-> None, owner |-> None, request |-> None,
              resumed |-> 0, status |-> "absent", evidence |-> "unknown", reason |-> None]

-----------------------------------------------------------------------------
StopUnknown(row) == row.status = "interrupted" /\ row.evidence = "unknown"

\* The condition of the partial index agent_execution_barrier_unique: the work
\* runs, or was interrupted with nothing known about whether it stopped.
IsBarrier(row) == row.status = "running" \/ StopUnknown(row)

Barrier(a) == IsBarrier(attempts[a])

StopPending(a) == StopUnknown(attempts[a])

\* MUTANT of AgentHasExecutionBarrier: interrupted attempts no longer fence.
MutBarrierRunningOnly(rows, g) == \E a \in Attempt : rows[a].status = "running" /\ rows[a].agent = g

\* agent_has_execution_barrier, on the given rows of task_attempts.
AgentHasExecutionBarrier(rows, g) == \E a \in Attempt : IsBarrier(rows[a]) /\ rows[a].agent = g

\* The second half of agent_execution_barriers: interrupted, stop not confirmed.
AgentStopPending(g) == \E a \in Attempt : StopPending(a) /\ attempts[a].agent = g

\* MUTANT of CheckVersion: a stale version is accepted.
MutVersionMayBeStale(t, v) == tasks[t].state # "absent" /\ v <= tasks[t].version

\* The row exists and the caller saw its current version.
CheckVersion(t, v) == tasks[t].state # "absent" /\ tasks[t].version = v

\* finish_mutation: the receipt is written in the transaction of the change.
FinishMutation(kind, t, v, a) ==
    receipts' = receipts \cup {[kind |-> kind, task |-> t, version |-> v, attempt |-> a]}

\* The exact owner of the running attempt that the task points to.
RequireAttemptOwner(o, t, v, a) ==
    /\ CheckVersion(t, v)
    /\ attempts[a].task = t
    /\ attempts[a].owner = o
    /\ attempts[a].status = "running"
    /\ tasks[t].current = a

-----------------------------------------------------------------------------
ApplyCreate(t) ==
    /\ tasks[t].state = "absent"
    /\ tasks' = [tasks EXCEPT ![t] = [NoTask EXCEPT !.state = "todo", !.version = 1]]
    /\ FinishMutation("create", t, 1, None)
    /\ UNCHANGED <<attempts, revoked>>

ApplyEdit(t, v) ==
    /\ v < MaxVersion
    /\ Cardinality({rc \in receipts : rc.kind \in {"note", "edit"}}) < MaxTexts
    /\ CheckVersion(t, v)
    /\ ~ IsTerminal(tasks[t].state) /\ tasks[t].state # "in_progress"
    /\ tasks' = [tasks EXCEPT ![t].version = v + 1]
    /\ FinishMutation("edit", t, v + 1, None)
    /\ UNCHANGED <<attempts, revoked>>

\* g is an agent, or None to unassign.
ApplyAssign(t, v, g) ==
    /\ v < MaxVersion
    /\ CheckVersion(t, v)
    /\ ~ IsTerminal(tasks[t].state)
    /\ g # None => \E k \in Credential \ revoked : Subject[k] = g
    /\ tasks' = [tasks EXCEPT ![t].assigned = g, ![t].version = v + 1]
    /\ FinishMutation("assign", t, v + 1, None)
    /\ UNCHANGED <<attempts, revoked>>

\* A note neither checks nor raises the version.
ApplyNote(t) ==
    /\ Cardinality({rc \in receipts : rc.kind \in {"note", "edit"}}) < MaxTexts
    /\ tasks[t].state # "absent"
    /\ FinishMutation("note", t, tasks[t].version, tasks[t].last)
    /\ UNCHANGED <<tasks, attempts, revoked>>

\* The caller holds the reservation r of task t: see Router.  The INSERT fails
\* on the index task_running_unique or agent_execution_barrier_unique.
ApplyBegin(o, t, r, v, checkpoint, a) ==
    LET g == Subject[o.cred] IN
    /\ v < MaxVersion
    /\ CheckVersion(t, v)
    /\ IsBeginable(tasks[t].state) /\ tasks[t].current = None
    /\ tasks[t].assigned = g
    /\ tasks[t].checkpoint = checkpoint
    /\ attempts[a].status = "absent"
    /\ ~ AgentHasExecutionBarrier(attempts, g)
    /\ ~ \E b \in Attempt : attempts[b].status = "running" /\ attempts[b].task = t
    /\ attempts' = [attempts EXCEPT ![a] =
            [task |-> t, agent |-> g, owner |-> o, request |-> r, resumed |-> checkpoint,
             status |-> "running", evidence |-> "unknown", reason |-> None]]
    /\ tasks' = [tasks EXCEPT ![t].state = "in_progress", ![t].version = v + 1,
                              ![t].current = a, ![t].last = a]
    /\ FinishMutation("begin", t, v + 1, a)
    /\ UNCHANGED revoked

\* MUTANT of ApplyCheckpoint: the report is stored, the task does not point to it.
MutCheckpointNotLinked(o, t, v, a) ==
    /\ v < MaxVersion
    /\ RequireAttemptOwner(o, t, v, a)
    /\ tasks' = [tasks EXCEPT ![t].version = v + 1]
    /\ FinishMutation("checkpoint", t, v + 1, a)
    /\ UNCHANGED <<attempts, revoked>>

ApplyCheckpoint(o, t, v, a) ==
    /\ v < MaxVersion
    /\ RequireAttemptOwner(o, t, v, a)
    /\ tasks' = [tasks EXCEPT ![t].version = v + 1, ![t].checkpoint = v + 1]
    /\ FinishMutation("checkpoint", t, v + 1, a)
    /\ UNCHANGED <<attempts, revoked>>

\* Pause (next = "paused" or "blocked") and Complete (next = "done").
ApplyRelease(o, t, v, a, next) ==
    LET completed == next = "done" IN
    /\ RequireAttemptOwner(o, t, v, a)
    /\ attempts' = [attempts EXCEPT
            ![a].status = IF completed THEN "completed" ELSE "released",
            ![a].evidence = "released",
            ![a].reason = IF completed THEN None ELSE "other"]
    /\ tasks' = [tasks EXCEPT
            ![t].state = next, ![t].version = v + 1,
            ![t].current = None, ![t].last = a, ![t].checkpoint = v + 1,
            ![t].assigned = IF completed THEN None ELSE @,
            ![t].result = IF completed THEN v + 1 ELSE @]
    /\ FinishMutation(IF completed THEN "complete" ELSE "pause", t, v + 1, a)
    /\ UNCHANGED revoked

\* Cancel (next = "cancelled") and Reopen (next = "todo").
ApplyTerminal(t, v, next) ==
    /\ v < MaxVersion
    /\ CheckVersion(t, v)
    /\ \/ next = "cancelled" /\ ~ IsTerminal(tasks[t].state) /\ tasks[t].state # "in_progress"
       \/ next = "todo" /\ IsTerminal(tasks[t].state)
    /\ ~ \E a \in Attempt : StopPending(a) /\ attempts[a].task = t
    /\ tasks' = [tasks EXCEPT
            ![t].state = next, ![t].version = v + 1,
            ![t].assigned = None, ![t].current = None,
            ![t].result = IF next = "todo" THEN 0 ELSE @]
    /\ FinishMutation(IF next = "todo" THEN "reopen" ELSE "cancel", t, v + 1, tasks[t].last)
    /\ UNCHANGED <<attempts, revoked>>

\* MUTANT of Interrupted: the state of the task is written to the attempt.
MutInterruptedAsPaused(row, why) ==
    [row EXCEPT !.status = "paused", !.evidence = "unknown", !.reason = why]

Interrupted(row, why) ==
    [row EXCEPT !.status = "interrupted", !.evidence = "unknown", !.reason = why]

ApplyInterrupt(t, v) ==
    LET a == tasks[t].current IN
    /\ CheckVersion(t, v)
    /\ tasks[t].state = "in_progress"
    /\ a # None
    /\ attempts' = [attempts EXCEPT ![a] =
            IF @.status = "running" THEN Interrupted(@, "operator_interrupt") ELSE @]
    /\ tasks' = [tasks EXCEPT ![t].state = "paused", ![t].version = v + 1,
                              ![t].current = None, ![t].last = a]
    /\ FinishMutation("interrupt", t, v + 1, a)
    /\ UNCHANGED revoked

ApplyConfirmStopped(t, v, a) ==
    /\ CheckVersion(t, v)
    /\ attempts[a].task = t /\ StopPending(a)
    /\ attempts' = [attempts EXCEPT ![a].evidence = "confirmed"]
    /\ tasks' = [tasks EXCEPT ![t].version = v + 1]
    /\ FinishMutation("confirm", t, v + 1, a)
    /\ UNCHANGED revoked

\* A receipt answers a retry of its command: nothing is written.  A retry by
\* another actor or with other bytes is refused, and so is a retried Begin
\* whose attempt no longer runs for exactly this owner.
ExactActiveOwnerAttempt(o, a) == attempts[a].owner = o /\ attempts[a].status = "running"

-----------------------------------------------------------------------------
Paused(row) == [row EXCEPT !.state = "paused", !.version = @ + 1, !.current = None]

\* interrupt_attempt, for each attempt of S that still runs.  A running attempt
\* that its task does not point to makes the transaction fail (InvalidData).
InterruptRows(S, why) ==
    LET R == {a \in S : attempts[a].status = "running"} IN
    /\ \A a \in R : tasks[attempts[a].task].current = a
    /\ attempts' = [a \in Attempt |->
            IF a \in R THEN Interrupted(attempts[a], why) ELSE attempts[a]]
    /\ tasks' = [t \in Task |->
            IF tasks[t].current \in R
            THEN [Paused(tasks[t]) EXCEPT !.last = tasks[t].current]
            ELSE tasks[t]]

InterruptAttempts(S, why) == InterruptRows(S, why) /\ UNCHANGED <<receipts, revoked>>

\* record_execution_stopped: the host of agent and credential k reports that
\* the execution of attempt a in the given session has ended.
RecordExecutionStopped(k, session, t, a) ==
    /\ attempts[a].task = t
    /\ attempts[a].owner = [cred |-> k, session |-> session]
    /\ \/ /\ attempts[a].status \in {"released", "completed"} \/ attempts[a].evidence = "confirmed"
          /\ UNCHANGED <<tasks, attempts>>
       \/ /\ attempts[a].status = "running"
          /\ tasks[t].current = a
          /\ attempts' = [attempts EXCEPT ![a].status = "interrupted",
                                                 ![a].evidence = "confirmed", ![a].reason = "other"]
          /\ tasks' = [tasks EXCEPT ![t] = [Paused(@) EXCEPT !.last = a]]
       \/ /\ StopPending(a)
          /\ tasks[t].current = None /\ tasks[t].last = a
          /\ attempts' = [attempts EXCEPT ![a].evidence = "confirmed"]
          /\ tasks' = [tasks EXCEPT ![t].version = @ + 1]
    /\ UNCHANGED <<receipts, revoked>>

\* MUTANT of RecoverRunningAttempts: the rows of the tasks are forgotten.
MutRecoverAttemptsOnly ==
    /\ attempts' = [a \in Attempt |->
            IF attempts[a].status = "running" THEN Interrupted(attempts[a], "other") ELSE attempts[a]]
    /\ UNCHANGED <<tasks, receipts, revoked>>

\* MUTANT of RecoverRunningAttempts: attempts that had ended are taken along.
MutRecoverEveryAttempt ==
    LET R == {a \in Attempt : attempts[a].status # "absent"} IN
    /\ attempts' = [a \in Attempt |->
            IF a \in R THEN Interrupted(attempts[a], "other") ELSE attempts[a]]
    /\ tasks' = [t \in Task |-> IF tasks[t].current \in R THEN Paused(tasks[t]) ELSE tasks[t]]
    /\ UNCHANGED <<receipts, revoked>>

\* recover_running_attempts, when the store is opened.  Unlike interrupt_attempt
\* it leaves last_attempt_id alone and tolerates a task that points elsewhere.
RecoverRunningAttempts ==
    LET R == {a \in Attempt : attempts[a].status = "running"} IN
    /\ attempts' = [a \in Attempt |->
            IF a \in R THEN Interrupted(attempts[a], "other") ELSE attempts[a]]
    /\ tasks' = [t \in Task |->
            IF tasks[t].current \in R /\ attempts[tasks[t].current].task = t
            THEN Paused(tasks[t]) ELSE tasks[t]]
    /\ UNCHANGED <<receipts, revoked>>

\* revoke_credential, together with the interruption of the attempts S of the
\* connections it drops: the router runs nothing between these transactions.
RevokeCredential(k, S) ==
    /\ k \notin revoked
    /\ revoked' = revoked \cup {k}
    /\ InterruptRows(S, "other")
    /\ UNCHANGED receipts

-----------------------------------------------------------------------------
Init ==
    /\ tasks = [t \in Task |-> NoTask]
    /\ attempts = [a \in Attempt |-> NoAttempt]
    /\ receipts = {}
    /\ revoked = {}

\* Versions a caller can name.  Closing commands are not bounded, so a task can
\* pass MaxVersion by the interruption and the confirmation of its last attempt.
Version == 1..(MaxVersion + 2)

\* Commands anyone in the workspace may send.
EditorNext == \E t \in Task, v \in Version :
    \/ ApplyCreate(t)
    \/ ApplyEdit(t, v)
    \/ \E g \in Agent \cup {None} : ApplyAssign(t, v, g)
    \/ ApplyNote(t)
    \/ \E next \in {"cancelled", "todo"} : ApplyTerminal(t, v, next)

\* Commands validate_command allows to agents and their delegates only.
ExecutorNext == \E o \in Owner, t \in Task, a \in Attempt, v \in Version :
    \/ \E r \in Request, checkpoint \in Version \cup {0} : ApplyBegin(o, t, r, v, checkpoint, a)
    \/ ApplyCheckpoint(o, t, v, a)
    \/ \E next \in {"paused", "blocked", "done"} : ApplyRelease(o, t, v, a, next)

\* Commands validate_command allows to operators only.
OperatorNext == \E t \in Task, v \in Version :
    \/ ApplyInterrupt(t, v)
    \/ \E a \in Attempt : ApplyConfirmStopped(t, v, a)

\* What the router does on its own account.
SystemNext ==
    \/ \E S \in SUBSET Attempt, why \in PauseReason : InterruptAttempts(S, why)
    \/ \E k \in Credential, s \in Session, t \in Task, a \in Attempt :
            RecordExecutionStopped(k, s, t, a)
    \/ RecoverRunningAttempts
    \/ \E k \in Credential, S \in SUBSET Attempt : RevokeCredential(k, S)

Next == EditorNext \/ ExecutorNext \/ OperatorNext \/ SystemNext

Spec == Init /\ [][Next]_storeVars

-----------------------------------------------------------------------------
(***************************************************************************)
(* Properties                                                              *)
(***************************************************************************)

\* Every row has the shape the schema of store.rs gives it.
TypeOK ==
    /\ tasks \in [Task -> TaskRow]
    /\ attempts \in [Attempt -> AttemptRow]
    /\ receipts \in SUBSET Receipt
    /\ revoked \in SUBSET Credential

\* The three records of "who is executing" never disagree: a task is in
\* progress exactly when it points to an attempt, and it points to an attempt
\* exactly when that attempt of this task runs.  The two tables are updated
\* separately in apply_begin, apply_release, apply_interrupt, interrupt_attempt,
\* record_execution_stopped and recover_running_attempts; the schema ties state
\* to current_attempt_id, nothing ties current_attempt_id to status.  While it
\* holds, interrupt_attempt never ends in InvalidData, which is fatal.
AttemptTaskAgreement ==
    /\ \A t \in Task : tasks[t].state = "in_progress" <=> tasks[t].current # None
    /\ \A t \in Task, a \in Attempt :
          tasks[t].current = a <=> attempts[a].status = "running" /\ attempts[a].task = t

\* One agent never has two attempts that may be executing: a new one starts only
\* when the stop of the previous one is on record, whatever interruptions,
\* restarts and reassignments came between.
AgentExclusive ==
    \A a, b \in Attempt :
        Barrier(a) /\ Barrier(b) /\ attempts[a].agent = attempts[b].agent => a = b

\* The optimistic version admits one writer: no two accepted commands on a task
\* produced the same version, and none is ahead of the row.  Notes write no row.
NoLostUpdate ==
    /\ \A r1, r2 \in receipts :
          /\ r1.kind # "note" /\ r2.kind # "note"
          /\ r1.task = r2.task /\ r1.version = r2.version
          => r1 = r2
    /\ \A r \in receipts : r.version <= tasks[r.task].version

\* The receipts whose command stored a checkpoint or a result of task t.
CheckpointReceipts(t) ==
    {r \in receipts : r.task = t /\ r.kind \in {"checkpoint", "pause", "complete"}}

\* No progress is lost on the way to the next executor: the checkpoint a task
\* offers to resume from is the newest that any of its attempts recorded, across
\* interruptions, cancellation and reopening, and an attempt that is running
\* resumed from one that was on record when it began.
CheckpointIsNewest ==
    \A t \in Task :
        /\ \A r \in CheckpointReceipts(t) : r.version <= tasks[t].checkpoint
        /\ tasks[t].checkpoint # 0 =>
              \E r \in CheckpointReceipts(t) : r.version = tasks[t].checkpoint
        /\ \A a \in Attempt : attempts[a].task = t =>
              \A r \in CheckpointReceipts(t) :
                  r.version > attempts[a].resumed =>
                     \E b \in receipts : /\ b.kind = "begin" /\ b.attempt = a
                                         /\ b.version < r.version

\* A row changes only together with its version, and the version moves by one:
\* whoever saw version v and is told "no conflict" saw the row that was changed.
ChangeRaisesVersion ==
    [][\A t \in Task : tasks'[t] # tasks[t] => tasks'[t].version = tasks[t].version + 1]_storeVars

\* Stop evidence is final: an attempt that ended with evidence on record is never
\* running or unconfirmed again, and keeps the identity it was fenced by.
StopEvidenceIsFinal ==
    [][\A a \in Attempt :
          /\ attempts[a].status # "absent" => /\ attempts'[a].owner = attempts[a].owner
                                              /\ attempts'[a].task = attempts[a].task
          /\ attempts[a].status # "absent" /\ ~ Barrier(a) => ~ Barrier(a)'
          /\ StopPending(a) => attempts'[a].status = "interrupted"]_storeVars

\* The lease every attempt goes through.
LeasePhase == [a \in Attempt |->
    IF attempts[a].status = "absent" THEN "unused" ELSE IF Barrier(a) THEN "held" ELSE "ended"]

AgentLease == INSTANCE ExecutionLease WITH
    Resource <- Agent, phase <- LeasePhase, holds <- [a \in Attempt |-> attempts[a].agent]

\* The store on its own, whatever its callers do, implements the exclusive lease
\* of an agent: apply_begin takes it, and only a release, a completion or a
\* recorded stop gives it up; interruptions and recovery keep it.
ImplementsAgentLease == AgentLease!Spec

=============================================================================
