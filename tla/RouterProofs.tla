----------------------------- MODULE RouterProofs ------------------------------
(***************************************************************************)
(* Proofs about TaskStore and Router, for every set of sessions, requests, *)
(* tasks, attempts, agents and credentials and for every bound.            *)
(*                                                                         *)
(* The theorems about the store come first: they are about Spec, with any  *)
(* caller of its operations, and use nothing of Router.                    *)
(*                                                                         *)
(* The router's argument has three layers.  Every step of the router is a  *)
(* step of the store, so that what holds of the store holds here.  What it *)
(* does to the requests in flight falls into four shapes (Quiet, Asking,   *)
(* Begins, Withdraws), from which follows that nothing runs unwatched and  *)
(* that tasks are leased exclusively.  What it does to the cached status   *)
(* of a connection is a relation per connection (KeepsStatus).             *)
(***************************************************************************)
EXTENDS Router, TLAPS

-----------------------------------------------------------------------------
(* The store *)

\* What pausing a task and interrupting an attempt make of their rows.
LEMMA PausedRow ==
    ASSUME NEW row \in TaskRow
    PROVE  /\ Paused(row) \in TaskRow
           /\ Paused(row).state = "paused" /\ Paused(row).version = row.version + 1
           /\ Paused(row).current = None /\ Paused(row).last = row.last
           /\ Paused(row).result = row.result /\ Paused(row).checkpoint = row.checkpoint
           /\ Paused(row).assigned = row.assigned
<1>1. row.version + 1 \in Nat
  BY DEF TaskRow
<1>2. ASSUME NEW n \in Nat
      PROVE  LET new == [row EXCEPT !.state = "paused", !.version = n, !.current = None] IN
             /\ new \in TaskRow
             /\ new.state = "paused" /\ new.version = n
             /\ new.current = None /\ new.last = row.last
             /\ new.result = row.result /\ new.checkpoint = row.checkpoint
             /\ new.assigned = row.assigned
  BY DEF TaskRow, TaskState
<1> QED
  BY <1>1, <1>2 DEF Paused

LEMMA LastRow ==
    ASSUME NEW row \in TaskRow, NEW a \in Attempt
    PROVE  LET new == [Paused(row) EXCEPT !.last = a] IN
           /\ new \in TaskRow
           /\ new.state = "paused" /\ new.version = row.version + 1
           /\ new.current = None /\ new.last = a
           /\ new.result = row.result /\ new.checkpoint = row.checkpoint
           /\ new.assigned = row.assigned
  BY PausedRow DEF TaskRow

LEMMA InterruptedRow ==
    ASSUME NEW row \in AttemptRow, NEW why \in PauseReason
    PROVE  /\ Interrupted(row, why) \in AttemptRow
           /\ Interrupted(row, why).status = "interrupted"
           /\ Interrupted(row, why).evidence = "unknown"
           /\ Interrupted(row, why).task = row.task
           /\ Interrupted(row, why).agent = row.agent
           /\ Interrupted(row, why).owner = row.owner
  BY DEF Interrupted, AttemptRow, AttemptStatus, StopEvidence

\* The shapes of the rows are kept by every transaction.
LEMMA TypeStep == TypeOK /\ [Next]_storeVars => TypeOK'
<1> SUFFICES ASSUME TypeOK, [Next]_storeVars PROVE TypeOK'
  OBVIOUS
<1> USE SubjectAssumption, NoneAssumption
<1>0. Version \subseteq Nat
  BY BoundAssumption DEF Version
<1> USE <1>0
<1>1. ASSUME NEW t \in Task, ApplyCreate(t) PROVE TypeOK'
  <2>1. [NoTask EXCEPT !.state = "todo", !.version = 1] \in TaskRow
    BY DEF NoTask, TaskRow, TaskState
  <2>2. tasks' \in [Task -> TaskRow]
    BY <1>1, <2>1 DEF ApplyCreate, TypeOK
  <2> QED
    BY <1>1, <2>2 DEF ApplyCreate, TypeOK, FinishMutation, Receipt, Kind
<1>2. ASSUME NEW t \in Task, NEW v \in Version, ApplyEdit(t, v) PROVE TypeOK'
  BY <1>2 DEF ApplyEdit, CheckVersion, TypeOK, TaskRow, FinishMutation, Receipt, Kind
<1>3. ASSUME NEW t \in Task, NEW v \in Version, NEW g \in Agent \cup {None}, ApplyAssign(t, v, g)
      PROVE  TypeOK'
  BY <1>3 DEF ApplyAssign, CheckVersion, TypeOK, TaskRow, FinishMutation, Receipt, Kind
<1>4. ASSUME NEW t \in Task, ApplyNote(t) PROVE TypeOK'
  BY <1>4 DEF ApplyNote, TypeOK, TaskRow, FinishMutation, Receipt, Kind
<1>5. ASSUME NEW t \in Task, NEW v \in Version, NEW next \in {"cancelled", "todo"},
             ApplyTerminal(t, v, next)
      PROVE  TypeOK'
  BY <1>5 DEF ApplyTerminal, CheckVersion, TypeOK, TaskRow, TaskState, FinishMutation, Receipt, Kind
<1>6. ASSUME NEW o \in Owner, NEW t \in Task, NEW r \in Request, NEW v \in Version,
             NEW checkpoint \in Version \cup {0}, NEW a \in Attempt,
             ApplyBegin(o, t, r, v, checkpoint, a)
      PROVE  TypeOK'
  BY <1>6 DEF ApplyBegin, CheckVersion, TypeOK, TaskRow, TaskState, AttemptRow, Owner,
              AttemptStatus, StopEvidence, Version, FinishMutation, Receipt, Kind
<1>7. ASSUME NEW o \in Owner, NEW t \in Task, NEW v \in Version, NEW a \in Attempt,
             ApplyCheckpoint(o, t, v, a)
      PROVE  TypeOK'
  <2>0. ASSUME NEW n \in Nat
        PROVE  [tasks[t] EXCEPT !.version = n, !.checkpoint = n] \in TaskRow
    BY DEF TypeOK, TaskRow
  <2>1. tasks' \in [Task -> TaskRow]
    <3>1. tasks' = [tasks EXCEPT ![t] = [tasks[t] EXCEPT !.version = v + 1, !.checkpoint = v + 1]]
      BY <1>7 DEF ApplyCheckpoint, TypeOK
    <3>2. v + 1 \in Nat
      OBVIOUS
    <3>3. [tasks[t] EXCEPT !.version = v + 1, !.checkpoint = v + 1] \in TaskRow
      BY <2>0, <3>2, Zenon
    <3> QED
      BY <3>1, <3>3 DEF TypeOK
  <2> QED
    BY <1>7, <2>1 DEF ApplyCheckpoint, TypeOK, FinishMutation, Receipt, Kind
<1>8. ASSUME NEW o \in Owner, NEW t \in Task, NEW v \in Version, NEW a \in Attempt,
             NEW next \in {"paused", "blocked", "done"}, ApplyRelease(o, t, v, a, next)
      PROVE  TypeOK'
  BY <1>8 DEF ApplyRelease, RequireAttemptOwner, CheckVersion, TypeOK, TaskRow, TaskState,
              AttemptRow, AttemptStatus, StopEvidence, PauseReason, FinishMutation, Receipt, Kind
<1>9. ASSUME NEW t \in Task, NEW v \in Version, ApplyInterrupt(t, v) PROVE TypeOK'
  BY <1>9 DEF ApplyInterrupt, Interrupted, CheckVersion, TypeOK, TaskRow, TaskState,
              AttemptRow, AttemptStatus, StopEvidence, PauseReason, FinishMutation, Receipt, Kind
<1>10. ASSUME NEW t \in Task, NEW v \in Version, NEW a \in Attempt, ApplyConfirmStopped(t, v, a)
       PROVE  TypeOK'
  <2>1. tasks' \in [Task -> TaskRow]
    BY <1>10 DEF ApplyConfirmStopped, TypeOK, TaskRow
  <2>2. attempts' \in [Attempt -> AttemptRow]
    BY <1>10 DEF ApplyConfirmStopped, TypeOK, AttemptRow, StopEvidence
  <2> QED
    BY <1>10, <2>1, <2>2 DEF ApplyConfirmStopped, TypeOK, FinishMutation, Receipt, Kind
<1>11. ASSUME NEW S \in SUBSET Attempt, NEW why \in PauseReason, InterruptRows(S, why)
       PROVE  tasks' \in [Task -> TaskRow] /\ attempts' \in [Attempt -> AttemptRow]
  <2>1. attempts' \in [Attempt -> AttemptRow]
    BY <1>11, InterruptedRow DEF InterruptRows, TypeOK
  <2>2. ASSUME NEW t \in Task, tasks[t].current \in S
        PROVE  [Paused(tasks[t]) EXCEPT !.last = tasks[t].current] \in TaskRow
    BY <2>2, LastRow DEF TypeOK
  <2>3. tasks' \in [Task -> TaskRow]
    BY <1>11, <2>2 DEF InterruptRows, TypeOK
  <2> QED
    BY <2>1, <2>3
<1>12. ASSUME NEW k \in Credential, NEW s \in Session, NEW t \in Task, NEW a \in Attempt,
              RecordExecutionStopped(k, s, t, a)
       PROVE  TypeOK'
  <2>1. [Paused(tasks[t]) EXCEPT !.last = a] \in TaskRow
    BY LastRow DEF TypeOK
  <2>2. tasks' \in [Task -> TaskRow]
    BY <1>12, <2>1 DEF RecordExecutionStopped, TypeOK, TaskRow
  <2>3. attempts' \in [Attempt -> AttemptRow]
    BY <1>12 DEF RecordExecutionStopped, TypeOK, AttemptRow, AttemptStatus, StopEvidence, PauseReason
  <2> QED
    BY <1>12, <2>2, <2>3 DEF RecordExecutionStopped, TypeOK
<1>13. ASSUME RecoverRunningAttempts PROVE TypeOK'
  <2>1. attempts' \in [Attempt -> AttemptRow]
    BY <1>13, InterruptedRow DEF RecoverRunningAttempts, TypeOK, PauseReason
  <2>2. tasks' \in [Task -> TaskRow]
    BY <1>13, PausedRow DEF RecoverRunningAttempts, TypeOK
  <2> QED
    BY <1>13, <2>1, <2>2 DEF RecoverRunningAttempts, TypeOK
<1>14. CASE EditorNext
  BY <1>14, <1>1, <1>2, <1>3, <1>4, <1>5 DEF EditorNext
<1>15. CASE ExecutorNext
  BY <1>15, <1>6, <1>7, <1>8 DEF ExecutorNext
<1>16. CASE OperatorNext
  BY <1>16, <1>9, <1>10 DEF OperatorNext
<1>17. CASE SystemNext
  <2>1. ASSUME NEW S \in SUBSET Attempt, NEW why \in PauseReason, InterruptAttempts(S, why)
        PROVE  TypeOK'
    BY <2>1, <1>11 DEF InterruptAttempts, TypeOK
  <2>2. ASSUME NEW k \in Credential, NEW S \in SUBSET Attempt, RevokeCredential(k, S)
        PROVE  TypeOK'
    BY <2>2, <1>11 DEF RevokeCredential, PauseReason, TypeOK
  <2> QED
    BY <1>17, <2>1, <2>2, <1>12, <1>13 DEF SystemNext
<1>18. CASE UNCHANGED storeVars
  BY <1>18 DEF storeVars, TypeOK
<1> QED
  BY <1>14, <1>15, <1>16, <1>17, <1>18 DEF Next

\* The store always holds well-formed rows.
THEOREM TypeCorrect == Spec => []TypeOK
<1>1. Init => TypeOK
  BY DEF Init, TypeOK, NoTask, NoAttempt, TaskRow, AttemptRow, StopEvidence
<1> QED
  BY <1>1, TypeStep, PTL DEF Spec

-----------------------------------------------------------------------------
\* Every transaction that moves an attempt in or out of "running" moves the
\* pointer and the state of its task along.
LEMMA AgreementStep ==
    TypeOK /\ AttemptTaskAgreement /\ [Next]_storeVars => AttemptTaskAgreement'
<1> SUFFICES ASSUME TypeOK, AttemptTaskAgreement, [Next]_storeVars PROVE AttemptTaskAgreement'
  OBVIOUS
<1> USE NoneAssumption
<1> USE DEF AttemptTaskAgreement
<1>1. ASSUME NEW t \in Task, ApplyCreate(t) PROVE AttemptTaskAgreement'
  BY <1>1 DEF ApplyCreate, NoTask, TypeOK, TaskRow
<1>2. ASSUME NEW t \in Task, NEW v \in Version, ApplyEdit(t, v) PROVE AttemptTaskAgreement'
  BY <1>2 DEF ApplyEdit, TypeOK, TaskRow
<1>3. ASSUME NEW t \in Task, NEW v \in Version, NEW g \in Agent \cup {None}, ApplyAssign(t, v, g)
      PROVE  AttemptTaskAgreement'
  BY <1>3 DEF ApplyAssign, TypeOK, TaskRow
<1>4. ASSUME NEW t \in Task, ApplyNote(t) PROVE AttemptTaskAgreement'
  BY <1>4 DEF ApplyNote
<1>5. ASSUME NEW t \in Task, NEW v \in Version, NEW next \in {"cancelled", "todo"},
             ApplyTerminal(t, v, next)
      PROVE  AttemptTaskAgreement'
  BY <1>5 DEF ApplyTerminal, IsTerminal, TypeOK, TaskRow
<1>6. ASSUME NEW o \in Owner, NEW t \in Task, NEW r \in Request, NEW v \in Version,
             NEW checkpoint \in Version \cup {0}, NEW a \in Attempt,
             ApplyBegin(o, t, r, v, checkpoint, a)
      PROVE  AttemptTaskAgreement'
  BY <1>6 DEF ApplyBegin, TypeOK, TaskRow, AttemptRow
<1>7. ASSUME NEW o \in Owner, NEW t \in Task, NEW v \in Version, NEW a \in Attempt,
             ApplyCheckpoint(o, t, v, a)
      PROVE  AttemptTaskAgreement'
  BY <1>7 DEF ApplyCheckpoint, TypeOK, TaskRow
<1>8. ASSUME NEW o \in Owner, NEW t \in Task, NEW v \in Version, NEW a \in Attempt,
             NEW next \in {"paused", "blocked", "done"}, ApplyRelease(o, t, v, a, next)
      PROVE  AttemptTaskAgreement'
  BY <1>8 DEF ApplyRelease, RequireAttemptOwner, TypeOK, TaskRow, AttemptRow
<1>9. ASSUME NEW t \in Task, NEW v \in Version, ApplyInterrupt(t, v) PROVE AttemptTaskAgreement'
  BY <1>9 DEF ApplyInterrupt, Interrupted, TypeOK, TaskRow, AttemptRow
<1>10. ASSUME NEW t \in Task, NEW v \in Version, NEW a \in Attempt, ApplyConfirmStopped(t, v, a)
       PROVE  AttemptTaskAgreement'
  BY <1>10 DEF ApplyConfirmStopped, TypeOK, TaskRow, AttemptRow
<1>11. ASSUME NEW S \in SUBSET Attempt, NEW why \in PauseReason, InterruptRows(S, why)
       PROVE  AttemptTaskAgreement'
  BY <1>11, InterruptedRow, LastRow DEF InterruptRows, TypeOK
<1>12. ASSUME NEW k \in Credential, NEW s \in Session, NEW t \in Task, NEW a \in Attempt,
              RecordExecutionStopped(k, s, t, a)
       PROVE  AttemptTaskAgreement'
  <2>1. ASSUME attempts[a].status = "running", tasks[t].current = a, attempts[a].task = t,
               attempts' = [attempts EXCEPT ![a].status = "interrupted",
                                            ![a].evidence = "confirmed", ![a].reason = "other"],
               tasks' = [tasks EXCEPT ![t] = [Paused(@) EXCEPT !.last = a]]
        PROVE  AttemptTaskAgreement'
    <3>0. attempts[a].status = "running" /\ tasks[t].current = a /\ attempts[a].task = t
      BY <2>1
    <3>1. tasks'[t].state = "paused" /\ tasks'[t].current = None
      BY <2>1, LastRow DEF TypeOK
    <3>2. \A u \in Task \ {t} : tasks'[u] = tasks[u]
      BY <2>1 DEF TypeOK
    <3>3. \A b \in Attempt : /\ attempts'[b].task = attempts[b].task
                             /\ b = a => attempts'[b].status = "interrupted"
                             /\ b # a => attempts'[b].status = attempts[b].status
      BY <2>1 DEF TypeOK, AttemptRow
    <3>4. ASSUME NEW b \in Attempt
          PROVE  tasks'[t].current = b <=> attempts'[b].status = "running" /\ attempts'[b].task = t
      BY <3>0, <3>1, <3>3
    <3>5. ASSUME NEW u \in Task \ {t}, NEW b \in Attempt
          PROVE  tasks'[u].current = b <=> attempts'[b].status = "running" /\ attempts'[b].task = u
      BY <3>0, <3>2, <3>3
    <3>6. ASSUME NEW u \in Task
          PROVE  tasks'[u].state = "in_progress" <=> tasks'[u].current # None
      BY <3>1, <3>2
    <3> QED
      BY <3>4, <3>5, <3>6
  <2>2. ASSUME StopPending(a), tasks' = [tasks EXCEPT ![t].version = @ + 1],
               attempts' = [attempts EXCEPT ![a].evidence = "confirmed"]
        PROVE  AttemptTaskAgreement'
    <3>1. \A u \in Task : tasks'[u].state = tasks[u].state /\ tasks'[u].current = tasks[u].current
      BY <2>2 DEF TypeOK, TaskRow
    <3>2. \A b \in Attempt : /\ attempts'[b].task = attempts[b].task
                             /\ attempts'[b].status = attempts[b].status
      BY <2>2 DEF TypeOK, AttemptRow
    <3> QED
      BY <3>1, <3>2
  <2> QED
    BY <1>12, <2>1, <2>2 DEF RecordExecutionStopped
<1>13. ASSUME RecoverRunningAttempts PROVE AttemptTaskAgreement'
  BY <1>13, InterruptedRow, PausedRow DEF RecoverRunningAttempts, TypeOK, PauseReason
<1>14. CASE EditorNext
  BY <1>14, <1>1, <1>2, <1>3, <1>4, <1>5 DEF EditorNext
<1>15. CASE ExecutorNext
  BY <1>15, <1>6, <1>7, <1>8 DEF ExecutorNext
<1>16. CASE OperatorNext
  BY <1>16, <1>9, <1>10 DEF OperatorNext
<1>17. CASE SystemNext
  BY <1>17, <1>11, <1>12, <1>13 DEF SystemNext, InterruptAttempts, RevokeCredential, PauseReason
<1>18. CASE UNCHANGED storeVars
  BY <1>18 DEF storeVars
<1> QED
  BY <1>14, <1>15, <1>16, <1>17, <1>18 DEF Next

\* The tables of tasks and of attempts agree about what is being executed.
THEOREM TablesAgree == Spec => []AttemptTaskAgreement
<1>1. Init => AttemptTaskAgreement
  BY NoneAssumption DEF Init, AttemptTaskAgreement, NoTask, NoAttempt
<1> QED
  BY <1>1, TypeCorrect, AgreementStep, PTL DEF Spec

-----------------------------------------------------------------------------
(***************************************************************************)
(* Exclusion of the executions of an agent.  All of it follows from what a *)
(* transaction can do to the rows of task_attempts: insert one under the   *)
(* barrier check, or carry the rows over, ending at most one of them.      *)
(***************************************************************************)

\* Attempt a is inserted for agent g.
Begun(a, g) ==
    /\ attempts[a].status = "absent"
    /\ ~ AgentHasExecutionBarrier(attempts, g)
    /\ attempts'[a].status = "running" /\ attempts'[a].agent = g
    /\ \A b \in Attempt \ {a} : attempts'[b] = attempts[b]

\* No attempt is inserted, no identity changes, no barrier appears, and at most
\* one barrier goes.
Carried ==
    /\ \A a \in Attempt :
          /\ attempts'[a].agent = attempts[a].agent
          /\ attempts'[a].task = attempts[a].task
          /\ attempts'[a].owner = attempts[a].owner
          /\ attempts'[a].status = "absent" <=> attempts[a].status = "absent"
          /\ Barrier(a)' => Barrier(a)
          /\ StopPending(a) => attempts'[a].status = "interrupted"
    /\ \A a, b \in Attempt :
          Barrier(a) /\ ~ Barrier(a)' /\ Barrier(b) /\ ~ Barrier(b)' => a = b

LEMMA AttemptStep ==
    TypeOK /\ [Next]_storeVars =>
        Carried \/ \E a \in Attempt, g \in Agent : Begun(a, g)
<1> SUFFICES ASSUME TypeOK, [Next]_storeVars
             PROVE  Carried \/ \E a \in Attempt, g \in Agent : Begun(a, g)
  OBVIOUS
<1> USE DEF Barrier, StopPending, IsBarrier, StopUnknown
<1>1. ASSUME attempts' = attempts PROVE Carried
  BY <1>1 DEF Carried
<1>2. ASSUME NEW o \in Owner, NEW t \in Task, NEW r \in Request, NEW v \in Version,
             NEW checkpoint \in Version \cup {0}, NEW a \in Attempt,
             ApplyBegin(o, t, r, v, checkpoint, a)
      PROVE  \E g \in Agent : Begun(a, g)
  <2>1. Subject[o.cred] \in Agent
    BY SubjectAssumption DEF Owner
  <2>2. Begun(a, Subject[o.cred])
    BY <1>2 DEF ApplyBegin, Begun, TypeOK
  <2> QED
    BY <2>1, <2>2
<1>3. ASSUME NEW o \in Owner, NEW t \in Task, NEW v \in Version, NEW a \in Attempt,
             NEW next \in {"paused", "blocked", "done"}, ApplyRelease(o, t, v, a, next)
      PROVE  Carried
  BY <1>3 DEF ApplyRelease, RequireAttemptOwner, Carried, TypeOK, AttemptRow
<1>4. ASSUME NEW t \in Task, NEW v \in Version, ApplyInterrupt(t, v) PROVE Carried
  BY <1>4 DEF ApplyInterrupt, Interrupted, Carried, TypeOK, AttemptRow
<1>5. ASSUME NEW t \in Task, NEW v \in Version, NEW a \in Attempt, ApplyConfirmStopped(t, v, a)
      PROVE  Carried
  BY <1>5 DEF ApplyConfirmStopped, Carried, TypeOK, AttemptRow
<1>6. ASSUME NEW S \in SUBSET Attempt, NEW why \in PauseReason, InterruptRows(S, why)
      PROVE  Carried
  BY <1>6, InterruptedRow DEF InterruptRows, Carried, TypeOK
<1>7. ASSUME NEW k \in Credential, NEW s \in Session, NEW t \in Task, NEW a \in Attempt,
             RecordExecutionStopped(k, s, t, a)
      PROVE  Carried
  BY <1>7 DEF RecordExecutionStopped, Carried, TypeOK, AttemptRow
<1>8. ASSUME RecoverRunningAttempts PROVE Carried
  BY <1>8, InterruptedRow DEF RecoverRunningAttempts, Carried, TypeOK, PauseReason
<1>9. CASE EditorNext
  <2>1. attempts' = attempts
    <3>1. ASSUME NEW t \in Task, ApplyCreate(t) \/ ApplyNote(t) PROVE attempts' = attempts
      BY <3>1 DEF ApplyCreate, ApplyNote
    <3>2. ASSUME NEW t \in Task, NEW v \in Version, ApplyEdit(t, v) PROVE attempts' = attempts
      BY <3>2 DEF ApplyEdit
    <3>3. ASSUME NEW t \in Task, NEW v \in Version, NEW g, ApplyAssign(t, v, g)
          PROVE  attempts' = attempts
      BY <3>3 DEF ApplyAssign
    <3>4. ASSUME NEW t \in Task, NEW v \in Version, NEW next, ApplyTerminal(t, v, next)
          PROVE  attempts' = attempts
      BY <3>4 DEF ApplyTerminal
    <3> QED
      BY <1>9, <3>1, <3>2, <3>3, <3>4 DEF EditorNext
  <2> QED
    BY <1>1, <2>1
<1>10. CASE ExecutorNext
  BY <1>10, <1>1, <1>2, <1>3 DEF ExecutorNext, ApplyCheckpoint
<1>11. CASE OperatorNext
  BY <1>11, <1>4, <1>5 DEF OperatorNext
<1>12. CASE SystemNext
  BY <1>12, <1>6, <1>7, <1>8 DEF SystemNext, InterruptAttempts, RevokeCredential, PauseReason
<1>13. CASE UNCHANGED storeVars
  BY <1>13, <1>1 DEF storeVars
<1> QED
  BY <1>9, <1>10, <1>11, <1>12, <1>13 DEF Next

\* No agent ever has two executions that may be running.
THEOREM AgentsAreExclusive == Spec => []AgentExclusive
<1>1. Init => AgentExclusive
  BY DEF Init, AgentExclusive, Barrier, IsBarrier, StopUnknown, NoAttempt
<1>2. TypeOK /\ AgentExclusive /\ [Next]_storeVars => AgentExclusive'
  <2> SUFFICES ASSUME TypeOK, AgentExclusive, [Next]_storeVars,
                      NEW a \in Attempt, NEW b \in Attempt,
                      Barrier(a)', Barrier(b)', attempts'[a].agent = attempts'[b].agent
               PROVE  a = b
    BY DEF AgentExclusive
  <2>1. CASE Carried
    BY <2>1 DEF Carried, AgentExclusive
  <2>2. CASE \E d \in Attempt, g \in Agent : Begun(d, g)
    BY <2>2 DEF Begun, AgentExclusive, AgentHasExecutionBarrier, Barrier
  <2> QED
    BY <2>1, <2>2, AttemptStep
<1> QED
  BY <1>1, <1>2, TypeCorrect, PTL DEF Spec

\* What is on record about the end of an execution stays on record.
THEOREM EvidenceIsFinal == Spec => StopEvidenceIsFinal
<1>1. TypeOK /\ [Next]_storeVars =>
        [\A a \in Attempt :
          /\ attempts[a].status # "absent" => /\ attempts'[a].owner = attempts[a].owner
                                              /\ attempts'[a].task = attempts[a].task
          /\ attempts[a].status # "absent" /\ ~ Barrier(a) => ~ Barrier(a)'
          /\ StopPending(a) => attempts'[a].status = "interrupted"]_storeVars
  BY AttemptStep DEF Carried, Begun, StopPending, StopUnknown, Barrier, IsBarrier
<1> QED
  BY <1>1, TypeCorrect, PTL DEF Spec, StopEvidenceIsFinal

\* The lease of an agent: inserting an attempt takes it, and the one barrier
\* that a transaction can remove ends it.
THEOREM StoreImplementsAgentLease == Spec => ImplementsAgentLease
<1> DEFINE holds == [a \in Attempt |-> attempts[a].agent]
<1>1. Init => AgentLease!Init
  <2> SUFFICES ASSUME Init PROVE AgentLease!Init
    OBVIOUS
  <2>1. \A a \in Attempt : LeasePhase[a] = "unused" /\ attempts[a].agent = None
    BY DEF Init, LeasePhase, NoAttempt
  <2> QED
    BY <2>1 DEF AgentLease!Init, LeasePhase
<1>2. TypeOK /\ [Next]_storeVars => [AgentLease!Next]_(AgentLease!vars)
  <2> SUFFICES ASSUME TypeOK, [Next]_storeVars
               PROVE  AgentLease!Next \/ UNCHANGED AgentLease!vars
    OBVIOUS
  <2>1. ASSUME Carried, \A a \in Attempt : Barrier(a) => Barrier(a)'
        PROVE  UNCHANGED AgentLease!vars
    <3>1. \A a \in Attempt : LeasePhase'[a] = LeasePhase[a] /\ holds'[a] = holds[a]
      BY <2>1 DEF Carried, LeasePhase
    <3> QED
      BY <3>1 DEF AgentLease!vars, LeasePhase
  <2>2. ASSUME Carried, NEW a \in Attempt, Barrier(a), ~ Barrier(a)'
        PROVE  AgentLease!End(a)
    <3>1. LeasePhase[a] = "held" /\ LeasePhase'[a] = "ended"
      BY <2>2 DEF Carried, LeasePhase, Barrier, IsBarrier, StopUnknown
    <3>2. \A b \in Attempt \ {a} : LeasePhase'[b] = LeasePhase[b]
      BY <2>2 DEF Carried, LeasePhase
    <3>3. LeasePhase' = [LeasePhase EXCEPT ![a] = "ended"]
      BY <3>1, <3>2 DEF LeasePhase
    <3>4. holds' = holds
      BY <2>2 DEF Carried
    <3> QED
      BY <3>1, <3>3, <3>4 DEF AgentLease!End
  <2>3. ASSUME NEW a \in Attempt, NEW g \in Agent, Begun(a, g)
        PROVE  AgentLease!Take(a, g)
    <3>1. LeasePhase[a] = "unused" /\ LeasePhase'[a] = "held" /\ holds'[a] = g
      BY <2>3 DEF Begun, LeasePhase, Barrier, IsBarrier
    <3>2. \A b \in Attempt \ {a} : LeasePhase'[b] = LeasePhase[b] /\ holds'[b] = holds[b]
      BY <2>3 DEF Begun, LeasePhase, Barrier
    <3>3. /\ LeasePhase' = [LeasePhase EXCEPT ![a] = "held"]
          /\ holds' = [holds EXCEPT ![a] = g]
      BY <3>1, <3>2 DEF LeasePhase
    <3>4. AgentLease!Free(g)
      BY <2>3 DEF Begun, AgentHasExecutionBarrier, AgentLease!Free, LeasePhase, Barrier
    <3> QED
      BY <3>1, <3>3, <3>4 DEF AgentLease!Take
  <2> QED
    BY <2>1, <2>2, <2>3, AttemptStep DEF AgentLease!Next
<1> QED
  BY <1>1, <1>2, TypeCorrect, PTL DEF Spec, ImplementsAgentLease, AgentLease!Spec

-----------------------------------------------------------------------------
(***************************************************************************)
(* Optimistic versions.  A transaction either leaves the row of a task     *)
(* alone or raises its version by one, and a receipt names the version its *)
(* transaction produced.  A row that is not there yet has version 0.       *)
(***************************************************************************)
AbsentIsNew == \A t \in Task : tasks[t].state = "absent" => tasks[t] = NoTask

\* What a transaction does to the row of task t.
RowStep(t) ==
    \/ tasks'[t] = tasks[t]
    \/ /\ tasks'[t].version = tasks[t].version + 1
       /\ tasks'[t].state # "absent"

\* A receipt is written for the version just produced, or is that of a note.
ReceiptStep(kind, t, v, a) ==
    /\ FinishMutation(kind, t, v, a)
    /\ \/ kind = "note" /\ v = tasks[t].version
       \/ v = tasks[t].version + 1 /\ tasks'[t].version = v

TaskStep ==
    /\ \A t \in Task : RowStep(t)
    /\ \/ receipts' = receipts
       \/ \E kind \in Kind, t \in Task, v \in Nat, a \in Attempt \cup {None} :
            ReceiptStep(kind, t, v, a)

LEMMA VersionStep == TypeOK /\ AbsentIsNew /\ [Next]_storeVars => TaskStep
<1> SUFFICES ASSUME TypeOK, AbsentIsNew, [Next]_storeVars PROVE TaskStep
  OBVIOUS
<1> USE NoneAssumption
<1>0. Version \subseteq Nat
  BY BoundAssumption DEF Version
<1> USE <1>0
<1>a. ASSUME NEW kind \in Kind, NEW t \in Task, NEW v \in Nat, NEW a \in Attempt \cup {None},
             ReceiptStep(kind, t, v, a), RowStep(t),
             \A u \in Task \ {t} : tasks'[u] = tasks[u]
      PROVE  TaskStep
  BY <1>a DEF TaskStep, RowStep
<1>1. ASSUME NEW t \in Task, ApplyCreate(t) PROVE TaskStep
  <2>1. tasks[t].version = 0 /\ tasks'[t].version = 1 /\ tasks'[t].state = "todo"
    BY <1>1 DEF ApplyCreate, AbsentIsNew, NoTask, TypeOK
  <2>2. ReceiptStep("create", t, 1, None)
    BY <1>1, <2>1 DEF ApplyCreate, ReceiptStep
  <2>3. \A u \in Task \ {t} : tasks'[u] = tasks[u]
    BY <1>1 DEF ApplyCreate, TypeOK
  <2> QED
    BY <1>a, <2>1, <2>2, <2>3 DEF RowStep, Kind
<1>2. ASSUME NEW t \in Task, NEW v \in Version, ApplyEdit(t, v) PROVE TaskStep
  <2>1. tasks[t].version = v /\ tasks'[t].version = v + 1 /\ tasks'[t].state # "absent"
    BY <1>2 DEF ApplyEdit, CheckVersion, TypeOK, TaskRow
  <2>2. ReceiptStep("edit", t, v + 1, None)
    BY <1>2, <2>1 DEF ApplyEdit, ReceiptStep
  <2>3. \A u \in Task \ {t} : tasks'[u] = tasks[u]
    BY <1>2 DEF ApplyEdit, TypeOK
  <2> QED
    BY <1>a, <2>1, <2>2, <2>3 DEF RowStep, Kind
<1>3. ASSUME NEW t \in Task, NEW v \in Version, NEW g \in Agent \cup {None}, ApplyAssign(t, v, g)
      PROVE  TaskStep
  <2>1. tasks[t].version = v /\ tasks'[t].version = v + 1 /\ tasks'[t].state # "absent"
    BY <1>3 DEF ApplyAssign, CheckVersion, TypeOK, TaskRow
  <2>2. ReceiptStep("assign", t, v + 1, None)
    BY <1>3, <2>1 DEF ApplyAssign, ReceiptStep
  <2>3. \A u \in Task \ {t} : tasks'[u] = tasks[u]
    BY <1>3 DEF ApplyAssign, TypeOK
  <2> QED
    BY <1>a, <2>1, <2>2, <2>3 DEF RowStep, Kind
<1>4. ASSUME NEW t \in Task, ApplyNote(t) PROVE TaskStep
  <2>1. tasks[t].version \in Nat /\ tasks[t].last \in Attempt \cup {None}
    BY DEF TypeOK, TaskRow
  <2>2. ReceiptStep("note", t, tasks[t].version, tasks[t].last)
    BY <1>4 DEF ApplyNote, ReceiptStep
  <2> QED
    BY <1>4, <1>a, <2>1, <2>2 DEF ApplyNote, RowStep, Kind
<1>5. ASSUME NEW t \in Task, NEW v \in Version, NEW next \in {"cancelled", "todo"},
             ApplyTerminal(t, v, next)
      PROVE  TaskStep
  <2>1. tasks[t].version = v /\ tasks'[t].version = v + 1 /\ tasks'[t].state # "absent"
    BY <1>5 DEF ApplyTerminal, CheckVersion, TypeOK, TaskRow
  <2>2. tasks[t].last \in Attempt \cup {None}
    BY DEF TypeOK, TaskRow
  <2>3. ReceiptStep(IF next = "todo" THEN "reopen" ELSE "cancel", t, v + 1, tasks[t].last)
    BY <1>5, <2>1 DEF ApplyTerminal, ReceiptStep
  <2>4. \A u \in Task \ {t} : tasks'[u] = tasks[u]
    BY <1>5 DEF ApplyTerminal, TypeOK
  <2>5. (IF next = "todo" THEN "reopen" ELSE "cancel") \in Kind
    BY DEF Kind
  <2>6. v + 1 \in Nat
    OBVIOUS
  <2>7. RowStep(t)
    BY <2>1 DEF RowStep
  <2> QED
    BY <1>a, <2>2, <2>3, <2>4, <2>5, <2>6, <2>7, Zenon
<1>6. ASSUME NEW o \in Owner, NEW t \in Task, NEW r \in Request, NEW v \in Version,
             NEW checkpoint \in Version \cup {0}, NEW a \in Attempt,
             ApplyBegin(o, t, r, v, checkpoint, a)
      PROVE  TaskStep
  <2>1. tasks[t].version = v /\ tasks'[t].version = v + 1 /\ tasks'[t].state # "absent"
    BY <1>6 DEF ApplyBegin, CheckVersion, TypeOK, TaskRow
  <2>2. ReceiptStep("begin", t, v + 1, a)
    BY <1>6, <2>1 DEF ApplyBegin, ReceiptStep
  <2>3. \A u \in Task \ {t} : tasks'[u] = tasks[u]
    BY <1>6 DEF ApplyBegin, TypeOK
  <2> QED
    BY <1>a, <2>1, <2>2, <2>3 DEF RowStep, Kind
<1>7. ASSUME NEW o \in Owner, NEW t \in Task, NEW v \in Version, NEW a \in Attempt,
             ApplyCheckpoint(o, t, v, a)
      PROVE  TaskStep
  <2>1. tasks[t].version = v /\ tasks'[t].version = v + 1 /\ tasks'[t].state # "absent"
    BY <1>7 DEF ApplyCheckpoint, RequireAttemptOwner, CheckVersion, TypeOK, TaskRow
  <2>2. ReceiptStep("checkpoint", t, v + 1, a)
    BY <1>7, <2>1 DEF ApplyCheckpoint, ReceiptStep
  <2>3. \A u \in Task \ {t} : tasks'[u] = tasks[u]
    BY <1>7 DEF ApplyCheckpoint, TypeOK
  <2> QED
    BY <1>a, <2>1, <2>2, <2>3 DEF RowStep, Kind
<1>8. ASSUME NEW o \in Owner, NEW t \in Task, NEW v \in Version, NEW a \in Attempt,
             NEW next \in {"paused", "blocked", "done"}, ApplyRelease(o, t, v, a, next)
      PROVE  TaskStep
  <2>1. tasks[t].version = v /\ tasks'[t].version = v + 1 /\ tasks'[t].state # "absent"
    BY <1>8 DEF ApplyRelease, RequireAttemptOwner, CheckVersion, TypeOK, TaskRow
  <2>2. ReceiptStep(IF next = "done" THEN "complete" ELSE "pause", t, v + 1, a)
    BY <1>8, <2>1 DEF ApplyRelease, ReceiptStep
  <2>3. \A u \in Task \ {t} : tasks'[u] = tasks[u]
    BY <1>8 DEF ApplyRelease, TypeOK
  <2> QED
    BY <1>a, <2>1, <2>2, <2>3 DEF RowStep, Kind
<1>9. ASSUME NEW t \in Task, NEW v \in Version, ApplyInterrupt(t, v) PROVE TaskStep
  <2>1. tasks[t].version = v /\ tasks'[t].version = v + 1 /\ tasks'[t].state # "absent"
    BY <1>9 DEF ApplyInterrupt, CheckVersion, TypeOK, TaskRow
  <2>2. tasks[t].current \in Attempt \cup {None}
    BY DEF TypeOK, TaskRow
  <2>3. ReceiptStep("interrupt", t, v + 1, tasks[t].current)
    BY <1>9, <2>1 DEF ApplyInterrupt, ReceiptStep
  <2>4. \A u \in Task \ {t} : tasks'[u] = tasks[u]
    BY <1>9 DEF ApplyInterrupt, TypeOK
  <2> QED
    BY <1>a, <2>1, <2>2, <2>3, <2>4 DEF RowStep, Kind
<1>10. ASSUME NEW t \in Task, NEW v \in Version, NEW a \in Attempt, ApplyConfirmStopped(t, v, a)
       PROVE  TaskStep
  <2>1. tasks[t].version = v /\ tasks'[t].version = v + 1 /\ tasks'[t].state # "absent"
    BY <1>10 DEF ApplyConfirmStopped, CheckVersion, TypeOK, TaskRow
  <2>2. ReceiptStep("confirm", t, v + 1, a)
    BY <1>10, <2>1 DEF ApplyConfirmStopped, ReceiptStep
  <2>3. \A u \in Task \ {t} : tasks'[u] = tasks[u]
    BY <1>10 DEF ApplyConfirmStopped, TypeOK
  <2> QED
    BY <1>a, <2>1, <2>2, <2>3 DEF RowStep, Kind
<1>11. ASSUME NEW S \in SUBSET Attempt, NEW why \in PauseReason, InterruptRows(S, why),
              receipts' = receipts
       PROVE  TaskStep
  <2>1. ASSUME NEW t \in Task PROVE RowStep(t)
    BY <1>11, <2>1, LastRow DEF InterruptRows, TypeOK, RowStep
  <2> QED
    BY <1>11, <2>1 DEF TaskStep
<1>12. ASSUME NEW k \in Credential, NEW s \in Session, NEW t \in Task, NEW a \in Attempt,
              RecordExecutionStopped(k, s, t, a)
       PROVE  TaskStep
  <2>1. CASE tasks' = tasks
    BY <1>12, <2>1 DEF RecordExecutionStopped, TaskStep, RowStep
  <2>2. CASE tasks' = [tasks EXCEPT ![t] = [Paused(@) EXCEPT !.last = a]]
    BY <1>12, <2>2, LastRow DEF RecordExecutionStopped, TaskStep, RowStep, TypeOK
  <2>3. CASE tasks[t].last = a /\ tasks' = [tasks EXCEPT ![t].version = @ + 1]
    <3>1. tasks[t].state # "absent"
      BY <2>3 DEF AbsentIsNew, NoTask
    <3>2. tasks'[t].version = tasks[t].version + 1 /\ tasks'[t].state = tasks[t].state
      BY <2>3 DEF TypeOK, TaskRow
    <3>3. \A u \in Task \ {t} : tasks'[u] = tasks[u]
      BY <2>3 DEF TypeOK
    <3> QED
      BY <1>12, <3>1, <3>2, <3>3 DEF RecordExecutionStopped, TaskStep, RowStep
  <2> QED
    BY <1>12, <2>1, <2>2, <2>3 DEF RecordExecutionStopped
<1>13. ASSUME RecoverRunningAttempts PROVE TaskStep
  <2>1. ASSUME NEW t \in Task PROVE RowStep(t)
    BY <1>13, PausedRow DEF RecoverRunningAttempts, TypeOK, RowStep
  <2> QED
    BY <1>13, <2>1 DEF RecoverRunningAttempts, TaskStep
<1>14. CASE EditorNext
  BY <1>14, <1>1, <1>2, <1>3, <1>4, <1>5 DEF EditorNext
<1>15. CASE ExecutorNext
  BY <1>15, <1>6, <1>7, <1>8 DEF ExecutorNext
<1>16. CASE OperatorNext
  BY <1>16, <1>9, <1>10 DEF OperatorNext
<1>17. CASE SystemNext
  BY <1>17, <1>11, <1>12, <1>13 DEF SystemNext, InterruptAttempts, RevokeCredential, PauseReason
<1>18. CASE UNCHANGED storeVars
  BY <1>18 DEF storeVars, TaskStep, RowStep
<1> QED
  BY <1>14, <1>15, <1>16, <1>17, <1>18 DEF Next

LEMMA AbsentRows == Spec => []AbsentIsNew
<1>1. Init => AbsentIsNew
  BY DEF Init, AbsentIsNew
<1>2. TypeOK /\ AbsentIsNew /\ [Next]_storeVars => AbsentIsNew'
  BY VersionStep DEF TaskStep, RowStep, AbsentIsNew
<1> QED
  BY <1>1, <1>2, TypeCorrect, PTL DEF Spec

\* A caller who is told that its version is current saw the row it changes.
THEOREM ChangesRaiseVersion == Spec => ChangeRaisesVersion
<1>1. TypeOK /\ AbsentIsNew /\ [Next]_storeVars =>
        [\A t \in Task : tasks'[t] # tasks[t] => tasks'[t].version = tasks[t].version + 1]_storeVars
  BY VersionStep DEF TaskStep, RowStep
<1> QED
  BY <1>1, TypeCorrect, AbsentRows, PTL DEF Spec, ChangeRaisesVersion

\* Of two commands on the same version of a task one is refused.
THEOREM NoUpdateIsLost == Spec => []NoLostUpdate
<1>1. Init => NoLostUpdate
  BY DEF Init, NoLostUpdate
<1>2. TypeOK /\ AbsentIsNew /\ NoLostUpdate /\ [Next]_storeVars => NoLostUpdate'
  <2> SUFFICES ASSUME TypeOK, AbsentIsNew, NoLostUpdate, [Next]_storeVars PROVE NoLostUpdate'
    OBVIOUS
  <2>1. TaskStep
    BY VersionStep
  <2>2. \A r \in receipts : r \in Receipt /\ r.task \in Task /\ r.version \in Nat
    BY DEF TypeOK, Receipt
  <2>3. \A t \in Task : tasks[t].version \in Nat /\ tasks'[t].version >= tasks[t].version
    BY <2>1 DEF TaskStep, RowStep, TypeOK, TaskRow
  <2>a. ASSUME NEW r \in receipts PROVE r.version <= tasks'[r.task].version
    <3>1. r.version <= tasks[r.task].version
      BY DEF NoLostUpdate
    <3>2. tasks'[r.task].version \in Nat
      BY <2>2, TypeStep DEF TypeOK, TaskRow
    <3> QED
      BY <2>2, <2>3, <3>1, <3>2
  <2>4. CASE receipts' = receipts
    BY <2>a, <2>4 DEF NoLostUpdate
  <2>5. ASSUME NEW kind \in Kind, NEW t \in Task, NEW v \in Nat, NEW a \in Attempt \cup {None},
               ReceiptStep(kind, t, v, a)
        PROVE  NoLostUpdate'
    <3> DEFINE new == [kind |-> kind, task |-> t, version |-> v, attempt |-> a]
    <3>1. receipts' = receipts \cup {new}
      BY <2>5 DEF ReceiptStep, FinishMutation
    <3>2. \A r \in receipts' : r.version <= tasks'[r.task].version
      <4>1. new.version <= tasks'[new.task].version
        BY <2>3, <2>5 DEF ReceiptStep
      <4> QED
        BY <2>a, <3>1, <4>1
    <3>3. kind # "note" => \A r \in receipts : r.task = t => r.version < v
      BY <2>2, <2>3, <2>5 DEF NoLostUpdate, ReceiptStep
    <3>4. ASSUME NEW r1 \in receipts', NEW r2 \in receipts', r1.kind # "note", r2.kind # "note",
                 r1.task = r2.task, r1.version = r2.version
          PROVE  r1 = r2
      BY <2>2, <3>1, <3>3, <3>4 DEF NoLostUpdate
    <3> QED
      BY <3>2, <3>4 DEF NoLostUpdate
  <2> QED
    BY <2>1, <2>4, <2>5 DEF TaskStep
<1> QED
  BY <1>1, <1>2, TypeCorrect, AbsentRows, PTL DEF Spec

-----------------------------------------------------------------------------
(***************************************************************************)
(* Checkpoints.  Three things can happen to what the next executor resumes *)
(* from: an attempt begins from it, its owner replaces it, or it stays.    *)
(***************************************************************************)

\* What an attempt was begun as stays on its row.
Kept(a) ==
    /\ attempts'[a].task = attempts[a].task /\ attempts'[a].agent = attempts[a].agent
    /\ attempts'[a].owner = attempts[a].owner /\ attempts'[a].resumed = attempts[a].resumed
    /\ attempts'[a].request = attempts[a].request
    /\ attempts'[a].status = "absent" <=> attempts[a].status = "absent"
    /\ attempts[a].status = "absent" => attempts'[a] = attempts[a]

\* The pointers of task t stay, or the current attempt is taken away.
PointersKept(t) ==
    \/ tasks'[t].current = None
    \/ tasks'[t].current = tasks[t].current /\ tasks'[t].last = tasks[t].last

CheckpointKind == {"checkpoint", "pause", "complete"}

\* No attempt begins and no checkpoint is recorded.
OtherHistory ==
    /\ \A a \in Attempt : Kept(a)
    /\ \A t \in Task : tasks'[t].checkpoint = tasks[t].checkpoint /\ PointersKept(t)
    /\ \/ receipts' = receipts
       \/ \E kind \in Kind \ (CheckpointKind \cup {"begin"}), t \in Task, v \in Nat,
             a \in Attempt \cup {None} : FinishMutation(kind, t, v, a)

\* A report on task t becomes its checkpoint.
Checkpointed(kind, t, a) ==
    /\ \A b \in Attempt : Kept(b)
    /\ \A u \in Task : PointersKept(u)
    /\ \A u \in Task \ {t} : tasks'[u].checkpoint = tasks[u].checkpoint
    /\ tasks'[t].checkpoint = tasks[t].version + 1
    /\ FinishMutation(kind, t, tasks[t].version + 1, a)

\* Attempt a of task t begins for o, from the checkpoint of the task.
BegunFrom(o, t, a) ==
    /\ attempts[a].status = "absent"
    /\ attempts'[a].task = t /\ attempts'[a].owner = o /\ attempts'[a].agent = Subject[o.cred]
    /\ attempts'[a].resumed = tasks[t].checkpoint /\ attempts'[a].status = "running"
    /\ \A b \in Attempt \ {a} : attempts'[b] = attempts[b]
    /\ \A u \in Task : tasks'[u].checkpoint = tasks[u].checkpoint
    /\ tasks'[t].current = a /\ tasks'[t].last = a
    /\ \A u \in Task \ {t} : tasks'[u] = tasks[u]
    /\ FinishMutation("begin", t, tasks[t].version + 1, a)

HistoryStep ==
    \/ OtherHistory
    \/ \E kind \in CheckpointKind, t \in Task, a \in Attempt : Checkpointed(kind, t, a)
    \/ \E o \in Owner, t \in Task, a \in Attempt : BegunFrom(o, t, a)

LEMMA EveryHistoryStep == TypeOK /\ AbsentIsNew /\ [Next]_storeVars => HistoryStep
<1> SUFFICES ASSUME TypeOK, AbsentIsNew, [Next]_storeVars PROVE HistoryStep
  OBVIOUS
<1> USE NoneAssumption
<1>0. Version \subseteq Nat
  BY BoundAssumption DEF Version
<1> USE <1>0
<1>a. ASSUME attempts' = attempts PROVE \A a \in Attempt : Kept(a)
  BY <1>a DEF Kept
<1>b. ASSUME tasks' = tasks
      PROVE  \A t \in Task : tasks'[t].checkpoint = tasks[t].checkpoint /\ PointersKept(t)
  BY <1>b DEF PointersKept
<1>1. ASSUME NEW t \in Task, ApplyCreate(t) PROVE OtherHistory
  <2>1. \A u \in Task : tasks'[u].checkpoint = tasks[u].checkpoint /\ PointersKept(u)
    BY <1>1 DEF ApplyCreate, AbsentIsNew, NoTask, PointersKept, TypeOK, TaskRow
  <2> QED
    BY <1>1, <1>a, <2>1 DEF ApplyCreate, OtherHistory, Kind, CheckpointKind
<1>2. ASSUME NEW t \in Task, NEW v \in Version, ApplyEdit(t, v) PROVE OtherHistory
  <2>1. \A u \in Task : tasks'[u].checkpoint = tasks[u].checkpoint /\ PointersKept(u)
    BY <1>2 DEF ApplyEdit, PointersKept, TypeOK, TaskRow
  <2> QED
    BY <1>2, <1>a, <2>1 DEF ApplyEdit, OtherHistory, Kind, CheckpointKind
<1>3. ASSUME NEW t \in Task, NEW v \in Version, NEW g \in Agent \cup {None}, ApplyAssign(t, v, g)
      PROVE  OtherHistory
  <2>1. \A u \in Task : tasks'[u].checkpoint = tasks[u].checkpoint /\ PointersKept(u)
    BY <1>3 DEF ApplyAssign, PointersKept, TypeOK, TaskRow
  <2>2. FinishMutation("assign", t, v + 1, None) /\ attempts' = attempts /\ v + 1 \in Nat
    BY <1>3 DEF ApplyAssign
  <2> QED
    BY <1>a, <2>1, <2>2 DEF OtherHistory, Kind, CheckpointKind
<1>4. ASSUME NEW t \in Task, ApplyNote(t) PROVE OtherHistory
  <2>1. tasks[t].version \in Nat /\ tasks[t].last \in Attempt \cup {None}
    BY DEF TypeOK, TaskRow
  <2> QED
    BY <1>4, <1>a, <1>b, <2>1 DEF ApplyNote, OtherHistory, Kind, CheckpointKind
<1>5. ASSUME NEW t \in Task, NEW v \in Version, NEW next \in {"cancelled", "todo"},
             ApplyTerminal(t, v, next)
      PROVE  OtherHistory
  <2>1. \A u \in Task : tasks'[u].checkpoint = tasks[u].checkpoint /\ PointersKept(u)
    BY <1>5 DEF ApplyTerminal, PointersKept, TypeOK, TaskRow
  <2>2. tasks[t].last \in Attempt \cup {None} /\ v + 1 \in Nat
    BY DEF TypeOK, TaskRow
  <2>3. (IF next = "todo" THEN "reopen" ELSE "cancel") \in Kind \ (CheckpointKind \cup {"begin"})
    BY DEF Kind, CheckpointKind
  <2>4. FinishMutation(IF next = "todo" THEN "reopen" ELSE "cancel", t, v + 1, tasks[t].last)
    BY <1>5 DEF ApplyTerminal
  <2>5. \A a \in Attempt : Kept(a)
    BY <1>5, <1>a DEF ApplyTerminal
  <2> QED
    BY <2>1, <2>2, <2>3, <2>4, <2>5, Zenon DEF OtherHistory
<1>6. ASSUME NEW o \in Owner, NEW t \in Task, NEW r \in Request, NEW v \in Version,
             NEW checkpoint \in Version \cup {0}, NEW a \in Attempt,
             ApplyBegin(o, t, r, v, checkpoint, a)
      PROVE  BegunFrom(o, t, a)
  <2>1. tasks[t].version = v /\ tasks[t].checkpoint = checkpoint
    BY <1>6 DEF ApplyBegin, CheckVersion
  <2>2. /\ attempts'[a].task = t /\ attempts'[a].owner = o /\ attempts'[a].agent = Subject[o.cred]
        /\ attempts'[a].resumed = checkpoint /\ attempts'[a].status = "running"
        /\ \A b \in Attempt \ {a} : attempts'[b] = attempts[b]
    BY <1>6 DEF ApplyBegin, TypeOK
  <2>3. /\ \A u \in Task : tasks'[u].checkpoint = tasks[u].checkpoint
        /\ tasks'[t].current = a /\ tasks'[t].last = a
        /\ \A u \in Task \ {t} : tasks'[u] = tasks[u]
    BY <1>6 DEF ApplyBegin, TypeOK, TaskRow
  <2> QED
    BY <1>6, <2>1, <2>2, <2>3 DEF ApplyBegin, BegunFrom
<1>7. ASSUME NEW o \in Owner, NEW t \in Task, NEW v \in Version, NEW a \in Attempt,
             ApplyCheckpoint(o, t, v, a)
      PROVE  Checkpointed("checkpoint", t, a)
  <2>1. tasks[t].version = v
    BY <1>7 DEF ApplyCheckpoint, RequireAttemptOwner, CheckVersion
  <2>2. /\ tasks'[t].checkpoint = v + 1
        /\ \A u \in Task : PointersKept(u)
        /\ \A u \in Task \ {t} : tasks'[u].checkpoint = tasks[u].checkpoint
    BY <1>7 DEF ApplyCheckpoint, PointersKept, TypeOK, TaskRow
  <2> QED
    BY <1>7, <1>a, <2>1, <2>2 DEF ApplyCheckpoint, Checkpointed
<1>8. ASSUME NEW o \in Owner, NEW t \in Task, NEW v \in Version, NEW a \in Attempt,
             NEW next \in {"paused", "blocked", "done"}, ApplyRelease(o, t, v, a, next)
      PROVE  \E kind \in CheckpointKind : Checkpointed(kind, t, a)
  <2>1. tasks[t].version = v /\ attempts[a].status = "running"
    BY <1>8 DEF ApplyRelease, RequireAttemptOwner, CheckVersion
  <2>2. /\ tasks'[t].checkpoint = v + 1
        /\ \A u \in Task : PointersKept(u)
        /\ \A u \in Task \ {t} : tasks'[u].checkpoint = tasks[u].checkpoint
    BY <1>8 DEF ApplyRelease, PointersKept, TypeOK, TaskRow
  <2>3. \A b \in Attempt : Kept(b)
    BY <1>8, <2>1 DEF ApplyRelease, Kept, TypeOK, AttemptRow
  <2>4. FinishMutation(IF next = "done" THEN "complete" ELSE "pause", t, v + 1, a)
    BY <1>8 DEF ApplyRelease
  <2>5. (IF next = "done" THEN "complete" ELSE "pause") \in CheckpointKind
    BY DEF CheckpointKind
  <2> QED
    BY <2>1, <2>2, <2>3, <2>4, <2>5 DEF Checkpointed
<1>9. ASSUME NEW t \in Task, NEW v \in Version, ApplyInterrupt(t, v) PROVE OtherHistory
  <2>1. \A u \in Task : tasks'[u].checkpoint = tasks[u].checkpoint /\ PointersKept(u)
    BY <1>9 DEF ApplyInterrupt, PointersKept, TypeOK, TaskRow
  <2>2. \A b \in Attempt : Kept(b)
    BY <1>9 DEF ApplyInterrupt, Interrupted, Kept, TypeOK, AttemptRow
  <2>3. tasks[t].current \in Attempt \cup {None} /\ v + 1 \in Nat
    BY DEF TypeOK, TaskRow
  <2> QED
    BY <1>9, <2>1, <2>2, <2>3 DEF ApplyInterrupt, OtherHistory, Kind, CheckpointKind
<1>10. ASSUME NEW t \in Task, NEW v \in Version, NEW a \in Attempt, ApplyConfirmStopped(t, v, a)
       PROVE  OtherHistory
  <2>1. \A u \in Task : tasks'[u].checkpoint = tasks[u].checkpoint /\ PointersKept(u)
    BY <1>10 DEF ApplyConfirmStopped, PointersKept, TypeOK, TaskRow
  <2>2. \A b \in Attempt : Kept(b)
    BY <1>10 DEF ApplyConfirmStopped, StopPending, StopUnknown, Kept, TypeOK, AttemptRow
  <2> QED
    BY <1>10, <2>1, <2>2 DEF ApplyConfirmStopped, OtherHistory, Kind, CheckpointKind
<1>11. ASSUME NEW S \in SUBSET Attempt, NEW why \in PauseReason, InterruptRows(S, why),
              receipts' = receipts
       PROVE  OtherHistory
  <2>1. ASSUME NEW t \in Task
        PROVE  tasks'[t].checkpoint = tasks[t].checkpoint /\ PointersKept(t)
    BY <1>11, LastRow DEF InterruptRows, PointersKept, TypeOK
  <2>2. ASSUME NEW b \in Attempt PROVE Kept(b)
    BY <1>11, <2>2 DEF InterruptRows, Interrupted, Kept, TypeOK, AttemptRow
  <2> QED
    BY <1>11, <2>1, <2>2 DEF OtherHistory
<1>12. ASSUME NEW k \in Credential, NEW s \in Session, NEW t \in Task, NEW a \in Attempt,
              RecordExecutionStopped(k, s, t, a)
       PROVE  OtherHistory
  <2>1. ASSUME NEW u \in Task
        PROVE  tasks'[u].checkpoint = tasks[u].checkpoint /\ PointersKept(u)
    <3>1. CASE tasks' = tasks
      BY <3>1 DEF PointersKept
    <3>2. CASE tasks' = [tasks EXCEPT ![t] = [Paused(@) EXCEPT !.last = a]]
      BY <3>2, LastRow DEF PointersKept, TypeOK
    <3>3. CASE tasks' = [tasks EXCEPT ![t].version = @ + 1]
      BY <3>3 DEF PointersKept, TypeOK, TaskRow
    <3> QED
      BY <1>12, <3>1, <3>2, <3>3 DEF RecordExecutionStopped
  <2>2. ASSUME NEW b \in Attempt PROVE Kept(b)
    BY <1>12, <2>2 DEF RecordExecutionStopped, StopPending, StopUnknown, Kept, TypeOK, AttemptRow
  <2> QED
    BY <1>12, <2>1, <2>2 DEF RecordExecutionStopped, OtherHistory
<1>13. ASSUME RecoverRunningAttempts PROVE OtherHistory
  <2>1. ASSUME NEW t \in Task
        PROVE  tasks'[t].checkpoint = tasks[t].checkpoint /\ PointersKept(t)
    BY <1>13, PausedRow DEF RecoverRunningAttempts, PointersKept, TypeOK
  <2>2. ASSUME NEW b \in Attempt PROVE Kept(b)
    BY <1>13, <2>2 DEF RecoverRunningAttempts, Interrupted, Kept, TypeOK, AttemptRow
  <2> QED
    BY <1>13, <2>1, <2>2 DEF RecoverRunningAttempts, OtherHistory
<1>14. CASE EditorNext
  BY <1>14, <1>1, <1>2, <1>3, <1>4, <1>5 DEF EditorNext, HistoryStep
<1>15. CASE ExecutorNext
  BY <1>15, <1>6, <1>7, <1>8 DEF ExecutorNext, HistoryStep, CheckpointKind
<1>16. CASE OperatorNext
  BY <1>16, <1>9, <1>10 DEF OperatorNext, HistoryStep
<1>17. CASE SystemNext
  BY <1>17, <1>11, <1>12, <1>13
  DEF SystemNext, InterruptAttempts, RevokeCredential, PauseReason, HistoryStep
<1>18. CASE UNCHANGED storeVars
  BY <1>18, <1>a, <1>b DEF storeVars, HistoryStep, OtherHistory
<1> QED
  BY <1>14, <1>15, <1>16, <1>17, <1>18 DEF Next

\* An attempt that is on record carries the identity it was begun with, a free
\* attempt id carries nothing.
AttemptsIdentified ==
    \A a \in Attempt :
        IF attempts[a].status = "absent" THEN attempts[a].task = None
        ELSE /\ attempts[a].task \in Task /\ attempts[a].owner \in Owner
             /\ attempts[a].agent = Subject[attempts[a].owner.cred]

\* The attempt a task works on is its last one.
CurrentIsLast == \A t \in Task : tasks[t].current # None => tasks[t].last = tasks[t].current

\* Every attempt has the receipt of its begin, and every such receipt its attempt.
BeginsOnRecord ==
    /\ \A a \in Attempt : attempts[a].status # "absent" =>
          \E b \in receipts : b.kind = "begin" /\ b.attempt = a /\ b.task = attempts[a].task
    /\ \A b \in receipts : b.kind = "begin" =>
          /\ b.attempt \in Attempt /\ attempts[b.attempt].status # "absent"
          /\ attempts[b.attempt].task = b.task

OnRecord == AttemptsIdentified /\ CurrentIsLast /\ BeginsOnRecord

LEMMA RecordStep == TypeOK /\ AbsentIsNew /\ OnRecord /\ [Next]_storeVars => OnRecord'
<1> SUFFICES ASSUME TypeOK, AbsentIsNew, OnRecord, [Next]_storeVars PROVE OnRecord'
  OBVIOUS
<1> USE NoneAssumption DEF OnRecord
<1>a. ASSUME \A a \in Attempt : Kept(a), \A t \in Task : PointersKept(t)
      PROVE  AttemptsIdentified' /\ CurrentIsLast'
  <2>1. AttemptsIdentified'
    BY <1>a DEF AttemptsIdentified, Kept
  <2>2. CurrentIsLast'
    BY <1>a DEF CurrentIsLast, PointersKept
  <2> QED
    BY <2>1, <2>2
<1>b. ASSUME \A a \in Attempt : Kept(a), NEW kind, kind # "begin", NEW t, NEW v, NEW b,
             receipts' = receipts \/ FinishMutation(kind, t, v, b)
      PROVE  BeginsOnRecord'
  <2>1. \A rc : rc.kind = "begin" => (rc \in receipts' <=> rc \in receipts)
    BY <1>b DEF FinishMutation
  <2> QED
    BY <1>b, <2>1 DEF BeginsOnRecord, Kept
<1>1. CASE OtherHistory
  <2>1. AttemptsIdentified' /\ CurrentIsLast'
    BY <1>1, <1>a DEF OtherHistory
  <2>2. BeginsOnRecord'
    BY <1>1, <1>b DEF OtherHistory
  <2> QED
    BY <2>1, <2>2
<1>2. ASSUME NEW kind \in CheckpointKind, NEW t \in Task, NEW a \in Attempt,
             Checkpointed(kind, t, a)
      PROVE  OnRecord'
  <2>1. AttemptsIdentified' /\ CurrentIsLast'
    BY <1>2, <1>a DEF Checkpointed
  <2>2. kind # "begin"
    BY DEF CheckpointKind
  <2>3. BeginsOnRecord'
    BY <1>2, <2>2, <1>b DEF Checkpointed
  <2> QED
    BY <2>1, <2>3
<1>3. ASSUME NEW o \in Owner, NEW t \in Task, NEW a \in Attempt, BegunFrom(o, t, a)
      PROVE  OnRecord'
  <2>1. AttemptsIdentified'
    BY <1>3 DEF AttemptsIdentified, BegunFrom
  <2>2. CurrentIsLast'
    BY <1>3 DEF CurrentIsLast, BegunFrom
  <2> DEFINE new == [kind |-> "begin", task |-> t, version |-> tasks[t].version + 1, attempt |-> a]
  <2>3. receipts' = receipts \cup {new}
    BY <1>3 DEF BegunFrom, FinishMutation
  <2>4. new.kind = "begin" /\ new.attempt = a /\ new.task = t
    OBVIOUS
  <2> HIDE DEF new
  <2>5. BeginsOnRecord'
    BY <1>3, <2>3, <2>4 DEF BeginsOnRecord, BegunFrom
  <2> QED
    BY <2>1, <2>2, <2>5
<1> QED
  BY <1>1, <1>2, <1>3, EveryHistoryStep DEF HistoryStep

LEMMA AlwaysOnRecord == Spec => []OnRecord
<1>1. Init => OnRecord
  BY NoneAssumption
  DEF Init, OnRecord, AttemptsIdentified, CurrentIsLast, BeginsOnRecord, NoTask, NoAttempt
<1> QED
  BY <1>1, RecordStep, TypeCorrect, AbsentRows, PTL DEF Spec

\* What an executor recorded is what the next one resumes from, whatever came in
\* between; an execution resumes from the newest checkpoint at its begin.
THEOREM CheckpointsAreNewest == Spec => []CheckpointIsNewest
<1>1. Init => CheckpointIsNewest
  BY DEF Init, CheckpointIsNewest, CheckpointReceipts, NoTask
<1>2. TypeOK /\ AbsentIsNew /\ OnRecord /\ NoLostUpdate /\ CheckpointIsNewest /\ [Next]_storeVars
        => CheckpointIsNewest'
  <2> SUFFICES ASSUME TypeOK, AbsentIsNew, OnRecord, NoLostUpdate, CheckpointIsNewest,
                      [Next]_storeVars, NEW t \in Task
               PROVE  /\ \A r \in CheckpointReceipts(t)' : r.version <= tasks'[t].checkpoint
                      /\ tasks'[t].checkpoint # 0 =>
                            \E r \in CheckpointReceipts(t)' : r.version = tasks'[t].checkpoint
                      /\ \A a \in Attempt : attempts'[a].task = t =>
                            \A r \in CheckpointReceipts(t)' :
                                r.version > attempts'[a].resumed =>
                                   \E b \in receipts' : /\ b.kind = "begin" /\ b.attempt = a
                                                        /\ b.version < r.version
    BY DEF CheckpointIsNewest
  <2> USE NoneAssumption
  <2>0. /\ \A r \in receipts : r.version \in Nat /\ r.task \in Task
        /\ \A u \in Task : tasks[u].version \in Nat /\ tasks[u].checkpoint \in Nat
        /\ \A r \in receipts : r.task = t => r.version < tasks[t].version + 1
    BY DEF TypeOK, Receipt, TaskRow, NoLostUpdate
  <2> DEFINE Resumes(a) ==
        \A r \in CheckpointReceipts(t)' : r.version > attempts'[a].resumed =>
           \E b \in receipts' : b.kind = "begin" /\ b.attempt = a /\ b.version < r.version
  <2>a. ASSUME CheckpointReceipts(t)' = CheckpointReceipts(t), receipts \subseteq receipts',
               NEW a \in Attempt, attempts[a].task = t, attempts'[a].resumed = attempts[a].resumed
        PROVE  Resumes(a)
    BY <2>a DEF CheckpointIsNewest
  <2>1. CASE OtherHistory
    <3>1. CheckpointReceipts(t)' = CheckpointReceipts(t) /\ receipts \subseteq receipts'
      BY <2>1 DEF OtherHistory, FinishMutation, CheckpointReceipts, CheckpointKind
    <3>2. ASSUME NEW a \in Attempt, attempts'[a].task = t PROVE Resumes(a)
      BY <2>1, <2>a, <3>1, <3>2 DEF OtherHistory, Kept
    <3>3. tasks'[t].checkpoint = tasks[t].checkpoint
      BY <2>1 DEF OtherHistory
    <3> QED
      BY <3>1, <3>2, <3>3 DEF CheckpointIsNewest
  <2>2. ASSUME NEW kind \in CheckpointKind, NEW u \in Task, NEW d \in Attempt,
               Checkpointed(kind, u, d)
        PROVE  /\ \A r \in CheckpointReceipts(t)' : r.version <= tasks'[t].checkpoint
               /\ tasks'[t].checkpoint # 0 =>
                     \E r \in CheckpointReceipts(t)' : r.version = tasks'[t].checkpoint
               /\ \A a \in Attempt : attempts'[a].task = t => Resumes(a)
    <3> DEFINE new == [kind |-> kind, task |-> u, version |-> tasks[u].version + 1, attempt |-> d]
    <3>1. receipts' = receipts \cup {new} /\ \A a \in Attempt : Kept(a)
      BY <2>2 DEF Checkpointed, FinishMutation
    <3>2. new.kind \in CheckpointKind /\ new.task = u /\ new.version = tasks[u].version + 1
      OBVIOUS
    <3> HIDE DEF new
    <3>3. CASE u # t
      <4>1. CheckpointReceipts(t)' = CheckpointReceipts(t)
        BY <3>1, <3>2, <3>3 DEF CheckpointReceipts
      <4>2. ASSUME NEW a \in Attempt, attempts'[a].task = t PROVE Resumes(a)
        BY <2>a, <3>1, <4>1, <4>2 DEF Kept
      <4>3. tasks'[t].checkpoint = tasks[t].checkpoint
        BY <2>2, <3>3 DEF Checkpointed
      <4> QED
        BY <4>1, <4>2, <4>3 DEF CheckpointIsNewest
    <3>4. CASE u = t
      <4>1. CheckpointReceipts(t)' = CheckpointReceipts(t) \cup {new}
        BY <3>1, <3>2, <3>4 DEF CheckpointReceipts, CheckpointKind
      <4>2. tasks'[t].checkpoint = tasks[t].version + 1
        BY <2>2, <3>4 DEF Checkpointed
      <4>3. \A r \in CheckpointReceipts(t) : r.version \in Nat /\ r.version < tasks[t].version + 1
        BY <2>0 DEF CheckpointReceipts
      <4>4. ASSUME NEW a \in Attempt, attempts'[a].task = t PROVE Resumes(a)
        <5>1. attempts[a].task = t /\ attempts[a].status # "absent"
          BY <3>1, <4>4 DEF Kept, OnRecord, AttemptsIdentified
        <5>2. PICK b \in receipts : b.kind = "begin" /\ b.attempt = a /\ b.task = t
          BY <5>1 DEF OnRecord, BeginsOnRecord
        <5>3. b.version < new.version /\ b \in receipts'
          BY <2>0, <3>1, <3>2, <3>4, <5>2
        <5>4. ASSUME NEW r \in CheckpointReceipts(t), r.version > attempts'[a].resumed
              PROVE  \E e \in receipts' : e.kind = "begin" /\ e.attempt = a /\ e.version < r.version
          BY <3>1, <5>1, <5>4 DEF CheckpointIsNewest, Kept
        <5> QED
          BY <4>1, <5>2, <5>3, <5>4
      <4> QED
        BY <2>0, <3>2, <3>4, <4>1, <4>2, <4>3, <4>4
    <3> QED
      BY <3>3, <3>4
  <2>3. ASSUME NEW o \in Owner, NEW u \in Task, NEW d \in Attempt, BegunFrom(o, u, d)
        PROVE  /\ \A r \in CheckpointReceipts(t)' : r.version <= tasks'[t].checkpoint
               /\ tasks'[t].checkpoint # 0 =>
                     \E r \in CheckpointReceipts(t)' : r.version = tasks'[t].checkpoint
               /\ \A a \in Attempt : attempts'[a].task = t => Resumes(a)
    <3>1. CheckpointReceipts(t)' = CheckpointReceipts(t) /\ receipts \subseteq receipts'
      BY <2>3 DEF BegunFrom, FinishMutation, CheckpointReceipts
    <3>2. tasks'[t].checkpoint = tasks[t].checkpoint
      BY <2>3 DEF BegunFrom
    <3>3. ASSUME NEW a \in Attempt, attempts'[a].task = t, a # d PROVE Resumes(a)
      BY <2>3, <2>a, <3>1, <3>3 DEF BegunFrom
    <3>4. ASSUME attempts'[d].task = t PROVE Resumes(d)
      <4>1. attempts'[d].resumed = tasks[t].checkpoint
        BY <2>3, <3>4 DEF BegunFrom
      <4>2. \A r \in CheckpointReceipts(t)' : r.version \in Nat /\ r.version <= tasks[t].checkpoint
        BY <2>0, <3>1 DEF CheckpointIsNewest, CheckpointReceipts
      <4> QED
        BY <2>0, <4>1, <4>2
    <3> QED
      BY <3>1, <3>2, <3>3, <3>4 DEF CheckpointIsNewest
  <2> QED
    BY <2>1, <2>2, <2>3, EveryHistoryStep DEF HistoryStep
<1> QED
  BY <1>1, <1>2, TypeCorrect, AbsentRows, AlwaysOnRecord, NoUpdateIsLost, PTL DEF Spec

-----------------------------------------------------------------------------
(* The router *)

ConnRow == [role : {"closed", "agent", "delegate", "operator"}, agent : Agent \cup {None},
            cred : Credential \cup {None}, push : BOOLEAN, joined : BOOLEAN, busy : BOOLEAN,
            ready : BOOLEAN, stored : BOOLEAN, canceling : Request \cup {None}]

\* The tables of the actor have the shape of their Rust types.
RouterTypeOK ==
    /\ conn \in [Session -> ConnRow]
    /\ pending \in [Request -> Delivery \cup {None}]
    /\ asked \in SUBSET Request
    /\ answers \in [Request -> Nat]

\* An agent connection is the agent its credential speaks for.
Identified == \A c \in Session : conn[c].role = "agent" =>
    conn[c].cred \in Credential /\ conn[c].agent = Subject[conn[c].cred]

-----------------------------------------------------------------------------
(* What the helpers of the handlers return *)

LEMMA EffectiveSession == ASSUME NEW c \in Session PROVE Effective(c) \in Session
<1>1. ASSUME NEW g, Primaries(g) # {} PROVE (CHOOSE p \in Session : IsPrimary(p, g)) \in Session
  BY <1>1 DEF Primaries
<1> QED
  BY <1>1 DEF Effective

\* set_busy changes nothing but the status of an agent.
LEMMA SetBusyRow ==
    ASSUME NEW row \in ConnRow, NEW busy \in BOOLEAN, NEW blocked \in BOOLEAN
    PROVE  LET new == SetBusy(row, busy, blocked) IN
           /\ new \in ConnRow /\ new.role = row.role /\ new.agent = row.agent
           /\ new.cred = row.cred /\ new.joined = row.joined /\ new.stored = row.stored
           /\ new.canceling = row.canceling
           /\ row.role = "agent" =>
                 /\ new.busy <=> busy \/ row.canceling # None
                 /\ new.ready <=> /\ ~ busy /\ row.canceling = None /\ ~ blocked
                                  /\ row.stored /\ row.joined
<1>1. ASSUME NEW x \in BOOLEAN, NEW y \in BOOLEAN
      PROVE  LET new == [row EXCEPT !.busy = x, !.ready = y] IN
             /\ new \in ConnRow /\ new.role = row.role /\ new.agent = row.agent
             /\ new.cred = row.cred /\ new.joined = row.joined /\ new.stored = row.stored
             /\ new.canceling = row.canceling /\ new.busy = x /\ new.ready = y
  BY DEF ConnRow
<1>2. CASE row.role # "agent"
  BY <1>2 DEF SetBusy
<1>3. CASE row.role = "agent"
  <2> DEFINE x == busy \/ row.canceling # None
             y == ~ x /\ ~ blocked /\ row.stored /\ row.joined
             new == SetBusy(row, busy, blocked)
  <2>1. x \in BOOLEAN /\ y \in BOOLEAN
    OBVIOUS
  <2>2. new = [row EXCEPT !.busy = x, !.ready = y]
    BY <1>3 DEF SetBusy
  <2>3. /\ y <=> ~ busy /\ row.canceling = None /\ ~ blocked /\ row.stored /\ row.joined
        /\ x <=> busy \/ row.canceling # None
    OBVIOUS
  <2> HIDE DEF x, y, new
  <2>4. /\ new \in ConnRow /\ new.role = row.role /\ new.agent = row.agent
        /\ new.cred = row.cred /\ new.joined = row.joined /\ new.stored = row.stored
        /\ new.canceling = row.canceling /\ new.busy = x /\ new.ready = y
    BY <1>1, <2>1, <2>2
  <2> QED
    BY <2>3, <2>4 DEF new
<1> QED
  BY <1>2, <1>3

\* So does a cancellation.
LEMMA CanceledRow ==
    ASSUME NEW row \in ConnRow, NEW r \in Request
    PROVE  LET new == Canceled(row, r) IN
           /\ new \in ConnRow /\ new.role = row.role /\ new.agent = row.agent
           /\ new.cred = row.cred /\ new.joined = row.joined
           /\ row.role = "agent" => /\ new.busy = TRUE /\ new.ready = FALSE
                                    /\ new.canceling = r
  BY DEF ConnRow, Canceled

LEMMA BarrierIsBoolean ==
    ASSUME NEW rows, NEW g PROVE AgentHasExecutionBarrier(rows, g) \in BOOLEAN
  BY DEF AgentHasExecutionBarrier

LEMMA AttemptsOfRequests ==
    ASSUME RouterTypeOK, NEW R \in SUBSET InFlight PROVE AttemptsOf(R) \in SUBSET Attempt
  BY DEF RouterTypeOK, AttemptsOf, InFlight, Delivery

\* Whoever executes is an agent connection in the workspace.
LEMMA ExecutorIsOwner ==
    ASSUME RouterTypeOK, Identified, NEW c \in Session, IsExecutor(c)
    PROVE  /\ OwnerOf(c) \in Owner
           /\ OwnerOf(c).cred = conn[Effective(c)].cred /\ OwnerOf(c).session = Effective(c)
           /\ Subject[OwnerOf(c).cred] = conn[Effective(c)].agent
  BY EffectiveSession DEF IsExecutor, OwnerOf, Owner, Identified

-----------------------------------------------------------------------------
(* Types *)

LEMMA AppendResultsType ==
    ASSUME RouterTypeOK, NEW R, AppendResults(R) PROVE answers' \in [Request -> Nat]
  BY DEF RouterTypeOK, AppendResults

LEMMA WithdrawType ==
    ASSUME RouterTypeOK, NEW R \in SUBSET InFlight, NEW gone, WithdrawRequests(R, gone)
    PROVE  RouterTypeOK'
<1>1. answers' \in [Request -> Nat] /\ asked' \in SUBSET Request
  BY AppendResultsType DEF WithdrawRequests, RouterTypeOK
<1>2. pending' \in [Request -> Delivery \cup {None}]
  BY DEF WithdrawRequests, RouterTypeOK
<1>3. Closed \in ConnRow
  BY DEF Closed, ConnRow
<1>4. ASSUME NEW c \in Session, NEW r \in R PROVE Canceled(conn[c], r) \in ConnRow
  <2>1. r \in Request /\ conn[c] \in ConnRow
    BY DEF InFlight, RouterTypeOK
  <2> QED
    BY <2>1, CanceledRow
<1>5. ASSUME NEW c \in Session, {r \in R : pending[r].recipient = c} # {}
      PROVE  Canceled(conn[c], CHOOSE r \in {r \in R : pending[r].recipient = c} : TRUE) \in ConnRow
  BY <1>4, <1>5
<1>6. conn' \in [Session -> ConnRow]
  BY <1>3, <1>5 DEF WithdrawRequests, RouterTypeOK
<1> QED
  BY <1>1, <1>2, <1>6 DEF RouterTypeOK

\* A connection that is neither opened nor closed stays whose it is.
SameIdentity(c) == /\ conn'[c].role = conn[c].role /\ conn'[c].agent = conn[c].agent
                   /\ conn'[c].cred = conn[c].cred

LEMMA WithdrawIdentity ==
    ASSUME RouterTypeOK, NEW R \in SUBSET InFlight, NEW gone, WithdrawRequests(R, gone),
           NEW c \in Session
    PROVE  IF c \in gone THEN conn'[c] = Closed
           ELSE SameIdentity(c) /\ conn'[c].joined = conn[c].joined
<1>1. ASSUME NEW r \in R
      PROVE  /\ Canceled(conn[c], r).role = conn[c].role /\ Canceled(conn[c], r).agent = conn[c].agent
             /\ Canceled(conn[c], r).cred = conn[c].cred
             /\ Canceled(conn[c], r).joined = conn[c].joined
  <2>1. r \in Request /\ conn[c] \in ConnRow
    BY DEF InFlight, RouterTypeOK
  <2> QED
    BY <2>1, CanceledRow
<1>2. ASSUME {r \in R : pending[r].recipient = c} # {}
      PROVE  (CHOOSE r \in {r \in R : pending[r].recipient = c} : TRUE) \in R
  BY <1>2
<1> QED
  BY <1>1, <1>2 DEF WithdrawRequests, SameIdentity

LEMMA RouterTypeStep ==
    TypeOK /\ RouterTypeOK /\ Identified /\ [RouterNext]_vars => RouterTypeOK' /\ Identified'
<1> SUFFICES ASSUME TypeOK, RouterTypeOK, Identified, [RouterNext]_vars
             PROVE  RouterTypeOK' /\ Identified'
  OBVIOUS
<1> USE SubjectAssumption
<1>a. ASSUME NEW c \in Session, NEW row \in ConnRow, conn' = [conn EXCEPT ![c] = row],
             row.role = "agent" => row.cred \in Credential /\ row.agent = Subject[row.cred],
             UNCHANGED <<pending, asked, answers>>
      PROVE  RouterTypeOK' /\ Identified'
  BY <1>a DEF RouterTypeOK, Identified
<1>b. ASSUME UNCHANGED routerVars PROVE RouterTypeOK' /\ Identified'
  BY <1>b DEF routerVars, RouterTypeOK, Identified
<1>c. ASSUME NEW R \in SUBSET InFlight, NEW gone, WithdrawRequests(R, gone)
      PROVE  RouterTypeOK' /\ Identified'
  <2>1. RouterTypeOK'
    BY <1>c, WithdrawType
  <2>2. Identified'
    <3> SUFFICES ASSUME NEW c \in Session, conn'[c].role = "agent"
                 PROVE  conn'[c].cred \in Credential /\ conn'[c].agent = Subject[conn'[c].cred]
      BY DEF Identified
    <3>1. c \notin gone
      BY <1>c, WithdrawIdentity DEF Closed
    <3>2. SameIdentity(c)
      BY <1>c, <3>1, WithdrawIdentity
    <3> QED
      BY <3>2 DEF Identified, SameIdentity
  <2> QED
    BY <2>1, <2>2
<1>1. ASSUME NEW c \in Session, NEW k \in Credential, NEW push \in PushModes,
             RegisterAgent(c, k, push)
      PROVE  RouterTypeOK' /\ Identified'
  <2> DEFINE row == [Closed EXCEPT !.role = "agent", !.agent = Subject[k], !.cred = k, !.push = push]
  <2>1. row \in ConnRow /\ row.cred = k /\ row.agent = Subject[k]
    BY RouterAssumption DEF Closed, ConnRow
  <2> HIDE DEF row
  <2>2. conn' = [conn EXCEPT ![c] = row] /\ UNCHANGED <<pending, asked, answers>>
    BY <1>1 DEF RegisterAgent, row
  <2> QED
    BY <1>a, <2>1, <2>2
<1>2. ASSUME NEW c \in Session, NEW g \in Agent, RegisterDelegate(c, g)
      PROVE  RouterTypeOK' /\ Identified'
  <2> DEFINE row == [Closed EXCEPT !.role = "delegate", !.agent = g]
  <2>1. row \in ConnRow /\ row.role = "delegate"
    BY DEF Closed, ConnRow
  <2> HIDE DEF row
  <2>2. conn' = [conn EXCEPT ![c] = row] /\ UNCHANGED <<pending, asked, answers>>
    BY <1>2 DEF RegisterDelegate, row
  <2> QED
    BY <1>a, <2>1, <2>2
<1>3. ASSUME NEW c \in Session, RegisterOperator(c) PROVE RouterTypeOK' /\ Identified'
  <2> DEFINE row == [Closed EXCEPT !.role = "operator"]
  <2>1. row \in ConnRow /\ row.role = "operator"
    BY DEF Closed, ConnRow
  <2> HIDE DEF row
  <2>2. conn' = [conn EXCEPT ![c] = row] /\ UNCHANGED <<pending, asked, answers>>
    BY <1>3 DEF RegisterOperator, row
  <2> QED
    BY <1>a, <2>1, <2>2
<1>e. ASSUME NEW c \in Session, NEW row, conn' = [conn EXCEPT ![c] = row],
             \E busy \in BOOLEAN, blocked \in BOOLEAN : row = SetBusy(conn[c], busy, blocked)
      PROVE  /\ conn' \in [Session -> ConnRow] /\ Identified'
             /\ \A d \in Session : SameIdentity(d)
  <2>1. /\ row \in ConnRow /\ row.role = conn[c].role /\ row.agent = conn[c].agent
        /\ row.cred = conn[c].cred
    <3>1. PICK busy \in BOOLEAN, blocked \in BOOLEAN : row = SetBusy(conn[c], busy, blocked)
      BY <1>e
    <3>2. conn[c] \in ConnRow
      BY DEF RouterTypeOK
    <3> QED
      BY <3>1, <3>2, SetBusyRow
  <2> QED
    BY <1>e, <2>1 DEF RouterTypeOK, Identified, SameIdentity
<1>4. ASSUME NEW c \in Session, WorkspaceJoin(c) PROVE RouterTypeOK' /\ Identified'
  <2> DEFINE e == Effective(c)
             ready == conn[e].push /\ ~ AgentHasExecutionBarrier(attempts, conn[e].agent)
             row == [conn[e] EXCEPT !.joined = TRUE, !.stored = conn[e].push, !.ready = ready]
  <2>1. e \in Session
    BY EffectiveSession
  <2> HIDE DEF e
  <2>2. conn[e].push \in BOOLEAN /\ ready \in BOOLEAN
    BY <2>1 DEF RouterTypeOK, ConnRow
  <2>3. conn' = [conn EXCEPT ![e] = row] /\ UNCHANGED <<pending, asked, answers>>
    BY <1>4, <2>1 DEF WorkspaceJoin, e, RouterTypeOK
  <2>5. row = [conn[e] EXCEPT !.joined = TRUE, !.stored = conn[e].push, !.ready = ready]
    OBVIOUS
  <2> HIDE DEF ready, row
  <2>4. /\ row \in ConnRow
        /\ row.role = "agent" => row.cred \in Credential /\ row.agent = Subject[row.cred]
    <3>1. conn[e] \in ConnRow
      BY <2>1 DEF RouterTypeOK
    <3>2. row \in ConnRow /\ row.role = conn[e].role /\ row.agent = conn[e].agent /\ row.cred = conn[e].cred
      BY <2>2, <2>5, <3>1 DEF ConnRow
    <3> QED
      BY <2>1, <3>2 DEF Identified
  <2> QED
    BY <1>a, <2>1, <2>3, <2>4
<1>5. ASSUME NEW c \in Session, WorkspaceLeave(c) PROVE RouterTypeOK' /\ Identified'
  <2> DEFINE e == Effective(c)
             row == [conn[e] EXCEPT !.joined = FALSE, !.stored = FALSE, !.ready = FALSE]
  <2>1. e \in Session
    BY EffectiveSession
  <2> HIDE DEF e
  <2>2. conn' = [conn EXCEPT ![e] = row] /\ UNCHANGED <<pending, asked, answers>>
    BY <1>5, <2>1 DEF WorkspaceLeave, e, RouterTypeOK
  <2>4. row = [conn[e] EXCEPT !.joined = FALSE, !.stored = FALSE, !.ready = FALSE]
    OBVIOUS
  <2> HIDE DEF row
  <2>3. /\ row \in ConnRow
        /\ row.role = "agent" => row.cred \in Credential /\ row.agent = Subject[row.cred]
    <3>1. conn[e] \in ConnRow
      BY <2>1 DEF RouterTypeOK
    <3>2. row \in ConnRow /\ row.role = conn[e].role /\ row.agent = conn[e].agent /\ row.cred = conn[e].cred
      BY <2>4, <3>1 DEF ConnRow
    <3> QED
      BY <2>1, <3>2 DEF Identified
  <2> QED
    BY <1>a, <2>1, <2>2, <2>3
<1>6. ASSUME NEW c \in Session, NEW ready \in BOOLEAN, SetReadiness(c, ready)
      PROVE  RouterTypeOK' /\ Identified'
  <2> DEFINE now == /\ ready /\ conn[c].canceling = None
                    /\ ~ AgentHasExecutionBarrier(attempts, conn[c].agent)
                    /\ ~ conn[c].busy /\ conn[c].joined
             row == [conn[c] EXCEPT !.stored = ready, !.ready = now]
  <2>1. conn' = [conn EXCEPT ![c] = row] /\ UNCHANGED <<pending, asked, answers>>
    BY <1>6 DEF SetReadiness, RouterTypeOK
  <2>2. now \in BOOLEAN
    OBVIOUS
  <2>4. row = [conn[c] EXCEPT !.stored = ready, !.ready = now]
    OBVIOUS
  <2> HIDE DEF now, row
  <2>3. /\ row \in ConnRow
        /\ row.role = "agent" => row.cred \in Credential /\ row.agent = Subject[row.cred]
    <3>1. conn[c] \in ConnRow
      BY DEF RouterTypeOK
    <3>2. row \in ConnRow /\ row.role = conn[c].role /\ row.agent = conn[c].agent /\ row.cred = conn[c].cred
      BY <2>2, <2>4, <3>1 DEF ConnRow
    <3> QED
      BY <3>2 DEF Identified
  <2> QED
    BY <1>a, <2>1, <2>3
<1>7. ASSUME NEW c \in Session, NEW r \in Request, NEW g, NEW t \in Task \cup {None},
             NEW delivered \in BOOLEAN, StartRequest(c, r, g, t, delivered)
      PROVE  RouterTypeOK' /\ Identified'
  <2>1. PICK p \in Primaries(g) :
          /\ conn' = [conn EXCEPT ![p] =
                IF delivered THEN SetBusy(@, TRUE, FALSE) ELSE Canceled(@, r)]
          /\ pending' = [pending EXCEPT ![r] =
                IF delivered
                THEN [requester |-> c, recipient |-> p, task |-> t, attempt |-> None]
                ELSE None]
    BY <1>7 DEF StartRequest
  <2> DEFINE row == IF delivered THEN SetBusy(conn[p], TRUE, FALSE) ELSE Canceled(conn[p], r)
  <2>2. p \in Session /\ conn[p] \in ConnRow
    BY DEF Primaries, RouterTypeOK
  <2>3. /\ row \in ConnRow /\ row.role = conn[p].role /\ row.agent = conn[p].agent
        /\ row.cred = conn[p].cred
    BY <2>2, SetBusyRow, CanceledRow
  <2>4. conn' = [conn EXCEPT ![p] = row]
    BY <2>1, <2>2 DEF RouterTypeOK
  <2> HIDE DEF row
  <2>5. conn' \in [Session -> ConnRow] /\ Identified'
    BY <2>2, <2>3, <2>4 DEF RouterTypeOK, Identified
  <2>6. pending' \in [Request -> Delivery \cup {None}]
    BY <2>1, <2>2 DEF RouterTypeOK, Delivery
  <2>7. answers' \in [Request -> Nat] /\ asked' \in SUBSET Request
    BY <1>7, AppendResultsType DEF StartRequest, RouterTypeOK
  <2> QED
    BY <2>5, <2>6, <2>7 DEF RouterTypeOK
<1>8. ASSUME NEW c \in Session, NEW r \in Request, FinishReply(c, r)
      PROVE  RouterTypeOK' /\ Identified'
  <2> DEFINE blocked == AgentHasExecutionBarrier(attempts', conn[c].agent)
             row == SetBusy(conn[c], FALSE, blocked)
  <2>1. conn' = [conn EXCEPT ![c] = row]
    BY <1>8 DEF FinishReply, RouterTypeOK
  <2>2. blocked \in BOOLEAN
    BY BarrierIsBoolean
  <2>3. conn' \in [Session -> ConnRow] /\ Identified'
    BY <1>e, <2>1, <2>2
  <2>4. pending' \in [Request -> Delivery \cup {None}]
    BY <1>8 DEF FinishReply, RouterTypeOK
  <2>5. answers' \in [Request -> Nat] /\ asked' \in SUBSET Request
    BY <1>8, AppendResultsType DEF FinishReply, RouterTypeOK
  <2> QED
    BY <2>3, <2>4, <2>5 DEF RouterTypeOK
<1>9. ASSUME NEW c \in Session, NEW r \in Request, NEW ready \in BOOLEAN, WorkIdle(c, r, ready)
      PROVE  RouterTypeOK' /\ Identified'
  <2> DEFINE now == ready /\ ~ AgentHasExecutionBarrier(attempts, conn[c].agent)
             row == [conn[c] EXCEPT !.canceling = None, !.stored = ready, !.busy = FALSE, !.ready = now]
  <2>1. conn' = [conn EXCEPT ![c] = row] /\ UNCHANGED <<pending, asked, answers>>
    BY <1>9 DEF WorkIdle, RouterTypeOK
  <2>2. now \in BOOLEAN
    OBVIOUS
  <2>4. row = [conn[c] EXCEPT !.canceling = None, !.stored = ready, !.busy = FALSE, !.ready = now]
    OBVIOUS
  <2> HIDE DEF now, row
  <2>3. /\ row \in ConnRow
        /\ row.role = "agent" => row.cred \in Credential /\ row.agent = Subject[row.cred]
    <3>1. conn[c] \in ConnRow
      BY DEF RouterTypeOK
    <3>2. row \in ConnRow /\ row.role = conn[c].role /\ row.agent = conn[c].agent /\ row.cred = conn[c].cred
      BY <2>2, <2>4, <3>1 DEF ConnRow
    <3> QED
      BY <3>2 DEF Identified
  <2> QED
    BY <1>a, <2>1, <2>3
<1>10. ASSUME NEW c \in Session, NEW t \in Task, NEW a \in Attempt, NEW s \in Session,
              TaskExecutionStopped(c, t, a, s)
       PROVE  RouterTypeOK' /\ Identified'
  <2> DEFINE blocked == AgentHasExecutionBarrier(attempts', conn[c].agent)
             row == SetBusy(conn[c], FALSE, blocked)
  <2>1. conn' = conn \/ conn' = [conn EXCEPT ![c] = row]
    BY <1>10 DEF TaskExecutionStopped, RouterTypeOK
  <2>2. blocked \in BOOLEAN
    BY BarrierIsBoolean
  <2>3. conn' \in [Session -> ConnRow] /\ Identified'
    BY <1>e, <2>1, <2>2 DEF RouterTypeOK, Identified
  <2> QED
    BY <1>10, <2>3 DEF TaskExecutionStopped, RouterTypeOK
<1>11. ASSUME NEW g, NEW rows, conn' = Settled(g, rows), UNCHANGED <<pending, asked, answers>>
       PROVE  RouterTypeOK' /\ Identified'
  <2> DEFINE blocked == AgentHasExecutionBarrier(rows, g)
  <2>1. blocked \in BOOLEAN
    BY BarrierIsBoolean
  <2>2. ASSUME NEW c \in Session
        PROVE  conn'[c] \in ConnRow /\ SameIdentity(c)
    <3> HIDE DEF blocked
    <3>1. conn'[c] = conn[c] \/ conn'[c] = SetBusy(conn[c], FALSE, blocked)
      BY <1>11 DEF Settled, blocked
    <3>2. conn[c] \in ConnRow
      BY DEF RouterTypeOK
    <3> QED
      <4>1. CASE conn'[c] = conn[c]
        BY <3>2, <4>1 DEF SameIdentity
      <4>2. CASE conn'[c] = SetBusy(conn[c], FALSE, blocked)
        <5>1. \E busy \in BOOLEAN : conn'[c] = SetBusy(conn[c], busy, blocked)
          BY <4>2, Zenon
        <5>2. PICK busy \in BOOLEAN : conn'[c] = SetBusy(conn[c], busy, blocked)
          BY <5>1
        <5> QED
          BY <2>1, <3>2, <5>2, SetBusyRow DEF SameIdentity
      <4> QED
        BY <3>1, <4>1, <4>2
  <2>3. conn' \in [Session -> ConnRow]
    BY <1>11, <2>2 DEF Settled
  <2> QED
    BY <1>11, <2>2, <2>3 DEF RouterTypeOK, Identified, SameIdentity
<1>12. ASSUME NEW c \in Session, NEW t \in Task, NEW r \in InFlight, NEW v, NEW checkpoint,
              NEW a \in Attempt, BeginTask(c, t, r, v, checkpoint, a)
       PROVE  RouterTypeOK' /\ Identified'
  <2>1. pending[r] \in Delivery
    BY DEF InFlight, RouterTypeOK
  <2>2. [pending[r] EXCEPT !.attempt = a] \in Delivery
    BY <2>1 DEF Delivery
  <2>3. pending' \in [Request -> Delivery \cup {None}]
    BY <1>12, <2>2 DEF BeginTask, RouterTypeOK
  <2> QED
    BY <1>12, <2>3 DEF BeginTask, RouterTypeOK, Identified
<1>13. ASSUME NEW rc \in receipts, NEW c, RetryBegin(c, rc)
       PROVE  RouterTypeOK' /\ Identified'
  <2> DEFINE r == attempts[rc.attempt].request
             x == tasks[rc.task].current
  <2>1. x \in Attempt \cup {None}
    BY DEF TypeOK, Receipt, TaskRow
  <2> HIDE DEF x
  <2>2. ASSUME NEW q \in InFlight PROVE [pending[q] EXCEPT !.attempt = x] \in Delivery
    BY <2>1 DEF InFlight, RouterTypeOK, Delivery
  <2>3. pending' = IF r \in InFlight THEN [pending EXCEPT ![r].attempt = x] ELSE pending
    BY <1>13 DEF RetryBegin, x
  <2> HIDE DEF r
  <2>4. pending' \in [Request -> Delivery \cup {None}]
    BY <2>2, <2>3 DEF RouterTypeOK
  <2> QED
    BY <1>13, <2>4 DEF RetryBegin, RouterTypeOK, Identified
<1>m. \A c \in Members : c \in Session
  BY DEF Members
<1>14. CASE MembershipNext
  BY <1>14, <1>1, <1>2, <1>3, <1>4, <1>5, <1>6 DEF MembershipNext
<1>15. CASE DeliveryNext
  BY <1>15, <1>m, <1>7, <1>8, <1>9 DEF DeliveryNext, TaskRequest
<1>16. CASE CommandNext
  <2>1. ASSUME NEW c \in Session, NEW t \in Task, NEW v \in Version,
               \/ EditTask(c, t, v)
               \/ \E a \in Attempt : WorkOnTask(c, t, v, a)
        PROVE  RouterTypeOK' /\ Identified'
    BY <2>1, <1>b DEF EditTask, WorkOnTask
  <2>2. ASSUME NEW c, NEW t \in Task, NEW v, InterruptTask(c, t, v)
        PROVE  RouterTypeOK' /\ Identified'
    BY <2>2, <1>c DEF InterruptTask, PendingOnTask
  <2>3. ASSUME NEW c, NEW t \in Task, NEW v, NEW a, ConfirmStopped(c, t, v, a)
        PROVE  RouterTypeOK' /\ Identified'
    BY <2>3, <1>11 DEF ConfirmStopped
  <2> QED
    BY <1>16, <1>m, <1>12, <2>1, <2>2, <2>3 DEF CommandNext
<1>17. CASE StopNext
  BY <1>17, <1>m, <1>10 DEF StopNext
<1>18. CASE RetryNext
  <2>1. ASSUME NEW c, NEW rc, RetryInterrupt(c, rc) PROVE RouterTypeOK' /\ Identified'
    BY <2>1, <1>c DEF RetryInterrupt, FinishPendingError, PendingOnTask
  <2>2. ASSUME NEW c, NEW rc, RetryConfirm(c, rc) PROVE RouterTypeOK' /\ Identified'
    BY <2>2, <1>11 DEF RetryConfirm
  <2> QED
    BY <1>18, <1>13, <2>1, <2>2 DEF RetryNext
<1>19. CASE FailureNext
  <2>1. ASSUME NEW c, DropConnection(c) PROVE RouterTypeOK' /\ Identified'
    BY <2>1, <1>c DEF DropConnection
  <2>2. ASSUME Restart PROVE RouterTypeOK' /\ Identified'
    <3>1. answers' \in [Request -> Nat] /\ asked' \in SUBSET Request
      BY <2>2, AppendResultsType DEF Restart, RouterTypeOK
    <3>2. Closed \in ConnRow /\ Closed.role = "closed"
      BY DEF Closed, ConnRow
    <3> QED
      BY <2>2, <3>1, <3>2 DEF Restart, RouterTypeOK, Identified
  <2>3. ASSUME NEW R \in SUBSET InFlight, ExpireDeadlines(R) PROVE RouterTypeOK' /\ Identified'
    BY <2>3, <1>c DEF ExpireDeadlines, FinishPendingError
  <2>4. ASSUME NEW k, Revoke(k) PROVE RouterTypeOK' /\ Identified'
    BY <2>4, <2>1, <1>b DEF Revoke, routerVars
  <2>5. ASSUME Shutdown PROVE RouterTypeOK' /\ Identified'
    BY <2>5, <1>c DEF Shutdown
  <2> QED
    BY <1>19, <2>1, <2>2, <2>3, <2>4, <2>5 DEF FailureNext, Disconnect
<1>20. CASE UNCHANGED vars
  BY <1>20, <1>b DEF vars, routerVars
<1> QED
  BY <1>14, <1>15, <1>16, <1>17, <1>18, <1>19, <1>20 DEF RouterNext

-----------------------------------------------------------------------------
(* The router on the store *)

\* Withdrawing requests, and dropping a connection, interrupts attempts.
LEMMA SessionAttemptsAreAttempts ==
    ASSUME RouterTypeOK, NEW c, NEW R \in SUBSET InFlight
    PROVE  (SessionAttempts(c) \cup AttemptsOf(R)) \in SUBSET Attempt
  BY AttemptsOfRequests DEF SessionAttempts

LEMMA DropIsInterrupt ==
    ASSUME RouterTypeOK, NEW c, DropConnection(c)
    PROVE  \E S \in SUBSET Attempt : InterruptRows(S, "other")
<1> DEFINE family   == ConnectionFamily(c)
           affected == {r \in InFlight : \/ pending[r].requester \in family
                                         \/ pending[r].recipient \in family}
           S == SessionAttempts(c) \cup AttemptsOf(affected)
<1>1. affected \in SUBSET InFlight
  OBVIOUS
<1>2. S \in SUBSET Attempt
  BY <1>1, SessionAttemptsAreAttempts
<1>3. InterruptRows(S, "other")
  BY DEF DropConnection
<1> QED
  BY <1>2, <1>3

\* Every handler that writes the store does so by a transaction of the store,
\* with an owner, an attempt set and versions the store knows.
LEMMA StoreStep ==
    TypeOK /\ RouterTypeOK /\ Identified /\ [RouterNext]_vars => [Next]_storeVars
<1> SUFFICES ASSUME TypeOK, RouterTypeOK, Identified, [RouterNext]_vars PROVE [Next]_storeVars
  OBVIOUS
<1>m. \A c \in Members : c \in Session
  BY DEF Members
<1>r. ASSUME NEW S \in SUBSET Attempt, NEW why \in PauseReason, InterruptAttempts(S, why)
      PROVE  Next
  BY <1>r DEF Next, SystemNext
<1>1. CASE MembershipNext
  BY <1>1 DEF MembershipNext, RegisterAgent, RegisterDelegate, RegisterOperator, WorkspaceJoin,
              WorkspaceLeave, SetReadiness
<1>2. CASE DeliveryNext
  <2>1. ASSUME NEW c, NEW r \in Request, FinishReply(c, r) PROVE Next
    <3>1. r \in InFlight /\ InterruptAttempts(AttemptsOf({r}), "other")
      BY <2>1 DEF FinishReply
    <3>2. AttemptsOf({r}) \in SUBSET Attempt
      BY <3>1, AttemptsOfRequests
    <3> QED
      BY <1>r, <3>1, <3>2 DEF PauseReason
  <2>2. ASSUME NEW c, NEW r, NEW g, NEW t, NEW delivered, StartRequest(c, r, g, t, delivered)
        PROVE  UNCHANGED storeVars
    BY <2>2 DEF StartRequest
  <2>3. ASSUME NEW c, NEW r, NEW t, NEW v, NEW delivered, TaskRequest(c, r, t, v, delivered)
        PROVE  UNCHANGED storeVars
    BY <2>2, <2>3 DEF TaskRequest
  <2> QED
    BY <1>2, <2>1, <2>2, <2>3 DEF DeliveryNext, WorkIdle
<1>3. CASE CommandNext
  <2>1. ASSUME NEW c \in Session, NEW t \in Task, NEW v \in Version, EditTask(c, t, v) PROVE Next
    <3>1. ASSUME NEW g \in Agent \cup {None}, ApplyAssign(t, v, g) PROVE EditorNext
      BY <3>1 DEF EditorNext
    <3>2. ASSUME NEW next \in {"cancelled", "todo"}, ApplyTerminal(t, v, next) PROVE EditorNext
      BY <3>2 DEF EditorNext
    <3>3. ASSUME ApplyCreate(t) \/ ApplyNote(t) \/ ApplyEdit(t, v) PROVE EditorNext
      BY <3>3 DEF EditorNext
    <3> QED
      BY <2>1, <3>1, <3>2, <3>3 DEF EditTask, Next
  <2>2. ASSUME NEW c \in Session, NEW t \in Task, NEW v \in Version, NEW r \in InFlight,
               NEW checkpoint \in Version \cup {0}, NEW a \in Attempt,
               BeginTask(c, t, r, v, checkpoint, a)
        PROVE  Next
    <3>1. IsExecutor(c) /\ ApplyBegin(OwnerOf(c), t, r, v, checkpoint, a)
      BY <2>2 DEF BeginTask, MayBegin
    <3>2. OwnerOf(c) \in Owner /\ r \in Request
      BY <3>1, ExecutorIsOwner DEF InFlight
    <3> QED
      BY <3>1, <3>2 DEF Next, ExecutorNext
  <2>3. ASSUME NEW c \in Session, NEW t \in Task, NEW v \in Version, NEW a \in Attempt,
               WorkOnTask(c, t, v, a)
        PROVE  Next
    <3>1. IsExecutor(c)
      BY <2>3 DEF WorkOnTask
    <3>2. OwnerOf(c) \in Owner
      BY <3>1, ExecutorIsOwner
    <3> QED
      BY <2>3, <3>2 DEF WorkOnTask, Next, ExecutorNext
  <2>4. ASSUME NEW c, NEW t \in Task, NEW v \in Version, InterruptTask(c, t, v) PROVE Next
    BY <2>4 DEF InterruptTask, Next, OperatorNext
  <2>5. ASSUME NEW c, NEW t \in Task, NEW v \in Version, NEW a \in Attempt,
               ConfirmStopped(c, t, v, a)
        PROVE  Next
    BY <2>5 DEF ConfirmStopped, Next, OperatorNext
  <2> QED
    BY <1>3, <1>m, <2>1, <2>2, <2>3, <2>4, <2>5 DEF CommandNext
<1>4. CASE StopNext
  <2>1. ASSUME NEW c \in Session, NEW s \in Session, NEW t \in Task, NEW a \in Attempt,
               TaskExecutionStopped(c, t, a, s)
        PROVE  Next
    <3>1. conn[c].cred \in Credential
      BY <2>1 DEF TaskExecutionStopped, Identified
    <3> QED
      BY <2>1, <3>1 DEF TaskExecutionStopped, Next, SystemNext
  <2> QED
    BY <1>4, <1>m, <2>1 DEF StopNext
<1>5. CASE RetryNext
  <2>1. ASSUME NEW c, NEW rc, RetryInterrupt(c, rc) PROVE Next
    <3>1. /\ PendingOnTask(rc.task) \in SUBSET InFlight
          /\ InterruptAttempts(AttemptsOf(PendingOnTask(rc.task)), "operator_interrupt")
      BY <2>1 DEF RetryInterrupt, FinishPendingError, PendingOnTask
    <3>2. AttemptsOf(PendingOnTask(rc.task)) \in SUBSET Attempt
      BY <3>1, AttemptsOfRequests
    <3> QED
      BY <1>r, <3>1, <3>2 DEF PauseReason
  <2> QED
    BY <1>5, <2>1 DEF RetryNext, RetryBegin, RetryConfirm
<1>6. CASE FailureNext
  <2>1. ASSUME NEW R \in SUBSET InFlight, ExpireDeadlines(R) PROVE Next
    <3>1. InterruptAttempts(AttemptsOf(R), "other")
      BY <2>1 DEF ExpireDeadlines, FinishPendingError
    <3> QED
      BY <1>r, <3>1, AttemptsOfRequests DEF PauseReason
  <2>2. ASSUME NEW c, Disconnect(c) PROVE Next
    <3>1. PICK S \in SUBSET Attempt : InterruptRows(S, "other")
      BY <2>2, DropIsInterrupt DEF Disconnect
    <3>2. InterruptAttempts(S, "other")
      BY <2>2, <3>1 DEF Disconnect, InterruptAttempts
    <3> QED
      BY <1>r, <3>2 DEF PauseReason
  <2>3. ASSUME NEW k \in Credential, Revoke(k) PROVE Next
    <3>1. \E S \in SUBSET Attempt : InterruptRows(S, "other")
      <4>1. CASE UNCHANGED <<tasks, attempts>>
        <5>1. InterruptRows({}, "other")
          BY <4>1 DEF InterruptRows, TypeOK
        <5> QED
          BY <5>1
      <4>2. ASSUME NEW c, DropConnection(c) PROVE \E S \in SUBSET Attempt : InterruptRows(S, "other")
        BY <4>2, DropIsInterrupt
      <4> QED
        BY <2>3, <4>1, <4>2 DEF Revoke
    <3>2. PICK S \in SUBSET Attempt : InterruptRows(S, "other")
      BY <3>1
    <3>3. RevokeCredential(k, S)
      BY <2>3, <3>2 DEF Revoke, RevokeCredential
    <3> QED
      BY <3>3 DEF Next, SystemNext
  <2>4. ASSUME Shutdown PROVE Next
    <3>1. InterruptAttempts(AttemptsOf(InFlight), "other")
      BY <2>4 DEF Shutdown
    <3> QED
      BY <1>r, <3>1, AttemptsOfRequests DEF PauseReason
  <2>5. ASSUME Restart PROVE Next
    BY <2>5 DEF Restart, Next, SystemNext
  <2> QED
    BY <1>6, <2>1, <2>2, <2>3, <2>4, <2>5 DEF FailureNext
<1>7. CASE UNCHANGED vars
  BY <1>7 DEF vars
<1> QED
  BY <1>1, <1>2, <1>3, <1>4, <1>5, <1>6, <1>7 DEF RouterNext, storeVars

LEMMA RouterTypes == RouterSpec => [](TypeOK /\ RouterTypeOK /\ Identified)
<1>1. RouterInit => TypeOK /\ RouterTypeOK /\ Identified
  <2>1. Init => TypeOK
    BY DEF Init, TypeOK, NoTask, NoAttempt, TaskRow, AttemptRow, StopEvidence
  <2>2. Closed \in ConnRow /\ Closed.role = "closed"
    BY DEF Closed, ConnRow
  <2> QED
    BY <2>1, <2>2 DEF RouterInit, RouterTypeOK, Identified
<1>2. TypeOK /\ RouterTypeOK /\ Identified /\ [RouterNext]_vars
        => (TypeOK /\ RouterTypeOK /\ Identified)'
  BY RouterTypeStep, StoreStep, TypeStep
<1> QED
  BY <1>1, <1>2, PTL DEF RouterSpec

\* The actor reaches the tables of the store only through the transactions of
\* the store: whatever handlers run, in whatever order, what is proved of the
\* store on its own holds of the store the router drives.
THEOREM RouterImplementsStore == RouterSpec => ImplementsStore
<1>1. RouterInit => Init
  BY DEF RouterInit
<1> QED
  BY <1>1, RouterTypes, StoreStep, PTL DEF RouterSpec, Spec, ImplementsStore

-----------------------------------------------------------------------------
(* What a transaction does to executions, as far as the router depends on it *)

Running(a) == attempts[a].status = "running"

\* The store checks that the agent has no barrier, and that the task has no
\* running attempt.  Only the router's reservation keeps an execution from being
\* begun on a task whose last one may still be going on.
BeginsOnStopped ==
    \A a, b \in Attempt :
        attempts[a].status = "absent" /\ Running(a)' /\ StopPending(b)
            => attempts[b].task # attempts'[a].task

LEMMA StopStep ==
    ASSUME TypeOK, AttemptTaskAgreement, AbsentIsNew, OnRecord, StopIsRecordable,
           [Next]_storeVars, BeginsOnStopped
    PROVE  StopIsRecordable'
<1> SUFFICES ASSUME NEW a \in Attempt, StopPending(a)'
             PROVE  LET t == attempts'[a].task IN
                    /\ tasks'[t].current = None /\ tasks'[t].last = a
                    /\ ~ IsTerminal(tasks'[t].state)
  BY DEF StopIsRecordable
<1> USE NoneAssumption
<1> DEFINE t == attempts[a].task
           Ends == StopPending(a) \/ Running(a)
           Goal == /\ tasks'[t].current = None /\ tasks'[t].last = a
                   /\ ~ IsTerminal(tasks'[t].state)
<1>1. attempts'[a].task = t /\ t \in Task /\ attempts[a].status # "absent"
  <2>1. Kept(a) \/ attempts'[a] = attempts[a]
    BY EveryHistoryStep
    DEF HistoryStep, OtherHistory, Checkpointed, BegunFrom, StopPending, StopUnknown
  <2> QED
    BY <2>1 DEF Kept, OnRecord, AttemptsIdentified, StopPending, StopUnknown
<1>2. Ends
  BY <1>1, AttemptStep
  DEF Carried, Begun, Barrier, IsBarrier, StopPending, StopUnknown, Running
<1>3. StopPending(a) => tasks[t].current = None /\ tasks[t].last = a /\ ~ IsTerminal(tasks[t].state)
  BY DEF StopIsRecordable
<1>4. Running(a) => tasks[t].current = a /\ tasks[t].last = a /\ tasks[t].state = "in_progress"
  BY <1>1 DEF AttemptTaskAgreement, OnRecord, CurrentIsLast, Running
<1>5. a # None /\ tasks[t] \in TaskRow /\ attempts[a] \in AttemptRow
  BY <1>1 DEF TypeOK
<1> HIDE DEF t
<1> SUFFICES Goal
  BY <1>1
<1>6. ASSUME attempts' = attempts PROVE StopPending(a)
  BY <1>6 DEF StopPending, StopUnknown
<1>7. ASSUME StopPending(a), tasks'[t] = tasks[t] PROVE Goal
  BY <1>3, <1>7
<1>11. ASSUME NEW u \in Task, ApplyCreate(u) PROVE Goal
  <2>1. StopPending(a) /\ tasks[u].state = "absent"
    BY <1>6, <1>11 DEF ApplyCreate
  <2>2. u # t
    BY <1>3, <1>5, <2>1 DEF AbsentIsNew, NoTask
  <2>3. tasks'[t] = tasks[t]
    BY <1>1, <1>11, <2>2 DEF ApplyCreate, TypeOK
  <2> QED
    BY <1>7, <2>1, <2>3
<1>12. ASSUME NEW u \in Task, NEW v \in Version, ApplyEdit(u, v) PROVE Goal
  <2>1. StopPending(a)
    BY <1>6, <1>12 DEF ApplyEdit
  <2> QED
    BY <1>1, <1>3, <1>12, <2>1 DEF ApplyEdit, TypeOK, TaskRow
<1>13. ASSUME NEW u \in Task, NEW v \in Version, NEW g, ApplyAssign(u, v, g) PROVE Goal
  <2>1. StopPending(a)
    BY <1>6, <1>13 DEF ApplyAssign
  <2> QED
    BY <1>1, <1>3, <1>13, <2>1 DEF ApplyAssign, TypeOK, TaskRow
<1>14. ASSUME NEW u \in Task, ApplyNote(u) PROVE Goal
  BY <1>6, <1>7, <1>14 DEF ApplyNote
<1>15. ASSUME NEW u \in Task, NEW v \in Version, NEW next, ApplyTerminal(u, v, next) PROVE Goal
  <2>1. StopPending(a)
    BY <1>6, <1>15 DEF ApplyTerminal
  <2>2. u # t
    BY <1>15, <2>1 DEF ApplyTerminal, t
  <2>3. tasks'[t] = tasks[t]
    BY <1>1, <1>15, <2>2 DEF ApplyTerminal, TypeOK
  <2> QED
    BY <1>7, <2>1, <2>3
<1>16. ASSUME NEW o \in Owner, NEW u \in Task, NEW r \in Request, NEW v \in Version,
              NEW checkpoint \in Version \cup {0}, NEW b \in Attempt,
              ApplyBegin(o, u, r, v, checkpoint, b)
       PROVE  Goal
  <2>1. /\ attempts[b].status = "absent" /\ Running(b)' /\ attempts'[b].task = u
        /\ \A d \in Attempt \ {b} : attempts'[d] = attempts[d]
        /\ \A d \in Task \ {u} : tasks'[d] = tasks[d]
    BY <1>16 DEF ApplyBegin, TypeOK, Running
  <2>2. a # b
    BY <1>1, <2>1
  <2>3. StopPending(a)
    BY <2>1, <2>2 DEF StopPending, StopUnknown
  <2>4. u # t
    BY <2>1, <2>3 DEF BeginsOnStopped, t
  <2> QED
    BY <1>1, <1>7, <2>1, <2>3, <2>4
<1>17. ASSUME NEW o, NEW u \in Task, NEW v \in Version, NEW b \in Attempt,
              ApplyCheckpoint(o, u, v, b)
       PROVE  Goal
  <2>1. StopPending(a) /\ tasks[u].current = b
    BY <1>6, <1>17 DEF ApplyCheckpoint, RequireAttemptOwner
  <2>2. u # t
    BY <1>3, <2>1
  <2>3. tasks'[t] = tasks[t]
    BY <1>1, <1>17, <2>2 DEF ApplyCheckpoint, TypeOK
  <2> QED
    BY <1>7, <2>1, <2>3
<1>18. ASSUME NEW o, NEW u \in Task, NEW v \in Version, NEW b \in Attempt, NEW next,
              ApplyRelease(o, u, v, b, next)
       PROVE  Goal
  <2>1. tasks[u].current = b /\ attempts'[b].evidence = "released"
    BY <1>18 DEF ApplyRelease, RequireAttemptOwner, TypeOK, AttemptRow
  <2>2. a # b /\ attempts'[a] = attempts[a]
    BY <1>18, <2>1 DEF ApplyRelease, StopPending, StopUnknown, TypeOK
  <2>3. StopPending(a)
    BY <2>2 DEF StopPending, StopUnknown
  <2>4. u # t
    BY <1>3, <2>1, <2>3
  <2>5. tasks'[t] = tasks[t]
    BY <1>1, <1>18, <2>4 DEF ApplyRelease, TypeOK
  <2> QED
    BY <1>7, <2>3, <2>5
<1>19. ASSUME NEW u \in Task, NEW v \in Version, ApplyInterrupt(u, v) PROVE Goal
  <2>1. tasks[u].current # None /\ \A d \in Task \ {u} : tasks'[d] = tasks[d]
    BY <1>19 DEF ApplyInterrupt, TypeOK
  <2>2. CASE u = t
    <3>1. Running(a)
      BY <1>2, <1>3, <2>1, <2>2
    <3> QED
      BY <1>1, <1>4, <1>19, <2>2, <3>1 DEF ApplyInterrupt, TypeOK, TaskRow, IsTerminal
  <2>3. CASE u # t
    <3>1. ASSUME Running(a) PROVE FALSE
      <4>1. tasks[u].current # a
        BY <1>1, <1>4, <2>3, <3>1 DEF AttemptTaskAgreement, Running, t
      <4>2. attempts'[a] = attempts[a]
        BY <1>19, <4>1 DEF ApplyInterrupt, TypeOK
      <4> QED
        BY <3>1, <4>2 DEF Running, StopPending, StopUnknown
    <3> QED
      BY <1>1, <1>2, <1>7, <2>1, <2>3, <3>1
  <2> QED
    BY <2>2, <2>3
<1>20. ASSUME NEW u \in Task, NEW v \in Version, NEW b \in Attempt, ApplyConfirmStopped(u, v, b)
       PROVE  Goal
  <2>1. StopPending(a)
    BY <1>20 DEF ApplyConfirmStopped, StopPending, StopUnknown, TypeOK, AttemptRow
  <2> QED
    BY <1>1, <1>3, <1>20, <2>1 DEF ApplyConfirmStopped, TypeOK, TaskRow
<1>21. ASSUME NEW S \in SUBSET Attempt, NEW why, InterruptRows(S, why) PROVE Goal
  <2> DEFINE R == {b \in S : attempts[b].status = "running"}
  <2>1. /\ attempts'[a] = IF a \in R THEN Interrupted(attempts[a], why) ELSE attempts[a]
        /\ tasks'[t] = IF tasks[t].current \in R
                       THEN [Paused(tasks[t]) EXCEPT !.last = tasks[t].current] ELSE tasks[t]
    BY <1>1, <1>21 DEF InterruptRows
  <2>2. CASE StopPending(a)
    <3>1. tasks[t].current \notin R
      BY <1>3, <2>2
    <3> QED
      BY <1>7, <2>1, <2>2, <3>1
  <2>3. CASE Running(a)
    <3>1. a \in R
      BY <2>1, <2>3 DEF Running, StopPending, StopUnknown
    <3>2. tasks'[t] = [Paused(tasks[t]) EXCEPT !.last = a]
      BY <1>4, <2>1, <2>3, <3>1
    <3> QED
      BY <1>5, <3>2, LastRow DEF IsTerminal
  <2> QED
    BY <1>2, <2>2, <2>3
<1>22. ASSUME NEW k, NEW s, NEW u \in Task, NEW b \in Attempt, RecordExecutionStopped(k, s, u, b)
       PROVE  Goal
  <2>1. CASE UNCHANGED <<tasks, attempts>>
    BY <1>6, <1>7, <2>1
  <2>2. ASSUME Running(b), tasks[u].current = b, attempts'[b].evidence = "confirmed",
               \A d \in Attempt \ {b} : attempts'[d] = attempts[d],
               \A d \in Task \ {u} : tasks'[d] = tasks[d]
        PROVE  Goal
    <3>1. a # b /\ attempts'[a] = attempts[a]
      BY <2>2 DEF StopPending, StopUnknown
    <3>2. StopPending(a)
      BY <3>1 DEF StopPending, StopUnknown
    <3>3. u # t
      BY <1>3, <2>2, <3>2
    <3> QED
      BY <1>1, <1>7, <2>2, <3>2, <3>3
  <2>3. ASSUME attempts' = [attempts EXCEPT ![b].evidence = "confirmed"],
               tasks' = [tasks EXCEPT ![u].version = @ + 1], StopPending(b)
        PROVE  Goal
    <3>1. StopPending(a)
      BY <2>3 DEF StopPending, StopUnknown, TypeOK, AttemptRow
    <3> QED
      BY <1>1, <1>3, <2>3, <3>1 DEF TypeOK, TaskRow
  <2>4. ASSUME attempts[b].status = "running", tasks[u].current = b,
               attempts' = [attempts EXCEPT ![b].status = "interrupted",
                                            ![b].evidence = "confirmed", ![b].reason = "other"],
               tasks' = [tasks EXCEPT ![u] = [Paused(@) EXCEPT !.last = b]]
        PROVE  Goal
    BY <2>2, <2>4 DEF TypeOK, AttemptRow, Running
  <2> QED
    BY <1>22, <2>1, <2>3, <2>4 DEF RecordExecutionStopped
<1>23. ASSUME RecoverRunningAttempts PROVE Goal
  <2>1. /\ ~ Running(a) => attempts'[a] = attempts[a]
        /\ tasks'[t] = IF /\ tasks[t].current \in {b \in Attempt : attempts[b].status = "running"}
                          /\ attempts[tasks[t].current].task = t
                       THEN Paused(tasks[t]) ELSE tasks[t]
    BY <1>1, <1>23 DEF RecoverRunningAttempts, Running
  <2>2. CASE StopPending(a)
    BY <1>3, <1>7, <2>1, <2>2
  <2>3. CASE Running(a)
    <3>1. tasks'[t] = Paused(tasks[t])
      BY <1>4, <2>1, <2>3 DEF Running, t
    <3> QED
      BY <1>4, <1>5, <2>3, <3>1, PausedRow DEF IsTerminal
  <2> QED
    BY <1>2, <2>2, <2>3
<1> HIDE DEF Goal
<1>24. CASE EditorNext
  BY <1>24, <1>11, <1>12, <1>13, <1>14, <1>15 DEF EditorNext
<1>25. CASE ExecutorNext
  BY <1>25, <1>16, <1>17, <1>18 DEF ExecutorNext
<1>26. CASE OperatorNext
  BY <1>26, <1>19, <1>20 DEF OperatorNext
<1>27. CASE SystemNext
  BY <1>27, <1>21, <1>22, <1>23 DEF SystemNext, InterruptAttempts, RevokeCredential
<1>28. CASE UNCHANGED storeVars
  BY <1>28, <1>6, <1>7 DEF storeVars
<1> QED
  BY <1>24, <1>25, <1>26, <1>27, <1>28 DEF Next

-----------------------------------------------------------------------------
(***************************************************************************)
(* The inductive invariant about requests in flight.                       *)
(***************************************************************************)

\* Work is in flight only to an agent that is connected and in the workspace.
Wired == \A r \in InFlight :
    conn[pending[r].recipient].role = "agent" /\ conn[pending[r].recipient].joined

\* The attempt a request is tied to was begun under this very request.
Linked == \A r \in InFlight : pending[r].attempt # None =>
    LET a == pending[r].attempt IN
    /\ attempts[a].status # "absent"
    /\ attempts[a].request = r /\ attempts[a].task = pending[r].task

OneRequestPerTask == \A r1, r2 \in InFlight :
    pending[r1].task = pending[r2].task /\ pending[r1].task # None => r1 = r2

\* While a task is requested, no earlier execution of it may be going on.
RequestedHasStopped == \A r \in InFlight, a \in Attempt :
    StopPending(a) => attempts[a].task # pending[r].task

Watch == /\ Wired /\ Linked /\ OneRequestPerTask /\ RequestedHasStopped
         /\ RunningIsWatched /\ StopIsRecordable /\ AnsweredOnce

StoreInv == TypeOK /\ AttemptTaskAgreement /\ AbsentIsNew /\ OnRecord

RouterInv == StoreInv /\ RouterTypeOK /\ Identified /\ Watch

(* The four shapes of a step *)

StillThere(c) == SameIdentity(c) /\ (conn[c].joined => conn'[c].joined)

\* Nothing in flight changes, and nothing begins or is interrupted.
Quiet ==
    /\ UNCHANGED <<pending, asked, answers>>
    /\ \A r \in InFlight : StillThere(pending[r].recipient)
    /\ \A a \in Attempt : /\ Kept(a)
                          /\ Running(a)' => Running(a)
                          /\ StopPending(a)' => StopPending(a)

\* Request r is sent to p, or answered at once since p did not take it.
Asking(c, r, p, t, delivered) ==
    /\ r \notin asked /\ asked' = asked \cup {r}
    /\ conn[p].role = "agent" /\ Available(p)
    /\ pending' = [pending EXCEPT ![r] =
          IF delivered THEN [requester |-> c, recipient |-> p, task |-> t, attempt |-> None]
          ELSE None]
    /\ AppendResults(IF delivered THEN {} ELSE {r})
    /\ t # None => /\ PendingOnTask(t) = {}
                   /\ ~ \E a \in Attempt : StopPending(a) /\ attempts[a].task = t
    /\ \A d \in Session : StillThere(d)
    /\ UNCHANGED storeVars

\* The recipient of request r begins attempt a.
Begins(r, a) ==
    /\ r \in InFlight /\ pending[r].task \in Task
    /\ pending' = [pending EXCEPT ![r].attempt = a]
    /\ attempts[a].status = "absent" /\ Running(a)'
    /\ attempts'[a].request = r /\ attempts'[a].task = pending[r].task
    /\ attempts'[a].owner = [cred |-> conn[pending[r].recipient].cred,
                             session |-> pending[r].recipient]
    /\ ~ \E b \in Attempt : Running(b) /\ attempts[b].task = pending[r].task
    /\ \A b \in Attempt \ {a} : attempts'[b] = attempts[b]
    /\ UNCHANGED <<conn, asked, answers>>

\* The requests R are answered, and exactly their attempts are interrupted.
Withdraws(R) ==
    /\ R \subseteq InFlight
    /\ pending' = [r \in Request |-> IF r \in R THEN None ELSE pending[r]]
    /\ AppendResults(R)
    /\ asked' = asked
    /\ \A r \in InFlight \ R : StillThere(pending[r].recipient)
    /\ \A a \in Attempt :
          /\ Kept(a)
          /\ Running(a)' => Running(a) /\ attempts[a].request \notin R
          /\ StopPending(a)' => StopPending(a) \/ (Running(a) /\ attempts[a].request \in R)

\* What a running attempt is watched by.
LEMMA Watcher ==
    ASSUME RouterTypeOK, RunningIsWatched, NEW a \in Attempt, Running(a)
    PROVE  LET r == attempts[a].request IN
           /\ r \in InFlight /\ pending[r].attempt = a /\ pending[r].task = attempts[a].task
           /\ pending[r].recipient = attempts[a].owner.session
  BY DEF RunningIsWatched, Running

LEMMA InterruptShape ==
    ASSUME TypeOK, NEW S, NEW why, InterruptRows(S, why), NEW a \in Attempt
    PROVE  /\ Kept(a)
           /\ Running(a)' <=> Running(a) /\ a \notin S
           /\ StopPending(a)' <=> StopPending(a) \/ (Running(a) /\ a \in S)
           /\ attempts'[a].request = attempts[a].request
  BY DEF InterruptRows, Interrupted, TypeOK, AttemptRow, Running, StopPending, StopUnknown, Kept

LEMMA WithdrawShape ==
    ASSUME TypeOK, RouterTypeOK, Watch,
           NEW R \in SUBSET InFlight, NEW gone, NEW S, NEW why,
           InterruptRows(S, why), WithdrawRequests(R, gone), AttemptsOf(R) \subseteq S,
           \A a \in Attempt : a \in S /\ Running(a) => attempts[a].request \in R,
           \A r \in InFlight : pending[r].recipient \in gone => r \in R
    PROVE  Withdraws(R)
<1>1. \A r \in InFlight \ R : StillThere(pending[r].recipient)
  <2> SUFFICES ASSUME NEW r \in InFlight \ R PROVE StillThere(pending[r].recipient)
    OBVIOUS
  <2>1. pending[r].recipient \in Session /\ pending[r].recipient \notin gone
    BY DEF RouterTypeOK, InFlight, Delivery
  <2> QED
    BY <2>1, WithdrawIdentity DEF StillThere
<1>2. ASSUME NEW a \in Attempt, Running(a)' PROVE Running(a) /\ attempts[a].request \notin R
  <2>1. Running(a) /\ a \notin S
    BY <1>2, InterruptShape
  <2>2. attempts[a].request \in R => a \in AttemptsOf(R)
    BY <2>1, Watcher, NoneAssumption DEF AttemptsOf, Watch
  <2> QED
    BY <2>1, <2>2
<1>3. ASSUME NEW a \in Attempt
      PROVE  Kept(a) /\ (StopPending(a)' => StopPending(a) \/ (Running(a) /\ attempts[a].request \in R))
  BY InterruptShape
<1> QED
  BY <1>1, <1>2, <1>3 DEF Withdraws, WithdrawRequests

\* The attempts tied to requests R that still run were begun under them.
LEMMA AttemptsOfLinked ==
    ASSUME RouterTypeOK, Watch, NEW R \in SUBSET InFlight, NEW a \in AttemptsOf(R)
    PROVE  attempts[a].request \in R
  BY DEF AttemptsOf, Watch, Linked

LEMMA DropShape ==
    ASSUME TypeOK, RouterTypeOK, Watch, NEW c \in Session, DropConnection(c)
    PROVE  \E R \in SUBSET InFlight : Withdraws(R)
<1> DEFINE family   == ConnectionFamily(c)
           affected == {r \in InFlight : \/ pending[r].requester \in family
                                         \/ pending[r].recipient \in family}
           S == SessionAttempts(c) \cup AttemptsOf(affected)
<1>1. InterruptRows(S, "other") /\ WithdrawRequests(affected, family)
  BY DEF DropConnection
<1>2. affected \in SUBSET InFlight /\ AttemptsOf(affected) \subseteq S
  OBVIOUS
<1>3. ASSUME NEW a \in Attempt, a \in S, Running(a) PROVE attempts[a].request \in affected
  <2>1. CASE a \in AttemptsOf(affected)
    BY <1>2, <2>1, AttemptsOfLinked
  <2>2. CASE a \in SessionAttempts(c)
    <3>1. attempts[a].owner.session = c /\ c \in family
      BY <2>2 DEF SessionAttempts, ConnectionFamily
    <3> QED
      BY <1>3, <3>1, Watcher DEF Watch
  <2> QED
    BY <1>3, <2>1, <2>2
<1>4. \A r \in InFlight : pending[r].recipient \in family => r \in affected
  OBVIOUS
<1> HIDE DEF family, affected, S
<1> QED
  BY <1>1, <1>2, <1>3, <1>4, WithdrawShape

LEMMA WatchShape ==
    ASSUME RouterInv, [RouterNext]_vars
    PROVE  \/ Quiet
           \/ \E c \in Session, r \in Request, p \in Session, t \in Task \cup {None},
                 delivered \in BOOLEAN : Asking(c, r, p, t, delivered)
           \/ \E r \in Request, a \in Attempt : Begins(r, a)
           \/ \E R \in SUBSET InFlight : Withdraws(R)
<1> DEFINE Asks == \E c \in Session, r \in Request, p \in Session, t \in Task \cup {None},
                 delivered \in BOOLEAN : Asking(c, r, p, t, delivered)
           Starts == \E r \in Request, a \in Attempt : Begins(r, a)
           Ends == \E R \in SUBSET InFlight : Withdraws(R)
<1> USE NoneAssumption
<1>i. /\ TypeOK /\ RouterTypeOK /\ Watch /\ Identified /\ AttemptTaskAgreement /\ OnRecord
      /\ AnsweredOnce /\ RunningIsWatched /\ Wired
  BY DEF RouterInv, StoreInv, Watch
<1>d. ASSUME NEW r \in InFlight
      PROVE  /\ pending[r] \in Delivery /\ r \in Request /\ pending[r].recipient \in Session
             /\ pending[r].attempt \in Attempt \cup {None}
  BY <1>i DEF RouterTypeOK, InFlight, Delivery
<1>m. \A c \in Members : c \in Session
  BY DEF Members
<1>q. ASSUME attempts' = attempts, UNCHANGED <<pending, asked, answers>>,
             \A r \in InFlight : StillThere(pending[r].recipient)
      PROVE  Quiet
  BY <1>q DEF Quiet, Kept, Running, StopPending, StopUnknown
<1>u. ASSUME NEW e \in Session, NEW row, conn' = [conn EXCEPT ![e] = row],
             row.role = conn[e].role, row.agent = conn[e].agent, row.cred = conn[e].cred,
             conn[e].joined => row.joined
      PROVE  \A c \in Session : StillThere(c)
  BY <1>i, <1>u DEF StillThere, SameIdentity, RouterTypeOK
<1>1. ASSUME NEW c \in Session, NEW row, Fresh(c), conn' = [conn EXCEPT ![c] = row],
             UNCHANGED <<storeVars, pending, asked, answers>>
      PROVE  Quiet
  <2>1. ASSUME NEW r \in InFlight PROVE StillThere(pending[r].recipient)
    <3>1. pending[r].recipient # c
      BY <1>1, <1>i DEF Fresh, Wired
    <3> QED
      BY <1>1, <1>i, <1>d, <3>1 DEF StillThere, SameIdentity, RouterTypeOK
  <2> QED
    BY <1>1, <1>q, <2>1 DEF storeVars
<1>2. ASSUME NEW c \in Session, WorkspaceJoin(c) PROVE Quiet
  <2> DEFINE e == Effective(c)
             row == [conn[e] EXCEPT !.joined = TRUE, !.stored = conn[e].push,
                !.ready = conn[e].push /\ ~ AgentHasExecutionBarrier(attempts, conn[e].agent)]
  <2>1. e \in Session
    BY EffectiveSession
  <2> HIDE DEF e
  <2>2. conn' = [conn EXCEPT ![e] = row] /\ UNCHANGED <<storeVars, pending, asked, answers>>
    BY <1>2, <1>i, <2>1 DEF WorkspaceJoin, e, RouterTypeOK
  <2>3. conn[e] \in ConnRow
    BY <1>i, <2>1 DEF RouterTypeOK
  <2>4. row.role = conn[e].role /\ row.agent = conn[e].agent /\ row.cred = conn[e].cred /\ row.joined
    BY <2>3 DEF ConnRow
  <2> HIDE DEF row
  <2>5. \A d \in Session : StillThere(d)
    BY <1>u, <2>1, <2>2, <2>4
  <2> QED
    BY <1>q, <1>d, <2>2, <2>5 DEF storeVars
<1>3. ASSUME NEW c \in Session, WorkspaceLeave(c) PROVE Quiet
  <2> DEFINE e == Effective(c)
             row == [conn[e] EXCEPT !.joined = FALSE, !.stored = FALSE, !.ready = FALSE]
  <2>1. e \in Session
    BY EffectiveSession
  <2> HIDE DEF e
  <2>2. conn' = [conn EXCEPT ![e] = row] /\ UNCHANGED <<storeVars, pending, asked, answers>>
    BY <1>3, <1>i, <2>1 DEF WorkspaceLeave, e, RouterTypeOK
  <2>3. ASSUME NEW r \in InFlight PROVE StillThere(pending[r].recipient)
    <3>1. pending[r].recipient # e
      BY <1>3 DEF WorkspaceLeave, e, ConnectionFamily
    <3> QED
      BY <1>i, <1>d, <2>2, <3>1 DEF StillThere, SameIdentity, RouterTypeOK
  <2> QED
    BY <1>q, <2>2, <2>3 DEF storeVars
<1>4. ASSUME NEW c \in Session, NEW ready \in BOOLEAN, SetReadiness(c, ready) PROVE Quiet
  <2> DEFINE now == /\ ready /\ conn[c].canceling = None
                    /\ ~ AgentHasExecutionBarrier(attempts, conn[c].agent)
                    /\ ~ conn[c].busy /\ conn[c].joined
             row == [conn[c] EXCEPT !.stored = ready, !.ready = now]
  <2>1. conn' = [conn EXCEPT ![c] = row] /\ UNCHANGED <<storeVars, pending, asked, answers>>
    BY <1>4, <1>i DEF SetReadiness, RouterTypeOK
  <2>2. conn[c] \in ConnRow
    BY <1>i DEF RouterTypeOK
  <2> HIDE DEF now
  <2>3. /\ row.role = conn[c].role /\ row.agent = conn[c].agent /\ row.cred = conn[c].cred
        /\ row.joined = conn[c].joined
    BY <2>2 DEF ConnRow
  <2> HIDE DEF row
  <2>4. \A d \in Session : StillThere(d)
    BY <1>u, <2>1, <2>3
  <2> QED
    BY <1>q, <1>d, <2>1, <2>4 DEF storeVars
<1>5. ASSUME NEW c \in Session, NEW r \in Request, NEW ready \in BOOLEAN, WorkIdle(c, r, ready)
      PROVE  Quiet
  <2> DEFINE now == ready /\ ~ AgentHasExecutionBarrier(attempts, conn[c].agent)
             row == [conn[c] EXCEPT !.canceling = None, !.stored = ready, !.busy = FALSE, !.ready = now]
  <2>1. conn' = [conn EXCEPT ![c] = row] /\ UNCHANGED <<storeVars, pending, asked, answers>>
    BY <1>5, <1>i DEF WorkIdle, RouterTypeOK
  <2>2. conn[c] \in ConnRow
    BY <1>i DEF RouterTypeOK
  <2> HIDE DEF now
  <2>3. /\ row.role = conn[c].role /\ row.agent = conn[c].agent /\ row.cred = conn[c].cred
        /\ row.joined = conn[c].joined
    BY <2>2 DEF ConnRow
  <2> HIDE DEF row
  <2>4. \A d \in Session : StillThere(d)
    BY <1>u, <2>1, <2>3
  <2> QED
    BY <1>q, <1>d, <2>1, <2>4 DEF storeVars
<1>6. ASSUME NEW c \in Session, NEW r \in Request, NEW g, NEW t \in Task \cup {None},
             NEW delivered \in BOOLEAN, StartRequest(c, r, g, t, delivered),
             t # None => /\ PendingOnTask(t) = {}
                         /\ ~ \E a \in Attempt : StopPending(a) /\ attempts[a].task = t
      PROVE  Asks
  <2>1. PICK p \in Primaries(g) :
          /\ Available(p)
          /\ conn' = [conn EXCEPT ![p] =
                IF delivered THEN SetBusy(@, TRUE, FALSE) ELSE Canceled(@, r)]
          /\ pending' = [pending EXCEPT ![r] =
                IF delivered
                THEN [requester |-> c, recipient |-> p, task |-> t, attempt |-> None]
                ELSE None]
    BY <1>6 DEF StartRequest
  <2> DEFINE row == IF delivered THEN SetBusy(conn[p], TRUE, FALSE) ELSE Canceled(conn[p], r)
  <2>2. p \in Session /\ conn[p] \in ConnRow /\ conn[p].role = "agent" /\ conn[p].joined
    BY <1>i, <2>1 DEF Primaries, IsPrimary, Available, RouterTypeOK
  <2>3. /\ row.role = conn[p].role /\ row.agent = conn[p].agent /\ row.cred = conn[p].cred
        /\ row.joined = conn[p].joined
    <3>1. CASE delivered
      <4>1. row = SetBusy(conn[p], TRUE, FALSE)
        BY <3>1
      <4> HIDE DEF row
      <4> QED
        BY <2>2, <4>1 DEF SetBusy, ConnRow
    <3>2. CASE ~ delivered
      <4>1. row = Canceled(conn[p], r)
        BY <3>2
      <4> HIDE DEF row
      <4> QED
        BY <2>2, <4>1, CanceledRow
    <3> QED
      BY <3>1, <3>2
  <2>4. conn' = [conn EXCEPT ![p] = row]
    BY <1>i, <2>1, <2>2 DEF RouterTypeOK
  <2> HIDE DEF row
  <2>5. \A d \in Session : StillThere(d)
    BY <1>u, <2>2, <2>3, <2>4
  <2>6. Asking(c, r, p, t, delivered)
    BY <1>6, <2>1, <2>2, <2>5 DEF StartRequest, Asking
  <2> QED
    BY <2>2, <2>6
<1>7. ASSUME NEW c \in Session, NEW r \in Request, NEW t \in Task, NEW v, NEW delivered \in BOOLEAN,
             TaskRequest(c, r, t, v, delivered)
      PROVE  Asks
  <2>1. ~ \E a \in Attempt : StopPending(a) /\ attempts[a].task = t
    <3>1. tasks[t].last # None => attempts[tasks[t].last].evidence # "unknown"
      BY <1>7 DEF TaskRequest
    <3> QED
      BY <1>i, <3>1 DEF Watch, StopIsRecordable, StopPending, StopUnknown
  <2>2. PendingOnTask(t) = {} /\ StartRequest(c, r, tasks[t].assigned, t, delivered)
    BY <1>7 DEF TaskRequest
  <2> QED
    BY <1>6, <2>1, <2>2
<1>e. ASSUME NEW c \in Session, NEW row, conn' = [conn EXCEPT ![c] = row],
             \E blocked \in BOOLEAN : row = SetBusy(conn[c], FALSE, blocked)
      PROVE  \A d \in Session : StillThere(d)
  <2>1. conn[c] \in ConnRow
    BY <1>i DEF RouterTypeOK
  <2>2. /\ row.role = conn[c].role /\ row.agent = conn[c].agent
        /\ row.cred = conn[c].cred /\ row.joined = conn[c].joined
    BY <1>e, <2>1 DEF SetBusy, ConnRow
  <2> QED
    BY <1>u, <1>e, <2>2
<1>8. ASSUME NEW c \in Session, NEW r \in Request, FinishReply(c, r) PROVE Ends
  <2>1. /\ r \in InFlight /\ InterruptRows(AttemptsOf({r}), "other") /\ AppendResults({r})
        /\ asked' = asked /\ {r} \in SUBSET InFlight
    BY <1>8 DEF FinishReply, InterruptAttempts
  <2>2. pending' = [q \in Request |-> IF q \in {r} THEN None ELSE pending[q]]
    BY <1>8, <1>i DEF FinishReply, RouterTypeOK
  <2>3. \A d \in Session : StillThere(d)
    <3> DEFINE blocked == AgentHasExecutionBarrier(attempts', conn[c].agent)
    <3>1. conn' = [conn EXCEPT ![c] = SetBusy(conn[c], FALSE, blocked)]
      BY <1>8, <1>i DEF FinishReply, RouterTypeOK
    <3>2. blocked \in BOOLEAN
      BY BarrierIsBoolean
    <3> HIDE DEF blocked
    <3> QED
      BY <1>e, <3>1, <3>2
  <2>4. ASSUME NEW a \in Attempt, Running(a)' PROVE Running(a) /\ attempts[a].request \notin {r}
    <3>1. Running(a) /\ a \notin AttemptsOf({r})
      BY <1>i, <2>1, <2>4, InterruptShape
    <3>2. attempts[a].request = r => a \in AttemptsOf({r})
      BY <1>i, <3>1, Watcher DEF AttemptsOf
    <3> QED
      BY <3>1, <3>2
  <2>5. ASSUME NEW a \in Attempt
        PROVE  Kept(a) /\ (StopPending(a)' => StopPending(a) \/ (Running(a) /\ attempts[a].request \in {r}))
    BY <1>i, <2>1, InterruptShape, AttemptsOfLinked
  <2>6. Withdraws({r})
    BY <1>d, <2>1, <2>2, <2>3, <2>4, <2>5 DEF Withdraws
  <2> QED
    BY <2>1, <2>6
<1>9. ASSUME NEW c \in Session, NEW t \in Task, NEW a \in Attempt, NEW s \in Session,
             TaskExecutionStopped(c, t, a, s)
      PROVE  Quiet
  <2>1. \A d \in Session : StillThere(d)
    <3> DEFINE blocked == AgentHasExecutionBarrier(attempts', conn[c].agent)
    <3>1. conn' = conn \/ conn' = [conn EXCEPT ![c] = SetBusy(conn[c], FALSE, blocked)]
      BY <1>9, <1>i DEF TaskExecutionStopped, RouterTypeOK
    <3>2. blocked \in BOOLEAN
      BY BarrierIsBoolean
    <3> HIDE DEF blocked
    <3>3. CASE conn' = conn
      BY <3>3 DEF StillThere, SameIdentity
    <3> QED
      BY <1>e, <3>1, <3>2, <3>3
  <2>2. RecordExecutionStopped(conn[c].cred, s, t, a)
    BY <1>9 DEF TaskExecutionStopped
  <2>3. ASSUME NEW b \in Attempt
        PROVE  /\ Kept(b)
               /\ Running(b)' => Running(b)
               /\ StopPending(b)' => StopPending(b)
    BY <1>i, <2>2
    DEF RecordExecutionStopped, Kept, Running, StopPending, StopUnknown, TypeOK, AttemptRow
  <2> QED
    BY <1>9, <1>d, <2>1, <2>3 DEF TaskExecutionStopped, Quiet
<1>10. ASSUME NEW g, NEW rows, conn' = Settled(g, rows)
       PROVE  \A c \in Session : StillThere(c)
  <2> DEFINE blocked == AgentHasExecutionBarrier(rows, g)
  <2>2. ASSUME NEW c \in Session PROVE StillThere(c)
    <3>1. conn'[c] = conn[c] \/ conn'[c] = SetBusy(conn[c], FALSE, blocked)
      BY <1>10 DEF Settled
    <3> HIDE DEF blocked
    <3>2. conn[c] \in ConnRow
      BY <1>i DEF RouterTypeOK
    <3> QED
      BY <3>1, <3>2 DEF StillThere, SameIdentity, SetBusy, ConnRow
  <2> QED
    BY <2>2
<1>11. ASSUME NEW c \in Session, NEW t \in Task, NEW v \in Version, EditTask(c, t, v) PROVE Quiet
  <2>1. attempts' = attempts
    <3>1. ASSUME NEW g, ApplyAssign(t, v, g) PROVE attempts' = attempts
      BY <3>1 DEF ApplyAssign
    <3>2. ASSUME NEW next, ApplyTerminal(t, v, next) PROVE attempts' = attempts
      BY <3>2 DEF ApplyTerminal
    <3> QED
      BY <1>11, <3>1, <3>2 DEF EditTask, ApplyCreate, ApplyNote, ApplyEdit
  <2>2. UNCHANGED routerVars
    BY <1>11 DEF EditTask
  <2> QED
    BY <1>q, <2>1, <2>2 DEF routerVars, StillThere, SameIdentity
<1>12. ASSUME NEW c \in Session, NEW t \in Task, NEW r \in InFlight, NEW v \in Version,
              NEW checkpoint \in Version \cup {0}, NEW a \in Attempt,
              BeginTask(c, t, r, v, checkpoint, a)
       PROVE  Starts
  <2> DEFINE e == Effective(c)
  <2>1. /\ IsExecutor(c) /\ pending[r].recipient = e /\ pending[r].task = t
        /\ ApplyBegin(OwnerOf(c), t, r, v, checkpoint, a)
        /\ pending' = [pending EXCEPT ![r].attempt = a] /\ UNCHANGED <<conn, asked, answers>>
    BY <1>12 DEF BeginTask, MayBegin, Reserved
  <2>2. OwnerOf(c) = [cred |-> conn[pending[r].recipient].cred, session |-> pending[r].recipient]
    BY <2>1 DEF OwnerOf
  <2>3. /\ attempts[a].status = "absent" /\ Running(a)'
        /\ attempts'[a].request = r /\ attempts'[a].task = t /\ attempts'[a].owner = OwnerOf(c)
        /\ ~ \E b \in Attempt : Running(b) /\ attempts[b].task = t
        /\ \A b \in Attempt \ {a} : attempts'[b] = attempts[b]
    BY <1>i, <2>1 DEF ApplyBegin, TypeOK, Running
  <2>4. Begins(r, a)
    BY <2>1, <2>2, <2>3 DEF Begins
  <2> QED
    BY <1>d, <2>4
<1>13. ASSUME NEW c \in Session, NEW t \in Task, NEW v \in Version, NEW a \in Attempt,
              WorkOnTask(c, t, v, a)
       PROVE  Quiet
  <2>1. ASSUME NEW next, ApplyRelease(OwnerOf(c), t, v, a, next), NEW b \in Attempt
        PROVE  /\ Kept(b)
               /\ Running(b)' => Running(b)
               /\ StopPending(b)' => StopPending(b)
    BY <1>i, <2>1
    DEF ApplyRelease, RequireAttemptOwner, Kept, Running, StopPending, StopUnknown, TypeOK, AttemptRow
  <2>2. ASSUME NEW b \in Attempt
        PROVE  /\ Kept(b)
               /\ Running(b)' => Running(b)
               /\ StopPending(b)' => StopPending(b)
    BY <1>13, <2>1 DEF WorkOnTask, ApplyCheckpoint, Kept, Running, StopPending, StopUnknown
  <2>3. UNCHANGED routerVars
    BY <1>13 DEF WorkOnTask
  <2> QED
    BY <2>2, <2>3 DEF routerVars, Quiet, StillThere, SameIdentity
<1>14. ASSUME NEW c \in Session, NEW t \in Task, NEW v \in Version, InterruptTask(c, t, v)
       PROVE  Ends
  <2> DEFINE R == PendingOnTask(t)
             x == tasks[t].current
  <2>1. /\ R \in SUBSET InFlight /\ WithdrawRequests(R, {}) /\ x \in Attempt
        /\ attempts' = [attempts EXCEPT ![x] =
              IF @.status = "running" THEN Interrupted(@, "operator_interrupt") ELSE @]
    BY <1>14, <1>i DEF InterruptTask, ApplyInterrupt, PendingOnTask, TypeOK, TaskRow
  <2>2. Running(x) /\ attempts[x].task = t
    BY <1>i, <2>1 DEF AttemptTaskAgreement, Running
  <2> HIDE DEF x
  <2>3. attempts[x].request \in R
    BY <1>i, <2>1, <2>2, Watcher DEF PendingOnTask
  <2>4. ASSUME NEW a \in Attempt
        PROVE  /\ Kept(a)
               /\ Running(a)' => Running(a) /\ a # x
               /\ StopPending(a)' => StopPending(a) \/ a = x
    BY <1>i, <2>1, <2>2
    DEF Interrupted, TypeOK, AttemptRow, Kept, Running, StopPending, StopUnknown
  <2>5. ASSUME NEW a \in Attempt, Running(a), attempts[a].request \in R PROVE a = x
    <3>1. attempts[a].task = t
      BY <1>i, <2>5, Watcher DEF PendingOnTask
    <3> QED
      BY <1>i, <2>5, <3>1 DEF AttemptTaskAgreement, Running, x
  <2>6. ASSUME NEW r \in InFlight \ R PROVE StillThere(pending[r].recipient)
    <3>1. pending[r].recipient \in Session
      BY <1>d
    <3>2. ASSUME NEW d \in Session
          PROVE  SameIdentity(d) /\ conn'[d].joined = conn[d].joined
      <4>1. PICK gone : gone = {}
        OBVIOUS
      <4>2. WithdrawRequests(R, gone) /\ d \notin gone
        BY <2>1, <4>1
      <4> HIDE DEF R
      <4> QED
        BY <1>i, <2>1, <4>2, WithdrawIdentity
    <3> QED
      BY <3>1, <3>2 DEF StillThere
  <2>8. ASSUME NEW a \in Attempt
        PROVE  /\ Kept(a)
               /\ Running(a)' => Running(a) /\ attempts[a].request \notin R
               /\ StopPending(a)' => StopPending(a) \/ (Running(a) /\ attempts[a].request \in R)
    BY <2>2, <2>3, <2>4, <2>5
  <2>7. Withdraws(R)
    BY <2>1, <2>6, <2>8 DEF Withdraws, WithdrawRequests
  <2> QED
    BY <2>1, <2>7
<1>15. ASSUME NEW c \in Session, NEW t \in Task, NEW v \in Version, NEW a \in Attempt,
              ConfirmStopped(c, t, v, a)
       PROVE  Quiet
  <2>1. \A d \in Session : StillThere(d)
    BY <1>15, <1>10 DEF ConfirmStopped
  <2>2. ApplyConfirmStopped(t, v, a) /\ UNCHANGED <<pending, asked, answers>>
    BY <1>15 DEF ConfirmStopped
  <2>3. ASSUME NEW b \in Attempt
        PROVE  /\ Kept(b)
               /\ Running(b)' => Running(b)
               /\ StopPending(b)' => StopPending(b)
    BY <1>i, <2>2
    DEF ApplyConfirmStopped, Kept, Running, StopPending, StopUnknown, TypeOK, AttemptRow
  <2> QED
    BY <1>d, <2>1, <2>2, <2>3 DEF Quiet
<1>16. ASSUME NEW c \in Session, NEW rc \in receipts, RetryBegin(c, rc) PROVE Quiet
  <2> DEFINE a == rc.attempt
             r == attempts[a].request
  <2>1. rc.kind = "begin" /\ Running(a)
    BY <1>16 DEF RetryBegin, ExactActiveOwnerAttempt, Running
  <2>2. a \in Attempt /\ attempts[a].task = rc.task /\ rc.task \in Task
    BY <1>i, <2>1 DEF OnRecord, BeginsOnRecord, TypeOK, Receipt
  <2>3. tasks[rc.task].current = a
    BY <1>i, <2>1, <2>2 DEF AttemptTaskAgreement, Running
  <2>4. r \in InFlight /\ pending[r].attempt = a
    BY <1>i, <2>1, <2>2, Watcher
  <2>5. pending' = [pending EXCEPT ![r].attempt = a] /\ UNCHANGED <<storeVars, conn, asked, answers>>
    BY <1>16, <2>3, <2>4 DEF RetryBegin
  <2>6. [pending[r] EXCEPT !.attempt = a] = pending[r]
    BY <1>d, <2>4 DEF Delivery
  <2>7. pending' = pending
    BY <1>i, <1>d, <2>4, <2>5, <2>6 DEF RouterTypeOK
  <2> QED
    BY <1>q, <2>5, <2>7 DEF storeVars, StillThere, SameIdentity
<1>17. ASSUME NEW c \in Session, NEW rc \in receipts, RetryConfirm(c, rc) PROVE Quiet
  <2>1. \A d \in Session : StillThere(d)
    BY <1>17, <1>10 DEF RetryConfirm
  <2> QED
    BY <1>17, <1>q, <1>d, <2>1 DEF RetryConfirm, storeVars
<1>18. ASSUME NEW R \in SUBSET InFlight, NEW gone, NEW why, InterruptRows(AttemptsOf(R), why),
              WithdrawRequests(R, gone), \A r \in InFlight : pending[r].recipient \in gone => r \in R
       PROVE  Ends
  <2>1. \A a \in Attempt : a \in AttemptsOf(R) /\ Running(a) => attempts[a].request \in R
    BY <1>i, AttemptsOfLinked
  <2>2. Withdraws(R)
    BY <1>i, <1>18, <2>1, WithdrawShape
  <2> QED
    BY <2>2
<1>19. ASSUME NEW rc, NEW c, RetryInterrupt(c, rc) PROVE Ends
  <2> DEFINE R == PendingOnTask(rc.task)
  <2>1. /\ R \in SUBSET InFlight /\ InterruptRows(AttemptsOf(R), "operator_interrupt")
        /\ WithdrawRequests(R, {})
    BY <1>19 DEF RetryInterrupt, FinishPendingError, InterruptAttempts, PendingOnTask
  <2> HIDE DEF R
  <2> QED
    BY <1>18, <2>1
<1>20. ASSUME NEW R \in SUBSET InFlight, ExpireDeadlines(R) PROVE Ends
  BY <1>18, <1>20 DEF ExpireDeadlines, FinishPendingError, InterruptAttempts
<1>21. ASSUME Shutdown PROVE Ends
  BY <1>18, <1>21 DEF Shutdown, InterruptAttempts
<1>22. ASSUME NEW c \in Session, Disconnect(c) PROVE Ends
  BY <1>i, <1>22, DropShape DEF Disconnect
<1>23. ASSUME NEW k \in Credential, Revoke(k) PROVE Quiet \/ Ends
  <2> DEFINE users == {c \in Session : conn[c].role = "agent" /\ conn[c].cred = k}
  <2>1. CASE users = {}
    <3>1. UNCHANGED <<tasks, attempts, routerVars>>
      BY <1>23, <2>1 DEF Revoke
    <3> QED
      BY <1>q, <3>1 DEF routerVars, StillThere, SameIdentity
  <2>2. CASE users # {}
    <3>1. PICK c \in Session : DropConnection(c)
      BY <1>23, <2>2 DEF Revoke
    <3> QED
      BY <1>i, <3>1, DropShape
  <2> QED
    BY <2>1, <2>2
<1>24. ASSUME Restart PROVE Ends
  <2>1. {r \in asked : answers[r] = 0} = InFlight
    BY <1>i DEF AnsweredOnce, RouterTypeOK, InFlight
  <2>2. /\ RecoverRunningAttempts /\ AppendResults(InFlight) /\ asked' = asked
        /\ pending' = [r \in Request |-> None]
    BY <1>24, <2>1 DEF Restart
  <2>3. pending' = [r \in Request |-> IF r \in InFlight THEN None ELSE pending[r]]
    BY <2>2 DEF InFlight
  <2>4. ASSUME NEW a \in Attempt
        PROVE  /\ Kept(a) /\ ~ Running(a)'
               /\ StopPending(a)' => StopPending(a) \/ Running(a)
    BY <1>i, <2>2
    DEF RecoverRunningAttempts, Interrupted, TypeOK, AttemptRow, Kept, Running, StopPending, StopUnknown
  <2>5. ASSUME NEW a \in Attempt, Running(a) PROVE attempts[a].request \in InFlight
    BY <1>i, <2>5, Watcher
  <2>6. Withdraws(InFlight)
    BY <2>2, <2>3, <2>4, <2>5 DEF Withdraws
  <2> QED
    BY <2>6
<1> SUFFICES Quiet \/ Asks \/ Starts \/ Ends
  OBVIOUS
<1> HIDE DEF Asks, Starts, Ends
<1>25. CASE MembershipNext
  <2>1. ASSUME NEW c \in Session, NEW k, NEW push, RegisterAgent(c, k, push) PROVE Quiet
    BY <2>1, <1>1 DEF RegisterAgent
  <2>2. ASSUME NEW c \in Session, NEW g, RegisterDelegate(c, g) PROVE Quiet
    BY <2>2, <1>1 DEF RegisterDelegate
  <2>3. ASSUME NEW c \in Session, RegisterOperator(c) PROVE Quiet
    BY <2>3, <1>1 DEF RegisterOperator
  <2> QED
    BY <1>25, <2>1, <2>2, <2>3, <1>2, <1>3, <1>4 DEF MembershipNext
<1>26. CASE DeliveryNext
  <2>1. ASSUME NEW c \in Session, NEW r \in Request, NEW g, NEW delivered \in BOOLEAN,
               StartRequest(c, r, g, None, delivered)
        PROVE  Asks
    BY <1>6, <2>1
  <2> QED
    BY <1>26, <1>m, <2>1, <1>5, <1>7, <1>8 DEF DeliveryNext
<1>27. CASE CommandNext
  BY <1>27, <1>m, <1>11, <1>12, <1>13, <1>14, <1>15 DEF CommandNext
<1>28. CASE StopNext
  BY <1>28, <1>m, <1>9 DEF StopNext
<1>29. CASE RetryNext
  BY <1>29, <1>m, <1>16, <1>17, <1>19 DEF RetryNext
<1>30. CASE FailureNext
  BY <1>30, <1>20, <1>21, <1>22, <1>23, <1>24 DEF FailureNext
<1>31. CASE UNCHANGED vars
  BY <1>31, <1>q DEF vars, storeVars, routerVars, StillThere, SameIdentity
<1> QED
  BY <1>25, <1>26, <1>27, <1>28, <1>29, <1>30, <1>31 DEF RouterNext

\* An agent connection acts for itself.
LEMMA AgentActsForItself ==
    ASSUME NEW c \in Session, conn[c].role = "agent"
    PROVE  OwnerOf(c) = [cred |-> conn[c].cred, session |-> c]
  BY DEF OwnerOf, Effective

\* The part of RunningIsWatched that is not already in Watcher.
LEMMA WatchedIntro ==
    ASSUME RouterTypeOK', Wired',
           \A a \in Attempt : Running(a)' =>
              LET r == attempts'[a].request IN
              /\ r \in InFlight' /\ pending'[r].attempt = a /\ pending'[r].task = attempts'[a].task
              /\ attempts'[a].owner = [cred |-> conn'[pending'[r].recipient].cred,
                                       session |-> pending'[r].recipient]
    PROVE  RunningIsWatched'
<1> SUFFICES ASSUME NEW a \in Attempt, Running(a)'
             PROVE  (\E r \in InFlight : /\ pending[r].attempt = a
                                         /\ pending[r].task = attempts[a].task
                                         /\ pending[r].recipient = attempts[a].owner.session
                                         /\ attempts[a].request = r
                                         /\ OwnerOf(attempts[a].owner.session) = attempts[a].owner)'
  BY DEF RunningIsWatched, Running
<1> DEFINE r == attempts'[a].request
           s == pending'[r].recipient
<1>1. /\ r \in InFlight' /\ pending'[r].attempt = a /\ pending'[r].task = attempts'[a].task
      /\ attempts'[a].owner = [cred |-> conn'[s].cred, session |-> s]
  OBVIOUS
<1>2. s \in Session /\ conn'[s].role = "agent"
  BY <1>1 DEF RouterTypeOK, InFlight, Delivery, Wired
<1>3. s = attempts'[a].owner.session
  BY <1>1
<1> QED
  BY <1>1, <1>2, <1>3 DEF OwnerOf, Effective

\* The owner of a running attempt is the connection its request was sent to.
LEMMA WatchedOwner ==
    ASSUME RouterTypeOK, Wired, RunningIsWatched, NEW a \in Attempt, Running(a)
    PROVE  LET s == pending[attempts[a].request].recipient IN
           attempts[a].owner = [cred |-> conn[s].cred, session |-> s]
<1> DEFINE r == attempts[a].request
           s == pending[r].recipient
<1>1. r \in InFlight /\ s = attempts[a].owner.session /\ OwnerOf(s) = attempts[a].owner
  BY DEF RunningIsWatched, Running
<1>2. s \in Session /\ conn[s].role = "agent"
  BY <1>1 DEF RouterTypeOK, InFlight, Delivery, Wired
<1> QED
  BY <1>1, <1>2, AgentActsForItself

LEMMA QuietKeepsWatch ==
    ASSUME RouterInv, RouterTypeOK', Quiet
    PROVE  /\ Wired' /\ Linked' /\ OneRequestPerTask' /\ RequestedHasStopped'
           /\ RunningIsWatched' /\ AnsweredOnce'
<1>i. RouterTypeOK /\ Watch /\ RunningIsWatched /\ Wired
  BY DEF RouterInv, Watch
<1>1. InFlight' = InFlight /\ pending' = pending
  BY DEF Quiet, InFlight
<1>2. Wired'
  BY <1>i, <1>1 DEF Wired, Quiet, StillThere, SameIdentity
<1>3. Linked'
  BY <1>i, <1>1 DEF Watch, Linked, Quiet, Kept, RouterTypeOK, InFlight, Delivery
<1>4. OneRequestPerTask'
  BY <1>i, <1>1 DEF Watch, OneRequestPerTask
<1>5. RequestedHasStopped'
  <2>1. ASSUME NEW a \in Attempt, StopPending(a)'
        PROVE  StopPending(a) /\ attempts'[a].task = attempts[a].task
    BY <2>1 DEF Quiet, Kept
  <2> QED
    BY <1>i, <1>1, <2>1 DEF Watch, RequestedHasStopped
<1>6. AnsweredOnce'
  BY <1>i, <1>1 DEF Watch, AnsweredOnce, Quiet
<1>7. ASSUME NEW a \in Attempt, Running(a)'
      PROVE  LET r == attempts'[a].request IN
             /\ r \in InFlight' /\ pending'[r].attempt = a /\ pending'[r].task = attempts'[a].task
             /\ attempts'[a].owner = [cred |-> conn'[pending'[r].recipient].cred,
                                      session |-> pending'[r].recipient]
  <2>1. Running(a) /\ Kept(a)
    BY <1>7 DEF Quiet
  <2> QED
    BY <1>i, <1>1, <2>1, Watcher, WatchedOwner DEF Quiet, Kept, StillThere, SameIdentity
<1>8. RunningIsWatched'
  BY <1>2, <1>7, WatchedIntro
<1> QED
  BY <1>2, <1>3, <1>4, <1>5, <1>6, <1>8

LEMMA AskingKeepsWatch ==
    ASSUME RouterInv, RouterTypeOK', NEW c \in Session, NEW q \in Request, NEW p \in Session,
           NEW t \in Task \cup {None}, NEW delivered \in BOOLEAN, Asking(c, q, p, t, delivered)
    PROVE  /\ Wired' /\ Linked' /\ OneRequestPerTask' /\ RequestedHasStopped'
           /\ RunningIsWatched' /\ AnsweredOnce'
<1> USE NoneAssumption, DeliveryAssumption
<1>i. RouterTypeOK /\ Watch /\ RunningIsWatched /\ Wired /\ AnsweredOnce /\ TypeOK /\ OnRecord
  BY DEF RouterInv, StoreInv, Watch
<1>1. /\ q \notin InFlight /\ \A r \in Request \ {q} : pending'[r] = pending[r]
      /\ attempts' = attempts
  BY <1>i DEF Asking, AnsweredOnce, RouterTypeOK, storeVars
<1> DEFINE new == [requester |-> c, recipient |-> p, task |-> t, attempt |-> None]
<1>2. new \in Delivery /\ new.recipient = p /\ new.task = t /\ new.attempt = None
  BY DEF Delivery
<1>3. pending'[q] = IF delivered THEN new ELSE None
  BY <1>i DEF Asking, RouterTypeOK
<1> HIDE DEF new
<1>4. InFlight' = InFlight \cup (IF delivered THEN {q} ELSE {})
  BY <1>1, <1>2, <1>3 DEF InFlight
<1>5. ASSUME NEW r \in InFlight'
      PROVE  (r \in InFlight /\ pending'[r] = pending[r]) \/ (r = q /\ pending'[r] = new)
  BY <1>1, <1>3, <1>4, <1>5 DEF InFlight
<1>6. ASSUME NEW r \in InFlight PROVE pending[r].recipient \in Session
  BY <1>i DEF RouterTypeOK, InFlight, Delivery
<1>7. Wired'
  BY <1>i, <1>2, <1>5, <1>6 DEF Wired, Asking, Available, StillThere, SameIdentity
<1>8. Linked'
  BY <1>i, <1>1, <1>2, <1>5 DEF Watch, Linked
<1>9. OneRequestPerTask'
  BY <1>i, <1>2, <1>5 DEF Watch, OneRequestPerTask, Asking, PendingOnTask
<1>10. RequestedHasStopped'
  <2> SUFFICES ASSUME NEW r \in InFlight', NEW a \in Attempt, StopPending(a)
               PROVE  attempts[a].task # pending'[r].task
    BY <1>1 DEF RequestedHasStopped, StopPending, StopUnknown
  <2>1. attempts[a].task \in Task
    BY <1>i DEF OnRecord, AttemptsIdentified, StopPending, StopUnknown
  <2> QED
    BY <1>i, <1>2, <1>5, <2>1 DEF Watch, RequestedHasStopped, Asking
<1>11. AnsweredOnce'
  <2>1. answers' = [r \in Request |-> IF ~ delivered /\ r = q THEN answers[r] + 1 ELSE answers[r]]
    BY DEF Asking, AppendResults
  <2>2. asked' = asked \cup {q} /\ q \notin asked /\ answers[q] = 0
    BY <1>i DEF Asking, AnsweredOnce
  <2> QED
    BY <1>i, <1>4, <2>1, <2>2 DEF AnsweredOnce
<1>12. ASSUME NEW a \in Attempt, Running(a)'
      PROVE  LET r == attempts'[a].request IN
             /\ r \in InFlight' /\ pending'[r].attempt = a /\ pending'[r].task = attempts'[a].task
             /\ attempts'[a].owner = [cred |-> conn'[pending'[r].recipient].cred,
                                      session |-> pending'[r].recipient]
  <2> DEFINE r == attempts[a].request
  <2>1. Running(a)
    BY <1>1, <1>12 DEF Running
  <2>2. r \in InFlight
    BY <1>i, <2>1, Watcher
  <2>3. pending'[r] = pending[r] /\ r \in InFlight'
    BY <1>1, <1>4, <2>2 DEF InFlight
  <2>4. conn'[pending[r].recipient].cred = conn[pending[r].recipient].cred
    BY <1>6, <2>2 DEF Asking, StillThere, SameIdentity
  <2> QED
    BY <1>i, <1>1, <2>1, <2>2, <2>3, <2>4, Watcher, WatchedOwner
<1>13. RunningIsWatched'
  BY <1>7, <1>12, WatchedIntro
<1> QED
  BY <1>7, <1>8, <1>9, <1>10, <1>11, <1>13

LEMMA BeginsKeepsWatch ==
    ASSUME RouterInv, RouterTypeOK', NEW q \in Request, NEW x \in Attempt, Begins(q, x)
    PROVE  /\ Wired' /\ Linked' /\ OneRequestPerTask' /\ RequestedHasStopped'
           /\ RunningIsWatched' /\ AnsweredOnce'
<1> USE NoneAssumption, DeliveryAssumption
<1>i. RouterTypeOK /\ Watch /\ RunningIsWatched /\ Wired /\ AnsweredOnce /\ TypeOK
  BY DEF RouterInv, StoreInv, Watch
<1>1. /\ q \in InFlight /\ pending[q] \in Delivery
      /\ \A r \in Request \ {q} : pending'[r] = pending[r]
      /\ pending'[q] = [pending[q] EXCEPT !.attempt = x]
  BY <1>i DEF Begins, RouterTypeOK, InFlight
<1>2. /\ pending'[q] \in Delivery /\ pending'[q].recipient = pending[q].recipient
      /\ pending'[q].task = pending[q].task /\ pending'[q].attempt = x
  BY <1>1 DEF Delivery
<1>3. InFlight' = InFlight
  BY <1>1, <1>2 DEF InFlight
<1>4. ASSUME NEW r \in InFlight
      PROVE  /\ pending'[r].recipient = pending[r].recipient /\ pending'[r].task = pending[r].task
             /\ pending'[r].attempt = IF r = q THEN x ELSE pending[r].attempt
  BY <1>1, <1>2 DEF InFlight
<1>5. /\ \A b \in Attempt \ {x} : attempts'[b] = attempts[b]
      /\ attempts[x].status = "absent" /\ conn' = conn
  BY DEF Begins
<1>6. Wired'
  BY <1>i, <1>3, <1>4, <1>5 DEF Wired
<1>7. Linked'
  <2> SUFFICES ASSUME NEW r \in InFlight, pending'[r].attempt # None
               PROVE  LET a == pending'[r].attempt IN
                      /\ attempts'[a].status # "absent"
                      /\ attempts'[a].request = r /\ attempts'[a].task = pending'[r].task
    BY <1>3 DEF Linked
  <2>1. CASE r = q
    BY <1>4, <2>1 DEF Begins, Running
  <2>2. CASE r # q
    <3>1. pending[r].attempt \in Attempt /\ pending[r].attempt # x
      BY <1>i, <1>4, <1>5, <2>2 DEF Watch, Linked, RouterTypeOK, InFlight, Delivery
    <3> QED
      BY <1>i, <1>4, <1>5, <2>2, <3>1 DEF Watch, Linked
  <2> QED
    BY <2>1, <2>2
<1>8. OneRequestPerTask'
  BY <1>i, <1>3, <1>4 DEF Watch, OneRequestPerTask
<1>9. RequestedHasStopped'
  <2>1. ASSUME NEW a \in Attempt, StopPending(a)' PROVE a # x /\ StopPending(a) /\ attempts'[a] = attempts[a]
    BY <1>5, <2>1 DEF Begins, Running, StopPending, StopUnknown
  <2> QED
    BY <1>i, <1>3, <1>4, <2>1 DEF Watch, RequestedHasStopped
<1>10. AnsweredOnce'
  BY <1>i, <1>3 DEF AnsweredOnce, Begins
<1>11. ASSUME NEW a \in Attempt, Running(a)'
      PROVE  LET r == attempts'[a].request IN
             /\ r \in InFlight' /\ pending'[r].attempt = a /\ pending'[r].task = attempts'[a].task
             /\ attempts'[a].owner = [cred |-> conn'[pending'[r].recipient].cred,
                                      session |-> pending'[r].recipient]
  <2>1. CASE a = x
    BY <1>1, <1>2, <1>3, <1>5, <2>1 DEF Begins
  <2>2. CASE a # x
    <3> DEFINE r == attempts[a].request
    <3>1. attempts'[a] = attempts[a] /\ Running(a)
      BY <1>5, <1>11, <2>2 DEF Running
    <3>2. /\ r \in InFlight /\ pending[r].attempt = a /\ pending[r].task = attempts[a].task
          /\ attempts[a].owner = [cred |-> conn[pending[r].recipient].cred,
                                  session |-> pending[r].recipient]
      BY <1>i, <3>1, Watcher, WatchedOwner
    <3>3. r # q
      BY <3>1, <3>2 DEF Begins
    <3> QED
      BY <1>3, <1>4, <1>5, <3>1, <3>2, <3>3
  <2> QED
    BY <2>1, <2>2
<1>12. RunningIsWatched'
  BY <1>6, <1>11, WatchedIntro
<1> QED
  BY <1>6, <1>7, <1>8, <1>9, <1>10, <1>12

LEMMA WithdrawsKeepsWatch ==
    ASSUME RouterInv, RouterTypeOK', NEW R \in SUBSET InFlight, Withdraws(R)
    PROVE  /\ Wired' /\ Linked' /\ OneRequestPerTask' /\ RequestedHasStopped'
           /\ RunningIsWatched' /\ AnsweredOnce'
<1> USE NoneAssumption, DeliveryAssumption
<1>i. RouterTypeOK /\ Watch /\ RunningIsWatched /\ Wired /\ AnsweredOnce /\ TypeOK /\ OnRecord
  BY DEF RouterInv, StoreInv, Watch
<1>1. InFlight' = InFlight \ R /\ \A r \in InFlight \ R : pending'[r] = pending[r]
  BY <1>i DEF Withdraws, InFlight
<1>2. Wired'
  BY <1>i, <1>1 DEF Wired, Withdraws, StillThere, SameIdentity
<1>3. Linked'
  BY <1>i, <1>1 DEF Watch, Linked, Withdraws, Kept, RouterTypeOK, InFlight, Delivery
<1>4. OneRequestPerTask'
  BY <1>i, <1>1 DEF Watch, OneRequestPerTask
<1>5. RequestedHasStopped'
  <2> SUFFICES ASSUME NEW r \in InFlight \ R, NEW a \in Attempt, StopPending(a)'
               PROVE  attempts'[a].task # pending[r].task
    BY <1>1 DEF RequestedHasStopped
  <2>1. attempts'[a].task = attempts[a].task
    BY DEF Withdraws, Kept
  <2>2. CASE StopPending(a)
    BY <1>i, <2>1, <2>2 DEF Watch, RequestedHasStopped
  <2>3. CASE Running(a) /\ attempts[a].request \in R
    <3> DEFINE w == attempts[a].request
    <3>1. w \in InFlight /\ w # r /\ pending[w].task = attempts[a].task
      BY <1>i, <2>3, Watcher
    <3>2. attempts[a].task \in Task
      BY <1>i, <2>3 DEF OnRecord, AttemptsIdentified, Running
    <3> QED
      BY <1>i, <2>1, <3>1, <3>2 DEF Watch, OneRequestPerTask
  <2> QED
    BY <2>2, <2>3 DEF Withdraws
<1>6. AnsweredOnce'
  <2>1. answers' = [r \in Request |-> IF r \in R THEN answers[r] + 1 ELSE answers[r]] /\ asked' = asked
    BY DEF Withdraws, AppendResults
  <2> QED
    BY <1>i, <1>1, <2>1 DEF AnsweredOnce
<1>7. ASSUME NEW a \in Attempt, Running(a)'
      PROVE  LET r == attempts'[a].request IN
             /\ r \in InFlight' /\ pending'[r].attempt = a /\ pending'[r].task = attempts'[a].task
             /\ attempts'[a].owner = [cred |-> conn'[pending'[r].recipient].cred,
                                      session |-> pending'[r].recipient]
  <2> DEFINE r == attempts[a].request
  <2>1. Running(a) /\ Kept(a) /\ r \notin R
    BY <1>7 DEF Withdraws
  <2>2. /\ r \in InFlight /\ pending[r].attempt = a /\ pending[r].task = attempts[a].task
        /\ attempts[a].owner = [cred |-> conn[pending[r].recipient].cred,
                                session |-> pending[r].recipient]
    BY <1>i, <2>1, Watcher, WatchedOwner
  <2>3. conn'[pending[r].recipient].cred = conn[pending[r].recipient].cred
    BY <2>1, <2>2 DEF Withdraws, StillThere, SameIdentity
  <2> QED
    BY <1>1, <2>1, <2>2, <2>3 DEF Kept
<1>8. RunningIsWatched'
  BY <1>2, <1>7, WatchedIntro
<1> QED
  BY <1>2, <1>3, <1>4, <1>5, <1>6, <1>8

\* The reservation of a task lasts until the execution under it has ended, so
\* that none is begun over another: what StopStep asks of the router.
LEMMA ReservationProtects == ASSUME RouterInv, [RouterNext]_vars PROVE BeginsOnStopped
<1> SUFFICES ASSUME NEW a \in Attempt, NEW b \in Attempt,
                    attempts[a].status = "absent", Running(a)', StopPending(b)
             PROVE  attempts[b].task # attempts'[a].task
  BY DEF BeginsOnStopped
<1>1. CASE Quiet
  BY <1>1 DEF Quiet, Running
<1>2. ASSUME NEW R, Withdraws(R) PROVE FALSE
  BY <1>2 DEF Withdraws, Running
<1>3. ASSUME NEW c, NEW r, NEW p, NEW t, NEW delivered, Asking(c, r, p, t, delivered) PROVE FALSE
  BY <1>3 DEF Asking, storeVars, Running
<1>4. ASSUME NEW r \in Request, NEW x \in Attempt, Begins(r, x)
      PROVE  attempts[b].task # attempts'[a].task
  <2>1. x = a
    BY <1>4 DEF Begins, Running
  <2> QED
    BY <1>4, <2>1 DEF Begins, RouterInv, Watch, RequestedHasStopped
<1> QED
  BY <1>1, <1>2, <1>3, <1>4, WatchShape

LEMMA RouterStep == RouterInv /\ [RouterNext]_vars => RouterInv'
<1> SUFFICES ASSUME RouterInv, [RouterNext]_vars PROVE RouterInv'
  OBVIOUS
<1>1. [Next]_storeVars /\ RouterTypeOK' /\ Identified'
  BY StoreStep, RouterTypeStep DEF RouterInv, StoreInv
<1>2. StoreInv'
  <2>1. TypeOK' /\ AttemptTaskAgreement'
    BY <1>1, TypeStep, AgreementStep DEF RouterInv, StoreInv
  <2>2. OnRecord'
    BY <1>1, RecordStep DEF RouterInv, StoreInv
  <2>3. AbsentIsNew'
    BY <1>1, VersionStep DEF RouterInv, StoreInv, TaskStep, RowStep, AbsentIsNew
  <2> QED
    BY <2>1, <2>2, <2>3 DEF StoreInv
<1>3. StopIsRecordable'
  BY <1>1, StopStep, ReservationProtects DEF RouterInv, StoreInv, Watch
<1>4. /\ Wired' /\ Linked' /\ OneRequestPerTask' /\ RequestedHasStopped'
      /\ RunningIsWatched' /\ AnsweredOnce'
  BY <1>1, WatchShape, QuietKeepsWatch, AskingKeepsWatch, BeginsKeepsWatch, WithdrawsKeepsWatch
<1> QED
  BY <1>1, <1>2, <1>3, <1>4 DEF RouterInv, Watch

LEMMA RouterInvariant == RouterSpec => []RouterInv
<1>1. RouterInit => RouterInv
  <2> SUFFICES ASSUME RouterInit PROVE RouterInv
    OBVIOUS
  <2>1. TypeOK
    BY DEF RouterInit, Init, TypeOK, NoTask, NoAttempt, TaskRow, AttemptRow, StopEvidence
  <2>2. AttemptTaskAgreement /\ AbsentIsNew /\ OnRecord
    BY NoneAssumption
    DEF RouterInit, Init, AttemptTaskAgreement, AbsentIsNew, OnRecord, AttemptsIdentified,
        CurrentIsLast, BeginsOnRecord, NoTask, NoAttempt
  <2>3. Closed \in ConnRow /\ Closed.role = "closed"
    BY DEF Closed, ConnRow
  <2>4. RouterTypeOK /\ Identified
    BY <2>3 DEF RouterInit, RouterTypeOK, Identified
  <2>5. InFlight = {}
    BY DEF RouterInit, InFlight
  <2>6. \A a \in Attempt : attempts[a].status = "absent"
    BY DEF RouterInit, Init, NoAttempt
  <2>7. Watch
    BY <2>5, <2>6
    DEF RouterInit, Watch, Wired, Linked, OneRequestPerTask, RequestedHasStopped, RunningIsWatched,
        StopIsRecordable, AnsweredOnce, StopPending, StopUnknown
  <2> QED
    BY <2>1, <2>2, <2>4, <2>7 DEF RouterInv, StoreInv
<1> QED
  BY <1>1, RouterStep, PTL DEF RouterSpec

\* Nothing runs unwatched, through replies, timeouts, interruptions, retries,
\* disconnections, revocations, stops and restarts.
THEOREM RunningAttemptsAreWatched == RouterSpec => []RunningIsWatched
<1>1. RouterInv => RunningIsWatched
  BY DEF RouterInv, Watch
<1> QED
  BY <1>1, RouterInvariant, PTL

\* The stop report of an interrupted execution never fails with InvalidData.
THEOREM StopsAreRecordable == RouterSpec => []StopIsRecordable
<1>1. RouterInv => StopIsRecordable
  BY DEF RouterInv, Watch
<1> QED
  BY <1>1, RouterInvariant, PTL

\* Every durable request gets exactly one durable result.
THEOREM RequestsAreAnsweredOnce == RouterSpec => []AnsweredOnce
<1>1. RouterInv => AnsweredOnce
  BY DEF RouterInv, Watch
<1> QED
  BY <1>1, RouterInvariant, PTL

\* Tasks are leased exclusively: the store's index covers running attempts, the
\* router's reservation those that were interrupted and may still be going on.
THEOREM RouterImplementsTaskLease == RouterSpec => ImplementsTaskLease
<1> DEFINE holds == [a \in Attempt |-> attempts[a].task]
<1>1. RouterInit => TaskLease!Init
  <2> SUFFICES ASSUME RouterInit PROVE TaskLease!Init
    OBVIOUS
  <2>1. \A a \in Attempt : LeasePhase[a] = "unused" /\ attempts[a].task = None
    BY DEF RouterInit, Init, LeasePhase, NoAttempt
  <2> QED
    BY <2>1 DEF TaskLease!Init, LeasePhase
<1>2. RouterInv /\ [RouterNext]_vars => [TaskLease!Next]_(TaskLease!vars)
  <2> SUFFICES ASSUME RouterInv, [RouterNext]_vars
               PROVE  TaskLease!Next \/ UNCHANGED TaskLease!vars
    OBVIOUS
  <2>i. TypeOK /\ RouterTypeOK /\ [Next]_storeVars
    BY StoreStep DEF RouterInv, StoreInv
  <2>1. ASSUME Carried, \A a \in Attempt : Barrier(a) => Barrier(a)'
        PROVE  UNCHANGED TaskLease!vars
    <3>1. \A a \in Attempt : LeasePhase'[a] = LeasePhase[a] /\ holds'[a] = holds[a]
      BY <2>1 DEF Carried, LeasePhase
    <3> QED
      BY <3>1 DEF TaskLease!vars, LeasePhase
  <2>2. ASSUME Carried, NEW a \in Attempt, Barrier(a), ~ Barrier(a)'
        PROVE  TaskLease!End(a)
    <3>1. LeasePhase[a] = "held" /\ LeasePhase'[a] = "ended"
      BY <2>2 DEF Carried, LeasePhase, Barrier, IsBarrier, StopUnknown
    <3>2. \A b \in Attempt \ {a} : LeasePhase'[b] = LeasePhase[b]
      BY <2>2 DEF Carried, LeasePhase
    <3>3. LeasePhase' = [LeasePhase EXCEPT ![a] = "ended"]
      BY <3>1, <3>2 DEF LeasePhase
    <3>4. holds' = holds
      BY <2>2 DEF Carried
    <3> QED
      BY <3>1, <3>3, <3>4 DEF TaskLease!End
  <2>3. ASSUME NEW a \in Attempt, NEW g \in Agent, Begun(a, g)
        PROVE  \E t \in Task : TaskLease!Take(a, t)
    <3>1. PICK r \in Request : Begins(r, a)
      <4>1. attempts[a].status = "absent" /\ Running(a)'
        BY <2>3 DEF Begun, Running
      <4>2. ASSUME NEW r \in Request, NEW x \in Attempt, Begins(r, x) PROVE x = a
        BY <4>1, <4>2 DEF Begins, Running
      <4> QED
        BY <4>1, <4>2, WatchShape DEF Quiet, Withdraws, Asking, storeVars, Running
    <3>t. PICK t \in Task : t = pending[r].task
      BY <3>1 DEF Begins
    <3>2. /\ attempts'[a].task = t /\ attempts[a].status = "absent" /\ Running(a)'
          /\ \A b \in Attempt \ {a} : attempts'[b] = attempts[b]
          /\ ~ \E b \in Attempt : Running(b) /\ attempts[b].task = t
          /\ r \in InFlight
      BY <3>1, <3>t DEF Begins
    <3>3. ~ \E b \in Attempt : Barrier(b) /\ attempts[b].task = t
      BY <3>2, <3>t
      DEF RouterInv, Watch, RequestedHasStopped, Barrier, IsBarrier, StopPending, Running
    <3>4. LeasePhase[a] = "unused" /\ LeasePhase'[a] = "held" /\ holds'[a] = t
      BY <3>2 DEF LeasePhase, Barrier, IsBarrier, Running
    <3>5. \A b \in Attempt \ {a} : LeasePhase'[b] = LeasePhase[b] /\ holds'[b] = holds[b]
      BY <3>2 DEF LeasePhase, Barrier
    <3>6. /\ LeasePhase' = [LeasePhase EXCEPT ![a] = "held"]
          /\ holds' = [holds EXCEPT ![a] = t]
      BY <3>4, <3>5 DEF LeasePhase
    <3>7. TaskLease!Free(t)
      BY <3>3 DEF TaskLease!Free, LeasePhase
    <3>8. TaskLease!Take(a, t)
      BY <3>4, <3>6, <3>7 DEF TaskLease!Take
    <3> QED
      BY <3>8
  <2> QED
    BY <2>i, <2>1, <2>2, <2>3, AttemptStep DEF TaskLease!Next
<1> QED
  BY <1>1, <1>2, RouterInvariant, PTL DEF RouterSpec, ImplementsTaskLease, TaskLease!Spec

-----------------------------------------------------------------------------
(***************************************************************************)
(* The cached status of a connection.                                      *)
(*                                                                         *)
(* A confirmation that is retried, and answered from its receipt, still    *)
(* ends with set_busy(false) on the agent's connection, which may by then  *)
(* be serving another request.  What follows is therefore shown of routers *)
(* whose clients do not retry confirmations.                               *)
(***************************************************************************)

Serving(c) == \E r \in InFlight : pending[r].recipient = c

Blocked(c) == AgentHasExecutionBarrier(attempts, conn[c].agent)

\* StatusIsExact, of one connection.
Exact(c) == conn[c].role = "agent" =>
    /\ conn[c].busy <=> (Serving(c) \/ conn[c].canceling # None)
    /\ ~ (Serving(c) /\ conn[c].canceling # None)
    /\ conn[c].ready <=> /\ conn[c].stored /\ conn[c].joined /\ ~ conn[c].busy
                         /\ ~ Blocked(c)

\* Only a member of the workspace can owe the end of a withdrawn delivery.
OwesAsMember(c) == conn[c].canceling # None => conn[c].role = "agent" /\ conn[c].joined

OneConnectionPerAgent == \A c, d \in Session :
    /\ conn[c].role = "agent" /\ conn[d].role = "agent"
    /\ conn[c].agent = conn[d].agent
    => c = d

\* An agent that serves a request has no earlier execution that may be going on.
ServingHasStopped == \A r \in InFlight, a \in Attempt :
    StopPending(a) => attempts[a].agent # conn[pending[r].recipient].agent

StatusInv == /\ OneConnectionPerAgent /\ ServingHasStopped /\ OneDeliveryPerProvider
             /\ \A c \in Session : Exact(c) /\ OwesAsMember(c)

\* The barrier of an agent depends on its own attempts only.
LEMMA SameBarrier ==
    ASSUME NEW g,
           \A a \in Attempt : attempts[a].agent = g \/ attempts'[a].agent = g =>
              attempts'[a].agent = attempts[a].agent /\ (Barrier(a)' <=> Barrier(a))
    PROVE  AgentHasExecutionBarrier(attempts', g) <=> AgentHasExecutionBarrier(attempts, g)
  BY DEF AgentHasExecutionBarrier, Barrier

\* The agent of a running attempt is the one its request was sent to.
LEMMA WatchedAgent ==
    ASSUME RouterInv, NEW a \in Attempt, Running(a)
    PROVE  /\ attempts[a].request \in InFlight
           /\ pending[attempts[a].request].recipient \in Session
           /\ attempts[a].agent = conn[pending[attempts[a].request].recipient].agent
           /\ conn[pending[attempts[a].request].recipient].role = "agent"
<1>i. /\ RouterTypeOK /\ RunningIsWatched /\ Wired /\ Identified /\ OnRecord
  BY DEF RouterInv, StoreInv, Watch
<1> DEFINE r == attempts[a].request
           c == pending[r].recipient
<1>1. r \in InFlight /\ attempts[a].owner = [cred |-> conn[c].cred, session |-> c]
  BY <1>i, Watcher, WatchedOwner
<1>2. c \in Session /\ conn[c].role = "agent"
  BY <1>i, <1>1 DEF RouterTypeOK, InFlight, Delivery, Wired
<1>3. attempts[a].agent = Subject[attempts[a].owner.cred]
  BY <1>i DEF OnRecord, AttemptsIdentified, Running
<1> QED
  BY <1>i, <1>1, <1>2, <1>3 DEF Identified

\* The parts of the invariant about deliveries follow from the shape of a step.
LEMMA DeliveriesStep ==
    ASSUME RouterInv, StatusInv, [RouterNext]_vars PROVE OneDeliveryPerProvider' /\ ServingHasStopped'
<1> USE NoneAssumption, DeliveryAssumption
<1>i. /\ RouterTypeOK /\ Watch /\ OnRecord /\ AnsweredOnce
      /\ OneConnectionPerAgent /\ ServingHasStopped /\ OneDeliveryPerProvider
  BY DEF RouterInv, StoreInv, StatusInv, Watch
<1>d. ASSUME NEW r \in InFlight PROVE pending[r].recipient \in Session
  BY <1>i DEF RouterTypeOK, InFlight, Delivery
<1>1. CASE Quiet
  <2>1. InFlight' = InFlight /\ pending' = pending
    BY <1>1 DEF Quiet, InFlight
  <2>2. OneDeliveryPerProvider'
    BY <1>i, <2>1 DEF OneDeliveryPerProvider
  <2>3. ASSUME NEW a \in Attempt, StopPending(a)'
        PROVE  StopPending(a) /\ attempts'[a].agent = attempts[a].agent
    BY <1>1, <2>3 DEF Quiet, Kept
  <2>4. \A r \in InFlight : conn'[pending[r].recipient].agent = conn[pending[r].recipient].agent
    BY <1>1 DEF Quiet, StillThere, SameIdentity
  <2>5. ServingHasStopped'
    BY <1>i, <2>1, <2>3, <2>4 DEF ServingHasStopped
  <2> QED
    BY <2>2, <2>5
<1>2. ASSUME NEW c \in Session, NEW q \in Request, NEW p \in Session,
             NEW t \in Task \cup {None}, NEW delivered \in BOOLEAN, Asking(c, q, p, t, delivered)
      PROVE  OneDeliveryPerProvider' /\ ServingHasStopped'
  <2> DEFINE new == [requester |-> c, recipient |-> p, task |-> t, attempt |-> None]
  <2>1. pending' = [pending EXCEPT ![q] = IF delivered THEN new ELSE None] /\ attempts' = attempts
    BY <1>2 DEF Asking, storeVars
  <2>2. new.recipient = p
    OBVIOUS
  <2> HIDE DEF new
  <2>3. ASSUME NEW r \in InFlight'
        PROVE  (r \in InFlight /\ pending'[r] = pending[r]) \/ (r = q /\ pending'[r].recipient = p)
    BY <1>i, <2>1, <2>2, <2>3 DEF InFlight, RouterTypeOK
  <2>4. ~ Serving(p) /\ ~ AgentHasExecutionBarrier(attempts, conn[p].agent)
    BY <1>2 DEF Asking, Available, StatusInv, Exact
  <2>5. OneDeliveryPerProvider'
    BY <1>i, <2>3, <2>4 DEF OneDeliveryPerProvider, Serving
  <2>6. \A d \in Session : conn'[d].agent = conn[d].agent
    BY <1>2 DEF Asking, StillThere, SameIdentity
  <2>7. ServingHasStopped'
    <3> SUFFICES ASSUME NEW r \in InFlight', NEW a \in Attempt, StopPending(a)'
                 PROVE  attempts'[a].agent # conn'[pending'[r].recipient].agent
      BY DEF ServingHasStopped
    <3>1. StopPending(a) /\ Barrier(a)
      BY <2>1 DEF StopPending, StopUnknown, Barrier, IsBarrier
    <3>2. attempts[a].agent # conn[p].agent
      BY <2>4, <3>1 DEF AgentHasExecutionBarrier, Barrier
    <3>3. CASE r \in InFlight /\ pending'[r] = pending[r]
      BY <1>i, <1>d, <2>1, <2>6, <3>1, <3>3 DEF ServingHasStopped
    <3>4. CASE pending'[r].recipient = p
      BY <2>1, <2>6, <3>2, <3>4
    <3> QED
      BY <2>3, <3>3, <3>4
  <2> QED
    BY <2>5, <2>7
<1>3. ASSUME NEW q \in Request, NEW x \in Attempt, Begins(q, x)
      PROVE  OneDeliveryPerProvider' /\ ServingHasStopped'
  <2>1. /\ q \in InFlight /\ pending[q] \in Delivery
        /\ \A r \in Request \ {q} : pending'[r] = pending[r]
        /\ pending'[q] = [pending[q] EXCEPT !.attempt = x]
    BY <1>i, <1>3 DEF Begins, RouterTypeOK, InFlight
  <2>2. pending'[q] \in Delivery /\ pending'[q].recipient = pending[q].recipient
    BY <2>1 DEF Delivery
  <2>3. InFlight' = InFlight /\ \A r \in InFlight : pending'[r].recipient = pending[r].recipient
    BY <2>1, <2>2 DEF InFlight
  <2>4. OneDeliveryPerProvider'
    BY <1>i, <2>3 DEF OneDeliveryPerProvider
  <2>5. ASSUME NEW a \in Attempt, StopPending(a)'
        PROVE  StopPending(a) /\ attempts'[a] = attempts[a]
    BY <1>3, <2>5 DEF Begins, Running, StopPending, StopUnknown
  <2>6. conn' = conn
    BY <1>3 DEF Begins
  <2>7. ServingHasStopped'
    BY <1>i, <2>3, <2>5, <2>6 DEF ServingHasStopped
  <2> QED
    BY <2>4, <2>7
<1>4. ASSUME NEW R \in SUBSET InFlight, Withdraws(R)
      PROVE  OneDeliveryPerProvider' /\ ServingHasStopped'
  <2>1. InFlight' = InFlight \ R /\ \A r \in InFlight \ R : pending'[r] = pending[r]
    BY <1>i, <1>4 DEF Withdraws, InFlight
  <2>2. OneDeliveryPerProvider'
    BY <1>i, <2>1 DEF OneDeliveryPerProvider
  <2>3. ServingHasStopped'
    <3> SUFFICES ASSUME NEW r \in InFlight \ R, NEW a \in Attempt, StopPending(a)'
                 PROVE  attempts'[a].agent # conn'[pending[r].recipient].agent
      BY <2>1 DEF ServingHasStopped
    <3>1. /\ attempts'[a].agent = attempts[a].agent
          /\ conn'[pending[r].recipient].agent = conn[pending[r].recipient].agent
      BY <1>4 DEF Withdraws, Kept, StillThere, SameIdentity
    <3>2. CASE StopPending(a)
      BY <1>i, <3>1, <3>2 DEF ServingHasStopped
    <3>3. CASE Running(a) /\ attempts[a].request \in R
      <4> DEFINE w == attempts[a].request
      <4>1. /\ w \in InFlight /\ pending[w].recipient \in Session
            /\ attempts[a].agent = conn[pending[w].recipient].agent
            /\ conn[pending[w].recipient].role = "agent"
        BY <3>3, WatchedAgent
      <4>2. conn[pending[r].recipient].role = "agent" /\ pending[r].recipient \in Session
        BY <1>i, <1>d DEF Watch, Wired
      <4>3. pending[w].recipient # pending[r].recipient
        BY <1>i, <3>3, <4>1 DEF OneDeliveryPerProvider
      <4> QED
        BY <1>i, <3>1, <4>1, <4>2, <4>3 DEF OneConnectionPerAgent
    <3> QED
      BY <1>4, <3>2, <3>3 DEF Withdraws
  <2> QED
    BY <2>2, <2>3
<1> QED
  BY <1>1, <1>2, <1>3, <1>4, WatchShape

-----------------------------------------------------------------------------
(* What a step does to one connection *)

\* A connection stays whose it is, or ends, and its status is exact.
KeepsStatus(d) == /\ conn'[d].role = "agent" => SameIdentity(d)
                  /\ Exact(d)' /\ OwesAsMember(d)'

\* While an agent serves, its barrier may come and go: it is not ready anyway.
LEMMA UndisturbedStatus ==
    ASSUME NEW d \in Session, Exact(d), OwesAsMember(d), conn'[d] = conn[d],
           Serving(d)' <=> Serving(d),
           conn[d].role = "agent" => Serving(d) \/ (Blocked(d)' <=> Blocked(d))
    PROVE  KeepsStatus(d)
  BY DEF KeepsStatus, Exact, OwesAsMember, SameIdentity

LEMMA ClosedStatus ==
    ASSUME NEW d \in Session, conn'[d] = Closed PROVE KeepsStatus(d)
  BY DEF KeepsStatus, Exact, OwesAsMember, Closed

\* set_busy(false) is right for an agent that serves nothing.
LEMMA SettledStatus ==
    ASSUME RouterTypeOK, NEW d \in Session, OwesAsMember(d), ~ Serving(d)',
           conn[d].role = "agent",
           NEW blocked \in BOOLEAN, conn'[d] = SetBusy(conn[d], FALSE, blocked), blocked <=> Blocked(d)'
    PROVE  KeepsStatus(d)
<1>1. conn[d] \in ConnRow
  BY DEF RouterTypeOK
<1>2. /\ conn'[d].role = conn[d].role /\ conn'[d].agent = conn[d].agent
      /\ conn'[d].cred = conn[d].cred /\ conn'[d].joined = conn[d].joined
      /\ conn'[d].stored = conn[d].stored /\ conn'[d].canceling = conn[d].canceling
  BY <1>1 DEF SetBusy, ConnRow
<1>3. /\ conn'[d].busy <=> conn[d].canceling # None
      /\ conn'[d].ready <=> /\ conn[d].canceling = None /\ ~ blocked
                            /\ conn[d].stored /\ conn[d].joined
  BY <1>1 DEF SetBusy, ConnRow
<1> QED
  BY <1>2, <1>3 DEF KeepsStatus, Exact, OwesAsMember, SameIdentity

\* So is a cancellation for one whose delivery was withdrawn.
LEMMA CanceledStatus ==
    ASSUME RouterTypeOK, NEW d \in Session, NEW q \in Request, ~ Serving(d)',
           conn[d].role = "agent", conn[d].joined, conn'[d] = Canceled(conn[d], q)
    PROVE  KeepsStatus(d)
<1>1. conn[d] \in ConnRow
  BY DEF RouterTypeOK
<1>2. /\ conn'[d].role = conn[d].role /\ conn'[d].agent = conn[d].agent
      /\ conn'[d].cred = conn[d].cred /\ conn'[d].joined = conn[d].joined
      /\ conn'[d].busy = TRUE /\ conn'[d].ready = FALSE /\ conn'[d].canceling = q
  BY <1>1 DEF Canceled, ConnRow
<1>3. Exact(d)'
  BY <1>2, NoneAssumption DEF Exact
<1>4. OwesAsMember(d)' /\ SameIdentity(d)
  BY <1>2 DEF SameIdentity, OwesAsMember
<1> QED
  BY <1>3, <1>4 DEF KeepsStatus

\* Only the barrier of the agent whose attempt changes can change.
LEMMA OtherAgentsBarrier ==
    ASSUME NEW x \in Attempt, NEW g, \A a \in Attempt \ {x} : attempts'[a] = attempts[a],
           Barrier(x) => attempts[x].agent # g, Barrier(x)' => attempts'[x].agent # g
    PROVE  AgentHasExecutionBarrier(attempts', g) <=> AgentHasExecutionBarrier(attempts, g)
  BY DEF AgentHasExecutionBarrier, Barrier

\* An interruption keeps every barrier: it turns what runs into what may run.
LEMMA InterruptKeepsBarriers ==
    ASSUME TypeOK, NEW S, NEW why, InterruptRows(S, why), NEW g
    PROVE  AgentHasExecutionBarrier(attempts', g) <=> AgentHasExecutionBarrier(attempts, g)
<1>1. ASSUME NEW a \in Attempt
      PROVE  attempts'[a].agent = attempts[a].agent /\ (Barrier(a)' <=> Barrier(a))
  BY InterruptShape DEF Kept, Barrier, IsBarrier, Running, StopPending
<1> QED
  BY <1>1, SameBarrier

LEMMA WithdrawStatus ==
    ASSUME RouterInv, StatusInv, NEW R \in SUBSET InFlight, NEW gone, WithdrawRequests(R, gone),
           \A r \in InFlight : pending[r].recipient \in gone => r \in R,
           \A g : AgentHasExecutionBarrier(attempts', g) <=> AgentHasExecutionBarrier(attempts, g),
           NEW d \in Session
    PROVE  KeepsStatus(d)
<1> USE NoneAssumption
<1>i. RouterTypeOK /\ Wired /\ OneDeliveryPerProvider /\ Exact(d) /\ OwesAsMember(d)
  BY DEF RouterInv, Watch, StatusInv
<1> DEFINE mine == {r \in R : pending[r].recipient = d}
<1>1. InFlight' = InFlight \ R /\ \A r \in InFlight \ R : pending'[r] = pending[r]
  BY DEF WithdrawRequests, InFlight
<1>2. CASE d \in gone
  BY <1>2, ClosedStatus DEF WithdrawRequests
<1>3. CASE d \notin gone /\ mine = {}
  <2>1. conn'[d] = conn[d]
    BY <1>3 DEF WithdrawRequests
  <2>2. Serving(d)' <=> Serving(d)
    BY <1>1, <1>3 DEF Serving
  <2>3. Blocked(d)' <=> Blocked(d)
    BY <2>1 DEF Blocked
  <2> QED
    BY <1>i, <2>1, <2>2, <2>3, UndisturbedStatus
<1>4. CASE d \notin gone /\ mine # {}
  <2>1. PICK q \in R : pending[q].recipient = d /\ conn'[d] = Canceled(conn[d], q)
    BY <1>4 DEF WithdrawRequests
  <2>2. q \in Request /\ conn[d] \in ConnRow /\ conn[d].role = "agent" /\ conn[d].joined
    BY <1>i, <2>1 DEF InFlight, RouterTypeOK, Wired
  <2>3. ~ Serving(d)'
    BY <1>i, <1>1, <2>1 DEF Serving, OneDeliveryPerProvider
  <2> QED
    BY <1>i, <2>1, <2>2, <2>3, CanceledStatus
<1> QED
  BY <1>2, <1>3, <1>4

LEMMA StatusRows ==
    ASSUME RouterInv, StatusInv, [RouterNext]_vars, "confirm" \notin RetriedKinds
    PROVE  OneConnectionPerAgent' /\ \A d \in Session : Exact(d)' /\ OwesAsMember(d)'
<1> USE NoneAssumption
<1> DEFINE Good == OneConnectionPerAgent' /\ \A d \in Session : Exact(d)' /\ OwesAsMember(d)'
<1>i. /\ TypeOK /\ RouterTypeOK /\ Identified /\ AttemptTaskAgreement /\ OnRecord
      /\ Wired /\ RunningIsWatched
      /\ OneConnectionPerAgent /\ ServingHasStopped /\ OneDeliveryPerProvider
  BY DEF RouterInv, StoreInv, Watch, StatusInv
<1>x. ASSUME NEW d \in Session PROVE conn[d] \in ConnRow /\ Exact(d) /\ OwesAsMember(d)
  BY <1>i DEF RouterTypeOK, StatusInv
<1>d. ASSUME NEW r \in InFlight
      PROVE  /\ r \in Request /\ pending[r].recipient \in Session
             /\ conn[pending[r].recipient].role = "agent" /\ conn[pending[r].recipient].joined
  BY <1>i DEF RouterTypeOK, InFlight, Delivery, Wired
<1>m. \A c \in Members : c \in Session
  BY DEF Members
<1>k. ASSUME \A d \in Session : KeepsStatus(d) PROVE Good
  BY <1>i, <1>k DEF KeepsStatus, OneConnectionPerAgent, SameIdentity
<1>o. ASSUME NEW d \in Session, conn'[d] = conn[d], pending' = pending, attempts' = attempts
      PROVE  KeepsStatus(d)
  <2>1. (Serving(d)' <=> Serving(d)) /\ (Blocked(d)' <=> Blocked(d))
    BY <1>o DEF Serving, InFlight, Blocked
  <2> QED
    BY <1>o, <1>x, <2>1, UndisturbedStatus
<1>u. ASSUME NEW e \in Session, NEW row, conn' = [conn EXCEPT ![e] = row],
             UNCHANGED <<storeVars, pending, asked, answers>>, KeepsStatus(e)
      PROVE  Good
  <2>1. ASSUME NEW d \in Session PROVE KeepsStatus(d)
    <3>1. CASE d = e
      BY <1>u, <3>1
    <3>2. CASE d # e
      BY <1>u, <1>i, <1>o, <3>2 DEF RouterTypeOK, storeVars
    <3> QED
      BY <3>1, <3>2
  <2> QED
    BY <1>k, <2>1
<1> HIDE DEF Good
<1>1. ASSUME NEW c \in Session, NEW row, Fresh(c), conn' = [conn EXCEPT ![c] = row],
             row.busy = FALSE, row.ready = FALSE, row.stored = FALSE, row.canceling = None,
             UNCHANGED <<storeVars, pending, asked, answers>>,
             row.role = "agent" => Primaries(row.agent) = {}
      PROVE  Good
  <2>1. conn'[c] = row /\ \A d \in Session \ {c} : conn'[d] = conn[d]
    BY <1>1, <1>i DEF RouterTypeOK
  <2>2. ~ Serving(c)'
    BY <1>1, <1>d DEF Serving, InFlight, Fresh
  <2>3. Exact(c)' /\ OwesAsMember(c)'
    BY <1>1, <2>1, <2>2 DEF Exact, OwesAsMember
  <2>4. ASSUME NEW d \in Session PROVE Exact(d)' /\ OwesAsMember(d)'
    <3>1. CASE d = c
      BY <2>3, <3>1
    <3>2. CASE d # c
      BY <1>1, <1>o, <2>1, <3>2 DEF KeepsStatus, storeVars
    <3> QED
      BY <3>1, <3>2
  <2>5. OneConnectionPerAgent'
    BY <1>1, <1>i, <2>1 DEF OneConnectionPerAgent, Primaries, IsPrimary
  <2> QED
    BY <2>4, <2>5 DEF Good
<1>2. ASSUME NEW c \in Session, WorkspaceJoin(c) PROVE Good
  <2>1. PICK e \in Session : e = Effective(c)
    BY EffectiveSession
  <2> DEFINE now == conn[e].push /\ ~ AgentHasExecutionBarrier(attempts, conn[e].agent)
             row == [conn[e] EXCEPT !.joined = TRUE, !.stored = conn[e].push, !.ready = now]
  <2>2. /\ conn' = [conn EXCEPT ![e] = row] /\ ~ conn[e].joined
        /\ UNCHANGED <<storeVars, pending, asked, answers>>
    BY <1>2, <1>i, <2>1 DEF WorkspaceJoin, RouterTypeOK
  <2>3. now <=> conn[e].push /\ ~ Blocked(e)
    BY DEF Blocked
  <2> HIDE DEF now
  <2>4. /\ row.role = conn[e].role /\ row.agent = conn[e].agent /\ row.cred = conn[e].cred
        /\ row.joined = TRUE /\ row.stored = conn[e].push /\ row.ready = now
        /\ row.busy = conn[e].busy /\ row.canceling = conn[e].canceling
    BY <1>x DEF ConnRow
  <2> HIDE DEF row
  <2>5. conn'[e] = row
    BY <1>i, <2>2 DEF RouterTypeOK
  <2>6. ~ Serving(e) /\ conn[e].canceling = None
    BY <1>d, <1>x, <2>2 DEF Serving, OwesAsMember
  <2>7. ~ Serving(e)' /\ (Blocked(e)' <=> Blocked(e))
    BY <2>2, <2>4, <2>5, <2>6 DEF Serving, InFlight, Blocked, storeVars
  <2>8. conn[e].role = "agent" => ~ conn[e].busy
    BY <1>x, <2>6 DEF Exact
  <2>9. KeepsStatus(e)
    BY <2>3, <2>4, <2>5, <2>6, <2>7, <2>8 DEF KeepsStatus, Exact, OwesAsMember, SameIdentity
  <2> QED
    BY <1>u, <2>2, <2>9
<1>3. ASSUME NEW c \in Session, WorkspaceLeave(c) PROVE Good
  <2>1. PICK e \in Session : e = Effective(c)
    BY EffectiveSession
  <2> DEFINE row == [conn[e] EXCEPT !.joined = FALSE, !.stored = FALSE, !.ready = FALSE]
  <2>2. /\ conn' = [conn EXCEPT ![e] = row] /\ conn[e].canceling = None
        /\ UNCHANGED <<storeVars, pending, asked, answers>>
        /\ \A r \in InFlight : pending[r].recipient # e
    BY <1>3, <1>i, <2>1 DEF WorkspaceLeave, RouterTypeOK, ConnectionFamily
  <2>4. /\ row.role = conn[e].role /\ row.agent = conn[e].agent /\ row.cred = conn[e].cred
        /\ row.stored = FALSE /\ row.ready = FALSE
        /\ row.busy = conn[e].busy /\ row.canceling = conn[e].canceling
    BY <1>x DEF ConnRow
  <2> HIDE DEF row
  <2>5. conn'[e] = row
    BY <1>i, <2>2 DEF RouterTypeOK
  <2>6. ~ Serving(e) /\ ~ Serving(e)'
    BY <2>2 DEF Serving, InFlight
  <2>8. conn[e].role = "agent" => ~ conn[e].busy
    BY <1>x, <2>2, <2>6 DEF Exact
  <2>9. KeepsStatus(e)
    BY <2>2, <2>4, <2>5, <2>6, <2>8 DEF KeepsStatus, Exact, OwesAsMember, SameIdentity
  <2> QED
    BY <1>u, <2>2, <2>9
<1>4. ASSUME NEW c \in Session, NEW ready \in BOOLEAN, SetReadiness(c, ready) PROVE Good
  <2> DEFINE now == /\ ready /\ conn[c].canceling = None
                    /\ ~ AgentHasExecutionBarrier(attempts, conn[c].agent)
                    /\ ~ conn[c].busy /\ conn[c].joined
             row == [conn[c] EXCEPT !.stored = ready, !.ready = now]
  <2>1. /\ conn' = [conn EXCEPT ![c] = row] /\ UNCHANGED <<storeVars, pending, asked, answers>>
        /\ conn[c].role = "agent"
    BY <1>4, <1>i DEF SetReadiness, RouterTypeOK
  <2>2. now <=> /\ ready /\ conn[c].canceling = None /\ ~ Blocked(c) /\ ~ conn[c].busy
                /\ conn[c].joined
    BY DEF Blocked
  <2> HIDE DEF now
  <2>3. /\ row.role = conn[c].role /\ row.agent = conn[c].agent /\ row.cred = conn[c].cred
        /\ row.joined = conn[c].joined /\ row.stored = ready /\ row.ready = now
        /\ row.busy = conn[c].busy /\ row.canceling = conn[c].canceling
    BY <1>x DEF ConnRow
  <2> HIDE DEF row
  <2>4. conn'[c] = row
    BY <1>i, <2>1 DEF RouterTypeOK
  <2>5. (Serving(c)' <=> Serving(c)) /\ (Blocked(c)' <=> Blocked(c))
    BY <2>1, <2>3, <2>4 DEF Serving, InFlight, Blocked, storeVars
  <2>6. KeepsStatus(c)
    BY <1>x, <2>1, <2>2, <2>3, <2>4, <2>5 DEF KeepsStatus, Exact, OwesAsMember, SameIdentity
  <2> QED
    BY <1>u, <2>1, <2>6
<1>5. ASSUME NEW c \in Session, NEW r \in Request, NEW ready \in BOOLEAN, WorkIdle(c, r, ready)
      PROVE  Good
  <2> DEFINE now == ready /\ ~ AgentHasExecutionBarrier(attempts, conn[c].agent)
             row == [conn[c] EXCEPT !.canceling = None, !.stored = ready, !.busy = FALSE, !.ready = now]
  <2>1. /\ conn' = [conn EXCEPT ![c] = row] /\ UNCHANGED <<storeVars, pending, asked, answers>>
        /\ conn[c].role = "agent" /\ conn[c].joined /\ conn[c].canceling = r
    BY <1>5, <1>i DEF WorkIdle, RouterTypeOK
  <2>2. now <=> ready /\ ~ Blocked(c)
    BY DEF Blocked
  <2> HIDE DEF now
  <2>3. /\ row.role = conn[c].role /\ row.agent = conn[c].agent /\ row.cred = conn[c].cred
        /\ row.joined = conn[c].joined /\ row.stored = ready /\ row.ready = now
        /\ row.busy = FALSE /\ row.canceling = None
    BY <1>x DEF ConnRow
  <2> HIDE DEF row
  <2>4. conn'[c] = row
    BY <1>i, <2>1 DEF RouterTypeOK
  <2>5. ~ Serving(c)
    BY <1>x, <2>1 DEF Exact
  <2>6. ~ Serving(c)' /\ (Blocked(c)' <=> Blocked(c))
    BY <2>1, <2>3, <2>4, <2>5 DEF Serving, InFlight, Blocked, storeVars
  <2>7. KeepsStatus(c)
    BY <2>1, <2>2, <2>3, <2>4, <2>6 DEF KeepsStatus, Exact, OwesAsMember, SameIdentity
  <2> QED
    BY <1>u, <2>1, <2>7
<1>6. ASSUME NEW c \in Session, NEW r \in Request, NEW g, NEW t \in Task \cup {None},
             NEW delivered \in BOOLEAN, StartRequest(c, r, g, t, delivered)
      PROVE  Good
  <2> DEFINE new(p) == [requester |-> c, recipient |-> p, task |-> t, attempt |-> None]
  <2>1. PICK p \in Primaries(g) :
          /\ Available(p)
          /\ conn' = [conn EXCEPT ![p] =
                IF delivered THEN SetBusy(@, TRUE, FALSE) ELSE Canceled(@, r)]
          /\ pending' = [pending EXCEPT ![r] = IF delivered THEN new(p) ELSE None]
    BY <1>6 DEF StartRequest
  <2>2. new(p) # None /\ new(p).recipient = p
    BY <2>1, DeliveryAssumption DEF Primaries, Delivery
  <2> HIDE DEF new
  <2>3. /\ p \in Session /\ conn[p] \in ConnRow /\ conn[p].role = "agent" /\ conn[p].joined
        /\ conn[p].canceling = None /\ ~ conn[p].busy
    BY <1>x, <2>1 DEF Primaries, IsPrimary, Available
  <2>4. r \notin InFlight /\ attempts' = attempts
    BY <1>6, <1>i DEF StartRequest, RouterInv, Watch, AnsweredOnce, storeVars
  <2>5. ~ Serving(p)
    BY <1>x, <2>3 DEF Exact
  <2>6. ASSUME NEW d \in Session, d # p PROVE KeepsStatus(d)
    <3>1. conn'[d] = conn[d]
      BY <1>i, <2>1, <2>6 DEF RouterTypeOK
    <3>2. Serving(d)' <=> Serving(d)
      BY <1>i, <2>1, <2>2, <2>4, <2>6 DEF Serving, InFlight, RouterTypeOK
    <3>3. Blocked(d)' <=> Blocked(d)
      BY <2>4, <3>1 DEF Blocked
    <3> QED
      BY <1>x, <3>1, <3>2, <3>3, UndisturbedStatus
  <2>7. CASE delivered
    <3>1. conn'[p] = SetBusy(conn[p], TRUE, FALSE) /\ pending'[r] = new(p)
      BY <1>i, <2>1, <2>3, <2>7 DEF RouterTypeOK
    <3>2. /\ conn'[p].role = conn[p].role /\ conn'[p].agent = conn[p].agent
          /\ conn'[p].cred = conn[p].cred /\ conn'[p].canceling = conn[p].canceling
          /\ conn'[p].busy = TRUE /\ conn'[p].ready = FALSE
      BY <2>3, <3>1 DEF SetBusy, ConnRow
    <3>3. Serving(p)'
      BY <2>2, <3>1 DEF Serving, InFlight
    <3>4. KeepsStatus(p)
      BY <2>3, <3>2, <3>3 DEF KeepsStatus, Exact, OwesAsMember, SameIdentity
    <3> QED
      BY <1>k, <2>6, <3>4
  <2>8. CASE ~ delivered
    <3>1. conn'[p] = Canceled(conn[p], r) /\ pending'[r] = None
      BY <1>i, <2>1, <2>3, <2>8 DEF RouterTypeOK
    <3>2. ~ Serving(p)'
      BY <1>i, <2>1, <2>5, <2>8 DEF Serving, InFlight, RouterTypeOK
    <3>3. KeepsStatus(p)
      BY <1>i, <2>3, <3>1, <3>2, CanceledStatus
    <3> QED
      BY <1>k, <2>6, <3>3
  <2> QED
    BY <2>7, <2>8
<1>7. ASSUME NEW c \in Session, NEW r \in Request, NEW t \in Task, NEW v, NEW delivered \in BOOLEAN,
             TaskRequest(c, r, t, v, delivered)
      PROVE  Good
  <2>1. StartRequest(c, r, tasks[t].assigned, t, delivered)
    BY <1>7 DEF TaskRequest
  <2> QED
    BY <1>6, <2>1
<1>8. ASSUME NEW c \in Session, NEW r \in Request, FinishReply(c, r) PROVE Good
  <2>1. /\ r \in InFlight /\ pending[r].recipient = c /\ InterruptRows(AttemptsOf({r}), "other")
        /\ pending' = [pending EXCEPT ![r] = None]
    BY <1>8 DEF FinishReply, InterruptAttempts
  <2>2. PICK blocked \in BOOLEAN : blocked = AgentHasExecutionBarrier(attempts', conn[c].agent)
    BY BarrierIsBoolean
  <2>3. conn' = [conn EXCEPT ![c] = SetBusy(conn[c], FALSE, blocked)]
    BY <1>8, <1>i, <2>2 DEF FinishReply, RouterTypeOK
  <2>4. InFlight' = InFlight \ {r} /\ \A q \in InFlight \ {r} : pending'[q] = pending[q]
    BY <1>i, <2>1 DEF InFlight, RouterTypeOK
  <2>5. ~ Serving(c)'
    BY <1>i, <2>1, <2>4 DEF Serving, OneDeliveryPerProvider
  <2>6. conn'[c] = SetBusy(conn[c], FALSE, blocked) /\ conn[c].role = "agent" /\ conn[c].joined
    BY <1>i, <1>d, <2>1, <2>3 DEF RouterTypeOK
  <2>7. conn'[c].agent = conn[c].agent
    BY <1>x, <2>6 DEF SetBusy, ConnRow
  <2>8. blocked <=> Blocked(c)'
    BY <2>2, <2>7 DEF Blocked
  <2>9. KeepsStatus(c)
    BY <1>i, <1>x, <2>5, <2>6, <2>8, SettledStatus
  <2>10. ASSUME NEW d \in Session, d # c PROVE KeepsStatus(d)
    <3>1. conn'[d] = conn[d]
      BY <1>i, <2>3, <2>10 DEF RouterTypeOK
    <3>2. Serving(d)' <=> Serving(d)
      BY <2>1, <2>4, <2>10 DEF Serving
    <3>3. Blocked(d)' <=> Blocked(d)
      BY <1>i, <2>1, <3>1, InterruptKeepsBarriers DEF Blocked
    <3> QED
      BY <1>x, <3>1, <3>2, <3>3, UndisturbedStatus
  <2> QED
    BY <1>k, <2>9, <2>10
<1>a. ASSUME NEW d \in Session, conn'[d] = conn[d], pending' = pending,
             NEW x \in Attempt, \A a \in Attempt \ {x} : attempts'[a] = attempts[a],
             conn[d].role = "agent" =>
                \/ Serving(d)
                \/ /\ Barrier(x) => attempts[x].agent # conn[d].agent
                   /\ Barrier(x)' => attempts'[x].agent # conn[d].agent
      PROVE  KeepsStatus(d)
  <2>1. Serving(d)' <=> Serving(d)
    BY <1>a DEF Serving, InFlight
  <2>2. conn[d].role = "agent" => Serving(d) \/ (Blocked(d)' <=> Blocked(d))
    BY <1>a, OtherAgentsBarrier DEF Blocked
  <2> QED
    BY <1>a, <1>x, <2>1, <2>2, UndisturbedStatus
<1>9. ASSUME NEW c \in Session, NEW t \in Task, NEW a \in Attempt, NEW s \in Session,
             TaskExecutionStopped(c, t, a, s)
      PROVE  Good
  <2>1. /\ conn[c].role = "agent" /\ pending' = pending
        /\ RecordExecutionStopped(conn[c].cred, s, t, a)
    BY <1>9 DEF TaskExecutionStopped
  <2>2. /\ attempts[a].task = t
        /\ attempts[a].owner = [cred |-> conn[c].cred, session |-> s]
        /\ \A b \in Attempt \ {a} : attempts'[b] = attempts[b]
        /\ attempts'[a].agent = attempts[a].agent
    BY <1>i, <2>1 DEF RecordExecutionStopped, TypeOK, AttemptRow
  <2>3. attempts[a].agent = conn[c].agent
    <3>1. attempts[a].status # "absent"
      BY <1>i, <2>2 DEF OnRecord, AttemptsIdentified
    <3> QED
      BY <1>i, <2>1, <2>2, <3>1 DEF OnRecord, AttemptsIdentified, Identified
  <2>4. ASSUME NEW d \in Session, d # c, conn'[d] = conn[d] PROVE KeepsStatus(d)
    <3>1. conn[d].role = "agent" => conn[d].agent # conn[c].agent
      BY <1>i, <2>1, <2>4 DEF OneConnectionPerAgent
    <3> QED
      BY <1>a, <2>1, <2>2, <2>3, <2>4, <3>1
  <2>5. CASE Serving(c)
    <3>1. conn' = conn
      BY <1>9, <2>5 DEF TaskExecutionStopped, Serving
    <3>2. KeepsStatus(c)
      BY <1>a, <2>1, <2>2, <2>5, <3>1
    <3> QED
      BY <1>k, <2>4, <3>1, <3>2
  <2>6. CASE ~ Serving(c)
    <3>1. PICK blocked \in BOOLEAN : blocked = AgentHasExecutionBarrier(attempts', conn[c].agent)
      BY BarrierIsBoolean
    <3>2. conn' = [conn EXCEPT ![c] = SetBusy(conn[c], FALSE, blocked)]
      BY <1>9, <1>i, <2>6, <3>1 DEF TaskExecutionStopped, Serving, RouterTypeOK
    <3>3. /\ conn'[c] = SetBusy(conn[c], FALSE, blocked)
          /\ \A d \in Session \ {c} : conn'[d] = conn[d]
      BY <1>i, <3>2 DEF RouterTypeOK
    <3>4. conn'[c].agent = conn[c].agent
      BY <1>x, <3>3 DEF SetBusy, ConnRow
    <3>5. (blocked <=> Blocked(c)') /\ ~ Serving(c)'
      BY <2>1, <2>6, <3>1, <3>4 DEF Blocked, Serving, InFlight
    <3>6. KeepsStatus(c)
      BY <1>i, <1>x, <2>1, <3>3, <3>5, SettledStatus
    <3> QED
      BY <1>k, <2>4, <3>3, <3>6
  <2> QED
    BY <2>5, <2>6
<1>c. ASSUME UNCHANGED <<conn, pending, attempts>> PROVE Good
  BY <1>c, <1>k, <1>o
<1>11. ASSUME NEW c \in Session, NEW t \in Task, NEW v \in Version, EditTask(c, t, v) PROVE Good
  <2>1. ASSUME NEW g, ApplyAssign(t, v, g) PROVE attempts' = attempts
    BY <2>1 DEF ApplyAssign
  <2>2. ASSUME NEW next, ApplyTerminal(t, v, next) PROVE attempts' = attempts
    BY <2>2 DEF ApplyTerminal
  <2>3. attempts' = attempts
    BY <1>11, <2>1, <2>2 DEF EditTask, ApplyCreate, ApplyNote, ApplyEdit
  <2>4. UNCHANGED routerVars
    BY <1>11 DEF EditTask
  <2> QED
    BY <1>c, <2>3, <2>4 DEF routerVars
<1>s. ASSUME UNCHANGED conn, UNCHANGED InFlight, NEW x \in Attempt, NEW e \in Session,
             \A r \in InFlight : pending'[r].recipient = pending[r].recipient,
             \A a \in Attempt \ {x} : attempts'[a] = attempts[a],
             Serving(e), conn[e].role = "agent",
             Barrier(x) => attempts[x].agent = conn[e].agent,
             Barrier(x)' => attempts'[x].agent = conn[e].agent
      PROVE  Good
  <2>1. ASSUME NEW d \in Session PROVE KeepsStatus(d)
    <3>1. Serving(d)' <=> Serving(d)
      BY <1>s DEF Serving
    <3>2. CASE d = e
      BY <1>s, <1>x, <3>1, <3>2, UndisturbedStatus
    <3>3. CASE d # e
      <4>1. conn[d].role = "agent" => conn[d].agent # conn[e].agent
        BY <1>i, <1>s, <3>3 DEF OneConnectionPerAgent
      <4>2. conn[d].role = "agent" => (Blocked(d)' <=> Blocked(d))
        BY <1>s, <4>1, OtherAgentsBarrier DEF Blocked
      <4> QED
        BY <1>s, <1>x, <3>1, <4>2, UndisturbedStatus
    <3> QED
      BY <3>2, <3>3
  <2> QED
    BY <1>k, <2>1
<1>12. ASSUME NEW c \in Session, NEW t \in Task, NEW r \in InFlight, NEW v \in Version,
              NEW checkpoint \in Version \cup {0}, NEW a \in Attempt,
              BeginTask(c, t, r, v, checkpoint, a)
       PROVE  Good
  <2>1. PICK e \in Session : e = Effective(c)
    BY EffectiveSession
  <2>2. /\ IsExecutor(c) /\ pending[r].recipient = e /\ ApplyBegin(OwnerOf(c), t, r, v, checkpoint, a)
        /\ pending' = [pending EXCEPT ![r].attempt = a] /\ conn' = conn
    BY <1>12, <2>1 DEF BeginTask, MayBegin, Reserved
  <2>3. Subject[OwnerOf(c).cred] = conn[e].agent
    BY <1>i, <2>1, <2>2, ExecutorIsOwner
  <2>4. /\ attempts[a].status = "absent" /\ attempts'[a].agent = conn[e].agent
        /\ \A b \in Attempt \ {a} : attempts'[b] = attempts[b]
    BY <1>i, <2>2, <2>3 DEF ApplyBegin, TypeOK
  <2>5. ~ Barrier(a)
    BY <2>4 DEF Barrier, IsBarrier, StopUnknown
  <2>6. /\ pending[r] \in Delivery /\ \A q \in Request \ {r} : pending'[q] = pending[q]
        /\ pending'[r] = [pending[r] EXCEPT !.attempt = a]
    BY <1>i, <2>2 DEF RouterTypeOK, InFlight
  <2>7. pending'[r] \in Delivery /\ pending'[r].recipient = pending[r].recipient
    BY <2>6 DEF Delivery
  <2>8. InFlight' = InFlight /\ \A q \in InFlight : pending'[q].recipient = pending[q].recipient
    BY <2>6, <2>7, DeliveryAssumption DEF InFlight
  <2>9. Serving(e) /\ conn[e].role = "agent"
    BY <1>d, <2>2 DEF Serving
  <2> QED
    BY <1>s, <2>2, <2>4, <2>5, <2>8, <2>9
<1>13. ASSUME NEW c \in Session, NEW t \in Task, NEW v \in Version, NEW a \in Attempt,
              WorkOnTask(c, t, v, a)
       PROVE  Good
  <2>1. UNCHANGED routerVars
    BY <1>13 DEF WorkOnTask
  <2>2. CASE ApplyCheckpoint(OwnerOf(c), t, v, a)
    BY <1>c, <2>1, <2>2 DEF ApplyCheckpoint, routerVars
  <2>3. ASSUME NEW next, ApplyRelease(OwnerOf(c), t, v, a, next) PROVE Good
    <3>1. /\ Running(a) /\ attempts'[a].agent = attempts[a].agent
          /\ \A b \in Attempt \ {a} : attempts'[b] = attempts[b]
      BY <1>i, <2>3 DEF ApplyRelease, RequireAttemptOwner, Running, TypeOK, AttemptRow
    <3>2. PICK e \in Session : e = pending[attempts[a].request].recipient
      BY <3>1, WatchedAgent
    <3>3. /\ Serving(e) /\ attempts[a].agent = conn[e].agent /\ conn[e].role = "agent"
      BY <3>1, <3>2, WatchedAgent DEF Serving
    <3>4. InFlight' = InFlight /\ pending' = pending /\ conn' = conn
      BY <2>1 DEF InFlight, routerVars
    <3> QED
      BY <1>s, <3>1, <3>3, <3>4
  <2> QED
    BY <1>13, <2>2, <2>3 DEF WorkOnTask
<1>w. ASSUME NEW R \in SUBSET InFlight, NEW gone, WithdrawRequests(R, gone), NEW S, NEW why,
             InterruptRows(S, why), \A r \in InFlight : pending[r].recipient \in gone => r \in R
      PROVE  Good
  <2>1. \A g : AgentHasExecutionBarrier(attempts', g) <=> AgentHasExecutionBarrier(attempts, g)
    BY <1>i, <1>w, InterruptKeepsBarriers
  <2>2. \A d \in Session : KeepsStatus(d)
    BY <1>w, <2>1, WithdrawStatus
  <2> QED
    BY <1>k, <2>2
<1>14. ASSUME NEW c \in Session, NEW t \in Task, NEW v \in Version, InterruptTask(c, t, v)
       PROVE  Good
  <2> DEFINE R == PendingOnTask(t)
  <2>1. PICK x \in Attempt : x = tasks[t].current
    BY <1>14, <1>i DEF InterruptTask, ApplyInterrupt, TypeOK, TaskRow
  <2>2. /\ R \in SUBSET InFlight /\ WithdrawRequests(R, {})
        /\ attempts' = [attempts EXCEPT ![x] =
              IF @.status = "running" THEN Interrupted(@, "operator_interrupt") ELSE @]
    BY <1>14, <2>1 DEF InterruptTask, ApplyInterrupt, PendingOnTask
  <2>3. ASSUME NEW a \in Attempt
        PROVE  attempts'[a].agent = attempts[a].agent /\ (Barrier(a)' <=> Barrier(a))
    BY <1>i, <2>2 DEF Interrupted, TypeOK, AttemptRow, Barrier, IsBarrier, StopUnknown
  <2>4. \A g : AgentHasExecutionBarrier(attempts', g) <=> AgentHasExecutionBarrier(attempts, g)
    BY <2>3, SameBarrier
  <2>5. PICK gone : gone = {}
    OBVIOUS
  <2>6. WithdrawRequests(R, gone) /\ \A r \in InFlight : pending[r].recipient \notin gone
    BY <2>2, <2>5
  <2> HIDE DEF R
  <2>7. \A d \in Session : KeepsStatus(d)
    BY <2>2, <2>4, <2>6, WithdrawStatus
  <2> QED
    BY <1>k, <2>7
<1>15. ASSUME NEW c \in Session, NEW t \in Task, NEW v \in Version, NEW a \in Attempt,
              ConfirmStopped(c, t, v, a)
       PROVE  Good
  <2>1. /\ ApplyConfirmStopped(t, v, a) /\ conn' = Settled(attempts[a].agent, attempts')
        /\ pending' = pending
    BY <1>15 DEF ConfirmStopped
  <2>2. /\ StopPending(a) /\ attempts'[a].agent = attempts[a].agent
        /\ \A b \in Attempt \ {a} : attempts'[b] = attempts[b]
    BY <1>i, <2>1 DEF ApplyConfirmStopped, TypeOK, AttemptRow
  <2>3. PICK blocked \in BOOLEAN : blocked = AgentHasExecutionBarrier(attempts', attempts[a].agent)
    BY BarrierIsBoolean
  <2>4. ASSUME NEW d \in Session PROVE KeepsStatus(d)
    <3>1. CASE IsPrimary(d, attempts[a].agent)
      <4>1. conn'[d] = SetBusy(conn[d], FALSE, blocked) /\ conn[d].role = "agent"
            /\ conn[d].agent = attempts[a].agent
        BY <2>1, <2>3, <3>1 DEF Settled, IsPrimary
      <4>2. ~ Serving(d)
        BY <1>i, <2>2, <4>1 DEF ServingHasStopped, Serving
      <4>3. conn'[d].agent = conn[d].agent
        BY <1>x, <4>1 DEF SetBusy, ConnRow
      <4>4. ~ Serving(d)' /\ (blocked <=> Blocked(d)')
        BY <2>1, <2>3, <4>1, <4>2, <4>3 DEF Serving, InFlight, Blocked
      <4> QED
        BY <1>i, <1>x, <4>1, <4>4, SettledStatus
    <3>2. CASE ~ IsPrimary(d, attempts[a].agent)
      <4>1. conn'[d] = conn[d] /\ (conn[d].role = "agent" => conn[d].agent # attempts[a].agent)
        BY <2>1, <3>2 DEF Settled, IsPrimary
      <4> QED
        BY <1>a, <2>1, <2>2, <4>1
    <3> QED
      BY <3>1, <3>2
  <2> QED
    BY <1>k, <2>4
<1>16. ASSUME NEW c \in Session, NEW rc \in receipts, RetryBegin(c, rc) PROVE Good
  <2> DEFINE a == rc.attempt
             r == attempts[a].request
  <2>1. rc.kind = "begin" /\ Running(a)
    BY <1>16 DEF RetryBegin, ExactActiveOwnerAttempt, Running
  <2>2. a \in Attempt /\ attempts[a].task = rc.task /\ rc.task \in Task
    BY <1>i, <2>1 DEF OnRecord, BeginsOnRecord, TypeOK, Receipt
  <2>3. tasks[rc.task].current = a
    BY <1>i, <2>1, <2>2 DEF AttemptTaskAgreement, Running
  <2>4. r \in InFlight /\ pending[r].attempt = a
    BY <1>i, <2>1, <2>2, Watcher
  <2>5. pending' = [pending EXCEPT ![r].attempt = a] /\ UNCHANGED <<storeVars, conn, asked, answers>>
    BY <1>16, <2>3, <2>4 DEF RetryBegin
  <2>6. pending[r] \in Delivery /\ r \in Request
    BY <1>i, <2>4 DEF RouterTypeOK, InFlight
  <2>7. [pending[r] EXCEPT !.attempt = a] = pending[r]
    BY <2>4, <2>6 DEF Delivery
  <2>8. pending' = pending
    BY <1>i, <2>5, <2>6, <2>7 DEF RouterTypeOK
  <2> QED
    BY <1>c, <2>5, <2>8 DEF storeVars
<1>17. ASSUME NEW c, NEW rc, RetryConfirm(c, rc) PROVE Good
  BY <1>17 DEF RetryConfirm
<1>19. ASSUME NEW rc, NEW c, RetryInterrupt(c, rc) PROVE Good
  <2> DEFINE R == PendingOnTask(rc.task)
  <2>1. /\ R \in SUBSET InFlight /\ InterruptRows(AttemptsOf(R), "operator_interrupt")
        /\ WithdrawRequests(R, {})
    BY <1>19 DEF RetryInterrupt, FinishPendingError, InterruptAttempts, PendingOnTask
  <2> HIDE DEF R
  <2> QED
    BY <1>w, <2>1
<1>20. ASSUME NEW R \in SUBSET InFlight, ExpireDeadlines(R) PROVE Good
  BY <1>w, <1>20 DEF ExpireDeadlines, FinishPendingError, InterruptAttempts
<1>21. ASSUME Shutdown PROVE Good
  BY <1>w, <1>21 DEF Shutdown, InterruptAttempts
<1>22. ASSUME NEW c \in Session, DropConnection(c) PROVE Good
  <2> DEFINE family   == ConnectionFamily(c)
             affected == {r \in InFlight : \/ pending[r].requester \in family
                                           \/ pending[r].recipient \in family}
             S == SessionAttempts(c) \cup AttemptsOf(affected)
  <2>1. InterruptRows(S, "other") /\ WithdrawRequests(affected, family)
    BY <1>22 DEF DropConnection
  <2>2. /\ affected \in SUBSET InFlight
        /\ \A r \in InFlight : pending[r].recipient \in family => r \in affected
    OBVIOUS
  <2> HIDE DEF family, affected, S
  <2> QED
    BY <1>w, <2>1, <2>2
<1>23. ASSUME NEW k \in Credential, Revoke(k) PROVE Good
  <2> DEFINE users == {c \in Session : conn[c].role = "agent" /\ conn[c].cred = k}
  <2>1. CASE users = {}
    <3>1. UNCHANGED <<tasks, attempts, routerVars>>
      BY <1>23, <2>1 DEF Revoke
    <3> QED
      BY <1>c, <3>1 DEF routerVars
  <2>2. CASE users # {}
    <3>1. PICK c \in Session : DropConnection(c)
      BY <1>23, <2>2 DEF Revoke
    <3> QED
      BY <1>22, <3>1
  <2> QED
    BY <2>1, <2>2
<1>24. ASSUME Restart PROVE Good
  <2>1. \A d \in Session : conn'[d] = Closed
    BY <1>24 DEF Restart
  <2> QED
    BY <1>k, <2>1, ClosedStatus
<1> SUFFICES Good
  BY DEF Good
<1>25. CASE MembershipNext
  <2>1. ASSUME NEW c \in Session, NEW k, NEW push, RegisterAgent(c, k, push) PROVE Good
    <3> DEFINE row == [Closed EXCEPT !.role = "agent", !.agent = Subject[k], !.cred = k, !.push = push]
    <3>1. /\ Fresh(c) /\ conn' = [conn EXCEPT ![c] = row] /\ Primaries(Subject[k]) = {}
          /\ UNCHANGED <<storeVars, pending, asked, answers>>
      BY <2>1 DEF RegisterAgent
    <3>2. /\ row.busy = FALSE /\ row.ready = FALSE /\ row.stored = FALSE /\ row.canceling = None
          /\ row.agent = Subject[k]
      BY DEF Closed
    <3> HIDE DEF row
    <3> QED
      BY <1>1, <3>1, <3>2
  <2>2. ASSUME NEW c \in Session, NEW g, RegisterDelegate(c, g) PROVE Good
    <3> DEFINE row == [Closed EXCEPT !.role = "delegate", !.agent = g]
    <3>1. /\ Fresh(c) /\ conn' = [conn EXCEPT ![c] = row]
          /\ UNCHANGED <<storeVars, pending, asked, answers>>
      BY <2>2 DEF RegisterDelegate
    <3>2. /\ row.busy = FALSE /\ row.ready = FALSE /\ row.stored = FALSE /\ row.canceling = None
          /\ row.role # "agent"
      BY DEF Closed
    <3> HIDE DEF row
    <3> QED
      BY <1>1, <3>1, <3>2
  <2>3. ASSUME NEW c \in Session, RegisterOperator(c) PROVE Good
    <3> DEFINE row == [Closed EXCEPT !.role = "operator"]
    <3>1. /\ Fresh(c) /\ conn' = [conn EXCEPT ![c] = row]
          /\ UNCHANGED <<storeVars, pending, asked, answers>>
      BY <2>3 DEF RegisterOperator
    <3>2. /\ row.busy = FALSE /\ row.ready = FALSE /\ row.stored = FALSE /\ row.canceling = None
          /\ row.role # "agent"
      BY DEF Closed
    <3> HIDE DEF row
    <3> QED
      BY <1>1, <3>1, <3>2
  <2> QED
    BY <1>25, <2>1, <2>2, <2>3, <1>2, <1>3, <1>4 DEF MembershipNext
<1>26. CASE DeliveryNext
  <2>1. ASSUME NEW c \in Session, NEW r \in Request, NEW g, NEW delivered \in BOOLEAN,
               StartRequest(c, r, g, None, delivered)
        PROVE  Good
    BY <1>6, <2>1
  <2> QED
    BY <1>26, <1>m, <2>1, <1>5, <1>7, <1>8 DEF DeliveryNext
<1>27. CASE CommandNext
  BY <1>27, <1>m, <1>11, <1>12, <1>13, <1>14, <1>15 DEF CommandNext
<1>28. CASE StopNext
  BY <1>28, <1>m, <1>9 DEF StopNext
<1>29. CASE RetryNext
  BY <1>29, <1>m, <1>16, <1>17, <1>19 DEF RetryNext
<1>30. CASE FailureNext
  BY <1>30, <1>20, <1>21, <1>22, <1>23, <1>24 DEF FailureNext, Disconnect
<1>31. CASE UNCHANGED vars
  BY <1>31, <1>c DEF vars, storeVars, routerVars
<1> QED
  BY <1>25, <1>26, <1>27, <1>28, <1>29, <1>30, <1>31 DEF RouterNext

LEMMA StatusInvariant ==
    ASSUME "confirm" \notin RetriedKinds PROVE RouterSpec => [](RouterInv /\ StatusInv)
<1>1. RouterInit => StatusInv
  BY DEF RouterInit, StatusInv, OneConnectionPerAgent, ServingHasStopped, OneDeliveryPerProvider,
         Exact, OwesAsMember, Closed, InFlight
<1>2. RouterInv /\ StatusInv /\ [RouterNext]_vars => StatusInv'
  BY DeliveriesStep, StatusRows DEF StatusInv
<1>3. RouterSpec => []RouterInv
  BY RouterInvariant
<1> QED
  BY <1>1, <1>2, <1>3, PTL DEF RouterSpec

\* OneDeliveryPerProvider, checked by the run router_delivery: for all sets of connections
\* and requests, start_request never puts a second delivery in flight to a
\* provider, if no client retries a confirmation.
THEOREM DeliveriesAreExclusive ==
    ASSUME "confirm" \notin RetriedKinds PROVE RouterSpec => []OneDeliveryPerProvider
<1>1. StatusInv => OneDeliveryPerProvider
  BY DEF StatusInv
<1> QED
  BY <1>1, StatusInvariant, PTL

\* StatusIsExact, checked by the run router_delivery: what the connection table says of
\* an agent is what its deliveries, its owed cancellation and the task store say,
\* if no client retries a confirmation.
THEOREM CachedStatusIsExact ==
    ASSUME "confirm" \notin RetriedKinds PROVE RouterSpec => []StatusIsExact
<1>1. StatusInv => StatusIsExact
  BY DEF StatusInv, StatusIsExact, Exact, Serving, Blocked
<1> QED
  BY <1>1, StatusInvariant, PTL
=============================================================================
