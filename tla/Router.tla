-------------------------------- MODULE Router --------------------------------
(***************************************************************************)
(* The router actor, src/src/router.rs, on top of the task store: who is   *)
(* connected, which deliveries are in flight, who is ready, and how tasks, *)
(* attempts and deliveries follow one another through replies, timeouts,   *)
(* interruptions, disconnections, revocations and restarts.                *)
(*                                                                         *)
(* The actor is a single thread that runs one handler at a time, so every  *)
(* handler is one action.  Its clients are not ordered in any way: each    *)
(* handler is enabled whenever its own checks pass, which is how commands  *)
(* that were delayed, or sent on stale knowledge, are covered.  A refused  *)
(* message leaves the state alone and is no step.                          *)
(*                                                                         *)
(* One workspace.  A connection is named by its session: both are new with *)
(* every registration.  Deadlines are abstracted to "some set of pending   *)
(* requests is due".  Event texts and the fan-out to subscribers are left  *)
(* out; of the event log only request and result events are kept.          *)
(***************************************************************************)
EXTENDS TaskStore

CONSTANTS
    RetriedKinds,   \* kinds of applied commands whose receipt a client retries
    PushModes,      \* delivery modes agents register with: TRUE is push, FALSE pull
    ChatRequest,    \* request ids that messages without a task use; the others dispatch tasks
    MaxDelegates,   \* bound: delegates connected at a time
    MaxPending      \* PENDING_REQUEST_LIMIT

ASSUME RouterAssumption == /\ RetriedKinds \subseteq {"begin", "interrupt", "confirm"}
                           /\ PushModes \subseteq BOOLEAN
                           /\ ChatRequest \subseteq Request
                           /\ MaxDelegates \in Nat /\ MaxPending \in Nat

\* PendingRequest: who asked whom, the task dispatched with the request, and the
\* attempt that was begun under it.
Delivery == [requester : Session, recipient : Session,
             task : Task \cup {None}, attempt : Attempt \cup {None}]

ASSUME DeliveryAssumption == None \notin Delivery

VARIABLES
    conn,      \* connections by session
    pending,   \* requests in flight: requester, recipient, task, attempt
    asked,     \* requests with a durable request event
    answers    \* answers[r]: number of durable result events of request r

routerVars == <<conn, pending, asked, answers>>
vars == <<storeVars, routerVars>>

\* A session without a connection, and the fields of one that has one.
Closed == [role      |-> "closed",   \* or "agent", "delegate", "operator"
           agent     |-> None,       \* own id, or the owner of a delegate
           cred      |-> None,
           push      |-> FALSE,      \* delivery_mode
           joined    |-> FALSE,      \* workspace.is_some()
           busy      |-> FALSE,      \* status
           ready     |-> FALSE,
           stored    |-> FALSE,      \* stored_ready
           canceling |-> None]       \* the withdrawn request not yet acknowledged

-----------------------------------------------------------------------------
InFlight == {r \in Request : pending[r] # None}

IsPrimary(c, g) == conn[c].role = "agent" /\ conn[c].agent = g

Primaries(g) == {c \in Session : IsPrimary(c, g)}

\* A delegate acts through the connection of its owner.
Effective(c) ==
    IF conn[c].role = "delegate" /\ Primaries(conn[c].agent) # {}
    THEN CHOOSE p \in Session : IsPrimary(p, conn[c].agent) ELSE c

ConnectionFamily(c) ==
    {c} \cup {d \in Session : /\ conn[c].role = "agent"
                              /\ conn[d].role = "delegate" /\ conn[d].agent = conn[c].agent}

InWorkspace(c) == conn[c].role # "closed" /\ conn[Effective(c)].joined

PendingOnTask(t) == {r \in InFlight : pending[r].task = t}

\* MUTANT of SetBusy: an unacknowledged cancellation no longer counts as busy.
MutSetBusyIgnoresCanceling(row, busy, blocked) ==
    IF row.role # "agent" THEN row
    ELSE [row EXCEPT !.busy = busy, !.ready = ~ busy /\ ~ blocked /\ row.stored /\ row.joined]

\* set_busy on a connection row, given whether the agent has a barrier.
SetBusy(row, busy, blocked) ==
    LET effective == busy \/ row.canceling # None IN
    IF row.role # "agent" THEN row
    ELSE [row EXCEPT !.busy = effective,
                     !.ready = ~ effective /\ ~ blocked /\ row.stored /\ row.joined]

\* The row of a recipient whose delivery r was withdrawn by the router.
Canceled(row, r) ==
    IF row.role # "agent" THEN row
    ELSE [row EXCEPT !.busy = TRUE, !.ready = FALSE, !.stored = FALSE, !.canceling = r]

AppendResults(R) == answers' = [r \in Request |-> IF r \in R THEN answers[r] + 1 ELSE answers[r]]

\* finish_pending_error for the requests R while the connections in gone are
\* removed: everything but the interruption of the attempts.
WithdrawRequests(R, gone) ==
    /\ pending' = [r \in Request |-> IF r \in R THEN None ELSE pending[r]]
    /\ AppendResults(R)
    /\ conn' = [c \in Session |->
            LET mine == {r \in R : pending[r].recipient = c} IN
            IF c \in gone THEN Closed
            ELSE IF mine # {} THEN Canceled(conn[c], CHOOSE r \in mine : TRUE)
            ELSE conn[c]]
    /\ UNCHANGED asked

\* MUTANT of AttemptsOf: the attempt made under a request is not interrupted with it.
MutNoAttempts(R) == {}

AttemptsOf(R) == {pending[r].attempt : r \in R} \ {None}

FinishPendingError(R, why) ==
    /\ InterruptAttempts(AttemptsOf(R), why)
    /\ WithdrawRequests(R, {})

-----------------------------------------------------------------------------
(* Registration and membership *)

\* A closed session that no attempt mentions cannot be told from a new one.
Fresh(c) == conn[c].role = "closed" /\ \A a \in Attempt :
                attempts[a].status # "absent" => attempts[a].owner.session # c

RegisterAgent(c, k, push) ==
    /\ Fresh(c)
    /\ k \notin revoked
    /\ Primaries(Subject[k]) = {}
    /\ conn' = [conn EXCEPT ![c] = [Closed EXCEPT
            !.role = "agent", !.agent = Subject[k], !.cred = k, !.push = push]]
    /\ UNCHANGED <<storeVars, pending, asked, answers>>

RegisterDelegate(c, g) ==
    /\ Fresh(c)
    /\ Cardinality({d \in Session : conn[d].role = "delegate"}) < MaxDelegates
    /\ Primaries(g) # {}
    /\ conn' = [conn EXCEPT ![c] = [Closed EXCEPT !.role = "delegate", !.agent = g]]
    /\ UNCHANGED <<storeVars, pending, asked, answers>>

RegisterOperator(c) ==
    /\ Fresh(c)
    /\ conn' = [conn EXCEPT ![c] = [Closed EXCEPT !.role = "operator"]]
    /\ UNCHANGED <<storeVars, pending, asked, answers>>

WorkspaceJoin(c) ==
    LET e == Effective(c) IN
    /\ conn[c].role # "closed"
    /\ ~ conn[e].joined
    /\ conn' = [conn EXCEPT
            ![e].joined = TRUE,
            ![e].stored = conn[e].push,
            ![e].ready = conn[e].push /\ ~ AgentHasExecutionBarrier(attempts, conn[e].agent)]
    /\ UNCHANGED <<storeVars, pending, asked, answers>>

WorkspaceLeave(c) ==
    LET e == Effective(c) IN
    /\ conn[c].role # "closed"
    /\ conn[e].joined
    /\ conn[e].canceling = None
    /\ ~ \E r \in InFlight : pending[r].requester \in ConnectionFamily(e)
                             \/ pending[r].recipient \in ConnectionFamily(e)
    /\ conn[e].role = "agent" => ~ AgentHasExecutionBarrier(attempts, conn[e].agent)
    /\ conn' = [conn EXCEPT ![e].joined = FALSE, ![e].stored = FALSE, ![e].ready = FALSE]
    /\ UNCHANGED <<storeVars, pending, asked, answers>>

SetReadiness(c, ready) ==
    /\ conn[c].role = "agent" /\ ~ conn[c].push
    /\ conn' = [conn EXCEPT
            ![c].stored = ready,
            ![c].ready = /\ ready /\ conn[c].canceling = None
                         /\ ~ AgentHasExecutionBarrier(attempts, conn[c].agent)
                         /\ ~ conn[c].busy /\ conn[c].joined]
    /\ UNCHANGED <<storeVars, pending, asked, answers>>

-----------------------------------------------------------------------------
(* Deliveries *)

\* MUTANT of Available: being a member of the workspace is enough.
MutAvailableIfJoined(p) == conn[p].joined

\* The recipient checks of start_request.
Available(p) == /\ conn[p].joined
                /\ conn[p].canceling = None /\ ~ conn[p].busy
                /\ ~ AgentHasExecutionBarrier(attempts, conn[p].agent)
                /\ conn[p].ready

\* start_request from c to agent g; t is the task dispatched with it, or None.
\* delivered is FALSE when the recipient's outbound queue refuses the message:
\* the request is then answered at once, and the recipient is told to cancel.
StartRequest(c, r, g, t, delivered) ==
    /\ InWorkspace(c)
    /\ conn[Effective(c)].canceling = None
    /\ conn[Effective(c)].role = "agent" => ~ AgentStopPending(conn[Effective(c)].agent)
    /\ Cardinality(InFlight) < MaxPending
    /\ r \notin asked
    /\ \E p \in Primaries(g) :
          /\ Available(p)
          /\ conn' = [conn EXCEPT ![p] =
                IF delivered THEN SetBusy(@, TRUE, FALSE) ELSE Canceled(@, r)]
          /\ pending' = [pending EXCEPT ![r] =
                IF delivered
                THEN [requester |-> c, recipient |-> p, task |-> t, attempt |-> None]
                ELSE None]
    /\ asked' = asked \cup {r}
    /\ AppendResults(IF delivered THEN {} ELSE {r})
    /\ UNCHANGED storeVars

\* MUTANT of TaskRequest: the stop evidence of the last attempt is not asked for.
MutRequestWithoutStopEvidence(c, r, t, v, delivered) ==
    /\ CheckVersion(t, v)
    /\ ~ IsTerminal(tasks[t].state)
    /\ tasks[t].current = None
    /\ tasks[t].assigned # None
    /\ ~ AgentHasExecutionBarrier(attempts, tasks[t].assigned)
    /\ PendingOnTask(t) = {}
    /\ StartRequest(c, r, tasks[t].assigned, t, delivered)

TaskRequest(c, r, t, v, delivered) ==
    /\ CheckVersion(t, v)
    /\ ~ IsTerminal(tasks[t].state)
    /\ tasks[t].current = None
    /\ tasks[t].last # None => attempts[tasks[t].last].evidence # "unknown"
    /\ tasks[t].assigned # None
    /\ ~ AgentHasExecutionBarrier(attempts, tasks[t].assigned)
    /\ PendingOnTask(t) = {}
    /\ StartRequest(c, r, tasks[t].assigned, t, delivered)

\* finish_reply: the answer of the recipient ends the delivery, and interrupts
\* the attempt made under it if the agent did not release it first.
FinishReply(c, r) ==
    /\ InWorkspace(c)
    /\ r \in InFlight
    /\ pending[r].recipient = c
    /\ InterruptAttempts(AttemptsOf({r}), "other")
    /\ pending' = [pending EXCEPT ![r] = None]
    /\ AppendResults({r})
    /\ conn' = [conn EXCEPT ![c] =
            SetBusy(@, FALSE, AgentHasExecutionBarrier(attempts', @.agent))]
    /\ UNCHANGED asked

\* The host reports that the withdrawn work no longer occupies it.
WorkIdle(c, r, ready) ==
    /\ conn[c].role = "agent" /\ conn[c].joined
    /\ conn[c].canceling = r
    /\ conn' = [conn EXCEPT
            ![c].canceling = None, ![c].stored = ready, ![c].busy = FALSE,
            ![c].ready = ready /\ ~ AgentHasExecutionBarrier(attempts, conn[c].agent)]
    /\ UNCHANGED <<storeVars, pending, asked, answers>>

\* The host reports that an execution, perhaps of an earlier session, has ended.
TaskExecutionStopped(c, t, a, session) ==
    /\ conn[c].role = "agent" /\ conn[c].joined
    /\ RecordExecutionStopped(conn[c].cred, session, t, a)
    /\ conn' = IF \E r \in InFlight : pending[r].recipient = c THEN conn
               ELSE [conn EXCEPT ![c] =
                        SetBusy(@, FALSE, AgentHasExecutionBarrier(attempts', @.agent))]
    /\ UNCHANGED <<pending, asked, answers>>

\* MUTANT of ExpireDeadlines: the sweep spares requests whose task has begun.
MutExpireOnlyUnbegun(R) ==
    /\ R # {} /\ R \subseteq {r \in InFlight : pending[r].attempt = None}
    /\ FinishPendingError(R, "other")

\* Some deadlines have passed.
ExpireDeadlines(R) ==
    /\ R # {} /\ R \subseteq InFlight
    /\ FinishPendingError(R, "other")

-----------------------------------------------------------------------------
(* Task commands: task_mutate *)

\* Create, Edit, Assign, Cancel, Reopen and Note.  All but Create and Note are
\* refused while a request for the task is in flight.
EditTask(c, t, v) ==
    /\ InWorkspace(c)
    /\ \/ ApplyCreate(t)
       \/ ApplyNote(t)
       \/ /\ PendingOnTask(t) = {}
          /\ \/ ApplyEdit(t, v)
             \/ \E g \in Agent \cup {None} : ApplyAssign(t, v, g)
             \/ \E next \in {"cancelled", "todo"} : ApplyTerminal(t, v, next)
    /\ UNCHANGED routerVars

\* caller_context: a delegate executes as its owner.
OwnerOf(c) == [cred |-> conn[Effective(c)].cred, session |-> Effective(c)]

IsExecutor(c) == conn[Effective(c)].role = "agent" /\ InWorkspace(c)

MayBegin(c) ==
    /\ IsExecutor(c)
    /\ conn[Effective(c)].canceling = None
    /\ ~ AgentStopPending(conn[Effective(c)].agent)

Reserved(c, t, r) ==
    r \in InFlight /\ pending[r].recipient = Effective(c) /\ pending[r].task = t

BeginTask(c, t, r, v, checkpoint, a) ==
    /\ MayBegin(c)
    /\ Reserved(c, t, r)
    /\ ApplyBegin(OwnerOf(c), t, r, v, checkpoint, a)
    /\ pending' = [pending EXCEPT ![r].attempt = a]
    /\ UNCHANGED <<conn, asked, answers>>

\* Checkpoint, Pause and Complete.
WorkOnTask(c, t, v, a) ==
    /\ IsExecutor(c)
    /\ \/ ApplyCheckpoint(OwnerOf(c), t, v, a)
       \/ \E next \in {"paused", "blocked", "done"} : ApplyRelease(OwnerOf(c), t, v, a, next)
    /\ UNCHANGED routerVars

IsOperator(c) == conn[c].role = "operator" /\ conn[c].joined

\* The request found on the task before the command was applied is withdrawn.
\* Its attempt is the one the command interrupted, or has ended before.
InterruptTask(c, t, v) ==
    /\ IsOperator(c)
    /\ ApplyInterrupt(t, v)
    /\ WithdrawRequests(PendingOnTask(t), {})

\* ConfirmStopped ends with set_busy(false) on the agent's connection.
Settled(g, rows) == [c \in Session |->
    IF IsPrimary(c, g) THEN SetBusy(conn[c], FALSE, AgentHasExecutionBarrier(rows, g)) ELSE conn[c]]

ConfirmStopped(c, t, v, a) ==
    /\ IsOperator(c)
    /\ PendingOnTask(t) = {}
    /\ ApplyConfirmStopped(t, v, a)
    /\ conn' = Settled(attempts[a].agent, attempts')
    /\ UNCHANGED <<pending, asked, answers>>

\* A client that did not see the answer sends the same command again; the store
\* answers from the receipt, and task_mutate goes on as after the first time.
RetryBegin(c, rc) ==
    LET r == attempts[rc.attempt].request IN
    /\ "begin" \in RetriedKinds /\ rc \in receipts /\ rc.kind = "begin"
    /\ MayBegin(c)
    /\ ExactActiveOwnerAttempt(OwnerOf(c), rc.attempt)
    /\ pending' = IF r \in InFlight
                  THEN [pending EXCEPT ![r].attempt = tasks[rc.task].current] ELSE pending
    /\ UNCHANGED <<storeVars, conn, asked, answers>>

RetryInterrupt(c, rc) ==
    /\ "interrupt" \in RetriedKinds /\ rc \in receipts /\ rc.kind = "interrupt"
    /\ IsOperator(c)
    /\ FinishPendingError(PendingOnTask(rc.task), "operator_interrupt")

\* MUTANT of RetryConfirm: the receipt is not consulted and the row is written again.
MutRetryConfirmApplies(c, rc) ==
    /\ "confirm" \in RetriedKinds /\ rc \in receipts /\ rc.kind = "confirm"
    /\ IsOperator(c)
    /\ tasks[rc.task].version <= MaxVersion + 2
    /\ tasks' = [tasks EXCEPT ![rc.task].version = @ + 1]
    /\ conn' = Settled(attempts[rc.attempt].agent, attempts)
    /\ UNCHANGED <<attempts, receipts, revoked, pending, asked, answers>>

RetryConfirm(c, rc) ==
    /\ "confirm" \in RetriedKinds /\ rc \in receipts /\ rc.kind = "confirm"
    /\ IsOperator(c)
    /\ PendingOnTask(rc.task) = {}
    /\ conn' = Settled(attempts[rc.attempt].agent, attempts)
    /\ UNCHANGED <<storeVars, pending, asked, answers>>

-----------------------------------------------------------------------------
(* Connections that end, and the process that ends *)

\* The running attempts of the session of c, whoever waits for them.
SessionAttempts(c) ==
    {a \in Attempt : /\ conn[c].role = "agent"
                     /\ attempts[a].status = "running"
                     /\ attempts[a].owner = [cred |-> conn[c].cred, session |-> c]}

\* disconnect_with_reason: interrupts, closes the family, then ends every
\* request one of its connections had sent or was to answer.
DropConnection(c) ==
    LET family   == ConnectionFamily(c)
        affected == {r \in InFlight : \/ pending[r].requester \in family
                                      \/ pending[r].recipient \in family}
    IN  /\ InterruptRows(SessionAttempts(c) \cup AttemptsOf(affected), "other")
        /\ WithdrawRequests(affected, family)

Disconnect(c) ==
    /\ conn[c].role # "closed"
    /\ DropConnection(c)
    /\ UNCHANGED <<receipts, revoked>>

\* Revocation of an agent credential drops the connection that uses it.
Revoke(k) ==
    /\ k \notin revoked
    /\ revoked' = revoked \cup {k}
    /\ UNCHANGED receipts
    /\ LET users == {c \in Session : conn[c].role = "agent" /\ conn[c].cred = k} IN
       IF users = {} THEN UNCHANGED <<tasks, attempts, routerVars>>
       ELSE DropConnection(CHOOSE c \in users : TRUE)

\* A stop on request ends every pending request before it closes the connections.
Shutdown ==
    /\ \E c \in Session : conn[c].role # "closed"
    /\ InterruptAttempts(AttemptsOf(InFlight), "other")
    /\ WithdrawRequests(InFlight, Session)

\* MUTANT of Restart: requests that have a result are recovered like the others.
MutRestartAnswersAll ==
    /\ \E c \in Session : conn[c].role # "closed"
    /\ RecoverRunningAttempts
    /\ conn' = [c \in Session |-> Closed]
    /\ pending' = [r \in Request |-> None]
    /\ AppendResults(asked)
    /\ UNCHANGED asked

\* The process dies between two transactions and the store is opened again.
Restart ==
    LET unfinished == {r \in asked : answers[r] = 0} IN
    /\ \E c \in Session : conn[c].role # "closed"
    /\ RecoverRunningAttempts
    /\ conn' = [c \in Session |-> Closed]
    /\ pending' = [r \in Request |-> None]
    /\ AppendResults(unfinished)
    /\ UNCHANGED asked

-----------------------------------------------------------------------------
RouterInit ==
    /\ Init
    /\ conn = [c \in Session |-> Closed]
    /\ pending = [r \in Request |-> None]
    /\ asked = {}
    /\ answers = [r \in Request |-> 0]

MembershipNext == \E c \in Session :
    \/ \E k \in Credential, push \in PushModes : RegisterAgent(c, k, push)
    \/ \E g \in Agent : RegisterDelegate(c, g)
    \/ RegisterOperator(c)
    \/ WorkspaceJoin(c)
    \/ WorkspaceLeave(c)
    \/ \E ready \in BOOLEAN : SetReadiness(c, ready)

\* Connections that the workspace check lets through.
Members == {c \in Session : InWorkspace(c)}

DeliveryNext == \E c \in Members, r \in Request :
    \/ \E g \in Agent, delivered \in BOOLEAN :
            r \in ChatRequest /\ StartRequest(c, r, g, None, delivered)
    \/ \E t \in Task, v \in Version, delivered \in BOOLEAN :
            r \notin ChatRequest /\ TaskRequest(c, r, t, v, delivered)
    \/ FinishReply(c, r)
    \/ \E ready \in BOOLEAN : WorkIdle(c, r, ready)

CommandNext == \E c \in Members, t \in Task, v \in Version :
    \/ EditTask(c, t, v)
    \/ \E r \in InFlight, checkpoint \in Version \cup {0}, a \in Attempt :
            BeginTask(c, t, r, v, checkpoint, a)
    \/ \E a \in Attempt : WorkOnTask(c, t, v, a)
    \/ InterruptTask(c, t, v)
    \/ \E a \in Attempt : ConfirmStopped(c, t, v, a)

StopNext == \E c \in Members, session \in Session, t \in Task, a \in Attempt :
    TaskExecutionStopped(c, t, a, session)

RetryNext == \E c \in Members, rc \in receipts :
    \/ RetryBegin(c, rc)
    \/ RetryInterrupt(c, rc)
    \/ RetryConfirm(c, rc)

FailureNext ==
    \/ \E R \in SUBSET InFlight : ExpireDeadlines(R)
    \/ \E c \in Session : Disconnect(c)
    \/ \E k \in Credential : Revoke(k)
    \/ Shutdown
    \/ Restart

RouterNext == \/ MembershipNext \/ DeliveryNext \/ CommandNext
              \/ StopNext \/ RetryNext \/ FailureNext

RouterSpec == RouterInit /\ [][RouterNext]_vars

\* The sweep in which request r is overdue.
Overdue(r) == \E R \in SUBSET InFlight : r \in R /\ ExpireDeadlines(R)

\* Every deadline is finite and the actor sweeps whenever one has passed, before
\* it takes the next message.  Nothing is assumed of clients and hosts.
FairRouterSpec == RouterSpec /\ \A r \in Request : WF_vars(Overdue(r))

-----------------------------------------------------------------------------
(***************************************************************************)
(* Properties                                                              *)
(***************************************************************************)

\* A provider has at most one delivery in flight.
OneDeliveryPerProvider ==
    \A r1, r2 \in InFlight : pending[r1].recipient = pending[r2].recipient => r1 = r2

\* What the actor caches of an agent is right.  It shows Busy exactly while a
\* delivery to it is in flight or the withdrawal of one is not yet acknowledged,
\* and not both.  It is ready exactly when its host last said so, it is a member,
\* it is idle and no execution barrier holds it back, although the barrier is a
\* fact of the store that other handlers change.
StatusIsExact ==
    \A c \in Session : conn[c].role = "agent" =>
        LET serving == \E r \in InFlight : pending[r].recipient = c IN
        /\ conn[c].busy <=> (serving \/ conn[c].canceling # None)
        /\ ~ (serving /\ conn[c].canceling # None)
        /\ conn[c].ready <=> /\ conn[c].stored /\ conn[c].joined /\ ~ conn[c].busy
                             /\ ~ AgentHasExecutionBarrier(attempts, conn[c].agent)

\* Nothing runs unwatched: a running attempt belongs to a request in flight that
\* was delivered to the very session that owns it, so that its reply, timeout or
\* disconnection ends the attempt too.
RunningIsWatched ==
    \A a \in Attempt : attempts[a].status = "running" =>
        \E r \in InFlight : /\ pending[r].attempt = a
                            /\ pending[r].task = attempts[a].task
                            /\ pending[r].recipient = attempts[a].owner.session
                            /\ attempts[a].request = r
                            /\ OwnerOf(attempts[a].owner.session) = attempts[a].owner

\* The stop of an interrupted attempt can always be recorded: its task still
\* points to it as the last one and to no current one, so that the UPDATE of
\* record_execution_stopped changes one row and does not fail with InvalidData.
StopIsRecordable ==
    \A a \in Attempt : StopPending(a) =>
        LET t == attempts[a].task IN
        tasks[t].current = None /\ tasks[t].last = a /\ ~ IsTerminal(tasks[t].state)

\* Every durable request has exactly one durable result once it is not in flight,
\* and none before, through replies, errors, shutdown and recovery.
AnsweredOnce ==
    /\ InFlight \subseteq asked
    /\ \A r \in Request : answers[r] = IF r \in asked \ InFlight THEN 1 ELSE 0

TaskLease == INSTANCE ExecutionLease WITH
    Resource <- Task, phase <- LeasePhase, holds <- [a \in Attempt |-> attempts[a].task]

\* The router implements the exclusive lease of a task.
ImplementsTaskLease == TaskLease!Spec

\* Whoever asks is answered in the end, whatever hosts and clients do.
AnsweredEventually == \A r \in Request : r \in asked ~> answers[r] = 1

\* No agent holds a task for ever: every execution that began ends, by release,
\* reply, stop report, or else by the deadline of the request it runs under.
ExecutionEnds == \A a \in Attempt :
    attempts[a].status = "running" ~> attempts[a].status # "running"

\* The router drives the store only through transactions of the store.
ImplementsStore == Spec

=============================================================================
