-------------------------------- MODULE Host --------------------------------
(* A managed host: the loop of src/src/hosts.rs, the fences of                *)
(* src/src/providers/router.rs and inbox.rs, and the provider actors of       *)
(* codex.rs and claude.rs with the child process each of them owns.           *)
(*                                                                            *)
(* The host loop, the task that handles the one delivery in progress, the     *)
(* provider actor and the child run concurrently; cancellations, timeouts,    *)
(* the end of the turn and a lost connection meet them in any order.  What    *)
(* the router does is the part of Router that one agent sees.                 *)
EXTENDS Naturals, Sequences, FiniteSets

CONSTANTS
    MaxReq,            \* bound: deliveries
    MaxSession,        \* bound: connections of the host
    Provider,          \* providers considered, a subset of {"codex", "claude"}
    BeginOutsideTurn,  \* the executor may begin an attempt before its turn starts
    Interactive        \* turns typed at the host's own terminal (run_interactive_loop)

ASSUME HostAssumption ==
    /\ MaxReq \in Nat \ {0} /\ MaxSession \in Nat \ {0}
    /\ Provider \subseteq {"codex", "claude"} /\ Provider # {}
    /\ BeginOutsideTurn \in BOOLEAN /\ Interactive \in BOOLEAN

VARIABLES
    kind,       \* the provider of this host
    up,         \* the connection is registered
    session,    \* its session
    open,       \* the router's pending delivery to this host, or 0
    asked,      \* requests delivered, with the session each was delivered in
    isTask,     \* requests that dispatch a task
    attempt,    \* the attempt begun under a request
    canceling,  \* ConnectionState.canceling
    stored,     \* ConnectionState.stored_ready
    events,     \* ClientEvents on their way to the host loop
    host,       \* the host loop
    turn,       \* ActiveTurn of the host loop
    local,      \* a turn of the terminal is in progress
    h,          \* the task running RouterManagedProvider::handle
    inbox,      \* ProviderInbox
    lease,      \* RouterClientLifecycle.lease
    prov,       \* the provider actor
    child,      \* request the child works on, or 0
    ended,      \* request whose end the child has announced, or 0
    settled,    \* requests whose result was sent
    terminal,   \* requests whose TerminalEvidence was broadcast
    confirmed   \* attempts whose stop the host has reported

Req == 1 .. MaxReq

Local == MaxReq + 1

NoCancel == [r |-> 0, fenced |-> FALSE]

NoTurn == [r |-> 0, cancelled |-> FALSE]

NoHandle == [at |-> "none", r |-> 0, s |-> 0, cancelled |-> FALSE]

EmptyInbox == [st |-> "idle", r |-> 0, fence |-> 0, cancelled |-> FALSE]

NoLease == [s |-> 0, fence |-> 0]

IdleActor == [st |-> "idle", r |-> 0, sent |-> FALSE]

router == <<up, session, open, asked, isTask, attempt, canceling, stored>>

loop == <<events, host, turn, local>>

handling == <<h, inbox, lease, confirmed>>

actor == <<prov, child, ended, settled, terminal>>

vars == <<kind, router, loop, handling, actor>>

-----------------------------------------------------------------------------
(* The router, as one agent sees it.                                          *)

Current == {r \in Req : attempt[r] = "running"}

StopPending == {r \in Req : attempt[r] = "unknown"}

Available ==
    /\ up /\ stored /\ open = 0 /\ canceling = NoCancel
    /\ Current \cup StopPending = {}

Interrupted(R) == [r \in Req |-> IF r \in R /\ attempt[r] = "running" THEN "unknown" ELSE attempt[r]]

Deliver(r, dispatch) ==
    /\ Available /\ asked[r] = 0 /\ \A q \in Req : q < r => asked[q] # 0
    /\ open' = r /\ asked' = [asked EXCEPT ![r] = session]
    /\ isTask' = IF dispatch THEN isTask \cup {r} ELSE isTask
    /\ events' = Append(events, [type |-> "deliver", r |-> r, fenced |-> FALSE])
    /\ UNCHANGED <<kind, up, session, attempt, canceling, stored, host, turn, local, handling, actor>>

\* task_begin, by a delegate that the child started.
Begin(r) ==
    /\ up /\ open = r /\ r \in isTask /\ attempt[r] = "none"
    /\ BeginOutsideTurn \/ child = r
    /\ attempt' = [attempt EXCEPT ![r] = "running"]
    /\ UNCHANGED <<kind, up, session, open, asked, isTask, canceling, stored, loop, handling, actor>>

\* task_pause, task_complete, and an operator who has seen the execution stop.
End(r) ==
    /\ \/ attempt[r] = "running" /\ child = r
       \/ attempt[r] = "unknown" /\ child # r
    /\ attempt' = [attempt EXCEPT ![r] = "over"]
    /\ UNCHANGED <<kind, up, session, open, asked, isTask, canceling, stored, loop, handling, actor>>

\* A deadline, the requester's disconnection or an operator's interrupt.
CancelWork ==
    /\ open # 0
    /\ LET fenced == attempt[open] # "none" IN
       /\ canceling' = [r |-> open, fenced |-> fenced]
       /\ events' = Append(events, [type |-> "cancel", r |-> open, fenced |-> fenced])
    /\ attempt' = Interrupted({open})
    /\ open' = 0 /\ stored' = FALSE
    /\ UNCHANGED <<kind, up, session, asked, isTask, host, turn, local, handling, actor>>

\* What the router does with a connection that is gone; some of the messages
\* under way were received before.
Drop ==
    /\ up' = FALSE /\ open' = 0 /\ canceling' = NoCancel /\ stored' = FALSE
    /\ attempt' = Interrupted(Req)
    /\ UNCHANGED <<kind, session, asked, isTask>>

Disconnect ==
    /\ up /\ Drop
    /\ \E n \in 0 .. Len(events) : events' = SubSeq(events, 1, n)
    /\ UNCHANGED <<host, turn, local, handling, actor>>

\* The client reconnects by itself and joins its workspace again.
Reconnect ==
    /\ ~up /\ host = "run" /\ session < MaxSession
    /\ up' = TRUE /\ session' = session + 1 /\ stored' = TRUE
    /\ UNCHANGED <<kind, open, asked, isTask, attempt, canceling, loop, handling, actor>>

\* A reply that reaches the router ends the delivery it answers.
Replied(r) ==
    IF open = r /\ asked[r] = session
    THEN open' = 0 /\ attempt' = Interrupted({r})
    ELSE UNCHANGED <<open, attempt>>

-----------------------------------------------------------------------------
(* The provider actor and its child: codex.rs, claude.rs.                     *)

\* settle_result: the first result is the one the caller gets.
Settle(r) == settled' = settled \cup ({r} \ {0})

Broadcast(r) == terminal' = terminal \cup ({r} \ {0})

\* The child has finished the turn and says so.
ChildEnds ==
    /\ child # 0 /\ child' = 0 /\ ended' = child
    /\ UNCHANGED <<kind, router, loop, handling, prov, settled, terminal>>

\* The end of the turn is read from the child: its caller and the broadcast learn it.
CompletionRead ==
    /\ ended # 0 /\ ended = prov.r /\ prov.st \in {"running", "cancelling"}
    /\ ended' = 0
    /\ Settle(prov.r) /\ Broadcast(prov.r)
    /\ UNCHANGED <<kind, router, loop, handling, child>>

\* process_message of codex.rs: the thread is ready for the next turn.
CodexCompleted == kind = "codex" /\ CompletionRead /\ prov' = IdleActor

\* process_response of claude.rs: a turn that was cancelled, or an error after
\* which the session is of no use, closes the bridge.
ClaudeResponse ==
    /\ kind = "claude" /\ CompletionRead
    /\ \/ prov.st = "running" /\ prov' = IdleActor
       \/ prov' = [prov EXCEPT !.st = "cancelling", !.sent = TRUE]

FinishActive == CodexCompleted \/ ClaudeResponse

\* graceful_reap, terminate_and_reap.
Reap == child' = 0 /\ ended' = 0

\* The child is reaped, then the evidence is broadcast.
FinishActor ==
    /\ prov' = [st |-> "closed", r |-> 0, sent |-> FALSE]
    /\ Reap
    /\ Settle(prov.r)
    /\ IF prov.sent THEN UNCHANGED terminal ELSE Broadcast(prov.r)

\* The child exits or breaks the protocol, or the start of a turn is not answered.
ActorFails ==
    /\ prov.st # "closed"
    /\ FinishActor
    /\ UNCHANGED <<kind, router, loop, handling>>

\* MUTANT: the grace is only given to a turn whose end was announced.
MutGraceNeedsEnd ==
    /\ prov.st = "cancelling" /\ ended = prov.r
    /\ FinishActor
    /\ UNCHANGED <<kind, router, loop, handling>>

\* PROVIDER_TERMINAL_GRACE has passed since the turn was cancelled.
GraceEnds ==
    /\ prov.st = "cancelling"
    /\ FinishActor
    /\ UNCHANGED <<kind, router, loop, handling>>

\* A turn that is told to end: its caller is answered at once, its end is awaited.
Cancelling ==
    /\ prov' = [prov EXCEPT !.st = "cancelling"]
    /\ Settle(prov.r)

RequestTimeout ==
    /\ prov.st = "running" /\ Cancelling
    /\ UNCHANGED <<kind, router, loop, handling, child, ended, terminal>>

\* The request is written to the child and the turn is active.
TurnStarts(r) ==
    /\ prov.st = "idle"
    /\ prov' = [st |-> "running", r |-> r, sent |-> FALSE] /\ child' = r
    /\ UNCHANGED <<ended, settled, terminal>>

\* ActorCommand::Handle; the turn starts, or the request cannot be written, or
\* its deadline has passed, or the actor is busy or closed.
StartTurn(r) ==
    \/ TurnStarts(r)
    \/ prov.st = "idle" /\ FinishActor
    \/ UNCHANGED actor

\* ActorCommand::Cancel; the caller learns whether the actor had this turn.
CancelTurn(r) ==
    IF prov.r = r /\ prov.st = "running" THEN Cancelling /\ UNCHANGED <<child, ended, terminal>>
    ELSE UNCHANGED actor

\* ActorCommand::Close: the turn in progress is closed too, and the child is gone
\* when the command is answered.
CloseActor == FinishActor

HasTurn(r) == prov.r = r /\ prov.st \in {"running", "cancelling"}

-----------------------------------------------------------------------------
(* RouterManagedProvider::handle.                                             *)

Goto(at) == h' = [h EXCEPT !.at = at]

\* The session the client has, if it is still the one the step began with.
SameSession(s) == up /\ session = s

HandleStart ==
    /\ h.at = "start"
    /\ IF prov.st = "idle" /\ lease = NoLease /\ up
       THEN h' = [h EXCEPT !.at = "barrier", !.s = session]
       ELSE Goto("done")
    /\ UNCHANGED <<kind, router, loop, inbox, lease, confirmed, actor>>

\* The fence acquire_barrier reads and matching_dispatch accepts: the session is
\* the same, no stop is pending and the running attempt is the dispatched task's.
Admitted ==
    /\ SameSession(h.s) /\ StopPending = {}
    /\ Current = IF h.r \in isTask THEN {h.r} ELSE {}

\* A lease that nobody will own is given up.  The request's deadline passes here
\* after it has passed at the router, so only for a request that is not pending.
AcquireBarrier ==
    /\ h.at = "barrier"
    /\ \/ /\ Admitted
          /\ lease' = [s |-> h.s, fence |-> IF h.r \in isTask THEN h.r ELSE 0]
          /\ Goto("begin")
       \/ (~Admitted \/ open # h.r) /\ Goto("done") /\ UNCHANGED lease
    /\ UNCHANGED <<kind, router, loop, inbox, confirmed, actor>>

InboxBegin ==
    /\ h.at = "begin"
    /\ IF inbox.st = "idle"
       THEN /\ inbox' = [st |-> "active", r |-> h.r, fence |-> 0, cancelled |-> FALSE]
            /\ Goto("bind") /\ UNCHANGED lease
       ELSE Goto("done") /\ lease' = NoLease /\ UNCHANGED inbox
    /\ UNCHANGED <<kind, router, loop, confirmed, actor>>

BindTaskFence ==
    /\ h.at = "bind"
    /\ inbox' = [inbox EXCEPT !.fence = lease.fence]
    /\ Goto("submit")
    /\ UNCHANGED <<kind, router, loop, lease, confirmed, actor>>

\* The terminal is subscribed to before the request is handed to the actor.
Submit ==
    /\ h.at = "submit"
    /\ StartTurn(h.r)
    /\ Goto(IF child' = h.r THEN "run" ELSE "terminal")
    /\ UNCHANGED <<kind, router, loop, inbox, lease, confirmed>>

\* MUTANT: the provider's result is taken for the end of its turn.
MutResultIsTheEnd ==
    /\ h.at = "run" /\ h.r \in settled
    /\ inbox' = [inbox EXCEPT !.st = "stop"]
    /\ h' = [h EXCEPT !.at = "stop", !.cancelled = inbox.cancelled]
    /\ UNCHANGED <<kind, router, loop, lease, confirmed, actor>>

ResultSettled ==
    /\ h.at = "run" /\ h.r \in settled
    /\ Goto("terminal")
    /\ UNCHANGED <<kind, router, loop, inbox, lease, confirmed, actor>>

\* wait_for_terminal and observe_terminal.  The grace given to a cancelled turn
\* is shorter than TERMINAL_OBSERVATION_TIMEOUT, which so only passes when the
\* actor has no turn that could end.
ObserveTerminal ==
    /\ h.at = "terminal"
    /\ \/ /\ h.r \in terminal
          /\ inbox' = [inbox EXCEPT !.st = "stop"]
          /\ h' = [h EXCEPT !.at = "stop", !.cancelled = inbox.cancelled]
       \/ h.r \notin terminal /\ ~HasTurn(h.r) /\ Goto("done") /\ UNCHANGED inbox
    /\ UNCHANGED <<kind, router, loop, lease, confirmed, actor>>

\* finish_execution up to the barrier: a reconnection, or another attempt than
\* the leased one, leaves the lease and the inbox as they are.
FinishExecution ==
    /\ h.at = "stop"
    /\ IF ~SameSession(lease.s) THEN Goto("done") /\ UNCHANGED lease
       ELSE IF Current \cup StopPending = {} THEN Goto("idle") /\ lease' = NoLease
       ELSE IF lease.fence \in Current \cup StopPending THEN Goto("report") /\ UNCHANGED lease
       ELSE Goto("done") /\ UNCHANGED lease
    /\ UNCHANGED <<kind, router, loop, inbox, confirmed, actor>>

\* TaskExecutionStopped.
ReportStopped ==
    /\ h.at = "report"
    /\ IF SameSession(lease.s)
       THEN /\ attempt' = [attempt EXCEPT ![lease.fence] = "over"]
            /\ confirmed' = confirmed \cup {lease.fence}
            /\ lease' = NoLease /\ Goto("idle")
       ELSE Goto("done") /\ UNCHANGED <<attempt, confirmed, lease>>
    /\ UNCHANGED <<kind, up, session, open, asked, isTask, canceling, stored, loop, inbox, actor>>

\* WorkIdle for work that was cancelled, then confirm_stopped.
WorkIdle ==
    /\ h.at = "idle"
    /\ Goto("done")
    /\ IF ~h.cancelled THEN inbox' = EmptyInbox /\ UNCHANGED <<canceling, stored>>
       ELSE IF up /\ canceling = [r |-> h.r, fenced |-> inbox.fence # 0]
       THEN canceling' = NoCancel /\ stored' = (prov.st = "idle") /\ inbox' = EmptyInbox
       ELSE UNCHANGED <<canceling, stored, inbox>>
    /\ UNCHANGED <<kind, up, session, open, asked, isTask, attempt, loop, lease, confirmed, actor>>

-----------------------------------------------------------------------------
(* The host loop: run_host_loop, run_interactive_loop, close_host.            *)

\* The loop ends; close_host first cancels the turn in progress.
Close(r) == host' = "closing" /\ CancelTurn(r)

Busy == turn # NoTurn \/ local # "none"

\* receive_delivery.
ReceiveDelivery(r) ==
    \/ /\ ~Busy
       /\ turn' = [r |-> r, cancelled |-> FALSE]
       /\ h' = [NoHandle EXCEPT !.at = "start", !.r = r]
       /\ UNCHANGED <<host, actor, open, attempt>>
    \/ Busy /\ up /\ Replied(r) /\ UNCHANGED <<turn, h, host, actor>>
    \/ Busy /\ ~up /\ Close(IF local = "none" THEN turn.r ELSE Local) /\ UNCHANGED <<turn, h, open, attempt>>

\* request_cancel of the inbox and the actor's answer: one that finds no turn ends
\* the host.
RequestCancel(r, fenced) ==
    \/ inbox.st = "idle" /\ Close(r) /\ UNCHANGED inbox
    \/ inbox.st = "stop" /\ UNCHANGED <<inbox, host, actor>>
    \/ /\ inbox.st = "active"
       /\ inbox.r # r \/ inbox.cancelled \/ (fenced /\ inbox.fence # r)
       /\ UNCHANGED <<inbox, host, actor>>
    \/ /\ inbox.st = "active"
       /\ inbox.r = r /\ ~inbox.cancelled /\ (fenced => inbox.fence = r)
       /\ inbox' = [inbox EXCEPT !.cancelled = TRUE]
       /\ IF HasTurn(r) THEN CancelTurn(r) /\ UNCHANGED host ELSE Close(r)

\* cancel_delivery: a cancel for another delivery or fence is ignored.
CancelDelivery(r, fenced) ==
    IF turn.r # r \/ (r \in isTask) # fenced THEN UNCHANGED <<turn, inbox, host, actor>>
    ELSE turn' = [turn EXCEPT !.cancelled = TRUE] /\ RequestCancel(r, fenced)

HandleClientEvent ==
    /\ host = "run" /\ events # <<>>
    /\ events' = Tail(events)
    /\ LET e == Head(events) IN
       \/ e.type = "deliver" /\ ReceiveDelivery(e.r) /\ UNCHANGED inbox
       \/ e.type = "cancel" /\ CancelDelivery(e.r, e.fenced) /\ UNCHANGED <<h, open, attempt>>
    /\ UNCHANGED <<kind, up, session, asked, isTask, canceling, stored, local, lease, confirmed>>

\* finish_turn; a reply that cannot be written ends the host.
FinishTurn ==
    /\ host = "run" /\ h.at = "done"
    /\ turn' = NoTurn /\ h' = NoHandle
    /\ \/ turn.cancelled /\ UNCHANGED <<open, attempt, host>>
       \/ ~turn.cancelled /\ up /\ Replied(turn.r) /\ UNCHANGED host
       \/ ~turn.cancelled /\ ~up /\ host' = "closing" /\ UNCHANGED <<open, attempt>>
    /\ UNCHANGED <<kind, up, session, asked, isTask, canceling, stored, events, local,
                   inbox, lease, confirmed, actor>>

\* start_local_turn: a line is typed while nothing else is in progress.
LocalLine ==
    /\ Interactive /\ kind = "codex" /\ host = "run" /\ ~Busy /\ Local \notin settled
    /\ local' = "submit"
    /\ UNCHANGED <<kind, router, events, host, turn, handling, actor>>

LocalSubmit ==
    /\ local = "submit"
    /\ StartTurn(Local)
    /\ local' = IF child' = Local THEN "run" ELSE "terminal"
    /\ UNCHANGED <<kind, router, events, host, turn, handling>>

LocalWait ==
    /\ \/ local = "run" /\ Local \in settled /\ local' = "terminal"
       \/ local = "terminal" /\ Local \in terminal /\ local' = "done"
       \/ local = "terminal" /\ Local \notin terminal /\ ~HasTurn(Local) /\ local' = "failed"
    /\ UNCHANGED <<kind, router, events, host, turn, handling, actor>>

FinishLocalTurn ==
    /\ host = "run" /\ local \in {"done", "failed"}
    /\ host' = IF local = "failed" THEN "closing" ELSE host
    /\ local' = "none"
    /\ UNCHANGED <<kind, router, events, turn, handling, actor>>

\* workspace_join of the interactive host: fences start afresh.
WorkspaceJoin ==
    /\ Interactive /\ host = "run" /\ ~Busy /\ Available
    /\ inbox' = EmptyInbox /\ lease' = NoLease
    /\ UNCHANGED <<kind, router, loop, h, confirmed, actor>>

Shutdown ==
    /\ host = "run"
    /\ Close(IF turn # NoTurn THEN turn.r ELSE Local)
    /\ turn' = [turn EXCEPT !.cancelled = TRUE]
    /\ UNCHANGED <<kind, router, events, local, handling>>

\* MUTANT: a turn that outlives HOST_CLOSE_TIMEOUT returns before provider.close.
MutCloseAfterTurnOnly ==
    /\ host = "closing"
    /\ host' = "closed"
    /\ IF turn # NoTurn /\ h.at \notin {"none", "done"} THEN UNCHANGED actor ELSE FinishActor
    /\ UNCHANGED <<kind, router, events, turn, local, handling>>

\* The turn is over or HOST_CLOSE_TIMEOUT has passed: the provider is closed in
\* either case, and its child reaped.
CloseProvider ==
    /\ host = "closing"
    /\ host' = "closed"
    /\ CloseActor
    /\ UNCHANGED <<kind, router, events, turn, local, handling>>

CloseClient ==
    /\ host = "closed"
    /\ host' = "ended" /\ Drop
    /\ events' = <<>> /\ turn' = NoTurn /\ local' = "none" /\ h' = NoHandle
    /\ UNCHANGED <<inbox, lease, confirmed, actor>>

-----------------------------------------------------------------------------
Init ==
    /\ kind \in Provider
    /\ up = TRUE /\ session = 1 /\ open = 0 /\ asked = [r \in Req |-> 0] /\ isTask = {}
    /\ attempt = [r \in Req |-> "none"] /\ canceling = NoCancel /\ stored = TRUE
    /\ events = <<>> /\ host = "run" /\ turn = NoTurn /\ local = "none"
    /\ h = NoHandle /\ inbox = EmptyInbox /\ lease = NoLease /\ confirmed = {}
    /\ prov = IdleActor /\ child = 0 /\ ended = 0 /\ settled = {} /\ terminal = {}

Handle ==
    \/ HandleStart \/ AcquireBarrier \/ InboxBegin \/ BindTaskFence \/ Submit \/ ResultSettled
    \/ ObserveTerminal \/ FinishExecution \/ ReportStopped \/ WorkIdle

Loop == HandleClientEvent \/ FinishTurn \/ FinishLocalTurn \/ CloseProvider \/ CloseClient

Actor == FinishActive \/ GraceEnds \/ RequestTimeout

Next ==
    \/ Handle \/ Loop \/ Actor \/ ActorFails \/ ChildEnds
    \/ LocalLine \/ LocalSubmit \/ LocalWait \/ WorkspaceJoin \/ Shutdown
    \/ CancelWork \/ Disconnect \/ Reconnect
    \/ \E r \in Req : Begin(r) \/ End(r) \/ \E dispatch \in BOOLEAN : Deliver(r, dispatch)

Spec == Init /\ [][Next]_vars

\* Tasks of the runtime make progress, and every turn has a deadline and a grace.
\* Nothing is assumed of the child, the router or the network.
FairSpec ==
    /\ Spec
    /\ WF_vars(Handle) /\ WF_vars(Loop)
    /\ WF_vars(GraceEnds) /\ WF_vars(RequestTimeout) /\ WF_vars(FinishActive)

-----------------------------------------------------------------------------
(* Properties.                                                                *)

\* "A provider result is not a stop signal" (providers/router.rs): when the host
\* reports that an execution has stopped, the child no longer works on it.
StopMeansStopped == \A r \in confirmed : child # r /\ ended # r

\* Whenever the router would deliver, the child is not still busy with a
\* delivery of the same connection: answers, WorkIdle and stop reports leave
\* the host only after its turn has ended.
FreeMeansIdle == Available /\ child \in Req => asked[child] # session

\* The host calls nothing ended, neither a task nor a delivery, that its child
\* still works on.
EndedIsOver == StopMeansStopped /\ FreeMeansIdle

\* A host that has ended leaves no child behind.
ChildEndsWithHost == host = "ended" => child = 0 /\ prov.st = "closed"

\* A delivery does not occupy the host for ever, whatever its child does.
TurnEnds == turn # NoTurn ~> turn = NoTurn

=============================================================================
