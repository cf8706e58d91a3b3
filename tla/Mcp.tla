-------------------------------- MODULE Mcp --------------------------------
(* The MCP server of one agent (src/src/mcp.rs): tool calls of the model, the *)
(* task that handles the events of the router, and the router client that     *)
(* both of them write to.                                                     *)
(*                                                                            *)
(* Every tool call is a task of its own, and the model may withdraw it at any *)
(* await.  The state they share is locked for one step at a time, never       *)
(* across a write: between the step that changes it and the write that tells  *)
(* the router, every other task may run.  The link may be lost at any time.   *)
EXTENDS Naturals, Sequences, FiniteSets

CONSTANTS
    Roles,          \* roles considered, of {"codex_cli", "claude_channel", "omp"}
    MaxCalls,       \* bound: tool calls and notifications of the host
    MaxConcurrent,  \* MCP_MAX_CONCURRENT_CALLS
    Request,        \* requests that other members send to this agent
    TaskRequest,    \* those that dispatch a task
    LossyRoles,     \* bound: the roles whose link the network may lose,
    MaxDrops,       \* and how often
    WireCap,        \* bound: messages written and not yet handled by the router
    None

ASSUME McpAssumption ==
    /\ Roles \subseteq {"codex_cli", "claude_channel", "omp"} /\ Roles # {}
    /\ LossyRoles \subseteq Roles
    /\ MaxCalls \in Nat \ {0} /\ MaxConcurrent \in Nat \ {0} /\ MaxDrops \in Nat
    /\ WireCap \in Nat \ {0}
    /\ TaskRequest \subseteq Request /\ None \notin Request
    /\ None \notin 0 .. MaxCalls + 1 /\ Request \cap {"refused", "result"} = {}

Call == 1 .. MaxCalls

Events == 0                   \* the task of run_events

Closer == MaxCalls + 1        \* the task of close

Task == 0 .. MaxCalls + 1

VARIABLES
    role,
    state,    \* RouterBackendState
    results,  \* pending_results: calls that wait for the result of their request
    call,     \* tool calls, each with what was sent to its oneshot channel
    ev,       \* the event being handled
    todo,     \* writes a task has still to make
    wrote,    \* answer to the write or call a task awaits
    spawned,  \* tasks of WaitGuard that have not written yet
    told,     \* requests the model has been told of
    outbox,   \* command queue of the client
    desired,  \* ConnectionMemory.desired_workspace
    link,     \* "up", "down" or "closed"
    drops,    \* connections lost so far
    left,     \* whether the agent has left its workspace since it registered
    wire,     \* messages on their way to the router
    events,   \* and from it
    rt,       \* the router's ConnectionState of this agent
    asked     \* requests delivered

backend == <<state, results, call, ev, spawned, told>>

client == <<outbox, desired, link, drops>>

router == <<wire, rt, asked, left>>

vars == <<role, backend, todo, wrote, client, router, events>>

-----------------------------------------------------------------------------
Pull == role = "codex_cli"

Cmd(kind, arg) == [kind |-> kind, arg |-> arg]

Ready(b) == Cmd(IF b THEN "ready" ELSE "unready", None)

\* The answer to request r, or a refusal of it.
Reply(r) == Cmd("reply", r)

IsRpc(cmd) == cmd.kind \in {"join", "leave", "send"}

Event(type, arg) == [type |-> type, arg |-> arg]

Idle == [pc |-> "idle", req |-> None, to |-> None]

NoCall == [pc |-> "idle", kind |-> "none", req |-> None, mail |-> None]

Offline == [joined |-> FALSE, stored |-> FALSE, ready |-> FALSE, busy |-> None,
            canceling |-> FALSE, sends |-> {}]

\* The row of an agent that has just joined: push agents are ready at once.
Joined(row) == [row EXCEPT !.joined = TRUE, !.stored = ~ Pull, !.ready = ~ Pull]

Live(c) == call[c].pc \notin {"idle", "done"}

Goto(c, pc) == call' = [call EXCEPT ![c] =
    IF pc = "done" THEN [NoCall EXCEPT !.pc = "done"] ELSE [@ EXCEPT !.pc = pc]]

\* Task t goes on to make these writes, one after the other; none, when it ends.
Will(t, cmds) ==
    /\ todo' = [todo EXCEPT ![t] = cmds]
    /\ wrote' = [wrote EXCEPT ![t] = "ok"]

\* Task t has no answer to wait for.
Settled(t) == todo[t] = <<>> /\ wrote[t] # "pending"

\* The next of the writes (write_only) or calls that a task makes.
WriteNext(t) ==
    /\ todo[t] # <<>> /\ wrote[t] # "pending"
    /\ outbox' = Append(outbox, [cmd |-> Head(todo[t]), by |-> t])
    /\ todo' = [todo EXCEPT ![t] = Tail(@)]
    /\ wrote' = [wrote EXCEPT ![t] = "pending"]
    /\ UNCHANGED <<role, backend, desired, link, drops, router, events>>

\* set_role_readiness: only an agent that pulls reports readiness.
RoleReadiness == IF Pull THEN <<Ready(FALSE)>> ELSE <<>>

\* The slots of the calls in C are answered with m, if the call still listens.
Answered(C, m) ==
    [c \in Call |-> IF c \in C /\ Live(c) THEN [call[c] EXCEPT !.mail = m] ELSE call[c]]

Waiter == {state.waiter} \ {None}

-----------------------------------------------------------------------------
(* Calls of the model *)

ToolKinds == {"reply", "join", "leave", "send"}
             \cup (IF Pull THEN {"wait"} ELSE {})
             \cup (IF role = "omp" THEN {"finished"} ELSE {})

Admitted == {c \in Call : Live(c) /\ call[c].kind # "finished"}

\* call_tool (or a notification of the OMP host, "finished"): a tool call needs
\* a permit, and the server must not be closed (ensure_client).  What follows up
\* to the first lock touches nothing shared and is one step with it.
Admits(c, k) ==
    /\ call[c].pc = "idle" /\ \A d \in Call : d < c => call[d].pc # "idle"
    /\ k \in ToolKinds
    /\ ~ state.closed
    /\ k # "finished" => Cardinality(Admitted) < MaxConcurrent

Enter(c, k, r, pc) == call' = [call EXCEPT ![c] =
    IF pc = "done" THEN [NoCall EXCEPT !.pc = "done"]
    ELSE [NoCall EXCEPT !.pc = pc, !.kind = k, !.req = r]]

\* agent_wait registers its slot and then reports readiness.
AgentWait(c) ==
    /\ Admits(c, "wait")
    /\ IF ~ state.membership \/ state.pending # None \/ state.waiter # None
       THEN Enter(c, "wait", None, "done") /\ UNCHANGED <<state, todo, wrote>>
       ELSE /\ state' = [state EXCEPT !.waiter = c]
            /\ Enter(c, "wait", None, "readying")
            /\ Will(c, <<Ready(TRUE)>>)
    /\ UNCHANGED <<role, results, ev, spawned, told, client, router, events>>

\* MUTANT of DropGuard: the slot is taken back, the router is not told.
MutDropSlotOnly(c) ==
    /\ state' = IF state.waiter = c THEN [state EXCEPT !.waiter = None] ELSE state
    /\ UNCHANGED spawned

\* WaitGuard: a slot that is still registered is taken back, and a task is
\* spawned that tells the router.
DropGuard(c) ==
    /\ state' = IF state.waiter = c THEN [state EXCEPT !.waiter = None] ELSE state
    /\ spawned' = IF state.waiter = c THEN spawned + 1 ELSE spawned

SpawnedReadiness ==
    /\ spawned > 0
    /\ spawned' = spawned - 1
    /\ outbox' = Append(outbox, [cmd |-> Ready(FALSE), by |-> None])
    /\ UNCHANGED <<role, state, results, call, ev, told, todo, wrote, desired, link, drops,
                   router, events>>

WaitReadied(c) ==
    /\ call[c].pc = "readying" /\ Settled(c)
    /\ IF wrote[c] = "ok" THEN Goto(c, "waiting") /\ UNCHANGED <<state, spawned>>
       ELSE Goto(c, "done") /\ DropGuard(c)
    /\ Will(c, <<>>)
    /\ UNCHANGED <<role, results, ev, told, client, router, events>>

\* The wait ends without a request; the guard is not disarmed before the router
\* has been told, but has nothing left to take back.
WaitTimeout(c) ==
    /\ call[c].pc = "waiting"
    /\ IF state.waiter = c
       THEN /\ state' = [state EXCEPT !.waiter = None]
            /\ Goto(c, "writing") /\ Will(c, <<Ready(FALSE)>>)
       ELSE Goto(c, "done") /\ UNCHANGED <<state, todo, wrote>>
    /\ UNCHANGED <<role, results, ev, spawned, told, client, router, events>>

WaitReceived(c) ==
    /\ call[c].pc = "waiting" /\ call[c].mail # None
    /\ Goto(c, "done")
    /\ told' = told \cup ({call[c].mail} \cap Request)
    /\ UNCHANGED <<role, state, results, ev, spawned, todo, wrote, client, router, events>>

\* agent_reply sends the answer while the request stays pending.  The deadline
\* of the request may have passed at any time.
AgentReply(c, r, expired) ==
    /\ Admits(c, "reply") /\ r \in told
    /\ IF expired \/ state.pending # r \/ ~ state.membership
       THEN Enter(c, "reply", r, "done") /\ UNCHANGED <<todo, wrote>>
       ELSE Enter(c, "reply", r, "replying") /\ Will(c, <<Reply(r)>>)
    /\ UNCHANGED <<role, state, results, ev, spawned, told, client, router, events>>

\* Once it is written the request is no longer pending, if it still was.
AgentReplied(c) ==
    /\ call[c].pc = "replying" /\ Settled(c)
    /\ IF wrote[c] = "ok" /\ state.pending = call[c].req
       THEN /\ state' = [state EXCEPT !.pending = None]
            /\ Goto(c, "writing") /\ Will(c, RoleReadiness)
       ELSE Goto(c, "done") /\ Will(c, <<>>) /\ UNCHANGED state
    /\ UNCHANGED <<role, results, ev, spawned, told, client, router, events>>

\* fail_pending_work: the OMP host ended its work without a reply.
FailPendingWork(c, r) ==
    /\ Admits(c, "finished") /\ r \in told
    /\ IF state.pending # r
       THEN Enter(c, "finished", r, "done") /\ UNCHANGED <<state, todo, wrote>>
       ELSE /\ state' = [state EXCEPT !.pending = None]
            /\ Enter(c, "finished", r, "writing")
            /\ Will(c, <<Reply(r)>> \o RoleReadiness)
    /\ UNCHANGED <<role, results, ev, spawned, told, client, router, events>>

\* The OMP host says whether it takes work.
HostState(ready) ==
    /\ role = "omp" /\ ~ state.closed /\ state.omp_ready # ready
    /\ state' = [state EXCEPT !.omp_ready = ready]
    /\ UNCHANGED <<role, results, call, ev, spawned, told, todo, wrote, client, router, events>>

\* MUTANT of RoutedRequest: nothing waits for the result while the request is sent.
MutSendUnregistered(c) ==
    /\ Admits(c, "send")
    /\ Enter(c, "send", None, "sending") /\ Will(c, <<Cmd("send", c)>>)
    /\ UNCHANGED <<role, state, results, ev, spawned, told, client, router, events>>

\* routed_request registers for the result before it sends.
RoutedRequest(c) ==
    /\ Admits(c, "send")
    /\ results' = results \cup {c}
    /\ Enter(c, "send", None, "sending") /\ Will(c, <<Cmd("send", c)>>)
    /\ UNCHANGED <<role, state, ev, spawned, told, client, router, events>>

RequestAccepted(c) ==
    /\ call[c].pc = "sending" /\ Settled(c)
    /\ IF wrote[c] = "ok" THEN Goto(c, "accepted") /\ UNCHANGED results
       ELSE Goto(c, "done") /\ results' = results \ {c}
    /\ Will(c, <<>>)
    /\ UNCHANGED <<role, state, ev, spawned, told, client, router, events>>

\* MUTANT of RequestEnds: nothing but the result ends the call.
MutRequestAwaitsResult(c) ==
    /\ call[c].pc = "accepted" /\ call[c].mail # None
    /\ Goto(c, "done")
    /\ results' = results \ {c}
    /\ UNCHANGED <<role, state, ev, spawned, told, todo, wrote, client, router, events>>

\* The result has come, or the deadline.
RequestEnds(c) ==
    /\ call[c].pc = "accepted"
    /\ Goto(c, "done")
    /\ results' = results \ {c}
    /\ UNCHANGED <<role, state, ev, spawned, told, todo, wrote, client, router, events>>

\* Calls after a membership change: the waiting one is refused.
Unseated(joined) ==
    IF state.membership # joined THEN Answered(Waiter, "refused") ELSE call

\* handle_membership_changed, run by task t; but for Unseated.
MembershipChanged(t, joined) ==
    LET changed == state.membership # joined
        dropped == IF changed /\ state.pending # None
                   THEN <<Reply(state.pending)>> ELSE <<>> IN
    /\ state' = [state EXCEPT !.membership = joined,
                              !.waiter = IF changed THEN None ELSE @,
                              !.pending = IF changed THEN None ELSE @]
    /\ Will(t, dropped \o IF joined THEN <<>> ELSE RoleReadiness)

\* workspace_join and workspace_leave wait for the answer of the router.
WorkspaceCall(c, k) ==
    /\ Admits(c, k)
    /\ Enter(c, k, None, "calling") /\ Will(c, <<Cmd(k, c)>>)
    /\ UNCHANGED <<role, state, results, ev, spawned, told, client, router, events>>

WorkspaceAnswered(c) ==
    /\ call[c].pc = "calling" /\ Settled(c)
    /\ \/ /\ wrote[c] = "err"
          /\ Goto(c, "done") /\ Will(c, <<>>) /\ UNCHANGED state
       \/ /\ wrote[c] = "ok" /\ call[c].kind = "join"
          /\ state' = [state EXCEPT !.membership = TRUE]
          /\ Goto(c, "done") /\ UNCHANGED <<todo, wrote>>
       \/ /\ wrote[c] = "ok" /\ call[c].kind = "leave"
          /\ MembershipChanged(c, FALSE)
          /\ call' = [Unseated(FALSE) EXCEPT ![c].pc = "writing"]
    /\ UNCHANGED <<role, results, ev, spawned, told, client, router, events>>

\* The last writes of a call; an error ends it too.
CallReturns(c) ==
    /\ call[c].pc = "writing" /\ Settled(c)
    /\ Goto(c, "done")
    /\ Will(c, <<>>)
    /\ UNCHANGED <<role, state, results, ev, spawned, told, client, router, events>>

\* The model withdraws a call: its future is dropped at the await it has
\* reached.  A write already queued is still made; a leave that is not answered
\* is followed by a command that gives up the connection (CancelOnDrop).
CancelCall(c) ==
    /\ call[c].kind # "finished"
    /\ call[c].pc \in {"waiting", "accepted"} \/ (Live(c) /\ wrote[c] = "pending")
    /\ Goto(c, "done")
    /\ DropGuard(c)
    /\ results' = results \ {c}
    /\ Will(c, <<>>)
    /\ outbox' = IF call[c].kind = "leave" /\ call[c].pc = "calling" /\ wrote[c] = "pending"
                 THEN Append(outbox, [cmd |-> Cmd("cancel", c), by |-> None]) ELSE outbox
    /\ UNCHANGED <<role, ev, told, desired, link, drops, router, events>>

BeginCall(c) ==
    \/ AgentWait(c) \/ RoutedRequest(c)
    \/ \E k \in {"join", "leave"} : WorkspaceCall(c, k)
    \/ \E r \in told, expired \in BOOLEAN : AgentReply(c, r, expired)
    \/ \E r \in told : FailPendingWork(c, r)

CallStep(c) ==
    \/ WriteNext(c)
    \/ WaitReadied(c) \/ WaitTimeout(c) \/ WaitReceived(c)
    \/ AgentReplied(c)
    \/ RequestAccepted(c) \/ RequestEnds(c)
    \/ WorkspaceAnswered(c)
    \/ CallReturns(c)

-----------------------------------------------------------------------------
(* The task of run_events: one event at a time, its writes included *)

Handles(type) ==
    /\ ev.pc = "idle" /\ ~ state.closed
    /\ events # <<>> /\ Head(events).type = type
    /\ events' = Tail(events)

\* handle_delivery.  A request is refused, or becomes the pending one and is
\* given to the waiting call (which needs a write first) or to the host.
HandleDelivery ==
    LET r == Head(events).arg
        fits == /\ state.membership /\ state.pending = None
                /\ Pull => state.waiter # None
                /\ role = "omp" => state.omp_ready IN
    /\ Handles("deliver")
    /\ IF fits
       THEN /\ state' = [state EXCEPT !.pending = r, !.waiter = None]
            /\ ev' = [pc |-> IF Pull THEN "handing" ELSE "notifying", req |-> r, to |-> state.waiter]
            /\ Will(Events, RoleReadiness)
       ELSE /\ ev' = [Idle EXCEPT !.pc = "writing"]
            /\ Will(Events, <<Reply(r)>>)
            /\ UNCHANGED state
    /\ UNCHANGED <<role, results, call, spawned, told, client, router>>

\* reject_pending_delivery
RejectPending ==
    /\ state' = IF state.pending = ev.req THEN [state EXCEPT !.pending = None] ELSE state
    /\ ev' = [Idle EXCEPT !.pc = "writing"]
    /\ Will(Events, <<Reply(ev.req)>> \o RoleReadiness)

\* The oneshot of the call refuses the request when the call is gone.
HandOver ==
    /\ ev.pc = "handing" /\ Settled(Events)
    /\ IF Live(ev.to)
       THEN /\ call' = Answered({ev.to}, ev.req)
            /\ ev' = Idle
            /\ UNCHANGED <<state, todo, wrote>>
       ELSE RejectPending /\ UNCHANGED call
    /\ UNCHANGED <<role, results, spawned, told, client, router, events>>

\* The notification to a push host is written to the standard output, or fails.
Notify ==
    /\ ev.pc = "notifying"
    /\ \/ told' = told \cup {ev.req} /\ ev' = Idle /\ UNCHANGED <<state, todo, wrote>>
       \/ RejectPending /\ UNCHANGED told
    /\ UNCHANGED <<role, results, call, spawned, client, router, events>>

\* handle_work_cancelled; fenced: the task was begun.
HandleWorkCancelled(fenced) ==
    LET r == Head(events).arg
        matches == state.pending = r /\ (r \in TaskRequest <=> fenced) IN
    /\ Handles(IF fenced THEN "cancel_fenced" ELSE "cancel")
    /\ IF matches
       THEN /\ state' = [state EXCEPT !.pending = None]
            /\ ev' = [Idle EXCEPT !.pc = "writing"]
            /\ Will(Events, RoleReadiness)
       ELSE UNCHANGED <<state, ev, todo, wrote>>
    /\ UNCHANGED <<role, results, call, spawned, told, client, router>>

HandleMembership(joined) ==
    /\ Handles(IF joined THEN "joined" ELSE "left")
    /\ MembershipChanged(Events, joined)
    /\ call' = Unseated(joined)
    /\ ev' = [Idle EXCEPT !.pc = "writing"]
    /\ UNCHANGED <<role, results, spawned, told, client, router>>

\* process_event of a SendResult
HandleResult ==
    LET c == Head(events).arg IN
    /\ Handles("result")
    /\ call' = IF c \in results THEN Answered({c}, "result") ELSE call
    /\ results' = results \ {c}
    /\ UNCHANGED <<role, state, ev, spawned, told, todo, wrote, client, router>>

\* handle_event_stream_closed
HandleClosed ==
    /\ Handles("closed")
    /\ state' = [state EXCEPT !.membership = FALSE, !.pending = None, !.omp_ready = FALSE,
                              !.waiter = None]
    /\ call' = Answered(Waiter \cup results, "refused")
    /\ results' = {}
    /\ UNCHANGED <<role, ev, spawned, told, todo, wrote, client, router>>

EventHandled ==
    /\ ev.pc = "writing" /\ Settled(Events)
    /\ ev' = Idle
    /\ Will(Events, <<>>)
    /\ UNCHANGED <<role, state, results, call, spawned, told, client, router, events>>

EventStep ==
    \/ WriteNext(Events)
    \/ HandleDelivery \/ HandOver \/ Notify
    \/ \E b \in BOOLEAN : HandleWorkCancelled(b) \/ HandleMembership(b)
    \/ HandleResult \/ HandleClosed
    \/ EventHandled

\* close, when the standard input ends: what was pending is refused, then the
\* client is closed.
Close ==
    /\ ~ state.closed
    /\ state' = [state EXCEPT !.closed = TRUE, !.waiter = None, !.pending = None]
    /\ call' = Answered(Waiter \cup results, "refused")
    /\ results' = {}
    /\ Will(Closer, (IF state.pending = None THEN <<>> ELSE <<Reply(state.pending)>>)
                    \o RoleReadiness \o <<Cmd("close", None)>>)
    /\ UNCHANGED <<role, ev, spawned, told, client, router, events>>

-----------------------------------------------------------------------------
(* The router client *)

\* The answer a of a command reaches the task that made it, unless it is gone.
Answer(t, a) ==
    [wrote EXCEPT ![t] = IF t \in Call /\ ~ Live(t) THEN @ ELSE a]

Queued == {outbox[i].by : i \in DOMAIN outbox}

\* Calls whose answer the client is waiting for.
Unanswered == {c \in Call : /\ call[c].pc \in {"calling", "sending"} /\ wrote[c] = "pending"
                            /\ c \notin Queued}

\* The connection ends: its answers, its messages and the last of its events
\* are lost, and the router forgets the agent and ends its requests.
LoseLink(keepDesired, failed) ==
    /\ link' = "down" /\ rt' = Offline /\ wire' = <<>>
    /\ drops' = drops + 1
    /\ desired' = (desired /\ keepDesired)
    /\ wrote' = [t \in Task |-> IF t \in failed THEN "err" ELSE wrote[t]]
    /\ \E n \in 0 .. Len(events) : events' = SubSeq(events, 1, n)

\* pump writes the next command.
PumpCommand ==
    LET h == Head(outbox) IN
    /\ link = "up" /\ outbox # <<>> /\ Len(wire) < WireCap
    /\ outbox' = Tail(outbox)
    /\ \/ /\ h.cmd.kind = "close"
          /\ link' = "closed" /\ rt' = Offline /\ wire' = <<>>
          /\ wrote' = [t \in Task |-> IF t \in Unanswered \cup {h.by} THEN "err" ELSE wrote[t]]
          /\ UNCHANGED <<desired, drops, events>>
       \/ /\ h.cmd.kind = "cancel"      \* of a leave: only if it is still unanswered
          /\ \E unanswered \in BOOLEAN :
                IF unanswered THEN LoseLink(FALSE, Unanswered)
                ELSE UNCHANGED <<link, drops, rt, wire, desired, wrote, events>>
       \/ /\ h.cmd.kind \notin {"close", "cancel"}
          /\ wire' = Append(wire, h)
          /\ wrote' = IF h.by = None \/ IsRpc(h.cmd) THEN wrote ELSE Answer(h.by, "ok")
          /\ UNCHANGED <<link, drops, rt, desired, events>>
    /\ UNCHANGED <<role, backend, todo, asked, left>>

\* handle_disconnected_command, and what is left in the queue of a closed client.
DisconnectedCommand ==
    LET h == Head(outbox) IN
    /\ link # "up" /\ outbox # <<>>
    /\ outbox' = Tail(outbox)
    /\ link' = IF h.cmd.kind = "close" THEN "closed" ELSE link
    /\ wrote' = IF h.by = None THEN wrote ELSE Answer(h.by, "err")
    /\ UNCHANGED <<role, backend, todo, desired, drops, router, events>>

\* The deadline of a call passes; a leave of unknown outcome costs the link.
CallExpires(c) ==
    /\ link = "up" /\ c \in Unanswered
    /\ IF call[c].kind = "leave" THEN LoseLink(FALSE, Unanswered)
       ELSE wrote' = Answer(c, "err") /\ UNCHANGED <<link, drops, rt, wire, desired, events>>
    /\ UNCHANGED <<role, backend, todo, outbox, asked, left>>

LinkLost ==
    /\ link = "up" /\ role \in LossyRoles /\ drops < MaxDrops
    /\ LoseLink(TRUE, Unanswered)
    /\ UNCHANGED <<role, backend, todo, outbox, asked, left>>

\* establish: register again and rejoin; readiness is not restored.  Commands
\* are refused before the new connection is taken up (wait_during_restore), and
\* no task stays between a lock and the write that follows it that long.
Reconnect ==
    /\ link = "down" /\ outbox = <<>>
    /\ \A t \in Task : todo[t] = <<>> \/ wrote[t] = "pending"
    /\ link' = "up"
    /\ rt' = IF desired THEN Joined(Offline) ELSE Offline
    /\ events' = IF desired THEN Append(events, Event("joined", None)) ELSE events
    /\ UNCHANGED <<role, backend, todo, wrote, outbox, desired, drops, wire, asked, left>>

\* A terminal error, on registration: the client gives up.
GiveUp ==
    /\ link = "down"
    /\ link' = "closed"
    /\ events' = Append(events, Event("closed", None))
    /\ UNCHANGED <<role, backend, todo, wrote, outbox, desired, drops, router>>

-----------------------------------------------------------------------------
(* The router, as this agent sees it *)

\* set_busy
NotBusy(row) == [row EXCEPT !.busy = None, !.ready = ~ row.canceling /\ row.stored /\ row.joined]

Receives(kind) == link = "up" /\ wire # <<>> /\ Head(wire).cmd.kind = kind /\ wire' = Tail(wire)

SetReadiness(ready) ==
    /\ Receives(Ready(ready).kind)
    /\ rt' = [rt EXCEPT !.stored = ready,
                        !.ready = ready /\ ~ rt.canceling /\ rt.busy = None /\ rt.joined]
    /\ UNCHANGED <<role, backend, todo, wrote, client, events, asked, left>>

FinishReply ==
    /\ Receives("reply")
    /\ rt' = IF rt.joined /\ rt.busy = Head(wire).cmd.arg THEN NotBusy(rt) ELSE rt
    /\ UNCHANGED <<role, backend, todo, wrote, client, events, asked, left>>

\* Joining the workspace one is in is answered, and so is leaving none.
WorkspaceJoin ==
    /\ Receives("join")
    /\ rt' = IF rt.joined THEN rt ELSE Joined(rt)
    /\ events' = IF rt.joined THEN events ELSE Append(events, Event("joined", None))
    /\ desired' = TRUE
    /\ wrote' = Answer(Head(wire).cmd.arg, "ok")
    /\ UNCHANGED <<role, backend, todo, outbox, link, drops, asked, left>>

WorkspaceLeave ==
    LET refused == rt.joined /\ (rt.canceling \/ rt.busy # None \/ rt.sends # {}) IN
    /\ Receives("leave")
    /\ rt' = IF refused THEN rt ELSE [rt EXCEPT !.joined = FALSE, !.stored = FALSE, !.ready = FALSE]
    /\ events' = IF rt.joined /\ ~ refused THEN Append(events, Event("left", None)) ELSE events
    /\ desired' = (desired /\ refused)
    /\ left' = (left \/ ~ refused)
    /\ wrote' = Answer(Head(wire).cmd.arg, IF refused THEN "err" ELSE "ok")
    /\ UNCHANGED <<role, backend, todo, outbox, link, drops, asked>>

\* start_request of a request this agent makes; the target may refuse it.
StartRequest(accepted) ==
    LET c == Head(wire).cmd.arg IN
    /\ Receives("send")
    /\ accepted => rt.joined /\ ~ rt.canceling
    /\ rt' = IF accepted THEN [rt EXCEPT !.sends = @ \cup {c}] ELSE rt
    /\ wrote' = Answer(c, IF accepted THEN "ok" ELSE "err")
    /\ UNCHANGED <<role, backend, todo, client, events, asked, left>>

SendResult(c) ==
    /\ link = "up" /\ c \in rt.sends
    /\ rt' = [rt EXCEPT !.sends = @ \ {c}]
    /\ events' = Append(events, Event("result", c))
    /\ UNCHANGED <<role, backend, todo, wrote, client, wire, asked, left>>

\* start_request of a request to this agent.
Deliver(r) ==
    /\ link = "up" /\ r \notin asked
    /\ rt.ready /\ rt.busy = None /\ ~ rt.canceling
    /\ asked' = asked \cup {r}
    /\ rt' = [rt EXCEPT !.busy = r, !.ready = FALSE]
    /\ events' = Append(events, Event("deliver", r))
    /\ UNCHANGED <<role, backend, todo, wrote, client, wire, left>>

\* finish_pending_error: the deadline, or the end of the requester.
CancelWork(fenced) ==
    /\ link = "up" /\ rt.busy # None
    /\ fenced => rt.busy \in TaskRequest \cap told
    /\ rt' = [rt EXCEPT !.busy = None, !.ready = FALSE, !.stored = FALSE, !.canceling = TRUE]
    /\ events' = Append(events, Event(IF fenced THEN "cancel_fenced" ELSE "cancel", rt.busy))
    /\ UNCHANGED <<role, backend, todo, wrote, client, wire, asked, left>>

-----------------------------------------------------------------------------
Init ==
    /\ role \in Roles
    /\ state = [membership |-> role # "omp", waiter |-> None, pending |-> None,
                omp_ready |-> FALSE, closed |-> FALSE]
    /\ results = {} /\ spawned = 0 /\ told = {} /\ drops = 0 /\ asked = {} /\ left = FALSE
    /\ call = [c \in Call |-> NoCall]
    /\ ev = Idle
    /\ todo = [t \in Task |-> <<>>]
    /\ wrote = [t \in Task |-> "ok"]
    /\ outbox = <<>> /\ wire = <<>> /\ events = <<>>
    /\ desired = (role # "omp")
    /\ link = "up"
    /\ rt = IF role = "omp" THEN Offline ELSE Joined(Offline)

ClientStep == PumpCommand \/ DisconnectedCommand \/ \E c \in Call : CallExpires(c)

RouterReads ==
    \/ FinishReply \/ WorkspaceJoin \/ WorkspaceLeave
    \/ \E b \in BOOLEAN : SetReadiness(b) \/ StartRequest(b)

RouterStep ==
    \/ RouterReads
    \/ \E b \in BOOLEAN : CancelWork(b)
    \/ \E c \in Call : SendResult(c)
    \/ \E r \in Request : Deliver(r)

Next ==
    \/ \E c \in Call : BeginCall(c) \/ CallStep(c) \/ CancelCall(c)
    \/ \E b \in BOOLEAN : HostState(b)
    \/ SpawnedReadiness \/ EventStep
    \/ Close \/ WriteNext(Closer)
    \/ ClientStep \/ LinkLost \/ Reconnect \/ GiveUp
    \/ RouterStep

Spec == Init /\ [][Next]_vars

\* The tasks of the server and of its client run, their timers fire, and the
\* router reads what was written.  Nothing is assumed of its answers, of the
\* link or of the model.
FairSpec ==
    /\ Spec
    /\ \A c \in Call : WF_vars(CallStep(c))
    /\ WF_vars(ClientStep)
    /\ WF_vars(RouterReads)

-----------------------------------------------------------------------------
(* Properties *)

\* Nothing is on its way and no task is between two of its steps.
Quiet ==
    /\ link = "up" /\ ~ state.closed
    /\ outbox = <<>> /\ wire = <<>> /\ events = <<>> /\ spawned = 0 /\ ev = Idle
    /\ \A c \in Call : call[c].pc \in {"idle", "waiting", "accepted", "done"}

\* When everything on the first connection and in the first workspace has settled,
\* an agent that the router takes to be ready is one whose model waits in
\* agent_wait, or has not finished answering the last request: a wait that timed
\* out, was withdrawn or was answered leaves no readiness behind, in whatever order
\* the writes of successive waits and of the guard's own task reach the router.
ReadyMeansAwaited ==
    Quiet /\ drops = 0 /\ ~ left /\ Pull /\ rt.ready =>
        state.pending # None \/ (state.waiter # None /\ call[state.waiter].pc = "waiting")

\* The result of a request reaches the call that made it, when that call still
\* runs: also a result that is handled before the acceptance of the request is.
ResultReachesCall ==
    [][\A c \in Call :
          /\ events # <<>> /\ Head(events).type = "result" /\ Head(events).arg = c
          /\ link' = link /\ Len(events') < Len(events)       \* it has been handled
          /\ call[c].pc \in {"sending", "accepted"}
          => call'[c].mail = "result"]_vars

\* Every tool call returns, whatever the router answers and the link does.
CallEnds == \A c \in Call : Live(c) ~> call[c].pc = "done"

=============================================================================
