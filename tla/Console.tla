------------------------------- MODULE Console -------------------------------
(* The console's controller (src/src/tui/controller.rs) and the parts of its  *)
(* view state it synchronises (src/src/tui/state.rs), over the live feed of   *)
(* module Feed: selecting a workspace, loading its recent history, becoming   *)
(* live, applying events, acknowledging them, and posting chat.               *)
EXTENDS Feed

VARIABLE ui     \* Controller and UiState

\* The tasks the controller spawns are records: a Sync and a Recent read, and the one
\* action, whose step tells whether it is a switch (unsubscribe, leave, join, rejoin), a
\* membership recovery (restore) or a chat post.  id = None until the task has sent its
\* call; full when the call could not be sent; fenced when its Fence is out of date.

vars == <<feedVars, ui>>

\* None is the absent Option: it is not an action that is present.
ASSUME ConsoleAssumption ==
    None \notin [step : {"unsubscribe", "leave", "join", "rejoin", "restore", "post"}, id : Id \cup {None},
                 full : BOOLEAN, old : Workspace \cup {None}, target : Workspace \cup {None}, fenced : BOOLEAN]

-----------------------------------------------------------------------------
(* The loop of run: flush_ack and schedule follow every handler.              *)

Flushes(u, cmds) == u.ack # 0 /\ HasRoom(cmds)

NewRead(step, u) ==
    [step |-> step, id |-> None, full |-> FALSE, after |-> u.applied,
     gapped |-> FALSE, fenced |-> FALSE]

StartRecent(u) ==
    IF "Recent" \in u.queued /\ u.recent = None
    THEN [u EXCEPT !.queued = @ \ {"Recent"}, !.recent = NewRead("history", u)]
    ELSE u

\* A Sync read without an applied cursor is dropped; the reset flag is consumed.
StartSync(u) ==
    IF "Sync" \in u.queued /\ u.sync = None
    THEN IF u.applied = Absent
         THEN [u EXCEPT !.queued = @ \ {"Sync"}]
         ELSE [u EXCEPT !.queued = @ \ {"Sync"}, !.reset = FALSE,
                        !.sync = NewRead(IF u.reset THEN "unsubscribe" ELSE "subscribe", u)]
    ELSE u

Schedule(u) ==
    IF u.conn # "up" \/ u.switching # None \/ u.ws = None THEN u ELSE StartSync(StartRecent(u))

\* The controller finishes a handler with view state u and command queue cmds.
Loop(u, cmds) ==
    /\ commands' = IF Flushes(u, cmds) THEN Append(cmds, Ack(u.ws, u.ack)) ELSE cmds
    /\ ui' = Schedule(IF Flushes(u, cmds) THEN [u EXCEPT !.ack = 0] ELSE u)

Enqueue(u, kind) == [u EXCEPT !.queued = @ \cup {kind}]

\* Tasks of an earlier connected epoch or a disconnected view are not accepted.
FenceJob(job) == IF job = None THEN None ELSE [job EXCEPT !.fenced = TRUE]

FenceAll(u) ==
    [u EXCEPT !.sync = FenceJob(@), !.recent = FenceJob(@), !.act = FenceJob(@)]

Accepts(u, job) == ~ job.fenced /\ u.conn = "up"

-----------------------------------------------------------------------------
(* Applying events.                                                           *)

\* MUTANT of Gapped: a gap is noticed and nothing is done about it.
MutGapIgnored(u) == u

\* A gap resets the subscription and outdates the Sync read that is running.
Gapped(u) ==
    [Enqueue(u, "Sync") EXCEPT
        !.reset = TRUE,
        !.sync = IF @ = None THEN None ELSE [@ EXCEPT !.gapped = TRUE]]

\* The chat this console waits for has come back through the log.
Acknowledge(u, w, lo, hi) ==
    IF \E p \in posted : p.ws = w /\ lo < p.seq /\ p.seq <= hi
    THEN [u EXCEPT !.chat = "idle"] ELSE u

\* apply_event for the events lo + 1 .. hi of w in turn.
Apply(u, w, lo, hi) ==
    IF u.ws # w \/ lo = hi THEN u
    ELSE IF u.applied = Absent THEN Gapped(u)
    ELSE IF lo > u.applied THEN Gapped([u EXCEPT !.synced = FALSE])
    ELSE [Acknowledge(u, w, u.applied, hi) EXCEPT !.applied = Max({@, hi}), !.ack = Max({@, hi})]

\* The page of a subscription fits when nothing in it was a gap or of another room.
Fits(u, v) == v.lo = v.hi \/ (u.ws = v.ws /\ u.applied # Absent /\ v.lo <= u.applied)

TakeEvent ==
    /\ events # <<>>
    /\ events' = Tail(events)
    /\ LET e == Head(events) IN
       Loop(IF e.ws = None \/ ui.ws = None THEN ui ELSE Apply(ui, e.ws, e.seq - 1, e.seq), commands)
    /\ UNCHANGED <<log, posted, net, client, pending, waiting, replies, faults, nested>>

-----------------------------------------------------------------------------
(* Tasks: sending a call and taking its reply.                                *)

\* A task sends its next call, or fails because the command queue is full.
SendCall(job, kind, w, after) ==
    IF HasRoom(commands)
    THEN LET c == [id |-> CHOOSE i \in FreshIds : TRUE, kind |-> kind, ws |-> w, after |-> after] IN
         [job |-> [job EXCEPT !.id = c.id], cmds |-> Append(commands, Rpc(c)),
          wait |-> waiting \cup {c.id}]
    ELSE [job |-> [job EXCEPT !.full = TRUE], cmds |-> commands, wait |-> waiting]

Unsent(job) == job # None /\ job.id = None /\ ~ job.full /\ FreshIds # {}

SendSync ==
    /\ Unsent(ui.sync)
    /\ LET s == SendCall(ui.sync, ui.sync.step, None,
                         IF ui.sync.step = "subscribe" THEN ui.sync.after ELSE 0)
       IN ui' = [ui EXCEPT !.sync = s.job] /\ commands' = s.cmds /\ waiting' = s.wait
    /\ UNCHANGED <<log, posted, net, client, pending, events, replies, faults, nested>>

SendRecent ==
    /\ Unsent(ui.recent)
    /\ LET s == SendCall(ui.recent, "history", None, 0)
       IN ui' = [ui EXCEPT !.recent = s.job] /\ commands' = s.cmds /\ waiting' = s.wait
    /\ UNCHANGED <<log, posted, net, client, pending, events, replies, faults, nested>>

ActionCall(act) ==
    IF act.step = "join" THEN <<"join", act.target>>
    ELSE IF act.step \in {"rejoin", "restore"} THEN <<"join", act.old>>
    ELSE <<act.step, None>>

SendAction ==
    /\ Unsent(ui.act)
    /\ LET c == ActionCall(ui.act)
           s == SendCall(ui.act, c[1], c[2], 0)
       IN ui' = [ui EXCEPT !.act = s.job] /\ commands' = s.cmds /\ waiting' = s.wait
    /\ UNCHANGED <<log, posted, net, client, pending, events, replies, faults, nested>>

\* The reply a task waits for, or the failure to send its call.
Reply(job) ==
    {v \in replies : v.id = job.id}
        \cup (IF job.full THEN {Failed(None)} ELSE {})

TakeReply(v) == replies' = replies \ {v} /\ waiting' = waiting \ {v.id}

-----------------------------------------------------------------------------
(* read_done.                                                                 *)

\* The unsubscribe of a reset succeeded: the same read goes on to subscribe.
SyncContinues ==
    /\ ui.sync # None /\ ui.sync.step = "unsubscribe"
    /\ \E v \in Reply(ui.sync) :
         /\ v.ok
         /\ ui' = [ui EXCEPT !.sync.step = "subscribe", !.sync.id = None]
         /\ TakeReply(v)
    /\ UNCHANGED <<log, posted, net, client, pending, events, commands, faults, nested>>

\* A page was received.  The view is live when the page is the last one, fits, no gap
\* was met meanwhile and everything it covers is applied; otherwise it syncs again.
SyncPage(u, job, v) ==
    LET applied == Apply(u, v.ws, v.lo, v.hi)
        live == /\ v.live /\ Fits(u, v) /\ ~ job.gapped
                /\ applied.applied = v.hi
    IN IF live THEN [applied EXCEPT !.synced = TRUE] ELSE Enqueue(applied, "Sync")

SyncDone ==
    /\ ui.sync # None
    /\ \E v \in Reply(ui.sync) :
         /\ ui.sync.step = "subscribe" \/ ~ v.ok
         /\ LET u == [ui EXCEPT !.sync = None] IN
            Loop(IF v.ok /\ Accepts(ui, ui.sync) THEN SyncPage(u, ui.sync, v) ELSE u, commands)
         /\ TakeReply(v)
    /\ UNCHANGED <<log, posted, net, client, pending, events, faults, nested>>

\* apply_recent_page: the first page seeds the cursor below its oldest event.
RecentPage(u, v) ==
    IF v.ws # u.ws THEN u
    ELSE Enqueue(IF u.applied = Absent
                 THEN Apply([u EXCEPT !.applied = v.lo], v.ws, v.lo, v.hi) ELSE u, "Sync")

RecentDone ==
    /\ ui.recent # None
    /\ \E v \in Reply(ui.recent) :
         /\ LET u == [ui EXCEPT !.recent = None] IN
            Loop(IF v.ok /\ Accepts(ui, ui.recent) THEN RecentPage(u, v) ELSE u, commands)
         /\ TakeReply(v)
    /\ UNCHANGED <<log, posted, net, client, pending, events, faults, nested>>

-----------------------------------------------------------------------------
(* Connection changes.                                                        *)

NewAction(step, old, target) ==
    [step |-> step, id |-> None, full |-> FALSE, old |-> old, target |-> target, fenced |-> FALSE]

\* restore_previous: rejoin the room the view still shows, now or once connected.
\* Without such a room the recovery task fails at once.
RestorePrevious(u, old) ==
    IF u.conn # "up"
    THEN IF old # None THEN [u EXCEPT !.restore = old, !.act = None]
         ELSE [u EXCEPT !.switching = None, !.act = None]
    ELSE [u EXCEPT !.act = IF old = None
                           THEN [NewAction("restore", None, None) EXCEPT !.full = TRUE]
                           ELSE NewAction("restore", old, None)]

Uncertain(u) == [u EXCEPT !.chat = IF @ = "sent" THEN "uncertain" ELSE @]

\* The state watch shows only the latest value: a disconnection may go unseen.
Observe ==
    /\ client.news
    /\ client' = [client EXCEPT !.news = FALSE]
    /\ LET fenced == [FenceAll(ui) EXCEPT !.synced = FALSE] IN
       IF client.phase # "up"
       THEN Loop(Uncertain([fenced EXCEPT !.conn = "down"]), commands)
       ELSE LET up   == [fenced EXCEPT !.conn = "up"]
                back == IF up.restore = None THEN up
                        ELSE RestorePrevious([up EXCEPT !.restore = None], up.restore)
            IN Loop(IF back.ws = None THEN back
                    ELSE Enqueue(back, IF back.applied = Absent THEN "Recent" ELSE "Sync"), commands)
    /\ UNCHANGED <<log, posted, net, pending, events, waiting, replies, faults, nested>>

-----------------------------------------------------------------------------
(* Switching rooms.                                                           *)

\* Dropping the future of a call cancels it, if the queue has room for the command.
Dropped(jobs) == {job.id : job \in {j \in jobs : j # None /\ j.id # None}}

CancelAll(ids) ==
    LET cancels == SetToSeq({Cancel(i) : i \in ids}) IN
    commands \o SubSeq(cancels, 1, Min({Len(cancels), CommandCap - Len(commands)}))

\* begin_switch, then the reads are cancelled and the switch is spawned.
SelectWorkspace(target) ==
    /\ ui.act = None /\ ui.ws # target /\ ui.conn = "up"
    /\ ui.switching = None /\ ui.chat = "idle" /\ ui.switches < MaxSwitches
    /\ LET ids == Dropped({ui.sync, ui.recent}) IN
       /\ Loop([ui EXCEPT !.switching = target, !.switches = @ + 1, !.synced = FALSE,
                          !.sync = None, !.recent = None, !.queued = {},
                          !.act = NewAction(IF ui.ws = None THEN "join" ELSE "unsubscribe",
                                            ui.ws, target)],
               CancelAll(ids))
       /\ waiting' = waiting \ ids
       /\ replies' = {v \in replies : v.id \notin ids}
    /\ UNCHANGED <<log, posted, net, client, pending, events, faults, nested>>

\* switch_workspace: what the task does after a step, or how it ends.
NextStep(act, ok) ==
    IF ok
    THEN IF act.step = "unsubscribe" THEN "leave"
         ELSE IF act.step = "leave" THEN "join"
         ELSE IF act.step = "join" THEN "Joined"
         ELSE "Restored"
    ELSE IF act.step = "join" /\ act.old # None THEN "rejoin"
         ELSE IF act.step \in {"rejoin", "restore"} THEN "RecoveryFailed"
         ELSE "Restored"

ActionContinues ==
    /\ ui.act # None /\ ui.act.step # "post"
    /\ \E v \in Reply(ui.act) :
         LET step == NextStep(ui.act, v.ok) IN
         /\ step \in {"leave", "join", "rejoin"}
         /\ ui' = [ui EXCEPT !.act.step = step, !.act.id = None, !.act.full = FALSE]
         /\ TakeReply(v)
    /\ UNCHANGED <<log, posted, net, client, pending, events, commands, faults, nested>>

\* commit_workspace: a new room with nothing applied.
CommitWorkspace(u, w) ==
    Enqueue([u EXCEPT !.ws = w, !.switching = None, !.applied = Absent, !.synced = FALSE,
                      !.ack = 0, !.chat = "idle", !.reset = FALSE], "Recent")

SwitchEnds(u, act, result) ==
    IF ~ Accepts(u, act) THEN RestorePrevious(u, u.ws)
    ELSE IF result = "Joined" THEN CommitWorkspace([u EXCEPT !.act = None], act.target)
    ELSE IF result = "Restored"
    THEN Enqueue([u EXCEPT !.act = None, !.switching = None, !.reset = TRUE], "Sync")
    ELSE [u EXCEPT !.act = None, !.switching = None, !.conn = "closed", !.synced = FALSE]

SwitchDone ==
    /\ ui.act # None /\ ui.act.step # "post"
    /\ \E v \in Reply(ui.act) :
         LET result == NextStep(ui.act, v.ok) IN
         /\ result \in {"Joined", "Restored", "RecoveryFailed"}
         /\ Loop(SwitchEnds(ui, ui.act, result), commands)
         /\ TakeReply(v)
    /\ UNCHANGED <<log, posted, net, client, pending, events, faults, nested>>

-----------------------------------------------------------------------------
(* Chat and refresh.                                                          *)

Writable == ui.conn = "up" /\ ui.ws # None /\ ui.synced /\ ui.switching = None

\* chat(false) takes a new request identifier, chat(true) repeats the uncertain one.
SubmitChat ==
    /\ ui.act = None /\ Writable /\ ui.chat = "idle" /\ ui.posts < MaxPosts
    /\ posted' = {}
    /\ Loop([ui EXCEPT !.chat = "sent", !.posts = @ + 1,
                       !.act = NewAction("post", None, None)], commands)
    /\ UNCHANGED <<log, net, client, pending, events, waiting, replies, faults, nested>>

RetryChat ==
    /\ ui.act = None /\ Writable /\ ui.chat = "uncertain"
    /\ Loop([ui EXCEPT !.chat = "sent", !.act = NewAction("post", None, None)], commands)
    /\ UNCHANGED <<log, posted, net, client, pending, events, waiting, replies, faults, nested>>

\* MUTANT of ChatOutcome: a chat without an answer counts as refused.
MutUnansweredIsRefused(u, act, v) ==
    IF Accepts(u, act) /\ (v.ok => v.ws = u.ws) THEN [u EXCEPT !.chat = "idle"] ELSE Uncertain(u)

\* Posted in the shown room, or refused by the router, settles the chat; any other
\* outcome, and every outcome of an earlier epoch, leaves it uncertain.
ChatOutcome(u, act, v) ==
    IF Accepts(u, act) /\ v.answered /\ (v.ok => v.ws = u.ws)
    THEN [u EXCEPT !.chat = "idle"] ELSE Uncertain(u)

ChatDone ==
    /\ ui.act # None /\ ui.act.step = "post"
    /\ \E v \in Reply(ui.act) :
         /\ Loop(ChatOutcome([ui EXCEPT !.act = None], ui.act, v), commands)
         /\ TakeReply(v)
    /\ UNCHANGED <<log, posted, net, client, pending, events, faults, nested>>

RecentHistory ==
    /\ ui.ws # None /\ ui.refreshes < MaxRefresh
    /\ Loop([Enqueue(ui, "Recent") EXCEPT !.refreshes = @ + 1], commands)
    /\ UNCHANGED <<log, posted, net, client, pending, events, waiting, replies, faults, nested>>

-----------------------------------------------------------------------------
Init ==
    /\ FeedInit
    /\ ui = [ws |-> None, applied |-> Absent, synced |-> FALSE, conn |-> "up",
             switching |-> None, restore |-> None, reset |-> FALSE, ack |-> 0, queued |-> {},
             sync |-> None, recent |-> None, act |-> None,
             chat |-> "idle", posts |-> 0, refreshes |-> 0, switches |-> 0]

Controller ==
    \/ TakeEvent \/ Observe
    \/ SendSync \/ SyncContinues \/ SyncDone
    \/ SendRecent \/ RecentDone
    \/ SendAction \/ ActionContinues \/ SwitchDone \/ ChatDone

User ==
    \/ SubmitChat \/ RetryChat \/ RecentHistory
    \/ \E w \in Workspace : SelectWorkspace(w)

Next ==
    \/ RouterStep /\ UNCHANGED ui
    \/ ClientStep /\ UNCHANGED ui
    \/ Controller
    \/ User

Spec == Init /\ [][Next]_vars

\* The router, the client's connection task and the controller's loop are three tasks
\* of the runtime: none that can go on waits for ever.  The loop selects among its ready
\* branches in random order, so neither an event nor a state change waits for ever.
Fairness ==
    /\ WF_vars(RouterHandle /\ UNCHANGED ui)
    /\ WF_vars(ClientProgress /\ UNCHANGED ui)
    /\ WF_vars(Controller) /\ WF_vars(TakeEvent) /\ WF_vars(Observe)

FairSpec == Spec /\ Fairness

-----------------------------------------------------------------------------
(* Properties.                                                                *)

\* Nothing is on its way between the store and the view.
Quiet ==
    /\ client.phase = "up" /\ net.up /\ ~ client.news
    /\ commands = <<>> /\ events = <<>> /\ net.req = <<>> /\ net.out = <<>>
    /\ pending = {} /\ replies = {}
    /\ ui.sync = None /\ ui.recent = None /\ ui.act = None /\ ui.queued = {}

\* A console that says it is live and has nothing on its way is subscribed and shows the
\* whole log, whatever was cut, replayed, dropped for want of room or delivered out of
\* order before (workspace_subscribe, pump, restore_subscription, read_done).
SyncedIsCurrent ==
    Quiet /\ ui.conn = "up" /\ ui.synced /\ net.member = ui.ws =>
        net.sub /\ ui.applied = log[ui.ws]

\* The cursor a reconnection resumes from never passes what the console has applied:
\* no event is skipped by a replay (ack_event, flush_ack, ConnectionMemory).
AckedIsApplied ==
    ui.ws # None /\ client.subscribed = ui.ws => client.acked[ui.ws] <= ui.applied

\* While it restores a subscription the client meets only the frames it waits for and
\* membership notices, never a live event, which restore_subscription would refuse.
RestorationUnderstood ==
    net.out # <<>> =>
        /\ client.phase = "joining" => Head(net.out).t \in {"joined", "changed"}
        /\ client.phase = "restoring" => Head(net.out).t \in {"page", "changed"}

\* A chat is stored at most once, however often its uncertain outcome is retried over
\* new connections (Composer::retry, workspace_post).
ChatStoredOnce == Cardinality(posted) <= 1

\* The composer gives a chat up only once the log has it (wire_done, apply_event).
SettledChatIsStored == ui.posts > 0 /\ ui.chat = "idle" => posted # {}

\* When faults and publications end, the console of a selected room becomes live and has
\* applied the whole log, and stays so.
EventuallyCurrent ==
    <>[](ui.ws # None => ui.synced /\ net.sub /\ ui.applied = log[ui.ws])

=============================================================================
