-------------------------------- MODULE Feed --------------------------------
(* The live event feed of one operator connection: the router's subscription  *)
(* handlers (src/src/router.rs), the event numbering of the store             *)
(* (src/src/store.rs) and the reconnecting client (src/src/client.rs).        *)
(*                                                                            *)
(* Events of a workspace are the numbers 1 .. log[w].  A page is an interval  *)
(* lo + 1 .. hi of them.  The caller of the client (module Console) owns the  *)
(* set waiting of calls whose future is alive and takes values from replies.  *)
EXTENDS Integers, Sequences, FiniteSets, SequencesExt, FiniteSetsExt

CONSTANTS
    Workspace,        \* workspace names
    None,             \* absent Option
    Id,               \* request identifiers of calls; bound: those in use at a time
    RestoreId,        \* the request identifier of the restoring connection itself
    PageLimit,        \* MAX_PAGE_LIMIT events per page
    OutCap,           \* frames the router queues for the connection
    EventCap,         \* CLIENT_EVENT_CAPACITY
    CommandCap,       \* CLIENT_COMMAND_CAPACITY
    MaxSeq,           \* bound: events other members publish per workspace
    MaxPosts,         \* bound: chats of this operator
    MaxSwitches,      \* bound: rooms the user selects
    MaxRefresh,       \* bound: explicit reloads of the recent history
    MaxFaults,        \* bound: cut links and expired restorations
    MaxNested         \* bound: events published from inside another publication

ASSUME FeedAssumption ==
    /\ None \notin Workspace \cup Id /\ RestoreId \notin Id
    /\ PageLimit \in Nat \ {0} /\ OutCap \in Nat \ {0}
    /\ EventCap \in Nat \ {0} /\ CommandCap \in Nat \ {0}
    /\ MaxSeq \in Nat /\ MaxPosts \in Nat /\ MaxRefresh \in Nat /\ MaxSwitches \in Nat
    /\ MaxFaults \in Nat /\ MaxNested \in Nat

VARIABLES
    log,        \* next_seq - 1 of each workspace
    posted,     \* the stored chats that carry the current request identifier
    net,        \* the connection: the router's row for it and both directions
    client,     \* ConnectionMemory, with the phase of connection_task
    pending,    \* calls the pump has sent and not answered
    events,     \* the bounded channel to the consumer
    commands,   \* the bounded channel to connection_task
    waiting,    \* calls whose caller still holds the receiver
    replies,    \* values sent to those receivers and not yet taken
    faults,     \* cuts and expired restorations so far
    nested      \* nested publications so far

feedVars == <<log, posted, net, client, pending, events, commands, waiting, replies, faults, nested>>

Absent == -1    \* no entry in a cursor map

\* A call is a record [id, kind, ws, after] with kind "join", "leave", "subscribe",
\* "unsubscribe", "history" or "post"; a frame is a record [t, id, ws, lo, hi, live].

-----------------------------------------------------------------------------
(* Frames and the router's bounded queue.                                     *)

EventFrame(w, n) ==
    [t |-> "event", id |-> None, ws |-> w, lo |-> n, hi |-> n, live |-> FALSE]

Answer(t, c, w, lo, hi, live) ==
    [t |-> t, id |-> c.id, ws |-> w, lo |-> lo, hi |-> hi, live |-> live]

Changed(w, cursor) ==
    [t |-> "changed", id |-> None, ws |-> w, lo |-> cursor, hi |-> cursor, live |-> FALSE]

ErrorFrame(c) == Answer("error", c, None, 0, 0, FALSE)

\* The router's view of a connection that is gone: no membership, no subscription.
Closed(out) == [up |-> FALSE, member |-> None, sub |-> FALSE, req |-> <<>>, out |-> out]

\* send: frames are queued in order; the first that finds the queue full closes the
\* connection, and the peer still reads some prefix of what was queued.
Send(row, frames) ==
    LET all == row.out \o frames IN
    IF Len(all) <= OutCap
    THEN net' = [row EXCEPT !.out = all]
    ELSE \E k \in 0 .. OutCap : net' = Closed(SubSeq(all, 1, k))

-----------------------------------------------------------------------------
(* Router: publication and the workspace handlers.                            *)

Publish(w) ==
    /\ log[w] < MaxSeq
    /\ log' = [log EXCEPT ![w] = @ + 1]
    /\ IF net.sub /\ net.member = w
       THEN Send(net, <<EventFrame(w, log[w] + 1)>>)
       ELSE UNCHANGED net
    /\ UNCHANGED <<posted, client, pending, events, commands, waiting, replies, faults, nested>>

\* finish_pending_error commits the task event and the result event, then publishes
\* the first; fanout disconnects another, overloaded subscriber on the way, and that
\* disconnect commits and publishes an event before the result is published.
PublishNested(w) ==
    /\ nested < MaxNested /\ log[w] + 3 <= MaxSeq
    /\ nested' = nested + 1
    /\ log' = [log EXCEPT ![w] = @ + 3]
    /\ IF net.sub /\ net.member = w
       THEN Send(net, <<EventFrame(w, log[w] + 1), EventFrame(w, log[w] + 3),
                        EventFrame(w, log[w] + 2)>>)
       ELSE UNCHANGED net
    /\ UNCHANGED <<posted, client, pending, events, commands, waiting, replies, faults>>

\* The ends a page after cursor a may have: at most PageLimit events, possibly fewer
\* because of the byte limit, at least one when there is one.
PageEnds(w, a) ==
    IF a = log[w] THEN {a} ELSE (a + 1) .. Min({a + PageLimit, log[w]})

WorkspaceJoin(row, c) ==
    /\ \/ /\ row.member = c.ws
          /\ Send(row, <<Answer("joined", c, c.ws, log[c.ws], log[c.ws], FALSE)>>)
       \/ /\ row.member = None
          /\ Send([row EXCEPT !.member = c.ws],
                  <<Answer("joined", c, c.ws, log[c.ws], log[c.ws], FALSE), Changed(c.ws, log[c.ws])>>)
       \/ row.member \notin {None, c.ws} /\ Send(row, <<ErrorFrame(c)>>)
    /\ UNCHANGED <<log, posted>>

WorkspaceLeave(row, c) ==
    /\ IF row.member = None
       THEN Send(row, <<Answer("left", c, None, 0, 0, FALSE)>>)
       ELSE Send([row EXCEPT !.member = None, !.sub = FALSE],
                 <<Answer("left", c, None, 0, 0, FALSE), Changed(None, 0)>>)
    /\ UNCHANGED <<log, posted>>

\* MUTANT of WorkspaceSubscribe: the subscriber is registered with the first page.
MutSubscribeBeforeLive(row, c) ==
    LET w == row.member IN
    /\ IF w = None \/ (w # None /\ c.after > log[w])
       THEN Send(row, <<ErrorFrame(c)>>)
       ELSE \E hi \in PageEnds(w, c.after) :
              Send([row EXCEPT !.sub = TRUE], <<Answer("page", c, w, c.after, hi, hi = log[w])>>)
    /\ UNCHANGED <<log, posted>>

\* The subscriber is registered exactly when the page reaches the end of the log.
WorkspaceSubscribe(row, c) ==
    LET w == row.member IN
    /\ IF w = None \/ (w # None /\ c.after > log[w])
       THEN Send(row, <<ErrorFrame(c)>>)
       ELSE \E hi \in PageEnds(w, c.after) :
              LET live == hi = log[w] IN
              Send([row EXCEPT !.sub = @ \/ live],
                   <<Answer("page", c, w, c.after, hi, live)>>)
    /\ UNCHANGED <<log, posted>>

WorkspaceUnsubscribe(row, c) ==
    /\ IF row.member = None
       THEN Send(row, <<ErrorFrame(c)>>)
       ELSE Send([row EXCEPT !.sub = FALSE], <<Answer("unsubscribed", c, row.member, 0, 0, FALSE)>>)
    /\ UNCHANGED <<log, posted>>

\* workspace_history without a cursor: the newest events, cut at the byte limit.
WorkspaceHistory(row, c) ==
    LET w == row.member IN
    /\ IF w = None
       THEN Send(row, <<ErrorFrame(c)>>)
       ELSE LET lo == Max({0, log[w] - PageLimit}) IN
            \E hi \in PageEnds(w, lo) : Send(row, <<Answer("history", c, w, lo, hi, FALSE)>>)
    /\ UNCHANGED <<log, posted>>

\* MUTANT of WorkspacePost: a repeated request identifier is stored again.
MutPostWithoutReceipt(row, c) ==
    LET w == row.member IN
    IF w = None
    THEN Send(row, <<ErrorFrame(c)>>) /\ UNCHANGED <<log, posted>>
    ELSE /\ log' = [log EXCEPT ![w] = @ + 1]
         /\ posted' = posted \cup {[ws |-> w, seq |-> log[w] + 1]}
         /\ Send(row, <<Answer("posted", c, w, 0, 0, FALSE)>>
                      \o (IF row.sub THEN <<EventFrame(w, log[w] + 1)>> ELSE <<>>))

\* The chat goes to the connection's own workspace, whatever room the caller had in
\* mind; a repeated request identifier is answered and not published again.
WorkspacePost(row, c) ==
    LET w == row.member IN
    IF w = None \/ \E p \in posted : p.ws = w
    THEN /\ Send(row, IF w = None THEN <<ErrorFrame(c)>>
                      ELSE <<Answer("posted", c, w, 0, 0, FALSE)>>)
         /\ UNCHANGED <<log, posted>>
    ELSE /\ log' = [log EXCEPT ![w] = @ + 1]
         /\ posted' = posted \cup {[ws |-> w, seq |-> log[w] + 1]}
         /\ Send(row, <<Answer("posted", c, w, 0, 0, FALSE)>>
                      \o (IF row.sub THEN <<EventFrame(w, log[w] + 1)>> ELSE <<>>))

RouterHandle ==
    /\ net.up /\ net.req # <<>>
    /\ LET c == Head(net.req)
           row == [net EXCEPT !.req = Tail(@)]
       IN \/ c.kind = "join" /\ WorkspaceJoin(row, c)
          \/ c.kind = "leave" /\ WorkspaceLeave(row, c)
          \/ c.kind = "subscribe" /\ WorkspaceSubscribe(row, c)
          \/ c.kind = "unsubscribe" /\ WorkspaceUnsubscribe(row, c)
          \/ c.kind = "history" /\ WorkspaceHistory(row, c)
          \/ c.kind = "post" /\ WorkspacePost(row, c)
    /\ UNCHANGED <<client, pending, events, commands, waiting, replies, faults, nested>>

\* The transport fails; the client still reads some prefix of the frames on the way.
Cut ==
    /\ net.up /\ faults < MaxFaults
    /\ faults' = faults + 1
    /\ \E k \in 0 .. Len(net.out) : net' = Closed(SubSeq(net.out, 1, k))
    /\ UNCHANGED <<log, posted, client, pending, events, commands, waiting, replies, nested>>

-----------------------------------------------------------------------------
(* ConnectionMemory.                                                          *)

\* What a call returns: an answer of the router, ok or an error, or no answer at all.
Answered(f) == [id |-> f.id, answered |-> TRUE, ok |-> f.t # "error",
                ws |-> f.ws, lo |-> f.lo, hi |-> f.hi, live |-> f.live]

Failed(id) == [id |-> id, answered |-> FALSE, ok |-> FALSE,
               ws |-> None, lo |-> 0, hi |-> 0, live |-> FALSE]

\* A value sent on a receiver whose caller is gone is dropped.
Deliver(values) == replies' = replies \cup {v \in values : v.id \in waiting}

AdvanceCursor(m, w, n) == [m EXCEPT !.acked[w] = Max({@, n, 0})]

EntryOrInsert(m, w, n) == [m EXCEPT !.acked[w] = IF @ = Absent THEN n ELSE @]

MembershipChanged(m, w, cursor) ==
    LET forgotten == [m EXCEPT !.subscribed = IF @ = w THEN @ ELSE None, !.desired = w]
    IN IF w = None THEN forgotten ELSE EntryOrInsert(forgotten, w, cursor)

AlreadyEnqueued(m, f) == f.t = "event" /\ m.highest[f.ws] >= f.lo

Remember(m, f) == IF f.t = "event" THEN [m EXCEPT !.highest[f.ws] = f.lo] ELSE m

\* What the consumer receives: an event, or a membership notice (ws = None).
Item(f) == IF f.t = "event" THEN [ws |-> f.ws, seq |-> f.lo] ELSE [ws |-> None, seq |-> 0]

\* The pump ends: every pending call fails, the state watch shows Reconnecting.
PumpEnds(m) ==
    /\ client' = [m EXCEPT !.phase = "down", !.news = TRUE]
    /\ net' = Closed(<<>>)
    /\ pending' = {}
    /\ Deliver({Failed(p.id) : p \in pending})

-----------------------------------------------------------------------------
(* The pump: commands, incoming frames, end of stream.                        *)

SubscriptionCall(c) == c.kind \in {"subscribe", "unsubscribe"}

\* latest stands for subscription_revision: no later subscription call was sent.
SendRpc(c) ==
    LET entry == [id |-> c.id, kind |-> c.kind, after |-> c.after, latest |-> SubscriptionCall(c),
                  ws |-> IF SubscriptionCall(c) THEN client.desired ELSE None]
        older == IF SubscriptionCall(c)
                 THEN {[p EXCEPT !.latest = FALSE] : p \in pending} ELSE pending
    IN pending' = older \cup {entry}

PumpRpc(c) ==
    \/ /\ SendRpc(c)
       /\ net' = IF net.up THEN [net EXCEPT !.req = Append(@, c)] ELSE net
       /\ UNCHANGED <<client, replies>>
    \/ /\ ~ net.up
       /\ client' = [client EXCEPT !.phase = "down", !.news = TRUE]
       /\ net' = Closed(<<>>)
       /\ pending' = {}
       /\ Deliver({Failed(p.id) : p \in pending} \cup {Failed(c.id)})

PumpCancel(id) ==
    LET call == {p \in pending : p.id = id} IN
    IF \E p \in call : p.kind = "leave"
    THEN /\ client' = [client EXCEPT !.phase = "down", !.news = TRUE,
                                     !.desired = None, !.subscribed = None]
         /\ net' = Closed(<<>>)
         /\ pending' = {}
         /\ Deliver({Failed(p.id) : p \in pending \ call})
    ELSE pending' = pending \ call /\ UNCHANGED <<client, net, replies>>

PumpCommand ==
    /\ client.phase = "up" /\ commands # <<>>
    /\ LET cmd == Head(commands) IN
       \/ cmd.op = "rpc" /\ PumpRpc(cmd.call)
       \/ cmd.op = "cancel" /\ PumpCancel(cmd.id)
       \/ /\ cmd.op = "ack"
          /\ client' = AdvanceCursor(client, cmd.ws, cmd.seq)
          /\ UNCHANGED <<net, pending, replies>>
    /\ commands' = Tail(commands)
    /\ UNCHANGED <<log, posted, events, waiting, faults, nested>>

\* MUTANT of EnqueueOrDisconnect: what does not fit into the channel is dropped.
MutEnqueueOrDrop(m, f) ==
    /\ client' = IF AlreadyEnqueued(m, f) THEN m ELSE Remember(m, f)
    /\ events' = IF AlreadyEnqueued(m, f) \/ Len(events) >= EventCap THEN events
                 ELSE Append(events, Item(f))
    /\ net' = [net EXCEPT !.out = Tail(@)]
    /\ UNCHANGED <<pending, replies>>

\* enqueue_event of the pump: an event not newer than the last one is dropped, a full
\* channel ends the connection.
EnqueueOrDisconnect(m, f) ==
    IF AlreadyEnqueued(m, f)
    THEN client' = m /\ net' = [net EXCEPT !.out = Tail(@)] /\ UNCHANGED <<events, pending, replies>>
    ELSE IF Len(events) >= EventCap
         THEN PumpEnds(m) /\ UNCHANGED events
         ELSE /\ client' = Remember(m, f)
              /\ events' = Append(events, Item(f))
              /\ net' = [net EXCEPT !.out = Tail(@)]
              /\ UNCHANGED <<pending, replies>>

\* What an answer does to the memory before its call is looked up.
ResponseMemory(f) ==
    IF f.t = "joined" THEN EntryOrInsert([client EXCEPT !.desired = f.ws], f.ws, f.lo)
    ELSE IF f.t = "left" THEN [client EXCEPT !.desired = None, !.subscribed = None]
    ELSE client

\* MUTANT of CallEffect: the cursor moves to the end of the page, not yet applied.
MutCursorAfterPage(m, p, f) ==
    IF p.latest /\ p.ws = m.desired /\ p.ws = f.ws /\ p.kind = "subscribe" /\ f.t = "page"
    THEN [m EXCEPT !.acked[f.ws] = f.hi, !.highest[f.ws] = 0,
                   !.subscribed = IF f.live THEN f.ws ELSE @]
    ELSE m

\* The subscription effect of an answer, only for the latest call of the same room.
CallEffect(m, p, f) ==
    IF ~ (p.latest /\ p.ws = m.desired /\ p.ws = f.ws) THEN m
    ELSE IF p.kind = "subscribe" /\ f.t = "page"
    THEN [m EXCEPT !.acked[f.ws] = p.after, !.highest[f.ws] = 0,
                   !.subscribed = IF f.live THEN f.ws ELSE @]
    ELSE IF p.kind = "unsubscribe" /\ f.t = "unsubscribed" /\ m.subscribed = f.ws
    THEN [m EXCEPT !.subscribed = None]
    ELSE m

PumpResponse(f) ==
    LET call == {p \in pending : p.id = f.id}
        m    == ResponseMemory(f)
    IN /\ client' = IF call = {} THEN m ELSE CallEffect(m, CHOOSE p \in call : TRUE, f)
       /\ pending' = pending \ call
       /\ Deliver(IF call = {} THEN {} ELSE {Answered(f)})
       /\ net' = [net EXCEPT !.out = Tail(@)]
       /\ UNCHANGED events

PumpIncoming ==
    /\ client.phase = "up" /\ net.out # <<>>
    /\ LET f == Head(net.out) IN
       \/ f.t = "event" /\ EnqueueOrDisconnect(client, f)
       \/ f.t = "changed" /\ EnqueueOrDisconnect(MembershipChanged(client, f.ws, f.lo), f)
       \/ f.t \notin {"event", "changed"} /\ PumpResponse(f)
    /\ UNCHANGED <<log, posted, commands, waiting, faults, nested>>

PumpEof ==
    /\ client.phase = "up" /\ ~ net.up /\ net.out = <<>>
    /\ PumpEnds(client)
    /\ UNCHANGED <<log, posted, events, commands, waiting, faults, nested>>

-----------------------------------------------------------------------------
(* Reconnection: establish and restore_subscription.                          *)

\* handle_disconnected_command, while waiting to reconnect and while restoring.
DisconnectedCommand ==
    /\ client.phase # "up" /\ commands # <<>>
    /\ LET cmd == Head(commands) IN
       /\ client' = IF cmd.op = "ack" THEN AdvanceCursor(client, cmd.ws, cmd.seq) ELSE client
       /\ Deliver(IF cmd.op = "rpc" THEN {Failed(cmd.call.id)} ELSE {})
    /\ commands' = Tail(commands)
    /\ UNCHANGED <<log, posted, net, pending, events, waiting, faults, nested>>

RestoreCall(kind, w, after) == [id |-> RestoreId, kind |-> kind, ws |-> w, after |-> after]

Connected(m) == [m EXCEPT !.phase = "up", !.news = TRUE]

\* A fresh connection registers; it has no membership until it rejoins.
Connect ==
    /\ client.phase = "down"
    /\ LET fresh == [Closed(<<>>) EXCEPT !.up = TRUE] IN
       IF client.desired = None
       THEN net' = fresh /\ client' = Connected(client)
       ELSE /\ net' = [fresh EXCEPT !.req = <<RestoreCall("join", client.desired, 0)>>]
            /\ client' = [client EXCEPT !.phase = "joining"]
    /\ UNCHANGED <<log, posted, pending, events, commands, waiting, replies, faults, nested>>

\* A notice that arrives during restoration waits for room in the event channel.
RestoreNotice ==
    /\ client.phase \in {"joining", "restoring"} /\ net.out # <<>>
    /\ LET f == Head(net.out) IN
       /\ f.t = "changed" /\ Len(events) < EventCap
       /\ client' = MembershipChanged(client, f.ws, f.lo)
       /\ events' = Append(events, Item(f))
    /\ net' = [net EXCEPT !.out = Tail(@)]
    /\ UNCHANGED <<log, posted, pending, commands, waiting, replies, faults, nested>>

Resubscribe(row, w, after) ==
    [row EXCEPT !.req = IF row.up THEN Append(@, RestoreCall("subscribe", w, after)) ELSE @]

RestoreJoined ==
    /\ client.phase = "joining" /\ net.out # <<>>
    /\ Head(net.out).t = "joined" /\ Head(net.out).id = RestoreId
    /\ LET row == [net EXCEPT !.out = Tail(@)]
           w   == client.desired
       IN IF w # None /\ client.subscribed = w
          THEN /\ net' = Resubscribe(row, w, Max({client.acked[w], 0}))
               /\ client' = [client EXCEPT !.phase = "restoring"]
          ELSE net' = row /\ client' = Connected(client)
    /\ UNCHANGED <<log, posted, pending, events, commands, waiting, replies, faults, nested>>

RestorePage ==
    /\ client.phase = "restoring" /\ net.out # <<>>
    /\ LET f == Head(net.out) IN
       /\ f.t = "page" /\ f.id = RestoreId
       /\ client' = IF client.desired = f.ws /\ client.subscribed = f.ws
                    THEN [client EXCEPT !.phase = "replaying",
                                        !.page = [ws |-> f.ws, lo |-> f.lo, hi |-> f.hi, live |-> f.live]]
                    ELSE Connected(client)
    /\ net' = [net EXCEPT !.out = Tail(@)]
    /\ UNCHANGED <<log, posted, pending, events, commands, waiting, replies, faults, nested>>

EmptyPage == [ws |-> None, lo |-> 0, hi |-> 0, live |-> FALSE]

\* enqueue_restored_event: one event of the page, waiting for room in the channel.
RestoreEvent ==
    LET p == client.page
        f == EventFrame(p.ws, p.lo + 1)
        m == [client EXCEPT !.page.lo = @ + 1]
    IN /\ client.phase = "replaying" /\ p.lo < p.hi
       /\ \/ AlreadyEnqueued(client, f) /\ client' = m /\ UNCHANGED events
          \/ /\ ~ AlreadyEnqueued(client, f) /\ Len(events) < EventCap
             /\ client' = Remember(m, f)
             /\ events' = Append(events, Item(f))
       /\ UNCHANGED <<log, posted, net, pending, commands, waiting, replies, faults, nested>>

RestorePageDone ==
    LET p == client.page IN
    /\ client.phase = "replaying" /\ p.lo = p.hi
    /\ IF p.live
       THEN client' = [Connected(client) EXCEPT !.page = EmptyPage] /\ UNCHANGED net
       ELSE /\ client' = [client EXCEPT !.phase = "restoring", !.page = EmptyPage]
            /\ net' = Resubscribe(net, p.ws, p.hi)
    /\ UNCHANGED <<log, posted, pending, events, commands, waiting, replies, faults, nested>>

Abandon ==
    /\ client' = [client EXCEPT !.phase = "down", !.page = EmptyPage]
    /\ net' = Closed(<<>>)
    /\ UNCHANGED <<log, posted, pending, events, commands, waiting, replies, nested>>

\* The restoring connection is lost.
RestoreLost ==
    /\ client.phase \in {"joining", "restoring"} /\ net.out = <<>> /\ ~ net.up
    /\ Abandon /\ UNCHANGED faults

\* A restoration deadline passes while the consumer or the router is slow.
RestoreExpired ==
    /\ client.phase \in {"joining", "restoring", "replaying"} /\ faults < MaxFaults
    /\ faults' = faults + 1
    /\ Abandon

-----------------------------------------------------------------------------
(* The caller's side: call_with_deadline, ack_event, CancelOnDrop.            *)

HasRoom(cmds) == Len(cmds) < CommandCap

Rpc(c) == [op |-> "rpc", call |-> c]

Ack(w, n) == [op |-> "ack", ws |-> w, seq |-> n]

Cancel(id) == [op |-> "cancel", id |-> id]

CommandCall(cmd) == IF cmd.op = "rpc" THEN {cmd.call.id} ELSE {}

\* The request identifiers that nothing in the system mentions any more.
FreshIds ==
    {i \in Id :
        /\ i \notin waiting
        /\ \A p \in pending : p.id # i
        /\ \A v \in replies : v.id # i
        /\ \A k \in DOMAIN commands : i \notin CommandCall(commands[k])
        /\ \A k \in DOMAIN commands : commands[k].op = "cancel" => commands[k].id # i
        /\ \A k \in DOMAIN net.req : net.req[k].id # i
        /\ \A k \in DOMAIN net.out : net.out[k].id # i}

FeedInit ==
    /\ log = [w \in Workspace |-> 0] /\ posted = {}
    /\ net = [Closed(<<>>) EXCEPT !.up = TRUE]
    /\ client = [phase |-> "up", news |-> FALSE, desired |-> None, subscribed |-> None,
                 acked |-> [w \in Workspace |-> Absent], highest |-> [w \in Workspace |-> 0],
                 page |-> EmptyPage]
    /\ pending = {} /\ events = <<>> /\ commands = <<>> /\ waiting = {} /\ replies = {}
    /\ faults = 0 /\ nested = 0

RouterStep == RouterHandle \/ Cut \/ \E w \in Workspace : Publish(w) \/ PublishNested(w)

ClientProgress ==
    \/ PumpCommand \/ PumpIncoming \/ PumpEof
    \/ DisconnectedCommand \/ Connect
    \/ RestoreNotice \/ RestoreJoined \/ RestorePage \/ RestoreEvent \/ RestorePageDone
    \/ RestoreLost

ClientStep == ClientProgress \/ RestoreExpired

=============================================================================
