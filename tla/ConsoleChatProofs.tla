--------------------------- MODULE ConsoleChatProofs --------------------------
(* Proofs about the chats and the live view of Console, on top of the         *)
(* invariants of ConsoleProofs.                                               *)
(*                                                                            *)
(* While a chat is open nothing moves the connection to another room: the     *)
(* console makes one action at a time, an identifier is in one place at a     *)
(* time, so the calls that join, leave or post are those of the action it     *)
(* waits for, and the room the client remembers is the one the router has it  *)
(* in, but for the answers that are still on their way.                       *)
(*                                                                            *)
(* A live view with nothing on its way shows the whole log: from the last page*)
(* of the read it waits for, the newest event is applied, in the channel, or  *)
(* on the link where the client does not drop it as old.                      *)
EXTENDS ConsoleProofs

\* The steps of an action that changes the room.
Switch == {"unsubscribe", "leave", "join", "rejoin", "restore"}

\* The calls only an action makes.
Exclusive == {"join", "leave", "post"}

Asks(step) == IF step \in {"join", "rejoin", "restore"} THEN "join" ELSE step

\* The call is the one the action waits for.
Own(u, kind, i) == i # None /\ u.act # None /\ u.act.id = i /\ Asks(u.act.step) = kind

Posting(u, i) == i # None /\ InStep(u, {"post"}) /\ u.act.id = i

Syncing(u, i) == i # None /\ JobId(u.sync) = i

Chatting(u) == u.chat # "idle" \/ InStep(u, {"post"})

SwitchOK(u) ==
    /\ u.act # None /\ u.act.full => u.act.id = None
    /\ u.restore # None => u.act = None
    /\ InStep(u, Switch) \/ u.restore # None => u.switching # None
    /\ u.switching # None =>
         u.sync = None /\ u.recent = None /\ ~ u.synced /\ u.chat = "idle" /\ ~ InStep(u, {"post"})

\* The view against the room d the client remembers and the stored chats Q.
ShowOK(u, d, Q) ==
    /\ SwitchOK(u)
    /\ u.synced \/ Chatting(u) => d # None
    /\ \A p \in Q : \A q \in Q : p = q
    /\ Chatting(u) => \A p \in Q : p.ws = d
    /\ u.posts > 0 /\ u.chat = "idle" => Q # {}

QueuedChat(u, c) == (c.kind \in Exclusive => Own(u, c.kind, c.id)) /\ (Posting(u, c.id) => c.kind = "post")

RequestChat(u, m, c) ==
    /\ m.phase = "up" /\ c.kind \in Exclusive => Own(u, c.kind, c.id)
    /\ Posting(u, c.id) => c.kind = "post"

FrameChat(u, m, f, Q) ==
    /\ m.phase = "up" => /\ f.t = "joined" => Own(u, "join", f.id)
                         /\ f.t = "left" => Own(u, "leave", f.id)
                         /\ f.t = "posted" => Own(u, "post", f.id)
    /\ Posting(u, f.id) => f.t = "posted" /\ Q # {}
    /\ Syncing(u, f.id) /\ f.t # "error" => m.desired # None

PendingChat(u, p) == p.kind \in Exclusive => Own(u, p.kind, p.id)

ReplyChat(u, m, v, Q) ==
    /\ Posting(u, v.id) /\ v.answered => Q # {}
    /\ Syncing(u, v.id) /\ v.ok => m.desired # None

CallsOK(u, m, n, P, cmds, R, Q) ==
    /\ \A k \in 1 .. Len(cmds) : cmds[k].op = "rpc" => QueuedChat(u, cmds[k].call)
    /\ \A k \in 1 .. Len(n.req) : RequestChat(u, m, n.req[k])
    /\ \A k \in 1 .. Len(n.out) : FrameChat(u, m, n.out[k], Q)
    /\ \A p \in P : PendingChat(u, p)
    /\ \A v \in R : ReplyChat(u, m, v, Q)

\* An identifier is in one place.
PlaceOK(n, P, cmds, R, W) ==
    /\ \A i \in 1 .. Len(n.req) : \A j \in 1 .. Len(n.req) :
          n.req[i].id \in Id /\ n.req[i].id = n.req[j].id => i = j
    /\ \A i \in 1 .. Len(n.out) : \A j \in 1 .. Len(n.out) :
          n.out[i].id \in Id /\ n.out[i].id = n.out[j].id => i = j
    /\ \A i \in 1 .. Len(n.req) : \A j \in 1 .. Len(n.out) : n.req[i].id \in Id => n.req[i].id # n.out[j].id
    /\ \A k \in 1 .. Len(cmds) : \A j \in 1 .. Len(n.out) : cmds[k].op = "rpc" => cmds[k].call.id # n.out[j].id
    /\ \A v \in R : /\ \A i \in 1 .. Len(n.req) : n.req[i].id # v.id
                    /\ \A j \in 1 .. Len(n.out) : n.out[j].id # v.id
                    /\ \A p \in P : p.id # v.id
    /\ \A k \in 1 .. Len(cmds) : cmds[k].op = "cancel" => cmds[k].id \notin W
    /\ ~ n.up => n.req = <<>> /\ ~ n.sub

MoveFrame(f) == f.t \in {"joined", "left"}

\* The frames on their way lead from the room the client remembers to the router's.
WalkOK(n, m) ==
    /\ m.phase = "down" => ~ n.up /\ n.req = <<>> /\ n.out = <<>>
    /\ m.phase = "up" =>
       /\ \A k \in 1 .. Len(n.out) : n.out[k].t = "left" => n.out[k].ws = None
       /\ \A k \in 1 .. Len(n.out) :
            n.out[k].t = "changed" /\ (\A j \in 1 .. k - 1 : ~ MoveFrame(n.out[j])) => n.out[k].ws = m.desired
       /\ \A j \in 1 .. Len(n.out) : \A k \in 1 .. Len(n.out) :
            j < k /\ MoveFrame(n.out[j]) /\ n.out[k].t = "changed" => n.out[k].ws = n.out[j].ws
       /\ n.up /\ (\A k \in 1 .. Len(n.out) : ~ MoveFrame(n.out[k])) => n.member = m.desired
       /\ n.up => \A k \in 1 .. Len(n.out) : MoveFrame(n.out[k]) => n.member = n.out[k].ws

OpenChat(u, m, n, P, cmds, R, W, Q) ==
    /\ ShowOK(u, m.desired, Q) /\ CallsOK(u, m, n, P, cmds, R, Q)
    /\ PlaceOK(n, P, cmds, R, W) /\ WalkOK(n, m)

ChatInv == OpenChat(ui, client, net, pending, commands, replies, waiting, posted)

-----------------------------------------------------------------------------
(* The view changes and no action does.                                       *)

\* The action is where it was, fenced or not.
SameAct(u, v) ==
    /\ u.act = None <=> v.act = None
    /\ u.act # None => v.act.step = u.act.step /\ v.act.id = u.act.id /\ v.act.full = u.act.full

\* What every handler may do to the view.
Calm(u, v, Q) ==
    /\ SameAct(u, v) /\ v.switching = u.switching /\ v.restore = u.restore /\ v.posts = u.posts
    /\ JobId(v.sync) \in {None, JobId(u.sync)}
    /\ u.switching # None => (u.sync = None => v.sync = None) /\ (u.recent = None => v.recent = None)
    /\ v.synced => u.synced
    /\ (v.chat = "idle" <=> u.chat = "idle") \/ (v.chat = "idle" /\ Q # {})

\* One such change after the other.
LEMMA CalmTrans ==
    ASSUME NEW u, NEW v, NEW x, NEW Q, Calm(u, v, Q), Calm(v, x, Q)
    PROVE  Calm(u, x, Q)
<1>1. SameAct(u, x)
  BY DEF Calm, SameAct
<1> QED BY <1>1 DEF Calm

\* The view stays in order with the room and the chats.
LEMMA CalmShow ==
    ASSUME NEW u, NEW v, NEW d, NEW Q, ShowOK(u, d, Q), Calm(u, v, Q)
    PROVE  ShowOK(v, d, Q)
<1>1. \A S : InStep(v, S) <=> InStep(u, S)
  BY DEF Calm, SameAct, InStep
<1>2. Chatting(v) => Chatting(u)
  BY <1>1 DEF Calm, Chatting
<1>3. SwitchOK(v)
  <2>1. SwitchOK(u)
    BY DEF ShowOK
  <2>2. u.switching # None => v.chat = "idle"
    BY <2>1 DEF SwitchOK, Calm
  <2>3. u.switching # None => v.sync = None /\ v.recent = None /\ ~ v.synced
    BY <2>1 DEF SwitchOK, Calm
  <2>4. (v.act # None /\ v.act.full => v.act.id = None) /\ (v.restore # None => v.act = None)
    BY <2>1 DEF SwitchOK, Calm, SameAct
  <2>5. v.switching = u.switching /\ v.restore = u.restore
    BY DEF Calm
  <2> QED BY <1>1, <2>1, <2>2, <2>3, <2>4, <2>5 DEF SwitchOK
<1> QED BY <1>2, <1>3 DEF ShowOK, Calm

\* The calls on their way are those of the same action and the same read.
LEMMA CalmCalls ==
    ASSUME NEW u, NEW v, NEW m, NEW n, NEW P, NEW cmds, NEW R, NEW S \in SUBSET R, NEW Q, CallsOK(u, m, n, P, cmds, R, Q),
           SameAct(u, v), JobId(v.sync) \in {None, JobId(u.sync)}
    PROVE  CallsOK(v, m, n, P, cmds, S, Q)
<1>1. \A i, kind : Own(v, kind, i) <=> Own(u, kind, i)
  BY DEF Own, SameAct
<1>2. \A i : (Posting(v, i) => Posting(u, i)) /\ (Syncing(v, i) => Syncing(u, i))
  BY DEF Posting, Syncing, InStep, SameAct
<1>3. \A c : (QueuedChat(u, c) => QueuedChat(v, c)) /\ (RequestChat(u, m, c) => RequestChat(v, m, c))
  BY <1>1, <1>2 DEF QueuedChat, RequestChat
<1>4. \A f : FrameChat(u, m, f, Q) => FrameChat(v, m, f, Q)
  BY <1>1, <1>2 DEF FrameChat
<1>5. \A p : (PendingChat(u, p) => PendingChat(v, p)) /\ (ReplyChat(u, m, p, Q) => ReplyChat(v, m, p, Q))
  BY <1>1, <1>2 DEF PendingChat, ReplyChat
<1> QED BY <1>3, <1>4, <1>5 DEF CallsOK

\* Commands other than calls, behind the others.
LEMMA MoreCalls ==
    ASSUME NEW u, NEW m, NEW n, NEW P, NEW R, NEW W, NEW Q, NEW cmds \in Seq(Command), NEW more \in Seq(Command),
           CallsOK(u, m, n, P, cmds, R, Q), PlaceOK(n, P, cmds, R, W),
           \A k \in 1 .. Len(more) : \/ k \in 1 .. Len(cmds) /\ more[k] = cmds[k]
                                     \/ more[k].op # "rpc" /\ (more[k].op = "cancel" => more[k].id \notin W)
    PROVE  CallsOK(u, m, n, P, more, R, Q) /\ PlaceOK(n, P, more, R, W)
<1>1. CallsOK(u, m, n, P, more, R, Q)
  BY DEF CallsOK
<1>2. PlaceOK(n, P, more, R, W)
  BY DEF PlaceOK
<1> QED BY <1>1, <1>2

\* Two views that differ in what they queue, acknowledge or read.
LEMMA QuietCalm ==
    ASSUME NEW u, NEW v, NEW Q, v.act = u.act, v.switching = u.switching, v.restore = u.restore, v.posts = u.posts,
           v.sync = u.sync, v.recent = u.recent, v.synced = u.synced, v.chat = u.chat
    PROVE  Calm(u, v, Q)
BY DEF Calm, SameAct

\* schedule starts reads, and not during a switch.
LEMMA ScheduleCalm ==
    ASSUME NEW u \in View, NEW Q
    PROVE  Calm(u, Schedule(u), Q)
<1>1. CASE u.conn # "up" \/ u.switching # None \/ u.ws = None
  BY <1>1 DEF Schedule, Calm, SameAct
<1>2. CASE ~ (u.conn # "up" \/ u.switching # None \/ u.ws = None)
  <2>1. PICK s \in View : s = StartRecent(u) /\ s.act = u.act /\ s.switching = u.switching /\ s.restore = u.restore
                          /\ s.posts = u.posts /\ s.sync = u.sync /\ s.synced = u.synced /\ s.chat = u.chat
    <3>1. PICK r \in Read : r = NewRead("history", u)
      BY NewReadOK
    <3>2. [u EXCEPT !.queued = @ \ {"Recent"}, !.recent = r] \in View
      BY DEF View
    <3>3. StartRecent(u) = u \/ StartRecent(u) = [u EXCEPT !.queued = @ \ {"Recent"}, !.recent = r]
      BY <3>1 DEF StartRecent
    <3> QED BY <3>2, <3>3 DEF View
  <2>2. PICK r \in Read : r = NewRead(IF s.reset THEN "unsubscribe" ELSE "subscribe", s)
    <3>1. NewRead(IF s.reset THEN "unsubscribe" ELSE "subscribe", s) \in Read
      BY NewReadOK
    <3> QED BY <3>1
  <2>3. JobId(r) = None
    BY <2>2 DEF NewRead, JobId
  <2>4. PICK x : x = StartSync(s)
    OBVIOUS
  <2>5. \/ x = s
        \/ x = [s EXCEPT !.queued = @ \ {"Sync"}]
        \/ x = [s EXCEPT !.queued = @ \ {"Sync"}, !.reset = FALSE, !.sync = r]
    BY <2>2, <2>4 DEF StartSync
  <2>6. /\ x.act = s.act /\ x.switching = s.switching /\ x.restore = s.restore /\ x.posts = s.posts
        /\ x.synced = s.synced /\ x.chat = s.chat /\ (x.sync = s.sync \/ x.sync = r)
    BY <2>5 DEF View
  <2>7. Schedule(u) = x
    BY <1>2, <2>1, <2>4 DEF Schedule
  <2>8. JobId(x.sync) \in {None, JobId(u.sync)}
    BY <2>1, <2>3, <2>6
  <2>9. SameAct(u, x)
    BY <2>1, <2>6 DEF SameAct
  <2> QED BY <1>2, <2>1, <2>6, <2>7, <2>8, <2>9 DEF Calm
<1> QED BY <1>1, <1>2

\* The end of every handler.
LEMMA LoopCalm ==
    ASSUME NEW u \in View, NEW m, NEW n, NEW P, NEW R, NEW W, NEW Q, NEW cmds \in Seq(Command), commands' \in Seq(Command),
           CallsOK(u, m, n, P, cmds, R, Q), PlaceOK(n, P, cmds, R, W), Loop(u, cmds)
    PROVE  Calm(u, ui', Q) /\ CallsOK(ui', m, n, P, commands', R, Q) /\ PlaceOK(n, P, commands', R, W)
<1>1. Calm(u, ui', Q)
  <2>1. CASE ~ Flushes(u, cmds)
    BY <2>1, ScheduleCalm DEF Loop
  <2>2. CASE Flushes(u, cmds)
    <3>1. PICK v \in View : v = [u EXCEPT !.ack = 0]
      BY FlushedOK
    <3>2. Calm(u, v, Q)
      <4>1. /\ v.act = u.act /\ v.switching = u.switching /\ v.restore = u.restore /\ v.posts = u.posts
            /\ v.sync = u.sync /\ v.recent = u.recent /\ v.synced = u.synced /\ v.chat = u.chat
        BY <3>1 DEF View
      <4> QED BY <4>1, QuietCalm
    <3>3. ui' = Schedule(v)
      BY <2>2, <3>1 DEF Loop
    <3>4. Calm(v, ui', Q)
      BY <3>3, ScheduleCalm
    <3> QED BY <3>2, <3>4, CalmTrans
  <2> QED BY <2>1, <2>2
<1>2. CallsOK(ui', m, n, P, cmds, R, Q)
  <2>1. R \in SUBSET R /\ SameAct(u, ui') /\ JobId(ui'.sync) \in {None, JobId(u.sync)}
    BY <1>1 DEF Calm
  <2> QED BY <2>1, CalmCalls
<1>3. PICK more \in Seq(Command) : more = commands'
  OBVIOUS
<1>4. \A k \in 1 .. Len(more) : \/ k \in 1 .. Len(cmds) /\ more[k] = cmds[k]
                                \/ more[k].op # "rpc" /\ (more[k].op = "cancel" => more[k].id \notin W)
  <2>1. CASE ~ Flushes(u, cmds)
    BY <1>3, <2>1 DEF Loop
  <2>2. CASE Flushes(u, cmds)
    <3>1. PICK c : c = Ack(u.ws, u.ack)
      OBVIOUS
    <3>2. c.op = "ack"
      BY <3>1 DEF Ack
    <3>3. more = Append(cmds, c)
      BY <1>3, <2>2, <3>1 DEF Loop
    <3> QED BY <3>2, <3>3
  <2> QED BY <2>1, <2>2
<1>5. CallsOK(ui', m, n, P, more, R, Q) /\ PlaceOK(n, P, more, R, W)
  BY <1>2, <1>4, MoreCalls
<1> QED BY <1>1, <1>3, <1>5

\* Fewer replies are waited for.
LEMMA FewerPlace ==
    ASSUME NEW n, NEW P, NEW cmds, NEW R, NEW W, NEW S \in SUBSET R, NEW V \in SUBSET W, PlaceOK(n, P, cmds, R, W)
    PROVE  PlaceOK(n, P, cmds, S, V)
BY DEF PlaceOK

\* The client's memory of the room, as the console may change it.
SameRoom(m, m2) == m2.desired = m.desired /\ m2.phase = m.phase

\* Nothing else of the memory matters.
LEMMA SameRoomChat ==
    ASSUME NEW u, NEW m, NEW m2, NEW n, NEW P, NEW cmds, NEW R, NEW W, NEW Q, SameRoom(m, m2),
           OpenChat(u, m, n, P, cmds, R, W, Q)
    PROVE  OpenChat(u, m2, n, P, cmds, R, W, Q)
<1>1. (\A c : RequestChat(u, m, c) => RequestChat(u, m2, c)) /\ \A f : FrameChat(u, m, f, Q) => FrameChat(u, m2, f, Q)
  BY DEF SameRoom, RequestChat, FrameChat
<1>2. \A v : ReplyChat(u, m, v, Q) => ReplyChat(u, m2, v, Q)
  BY DEF SameRoom, ReplyChat
<1>3. CallsOK(u, m2, n, P, cmds, R, Q)
  BY <1>1, <1>2 DEF OpenChat, CallsOK
<1>4. WalkOK(n, m2)
  BY DEF OpenChat, WalkOK, SameRoom
<1> QED BY <1>3, <1>4 DEF OpenChat, SameRoom

\* A handler of the controller.
LEMMA HandlerChat ==
    ASSUME Inv, Inv', ChatInv, UNCHANGED <<net, pending>>,
           client' = client \/ client' = [client EXCEPT !.news = FALSE],
           replies' \subseteq replies, waiting' \subseteq waiting, NEW u \in View, ShowOK(u, client.desired, posted'),
           CallsOK(u, client, net, pending, commands, replies', posted'), Loop(u, commands)
    PROVE  ChatInv'
<1>1. commands \in Seq(Command) /\ commands' \in Seq(Command) /\ client \in Memory
  BY DEF Inv, TypeOK, FeedTypeOK, CommandsOK
<1>0. PICK Q : Q = posted'
  OBVIOUS
<1>2. PICK R \in SUBSET replies, W \in SUBSET waiting : R = replies' /\ W = waiting'
  OBVIOUS
<1>3. PlaceOK(net, pending, commands, R, W)
  <2>1. PlaceOK(net, pending, commands, replies, waiting)
    BY DEF ChatInv, OpenChat
  <2> QED BY <2>1, FewerPlace
<1>4. Calm(u, ui', Q) /\ CallsOK(ui', client, net, pending, commands', R, Q) /\ PlaceOK(net, pending, commands', R, W)
  BY <1>0, <1>1, <1>2, <1>3, LoopCalm
<1>5. ShowOK(ui', client.desired, Q)
  BY <1>0, <1>4, CalmShow
<1>6. OpenChat(ui', client, net, pending, commands', R, W, Q)
  BY <1>4, <1>5 DEF ChatInv, OpenChat
<1>7. SameRoom(client, client')
  BY <1>1 DEF SameRoom, Memory
<1>8. OpenChat(ui', client', net, pending, commands', R, W, Q)
  BY <1>6, <1>7, SameRoomChat
<1> QED BY <1>0, <1>2, <1>8 DEF ChatInv

\* A read is asked for.
LEMMA EnqueueCalm ==
    ASSUME NEW u \in View, NEW kind, NEW Q
    PROVE  Calm(u, Enqueue(u, kind), Q)
<1>1. PICK v : v = Enqueue(u, kind)
  OBVIOUS
<1>2. /\ v.act = u.act /\ v.switching = u.switching /\ v.restore = u.restore /\ v.posts = u.posts
      /\ v.sync = u.sync /\ v.recent = u.recent /\ v.synced = u.synced /\ v.chat = u.chat
  BY <1>1 DEF Enqueue, View
<1> QED BY <1>1, <1>2, QuietCalm

\* A gap.
LEMMA GappedCalm ==
    ASSUME NEW u \in View, NEW Q
    PROVE  Calm(u, Gapped(u), Q)
<1>1. PICK v \in View : v = Enqueue(u, "Sync")
  BY EnqueueOK
<1>2. /\ v.act = u.act /\ v.switching = u.switching /\ v.restore = u.restore /\ v.posts = u.posts
      /\ v.sync = u.sync /\ v.recent = u.recent /\ v.synced = u.synced /\ v.chat = u.chat
  BY <1>1 DEF Enqueue, View
<1>3. PICK s : s = IF v.sync = None THEN None ELSE [v.sync EXCEPT !.gapped = TRUE]
  OBVIOUS
<1>4. (u.sync = None => s = None) /\ JobId(s) \in {None, JobId(u.sync)}
  <2>1. CASE u.sync = None
    BY <1>2, <1>3, <2>1 DEF JobId
  <2>2. CASE u.sync # None
    <3>1. u.sync \in Read
      BY <2>2 DEF View
    <3>2. s.id = u.sync.id
      BY <1>2, <1>3, <2>2, <3>1 DEF Read
    <3> QED BY <2>2, <3>2 DEF JobId
  <2> QED BY <2>1, <2>2
<1>5. PICK x : x = [v EXCEPT !.reset = TRUE, !.sync = s]
  OBVIOUS
<1>6. /\ x.act = v.act /\ x.switching = v.switching /\ x.restore = v.restore /\ x.posts = v.posts
      /\ x.sync = s /\ x.recent = v.recent /\ x.synced = v.synced /\ x.chat = v.chat
  BY <1>5 DEF View
<1>7. Gapped(u) = x
  BY <1>1, <1>3, <1>5 DEF Gapped, View
<1> QED BY <1>2, <1>4, <1>6, <1>7 DEF Calm, SameAct

\* The view is no longer live.
LEMMA UnsyncedCalm ==
    ASSUME NEW u \in View, NEW Q
    PROVE  [u EXCEPT !.synced = FALSE] \in View /\ Calm(u, [u EXCEPT !.synced = FALSE], Q)
<1>1. [u EXCEPT !.synced = FALSE] \in View
  BY DEF View
<1>2. PICK v \in View : v = [u EXCEPT !.synced = FALSE]
  BY <1>1
<1>3. /\ v.act = u.act /\ v.switching = u.switching /\ v.restore = u.restore /\ v.posts = u.posts
      /\ v.sync = u.sync /\ v.recent = u.recent /\ v.synced = FALSE /\ v.chat = u.chat
  BY <1>2 DEF View
<1> QED BY <1>2, <1>3 DEF Calm, SameAct

\* Events are applied; the chat may be among them.
LEMMA ApplyCalm ==
    ASSUME NEW u \in View, NEW w, NEW lo, NEW hi
    PROVE  Calm(u, Apply(u, w, lo, hi), posted)
<1>1. Calm(u, u, posted)
  BY QuietCalm
<1>2. CASE u.ws # w \/ lo = hi
  BY <1>1, <1>2 DEF Apply
<1>3. CASE u.ws = w /\ lo # hi /\ u.applied = Absent
  <2>1. Apply(u, w, lo, hi) = Gapped(u)
    BY <1>3 DEF Apply
  <2> QED BY <2>1, GappedCalm
<1>4. CASE u.ws = w /\ lo # hi /\ u.applied # Absent /\ lo > u.applied
  <2>1. PICK v \in View : v = [u EXCEPT !.synced = FALSE] /\ Calm(u, v, posted)
    BY UnsyncedCalm
  <2>2. Apply(u, w, lo, hi) = Gapped(v)
    BY <1>4, <2>1 DEF Apply
  <2>3. Calm(v, Gapped(v), posted)
    BY GappedCalm
  <2> QED BY <2>1, <2>2, <2>3, CalmTrans
<1>5. CASE u.ws = w /\ lo # hi /\ u.applied # Absent /\ ~ (lo > u.applied)
  <2>1. PICK v \in View : /\ v = Acknowledge(u, w, u.applied, hi)
                          /\ v.act = u.act /\ v.switching = u.switching /\ v.restore = u.restore /\ v.posts = u.posts
                          /\ v.sync = u.sync /\ v.recent = u.recent /\ v.synced = u.synced
                          /\ v.chat = u.chat \/ (v.chat = "idle" /\ posted # {})
    <3>1. PICK c : c = [u EXCEPT !.chat = "idle"]
      OBVIOUS
    <3>2. /\ c \in View /\ c.act = u.act /\ c.switching = u.switching /\ c.restore = u.restore /\ c.posts = u.posts
          /\ c.sync = u.sync /\ c.recent = u.recent /\ c.synced = u.synced /\ c.chat = "idle"
      BY <3>1 DEF View
    <3> QED BY <3>1, <3>2 DEF Acknowledge
  <2>2. PICK a, b : Apply(u, w, lo, hi) = [v EXCEPT !.applied = a, !.ack = b]
    BY <1>5, <2>1 DEF Apply
  <2>3. PICK x : x = [v EXCEPT !.applied = a, !.ack = b]
    OBVIOUS
  <2>4. /\ x.act = v.act /\ x.switching = v.switching /\ x.restore = v.restore /\ x.posts = v.posts
        /\ x.sync = v.sync /\ x.recent = v.recent /\ x.synced = v.synced /\ x.chat = v.chat
    BY <2>3 DEF View
  <2> QED BY <2>1, <2>2, <2>3, <2>4 DEF Calm, SameAct
<1> QED BY <1>2, <1>3, <1>4, <1>5

\* A handler that leaves the action alone.
LEMMA CalmHandler ==
    ASSUME Inv, Inv', ChatInv, UNCHANGED <<net, pending, posted>>,
           client' = client \/ client' = [client EXCEPT !.news = FALSE],
           replies' \subseteq replies, waiting' \subseteq waiting, NEW u \in View, Calm(ui, u, posted), Loop(u, commands)
    PROVE  ChatInv'
<1>1. ShowOK(ui, client.desired, posted) /\ CallsOK(ui, client, net, pending, commands, replies, posted)
  BY DEF ChatInv, OpenChat
<1>2. ShowOK(u, client.desired, posted)
  BY <1>1, CalmShow
<1>3. PICK R \in SUBSET replies : R = replies'
  OBVIOUS
<1>4. CallsOK(u, client, net, pending, commands, R, posted)
  <2>1. SameAct(ui, u) /\ JobId(u.sync) \in {None, JobId(ui.sync)}
    BY DEF Calm
  <2> QED BY <1>1, <2>1, CalmCalls
<1>5. ShowOK(u, client.desired, posted') /\ CallsOK(u, client, net, pending, commands, replies', posted')
  BY <1>2, <1>3, <1>4
<1> QED BY <1>5, HandlerChat

\* The controller applies an event.
LEMMA TakeEventChat == ASSUME Inv, Inv', AckInv, ChatInv, TakeEvent PROVE ChatInv'
<1>1. PICK e : e = Head(events)
  OBVIOUS
<1>2. PICK u : u = IF e.ws = None \/ ui.ws = None THEN ui ELSE Apply(ui, e.ws, e.seq - 1, e.seq)
  OBVIOUS
<1>3. Loop(u, commands) /\ UNCHANGED <<net, pending, posted>> /\ client' = client
      /\ replies' \subseteq replies /\ waiting' \subseteq waiting
  BY <1>1, <1>2 DEF TakeEvent
<1>4. ui \in View /\ ViewAck(ui)
  BY DEF Inv, TypeOK, AckInv, AckOK
<1>5. Calm(ui, u, posted)
  <2>1. Calm(ui, ui, posted)
    BY QuietCalm
  <2> QED BY <1>2, <1>4, <2>1, ApplyCalm
<1>6. u \in View
  <2>1. e \in Notice
    <3>1. events \in Seq(Notice) /\ events # <<>>
      BY DEF Inv, TypeOK, FeedTypeOK, TakeEvent
    <3> QED BY <1>1, <3>1
  <2>2. e.ws \in Room /\ e.seq \in Int /\ e.seq - 1 \in Int
    BY <2>1 DEF Notice
  <2>3. Moves(ui, Apply(ui, e.ws, e.seq - 1, e.seq))
    BY <1>4, <2>2, ApplyMoves
  <2> QED BY <1>2, <1>4, <2>3 DEF Moves
<1> QED BY <1>3, <1>5, <1>6, CalmHandler

\* The view stays a view.
LEMMA ApplyView ==
    ASSUME NEW u \in View, NEW w \in Room, NEW lo \in Int, NEW hi \in Int
    PROVE  Apply(u, w, lo, hi) \in View
<1>1. CASE u.ws # w \/ lo = hi
  BY <1>1 DEF Apply
<1>2. CASE u.ws = w /\ lo # hi /\ u.applied = Absent
  BY <1>2, GappedOK DEF Apply
<1>3. CASE u.ws = w /\ lo # hi /\ u.applied # Absent /\ lo > u.applied
  <2>1. PICK v \in View : v = [u EXCEPT !.synced = FALSE]
    BY UnsyncedCalm
  <2>2. Apply(u, w, lo, hi) = Gapped(v)
    BY <1>3, <2>1 DEF Apply
  <2> QED BY <2>2, GappedOK
<1>4. CASE u.ws = w /\ lo # hi /\ u.applied # Absent /\ ~ (lo > u.applied)
  <2>1. PICK v \in View : v = Acknowledge(u, w, u.applied, hi)
    <3>1. [u EXCEPT !.chat = "idle"] \in View
      BY DEF View
    <3> QED BY <3>1 DEF Acknowledge
  <2>2. PICK x \in Int, y \in Int : x = v.applied /\ y = v.ack
    BY DEF View
  <2>3. PICK a \in Int, b \in Int : a = Max({x, hi}) /\ b = Max({y, hi})
    <3>1. Max({x, hi}) = x \/ Max({x, hi}) = hi
      BY MaxTwo
    <3>2. Max({y, hi}) = y \/ Max({y, hi}) = hi
      BY MaxTwo
    <3> QED BY <3>1, <3>2
  <2>4. Apply(u, w, lo, hi) = [v EXCEPT !.applied = a, !.ack = b]
    BY <1>4, <2>1, <2>2, <2>3 DEF Apply
  <2>5. [v EXCEPT !.applied = a, !.ack = b] \in View
    BY DEF View
  <2> QED BY <2>4, <2>5
<1> QED BY <1>1, <1>2, <1>3, <1>4

\* A read ends.
LEMMA ClearedCalm ==
    ASSUME NEW u \in View, NEW Q
    PROVE  /\ [u EXCEPT !.sync = None] \in View /\ Calm(u, [u EXCEPT !.sync = None], Q)
           /\ [u EXCEPT !.recent = None] \in View /\ Calm(u, [u EXCEPT !.recent = None], Q)
<1>1. [u EXCEPT !.sync = None] \in View /\ [u EXCEPT !.recent = None] \in View
  BY DEF View
<1>2. PICK v \in View : v = [u EXCEPT !.sync = None]
  BY <1>1
<1>3. /\ v.act = u.act /\ v.switching = u.switching /\ v.restore = u.restore /\ v.posts = u.posts
      /\ v.sync = None /\ v.recent = u.recent /\ v.synced = u.synced /\ v.chat = u.chat
  BY <1>2 DEF View
<1>4. Calm(u, v, Q)
  BY <1>3 DEF Calm, SameAct, JobId
<1>5. PICK x \in View : x = [u EXCEPT !.recent = None]
  BY <1>1
<1>6. /\ x.act = u.act /\ x.switching = u.switching /\ x.restore = u.restore /\ x.posts = u.posts
      /\ x.sync = u.sync /\ x.recent = None /\ x.synced = u.synced /\ x.chat = u.chat
  BY <1>5 DEF View
<1>7. Calm(u, x, Q)
  BY <1>6 DEF Calm, SameAct
<1> QED BY <1>2, <1>4, <1>5, <1>7

\* A page that makes the view live came from a room.
LEMMA SyncDoneChat == ASSUME Inv, Inv', AckInv, ChatInv, SyncDone PROVE ChatInv'
<1>1. ui \in View /\ ViewAck(ui)
  BY DEF Inv, TypeOK, AckInv, AckOK
<1>2. PICK u \in View : u = [ui EXCEPT !.sync = None] /\ Calm(ui, u, posted)
  BY <1>1, ClearedCalm
<1>3. PICK v \in Reply(ui.sync) :
         /\ Loop(IF v.ok /\ Accepts(ui, ui.sync) THEN SyncPage(u, ui.sync, v) ELSE u, commands)
         /\ TakeReply(v)
  BY <1>2 DEF SyncDone
<1>4. ui.sync # None /\ UNCHANGED <<net, pending, posted>> /\ client' = client
      /\ replies' \subseteq replies /\ waiting' \subseteq waiting
  BY <1>3 DEF SyncDone, TakeReply
<1>5. CASE ~ (v.ok /\ Accepts(ui, ui.sync))
  <2>1. Loop(u, commands)
    BY <1>3, <1>5
  <2> QED BY <1>2, <1>4, <2>1, CalmHandler
<1>6. CASE v.ok /\ Accepts(ui, ui.sync)
  <2>1. v \in replies /\ v.id = ui.sync.id /\ v \in Value
    <3>1. v \in replies /\ v.id = ui.sync.id
      BY <1>6 DEF Reply, Failed
    <3> QED BY <3>1 DEF Inv, TypeOK, FeedTypeOK
  <2>2. v.ws \in Room /\ v.lo \in Int /\ v.hi \in Int /\ v.id \in Id
    BY <2>1 DEF Value
  <2>3. client.desired # None
    <3>1. ReplyChat(ui, client, v, posted)
      BY <2>1 DEF ChatInv, OpenChat, CallsOK
    <3>2. Syncing(ui, v.id)
      BY <1>4, <2>1, <2>2, FeedAssumption DEF Syncing, JobId
    <3> QED BY <1>6, <3>1, <3>2 DEF ReplyChat
  <2>4. PICK y \in View : y = Apply(u, v.ws, v.lo, v.hi) /\ Calm(ui, y, posted)
    <3>1. Moves(ui, [ui EXCEPT !.sync = None])
      BY <1>1, ClearedMoves
    <3>2. ViewAck(u)
      BY <1>2, <3>1 DEF Moves
    <3>3. Moves(u, Apply(u, v.ws, v.lo, v.hi))
      BY <2>2, <3>2, ApplyMoves
    <3>4. Calm(u, Apply(u, v.ws, v.lo, v.hi), posted)
      BY ApplyCalm
    <3>5. Calm(ui, Apply(u, v.ws, v.lo, v.hi), posted)
      BY <1>2, <3>4, CalmTrans
    <3> QED BY <3>3, <3>5 DEF Moves
  <2>5. CASE SyncPage(u, ui.sync, v) = Enqueue(y, "Sync")
    <3>1. PICK x \in View : x = Enqueue(y, "Sync")
      BY EnqueueOK
    <3>2. Calm(y, x, posted)
      BY <3>1, EnqueueCalm
    <3>3. Calm(ui, x, posted)
      BY <2>4, <3>2, CalmTrans
    <3>4. Loop(x, commands)
      BY <1>3, <1>6, <2>5, <3>1
    <3> QED BY <1>4, <3>3, <3>4, CalmHandler
  <2>6. CASE SyncPage(u, ui.sync, v) = [y EXCEPT !.synced = TRUE]
    <3>1. PICK x \in View : x = [y EXCEPT !.synced = TRUE]
      <4>1. [y EXCEPT !.synced = TRUE] \in View
        BY DEF View
      <4> QED BY <4>1
    <3>2. /\ x.act = y.act /\ x.switching = y.switching /\ x.restore = y.restore /\ x.posts = y.posts
          /\ x.sync = y.sync /\ x.recent = y.recent /\ x.chat = y.chat
      BY <3>1 DEF View
    <3>3. ShowOK(ui, client.desired, posted) /\ CallsOK(ui, client, net, pending, commands, replies, posted)
      BY DEF ChatInv, OpenChat
    <3>4. ShowOK(y, client.desired, posted)
      BY <2>4, <3>3, CalmShow
    <3>5. y.switching = None
      BY <1>4, <2>4, <3>3 DEF ShowOK, SwitchOK, Calm
    <3>6. ShowOK(x, client.desired, posted)
      BY <2>3, <3>2, <3>4, <3>5 DEF ShowOK, SwitchOK, Chatting, InStep
    <3>7. SameAct(ui, x) /\ JobId(x.sync) \in {None, JobId(ui.sync)}
      BY <2>4, <3>2 DEF Calm, SameAct
    <3>8. PICK R \in SUBSET replies : R = replies'
      BY <1>4
    <3>9. CallsOK(x, client, net, pending, commands, R, posted)
      BY <3>3, <3>7, CalmCalls
    <3>10. ShowOK(x, client.desired, posted') /\ CallsOK(x, client, net, pending, commands, replies', posted')
      BY <1>4, <3>6, <3>8, <3>9
    <3>11. Loop(x, commands)
      BY <1>3, <1>6, <2>6, <3>1
    <3> QED BY <1>4, <3>10, <3>11, HandlerChat
  <2> QED BY <2>4, <2>5, <2>6 DEF SyncPage
<1> QED BY <1>5, <1>6

\* A Recent read ends.
LEMMA RecentDoneChat == ASSUME Inv, Inv', AckInv, ChatInv, RecentDone PROVE ChatInv'
<1>1. ui \in View /\ ViewAck(ui) /\ ReplyAck(replies, commands)
  BY DEF Inv, TypeOK, AckInv, AckOK
<1>2. PICK u \in View : u = [ui EXCEPT !.recent = None] /\ Calm(ui, u, posted)
  BY <1>1, ClearedCalm
<1>3. PICK v \in Reply(ui.recent) :
         /\ Loop(IF v.ok /\ Accepts(ui, ui.recent) THEN RecentPage(u, v) ELSE u, commands)
         /\ TakeReply(v)
  BY <1>2 DEF RecentDone
<1>4. UNCHANGED <<net, pending, posted>> /\ client' = client /\ replies' \subseteq replies /\ waiting' \subseteq waiting
  BY <1>3 DEF RecentDone, TakeReply
<1>5. CASE ~ (v.ok /\ Accepts(ui, ui.recent)) \/ v.ws # u.ws
  <2>1. Loop(u, commands)
    BY <1>3, <1>5 DEF RecentPage
  <2> QED BY <1>2, <1>4, <2>1, CalmHandler
<1>6. CASE v.ok /\ Accepts(ui, ui.recent) /\ v.ws = u.ws
  <2>1. v \in Value /\ v.lo >= 0
    BY <1>1, <1>6, ReplyOK DEF Reply, Failed, ReplyAck
  <2>2. v.ws \in Room /\ v.lo \in Int /\ v.hi \in Int
    BY <2>1 DEF Value
  <2>3. PICK y \in View : /\ y = IF u.applied = Absent THEN Apply([u EXCEPT !.applied = v.lo], v.ws, v.lo, v.hi) ELSE u
                          /\ Calm(ui, y, posted)
    <3>1. CASE u.applied # Absent
      BY <1>2, <3>1
    <3>2. CASE u.applied = Absent
      <4>1. PICK z \in View : z = [u EXCEPT !.applied = v.lo]
        <5>1. [u EXCEPT !.applied = v.lo] \in View
          BY <2>2 DEF View
        <5> QED BY <5>1
      <4>2. /\ z.act = u.act /\ z.switching = u.switching /\ z.restore = u.restore /\ z.posts = u.posts
            /\ z.sync = u.sync /\ z.recent = u.recent /\ z.synced = u.synced /\ z.chat = u.chat
        BY <4>1 DEF View
      <4>3. Calm(u, z, posted)
        BY <4>2, QuietCalm
      <4>4. Calm(z, Apply(z, v.ws, v.lo, v.hi), posted)
        BY ApplyCalm
      <4>5. Calm(u, Apply(z, v.ws, v.lo, v.hi), posted)
        BY <4>3, <4>4, CalmTrans
      <4>6. Calm(ui, Apply(z, v.ws, v.lo, v.hi), posted)
        BY <1>2, <4>5, CalmTrans
      <4>7. Apply(z, v.ws, v.lo, v.hi) \in View
        BY <2>2, ApplyView
      <4> QED BY <3>2, <4>1, <4>6, <4>7
    <3> QED BY <3>1, <3>2
  <2>4. PICK x \in View : x = Enqueue(y, "Sync")
    BY EnqueueOK
  <2>5. Calm(y, x, posted)
    BY <2>4, EnqueueCalm
  <2>6. Calm(ui, x, posted)
    BY <2>3, <2>5, CalmTrans
  <2>7. Loop(x, commands)
    BY <1>3, <1>6, <2>3, <2>4 DEF RecentPage
  <2> QED BY <1>4, <2>6, <2>7, CalmHandler
<1> QED BY <1>5, <1>6

-----------------------------------------------------------------------------
(* The action changes.                                                        *)

\* No call of an action is on its way.
NoCalls(m, n, P, cmds) ==
    /\ \A k \in 1 .. Len(cmds) : cmds[k].op = "rpc" => cmds[k].call.kind \notin Exclusive
    /\ m.phase = "up" => /\ \A k \in 1 .. Len(n.req) : n.req[k].kind \notin Exclusive
                         /\ \A k \in 1 .. Len(n.out) : n.out[k].t \notin {"joined", "left", "posted"}
    /\ \A p \in P : p.kind \notin Exclusive

\* The action has not sent its call, or there is none.
LEMMA UnsentFree ==
    ASSUME NEW u, NEW m, NEW n, NEW P, NEW cmds, NEW R, NEW Q, CallsOK(u, m, n, P, cmds, R, Q), JobId(u.act) = None
    PROVE  NoCalls(m, n, P, cmds)
<1>1. \A kind, i : ~ Own(u, kind, i)
  BY DEF Own, JobId
<1>2. \A k \in 1 .. Len(cmds) : cmds[k].op = "rpc" => cmds[k].call.kind \notin Exclusive
  BY <1>1 DEF CallsOK, QueuedChat
<1>3. \A k \in 1 .. Len(n.req) : m.phase = "up" => n.req[k].kind \notin Exclusive
  BY <1>1 DEF CallsOK, RequestChat
<1>4. \A k \in 1 .. Len(n.out) : m.phase = "up" => n.out[k].t \notin {"joined", "left", "posted"}
  BY <1>1 DEF CallsOK, FrameChat
<1>5. \A p \in P : p.kind \notin Exclusive
  BY <1>1 DEF CallsOK, PendingChat
<1> QED BY <1>2, <1>3, <1>4, <1>5 DEF NoCalls

\* The reply to the call of the action has arrived.
LEMMA RepliedFree ==
    ASSUME NEW u, NEW m, NEW n, NEW P, NEW cmds, NEW R, NEW W, NEW Q, CallsOK(u, m, n, P, cmds, R, Q),
           PlaceOK(n, P, cmds, R, W), ReplyAck(R, cmds), NEW v \in R, v.id = u.act.id
    PROVE  NoCalls(m, n, P, cmds)
<1>1. \A kind, i : Own(u, kind, i) => i = v.id
  BY DEF Own
<1>2. \A k \in 1 .. Len(cmds) : cmds[k].op = "rpc" => cmds[k].call.kind \notin Exclusive
  BY <1>1 DEF CallsOK, QueuedChat, ReplyAck
<1>3. \A k \in 1 .. Len(n.req) : m.phase = "up" => n.req[k].kind \notin Exclusive
  BY <1>1 DEF CallsOK, RequestChat, PlaceOK
<1>4. \A k \in 1 .. Len(n.out) : m.phase = "up" => n.out[k].t \notin {"joined", "left", "posted"}
  BY <1>1 DEF CallsOK, FrameChat, PlaceOK
<1>5. \A p \in P : p.kind \notin Exclusive
  BY <1>1 DEF CallsOK, PendingChat, PlaceOK
<1> QED BY <1>2, <1>3, <1>4, <1>5 DEF NoCalls

\* The action takes the reply to its call, or learns that the call was not sent.
LEMMA TakenFree ==
    ASSUME AckInv, ChatInv, ui.act # None, NEW v \in Reply(ui.act)
    PROVE  NoCalls(client, net, pending, commands)
<1>1. /\ CallsOK(ui, client, net, pending, commands, replies, posted) /\ SwitchOK(ui)
      /\ PlaceOK(net, pending, commands, replies, waiting) /\ ReplyAck(replies, commands)
  BY DEF ChatInv, OpenChat, ShowOK, AckInv, AckOK
<1>2. CASE v \in replies /\ v.id = ui.act.id
  BY <1>1, <1>2, RepliedFree
<1>3. CASE ui.act.full
  <2>1. JobId(ui.act) = None
    BY <1>1, <1>3 DEF SwitchOK, JobId
  <2> QED BY <1>1, <2>1, UnsentFree
<1> QED BY <1>2, <1>3 DEF Reply

\* Another action, or none, that has sent nothing.
LEMMA FreeCalls ==
    ASSUME NEW u, NEW v, NEW m, NEW n, NEW P, NEW cmds, NEW R, NEW S \in SUBSET R, NEW Q, NEW Q2,
           CallsOK(u, m, n, P, cmds, R, Q), NoCalls(m, n, P, cmds),
           JobId(v.act) = None, JobId(v.sync) \in {None, JobId(u.sync)}
    PROVE  CallsOK(v, m, n, P, cmds, S, Q2)
<1>1. \A i : ~ Posting(v, i) /\ (Syncing(v, i) => Syncing(u, i))
  BY DEF Posting, Syncing, InStep, JobId
<1>2. \A k \in 1 .. Len(cmds) : cmds[k].op = "rpc" => QueuedChat(v, cmds[k].call)
  BY <1>1 DEF NoCalls, QueuedChat
<1>3. \A k \in 1 .. Len(n.req) : RequestChat(v, m, n.req[k])
  BY <1>1 DEF NoCalls, RequestChat
<1>4. \A k \in 1 .. Len(n.out) : FrameChat(v, m, n.out[k], Q2)
  BY <1>1 DEF NoCalls, FrameChat, CallsOK
<1>5. \A p \in P : PendingChat(v, p)
  BY DEF NoCalls, PendingChat
<1>6. \A r \in S : ReplyChat(v, m, r, Q2)
  BY <1>1 DEF CallsOK, ReplyChat
<1> QED BY <1>2, <1>3, <1>4, <1>5, <1>6 DEF CallsOK

\* A switch ends, or the recovery of the room takes its place.
Ends(u, v) ==
    /\ u.switching # None /\ v.sync = u.sync /\ v.recent = u.recent /\ v.posts = u.posts
    /\ v.chat = "idle" /\ ~ v.synced
    /\ v.act # None => v.act.step = "restore" /\ v.act.id = None /\ v.switching # None /\ v.restore = None
    /\ v.restore # None => v.switching # None

\* Then the view is in order.
LEMMA EndsShow ==
    ASSUME NEW u, NEW v, NEW d, NEW Q, ShowOK(u, d, Q), Ends(u, v)
    PROVE  ShowOK(v, d, Q) /\ JobId(v.act) = None /\ JobId(v.sync) \in {None, JobId(u.sync)}
<1>1. u.sync = None /\ u.recent = None /\ u.chat = "idle"
  BY DEF ShowOK, SwitchOK, Ends
<1>2. ~ InStep(v, {"post"}) /\ (InStep(v, Switch) => v.switching # None)
  BY DEF Ends, InStep
<1>3. SwitchOK(v)
  BY <1>1, <1>2 DEF SwitchOK, Ends
<1>4. ~ Chatting(v)
  BY <1>2 DEF Chatting, Ends
<1>5. v.posts > 0 /\ v.chat = "idle" => Q # {}
  BY <1>1 DEF ShowOK, Ends
<1>6. JobId(v.act) = None /\ JobId(v.sync) = JobId(u.sync)
  BY DEF Ends, JobId
<1> QED BY <1>3, <1>4, <1>5, <1>6 DEF ShowOK, Ends

\* restore_previous.
LEMMA RestorePreviousEnds ==
    ASSUME NEW u \in View, NEW old \in Room, SwitchOK(u), u.switching # None, u.restore = None
    PROVE  RestorePrevious(u, old) \in View /\ Ends(u, RestorePrevious(u, old))
<1>0. ~ u.synced /\ u.chat = "idle"
  BY DEF SwitchOK
<1>1. PICK v \in View : v = RestorePrevious(u, old)
  BY RestorePreviousOK
<1>2. CASE u.conn # "up" /\ old # None
  <2>1. v = [u EXCEPT !.restore = old, !.act = None]
    BY <1>1, <1>2 DEF RestorePrevious
  <2>2. /\ v.act = None /\ v.switching = u.switching /\ v.restore = old /\ v.posts = u.posts
        /\ v.sync = u.sync /\ v.recent = u.recent /\ v.synced = u.synced /\ v.chat = u.chat
    BY <2>1 DEF View
  <2> QED BY <1>0, <1>1, <2>2 DEF Ends
<1>3. CASE u.conn # "up" /\ old = None
  <2>1. v = [u EXCEPT !.switching = None, !.act = None]
    BY <1>1, <1>3 DEF RestorePrevious
  <2>2. /\ v.act = None /\ v.switching = None /\ v.restore = u.restore /\ v.posts = u.posts
        /\ v.sync = u.sync /\ v.recent = u.recent /\ v.synced = u.synced /\ v.chat = u.chat
    BY <2>1 DEF View
  <2> QED BY <1>0, <1>1, <2>2 DEF Ends
<1>4. CASE u.conn = "up"
  <2>1. PICK b : b = NewAction("restore", None, None)
    OBVIOUS
  <2>2. PICK c : c = [b EXCEPT !.full = TRUE]
    OBVIOUS
  <2>3. c.step = "restore" /\ c.id = None
    BY <2>1, <2>2 DEF NewAction
  <2>4. PICK e : e = NewAction("restore", old, None)
    OBVIOUS
  <2>5. e.step = "restore" /\ e.id = None
    BY <2>4 DEF NewAction
  <2>6. PICK a : a = (IF old = None THEN c ELSE e) /\ a.step = "restore" /\ a.id = None
    BY <2>3, <2>5
  <2>7. v = [u EXCEPT !.act = a]
    BY <1>1, <1>4, <2>1, <2>2, <2>4, <2>6 DEF RestorePrevious
  <2>8. /\ v.act = a /\ v.switching = u.switching /\ v.restore = u.restore /\ v.posts = u.posts
        /\ v.sync = u.sync /\ v.recent = u.recent /\ v.synced = u.synced /\ v.chat = u.chat
    BY <2>7 DEF View
  <2> QED BY <1>0, <1>1, <2>6, <2>8 DEF Ends
<1> QED BY <1>2, <1>3, <1>4

\* A handler after which the action has sent nothing.
LEMMA FreeHandler ==
    ASSUME Inv, Inv', ChatInv, NoCalls(client, net, pending, commands), UNCHANGED <<net, pending>>,
           client' = client \/ client' = [client EXCEPT !.news = FALSE],
           replies' \subseteq replies, waiting' \subseteq waiting, NEW u \in View, ShowOK(u, client.desired, posted'),
           JobId(u.act) = None, JobId(u.sync) \in {None, JobId(ui.sync)}, Loop(u, commands)
    PROVE  ChatInv'
<1>1. CallsOK(ui, client, net, pending, commands, replies, posted)
  BY DEF ChatInv, OpenChat
<1>2. PICK R \in SUBSET replies : R = replies'
  OBVIOUS
<1>3. PICK Q : Q = posted'
  OBVIOUS
<1>4. CallsOK(u, client, net, pending, commands, R, Q)
  BY <1>1, FreeCalls
<1>5. CallsOK(u, client, net, pending, commands, replies', posted')
  BY <1>2, <1>3, <1>4
<1> QED BY <1>5, HandlerChat

\* An action that is present is not None.
LEMMA NoneAction == None \notin Action
BY ConsoleAssumption DEF Action, Step, Room

\* Tasks of an earlier epoch are fenced, and the view is not live.
LEMMA FencedCalm ==
    ASSUME NEW u \in View, NEW Q, ActionOK(u.act)
    PROVE  /\ [FenceAll(u) EXCEPT !.synced = FALSE] \in View
           /\ Calm(u, [FenceAll(u) EXCEPT !.synced = FALSE], Q)
<1>1. PICK g \in View : g = FenceAll(u)
  BY FenceAllOK
<1>2. PICK s, r, a : s = FenceJob(u.sync) /\ r = FenceJob(u.recent) /\ a = FenceJob(u.act)
  OBVIOUS
<1>3. g = [u EXCEPT !.sync = s, !.recent = r, !.act = a]
  BY <1>1, <1>2 DEF FenceAll, View
<1>4. /\ g.act = a /\ g.switching = u.switching /\ g.restore = u.restore /\ g.posts = u.posts
      /\ g.sync = s /\ g.recent = r /\ g.synced = u.synced /\ g.chat = u.chat
  BY <1>3 DEF View
<1>5. (u.sync = None => s = None) /\ JobId(s) \in {None, JobId(u.sync)} /\ (u.recent = None => r = None)
  <2>1. CASE u.sync = None
    BY <1>2, <2>1 DEF FenceJob, JobId
  <2>2. CASE u.sync # None
    <3>1. u.sync \in Read
      BY <2>2 DEF View
    <3>2. s.id = u.sync.id
      BY <1>2, <2>2, <3>1 DEF FenceJob, Read
    <3> QED BY <1>2, <2>2, <3>2 DEF JobId, FenceJob
  <2> QED BY <2>1, <2>2
<1>6. SameAct(u, g)
  <2>1. CASE u.act = None
    BY <1>2, <1>4, <2>1 DEF FenceJob, SameAct
  <2>2. CASE u.act # None
    <3>1. u.act \in Action /\ a = [u.act EXCEPT !.fenced = TRUE]
      BY <1>2, <2>2 DEF View, FenceJob
    <3>2. a.step = u.act.step /\ a.id = u.act.id /\ a.full = u.act.full
      BY <3>1 DEF Action
    <3>3. a # None
      <4>1. a \in Action
        BY <3>1 DEF Action
      <4> QED BY <4>1, NoneAction
    <3> QED BY <1>4, <2>2, <3>2, <3>3 DEF SameAct
  <2> QED BY <2>1, <2>2
<1>7. Calm(u, g, Q)
  BY <1>4, <1>5, <1>6 DEF Calm
<1>8. [g EXCEPT !.synced = FALSE] \in View /\ Calm(g, [g EXCEPT !.synced = FALSE], Q)
  BY UnsyncedCalm
<1>9. Calm(u, [g EXCEPT !.synced = FALSE], Q)
  BY <1>7, <1>8, CalmTrans
<1> QED BY <1>1, <1>8, <1>9

\* The controller sees the connection change.
LEMMA ObserveChat == ASSUME Inv, Inv', AckInv, ChatInv, Observe PROVE ChatInv'
<1>1. ui \in View /\ ActionOK(ui.act) /\ ShowOK(ui, client.desired, posted)
      /\ CallsOK(ui, client, net, pending, commands, replies, posted)
  BY DEF Inv, TypeOK, WithinLog, ChatInv, OpenChat
<1>2. /\ UNCHANGED <<net, pending, posted>> /\ client' = [client EXCEPT !.news = FALSE]
      /\ replies' \subseteq replies /\ waiting' \subseteq waiting
  BY DEF Observe
<1>3. PICK f \in View : f = [FenceAll(ui) EXCEPT !.synced = FALSE] /\ Calm(ui, f, posted)
  BY <1>1, FencedCalm
<1>4. \A c \in {"up", "down"} : [f EXCEPT !.conn = c] \in View /\ Calm(ui, [f EXCEPT !.conn = c], posted)
  <2>1. TAKE c \in {"up", "down"}
  <2>2. [f EXCEPT !.conn = c] \in View
    BY DEF View
  <2>3. PICK v \in View : v = [f EXCEPT !.conn = c]
    BY <2>2
  <2>4. /\ v.act = f.act /\ v.switching = f.switching /\ v.restore = f.restore /\ v.posts = f.posts
        /\ v.sync = f.sync /\ v.recent = f.recent /\ v.synced = f.synced /\ v.chat = f.chat
    BY <2>3 DEF View
  <2>5. Calm(f, v, posted)
    BY <2>4, QuietCalm
  <2>6. Calm(ui, v, posted)
    BY <1>3, <2>5, CalmTrans
  <2> QED BY <2>3, <2>6
<1>5. CASE client.phase # "up"
  <2>1. PICK d \in View : d = [f EXCEPT !.conn = "down"] /\ Calm(ui, d, posted)
    BY <1>4
  <2>2. PICK c \in {"idle", "sent", "uncertain"} : c = IF d.chat = "sent" THEN "uncertain" ELSE d.chat
    BY DEF View
  <2>3. PICK x \in View : x = [d EXCEPT !.chat = c]
    <3>1. [d EXCEPT !.chat = c] \in View
      BY DEF View
    <3> QED BY <3>1
  <2>4. x = Uncertain(d)
    BY <2>2, <2>3 DEF Uncertain
  <2>5. /\ x.act = d.act /\ x.switching = d.switching /\ x.restore = d.restore /\ x.posts = d.posts
        /\ x.sync = d.sync /\ x.recent = d.recent /\ x.synced = d.synced /\ x.chat = c
    BY <2>3 DEF View
  <2>6. Calm(d, x, posted)
    BY <2>2, <2>5 DEF Calm, SameAct
  <2>7. Calm(ui, x, posted)
    BY <2>1, <2>6, CalmTrans
  <2>8. Loop(x, commands)
    BY <1>3, <1>5, <2>1, <2>4 DEF Observe
  <2> QED BY <1>2, <2>7, <2>8, CalmHandler
<1>6. CASE client.phase = "up"
  <2>1. PICK d \in View : d = [f EXCEPT !.conn = "up"] /\ Calm(ui, d, posted)
    BY <1>4
  <2>2. PICK o \in Room : o = d.restore
    BY DEF View
  <2>3. PICK r \in View : r = [d EXCEPT !.restore = None]
    <3>1. [d EXCEPT !.restore = None] \in View
      BY DEF View, Room
    <3> QED BY <3>1
  <2>4. CASE d.restore = None
    <3>1. PICK x \in View : x = (IF d.ws = None THEN d ELSE Enqueue(d, IF d.applied = Absent THEN "Recent" ELSE "Sync"))
                            /\ Calm(d, x, posted)
      <4>1. PICK kind \in {"Recent", "Sync"} : kind = IF d.applied = Absent THEN "Recent" ELSE "Sync"
        OBVIOUS
      <4>2. Enqueue(d, kind) \in View /\ Calm(d, Enqueue(d, kind), posted) /\ Calm(d, d, posted)
        BY EnqueueOK, EnqueueCalm, QuietCalm
      <4> QED BY <4>1, <4>2
    <3>2. Calm(ui, x, posted)
      BY <2>1, <3>1, CalmTrans
    <3>3. Loop(x, commands)
      BY <1>3, <1>6, <2>1, <2>4, <3>1 DEF Observe
    <3> QED BY <1>2, <3>2, <3>3, CalmHandler
  <2>5. CASE d.restore # None
    <3>1. ShowOK(d, client.desired, posted)
      BY <1>1, <2>1, CalmShow
    <3>2. d.switching # None /\ d.act = None
      BY <2>5, <3>1 DEF ShowOK, SwitchOK
    <3>3. /\ r.act = d.act /\ r.switching = d.switching /\ r.restore = None /\ r.posts = d.posts
          /\ r.sync = d.sync /\ r.recent = d.recent /\ r.synced = d.synced /\ r.chat = d.chat
      BY <2>3 DEF View
    <3>4. ShowOK(r, client.desired, posted)
      BY <3>1, <3>2, <3>3 DEF ShowOK, SwitchOK, Chatting, InStep
    <3>5. RestorePrevious(r, o) \in View /\ Ends(r, RestorePrevious(r, o))
      <4>1. SwitchOK(r) /\ r.switching # None /\ r.restore = None
        BY <3>2, <3>3, <3>4 DEF ShowOK
      <4> QED BY <4>1, RestorePreviousEnds
    <3>6. PICK b \in View : b = RestorePrevious(r, o) /\ Ends(r, b)
      BY <3>5
    <3>7. ShowOK(b, client.desired, posted) /\ JobId(b.act) = None /\ JobId(b.sync) \in {None, JobId(r.sync)}
      BY <3>4, <3>6, EndsShow
    <3>8. PICK x \in View : x = (IF b.ws = None THEN b ELSE Enqueue(b, IF b.applied = Absent THEN "Recent" ELSE "Sync"))
                            /\ Calm(b, x, posted)
      <4>1. PICK kind \in {"Recent", "Sync"} : kind = IF b.applied = Absent THEN "Recent" ELSE "Sync"
        OBVIOUS
      <4>2. Enqueue(b, kind) \in View /\ Calm(b, Enqueue(b, kind), posted) /\ Calm(b, b, posted)
        BY EnqueueOK, EnqueueCalm, QuietCalm
      <4> QED BY <4>1, <4>2
    <3>9. ShowOK(x, client.desired, posted)
      BY <3>7, <3>8, CalmShow
    <3>10. JobId(x.act) = None /\ JobId(x.sync) \in {None, JobId(ui.sync)}
      <4>1. JobId(x.act) = JobId(b.act)
        BY <3>8 DEF Calm, SameAct, JobId
      <4>2. JobId(x.sync) \in {None, JobId(b.sync)} /\ JobId(d.sync) \in {None, JobId(ui.sync)}
        BY <2>1, <3>8 DEF Calm
      <4> QED BY <3>3, <3>7, <4>1, <4>2
    <3>11. NoCalls(client, net, pending, commands)
      <4>1. ui.act = None
        BY <2>1, <3>2 DEF Calm, SameAct
      <4>2. JobId(ui.act) = None
        BY <4>1 DEF JobId
      <4> QED BY <1>1, <4>2, UnsentFree
    <3>12. Loop(x, commands)
      BY <1>3, <1>6, <2>1, <2>2, <2>3, <2>5, <3>6, <3>8 DEF Observe
    <3>13. ShowOK(x, client.desired, posted')
      BY <1>2, <3>9
    <3> QED BY <1>2, <3>10, <3>11, <3>12, <3>13, FreeHandler
  <2> QED BY <2>4, <2>5
<1> QED BY <1>5, <1>6

\* How a switch may end.
LEMMA SwitchEndsOK ==
    ASSUME NEW u \in View, SwitchOK(u), NEW a \in Action, u.switching # None, u.restore = None, ~ u.synced, u.chat = "idle",
           NEW result, NEW x, x = SwitchEnds(u, a, result)
    PROVE  x \in View /\ Ends(u, x)
<1>1. CASE ~ Accepts(u, a)
  <2>1. PICK w \in Room : w = u.ws
    BY DEF View
  <2>2. x = RestorePrevious(u, w)
    BY <1>1, <2>1 DEF SwitchEnds
  <2> QED BY <2>2, RestorePreviousEnds
<1>2. CASE Accepts(u, a) /\ result = "Joined"
  <2>1. PICK w \in Room : w = a.target
    BY DEF Action
  <2>2. PICK z \in View : z = [u EXCEPT !.act = None]
    <3>1. [u EXCEPT !.act = None] \in View
      BY DEF View
    <3> QED BY <3>1
  <2>21. PICK y : y = [z EXCEPT !.ws = w, !.switching = None, !.applied = Absent, !.synced = FALSE,
                                !.ack = 0, !.chat = "idle", !.reset = FALSE]
    OBVIOUS
  <2>3. y \in View
    <3>1. PICK none \in Room, a0 \in Int : none = None /\ a0 = Absent
      BY DEF Room, Absent
    <3>2. [z EXCEPT !.ws = w, !.switching = none, !.applied = a0, !.synced = FALSE] \in View
      BY DEF View
    <3>3. PICK q \in View : q = [z EXCEPT !.ws = w, !.switching = none, !.applied = a0, !.synced = FALSE]
      BY <3>2
    <3>4. [q EXCEPT !.ack = 0] \in View
      BY DEF View
    <3>5. PICK p \in View : p = [q EXCEPT !.ack = 0]
      BY <3>4
    <3>6. [p EXCEPT !.chat = "idle", !.reset = FALSE] \in View
      BY DEF View
    <3>7. [p EXCEPT !.chat = "idle", !.reset = FALSE]
          = [z EXCEPT !.ws = w, !.switching = none, !.applied = a0, !.synced = FALSE,
                      !.ack = 0, !.chat = "idle", !.reset = FALSE]
      BY <3>3, <3>5
    <3> QED BY <2>21, <3>1, <3>6, <3>7
  <2>40. /\ z.act = None /\ z.restore = u.restore /\ z.posts = u.posts
         /\ z.sync = u.sync /\ z.recent = u.recent
    BY <2>2 DEF View
  <2>41. /\ y.act = z.act /\ y.switching = None /\ y.restore = z.restore /\ y.posts = z.posts
         /\ y.sync = z.sync /\ y.recent = z.recent /\ y.synced = FALSE /\ y.chat = "idle"
    BY <2>21 DEF View
  <2>4. /\ y.act = None /\ y.switching = None /\ y.restore = u.restore /\ y.posts = u.posts
        /\ y.sync = u.sync /\ y.recent = u.recent /\ y.synced = FALSE /\ y.chat = "idle"
    BY <2>40, <2>41
  <2>5. x = Enqueue(y, "Recent")
    BY <1>2, <2>1, <2>2, <2>21 DEF SwitchEnds, CommitWorkspace
  <2>6. x \in View
    BY <2>3, <2>5, EnqueueOK
  <2>7. /\ x.act = y.act /\ x.switching = y.switching /\ x.restore = y.restore /\ x.posts = y.posts
        /\ x.sync = y.sync /\ x.recent = y.recent /\ x.synced = y.synced /\ x.chat = y.chat
    BY <2>3, <2>5 DEF Enqueue, View
  <2> QED BY <2>4, <2>6, <2>7 DEF Ends
<1>3. CASE Accepts(u, a) /\ result = "Restored"
  <2>1. PICK y : y = [u EXCEPT !.act = None, !.switching = None, !.reset = TRUE]
    OBVIOUS
  <2>2. y \in View
    <3>1. None \in Room
      BY DEF Room
    <3> QED BY <2>1, <3>1 DEF View
  <2>3. /\ y.act = None /\ y.switching = None /\ y.restore = u.restore /\ y.posts = u.posts
        /\ y.sync = u.sync /\ y.recent = u.recent /\ y.synced = u.synced /\ y.chat = u.chat
    BY <2>1 DEF View
  <2>4. x = Enqueue(y, "Sync")
    BY <1>3, <2>1 DEF SwitchEnds
  <2>5. x \in View
    BY <2>2, <2>4, EnqueueOK
  <2>6. /\ x.act = y.act /\ x.switching = y.switching /\ x.restore = y.restore /\ x.posts = y.posts
        /\ x.sync = y.sync /\ x.recent = y.recent /\ x.synced = y.synced /\ x.chat = y.chat
    BY <2>2, <2>4 DEF Enqueue, View
  <2> QED BY <2>3, <2>5, <2>6 DEF Ends
<1>4. CASE Accepts(u, a) /\ result \notin {"Joined", "Restored"}
  <2>1. x = [u EXCEPT !.act = None, !.switching = None, !.conn = "closed", !.synced = FALSE]
    BY <1>4 DEF SwitchEnds
  <2>2. x \in View
    <3>1. None \in Room
      BY DEF Room
    <3> QED BY <2>1, <3>1 DEF View
  <2>3. /\ x.act = None /\ x.switching = None /\ x.restore = u.restore /\ x.posts = u.posts
        /\ x.sync = u.sync /\ x.recent = u.recent /\ x.synced = FALSE /\ x.chat = u.chat
    BY <2>1 DEF View
  <2> QED BY <2>2, <2>3 DEF Ends
<1> QED BY <1>1, <1>2, <1>3, <1>4

\* A switch is over: nothing moves the connection any more.
LEMMA SwitchDoneChat == ASSUME Inv, Inv', AckInv, ChatInv, SwitchDone PROVE ChatInv'
<1>1. ui \in View /\ ShowOK(ui, client.desired, posted) /\ SwitchOK(ui)
  BY DEF Inv, TypeOK, ChatInv, OpenChat, ShowOK
<1>2. PICK v \in Reply(ui.act) :
         Loop(SwitchEnds(ui, ui.act, NextStep(ui.act, v.ok)), commands) /\ TakeReply(v)
  BY DEF SwitchDone
<1>3. UNCHANGED <<net, pending, posted>> /\ client' = client /\ replies' \subseteq replies /\ waiting' \subseteq waiting
  BY <1>2 DEF SwitchDone, TakeReply
<1>4. PICK a \in Action : a = ui.act /\ a # None /\ a.step \in Switch
  BY <1>1 DEF SwitchDone, View, Action, Step, Switch
<1>5. ui.switching # None /\ ui.restore = None /\ ~ ui.synced /\ ui.chat = "idle"
  <2>1. InStep(ui, Switch)
    BY <1>4 DEF InStep
  <2> QED BY <1>1, <1>4, <2>1 DEF SwitchOK
<1>6. NoCalls(client, net, pending, commands)
  BY <1>2, <1>4, TakenFree
<1>7. PICK result : result = NextStep(a, v.ok)
  OBVIOUS
<1>8. PICK x : x = SwitchEnds(ui, a, result) /\ Loop(x, commands)
  BY <1>2, <1>4, <1>7
<1>9. x \in View /\ Ends(ui, x)
  BY <1>1, <1>5, <1>8, SwitchEndsOK
<1>10. ShowOK(x, client.desired, posted) /\ JobId(x.act) = None /\ JobId(x.sync) \in {None, JobId(ui.sync)}
  BY <1>1, <1>9, EndsShow
<1>11. ShowOK(x, client.desired, posted')
  BY <1>3, <1>10
<1> QED BY <1>3, <1>6, <1>8, <1>9, <1>10, <1>11, FreeHandler

\* A chat is settled by an answer only when it is stored.
LEMMA ChatDoneChat == ASSUME Inv, Inv', AckInv, ChatInv, ChatDone PROVE ChatInv'
<1>1. ui \in View /\ ShowOK(ui, client.desired, posted) /\ SwitchOK(ui)
      /\ CallsOK(ui, client, net, pending, commands, replies, posted)
  BY DEF Inv, TypeOK, ChatInv, OpenChat, ShowOK
<1>2. PICK u \in View : u = [ui EXCEPT !.act = None]
  <2>1. [ui EXCEPT !.act = None] \in View
    BY <1>1 DEF View
  <2> QED BY <2>1
<1>3. /\ u.act = None /\ u.switching = ui.switching /\ u.restore = ui.restore /\ u.posts = ui.posts
      /\ u.sync = ui.sync /\ u.recent = ui.recent /\ u.synced = ui.synced /\ u.chat = ui.chat
  BY <1>1, <1>2 DEF View
<1>4. PICK v \in Reply(ui.act) : Loop(ChatOutcome(u, ui.act, v), commands) /\ TakeReply(v)
  BY <1>2 DEF ChatDone
<1>5. InStep(ui, {"post"}) /\ ui.act # None /\ UNCHANGED <<net, pending, posted>> /\ client' = client
      /\ replies' \subseteq replies /\ waiting' \subseteq waiting
  BY <1>4 DEF ChatDone, TakeReply, InStep
<1>6. NoCalls(client, net, pending, commands)
  BY <1>4, <1>5, TakenFree
<1>7. PICK c \in {"idle", "sent", "uncertain"} :
        /\ ChatOutcome(u, ui.act, v) = [u EXCEPT !.chat = c]
        /\ c = "idle" => ui.chat = "idle" \/ v.answered
  <2>1. CASE Accepts(u, ui.act) /\ v.answered /\ (v.ok => v.ws = u.ws)
    BY <2>1 DEF ChatOutcome
  <2>2. CASE ~ (Accepts(u, ui.act) /\ v.answered /\ (v.ok => v.ws = u.ws))
    <3>1. PICK c \in {"idle", "sent", "uncertain"} : c = IF u.chat = "sent" THEN "uncertain" ELSE u.chat
      BY DEF View
    <3>2. ChatOutcome(u, ui.act, v) = [u EXCEPT !.chat = c]
      BY <2>2, <3>1 DEF ChatOutcome, Uncertain
    <3> QED BY <1>3, <3>1, <3>2
  <2> QED BY <2>1, <2>2
<1>8. PICK x \in View : x = [u EXCEPT !.chat = c]
  <2>1. [u EXCEPT !.chat = c] \in View
    BY DEF View
  <2> QED BY <2>1
<1>9. /\ x.act = None /\ x.switching = ui.switching /\ x.restore = ui.restore /\ x.posts = ui.posts
      /\ x.sync = ui.sync /\ x.recent = ui.recent /\ x.synced = ui.synced /\ x.chat = c
  BY <1>3, <1>8 DEF View
<1>10. v.answered => posted # {}
  <2>1. HAVE v.answered
  <2>2. v \in replies /\ v.id = ui.act.id
    BY <2>1 DEF Reply, Failed
  <2>3. v.id \in Id
    BY <2>2 DEF Inv, TypeOK, FeedTypeOK, Value
  <2>4. Posting(ui, v.id) /\ ReplyChat(ui, client, v, posted)
    BY <1>1, <1>5, <2>2, <2>3, FeedAssumption DEF Posting, CallsOK
  <2> QED BY <2>1, <2>4 DEF ReplyChat
<1>11. ShowOK(x, client.desired, posted)
  <2>1. ui.switching = None /\ Chatting(ui)
    BY <1>1, <1>5 DEF SwitchOK, Chatting
  <2>2. SwitchOK(x)
    BY <1>1, <1>9, <2>1 DEF SwitchOK, InStep
  <2>3. x.posts > 0 /\ x.chat = "idle" => posted # {}
    BY <1>1, <1>7, <1>9, <1>10 DEF ShowOK
  <2> QED BY <1>1, <2>1, <2>2, <2>3 DEF ShowOK
<1>12. ShowOK(x, client.desired, posted') /\ JobId(x.act) = None /\ JobId(x.sync) \in {None, JobId(ui.sync)}
  BY <1>5, <1>9, <1>11 DEF JobId
<1>13. Loop(x, commands)
  BY <1>4, <1>7, <1>8
<1> QED BY <1>5, <1>6, <1>12, <1>13, FreeHandler

\* A chat is begun, or repeated, in a view that is live.
LEMMA SubmitChatChat == ASSUME Inv, Inv', AckInv, ChatInv, SubmitChat \/ RetryChat PROVE ChatInv'
<1>1. ui \in View /\ ShowOK(ui, client.desired, posted) /\ SwitchOK(ui)
      /\ CallsOK(ui, client, net, pending, commands, replies, posted)
  BY DEF Inv, TypeOK, ChatInv, OpenChat, ShowOK
<1>2. PICK a \in Action : a = NewAction("post", None, None) /\ a.step = "post" /\ a.id = None /\ a.full = FALSE
  <2>1. PICK step \in Step, none \in Room : step = "post" /\ none = None
    BY DEF Step, Room
  <2>2. NewAction(step, none, none) \in Action
    BY NewActionOK
  <2>3. PICK b : b = NewAction("post", None, None)
    OBVIOUS
  <2>4. b.step = "post" /\ b.id = None /\ b.full = FALSE
    BY <2>3 DEF NewAction
  <2> QED BY <2>1, <2>2, <2>3, <2>4
<1>3. ui.act = None /\ ui.switching = None /\ ui.restore = None /\ ui.synced
  BY <1>1 DEF SubmitChat, RetryChat, Writable, SwitchOK
<1>4. PICK n \in Nat : Loop([ui EXCEPT !.chat = "sent", !.posts = n, !.act = a], commands)
  <2>1. ui.posts \in Nat /\ ui.posts + 1 \in Nat
    BY <1>1 DEF View
  <2>2. CASE SubmitChat
    BY <1>2, <2>1, <2>2 DEF SubmitChat
  <2>3. CASE RetryChat
    <3>1. [ui EXCEPT !.chat = "sent", !.act = a] = [ui EXCEPT !.chat = "sent", !.posts = ui.posts, !.act = a]
      BY <1>1 DEF View
    <3> QED BY <1>2, <2>1, <2>3, <3>1 DEF RetryChat
  <2> QED BY <2>2, <2>3
<1>5. PICK u \in View : u = [ui EXCEPT !.chat = "sent", !.posts = n, !.act = a]
  <2>1. [ui EXCEPT !.chat = "sent", !.posts = n, !.act = a] \in View
    BY <1>1 DEF View
  <2> QED BY <2>1
<1>6. /\ u.act = a /\ u.switching = ui.switching /\ u.restore = ui.restore /\ u.chat = "sent"
      /\ u.sync = ui.sync /\ u.recent = ui.recent /\ u.synced = ui.synced
  BY <1>1, <1>5 DEF View
<1>7. /\ UNCHANGED <<net, pending>> /\ client' = client /\ replies' \subseteq replies /\ waiting' \subseteq waiting
      /\ posted' = {} \/ (posted' = posted /\ ui.chat = "uncertain")
  BY DEF SubmitChat, RetryChat
<1>8. NoCalls(client, net, pending, commands)
  <2>1. JobId(ui.act) = None
    BY <1>3 DEF JobId
  <2> QED BY <1>1, <2>1, UnsentFree
<1>9. SwitchOK(u)
  BY <1>2, <1>3, <1>6 DEF SwitchOK, InStep, Switch
<1>10. ShowOK(u, client.desired, posted')
  <2>1. client.desired # None
    BY <1>1, <1>3 DEF ShowOK
  <2>2. CASE posted' = {}
    BY <1>6, <1>9, <2>1, <2>2 DEF ShowOK
  <2>3. CASE posted' = posted /\ ui.chat = "uncertain"
    <3>1. Chatting(ui)
      BY <2>3 DEF Chatting
    <3> QED BY <1>1, <1>6, <1>9, <2>1, <2>3, <3>1 DEF ShowOK
  <2> QED BY <1>7, <2>2, <2>3
<1>11. JobId(u.act) = None /\ JobId(u.sync) \in {None, JobId(ui.sync)} /\ Loop(u, commands)
  BY <1>2, <1>4, <1>5, <1>6 DEF JobId
<1> QED BY <1>7, <1>8, <1>10, <1>11, FreeHandler

\* The user asks for the history again.
LEMMA RecentHistoryChat == ASSUME Inv, Inv', ChatInv, RecentHistory PROVE ChatInv'
<1>1. ui \in View
  BY DEF Inv, TypeOK
<1>2. PICK e \in View : e = Enqueue(ui, "Recent") /\ Calm(ui, e, posted)
  BY <1>1, EnqueueOK, EnqueueCalm
<1>3. PICK u \in View : u = [e EXCEPT !.refreshes = @ + 1]
  <2>1. [e EXCEPT !.refreshes = @ + 1] \in View
    BY DEF View
  <2> QED BY <2>1
<1>4. /\ u.act = e.act /\ u.switching = e.switching /\ u.restore = e.restore /\ u.posts = e.posts
      /\ u.sync = e.sync /\ u.recent = e.recent /\ u.synced = e.synced /\ u.chat = e.chat
  BY <1>3 DEF View
<1>5. Calm(e, u, posted)
  BY <1>4, QuietCalm
<1>6. Calm(ui, u, posted)
  BY <1>2, <1>5, CalmTrans
<1>7. Loop(u, commands) /\ UNCHANGED <<net, pending, posted>> /\ client' = client
      /\ replies' \subseteq replies /\ waiting' \subseteq waiting
  BY <1>2, <1>3 DEF RecentHistory
<1> QED BY <1>6, <1>7, CalmHandler

\* The user selects a room: the reads are dropped and the switch begins.
LEMMA SelectChat == ASSUME Inv, Inv', AckInv, ChatInv, NEW target \in Workspace, SelectWorkspace(target) PROVE ChatInv'
<1>1. /\ ui \in View /\ commands \in Seq(Command) /\ Len(commands) <= CommandCap /\ commands' \in Seq(Command)
      /\ ShowOK(ui, client.desired, posted) /\ SwitchOK(ui)
      /\ CallsOK(ui, client, net, pending, commands, replies, posted)
      /\ PlaceOK(net, pending, commands, replies, waiting)
  BY DEF Inv, TypeOK, FeedTypeOK, CommandsOK, ChatInv, OpenChat, ShowOK
<1>2. PICK ids : ids = Dropped({ui.sync, ui.recent})
  OBVIOUS
<1>3. PICK cmds \in Seq(Command) :
         /\ cmds = CancelAll(ids) /\ Len(commands) <= Len(cmds)
         /\ \A k \in 1 .. Len(commands) : cmds[k] = commands[k]
         /\ \A k \in 1 .. Len(cmds) : k > Len(commands) => cmds[k].op = "cancel" /\ cmds[k].id \in ids
  BY <1>1, <1>2, CancelAllOK
<1>4. PICK a \in Action : /\ a = NewAction(IF ui.ws = None THEN "join" ELSE "unsubscribe", ui.ws, target)
                          /\ a.step \in {"join", "unsubscribe"} /\ a.id = None /\ a.full = FALSE
  <2>1. PICK step \in Step : step = (IF ui.ws = None THEN "join" ELSE "unsubscribe")
    BY DEF Step
  <2>2. PICK t \in Room, old \in Room : t = target /\ old = ui.ws
    BY <1>1 DEF Room, View
  <2>3. NewAction(step, old, t) \in Action
    BY NewActionOK
  <2>4. PICK b : b = NewAction(step, old, t)
    OBVIOUS
  <2>5. b.id = None /\ b.full = FALSE /\ b.step = step
    BY <2>4 DEF NewAction
  <2> QED BY <2>1, <2>2, <2>3, <2>4, <2>5
<1>5. PICK x \in View : /\ x = [ui EXCEPT !.switching = target, !.switches = @ + 1, !.synced = FALSE,
                                          !.sync = None, !.recent = None, !.queued = {}, !.act = a]
                        /\ x.chat = ui.chat /\ x.posts = ui.posts /\ x.restore = ui.restore /\ x.act = a
                        /\ x.sync = None /\ x.recent = None /\ x.switching = target /\ x.synced = FALSE
  <2>1. PICK t \in Room, k1 \in Nat : t = target /\ k1 = ui.switches + 1
    BY <1>1 DEF Room, View
  <2>2. PICK v \in View : /\ v = [ui EXCEPT !.switching = t, !.switches = k1, !.synced = FALSE]
                          /\ v.chat = ui.chat /\ v.posts = ui.posts /\ v.restore = ui.restore /\ v.switching = t
                          /\ v.synced = FALSE
    <3>1. [ui EXCEPT !.switching = t, !.switches = k1, !.synced = FALSE] \in View
      BY <1>1 DEF View
    <3> QED BY <1>1, <3>1 DEF View
  <2>3. [v EXCEPT !.sync = None, !.recent = None, !.queued = {}, !.act = a] \in View
    BY DEF View
  <2>4. [v EXCEPT !.sync = None, !.recent = None, !.queued = {}, !.act = a]
        = [ui EXCEPT !.switching = target, !.switches = @ + 1, !.synced = FALSE,
                     !.sync = None, !.recent = None, !.queued = {}, !.act = a]
    BY <1>1, <2>1, <2>2 DEF View
  <2>5. PICK u \in View : u = [v EXCEPT !.sync = None, !.recent = None, !.queued = {}, !.act = a]
    BY <2>3
  <2>6. u.chat = v.chat /\ u.posts = v.posts /\ u.restore = v.restore /\ u.act = a /\ u.sync = None /\ u.recent = None
        /\ u.switching = v.switching /\ u.synced = v.synced
    BY <2>5 DEF View
  <2>7. u = [ui EXCEPT !.switching = target, !.switches = @ + 1, !.synced = FALSE,
                       !.sync = None, !.recent = None, !.queued = {}, !.act = a]
    BY <2>4, <2>5, Zenon
  <2>8. /\ u.chat = ui.chat /\ u.posts = ui.posts /\ u.restore = ui.restore /\ u.act = a
        /\ u.sync = None /\ u.recent = None /\ u.switching = target /\ u.synced = FALSE
    BY <2>1, <2>2, <2>6, Zenon
  <2> QED BY <2>7, <2>8, Zenon
<1>6. /\ Loop(x, cmds) /\ UNCHANGED <<net, pending, client, posted>> /\ waiting' = waiting \ ids
      /\ replies' \in SUBSET replies /\ ui.act = None /\ ui.switching = None /\ ui.chat = "idle"
  BY <1>2, <1>3, <1>4, <1>5 DEF SelectWorkspace
<1>7. PICK R \in SUBSET replies, W \in SUBSET waiting : R = replies' /\ W = waiting' /\ W = waiting \ ids
  BY <1>6
<1>8. ShowOK(x, client.desired, posted)
  <2>1. target # None
    BY FeedAssumption
  <2>2. ui.restore = None
    BY <1>1, <1>6 DEF SwitchOK
  <2>3. ~ InStep(x, {"post"})
    BY <1>4, <1>5 DEF InStep
  <2>4. SwitchOK(x)
    BY <1>4, <1>5, <1>6, <2>1, <2>2, <2>3 DEF SwitchOK
  <2> QED BY <1>1, <1>5, <1>6, <2>3, <2>4 DEF ShowOK, Chatting
<1>9. CallsOK(x, client, net, pending, commands, R, posted)
  <2>1. JobId(ui.act) = None
    BY <1>6 DEF JobId
  <2>2. NoCalls(client, net, pending, commands)
    BY <1>1, <2>1, UnsentFree
  <2>3. JobId(x.act) = None /\ JobId(x.sync) \in {None, JobId(ui.sync)}
    BY <1>4, <1>5 DEF JobId
  <2> QED BY <1>1, <2>2, <2>3, FreeCalls
<1>10. PlaceOK(net, pending, commands, R, W)
  BY <1>1, FewerPlace
<1>11. CallsOK(x, client, net, pending, cmds, R, posted) /\ PlaceOK(net, pending, cmds, R, W)
  <2>1. \A k \in 1 .. Len(cmds) : \/ k \in 1 .. Len(commands) /\ cmds[k] = commands[k]
                                  \/ cmds[k].op # "rpc" /\ (cmds[k].op = "cancel" => cmds[k].id \notin W)
    BY <1>1, <1>3, <1>7
  <2> QED BY <1>1, <1>9, <1>10, <2>1, MoreCalls
<1>12. Calm(x, ui', posted) /\ CallsOK(ui', client, net, pending, commands', R, posted)
       /\ PlaceOK(net, pending, commands', R, W)
  BY <1>1, <1>6, <1>11, LoopCalm
<1>13. ShowOK(ui', client.desired, posted)
  BY <1>8, <1>12, CalmShow
<1>14. WalkOK(net, client)
  BY DEF ChatInv, OpenChat
<1>15. OpenChat(ui', client, net, pending, commands', R, W, posted)
  BY <1>12, <1>13, <1>14 DEF OpenChat
<1> QED BY <1>6, <1>7, <1>15 DEF ChatInv

\* The action, or the Sync read, goes on to its next call.
LEMMA ContinuesChat == ASSUME Inv, Inv', AckInv, ChatInv, ActionContinues \/ SyncContinues PROVE ChatInv'
<1>1. /\ ui \in View /\ ui' \in View /\ ShowOK(ui, client.desired, posted) /\ SwitchOK(ui)
      /\ CallsOK(ui, client, net, pending, commands, replies, posted)
      /\ PlaceOK(net, pending, commands, replies, waiting) /\ WalkOK(net, client)
  BY DEF Inv, TypeOK, ChatInv, OpenChat, ShowOK
<1>2. UNCHANGED <<net, client, pending, commands, posted>> /\ replies' \in SUBSET replies /\ waiting' \in SUBSET waiting
  BY DEF ActionContinues, SyncContinues, TakeReply
<1>3. PICK R \in SUBSET replies, W \in SUBSET waiting, x \in View : R = replies' /\ W = waiting' /\ x = ui'
  BY <1>1, <1>2
<1>4. ShowOK(x, client.desired, posted) /\ CallsOK(x, client, net, pending, commands, R, posted)
  <2>1. CASE SyncContinues
    <3>1. ui.sync \in Read /\ ui.sync # None
      BY <1>1, <2>1 DEF SyncContinues, View
    <3>2. PICK s : s = [ui.sync EXCEPT !.step = "subscribe", !.id = None]
      OBVIOUS
    <3>3. s.id = None
      BY <3>1, <3>2 DEF Read
    <3>4. x = [ui EXCEPT !.sync = s]
      BY <1>1, <1>3, <2>1, <3>2 DEF SyncContinues, View, Read
    <3>5. /\ x.act = ui.act /\ x.switching = ui.switching /\ x.restore = ui.restore /\ x.posts = ui.posts
          /\ x.sync = s /\ x.recent = ui.recent /\ x.synced = ui.synced /\ x.chat = ui.chat
      BY <1>1, <3>4 DEF View
    <3>6. JobId(s) = None
      BY <3>3 DEF JobId
    <3>7. Calm(ui, x, posted)
      BY <3>1, <3>5, <3>6 DEF Calm, SameAct
    <3>8. SameAct(ui, x) /\ JobId(x.sync) \in {None, JobId(ui.sync)}
      BY <3>7 DEF Calm
    <3> QED BY <1>1, <3>7, <3>8, CalmShow, CalmCalls
  <2>2. CASE ActionContinues
    <3>1. PICK a \in Action : a = ui.act /\ a # None /\ a.step \in Switch
      BY <1>1, <2>2 DEF ActionContinues, View, Action, Step, Switch
    <3>2. PICK v \in Reply(a) :
            /\ NextStep(a, v.ok) \in {"leave", "join", "rejoin"}
            /\ ui' = [ui EXCEPT !.act.step = NextStep(a, v.ok), !.act.id = None, !.act.full = FALSE]
      BY <2>2, <3>1 DEF ActionContinues
    <3>3. PICK step \in {"leave", "join", "rejoin"} : step = NextStep(a, v.ok)
      BY <3>2
    <3>4. PICK b : b = [a EXCEPT !.step = step, !.id = None, !.full = FALSE]
      OBVIOUS
    <3>5. b.step = step /\ b.id = None /\ b.full = FALSE
      BY <3>4 DEF Action
    <3>6. x = [ui EXCEPT !.act = b]
      BY <1>1, <1>3, <3>1, <3>2, <3>3, <3>4 DEF View
    <3>7. /\ x.act = b /\ x.switching = ui.switching /\ x.restore = ui.restore /\ x.posts = ui.posts
          /\ x.sync = ui.sync /\ x.recent = ui.recent /\ x.synced = ui.synced /\ x.chat = ui.chat
      BY <1>1, <3>6 DEF View
    <3>8. ui.switching # None /\ ui.restore = None
      <4>1. InStep(ui, Switch)
        BY <3>1 DEF InStep
      <4> QED BY <1>1, <3>1, <4>1 DEF SwitchOK
    <3>9. ~ InStep(x, {"post"})
      BY <3>5, <3>7 DEF InStep
    <3>10. SwitchOK(x)
      BY <1>1, <3>5, <3>7, <3>8, <3>9 DEF SwitchOK
    <3>11. ShowOK(x, client.desired, posted)
      BY <1>1, <3>7, <3>9, <3>10 DEF ShowOK, Chatting
    <3>12. NoCalls(client, net, pending, commands)
      BY <3>1, TakenFree
    <3>13. JobId(x.act) = None /\ JobId(x.sync) \in {None, JobId(ui.sync)}
      BY <3>5, <3>7 DEF JobId
    <3>14. CallsOK(x, client, net, pending, commands, R, posted)
      BY <1>1, <3>12, <3>13, FreeCalls
    <3> QED BY <3>11, <3>14
  <2> QED BY <2>1, <2>2
<1>5. PlaceOK(net, pending, commands, R, W)
  BY <1>1, FewerPlace
<1>6. OpenChat(x, client, net, pending, commands, R, W, posted)
  BY <1>1, <1>4, <1>5 DEF OpenChat
<1> QED BY <1>2, <1>3, <1>6 DEF ChatInv

-----------------------------------------------------------------------------
(* Calls the controller queues.                                               *)

NotCancelled(i, cmds) == \A k \in 1 .. Len(cmds) : cmds[k].op = "cancel" => cmds[k].id # i

\* A task learns the identifier of the call it is about to queue.
LEMMA SentCalls ==
    ASSUME NEW u, NEW v, NEW m, NEW n, NEW P, NEW cmds, NEW R, NEW Q, NEW i, CallsOK(u, m, n, P, cmds, R, Q),
           Fresh(i, n, cmds, R), SameAct(u, v) \/ (NoCalls(m, n, P, cmds) /\ JobId(v.act) = i),
           JobId(v.sync) \in {None, i, JobId(u.sync)}
    PROVE  CallsOK(v, m, n, P, cmds, R, Q)
<1>1. \A j : Syncing(v, j) => Syncing(u, j) \/ j = i
  BY DEF Syncing
<1>2. CASE SameAct(u, v)
  <2>1. \A j, kind : Own(v, kind, j) <=> Own(u, kind, j)
    BY <1>2 DEF Own, SameAct
  <2>2. \A j : Posting(v, j) => Posting(u, j)
    BY <1>2 DEF Posting, InStep, SameAct
  <2>3. \A c : (QueuedChat(u, c) => QueuedChat(v, c)) /\ (RequestChat(u, m, c) => RequestChat(v, m, c))
    BY <2>1, <2>2 DEF QueuedChat, RequestChat
  <2>4. \A f : FrameChat(u, m, f, Q) /\ f.id # i => FrameChat(v, m, f, Q)
    BY <1>1, <2>1, <2>2 DEF FrameChat
  <2>5. \A p : PendingChat(u, p) => PendingChat(v, p)
    BY <2>1 DEF PendingChat
  <2>6. \A r : ReplyChat(u, m, r, Q) /\ r.id # i => ReplyChat(v, m, r, Q)
    BY <1>1, <2>2 DEF ReplyChat
  <2>7. \A k \in 1 .. Len(n.out) : FrameChat(v, m, n.out[k], Q)
    BY <2>4 DEF CallsOK, Fresh
  <2>8. \A r \in R : ReplyChat(v, m, r, Q)
    BY <2>6 DEF CallsOK, Fresh
  <2> QED BY <2>3, <2>5, <2>7, <2>8 DEF CallsOK
<1>3. CASE NoCalls(m, n, P, cmds) /\ JobId(v.act) = i
  <2>1. \A j : Posting(v, j) => j = i
    BY <1>3 DEF Posting, InStep, JobId
  <2>2. \A k \in 1 .. Len(cmds) : cmds[k].op = "rpc" => QueuedChat(v, cmds[k].call)
    BY <1>3, <2>1 DEF NoCalls, QueuedChat, Fresh
  <2>3. \A k \in 1 .. Len(n.req) : RequestChat(v, m, n.req[k])
    BY <1>3, <2>1 DEF NoCalls, RequestChat, Fresh
  <2>4. \A k \in 1 .. Len(n.out) : FrameChat(v, m, n.out[k], Q)
    BY <1>1, <1>3, <2>1 DEF NoCalls, FrameChat, CallsOK, Fresh
  <2>5. \A p \in P : PendingChat(v, p)
    BY <1>3 DEF NoCalls, PendingChat
  <2>6. \A r \in R : ReplyChat(v, m, r, Q)
    BY <1>1, <2>1 DEF CallsOK, ReplyChat, Fresh
  <2> QED BY <2>2, <2>3, <2>4, <2>5, <2>6 DEF CallsOK
<1> QED BY <1>2, <1>3

\* The call goes behind the others.
LEMMA CallQueued ==
    ASSUME NEW v, NEW m, NEW n, NEW P, NEW cmds \in Seq(Command), NEW R, NEW W, NEW Q, NEW c,
           NEW more \in Seq(Command), more = Append(cmds, Rpc(c)),
           CallsOK(v, m, n, P, cmds, R, Q), PlaceOK(n, P, cmds, R, W), QueuedChat(v, c),
           Fresh(c.id, n, cmds, R), NotCancelled(c.id, cmds)
    PROVE  CallsOK(v, m, n, P, more, R, Q) /\ PlaceOK(n, P, more, R, W \cup {c.id})
<1>1. PICK e : e = Rpc(c) /\ e.op = "rpc" /\ e.call = c
  BY DEF Rpc
<1>2. \A k \in 1 .. Len(more) : more[k] = e \/ (k \in 1 .. Len(cmds) /\ more[k] = cmds[k])
  <2>1. Len(more) = Len(cmds) + 1 /\ more[Len(more)] = e
    BY <1>1
  <2>2. \A k \in 1 .. Len(cmds) : more[k] = cmds[k]
    OBVIOUS
  <2>3. \A k \in 1 .. Len(more) : k = Len(more) \/ k \in 1 .. Len(cmds)
    BY <2>1
  <2> QED BY <2>1, <2>2, <2>3
<1>3. CallsOK(v, m, n, P, more, R, Q)
  <2>1. \A k \in 1 .. Len(more) : more[k].op = "rpc" => QueuedChat(v, more[k].call)
    BY <1>1, <1>2 DEF CallsOK
  <2> QED BY <2>1 DEF CallsOK
<1>4. PlaceOK(n, P, more, R, W \cup {c.id})
  <2>1. \A k \in 1 .. Len(more) : \A j \in 1 .. Len(n.out) : more[k].op = "rpc" => more[k].call.id # n.out[j].id
    BY <1>1, <1>2 DEF PlaceOK, Fresh
  <2>2. \A k \in 1 .. Len(more) : more[k].op = "cancel" => more[k].id \notin W \cup {c.id}
    BY <1>1, <1>2 DEF PlaceOK, NotCancelled
  <2> QED BY <2>1, <2>2 DEF PlaceOK
<1> QED BY <1>3, <1>4

\* The view x when there is no room for the call.
Refusing(x, s, job) == s.job = Refused(job) => CallsOK(x, client, net, pending, commands, replies, posted)

\* The view x when the call is queued.
Sending(x, s, job, kind) ==
    \A i \in FreshIds : s.job = Sent(job, i) =>
        /\ SameAct(ui, x) \/ (NoCalls(client, net, pending, commands) /\ JobId(x.act) = i)
        /\ JobId(x.sync) \in {None, i, JobId(ui.sync)}
        /\ kind \in Exclusive => Own(x, kind, i)
        /\ Posting(x, i) => kind = "post"

\* A task sends its call, or learns that there is no room for it.
LEMMA SentChat ==
    ASSUME Inv, Inv', ChatInv, UNCHANGED <<net, client, pending, replies, posted>>,
           NEW x \in View, x = ui', NEW s, NEW job, NEW kind, NEW w, NEW after, Outcome(s, job, kind, w, after),
           commands' = s.cmds, waiting' = s.wait,
           ShowOK(x, client.desired, posted),
           Refusing(x, s, job), Sending(x, s, job, kind)
    PROVE  ChatInv'
<1>1. /\ CallsOK(ui, client, net, pending, commands, replies, posted)
      /\ PlaceOK(net, pending, commands, replies, waiting) /\ WalkOK(net, client)
      /\ commands \in Seq(Command) /\ commands' \in Seq(Command)
  BY DEF ChatInv, OpenChat, Inv, TypeOK, CommandsOK
<1>2. CASE s.job = Refused(job) /\ s.cmds = commands /\ s.wait = waiting
  <2>1. CallsOK(x, client, net, pending, commands, replies, posted)
    BY <1>2 DEF Refusing
  <2>2. OpenChat(x, client, net, pending, commands, replies, waiting, posted)
    BY <1>1, <2>1 DEF OpenChat
  <2> QED BY <1>2, <2>2 DEF ChatInv
<1>3. ASSUME NEW i \in FreshIds, s.job = Sent(job, i), s.wait = waiting \cup {i},
             s.cmds = Append(commands, Rpc([id |-> i, kind |-> kind, ws |-> w, after |-> after]))
      PROVE  ChatInv'
  <2>1. Fresh(i, net, commands, replies)
    BY FreshOK
  <2>2. NotCancelled(i, commands)
    <3>1. DOMAIN commands = 1 .. Len(commands)
      BY <1>1
    <3> QED BY <3>1 DEF FreshIds, NotCancelled
  <2>3. PICK c : c = [id |-> i, kind |-> kind, ws |-> w, after |-> after]
    OBVIOUS
  <2>4. c.id = i /\ c.kind = kind
    BY <2>3
  <2>5. PICK more \in Seq(Command) : more = commands' /\ more = Append(commands, Rpc(c))
    BY <1>1, <1>3, <2>3
  <2>6. CallsOK(x, client, net, pending, commands, replies, posted)
    <3>1. SameAct(ui, x) \/ (NoCalls(client, net, pending, commands) /\ JobId(x.act) = i)
      BY <1>3 DEF Sending
    <3>2. JobId(x.sync) \in {None, i, JobId(ui.sync)}
      BY <1>3 DEF Sending
    <3> QED BY <1>1, <2>1, <3>1, <3>2, SentCalls
  <2>7. QueuedChat(x, c)
    BY <1>3, <2>4 DEF QueuedChat, Sending
  <2>8. CallsOK(x, client, net, pending, more, replies, posted) /\ PlaceOK(net, pending, more, replies, waiting \cup {i})
    <3>1. Fresh(c.id, net, commands, replies) /\ NotCancelled(c.id, commands)
      BY <2>1, <2>2, <2>4
    <3>2. CallsOK(x, client, net, pending, more, replies, posted) /\ PlaceOK(net, pending, more, replies, waiting \cup {c.id})
      BY <1>1, <2>5, <2>6, <2>7, <3>1, CallQueued
    <3> QED BY <2>4, <3>2
  <2>9. PICK W : W = waiting \cup {i}
    OBVIOUS
  <2>10. OpenChat(x, client, net, pending, more, replies, W, posted)
    BY <1>1, <2>8, <2>9 DEF OpenChat
  <2> QED BY <1>3, <2>5, <2>9, <2>10 DEF ChatInv
<1> QED BY <1>2, <1>3 DEF Outcome

\* A task sends its call.
LEMMA SendOfTasksChat == ASSUME Inv, Inv', AckInv, ChatInv, SendSync \/ SendRecent \/ SendAction PROVE ChatInv'
<1>1. /\ ui \in View /\ ShowOK(ui, client.desired, posted) /\ SwitchOK(ui) /\ ui' \in View
      /\ CallsOK(ui, client, net, pending, commands, replies, posted) /\ WaitOK(ui, waiting)
  BY DEF Inv, TypeOK, ChatInv, OpenChat, ShowOK, AckInv
<1>2. UNCHANGED <<net, client, pending, replies, posted>>
  BY DEF SendSync, SendRecent, SendAction
<1>3. PICK x \in View : x = ui'
  BY <1>1
<1>4. \A i \in FreshIds : i \in Id /\ i # None /\ i \notin waiting
  BY FeedAssumption DEF FreshIds
<1>5. CASE SendSync
  <2>1. PICK job \in Read : job = ui.sync /\ FreshIds # {} /\ ui.sync # None /\ ui.sync.id = None
    BY <1>1, <1>5 DEF SendSync, Unsent, View
  <2>2. PICK kind, after : kind = job.step /\ after = IF job.step = "subscribe" THEN job.after ELSE 0
    OBVIOUS
  <2>3. PICK s : s = SendCall(job, kind, None, after)
    OBVIOUS
  <2>4. x = [ui EXCEPT !.sync = s.job] /\ commands' = s.cmds /\ waiting' = s.wait
    BY <1>3, <1>5, <2>1, <2>2, <2>3 DEF SendSync
  <2>5. /\ x.act = ui.act /\ x.switching = ui.switching /\ x.restore = ui.restore /\ x.posts = ui.posts
        /\ x.sync = s.job /\ x.recent = ui.recent /\ x.synced = ui.synced /\ x.chat = ui.chat
    BY <1>1, <2>4 DEF View
  <2>6. Outcome(s, job, kind, None, after)
    BY <2>1, <2>3, SendCallCases
  <2>7. SameAct(ui, x) /\ InStep(x, {"post"}) = InStep(ui, {"post"}) /\ InStep(x, Switch) = InStep(ui, Switch)
    BY <2>5 DEF SameAct, InStep
  <2>8. ShowOK(x, client.desired, posted)
    <3>1. ui.switching = None
      BY <1>1, <2>1 DEF SwitchOK
    <3>2. SwitchOK(x)
      BY <1>1, <2>5, <2>7, <3>1 DEF SwitchOK
    <3> QED BY <1>1, <2>5, <2>7, <3>2 DEF ShowOK, Chatting
  <2>9. s.job = Refused(job) => CallsOK(x, client, net, pending, commands, replies, posted)
    <3>1. HAVE s.job = Refused(job)
    <3>2. s.job.id = None
      BY <2>1, <3>1 DEF Refused, Read
    <3>3. JobId(x.sync) \in {None, JobId(ui.sync)} /\ replies \in SUBSET replies
      BY <2>5, <3>2 DEF JobId
    <3> QED BY <1>1, <2>7, <3>3, CalmCalls
  <2>10. Sending(x, s, job, kind)
    <3>1. SUFFICES ASSUME NEW i \in FreshIds, s.job = Sent(job, i)
                   PROVE  /\ SameAct(ui, x) \/ (NoCalls(client, net, pending, commands) /\ JobId(x.act) = i)
                          /\ JobId(x.sync) \in {None, i, JobId(ui.sync)}
                          /\ kind \in Exclusive => Own(x, kind, i)
                          /\ Posting(x, i) => kind = "post"
      BY DEF Sending
    <3>2. s.job = Sent(job, i)
      BY <3>1
    <3>3. s.job.id = i
      BY <3>2 DEF Sent, Read
    <3>4. JobId(x.sync) \in {None, i, JobId(ui.sync)}
      BY <2>5, <3>3 DEF JobId
    <3>5. kind \notin Exclusive
      BY <2>2 DEF Exclusive, Read
    <3>6. ~ Posting(x, i)
      BY <1>1, <1>4, <2>5 DEF Posting, InStep, WaitOK, JobId
    <3> QED BY <2>7, <3>4, <3>5, <3>6
  <2>11. Refusing(x, s, job)
    BY <2>9 DEF Refusing
  <2> QED BY <1>2, <1>3, <2>4, <2>6, <2>8, <2>10, <2>11, SentChat
<1>6. CASE SendRecent
  <2>1. PICK job \in Read : job = ui.recent /\ FreshIds # {} /\ ui.recent # None
    BY <1>1, <1>6 DEF SendRecent, Unsent, View
  <2>2. PICK kind, after : kind = "history" /\ after = 0
    OBVIOUS
  <2>3. PICK s : s = SendCall(job, kind, None, after)
    OBVIOUS
  <2>4. x = [ui EXCEPT !.recent = s.job] /\ commands' = s.cmds /\ waiting' = s.wait
    BY <1>3, <1>6, <2>1, <2>2, <2>3 DEF SendRecent
  <2>5. /\ x.act = ui.act /\ x.switching = ui.switching /\ x.restore = ui.restore /\ x.posts = ui.posts
        /\ x.sync = ui.sync /\ x.recent = s.job /\ x.synced = ui.synced /\ x.chat = ui.chat
    BY <1>1, <2>4 DEF View
  <2>6. Outcome(s, job, kind, None, after)
    BY <2>1, <2>3, SendCallCases
  <2>7. SameAct(ui, x) /\ InStep(x, {"post"}) = InStep(ui, {"post"}) /\ InStep(x, Switch) = InStep(ui, Switch)
    BY <2>5 DEF SameAct, InStep
  <2>8. ShowOK(x, client.desired, posted)
    <3>1. ui.switching = None
      BY <1>1, <2>1 DEF SwitchOK
    <3>2. SwitchOK(x)
      BY <1>1, <2>5, <2>7, <3>1 DEF SwitchOK
    <3> QED BY <1>1, <2>5, <2>7, <3>2 DEF ShowOK, Chatting
  <2>9. s.job = Refused(job) => CallsOK(x, client, net, pending, commands, replies, posted)
    <3>1. JobId(x.sync) \in {None, JobId(ui.sync)} /\ replies \in SUBSET replies
      BY <2>5
    <3> QED BY <1>1, <2>7, <3>1, CalmCalls
  <2>10. Sending(x, s, job, kind)
    <3>1. SUFFICES ASSUME NEW i \in FreshIds, s.job = Sent(job, i)
                   PROVE  /\ SameAct(ui, x) \/ (NoCalls(client, net, pending, commands) /\ JobId(x.act) = i)
                          /\ JobId(x.sync) \in {None, i, JobId(ui.sync)}
                          /\ kind \in Exclusive => Own(x, kind, i)
                          /\ Posting(x, i) => kind = "post"
      BY DEF Sending
    <3>4. JobId(x.sync) \in {None, i, JobId(ui.sync)}
      BY <2>5
    <3>5. kind \notin Exclusive
      BY <2>2 DEF Exclusive
    <3>6. ~ Posting(x, i)
      BY <1>1, <1>4, <2>5 DEF Posting, InStep, WaitOK, JobId
    <3> QED BY <2>7, <3>4, <3>5, <3>6
  <2>11. Refusing(x, s, job)
    BY <2>9 DEF Refusing
  <2> QED BY <1>2, <1>3, <2>4, <2>6, <2>8, <2>10, <2>11, SentChat
<1>7. CASE SendAction
  <2>1. PICK job \in Action : job = ui.act /\ FreshIds # {} /\ ui.act # None /\ ui.act.id = None
    BY <1>1, <1>7 DEF SendAction, Unsent, View
  <2>2. PICK kind, w : kind = ActionCall(job)[1] /\ w = ActionCall(job)[2]
    OBVIOUS
  <2>20. kind = Asks(job.step)
    BY <2>2 DEF ActionCall, Asks
  <2>3. PICK s : s = SendCall(job, kind, w, 0)
    OBVIOUS
  <2>4. x = [ui EXCEPT !.act = s.job] /\ commands' = s.cmds /\ waiting' = s.wait
    BY <1>3, <1>7, <2>1, <2>2, <2>3 DEF SendAction
  <2>5. /\ x.act = s.job /\ x.switching = ui.switching /\ x.restore = ui.restore /\ x.posts = ui.posts
        /\ x.sync = ui.sync /\ x.recent = ui.recent /\ x.synced = ui.synced /\ x.chat = ui.chat
    BY <1>1, <2>4 DEF View
  <2>6. Outcome(s, job, kind, w, 0)
    BY <2>1, <2>3, SendCallCases
  <2>60. PICK i : \/ s.job = Refused(job)
                  \/ i \in FreshIds /\ s.job = Sent(job, i)
    BY <2>6 DEF Outcome
  <2>61. /\ s.job.step = job.step /\ s.job # None
         /\ s.job = Refused(job) => s.job.id = None
         /\ \A j : s.job = Sent(job, j) => s.job.id = j /\ s.job.full = FALSE
    <3>1. ~ job.full
      BY <1>7, <2>1 DEF SendAction, Unsent
    <3>2. CASE s.job = Refused(job)
      <4>1. s.job \in Action /\ s.job.id = None /\ s.job.step = job.step /\ s.job.full
        BY <2>1, <3>2 DEF Refused, Action
      <4>2. \A j : Sent(job, j).full = FALSE
        BY <3>1 DEF Sent, Action
      <4> QED BY <4>1, <4>2, NoneAction
    <3>3. CASE i \in FreshIds /\ s.job = Sent(job, i)
      <4>1. i \in Id
        BY <1>4, <3>3
      <4>2. s.job \in Action /\ s.job.id = i /\ s.job.step = job.step /\ s.job.full = FALSE
        BY <3>1, <3>3, <4>1 DEF Sent, Action
      <4>3. Refused(job).full = TRUE
        BY DEF Refused, Action
      <4>4. \A j : Sent(job, j).id = j
        BY DEF Sent, Action
      <4> QED BY <4>2, <4>3, <4>4, NoneAction
    <3> QED BY <2>60, <3>2, <3>3
  <2>7. InStep(x, {"post"}) = InStep(ui, {"post"}) /\ InStep(x, Switch) = InStep(ui, Switch)
    BY <2>1, <2>5, <2>61 DEF InStep
  <2>8. ShowOK(x, client.desired, posted)
    <3>1. x.act.full => x.act.id = None
      BY <2>5, <2>60, <2>61
    <3>2. ui.restore = None
      BY <1>1, <2>1 DEF SwitchOK
    <3>3. SwitchOK(x)
      BY <1>1, <2>5, <2>7, <3>1, <3>2 DEF SwitchOK
    <3> QED BY <1>1, <2>5, <2>7, <3>3 DEF ShowOK, Chatting
  <2>81. NoCalls(client, net, pending, commands)
    <3>1. JobId(ui.act) = None
      BY <2>1 DEF JobId
    <3> QED BY <1>1, <3>1, UnsentFree
  <2>9. s.job = Refused(job) => CallsOK(x, client, net, pending, commands, replies, posted)
    <3>1. HAVE s.job = Refused(job)
    <3>2. JobId(x.act) = None
      BY <2>5, <2>61, <3>1 DEF JobId
    <3>3. JobId(x.sync) \in {None, JobId(ui.sync)} /\ replies \in SUBSET replies
      BY <2>5
    <3> QED BY <1>1, <2>81, <3>2, <3>3, FreeCalls
  <2>10. Sending(x, s, job, kind)
    <3>1. SUFFICES ASSUME NEW j \in FreshIds, s.job = Sent(job, j)
                   PROVE  /\ SameAct(ui, x) \/ (NoCalls(client, net, pending, commands) /\ JobId(x.act) = j)
                          /\ JobId(x.sync) \in {None, j, JobId(ui.sync)}
                          /\ kind \in Exclusive => Own(x, kind, j)
                          /\ Posting(x, j) => kind = "post"
      BY DEF Sending
    <3>2. s.job = Sent(job, j)
      BY <3>1
    <3>3. JobId(x.act) = j
      BY <2>5, <2>61, <3>2 DEF JobId
    <3>4. JobId(x.sync) \in {None, j, JobId(ui.sync)}
      BY <2>5
    <3>5. Own(x, kind, j)
      BY <1>4, <2>5, <2>20, <2>61, <3>2 DEF Own
    <3>6. Posting(x, j) => kind = "post"
      BY <2>5, <2>20, <2>61 DEF Posting, InStep, Asks
    <3> QED BY <2>81, <3>3, <3>4, <3>5, <3>6
  <2>11. Refusing(x, s, job)
    BY <2>9 DEF Refusing
  <2> QED BY <1>2, <1>3, <2>4, <2>6, <2>8, <2>10, <2>11, SentChat
<1> QED BY <1>5, <1>6, <1>7

-----------------------------------------------------------------------------
(* The router.                                                                *)

\* Everything that is not in the view.
Wired(u, m, n, P, cmds, R, W, Q) ==
    CallsOK(u, m, n, P, cmds, R, Q) /\ PlaceOK(n, P, cmds, R, W) /\ WalkOK(n, m)

\* Unless a room is being changed, no frame moves the client.
LEMMA NoMoves ==
    ASSUME NEW u, NEW m, NEW n, NEW P, NEW cmds, NEW R, NEW Q, CallsOK(u, m, n, P, cmds, R, Q), m.phase = "up",
           ~ InStep(u, Switch)
    PROVE  \A k \in 1 .. Len(n.out) : ~ MoveFrame(n.out[k])
<1>1. \A i : ~ Own(u, "join", i) /\ ~ Own(u, "leave", i)
  BY DEF Own, Asks, InStep, Switch
<1> QED BY <1>1 DEF CallsOK, FrameChat, MoveFrame

\* Then the router has it in the room it remembers.
LEMMA SettledMember ==
    ASSUME NEW u, NEW m, NEW n, NEW P, NEW cmds, NEW R, NEW W, NEW Q, Wired(u, m, n, P, cmds, R, W, Q), m.phase = "up", n.up,
           ~ InStep(u, Switch)
    PROVE  n.member = m.desired
<1>1. \A k \in 1 .. Len(n.out) : ~ MoveFrame(n.out[k])
  BY NoMoves DEF Wired
<1> QED BY <1>1 DEF Wired, WalkOK

\* A connection that is gone and still shows a prefix of what was queued.
LEMMA PrefixChat ==
    ASSUME NEW n \in Connection, NEW u, NEW m, NEW P, NEW cmds, NEW R, NEW W, NEW Q, NEW k \in 0 .. Len(n.out),
           Wired(u, m, n, P, cmds, R, W, Q)
    PROVE  Wired(u, m, Closed(SubSeq(n.out, 1, k)), P, cmds, R, W, Q)
<1>1. n.out \in Seq(Frame) /\ n.req \in Seq(Request)
  BY DEF Connection
<1>2. SubSeq(n.out, 1, k) \in Seq(Frame) /\ Len(SubSeq(n.out, 1, k)) = k
      /\ \A i \in 1 .. k : SubSeq(n.out, 1, k)[i] = n.out[i]
  BY <1>1
<1>3. PICK s \in Seq(Frame) : s = SubSeq(n.out, 1, k)
  BY <1>2
<1>4. Len(s) = k /\ k \in Nat /\ k <= Len(n.out) /\ \A i \in 1 .. k : s[i] = n.out[i]
  BY <1>1, <1>2, <1>3
<1>5. PICK c : c = Closed(s)
  OBVIOUS
<1>6. c.up = FALSE /\ c.sub = FALSE /\ c.req = <<>> /\ c.out = s /\ Len(c.req) = 0
  BY <1>5 DEF Closed
<1>7. \A i \in 1 .. Len(c.out) : i \in 1 .. Len(n.out) /\ c.out[i] = n.out[i]
  BY <1>1, <1>4, <1>6
<1>8. CallsOK(u, m, c, P, cmds, R, Q)
  BY <1>6, <1>7 DEF Wired, CallsOK
<1>9. PlaceOK(c, P, cmds, R, W)
  BY <1>6, <1>7 DEF Wired, PlaceOK
<1>10. WalkOK(c, m)
  <2>1. n.out = <<>> => s = <<>>
    BY <1>4
  <2>2. ASSUME NEW i \in 1 .. Len(c.out) PROVE \A j \in 1 .. i - 1 : j \in 1 .. Len(c.out) /\ c.out[j] = n.out[j]
    BY <1>1, <1>4, <1>6, <1>7
  <2>3. m.phase = "up" => \A i \in 1 .. Len(c.out) :
            c.out[i].t = "changed" /\ (\A j \in 1 .. i - 1 : ~ MoveFrame(c.out[j])) => c.out[i].ws = m.desired
    BY <1>7, <2>2 DEF Wired, WalkOK
  <2>4. m.phase = "up" => \A j \in 1 .. Len(c.out) : \A i \in 1 .. Len(c.out) :
            j < i /\ MoveFrame(c.out[j]) /\ c.out[i].t = "changed" => c.out[i].ws = c.out[j].ws
    BY <1>7 DEF Wired, WalkOK
  <2>5. m.phase = "up" => \A i \in 1 .. Len(c.out) : c.out[i].t = "left" => c.out[i].ws = None
    BY <1>7 DEF Wired, WalkOK
  <2> QED BY <1>6, <2>1, <2>3, <2>4, <2>5 DEF Wired, WalkOK
<1> QED BY <1>3, <1>5, <1>8, <1>9, <1>10 DEF Wired

\* send: it is enough that everything that is queued is in order.
LEMMA SendChat ==
    ASSUME NEW row \in Connection, NEW frames \in Seq(Frame), NEW n \in Connection, n = [row EXCEPT !.out = row.out \o frames],
           NEW u, NEW m, NEW P, NEW cmds, NEW R, NEW W, NEW Q,
           Wired(u, m, n, P, cmds, R, W, Q), Send(row, frames)
    PROVE  Wired(u, m, net', P, cmds, R, W, Q)
<1>1. row.out \o frames \in Seq(Frame)
  BY DEF Connection
<1>2. PICK s \in Seq(Frame) : s = row.out \o frames
  BY <1>1
<1>3. n.out = s
  BY <1>2 DEF Connection
<1>4. CASE net' = n
  BY <1>4
<1>5. ASSUME NEW k \in 0 .. OutCap, Len(s) > OutCap, net' = Closed(SubSeq(s, 1, k))
      PROVE  Wired(u, m, net', P, cmds, R, W, Q)
  <2>1. k \in 0 .. Len(n.out)
    BY <1>3, <1>5, FeedAssumption
  <2>2. Wired(u, m, Closed(SubSeq(n.out, 1, k)), P, cmds, R, W, Q)
    BY <2>1, PrefixChat
  <2> QED BY <1>3, <1>5, <2>2
<1>6. net' = n \/ \E k \in 0 .. OutCap : Len(s) > OutCap /\ net' = Closed(SubSeq(s, 1, k))
  <2>1. Len(s) \in Nat /\ OutCap \in Nat
    BY <1>2, FeedAssumption
  <2>2. CASE Len(s) <= OutCap
    BY <1>2, <2>2 DEF Send
  <2>3. CASE ~ (Len(s) <= OutCap)
    <3>1. Len(s) > OutCap
      BY <2>1, <2>3
    <3>2. \E k \in 0 .. OutCap : net' = Closed(SubSeq(s, 1, k))
      BY <1>2, <2>3 DEF Send
    <3> QED BY <3>1, <3>2
  <2> QED BY <2>2, <2>3
<1> QED BY <1>4, <1>5, <1>6

\* Another chat is stored.
LEMMA MorePosted ==
    ASSUME NEW u, NEW m, NEW n, NEW P, NEW cmds, NEW R, NEW W, NEW Q, NEW Q2, Q # {} => Q2 # {}, Wired(u, m, n, P, cmds, R, W, Q)
    PROVE  Wired(u, m, n, P, cmds, R, W, Q2)
<1>1. (\A f : FrameChat(u, m, f, Q) => FrameChat(u, m, f, Q2)) /\ \A v : ReplyChat(u, m, v, Q) => ReplyChat(u, m, v, Q2)
  BY DEF FrameChat, ReplyChat
<1>2. CallsOK(u, m, n, P, cmds, R, Q2)
  BY <1>1 DEF Wired, CallsOK
<1> QED BY <1>2 DEF Wired

\* One frame more.
Grown(n, n2, f) ==
    /\ Len(n2.out) = Len(n.out) + 1 /\ Len(n.out) \in Nat /\ n2.out[Len(n2.out)] = f
    /\ \A k \in 1 .. Len(n.out) : n2.out[k] = n.out[k]

\* Appending is that.
LEMMA GrownOK ==
    ASSUME NEW n \in Connection, NEW n2, NEW f \in Frame, n2.out = Append(n.out, f)
    PROVE  Grown(n, n2, f)
<1>1. n.out \in Seq(Frame)
  BY DEF Connection
<1>2. PICK s \in Seq(Frame), t \in Seq(Frame) : s = n.out /\ t = Append(s, f) /\ t = n2.out
  BY <1>1
<1>3. Len(t) = Len(s) + 1 /\ Len(s) \in Nat /\ t[Len(t)] = f
  BY <1>2
<1>4. \A k \in 1 .. Len(s) : t[k] = s[k]
  BY <1>2
<1> QED BY <1>2, <1>3, <1>4 DEF Grown

\* Every frame is an old one or the new one.
LEMMA GrownFrames ==
    ASSUME NEW n, NEW n2, NEW f, Grown(n, n2, f)
    PROVE  /\ \A k \in 1 .. Len(n2.out) : \/ k \in 1 .. Len(n.out) /\ n2.out[k] = n.out[k]
                                          \/ k = Len(n2.out) /\ n2.out[k] = f /\ k \notin 1 .. Len(n.out)
           /\ \A k \in 1 .. Len(n.out) : k \in 1 .. Len(n2.out) /\ n2.out[k] = n.out[k]
           /\ \A k \in 1 .. Len(n2.out) : \A j \in 1 .. k - 1 : j \in 1 .. Len(n.out) /\ n2.out[j] = n.out[j]
           /\ \A k \in 1 .. Len(n.out) : k < Len(n2.out)
           /\ \A k \in 1 .. Len(n.out) : k \in 1 .. Len(n2.out) - 1
<1>1. \A k \in 1 .. Len(n2.out) : k \in 1 .. Len(n.out) \/ (k = Len(n2.out) /\ k \notin 1 .. Len(n.out))
  BY DEF Grown
<1>2. \A k \in 1 .. Len(n2.out) : \A j \in 1 .. k - 1 : j \in 1 .. Len(n.out)
  BY DEF Grown
<1>3. \A k \in 1 .. Len(n.out) : k < Len(n2.out) /\ k \in 1 .. Len(n2.out) /\ k \in 1 .. Len(n2.out) - 1
  BY DEF Grown
<1> QED BY <1>1, <1>2, <1>3 DEF Grown

QueueIds(cmds) == \A k \in 1 .. Len(cmds) : cmds[k].op = "rpc" => cmds[k].call.id \in Id

\* An event, or a notice of the room the router has the client in.
LEMMA NoticeChat ==
    ASSUME NEW n, NEW n2, NEW f, Grown(n, n2, f), n2.up, n.up, n2.member = n.member, n2.req = n.req,
           f.id = None, f.t \in {"event", "changed"}, f.t = "changed" => f.ws = n.member,
           NEW u, NEW m, NEW P, NEW cmds, NEW R \in SUBSET Value, NEW W, NEW Q, QueueIds(cmds),
           Wired(u, m, n, P, cmds, R, W, Q)
    PROVE  Wired(u, m, n2, P, cmds, R, W, Q)
<1>1. /\ \A k \in 1 .. Len(n2.out) : \/ k \in 1 .. Len(n.out) /\ n2.out[k] = n.out[k]
                                     \/ k = Len(n2.out) /\ n2.out[k] = f /\ k \notin 1 .. Len(n.out)
      /\ \A k \in 1 .. Len(n.out) : k \in 1 .. Len(n2.out) /\ n2.out[k] = n.out[k]
      /\ \A k \in 1 .. Len(n2.out) : \A j \in 1 .. k - 1 : j \in 1 .. Len(n.out) /\ n2.out[j] = n.out[j]
      /\ \A k \in 1 .. Len(n.out) : k < Len(n2.out)
      /\ \A k \in 1 .. Len(n.out) : k \in 1 .. Len(n2.out) - 1
  BY GrownFrames
<1>2. CallsOK(u, m, n2, P, cmds, R, Q)
  <2>1. FrameChat(u, m, f, Q)
    BY DEF FrameChat, Posting, Syncing
  <2>2. \A k \in 1 .. Len(n2.out) : FrameChat(u, m, n2.out[k], Q)
    BY <1>1, <2>1 DEF Wired, CallsOK
  <2> QED BY <2>2 DEF Wired, CallsOK
<1>3. PlaceOK(n2, P, cmds, R, W)
  <2>1. f.id \notin Id /\ (\A v \in R : f.id # v.id) /\ \A k \in 1 .. Len(cmds) : cmds[k].op = "rpc" => cmds[k].call.id # f.id
    BY FeedAssumption DEF QueueIds, Value
  <2>11. \A k \in 1 .. Len(n2.out) : (k \in 1 .. Len(n.out) /\ n2.out[k] = n.out[k]) \/ (k = Len(n2.out) /\ n2.out[k] = f)
    BY <1>1
  <2>12. \A i \in 1 .. Len(n.out) : \A j \in 1 .. Len(n.out) : n.out[i].id \in Id /\ n.out[i].id = n.out[j].id => i = j
    BY DEF Wired, PlaceOK
  <2>13. \A i \in 1 .. Len(n.req) : \A j \in 1 .. Len(n.out) : n.req[i].id \in Id => n.req[i].id # n.out[j].id
    BY DEF Wired, PlaceOK
  <2>14. \A k \in 1 .. Len(cmds) : \A j \in 1 .. Len(n.out) : cmds[k].op = "rpc" => cmds[k].call.id # n.out[j].id
    BY DEF Wired, PlaceOK
  <2>2. \A i \in 1 .. Len(n2.out) : \A j \in 1 .. Len(n2.out) :
          n2.out[i].id \in Id /\ n2.out[i].id = n2.out[j].id => i = j
    BY <2>1, <2>11, <2>12
  <2>3. \A i \in 1 .. Len(n2.req) : \A j \in 1 .. Len(n2.out) : n2.req[i].id \in Id => n2.req[i].id # n2.out[j].id
    BY <2>1, <2>11, <2>13
  <2>4. \A k \in 1 .. Len(cmds) : \A j \in 1 .. Len(n2.out) : cmds[k].op = "rpc" => cmds[k].call.id # n2.out[j].id
    BY <2>1, <2>11, <2>14
  <2>15. \A v \in R : \A j \in 1 .. Len(n.out) : n.out[j].id # v.id
    BY DEF Wired, PlaceOK
  <2>5. \A v \in R : \A j \in 1 .. Len(n2.out) : n2.out[j].id # v.id
    BY <2>1, <2>11, <2>15
  <2> QED BY <2>2, <2>3, <2>4, <2>5 DEF Wired, PlaceOK
<1>4. WalkOK(n2, m)
  <2>0. m.phase # "down"
    BY DEF Wired, WalkOK
  <2>1. SUFFICES ASSUME m.phase = "up" PROVE WalkOK(n2, m)
    BY <2>0 DEF WalkOK
  <2>2. ~ MoveFrame(f)
    BY DEF MoveFrame
  <2>3. (\A k \in 1 .. Len(n.out) : ~ MoveFrame(n.out[k])) => n.member = m.desired
    BY <2>1 DEF Wired, WalkOK
  <2>4. \A k \in 1 .. Len(n.out) : MoveFrame(n.out[k]) => n.member = n.out[k].ws
    BY <2>1 DEF Wired, WalkOK
  <2>5. \A k \in 1 .. Len(n2.out) : n2.out[k].t = "left" => n2.out[k].ws = None
    <3>1. \A k \in 1 .. Len(n.out) : n.out[k].t = "left" => n.out[k].ws = None
      BY <2>1 DEF Wired, WalkOK
    <3>2. f.t # "left"
      OBVIOUS
    <3> QED BY <1>1, <3>1, <3>2
  <2>6. ASSUME NEW k \in 1 .. Len(n2.out), n2.out[k].t = "changed", \A j \in 1 .. k - 1 : ~ MoveFrame(n2.out[j])
        PROVE  n2.out[k].ws = m.desired
    <3>1. CASE k \in 1 .. Len(n.out) /\ n2.out[k] = n.out[k]
      <4>1. \A j \in 1 .. k - 1 : ~ MoveFrame(n.out[j])
        BY <1>1, <2>6
      <4> QED BY <2>1, <2>6, <3>1, <4>1 DEF Wired, WalkOK
    <3>2. CASE k = Len(n2.out) /\ n2.out[k] = f
      <4>1. \A j \in 1 .. Len(n.out) : ~ MoveFrame(n.out[j])
        BY <1>1, <2>6, <3>2
      <4> QED BY <2>3, <2>6, <3>2, <4>1
    <3> QED BY <1>1, <3>1, <3>2
  <2>7. ASSUME NEW j \in 1 .. Len(n2.out), NEW k \in 1 .. Len(n2.out), j < k, MoveFrame(n2.out[j]), n2.out[k].t = "changed"
        PROVE  n2.out[k].ws = n2.out[j].ws
    <3>0. j \in 1 .. Len(n.out) /\ n2.out[j] = n.out[j]
      BY <1>1, <2>2, <2>7
    <3>1. CASE k \in 1 .. Len(n.out) /\ n2.out[k] = n.out[k]
      BY <2>1, <2>7, <3>0, <3>1 DEF Wired, WalkOK
    <3>2. CASE k = Len(n2.out) /\ n2.out[k] = f
      BY <2>4, <2>7, <3>0, <3>2
    <3> QED BY <1>1, <3>1, <3>2
  <2>8. (\A k \in 1 .. Len(n2.out) : ~ MoveFrame(n2.out[k])) => n2.member = m.desired
    BY <1>1, <2>3
  <2>9. \A k \in 1 .. Len(n2.out) : MoveFrame(n2.out[k]) => n2.member = n2.out[k].ws
    BY <1>1, <2>2, <2>4
  <2> QED BY <2>1, <2>5, <2>6, <2>7, <2>8, <2>9 DEF WalkOK
<1> QED BY <1>2, <1>3, <1>4 DEF Wired

\* What an answer f to the request c says, with n2 the connection once it is handled.
Answers(u, m, n, n2, c, f, Q) ==
    /\ f.id = c.id /\ f.t # "changed"
    /\ f.t = "joined" => c.kind = "join" /\ f.ws = n2.member
    /\ f.t = "left" => c.kind = "leave" /\ f.ws = None /\ n2.member = None
    /\ f.t = "posted" => c.kind = "post"
    /\ ~ MoveFrame(f) => n2.member = n.member
    /\ Posting(u, f.id) => f.t = "posted" /\ Q # {}
    /\ Syncing(u, f.id) /\ f.t # "error" => m.desired # None

\* The first request is answered.
LEMMA AnswerChat ==
    ASSUME NEW n \in Connection, NEW n2, NEW f, Grown(n, n2, f), n.up, n2.up, n.req # <<>>, n2.req = Tail(n.req),
           NEW u \in View, NEW m, NEW P, NEW cmds, NEW R, NEW W, NEW Q, UnsentOK(n, P, cmds),
           Wired(u, m, n, P, cmds, R, W, Q), NEW c, c = n.req[1], Answers(u, m, n, n2, c, f, Q)
    PROVE  Wired(u, m, n2, P, cmds, R, W, Q)
<1>1. /\ \A k \in 1 .. Len(n2.out) : \/ k \in 1 .. Len(n.out) /\ n2.out[k] = n.out[k]
                                     \/ k = Len(n2.out) /\ n2.out[k] = f /\ k \notin 1 .. Len(n.out)
      /\ \A k \in 1 .. Len(n.out) : k \in 1 .. Len(n2.out) /\ n2.out[k] = n.out[k]
      /\ \A k \in 1 .. Len(n2.out) : \A j \in 1 .. k - 1 : j \in 1 .. Len(n.out) /\ n2.out[j] = n.out[j]
      /\ \A k \in 1 .. Len(n.out) : k < Len(n2.out)
      /\ \A k \in 1 .. Len(n.out) : k \in 1 .. Len(n2.out) - 1
  BY GrownFrames
<1>2. 1 \in 1 .. Len(n.req) /\ \A k \in 1 .. Len(n2.req) : k + 1 \in 1 .. Len(n.req) /\ n2.req[k] = n.req[k + 1] /\ k + 1 # 1
  <2>1. n.req \in Seq(Request)
    BY DEF Connection
  <2>20. PICK s \in Seq(Request) : s = n.req /\ s # <<>>
    BY <2>1
  <2>21. Tail(s) \in Seq(Request)
    BY <2>20
  <2>2. PICK t \in Seq(Request) : t = Tail(s) /\ t = n2.req
    BY <2>20, <2>21
  <2>3. Len(t) = Len(s) - 1 /\ Len(s) \in Nat /\ Len(s) # 0 /\ \A k \in 1 .. Len(t) : t[k] = s[k + 1]
    BY <2>2, <2>20
  <2> QED BY <2>2, <2>3, <2>20
<1>3. RequestChat(u, m, c)
  BY <1>2 DEF Wired, CallsOK
<1>4. CallsOK(u, m, n2, P, cmds, R, Q)
  <2>1. FrameChat(u, m, f, Q)
    BY <1>3 DEF FrameChat, RequestChat, Answers, Exclusive
  <2>2. \A k \in 1 .. Len(n2.out) : FrameChat(u, m, n2.out[k], Q)
    BY <1>1, <2>1 DEF Wired, CallsOK
  <2>3. \A k \in 1 .. Len(n2.req) : RequestChat(u, m, n2.req[k])
    BY <1>2 DEF Wired, CallsOK
  <2> QED BY <2>2, <2>3 DEF Wired, CallsOK
<1>5. PlaceOK(n2, P, cmds, R, W)
  <2>1. f.id = n.req[1].id
    BY DEF Answers
  <2>2. f.id \in Id => \A j \in 1 .. Len(n.out) : n.out[j].id # f.id
    BY <1>2, <2>1 DEF Wired, PlaceOK
  <2>3. \A i \in 1 .. Len(n2.out) : \A j \in 1 .. Len(n2.out) :
          n2.out[i].id \in Id /\ n2.out[i].id = n2.out[j].id => i = j
    <3>1. \A k \in 1 .. Len(n2.out) : (k \in 1 .. Len(n.out) /\ n2.out[k] = n.out[k]) \/ (k = Len(n2.out) /\ n2.out[k] = f)
      BY <1>1
    <3>2. \A i \in 1 .. Len(n.out) : \A j \in 1 .. Len(n.out) : n.out[i].id \in Id /\ n.out[i].id = n.out[j].id => i = j
      BY DEF Wired, PlaceOK
    <3> QED BY <2>2, <3>1, <3>2
  <2>4. \A i \in 1 .. Len(n2.req) : \A j \in 1 .. Len(n2.req) :
          n2.req[i].id \in Id /\ n2.req[i].id = n2.req[j].id => i = j
    BY <1>2 DEF Wired, PlaceOK
  <2>5. \A i \in 1 .. Len(n2.req) : n2.req[i].id \in Id => n2.req[i].id # f.id
    BY <1>2, <2>1 DEF Wired, PlaceOK
  <2>6. \A i \in 1 .. Len(n2.req) : \A j \in 1 .. Len(n.out) : n2.req[i].id \in Id => n2.req[i].id # n.out[j].id
    BY <1>2 DEF Wired, PlaceOK
  <2>7. \A i \in 1 .. Len(n2.req) : \A j \in 1 .. Len(n2.out) : n2.req[i].id \in Id => n2.req[i].id # n2.out[j].id
    <3>1. \A k \in 1 .. Len(n2.out) : (k \in 1 .. Len(n.out) /\ n2.out[k] = n.out[k]) \/ n2.out[k] = f
      BY <1>1
    <3> QED BY <2>5, <2>6, <3>1
  <2>8. \A k \in 1 .. Len(cmds) : \A j \in 1 .. Len(n2.out) : cmds[k].op = "rpc" => cmds[k].call.id # n2.out[j].id
    <3>1. \A k \in 1 .. Len(cmds) : cmds[k].op = "rpc" => cmds[k].call.id # f.id
      BY <1>2, <2>1 DEF UnsentOK
    <3>2. \A k \in 1 .. Len(cmds) : \A j \in 1 .. Len(n.out) : cmds[k].op = "rpc" => cmds[k].call.id # n.out[j].id
      BY DEF Wired, PlaceOK
    <3> QED BY <1>1, <3>1, <3>2
  <2>9. \A v \in R : (\A i \in 1 .. Len(n2.req) : n2.req[i].id # v.id) /\ \A j \in 1 .. Len(n2.out) : n2.out[j].id # v.id
    <3>1. \A v \in R : (\A i \in 1 .. Len(n.req) : n.req[i].id # v.id) /\ \A j \in 1 .. Len(n.out) : n.out[j].id # v.id
      BY DEF Wired, PlaceOK
    <3>2. \A v \in R : f.id # v.id
      BY <1>2, <2>1, <3>1
    <3> QED BY <1>1, <1>2, <3>1, <3>2
  <2>10. \A v \in R : \A p \in P : p.id # v.id
    BY DEF Wired, PlaceOK
  <2>11. \A k \in 1 .. Len(cmds) : cmds[k].op = "cancel" => cmds[k].id \notin W
    BY DEF Wired, PlaceOK
  <2> QED BY <2>3, <2>4, <2>7, <2>8, <2>9, <2>10, <2>11 DEF PlaceOK
<1>6. WalkOK(n2, m)
  <2>0. m.phase # "down"
    BY DEF Wired, WalkOK
  <2>1. SUFFICES ASSUME m.phase = "up" PROVE WalkOK(n2, m)
    BY <2>0 DEF WalkOK
  <2>2. f.t # "changed" /\ (f.t = "left" => f.ws = None) /\ (MoveFrame(f) => n2.member = f.ws)
        /\ (~ MoveFrame(f) => n2.member = n.member)
    BY DEF Answers, MoveFrame
  <2>3. MoveFrame(f) => \A k \in 1 .. Len(n.out) : ~ MoveFrame(n.out[k])
    <3>1. SUFFICES ASSUME MoveFrame(f), NEW k \in 1 .. Len(n.out), MoveFrame(n.out[k]) PROVE FALSE
      OBVIOUS
    <3>2. c.id = u.act.id /\ u.act # None /\ c.id # None
      BY <1>3, <2>1, <3>1 DEF Answers, MoveFrame, RequestChat, Exclusive, Own
    <3>3. n.out[k].id = u.act.id
      <4>1. FrameChat(u, m, n.out[k], Q)
        BY DEF Wired, CallsOK
      <4> QED BY <2>1, <3>1, <4>1 DEF FrameChat, MoveFrame, Own
    <3>4. c.id \in Id
      BY <3>2 DEF View, Action
    <3> QED BY <1>2, <3>2, <3>3, <3>4 DEF Wired, PlaceOK
  <2>4. \A k \in 1 .. Len(n2.out) : n2.out[k].t = "left" => n2.out[k].ws = None
    BY <1>1, <2>1, <2>2 DEF Wired, WalkOK
  <2>5. ASSUME NEW k \in 1 .. Len(n2.out), n2.out[k].t = "changed", \A j \in 1 .. k - 1 : ~ MoveFrame(n2.out[j])
        PROVE  n2.out[k].ws = m.desired
    <3>1. k \in 1 .. Len(n.out) /\ n2.out[k] = n.out[k]
      BY <1>1, <2>2, <2>5
    <3>2. \A j \in 1 .. k - 1 : ~ MoveFrame(n.out[j])
      BY <1>1, <2>5
    <3> QED BY <2>1, <2>5, <3>1, <3>2 DEF Wired, WalkOK
  <2>6. ASSUME NEW j \in 1 .. Len(n2.out), NEW k \in 1 .. Len(n2.out), j < k, MoveFrame(n2.out[j]), n2.out[k].t = "changed"
        PROVE  n2.out[k].ws = n2.out[j].ws
    <3>1. k \in 1 .. Len(n.out) /\ n2.out[k] = n.out[k]
      BY <1>1, <2>2, <2>6
    <3>2. j \in 1 .. Len(n.out) /\ n2.out[j] = n.out[j]
      BY <1>1, <2>6, <3>1
    <3> QED BY <2>1, <2>6, <3>1, <3>2 DEF Wired, WalkOK
  <2>7. (\A k \in 1 .. Len(n2.out) : ~ MoveFrame(n2.out[k])) => n2.member = m.desired
    <3>1. SUFFICES ASSUME \A k \in 1 .. Len(n2.out) : ~ MoveFrame(n2.out[k]) PROVE n2.member = m.desired
      OBVIOUS
    <3>2. \A k \in 1 .. Len(n.out) : ~ MoveFrame(n.out[k])
      BY <1>1, <3>1
    <3>3. ~ MoveFrame(f)
      <4>1. Len(n2.out) \in 1 .. Len(n2.out) /\ n2.out[Len(n2.out)] = f
        BY DEF Grown
      <4> QED BY <3>1, <4>1
    <3> QED BY <2>1, <2>2, <3>2, <3>3 DEF Wired, WalkOK
  <2>8. \A k \in 1 .. Len(n2.out) : MoveFrame(n2.out[k]) => n2.member = n2.out[k].ws
    <3>1. CASE MoveFrame(f)
      BY <1>1, <2>2, <2>3, <3>1
    <3>2. CASE ~ MoveFrame(f)
      <4>1. \A k \in 1 .. Len(n.out) : MoveFrame(n.out[k]) => n.member = n.out[k].ws
        BY <2>1 DEF Wired, WalkOK
      <4> QED BY <1>1, <2>2, <3>2, <4>1
    <3> QED BY <3>1, <3>2
  <2> QED BY <2>1, <2>4, <2>5, <2>6, <2>7, <2>8 DEF WalkOK
<1> QED BY <1>4, <1>5, <1>6 DEF Wired

\* The request the router handles next, and whose it is.
LEMMA RequestFacts ==
    ASSUME Inv, AckInv, ChatInv, net.up, net.req # <<>>, NEW c, c = net.req[1]
    PROVE  /\ Posting(ui, c.id) => c.kind = "post"
           /\ Syncing(ui, c.id) => c.kind \notin Exclusive /\ net.member = client.desired
           /\ c.kind = "post" => Chatting(ui) /\ net.member = client.desired /\ client.desired # None
<1>1. Wired(ui, client, net, pending, commands, replies, waiting, posted) /\ ShowOK(ui, client.desired, posted)
  BY DEF ChatInv, OpenChat, Wired
<1>2. net \in Connection /\ client \in Memory /\ ui \in View /\ WaitOK(ui, waiting)
  BY DEF Inv, TypeOK, FeedTypeOK, AckInv
<1>3. RequestChat(ui, client, c)
  <2>1. net.req \in Seq(Request)
    BY <1>2 DEF Connection
  <2>2. 1 \in 1 .. Len(net.req)
    BY <2>1
  <2> QED BY <1>1, <2>2 DEF Wired, CallsOK
<1>4. client.phase # "down"
  BY <1>1 DEF Wired, WalkOK
<1>5. c.id \in Id \/ c.kind = "post" => client.phase = "up"
  BY <1>2, <1>4, RequestPhase, FeedAssumption DEF Memory
<1>6. Posting(ui, c.id) => c.kind = "post"
  BY <1>3 DEF RequestChat
<1>7. ASSUME Syncing(ui, c.id) PROVE c.kind \notin Exclusive /\ net.member = client.desired
  <2>1. ui.sync # None /\ ui.sync.id = c.id /\ c.id # None
    BY <1>7 DEF Syncing, JobId
  <2>2. c.id \in Id
    BY <1>2, <2>1 DEF View, Read
  <2>3. c.kind \notin Exclusive
    BY <1>2, <1>3, <1>5, <1>7, <2>1, <2>2 DEF RequestChat, Own, Syncing, WaitOK, JobId
  <2>4. ~ InStep(ui, Switch)
    BY <1>1, <2>1 DEF ShowOK, SwitchOK
  <2> QED BY <1>1, <1>5, <2>2, <2>3, <2>4, SettledMember
<1>8. ASSUME c.kind = "post" PROVE Chatting(ui) /\ net.member = client.desired /\ client.desired # None
  <2>1. client.phase = "up"
    BY <1>5, <1>8
  <2>2. InStep(ui, {"post"})
    BY <1>3, <1>8, <2>1 DEF RequestChat, Exclusive, Own, Asks, InStep
  <2>3. ~ InStep(ui, Switch)
    BY <2>2 DEF InStep, Switch
  <2>4. net.member = client.desired
    BY <1>1, <2>1, <2>3, SettledMember
  <2>5. Chatting(ui)
    BY <2>2 DEF Chatting
  <2> QED BY <1>1, <2>4, <2>5 DEF ShowOK
<1> QED BY <1>6, <1>7, <1>8

\* Two frames.
Pair(s, x, y) == s \in Seq(Frame) /\ Len(s) = 2 /\ s[1] = x /\ s[2] = y

\* One sequence behind the other.
LEMMA ConcatOK ==
    ASSUME NEW s \in Seq(Frame), NEW t \in Seq(Frame), NEW r, r = s \o t
    PROVE  /\ r \in Seq(Frame) /\ Len(s) \in Nat /\ Len(t) \in Nat /\ Len(r) = Len(s) + Len(t)
           /\ \A k \in 1 .. Len(s) : r[k] = s[k]
           /\ \A k \in 1 .. Len(t) : r[Len(s) + k] = t[k]
<1>1. r \in Seq(Frame) /\ Len(s) \in Nat /\ Len(t) \in Nat /\ Len(r) = Len(s) + Len(t)
  OBVIOUS
<1>2. \A k \in 1 .. Len(s) : r[k] = s[k]
  OBVIOUS
<1>3. ASSUME NEW k \in 1 .. Len(t) PROVE r[Len(s) + k] = t[k]
  <2>1. PICK i \in Nat : i = Len(s) + k /\ i - Len(s) = k /\ i \notin 1 .. Len(s) /\ i \in 1 .. Len(r)
    BY <1>1
  <2>2. r[i] = t[i - Len(s)]
    BY <1>1, <2>1
  <2> QED BY <2>1, <2>2
<1> QED BY <1>1, <1>2, <1>3

\* Both ways to write them.
LEMMA PairOK ==
    ASSUME NEW x \in Frame, NEW y \in Frame
    PROVE  Pair(<<x, y>>, x, y) /\ Pair(<<x>> \o <<y>>, x, y)
<1>1. Pair(<<x, y>>, x, y)
  BY DEF Pair
<1>2. <<x>> \in Seq(Frame) /\ <<y>> \in Seq(Frame)
  OBVIOUS
<1>3. PICK s \in Seq(Frame) : s = <<x>>
  BY <1>2
<1>4. PICK t \in Seq(Frame) : t = <<y>>
  BY <1>2
<1>5. PICK r : r = s \o t
  OBVIOUS
<1>6. Len(s) = 1 /\ s[1] = x /\ Len(t) = 1 /\ t[1] = y
  BY <1>3, <1>4
<1>7. /\ r \in Seq(Frame) /\ Len(s) \in Nat /\ Len(t) \in Nat /\ Len(r) = Len(s) + Len(t)
      /\ \A k \in 1 .. Len(s) : r[k] = s[k]
      /\ \A k \in 1 .. Len(t) : r[Len(s) + k] = t[k]
  BY <1>5, ConcatOK
<1>8. Len(r) = 2 /\ r[1] = s[1] /\ r[1 + 1] = t[1]
  BY <1>6, <1>7
<1>9. Pair(r, x, y)
  BY <1>6, <1>7, <1>8 DEF Pair
<1> QED BY <1>1, <1>3, <1>4, <1>5, <1>9

\* A frame, then another one.
LEMMA PairGrown ==
    ASSUME NEW o \in Seq(Frame), NEW x \in Frame, NEW y \in Frame, NEW s, Pair(s, x, y), NEW n, NEW n2,
           n.out = Append(o, x), n2.out = o \o s
    PROVE  Grown(n, n2, y)
<1>1. PICK t \in Seq(Frame) : t = s /\ Len(t) = 2 /\ t[1] = x /\ t[2] = y
  BY DEF Pair
<1>2. PICK a : a = Append(o, x)
  OBVIOUS
<1>3. PICK b : b = o \o t
  OBVIOUS
<1>4. /\ Len(o) \in Nat /\ Len(t) \in Nat /\ Len(b) = Len(o) + Len(t)
      /\ \A k \in 1 .. Len(o) : b[k] = o[k]
      /\ \A k \in 1 .. Len(t) : b[Len(o) + k] = t[k]
  BY <1>3, ConcatOK
<1>5. Len(a) = Len(o) + 1 /\ a[Len(o) + 1] = x /\ \A k \in 1 .. Len(o) : a[k] = o[k]
  BY <1>2
<1>6. Len(b) = Len(o) + 2 /\ b[Len(o) + 1] = x /\ b[Len(o) + 2] = y
  BY <1>1, <1>4
<1>7. \A k \in 1 .. Len(o) : b[k] = o[k] /\ a[k] = o[k]
  BY <1>4, <1>5
<1>8. \A k \in 1 .. Len(a) : b[k] = a[k]
  BY <1>4, <1>5, <1>6, <1>7
<1>9. n.out = a /\ n2.out = b
  BY <1>1, <1>2, <1>3
<1> QED BY <1>4, <1>5, <1>6, <1>8, <1>9 DEF Grown

\* A handler that answers its request.
LEMMA AnsweredChat ==
    ASSUME Inv, ChatInv, net.up, net.req # <<>>, NEW c, c = net.req[1],
           NEW row \in Connection, row.up = net.up, row.out = net.out, row.req = Tail(net.req),
           NEW x \in Frame, NEW Q, posted # {} => Q # {}, Answers(ui, client, net, row, c, x, Q),
           NEW n \in Connection, n = [row EXCEPT !.out = Append(row.out, x)]
    PROVE  Wired(ui, client, n, pending, commands, replies, waiting, Q)
<1>1. Wired(ui, client, net, pending, commands, replies, waiting, posted)
  BY DEF ChatInv, OpenChat, Wired
<1>2. Wired(ui, client, net, pending, commands, replies, waiting, Q)
  BY <1>1, MorePosted
<1>3. net \in Connection /\ ui \in View /\ UnsentOK(net, pending, commands)
  BY DEF Inv, TypeOK, FeedTypeOK, NetOK
<1>4. n.up = net.up /\ n.out = Append(net.out, x) /\ n.req = Tail(net.req) /\ n.member = row.member
  BY DEF Connection
<1>5. Grown(net, n, x)
  BY <1>3, <1>4, GrownOK
<1>6. Answers(ui, client, net, n, c, x, Q)
  BY <1>4 DEF Answers
<1> QED BY <1>2, <1>3, <1>4, <1>5, <1>6, AnswerChat

\* A handler that sends its answer and nothing else.
LEMMA HandledChat ==
    ASSUME Inv, ChatInv, net.up, net.req # <<>>, NEW c, c = net.req[1],
           NEW row \in Connection, row.up = net.up, row.out = net.out, row.req = Tail(net.req),
           NEW x \in Frame, NEW Q, posted # {} => Q # {}, Answers(ui, client, net, row, c, x, Q), Send(row, <<x>>)
    PROVE  Wired(ui, client, net', pending, commands, replies, waiting, Q)
<1>1. row.out \in Seq(Frame)
  BY DEF Connection
<1>2. row.out \o <<x>> = Append(row.out, x) /\ Append(row.out, x) \in Seq(Frame) /\ <<x>> \in Seq(Frame)
  BY <1>1
<1>3. [row EXCEPT !.out = Append(row.out, x)] \in Connection
  BY <1>2 DEF Connection
<1>4. PICK n \in Connection : n = [row EXCEPT !.out = Append(row.out, x)]
  BY <1>3
<1>5. Wired(ui, client, n, pending, commands, replies, waiting, Q)
  BY <1>4, AnsweredChat
<1>6. PICK s \in Seq(Frame) : s = <<x>>
  BY <1>2
<1>7. n = [row EXCEPT !.out = row.out \o s] /\ Send(row, s)
  BY <1>2, <1>4, <1>6
<1> QED BY <1>5, <1>7, SendChat

\* A handler that sends its answer, then a notice.
LEMMA NoticedChat ==
    ASSUME Inv, ChatInv, net.up, net.req # <<>>, NEW c, c = net.req[1],
           NEW row \in Connection, row.up = net.up, row.out = net.out, row.req = Tail(net.req),
           NEW x \in Frame, NEW Q, posted # {} => Q # {}, Answers(ui, client, net, row, c, x, Q),
           NEW y \in Frame, y.id = None, y.t \in {"event", "changed"}, y.t = "changed" => y.ws = row.member,
           NEW s, Pair(s, x, y), Send(row, s)
    PROVE  Wired(ui, client, net', pending, commands, replies, waiting, Q)
<1>1. row.out \in Seq(Frame)
  BY DEF Connection
<1>2. Append(row.out, x) \in Seq(Frame) /\ row.out \o s \in Seq(Frame) /\ s \in Seq(Frame)
  BY <1>1 DEF Pair
<1>3. [row EXCEPT !.out = Append(row.out, x)] \in Connection
  BY <1>2 DEF Connection
<1>4. PICK n \in Connection : n = [row EXCEPT !.out = Append(row.out, x)]
  BY <1>3
<1>5. Wired(ui, client, n, pending, commands, replies, waiting, Q)
  BY <1>4, AnsweredChat
<1>6. n.out = Append(row.out, x) /\ n.up = row.up /\ n.req = row.req /\ n.member = row.member /\ n.out \in Seq(Frame)
  BY <1>2, <1>4 DEF Connection
<1>7. [row EXCEPT !.out = row.out \o s] \in Connection
  BY <1>2 DEF Connection
<1>9. PICK n2 \in Connection : n2 = [row EXCEPT !.out = row.out \o s]
  BY <1>7
<1>10. n2.out = row.out \o s /\ n2.up = n.up /\ n2.req = n.req /\ n2.member = n.member
  BY <1>6, <1>9 DEF Connection
<1>11. Grown(n, n2, y)
  BY <1>1, <1>6, <1>10, PairGrown
<1>12. replies \in SUBSET Value /\ QueueIds(commands)
  BY DEF Inv, TypeOK, FeedTypeOK, WithinLog, QueueOK, CommandOK, QueueIds
<1>13. Wired(ui, client, n2, pending, commands, replies, waiting, Q)
  BY <1>5, <1>6, <1>10, <1>11, <1>12, NoticeChat
<1> QED BY <1>2, <1>9, <1>13, SendChat

\* What the answers of the handlers say.
LEMMA AnswersCases ==
    ASSUME NEW u, NEW m, NEW n, NEW n2, NEW c, NEW f, NEW Q, f.id = c.id,
           Posting(u, c.id) => c.kind = "post",
           Syncing(u, c.id) => c.kind \notin Exclusive /\ n.member = m.desired,
           \/ f.t = "error" /\ c.kind # "post" /\ n2.member = n.member
           \/ f.t = "joined" /\ c.kind = "join" /\ f.ws = n2.member
           \/ f.t = "left" /\ c.kind = "leave" /\ f.ws = None /\ n2.member = None
           \/ f.t \in {"page", "unsubscribed", "history"} /\ c.kind # "post" /\ n2.member = n.member /\ n.member # None
           \/ f.t = "posted" /\ c.kind = "post" /\ n2.member = n.member /\ Q # {}
    PROVE  Answers(u, m, n, n2, c, f, Q)
<1>1. CASE f.t = "error" /\ c.kind # "post" /\ n2.member = n.member
  BY <1>1 DEF Answers, MoveFrame
<1>2. CASE f.t = "joined" /\ c.kind = "join" /\ f.ws = n2.member
  BY <1>2 DEF Answers, MoveFrame, Exclusive
<1>3. CASE f.t = "left" /\ c.kind = "leave" /\ f.ws = None /\ n2.member = None
  BY <1>3 DEF Answers, MoveFrame, Exclusive
<1>4. CASE f.t \in {"page", "unsubscribed", "history"} /\ c.kind # "post" /\ n2.member = n.member /\ n.member # None
  BY <1>4 DEF Answers, MoveFrame
<1>5. CASE f.t = "posted" /\ c.kind = "post" /\ n2.member = n.member /\ Q # {}
  BY <1>5 DEF Answers, MoveFrame, Exclusive
<1> QED BY <1>1, <1>2, <1>3, <1>4, <1>5

\* A frame that answers c.
AnswerFrame(f, c, t, w) == f \in Frame /\ f.t = t /\ f.id = c.id /\ f.ws = w

\* The answers of the handlers.
LEMMA AnswerTyped ==
    ASSUME NEW c \in Request, NEW t \in {"joined", "left", "page", "unsubscribed", "history", "posted", "error"},
           NEW w \in Room, NEW lo \in Int, NEW hi \in Int, NEW live \in BOOLEAN
    PROVE  AnswerFrame(Answer(t, c, w, lo, hi, live), c, t, w)
<1>1. c.id \in Id \cup {RestoreId, None}
  BY DEF Request
<1>2. PICK f : f = Answer(t, c, w, lo, hi, live)
  OBVIOUS
<1>3. f \in Frame
  BY <1>1, <1>2 DEF Answer, Frame
<1>4. f.t = t /\ f.id = c.id /\ f.ws = w
  BY <1>2 DEF Answer
<1> QED BY <1>2, <1>3, <1>4 DEF AnswerFrame

\* Every handler of the router but workspace_post.
LEMMA HandleChat ==
    ASSUME Inv, AckInv, ChatInv, net.up, net.req # <<>>, NEW c, c = Head(net.req), NEW row, row = [net EXCEPT !.req = Tail(@)],
           \/ c.kind = "join" /\ WorkspaceJoin(row, c)
           \/ c.kind = "leave" /\ WorkspaceLeave(row, c)
           \/ c.kind = "subscribe" /\ WorkspaceSubscribe(row, c)
           \/ c.kind = "unsubscribe" /\ WorkspaceUnsubscribe(row, c)
           \/ c.kind = "history" /\ WorkspaceHistory(row, c)
    PROVE  Wired(ui, client, net', pending, commands, replies, waiting, posted) /\ posted' = posted
<1>1. posted' = posted
  BY DEF WorkspaceJoin, WorkspaceLeave, WorkspaceSubscribe, WorkspaceUnsubscribe, WorkspaceHistory
<1>2. /\ c \in Request /\ c = net.req[1] /\ RequestOK(c) /\ row \in Connection
      /\ row.up = net.up /\ row.member = net.member /\ row.sub = net.sub
      /\ row.out = net.out /\ row.req = Tail(net.req)
  BY FirstRequest
<1>3. net \in Connection /\ log \in [Workspace -> Nat] /\ row.member \in Room /\ c.kind # "post" /\ c.after \in Int
  BY <1>2 DEF Inv, TypeOK, FeedTypeOK, Connection, Request
<1>4. (Posting(ui, c.id) => c.kind = "post") /\ (Syncing(ui, c.id) => c.kind \notin Exclusive /\ net.member = client.desired)
  BY <1>2, RequestFacts
<1>5. \A w \in Room : w # None => log[w] \in Nat /\ w \in Workspace
  BY <1>3 DEF Room
<1>16. PICK none \in Room : none = None
  BY DEF Room
<1>17. PICK zero \in Int : zero = 0
  OBVIOUS
<1>18. PICK no \in BOOLEAN : no = FALSE
  OBVIOUS
<1>6. none = None /\ zero = 0 /\ no = FALSE
  BY <1>16, <1>17, <1>18
<1>7. ASSUME NEW r \in Connection, r.up = net.up, r.out = net.out, r.req = Tail(net.req),
             NEW x \in Frame, Answers(ui, client, net, r, c, x, posted), Send(r, <<x>>)
      PROVE  Wired(ui, client, net', pending, commands, replies, waiting, posted)
  BY <1>2, <1>7, HandledChat
<1>8. ASSUME NEW r \in Connection, r.up = net.up, r.out = net.out, r.req = Tail(net.req),
             NEW x \in Frame, Answers(ui, client, net, r, c, x, posted),
             NEW w \in Room, NEW k \in Int, w = r.member, Send(r, <<x, Changed(w, k)>>)
      PROVE  Wired(ui, client, net', pending, commands, replies, waiting, posted)
  <2>1. PICK y : y = Changed(w, k)
    OBVIOUS
  <2>2. y \in Frame
    BY <2>1 DEF Changed, Frame
  <2>3. y.id = None /\ y.t = "changed" /\ y.ws = w
    BY <2>1 DEF Changed
  <2>4. PICK s : s = <<x, y>>
    OBVIOUS
  <2>5. Pair(s, x, y) /\ Send(r, s)
    BY <1>8, <2>1, <2>2, <2>4, PairOK
  <2>6. y.t \in {"event", "changed"} /\ (y.t = "changed" => y.ws = r.member)
    BY <1>8, <2>3
  <2> QED BY <1>2, <1>8, <2>2, <2>3, <2>5, <2>6, NoticedChat
<1>9. ASSUME Send(row, <<ErrorFrame(c)>>) PROVE Wired(ui, client, net', pending, commands, replies, waiting, posted)
  <2>1. PICK e : e = Answer("error", c, none, zero, zero, no)
    OBVIOUS
  <2>2. AnswerFrame(e, c, "error", none)
    BY <1>2, <2>1, AnswerTyped
  <2>3. e \in Frame /\ e.t = "error" /\ e.id = c.id
    BY <2>2 DEF AnswerFrame
  <2>4. Answers(ui, client, net, row, c, e, posted)
    BY <1>2, <1>3, <1>4, <2>3, AnswersCases
  <2>5. Send(row, <<e>>)
    BY <1>6, <1>9, <2>1 DEF ErrorFrame
  <2> QED BY <1>2, <1>7, <2>3, <2>4, <2>5
<1>10. CASE c.kind = "join" /\ WorkspaceJoin(row, c)
  <2>1. PICK w \in Room, k \in Int : w = c.ws /\ k = log[w]
    <3>1. c.ws \in Room /\ c.ws # None
      BY <1>2, <1>10 DEF RequestOK, Request
    <3> QED BY <1>5, <3>1
  <2>2. PICK x : x = Answer("joined", c, w, k, k, no)
    OBVIOUS
  <2>3. AnswerFrame(x, c, "joined", w)
    BY <1>2, <2>2, AnswerTyped
  <2>4. x \in Frame /\ x.t = "joined" /\ x.id = c.id /\ x.ws = w
    BY <2>3 DEF AnswerFrame
  <2>5. [row EXCEPT !.member = w] \in Connection
    BY <1>2 DEF Connection
  <2>6. PICK r \in Connection : r = [row EXCEPT !.member = w]
    BY <2>5
  <2>7. r.out = net.out /\ r.req = Tail(net.req) /\ r.up = net.up /\ r.member = w
    BY <1>2, <2>6 DEF Connection
  <2>8. (row.member = w /\ Send(row, <<x>>)) \/ Send(r, <<x, Changed(w, k)>>) \/ Send(row, <<ErrorFrame(c)>>)
    BY <1>6, <1>10, <2>1, <2>2, <2>6 DEF WorkspaceJoin
  <2>9. CASE row.member = w /\ Send(row, <<x>>)
    <3>1. Answers(ui, client, net, row, c, x, posted)
      BY <1>4, <1>10, <2>4, <2>9, AnswersCases
    <3> QED BY <1>1, <1>2, <1>7, <2>4, <2>9, <3>1
  <2>10. CASE Send(r, <<x, Changed(w, k)>>)
    <3>1. Answers(ui, client, net, r, c, x, posted)
      BY <1>4, <1>10, <2>4, <2>7, AnswersCases
    <3> QED BY <1>1, <1>8, <2>4, <2>7, <2>10, <3>1
  <2> QED BY <1>1, <1>9, <2>8, <2>9, <2>10
<1>11. CASE c.kind = "leave" /\ WorkspaceLeave(row, c)
  <2>1. PICK x : x = Answer("left", c, none, zero, zero, no)
    OBVIOUS
  <2>2. AnswerFrame(x, c, "left", none)
    BY <1>2, <2>1, AnswerTyped
  <2>3. x \in Frame /\ x.t = "left" /\ x.id = c.id /\ x.ws = None
    BY <1>6, <2>2 DEF AnswerFrame
  <2>4. [row EXCEPT !.member = None, !.sub = FALSE] \in Connection
    BY <1>2 DEF Connection, Room
  <2>5. PICK r \in Connection : r = [row EXCEPT !.member = None, !.sub = FALSE]
    BY <2>4
  <2>6. r.out = net.out /\ r.req = Tail(net.req) /\ r.up = net.up /\ r.member = None
    BY <1>2, <2>5 DEF Connection
  <2>7. (row.member = None /\ Send(row, <<x>>)) \/ Send(r, <<x, Changed(none, zero)>>)
    BY <1>6, <1>11, <2>1, <2>5 DEF WorkspaceLeave
  <2>8. CASE row.member = None /\ Send(row, <<x>>)
    <3>1. Answers(ui, client, net, row, c, x, posted)
      BY <1>4, <1>11, <2>3, <2>8, AnswersCases
    <3> QED BY <1>1, <1>2, <1>7, <2>3, <2>8, <3>1
  <2>9. CASE Send(r, <<x, Changed(none, zero)>>)
    <3>1. Answers(ui, client, net, r, c, x, posted)
      BY <1>4, <1>11, <2>3, <2>6, AnswersCases
    <3> QED BY <1>1, <1>6, <1>8, <2>3, <2>6, <2>9, <3>1
  <2> QED BY <1>1, <2>7, <2>8, <2>9
<1>12. ASSUME NEW t \in {"page", "unsubscribed", "history"}, NEW w \in Room, NEW lo \in Int, NEW hi \in Int,
              NEW live \in BOOLEAN, NEW sub \in BOOLEAN, w = row.member, w # None,
              Send([row EXCEPT !.sub = sub], <<Answer(t, c, w, lo, hi, live)>>)
       PROVE  Wired(ui, client, net', pending, commands, replies, waiting, posted)
  <2>1. PICK x : x = Answer(t, c, w, lo, hi, live)
    OBVIOUS
  <2>2. AnswerFrame(x, c, t, w)
    BY <1>2, <2>1, AnswerTyped
  <2>3. x \in Frame /\ x.t = t /\ x.id = c.id
    BY <2>2 DEF AnswerFrame
  <2>4. [row EXCEPT !.sub = sub] \in Connection
    BY <1>2 DEF Connection
  <2>5. PICK r \in Connection : r = [row EXCEPT !.sub = sub]
    BY <2>4
  <2>6. r.out = net.out /\ r.req = Tail(net.req) /\ r.up = net.up /\ r.member = net.member
    BY <1>2, <2>5 DEF Connection
  <2>7. Answers(ui, client, net, r, c, x, posted)
    BY <1>2, <1>3, <1>4, <1>12, <2>3, <2>6, AnswersCases
  <2>8. Send(r, <<x>>)
    BY <1>12, <2>1, <2>5
  <2> QED BY <1>7, <2>3, <2>6, <2>7, <2>8
<1>13. CASE c.kind = "subscribe" /\ WorkspaceSubscribe(row, c)
  <2>3. CASE row.member = None \/ (row.member # None /\ c.after > log[row.member])
    <3>1. Send(row, <<ErrorFrame(c)>>)
      BY <1>13, <2>3 DEF WorkspaceSubscribe
    <3> QED BY <1>1, <1>9, <3>1
  <2>4. CASE ~ (row.member = None \/ (row.member # None /\ c.after > log[row.member]))
    <3>1. PICK w \in Workspace : w = row.member /\ w # None
      BY <1>3, <1>5, <2>4
    <3>2. PICK hi \in PageEnds(w, c.after) :
             Send([row EXCEPT !.sub = row.sub \/ hi = log[w]], <<Answer("page", c, w, c.after, hi, hi = log[w])>>)
      BY <1>13, <2>4, <3>1 DEF WorkspaceSubscribe
    <3>3. PICK live \in BOOLEAN : live = (hi = log[w])
      OBVIOUS
    <3>4. PICK sub \in BOOLEAN : sub = (row.sub \/ hi = log[w])
      OBVIOUS
    <3>5. Send([row EXCEPT !.sub = sub], <<Answer("page", c, w, c.after, hi, live)>>)
      BY <3>2, <3>3, <3>4
    <3>6. c.after <= log[w]
      BY <1>3, <2>4, <3>1
    <3>7. hi \in Int /\ w \in Room
      BY <1>3, <3>1, <3>2, <3>6, PageEndsOK DEF Room
    <3>8. PICK t \in {"page", "unsubscribed", "history"} : t = "page"
      OBVIOUS
    <3> QED BY <1>1, <1>3, <1>12, <3>1, <3>5, <3>7, <3>8
  <2> QED BY <2>3, <2>4
<1>14. CASE c.kind = "unsubscribe" /\ WorkspaceUnsubscribe(row, c)
  <2>1. CASE row.member = None
    <3>1. Send(row, <<ErrorFrame(c)>>)
      BY <1>14, <2>1 DEF WorkspaceUnsubscribe
    <3> QED BY <1>1, <1>9, <3>1
  <2>2. CASE row.member # None
    <3>1. PICK w \in Room : w = row.member /\ w # None
      BY <1>3, <2>2
    <3>2. PICK t \in {"page", "unsubscribed", "history"} : t = "unsubscribed"
      OBVIOUS
    <3>3. Send([row EXCEPT !.sub = no], <<Answer(t, c, w, zero, zero, no)>>)
      BY <1>6, <1>14, <2>2, <3>1, <3>2 DEF WorkspaceUnsubscribe
    <3> QED BY <1>1, <1>12, <3>1, <3>3
  <2> QED BY <2>1, <2>2
<1>15. CASE c.kind = "history" /\ WorkspaceHistory(row, c)
  <2>1. CASE row.member = None
    <3>1. Send(row, <<ErrorFrame(c)>>)
      BY <1>15, <2>1 DEF WorkspaceHistory
    <3> QED BY <1>1, <1>9, <3>1
  <2>2. CASE row.member # None
    <3>1. PICK w \in Workspace : w = row.member /\ w # None
      BY <1>3, <1>5, <2>2
    <3>2. PICK z \in Int, d \in Int : z = 0 /\ d = log[w] - PageLimit
      BY <1>3, FeedAssumption
    <3>3. PICK lo \in Int : lo = Max({z, d}) /\ lo <= log[w]
      <4>1. Max({z, d}) \in Int /\ (Max({z, d}) = z \/ Max({z, d}) = d)
        BY MaxTwo
      <4>2. z <= log[w] /\ d <= log[w]
        BY <1>3, <3>2, FeedAssumption
      <4> QED BY <4>1, <4>2
    <3>4. PICK hi \in PageEnds(w, lo) : Send(row, <<Answer("history", c, w, lo, hi, FALSE)>>)
      BY <1>15, <2>2, <3>1, <3>2, <3>3 DEF WorkspaceHistory
    <3>5. hi \in Int /\ w \in Room
      BY <1>3, <3>1, <3>3, <3>4, PageEndsOK DEF Room
    <3>6. PICK t \in {"page", "unsubscribed", "history"} : t = "history"
      OBVIOUS
    <3>7. PICK sub \in BOOLEAN : sub = row.sub
      BY <1>2 DEF Connection
    <3>8. [row EXCEPT !.sub = sub] = row
      BY <1>2, <3>7 DEF Connection
    <3>9. Send([row EXCEPT !.sub = sub], <<Answer(t, c, w, lo, hi, no)>>)
      BY <1>6, <3>4, <3>6, <3>8
    <3> QED BY <1>1, <1>12, <3>1, <3>5, <3>9
  <2> QED BY <2>1, <2>2
<1> QED BY <1>10, <1>11, <1>13, <1>14, <1>15

\* workspace_post: a chat that is open is stored in the room it was written in.
LEMMA PostChat ==
    ASSUME Inv, AckInv, ChatInv, net.up, net.req # <<>>, NEW c, c = Head(net.req), NEW row, row = [net EXCEPT !.req = Tail(@)],
           c.kind = "post", WorkspacePost(row, c)
    PROVE  Wired(ui, client, net', pending, commands, replies, waiting, posted') /\ ShowOK(ui, client.desired, posted')
<1>1. /\ c \in Request /\ c = net.req[1] /\ row \in Connection
      /\ row.up = net.up /\ row.member = net.member /\ row.sub = net.sub
      /\ row.out = net.out /\ row.req = Tail(net.req)
  BY FirstRequest
<1>2. log \in [Workspace -> Nat] /\ row.member \in Room
  BY <1>1 DEF Inv, TypeOK, FeedTypeOK, Connection
<1>3. /\ Posting(ui, c.id) => c.kind = "post"
      /\ Syncing(ui, c.id) => c.kind \notin Exclusive /\ net.member = client.desired
      /\ Chatting(ui) /\ net.member = client.desired /\ client.desired # None
  BY <1>1, RequestFacts
<1>4. ShowOK(ui, client.desired, posted)
  BY DEF ChatInv, OpenChat
<1>5. PICK w \in Workspace : w = row.member /\ w = client.desired /\ w \in Room
  BY <1>1, <1>2, <1>3 DEF Room
<1>6. PICK zero \in Int : zero = 0
  OBVIOUS
<1>7. PICK no \in BOOLEAN : no = FALSE
  OBVIOUS
<1>8. PICK x : x = Answer("posted", c, w, zero, zero, no)
  OBVIOUS
<1>9. AnswerFrame(x, c, "posted", w)
  BY <1>1, <1>5, <1>8, AnswerTyped
<1>10. x \in Frame /\ x.t = "posted" /\ x.id = c.id
  BY <1>9 DEF AnswerFrame
<1>11. ASSUME NEW Q, Q # {} PROVE Answers(ui, client, net, row, c, x, Q)
  BY <1>1, <1>3, <1>10, <1>11, AnswersCases
<1>12. w # None
  BY <1>3, <1>5
<1>13. CASE \E p \in posted : p.ws = w
  <2>1. Send(row, <<x>>) /\ posted' = posted
    BY <1>5, <1>6, <1>7, <1>8, <1>12, <1>13 DEF WorkspacePost
  <2>2. posted # {}
    BY <1>13
  <2>3. Wired(ui, client, net', pending, commands, replies, waiting, posted)
    BY <1>1, <1>10, <1>11, <2>1, <2>2, HandledChat
  <2> QED BY <1>4, <2>1, <2>3
<1>14. CASE ~ \E p \in posted : p.ws = w
  <2>1. posted = {}
    BY <1>3, <1>4, <1>5, <1>14 DEF ShowOK
  <2>2. PICK p : p = [ws |-> w, seq |-> log[w] + 1]
    OBVIOUS
  <2>3. /\ posted' = posted \cup {p}
        /\ Send(row, <<x>> \o (IF row.sub THEN <<EventFrame(w, log[w] + 1)>> ELSE <<>>))
    BY <1>5, <1>6, <1>7, <1>8, <1>12, <1>14, <2>2 DEF WorkspacePost
  <2>4. PICK Q : Q = {p}
    OBVIOUS
  <2>5. posted' = Q /\ Q # {} /\ p.ws = w
    BY <2>1, <2>2, <2>3, <2>4
  <2>6. ShowOK(ui, client.desired, Q)
    BY <1>4, <1>5, <2>4, <2>5 DEF ShowOK
  <2>7. PICK k \in Int : k = log[w] + 1
    BY <1>2
  <2>8. PICK y : y = EventFrame(w, k)
    OBVIOUS
  <2>9. y \in Frame
    BY <2>8, <1>5 DEF EventFrame, Frame
  <2>10. y.id = None /\ y.t = "event"
    BY <2>8 DEF EventFrame
  <2>11. PICK s : s = <<x>> \o <<y>>
    OBVIOUS
  <2>12. Pair(s, x, y)
    BY <1>10, <2>9, <2>11, PairOK
  <2>13. <<x>> \o <<>> = <<x>>
    OBVIOUS
  <2>14. Send(row, s) \/ Send(row, <<x>>)
    BY <2>3, <2>7, <2>8, <2>11, <2>13
  <2>15. Wired(ui, client, net', pending, commands, replies, waiting, Q)
    <3>1. CASE Send(row, <<x>>)
      BY <1>1, <1>10, <1>11, <2>5, <3>1, HandledChat
    <3>2. CASE Send(row, s)
      BY <1>1, <1>10, <1>11, <2>5, <2>9, <2>10, <2>12, <3>2, NoticedChat
    <3> QED BY <2>14, <3>1, <3>2
  <2> QED BY <2>5, <2>6, <2>15
<1> QED BY <1>13, <1>14

\* Two sequences with the same elements.
LEMMA SameSequence ==
    ASSUME NEW S, NEW a \in Seq(S), NEW b \in Seq(S), Len(a) = Len(b), \A k \in 1 .. Len(a) : a[k] = b[k]
    PROVE  a = b
OBVIOUS

\* Events that are published.
LEMMA FanoutChat ==
    ASSUME Inv, ChatInv, net.sub, NEW f \in Frame, NEW g \in Frame, NEW h \in Frame,
           f.id = None, f.t = "event", g.id = None, g.t = "event", h.id = None, h.t = "event",
           NEW s, s = <<f>> \/ s = <<f, g, h>>, Send(net, s)
    PROVE  Wired(ui, client, net', pending, commands, replies, waiting, posted)
<1>1. Wired(ui, client, net, pending, commands, replies, waiting, posted)
  BY DEF ChatInv, OpenChat, Wired
<1>2. net \in Connection /\ net.up /\ net.out \in Seq(Frame)
  BY <1>1 DEF Inv, TypeOK, FeedTypeOK, Wired, PlaceOK, Connection
<1>3. replies \in SUBSET Value /\ QueueIds(commands)
  BY DEF Inv, TypeOK, FeedTypeOK, WithinLog, QueueOK, CommandOK, QueueIds
<1>4. ASSUME NEW n \in Connection, n.up, n.member = net.member, n.req = net.req,
             Wired(ui, client, n, pending, commands, replies, waiting, posted),
             NEW n2 \in Connection, n2.up, n2.member = net.member, n2.req = net.req, 
             NEW e \in Frame, e.id = None, e.t = "event", Grown(n, n2, e)
      PROVE  Wired(ui, client, n2, pending, commands, replies, waiting, posted)
  <2>1. e.t \in {"event", "changed"} /\ (e.t = "changed" => e.ws = n.member)
    BY <1>4
  <2>2. n2.member = n.member /\ n2.req = n.req
    BY <1>4
  <2> QED BY <1>3, <1>4, <2>1, <2>2, NoticeChat
<1>5. ASSUME NEW t \in Seq(Frame) PROVE [net EXCEPT !.out = t] \in Connection
  BY <1>2 DEF Connection
<1>6. ASSUME NEW n \in Connection, NEW t, n = [net EXCEPT !.out = t]
      PROVE  n.up /\ n.member = net.member /\ n.req = net.req /\ n.out = t
  BY <1>2, <1>6 DEF Connection
<1>7. PICK o \in Seq(Frame) : o = net.out
  BY <1>2
<1>8. PICK t1 \in Seq(Frame) : t1 = Append(o, f)
  <2>1. Append(o, f) \in Seq(Frame)
    OBVIOUS
  <2> QED BY <2>1
<1>9. PICK t2 \in Seq(Frame) : t2 = Append(t1, g)
  <2>1. Append(t1, g) \in Seq(Frame)
    OBVIOUS
  <2> QED BY <2>1
<1>10. PICK t3 \in Seq(Frame) : t3 = Append(t2, h)
  <2>1. Append(t2, h) \in Seq(Frame)
    OBVIOUS
  <2> QED BY <2>1
<1>11. PICK n1 \in Connection : n1 = [net EXCEPT !.out = t1]
  BY <1>5
<1>12. PICK n2 \in Connection : n2 = [net EXCEPT !.out = t2]
  BY <1>5
<1>13. PICK n3 \in Connection : n3 = [net EXCEPT !.out = t3]
  BY <1>5
<1>14. n1.up /\ n1.member = net.member /\ n1.req = net.req /\ n1.out = t1
  BY <1>6, <1>11
<1>15. n2.up /\ n2.member = net.member /\ n2.req = net.req /\ n2.out = t2
  BY <1>6, <1>12
<1>16. n3.up /\ n3.member = net.member /\ n3.req = net.req /\ n3.out = t3
  BY <1>6, <1>13
<1>17. Grown(net, n1, f) /\ Grown(n1, n2, g) /\ Grown(n2, n3, h)
  BY <1>2, <1>7, <1>8, <1>9, <1>10, <1>14, <1>15, <1>16, GrownOK
<1>18. Wired(ui, client, n1, pending, commands, replies, waiting, posted)
  BY <1>1, <1>2, <1>4, <1>14, <1>17
<1>19. Wired(ui, client, n2, pending, commands, replies, waiting, posted)
  BY <1>4, <1>14, <1>15, <1>17, <1>18
<1>20. Wired(ui, client, n3, pending, commands, replies, waiting, posted)
  BY <1>4, <1>15, <1>16, <1>17, <1>19
<1>21. <<f>> \in Seq(Frame) /\ <<f, g, h>> \in Seq(Frame)
  OBVIOUS
<1>22. s \in Seq(Frame)
  BY <1>21
<1>23. CASE s = <<f>>
  <2>1. o \o s = t1
    BY <1>8, <1>23
  <2>2. n1 = [net EXCEPT !.out = net.out \o s]
    BY <1>7, <1>11, <2>1
  <2> QED BY <1>2, <1>18, <1>22, <2>2, SendChat
<1>24. CASE s = <<f, g, h>>
  <2>1. o \o s = t3
    <3>1. Len(s) = 3 /\ s[1] = f /\ s[2] = g /\ s[3] = h
      BY <1>24
    <3>2. PICK r \in Seq(Frame) : r = o \o s
      <4>1. o \o s \in Seq(Frame)
        BY <1>22
      <4> QED BY <4>1
    <3>3. /\ Len(o) \in Nat /\ Len(r) = Len(o) + Len(s)
          /\ \A k \in 1 .. Len(o) : r[k] = o[k]
          /\ \A k \in 1 .. Len(s) : r[Len(o) + k] = s[k]
      BY <1>22, <3>2, ConcatOK
    <3>4. Len(t1) = Len(o) + 1 /\ t1[Len(o) + 1] = f /\ \A k \in 1 .. Len(o) : t1[k] = o[k]
      BY <1>8
    <3>5. Len(t2) = Len(t1) + 1 /\ t2[Len(t1) + 1] = g /\ \A k \in 1 .. Len(t1) : t2[k] = t1[k]
      BY <1>9
    <3>6. Len(t3) = Len(t2) + 1 /\ t3[Len(t2) + 1] = h /\ \A k \in 1 .. Len(t2) : t3[k] = t2[k]
      BY <1>10
    <3>7. r[Len(o) + 1] = f /\ r[Len(o) + 2] = g /\ r[Len(o) + 3] = h
      BY <3>1, <3>3
    <3>8. t3[Len(o) + 1] = f /\ t3[Len(o) + 2] = g /\ t3[Len(o) + 3] = h /\ \A k \in 1 .. Len(o) : t3[k] = o[k]
      <4>1. PICK a \in Nat : a = Len(o)
        BY <3>3
      <4>2. Len(t1) = a + 1 /\ Len(t2) = a + 2 /\ Len(t3) = a + 3
        BY <3>4, <3>5, <3>6, <4>1
      <4>3. a + 1 \in 1 .. Len(t1) /\ a + 1 \in 1 .. Len(t2) /\ a + 2 \in 1 .. Len(t2)
        BY <4>2
      <4>4. \A k \in 1 .. a : k \in 1 .. Len(t1) /\ k \in 1 .. Len(t2)
        BY <4>2
      <4>5. t3[a + 1] = t2[a + 1] /\ t2[a + 1] = t1[a + 1] /\ t3[a + 2] = t2[a + 2]
        BY <3>5, <3>6, <4>3
      <4>6. t1[a + 1] = f /\ t2[a + 2] = g /\ t3[a + 3] = h
        <5>1. Len(t1) + 1 = a + 2 /\ Len(t2) + 1 = a + 3
          BY <4>2
        <5> QED BY <3>4, <3>5, <3>6, <4>1, <5>1
      <4>7. \A k \in 1 .. a : t3[k] = o[k]
        BY <3>4, <3>5, <3>6, <4>1, <4>4
      <4> QED BY <4>1, <4>5, <4>6, <4>7
    <3>9. Len(r) = Len(t3) /\ \A k \in 1 .. Len(r) : r[k] = t3[k]
      <4>1. PICK a \in Nat : a = Len(o)
        BY <3>3
      <4>2. Len(r) = a + 3 /\ Len(t3) = a + 3
        BY <3>1, <3>3, <3>4, <3>5, <3>6, <4>1
      <4>3. ASSUME NEW k \in 1 .. Len(r) PROVE k \in 1 .. a \/ k = a + 1 \/ k = a + 2 \/ k = a + 3
        <5>1. k \in Nat /\ 1 <= k /\ k <= a + 3
          BY <4>2
        <5>2. k <= a \/ k = a + 1 \/ k = a + 2 \/ k = a + 3
          BY <5>1
        <5> QED BY <5>1, <5>2
      <4> QED BY <3>3, <3>7, <3>8, <4>1, <4>2, <4>3
    <3>10. r = t3
      <4>1. r \in Seq(Frame) /\ t3 \in Seq(Frame)
        BY <1>10, <3>2
      <4> QED BY <3>9, <4>1, SameSequence
    <3> QED BY <3>2, <3>10
  <2>2. n3 = [net EXCEPT !.out = net.out \o s]
    BY <1>7, <1>13, <2>1
  <2> QED BY <1>2, <1>20, <1>22, <2>2, SendChat
<1> QED BY <1>23, <1>24

\* Every step of the router.
LEMMA RouterChat == ASSUME Inv, Inv', AckInv, ChatInv, RouterStep, UNCHANGED ui PROVE ChatInv'
<1>1. net \in Connection /\ log \in [Workspace -> Nat] /\ Wired(ui, client, net, pending, commands, replies, waiting, posted)
      /\ ShowOK(ui, client.desired, posted)
  BY DEF Inv, TypeOK, FeedTypeOK, ChatInv, OpenChat, Wired
<1>2. UNCHANGED <<ui, client, pending, commands, replies, waiting>>
  BY DEF RouterStep, RouterHandle, Cut, Publish, PublishNested
<1>3. ASSUME Wired(ui, client, net', pending, commands, replies, waiting, posted'), ShowOK(ui, client.desired, posted')
      PROVE  ChatInv'
  <2>1. PICK n, Q : n = net' /\ Q = posted'
    OBVIOUS
  <2>2. OpenChat(ui, client, n, pending, commands, replies, waiting, Q)
    BY <1>3, <2>1 DEF OpenChat, Wired
  <2> QED BY <1>2, <2>1, <2>2 DEF ChatInv
<1>4. ASSUME NEW w \in Workspace, NEW j \in Nat, NEW f, f = EventFrame(w, log[w] + j)
      PROVE  f \in Frame /\ f.id = None /\ f.t = "event"
  <2>0. PICK k \in Int : k = log[w] + j
    BY <1>1
  <2>1. f \in Frame
    BY <1>4, <2>0 DEF EventFrame, Frame, Room
  <2> QED BY <1>4, <2>1 DEF EventFrame
<1>5. ASSUME UNCHANGED posted, UNCHANGED net \/ Wired(ui, client, net', pending, commands, replies, waiting, posted)
      PROVE  ChatInv'
  BY <1>1, <1>3, <1>5
<1>6. CASE RouterHandle
  <2>1. PICK c, row : c = Head(net.req) /\ row = [net EXCEPT !.req = Tail(@)]
    OBVIOUS
  <2>2. /\ net.up /\ net.req # <<>>
        /\ \/ c.kind = "join" /\ WorkspaceJoin(row, c)
           \/ c.kind = "leave" /\ WorkspaceLeave(row, c)
           \/ c.kind = "subscribe" /\ WorkspaceSubscribe(row, c)
           \/ c.kind = "unsubscribe" /\ WorkspaceUnsubscribe(row, c)
           \/ c.kind = "history" /\ WorkspaceHistory(row, c)
           \/ c.kind = "post" /\ WorkspacePost(row, c)
    BY <1>6, <2>1 DEF RouterHandle
  <2>3. CASE c.kind = "post" /\ WorkspacePost(row, c)
    BY <1>3, <2>1, <2>2, <2>3, PostChat
  <2>4. CASE ~ (c.kind = "post" /\ WorkspacePost(row, c))
    <3>1. \/ c.kind = "join" /\ WorkspaceJoin(row, c)
          \/ c.kind = "leave" /\ WorkspaceLeave(row, c)
          \/ c.kind = "subscribe" /\ WorkspaceSubscribe(row, c)
          \/ c.kind = "unsubscribe" /\ WorkspaceUnsubscribe(row, c)
          \/ c.kind = "history" /\ WorkspaceHistory(row, c)
      BY <2>2, <2>4
    <3> QED BY <1>5, <2>1, <2>2, <3>1, HandleChat
  <2> QED BY <2>3, <2>4
<1>7. CASE Cut
  <2>1. PICK k \in 0 .. Len(net.out) : net' = Closed(SubSeq(net.out, 1, k))
    BY <1>7 DEF Cut
  <2>2. UNCHANGED posted
    BY <1>7 DEF Cut
  <2>3. Wired(ui, client, Closed(SubSeq(net.out, 1, k)), pending, commands, replies, waiting, posted)
    BY <1>1, PrefixChat
  <2> QED BY <1>5, <2>1, <2>2, <2>3
<1>8. ASSUME NEW w \in Workspace, Publish(w) PROVE ChatInv'
  <2>1. PICK f : f = EventFrame(w, log[w] + 1)
    OBVIOUS
  <2>2. f \in Frame /\ f.id = None /\ f.t = "event"
    BY <1>4, <2>1
  <2>3. UNCHANGED net \/ (net.sub /\ Send(net, <<f>>))
    BY <1>8, <2>1 DEF Publish
  <2>4. UNCHANGED posted
    BY <1>8 DEF Publish
  <2>5. PICK s : s = <<f>>
    OBVIOUS
  <2>6. net.sub /\ Send(net, s) => Wired(ui, client, net', pending, commands, replies, waiting, posted)
    BY <2>2, <2>5, FanoutChat
  <2> QED BY <1>5, <2>3, <2>4, <2>5, <2>6
<1>9. ASSUME NEW w \in Workspace, PublishNested(w) PROVE ChatInv'
  <2>1. PICK f : f = EventFrame(w, log[w] + 1)
    OBVIOUS
  <2>2. PICK g : g = EventFrame(w, log[w] + 3)
    OBVIOUS
  <2>3. PICK h : h = EventFrame(w, log[w] + 2)
    OBVIOUS
  <2>4. f \in Frame /\ f.id = None /\ f.t = "event"
    BY <1>4, <2>1
  <2>5. g \in Frame /\ g.id = None /\ g.t = "event"
    BY <1>4, <2>2
  <2>6. h \in Frame /\ h.id = None /\ h.t = "event"
    BY <1>4, <2>3
  <2>7. PICK s : s = <<f, g, h>>
    OBVIOUS
  <2>8. UNCHANGED net \/ (net.sub /\ Send(net, s))
    BY <1>9, <2>1, <2>2, <2>3, <2>7 DEF PublishNested
  <2>9. UNCHANGED posted
    BY <1>9 DEF PublishNested
  <2>10. net.sub /\ Send(net, s) => Wired(ui, client, net', pending, commands, replies, waiting, posted)
    BY <2>4, <2>5, <2>6, <2>7, FanoutChat
  <2> QED BY <1>5, <2>8, <2>9, <2>10
<1> QED BY <1>6, <1>7, <1>8, <1>9 DEF RouterStep

-----------------------------------------------------------------------------
(* The client.                                                                *)

\* Only an action that changes the room moves the client.
LEMMA ShowMoved ==
    ASSUME NEW u, NEW d, NEW d2, NEW Q, ShowOK(u, d, Q), d2 = d \/ InStep(u, Switch)
    PROVE  ShowOK(u, d2, Q) /\ (d2 # d => u.sync = None)
BY DEF ShowOK, SwitchOK, Chatting

\* The commands that are left.
Among(rest, cmds) == \A k \in 1 .. Len(rest) : \E j \in 1 .. Len(cmds) : rest[k] = cmds[j]

\* The connection is given up: no call is answered, none is refused.
LEMMA EndedChat ==
    ASSUME NEW u, NEW m, NEW m2, NEW n, NEW n2, NEW P, NEW cmds, NEW rest, NEW R, NEW R2, NEW W, NEW Q,
           OpenChat(u, m, n, P, cmds, R, W, Q), Among(rest, cmds), m2.phase = "down", m2.desired = m.desired, n2 = Closed(<<>>),
           \A v \in R2 : v \in R \/ (~ v.ok /\ ~ v.answered)
    PROVE  OpenChat(u, m2, n2, {}, rest, R2, W, Q)
<1>1. n2.req = <<>> /\ n2.out = <<>> /\ n2.up = FALSE /\ n2.sub = FALSE
  BY DEF Closed
<1>2. Len(n2.req) = 0 /\ Len(n2.out) = 0
  BY <1>1
<1>3. CallsOK(u, m2, n2, {}, rest, R2, Q)
  <2>1. \A k \in 1 .. Len(rest) : rest[k].op = "rpc" => QueuedChat(u, rest[k].call)
    BY DEF OpenChat, CallsOK, Among
  <2>2. \A v \in R2 : ReplyChat(u, m2, v, Q)
    BY DEF OpenChat, CallsOK, ReplyChat
  <2> QED BY <1>2, <2>1, <2>2 DEF CallsOK
<1>4. PlaceOK(n2, {}, rest, R2, W)
  <2>1. \A k \in 1 .. Len(rest) : rest[k].op = "cancel" => rest[k].id \notin W
    BY DEF OpenChat, PlaceOK, Among
  <2> QED BY <1>1, <1>2, <2>1 DEF PlaceOK
<1>5. WalkOK(n2, m2)
  BY <1>1 DEF WalkOK
<1> QED BY <1>3, <1>4, <1>5 DEF OpenChat

\* A frame of the connection is taken.
Popped(n, n2) ==
    n.out # <<>> /\ n2.out = Tail(n.out) /\ n2.req = n.req /\ n2.up = n.up /\ n2.sub = n.sub /\ n2.member = n.member

\* The frames behind it.
LEMMA PoppedFrames ==
    ASSUME NEW n \in Connection, NEW n2, Popped(n, n2)
    PROVE  /\ 1 \in 1 .. Len(n.out) /\ n.out[1] = Head(n.out)
           /\ \A k \in 1 .. Len(n2.out) : k + 1 \in 1 .. Len(n.out) /\ n2.out[k] = n.out[k + 1] /\ 1 < k + 1
<1>1. n.out \in Seq(Frame)
  BY DEF Connection
<1>2. PICK s \in Seq(Frame) : s = n.out /\ s # <<>>
  BY <1>1 DEF Popped
<1>3. Len(s) \in Nat /\ Len(s) # 0 /\ s[1] = Head(s) /\ Len(Tail(s)) = Len(s) - 1
  BY <1>2
<1>4. \A k \in 1 .. Len(Tail(s)) : k + 1 \in 1 .. Len(s) /\ Tail(s)[k] = s[k + 1] /\ 1 < k + 1
  BY <1>2, <1>3
<1> QED BY <1>2, <1>3, <1>4 DEF Popped

\* The values that come with frame f.
Returns(R, R2, P2, f) ==
    \A v \in R2 : \/ v \in R
                  \/ v.id = f.id /\ v.id \in Id /\ (v.ok => f.t # "error") /\ \A p \in P2 : p.id # f.id

\* The pump takes a frame.
LEMMA PoppedChat ==
    ASSUME NEW u, NEW m, NEW m2, NEW n \in Connection, NEW n2, NEW P, NEW P2 \in SUBSET P, NEW cmds, NEW R, NEW R2, NEW W, NEW Q,
           OpenChat(u, m, n, P, cmds, R, W, Q), Popped(n, n2), NEW f, f = n.out[1], Returns(R, R2, P2, f),
           m.phase = "up", m2.phase = "up", MoveFrame(f) => m2.desired = f.ws, ~ MoveFrame(f) => m2.desired = m.desired
    PROVE  OpenChat(u, m2, n2, P2, cmds, R2, W, Q)
<1>1. /\ 1 \in 1 .. Len(n.out)
      /\ \A k \in 1 .. Len(n2.out) : k + 1 \in 1 .. Len(n.out) /\ n2.out[k] = n.out[k + 1] /\ 1 < k + 1
  BY PoppedFrames
<1>2. CallsOK(u, m, n, P, cmds, R, Q) /\ PlaceOK(n, P, cmds, R, W) /\ WalkOK(n, m) /\ ShowOK(u, m.desired, Q)
  BY DEF OpenChat
<1>3. FrameChat(u, m, f, Q)
  BY <1>1, <1>2 DEF CallsOK
<1>4. m2.desired = m.desired \/ InStep(u, Switch)
  BY <1>3 DEF FrameChat, MoveFrame, Own, Asks, InStep, Switch
<1>5. ShowOK(u, m2.desired, Q) /\ (m2.desired # m.desired => u.sync = None)
  BY <1>2, <1>4, ShowMoved
<1>6. \A i : Syncing(u, i) => m2.desired = m.desired
  BY <1>5 DEF Syncing, JobId
<1>7. CallsOK(u, m2, n2, P2, cmds, R2, Q)
  <2>1. \A g : FrameChat(u, m, g, Q) => FrameChat(u, m2, g, Q)
    BY <1>6 DEF FrameChat
  <2>2. \A c : RequestChat(u, m, c) => RequestChat(u, m2, c)
    BY DEF RequestChat
  <2>3. \A v : ReplyChat(u, m, v, Q) => ReplyChat(u, m2, v, Q)
    BY <1>6 DEF ReplyChat
  <2>4. \A k \in 1 .. Len(n2.out) : FrameChat(u, m2, n2.out[k], Q)
    BY <1>1, <1>2, <2>1 DEF CallsOK
  <2>5. \A k \in 1 .. Len(n2.req) : RequestChat(u, m2, n2.req[k])
    BY <1>2, <2>2 DEF CallsOK, Popped
  <2>6. \A v \in R2 : ReplyChat(u, m2, v, Q)
    <3>1. ASSUME NEW v \in R2, v.id = f.id, v.ok => f.t # "error" PROVE ReplyChat(u, m, v, Q)
      BY <1>3, <3>1 DEF FrameChat, ReplyChat
    <3> QED BY <1>2, <2>3, <3>1 DEF CallsOK, Returns
  <2> QED BY <1>2, <2>4, <2>5, <2>6 DEF CallsOK
<1>8. PlaceOK(n2, P2, cmds, R2, W)
  <2>1. \A i \in 1 .. Len(n.out) : \A j \in 1 .. Len(n.out) : n.out[i].id \in Id /\ n.out[i].id = n.out[j].id => i = j
    BY <1>2 DEF PlaceOK
  <2>2. \A i \in 1 .. Len(n2.out) : \A j \in 1 .. Len(n2.out) :
          n2.out[i].id \in Id /\ n2.out[i].id = n2.out[j].id => i = j
    <3>1. ASSUME NEW i \in 1 .. Len(n2.out), NEW j \in 1 .. Len(n2.out), n2.out[i].id \in Id, n2.out[i].id = n2.out[j].id
          PROVE  i = j
      <4>1. i + 1 = j + 1
        <5>1. i + 1 \in 1 .. Len(n.out) /\ n2.out[i] = n.out[i + 1] /\ j + 1 \in 1 .. Len(n.out) /\ n2.out[j] = n.out[j + 1]
          BY <1>1
        <5>2. n.out[i + 1].id \in Id /\ n.out[i + 1].id = n.out[j + 1].id
          BY <3>1, <5>1
        <5>3. PICK a \in 1 .. Len(n.out), b \in 1 .. Len(n.out) : a = i + 1 /\ b = j + 1
          BY <5>1
        <5>4. n.out[a].id \in Id /\ n.out[a].id = n.out[b].id
          BY <5>2, <5>3
        <5>5. a = b
          BY <2>1, <5>4
        <5> QED BY <5>3, <5>5
      <4> QED BY <4>1
    <3> QED BY <3>1
  <2>3. \A i \in 1 .. Len(n2.req) : \A j \in 1 .. Len(n2.req) :
          n2.req[i].id \in Id /\ n2.req[i].id = n2.req[j].id => i = j
    BY <1>2 DEF PlaceOK, Popped
  <2>4. \A i \in 1 .. Len(n.req) : \A j \in 1 .. Len(n.out) : n.req[i].id \in Id => n.req[i].id # n.out[j].id
    BY <1>2 DEF PlaceOK
  <2>5. \A i \in 1 .. Len(n2.req) : \A j \in 1 .. Len(n2.out) : n2.req[i].id \in Id => n2.req[i].id # n2.out[j].id
    BY <1>1, <2>4 DEF Popped
  <2>6. \A k \in 1 .. Len(cmds) : \A j \in 1 .. Len(n2.out) : cmds[k].op = "rpc" => cmds[k].call.id # n2.out[j].id
    <3>1. \A k \in 1 .. Len(cmds) : \A j \in 1 .. Len(n.out) : cmds[k].op = "rpc" => cmds[k].call.id # n.out[j].id
      BY <1>2 DEF PlaceOK
    <3> QED BY <1>1, <3>1
  <2>7. ASSUME NEW v \in R2
        PROVE  /\ \A i \in 1 .. Len(n2.req) : n2.req[i].id # v.id
               /\ \A j \in 1 .. Len(n2.out) : n2.out[j].id # v.id
               /\ \A p \in P2 : p.id # v.id
    <3>1. CASE v \in R
      BY <1>1, <1>2, <3>1 DEF PlaceOK, Popped
    <3>2. CASE v.id = f.id /\ v.id \in Id /\ \A p \in P2 : p.id # f.id
      <4>1. \A i \in 1 .. Len(n2.req) : n2.req[i].id # v.id
        BY <1>1, <2>4, <3>2 DEF Popped
      <4>2. ASSUME NEW j \in 1 .. Len(n2.out) PROVE n2.out[j].id # v.id
        <5>1. j + 1 \in 1 .. Len(n.out) /\ n2.out[j] = n.out[j + 1] /\ j + 1 # 1
          BY <1>1
        <5> QED BY <1>1, <2>1, <3>2, <5>1
      <4> QED BY <3>2, <4>1, <4>2
    <3> QED BY <3>1, <3>2 DEF Returns
  <2>8. \A k \in 1 .. Len(cmds) : cmds[k].op = "cancel" => cmds[k].id \notin W
    BY <1>2 DEF PlaceOK
  <2>9. ~ n2.up => n2.req = <<>> /\ ~ n2.sub
    BY <1>2 DEF PlaceOK, Popped
  <2> QED BY <2>2, <2>3, <2>5, <2>6, <2>7, <2>8, <2>9 DEF PlaceOK
<1>9. WalkOK(n2, m2)
  <2>1. \A k \in 1 .. Len(n2.out) : n2.out[k].t = "left" => n2.out[k].ws = None
    BY <1>1, <1>2 DEF WalkOK
  <2>2. ASSUME NEW k \in 1 .. Len(n2.out), n2.out[k].t = "changed", \A j \in 1 .. k - 1 : ~ MoveFrame(n2.out[j])
        PROVE  n2.out[k].ws = m2.desired
    <3>0. k + 1 \in 1 .. Len(n.out) /\ n2.out[k] = n.out[k + 1] /\ 1 < k + 1 /\ (k + 1) - 1 = k
      BY <1>1
    <3>1. CASE MoveFrame(f)
      BY <1>1, <1>2, <2>2, <3>0, <3>1 DEF WalkOK
    <3>2. CASE ~ MoveFrame(f)
      <4>1. ASSUME NEW j \in 1 .. (k + 1) - 1 PROVE ~ MoveFrame(n.out[j])
        <5>1. CASE j = 1
          BY <3>2, <5>1
        <5>2. CASE j # 1
          <6>1. j - 1 \in 1 .. k - 1 /\ j - 1 \in 1 .. Len(n2.out) /\ (j - 1) + 1 = j
            BY <5>2
          <6>2. n2.out[j - 1] = n.out[j]
            BY <1>1, <6>1
          <6> QED BY <2>2, <6>1, <6>2
        <5> QED BY <5>1, <5>2
      <4>2. n.out[k + 1].ws = m.desired
        BY <1>2, <2>2, <3>0, <4>1 DEF WalkOK
      <4> QED BY <3>0, <3>2, <4>2
    <3> QED BY <3>1, <3>2
  <2>3. ASSUME NEW j \in 1 .. Len(n2.out), NEW k \in 1 .. Len(n2.out), j < k, MoveFrame(n2.out[j]), n2.out[k].t = "changed"
        PROVE  n2.out[k].ws = n2.out[j].ws
    <3>1. j + 1 < k + 1
      BY <2>3
    <3>2. \A a \in 1 .. Len(n.out) : \A b \in 1 .. Len(n.out) :
            a < b /\ MoveFrame(n.out[a]) /\ n.out[b].t = "changed" => n.out[b].ws = n.out[a].ws
      BY <1>2 DEF WalkOK
    <3> QED BY <1>1, <2>3, <3>1, <3>2
  <2>4. n2.up /\ (\A k \in 1 .. Len(n2.out) : ~ MoveFrame(n2.out[k])) => n2.member = m2.desired
    <3>1. SUFFICES ASSUME n2.up, \A k \in 1 .. Len(n2.out) : ~ MoveFrame(n2.out[k]) PROVE n2.member = m2.desired
      OBVIOUS
    <3>2. CASE MoveFrame(f)
      BY <1>1, <1>2, <3>1, <3>2 DEF WalkOK, Popped
    <3>3. CASE ~ MoveFrame(f)
      <4>1. ASSUME NEW j \in 1 .. Len(n.out) PROVE ~ MoveFrame(n.out[j])
        <5>1. CASE j = 1
          BY <3>3, <5>1
        <5>2. CASE j # 1
          <6>0. Len(n2.out) = Len(n.out) - 1 /\ Len(n.out) \in Nat
            <7>1. n.out \in Seq(Frame)
              BY DEF Connection
            <7> QED BY <7>1 DEF Popped
          <6>1. j - 1 \in 1 .. Len(n2.out) /\ (j - 1) + 1 = j
            BY <5>2, <6>0
          <6>2. n2.out[j - 1] = n.out[j]
            BY <1>1, <6>1
          <6> QED BY <3>1, <6>1, <6>2
        <5> QED BY <5>1, <5>2
      <4> QED BY <1>2, <3>1, <3>3, <4>1 DEF WalkOK, Popped
    <3> QED BY <3>2, <3>3
  <2>5. n2.up => \A k \in 1 .. Len(n2.out) : MoveFrame(n2.out[k]) => n2.member = n2.out[k].ws
    BY <1>1, <1>2 DEF WalkOK, Popped
  <2> QED BY <2>1, <2>2, <2>3, <2>4, <2>5 DEF WalkOK
<1> QED BY <1>5, <1>7, <1>8, <1>9 DEF OpenChat

\* What the client steps share.
LEMMA ChatFacts ==
    ASSUME Inv, AckInv, ChatInv
    PROVE  /\ ui \in View /\ client \in Memory /\ net \in Connection /\ pending \in SUBSET PendingCall
           /\ commands \in Seq(Command) /\ replies \in SUBSET Value /\ UnsentOK(net, pending, commands)
           /\ ReplyAck(replies, commands) /\ DownAck(client, pending) /\ WaitOK(ui, waiting)
           /\ OpenChat(ui, client, net, pending, commands, replies, waiting, posted)
BY AckFacts DEF ChatInv

\* The pump ends with memory m.
LEMMA PumpEndsChat ==
    ASSUME Inv, AckInv, ChatInv, NEW m \in Memory, m.desired = client.desired, PumpEnds(m), UNCHANGED <<ui, commands, waiting, posted>>
    PROVE  ChatInv'
<1>1. OpenChat(ui, client, net, pending, commands, replies, waiting, posted)
  BY DEF ChatInv
<1>2. PICK d, R, n : d = client' /\ R = replies' /\ n = net'
  OBVIOUS
<1>3. n = Closed(<<>>) /\ pending' = {} /\ d = [m EXCEPT !.phase = "down", !.news = TRUE]
  BY <1>2 DEF PumpEnds
<1>4. d.desired = client.desired /\ d.phase = "down"
  BY <1>3 DEF Memory
<1>5. \A v \in R : v \in replies \/ (~ v.ok /\ ~ v.answered)
  BY <1>2 DEF PumpEnds, Deliver, Failed
<1>6. Among(commands, commands)
  BY DEF Among
<1>7. OpenChat(ui, d, n, {}, commands, R, waiting, posted)
  BY <1>1, <1>3, <1>4, <1>5, <1>6, EndedChat
<1> QED BY <1>2, <1>3, <1>7 DEF ChatInv

\* The pump reads the end of the stream.
LEMMA PumpEofChat == ASSUME Inv, AckInv, ChatInv, PumpEof, UNCHANGED ui PROVE ChatInv'
<1>1. client \in Memory /\ PumpEnds(client) /\ UNCHANGED <<ui, commands, waiting, posted>>
  BY Facts DEF PumpEof
<1> QED BY <1>1, PumpEndsChat

\* enqueue_event of the pump.
LEMMA EnqueueOrDisconnectChat ==
    ASSUME Inv, AckInv, ChatInv, net.out # <<>>, NEW m \in Memory, m.phase = "up", client.phase = "up",
           m.desired = client.desired, NEW f, f = Head(net.out), f.t \in {"event", "changed"},
           EnqueueOrDisconnect(m, f), UNCHANGED <<ui, commands, waiting, posted>>
    PROVE  ChatInv'
<1>1. net \in Connection /\ OpenChat(ui, client, net, pending, commands, replies, waiting, posted)
  BY ChatFacts
<1>2. ASSUME net' = [net EXCEPT !.out = Tail(@)], client'.desired = m.desired, client'.phase = m.phase,
             UNCHANGED <<pending, replies>>
      PROVE  ChatInv'
  <2>1. PICK n, d : n = net' /\ d = client'
    OBVIOUS
  <2>2. Popped(net, n)
    BY <1>1, <1>2, <2>1 DEF Popped, Connection
  <2>3. f = net.out[1]
    BY <1>1 DEF Connection
  <2>4. Returns(replies, replies, pending, f) /\ ~ MoveFrame(f) /\ pending \in SUBSET pending
    BY DEF Returns, MoveFrame
  <2>5. d.phase = "up" /\ d.desired = client.desired
    BY <1>2, <2>1
  <2>6. OpenChat(ui, d, n, pending, commands, replies, waiting, posted)
    BY <1>1, <2>2, <2>3, <2>4, <2>5, PoppedChat
  <2> QED BY <1>2, <2>1, <2>6 DEF ChatInv
<1>3. CASE AlreadyEnqueued(m, f)
  BY <1>2, <1>3 DEF EnqueueOrDisconnect
<1>4. CASE ~ AlreadyEnqueued(m, f) /\ Len(events) >= EventCap
  <2>1. PumpEnds(m)
    BY <1>4 DEF EnqueueOrDisconnect
  <2> QED BY <2>1, PumpEndsChat
<1>5. CASE ~ AlreadyEnqueued(m, f) /\ ~ Len(events) >= EventCap
  <2>1. client' = Remember(m, f) /\ net' = [net EXCEPT !.out = Tail(@)] /\ UNCHANGED <<pending, replies>>
    BY <1>5 DEF EnqueueOrDisconnect
  <2>2. client'.desired = m.desired /\ client'.phase = m.phase
    BY <2>1 DEF Remember, Memory
  <2> QED BY <1>2, <2>1, <2>2
<1> QED BY <1>3, <1>4, <1>5

\* The room after membership_changed.
LEMMA MembershipDesired ==
    ASSUME NEW m \in Memory, NEW w \in Room, NEW k \in Int, NEW r, r = MembershipChanged(m, w, k)
    PROVE  r \in Memory /\ r.desired = w /\ r.phase = m.phase
<1>1. r \in Memory /\ r.phase = m.phase
  BY MembershipRecedes
<1>2. PICK s \in Room : s = IF m.subscribed = w THEN m.subscribed ELSE None
  BY DEF Memory, Room
<1>3. [m EXCEPT !.subscribed = s, !.desired = w] \in Memory
  BY DEF Memory
<1>4. PICK f \in Memory : f = [m EXCEPT !.subscribed = s, !.desired = w]
  BY <1>3
<1>5. f = [m EXCEPT !.subscribed = IF @ = w THEN @ ELSE None, !.desired = w]
  BY <1>2, <1>4
<1>6. f.desired = w
  BY <1>4 DEF Memory
<1>7. r = IF w = None THEN f ELSE EntryOrInsert(f, w, k)
  BY <1>5 DEF MembershipChanged
<1>8. EntryOrInsert(f, w, k).desired = f.desired
  BY DEF EntryOrInsert, Memory
<1> QED BY <1>1, <1>6, <1>7, <1>8

\* What an answer does to the room the client remembers.
LEMMA ResponseDesired ==
    ASSUME Inv, NEW f \in Frame, FrameOK(f, log), NEW m, m = ResponseMemory(f)
    PROVE  /\ m \in Memory /\ m.phase = client.phase /\ (~ MoveFrame(f) => m.desired = client.desired)
           /\ f.t = "joined" => m.desired = f.ws
           /\ f.t = "left" => m.desired = None
<1>1. client \in Memory
  BY Facts
<1>2. m \in Memory /\ m.phase = client.phase
  BY ResponseRecedes
<1>3. CASE f.t = "joined"
  <2>1. PICK w \in Workspace : w = f.ws /\ w \in Room
    BY <1>3 DEF FrameOK, Frame, Room
  <2>2. [client EXCEPT !.desired = w] \in Memory
    BY <1>1, <2>1 DEF Memory
  <2>3. PICK r \in Memory : r = [client EXCEPT !.desired = w]
    BY <2>2
  <2>4. r.desired = w
    BY <1>1, <2>3 DEF Memory
  <2>5. m = EntryOrInsert(r, w, f.lo)
    BY <1>3, <2>1, <2>3 DEF ResponseMemory
  <2>6. m.desired = w
    BY <2>4, <2>5 DEF EntryOrInsert, Memory
  <2> QED BY <1>2, <1>3, <2>1, <2>6 DEF MoveFrame
<1>4. CASE f.t = "left"
  <2>1. m.desired = None
    BY <1>1, <1>4 DEF ResponseMemory, Memory
  <2> QED BY <1>2, <1>4, <2>1 DEF MoveFrame
<1>5. CASE f.t \notin {"joined", "left"}
  BY <1>2, <1>5 DEF ResponseMemory, MoveFrame
<1> QED BY <1>3, <1>4, <1>5

\* The pump takes an answer.
LEMMA PumpResponseChat ==
    ASSUME Inv, AckInv, ChatInv, client.phase = "up", net.out # <<>>, PumpResponse(Head(net.out)),
           UNCHANGED <<ui, commands, waiting, posted>>
    PROVE  ChatInv'
<1>1. /\ net \in Connection /\ client \in Memory /\ pending \in SUBSET PendingCall
      /\ OpenChat(ui, client, net, pending, commands, replies, waiting, posted)
  BY ChatFacts
<1>2. PICK f : f = Head(net.out)
  OBVIOUS
<1>3. f \in Frame /\ FrameOK(f, log) /\ f = net.out[1] /\ 1 \in 1 .. Len(net.out)
  <2>1. PICK n : n = [net EXCEPT !.out = Tail(@)]
    OBVIOUS
  <2>2. pending \in SUBSET pending
    OBVIOUS
  <2> QED BY <1>2, <2>1, <2>2, PopOK
<1>4. PICK call, m : call = {p \in pending : p.id = f.id} /\ m = ResponseMemory(f)
  OBVIOUS
<1>5. /\ m \in Memory /\ m.phase = client.phase /\ (~ MoveFrame(f) => m.desired = client.desired)
      /\ f.t = "joined" => m.desired = f.ws
      /\ f.t = "left" => m.desired = None
  BY <1>3, <1>4, ResponseDesired
<1>6. f.t = "left" => f.ws = None
  BY <1>1, <1>3 DEF OpenChat, WalkOK
<1>7. MoveFrame(f) => m.desired = f.ws
  BY <1>5, <1>6 DEF MoveFrame
<1>8. PICK d, n, P, R : d = client' /\ n = net' /\ P = pending' /\ R = replies'
  OBVIOUS
<1>9. P = pending \ call /\ n = [net EXCEPT !.out = Tail(@)] /\ P \in SUBSET pending
  BY <1>2, <1>4, <1>8 DEF PumpResponse
<1>10. Popped(net, n)
  BY <1>1, <1>9 DEF Popped, Connection
<1>11. d.desired = m.desired /\ d.phase = m.phase
  <2>1. d = m \/ \E p : d = CallEffect(m, p, f)
    BY <1>2, <1>4, <1>8 DEF PumpResponse
  <2>2. ASSUME NEW p, d = CallEffect(m, p, f) PROVE d.desired = m.desired /\ d.phase = m.phase
    BY <1>5, <2>2 DEF CallEffect, Memory
  <2> QED BY <2>1, <2>2
<1>12. Returns(replies, R, P, f)
  <2>1. ASSUME NEW v \in R, v \notin replies PROVE v = Answered(f) /\ call # {}
    BY <1>2, <1>4, <1>8, <2>1 DEF PumpResponse, Deliver
  <2>2. \A v : v = Answered(f) => v.id = f.id /\ (v.ok => f.t # "error")
    <3>1. PICK a : a = Answered(f)
      OBVIOUS
    <3>2. a.id = f.id /\ a.ok = (f.t # "error")
      BY <3>1 DEF Answered
    <3> QED BY <3>1, <3>2
  <2>3. call # {} => f.id \in Id
    BY <1>1, <1>4 DEF PendingCall
  <2>4. \A p \in P : p.id # f.id
    BY <1>4, <1>9
  <2> QED BY <2>1, <2>2, <2>3, <2>4 DEF Returns
<1>13. d.phase = "up" /\ (MoveFrame(f) => d.desired = f.ws) /\ (~ MoveFrame(f) => d.desired = client.desired)
  BY <1>5, <1>7, <1>11
<1>14. OpenChat(ui, d, n, P, commands, R, waiting, posted)
  BY <1>1, <1>3, <1>9, <1>10, <1>12, <1>13, PoppedChat
<1> QED BY <1>8, <1>14 DEF ChatInv

\* The pump takes a frame.
LEMMA PumpIncomingChat == ASSUME Inv, AckInv, ChatInv, PumpIncoming, UNCHANGED ui PROVE ChatInv'
<1>1. client.phase = "up" /\ net.out # <<>> /\ UNCHANGED <<ui, commands, waiting, posted>>
  BY DEF PumpIncoming
<1>2. client \in Memory /\ net \in Connection /\ OpenChat(ui, client, net, pending, commands, replies, waiting, posted)
  BY ChatFacts
<1>3. PICK f : f = Head(net.out)
  OBVIOUS
<1>4. f \in Frame /\ f = net.out[1] /\ 1 \in 1 .. Len(net.out)
  <2>1. PICK n : n = [net EXCEPT !.out = Tail(@)]
    OBVIOUS
  <2>2. pending \in SUBSET pending
    OBVIOUS
  <2> QED BY <1>1, <1>3, <2>1, <2>2, PopOK
<1>5. CASE f.t = "event" /\ EnqueueOrDisconnect(client, f)
  BY <1>1, <1>2, <1>3, <1>5, EnqueueOrDisconnectChat
<1>6. CASE f.t = "changed" /\ EnqueueOrDisconnect(MembershipChanged(client, f.ws, f.lo), f)
  <2>1. PICK w \in Room, k \in Int : w = f.ws /\ k = f.lo
    BY <1>4 DEF Frame
  <2>2. PICK m : m = MembershipChanged(client, w, k)
    OBVIOUS
  <2>3. m \in Memory /\ m.phase = "up" /\ m.desired = f.ws
    BY <1>1, <1>2, <2>1, <2>2, MembershipDesired
  <2>4. f.ws = client.desired
    <3>1. \A j \in 1 .. 1 - 1 : FALSE
      OBVIOUS
    <3> QED BY <1>1, <1>2, <1>4, <1>6, <3>1 DEF OpenChat, WalkOK
  <2>5. EnqueueOrDisconnect(m, f) /\ m.desired = client.desired
    BY <1>6, <2>1, <2>2, <2>3, <2>4
  <2> QED BY <1>1, <1>3, <1>6, <2>3, <2>5, EnqueueOrDisconnectChat
<1>7. CASE PumpResponse(f)
  BY <1>1, <1>3, <1>7, PumpResponseChat
<1> QED BY <1>3, <1>5, <1>6, <1>7 DEF PumpIncoming

\* A value no place of the wire mentions, for a call that got no answer.
Lost(n, P, v) ==
    /\ ~ v.ok /\ ~ v.answered
    /\ \A i \in 1 .. Len(n.req) : n.req[i].id # v.id
    /\ \A j \in 1 .. Len(n.out) : n.out[j].id # v.id
    /\ \A p \in P : p.id # v.id

\* A command is taken that sends nothing.
LEMMA QuietChat ==
    ASSUME NEW u, NEW m, NEW m2, NEW n, NEW P, NEW P2 \in SUBSET P, NEW cmds, NEW rest, NEW R, NEW R2, NEW W, NEW Q,
           OpenChat(u, m, n, P, cmds, R, W, Q), Among(rest, cmds), m2.phase = m.phase, m2.desired = m.desired,
           \A v \in R2 : v \in R \/ Lost(n, P2, v)
    PROVE  OpenChat(u, m2, n, P2, rest, R2, W, Q)
<1>1. CallsOK(u, m, n, P, cmds, R, Q) /\ PlaceOK(n, P, cmds, R, W) /\ WalkOK(n, m) /\ ShowOK(u, m.desired, Q)
  BY DEF OpenChat
<1>2. CallsOK(u, m2, n, P2, rest, R2, Q)
  <2>1. \A k \in 1 .. Len(rest) : rest[k].op = "rpc" => QueuedChat(u, rest[k].call)
    BY <1>1 DEF CallsOK, Among
  <2>2. \A k \in 1 .. Len(n.req) : RequestChat(u, m2, n.req[k])
    BY <1>1 DEF CallsOK, RequestChat
  <2>3. \A k \in 1 .. Len(n.out) : FrameChat(u, m2, n.out[k], Q)
    BY <1>1 DEF CallsOK, FrameChat
  <2>4. \A v \in R2 : ReplyChat(u, m2, v, Q)
    BY <1>1 DEF CallsOK, ReplyChat, Lost
  <2>5. \A p \in P2 : PendingChat(u, p)
    BY <1>1 DEF CallsOK
  <2> QED BY <2>1, <2>2, <2>3, <2>4, <2>5 DEF CallsOK
<1>3. PlaceOK(n, P2, rest, R2, W)
  <2>1. \A k \in 1 .. Len(rest) : rest[k].op = "cancel" => rest[k].id \notin W
    BY <1>1 DEF PlaceOK, Among
  <2>2. \A k \in 1 .. Len(rest) : \A j \in 1 .. Len(n.out) : rest[k].op = "rpc" => rest[k].call.id # n.out[j].id
    BY <1>1 DEF PlaceOK, Among
  <2>3. \A v \in R2 : /\ \A i \in 1 .. Len(n.req) : n.req[i].id # v.id
                      /\ \A j \in 1 .. Len(n.out) : n.out[j].id # v.id
                      /\ \A p \in P2 : p.id # v.id
    BY <1>1 DEF PlaceOK, Lost
  <2> QED BY <1>1, <2>1, <2>2, <2>3 DEF PlaceOK
<1>4. WalkOK(n, m2)
  BY <1>1 DEF WalkOK
<1> QED BY <1>1, <1>2, <1>3, <1>4 DEF OpenChat

\* The call c is sent, if the connection is up.
Pushed(n, n2, c) ==
    /\ n2.out = n.out /\ n2.up = n.up /\ n2.member = n.member /\ n2.sub = n.sub
    /\ n2.req = n.req \/ (n.up /\ n2.req = Append(n.req, c))

Joins(P, P2, c) ==
    \A q \in P2 : (q.id = c.id /\ q.kind = c.kind) \/ \E p \in P : q.id = p.id /\ q.kind = p.kind

\* Nothing but the queue mentions the call.
Alone(n, P, R, i) ==
    /\ i \in Id
    /\ \A p \in P : p.id # i
    /\ \A v \in R : v.id # i
    /\ \A k \in 1 .. Len(n.req) : n.req[k].id # i
    /\ \A k \in 1 .. Len(n.out) : n.out[k].id # i

\* The pump sends a call.
LEMMA PushedChat ==
    ASSUME NEW u, NEW m, NEW n \in Connection, NEW n2, NEW P, NEW P2, NEW cmds, NEW rest, NEW R, NEW W, NEW Q,
           NEW c \in Request, OpenChat(u, m, n, P, cmds, R, W, Q), QueuedChat(u, c), Alone(n, P, R, c.id),
           Among(rest, cmds), m.phase = "up", Pushed(n, n2, c), Joins(P, P2, c),
           \A k \in 1 .. Len(rest) : rest[k].op = "rpc" => rest[k].call.id # c.id
    PROVE  OpenChat(u, m, n2, P2, rest, R, W, Q)
<1>1. CallsOK(u, m, n, P, cmds, R, Q) /\ PlaceOK(n, P, cmds, R, W) /\ WalkOK(n, m) /\ ShowOK(u, m.desired, Q)
  BY DEF OpenChat
<1>2. \A k \in 1 .. Len(n2.req) :
        (k \in 1 .. Len(n.req) /\ n2.req[k] = n.req[k]) \/ (n2.req[k] = c /\ k = Len(n.req) + 1)
  <2>1. n.req \in Seq(Request)
    BY DEF Connection
  <2>2. CASE n2.req = n.req
    BY <2>2
  <2>3. CASE n2.req = Append(n.req, c)
    BY <2>1, <2>3
  <2> QED BY <2>2, <2>3 DEF Pushed
<1>3. CallsOK(u, m, n2, P2, rest, R, Q)
  <2>1. \A k \in 1 .. Len(rest) : rest[k].op = "rpc" => QueuedChat(u, rest[k].call)
    BY <1>1 DEF CallsOK, Among
  <2>2. \A k \in 1 .. Len(n2.req) : RequestChat(u, m, n2.req[k])
    <3>1. RequestChat(u, m, c)
      BY DEF QueuedChat, RequestChat
    <3> QED BY <1>1, <1>2, <3>1 DEF CallsOK
  <2>3. \A k \in 1 .. Len(n2.out) : FrameChat(u, m, n2.out[k], Q)
    BY <1>1 DEF CallsOK, Pushed
  <2>4. \A p \in P2 : PendingChat(u, p)
    <3>1. \A p \in P : PendingChat(u, p)
      BY <1>1 DEF CallsOK
    <3> QED BY <3>1 DEF Joins, PendingChat, QueuedChat
  <2> QED BY <1>1, <2>1, <2>2, <2>3, <2>4 DEF CallsOK
<1>4. PlaceOK(n2, P2, rest, R, W)
  <2>1. \A k \in 1 .. Len(rest) : rest[k].op = "cancel" => rest[k].id \notin W
    BY <1>1 DEF PlaceOK, Among
  <2>2. \A k \in 1 .. Len(rest) : \A j \in 1 .. Len(n2.out) : rest[k].op = "rpc" => rest[k].call.id # n2.out[j].id
    BY <1>1 DEF PlaceOK, Among, Pushed
  <2>3. \A v \in R : /\ \A i \in 1 .. Len(n2.req) : n2.req[i].id # v.id
                     /\ \A j \in 1 .. Len(n2.out) : n2.out[j].id # v.id
                     /\ \A p \in P2 : p.id # v.id
    <3>1. \A v \in R : v.id # c.id
      BY DEF Alone
    <3>2. \A v \in R : /\ \A i \in 1 .. Len(n.req) : n.req[i].id # v.id
                       /\ \A j \in 1 .. Len(n.out) : n.out[j].id # v.id
                       /\ \A p \in P : p.id # v.id
      BY <1>1 DEF PlaceOK
    <3>3. \A v \in R : \A p \in P2 : p.id # v.id
      BY <3>1, <3>2 DEF Joins
    <3> QED BY <1>2, <3>1, <3>2, <3>3 DEF Pushed
  <2>4. \A i \in 1 .. Len(n2.req) : \A j \in 1 .. Len(n2.req) :
          n2.req[i].id \in Id /\ n2.req[i].id = n2.req[j].id => i = j
    <3>1. \A i \in 1 .. Len(n.req) : n.req[i].id # c.id
      BY DEF Alone
    <3>2. \A i \in 1 .. Len(n.req) : \A j \in 1 .. Len(n.req) :
            n.req[i].id \in Id /\ n.req[i].id = n.req[j].id => i = j
      BY <1>1 DEF PlaceOK
    <3> QED BY <1>2, <3>1, <3>2
  <2>5. \A i \in 1 .. Len(n2.out) : \A j \in 1 .. Len(n2.out) :
          n2.out[i].id \in Id /\ n2.out[i].id = n2.out[j].id => i = j
    BY <1>1 DEF PlaceOK, Pushed
  <2>6. \A i \in 1 .. Len(n2.req) : \A j \in 1 .. Len(n2.out) : n2.req[i].id \in Id => n2.req[i].id # n2.out[j].id
    <3>1. \A j \in 1 .. Len(n.out) : n.out[j].id # c.id
      BY DEF Alone
    <3>2. \A i \in 1 .. Len(n.req) : \A j \in 1 .. Len(n.out) : n.req[i].id \in Id => n.req[i].id # n.out[j].id
      BY <1>1 DEF PlaceOK
    <3> QED BY <1>2, <3>1, <3>2 DEF Pushed
  <2>7. ~ n2.up => n2.req = <<>> /\ ~ n2.sub
    BY <1>1 DEF PlaceOK, Pushed
  <2> QED BY <2>1, <2>2, <2>3, <2>4, <2>5, <2>6, <2>7 DEF PlaceOK
<1>5. WalkOK(n2, m)
  BY <1>1 DEF WalkOK, Pushed
<1> QED BY <1>1, <1>3, <1>4, <1>5 DEF OpenChat

\* The first command is taken.
LEMMA TailChat ==
    ASSUME Inv, AckInv, ChatInv, commands # <<>>, NEW cmds, cmds = Tail(commands)
    PROVE  /\ Among(cmds, commands) /\ commands[1] \in Command /\ CommandOK(commands[1], log) /\ Head(commands) = commands[1]
           /\ commands[1].op = "cancel" => commands[1].id \notin waiting
           /\ commands[1].op = "rpc" =>
                /\ QueuedChat(ui, commands[1].call) /\ Alone(net, pending, replies, commands[1].call.id)
                /\ \A k \in 1 .. Len(cmds) : cmds[k].op = "rpc" => cmds[k].call.id # commands[1].call.id
<1>1. UnsentOK(net, pending, commands) /\ ReplyAck(replies, commands)
      /\ OpenChat(ui, client, net, pending, commands, replies, waiting, posted)
  BY ChatFacts
<1>2. /\ commands[1] \in Command /\ CommandOK(commands[1], log) /\ Head(commands) = commands[1] /\ 1 \in 1 .. Len(commands)
      /\ \A k \in 1 .. Len(cmds) : k + 1 \in 1 .. Len(commands) /\ cmds[k] = commands[k + 1]
  BY TailOK
<1>3. Among(cmds, commands)
  BY <1>2 DEF Among
<1>4. commands[1].op = "cancel" => commands[1].id \notin waiting
  BY <1>1, <1>2 DEF OpenChat, PlaceOK
<1>5. ASSUME commands[1].op = "rpc"
      PROVE  /\ QueuedChat(ui, commands[1].call) /\ Alone(net, pending, replies, commands[1].call.id)
             /\ \A k \in 1 .. Len(cmds) : cmds[k].op = "rpc" => cmds[k].call.id # commands[1].call.id
  <2>1. PICK i : i = commands[1].call.id
    OBVIOUS
  <2>2. i \in Id
    BY <1>2, <1>5, <2>1 DEF CommandOK
  <2>3. (\A p \in pending : p.id # i) /\ (\A k \in 1 .. Len(net.req) : net.req[k].id # i)
    BY <1>1, <1>2, <1>5, <2>1 DEF UnsentOK
  <2>4. \A v \in replies : v.id # i
    BY <1>1, <1>2, <1>5, <2>1 DEF ReplyAck
  <2>5. \A k \in 1 .. Len(net.out) : net.out[k].id # i
    BY <1>1, <1>2, <1>5, <2>1 DEF OpenChat, PlaceOK
  <2>6. QueuedChat(ui, commands[1].call)
    BY <1>1, <1>2, <1>5 DEF OpenChat, CallsOK
  <2>7. ASSUME NEW k \in 1 .. Len(cmds), cmds[k].op = "rpc" PROVE cmds[k].call.id # i
    <3>1. k + 1 \in 1 .. Len(commands) /\ cmds[k] = commands[k + 1] /\ k + 1 # 1
      BY <1>2
    <3>2. \A l \in 1 .. Len(commands) : commands[l].op = "rpc" /\ l # 1 => commands[l].call.id # i
      BY <1>1, <1>2, <1>5, <2>1 DEF UnsentOK
    <3> QED BY <2>7, <3>1, <3>2
  <2>8. Alone(net, pending, replies, i)
    BY <2>2, <2>3, <2>4, <2>5 DEF Alone
  <2> QED BY <2>1, <2>6, <2>7, <2>8
<1> QED BY <1>2, <1>3, <1>4, <1>5

\* The pump drops a call; no caller of a leave has gone.
LEMMA PumpCancelChat ==
    ASSUME Inv, AckInv, ChatInv, commands # <<>>, commands[1].op = "cancel", PumpCancel(commands[1].id),
           commands' = Tail(commands), UNCHANGED <<ui, waiting, posted>>
    PROVE  ChatInv'
<1>1. /\ pending \in SUBSET PendingCall /\ WaitOK(ui, waiting)
      /\ OpenChat(ui, client, net, pending, commands, replies, waiting, posted)
  BY ChatFacts
<1>2. PICK cmds, i : cmds = Tail(commands) /\ i = commands[1].id
  OBVIOUS
<1>3. Among(cmds, commands) /\ i \notin waiting
  BY <1>2, TailChat
<1>4. PICK call : call = {p \in pending : p.id = i}
  OBVIOUS
<1>5. ASSUME NEW p \in call PROVE p.kind # "leave"
  <2>1. SUFFICES ASSUME p.kind = "leave" PROVE FALSE
    OBVIOUS
  <2>2. p \in pending /\ p.id = i
    BY <1>4
  <2>3. PendingChat(ui, p)
    BY <1>1, <2>2 DEF OpenChat, CallsOK
  <2>4. i # None /\ ui.act # None /\ ui.act.id = i
    BY <2>1, <2>2, <2>3 DEF PendingChat, Own, Exclusive
  <2>5. JobId(ui.act) = i
    BY <2>4 DEF JobId
  <2>6. i \in waiting
    BY <1>1, <2>4, <2>5 DEF WaitOK
  <2> QED BY <1>3, <2>6
<1>6. PICK P : P = pending'
  OBVIOUS
<1>7. P \in SUBSET pending /\ UNCHANGED <<client, net, replies>>
  BY <1>2, <1>4, <1>5, <1>6 DEF PumpCancel
<1>8. OpenChat(ui, client, net, P, cmds, replies, waiting, posted)
  BY <1>1, <1>3, <1>7, QuietChat
<1> QED BY <1>2, <1>6, <1>7, <1>8 DEF ChatInv

\* The calls that are pending once c is sent.
LEMMA SendRpcJoins ==
    ASSUME pending \in SUBSET PendingCall, NEW c, SendRpc(c)
    PROVE  Joins(pending, pending', c)
<1>1. PICK entry : entry = [id |-> c.id, kind |-> c.kind, after |-> c.after, latest |-> SubscriptionCall(c),
                            ws |-> IF SubscriptionCall(c) THEN client.desired ELSE None]
  OBVIOUS
<1>2. pending' = (IF SubscriptionCall(c) THEN {[p EXCEPT !.latest = FALSE] : p \in pending} ELSE pending) \cup {entry}
  BY <1>1 DEF SendRpc
<1>3. entry.id = c.id /\ entry.kind = c.kind
  BY <1>1
<1>4. ASSUME NEW q \in pending'
      PROVE  (q.id = c.id /\ q.kind = c.kind) \/ \E p \in pending : q.id = p.id /\ q.kind = p.kind
  <2>1. CASE q = entry
    BY <1>3, <2>1
  <2>2. CASE SubscriptionCall(c) /\ q # entry
    <3>1. PICK p \in pending : q = [p EXCEPT !.latest = FALSE]
      BY <1>2, <1>4, <2>2
    <3>2. q.id = p.id /\ q.kind = p.kind
      BY <3>1 DEF PendingCall
    <3> QED BY <3>2
  <2>3. CASE ~ SubscriptionCall(c) /\ q # entry
    BY <1>2, <1>4, <2>3
  <2> QED BY <2>1, <2>2, <2>3
<1> QED BY <1>4 DEF Joins

\* The pump sends a call, or fails to.
LEMMA PumpRpcChat ==
    ASSUME Inv, AckInv, ChatInv, client.phase = "up", commands # <<>>, commands[1].op = "rpc", PumpRpc(commands[1].call),
           commands' = Tail(commands), UNCHANGED <<ui, waiting, posted>>
    PROVE  ChatInv'
<1>1. /\ net \in Connection /\ client \in Memory /\ pending \in SUBSET PendingCall
      /\ OpenChat(ui, client, net, pending, commands, replies, waiting, posted)
  BY ChatFacts
<1>2. PICK cmds, c : cmds = Tail(commands) /\ c = commands[1].call
  OBVIOUS
<1>3. /\ Among(cmds, commands) /\ commands[1] \in Command /\ QueuedChat(ui, c) /\ Alone(net, pending, replies, c.id)
      /\ \A k \in 1 .. Len(cmds) : cmds[k].op = "rpc" => cmds[k].call.id # c.id
  BY <1>2, TailChat
<1>4. c \in Request
  BY <1>2, <1>3 DEF Command
<1>5. CASE SendRpc(c) /\ net' = (IF net.up THEN [net EXCEPT !.req = Append(@, c)] ELSE net)
           /\ UNCHANGED <<client, replies>>
  <2>1. PICK n, P : n = net' /\ P = pending'
    OBVIOUS
  <2>2. Pushed(net, n, c)
    <3>1. CASE net.up
      <4>1. n = [net EXCEPT !.req = Append(net.req, c)]
        BY <1>5, <2>1, <3>1
      <4>2. n.req = Append(net.req, c) /\ n.out = net.out /\ n.up = net.up /\ n.member = net.member /\ n.sub = net.sub
        BY <1>1, <4>1 DEF Connection
      <4> QED BY <3>1, <4>2 DEF Pushed
    <3>2. CASE ~ net.up
      BY <1>5, <2>1, <3>2 DEF Pushed
    <3> QED BY <3>1, <3>2
  <2>3. Joins(pending, P, c)
    BY <1>1, <1>5, <2>1, SendRpcJoins
  <2>4. OpenChat(ui, client, n, P, cmds, replies, waiting, posted)
    BY <1>1, <1>3, <1>4, <2>2, <2>3, PushedChat
  <2> QED BY <1>2, <1>5, <2>1, <2>4 DEF ChatInv
<1>6. CASE /\ client' = [client EXCEPT !.phase = "down", !.news = TRUE]
           /\ net' = Closed(<<>>) /\ pending' = {}
           /\ Deliver({Failed(p.id) : p \in pending} \cup {Failed(c.id)})
  <2>1. PICK d, R, n : d = client' /\ R = replies' /\ n = net'
    OBVIOUS
  <2>2. d.desired = client.desired /\ d.phase = "down" /\ n = Closed(<<>>)
    BY <1>1, <1>6, <2>1 DEF Memory
  <2>3. \A v \in R : v \in replies \/ (~ v.ok /\ ~ v.answered)
    BY <1>6, <2>1 DEF Deliver, Failed
  <2>4. OpenChat(ui, d, n, {}, cmds, R, waiting, posted)
    BY <1>1, <1>3, <2>2, <2>3, EndedChat
  <2> QED BY <1>2, <1>6, <2>1, <2>4 DEF ChatInv
<1> QED BY <1>2, <1>5, <1>6 DEF PumpRpc

\* The memory after an acknowledgement.
LEMMA AdvanceDesired ==
    ASSUME Inv, NEW c \in Command, CommandOK(c, log), c.op = "ack", NEW d, d = AdvanceCursor(client, c.ws, c.seq)
    PROVE  d.phase = client.phase /\ d.desired = client.desired
<1>1. c.ws \in Workspace /\ c.seq \in Int /\ c.seq <= log[c.ws]
  BY DEF Command, CommandOK
<1>2. PICK w \in Workspace, k \in Int : w = c.ws /\ k = c.seq
  BY <1>1
<1>3. k <= log[w] /\ d = AdvanceCursor(client, w, k)
  BY <1>1, <1>2
<1> QED BY <1>3, AdvanceOK

\* The pump takes a command.
LEMMA PumpCommandChat == ASSUME Inv, AckInv, ChatInv, PumpCommand, UNCHANGED ui PROVE ChatInv'
<1>1. client.phase = "up" /\ commands # <<>> /\ commands' = Tail(commands) /\ UNCHANGED <<ui, waiting, posted>>
  BY DEF PumpCommand
<1>2. PICK cmds : cmds = Tail(commands)
  OBVIOUS
<1>3. Among(cmds, commands) /\ commands[1] \in Command /\ CommandOK(commands[1], log) /\ Head(commands) = commands[1]
  BY <1>1, <1>2, TailChat
<1>4. CASE commands[1].op = "rpc" /\ PumpRpc(commands[1].call)
  BY <1>1, <1>4, PumpRpcChat
<1>5. CASE commands[1].op = "cancel" /\ PumpCancel(commands[1].id)
  BY <1>1, <1>5, PumpCancelChat
<1>6. CASE commands[1].op = "ack" /\ client' = AdvanceCursor(client, commands[1].ws, commands[1].seq)
           /\ UNCHANGED <<net, pending, replies>>
  <2>1. PICK d : d = client'
    OBVIOUS
  <2>2. d.phase = client.phase /\ d.desired = client.desired
    BY <1>3, <1>6, <2>1, AdvanceDesired
  <2>3. OpenChat(ui, client, net, pending, commands, replies, waiting, posted) /\ pending \in SUBSET pending
    BY ChatFacts
  <2>4. OpenChat(ui, d, net, pending, cmds, replies, waiting, posted)
    BY <1>3, <2>2, <2>3, QuietChat
  <2> QED BY <1>1, <1>2, <1>6, <2>1, <2>4 DEF ChatInv
<1> QED BY <1>3, <1>4, <1>5, <1>6 DEF PumpCommand

\* A command while the client is not connected: a call fails.
LEMMA DisconnectedChat == ASSUME Inv, AckInv, ChatInv, DisconnectedCommand, UNCHANGED ui PROVE ChatInv'
<1>1. commands # <<>> /\ commands' = Tail(commands) /\ UNCHANGED <<ui, waiting, posted, net, pending>>
  BY DEF DisconnectedCommand
<1>2. PICK cmds, c : cmds = Tail(commands) /\ c = commands[1]
  OBVIOUS
<1>3. /\ Among(cmds, commands) /\ c \in Command /\ CommandOK(c, log) /\ Head(commands) = c
      /\ c.op = "rpc" => Alone(net, pending, replies, c.call.id)
  BY <1>1, <1>2, TailChat
<1>4. PICK d, R : d = client' /\ R = replies'
  OBVIOUS
<1>5. d.phase = client.phase /\ d.desired = client.desired
  <2>1. CASE c.op = "ack"
    <3>1. d = AdvanceCursor(client, c.ws, c.seq)
      BY <1>3, <1>4, <2>1 DEF DisconnectedCommand
    <3> QED BY <1>3, <2>1, <3>1, AdvanceDesired
  <2>2. CASE c.op # "ack"
    BY <1>3, <1>4, <2>2 DEF DisconnectedCommand
  <2> QED BY <2>1, <2>2
<1>6. ASSUME NEW v \in R, v \notin replies PROVE Lost(net, pending, v)
  <2>1. c.op = "rpc" /\ v = Failed(c.call.id)
    BY <1>3, <1>4, <1>6 DEF DisconnectedCommand, Deliver
  <2>2. v.id = c.call.id /\ ~ v.ok /\ ~ v.answered
    BY <2>1 DEF Failed
  <2>3. Alone(net, pending, replies, v.id)
    BY <1>3, <2>1, <2>2
  <2> QED BY <2>2, <2>3 DEF Alone, Lost
<1>7. OpenChat(ui, client, net, pending, commands, replies, waiting, posted) /\ pending \in SUBSET pending
  BY ChatFacts
<1>8. OpenChat(ui, d, net, pending, cmds, R, waiting, posted)
  BY <1>3, <1>5, <1>6, <1>7, QuietChat
<1> QED BY <1>1, <1>2, <1>4, <1>8 DEF ChatInv

-----------------------------------------------------------------------------
(* The restoration.                                                           *)

\* Frames are taken, none arrives.
Shorter(n, n2) == n2.out = n.out \/ (n.out # <<>> /\ n2.out = Tail(n.out)) \/ n2.out = <<>>

\* Only the restoration itself asks.
Asked(n, n2) ==
    \A k \in 1 .. Len(n2.req) : (k \in 1 .. Len(n.req) /\ n2.req[k] = n.req[k]) \/ n2.req[k].id = RestoreId

\* A connection in the room the client remembers, with nothing of an action on it.
Ready(n, m) ==
    /\ n.req = <<>> /\ (n.up => n.member = m.desired)
    /\ \A k \in 1 .. Len(n.out) : /\ n.out[k].t \in {"changed", "page", "event"}
                                  /\ n.out[k].t = "changed" => n.out[k].ws = m.desired

\* The frames that are left.
LEMMA ShorterFrames ==
    ASSUME NEW n \in Connection, NEW n2, Shorter(n, n2)
    PROVE  \E s \in {0, 1} : \A k \in 1 .. Len(n2.out) : k + s \in 1 .. Len(n.out) /\ n2.out[k] = n.out[k + s]
<1>1. CASE n2.out = n.out
  <2>1. \A k \in 1 .. Len(n2.out) : k + 0 \in 1 .. Len(n.out) /\ n2.out[k] = n.out[k + 0]
    BY <1>1
  <2> QED BY <2>1
<1>2. CASE n.out # <<>> /\ n2.out = Tail(n.out)
  <2>1. n.out \in Seq(Frame)
    BY DEF Connection
  <2>2. \A k \in 1 .. Len(n2.out) : k + 1 \in 1 .. Len(n.out) /\ n2.out[k] = n.out[k + 1]
    BY <1>2, <2>1
  <2> QED BY <2>2
<1>3. CASE n2.out = <<>>
  <2>1. Len(n2.out) = 0
    BY <1>3
  <2> QED BY <2>1
<1> QED BY <1>1, <1>2, <1>3 DEF Shorter

\* A step of the restoration.
LEMMA RestoringOpen ==
    ASSUME NEW u \in View, NEW m, NEW m2, NEW n \in Connection, NEW n2, NEW cmds, NEW R \in SUBSET Value, NEW W, NEW Q,
           OpenChat(u, m, n, {}, cmds, R, W, Q), m2.desired = m.desired, m2.phase # "down", Shorter(n, n2), Asked(n, n2),
           ~ n2.up => n2.req = <<>> /\ ~ n2.sub, m2.phase = "up" => Ready(n2, m2)
    PROVE  OpenChat(u, m2, n2, {}, cmds, R, W, Q)
<1>1. CallsOK(u, m, n, {}, cmds, R, Q) /\ PlaceOK(n, {}, cmds, R, W) /\ ShowOK(u, m.desired, Q)
  BY DEF OpenChat
<1>2. PICK s \in {0, 1} : \A k \in 1 .. Len(n2.out) : k + s \in 1 .. Len(n.out) /\ n2.out[k] = n.out[k + s]
  BY ShorterFrames
<1>3. RestoreId \notin Id /\ s \in Int
  BY FeedAssumption
<1>4. CallsOK(u, m2, n2, {}, cmds, R, Q)
  <2>1. ASSUME NEW k \in 1 .. Len(n2.req) PROVE RequestChat(u, m2, n2.req[k])
    <3>1. m2.phase # "up"
      <4>1. SUFFICES ASSUME m2.phase = "up" PROVE FALSE
        OBVIOUS
      <4>2. n2.req = <<>>
        BY <4>1 DEF Ready
      <4>3. Len(n2.req) = 0
        BY <4>2
      <4> QED BY <4>3
    <3>2. CASE k \in 1 .. Len(n.req) /\ n2.req[k] = n.req[k]
      BY <1>1, <3>1, <3>2 DEF CallsOK, RequestChat
    <3>3. CASE n2.req[k].id = RestoreId
      <4>1. ~ Posting(u, RestoreId)
        <5>1. u.act # None => u.act.id \in Id \cup {None}
          BY DEF View, Action
        <5> QED BY <1>3, <5>1 DEF Posting, InStep
      <4> QED BY <3>1, <3>3, <4>1 DEF RequestChat
    <3> QED BY <3>2, <3>3 DEF Asked
  <2>2. ASSUME NEW k \in 1 .. Len(n2.out) PROVE FrameChat(u, m2, n2.out[k], Q)
    <3>1. FrameChat(u, m, n2.out[k], Q)
      BY <1>1, <1>2 DEF CallsOK
    <3>2. m2.phase = "up" => n2.out[k].t \in {"changed", "page", "event"}
      BY DEF Ready
    <3> QED BY <3>1, <3>2 DEF FrameChat
  <2>3. \A v \in R : ReplyChat(u, m2, v, Q)
    BY <1>1 DEF CallsOK, ReplyChat
  <2> QED BY <1>1, <2>1, <2>2, <2>3 DEF CallsOK
<1>5. PlaceOK(n2, {}, cmds, R, W)
  <2>1. \A i \in 1 .. Len(n2.req) : \A j \in 1 .. Len(n2.req) :
          n2.req[i].id \in Id /\ n2.req[i].id = n2.req[j].id => i = j
    <3>1. \A i \in 1 .. Len(n.req) : \A j \in 1 .. Len(n.req) :
            n.req[i].id \in Id /\ n.req[i].id = n.req[j].id => i = j
      BY <1>1 DEF PlaceOK
    <3> QED BY <1>3, <3>1 DEF Asked
  <2>2. ASSUME NEW i \in 1 .. Len(n2.out), NEW j \in 1 .. Len(n2.out), n2.out[i].id \in Id, n2.out[i].id = n2.out[j].id
        PROVE  i = j
    <3>1. \A a \in 1 .. Len(n.out) : \A b \in 1 .. Len(n.out) : n.out[a].id \in Id /\ n.out[a].id = n.out[b].id => a = b
      BY <1>1 DEF PlaceOK
    <3>2. i + s = j + s
      BY <1>2, <2>2, <3>1
    <3> QED BY <1>3, <3>2
  <2>3. \A i \in 1 .. Len(n2.req) : \A j \in 1 .. Len(n2.out) : n2.req[i].id \in Id => n2.req[i].id # n2.out[j].id
    <3>1. \A i \in 1 .. Len(n.req) : \A j \in 1 .. Len(n.out) : n.req[i].id \in Id => n.req[i].id # n.out[j].id
      BY <1>1 DEF PlaceOK
    <3> QED BY <1>2, <1>3, <3>1 DEF Asked
  <2>4. \A k \in 1 .. Len(cmds) : \A j \in 1 .. Len(n2.out) : cmds[k].op = "rpc" => cmds[k].call.id # n2.out[j].id
    <3>1. \A k \in 1 .. Len(cmds) : \A j \in 1 .. Len(n.out) : cmds[k].op = "rpc" => cmds[k].call.id # n.out[j].id
      BY <1>1 DEF PlaceOK
    <3> QED BY <1>2, <3>1
  <2>5. \A v \in R : /\ \A i \in 1 .. Len(n2.req) : n2.req[i].id # v.id
                     /\ \A j \in 1 .. Len(n2.out) : n2.out[j].id # v.id
    <3>1. \A v \in R : v.id \in Id
      BY DEF Value
    <3>2. \A v \in R : /\ \A i \in 1 .. Len(n.req) : n.req[i].id # v.id
                       /\ \A j \in 1 .. Len(n.out) : n.out[j].id # v.id
      BY <1>1 DEF PlaceOK
    <3>3. \A v \in R : \A i \in 1 .. Len(n2.req) : n2.req[i].id # v.id
      BY <1>3, <3>1, <3>2 DEF Asked
    <3>4. \A v \in R : \A j \in 1 .. Len(n2.out) : n2.out[j].id # v.id
      BY <1>2, <3>2
    <3> QED BY <3>3, <3>4
  <2>6. \A k \in 1 .. Len(cmds) : cmds[k].op = "cancel" => cmds[k].id \notin W
    BY <1>1 DEF PlaceOK
  <2> QED BY <2>1, <2>2, <2>3, <2>4, <2>5, <2>6 DEF PlaceOK
<1>6. WalkOK(n2, m2)
  <2>1. CASE m2.phase # "up"
    BY <2>1 DEF WalkOK
  <2>2. CASE m2.phase = "up"
    <3>1. Ready(n2, m2)
      BY <2>2
    <3>2. \A k \in 1 .. Len(n2.out) : n2.out[k].t # "left" /\ ~ MoveFrame(n2.out[k])
      BY <3>1 DEF Ready, MoveFrame
    <3>3. \A k \in 1 .. Len(n2.out) : n2.out[k].t = "changed" => n2.out[k].ws = m2.desired
      BY <3>1 DEF Ready
    <3>4. n2.up => n2.member = m2.desired
      BY <3>1 DEF Ready
    <3> QED BY <2>2, <3>2, <3>3, <3>4 DEF WalkOK
  <2> QED BY <2>1, <2>2
<1> QED BY <1>1, <1>4, <1>5, <1>6 DEF OpenChat

\* The same, of the state.
LEMMA RestoringChat ==
    ASSUME Inv, AckInv, ChatInv, client.phase # "up", NEW d, d = client', NEW n, n = net', d.desired = client.desired,
           d.phase # "down", Shorter(net, n), Asked(net, n), ~ n.up => n.req = <<>> /\ ~ n.sub, d.phase = "up" => Ready(n, d),
           UNCHANGED <<ui, commands, waiting, pending, replies, posted>>
    PROVE  ChatInv'
<1>1. /\ ui \in View /\ net \in Connection /\ replies \in SUBSET Value /\ DownAck(client, pending)
      /\ OpenChat(ui, client, net, pending, commands, replies, waiting, posted)
  BY ChatFacts
<1>2. pending = {}
  BY <1>1 DEF DownAck
<1>3. OpenChat(ui, client, net, {}, commands, replies, waiting, posted)
  BY <1>1, <1>2
<1>4. OpenChat(ui, d, n, {}, commands, replies, waiting, posted)
  BY <1>1, <1>3, RestoringOpen
<1> QED BY <1>2, <1>4 DEF ChatInv

\* A connection that is down has no request on it.
LEMMA DownNet ==
    ASSUME ChatInv
    PROVE  /\ ~ net.up => net.req = <<>> /\ ~ net.sub
           /\ client.phase = "down" => net.req = <<>> /\ net.out = <<>>
BY DEF ChatInv, OpenChat, PlaceOK, WalkOK

\* The restoration is given up.
LEMMA AbandonChat == ASSUME Inv, AckInv, ChatInv, RestoreLost \/ RestoreExpired, UNCHANGED ui PROVE ChatInv'
<1>1. client.phase # "up" /\ UNCHANGED <<ui, commands, waiting, pending, replies, posted>> /\ Abandon
  BY DEF RestoreLost, RestoreExpired, Abandon
<1>2. /\ client \in Memory /\ DownAck(client, pending)
      /\ OpenChat(ui, client, net, pending, commands, replies, waiting, posted)
  BY ChatFacts
<1>3. pending = {}
  BY <1>1, <1>2 DEF DownAck
<1>4. PICK d, n : d = client' /\ n = net'
  OBVIOUS
<1>5. d.phase = "down" /\ d.desired = client.desired /\ n = Closed(<<>>)
  BY <1>1, <1>2, <1>4 DEF Abandon, Memory
<1>6. Among(commands, commands) /\ \A v \in replies : v \in replies \/ (~ v.ok /\ ~ v.answered)
  BY DEF Among
<1>7. OpenChat(ui, d, n, {}, commands, replies, waiting, posted)
  BY <1>2, <1>5, <1>6, EndedChat
<1> QED BY <1>1, <1>3, <1>4, <1>7 DEF ChatInv

\* A new connection.
LEMMA ConnectChat == ASSUME Inv, AckInv, ChatInv, Connect, UNCHANGED ui PROVE ChatInv'
<1>1. client.phase = "down" /\ UNCHANGED <<ui, commands, waiting, pending, replies, posted>> /\ client \in Memory
  BY Facts DEF Connect
<1>2. PICK d, n, fresh : d = client' /\ n = net' /\ fresh = [Closed(<<>>) EXCEPT !.up = TRUE]
  OBVIOUS
<1>3. fresh.req = <<>> /\ fresh.out = <<>> /\ fresh.up = TRUE /\ fresh.member = None
  BY <1>2 DEF Closed
<1>4. CASE client.desired = None
  <2>1. n = fresh /\ d = [client EXCEPT !.phase = "up", !.news = TRUE]
    BY <1>2, <1>4 DEF Connect, Connected
  <2>2. d.phase = "up" /\ d.desired = client.desired
    BY <1>1, <2>1 DEF Memory
  <2>3. Len(n.out) = 0 /\ Len(n.req) = 0 /\ n.out = <<>>
    BY <1>3, <2>1
  <2>4. Shorter(net, n) /\ Asked(net, n) /\ Ready(n, d)
    BY <1>3, <1>4, <2>1, <2>2, <2>3 DEF Shorter, Asked, Ready
  <2>5. ~ n.up => n.req = <<>> /\ ~ n.sub
    BY <1>3, <2>1
  <2> QED BY <1>1, <1>2, <2>2, <2>4, <2>5, RestoringChat
<1>5. CASE client.desired # None
  <2>1. PICK r : r = RestoreCall("join", client.desired, 0)
    OBVIOUS
  <2>2. r.id = RestoreId
    BY <2>1 DEF RestoreCall
  <2>3. n = [fresh EXCEPT !.req = <<r>>] /\ d = [client EXCEPT !.phase = "joining"]
    BY <1>2, <1>5, <2>1 DEF Connect
  <2>4. n.req = <<r>> /\ n.out = <<>> /\ n.up = TRUE
    BY <1>2, <1>3, <2>3 DEF Closed
  <2>5. d.phase = "joining" /\ d.desired = client.desired
    BY <1>1, <2>3 DEF Memory
  <2>6. Len(n.req) = 1 /\ n.req[1] = r
    BY <2>4
  <2>7. Asked(net, n) /\ Shorter(net, n)
    BY <2>2, <2>4, <2>6 DEF Asked, Shorter
  <2> QED BY <1>1, <1>2, <2>4, <2>5, <2>7, RestoringChat
<1> QED BY <1>4, <1>5

\* A frame of a restoring connection is taken.
LEMMA RestorePopped ==
    ASSUME Inv, ChatInv, net.out # <<>>, NEW n, n = [net EXCEPT !.out = Tail(@)]
    PROVE  /\ Shorter(net, n) /\ Asked(net, n) /\ (~ n.up => n.req = <<>> /\ ~ n.sub) /\ n \in Connection
           /\ n.up = net.up /\ n.member = net.member /\ n.sub = net.sub /\ n.req = net.req /\ n.out = Tail(net.out)
           /\ 1 \in 1 .. Len(net.out) /\ Head(net.out) = net.out[1] /\ Head(net.out) \in Frame
           /\ \A i \in 1 .. Len(n.out) : i + 1 \in 1 .. Len(net.out) /\ n.out[i] = net.out[i + 1]
<1>1. pending \in SUBSET pending
  OBVIOUS
<1>2. /\ n \in Connection /\ n.up = net.up /\ n.member = net.member /\ n.sub = net.sub /\ n.req = net.req
      /\ 1 \in 1 .. Len(net.out) /\ Head(net.out) = net.out[1] /\ Head(net.out) \in Frame
      /\ \A i \in 1 .. Len(n.out) : i + 1 \in 1 .. Len(net.out) /\ n.out[i] = net.out[i + 1]
  BY <1>1, PopOK
<1>3. net \in Connection
  BY Facts
<1>4. n.out = Tail(net.out)
  BY <1>3 DEF Connection
<1>5. Shorter(net, n) /\ Asked(net, n)
  BY <1>2, <1>4 DEF Shorter, Asked
<1>6. ~ n.up => n.req = <<>> /\ ~ n.sub
  BY <1>2, DownNet
<1> QED BY <1>2, <1>4, <1>5, <1>6

\* The restoration subscribes, if its connection is up.
LEMMA ResubscribeChat ==
    ASSUME NEW k \in Connection, NEW row \in Connection, NEW w, NEW after, NEW n, n = Resubscribe(row, w, after),
           Shorter(k, row), row.req = k.req, ~ row.up => row.req = <<>> /\ ~ row.sub
    PROVE  Shorter(k, n) /\ Asked(k, n) /\ (~ n.up => n.req = <<>> /\ ~ n.sub)
<1>1. PICK r : r = RestoreCall("subscribe", w, after)
  OBVIOUS
<1>2. r.id = RestoreId
  BY <1>1 DEF RestoreCall
<1>3. row.req \in Seq(Request)
  BY DEF Connection
<1>4. CASE row.up
  <2>1. n = [row EXCEPT !.req = Append(row.req, r)]
    BY <1>1, <1>4 DEF Resubscribe
  <2>2. n.req = Append(row.req, r) /\ n.out = row.out /\ n.up = row.up
    BY <2>1 DEF Connection
  <2>3. \A i \in 1 .. Len(n.req) : (i \in 1 .. Len(row.req) /\ n.req[i] = row.req[i]) \/ n.req[i] = r
    <3>1. PICK s : s = Append(row.req, r)
      OBVIOUS
    <3>2. Len(s) = Len(row.req) + 1 /\ s[Len(row.req) + 1] = r /\ \A i \in 1 .. Len(row.req) : s[i] = row.req[i]
      BY <1>3, <3>1
    <3>3. \A i \in 1 .. Len(s) : i \in 1 .. Len(row.req) \/ i = Len(row.req) + 1
      BY <1>3, <3>2
    <3> QED BY <2>2, <3>1, <3>2, <3>3
  <2>4. Asked(k, n)
    BY <1>2, <2>3 DEF Asked
  <2> QED BY <1>4, <2>2, <2>4 DEF Shorter
<1>5. CASE ~ row.up
  <2>1. n = [row EXCEPT !.req = row.req]
    BY <1>5 DEF Resubscribe
  <2>2. n.req = row.req /\ n.out = row.out /\ n.up = row.up /\ n.sub = row.sub
    BY <2>1 DEF Connection
  <2> QED BY <1>5, <2>2 DEF Shorter, Asked
<1> QED BY <1>4, <1>5

\* A notice during a restoration names the room the client remembers.
LEMMA RestoreNoticeChat == ASSUME Inv, AckInv, ChatInv, RestoreNotice, UNCHANGED ui PROVE ChatInv'
<1>1. /\ client.phase \in {"joining", "restoring"} /\ net.out # <<>> /\ client \in Memory
      /\ net' = [net EXCEPT !.out = Tail(@)] /\ UNCHANGED <<ui, commands, waiting, pending, replies, posted>>
  BY Facts DEF RestoreNotice
<1>2. PICK d, n, f : d = client' /\ n = net' /\ f = Head(net.out)
  OBVIOUS
<1>3. /\ Shorter(net, n) /\ Asked(net, n) /\ (~ n.up => n.req = <<>> /\ ~ n.sub)
      /\ 1 \in 1 .. Len(net.out) /\ f = net.out[1] /\ f \in Frame
  BY <1>1, <1>2, RestorePopped
<1>4. f.t = "changed" /\ d = MembershipChanged(client, f.ws, f.lo)
  BY <1>2 DEF RestoreNotice
<1>5. f.ws = client.desired
  <2>1. RestoreOK(net, client, log)
    BY Facts
  <2> QED BY <1>1, <1>3, <1>4, <2>1 DEF RestoreOK, JoinShape, PageShape
<1>6. PICK w \in Room, k \in Int : w = f.ws /\ k = f.lo
  BY <1>3 DEF Frame
<1>7. d = MembershipChanged(client, w, k)
  BY <1>4, <1>6
<1>8. d.desired = client.desired /\ d.phase = client.phase
  BY <1>1, <1>5, <1>6, <1>7, MembershipDesired
<1>9. client.phase # "up" /\ d.phase # "down" /\ (d.phase = "up" => Ready(n, d))
  BY <1>1, <1>8
<1> QED BY <1>1, <1>2, <1>3, <1>8, <1>9, RestoringChat

\* The room is joined again.
LEMMA RestoreJoinedChat == ASSUME Inv, AckInv, ChatInv, RestoreJoined, UNCHANGED ui PROVE ChatInv'
<1>1. /\ client.phase = "joining" /\ net.out # <<>> /\ client \in Memory /\ net \in Connection
      /\ UNCHANGED <<ui, commands, waiting, pending, replies, posted>> /\ RestoreOK(net, client, log)
  BY Facts DEF RestoreJoined
<1>2. PICK d, n, row : d = client' /\ n = net' /\ row = [net EXCEPT !.out = Tail(@)]
  OBVIOUS
<1>3. /\ Shorter(net, row) /\ Asked(net, row) /\ (~ row.up => row.req = <<>> /\ ~ row.sub) /\ row \in Connection
      /\ row.up = net.up /\ row.member = net.member /\ row.req = net.req
      /\ \A i \in 1 .. Len(row.out) : i + 1 \in 1 .. Len(net.out) /\ row.out[i] = net.out[i + 1]
  BY <1>1, <1>2, RestorePopped
<1>4. CASE n = row /\ d = Connected(client)
  <2>1. d.phase = "up" /\ d.desired = client.desired
    BY <1>1, <1>4 DEF Connected, Memory
  <2>2. JoinShape(net, client)
    BY <1>1 DEF RestoreOK
  <2>3. net.up => net.req = <<>> /\ net.member = client.desired
    BY <1>1, <2>2 DEF JoinShape
  <2>4. n.req = <<>> /\ (n.up => n.member = d.desired)
    BY <1>3, <1>4, <2>1, <2>3
  <2>5. ASSUME NEW i \in 1 .. Len(n.out) PROVE n.out[i].t = "changed" /\ n.out[i].ws = d.desired
    <3>1. i + 1 \in 1 .. Len(net.out) /\ n.out[i] = net.out[i + 1] /\ i + 1 # 1
      BY <1>3, <1>4
    <3>2. \A j \in 1 .. Len(net.out) : j # 1 => net.out[j].t = "changed" /\ net.out[j].ws = client.desired
      BY <2>2 DEF JoinShape
    <3> QED BY <2>1, <3>1, <3>2
  <2>6. Ready(n, d)
    BY <2>4, <2>5 DEF Ready
  <2>7. Shorter(net, n) /\ Asked(net, n) /\ (~ n.up => n.req = <<>> /\ ~ n.sub)
    BY <1>3, <1>4
  <2> QED BY <1>1, <1>2, <2>1, <2>6, <2>7, RestoringChat
<1>5. ASSUME NEW after, n = Resubscribe(row, client.desired, after), d = [client EXCEPT !.phase = "restoring"]
      PROVE  ChatInv'
  <2>1. d.phase = "restoring" /\ d.desired = client.desired
    BY <1>1, <1>5 DEF Memory
  <2>2. Shorter(net, n) /\ Asked(net, n) /\ (~ n.up => n.req = <<>> /\ ~ n.sub)
    BY <1>1, <1>3, <1>5, ResubscribeChat
  <2> QED BY <1>1, <1>2, <2>1, <2>2, RestoringChat
<1> QED BY <1>2, <1>4, <1>5 DEF RestoreJoined

\* The page of the restoration is taken.
LEMMA RestorePageChat == ASSUME Inv, AckInv, ChatInv, RestorePage, UNCHANGED ui PROVE ChatInv'
<1>1. /\ client.phase = "restoring" /\ net.out # <<>> /\ client \in Memory /\ net \in Connection
      /\ UNCHANGED <<ui, commands, waiting, pending, replies, posted>> /\ RestoreOK(net, client, log)
      /\ net' = [net EXCEPT !.out = Tail(@)]
  BY Facts DEF RestorePage
<1>2. PICK d, n, f : d = client' /\ n = net' /\ f = Head(net.out)
  OBVIOUS
<1>3. /\ Shorter(net, n) /\ Asked(net, n) /\ (~ n.up => n.req = <<>> /\ ~ n.sub)
      /\ n.up = net.up /\ n.member = net.member /\ n.req = net.req
      /\ 1 \in 1 .. Len(net.out) /\ f = net.out[1]
      /\ \A i \in 1 .. Len(n.out) : i + 1 \in 1 .. Len(net.out) /\ n.out[i] = net.out[i + 1]
  BY <1>1, <1>2, RestorePopped
<1>4. f.t = "page"
  BY <1>2 DEF RestorePage
<1>5. CASE d = Connected(client)
  <2>1. d.phase = "up" /\ d.desired = client.desired
    BY <1>1, <1>5 DEF Connected, Memory
  <2>2. PageShape(net, client, log)
    BY <1>1 DEF RestoreOK
  <2>3. net.up => net.req = <<>> /\ net.member = client.desired
    <3>1. net.up /\ net.req # <<>> => \A i \in 1 .. Len(net.out) : net.out[i].t = "changed"
      BY <2>2 DEF PageShape
    <3>2. net.up => net.member = client.desired
      BY <2>2 DEF PageShape
    <3>3. net.out[1].t # "changed"
      BY <1>3, <1>4
    <3> QED BY <1>3, <3>1, <3>2, <3>3
  <2>4. n.req = <<>> /\ (n.up => n.member = d.desired)
    BY <1>3, <2>1, <2>3
  <2>5. ASSUME NEW i \in 1 .. Len(n.out) PROVE n.out[i].t = "event"
    <3>1. i + 1 \in 1 .. Len(net.out) /\ n.out[i] = net.out[i + 1] /\ 1 \in 1 .. (i + 1) - 1
      BY <1>3
    <3>2. PageFrame(net, i + 1)
      BY <2>2, <3>1 DEF PageShape
    <3>3. PICK j : j = i + 1 /\ 1 \in 1 .. j - 1 /\ PageFrame(net, j) /\ n.out[i] = net.out[j]
      BY <3>1, <3>2
    <3>4. net.out[j].t \in {"changed", "page"} => net.out[1].t = "changed"
      BY <3>3 DEF PageFrame
    <3>5. net.out[j].t \in {"changed", "page", "event"}
      BY <3>3 DEF PageFrame
    <3> QED BY <1>3, <1>4, <3>3, <3>4, <3>5
  <2>6. Ready(n, d)
    BY <2>4, <2>5 DEF Ready
  <2> QED BY <1>1, <1>2, <1>3, <2>1, <2>6, RestoringChat
<1>6. ASSUME NEW p, d = [client EXCEPT !.phase = "replaying", !.page = p] PROVE ChatInv'
  <2>1. d.phase = "replaying" /\ d.desired = client.desired
    BY <1>1, <1>6 DEF Memory
  <2> QED BY <1>1, <1>2, <1>3, <2>1, RestoringChat
<1> QED BY <1>2, <1>5, <1>6 DEF RestorePage

\* The page is replayed.
LEMMA RestoreEventChat == ASSUME Inv, AckInv, ChatInv, RestoreEvent, UNCHANGED ui PROVE ChatInv'
<1>1. client.phase = "replaying" /\ client \in Memory /\ UNCHANGED <<ui, commands, waiting, pending, replies, posted, net>>
  BY Facts DEF RestoreEvent
<1>2. PICK d, m, f : d = client' /\ m = [client EXCEPT !.page.lo = @ + 1]
                     /\ f = EventFrame(client.page.ws, client.page.lo + 1)
  OBVIOUS
<1>3. m.desired = client.desired /\ m.phase = client.phase
  BY <1>1, <1>2 DEF Memory
<1>4. d = m \/ d = [m EXCEPT !.highest[f.ws] = f.lo]
  BY <1>2 DEF RestoreEvent, Remember
<1>5. d.desired = client.desired /\ d.phase = "replaying"
  BY <1>1, <1>2, <1>3, <1>4 DEF Memory
<1>6. Shorter(net, net) /\ Asked(net, net) /\ (~ net.up => net.req = <<>> /\ ~ net.sub)
  BY DownNet DEF Shorter, Asked
<1>7. PICK n : n = net' /\ n = net
  BY <1>1
<1>8. Shorter(net, n) /\ Asked(net, n) /\ (~ n.up => n.req = <<>> /\ ~ n.sub)
  BY <1>6, <1>7
<1> QED BY <1>1, <1>2, <1>5, <1>7, <1>8, RestoringChat

\* The page is done: the client is connected, or asks for the next one.
LEMMA RestorePageDoneChat == ASSUME Inv, AckInv, ChatInv, RestorePageDone, UNCHANGED ui PROVE ChatInv'
<1>1. /\ client.phase = "replaying" /\ client \in Memory /\ net \in Connection
      /\ UNCHANGED <<ui, commands, waiting, pending, replies, posted>> /\ RestoreOK(net, client, log)
  BY Facts DEF RestorePageDone
<1>2. PICK d, n : d = client' /\ n = net'
  OBVIOUS
<1>3. Shorter(net, net) /\ Asked(net, net) /\ (~ net.up => net.req = <<>> /\ ~ net.sub)
  BY DownNet DEF Shorter, Asked
<1>4. CASE client.page.live
  <2>1. d = [Connected(client) EXCEPT !.page = EmptyPage] /\ n = net
    BY <1>2, <1>4 DEF RestorePageDone
  <2>2. d.phase = "up" /\ d.desired = client.desired
    BY <1>1, <2>1 DEF Connected, Memory
  <2>3. ReplayShape(net, client)
    BY <1>1 DEF RestoreOK
  <2>4. Ready(n, d)
    BY <1>3, <2>1, <2>2, <2>3 DEF Ready, ReplayShape
  <2>5. Shorter(net, n) /\ Asked(net, n) /\ (~ n.up => n.req = <<>> /\ ~ n.sub)
    BY <1>3, <2>1
  <2> QED BY <1>1, <1>2, <2>2, <2>4, <2>5, RestoringChat
<1>5. CASE ~ client.page.live
  <2>1. d = [client EXCEPT !.phase = "restoring", !.page = EmptyPage] /\ n = Resubscribe(net, client.page.ws, client.page.hi)
    BY <1>2, <1>5 DEF RestorePageDone
  <2>2. d.phase = "restoring" /\ d.desired = client.desired
    BY <1>1, <2>1 DEF Memory
  <2>3. PICK w, hi : w = client.page.ws /\ hi = client.page.hi
    OBVIOUS
  <2>4. n = Resubscribe(net, w, hi)
    BY <2>1, <2>3
  <2>5. Shorter(net, n) /\ Asked(net, n) /\ (~ n.up => n.req = <<>> /\ ~ n.sub)
    BY <1>1, <1>3, <2>4, ResubscribeChat
  <2> QED BY <1>1, <1>2, <2>2, <2>5, RestoringChat
<1> QED BY <1>4, <1>5

\* Every step of the client.
LEMMA ClientChat == ASSUME Inv, AckInv, ChatInv, ClientStep, UNCHANGED ui PROVE ChatInv'
BY PumpCommandChat, PumpIncomingChat, PumpEofChat, DisconnectedChat, ConnectChat, RestoreNoticeChat, RestoreJoinedChat,
   RestorePageChat, RestoreEventChat, RestorePageDoneChat, AbandonChat DEF ClientStep, ClientProgress

-----------------------------------------------------------------------------
(* The chat is open only in the room it was written in.                       *)

\* A console that has said nothing.
LEMMA InitChat == Init => ChatInv
<1> SUFFICES ASSUME Init PROVE ChatInv
  OBVIOUS
<1>1. FeedInit
  BY DEF Init
<1>2. net.req = <<>> /\ net.out = <<>> /\ net.up = TRUE /\ net.member = None
  <2>1. Closed(<<>>) \in Connection
    BY DEF Closed, Connection, Room
  <2>2. PICK c \in Connection : c = Closed(<<>>)
    BY <2>1
  <2>3. c.req = <<>> /\ c.out = <<>> /\ c.member = None
    BY <2>2 DEF Closed
  <2>4. net = [c EXCEPT !.up = TRUE]
    BY <1>1, <2>2 DEF FeedInit
  <2> QED BY <2>3, <2>4 DEF Connection
<1>3. client.desired = None /\ client.phase = "up"
  BY <1>1 DEF FeedInit
<1>4. pending = {} /\ replies = {} /\ commands = <<>> /\ posted = {}
  BY <1>1 DEF FeedInit
<1>5. Len(commands) = 0 /\ Len(net.req) = 0 /\ Len(net.out) = 0
  BY <1>2, <1>4
<1>6. /\ ui.synced = FALSE /\ ui.switching = None /\ ui.restore = None /\ ui.act = None
      /\ ui.chat = "idle" /\ ui.posts = 0
  BY DEF Init
<1>7. ShowOK(ui, client.desired, posted)
  <2>1. SwitchOK(ui)
    BY <1>6 DEF SwitchOK, InStep
  <2>2. ~ Chatting(ui)
    BY <1>6 DEF Chatting, InStep
  <2> QED BY <1>4, <1>6, <2>1, <2>2 DEF ShowOK
<1>8. CallsOK(ui, client, net, pending, commands, replies, posted)
  BY <1>4, <1>5 DEF CallsOK
<1>9. PlaceOK(net, pending, commands, replies, waiting)
  BY <1>2, <1>4, <1>5 DEF PlaceOK
<1>10. WalkOK(net, client)
  BY <1>2, <1>3, <1>5 DEF WalkOK
<1> QED BY <1>7, <1>8, <1>9, <1>10 DEF ChatInv, OpenChat

\* Every step of the router, the client, the controller and the user.
LEMMA NextChat == Inv /\ Inv' /\ AckInv /\ ChatInv /\ [Next]_vars => ChatInv'
<1> SUFFICES ASSUME Inv, Inv', AckInv, ChatInv, [Next]_vars PROVE ChatInv'
  OBVIOUS
<1>1. CASE RouterStep /\ UNCHANGED ui
  BY <1>1, RouterChat
<1>2. CASE ClientStep /\ UNCHANGED ui
  BY <1>2, ClientChat
<1>3. CASE Controller
  BY <1>3, TakeEventChat, ObserveChat, SendOfTasksChat, ContinuesChat, SyncDoneChat, RecentDoneChat, SwitchDoneChat,
     ChatDoneChat DEF Controller
<1>4. CASE User
  BY <1>4, SubmitChatChat, RecentHistoryChat, SelectChat DEF User
<1>5. CASE UNCHANGED vars
  <2>1. UNCHANGED <<net, client, pending, commands, replies, waiting, posted, ui>>
    BY <1>5 DEF vars, feedVars
  <2> QED BY <2>1 DEF ChatInv
<1> QED BY <1>1, <1>2, <1>3, <1>4, <1>5 DEF Next

\* A set whose members are all equal is empty or has one.
LEMMA ChatOnce == ChatInv => ChatStoredOnce
<1> SUFFICES ASSUME ChatInv PROVE Cardinality(posted) <= 1
  BY DEF ChatStoredOnce
<1>1. \A p \in posted : \A q \in posted : p = q
  BY DEF ChatInv, OpenChat, ShowOK
<1>2. CASE posted = {}
  BY <1>2, FS_EmptySet
<1>3. CASE posted # {}
  <2>1. PICK p : p \in posted
    BY <1>3
  <2>2. posted = {p}
    BY <1>1, <2>1
  <2>3. Cardinality({p}) = 1
    BY FS_Singleton
  <2> QED BY <2>2, <2>3
<1> QED BY <1>2, <1>3

\* What the composer has let go is in the log.
LEMMA ChatSettled == ChatInv => SettledChatIsStored
BY DEF ChatInv, OpenChat, ShowOK, SettledChatIsStored

\* While a chat is open the connection stays in the room it was written in, whatever is
\* cut, replayed, retried or still on its way (begin_switch, workspace_post, pump,
\* restore_subscription, Composer::retry).
THEOREM AlwaysChatInv == Spec => []ChatInv
BY InitChat, NextChat, AlwaysInv, AlwaysAckInv, PTL DEF Spec

\* However often the uncertain outcome of a chat is retried over new connections, the
\* router stores it once (workspace_post, Composer::retry).
THEOREM ChatIsStoredOnce == Spec => []ChatStoredOnce
BY AlwaysChatInv, ChatOnce, PTL

\* The composer gives a chat up only once the log has it: no answer of another call and no
\* answer of an earlier connection settles it (wire_done, apply_event).
THEOREM SettledIsStored == Spec => []SettledChatIsStored
BY AlwaysChatInv, ChatSettled, PTL

-----------------------------------------------------------------------------
(* The live view.                                                             *)
(*                                                                            *)
(* A view is made live by the last page of a subscription that began on the   *)
(* present connection (Steady: a connection is one only once the console has  *)
(* seen it).  The calls go through one queue in order, so that no other       *)
(* subscription call is left when the answer arrives (Tracked); from then on  *)
(* the newest event of the room is applied, or in the channel, or on the      *)
(* link, where the client does not drop it as an old one (Coming).  The       *)
(* events before it need no account: without them it is a gap.                *)

\* The Sync read waits for the answer to its subscription i, and nothing outdates it.
Tracked(u, i) ==
    /\ i # None /\ u.sync # None /\ u.sync.id = i /\ u.sync.step = "subscribe"
    /\ ~ u.sync.fenced /\ ~ u.sync.gapped

SubCommand(c) == c.op = "rpc" /\ SubscriptionCall(c.call)

FreeQueue(cmds) == \A k \in 1 .. Len(cmds) : ~ SubCommand(cmds[k])

NoSubs(cmds, n) == FreeQueue(cmds) /\ \A k \in 1 .. Len(n.req) : ~ SubscriptionCall(n.req[k])

NoUnsubs(cmds, n) ==
    /\ \A k \in 1 .. Len(cmds) : ~ IsCall(cmds[k], "unsubscribe")
    /\ \A k \in 1 .. Len(n.req) : n.req[k].kind # "unsubscribe"

\* The event x of w is on the link, behind the frame k.
OnWire(n, w, x, k) ==
    x > 0 /\ \E j \in 1 .. Len(n.out) : j > k /\ n.out[j].t = "event" /\ n.out[j].ws = w /\ n.out[j].lo = x

InChannel(ev, w, x) == \E k \in 1 .. Len(ev) : ev[k].ws = w /\ ev[k].seq = x

\* The event x of w will reach the view.
Coming(n, m, ev, w, x) == InChannel(ev, w, x) \/ (OnWire(n, w, x, 0) /\ m.highest[w] < x)

LiveAt(n, cmds, w) == w # None /\ w = n.member /\ n.sub /\ NoSubs(cmds, n)

Shown(u, m, n, cmds, ev, l) ==
    u.synced /\ n.member = u.ws =>
        n.sub /\ NoUnsubs(cmds, n) /\ (u.applied = l[u.ws] \/ Coming(n, m, ev, u.ws, l[u.ws]))

QueuedSync(u, cmds) ==
    \A k \in 1 .. Len(cmds) : cmds[k].op = "rpc" /\ Tracked(u, cmds[k].call.id) =>
        cmds[k].call.kind = "subscribe" /\ \A j \in 1 .. Len(cmds) : j > k => ~ SubCommand(cmds[j])

SentSync(u, n, cmds) ==
    \A k \in 1 .. Len(n.req) : Tracked(u, n.req[k].id) =>
        /\ n.req[k].kind = "subscribe" /\ FreeQueue(cmds)
        /\ \A j \in 1 .. Len(n.req) : j > k => ~ SubscriptionCall(n.req[j])

FrameSync(u, n, cmds, l) ==
    \A k \in 1 .. Len(n.out) : Tracked(u, n.out[k].id) /\ n.out[k].live =>
        /\ n.out[k].t = "page" /\ LiveAt(n, cmds, n.out[k].ws)
        /\ n.out[k].hi = l[n.out[k].ws] \/ OnWire(n, n.out[k].ws, l[n.out[k].ws], k)

PendingSync(u, m, P, cmds) ==
    \A p \in P : Tracked(u, p.id) => p.latest /\ p.kind = "subscribe" /\ p.ws = m.desired /\ FreeQueue(cmds)

\* An event that overtakes the answer is applied before it, or is a gap.
ReplySync(u, m, n, cmds, R, ev, l) ==
    \A v \in R : Tracked(u, v.id) /\ v.live =>
        /\ LiveAt(n, cmds, v.ws)
        /\ v.ws = u.ws => v.hi = l[v.ws] \/ u.applied = l[v.ws] \/ Coming(n, m, ev, v.ws, l[v.ws])

LiveOK(u, m, n, P, cmds, R, ev, l) ==
    /\ Shown(u, m, n, cmds, ev, l)
    /\ QueuedSync(u, cmds) /\ SentSync(u, n, cmds) /\ FrameSync(u, n, cmds, l)
    /\ PendingSync(u, m, P, cmds) /\ ReplySync(u, m, n, cmds, R, ev, l)

\* The connection is up, and the console has seen that.
Steady(u, m, n) == m.phase = "up" /\ ~ m.news /\ n.up /\ u.conn = "up"

\* A view that resets its subscription is not live.
ViewSync(u) ==
    /\ u.synced => u.ws # None /\ u.applied >= 0
    /\ u.reset => ~ u.synced /\ (u.sync = None \/ u.sync.gapped)
    /\ u.sync # None /\ u.sync.step = "unsubscribe" => ~ u.synced

HighestOK(m, l) == \A w \in Workspace : m.highest[w] <= l[w]

SyncInv ==
    /\ ViewSync(ui) /\ HighestOK(client, log)
    /\ Steady(ui, client, net) => LiveOK(ui, client, net, pending, commands, replies, events, log)

-----------------------------------------------------------------------------
(* The view changes.                                                          *)

\* The read that is waited for is the same, or there is none.
Tracks(u, v) == \A i : Tracked(v, i) => Tracked(u, i)

\* A read without a call is waited for nowhere.
LEMMA TracksCases ==
    ASSUME NEW u, NEW v,
           \/ v.sync = u.sync \/ v.sync = None \/ v.sync.id = None \/ v.sync.fenced \/ v.sync.gapped
           \/ v.sync.step # "subscribe"
    PROVE  Tracks(u, v)
BY DEF Tracks, Tracked

\* A view that is not live and waits for no page.
LEMMA IdleLive ==
    ASSUME NEW u, NEW m, NEW n, NEW P, NEW cmds, NEW R, NEW ev, NEW l, ~ u.synced, \A i : ~ Tracked(u, i)
    PROVE  LiveOK(u, m, n, P, cmds, R, ev, l)
BY DEF LiveOK, Shown, QueuedSync, SentSync, FrameSync, PendingSync, ReplySync

\* The same room, the same read, and no less applied.
LEMMA ViewLive ==
    ASSUME NEW u, NEW v, NEW m, NEW n, NEW P, NEW cmds, NEW R, NEW S \in SUBSET R, NEW ev, NEW l,
           LiveOK(u, m, n, P, cmds, R, ev, l), Tracks(u, v), v.ws = u.ws, v.synced => u.synced,
           u.applied = l[u.ws] => v.applied = l[u.ws]
    PROVE  LiveOK(v, m, n, P, cmds, S, ev, l)
<1>1. Shown(v, m, n, cmds, ev, l)
  BY DEF LiveOK, Shown
<1>2. QueuedSync(v, cmds) /\ SentSync(v, n, cmds)
  BY DEF LiveOK, QueuedSync, SentSync, Tracks
<1>3. FrameSync(v, n, cmds, l)
  BY DEF LiveOK, FrameSync, Tracks
<1>4. PendingSync(v, m, P, cmds)
  BY DEF LiveOK, PendingSync, Tracks
<1>5. ReplySync(v, m, n, cmds, S, ev, l)
  BY DEF LiveOK, ReplySync, Tracks
<1> QED BY <1>1, <1>2, <1>3, <1>4, <1>5 DEF LiveOK

\* Commands that are not about the subscription go behind the others.
MoreQueued(u, cmds, more) ==
    \A k \in 1 .. Len(more) :
        \/ k \in 1 .. Len(cmds) /\ more[k] = cmds[k]
        \/ ~ SubCommand(more[k]) /\ (more[k].op = "rpc" => ~ Tracked(u, more[k].call.id))

\* They change nothing.
LEMMA MoreLive ==
    ASSUME NEW u, NEW m, NEW n, NEW P, NEW cmds, NEW more, NEW R, NEW ev, NEW l,
           LiveOK(u, m, n, P, cmds, R, ev, l), MoreQueued(u, cmds, more)
    PROVE  LiveOK(u, m, n, P, more, R, ev, l)
<1>1. FreeQueue(cmds) => FreeQueue(more)
  BY DEF FreeQueue, MoreQueued
<1>2. NoUnsubs(cmds, n) => NoUnsubs(more, n)
  BY DEF NoUnsubs, IsCall, MoreQueued, SubCommand, SubscriptionCall
<1>3. \A w : LiveAt(n, cmds, w) => LiveAt(n, more, w)
  BY <1>1 DEF LiveAt, NoSubs
<1>4. QueuedSync(u, more)
  BY DEF LiveOK, QueuedSync, MoreQueued
<1>5. SentSync(u, n, more)
  BY <1>1 DEF LiveOK, SentSync
<1>6. FrameSync(u, n, more, l)
  BY <1>3 DEF LiveOK, FrameSync
<1>7. PendingSync(u, m, P, more)
  BY <1>1 DEF LiveOK, PendingSync
<1>8. ReplySync(u, m, n, more, R, ev, l)
  BY <1>3 DEF LiveOK, ReplySync
<1>9. Shown(u, m, n, more, ev, l)
  BY <1>2 DEF LiveOK, Shown
<1> QED BY <1>4, <1>5, <1>6, <1>7, <1>8, <1>9 DEF LiveOK

\* What schedule does to the Sync read: nothing, or it starts one.
Starts(u, x) ==
    \/ x.sync = u.sync /\ x.reset = u.reset
    \/ /\ u.sync = None /\ x.sync.id = None /\ ~ x.reset
       /\ x.sync.step = "unsubscribe" => u.reset

\* schedule starts reads.
LEMMA ScheduleStarts ==
    ASSUME NEW u \in View
    PROVE  LET x == Schedule(u) IN
           /\ x.ws = u.ws /\ x.applied = u.applied /\ x.synced = u.synced /\ x.conn = u.conn /\ Starts(u, x)
<1>1. CASE u.conn # "up" \/ u.switching # None \/ u.ws = None
  BY <1>1 DEF Schedule, Starts
<1>2. CASE ~ (u.conn # "up" \/ u.switching # None \/ u.ws = None)
  <2>1. PICK s \in View : /\ s = StartRecent(u) /\ s.ws = u.ws /\ s.applied = u.applied /\ s.synced = u.synced
                          /\ s.conn = u.conn /\ s.sync = u.sync /\ s.reset = u.reset
    <3>1. PICK r \in Read : r = NewRead("history", u)
      BY NewReadOK
    <3>2. [u EXCEPT !.queued = @ \ {"Recent"}, !.recent = r] \in View
      BY DEF View
    <3>3. StartRecent(u) = u \/ StartRecent(u) = [u EXCEPT !.queued = @ \ {"Recent"}, !.recent = r]
      BY <3>1 DEF StartRecent
    <3> QED BY <3>2, <3>3 DEF View
  <2>2. PICK r : r = NewRead(IF s.reset THEN "unsubscribe" ELSE "subscribe", s)
    OBVIOUS
  <2>3. r.id = None /\ r.step = (IF s.reset THEN "unsubscribe" ELSE "subscribe")
    BY <2>2 DEF NewRead
  <2>4. PICK x : x = StartSync(s)
    OBVIOUS
  <2>5. \/ x = s
        \/ x = [s EXCEPT !.queued = @ \ {"Sync"}]
        \/ s.sync = None /\ x = [s EXCEPT !.queued = @ \ {"Sync"}, !.reset = FALSE, !.sync = r]
    BY <2>2, <2>4 DEF StartSync
  <2>7. x.ws = s.ws /\ x.applied = s.applied /\ x.synced = s.synced /\ x.conn = s.conn
    BY <2>5 DEF View
  <2>8. \/ x.sync = s.sync /\ x.reset = s.reset
        \/ s.sync = None /\ x.sync = r /\ ~ x.reset
    BY <2>5 DEF View
  <2>9. Starts(u, x)
    BY <2>1, <2>3, <2>8 DEF Starts
  <2>10. Schedule(u) = x
    BY <1>2, <2>1, <2>4 DEF Schedule
  <2> QED BY <2>1, <2>7, <2>9, <2>10
<1> QED BY <1>1, <1>2

\* A read that starts is not waited for yet, and resets only a view that is not live.
LEMMA StartsLive ==
    ASSUME NEW u, NEW x, ViewSync(u), Starts(u, x), x.ws = u.ws, x.applied = u.applied, x.synced = u.synced
    PROVE  ViewSync(x) /\ Tracks(u, x)
<1>1. ViewSync(x)
  BY DEF ViewSync, Starts
<1>2. x.sync = u.sync \/ x.sync.id = None
  BY DEF Starts
<1> QED BY <1>1, <1>2, TracksCases

\* The end of every handler.
LEMMA LoopLive ==
    ASSUME NEW u \in View, NEW m, NEW n, NEW P, NEW cmds \in Seq(Command), NEW R, NEW ev, NEW l, ViewSync(u),
           Steady(u, m, n) => LiveOK(u, m, n, P, cmds, R, ev, l), commands' \in Seq(Command), Loop(u, cmds)
    PROVE  ViewSync(ui') /\ (Steady(ui', m, n) => LiveOK(ui', m, n, P, commands', R, ev, l))
<1>1. PICK v \in View : v = IF Flushes(u, cmds) THEN [u EXCEPT !.ack = 0] ELSE u
  BY FlushedOK
<1>2. v.ws = u.ws /\ v.applied = u.applied /\ v.synced = u.synced /\ v.conn = u.conn /\ v.sync = u.sync /\ v.reset = u.reset
  BY <1>1 DEF View
<1>3. PICK x, more : x = ui' /\ more = commands'
  OBVIOUS
<1>4. x = Schedule(v)
  BY <1>1, <1>3 DEF Loop
<1>5. x.ws = v.ws /\ x.applied = v.applied /\ x.synced = v.synced /\ x.conn = v.conn /\ Starts(v, x)
  BY <1>4, ScheduleStarts
<1>6. ViewSync(v) /\ Starts(u, x)
  BY <1>2, <1>5 DEF ViewSync, Starts
<1>7. ViewSync(x) /\ Tracks(u, x)
  BY <1>2, <1>5, <1>6, StartsLive
<1>8. MoreQueued(x, cmds, more)
  <2>1. CASE ~ Flushes(u, cmds)
    BY <1>3, <2>1 DEF Loop, MoreQueued
  <2>2. CASE Flushes(u, cmds)
    <3>1. PICK c : c = Ack(u.ws, u.ack)
      OBVIOUS
    <3>2. c.op = "ack"
      BY <3>1 DEF Ack
    <3>3. more = Append(cmds, c)
      BY <1>3, <2>2, <3>1 DEF Loop
    <3> QED BY <3>2, <3>3 DEF MoreQueued, SubCommand
  <2> QED BY <2>1, <2>2
<1>9. Steady(x, m, n) => Steady(u, m, n)
  BY <1>2, <1>5 DEF Steady
<1>10. ASSUME LiveOK(u, m, n, P, cmds, R, ev, l) PROVE LiveOK(x, m, n, P, more, R, ev, l)
  <2>1. R \in SUBSET R
    OBVIOUS
  <2>2. LiveOK(x, m, n, P, cmds, R, ev, l)
    BY <1>2, <1>5, <1>7, <1>10, <2>1, ViewLive
  <2> QED BY <1>8, <2>2, MoreLive
<1> QED BY <1>3, <1>7, <1>9, <1>10

\* What the controller's steps leave alone.
LEMMA SyncFacts ==
    ASSUME Inv, AckInv, ChatInv, SyncInv
    PROVE  /\ ui \in View /\ client \in Memory /\ net \in Connection /\ commands \in Seq(Command) /\ events \in Seq(Notice)
           /\ replies \in SUBSET Value /\ pending \in SUBSET PendingCall /\ log \in [Workspace -> Nat]
           /\ ViewSync(ui) /\ HighestOK(client, log) /\ ViewOK(ui, log) /\ ViewAck(ui) /\ WaitOK(ui, waiting) /\ SwitchOK(ui)
           /\ Steady(ui, client, net) => LiveOK(ui, client, net, pending, commands, replies, events, log)
<1>1. ui \in View /\ client \in Memory /\ net \in Connection /\ commands \in Seq(Command) /\ events \in Seq(Notice)
      /\ replies \in SUBSET Value /\ pending \in SUBSET PendingCall /\ log \in [Workspace -> Nat]
  BY DEF Inv, TypeOK, FeedTypeOK, CommandsOK
<1>2. ViewOK(ui, log)
  BY DEF Inv, WithinLog
<1>3. ViewAck(ui) /\ WaitOK(ui, waiting)
  BY DEF AckInv, AckOK
<1>4. SwitchOK(ui)
  BY DEF ChatInv, OpenChat, ShowOK
<1> QED BY <1>1, <1>2, <1>3, <1>4 DEF SyncInv

\* A handler of the controller that leaves the connection alone.
LEMMA HandlerSync ==
    ASSUME Inv, Inv', SyncInv, UNCHANGED <<net, client, pending, log>>, NEW u \in View, ViewSync(u),
           Steady(u, client, net) => LiveOK(u, client, net, pending, commands, replies', events', log), Loop(u, commands)
    PROVE  SyncInv'
<1>1. commands \in Seq(Command) /\ commands' \in Seq(Command)
  BY DEF Inv, TypeOK, CommandsOK
<1>2. PICK R, ev : R = replies' /\ ev = events'
  OBVIOUS
<1>3. Steady(u, client, net) => LiveOK(u, client, net, pending, commands, R, ev, log)
  BY <1>2
<1>4. ViewSync(ui') /\ (Steady(ui', client, net) => LiveOK(ui', client, net, pending, commands', R, ev, log))
  BY <1>1, <1>3, LoopLive
<1> QED BY <1>2, <1>4 DEF SyncInv

-----------------------------------------------------------------------------
(* Events are applied.                                                        *)

\* The view resets its subscription, and whatever it read is out of date.
Resets(u, r) ==
    /\ ~ r.synced /\ (r.sync = None \/ r.sync.gapped) /\ r.applied = u.applied

\* Events are applied up to hi.
Advances(u, r, hi) ==
    /\ u.applied <= r.applied /\ hi <= r.applied /\ (r.applied = u.applied \/ r.applied = hi)
    /\ r.sync = u.sync /\ r.synced = u.synced /\ r.reset = u.reset

\* A gap is one of the events that outdate a read.
LEMMA GappedSync ==
    ASSUME NEW u \in View, ~ u.synced
    PROVE  LET r == Gapped(u) IN
           r.ws = u.ws /\ r.conn = u.conn /\ r.switching = u.switching /\ Resets(u, r) /\ ViewSync(r)
<1>1. PICK r : r = Gapped(u)
  OBVIOUS
<1>2. PICK v : v = Enqueue(u, "Sync")
  OBVIOUS
<1>3. PICK s : s = IF u.sync = None THEN None ELSE [u.sync EXCEPT !.gapped = TRUE]
  OBVIOUS
<1>4. v \in View /\ v.ws = u.ws /\ v.conn = u.conn /\ v.switching = u.switching /\ v.applied = u.applied /\ v.synced = u.synced
      /\ v.sync = u.sync
  BY <1>2 DEF Enqueue, View
<1>5. r = [v EXCEPT !.reset = TRUE, !.sync = s]
  BY <1>1, <1>2, <1>3, <1>4 DEF Gapped, View
<1>6. r.ws = v.ws /\ r.conn = v.conn /\ r.switching = v.switching /\ r.applied = v.applied /\ r.synced = v.synced /\ r.sync = s
  BY <1>4, <1>5 DEF View
<1>7. s = None \/ s.gapped
  <2>1. CASE u.sync = None
    BY <1>3, <2>1
  <2>2. CASE u.sync # None
    <3>1. u.sync \in Read
      BY <2>2 DEF View
    <3> QED BY <1>3, <2>2, <3>1 DEF Read
  <2> QED BY <2>1, <2>2
<1>8. Resets(u, r) /\ ViewSync(r)
  BY <1>4, <1>6, <1>7 DEF Resets, ViewSync
<1> QED BY <1>1, <1>4, <1>6, <1>8

\* apply_event: nothing of another room, a gap, or progress.
LEMMA ApplySync ==
    ASSUME NEW u \in View, ViewSync(u), NEW w, NEW lo \in Int, NEW hi \in Int
    PROVE  LET r == Apply(u, w, lo, hi) IN
           /\ r.ws = u.ws /\ r.conn = u.conn /\ r.switching = u.switching /\ ViewSync(r)
           /\ \/ r = u /\ (u.ws # w \/ lo = hi)
              \/ Resets(u, r) /\ (u.applied = Absent \/ lo > u.applied) /\ u.ws = w /\ lo # hi
              \/ Advances(u, r, hi) /\ u.ws = w
<1>1. CASE u.ws # w \/ lo = hi
  BY <1>1 DEF Apply
<1>2. CASE ~ (u.ws # w \/ lo = hi) /\ u.applied = Absent
  <2>1. Apply(u, w, lo, hi) = Gapped(u)
    BY <1>2 DEF Apply
  <2>2. ~ u.synced
    BY <1>2 DEF ViewSync, Absent
  <2> QED BY <1>2, <2>1, <2>2, GappedSync
<1>3. CASE ~ (u.ws # w \/ lo = hi) /\ u.applied # Absent /\ lo > u.applied
  <2>1. PICK v \in View : v = [u EXCEPT !.synced = FALSE]
    BY UnsyncedCalm
  <2>2. Apply(u, w, lo, hi) = Gapped(v)
    BY <1>3, <2>1 DEF Apply
  <2>3. ~ v.synced /\ v.ws = u.ws /\ v.conn = u.conn /\ v.switching = u.switching /\ v.applied = u.applied
    BY <2>1 DEF View
  <2>4. PICK r : r = Gapped(v)
    OBVIOUS
  <2>5. r.ws = v.ws /\ r.conn = v.conn /\ r.switching = v.switching /\ Resets(v, r) /\ ViewSync(r)
    BY <2>3, <2>4, GappedSync
  <2>6. Resets(u, r)
    BY <2>3, <2>5 DEF Resets
  <2> QED BY <1>3, <2>2, <2>3, <2>4, <2>5, <2>6
<1>4. CASE ~ (u.ws # w \/ lo = hi) /\ u.applied # Absent /\ ~ (lo > u.applied)
  <2>1. PICK a : a = Acknowledge(u, w, u.applied, hi)
    OBVIOUS
  <2>2. a = u \/ a = [u EXCEPT !.chat = "idle"]
    BY <2>1 DEF Acknowledge
  <2>3. a \in View /\ a.ws = u.ws /\ a.conn = u.conn /\ a.switching = u.switching /\ a.applied = u.applied /\ a.synced = u.synced
        /\ a.sync = u.sync /\ a.reset = u.reset
    BY <2>2 DEF View
  <2>4. PICK x, y : x = Max({a.applied, hi}) /\ y = Max({a.ack, hi})
    OBVIOUS
  <2>5. u.applied \in Int /\ x >= u.applied /\ x >= hi /\ (x = u.applied \/ x = hi)
    <3>1. u.applied \in Int
      BY DEF View
    <3> QED BY <2>3, <2>4, <3>1, MaxTwo
  <2>6. PICK r : r = [a EXCEPT !.applied = x, !.ack = y]
    OBVIOUS
  <2>7. Apply(u, w, lo, hi) = r
    BY <1>4, <2>1, <2>3, <2>4, <2>6 DEF Apply, View
  <2>8. r.ws = u.ws /\ r.conn = u.conn /\ r.switching = u.switching /\ r.applied = x /\ r.synced = u.synced
        /\ r.sync = u.sync /\ r.reset = u.reset
    BY <2>3, <2>6 DEF View
  <2>9. x >= u.applied /\ x >= hi /\ u.applied <= x /\ hi <= x /\ x \in Int
    BY <2>5
  <2>10. Advances(u, r, hi)
    BY <2>5, <2>8, <2>9 DEF Advances
  <2>11. ViewSync(r)
    BY <2>5, <2>8, <2>9 DEF ViewSync
  <2> QED BY <1>4, <2>7, <2>8, <2>10, <2>11
<1> QED BY <1>1, <1>2, <1>3, <1>4

\* A view that resets its subscription waits for no page.
LEMMA ResetIdle ==
    ASSUME NEW u, NEW r, Resets(u, r)
    PROVE  ~ r.synced /\ \A i : ~ Tracked(r, i)
BY DEF Resets, Tracked

\* The first event is taken from the channel.
LEMMA InTail ==
    ASSUME NEW ev \in Seq(Notice), ev # <<>>, NEW rest, rest = Tail(ev), NEW w, NEW x, InChannel(ev, w, x)
    PROVE  InChannel(rest, w, x) \/ (ev[1].ws = w /\ ev[1].seq = x)
<1>1. PICK k \in 1 .. Len(ev) : ev[k].ws = w /\ ev[k].seq = x
  BY DEF InChannel
<1>2. CASE k = 1
  BY <1>1, <1>2
<1>3. CASE k # 1
  <2>1. k - 1 \in 1 .. Len(rest) /\ rest[k - 1] = ev[k]
    BY <1>3
  <2> QED BY <1>1, <2>1 DEF InChannel
<1> QED BY <1>2, <1>3

\* The view takes it: if it was the newest one of its room, the room is shown up to it.
LEMMA TakenLive ==
    ASSUME NEW u, NEW r, NEW m, NEW n, NEW P, NEW cmds, NEW R, NEW ev, NEW rest, NEW l,
           LiveOK(u, m, n, P, cmds, R, ev, l), u.synced => u.ws # None, Tracks(u, r), r.ws = u.ws, r.synced => u.synced,
           u.ws # None /\ u.applied = l[u.ws] => r.applied = l[u.ws],
           u.ws # None /\ InChannel(ev, u.ws, l[u.ws]) => InChannel(rest, u.ws, l[u.ws]) \/ r.applied = l[u.ws]
    PROVE  LiveOK(r, m, n, P, cmds, R, rest, l)
<1>1. u.ws # None /\ Coming(n, m, ev, u.ws, l[u.ws]) => Coming(n, m, rest, u.ws, l[u.ws]) \/ r.applied = l[u.ws]
  BY DEF Coming
<1>2. Shown(r, m, n, cmds, rest, l)
  BY <1>1 DEF LiveOK, Shown
<1>3. QueuedSync(r, cmds) /\ SentSync(r, n, cmds)
  BY DEF LiveOK, QueuedSync, SentSync, Tracks
<1>4. FrameSync(r, n, cmds, l)
  BY DEF LiveOK, FrameSync, Tracks
<1>5. PendingSync(r, m, P, cmds)
  BY DEF LiveOK, PendingSync, Tracks
<1>6. ReplySync(r, m, n, cmds, R, rest, l)
  BY <1>1 DEF LiveOK, ReplySync, Tracks, LiveAt
<1> QED BY <1>2, <1>3, <1>4, <1>5, <1>6 DEF LiveOK

\* The controller applies an event.
LEMMA TakeEventSync == ASSUME Inv, Inv', AckInv, ChatInv, SyncInv, TakeEvent PROVE SyncInv'
<1>1. /\ ui \in View /\ events \in Seq(Notice) /\ log \in [Workspace -> Nat] /\ ViewSync(ui) /\ ViewOK(ui, log)
      /\ Steady(ui, client, net) => LiveOK(ui, client, net, pending, commands, replies, events, log)
  BY SyncFacts
<1>2. events # <<>> /\ UNCHANGED <<net, client, pending, log, replies>> /\ events' = Tail(events)
  BY DEF TakeEvent
<1>0. PICK rest : rest = Tail(events)
  OBVIOUS
<1>3. PICK e \in Notice : e = events[1] /\ e = Head(events) /\ rest = Tail(events)
  BY <1>0, <1>1, <1>2
<1>4. PICK u : u = IF e.ws = None \/ ui.ws = None THEN ui ELSE Apply(ui, e.ws, e.seq - 1, e.seq)
  OBVIOUS
<1>5. Loop(u, commands)
  BY <1>3, <1>4 DEF TakeEvent
<1>6. e.ws \in Room /\ e.seq \in Int /\ e.seq - 1 \in Int
  BY <1>3 DEF Notice
<1>7. e.ws # None => e.seq <= log[e.ws]
  <2>1. 1 \in 1 .. Len(events)
    BY <1>1, <1>2
  <2> QED BY <1>3, <2>1 DEF Inv, WithinLog, EventsOK, NoticeOK
<1>8. PICK x \in Int : ui.ws # None => x = log[ui.ws]
  <2>1. ui.ws # None => log[ui.ws] \in Int
    BY <1>1 DEF View, Room
  <2>2. 0 \in Int
    OBVIOUS
  <2> QED BY <2>1, <2>2
<1>9. ui.ws # None /\ InChannel(events, ui.ws, x) => InChannel(rest, ui.ws, x) \/ (e.ws = ui.ws /\ e.seq = x)
  BY <1>1, <1>2, <1>3, InTail
<1>10. CASE u = ui /\ (e.ws = None \/ ui.ws = None \/ ui.ws # e.ws \/ e.seq - 1 = e.seq)
  <2>1. e.seq - 1 # e.seq
    BY <1>6
  <2>2. ~ (ui.ws # None /\ e.ws = ui.ws)
    BY <1>10, <2>1
  <2>3. ASSUME LiveOK(ui, client, net, pending, commands, replies, events, log)
        PROVE  LiveOK(ui, client, net, pending, commands, replies, rest, log)
    <3>1. Tracks(ui, ui) /\ (ui.synced => ui.ws # None)
      BY <1>1 DEF Tracks, ViewSync
    <3>2. ui.ws # None /\ InChannel(events, ui.ws, log[ui.ws]) => InChannel(rest, ui.ws, log[ui.ws]) \/ ui.applied = log[ui.ws]
      BY <1>8, <1>9, <2>2
    <3> QED BY <2>3, <3>1, <3>2, TakenLive
  <2> QED BY <1>1, <1>2, <1>3, <1>5, <1>10, <2>3, HandlerSync
<1>11. CASE u = Apply(ui, e.ws, e.seq - 1, e.seq) /\ ui.ws # None /\ e.ws # None
  <2>1. u \in View
    BY <1>1, <1>6, <1>11, ApplyView
  <2>2. /\ u.ws = ui.ws /\ u.conn = ui.conn /\ u.switching = ui.switching /\ ViewSync(u)
        /\ \/ u = ui /\ (ui.ws # e.ws \/ e.seq - 1 = e.seq)
           \/ Resets(ui, u)
           \/ Advances(ui, u, e.seq) /\ ui.ws = e.ws
    BY <1>1, <1>6, <1>11, ApplySync
  <2>3. CASE Resets(ui, u)
    <3>1. LiveOK(u, client, net, pending, commands, replies, rest, log)
      BY <2>3, ResetIdle, IdleLive
    <3> QED BY <1>2, <1>3, <1>5, <2>1, <2>2, <3>1, HandlerSync
  <2>4. CASE Advances(ui, u, e.seq) /\ ui.ws = e.ws
    <3>1. ui.applied \in Int /\ ui.applied <= x /\ e.seq <= x
      BY <1>1, <1>7, <1>8, <1>11, <2>4 DEF View, ViewOK
    <3>2. u.applied \in Int
      BY <2>1 DEF View
    <3>3. (ui.applied = x => u.applied = x) /\ (e.seq = x => u.applied = x)
      BY <1>6, <2>4, <3>1, <3>2 DEF Advances
    <3>4. Tracks(ui, u) /\ (u.synced => ui.synced) /\ (ui.synced => ui.ws # None)
      BY <1>11, <2>4, TracksCases DEF Advances
    <3>5. ui.ws # None /\ ui.applied = log[ui.ws] => u.applied = log[ui.ws]
      BY <1>8, <3>3
    <3>6. ui.ws # None /\ InChannel(events, ui.ws, log[ui.ws]) => InChannel(rest, ui.ws, log[ui.ws]) \/ u.applied = log[ui.ws]
      BY <1>8, <1>9, <3>3
    <3>7. LiveOK(ui, client, net, pending, commands, replies, events, log)
          => LiveOK(u, client, net, pending, commands, replies, rest, log)
      BY <2>2, <3>4, <3>5, <3>6, TakenLive
    <3>8. Steady(u, client, net) => Steady(ui, client, net)
      BY <2>2 DEF Steady
    <3> QED BY <1>1, <1>2, <1>3, <1>5, <2>1, <2>2, <3>7, <3>8, HandlerSync
  <2> QED BY <1>10, <2>2, <2>3, <2>4
<1> QED BY <1>4, <1>10, <1>11

-----------------------------------------------------------------------------
(* The other handlers of the controller.                                      *)

\* A handler that leaves a view that is not live and waits for no page.
LEMMA IdleHandler ==
    ASSUME Inv, Inv', SyncInv, UNCHANGED <<net, pending, log>>, client' = client \/ client' = [client EXCEPT !.news = FALSE],
           NEW u \in View, ~ u.synced, \A i : ~ Tracked(u, i), ViewSync(u), NEW cmds \in Seq(Command), Loop(u, cmds)
    PROVE  SyncInv'
<1>1. commands' \in Seq(Command) /\ client \in Memory
  BY DEF Inv, TypeOK, FeedTypeOK, CommandsOK
<1>2. PICK R, ev, m : R = replies' /\ ev = events' /\ m = client'
  OBVIOUS
<1>3. LiveOK(u, m, net, pending, cmds, R, ev, log)
  BY IdleLive
<1>4. ViewSync(ui') /\ (Steady(ui', m, net) => LiveOK(ui', m, net, pending, commands', R, ev, log))
  BY <1>1, <1>3, LoopLive
<1>5. HighestOK(m, log)
  <2>1. m.highest = client.highest
    BY <1>1, <1>2 DEF Memory
  <2> QED BY <2>1 DEF SyncInv, HighestOK
<1> QED BY <1>2, <1>4, <1>5 DEF SyncInv

\* There is no read.
LEMMA NoRead ==
    ASSUME NEW u, ~ u.synced, u.sync = None
    PROVE  ViewSync(u) /\ \A i : ~ Tracked(u, i)
BY DEF ViewSync, Tracked

\* A handler that leaves the room, what is applied and the Sync read alone.
LEMMA SameRead ==
    ASSUME Inv, Inv', SyncInv, UNCHANGED <<net, client, pending, log, events>>, replies' \in SUBSET replies,
           NEW u \in View, u.ws = ui.ws, u.applied = ui.applied, u.synced = ui.synced, u.sync = ui.sync, u.reset = ui.reset,
           u.conn = ui.conn, Loop(u, commands)
    PROVE  SyncInv'
<1>1. PICK R \in SUBSET replies : R = replies'
  OBVIOUS
<1>2. ViewSync(u)
  BY DEF SyncInv, ViewSync
<1>3. ASSUME Steady(u, client, net) PROVE LiveOK(u, client, net, pending, commands, R, events, log)
  <2>1. LiveOK(ui, client, net, pending, commands, replies, events, log)
    BY <1>3 DEF SyncInv, Steady
  <2>2. Tracks(ui, u)
    BY TracksCases
  <2> QED BY <2>1, <2>2, ViewLive
<1> QED BY <1>1, <1>2, <1>3, HandlerSync

\* A chat is over, begun or repeated, or the user asks for the history.
LEMMA ChatSync == ASSUME Inv, Inv', SyncInv, ChatDone \/ SubmitChat \/ RetryChat \/ RecentHistory PROVE SyncInv'
<1>1. ui \in View
  BY DEF Inv, TypeOK
<1>2. UNCHANGED <<net, client, pending, log, events>> /\ replies' \in SUBSET replies
  BY DEF ChatDone, SubmitChat, RetryChat, RecentHistory, TakeReply
<1>3. CASE ChatDone
  <2>1. PICK u \in View : u = [ui EXCEPT !.act = None]
    <3>1. [ui EXCEPT !.act = None] \in View
      BY <1>1 DEF View
    <3> QED BY <3>1
  <2>2. PICK v : Loop(ChatOutcome(u, ui.act, v), commands)
    BY <1>3, <2>1 DEF ChatDone
  <2>3. PICK c \in {"idle", "sent", "uncertain"} : ChatOutcome(u, ui.act, v) = [u EXCEPT !.chat = c]
    <3>1. PICK c \in {"idle", "sent", "uncertain"} : c = IF u.chat = "sent" THEN "uncertain" ELSE u.chat
      BY DEF View
    <3>2. ChatOutcome(u, ui.act, v) = [u EXCEPT !.chat = c] \/ ChatOutcome(u, ui.act, v) = [u EXCEPT !.chat = "idle"]
      BY <3>1 DEF ChatOutcome, Uncertain
    <3> QED BY <3>2
  <2>4. PICK x \in View : x = [u EXCEPT !.chat = c]
    <3>1. [u EXCEPT !.chat = c] \in View
      BY DEF View
    <3> QED BY <3>1
  <2>5. u.ws = ui.ws /\ u.applied = ui.applied /\ u.synced = ui.synced /\ u.sync = ui.sync /\ u.reset = ui.reset /\ u.conn = ui.conn
    BY <1>1, <2>1 DEF View
  <2>6. x.ws = u.ws /\ x.applied = u.applied /\ x.synced = u.synced /\ x.sync = u.sync /\ x.reset = u.reset /\ x.conn = u.conn
    BY <2>4 DEF View
  <2>7. Loop(x, commands)
    BY <2>2, <2>3, <2>4
  <2> QED BY <1>2, <2>5, <2>6, <2>7, SameRead
<1>4. CASE SubmitChat \/ RetryChat
  <2>1. PICK a \in Action : a = NewAction("post", None, None)
    <3>1. PICK step \in Step, none \in Room : step = "post" /\ none = None
      BY DEF Step, Room
    <3>2. NewAction(step, none, none) \in Action
      BY NewActionOK
    <3> QED BY <3>1, <3>2
  <2>2. PICK n \in Nat : Loop([ui EXCEPT !.chat = "sent", !.posts = n, !.act = a], commands)
    <3>1. ui.posts \in Nat /\ ui.posts + 1 \in Nat
      BY <1>1 DEF View
    <3>2. CASE SubmitChat
      BY <2>1, <3>1, <3>2 DEF SubmitChat
    <3>3. CASE RetryChat
      <4>1. [ui EXCEPT !.chat = "sent", !.act = a] = [ui EXCEPT !.chat = "sent", !.posts = ui.posts, !.act = a]
        BY <1>1 DEF View
      <4> QED BY <2>1, <3>1, <3>3, <4>1 DEF RetryChat
    <3> QED BY <1>4, <3>2, <3>3
  <2>3. PICK u \in View : u = [ui EXCEPT !.chat = "sent", !.posts = n, !.act = a]
    <3>1. [ui EXCEPT !.chat = "sent", !.posts = n, !.act = a] \in View
      BY <1>1 DEF View
    <3> QED BY <3>1
  <2>4. u.ws = ui.ws /\ u.applied = ui.applied /\ u.synced = ui.synced /\ u.sync = ui.sync /\ u.reset = ui.reset /\ u.conn = ui.conn
    BY <1>1, <2>3 DEF View
  <2>5. Loop(u, commands)
    BY <2>2, <2>3
  <2> QED BY <1>2, <2>4, <2>5, SameRead
<1>5. CASE RecentHistory
  <2>1. PICK e \in View : e = Enqueue(ui, "Recent")
    BY <1>1, EnqueueOK
  <2>2. PICK u \in View : u = [e EXCEPT !.refreshes = @ + 1]
    <3>1. [e EXCEPT !.refreshes = @ + 1] \in View
      BY DEF View
    <3> QED BY <3>1
  <2>3. e.ws = ui.ws /\ e.applied = ui.applied /\ e.synced = ui.synced /\ e.sync = ui.sync /\ e.reset = ui.reset /\ e.conn = ui.conn
    BY <1>1, <2>1 DEF Enqueue, View
  <2>4. u.ws = e.ws /\ u.applied = e.applied /\ u.synced = e.synced /\ u.sync = e.sync /\ u.reset = e.reset /\ u.conn = e.conn
    BY <2>2 DEF View
  <2>5. Loop(u, commands)
    BY <1>5, <2>1, <2>2 DEF RecentHistory
  <2> QED BY <1>2, <2>3, <2>4, <2>5, SameRead
<1> QED BY <1>3, <1>4, <1>5

\* A switch is over: there is no read.
LEMMA SwitchDoneSync == ASSUME Inv, Inv', AckInv, ChatInv, SyncInv, SwitchDone PROVE SyncInv'
<1>1. ui \in View /\ SwitchOK(ui) /\ commands \in Seq(Command)
  BY SyncFacts
<1>2. PICK v \in Reply(ui.act) : Loop(SwitchEnds(ui, ui.act, NextStep(ui.act, v.ok)), commands)
  BY DEF SwitchDone
<1>3. UNCHANGED <<net, pending, log>> /\ client' = client
  BY DEF SwitchDone
<1>4. PICK a \in Action : a = ui.act /\ a # None /\ a.step \in Switch
  BY <1>1 DEF SwitchDone, View, Action, Step, Switch
<1>5. ui.switching # None /\ ui.restore = None /\ ~ ui.synced /\ ui.chat = "idle" /\ ui.sync = None
  <2>1. InStep(ui, Switch)
    BY <1>4 DEF InStep
  <2> QED BY <1>1, <1>4, <2>1 DEF SwitchOK
<1>6. PICK result : result = NextStep(a, v.ok)
  OBVIOUS
<1>7. PICK x : x = SwitchEnds(ui, a, result) /\ Loop(x, commands)
  BY <1>2, <1>4, <1>6
<1>8. x \in View /\ Ends(ui, x)
  BY <1>1, <1>5, <1>7, SwitchEndsOK
<1>9. ~ x.synced /\ x.sync = None
  BY <1>5, <1>8 DEF Ends
<1>10. ViewSync(x) /\ \A i : ~ Tracked(x, i)
  BY <1>9, NoRead
<1> QED BY <1>1, <1>3, <1>7, <1>8, <1>9, <1>10, IdleHandler

\* The user selects a room: the reads are dropped.
LEMMA SelectSync == ASSUME Inv, Inv', AckInv, ChatInv, SyncInv, NEW target \in Workspace, SelectWorkspace(target) PROVE SyncInv'
<1>1. ui \in View /\ commands \in Seq(Command) /\ Len(commands) <= CommandCap
  BY DEF Inv, TypeOK, FeedTypeOK, CommandsOK
<1>2. PICK ids : ids = Dropped({ui.sync, ui.recent})
  OBVIOUS
<1>3. PICK cmds \in Seq(Command) : cmds = CancelAll(ids)
  BY <1>1, <1>2, CancelAllOK
<1>4. PICK a \in Action : a = NewAction(IF ui.ws = None THEN "join" ELSE "unsubscribe", ui.ws, target)
  <2>1. PICK step \in Step : step = (IF ui.ws = None THEN "join" ELSE "unsubscribe")
    BY DEF Step
  <2>2. PICK t \in Room, old \in Room : t = target /\ old = ui.ws
    BY <1>1 DEF Room, View
  <2>3. NewAction(step, old, t) \in Action
    BY NewActionOK
  <2> QED BY <2>1, <2>2, <2>3
<1>5. PICK x \in View : /\ x = [ui EXCEPT !.switching = target, !.switches = @ + 1, !.synced = FALSE,
                                          !.sync = None, !.recent = None, !.queued = {}, !.act = a]
                        /\ x.sync = None /\ x.synced = FALSE
  <2>1. PICK t \in Room, k1 \in Nat : t = target /\ k1 = ui.switches + 1
    BY <1>1 DEF Room, View
  <2>2. PICK v \in View : v = [ui EXCEPT !.switching = t, !.switches = k1, !.synced = FALSE] /\ v.synced = FALSE
    <3>1. [ui EXCEPT !.switching = t, !.switches = k1, !.synced = FALSE] \in View
      BY <1>1 DEF View
    <3> QED BY <1>1, <3>1 DEF View
  <2>3. [v EXCEPT !.sync = None, !.recent = None, !.queued = {}, !.act = a] \in View
    BY DEF View
  <2>4. [v EXCEPT !.sync = None, !.recent = None, !.queued = {}, !.act = a]
        = [ui EXCEPT !.switching = target, !.switches = @ + 1, !.synced = FALSE,
                     !.sync = None, !.recent = None, !.queued = {}, !.act = a]
    BY <1>1, <2>1, <2>2 DEF View
  <2>5. PICK u \in View : u = [v EXCEPT !.sync = None, !.recent = None, !.queued = {}, !.act = a]
    BY <2>3
  <2>6. u.sync = None /\ u.synced = v.synced
    BY <2>5 DEF View
  <2>7. u = [ui EXCEPT !.switching = target, !.switches = @ + 1, !.synced = FALSE,
                       !.sync = None, !.recent = None, !.queued = {}, !.act = a]
    BY <2>4, <2>5, Zenon
  <2> QED BY <2>2, <2>6, <2>7, Zenon
<1>6. Loop(x, cmds) /\ UNCHANGED <<net, pending, log>> /\ client' = client
  BY <1>2, <1>3, <1>4, <1>5 DEF SelectWorkspace
<1>7. ViewSync(x) /\ \A i : ~ Tracked(x, i)
  BY <1>5, NoRead
<1> QED BY <1>5, <1>6, <1>7, IdleHandler

\* A handler after which the view shows no less of the same room.
LEMMA StayHandler ==
    ASSUME Inv, Inv', SyncInv, UNCHANGED <<net, client, pending, log, events>>, replies' \in SUBSET replies,
           NEW u \in View, u.ws = ui.ws, u.conn = ui.conn, ViewSync(u), Tracks(ui, u), u.synced => ui.synced,
           ui.applied = log[ui.ws] => u.applied = log[ui.ws], Loop(u, commands)
    PROVE  SyncInv'
<1>1. PICK R \in SUBSET replies : R = replies'
  OBVIOUS
<1>2. ASSUME Steady(u, client, net) PROVE LiveOK(u, client, net, pending, commands, R, events, log)
  <2>1. LiveOK(ui, client, net, pending, commands, replies, events, log)
    BY <1>2 DEF SyncInv, Steady
  <2> QED BY <2>1, ViewLive
<1> QED BY <1>1, <1>2, HandlerSync

\* The Sync read is over.
LEMMA ReadOver ==
    ASSUME NEW u \in View, ViewSync(u)
    PROVE  LET v == [u EXCEPT !.sync = None] IN
           /\ v \in View /\ v.ws = u.ws /\ v.applied = u.applied /\ v.synced = u.synced /\ v.conn = u.conn
           /\ v.reset = u.reset /\ v.switching = u.switching /\ v.sync = None /\ ViewSync(v)
<1>1. PICK v : v = [u EXCEPT !.sync = None]
  OBVIOUS
<1>2. /\ v \in View /\ v.ws = u.ws /\ v.applied = u.applied /\ v.synced = u.synced /\ v.conn = u.conn
      /\ v.reset = u.reset /\ v.switching = u.switching /\ v.sync = None
  BY <1>1 DEF View
<1>3. ViewSync(v)
  BY <1>2 DEF ViewSync
<1> QED BY <1>1, <1>2, <1>3

\* A page is applied to a view that waits for no other.
LEMMA PageApplied ==
    ASSUME NEW u \in View, ViewSync(u), u.sync = None, NEW w \in Room, NEW lo \in Int, NEW hi \in Int, u.ws # None,
           NEW x \in Int, u.applied <= x, u.ws = w => hi <= x, NEW y, y = Apply(u, w, lo, hi)
    PROVE  /\ y \in View /\ y.ws = u.ws /\ y.conn = u.conn /\ ViewSync(y) /\ (y.synced => u.synced)
           /\ \A i : ~ Tracked(y, i)
           /\ u.applied = x => y.applied = x
           /\ y.applied >= u.applied
           /\ lo = hi \/ (u.ws = w /\ u.applied # Absent /\ lo <= u.applied) => y.sync = None /\ y.reset = u.reset
<1>1. y \in View
  BY ApplyView
<1>2. /\ y.ws = u.ws /\ y.conn = u.conn /\ ViewSync(y)
      /\ \/ y = u /\ (u.ws # w \/ lo = hi)
         \/ Resets(u, y) /\ (u.applied = Absent \/ lo > u.applied) /\ u.ws = w /\ lo # hi
         \/ Advances(u, y, hi) /\ u.ws = w
  BY ApplySync
<1>3. u.applied \in Int /\ y.applied \in Int
  BY <1>1 DEF View
<1>4. CASE y = u /\ (u.ws # w \/ lo = hi)
  BY <1>1, <1>2, <1>3, <1>4 DEF Tracked
<1>5. CASE Resets(u, y) /\ (u.applied = Absent \/ lo > u.applied) /\ u.ws = w /\ lo # hi
  <2>1. ~ y.synced /\ \A i : ~ Tracked(y, i)
    BY <1>5, ResetIdle
  <2> QED BY <1>1, <1>2, <1>3, <1>5, <2>1 DEF Resets
<1>6. CASE Advances(u, y, hi) /\ u.ws = w
  <2>1. y.sync = None /\ y.reset = u.reset /\ y.synced = u.synced
    BY <1>6 DEF Advances
  <2>2. y.applied >= u.applied /\ (u.applied = x => y.applied = x)
    BY <1>3, <1>6 DEF Advances
  <2> QED BY <1>1, <1>2, <2>1, <2>2 DEF Tracked
<1> QED BY <1>2, <1>4, <1>5, <1>6

\* The last page of a subscription makes the view live.
LEMMA BecomesLive ==
    ASSUME NEW u, NEW x, NEW m, NEW n, NEW P, NEW cmds, NEW R, NEW S, NEW ev, NEW l, NEW v \in R,
           LiveOK(u, m, n, P, cmds, R, ev, l), Tracked(u, v.id), v.live, x.sync = None, x.ws = u.ws,
           x.applied = v.hi, v.ws = u.ws /\ u.applied = l[u.ws] => x.applied = l[u.ws]
    PROVE  LiveOK(x, m, n, P, cmds, S, ev, l)
<1>1. LiveAt(n, cmds, v.ws) /\ (v.ws = u.ws => v.hi = l[v.ws] \/ u.applied = l[v.ws] \/ Coming(n, m, ev, v.ws, l[v.ws]))
  BY DEF LiveOK, ReplySync
<1>2. NoUnsubs(cmds, n)
  BY <1>1 DEF LiveAt, NoSubs, NoUnsubs, FreeQueue, SubCommand, SubscriptionCall, IsCall
<1>3. Shown(x, m, n, cmds, ev, l)
  BY <1>1, <1>2 DEF Shown, LiveAt
<1>4. \A i : ~ Tracked(x, i)
  BY DEF Tracked
<1> QED BY <1>3, <1>4 DEF LiveOK, QueuedSync, SentSync, FrameSync, PendingSync, ReplySync

\* The answer to the Sync read is taken.
LEMMA SyncDoneSync == ASSUME Inv, Inv', AckInv, ChatInv, SyncInv, SyncDone PROVE SyncInv'
<1>1. /\ ui \in View /\ log \in [Workspace -> Nat] /\ replies \in SUBSET Value /\ ViewSync(ui) /\ ViewOK(ui, log) /\ ViewAck(ui)
      /\ Steady(ui, client, net) => LiveOK(ui, client, net, pending, commands, replies, events, log)
  BY SyncFacts
<1>2. PICK u \in View : /\ u = [ui EXCEPT !.sync = None] /\ u.ws = ui.ws /\ u.applied = ui.applied /\ u.synced = ui.synced
                        /\ u.conn = ui.conn /\ u.reset = ui.reset /\ u.sync = None /\ ViewSync(u)
  BY <1>1, ReadOver
<1>3. PICK v \in Reply(ui.sync) :
         /\ ui.sync.step = "subscribe" \/ ~ v.ok
         /\ Loop(IF v.ok /\ Accepts(ui, ui.sync) THEN SyncPage(u, ui.sync, v) ELSE u, commands)
         /\ TakeReply(v)
  BY <1>2 DEF SyncDone
<1>4. ui.sync # None /\ UNCHANGED <<net, client, pending, log, events>> /\ replies' \in SUBSET replies
  BY <1>3 DEF SyncDone, TakeReply
<1>5. Tracks(ui, u)
  BY <1>2, TracksCases
<1>6. CASE ~ (v.ok /\ Accepts(ui, ui.sync))
  <2>1. Loop(u, commands)
    BY <1>3, <1>6
  <2> QED BY <1>2, <1>4, <1>5, <2>1, StayHandler
<1>7. CASE v.ok /\ Accepts(ui, ui.sync)
  <2>1. v \in replies /\ v.id = ui.sync.id /\ v \in Value
    <3>1. v \in replies /\ v.id = ui.sync.id
      BY <1>7 DEF Reply, Failed
    <3> QED BY <1>1, <3>1
  <2>2. v.ws \in Room /\ v.lo \in Int /\ v.hi \in Int /\ v.id \in Id
    BY <2>1 DEF Value
  <2>3. ui.ws # None /\ ui.ws \in Workspace /\ ui.applied >= 0 /\ ui.applied \in Int
    <3>1. ui.ws # None /\ Bound(ui, ui.sync.after)
      BY <1>1, <1>4 DEF ViewAck
    <3>2. ui.applied \in Int /\ ui.sync.after \in Int /\ ui.ws \in Room
      BY <1>1, <1>4 DEF View, Read
    <3> QED BY <3>1, <3>2 DEF Bound, Room
  <2>4. PICK top \in Int : top = log[ui.ws]
    BY <1>1, <2>3
  <2>5. ui.applied <= top
    BY <1>1, <2>3, <2>4 DEF ViewOK
  <2>6. ui.ws = v.ws => v.hi <= top
    <3>1. InLog(log, v)
      BY <2>1 DEF Inv, WithinLog
    <3> QED BY <2>3, <2>4, <3>1 DEF InLog
  <2>7. PICK y : y = Apply(u, v.ws, v.lo, v.hi)
    OBVIOUS
  <2>8. /\ y \in View /\ y.ws = u.ws /\ y.conn = u.conn /\ ViewSync(y) /\ (y.synced => u.synced)
        /\ \A i : ~ Tracked(y, i)
        /\ u.applied = top => y.applied = top
        /\ y.applied >= u.applied
        /\ v.lo = v.hi \/ (u.ws = v.ws /\ u.applied # Absent /\ v.lo <= u.applied) => y.sync = None /\ y.reset = u.reset
    <3>1. PICK w \in Room, lo \in Int, hi \in Int : w = v.ws /\ lo = v.lo /\ hi = v.hi
      BY <2>2
    <3>2. u.applied <= top /\ (u.ws = w => hi <= top) /\ u.ws # None
      BY <1>2, <2>3, <2>5, <2>6, <3>1
    <3>3. y = Apply(u, w, lo, hi)
      BY <2>7, <3>1
    <3>4. /\ y \in View /\ y.ws = u.ws /\ y.conn = u.conn /\ ViewSync(y) /\ (y.synced => u.synced)
          /\ \A i : ~ Tracked(y, i)
          /\ u.applied = top => y.applied = top
          /\ y.applied >= u.applied
          /\ lo = hi \/ (u.ws = w /\ u.applied # Absent /\ lo <= u.applied) => y.sync = None /\ y.reset = u.reset
      <4>1. ViewSync(u) /\ u.sync = None /\ u.ws # None
        BY <1>2, <3>2
      <4>2. u.applied <= top /\ (u.ws = w => hi <= top)
        BY <3>2
      <4> QED BY <3>3, <4>1, <4>2, PageApplied
    <3> QED BY <3>1, <3>4
  <2>9. CASE ~ (v.live /\ Fits(u, v) /\ ~ ui.sync.gapped /\ y.applied = v.hi)
    <3>1. PICK x \in View : x = Enqueue(y, "Sync")
      BY <2>8, EnqueueOK
    <3>2. x.ws = y.ws /\ x.applied = y.applied /\ x.synced = y.synced /\ x.sync = y.sync /\ x.reset = y.reset /\ x.conn = y.conn
      BY <2>8, <3>1 DEF Enqueue, View
    <3>3. ViewSync(x) /\ Tracks(ui, x)
      BY <2>8, <3>2 DEF ViewSync, Tracks, Tracked
    <3>4. Loop(x, commands)
      BY <1>3, <1>7, <2>7, <2>9, <3>1 DEF SyncPage
    <3>5. x.ws = ui.ws /\ x.conn = ui.conn /\ (x.synced => ui.synced) /\ (ui.applied = log[ui.ws] => x.applied = log[ui.ws])
      BY <1>2, <2>4, <2>8, <3>2
    <3> QED BY <1>4, <3>3, <3>4, <3>5, StayHandler
  <2>10. CASE v.live /\ Fits(u, v) /\ ~ ui.sync.gapped /\ y.applied = v.hi
    <3>1. PICK x \in View : x = [y EXCEPT !.synced = TRUE]
      <4>1. [y EXCEPT !.synced = TRUE] \in View
        BY <2>8 DEF View
      <4> QED BY <4>1
    <3>2. x.ws = y.ws /\ x.applied = y.applied /\ x.sync = y.sync /\ x.reset = y.reset /\ x.conn = y.conn
      BY <2>8, <3>1 DEF View
    <3>3. Loop(x, commands)
      BY <1>3, <1>7, <2>7, <2>10, <3>1 DEF SyncPage
    <3>4. y.sync = None /\ y.reset = ui.reset
      BY <1>2, <2>8, <2>10 DEF Fits
    <3>5. ~ ui.reset
      BY <1>1, <1>4, <2>10 DEF ViewSync
    <3>6. x.applied >= 0
      <4>1. y.applied \in Int
        BY <2>8 DEF View
      <4> QED BY <1>2, <2>3, <2>8, <3>2, <4>1
    <3>7. ViewSync(x)
      BY <1>2, <2>3, <2>8, <3>2, <3>4, <3>5, <3>6 DEF ViewSync
    <3>8. Tracked(ui, v.id)
      BY <1>3, <1>4, <1>7, <2>1, <2>2, <2>10, FeedAssumption DEF Tracked, Accepts
    <3>9. PICK R : R = replies'
      OBVIOUS
    <3>10. ASSUME Steady(x, client, net) PROVE LiveOK(x, client, net, pending, commands, R, events, log)
      <4>1. LiveOK(ui, client, net, pending, commands, replies, events, log)
        BY <1>1, <1>2, <2>8, <3>2, <3>10 DEF Steady
      <4>2. v.ws = ui.ws /\ ui.applied = log[ui.ws] => x.applied = log[ui.ws]
        BY <1>2, <2>4, <2>8, <3>2
      <4>3. x.sync = None /\ x.ws = ui.ws /\ x.applied = v.hi
        BY <1>2, <2>8, <2>10, <3>2, <3>4
      <4> QED BY <2>1, <2>10, <3>8, <4>1, <4>2, <4>3, BecomesLive
    <3> QED BY <1>4, <3>1, <3>3, <3>7, <3>9, <3>10, HandlerSync
  <2> QED BY <2>9, <2>10
<1> QED BY <1>6, <1>7

\* The answer to the Recent read is taken: what it applies goes to a view that is not live.
LEMMA RecentDoneSync == ASSUME Inv, Inv', AckInv, ChatInv, SyncInv, RecentDone PROVE SyncInv'
<1>1. ui \in View /\ replies \in SUBSET Value /\ ViewSync(ui) /\ ViewAck(ui) /\ commands \in Seq(Command)
  BY SyncFacts
<1>2. PICK u \in View : u = [ui EXCEPT !.recent = None]
  BY <1>1, ClearedCalm
<1>3. u.ws = ui.ws /\ u.applied = ui.applied /\ u.synced = ui.synced /\ u.sync = ui.sync /\ u.reset = ui.reset /\ u.conn = ui.conn
  BY <1>1, <1>2 DEF View
<1>4. PICK v \in Reply(ui.recent) :
         /\ Loop(IF v.ok /\ Accepts(ui, ui.recent) THEN RecentPage(u, v) ELSE u, commands)
         /\ TakeReply(v)
  BY <1>2 DEF RecentDone
<1>5. UNCHANGED <<net, client, pending, log, events>> /\ replies' \in SUBSET replies
  BY <1>4 DEF RecentDone, TakeReply
<1>6. CASE ~ (v.ok /\ Accepts(ui, ui.recent)) \/ v.ws # u.ws
  <2>1. Loop(u, commands)
    BY <1>4, <1>6 DEF RecentPage
  <2> QED BY <1>3, <1>5, <2>1, SameRead
<1>7. CASE v.ok /\ Accepts(ui, ui.recent) /\ v.ws = u.ws /\ u.applied # Absent
  <2>1. PICK x \in View : x = Enqueue(u, "Sync")
    BY EnqueueOK
  <2>2. x.ws = u.ws /\ x.applied = u.applied /\ x.synced = u.synced /\ x.sync = u.sync /\ x.reset = u.reset /\ x.conn = u.conn
    BY <2>1 DEF Enqueue, View
  <2>3. Loop(x, commands)
    BY <1>4, <1>7, <2>1 DEF RecentPage
  <2> QED BY <1>3, <1>5, <2>2, <2>3, SameRead
<1>8. CASE v.ok /\ Accepts(ui, ui.recent) /\ v.ws = u.ws /\ u.applied = Absent
  <2>1. ui.sync = None /\ ~ ui.synced
    <3>1. ~ ui.synced
      BY <1>1, <1>3, <1>8 DEF ViewSync, Absent
    <3>2. ui.sync # None => ui.sync.after \in Int
      BY <1>1 DEF View, Read
    <3>3. ui.sync = None
      BY <1>1, <1>3, <1>8, <3>2 DEF ViewAck, Bound, Absent
    <3> QED BY <3>1, <3>3
  <2>2. v.lo \in Int /\ v.hi \in Int /\ v.ws \in Room
    <3>1. v \in Value
      BY <1>1, <1>8 DEF Reply, Failed
    <3> QED BY <3>1 DEF Value
  <2>3. PICK s \in View : s = [u EXCEPT !.applied = v.lo] /\ s.sync = None /\ ~ s.synced
    <3>1. PICK s : s = [u EXCEPT !.applied = v.lo]
      OBVIOUS
    <3>2. s \in View /\ s.sync = u.sync /\ s.synced = u.synced
      BY <2>2, <3>1 DEF View
    <3> QED BY <1>3, <2>1, <3>1, <3>2
  <2>4. ViewSync(s) /\ \A i : ~ Tracked(s, i)
    BY <2>3, NoRead
  <2>5. PICK y \in View : y = Apply(s, v.ws, v.lo, v.hi)
    BY <2>2, ApplyView
  <2>6. ViewSync(y) /\ ~ y.synced /\ \A i : ~ Tracked(y, i)
    <3>1. /\ ViewSync(y)
          /\ y = s \/ Resets(s, y) \/ Advances(s, y, v.hi)
      BY <2>2, <2>4, <2>5, ApplySync
    <3> QED BY <2>3, <2>4, <3>1, ResetIdle DEF Advances, Tracked
  <2>7. PICK x \in View : x = Enqueue(y, "Sync")
    BY EnqueueOK
  <2>8. x.ws = y.ws /\ x.applied = y.applied /\ x.synced = y.synced /\ x.sync = y.sync /\ x.reset = y.reset /\ x.conn = y.conn
    BY <2>7 DEF Enqueue, View
  <2>9. ViewSync(x) /\ ~ x.synced /\ \A i : ~ Tracked(x, i)
    BY <2>6, <2>8 DEF ViewSync, Tracked
  <2>10. Loop(x, commands)
    BY <1>4, <1>8, <2>3, <2>5, <2>7 DEF RecentPage
  <2> QED BY <1>1, <1>5, <2>9, <2>10, IdleHandler
<1> QED BY <1>6, <1>7, <1>8

\* The view is not live, and its read belongs to an earlier epoch.
Fenced(u) ==
    ~ u.synced /\ (u.sync = None \/ u.sync.fenced) /\ (u.reset => u.sync = None \/ u.sync.gapped)

\* A view like it waits for no page.
LEMMA FencedIdle ==
    ASSUME NEW u, NEW v, Fenced(u), v.sync = u.sync, v.reset = u.reset, ~ v.synced
    PROVE  Fenced(v) /\ ViewSync(v) /\ \A i : ~ Tracked(v, i)
BY DEF Fenced, ViewSync, Tracked

\* Every task is fenced when the connection changes.
LEMMA FenceSync ==
    ASSUME NEW u \in View, ViewSync(u), ActionOK(u.act), NEW f, f = [FenceAll(u) EXCEPT !.synced = FALSE]
    PROVE  f \in View /\ Fenced(f)
<1>1. PICK g \in View : g = FenceAll(u)
  BY FenceAllOK
<1>2. PICK s, r, a : s = FenceJob(u.sync) /\ r = FenceJob(u.recent) /\ a = FenceJob(u.act)
  OBVIOUS
<1>3. g = [u EXCEPT !.sync = s, !.recent = r, !.act = a]
  BY <1>1, <1>2 DEF FenceAll, View
<1>4. g.sync = s /\ g.reset = u.reset
  BY <1>3 DEF View
<1>5. f \in View /\ f.sync = s /\ f.reset = u.reset /\ ~ f.synced
  BY <1>1, <1>4 DEF View
<1>6. s = None \/ (s.fenced /\ s.gapped = u.sync.gapped)
  <2>1. CASE u.sync = None
    BY <1>2, <2>1 DEF FenceJob
  <2>2. CASE u.sync # None
    <3>1. u.sync \in Read
      BY <2>2 DEF View
    <3> QED BY <1>2, <2>2, <3>1 DEF FenceJob, Read
  <2> QED BY <2>1, <2>2
<1>7. u.sync = None => s = None
  BY <1>2 DEF FenceJob
<1> QED BY <1>5, <1>6, <1>7 DEF Fenced, ViewSync

\* A read is queued.
LEMMA QueuedFenced ==
    ASSUME NEW u \in View, Fenced(u)
    PROVE  LET x == IF u.ws = None THEN u ELSE Enqueue(u, IF u.applied = Absent THEN "Recent" ELSE "Sync") IN
           x \in View /\ Fenced(x)
<1>1. PICK kind \in {"Recent", "Sync"} : kind = IF u.applied = Absent THEN "Recent" ELSE "Sync"
  OBVIOUS
<1>2. PICK x \in View : x = Enqueue(u, kind)
  BY EnqueueOK
<1>3. x.sync = u.sync /\ x.reset = u.reset /\ x.synced = u.synced
  BY <1>2 DEF Enqueue, View
<1>4. Fenced(x)
  BY <1>3 DEF Fenced
<1> QED BY <1>1, <1>2, <1>4

\* The controller sees the connection change.
LEMMA ObserveSync == ASSUME Inv, Inv', AckInv, ChatInv, SyncInv, Observe PROVE SyncInv'
<1>1. ui \in View /\ ActionOK(ui.act) /\ ViewSync(ui) /\ SwitchOK(ui) /\ commands \in Seq(Command)
  BY SyncFacts DEF Inv, WithinLog
<1>2. UNCHANGED <<net, pending, log>> /\ client' = [client EXCEPT !.news = FALSE]
  BY DEF Observe
<1>3. PICK f \in View : f = [FenceAll(ui) EXCEPT !.synced = FALSE] /\ Fenced(f)
  BY <1>1, FenceSync
<1>4. PICK g \in View : g = f /\ Calm(ui, g, posted)
  BY <1>1, <1>3, FencedCalm
<1>5. ASSUME NEW x \in View, Fenced(x), Loop(x, commands) PROVE SyncInv'
  <2>1. ~ x.synced /\ ViewSync(x) /\ \A i : ~ Tracked(x, i)
    BY <1>5, FencedIdle DEF Fenced
  <2> QED BY <1>1, <1>2, <1>5, <2>1, IdleHandler
<1>6. \A c \in {"up", "down"} : LET d == [f EXCEPT !.conn = c] IN
         d \in View /\ Fenced(d) /\ d.restore = f.restore /\ d.switching = f.switching
  <2>1. TAKE c \in {"up", "down"}
  <2>2. PICK d : d = [f EXCEPT !.conn = c]
    OBVIOUS
  <2>3. d \in View /\ d.sync = f.sync /\ d.reset = f.reset /\ d.synced = f.synced /\ d.restore = f.restore /\ d.switching = f.switching
    BY <2>2 DEF View
  <2>4. Fenced(d)
    BY <1>3, <2>3 DEF Fenced
  <2> QED BY <2>2, <2>3, <2>4
<1>7. CASE client.phase # "up"
  <2>1. PICK d \in View : d = [f EXCEPT !.conn = "down"] /\ Fenced(d)
    BY <1>6
  <2>2. PICK c \in {"idle", "sent", "uncertain"} : c = IF d.chat = "sent" THEN "uncertain" ELSE d.chat
    BY DEF View
  <2>3. PICK x : x = [d EXCEPT !.chat = c]
    OBVIOUS
  <2>4. x \in View /\ x.sync = d.sync /\ x.reset = d.reset /\ x.synced = d.synced
    BY <2>3 DEF View
  <2>5. Fenced(x)
    BY <2>1, <2>4 DEF Fenced
  <2>6. Loop(x, commands)
    BY <1>3, <1>7, <2>1, <2>2, <2>3 DEF Observe, Uncertain
  <2> QED BY <1>5, <2>4, <2>5, <2>6
<1>8. CASE client.phase = "up"
  <2>1. PICK d \in View : d = [f EXCEPT !.conn = "up"] /\ Fenced(d) /\ d.restore = f.restore /\ d.switching = f.switching
    BY <1>6
  <2>2. PICK o \in Room : o = d.restore
    BY DEF View
  <2>3. PICK r \in View : r = [d EXCEPT !.restore = None]
    <3>1. [d EXCEPT !.restore = None] \in View
      BY DEF View, Room
    <3> QED BY <3>1
  <2>4. PICK b : b = IF d.restore = None THEN d ELSE RestorePrevious(r, o)
    OBVIOUS
  <2>5. b \in View /\ Fenced(b)
    <3>1. CASE d.restore = None
      BY <2>1, <2>4, <3>1
    <3>2. CASE d.restore # None
      <4>1. ShowOK(ui, client.desired, posted)
        BY DEF ChatInv, OpenChat
      <4>2. ShowOK(g, client.desired, posted)
        BY <1>4, <4>1, CalmShow
      <4>3. SwitchOK(f)
        BY <1>4, <4>2 DEF ShowOK
      <4>4. f.act = None /\ f.switching # None /\ f.sync = None /\ f.recent = None /\ ~ f.synced /\ f.chat = "idle"
        BY <2>1, <3>2, <4>3 DEF SwitchOK
      <4>5. /\ d.act = f.act /\ d.sync = f.sync /\ d.recent = f.recent /\ d.synced = f.synced /\ d.chat = f.chat
            /\ d.switching = f.switching /\ d.reset = f.reset
        BY <2>1 DEF View
      <4>6. /\ r.act = d.act /\ r.sync = d.sync /\ r.recent = d.recent /\ r.synced = d.synced /\ r.chat = d.chat
            /\ r.switching = d.switching /\ r.restore = None
        BY <2>3 DEF View
      <4>7. SwitchOK(r) /\ r.switching # None /\ r.restore = None
        BY <4>4, <4>5, <4>6 DEF SwitchOK, InStep
      <4>8. RestorePrevious(r, o) \in View /\ Ends(r, RestorePrevious(r, o))
        BY <4>7, RestorePreviousEnds
      <4>9. b \in View /\ Ends(r, b)
        BY <2>4, <3>2, <4>8
      <4>10. b.sync = None /\ ~ b.synced
        BY <4>4, <4>5, <4>6, <4>9 DEF Ends
      <4> QED BY <4>9, <4>10 DEF Fenced
    <3> QED BY <3>1, <3>2
  <2>6. PICK x : x = IF b.ws = None THEN b ELSE Enqueue(b, IF b.applied = Absent THEN "Recent" ELSE "Sync")
    OBVIOUS
  <2>7. x \in View /\ Fenced(x)
    BY <2>5, <2>6, QueuedFenced
  <2>8. Loop(x, commands)
    BY <1>3, <1>8, <2>1, <2>2, <2>3, <2>4, <2>6 DEF Observe
  <2> QED BY <1>5, <2>7, <2>8
<1> QED BY <1>7, <1>8

\* A step of the controller that queues nothing and leaves the connection alone.
LEMMA TaskSync ==
    ASSUME SyncInv, UNCHANGED <<net, client, pending, log, events, commands>>, replies' \in SUBSET replies,
           NEW x, x = ui', x.ws = ui.ws, x.conn = ui.conn, ViewSync(x), Tracks(ui, x), x.synced => ui.synced,
           x.applied = ui.applied
    PROVE  SyncInv'
<1>1. PICK R \in SUBSET replies : R = replies'
  OBVIOUS
<1>2. ASSUME Steady(x, client, net) PROVE LiveOK(x, client, net, pending, commands, R, events, log)
  <2>1. LiveOK(ui, client, net, pending, commands, replies, events, log)
    BY <1>2 DEF SyncInv, Steady
  <2> QED BY <2>1, ViewLive
<1> QED BY <1>1, <1>2 DEF SyncInv

\* A task goes on.
LEMMA ContinuesSync == ASSUME Inv, Inv', SyncInv, ActionContinues \/ SyncContinues PROVE SyncInv'
<1>1. ui \in View /\ ui' \in View /\ ViewSync(ui)
  BY DEF Inv, TypeOK, SyncInv
<1>2. UNCHANGED <<net, client, pending, log, events, commands>> /\ replies' \in SUBSET replies
  BY DEF ActionContinues, SyncContinues, TakeReply
<1>3. PICK x : x = ui'
  OBVIOUS
<1>4. CASE SyncContinues
  <2>1. ui.sync \in Read /\ ui.sync # None /\ ui.sync.step = "unsubscribe"
    BY <1>1, <1>4 DEF SyncContinues, View
  <2>2. PICK s : s = [ui.sync EXCEPT !.step = "subscribe", !.id = None]
    OBVIOUS
  <2>3. s.id = None /\ s.gapped = ui.sync.gapped /\ s.step = "subscribe"
    BY <2>1, <2>2 DEF Read
  <2>4. x = [ui EXCEPT !.sync = s]
    BY <1>1, <1>3, <1>4, <2>2 DEF SyncContinues, View, Read
  <2>5. x.ws = ui.ws /\ x.conn = ui.conn /\ x.applied = ui.applied /\ x.synced = ui.synced /\ x.reset = ui.reset /\ x.sync = s
    BY <1>1, <2>4 DEF View
  <2>6. Tracks(ui, x)
    BY <2>3, <2>5, TracksCases
  <2>7. ViewSync(x)
    BY <1>1, <2>1, <2>3, <2>5 DEF ViewSync
  <2> QED BY <1>2, <1>3, <2>5, <2>6, <2>7, TaskSync
<1>5. CASE ActionContinues
  <2>1. PICK step : ui' = [ui EXCEPT !.act.step = step, !.act.id = None, !.act.full = FALSE]
    BY <1>5 DEF ActionContinues
  <2>2. PICK b : b = [ui.act EXCEPT !.step = step, !.id = None, !.full = FALSE]
    OBVIOUS
  <2>3. x = [ui EXCEPT !.act = b]
    BY <1>1, <1>3, <2>1, <2>2 DEF View
  <2>4. x.ws = ui.ws /\ x.conn = ui.conn /\ x.applied = ui.applied /\ x.synced = ui.synced /\ x.reset = ui.reset /\ x.sync = ui.sync
    BY <1>1, <2>3 DEF View
  <2>5. Tracks(ui, x) /\ ViewSync(x)
    BY <1>1, <2>4, TracksCases DEF ViewSync
  <2> QED BY <1>2, <1>3, <2>4, <2>5, TaskSync
<1> QED BY <1>4, <1>5

-----------------------------------------------------------------------------
(* Calls the controller queues.                                               *)

\* The call goes behind the others.
LEMMA Queued ==
    ASSUME NEW cmds \in Seq(Command), NEW c, Rpc(c) \in Command, NEW more, more = Append(cmds, Rpc(c))
    PROVE  /\ Len(more) = Len(cmds) + 1
           /\ \A k \in 1 .. Len(more) : (k \in 1 .. Len(cmds) /\ more[k] = cmds[k]) \/ (k = Len(cmds) + 1 /\ more[k] = Rpc(c))
           /\ Rpc(c).op = "rpc" /\ Rpc(c).call = c
<1>1. Rpc(c).op = "rpc" /\ Rpc(c).call = c
  BY DEF Rpc
<1>2. PICK r \in Command : r = Rpc(c)
  OBVIOUS
<1>3. more = Append(cmds, r)
  BY <1>2
<1>4. Len(more) = Len(cmds) + 1 /\ \A k \in 1 .. Len(more) : (k \in 1 .. Len(cmds) /\ more[k] = cmds[k]) \/ (k = Len(cmds) + 1 /\ more[k] = r)
  BY <1>3
<1> QED BY <1>1, <1>2, <1>4

\* The identifier occurs nowhere else.
Unused(i, n, P, cmds, R) == Fresh(i, n, cmds, R) /\ \A p \in P : p.id # i

\* A call that is not about the subscription.
LEMMA PlainLive ==
    ASSUME NEW u, NEW m, NEW n, NEW P, NEW cmds \in Seq(Command), NEW c, Rpc(c) \in Command, NEW more, more = Append(cmds, Rpc(c)),
           NEW R, NEW ev, NEW l, LiveOK(u, m, n, P, cmds, R, ev, l), ~ SubscriptionCall(c), ~ Tracked(u, c.id)
    PROVE  LiveOK(u, m, n, P, more, R, ev, l)
<1>1. MoreQueued(u, cmds, more)
  BY Queued DEF MoreQueued, SubCommand
<1> QED BY <1>1, MoreLive

\* The subscription call of the Sync read: no other read was waited for.
LEMMA SubscribedLive ==
    ASSUME NEW u, NEW x, NEW m, NEW n, NEW P, NEW cmds \in Seq(Command), NEW c, Rpc(c) \in Command, NEW more,
           more = Append(cmds, Rpc(c)), NEW R, NEW ev, NEW l, LiveOK(u, m, n, P, cmds, R, ev, l),
           x.ws = u.ws, x.applied = u.applied, x.synced = u.synced, x.sync.id = c.id, x.sync.step = c.kind,
           Unused(c.id, n, P, cmds, R), c.kind # "unsubscribe"
    PROVE  LiveOK(x, m, n, P, more, R, ev, l)
<1>1. \A i : Tracked(x, i) => i = c.id /\ c.kind = "subscribe"
  BY DEF Tracked
<1>2. /\ \A v \in R : v.id # c.id
      /\ \A k \in 1 .. Len(cmds) : cmds[k].op = "rpc" => cmds[k].call.id # c.id
      /\ \A k \in 1 .. Len(n.req) : n.req[k].id # c.id
      /\ \A k \in 1 .. Len(n.out) : n.out[k].id # c.id
      /\ \A p \in P : p.id # c.id
  BY DEF Unused, Fresh
<1>3. NoUnsubs(cmds, n) => NoUnsubs(more, n)
  BY Queued DEF NoUnsubs, IsCall
<1>4. Shown(x, m, n, more, ev, l)
  BY <1>3 DEF LiveOK, Shown
<1>5. QueuedSync(x, more)
  <2>1. SUFFICES ASSUME NEW k \in 1 .. Len(more), more[k].op = "rpc", Tracked(x, more[k].call.id)
                 PROVE  more[k].call.kind = "subscribe" /\ \A j \in 1 .. Len(more) : j > k => ~ SubCommand(more[j])
    BY DEF QueuedSync
  <2>2. k = Len(cmds) + 1 /\ more[k] = Rpc(c) /\ more[k].call = c
    BY <1>1, <1>2, <2>1, Queued
  <2>3. \A j \in 1 .. Len(more) : ~ (j > k)
    BY <2>2, Queued
  <2> QED BY <1>1, <2>1, <2>2, <2>3
<1>6. SentSync(x, n, more) /\ FrameSync(x, n, more, l)
  BY <1>1, <1>2 DEF SentSync, FrameSync
<1>7. PendingSync(x, m, P, more) /\ ReplySync(x, m, n, more, R, ev, l)
  BY <1>1, <1>2 DEF PendingSync, ReplySync
<1> QED BY <1>4, <1>5, <1>6, <1>7 DEF LiveOK

\* The call is queued, or refused.
Asking(s, job, kind, i) ==
    /\ s.job = Sent(job, i) /\ Unused(i, net, pending, commands, replies) /\ i \notin waiting
    /\ \E c : c.id = i /\ c.kind = kind /\ Rpc(c) \in Command /\ s.cmds = Append(commands, Rpc(c))

\* What sending a call does.
LEMMA SendCallAsks ==
    ASSUME Inv, NEW job, NEW kind \in CallKind, NEW w \in Room, NEW after \in Int, FreshIds # {}, NEW s, s = SendCall(job, kind, w, after)
    PROVE  \/ s.job = Refused(job) /\ s.cmds = commands
           \/ \E i \in Id : Asking(s, job, kind, i)
<1>1. Outcome(s, job, kind, w, after)
  BY SendCallCases
<1>2. CASE s.job = Refused(job) /\ s.cmds = commands
  BY <1>2
<1>3. ASSUME NEW i \in FreshIds, s.job = Sent(job, i),
             s.cmds = Append(commands, Rpc([id |-> i, kind |-> kind, ws |-> w, after |-> after]))
      PROVE  Asking(s, job, kind, i) /\ i \in Id
  <2>1. PICK c : c = [id |-> i, kind |-> kind, ws |-> w, after |-> after]
    OBVIOUS
  <2>2. Fresh(i, net, commands, replies) /\ i \notin waiting /\ i \in Id
    BY FreshOK DEF Fresh
  <2>3. \A p \in pending : p.id # i
    BY DEF FreshIds
  <2>4. c.id = i /\ c.kind = kind /\ c \in Request
    BY <2>1, <2>2 DEF Request
  <2>5. Rpc(c) \in Command
    BY <2>4 DEF Rpc, Command
  <2>6. s.cmds = Append(commands, Rpc(c))
    BY <1>3, <2>1
  <2>7. Unused(i, net, pending, commands, replies)
    BY <2>2, <2>3 DEF Unused
  <2> QED BY <1>3, <2>2, <2>4, <2>5, <2>6, <2>7 DEF Asking
<1> QED BY <1>1, <1>2, <1>3 DEF Outcome

\* A task sends its call.
LEMMA SendOfTasksSync == ASSUME Inv, Inv', AckInv, ChatInv, SyncInv, SendSync \/ SendRecent \/ SendAction PROVE SyncInv'
<1>1. /\ ui \in View /\ commands \in Seq(Command) /\ ViewSync(ui) /\ WaitOK(ui, waiting) /\ SwitchOK(ui)
      /\ Steady(ui, client, net) => LiveOK(ui, client, net, pending, commands, replies, events, log)
  BY SyncFacts
<1>2. UNCHANGED <<net, client, pending, log, events, replies>>
  BY DEF SendSync, SendRecent, SendAction
<1>3. PICK x, more : x = ui' /\ more = commands'
  OBVIOUS
<1>4. ASSUME ViewSync(x), Steady(x, client, net) => LiveOK(x, client, net, pending, more, replies, events, log) PROVE SyncInv'
  BY <1>2, <1>3, <1>4 DEF SyncInv
<1>5. \A i \in Id : i \notin waiting => ~ Tracked(ui, i)
  BY <1>1, FeedAssumption DEF WaitOK, JobId, Tracked
<1>6. replies \in SUBSET replies
  OBVIOUS
<1>7. ASSUME x.ws = ui.ws, x.applied = ui.applied, x.synced = ui.synced, x.sync = ui.sync, x.reset = ui.reset, x.conn = ui.conn
      PROVE  /\ ViewSync(x) /\ (Steady(x, client, net) => Steady(ui, client, net)) /\ \A i : Tracked(x, i) => Tracked(ui, i)
             /\ LiveOK(ui, client, net, pending, commands, replies, events, log)
                => LiveOK(x, client, net, pending, commands, replies, events, log)
  <2>1. ViewSync(x)
    BY <1>1, <1>7 DEF ViewSync
  <2>2. Steady(x, client, net) => Steady(ui, client, net)
    BY <1>7 DEF Steady
  <2>3. Tracks(ui, x)
    BY <1>7, TracksCases
  <2>4. LiveOK(ui, client, net, pending, commands, replies, events, log)
        => LiveOK(x, client, net, pending, commands, replies, events, log)
    BY <1>6, <1>7, <2>3, ViewLive
  <2> QED BY <2>1, <2>2, <2>3, <2>4 DEF Tracks
<1>8. CASE SendSync
  <2>1. PICK job \in Read : job = ui.sync /\ FreshIds # {} /\ ui.sync # None /\ ui.sync.id = None
    BY <1>1, <1>8 DEF SendSync, Unsent, View
  <2>2. PICK kind \in CallKind, after \in Int, w \in Room : /\ kind = job.step /\ w = None
                                                            /\ after = IF job.step = "subscribe" THEN job.after ELSE 0
    BY DEF Read, CallKind, Room
  <2>3. PICK s : s = SendCall(job, kind, w, after)
    OBVIOUS
  <2>4. x = [ui EXCEPT !.sync = s.job] /\ more = s.cmds
    BY <1>3, <1>8, <2>1, <2>2, <2>3 DEF SendSync
  <2>5. x.ws = ui.ws /\ x.applied = ui.applied /\ x.synced = ui.synced /\ x.sync = s.job /\ x.reset = ui.reset /\ x.conn = ui.conn
    BY <1>1, <2>4 DEF View
  <2>6. \/ s.job = Refused(job) /\ s.cmds = commands
        \/ \E i \in Id : Asking(s, job, kind, i)
    BY <2>1, <2>3, SendCallAsks
  <2>7. \A i : ~ Tracked(ui, i)
    BY <2>1 DEF Tracked
  <2>8. s.job.step = job.step /\ s.job.gapped = job.gapped
    BY <2>6 DEF Asking, Sent, Refused, Read
  <2>9. ViewSync(x)
    BY <1>1, <2>1, <2>5, <2>8 DEF ViewSync
  <2>10. Steady(x, client, net) => Steady(ui, client, net)
    BY <2>5 DEF Steady
  <2>11. CASE s.job = Refused(job) /\ s.cmds = commands
    <3>1. s.job.id = None
      BY <2>1, <2>11 DEF Refused, Read
    <3>2. Tracks(ui, x)
      BY <2>5, <3>1, TracksCases
    <3>3. LiveOK(ui, client, net, pending, commands, replies, events, log)
          => LiveOK(x, client, net, pending, commands, replies, events, log)
      BY <1>6, <2>5, <3>2, ViewLive
    <3> QED BY <1>1, <1>4, <2>4, <2>9, <2>10, <2>11, <3>3
  <2>12. CASE \E i \in Id : Asking(s, job, kind, i)
    <3>1. PICK i \in Id : Asking(s, job, kind, i)
      BY <2>12
    <3>2. PICK c : c.id = i /\ c.kind = kind /\ Rpc(c) \in Command /\ s.cmds = Append(commands, Rpc(c))
      BY <3>1 DEF Asking
    <3>3. s.job.id = i
      BY <3>1 DEF Asking, Sent, Read
    <3>4. CASE kind = "unsubscribe"
      <4>1. ~ x.synced /\ \A j : ~ Tracked(x, j)
        BY <1>1, <2>1, <2>2, <2>5, <2>8, <3>4 DEF ViewSync, Tracked
      <4>2. LiveOK(x, client, net, pending, more, replies, events, log)
        BY <4>1, IdleLive
      <4> QED BY <1>4, <2>9, <4>2
    <3>5. CASE kind # "unsubscribe"
      <4>1. Unused(c.id, net, pending, commands, replies)
        BY <3>1, <3>2 DEF Asking
      <4>2. x.sync.id = c.id /\ x.sync.step = c.kind /\ c.kind # "unsubscribe" /\ more = Append(commands, Rpc(c))
        BY <2>2, <2>4, <2>5, <2>8, <3>2, <3>3, <3>5
      <4>3. LiveOK(ui, client, net, pending, commands, replies, events, log)
            => LiveOK(x, client, net, pending, more, replies, events, log)
        BY <1>1, <2>5, <3>2, <4>1, <4>2, SubscribedLive
      <4> QED BY <1>1, <1>4, <2>9, <2>10, <4>3
    <3> QED BY <3>4, <3>5
  <2> QED BY <2>6, <2>11, <2>12
<1>9. CASE SendRecent
  <2>1. PICK job \in Read : job = ui.recent /\ FreshIds # {} /\ ui.recent # None
    BY <1>1, <1>9 DEF SendRecent, Unsent, View
  <2>2. PICK kind \in CallKind, after \in Int, w \in Room : kind = "history" /\ after = 0 /\ w = None
    BY DEF CallKind, Room
  <2>3. PICK s : s = SendCall(job, kind, w, after)
    OBVIOUS
  <2>4. x = [ui EXCEPT !.recent = s.job] /\ more = s.cmds
    BY <1>3, <1>9, <2>1, <2>2, <2>3 DEF SendRecent
  <2>5. x.ws = ui.ws /\ x.applied = ui.applied /\ x.synced = ui.synced /\ x.sync = ui.sync /\ x.reset = ui.reset /\ x.conn = ui.conn
    BY <1>1, <2>4 DEF View
  <2>6. \/ s.job = Refused(job) /\ s.cmds = commands
        \/ \E i \in Id : Asking(s, job, kind, i)
    BY <2>1, <2>3, SendCallAsks
  <2>7. CASE s.job = Refused(job) /\ s.cmds = commands
    BY <1>1, <1>4, <1>7, <2>4, <2>5, <2>7
  <2>8. CASE \E i \in Id : Asking(s, job, kind, i)
    <3>1. PICK i \in Id : Asking(s, job, kind, i)
      BY <2>8
    <3>2. PICK c : c.id = i /\ c.kind = kind /\ Rpc(c) \in Command /\ s.cmds = Append(commands, Rpc(c))
      BY <3>1 DEF Asking
    <3>3. ~ SubscriptionCall(c) /\ ~ Tracked(x, c.id)
      BY <1>5, <1>7, <2>2, <2>5, <3>1, <3>2 DEF SubscriptionCall, Asking
    <3>4. LiveOK(x, client, net, pending, commands, replies, events, log)
          => LiveOK(x, client, net, pending, more, replies, events, log)
      BY <1>1, <2>4, <3>2, <3>3, PlainLive
    <3> QED BY <1>1, <1>4, <1>7, <2>5, <3>4
  <2> QED BY <2>6, <2>7, <2>8
<1>10. CASE SendAction
  <2>1. PICK job \in Action : job = ui.act /\ FreshIds # {} /\ ui.act # None
    BY <1>1, <1>10 DEF SendAction, Unsent, View
  <2>0. PICK after \in Int : after = 0
    OBVIOUS
  <2>2. PICK kind, w : kind = ActionCall(job)[1] /\ w = ActionCall(job)[2] /\ after = 0
    BY <2>0
  <2>3. PICK s : s = SendCall(job, kind, w, after)
    OBVIOUS
  <2>4. x = [ui EXCEPT !.act = s.job] /\ more = s.cmds
    BY <1>3, <1>10, <2>1, <2>2, <2>3 DEF SendAction
  <2>5. x.ws = ui.ws /\ x.applied = ui.applied /\ x.synced = ui.synced /\ x.sync = ui.sync /\ x.reset = ui.reset /\ x.conn = ui.conn
    BY <1>1, <2>4 DEF View
  <2>6. CASE job.step = "post"
    <3>1. kind = "post" /\ kind \in CallKind /\ w = None /\ w \in Room
      BY <2>2, <2>6 DEF ActionCall, CallKind, Room
    <3>2. \/ s.job = Refused(job) /\ s.cmds = commands
          \/ \E i \in Id : Asking(s, job, kind, i)
      BY <2>1, <2>3, <3>1, SendCallAsks
    <3>3. CASE s.job = Refused(job) /\ s.cmds = commands
      BY <1>1, <1>4, <1>7, <2>4, <2>5, <3>3
    <3>4. CASE \E i \in Id : Asking(s, job, kind, i)
      <4>1. PICK i \in Id : Asking(s, job, kind, i)
        BY <3>4
      <4>2. PICK c : c.id = i /\ c.kind = kind /\ Rpc(c) \in Command /\ s.cmds = Append(commands, Rpc(c))
        BY <4>1 DEF Asking
      <4>3. ~ SubscriptionCall(c) /\ ~ Tracked(x, c.id)
        BY <1>5, <1>7, <2>5, <3>1, <4>1, <4>2 DEF SubscriptionCall, Asking
      <4>4. LiveOK(x, client, net, pending, commands, replies, events, log)
            => LiveOK(x, client, net, pending, more, replies, events, log)
        BY <1>1, <2>4, <4>2, <4>3, PlainLive
      <4> QED BY <1>1, <1>4, <1>7, <2>5, <4>4
    <3> QED BY <3>2, <3>3, <3>4
  <2>7. CASE job.step # "post"
    <3>1. InStep(ui, Switch)
      BY <2>1, <2>7 DEF InStep, Switch, Action, Step
    <3>2. ui.sync = None /\ ~ ui.synced
      BY <1>1, <3>1 DEF SwitchOK
    <3>3. ViewSync(x) /\ ~ x.synced /\ \A i : ~ Tracked(x, i)
      BY <2>5, <3>2, NoRead
    <3>4. LiveOK(x, client, net, pending, more, replies, events, log)
      BY <3>3, IdleLive
    <3> QED BY <1>4, <3>3, <3>4
  <2> QED BY <2>6, <2>7
<1> QED BY <1>8, <1>9, <1>10

-----------------------------------------------------------------------------
(* The router.                                                                *)

\* Frames go behind the others.
Extends(n, n2) ==
    /\ Len(n.out) \in Nat /\ Len(n2.out) \in Nat /\ Len(n.out) <= Len(n2.out)
    /\ \A k \in 1 .. Len(n.out) : n2.out[k] = n.out[k]

\* Those before them stay where they are.
LEMMA ExtendsWire ==
    ASSUME NEW n, NEW n2, Extends(n, n2)
    PROVE  /\ \A k \in 1 .. Len(n.out) : k \in 1 .. Len(n2.out) /\ n2.out[k] = n.out[k]
           /\ \A w, x, k : OnWire(n, w, x, k) => OnWire(n2, w, x, k)
           /\ \A m, ev, w, x : Coming(n, m, ev, w, x) => Coming(n2, m, ev, w, x)
<1>1. \A k \in 1 .. Len(n.out) : k \in 1 .. Len(n2.out) /\ n2.out[k] = n.out[k]
  BY DEF Extends
<1>2. \A w, x, k : OnWire(n, w, x, k) => OnWire(n2, w, x, k)
  BY <1>1 DEF OnWire
<1> QED BY <1>1, <1>2 DEF Coming

\* Events are published: the newest one is on the wire, if the room is subscribed to.
Published(n, n2, l, l2) ==
    \A w \in Workspace :
        \/ l2[w] = l[w]
        \/ /\ l2[w] > l[w]
           /\ n.sub /\ n.member = w =>
                \E j \in 1 .. Len(n2.out) : /\ j > Len(n.out) /\ n2.out[j].t = "event"
                                            /\ n2.out[j].ws = w /\ n2.out[j].lo = l2[w]

\* Then the view still hears of it.
LEMMA PublishedLive ==
    ASSUME NEW u, u.ws \in Room, NEW m \in Memory, NEW n, NEW n2, NEW P, NEW cmds, NEW R, NEW ev,
           NEW l \in [Workspace -> Nat], NEW l2 \in [Workspace -> Nat],
           LiveOK(u, m, n, P, cmds, R, ev, l), HighestOK(m, l), u.synced => u.ws # None, Extends(n, n2), n2.req = n.req,
           n2.sub = n.sub, n2.member = n.member, n.member \in Room, Published(n, n2, l, l2),
           \A k \in 1 .. Len(n2.out) : k > Len(n.out) => n2.out[k].id = None
    PROVE  LiveOK(u, m, n2, P, cmds, R, ev, l2)
<1>1. /\ \A k \in 1 .. Len(n.out) : k \in 1 .. Len(n2.out) /\ n2.out[k] = n.out[k]
      /\ \A w, x, k : OnWire(n, w, x, k) => OnWire(n2, w, x, k)
      /\ \A p, e, w, x : Coming(n, p, e, w, x) => Coming(n2, p, e, w, x)
  BY ExtendsWire
<1>2. Len(n.out) \in Nat
  BY DEF Extends
<1>3. ASSUME NEW w \in Workspace, n.sub, n.member = w
      PROVE  \/ l2[w] = l[w]
             \/ Coming(n2, m, ev, w, l2[w]) /\ \A k \in 1 .. Len(n.out) : OnWire(n2, w, l2[w], k)
  <2>1. CASE l2[w] = l[w]
    BY <2>1
  <2>2. CASE l2[w] # l[w]
    <3>1. PICK j \in 1 .. Len(n2.out) : j > Len(n.out) /\ n2.out[j].t = "event" /\ n2.out[j].ws = w /\ n2.out[j].lo = l2[w]
      BY <1>3, <2>2 DEF Published
    <3>2. l2[w] > l[w] /\ l2[w] \in Nat /\ l[w] \in Nat /\ m.highest[w] <= l[w] /\ m.highest[w] \in Int
      BY <1>3, <2>2 DEF Published, HighestOK, Memory
    <3>3. l2[w] > 0 /\ m.highest[w] < l2[w]
      BY <3>2
    <3>4. j > 0 /\ \A k \in 1 .. Len(n.out) : j > k
      BY <1>2, <3>1
    <3>5. OnWire(n2, w, l2[w], 0) /\ \A k \in 1 .. Len(n.out) : OnWire(n2, w, l2[w], k)
      BY <3>1, <3>3, <3>4 DEF OnWire
    <3> QED BY <3>3, <3>5 DEF Coming
  <2> QED BY <2>1, <2>2
<1>4. \A w : LiveAt(n, cmds, w) => LiveAt(n2, cmds, w) /\ w \in Workspace /\ n.sub /\ n.member = w
  BY DEF LiveAt, NoSubs, Room
<1>5. Shown(u, m, n2, cmds, ev, l2)
  <2>1. SUFFICES ASSUME u.synced, n2.member = u.ws
                 PROVE  n2.sub /\ NoUnsubs(cmds, n2) /\ (u.applied = l2[u.ws] \/ Coming(n2, m, ev, u.ws, l2[u.ws]))
    BY DEF Shown
  <2>2. u.ws \in Workspace /\ n.member = u.ws
    BY <2>1 DEF Room
  <2>3. n.sub /\ NoUnsubs(cmds, n) /\ (u.applied = l[u.ws] \/ Coming(n, m, ev, u.ws, l[u.ws]))
    BY <2>1, <2>2 DEF LiveOK, Shown
  <2>4. NoUnsubs(cmds, n2)
    BY <2>3 DEF NoUnsubs
  <2> QED BY <1>1, <1>3, <2>2, <2>3, <2>4
<1>6. QueuedSync(u, cmds) /\ SentSync(u, n2, cmds) /\ PendingSync(u, m, P, cmds)
  BY DEF LiveOK, SentSync
<1>7. FrameSync(u, n2, cmds, l2)
  <2>1. SUFFICES ASSUME NEW k \in 1 .. Len(n2.out), Tracked(u, n2.out[k].id), n2.out[k].live
                 PROVE  /\ n2.out[k].t = "page" /\ LiveAt(n2, cmds, n2.out[k].ws)
                        /\ n2.out[k].hi = l2[n2.out[k].ws] \/ OnWire(n2, n2.out[k].ws, l2[n2.out[k].ws], k)
    BY DEF FrameSync
  <2>2. k \in 1 .. Len(n.out) /\ n2.out[k] = n.out[k]
    <3>1. n2.out[k].id # None
      BY <2>1 DEF Tracked
    <3>2. ~ (k > Len(n.out))
      BY <3>1
    <3> QED BY <1>1, <1>2, <3>2
  <2>3. PICK w : w = n.out[k].ws
    OBVIOUS
  <2>4. n.out[k].t = "page" /\ LiveAt(n, cmds, w) /\ (n.out[k].hi = l[w] \/ OnWire(n, w, l[w], k))
    BY <2>1, <2>2, <2>3 DEF LiveOK, FrameSync
  <2>5. n.out[k].hi = l2[w] \/ OnWire(n2, w, l2[w], k)
    BY <1>1, <1>3, <1>4, <2>2, <2>4
  <2> QED BY <1>4, <2>2, <2>3, <2>4, <2>5
<1>8. ReplySync(u, m, n2, cmds, R, ev, l2)
  <2>1. SUFFICES ASSUME NEW v \in R, Tracked(u, v.id), v.live
                 PROVE  /\ LiveAt(n2, cmds, v.ws)
                        /\ v.ws = u.ws => v.hi = l2[v.ws] \/ u.applied = l2[v.ws] \/ Coming(n2, m, ev, v.ws, l2[v.ws])
    BY DEF ReplySync
  <2>2. LiveAt(n, cmds, v.ws) /\ (v.ws = u.ws => v.hi = l[v.ws] \/ u.applied = l[v.ws] \/ Coming(n, m, ev, v.ws, l[v.ws]))
    BY <2>1 DEF LiveOK, ReplySync
  <2> QED BY <1>1, <1>3, <1>4, <2>2
<1> QED BY <1>5, <1>6, <1>7, <1>8 DEF LiveOK

\* A request is answered; only the last page of a subscription is live.
Answering(n, n2, c, x, l) ==
    /\ x.live => /\ c.kind = "subscribe" /\ n2.sub /\ x.t = "page"
                 /\ x.ws = n.member /\ x.ws # None /\ x.hi = l[x.ws]
    /\ n.sub /\ ~ n2.sub => c.kind = "unsubscribe"

\* Nothing is lost.
LEMMA AnsweringLive ==
    ASSUME NEW u, NEW m, NEW n \in Connection, NEW n2, NEW P, NEW cmds, NEW R, NEW ev, NEW l, LiveOK(u, m, n, P, cmds, R, ev, l),
           n.req # <<>>, NEW c, c = n.req[1], n2.req = Tail(n.req), NEW x, x.id = c.id, Grown(n, n2, x), n2.member = n.member,
           Answering(n, n2, c, x, l)
    PROVE  LiveOK(u, m, n2, P, cmds, R, ev, l)
<1>1. /\ \A k \in 1 .. Len(n2.out) : (k \in 1 .. Len(n.out) /\ n2.out[k] = n.out[k]) \/ n2.out[k] = x
      /\ Extends(n, n2)
  <2>1. \A k \in 1 .. Len(n2.out) : (k \in 1 .. Len(n.out) /\ n2.out[k] = n.out[k]) \/ n2.out[k] = x
    BY GrownFrames
  <2>2. Extends(n, n2)
    BY DEF Grown, Extends
  <2> QED BY <2>1, <2>2
<1>2. /\ \A w, y, k : OnWire(n, w, y, k) => OnWire(n2, w, y, k)
      /\ \A p, e, w, y : Coming(n, p, e, w, y) => Coming(n2, p, e, w, y)
  BY <1>1, ExtendsWire
<1>3. n.req \in Seq(Request) /\ 1 \in 1 .. Len(n.req)
  BY DEF Connection
<1>4. /\ \A k \in 1 .. Len(n2.req) : k + 1 \in 1 .. Len(n.req) /\ n2.req[k] = n.req[k + 1] /\ k + 1 > 1
      /\ \A k \in 1 .. Len(n2.req) : \A j \in 1 .. Len(n2.req) : j > k => j + 1 > k + 1
  BY <1>3
<1>5. NoSubs(cmds, n) => NoSubs(cmds, n2) /\ ~ SubscriptionCall(c)
  BY <1>3, <1>4 DEF NoSubs
<1>6. NoUnsubs(cmds, n) => NoUnsubs(cmds, n2) /\ c.kind # "unsubscribe"
  BY <1>3, <1>4 DEF NoUnsubs
<1>7. \A w : LiveAt(n, cmds, w) => LiveAt(n2, cmds, w)
  BY <1>5 DEF LiveAt, Answering, SubscriptionCall
<1>8. Shown(u, m, n2, cmds, ev, l)
  BY <1>2, <1>6 DEF LiveOK, Shown, Answering
<1>9. QueuedSync(u, cmds) /\ PendingSync(u, m, P, cmds)
  BY DEF LiveOK
<1>10. SentSync(u, n2, cmds)
  BY <1>4 DEF LiveOK, SentSync
<1>11. FrameSync(u, n2, cmds, l)
  <2>1. SUFFICES ASSUME NEW k \in 1 .. Len(n2.out), Tracked(u, n2.out[k].id), n2.out[k].live
                 PROVE  /\ n2.out[k].t = "page" /\ LiveAt(n2, cmds, n2.out[k].ws)
                        /\ n2.out[k].hi = l[n2.out[k].ws] \/ OnWire(n2, n2.out[k].ws, l[n2.out[k].ws], k)
    BY DEF FrameSync
  <2>2. CASE k \in 1 .. Len(n.out) /\ n2.out[k] = n.out[k]
    BY <1>2, <1>7, <2>1, <2>2 DEF LiveOK, FrameSync
  <2>3. CASE n2.out[k] = x
    <3>1. Tracked(u, n.req[1].id)
      BY <2>1, <2>3
    <3>2. FreeQueue(cmds) /\ \A j \in 1 .. Len(n.req) : j > 1 => ~ SubscriptionCall(n.req[j])
      BY <1>3, <3>1 DEF LiveOK, SentSync
    <3>3. NoSubs(cmds, n2)
      BY <1>4, <3>2 DEF NoSubs
    <3> QED BY <2>1, <2>3, <3>3 DEF Answering, LiveAt
  <2> QED BY <1>1, <2>2, <2>3
<1>12. ReplySync(u, m, n2, cmds, R, ev, l)
  BY <1>2, <1>7 DEF LiveOK, ReplySync
<1> QED BY <1>8, <1>9, <1>10, <1>11, <1>12 DEF LiveOK

\* send: the frames are queued, or the connection is gone.
LEMMA SendUp ==
    ASSUME NEW row \in Connection, NEW frames, Send(row, frames), NEW n, n = [row EXCEPT !.out = row.out \o frames]
    PROVE  net' = n \/ ~ net'.up
<1>1. \A s : Closed(s).up = FALSE
  BY DEF Closed
<1> QED BY <1>1 DEF Send

\* The frames behind the others are those of s.
Carries(n, n2, s) ==
    /\ Extends(n, n2)
    /\ \A k \in 1 .. Len(n2.out) : k > Len(n.out) => \E i \in 1 .. Len(s) : n2.out[k] = s[i]
    /\ \A i \in 1 .. Len(s) : \E j \in 1 .. Len(n2.out) : j > Len(n.out) /\ n2.out[j] = s[i]

\* As they are once they are queued.
LEMMA ConcatExtends ==
    ASSUME NEW n \in Connection, NEW s \in Seq(Frame), NEW n2, n2.out = n.out \o s
    PROVE  Carries(n, n2, s)
<1>0. PICK o \in Seq(Frame) : o = n.out
  BY DEF Connection
<1>1. PICK r : o = n.out /\ r = n2.out /\ r = o \o s
  BY <1>0
<1>2. /\ Len(o) \in Nat /\ Len(s) \in Nat /\ Len(r) = Len(o) + Len(s)
      /\ \A k \in 1 .. Len(o) : r[k] = o[k]
      /\ \A k \in 1 .. Len(s) : r[Len(o) + k] = s[k]
  BY <1>1, ConcatOK
<1>3. Extends(n, n2)
  BY <1>1, <1>2 DEF Extends
<1>4. ASSUME NEW k \in 1 .. Len(r), k > Len(o) PROVE \E i \in 1 .. Len(s) : r[k] = s[i]
  <2>1. PICK i \in 1 .. Len(s) : k = Len(o) + i
    <3>1. k - Len(o) \in 1 .. Len(s) /\ k = Len(o) + (k - Len(o))
      BY <1>2, <1>4
    <3> QED BY <3>1
  <2> QED BY <1>2, <2>1
<1>5. ASSUME NEW i \in 1 .. Len(s) PROVE \E j \in 1 .. Len(r) : j > Len(o) /\ r[j] = s[i]
  <2>1. Len(o) + i \in 1 .. Len(r) /\ Len(o) + i > Len(o)
    BY <1>2
  <2> QED BY <1>2, <2>1
<1> QED BY <1>1, <1>3, <1>4, <1>5 DEF Carries

\* A step of the router.
LEMMA RouterSync ==
    ASSUME Inv, Inv', SyncInv, UNCHANGED <<ui, client, pending, commands, replies, events>>,
           \A w \in Workspace : log[w] <= log'[w],
           Steady(ui, client, net') => LiveOK(ui, client, net', pending, commands, replies, events, log')
    PROVE  SyncInv'
<1>1. log \in [Workspace -> Nat] /\ log' \in [Workspace -> Nat] /\ client \in Memory
  BY DEF Inv, TypeOK, FeedTypeOK
<1>0. PICK l \in [Workspace -> Nat] : l = log'
  BY <1>1
<1>2. PICK n : l = log' /\ n = net'
  BY <1>0
<1>3. HighestOK(client, l)
  <2>1. SUFFICES ASSUME NEW w \in Workspace PROVE client.highest[w] <= l[w]
    BY DEF HighestOK
  <2>2. client.highest[w] <= log[w] /\ log[w] <= l[w] /\ client.highest[w] \in Int /\ log[w] \in Nat /\ l[w] \in Nat
    BY <1>1, <1>2 DEF SyncInv, HighestOK, Memory
  <2> QED BY <2>2
<1>4. Steady(ui, client, n) => LiveOK(ui, client, n, pending, commands, replies, events, l)
  BY <1>2
<1> QED BY <1>2, <1>3, <1>4 DEF SyncInv

\* The answer to a request is queued.
LEMMA AnswerQueued ==
    ASSUME Inv, SyncInv, Steady(ui, client, net), net.req # <<>>, NEW c, c = net.req[1],
           NEW r \in Connection, r.out = net.out, r.req = Tail(net.req), r.member = net.member,
           NEW x \in Frame, x.id = c.id, Answering(net, r, c, x, log),
           NEW n, n = [r EXCEPT !.out = Append(r.out, x)]
    PROVE  LiveOK(ui, client, n, pending, commands, replies, events, log)
<1>1. net \in Connection /\ LiveOK(ui, client, net, pending, commands, replies, events, log)
  BY DEF Inv, TypeOK, FeedTypeOK, SyncInv
<1>2. n.out = Append(net.out, x) /\ n.req = Tail(net.req) /\ n.member = net.member /\ n.sub = r.sub
  BY DEF Connection
<1>3. Grown(net, n, x)
  BY <1>1, <1>2, GrownOK
<1>4. Answering(net, n, c, x, log)
  BY <1>2 DEF Answering
<1> QED BY <1>1, <1>2, <1>3, <1>4, AnsweringLive

\* A handler that sends its answer and nothing else.
LEMMA HandledSync ==
    ASSUME Inv, Inv', SyncInv, net.up, net.req # <<>>, NEW c, c = net.req[1], UNCHANGED <<ui, client, pending, commands, replies, events, log>>,
           NEW r \in Connection, r.out = net.out, r.req = Tail(net.req), r.member = net.member,
           NEW x \in Frame, x.id = c.id, Answering(net, r, c, x, log), Send(r, <<x>>)
    PROVE  SyncInv'
<1>1. r.out \in Seq(Frame)
  BY DEF Connection
<1>2. r.out \o <<x>> = Append(r.out, x)
  BY <1>1
<1>3. PICK n : n = [r EXCEPT !.out = Append(r.out, x)]
  OBVIOUS
<1>4. PICK s : s = <<x>>
  OBVIOUS
<1>5. n = [r EXCEPT !.out = r.out \o s] /\ Send(r, s)
  BY <1>2, <1>3, <1>4
<1>6. net' = n \/ ~ net'.up
  BY <1>5, SendUp
<1>7. ASSUME Steady(ui, client, net') PROVE LiveOK(ui, client, net', pending, commands, replies, events, log)
  <2>1. net' = n
    BY <1>6, <1>7 DEF Steady
  <2>2. Steady(ui, client, net)
    BY <1>7 DEF Steady
  <2>3. LiveOK(ui, client, n, pending, commands, replies, events, log)
    BY <1>3, <2>2, AnswerQueued
  <2> QED BY <2>1, <2>3
<1>8. \A w \in Workspace : log[w] <= log'[w]
  BY DEF Inv, TypeOK, FeedTypeOK
<1> QED BY <1>7, <1>8, RouterSync

\* The console is changing rooms: it has no live view.
LEMMA SwitchingSync ==
    ASSUME Inv, Inv', SyncInv, ChatInv, UNCHANGED <<ui, client, pending, commands, replies, events, log>>,
           client.phase = "up" => InStep(ui, Switch)
    PROVE  SyncInv'
<1>1. SwitchOK(ui)
  BY DEF ChatInv, OpenChat, ShowOK
<1>2. ASSUME Steady(ui, client, net') PROVE LiveOK(ui, client, net', pending, commands, replies, events, log)
  <2>1. ui.sync = None /\ ~ ui.synced
    BY <1>1, <1>2 DEF Steady, SwitchOK
  <2>2. \A i : ~ Tracked(ui, i)
    BY <2>1 DEF Tracked
  <2>3. PICK n : n = net'
    OBVIOUS
  <2>4. LiveOK(ui, client, n, pending, commands, replies, events, log)
    BY <2>1, <2>2, IdleLive
  <2> QED BY <2>3, <2>4
<1>3. \A w \in Workspace : log[w] <= log'[w]
  BY DEF Inv, TypeOK, FeedTypeOK
<1> QED BY <1>2, <1>3, RouterSync

\* Events of one room are published.
LEMMA PublishLive ==
    ASSUME Inv, SyncInv, NEW n, n.member \in Room, LiveOK(ui, client, n, pending, commands, replies, events, log),
           NEW n2, Extends(n, n2), n2.req = n.req, n2.sub = n.sub, n2.member = n.member,
           NEW w \in Workspace, NEW j \in Nat, j > 0, NEW l2, l2 = [log EXCEPT ![w] = @ + j],
           n.sub /\ n.member = w =>
               \E i \in 1 .. Len(n2.out) : /\ i > Len(n.out) /\ n2.out[i].t = "event"
                                           /\ n2.out[i].ws = w /\ n2.out[i].lo = log[w] + j,
           \A k \in 1 .. Len(n2.out) : k > Len(n.out) => n2.out[k].id = None
    PROVE  LiveOK(ui, client, n2, pending, commands, replies, events, l2)
<1>1. ui \in View /\ client \in Memory /\ log \in [Workspace -> Nat]
  BY DEF Inv, TypeOK, FeedTypeOK
<1>2. l2 \in [Workspace -> Nat] /\ l2[w] = log[w] + j /\ l2[w] > log[w] /\ \A x \in Workspace : x # w => l2[x] = log[x]
  BY <1>1
<1>3. Published(n, n2, log, l2)
  BY <1>1, <1>2 DEF Published
<1>4. ui.ws \in Room /\ HighestOK(client, log) /\ (ui.synced => ui.ws # None)
  BY <1>1 DEF View, SyncInv, ViewSync
<1>5. l2 \in [Workspace -> Nat]
  BY <1>2
<1> QED BY <1>1, <1>3, <1>4, <1>5, PublishedLive

\* fanout: the frames are queued for the subscriber, or there is none.
LEMMA FanoutSync ==
    ASSUME Inv, Inv', SyncInv, UNCHANGED <<ui, client, pending, commands, replies, events>>,
           NEW w \in Workspace, NEW j \in Nat, j > 0, log' = [log EXCEPT ![w] = @ + j], NEW s \in Seq(Frame),
           \/ UNCHANGED net /\ ~ (net.sub /\ net.member = w)
           \/ Send(net, s),
           \A i \in 1 .. Len(s) : s[i].id = None,
           \E i \in 1 .. Len(s) : s[i].t = "event" /\ s[i].ws = w /\ s[i].lo = log[w] + j
    PROVE  SyncInv'
<1>1. net \in Connection /\ log \in [Workspace -> Nat] /\ net.member \in Room
  BY DEF Inv, TypeOK, FeedTypeOK, Connection
<1>2. \A x \in Workspace : log[x] <= log'[x]
  BY <1>1
<1>3. PICK l2 : l2 = log'
  OBVIOUS
<1>4. PICK n : n = net'
  OBVIOUS
<1>5. ASSUME Steady(ui, client, n) PROVE LiveOK(ui, client, n, pending, commands, replies, events, l2)
  <2>1. CASE UNCHANGED net /\ ~ (net.sub /\ net.member = w)
    <3>1. n = net
      BY <1>4, <2>1
    <3>2. LiveOK(ui, client, net, pending, commands, replies, events, log)
      BY <1>5, <3>1 DEF SyncInv
    <3>3. Extends(net, n)
      BY <1>1, <3>1 DEF Extends, Connection
    <3>4. Len(net.out) \in Nat
      BY <1>1 DEF Connection
    <3>5. \A k \in 1 .. Len(n.out) : k > Len(net.out) => n.out[k].id = None
      BY <3>1, <3>4
    <3>6. n.req = net.req /\ n.sub = net.sub /\ n.member = net.member
      BY <3>1
    <3>7. l2 = [log EXCEPT ![w] = @ + j]
      BY <1>3
    <3> QED BY <1>1, <2>1, <3>2, <3>3, <3>5, <3>6, <3>7, PublishLive
  <2>2. CASE Send(net, s)
    <3>1. PICK n2 : n2 = [net EXCEPT !.out = net.out \o s]
      OBVIOUS
    <3>2. n = n2
      <4>1. net' = n2 \/ ~ net'.up
        BY <1>1, <2>2, <3>1, SendUp
      <4> QED BY <1>4, <1>5, <4>1 DEF Steady
    <3>3. n2.req = net.req /\ n2.sub = net.sub /\ n2.member = net.member /\ n2.out = net.out \o s /\ n2.up = net.up
      BY <1>1, <3>1 DEF Connection
    <3>4. LiveOK(ui, client, net, pending, commands, replies, events, log)
      BY <1>5, <3>2, <3>3 DEF SyncInv, Steady
    <3>5. Carries(net, n2, s)
      <4>1. n2.out = net.out \o s
        BY <3>3
      <4> QED BY <1>1, <4>1, ConcatExtends
    <3>6. \E i \in 1 .. Len(n2.out) : /\ i > Len(net.out) /\ n2.out[i].t = "event"
                                      /\ n2.out[i].ws = w /\ n2.out[i].lo = log[w] + j
      BY <3>5 DEF Carries
    <3>7. \A k \in 1 .. Len(n2.out) : k > Len(net.out) => n2.out[k].id = None
      BY <3>5 DEF Carries
    <3>8. l2 = [log EXCEPT ![w] = @ + j]
      BY <1>3
    <3>10. Extends(net, n2)
      BY <3>5 DEF Carries
    <3>9. LiveOK(ui, client, n2, pending, commands, replies, events, l2)
      BY <1>1, <3>3, <3>4, <3>6, <3>7, <3>8, <3>10, PublishLive
    <3> QED BY <3>2, <3>9
  <2> QED BY <2>1, <2>2
<1> QED BY <1>2, <1>3, <1>4, <1>5, RouterSync

\* The handlers that only read.
LEMMA HandleSync ==
    ASSUME Inv, Inv', ChatInv, SyncInv, UNCHANGED <<ui, client, pending, commands, replies, events>>, net.up, net.req # <<>>,
           NEW c, c = Head(net.req), NEW row, row = [net EXCEPT !.req = Tail(@)],
           \/ c.kind = "join" /\ WorkspaceJoin(row, c)
           \/ c.kind = "leave" /\ WorkspaceLeave(row, c)
           \/ c.kind = "subscribe" /\ WorkspaceSubscribe(row, c)
           \/ c.kind = "unsubscribe" /\ WorkspaceUnsubscribe(row, c)
           \/ c.kind = "history" /\ WorkspaceHistory(row, c)
    PROVE  SyncInv'
<1>1. UNCHANGED <<ui, client, pending, commands, replies, events, log>>
  BY DEF WorkspaceJoin, WorkspaceLeave, WorkspaceSubscribe, WorkspaceUnsubscribe, WorkspaceHistory
<1>2. /\ c \in Request /\ c = net.req[1] /\ RequestOK(c) /\ row \in Connection
      /\ row.up = net.up /\ row.member = net.member /\ row.sub = net.sub
      /\ row.out = net.out /\ row.req = Tail(net.req)
  BY FirstRequest
<1>3. net \in Connection /\ log \in [Workspace -> Nat] /\ row.member \in Room /\ c.after \in Int
  BY <1>2 DEF Inv, TypeOK, FeedTypeOK, Connection, Request
<1>5. \A w \in Room : w # None => log[w] \in Nat /\ w \in Workspace
  BY <1>3 DEF Room
<1>16. PICK none \in Room : none = None
  BY DEF Room
<1>17. PICK zero \in Int : zero = 0
  OBVIOUS
<1>18. PICK no \in BOOLEAN : no = FALSE
  OBVIOUS
<1>6. none = None /\ zero = 0 /\ no = FALSE
  BY <1>16, <1>17, <1>18
<1>9. ASSUME Send(row, <<ErrorFrame(c)>>) PROVE SyncInv'
  <2>1. PICK e : e = Answer("error", c, none, zero, zero, no)
    OBVIOUS
  <2>2. AnswerFrame(e, c, "error", none)
    BY <1>2, <2>1, AnswerTyped
  <2>3. e \in Frame /\ e.t = "error" /\ e.id = c.id
    BY <2>2 DEF AnswerFrame
  <2>4. ~ e.live
    BY <1>6, <2>1 DEF Answer
  <2>5. Answering(net, row, c, e, log)
    BY <1>2, <2>4 DEF Answering
  <2>6. Send(row, <<e>>)
    BY <1>6, <1>9, <2>1 DEF ErrorFrame
  <2> QED BY <1>1, <1>2, <2>3, <2>5, <2>6, HandledSync
<1>10. ASSUME c.kind \in {"join", "leave"} PROVE SyncInv'
  <2>1. 1 \in 1 .. Len(net.req)
    BY <1>3 DEF Connection
  <2>2. RequestChat(ui, client, c)
    BY <1>2, <2>1 DEF ChatInv, OpenChat, CallsOK
  <2>3. client.phase = "up" => Own(ui, c.kind, c.id)
    BY <1>10, <2>2 DEF RequestChat, Exclusive
  <2>4. ASSUME client.phase = "up" PROVE InStep(ui, Switch)
    <3>1. ui.act # None /\ Asks(ui.act.step) \in {"join", "leave"}
      BY <1>10, <2>3, <2>4 DEF Own
    <3>2. ui.act.step \in Switch
      BY <3>1 DEF Asks, Switch
    <3> QED BY <3>1, <3>2 DEF InStep
  <2> QED BY <1>1, <2>4, SwitchingSync
<1>12. ASSUME NEW t \in {"page", "unsubscribed", "history"}, NEW w \in Room, NEW lo \in Int, NEW hi \in Int,
              NEW live \in BOOLEAN, NEW sub \in BOOLEAN, w = row.member, w # None,
              live => c.kind = "subscribe" /\ sub /\ t = "page" /\ hi = log[w],
              row.sub /\ ~ sub => c.kind = "unsubscribe",
              Send([row EXCEPT !.sub = sub], <<Answer(t, c, w, lo, hi, live)>>)
       PROVE  SyncInv'
  <2>1. PICK x : x = Answer(t, c, w, lo, hi, live)
    OBVIOUS
  <2>2. AnswerFrame(x, c, t, w)
    BY <1>2, <2>1, AnswerTyped
  <2>3. x \in Frame /\ x.t = t /\ x.id = c.id /\ x.ws = w
    BY <2>2 DEF AnswerFrame
  <2>4. [row EXCEPT !.sub = sub] \in Connection
    BY <1>2 DEF Connection
  <2>5. PICK r \in Connection : r = [row EXCEPT !.sub = sub]
    BY <2>4
  <2>6. r.out = net.out /\ r.req = Tail(net.req) /\ r.member = net.member /\ r.sub = sub
    BY <1>2, <2>5 DEF Connection
  <2>7. x.live = live /\ x.hi = hi
    BY <2>1 DEF Answer
  <2>8. Answering(net, r, c, x, log)
    BY <1>2, <1>12, <2>3, <2>6, <2>7 DEF Answering
  <2>9. Send(r, <<x>>)
    BY <1>12, <2>1, <2>5
  <2> QED BY <1>1, <1>2, <2>3, <2>6, <2>8, <2>9, HandledSync
<1>13. CASE c.kind = "subscribe" /\ WorkspaceSubscribe(row, c)
  <2>3. CASE row.member = None \/ (row.member # None /\ c.after > log[row.member])
    <3>1. Send(row, <<ErrorFrame(c)>>)
      BY <1>13, <2>3 DEF WorkspaceSubscribe
    <3> QED BY <1>9, <3>1
  <2>4. CASE ~ (row.member = None \/ (row.member # None /\ c.after > log[row.member]))
    <3>1. PICK w \in Workspace : w = row.member /\ w # None
      BY <1>3, <1>5, <2>4
    <3>2. PICK hi \in PageEnds(w, c.after) :
             Send([row EXCEPT !.sub = row.sub \/ hi = log[w]], <<Answer("page", c, w, c.after, hi, hi = log[w])>>)
      BY <1>13, <2>4, <3>1 DEF WorkspaceSubscribe
    <3>3. PICK live \in BOOLEAN : live = (hi = log[w])
      OBVIOUS
    <3>4. PICK sub \in BOOLEAN : sub = (row.sub \/ hi = log[w])
      OBVIOUS
    <3>5. Send([row EXCEPT !.sub = sub], <<Answer("page", c, w, c.after, hi, live)>>)
      BY <3>2, <3>3, <3>4
    <3>6. c.after <= log[w]
      BY <1>3, <2>4, <3>1
    <3>7. hi \in Int /\ w \in Room
      BY <1>3, <3>1, <3>2, <3>6, PageEndsOK DEF Room
    <3>8. PICK t \in {"page", "unsubscribed", "history"} : t = "page"
      OBVIOUS
    <3>9. live => c.kind = "subscribe" /\ sub /\ t = "page" /\ hi = log[w]
      BY <1>13, <3>3, <3>4, <3>8
    <3>10. row.sub => sub
      BY <3>4
    <3> QED BY <1>3, <1>12, <3>1, <3>5, <3>7, <3>8, <3>9, <3>10
  <2> QED BY <2>3, <2>4
<1>14. CASE c.kind = "unsubscribe" /\ WorkspaceUnsubscribe(row, c)
  <2>1. CASE row.member = None
    <3>1. Send(row, <<ErrorFrame(c)>>)
      BY <1>14, <2>1 DEF WorkspaceUnsubscribe
    <3> QED BY <1>9, <3>1
  <2>2. CASE row.member # None
    <3>1. PICK w \in Room : w = row.member /\ w # None
      BY <1>3, <2>2
    <3>2. PICK t \in {"page", "unsubscribed", "history"} : t = "unsubscribed"
      OBVIOUS
    <3>3. Send([row EXCEPT !.sub = no], <<Answer(t, c, w, zero, zero, no)>>)
      BY <1>6, <1>14, <2>2, <3>1, <3>2 DEF WorkspaceUnsubscribe
    <3> QED BY <1>6, <1>12, <1>14, <3>1, <3>3
  <2> QED BY <2>1, <2>2
<1>15. CASE c.kind = "history" /\ WorkspaceHistory(row, c)
  <2>1. CASE row.member = None
    <3>1. Send(row, <<ErrorFrame(c)>>)
      BY <1>15, <2>1 DEF WorkspaceHistory
    <3> QED BY <1>9, <3>1
  <2>2. CASE row.member # None
    <3>1. PICK w \in Workspace : w = row.member /\ w # None
      BY <1>3, <1>5, <2>2
    <3>2. PICK z \in Int, d \in Int : z = 0 /\ d = log[w] - PageLimit
      BY <1>3, FeedAssumption
    <3>3. PICK lo \in Int : lo = Max({z, d}) /\ lo <= log[w]
      <4>1. Max({z, d}) \in Int /\ (Max({z, d}) = z \/ Max({z, d}) = d)
        BY MaxTwo
      <4>2. z <= log[w] /\ d <= log[w]
        BY <1>3, <3>2, FeedAssumption
      <4> QED BY <4>1, <4>2
    <3>4. PICK hi \in PageEnds(w, lo) : Send(row, <<Answer("history", c, w, lo, hi, FALSE)>>)
      BY <1>15, <2>2, <3>1, <3>2, <3>3 DEF WorkspaceHistory
    <3>5. hi \in Int /\ w \in Room
      BY <1>3, <3>1, <3>3, <3>4, PageEndsOK DEF Room
    <3>6. PICK t \in {"page", "unsubscribed", "history"} : t = "history"
      OBVIOUS
    <3>7. PICK sub \in BOOLEAN : sub = row.sub
      BY <1>2 DEF Connection
    <3>8. [row EXCEPT !.sub = sub] = row
      BY <1>2, <3>7 DEF Connection
    <3>9. Send([row EXCEPT !.sub = sub], <<Answer(t, c, w, lo, hi, no)>>)
      BY <1>6, <3>4, <3>6, <3>8
    <3> QED BY <1>6, <1>12, <3>1, <3>5, <3>7, <3>9
  <2> QED BY <2>1, <2>2
<1> QED BY <1>10, <1>13, <1>14, <1>15

\* workspace_post.
LEMMA PostSync ==
    ASSUME Inv, Inv', AckInv, ChatInv, SyncInv, UNCHANGED <<ui, client, pending, commands, replies, events>>, net.up, net.req # <<>>,
           NEW c, c = Head(net.req), NEW row, row = [net EXCEPT !.req = Tail(@)], c.kind = "post", WorkspacePost(row, c)
    PROVE  SyncInv'
<1>1. /\ c \in Request /\ c = net.req[1] /\ row \in Connection
      /\ row.up = net.up /\ row.member = net.member /\ row.sub = net.sub
      /\ row.out = net.out /\ row.req = Tail(net.req)
  BY FirstRequest
<1>2. log \in [Workspace -> Nat] /\ row.member \in Room
  BY <1>1 DEF Inv, TypeOK, FeedTypeOK, Connection
<1>3. net.member = client.desired /\ client.desired # None
  BY <1>1, RequestFacts
<1>5. PICK w \in Workspace : w = row.member /\ w \in Room
  BY <1>1, <1>2, <1>3 DEF Room
<1>6. PICK zero \in Int : zero = 0
  OBVIOUS
<1>7. PICK no \in BOOLEAN : no = FALSE
  OBVIOUS
<1>8. PICK x : x = Answer("posted", c, w, zero, zero, no)
  OBVIOUS
<1>9. AnswerFrame(x, c, "posted", w)
  BY <1>1, <1>5, <1>8, AnswerTyped
<1>10. x \in Frame /\ x.id = c.id
  BY <1>9 DEF AnswerFrame
<1>11. ~ x.live
  BY <1>7, <1>8 DEF Answer
<1>12. w # None
  BY <1>1, <1>3, <1>5
<1>20. Answering(net, row, c, x, log)
  BY <1>1, <1>11 DEF Answering
<1>13. CASE \E p \in posted : p.ws = w
  <2>1. Send(row, <<x>>) /\ UNCHANGED <<ui, client, pending, commands, replies, events, log>>
    BY <1>5, <1>6, <1>7, <1>8, <1>12, <1>13 DEF WorkspacePost
  <2> QED BY <1>1, <1>10, <1>20, <2>1, HandledSync
<1>14. CASE ~ \E p \in posted : p.ws = w
  <2>3. /\ log' = [log EXCEPT ![w] = @ + 1]
        /\ Send(row, <<x>> \o (IF row.sub THEN <<EventFrame(w, log[w] + 1)>> ELSE <<>>))
    <3>1. log' = [log EXCEPT ![w] = @ + 1]
      BY <1>5, <1>12, <1>14 DEF WorkspacePost
    <3>2. Send(row, <<x>> \o (IF row.sub THEN <<EventFrame(w, log[w] + 1)>> ELSE <<>>))
      <4>1. Send(row, <<Answer("posted", c, w, 0, 0, FALSE)>> \o (IF row.sub THEN <<EventFrame(w, log[w] + 1)>> ELSE <<>>))
        BY <1>5, <1>12, <1>14 DEF WorkspacePost
      <4>2. x = Answer("posted", c, w, 0, 0, FALSE)
        BY <1>6, <1>7, <1>8
      <4> QED BY <4>1, <4>2
    <3> QED BY <3>1, <3>2
  <2>7. PICK k \in Int : k = log[w] + 1
    BY <1>2
  <2>8. PICK y : y = EventFrame(w, k)
    OBVIOUS
  <2>9. y \in Frame
    BY <2>8, <1>5 DEF EventFrame, Frame
  <2>10. y.id = None /\ y.t = "event" /\ y.ws = w /\ y.lo = k
    BY <2>8 DEF EventFrame
  <2>11. PICK s : s = <<x>> \o <<y>>
    OBVIOUS
  <2>12. Pair(s, x, y) /\ s \in Seq(Frame)
    BY <1>10, <2>9, <2>11, PairOK DEF Pair
  <2>13. <<x>> \o <<>> = <<x>>
    OBVIOUS
  <2>14. Send(row, s) \/ (~ row.sub /\ Send(row, <<x>>))
    BY <2>3, <2>7, <2>8, <2>11, <2>13
  <2>15. PICK n1 : n1 = [row EXCEPT !.out = Append(row.out, x)]
    OBVIOUS
  <2>16. n1.req = row.req /\ n1.sub = row.sub /\ n1.member = row.member /\ n1.out = Append(row.out, x) /\ n1.up = row.up
    BY <1>1, <2>15 DEF Connection
  <2>17. Steady(ui, client, net) => LiveOK(ui, client, n1, pending, commands, replies, events, log)
    BY <1>1, <1>10, <1>20, <2>15, AnswerQueued
  <2>18. PICK l2 : l2 = log'
    OBVIOUS
  <2>19. PICK n : n = net'
    OBVIOUS
  <2>20. PICK one \in Nat : one = 1 /\ one > 0
    OBVIOUS
  <2>21. l2 = [log EXCEPT ![w] = @ + one] /\ k = log[w] + one
    BY <2>3, <2>7, <2>18, <2>20
  <2>22. ASSUME Steady(ui, client, n) PROVE LiveOK(ui, client, n, pending, commands, replies, events, l2)
    <3>1. Steady(ui, client, net) /\ n.up
      BY <2>22 DEF Steady
    <3>2. LiveOK(ui, client, n1, pending, commands, replies, events, log)
      BY <2>17, <3>1
    <3>3. row.out \in Seq(Frame) /\ n1.member \in Room
      BY <1>1, <1>2, <2>16 DEF Connection
    <3>4. CASE ~ row.sub /\ Send(row, <<x>>)
      <4>1. row.out \o <<x>> = Append(row.out, x)
        BY <3>3
      <4>2. PICK t : t = <<x>>
        OBVIOUS
      <4>3. n1 = [row EXCEPT !.out = row.out \o t] /\ Send(row, t)
        BY <2>15, <3>4, <4>1, <4>2
      <4>4. n = n1
        BY <1>1, <2>19, <3>1, <4>3, SendUp
      <4>5. Len(n1.out) \in Nat /\ Extends(n1, n)
        BY <1>10, <2>16, <3>3, <4>4 DEF Extends
      <4>6. \A i \in 1 .. Len(n.out) : i > Len(n1.out) => n.out[i].id = None
        BY <4>4, <4>5
      <4>7. n.req = n1.req /\ n.sub = n1.sub /\ n.member = n1.member /\ ~ n1.sub
        BY <2>16, <3>4, <4>4
      <4> QED BY <2>20, <2>21, <3>2, <3>3, <4>5, <4>6, <4>7, PublishLive
    <3>5. CASE Send(row, s)
      <4>1. PICK n2 : n2 = [row EXCEPT !.out = row.out \o s]
        OBVIOUS
      <4>2. n2.req = row.req /\ n2.sub = row.sub /\ n2.member = row.member /\ n2.out = row.out \o s
        BY <1>1, <4>1 DEF Connection
      <4>3. n = n2
        BY <1>1, <2>19, <3>1, <3>5, <4>1, SendUp
      <4>4. Grown(n1, n2, y)
        BY <1>10, <2>9, <2>12, <2>16, <3>3, <4>2, PairGrown
      <4>5. /\ Extends(n1, n2) /\ Len(n2.out) = Len(n1.out) + 1 /\ n2.out[Len(n1.out) + 1] = y /\ Len(n1.out) \in Nat
        BY <4>4 DEF Grown, Extends
      <4>6. \A i \in 1 .. Len(n2.out) : i > Len(n1.out) => n2.out[i].id = None
        BY <2>10, <4>5
      <4>7. Len(n1.out) + 1 \in 1 .. Len(n2.out) /\ Len(n1.out) + 1 > Len(n1.out)
        BY <4>5
      <4>8. \E i \in 1 .. Len(n2.out) : /\ i > Len(n1.out) /\ n2.out[i].t = "event"
                                        /\ n2.out[i].ws = w /\ n2.out[i].lo = log[w] + one
        BY <2>10, <2>21, <4>5, <4>7
      <4>9. n2.req = n1.req /\ n2.sub = n1.sub /\ n2.member = n1.member
        BY <2>16, <4>2
      <4>10. LiveOK(ui, client, n2, pending, commands, replies, events, l2)
        BY <2>20, <2>21, <3>2, <3>3, <4>5, <4>6, <4>8, <4>9, PublishLive
      <4> QED BY <4>3, <4>10
    <3> QED BY <2>14, <3>4, <3>5
  <2>23. \A v \in Workspace : log[v] <= log'[v]
    BY <1>2, <2>3
  <2> QED BY <2>18, <2>19, <2>22, <2>23, RouterSync
<1> QED BY <1>13, <1>14

\* Every step of the router.
LEMMA RouterStepSync == ASSUME Inv, Inv', AckInv, ChatInv, SyncInv, RouterStep, UNCHANGED ui PROVE SyncInv'
<1>1. net \in Connection /\ log \in [Workspace -> Nat]
  BY DEF Inv, TypeOK, FeedTypeOK
<1>2. UNCHANGED <<ui, client, pending, commands, replies, events>>
  BY DEF RouterStep, RouterHandle, Cut, Publish, PublishNested
<1>4. ASSUME NEW w \in Workspace, NEW j \in Nat, NEW f, f = EventFrame(w, log[w] + j)
      PROVE  f \in Frame /\ f.id = None /\ f.t = "event" /\ f.ws = w /\ f.lo = log[w] + j
  <2>0. PICK k \in Int : k = log[w] + j
    BY <1>1
  <2>1. f \in Frame
    BY <1>4, <2>0 DEF EventFrame, Frame, Room
  <2> QED BY <1>4, <2>1 DEF EventFrame
<1>6. CASE RouterHandle
  <2>1. PICK c, row : c = Head(net.req) /\ row = [net EXCEPT !.req = Tail(@)]
    OBVIOUS
  <2>2. /\ net.up /\ net.req # <<>>
        /\ \/ c.kind = "join" /\ WorkspaceJoin(row, c)
           \/ c.kind = "leave" /\ WorkspaceLeave(row, c)
           \/ c.kind = "subscribe" /\ WorkspaceSubscribe(row, c)
           \/ c.kind = "unsubscribe" /\ WorkspaceUnsubscribe(row, c)
           \/ c.kind = "history" /\ WorkspaceHistory(row, c)
           \/ c.kind = "post" /\ WorkspacePost(row, c)
    BY <1>6, <2>1 DEF RouterHandle
  <2>3. CASE c.kind = "post" /\ WorkspacePost(row, c)
    BY <1>2, <2>1, <2>2, <2>3, PostSync
  <2>4. CASE ~ (c.kind = "post" /\ WorkspacePost(row, c))
    <3>1. \/ c.kind = "join" /\ WorkspaceJoin(row, c)
          \/ c.kind = "leave" /\ WorkspaceLeave(row, c)
          \/ c.kind = "subscribe" /\ WorkspaceSubscribe(row, c)
          \/ c.kind = "unsubscribe" /\ WorkspaceUnsubscribe(row, c)
          \/ c.kind = "history" /\ WorkspaceHistory(row, c)
      BY <2>2, <2>4
    <3> QED BY <1>2, <2>1, <2>2, <3>1, HandleSync
  <2> QED BY <2>3, <2>4
<1>7. CASE Cut
  <2>1. PICK k \in 0 .. Len(net.out) : net' = Closed(SubSeq(net.out, 1, k))
    BY <1>7 DEF Cut
  <2>2. ~ net'.up
    BY <2>1 DEF Closed
  <2>3. UNCHANGED log
    BY <1>7 DEF Cut
  <2>4. \A w \in Workspace : log[w] <= log'[w]
    BY <1>1, <2>3
  <2>5. ~ Steady(ui, client, net')
    BY <2>2 DEF Steady
  <2> QED BY <1>2, <2>4, <2>5, RouterSync
<1>8. ASSUME NEW w \in Workspace, Publish(w) PROVE SyncInv'
  <2>1. PICK j \in Nat : j = 1 /\ j > 0
    OBVIOUS
  <2>2. PICK f : f = EventFrame(w, log[w] + j)
    OBVIOUS
  <2>3. f \in Frame /\ f.id = None /\ f.t = "event" /\ f.ws = w /\ f.lo = log[w] + j
    BY <1>4, <2>2
  <2>4. <<f>> \in Seq(Frame)
    BY <2>3
  <2>5. PICK s \in Seq(Frame) : s = <<f>>
    BY <2>4
  <2>6. (UNCHANGED net /\ ~ (net.sub /\ net.member = w)) \/ Send(net, s)
    BY <1>8, <2>1, <2>2, <2>5 DEF Publish
  <2>7. log' = [log EXCEPT ![w] = @ + j]
    BY <1>8, <2>1 DEF Publish
  <2>8. Len(s) = 1 /\ s[1] = f
    BY <2>5
  <2>9. \A i \in 1 .. Len(s) : s[i].id = None
    BY <2>3, <2>8
  <2>10. \E i \in 1 .. Len(s) : s[i].t = "event" /\ s[i].ws = w /\ s[i].lo = log[w] + j
    BY <2>3, <2>8
  <2> QED BY <1>2, <2>1, <2>6, <2>7, <2>9, <2>10, FanoutSync
<1>9. ASSUME NEW w \in Workspace, PublishNested(w) PROVE SyncInv'
  <2>1. PICK j \in Nat : j = 3 /\ j > 0
    OBVIOUS
  <2>2. PICK f : f = EventFrame(w, log[w] + 1)
    OBVIOUS
  <2>3. PICK g : g = EventFrame(w, log[w] + j)
    OBVIOUS
  <2>4. PICK h : h = EventFrame(w, log[w] + 2)
    OBVIOUS
  <2>5. f \in Frame /\ f.id = None
    BY <1>4, <2>2
  <2>6. g \in Frame /\ g.id = None /\ g.t = "event" /\ g.ws = w /\ g.lo = log[w] + j
    BY <1>4, <2>3
  <2>7. h \in Frame /\ h.id = None
    BY <1>4, <2>4
  <2>8. <<f, g, h>> \in Seq(Frame)
    BY <2>5, <2>6, <2>7
  <2>9. PICK s \in Seq(Frame) : s = <<f, g, h>>
    BY <2>8
  <2>10. (UNCHANGED net /\ ~ (net.sub /\ net.member = w)) \/ Send(net, s)
    BY <1>9, <2>1, <2>2, <2>3, <2>4, <2>9 DEF PublishNested
  <2>11. log' = [log EXCEPT ![w] = @ + j]
    BY <1>9, <2>1 DEF PublishNested
  <2>12. Len(s) = 3 /\ s[1] = f /\ s[2] = g /\ s[3] = h
    BY <2>9
  <2>13. \A i \in 1 .. Len(s) : s[i].id = None
    <3>1. \A i \in 1 .. Len(s) : i = 1 \/ i = 2 \/ i = 3
      BY <2>12
    <3> QED BY <2>5, <2>6, <2>7, <2>12, <3>1
  <2>14. \E i \in 1 .. Len(s) : s[i].t = "event" /\ s[i].ws = w /\ s[i].lo = log[w] + j
    <3>1. 2 \in 1 .. Len(s)
      BY <2>12
    <3> QED BY <2>6, <2>12, <3>1
  <2> QED BY <1>2, <2>1, <2>10, <2>11, <2>13, <2>14, FanoutSync
<1> QED BY <1>6, <1>7, <1>8, <1>9 DEF RouterStep

-----------------------------------------------------------------------------
(* The client.                                                                *)

\* A step of the client.
LEMMA ClientSync ==
    ASSUME SyncInv, UNCHANGED <<ui, log>>, HighestOK(client', log),
           Steady(ui, client', net') => LiveOK(ui, client', net', pending', commands', replies', events', log)
    PROVE  SyncInv'
<1>1. PICK m, n, P, cmds, R, ev : m = client' /\ n = net' /\ P = pending' /\ cmds = commands' /\ R = replies' /\ ev = events'
  OBVIOUS
<1>2. HighestOK(m, log) /\ (Steady(ui, m, n) => LiveOK(ui, m, n, P, cmds, R, ev, log))
  BY <1>1
<1> QED BY <1>1, <1>2 DEF SyncInv

\* The connection is not one the console has seen.
LEMMA UnsteadySync ==
    ASSUME SyncInv, UNCHANGED <<ui, log>>, NEW m, m = client', HighestOK(m, log), m.phase # "up" \/ m.news
    PROVE  SyncInv'
<1>1. ~ Steady(ui, m, net')
  BY DEF Steady
<1> QED BY <1>1, ClientSync

\* The events that were enqueued are no others.
LEMMA SameHighest ==
    ASSUME SyncInv, NEW m, m.highest = client.highest
    PROVE  HighestOK(m, log)
BY DEF SyncInv, HighestOK

\* The commands behind the first one.
Rest(rest, cmds) ==
    /\ 1 \in 1 .. Len(cmds)
    /\ \A k \in 1 .. Len(rest) : k + 1 \in 1 .. Len(cmds) /\ rest[k] = cmds[k + 1]

\* What holds of all commands holds of them.
LEMMA RestFree ==
    ASSUME NEW rest, NEW cmds, Rest(rest, cmds)
    PROVE  /\ FreeQueue(cmds) => FreeQueue(rest)
           /\ \A u : QueuedSync(u, cmds) => QueuedSync(u, rest)
<1>1. FreeQueue(cmds) => FreeQueue(rest)
  BY DEF FreeQueue, Rest
<1>2. ASSUME NEW u, QueuedSync(u, cmds) PROVE QueuedSync(u, rest)
  <2>1. SUFFICES ASSUME NEW k \in 1 .. Len(rest), rest[k].op = "rpc", Tracked(u, rest[k].call.id)
                 PROVE  rest[k].call.kind = "subscribe" /\ \A j \in 1 .. Len(rest) : j > k => ~ SubCommand(rest[j])
    BY DEF QueuedSync
  <2>2. k + 1 \in 1 .. Len(cmds) /\ rest[k] = cmds[k + 1]
    BY DEF Rest
  <2>3. cmds[k + 1].call.kind = "subscribe" /\ \A j \in 1 .. Len(cmds) : j > k + 1 => ~ SubCommand(cmds[j])
    BY <1>2, <2>1, <2>2 DEF QueuedSync
  <2>4. ASSUME NEW j \in 1 .. Len(rest), j > k PROVE ~ SubCommand(rest[j])
    <3>1. j + 1 \in 1 .. Len(cmds) /\ rest[j] = cmds[j + 1] /\ j + 1 > k + 1
      BY <2>4 DEF Rest
    <3> QED BY <2>3, <3>1
  <2> QED BY <2>2, <2>3, <2>4
<1> QED BY <1>1, <1>2

\* A command that sends nothing is taken.
LEMMA TakenCommandLive ==
    ASSUME NEW u, NEW m, NEW m2, NEW n, NEW P, NEW P2 \in SUBSET P, NEW cmds, NEW rest, NEW R, NEW ev, NEW l,
           LiveOK(u, m, n, P, cmds, R, ev, l), Rest(rest, cmds), m2.desired = m.desired, m2.highest = m.highest
    PROVE  LiveOK(u, m2, n, P2, rest, R, ev, l)
<1>1. (FreeQueue(cmds) => FreeQueue(rest)) /\ QueuedSync(u, rest)
  BY RestFree DEF LiveOK
<1>2. \A w : LiveAt(n, cmds, w) => LiveAt(n, rest, w)
  BY <1>1 DEF LiveAt, NoSubs
<1>3. NoUnsubs(cmds, n) => NoUnsubs(rest, n)
  BY DEF NoUnsubs, Rest
<1>4. \A w, x : Coming(n, m, ev, w, x) => Coming(n, m2, ev, w, x)
  BY DEF Coming
<1>5. Shown(u, m2, n, rest, ev, l)
  BY <1>3, <1>4 DEF LiveOK, Shown
<1>6. SentSync(u, n, rest)
  BY <1>1 DEF LiveOK, SentSync
<1>7. FrameSync(u, n, rest, l)
  BY <1>2 DEF LiveOK, FrameSync
<1>8. PendingSync(u, m2, P2, rest)
  BY <1>1 DEF LiveOK, PendingSync
<1>9. ReplySync(u, m2, n, rest, R, ev, l)
  BY <1>2, <1>4 DEF LiveOK, ReplySync
<1> QED BY <1>1, <1>5, <1>6, <1>7, <1>8, <1>9 DEF LiveOK

\* The calls that are pending once c is sent: a subscription call outdates the others.
Outdates(P, P2, c, m) ==
    \A q \in P2 : \/ q.id = c.id /\ q.kind = c.kind /\ (SubscriptionCall(c) => q.latest /\ q.ws = m.desired)
                  \/ q \in P /\ ~ SubscriptionCall(c)
                  \/ SubscriptionCall(c) /\ \E p \in P : q.id = p.id

\* A call is sent.
LEMMA PushedLive ==
    ASSUME NEW u, NEW m, NEW n \in Connection, NEW n2, NEW P, NEW P2, NEW cmds, NEW rest, NEW R, NEW ev, NEW l,
           LiveOK(u, m, n, P, cmds, R, ev, l), Rest(rest, cmds), NEW c, cmds[1].op = "rpc", c = cmds[1].call,
           n2.req = Append(n.req, c), n2.out = n.out, n2.member = n.member, n2.sub = n.sub, Outdates(P, P2, c, m)
    PROVE  LiveOK(u, m, n2, P2, rest, R, ev, l)
<1>1. (FreeQueue(cmds) => FreeQueue(rest)) /\ QueuedSync(u, rest)
  BY RestFree DEF LiveOK
<1>2. FreeQueue(cmds) => ~ SubscriptionCall(c)
  BY DEF FreeQueue, SubCommand, Rest
<1>3. /\ Len(n.req) \in Nat /\ Len(n2.req) = Len(n.req) + 1 /\ n2.req[Len(n.req) + 1] = c
      /\ \A k \in 1 .. Len(n.req) : n2.req[k] = n.req[k]
  <2>1. PICK s : s = n.req /\ s \in Seq(Request)
    BY DEF Connection
  <2>2. Append(s, c) \in Seq(Request \cup {c}) /\ s \in Seq(Request \cup {c})
    BY <2>1
  <2>3. /\ Len(s) \in Nat /\ Len(Append(s, c)) = Len(s) + 1 /\ Append(s, c)[Len(s) + 1] = c
        /\ \A k \in 1 .. Len(s) : Append(s, c)[k] = s[k]
    BY <2>2
  <2> QED BY <2>1, <2>3
<1>4. \A k \in 1 .. Len(n2.req) : (k \in 1 .. Len(n.req) /\ n2.req[k] = n.req[k]) \/ (k = Len(n.req) + 1 /\ n2.req[k] = c)
  BY <1>3
<1>5. NoSubs(cmds, n) => NoSubs(rest, n2)
  BY <1>1, <1>2, <1>4 DEF NoSubs
<1>6. \A w : LiveAt(n, cmds, w) => LiveAt(n2, rest, w)
  BY <1>5 DEF LiveAt
<1>7. ASSUME NoUnsubs(cmds, n) PROVE NoUnsubs(rest, n2)
  <2>1. c.kind # "unsubscribe"
    BY <1>7 DEF NoUnsubs, IsCall, Rest
  <2>2. \A k \in 1 .. Len(rest) : ~ IsCall(rest[k], "unsubscribe")
    BY <1>7 DEF NoUnsubs, Rest
  <2> QED BY <1>4, <1>7, <2>1, <2>2 DEF NoUnsubs
<1>8. (\A w, x, k : OnWire(n, w, x, k) => OnWire(n2, w, x, k)) /\ \A w, x : Coming(n, m, ev, w, x) => Coming(n2, m, ev, w, x)
  BY DEF Coming, OnWire
<1>9. Shown(u, m, n2, rest, ev, l)
  BY <1>7, <1>8 DEF LiveOK, Shown
<1>10. Tracked(u, c.id) => c.kind = "subscribe" /\ FreeQueue(rest)
  <2>1. SUFFICES ASSUME Tracked(u, c.id) PROVE c.kind = "subscribe" /\ FreeQueue(rest)
    OBVIOUS
  <2>2. 1 \in 1 .. Len(cmds) /\ QueuedSync(u, cmds)
    BY DEF Rest, LiveOK
  <2>3. c.kind = "subscribe" /\ \A j \in 1 .. Len(cmds) : j > 1 => ~ SubCommand(cmds[j])
    BY <2>1, <2>2 DEF QueuedSync
  <2>4. \A k \in 1 .. Len(rest) : k + 1 \in 1 .. Len(cmds) /\ rest[k] = cmds[k + 1] /\ k + 1 > 1
    BY DEF Rest
  <2> QED BY <2>3, <2>4 DEF FreeQueue
<1>11. SentSync(u, n2, rest)
  <2>1. SUFFICES ASSUME NEW k \in 1 .. Len(n2.req), Tracked(u, n2.req[k].id)
                 PROVE  /\ n2.req[k].kind = "subscribe" /\ FreeQueue(rest)
                        /\ \A j \in 1 .. Len(n2.req) : j > k => ~ SubscriptionCall(n2.req[j])
    BY DEF SentSync
  <2>2. CASE k \in 1 .. Len(n.req) /\ n2.req[k] = n.req[k]
    <3>1. /\ n.req[k].kind = "subscribe" /\ FreeQueue(cmds)
          /\ \A j \in 1 .. Len(n.req) : j > k => ~ SubscriptionCall(n.req[j])
      BY <2>1, <2>2 DEF LiveOK, SentSync
    <3> QED BY <1>1, <1>2, <1>4, <2>2, <3>1
  <2>3. CASE k = Len(n.req) + 1 /\ n2.req[k] = c
    <3>1. \A j \in 1 .. Len(n2.req) : ~ (j > k)
      BY <1>3, <2>3
    <3> QED BY <1>10, <2>1, <2>3, <3>1
  <2> QED BY <1>4, <2>2, <2>3
<1>12. FrameSync(u, n2, rest, l)
  <2>1. SUFFICES ASSUME NEW k \in 1 .. Len(n2.out), Tracked(u, n2.out[k].id), n2.out[k].live
                 PROVE  /\ n2.out[k].t = "page" /\ LiveAt(n2, rest, n2.out[k].ws)
                        /\ n2.out[k].hi = l[n2.out[k].ws] \/ OnWire(n2, n2.out[k].ws, l[n2.out[k].ws], k)
    BY DEF FrameSync
  <2> QED BY <1>6, <1>8, <2>1 DEF LiveOK, FrameSync
<1>13. PendingSync(u, m, P2, rest)
  <2>1. SUFFICES ASSUME NEW q \in P2, Tracked(u, q.id)
                 PROVE  q.latest /\ q.kind = "subscribe" /\ q.ws = m.desired /\ FreeQueue(rest)
    BY DEF PendingSync
  <2>2. \A p \in P : Tracked(u, p.id) => p.latest /\ p.kind = "subscribe" /\ p.ws = m.desired /\ FreeQueue(cmds)
    BY DEF LiveOK, PendingSync
  <2>3. CASE q.id = c.id /\ q.kind = c.kind /\ (SubscriptionCall(c) => q.latest /\ q.ws = m.desired)
    BY <1>10, <2>1, <2>3 DEF SubscriptionCall
  <2>4. CASE q \in P
    BY <1>1, <2>1, <2>2, <2>4
  <2>5. CASE SubscriptionCall(c) /\ \E p \in P : q.id = p.id
    BY <1>2, <2>1, <2>2, <2>5
  <2> QED BY <2>3, <2>4, <2>5 DEF Outdates
<1>14. ReplySync(u, m, n2, rest, R, ev, l)
  BY <1>6, <1>8 DEF LiveOK, ReplySync
<1> QED BY <1>1, <1>9, <1>11, <1>12, <1>13, <1>14 DEF LiveOK

\* The calls that are pending once c is sent.
LEMMA SendRpcOutdates ==
    ASSUME pending \in SUBSET PendingCall, NEW c, SendRpc(c), NEW P, P = pending'
    PROVE  Outdates(pending, P, c, client)
<1>1. PICK entry : entry = [id |-> c.id, kind |-> c.kind, after |-> c.after, latest |-> SubscriptionCall(c),
                            ws |-> IF SubscriptionCall(c) THEN client.desired ELSE None]
  OBVIOUS
<1>2. P = (IF SubscriptionCall(c) THEN {[p EXCEPT !.latest = FALSE] : p \in pending} ELSE pending) \cup {entry}
  BY <1>1 DEF SendRpc
<1>3. /\ entry.id = c.id /\ entry.kind = c.kind /\ entry.latest = SubscriptionCall(c)
      /\ SubscriptionCall(c) => entry.ws = client.desired
  BY <1>1
<1>4. ASSUME NEW q \in P
      PROVE  \/ q.id = c.id /\ q.kind = c.kind /\ (SubscriptionCall(c) => q.latest /\ q.ws = client.desired)
             \/ q \in pending /\ ~ SubscriptionCall(c)
             \/ SubscriptionCall(c) /\ \E p \in pending : q.id = p.id
  <2>1. CASE q = entry
    BY <1>3, <2>1
  <2>2. CASE SubscriptionCall(c) /\ q # entry
    <3>1. PICK p \in pending : q = [p EXCEPT !.latest = FALSE]
      BY <1>2, <1>4, <2>2
    <3>2. q.id = p.id
      BY <3>1 DEF PendingCall
    <3> QED BY <2>2, <3>2
  <2>3. CASE ~ SubscriptionCall(c) /\ q # entry
    BY <1>2, <1>4, <2>3
  <2> QED BY <2>1, <2>2, <2>3
<1> QED BY <1>4 DEF Outdates

\* The pump takes a command.
LEMMA PumpCommandSync == ASSUME Inv, AckInv, ChatInv, SyncInv, PumpCommand, UNCHANGED ui PROVE SyncInv'
<1>1. client.phase = "up" /\ commands # <<>> /\ commands' = Tail(commands) /\ UNCHANGED <<ui, log, events>>
  BY DEF PumpCommand
<1>2. PICK cmds : cmds = Tail(commands)
  OBVIOUS
<1>3. /\ commands[1] \in Command /\ CommandOK(commands[1], log) /\ Head(commands) = commands[1]
      /\ commands[1].op = "cancel" => commands[1].id \notin waiting
  BY <1>1, <1>2, TailChat
<1>4. Rest(cmds, commands)
  BY <1>1, <1>2, TailOK DEF Rest
<1>5. net \in Connection /\ client \in Memory /\ pending \in SUBSET PendingCall /\ pending \in SUBSET pending
  BY Facts
<1>6. HighestOK(client, log)
  BY DEF SyncInv
<1>7. CASE commands[1].op = "rpc" /\ PumpRpc(commands[1].call)
  <2>1. PICK c : c = commands[1].call
    OBVIOUS
  <2>2. CASE SendRpc(c) /\ net' = (IF net.up THEN [net EXCEPT !.req = Append(@, c)] ELSE net) /\ UNCHANGED <<client, replies>>
    <3>1. PICK n, P : n = net' /\ P = pending'
      OBVIOUS
    <3>2. ASSUME Steady(ui, client, n) PROVE LiveOK(ui, client, n, P, cmds, replies, events, log)
      <4>1. net.up
        BY <2>2, <3>1, <3>2 DEF Steady
      <4>2. n = [net EXCEPT !.req = Append(net.req, c)]
        BY <2>2, <3>1, <4>1
      <4>3. n.req = Append(net.req, c) /\ n.out = net.out /\ n.member = net.member /\ n.sub = net.sub
        BY <1>5, <4>2 DEF Connection
      <4>4. LiveOK(ui, client, net, pending, commands, replies, events, log)
        BY <3>2, <4>1 DEF SyncInv, Steady
      <4>5. Outdates(pending, P, c, client)
        BY <1>5, <2>2, <3>1, SendRpcOutdates
      <4> QED BY <1>4, <1>5, <1>7, <2>1, <4>3, <4>4, <4>5, PushedLive
    <3> QED BY <1>1, <1>2, <1>6, <2>2, <3>1, <3>2, ClientSync
  <2>3. CASE client' = [client EXCEPT !.phase = "down", !.news = TRUE]
    <3>1. PICK m : m = client'
      OBVIOUS
    <3>2. m.phase # "up" /\ m.highest = client.highest
      BY <1>5, <2>3, <3>1 DEF Memory
    <3>3. HighestOK(m, log)
      BY <3>2, SameHighest
    <3> QED BY <1>1, <3>1, <3>2, <3>3, UnsteadySync
  <2> QED BY <1>7, <2>1, <2>2, <2>3 DEF PumpRpc
<1>8. CASE commands[1].op = "cancel" /\ PumpCancel(commands[1].id)
  <2>1. PICK call : call = {p \in pending : p.id = commands[1].id}
    OBVIOUS
  <2>2. CASE \E p \in call : p.kind = "leave"
    <3>1. PICK m : m = client'
      OBVIOUS
    <3>2. m = [client EXCEPT !.phase = "down", !.news = TRUE, !.desired = None, !.subscribed = None]
      BY <1>8, <2>1, <2>2, <3>1 DEF PumpCancel
    <3>3. m.phase # "up" /\ m.highest = client.highest
      BY <1>5, <3>2 DEF Memory
    <3>4. HighestOK(m, log)
      BY <3>3, SameHighest
    <3> QED BY <1>1, <3>1, <3>3, <3>4, UnsteadySync
  <2>3. CASE ~ \E p \in call : p.kind = "leave"
    <3>1. PICK P : P = pending'
      OBVIOUS
    <3>2. P = pending \ call /\ UNCHANGED <<client, net, replies>>
      BY <1>8, <2>1, <2>3, <3>1 DEF PumpCancel
    <3>3. P \in SUBSET pending
      BY <3>2
    <3>4. ASSUME Steady(ui, client, net) PROVE LiveOK(ui, client, net, P, cmds, replies, events, log)
      <4>1. LiveOK(ui, client, net, pending, commands, replies, events, log)
        BY <3>4 DEF SyncInv
      <4> QED BY <1>4, <3>3, <4>1, TakenCommandLive
    <3> QED BY <1>1, <1>2, <1>6, <3>1, <3>2, <3>4, ClientSync
  <2> QED BY <2>2, <2>3
<1>9. CASE commands[1].op = "ack" /\ client' = AdvanceCursor(client, commands[1].ws, commands[1].seq)
           /\ UNCHANGED <<net, pending, replies>>
  <2>1. PICK m : m = client'
    OBVIOUS
  <2>2. m.phase = client.phase /\ m.desired = client.desired
    BY <1>3, <1>9, <2>1, AdvanceDesired
  <2>3. m.highest = client.highest /\ m.news = client.news
    BY <1>5, <1>9, <2>1 DEF AdvanceCursor, Memory
  <2>4. HighestOK(m, log)
    BY <2>3, SameHighest
  <2>5. ASSUME Steady(ui, m, net) PROVE LiveOK(ui, m, net, pending, cmds, replies, events, log)
    <3>1. LiveOK(ui, client, net, pending, commands, replies, events, log)
      BY <2>2, <2>3, <2>5 DEF SyncInv, Steady
    <3> QED BY <1>4, <1>5, <2>2, <2>3, <3>1, TakenCommandLive
  <2> QED BY <1>1, <1>2, <1>9, <2>1, <2>4, <2>5, ClientSync
<1> QED BY <1>1, <1>3, <1>7, <1>8, <1>9 DEF PumpCommand

\* The channel loses nothing.
KeepsEvents(ev, ev2) == \A w, x : InChannel(ev, w, x) => InChannel(ev2, w, x)

\* The newest event of every room will still reach the view.
Hears(n, m, ev, n2, m2, ev2, l) ==
    \A w \in Workspace : Coming(n, m, ev, w, l[w]) => Coming(n2, m2, ev2, w, l[w])

\* An event behind the frame that is taken.
LEMMA PoppedWire ==
    ASSUME NEW n \in Connection, NEW n2, Popped(n, n2), NEW w, NEW x, NEW k \in Nat, OnWire(n, w, x, k + 1)
    PROVE  OnWire(n2, w, x, k)
<1>1. PICK j \in 1 .. Len(n.out) : x > 0 /\ j > k + 1 /\ n.out[j].t = "event" /\ n.out[j].ws = w /\ n.out[j].lo = x
  BY DEF OnWire
<1>2. Len(n2.out) = Len(n.out) - 1 /\ Len(n.out) \in Nat
  <2>1. n.out \in Seq(Frame)
    BY DEF Connection
  <2> QED BY <2>1 DEF Popped
<1>3. j - 1 \in 1 .. Len(n2.out) /\ (j - 1) + 1 = j /\ j - 1 > k
  BY <1>1, <1>2
<1>4. n2.out[j - 1] = n.out[j]
  BY <1>3, PoppedFrames
<1> QED BY <1>1, <1>3, <1>4 DEF OnWire

\* Taking a frame that is no event, or an old one.
LEMMA HearsOther ==
    ASSUME NEW n \in Connection, NEW n2, Popped(n, n2), NEW f, f = n.out[1], NEW m \in Memory, NEW m2, NEW ev, NEW ev2, NEW l,
           f.t # "event" \/ m.highest[f.ws] >= f.lo, KeepsEvents(ev, ev2), l \in [Workspace -> Nat],
           \A w \in Workspace : m2.highest[w] = m.highest[w] \/ m2.highest[w] = 0
    PROVE  Hears(n, m, ev, n2, m2, ev2, l)
<1>1. SUFFICES ASSUME NEW w \in Workspace, NEW x \in Nat, x = l[w], Coming(n, m, ev, w, x) PROVE Coming(n2, m2, ev2, w, x)
  BY DEF Hears
<1>2. CASE InChannel(ev, w, x)
  BY <1>2 DEF KeepsEvents, Coming
<1>3. CASE OnWire(n, w, x, 0) /\ m.highest[w] < x
  <2>1. PICK j \in 1 .. Len(n.out) : x > 0 /\ n.out[j].t = "event" /\ n.out[j].ws = w /\ n.out[j].lo = x
    BY <1>3 DEF OnWire
  <2>2. m.highest[w] \in Int
    BY DEF Memory
  <2>3. j # 1
    BY <1>3, <2>1, <2>2
  <2>4. j > 0 + 1
    BY <2>3
  <2>5. PICK k \in Nat : k = 0 /\ OnWire(n, w, x, k + 1)
    BY <2>1, <2>4 DEF OnWire
  <2>6. OnWire(n2, w, x, k)
    BY <2>5, PoppedWire
  <2>7. m2.highest[w] < x
    BY <1>3, <2>1
  <2> QED BY <2>5, <2>6, <2>7 DEF Coming
<1> QED BY <1>1, <1>2, <1>3 DEF Coming

\* Taking an event: it is in the channel.
LEMMA HearsEvent ==
    ASSUME NEW n \in Connection, NEW n2, Popped(n, n2), NEW f \in Frame, f = n.out[1], NEW m \in Memory, NEW m2, NEW ev, NEW ev2,
           NEW l \in [Workspace -> Nat], FrameOK(f, l), f.t = "event", KeepsEvents(ev, ev2), InChannel(ev2, f.ws, f.lo),
           \A w \in Workspace : m2.highest[w] = IF w = f.ws THEN f.lo ELSE m.highest[w]
    PROVE  Hears(n, m, ev, n2, m2, ev2, l)
<1>1. SUFFICES ASSUME NEW w \in Workspace, NEW x \in Nat, x = l[w], Coming(n, m, ev, w, x) PROVE Coming(n2, m2, ev2, w, x)
  BY DEF Hears
<1>2. CASE InChannel(ev, w, x)
  BY <1>2 DEF KeepsEvents, Coming
<1>3. CASE OnWire(n, w, x, 0) /\ m.highest[w] < x
  <2>1. PICK j \in 1 .. Len(n.out) : x > 0 /\ n.out[j].t = "event" /\ n.out[j].ws = w /\ n.out[j].lo = x
    BY <1>3 DEF OnWire
  <2>2. CASE w = f.ws /\ f.lo = x
    BY <2>2 DEF Coming
  <2>3. CASE ~ (w = f.ws /\ f.lo = x)
    <3>1. j > 0 + 1
      <4>1. j # 1
        BY <2>1, <2>3
      <4> QED BY <4>1
    <3>2. PICK k \in Nat : k = 0 /\ OnWire(n, w, x, k + 1)
      BY <2>1, <3>1 DEF OnWire
    <3>3. OnWire(n2, w, x, k)
      BY <3>2, PoppedWire
    <3>4. m2.highest[w] < x
      <4>1. CASE w = f.ws
        <5>1. f.lo \in Int /\ f.hi \in Int /\ f.lo <= f.hi /\ f.hi <= l[f.ws]
          BY FeedAssumption DEF Frame, FrameOK, InLog
        <5> QED BY <1>1, <2>3, <4>1, <5>1
      <4>2. CASE w # f.ws
        BY <1>3, <4>2
      <4> QED BY <4>1, <4>2
    <3> QED BY <3>2, <3>3, <3>4 DEF Coming
  <2> QED BY <2>2, <2>3
<1> QED BY <1>1, <1>2, <1>3 DEF Coming

\* The values that come with frame f: a live one is the answer to the read, and is heard of.
Tells(u, R, R2, n, f, n2, m2, ev2, l) ==
    \A v \in R2 : \/ v \in R
                  \/ Tracked(u, v.id) /\ v.live =>
                       /\ v.id = f.id /\ f.live /\ v.ws = f.ws /\ v.hi = f.hi
                       /\ OnWire(n, f.ws, l[f.ws], 1) => Coming(n2, m2, ev2, f.ws, l[f.ws])

\* A frame is taken.
LEMMA PoppedLive ==
    ASSUME NEW u, u.ws \in Room, u.synced => u.ws # None, NEW m, NEW m2, NEW n \in Connection, NEW n2, NEW P, NEW P2 \in SUBSET P,
           NEW cmds, NEW R, NEW R2, NEW ev, NEW ev2, NEW l,
           LiveOK(u, m, n, P, cmds, R, ev, l), Popped(n, n2), NEW f, f = n.out[1], m2.desired = m.desired,
           Hears(n, m, ev, n2, m2, ev2, l), Tells(u, R, R2, n, f, n2, m2, ev2, l)
    PROVE  LiveOK(u, m2, n2, P2, cmds, R2, ev2, l)
<1>1. /\ 1 \in 1 .. Len(n.out)
      /\ \A k \in 1 .. Len(n2.out) : k + 1 \in 1 .. Len(n.out) /\ n2.out[k] = n.out[k + 1]
  BY PoppedFrames
<1>2. \A w : LiveAt(n, cmds, w) => LiveAt(n2, cmds, w) /\ w \in Workspace
  BY DEF LiveAt, NoSubs, Popped, Connection, Room
<1>3. NoUnsubs(cmds, n) => NoUnsubs(cmds, n2)
  BY DEF NoUnsubs, Popped
<1>4. Shown(u, m2, n2, cmds, ev2, l)
  <2>1. SUFFICES ASSUME u.synced, n2.member = u.ws
                 PROVE  n2.sub /\ NoUnsubs(cmds, n2) /\ (u.applied = l[u.ws] \/ Coming(n2, m2, ev2, u.ws, l[u.ws]))
    BY DEF Shown
  <2>2. u.ws \in Workspace /\ n.member = u.ws
    BY <2>1 DEF Room, Popped
  <2>3. n.sub /\ NoUnsubs(cmds, n) /\ (u.applied = l[u.ws] \/ Coming(n, m, ev, u.ws, l[u.ws]))
    BY <2>1, <2>2 DEF LiveOK, Shown
  <2>4. n2.sub
    BY <2>3 DEF Popped
  <2> QED BY <1>3, <2>2, <2>3, <2>4 DEF Hears
<1>5. QueuedSync(u, cmds) /\ PendingSync(u, m2, P2, cmds)
  BY DEF LiveOK, PendingSync
<1>6. SentSync(u, n2, cmds)
  BY DEF LiveOK, SentSync, Popped
<1>7. FrameSync(u, n2, cmds, l)
  <2>1. SUFFICES ASSUME NEW k \in 1 .. Len(n2.out), Tracked(u, n2.out[k].id), n2.out[k].live
                 PROVE  /\ n2.out[k].t = "page" /\ LiveAt(n2, cmds, n2.out[k].ws)
                        /\ n2.out[k].hi = l[n2.out[k].ws] \/ OnWire(n2, n2.out[k].ws, l[n2.out[k].ws], k)
    BY DEF FrameSync
  <2>2. k \in Nat /\ k + 1 \in 1 .. Len(n.out) /\ n2.out[k] = n.out[k + 1]
    BY <1>1
  <2>3. PICK g : g = n2.out[k]
    OBVIOUS
  <2>4. /\ g.t = "page" /\ LiveAt(n, cmds, g.ws)
        /\ g.hi = l[g.ws] \/ OnWire(n, g.ws, l[g.ws], k + 1)
    BY <2>1, <2>2, <2>3 DEF LiveOK, FrameSync
  <2>5. OnWire(n, g.ws, l[g.ws], k + 1) => OnWire(n2, g.ws, l[g.ws], k)
    BY <2>2, PoppedWire
  <2> QED BY <1>2, <2>3, <2>4, <2>5
<1>8. ReplySync(u, m2, n2, cmds, R2, ev2, l)
  <2>1. SUFFICES ASSUME NEW v \in R2, Tracked(u, v.id), v.live
                 PROVE  /\ LiveAt(n2, cmds, v.ws)
                        /\ v.ws = u.ws => v.hi = l[v.ws] \/ u.applied = l[v.ws] \/ Coming(n2, m2, ev2, v.ws, l[v.ws])
    BY DEF ReplySync
  <2>2. CASE v \in R
    <3>1. /\ LiveAt(n, cmds, v.ws)
          /\ v.ws = u.ws => v.hi = l[v.ws] \/ u.applied = l[v.ws] \/ Coming(n, m, ev, v.ws, l[v.ws])
      BY <2>1, <2>2 DEF LiveOK, ReplySync
    <3> QED BY <1>2, <3>1 DEF Hears
  <2>3. CASE v \notin R
    <3>1. /\ v.id = f.id /\ f.live /\ v.ws = f.ws /\ v.hi = f.hi
          /\ OnWire(n, f.ws, l[f.ws], 1) => Coming(n2, m2, ev2, f.ws, l[f.ws])
      BY <2>1, <2>3 DEF Tells
    <3>2. LiveAt(n, cmds, f.ws) /\ (f.hi = l[f.ws] \/ OnWire(n, f.ws, l[f.ws], 1))
      BY <1>1, <2>1, <3>1 DEF LiveOK, FrameSync
    <3> QED BY <1>2, <3>1, <3>2
  <2> QED BY <2>2, <2>3
<1> QED BY <1>4, <1>5, <1>6, <1>7, <1>8 DEF LiveOK

\* An item goes into the channel.
LEMMA AppendKeeps ==
    ASSUME NEW ev \in Seq(Notice), NEW i \in Notice, NEW ev2, ev2 = Append(ev, i)
    PROVE  KeepsEvents(ev, ev2) /\ InChannel(ev2, i.ws, i.seq)
<1>1. /\ Len(ev) \in Nat /\ Len(ev2) = Len(ev) + 1 /\ ev2[Len(ev) + 1] = i
      /\ \A k \in 1 .. Len(ev) : ev2[k] = ev[k]
  OBVIOUS
<1>2. Len(ev) + 1 \in 1 .. Len(ev2) /\ \A k \in 1 .. Len(ev) : k \in 1 .. Len(ev2)
  BY <1>1
<1>3. KeepsEvents(ev, ev2)
  BY <1>1, <1>2 DEF KeepsEvents, InChannel
<1>4. InChannel(ev2, i.ws, i.seq)
  BY <1>1, <1>2 DEF InChannel
<1> QED BY <1>3, <1>4

\* A value the read waits for needs a read: without one every view will do.
LEMMA PoppedSync ==
    ASSUME Inv, ChatInv, SyncInv, UNCHANGED <<ui, log, commands>>, client.phase = "up", net.out # <<>>, NEW f, f = Head(net.out),
           NEW m, m = client', NEW n, n = net', n = [net EXCEPT !.out = Tail(@)], NEW P, P = pending', P \in SUBSET pending,
           NEW R, R = replies', NEW ev, ev = events', m.phase = client.phase, m.news = client.news, HighestOK(m, log),
           ~ MoveFrame(f) => m.desired = client.desired,
           Hears(net, client, events, n, m, ev, log), ~ MoveFrame(f) => Tells(ui, replies, R, net, f, n, m, ev, log)
    PROVE  SyncInv'
<1>1. ui \in View /\ net \in Connection /\ SwitchOK(ui) /\ CallsOK(ui, client, net, pending, commands, replies, posted)
  BY DEF Inv, TypeOK, FeedTypeOK, ChatInv, OpenChat, ShowOK
<1>2. Popped(net, n)
  BY <1>1 DEF Popped, Connection
<1>3. f = net.out[1] /\ 1 \in 1 .. Len(net.out)
  BY <1>1, <1>2, PoppedFrames
<1>4. ASSUME Steady(ui, m, n) PROVE LiveOK(ui, m, n, P, commands, R, ev, log)
  <2>1. CASE InStep(ui, Switch)
    <3>1. ui.sync = None /\ ~ ui.synced
      BY <1>1, <2>1 DEF SwitchOK
    <3>2. \A i : ~ Tracked(ui, i)
      BY <3>1 DEF Tracked
    <3> QED BY <3>1, <3>2, IdleLive
  <2>2. CASE ~ InStep(ui, Switch)
    <3>1. ~ MoveFrame(f)
      BY <1>1, <1>3, <2>2, NoMoves
    <3>2. Steady(ui, client, net)
      BY <1>2, <1>4 DEF Steady, Popped
    <3>3. LiveOK(ui, client, net, pending, commands, replies, events, log)
      BY <3>2 DEF SyncInv
    <3>4. ui.ws \in Room /\ (ui.synced => ui.ws # None)
      BY <1>1 DEF View, SyncInv, ViewSync
    <3>5. m.desired = client.desired /\ Tells(ui, replies, R, net, f, n, m, ev, log)
      BY <3>1
    <3> QED BY <1>1, <1>2, <1>3, <3>3, <3>4, <3>5, PoppedLive
  <2> QED BY <2>1, <2>2
<1> QED BY <1>4, ClientSync

\* enqueue_event of the pump.
LEMMA EnqueueSync ==
    ASSUME Inv, ChatInv, SyncInv, UNCHANGED <<ui, log, commands>>, client.phase = "up", net.out # <<>>,
           NEW f, f = Head(net.out), f.t \in {"event", "changed"}, NEW m \in Memory, m.phase = client.phase, m.news = client.news,
           m.desired = client.desired, m.highest = client.highest, EnqueueOrDisconnect(m, f)
    PROVE  SyncInv'
<1>1. /\ net \in Connection /\ client \in Memory /\ events \in Seq(Notice) /\ log \in [Workspace -> Nat]
      /\ pending \in SUBSET pending
  BY Facts
<1>2. f \in Frame /\ FrameOK(f, log) /\ f = net.out[1]
  <2>1. PICK n : n = [net EXCEPT !.out = Tail(@)]
    OBVIOUS
  <2> QED BY <1>1, <2>1, PopOK
<1>3. HighestOK(m, log)
  BY SameHighest
<1>4. ~ MoveFrame(f)
  BY DEF MoveFrame
<1>5. PICK n, ev, d : n = net' /\ ev = events' /\ d = client'
  OBVIOUS
<1>6. CASE AlreadyEnqueued(m, f)
  <2>1. d = m /\ n = [net EXCEPT !.out = Tail(@)] /\ ev = events /\ UNCHANGED <<pending, replies>>
    BY <1>5, <1>6 DEF EnqueueOrDisconnect
  <2>2. Popped(net, n)
    BY <1>1, <2>1 DEF Popped, Connection
  <2>3. client.highest[f.ws] >= f.lo
    BY <1>6 DEF AlreadyEnqueued
  <2>4. KeepsEvents(events, ev)
    BY <2>1 DEF KeepsEvents
  <2>5. \A w \in Workspace : d.highest[w] = client.highest[w]
    BY <2>1
  <2>6. Hears(net, client, events, n, d, ev, log)
    BY <1>1, <1>2, <2>2, <2>3, <2>4, <2>5, HearsOther
  <2>7. Tells(ui, replies, replies, net, f, n, d, ev, log)
    BY DEF Tells
  <2> QED BY <1>1, <1>3, <1>4, <1>5, <2>1, <2>6, <2>7, PoppedSync
<1>7. CASE ~ AlreadyEnqueued(m, f) /\ Len(events) >= EventCap
  <2>1. d = [m EXCEPT !.phase = "down", !.news = TRUE]
    BY <1>5, <1>7 DEF EnqueueOrDisconnect, PumpEnds
  <2>2. d.phase # "up" /\ d.highest = client.highest
    BY <2>1 DEF Memory
  <2>3. HighestOK(d, log)
    BY <2>2, SameHighest
  <2> QED BY <1>5, <2>2, <2>3, UnsteadySync
<1>8. CASE ~ AlreadyEnqueued(m, f) /\ ~ (Len(events) >= EventCap)
  <2>1. d = Remember(m, f) /\ n = [net EXCEPT !.out = Tail(@)] /\ ev = Append(events, Item(f)) /\ UNCHANGED <<pending, replies>>
    BY <1>5, <1>8 DEF EnqueueOrDisconnect
  <2>2. Popped(net, n)
    BY <1>1, <2>1 DEF Popped, Connection
  <2>3. PICK i : i = Item(f)
    OBVIOUS
  <2>4. i \in Notice
    BY <1>2, <2>3 DEF Item, Notice, Frame, Room
  <2>5. KeepsEvents(events, ev) /\ InChannel(ev, i.ws, i.seq)
    BY <1>1, <2>1, <2>3, <2>4, AppendKeeps
  <2>6. Tells(ui, replies, replies, net, f, n, d, ev, log)
    BY DEF Tells
  <2>7. d.phase = client.phase /\ d.news = client.news /\ d.desired = client.desired
    BY <2>1 DEF Remember, Memory
  <2>8. Hears(net, client, events, n, d, ev, log) /\ HighestOK(d, log)
    <3>1. CASE f.t = "event"
      <4>1. PICK w \in Workspace : w = f.ws
        BY <1>2, <3>1 DEF Frame, FrameOK, Room
      <4>2. d = [m EXCEPT !.highest[w] = f.lo]
        BY <2>1, <3>1, <4>1 DEF Remember
      <4>3. d.highest = [m.highest EXCEPT ![w] = f.lo]
        BY <4>2 DEF Memory
      <4>4. \A x \in Workspace : d.highest[x] = IF x = w THEN f.lo ELSE client.highest[x]
        BY <1>1, <4>3 DEF Memory
      <4>5. i.ws = f.ws /\ i.seq = f.lo
        BY <2>3, <3>1 DEF Item
      <4>6. Hears(net, client, events, n, d, ev, log)
        BY <1>1, <1>2, <2>2, <2>5, <3>1, <4>1, <4>4, <4>5, HearsEvent
      <4>7. f.lo \in Int /\ f.hi \in Int /\ f.lo <= f.hi /\ f.hi <= log[w] /\ log[w] \in Nat
        BY <1>1, <1>2, <4>1, FeedAssumption DEF Frame, FrameOK, InLog
      <4>8. f.lo <= log[w]
        BY <4>7
      <4>9. \A x \in Workspace : client.highest[x] <= log[x]
        BY DEF SyncInv, HighestOK
      <4>10. HighestOK(d, log)
        BY <4>4, <4>8, <4>9 DEF HighestOK
      <4> QED BY <4>6, <4>10
    <3>2. CASE f.t # "event"
      <4>1. d = m
        BY <2>1, <3>2 DEF Remember
      <4>2. \A w \in Workspace : d.highest[w] = client.highest[w]
        BY <4>1
      <4> QED BY <1>1, <1>2, <1>3, <2>2, <2>5, <3>2, <4>1, <4>2, HearsOther
    <3> QED BY <3>1, <3>2
  <2> QED BY <1>1, <1>4, <1>5, <2>1, <2>6, <2>7, <2>8, PoppedSync
<1> QED BY <1>6, <1>7, <1>8

\* membership_changed forgets no event.
LEMMA MembershipHighest ==
    ASSUME NEW m \in Memory, NEW w \in Room, NEW k \in Int, NEW r, r = MembershipChanged(m, w, k)
    PROVE  r.highest = m.highest /\ r.news = m.news
<1>1. PICK s \in Room : s = IF m.subscribed = w THEN m.subscribed ELSE None
  BY DEF Memory, Room
<1>2. [m EXCEPT !.subscribed = s, !.desired = w] \in Memory
  BY DEF Memory
<1>3. PICK f \in Memory : f = [m EXCEPT !.subscribed = s, !.desired = w]
  BY <1>2
<1>4. f = [m EXCEPT !.subscribed = IF @ = w THEN @ ELSE None, !.desired = w]
  BY <1>1, <1>3
<1>5. f.highest = m.highest /\ f.news = m.news
  BY <1>3 DEF Memory
<1>6. r = IF w = None THEN f ELSE EntryOrInsert(f, w, k)
  BY <1>4 DEF MembershipChanged
<1>7. EntryOrInsert(f, w, k).highest = f.highest /\ EntryOrInsert(f, w, k).news = f.news
  BY DEF EntryOrInsert, Memory
<1> QED BY <1>5, <1>6, <1>7

\* Neither does what an answer does before its call is looked up.
LEMMA ResponseHighest ==
    ASSUME Inv, NEW f \in Frame, FrameOK(f, log), NEW m, m = ResponseMemory(f)
    PROVE  m.highest = client.highest /\ m.news = client.news
<1>1. client \in Memory
  BY Facts
<1>3. CASE f.t = "joined"
  <2>1. PICK w \in Workspace : w = f.ws /\ w \in Room
    BY <1>3 DEF FrameOK, Frame, Room
  <2>2. [client EXCEPT !.desired = w] \in Memory
    BY <1>1, <2>1 DEF Memory
  <2>3. PICK r \in Memory : r = [client EXCEPT !.desired = w]
    BY <2>2
  <2>4. r.highest = client.highest /\ r.news = client.news
    BY <1>1, <2>3 DEF Memory
  <2>5. m = EntryOrInsert(r, w, f.lo)
    BY <1>3, <2>1, <2>3 DEF ResponseMemory
  <2>6. m.highest = r.highest /\ m.news = r.news
    BY <2>5 DEF EntryOrInsert, Memory
  <2> QED BY <2>4, <2>6
<1>4. CASE f.t = "left"
  BY <1>1, <1>4 DEF ResponseMemory, Memory
<1>5. CASE f.t \notin {"joined", "left"}
  BY <1>5 DEF ResponseMemory
<1> QED BY <1>3, <1>4, <1>5

\* A page for the latest subscription forgets the events that came before it.
LEMMA CallEffectHighest ==
    ASSUME NEW m \in Memory, NEW p \in PendingCall, NEW f \in Frame, FrameOK(f, log), NEW d, d = CallEffect(m, p, f)
    PROVE  /\ d.phase = m.phase /\ d.news = m.news /\ d.desired = m.desired
           /\ \A w \in Workspace : d.highest[w] = m.highest[w] \/ d.highest[w] = 0
           /\ p.latest /\ p.ws = m.desired /\ p.ws = f.ws /\ p.kind = "subscribe" /\ f.t = "page" => d.highest[f.ws] = 0
<1>1. CASE ~ (p.latest /\ p.ws = m.desired /\ p.ws = f.ws)
  <2>1. d = m
    BY <1>1 DEF CallEffect
  <2> QED BY <1>1, <2>1
<1>2. CASE p.latest /\ p.ws = m.desired /\ p.ws = f.ws
  <2>1. CASE p.kind = "subscribe" /\ f.t = "page"
    <3>1. PICK w \in Workspace : w = f.ws
      BY <2>1 DEF Frame, FrameOK, Room
    <3>2. d = [m EXCEPT !.acked[w] = p.after, !.highest[w] = 0, !.subscribed = IF f.live THEN w ELSE @]
      BY <1>2, <2>1, <3>1 DEF CallEffect
    <3>3. d.phase = m.phase /\ d.news = m.news /\ d.desired = m.desired /\ d.highest = [m.highest EXCEPT ![w] = 0]
      BY <3>2 DEF Memory
    <3>4. m.highest \in [Workspace -> Int]
      BY DEF Memory
    <3>5. d.highest[w] = 0 /\ \A x \in Workspace : d.highest[x] = m.highest[x] \/ d.highest[x] = 0
      BY <3>3, <3>4
    <3> QED BY <3>1, <3>3, <3>5
  <2>2. CASE ~ (p.kind = "subscribe" /\ f.t = "page")
    <3>1. d = m \/ d = [m EXCEPT !.subscribed = None]
      BY <1>2, <2>2 DEF CallEffect
    <3>2. d.phase = m.phase /\ d.news = m.news /\ d.desired = m.desired /\ d.highest = m.highest
      BY <3>1 DEF Memory
    <3> QED BY <2>2, <3>2
  <2> QED BY <2>1, <2>2
<1> QED BY <1>1, <1>2

\* The pump takes an answer.
LEMMA PumpResponseSync ==
    ASSUME Inv, AckInv, ChatInv, SyncInv, UNCHANGED <<ui, log, commands>>, client.phase = "up", net.out # <<>>,
           NEW f, f = Head(net.out), f.t # "event", PumpResponse(f)
    PROVE  SyncInv'
<1>1. /\ net \in Connection /\ client \in Memory /\ log \in [Workspace -> Nat] /\ pending \in SUBSET PendingCall
  BY Facts
<1>2. f \in Frame /\ FrameOK(f, log) /\ f = net.out[1] /\ 1 \in 1 .. Len(net.out)
  <2>1. PICK n : n = [net EXCEPT !.out = Tail(@)]
    OBVIOUS
  <2>2. pending \in SUBSET pending
    OBVIOUS
  <2> QED BY <2>1, <2>2, PopOK
<1>3. PICK call, m : call = {p \in pending : p.id = f.id} /\ m = ResponseMemory(f)
  OBVIOUS
<1>4. m \in Memory /\ m.phase = client.phase /\ (~ MoveFrame(f) => m.desired = client.desired)
  BY <1>2, <1>3, ResponseDesired
<1>5. m.highest = client.highest /\ m.news = client.news
  BY <1>2, <1>3, ResponseHighest
<1>6. PICK d, n, P, R, ev : d = client' /\ n = net' /\ P = pending' /\ R = replies' /\ ev = events'
  OBVIOUS
<1>7. P = pending \ call /\ n = [net EXCEPT !.out = Tail(@)] /\ P \in SUBSET pending /\ ev = events
  BY <1>3, <1>6 DEF PumpResponse
<1>8. call = {} \/ \E p \in call : d = CallEffect(m, p, f)
  BY <1>3, <1>6 DEF PumpResponse
<1>9. call = {} => d = m
  BY <1>3, <1>6 DEF PumpResponse
<1>10. call \in SUBSET PendingCall
  BY <1>1, <1>3
<1>11. /\ d.phase = m.phase /\ d.news = m.news /\ d.desired = m.desired
       /\ \A w \in Workspace : d.highest[w] = m.highest[w] \/ d.highest[w] = 0
  <2>1. CASE call = {}
    BY <1>9, <2>1
  <2>2. CASE call # {}
    <3>1. PICK p \in PendingCall : d = CallEffect(m, p, f)
      BY <1>8, <1>10, <2>2
    <3> QED BY <1>2, <1>4, <3>1, CallEffectHighest
  <2> QED BY <2>1, <2>2
<1>12. HighestOK(d, log)
  <2>1. SUFFICES ASSUME NEW w \in Workspace PROVE d.highest[w] <= log[w]
    BY DEF HighestOK
  <2>2. log[w] \in Nat /\ client.highest[w] <= log[w]
    BY <1>1 DEF SyncInv, HighestOK
  <2>3. d.highest[w] = client.highest[w] \/ d.highest[w] = 0
    BY <1>5, <1>11
  <2> QED BY <2>2, <2>3
<1>13. Popped(net, n)
  BY <1>1, <1>7 DEF Popped, Connection
<1>14. Hears(net, client, events, n, d, ev, log)
  <2>1. KeepsEvents(events, ev)
    BY <1>7 DEF KeepsEvents
  <2>2. \A w \in Workspace : d.highest[w] = client.highest[w] \/ d.highest[w] = 0
    BY <1>5, <1>11
  <2> QED BY <1>1, <1>2, <1>13, <2>1, <2>2, HearsOther
<1>15. \A v \in R : v \in replies \/ (v = Answered(f) /\ call # {})
  BY <1>3, <1>6 DEF PumpResponse, Deliver
<1>16. ASSUME ~ Steady(ui, client, net) PROVE SyncInv'
  <2>1. ~ Steady(ui, d, n)
    BY <1>4, <1>5, <1>11, <1>13, <1>16 DEF Steady, Popped
  <2> QED BY <1>6, <1>12, <2>1, ClientSync
<1>17. ASSUME Steady(ui, client, net), ~ MoveFrame(f) PROVE Tells(ui, replies, R, net, f, n, d, ev, log)
  <2>1. SUFFICES ASSUME NEW v \in R, v \notin replies, Tracked(ui, v.id), v.live
                 PROVE  /\ v.id = f.id /\ f.live /\ v.ws = f.ws /\ v.hi = f.hi
                        /\ OnWire(net, f.ws, log[f.ws], 1) => Coming(n, d, ev, f.ws, log[f.ws])
    BY DEF Tells
  <2>2. v = Answered(f) /\ call # {}
    BY <1>15, <2>1
  <2>3. v.id = f.id /\ v.live = f.live /\ v.ws = f.ws /\ v.hi = f.hi
    BY <2>2 DEF Answered
  <2>4. LiveOK(ui, client, net, pending, commands, replies, events, log)
    BY <1>17 DEF SyncInv
  <2>5. f.t = "page" /\ LiveAt(net, commands, f.ws)
    BY <1>2, <2>1, <2>3, <2>4 DEF LiveOK, FrameSync
  <2>6. PICK p \in call : d = CallEffect(m, p, f)
    BY <1>8, <2>2
  <2>7. p \in pending /\ p \in PendingCall /\ p.id = f.id
    BY <1>3, <1>10, <2>6
  <2>8. p.latest /\ p.kind = "subscribe" /\ p.ws = client.desired
    BY <2>1, <2>3, <2>4, <2>7 DEF LiveOK, PendingSync
  <2>9. f.ws = client.desired
    <3>1. ui.sync # None
      BY <2>1 DEF Tracked
    <3>2. SwitchOK(ui) /\ Wired(ui, client, net, pending, commands, replies, waiting, posted)
      BY DEF ChatInv, OpenChat, ShowOK, Wired
    <3>3. ~ InStep(ui, Switch)
      BY <3>1, <3>2 DEF SwitchOK
    <3>4. net.member = client.desired
      BY <1>17, <3>2, <3>3, SettledMember DEF Steady
    <3> QED BY <2>5, <3>4 DEF LiveAt
  <2>10. m.desired = client.desired
    BY <1>4, <1>17
  <2>11. d.highest[f.ws] = 0
    BY <1>2, <1>4, <2>5, <2>6, <2>7, <2>8, <2>9, <2>10, CallEffectHighest
  <2>12. ASSUME OnWire(net, f.ws, log[f.ws], 1) PROVE Coming(n, d, ev, f.ws, log[f.ws])
    <3>1. PICK k \in Nat : k = 0 /\ k + 1 = 1
      OBVIOUS
    <3>2. OnWire(net, f.ws, log[f.ws], k + 1)
      BY <2>12, <3>1
    <3>3. OnWire(n, f.ws, log[f.ws], k)
      BY <1>1, <1>13, <3>1, <3>2, PoppedWire
    <3>4. OnWire(n, f.ws, log[f.ws], 0) /\ log[f.ws] > 0
      BY <3>1, <3>3 DEF OnWire
    <3> QED BY <2>11, <3>4 DEF Coming
  <2> QED BY <2>1, <2>3, <2>12
<1>18. CASE Steady(ui, client, net)
  <2>1. d.phase = client.phase /\ d.news = client.news /\ (~ MoveFrame(f) => d.desired = client.desired)
    BY <1>4, <1>5, <1>11
  <2>2. ~ MoveFrame(f) => Tells(ui, replies, R, net, f, n, d, ev, log)
    BY <1>17, <1>18
  <2> QED BY <1>6, <1>7, <1>12, <1>14, <2>1, <2>2, PoppedSync
<1> QED BY <1>16, <1>18

\* The pump takes a frame.
LEMMA PumpIncomingSync == ASSUME Inv, AckInv, ChatInv, SyncInv, PumpIncoming, UNCHANGED ui PROVE SyncInv'
<1>1. client.phase = "up" /\ net.out # <<>> /\ UNCHANGED <<ui, log, commands>>
  BY DEF PumpIncoming
<1>2. client \in Memory /\ net \in Connection /\ OpenChat(ui, client, net, pending, commands, replies, waiting, posted)
  BY ChatFacts
<1>3. PICK f : f = Head(net.out)
  OBVIOUS
<1>4. f \in Frame /\ f = net.out[1] /\ 1 \in 1 .. Len(net.out)
  <2>1. PICK n : n = [net EXCEPT !.out = Tail(@)]
    OBVIOUS
  <2>2. pending \in SUBSET pending
    OBVIOUS
  <2> QED BY <1>1, <1>3, <2>1, <2>2, PopOK
<1>5. CASE f.t = "event" /\ EnqueueOrDisconnect(client, f)
  BY <1>1, <1>2, <1>3, <1>5, EnqueueSync
<1>6. CASE f.t = "changed" /\ EnqueueOrDisconnect(MembershipChanged(client, f.ws, f.lo), f)
  <2>1. PICK w \in Room, k \in Int : w = f.ws /\ k = f.lo
    BY <1>4 DEF Frame
  <2>2. PICK m : m = MembershipChanged(client, w, k)
    OBVIOUS
  <2>3. m \in Memory /\ m.phase = client.phase /\ m.desired = f.ws
    BY <1>1, <1>2, <2>1, <2>2, MembershipDesired
  <2>4. m.highest = client.highest /\ m.news = client.news
    BY <1>2, <2>2, MembershipHighest
  <2>5. f.ws = client.desired
    <3>1. \A j \in 1 .. 1 - 1 : FALSE
      OBVIOUS
    <3> QED BY <1>1, <1>2, <1>4, <1>6, <3>1 DEF OpenChat, WalkOK
  <2>6. EnqueueOrDisconnect(m, f) /\ m.desired = client.desired
    BY <1>6, <2>1, <2>2, <2>3, <2>5
  <2> QED BY <1>1, <1>3, <1>6, <2>3, <2>4, <2>6, EnqueueSync
<1>7. CASE f.t \notin {"event", "changed"} /\ PumpResponse(f)
  BY <1>1, <1>3, <1>7, PumpResponseSync
<1> QED BY <1>3, <1>5, <1>6, <1>7 DEF PumpIncoming

\* The client gives the connection up, makes a new one, or restores it: until the console
\* has seen the result, its view is not one of a connection.
LEMMA RestoringSync ==
    ASSUME Inv, SyncInv, UNCHANGED ui,
           \/ PumpEof \/ DisconnectedCommand \/ Connect \/ RestoreNotice \/ RestoreJoined \/ RestorePage \/ RestorePageDone
           \/ RestoreLost \/ RestoreExpired
    PROVE  SyncInv'
<1>1. client \in Memory /\ UNCHANGED <<ui, log>>
  BY Facts DEF PumpEof, DisconnectedCommand, Connect, RestoreNotice, RestoreJoined, RestorePage, RestorePageDone, RestoreLost,
     RestoreExpired, Abandon
<1>2. PICK m : m = client'
  OBVIOUS
<1>3. ASSUME m.highest = client.highest, m.phase # "up" \/ m.news PROVE SyncInv'
  <2>1. HighestOK(m, log)
    BY <1>3, SameHighest
  <2> QED BY <1>1, <1>2, <1>3, <2>1, UnsteadySync
<1>4. PICK c : c = Connected(client)
  OBVIOUS
<1>5. c.highest = client.highest /\ c.news /\ c.phase = "up" /\ c \in Memory
  BY <1>1, <1>4 DEF Connected, Memory
<1>6. CASE PumpEof
  <2>1. m = [client EXCEPT !.phase = "down", !.news = TRUE]
    BY <1>2, <1>6 DEF PumpEof, PumpEnds
  <2>2. m.highest = client.highest /\ m.phase # "up"
    BY <1>1, <2>1 DEF Memory
  <2> QED BY <1>3, <2>2
<1>7. CASE DisconnectedCommand
  <2>1. m = client \/ \E w, k : m = AdvanceCursor(client, w, k)
    BY <1>2, <1>7 DEF DisconnectedCommand
  <2>2. client.phase # "up"
    BY <1>7 DEF DisconnectedCommand
  <2>3. m.highest = client.highest /\ m.phase = client.phase
    BY <1>1, <2>1 DEF AdvanceCursor, Memory
  <2> QED BY <1>3, <2>2, <2>3
<1>8. CASE Connect
  <2>1. m = c \/ m = [client EXCEPT !.phase = "joining"]
    BY <1>2, <1>4, <1>8 DEF Connect
  <2>2. m.highest = client.highest /\ (m.phase # "up" \/ m.news)
    BY <1>1, <1>5, <2>1 DEF Memory
  <2> QED BY <1>3, <2>2
<1>9. CASE RestoreNotice
  <2>1. net.out # <<>> /\ client.phase # "up" /\ m = MembershipChanged(client, Head(net.out).ws, Head(net.out).lo)
    BY <1>2, <1>9 DEF RestoreNotice
  <2>2. Head(net.out) \in Frame
    <3>1. PICK n : n = [net EXCEPT !.out = Tail(@)]
      OBVIOUS
    <3>2. pending \in SUBSET pending
      OBVIOUS
    <3> QED BY <2>1, <3>1, <3>2, PopOK
  <2>3. PICK w \in Room, k \in Int : w = Head(net.out).ws /\ k = Head(net.out).lo
    BY <2>2 DEF Frame
  <2>4. m = MembershipChanged(client, w, k)
    BY <2>1, <2>3
  <2>5. m.highest = client.highest /\ m.phase = client.phase
    BY <1>1, <2>4, MembershipHighest, MembershipDesired
  <2> QED BY <1>3, <2>1, <2>5
<1>10. CASE RestoreJoined
  <2>1. m = c \/ m = [client EXCEPT !.phase = "restoring"]
    BY <1>2, <1>4, <1>10 DEF RestoreJoined
  <2>2. m.highest = client.highest /\ (m.phase # "up" \/ m.news)
    BY <1>1, <1>5, <2>1 DEF Memory
  <2> QED BY <1>3, <2>2
<1>11. CASE RestorePage
  <2>1. m = c \/ \E p : m = [client EXCEPT !.phase = "replaying", !.page = p]
    BY <1>2, <1>4, <1>11 DEF RestorePage
  <2>2. CASE m = c
    BY <1>3, <1>5, <2>2
  <2>3. ASSUME NEW p, m = [client EXCEPT !.phase = "replaying", !.page = p] PROVE m.highest = client.highest /\ m.phase # "up"
    BY <1>1, <2>3 DEF Memory
  <2> QED BY <1>3, <2>1, <2>2, <2>3
<1>12. CASE RestorePageDone
  <2>1. m = [c EXCEPT !.page = EmptyPage] \/ m = [client EXCEPT !.phase = "restoring", !.page = EmptyPage]
    BY <1>2, <1>4, <1>12 DEF RestorePageDone
  <2>2. CASE m = [c EXCEPT !.page = EmptyPage]
    <3>1. m.highest = c.highest /\ m.news = c.news
      BY <1>5, <2>2 DEF Memory
    <3> QED BY <1>3, <1>5, <3>1
  <2>3. CASE m = [client EXCEPT !.phase = "restoring", !.page = EmptyPage]
    <3>1. m.highest = client.highest /\ m.phase # "up"
      BY <1>1, <2>3 DEF Memory
    <3> QED BY <1>3, <3>1
  <2> QED BY <2>1, <2>2, <2>3
<1>13. CASE RestoreLost \/ RestoreExpired
  <2>1. m = [client EXCEPT !.phase = "down", !.page = EmptyPage]
    BY <1>2, <1>13 DEF RestoreLost, RestoreExpired, Abandon
  <2>2. m.highest = client.highest /\ m.phase # "up"
    BY <1>1, <2>1 DEF Memory
  <2> QED BY <1>3, <2>2
<1> QED BY <1>6, <1>7, <1>8, <1>9, <1>10, <1>11, <1>12, <1>13

\* An event of the page that is replayed is in the log.
LEMMA RestoreEventSync == ASSUME Inv, SyncInv, RestoreEvent, UNCHANGED ui PROVE SyncInv'
<1>1. client.phase = "replaying" /\ client \in Memory /\ UNCHANGED <<ui, log>> /\ log \in [Workspace -> Nat]
  BY Facts DEF RestoreEvent
<1>2. PICK lo \in Int, hi \in Int, w \in Workspace :
        lo = client.page.lo /\ hi = client.page.hi /\ w = client.page.ws /\ lo < hi /\ hi <= log[w]
  <2>1. client.page.ws # None
    BY <1>1, Facts DEF RestoreOK, ReplayShape
  <2>2. client.page.lo \in Int /\ client.page.hi \in Int /\ client.page.ws \in Workspace
    BY <1>1, <2>1 DEF Memory, Room
  <2>3. client.page.hi <= log[client.page.ws]
    BY <2>1, Facts DEF MemoryOK, InLog
  <2>4. client.page.lo < client.page.hi
    BY DEF RestoreEvent
  <2> QED BY <2>2, <2>3, <2>4
<1>3. PICK m : m = client'
  OBVIOUS
<1>4. PICK a, f : a = [client EXCEPT !.page.lo = @ + 1] /\ f = EventFrame(w, lo + 1)
  OBVIOUS
<1>5. a.highest = client.highest /\ a.phase = client.phase
  BY <1>1, <1>4 DEF Memory
<1>6. f.ws = w /\ f.lo = lo + 1
  BY <1>4 DEF EventFrame
<1>7. m = a \/ m = [a EXCEPT !.highest[w] = lo + 1]
  BY <1>2, <1>3, <1>4, <1>6 DEF RestoreEvent, Remember
<1>8. m.phase = "replaying" /\ (m.highest = client.highest \/ m.highest = [client.highest EXCEPT ![w] = lo + 1])
  BY <1>1, <1>4, <1>7 DEF Memory
<1>9. HighestOK(m, log)
  <2>1. CASE m.highest = client.highest
    BY <2>1, SameHighest
  <2>2. CASE m.highest = [client.highest EXCEPT ![w] = lo + 1]
    <3>1. lo + 1 <= log[w]
      BY <1>1, <1>2
    <3>2. client.highest \in [Workspace -> Int] /\ \A x \in Workspace : client.highest[x] <= log[x]
      BY <1>1 DEF Memory, SyncInv, HighestOK
    <3> QED BY <2>2, <3>1, <3>2 DEF HighestOK
  <2> QED BY <1>8, <2>1, <2>2
<1> QED BY <1>1, <1>3, <1>8, <1>9, UnsteadySync

\* Every step of the client.
LEMMA ClientStepSync == ASSUME Inv, AckInv, ChatInv, SyncInv, ClientStep, UNCHANGED ui PROVE SyncInv'
BY PumpCommandSync, PumpIncomingSync, RestoringSync, RestoreEventSync DEF ClientStep, ClientProgress

-----------------------------------------------------------------------------
(* The theorem.                                                               *)

\* No room is selected.
LEMMA InitSync == Init => SyncInv
<1> SUFFICES ASSUME Init PROVE SyncInv
  OBVIOUS
<1>1. ~ ui.synced /\ ~ ui.reset /\ ui.sync = None
  BY DEF Init
<1>2. ViewSync(ui) /\ \A i : ~ Tracked(ui, i)
  BY <1>1 DEF ViewSync, Tracked
<1>3. client.highest = [w \in Workspace |-> 0] /\ log = [w \in Workspace |-> 0]
  BY DEF Init, FeedInit
<1>4. HighestOK(client, log)
  BY <1>3 DEF HighestOK
<1>5. LiveOK(ui, client, net, pending, commands, replies, events, log)
  BY <1>1, <1>2, IdleLive
<1> QED BY <1>2, <1>4, <1>5 DEF SyncInv

\* Every step of the router, the client, the controller and the user.
LEMMA NextSync == Inv /\ Inv' /\ AckInv /\ ChatInv /\ SyncInv /\ [Next]_vars => SyncInv'
<1> SUFFICES ASSUME Inv, Inv', AckInv, ChatInv, SyncInv, [Next]_vars PROVE SyncInv'
  OBVIOUS
<1>1. CASE RouterStep /\ UNCHANGED ui
  BY <1>1, RouterStepSync
<1>2. CASE ClientStep /\ UNCHANGED ui
  BY <1>2, ClientStepSync
<1>3. CASE Controller
  BY <1>3, TakeEventSync, ObserveSync, SendOfTasksSync, ContinuesSync, SyncDoneSync, RecentDoneSync, SwitchDoneSync,
     ChatSync DEF Controller
<1>4. CASE User
  BY <1>4, ChatSync, SelectSync DEF User
<1>5. CASE UNCHANGED vars
  <2>1. UNCHANGED <<net, client, pending, commands, replies, events, log, ui>>
    BY <1>5 DEF vars, feedVars
  <2> QED BY <2>1 DEF SyncInv
<1> QED BY <1>1, <1>2, <1>3, <1>4, <1>5 DEF Next

\* Nothing is coming when nothing is on its way.
LEMMA SyncCurrent == SyncInv => SyncedIsCurrent
<1> SUFFICES ASSUME SyncInv, Quiet, ui.conn = "up", ui.synced, net.member = ui.ws
             PROVE  net.sub /\ ui.applied = log[ui.ws]
  BY DEF SyncedIsCurrent
<1>1. Steady(ui, client, net) /\ Len(events) = 0 /\ Len(net.out) = 0
  BY DEF Quiet, Steady
<1>2. Shown(ui, client, net, commands, events, log)
  BY <1>1 DEF SyncInv, LiveOK
<1>3. ~ Coming(net, client, events, ui.ws, log[ui.ws])
  BY <1>1 DEF Coming, InChannel, OnWire
<1> QED BY <1>2, <1>3 DEF Shown

\* A live view hears of the newest event of its room, whatever is cut, replayed, reset or
\* overtaken on the way: it is applied, in the channel, or on the link and not taken for
\* an old one (workspace_subscribe, fanout, pump, enqueue_event, read_done).
THEOREM AlwaysSyncInv == Spec => []SyncInv
BY InitSync, NextSync, AlwaysInv, AlwaysAckInv, AlwaysChatInv, PTL DEF Spec

\* A console that says it is live and has nothing on its way is subscribed and shows the
\* whole log of its room (apply_event, read_done, workspace_subscribe).
THEOREM LiveViewIsCurrent == Spec => []SyncedIsCurrent
BY AlwaysSyncInv, SyncCurrent, PTL
=============================================================================
