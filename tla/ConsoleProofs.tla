---------------------------- MODULE ConsoleProofs ----------------------------
(* Proofs about Console, for any number of rooms, events, switches and faults *)
(* and for every capacity.                                                    *)
(*                                                                            *)
(* A restoring client understands the router because every cursor anywhere in *)
(* the system is within the log it belongs to, so that the router accepts the *)
(* cursor it resumes from, and because what is on a restoring connection has  *)
(* one shape: the answer to the join, notices, a page, then live events.      *)
(*                                                                            *)
(* A second layer follows: AckInv bounds every cursor that may become the one *)
(* a reconnection resumes from by what the view has applied.                  *)
EXTENDS Console, FiniteSetTheorems, TLAPS

Room == Workspace \cup {None}

CallKind == {"join", "leave", "subscribe", "unsubscribe", "history", "post"}

Request == [id : Id \cup {RestoreId}, kind : CallKind, ws : Room, after : Int]

Frame == [t : {"event", "changed", "joined", "left", "page", "unsubscribed", "history", "posted", "error"},
          id : Id \cup {RestoreId, None}, ws : Room, lo : Int, hi : Int, live : BOOLEAN]

Command == [op : {"rpc"}, call : Request] \cup [op : {"ack"}, ws : Workspace, seq : Int]
           \cup [op : {"cancel"}, id : Id]

Memory == [phase : {"up", "down", "joining", "restoring", "replaying"}, news : BOOLEAN, desired : Room,
           subscribed : Room, acked : [Workspace -> Int], highest : [Workspace -> Int],
           page : [ws : Room, lo : Int, hi : Int, live : BOOLEAN]]

Connection == [up : BOOLEAN, member : Room, sub : BOOLEAN, req : Seq(Request), out : Seq(Frame)]

PendingCall == [id : Id, kind : CallKind, after : Int, latest : BOOLEAN, ws : Room]

Value == [id : Id, answered : BOOLEAN, ok : BOOLEAN, ws : Room, lo : Int, hi : Int, live : BOOLEAN]

Notice == [ws : Room, seq : Int]

Read == [step : {"history", "subscribe", "unsubscribe"}, id : Id \cup {None}, full : BOOLEAN, after : Int,
         gapped : BOOLEAN, fenced : BOOLEAN]

Step == {"unsubscribe", "leave", "join", "rejoin", "restore", "post"}

Action == [step : Step, id : Id \cup {None}, full : BOOLEAN, old : Room, target : Room, fenced : BOOLEAN]

View == [ws : Room, applied : Int, synced : BOOLEAN, conn : {"up", "down", "closed"}, switching : Room,
         restore : Room, reset : BOOLEAN, ack : Int, queued : SUBSET {"Recent", "Sync"},
         sync : Read \cup {None}, recent : Read \cup {None}, act : Action \cup {None},
         chat : {"idle", "sent", "uncertain"}, posts : Nat, refreshes : Nat, switches : Nat]

FeedTypeOK ==
    /\ log \in [Workspace -> Nat] /\ net \in Connection /\ client \in Memory
    /\ pending \in SUBSET PendingCall /\ events \in Seq(Notice) /\ replies \in SUBSET Value

CommandsOK(cmds) == cmds \in Seq(Command) /\ Len(cmds) <= CommandCap

TypeOK == FeedTypeOK /\ CommandsOK(commands) /\ ui \in View

-----------------------------------------------------------------------------
(* Every cursor is within its log l.                                          *)

\* The interval x.lo + 1 .. x.hi, or the event x.hi, is in the log.
InLog(l, x) == IF x.ws = None THEN x.lo = x.hi ELSE x.lo <= x.hi /\ x.hi <= l[x.ws]

ViewOK(u, l) ==
    /\ u.ws = None => u.ack = 0
    /\ u.ws # None => u.applied <= l[u.ws] /\ u.ack <= l[u.ws]

\* A task that joins knows where.
ActionOK(a) ==
    a # None =>
        /\ a.step \in {"unsubscribe", "leave", "join", "rejoin"} => a.target # None
        /\ a.step = "rejoin" => a.old # None
        /\ a.step = "restore" => a.full \/ a.old # None

FrameOK(f, l) == InLog(l, f) /\ (f.t \in {"event", "joined", "page"} => f.ws # None)

RequestOK(c) == c.kind = "join" => c.ws # None

CommandOK(c, l) ==
    /\ c.op = "ack" => c.seq <= l[c.ws]
    /\ c.op = "rpc" => c.call.id \in Id /\ RequestOK(c.call)

NoticeOK(e, l) == e.ws # None => e.seq <= l[e.ws]

MemoryOK(m, l) == InLog(l, m.page) /\ \A w \in Workspace : m.acked[w] <= l[w]

WireOK(n, l) ==
    /\ \A i \in 1 .. Len(n.out) : FrameOK(n.out[i], l)
    /\ \A i \in 1 .. Len(n.req) : RequestOK(n.req[i])

QueueOK(cmds, l) == \A i \in 1 .. Len(cmds) : CommandOK(cmds[i], l)

EventsOK(ev, l) == \A i \in 1 .. Len(ev) : NoticeOK(ev[i], l)

-----------------------------------------------------------------------------
(* The page a call receives begins at the cursor the call was made with.      *)

\* Nothing but the queue mentions a call that is still queued.
UnsentOK(n, P, cmds) ==
    \A k \in 1 .. Len(cmds) : cmds[k].op = "rpc" =>
        /\ \A p \in P : p.id # cmds[k].call.id
        /\ \A i \in 1 .. Len(n.req) : n.req[i].id # cmds[k].call.id
        /\ \A i \in 1 .. Len(n.out) : n.out[i].t = "page" => n.out[i].id # cmds[k].call.id
        /\ \A l \in 1 .. Len(cmds) : cmds[l].op = "rpc" /\ l # k => cmds[l].call.id # cmds[k].call.id

PendingOK(n, P) ==
    \A p \in P :
        /\ \A i \in 1 .. Len(n.req) : n.req[i].id = p.id => n.req[i].after = p.after
        /\ \A i \in 1 .. Len(n.out) : n.out[i].id = p.id /\ n.out[i].t = "page" => n.out[i].lo = p.after

-----------------------------------------------------------------------------
(* What is on a connection that is being restored.                            *)

\* The join is not handled, or answered; nothing else has been sent.
JoinShape(n, m) ==
    /\ m.desired # None /\ ~ n.sub
    /\ \A i \in 1 .. Len(n.out) : IF i = 1 THEN n.out[i].t = "joined"
                                  ELSE n.out[i].t = "changed" /\ n.out[i].ws = m.desired
    /\ n.up => \/ n.req = <<RestoreCall("join", m.desired, 0)>> /\ n.member = None /\ n.out = <<>>
               \/ n.req = <<>> /\ n.member = m.desired

PageFrame(n, i) ==
    /\ n.out[i].t \in {"changed", "page", "event"}
    /\ n.out[i].t \in {"changed", "page"} => \A j \in 1 .. i - 1 : n.out[j].t = "changed"
    /\ n.out[i].t = "event" => \E j \in 1 .. i - 1 : n.out[j].t = "page"
    /\ n.out[i].t = "page" /\ ~ n.out[i].live => i = Len(n.out) /\ ~ n.sub

\* Notices, then the page, then live events if the page was the last one.
PageShape(n, m, l) ==
    /\ m.desired # None
    /\ \A i \in 1 .. Len(n.out) : PageFrame(n, i) /\ (n.out[i].t = "changed" => n.out[i].ws = m.desired)
    /\ n.sub => \E i \in 1 .. Len(n.out) : n.out[i].t = "page"
    /\ n.up => n.member = m.desired
    /\ n.up /\ n.req # <<>> =>
        /\ n.req = <<RestoreCall("subscribe", m.desired, n.req[1].after)>> /\ n.req[1].after <= l[m.desired]
        /\ ~ n.sub /\ \A i \in 1 .. Len(n.out) : n.out[i].t = "changed"

\* The page is being replayed; live events wait behind it.
ReplayShape(n, m) ==
    /\ m.desired # None /\ m.page.ws = m.desired
    /\ \A i \in 1 .. Len(n.out) : n.out[i].t = "event"
    /\ ~ m.page.live => n.out = <<>> /\ ~ n.sub
    /\ n.up => n.req = <<>> /\ n.member = m.desired

RestoreOK(n, m, l) ==
    /\ m.phase = "joining" => JoinShape(n, m)
    /\ m.phase = "restoring" => PageShape(n, m, l)
    /\ m.phase = "replaying" => ReplayShape(n, m)

-----------------------------------------------------------------------------
WithinLog ==
    /\ MemoryOK(client, log) /\ QueueOK(commands, log) /\ EventsOK(events, log)
    /\ \A v \in replies : InLog(log, v)
    /\ ViewOK(ui, log) /\ ActionOK(ui.act)

NetOK(n, m, l, P, cmds) == WireOK(n, l) /\ UnsentOK(n, P, cmds) /\ PendingOK(n, P) /\ RestoreOK(n, m, l)

Inv == TypeOK /\ WithinLog /\ NetOK(net, client, log, pending, commands)
-----------------------------------------------------------------------------
(* Lemmas on the operators.                                                   *)

\* Max, as cursors use it.
LEMMA MaxTwo ==
    ASSUME NEW a \in Int, NEW b \in Int
    PROVE  (Max({a, b}) = a \/ Max({a, b}) = b) /\ Max({a, b}) >= a /\ Max({a, b}) >= b
BY DEF Max

\* Max of three, as advance_cursor uses it.
LEMMA MaxThree ==
    ASSUME NEW a \in Int, NEW b \in Int, NEW c \in Int
    PROVE  Max({a, b, c}) = a \/ Max({a, b, c}) = b \/ Max({a, b, c}) = c
<1>1. \E x \in {a, b, c} : \A y \in {a, b, c} : x >= y
  <2>1. (a >= b /\ a >= c) \/ (b >= a /\ b >= c) \/ (c >= a /\ c >= b)
    OBVIOUS
  <2> QED BY <2>1
<1> QED BY <1>1 DEF Max

\* Min, as pages and the command queue use it.
LEMMA MinTwo ==
    ASSUME NEW a \in Int, NEW b \in Int
    PROVE  (Min({a, b}) = a \/ Min({a, b}) = b) /\ Min({a, b}) <= a /\ Min({a, b}) <= b
BY DEF Min

\* A connection that is gone and still shows a prefix of what was queued.
LEMMA PrefixOK ==
    ASSUME NEW n \in Connection, NEW m, NEW l, NEW P, NEW cmds, NEW k \in 0 .. Len(n.out),
           NetOK(n, m, l, P, cmds)
    PROVE  /\ Closed(SubSeq(n.out, 1, k)) \in Connection
           /\ NetOK(Closed(SubSeq(n.out, 1, k)), m, l, P, cmds)
<1>1. n.out \in Seq(Frame) /\ n.req \in Seq(Request)
  BY DEF Connection
<1>2. SubSeq(n.out, 1, k) \in Seq(Frame) /\ Len(SubSeq(n.out, 1, k)) = k
      /\ \A i \in 1 .. k : SubSeq(n.out, 1, k)[i] = n.out[i]
  BY <1>1
<1>3. PICK s \in Seq(Frame) : s = SubSeq(n.out, 1, k)
  BY <1>2
<1>4. Len(s) = k /\ k \in Nat /\ k <= Len(n.out) /\ \A i \in 1 .. k : s[i] = n.out[i]
  BY <1>1, <1>2, <1>3
<1>5. Closed(s) \in Connection
  <2>1. <<>> \in Seq(Request) /\ None \in Room
    BY DEF Room
  <2> QED BY <2>1 DEF Closed, Connection
<1>6. PICK c \in Connection : c = Closed(s)
  BY <1>5
<1>7. c.up = FALSE /\ c.sub = FALSE /\ c.req = <<>> /\ c.out = s /\ Len(c.req) = 0
  BY <1>6 DEF Closed
<1>8. WireOK(c, l)
  BY <1>4, <1>7 DEF NetOK, WireOK
<1>9. UnsentOK(c, P, cmds)
  BY <1>1, <1>4, <1>7 DEF NetOK, UnsentOK
<1>10. PendingOK(c, P)
  BY <1>1, <1>4, <1>7 DEF NetOK, PendingOK
<1>11. m.phase = "joining" => JoinShape(c, m)
  BY <1>1, <1>4, <1>7 DEF NetOK, RestoreOK, JoinShape
<1>12. m.phase = "restoring" => PageShape(c, m, l)
  <2> HAVE m.phase = "restoring"
  <2>1. PageShape(n, m, l)
    BY DEF NetOK, RestoreOK
  <2>2. ASSUME NEW i \in 1 .. k PROVE PageFrame(n, i) /\ (n.out[i].t = "changed" => n.out[i].ws = m.desired)
    <3>1. i \in 1 .. Len(n.out)
      BY <1>1, <1>4
    <3> QED BY <3>1, <2>1, Zenon DEF PageShape
  <2>3. ASSUME NEW i \in 1 .. k PROVE PageFrame(c, i)
    <3>1. c.out[i] = n.out[i] /\ \A j \in 1 .. i - 1 : c.out[j] = n.out[j]
      BY <1>4, <1>7
    <3>2. i = Len(n.out) => i = Len(c.out)
      BY <1>1, <1>4, <1>7
    <3>3. PageFrame(n, i)
      BY <2>2
    <3>4. c.out[i].t = "event" => \E j \in 1 .. i - 1 : c.out[j].t = "page"
      BY <3>1, <3>3, Zenon DEF PageFrame
    <3>5. c.out[i].t \in {"changed", "page"} => \A j \in 1 .. i - 1 : c.out[j].t = "changed"
      BY <3>1, <3>3, Zenon DEF PageFrame
    <3>6. c.out[i].t = "page" /\ ~ c.out[i].live => i = Len(c.out) /\ ~ c.sub
      BY <3>1, <3>2, <3>3, <1>7, Zenon DEF PageFrame
    <3>7. c.out[i].t \in {"changed", "page", "event"}
      BY <3>1, <3>3, Zenon DEF PageFrame
    <3> QED BY <3>4, <3>5, <3>6, <3>7, Zenon DEF PageFrame
  <2> QED BY <2>1, <2>2, <2>3, <1>4, <1>7 DEF PageShape
<1>13. m.phase = "replaying" => ReplayShape(c, m)
  <2> HAVE m.phase = "replaying"
  <2>1. ReplayShape(n, m)
    BY DEF NetOK, RestoreOK
  <2>2. n.out = <<>> => s = <<>>
    BY <1>4
  <2> QED BY <2>1, <2>2, <1>1, <1>4, <1>7 DEF ReplayShape
<1> QED BY <1>3, <1>5, <1>6, <1>8, <1>9, <1>10, <1>11, <1>12, <1>13 DEF NetOK, RestoreOK

\* send: it is enough that everything that is queued is in order.
LEMMA SendOK ==
    ASSUME NEW row \in Connection, NEW frames \in Seq(Frame), NEW m, NEW l, NEW P, NEW cmds,
           NetOK([row EXCEPT !.out = row.out \o frames], m, l, P, cmds), Send(row, frames)
    PROVE  net' \in Connection /\ NetOK(net', m, l, P, cmds)
<1>1. row.out \o frames \in Seq(Frame)
  BY DEF Connection
<1>2. PICK s \in Seq(Frame) : s = row.out \o frames
  BY <1>1
<1>3. [row EXCEPT !.out = s] \in Connection
  BY DEF Connection
<1>4. PICK n \in Connection : n = [row EXCEPT !.out = s]
  BY <1>3
<1>5. n.out = s
  BY <1>4 DEF Connection
<1>6. CASE net' = n
  BY <1>2, <1>4, <1>6
<1>7. ASSUME NEW k \in 0 .. OutCap, Len(s) > OutCap, net' = Closed(SubSeq(s, 1, k))
      PROVE  net' \in Connection /\ NetOK(net', m, l, P, cmds)
  <2>1. k \in 0 .. Len(n.out)
    BY <1>5, <1>7, FeedAssumption
  <2> QED BY <2>1, <1>2, <1>4, <1>5, <1>7, PrefixOK
<1>8. net' = n \/ \E k \in 0 .. OutCap : Len(s) > OutCap /\ net' = Closed(SubSeq(s, 1, k))
  BY <1>2, <1>4, FeedAssumption DEF Send
<1> QED BY <1>6, <1>7, <1>8

-----------------------------------------------------------------------------
(* The controller's loop.                                                     *)

\* A read just scheduled.
LEMMA NewReadOK ==
    ASSUME NEW u \in View, NEW step \in {"history", "subscribe", "unsubscribe"}
    PROVE  NewRead(step, u) \in Read
BY DEF NewRead, Read, View

\* schedule starts reads and changes nothing of what is shown or acknowledged.
LEMMA ScheduleOK ==
    ASSUME NEW u \in View
    PROVE  /\ Schedule(u) \in View
           /\ Schedule(u).ws = u.ws /\ Schedule(u).applied = u.applied
           /\ Schedule(u).ack = u.ack /\ Schedule(u).act = u.act
<1>1. StartRecent(u) \in View
      /\ StartRecent(u).ws = u.ws /\ StartRecent(u).applied = u.applied
      /\ StartRecent(u).ack = u.ack /\ StartRecent(u).act = u.act
  <2>1. PICK r \in Read : r = NewRead("history", u)
    BY NewReadOK
  <2>2. [u EXCEPT !.queued = @ \ {"Recent"}, !.recent = r] \in View
    BY DEF View
  <2>3. StartRecent(u) = u \/ StartRecent(u) = [u EXCEPT !.queued = @ \ {"Recent"}, !.recent = r]
    BY <2>1 DEF StartRecent
  <2> QED BY <2>2, <2>3 DEF View
<1>2. PICK s \in View : s = StartRecent(u)
  BY <1>1
<1>3. StartSync(s) \in View
      /\ StartSync(s).ws = s.ws /\ StartSync(s).applied = s.applied
      /\ StartSync(s).ack = s.ack /\ StartSync(s).act = s.act
  <2>1. NewRead(IF s.reset THEN "unsubscribe" ELSE "subscribe", s) \in Read
    BY NewReadOK
  <2>2. PICK r \in Read : r = NewRead(IF s.reset THEN "unsubscribe" ELSE "subscribe", s)
    BY <2>1
  <2>3. [s EXCEPT !.queued = @ \ {"Sync"}, !.reset = FALSE, !.sync = r] \in View
    BY DEF View
  <2>4. [s EXCEPT !.queued = @ \ {"Sync"}] \in View
    BY DEF View
  <2>5. \/ StartSync(s) = s
        \/ StartSync(s) = [s EXCEPT !.queued = @ \ {"Sync"}]
        \/ StartSync(s) = [s EXCEPT !.queued = @ \ {"Sync"}, !.reset = FALSE, !.sync = r]
    BY <2>2 DEF StartSync
  <2>6. CASE StartSync(s) = s
    BY <2>6
  <2>7. CASE StartSync(s) = [s EXCEPT !.queued = @ \ {"Sync"}]
    BY <2>4, <2>7 DEF View
  <2>8. CASE StartSync(s) = [s EXCEPT !.queued = @ \ {"Sync"}, !.reset = FALSE, !.sync = r]
    BY <2>3, <2>8 DEF View
  <2> QED BY <2>5, <2>6, <2>7, <2>8
<1>4. Schedule(u) = u \/ Schedule(u) = StartSync(s)
  BY <1>2 DEF Schedule
<1> QED BY <1>1, <1>2, <1>3, <1>4

\* A command that is not a call, behind the others.
LEMMA AppendOK ==
    ASSUME NEW cmds \in Seq(Command), NEW c \in Command, NEW l, NEW n, NEW P,
           QueueOK(cmds, l), UnsentOK(n, P, cmds), CommandOK(c, l), c.op # "rpc"
    PROVE  /\ Append(cmds, c) \in Seq(Command) /\ Len(Append(cmds, c)) = Len(cmds) + 1
           /\ QueueOK(Append(cmds, c), l) /\ UnsentOK(n, P, Append(cmds, c))
<1>0. Append(cmds, c) \in Seq(Command)
  OBVIOUS
<1>1. PICK s \in Seq(Command) : s = Append(cmds, c)
  BY <1>0
<1>2. Len(s) = Len(cmds) + 1 /\ s[Len(cmds) + 1] = c /\ \A i \in 1 .. Len(cmds) : s[i] = cmds[i]
  BY <1>1
<1>3. \A i \in 1 .. Len(s) : i = Len(cmds) + 1 \/ i \in 1 .. Len(cmds)
  BY <1>2
<1>4. QueueOK(s, l)
  BY <1>2, <1>3 DEF QueueOK
<1>5. \A i \in 1 .. Len(s) : s[i].op = "rpc" => i \in 1 .. Len(cmds) /\ s[i] = cmds[i]
  BY <1>2, <1>3
<1>6. UnsentOK(n, P, s)
  <2>1. ASSUME NEW k \in 1 .. Len(s), s[k].op = "rpc"
        PROVE  /\ \A p \in P : p.id # s[k].call.id
               /\ \A i \in 1 .. Len(n.req) : n.req[i].id # s[k].call.id
               /\ \A i \in 1 .. Len(n.out) : n.out[i].t = "page" => n.out[i].id # s[k].call.id
    <3>1. k \in 1 .. Len(cmds) /\ s[k] = cmds[k]
      BY <1>5, <2>1
    <3> QED BY <2>1, <3>1, Zenon DEF UnsentOK
  <2>2. ASSUME NEW k \in 1 .. Len(s), s[k].op = "rpc", NEW j \in 1 .. Len(s), s[j].op = "rpc", j # k
        PROVE  s[j].call.id # s[k].call.id
    <3>1. k \in 1 .. Len(cmds) /\ s[k] = cmds[k] /\ j \in 1 .. Len(cmds) /\ s[j] = cmds[j]
      BY <1>5, <2>2
    <3> QED BY <2>2, <3>1, Zenon DEF UnsentOK
  <2> QED BY <2>1, <2>2, Zenon DEF UnsentOK
<1> QED BY <1>1, <1>2, <1>4, <1>6

\* The end of every handler: flush_ack queues a cursor that is within the log.
LEMMA LoopOK ==
    ASSUME NEW u \in View, NEW cmds, CommandsOK(cmds), NEW l \in [Workspace -> Nat], NEW n, NEW P,
           ViewOK(u, l), ActionOK(u.act), QueueOK(cmds, l), UnsentOK(n, P, cmds), Loop(u, cmds)
    PROVE  /\ CommandsOK(commands') /\ QueueOK(commands', l) /\ UnsentOK(n, P, commands')
           /\ ui' \in View /\ ViewOK(ui', l) /\ ActionOK(ui'.act)
<1>1. CASE ~ Flushes(u, cmds)
  <2>1. commands' = cmds /\ ui' = Schedule(u)
    BY <1>1 DEF Loop
  <2> QED BY <2>1, ScheduleOK DEF ViewOK
<1>2. CASE Flushes(u, cmds)
  <2>1. commands' = Append(cmds, Ack(u.ws, u.ack)) /\ ui' = Schedule([u EXCEPT !.ack = 0])
    BY <1>2 DEF Loop
  <2>2. cmds \in Seq(Command) /\ Len(cmds) < CommandCap /\ u.ack # 0
    BY <1>2 DEF Flushes, HasRoom, CommandsOK
  <2>3. u.ws \in Workspace /\ u.ack \in Int /\ u.ack <= l[u.ws] /\ u.applied <= l[u.ws]
    BY <2>2 DEF ViewOK, View, Room
  <2>4. Ack(u.ws, u.ack) \in Command /\ Ack(u.ws, u.ack).op = "ack"
        /\ Ack(u.ws, u.ack).seq = u.ack /\ Ack(u.ws, u.ack).ws = u.ws
    BY <2>3 DEF Ack, Command
  <2>5. PICK c \in Command : c = Ack(u.ws, u.ack)
    BY <2>4
  <2>6. CommandOK(c, l) /\ c.op # "rpc"
    BY <2>3, <2>4, <2>5 DEF CommandOK
  <2>7. CommandsOK(commands') /\ QueueOK(commands', l) /\ UnsentOK(n, P, commands')
    BY <2>1, <2>2, <2>5, <2>6, AppendOK, FeedAssumption DEF CommandsOK
  <2>8. [u EXCEPT !.ack = 0] \in View
    BY DEF View
  <2>9. PICK v \in View : v = [u EXCEPT !.ack = 0]
    BY <2>8
  <2>10. v.ws = u.ws /\ v.applied = u.applied /\ v.ack = 0 /\ v.act = u.act
    BY <2>9 DEF View
  <2>11. l[u.ws] >= 0
    BY <2>3
  <2>12. ViewOK(v, l)
    BY <2>3, <2>10, <2>11 DEF ViewOK
  <2>13. ui' \in View /\ ViewOK(ui', l) /\ ActionOK(ui'.act)
    BY <2>1, <2>9, <2>10, <2>12, ScheduleOK DEF ViewOK
  <2> QED BY <2>7, <2>13
<1> QED BY <1>1, <1>2

\* A step of the controller: it touches nothing of the connection.
LEMMA ControllerOK ==
    ASSUME Inv, UNCHANGED <<log, net, pending>>,
           client' = client \/ client' = [client EXCEPT !.news = FALSE],
           events' = events \/ (events # <<>> /\ events' = Tail(events)),
           replies' \subseteq replies,
           CommandsOK(commands'), QueueOK(commands', log), UnsentOK(net, pending, commands'),
           ui' \in View, ViewOK(ui', log), ActionOK(ui'.act)
    PROVE  Inv'
<1>1. client \in Memory /\ events \in Seq(Notice)
  BY DEF Inv, TypeOK, FeedTypeOK
<1>2. client' \in Memory
  BY <1>1 DEF Memory
<1>3. client'.phase = client.phase /\ client'.desired = client.desired /\ client'.page = client.page
      /\ client'.acked = client.acked
  BY <1>1 DEF Memory
<1>4. events' \in Seq(Notice)
  BY <1>1
<1>5. TypeOK'
  BY <1>2, <1>4 DEF Inv, TypeOK, FeedTypeOK, CommandsOK
<1>6. EventsOK(events', log)
  <2>1. EventsOK(events, log)
    BY DEF Inv, WithinLog
  <2>2. CASE events # <<>> /\ events' = Tail(events)
    <3>1. \A i \in 1 .. Len(events') : i + 1 \in 1 .. Len(events) /\ events'[i] = events[i + 1]
      BY <1>1, <2>2
    <3> QED BY <3>1, <2>1 DEF EventsOK
  <2> QED BY <2>1, <2>2
<1>7. MemoryOK(client', log)
  BY <1>3 DEF Inv, WithinLog, MemoryOK
<1>8. WithinLog'
  BY <1>6, <1>7 DEF Inv, WithinLog
<1>9. RestoreOK(net, client', log)
  <2>1. RestoreOK(net, client, log)
    BY DEF Inv, NetOK
  <2>2. client'.phase = "joining" => JoinShape(net, client')
    BY <1>3, <2>1 DEF RestoreOK, JoinShape
  <2>3. client'.phase = "restoring" => PageShape(net, client', log)
    BY <1>3, <2>1 DEF RestoreOK, PageShape
  <2>4. client'.phase = "replaying" => ReplayShape(net, client')
    BY <1>3, <2>1 DEF RestoreOK, ReplayShape
  <2> QED BY <2>2, <2>3, <2>4 DEF RestoreOK
<1>10. NetOK(net', client', log', pending', commands')
  BY <1>9 DEF Inv, NetOK
<1> QED BY <1>5, <1>8, <1>10 DEF Inv

\* The same for a handler that ends in the loop with its queue unchanged.
LEMMA HandlerOK ==
    ASSUME Inv, UNCHANGED <<log, net, pending>>,
           client' = client \/ client' = [client EXCEPT !.news = FALSE],
           events' = events \/ (events # <<>> /\ events' = Tail(events)),
           replies' \subseteq replies,
           NEW u \in View, ViewOK(u, log), ActionOK(u.act), Loop(u, commands)
    PROVE  Inv'
<1>1. log \in [Workspace -> Nat] /\ CommandsOK(commands) /\ QueueOK(commands, log)
      /\ UnsentOK(net, pending, commands)
  BY DEF Inv, TypeOK, FeedTypeOK, WithinLog, NetOK
<1>2. /\ CommandsOK(commands') /\ QueueOK(commands', log) /\ UnsentOK(net, pending, commands')
      /\ ui' \in View /\ ViewOK(ui', log) /\ ActionOK(ui'.act)
  BY <1>1, LoopOK
<1> QED BY <1>2, ControllerOK

-----------------------------------------------------------------------------
(* Applying events.                                                           *)

\* Two views that show and acknowledge the same and run the same action.
Alike(u, v) == u.ws = v.ws /\ u.applied = v.applied /\ u.ack = v.ack /\ u.act = v.act

\* A read is asked for.
LEMMA EnqueueOK ==
    ASSUME NEW u \in View, NEW kind \in {"Recent", "Sync"}
    PROVE  Enqueue(u, kind) \in View /\ Alike(Enqueue(u, kind), u)
BY DEF Enqueue, View, Alike

\* A gap resets the subscription only.
LEMMA GappedOK ==
    ASSUME NEW u \in View
    PROVE  Gapped(u) \in View /\ Alike(Gapped(u), u)
<1>1. PICK v \in View : v = Enqueue(u, "Sync") /\ Alike(v, u)
  BY EnqueueOK
<1>2. (IF v.sync = None THEN None ELSE [v.sync EXCEPT !.gapped = TRUE]) \in Read \cup {None}
  BY DEF View, Read
<1>3. PICK s \in Read \cup {None} : s = IF v.sync = None THEN None ELSE [v.sync EXCEPT !.gapped = TRUE]
  BY <1>2
<1>4. Gapped(u) = [v EXCEPT !.reset = TRUE, !.sync = s]
  BY <1>1, <1>3 DEF Gapped
<1>5. [v EXCEPT !.reset = TRUE, !.sync = s] \in View
  BY DEF View
<1>6. Alike([v EXCEPT !.reset = TRUE, !.sync = s], v)
  BY DEF View, Alike
<1> QED BY <1>1, <1>4, <1>5, <1>6 DEF Alike

\* apply_event: the cursor moves within the log.
LEMMA ApplyOK ==
    ASSUME NEW u \in View, NEW l \in [Workspace -> Nat], NEW w \in Room, NEW lo \in Int, NEW hi \in Int,
           ViewOK(u, l), lo # hi => w # None /\ hi <= l[w]
    PROVE  /\ Apply(u, w, lo, hi) \in View /\ ViewOK(Apply(u, w, lo, hi), l)
           /\ Apply(u, w, lo, hi).act = u.act
<1>1. CASE u.ws # w \/ lo = hi
  BY <1>1 DEF Apply
<1>2. CASE u.ws = w /\ lo # hi /\ u.applied = Absent
  <2>1. Apply(u, w, lo, hi) = Gapped(u)
    BY <1>2 DEF Apply
  <2> QED BY <2>1, GappedOK DEF Alike, ViewOK
<1>3. CASE u.ws = w /\ lo # hi /\ u.applied # Absent /\ lo > u.applied
  <2>1. Apply(u, w, lo, hi) = Gapped([u EXCEPT !.synced = FALSE])
    BY <1>3 DEF Apply
  <2>2. [u EXCEPT !.synced = FALSE] \in View /\ Alike([u EXCEPT !.synced = FALSE], u)
    BY DEF View, Alike
  <2> QED BY <2>1, <2>2, GappedOK DEF Alike, ViewOK
<1>4. CASE u.ws = w /\ lo # hi /\ u.applied # Absent /\ ~ (lo > u.applied)
  <2>1. PICK v \in View : v = Acknowledge(u, w, u.applied, hi) /\ Alike(v, u)
    <3>1. [u EXCEPT !.chat = "idle"] \in View /\ Alike([u EXCEPT !.chat = "idle"], u)
      BY DEF View, Alike
    <3>2. Alike(u, u)
      BY DEF Alike
    <3> QED BY <3>1, <3>2 DEF Acknowledge
  <2>2. v.applied \in Int /\ v.ack \in Int /\ v.ws = w /\ w \in Workspace
    BY <1>4, <2>1 DEF View, Alike, Room
  <2>3. v.applied <= l[w] /\ v.ack <= l[w] /\ hi <= l[w]
    BY <1>4, <2>1, <2>2, FeedAssumption DEF ViewOK, Alike
  <2>4. PICK a \in Int : a = Max({v.applied, hi}) /\ a <= l[w]
    BY <2>2, <2>3, MaxTwo
  <2>5. PICK b \in Int : b = Max({v.ack, hi}) /\ b <= l[w]
    BY <2>2, <2>3, MaxTwo
  <2>6. Apply(u, w, lo, hi) = [v EXCEPT !.applied = a, !.ack = b]
    BY <1>4, <2>1, <2>4, <2>5 DEF Apply
  <2>7. [v EXCEPT !.applied = a, !.ack = b] \in View
    BY DEF View
  <2>8. PICK x \in View : x = [v EXCEPT !.applied = a, !.ack = b]
    BY <2>7
  <2>9. x.applied = a /\ x.ack = b /\ x.ws = w /\ x.act = u.act
    BY <2>1, <2>2, <2>8 DEF View, Alike
  <2>10. ViewOK(x, l)
    BY <2>2, <2>4, <2>5, <2>9, FeedAssumption DEF ViewOK
  <2> QED BY <2>6, <2>8, <2>9, <2>10
<1> QED BY <1>1, <1>2, <1>3, <1>4

-----------------------------------------------------------------------------
(* Handlers of events, replies and connection changes.                        *)

\* The reply a task takes: one of those delivered, or the failure to send.
LEMMA ReplyOK ==
    ASSUME Inv, NEW job, NEW v \in Reply(job), v.ok
    PROVE  v \in Value /\ InLog(log, v)
BY DEF Reply, Failed, Inv, TypeOK, FeedTypeOK, WithinLog

\* The controller applies an event of the channel.
LEMMA TakeEventOK == Inv /\ TakeEvent => Inv'
<1> SUFFICES ASSUME Inv, TakeEvent PROVE Inv'
  OBVIOUS
<1>1. events \in Seq(Notice) /\ events # <<>> /\ EventsOK(events, log) /\ ui \in View
      /\ ViewOK(ui, log) /\ ActionOK(ui.act) /\ log \in [Workspace -> Nat]
  BY DEF Inv, TypeOK, FeedTypeOK, WithinLog, TakeEvent
<1>2. Head(events) \in Notice /\ NoticeOK(Head(events), log)
  BY <1>1 DEF EventsOK
<1>3. PICK e \in Notice : e = Head(events)
  BY <1>2
<1>4. e.ws \in Room /\ e.seq \in Int /\ e.seq - 1 \in Int /\ NoticeOK(e, log)
  BY <1>2, <1>3 DEF Notice
<1>5. PICK u : u = (IF e.ws = None \/ ui.ws = None THEN ui ELSE Apply(ui, e.ws, e.seq - 1, e.seq))
  OBVIOUS
<1>6. u \in View /\ ViewOK(u, log) /\ u.act = ui.act
  <2>1. CASE e.ws = None \/ ui.ws = None
    BY <1>1, <1>5, <2>1
  <2>2. CASE ~ (e.ws = None \/ ui.ws = None)
    <3>1. e.seq <= log[e.ws]
      BY <1>4, <2>2 DEF NoticeOK
    <3>2. /\ Apply(ui, e.ws, e.seq - 1, e.seq) \in View /\ ViewOK(Apply(ui, e.ws, e.seq - 1, e.seq), log)
          /\ Apply(ui, e.ws, e.seq - 1, e.seq).act = ui.act
      BY <1>1, <1>4, <2>2, <3>1, ApplyOK
    <3> QED BY <1>5, <2>2, <3>2
  <2> QED BY <2>1, <2>2
<1>7. Loop(u, commands)
  BY <1>3, <1>5 DEF TakeEvent
<1>8. /\ UNCHANGED <<log, net, pending>> /\ client' = client
      /\ events' = Tail(events) /\ replies' \subseteq replies
  BY DEF TakeEvent
<1> QED BY <1>1, <1>6, <1>7, <1>8, HandlerOK

\* What SyncDone and RecentDone start from.
LEMMA ClearedOK ==
    ASSUME Inv
    PROVE  /\ [ui EXCEPT !.sync = None] \in View /\ Alike([ui EXCEPT !.sync = None], ui)
           /\ [ui EXCEPT !.recent = None] \in View /\ Alike([ui EXCEPT !.recent = None], ui)
BY DEF Inv, TypeOK, View, Alike

\* A Sync read ends: its page is applied.
LEMMA SyncDoneOK == Inv /\ SyncDone => Inv'
<1> SUFFICES ASSUME Inv, SyncDone PROVE Inv'
  OBVIOUS
<1>1. ui \in View /\ ViewOK(ui, log) /\ ActionOK(ui.act) /\ log \in [Workspace -> Nat]
  BY DEF Inv, TypeOK, FeedTypeOK, WithinLog
<1>2. PICK u \in View : u = [ui EXCEPT !.sync = None] /\ Alike(u, ui)
  BY ClearedOK
<1>3. ViewOK(u, log) /\ u.act = ui.act
  BY <1>1, <1>2 DEF ViewOK, Alike
<1>4. PICK v \in Reply(ui.sync) :
         /\ Loop(IF v.ok /\ Accepts(ui, ui.sync) THEN SyncPage(u, ui.sync, v) ELSE u, commands)
         /\ TakeReply(v)
  BY <1>2 DEF SyncDone
<1>5. PICK x : x = IF v.ok /\ Accepts(ui, ui.sync) THEN SyncPage(u, ui.sync, v) ELSE u
  OBVIOUS
<1>6. x \in View /\ ViewOK(x, log) /\ x.act = ui.act
  <2>1. CASE ~ (v.ok /\ Accepts(ui, ui.sync))
    BY <1>2, <1>3, <1>5, <2>1
  <2>2. CASE v.ok /\ Accepts(ui, ui.sync)
    <3>1. v \in Value /\ InLog(log, v)
      BY <2>2, ReplyOK
    <3>2. v.ws \in Room /\ v.lo \in Int /\ v.hi \in Int /\ (v.lo # v.hi => v.ws # None /\ v.hi <= log[v.ws])
      BY <3>1 DEF Value, InLog
    <3>3. PICK y \in View : y = Apply(u, v.ws, v.lo, v.hi) /\ ViewOK(y, log) /\ y.act = u.act
      BY <1>1, <1>3, <3>2, ApplyOK
    <3>4. [y EXCEPT !.synced = TRUE] \in View /\ Alike([y EXCEPT !.synced = TRUE], y)
      BY DEF View, Alike
    <3>5. Enqueue(y, "Sync") \in View /\ Alike(Enqueue(y, "Sync"), y)
      BY EnqueueOK
    <3>6. x = [y EXCEPT !.synced = TRUE] \/ x = Enqueue(y, "Sync")
      BY <1>5, <2>2, <3>3 DEF SyncPage
    <3>7. x \in View /\ Alike(x, y)
      BY <3>4, <3>5, <3>6
    <3> QED BY <1>3, <3>3, <3>7 DEF Alike, ViewOK
  <2> QED BY <2>1, <2>2
<1>7. /\ UNCHANGED <<log, net, pending>> /\ client' = client
      /\ events' = events /\ replies' \subseteq replies
  BY <1>4 DEF SyncDone, TakeReply
<1> QED BY <1>1, <1>4, <1>5, <1>6, <1>7, HandlerOK

\* A Recent read ends: the first page seeds the cursor.
LEMMA RecentDoneOK == Inv /\ RecentDone => Inv'
<1> SUFFICES ASSUME Inv, RecentDone PROVE Inv'
  OBVIOUS
<1>1. ui \in View /\ ViewOK(ui, log) /\ ActionOK(ui.act) /\ log \in [Workspace -> Nat]
  BY DEF Inv, TypeOK, FeedTypeOK, WithinLog
<1>2. PICK u \in View : u = [ui EXCEPT !.recent = None] /\ Alike(u, ui)
  BY ClearedOK
<1>3. ViewOK(u, log) /\ u.act = ui.act
  BY <1>1, <1>2 DEF ViewOK, Alike
<1>4. PICK v \in Reply(ui.recent) :
         /\ Loop(IF v.ok /\ Accepts(ui, ui.recent) THEN RecentPage(u, v) ELSE u, commands)
         /\ TakeReply(v)
  BY <1>2 DEF RecentDone
<1>5. PICK x : x = IF v.ok /\ Accepts(ui, ui.recent) THEN RecentPage(u, v) ELSE u
  OBVIOUS
<1>6. x \in View /\ ViewOK(x, log) /\ x.act = ui.act
  <2>1. CASE ~ (v.ok /\ Accepts(ui, ui.recent)) \/ v.ws # u.ws
    BY <1>2, <1>3, <1>5, <2>1 DEF RecentPage
  <2>2. CASE v.ok /\ Accepts(ui, ui.recent) /\ v.ws = u.ws
    <3>1. v \in Value /\ InLog(log, v)
      BY <2>2, ReplyOK
    <3>2. v.ws \in Room /\ v.lo \in Int /\ v.hi \in Int /\ (v.lo # v.hi => v.ws # None /\ v.hi <= log[v.ws])
          /\ (v.ws # None => v.lo <= log[v.ws])
      BY <1>1, <3>1 DEF Value, InLog, Room
    <3>3. [u EXCEPT !.applied = v.lo] \in View
      BY <3>2 DEF View
    <3>4. PICK z \in View : z = [u EXCEPT !.applied = v.lo]
      BY <3>3
    <3>5. z.ws = u.ws /\ z.applied = v.lo /\ z.ack = u.ack /\ z.act = u.act
      BY <3>4 DEF View
    <3>6. ViewOK(z, log)
      BY <1>3, <2>2, <3>2, <3>5 DEF ViewOK
    <3>7. Apply(z, v.ws, v.lo, v.hi) \in View /\ ViewOK(Apply(z, v.ws, v.lo, v.hi), log)
          /\ Apply(z, v.ws, v.lo, v.hi).act = z.act
      BY <1>1, <3>2, <3>6, ApplyOK
    <3>8. PICK y \in View : /\ y = IF u.applied = Absent THEN Apply(z, v.ws, v.lo, v.hi) ELSE u
                            /\ ViewOK(y, log) /\ y.act = u.act
      BY <1>3, <3>5, <3>7
    <3>9. x = Enqueue(y, "Sync")
      BY <1>5, <2>2, <3>4, <3>8 DEF RecentPage
    <3>10. x \in View /\ Alike(x, y)
      BY <3>9, EnqueueOK
    <3> QED BY <1>3, <3>8, <3>10 DEF Alike, ViewOK
  <2> QED BY <2>1, <2>2
<1>7. /\ UNCHANGED <<log, net, pending>> /\ client' = client
      /\ events' = events /\ replies' \subseteq replies
  BY <1>4 DEF RecentDone, TakeReply
<1> QED BY <1>1, <1>4, <1>5, <1>6, <1>7, HandlerOK

\* Tasks of an earlier epoch are fenced; nothing else changes.
LEMMA FenceAllOK ==
    ASSUME NEW u \in View, ActionOK(u.act)
    PROVE  /\ FenceAll(u) \in View /\ ActionOK(FenceAll(u).act)
           /\ FenceAll(u).ws = u.ws /\ FenceAll(u).applied = u.applied /\ FenceAll(u).ack = u.ack
<1>1. FenceJob(u.sync) \in Read \cup {None} /\ FenceJob(u.recent) \in Read \cup {None}
  BY DEF FenceJob, View, Read
<1>2. FenceJob(u.act) \in Action \cup {None}
  BY DEF FenceJob, View, Action
<1>3. ActionOK(FenceJob(u.act))
  <2>1. CASE u.act = None
    BY <2>1 DEF FenceJob, ActionOK
  <2>2. CASE u.act # None
    <3>1. u.act \in Action
      BY <2>2 DEF View
    <3>2. PICK b \in Action \cup {None} : b = FenceJob(u.act)
      BY <1>2
    <3>3. b = [u.act EXCEPT !.fenced = TRUE]
      BY <2>2, <3>2 DEF FenceJob
    <3>4. b.step = u.act.step /\ b.old = u.act.old /\ b.target = u.act.target /\ b.full = u.act.full
      BY <3>1, <3>3 DEF Action
    <3> QED BY <2>2, <3>2, <3>4 DEF ActionOK
  <2> QED BY <2>1, <2>2
<1>4. PICK s \in Read \cup {None}, r \in Read \cup {None}, a \in Action \cup {None} :
         s = FenceJob(u.sync) /\ r = FenceJob(u.recent) /\ a = FenceJob(u.act)
  BY <1>1, <1>2
<1>5. FenceAll(u) = [u EXCEPT !.sync = s, !.recent = r, !.act = a]
  BY <1>4 DEF FenceAll, View
<1>6. [u EXCEPT !.sync = s, !.recent = r, !.act = a] \in View
  BY DEF View
<1> QED BY <1>3, <1>4, <1>5, <1>6 DEF View

\* A task just spawned.
LEMMA NewActionOK ==
    ASSUME NEW step \in Step, NEW old \in Room, NEW target \in Room
    PROVE  /\ NewAction(step, old, target) \in Action
           /\ NewAction(step, old, target).step = step /\ NewAction(step, old, target).old = old
           /\ NewAction(step, old, target).target = target
BY DEF NewAction, Action

\* restore_previous: the recovery knows its room, or has failed already.
LEMMA RestorePreviousOK ==
    ASSUME NEW u \in View, NEW old \in Room
    PROVE  /\ RestorePrevious(u, old) \in View /\ ActionOK(RestorePrevious(u, old).act)
           /\ RestorePrevious(u, old).ws = u.ws /\ RestorePrevious(u, old).applied = u.applied
           /\ RestorePrevious(u, old).ack = u.ack
<1>1. CASE u.conn # "up"
  <2>1. [u EXCEPT !.restore = old, !.act = None] \in View
    BY DEF View
  <2>2. [u EXCEPT !.switching = None, !.act = None] \in View
    BY DEF View, Room
  <2>3. RestorePrevious(u, old) = [u EXCEPT !.restore = old, !.act = None]
        \/ RestorePrevious(u, old) = [u EXCEPT !.switching = None, !.act = None]
    BY <1>1 DEF RestorePrevious
  <2>4. CASE RestorePrevious(u, old) = [u EXCEPT !.restore = old, !.act = None]
    BY <2>1, <2>4 DEF View, ActionOK
  <2>5. CASE RestorePrevious(u, old) = [u EXCEPT !.switching = None, !.act = None]
    BY <2>2, <2>5 DEF View, ActionOK
  <2> QED BY <2>3, <2>4, <2>5
<1>2. CASE u.conn = "up"
  <2>0. PICK step \in Step, none \in Room : step = "restore" /\ none = None
    BY DEF Step, Room
  <2>1. PICK b \in Action : b = NewAction("restore", None, None) /\ b.step = "restore"
    BY <2>0, NewActionOK
  <2>2. [b EXCEPT !.full = TRUE] \in Action
    BY DEF Action
  <2>3. PICK c \in Action : c = [b EXCEPT !.full = TRUE]
    BY <2>2
  <2>4. ActionOK(c)
    <3>1. c.full = TRUE /\ c.step = "restore"
      BY <2>1, <2>3 DEF Action
    <3> QED BY <3>1 DEF ActionOK
  <2>5. PICK d \in Action : d = NewAction("restore", old, None) /\ d.step = "restore" /\ d.old = old
    BY <2>0, NewActionOK
  <2>6. old # None => ActionOK(d)
    BY <2>5 DEF ActionOK
  <2>7. PICK a \in Action : a = (IF old = None THEN c ELSE d) /\ ActionOK(a)
    BY <2>4, <2>6
  <2>8. RestorePrevious(u, old) = [u EXCEPT !.act = a]
    BY <1>2, <2>1, <2>3, <2>5, <2>7 DEF RestorePrevious
  <2>9. [u EXCEPT !.act = a] \in View
    BY DEF View
  <2> QED BY <2>7, <2>8, <2>9 DEF View
<1> QED BY <1>1, <1>2

\* The controller sees the connection change.
LEMMA ObserveOK == Inv /\ Observe => Inv'
<1> SUFFICES ASSUME Inv, Observe PROVE Inv'
  OBVIOUS
<1>1. ui \in View /\ ViewOK(ui, log) /\ ActionOK(ui.act)
  BY DEF Inv, TypeOK, WithinLog
<1>2. /\ UNCHANGED <<log, net, pending>> /\ client' = [client EXCEPT !.news = FALSE]
      /\ events' = events /\ replies' \subseteq replies
  BY DEF Observe
<1>3. PICK g \in View : g = FenceAll(ui) /\ ActionOK(g.act) /\ g.ws = ui.ws /\ g.applied = ui.applied
                        /\ g.ack = ui.ack
  BY <1>1, FenceAllOK
<1>4. [g EXCEPT !.synced = FALSE] \in View /\ Alike([g EXCEPT !.synced = FALSE], g)
  BY DEF View, Alike
<1>5. PICK f \in View : f = [g EXCEPT !.synced = FALSE] /\ Alike(f, g)
  BY <1>4
<1>6. CASE client.phase # "up"
  <2>1. [f EXCEPT !.conn = "down"] \in View /\ Alike([f EXCEPT !.conn = "down"], f)
    BY DEF View, Alike
  <2>2. PICK d \in View : d = [f EXCEPT !.conn = "down"] /\ Alike(d, f)
    BY <2>1
  <2>3. Uncertain(d) \in View /\ Alike(Uncertain(d), d)
    BY DEF Uncertain, View, Alike
  <2>4. PICK x \in View : x = Uncertain(d) /\ Alike(x, d)
    BY <2>3
  <2>5. ViewOK(x, log) /\ ActionOK(x.act)
    BY <1>1, <1>3, <1>5, <2>2, <2>4 DEF Alike, ViewOK
  <2>6. Loop(x, commands)
    BY <1>3, <1>5, <1>6, <2>2, <2>4 DEF Observe
  <2> QED BY <1>2, <2>5, <2>6, HandlerOK
<1>7. CASE client.phase = "up"
  <2>1. [f EXCEPT !.conn = "up"] \in View /\ Alike([f EXCEPT !.conn = "up"], f)
    BY DEF View, Alike
  <2>2. PICK d \in View : d = [f EXCEPT !.conn = "up"] /\ Alike(d, f)
    BY <2>1
  <2>3. [d EXCEPT !.restore = None] \in View /\ Alike([d EXCEPT !.restore = None], d) /\ d.restore \in Room
    BY DEF View, Alike, Room
  <2>4. PICK r \in View : r = [d EXCEPT !.restore = None] /\ Alike(r, d)
    BY <2>3
  <2>5. PICK b \in View : /\ b = IF d.restore = None THEN d ELSE RestorePrevious(r, d.restore)
                          /\ ActionOK(b.act) /\ b.ws = d.ws /\ b.applied = d.applied /\ b.ack = d.ack
    <3>1. CASE d.restore = None
      BY <1>3, <1>5, <2>2, <3>1 DEF Alike
    <3>2. CASE d.restore # None
      <4>1. PICK o \in Room : o = d.restore
        BY <2>3
      <4>2. /\ RestorePrevious(r, o) \in View /\ ActionOK(RestorePrevious(r, o).act)
            /\ RestorePrevious(r, o).ws = r.ws /\ RestorePrevious(r, o).applied = r.applied
            /\ RestorePrevious(r, o).ack = r.ack
        BY RestorePreviousOK
      <4> QED BY <2>4, <3>2, <4>1, <4>2 DEF Alike
    <3> QED BY <3>1, <3>2
  <2>6. PICK kind \in {"Recent", "Sync"} : kind = IF b.applied = Absent THEN "Recent" ELSE "Sync"
    OBVIOUS
  <2>7. Enqueue(b, kind) \in View /\ Alike(Enqueue(b, kind), b)
    BY EnqueueOK
  <2>8. PICK x \in View : x = (IF b.ws = None THEN b ELSE Enqueue(b, kind)) /\ Alike(x, b)
    BY <2>7 DEF Alike
  <2>9. ViewOK(x, log) /\ ActionOK(x.act)
    BY <1>1, <1>3, <1>5, <2>2, <2>5, <2>8 DEF Alike, ViewOK
  <2>10. Loop(x, commands)
    BY <1>3, <1>5, <1>7, <2>2, <2>4, <2>5, <2>6, <2>8 DEF Observe
  <2> QED BY <1>2, <2>9, <2>10, HandlerOK
<1> QED BY <1>6, <1>7

-----------------------------------------------------------------------------
(* Switching rooms and posting.                                               *)

\* A switch or a membership recovery ends.
LEMMA SwitchDoneOK == Inv /\ SwitchDone => Inv'
<1> SUFFICES ASSUME Inv, SwitchDone PROVE Inv'
  OBVIOUS
<1>1. ui \in View /\ ViewOK(ui, log) /\ ActionOK(ui.act) /\ log \in [Workspace -> Nat]
  BY DEF Inv, TypeOK, FeedTypeOK, WithinLog
<1>2. PICK v \in Reply(ui.act) :
         /\ NextStep(ui.act, v.ok) \in {"Joined", "Restored", "RecoveryFailed"}
         /\ Loop(SwitchEnds(ui, ui.act, NextStep(ui.act, v.ok)), commands)
         /\ TakeReply(v)
  BY DEF SwitchDone
<1>3. ui.act \in Action /\ ui.act # None
  BY <1>1 DEF SwitchDone, View
<1>4. PICK a \in Action : a = ui.act
  BY <1>3
<1>5. PICK result : result = NextStep(a, v.ok)
  OBVIOUS
<1>6. result = "Joined" => a.target \in Workspace
  <2>1. a.target \in Room /\ a.step \in Step
    BY DEF Action
  <2>2. result = "Joined" => a.step = "join"
    BY <1>5, <2>1 DEF NextStep
  <2> QED BY <1>1, <1>3, <1>4, <2>1, <2>2 DEF ActionOK, Room
<1>7. PICK z \in View : z = [ui EXCEPT !.act = None] /\ z.ws = ui.ws /\ z.applied = ui.applied
                        /\ z.ack = ui.ack /\ z.act = None
  <2>1. [ui EXCEPT !.act = None] \in View
    BY <1>1 DEF View
  <2> QED BY <1>1, <2>1 DEF View
<1>8. PICK x : x = SwitchEnds(ui, a, result)
  OBVIOUS
<1>9. x \in View /\ ViewOK(x, log) /\ ActionOK(x.act)
  <2>1. CASE ~ Accepts(ui, a)
    <3>1. x = RestorePrevious(ui, ui.ws)
      BY <1>8, <2>1 DEF SwitchEnds
    <3>2. ui.ws \in Room
      BY <1>1 DEF View
    <3> QED BY <1>1, <3>1, <3>2, RestorePreviousOK DEF ViewOK
  <2>2. CASE Accepts(ui, a) /\ result = "Joined"
    <3>1. x = CommitWorkspace(z, a.target)
      BY <1>7, <1>8, <2>2 DEF SwitchEnds
    <3>2. PICK w \in Workspace : w = a.target
      BY <1>6, <2>2
    <3>3. [z EXCEPT !.ws = w, !.switching = None, !.applied = Absent, !.synced = FALSE,
                    !.ack = 0, !.chat = "idle", !.reset = FALSE] \in View
      <4>1. PICK r \in Room, none \in Room, a0 \in Int : r = w /\ none = None /\ a0 = Absent
        BY DEF Room, Absent
      <4>2. [z EXCEPT !.ws = r, !.switching = none, !.applied = a0, !.synced = FALSE] \in View
        BY DEF View
      <4>3. PICK q \in View : q = [z EXCEPT !.ws = r, !.switching = none, !.applied = a0, !.synced = FALSE]
        BY <4>2
      <4>4. [q EXCEPT !.ack = 0] \in View
        BY DEF View
      <4>5. PICK p \in View : p = [q EXCEPT !.ack = 0]
        BY <4>4
      <4>6. [p EXCEPT !.chat = "idle", !.reset = FALSE] \in View
        BY DEF View
      <4>7. [p EXCEPT !.chat = "idle", !.reset = FALSE]
            = [z EXCEPT !.ws = r, !.switching = none, !.applied = a0, !.synced = FALSE,
                        !.ack = 0, !.chat = "idle", !.reset = FALSE]
        BY <4>3, <4>5
      <4> QED BY <4>1, <4>6, <4>7
    <3>4. PICK y \in View : y = [z EXCEPT !.ws = w, !.switching = None, !.applied = Absent, !.synced = FALSE,
                                           !.ack = 0, !.chat = "idle", !.reset = FALSE]
      BY <3>3
    <3>5. y.ws = w /\ y.applied = -1 /\ y.ack = 0 /\ y.act = None
      BY <1>7, <3>4 DEF View, Absent
    <3>6. log[w] >= 0
      BY <1>1
    <3>7. x = Enqueue(y, "Recent")
      BY <3>1, <3>2, <3>4 DEF CommitWorkspace
    <3>8. x \in View /\ Alike(x, y)
      BY <3>7, EnqueueOK
    <3>9. x.ws = w /\ w # None /\ x.applied <= log[w] /\ x.ack <= log[w] /\ x.act = None
      BY <1>1, <3>5, <3>6, <3>8, FeedAssumption DEF Alike
    <3> QED BY <3>8, <3>9 DEF ViewOK, ActionOK
  <2>3. CASE Accepts(ui, a) /\ result = "Restored"
    <3>1. [ui EXCEPT !.act = None, !.switching = None, !.reset = TRUE] \in View
      BY <1>1 DEF View, Room
    <3>2. PICK y \in View : y = [ui EXCEPT !.act = None, !.switching = None, !.reset = TRUE]
      BY <3>1
    <3>3. y.ws = ui.ws /\ y.applied = ui.applied /\ y.ack = ui.ack /\ y.act = None
      BY <1>1, <3>2 DEF View
    <3>4. x = Enqueue(y, "Sync")
      BY <1>8, <2>3, <3>2 DEF SwitchEnds
    <3>5. x \in View /\ Alike(x, y)
      BY <3>4, EnqueueOK
    <3> QED BY <1>1, <3>3, <3>5 DEF Alike, ViewOK, ActionOK
  <2>4. CASE Accepts(ui, a) /\ result \notin {"Joined", "Restored"}
    <3>1. x = [ui EXCEPT !.act = None, !.switching = None, !.conn = "closed", !.synced = FALSE]
      BY <1>8, <2>4 DEF SwitchEnds
    <3>2. x \in View
      <4>1. None \in Room
        BY DEF Room
      <4> QED BY <1>1, <3>1, <4>1 DEF View
    <3>3. x.ws = ui.ws /\ x.applied = ui.applied /\ x.ack = ui.ack /\ x.act = None
      BY <1>1, <3>1 DEF View
    <3> QED BY <1>1, <3>2, <3>3 DEF ViewOK, ActionOK
  <2> QED BY <2>1, <2>2, <2>3, <2>4
<1>10. /\ UNCHANGED <<log, net, pending>> /\ client' = client
       /\ events' = events /\ replies' \subseteq replies
  BY <1>2 DEF SwitchDone, TakeReply
<1> QED BY <1>2, <1>4, <1>5, <1>8, <1>9, <1>10, HandlerOK

\* The action's steps, and the reset's second half.
LEMMA ContinuesOK == Inv /\ (ActionContinues \/ SyncContinues) => Inv'
<1> SUFFICES ASSUME Inv, ActionContinues \/ SyncContinues PROVE Inv'
  OBVIOUS
<1>1. ui \in View /\ ViewOK(ui, log) /\ ActionOK(ui.act)
  BY DEF Inv, TypeOK, WithinLog
<1>2. /\ UNCHANGED <<log, net, pending>> /\ client' = client /\ commands' = commands
      /\ events' = events /\ replies' \subseteq replies
  BY DEF ActionContinues, SyncContinues, TakeReply
<1>3. CommandsOK(commands') /\ QueueOK(commands', log) /\ UnsentOK(net, pending, commands')
  BY <1>2 DEF Inv, TypeOK, WithinLog, NetOK
<1>4. ui' \in View /\ ViewOK(ui', log) /\ ActionOK(ui'.act)
  <2>1. CASE SyncContinues
    <3>1. ui.sync \in Read
      BY <1>1, <2>1 DEF SyncContinues, View
    <3>2. [ui.sync EXCEPT !.step = "subscribe", !.id = None] \in Read
      BY <3>1 DEF Read
    <3>3. PICK s \in Read : s = [ui.sync EXCEPT !.step = "subscribe", !.id = None]
      BY <3>2
    <3>4. ui' = [ui EXCEPT !.sync = s]
      BY <1>1, <2>1, <3>3 DEF SyncContinues, View, Read
    <3>5. ui' \in View /\ Alike(ui', ui)
      BY <1>1, <3>4 DEF View, Alike
    <3> QED BY <1>1, <3>5 DEF Alike, ViewOK
  <2>2. CASE ActionContinues
    <3>1. ui.act \in Action /\ ui.act # None
      BY <1>1, <2>2 DEF ActionContinues, View
    <3>2. PICK a \in Action : a = ui.act
      BY <3>1
    <3>3. PICK v \in Reply(a) :
            /\ NextStep(a, v.ok) \in {"leave", "join", "rejoin"}
            /\ ui' = [ui EXCEPT !.act.step = NextStep(a, v.ok), !.act.id = None, !.act.full = FALSE]
      BY <2>2, <3>2 DEF ActionContinues
    <3>4. PICK step \in {"leave", "join", "rejoin"} : step = NextStep(a, v.ok)
      BY <3>3
    <3>5. [a EXCEPT !.step = step, !.id = None, !.full = FALSE] \in Action
      BY DEF Action, Step
    <3>6. PICK b \in Action : b = [a EXCEPT !.step = step, !.id = None, !.full = FALSE]
      BY <3>5
    <3>7. ui' = [ui EXCEPT !.act = b]
      BY <1>1, <3>2, <3>3, <3>4, <3>6 DEF View
    <3>8. b.step = step /\ b.target = a.target /\ b.old = a.old
      BY <3>6 DEF Action
    <3>9. a.step \in {"unsubscribe", "leave", "join"} /\ (step = "rejoin" => a.old # None)
      BY <3>4 DEF NextStep, Action, Step
    <3>10. ActionOK(b)
      BY <1>1, <3>1, <3>2, <3>8, <3>9 DEF ActionOK
    <3>11. ui' \in View /\ ui'.act = b /\ ui'.ws = ui.ws /\ ui'.applied = ui.applied /\ ui'.ack = ui.ack
      BY <1>1, <3>7 DEF View
    <3> QED BY <1>1, <3>10, <3>11 DEF ViewOK
  <2> QED BY <2>1, <2>2
<1> QED BY <1>2, <1>3, <1>4, ControllerOK

\* Chat, its outcome, and a reload of the history.
LEMMA ChatOK == Inv /\ (ChatDone \/ SubmitChat \/ RetryChat \/ RecentHistory) => Inv'
<1> SUFFICES ASSUME Inv, ChatDone \/ SubmitChat \/ RetryChat \/ RecentHistory PROVE Inv'
  OBVIOUS
<1>1. ui \in View /\ ViewOK(ui, log) /\ ActionOK(ui.act)
  BY DEF Inv, TypeOK, WithinLog
<1>2. PICK post \in Action : post = NewAction("post", None, None) /\ ActionOK(post)
  <2>0. PICK step \in Step, none \in Room : step = "post" /\ none = None
    BY DEF Step, Room
  <2> QED BY <2>0, NewActionOK DEF ActionOK
<1>3. /\ UNCHANGED <<log, net, pending>> /\ client' = client
      /\ events' = events /\ replies' \subseteq replies
  BY DEF ChatDone, SubmitChat, RetryChat, RecentHistory, TakeReply
<1>4. CASE ChatDone
  <2>1. PICK z \in View : z = [ui EXCEPT !.act = None] /\ z.ws = ui.ws /\ z.applied = ui.applied
                          /\ z.ack = ui.ack /\ z.act = None
    <3>1. [ui EXCEPT !.act = None] \in View
      BY <1>1 DEF View
    <3> QED BY <1>1, <3>1 DEF View
  <2>2. PICK v \in Reply(ui.act) : Loop(ChatOutcome(z, ui.act, v), commands)
    BY <1>4, <2>1 DEF ChatDone
  <2>3. [z EXCEPT !.chat = "idle"] \in View /\ Alike([z EXCEPT !.chat = "idle"], z)
    BY DEF View, Alike
  <2>4. Uncertain(z) \in View /\ Alike(Uncertain(z), z)
    BY DEF Uncertain, View, Alike
  <2>5. PICK x \in View : x = ChatOutcome(z, ui.act, v) /\ Alike(x, z)
    BY <2>3, <2>4 DEF ChatOutcome
  <2>6. ViewOK(x, log) /\ ActionOK(x.act)
    BY <1>1, <2>1, <2>5 DEF Alike, ViewOK, ActionOK
  <2> QED BY <1>3, <2>2, <2>5, <2>6, HandlerOK
<1>5. CASE SubmitChat
  <2>0. PICK k \in Nat : k = ui.posts + 1
    BY <1>1 DEF View
  <2>1. [ui EXCEPT !.chat = "sent", !.posts = k, !.act = post] \in View
    BY <1>1 DEF View
  <2>2. PICK x \in View : x = [ui EXCEPT !.chat = "sent", !.posts = k, !.act = post]
    BY <2>1
  <2>3. x.ws = ui.ws /\ x.applied = ui.applied /\ x.ack = ui.ack /\ x.act = post
    BY <1>1, <2>2 DEF View
  <2>4. ViewOK(x, log) /\ ActionOK(x.act) /\ Loop(x, commands)
    BY <1>1, <1>2, <1>5, <2>0, <2>2, <2>3 DEF ViewOK, SubmitChat
  <2> QED BY <1>3, <2>4, HandlerOK
<1>6. CASE RetryChat
  <2>1. [ui EXCEPT !.chat = "sent", !.act = post] \in View
    BY <1>1 DEF View
  <2>2. PICK x \in View : x = [ui EXCEPT !.chat = "sent", !.act = post]
    BY <2>1
  <2>3. x.ws = ui.ws /\ x.applied = ui.applied /\ x.ack = ui.ack /\ x.act = post
    BY <1>1, <2>2 DEF View
  <2>4. ViewOK(x, log) /\ ActionOK(x.act) /\ Loop(x, commands)
    BY <1>1, <1>2, <1>6, <2>2, <2>3 DEF ViewOK, RetryChat
  <2> QED BY <1>3, <2>4, HandlerOK
<1>7. CASE RecentHistory
  <2>1. PICK y \in View : y = Enqueue(ui, "Recent") /\ Alike(y, ui)
    BY <1>1, EnqueueOK
  <2>2. [y EXCEPT !.refreshes = @ + 1] \in View /\ Alike([y EXCEPT !.refreshes = @ + 1], y)
    BY DEF View, Alike
  <2>3. PICK x \in View : x = [y EXCEPT !.refreshes = @ + 1] /\ Alike(x, y)
    BY <2>2
  <2>4. ViewOK(x, log) /\ ActionOK(x.act)
    BY <1>1, <2>1, <2>3 DEF ViewOK, Alike
  <2>5. Loop(x, commands)
    BY <1>7, <2>1, <2>3 DEF RecentHistory
  <2> QED BY <1>3, <2>4, <2>5, HandlerOK
<1> QED BY <1>4, <1>5, <1>6, <1>7

-----------------------------------------------------------------------------
(* Calls and cancellations the controller queues.                             *)

Sent(job, i) == [job EXCEPT !.id = i]

Refused(job) == [job EXCEPT !.full = TRUE]

\* A task's next call carries an identifier that nothing else mentions.
LEMMA SendCallOK ==
    ASSUME Inv, NEW job, NEW kind \in CallKind, NEW w \in Room, NEW after \in Int,
           kind = "join" => w # None, FreshIds # {}
    PROVE  /\ CommandsOK(SendCall(job, kind, w, after).cmds)
           /\ QueueOK(SendCall(job, kind, w, after).cmds, log)
           /\ UnsentOK(net, pending, SendCall(job, kind, w, after).cmds)
           /\ \/ SendCall(job, kind, w, after).job = Refused(job)
              \/ \E i \in Id : SendCall(job, kind, w, after).job = Sent(job, i)
<1>1. commands \in Seq(Command) /\ Len(commands) <= CommandCap /\ QueueOK(commands, log)
      /\ UnsentOK(net, pending, commands) /\ net.req \in Seq(Request) /\ net.out \in Seq(Frame)
  BY DEF Inv, TypeOK, FeedTypeOK, CommandsOK, WithinLog, NetOK, Connection
<1>2. CASE ~ HasRoom(commands)
  <2>1. SendCall(job, kind, w, after)
        = [job |-> [job EXCEPT !.full = TRUE], cmds |-> commands, wait |-> waiting]
    BY <1>2 DEF SendCall
  <2> QED BY <1>1, <2>1 DEF CommandsOK, Refused
<1>3. CASE HasRoom(commands)
  <2>1. PICK i \in FreshIds : i = CHOOSE j \in FreshIds : TRUE
    OBVIOUS
  <2>2. i \in Id
    BY DEF FreshIds
  <2>3. PICK c \in Request : c = [id |-> i, kind |-> kind, ws |-> w, after |-> after]
    BY <2>2 DEF Request
  <2>4. c.id = i /\ c.kind = kind /\ c.ws = w
    BY <2>3
  <2>5. Rpc(c) \in Command
    BY DEF Rpc, Command
  <2>6. PICK d \in Command : d = Rpc(c)
    BY <2>5
  <2>7. d.op = "rpc" /\ d.call = c
    BY <2>6 DEF Rpc
  <2>8. Append(commands, d) \in Seq(Command)
    BY <1>1
  <2>9. PICK s \in Seq(Command) : s = Append(commands, d)
    BY <2>8
  <2>10. Len(s) = Len(commands) + 1 /\ s[Len(commands) + 1] = d /\ \A k \in 1 .. Len(commands) : s[k] = commands[k]
    BY <1>1, <2>9
  <2>11. \A k \in 1 .. Len(s) : k = Len(commands) + 1 \/ k \in 1 .. Len(commands)
    BY <1>1, <2>10
  <2>12. SendCall(job, kind, w, after) = [job |-> [job EXCEPT !.id = i], cmds |-> s, wait |-> waiting \cup {i}]
    BY <1>3, <2>1, <2>3, <2>4, <2>6, <2>9 DEF SendCall
  <2>13. CommandsOK(s)
    BY <1>1, <1>3, <2>10, FeedAssumption DEF CommandsOK, HasRoom
  <2>14. CommandOK(d, log)
    BY <2>2, <2>4, <2>7 DEF CommandOK, RequestOK
  <2>15. QueueOK(s, log)
    BY <1>1, <2>10, <2>11, <2>14 DEF QueueOK
  <2>16. /\ \A p \in pending : p.id # i
         /\ \A k \in 1 .. Len(commands) : commands[k].op = "rpc" => commands[k].call.id # i
         /\ \A k \in 1 .. Len(net.req) : net.req[k].id # i
         /\ \A k \in 1 .. Len(net.out) : net.out[k].id # i
    BY <1>1 DEF FreshIds, CommandCall
  <2>17. ASSUME NEW k \in 1 .. Len(s), s[k].op = "rpc"
         PROVE  /\ \A p \in pending : p.id # s[k].call.id
                /\ \A j \in 1 .. Len(net.req) : net.req[j].id # s[k].call.id
                /\ \A j \in 1 .. Len(net.out) : net.out[j].t = "page" => net.out[j].id # s[k].call.id
                /\ \A j \in 1 .. Len(s) : s[j].op = "rpc" /\ j # k => s[j].call.id # s[k].call.id
    <3>1. CASE k = Len(commands) + 1
      <4>1. s[k].call.id = i
        BY <2>4, <2>7, <2>10, <3>1
      <4>2. \A j \in 1 .. Len(s) : j # k => j \in 1 .. Len(commands) /\ s[j] = commands[j]
        BY <2>10, <2>11, <3>1
      <4> QED BY <2>16, <4>1, <4>2
    <3>2. CASE k \in 1 .. Len(commands)
      <4>1. s[k] = commands[k]
        BY <2>10, <3>2
      <4>2. commands[k].call.id # i
        BY <2>16, <2>17, <3>2, <4>1
      <4>3. ASSUME NEW j \in 1 .. Len(s), s[j].op = "rpc", j # k PROVE s[j].call.id # s[k].call.id
        <5>1. CASE j = Len(commands) + 1
          BY <2>4, <2>7, <2>10, <4>1, <4>2, <5>1
        <5>2. CASE j \in 1 .. Len(commands)
          BY <1>1, <2>10, <2>17, <3>2, <4>1, <4>3, <5>2 DEF UnsentOK
        <5> QED BY <2>11, <5>1, <5>2
      <4> QED BY <1>1, <2>17, <3>2, <4>1, <4>3 DEF UnsentOK
    <3> QED BY <2>11, <3>1, <3>2
  <2>18. UnsentOK(net, pending, s)
    BY <2>17 DEF UnsentOK
  <2> QED BY <2>2, <2>12, <2>13, <2>15, <2>18 DEF Sent
<1> QED BY <1>2, <1>3

\* A task sends its call, or finds the queue full.
LEMMA SendOfTasksOK == Inv /\ (SendSync \/ SendRecent \/ SendAction) => Inv'
<1> SUFFICES ASSUME Inv, SendSync \/ SendRecent \/ SendAction PROVE Inv'
  OBVIOUS
<1>1. ui \in View /\ ViewOK(ui, log) /\ ActionOK(ui.act)
  BY DEF Inv, TypeOK, WithinLog
<1>2. /\ UNCHANGED <<log, net, pending>> /\ client' = client
      /\ events' = events /\ replies' \subseteq replies
  BY DEF SendSync, SendRecent, SendAction
<1>3. None \in Room
  BY DEF Room
<1>4. CASE SendSync
  <2>1. ui.sync \in Read /\ FreshIds # {}
    BY <1>1, <1>4 DEF SendSync, Unsent, View
  <2>2. PICK job \in Read : job = ui.sync
    BY <2>1
  <2>3. PICK kind \in CallKind, after \in Int :
           kind = job.step /\ kind # "join" /\ after = IF job.step = "subscribe" THEN job.after ELSE 0
    <3>1. job.step \in CallKind /\ job.step # "join"
      BY DEF Read, CallKind
    <3>2. (IF job.step = "subscribe" THEN job.after ELSE 0) \in Int
      BY DEF Read
    <3> QED BY <3>1, <3>2
  <2>4. PICK s : s = SendCall(job, kind, None, after)
    OBVIOUS
  <2>5. /\ CommandsOK(s.cmds) /\ QueueOK(s.cmds, log) /\ UnsentOK(net, pending, s.cmds)
        /\ s.job = Refused(job) \/ \E i \in Id : s.job = Sent(job, i)
    <3>1. (kind = "join" => None # None) /\ FreshIds # {}
      BY <2>1, <2>3
    <3> QED BY <1>3, <3>1, <2>4, SendCallOK
  <2>6. ui' = [ui EXCEPT !.sync = s.job] /\ commands' = s.cmds
    BY <1>4, <2>2, <2>3, <2>4 DEF SendSync
  <2>7. s.job \in Read
    BY <2>5 DEF Read, Sent, Refused
  <2>8. ui' \in View /\ Alike(ui', ui)
    BY <1>1, <2>6, <2>7 DEF View, Alike
  <2>9. ViewOK(ui', log) /\ ActionOK(ui'.act)
    BY <1>1, <2>8 DEF ViewOK, Alike
  <2> QED BY <1>2, <2>5, <2>6, <2>8, <2>9, ControllerOK
<1>5. CASE SendRecent
  <2>1. ui.recent \in Read /\ FreshIds # {}
    BY <1>1, <1>5 DEF SendRecent, Unsent, View
  <2>2. PICK job \in Read : job = ui.recent
    BY <2>1
  <2>3. PICK kind \in CallKind, after \in Int : kind = "history" /\ after = 0
    BY DEF CallKind
  <2>4. PICK s : s = SendCall(job, kind, None, after)
    OBVIOUS
  <2>5. /\ CommandsOK(s.cmds) /\ QueueOK(s.cmds, log) /\ UnsentOK(net, pending, s.cmds)
        /\ s.job = Refused(job) \/ \E i \in Id : s.job = Sent(job, i)
    BY <1>3, <2>1, <2>3, <2>4, SendCallOK
  <2>6. ui' = [ui EXCEPT !.recent = s.job] /\ commands' = s.cmds
    BY <1>5, <2>2, <2>3, <2>4 DEF SendRecent
  <2>7. s.job \in Read
    BY <2>5 DEF Read, Sent, Refused
  <2>8. ui' \in View /\ Alike(ui', ui)
    BY <1>1, <2>6, <2>7 DEF View, Alike
  <2>9. ViewOK(ui', log) /\ ActionOK(ui'.act)
    BY <1>1, <2>8 DEF ViewOK, Alike
  <2> QED BY <1>2, <2>5, <2>6, <2>8, <2>9, ControllerOK
<1>6. CASE SendAction
  <2>1. ui.act \in Action /\ FreshIds # {} /\ ui.act # None /\ ~ ui.act.full
    BY <1>1, <1>6 DEF SendAction, Unsent, View
  <2>2. PICK job \in Action : job = ui.act
    BY <2>1
  <2>3. PICK kind \in CallKind, w \in Room, after \in Int :
           kind = ActionCall(job)[1] /\ w = ActionCall(job)[2] /\ after = 0 /\ (kind = "join" => w # None)
    <3>1. job.step \in Step /\ job.old \in Room /\ job.target \in Room
      BY DEF Action
    <3>2. CASE job.step = "join"
      <4>1. ActionCall(job) = <<"join", job.target>> /\ job.target # None
        BY <1>1, <2>1, <2>2, <3>2 DEF ActionCall, ActionOK
      <4> QED BY <3>1, <4>1 DEF CallKind
    <3>3. CASE job.step \in {"rejoin", "restore"}
      <4>1. ActionCall(job) = <<"join", job.old>> /\ job.old # None
        BY <1>1, <2>1, <2>2, <3>3 DEF ActionCall, ActionOK
      <4> QED BY <3>1, <4>1 DEF CallKind
    <3>4. CASE job.step \notin {"join", "rejoin", "restore"}
      <4>1. ActionCall(job) = <<job.step, None>>
        BY <3>4 DEF ActionCall
      <4>2. job.step \in CallKind /\ job.step # "join"
        BY <3>1, <3>4 DEF CallKind, Step
      <4> QED BY <1>3, <4>1, <4>2
    <3> QED BY <3>2, <3>3, <3>4
  <2>4. PICK s : s = SendCall(job, kind, w, after)
    OBVIOUS
  <2>5. /\ CommandsOK(s.cmds) /\ QueueOK(s.cmds, log) /\ UnsentOK(net, pending, s.cmds)
        /\ s.job = Refused(job) \/ \E i \in Id : s.job = Sent(job, i)
    <3>1. (kind = "join" => w # None) /\ FreshIds # {}
      BY <2>1, <2>3
    <3>2. /\ CommandsOK(SendCall(job, kind, w, after).cmds)
          /\ QueueOK(SendCall(job, kind, w, after).cmds, log)
          /\ UnsentOK(net, pending, SendCall(job, kind, w, after).cmds)
          /\ \/ SendCall(job, kind, w, after).job = Refused(job)
             \/ \E i \in Id : SendCall(job, kind, w, after).job = Sent(job, i)
      BY <3>1, SendCallOK
    <3> QED BY <3>2, <2>4
  <2>6. ui' = [ui EXCEPT !.act = s.job] /\ commands' = s.cmds
    BY <1>6, <2>2, <2>3, <2>4 DEF SendAction
  <2>7. PICK b \in Action : b = s.job
    BY <2>5 DEF Action, Sent, Refused
  <2>8. b.step = job.step /\ b.old = job.old /\ b.target = job.target /\ (job.full => b.full)
    <3>1. CASE s.job = Refused(job)
      BY <2>7, <3>1 DEF Action, Refused
    <3>2. ASSUME NEW i \in Id, s.job = Sent(job, i)
          PROVE  b.step = job.step /\ b.old = job.old /\ b.target = job.target /\ (job.full => b.full)
      BY <2>7, <3>2 DEF Action, Sent
    <3> QED BY <2>5, <3>1, <3>2
  <2>9. ActionOK(b)
    BY <1>1, <2>1, <2>2, <2>8 DEF ActionOK
  <2>10. ui' \in View /\ ui'.act = b /\ ui'.ws = ui.ws /\ ui'.applied = ui.applied /\ ui'.ack = ui.ack
    BY <1>1, <2>6, <2>7 DEF View
  <2>11. ViewOK(ui', log) /\ ActionOK(ui'.act)
    BY <1>1, <2>9, <2>10 DEF ViewOK
  <2> QED BY <1>2, <2>5, <2>6, <2>10, <2>11, ControllerOK
<1> QED BY <1>4, <1>5, <1>6

\* Cancellations behind the queue.
LEMMA CancelsOK ==
    ASSUME NEW cmds \in Seq(Command), NEW extra \in Seq(Command), NEW l, NEW n, NEW P,
           \A i \in 1 .. Len(extra) : extra[i].op = "cancel",
           QueueOK(cmds, l), UnsentOK(n, P, cmds)
    PROVE  /\ cmds \o extra \in Seq(Command) /\ Len(cmds \o extra) = Len(cmds) + Len(extra)
           /\ QueueOK(cmds \o extra, l) /\ UnsentOK(n, P, cmds \o extra)
<1>0. cmds \o extra \in Seq(Command)
  OBVIOUS
<1>1. PICK s \in Seq(Command) : s = cmds \o extra
  BY <1>0
<1>2. /\ Len(s) = Len(cmds) + Len(extra) /\ \A i \in 1 .. Len(cmds) : s[i] = cmds[i]
      /\ \A i \in 1 .. Len(s) : i \in 1 .. Len(cmds) \/ (i - Len(cmds) \in 1 .. Len(extra) /\ s[i] = extra[i - Len(cmds)])
  BY <1>1
<1>3. \A i \in 1 .. Len(s) : (i \in 1 .. Len(cmds) /\ s[i] = cmds[i]) \/ s[i].op = "cancel"
  BY <1>2
<1>4. QueueOK(s, l)
  BY <1>3 DEF QueueOK, CommandOK
<1>5. \A i \in 1 .. Len(s) : s[i].op = "rpc" => i \in 1 .. Len(cmds) /\ s[i] = cmds[i]
  BY <1>3
<1>6. UnsentOK(n, P, s)
  <2>1. ASSUME NEW k \in 1 .. Len(s), s[k].op = "rpc"
        PROVE  /\ \A p \in P : p.id # s[k].call.id
               /\ \A i \in 1 .. Len(n.req) : n.req[i].id # s[k].call.id
               /\ \A i \in 1 .. Len(n.out) : n.out[i].t = "page" => n.out[i].id # s[k].call.id
    <3>1. k \in 1 .. Len(cmds) /\ s[k] = cmds[k]
      BY <1>5, <2>1
    <3> QED BY <2>1, <3>1, Zenon DEF UnsentOK
  <2>2. ASSUME NEW k \in 1 .. Len(s), s[k].op = "rpc", NEW j \in 1 .. Len(s), s[j].op = "rpc", j # k
        PROVE  s[j].call.id # s[k].call.id
    <3>1. k \in 1 .. Len(cmds) /\ s[k] = cmds[k] /\ j \in 1 .. Len(cmds) /\ s[j] = cmds[j]
      BY <1>5, <2>2
    <3> QED BY <2>2, <3>1, Zenon DEF UnsentOK
  <2> QED BY <2>1, <2>2, Zenon DEF UnsentOK
<1> QED BY <1>1, <1>2, <1>4, <1>6

\* The user selects a room: the reads are dropped and their calls cancelled.
LEMMA SelectWorkspaceOK == ASSUME Inv, NEW target \in Workspace, SelectWorkspace(target) PROVE Inv'
<1>1. ui \in View /\ ViewOK(ui, log) /\ ActionOK(ui.act) /\ log \in [Workspace -> Nat]
      /\ commands \in Seq(Command) /\ Len(commands) <= CommandCap
      /\ QueueOK(commands, log) /\ UnsentOK(net, pending, commands)
  BY DEF Inv, TypeOK, FeedTypeOK, WithinLog, NetOK, CommandsOK
<1>2. PICK ids : ids = Dropped({ui.sync, ui.recent})
  OBVIOUS
<1>3. ids \subseteq Id /\ ids \subseteq {ui.sync.id, ui.recent.id}
  BY <1>1, <1>2 DEF Dropped, View, Read
<1>4. PICK C : C = {Cancel(i) : i \in ids}
  OBVIOUS
<1>5. \A c \in C : c \in Command /\ c.op = "cancel"
  BY <1>3, <1>4 DEF Cancel, Command
<1>6. IsFiniteSet(C)
  <2>1. IsFiniteSet({Cancel(ui.sync.id)} \cup {Cancel(ui.recent.id)})
    BY FS_Singleton, FS_Union
  <2>2. C \in SUBSET ({Cancel(ui.sync.id)} \cup {Cancel(ui.recent.id)})
    BY <1>3, <1>4
  <2> QED BY <2>1, <2>2, FS_Subset
<1>7. PICK q : q = SetToSeq(C)
  OBVIOUS
<1>8. q \in Seq(C)
  <2>1. Cardinality(C) \in Nat /\ ExistsBijection(1 .. Cardinality(C), C)
    BY <1>6, FS_CardinalityType
  <2>2. \E f \in [1 .. Cardinality(C) -> C] : IsInjective(f)
    BY <2>1, Zenon DEF ExistsBijection, Bijection, Injection
  <2>3. q \in [1 .. Cardinality(C) -> C]
    BY <1>7, <2>2, Zenon DEF SetToSeq
  <2> QED BY <2>1, <2>3
<1>9. PICK k \in Int : k = Min({Len(q), CommandCap - Len(commands)}) /\ k <= Len(q)
                       /\ k <= CommandCap - Len(commands) /\ k >= 0
  <2>1. Len(q) \in Nat /\ Len(commands) \in Nat /\ CommandCap \in Nat
    BY <1>1, <1>8, FeedAssumption
  <2>2. PICK a1 \in Nat, b1 \in Nat : a1 = Len(q) /\ b1 = CommandCap - Len(commands)
    <3>1. CommandCap - Len(commands) \in Nat
      BY <1>1, <2>1
    <3> QED BY <2>1, <3>1
  <2>3. (Min({a1, b1}) = a1 \/ Min({a1, b1}) = b1) /\ Min({a1, b1}) <= a1 /\ Min({a1, b1}) <= b1
    BY MinTwo
  <2>4. PICK k \in Nat : k = Min({a1, b1}) /\ k <= a1 /\ k <= b1
    BY <2>3
  <2> QED BY <2>2, <2>4
<1>10. q \in Seq(Command) /\ \A i \in 1 .. Len(q) : q[i].op = "cancel"
  BY <1>5, <1>8
<1>110. k \in 0 .. Len(q)
  BY <1>9, <1>10
<1>11. PICK e \in Seq(Command) : e = SubSeq(q, 1, k) /\ Len(e) = k /\ \A i \in 1 .. k : e[i] = q[i]
  <2>1. SubSeq(q, 1, k) \in Seq(Command) /\ Len(SubSeq(q, 1, k)) = k /\ \A i \in 1 .. k : SubSeq(q, 1, k)[i] = q[i]
    BY <1>10, <1>110
  <2> QED BY <2>1
<1>12. \A i \in 1 .. Len(e) : e[i].op = "cancel"
  BY <1>10, <1>110, <1>11
<1>13. PICK cmds : cmds = commands \o e
  OBVIOUS
<1>14. CommandsOK(cmds) /\ QueueOK(cmds, log) /\ UnsentOK(net, pending, cmds)
  <2>1. cmds \in Seq(Command) /\ Len(cmds) = Len(commands) + Len(e)
        /\ QueueOK(cmds, log) /\ UnsentOK(net, pending, cmds)
    BY <1>1, <1>12, <1>13, CancelsOK
  <2>2. Len(commands) \in Nat /\ CommandCap \in Nat /\ Len(e) = k
    BY <1>1, <1>11, FeedAssumption
  <2>3. Len(commands) + k <= CommandCap
    BY <1>9, <2>2
  <2> QED BY <2>1, <2>2, <2>3 DEF CommandsOK
<1>15. cmds = CancelAll(ids)
  BY <1>4, <1>7, <1>9, <1>11, <1>13 DEF CancelAll
<1>16. PICK a \in Action : /\ a = NewAction(IF ui.ws = None THEN "join" ELSE "unsubscribe", ui.ws, target)
                           /\ ActionOK(a)
  <2>1. PICK step \in Step : step = (IF ui.ws = None THEN "join" ELSE "unsubscribe")
                             /\ step \in {"join", "unsubscribe"}
    BY DEF Step
  <2>2. PICK t \in Room, old \in Room : t = target /\ old = ui.ws /\ t # None
    BY <1>1, FeedAssumption DEF Room, View
  <2>3. NewAction(step, old, t) \in Action /\ NewAction(step, old, t).step = step /\ NewAction(step, old, t).target = t
    BY NewActionOK
  <2> QED BY <2>1, <2>2, <2>3 DEF ActionOK
<1>17. PICK u \in View : /\ u = [ui EXCEPT !.switching = target, !.switches = @ + 1, !.synced = FALSE,
                                          !.sync = None, !.recent = None, !.queued = {}, !.act = a]
                         /\ u.ws = ui.ws /\ u.applied = ui.applied /\ u.ack = ui.ack /\ u.act = a
  <2>1. PICK t \in Room, k1 \in Nat : t = target /\ k1 = ui.switches + 1
    BY <1>1 DEF Room, View
  <2>2. PICK v \in View : /\ v = [ui EXCEPT !.switching = t, !.switches = k1, !.synced = FALSE]
                          /\ v.ws = ui.ws /\ v.applied = ui.applied /\ v.ack = ui.ack
    <3>1. [ui EXCEPT !.switching = t, !.switches = k1, !.synced = FALSE] \in View
      BY <1>1 DEF View
    <3> QED BY <1>1, <3>1 DEF View
  <2>3. [v EXCEPT !.sync = None, !.recent = None, !.queued = {}, !.act = a] \in View
    BY DEF View
  <2>4. [v EXCEPT !.sync = None, !.recent = None, !.queued = {}, !.act = a]
        = [ui EXCEPT !.switching = target, !.switches = @ + 1, !.synced = FALSE,
                     !.sync = None, !.recent = None, !.queued = {}, !.act = a]
    BY <1>1, <2>1, <2>2 DEF View
  <2>5. PICK u \in View : u = [v EXCEPT !.sync = None, !.recent = None, !.queued = {}, !.act = a]
    BY <2>3
  <2>6. u.ws = v.ws /\ u.applied = v.applied /\ u.ack = v.ack /\ u.act = a
    BY <2>5 DEF View
  <2> QED BY <2>2, <2>4, <2>5, <2>6
<1>18. ViewOK(u, log) /\ ActionOK(u.act)
  BY <1>1, <1>16, <1>17 DEF ViewOK
<1>19. Loop(u, cmds) /\ UNCHANGED <<log, net, pending>> /\ client' = client
       /\ events' = events /\ replies' \subseteq replies
  BY <1>2, <1>15, <1>16, <1>17 DEF SelectWorkspace
<1>20. /\ CommandsOK(commands') /\ QueueOK(commands', log) /\ UnsentOK(net, pending, commands')
       /\ ui' \in View /\ ViewOK(ui', log) /\ ActionOK(ui'.act)
  BY <1>1, <1>14, <1>18, <1>19, LoopOK
<1> QED BY <1>19, <1>20, ControllerOK

-----------------------------------------------------------------------------
(* The router.                                                                *)

\* Nothing that is within a log leaves it when the log grows.
LEMMA LogGrows ==
    ASSUME NEW l \in [Workspace -> Nat], NEW h \in [Workspace -> Nat], \A w \in Workspace : l[w] <= h[w]
    PROVE  /\ \A f \in Frame : FrameOK(f, l) => FrameOK(f, h)
           /\ \A v \in Value : InLog(l, v) => InLog(h, v)
           /\ \A e \in Notice : NoticeOK(e, l) => NoticeOK(e, h)
           /\ \A c \in Command : CommandOK(c, l) => CommandOK(c, h)
           /\ \A m \in Memory : MemoryOK(m, l) => MemoryOK(m, h)
           /\ \A u \in View : ViewOK(u, l) => ViewOK(u, h)
<1>1. \A w \in Room : w # None => w \in Workspace /\ l[w] \in Nat /\ h[w] \in Nat /\ l[w] <= h[w]
  BY DEF Room
<1>2. ASSUME NEW f \in Frame, FrameOK(f, l) PROVE FrameOK(f, h)
  <2>1. f.ws \in Room /\ f.lo \in Int /\ f.hi \in Int
    BY DEF Frame
  <2> QED BY <1>1, <1>2, <2>1 DEF FrameOK, InLog
<1>3. ASSUME NEW v \in Value, InLog(l, v) PROVE InLog(h, v)
  <2>1. v.ws \in Room /\ v.lo \in Int /\ v.hi \in Int
    BY DEF Value
  <2> QED BY <1>1, <1>3, <2>1 DEF InLog
<1>4. ASSUME NEW e \in Notice, NoticeOK(e, l) PROVE NoticeOK(e, h)
  <2>1. e.ws \in Room /\ e.seq \in Int
    BY DEF Notice
  <2> QED BY <1>1, <1>4, <2>1 DEF NoticeOK
<1>5. ASSUME NEW c \in Command, CommandOK(c, l) PROVE CommandOK(c, h)
  <2>1. c.op = "ack" => c.ws \in Workspace /\ c.seq \in Int
    BY DEF Command
  <2> QED BY <1>5, <2>1 DEF CommandOK
<1>6. ASSUME NEW m \in Memory, MemoryOK(m, l) PROVE MemoryOK(m, h)
  <2>1. m.page.ws \in Room /\ m.page.lo \in Int /\ m.page.hi \in Int /\ m.acked \in [Workspace -> Int]
    BY DEF Memory
  <2>2. InLog(h, m.page)
    BY <1>1, <1>6, <2>1 DEF MemoryOK, InLog
  <2> QED BY <1>6, <2>1, <2>2 DEF MemoryOK
<1>7. ASSUME NEW u \in View, ViewOK(u, l) PROVE ViewOK(u, h)
  <2>1. u.ws \in Room /\ u.applied \in Int /\ u.ack \in Int
    BY DEF View
  <2> QED BY <1>1, <1>7, <2>1 DEF ViewOK
<1> QED BY <1>2, <1>3, <1>4, <1>5, <1>6, <1>7

\* A step of the router: it touches the connection and lets the log grow.
LEMMA RouterOK ==
    ASSUME Inv, log' \in [Workspace -> Nat], \A w \in Workspace : log[w] <= log'[w],
           UNCHANGED <<client, pending, events, commands, replies, ui>>,
           net' \in Connection, NetOK(net', client, log', pending, commands)
    PROVE  Inv'
<1>1. TypeOK'
  BY DEF Inv, TypeOK, FeedTypeOK, CommandsOK
<1>2. log \in [Workspace -> Nat] /\ client \in Memory /\ events \in Seq(Notice) /\ commands \in Seq(Command)
      /\ replies \in SUBSET Value /\ ui \in View
  BY DEF Inv, TypeOK, FeedTypeOK, CommandsOK
<1>3. PICK h \in [Workspace -> Nat] : h = log'
  OBVIOUS
<1>4. /\ \A v \in Value : InLog(log, v) => InLog(h, v)
      /\ \A e \in Notice : NoticeOK(e, log) => NoticeOK(e, h)
      /\ \A c \in Command : CommandOK(c, log) => CommandOK(c, h)
      /\ \A m \in Memory : MemoryOK(m, log) => MemoryOK(m, h)
      /\ \A u \in View : ViewOK(u, log) => ViewOK(u, h)
  BY <1>2, <1>3, LogGrows
<1>5. MemoryOK(client, h) /\ ViewOK(ui, h) /\ ActionOK(ui.act) /\ \A v \in replies : InLog(h, v)
  BY <1>2, <1>4 DEF Inv, WithinLog
<1>6. QueueOK(commands, h)
  <2>1. \A i \in 1 .. Len(commands) : commands[i] \in Command /\ CommandOK(commands[i], log)
    BY <1>2 DEF Inv, WithinLog, QueueOK
  <2> QED BY <1>4, <2>1 DEF QueueOK
<1>7. EventsOK(events, h)
  <2>1. \A i \in 1 .. Len(events) : events[i] \in Notice /\ NoticeOK(events[i], log)
    BY <1>2 DEF Inv, WithinLog, EventsOK
  <2> QED BY <1>4, <2>1 DEF EventsOK
<1>8. WithinLog'
  BY <1>3, <1>5, <1>6, <1>7 DEF WithinLog
<1> QED BY <1>1, <1>8 DEF Inv

\* Frames behind the others, the first request perhaps answered by them.
LEMMA QueuedOK ==
    ASSUME NEW n \in Connection, NEW n2 \in Connection, NEW frames \in Seq(Frame),
           NEW l \in [Workspace -> Nat], NEW h \in [Workspace -> Nat], \A w \in Workspace : l[w] <= h[w],
           NEW P, NEW cmds, WireOK(n, l), UnsentOK(n, P, cmds), PendingOK(n, P),
           n2.out = n.out \o frames,
           n2.req = n.req \/ (n.req # <<>> /\ n2.req = Tail(n.req)),
           \A i \in 1 .. Len(frames) : FrameOK(frames[i], h),
           \A i \in 1 .. Len(frames) : frames[i].t = "page" =>
               n.req # <<>> /\ frames[i].id = n.req[1].id /\ frames[i].lo = n.req[1].after
    PROVE  WireOK(n2, h) /\ UnsentOK(n2, P, cmds) /\ PendingOK(n2, P)
<1>1. n.out \in Seq(Frame) /\ n.req \in Seq(Request) /\ n2.out \in Seq(Frame) /\ n2.req \in Seq(Request)
  BY DEF Connection
<1>2. \A i \in 1 .. Len(n2.out) : \/ i \in 1 .. Len(n.out) /\ n2.out[i] = n.out[i]
                                  \/ \E j \in 1 .. Len(frames) : n2.out[i] = frames[j]
  <2>1. Len(n2.out) = Len(n.out) + Len(frames)
        /\ \A i \in 1 .. Len(n2.out) : n2.out[i] = IF i <= Len(n.out) THEN n.out[i] ELSE frames[i - Len(n.out)]
    BY <1>1
  <2>2. ASSUME NEW i \in 1 .. Len(n2.out), ~ (i <= Len(n.out)) PROVE i - Len(n.out) \in 1 .. Len(frames)
    BY <1>1, <2>1, <2>2
  <2>3. ASSUME NEW i \in 1 .. Len(n2.out)
        PROVE  \/ i \in 1 .. Len(n.out) /\ n2.out[i] = n.out[i]
               \/ \E j \in 1 .. Len(frames) : n2.out[i] = frames[j]
    <3>1. CASE i <= Len(n.out)
      BY <1>1, <2>1, <3>1
    <3>2. CASE ~ (i <= Len(n.out))
      BY <2>1, <2>2, <3>2
    <3> QED BY <3>1, <3>2
  <2> QED BY <2>3
<1>3. \A i \in 1 .. Len(n2.req) : \E j \in 1 .. Len(n.req) : n2.req[i] = n.req[j]
  <2>1. CASE n.req # <<>> /\ n2.req = Tail(n.req)
    <3>1. \A i \in 1 .. Len(n2.req) : i + 1 \in 1 .. Len(n.req) /\ n2.req[i] = n.req[i + 1]
      BY <1>1, <2>1
    <3> QED BY <3>1
  <2> QED BY <2>1
<1>4. n.req # <<>> => 1 \in 1 .. Len(n.req)
  BY <1>1
<1>5. WireOK(n2, h)
  <2>1. \A i \in 1 .. Len(n.out) : n.out[i] \in Frame /\ FrameOK(n.out[i], l)
    BY <1>1 DEF WireOK
  <2>2. \A i \in 1 .. Len(n.out) : FrameOK(n.out[i], h)
    BY <2>1, LogGrows
  <2>3. \A i \in 1 .. Len(n2.out) : FrameOK(n2.out[i], h)
    BY <1>2, <2>2
  <2>4. \A i \in 1 .. Len(n2.req) : RequestOK(n2.req[i])
    BY <1>3 DEF WireOK
  <2> QED BY <2>3, <2>4 DEF WireOK
<1>6. UnsentOK(n2, P, cmds)
  <2>1. ASSUME NEW k \in 1 .. Len(cmds), cmds[k].op = "rpc"
        PROVE  /\ \A i \in 1 .. Len(n2.req) : n2.req[i].id # cmds[k].call.id
               /\ \A i \in 1 .. Len(n2.out) : n2.out[i].t = "page" => n2.out[i].id # cmds[k].call.id
    <3>1. /\ \A i \in 1 .. Len(n.req) : n.req[i].id # cmds[k].call.id
          /\ \A i \in 1 .. Len(n.out) : n.out[i].t = "page" => n.out[i].id # cmds[k].call.id
      BY <2>1 DEF UnsentOK
    <3>2. \A i \in 1 .. Len(frames) : frames[i].t = "page" => frames[i].id # cmds[k].call.id
      BY <1>4, <3>1
    <3>3. \A i \in 1 .. Len(n2.req) : n2.req[i].id # cmds[k].call.id
      BY <1>3, <3>1
    <3>4. \A i \in 1 .. Len(n2.out) : n2.out[i].t = "page" => n2.out[i].id # cmds[k].call.id
      BY <1>2, <3>1, <3>2
    <3> QED BY <3>3, <3>4
  <2> QED BY <2>1 DEF UnsentOK
<1>7. PendingOK(n2, P)
  <2>1. ASSUME NEW p \in P
        PROVE  /\ \A i \in 1 .. Len(n2.req) : n2.req[i].id = p.id => n2.req[i].after = p.after
               /\ \A i \in 1 .. Len(n2.out) : n2.out[i].id = p.id /\ n2.out[i].t = "page" => n2.out[i].lo = p.after
    <3>1. /\ \A i \in 1 .. Len(n.req) : n.req[i].id = p.id => n.req[i].after = p.after
          /\ \A i \in 1 .. Len(n.out) : n.out[i].id = p.id /\ n.out[i].t = "page" => n.out[i].lo = p.after
      BY DEF PendingOK
    <3>2. \A i \in 1 .. Len(frames) : frames[i].id = p.id /\ frames[i].t = "page" => frames[i].lo = p.after
      BY <1>4, <3>1
    <3>3. \A i \in 1 .. Len(n2.req) : n2.req[i].id = p.id => n2.req[i].after = p.after
      BY <1>3, <3>1
    <3>4. \A i \in 1 .. Len(n2.out) : n2.out[i].id = p.id /\ n2.out[i].t = "page" => n2.out[i].lo = p.after
      <4>1. ASSUME NEW i \in 1 .. Len(n2.out), n2.out[i].id = p.id, n2.out[i].t = "page"
            PROVE  n2.out[i].lo = p.after
        <5>1. CASE i \in 1 .. Len(n.out) /\ n2.out[i] = n.out[i]
          BY <3>1, <4>1, <5>1, Zenon
        <5>2. CASE \E j \in 1 .. Len(frames) : n2.out[i] = frames[j]
          BY <3>2, <4>1, <5>2, Zenon
        <5> QED BY <1>2, <5>1, <5>2, Zenon
      <4> QED BY <4>1, Zenon
    <3> QED BY <3>3, <3>4
  <2> QED BY <2>1 DEF PendingOK
<1> QED BY <1>5, <1>6, <1>7

\* A shape does not depend on the log but for the cursor of a subscription.
LEMMA RestoreGrows ==
    ASSUME NEW n \in Connection, NEW m \in Memory, NEW l \in [Workspace -> Nat], NEW h \in [Workspace -> Nat],
           \A w \in Workspace : l[w] <= h[w], RestoreOK(n, m, l)
    PROVE  RestoreOK(n, m, h)
<1>1. ASSUME PageShape(n, m, l), n.up, n.req # <<>> PROVE n.req[1].after <= h[m.desired]
  <2>1. n.req[1].after <= l[m.desired] /\ m.desired \in Workspace
    BY <1>1 DEF PageShape, Memory, Room
  <2>2. n.req \in Seq(Request)
    BY DEF Connection
  <2>3. n.req[1] \in Request
    BY <1>1, <2>2
  <2>4. n.req[1].after \in Int
    BY <2>3 DEF Request
  <2> QED BY <2>1, <2>4
<1>2. PageShape(n, m, l) => PageShape(n, m, h)
  BY <1>1 DEF PageShape
<1> QED BY <1>2 DEF RestoreOK

\* Live events reach a restoring connection only behind its last page.
LEMMA LiveEventsOK ==
    ASSUME NEW n \in Connection, NEW n2 \in Connection, NEW m \in Memory, NEW l, NEW frames \in Seq(Frame),
           RestoreOK(n, m, l), n.sub, n2.up = n.up, n2.sub = n.sub, n2.member = n.member, n2.req = n.req,
           n2.out = n.out \o frames, \A i \in 1 .. Len(frames) : frames[i].t = "event"
    PROVE  RestoreOK(n2, m, l)
<1>1. n.out \in Seq(Frame) /\ n2.out \in Seq(Frame)
  BY DEF Connection
<1>2. \A i \in 1 .. Len(n.out) : i \in 1 .. Len(n2.out) /\ n2.out[i] = n.out[i]
  BY <1>1
<1>3. ASSUME NEW i \in 1 .. Len(n2.out), i \notin 1 .. Len(n.out) PROVE n2.out[i].t = "event"
  <2>1. i - Len(n.out) \in 1 .. Len(frames)
    BY <1>1, <1>3
  <2>2. n2.out[i] = frames[i - Len(n.out)]
    BY <1>1, <1>3
  <2> QED BY <2>1, <2>2
<1>4. ASSUME NEW i \in 1 .. Len(n2.out), i \notin 1 .. Len(n.out) PROVE \A j \in 1 .. Len(n.out) : j \in 1 .. i - 1
  BY <1>1, <1>4
<1>5. m.phase # "joining"
  BY DEF RestoreOK, JoinShape
<1>6. m.phase = "restoring" => PageShape(n2, m, l)
  <2> HAVE m.phase = "restoring"
  <2>1. PageShape(n, m, l)
    BY DEF RestoreOK
  <2>2. PICK q \in 1 .. Len(n.out) : n.out[q].t = "page"
    BY <2>1 DEF PageShape
  <2>3. n2.sub => \E i \in 1 .. Len(n2.out) : n2.out[i].t = "page"
    BY <1>2, <2>2
  <2>4. ~ (n.up /\ n.req # <<>>)
    BY <2>1 DEF PageShape
  <2>5. ASSUME NEW i \in 1 .. Len(n2.out)
        PROVE  PageFrame(n2, i) /\ (n2.out[i].t = "changed" => n2.out[i].ws = m.desired)
    <3>1. CASE i \in 1 .. Len(n.out)
      <4>1. PageFrame(n, i) /\ (n.out[i].t = "changed" => n.out[i].ws = m.desired)
        BY <2>1, <3>1 DEF PageShape
      <4>2. n2.out[i] = n.out[i] /\ \A j \in 1 .. i - 1 : n2.out[j] = n.out[j]
        BY <1>1, <1>2, <3>1
      <4>3. ~ (n.out[i].t = "page" /\ ~ n.out[i].live)
        BY <4>1 DEF PageFrame
      <4>4. n2.out[i].t = "event" => \E j \in 1 .. i - 1 : n2.out[j].t = "page"
        BY <4>1, <4>2, Zenon DEF PageFrame
      <4>5. n2.out[i].t \in {"changed", "page"} => \A j \in 1 .. i - 1 : n2.out[j].t = "changed"
        <5>1. n.out[i].t \in {"changed", "page"} => \A j \in 1 .. i - 1 : n.out[j].t = "changed"
          BY <4>1, Zenon DEF PageFrame
        <5> QED BY <4>2, <5>1
      <4>6. n2.out[i].t \in {"changed", "page", "event"}
        BY <4>1, <4>2, Zenon DEF PageFrame
      <4> QED BY <4>1, <4>2, <4>3, <4>4, <4>5, <4>6, Zenon DEF PageFrame
    <3>2. CASE i \notin 1 .. Len(n.out)
      <4>1. n2.out[i].t = "event" /\ q \in 1 .. i - 1 /\ n2.out[q].t = "page"
        BY <1>2, <1>3, <1>4, <2>2, <3>2
      <4> QED BY <4>1 DEF PageFrame
    <3> QED BY <3>1, <3>2
  <2> QED BY <2>1, <2>3, <2>4, <2>5 DEF PageShape
<1>7. m.phase = "replaying" => ReplayShape(n2, m)
  <2> HAVE m.phase = "replaying"
  <2>1. ReplayShape(n, m)
    BY DEF RestoreOK
  <2>2. m.page.live \in BOOLEAN /\ m.page.live
    BY <2>1 DEF ReplayShape, Memory
  <2>3. \A i \in 1 .. Len(n2.out) : n2.out[i].t = "event"
    BY <1>2, <1>3, <2>1 DEF ReplayShape
  <2> QED BY <2>1, <2>2, <2>3 DEF ReplayShape
<1> QED BY <1>5, <1>6, <1>7 DEF RestoreOK

\* An event that is in the log.
LEMMA EventFrameOK ==
    ASSUME NEW w \in Workspace, NEW k \in Int, NEW l, k <= l[w]
    PROVE  /\ EventFrame(w, k) \in Frame /\ FrameOK(EventFrame(w, k), l) /\ EventFrame(w, k).t = "event"
BY FeedAssumption DEF EventFrame, Frame, FrameOK, InLog, Room

\* Publication of events frames in w, subscribed or not.
LEMMA FanoutOK ==
    ASSUME Inv, log' \in [Workspace -> Nat], \A w \in Workspace : log[w] <= log'[w],
           UNCHANGED <<client, pending, events, commands, replies, ui>>,
           NEW frames \in Seq(Frame),
           \A i \in 1 .. Len(frames) : frames[i].t = "event" /\ FrameOK(frames[i], log'),
           UNCHANGED net \/ (net.sub /\ Send(net, frames))
    PROVE  Inv'
<1>1. net \in Connection /\ client \in Memory /\ log \in [Workspace -> Nat]
      /\ WireOK(net, log) /\ UnsentOK(net, pending, commands) /\ PendingOK(net, pending) /\ RestoreOK(net, client, log)
  BY DEF Inv, TypeOK, FeedTypeOK, NetOK
<1>2. PICK h \in [Workspace -> Nat] : h = log' /\ \A w \in Workspace : log[w] <= h[w]
  OBVIOUS
<1>3. RestoreOK(net, client, h)
  BY <1>1, <1>2, RestoreGrows
<1>4. CASE UNCHANGED net
  <2>1. \A i \in 1 .. Len(net.out) : net.out[i] \in Frame /\ FrameOK(net.out[i], log)
    BY <1>1 DEF WireOK, Connection
  <2>2. \A i \in 1 .. Len(net.out) : FrameOK(net.out[i], h)
    BY <1>1, <1>2, <2>1, LogGrows
  <2>3. NetOK(net, client, h, pending, commands)
    BY <1>1, <1>3, <2>2 DEF NetOK, WireOK
  <2> QED BY <1>1, <1>2, <1>4, <2>3, RouterOK
<1>5. CASE net.sub /\ Send(net, frames)
  <2>1. net.out \o frames \in Seq(Frame)
    BY <1>1 DEF Connection
  <2>2. [net EXCEPT !.out = net.out \o frames] \in Connection
    BY <1>1, <2>1 DEF Connection
  <2>3. PICK n2 \in Connection : n2 = [net EXCEPT !.out = net.out \o frames]
    BY <2>2
  <2>4. n2.up = net.up /\ n2.sub = net.sub /\ n2.member = net.member /\ n2.req = net.req /\ n2.out = net.out \o frames
    BY <1>1, <2>3 DEF Connection
  <2>5. RestoreOK(n2, client, h)
    BY <1>1, <1>3, <1>5, <2>4, LiveEventsOK
  <2>6. WireOK(n2, h) /\ UnsentOK(n2, pending, commands) /\ PendingOK(n2, pending)
    BY <1>1, <1>2, <2>4, QueuedOK
  <2>7. NetOK(n2, client, h, pending, commands)
    BY <2>5, <2>6 DEF NetOK
  <2>8. net' \in Connection /\ NetOK(net', client, h, pending, commands)
    BY <1>1, <1>5, <2>3, <2>7, SendOK
  <2> QED BY <1>2, <2>8, RouterOK
<1> QED BY <1>4, <1>5

\* Events are published, to the subscriber too.
LEMMA PublishOK == ASSUME Inv, NEW w \in Workspace, Publish(w) \/ PublishNested(w), UNCHANGED ui PROVE Inv'
<1>1. log \in [Workspace -> Nat]
  BY DEF Inv, TypeOK, FeedTypeOK
<1>2. UNCHANGED <<client, pending, events, commands, replies, ui>>
  BY DEF Publish, PublishNested
<1>3. PICK k \in Nat : k = log[w]
  BY <1>1
<1>4. CASE Publish(w)
  <2>1. PICK h \in [Workspace -> Nat] : h = log' /\ h[w] = k + 1 /\ \A x \in Workspace : log[x] <= h[x]
    BY <1>1, <1>3, <1>4 DEF Publish
  <2>2. PICK f \in Frame : f = EventFrame(w, k + 1) /\ f.t = "event" /\ FrameOK(f, h)
    BY <2>1, EventFrameOK
  <2>3. <<f>> \in Seq(Frame) /\ \A i \in 1 .. Len(<<f>>) : <<f>>[i] = f
    OBVIOUS
  <2>4. PICK s \in Seq(Frame) : s = <<f>> /\ \A i \in 1 .. Len(s) : s[i] = f
    BY <2>3
  <2>5. UNCHANGED net \/ (net.sub /\ Send(net, s))
    BY <1>3, <1>4, <2>2, <2>4 DEF Publish
  <2> QED BY <1>2, <2>1, <2>2, <2>4, <2>5, FanoutOK
<1>5. CASE PublishNested(w)
  <2>1. PICK h \in [Workspace -> Nat] : h = log' /\ h[w] = k + 3 /\ \A x \in Workspace : log[x] <= h[x]
    BY <1>1, <1>3, <1>5 DEF PublishNested
  <2>2. PICK f \in Frame : f = EventFrame(w, k + 1) /\ f.t = "event" /\ FrameOK(f, h)
    BY <2>1, EventFrameOK
  <2>3. PICK g \in Frame : g = EventFrame(w, k + 3) /\ g.t = "event" /\ FrameOK(g, h)
    BY <2>1, EventFrameOK
  <2>4. PICK e \in Frame : e = EventFrame(w, k + 2) /\ e.t = "event" /\ FrameOK(e, h)
    BY <2>1, EventFrameOK
  <2>5. <<f, g, e>> \in Seq(Frame) /\ \A i \in 1 .. Len(<<f, g, e>>) : <<f, g, e>>[i] \in {f, g, e}
    OBVIOUS
  <2>6. PICK s \in Seq(Frame) : s = <<f, g, e>> /\ \A i \in 1 .. Len(s) : s[i] \in {f, g, e}
    BY <2>5
  <2>7. \A i \in 1 .. Len(s) : s[i].t = "event" /\ FrameOK(s[i], h)
    BY <2>2, <2>3, <2>4, <2>6
  <2>8. UNCHANGED net \/ (net.sub /\ Send(net, s))
    BY <1>3, <1>5, <2>2, <2>3, <2>4, <2>6 DEF PublishNested
  <2> QED BY <1>2, <2>1, <2>7, <2>8, FanoutOK
<1> QED BY <1>4, <1>5

\* The link fails: a prefix of what was queued is still read.
LEMMA CutOK == Inv /\ Cut /\ UNCHANGED ui => Inv'
<1> SUFFICES ASSUME Inv, Cut, UNCHANGED ui PROVE Inv'
  OBVIOUS
<1>1. net \in Connection /\ log \in [Workspace -> Nat] /\ NetOK(net, client, log, pending, commands)
  BY DEF Inv, TypeOK, FeedTypeOK
<1>2. PICK k \in 0 .. Len(net.out) : net' = Closed(SubSeq(net.out, 1, k))
  BY DEF Cut
<1>3. net' \in Connection /\ NetOK(net', client, log, pending, commands)
  BY <1>1, <1>2, PrefixOK
<1>4. UNCHANGED <<log, client, pending, events, commands, replies, ui>>
  BY DEF Cut
<1> QED BY <1>1, <1>3, <1>4, RouterOK

\* The only requests a restoring connection carries.
LEMMA RestoringRequest ==
    ASSUME Inv, net.up, net.req # <<>>
    PROVE  /\ client.phase = "joining" =>
               /\ net.req = <<RestoreCall("join", client.desired, 0)>>
               /\ net.member = None /\ net.out = <<>> /\ client.desired # None /\ ~ net.sub
           /\ client.phase = "restoring" =>
               /\ net.req = <<RestoreCall("subscribe", client.desired, net.req[1].after)>>
               /\ net.req[1].after <= log[client.desired] /\ net.member = client.desired /\ client.desired # None
               /\ ~ net.sub
               /\ \A i \in 1 .. Len(net.out) : net.out[i].t = "changed" /\ net.out[i].ws = client.desired
           /\ client.phase # "replaying"
<1>1. RestoreOK(net, client, log)
  BY DEF Inv, NetOK
<1>2. ASSUME client.phase = "restoring", NEW i \in 1 .. Len(net.out)
      PROVE  net.out[i].t = "changed" /\ net.out[i].ws = client.desired
  BY <1>1, <1>2 DEF RestoreOK, PageShape
<1> QED BY <1>1, <1>2 DEF RestoreOK, PageShape, JoinShape, ReplayShape

\* An answer to the first request, with row2 the connection once it is handled.
LEMMA AnswersOK ==
    ASSUME Inv, net.up, net.req # <<>>, NEW h \in [Workspace -> Nat], h = log',
           \A w \in Workspace : log[w] <= h[w],
           UNCHANGED <<client, pending, events, commands, replies, ui>>,
           NEW row \in Connection, row.up = net.up, row.out = net.out, row.req = Tail(net.req),
           NEW frames \in Seq(Frame), \A i \in 1 .. Len(frames) : FrameOK(frames[i], h),
           \A i \in 1 .. Len(frames) : frames[i].t = "page" =>
               frames[i].id = net.req[1].id /\ frames[i].lo = net.req[1].after,
           Send(row, frames),
           \A n \in Connection :
               /\ n.up = net.up /\ n.out = net.out \o frames /\ n.req = Tail(net.req)
               /\ n.member = row.member /\ n.sub = row.sub
               => RestoreOK(n, client, h)
    PROVE  Inv'
<1>1. net \in Connection /\ log \in [Workspace -> Nat]
      /\ WireOK(net, log) /\ UnsentOK(net, pending, commands) /\ PendingOK(net, pending)
  BY DEF Inv, TypeOK, FeedTypeOK, NetOK
<1>2. [row EXCEPT !.out = row.out \o frames] \in Connection
  <2>1. row.out \o frames \in Seq(Frame)
    BY DEF Connection
  <2> QED BY <2>1 DEF Connection
<1>3. PICK n \in Connection : n = [row EXCEPT !.out = row.out \o frames]
  BY <1>2
<1>4. n.up = net.up /\ n.out = net.out \o frames /\ n.req = Tail(net.req)
      /\ n.member = row.member /\ n.sub = row.sub
  BY <1>3 DEF Connection
<1>5. RestoreOK(n, client, h)
  BY <1>4
<1>6. WireOK(n, h) /\ UnsentOK(n, pending, commands) /\ PendingOK(n, pending)
  BY <1>1, <1>4, QueuedOK
<1>7. NetOK(n, client, h, pending, commands)
  BY <1>5, <1>6 DEF NetOK
<1>8. net' \in Connection /\ NetOK(net', client, h, pending, commands)
  BY <1>3, <1>7, SendOK
<1> QED BY <1>8, RouterOK

\* The ends of a page lie between its cursor and the end of the log.
LEMMA PageEndsOK ==
    ASSUME log \in [Workspace -> Nat], NEW w \in Workspace, NEW a \in Int, a <= log[w], NEW hi \in PageEnds(w, a)
    PROVE  hi \in Int /\ a <= hi /\ hi <= log[w]
<1>2. a + PageLimit \in Int /\ log[w] \in Int
  BY FeedAssumption
<1>3. Min({a + PageLimit, log[w]}) \in Int /\ Min({a + PageLimit, log[w]}) <= log[w]
  BY <1>2, MinTwo
<1>4. CASE a = log[w]
  BY <1>2, <1>4 DEF PageEnds
<1>5. CASE a # log[w]
  <2>1. hi \in (a + 1) .. Min({a + PageLimit, log[w]})
    BY <1>5 DEF PageEnds
  <2> QED BY <1>2, <1>3, <2>1
<1> QED BY <1>4, <1>5

\* The first request, and the connection without it.
LEMMA FirstRequest ==
    ASSUME Inv, net.req # <<>>, NEW c, c = Head(net.req), NEW row, row = [net EXCEPT !.req = Tail(@)]
    PROVE  /\ c \in Request /\ c = net.req[1] /\ RequestOK(c) /\ row \in Connection
           /\ row.up = net.up /\ row.member = net.member /\ row.sub = net.sub
           /\ row.out = net.out /\ row.req = Tail(net.req)
<1>1. net \in Connection /\ net.req \in Seq(Request) /\ WireOK(net, log)
  BY DEF Inv, TypeOK, FeedTypeOK, Connection, NetOK
<1>2. c = net.req[1] /\ c \in Request /\ Tail(net.req) \in Seq(Request) /\ 1 \in 1 .. Len(net.req)
  BY <1>1
<1>3. RequestOK(c)
  BY <1>1, <1>2 DEF WireOK
<1>4. row \in Connection
  BY <1>1, <1>2 DEF Connection
<1> QED BY <1>1, <1>2, <1>3, <1>4 DEF Connection

\* The answers: their types, and that each is within the log.
LEMMA AnswerOK ==
    ASSUME NEW c \in Request, NEW l, NEW w \in Room, NEW lo \in Int, NEW hi \in Int, NEW live \in BOOLEAN,
           NEW t \in {"joined", "left", "page", "unsubscribed", "history", "posted", "error"},
           w # None => lo <= hi /\ hi <= l[w], w = None => lo = hi /\ t \notin {"joined", "page"}
    PROVE  /\ Answer(t, c, w, lo, hi, live) \in Frame /\ FrameOK(Answer(t, c, w, lo, hi, live), l)
           /\ Answer(t, c, w, lo, hi, live).t = t /\ Answer(t, c, w, lo, hi, live).id = c.id
           /\ Answer(t, c, w, lo, hi, live).lo = lo /\ Answer(t, c, w, lo, hi, live).live = live
<1>1. c.id \in Id \cup {RestoreId}
  BY DEF Request
<1>2. Answer(t, c, w, lo, hi, live) \in Frame
  BY <1>1 DEF Answer, Frame
<1> QED BY <1>2 DEF Answer, FrameOK, InLog

\* A refused request.
LEMMA ErrorFrameOK ==
    ASSUME NEW c \in Request, NEW l
    PROVE  ErrorFrame(c) \in Frame /\ FrameOK(ErrorFrame(c), l) /\ ErrorFrame(c).t = "error"
<1>1. c.id \in Id \cup {RestoreId}
  BY DEF Request
<1>2. ErrorFrame(c) \in Frame
  BY <1>1 DEF ErrorFrame, Answer, Frame, Room
<1> QED BY <1>2 DEF ErrorFrame, Answer, FrameOK, InLog

\* A notice of membership.
LEMMA ChangedOK ==
    ASSUME NEW w \in Room, NEW k \in Int, NEW l, w # None => k <= l[w]
    PROVE  /\ Changed(w, k) \in Frame /\ FrameOK(Changed(w, k), l)
           /\ Changed(w, k).t = "changed" /\ Changed(w, k).ws = w
<1>1. Changed(w, k) \in Frame
  BY DEF Changed, Frame
<1> QED BY <1>1 DEF Changed, FrameOK, InLog

\* One answer and nothing else, to a call that no restoration makes.
LEMMA PlainAnswerOK ==
    ASSUME Inv, net.up, net.req # <<>>, NEW h \in [Workspace -> Nat], h = log',
           \A w \in Workspace : log[w] <= h[w],
           UNCHANGED <<client, pending, events, commands, replies, ui>>,
           client.phase \notin {"joining", "restoring", "replaying"},
           NEW row \in Connection, row.up = net.up, row.out = net.out, row.req = Tail(net.req),
           NEW frames \in Seq(Frame), \A i \in 1 .. Len(frames) : FrameOK(frames[i], h),
           \A i \in 1 .. Len(frames) : frames[i].t = "page" =>
               frames[i].id = net.req[1].id /\ frames[i].lo = net.req[1].after,
           Send(row, frames)
    PROVE  Inv'
<1>1. \A n \in Connection : RestoreOK(n, client, h)
  BY DEF RestoreOK
<1> QED BY <1>1, AnswersOK

\* What the phase of a connection with a request says about the request.
LEMMA RequestPhase ==
    ASSUME Inv, net.up, net.req # <<>>, NEW c, c = net.req[1]
    PROVE  /\ client.phase = "joining" =>
               c.kind = "join" /\ c.ws = client.desired /\ c.id = RestoreId /\ Tail(net.req) = <<>>
           /\ client.phase = "restoring" =>
               c.kind = "subscribe" /\ c.after <= log[client.desired] /\ c.id = RestoreId /\ Tail(net.req) = <<>>
           /\ client.phase # "replaying"
<1>1. ASSUME client.phase = "joining"
      PROVE  c.kind = "join" /\ c.ws = client.desired /\ c.id = RestoreId /\ Tail(net.req) = <<>>
  <2>1. net.req = <<RestoreCall("join", client.desired, 0)>>
    BY <1>1, RestoringRequest
  <2>2. c = RestoreCall("join", client.desired, 0) /\ Tail(net.req) = <<>>
    BY <2>1
  <2> QED BY <2>2 DEF RestoreCall
<1>2. ASSUME client.phase = "restoring"
      PROVE  c.kind = "subscribe" /\ c.after <= log[client.desired] /\ c.id = RestoreId /\ Tail(net.req) = <<>>
  <2>1. net.req = <<RestoreCall("subscribe", client.desired, c.after)>> /\ c.after <= log[client.desired]
    BY <1>2, RestoringRequest
  <2>2. c = RestoreCall("subscribe", client.desired, c.after) /\ Tail(net.req) = <<>>
    BY <2>1
  <2> QED BY <2>1, <2>2 DEF RestoreCall
<1> QED BY <1>1, <1>2, RestoringRequest

\* workspace_join, also of a restoring connection.
LEMMA JoinOK ==
    ASSUME Inv, net.up, net.req # <<>>, NEW c, c = Head(net.req), NEW row, row = [net EXCEPT !.req = Tail(@)],
           c.kind = "join", WorkspaceJoin(row, c), UNCHANGED <<client, pending, events, commands, replies, ui>>
    PROVE  Inv'
<1>1. /\ c \in Request /\ c = net.req[1] /\ RequestOK(c) /\ row \in Connection
      /\ row.up = net.up /\ row.member = net.member /\ row.sub = net.sub
      /\ row.out = net.out /\ row.req = Tail(net.req)
  BY FirstRequest
<1>2. PICK h \in [Workspace -> Nat] : h = log' /\ h = log /\ \A w \in Workspace : log[w] <= h[w]
  BY DEF Inv, TypeOK, FeedTypeOK, WorkspaceJoin
<1>3. PICK w \in Workspace : w = c.ws
  BY <1>1 DEF RequestOK, Request, Room
<1>4. PICK k \in Int : k = h[w]
  BY <1>2
<1>5. PICK f \in Frame : f = Answer("joined", c, w, k, k, FALSE) /\ FrameOK(f, h) /\ f.t = "joined"
  <2>1. PICK r \in Room, t \in {"joined", "left", "page", "unsubscribed", "history", "posted", "error"}, b \in BOOLEAN :
           r = w /\ t = "joined" /\ b = FALSE /\ r # None
    BY FeedAssumption DEF Room
  <2>2. Answer(t, c, r, k, k, b) \in Frame /\ FrameOK(Answer(t, c, r, k, k, b), h) /\ Answer(t, c, r, k, k, b).t = t
    BY <1>1, <1>4, <2>1, AnswerOK
  <2> QED BY <2>1, <2>2
<1>6. PICK g \in Frame : g = Changed(w, k) /\ FrameOK(g, h) /\ g.t = "changed" /\ g.ws = w
  <2>1. w \in Room
    BY DEF Room
  <2> QED BY <1>4, <2>1, ChangedOK
<1>7. PICK e \in Frame : e = ErrorFrame(c) /\ FrameOK(e, h) /\ e.t = "error"
  BY <1>1, ErrorFrameOK
<1>8. client.phase # "restoring" /\ client.phase # "replaying"
  BY <1>1, RequestPhase
<1>9. client.phase = "joining" => net.member = None /\ client.desired = w /\ net.out = <<>> /\ ~ net.sub /\ Tail(net.req) = <<>>
  BY <1>1, <1>3, RequestPhase, RestoringRequest
<1>10. w # None
  BY FeedAssumption
<1>11. CASE row.member = w \/ row.member \notin {None, w}
  <2>1. PICK x \in Frame : Send(row, <<x>>) /\ FrameOK(x, h) /\ x.t # "page"
    BY <1>2, <1>3, <1>4, <1>5, <1>7, <1>10, <1>11 DEF WorkspaceJoin
  <2>2. <<x>> \in Seq(Frame) /\ \A i \in 1 .. Len(<<x>>) : <<x>>[i] = x
    OBVIOUS
  <2>3. PICK s \in Seq(Frame) : s = <<x>> /\ \A i \in 1 .. Len(s) : s[i] = x
    BY <2>2
  <2>4. client.phase \notin {"joining", "restoring", "replaying"}
    BY <1>1, <1>8, <1>9, <1>10, <1>11
  <2>5. Send(row, s) /\ \A i \in 1 .. Len(s) : FrameOK(s[i], h) /\ s[i].t # "page"
    BY <2>1, <2>3
  <2> QED BY <1>1, <1>2, <2>4, <2>5, PlainAnswerOK
<1>12. CASE row.member = None
  <2>1. [row EXCEPT !.member = w] \in Connection
    BY <1>1 DEF Connection, Room
  <2>2. PICK row2 \in Connection : row2 = [row EXCEPT !.member = w]
    BY <2>1
  <2>3. row2.up = net.up /\ row2.out = net.out /\ row2.req = Tail(net.req) /\ row2.member = w /\ row2.sub = net.sub
    BY <1>1, <2>2 DEF Connection
  <2>4. <<f, g>> \in Seq(Frame) /\ Len(<<f, g>>) = 2 /\ <<f, g>>[1] = f /\ <<f, g>>[2] = g
    OBVIOUS
  <2>5. PICK s \in Seq(Frame) : s = <<f, g>> /\ Len(s) = 2 /\ s[1] = f /\ s[2] = g
    BY <2>4
  <2>6. Send(row2, s)
    BY <1>2, <1>3, <1>4, <1>5, <1>6, <1>10, <1>12, <2>2, <2>5 DEF WorkspaceJoin
  <2>7. Len(s) = 2 /\ s[1] = f /\ s[2] = g /\ \A i \in 1 .. Len(s) : i = 1 \/ i = 2
    <3>1. Len(s) = 2 /\ s[1] = f /\ s[2] = g
      BY <2>5
    <3> QED BY <3>1
  <2>71. \A i \in 1 .. Len(s) : FrameOK(s[i], h) /\ s[i].t # "page"
    BY <1>5, <1>6, <2>7
  <2>8. ASSUME NEW n \in Connection, n.up = net.up, n.out = net.out \o s, n.req = Tail(net.req),
                n.member = row2.member, n.sub = row2.sub
        PROVE  RestoreOK(n, client, h)
    <3>1. CASE client.phase = "joining"
      <4>1. n.out = s
        BY <1>9, <2>8, <3>1
      <4>2. \A i \in 1 .. Len(n.out) : IF i = 1 THEN n.out[i].t = "joined"
                                      ELSE n.out[i].t = "changed" /\ n.out[i].ws = client.desired
        BY <1>5, <1>6, <1>9, <2>7, <3>1, <4>1
      <4>3. n.req = <<>> /\ n.member = client.desired /\ client.desired # None /\ ~ n.sub
        BY <1>9, <1>10, <2>3, <2>8, <3>1
      <4>4. JoinShape(n, client)
        BY <4>2, <4>3 DEF JoinShape
      <4> QED BY <1>8, <3>1, <4>4 DEF RestoreOK
    <3>2. CASE client.phase # "joining"
      BY <1>8, <3>2 DEF RestoreOK
    <3> QED BY <3>1, <3>2
  <2>9. \A n \in Connection :
           /\ n.up = net.up /\ n.out = net.out \o s /\ n.req = Tail(net.req)
           /\ n.member = row2.member /\ n.sub = row2.sub
           => RestoreOK(n, client, h)
    BY <2>8
  <2>10. /\ h = log' /\ \A x \in Workspace : log[x] <= h[x]
         /\ row2.up = net.up /\ row2.out = net.out /\ row2.req = Tail(net.req)
    BY <1>2, <2>3
  <2>11. \A i \in 1 .. Len(s) : FrameOK(s[i], h)
    BY <2>71
  <2>12. \A i \in 1 .. Len(s) : s[i].t = "page" => s[i].id = net.req[1].id /\ s[i].lo = net.req[1].after
    BY <2>71
  <2> QED BY <2>6, <2>9, <2>10, <2>11, <2>12, AnswersOK, Zenon
<1> QED BY <1>1, <1>11, <1>12

\* workspace_subscribe: the cursor is within the log, so a restoration gets its page.
LEMMA SubscribeOK ==
    ASSUME Inv, net.up, net.req # <<>>, NEW c, c = Head(net.req), NEW row, row = [net EXCEPT !.req = Tail(@)],
           c.kind = "subscribe", WorkspaceSubscribe(row, c),
           UNCHANGED <<client, pending, events, commands, replies, ui>>
    PROVE  Inv'
<1>1. /\ c \in Request /\ c = net.req[1] /\ RequestOK(c) /\ row \in Connection
      /\ row.up = net.up /\ row.member = net.member /\ row.sub = net.sub
      /\ row.out = net.out /\ row.req = Tail(net.req)
  BY FirstRequest
<1>2. PICK h \in [Workspace -> Nat] : h = log' /\ h = log /\ \A w \in Workspace : log[w] <= h[w]
  <2>1. log' = log
    BY Zenon DEF WorkspaceSubscribe
  <2>2. log \in [Workspace -> Nat]
    BY DEF Inv, TypeOK, FeedTypeOK
  <2> QED BY <2>1, <2>2
<1>3. net \in Connection /\ net.out \in Seq(Frame) /\ row.member \in Room /\ c.after \in Int
  BY <1>1 DEF Inv, TypeOK, FeedTypeOK, Connection, Request
<1>4. client.phase # "joining" /\ client.phase # "replaying"
  BY <1>1, RequestPhase
<1>5. ASSUME client.phase = "restoring"
      PROVE  /\ row.member = client.desired /\ client.desired # None /\ c.after <= log[row.member]
             /\ ~ net.sub /\ Tail(net.req) = <<>>
             /\ \A i \in 1 .. Len(net.out) : net.out[i].t = "changed" /\ net.out[i].ws = client.desired
  BY <1>1, <1>5, RequestPhase, RestoringRequest
<1>6. CASE row.member = None \/ c.after > log[row.member]
  <2>1. PICK x \in Frame : x = ErrorFrame(c) /\ FrameOK(x, h) /\ x.t = "error"
    BY <1>1, ErrorFrameOK
  <2>2. Send(row, <<x>>)
    BY <1>6, <2>1 DEF WorkspaceSubscribe
  <2>3. <<x>> \in Seq(Frame) /\ \A i \in 1 .. Len(<<x>>) : <<x>>[i] = x
    OBVIOUS
  <2>4. PICK s \in Seq(Frame) : s = <<x>> /\ \A i \in 1 .. Len(s) : s[i] = x
    BY <2>3
  <2>5. client.phase # "restoring"
    <3>1. ASSUME client.phase = "restoring" PROVE FALSE
      <4>1. row.member \in Workspace /\ c.after <= log[row.member]
        BY <1>3, <1>5, <3>1 DEF Room
      <4>2. log[row.member] \in Int
        BY <1>2, <4>1
      <4> QED BY <1>3, <1>5, <1>6, <3>1, <4>1, <4>2
    <3> QED BY <3>1
  <2>6. client.phase \notin {"joining", "restoring", "replaying"}
    BY <1>4, <2>5
  <2>7. Send(row, s) /\ \A i \in 1 .. Len(s) : FrameOK(s[i], h) /\ s[i].t # "page"
    BY <2>1, <2>2, <2>4
  <2> QED BY <1>1, <1>2, <2>6, <2>7, PlainAnswerOK
<1>7. CASE ~ (row.member = None \/ c.after > log[row.member])
  <2>1. PICK w \in Workspace : w = row.member /\ c.after <= log[w]
    <3>1. row.member \in Workspace
      BY <1>3, <1>7 DEF Room
    <3>2. log[row.member] \in Int
      BY <1>2, <3>1
    <3> QED BY <1>3, <1>7, <3>1, <3>2
  <2>2. PICK hi \in PageEnds(w, c.after) :
           Send([row EXCEPT !.sub = @ \/ (hi = log[w])], <<Answer("page", c, w, c.after, hi, hi = log[w])>>)
    BY <1>7, <2>1 DEF WorkspaceSubscribe
  <2>3. hi \in Int /\ c.after <= hi /\ hi <= log[w]
    BY <1>2, <1>3, <2>1, PageEndsOK
  <2>4. PICK live \in BOOLEAN : live <=> hi = log[w]
    OBVIOUS
  <2>5. PICK f \in Frame : /\ f = Answer("page", c, w, c.after, hi, live) /\ FrameOK(f, h) /\ f.t = "page"
                           /\ f.id = c.id /\ f.lo = c.after /\ f.live = live
    <3>1. PICK r \in Room, t \in {"joined", "left", "page", "unsubscribed", "history", "posted", "error"} :
             r = w /\ t = "page" /\ r # None
      BY FeedAssumption DEF Room
    <3>2. PICK a \in Int, z \in Int : a = c.after /\ z = hi /\ a <= z /\ z <= h[r]
      BY <1>2, <1>3, <2>3, <3>1
    <3>3. /\ Answer(t, c, r, a, z, live) \in Frame /\ FrameOK(Answer(t, c, r, a, z, live), h)
          /\ Answer(t, c, r, a, z, live).t = t /\ Answer(t, c, r, a, z, live).id = c.id
          /\ Answer(t, c, r, a, z, live).lo = a /\ Answer(t, c, r, a, z, live).live = live
      BY <1>1, <3>1, <3>2, AnswerOK
    <3> QED BY <3>1, <3>2, <3>3
  <2>6. PICK sub \in BOOLEAN : sub <=> (row.sub \/ live)
    OBVIOUS
  <2>7. row.sub \in BOOLEAN
    BY <1>1 DEF Connection
  <2>8. live = (hi = log[w]) /\ sub = (row.sub \/ (hi = log[w]))
    BY <2>4, <2>6, <2>7, Zenon
  <2>9. [row EXCEPT !.sub = sub] \in Connection
    BY <1>1 DEF Connection
  <2>10. PICK row2 \in Connection : row2 = [row EXCEPT !.sub = sub]
    BY <2>9
  <2>11. row2.up = net.up /\ row2.out = net.out /\ row2.req = Tail(net.req) /\ row2.member = w /\ row2.sub = sub
    BY <1>1, <2>1, <2>10 DEF Connection
  <2>12. Send(row2, <<f>>)
    BY <2>2, <2>5, <2>8, <2>10, Zenon
  <2>13. <<f>> \in Seq(Frame) /\ Len(<<f>>) = 1 /\ <<f>>[1] = f /\ \A i \in 1 .. Len(<<f>>) : <<f>>[i] = f
    OBVIOUS
  <2>14. PICK s \in Seq(Frame) : s = <<f>> /\ Len(s) = 1 /\ s[1] = f /\ \A i \in 1 .. Len(s) : s[i] = f
    BY <2>13
  <2>15. Send(row2, s) /\ \A i \in 1 .. Len(s) : FrameOK(s[i], h)
    BY <2>5, <2>12, <2>14
  <2>16. \A i \in 1 .. Len(s) : s[i].t = "page" => s[i].id = net.req[1].id /\ s[i].lo = net.req[1].after
    BY <1>1, <2>5, <2>14
  <2>17. ASSUME NEW n \in Connection, n.up = net.up, n.out = net.out \o s, n.req = Tail(net.req),
                 n.member = row2.member, n.sub = row2.sub, client.phase = "restoring"
         PROVE  PageShape(n, client, h)
    <3>1. n.out \in Seq(Frame) /\ Len(n.out) = Len(net.out) + 1 /\ n.out[Len(net.out) + 1] = f
          /\ \A i \in 1 .. Len(net.out) : n.out[i] = net.out[i]
      BY <1>3, <2>14, <2>17
    <3>2. Len(net.out) \in Nat /\ Len(net.out) + 1 \in 1 .. Len(n.out)
      BY <1>3, <3>1
    <3>3. \A i \in 1 .. Len(net.out) : n.out[i].t = "changed" /\ n.out[i].ws = client.desired
      BY <1>5, <2>17, <3>1
    <3>4. ASSUME NEW i \in 1 .. Len(n.out)
          PROVE  PageFrame(n, i) /\ (n.out[i].t = "changed" => n.out[i].ws = client.desired)
      <4>1. \A j \in 1 .. i - 1 : j \in 1 .. Len(net.out)
        BY <3>1, <3>2
      <4>2. \A j \in 1 .. i - 1 : n.out[j].t = "changed"
        BY <3>3, <4>1
      <4>3. CASE i = Len(net.out) + 1
        <5>1. n.out[i] = f /\ i = Len(n.out)
          BY <3>1, <4>3
        <5>2. ~ f.live => ~ n.sub
          BY <1>1, <1>5, <2>5, <2>6, <2>11, <2>17
        <5> QED BY <2>5, <4>2, <5>1, <5>2 DEF PageFrame
      <4>4. CASE i \in 1 .. Len(net.out)
        BY <3>3, <4>2, <4>4 DEF PageFrame
      <4> QED BY <3>1, <3>2, <4>3, <4>4
    <3>5. \E i \in 1 .. Len(n.out) : n.out[i].t = "page"
      BY <2>5, <3>1, <3>2
    <3>6. n.req = <<>> /\ n.member = client.desired /\ client.desired # None
      BY <1>5, <2>1, <2>11, <2>17
    <3> QED BY <3>4, <3>5, <3>6 DEF PageShape
  <2>18. \A n \in Connection :
            /\ n.up = net.up /\ n.out = net.out \o s /\ n.req = Tail(net.req)
            /\ n.member = row2.member /\ n.sub = row2.sub
            => RestoreOK(n, client, h)
    BY <1>4, <2>17 DEF RestoreOK
  <2>19. /\ h = log' /\ \A x \in Workspace : log[x] <= h[x]
         /\ row2.up = net.up /\ row2.out = net.out /\ row2.req = Tail(net.req)
    BY <1>2, <2>11
  <2> QED BY <2>15, <2>16, <2>18, <2>19, AnswersOK, Zenon
<1> QED BY <1>6, <1>7

\* The answers of the handlers that no restoration meets.
LEMMA PlainFrames ==
    ASSUME NEW c \in Request, NEW h, NEW w \in Room, w # None => 0 <= h[w]
    PROVE  /\ Answer("left", c, None, 0, 0, FALSE) \in Frame
           /\ FrameOK(Answer("left", c, None, 0, 0, FALSE), h)
           /\ Answer("left", c, None, 0, 0, FALSE).t # "page"
           /\ Answer("unsubscribed", c, w, 0, 0, FALSE) \in Frame
           /\ FrameOK(Answer("unsubscribed", c, w, 0, 0, FALSE), h)
           /\ Answer("unsubscribed", c, w, 0, 0, FALSE).t # "page"
           /\ Answer("posted", c, w, 0, 0, FALSE) \in Frame
           /\ FrameOK(Answer("posted", c, w, 0, 0, FALSE), h)
           /\ Answer("posted", c, w, 0, 0, FALSE).t # "page"
<1>1. c.id \in Id \cup {RestoreId} /\ None \in Room
  BY DEF Request, Room
<1>2. ASSUME NEW f, f = Answer("left", c, None, 0, 0, FALSE) PROVE f \in Frame /\ FrameOK(f, h) /\ f.t # "page"
  <2>1. f \in Frame
    BY <1>1, <1>2 DEF Answer, Frame
  <2> QED BY <1>2, <2>1 DEF Answer, FrameOK, InLog
<1>3. ASSUME NEW f, f = Answer("unsubscribed", c, w, 0, 0, FALSE) PROVE f \in Frame /\ FrameOK(f, h) /\ f.t # "page"
  <2>1. f \in Frame
    BY <1>1, <1>3 DEF Answer, Frame
  <2> QED BY <1>3, <2>1 DEF Answer, FrameOK, InLog
<1>4. ASSUME NEW f, f = Answer("posted", c, w, 0, 0, FALSE) PROVE f \in Frame /\ FrameOK(f, h) /\ f.t # "page"
  <2>1. f \in Frame
    BY <1>1, <1>4 DEF Answer, Frame
  <2> QED BY <1>4, <2>1 DEF Answer, FrameOK, InLog
<1> QED BY <1>2, <1>3, <1>4, Zenon

\* The answer of workspace_history.
LEMMA HistoryFrame ==
    ASSUME NEW c \in Request, NEW h, NEW w \in Workspace, NEW lo \in Int, NEW hi \in Int, lo <= hi, hi <= h[w]
    PROVE  /\ Answer("history", c, w, lo, hi, FALSE) \in Frame
           /\ FrameOK(Answer("history", c, w, lo, hi, FALSE), h)
           /\ Answer("history", c, w, lo, hi, FALSE).t # "page"
<1>1. c.id \in Id \cup {RestoreId} /\ w \in Room /\ w # None
  BY FeedAssumption DEF Request, Room
<1>2. Answer("history", c, w, lo, hi, FALSE) \in Frame
  BY <1>1 DEF Answer, Frame
<1> QED BY <1>1, <1>2 DEF Answer, FrameOK, InLog

\* The handlers that no restoration meets.
LEMMA OtherHandlersOK ==
    ASSUME Inv, net.up, net.req # <<>>, NEW c, c = Head(net.req), NEW row, row = [net EXCEPT !.req = Tail(@)],
           \/ c.kind = "leave" /\ WorkspaceLeave(row, c)
           \/ c.kind = "unsubscribe" /\ WorkspaceUnsubscribe(row, c)
           \/ c.kind = "history" /\ WorkspaceHistory(row, c)
           \/ c.kind = "post" /\ WorkspacePost(row, c),
           UNCHANGED <<client, pending, events, commands, replies, ui>>
    PROVE  Inv'
<1>1. /\ c \in Request /\ c = net.req[1] /\ RequestOK(c) /\ row \in Connection
      /\ row.up = net.up /\ row.member = net.member /\ row.sub = net.sub
      /\ row.out = net.out /\ row.req = Tail(net.req)
  BY FirstRequest
<1>2. client.phase \notin {"joining", "restoring", "replaying"}
  BY <1>1, RequestPhase
<1>3. log \in [Workspace -> Nat] /\ row.member \in Room
  BY <1>1 DEF Inv, TypeOK, FeedTypeOK, Connection
<1>4. ASSUME NEW h \in [Workspace -> Nat], h = log', \A w \in Workspace : log[w] <= h[w],
             NEW row2 \in Connection, row2.up = net.up, row2.out = net.out, row2.req = Tail(net.req),
             NEW x \in Frame, NEW y \in Frame, NEW s, s = <<x>> \/ s = <<x, y>> \/ s = <<x>> \o <<y>>, Send(row2, s),
             FrameOK(x, h), FrameOK(y, h), x.t # "page", y.t # "page"
      PROVE  Inv'
  <2>1. <<x>> \in Seq(Frame) /\ \A i \in 1 .. Len(<<x>>) : <<x>>[i] = x
    OBVIOUS
  <2>2. <<x, y>> \in Seq(Frame) /\ \A i \in 1 .. Len(<<x, y>>) : <<x, y>>[i] \in {x, y}
    OBVIOUS
  <2>21. <<x>> \o <<y>> \in Seq(Frame) /\ \A i \in 1 .. Len(<<x>> \o <<y>>) : (<<x>> \o <<y>>)[i] \in {x, y}
    OBVIOUS
  <2>3. s \in Seq(Frame) /\ \A i \in 1 .. Len(s) : s[i] \in {x, y}
    BY <1>4, <2>1, <2>2, <2>21
  <2>4. \A i \in 1 .. Len(s) : FrameOK(s[i], h) /\ s[i].t # "page"
    BY <1>4, <2>3
  <2> QED BY <1>2, <1>4, <2>3, <2>4, PlainAnswerOK
<1>5. \A h : \E e \in Frame : e = ErrorFrame(c) /\ FrameOK(e, h) /\ e.t # "page"
  BY <1>1, ErrorFrameOK
<1>7. None \in Room /\ \A w \in Room : w # None => log[w] \in Nat /\ w \in Workspace
  BY <1>3 DEF Room
<1>8. CASE WorkspaceLeave(row, c)
  <2>1. PICK h \in [Workspace -> Nat] : h = log' /\ \A w \in Workspace : log[w] <= h[w]
    BY <1>3, <1>8 DEF WorkspaceLeave
  <2>2. PICK x \in Frame : x = Answer("left", c, None, 0, 0, FALSE) /\ FrameOK(x, h) /\ x.t # "page"
    <3>1. PICK none \in Room : none = None
      BY <1>7
    <3> QED BY <1>1, <3>1, PlainFrames
  <2>3. PICK y \in Frame : y = Changed(None, 0) /\ FrameOK(y, h) /\ y.t # "page"
    BY <1>7, ChangedOK
  <2>4. [row EXCEPT !.member = None, !.sub = FALSE] \in Connection
    BY <1>1, <1>7 DEF Connection
  <2>5. PICK row2 \in Connection : row2 = [row EXCEPT !.member = None, !.sub = FALSE]
    BY <2>4
  <2>6. row2.up = net.up /\ row2.out = net.out /\ row2.req = Tail(net.req)
    BY <1>1, <2>5 DEF Connection
  <2>7. Send(row, <<x>>) \/ Send(row2, <<x, y>>)
    BY <1>8, <2>2, <2>3, <2>5 DEF WorkspaceLeave
  <2> QED BY <1>1, <1>4, <2>1, <2>2, <2>3, <2>6, <2>7
<1>9. CASE WorkspaceUnsubscribe(row, c)
  <2>1. PICK h \in [Workspace -> Nat] : h = log' /\ h = log /\ \A w \in Workspace : log[w] <= h[w]
    BY <1>3, <1>9 DEF WorkspaceUnsubscribe
  <2>2. PICK x \in Frame : x = Answer("unsubscribed", c, row.member, 0, 0, FALSE) /\ FrameOK(x, h) /\ x.t # "page"
    <3>1. PICK w \in Room : w = row.member /\ (w # None => 0 <= h[w])
      BY <1>3, <1>7, <2>1
    <3> QED BY <1>1, <3>1, PlainFrames
  <2>3. PICK e \in Frame : e = ErrorFrame(c) /\ FrameOK(e, h) /\ e.t # "page"
    BY <1>5
  <2>4. [row EXCEPT !.sub = FALSE] \in Connection
    BY <1>1 DEF Connection
  <2>5. PICK row2 \in Connection : row2 = [row EXCEPT !.sub = FALSE]
    BY <2>4
  <2>6. row2.up = net.up /\ row2.out = net.out /\ row2.req = Tail(net.req)
    BY <1>1, <2>5 DEF Connection
  <2>7. Send(row, <<e>>) \/ Send(row2, <<x>>)
    BY <1>9, <2>2, <2>3, <2>5 DEF WorkspaceUnsubscribe
  <2> QED BY <1>1, <1>4, <2>1, <2>2, <2>3, <2>6, <2>7
<1>10. CASE WorkspaceHistory(row, c)
  <2>1. PICK h \in [Workspace -> Nat] : h = log' /\ h = log /\ \A w \in Workspace : log[w] <= h[w]
    BY <1>3, <1>10 DEF WorkspaceHistory
  <2>2. PICK e \in Frame : e = ErrorFrame(c) /\ FrameOK(e, h) /\ e.t # "page"
    BY <1>5
  <2>3. CASE row.member = None
    <3>1. Send(row, <<e>>)
      BY <1>10, <2>2, <2>3 DEF WorkspaceHistory
    <3> QED BY <1>1, <1>4, <2>1, <2>2, <3>1
  <2>4. CASE row.member # None
    <3>1. PICK w \in Workspace : w = row.member
      BY <1>3, <1>7, <2>4
    <3>2. PICK k \in Nat, p \in Nat : k = log[w] /\ p = PageLimit
      BY <1>3, FeedAssumption
    <3>3. PICK z \in Int, d \in Int : z = 0 /\ d = k - p
      OBVIOUS
    <3>4. PICK lo \in Int : lo = Max({z, d}) /\ lo <= k
      <4>1. Max({z, d}) = z \/ Max({z, d}) = d
        BY MaxTwo
      <4> QED BY <3>2, <3>3, <4>1
    <3>5. PICK hi \in PageEnds(w, lo) : Send(row, <<Answer("history", c, w, lo, hi, FALSE)>>)
      BY <1>10, <2>4, <3>1, <3>2, <3>3, <3>4 DEF WorkspaceHistory
    <3>6. hi \in Int /\ lo <= hi /\ hi <= log[w]
      BY <1>3, <3>2, <3>4, PageEndsOK
    <3>7. PICK x \in Frame : x = Answer("history", c, w, lo, hi, FALSE) /\ FrameOK(x, h) /\ x.t # "page"
      <4>1. PICK b \in Int : b = hi /\ lo <= b /\ b <= h[w]
        BY <2>1, <3>6
      <4>2. c \in Request /\ lo <= b /\ b <= h[w]
        BY <1>1, <4>1
      <4>3. /\ Answer("history", c, w, lo, b, FALSE) \in Frame
            /\ FrameOK(Answer("history", c, w, lo, b, FALSE), h)
            /\ Answer("history", c, w, lo, b, FALSE).t # "page"
        BY <4>2, HistoryFrame, Zenon
      <4> QED BY <4>1, <4>3, Zenon
    <3> QED BY <1>1, <1>4, <2>1, <3>5, <3>7
  <2> QED BY <2>3, <2>4
<1>11. CASE WorkspacePost(row, c)
  <2>1. CASE row.member = None \/ \E p \in posted : p.ws = row.member
    <3>1. PICK h \in [Workspace -> Nat] : h = log' /\ h = log /\ \A w \in Workspace : log[w] <= h[w]
      BY <1>3, <1>11, <2>1 DEF WorkspacePost
    <3>2. PICK e \in Frame : e = ErrorFrame(c) /\ FrameOK(e, h) /\ e.t # "page"
      BY <1>5
    <3>3. PICK x \in Frame : x = Answer("posted", c, row.member, 0, 0, FALSE) /\ FrameOK(x, h) /\ x.t # "page"
      <4>1. PICK w \in Room : w = row.member /\ (w # None => 0 <= h[w])
        BY <1>3, <1>7, <3>1
      <4> QED BY <1>1, <4>1, PlainFrames
    <3>4. Send(row, <<e>>) \/ Send(row, <<x>>)
      BY <1>11, <2>1, <3>2, <3>3 DEF WorkspacePost
    <3> QED BY <1>1, <1>4, <3>1, <3>2, <3>3, <3>4
  <2>2. CASE ~ (row.member = None \/ \E p \in posted : p.ws = row.member)
    <3>1. PICK w \in Workspace : w = row.member
      BY <1>3, <1>7, <2>2
    <3>2. PICK k \in Nat : k = log[w]
      BY <1>3
    <3>3. PICK h \in [Workspace -> Nat] : h = log' /\ h[w] = k + 1 /\ \A x \in Workspace : log[x] <= h[x]
      BY <1>3, <1>11, <2>2, <3>1, <3>2 DEF WorkspacePost
    <3>4. PICK x \in Frame : x = Answer("posted", c, w, 0, 0, FALSE) /\ FrameOK(x, h) /\ x.t # "page"
      <4>1. PICK r \in Room : r = w /\ 0 <= h[r] /\ r # None
        BY <3>3, FeedAssumption DEF Room
      <4> QED BY <1>1, <4>1, PlainFrames
    <3>5. PICK y \in Frame : y = EventFrame(w, k + 1) /\ FrameOK(y, h) /\ y.t # "page"
      BY <3>2, <3>3, EventFrameOK
    <3>6. Send(row, <<x>> \o (IF row.sub THEN <<y>> ELSE <<>>))
      BY <1>11, <2>2, <3>1, <3>2, <3>4, <3>5 DEF WorkspacePost
    <3>7. <<x>> \o <<>> = <<x>>
      OBVIOUS
    <3>8. Send(row, <<x>>) \/ Send(row, <<x>> \o <<y>>)
      BY <3>6, <3>7
    <3> QED BY <1>1, <1>4, <3>3, <3>4, <3>5, <3>8
  <2> QED BY <2>1, <2>2
<1> QED BY <1>8, <1>9, <1>10, <1>11

\* Every step of the router.
LEMMA RouterStepOK == Inv /\ RouterStep /\ UNCHANGED ui => Inv'
<1> SUFFICES ASSUME Inv, RouterStep, UNCHANGED ui PROVE Inv'
  OBVIOUS
<1>1. CASE RouterHandle
  <2>1. PICK c, row : c = Head(net.req) /\ row = [net EXCEPT !.req = Tail(@)]
    OBVIOUS
  <2>2. net.up /\ net.req # <<>> /\ UNCHANGED <<client, pending, events, commands, replies, ui>>
    BY <1>1 DEF RouterHandle
  <2>3. \/ c.kind = "join" /\ WorkspaceJoin(row, c)
        \/ c.kind = "leave" /\ WorkspaceLeave(row, c)
        \/ c.kind = "subscribe" /\ WorkspaceSubscribe(row, c)
        \/ c.kind = "unsubscribe" /\ WorkspaceUnsubscribe(row, c)
        \/ c.kind = "history" /\ WorkspaceHistory(row, c)
        \/ c.kind = "post" /\ WorkspacePost(row, c)
    BY <1>1, <2>1 DEF RouterHandle
  <2> QED BY <2>1, <2>2, <2>3, JoinOK, SubscribeOK, OtherHandlersOK
<1> QED BY <1>1, CutOK, PublishOK DEF RouterStep

-----------------------------------------------------------------------------
(* The client.                                                                *)

\* A step of the client: it leaves the log and the view alone.
LEMMA ClientOK ==
    ASSUME Inv, UNCHANGED <<log, ui>>, client' \in Memory, MemoryOK(client', log), net' \in Connection,
           pending' \in SUBSET PendingCall, events' \in Seq(Notice), EventsOK(events', log),
           CommandsOK(commands'), QueueOK(commands', log),
           replies' \in SUBSET Value, \A v \in replies' : InLog(log, v),
           NetOK(net', client', log, pending', commands')
    PROVE  Inv'
<1>1. TypeOK'
  BY DEF Inv, TypeOK, FeedTypeOK, CommandsOK
<1>2. WithinLog'
  BY DEF Inv, WithinLog
<1> QED BY <1>1, <1>2 DEF Inv

\* The facts of the invariant the steps of the client use.
LEMMA Facts ==
    ASSUME Inv
    PROVE  /\ log \in [Workspace -> Nat] /\ client \in Memory /\ net \in Connection
           /\ pending \in SUBSET PendingCall /\ events \in Seq(Notice) /\ replies \in SUBSET Value
           /\ commands \in Seq(Command) /\ CommandsOK(commands)
           /\ MemoryOK(client, log) /\ QueueOK(commands, log) /\ EventsOK(events, log)
           /\ (\A v \in replies : InLog(log, v))
           /\ WireOK(net, log) /\ UnsentOK(net, pending, commands) /\ PendingOK(net, pending)
           /\ RestoreOK(net, client, log)
BY DEF Inv, TypeOK, FeedTypeOK, CommandsOK, WithinLog, NetOK

\* A call without an answer.
LEMMA FailedOK ==
    ASSUME NEW i \in Id, NEW l PROVE Failed(i) \in Value /\ InLog(l, Failed(i))
BY DEF Failed, Value, Room, InLog

\* What is delivered stays within the log.
LEMMA DeliverOK ==
    ASSUME Inv, NEW values, Deliver(values), \A v \in values : v \in Value /\ InLog(log, v)
    PROVE  replies' \in SUBSET Value /\ \A v \in replies' : InLog(log, v)
BY Facts DEF Deliver

\* The first command is taken off the queue.
LEMMA TailOK ==
    ASSUME Inv, commands # <<>>, NEW cmds, cmds = Tail(commands)
    PROVE  /\ CommandsOK(cmds) /\ QueueOK(cmds, log) /\ UnsentOK(net, pending, cmds)
           /\ Head(commands) \in Command /\ CommandOK(Head(commands), log) /\ Head(commands) = commands[1]
           /\ (\A k \in 1 .. Len(cmds) : k + 1 \in 1 .. Len(commands) /\ cmds[k] = commands[k + 1])
           /\ 1 \in 1 .. Len(commands)
<1>1. commands \in Seq(Command) /\ Len(commands) <= CommandCap /\ QueueOK(commands, log)
      /\ UnsentOK(net, pending, commands)
  BY Facts DEF CommandsOK
<1>2. cmds \in Seq(Command) /\ Len(cmds) = Len(commands) - 1 /\ Head(commands) = commands[1]
      /\ 1 \in 1 .. Len(commands) /\ commands[1] \in Command
  BY <1>1
<1>3. \A k \in 1 .. Len(cmds) : k + 1 \in 1 .. Len(commands) /\ cmds[k] = commands[k + 1]
  BY <1>1, <1>2
<1>4. CommandsOK(cmds)
  BY <1>1, <1>2, FeedAssumption DEF CommandsOK
<1>5. QueueOK(cmds, log) /\ CommandOK(commands[1], log)
  BY <1>1, <1>2, <1>3 DEF QueueOK
<1>6. \A k, j \in 1 .. Len(cmds) : j # k => j + 1 # k + 1
  OBVIOUS
<1>7. UnsentOK(net, pending, cmds)
  BY <1>1, <1>3, <1>6 DEF UnsentOK
<1> QED BY <1>2, <1>3, <1>4, <1>5, <1>7

\* A connection that is gone, once the client has seen its end.
LEMMA ClosedOK ==
    ASSUME NEW m, m.phase = "down", NEW l, NEW n, NEW P, NEW Q \in SUBSET P, NEW cmds, UnsentOK(n, P, cmds)
    PROVE  Closed(<<>>) \in Connection /\ NetOK(Closed(<<>>), m, l, Q, cmds)
<1>1. <<>> \in Seq(Frame) /\ <<>> \in Seq(Request) /\ None \in Room
  BY DEF Room
<1>2. Closed(<<>>) \in Connection
  BY <1>1 DEF Closed, Connection
<1>3. PICK c \in Connection : c = Closed(<<>>)
  BY <1>2
<1>4. c.req = <<>> /\ c.out = <<>>
  BY <1>3 DEF Closed
<1>5. Len(c.req) = 0 /\ Len(c.out) = 0
  BY <1>4
<1>6. WireOK(c, l) /\ PendingOK(c, Q)
  BY <1>5 DEF WireOK, PendingOK
<1>7. UnsentOK(c, Q, cmds)
  BY <1>5 DEF UnsentOK
<1>8. RestoreOK(c, m, l)
  BY DEF RestoreOK
<1> QED BY <1>2, <1>3, <1>6, <1>7, <1>8 DEF NetOK

\* A cursor that is within the log advances within the log.
LEMMA AdvanceOK ==
    ASSUME Inv, NEW w \in Workspace, NEW k \in Int, k <= log[w], NEW m, m = AdvanceCursor(client, w, k)
    PROVE  /\ m \in Memory /\ MemoryOK(m, log)
           /\ m.phase = client.phase /\ m.desired = client.desired /\ m.page = client.page
           /\ m.subscribed = client.subscribed
<1>1. client \in Memory /\ MemoryOK(client, log) /\ log \in [Workspace -> Nat]
  BY Facts
<1>2. PICK o \in Int : o = client.acked[w] /\ o <= log[w]
  BY <1>1 DEF Memory, MemoryOK
<1>3. PICK z \in Int : z = 0 /\ z <= log[w]
  BY <1>1
<1>4. Max({o, k, z}) = o \/ Max({o, k, z}) = k \/ Max({o, k, z}) = z
  BY MaxThree
<1>5. PICK a \in Int : a = Max({o, k, z}) /\ a <= log[w]
  BY <1>2, <1>3, <1>4
<1>6. client.acked \in [Workspace -> Int]
  BY <1>1 DEF Memory
<1>7. PICK acked \in [Workspace -> Int] : /\ acked = [client.acked EXCEPT ![w] = a]
                                          /\ acked[w] = a /\ \A x \in Workspace : x # w => acked[x] = client.acked[x]
  <2>1. [client.acked EXCEPT ![w] = a] \in [Workspace -> Int]
    BY <1>6
  <2>2. PICK acked \in [Workspace -> Int] : acked = [client.acked EXCEPT ![w] = a]
    BY <2>1
  <2>3. acked[w] = a /\ \A x \in Workspace : x # w => acked[x] = client.acked[x]
    BY <1>6, <2>2
  <2> QED BY <2>2, <2>3
<1>8. m = [client EXCEPT !.acked = acked]
  BY <1>1, <1>2, <1>3, <1>5, <1>7 DEF AdvanceCursor, Memory
<1>9. m \in Memory
  BY <1>1, <1>8 DEF Memory
<1>10. m.acked = acked /\ m.phase = client.phase /\ m.desired = client.desired /\ m.page = client.page
       /\ m.subscribed = client.subscribed
  BY <1>1, <1>8 DEF Memory
<1>11. MemoryOK(m, log)
  BY <1>1, <1>5, <1>7, <1>10 DEF MemoryOK
<1> QED BY <1>9, <1>10, <1>11

\* No page is being replayed.
LEMMA EmptyPageOK ==
    EmptyPage \in [ws : Room, lo : Int, hi : Int, live : BOOLEAN] /\ InLog(log, EmptyPage)
<1>1. None \in Room
  BY DEF Room
<1>2. EmptyPage \in [ws : Room, lo : Int, hi : Int, live : BOOLEAN]
  BY <1>1 DEF EmptyPage
<1> QED BY <1>2 DEF EmptyPage, InLog

\* The shapes depend on the phase, the room and the page only.
LEMMA SamePhase ==
    ASSUME NEW n, NEW l, NEW m, NEW m2, RestoreOK(n, m, l), m2.phase = m.phase, m2.desired = m.desired, m2.page = m.page
    PROVE  RestoreOK(n, m2, l)
<1>1. m2.phase = "joining" => JoinShape(n, m2)
  BY DEF RestoreOK, JoinShape
<1>2. m2.phase = "restoring" => PageShape(n, m2, l)
  BY DEF RestoreOK, PageShape
<1>3. m2.phase = "replaying" => ReplayShape(n, m2)
  BY DEF RestoreOK, ReplayShape
<1> QED BY <1>1, <1>2, <1>3 DEF RestoreOK

\* The memory of a client whose pump has ended.
LEMMA DownOK ==
    ASSUME NEW m \in Memory, NEW l, MemoryOK(m, l), NEW d, d = [m EXCEPT !.phase = "down", !.news = TRUE]
    PROVE  d \in Memory /\ MemoryOK(d, l) /\ d.phase = "down"
<1>1. d \in Memory
  BY DEF Memory
<1>2. d.page = m.page /\ d.acked = m.acked /\ d.phase = "down"
  BY DEF Memory
<1> QED BY <1>1, <1>2 DEF MemoryOK

\* The pump ends with memory m: every pending call fails.
LEMMA PumpEndsOK ==
    ASSUME Inv, NEW m \in Memory, MemoryOK(m, log), PumpEnds(m), UNCHANGED <<log, events, ui>>,
           CommandsOK(commands'), QueueOK(commands', log), UnsentOK(net, pending, commands')
    PROVE  Inv'
<1>1. client' \in Memory /\ MemoryOK(client', log) /\ client'.phase = "down"
  BY DownOK DEF PumpEnds
<1>2. pending' = {} /\ net' = Closed(<<>>)
  BY DEF PumpEnds
<1>3. PICK d : d = client'
  OBVIOUS
<1>4. PICK cmds : cmds = commands' /\ UnsentOK(net, pending, cmds)
  OBVIOUS
<1>5. {} \in SUBSET pending
  OBVIOUS
<1>6. Closed(<<>>) \in Connection /\ NetOK(Closed(<<>>), d, log, {}, cmds)
  BY <1>1, <1>3, <1>4, <1>5, ClosedOK
<1>7. replies' \in SUBSET Value /\ \A v \in replies' : InLog(log, v)
  <2>1. \A v \in {Failed(p.id) : p \in pending} : v \in Value /\ InLog(log, v)
    BY Facts, FailedOK DEF PendingCall
  <2>2. Deliver({Failed(p.id) : p \in pending})
    BY DEF PumpEnds
  <2> QED BY <2>1, <2>2, DeliverOK
<1>8. events' \in Seq(Notice) /\ EventsOK(events', log) /\ pending' \in SUBSET PendingCall
  BY <1>2, Facts
<1> QED BY <1>1, <1>2, <1>3, <1>4, <1>6, <1>7, <1>8, ClientOK

\* The pump reads the end of the stream.
LEMMA PumpEofOK == Inv /\ PumpEof /\ UNCHANGED ui => Inv'
<1> SUFFICES ASSUME Inv, PumpEof, UNCHANGED ui PROVE Inv'
  OBVIOUS
<1>1. client \in Memory /\ MemoryOK(client, log) /\ CommandsOK(commands) /\ QueueOK(commands, log)
      /\ UnsentOK(net, pending, commands)
  BY Facts
<1>2. PumpEnds(client) /\ UNCHANGED <<log, events, ui>> /\ commands' = commands
  BY DEF PumpEof
<1> QED BY <1>1, <1>2, PumpEndsOK

\* The command queue shrinks and the memory changes in its cursors only.
LEMMA CommandTaken ==
    ASSUME Inv, commands # <<>>, commands' = Tail(commands), UNCHANGED <<log, events, ui, net>>,
           client' \in Memory, MemoryOK(client', log),
           client'.phase = client.phase, client'.desired = client.desired, client'.page = client.page,
           pending' \in SUBSET pending,
           replies' \in SUBSET Value, \A v \in replies' : InLog(log, v)
    PROVE  Inv'
<1>1. CommandsOK(commands') /\ QueueOK(commands', log) /\ UnsentOK(net, pending, commands')
  BY TailOK
<1>2. UnsentOK(net, pending', commands')
  BY <1>1 DEF UnsentOK
<1>3. WireOK(net, log) /\ PendingOK(net, pending') /\ RestoreOK(net, client, log)
  BY Facts DEF PendingOK
<1>4. RestoreOK(net, client', log)
  BY <1>3, SamePhase
<1>5. NetOK(net', client', log, pending', commands')
  BY <1>2, <1>3, <1>4 DEF NetOK
<1>6. net' \in Connection /\ events' \in Seq(Notice) /\ EventsOK(events', log) /\ pending' \in SUBSET PendingCall
  BY Facts
<1> QED BY <1>1, <1>5, <1>6, ClientOK

\* A command is taken while no connection is up.
LEMMA DisconnectedCommandOK == Inv /\ DisconnectedCommand /\ UNCHANGED ui => Inv'
<1> SUFFICES ASSUME Inv, DisconnectedCommand, UNCHANGED ui PROVE Inv'
  OBVIOUS
<1>1. commands # <<>> /\ commands' = Tail(commands) /\ UNCHANGED <<log, events, ui, net, pending>>
  BY DEF DisconnectedCommand
<1>2. PICK cmd \in Command : cmd = Head(commands) /\ CommandOK(cmd, log)
  BY <1>1, TailOK
<1>3. client' \in Memory /\ MemoryOK(client', log)
      /\ client'.phase = client.phase /\ client'.desired = client.desired /\ client'.page = client.page
  <2>1. CASE cmd.op = "ack"
    <3>1. cmd.ws \in Workspace /\ cmd.seq \in Int /\ cmd.seq <= log[cmd.ws]
      BY <1>2, <2>1 DEF Command, CommandOK
    <3>2. client' = AdvanceCursor(client, cmd.ws, cmd.seq)
      BY <1>2, <2>1 DEF DisconnectedCommand
    <3> QED BY <3>1, <3>2, AdvanceOK
  <2>2. CASE cmd.op # "ack"
    BY <1>2, <2>2, Facts DEF DisconnectedCommand
  <2> QED BY <2>1, <2>2
<1>4. replies' \in SUBSET Value /\ \A v \in replies' : InLog(log, v)
  <2>1. PICK values : values = IF cmd.op = "rpc" THEN {Failed(cmd.call.id)} ELSE {}
    OBVIOUS
  <2>2. Deliver(values)
    BY <1>2, <2>1 DEF DisconnectedCommand
  <2>3. \A v \in values : v \in Value /\ InLog(log, v)
    BY <1>2, <2>1, FailedOK DEF CommandOK
  <2> QED BY <2>2, <2>3, DeliverOK
<1> QED BY <1>1, <1>3, <1>4, CommandTaken

\* The pump drops a call; dropping a leave drops the connection.
LEMMA PumpCancelOK ==
    ASSUME Inv, NEW i, PumpCancel(i), client.phase = "up", commands # <<>>, commands' = Tail(commands),
           UNCHANGED <<log, events, ui>>
    PROVE  Inv'
<1>1. PICK call : call = {p \in pending : p.id = i}
  OBVIOUS
<1>2. CASE \E p \in call : p.kind = "leave"
  <2>1. [client EXCEPT !.desired = None, !.subscribed = None] \in Memory
    BY Facts DEF Memory, Room
  <2>2. PICK m \in Memory : m = [client EXCEPT !.desired = None, !.subscribed = None]
    BY <2>1
  <2>3. MemoryOK(m, log)
    <3>1. m.page = client.page /\ m.acked = client.acked
      BY <2>2, Facts DEF Memory
    <3> QED BY <3>1, Facts DEF MemoryOK
  <2>4. client' = [m EXCEPT !.phase = "down", !.news = TRUE]
    <3>1. client' = [client EXCEPT !.phase = "down", !.news = TRUE, !.desired = None, !.subscribed = None]
      BY <1>1, <1>2 DEF PumpCancel
    <3> QED BY <2>2, <3>1, Facts DEF Memory
  <2>5. client' \in Memory /\ MemoryOK(client', log) /\ client'.phase = "down"
    BY <2>3, <2>4, DownOK
  <2>6. pending' = {} /\ net' = Closed(<<>>) /\ Deliver({Failed(p.id) : p \in pending \ call})
    BY <1>1, <1>2 DEF PumpCancel
  <2>7. PICK d, cmds : d = client' /\ cmds = commands'
    OBVIOUS
  <2>8. CommandsOK(cmds) /\ QueueOK(cmds, log) /\ UnsentOK(net, pending, cmds) /\ {} \in SUBSET pending
    BY <2>7, TailOK
  <2>9. Closed(<<>>) \in Connection /\ NetOK(Closed(<<>>), d, log, {}, cmds)
    BY <2>5, <2>7, <2>8, ClosedOK
  <2>10. \A v \in {Failed(p.id) : p \in pending \ call} : v \in Value /\ InLog(log, v)
    BY Facts, FailedOK DEF PendingCall
  <2>11. replies' \in SUBSET Value /\ \A v \in replies' : InLog(log, v)
    BY <2>6, <2>10, DeliverOK
  <2>12. events' \in Seq(Notice) /\ EventsOK(events', log) /\ pending' \in SUBSET PendingCall
    BY <2>6, Facts
  <2> QED BY <2>5, <2>6, <2>7, <2>8, <2>9, <2>11, <2>12, ClientOK
<1>3. CASE ~ \E p \in call : p.kind = "leave"
  <2>1. pending' \in SUBSET pending /\ UNCHANGED <<client, net, replies>>
    BY <1>1, <1>3 DEF PumpCancel
  <2>2. /\ client' \in Memory /\ MemoryOK(client', log)
        /\ client'.phase = client.phase /\ client'.desired = client.desired /\ client'.page = client.page
        /\ replies' \in SUBSET Value /\ \A v \in replies' : InLog(log, v)
    BY <2>1, Facts
  <2> QED BY <2>1, <2>2, CommandTaken
<1> QED BY <1>2, <1>3

\* The pump sends a call that nothing else mentions.
LEMMA PumpRpcOK ==
    ASSUME Inv, NEW c, PumpRpc(c), client.phase = "up", commands # <<>>, commands' = Tail(commands),
           Head(commands).op = "rpc", c = Head(commands).call, UNCHANGED <<log, events, ui>>
    PROVE  Inv'
<1>1. PICK cmd \in Command : cmd = commands[1] /\ CommandOK(cmd, log) /\ cmd.op = "rpc" /\ c = cmd.call
  BY TailOK
<1>2. c \in Request /\ c.id \in Id /\ RequestOK(c)
  BY <1>1 DEF Command, CommandOK
<1>3. PICK cmds : cmds = commands'
  OBVIOUS
<1>4. CommandsOK(cmds) /\ QueueOK(cmds, log) /\ UnsentOK(net, pending, cmds) /\ 1 \in 1 .. Len(commands)
      /\ \A k \in 1 .. Len(cmds) : k + 1 \in 1 .. Len(commands) /\ cmds[k] = commands[k + 1]
  BY <1>3, TailOK
<1>5. /\ \A p \in pending : p.id # c.id
      /\ \A i \in 1 .. Len(net.req) : net.req[i].id # c.id
      /\ \A i \in 1 .. Len(net.out) : net.out[i].t = "page" => net.out[i].id # c.id
      /\ \A k \in 1 .. Len(commands) : commands[k].op = "rpc" /\ k # 1 => commands[k].call.id # c.id
  BY <1>1, <1>4, Facts DEF UnsentOK
<1>6. \A k \in 1 .. Len(cmds) : cmds[k].op = "rpc" => cmds[k].call.id # c.id
  <2>1. ASSUME NEW k \in 1 .. Len(cmds), cmds[k].op = "rpc" PROVE cmds[k].call.id # c.id
    <3>1. k + 1 \in 1 .. Len(commands) /\ cmds[k] = commands[k + 1] /\ k + 1 # 1
      BY <1>4
    <3> QED BY <1>5, <2>1, <3>1
  <2> QED BY <2>1
<1>7. CASE SendRpc(c) /\ net' = (IF net.up THEN [net EXCEPT !.req = Append(@, c)] ELSE net)
           /\ UNCHANGED <<client, replies>>
  <2>1. PICK entry : entry = [id |-> c.id, kind |-> c.kind, after |-> c.after, latest |-> SubscriptionCall(c),
                              ws |-> IF SubscriptionCall(c) THEN client.desired ELSE None]
    OBVIOUS
  <2>2. entry \in PendingCall /\ entry.id = c.id /\ entry.after = c.after
    <3>1. c.kind \in CallKind /\ c.after \in Int /\ SubscriptionCall(c) \in BOOLEAN
      BY <1>2 DEF Request, SubscriptionCall
    <3>2. (IF SubscriptionCall(c) THEN client.desired ELSE None) \in Room
      BY Facts DEF Memory, Room
    <3> QED BY <1>2, <2>1, <3>1, <3>2 DEF PendingCall
  <2>3. PICK older : /\ older = IF SubscriptionCall(c) THEN {[p EXCEPT !.latest = FALSE] : p \in pending} ELSE pending
                     /\ pending' = older \cup {entry}
    BY <1>7, <2>1 DEF SendRpc
  <2>4. \A q \in older : q \in PendingCall /\ \E p \in pending : q.id = p.id /\ q.after = p.after
    <3>1. \A p \in pending : /\ [p EXCEPT !.latest = FALSE] \in PendingCall
                             /\ [p EXCEPT !.latest = FALSE].id = p.id /\ [p EXCEPT !.latest = FALSE].after = p.after
      BY Facts DEF PendingCall
    <3> QED BY <2>3, <3>1, Facts
  <2>5. net \in Connection /\ net.req \in Seq(Request) /\ WireOK(net, log) /\ PendingOK(net, pending)
    BY Facts DEF Connection
  <2>6. PICK n : n = net'
    OBVIOUS
  <2>7. n \in Connection /\ n.out = net.out
        /\ \A i \in 1 .. Len(n.req) : (i \in 1 .. Len(net.req) /\ n.req[i] = net.req[i]) \/ n.req[i] = c
    <3>1. CASE net.up
      <4>1. Append(net.req, c) \in Seq(Request)
        BY <1>2, <2>5
      <4>2. PICK s \in Seq(Request) : s = Append(net.req, c)
        BY <4>1
      <4>3. \A i \in 1 .. Len(s) : (i \in 1 .. Len(net.req) /\ s[i] = net.req[i]) \/ s[i] = c
        BY <2>5, <4>2
      <4>4. n = [net EXCEPT !.req = s]
        BY <1>7, <2>6, <3>1, <4>2
      <4>5. n \in Connection /\ n.out = net.out /\ n.req = s
        BY <2>5, <4>4 DEF Connection
      <4> QED BY <4>3, <4>5
    <3>2. CASE ~ net.up
      BY <1>7, <2>5, <2>6, <3>2
    <3> QED BY <3>1, <3>2
  <2>8. WireOK(n, log)
    BY <1>2, <2>5, <2>7 DEF WireOK
  <2>9. PICK P : P = pending'
    OBVIOUS
  <2>10. \A q \in P : q = entry \/ \E p \in pending : q.id = p.id /\ q.after = p.after
    BY <2>3, <2>4, <2>9
  <2>11. UnsentOK(n, P, cmds)
    <3>1. ASSUME NEW k \in 1 .. Len(cmds), cmds[k].op = "rpc"
          PROVE  /\ \A q \in P : q.id # cmds[k].call.id
                 /\ \A i \in 1 .. Len(n.req) : n.req[i].id # cmds[k].call.id
                 /\ \A i \in 1 .. Len(n.out) : n.out[i].t = "page" => n.out[i].id # cmds[k].call.id
      <4>1. /\ \A p \in pending : p.id # cmds[k].call.id
            /\ \A i \in 1 .. Len(net.req) : net.req[i].id # cmds[k].call.id
            /\ \A i \in 1 .. Len(net.out) : net.out[i].t = "page" => net.out[i].id # cmds[k].call.id
        BY <1>4, <3>1 DEF UnsentOK
      <4>2. cmds[k].call.id # c.id
        BY <1>6, <3>1
      <4> QED BY <2>2, <2>7, <2>10, <4>1, <4>2
    <3> QED BY <1>4, <3>1 DEF UnsentOK
  <2>12. PendingOK(n, P)
    <3>1. ASSUME NEW q \in P
          PROVE  /\ \A i \in 1 .. Len(n.req) : n.req[i].id = q.id => n.req[i].after = q.after
                 /\ \A i \in 1 .. Len(n.out) : n.out[i].id = q.id /\ n.out[i].t = "page" => n.out[i].lo = q.after
      <4>1. CASE q = entry
        BY <1>5, <2>2, <2>7, <4>1
      <4>2. CASE q # entry
        <5>1. PICK p \in pending : q.id = p.id /\ q.after = p.after
          BY <2>10, <4>2
        <5>2. p.id # c.id
          BY <1>5
        <5> QED BY <2>5, <2>7, <5>1, <5>2 DEF PendingOK
      <4> QED BY <4>1, <4>2
    <3> QED BY <3>1 DEF PendingOK
  <2>13. RestoreOK(n, client, log)
    BY DEF RestoreOK
  <2>14. NetOK(n, client, log, P, cmds)
    BY <2>8, <2>11, <2>12, <2>13 DEF NetOK
  <2>15. P \in SUBSET PendingCall
    BY <2>2, <2>3, <2>4, <2>9
  <2>16. client' = client /\ replies' = replies /\ events' = events
    BY <1>7
  <2> QED BY <1>3, <1>4, <2>6, <2>7, <2>9, <2>14, <2>15, <2>16, Facts, ClientOK
<1>8. CASE /\ client' = [client EXCEPT !.phase = "down", !.news = TRUE]
           /\ net' = Closed(<<>>) /\ pending' = {}
           /\ Deliver({Failed(p.id) : p \in pending} \cup {Failed(c.id)})
  <2>1. client' \in Memory /\ MemoryOK(client', log) /\ client'.phase = "down"
    BY <1>8, Facts, DownOK
  <2>2. PICK d : d = client'
    OBVIOUS
  <2>3. Closed(<<>>) \in Connection /\ NetOK(Closed(<<>>), d, log, {}, cmds)
    <3>1. {} \in SUBSET pending
      OBVIOUS
    <3> QED BY <1>4, <2>1, <2>2, <3>1, ClosedOK
  <2>4. \A v \in {Failed(p.id) : p \in pending} \cup {Failed(c.id)} : v \in Value /\ InLog(log, v)
    BY <1>2, Facts, FailedOK DEF PendingCall
  <2>5. replies' \in SUBSET Value /\ \A v \in replies' : InLog(log, v)
    BY <1>8, <2>4, DeliverOK
  <2>6. events' \in Seq(Notice) /\ EventsOK(events', log) /\ pending' \in SUBSET PendingCall
    BY <1>8, Facts
  <2> QED BY <1>3, <1>4, <1>8, <2>1, <2>2, <2>3, <2>5, <2>6, ClientOK
<1> QED BY <1>7, <1>8 DEF PumpRpc

\* The pump takes a command.
LEMMA PumpCommandOK == Inv /\ PumpCommand /\ UNCHANGED ui => Inv'
<1> SUFFICES ASSUME Inv, PumpCommand, UNCHANGED ui PROVE Inv'
  OBVIOUS
<1>1. client.phase = "up" /\ commands # <<>> /\ commands' = Tail(commands) /\ UNCHANGED <<log, events, ui>>
  BY DEF PumpCommand
<1>2. PICK cmd \in Command : cmd = Head(commands) /\ CommandOK(cmd, log)
  BY <1>1, TailOK
<1>3. CASE cmd.op = "rpc" /\ PumpRpc(cmd.call)
  BY <1>1, <1>2, <1>3, PumpRpcOK
<1>4. CASE cmd.op = "cancel" /\ PumpCancel(cmd.id)
  BY <1>1, <1>4, PumpCancelOK
<1>5. CASE cmd.op = "ack" /\ client' = AdvanceCursor(client, cmd.ws, cmd.seq) /\ UNCHANGED <<net, pending, replies>>
  <2>1. cmd.ws \in Workspace /\ cmd.seq \in Int /\ cmd.seq <= log[cmd.ws]
    BY <1>2, <1>5 DEF Command, CommandOK
  <2>2. client' \in Memory /\ MemoryOK(client', log)
        /\ client'.phase = client.phase /\ client'.desired = client.desired /\ client'.page = client.page
    BY <1>5, <2>1, AdvanceOK
  <2>3. /\ replies' \in SUBSET Value /\ (\A v \in replies' : InLog(log, v)) /\ net' = net
        /\ pending' \in SUBSET pending
    BY <1>5, Facts
  <2> QED BY <1>1, <2>2, <2>3, CommandTaken
<1> QED BY <1>2, <1>3, <1>4, <1>5 DEF PumpCommand

\* A new connection, which rejoins the room it is to restore.
LEMMA ConnectOK == Inv /\ Connect /\ UNCHANGED ui => Inv'
<1> SUFFICES ASSUME Inv, Connect, UNCHANGED ui PROVE Inv'
  OBVIOUS
<1>1. UNCHANGED <<log, pending, events, commands, replies, ui>>
  BY DEF Connect
<1>2. client \in Memory /\ MemoryOK(client, log) /\ UnsentOK(net, pending, commands)
  BY Facts
<1>3. <<>> \in Seq(Frame) /\ <<>> \in Seq(Request) /\ None \in Room
  BY DEF Room
<1>4. PICK fresh \in Connection :
         /\ fresh = [Closed(<<>>) EXCEPT !.up = TRUE] /\ fresh.member = None /\ fresh.sub = FALSE
         /\ fresh.req = <<>> /\ fresh.out = <<>>
  <2>1. Closed(<<>>) \in Connection
    BY <1>3 DEF Closed, Connection
  <2>2. PICK c \in Connection : c = Closed(<<>>)
    BY <2>1
  <2>3. c.member = None /\ c.sub = FALSE /\ c.req = <<>> /\ c.out = <<>>
    BY <2>2 DEF Closed
  <2>4. [c EXCEPT !.up = TRUE] \in Connection
    BY DEF Connection
  <2>5. PICK f \in Connection : f = [c EXCEPT !.up = TRUE]
    BY <2>4
  <2>6. f.member = None /\ f.sub = FALSE /\ f.req = <<>> /\ f.out = <<>>
    BY <2>3, <2>5 DEF Connection
  <2> QED BY <2>2, <2>5, <2>6
<1>5. ASSUME NEW n \in Connection, n.out = <<>>,
             n.req = <<>> \/ \E w \in Workspace : n.req = <<RestoreCall("join", w, 0)>>
      PROVE  WireOK(n, log) /\ UnsentOK(n, pending, commands) /\ PendingOK(n, pending)
  <2>1. \A i \in 1 .. Len(n.req) : n.req[i].id = RestoreId /\ n.req[i].ws # None
    <3>1. CASE n.req = <<>>
      BY <3>1
    <3>2. ASSUME NEW w \in Workspace, n.req = <<RestoreCall("join", w, 0)>>
          PROVE  \A i \in 1 .. Len(n.req) : n.req[i].id = RestoreId /\ n.req[i].ws # None
      <4>1. \A i \in 1 .. Len(n.req) : n.req[i] = RestoreCall("join", w, 0)
        BY <3>2
      <4> QED BY <4>1, FeedAssumption DEF RestoreCall
    <3> QED BY <1>5, <3>1, <3>2
  <2>2. Len(n.out) = 0
    BY <1>5
  <2>3. WireOK(n, log)
    BY <2>1, <2>2 DEF WireOK, RequestOK
  <2>4. \A k \in 1 .. Len(commands) : commands[k].op = "rpc" => commands[k].call.id # RestoreId
    BY Facts, FeedAssumption DEF QueueOK, CommandOK
  <2>5. UnsentOK(n, pending, commands)
    BY <1>2, <2>1, <2>2, <2>4 DEF UnsentOK
  <2>6. \A p \in pending : p.id # RestoreId
    BY Facts, FeedAssumption DEF PendingCall
  <2>7. PendingOK(n, pending)
    BY <2>1, <2>2, <2>6 DEF PendingOK
  <2> QED BY <2>3, <2>5, <2>7
<1>6. CASE client.desired = None
  <2>1. net' = fresh
        /\ client' = [client EXCEPT !.phase = "up", !.news = TRUE]
    BY <1>4, <1>6 DEF Connect, Connected
  <2>2. net' \in Connection /\ net'.out = <<>> /\ net'.req = <<>>
    BY <1>4, <2>1
  <2>3. client' \in Memory /\ client'.phase = "up" /\ client'.page = client.page /\ client'.acked = client.acked
    BY <1>2, <2>1 DEF Memory
  <2>4. MemoryOK(client', log) /\ RestoreOK(net', client', log)
    BY <1>2, <2>3 DEF MemoryOK, RestoreOK
  <2>5. NetOK(net', client', log, pending, commands)
    BY <1>5, <2>2, <2>4 DEF NetOK
  <2> QED BY <1>1, <2>2, <2>3, <2>4, <2>5, Facts, ClientOK
<1>7. CASE client.desired # None
  <2>1. PICK w \in Workspace : w = client.desired
    BY <1>2, <1>7 DEF Memory, Room
  <2>2. PICK c \in Request : c = RestoreCall("join", w, 0)
    <3>1. w \in Room /\ RestoreId \in Id \cup {RestoreId} /\ "join" \in CallKind
      BY DEF Room, CallKind
    <3>2. RestoreCall("join", w, 0) \in Request
      BY <3>1 DEF RestoreCall, Request
    <3> QED BY <3>2
  <2>3. <<c>> \in Seq(Request)
    OBVIOUS
  <2>4. PICK s \in Seq(Request) : s = <<c>>
    BY <2>3
  <2>5. net' = [fresh EXCEPT !.req = s]
        /\ client' = [client EXCEPT !.phase = "joining"]
    BY <1>4, <1>7, <2>1, <2>2, <2>4 DEF Connect
  <2>6. net' \in Connection /\ net'.out = <<>> /\ net'.req = s /\ net'.member = None /\ net'.sub = FALSE
    BY <1>4, <2>5 DEF Connection
  <2>7. client' \in Memory /\ client'.phase = "joining" /\ client'.page = client.page
        /\ client'.acked = client.acked /\ client'.desired = w
    BY <1>2, <2>1, <2>5 DEF Memory
  <2>8. MemoryOK(client', log)
    BY <1>2, <2>7 DEF MemoryOK
  <2>9. JoinShape(net', client')
    <3>1. Len(net'.out) = 0 /\ w # None
      BY <2>6, FeedAssumption
    <3> QED BY <2>2, <2>4, <2>6, <2>7, <3>1 DEF JoinShape
  <2>10. RestoreOK(net', client', log)
    BY <2>7, <2>9 DEF RestoreOK
  <2>11. WireOK(net', log) /\ UnsentOK(net', pending, commands) /\ PendingOK(net', pending)
    BY <1>5, <2>2, <2>4, <2>6
  <2>12. NetOK(net', client', log, pending, commands)
    BY <2>10, <2>11 DEF NetOK
  <2> QED BY <1>1, <2>6, <2>7, <2>8, <2>12, Facts, ClientOK
<1> QED BY <1>6, <1>7

\* The restoration is lost or expires.
LEMMA AbandonOK == Inv /\ (RestoreLost \/ RestoreExpired) /\ UNCHANGED ui => Inv'
<1> SUFFICES ASSUME Inv, RestoreLost \/ RestoreExpired, UNCHANGED ui PROVE Inv'
  OBVIOUS
<1>1. Abandon
  BY DEF RestoreLost, RestoreExpired
<1>2. UNCHANGED <<log, pending, events, commands, replies, ui>> /\ net' = Closed(<<>>)
      /\ client' = [client EXCEPT !.phase = "down", !.page = EmptyPage]
  BY <1>1 DEF Abandon
<1>3. PICK p \in [ws : Room, lo : Int, hi : Int, live : BOOLEAN] : p = EmptyPage /\ InLog(log, p)
  <2>1. EmptyPage \in [ws : Room, lo : Int, hi : Int, live : BOOLEAN] /\ InLog(log, EmptyPage)
    BY EmptyPageOK
  <2> QED BY <2>1
<1>4. client' = [client EXCEPT !.phase = "down", !.page = p]
  BY <1>2, <1>3
<1>5. client' \in Memory
  BY <1>4, Facts DEF Memory
<1>6. client'.phase = "down" /\ client'.page = p /\ client'.acked = client.acked
  BY <1>4, Facts DEF Memory
<1>7. MemoryOK(client', log)
  BY <1>3, <1>6, Facts DEF MemoryOK
<1>8. PICK d : d = client'
  OBVIOUS
<1>9. Closed(<<>>) \in Connection /\ NetOK(Closed(<<>>), d, log, pending, commands)
  <2>1. UnsentOK(net, pending, commands) /\ pending \in SUBSET pending
    BY Facts
  <2> QED BY <1>6, <1>8, <2>1, ClosedOK
<1> QED BY <1>2, <1>5, <1>7, <1>8, <1>9, Facts, ClientOK

-----------------------------------------------------------------------------
(* Frames the client takes off the wire.                                      *)

\* The first frame is taken: nothing else on the connection changes.
LEMMA PopOK ==
    ASSUME Inv, net.out # <<>>, NEW n, n = [net EXCEPT !.out = Tail(@)], NEW Q \in SUBSET pending
    PROVE  /\ n \in Connection /\ WireOK(n, log) /\ UnsentOK(n, Q, commands) /\ PendingOK(n, Q)
           /\ n.up = net.up /\ n.member = net.member /\ n.sub = net.sub /\ n.req = net.req
           /\ Len(n.out) = Len(net.out) - 1 /\ Len(net.out) \in Nat /\ 1 \in 1 .. Len(net.out)
           /\ (\A i \in 1 .. Len(n.out) : i + 1 \in 1 .. Len(net.out) /\ n.out[i] = net.out[i + 1])
           /\ Head(net.out) = net.out[1] /\ Head(net.out) \in Frame /\ FrameOK(Head(net.out), log)
<1>1. net \in Connection /\ net.out \in Seq(Frame) /\ net.req \in Seq(Request) /\ WireOK(net, log)
      /\ UnsentOK(net, pending, commands) /\ PendingOK(net, pending)
  BY Facts DEF Connection
<1>2. Tail(net.out) \in Seq(Frame)
  BY <1>1
<1>3. PICK s \in Seq(Frame) : s = Tail(net.out)
  BY <1>2
<1>4. /\ Len(s) = Len(net.out) - 1 /\ Len(net.out) \in Nat /\ 1 \in 1 .. Len(net.out)
      /\ (\A i \in 1 .. Len(s) : i + 1 \in 1 .. Len(net.out) /\ s[i] = net.out[i + 1])
      /\ Head(net.out) = net.out[1] /\ Head(net.out) \in Frame
  BY <1>1, <1>3
<1>5. n = [net EXCEPT !.out = s]
  BY <1>3
<1>6. n \in Connection
  BY <1>1, <1>5 DEF Connection
<1>7. n.out = s /\ n.up = net.up /\ n.member = net.member /\ n.sub = net.sub /\ n.req = net.req
  BY <1>1, <1>5 DEF Connection
<1>8. WireOK(n, log)
  BY <1>1, <1>4, <1>7 DEF WireOK
<1>9. UnsentOK(n, Q, commands)
  BY <1>1, <1>4, <1>7 DEF UnsentOK
<1>10. PendingOK(n, Q)
  BY <1>1, <1>4, <1>7 DEF PendingOK
<1>11. FrameOK(Head(net.out), log)
  BY <1>1, <1>4 DEF WireOK
<1> QED BY <1>4, <1>6, <1>7, <1>8, <1>9, <1>10, <1>11

\* A cursor of the memory is set within the log.
LEMMA SetAckedOK ==
    ASSUME NEW m \in Memory, NEW l, MemoryOK(m, l), NEW w \in Workspace, NEW a \in Int, a <= l[w],
           NEW r, r = [m EXCEPT !.acked[w] = a]
    PROVE  /\ r \in Memory /\ MemoryOK(r, l)
           /\ r.phase = m.phase /\ r.desired = m.desired /\ r.page = m.page /\ r.subscribed = m.subscribed
           /\ r.highest = m.highest
<1>1. m.acked \in [Workspace -> Int]
  BY DEF Memory
<1>2. [m.acked EXCEPT ![w] = a] \in [Workspace -> Int]
  BY <1>1
<1>3. PICK acked \in [Workspace -> Int] : acked = [m.acked EXCEPT ![w] = a]
  BY <1>2
<1>4. acked[w] = a /\ \A x \in Workspace : x # w => acked[x] = m.acked[x]
  BY <1>1, <1>3
<1>5. r = [m EXCEPT !.acked = acked]
  BY <1>3 DEF Memory
<1>6. r \in Memory
  BY <1>5 DEF Memory
<1>7. r.acked = acked /\ r.phase = m.phase /\ r.desired = m.desired /\ r.page = m.page
      /\ r.subscribed = m.subscribed /\ r.highest = m.highest
  BY <1>5 DEF Memory
<1>8. MemoryOK(r, l)
  BY <1>4, <1>7 DEF MemoryOK
<1> QED BY <1>6, <1>7, <1>8

\* An event is remembered as the highest one handed on.
LEMMA SetHighestOK ==
    ASSUME NEW m \in Memory, NEW l, MemoryOK(m, l), NEW w \in Workspace, NEW a \in Int,
           NEW r, r = [m EXCEPT !.highest[w] = a]
    PROVE  /\ r \in Memory /\ MemoryOK(r, l)
           /\ r.phase = m.phase /\ r.desired = m.desired /\ r.page = m.page /\ r.subscribed = m.subscribed
<1>1. m.highest \in [Workspace -> Int]
  BY DEF Memory
<1>2. [m.highest EXCEPT ![w] = a] \in [Workspace -> Int]
  BY <1>1
<1>3. PICK highest \in [Workspace -> Int] : highest = [m.highest EXCEPT ![w] = a]
  BY <1>2
<1>5. r = [m EXCEPT !.highest = highest]
  BY <1>3 DEF Memory
<1>6. r \in Memory
  BY <1>5 DEF Memory
<1>7. r.acked = m.acked /\ r.phase = m.phase /\ r.desired = m.desired /\ r.page = m.page
      /\ r.subscribed = m.subscribed
  BY <1>5 DEF Memory
<1>8. MemoryOK(r, l)
  BY <1>7 DEF MemoryOK
<1> QED BY <1>6, <1>7, <1>8

\* The memory with a room to restore and a subscription.
InRoom(m, d, s) == [m EXCEPT !.desired = d, !.subscribed = s]

\* No cursor depends on them.
LEMMA SetRoomOK ==
    ASSUME NEW m \in Memory, NEW l, MemoryOK(m, l), NEW d \in Room, NEW s \in Room,
           NEW r, r = InRoom(m, d, s)
    PROVE  /\ r \in Memory /\ MemoryOK(r, l)
           /\ r.phase = m.phase /\ r.desired = d /\ r.page = m.page /\ r.subscribed = s /\ r.acked = m.acked
           /\ r.highest = m.highest
<1>1. r \in Memory
  BY DEF Memory, InRoom
<1>2. r.acked = m.acked /\ r.phase = m.phase /\ r.desired = d /\ r.page = m.page
      /\ r.subscribed = s /\ r.highest = m.highest
  BY DEF Memory, InRoom
<1>3. MemoryOK(r, l)
  BY <1>2 DEF MemoryOK
<1> QED BY <1>1, <1>2, <1>3

\* The first cursor of a room is the one the router announces.
LEMMA EntryOK ==
    ASSUME NEW m \in Memory, NEW l, MemoryOK(m, l), NEW w \in Workspace, NEW k \in Int, k <= l[w],
           NEW r, r = EntryOrInsert(m, w, k)
    PROVE  /\ r \in Memory /\ MemoryOK(r, l)
           /\ r.phase = m.phase /\ r.desired = m.desired /\ r.page = m.page /\ r.subscribed = m.subscribed
<1>1. m.acked[w] \in Int /\ m.acked[w] <= l[w]
  BY DEF Memory, MemoryOK
<1>2. PICK a \in Int : a = (IF m.acked[w] = Absent THEN k ELSE m.acked[w]) /\ a <= l[w]
  BY <1>1
<1>3. r = [m EXCEPT !.acked[w] = a]
  BY <1>2 DEF EntryOrInsert, Memory
<1> QED BY <1>2, <1>3, SetAckedOK

\* membership_changed.
LEMMA MembershipOK ==
    ASSUME NEW m \in Memory, NEW l, MemoryOK(m, l), NEW w \in Room, NEW k \in Int, w # None => k <= l[w],
           NEW r, r = MembershipChanged(m, w, k)
    PROVE  r \in Memory /\ MemoryOK(r, l) /\ r.phase = m.phase /\ r.desired = w /\ r.page = m.page
<1>1. PICK s \in Room : s = IF m.subscribed = w THEN m.subscribed ELSE None
  BY DEF Memory, Room
<1>2. PICK forgotten : forgotten = InRoom(m, w, s)
  OBVIOUS
<1>3. forgotten \in Memory /\ MemoryOK(forgotten, l) /\ forgotten.phase = m.phase /\ forgotten.desired = w
      /\ forgotten.page = m.page
  BY <1>2, SetRoomOK
<1>4. forgotten = [m EXCEPT !.subscribed = IF @ = w THEN @ ELSE None, !.desired = w]
  BY <1>1, <1>2 DEF Memory, InRoom
<1>5. r = IF w = None THEN forgotten ELSE EntryOrInsert(forgotten, w, k)
  BY <1>4 DEF MembershipChanged
<1>6. CASE w = None
  BY <1>3, <1>5, <1>6
<1>7. CASE w # None
  <2>1. w \in Workspace /\ r = EntryOrInsert(forgotten, w, k) /\ k <= l[w]
    BY <1>5, <1>7 DEF Room
  <2> QED BY <1>3, <2>1, EntryOK
<1> QED BY <1>6, <1>7

\* A frame is taken and the connection then fits the memory.
LEMMA TakenOK ==
    ASSUME Inv, net.out # <<>>, net' = [net EXCEPT !.out = Tail(@)], UNCHANGED <<log, commands, ui>>,
           client' \in Memory, MemoryOK(client', log), RestoreOK(net', client', log),
           pending' \in SUBSET pending, events' \in Seq(Notice), EventsOK(events', log),
           replies' \in SUBSET Value, \A v \in replies' : InLog(log, v)
    PROVE  Inv'
<1>1. PICK n, Q : n = net' /\ Q = pending'
  OBVIOUS
<1>2. n \in Connection /\ WireOK(n, log) /\ UnsentOK(n, Q, commands) /\ PendingOK(n, Q)
  BY <1>1, PopOK
<1>3. NetOK(net', client', log, pending', commands)
  BY <1>1, <1>2 DEF NetOK
<1>4. pending' \in SUBSET PendingCall /\ commands' = commands /\ CommandsOK(commands) /\ QueueOK(commands, log)
  BY Facts
<1> QED BY <1>1, <1>2, <1>3, <1>4, ClientOK

\* An event or a notice is handed to the consumer.
LEMMA HandOnOK ==
    ASSUME Inv, NEW f \in Frame, FrameOK(f, log), NEW ev, ev = Append(events, Item(f))
    PROVE  ev \in Seq(Notice) /\ EventsOK(ev, log)
<1>1. events \in Seq(Notice) /\ EventsOK(events, log) /\ log \in [Workspace -> Nat]
  BY Facts
<1>2. Item(f) \in Notice
  BY DEF Item, Notice, Frame, Room
<1>3. PICK e \in Notice : e = Item(f)
  BY <1>2
<1>4. NoticeOK(e, log)
  <2>1. CASE f.t = "event"
    <3>1. e.ws = f.ws /\ e.seq = f.lo /\ f.ws # None
      BY <1>3, <2>1 DEF Item, FrameOK
    <3>2. f.lo \in Int /\ f.hi \in Int /\ f.ws \in Workspace
      BY <3>1 DEF Frame, Room
    <3>3. f.lo <= f.hi /\ f.hi <= log[f.ws] /\ log[f.ws] \in Int
      BY <1>1, <3>1, <3>2 DEF FrameOK, InLog
    <3> QED BY <3>1, <3>2, <3>3 DEF NoticeOK
  <2>2. CASE f.t # "event"
    BY <1>3, <2>2 DEF Item, NoticeOK
  <2> QED BY <2>1, <2>2
<1>5. Append(events, e) \in Seq(Notice)
  BY <1>1
<1>6. PICK s \in Seq(Notice) : s = Append(events, e)
  BY <1>5
<1>7. \A i \in 1 .. Len(s) : (i \in 1 .. Len(events) /\ s[i] = events[i]) \/ s[i] = e
  BY <1>1, <1>6
<1>8. EventsOK(s, log)
  BY <1>1, <1>4, <1>7 DEF EventsOK
<1> QED BY <1>3, <1>6, <1>8

\* The highest event is recorded.
LEMMA RememberOK ==
    ASSUME NEW m \in Memory, NEW l, MemoryOK(m, l), NEW f \in Frame, FrameOK(f, l), NEW r, r = Remember(m, f)
    PROVE  /\ r \in Memory /\ MemoryOK(r, l)
           /\ r.phase = m.phase /\ r.desired = m.desired /\ r.page = m.page
<1>1. CASE f.t = "event"
  <2>1. f.ws \in Workspace /\ f.lo \in Int
    BY <1>1 DEF FrameOK, Frame, Room
  <2>2. PICK w \in Workspace, k \in Int : w = f.ws /\ k = f.lo
    BY <2>1
  <2>3. r = [m EXCEPT !.highest[w] = k]
    BY <1>1, <2>2 DEF Remember
  <2> QED BY <2>3, SetHighestOK
<1>2. CASE f.t # "event"
  BY <1>2 DEF Remember
<1> QED BY <1>1, <1>2

\* enqueue_event of the pump, for any memory the frame has left.
LEMMA EnqueueOrDisconnectOK ==
    ASSUME Inv, net.out # <<>>, NEW m \in Memory, MemoryOK(m, log), m.phase = "up",
           EnqueueOrDisconnect(m, Head(net.out)), UNCHANGED <<log, commands, ui>>
    PROVE  Inv'
<1>1. PICK f : f = Head(net.out)
  OBVIOUS
<1>2. f \in Frame /\ FrameOK(f, log)
  <2>1. PICK n : n = [net EXCEPT !.out = Tail(@)]
    OBVIOUS
  <2>2. pending \in SUBSET pending
    OBVIOUS
  <2> QED BY <1>1, <2>1, <2>2, PopOK
<1>3. ASSUME client' \in Memory, MemoryOK(client', log), client'.phase = "up", net' = [net EXCEPT !.out = Tail(@)],
             events' \in Seq(Notice), EventsOK(events', log), UNCHANGED <<pending, replies>>
      PROVE  Inv'
  <2>1. RestoreOK(net', client', log)
    BY <1>3 DEF RestoreOK
  <2>2. pending' \in SUBSET pending /\ replies' \in SUBSET Value /\ \A v \in replies' : InLog(log, v)
    BY <1>3, Facts
  <2> QED BY <1>3, <2>1, <2>2, TakenOK
<1>4. CASE AlreadyEnqueued(m, f)
  <2>1. client' = m /\ net' = [net EXCEPT !.out = Tail(@)] /\ UNCHANGED <<events, pending, replies>>
    BY <1>1, <1>4 DEF EnqueueOrDisconnect
  <2> QED BY <1>3, <2>1, Facts
<1>5. CASE ~ AlreadyEnqueued(m, f) /\ Len(events) >= EventCap
  <2>1. PumpEnds(m) /\ events' = events
    BY <1>1, <1>5 DEF EnqueueOrDisconnect
  <2>2. CommandsOK(commands') /\ QueueOK(commands', log) /\ UnsentOK(net, pending, commands')
    BY Facts
  <2> QED BY <2>1, <2>2, PumpEndsOK
<1>6. CASE ~ AlreadyEnqueued(m, f) /\ ~ Len(events) >= EventCap
  <2>1. client' = Remember(m, f) /\ net' = [net EXCEPT !.out = Tail(@)] /\ UNCHANGED <<pending, replies>>
        /\ events' = Append(events, Item(f))
    BY <1>1, <1>6 DEF EnqueueOrDisconnect
  <2>2. client' \in Memory /\ MemoryOK(client', log) /\ client'.phase = "up"
    BY <1>2, <2>1, RememberOK
  <2>3. events' \in Seq(Notice) /\ EventsOK(events', log)
    BY <1>2, <2>1, HandOnOK
  <2> QED BY <1>3, <2>1, <2>2, <2>3
<1> QED BY <1>4, <1>5, <1>6

\* What an answer does to the memory.
LEMMA ResponseMemoryOK ==
    ASSUME Inv, NEW f \in Frame, FrameOK(f, log), NEW r, r = ResponseMemory(f)
    PROVE  r \in Memory /\ MemoryOK(r, log) /\ r.phase = client.phase
<1>1. client \in Memory /\ MemoryOK(client, log) /\ client.subscribed \in Room /\ None \in Room
      /\ log \in [Workspace -> Nat]
  BY Facts DEF Memory, Room
<1>2. CASE f.t = "joined"
  <2>1. f.ws \in Workspace /\ f.ws \in Room /\ f.lo \in Int /\ f.hi \in Int /\ f.ws # None
    BY <1>2 DEF FrameOK, Frame, Room
  <2>2. f.lo <= f.hi /\ f.hi <= log[f.ws] /\ log[f.ws] \in Int
    BY <1>1, <2>1 DEF FrameOK, InLog
  <2>3. f.lo <= log[f.ws]
    BY <2>1, <2>2
  <2>4. PICK w \in Workspace, k \in Int : w = f.ws /\ k = f.lo /\ k <= log[w] /\ w \in Room
    BY <2>1, <2>3
  <2>5. PICK s \in Room : s = client.subscribed
    BY <1>1
  <2>51. PICK d \in Room : d = w
    BY <2>4
  <2>6. PICK m : m = InRoom(client, d, s)
    OBVIOUS
  <2>7. m \in Memory /\ MemoryOK(m, log) /\ m.phase = client.phase
    <3>1. PICK c \in Memory : c = client /\ MemoryOK(c, log)
      BY <1>1
    <3>2. m = InRoom(c, d, s) /\ MemoryOK(c, log)
      BY <2>6, <3>1
    <3>3. m \in Memory /\ MemoryOK(m, log) /\ m.phase = c.phase
      BY <3>2, SetRoomOK
    <3> QED BY <3>1, <3>3
  <2>8. m = [client EXCEPT !.desired = f.ws]
    BY <1>1, <2>4, <2>5, <2>51, <2>6 DEF InRoom, Memory
  <2>9. r = EntryOrInsert(m, w, k)
    BY <1>2, <2>4, <2>8 DEF ResponseMemory
  <2> QED BY <2>4, <2>7, <2>9, EntryOK
<1>3. CASE f.t = "left"
  <2>1. PICK none \in Room : none = None
    BY <1>1
  <2>2. r = InRoom(client, none, none)
    BY <1>3, <2>1 DEF ResponseMemory, InRoom
  <2> QED BY <1>1, <2>2, SetRoomOK
<1>4. CASE f.t \notin {"joined", "left"}
  BY <1>1, <1>4 DEF ResponseMemory
<1> QED BY <1>2, <1>3, <1>4

\* What the call of an answer does to the memory: its page begins at the call's cursor.
LEMMA CallEffectOK ==
    ASSUME NEW m \in Memory, NEW l \in [Workspace -> Nat], MemoryOK(m, l), NEW f \in Frame, FrameOK(f, l),
           NEW p \in PendingCall, f.t = "page" => f.lo = p.after, NEW r, r = CallEffect(m, p, f)
    PROVE  r \in Memory /\ MemoryOK(r, l) /\ r.phase = m.phase
<1>1. None \in Room /\ m.subscribed \in Room /\ m.desired \in Room
  BY DEF Room, Memory
<1>2. CASE p.latest /\ p.ws = m.desired /\ p.ws = f.ws /\ p.kind = "subscribe" /\ f.t = "page"
  <2>1. f.ws \in Workspace /\ f.ws \in Room /\ f.lo \in Int /\ f.hi \in Int /\ f.ws # None
    BY <1>2 DEF FrameOK, Frame, Room
  <2>2. f.lo <= f.hi /\ f.hi <= l[f.ws] /\ l[f.ws] \in Int
    BY <2>1 DEF FrameOK, InLog
  <2>3. PICK w \in Workspace, k \in Int, z \in Int : w = f.ws /\ k = p.after /\ k <= l[w] /\ z = 0
    BY <1>2, <2>1, <2>2
  <2>4. PICK s \in Room, d \in Room : s = (IF f.live THEN f.ws ELSE m.subscribed) /\ d = m.desired
    BY <1>1, <2>1
  <2>5. PICK m1 : m1 = [m EXCEPT !.acked[w] = k]
    OBVIOUS
  <2>6. m1 \in Memory /\ MemoryOK(m1, l) /\ m1.phase = m.phase /\ m1.desired = m.desired
        /\ m1.subscribed = m.subscribed
    BY <2>3, <2>5, SetAckedOK
  <2>7. PICK m2 : m2 = [m1 EXCEPT !.highest[w] = z]
    OBVIOUS
  <2>8. m2 \in Memory /\ MemoryOK(m2, l) /\ m2.phase = m.phase /\ m2.desired = m.desired
        /\ m2.subscribed = m.subscribed
    BY <2>6, <2>7, SetHighestOK
  <2>9. PICK m3 : m3 = InRoom(m2, d, s)
    OBVIOUS
  <2>10. m3 \in Memory /\ MemoryOK(m3, l) /\ m3.phase = m.phase
    BY <2>8, <2>9, SetRoomOK
  <2>11. r = [m EXCEPT !.acked[w] = k, !.highest[w] = z, !.subscribed = s]
    BY <1>2, <2>3, <2>4 DEF CallEffect, Memory
  <2>12. m2 = [m EXCEPT !.acked[w] = k, !.highest[w] = z]
    BY <2>5, <2>7 DEF Memory
  <2>13. m3 = [m2 EXCEPT !.subscribed = s]
    BY <2>4, <2>8, <2>9 DEF InRoom, Memory
  <2>14. r = m3
    BY <2>11, <2>12, <2>13 DEF Memory
  <2> QED BY <2>10, <2>14
<1>3. CASE r = [m EXCEPT !.subscribed = None]
  <2>1. PICK s \in Room, d \in Room : s = None /\ d = m.desired
    BY <1>1
  <2>2. r = InRoom(m, d, s)
    BY <1>3, <2>1 DEF InRoom, Memory
  <2> QED BY <2>2, SetRoomOK
<1>4. CASE r = m
  BY <1>4
<1> QED BY <1>2, <1>3, <1>4 DEF CallEffect

\* An answer reaches its caller within the log.
LEMMA AnsweredOK ==
    ASSUME NEW f \in Frame, NEW l, FrameOK(f, l), f.id \in Id
    PROVE  Answered(f) \in Value /\ InLog(l, Answered(f))
<1>1. Answered(f) \in Value
  BY DEF Answered, Value, Frame
<1> QED BY <1>1 DEF Answered, FrameOK, InLog

\* The pump takes an answer.
LEMMA PumpResponseOK ==
    ASSUME Inv, client.phase = "up", net.out # <<>>, PumpResponse(Head(net.out)), UNCHANGED <<log, commands, ui>>
    PROVE  Inv'
<1>1. PICK f : f = Head(net.out)
  OBVIOUS
<1>2. f \in Frame /\ FrameOK(f, log) /\ f = net.out[1] /\ 1 \in 1 .. Len(net.out)
  <2>1. PICK n : n = [net EXCEPT !.out = Tail(@)]
    OBVIOUS
  <2>2. pending \in SUBSET pending
    OBVIOUS
  <2> QED BY <1>1, <2>1, <2>2, PopOK
<1>3. PICK call, m : call = {p \in pending : p.id = f.id} /\ m = ResponseMemory(f)
  OBVIOUS
<1>4. m \in Memory /\ MemoryOK(m, log) /\ m.phase = "up"
  BY <1>2, <1>3, ResponseMemoryOK
<1>5. client' \in Memory /\ MemoryOK(client', log) /\ client'.phase = "up"
  <2>1. CASE call = {}
    BY <1>1, <1>3, <1>4, <2>1 DEF PumpResponse
  <2>2. CASE call # {}
    <3>1. PICK p : p = CHOOSE x \in call : TRUE
      OBVIOUS
    <3>2. p \in call
      BY <2>2, <3>1
    <3>3. p \in PendingCall /\ p \in pending /\ p.id = f.id
      BY <1>3, <3>2, Facts
    <3>4. f.t = "page" => f.lo = p.after
      BY <1>2, <3>3, Facts DEF PendingOK
    <3>5. client' = CallEffect(m, p, f)
      BY <1>1, <1>3, <2>2, <3>1 DEF PumpResponse
    <3>6. log \in [Workspace -> Nat]
      BY Facts
    <3> QED BY <1>2, <1>4, <3>3, <3>4, <3>5, <3>6, CallEffectOK
  <2> QED BY <2>1, <2>2
<1>6. replies' \in SUBSET Value /\ \A v \in replies' : InLog(log, v)
  <2>1. PICK values : values = IF call = {} THEN {} ELSE {Answered(f)}
    OBVIOUS
  <2>2. Deliver(values)
    BY <1>1, <1>3, <2>1 DEF PumpResponse
  <2>3. \A v \in values : v \in Value /\ InLog(log, v)
    <3>1. CASE call = {}
      BY <2>1, <3>1
    <3>2. CASE call # {}
      <4>1. f.id \in Id
        BY <1>3, <3>2, Facts DEF PendingCall
      <4> QED BY <1>2, <2>1, <3>2, <4>1, AnsweredOK
    <3> QED BY <3>1, <3>2
  <2> QED BY <2>2, <2>3, DeliverOK
<1>7. pending' = pending \ call /\ net' = [net EXCEPT !.out = Tail(@)] /\ events' = events
  BY <1>1, <1>3 DEF PumpResponse
<1>8. pending' \in SUBSET pending /\ events' \in Seq(Notice) /\ EventsOK(events', log)
  BY <1>7, Facts
<1>9. RestoreOK(net', client', log)
  BY <1>5 DEF RestoreOK
<1> QED BY <1>5, <1>6, <1>7, <1>8, <1>9, TakenOK

\* The pump takes a frame.
LEMMA PumpIncomingOK == Inv /\ PumpIncoming /\ UNCHANGED ui => Inv'
<1> SUFFICES ASSUME Inv, PumpIncoming, UNCHANGED ui PROVE Inv'
  OBVIOUS
<1>1. client.phase = "up" /\ net.out # <<>> /\ UNCHANGED <<log, commands, ui>>
  BY DEF PumpIncoming
<1>2. PICK f : f = Head(net.out)
  OBVIOUS
<1>3. f \in Frame /\ FrameOK(f, log)
  <2>1. PICK n : n = [net EXCEPT !.out = Tail(@)]
    OBVIOUS
  <2>2. pending \in SUBSET pending
    OBVIOUS
  <2> QED BY <1>1, <1>2, <2>1, <2>2, PopOK
<1>4. client \in Memory /\ MemoryOK(client, log) /\ log \in [Workspace -> Nat]
  BY Facts
<1>5. CASE EnqueueOrDisconnect(client, f)
  BY <1>1, <1>2, <1>4, <1>5, EnqueueOrDisconnectOK
<1>6. CASE EnqueueOrDisconnect(MembershipChanged(client, f.ws, f.lo), f)
  <2>1. f.ws \in Room /\ f.lo \in Int /\ f.hi \in Int
    BY <1>3 DEF Frame
  <2>2. PICK w \in Room, k \in Int : w = f.ws /\ k = f.lo
    BY <2>1
  <2>3. w # None => k <= log[w]
    <3>1. w # None => k <= f.hi /\ f.hi <= log[w] /\ log[w] \in Int
      BY <1>3, <1>4, <2>2 DEF FrameOK, InLog, Room
    <3> QED BY <2>1, <3>1
  <2>4. PICK m : m = MembershipChanged(client, w, k)
    OBVIOUS
  <2>5. m \in Memory /\ MemoryOK(m, log) /\ m.phase = "up"
    BY <1>1, <1>4, <2>3, <2>4, MembershipOK
  <2>6. EnqueueOrDisconnect(m, Head(net.out))
    BY <1>2, <1>6, <2>2, <2>4
  <2> QED BY <1>1, <2>5, <2>6, EnqueueOrDisconnectOK
<1>7. CASE PumpResponse(f)
  BY <1>1, <1>2, <1>7, PumpResponseOK
<1> QED BY <1>2, <1>5, <1>6, <1>7 DEF PumpIncoming

-----------------------------------------------------------------------------
(* The restoring client.                                                      *)

\* A notice is taken off a connection whose page has not come.
LEMMA NoticeTaken ==
    ASSUME NEW n \in Connection, NEW k \in Connection, NEW m, NEW l, PageShape(k, m, l), Len(k.out) \in Nat,
           n.up = k.up, n.member = k.member, n.sub = k.sub, n.req = k.req,
           Len(n.out) = Len(k.out) - 1, 1 \in 1 .. Len(k.out),
           \A i \in 1 .. Len(n.out) : i + 1 \in 1 .. Len(k.out) /\ n.out[i] = k.out[i + 1],
           k.out[1].t = "changed"
    PROVE  PageShape(n, m, l)
<1>1. \A i \in 1 .. Len(k.out) : PageFrame(k, i) /\ (k.out[i].t = "changed" => k.out[i].ws = m.desired)
  BY DEF PageShape
<1>2. \A j \in 1 .. Len(k.out) : j # 1 => j - 1 \in 1 .. Len(n.out) /\ n.out[j - 1] = k.out[j]
  <2>1. ASSUME NEW j \in 1 .. Len(k.out), j # 1 PROVE j - 1 \in 1 .. Len(n.out) /\ n.out[j - 1] = k.out[j]
    <3>1. j - 1 \in 1 .. Len(n.out) /\ (j - 1) + 1 = j
      BY <2>1
    <3> QED BY <3>1
  <2> QED BY <2>1
<1>3. ASSUME NEW i \in 1 .. Len(n.out) PROVE PageFrame(n, i) /\ (n.out[i].t = "changed" => n.out[i].ws = m.desired)
  <2>1. i + 1 \in 1 .. Len(k.out) /\ n.out[i] = k.out[i + 1]
    OBVIOUS
  <2>2. PICK h \in 1 .. Len(k.out) : h = i + 1 /\ n.out[i] = k.out[h]
    BY <2>1
  <2>3. PageFrame(k, h) /\ (k.out[h].t = "changed" => k.out[h].ws = m.desired)
    BY <1>1
  <2>4. n.out[i].t \in {"changed", "page"} => \A j \in 1 .. i - 1 : n.out[j].t = "changed"
    <3>1. ASSUME n.out[i].t \in {"changed", "page"}, NEW j \in 1 .. i - 1 PROVE n.out[j].t = "changed"
      <4>1. j + 1 \in 1 .. h - 1 /\ j \in 1 .. Len(n.out)
        BY <2>2
      <4>2. k.out[j + 1].t = "changed"
        BY <2>2, <2>3, <3>1, <4>1 DEF PageFrame
      <4> QED BY <4>1, <4>2
    <3> QED BY <3>1
  <2>5. n.out[i].t = "event" => \E j \in 1 .. i - 1 : n.out[j].t = "page"
    <3>1. HAVE n.out[i].t = "event"
    <3>2. PICK j \in 1 .. h - 1 : k.out[j].t = "page"
      BY <2>2, <2>3, <3>1 DEF PageFrame
    <3>3. j # 1 /\ j \in 1 .. Len(k.out)
      BY <2>2, <3>2
    <3>4. j - 1 \in 1 .. i - 1 /\ n.out[j - 1].t = "page"
      BY <1>2, <2>2, <3>2, <3>3
    <3> QED BY <3>4
  <2>6. n.out[i].t = "page" /\ ~ n.out[i].live => i = Len(n.out) /\ ~ n.sub
    BY <2>2, <2>3 DEF PageFrame
  <2>7. n.out[i].t \in {"changed", "page", "event"}
    BY <2>2, <2>3 DEF PageFrame
  <2> QED BY <2>2, <2>3, <2>4, <2>5, <2>6, <2>7 DEF PageFrame
<1>4. n.sub => \E i \in 1 .. Len(n.out) : n.out[i].t = "page"
  <2>1. HAVE n.sub
  <2>2. PICK j \in 1 .. Len(k.out) : k.out[j].t = "page"
    BY <2>1 DEF PageShape
  <2>3. j # 1
    BY <2>2
  <2> QED BY <1>2, <2>2, <2>3
<1>5. (\A i \in 1 .. Len(k.out) : k.out[i].t = "changed") => \A i \in 1 .. Len(n.out) : n.out[i].t = "changed"
  OBVIOUS
<1>6. m.desired # None /\ (n.up => n.member = m.desired)
  BY DEF PageShape
<1>7. n.up /\ n.req # <<>> =>
        /\ n.req = <<RestoreCall("subscribe", m.desired, n.req[1].after)>> /\ n.req[1].after <= l[m.desired]
        /\ ~ n.sub /\ \A i \in 1 .. Len(n.out) : n.out[i].t = "changed"
  BY <1>5 DEF PageShape
<1> QED BY <1>3, <1>4, <1>6, <1>7, Zenon DEF PageShape

\* A membership notice during restoration names the room that is being restored.
LEMMA RestoreNoticeOK == Inv /\ RestoreNotice /\ UNCHANGED ui => Inv'
<1> SUFFICES ASSUME Inv, RestoreNotice, UNCHANGED ui PROVE Inv'
  OBVIOUS
<1>1. net.out # <<>> /\ UNCHANGED <<log, pending, commands, replies, ui>> /\ net' = [net EXCEPT !.out = Tail(@)]
      /\ client.phase \in {"joining", "restoring"}
  BY DEF RestoreNotice
<1>2. PICK n, Q : n = net' /\ Q = pending
  OBVIOUS
<1>3. /\ n \in Connection /\ n.up = net.up /\ n.member = net.member /\ n.sub = net.sub /\ n.req = net.req
      /\ Len(n.out) = Len(net.out) - 1 /\ Len(net.out) \in Nat /\ 1 \in 1 .. Len(net.out)
      /\ (\A i \in 1 .. Len(n.out) : i + 1 \in 1 .. Len(net.out) /\ n.out[i] = net.out[i + 1])
      /\ Head(net.out) = net.out[1] /\ Head(net.out) \in Frame /\ FrameOK(Head(net.out), log)
  BY <1>1, <1>2, PopOK
<1>4. PICK f \in Frame : f = net.out[1] /\ f = Head(net.out) /\ FrameOK(f, log)
  BY <1>3
<1>5. f.t = "changed" /\ client' = MembershipChanged(client, f.ws, f.lo) /\ events' = Append(events, Item(f))
  BY <1>4 DEF RestoreNotice
<1>6. client.phase = "restoring"
  <2>1. client.phase = "joining" => f.t = "joined"
    BY <1>3, <1>4, Facts DEF RestoreOK, JoinShape
  <2> QED BY <1>1, <1>5, <2>1
<1>7. PageShape(net, client, log)
  BY <1>6, Facts DEF RestoreOK
<1>8. f.ws = client.desired
  BY <1>3, <1>4, <1>5, <1>7 DEF PageShape
<1>9. PageShape(n, client, log)
  <2>1. net \in Connection /\ net.out[1].t = "changed"
    BY <1>4, <1>5, Facts
  <2> QED BY <1>3, <1>7, <2>1, NoticeTaken
<1>10. client' \in Memory /\ MemoryOK(client', log) /\ client'.phase = client.phase
       /\ client'.desired = client.desired /\ client'.page = client.page
  <2>1. f.ws \in Room /\ f.lo \in Int /\ f.hi \in Int /\ client \in Memory /\ MemoryOK(client, log)
        /\ log \in [Workspace -> Nat]
    BY Facts DEF Frame
  <2>2. PICK w \in Room, k \in Int : w = f.ws /\ k = f.lo
    BY <2>1
  <2>3. w # None => k <= log[w]
    <3>1. w # None => k <= f.hi /\ f.hi <= log[w] /\ log[w] \in Int
      BY <1>4, <2>1, <2>2 DEF FrameOK, InLog, Room
    <3> QED BY <2>1, <3>1
  <2>4. PICK m : m = MembershipChanged(client, w, k)
    OBVIOUS
  <2>5. m \in Memory /\ MemoryOK(m, log) /\ m.phase = client.phase /\ m.desired = w /\ m.page = client.page
    BY <2>1, <2>3, <2>4, MembershipOK
  <2> QED BY <1>5, <1>8, <2>2, <2>4, <2>5
<1>11. RestoreOK(net', client', log)
  <2>1. RestoreOK(n, client, log)
    BY <1>6, <1>9 DEF RestoreOK
  <2>2. PICK d : d = client'
    OBVIOUS
  <2>3. RestoreOK(n, d, log)
    BY <1>10, <2>1, <2>2, SamePhase
  <2> QED BY <1>2, <2>2, <2>3
<1>12. events' \in Seq(Notice) /\ EventsOK(events', log)
  BY <1>4, <1>5, HandOnOK
<1>13. pending' \in SUBSET pending /\ replies' \in SUBSET Value /\ \A v \in replies' : InLog(log, v)
  BY <1>1, Facts
<1> QED BY <1>1, <1>10, <1>11, <1>12, <1>13, TakenOK

\* The restoring connection asks for the next page, from a cursor within the log.
LEMMA ResubscribeOK ==
    ASSUME Inv, NEW n \in Connection, WireOK(n, log), UnsentOK(n, pending, commands), PendingOK(n, pending),
           NEW w \in Workspace, NEW a \in Int, a <= log[w], NEW m \in Memory, m.desired = w,
           m.phase = "restoring", ~ n.sub, n.up => n.req = <<>> /\ n.member = w,
           \A i \in 1 .. Len(n.out) : n.out[i].t = "changed" /\ n.out[i].ws = w,
           NEW k, k = Resubscribe(n, w, a)
    PROVE  k \in Connection /\ NetOK(k, m, log, pending, commands)
<1>1. PICK c : c = RestoreCall("subscribe", w, a)
  OBVIOUS
<1>2. c \in Request /\ c.id = RestoreId /\ c.kind = "subscribe" /\ c.after = a
  <2>1. w \in Room /\ RestoreId \in Id \cup {RestoreId} /\ "subscribe" \in CallKind
    BY DEF Room, CallKind
  <2> QED BY <1>1, <2>1 DEF RestoreCall, Request
<1>3. n.req \in Seq(Request) /\ n.out \in Seq(Frame)
  BY DEF Connection
<1>4. Append(n.req, c) \in Seq(Request)
  BY <1>2, <1>3
<1>5. PICK s \in Seq(Request) : s = IF n.up THEN Append(n.req, c) ELSE n.req
  BY <1>3, <1>4
<1>6. \A i \in 1 .. Len(s) : (i \in 1 .. Len(n.req) /\ s[i] = n.req[i]) \/ s[i] = c
  <2>1. CASE n.up
    BY <1>2, <1>3, <1>5, <2>1
  <2>2. CASE ~ n.up
    BY <1>5, <2>2
  <2> QED BY <2>1, <2>2
<1>7. k = [n EXCEPT !.req = s]
  BY <1>1, <1>5 DEF Resubscribe, Connection
<1>8. k \in Connection
  BY <1>7 DEF Connection
<1>9. k.req = s /\ k.out = n.out /\ k.up = n.up /\ k.sub = n.sub /\ k.member = n.member
  BY <1>7 DEF Connection
<1>10. WireOK(k, log)
  BY <1>2, <1>6, <1>9 DEF WireOK, RequestOK
<1>11. UnsentOK(k, pending, commands)
  <2>1. \A i \in 1 .. Len(commands) : commands[i].op = "rpc" => commands[i].call.id # RestoreId
    BY Facts, FeedAssumption DEF QueueOK, CommandOK
  <2>2. ASSUME NEW i \in 1 .. Len(commands), commands[i].op = "rpc", NEW j \in 1 .. Len(k.req)
        PROVE  k.req[j].id # commands[i].call.id
    <3>1. j \in 1 .. Len(n.req) => n.req[j].id # commands[i].call.id
      BY <2>2 DEF UnsentOK
    <3> QED BY <1>2, <1>6, <1>9, <2>1, <2>2, <3>1
  <2> QED BY <1>9, <2>2 DEF UnsentOK
<1>12. PendingOK(k, pending)
  <2>1. \A p \in pending : p.id # RestoreId
    BY Facts, FeedAssumption DEF PendingCall
  <2> QED BY <1>2, <1>6, <1>9, <2>1 DEF PendingOK
<1>13. PageShape(k, m, log)
  <2>1. w # None
    BY FeedAssumption
  <2>2. \A i \in 1 .. Len(k.out) : k.out[i].t = "changed" /\ k.out[i].ws = w
    BY <1>9
  <2>3. ASSUME NEW i \in 1 .. Len(k.out) PROVE PageFrame(k, i)
    <3>1. \A j \in 1 .. i - 1 : k.out[j].t = "changed"
      <4>1. \A j \in 1 .. i - 1 : j \in 1 .. Len(k.out)
        BY <1>3, <1>9
      <4> QED BY <2>2, <4>1
    <3> QED BY <2>2, <3>1 DEF PageFrame
  <2>4. k.up => k.req = <<c>> /\ k.req[1] = c
    <3>1. HAVE k.up
    <3>2. n.req = <<>> /\ s = Append(n.req, c)
      BY <1>5, <1>9, <3>1
    <3>3. Append(<<>>, c) = <<c>> /\ <<c>>[1] = c
      OBVIOUS
    <3> QED BY <1>9, <3>2, <3>3
  <2>5. k.up /\ k.req # <<>> =>
          /\ k.req = <<RestoreCall("subscribe", m.desired, k.req[1].after)>> /\ k.req[1].after <= log[m.desired]
          /\ ~ k.sub /\ \A i \in 1 .. Len(k.out) : k.out[i].t = "changed"
    BY <1>1, <1>2, <1>9, <2>2, <2>4
  <2>6. ~ k.sub /\ (k.up => k.member = m.desired) /\ m.desired # None
    BY <1>9, <2>1
  <2> QED BY <2>2, <2>3, <2>5, <2>6, Zenon DEF PageShape
<1>14. RestoreOK(k, m, log)
  BY <1>13 DEF RestoreOK
<1> QED BY <1>8, <1>10, <1>11, <1>12, <1>14 DEF NetOK

\* The restored connection is handed back.
LEMMA ConnectedOK ==
    ASSUME NEW m \in Memory, NEW l, MemoryOK(m, l), NEW r, r = Connected(m)
    PROVE  r \in Memory /\ MemoryOK(r, l) /\ r.phase = "up" /\ r.acked = m.acked
<1>1. r \in Memory
  BY DEF Connected, Memory
<1>2. r.page = m.page /\ r.acked = m.acked /\ r.phase = "up"
  BY DEF Connected, Memory
<1> QED BY <1>1, <1>2 DEF MemoryOK

\* The restoring connection has rejoined: it asks for the first page, or is done.
LEMMA RestoreJoinedOK == Inv /\ RestoreJoined /\ UNCHANGED ui => Inv'
<1> SUFFICES ASSUME Inv, RestoreJoined, UNCHANGED ui PROVE Inv'
  OBVIOUS
<1>1. net.out # <<>> /\ UNCHANGED <<log, pending, events, commands, replies, ui>> /\ client.phase = "joining"
  BY DEF RestoreJoined
<1>2. PICK row, Q : row = [net EXCEPT !.out = Tail(@)] /\ Q = pending
  OBVIOUS
<1>3. /\ row \in Connection /\ WireOK(row, log) /\ UnsentOK(row, pending, commands) /\ PendingOK(row, pending)
      /\ row.up = net.up /\ row.member = net.member /\ row.sub = net.sub /\ row.req = net.req
      /\ Len(row.out) = Len(net.out) - 1 /\ Len(net.out) \in Nat /\ 1 \in 1 .. Len(net.out)
      /\ (\A i \in 1 .. Len(row.out) : i + 1 \in 1 .. Len(net.out) /\ row.out[i] = net.out[i + 1])
  BY <1>1, <1>2, PopOK
<1>4. JoinShape(net, client) /\ client \in Memory /\ MemoryOK(client, log) /\ log \in [Workspace -> Nat]
  BY <1>1, Facts DEF RestoreOK
<1>5. PICK w \in Workspace : w = client.desired /\ w # None
  BY <1>4 DEF JoinShape, Memory, Room
<1>6. CASE client.subscribed = w
  <2>1. PICK o \in Int, z \in Int : o = client.acked[w] /\ z = 0 /\ o <= log[w] /\ z <= log[w]
    BY <1>4 DEF Memory, MemoryOK
  <2>2. PICK a \in Int : a = Max({o, z}) /\ a <= log[w]
    <3>1. Max({o, z}) = o \/ Max({o, z}) = z
      BY MaxTwo
    <3> QED BY <2>1, <3>1
  <2>3. net' = Resubscribe(row, w, a) /\ client' = [client EXCEPT !.phase = "restoring"]
    BY <1>2, <1>5, <1>6, <2>1, <2>2 DEF RestoreJoined
  <2>4. client' \in Memory
    BY <1>4, <2>3 DEF Memory
  <2>5. client'.phase = "restoring" /\ client'.desired = w /\ client'.page = client.page
        /\ client'.acked = client.acked
    BY <1>4, <1>5, <2>3 DEF Memory
  <2>6. MemoryOK(client', log)
    BY <1>4, <2>5 DEF MemoryOK
  <2>7. \A i \in 1 .. Len(row.out) : row.out[i].t = "changed" /\ row.out[i].ws = w
    <3>1. ASSUME NEW i \in 1 .. Len(row.out) PROVE row.out[i].t = "changed" /\ row.out[i].ws = w
      <4>1. i + 1 \in 1 .. Len(net.out) /\ row.out[i] = net.out[i + 1] /\ i + 1 # 1
        BY <1>3
      <4> QED BY <1>4, <1>5, <4>1 DEF JoinShape
    <3> QED BY <3>1
  <2>8. ~ row.sub /\ (row.up => row.req = <<>> /\ row.member = w)
    BY <1>1, <1>3, <1>4, <1>5 DEF JoinShape
  <2>9. PICK m \in Memory : m = client' /\ m.phase = "restoring" /\ m.desired = w
    BY <2>4, <2>5
  <2>10. PICK k : k = net'
    OBVIOUS
  <2>11. k \in Connection /\ NetOK(k, m, log, pending, commands)
    <3>1. PICK n \in Connection : n = row
      BY <1>3
    <3>2. WireOK(n, log) /\ UnsentOK(n, pending, commands) /\ PendingOK(n, pending)
      BY <1>3, <3>1
    <3>3. \A i \in 1 .. Len(n.out) : n.out[i].t = "changed" /\ n.out[i].ws = w
      BY <2>7, <3>1
    <3>4. ~ n.sub /\ (n.up => n.req = <<>> /\ n.member = w) /\ k = Resubscribe(n, w, a)
      BY <2>3, <2>8, <2>10, <3>1
    <3> QED BY <2>2, <2>9, <3>2, <3>3, <3>4, ResubscribeOK
  <2> QED BY <1>1, <2>4, <2>6, <2>9, <2>10, <2>11, Facts, ClientOK
<1>7. CASE client.subscribed # w
  <2>1. net' = [net EXCEPT !.out = Tail(@)] /\ client' = Connected(client)
    BY <1>2, <1>5, <1>7 DEF RestoreJoined
  <2>2. client' \in Memory /\ MemoryOK(client', log) /\ client'.phase = "up"
    BY <1>4, <2>1, ConnectedOK
  <2>3. RestoreOK(net', client', log)
    BY <2>2 DEF RestoreOK
  <2>4. /\ pending' \in SUBSET pending /\ replies' \in SUBSET Value /\ (\A v \in replies' : InLog(log, v))
        /\ events' \in Seq(Notice) /\ EventsOK(events', log)
    BY <1>1, Facts
  <2> QED BY <1>1, <2>1, <2>2, <2>3, <2>4, TakenOK
<1> QED BY <1>6, <1>7

\* A page of the restoration arrives: its events are replayed, or the room has changed.
LEMMA RestorePageOK == Inv /\ RestorePage /\ UNCHANGED ui => Inv'
<1> SUFFICES ASSUME Inv, RestorePage, UNCHANGED ui PROVE Inv'
  OBVIOUS
<1>1. net.out # <<>> /\ UNCHANGED <<log, pending, events, commands, replies, ui>> /\ client.phase = "restoring"
      /\ net' = [net EXCEPT !.out = Tail(@)]
  BY DEF RestorePage
<1>2. PICK n, Q : n = net' /\ Q = pending
  OBVIOUS
<1>3. /\ n \in Connection /\ n.up = net.up /\ n.member = net.member /\ n.sub = net.sub /\ n.req = net.req
      /\ Len(n.out) = Len(net.out) - 1 /\ Len(net.out) \in Nat /\ 1 \in 1 .. Len(net.out)
      /\ (\A i \in 1 .. Len(n.out) : i + 1 \in 1 .. Len(net.out) /\ n.out[i] = net.out[i + 1])
      /\ Head(net.out) = net.out[1] /\ Head(net.out) \in Frame /\ FrameOK(Head(net.out), log)
  BY <1>1, <1>2, PopOK
<1>4. PICK f \in Frame : f = net.out[1] /\ f = Head(net.out) /\ FrameOK(f, log)
  BY <1>3
<1>5. PageShape(net, client, log) /\ client \in Memory /\ MemoryOK(client, log)
  BY <1>1, Facts DEF RestoreOK
<1>6. f.t = "page"
  BY <1>4 DEF RestorePage
<1>7. /\ pending' \in SUBSET pending /\ replies' \in SUBSET Value /\ (\A v \in replies' : InLog(log, v))
      /\ events' \in Seq(Notice) /\ EventsOK(events', log)
  BY <1>1, Facts
<1>8. CASE client.desired = f.ws /\ client.subscribed = f.ws
  <2>1. PICK p \in [ws : Room, lo : Int, hi : Int, live : BOOLEAN] :
           /\ p = [ws |-> f.ws, lo |-> f.lo, hi |-> f.hi, live |-> f.live]
           /\ p.ws = f.ws /\ p.live = f.live /\ InLog(log, p)
    <3>1. [ws |-> f.ws, lo |-> f.lo, hi |-> f.hi, live |-> f.live] \in [ws : Room, lo : Int, hi : Int, live : BOOLEAN]
      BY DEF Frame
    <3>2. PICK p \in [ws : Room, lo : Int, hi : Int, live : BOOLEAN] :
             p = [ws |-> f.ws, lo |-> f.lo, hi |-> f.hi, live |-> f.live]
      BY <3>1
    <3>3. p.ws = f.ws /\ p.lo = f.lo /\ p.hi = f.hi /\ p.live = f.live
      BY <3>2
    <3>4. InLog(log, p)
      BY <1>4, <3>3 DEF FrameOK, InLog
    <3> QED BY <3>2, <3>3, <3>4
  <2>2. client' = [client EXCEPT !.phase = "replaying", !.page = p]
    BY <1>4, <1>8, <2>1 DEF RestorePage
  <2>3. client' \in Memory
    BY <1>5, <2>2 DEF Memory
  <2>4. client'.phase = "replaying" /\ client'.page = p /\ client'.desired = client.desired
        /\ client'.acked = client.acked
    BY <1>5, <2>2 DEF Memory
  <2>5. MemoryOK(client', log)
    BY <1>5, <2>1, <2>4 DEF MemoryOK
  <2>6. \A i \in 1 .. Len(n.out) : n.out[i].t = "event"
    <3>1. ASSUME NEW i \in 1 .. Len(n.out) PROVE n.out[i].t = "event"
      <4>1. PICK h \in 1 .. Len(net.out) : h = i + 1 /\ n.out[i] = net.out[h] /\ 1 \in 1 .. h - 1
        BY <1>3
      <4>2. PageFrame(net, h)
        BY <1>5 DEF PageShape
      <4> QED BY <1>4, <1>6, <4>1, <4>2 DEF PageFrame
    <3> QED BY <3>1
  <2>7. ~ p.live => n.out = <<>> /\ ~ n.sub
    <3>1. HAVE ~ p.live
    <3>2. PageFrame(net, 1)
      BY <1>3, <1>5 DEF PageShape
    <3>3. 1 = Len(net.out) /\ ~ net.sub
      BY <1>4, <1>6, <2>1, <3>1, <3>2 DEF PageFrame
    <3>4. n.out \in Seq(Frame) /\ Len(n.out) = 0
      BY <1>3, <3>3 DEF Connection
    <3> QED BY <1>3, <3>3, <3>4
  <2>8. n.up => n.req = <<>> /\ n.member = client.desired
    BY <1>3, <1>4, <1>5, <1>6 DEF PageShape
  <2>9. ReplayShape(net', client')
    BY <1>2, <1>5, <1>8, <2>1, <2>4, <2>6, <2>7, <2>8 DEF ReplayShape, PageShape
  <2>10. RestoreOK(net', client', log)
    BY <2>4, <2>9 DEF RestoreOK
  <2> QED BY <1>1, <1>7, <2>3, <2>5, <2>10, TakenOK
<1>9. CASE ~ (client.desired = f.ws /\ client.subscribed = f.ws)
  <2>1. client' = Connected(client)
    BY <1>4, <1>9 DEF RestorePage
  <2>2. client' \in Memory /\ MemoryOK(client', log) /\ client'.phase = "up"
    BY <1>5, <2>1, ConnectedOK
  <2>3. RestoreOK(net', client', log)
    BY <2>2 DEF RestoreOK
  <2> QED BY <1>1, <1>7, <2>2, <2>3, TakenOK
<1> QED BY <1>8, <1>9

\* A step of the replay that leaves the connection alone.
LEMMA ReplayOK ==
    ASSUME Inv, UNCHANGED <<log, net, pending, commands, replies, ui>>, client' \in Memory, MemoryOK(client', log),
           events' \in Seq(Notice), EventsOK(events', log), RestoreOK(net, client', log)
    PROVE  Inv'
<1>1. NetOK(net', client', log, pending', commands')
  BY Facts DEF NetOK
<1>2. /\ net' \in Connection /\ pending' \in SUBSET PendingCall /\ CommandsOK(commands') /\ QueueOK(commands', log)
      /\ replies' \in SUBSET Value /\ \A v \in replies' : InLog(log, v)
  BY Facts
<1> QED BY <1>1, <1>2, ClientOK

\* One event of the page is handed on.
LEMMA RestoreEventOK == Inv /\ RestoreEvent /\ UNCHANGED ui => Inv'
<1> SUFFICES ASSUME Inv, RestoreEvent, UNCHANGED ui PROVE Inv'
  OBVIOUS
<1>1. client.phase = "replaying" /\ UNCHANGED <<log, net, pending, commands, replies, ui>>
      /\ client.page.lo < client.page.hi
  BY DEF RestoreEvent
<1>2. client \in Memory /\ MemoryOK(client, log) /\ ReplayShape(net, client) /\ log \in [Workspace -> Nat]
  BY <1>1, Facts DEF RestoreOK
<1>3. PICK p \in [ws : Room, lo : Int, hi : Int, live : BOOLEAN] : p = client.page
  BY <1>2 DEF Memory
<1>4. PICK w \in Workspace : w = p.ws /\ w = client.desired /\ w # None
  BY <1>2, <1>3 DEF ReplayShape, Memory, Room
<1>5. p.lo + 1 \in Int /\ p.lo + 1 <= p.hi /\ p.hi <= log[w] /\ p.lo + 1 <= log[w]
  <2>1. p.hi <= log[w]
    BY <1>2, <1>3, <1>4 DEF MemoryOK, InLog
  <2> QED BY <1>1, <1>2, <1>3, <2>1
<1>6. PICK k \in Int : k = p.lo + 1 /\ k <= p.hi /\ k <= log[w]
  BY <1>5
<1>7. PICK f \in Frame : f = EventFrame(w, k) /\ FrameOK(f, log)
  BY <1>6, EventFrameOK
<1>8. PICK q \in [ws : Room, lo : Int, hi : Int, live : BOOLEAN] :
         q = [p EXCEPT !.lo = k] /\ q.ws = p.ws /\ q.lo = k /\ q.hi = p.hi /\ q.live = p.live
  <2>1. [p EXCEPT !.lo = k] \in [ws : Room, lo : Int, hi : Int, live : BOOLEAN]
    OBVIOUS
  <2>2. PICK q \in [ws : Room, lo : Int, hi : Int, live : BOOLEAN] : q = [p EXCEPT !.lo = k]
    BY <2>1
  <2>3. q.ws = p.ws /\ q.lo = k /\ q.hi = p.hi /\ q.live = p.live
    BY <2>2
  <2> QED BY <2>2, <2>3
<1>9. [client EXCEPT !.page = q] \in Memory
  BY <1>2 DEF Memory
<1>10. PICK m \in Memory : m = [client EXCEPT !.page = q]
  BY <1>9
<1>11. m.phase = client.phase /\ m.desired = client.desired /\ m.page = q /\ m.acked = client.acked
  BY <1>2, <1>10 DEF Memory
<1>12. m = [client EXCEPT !.page.lo = @ + 1]
  BY <1>2, <1>3, <1>6, <1>8, <1>10 DEF Memory
<1>13. MemoryOK(m, log)
  BY <1>2, <1>4, <1>5, <1>6, <1>8, <1>11 DEF MemoryOK, InLog
<1>14. ASSUME NEW d \in Memory, d.phase = m.phase, d.desired = m.desired, d.page = m.page
       PROVE  RestoreOK(net, d, log)
  <2>1. ReplayShape(net, d)
    BY <1>2, <1>3, <1>8, <1>11, <1>14 DEF ReplayShape
  <2> QED BY <1>1, <1>11, <1>14, <2>1 DEF RestoreOK
<1>15. \/ client' = m /\ events' = events
       \/ client' = Remember(m, f) /\ events' = Append(events, Item(f))
  BY <1>3, <1>4, <1>6, <1>7, <1>12 DEF RestoreEvent
<1>16. CASE client' = m /\ events' = events
  BY <1>1, <1>13, <1>14, <1>16, Facts, ReplayOK
<1>17. CASE client' = Remember(m, f) /\ events' = Append(events, Item(f))
  <2>1. client' \in Memory /\ MemoryOK(client', log) /\ client'.phase = m.phase /\ client'.desired = m.desired
        /\ client'.page = m.page
    BY <1>7, <1>13, <1>17, RememberOK
  <2>2. events' \in Seq(Notice) /\ EventsOK(events', log)
    BY <1>7, <1>17, HandOnOK
  <2>3. RestoreOK(net, client', log)
    BY <1>14, <2>1
  <2> QED BY <1>1, <2>1, <2>2, <2>3, ReplayOK
<1> QED BY <1>15, <1>16, <1>17

\* The page is replayed: the connection is live, or asks for the next page.
LEMMA RestorePageDoneOK == Inv /\ RestorePageDone /\ UNCHANGED ui => Inv'
<1> SUFFICES ASSUME Inv, RestorePageDone, UNCHANGED ui PROVE Inv'
  OBVIOUS
<1>1. client.phase = "replaying" /\ UNCHANGED <<log, pending, events, commands, replies, ui>>
  BY DEF RestorePageDone
<1>2. client \in Memory /\ MemoryOK(client, log) /\ ReplayShape(net, client) /\ log \in [Workspace -> Nat]
      /\ net \in Connection /\ WireOK(net, log) /\ UnsentOK(net, pending, commands) /\ PendingOK(net, pending)
  BY <1>1, Facts DEF RestoreOK
<1>3. PICK p \in [ws : Room, lo : Int, hi : Int, live : BOOLEAN] : p = client.page
  BY <1>2 DEF Memory
<1>4. PICK e \in [ws : Room, lo : Int, hi : Int, live : BOOLEAN] : e = EmptyPage /\ InLog(log, e)
  <2>1. EmptyPage \in [ws : Room, lo : Int, hi : Int, live : BOOLEAN] /\ InLog(log, EmptyPage)
    BY EmptyPageOK
  <2> QED BY <2>1
<1>5. CASE p.live
  <2>1. client' = [Connected(client) EXCEPT !.page = e] /\ net' = net
    BY <1>3, <1>4, <1>5 DEF RestorePageDone
  <2>2. PICK r \in Memory : r = Connected(client) /\ MemoryOK(r, log) /\ r.phase = "up"
    BY <1>2, ConnectedOK
  <2>3. client' = [r EXCEPT !.page = e]
    BY <2>1, <2>2
  <2>4. client' \in Memory
    BY <2>3 DEF Memory
  <2>5. client'.phase = "up" /\ client'.page = e /\ client'.acked = r.acked
    BY <2>2, <2>3 DEF Memory
  <2>6. MemoryOK(client', log)
    BY <1>4, <2>2, <2>5 DEF MemoryOK
  <2>7. RestoreOK(net, client', log)
    BY <2>5 DEF RestoreOK
  <2>8. events' \in Seq(Notice) /\ EventsOK(events', log)
    BY <1>1, Facts
  <2> QED BY <1>1, <2>1, <2>4, <2>6, <2>7, <2>8, ReplayOK
<1>6. CASE ~ p.live
  <2>1. PICK w \in Workspace : w = p.ws /\ w = client.desired /\ w # None
    BY <1>2, <1>3 DEF ReplayShape, Memory, Room
  <2>2. PICK a \in Int : a = p.hi /\ a <= log[w]
    BY <1>2, <1>3, <2>1 DEF MemoryOK, InLog
  <2>3. client' = [client EXCEPT !.phase = "restoring", !.page = e] /\ net' = Resubscribe(net, w, a)
    BY <1>3, <1>4, <1>6, <2>1, <2>2 DEF RestorePageDone
  <2>4. client' \in Memory
    BY <1>2, <2>3 DEF Memory
  <2>5. client'.phase = "restoring" /\ client'.page = e /\ client'.acked = client.acked /\ client'.desired = w
    BY <1>2, <2>1, <2>3 DEF Memory
  <2>6. MemoryOK(client', log)
    BY <1>2, <1>4, <2>5 DEF MemoryOK
  <2>7. PICK m \in Memory : m = client' /\ m.phase = "restoring" /\ m.desired = w
    BY <2>4, <2>5
  <2>8. PICK n \in Connection : n = net
    BY <1>2
  <2>9. n.out = <<>> /\ ~ n.sub /\ (n.up => n.req = <<>> /\ n.member = w)
    BY <1>2, <1>3, <1>6, <2>1, <2>8 DEF ReplayShape
  <2>10. \A i \in 1 .. Len(n.out) : n.out[i].t = "changed" /\ n.out[i].ws = w
    BY <2>9
  <2>11. WireOK(n, log) /\ UnsentOK(n, pending, commands) /\ PendingOK(n, pending)
    BY <1>2, <2>8
  <2>12. PICK k : k = net' /\ k = Resubscribe(n, w, a)
    BY <2>3, <2>8
  <2>13. k \in Connection /\ NetOK(k, m, log, pending, commands)
    BY <2>2, <2>7, <2>9, <2>10, <2>11, <2>12, ResubscribeOK
  <2> QED BY <1>1, <2>4, <2>6, <2>7, <2>12, <2>13, Facts, ClientOK
<1> QED BY <1>5, <1>6

\* Every step of the client.
LEMMA ClientStepOK == Inv /\ ClientStep /\ UNCHANGED ui => Inv'
BY PumpCommandOK, PumpIncomingOK, PumpEofOK, DisconnectedCommandOK, ConnectOK, RestoreNoticeOK, RestoreJoinedOK,
   RestorePageOK, RestoreEventOK, RestorePageDoneOK, AbandonOK DEF ClientStep, ClientProgress

-----------------------------------------------------------------------------
(* The theorems.                                                              *)

\* A connected console that has selected no room.
LEMMA InitOK == Init => Inv
<1> SUFFICES ASSUME Init PROVE Inv
  OBVIOUS
<1>1. FeedInit
  BY DEF Init
<1>2. None \in Room /\ <<>> \in Seq(Frame) /\ <<>> \in Seq(Request) /\ <<>> \in Seq(Notice) /\ <<>> \in Seq(Command)
  BY DEF Room
<1>3. log \in [Workspace -> Nat]
  BY <1>1 DEF FeedInit
<1>4. net \in Connection /\ net.req = <<>> /\ net.out = <<>>
  <2>1. Closed(<<>>) \in Connection
    BY <1>2 DEF Closed, Connection
  <2>2. PICK c \in Connection : c = Closed(<<>>)
    BY <2>1
  <2>3. c.req = <<>> /\ c.out = <<>>
    BY <2>2 DEF Closed
  <2>4. net = [c EXCEPT !.up = TRUE]
    BY <1>1, <2>2 DEF FeedInit
  <2>5. net \in Connection
    BY <2>4 DEF Connection
  <2>6. net.req = c.req /\ net.out = c.out
    BY <2>4 DEF Connection
  <2> QED BY <2>3, <2>5, <2>6
<1>5. PICK e \in [ws : Room, lo : Int, hi : Int, live : BOOLEAN] : e = EmptyPage /\ InLog(log, e)
  <2>1. EmptyPage \in [ws : Room, lo : Int, hi : Int, live : BOOLEAN] /\ InLog(log, EmptyPage)
    BY EmptyPageOK
  <2> QED BY <2>1
<1>6. PICK a \in [Workspace -> Int], h \in [Workspace -> Int] :
         a = [w \in Workspace |-> Absent] /\ h = [w \in Workspace |-> 0] /\ \A w \in Workspace : a[w] <= log[w]
  <2>1. [w \in Workspace |-> Absent] \in [Workspace -> Int] /\ [w \in Workspace |-> 0] \in [Workspace -> Int]
    BY DEF Absent
  <2>2. \A w \in Workspace : [x \in Workspace |-> Absent][w] <= log[w]
    BY <1>3 DEF Absent
  <2> QED BY <2>1, <2>2
<1>7. client = [phase |-> "up", news |-> FALSE, desired |-> None, subscribed |-> None, acked |-> a, highest |-> h, page |-> e]
  BY <1>1, <1>5, <1>6 DEF FeedInit
<1>8. client \in Memory
  BY <1>2, <1>7 DEF Memory
<1>9. client.phase = "up" /\ client.page = e /\ client.acked = a
  BY <1>7
<1>10. MemoryOK(client, log) /\ RestoreOK(net, client, log)
  BY <1>5, <1>6, <1>9 DEF MemoryOK, RestoreOK
<1>11. pending = {} /\ events = <<>> /\ replies = {} /\ commands = <<>>
  BY <1>1 DEF FeedInit
<1>12. FeedTypeOK
  BY <1>2, <1>3, <1>4, <1>8, <1>11 DEF FeedTypeOK
<1>13. Len(commands) = 0 /\ Len(events) = 0 /\ Len(net.req) = 0 /\ Len(net.out) = 0
  BY <1>4, <1>11
<1>14. CommandsOK(commands) /\ QueueOK(commands, log) /\ EventsOK(events, log)
  BY <1>2, <1>11, <1>13, FeedAssumption DEF CommandsOK, QueueOK, EventsOK
<1>15. NetOK(net, client, log, pending, commands)
  BY <1>10, <1>11, <1>13 DEF NetOK, WireOK, UnsentOK, PendingOK
<1>16. ui \in View
  <2>1. Absent \in Int
    BY DEF Absent
  <2> QED BY <1>2, <2>1 DEF Init, View
<1>17. ui.ws = None /\ ui.ack = 0 /\ ui.act = None
  BY DEF Init
<1>18. ViewOK(ui, log) /\ ActionOK(ui.act)
  BY <1>17 DEF ViewOK, ActionOK
<1> QED BY <1>10, <1>11, <1>12, <1>14, <1>15, <1>16, <1>18 DEF Inv, TypeOK, WithinLog

\* Every step of the router, the client, the controller and the user.
LEMMA NextOK == Inv /\ [Next]_vars => Inv'
<1> SUFFICES ASSUME Inv, [Next]_vars PROVE Inv'
  OBVIOUS
<1>1. CASE RouterStep /\ UNCHANGED ui
  BY <1>1, RouterStepOK
<1>2. CASE ClientStep /\ UNCHANGED ui
  BY <1>2, ClientStepOK
<1>3. CASE Controller
  BY <1>3, TakeEventOK, ObserveOK, SendOfTasksOK, ContinuesOK, SyncDoneOK, RecentDoneOK, SwitchDoneOK, ChatOK
     DEF Controller
<1>4. CASE User
  BY <1>4, ChatOK, SelectWorkspaceOK DEF User
<1>5. CASE UNCHANGED vars
  <2>1. UNCHANGED <<log, net, client, pending, events, commands, replies, ui>>
    BY <1>5 DEF vars, feedVars
  <2> QED BY <2>1 DEF Inv, TypeOK, FeedTypeOK, WithinLog
<1> QED BY <1>1, <1>2, <1>3, <1>4, <1>5 DEF Next

\* A restoring client meets the answer to its join first, then notices and its page.
LEMMA InvUnderstood == Inv => RestorationUnderstood
<1> SUFFICES ASSUME Inv, net.out # <<>>
             PROVE  /\ client.phase = "joining" => Head(net.out).t \in {"joined", "changed"}
                    /\ client.phase = "restoring" => Head(net.out).t \in {"page", "changed"}
  BY DEF RestorationUnderstood
<1>1. net.out \in Seq(Frame) /\ RestoreOK(net, client, log)
  BY Facts DEF Connection
<1>2. Head(net.out) = net.out[1] /\ 1 \in 1 .. Len(net.out)
  BY <1>1
<1>3. client.phase = "joining" => Head(net.out).t \in {"joined", "changed"}
  BY <1>1, <1>2 DEF RestoreOK, JoinShape
<1>4. client.phase = "restoring" => Head(net.out).t \in {"page", "changed"}
  <2>1. HAVE client.phase = "restoring"
  <2>2. PageFrame(net, 1)
    BY <1>1, <1>2, <2>1 DEF RestoreOK, PageShape
  <2>3. ~ \E j \in 1 .. 1 - 1 : net.out[j].t = "page"
    OBVIOUS
  <2> QED BY <1>2, <2>2, <2>3 DEF PageFrame
<1> QED BY <1>3, <1>4

\* The inductive invariant: every cursor the console, the client and the wire hold is
\* within its log, a page begins where its call asked, and a restoring connection has
\* one of three shapes (workspace_subscribe, pump, restore_subscription).
THEOREM AlwaysInv == Spec => []Inv
BY InitOK, NextOK, PTL DEF Spec

\* While it restores a subscription the client meets only the frames it waits for and
\* membership notices: no error for a cursor past the log, and no live event before the
\* page that makes it live (restore_subscription, workspace_subscribe).
THEOREM RestorationIsUnderstood == Spec => []RestorationUnderstood
BY AlwaysInv, InvUnderstood, PTL

-----------------------------------------------------------------------------
(* The cursor a reconnection resumes from.                                    *)
(*                                                                            *)
(* The client keeps the cursors of every room, the console those of the room  *)
(* it shows.  A cursor of the shown room is harmless wherever it is on its    *)
(* way: in the view, in a queued acknowledgement, in a subscription that is   *)
(* queued or sent.  What is on its way for a room that is left has arrived    *)
(* before another room is shown: the unsubscribe call goes through the same   *)
(* queue behind it, and supersedes the subscriptions sent before it.          *)

\* The cursor x has been applied.
Bound(u, x) == 0 <= x /\ x <= u.applied

InStep(u, S) == u.act # None /\ u.act.step \in S

\* The steps of a switch before the console shows the new room.
Leaving == {"unsubscribe", "leave", "join"}

IsCall(c, kind) == c.op = "rpc" /\ c.call.kind = kind

\* A command that cannot move a cursor of a room that is not shown.
Harmless(u, c) == (c.op = "ack" => c.ws = u.ws) /\ ~ IsCall(c, "subscribe")

Subscribing(p) == p.kind = "subscribe" /\ p.latest

Clean(u, cmds, P) ==
    /\ \A k \in 1 .. Len(cmds) : Harmless(u, cmds[k])
    /\ \A p \in P : ~ Subscribing(p)

\* The unsubscribe call of the switch is still queued, behind everything else.
Superseded(u, cmds) ==
    \E k \in 1 .. Len(cmds) :
        /\ IsCall(cmds[k], "unsubscribe") /\ cmds[k].call.id = u.act.id
        /\ \A j \in 1 .. Len(cmds) : j > k => Harmless(u, cmds[j])

ViewAck(u) ==
    /\ u.applied >= Absent
    /\ u.ack # 0 => Bound(u, u.ack)
    /\ u.sync # None => Bound(u, u.sync.after)
    /\ u.ws = None \/ InStep(u, Leaving) => u.sync = None
    /\ InStep(u, Leaving) => u.switching # None /\ u.act.target # u.ws

MemoryAck(u, m) ==
    /\ m.subscribed # None /\ m.subscribed = u.ws => Bound(u, m.acked[u.ws])
    /\ u.ws = None \/ InStep(u, {"join"}) => m.subscribed = None

CommandAck(u, c) ==
    /\ c.op = "ack" /\ c.ws = u.ws => Bound(u, c.seq)
    /\ c.op = "rpc" => c.call.after >= 0
    /\ IsCall(c, "subscribe") => Bound(u, c.call.after)

QueueAck(u, cmds) == \A k \in 1 .. Len(cmds) : CommandAck(u, cmds[k])

PendingAck(u, P) == \A p \in P : p.after >= 0 /\ (Subscribing(p) => Bound(u, p.after))

DrainAck(u, cmds, P) ==
    /\ u.ws = None \/ InStep(u, {"leave", "join"}) => Clean(u, cmds, P)
    /\ InStep(u, {"unsubscribe"}) /\ u.act.id # None => Clean(u, cmds, P) \/ Superseded(u, cmds)

\* The client forgets its subscription before the switch learns that it has left.
LeftAck(u, m, R) ==
    InStep(u, {"leave"}) => \A v \in R : v.id = u.act.id /\ v.ok => m.subscribed = None

\* Only the leave call of the switch has its identifier.
LeaveAck(u, n, cmds) ==
    InStep(u, {"leave"}) /\ u.act.id # None =>
        /\ \A k \in 1 .. Len(cmds) : cmds[k].op = "rpc" /\ cmds[k].call.id = u.act.id => cmds[k].call.kind = "leave"
        /\ \A k \in 1 .. Len(n.req) : n.req[k].id = u.act.id => n.req[k].kind = "leave"
        /\ \A k \in 1 .. Len(n.out) : n.out[k].id = u.act.id => n.out[k].t \in {"left", "error"}

FrameAck(n) == \A k \in 1 .. Len(n.out) : n.out[k].t # "page" => n.out[k].lo >= 0

\* A call that is still queued has no reply.
ReplyAck(R, cmds) ==
    \A v \in R : v.lo >= 0 /\ \A k \in 1 .. Len(cmds) : cmds[k].op = "rpc" => v.id # cmds[k].call.id

DownAck(m, P) == m.phase # "up" => P = {}

AckOK(u, m, P, n, cmds, R) ==
    /\ ViewAck(u) /\ MemoryAck(u, m) /\ QueueAck(u, cmds) /\ PendingAck(u, P)
    /\ DrainAck(u, cmds, P) /\ LeftAck(u, m, R) /\ LeaveAck(u, n, cmds)
    /\ FrameAck(n) /\ ReplyAck(R, cmds) /\ DownAck(m, P)

JobId(job) == IF job = None THEN None ELSE job.id

\* The calls of the three tasks are distinct, and their receivers are alive.
WaitOK(u, W) ==
    /\ {JobId(u.sync), JobId(u.recent), JobId(u.act)} \subseteq W \cup {None}
    /\ JobId(u.act) # None => JobId(u.act) \notin {JobId(u.sync), JobId(u.recent)}
    /\ JobId(u.sync) # None => JobId(u.sync) # JobId(u.recent)

AckInv == AckOK(ui, client, pending, net, commands, replies) /\ WaitOK(ui, waiting)

-----------------------------------------------------------------------------
(* The view moves within the shown room.                                      *)

\* Each task is the same as before, or has no call yet, or is over.
Keeps(u, v) ==
    /\ JobId(v.sync) \in {None, JobId(u.sync)}
    /\ JobId(v.recent) \in {None, JobId(u.recent)}
    /\ JobId(v.act) \in {None, JobId(u.act)}

\* The room stays, nothing applied is lost, and a switch is where it was.
Stays(u, v) ==
    /\ v.ws = u.ws /\ u.applied <= v.applied
    /\ InStep(v, Leaving) => InStep(u, {v.act.step}) /\ v.act.id = u.act.id

Follows(u, v) == Stays(u, v) /\ Keeps(u, v)

Moves(u, v) == v \in View /\ Follows(u, v) /\ ViewAck(v)

\* Nothing that is shown, acknowledged or asked for changes.
Unmoved(u, v) ==
    /\ v.ws = u.ws /\ v.applied = u.applied /\ v.ack = u.ack /\ Keeps(u, v)
    /\ v.sync # None => u.sync # None /\ v.sync.after = u.sync.after
    /\ InStep(v, Leaving) => /\ InStep(u, {v.act.step}) /\ v.act.id = u.act.id
                             /\ v.act.target = u.act.target /\ v.switching = u.switching

\* Such a change keeps the cursors of the view in order.
LEMMA UnmovedMoves ==
    ASSUME NEW u \in View, NEW v \in View, ViewAck(u), Unmoved(u, v)
    PROVE  Moves(u, v)
<1>1. u.applied \in Int
  BY DEF View
<1>2. Follows(u, v)
  BY <1>1 DEF Unmoved, Follows, Stays
<1>3. InStep(v, Leaving) => InStep(u, Leaving)
  BY DEF Unmoved, Keeps, JobId, InStep
<1>4. ViewAck(v)
  BY <1>3 DEF Unmoved, ViewAck, Bound
<1> QED BY <1>2, <1>4 DEF Moves

\* Changes of the view one after the other.
LEMMA MovesTrans ==
    ASSUME NEW u \in View, NEW v \in View, NEW x, Moves(u, v), Moves(v, x)
    PROVE  Moves(u, x)
<1>1. u.applied \in Int /\ v.applied \in Int /\ x \in View
  BY DEF View, Moves
<1>2. x.applied \in Int
  BY <1>1 DEF View
<1>3. x.ws = u.ws /\ u.applied <= x.applied
  BY <1>1, <1>2 DEF Moves, Follows, Stays
<1>4. InStep(x, Leaving) => InStep(u, {x.act.step}) /\ x.act.id = u.act.id
  BY DEF Moves, Follows, Stays, InStep
<1>5. Keeps(u, x)
  BY DEF Moves, Follows, Stays, Keeps
<1> QED BY <1>3, <1>4, <1>5 DEF Moves, Follows, Stays

\* The receivers of the tasks stay alive when the view moves.
LEMMA WaitMoves ==
    ASSUME NEW u, NEW v, NEW W, WaitOK(u, W), Moves(u, v)
    PROVE  WaitOK(v, W)
<1>1. Keeps(u, v)
  BY DEF Moves, Follows, Stays
<1> QED BY <1>1 DEF WaitOK, Keeps

\* A task takes its reply and is over.
LEMMA WaitTaken ==
    ASSUME NEW u, NEW v, NEW W, NEW i, WaitOK(u, W), Moves(u, v),
           \/ JobId(v.sync) = None /\ i \in {None, JobId(u.sync)}
           \/ JobId(v.recent) = None /\ i \in {None, JobId(u.recent)}
           \/ JobId(v.act) = None /\ i \in {None, JobId(u.act)}
    PROVE  WaitOK(v, W \ {i})
<1>1. Keeps(u, v)
  BY DEF Moves, Follows, Stays
<1>2. WaitOK(v, W)
  BY WaitMoves
<1>3. i = None \/ i \notin {JobId(v.sync), JobId(v.recent), JobId(v.act)}
  BY <1>1 DEF WaitOK, Keeps
<1> QED BY <1>2, <1>3 DEF WaitOK

\* The reply a task takes has the identifier of its call.
LEMMA ReplyId ==
    ASSUME NEW job, job # None, NEW v \in Reply(job)
    PROVE  v.id \in {None, JobId(job)}
BY DEF Reply, Failed, JobId

\* What is on its way stays in order when the view moves.
LEMMA ViewStays ==
    ASSUME NEW u \in View, NEW v, NEW m \in Memory, NEW P \in SUBSET PendingCall, NEW n \in Connection,
           NEW cmds \in Seq(Command), NEW R \in SUBSET Value, NEW S \in SUBSET R,
           AckOK(u, m, P, n, cmds, R), v \in View, Stays(u, v), ViewAck(v)
    PROVE  AckOK(v, m, P, n, cmds, S)
<1>0. v \in View /\ v.ws = u.ws /\ u.applied \in Int /\ v.applied \in Int /\ u.applied <= v.applied
  BY DEF Stays, View
<1>1. \A x \in Int : Bound(u, x) => Bound(v, x)
  BY <1>0 DEF Bound
<1>2. InStep(v, Leaving) => u.act # None /\ u.act.step = v.act.step /\ v.act.id = u.act.id
  BY DEF Stays, InStep
<1>3. MemoryAck(v, m)
  <2>1. InStep(v, {"join"}) => InStep(u, {"join"})
    BY <1>2 DEF InStep, Leaving
  <2>2. m.subscribed # None /\ m.subscribed = u.ws => m.acked[u.ws] \in Int
    BY DEF Memory, Room
  <2> QED BY <1>0, <1>1, <2>1, <2>2 DEF AckOK, MemoryAck
<1>4. QueueAck(v, cmds)
  <2>1. ASSUME NEW k \in 1 .. Len(cmds) PROVE CommandAck(v, cmds[k])
    <3>1. cmds[k] \in Command /\ CommandAck(u, cmds[k])
      BY DEF AckOK, QueueAck
    <3>2. (cmds[k].op = "ack" => cmds[k].seq \in Int) /\ (cmds[k].op = "rpc" => cmds[k].call.after \in Int)
      BY <3>1 DEF Command, Request
    <3> QED BY <1>0, <1>1, <3>1, <3>2 DEF CommandAck, IsCall
  <2> QED BY <2>1 DEF QueueAck
<1>5. PendingAck(v, P)
  <2>1. \A p \in P : p.after \in Int
    BY DEF PendingCall
  <2> QED BY <1>1, <2>1 DEF AckOK, PendingAck
<1>6. \A c : Harmless(u, c) => Harmless(v, c)
  BY <1>0 DEF Harmless
<1>7. Clean(u, cmds, P) => Clean(v, cmds, P)
  BY <1>6 DEF Clean
<1>8. InStep(v, {"unsubscribe"}) /\ Superseded(u, cmds) => Superseded(v, cmds)
  <2>1. InStep(v, {"unsubscribe"}) => v.act.id = u.act.id
    BY <1>2 DEF InStep, Leaving
  <2> QED BY <1>6, <2>1 DEF Superseded
<1>9. DrainAck(v, cmds, P)
  <2>1. InStep(v, {"leave", "join"}) => InStep(u, {"leave", "join"})
    BY <1>2 DEF InStep, Leaving
  <2>2. InStep(v, {"unsubscribe"}) => InStep(u, {"unsubscribe"}) /\ u.act.id = v.act.id
    BY <1>2 DEF InStep, Leaving
  <2>3. DrainAck(u, cmds, P)
    BY DEF AckOK
  <2> QED BY <1>0, <1>7, <1>8, <2>1, <2>2, <2>3 DEF DrainAck
<1>10. InStep(v, {"leave"}) => InStep(u, {"leave"}) /\ v.act.id = u.act.id
  BY <1>2 DEF InStep, Leaving
<1>11. LeftAck(v, m, S)
  BY <1>10 DEF AckOK, LeftAck
<1>12. LeaveAck(v, n, cmds)
  BY <1>10 DEF AckOK, LeaveAck
<1>13. ReplyAck(S, cmds)
  BY DEF AckOK, ReplyAck
<1> QED BY <1>3, <1>4, <1>5, <1>9, <1>11, <1>12, <1>13 DEF AckOK

\* The same for a move.
LEMMA ViewMoves ==
    ASSUME NEW u \in View, NEW v, NEW m \in Memory, NEW P \in SUBSET PendingCall, NEW n \in Connection,
           NEW cmds \in Seq(Command), NEW R \in SUBSET Value, NEW S \in SUBSET R,
           AckOK(u, m, P, n, cmds, R), Moves(u, v)
    PROVE  AckOK(v, m, P, n, cmds, S)
<1>1. v \in View /\ Stays(u, v) /\ ViewAck(v)
  BY DEF Moves, Follows
<1> QED BY <1>1, ViewStays

\* Commands other than calls, behind the others.
LEMMA MoreAck ==
    ASSUME NEW u \in View, NEW m, NEW P, NEW n, NEW R, NEW cmds \in Seq(Command), NEW more \in Seq(Command),
           AckOK(u, m, P, n, cmds, R), Len(cmds) <= Len(more),
           \A k \in 1 .. Len(cmds) : more[k] = cmds[k],
           \A k \in 1 .. Len(more) : k > Len(cmds) => more[k].op # "rpc" /\ CommandAck(u, more[k]) /\ Harmless(u, more[k])
    PROVE  AckOK(u, m, P, n, more, R)
<1>0. Len(cmds) \in Nat /\ Len(more) \in Nat
  OBVIOUS
<1>1. \A k \in 1 .. Len(more) : \/ k \in 1 .. Len(cmds) /\ more[k] = cmds[k]
                                \/ k > Len(cmds) /\ more[k].op # "rpc" /\ CommandAck(u, more[k]) /\ Harmless(u, more[k])
  BY <1>0
<1>2. QueueAck(u, more)
  BY <1>1 DEF AckOK, QueueAck
<1>3. Clean(u, cmds, P) => Clean(u, more, P)
  BY <1>1 DEF Clean
<1>4. Superseded(u, cmds) => Superseded(u, more)
  <2>1. SUFFICES ASSUME NEW k \in 1 .. Len(cmds), IsCall(cmds[k], "unsubscribe"), cmds[k].call.id = u.act.id,
                        \A j \in 1 .. Len(cmds) : j > k => Harmless(u, cmds[j])
                 PROVE  Superseded(u, more)
    BY DEF Superseded
  <2>2. k \in 1 .. Len(more) /\ more[k] = cmds[k]
    BY <1>0
  <2>3. \A j \in 1 .. Len(more) : j > k => Harmless(u, more[j])
    BY <1>1, <2>1
  <2> QED BY <2>1, <2>2, <2>3 DEF Superseded
<1>5. DrainAck(u, more, P)
  BY <1>3, <1>4 DEF AckOK, DrainAck
<1>6. LeaveAck(u, n, more)
  BY <1>1 DEF AckOK, LeaveAck
<1>7. ReplyAck(R, more)
  BY <1>1 DEF AckOK, ReplyAck
<1> QED BY <1>2, <1>5, <1>6, <1>7 DEF AckOK

\* flush_ack queues a cursor that has been applied.
LEMMA FlushAck ==
    ASSUME NEW u \in View, NEW m, NEW P, NEW n, NEW R, NEW cmds \in Seq(Command), u.ack # 0,
           AckOK(u, m, P, n, cmds, R), Append(cmds, Ack(u.ws, u.ack)) \in Seq(Command)
    PROVE  AckOK(u, m, P, n, Append(cmds, Ack(u.ws, u.ack)), R)
<1>1. PICK c : c = Ack(u.ws, u.ack)
  OBVIOUS
<1>2. c.op = "ack" /\ c.ws = u.ws /\ c.seq = u.ack
  BY <1>1 DEF Ack
<1>3. PICK more \in Seq(Command) : more = Append(cmds, c)
  BY <1>1
<1>4. Len(more) = Len(cmds) + 1 /\ more[Len(cmds) + 1] = c /\ \A k \in 1 .. Len(cmds) : more[k] = cmds[k]
  BY <1>3
<1>5. c.op # "rpc" /\ CommandAck(u, c) /\ Harmless(u, c)
  <2>1. Bound(u, u.ack)
    BY DEF AckOK, ViewAck
  <2> QED BY <1>2, <2>1 DEF CommandAck, Harmless, IsCall
<1>6. \A k \in 1 .. Len(more) : k > Len(cmds) => k = Len(cmds) + 1
  BY <1>4
<1>7. \A k \in 1 .. Len(more) : k > Len(cmds) => more[k].op # "rpc" /\ CommandAck(u, more[k]) /\ Harmless(u, more[k])
  BY <1>4, <1>5, <1>6
<1>8. Len(cmds) <= Len(more)
  BY <1>4
<1> QED BY <1>1, <1>3, <1>4, <1>7, <1>8, MoreAck

\* schedule asks for what follows the applied cursor, and not during a switch.
LEMMA ScheduleMoves ==
    ASSUME NEW u \in View, ViewAck(u)
    PROVE  Moves(u, Schedule(u))
<1>0. u.applied \in Int /\ u.applied >= -1
  BY DEF View, ViewAck, Absent
<1>1. PICK x \in View : x = Schedule(u) /\ x.ws = u.ws /\ x.applied = u.applied /\ x.ack = u.ack /\ x.act = u.act
  BY ScheduleOK
<1>2. Moves(u, u)
  BY <1>0, UnmovedMoves DEF Unmoved, Keeps, JobId, InStep
<1>3. CASE u.conn # "up" \/ u.switching # None \/ u.ws = None
  BY <1>2, <1>3 DEF Schedule
<1>4. CASE ~ (u.conn # "up" \/ u.switching # None \/ u.ws = None)
  <2>1. ~ InStep(u, Leaving) /\ ~ InStep(x, Leaving)
    BY <1>1, <1>4 DEF ViewAck, InStep
  <2>2. PICK s \in View : s = StartRecent(u) /\ s.sync = u.sync /\ s.applied = u.applied
                          /\ JobId(s.recent) \in {None, JobId(u.recent)}
    <3>1. PICK r \in Read : r = NewRead("history", u)
      BY NewReadOK
    <3>2. [u EXCEPT !.queued = @ \ {"Recent"}, !.recent = r] \in View
      BY DEF View
    <3>3. StartRecent(u) = u \/ StartRecent(u) = [u EXCEPT !.queued = @ \ {"Recent"}, !.recent = r]
      BY <3>1 DEF StartRecent
    <3>4. JobId(r) = None
      BY <3>1 DEF NewRead, JobId
    <3> QED BY <3>2, <3>3, <3>4 DEF View
  <2>3. x = StartSync(s)
    BY <1>1, <1>4, <2>2 DEF Schedule
  <2>4. x.recent = s.recent /\ (x.sync = u.sync \/ (s.applied # Absent /\ x.sync.after = s.applied /\ JobId(x.sync) = None))
    <3>1. NewRead(IF s.reset THEN "unsubscribe" ELSE "subscribe", s) \in Read
      BY NewReadOK
    <3>2. PICK r \in Read : r = NewRead(IF s.reset THEN "unsubscribe" ELSE "subscribe", s)
      BY <3>1
    <3>3. r.after = s.applied /\ JobId(r) = None
      BY <3>2 DEF NewRead, JobId
    <3>4. \/ x = s
          \/ x = [s EXCEPT !.queued = @ \ {"Sync"}]
          \/ s.applied # Absent /\ x = [s EXCEPT !.queued = @ \ {"Sync"}, !.reset = FALSE, !.sync = r]
      BY <2>3, <3>2 DEF StartSync
    <3>5. CASE x = s
      BY <2>2, <3>5
    <3>6. CASE x = [s EXCEPT !.queued = @ \ {"Sync"}]
      BY <2>2, <3>6 DEF View
    <3>7. CASE s.applied # Absent /\ x = [s EXCEPT !.queued = @ \ {"Sync"}, !.reset = FALSE, !.sync = r]
      BY <3>3, <3>7 DEF View
    <3> QED BY <3>4, <3>5, <3>6, <3>7
  <2>5. x.sync # None => Bound(x, x.sync.after)
    BY <1>0, <1>1, <2>2, <2>4 DEF ViewAck, Bound, Absent
  <2>6. ViewAck(x)
    BY <1>1, <1>4, <2>1, <2>5 DEF ViewAck, Bound
  <2>7. Keeps(u, x)
    BY <1>1, <2>2, <2>4 DEF Keeps
  <2>8. Follows(u, x)
    BY <1>0, <1>1, <2>1, <2>7 DEF Follows, Stays
  <2> QED BY <1>1, <2>6, <2>8 DEF Moves
<1> QED BY <1>3, <1>4

\* The flushed cursor is taken out of the view.
LEMMA FlushedOK ==
    ASSUME NEW u \in View
    PROVE  [u EXCEPT !.ack = 0] \in View
BY DEF View

\* The end of every handler.
LEMMA LoopAck ==
    ASSUME NEW u \in View, NEW m \in Memory, NEW P \in SUBSET PendingCall, NEW n \in Connection,
           NEW cmds \in Seq(Command), NEW R \in SUBSET Value, AckOK(u, m, P, n, cmds, R),
           commands' \in Seq(Command), Loop(u, cmds)
    PROVE  AckOK(ui', m, P, n, commands', R) /\ Moves(u, ui')
<1>1. ViewAck(u)
  BY DEF AckOK
<1>2. CASE ~ Flushes(u, cmds)
  <2>1. commands' = cmds /\ ui' = Schedule(u)
    BY <1>2 DEF Loop
  <2>2. Moves(u, ui')
    BY <1>1, <2>1, ScheduleMoves
  <2> QED BY <2>1, <2>2, ViewMoves
<1>3. CASE Flushes(u, cmds)
  <2>1. commands' = Append(cmds, Ack(u.ws, u.ack)) /\ ui' = Schedule([u EXCEPT !.ack = 0])
    BY <1>3 DEF Loop
  <2>2. PICK more \in Seq(Command) : more = commands' /\ AckOK(u, m, P, n, more, R)
    BY <1>3, <2>1, FlushAck DEF Flushes
  <2>3. PICK v \in View : v = [u EXCEPT !.ack = 0]
    BY FlushedOK
  <2>4. v.ws = u.ws /\ v.applied = u.applied /\ v.ack = 0 /\ v.sync = u.sync /\ v.act = u.act
        /\ v.switching = u.switching /\ v.recent = u.recent /\ u.applied \in Int
    BY <2>3 DEF View
  <2>5. Moves(u, v)
    BY <1>1, <2>4 DEF Moves, Follows, Stays, Keeps, ViewAck, Bound, InStep
  <2>6. Moves(v, ui')
    <3>1. ViewAck(v)
      BY <2>5 DEF Moves
    <3> QED BY <2>1, <2>3, <3>1, ScheduleMoves
  <2>7. Moves(u, ui')
    BY <2>5, <2>6, MovesTrans
  <2> QED BY <2>2, <2>7, ViewMoves
<1> QED BY <1>2, <1>3

\* A handler of the controller that moves the view within the shown room.
LEMMA HandlerAck ==
    ASSUME Inv, Inv', AckInv, UNCHANGED <<net, pending>>,
           client' = client \/ client' = [client EXCEPT !.news = FALSE],
           replies' \subseteq replies, NEW u, Moves(ui, u), WaitOK(u, waiting'), Loop(u, commands)
    PROVE  AckInv'
<1>1. /\ ui \in View /\ client \in Memory /\ pending \in SUBSET PendingCall /\ net \in Connection
      /\ commands \in Seq(Command) /\ replies \in SUBSET Value
  BY DEF Inv, TypeOK, FeedTypeOK, CommandsOK
<1>2. commands' \in Seq(Command) /\ replies' \in SUBSET Value
  BY DEF Inv, TypeOK, FeedTypeOK, CommandsOK
<1>3. u \in View
  BY DEF Moves
<1>4. PICK R \in SUBSET Value : R = replies'
  BY <1>2
<1>5. R \in SUBSET replies /\ AckOK(ui, client, pending, net, commands, replies)
  BY <1>4 DEF AckInv
<1>6. AckOK(u, client, pending, net, commands, R)
  BY <1>1, <1>5, ViewMoves
<1>7. AckOK(ui', client, pending, net, commands', R) /\ Moves(u, ui')
  BY <1>1, <1>2, <1>3, <1>6, LoopAck
<1>8. PICK q \in Memory : q = client' /\ q.subscribed = client.subscribed /\ q.acked = client.acked /\ q.phase = client.phase
  <2>1. [client EXCEPT !.news = FALSE] \in Memory
    BY <1>1 DEF Memory
  <2> QED BY <1>1, <2>1 DEF Memory
<1>9. AckOK(ui', q, pending, net, commands', R)
  BY <1>7, <1>8 DEF AckOK, MemoryAck, LeftAck, DownAck
<1>10. WaitOK(ui', waiting')
  BY <1>7, WaitMoves
<1> QED BY <1>4, <1>8, <1>9, <1>10 DEF AckInv

\* A read is asked for.
LEMMA EnqueueMoves ==
    ASSUME NEW u \in View, NEW kind \in {"Recent", "Sync"}, ViewAck(u)
    PROVE  Moves(u, Enqueue(u, kind))
<1>1. PICK v \in View : v = Enqueue(u, kind) /\ Alike(v, u)
  BY EnqueueOK
<1>2. v.sync = u.sync /\ v.recent = u.recent /\ v.switching = u.switching
  BY <1>1 DEF Enqueue, View
<1>3. Unmoved(u, v)
  BY <1>1, <1>2 DEF Unmoved, Keeps, JobId, Alike, InStep
<1> QED BY <1>1, <1>3, UnmovedMoves

\* The view is, or is no longer, live.
LEMMA SyncedMoves ==
    ASSUME NEW u \in View, NEW b \in BOOLEAN, ViewAck(u)
    PROVE  Moves(u, [u EXCEPT !.synced = b])
<1>1. [u EXCEPT !.synced = b] \in View
  BY DEF View
<1>2. PICK v \in View : v = [u EXCEPT !.synced = b]
  BY <1>1
<1>3. Unmoved(u, v)
  BY <1>2 DEF Unmoved, Keeps, JobId, View, InStep
<1> QED BY <1>2, <1>3, UnmovedMoves

\* A gap resets the subscription.
LEMMA GappedMoves ==
    ASSUME NEW u \in View, ViewAck(u)
    PROVE  Moves(u, Gapped(u))
<1>1. PICK v \in View : v = Enqueue(u, "Sync") /\ Alike(v, u)
  BY EnqueueOK
<1>2. v.sync = u.sync /\ v.recent = u.recent /\ v.switching = u.switching
  BY <1>1 DEF Enqueue, View
<1>3. PICK s \in Read \cup {None} : /\ s = IF v.sync = None THEN None ELSE [v.sync EXCEPT !.gapped = TRUE]
                                    /\ s # None => v.sync # None /\ s.after = v.sync.after /\ s.id = v.sync.id
  <2>1. CASE v.sync = None
    BY <2>1
  <2>2. CASE v.sync # None
    <3>1. v.sync \in Read
      BY <2>2 DEF View
    <3>2. [v.sync EXCEPT !.gapped = TRUE] \in Read /\ [v.sync EXCEPT !.gapped = TRUE].after = v.sync.after
          /\ [v.sync EXCEPT !.gapped = TRUE].id = v.sync.id
      BY <3>1 DEF Read
    <3> QED BY <2>2, <3>2
  <2> QED BY <2>1, <2>2
<1>4. Gapped(u) = [v EXCEPT !.reset = TRUE, !.sync = s]
  BY <1>1, <1>3 DEF Gapped
<1>5. [v EXCEPT !.reset = TRUE, !.sync = s] \in View
  BY DEF View
<1>6. PICK x \in View : x = [v EXCEPT !.reset = TRUE, !.sync = s]
  BY <1>5
<1>7. x.ws = v.ws /\ x.applied = v.applied /\ x.ack = v.ack /\ x.act = v.act /\ x.sync = s
      /\ x.recent = v.recent /\ x.switching = v.switching
  BY <1>6 DEF View
<1>8. Unmoved(u, x)
  BY <1>1, <1>2, <1>3, <1>7 DEF Unmoved, Keeps, JobId, Alike, InStep
<1> QED BY <1>4, <1>6, <1>8, UnmovedMoves

\* apply_event: what is applied is acknowledged.
LEMMA ApplyMoves ==
    ASSUME NEW u \in View, NEW w \in Room, NEW lo \in Int, NEW hi \in Int, ViewAck(u)
    PROVE  Moves(u, Apply(u, w, lo, hi))
<1>0. u.applied \in Int /\ u.ack \in Int
  BY DEF View
<1>1. CASE u.ws # w \/ lo = hi
  <2>1. Unmoved(u, u)
    BY DEF Unmoved, Keeps, JobId, InStep
  <2> QED BY <1>1, <2>1, UnmovedMoves DEF Apply
<1>2. CASE u.ws = w /\ lo # hi /\ u.applied = Absent
  <2>1. Apply(u, w, lo, hi) = Gapped(u)
    BY <1>2 DEF Apply
  <2> QED BY <2>1, GappedMoves
<1>3. CASE u.ws = w /\ lo # hi /\ u.applied # Absent /\ lo > u.applied
  <2>1. PICK b \in BOOLEAN : b = FALSE
    OBVIOUS
  <2>2. Moves(u, [u EXCEPT !.synced = b])
    BY SyncedMoves
  <2>3. PICK v \in View : v = [u EXCEPT !.synced = b] /\ Moves(u, v) /\ ViewAck(v)
    BY <2>2 DEF Moves
  <2>4. Apply(u, w, lo, hi) = Gapped(v)
    BY <1>3, <2>1, <2>3 DEF Apply
  <2>5. Moves(v, Gapped(v))
    BY <2>3, GappedMoves
  <2> QED BY <2>3, <2>4, <2>5, MovesTrans
<1>4. CASE u.ws = w /\ lo # hi /\ u.applied # Absent /\ ~ (lo > u.applied)
  <2>1. PICK v \in View : /\ v = Acknowledge(u, w, u.applied, hi) /\ Alike(v, u)
                          /\ v.sync = u.sync /\ v.recent = u.recent /\ v.switching = u.switching
    <3>1. [u EXCEPT !.chat = "idle"] \in View
      BY DEF View
    <3>2. PICK c \in View : c = [u EXCEPT !.chat = "idle"]
      BY <3>1
    <3>3. Alike(c, u) /\ c.sync = u.sync /\ c.recent = u.recent /\ c.switching = u.switching
      BY <3>2 DEF View, Alike
    <3>4. Alike(u, u)
      BY DEF Alike
    <3> QED BY <3>2, <3>3, <3>4 DEF Acknowledge
  <2>2. v.applied = u.applied /\ v.ack = u.ack /\ v.ws = u.ws /\ v.act = u.act
    BY <2>1 DEF Alike
  <2>3. PICK a \in Int : a = Max({v.applied, hi}) /\ a >= u.applied /\ a >= hi
    <3>1. PICK z \in Int : z = v.applied /\ z = u.applied
      BY <1>0, <2>2
    <3>2. (Max({z, hi}) = z \/ Max({z, hi}) = hi) /\ Max({z, hi}) >= z /\ Max({z, hi}) >= hi
      BY MaxTwo
    <3> QED BY <3>1, <3>2
  <2>4. PICK b \in Int : b = Max({v.ack, hi}) /\ (b = u.ack \/ b = hi) /\ b >= u.ack
    <3>1. PICK z \in Int : z = v.ack /\ z = u.ack
      BY <1>0, <2>2
    <3>2. (Max({z, hi}) = z \/ Max({z, hi}) = hi) /\ Max({z, hi}) >= z /\ Max({z, hi}) >= hi
      BY MaxTwo
    <3> QED BY <3>1, <3>2
  <2>5. Apply(u, w, lo, hi) = [v EXCEPT !.applied = a, !.ack = b]
    BY <1>4, <2>1, <2>3, <2>4 DEF Apply
  <2>6. [v EXCEPT !.applied = a, !.ack = b] \in View
    BY DEF View
  <2>7. PICK x \in View : x = [v EXCEPT !.applied = a, !.ack = b]
    BY <2>6
  <2>8. x.applied = a /\ x.ack = b /\ x.ws = u.ws /\ x.act = u.act
        /\ x.sync = u.sync /\ x.recent = u.recent /\ x.switching = u.switching
    BY <2>1, <2>2, <2>7 DEF View
  <2>9. u.applied >= -1 /\ u.ack >= 0 /\ (u.ack # 0 => u.ack <= u.applied)
    BY <1>0 DEF ViewAck, Bound, Absent
  <2>10. b # 0 => 0 <= b /\ b <= a
    BY <1>0, <2>3, <2>4, <2>9
  <2>11. u.sync # None => u.sync.after \in Int /\ 0 <= u.sync.after /\ u.sync.after <= u.applied
    BY DEF ViewAck, Bound, View, Read
  <2>12. u.sync # None => 0 <= u.sync.after /\ u.sync.after <= a
    BY <1>0, <2>3, <2>11
  <2>13. InStep(x, Leaving) => InStep(u, Leaving) /\ InStep(u, {x.act.step})
    BY <2>8 DEF InStep
  <2>14. a >= -1
    BY <1>0, <2>3, <2>9
  <2>15. ViewAck(x)
    BY <2>8, <2>10, <2>12, <2>13, <2>14 DEF ViewAck, Bound, Absent
  <2>16. Follows(u, x)
    BY <2>3, <2>8, <2>13 DEF Follows, Stays, Keeps
  <2> QED BY <2>5, <2>7, <2>15, <2>16 DEF Moves
<1> QED BY <1>1, <1>2, <1>3, <1>4

\* The controller applies an event.
LEMMA TakeEventAck == ASSUME Inv, Inv', AckInv, TakeEvent PROVE AckInv'
<1>1. events \in Seq(Notice) /\ events # <<>> /\ ui \in View /\ ViewAck(ui)
  BY DEF Inv, TypeOK, FeedTypeOK, TakeEvent, AckInv, AckOK
<1>2. Head(events) \in Notice
  BY <1>1
<1>3. PICK e \in Notice : e = Head(events)
  BY <1>2
<1>4. e.ws \in Room /\ e.seq \in Int /\ e.seq - 1 \in Int
  BY DEF Notice
<1>5. PICK u : u = (IF e.ws = None \/ ui.ws = None THEN ui ELSE Apply(ui, e.ws, e.seq - 1, e.seq))
  OBVIOUS
<1>6. Moves(ui, u)
  <2>1. Moves(ui, ui)
    BY <1>1, UnmovedMoves DEF Unmoved, Keeps, JobId, InStep
  <2>2. Moves(ui, Apply(ui, e.ws, e.seq - 1, e.seq))
    BY <1>1, <1>4, ApplyMoves
  <2> QED BY <1>5, <2>1, <2>2
<1>7. Loop(u, commands)
  BY <1>3, <1>5 DEF TakeEvent
<1>8. UNCHANGED <<net, pending>> /\ client' = client /\ replies' \subseteq replies /\ waiting' = waiting
  BY DEF TakeEvent
<1>9. WaitOK(u, waiting')
  BY <1>6, <1>8, WaitMoves DEF AckInv
<1> QED BY <1>6, <1>7, <1>8, <1>9, HandlerAck

\* A read is over.
LEMMA ClearedMoves ==
    ASSUME NEW u \in View, ViewAck(u)
    PROVE  Moves(u, [u EXCEPT !.sync = None]) /\ Moves(u, [u EXCEPT !.recent = None])
<1>1. [u EXCEPT !.sync = None] \in View /\ [u EXCEPT !.recent = None] \in View
  BY DEF View
<1>2. PICK v \in View, x \in View : v = [u EXCEPT !.sync = None] /\ x = [u EXCEPT !.recent = None]
  BY <1>1
<1>3. Unmoved(u, v)
  BY <1>2 DEF Unmoved, Keeps, JobId, View, InStep
<1>4. Unmoved(u, x)
  BY <1>2 DEF Unmoved, Keeps, JobId, View, InStep
<1> QED BY <1>2, <1>3, <1>4, UnmovedMoves

\* A Sync read ends.
LEMMA SyncDoneAck == ASSUME Inv, Inv', AckInv, SyncDone PROVE AckInv'
<1>1. ui \in View /\ ViewAck(ui)
  BY DEF Inv, TypeOK, AckInv, AckOK
<1>2. PICK u \in View : u = [ui EXCEPT !.sync = None] /\ Moves(ui, u) /\ ViewAck(u)
  <2>1. Moves(ui, [ui EXCEPT !.sync = None])
    BY <1>1, ClearedMoves
  <2> QED BY <2>1 DEF Moves
<1>3. PICK v \in Reply(ui.sync) :
         /\ Loop(IF v.ok /\ Accepts(ui, ui.sync) THEN SyncPage(u, ui.sync, v) ELSE u, commands)
         /\ TakeReply(v)
  BY <1>2 DEF SyncDone
<1>4. PICK x : x = IF v.ok /\ Accepts(ui, ui.sync) THEN SyncPage(u, ui.sync, v) ELSE u
  OBVIOUS
<1>5. Moves(ui, x) /\ Moves(u, x)
  <2>0. Moves(u, u)
    BY <1>2, UnmovedMoves DEF Unmoved, Keeps, JobId, InStep
  <2>1. CASE ~ (v.ok /\ Accepts(ui, ui.sync))
    BY <1>2, <1>4, <2>0, <2>1
  <2>2. CASE v.ok /\ Accepts(ui, ui.sync)
    <3>1. v \in Value
      BY <2>2, ReplyOK
    <3>2. v.ws \in Room /\ v.lo \in Int /\ v.hi \in Int
      BY <3>1 DEF Value
    <3>3. Moves(u, Apply(u, v.ws, v.lo, v.hi))
      BY <1>2, <3>2, ApplyMoves
    <3>4. PICK y \in View : y = Apply(u, v.ws, v.lo, v.hi) /\ Moves(u, y) /\ ViewAck(y)
      BY <3>3 DEF Moves
    <3>5. PICK b \in BOOLEAN, kind \in {"Recent", "Sync"} : b = TRUE /\ kind = "Sync"
      OBVIOUS
    <3>6. Moves(y, [y EXCEPT !.synced = b]) /\ Moves(y, Enqueue(y, kind))
      BY <3>4, SyncedMoves, EnqueueMoves
    <3>7. x = [y EXCEPT !.synced = b] \/ x = Enqueue(y, kind)
      BY <1>4, <2>2, <3>4, <3>5 DEF SyncPage
    <3>8. Moves(y, x)
      BY <3>6, <3>7
    <3>9. Moves(u, x)
      BY <3>4, <3>8, MovesTrans
    <3> QED BY <1>1, <1>2, <3>9, MovesTrans
  <2> QED BY <2>1, <2>2
<1>6. /\ UNCHANGED <<net, pending>> /\ client' = client /\ replies' \subseteq replies
      /\ waiting' = waiting \ {v.id}
  BY <1>3 DEF SyncDone, TakeReply
<1>7. WaitOK(x, waiting')
  <2>1. v.id \in {None, JobId(ui.sync)}
    BY ReplyId DEF SyncDone
  <2>2. JobId(u.sync) = None
    BY <1>1, <1>2 DEF View, JobId
  <2>3. WaitOK(u, waiting \ {v.id})
    BY <1>2, <2>1, <2>2, WaitTaken DEF AckInv
  <2> QED BY <1>5, <1>6, <2>3, WaitMoves
<1> QED BY <1>3, <1>4, <1>5, <1>6, <1>7, HandlerAck

\* A Recent read ends: the cursor is seeded while nothing refers to it.
LEMMA RecentDoneAck == ASSUME Inv, Inv', AckInv, RecentDone PROVE AckInv'
<1>1. ui \in View /\ ViewAck(ui) /\ ReplyAck(replies, commands)
  BY DEF Inv, TypeOK, AckInv, AckOK
<1>2. PICK u \in View : u = [ui EXCEPT !.recent = None] /\ Moves(ui, u) /\ ViewAck(u)
  <2>1. Moves(ui, [ui EXCEPT !.recent = None])
    BY <1>1, ClearedMoves
  <2> QED BY <2>1 DEF Moves
<1>3. PICK v \in Reply(ui.recent) :
         /\ Loop(IF v.ok /\ Accepts(ui, ui.recent) THEN RecentPage(u, v) ELSE u, commands)
         /\ TakeReply(v)
  BY <1>2 DEF RecentDone
<1>4. PICK x : x = IF v.ok /\ Accepts(ui, ui.recent) THEN RecentPage(u, v) ELSE u
  OBVIOUS
<1>5. Moves(ui, x) /\ Moves(u, x)
  <2>0. Moves(u, u)
    BY <1>2, UnmovedMoves DEF Unmoved, Keeps, JobId, InStep
  <2>1. CASE ~ (v.ok /\ Accepts(ui, ui.recent)) \/ v.ws # u.ws
    BY <1>2, <1>4, <2>0, <2>1 DEF RecentPage
  <2>2. CASE v.ok /\ Accepts(ui, ui.recent) /\ v.ws = u.ws
    <3>1. v \in Value /\ v.lo >= 0
      BY <1>1, <2>2, ReplyOK DEF Reply, Failed, ReplyAck
    <3>2. v.ws \in Room /\ v.lo \in Int /\ v.hi \in Int
      BY <3>1 DEF Value
    <3>3. PICK y \in View : /\ y = IF u.applied = Absent THEN Apply([u EXCEPT !.applied = v.lo], v.ws, v.lo, v.hi) ELSE u
                            /\ Moves(u, y)
      <4>1. CASE u.applied # Absent
        <5>1. Moves(u, u)
          BY <1>2, UnmovedMoves DEF Unmoved, Keeps, JobId, InStep
        <5> QED BY <4>1, <5>1
      <4>2. CASE u.applied = Absent
        <5>1. [u EXCEPT !.applied = v.lo] \in View
          BY <3>2 DEF View
        <5>2. PICK z \in View : z = [u EXCEPT !.applied = v.lo]
          BY <5>1
        <5>3. z.ws = u.ws /\ z.applied = v.lo /\ z.ack = u.ack /\ z.act = u.act 
              /\ z.sync = u.sync /\ z.recent = u.recent /\ z.switching = u.switching
          BY <5>2 DEF View
        <5>4. u.ack = 0 /\ u.sync = None /\ u.applied = -1
          <6>1. u.ack \in Int /\ (u.sync # None => u.sync.after \in Int)
            BY DEF View, Read
          <6> QED BY <1>2, <4>2, <6>1 DEF ViewAck, Bound, Absent
        <5>5. InStep(z, Leaving) => InStep(u, Leaving) /\ InStep(u, {z.act.step})
          BY <5>3 DEF InStep
        <5>6. ViewAck(z)
          BY <1>2, <3>1, <3>2, <5>3, <5>4, <5>5 DEF ViewAck, Absent
        <5>7. Follows(u, z)
          BY <3>1, <3>2, <5>3, <5>4, <5>5 DEF Follows, Stays, Keeps
        <5>8. Moves(u, z)
          BY <5>6, <5>7 DEF Moves
        <5>9. Moves(z, Apply(z, v.ws, v.lo, v.hi))
          BY <3>2, <5>6, ApplyMoves
        <5>10. Moves(u, Apply(z, v.ws, v.lo, v.hi))
          BY <5>8, <5>9, MovesTrans
        <5> QED BY <4>2, <5>2, <5>10 DEF Moves
      <4> QED BY <4>1, <4>2
    <3>4. PICK kind \in {"Recent", "Sync"} : kind = "Sync"
      OBVIOUS
    <3>5. x = Enqueue(y, kind)
      BY <1>4, <2>2, <3>3, <3>4 DEF RecentPage
    <3>6. ViewAck(y)
      BY <3>3 DEF Moves
    <3>7. Moves(y, x)
      BY <3>5, <3>6, EnqueueMoves
    <3>8. Moves(u, x)
      BY <3>3, <3>7, MovesTrans
    <3> QED BY <1>1, <1>2, <3>8, MovesTrans
  <2> QED BY <2>1, <2>2
<1>6. /\ UNCHANGED <<net, pending>> /\ client' = client /\ replies' \subseteq replies
      /\ waiting' = waiting \ {v.id}
  BY <1>3 DEF RecentDone, TakeReply
<1>7. WaitOK(x, waiting')
  <2>1. v.id \in {None, JobId(ui.recent)}
    BY ReplyId DEF RecentDone
  <2>2. JobId(u.recent) = None
    BY <1>1, <1>2 DEF View, JobId
  <2>3. WaitOK(u, waiting \ {v.id})
    BY <1>2, <2>1, <2>2, WaitTaken DEF AckInv
  <2> QED BY <1>5, <1>6, <2>3, WaitMoves
<1> QED BY <1>3, <1>4, <1>5, <1>6, <1>7, HandlerAck

\* Tasks of an earlier epoch are fenced.
LEMMA FenceAllMoves ==
    ASSUME NEW u \in View, ViewAck(u)
    PROVE  Moves(u, FenceAll(u))
<1>1. PICK s \in Read \cup {None} : s = FenceJob(u.sync) /\ (s # None => u.sync # None /\ s.after = u.sync.after /\ s.id = u.sync.id)
  <2>1. CASE u.sync = None
    BY <2>1 DEF FenceJob
  <2>2. CASE u.sync # None
    <3>1. u.sync \in Read
      BY <2>2 DEF View
    <3>2. [u.sync EXCEPT !.fenced = TRUE] \in Read /\ [u.sync EXCEPT !.fenced = TRUE].after = u.sync.after
          /\ [u.sync EXCEPT !.fenced = TRUE].id = u.sync.id
      BY <3>1 DEF Read
    <3> QED BY <2>2, <3>2 DEF FenceJob
  <2> QED BY <2>1, <2>2
<1>2. PICK r \in Read \cup {None} : r = FenceJob(u.recent) /\ (r # None => u.recent # None /\ r.id = u.recent.id)
  <2>1. CASE u.recent = None
    BY <2>1 DEF FenceJob
  <2>2. CASE u.recent # None
    <3>1. u.recent \in Read
      BY <2>2 DEF View
    <3>2. [u.recent EXCEPT !.fenced = TRUE] \in Read /\ [u.recent EXCEPT !.fenced = TRUE].id = u.recent.id
      BY <3>1 DEF Read
    <3> QED BY <2>2, <3>2 DEF FenceJob
  <2> QED BY <2>1, <2>2
<1>3. PICK a \in Action \cup {None} :
         /\ a = FenceJob(u.act)
         /\ a # None => u.act # None /\ a.step = u.act.step /\ a.id = u.act.id /\ a.target = u.act.target
  <2>1. CASE u.act = None
    BY <2>1 DEF FenceJob
  <2>2. CASE u.act # None
    <3>1. u.act \in Action
      BY <2>2 DEF View
    <3>2. [u.act EXCEPT !.fenced = TRUE] \in Action
      BY <3>1 DEF Action
    <3>3. PICK b \in Action : b = [u.act EXCEPT !.fenced = TRUE]
      BY <3>2
    <3>4. b.step = u.act.step /\ b.id = u.act.id /\ b.target = u.act.target
      BY <3>1, <3>3 DEF Action
    <3> QED BY <2>2, <3>3, <3>4 DEF FenceJob
  <2> QED BY <2>1, <2>2
<1>4. FenceAll(u) = [u EXCEPT !.sync = s, !.recent = r, !.act = a]
  BY <1>1, <1>2, <1>3 DEF FenceAll, View
<1>5. [u EXCEPT !.sync = s, !.recent = r, !.act = a] \in View
  BY DEF View
<1>6. PICK v \in View : v = [u EXCEPT !.sync = s, !.recent = r, !.act = a]
  BY <1>5
<1>7. v.ws = u.ws /\ v.applied = u.applied /\ v.ack = u.ack /\ v.sync = s /\ v.recent = r
      /\ v.act = a /\ v.switching = u.switching
  BY <1>6 DEF View
<1>8. Unmoved(u, v)
  BY <1>1, <1>2, <1>3, <1>7 DEF Unmoved, Keeps, JobId, InStep
<1> QED BY <1>4, <1>6, <1>8, UnmovedMoves

\* The connection is shown, a recovery forgotten, a chat settled or uncertain.
LEMMA MarkMoves ==
    ASSUME NEW u \in View, ViewAck(u)
    PROVE  /\ \A c \in {"up", "down", "closed"} : Moves(u, [u EXCEPT !.conn = c])
           /\ Moves(u, [u EXCEPT !.restore = None])
           /\ \A c \in {"idle", "sent", "uncertain"} : Moves(u, [u EXCEPT !.chat = c])
           /\ Moves(u, Uncertain(u))
<1>1. ASSUME NEW c \in {"up", "down", "closed"} PROVE Moves(u, [u EXCEPT !.conn = c])
  <2>1. [u EXCEPT !.conn = c] \in View
    BY DEF View
  <2>2. PICK v \in View : v = [u EXCEPT !.conn = c]
    BY <2>1
  <2>3. Unmoved(u, v)
    BY <2>2 DEF Unmoved, Keeps, JobId, View, InStep
  <2> QED BY <2>2, <2>3, UnmovedMoves
<1>2. Moves(u, [u EXCEPT !.restore = None])
  <2>1. [u EXCEPT !.restore = None] \in View
    BY DEF View, Room
  <2>2. PICK v \in View : v = [u EXCEPT !.restore = None]
    BY <2>1
  <2>3. Unmoved(u, v)
    BY <2>2 DEF Unmoved, Keeps, JobId, View, InStep
  <2> QED BY <2>2, <2>3, UnmovedMoves
<1>3. ASSUME NEW c \in {"idle", "sent", "uncertain"} PROVE Moves(u, [u EXCEPT !.chat = c])
  <2>1. [u EXCEPT !.chat = c] \in View
    BY DEF View
  <2>2. PICK v \in View : v = [u EXCEPT !.chat = c]
    BY <2>1
  <2>3. Unmoved(u, v)
    BY <2>2 DEF Unmoved, Keeps, JobId, View, InStep
  <2> QED BY <2>2, <2>3, UnmovedMoves
<1>4. Moves(u, Uncertain(u))
  <2>1. PICK c \in {"idle", "sent", "uncertain"} : c = IF u.chat = "sent" THEN "uncertain" ELSE u.chat
    BY DEF View
  <2>2. Uncertain(u) = [u EXCEPT !.chat = c]
    BY <2>1 DEF Uncertain
  <2> QED BY <1>3, <2>2
<1> QED BY <1>1, <1>2, <1>3, <1>4

\* The action ends, or another that leaves no room takes its place.
LEMMA ActMoves ==
    ASSUME NEW u \in View, ViewAck(u), NEW a \in Action \cup {None}, a # None => a.step \notin Leaving /\ a.id = None
    PROVE  Moves(u, [u EXCEPT !.act = a])
<1>1. [u EXCEPT !.act = a] \in View
  BY DEF View
<1>2. PICK v \in View : v = [u EXCEPT !.act = a]
  BY <1>1
<1>3. v.ws = u.ws /\ v.applied = u.applied /\ v.ack = u.ack /\ v.sync = u.sync /\ v.recent = u.recent /\ v.act = a
  BY <1>2 DEF View
<1>4. Unmoved(u, v)
  BY <1>3 DEF Unmoved, Keeps, JobId, InStep
<1> QED BY <1>2, <1>4, UnmovedMoves

\* restore_previous: the view stays what it is.
LEMMA RestorePreviousMoves ==
    ASSUME NEW u \in View, NEW old \in Room, ViewAck(u)
    PROVE  Moves(u, RestorePrevious(u, old))
<1>1. CASE u.conn # "up"
  <2>1. [u EXCEPT !.restore = old, !.act = None] \in View
    BY DEF View
  <2>2. [u EXCEPT !.switching = None, !.act = None] \in View
    BY DEF View, Room
  <2>3. PICK v \in View : v = RestorePrevious(u, old)
    BY <1>1, <2>1, <2>2 DEF RestorePrevious
  <2>4. v = [u EXCEPT !.restore = old, !.act = None] \/ v = [u EXCEPT !.switching = None, !.act = None]
    BY <1>1, <2>3 DEF RestorePrevious
  <2>5. v.ws = u.ws /\ v.applied = u.applied /\ v.ack = u.ack /\ v.sync = u.sync /\ v.recent = u.recent /\ v.act = None
    <3>1. CASE v = [u EXCEPT !.restore = old, !.act = None]
      BY <3>1 DEF View
    <3>2. CASE v = [u EXCEPT !.switching = None, !.act = None]
      BY <3>2 DEF View
    <3> QED BY <2>4, <3>1, <3>2
  <2>6. Unmoved(u, v)
    BY <2>5 DEF Unmoved, Keeps, JobId, InStep
  <2> QED BY <2>3, <2>6, UnmovedMoves
<1>2. CASE u.conn = "up"
  <2>0. PICK step \in Step, none \in Room : step = "restore" /\ none = None
    BY DEF Step, Room
  <2>1. PICK b \in Action : b = NewAction("restore", None, None) /\ b.step = "restore"
    BY <2>0, NewActionOK
  <2>2. PICK c \in Action : c = [b EXCEPT !.full = TRUE] /\ c.step = "restore" /\ c.id = None
    <3>1. [b EXCEPT !.full = TRUE] \in Action
      BY DEF Action
    <3>2. b.id = None
      BY <2>1 DEF NewAction
    <3> QED BY <2>1, <3>1, <3>2 DEF Action
  <2>3. PICK d \in Action : d = NewAction("restore", old, None) /\ d.step = "restore" /\ d.id = None
    <3>1. NewAction("restore", old, None).id = None
      BY DEF NewAction
    <3> QED BY <2>0, <3>1, NewActionOK
  <2>4. PICK a \in Action \cup {None} : a = (IF old = None THEN c ELSE d) /\ a.step = "restore" /\ a.id = None
    <3>1. CASE old = None
      BY <2>2, <3>1, Zenon
    <3>2. CASE old # None
      BY <2>3, <3>2, Zenon
    <3> QED BY <3>1, <3>2
  <2>5. RestorePrevious(u, old) = [u EXCEPT !.act = a]
    BY <1>2, <2>1, <2>2, <2>3, <2>4 DEF RestorePrevious
  <2>6. a # None => a.step \notin Leaving /\ a.id = None
    BY <2>4 DEF Leaving
  <2> QED BY <2>5, <2>6, ActMoves
<1> QED BY <1>1, <1>2

\* The controller sees the connection change.
LEMMA ObserveAck == ASSUME Inv, Inv', AckInv, Observe PROVE AckInv'
<1>1. ui \in View /\ ViewAck(ui)
  BY DEF Inv, TypeOK, AckInv, AckOK
<1>2. /\ UNCHANGED <<net, pending>> /\ client' = [client EXCEPT !.news = FALSE] /\ replies' \subseteq replies
      /\ waiting' = waiting /\ WaitOK(ui, waiting')
  BY DEF Observe, AckInv
<1>3. PICK g \in View : g = FenceAll(ui) /\ Moves(ui, g) /\ ViewAck(g)
  BY <1>1, FenceAllMoves DEF Moves
<1>4. PICK f \in View : f = [g EXCEPT !.synced = FALSE] /\ Moves(ui, f) /\ ViewAck(f)
  <2>1. PICK b \in BOOLEAN : b = FALSE
    OBVIOUS
  <2>2. Moves(g, [g EXCEPT !.synced = b])
    BY <1>3, SyncedMoves
  <2>3. Moves(ui, [g EXCEPT !.synced = b])
    BY <1>1, <1>3, <2>2, MovesTrans
  <2> QED BY <2>1, <2>3 DEF Moves
<1>5. CASE client.phase # "up"
  <2>1. Moves(f, [f EXCEPT !.conn = "down"])
    BY <1>4, MarkMoves
  <2>2. PICK d \in View : d = [f EXCEPT !.conn = "down"] /\ Moves(f, d) /\ ViewAck(d)
    BY <2>1 DEF Moves
  <2>3. Moves(d, Uncertain(d))
    BY <2>2, MarkMoves
  <2>4. Moves(f, Uncertain(d))
    BY <2>2, <2>3, MovesTrans
  <2>5. Moves(ui, Uncertain(d))
    BY <1>1, <1>4, <2>4, MovesTrans
  <2>6. Loop(Uncertain(d), commands)
    BY <1>3, <1>4, <1>5, <2>2 DEF Observe
  <2>7. WaitOK(Uncertain(d), waiting')
    BY <1>2, <2>5, WaitMoves
  <2> QED BY <1>2, <2>5, <2>6, <2>7, HandlerAck
<1>6. CASE client.phase = "up"
  <2>1. Moves(f, [f EXCEPT !.conn = "up"])
    BY <1>4, MarkMoves
  <2>2. PICK d \in View : d = [f EXCEPT !.conn = "up"] /\ Moves(f, d) /\ ViewAck(d)
    BY <2>1 DEF Moves
  <2>3. Moves(d, [d EXCEPT !.restore = None])
    BY <2>2, MarkMoves
  <2>4. PICK r \in View : r = [d EXCEPT !.restore = None] /\ Moves(d, r) /\ ViewAck(r)
    BY <2>3 DEF Moves
  <2>5. PICK o \in Room : o = d.restore
    BY DEF View
  <2>6. Moves(r, RestorePrevious(r, o))
    BY <2>4, RestorePreviousMoves
  <2>7. Moves(d, RestorePrevious(r, o))
    BY <2>4, <2>6, MovesTrans
  <2>8. Moves(d, d)
    BY <2>2, UnmovedMoves DEF Unmoved, Keeps, JobId, InStep
  <2>9. PICK b \in View : b = (IF d.restore = None THEN d ELSE RestorePrevious(r, o)) /\ Moves(d, b) /\ ViewAck(b)
    BY <2>7, <2>8 DEF Moves
  <2>10. PICK kind \in {"Recent", "Sync"} : kind = IF b.applied = Absent THEN "Recent" ELSE "Sync"
    OBVIOUS
  <2>11. Moves(b, Enqueue(b, kind))
    BY <2>9, EnqueueMoves
  <2>12. Moves(d, Enqueue(b, kind))
    BY <2>9, <2>11, MovesTrans
  <2>13. PICK x : x = (IF b.ws = None THEN b ELSE Enqueue(b, kind)) /\ Moves(d, x)
    BY <2>9, <2>12
  <2>14. Moves(f, x)
    BY <2>2, <2>13, MovesTrans
  <2>15. Moves(ui, x)
    BY <1>1, <1>4, <2>14, MovesTrans
  <2>16. Loop(x, commands)
    BY <1>3, <1>4, <1>6, <2>2, <2>4, <2>5, <2>9, <2>10, <2>13 DEF Observe
  <2>17. WaitOK(x, waiting')
    BY <1>2, <2>15, WaitMoves
  <2> QED BY <1>2, <2>15, <2>16, <2>17, HandlerAck
<1> QED BY <1>5, <1>6

\* Chat, its outcome, and a reload of the history.
LEMMA ChatAck ==
    ASSUME Inv, Inv', AckInv, ChatDone \/ SubmitChat \/ RetryChat \/ RecentHistory
    PROVE  AckInv'
<1>1. ui \in View /\ ViewAck(ui)
  BY DEF Inv, TypeOK, AckInv, AckOK
<1>2. PICK post \in Action : post = NewAction("post", None, None) /\ post.step \notin Leaving /\ post.id = None
  <2>0. PICK step \in Step, none \in Room : step = "post" /\ none = None
    BY DEF Step, Room
  <2>1. NewAction(step, none, none) \in Action /\ NewAction(step, none, none).step = step
    BY NewActionOK
  <2>2. NewAction(step, none, none).id = None
    BY DEF NewAction
  <2> QED BY <2>0, <2>1, <2>2 DEF Leaving
<1>3. /\ UNCHANGED <<net, pending>> /\ client' = client /\ replies' \subseteq replies
      /\ ChatDone \/ waiting' = waiting
  BY DEF ChatDone, SubmitChat, RetryChat, RecentHistory, TakeReply
<1>4. CASE ChatDone
  <2>1. PICK none \in Action \cup {None} : none = None
    OBVIOUS
  <2>2. Moves(ui, [ui EXCEPT !.act = none])
    BY <1>1, <2>1, ActMoves
  <2>3. PICK z \in View : z = [ui EXCEPT !.act = None] /\ Moves(ui, z) /\ ViewAck(z)
    BY <2>1, <2>2 DEF Moves
  <2>4. PICK v \in Reply(ui.act) : Loop(ChatOutcome(z, ui.act, v), commands) /\ waiting' = waiting \ {v.id}
    BY <1>4, <2>3 DEF ChatDone, TakeReply
  <2>5. Moves(z, [z EXCEPT !.chat = "idle"]) /\ Moves(z, Uncertain(z))
    BY <2>3, MarkMoves
  <2>6. Moves(z, ChatOutcome(z, ui.act, v))
    BY <2>5 DEF ChatOutcome
  <2>7. Moves(ui, ChatOutcome(z, ui.act, v))
    BY <1>1, <2>3, <2>6, MovesTrans
  <2>8. WaitOK(ChatOutcome(z, ui.act, v), waiting')
    <3>1. v.id \in {None, JobId(ui.act)}
      BY <1>4, ReplyId DEF ChatDone
    <3>2. JobId(z.act) = None
      BY <1>1, <2>3 DEF View, JobId
    <3>3. WaitOK(z, waiting \ {v.id})
      BY <2>3, <3>1, <3>2, WaitTaken DEF AckInv
    <3> QED BY <2>4, <2>6, <3>3, WaitMoves
  <2> QED BY <1>3, <2>4, <2>7, <2>8, HandlerAck
<1>5. CASE SubmitChat \/ RetryChat
  <2>0. PICK k \in Nat : k = ui.posts + 1
    BY <1>1 DEF View
  <2>1. [ui EXCEPT !.chat = "sent", !.posts = k, !.act = post] \in View /\ [ui EXCEPT !.chat = "sent", !.act = post] \in View
    BY <1>1 DEF View
  <2>2. PICK x \in View : /\ Loop(x, commands)
                          /\ \/ x = [ui EXCEPT !.chat = "sent", !.posts = k, !.act = post]
                             \/ x = [ui EXCEPT !.chat = "sent", !.act = post]
    BY <1>2, <1>5, <2>0, <2>1 DEF SubmitChat, RetryChat
  <2>3. x.ws = ui.ws /\ x.applied = ui.applied /\ x.ack = ui.ack /\ x.sync = ui.sync /\ x.recent = ui.recent /\ x.act = post
    <3>1. CASE x = [ui EXCEPT !.chat = "sent", !.posts = k, !.act = post]
      BY <1>1, <3>1 DEF View
    <3>2. CASE x = [ui EXCEPT !.chat = "sent", !.act = post]
      BY <1>1, <3>2 DEF View
    <3> QED BY <2>2, <3>1, <3>2
  <2>4. Unmoved(ui, x)
    BY <1>2, <2>3 DEF Unmoved, Keeps, JobId, InStep
  <2>5. Moves(ui, x)
    BY <1>1, <2>4, UnmovedMoves
  <2>6. waiting' = waiting
    BY <1>5 DEF SubmitChat, RetryChat
  <2>7. WaitOK(x, waiting')
    BY <2>5, <2>6, WaitMoves DEF AckInv
  <2> QED BY <1>3, <2>2, <2>5, <2>7, HandlerAck
<1>6. CASE RecentHistory
  <2>0. PICK kind \in {"Recent", "Sync"} : kind = "Recent"
    OBVIOUS
  <2>1. Moves(ui, Enqueue(ui, kind))
    BY <1>1, EnqueueMoves
  <2>2. PICK y \in View : y = Enqueue(ui, "Recent") /\ Moves(ui, y) /\ ViewAck(y)
    BY <2>0, <2>1 DEF Moves
  <2>3. [y EXCEPT !.refreshes = @ + 1] \in View
    BY DEF View
  <2>4. PICK x \in View : x = [y EXCEPT !.refreshes = @ + 1]
    BY <2>3
  <2>5. Unmoved(y, x)
    BY <2>4 DEF Unmoved, Keeps, JobId, InStep, View
  <2>6. Moves(y, x)
    BY <2>2, <2>5, UnmovedMoves
  <2>7. Moves(ui, x)
    BY <1>1, <2>2, <2>6, MovesTrans
  <2>8. Loop(x, commands)
    BY <1>6, <2>2, <2>4 DEF RecentHistory
  <2>9. waiting' = waiting
    BY <1>6 DEF RecentHistory
  <2>10. WaitOK(x, waiting')
    BY <2>7, <2>9, WaitMoves DEF AckInv
  <2> QED BY <1>3, <2>7, <2>8, <2>10, HandlerAck
<1> QED BY <1>4, <1>5, <1>6

-----------------------------------------------------------------------------
(* The steps of a switch.                                                     *)

\* A switch begins or takes its next step.
LEMMA NextStepAck ==
    ASSUME NEW u \in View, NEW v \in View, NEW m, NEW P, NEW n, NEW cmds, NEW R \in SUBSET Value,
           NEW S \in SUBSET R, AckOK(u, m, P, n, cmds, R),
           v.ws = u.ws, v.applied = u.applied, v.ack = u.ack, v.sync = None, v.act # None => v.act.id = None,
           InStep(v, Leaving) => v.switching # None /\ v.act.target # v.ws,
           InStep(v, {"leave", "join"}) => Clean(u, cmds, P),
           InStep(v, {"join"}) => m.subscribed = None
    PROVE  AckOK(v, m, P, n, cmds, S)
<1>1. \A x : Bound(u, x) <=> Bound(v, x)
  BY DEF Bound
<1>2. \A c : Harmless(u, c) <=> Harmless(v, c)
  BY DEF Harmless
<1>3. ViewAck(v)
  BY <1>1 DEF AckOK, ViewAck
<1>4. MemoryAck(v, m)
  BY <1>1 DEF AckOK, MemoryAck
<1>5. QueueAck(v, cmds)
  BY <1>1 DEF AckOK, QueueAck, CommandAck
<1>6. PendingAck(v, P)
  BY <1>1 DEF AckOK, PendingAck
<1>7. Clean(u, cmds, P) => Clean(v, cmds, P)
  BY <1>2 DEF Clean
<1>8. DrainAck(v, cmds, P)
  <2>1. u.ws = None => Clean(u, cmds, P)
    BY DEF AckOK, DrainAck
  <2>2. ~ (InStep(v, {"unsubscribe"}) /\ v.act.id # None)
    BY DEF InStep
  <2> QED BY <1>7, <2>1, <2>2 DEF DrainAck
<1>9. LeftAck(v, m, S)
  <2>1. \A x \in S : x.id \in Id
    BY DEF Value
  <2>2. InStep(v, {"leave"}) => v.act.id \notin Id
    BY FeedAssumption DEF InStep
  <2> QED BY <2>1, <2>2 DEF LeftAck
<1>10. LeaveAck(v, n, cmds)
  BY DEF LeaveAck, InStep
<1>11. ReplyAck(S, cmds)
  BY DEF AckOK, ReplyAck
<1> QED BY <1>3, <1>4, <1>5, <1>6, <1>8, <1>9, <1>10, <1>11 DEF AckOK

\* commit_workspace: nothing on its way concerns the room that is shown now.
LEMMA CommitAck ==
    ASSUME NEW u \in View, NEW v \in View, NEW m, NEW P, NEW n, NEW cmds, NEW R,
           NEW S \in SUBSET R, AckOK(u, m, P, n, cmds, R), InStep(u, {"join"}),
           v.ws # None, v.ws # u.ws, v.applied = Absent, v.ack = 0, v.sync = None, v.act = None
    PROVE  AckOK(v, m, P, n, cmds, S)
<1>1. Clean(u, cmds, P) /\ m.subscribed = None
  BY DEF AckOK, DrainAck, MemoryAck, InStep
<1>2. \A T : ~ InStep(v, T)
  BY DEF InStep
<1>3. ViewAck(v)
  BY <1>2 DEF ViewAck, Absent
<1>4. MemoryAck(v, m)
  BY <1>1, <1>2 DEF MemoryAck
<1>5. QueueAck(v, cmds)
  BY <1>1 DEF AckOK, QueueAck, CommandAck, Clean, Harmless
<1>6. PendingAck(v, P)
  BY <1>1 DEF AckOK, PendingAck, Clean
<1>7. DrainAck(v, cmds, P) /\ LeftAck(v, m, S) /\ LeaveAck(v, n, cmds)
  BY <1>2 DEF DrainAck, LeftAck, LeaveAck
<1>8. ReplyAck(S, cmds)
  BY DEF AckOK, ReplyAck
<1> QED BY <1>3, <1>4, <1>5, <1>6, <1>7, <1>8 DEF AckOK

\* The reply of an action is that of the call it has sent.
LEMMA ActionReply ==
    ASSUME Inv, AckInv, ui.act # None, NEW v \in Reply(ui.act), v.ok
    PROVE  /\ v \in replies /\ v.id = ui.act.id /\ ui.act.id # None
           /\ ui.act.step = "unsubscribe" => Clean(ui, commands, pending)
           /\ ui.act.step = "leave" => client.subscribed = None
<1>1. v \in replies /\ v.id = ui.act.id
  BY DEF Reply, Failed
<1>2. v.id \in Id
  BY <1>1 DEF Inv, TypeOK, FeedTypeOK, Value
<1>3. ui.act.id # None
  BY <1>1, <1>2, FeedAssumption
<1>4. \A k \in 1 .. Len(commands) : commands[k].op = "rpc" => v.id # commands[k].call.id
  BY <1>1 DEF AckInv, AckOK, ReplyAck
<1>5. ~ Superseded(ui, commands)
  BY <1>1, <1>4 DEF Superseded, IsCall
<1>6. ui.act.step = "unsubscribe" => Clean(ui, commands, pending)
  BY <1>3, <1>5 DEF AckInv, AckOK, DrainAck, InStep
<1>7. ui.act.step = "leave" => client.subscribed = None
  BY <1>1 DEF AckInv, AckOK, LeftAck, InStep
<1> QED BY <1>1, <1>3, <1>6, <1>7

\* The switch goes on: to leave, to join the new room, or back to the old one.
LEMMA ContinuesAck == ASSUME Inv, Inv', AckInv, ActionContinues \/ SyncContinues PROVE AckInv'
<1>1. /\ ui \in View /\ client \in Memory /\ pending \in SUBSET PendingCall /\ net \in Connection
      /\ commands \in Seq(Command) /\ replies \in SUBSET Value /\ ui' \in View
  BY DEF Inv, TypeOK, FeedTypeOK, CommandsOK
<1>2. UNCHANGED <<net, client, pending, commands>> /\ replies' \in SUBSET replies
  BY DEF ActionContinues, SyncContinues, TakeReply
<1>3. AckOK(ui, client, pending, net, commands, replies) /\ ViewAck(ui) /\ WaitOK(ui, waiting)
  BY DEF AckInv, AckOK
<1>4. CASE SyncContinues
  <2>1. ui.sync \in Read /\ ui.sync # None
    BY <1>1, <1>4 DEF SyncContinues, View
  <2>2. [ui.sync EXCEPT !.step = "subscribe", !.id = None] \in Read
    BY <2>1 DEF Read
  <2>3. PICK s \in Read : s = [ui.sync EXCEPT !.step = "subscribe", !.id = None]
    BY <2>2
  <2>4. s.after = ui.sync.after /\ s.id = None
    BY <2>1, <2>3 DEF Read
  <2>5. ui' = [ui EXCEPT !.sync = s]
    BY <1>1, <1>4, <2>3 DEF SyncContinues, View, Read
  <2>6. PICK x \in View : x = ui'
    BY <1>1
  <2>7. x.ws = ui.ws /\ x.applied = ui.applied /\ x.ack = ui.ack /\ x.act = ui.act /\ x.sync = s
        /\ x.recent = ui.recent /\ x.switching = ui.switching
    BY <1>1, <2>5, <2>6 DEF View
  <2>8. Unmoved(ui, x)
    BY <2>1, <2>4, <2>7 DEF Unmoved, Keeps, JobId, InStep
  <2>9. Moves(ui, x)
    BY <1>1, <1>3, <2>8, UnmovedMoves
  <2>10. AckOK(x, client, pending, net, commands, replies')
    BY <1>1, <1>2, <1>3, <2>9, ViewMoves
  <2>11. PICK v \in Reply(ui.sync) : waiting' = waiting \ {v.id}
    BY <1>4 DEF SyncContinues, TakeReply
  <2>12. WaitOK(x, waiting')
    <3>1. v.id \in {None, JobId(ui.sync)}
      BY <2>1, ReplyId
    <3>2. JobId(x.sync) = None
      BY <2>4, <2>7 DEF JobId
    <3> QED BY <1>3, <2>9, <2>11, <3>1, <3>2, WaitTaken
  <2> QED BY <1>2, <2>6, <2>10, <2>12 DEF AckInv
<1>5. CASE ActionContinues
  <2>1. ui.act \in Action /\ ui.act # None
    BY <1>1, <1>5 DEF ActionContinues, View
  <2>2. PICK a \in Action : a = ui.act
    BY <2>1
  <2>3. PICK v \in Reply(a) :
          /\ NextStep(a, v.ok) \in {"leave", "join", "rejoin"} /\ waiting' = waiting \ {v.id}
          /\ ui' = [ui EXCEPT !.act.step = NextStep(a, v.ok), !.act.id = None, !.act.full = FALSE]
    BY <1>5, <2>2 DEF ActionContinues, TakeReply
  <2>4. PICK step \in {"leave", "join", "rejoin"} : step = NextStep(a, v.ok)
    BY <2>3
  <2>5. [a EXCEPT !.step = step, !.id = None, !.full = FALSE] \in Action
    BY DEF Action, Step
  <2>6. PICK b \in Action : b = [a EXCEPT !.step = step, !.id = None, !.full = FALSE]
    BY <2>5
  <2>7. b.step = step /\ b.target = a.target /\ b.id = None
    BY <2>6 DEF Action
  <2>8. ui' = [ui EXCEPT !.act = b]
    BY <1>1, <2>2, <2>3, <2>4, <2>6 DEF View
  <2>9. PICK x \in View : x = ui'
    BY <1>1
  <2>10. x.ws = ui.ws /\ x.applied = ui.applied /\ x.ack = ui.ack /\ x.act = b /\ x.sync = ui.sync
         /\ x.recent = ui.recent /\ x.switching = ui.switching
    BY <1>1, <2>8, <2>9 DEF View
  <2>11. /\ a.step \in {"unsubscribe", "leave", "join"}
         /\ step = "leave" => v.ok /\ a.step = "unsubscribe"
         /\ step = "join" => v.ok /\ a.step = "leave"
    BY <2>4 DEF NextStep, Action, Step
  <2>12. InStep(ui, Leaving)
    BY <2>1, <2>2, <2>11 DEF InStep, Leaving
  <2>13. ui.sync = None /\ ui.switching # None /\ a.target # ui.ws
    BY <1>3, <2>2, <2>12 DEF ViewAck
  <2>14. InStep(x, {"leave", "join"}) => Clean(ui, commands, pending)
    <3>1. InStep(x, {"leave", "join"}) => step \in {"leave", "join"}
      BY <2>7, <2>10 DEF InStep
    <3>2. step = "leave" => Clean(ui, commands, pending)
      BY <2>1, <2>2, <2>11, ActionReply
    <3>3. a.step = "leave" => Clean(ui, commands, pending)
      BY <1>3, <2>1, <2>2 DEF AckOK, DrainAck, InStep
    <3> QED BY <2>11, <3>1, <3>2, <3>3
  <2>15. InStep(x, {"join"}) => client.subscribed = None
    <3>1. InStep(x, {"join"}) => step = "join"
      BY <2>7, <2>10 DEF InStep
    <3> QED BY <2>1, <2>2, <2>11, <3>1, ActionReply
  <2>16. InStep(x, Leaving) => x.switching # None /\ x.act.target # x.ws
    BY <2>7, <2>10, <2>13
  <2>17. x.sync = None /\ (x.act # None => x.act.id = None)
    BY <2>7, <2>10, <2>13
  <2>18. AckOK(x, client, pending, net, commands, replies')
    BY <1>1, <1>2, <1>3, <2>10, <2>14, <2>15, <2>16, <2>17, NextStepAck
  <2>19. WaitOK(x, waiting')
    <3>1. v.id \in {None, JobId(ui.act)}
      BY <2>1, <2>2, ReplyId
    <3>2. JobId(x.act) = None /\ JobId(x.sync) = JobId(ui.sync) /\ JobId(x.recent) = JobId(ui.recent)
      BY <2>7, <2>10 DEF JobId
    <3> QED BY <1>3, <2>3, <3>1, <3>2 DEF WaitOK
  <2> QED BY <1>2, <2>9, <2>18, <2>19 DEF AckInv
<1> QED BY <1>4, <1>5

\* A switch or a membership recovery ends.
LEMMA SwitchDoneAck == ASSUME Inv, Inv', AckInv, SwitchDone PROVE AckInv'
<1>1. /\ ui \in View /\ client \in Memory /\ pending \in SUBSET PendingCall /\ net \in Connection
      /\ commands \in Seq(Command) /\ replies \in SUBSET Value /\ commands' \in Seq(Command)
      /\ replies' \in SUBSET Value /\ ActionOK(ui.act)
  BY DEF Inv, TypeOK, FeedTypeOK, CommandsOK, WithinLog
<1>2. PICK v \in Reply(ui.act) :
         /\ NextStep(ui.act, v.ok) \in {"Joined", "Restored", "RecoveryFailed"}
         /\ Loop(SwitchEnds(ui, ui.act, NextStep(ui.act, v.ok)), commands)
         /\ TakeReply(v)
  BY DEF SwitchDone
<1>3. UNCHANGED <<net, pending>> /\ client' = client /\ replies' \subseteq replies /\ waiting' = waiting \ {v.id}
  BY <1>2 DEF SwitchDone, TakeReply
<1>4. ui.act \in Action /\ ui.act # None
  BY <1>1 DEF SwitchDone, View
<1>5. PICK a \in Action : a = ui.act
  BY <1>4
<1>6. PICK result : result = NextStep(a, v.ok)
  OBVIOUS
<1>7. PICK x : x = SwitchEnds(ui, a, result) /\ Loop(x, commands)
  BY <1>2, <1>5, <1>6
<1>8. AckOK(ui, client, pending, net, commands, replies) /\ ViewAck(ui) /\ WaitOK(ui, waiting)
  BY DEF AckInv, AckOK
<1>9. v.id \in {None, JobId(ui.act)}
  BY <1>4, ReplyId
<1>10. PICK none \in Action \cup {None} : none = None
  OBVIOUS
<1>11. Moves(ui, [ui EXCEPT !.act = none])
  BY <1>1, <1>8, <1>10, ActMoves
<1>12. CASE ~ Accepts(ui, a)
  <2>1. x = RestorePrevious(ui, ui.ws)
    BY <1>7, <1>12 DEF SwitchEnds
  <2>2. PICK w \in Room : w = ui.ws
    BY <1>1 DEF View
  <2>3. Moves(ui, RestorePrevious(ui, w))
    BY <1>1, <1>8, RestorePreviousMoves
  <2>4. JobId(x.act) = None
    <3>1. CASE ui.conn # "up"
      <4>1. x = [ui EXCEPT !.restore = ui.ws, !.act = None] \/ x = [ui EXCEPT !.switching = None, !.act = None]
        BY <2>1, <3>1 DEF RestorePrevious
      <4>2. x.act = None
        BY <1>1, <4>1 DEF View
      <4> QED BY <4>2 DEF JobId
    <3>2. CASE ui.conn = "up"
      <4>1. PICK b : b = NewAction("restore", None, None)
        OBVIOUS
      <4>2. PICK c : c = [b EXCEPT !.full = TRUE]
        OBVIOUS
      <4>3. c.id = None
        BY <4>1, <4>2 DEF NewAction
      <4>4. PICK d : d = NewAction("restore", ui.ws, None)
        OBVIOUS
      <4>5. d.id = None
        BY <4>4 DEF NewAction
      <4>6. PICK e : e = (IF ui.ws = None THEN c ELSE d) /\ e.id = None
        BY <4>3, <4>5
      <4>7. x = [ui EXCEPT !.act = e]
        BY <2>1, <3>2, <4>1, <4>2, <4>4, <4>6 DEF RestorePrevious
      <4>8. x.act = e
        BY <1>1, <4>7 DEF View
      <4> QED BY <4>6, <4>8 DEF JobId
    <3> QED BY <3>1, <3>2
  <2>5. Moves(ui, x)
    BY <2>1, <2>2, <2>3
  <2>6. WaitOK(x, waiting')
    BY <1>3, <1>8, <1>9, <2>4, <2>5, WaitTaken
  <2> QED BY <1>3, <1>7, <2>5, <2>6, HandlerAck
<1>13. CASE Accepts(ui, a) /\ result = "Joined"
  <2>1. a.step = "join" /\ InStep(ui, {"join"}) /\ InStep(ui, Leaving)
    <3>1. a.step \in Step
      BY DEF Action
    <3>2. a.step = "join"
      BY <1>6, <1>13, <3>1 DEF NextStep, Step
    <3> QED BY <1>4, <1>5, <3>2 DEF InStep, Leaving
  <2>2. PICK w \in Workspace : w = a.target
    BY <1>1, <1>4, <1>5, <2>1 DEF ActionOK, Action, Room
  <2>3. w # ui.ws /\ ui.sync = None /\ w # None
    BY <1>5, <1>8, <2>1, <2>2, FeedAssumption DEF ViewAck
  <2>4. PICK z \in View : z = [ui EXCEPT !.act = None]
    BY <1>10, <1>11 DEF Moves
  <2>5. z.sync = None /\ z.recent = ui.recent /\ z.act = None
    BY <1>1, <2>3, <2>4 DEF View
  <2>6. PICK y : y = [z EXCEPT !.ws = w, !.switching = None, !.applied = Absent, !.synced = FALSE,
                                !.ack = 0, !.chat = "idle", !.reset = FALSE]
    OBVIOUS
  <2>7. y \in View
    <3>1. PICK r \in Room, no \in Room, a0 \in Int : r = w /\ no = None /\ a0 = Absent
      BY DEF Room, Absent
    <3>2. [z EXCEPT !.ws = r, !.switching = no, !.applied = a0, !.synced = FALSE] \in View
      BY DEF View
    <3>3. PICK q \in View : q = [z EXCEPT !.ws = r, !.switching = no, !.applied = a0, !.synced = FALSE]
      BY <3>2
    <3>4. PICK p \in View : p = [q EXCEPT !.ack = 0]
      BY FlushedOK
    <3>5. [p EXCEPT !.chat = "idle", !.reset = FALSE] \in View
      BY DEF View
    <3>6. [p EXCEPT !.chat = "idle", !.reset = FALSE]
          = [z EXCEPT !.ws = r, !.switching = no, !.applied = a0, !.synced = FALSE,
                      !.ack = 0, !.chat = "idle", !.reset = FALSE]
      BY <3>3, <3>4
    <3> QED BY <2>6, <3>1, <3>5, <3>6
  <2>8. y.ws = w /\ y.applied = Absent /\ y.ack = 0 /\ y.sync = None /\ y.act = None /\ y.recent = ui.recent
    BY <2>5, <2>6 DEF View
  <2>9. PICK kind \in {"Recent", "Sync"} : kind = "Recent"
    OBVIOUS
  <2>10. x = Enqueue(y, kind)
    BY <1>7, <1>13, <2>2, <2>4, <2>6, <2>9 DEF SwitchEnds, CommitWorkspace
  <2>11. AckOK(y, client, pending, net, commands, replies')
    BY <1>1, <1>3, <1>8, <2>1, <2>3, <2>7, <2>8, CommitAck
  <2>12. ViewAck(y)
    BY <2>11 DEF AckOK
  <2>13. Moves(y, x)
    BY <2>7, <2>10, <2>12, EnqueueMoves
  <2>14. x \in View
    BY <2>13 DEF Moves
  <2>15. PICK R \in SUBSET Value : R = replies'
    BY <1>1
  <2>16. AckOK(x, client, pending, net, commands, R)
    BY <1>1, <2>7, <2>11, <2>13, <2>15, ViewMoves
  <2>17. AckOK(ui', client, pending, net, commands', R) /\ Moves(x, ui')
    BY <1>1, <1>7, <2>14, <2>16, LoopAck
  <2>18. WaitOK(y, waiting')
    <3>1. JobId(y.act) = None /\ JobId(y.sync) = None /\ JobId(y.recent) = JobId(ui.recent)
      BY <2>8 DEF JobId
    <3> QED BY <1>3, <1>8, <1>9, <3>1 DEF WaitOK
  <2>19. WaitOK(ui', waiting')
    BY <2>13, <2>17, <2>18, WaitMoves
  <2> QED BY <1>3, <2>15, <2>17, <2>19 DEF AckInv
<1>14. CASE Accepts(ui, a) /\ result # "Joined"
  <2>1. [ui EXCEPT !.act = None, !.switching = None, !.reset = TRUE] \in View
    BY <1>1 DEF View, Room
  <2>2. [ui EXCEPT !.act = None, !.switching = None, !.conn = "closed", !.synced = FALSE] \in View
    BY <1>1 DEF View, Room
  <2>3. PICK y \in View, q \in View :
          /\ y = [ui EXCEPT !.act = None, !.switching = None, !.reset = TRUE]
          /\ q = [ui EXCEPT !.act = None, !.switching = None, !.conn = "closed", !.synced = FALSE]
    BY <2>1, <2>2
  <2>4. Unmoved(ui, y) /\ y.act = None
    <3>1. y.ws = ui.ws /\ y.applied = ui.applied /\ y.ack = ui.ack /\ y.sync = ui.sync /\ y.recent = ui.recent /\ y.act = None
      BY <1>1, <2>3 DEF View
    <3> QED BY <3>1 DEF Unmoved, Keeps, JobId, InStep
  <2>5. Unmoved(ui, q) /\ q.act = None
    <3>1. q.ws = ui.ws /\ q.applied = ui.applied /\ q.ack = ui.ack /\ q.sync = ui.sync /\ q.recent = ui.recent /\ q.act = None
      BY <1>1, <2>3 DEF View
    <3> QED BY <3>1 DEF Unmoved, Keeps, JobId, InStep
  <2>6. Moves(ui, y) /\ Moves(ui, q)
    BY <1>1, <1>8, <2>4, <2>5, UnmovedMoves
  <2>7. PICK kind \in {"Recent", "Sync"} : kind = "Sync"
    OBVIOUS
  <2>8. ViewAck(y)
    BY <2>6 DEF Moves
  <2>9. Moves(y, Enqueue(y, kind))
    BY <2>8, EnqueueMoves
  <2>10. Moves(ui, Enqueue(y, kind))
    BY <1>1, <2>6, <2>9, MovesTrans
  <2>11. Enqueue(y, kind).act = None
    BY <2>4 DEF Enqueue, View
  <2>12. x = Enqueue(y, kind) \/ x = q
    BY <1>7, <1>14, <2>3, <2>7 DEF SwitchEnds
  <2>13. Moves(ui, x) /\ JobId(x.act) = None
    BY <2>5, <2>6, <2>10, <2>11, <2>12 DEF JobId
  <2>14. WaitOK(x, waiting')
    BY <1>3, <1>8, <1>9, <2>13, WaitTaken
  <2> QED BY <1>3, <1>7, <2>13, <2>14, HandlerAck
<1> QED BY <1>12, <1>13, <1>14

\* Cancellations go behind the queue.
LEMMA CancelAllOK ==
    ASSUME NEW u \in View, commands \in Seq(Command), Len(commands) <= CommandCap
    PROVE  \E cmds \in Seq(Command) :
             /\ cmds = CancelAll(Dropped({u.sync, u.recent})) /\ Len(commands) <= Len(cmds)
             /\ \A k \in 1 .. Len(commands) : cmds[k] = commands[k]
             /\ \A k \in 1 .. Len(cmds) :
                  k > Len(commands) => cmds[k].op = "cancel" /\ cmds[k].id \in Dropped({u.sync, u.recent})
<1>2. PICK ids : ids = Dropped({u.sync, u.recent})
  OBVIOUS
<1>3. ids \subseteq Id /\ ids \subseteq {u.sync.id, u.recent.id}
  BY <1>2 DEF Dropped, View, Read
<1>4. PICK C : C = {Cancel(i) : i \in ids}
  OBVIOUS
<1>5. \A c \in C : c \in Command /\ c.op = "cancel" /\ c.id \in ids
  BY <1>3, <1>4 DEF Cancel, Command
<1>6. IsFiniteSet(C)
  <2>1. IsFiniteSet({Cancel(u.sync.id)} \cup {Cancel(u.recent.id)})
    BY FS_Singleton, FS_Union
  <2>2. C \in SUBSET ({Cancel(u.sync.id)} \cup {Cancel(u.recent.id)})
    BY <1>3, <1>4
  <2> QED BY <2>1, <2>2, FS_Subset
<1>7. PICK q : q = SetToSeq(C)
  OBVIOUS
<1>8. q \in Seq(C)
  <2>1. Cardinality(C) \in Nat /\ ExistsBijection(1 .. Cardinality(C), C)
    BY <1>6, FS_CardinalityType
  <2>2. \E f \in [1 .. Cardinality(C) -> C] : IsInjective(f)
    BY <2>1, Zenon DEF ExistsBijection, Bijection, Injection
  <2>3. q \in [1 .. Cardinality(C) -> C]
    BY <1>7, <2>2, Zenon DEF SetToSeq
  <2> QED BY <2>1, <2>3
<1>9. PICK k \in Int : k = Min({Len(q), CommandCap - Len(commands)}) /\ k <= Len(q)
                       /\ k <= CommandCap - Len(commands) /\ k >= 0
  <2>1. Len(q) \in Nat /\ Len(commands) \in Nat /\ CommandCap \in Nat
    BY <1>8, FeedAssumption
  <2>2. PICK a1 \in Nat, b1 \in Nat : a1 = Len(q) /\ b1 = CommandCap - Len(commands)
    <3>1. CommandCap - Len(commands) \in Nat
      BY <2>1
    <3> QED BY <2>1, <3>1
  <2>3. (Min({a1, b1}) = a1 \/ Min({a1, b1}) = b1) /\ Min({a1, b1}) <= a1 /\ Min({a1, b1}) <= b1
    <3>1. a1 \in Int /\ b1 \in Int
      OBVIOUS
    <3> QED BY <3>1, MinTwo
  <2>4. PICK k \in Nat : k = Min({a1, b1}) /\ k <= a1 /\ k <= b1
    BY <2>3
  <2> QED BY <2>2, <2>4
<1>10. q \in Seq(Command) /\ \A i \in 1 .. Len(q) : q[i].op = "cancel" /\ q[i].id \in ids
  BY <1>5, <1>8
<1>110. k \in 0 .. Len(q)
  BY <1>9, <1>10
<1>11. PICK e \in Seq(Command) : e = SubSeq(q, 1, k) /\ Len(e) = k /\ \A i \in 1 .. k : e[i] = q[i]
  <2>1. SubSeq(q, 1, k) \in Seq(Command) /\ Len(SubSeq(q, 1, k)) = k /\ \A i \in 1 .. k : SubSeq(q, 1, k)[i] = q[i]
    BY <1>10, <1>110
  <2> QED BY <2>1
<1>12. \A i \in 1 .. Len(e) : e[i].op = "cancel" /\ e[i].id \in ids
  BY <1>10, <1>110, <1>11
<1>13. commands \o e \in Seq(Command)
  BY <1>11
<1>14. PICK cmds \in Seq(Command) : cmds = commands \o e
  BY <1>13
<1>15. /\ Len(cmds) = Len(commands) + Len(e) /\ \A i \in 1 .. Len(commands) : cmds[i] = commands[i]
       /\ \A i \in 1 .. Len(cmds) : i > Len(commands) => i - Len(commands) \in 1 .. Len(e) /\ cmds[i] = e[i - Len(commands)]
  BY <1>11, <1>14
<1>16. \A i \in 1 .. Len(cmds) : i > Len(commands) => cmds[i].op = "cancel" /\ cmds[i].id \in ids
  BY <1>12, <1>15
<1>17. cmds = CancelAll(ids)
  BY <1>4, <1>7, <1>9, <1>11, <1>14 DEF CancelAll
<1>18. Len(commands) <= Len(cmds)
  BY <1>11, <1>15
<1> QED BY <1>2, <1>14, <1>15, <1>16, <1>17, <1>18

\* The user selects a room.
LEMMA SelectAck == ASSUME Inv, Inv', AckInv, NEW target \in Workspace, SelectWorkspace(target) PROVE AckInv'
<1>1. /\ ui \in View /\ client \in Memory /\ pending \in SUBSET PendingCall /\ net \in Connection
      /\ commands \in Seq(Command) /\ Len(commands) <= CommandCap /\ replies \in SUBSET Value
      /\ commands' \in Seq(Command) /\ replies' \in SUBSET Value
  BY DEF Inv, TypeOK, FeedTypeOK, CommandsOK
<1>2. PICK ids : ids = Dropped({ui.sync, ui.recent})
  OBVIOUS
<1>3. PICK cmds \in Seq(Command) :
         /\ cmds = CancelAll(ids) /\ Len(commands) <= Len(cmds)
         /\ \A k \in 1 .. Len(commands) : cmds[k] = commands[k]
         /\ \A k \in 1 .. Len(cmds) : k > Len(commands) => cmds[k].op = "cancel"
  BY <1>1, <1>2, CancelAllOK
<1>4. PICK a \in Action : /\ a = NewAction(IF ui.ws = None THEN "join" ELSE "unsubscribe", ui.ws, target)
                          /\ a.step = (IF ui.ws = None THEN "join" ELSE "unsubscribe")
                          /\ a.target = target /\ a.id = None
  <2>1. PICK step \in Step : step = (IF ui.ws = None THEN "join" ELSE "unsubscribe")
    BY DEF Step
  <2>2. PICK t \in Room, old \in Room : t = target /\ old = ui.ws
    BY <1>1 DEF Room, View
  <2>3. NewAction(step, old, t) \in Action /\ NewAction(step, old, t).step = step /\ NewAction(step, old, t).target = t
    BY NewActionOK
  <2>4. NewAction(step, old, t).id = None
    BY DEF NewAction
  <2> QED BY <2>1, <2>2, <2>3, <2>4
<1>5. PICK x \in View : /\ x = [ui EXCEPT !.switching = target, !.switches = @ + 1, !.synced = FALSE,
                                          !.sync = None, !.recent = None, !.queued = {}, !.act = a]
                        /\ x.ws = ui.ws /\ x.applied = ui.applied /\ x.ack = ui.ack /\ x.act = a
                        /\ x.sync = None /\ x.recent = None /\ x.switching = target
  <2>1. PICK t \in Room, k1 \in Nat : t = target /\ k1 = ui.switches + 1
    BY <1>1 DEF Room, View
  <2>2. PICK v \in View : /\ v = [ui EXCEPT !.switching = t, !.switches = k1, !.synced = FALSE]
                          /\ v.ws = ui.ws /\ v.applied = ui.applied /\ v.ack = ui.ack /\ v.switching = t
    <3>1. [ui EXCEPT !.switching = t, !.switches = k1, !.synced = FALSE] \in View
      BY <1>1 DEF View
    <3> QED BY <1>1, <3>1 DEF View
  <2>3. [v EXCEPT !.sync = None, !.recent = None, !.queued = {}, !.act = a] \in View
    BY DEF View
  <2>4. [v EXCEPT !.sync = None, !.recent = None, !.queued = {}, !.act = a]
        = [ui EXCEPT !.switching = target, !.switches = @ + 1, !.synced = FALSE,
                     !.sync = None, !.recent = None, !.queued = {}, !.act = a]
    BY <1>1, <2>1, <2>2 DEF View
  <2>5. PICK u \in View : u = [v EXCEPT !.sync = None, !.recent = None, !.queued = {}, !.act = a]
    BY <2>3
  <2>6. u.ws = v.ws /\ u.applied = v.applied /\ u.ack = v.ack /\ u.act = a /\ u.sync = None /\ u.recent = None
        /\ u.switching = v.switching
    BY <2>5 DEF View
  <2>7. u = [ui EXCEPT !.switching = target, !.switches = @ + 1, !.synced = FALSE,
                       !.sync = None, !.recent = None, !.queued = {}, !.act = a]
    BY <2>4, <2>5, Zenon
  <2>8. /\ u.ws = ui.ws /\ u.applied = ui.applied /\ u.ack = ui.ack /\ u.act = a
        /\ u.sync = None /\ u.recent = None /\ u.switching = target
    BY <2>1, <2>2, <2>6, Zenon
  <2> QED BY <2>7, <2>8, Zenon
<1>6. Loop(x, cmds) /\ UNCHANGED <<net, pending, client>> /\ waiting' = waiting \ ids /\ replies' \in SUBSET replies
      /\ ui.ws # target
  BY <1>2, <1>3, <1>4, <1>5 DEF SelectWorkspace
<1>7. AckOK(ui, client, pending, net, commands, replies)
  BY DEF AckInv
<1>8. InStep(x, {"leave", "join"}) => Clean(ui, commands, pending) /\ client.subscribed = None
  <2>1. InStep(x, {"leave", "join"}) => ui.ws = None
    BY <1>4, <1>5 DEF InStep
  <2> QED BY <1>7, <2>1 DEF AckOK, DrainAck, MemoryAck
<1>9. InStep(x, {"join"}) => client.subscribed = None
  BY <1>8 DEF InStep
<1>10. x.switching # None /\ x.act.target # x.ws
  BY <1>4, <1>5, <1>6, FeedAssumption
<1>11. PICK R \in SUBSET Value : R = replies' /\ R \in SUBSET replies
  BY <1>1, <1>6
<1>12. AckOK(x, client, pending, net, commands, R)
  <2>1. x.ws = ui.ws /\ x.applied = ui.applied /\ x.ack = ui.ack /\ x.sync = None /\ (x.act # None => x.act.id = None)
    BY <1>4, <1>5
  <2>2. InStep(x, Leaving) => x.switching # None /\ x.act.target # x.ws
    BY <1>10
  <2>3. InStep(x, {"leave", "join"}) => Clean(ui, commands, pending)
    BY <1>8
  <2> QED BY <1>1, <1>7, <1>9, <1>11, <2>1, <2>2, <2>3, NextStepAck
<1>13. AckOK(x, client, pending, net, cmds, R)
  <2>1. \A k \in 1 .. Len(cmds) : k > Len(commands) => cmds[k].op # "rpc" /\ CommandAck(x, cmds[k]) /\ Harmless(x, cmds[k])
    BY <1>3 DEF CommandAck, Harmless, IsCall
  <2> QED BY <1>1, <1>3, <1>12, <2>1, MoreAck
<1>14. AckOK(ui', client, pending, net, commands', R) /\ Moves(x, ui')
  BY <1>1, <1>6, <1>13, LoopAck
<1>15. WaitOK(x, waiting')
  BY <1>4, <1>5 DEF WaitOK, JobId
<1>16. WaitOK(ui', waiting')
  BY <1>14, <1>15, WaitMoves
<1> QED BY <1>6, <1>11, <1>14, <1>16 DEF AckInv

-----------------------------------------------------------------------------
(* Calls the controller queues.                                               *)

\* An identifier nothing mentions.
Fresh(i, n, cmds, R) ==
    /\ i \in Id
    /\ \A v \in R : v.id # i
    /\ \A k \in 1 .. Len(cmds) : cmds[k].op = "rpc" => cmds[k].call.id # i
    /\ \A k \in 1 .. Len(n.req) : n.req[k].id # i
    /\ \A k \in 1 .. Len(n.out) : n.out[k].id # i

\* Such an identifier is chosen.
LEMMA FreshOK ==
    ASSUME Inv, NEW i \in FreshIds
    PROVE  Fresh(i, net, commands, replies) /\ i \notin waiting
<1>1. DOMAIN commands = 1 .. Len(commands) /\ DOMAIN net.req = 1 .. Len(net.req) /\ DOMAIN net.out = 1 .. Len(net.out)
  BY DEF Inv, TypeOK, FeedTypeOK, CommandsOK, Connection
<1>2. i \in Id /\ i \notin waiting /\ \A v \in replies : v.id # i
  BY DEF FreshIds
<1>3. \A k \in 1 .. Len(commands) : commands[k].op = "rpc" => commands[k].call.id # i
  BY <1>1 DEF FreshIds, CommandCall
<1>4. /\ \A k \in 1 .. Len(net.req) : net.req[k].id # i
      /\ \A k \in 1 .. Len(net.out) : net.out[k].id # i
  BY <1>1 DEF FreshIds
<1> QED BY <1>2, <1>3, <1>4 DEF Fresh

\* A call behind the others; a subscription only for the shown room, and not while it is left.
LEMMA CallAck ==
    ASSUME NEW u \in View, NEW m, NEW P, NEW n, NEW R, NEW W, NEW cmds \in Seq(Command),
           NEW c \in Request, NEW more \in Seq(Command), more = Append(cmds, Rpc(c)),
           AckOK(u, m, P, n, cmds, R), WaitOK(u, W), Fresh(c.id, n, cmds, R), c.id \notin W,
           c.after >= 0, c.kind = "subscribe" => u.sync # None /\ Bound(u, c.after)
    PROVE  AckOK(u, m, P, n, more, R)
<1>1. Rpc(c).op = "rpc" /\ Rpc(c).call = c
  BY DEF Rpc
<1>2. /\ Len(more) = Len(cmds) + 1 /\ more[Len(more)].op = "rpc" /\ more[Len(more)].call = c
      /\ \A k \in 1 .. Len(more) : k = Len(more) \/ (k \in 1 .. Len(cmds) /\ more[k] = cmds[k])
      /\ \A k \in 1 .. Len(cmds) : more[k] = cmds[k] /\ k \in 1 .. Len(more)
  <2>1. Len(more) = Len(cmds) + 1 /\ more[Len(more)] = Rpc(c)
    OBVIOUS
  <2>2. \A k \in 1 .. Len(cmds) : more[k] = cmds[k] /\ k \in 1 .. Len(more)
    OBVIOUS
  <2>3. \A k \in 1 .. Len(more) : k = Len(more) \/ k \in 1 .. Len(cmds)
    BY <2>1
  <2> QED BY <1>1, <2>1, <2>2, <2>3
<1>3. QueueAck(u, more)
  BY <1>2 DEF AckOK, QueueAck, CommandAck, IsCall
<1>4. u.ws = None \/ InStep(u, Leaving) => c.kind # "subscribe"
  BY DEF AckOK, ViewAck
<1>5. c.kind # "subscribe" => Harmless(u, more[Len(more)])
  BY <1>2 DEF Harmless, IsCall
<1>6. c.kind # "subscribe" /\ Clean(u, cmds, P) => Clean(u, more, P)
  BY <1>2, <1>5 DEF Clean
<1>7. c.kind # "subscribe" /\ Superseded(u, cmds) => Superseded(u, more)
  <2>1. SUFFICES ASSUME c.kind # "subscribe", NEW k \in 1 .. Len(cmds), IsCall(cmds[k], "unsubscribe"),
                        cmds[k].call.id = u.act.id, \A j \in 1 .. Len(cmds) : j > k => Harmless(u, cmds[j])
                 PROVE  Superseded(u, more)
    BY DEF Superseded
  <2>2. k \in 1 .. Len(more) /\ more[k] = cmds[k]
    BY <1>2
  <2>3. \A j \in 1 .. Len(more) : j > k => Harmless(u, more[j])
    BY <1>2, <1>5, <2>1
  <2> QED BY <2>1, <2>2, <2>3 DEF Superseded
<1>8. DrainAck(u, more, P)
  <2>1. InStep(u, {"leave", "join"}) \/ InStep(u, {"unsubscribe"}) => InStep(u, Leaving)
    BY DEF InStep, Leaving
  <2>2. DrainAck(u, cmds, P)
    BY DEF AckOK
  <2> QED BY <1>4, <1>6, <1>7, <2>1, <2>2 DEF DrainAck
<1>9. LeaveAck(u, n, more)
  <2>1. InStep(u, {"leave"}) /\ u.act.id # None => u.act.id # c.id
    BY DEF WaitOK, JobId, InStep
  <2> QED BY <1>2, <2>1 DEF AckOK, LeaveAck
<1>10. ReplyAck(R, more)
  BY <1>2 DEF AckOK, ReplyAck, Fresh
<1> QED BY <1>3, <1>8, <1>9, <1>10 DEF AckOK

\* The action learns the identifier of the call it has just queued.
LEMMA ActionSentAck ==
    ASSUME NEW u \in View, NEW v \in View, NEW m, NEW P, NEW n, NEW R, NEW cmds \in Seq(Command),
           NEW c \in Request, NEW more \in Seq(Command), more = Append(cmds, Rpc(c)),
           AckOK(u, m, P, n, more, R), Fresh(c.id, n, cmds, R),
           v.ws = u.ws, v.applied = u.applied, v.ack = u.ack, v.sync = u.sync, v.switching = u.switching,
           u.act # None, v.act # None, v.act.step = u.act.step, v.act.target = u.act.target, v.act.id = c.id,
           u.act.step \in {"unsubscribe", "leave"} => c.kind = u.act.step
    PROVE  AckOK(v, m, P, n, more, R)
<1>1. \A S : InStep(u, S) <=> InStep(v, S)
  BY DEF InStep
<1>2. \A x : Bound(u, x) <=> Bound(v, x)
  BY DEF Bound
<1>3. \A d : Harmless(u, d) <=> Harmless(v, d)
  BY DEF Harmless
<1>4. Rpc(c).op = "rpc" /\ Rpc(c).call = c
  BY DEF Rpc
<1>5. /\ Len(more) \in 1 .. Len(more) /\ more[Len(more)].op = "rpc" /\ more[Len(more)].call = c
      /\ \A k \in 1 .. Len(more) : k = Len(more) \/ (k \in 1 .. Len(cmds) /\ more[k] = cmds[k])
      /\ \A k \in 1 .. Len(more) : ~ (k > Len(more))
  <2>1. Len(more) = Len(cmds) + 1 /\ more[Len(more)] = Rpc(c) /\ Len(cmds) \in Nat
    OBVIOUS
  <2>2. \A k \in 1 .. Len(cmds) : more[k] = cmds[k]
    OBVIOUS
  <2>3. \A k \in 1 .. Len(more) : k = Len(more) \/ k \in 1 .. Len(cmds)
    BY <2>1
  <2>4. Len(more) \in 1 .. Len(more) /\ \A k \in 1 .. Len(more) : ~ (k > Len(more))
    BY <2>1
  <2> QED BY <1>4, <2>1, <2>2, <2>3, <2>4
<1>6. ViewAck(v)
  BY <1>1, <1>2 DEF AckOK, ViewAck
<1>7. MemoryAck(v, m)
  BY <1>1, <1>2 DEF AckOK, MemoryAck
<1>8. QueueAck(v, more)
  BY <1>2 DEF AckOK, QueueAck, CommandAck
<1>9. PendingAck(v, P)
  BY <1>2 DEF AckOK, PendingAck
<1>10. DrainAck(v, more, P)
  <2>1. Clean(u, more, P) => Clean(v, more, P)
    BY <1>3 DEF Clean
  <2>2. InStep(v, {"unsubscribe"}) => Superseded(v, more)
    <3>1. SUFFICES ASSUME InStep(v, {"unsubscribe"}) PROVE Superseded(v, more)
      OBVIOUS
    <3>2. c.kind = "unsubscribe"
      BY <3>1 DEF InStep
    <3> QED BY <1>5, <3>2 DEF Superseded, IsCall
  <2> QED BY <1>1, <2>1, <2>2 DEF AckOK, DrainAck
<1>11. LeftAck(v, m, R)
  BY DEF LeftAck, Fresh
<1>12. LeaveAck(v, n, more)
  <2>1. SUFFICES ASSUME InStep(v, {"leave"}) PROVE LeaveAck(v, n, more)
    BY DEF LeaveAck
  <2>2. c.kind = "leave"
    BY <2>1 DEF InStep
  <2>3. \A k \in 1 .. Len(more) : more[k].op = "rpc" /\ more[k].call.id = c.id => more[k].call.kind = "leave"
    BY <1>5, <2>2 DEF Fresh
  <2> QED BY <2>3 DEF LeaveAck, Fresh
<1> QED BY <1>6, <1>7, <1>8, <1>9, <1>10, <1>11, <1>12 DEF AckOK

\* A read learns the identifier of its call.
LEMMA ReadSentAck ==
    ASSUME NEW u \in View, NEW v \in View, NEW m \in Memory, NEW P \in SUBSET PendingCall, NEW n \in Connection,
           NEW cmds \in Seq(Command), NEW R \in SUBSET Value, AckOK(u, m, P, n, cmds, R),
           v.ws = u.ws, v.applied = u.applied, v.ack = u.ack, v.act = u.act, v.switching = u.switching,
           v.sync # None => u.sync # None /\ v.sync.after = u.sync.after
    PROVE  AckOK(v, m, P, n, cmds, R)
<1>1. \A S : InStep(u, S) <=> InStep(v, S)
  BY DEF InStep
<1>2. ViewAck(v)
  BY <1>1 DEF AckOK, ViewAck, Bound
<1>3. Stays(u, v)
  <2>1. u.applied <= v.applied
    BY DEF View
  <2>2. InStep(v, Leaving) => InStep(u, {v.act.step}) /\ v.act.id = u.act.id
    BY DEF InStep
  <2> QED BY <2>1, <2>2 DEF Stays
<1> QED BY <1>2, <1>3, ViewStays

\* The call is refused for want of room, or is queued under a fresh identifier.
Outcome(s, job, kind, w, after) ==
    \/ s.job = Refused(job) /\ s.cmds = commands /\ s.wait = waiting
    \/ \E i \in FreshIds :
         /\ s.job = Sent(job, i) /\ s.wait = waiting \cup {i}
         /\ s.cmds = Append(commands, Rpc([id |-> i, kind |-> kind, ws |-> w, after |-> after]))

\* What sending a call does.
LEMMA SendCallCases ==
    ASSUME NEW job, NEW kind, NEW w, NEW after, FreshIds # {}
    PROVE  Outcome(SendCall(job, kind, w, after), job, kind, w, after)
<1>0. PICK s : s = SendCall(job, kind, w, after)
  OBVIOUS
<1>1. CASE ~ HasRoom(commands)
  BY <1>0, <1>1 DEF SendCall, Refused, Outcome
<1>2. CASE HasRoom(commands)
  <2>1. PICK i \in FreshIds : i = CHOOSE j \in FreshIds : TRUE
    OBVIOUS
  <2>2. s = [job |-> [job EXCEPT !.id = i],
             cmds |-> Append(commands, Rpc([id |-> i, kind |-> kind, ws |-> w, after |-> after])),
             wait |-> waiting \cup {i}]
    BY <1>0, <1>2, <2>1 DEF SendCall
  <2> QED BY <1>0, <2>2 DEF Sent, Outcome
<1> QED BY <1>1, <1>2

\* A task sends its call.
LEMMA SendOfTasksAck == ASSUME Inv, Inv', AckInv, SendSync \/ SendRecent \/ SendAction PROVE AckInv'
<1>1. /\ ui \in View /\ client \in Memory /\ pending \in SUBSET PendingCall /\ net \in Connection
      /\ commands \in Seq(Command) /\ replies \in SUBSET Value /\ commands' \in Seq(Command) /\ ui' \in View
  BY DEF Inv, TypeOK, FeedTypeOK, CommandsOK
<1>2. UNCHANGED <<net, client, pending, replies>>
  BY DEF SendSync, SendRecent, SendAction
<1>3. AckOK(ui, client, pending, net, commands, replies) /\ ViewAck(ui) /\ WaitOK(ui, waiting)
  BY DEF AckInv, AckOK
<1>4. PICK x \in View, more \in Seq(Command) : x = ui' /\ more = commands'
  BY <1>1
<1>5. CASE SendSync
  <2>1. ui.sync \in Read /\ FreshIds # {} /\ ui.sync # None /\ ui.sync.id = None
    BY <1>1, <1>5 DEF SendSync, Unsent, View
  <2>2. PICK job \in Read : job = ui.sync
    BY <2>1
  <2>3. PICK kind \in CallKind, after \in Int :
           kind = job.step /\ after = IF job.step = "subscribe" THEN job.after ELSE 0
    <3>1. job.step \in CallKind
      BY DEF Read, CallKind
    <3>2. (IF job.step = "subscribe" THEN job.after ELSE 0) \in Int
      BY DEF Read
    <3> QED BY <3>1, <3>2
  <2>4. PICK s : s = SendCall(job, kind, None, after)
    OBVIOUS
  <2>5. x = [ui EXCEPT !.sync = s.job] /\ more = s.cmds /\ waiting' = s.wait
    BY <1>4, <1>5, <2>2, <2>3, <2>4 DEF SendSync
  <2>6. x.ws = ui.ws /\ x.applied = ui.applied /\ x.ack = ui.ack /\ x.act = ui.act /\ x.sync = s.job
        /\ x.recent = ui.recent /\ x.switching = ui.switching
    BY <1>1, <2>5 DEF View
  <2>7. Bound(ui, job.after)
    BY <1>3, <2>1, <2>2 DEF ViewAck
  <2>8. CASE s.job = Refused(job) /\ s.cmds = commands /\ s.wait = waiting
    <3>1. s.job.after = job.after /\ s.job.id = job.id
      BY <2>8 DEF Refused, Read
    <3>2. AckOK(x, client, pending, net, commands, replies)
      BY <1>1, <1>3, <2>1, <2>2, <2>6, <3>1, ReadSentAck
    <3>3. JobId(x.sync) = None /\ JobId(x.recent) = JobId(ui.recent) /\ JobId(x.act) = JobId(ui.act)
      BY <2>1, <2>2, <2>6, <3>1 DEF JobId
    <3>4. WaitOK(x, waiting')
      BY <1>3, <2>5, <2>8, <3>3 DEF WaitOK
    <3> QED BY <1>2, <1>4, <2>5, <2>8, <3>2, <3>4 DEF AckInv
  <2>9. ASSUME NEW i \in FreshIds, s.job = Sent(job, i), s.wait = waiting \cup {i},
               s.cmds = Append(commands, Rpc([id |-> i, kind |-> kind, ws |-> None, after |-> after]))
        PROVE  AckInv'
    <3>1. Fresh(i, net, commands, replies) /\ i \notin waiting /\ i \in Id /\ i # None
      BY FreshOK, FeedAssumption DEF Fresh
    <3>2. PICK c \in Request : c = [id |-> i, kind |-> kind, ws |-> None, after |-> after]
      BY <3>1 DEF Request, Room
    <3>3. c.id = i /\ c.kind = kind /\ c.after = after
      BY <3>2
    <3>4. c.after >= 0 /\ (c.kind = "subscribe" => ui.sync # None /\ Bound(ui, c.after))
      BY <2>1, <2>3, <2>7, <3>3 DEF Bound
    <3>5. AckOK(ui, client, pending, net, more, replies)
      <4>1. more = Append(commands, Rpc(c))
        BY <2>5, <2>9, <3>2, Zenon
      <4>2. Fresh(c.id, net, commands, replies) /\ c.id \notin waiting
        BY <3>1, <3>3
      <4> QED BY <1>1, <1>3, <3>4, <4>1, <4>2, CallAck
    <3>6. s.job.after = job.after /\ s.job.id = i
      BY <2>9 DEF Sent, Read
    <3>7. AckOK(x, client, pending, net, more, replies)
      BY <1>1, <2>1, <2>2, <2>6, <3>5, <3>6, ReadSentAck
    <3>8. JobId(x.sync) \in {None, i} /\ JobId(x.recent) = JobId(ui.recent) /\ JobId(x.act) = JobId(ui.act)
      BY <2>6, <3>6 DEF JobId
    <3>9. WaitOK(x, waiting')
      BY <1>3, <2>5, <2>9, <3>1, <3>8 DEF WaitOK
    <3> QED BY <1>2, <1>4, <3>7, <3>9 DEF AckInv
  <2>10. Outcome(s, job, kind, None, after)
    BY <2>1, <2>4, SendCallCases
  <2> QED BY <2>8, <2>9, <2>10 DEF Outcome
<1>6. CASE SendRecent
  <2>1. ui.recent \in Read /\ FreshIds # {} /\ ui.recent.id = None
    BY <1>1, <1>6 DEF SendRecent, Unsent, View
  <2>2. PICK job \in Read : job = ui.recent
    BY <2>1
  <2>4. PICK s : s = SendCall(job, "history", None, 0)
    OBVIOUS
  <2>5. x = [ui EXCEPT !.recent = s.job] /\ more = s.cmds /\ waiting' = s.wait
    BY <1>4, <1>6, <2>2, <2>4 DEF SendRecent
  <2>6. x.ws = ui.ws /\ x.applied = ui.applied /\ x.ack = ui.ack /\ x.act = ui.act /\ x.recent = s.job
        /\ x.sync = ui.sync /\ x.switching = ui.switching
    BY <1>1, <2>5 DEF View
  <2>8. CASE s.job = Refused(job) /\ s.cmds = commands /\ s.wait = waiting
    <3>1. s.job.id = job.id
      BY <2>8 DEF Refused, Read
    <3>2. AckOK(x, client, pending, net, commands, replies)
      BY <1>1, <1>3, <2>6, ReadSentAck
    <3>3. JobId(x.recent) = None /\ JobId(x.sync) = JobId(ui.sync) /\ JobId(x.act) = JobId(ui.act)
      BY <2>1, <2>2, <2>6, <3>1 DEF JobId
    <3>4. WaitOK(x, waiting')
      BY <1>3, <2>5, <2>8, <3>3 DEF WaitOK
    <3> QED BY <1>2, <1>4, <2>5, <2>8, <3>2, <3>4 DEF AckInv
  <2>9. ASSUME NEW i \in FreshIds, s.job = Sent(job, i), s.wait = waiting \cup {i},
               s.cmds = Append(commands, Rpc([id |-> i, kind |-> "history", ws |-> None, after |-> 0]))
        PROVE  AckInv'
    <3>1. Fresh(i, net, commands, replies) /\ i \notin waiting /\ i \in Id /\ i # None
      BY FreshOK, FeedAssumption DEF Fresh
    <3>2. PICK c \in Request : c = [id |-> i, kind |-> "history", ws |-> None, after |-> 0]
      <4>1. i \in Id \cup {RestoreId} /\ "history" \in CallKind /\ None \in Room /\ 0 \in Int
        BY <3>1 DEF Room, CallKind
      <4>2. [id |-> i, kind |-> "history", ws |-> None, after |-> 0] \in Request
        BY <4>1 DEF Request
      <4> QED BY <4>2
    <3>3. c.id = i /\ c.kind # "subscribe" /\ c.after >= 0
      BY <3>2
    <3>5. AckOK(ui, client, pending, net, more, replies)
      BY <1>1, <1>3, <2>5, <2>9, <3>1, <3>2, <3>3, CallAck
    <3>6. s.job.id = i
      BY <2>9 DEF Sent, Read
    <3>7. AckOK(x, client, pending, net, more, replies)
      BY <1>1, <2>6, <3>5, ReadSentAck
    <3>8. JobId(x.recent) \in {None, i} /\ JobId(x.sync) = JobId(ui.sync) /\ JobId(x.act) = JobId(ui.act)
      BY <2>6, <3>6 DEF JobId
    <3>9. WaitOK(x, waiting')
      BY <1>3, <2>5, <2>9, <3>1, <3>8 DEF WaitOK
    <3> QED BY <1>2, <1>4, <3>7, <3>9 DEF AckInv
  <2>10. Outcome(s, job, "history", None, 0)
    BY <2>1, <2>4, SendCallCases
  <2> QED BY <2>8, <2>9, <2>10 DEF Outcome
<1>7. CASE SendAction
  <2>1. ui.act \in Action /\ FreshIds # {} /\ ui.act # None /\ ui.act.id = None
    BY <1>1, <1>7 DEF SendAction, Unsent, View
  <2>2. PICK job \in Action : job = ui.act
    BY <2>1
  <2>3. PICK kind, w : /\ kind = ActionCall(job)[1] /\ w = ActionCall(job)[2] /\ kind \in CallKind /\ w \in Room
                       /\ kind # "subscribe" /\ (job.step \in {"unsubscribe", "leave"} => kind = job.step)
    <3>1. job.step \in Step /\ job.old \in Room /\ job.target \in Room /\ None \in Room
      BY DEF Action, Room
    <3>2. CASE job.step = "join"
      BY <3>1, <3>2 DEF ActionCall, CallKind
    <3>3. CASE job.step \in {"rejoin", "restore"}
      <4>1. ActionCall(job) = <<"join", job.old>>
        BY <3>3 DEF ActionCall
      <4> QED BY <3>1, <3>3, <4>1 DEF CallKind
    <3>4. CASE job.step \notin {"join", "rejoin", "restore"}
      <4>1. ActionCall(job) = <<job.step, None>>
        BY <3>4 DEF ActionCall
      <4>2. job.step \in CallKind /\ job.step # "subscribe"
        BY <3>1, <3>4 DEF CallKind, Step
      <4>3. ActionCall(job)[1] = job.step /\ ActionCall(job)[2] = None
        BY <4>1
      <4> QED BY <3>1, <4>2, <4>3
    <3> QED BY <3>2, <3>3, <3>4
  <2>4. PICK s : s = SendCall(job, kind, w, 0)
    OBVIOUS
  <2>5. x = [ui EXCEPT !.act = s.job] /\ more = s.cmds /\ waiting' = s.wait
    BY <1>4, <1>7, <2>2, <2>3, <2>4 DEF SendAction
  <2>6. x.ws = ui.ws /\ x.applied = ui.applied /\ x.ack = ui.ack /\ x.act = s.job /\ x.recent = ui.recent
        /\ x.sync = ui.sync /\ x.switching = ui.switching
    BY <1>1, <2>5 DEF View
  <2>8. CASE s.job = Refused(job) /\ s.cmds = commands /\ s.wait = waiting
    <3>1. s.job.id = job.id /\ s.job.step = job.step /\ s.job.target = job.target
      BY <2>8 DEF Refused, Action
    <3>2. Unmoved(ui, x)
      <4>1. InStep(x, Leaving) => /\ InStep(ui, {x.act.step}) /\ x.act.id = ui.act.id
                                  /\ x.act.target = ui.act.target
        BY <2>1, <2>2, <2>6, <3>1 DEF InStep
      <4>2. JobId(x.act) \in {None, JobId(ui.act)} /\ JobId(x.sync) = JobId(ui.sync) /\ JobId(x.recent) = JobId(ui.recent)
        BY <2>1, <2>2, <2>6, <3>1 DEF JobId
      <4> QED BY <2>6, <4>1, <4>2 DEF Unmoved, Keeps
    <3>3. Moves(ui, x)
      BY <1>1, <1>3, <3>2, UnmovedMoves
    <3>4. AckOK(x, client, pending, net, commands, replies)
      BY <1>1, <1>3, <3>3, ViewMoves
    <3>5. WaitOK(x, waiting')
      BY <1>3, <2>5, <2>8, <3>3, WaitMoves
    <3> QED BY <1>2, <1>4, <2>5, <2>8, <3>4, <3>5 DEF AckInv
  <2>9. ASSUME NEW i \in FreshIds, s.job = Sent(job, i), s.wait = waiting \cup {i},
               s.cmds = Append(commands, Rpc([id |-> i, kind |-> kind, ws |-> w, after |-> 0]))
        PROVE  AckInv'
    <3>1. Fresh(i, net, commands, replies) /\ i \notin waiting /\ i \in Id /\ i # None
      BY FreshOK, FeedAssumption DEF Fresh
    <3>2. PICK c \in Request : c = [id |-> i, kind |-> kind, ws |-> w, after |-> 0]
      <4>1. i \in Id \cup {RestoreId} /\ kind \in CallKind /\ w \in Room /\ 0 \in Int
        BY <2>3, <3>1
      <4>2. [id |-> i, kind |-> kind, ws |-> w, after |-> 0] \in Request
        BY <4>1 DEF Request
      <4> QED BY <4>2
    <3>3. c.id = i /\ c.kind = kind /\ c.kind # "subscribe" /\ c.after >= 0
      BY <2>3, <3>2
    <3>4. AckOK(ui, client, pending, net, more, replies)
      BY <1>1, <1>3, <2>5, <2>9, <3>1, <3>2, <3>3, CallAck
    <3>5. s.job.id = i /\ s.job.step = job.step /\ s.job.target = job.target
      BY <2>9 DEF Sent, Action
    <3>6. JobId(x.act) \in {None, i} /\ JobId(x.sync) = JobId(ui.sync) /\ JobId(x.recent) = JobId(ui.recent)
      BY <2>6, <3>5 DEF JobId
    <3>7. WaitOK(x, waiting')
      BY <1>3, <2>5, <2>9, <3>1, <3>6 DEF WaitOK
    <3>8. CASE x.act # None
      <4>1. x.act.step = ui.act.step /\ x.act.target = ui.act.target /\ x.act.id = c.id
        BY <2>2, <2>6, <3>3, <3>5
      <4>2. ui.act.step \in {"unsubscribe", "leave"} => c.kind = ui.act.step
        BY <2>2, <2>3, <3>3
      <4>3. more = Append(commands, Rpc(c)) /\ Fresh(c.id, net, commands, replies)
        BY <2>5, <2>9, <3>1, <3>2, <3>3
      <4>4. AckOK(x, client, pending, net, more, replies)
        BY <1>1, <2>1, <2>6, <3>4, <3>8, <4>1, <4>2, <4>3, ActionSentAck
      <4> QED BY <1>2, <1>4, <3>7, <4>4 DEF AckInv
    <3>9. CASE x.act = None
      <4>1. ~ InStep(x, Leaving)
        BY <3>9 DEF InStep
      <4>2. JobId(x.act) \in {None, JobId(ui.act)}
        BY <3>9 DEF JobId
      <4>3. Unmoved(ui, x)
        BY <2>6, <3>6, <4>1, <4>2 DEF Unmoved, Keeps
      <4>4. Moves(ui, x)
        BY <1>1, <1>3, <4>3, UnmovedMoves
      <4>5. AckOK(x, client, pending, net, more, replies)
        BY <1>1, <1>4, <3>4, <4>4, ViewMoves
      <4> QED BY <1>2, <1>4, <3>7, <4>5 DEF AckInv
    <3> QED BY <3>8, <3>9
  <2>10. Outcome(s, job, kind, w, 0)
    BY <2>1, <2>4, SendCallCases
  <2> QED BY <2>8, <2>9, <2>10 DEF Outcome
<1> QED BY <1>5, <1>6, <1>7

-----------------------------------------------------------------------------
(* The wire.                                                                  *)

\* A frame the router adds: a notice, an event, or the answer to a request.
NewFrame(n, f) ==
    /\ f.t # "page" => f.lo >= 0
    /\ f.id = None \/ \E j \in 1 .. Len(n.req) :
                          /\ n.req[j].id = f.id
                          /\ n.req[j].kind = "leave" => f.t \in {"left", "error"}

\* What is on the wire was there before, or was added by the router or by a restoration.
Continues(n, n2) ==
    /\ \A k \in 1 .. Len(n2.req) : n2.req[k].id = RestoreId \/ \E j \in 1 .. Len(n.req) : n2.req[k] = n.req[j]
    /\ \A k \in 1 .. Len(n2.out) : NewFrame(n, n2.out[k]) \/ \E j \in 1 .. Len(n.out) : n2.out[k] = n.out[j]

\* Then the leave call of the switch is still the only one with its identifier.
LEMMA WireAck ==
    ASSUME NEW u \in View, NEW n, NEW n2, NEW cmds, LeaveAck(u, n, cmds), FrameAck(n), Continues(n, n2)
    PROVE  LeaveAck(u, n2, cmds) /\ FrameAck(n2)
<1>1. FrameAck(n2)
  BY DEF FrameAck, Continues, NewFrame
<1>2. SUFFICES ASSUME InStep(u, {"leave"}), u.act.id # None
               PROVE  /\ \A k \in 1 .. Len(n2.req) : n2.req[k].id = u.act.id => n2.req[k].kind = "leave"
                      /\ \A k \in 1 .. Len(n2.out) : n2.out[k].id = u.act.id => n2.out[k].t \in {"left", "error"}
  BY <1>1 DEF LeaveAck
<1>3. u.act.id \in Id
  BY <1>2 DEF View, InStep, Action
<1>4. PICK i \in Id : i = u.act.id /\ i # None /\ i # RestoreId
  BY <1>2, <1>3, FeedAssumption
<1>5. /\ \A k \in 1 .. Len(n.req) : n.req[k].id = i => n.req[k].kind = "leave"
      /\ \A k \in 1 .. Len(n.out) : n.out[k].id = i => n.out[k].t \in {"left", "error"}
  BY <1>2, <1>4 DEF LeaveAck
<1>6. \A k \in 1 .. Len(n2.req) : n2.req[k].id = i => n2.req[k].kind = "leave"
  BY <1>4, <1>5 DEF Continues
<1>7. ASSUME NEW k \in 1 .. Len(n2.out), n2.out[k].id = i PROVE n2.out[k].t \in {"left", "error"}
  <2>1. CASE \E j \in 1 .. Len(n.out) : n2.out[k] = n.out[j]
    BY <1>5, <1>7, <2>1
  <2>2. CASE NewFrame(n, n2.out[k])
    <3>1. PICK j \in 1 .. Len(n.req) : n.req[j].id = i /\ (n.req[j].kind = "leave" => n2.out[k].t \in {"left", "error"})
      BY <1>4, <1>7, <2>2 DEF NewFrame
    <3> QED BY <1>5, <3>1
  <2> QED BY <2>1, <2>2 DEF Continues
<1> QED BY <1>4, <1>6, <1>7

\* The router adds frames behind the others.
LEMMA SendContinues ==
    ASSUME NEW n \in Connection, NEW row \in Connection, NEW S, NEW frames \in Seq(S), Send(row, frames), row.out = n.out,
           \A k \in 1 .. Len(row.req) : \E j \in 1 .. Len(n.req) : row.req[k] = n.req[j],
           \A k \in 1 .. Len(frames) : NewFrame(n, frames[k])
    PROVE  Continues(n, net')
<1> DEFINE T == Frame \cup S
<1>0. row.out \in Seq(T) /\ frames \in Seq(T)
  <2>1. row.out \in Seq(Frame)
    BY DEF Connection
  <2> QED BY <2>1
<1> HIDE DEF T
<1>1. PICK s \in Seq(T) : s = row.out \o frames
  <2>1. row.out \o frames \in Seq(T)
    BY <1>0
  <2> QED BY <2>1
<1>2. ASSUME NEW k \in 1 .. Len(s) PROVE NewFrame(n, s[k]) \/ \E j \in 1 .. Len(n.out) : s[k] = n.out[j]
  <2>2. CASE k \in 1 .. Len(row.out)
    BY <1>0, <1>1, <2>2
  <2>3. CASE k \notin 1 .. Len(row.out)
    <3>1. k - Len(row.out) \in 1 .. Len(frames) /\ s[k] = frames[k - Len(row.out)]
      BY <1>0, <1>1, <2>3
    <3> QED BY <3>1
  <2> QED BY <2>2, <2>3
<1>3. CASE net' = [row EXCEPT !.out = s]
  <2>1. net'.req = row.req /\ net'.out = s
    BY <1>3 DEF Connection
  <2> QED BY <1>2, <2>1 DEF Continues
<1>4. ASSUME NEW k \in 0 .. OutCap, Len(s) > OutCap, net' = Closed(SubSeq(s, 1, k)) PROVE Continues(n, net')
  <2>1. net'.req = <<>> /\ net'.out = SubSeq(s, 1, k) /\ OutCap \in Nat
    BY <1>4, FeedAssumption DEF Closed
  <2>2. Len(SubSeq(s, 1, k)) = k /\ \A i \in 1 .. k : SubSeq(s, 1, k)[i] = s[i] /\ i \in 1 .. Len(s)
    BY <1>4, <2>1
  <2> QED BY <1>2, <2>1, <2>2 DEF Continues
<1>5. net' = [row EXCEPT !.out = s] \/ \E k \in 0 .. OutCap : Len(s) > OutCap /\ net' = Closed(SubSeq(s, 1, k))
  <2>1. Len(s) \in Nat /\ OutCap \in Nat
    BY <1>1, FeedAssumption
  <2>2. CASE Len(s) <= OutCap
    BY <1>1, <2>2 DEF Send
  <2>3. CASE ~ (Len(s) <= OutCap)
    <3>1. Len(s) > OutCap
      BY <2>1, <2>3
    <3>2. \E k \in 0 .. OutCap : net' = Closed(SubSeq(s, 1, k))
      BY <1>1, <2>3 DEF Send
    <3> QED BY <3>1, <3>2
  <2> QED BY <2>2, <2>3
<1> QED BY <1>3, <1>4, <1>5

\* Tuples of one, two or three frames.
LEMMA ShortTuples ==
    ASSUME NEW x, NEW y, NEW z, NEW s, s = <<x>> \/ s = <<x, y>> \/ s = <<x>> \o <<y>> \/ s = <<x, y, z>>
    PROVE  s \in Seq({x, y, z}) /\ \A i \in 1 .. Len(s) : s[i] \in {x, y, z}
<1>1. CASE s = <<x>>
  BY <1>1
<1>2. CASE s = <<x, y>>
  BY <1>2
<1>3. CASE s = <<x>> \o <<y>>
  <2>1. <<x>> \in Seq({x, y, z}) /\ <<y>> \in Seq({x, y, z})
    OBVIOUS
  <2>2. s \in Seq({x, y, z})
    BY <1>3, <2>1
  <2> QED BY <2>2
<1>4. CASE s = <<x, y, z>>
  BY <1>4
<1> QED BY <1>1, <1>2, <1>3, <1>4

\* The frames of one handler or publication.
LEMMA FramesContinue ==
    ASSUME NEW n \in Connection, NEW row \in Connection, row.out = n.out, 
           row.req = n.req \/ (row.req = Tail(n.req) /\ n.req # <<>>),
           NEW x, NEW y, NEW z, NewFrame(n, x), NewFrame(n, y), NewFrame(n, z),
           NEW s, s = <<x>> \/ s = <<x, y>> \/ s = <<x>> \o <<y>> \/ s = <<x, y, z>>, Send(row, s)
    PROVE  Continues(n, net')
<1>1. s \in Seq({x, y, z}) /\ \A i \in 1 .. Len(s) : s[i] \in {x, y, z}
  BY ShortTuples
<1>5. s \in Seq({x, y, z}) /\ \A k \in 1 .. Len(s) : NewFrame(n, s[k])
  BY <1>1
<1>6. \A k \in 1 .. Len(row.req) : \E j \in 1 .. Len(n.req) : row.req[k] = n.req[j]
  <2>1. n.req \in Seq(Request)
    BY DEF Connection
  <2>2. CASE row.req = n.req
    BY <2>2
  <2>3. CASE row.req = Tail(n.req) /\ n.req # <<>>
    <3>1. ASSUME NEW k \in 1 .. Len(row.req) PROVE k + 1 \in 1 .. Len(n.req) /\ row.req[k] = n.req[k + 1]
      BY <2>1, <2>3
    <3> QED BY <3>1
  <2> QED BY <2>2, <2>3
<1> QED BY <1>5, <1>6, SendContinues

\* An answer to the first request, or a frame without an identifier.
LEMMA NewAnswer ==
    ASSUME NEW n, NEW c, 1 \in 1 .. Len(n.req), c = n.req[1], NEW x, x.t # "page" => x.lo >= 0,
           x.id = None \/ (x.id = c.id /\ (c.kind = "leave" => x.t \in {"left", "error"}))
    PROVE  NewFrame(n, x)
BY DEF NewFrame

\* Every handler of the router.
LEMMA HandleContinues == ASSUME Inv, RouterHandle PROVE Continues(net, net')
<1>1. PICK c, row : c = Head(net.req) /\ row = [net EXCEPT !.req = Tail(@)] /\ net.req # <<>>
  BY DEF RouterHandle
<1>2. /\ c \in Request /\ c = net.req[1] /\ RequestOK(c) /\ row \in Connection
      /\ row.up = net.up /\ row.member = net.member /\ row.sub = net.sub
      /\ row.out = net.out /\ row.req = Tail(net.req)
  BY <1>1, FirstRequest
<1>3. net \in Connection /\ log \in [Workspace -> Nat] /\ row.member \in Room /\ 1 \in 1 .. Len(net.req)
  <2>1. net \in Connection /\ log \in [Workspace -> Nat] /\ net.req \in Seq(Request)
    BY DEF Inv, TypeOK, FeedTypeOK, Connection
  <2> QED BY <1>1, <1>2, <2>1 DEF Connection
<1>4. ASSUME NEW r \in Connection, r.out = net.out, r.req = Tail(net.req), NEW x, NEW y,
             NewFrame(net, x), NewFrame(net, y), NEW s, s = <<x>> \/ s = <<x, y>> \/ s = <<x>> \o <<y>>, Send(r, s)
      PROVE  Continues(net, net')
  BY <1>1, <1>3, <1>4, FramesContinue
<1>5. PICK e : e = ErrorFrame(c) /\ NewFrame(net, e)
  <2>1. PICK e : e = ErrorFrame(c)
    OBVIOUS
  <2>2. e.t = "error" /\ e.id = c.id /\ e.lo = 0
    BY <2>1 DEF ErrorFrame, Answer
  <2>3. NewFrame(net, e)
    BY <1>2, <1>3, <2>2, NewAnswer
  <2> QED BY <2>1, <2>3
<1>6. ASSUME NEW x, x.id = c.id, x.t # "page" => x.lo >= 0, c.kind = "leave" => x.t \in {"left", "error"}
      PROVE  NewFrame(net, x)
  BY <1>2, <1>3, <1>6, NewAnswer
<1>7. ASSUME NEW f, f.id = None, f.lo >= 0 PROVE NewFrame(net, f)
  BY <1>7 DEF NewFrame
<1>8. \A w \in Room : w # None => log[w] \in Nat /\ w \in Workspace
  BY <1>3 DEF Room
<1>9. CASE c.kind = "join" /\ WorkspaceJoin(row, c)
  <2>1. PICK w \in Workspace, k \in Nat : w = c.ws /\ k = log[w] /\ w \in Room
    BY <1>2, <1>3, <1>8, <1>9 DEF RequestOK, Request
  <2>2. PICK x : x = Answer("joined", c, w, k, k, FALSE)
    OBVIOUS
  <2>3. NewFrame(net, x)
    <3>1. x.t = "joined" /\ x.id = c.id /\ x.lo = k
      BY <2>2 DEF Answer
    <3>2. (x.t # "page" => x.lo >= 0) /\ (c.kind = "leave" => x.t \in {"left", "error"})
      BY <1>9, <2>1, <3>1
    <3> QED BY <1>6, <3>1, <3>2, Zenon
  <2>4. PICK y : y = Changed(w, k) /\ NewFrame(net, y)
    <3>1. PICK y : y = Changed(w, k)
      OBVIOUS
    <3>2. y.id = None /\ y.lo = k
      BY <3>1 DEF Changed
    <3> QED BY <1>7, <2>1, <3>1, <3>2
  <2>5. [row EXCEPT !.member = w] \in Connection
    BY <1>2, <2>1 DEF Connection
  <2>6. PICK r \in Connection : r = [row EXCEPT !.member = w]
    BY <2>5
  <2>7. r.out = net.out /\ r.req = Tail(net.req)
    BY <1>2, <2>6 DEF Connection
  <2>8. Send(row, <<x>>) \/ Send(r, <<x, y>>) \/ Send(row, <<e>>)
    BY <1>5, <1>9, <2>1, <2>2, <2>4, <2>6 DEF WorkspaceJoin
  <2> QED BY <1>2, <1>4, <1>5, <2>3, <2>4, <2>7, <2>8
<1>10. CASE c.kind = "leave" /\ WorkspaceLeave(row, c)
  <2>1. PICK x : x = Answer("left", c, None, 0, 0, FALSE)
    OBVIOUS
  <2>2. NewFrame(net, x)
    <3>1. x.t = "left" /\ x.id = c.id /\ x.lo = 0
      BY <2>1 DEF Answer
    <3>2. (x.t # "page" => x.lo >= 0) /\ (c.kind = "leave" => x.t \in {"left", "error"})
      BY <3>1
    <3> QED BY <1>6, <3>1, <3>2, Zenon
  <2>3. PICK y : y = Changed(None, 0) /\ NewFrame(net, y)
    <3>1. PICK y : y = Changed(None, 0)
      OBVIOUS
    <3>2. y.id = None /\ y.lo = 0
      BY <3>1 DEF Changed
    <3> QED BY <1>7, <3>1, <3>2
  <2>4. [row EXCEPT !.member = None, !.sub = FALSE] \in Connection
    BY <1>2 DEF Connection, Room
  <2>5. PICK r \in Connection : r = [row EXCEPT !.member = None, !.sub = FALSE]
    BY <2>4
  <2>6. r.out = net.out /\ r.req = Tail(net.req)
    BY <1>2, <2>5 DEF Connection
  <2>7. Send(row, <<x>>) \/ Send(r, <<x, y>>)
    BY <1>10, <2>1, <2>3, <2>5 DEF WorkspaceLeave
  <2> QED BY <1>2, <1>4, <2>2, <2>3, <2>6, <2>7
<1>11. CASE c.kind = "subscribe" /\ WorkspaceSubscribe(row, c)
  <2>1. CASE Send(row, <<e>>)
    BY <1>2, <1>4, <1>5, <2>1
  <2>2. ASSUME NEW w, NEW hi, NEW live \in BOOLEAN, NEW sub \in BOOLEAN,
               Send([row EXCEPT !.sub = sub], <<Answer("page", c, w, c.after, hi, live)>>)
        PROVE  Continues(net, net')
    <3>1. PICK x : x = Answer("page", c, w, c.after, hi, live)
      OBVIOUS
    <3>2. NewFrame(net, x)
      <4>1. x.t = "page" /\ x.id = c.id /\ x.lo = c.after
        BY <3>1 DEF Answer
      <4>2. (x.t # "page" => x.lo >= 0) /\ (c.kind = "leave" => x.t \in {"left", "error"})
        BY <1>11, <3>1, <4>1
      <4> QED BY <1>6, <4>1, <4>2, Zenon
    <3>3. [row EXCEPT !.sub = sub] \in Connection
      BY <1>2 DEF Connection
    <3>4. PICK r \in Connection : r = [row EXCEPT !.sub = sub]
      BY <3>3
    <3>5. r.out = net.out /\ r.req = Tail(net.req)
      BY <1>2, <3>4 DEF Connection
    <3>6. Send(r, <<x>>)
      BY <2>2, <3>1, <3>4
    <3> QED BY <1>4, <3>2, <3>5, <3>6
  <2>3. CASE row.member = None \/ (row.member # None /\ c.after > log[row.member])
    BY <1>5, <1>11, <2>1, <2>3 DEF WorkspaceSubscribe
  <2>4. CASE ~ (row.member = None \/ (row.member # None /\ c.after > log[row.member]))
    <3>1. PICK w : w = row.member
      OBVIOUS
    <3>2. PICK hi \in PageEnds(w, c.after) :
             Send([row EXCEPT !.sub = row.sub \/ hi = log[w]], <<Answer("page", c, w, c.after, hi, hi = log[w])>>)
      BY <1>11, <2>4, <3>1 DEF WorkspaceSubscribe
    <3>3. PICK live \in BOOLEAN : live = (hi = log[w])
      OBVIOUS
    <3>4. PICK sub \in BOOLEAN : sub = (row.sub \/ hi = log[w])
      OBVIOUS
    <3>5. Send([row EXCEPT !.sub = sub], <<Answer("page", c, w, c.after, hi, live)>>)
      BY <3>2, <3>3, <3>4
    <3> QED BY <2>2, <3>5
  <2> QED BY <2>3, <2>4
<1>12. CASE c.kind = "unsubscribe" /\ WorkspaceUnsubscribe(row, c)
  <2>1. PICK x : x = Answer("unsubscribed", c, row.member, 0, 0, FALSE)
    OBVIOUS
  <2>2. NewFrame(net, x)
    <3>1. x.t = "unsubscribed" /\ x.id = c.id /\ x.lo = 0
      BY <2>1 DEF Answer
    <3>2. (x.t # "page" => x.lo >= 0) /\ (c.kind = "leave" => x.t \in {"left", "error"})
      BY <1>12, <3>1
    <3> QED BY <1>6, <3>1, <3>2, Zenon
  <2>3. [row EXCEPT !.sub = FALSE] \in Connection
    BY <1>2 DEF Connection
  <2>4. PICK r \in Connection : r = [row EXCEPT !.sub = FALSE]
    BY <2>3
  <2>5. r.out = net.out /\ r.req = Tail(net.req)
    BY <1>2, <2>4 DEF Connection
  <2>6. Send(row, <<e>>) \/ Send(r, <<x>>)
    BY <1>5, <1>12, <2>1, <2>4 DEF WorkspaceUnsubscribe
  <2> QED BY <1>2, <1>4, <1>5, <2>2, <2>5, <2>6
<1>13. CASE c.kind = "history" /\ WorkspaceHistory(row, c)
  <2>1. CASE row.member = None
    <3>1. Send(row, <<e>>)
      BY <1>5, <1>13, <2>1 DEF WorkspaceHistory
    <3> QED BY <1>2, <1>4, <1>5, <3>1
  <2>2. CASE row.member # None
    <3>1. PICK w \in Workspace : w = row.member
      BY <1>3, <1>8, <2>2
    <3>2. PICK z \in Int, d \in Int : z = 0 /\ d = log[w] - PageLimit
      BY <1>3, FeedAssumption
    <3>3. PICK lo \in Int : lo = Max({z, d}) /\ lo >= 0
      <4>1. Max({z, d}) \in Int /\ Max({z, d}) >= z
        BY MaxTwo
      <4> QED BY <3>2, <4>1
    <3>4. PICK hi \in PageEnds(w, lo) : Send(row, <<Answer("history", c, w, lo, hi, FALSE)>>)
      BY <1>13, <2>2, <3>1, <3>2, <3>3 DEF WorkspaceHistory
    <3>5. PICK x : x = Answer("history", c, w, lo, hi, FALSE)
      OBVIOUS
    <3>6. NewFrame(net, x)
      <4>1. x.t = "history" /\ x.id = c.id /\ x.lo = lo
        BY <3>5 DEF Answer
      <4>2. (x.t # "page" => x.lo >= 0) /\ (c.kind = "leave" => x.t \in {"left", "error"})
        BY <1>13, <3>3, <3>5, <4>1
      <4> QED BY <1>6, <4>1, <4>2, Zenon
    <3>7. Send(row, <<x>>)
      BY <3>4, <3>5
    <3> QED BY <1>2, <1>4, <3>6, <3>7
  <2> QED BY <2>1, <2>2
<1>14. CASE c.kind = "post" /\ WorkspacePost(row, c)
  <2>1. PICK x : x = Answer("posted", c, row.member, 0, 0, FALSE)
    OBVIOUS
  <2>2. NewFrame(net, x)
    <3>1. x.t = "posted" /\ x.id = c.id /\ x.lo = 0
      BY <2>1 DEF Answer
    <3>2. (x.t # "page" => x.lo >= 0) /\ (c.kind = "leave" => x.t \in {"left", "error"})
      BY <1>14, <3>1
    <3> QED BY <1>6, <3>1, <3>2, Zenon
  <2>3. CASE row.member = None \/ \E p \in posted : p.ws = row.member
    <3>1. Send(row, <<e>>) \/ Send(row, <<x>>)
      BY <1>5, <1>14, <2>1, <2>3 DEF WorkspacePost
    <3> QED BY <1>2, <1>4, <1>5, <2>2, <3>1
  <2>4. CASE ~ (row.member = None \/ \E p \in posted : p.ws = row.member)
    <3>1. PICK w \in Workspace, k \in Nat : w = row.member /\ k = log[w]
      BY <1>3, <1>8, <2>4
    <3>2. PICK y : y = EventFrame(w, k + 1) /\ NewFrame(net, y)
      <4>1. PICK y : y = EventFrame(w, k + 1)
        OBVIOUS
      <4>2. y.id = None /\ y.lo = k + 1
        BY <4>1 DEF EventFrame
      <4> QED BY <1>7, <3>1, <4>1, <4>2
    <3>3. Send(row, <<x>> \o (IF row.sub THEN <<y>> ELSE <<>>))
      BY <1>14, <2>1, <2>4, <3>1, <3>2 DEF WorkspacePost
    <3>4. <<x>> \o <<>> = <<x>>
      OBVIOUS
    <3>5. Send(row, <<x>>) \/ Send(row, <<x>> \o <<y>>)
      BY <3>3, <3>4
    <3> QED BY <1>2, <1>4, <2>2, <3>2, <3>5
  <2> QED BY <2>3, <2>4
<1>15. \/ c.kind = "join" /\ WorkspaceJoin(row, c)
       \/ c.kind = "leave" /\ WorkspaceLeave(row, c)
       \/ c.kind = "subscribe" /\ WorkspaceSubscribe(row, c)
       \/ c.kind = "unsubscribe" /\ WorkspaceUnsubscribe(row, c)
       \/ c.kind = "history" /\ WorkspaceHistory(row, c)
       \/ c.kind = "post" /\ WorkspacePost(row, c)
  BY <1>1 DEF RouterHandle
<1> QED BY <1>9, <1>10, <1>11, <1>12, <1>13, <1>14, <1>15

\* Every step of the router.
LEMMA RouterAck == ASSUME Inv, Inv', AckInv, RouterStep, UNCHANGED ui PROVE AckInv'
<1>1. net \in Connection /\ log \in [Workspace -> Nat] /\ ui \in View
  BY DEF Inv, TypeOK, FeedTypeOK
<1>2. UNCHANGED <<ui, client, pending, commands, replies, waiting>>
  BY DEF RouterStep, RouterHandle, Cut, Publish, PublishNested
<1>3. ASSUME NEW f, f.id = None, f.lo >= 0 PROVE NewFrame(net, f)
  BY <1>3 DEF NewFrame
<1>4. ASSUME NEW w \in Workspace, NEW j \in Nat PROVE NewFrame(net, EventFrame(w, log[w] + j))
  <2>0. PICK k \in Nat : k = log[w] + j
    BY <1>1
  <2>1. PICK f : f = EventFrame(w, k)
    OBVIOUS
  <2>2. f.id = None /\ f.lo = k
    BY <2>1 DEF EventFrame
  <2>3. NewFrame(net, f)
    BY <1>3, <2>2
  <2> QED BY <2>0, <2>1, <2>3
<1>5. CASE UNCHANGED net
  BY <1>2, <1>5 DEF AckInv
<1>6. ASSUME Continues(net, net') PROVE AckInv'
  <2>1. LeaveAck(ui, net', commands) /\ FrameAck(net')
    BY <1>1, <1>6, WireAck DEF AckInv, AckOK
  <2>2. PICK n : n = net' /\ LeaveAck(ui, n, commands) /\ FrameAck(n)
    BY <2>1
  <2>3. AckOK(ui, client, pending, n, commands, replies) /\ WaitOK(ui, waiting)
    BY <2>2 DEF AckInv, AckOK
  <2> QED BY <1>2, <2>2, <2>3 DEF AckInv
<1>7. CASE RouterHandle
  BY <1>6, <1>7, HandleContinues
<1>8. CASE Cut
  <2>1. PICK k \in 0 .. Len(net.out) : net' = Closed(SubSeq(net.out, 1, k))
    BY <1>8 DEF Cut
  <2>2. net'.req = <<>> /\ net'.out = SubSeq(net.out, 1, k) /\ net.out \in Seq(Frame)
    BY <1>1, <2>1 DEF Closed, Connection
  <2>3. Len(SubSeq(net.out, 1, k)) = k /\ \A i \in 1 .. k : SubSeq(net.out, 1, k)[i] = net.out[i] /\ i \in 1 .. Len(net.out)
    BY <2>2
  <2>4. Continues(net, net')
    BY <2>2, <2>3 DEF Continues
  <2> QED BY <1>6, <2>4
<1>9. ASSUME NEW w \in Workspace, Publish(w) PROVE AckInv'
  <2>1. PICK f : f = EventFrame(w, log[w] + 1) /\ NewFrame(net, f)
    BY <1>4
  <2>2. UNCHANGED net \/ Send(net, <<f>>)
    BY <1>9, <2>1 DEF Publish
  <2>3. Send(net, <<f>>) => Continues(net, net')
    BY <1>1, <2>1, FramesContinue
  <2> QED BY <1>5, <1>6, <2>2, <2>3
<1>10. ASSUME NEW w \in Workspace, PublishNested(w) PROVE AckInv'
  <2>1. PICK f : f = EventFrame(w, log[w] + 1) /\ NewFrame(net, f)
    BY <1>4
  <2>2. PICK g : g = EventFrame(w, log[w] + 3) /\ NewFrame(net, g)
    BY <1>4
  <2>3. PICK e : e = EventFrame(w, log[w] + 2) /\ NewFrame(net, e)
    BY <1>4
  <2>4. UNCHANGED net \/ Send(net, <<f, g, e>>)
    BY <1>10, <2>1, <2>2, <2>3 DEF PublishNested
  <2>5. PICK s : s = <<f, g, e>>
    OBVIOUS
  <2>6. Send(net, s) => Continues(net, net')
    BY <1>1, <2>1, <2>2, <2>3, <2>5, FramesContinue
  <2> QED BY <1>5, <1>6, <2>4, <2>5, <2>6
<1> QED BY <1>7, <1>8, <1>9, <1>10 DEF RouterStep

-----------------------------------------------------------------------------
(* The client.                                                                *)

\* The client may forget its subscription and learn the first cursor of a room.
Recedes(m, m2) ==
    /\ m2.subscribed \in {m.subscribed, None}
    /\ \A w \in Workspace : m.acked[w] # Absent => m2.acked[w] = m.acked[w]

\* Then no cursor passes what is applied.
LEMMA RecedesAck ==
    ASSUME NEW u \in View, NEW m, NEW m2, NEW R, Recedes(m, m2), MemoryAck(u, m), LeftAck(u, m, R)
    PROVE  MemoryAck(u, m2) /\ LeftAck(u, m2, R)
<1>1. m2.subscribed # None => m2.subscribed = m.subscribed
  BY DEF Recedes
<1>2. m2.subscribed # None /\ m2.subscribed = u.ws => Bound(u, m2.acked[u.ws])
  <2>1. SUFFICES ASSUME m2.subscribed # None, m2.subscribed = u.ws PROVE Bound(u, m2.acked[u.ws])
    OBVIOUS
  <2>2. u.ws \in Workspace /\ Bound(u, m.acked[u.ws])
    BY <1>1, <2>1 DEF View, Room, MemoryAck
  <2>3. m.acked[u.ws] # Absent
    BY <2>2 DEF Bound, Absent
  <2> QED BY <2>2, <2>3 DEF Recedes
<1>3. MemoryAck(u, m2)
  BY <1>1, <1>2 DEF MemoryAck
<1> QED BY <1>1, <1>3 DEF LeftAck

\* Nothing is popped from the command queue.
LEMMA QuietAck ==
    ASSUME NEW u \in View, NEW m, NEW m2, NEW P, NEW P2, NEW n, NEW n2, NEW cmds, NEW R, NEW R2,
           AckOK(u, m, P, n, cmds, R), MemoryAck(u, m2), Continues(n, n2), P2 \subseteq P, DownAck(m2, P2),
           ReplyAck(R2, cmds), LeftAck(u, m2, R2)
    PROVE  AckOK(u, m2, P2, n2, cmds, R2)
<1>1. LeaveAck(u, n2, cmds) /\ FrameAck(n2)
  BY WireAck DEF AckOK
<1>2. PendingAck(u, P2)
  BY DEF AckOK, PendingAck
<1>3. Clean(u, cmds, P) => Clean(u, cmds, P2)
  BY DEF Clean
<1>4. DrainAck(u, cmds, P2)
  BY <1>3 DEF AckOK, DrainAck
<1> QED BY <1>1, <1>2, <1>4 DEF AckOK

\* What holds of a queue without its first command.
Behind(u, cmds, rest) ==
    /\ QueueAck(u, rest) /\ 1 \in 1 .. Len(cmds)
    /\ \A k \in 1 .. Len(rest) : k + 1 \in 1 .. Len(cmds) /\ rest[k] = cmds[k + 1]
    /\ Superseded(u, cmds) =>
         \/ Superseded(u, rest)
         \/ IsCall(cmds[1], "unsubscribe") /\ \A j \in 1 .. Len(rest) : Harmless(u, rest[j])

\* The first command is taken.
LEMMA TailAck ==
    ASSUME NEW u, NEW cmds \in Seq(Command), cmds # <<>>, NEW rest, rest = Tail(cmds), QueueAck(u, cmds)
    PROVE  Behind(u, cmds, rest)
<1>0. /\ \A k \in 1 .. Len(rest) : k + 1 \in 1 .. Len(cmds) /\ rest[k] = cmds[k + 1]
      /\ \A k \in 1 .. Len(cmds) : k # 1 => k - 1 \in 1 .. Len(rest) /\ cmds[k] = rest[k - 1]
      /\ 1 \in 1 .. Len(cmds)
  <2>1. Len(rest) = Len(cmds) - 1 /\ Len(cmds) \in Nat /\ 1 \in 1 .. Len(cmds)
    OBVIOUS
  <2>2. \A k \in 1 .. Len(rest) : k + 1 \in 1 .. Len(cmds) /\ rest[k] = cmds[k + 1]
    BY <2>1
  <2>3. ASSUME NEW k \in 1 .. Len(cmds), k # 1 PROVE k - 1 \in 1 .. Len(rest) /\ cmds[k] = rest[k - 1]
    <3>1. k - 1 \in 1 .. Len(rest) /\ (k - 1) + 1 = k
      BY <2>1, <2>3
    <3> QED BY <2>2, <3>1
  <2> QED BY <2>1, <2>2, <2>3
<1>1. QueueAck(u, rest)
  BY <1>0 DEF QueueAck
<1>2. ASSUME NEW k \in 1 .. Len(cmds), IsCall(cmds[k], "unsubscribe"), cmds[k].call.id = u.act.id,
             \A j \in 1 .. Len(cmds) : j > k => Harmless(u, cmds[j])
      PROVE  \/ Superseded(u, rest)
             \/ IsCall(cmds[1], "unsubscribe") /\ \A j \in 1 .. Len(rest) : Harmless(u, rest[j])
  <2>1. CASE k = 1
    <3>1. \A j \in 1 .. Len(rest) : j + 1 > k
      BY <2>1
    <3> QED BY <1>0, <1>2, <2>1, <3>1
  <2>2. CASE k # 1
    <3>1. PICK i \in 1 .. Len(rest) : i = k - 1 /\ rest[i] = cmds[k]
      BY <1>0, <2>2
    <3>2. ASSUME NEW j \in 1 .. Len(rest), j > i PROVE Harmless(u, rest[j])
      <4>1. j + 1 \in 1 .. Len(cmds) /\ rest[j] = cmds[j + 1] /\ j + 1 > k
        BY <1>0, <3>1, <3>2
      <4> QED BY <1>2, <4>1
    <3> QED BY <1>2, <3>1, <3>2 DEF Superseded
  <2> QED BY <2>1, <2>2
<1> QED BY <1>0, <1>1, <1>2 DEF Superseded, Behind

\* A call that is popped without being sent fails; any other command is harmless once popped.
LEMMA PoppedAck ==
    ASSUME NEW u \in View, NEW m, NEW m2, NEW P, NEW P2, NEW n, NEW n2, NEW cmds \in Seq(Command), cmds # <<>>, NEW R, NEW R2,
           NEW rest, rest = Tail(cmds),
           AckOK(u, m, P, n, cmds, R), MemoryAck(u, m2), Continues(n, n2), P2 \subseteq P, DownAck(m2, P2),
           ReplyAck(R2, rest), LeftAck(u, m2, R2), P2 = {} \/ cmds[1].op # "rpc"
    PROVE  AckOK(u, m2, P2, n2, rest, R2)
<1>0. QueueAck(u, cmds)
  BY DEF AckOK
<1>1. /\ QueueAck(u, rest) /\ 1 \in 1 .. Len(cmds)
      /\ \A k \in 1 .. Len(rest) : k + 1 \in 1 .. Len(cmds) /\ rest[k] = cmds[k + 1]
      /\ Superseded(u, cmds) =>
           \/ Superseded(u, rest)
           \/ IsCall(cmds[1], "unsubscribe") /\ \A j \in 1 .. Len(rest) : Harmless(u, rest[j])
  <2>1. Behind(u, cmds, rest)
    BY <1>0, TailAck
  <2> QED BY <2>1 DEF Behind
<1>2. FrameAck(n2) /\ LeaveAck(u, n2, cmds)
  BY WireAck DEF AckOK
<1>3. LeaveAck(u, n2, rest)
  BY <1>1, <1>2 DEF LeaveAck
<1>4. PendingAck(u, P2)
  BY DEF AckOK, PendingAck
<1>5. Clean(u, cmds, P) => Clean(u, rest, P2)
  BY <1>1 DEF Clean
<1>6. Superseded(u, cmds) => Superseded(u, rest) \/ Clean(u, rest, P2)
  BY <1>1 DEF Clean, IsCall
<1>7. DrainAck(u, rest, P2)
  BY <1>5, <1>6 DEF AckOK, DrainAck
<1> QED BY <1>1, <1>2, <1>3, <1>4, <1>7 DEF AckOK

\* The replies of calls that fail; none of them is queued.
Fails(values, cmds) ==
    \A v \in values : v.lo = 0 /\ ~ v.ok /\ \A k \in 1 .. Len(cmds) : cmds[k].op = "rpc" => v.id # cmds[k].call.id

\* Calls fail: nothing was left.
LEMMA FailedAck ==
    ASSUME NEW u, NEW m, NEW R, NEW cmds, NEW values, NEW R2, R2 \subseteq R \cup values,
           ReplyAck(R, cmds), LeftAck(u, m, R), Fails(values, cmds)
    PROVE  ReplyAck(R2, cmds) /\ LeftAck(u, m, R2)
<1>1. \A v \in R2 : v \in R \/ v \in values
  OBVIOUS
<1>2. ReplyAck(R2, cmds)
  BY <1>1 DEF ReplyAck, Fails
<1>3. LeftAck(u, m, R2)
  BY <1>1 DEF LeftAck, Fails
<1> QED BY <1>2, <1>3

\* The same connection, one without its first frame, and a new one.
LEMMA WireKept ==
    ASSUME NEW n \in Connection
    PROVE  /\ Continues(n, n) /\ Continues(n, Closed(<<>>))
           /\ \A n2 : n.out # <<>> /\ n2.out = Tail(n.out) /\ n2.req = n.req => Continues(n, n2)
<1>1. n.out \in Seq(Frame) /\ n.req \in Seq(Request)
  BY DEF Connection
<1>2. Continues(n, n)
  BY DEF Continues
<1>3. Continues(n, Closed(<<>>))
  BY DEF Continues, Closed
<1>4. ASSUME NEW n2, n.out # <<>>, n2.out = Tail(n.out), n2.req = n.req PROVE Continues(n, n2)
  <2>1. \A k \in 1 .. Len(n2.out) : k + 1 \in 1 .. Len(n.out) /\ n2.out[k] = n.out[k + 1]
    BY <1>1, <1>4
  <2> QED BY <1>4, <2>1 DEF Continues
<1> QED BY <1>2, <1>3, <1>4

\* What the client steps share.
LEMMA AckFacts ==
    ASSUME Inv, AckInv
    PROVE  /\ ui \in View /\ client \in Memory /\ net \in Connection /\ pending \in SUBSET PendingCall
           /\ commands \in Seq(Command) /\ replies \in SUBSET Value /\ UnsentOK(net, pending, commands)
           /\ AckOK(ui, client, pending, net, commands, replies) /\ WaitOK(ui, waiting)
           /\ MemoryAck(ui, client) /\ LeftAck(ui, client, replies) /\ ReplyAck(replies, commands)
           /\ DownAck(client, pending) /\ QueueAck(ui, commands) /\ PendingAck(ui, pending)
BY Facts DEF Inv, TypeOK, AckInv, AckOK

\* The pending calls fail.
LEMMA PendingFails ==
    ASSUME NEW n, NEW P, NEW cmds, UnsentOK(n, P, cmds), NEW values,
           \A v \in values : \E p \in P : v = Failed(p.id)
    PROVE  Fails(values, cmds)
<1>1. ASSUME NEW v \in values PROVE v.lo = 0 /\ ~ v.ok /\ \E p \in P : v.id = p.id
  BY DEF Failed
<1> QED BY <1>1 DEF UnsentOK, Fails

\* The pump ends with memory m.
LEMMA PumpEndsAck ==
    ASSUME Inv, AckInv, NEW m \in Memory, Recedes(client, m), PumpEnds(m), UNCHANGED <<ui, commands, waiting>>
    PROVE  AckInv'
<1>1. /\ ui \in View /\ net \in Connection /\ UnsentOK(net, pending, commands)
      /\ AckOK(ui, client, pending, net, commands, replies) /\ WaitOK(ui, waiting)
      /\ MemoryAck(ui, client) /\ LeftAck(ui, client, replies) /\ ReplyAck(replies, commands)
  BY AckFacts
<1>2. PICK d, R, n : d = client' /\ R = replies' /\ n = net' /\ n = Closed(<<>>)
  BY DEF PumpEnds
<1>3. d.subscribed = m.subscribed /\ d.acked = m.acked
  BY <1>2 DEF PumpEnds, Memory
<1>4. Recedes(client, d)
  BY <1>3 DEF Recedes
<1>5. MemoryAck(ui, d) /\ LeftAck(ui, d, replies)
  BY <1>1, <1>4, RecedesAck
<1>6. PICK values : values = {Failed(p.id) : p \in pending}
  OBVIOUS
<1>7. R \subseteq replies \cup values
  BY <1>2, <1>6 DEF PumpEnds, Deliver
<1>8. Fails(values, commands)
  <2>1. \A v \in values : \E p \in pending : v = Failed(p.id)
    BY <1>6
  <2> QED BY <1>1, <2>1, PendingFails
<1>9. ReplyAck(R, commands) /\ LeftAck(ui, d, R)
  BY <1>1, <1>5, <1>7, <1>8, FailedAck
<1>10. Continues(net, n) /\ {} \subseteq pending /\ DownAck(d, {})
  BY <1>1, <1>2, WireKept DEF DownAck
<1>11. AckOK(ui, d, {}, n, commands, R)
  BY <1>1, <1>5, <1>9, <1>10, QuietAck
<1>12. pending' = {}
  BY DEF PumpEnds
<1> QED BY <1>1, <1>2, <1>11, <1>12 DEF AckInv

\* The pump reads the end of the stream.
LEMMA PumpEofAck == ASSUME Inv, AckInv, PumpEof, UNCHANGED ui PROVE AckInv'
<1>1. client \in Memory /\ Recedes(client, client) /\ PumpEnds(client) /\ UNCHANGED <<ui, commands, waiting>>
  BY Facts DEF PumpEof, Recedes
<1> QED BY <1>1, PumpEndsAck

\* An acknowledgement: the cursor stays within what is applied.
LEMMA AdvanceAck ==
    ASSUME Inv, AckInv, NEW w \in Workspace, NEW k \in Int, k <= log[w], w = ui.ws => Bound(ui, k),
           NEW m, m = AdvanceCursor(client, w, k)
    PROVE  /\ MemoryAck(ui, m) /\ LeftAck(ui, m, replies) /\ m.phase = client.phase /\ m.subscribed = client.subscribed
<1>1. ui \in View /\ client \in Memory /\ MemoryAck(ui, client) /\ LeftAck(ui, client, replies)
  BY AckFacts
<1>2. m \in Memory /\ m.phase = client.phase /\ m.subscribed = client.subscribed
  BY AdvanceOK
<1>3. SUFFICES ASSUME m.subscribed # None, m.subscribed = ui.ws PROVE Bound(ui, m.acked[ui.ws])
  BY <1>1, <1>2 DEF MemoryAck, LeftAck
<1>4. client.acked \in [Workspace -> Int]
  BY <1>1 DEF Memory
<1>5. PICK x \in Workspace : x = ui.ws /\ client.acked[x] \in Int /\ Bound(ui, client.acked[x])
  BY <1>1, <1>2, <1>3, <1>4 DEF View, Room, MemoryAck
<1>6. PICK o \in Int, z \in Int : o = client.acked[w] /\ z = 0
  BY <1>4
<1>7. PICK a : a = Max({o, k, z})
  OBVIOUS
<1>8. a = o \/ a = k \/ a = z
  BY <1>7, MaxThree
<1>9. m.acked = [client.acked EXCEPT ![w] = a]
  BY <1>1, <1>6, <1>7 DEF AdvanceCursor, Memory
<1>10. CASE x # w
  BY <1>4, <1>5, <1>9, <1>10
<1>11. CASE x = w
  <2>1. m.acked[x] = a
    BY <1>4, <1>9, <1>11
  <2>2. Bound(ui, o) /\ Bound(ui, k)
    BY <1>5, <1>6, <1>11
  <2>3. ui.applied \in Int
    BY <1>1 DEF View
  <2>4. Bound(ui, z)
    BY <1>6, <2>2, <2>3 DEF Bound
  <2> QED BY <1>5, <1>8, <2>1, <2>2, <2>4
<1> QED BY <1>10, <1>11

\* A command is taken while no connection is up.
LEMMA DisconnectedAck == ASSUME Inv, AckInv, DisconnectedCommand, UNCHANGED ui PROVE AckInv'
<1>1. /\ ui \in View /\ net \in Connection /\ commands \in Seq(Command) /\ UnsentOK(net, pending, commands)
      /\ AckOK(ui, client, pending, net, commands, replies) /\ WaitOK(ui, waiting)
      /\ MemoryAck(ui, client) /\ LeftAck(ui, client, replies) /\ ReplyAck(replies, commands)
      /\ DownAck(client, pending) /\ QueueAck(ui, commands)
  BY AckFacts
<1>2. client.phase # "up" /\ commands # <<>> /\ UNCHANGED <<ui, net, pending, waiting>>
  BY DEF DisconnectedCommand
<1>3. pending = {}
  BY <1>1, <1>2 DEF DownAck
<1>4. PICK cmds : cmds = Tail(commands) /\ cmds = commands'
  BY DEF DisconnectedCommand
<1>5. PICK cmd \in Command : cmd = Head(commands) /\ cmd = commands[1] /\ CommandOK(cmd, log) /\ CommandAck(ui, cmd)
      /\ 1 \in 1 .. Len(commands)
  BY <1>1, <1>2, <1>4, TailOK DEF QueueAck
<1>6. \A k \in 1 .. Len(cmds) : k + 1 \in 1 .. Len(commands) /\ cmds[k] = commands[k + 1]
  BY <1>2, <1>4, TailOK
<1>7. PICK d, R : d = client' /\ R = replies'
  OBVIOUS
<1>8. MemoryAck(ui, d) /\ LeftAck(ui, d, replies) /\ d.phase = client.phase
  <2>1. CASE cmd.op = "ack"
    <3>1. cmd.ws \in Workspace /\ cmd.seq \in Int /\ cmd.seq <= log[cmd.ws]
      BY <1>5, <2>1 DEF Command, CommandOK
    <3>2. PICK w \in Workspace, k \in Int : w = cmd.ws /\ k = cmd.seq
      BY <3>1
    <3>3. (w = ui.ws => Bound(ui, k)) /\ k <= log[w]
      BY <1>5, <2>1, <3>1, <3>2 DEF CommandAck
    <3>4. d = AdvanceCursor(client, w, k)
      BY <1>5, <1>7, <2>1, <3>2 DEF DisconnectedCommand
    <3> QED BY <3>3, <3>4, AdvanceAck
  <2>2. CASE cmd.op # "ack"
    BY <1>1, <1>5, <1>7, <2>2 DEF DisconnectedCommand
  <2> QED BY <2>1, <2>2
<1>9. PICK values : values = IF cmd.op = "rpc" THEN {Failed(cmd.call.id)} ELSE {}
  OBVIOUS
<1>10. R \subseteq replies \cup values
  BY <1>5, <1>7, <1>9 DEF DisconnectedCommand, Deliver
<1>11. \A v \in values : v.lo = 0 /\ ~ v.ok /\ v.id = cmd.call.id /\ cmd.op = "rpc"
  BY <1>9 DEF Failed
<1>12. \A k \in 1 .. Len(cmds) : cmd.op = "rpc" /\ cmds[k].op = "rpc" => cmds[k].call.id # cmd.call.id
  <2>1. ASSUME NEW k \in 1 .. Len(cmds), cmd.op = "rpc", cmds[k].op = "rpc" PROVE cmds[k].call.id # cmd.call.id
    <3>1. k + 1 \in 1 .. Len(commands) /\ cmds[k] = commands[k + 1] /\ k + 1 # 1
      BY <1>6
    <3> QED BY <1>1, <1>5, <2>1, <3>1 DEF UnsentOK
  <2> QED BY <2>1
<1>13. Fails(values, cmds)
  BY <1>11, <1>12 DEF Fails
<1>14. ReplyAck(replies, cmds)
  BY <1>1, <1>6 DEF ReplyAck
<1>15. ReplyAck(R, cmds) /\ LeftAck(ui, d, R)
  BY <1>8, <1>10, <1>13, <1>14, FailedAck
<1>16. Continues(net, net) /\ {} \subseteq pending /\ DownAck(d, {})
  BY <1>1, WireKept DEF DownAck
<1>17. AckOK(ui, d, {}, net, cmds, R)
  BY <1>1, <1>2, <1>4, <1>8, <1>15, <1>16, PoppedAck
<1> QED BY <1>1, <1>2, <1>3, <1>4, <1>7, <1>17 DEF AckInv

\* The pump drops a call; dropping a leave drops the connection.
LEMMA PumpCancelAck ==
    ASSUME Inv, AckInv, NEW i, PumpCancel(i), client.phase = "up", commands # <<>>, commands' = Tail(commands),
           Head(commands).op = "cancel", UNCHANGED <<ui, waiting>>
    PROVE  AckInv'
<1>1. /\ ui \in View /\ client \in Memory /\ net \in Connection /\ commands \in Seq(Command) /\ UnsentOK(net, pending, commands)
      /\ AckOK(ui, client, pending, net, commands, replies) /\ WaitOK(ui, waiting)
      /\ MemoryAck(ui, client) /\ LeftAck(ui, client, replies) /\ ReplyAck(replies, commands)
  BY AckFacts
<1>2. PICK cmds : cmds = Tail(commands) /\ cmds = commands'
  OBVIOUS
<1>3. UnsentOK(net, pending, cmds) /\ commands[1].op # "rpc"
      /\ \A k \in 1 .. Len(cmds) : k + 1 \in 1 .. Len(commands) /\ cmds[k] = commands[k + 1]
  BY <1>2, TailOK
<1>4. ReplyAck(replies, cmds)
  BY <1>1, <1>3 DEF ReplyAck
<1>5. Continues(net, net) /\ Continues(net, Closed(<<>>))
  BY <1>1, WireKept
<1>6. PICK call : call = {p \in pending : p.id = i}
  OBVIOUS
<1>7. CASE \E p \in call : p.kind = "leave"
  <2>1. PICK d, R, n : d = client' /\ R = replies' /\ n = net' /\ n = Closed(<<>>)
    BY <1>6, <1>7 DEF PumpCancel
  <2>2. d = [client EXCEPT !.phase = "down", !.news = TRUE, !.desired = None, !.subscribed = None]
    BY <1>6, <1>7, <2>1 DEF PumpCancel
  <2>3. d.subscribed = None /\ d.acked = client.acked
    BY <1>1, <2>2 DEF Memory
  <2>4. Recedes(client, d)
    BY <2>3 DEF Recedes
  <2>5. MemoryAck(ui, d) /\ LeftAck(ui, d, replies)
    BY <1>1, <2>4, RecedesAck
  <2>6. PICK values : values = {Failed(p.id) : p \in pending \ call}
    OBVIOUS
  <2>7. R \subseteq replies \cup values /\ pending' = {}
    BY <1>6, <1>7, <2>1, <2>6 DEF PumpCancel, Deliver
  <2>8. Fails(values, cmds)
    <3>1. \A v \in values : \E p \in pending : v = Failed(p.id)
      BY <2>6
    <3> QED BY <1>3, <3>1, PendingFails
  <2>9. ReplyAck(R, cmds) /\ LeftAck(ui, d, R)
    BY <1>4, <2>5, <2>7, <2>8, FailedAck
  <2>10. Continues(net, n) /\ {} \subseteq pending /\ DownAck(d, {})
    BY <1>5, <2>1 DEF DownAck
  <2>11. AckOK(ui, d, {}, n, cmds, R)
    BY <1>1, <1>2, <2>5, <2>9, <2>10, PoppedAck
  <2> QED BY <1>1, <1>2, <2>1, <2>7, <2>11 DEF AckInv
<1>8. CASE ~ \E p \in call : p.kind = "leave"
  <2>1. PICK P : P = pending' /\ P \subseteq pending
    BY <1>6, <1>8 DEF PumpCancel
  <2>2. UNCHANGED <<client, net, replies>>
    BY <1>6, <1>8 DEF PumpCancel
  <2>3. DownAck(client, P)
    BY DEF DownAck
  <2>4. AckOK(ui, client, P, net, cmds, replies)
    BY <1>1, <1>2, <1>3, <1>4, <1>5, <2>1, <2>3, PoppedAck
  <2> QED BY <1>1, <1>2, <2>1, <2>2, <2>4 DEF AckInv
<1> QED BY <1>7, <1>8

\* The request c is on the wire, and its call is pending.
Requested(n, n2, c) ==
    n2.out = n.out /\ \A k \in 1 .. Len(n2.req) : (k \in 1 .. Len(n.req) /\ n2.req[k] = n.req[k]) \/ n2.req[k] = c

Pends(P, P2, c) ==
    \A q \in P2 : \/ q.kind = c.kind /\ q.after = c.after
                  \/ \E p \in P : /\ q.kind = p.kind /\ q.after = p.after /\ (q.latest => p.latest)
                                  /\ c.kind = "unsubscribe" => ~ q.latest

\* The pump sends a call: an unsubscribe call supersedes the subscriptions sent before it.
LEMMA SentAck ==
    ASSUME NEW u \in View, NEW m, NEW P, NEW P2, NEW n, NEW n2, NEW R, NEW cmds \in Seq(Command), cmds # <<>>,
           NEW rest, rest = Tail(cmds), NEW c, cmds[1].op = "rpc", c = cmds[1].call,
           AckOK(u, m, P, n, cmds, R), m.phase = "up", Requested(n, n2, c), Pends(P, P2, c)
    PROVE  AckOK(u, m, P2, n2, rest, R)
<1>0. QueueAck(u, cmds) /\ PendingAck(u, P) /\ DrainAck(u, cmds, P) /\ LeaveAck(u, n, cmds) /\ ReplyAck(R, cmds) /\ FrameAck(n)
  BY DEF AckOK
<1>1. /\ QueueAck(u, rest) /\ 1 \in 1 .. Len(cmds)
      /\ \A k \in 1 .. Len(rest) : k + 1 \in 1 .. Len(cmds) /\ rest[k] = cmds[k + 1]
      /\ Superseded(u, cmds) =>
           \/ Superseded(u, rest)
           \/ IsCall(cmds[1], "unsubscribe") /\ \A j \in 1 .. Len(rest) : Harmless(u, rest[j])
  <2>1. Behind(u, cmds, rest)
    BY <1>0, TailAck
  <2> QED BY <2>1 DEF Behind
<1>2. c.after >= 0 /\ (c.kind = "subscribe" => Bound(u, c.after))
  BY <1>0, <1>1 DEF QueueAck, CommandAck, IsCall
<1>3. PendingAck(u, P2)
  <2>1. ASSUME NEW q \in P2 PROVE q.after >= 0 /\ (Subscribing(q) => Bound(u, q.after))
    <3>1. CASE q.kind = c.kind /\ q.after = c.after
      BY <1>2, <3>1 DEF Subscribing
    <3>2. ASSUME NEW p \in P, q.kind = p.kind, q.after = p.after, q.latest => p.latest
          PROVE  q.after >= 0 /\ (Subscribing(q) => Bound(u, q.after))
      BY <1>0, <3>2 DEF PendingAck, Subscribing
    <3> QED BY <3>1, <3>2 DEF Pends
  <2> QED BY <2>1 DEF PendingAck
<1>4. Clean(u, cmds, P) => Clean(u, rest, P2)
  <2>1. SUFFICES ASSUME Clean(u, cmds, P) PROVE Clean(u, rest, P2)
    OBVIOUS
  <2>2. \A k \in 1 .. Len(rest) : Harmless(u, rest[k])
    BY <1>1, <2>1 DEF Clean
  <2>3. c.kind # "subscribe"
    BY <1>1, <2>1 DEF Clean, Harmless, IsCall
  <2>4. \A q \in P2 : ~ Subscribing(q)
    BY <2>1, <2>3 DEF Clean, Subscribing, Pends
  <2> QED BY <2>2, <2>4 DEF Clean
<1>5. Superseded(u, cmds) => Superseded(u, rest) \/ Clean(u, rest, P2)
  <2>1. ASSUME IsCall(cmds[1], "unsubscribe"), \A j \in 1 .. Len(rest) : Harmless(u, rest[j]) PROVE Clean(u, rest, P2)
    <3>1. c.kind = "unsubscribe"
      BY <2>1 DEF IsCall
    <3>2. \A q \in P2 : ~ Subscribing(q)
      BY <3>1 DEF Subscribing, Pends
    <3> QED BY <2>1, <3>2 DEF Clean
  <2> QED BY <1>1, <2>1
<1>6. DrainAck(u, rest, P2)
  BY <1>0, <1>4, <1>5 DEF DrainAck
<1>7. LeaveAck(u, n2, rest)
  BY <1>0, <1>1 DEF LeaveAck, Requested
<1>8. ReplyAck(R, rest)
  BY <1>0, <1>1 DEF ReplyAck
<1>9. FrameAck(n2) /\ DownAck(m, P2)
  BY <1>0 DEF FrameAck, DownAck, Requested
<1> QED BY <1>1, <1>3, <1>6, <1>7, <1>8, <1>9 DEF AckOK

\* The pump sends a call, or fails to.
LEMMA PumpRpcAck ==
    ASSUME Inv, AckInv, NEW c, PumpRpc(c), client.phase = "up", commands # <<>>, commands' = Tail(commands),
           Head(commands).op = "rpc", c = Head(commands).call, UNCHANGED <<ui, waiting>>
    PROVE  AckInv'
<1>1. /\ ui \in View /\ client \in Memory /\ net \in Connection /\ commands \in Seq(Command) /\ UnsentOK(net, pending, commands)
      /\ AckOK(ui, client, pending, net, commands, replies) /\ WaitOK(ui, waiting) /\ pending \in SUBSET PendingCall
      /\ MemoryAck(ui, client) /\ LeftAck(ui, client, replies) /\ ReplyAck(replies, commands)
  BY AckFacts
<1>2. PICK cmds : cmds = Tail(commands) /\ cmds = commands'
  OBVIOUS
<1>3. UnsentOK(net, pending, cmds) /\ commands[1].op = "rpc" /\ c = commands[1].call /\ 1 \in 1 .. Len(commands)
      /\ \A k \in 1 .. Len(cmds) : k + 1 \in 1 .. Len(commands) /\ cmds[k] = commands[k + 1]
  BY <1>2, TailOK
<1>4. CASE SendRpc(c) /\ net' = (IF net.up THEN [net EXCEPT !.req = Append(@, c)] ELSE net)
           /\ UNCHANGED <<client, replies>>
  <2>1. PICK n, P : n = net' /\ P = pending'
    OBVIOUS
  <2>2. n.out = net.out /\ \A k \in 1 .. Len(n.req) : (k \in 1 .. Len(net.req) /\ n.req[k] = net.req[k]) \/ n.req[k] = c
    <3>1. CASE net.up
      <4>1. net.req \in Seq(Request) /\ c \in Request
        BY <1>1, <1>3 DEF Connection, Command
      <4>2. PICK s \in Seq(Request) : s = Append(net.req, c)
        <5>1. Append(net.req, c) \in Seq(Request)
          BY <4>1
        <5> QED BY <5>1
      <4>3. \A i \in 1 .. Len(s) : (i \in 1 .. Len(net.req) /\ s[i] = net.req[i]) \/ s[i] = c
        BY <4>1, <4>2
      <4>4. n = [net EXCEPT !.req = s]
        BY <1>4, <2>1, <3>1, <4>2
      <4>5. n.out = net.out /\ n.req = s
        BY <1>1, <4>4 DEF Connection
      <4> QED BY <4>3, <4>5
    <3>2. CASE ~ net.up
      BY <1>4, <2>1, <3>2
    <3> QED BY <3>1, <3>2
  <2>3. PICK entry : entry = [id |-> c.id, kind |-> c.kind, after |-> c.after, latest |-> SubscriptionCall(c),
                              ws |-> IF SubscriptionCall(c) THEN client.desired ELSE None]
    OBVIOUS
  <2>4. P = (IF SubscriptionCall(c) THEN {[p EXCEPT !.latest = FALSE] : p \in pending} ELSE pending) \cup {entry}
    BY <1>4, <2>1, <2>3 DEF SendRpc
  <2>5. entry.kind = c.kind /\ entry.after = c.after
    BY <2>3
  <2>6. ASSUME NEW q \in P
        PROVE  \/ q.kind = c.kind /\ q.after = c.after
               \/ \E p \in pending : /\ q.kind = p.kind /\ q.after = p.after /\ (q.latest => p.latest)
                                     /\ c.kind = "unsubscribe" => ~ q.latest
    <3>1. CASE q = entry
      BY <2>5, <3>1
    <3>2. CASE SubscriptionCall(c) /\ q # entry
      <4>1. PICK p \in pending : q = [p EXCEPT !.latest = FALSE]
        BY <2>4, <3>2
      <4>2. q.kind = p.kind /\ q.after = p.after /\ q.latest = FALSE
        BY <1>1, <4>1 DEF PendingCall
      <4> QED BY <4>2
    <3>3. CASE ~ SubscriptionCall(c) /\ q # entry
      <4>1. q \in pending /\ c.kind # "unsubscribe"
        BY <2>4, <3>3 DEF SubscriptionCall
      <4> QED BY <4>1
    <3> QED BY <3>1, <3>2, <3>3
  <2>7. AckOK(ui, client, P, n, cmds, replies)
    <3>1. Requested(net, n, c) /\ Pends(pending, P, c)
      BY <2>2, <2>6 DEF Requested, Pends
    <3> QED BY <1>1, <1>2, <1>3, <3>1, SentAck
  <2> QED BY <1>1, <1>2, <1>4, <2>1, <2>7 DEF AckInv
<1>5. CASE /\ client' = [client EXCEPT !.phase = "down", !.news = TRUE]
           /\ net' = Closed(<<>>) /\ pending' = {}
           /\ Deliver({Failed(p.id) : p \in pending} \cup {Failed(c.id)})
  <2>1. PICK d, R, n : d = client' /\ R = replies' /\ n = net' /\ n = Closed(<<>>)
    BY <1>5
  <2>2. d.subscribed = client.subscribed /\ d.acked = client.acked
    BY <1>1, <1>5, <2>1 DEF Memory
  <2>3. Recedes(client, d)
    BY <2>2 DEF Recedes
  <2>4. MemoryAck(ui, d) /\ LeftAck(ui, d, replies)
    BY <1>1, <2>3, RecedesAck
  <2>5. PICK values, lost : values = {Failed(p.id) : p \in pending} /\ lost = {Failed(c.id)}
    OBVIOUS
  <2>6. R \subseteq replies \cup (values \cup lost)
    BY <1>5, <2>1, <2>5 DEF Deliver
  <2>7. Fails(values, cmds)
    <3>1. \A v \in values : \E p \in pending : v = Failed(p.id)
      BY <2>5
    <3> QED BY <1>3, <3>1, PendingFails
  <2>8. Fails(lost, cmds)
    <3>1. \A v \in lost : v.lo = 0 /\ ~ v.ok /\ v.id = c.id
      BY <2>5 DEF Failed
    <3>2. ASSUME NEW k \in 1 .. Len(cmds), cmds[k].op = "rpc" PROVE cmds[k].call.id # c.id
      <4>1. k + 1 \in 1 .. Len(commands) /\ cmds[k] = commands[k + 1] /\ k + 1 # 1
        BY <1>3
      <4> QED BY <1>1, <1>3, <3>2, <4>1 DEF UnsentOK
    <3> QED BY <3>1, <3>2 DEF Fails
  <2>9. Fails(values \cup lost, cmds)
    BY <2>7, <2>8 DEF Fails
  <2>10. ReplyAck(replies, cmds)
    BY <1>1, <1>3 DEF ReplyAck
  <2>11. ReplyAck(R, cmds) /\ LeftAck(ui, d, R)
    BY <2>4, <2>6, <2>9, <2>10, FailedAck
  <2>12. Continues(net, n) /\ {} \subseteq pending /\ DownAck(d, {})
    BY <1>1, <2>1, WireKept DEF DownAck
  <2>13. AckOK(ui, d, {}, n, cmds, R)
    BY <1>1, <1>2, <2>4, <2>11, <2>12, PoppedAck
  <2> QED BY <1>1, <1>2, <1>5, <2>1, <2>13 DEF AckInv
<1> QED BY <1>4, <1>5 DEF PumpRpc

\* The pump takes a command.
LEMMA PumpCommandAck == ASSUME Inv, AckInv, PumpCommand, UNCHANGED ui PROVE AckInv'
<1>1. client.phase = "up" /\ commands # <<>> /\ commands' = Tail(commands) /\ UNCHANGED <<ui, waiting>>
  BY DEF PumpCommand
<1>2. PICK cmds : cmds = Tail(commands)
  OBVIOUS
<1>3. PICK cmd \in Command : cmd = Head(commands) /\ CommandOK(cmd, log) /\ cmd = commands[1] /\ 1 \in 1 .. Len(commands)
  BY <1>1, <1>2, TailOK
<1>4. CASE cmd.op = "rpc" /\ PumpRpc(cmd.call)
  <2>1. PICK c : c = cmd.call
    OBVIOUS
  <2> QED BY <1>1, <1>3, <1>4, <2>1, PumpRpcAck
<1>5. CASE cmd.op = "cancel" /\ PumpCancel(cmd.id)
  <2>1. PICK i : i = cmd.id
    OBVIOUS
  <2> QED BY <1>1, <1>3, <1>5, <2>1, PumpCancelAck
<1>6. CASE cmd.op = "ack" /\ client' = AdvanceCursor(client, cmd.ws, cmd.seq) /\ UNCHANGED <<net, pending, replies>>
  <2>0. /\ ui \in View /\ client \in Memory /\ net \in Connection /\ commands \in Seq(Command)
        /\ AckOK(ui, client, pending, net, commands, replies) /\ WaitOK(ui, waiting) /\ QueueAck(ui, commands)
        /\ ReplyAck(replies, commands)
    BY AckFacts
  <2>1. cmd.ws \in Workspace /\ cmd.seq \in Int /\ cmd.seq <= log[cmd.ws]
    BY <1>3, <1>6 DEF Command, CommandOK
  <2>2. PICK w \in Workspace, k \in Int : w = cmd.ws /\ k = cmd.seq
    BY <2>1
  <2>3. (w = ui.ws => Bound(ui, k)) /\ k <= log[w]
    BY <1>3, <1>6, <2>0, <2>1, <2>2 DEF QueueAck, CommandAck
  <2>4. PICK d : d = client' /\ d = AdvanceCursor(client, w, k)
    BY <1>6, <2>2
  <2>5. MemoryAck(ui, d) /\ LeftAck(ui, d, replies) /\ d.phase = client.phase
    BY <2>3, <2>4, AdvanceAck
  <2>6. \A j \in 1 .. Len(cmds) : j + 1 \in 1 .. Len(commands) /\ cmds[j] = commands[j + 1]
    BY <1>1, <1>2, TailOK
  <2>7. ReplyAck(replies, cmds)
    BY <2>0, <2>6 DEF ReplyAck
  <2>8. Continues(net, net) /\ pending \subseteq pending /\ DownAck(d, pending) /\ commands[1].op # "rpc"
    BY <1>1, <1>3, <1>6, <2>0, <2>5, WireKept DEF DownAck
  <2>9. AckOK(ui, d, pending, net, cmds, replies)
    BY <1>1, <1>2, <2>0, <2>5, <2>7, <2>8, PoppedAck
  <2> QED BY <1>1, <1>2, <1>6, <2>0, <2>4, <2>9 DEF AckInv
<1> QED BY <1>3, <1>4, <1>5, <1>6 DEF PumpCommand

\* Only the memory and the wire change.
LEMMA RecedingAck ==
    ASSUME Inv, AckInv, NEW d, d = client', Recedes(client, d), DownAck(d, pending), Continues(net, net'),
           UNCHANGED <<ui, commands, waiting, pending, replies>>
    PROVE  AckInv'
<1>1. /\ ui \in View /\ AckOK(ui, client, pending, net, commands, replies) /\ WaitOK(ui, waiting)
      /\ MemoryAck(ui, client) /\ LeftAck(ui, client, replies) /\ ReplyAck(replies, commands)
  BY AckFacts
<1>2. MemoryAck(ui, d) /\ LeftAck(ui, d, replies)
  BY <1>1, RecedesAck
<1>3. PICK n : n = net' /\ Continues(net, n)
  OBVIOUS
<1>4. pending \subseteq pending
  OBVIOUS
<1>5. AckOK(ui, d, pending, n, commands, replies)
  BY <1>1, <1>2, <1>3, <1>4, QuietAck
<1> QED BY <1>1, <1>3, <1>5 DEF AckInv

\* The first cursor of a room.
LEMMA EntryRecedes ==
    ASSUME NEW m \in Memory, NEW w \in Workspace, NEW k \in Int, NEW r, r = EntryOrInsert(m, w, k)
    PROVE  r \in Memory /\ Recedes(m, r) /\ r.subscribed = m.subscribed /\ r.phase = m.phase
<1>1. m.acked \in [Workspace -> Int]
  BY DEF Memory
<1>2. PICK a \in Int : a = IF m.acked[w] = Absent THEN k ELSE m.acked[w]
  BY <1>1
<1>3. r = [m EXCEPT !.acked = [m.acked EXCEPT ![w] = a]]
  BY <1>2 DEF EntryOrInsert, Memory
<1>31. [m.acked EXCEPT ![w] = a] \in [Workspace -> Int]
  BY <1>1
<1>32. r \in Memory
  BY <1>3, <1>31 DEF Memory
<1>4. r.acked = [m.acked EXCEPT ![w] = a] /\ r.subscribed = m.subscribed /\ r.phase = m.phase
  BY <1>3 DEF Memory
<1>5. \A x \in Workspace : m.acked[x] # Absent => r.acked[x] = m.acked[x]
  BY <1>1, <1>2, <1>4
<1> QED BY <1>32, <1>4, <1>5 DEF Recedes

\* membership_changed.
LEMMA MembershipRecedes ==
    ASSUME NEW m \in Memory, NEW w \in Room, NEW k \in Int, NEW r, r = MembershipChanged(m, w, k)
    PROVE  r \in Memory /\ Recedes(m, r) /\ r.phase = m.phase
<1>1. PICK s \in Room : s = IF m.subscribed = w THEN m.subscribed ELSE None
  BY DEF Memory, Room
<1>2. [m EXCEPT !.subscribed = s, !.desired = w] \in Memory
  BY DEF Memory
<1>3. PICK f \in Memory : f = [m EXCEPT !.subscribed = s, !.desired = w]
  BY <1>2
<1>4. f = [m EXCEPT !.subscribed = IF @ = w THEN @ ELSE None, !.desired = w]
  BY <1>1, <1>3
<1>5. f.subscribed \in {m.subscribed, None} /\ f.acked = m.acked /\ f.phase = m.phase
  BY <1>1, <1>3 DEF Memory
<1>6. r = IF w = None THEN f ELSE EntryOrInsert(f, w, k)
  BY <1>4 DEF MembershipChanged
<1>7. CASE w = None
  BY <1>5, <1>6, <1>7 DEF Recedes
<1>8. CASE w # None
  <2>1. w \in Workspace /\ r = EntryOrInsert(f, w, k)
    BY <1>6, <1>8 DEF Room
  <2>2. r \in Memory /\ Recedes(f, r) /\ r.phase = m.phase
    BY <1>5, <2>1, EntryRecedes
  <2> QED BY <1>5, <2>2 DEF Recedes
<1> QED BY <1>7, <1>8

\* enqueue_event of the pump.
LEMMA EnqueueOrDisconnectAck ==
    ASSUME Inv, AckInv, net.out # <<>>, NEW m \in Memory, Recedes(client, m), m.phase = "up", NEW f,
           EnqueueOrDisconnect(m, f), UNCHANGED <<ui, commands, waiting>>
    PROVE  AckInv'
<1>1. net \in Connection
  BY Facts
<1>2. ASSUME net' = [net EXCEPT !.out = Tail(@)], client'.subscribed = m.subscribed, client'.acked = m.acked,
             client'.phase = m.phase, UNCHANGED <<pending, replies>>
      PROVE  AckInv'
  <2>1. net'.out = Tail(net.out) /\ net'.req = net.req
    BY <1>1, <1>2 DEF Connection
  <2>2. Continues(net, net')
    BY <1>1, <2>1, WireKept
  <2>3. PICK d : d = client'
    OBVIOUS
  <2>4. Recedes(client, d) /\ DownAck(d, pending)
    BY <1>2, <2>3 DEF Recedes, DownAck
  <2> QED BY <1>2, <2>2, <2>3, <2>4, RecedingAck
<1>3. CASE AlreadyEnqueued(m, f)
  BY <1>2, <1>3 DEF EnqueueOrDisconnect
<1>4. CASE ~ AlreadyEnqueued(m, f) /\ Len(events) >= EventCap
  <2>1. PumpEnds(m)
    BY <1>4 DEF EnqueueOrDisconnect
  <2> QED BY <2>1, PumpEndsAck
<1>5. CASE ~ AlreadyEnqueued(m, f) /\ ~ Len(events) >= EventCap
  <2>1. client' = Remember(m, f) /\ net' = [net EXCEPT !.out = Tail(@)] /\ UNCHANGED <<pending, replies>>
    BY <1>5 DEF EnqueueOrDisconnect
  <2>2. client'.subscribed = m.subscribed /\ client'.acked = m.acked /\ client'.phase = m.phase
    BY <2>1 DEF Remember, Memory
  <2> QED BY <1>2, <2>1, <2>2
<1> QED BY <1>3, <1>4, <1>5

\* What an answer does to the memory: a room that was left is forgotten.
LEMMA ResponseRecedes ==
    ASSUME Inv, NEW f \in Frame, FrameOK(f, log), NEW r, r = ResponseMemory(f)
    PROVE  r \in Memory /\ Recedes(client, r) /\ r.phase = client.phase /\ (f.t = "left" => r.subscribed = None)
<1>1. client \in Memory
  BY Facts
<1>2. r \in Memory /\ r.phase = client.phase
  BY ResponseMemoryOK
<1>3. CASE f.t = "joined"
  <2>1. PICK w \in Workspace : w = f.ws /\ w \in Room
    BY <1>3 DEF FrameOK, Frame, Room
  <2>2. [client EXCEPT !.desired = w] \in Memory
    BY <1>1, <2>1 DEF Memory
  <2>3. PICK m \in Memory : m = [client EXCEPT !.desired = w]
    BY <2>2
  <2>4. m.subscribed = client.subscribed /\ m.acked = client.acked
    BY <1>1, <2>3 DEF Memory
  <2>5. PICK k \in Int : k = f.lo
    BY DEF Frame
  <2>6. r = EntryOrInsert(m, w, k)
    BY <1>3, <2>1, <2>3, <2>5 DEF ResponseMemory
  <2>7. Recedes(m, r)
    BY <2>6, EntryRecedes
  <2> QED BY <1>2, <1>3, <2>4, <2>7 DEF Recedes
<1>4. CASE f.t = "left"
  <2>1. r.subscribed = None /\ r.acked = client.acked
    BY <1>1, <1>4 DEF ResponseMemory, Memory
  <2> QED BY <1>2, <2>1 DEF Recedes
<1>5. CASE f.t \notin {"joined", "left"}
  <2>1. r = client
    BY <1>5 DEF ResponseMemory
  <2> QED BY <1>2, <1>5, <2>1 DEF Recedes
<1> QED BY <1>3, <1>4, <1>5

\* The effect of an answer's call: a page moves the cursor to where the call began.
LEMMA CallEffectAck ==
    ASSUME NEW u \in View, NEW m \in Memory, NEW cmds, NEW P, NEW R, NEW p \in P, NEW f \in Frame, f.t = "page" => f.ws # None,
           MemoryAck(u, m), LeftAck(u, m, R), DrainAck(u, cmds, P), PendingAck(u, P), NEW r, r = CallEffect(m, p, f)
    PROVE  /\ MemoryAck(u, r) /\ LeftAck(u, r, R) /\ r.phase = m.phase
           /\ InStep(u, {"leave"}) => r.subscribed \in {m.subscribed, None}
<1>1. CASE p.latest /\ p.ws = m.desired /\ p.ws = f.ws /\ p.kind = "subscribe" /\ f.t = "page"
  <2>1. Subscribing(p)
    BY <1>1 DEF Subscribing
  <2>2. ~ Clean(u, cmds, P) /\ Bound(u, p.after)
    BY <2>1 DEF Clean, PendingAck
  <2>3. u.ws # None /\ ~ InStep(u, {"leave"}) /\ ~ InStep(u, {"join"})
    BY <2>2 DEF DrainAck, InStep
  <2>31. PICK w \in Workspace : w = f.ws
    BY <1>1 DEF Frame, Room
  <2>4. PICK s : w = f.ws /\ s = IF f.live THEN f.ws ELSE m.subscribed
    BY <2>31
  <2>5. m.acked \in [Workspace -> Int] /\ u.ws \in Workspace
    BY <2>3 DEF Memory, View, Room
  <2>6. r = [m EXCEPT !.acked[w] = p.after, !.highest[w] = 0, !.subscribed = s]
    BY <1>1, <2>4 DEF CallEffect
  <2>7. r.acked = [m.acked EXCEPT ![w] = p.after] /\ r.subscribed = s /\ r.phase = m.phase
    BY <2>6 DEF Memory
  <2>8. CASE u.ws = w
    <3>1. r.acked[u.ws] = p.after
      BY <2>5, <2>7, <2>8
    <3> QED BY <2>2, <2>3, <2>7, <3>1 DEF MemoryAck, LeftAck
  <2>9. CASE u.ws # w
    <3>1. r.acked[u.ws] = m.acked[u.ws] /\ (r.subscribed = u.ws => m.subscribed = u.ws)
      BY <2>4, <2>5, <2>7, <2>9
    <3> QED BY <2>3, <2>7, <3>1 DEF MemoryAck, LeftAck
  <2> QED BY <2>8, <2>9
<1>2. CASE r = [m EXCEPT !.subscribed = None]
  <2>1. r.subscribed = None /\ r.phase = m.phase
    BY <1>2 DEF Memory
  <2> QED BY <2>1 DEF MemoryAck, LeftAck
<1>3. CASE r = m
  BY <1>3
<1> QED BY <1>1, <1>2, <1>3 DEF CallEffect

\* The pump takes an answer.
LEMMA PumpResponseAck ==
    ASSUME Inv, AckInv, client.phase = "up", net.out # <<>>, PumpResponse(Head(net.out)), UNCHANGED <<ui, commands, waiting>>
    PROVE  AckInv'
<1>0. /\ ui \in View /\ client \in Memory /\ net \in Connection /\ pending \in SUBSET PendingCall
      /\ UnsentOK(net, pending, commands) /\ PendingAck(ui, pending)
      /\ AckOK(ui, client, pending, net, commands, replies) /\ WaitOK(ui, waiting)
      /\ MemoryAck(ui, client) /\ LeftAck(ui, client, replies) /\ ReplyAck(replies, commands)
  BY AckFacts
<1>1. PICK f : f = Head(net.out)
  OBVIOUS
<1>2. f \in Frame /\ FrameOK(f, log) /\ f = net.out[1] /\ 1 \in 1 .. Len(net.out)
  <2>1. PICK n : n = [net EXCEPT !.out = Tail(@)]
    OBVIOUS
  <2>2. pending \in SUBSET pending
    OBVIOUS
  <2> QED BY <1>1, <2>1, <2>2, PopOK
<1>3. PICK call, m : call = {p \in pending : p.id = f.id} /\ m = ResponseMemory(f)
  OBVIOUS
<1>4. m \in Memory /\ Recedes(client, m) /\ m.phase = "up" /\ (f.t = "left" => m.subscribed = None)
  BY <1>2, <1>3, ResponseRecedes
<1>5. MemoryAck(ui, m) /\ LeftAck(ui, m, replies)
  BY <1>0, <1>4, RecedesAck
<1>6. PICK d, n, P, R : d = client' /\ n = net' /\ P = pending' /\ R = replies'
  OBVIOUS
<1>7. n.out = Tail(net.out) /\ n.req = net.req /\ P \subseteq pending
  BY <1>0, <1>1, <1>3, <1>6 DEF PumpResponse, Connection
<1>8. Continues(net, n)
  BY <1>0, <1>7, WireKept
<1>9. CASE call = {}
  <2>1. d = m /\ R = replies
    BY <1>1, <1>3, <1>6, <1>9 DEF PumpResponse, Deliver
  <2>2. DownAck(d, P)
    BY <1>4, <2>1 DEF DownAck
  <2>3. AckOK(ui, d, P, n, commands, R)
    BY <1>0, <1>5, <1>7, <1>8, <2>1, <2>2, QuietAck
  <2> QED BY <1>0, <1>6, <2>3 DEF AckInv
<1>10. CASE call # {}
  <2>1. PICK p : p = CHOOSE x \in call : TRUE
    OBVIOUS
  <2>2. p \in call
    BY <1>10, <2>1
  <2>3. p \in pending /\ p.id = f.id /\ p.id \in Id
    BY <1>0, <1>3, <2>2 DEF PendingCall
  <2>4. d = CallEffect(m, p, f)
    BY <1>1, <1>3, <1>6, <1>10, <2>1 DEF PumpResponse
  <2>5. (f.t = "page" => f.ws # None) /\ DrainAck(ui, commands, pending) /\ FrameAck(net) /\ LeaveAck(ui, net, commands)
    BY <1>0, <1>2 DEF FrameOK, AckOK
  <2>6. /\ MemoryAck(ui, d) /\ LeftAck(ui, d, replies) /\ d.phase = m.phase
        /\ InStep(ui, {"leave"}) => d.subscribed \in {m.subscribed, None}
    BY <1>0, <1>2, <1>4, <1>5, <2>3, <2>4, <2>5, CallEffectAck
  <2>7. PICK v : v = Answered(f)
    OBVIOUS
  <2>8. v.id = f.id /\ v.lo = f.lo /\ v.ok = (f.t # "error")
    BY <2>7 DEF Answered
  <2>9. R \subseteq replies \cup {v}
    BY <1>1, <1>3, <1>6, <1>10, <2>7 DEF PumpResponse, Deliver
  <2>10. v.lo >= 0
    <3>1. CASE f.t = "page"
      <4>1. f.lo = p.after
        BY <1>2, <2>3, <3>1, Facts DEF PendingOK
      <4> QED BY <1>0, <2>3, <2>8, <4>1 DEF PendingAck
    <3>2. CASE f.t # "page"
      BY <1>2, <2>5, <2>8, <3>2 DEF FrameAck
    <3> QED BY <3>1, <3>2
  <2>11. \A k \in 1 .. Len(commands) : commands[k].op = "rpc" => v.id # commands[k].call.id
    BY <1>0, <2>3, <2>8 DEF UnsentOK
  <2>12. ReplyAck(R, commands)
    BY <1>0, <2>9, <2>10, <2>11 DEF ReplyAck
  <2>13. LeftAck(ui, d, R)
    <3>1. ASSUME InStep(ui, {"leave"}), v.id = ui.act.id, v.ok PROVE d.subscribed = None
      <4>1. ui.act.id # None
        BY <2>3, <2>8, <3>1, FeedAssumption
      <4>2. f.t \in {"left", "error"}
        BY <1>2, <2>5, <2>8, <3>1, <4>1 DEF LeaveAck
      <4>3. m.subscribed = None
        BY <1>4, <2>8, <3>1, <4>2
      <4> QED BY <2>6, <3>1, <4>3
    <3> QED BY <2>6, <2>9, <3>1 DEF LeftAck
  <2>14. DownAck(d, P)
    BY <1>4, <2>6 DEF DownAck
  <2>15. AckOK(ui, d, P, n, commands, R)
    BY <1>0, <1>7, <1>8, <2>6, <2>12, <2>13, <2>14, QuietAck
  <2> QED BY <1>0, <1>6, <2>15 DEF AckInv
<1> QED BY <1>9, <1>10

\* The pump takes a frame.
LEMMA PumpIncomingAck == ASSUME Inv, AckInv, PumpIncoming, UNCHANGED ui PROVE AckInv'
<1>1. client.phase = "up" /\ net.out # <<>> /\ UNCHANGED <<ui, commands, waiting>> /\ client \in Memory
  BY Facts DEF PumpIncoming
<1>2. PICK f : f = Head(net.out)
  OBVIOUS
<1>3. f \in Frame
  <2>1. PICK n : n = [net EXCEPT !.out = Tail(@)]
    OBVIOUS
  <2>2. pending \in SUBSET pending
    OBVIOUS
  <2> QED BY <1>1, <1>2, <2>1, <2>2, PopOK
<1>4. CASE EnqueueOrDisconnect(client, f)
  <2>1. Recedes(client, client)
    BY DEF Recedes
  <2> QED BY <1>1, <1>4, <2>1, EnqueueOrDisconnectAck
<1>5. CASE f.t = "changed" /\ EnqueueOrDisconnect(MembershipChanged(client, f.ws, f.lo), f)
  <2>1. PICK w \in Room, k \in Int : w = f.ws /\ k = f.lo
    BY <1>3 DEF Frame
  <2>2. PICK m : m = MembershipChanged(client, w, k)
    OBVIOUS
  <2>3. m \in Memory /\ Recedes(client, m) /\ m.phase = "up"
    BY <1>1, <2>2, MembershipRecedes
  <2> QED BY <1>1, <1>5, <2>1, <2>2, <2>3, EnqueueOrDisconnectAck
<1>6. CASE PumpResponse(f)
  BY <1>1, <1>2, <1>6, PumpResponseAck
<1> QED BY <1>2, <1>4, <1>5, <1>6 DEF PumpIncoming

\* A restoration takes a frame, sends a call of its own, or begins anew.
LEMMA RestoringWire ==
    ASSUME NEW n \in Connection, NEW n2, NEW r \in Request, r.id = RestoreId,
           n2.out = n.out \/ (n.out # <<>> /\ n2.out = Tail(n.out)) \/ n2.out = <<>>,
           n2.req = n.req \/ n2.req = <<>> \/ n2.req = <<r>> \/ n2.req = Append(n.req, r)
    PROVE  Continues(n, n2)
<1>1. n.out \in Seq(Frame) /\ n.req \in Seq(Request)
  BY DEF Connection
<1>2. \A k \in 1 .. Len(n2.out) : \E j \in 1 .. Len(n.out) : n2.out[k] = n.out[j]
  <2>1. CASE n2.out = n.out \/ n2.out = <<>>
    BY <2>1
  <2>2. CASE n.out # <<>> /\ n2.out = Tail(n.out)
    <3>1. \A k \in 1 .. Len(n2.out) : k + 1 \in 1 .. Len(n.out) /\ n2.out[k] = n.out[k + 1]
      BY <1>1, <2>2
    <3> QED BY <3>1
  <2> QED BY <2>1, <2>2
<1>3. \A k \in 1 .. Len(n2.req) : n2.req[k].id = RestoreId \/ \E j \in 1 .. Len(n.req) : n2.req[k] = n.req[j]
  <2>1. CASE n2.req = n.req \/ n2.req = <<>>
    BY <2>1
  <2>2. CASE n2.req = <<r>>
    BY <2>2
  <2>3. CASE n2.req = Append(n.req, r)
    <3>1. \A k \in 1 .. Len(n2.req) : (k \in 1 .. Len(n.req) /\ n2.req[k] = n.req[k]) \/ n2.req[k] = r
      BY <1>1, <2>3
    <3> QED BY <3>1
  <2> QED BY <2>1, <2>2, <2>3
<1> QED BY <1>2, <1>3 DEF Continues

\* A step of a client that is not connected: no call is pending.
LEMMA RestoringAck ==
    ASSUME Inv, AckInv, client.phase # "up", NEW d, d = client', Recedes(client, d), Continues(net, net'),
           UNCHANGED <<ui, commands, waiting, pending, replies>>
    PROVE  AckInv'
<1>1. DownAck(client, pending)
  BY AckFacts
<1>2. DownAck(d, pending)
  BY <1>1 DEF DownAck
<1> QED BY <1>2, RecedingAck

\* The calls of a restoration.
LEMMA RestoreCallOK ==
    ASSUME NEW kind \in CallKind, NEW w \in Room, NEW after \in Int, NEW r, r = RestoreCall(kind, w, after)
    PROVE  r \in Request /\ r.id = RestoreId
<1>1. r \in Request
  BY DEF RestoreCall, Request
<1> QED BY <1>1 DEF RestoreCall

\* A subscription of the restoration is sent, if the connection is up.
LEMMA ResubscribeContinues ==
    ASSUME NEW n \in Connection, NEW row \in Connection, row.req = n.req, NEW w \in Room, NEW after \in Int,
           row.out = n.out \/ (n.out # <<>> /\ row.out = Tail(n.out)), NEW n2, n2 = Resubscribe(row, w, after)
    PROVE  Continues(n, n2)
<1>1. PICK kind \in CallKind : kind = "subscribe"
  BY DEF CallKind
<1>2. PICK r \in Request : r = RestoreCall("subscribe", w, after) /\ r.id = RestoreId
  BY <1>1, RestoreCallOK
<1>3. n2.out = row.out /\ (n2.req = row.req \/ n2.req = Append(row.req, r))
  <2>1. CASE row.up
    <3>1. n2 = [row EXCEPT !.req = Append(row.req, r)]
      BY <1>2, <2>1 DEF Resubscribe
    <3> QED BY <3>1 DEF Connection
  <2>2. CASE ~ row.up
    <3>1. n2 = [row EXCEPT !.req = row.req]
      BY <2>2 DEF Resubscribe
    <3> QED BY <3>1 DEF Connection
  <2> QED BY <2>1, <2>2
<1> QED BY <1>2, <1>3, RestoringWire

\* A new connection.
LEMMA ConnectAck == ASSUME Inv, AckInv, Connect, UNCHANGED ui PROVE AckInv'
<1>1. client.phase # "up" /\ UNCHANGED <<ui, commands, waiting, pending, replies>> /\ client \in Memory /\ net \in Connection
  BY Facts DEF Connect
<1>2. PICK d, n, fresh : d = client' /\ n = net' /\ fresh = [Closed(<<>>) EXCEPT !.up = TRUE]
  OBVIOUS
<1>3. fresh.req = <<>> /\ fresh.out = <<>>
  BY <1>2 DEF Closed
<1>4. d.subscribed = client.subscribed /\ d.acked = client.acked
  BY <1>1, <1>2 DEF Connect, Connected, Memory
<1>5. PICK r \in Request : r = RestoreCall("join", client.desired, 0) /\ r.id = RestoreId
  <2>1. PICK kind \in CallKind, w \in Room, z \in Int : kind = "join" /\ w = client.desired /\ z = 0
    <3>1. "join" \in CallKind /\ client.desired \in Room /\ 0 \in Int
      BY <1>1 DEF CallKind, Memory
    <3> QED BY <3>1
  <2>2. PICK r : r = RestoreCall(kind, w, z)
    OBVIOUS
  <2>3. r \in Request /\ r.id = RestoreId
    BY <2>2, RestoreCallOK
  <2> QED BY <2>1, <2>2, <2>3
<1>6. n.out = <<>> /\ (n.req = <<>> \/ n.req = <<r>>)
  <2>1. CASE client.desired = None
    BY <1>2, <1>3, <2>1 DEF Connect
  <2>2. CASE client.desired # None
    <3>1. n = [fresh EXCEPT !.req = <<r>>]
      BY <1>2, <1>5, <2>2 DEF Connect
    <3> QED BY <1>2, <1>3, <3>1 DEF Closed
  <2> QED BY <2>1, <2>2
<1>7. Continues(net, n)
  BY <1>1, <1>5, <1>6, RestoringWire
<1>8. Recedes(client, d)
  BY <1>4 DEF Recedes
<1> QED BY <1>1, <1>2, <1>7, <1>8, RestoringAck

\* A notice during a restoration.
LEMMA RestoreNoticeAck == ASSUME Inv, AckInv, RestoreNotice, UNCHANGED ui PROVE AckInv'
<1>1. client.phase # "up" /\ UNCHANGED <<ui, commands, waiting, pending, replies>> /\ client \in Memory /\ net \in Connection
      /\ net.out # <<>> /\ net' = [net EXCEPT !.out = Tail(@)]
  BY Facts DEF RestoreNotice
<1>2. net'.out = Tail(net.out) /\ net'.req = net.req
  BY <1>1 DEF Connection
<1>3. Continues(net, net')
  BY <1>1, <1>2, WireKept
<1>4. PICK f : f = Head(net.out)
  OBVIOUS
<1>5. f \in Frame
  BY <1>1, <1>4 DEF Connection
<1>6. PICK w \in Room, k \in Int : w = f.ws /\ k = f.lo
  BY <1>5 DEF Frame
<1>7. PICK d : d = client' /\ d = MembershipChanged(client, w, k)
  BY <1>4, <1>6 DEF RestoreNotice
<1>8. Recedes(client, d)
  BY <1>1, <1>7, MembershipRecedes
<1> QED BY <1>1, <1>3, <1>7, <1>8, RestoringAck

\* The room is joined again.
LEMMA RestoreJoinedAck == ASSUME Inv, AckInv, RestoreJoined, UNCHANGED ui PROVE AckInv'
<1>1. client.phase # "up" /\ UNCHANGED <<ui, commands, waiting, pending, replies>> /\ client \in Memory /\ net \in Connection
      /\ net.out # <<>>
  BY Facts DEF RestoreJoined
<1>2. PICK d, n, row : d = client' /\ n = net' /\ row = [net EXCEPT !.out = Tail(@)]
  OBVIOUS
<1>3. d.subscribed = client.subscribed /\ d.acked = client.acked
  BY <1>1, <1>2 DEF RestoreJoined, Connected, Memory
<1>4. row \in Connection /\ row.req = net.req /\ row.out = Tail(net.out)
  <2>1. net.out \in Seq(Frame)
    BY <1>1 DEF Connection
  <2>2. Tail(net.out) \in Seq(Frame)
    BY <1>1, <2>1
  <2>3. row \in Connection
    BY <1>1, <1>2, <2>2 DEF Connection
  <2> QED BY <1>1, <1>2, <2>3 DEF Connection
<1>5. Continues(net, n)
  <2>1. CASE n = row
    BY <1>1, <1>4, <2>1, WireKept
  <2>2. CASE client.desired # None /\ n = Resubscribe(row, client.desired, Max({client.acked[client.desired], 0}))
    <3>1. PICK w \in Workspace : w = client.desired /\ w \in Room
      BY <1>1, <2>2 DEF Memory, Room
    <3>2. PICK a \in Int, z \in Int : a = client.acked[w] /\ z = 0
      BY <1>1 DEF Memory
    <3>3. PICK after \in Int : after = Max({a, z})
      <4>1. Max({a, z}) = a \/ Max({a, z}) = z
        BY MaxTwo
      <4> QED BY <4>1
    <3>4. n = Resubscribe(row, w, after)
      BY <2>2, <3>1, <3>2, <3>3
    <3> QED BY <1>1, <1>4, <3>1, <3>4, ResubscribeContinues
  <2> QED BY <1>2, <2>1, <2>2 DEF RestoreJoined
<1>6. Recedes(client, d)
  BY <1>3 DEF Recedes
<1> QED BY <1>1, <1>2, <1>5, <1>6, RestoringAck

\* The page of the restoration is taken and replayed, and the restoration ends.
LEMMA RestorePageAck == ASSUME Inv, AckInv, RestorePage \/ RestoreEvent \/ RestorePageDone, UNCHANGED ui PROVE AckInv'
<1>1. client.phase # "up" /\ UNCHANGED <<ui, commands, waiting, pending, replies>> /\ client \in Memory /\ net \in Connection
  BY Facts DEF RestorePage, RestoreEvent, RestorePageDone
<1>2. PICK d, n : d = client' /\ n = net'
  OBVIOUS
<1>3. CASE RestorePage
  <2>1. d.subscribed = client.subscribed /\ d.acked = client.acked
    BY <1>1, <1>2, <1>3 DEF RestorePage, Connected, Memory
  <2>2. net.out # <<>> /\ n.out = Tail(net.out) /\ n.req = net.req
    BY <1>1, <1>2, <1>3 DEF RestorePage, Connection
  <2>3. Continues(net, n) /\ Recedes(client, d)
    BY <1>1, <2>1, <2>2, WireKept DEF Recedes
  <2> QED BY <1>1, <1>2, <2>3, RestoringAck
<1>4. CASE RestoreEvent
  <2>1. PICK m, f : m = [client EXCEPT !.page.lo = @ + 1] /\ f = EventFrame(client.page.ws, client.page.lo + 1)
    OBVIOUS
  <2>2. m.subscribed = client.subscribed /\ m.acked = client.acked
    BY <1>1, <2>1 DEF Memory
  <2>3. d = m \/ d = [m EXCEPT !.highest[f.ws] = f.lo]
    BY <1>2, <1>4, <2>1 DEF RestoreEvent, Remember
  <2>4. d.subscribed = client.subscribed /\ d.acked = client.acked
    BY <1>1, <2>1, <2>2, <2>3 DEF Memory
  <2>5. n = net
    BY <1>2, <1>4 DEF RestoreEvent
  <2>6. Continues(net, n) /\ Recedes(client, d)
    BY <1>1, <2>4, <2>5, WireKept DEF Recedes
  <2> QED BY <1>1, <1>2, <2>6, RestoringAck
<1>5. CASE RestorePageDone
  <2>1. d.subscribed = client.subscribed /\ d.acked = client.acked
    BY <1>1, <1>2, <1>5 DEF RestorePageDone, Connected, Memory
  <2>2. PICK w \in Room, hi \in Int : w = client.page.ws /\ hi = client.page.hi
    BY <1>1 DEF Memory
  <2>3. n = net \/ n = Resubscribe(net, w, hi)
    BY <1>2, <1>5, <2>2 DEF RestorePageDone
  <2>4. n = Resubscribe(net, w, hi) => Continues(net, n)
    BY <1>1, ResubscribeContinues
  <2>5. Continues(net, n) /\ Recedes(client, d)
    BY <1>1, <2>1, <2>3, <2>4, WireKept DEF Recedes
  <2> QED BY <1>1, <1>2, <2>5, RestoringAck
<1> QED BY <1>3, <1>4, <1>5

\* The restoration is given up.
LEMMA AbandonAck == ASSUME Inv, AckInv, RestoreLost \/ RestoreExpired, UNCHANGED ui PROVE AckInv'
<1>1. client.phase # "up" /\ UNCHANGED <<ui, commands, waiting, pending, replies>> /\ client \in Memory /\ net \in Connection
      /\ Abandon
  BY Facts DEF RestoreLost, RestoreExpired, Abandon
<1>2. PICK d : d = client'
  OBVIOUS
<1>3. d.subscribed = client.subscribed /\ d.acked = client.acked
  BY <1>1, <1>2 DEF Abandon, Memory
<1>4. Continues(net, net') /\ Recedes(client, d)
  BY <1>1, <1>3, WireKept DEF Recedes, Abandon
<1> QED BY <1>1, <1>2, <1>4, RestoringAck

\* Every step of the client.
LEMMA ClientAck == ASSUME Inv, AckInv, ClientStep, UNCHANGED ui PROVE AckInv'
BY PumpCommandAck, PumpIncomingAck, PumpEofAck, DisconnectedAck, ConnectAck, RestoreNoticeAck, RestoreJoinedAck,
   RestorePageAck, AbandonAck DEF ClientStep, ClientProgress

\* A console that shows no room has no cursor on its way.
LEMMA InitAck == Init => AckInv
<1> SUFFICES ASSUME Init PROVE AckInv
  OBVIOUS
<1>1. FeedInit
  BY DEF Init
<1>2. net.req = <<>> /\ net.out = <<>>
  <2>1. Closed(<<>>) \in Connection
    BY DEF Closed, Connection, Room
  <2>2. PICK c \in Connection : c = Closed(<<>>)
    BY <2>1
  <2>3. c.req = <<>> /\ c.out = <<>>
    BY <2>2 DEF Closed
  <2>4. net = [c EXCEPT !.up = TRUE]
    BY <1>1, <2>2 DEF FeedInit
  <2> QED BY <2>3, <2>4 DEF Connection
<1>3. client.subscribed = None /\ client.phase = "up"
  BY <1>1 DEF FeedInit
<1>4. pending = {} /\ replies = {} /\ commands = <<>> /\ waiting = {}
  BY <1>1 DEF FeedInit
<1>5. Len(commands) = 0 /\ Len(net.req) = 0 /\ Len(net.out) = 0
  BY <1>2, <1>4
<1>6. /\ ui.ws = None /\ ui.applied = Absent /\ ui.ack = 0
      /\ ui.sync = None /\ ui.recent = None /\ ui.act = None
  BY DEF Init
<1>7. ViewAck(ui)
  BY <1>6 DEF ViewAck, InStep, Absent
<1>8. MemoryAck(ui, client)
  BY <1>3 DEF MemoryAck
<1>9. QueueAck(ui, commands) /\ PendingAck(ui, pending) /\ FrameAck(net) /\ ReplyAck(replies, commands)
  BY <1>4, <1>5 DEF QueueAck, PendingAck, FrameAck, ReplyAck
<1>10. DrainAck(ui, commands, pending)
  BY <1>4, <1>5, <1>6 DEF DrainAck, Clean, InStep
<1>11. LeftAck(ui, client, replies) /\ LeaveAck(ui, net, commands) /\ DownAck(client, pending)
  BY <1>3, <1>6 DEF LeftAck, LeaveAck, DownAck, InStep
<1>12. WaitOK(ui, waiting)
  BY <1>6 DEF WaitOK, JobId
<1> QED BY <1>7, <1>8, <1>9, <1>10, <1>11, <1>12 DEF AckInv, AckOK

\* Every step of the router, the client, the controller and the user.
LEMMA NextAck == Inv /\ Inv' /\ AckInv /\ [Next]_vars => AckInv'
<1> SUFFICES ASSUME Inv, Inv', AckInv, [Next]_vars PROVE AckInv'
  OBVIOUS
<1>1. CASE RouterStep /\ UNCHANGED ui
  BY <1>1, RouterAck
<1>2. CASE ClientStep /\ UNCHANGED ui
  BY <1>2, ClientAck
<1>3. CASE Controller
  BY <1>3, TakeEventAck, ObserveAck, SendOfTasksAck, ContinuesAck, SyncDoneAck, RecentDoneAck, SwitchDoneAck, ChatAck
     DEF Controller
<1>4. CASE User
  BY <1>4, ChatAck, SelectAck DEF User
<1>5. CASE UNCHANGED vars
  <2>1. UNCHANGED <<net, client, pending, commands, replies, waiting, ui>>
    BY <1>5 DEF vars, feedVars
  <2> QED BY <2>1 DEF AckInv
<1> QED BY <1>1, <1>2, <1>3, <1>4, <1>5 DEF Next

\* The client's cursor of the shown room is one of those the invariant bounds.
LEMMA AckApplied == AckInv => AckedIsApplied
BY DEF AckInv, AckOK, MemoryAck, Bound, AckedIsApplied

\* Everything the console has acknowledged, or is about to, or asks a subscription to
\* begin after, it has applied, whatever room is being left or joined meanwhile
\* (flush_ack, ack_event, acknowledge_event, ConnectionMemory).
THEOREM AlwaysAckInv == Spec => []AckInv
BY InitAck, NextAck, AlwaysInv, PTL DEF Spec

\* The cursor a reconnection resumes from never passes what the console has applied: a
\* replay skips no event (ack_event, flush_ack, restore_subscription).
THEOREM AckNeverPassesApplied == Spec => []AckedIsApplied
BY AlwaysAckInv, AckApplied, PTL

=============================================================================
