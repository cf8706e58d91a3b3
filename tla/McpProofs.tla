----------------------------- MODULE McpProofs ------------------------------
(* Proofs about Mcp, for any number of calls, requests and lost connections.  *)
(*                                                                            *)
(* A result finds the call that made the request, because the call registers  *)
(* before it sends and a withdrawn call is never taken up again.  Readiness   *)
(* is an argument about the two queues on the way to the router: if the last  *)
(* readiness in them is TRUE, then a call waits, or somebody has still to     *)
(* write FALSE, or a request is pending, or the router owes a cancellation.   *)
EXTENDS Mcp, TLAPS

Arg == Request \cup Call \cup {None, "refused", "result"}

Rpc == {"join", "leave", "send"}

Command == [kind : Rpc \cup {"ready", "unready", "reply", "cancel", "close"}, arg : Arg]

Entry == [cmd : Command, by : Task \cup {None}]

Notice == [type : {"deliver", "cancel", "cancel_fenced", "joined", "left", "result", "closed"}, arg : Arg]

Backend == [membership : BOOLEAN, waiter : Call \cup {None}, pending : Arg,
            omp_ready : BOOLEAN, closed : BOOLEAN]

CallRow == [pc : {"idle", "readying", "waiting", "replying", "sending", "accepted", "calling", "writing", "done"},
            kind : Rpc \cup {"none", "wait", "reply", "finished"}, req : Arg, mail : Arg]

Handling == [pc : {"idle", "handing", "notifying", "writing"}, req : Arg, to : Call \cup {None}]

Connection == [joined : BOOLEAN, stored : BOOLEAN, ready : BOOLEAN, busy : Arg,
               canceling : BOOLEAN, sends : SUBSET Arg]

ServerOK ==
    /\ state \in Backend /\ results \in SUBSET Call /\ call \in [Call -> CallRow]
    /\ ev \in Handling /\ spawned \in Nat /\ told \in SUBSET Arg

WritesOK ==
    /\ todo \in [Task -> Seq(Command)] /\ wrote \in [Task -> {"ok", "err", "pending"}]
    /\ outbox \in Seq(Entry)

RouterOK ==
    /\ link \in {"up", "down", "closed"} /\ drops \in Nat /\ desired \in BOOLEAN /\ left \in BOOLEAN
    /\ wire \in Seq(Entry) /\ events \in Seq(Notice) /\ rt \in Connection /\ asked \in SUBSET Request

TypeOK == ServerOK /\ WritesOK /\ RouterOK

-----------------------------------------------------------------------------
(* Calls.                                                                     *)

WaitOrDone(c) == call[c].kind = "wait" \/ call[c].pc = "done"

\* A call does what its kind says, and a slot belongs to a wait.
RowOK(c) ==
    /\ call[c].pc \in {"idle", "done"} => call[c].kind = "none"
    /\ call[c].pc \in {"sending", "accepted"} => call[c].kind = "send"
    /\ call[c].pc \in {"readying", "waiting"} => call[c].kind = "wait"
    /\ call[c].pc = "replying" => call[c].kind = "reply" /\ call[c].req \in told
    /\ call[c].pc = "calling" => call[c].kind \in {"join", "leave"}
    /\ call[c].pc = "writing" => call[c].kind # "send"

KindOK ==
    /\ \A c \in Call : RowOK(c)
    /\ \A c \in results : call[c].kind = "send"
    /\ state.waiter # None => WaitOrDone(state.waiter)
    /\ ev.pc = "handing" => ev.to \in Call /\ WaitOrDone(ev.to)

\* The end of the events is the last of them.
EventsOK == \A i \in 1 .. Len(events) : events[i].type = "closed" => link = "closed" /\ i = Len(events)

\* A call that awaits a result is registered for it, or has got it, or the
\* server or its client has ended.
Awaits(c) ==
    call[c].pc \in {"sending", "accepted"} =>
        c \in results \/ call[c].mail = "result" \/ state.closed \/ (link = "closed" /\ events = <<>>)

ResultOK == \A c \in Call : Awaits(c)

-----------------------------------------------------------------------------
(* Readiness.                                                                 *)

\* The agent pulls, and is on its first connection and in its first workspace.
First == Pull /\ drops = 0 /\ ~ left /\ ~ state.closed /\ link = "up"

\* What holds on later connections as well.
LinkOK ==
    /\ link = "down" => drops # 0
    /\ Pull /\ rt.ready => rt.stored /\ ~ rt.canceling
    /\ ~ state.closed => todo[Closer] = <<>>

Member ==
    /\ state.membership /\ rt.joined
    /\ \A i \in 1 .. Len(events) : events[i].type \notin {"joined", "left", "closed"}
    /\ \A i \in 1 .. Len(events) : events[i].type \in {"cancel", "cancel_fenced"} => rt.canceling

\* What a call writes where it is.
Plan(c) ==
    IF call[c].pc = "readying" THEN Ready(TRUE)
    ELSE IF call[c].pc = "writing" THEN Ready(FALSE)
    ELSE IF call[c].pc = "replying" THEN Reply(call[c].req)
    ELSE Cmd(call[c].kind, c)

Writing == {"readying", "writing", "replying", "calling", "sending"}

PlanRow(c) ==
    /\ todo[c] = <<>> \/ (call[c].pc \in Writing /\ todo[c] = <<Plan(c)>> /\ wrote[c] # "pending")
    /\ call[c].pc = "calling" /\ call[c].kind = "leave" /\ todo[c] = <<>> => wrote[c] # "ok"
    /\ call[c].pc = "writing" => call[c].kind \in {"wait", "reply"}

PlanOK ==
    /\ \A c \in Call : PlanRow(c)
    /\ ev.pc = "idle" => todo[Events] = <<>>
    /\ ev.pc # "notifying"
    /\ \A i \in 1 .. Len(todo[Events]) : todo[Events][i].kind \in {"reply", "unready"}

\* Who wrote what is on its way.
OwnEntry(e) ==
    /\ e.cmd.kind \in Rpc => /\ e.by \in Call /\ e.cmd.arg = e.by
                             /\ call[e.by].kind = e.cmd.kind \/ call[e.by].pc = "done"
    /\ e.cmd.kind \notin Rpc /\ e.by \in Call =>
            call[e.by].pc = "done" \/ call[e.by].kind \in {"wait", "reply"}

OwnOK(s) == \A i \in 1 .. Len(s) : OwnEntry(s[i])

\* A registered wait has not been given anything.
WaiterOK ==
    /\ state.waiter # None => call[state.waiter].pc \in {"readying", "waiting"} /\ call[state.waiter].mail = None
    /\ ev.pc = "handing" => state.waiter # ev.to

\* A request is delivered once.
AskedOK ==
    /\ told \subseteq asked /\ state.pending \in asked \cup {None}
    /\ \A c \in Call : call[c].mail \in asked \cup {None, "refused", "result"}
    /\ ev.pc = "handing" => ev.req \in asked
    /\ \A i \in 1 .. Len(events) : events[i].type = "deliver" =>
        /\ events[i].arg \in asked /\ events[i].arg \notin told
        /\ \A c \in Call : call[c].mail # events[i].arg
        /\ ev.pc = "handing" => ev.req # events[i].arg
        /\ \A j \in 1 .. Len(events) : events[j].type = "deliver" /\ events[j].arg = events[i].arg => j = i

\* Where the slot of a wait went that has not yet written its readiness.
Taken(c) ==
    call[c].pc = "readying" /\ todo[c] # <<>> /\ state.waiter # c =>
        \/ rt.canceling
        \/ /\ state.pending # None /\ state.pending \notin told
           /\ \A d \in Call : call[d].mail = state.pending => d = c
           /\ ev.pc = "handing" /\ ev.req = state.pending => ev.to = c

TakenOK == \A c \in Call : Taken(c)

Clear(s) == \A i \in 1 .. Len(s) : s[i].cmd.kind # "unready"

\* The last readiness in a queue is TRUE.
Lifts(s) == \E i \in 1 .. Len(s) : s[i].cmd.kind = "ready" /\ \A j \in i .. Len(s) : s[j].cmd.kind # "unready"

\* The agent will be ready when the router has read everything.
Raised == Lifts(outbox) \/ (Clear(outbox) /\ (Lifts(wire) \/ (Clear(wire) /\ rt.stored)))

Lowers(t) == \E i \in 1 .. Len(todo[t]) : todo[t][i].kind = "unready"

Covered ==
    \/ state.waiter # None \/ state.pending # None \/ rt.canceling \/ spawned # 0
    \/ \E t \in Task : Lowers(t)

QueuesOK == OwnOK(outbox) /\ OwnOK(wire)

Core == Member /\ PlanOK /\ QueuesOK /\ WaiterOK /\ AskedOK /\ TakenOK /\ (Raised => Covered)

Base == TypeOK /\ KindOK /\ EventsOK /\ ResultOK /\ LinkOK

Inv == Base /\ (First => Core)

-----------------------------------------------------------------------------
(* What the helpers do.                                                       *)

PC == {"idle", "readying", "waiting", "replying", "sending", "accepted", "calling", "writing", "done"}

Kind == Rpc \cup {"none", "wait", "reply", "finished"}

LEMMA Constants ==
    /\ Events \in Task /\ Closer \in Task /\ Call \subseteq Task /\ Events \notin Call /\ Closer \notin Call
    /\ Events # Closer /\ None \notin Task /\ None \notin Call /\ None \notin Request
    /\ "refused" \notin Request /\ "result" \notin Request /\ Call \subseteq Nat
    /\ Request \subseteq Arg /\ Call \subseteq Arg /\ None \in Arg
  <1>1. MaxCalls \in Nat  BY McpAssumption
  <1>2. /\ Events \in Task /\ Closer \in Task /\ Call \subseteq Task /\ Events \notin Call /\ Closer \notin Call
        /\ Events # Closer /\ Call \subseteq Nat
    BY <1>1 DEF Events, Task, Closer, Call
  <1>3. None \notin Task  BY McpAssumption DEF Task
  <1> QED  BY <1>2, <1>3, McpAssumption DEF Arg

LEMMA CmdType ==
    /\ \A b \in BOOLEAN : Ready(b) \in Command
    /\ \A r \in Arg : Reply(r) \in Command /\ Reply(r).kind = "reply"
    /\ \A k \in Rpc \cup {"cancel", "close"}, a \in Arg : Cmd(k, a) \in Command
    /\ Ready(TRUE).kind = "ready" /\ Ready(FALSE).kind = "unready"
    /\ RoleReadiness \in Seq(Command)
  <1>1. \A b \in BOOLEAN : Ready(b) \in Command
    BY DEF Ready, Cmd, Command, Arg
  <1>2. /\ \A r \in Arg : Reply(r) \in Command /\ Reply(r).kind = "reply"
        /\ \A k \in Rpc \cup {"cancel", "close"}, a \in Arg : Cmd(k, a) \in Command
    BY DEF Reply, Cmd, Command
  <1>3. Ready(TRUE).kind = "ready" /\ Ready(FALSE).kind = "unready"
    BY DEF Ready, Cmd
  <1>4. Ready(FALSE) \in Command  BY <1>1
  <1>5. RoleReadiness \in Seq(Command)
    <2>1. PICK x \in Command : x = Ready(FALSE)  BY <1>4
    <2>2. <<x>> \in Seq(Command) /\ <<>> \in Seq(Command)  OBVIOUS
    <2> QED  BY <2>1, <2>2 DEF RoleReadiness
  <1> QED  BY <1>1, <1>2, <1>3, <1>5

\* A task gets its writes; the others keep theirs.
LEMMA WillEffect ==
    ASSUME WritesOK, NEW t \in Task, NEW cmds \in Seq(Command), Will(t, cmds)
    PROVE  /\ todo' \in [Task -> Seq(Command)] /\ wrote' \in [Task -> {"ok", "err", "pending"}]
           /\ todo'[t] = cmds /\ wrote'[t] = "ok"
           /\ \A u \in Task : u # t => todo'[u] = todo[u] /\ wrote'[u] = wrote[u]
  <1>1. todo \in [Task -> Seq(Command)] /\ wrote \in [Task -> {"ok", "err", "pending"}]  BY DEF WritesOK
  <1>2. todo' = [todo EXCEPT ![t] = cmds] /\ wrote' = [wrote EXCEPT ![t] = "ok"]  BY DEF Will
  <1> QED  BY <1>1, <1>2

LEMMA GotoEffect ==
    ASSUME call \in [Call -> CallRow], NEW c \in Call, NEW pc \in PC, Goto(c, pc)
    PROVE  /\ call' \in [Call -> CallRow]
           /\ \A d \in Call : d # c => call'[d] = call[d]
           /\ call'[c].pc = pc
           /\ pc = "done" => call'[c].kind = "none" /\ call'[c].mail = None
           /\ pc # "done" => /\ call'[c].kind = call[c].kind /\ call'[c].req = call[c].req
                             /\ call'[c].mail = call[c].mail
  <1>1. PICK row \in CallRow : row = call[c]  OBVIOUS
  <1>2. NoCall \in CallRow /\ NoCall.kind = "none" /\ NoCall.mail = None  BY DEF NoCall, CallRow, Arg, Rpc
  <1>3. PICK no \in CallRow : no = NoCall  BY <1>2
  <1>4. PICK new \in CallRow : new = IF pc = "done" THEN [no EXCEPT !.pc = "done"] ELSE [row EXCEPT !.pc = pc]
    <2>1. [no EXCEPT !.pc = "done"] \in CallRow  BY DEF CallRow
    <2>2. [row EXCEPT !.pc = pc] \in CallRow  BY DEF CallRow, PC
    <2> QED  BY <2>1, <2>2
  <1>5. call' = [call EXCEPT ![c] = new]  BY <1>1, <1>3, <1>4 DEF Goto
  <1>6. /\ new.pc = pc
        /\ pc = "done" => new.kind = no.kind /\ new.mail = no.mail
        /\ pc # "done" => new.kind = row.kind /\ new.req = row.req /\ new.mail = row.mail
    BY <1>4 DEF CallRow, PC
  <1>7. call' \in [Call -> CallRow] /\ call'[c] = new /\ \A d \in Call : d # c => call'[d] = call[d]  BY <1>5
  <1> QED  BY <1>1, <1>2, <1>3, <1>6, <1>7

LEMMA EnterEffect ==
    ASSUME call \in [Call -> CallRow], NEW c \in Call, NEW k \in Kind, NEW r \in Arg, NEW pc \in PC,
           Enter(c, k, r, pc)
    PROVE  /\ call' \in [Call -> CallRow]
           /\ \A d \in Call : d # c => call'[d] = call[d]
           /\ call'[c].pc = pc /\ call'[c].mail = None
           /\ pc = "done" => call'[c].kind = "none"
           /\ pc # "done" => call'[c].kind = k /\ call'[c].req = r
  <1>2. NoCall \in CallRow /\ NoCall.kind = "none" /\ NoCall.mail = None  BY DEF NoCall, CallRow, Arg, Rpc
  <1>3. PICK no \in CallRow : no = NoCall  BY <1>2
  <1>4. PICK new \in CallRow : new = IF pc = "done" THEN [no EXCEPT !.pc = "done"]
                                     ELSE [no EXCEPT !.pc = pc, !.kind = k, !.req = r]
    <2>1. [no EXCEPT !.pc = "done"] \in CallRow  BY DEF CallRow
    <2>2. [no EXCEPT !.pc = pc, !.kind = k, !.req = r] \in CallRow  BY DEF CallRow, PC, Kind
    <2> QED  BY <2>1, <2>2
  <1>5. call' = [call EXCEPT ![c] = new]  BY <1>3, <1>4 DEF Enter
  <1>6. /\ new.pc = pc /\ new.mail = no.mail
        /\ pc = "done" => new.kind = no.kind
        /\ pc # "done" => new.kind = k /\ new.req = r
    BY <1>4 DEF CallRow, PC
  <1>7. call' \in [Call -> CallRow] /\ call'[c] = new /\ \A d \in Call : d # c => call'[d] = call[d]  BY <1>5
  <1> QED  BY <1>2, <1>3, <1>6, <1>7

LEMMA AnsweredEffect ==
    ASSUME call \in [Call -> CallRow], NEW C, NEW m \in Arg
    PROVE  /\ Answered(C, m) \in [Call -> CallRow]
           /\ \A d \in Call :
                /\ Answered(C, m)[d].pc = call[d].pc /\ Answered(C, m)[d].kind = call[d].kind
                /\ Answered(C, m)[d].req = call[d].req
                /\ d \in C /\ call[d].pc \notin {"idle", "done"} => Answered(C, m)[d].mail = m
                /\ d \notin C \/ call[d].pc \in {"idle", "done"} => Answered(C, m)[d].mail = call[d].mail
  <1>1. \A row \in CallRow : /\ [row EXCEPT !.mail = m] \in CallRow
                             /\ [row EXCEPT !.mail = m].pc = row.pc /\ [row EXCEPT !.mail = m].kind = row.kind
                             /\ [row EXCEPT !.mail = m].req = row.req /\ [row EXCEPT !.mail = m].mail = m
    BY DEF CallRow
  <1>2. \A d \in Call : call[d] \in CallRow  OBVIOUS
  <1>3. \A d \in Call : Answered(C, m)[d] = IF d \in C /\ call[d].pc \notin {"idle", "done"}
                                            THEN [call[d] EXCEPT !.mail = m] ELSE call[d]
    BY DEF Answered, Live
  <1>4. Answered(C, m) \in [Call -> CallRow]
    BY <1>1, <1>2 DEF Answered
  <1> QED  BY <1>1, <1>2, <1>3, <1>4

LEMMA DropGuardEffect ==
    ASSUME state \in Backend, spawned \in Nat, NEW c \in Call, DropGuard(c)
    PROVE  /\ state' \in Backend /\ spawned' \in Nat
           /\ state'.pending = state.pending /\ state'.membership = state.membership
           /\ state'.closed = state.closed
           /\ state.waiter = c => state'.waiter = None /\ spawned' # 0
           /\ state.waiter # c => state'.waiter = state.waiter /\ spawned' = spawned
           /\ state'.waiter # c
  <1>1. PICK st \in Backend : st = state  OBVIOUS
  <1>2. PICK new \in Backend : new = [st EXCEPT !.waiter = None]  BY DEF Backend
  <1>3. /\ new.pending = st.pending /\ new.membership = st.membership /\ new.closed = st.closed
        /\ new.waiter = None
    BY <1>2 DEF Backend
  <1>4. state' = IF state.waiter = c THEN new ELSE state  BY <1>1, <1>2 DEF DropGuard
  <1>5. spawned' \in Nat /\ (state.waiter = c => spawned' # 0) /\ (state.waiter # c => spawned' = spawned)
    BY DEF DropGuard
  <1> QED  BY <1>1, <1>3, <1>4, <1>5, Constants

LEMMA AnswerEffect ==
    ASSUME WritesOK, NEW t, NEW a \in {"ok", "err"}
    PROVE  /\ Answer(t, a) \in [Task -> {"ok", "err", "pending"}]
           /\ \A u \in Task : u # t => Answer(t, a)[u] = wrote[u]
           /\ \A u \in Task : Answer(t, a)[u] \in {wrote[u], a}
  BY DEF Answer, WritesOK

-----------------------------------------------------------------------------
(* Shapes of a step, and that each keeps Base.                                *)

\* A step of call c.
Moves(c) ==
    /\ ServerOK' /\ WritesOK'
    /\ UNCHANGED <<role, desired, link, drops, router, events, ev>>
    /\ todo'[Closer] = todo[Closer] /\ state'.closed = state.closed
    /\ told \subseteq told'
    /\ \A d \in Call : d # c =>
        /\ call'[d].pc = call[d].pc /\ call'[d].kind = call[d].kind /\ call'[d].req = call[d].req
        /\ call[d].kind = "send" => call'[d].mail = call[d].mail
    /\ call[c].pc = "done" => call'[c].pc = "done"
    /\ call[c].pc # "idle" => call'[c].pc = "done" \/ call'[c].kind = call[c].kind
    /\ RowOK(c)' /\ Awaits(c)'
    /\ results \ {c} \subseteq results' /\ results' \subseteq results \cup {c}
    /\ c \in results' => call'[c].kind = "send"
    /\ state'.waiter \in {state.waiter, None, c}
    /\ state'.waiter = c => WaitOrDone(c)'

\* A step of the event task, or of close.
Serves ==
    /\ ServerOK' /\ WritesOK'
    /\ UNCHANGED <<role, desired, link, drops, router>>
    /\ ~ state'.closed => ~ state.closed /\ todo'[Closer] = todo[Closer]
    /\ told \subseteq told'
    /\ \A d \in Call : call'[d].pc = call[d].pc /\ call'[d].kind = call[d].kind /\ call'[d].req = call[d].req
    /\ results' \subseteq results
    /\ state'.waiter \in {state.waiter, None}
    /\ ev'.pc = "handing" => ev' = ev \/ (ev'.to = state.waiter /\ ev'.to # None)
    /\ events' = events \/ (events # <<>> /\ events' = Tail(events))

\* A step of the client or of the router.
Conveys ==
    /\ WritesOK' /\ RouterOK'
    /\ UNCHANGED <<role, backend, todo>>
    /\ EventsOK' /\ LinkOK'
    /\ link = "closed" => link' = "closed" /\ events' = events

LEMMA MovesKeeps ==
    ASSUME Base, NEW c \in Call, Moves(c)
    PROVE  Base'
  <1>1. TypeOK'  BY DEF Base, TypeOK, Moves, RouterOK, router
  <1>2. KindOK'
    <2>1. \A d \in Call : RowOK(d)'  BY DEF Base, KindOK, RowOK, Moves
    <2>2. \A d \in results' : call'[d].kind = "send"
      BY DEF Base, KindOK, Moves, TypeOK, ServerOK
    <2>3. \A d \in Call : WaitOrDone(d) => WaitOrDone(d)'
      BY DEF Base, KindOK, RowOK, Moves, WaitOrDone
    <2>4. state.waiter \in Call \cup {None} /\ state'.waiter \in Call \cup {None}
      BY DEF Base, TypeOK, Moves, ServerOK, Backend
    <2>5. state'.waiter # None => WaitOrDone(state.waiter)' 
      BY <2>3, <2>4 DEF Base, KindOK, Moves, WaitOrDone
    <2>6. ev'.pc = "handing" => ev'.to \in Call /\ WaitOrDone(ev.to)'
      BY <2>3 DEF Base, KindOK, Moves, WaitOrDone
    <2> QED  BY <2>1, <2>2, <2>5, <2>6 DEF KindOK
  <1>3. EventsOK'  BY DEF Base, EventsOK, Moves
  <1>4. ResultOK'  BY DEF Base, KindOK, RowOK, ResultOK, Awaits, Moves
  <1>5. LinkOK'  BY DEF Base, LinkOK, Moves, router, Pull
  <1> QED  BY <1>1, <1>2, <1>3, <1>4, <1>5 DEF Base

LEMMA TailEvents ==
    ASSUME NEW S, NEW s \in Seq(S), s # <<>>
    PROVE  /\ Tail(s) \in Seq(S) /\ Len(s) \in Nat \ {0} /\ Len(Tail(s)) = Len(s) - 1 /\ Head(s) = s[1] /\ Head(s) \in S
           /\ \A i \in 1 .. Len(Tail(s)) : i + 1 \in 1 .. Len(s) /\ Tail(s)[i] = s[i + 1]
  OBVIOUS

LEMMA ServesKeeps ==
    ASSUME Base, Serves, ResultOK'
    PROVE  Base'
  <1>0. events \in Seq(Notice)  BY DEF Base, TypeOK, RouterOK
  <1>1. TypeOK'
    <2>1. events' \in Seq(Notice)  BY <1>0, TailEvents DEF Serves
    <2> QED  BY <2>1 DEF Base, TypeOK, Serves, RouterOK, router
  <1>2. KindOK'
    <2>1. \A d \in Call : RowOK(d)'  BY DEF Base, KindOK, RowOK, Serves
    <2>2. \A d \in results' : call'[d].kind = "send"
      BY DEF Base, KindOK, Serves, TypeOK, ServerOK
    <2>3. \A d \in Call : WaitOrDone(d) => WaitOrDone(d)'
      BY DEF Base, KindOK, RowOK, Serves, WaitOrDone
    <2>4. state.waiter \in Call \cup {None} /\ state'.waiter \in Call \cup {None}
      BY DEF Base, TypeOK, Serves, ServerOK, Backend
    <2>5. state'.waiter # None => WaitOrDone(state.waiter)' 
      BY <2>3, <2>4 DEF Base, KindOK, Serves, WaitOrDone
    <2>6. ev'.pc = "handing" => ev'.to \in Call /\ WaitOrDone(ev.to)'
      BY <2>3, <2>4 DEF Base, KindOK, Serves, WaitOrDone
    <2> QED  BY <2>1, <2>2, <2>5, <2>6 DEF KindOK
  <1>3. EventsOK'
    <2>1. CASE events' = events  BY <2>1 DEF Base, EventsOK, Serves
    <2>2. CASE events # <<>> /\ events' = Tail(events)
      <3>1. /\ Len(events) \in Nat \ {0} /\ Len(events') = Len(events) - 1
            /\ \A i \in 1 .. Len(events') : i + 1 \in 1 .. Len(events) /\ events'[i] = events[i + 1]
        BY <1>0, <2>2, TailEvents
      <3> QED  BY <3>1 DEF Base, EventsOK, Serves
    <2> QED  BY <2>1, <2>2 DEF Serves
  <1>5. LinkOK'  BY DEF Base, LinkOK, Serves, router, Pull
  <1> QED  BY <1>1, <1>2, <1>3, <1>5 DEF Base

LEMMA ConveysKeeps ==
    ASSUME Base, Conveys
    PROVE  Base'
  <1>1. TypeOK'  BY DEF Base, TypeOK, Conveys, ServerOK, backend
  <1>2. KindOK'  BY DEF Base, KindOK, RowOK, WaitOrDone, Conveys, backend
  <1>3. ResultOK'  BY DEF Base, ResultOK, Awaits, Conveys, backend
  <1> QED  BY <1>1, <1>2, <1>3 DEF Base, Conveys

-----------------------------------------------------------------------------
(* The steps of a call.                                                       *)

LEMMA SingleType ==
    /\ <<>> \in Seq(Command)
    /\ \A b \in BOOLEAN : <<Ready(b)>> \in Seq(Command)
    /\ \A r \in Arg : <<Reply(r)>> \in Seq(Command)
    /\ \A k \in Rpc \cup {"cancel", "close"}, a \in Arg : <<Cmd(k, a)>> \in Seq(Command)
  <1>1. \A x \in Command : <<x>> \in Seq(Command)  OBVIOUS
  <1> QED  BY <1>1, CmdType

LEMMA BackendEffect ==
    ASSUME state \in Backend
    PROVE  /\ \A w \in Call \cup {None} :
                /\ [state EXCEPT !.waiter = w] \in Backend
                /\ [state EXCEPT !.waiter = w].waiter = w
                /\ [state EXCEPT !.waiter = w].pending = state.pending
                /\ [state EXCEPT !.waiter = w].membership = state.membership
                /\ [state EXCEPT !.waiter = w].closed = state.closed
           /\ \A p \in Arg :
                /\ [state EXCEPT !.pending = p] \in Backend
                /\ [state EXCEPT !.pending = p].pending = p
                /\ [state EXCEPT !.pending = p].waiter = state.waiter
                /\ [state EXCEPT !.pending = p].membership = state.membership
                /\ [state EXCEPT !.pending = p].closed = state.closed
           /\ \A p \in Arg, w \in Call \cup {None} :
                /\ [state EXCEPT !.pending = p, !.waiter = w] \in Backend
                /\ [state EXCEPT !.pending = p, !.waiter = w].pending = p
                /\ [state EXCEPT !.pending = p, !.waiter = w].waiter = w
                /\ [state EXCEPT !.pending = p, !.waiter = w].membership = state.membership
                /\ [state EXCEPT !.pending = p, !.waiter = w].closed = state.closed
           /\ state.waiter \in Call \cup {None} /\ state.pending \in Arg
           /\ state.closed \in BOOLEAN /\ state.membership \in BOOLEAN
  BY DEF Backend

LEMMA Literals ==
    /\ \A k \in {"wait", "reply", "finished", "send", "join", "leave"} : k \in Kind
    /\ \A k \in {"readying", "waiting", "replying", "sending", "accepted", "calling", "writing", "done"} : k \in PC
  BY DEF Kind, PC, Rpc

LEMMA CallType ==
    ASSUME Base, NEW c \in Call
    PROVE  /\ call \in [Call -> CallRow] /\ state \in Backend /\ WritesOK /\ ServerOK /\ c \in Task /\ c # Closer
           /\ call[c] \in CallRow /\ RowOK(c) /\ Awaits(c) /\ c \in Arg
           /\ state.waiter = c => WaitOrDone(c)
           /\ spawned \in Nat
  BY Constants DEF Base, TypeOK, ServerOK, KindOK, ResultOK

LEMMA AgentWaitMoves ==
    ASSUME Base, NEW c \in Call, AgentWait(c)
    PROVE  Moves(c)
  <1>1. CASE ~ state.membership \/ state.pending # None \/ state.waiter # None
    <2>1. Enter(c, "wait", None, "done") /\ UNCHANGED <<state, todo, wrote>>  BY <1>1 DEF AgentWait
    <2>2. /\ call' \in [Call -> CallRow] /\ \A d \in Call : d # c => call'[d] = call[d]
          /\ call'[c].pc = "done" /\ call'[c].kind = "none"
      BY <2>1, EnterEffect, CallType, Literals, Constants
    <2> QED  BY <2>1, <2>2, CallType, Constants
             DEF AgentWait, Admits, Moves, ServerOK, WritesOK, RowOK, Awaits, WaitOrDone, client, KindOK, Base
  <1>2. CASE ~ (~ state.membership \/ state.pending # None \/ state.waiter # None)
    <2>1. /\ Enter(c, "wait", None, "readying") /\ Will(c, <<Ready(TRUE)>>)
          /\ state' = [state EXCEPT !.waiter = c]
      BY <1>2 DEF AgentWait
    <2>2. /\ call' \in [Call -> CallRow] /\ \A d \in Call : d # c => call'[d] = call[d]
          /\ call'[c].pc = "readying" /\ call'[c].kind = "wait"
      BY <2>1, EnterEffect, CallType, Literals, Constants
    <2>3. state' \in Backend /\ state'.waiter = c /\ state'.closed = state.closed
      BY <2>1, BackendEffect, CallType
    <2>4. WritesOK' /\ todo'[Closer] = todo[Closer]
      BY <2>1, WillEffect, SingleType, CallType, Constants DEF AgentWait, client, WritesOK
    <2> QED  BY <2>1, <2>2, <2>3, <2>4, CallType, Constants
             DEF AgentWait, Admits, Moves, ServerOK, RowOK, Awaits, WaitOrDone, client, KindOK, Base
  <1> QED  BY <1>1, <1>2

LEMMA WaitReadiedMoves ==
    ASSUME Base, NEW c \in Call, WaitReadied(c)
    PROVE  Moves(c)
  <1>1. WritesOK' /\ todo'[Closer] = todo[Closer]
    BY WillEffect, SingleType, CallType, Constants DEF WaitReadied, client, WritesOK
  <1>2. CASE wrote[c] = "ok"
    <2>1. Goto(c, "waiting") /\ UNCHANGED <<state, spawned>>  BY <1>2 DEF WaitReadied
    <2>2. /\ call' \in [Call -> CallRow] /\ \A d \in Call : d # c => call'[d] = call[d]
          /\ call'[c].pc = "waiting" /\ call'[c].kind = call[c].kind
      BY <2>1, GotoEffect, CallType, Literals
    <2> QED  BY <1>1, <2>1, <2>2, CallType, Constants
             DEF WaitReadied, Moves, ServerOK, RowOK, Awaits, WaitOrDone, client, KindOK, Base
  <1>3. CASE wrote[c] # "ok"
    <2>1. Goto(c, "done") /\ DropGuard(c)  BY <1>3 DEF WaitReadied
    <2>2. /\ call' \in [Call -> CallRow] /\ \A d \in Call : d # c => call'[d] = call[d]
          /\ call'[c].pc = "done" /\ call'[c].kind = "none"
      BY <2>1, GotoEffect, CallType, Literals
    <2>3. state' \in Backend /\ state'.waiter \in {state.waiter, None} /\ state'.closed = state.closed /\ spawned' \in Nat
      BY <2>1, DropGuardEffect, CallType
    <2>4. c \notin results  BY CallType DEF WaitReadied, KindOK, Base, RowOK
    <2> QED  BY <1>1, <2>1, <2>2, <2>3, <2>4, CallType, Constants
             DEF WaitReadied, Moves, ServerOK, RowOK, Awaits, WaitOrDone, client
  <1> QED  BY <1>2, <1>3

LEMMA WaitTimeoutMoves ==
    ASSUME Base, NEW c \in Call, WaitTimeout(c)
    PROVE  Moves(c)
  <1>4. c \notin results  BY CallType DEF WaitTimeout, KindOK, Base, RowOK
  <1>1. CASE state.waiter = c
    <2>1. Goto(c, "writing") /\ Will(c, <<Ready(FALSE)>>) /\ state' = [state EXCEPT !.waiter = None]
      BY <1>1 DEF WaitTimeout
    <2>2. /\ call' \in [Call -> CallRow] /\ \A d \in Call : d # c => call'[d] = call[d]
          /\ call'[c].pc = "writing" /\ call'[c].kind = call[c].kind
      BY <2>1, GotoEffect, CallType, Literals
    <2>3. state' \in Backend /\ state'.waiter = None /\ state'.closed = state.closed
      BY <2>1, BackendEffect, CallType
    <2>4. WritesOK' /\ todo'[Closer] = todo[Closer]
      BY <2>1, WillEffect, SingleType, CallType, Constants DEF WaitTimeout, client, WritesOK
    <2> QED  BY <1>4, <2>2, <2>3, <2>4, CallType, Constants
             DEF WaitTimeout, Moves, ServerOK, RowOK, Awaits, WaitOrDone, client
  <1>2. CASE state.waiter # c
    <2>1. Goto(c, "done") /\ UNCHANGED <<state, todo, wrote>>  BY <1>2 DEF WaitTimeout
    <2>2. /\ call' \in [Call -> CallRow] /\ \A d \in Call : d # c => call'[d] = call[d]
          /\ call'[c].pc = "done" /\ call'[c].kind = "none"
      BY <2>1, GotoEffect, CallType, Literals
    <2> QED  BY <1>2, <1>4, <2>1, <2>2, CallType, Constants
             DEF WaitTimeout, Moves, ServerOK, WritesOK, RowOK, Awaits, WaitOrDone, client
  <1> QED  BY <1>1, <1>2

LEMMA WaitReceivedMoves ==
    ASSUME Base, NEW c \in Call, WaitReceived(c)
    PROVE  Moves(c)
  <1>1. c \notin results  BY CallType DEF WaitReceived, KindOK, Base, RowOK
  <1>2. /\ call' \in [Call -> CallRow] /\ \A d \in Call : d # c => call'[d] = call[d]
        /\ call'[c].pc = "done" /\ call'[c].kind = "none"
    BY GotoEffect, CallType, Literals DEF WaitReceived
  <1>3. told' \in SUBSET Arg /\ told \subseteq told'
    BY CallType, Constants DEF WaitReceived, ServerOK
  <1> QED  BY <1>1, <1>2, <1>3, CallType, Constants
           DEF WaitReceived, Moves, ServerOK, WritesOK, RowOK, Awaits, WaitOrDone, client

LEMMA AgentReplyMoves ==
    ASSUME Base, NEW c \in Call, NEW r \in told, NEW expired \in BOOLEAN, AgentReply(c, r, expired)
    PROVE  Moves(c)
  <1>0. r \in Arg  BY DEF Base, TypeOK, ServerOK
  <1>1. call[c].pc = "idle" /\ c \notin results
    BY CallType DEF AgentReply, Admits, KindOK, Base, RowOK
  <1>2. CASE expired \/ state.pending # r \/ ~ state.membership
    <2>1. Enter(c, "reply", r, "done") /\ UNCHANGED <<todo, wrote>>  BY <1>2 DEF AgentReply
    <2>2. /\ call' \in [Call -> CallRow] /\ \A d \in Call : d # c => call'[d] = call[d]
          /\ call'[c].pc = "done" /\ call'[c].kind = "none"
      BY <1>0, <2>1, EnterEffect, CallType, Literals
    <2> QED  BY <1>1, <2>1, <2>2, CallType, Constants
             DEF AgentReply, Moves, ServerOK, WritesOK, RowOK, Awaits, WaitOrDone, client
  <1>3. CASE ~ (expired \/ state.pending # r \/ ~ state.membership)
    <2>1. Enter(c, "reply", r, "replying") /\ Will(c, <<Reply(r)>>)  BY <1>3 DEF AgentReply
    <2>2. /\ call' \in [Call -> CallRow] /\ \A d \in Call : d # c => call'[d] = call[d]
          /\ call'[c].pc = "replying" /\ call'[c].kind = "reply" /\ call'[c].req = r
      BY <1>0, <2>1, EnterEffect, CallType, Literals
    <2>4. WritesOK' /\ todo'[Closer] = todo[Closer]
      BY <1>0, <2>1, WillEffect, SingleType, CallType, Constants DEF AgentReply, client, WritesOK
    <2>5. state.waiter # c  BY <1>1, CallType DEF WaitOrDone, RowOK
    <2> QED  BY <1>1, <2>2, <2>4, <2>5, CallType, Constants
             DEF AgentReply, Moves, ServerOK, RowOK, Awaits, WaitOrDone, client
  <1> QED  BY <1>2, <1>3

LEMMA AgentRepliedMoves ==
    ASSUME Base, NEW c \in Call, AgentReplied(c)
    PROVE  Moves(c)
  <1>1. c \notin results /\ state.waiter # c
    BY CallType DEF AgentReplied, KindOK, Base, RowOK, WaitOrDone
  <1>2. CASE wrote[c] = "ok" /\ state.pending = call[c].req
    <2>1. Goto(c, "writing") /\ Will(c, RoleReadiness) /\ state' = [state EXCEPT !.pending = None]
      BY <1>2 DEF AgentReplied
    <2>2. /\ call' \in [Call -> CallRow] /\ \A d \in Call : d # c => call'[d] = call[d]
          /\ call'[c].pc = "writing" /\ call'[c].kind = call[c].kind
      BY <2>1, GotoEffect, CallType, Literals
    <2>3. state' \in Backend /\ state'.waiter = state.waiter /\ state'.closed = state.closed
      BY <2>1, BackendEffect, CallType, Constants
    <2>4. WritesOK' /\ todo'[Closer] = todo[Closer]
      BY <2>1, WillEffect, CmdType, CallType, Constants DEF AgentReplied, client, WritesOK
    <2> QED  BY <1>1, <2>2, <2>3, <2>4, CallType, Constants
             DEF AgentReplied, Moves, ServerOK, RowOK, Awaits, WaitOrDone, client
  <1>3. CASE ~ (wrote[c] = "ok" /\ state.pending = call[c].req)
    <2>1. Goto(c, "done") /\ Will(c, <<>>) /\ UNCHANGED state  BY <1>3 DEF AgentReplied
    <2>2. /\ call' \in [Call -> CallRow] /\ \A d \in Call : d # c => call'[d] = call[d]
          /\ call'[c].pc = "done" /\ call'[c].kind = "none"
      BY <2>1, GotoEffect, CallType, Literals
    <2>4. WritesOK' /\ todo'[Closer] = todo[Closer]
      BY <2>1, WillEffect, SingleType, CallType, Constants DEF AgentReplied, client, WritesOK
    <2> QED  BY <1>1, <2>1, <2>2, <2>4, CallType, Constants
             DEF AgentReplied, Moves, ServerOK, RowOK, Awaits, WaitOrDone, client
  <1> QED  BY <1>2, <1>3

LEMMA FailPendingWorkMoves ==
    ASSUME Base, NEW c \in Call, NEW r \in told, FailPendingWork(c, r)
    PROVE  Moves(c)
  <1>0. r \in Arg  BY DEF Base, TypeOK, ServerOK
  <1>1. call[c].pc = "idle" /\ c \notin results /\ state.waiter # c
    BY CallType DEF FailPendingWork, Admits, KindOK, Base, RowOK, WaitOrDone
  <1>2. CASE state.pending # r
    <2>1. Enter(c, "finished", r, "done") /\ UNCHANGED <<state, todo, wrote>>  BY <1>2 DEF FailPendingWork
    <2>2. /\ call' \in [Call -> CallRow] /\ \A d \in Call : d # c => call'[d] = call[d]
          /\ call'[c].pc = "done" /\ call'[c].kind = "none"
      BY <1>0, <2>1, EnterEffect, CallType, Literals
    <2> QED  BY <1>1, <2>1, <2>2, CallType, Constants
             DEF FailPendingWork, Moves, ServerOK, WritesOK, RowOK, Awaits, WaitOrDone, client
  <1>3. CASE state.pending = r
    <2>1. /\ Enter(c, "finished", r, "writing") /\ Will(c, <<Reply(r)>> \o RoleReadiness)
          /\ state' = [state EXCEPT !.pending = None]
      BY <1>3 DEF FailPendingWork
    <2>2. /\ call' \in [Call -> CallRow] /\ \A d \in Call : d # c => call'[d] = call[d]
          /\ call'[c].pc = "writing" /\ call'[c].kind = "finished"
      BY <1>0, <2>1, EnterEffect, CallType, Literals
    <2>3. state' \in Backend /\ state'.waiter = state.waiter /\ state'.closed = state.closed
      BY <2>1, BackendEffect, CallType, Constants
    <2>4. <<Reply(r)>> \o RoleReadiness \in Seq(Command)  BY <1>0, SingleType, CmdType
    <2>5. WritesOK' /\ todo'[Closer] = todo[Closer]
      BY <2>1, <2>4, WillEffect, CallType, Constants DEF FailPendingWork, client, WritesOK
    <2> QED  BY <1>1, <2>2, <2>3, <2>5, CallType, Constants
             DEF FailPendingWork, Moves, ServerOK, RowOK, Awaits, WaitOrDone, client
  <1> QED  BY <1>2, <1>3

LEMMA RoutedRequestMoves ==
    ASSUME Base, NEW c \in Call, RoutedRequest(c)
    PROVE  Moves(c)
  <1>1. call[c].pc = "idle" /\ state.waiter # c
    BY CallType DEF RoutedRequest, Admits, RowOK, WaitOrDone
  <1>2. /\ call' \in [Call -> CallRow] /\ \A d \in Call : d # c => call'[d] = call[d]
        /\ call'[c].pc = "sending" /\ call'[c].kind = "send"
    BY EnterEffect, CallType, Literals, Constants DEF RoutedRequest
  <1>3. PICK k \in Rpc : k = "send"  BY DEF Rpc
  <1>4. <<Cmd("send", c)>> \in Seq(Command)  BY <1>3, SingleType, CallType
  <1>5. WritesOK' /\ todo'[Closer] = todo[Closer]
    BY <1>4, WillEffect, CallType, Constants DEF RoutedRequest, client, WritesOK
  <1> QED  BY <1>1, <1>2, <1>5, CallType, Constants
           DEF RoutedRequest, Moves, ServerOK, RowOK, Awaits, WaitOrDone, client

LEMMA RequestAcceptedMoves ==
    ASSUME Base, NEW c \in Call, RequestAccepted(c)
    PROVE  Moves(c)
  <1>1. state.waiter # c /\ call[c].kind = "send"
    BY CallType DEF RequestAccepted, RowOK, WaitOrDone
  <1>2. WritesOK' /\ todo'[Closer] = todo[Closer]
    BY SingleType, WillEffect, CallType, Constants DEF RequestAccepted, client, WritesOK
  <1>3. CASE wrote[c] = "ok"
    <2>1. /\ call' \in [Call -> CallRow] /\ \A d \in Call : d # c => call'[d] = call[d]
          /\ call'[c].pc = "accepted" /\ call'[c].kind = call[c].kind /\ call'[c].mail = call[c].mail
      BY <1>3, GotoEffect, CallType, Literals DEF RequestAccepted
    <2>2. Awaits(c)'  BY <1>3, <2>1, CallType DEF Awaits, RequestAccepted, client
    <2> QED  BY <1>1, <1>2, <1>3, <2>1, <2>2, CallType, Constants
             DEF RequestAccepted, Moves, ServerOK, RowOK, WaitOrDone, client
  <1>4. CASE wrote[c] # "ok"
    <2>1. /\ call' \in [Call -> CallRow] /\ \A d \in Call : d # c => call'[d] = call[d]
          /\ call'[c].pc = "done" /\ call'[c].kind = "none"
      BY <1>4, GotoEffect, CallType, Literals DEF RequestAccepted
    <2> QED  BY <1>1, <1>2, <1>4, <2>1, CallType, Constants
             DEF RequestAccepted, Moves, ServerOK, RowOK, Awaits, WaitOrDone, client
  <1> QED  BY <1>3, <1>4

LEMMA RequestEndsMoves ==
    ASSUME Base, NEW c \in Call, RequestEnds(c)
    PROVE  Moves(c)
  <1>1. state.waiter # c
    BY CallType DEF RequestEnds, RowOK, WaitOrDone
  <1>2. /\ call' \in [Call -> CallRow] /\ \A d \in Call : d # c => call'[d] = call[d]
        /\ call'[c].pc = "done" /\ call'[c].kind = "none"
    BY GotoEffect, CallType, Literals DEF RequestEnds
  <1> QED  BY <1>1, <1>2, CallType, Constants
           DEF RequestEnds, Moves, ServerOK, WritesOK, RowOK, Awaits, WaitOrDone, client

LEMMA WorkspaceCallMoves ==
    ASSUME Base, NEW c \in Call, NEW k \in {"join", "leave"}, WorkspaceCall(c, k)
    PROVE  Moves(c)
  <1>1. call[c].pc = "idle" /\ state.waiter # c /\ c \notin results
    BY CallType DEF WorkspaceCall, Admits, KindOK, Base, RowOK, WaitOrDone
  <1>2. /\ call' \in [Call -> CallRow] /\ \A d \in Call : d # c => call'[d] = call[d]
        /\ call'[c].pc = "calling" /\ call'[c].kind = k
    BY EnterEffect, CallType, Literals, Constants DEF WorkspaceCall
  <1>3. k \in Rpc  BY DEF Rpc
  <1>4. <<Cmd(k, c)>> \in Seq(Command)  BY <1>3, SingleType, CallType
  <1>5. WritesOK' /\ todo'[Closer] = todo[Closer]
    BY <1>4, WillEffect, CallType, Constants DEF WorkspaceCall, client, WritesOK
  <1> QED  BY <1>1, <1>2, <1>5, CallType, Constants
           DEF WorkspaceCall, Moves, ServerOK, RowOK, Awaits, WaitOrDone, client

LEMMA CallReturnsMoves ==
    ASSUME Base, NEW c \in Call, CallReturns(c)
    PROVE  Moves(c)
  <1>1. c \notin results  BY CallType DEF CallReturns, RowOK, KindOK, Base
  <1>2. /\ call' \in [Call -> CallRow] /\ \A d \in Call : d # c => call'[d] = call[d]
        /\ call'[c].pc = "done" /\ call'[c].kind = "none"
    BY GotoEffect, CallType, Literals DEF CallReturns
  <1>3. WritesOK' /\ todo'[Closer] = todo[Closer]
    BY SingleType, WillEffect, CallType, Constants DEF CallReturns, client, WritesOK
  <1> QED  BY <1>1, <1>2, <1>3, CallType, Constants
           DEF CallReturns, Moves, ServerOK, RowOK, Awaits, WaitOrDone, client

LEMMA CancelCallMoves ==
    ASSUME Base, NEW c \in Call, CancelCall(c)
    PROVE  Moves(c)
  <1>1. /\ call' \in [Call -> CallRow] /\ \A d \in Call : d # c => call'[d] = call[d]
        /\ call'[c].pc = "done" /\ call'[c].kind = "none"
    BY GotoEffect, CallType, Literals DEF CancelCall
  <1>2. state' \in Backend /\ state'.waiter \in {state.waiter, None} /\ state'.closed = state.closed /\ spawned' \in Nat
    BY DropGuardEffect, CallType DEF CancelCall
  <1>3. outbox' \in Seq(Entry)
    <2>1. PICK k \in Rpc \cup {"cancel", "close"} : k = "cancel"  OBVIOUS
    <2>2. Cmd("cancel", c) \in Command  BY <2>1, CmdType, CallType
    <2>3. [cmd |-> Cmd("cancel", c), by |-> None] \in Entry  BY <2>2 DEF Entry
    <2> QED  BY <2>3, CallType DEF CancelCall, WritesOK
  <1>4. WritesOK' /\ todo'[Closer] = todo[Closer]
    BY <1>3, SingleType, WillEffect, CallType, Constants DEF CancelCall, WritesOK
  <1> QED  BY <1>1, <1>2, <1>4, CallType, Constants
           DEF CancelCall, Moves, ServerOK, RowOK, Awaits, WaitOrDone, client

\* The effect of a membership change on the state and on the writes of t.
LEMMA MembershipEffect ==
    ASSUME Base, NEW t \in Task, NEW joined \in BOOLEAN, MembershipChanged(t, joined)
    PROVE  /\ state' \in Backend /\ state'.waiter \in {state.waiter, None} /\ state'.closed = state.closed
           /\ todo' \in [Task -> Seq(Command)] /\ wrote' \in [Task -> {"ok", "err", "pending"}]
           /\ \A u \in Task : u # t => todo'[u] = todo[u]
  <1>1. PICK st \in Backend : st = state  BY DEF Base, TypeOK, ServerOK
  <1>2. st.waiter \in Call \cup {None} /\ st.pending \in Arg  BY DEF Backend
  <1>3. PICK w \in {st.waiter, None} : w = IF st.membership # joined THEN None ELSE st.waiter  OBVIOUS
  <1>4. PICK p \in {st.pending, None} : p = IF st.membership # joined THEN None ELSE st.pending  OBVIOUS
  <1>5. p \in Arg /\ w \in Call \cup {None}  BY <1>2, <1>3, <1>4, Constants
  <1>6. state' = [st EXCEPT !.membership = joined, !.waiter = w, !.pending = p]
    BY <1>1, <1>3, <1>4 DEF MembershipChanged
  <1>7. state' \in Backend /\ state'.waiter = w /\ state'.closed = st.closed
    BY <1>5, <1>6 DEF Backend
  <1>8. PICK cmds \in Seq(Command) :
            cmds = (IF state.membership # joined /\ state.pending # None THEN <<Reply(state.pending)>> ELSE <<>>)
                   \o IF joined THEN <<>> ELSE RoleReadiness
    <2>1. PICK a \in Seq(Command) :
            a = IF state.membership # joined /\ state.pending # None THEN <<Reply(state.pending)>> ELSE <<>>
      BY <1>1, <1>2, SingleType
    <2>2. PICK b \in Seq(Command) : b = IF joined THEN <<>> ELSE RoleReadiness  BY SingleType, CmdType
    <2>3. a \o b \in Seq(Command)  OBVIOUS
    <2> QED  BY <2>1, <2>2, <2>3
  <1>9. Will(t, cmds)  BY <1>8 DEF MembershipChanged
  <1>10. WritesOK  BY DEF Base, TypeOK
  <1> QED  BY <1>1, <1>3, <1>7, <1>9, <1>10, WillEffect

LEMMA UnseatedEffect ==
    ASSUME Base, NEW joined \in BOOLEAN
    PROVE  /\ Unseated(joined) \in [Call -> CallRow]
           /\ \A d \in Call :
                /\ Unseated(joined)[d].pc = call[d].pc /\ Unseated(joined)[d].kind = call[d].kind
                /\ Unseated(joined)[d].req = call[d].req
                /\ call[d].kind = "send" => Unseated(joined)[d].mail = call[d].mail
  <1>0. call \in [Call -> CallRow]  BY DEF Base, TypeOK, ServerOK
  <1>1. PICK m \in Arg : m = "refused"  BY DEF Arg
  <1>2. \A d \in Call : call[d].kind = "send" => d \notin Waiter
    BY Constants DEF Waiter, Base, KindOK, WaitOrDone, RowOK
  <1>3. CASE state.membership # joined
    <2>1. Unseated(joined) = Answered(Waiter, m)  BY <1>1, <1>3 DEF Unseated
    <2> QED  BY <1>0, <1>2, <2>1, AnsweredEffect
  <1>4. CASE state.membership = joined
    <2>1. Unseated(joined) = call  BY <1>4 DEF Unseated
    <2> QED  BY <1>0, <2>1
  <1> QED  BY <1>3, <1>4

LEMMA WorkspaceAnsweredMoves ==
    ASSUME Base, NEW c \in Call, WorkspaceAnswered(c)
    PROVE  Moves(c)
  <1>1. call[c].pc = "calling" /\ c \notin results /\ state.waiter # c
    BY CallType DEF WorkspaceAnswered, RowOK, WaitOrDone, KindOK, Base
  <1>2. CASE Goto(c, "done") /\ Will(c, <<>>) /\ UNCHANGED state
    <2>1. /\ call' \in [Call -> CallRow] /\ \A d \in Call : d # c => call'[d] = call[d]
          /\ call'[c].pc = "done" /\ call'[c].kind = "none"
      BY <1>2, GotoEffect, CallType, Literals
    <2>2. WritesOK' /\ todo'[Closer] = todo[Closer]
      BY <1>2, SingleType, WillEffect, CallType, Constants DEF WorkspaceAnswered, WritesOK, client
    <2> QED  BY <1>1, <1>2, <2>1, <2>2, CallType, Constants
             DEF WorkspaceAnswered, Moves, ServerOK, RowOK, Awaits, WaitOrDone, client
  <1>3. CASE state' = [state EXCEPT !.membership = TRUE] /\ Goto(c, "done") /\ UNCHANGED <<todo, wrote>>
    <2>1. /\ call' \in [Call -> CallRow] /\ \A d \in Call : d # c => call'[d] = call[d]
          /\ call'[c].pc = "done" /\ call'[c].kind = "none"
      BY <1>3, GotoEffect, CallType, Literals
    <2>2. state' \in Backend /\ state'.waiter = state.waiter /\ state'.closed = state.closed
      BY <1>3, CallType DEF Backend
    <2> QED  BY <1>1, <1>3, <2>1, <2>2, CallType, Constants
             DEF WorkspaceAnswered, Moves, ServerOK, WritesOK, RowOK, Awaits, WaitOrDone, client
  <1>4. CASE MembershipChanged(c, FALSE) /\ call' = [Unseated(FALSE) EXCEPT ![c].pc = "writing"]
    <2>0. PICK joined \in BOOLEAN : joined = FALSE  OBVIOUS
    <2>1. /\ state' \in Backend /\ state'.waiter \in {state.waiter, None} /\ state'.closed = state.closed
          /\ WritesOK' /\ todo'[Closer] = todo[Closer]
      BY <1>4, <2>0, MembershipEffect, CallType, Constants DEF WorkspaceAnswered, WritesOK, client
    <2>2. PICK u \in [Call -> CallRow] : u = Unseated(FALSE)  BY <2>0, UnseatedEffect
    <2>3. \A d \in Call : /\ u[d].pc = call[d].pc /\ u[d].kind = call[d].kind /\ u[d].req = call[d].req
                          /\ call[d].kind = "send" => u[d].mail = call[d].mail
      BY <2>0, <2>2, UnseatedEffect
    <2>4. PICK row \in CallRow : row = u[c]  OBVIOUS
    <2>5. [row EXCEPT !.pc = "writing"] \in CallRow /\ [row EXCEPT !.pc = "writing"].pc = "writing"
          /\ [row EXCEPT !.pc = "writing"].kind = row.kind
      BY DEF CallRow
    <2>6. call' = [u EXCEPT ![c] = [row EXCEPT !.pc = "writing"]]  BY <1>4, <2>2, <2>4
    <2>7. /\ call' \in [Call -> CallRow] /\ call'[c].pc = "writing" /\ call'[c].kind = call[c].kind
          /\ \A d \in Call : d # c => call'[d] = u[d]
      BY <2>3, <2>4, <2>5, <2>6
    <2>8. call[c].kind # "send"  BY <1>1, CallType DEF RowOK
    <2> QED  BY <1>1, <2>1, <2>3, <2>7, <2>8, CallType, Constants
             DEF WorkspaceAnswered, Moves, ServerOK, RowOK, Awaits, WaitOrDone, client
  <1> QED  BY <1>2, <1>3, <1>4 DEF WorkspaceAnswered

-----------------------------------------------------------------------------
(* The steps of the event task, of the spawned tasks and of close.            *)

LEMMA WriteEffect ==
    ASSUME WritesOK, NEW t \in Task, WriteNext(t)
    PROVE  /\ WritesOK' /\ todo[t] # <<>> /\ Head(todo[t]) \in Command
           /\ outbox' = Append(outbox, [cmd |-> Head(todo[t]), by |-> t])
           /\ todo'[t] = Tail(todo[t]) /\ wrote'[t] = "pending"
           /\ \A u \in Task : u # t => todo'[u] = todo[u] /\ wrote'[u] = wrote[u]
  <1>1. todo[t] \in Seq(Command) /\ todo[t] # <<>>  BY DEF WriteNext, WritesOK
  <1>2. Head(todo[t]) \in Command /\ Tail(todo[t]) \in Seq(Command)  BY <1>1
  <1>3. [cmd |-> Head(todo[t]), by |-> t] \in Entry  BY <1>2 DEF Entry
  <1>4. todo' = [todo EXCEPT ![t] = Tail(todo[t])]  BY DEF WriteNext, WritesOK
  <1> QED  BY <1>1, <1>2, <1>3, <1>4 DEF WriteNext, WritesOK

\* A step that touches no call and no event.
LEMMA AwaitsFrame ==
    ASSUME Base, UNCHANGED <<call, results, link>>, state.closed => state'.closed, events' = events
    PROVE  ResultOK'
  BY DEF Base, ResultOK, Awaits

LEMMA WriteNextServes ==
    ASSUME Base, NEW t \in Task, WriteNext(t)
    PROVE  Serves /\ ResultOK'
  <1>1. WritesOK  BY DEF Base, TypeOK
  <1>2. ~ state.closed => t # Closer  BY DEF Base, LinkOK, WriteNext
  <1>3. WritesOK' /\ (~ state.closed => todo'[Closer] = todo[Closer])  BY <1>1, <1>2, WriteEffect, Constants
  <1>4. ResultOK'  BY AwaitsFrame DEF WriteNext, backend
  <1> QED  BY <1>3, <1>4 DEF WriteNext, Serves, Base, TypeOK, ServerOK, backend

LEMMA SpawnedServes ==
    ASSUME Base, SpawnedReadiness
    PROVE  Serves /\ ResultOK'
  <1>1. [cmd |-> Ready(FALSE), by |-> None] \in Entry  BY CmdType DEF Entry
  <1>2. outbox' \in Seq(Entry)  BY <1>1 DEF Base, TypeOK, WritesOK, SpawnedReadiness
  <1>3. ResultOK'  BY AwaitsFrame DEF SpawnedReadiness
  <1> QED  BY <1>2, <1>3 DEF SpawnedReadiness, Serves, Base, TypeOK, ServerOK, WritesOK

LEMMA HostStateServes ==
    ASSUME Base, NEW ready \in BOOLEAN, HostState(ready)
    PROVE  Serves /\ ResultOK'
  <1>1. state' \in Backend /\ state'.closed = state.closed /\ state'.waiter = state.waiter
    BY DEF HostState, Backend, Base, TypeOK, ServerOK
  <1>2. ResultOK'  BY <1>1, AwaitsFrame DEF HostState, client
  <1> QED  BY <1>1, <1>2 DEF HostState, Serves, Base, TypeOK, ServerOK, WritesOK, client

LEMMA HandlesEffect ==
    ASSUME Base, NEW type, Handles(type)
    PROVE  /\ events # <<>> /\ events' = Tail(events) /\ Head(events) \in Notice /\ Head(events).arg \in Arg
           /\ Head(events) = events[1] /\ 1 \in 1 .. Len(events)
           /\ Head(events).type = type /\ ev.pc = "idle" /\ ~ state.closed
  <1>1. events \in Seq(Notice) /\ events # <<>>  BY DEF Base, TypeOK, RouterOK, Handles
  <1>2. Head(events) \in Notice /\ Head(events) = events[1] /\ 1 \in 1 .. Len(events)  BY <1>1, TailEvents
  <1>3. Head(events).arg \in Arg  BY <1>2 DEF Notice
  <1> QED  BY <1>1, <1>2, <1>3 DEF Handles

\* A step that takes an event and touches no call that awaits a result.
LEMMA AwaitsTaken ==
    ASSUME Base, NEW type, Handles(type), UNCHANGED <<results, link>>,
           \A d \in Call : /\ call'[d].pc = call[d].pc
                           /\ call[d].kind = "send" => call'[d].mail = call[d].mail
    PROVE  ResultOK'
  <1>1. events # <<>> /\ ~ state.closed  BY HandlesEffect
  <1> QED  BY <1>1 DEF Base, ResultOK, Awaits, KindOK, RowOK

LEMMA EventWrites ==
    ASSUME Base, NEW cmds \in Seq(Command), Will(Events, cmds), outbox' = outbox
    PROVE  WritesOK' /\ todo'[Closer] = todo[Closer]
  <1>1. WritesOK  BY DEF Base, TypeOK
  <1> QED  BY <1>1, WillEffect, Constants DEF WritesOK

LEMMA IdleType ==
    /\ Idle \in Handling /\ Idle.pc = "idle"
    /\ [Idle EXCEPT !.pc = "writing"] \in Handling /\ [Idle EXCEPT !.pc = "writing"].pc = "writing"
  <1>1. Idle \in Handling /\ Idle.pc = "idle"  BY DEF Idle, Handling, Arg
  <1>2. PICK i \in Handling : i = Idle  BY <1>1
  <1>3. [i EXCEPT !.pc = "writing"] \in Handling /\ [i EXCEPT !.pc = "writing"].pc = "writing"  BY DEF Handling
  <1> QED  BY <1>1, <1>2, <1>3

LEMMA HandleDeliveryServes ==
    ASSUME Base, HandleDelivery
    PROVE  Serves /\ ResultOK'
  <1>1. Handles("deliver") /\ UNCHANGED <<role, results, call, spawned, told, client, router>>
    BY DEF HandleDelivery
  <1>2. ResultOK'  BY <1>1, AwaitsTaken DEF client
  <1>3. PICK r \in Arg : r = Head(events).arg  BY <1>1, HandlesEffect
  <1>4. state \in Backend /\ None \in Call \cup {None}  BY DEF Base, TypeOK, ServerOK
  <1>5. CASE /\ state' = [state EXCEPT !.pending = r, !.waiter = None]
             /\ ev' = [pc |-> IF Pull THEN "handing" ELSE "notifying", req |-> r, to |-> state.waiter]
             /\ Will(Events, RoleReadiness) /\ (Pull => state.waiter # None)
    <2>1. state' \in Backend /\ state'.waiter = None /\ state'.closed = state.closed
      BY <1>4, <1>5, BackendEffect
    <2>2. ev' \in Handling /\ ev'.to = state.waiter /\ (ev'.pc = "handing" => Pull)
      BY <1>4, <1>5, BackendEffect DEF Handling
    <2>3. WritesOK' /\ todo'[Closer] = todo[Closer]  BY <1>1, <1>5, CmdType, EventWrites DEF client
    <2> QED  BY <1>1, <1>2, <1>5, <2>1, <2>2, <2>3, HandlesEffect DEF Serves, client, Base, TypeOK, ServerOK
  <1>6. CASE ev' = [Idle EXCEPT !.pc = "writing"] /\ Will(Events, <<Reply(r)>>) /\ UNCHANGED state
    <2>3. WritesOK' /\ todo'[Closer] = todo[Closer]  BY <1>1, <1>6, SingleType, EventWrites DEF client
    <2> QED  BY <1>1, <1>2, <1>6, <2>3, HandlesEffect, IdleType DEF Serves, client, Base, TypeOK, ServerOK
  <1> QED  BY <1>3, <1>5, <1>6 DEF HandleDelivery

\* reject_pending_delivery
LEMMA RejectEffect ==
    ASSUME Base, RejectPending, outbox' = outbox
    PROVE  /\ state' \in Backend /\ state'.waiter = state.waiter /\ state'.closed = state.closed
           /\ state'.membership = state.membership
           /\ state'.pending = IF state.pending = ev.req THEN None ELSE state.pending
           /\ ev' \in Handling /\ ev'.pc = "writing"
           /\ WritesOK' /\ todo'[Closer] = todo[Closer]
           /\ todo'[Events] = <<Reply(ev.req)>> \o RoleReadiness
           /\ \A u \in Task : u # Events => todo'[u] = todo[u] /\ wrote'[u] = wrote[u]
  <1>1. state \in Backend /\ ev.req \in Arg /\ WritesOK  BY DEF Base, TypeOK, ServerOK, Handling
  <1>2. <<Reply(ev.req)>> \o RoleReadiness \in Seq(Command)  BY <1>1, SingleType, CmdType
  <1>3. /\ WritesOK' /\ todo'[Closer] = todo[Closer]
        /\ todo'[Events] = <<Reply(ev.req)>> \o RoleReadiness
        /\ \A u \in Task : u # Events => todo'[u] = todo[u] /\ wrote'[u] = wrote[u]
    BY <1>1, <1>2, EventWrites, WillEffect, Constants DEF RejectPending
  <1>4. /\ state' \in Backend /\ state'.waiter = state.waiter /\ state'.closed = state.closed
        /\ state'.membership = state.membership
        /\ state'.pending = IF state.pending = ev.req THEN None ELSE state.pending
    <2>1. PICK new \in Backend : new = [state EXCEPT !.pending = None]  BY <1>1, BackendEffect, Constants
    <2>2. /\ new.waiter = state.waiter /\ new.closed = state.closed /\ new.membership = state.membership
          /\ new.pending = None
      BY <1>1, <2>1, BackendEffect, Constants
    <2>3. state' = IF state.pending = ev.req THEN new ELSE state  BY <2>1 DEF RejectPending
    <2> QED  BY <1>1, <2>2, <2>3
  <1> QED  BY <1>3, <1>4, IdleType DEF RejectPending

LEMMA HandOverServes ==
    ASSUME Base, HandOver
    PROVE  Serves /\ ResultOK'
  <1>1. ev.pc = "handing" /\ ev.to \in Call /\ WaitOrDone(ev.to) /\ ev.req \in Arg
    BY DEF HandOver, Base, KindOK, TypeOK, ServerOK, Handling
  <1>2. call \in [Call -> CallRow]  BY DEF Base, TypeOK, ServerOK
  <1>3. CASE Live(ev.to)
    <2>1. call' = Answered({ev.to}, ev.req) /\ ev' = Idle /\ UNCHANGED <<state, todo, wrote>>
      BY <1>3 DEF HandOver
    <2>2. /\ call' \in [Call -> CallRow]
          /\ \A d \in Call :
                /\ call'[d].pc = call[d].pc /\ call'[d].kind = call[d].kind /\ call'[d].req = call[d].req
                /\ call[d].kind = "send" => call'[d].mail = call[d].mail
      BY <1>1, <1>2, <1>3, <2>1, AnsweredEffect DEF WaitOrDone, Live
    <2>3. ResultOK'  BY <2>1, <2>2 DEF HandOver, Base, ResultOK, Awaits, KindOK, RowOK, client
    <2> QED  BY <2>1, <2>2, <2>3, IdleType DEF HandOver, Serves, client, Base, TypeOK, ServerOK, WritesOK
  <1>4. CASE ~ Live(ev.to)
    <2>1. RejectPending /\ UNCHANGED call  BY <1>4 DEF HandOver
    <2>2. /\ state' \in Backend /\ state'.waiter = state.waiter /\ state'.closed = state.closed
          /\ ev' \in Handling /\ ev'.pc = "writing"
          /\ WritesOK' /\ todo'[Closer] = todo[Closer]
      BY <2>1, RejectEffect DEF HandOver, client
    <2>3. ResultOK'  BY <2>1, <2>2, AwaitsFrame DEF HandOver, client
    <2> QED  BY <2>1, <2>2, <2>3 DEF HandOver, Serves, client, Base, TypeOK, ServerOK
  <1> QED  BY <1>3, <1>4

LEMMA NotifyServes ==
    ASSUME Base, Notify
    PROVE  Serves /\ ResultOK'
  <1>1. CASE told' = told \cup {ev.req} /\ ev' = Idle /\ UNCHANGED <<state, todo, wrote>>
    <2>1. told' \in SUBSET Arg  BY <1>1 DEF Base, TypeOK, ServerOK, Handling
    <2>2. ResultOK'  BY <1>1, AwaitsFrame DEF Notify, client
    <2> QED  BY <1>1, <2>1, <2>2, IdleType DEF Notify, Serves, client, Base, TypeOK, ServerOK, WritesOK
  <1>2. CASE RejectPending /\ UNCHANGED told
    <2>2. /\ state' \in Backend /\ state'.waiter = state.waiter /\ state'.closed = state.closed
          /\ ev' \in Handling /\ ev'.pc = "writing"
          /\ WritesOK' /\ todo'[Closer] = todo[Closer]
      BY <1>2, RejectEffect DEF Notify, client
    <2>3. ResultOK'  BY <2>2, AwaitsFrame DEF Notify, client
    <2> QED  BY <1>2, <2>2, <2>3 DEF Notify, Serves, client, Base, TypeOK, ServerOK
  <1> QED  BY <1>1, <1>2 DEF Notify

LEMMA HandleWorkCancelledServes ==
    ASSUME Base, NEW fenced \in BOOLEAN, HandleWorkCancelled(fenced)
    PROVE  Serves /\ ResultOK'
  <1>0. PICK type : type = IF fenced THEN "cancel_fenced" ELSE "cancel"  OBVIOUS
  <1>1. Handles(type) /\ UNCHANGED <<role, results, call, spawned, told, client, router>>
    BY <1>0 DEF HandleWorkCancelled
  <1>2. ResultOK'  BY <1>1, AwaitsTaken DEF client
  <1>4. state \in Backend  BY DEF Base, TypeOK, ServerOK
  <1>5. CASE /\ state' = [state EXCEPT !.pending = None]
             /\ ev' = [Idle EXCEPT !.pc = "writing"] /\ Will(Events, RoleReadiness)
    <2>1. state' \in Backend /\ state'.waiter = state.waiter /\ state'.closed = state.closed
      BY <1>4, <1>5, BackendEffect, Constants
    <2>3. WritesOK' /\ todo'[Closer] = todo[Closer]  BY <1>1, <1>5, CmdType, EventWrites DEF client
    <2> QED  BY <1>1, <1>2, <1>5, <2>1, <2>3, IdleType, HandlesEffect DEF Serves, client, Base, TypeOK, ServerOK
  <1>6. CASE UNCHANGED <<state, ev, todo, wrote>>
    BY <1>1, <1>2, <1>6, HandlesEffect DEF Serves, client, Base, TypeOK, ServerOK, WritesOK
  <1> QED  BY <1>5, <1>6 DEF HandleWorkCancelled

LEMMA HandleMembershipServes ==
    ASSUME Base, NEW joined \in BOOLEAN, HandleMembership(joined)
    PROVE  Serves /\ ResultOK'
  <1>0. PICK type : type = IF joined THEN "joined" ELSE "left"  OBVIOUS
  <1>1. /\ Handles(type) /\ UNCHANGED <<role, results, spawned, told, client, router>>
        /\ MembershipChanged(Events, joined) /\ call' = Unseated(joined) /\ ev' = [Idle EXCEPT !.pc = "writing"]
    BY <1>0 DEF HandleMembership
  <1>2. /\ state' \in Backend /\ state'.waiter \in {state.waiter, None} /\ state'.closed = state.closed
        /\ WritesOK' /\ todo'[Closer] = todo[Closer]
    BY <1>1, MembershipEffect, Constants DEF WritesOK, Base, TypeOK, client
  <1>3. /\ call' \in [Call -> CallRow]
        /\ \A d \in Call :
              /\ call'[d].pc = call[d].pc /\ call'[d].kind = call[d].kind /\ call'[d].req = call[d].req
              /\ call[d].kind = "send" => call'[d].mail = call[d].mail
    BY <1>1, UnseatedEffect
  <1>4. ResultOK'  BY <1>1, <1>3, AwaitsTaken DEF client
  <1> QED  BY <1>1, <1>2, <1>3, <1>4, IdleType, HandlesEffect DEF Serves, client, Base, TypeOK, ServerOK

LEMMA HandleResultServes ==
    ASSUME Base, HandleResult
    PROVE  /\ Serves /\ ResultOK'
           /\ \A d \in Call : call'[d].mail = call[d].mail \/ (d \in results /\ call'[d].mail = "result")
           /\ \A d \in Call : d = Head(events).arg /\ d \in results /\ call[d].pc \notin {"idle", "done"}
                                => call'[d].mail = "result"
  <1>0. call \in [Call -> CallRow]  BY DEF Base, TypeOK, ServerOK
  <1>1. /\ Handles("result") /\ results' = results \ {Head(events).arg}
        /\ UNCHANGED <<role, state, ev, spawned, told, todo, wrote, client, router>>
        /\ call' = IF Head(events).arg \in results THEN Answered({Head(events).arg}, "result") ELSE call
    BY DEF HandleResult
  <1>2. PICK m \in Arg : m = "result"  BY DEF Arg
  <1>3. events # <<>> /\ events' = Tail(events) /\ ~ state.closed  BY <1>1, HandlesEffect
  <1>4. CASE Head(events).arg \in results
    <2>1. call' = Answered({Head(events).arg}, m)  BY <1>1, <1>2, <1>4
    <2>2. /\ call' \in [Call -> CallRow]
          /\ \A d \in Call :
                /\ call'[d].pc = call[d].pc /\ call'[d].kind = call[d].kind /\ call'[d].req = call[d].req
                /\ d = Head(events).arg /\ call[d].pc \notin {"idle", "done"} => call'[d].mail = "result"
                /\ d # Head(events).arg \/ call[d].pc \in {"idle", "done"} => call'[d].mail = call[d].mail
      BY <1>0, <1>2, <2>1, AnsweredEffect
    <2>3. ResultOK'
      BY <1>1, <1>3, <2>2 DEF Base, ResultOK, Awaits
    <2> QED  BY <1>1, <1>3, <1>4, <2>2, <2>3 DEF Serves, client, Base, TypeOK, ServerOK, WritesOK
  <1>5. CASE Head(events).arg \notin results
    <2>1. call' = call /\ results' = results  BY <1>1, <1>5
    <2>2. ResultOK'  BY <1>1, <1>3, <2>1 DEF Base, ResultOK, Awaits
    <2> QED  BY <1>1, <1>3, <1>5, <2>1, <2>2 DEF Serves, client, Base, TypeOK, ServerOK, WritesOK
  <1> QED  BY <1>4, <1>5

LEMMA HandleClosedServes ==
    ASSUME Base, HandleClosed
    PROVE  Serves /\ ResultOK'
  <1>0. call \in [Call -> CallRow] /\ state \in Backend  BY DEF Base, TypeOK, ServerOK
  <1>1. /\ Handles("closed") /\ results' = {}
        /\ UNCHANGED <<role, ev, spawned, told, todo, wrote, client, router>>
        /\ state' = [state EXCEPT !.membership = FALSE, !.pending = None, !.omp_ready = FALSE, !.waiter = None]
        /\ call' = Answered(Waiter \cup results, "refused")
    BY DEF HandleClosed
  <1>2. PICK m \in Arg : m = "refused"  BY DEF Arg
  <1>3. /\ call' \in [Call -> CallRow]
        /\ \A d \in Call :
              call'[d].pc = call[d].pc /\ call'[d].kind = call[d].kind /\ call'[d].req = call[d].req
    BY <1>0, <1>1, <1>2, AnsweredEffect
  <1>4. /\ events # <<>> /\ events' = Tail(events) /\ ~ state.closed /\ events[1].type = "closed"
        /\ 1 \in 1 .. Len(events) /\ events \in Seq(Notice)
    BY <1>1, HandlesEffect DEF Base, TypeOK, RouterOK
  <1>5. link = "closed" /\ Len(events) = 1  BY <1>4 DEF Base, EventsOK
  <1>6. events' = <<>>  BY <1>4, <1>5
  <1>7. ResultOK'  BY <1>1, <1>5, <1>6 DEF ResultOK, Awaits, client
  <1>8. state' \in Backend /\ state'.waiter = None /\ state'.closed = state.closed
    BY <1>0, <1>1, Constants DEF Backend
  <1> QED  BY <1>1, <1>3, <1>4, <1>7, <1>8 DEF Serves, client, Base, TypeOK, ServerOK, WritesOK

LEMMA EventHandledServes ==
    ASSUME Base, EventHandled
    PROVE  Serves /\ ResultOK'
  <1>1. WritesOK' /\ todo'[Closer] = todo[Closer]  BY SingleType, EventWrites DEF EventHandled, client
  <1>2. ResultOK'  BY AwaitsFrame DEF EventHandled, client
  <1> QED  BY <1>1, <1>2, IdleType DEF EventHandled, Serves, client, Base, TypeOK, ServerOK

LEMMA CloseServes ==
    ASSUME Base, Close
    PROVE  Serves /\ ResultOK' /\ state'.closed
  <1>0. call \in [Call -> CallRow] /\ state \in Backend /\ WritesOK  BY DEF Base, TypeOK, ServerOK
  <1>1. /\ results' = {} /\ UNCHANGED <<role, ev, spawned, told, client, router, events>>
        /\ state' = [state EXCEPT !.closed = TRUE, !.waiter = None, !.pending = None]
        /\ call' = Answered(Waiter \cup results, "refused")
    BY DEF Close
  <1>2. PICK m \in Arg : m = "refused"  BY DEF Arg
  <1>3. /\ call' \in [Call -> CallRow]
        /\ \A d \in Call :
              call'[d].pc = call[d].pc /\ call'[d].kind = call[d].kind /\ call'[d].req = call[d].req
    BY <1>0, <1>1, <1>2, AnsweredEffect
  <1>4. state' \in Backend /\ state'.waiter = None /\ state'.closed = TRUE
    BY <1>0, <1>1, Constants DEF Backend
  <1>5. PICK a \in Seq(Command) : a = IF state.pending = None THEN <<>> ELSE <<Reply(state.pending)>>
    BY <1>0, SingleType, BackendEffect
  <1>6. PICK k \in Rpc \cup {"cancel", "close"} : k = "close"  OBVIOUS
  <1>7. PICK z \in Seq(Command) : z = <<Cmd("close", None)>>  BY <1>6, SingleType, Constants
  <1>8. PICK ready \in Seq(Command) : ready = RoleReadiness  BY CmdType
  <1>9. a \o ready \o z \in Seq(Command)  OBVIOUS
  <1>10. Will(Closer, a \o ready \o z)  BY <1>5, <1>7, <1>8 DEF Close
  <1>11. WritesOK'  BY <1>0, <1>1, <1>9, <1>10, WillEffect, Constants DEF WritesOK, client
  <1>12. ResultOK'  BY <1>4 DEF ResultOK, Awaits
  <1> QED  BY <1>1, <1>3, <1>4, <1>11, <1>12 DEF Serves, client, Base, TypeOK, ServerOK

-----------------------------------------------------------------------------
(* The steps of the client and of the router.                                 *)

LEMMA RowEffect ==
    /\ Offline \in Connection /\ ~ Offline.ready /\ ~ Offline.canceling
    /\ \A row \in Connection : /\ Joined(row) \in Connection /\ (Pull => ~ Joined(row).ready)
                               /\ Joined(row).canceling = row.canceling
  <1>1. Offline \in Connection /\ ~ Offline.ready /\ ~ Offline.canceling  BY DEF Offline, Connection, Arg
  <1>2. \A row \in Connection : /\ Joined(row) \in Connection /\ (Pull => ~ Joined(row).ready)
                                /\ Joined(row).canceling = row.canceling
    BY DEF Joined, Connection, Pull
  <1> QED  BY <1>1, <1>2

LEMMA HeadEffect ==
    ASSUME NEW s \in Seq(Entry), s # <<>>
    PROVE  /\ Head(s) \in Entry /\ Tail(s) \in Seq(Entry) /\ Head(s) = s[1] /\ 1 \in 1 .. Len(s)
           /\ Head(s).cmd \in Command /\ Head(s).cmd.arg \in Arg /\ Head(s).by \in Task \cup {None}
  <1>1. Head(s) \in Entry /\ Tail(s) \in Seq(Entry) /\ Head(s) = s[1] /\ 1 \in 1 .. Len(s)  BY TailEvents
  <1> QED  BY <1>1 DEF Entry, Command

LEMMA LoseLinkConveys ==
    ASSUME Base, link = "up", NEW keepDesired \in BOOLEAN, NEW failed, LoseLink(keepDesired, failed),
           UNCHANGED <<role, backend, todo, asked, left>>, outbox' \in Seq(Entry)
    PROVE  Conveys /\ drops' # 0
  <1>1. /\ drops \in Nat /\ desired \in BOOLEAN /\ wrote \in [Task -> {"ok", "err", "pending"}]
        /\ events \in Seq(Notice) /\ todo \in [Task -> Seq(Command)]
    BY DEF Base, TypeOK, RouterOK, WritesOK
  <1>2. PICK n \in 0 .. Len(events) : events' = SubSeq(events, 1, n)  BY DEF LoseLink
  <1>3. events' \in Seq(Notice) /\ Len(events') = n /\ \A i \in 1 .. n : events'[i] = events[i] /\ i \in 1 .. Len(events)
    BY <1>1, <1>2
  <1>4. EventsOK'  BY <1>3 DEF Base, EventsOK
  <1>5. WritesOK'
    <2>1. wrote' = [t \in Task |-> IF t \in failed THEN "err" ELSE wrote[t]]  BY DEF LoseLink
    <2>2. wrote' \in [Task -> {"ok", "err", "pending"}]  BY <1>1, <2>1
    <2> QED  BY <1>1, <2>2 DEF WritesOK
  <1>6. link' = "down" /\ rt' = Offline /\ wire' = <<>> /\ drops' = drops + 1 /\ desired' = (desired /\ keepDesired)
    BY DEF LoseLink
  <1>7. RouterOK'  BY <1>1, <1>3, <1>6, RowEffect DEF RouterOK, Base, TypeOK
  <1>8. drops' # 0  BY <1>1, <1>6
  <1>9. LinkOK'  BY <1>6, <1>8, RowEffect DEF LinkOK, Base, backend, Pull
  <1> QED  BY <1>4, <1>5, <1>7, <1>8, <1>9 DEF Conveys

\* An event the router sends while the link is up.
LEMMA SentEvents ==
    ASSUME Base, link # "closed", NEW e \in Notice, e.type # "closed", events' = Append(events, e)
    PROVE  events' \in Seq(Notice) /\ EventsOK'
  <1>1. events \in Seq(Notice) /\ Len(events) \in Nat  BY DEF Base, TypeOK, RouterOK
  <1>2. /\ events' \in Seq(Notice) /\ Len(events') = Len(events) + 1 /\ events'[Len(events) + 1] = e
        /\ \A i \in 1 .. Len(events) : events'[i] = events[i]
    BY <1>1
  <1>3. \A i \in 1 .. Len(events') : events'[i].type # "closed"  BY <1>1, <1>2 DEF Base, EventsOK
  <1> QED  BY <1>2, <1>3 DEF EventsOK

LEMMA EventType ==
    /\ \A a \in Arg : /\ Event("deliver", a) \in Notice /\ Event("cancel", a) \in Notice
                      /\ Event("cancel_fenced", a) \in Notice /\ Event("result", a) \in Notice
    /\ Event("joined", None) \in Notice /\ Event("left", None) \in Notice /\ Event("closed", None) \in Notice
    /\ \A t, a : Event(t, a).type = t /\ Event(t, a).arg = a
  BY Constants DEF Event, Notice

LEMMA PumpCommandConveys ==
    ASSUME Base, PumpCommand
    PROVE  Conveys
  <1>1. /\ link = "up" /\ outbox # <<>> /\ outbox' = Tail(outbox) /\ UNCHANGED <<role, backend, todo, asked, left>>
    BY DEF PumpCommand
  <1>2. WritesOK /\ RouterOK /\ outbox \in Seq(Entry)  BY DEF Base, TypeOK, WritesOK
  <1>3. PICK h \in Entry : h = Head(outbox)  BY <1>1, <1>2, HeadEffect
  <1>4. outbox' \in Seq(Entry)  BY <1>1, <1>2, HeadEffect
  <1>5. CASE /\ link' = "closed" /\ rt' = Offline /\ wire' = <<>>
             /\ wrote' = [t \in Task |-> IF t \in Unanswered \cup {h.by} THEN "err" ELSE wrote[t]]
             /\ UNCHANGED <<desired, drops, events>>
    <2>1. WritesOK'  BY <1>1, <1>2, <1>4, <1>5 DEF WritesOK
    <2>2. RouterOK'  BY <1>1, <1>2, <1>5, RowEffect DEF RouterOK
    <2>3. EventsOK'  BY <1>1, <1>5 DEF Base, EventsOK
    <2>4. LinkOK'  BY <1>1, <1>5, RowEffect DEF Base, LinkOK, backend, Pull
    <2> QED  BY <1>1, <2>1, <2>2, <2>3, <2>4 DEF Conveys
  <1>6. CASE LoseLink(FALSE, Unanswered)
    <2>1. PICK b \in BOOLEAN : b = FALSE  OBVIOUS
    <2> QED  BY <1>1, <1>4, <1>6, <2>1, LoseLinkConveys
  <1>7. CASE UNCHANGED <<link, drops, rt, wire, desired, wrote, events>>
    BY <1>1, <1>2, <1>4, <1>7 DEF Conveys, WritesOK, RouterOK, Base, EventsOK, LinkOK, backend, Pull
  <1>8. CASE /\ wire' = Append(wire, h)
             /\ wrote' = IF h.by = None \/ IsRpc(h.cmd) THEN wrote ELSE Answer(h.by, "ok")
             /\ UNCHANGED <<link, drops, rt, desired, events>>
    <2>1. wrote' \in [Task -> {"ok", "err", "pending"}]  BY <1>2, <1>8, AnswerEffect DEF WritesOK
    <2>2. WritesOK'  BY <1>1, <1>2, <1>4, <2>1 DEF WritesOK
    <2>3. RouterOK'  BY <1>1, <1>2, <1>8 DEF RouterOK
    <2> QED  BY <1>1, <1>8, <2>2, <2>3 DEF Conveys, Base, EventsOK, LinkOK, backend, Pull
  <1> QED  BY <1>3, <1>5, <1>6, <1>7, <1>8 DEF PumpCommand

LEMMA DisconnectedConveys ==
    ASSUME Base, DisconnectedCommand
    PROVE  Conveys
  <1>1. WritesOK /\ RouterOK /\ outbox \in Seq(Entry)  BY DEF Base, TypeOK, WritesOK
  <1>2. /\ link # "up" /\ outbox # <<>> /\ outbox' = Tail(outbox)
        /\ link' \in {link, "closed"}
        /\ UNCHANGED <<role, backend, todo, desired, drops, router, events>>
    BY DEF DisconnectedCommand
  <1>3. outbox' \in Seq(Entry)  BY <1>1, <1>2, HeadEffect
  <1>4. wrote' \in [Task -> {"ok", "err", "pending"}]  BY <1>1, AnswerEffect DEF WritesOK, DisconnectedCommand
  <1>5. WritesOK'  BY <1>1, <1>2, <1>3, <1>4 DEF WritesOK
  <1>6. RouterOK'  BY <1>1, <1>2 DEF RouterOK, router
  <1> QED  BY <1>2, <1>5, <1>6 DEF Conveys, Base, EventsOK, LinkOK, backend, Pull, router

LEMMA CallExpiresConveys ==
    ASSUME Base, NEW c \in Call, CallExpires(c)
    PROVE  Conveys
  <1>1. WritesOK /\ RouterOK /\ outbox \in Seq(Entry)  BY DEF Base, TypeOK, WritesOK
  <1>2. link = "up" /\ UNCHANGED <<role, backend, todo, outbox, asked, left>>  BY DEF CallExpires
  <1>3. CASE LoseLink(FALSE, Unanswered)
    <2>1. PICK b \in BOOLEAN : b = FALSE  OBVIOUS
    <2> QED  BY <1>1, <1>2, <1>3, <2>1, LoseLinkConveys
  <1>4. CASE wrote' = Answer(c, "err") /\ UNCHANGED <<link, drops, rt, wire, desired, events>>
    <2>1. wrote' \in [Task -> {"ok", "err", "pending"}]  BY <1>1, <1>4, AnswerEffect DEF WritesOK
    <2> QED  BY <1>1, <1>2, <1>4, <2>1 DEF Conveys, WritesOK, RouterOK, Base, EventsOK, LinkOK, backend, Pull
  <1> QED  BY <1>3, <1>4 DEF CallExpires

LEMMA LinkLostConveys ==
    ASSUME Base, LinkLost
    PROVE  Conveys
  <1>1. outbox \in Seq(Entry)  BY DEF Base, TypeOK, WritesOK
  <1>2. PICK b \in BOOLEAN : b = TRUE  OBVIOUS
  <1> QED  BY <1>1, <1>2, LoseLinkConveys DEF LinkLost

LEMMA ReconnectConveys ==
    ASSUME Base, Reconnect
    PROVE  Conveys
  <1>1. /\ link = "down" /\ link' = "up"
        /\ rt' = IF desired THEN Joined(Offline) ELSE Offline
        /\ events' = IF desired THEN Append(events, Event("joined", None)) ELSE events
        /\ UNCHANGED <<role, backend, todo, wrote, outbox, desired, drops, wire, asked, left>>
    BY DEF Reconnect
  <1>2. rt' \in Connection /\ (Pull => ~ rt'.ready)  BY <1>1, RowEffect
  <1>3. events' \in Seq(Notice) /\ EventsOK'
    <2>1. CASE desired
      <3>1. events' = Append(events, Event("joined", None))  BY <1>1, <2>1
      <3> QED  BY <1>1, <3>1, SentEvents, EventType
    <2>2. CASE ~ desired  BY <1>1, <2>2 DEF Base, EventsOK, TypeOK, RouterOK
    <2> QED  BY <2>1, <2>2
  <1>4. RouterOK'  BY <1>1, <1>2, <1>3 DEF RouterOK, Base, TypeOK
  <1>5. LinkOK'  BY <1>1, <1>2 DEF LinkOK, Base, backend, Pull
  <1> QED  BY <1>1, <1>3, <1>4, <1>5 DEF Conveys, Base, TypeOK, WritesOK

LEMMA GiveUpConveys ==
    ASSUME Base, GiveUp
    PROVE  Conveys
  <1>1. /\ link = "down" /\ link' = "closed" /\ events' = Append(events, Event("closed", None))
        /\ UNCHANGED <<role, backend, todo, wrote, outbox, desired, drops, router>>
    BY DEF GiveUp
  <1>2. events \in Seq(Notice) /\ Len(events) \in Nat  BY DEF Base, TypeOK, RouterOK
  <1>3. PICK e \in Notice : e = Event("closed", None)  BY EventType
  <1>4. /\ events' \in Seq(Notice) /\ Len(events') = Len(events) + 1
        /\ \A i \in 1 .. Len(events) : events'[i] = events[i]
    BY <1>1, <1>2, <1>3
  <1>5. EventsOK'  BY <1>1, <1>2, <1>4 DEF Base, EventsOK
  <1>6. RouterOK'  BY <1>1, <1>4 DEF RouterOK, Base, TypeOK, router
  <1>7. LinkOK'  BY <1>1 DEF LinkOK, Base, backend, Pull, router
  <1> QED  BY <1>1, <1>5, <1>6, <1>7 DEF Conveys, Base, TypeOK, WritesOK

LEMMA RouterConveys ==
    ASSUME Base, link = "up", UNCHANGED <<role, backend, todo, outbox, link, drops>>,
           wire' \in Seq(Entry), rt' \in Connection, Pull /\ rt'.ready => rt'.stored /\ ~ rt'.canceling,
           wrote' \in [Task -> {"ok", "err", "pending"}], desired' \in BOOLEAN, left' \in BOOLEAN,
           asked' \in SUBSET Request, events' \in Seq(Notice), EventsOK'
    PROVE  Conveys
  <1>1. WritesOK'  BY DEF Base, TypeOK, WritesOK
  <1>2. RouterOK'  BY DEF Base, TypeOK, RouterOK
  <1>3. LinkOK'  BY DEF Base, LinkOK, backend, Pull
  <1> QED  BY <1>1, <1>2, <1>3 DEF Conveys

LEMMA RouterTypes ==
    ASSUME Base
    PROVE  /\ WritesOK /\ wire \in Seq(Entry) /\ rt \in Connection /\ wrote \in [Task -> {"ok", "err", "pending"}]
           /\ desired \in BOOLEAN /\ left \in BOOLEAN /\ asked \in SUBSET Request /\ events \in Seq(Notice)
           /\ Pull /\ rt.ready => rt.stored /\ ~ rt.canceling
           /\ events' = events /\ link' = link => EventsOK'
           /\ rt.busy \in Arg /\ rt.sends \in SUBSET Arg
           /\ rt.joined \in BOOLEAN /\ rt.canceling \in BOOLEAN /\ rt.stored \in BOOLEAN /\ rt.ready \in BOOLEAN
  BY DEF Base, TypeOK, RouterOK, WritesOK, LinkOK, EventsOK, Connection

LEMMA ReceivesEffect ==
    ASSUME Base, NEW kind, Receives(kind)
    PROVE  /\ link = "up" /\ wire # <<>> /\ wire' = Tail(wire) /\ wire' \in Seq(Entry)
           /\ Head(wire) = wire[1] /\ 1 \in 1 .. Len(wire)
           /\ Head(wire).cmd.kind = kind /\ Head(wire).cmd.arg \in Arg
  BY RouterTypes, HeadEffect DEF Receives

LEMMA SetReadinessConveys ==
    ASSUME Base, NEW ready \in BOOLEAN, SetReadiness(ready)
    PROVE  /\ Conveys
           /\ rt'.stored = ready /\ rt'.canceling = rt.canceling /\ rt'.joined = rt.joined
  <1>1. /\ rt' = [rt EXCEPT !.stored = ready, !.ready = ready /\ ~ rt.canceling /\ rt.busy = None /\ rt.joined]
        /\ UNCHANGED <<role, backend, todo, wrote, client, events, asked, left>>
    BY DEF SetReadiness
  <1>2. PICK k : k = Ready(ready).kind /\ Receives(k)  BY DEF SetReadiness
  <1>3. /\ rt' \in Connection /\ (rt'.ready => rt'.stored /\ ~ rt'.canceling)
        /\ rt'.stored = ready /\ rt'.canceling = rt.canceling /\ rt'.joined = rt.joined
    BY <1>1, RouterTypes DEF Connection
  <1> QED  BY <1>1, <1>2, <1>3, RouterTypes, RouterConveys, ReceivesEffect DEF client

LEMMA FinishReplyConveys ==
    ASSUME Base, FinishReply
    PROVE  /\ Conveys
           /\ rt'.stored = rt.stored /\ rt'.canceling = rt.canceling /\ rt'.joined = rt.joined
  <1>1. /\ rt' = IF rt.joined /\ rt.busy = Head(wire).cmd.arg THEN NotBusy(rt) ELSE rt
        /\ UNCHANGED <<role, backend, todo, wrote, client, events, asked, left>> /\ Receives("reply")
    BY DEF FinishReply
  <1>2. /\ NotBusy(rt) \in Connection /\ (NotBusy(rt).ready => NotBusy(rt).stored /\ ~ NotBusy(rt).canceling)
        /\ NotBusy(rt).stored = rt.stored /\ NotBusy(rt).canceling = rt.canceling /\ NotBusy(rt).joined = rt.joined
    BY RouterTypes, Constants DEF NotBusy, Connection
  <1>3. /\ rt' \in Connection /\ (Pull /\ rt'.ready => rt'.stored /\ ~ rt'.canceling)
        /\ rt'.stored = rt.stored /\ rt'.canceling = rt.canceling /\ rt'.joined = rt.joined
    BY <1>1, <1>2, RouterTypes
  <1> QED  BY <1>1, <1>3, RouterTypes, RouterConveys, ReceivesEffect DEF client

LEMMA WorkspaceJoinConveys ==
    ASSUME Base, WorkspaceJoin
    PROVE  Conveys
  <1>1. /\ rt' = IF rt.joined THEN rt ELSE Joined(rt)
        /\ events' = IF rt.joined THEN events ELSE Append(events, Event("joined", None))
        /\ desired' = TRUE /\ wrote' = Answer(Head(wire).cmd.arg, "ok")
        /\ UNCHANGED <<role, backend, todo, outbox, link, drops, asked, left>> /\ Receives("join")
    BY DEF WorkspaceJoin
  <1>2. rt' \in Connection /\ (Pull /\ rt'.ready => rt'.stored /\ ~ rt'.canceling)
    BY <1>1, RouterTypes, RowEffect
  <1>3. events' \in Seq(Notice) /\ EventsOK'
    <2>1. CASE rt.joined  BY <1>1, <2>1, RouterTypes
    <2>2. CASE ~ rt.joined
      <3>1. events' = Append(events, Event("joined", None))  BY <1>1, <2>2
      <3> QED  BY <1>1, <3>1, SentEvents, EventType, ReceivesEffect
    <2> QED  BY <2>1, <2>2
  <1>4. wrote' \in [Task -> {"ok", "err", "pending"}]  BY <1>1, RouterTypes, AnswerEffect
  <1>5. link = "up" /\ wire' \in Seq(Entry)  BY <1>1, ReceivesEffect
  <1> QED  BY <1>1, <1>2, <1>3, <1>4, <1>5, RouterTypes, RouterConveys

LEMMA WorkspaceLeaveConveys ==
    ASSUME Base, WorkspaceLeave
    PROVE  Conveys
  <1>0. PICK refused \in BOOLEAN : refused = (rt.joined /\ (rt.canceling \/ rt.busy # None \/ rt.sends # {}))
    OBVIOUS
  <1>1. /\ rt' = IF refused THEN rt ELSE [rt EXCEPT !.joined = FALSE, !.stored = FALSE, !.ready = FALSE]
        /\ events' = IF rt.joined /\ ~ refused THEN Append(events, Event("left", None)) ELSE events
        /\ desired' = (desired /\ refused) /\ left' = (left \/ ~ refused)
        /\ wrote' = Answer(Head(wire).cmd.arg, IF refused THEN "err" ELSE "ok")
        /\ UNCHANGED <<role, backend, todo, outbox, link, drops, asked>> /\ Receives("leave")
    BY <1>0 DEF WorkspaceLeave
  <1>2. rt' \in Connection /\ (Pull /\ rt'.ready => rt'.stored /\ ~ rt'.canceling)
    <2>1. PICK new \in Connection : new = [rt EXCEPT !.joined = FALSE, !.stored = FALSE, !.ready = FALSE]
      BY RouterTypes DEF Connection
    <2>2. ~ new.ready  BY <2>1, RouterTypes DEF Connection
    <2>3. rt' = IF refused THEN rt ELSE new  BY <1>1, <2>1
    <2> QED  BY <2>2, <2>3, RouterTypes
  <1>3. events' \in Seq(Notice) /\ EventsOK'
    <2>1. CASE ~ (rt.joined /\ ~ refused)
      <3>1. events' = events  BY <1>1, <2>1
      <3> QED  BY <1>1, <3>1, RouterTypes
    <2>2. CASE rt.joined /\ ~ refused
      <3>1. events' = Append(events, Event("left", None))  BY <1>1, <2>2
      <3> QED  BY <1>1, <3>1, SentEvents, EventType, ReceivesEffect
    <2> QED  BY <2>1, <2>2
  <1>4. wrote' \in [Task -> {"ok", "err", "pending"}]
    <2>1. PICK a \in {"ok", "err"} : a = IF refused THEN "err" ELSE "ok"  OBVIOUS
    <2> QED  BY <1>1, <2>1, RouterTypes, AnswerEffect
  <1>5. link = "up" /\ wire' \in Seq(Entry)  BY <1>1, ReceivesEffect
  <1> QED  BY <1>1, <1>2, <1>3, <1>4, <1>5, RouterTypes, RouterConveys

LEMMA StartRequestConveys ==
    ASSUME Base, NEW accepted \in BOOLEAN, StartRequest(accepted)
    PROVE  /\ Conveys
           /\ rt'.stored = rt.stored /\ rt'.canceling = rt.canceling /\ rt'.joined = rt.joined
  <1>0. PICK c \in Arg : c = Head(wire).cmd.arg  BY ReceivesEffect DEF StartRequest
  <1>1. /\ rt' = IF accepted THEN [rt EXCEPT !.sends = @ \cup {c}] ELSE rt
        /\ wrote' = Answer(c, IF accepted THEN "ok" ELSE "err")
        /\ UNCHANGED <<role, backend, todo, client, events, asked, left>> /\ Receives("send")
    BY <1>0 DEF StartRequest
  <1>2. /\ rt' \in Connection /\ (Pull /\ rt'.ready => rt'.stored /\ ~ rt'.canceling)
        /\ rt'.stored = rt.stored /\ rt'.canceling = rt.canceling /\ rt'.joined = rt.joined
    <2>1. PICK new \in Connection : new = [rt EXCEPT !.sends = rt.sends \cup {c}]
      BY RouterTypes DEF Connection
    <2>2. /\ new.ready = rt.ready /\ new.stored = rt.stored /\ new.canceling = rt.canceling
          /\ new.joined = rt.joined
      BY <2>1, RouterTypes DEF Connection
    <2>3. rt' = IF accepted THEN new ELSE rt  BY <1>1, <2>1, RouterTypes DEF Connection
    <2> QED  BY <2>2, <2>3, RouterTypes
  <1>4. wrote' \in [Task -> {"ok", "err", "pending"}]
    <2>1. PICK a \in {"ok", "err"} : a = IF accepted THEN "ok" ELSE "err"  OBVIOUS
    <2> QED  BY <1>1, <2>1, RouterTypes, AnswerEffect
  <1>5. link = "up" /\ wire' \in Seq(Entry)  BY <1>1, ReceivesEffect
  <1> QED  BY <1>1, <1>2, <1>4, <1>5, RouterTypes, RouterConveys DEF client

LEMMA SendResultConveys ==
    ASSUME Base, NEW c \in Call, SendResult(c)
    PROVE  /\ Conveys
           /\ rt'.stored = rt.stored /\ rt'.canceling = rt.canceling /\ rt'.joined = rt.joined
  <1>1. /\ rt' = [rt EXCEPT !.sends = rt.sends \ {c}] /\ events' = Append(events, Event("result", c))
        /\ UNCHANGED <<role, backend, todo, wrote, client, wire, asked, left>> /\ link = "up"
    BY RouterTypes DEF SendResult, Connection
  <1>2. /\ rt' \in Connection /\ (Pull /\ rt'.ready => rt'.stored /\ ~ rt'.canceling)
        /\ rt'.stored = rt.stored /\ rt'.canceling = rt.canceling /\ rt'.joined = rt.joined
    BY <1>1, RouterTypes DEF Connection
  <1>3. events' \in Seq(Notice) /\ EventsOK'  BY <1>1, SentEvents, EventType, Constants
  <1> QED  BY <1>1, <1>2, <1>3, RouterTypes, RouterConveys DEF client

LEMMA DeliverConveys ==
    ASSUME Base, NEW r \in Request, Deliver(r)
    PROVE  /\ Conveys
           /\ rt'.stored = rt.stored /\ rt'.canceling = rt.canceling /\ rt'.joined = rt.joined
  <1>1. /\ rt' = [rt EXCEPT !.busy = r, !.ready = FALSE] /\ events' = Append(events, Event("deliver", r))
        /\ asked' = asked \cup {r}
        /\ UNCHANGED <<role, backend, todo, wrote, client, wire, left>> /\ link = "up"
    BY DEF Deliver
  <1>2. /\ rt' \in Connection /\ ~ rt'.ready
        /\ rt'.stored = rt.stored /\ rt'.canceling = rt.canceling /\ rt'.joined = rt.joined
    BY <1>1, RouterTypes, Constants DEF Connection
  <1>3. events' \in Seq(Notice) /\ EventsOK'  BY <1>1, SentEvents, EventType, Constants
  <1> QED  BY <1>1, <1>2, <1>3, RouterTypes, RouterConveys DEF client

LEMMA CancelWorkConveys ==
    ASSUME Base, NEW fenced \in BOOLEAN, CancelWork(fenced)
    PROVE  Conveys /\ rt'.canceling /\ rt'.joined = rt.joined
  <1>1. /\ rt' = [rt EXCEPT !.busy = None, !.ready = FALSE, !.stored = FALSE, !.canceling = TRUE]
        /\ events' = Append(events, Event(IF fenced THEN "cancel_fenced" ELSE "cancel", rt.busy))
        /\ UNCHANGED <<role, backend, todo, wrote, client, wire, asked, left>> /\ link = "up"
    BY DEF CancelWork
  <1>2. rt' \in Connection /\ ~ rt'.ready /\ rt'.canceling /\ rt'.joined = rt.joined
    BY <1>1, RouterTypes, Constants DEF Connection
  <1>3. PICK e \in Notice : e = Event(IF fenced THEN "cancel_fenced" ELSE "cancel", rt.busy) /\ e.type # "closed"
    BY EventType, RouterTypes
  <1>4. events' \in Seq(Notice) /\ EventsOK'  BY <1>1, <1>3, SentEvents
  <1> QED  BY <1>1, <1>2, <1>4, RouterTypes, RouterConveys DEF client

-----------------------------------------------------------------------------
(* Results.                                                                   *)

LEMMA InitBase ==
    ASSUME Init
    PROVE  Base
  <1>1. state \in Backend /\ state.waiter = None /\ ~ state.closed  BY Constants DEF Init, Backend
  <1>2. NoCall \in CallRow /\ NoCall.pc = "idle" /\ NoCall.kind = "none"  BY DEF NoCall, CallRow, Arg, Rpc
  <1>3. \A c \in Call : call[c] = NoCall  BY DEF Init
  <1>4. ServerOK  BY <1>1, <1>2, IdleType DEF Init, ServerOK
  <1>5. WritesOK  BY SingleType DEF Init, WritesOK
  <1>6. rt \in Connection /\ (Pull => ~ rt.ready)  BY RowEffect DEF Init
  <1>7. RouterOK
    <2>1. desired \in BOOLEAN /\ left \in BOOLEAN  BY DEF Init
    <2>2. wire \in Seq(Entry) /\ events \in Seq(Notice)  BY DEF Init
    <2>3. link \in {"up", "down", "closed"} /\ drops \in Nat /\ asked \in SUBSET Request  BY DEF Init
    <2> QED  BY <1>6, <2>1, <2>2, <2>3 DEF RouterOK
  <1>8. KindOK  BY <1>1, <1>2, <1>3, IdleType DEF KindOK, RowOK, Init
  <1>9. EventsOK /\ ResultOK  BY <1>2, <1>3 DEF EventsOK, ResultOK, Awaits, Init
  <1>10. LinkOK  BY <1>6, Constants DEF LinkOK, Init
  <1> QED  BY <1>4, <1>5, <1>7, <1>8, <1>9, <1>10 DEF Base, TypeOK

\* A step of the model's calls.
LEMMA CallSteps ==
    ASSUME Base, NEW c \in Call, BeginCall(c) \/ CallStep(c) \/ CancelCall(c)
    PROVE  Moves(c) \/ WriteNext(c)
  <1>1. CASE BeginCall(c)
    <2>1. CASE AgentWait(c)  BY <2>1, AgentWaitMoves
    <2>2. CASE RoutedRequest(c)  BY <2>2, RoutedRequestMoves
    <2>3. CASE \E k \in {"join", "leave"} : WorkspaceCall(c, k)  BY <2>3, WorkspaceCallMoves
    <2>4. CASE \E r \in told, expired \in BOOLEAN : AgentReply(c, r, expired)  BY <2>4, AgentReplyMoves
    <2>5. CASE \E r \in told : FailPendingWork(c, r)  BY <2>5, FailPendingWorkMoves
    <2> QED  BY <1>1, <2>1, <2>2, <2>3, <2>4, <2>5 DEF BeginCall
  <1>2. CASE CallStep(c)
    BY <1>2, WaitReadiedMoves, WaitTimeoutMoves, WaitReceivedMoves, AgentRepliedMoves, RequestAcceptedMoves,
       RequestEndsMoves, WorkspaceAnsweredMoves, CallReturnsMoves DEF CallStep
  <1>3. CASE CancelCall(c)  BY <1>3, CancelCallMoves
  <1> QED  BY <1>1, <1>2, <1>3

\* An event is taken by a handler only, and a result by HandleResult.
Untaken == events' = events \/ Len(events') > Len(events) \/ link' # link \/ Head(events).type # "result"

ServerTurn == \/ SpawnedReadiness \/ EventStep \/ Close \/ WriteNext(Closer)
              \/ \E b \in BOOLEAN : HostState(b)
              \/ \E c \in Call : WriteNext(c)

LEMMA ServerSteps ==
    ASSUME Base, ServerTurn
    PROVE  Serves /\ ResultOK' /\ (Untaken \/ HandleResult)
  <1>1. CASE SpawnedReadiness  BY <1>1, SpawnedServes DEF Untaken, SpawnedReadiness
  <1>2. CASE Close  BY <1>2, CloseServes DEF Untaken, Close
  <1>3. ASSUME NEW t \in Task, WriteNext(t)  PROVE Serves /\ ResultOK' /\ Untaken
    BY <1>3, WriteNextServes DEF Untaken, WriteNext
  <1>4. ASSUME NEW b \in BOOLEAN, HostState(b)  PROVE Serves /\ ResultOK' /\ Untaken
    BY <1>4, HostStateServes DEF Untaken, HostState
  <1>5. CASE EventStep
    <2>1. CASE HandleDelivery  BY <2>1, HandleDeliveryServes DEF Untaken, HandleDelivery, Handles
    <2>2. CASE HandOver  BY <2>2, HandOverServes DEF Untaken, HandOver
    <2>3. CASE Notify  BY <2>3, NotifyServes DEF Untaken, Notify
    <2>4. ASSUME NEW b \in BOOLEAN, HandleWorkCancelled(b)  PROVE Serves /\ ResultOK' /\ Untaken
      BY <2>4, HandleWorkCancelledServes DEF Untaken, HandleWorkCancelled, Handles
    <2>5. ASSUME NEW b \in BOOLEAN, HandleMembership(b)  PROVE Serves /\ ResultOK' /\ Untaken
      BY <2>5, HandleMembershipServes DEF Untaken, HandleMembership, Handles
    <2>6. CASE HandleResult  BY <2>6, HandleResultServes
    <2>7. CASE HandleClosed  BY <2>7, HandleClosedServes DEF Untaken, HandleClosed, Handles
    <2>8. CASE EventHandled  BY <2>8, EventHandledServes DEF Untaken, EventHandled
    <2> QED  BY <1>3, <1>5, <2>1, <2>2, <2>3, <2>4, <2>5, <2>6, <2>7, <2>8, Constants DEF EventStep
  <1> QED  BY <1>1, <1>2, <1>3, <1>4, <1>5, Constants DEF ServerTurn

LinkTurn == ClientStep \/ LinkLost \/ Reconnect \/ GiveUp \/ RouterStep

LEMMA AppendUntaken ==
    ASSUME Base, NEW e \in Notice, events' = events \/ events' = Append(events, e)
    PROVE  Untaken
  BY RouterTypes DEF Untaken

LEMMA LinkSteps ==
    ASSUME Base, LinkTurn
    PROVE  Conveys /\ Untaken
  <1>1. CASE PumpCommand
    <2>1. events' = events \/ (link = "up" /\ link' = "down")  BY <1>1 DEF PumpCommand, LoseLink
    <2> QED  BY <1>1, <2>1, PumpCommandConveys DEF Untaken
  <1>2. CASE DisconnectedCommand  BY <1>2, DisconnectedConveys DEF Untaken, DisconnectedCommand
  <1>3. ASSUME NEW c \in Call, CallExpires(c)  PROVE Conveys /\ Untaken
    <2>1. events' = events \/ (link = "up" /\ link' = "down")  BY <1>3 DEF CallExpires, LoseLink
    <2> QED  BY <1>3, <2>1, CallExpiresConveys DEF Untaken
  <1>4. CASE LinkLost  BY <1>4, LinkLostConveys DEF Untaken, LinkLost, LoseLink
  <1>5. CASE Reconnect  BY <1>5, ReconnectConveys DEF Untaken, Reconnect
  <1>6. CASE GiveUp  BY <1>6, GiveUpConveys DEF Untaken, GiveUp
  <1>7. CASE FinishReply  BY <1>7, FinishReplyConveys DEF Untaken, FinishReply
  <1>8. CASE WorkspaceJoin
    BY <1>8, WorkspaceJoinConveys, AppendUntaken, EventType DEF WorkspaceJoin
  <1>9. CASE WorkspaceLeave
    BY <1>9, WorkspaceLeaveConveys, AppendUntaken, EventType DEF WorkspaceLeave
  <1>10. ASSUME NEW b \in BOOLEAN, SetReadiness(b)  PROVE Conveys /\ Untaken
    BY <1>10, SetReadinessConveys DEF Untaken, SetReadiness
  <1>11. ASSUME NEW b \in BOOLEAN, StartRequest(b)  PROVE Conveys /\ Untaken
    BY <1>11, StartRequestConveys DEF Untaken, StartRequest
  <1>12. ASSUME NEW b \in BOOLEAN, CancelWork(b)  PROVE Conveys /\ Untaken
    <2>1. PICK e \in Notice : e = Event(IF b THEN "cancel_fenced" ELSE "cancel", rt.busy)  BY EventType, RouterTypes
    <2> QED  BY <1>12, <2>1, CancelWorkConveys, AppendUntaken DEF CancelWork
  <1>13. ASSUME NEW c \in Call, SendResult(c)  PROVE Conveys /\ Untaken
    BY <1>13, SendResultConveys, AppendUntaken, EventType, Constants DEF SendResult
  <1>14. ASSUME NEW r \in Request, Deliver(r)  PROVE Conveys /\ Untaken
    BY <1>14, DeliverConveys, AppendUntaken, EventType, Constants DEF Deliver
  <1> QED  BY <1>1, <1>2, <1>3, <1>4, <1>5, <1>6, <1>7, <1>8, <1>9, <1>10, <1>11, <1>12, <1>13, <1>14
           DEF LinkTurn, ClientStep, RouterStep, RouterReads

\* Every step has one of the shapes.
LEMMA Shapes ==
    ASSUME Base, Next
    PROVE  \/ ServerTurn \/ LinkTurn
           \/ \E c \in Call : Moves(c) /\ (BeginCall(c) \/ CallStep(c) \/ CancelCall(c))
  BY CallSteps DEF Next, ServerTurn, LinkTurn

LEMMA BaseStep ==
    ASSUME Base, [Next]_vars
    PROVE  Base'
  <1>1. CASE Next
    BY <1>1, Shapes, MovesKeeps, ServerSteps, ServesKeeps, LinkSteps, ConveysKeeps
  <1>2. CASE UNCHANGED vars
    <2>1. Conveys
      BY <1>2 DEF Conveys, vars, Base, TypeOK, WritesOK, RouterOK, EventsOK, LinkOK, backend, client, router, Pull
    <2> QED  BY <2>1, ConveysKeeps
  <1> QED  BY <1>1, <1>2

\* Types, and that a call that awaits a result is registered for it, has got it, or the
\* server or its client has ended.
THEOREM AlwaysBase == Spec => []Base
  <1>1. Init => Base  BY InitBase
  <1>2. Base /\ [Next]_vars => Base'  BY BaseStep
  <1> QED  BY <1>1, <1>2, PTL DEF Spec

\* The result of a request reaches the call that made it, if it still runs,
\* whenever it is handled (routed_request registers before it sends).
THEOREM ResultsReachTheirCalls == Spec => ResultReachesCall
  <1>1. ASSUME Base, [Next]_vars, NEW c \in Call,
               events # <<>>, Head(events).type = "result", Head(events).arg = c,
               link' = link, Len(events') < Len(events), call[c].pc \in {"sending", "accepted"}
        PROVE  call'[c].mail = "result"
    <2>1. Len(events) \in Nat /\ Len(events') \in Nat /\ events' # events
      <3>1. Base'  BY <1>1, BaseStep
      <3> QED  BY <1>1, <3>1 DEF Base, TypeOK, RouterOK
    <2>2. ~ Untaken /\ Next  BY <1>1, <2>1 DEF Untaken, vars
    <2>3. HandleResult  BY <1>1, <2>1, <2>2, Shapes, ServerSteps, LinkSteps DEF Moves
    <2>4. ~ state.closed  BY <2>3 DEF HandleResult, Handles
    <2>5. c \in results \/ call[c].mail = "result"  BY <1>1, <2>4 DEF Base, ResultOK, Awaits
    <2> QED  BY <1>1, <2>3, <2>5, HandleResultServes
  <1>2. Base /\ [Next]_vars => [\A c \in Call :
          /\ events # <<>> /\ Head(events).type = "result" /\ Head(events).arg = c
          /\ link' = link /\ Len(events') < Len(events)
          /\ call[c].pc \in {"sending", "accepted"}
          => call'[c].mail = "result"]_vars
    BY <1>1
  <1> QED  BY <1>2, AlwaysBase, PTL DEF Spec, ResultReachesCall

-----------------------------------------------------------------------------
(* Readiness on its way.                                                      *)

LEMMA QueueAppend ==
    ASSUME NEW s \in Seq(Entry), NEW h \in Entry
    PROVE  /\ Clear(Append(s, h)) <=> Clear(s) /\ h.cmd.kind # "unready"
           /\ Lifts(Append(s, h)) <=> h.cmd.kind = "ready" \/ (Lifts(s) /\ h.cmd.kind # "unready")
           /\ \A i \in 1 .. Len(Append(s, h)) : (i \in 1 .. Len(s) /\ Append(s, h)[i] = s[i]) \/ Append(s, h)[i] = h
  <1> DEFINE q == Append(s, h)
  <1>1. PICK n \in Nat : n = Len(s)  OBVIOUS
  <1>2. Len(q) = n + 1 /\ q[n + 1] = h /\ \A i \in 1 .. n : q[i] = s[i]  BY <1>1
  <1> HIDE DEF q
  <1>3. Clear(q) <=> Clear(s) /\ h.cmd.kind # "unready"  BY <1>1, <1>2 DEF Clear
  <1>4. h.cmd.kind = "ready" => Lifts(q)
    <2>1. SUFFICES ASSUME h.cmd.kind = "ready"  PROVE Lifts(q)  OBVIOUS
    <2>2. n + 1 \in 1 .. Len(q) /\ \A j \in n + 1 .. Len(q) : q[j].cmd.kind # "unready"  BY <1>2, <2>1
    <2> QED  BY <1>2, <2>1, <2>2 DEF Lifts
  <1>5. Lifts(s) /\ h.cmd.kind # "unready" => Lifts(q)
    <2>1. SUFFICES ASSUME h.cmd.kind # "unready", NEW i \in 1 .. n, s[i].cmd.kind = "ready",
                          \A j \in i .. n : s[j].cmd.kind # "unready"
                   PROVE  Lifts(q)
      BY <1>1 DEF Lifts
    <2>2. i \in 1 .. Len(q) /\ q[i].cmd.kind = "ready"  BY <1>2, <2>1
    <2>3. \A j \in i .. Len(q) : q[j].cmd.kind # "unready"  BY <1>2, <2>1
    <2> QED  BY <2>2, <2>3 DEF Lifts
  <1>6. Lifts(q) => h.cmd.kind = "ready" \/ (Lifts(s) /\ h.cmd.kind # "unready")
    <2>1. SUFFICES ASSUME NEW i \in 1 .. n + 1, q[i].cmd.kind = "ready",
                          \A j \in i .. n + 1 : q[j].cmd.kind # "unready"
                   PROVE  h.cmd.kind = "ready" \/ (Lifts(s) /\ h.cmd.kind # "unready")
      BY <1>2 DEF Lifts
    <2>2. h.cmd.kind # "unready"  BY <1>2, <2>1
    <2>3. CASE i = n + 1  BY <1>2, <2>1, <2>3
    <2>4. CASE i # n + 1
      <3>1. i \in 1 .. n /\ s[i].cmd.kind = "ready"  BY <1>2, <2>1, <2>4
      <3>2. \A j \in i .. n : s[j].cmd.kind # "unready"  BY <1>2, <2>1, <3>1
      <3> QED  BY <1>1, <2>2, <3>1, <3>2 DEF Lifts
    <2> QED  BY <2>3, <2>4
  <1>7. \A i \in 1 .. Len(q) : (i \in 1 .. Len(s) /\ q[i] = s[i]) \/ q[i] = h  BY <1>1, <1>2
  <1> QED  BY <1>3, <1>4, <1>5, <1>6, <1>7 DEF q

LEMMA QueueTail ==
    ASSUME NEW s \in Seq(Entry), s # <<>>
    PROVE  /\ Clear(s) <=> Head(s).cmd.kind # "unready" /\ Clear(Tail(s))
           /\ Lifts(s) <=> Lifts(Tail(s)) \/ (Head(s).cmd.kind = "ready" /\ Clear(Tail(s)))
           /\ \A i \in 1 .. Len(Tail(s)) : i + 1 \in 1 .. Len(s) /\ Tail(s)[i] = s[i + 1]
  <1> DEFINE q == Tail(s)
  <1>1. PICK n \in Nat : n = Len(s) - 1 /\ Len(s) = n + 1  BY TailEvents
  <1>2. Len(q) = n /\ Head(s) = s[1] /\ \A i \in 1 .. n : q[i] = s[i + 1] /\ i + 1 \in 1 .. n + 1
    BY <1>1, TailEvents
  <1> HIDE DEF q
  <1>0. \A i \in 2 .. n + 1 : i - 1 \in 1 .. n /\ q[i - 1] = s[i]  BY <1>2
  <1>3. Clear(s) <=> Head(s).cmd.kind # "unready" /\ Clear(q)
    <2>1. \A i \in 1 .. n + 1 : i = 1 \/ i \in 2 .. n + 1  OBVIOUS
    <2>2. Clear(s) => Head(s).cmd.kind # "unready" /\ Clear(q)  BY <1>1, <1>2 DEF Clear
    <2>3. Head(s).cmd.kind # "unready" /\ Clear(q) => Clear(s)  BY <1>0, <1>1, <1>2, <2>1 DEF Clear
    <2> QED  BY <2>2, <2>3
  <1>4. Head(s).cmd.kind = "ready" /\ Clear(q) => Lifts(s)
    <2>1. SUFFICES ASSUME Head(s).cmd.kind = "ready", Clear(q)  PROVE Lifts(s)  OBVIOUS
    <2>2. Clear(s)  BY <1>3, <2>1
    <2> QED  BY <1>1, <1>2, <2>1, <2>2 DEF Lifts, Clear
  <1>5. Lifts(q) => Lifts(s)
    <2>1. SUFFICES ASSUME NEW i \in 1 .. n, q[i].cmd.kind = "ready", \A j \in i .. n : q[j].cmd.kind # "unready"
                   PROVE  Lifts(s)
      BY <1>2 DEF Lifts
    <2>2. i + 1 \in 1 .. Len(s) /\ s[i + 1].cmd.kind = "ready"  BY <1>1, <1>2, <2>1
    <2>3. \A j \in i + 1 .. Len(s) : j - 1 \in i .. n /\ q[j - 1] = s[j]  BY <1>0, <1>1
    <2>4. \A j \in i + 1 .. Len(s) : s[j].cmd.kind # "unready"  BY <2>1, <2>3
    <2> QED  BY <2>2, <2>4 DEF Lifts
  <1>6. Lifts(s) => Lifts(q) \/ (Head(s).cmd.kind = "ready" /\ Clear(q))
    <2>1. SUFFICES ASSUME NEW i \in 1 .. n + 1, s[i].cmd.kind = "ready",
                          \A j \in i .. n + 1 : s[j].cmd.kind # "unready"
                   PROVE  Lifts(q) \/ (Head(s).cmd.kind = "ready" /\ Clear(q))
      BY <1>1 DEF Lifts
    <2>2. CASE i = 1
      <3>1. \A j \in 1 .. n : q[j].cmd.kind # "unready"  BY <1>2, <2>1, <2>2
      <3> QED  BY <1>2, <2>1, <2>2, <3>1 DEF Clear
    <2>3. CASE i # 1
      <3>1. i - 1 \in 1 .. n /\ q[i - 1].cmd.kind = "ready"  BY <1>0, <2>1, <2>3
      <3>2. \A j \in i - 1 .. n : j + 1 \in i .. n + 1 /\ q[j] = s[j + 1]  BY <1>2, <2>3
      <3>3. \A j \in i - 1 .. n : q[j].cmd.kind # "unready"  BY <2>1, <3>2
      <3> QED  BY <1>2, <3>1, <3>3 DEF Lifts
    <2> QED  BY <2>2, <2>3
  <1>7. \A i \in 1 .. Len(q) : i + 1 \in 1 .. Len(s) /\ q[i] = s[i + 1]  BY <1>1, <1>2
  <1> QED  BY <1>3, <1>4, <1>5, <1>6, <1>7 DEF q

\* Every step leaves the first connection only for good.
LEMMA FirstStays ==
    ASSUME Base, Next, First'
    PROVE  First
  <1>1. Base'  BY BaseStep
  <1>2. drops \in Nat /\ drops' = 0  BY DEF Base, TypeOK, RouterOK, First
  <1>3. ASSUME UNCHANGED <<role, drops, left, link>>, state'.closed = FALSE => state.closed = FALSE
        PROVE  First
    BY <1>3, <1>1 DEF First, Pull, Base, TypeOK, ServerOK, Backend
  <1>4. CASE \E c \in Call : Moves(c)
    BY <1>3, <1>4 DEF Moves, router
  <1>5. CASE ServerTurn
    <2>1. Serves  BY <1>5, ServerSteps
    <2> QED  BY <1>1, <1>3, <2>1 DEF Serves, router, Base, TypeOK, ServerOK, Backend
  <1>6. CASE LinkTurn
    <2>1. UNCHANGED <<role, state>>  BY <1>6, LinkSteps DEF Conveys, backend
    <2>2. drops' = drops \/ drops' = drops + 1
      BY <1>6 DEF LinkTurn, ClientStep, RouterStep, RouterReads, PumpCommand, DisconnectedCommand, CallExpires,
         LinkLost, Reconnect, GiveUp, LoseLink, SetReadiness, FinishReply, WorkspaceJoin, WorkspaceLeave,
         StartRequest, SendResult, Deliver, CancelWork, client
    <2>3. left => left'
      BY <1>6 DEF LinkTurn, ClientStep, RouterStep, RouterReads, PumpCommand, DisconnectedCommand, CallExpires,
         LinkLost, Reconnect, GiveUp, LoseLink, SetReadiness, FinishReply, WorkspaceJoin, WorkspaceLeave,
         StartRequest, SendResult, Deliver, CancelWork, client, router
    <2>4. link # "closed"  BY <1>6, LinkSteps DEF Conveys, First
    <2>5. drops = 0  BY <1>2, <2>2
    <2>6. link = "up"  BY <2>4, <2>5 DEF Base, LinkOK, TypeOK, RouterOK
    <2> QED  BY <2>1, <2>3, <2>5, <2>6 DEF First, Pull
  <1> QED  BY <1>4, <1>5, <1>6, Shapes

-----------------------------------------------------------------------------
(* A step of a call keeps Core.                                               *)

\* Calls do not come back, and keep their kind.
Goes ==
    \A d \in Call :
        /\ call[d].pc = "done" => call'[d].pc = "done"
        /\ call[d].pc # "idle" => call'[d].pc = "done" \/ call'[d].kind = call[d].kind

LEMMA GoesHolds ==
    /\ \A c \in Call : Moves(c) => Goes
    /\ Serves => Goes
    /\ Conveys => Goes
  BY DEF Moves, Serves, Conveys, Goes, backend

LEMMA EntryGoes ==
    ASSUME Base, Goes, NEW e, OwnEntry(e)
    PROVE  /\ e.cmd.kind \in Rpc => /\ e.by \in Call /\ e.cmd.arg = e.by
                                    /\ call'[e.by].kind = e.cmd.kind \/ call'[e.by].pc = "done"
           /\ e.cmd.kind \notin Rpc /\ e.by \in Call =>
                    call'[e.by].pc = "done" \/ call'[e.by].kind \in {"wait", "reply"}
  <1>1. \A d \in Call : call[d].pc = "idle" => call[d].kind = "none"  BY DEF Base, KindOK, RowOK
  <1>2. "none" \notin Rpc  BY DEF Rpc
  <1> QED  BY <1>1, <1>2 DEF OwnEntry, Goes

\* The entries of a queue that were there keep their owner.
LEMMA OwnGoes ==
    ASSUME Base, Goes, NEW s, OwnOK(s), NEW i \in 1 .. Len(s)
    PROVE  /\ s[i].cmd.kind \in Rpc => /\ s[i].by \in Call /\ s[i].cmd.arg = s[i].by
                                       /\ call'[s[i].by].kind = s[i].cmd.kind \/ call'[s[i].by].pc = "done"
           /\ s[i].cmd.kind \notin Rpc /\ s[i].by \in Call =>
                    call'[s[i].by].pc = "done" \/ call'[s[i].by].kind \in {"wait", "reply"}
  <1>1. PICK e : e = s[i]  OBVIOUS
  <1>2. OwnEntry(e)  BY <1>1 DEF OwnOK
  <1> QED  BY <1>1, <1>2, EntryGoes

LEMMA QueuesFrame ==
    ASSUME Base, QueuesOK, Goes, UNCHANGED <<outbox, wire>>
    PROVE  QueuesOK'
  <1>1. OwnOK(outbox)'
    <2>1. PICK s : s = outbox  OBVIOUS
    <2>2. OwnOK(s) /\ outbox' = s  BY <2>1 DEF QueuesOK
    <2> QED  BY <2>2, OwnGoes DEF OwnOK, OwnEntry
  <1>2. OwnOK(wire)'
    <2>1. PICK s : s = wire  OBVIOUS
    <2>2. OwnOK(s) /\ wire' = s  BY <2>1 DEF QueuesOK
    <2> QED  BY <2>2, OwnGoes DEF OwnOK, OwnEntry
  <1> QED  BY <1>1, <1>2 DEF QueuesOK

\* What a step of call c does on the first connection.
Only(c) ==
    /\ \A d \in Call : d # c => call'[d] = call[d]
    /\ \A u \in Task : u # c => todo'[u] = todo[u] /\ wrote'[u] = wrote[u]
    /\ PlanRow(c)'
    /\ call'[c].mail \in {call[c].mail, None}
    /\ told' \subseteq told \cup ({call[c].mail} \cap Request)
    /\ state'.membership = state.membership
    /\ state'.pending = state.pending \/ (state'.pending = None /\ state.pending \in told)
    /\ state'.waiter = state.waiter \/ (state.waiter = c /\ state'.waiter = None) \/ (state.waiter = None /\ state'.waiter = c)
    /\ state'.waiter = c => /\ call'[c].pc \in {"readying", "waiting"} /\ call'[c].mail = None
                            /\ ev.pc = "handing" => ev.to # c
    /\ call'[c].pc = "readying" /\ todo'[c] # <<>> => state'.waiter = c

LEMMA OnlyKeeps ==
    ASSUME Base, Core, NEW c \in Call, Moves(c), Only(c), QueuesOK', Raised' => Raised, Covered => Covered'
    PROVE  Core'
  <1>0. /\ UNCHANGED <<events, ev, rt, asked>> /\ told \subseteq told' /\ c \in Task /\ c # Events
        /\ state.waiter \in Call \cup {None} /\ state'.waiter \in Call \cup {None}
    BY Constants DEF Moves, router, Base, TypeOK, ServerOK, Backend
  <1>1. Member'  BY <1>0 DEF Core, Member, Only
  <1>2. PlanOK'
    <2>1. ASSUME NEW d \in Call  PROVE PlanRow(d)'
      <3>1. CASE d = c  BY <3>1 DEF Only
      <3>2. CASE d # c
        <4>1. call'[d] = call[d] /\ todo'[d] = todo[d] /\ wrote'[d] = wrote[d]
          BY <3>2, Constants DEF Only
        <4>2. PlanRow(d)  BY DEF Core, PlanOK
        <4> QED  BY <4>1, <4>2 DEF PlanRow, Plan
      <3> QED  BY <3>1, <3>2
    <2>2. todo'[Events] = todo[Events]  BY <1>0, Constants DEF Only
    <2> QED  BY <1>0, <2>1, <2>2 DEF PlanOK, Core
  <1>3. WaiterOK'
    <2>1. CASE state'.waiter = c  BY <1>0, <2>1 DEF WaiterOK, Only
    <2>2. CASE state'.waiter = None  BY <1>0, <2>2, Constants DEF WaiterOK, Base, KindOK
    <2>3. CASE state'.waiter \notin {c, None}
      <3>1. state'.waiter = state.waiter /\ state.waiter \in Call  BY <1>0, <2>3 DEF Only
      <3>2. call'[state.waiter] = call[state.waiter]  BY <2>3, <3>1 DEF Only
      <3> QED  BY <1>0, <2>3, <3>1, <3>2 DEF WaiterOK, Core
    <2> QED  BY <2>1, <2>2, <2>3
  <1>4. AskedOK'
    <2>1. call[c].mail \in asked \cup {None, "refused", "result"}  BY DEF Core, AskedOK
    <2>2. told' \subseteq asked  BY <1>0, <2>1, Constants DEF Core, AskedOK, Only
    <2>3. \A d \in Call : call'[d].mail \in {call[d].mail, None}  BY DEF Only
    <2>4. \A d \in Call : call'[d].mail \in asked' \cup {None, "refused", "result"}
      BY <1>0, <2>3 DEF Core, AskedOK
    <2>5. state'.pending \in asked' \cup {None}  BY <1>0 DEF Only, Core, AskedOK
    <2>6. ASSUME NEW i \in 1 .. Len(events), events[i].type = "deliver"
          PROVE  /\ events[i].arg \in asked /\ events[i].arg \notin told' /\ events[i].arg # None
                 /\ \A d \in Call : call'[d].mail # events[i].arg
      <3>1. /\ events[i].arg \in asked /\ events[i].arg \notin told
            /\ \A d \in Call : call[d].mail # events[i].arg
        BY <2>6 DEF Core, AskedOK
      <3>2. events[i].arg # None  BY <3>1, Constants, RouterTypes
      <3> QED  BY <2>3, <3>1, <3>2 DEF Only
    <2> QED  BY <1>0, <2>2, <2>4, <2>5, <2>6 DEF AskedOK, Core
  <1>5. TakenOK'
    <2>1. SUFFICES ASSUME NEW d \in Call, call'[d].pc = "readying", todo'[d] # <<>>, state'.waiter # d, ~ rt.canceling
                   PROVE  /\ state'.pending # None /\ state'.pending \notin told'
                          /\ \A e \in Call : call'[e].mail = state'.pending => e = d
                          /\ ev.pc = "handing" /\ ev.req = state'.pending => ev.to = d
      BY <1>0 DEF TakenOK, Taken
    <2>2. d # c  BY <2>1 DEF Only
    <2>3. call'[d] = call[d] /\ todo'[d] = todo[d]  BY <2>2, Constants DEF Only
    <2>4. state.waiter # d  BY <2>1, <2>2, Constants DEF Only
    <2>5. /\ state.pending # None /\ state.pending \notin told
          /\ \A e \in Call : call[e].mail = state.pending => e = d
          /\ ev.pc = "handing" /\ ev.req = state.pending => ev.to = d
      BY <2>1, <2>3, <2>4 DEF Core, TakenOK, Taken
    <2>6. state'.pending = state.pending  BY <2>5 DEF Only
    <2>7. call[c].mail # state.pending  BY <2>2, <2>5
    <2>8. \A e \in Call : call'[e].mail \in {call[e].mail, None}  BY DEF Only
    <2> QED  BY <2>5, <2>6, <2>7, <2>8 DEF Only
  <1> QED  BY <1>1, <1>2, <1>3, <1>4, <1>5 DEF Core

LEMMA RaisedFrame ==
    ASSUME UNCHANGED <<outbox, wire, rt>>
    PROVE  Raised' => Raised
  BY DEF Raised, Lifts, Clear

\* A step that leaves the queues alone.
LEMMA OnlyQuietly ==
    ASSUME Base, Core, NEW c \in Call, Moves(c), Only(c), outbox' = outbox, Covered => Covered'
    PROVE  Core'
  <1>1. UNCHANGED <<outbox, wire, rt>>  BY DEF Moves, router
  <1>2. QueuesOK'  BY <1>1, QueuesFrame, GoesHolds DEF Core
  <1>3. Raised' => Raised  BY <1>1, RaisedFrame
  <1> QED  BY <1>2, <1>3, OnlyKeeps

LEMMA CoveredFrame ==
    ASSUME WritesOK, NEW c \in Task, todo[c] = <<>>, UNCHANGED <<spawned, rt>>,
           state'.waiter = state.waiter, state'.pending = state.pending,
           \A u \in Task : u # c => todo'[u] = todo[u]
    PROVE  Covered => Covered'
  <1>1. ~ Lowers(c)  BY DEF Lowers
  <1>2. \A t \in Task : Lowers(t) => Lowers(t)'  BY <1>1 DEF Lowers
  <1> QED  BY <1>2 DEF Covered

\* A call that is to write FALSE.
LEMMA LowersSingle ==
    ASSUME NEW t \in Task, todo'[t] = <<Ready(FALSE)>>
    PROVE  Lowers(t)' /\ Covered'
  <1>1. PICK x \in Command : x = Ready(FALSE) /\ x.kind = "unready"  BY CmdType
  <1>2. Len(<<x>>) = 1 /\ <<x>>[1] = x  OBVIOUS
  <1>3. Lowers(t)'
    <2>1. todo'[t] = <<x>>  BY <1>1
    <2>2. Len(todo'[t]) = 1  BY <1>2, <2>1
    <2>3. todo'[t][1] = x  BY <1>2, <2>1
    <2>4. todo'[t][1].kind = "unready"  BY <1>1, <2>3, Zenon
    <2>5. 1 \in 1 .. Len(todo'[t])  BY <2>2
    <2>6. \E i \in 1 .. Len(todo'[t]) : todo'[t][i].kind = "unready"  BY <2>4, <2>5, Zenon
    <2> QED  BY <2>6 DEF Lowers
  <1> QED  BY <1>3 DEF Covered

LEMMA PlanFacts ==
    ASSUME Core, NEW c \in Call
    PROVE  /\ PlanRow(c) /\ (call[c].pc \notin Writing => todo[c] = <<>>)
           /\ RoleReadiness = IF Pull THEN <<Ready(FALSE)>> ELSE <<>>
  BY DEF Core, PlanOK, PlanRow, RoleReadiness

LEMMA AgentWaitCore ==
    ASSUME Base, First, Core, NEW c \in Call, AgentWait(c)
    PROVE  Core'
  <1>1. Moves(c)  BY AgentWaitMoves
  <1>0. call[c].pc = "idle" /\ outbox' = outbox /\ todo[c] = <<>> /\ WritesOK /\ told' = told /\ UNCHANGED <<spawned, rt>>
    BY PlanFacts DEF AgentWait, Admits, client, router, Writing, Base, TypeOK
  <1>2. CASE ~ state.membership \/ state.pending # None \/ state.waiter # None
    <2>1. Enter(c, "wait", None, "done") /\ UNCHANGED <<state, todo, wrote>>  BY <1>2 DEF AgentWait
    <2>2. /\ \A d \in Call : d # c => call'[d] = call[d]
          /\ call'[c].pc = "done" /\ call'[c].mail = None
      BY <2>1, EnterEffect, CallType, Literals, Constants
    <2>3. state.waiter # c  BY <1>0, Constants DEF Core, WaiterOK
    <2>4. Only(c)  BY <1>0, <2>1, <2>2, <2>3 DEF Only, PlanRow
    <2>5. Covered => Covered'  BY <1>0, <2>1, CoveredFrame, Constants
    <2> QED  BY <1>0, <1>1, <2>4, <2>5, OnlyQuietly
  <1>3. CASE ~ (~ state.membership \/ state.pending # None \/ state.waiter # None)
    <2>1. /\ Enter(c, "wait", None, "readying") /\ Will(c, <<Ready(TRUE)>>)
          /\ state' = [state EXCEPT !.waiter = c]
      BY <1>3 DEF AgentWait
    <2>2. /\ \A d \in Call : d # c => call'[d] = call[d]
          /\ call'[c].pc = "readying" /\ call'[c].mail = None
      BY <2>1, EnterEffect, CallType, Literals, Constants
    <2>3. state'.waiter = c /\ state'.pending = state.pending /\ state'.membership = state.membership
      BY <2>1, BackendEffect, CallType
    <2>4. /\ todo'[c] = <<Ready(TRUE)>> /\ wrote'[c] = "ok"
          /\ \A u \in Task : u # c => todo'[u] = todo[u] /\ wrote'[u] = wrote[u]
      BY <2>1, WillEffect, SingleType, CallType
    <2>5. PlanRow(c)'  BY <2>2, <2>4 DEF PlanRow, Plan, Writing
    <2>6. ev.pc = "handing" => ev.to # c  BY <1>0 DEF Base, KindOK, WaitOrDone, RowOK
    <2>7. Only(c)  BY <1>0, <1>3, <2>2, <2>3, <2>4, <2>5, <2>6 DEF Only
    <2>8. Covered'  BY <2>3, Constants DEF Covered
    <2> QED  BY <1>0, <1>1, <2>7, <2>8, OnlyQuietly
  <1> QED  BY <1>2, <1>3

LEMMA WaitReadiedCore ==
    ASSUME Base, First, Core, NEW c \in Call, WaitReadied(c)
    PROVE  Core'
  <1>1. Moves(c)  BY WaitReadiedMoves
  <1>0. call[c].pc = "readying" /\ outbox' = outbox /\ todo[c] = <<>> /\ WritesOK /\ told' = told /\ rt' = rt
    BY DEF WaitReadied, client, router, Base, TypeOK, Settled
  <1>2. /\ todo'[c] = <<>> /\ wrote'[c] = "ok"
        /\ \A u \in Task : u # c => todo'[u] = todo[u] /\ wrote'[u] = wrote[u]
    BY WillEffect, SingleType, CallType DEF WaitReadied
  <1>3. CASE wrote[c] = "ok"
    <2>1. Goto(c, "waiting") /\ UNCHANGED <<state, spawned>>  BY <1>3 DEF WaitReadied
    <2>2. /\ \A d \in Call : d # c => call'[d] = call[d]
          /\ call'[c].pc = "waiting" /\ call'[c].mail = call[c].mail
      BY <2>1, GotoEffect, CallType, Literals
    <2>3. PlanRow(c)'  BY <1>2, <2>2 DEF PlanRow
    <2>4. Only(c)  BY <1>0, <1>2, <2>1, <2>2, <2>3, Constants DEF Only, Core, WaiterOK
    <2>5. Covered => Covered'  BY <1>0, <1>2, <2>1, CoveredFrame, Constants
    <2> QED  BY <1>0, <1>1, <2>4, <2>5, OnlyQuietly
  <1>4. CASE wrote[c] # "ok"
    <2>1. Goto(c, "done") /\ DropGuard(c)  BY <1>4 DEF WaitReadied
    <2>2. /\ \A d \in Call : d # c => call'[d] = call[d]
          /\ call'[c].pc = "done" /\ call'[c].mail = None
      BY <2>1, GotoEffect, CallType, Literals
    <2>3. /\ state'.pending = state.pending /\ state'.membership = state.membership /\ state'.waiter # c
          /\ state.waiter = c => state'.waiter = None /\ spawned' # 0
          /\ state.waiter # c => state'.waiter = state.waiter /\ spawned' = spawned
      BY <2>1, DropGuardEffect, CallType
    <2>4. PlanRow(c)'  BY <1>2, <2>2 DEF PlanRow
    <2>5. Only(c)  BY <1>0, <1>2, <2>2, <2>3, <2>4 DEF Only
    <2>6. Covered => Covered'
      <3>1. CASE state.waiter = c  BY <2>3, <3>1 DEF Covered
      <3>2. CASE state.waiter # c  BY <1>0, <1>2, <2>3, <3>2, CoveredFrame, Constants
      <3> QED  BY <3>1, <3>2
    <2> QED  BY <1>0, <1>1, <2>5, <2>6, OnlyQuietly
  <1> QED  BY <1>3, <1>4

LEMMA WaitTimeoutCore ==
    ASSUME Base, First, Core, NEW c \in Call, WaitTimeout(c)
    PROVE  Core'
  <1>1. Moves(c)  BY WaitTimeoutMoves
  <1>0. /\ call[c].pc = "waiting" /\ outbox' = outbox /\ todo[c] = <<>> /\ WritesOK /\ told' = told
        /\ UNCHANGED <<spawned, rt>> /\ call[c].kind = "wait"
    BY PlanFacts DEF WaitTimeout, client, router, Base, TypeOK, Writing, KindOK, RowOK
  <1>2. CASE state.waiter = c
    <2>1. Goto(c, "writing") /\ Will(c, <<Ready(FALSE)>>) /\ state' = [state EXCEPT !.waiter = None]
      BY <1>2 DEF WaitTimeout
    <2>2. /\ \A d \in Call : d # c => call'[d] = call[d]
          /\ call'[c].pc = "writing" /\ call'[c].kind = call[c].kind /\ call'[c].mail = call[c].mail
      BY <2>1, GotoEffect, CallType, Literals
    <2>3. state'.waiter = None /\ state'.pending = state.pending /\ state'.membership = state.membership
      BY <2>1, BackendEffect, CallType
    <2>4. /\ todo'[c] = <<Ready(FALSE)>> /\ wrote'[c] = "ok"
          /\ \A u \in Task : u # c => todo'[u] = todo[u] /\ wrote'[u] = wrote[u]
      BY <2>1, WillEffect, SingleType, CallType
    <2>5. PlanRow(c)'  BY <1>0, <2>2, <2>4 DEF PlanRow, Plan, Writing
    <2>6. Only(c)  BY <1>0, <1>2, <2>2, <2>3, <2>4, <2>5, Constants DEF Only
    <2>7. Covered'  BY <2>4, LowersSingle, Constants
    <2> QED  BY <1>0, <1>1, <2>6, <2>7, OnlyQuietly
  <1>3. CASE state.waiter # c
    <2>1. Goto(c, "done") /\ UNCHANGED <<state, todo, wrote>>  BY <1>3 DEF WaitTimeout
    <2>2. /\ \A d \in Call : d # c => call'[d] = call[d]
          /\ call'[c].pc = "done" /\ call'[c].mail = None
      BY <2>1, GotoEffect, CallType, Literals
    <2>3. PlanRow(c)'  BY <1>0, <2>1, <2>2 DEF PlanRow
    <2>4. Only(c)  BY <1>0, <1>3, <2>1, <2>2, <2>3 DEF Only
    <2>5. Covered => Covered'  BY <1>0, <2>1, CoveredFrame, Constants
    <2> QED  BY <1>0, <1>1, <2>4, <2>5, OnlyQuietly
  <1> QED  BY <1>2, <1>3

LEMMA WaitReceivedCore ==
    ASSUME Base, First, Core, NEW c \in Call, WaitReceived(c)
    PROVE  Core'
  <1>1. Moves(c)  BY WaitReceivedMoves
  <1>0. /\ call[c].pc = "waiting" /\ outbox' = outbox /\ todo[c] = <<>> /\ WritesOK
        /\ told' = told \cup ({call[c].mail} \cap Request)
        /\ UNCHANGED <<spawned, rt, state, todo, wrote>> /\ call[c].mail # None
    BY PlanFacts DEF WaitReceived, client, router, Base, TypeOK, Writing
  <1>2. /\ \A d \in Call : d # c => call'[d] = call[d]
        /\ call'[c].pc = "done" /\ call'[c].mail = None
    BY GotoEffect, CallType, Literals DEF WaitReceived
  <1>3. PlanRow(c)'  BY <1>0, <1>2 DEF PlanRow
  <1>4. state.waiter # c  BY <1>0, Constants DEF Core, WaiterOK
  <1>5. Only(c)  BY <1>0, <1>2, <1>3, <1>4 DEF Only
  <1>6. Covered => Covered'  BY <1>0, CoveredFrame, Constants
  <1> QED  BY <1>0, <1>1, <1>5, <1>6, OnlyQuietly

LEMMA AgentReplyCore ==
    ASSUME Base, First, Core, NEW c \in Call, NEW r \in told, NEW expired \in BOOLEAN, AgentReply(c, r, expired)
    PROVE  Core'
  <1>1. Moves(c)  BY AgentReplyMoves
  <1>0. /\ call[c].pc = "idle" /\ outbox' = outbox /\ todo[c] = <<>> /\ WritesOK /\ told' = told
        /\ UNCHANGED <<spawned, rt, state>> /\ r \in Arg
    BY PlanFacts DEF AgentReply, Admits, client, router, Writing, Base, TypeOK, ServerOK
  <1>2. state.waiter # c  BY <1>0, Constants DEF Core, WaiterOK
  <1>3. CASE expired \/ state.pending # r \/ ~ state.membership
    <2>1. Enter(c, "reply", r, "done") /\ UNCHANGED <<todo, wrote>>  BY <1>3 DEF AgentReply
    <2>2. /\ \A d \in Call : d # c => call'[d] = call[d]
          /\ call'[c].pc = "done" /\ call'[c].mail = None
      BY <1>0, <2>1, EnterEffect, CallType, Literals
    <2>3. Only(c)  BY <1>0, <1>2, <2>1, <2>2 DEF Only, PlanRow
    <2>4. Covered => Covered'  BY <1>0, <2>1, CoveredFrame, Constants
    <2> QED  BY <1>0, <1>1, <2>3, <2>4, OnlyQuietly
  <1>4. CASE ~ (expired \/ state.pending # r \/ ~ state.membership)
    <2>1. Enter(c, "reply", r, "replying") /\ Will(c, <<Reply(r)>>)  BY <1>4 DEF AgentReply
    <2>2. /\ \A d \in Call : d # c => call'[d] = call[d]
          /\ call'[c].pc = "replying" /\ call'[c].mail = None /\ call'[c].req = r
      BY <1>0, <2>1, EnterEffect, CallType, Literals
    <2>3. /\ todo'[c] = <<Reply(r)>> /\ wrote'[c] = "ok"
          /\ \A u \in Task : u # c => todo'[u] = todo[u] /\ wrote'[u] = wrote[u]
      BY <1>0, <2>1, WillEffect, SingleType, CallType
    <2>4. PlanRow(c)'  BY <2>2, <2>3 DEF PlanRow, Plan, Writing
    <2>5. Only(c)  BY <1>0, <1>2, <2>2, <2>3, <2>4 DEF Only
    <2>6. Covered => Covered'  BY <1>0, <2>3, CoveredFrame, Constants
    <2> QED  BY <1>0, <1>1, <2>5, <2>6, OnlyQuietly
  <1> QED  BY <1>3, <1>4

LEMMA AgentRepliedCore ==
    ASSUME Base, First, Core, NEW c \in Call, AgentReplied(c)
    PROVE  Core'
  <1>1. Moves(c)  BY AgentRepliedMoves
  <1>0. /\ call[c].pc = "replying" /\ outbox' = outbox /\ todo[c] = <<>> /\ WritesOK /\ told' = told
        /\ UNCHANGED <<spawned, rt>> /\ call[c].req \in told /\ call[c].kind = "reply"
    BY DEF AgentReplied, client, router, Base, TypeOK, Settled, KindOK, RowOK
  <1>2. state.waiter # c  BY <1>0, Constants DEF Core, WaiterOK
  <1>3. CASE wrote[c] = "ok" /\ state.pending = call[c].req
    <2>1. Goto(c, "writing") /\ Will(c, RoleReadiness) /\ state' = [state EXCEPT !.pending = None]
      BY <1>3 DEF AgentReplied
    <2>2. /\ \A d \in Call : d # c => call'[d] = call[d]
          /\ call'[c].pc = "writing" /\ call'[c].kind = call[c].kind /\ call'[c].mail = call[c].mail
      BY <2>1, GotoEffect, CallType, Literals
    <2>3. state'.pending = None /\ state'.waiter = state.waiter /\ state'.membership = state.membership
      BY <2>1, BackendEffect, CallType, Constants
    <2>4. RoleReadiness = <<Ready(FALSE)>>  BY DEF First, RoleReadiness
    <2>5. /\ todo'[c] = <<Ready(FALSE)>> /\ wrote'[c] = "ok"
          /\ \A u \in Task : u # c => todo'[u] = todo[u] /\ wrote'[u] = wrote[u]
      BY <2>1, <2>4, WillEffect, SingleType, CallType
    <2>6. PlanRow(c)'  BY <1>0, <2>2, <2>5 DEF PlanRow, Plan, Writing
    <2>7. Only(c)  BY <1>0, <1>2, <1>3, <2>2, <2>3, <2>5, <2>6 DEF Only
    <2>8. Covered'  BY <2>5, LowersSingle, Constants
    <2> QED  BY <1>0, <1>1, <2>7, <2>8, OnlyQuietly
  <1>4. CASE ~ (wrote[c] = "ok" /\ state.pending = call[c].req)
    <2>1. Goto(c, "done") /\ Will(c, <<>>) /\ UNCHANGED state  BY <1>4 DEF AgentReplied
    <2>2. /\ \A d \in Call : d # c => call'[d] = call[d]
          /\ call'[c].pc = "done" /\ call'[c].mail = None
      BY <2>1, GotoEffect, CallType, Literals
    <2>3. /\ todo'[c] = <<>> /\ \A u \in Task : u # c => todo'[u] = todo[u] /\ wrote'[u] = wrote[u]
      BY <2>1, WillEffect, SingleType, CallType
    <2>4. PlanRow(c)'  BY <2>2, <2>3 DEF PlanRow
    <2>5. Only(c)  BY <1>0, <1>2, <2>1, <2>2, <2>3, <2>4 DEF Only
    <2>6. Covered => Covered'  BY <1>0, <2>1, <2>3, CoveredFrame, Constants
    <2> QED  BY <1>0, <1>1, <2>5, <2>6, OnlyQuietly
  <1> QED  BY <1>3, <1>4

LEMMA RoutedRequestCore ==
    ASSUME Base, First, Core, NEW c \in Call, RoutedRequest(c)
    PROVE  Core'
  <1>1. Moves(c)  BY RoutedRequestMoves
  <1>0. /\ call[c].pc = "idle" /\ outbox' = outbox /\ todo[c] = <<>> /\ WritesOK /\ told' = told
        /\ UNCHANGED <<spawned, rt, state>>
    BY PlanFacts DEF RoutedRequest, Admits, client, router, Writing, Base, TypeOK, ServerOK
  <1>2. state.waiter # c  BY <1>0, Constants DEF Core, WaiterOK
  <1>3. /\ \A d \in Call : d # c => call'[d] = call[d]
        /\ call'[c].pc = "sending" /\ call'[c].mail = None /\ call'[c].kind = "send"
    BY EnterEffect, CallType, Literals, Constants DEF RoutedRequest
  <1>4. PICK k \in Rpc : k = "send"  BY DEF Rpc
  <1>5. <<Cmd("send", c)>> \in Seq(Command)  BY <1>4, SingleType, CallType
  <1>6. /\ todo'[c] = <<Cmd("send", c)>> /\ wrote'[c] = "ok"
        /\ \A u \in Task : u # c => todo'[u] = todo[u] /\ wrote'[u] = wrote[u]
    BY <1>0, <1>5, WillEffect, CallType DEF RoutedRequest
  <1>7. PlanRow(c)'  BY <1>3, <1>6 DEF PlanRow, Plan, Writing
  <1>8. Only(c)  BY <1>0, <1>2, <1>3, <1>6, <1>7 DEF Only
  <1>9. Covered => Covered'  BY <1>0, <1>6, CoveredFrame, Constants
  <1> QED  BY <1>0, <1>1, <1>8, <1>9, OnlyQuietly

LEMMA WorkspaceCallCore ==
    ASSUME Base, First, Core, NEW c \in Call, NEW k \in {"join", "leave"}, WorkspaceCall(c, k)
    PROVE  Core'
  <1>1. Moves(c)  BY WorkspaceCallMoves
  <1>0. /\ call[c].pc = "idle" /\ outbox' = outbox /\ todo[c] = <<>> /\ WritesOK /\ told' = told
        /\ UNCHANGED <<spawned, rt, state>>
    BY PlanFacts DEF WorkspaceCall, Admits, client, router, Writing, Base, TypeOK, ServerOK
  <1>2. state.waiter # c  BY <1>0, Constants DEF Core, WaiterOK
  <1>3. /\ \A d \in Call : d # c => call'[d] = call[d]
        /\ call'[c].pc = "calling" /\ call'[c].mail = None /\ call'[c].kind = k
    BY EnterEffect, CallType, Literals, Constants DEF WorkspaceCall
  <1>4. k \in Rpc  BY DEF Rpc
  <1>5. <<Cmd(k, c)>> \in Seq(Command)  BY <1>4, SingleType, CallType
  <1>6. /\ todo'[c] = <<Cmd(k, c)>> /\ wrote'[c] = "ok"
        /\ \A u \in Task : u # c => todo'[u] = todo[u] /\ wrote'[u] = wrote[u]
    BY <1>0, <1>5, WillEffect, CallType DEF WorkspaceCall
  <1>7. PlanRow(c)'  BY <1>3, <1>6 DEF PlanRow, Plan, Writing
  <1>8. Only(c)  BY <1>0, <1>2, <1>3, <1>6, <1>7 DEF Only
  <1>9. Covered => Covered'  BY <1>0, <1>6, CoveredFrame, Constants
  <1> QED  BY <1>0, <1>1, <1>8, <1>9, OnlyQuietly

\* A call that ends, or goes on without a write, and touches nothing shared.
LEMMA EndsCore ==
    ASSUME Base, First, Core, NEW c \in Call, Moves(c), NEW pc \in {"accepted", "done"}, Goto(c, pc),
           outbox' = outbox, todo[c] = <<>>, call[c].pc \notin {"readying", "waiting"},
           UNCHANGED <<spawned, rt, told>>, state'.waiter = state.waiter, state'.pending = state.pending,
           state'.membership = state.membership,
           todo'[c] = <<>>, \A u \in Task : u # c => todo'[u] = todo[u] /\ wrote'[u] = wrote[u]
    PROVE  Core'
  <1>1. /\ \A d \in Call : d # c => call'[d] = call[d]
        /\ call'[c].pc = pc /\ call'[c].mail \in {call[c].mail, None}
    BY GotoEffect, CallType, Literals
  <1>2. state.waiter # c  BY Constants DEF Core, WaiterOK
  <1>3. PlanRow(c)'  BY <1>1 DEF PlanRow
  <1>4. Only(c)  BY <1>1, <1>2, <1>3 DEF Only
  <1>5. Covered => Covered'  BY CoveredFrame, Constants DEF Base, TypeOK
  <1> QED  BY <1>4, <1>5, OnlyQuietly

LEMMA RequestAcceptedCore ==
    ASSUME Base, First, Core, NEW c \in Call, RequestAccepted(c)
    PROVE  Core'
  <1>1. Moves(c)  BY RequestAcceptedMoves
  <1>2. /\ call[c].pc = "sending" /\ outbox' = outbox /\ todo[c] = <<>> /\ WritesOK
        /\ UNCHANGED <<spawned, rt, state, told>>
    BY DEF RequestAccepted, client, router, Base, TypeOK, Settled
  <1>3. todo'[c] = <<>> /\ \A u \in Task : u # c => todo'[u] = todo[u] /\ wrote'[u] = wrote[u]
    BY <1>2, SingleType, WillEffect, CallType DEF RequestAccepted
  <1>4. \E pc \in {"accepted", "done"} : Goto(c, pc)  BY DEF RequestAccepted
  <1> QED  BY <1>1, <1>2, <1>3, <1>4, EndsCore

LEMMA RequestEndsCore ==
    ASSUME Base, First, Core, NEW c \in Call, RequestEnds(c)
    PROVE  Core'
  <1>1. Moves(c)  BY RequestEndsMoves
  <1>2. /\ call[c].pc = "accepted" /\ outbox' = outbox /\ todo[c] = <<>>
        /\ UNCHANGED <<spawned, rt, state, told, todo, wrote>>
    BY PlanFacts DEF RequestEnds, client, router, Writing
  <1>3. \E pc \in {"accepted", "done"} : Goto(c, pc)  BY DEF RequestEnds
  <1> QED  BY <1>1, <1>2, <1>3, EndsCore

LEMMA WorkspaceAnsweredCore ==
    ASSUME Base, First, Core, NEW c \in Call, WorkspaceAnswered(c)
    PROVE  Core'
  <1>1. Moves(c)  BY WorkspaceAnsweredMoves
  <1>2. /\ call[c].pc = "calling" /\ outbox' = outbox /\ todo[c] = <<>> /\ WritesOK
        /\ UNCHANGED <<spawned, rt, told>>
    BY DEF WorkspaceAnswered, client, router, Base, TypeOK, Settled
  <1>3. ~ (wrote[c] = "ok" /\ call[c].kind = "leave")  BY <1>2, PlanFacts DEF PlanRow
  <1>4. CASE Goto(c, "done") /\ Will(c, <<>>) /\ UNCHANGED state
    <2>1. todo'[c] = <<>> /\ \A u \in Task : u # c => todo'[u] = todo[u] /\ wrote'[u] = wrote[u]
      BY <1>2, <1>4, SingleType, WillEffect, CallType
    <2> QED  BY <1>1, <1>2, <1>4, <2>1, EndsCore
  <1>5. CASE state' = [state EXCEPT !.membership = TRUE] /\ Goto(c, "done") /\ UNCHANGED <<todo, wrote>>
    <2>1. /\ state'.waiter = state.waiter /\ state'.pending = state.pending
          /\ state'.membership = state.membership
      BY <1>5, CallType DEF Backend, Core, Member
    <2> QED  BY <1>1, <1>2, <1>5, <2>1, EndsCore
  <1> QED  BY <1>3, <1>4, <1>5 DEF WorkspaceAnswered

LEMMA CallReturnsCore ==
    ASSUME Base, First, Core, NEW c \in Call, CallReturns(c)
    PROVE  Core'
  <1>1. Moves(c)  BY CallReturnsMoves
  <1>2. /\ call[c].pc = "writing" /\ outbox' = outbox /\ todo[c] = <<>> /\ WritesOK
        /\ UNCHANGED <<spawned, rt, state, told>>
    BY DEF CallReturns, client, router, Base, TypeOK, Settled
  <1>3. todo'[c] = <<>> /\ \A u \in Task : u # c => todo'[u] = todo[u] /\ wrote'[u] = wrote[u]
    BY <1>2, SingleType, WillEffect, CallType DEF CallReturns
  <1>4. \E pc \in {"accepted", "done"} : Goto(c, pc)  BY DEF CallReturns
  <1> QED  BY <1>1, <1>2, <1>3, <1>4, EndsCore

\* What is added to the queue of the client.
LEMMA QueuesAppend ==
    ASSUME Base, QueuesOK, Goes, NEW h \in Entry, outbox' = Append(outbox, h), wire' = wire,
           /\ h.cmd.kind \in Rpc => /\ h.by \in Call /\ h.cmd.arg = h.by
                                    /\ call'[h.by].kind = h.cmd.kind \/ call'[h.by].pc = "done"
           /\ h.cmd.kind \notin Rpc /\ h.by \in Call =>
                    call'[h.by].pc = "done" \/ call'[h.by].kind \in {"wait", "reply"}
    PROVE  QueuesOK'
  <1>1. PICK s \in Seq(Entry) : s = outbox  BY DEF Base, TypeOK, WritesOK
  <1>2. PICK q : q = Append(s, h)  OBVIOUS
  <1>3. \A i \in 1 .. Len(q) : (i \in 1 .. Len(s) /\ q[i] = s[i]) \/ q[i] = h  BY <1>2, QueueAppend
  <1>4. OwnOK(s) /\ outbox' = q  BY <1>1, <1>2 DEF QueuesOK
  <1>5. OwnOK(outbox)'
    <2>1. SUFFICES ASSUME NEW i \in 1 .. Len(q)
                   PROVE  /\ q[i].cmd.kind \in Rpc =>
                                /\ q[i].by \in Call /\ q[i].cmd.arg = q[i].by
                                /\ call'[q[i].by].kind = q[i].cmd.kind \/ call'[q[i].by].pc = "done"
                          /\ q[i].cmd.kind \notin Rpc /\ q[i].by \in Call =>
                                call'[q[i].by].pc = "done" \/ call'[q[i].by].kind \in {"wait", "reply"}
      BY <1>4 DEF OwnOK, OwnEntry
    <2>2. CASE i \in 1 .. Len(s) /\ q[i] = s[i]  BY <1>4, <2>2, OwnGoes
    <2>3. CASE q[i] = h  BY <2>3
    <2> QED  BY <1>3, <2>2, <2>3
  <1>6. OwnOK(wire)'
    <2>1. PICK w : w = wire  OBVIOUS
    <2>2. OwnOK(w) /\ wire' = w  BY <2>1 DEF QueuesOK
    <2> QED  BY <2>2, OwnGoes DEF OwnOK, OwnEntry
  <1> QED  BY <1>5, <1>6 DEF QueuesOK

\* Only a readiness changes what the router will take the agent for.
LEMMA RaisedAppend ==
    ASSUME Base, NEW h \in Entry, outbox' = Append(outbox, h), UNCHANGED <<wire, rt>>
    PROVE  /\ h.cmd.kind # "ready" => (Raised' => Raised)
           /\ h.cmd.kind = "unready" => ~ Raised'
  <1>1. PICK s \in Seq(Entry) : s = outbox  BY DEF Base, TypeOK, WritesOK
  <1>2. PICK w : w = wire  OBVIOUS
  <1>3. PICK q : q = Append(s, h)  OBVIOUS
  <1>4. Raised <=> Lifts(s) \/ (Clear(s) /\ (Lifts(w) \/ (Clear(w) /\ rt.stored)))
    BY <1>1, <1>2 DEF Raised
  <1>5. Raised' <=> Lifts(q) \/ (Clear(q) /\ (Lifts(w) \/ (Clear(w) /\ rt.stored)))
    BY <1>1, <1>2, <1>3 DEF Raised, Lifts, Clear
  <1>6. /\ Clear(q) <=> Clear(s) /\ h.cmd.kind # "unready"
        /\ Lifts(q) <=> h.cmd.kind = "ready" \/ (Lifts(s) /\ h.cmd.kind # "unready")
    BY <1>3, QueueAppend
  <1> QED  BY <1>4, <1>5, <1>6

LEMMA CancelCallCore ==
    ASSUME Base, First, Core, NEW c \in Call, CancelCall(c)
    PROVE  Core'
  <1>1. Moves(c)  BY CancelCallMoves
  <1>2. /\ \A d \in Call : d # c => call'[d] = call[d]
        /\ call'[c].pc = "done" /\ call'[c].mail = None
    BY GotoEffect, CallType, Literals DEF CancelCall
  <1>3. /\ state'.pending = state.pending /\ state'.membership = state.membership /\ state'.waiter # c
        /\ state.waiter = c => state'.waiter = None /\ spawned' # 0
        /\ state.waiter # c => state'.waiter = state.waiter /\ spawned' = spawned
    BY DropGuardEffect, CallType DEF CancelCall
  <1>4. todo'[c] = <<>> /\ \A u \in Task : u # c => todo'[u] = todo[u] /\ wrote'[u] = wrote[u]
    BY SingleType, WillEffect, CallType DEF CancelCall
  <1>5. todo[c] = <<>>
    BY PlanFacts DEF CancelCall, PlanRow, Writing
  <1>6. told' = told /\ UNCHANGED <<wire, rt>> /\ WritesOK  BY DEF CancelCall, router, Base, TypeOK
  <1>7. Only(c)  BY <1>2, <1>3, <1>4, <1>6 DEF Only, PlanRow
  <1>8. Covered => Covered'
    <2>1. CASE state.waiter = c  BY <1>3, <2>1 DEF Covered
    <2>2. CASE state.waiter # c  BY <1>3, <1>4, <1>5, <1>6, <2>2, CoveredFrame, Constants
    <2> QED  BY <2>1, <2>2
  <1>9. QueuesOK' /\ (Raised' => Raised)
    <2>1. CASE outbox' = outbox  BY <1>1, <1>6, <2>1, QueuesFrame, GoesHolds, RaisedFrame DEF Core
    <2>2. CASE outbox' = Append(outbox, [cmd |-> Cmd("cancel", c), by |-> None])
      <3>1. PICK k \in Rpc \cup {"cancel", "close"} : k = "cancel"  OBVIOUS
      <3>2. Cmd("cancel", c) \in Command /\ Cmd("cancel", c).kind = "cancel"
        BY <3>1, CmdType, CallType DEF Cmd
      <3>3. PICK h \in Entry : h = [cmd |-> Cmd("cancel", c), by |-> None]  BY <3>2 DEF Entry
      <3>4. h.cmd.kind = "cancel" /\ h.by \notin Call /\ h.cmd.kind \notin Rpc
        BY <3>2, <3>3, Constants DEF Rpc
      <3> QED  BY <1>1, <1>6, <2>2, <3>3, <3>4, QueuesAppend, RaisedAppend, GoesHolds DEF Core
    <2> QED  BY <2>1, <2>2 DEF CancelCall
  <1> QED  BY <1>1, <1>7, <1>8, <1>9, OnlyKeeps

-----------------------------------------------------------------------------
(* A write keeps Core.                                                        *)

LEMMA WriteCore ==
    ASSUME Base, Core, UNCHANGED <<state, call, ev, told, events, rt, asked>>,
           PlanOK', QueuesOK', TakenOK', Raised' => Covered'
    PROVE  Core'
  <1>1. Member' /\ WaiterOK' /\ AskedOK'  BY DEF Core, Member, WaiterOK, AskedOK
  <1> QED  BY <1>1 DEF Core

LEMMA SpawnedCore ==
    ASSUME Base, First, Core, SpawnedReadiness
    PROVE  Core'
  <1>1. PICK h \in Entry : h = [cmd |-> Ready(FALSE), by |-> None]  BY CmdType DEF Entry
  <1>2. h.cmd.kind = "unready" /\ h.by \notin Call /\ h.cmd.kind \notin Rpc  BY <1>1, CmdType, Constants DEF Rpc
  <1>3. /\ outbox' = Append(outbox, h)
        /\ UNCHANGED <<state, call, ev, told, todo, wrote, events, wire, rt, asked>>
    BY <1>1 DEF SpawnedReadiness, router
  <1>4. ~ Raised'  BY <1>2, <1>3, RaisedAppend
  <1>5. Goes  BY SpawnedServes, GoesHolds
  <1>6. QueuesOK'  BY <1>2, <1>3, <1>5, QueuesAppend DEF Core
  <1>7. PlanOK' /\ TakenOK'  BY <1>3 DEF Core, PlanOK, PlanRow, Plan, TakenOK, Taken
  <1> QED  BY <1>3, <1>4, <1>6, <1>7, WriteCore

LEMMA CallWritesCore ==
    ASSUME Base, First, Core, NEW c \in Call, WriteNext(c)
    PROVE  Core'
  <1>0. c \in Task /\ WritesOK /\ c # Events  BY Constants DEF Base, TypeOK
  <1>1. /\ todo[c] # <<>> /\ outbox' = Append(outbox, [cmd |-> Head(todo[c]), by |-> c])
        /\ todo'[c] = Tail(todo[c]) /\ wrote'[c] = "pending"
        /\ \A u \in Task : u # c => todo'[u] = todo[u] /\ wrote'[u] = wrote[u]
        /\ Head(todo[c]) \in Command
    BY <1>0, WriteEffect
  <1>2. UNCHANGED <<state, call, ev, told, events, wire, rt, asked, spawned>>
    BY DEF WriteNext, backend, router
  <1>3. call[c].pc \in Writing /\ todo[c] = <<Plan(c)>>  BY <1>1, PlanFacts DEF PlanRow
  <1>4. PICK x \in Command : x = Plan(c) /\ x = Head(todo[c])  BY <1>1, <1>3
  <1>5. todo[c] = <<x>> /\ todo'[c] = <<>>  BY <1>1, <1>3, <1>4
  <1>6. PICK h \in Entry : h = [cmd |-> x, by |-> c]  BY <1>0 DEF Entry
  <1>7. h.cmd = x /\ h.by = c /\ outbox' = Append(outbox, h)  BY <1>1, <1>4, <1>6
  <1>8. RowOK(c) /\ PlanRow(c)  BY PlanFacts DEF Base, KindOK
  <1>9. /\ x.kind = "ready" => call[c].pc = "readying"
        /\ x.kind \in Rpc => x.arg = c /\ x.kind = call[c].kind
        /\ x.kind \notin Rpc => call[c].kind \in {"wait", "reply"}
    <2>1. CASE call[c].pc = "readying"
      <3>1. x.kind = "ready" /\ call[c].kind = "wait"  BY <1>4, <1>8, <2>1, CmdType DEF Plan, RowOK
      <3> QED  BY <2>1, <3>1 DEF Rpc
    <2>2. CASE call[c].pc = "writing"
      <3>1. x.kind = "unready" /\ call[c].kind \in {"wait", "reply"}
        BY <1>4, <1>8, <2>2, CmdType DEF Plan, PlanRow
      <3> QED  BY <3>1 DEF Rpc
    <2>3. CASE call[c].pc = "replying"
      <3>1. x.kind = "reply" /\ call[c].kind = "reply"
        BY <1>4, <1>8, <2>3 DEF Plan, RowOK, Reply, Cmd
      <3> QED  BY <3>1 DEF Rpc
    <2>4. CASE call[c].pc \in {"calling", "sending"}
      <3>1. Plan(c) = Cmd(call[c].kind, c)  BY <2>4 DEF Plan
      <3>2. x.kind = call[c].kind /\ x.arg = c
        <4>1. PICK k : k = call[c].kind  OBVIOUS
        <4>2. Cmd(k, c).kind = k /\ Cmd(k, c).arg = c  BY DEF Cmd
        <4> QED  BY <1>4, <3>1, <4>1, <4>2
      <3>3. call[c].kind \in {"join", "leave", "send"}  BY <1>8, <2>4 DEF RowOK
      <3>4. x.kind # "ready" /\ x.kind \in Rpc  BY <3>2, <3>3 DEF Rpc
      <3> QED  BY <3>2, <3>4
    <2> QED  BY <1>3, <2>1, <2>2, <2>3, <2>4 DEF Writing
  <1>10. Goes  BY <1>0, WriteNextServes, GoesHolds
  <1>11. QueuesOK'  BY <1>2, <1>7, <1>9, <1>10, QueuesAppend DEF Core
  <1>12. PlanOK'
    <2>1. ASSUME NEW d \in Call  PROVE PlanRow(d)'
      <3>1. CASE d = c  BY <1>1, <1>2, <1>5, <1>8, <3>1 DEF PlanRow
      <3>2. CASE d # c
        <4>1. todo'[d] = todo[d] /\ wrote'[d] = wrote[d]  BY <1>1, <3>2, Constants
        <4>2. PlanRow(d)  BY PlanFacts
        <4> QED  BY <1>2, <4>1, <4>2 DEF PlanRow, Plan
      <3> QED  BY <3>1, <3>2
    <2>2. todo'[Events] = todo[Events]  BY <1>0, <1>1, Constants
    <2> QED  BY <1>2, <2>1, <2>2 DEF PlanOK, Core
  <1>13. TakenOK'
    <2>1. ASSUME NEW d \in Call  PROVE Taken(d)'
      <3>1. CASE d = c  BY <1>5, <3>1 DEF Taken
      <3>2. CASE d # c
        <4>1. todo'[d] = todo[d]  BY <1>1, <3>2, Constants
        <4>2. Taken(d)  BY DEF Core, TakenOK
        <4> QED  BY <1>2, <4>1, <4>2 DEF Taken
      <3> QED  BY <3>1, <3>2
    <2> QED  BY <2>1 DEF TakenOK
  <1>14. Raised' => Covered'
    <2>1. CASE x.kind = "ready"
      <3>1. Taken(c) /\ call[c].pc = "readying"  BY <1>9, <2>1 DEF Core, TakenOK
      <3> QED  BY <1>1, <1>2, <3>1, Constants DEF Taken, Covered
    <2>2. CASE x.kind = "unready"  BY <1>2, <1>7, <2>2, RaisedAppend
    <2>3. CASE x.kind \notin {"ready", "unready"}
      <3>1. Raised' => Raised  BY <1>2, <1>7, <2>3, RaisedAppend
      <3>2. ~ Lowers(c)
        <4>1. Len(todo[c]) = 1 /\ todo[c][1] = x  BY <1>5
        <4> QED  BY <2>3, <4>1 DEF Lowers
      <3>3. \A t \in Task : Lowers(t) => Lowers(t)'  BY <1>1, <3>2 DEF Lowers
      <3>4. Covered => Covered'  BY <1>2, <3>3 DEF Covered
      <3> QED  BY <3>1, <3>4 DEF Core
    <2> QED  BY <2>1, <2>2, <2>3
  <1> QED  BY <1>2, <1>11, <1>12, <1>13, <1>14, WriteCore

LEMMA EventWritesCore ==
    ASSUME Base, First, Core, WriteNext(Events)
    PROVE  Core'
  <1>0. Events \in Task /\ WritesOK /\ Events \notin Call  BY Constants DEF Base, TypeOK
  <1>1. /\ todo[Events] # <<>> /\ outbox' = Append(outbox, [cmd |-> Head(todo[Events]), by |-> Events])
        /\ todo'[Events] = Tail(todo[Events])
        /\ \A u \in Task : u # Events => todo'[u] = todo[u] /\ wrote'[u] = wrote[u]
        /\ Head(todo[Events]) \in Command
    BY <1>0, WriteEffect
  <1>2. UNCHANGED <<state, call, ev, told, events, wire, rt, asked, spawned>>
    BY DEF WriteNext, backend, router
  <1>3. PICK s \in Seq(Command) : s = todo[Events] /\ s # <<>>  BY <1>0, <1>1 DEF WritesOK
  <1>4. PICK q \in Seq(Command) : q = Tail(s) /\ q = todo'[Events]  BY <1>1, <1>3, TailEvents
  <1>5. /\ Len(s) \in Nat \ {0} /\ Len(q) = Len(s) - 1 /\ Head(s) = s[1]
        /\ \A i \in 1 .. Len(q) : i + 1 \in 1 .. Len(s) /\ q[i] = s[i + 1]
    BY <1>3, <1>4, TailEvents
  <1>6. PICK x \in Command : x = Head(s)  BY <1>1, <1>3
  <1>7. \A i \in 1 .. Len(s) : s[i].kind \in {"reply", "unready"}  BY <1>3 DEF Core, PlanOK
  <1>8. x.kind \in {"reply", "unready"} /\ x.kind \notin Rpc  BY <1>5, <1>6, <1>7 DEF Rpc
  <1>9. PICK h \in Entry : h = [cmd |-> x, by |-> Events]  BY <1>0 DEF Entry
  <1>10. h.cmd = x /\ h.by = Events /\ outbox' = Append(outbox, h)  BY <1>1, <1>3, <1>6, <1>9
  <1>11. Goes  BY <1>0, WriteNextServes, GoesHolds
  <1>12. QueuesOK'  BY <1>0, <1>2, <1>8, <1>10, <1>11, QueuesAppend DEF Core
  <1>13. \A d \in Call : todo'[d] = todo[d] /\ wrote'[d] = wrote[d]  BY <1>0, <1>1, Constants
  <1>14. PlanOK'
    <2>1. \A d \in Call : PlanRow(d)'  BY <1>2, <1>13 DEF Core, PlanOK, PlanRow, Plan
    <2>2. ev.pc # "idle"  BY <1>1 DEF Core, PlanOK
    <2>3. \A i \in 1 .. Len(q) : q[i].kind \in {"reply", "unready"}  BY <1>5, <1>7
    <2> QED  BY <1>2, <1>4, <2>1, <2>2, <2>3 DEF PlanOK, Core
  <1>15. TakenOK'  BY <1>2, <1>13 DEF Core, TakenOK, Taken
  <1>16. Raised' => Covered'
    <2>1. CASE x.kind = "unready"  BY <1>2, <1>10, <2>1, RaisedAppend
    <2>2. CASE x.kind = "reply"
      <3>1. Raised' => Raised  BY <1>2, <1>10, <2>2, RaisedAppend
      <3>2. Lowers(Events) => Lowers(Events)'
        <4>1. SUFFICES ASSUME NEW i \in 1 .. Len(s), s[i].kind = "unready"
                       PROVE  \E j \in 1 .. Len(q) : q[j].kind = "unready"
          BY <1>3, <1>4 DEF Lowers
        <4>2. i # 1  BY <1>5, <1>6, <2>2, <4>1
        <4>3. i - 1 \in 1 .. Len(q) /\ q[i - 1] = s[i]  BY <1>5, <4>1, <4>2
        <4> QED  BY <4>1, <4>3
      <3>3. \A t \in Task : Lowers(t) => Lowers(t)'  BY <1>1, <3>2 DEF Lowers
      <3>4. Covered => Covered'  BY <1>2, <3>3 DEF Covered
      <3> QED  BY <3>1, <3>4 DEF Core
    <2> QED  BY <1>8, <2>1, <2>2
  <1> QED  BY <1>2, <1>12, <1>14, <1>15, <1>16, WriteCore

-----------------------------------------------------------------------------
(* The handling of an event keeps Core.                                       *)

LEMMA EventShift ==
    ASSUME Base, events' = events \/ (events # <<>> /\ events' = Tail(events))
    PROVE  \E k \in {0, 1} :
             /\ \A i \in 1 .. Len(events') : i + k \in 1 .. Len(events) /\ events'[i] = events[i + k]
             /\ k = 1 <=> ~ (events' = events)
  <1>1. PICK s \in Seq(Notice) : s = events  BY RouterTypes
  <1>2. CASE events' = events
    <2>1. \A i \in 1 .. Len(s) : i + 0 \in 1 .. Len(s) /\ s[i] = s[i + 0]  OBVIOUS
    <2> QED  BY <1>1, <1>2, <2>1
  <1>3. CASE s # <<>> /\ events' = Tail(s)
    <2>1. /\ Len(s) \in Nat /\ Len(Tail(s)) = Len(s) - 1
          /\ \A i \in 1 .. Len(Tail(s)) : i + 1 \in 1 .. Len(s) /\ Tail(s)[i] = s[i + 1]
      BY <1>3, TailEvents
    <2>2. Tail(s) # s  BY <2>1
    <2> QED  BY <1>1, <1>3, <2>1, <2>2
  <1> QED  BY <1>1, <1>2, <1>3

LEMMA AskedShift ==
    ASSUME Base, Core, events' = events \/ (events # <<>> /\ events' = Tail(events)), UNCHANGED <<asked, told>>,
           state'.pending \in asked \cup {None},
           \A d \in Call : call'[d].mail \in asked \cup {None, "refused", "result"},
           ev'.pc = "handing" => ev'.req \in asked,
           \A i \in 1 .. Len(events') : events'[i].type = "deliver" =>
               /\ \A d \in Call : call'[d].mail # events'[i].arg
               /\ ev'.pc = "handing" => ev'.req # events'[i].arg
    PROVE  AskedOK'
  <1>1. PICK k \in {0, 1} : \A i \in 1 .. Len(events') : i + k \in 1 .. Len(events) /\ events'[i] = events[i + k]
    BY EventShift
  <1>2. ASSUME NEW i \in 1 .. Len(events'), events'[i].type = "deliver"
        PROVE  /\ events'[i].arg \in asked /\ events'[i].arg \notin told
               /\ \A j \in 1 .. Len(events') :
                     events'[j].type = "deliver" /\ events'[j].arg = events'[i].arg => j = i
    <2>1. i + k \in 1 .. Len(events) /\ events'[i] = events[i + k]  BY <1>1
    <2>2. events[i + k].arg \in asked /\ events[i + k].arg \notin told  BY <1>2, <2>1 DEF Core, AskedOK
    <2>3. ASSUME NEW j \in 1 .. Len(events'), events'[j].type = "deliver", events'[j].arg = events'[i].arg
          PROVE  j = i
      <3>1. j + k \in 1 .. Len(events) /\ events'[j] = events[j + k]  BY <1>1
      <3>2. j + k = i + k  BY <1>2, <2>1, <2>3, <3>1 DEF Core, AskedOK
      <3> QED  BY <3>2
    <2> QED  BY <2>1, <2>2, <2>3
  <1> QED  BY <1>2 DEF AskedOK, Core

LEMMA EventCore ==
    ASSUME Base, First, Core, Serves, outbox' = outbox,
           state'.membership = state.membership,
           \A u \in Task : u # Events => todo'[u] = todo[u] /\ wrote'[u] = wrote[u],
           ev'.pc = "idle" => todo'[Events] = <<>>, ev'.pc # "notifying",
           \A i \in 1 .. Len(todo'[Events]) : todo'[Events][i].kind \in {"reply", "unready"},
           WaiterOK', AskedOK', TakenOK', Covered => Covered'
    PROVE  Core'
  <1>1. UNCHANGED <<wire, rt, asked>>
        /\ \A d \in Call : call'[d].pc = call[d].pc /\ call'[d].kind = call[d].kind /\ call'[d].req = call[d].req
    BY DEF Serves, router
  <1>2. QueuesOK' /\ (Raised' => Raised)  BY <1>1, QueuesFrame, RaisedFrame, GoesHolds DEF Core
  <1>3. PICK k \in {0, 1} : \A i \in 1 .. Len(events') : i + k \in 1 .. Len(events) /\ events'[i] = events[i + k]
    BY EventShift DEF Serves
  <1>4. Member'  BY <1>1, <1>3 DEF Core, Member
  <1>5. \A d \in Call : todo'[d] = todo[d] /\ wrote'[d] = wrote[d]  BY Constants
  <1>6. PlanOK'
    <2>1. ASSUME NEW d \in Call  PROVE PlanRow(d)'
      <3>1. PlanRow(d)  BY PlanFacts
      <3> QED  BY <1>1, <1>5, <3>1 DEF PlanRow, Plan
    <2> QED  BY <2>1 DEF PlanOK
  <1> QED  BY <1>2, <1>4, <1>6 DEF Core

\* The writes of the event task.
LEMMA EventWill ==
    ASSUME Base, NEW cmds \in Seq(Command), Will(Events, cmds)
    PROVE  /\ todo'[Events] = cmds
           /\ \A u \in Task : u # Events => todo'[u] = todo[u] /\ wrote'[u] = wrote[u]
           /\ \A d \in Call : todo'[d] = todo[d]
  <1>1. WritesOK  BY DEF Base, TypeOK
  <1> QED  BY <1>1, WillEffect, Constants

LEMMA FirstReadiness ==
    ASSUME First
    PROVE  /\ RoleReadiness = <<Ready(FALSE)>> /\ Pull /\ role # "omp"
           /\ \A s : s = <<Ready(FALSE)>> => \A i \in 1 .. Len(s) : s[i].kind \in {"reply", "unready"}
  <1>1. RoleReadiness = <<Ready(FALSE)>> /\ Pull /\ role # "omp"  BY DEF First, RoleReadiness, Pull
  <1>2. PICK x \in Command : x = Ready(FALSE) /\ x.kind = "unready"  BY CmdType
  <1>3. Len(<<x>>) = 1 /\ <<x>>[1] = x  OBVIOUS
  <1>4. \A i \in 1 .. Len(<<x>>) : <<x>>[i].kind \in {"reply", "unready"}
    <2>1. \A i \in 1 .. Len(<<x>>) : i = 1  BY <1>3
    <2> QED  BY <1>2, <1>3, <2>1, Zenon
  <1> QED  BY <1>1, <1>2, <1>4

LEMMA ReplyKinds ==
    ASSUME First, NEW r \in Arg
    PROVE  /\ \A s : s = <<Reply(r)>> => \A i \in 1 .. Len(s) : s[i].kind \in {"reply", "unready"}
           /\ \A s : s = <<Reply(r)>> \o RoleReadiness =>
                 /\ \A i \in 1 .. Len(s) : s[i].kind \in {"reply", "unready"}
                 /\ \E i \in 1 .. Len(s) : s[i].kind = "unready"
  <1>1. PICK x \in Command : x = Reply(r) /\ x.kind = "reply"  BY CmdType
  <1>2. PICK y \in Command : y = Ready(FALSE) /\ y.kind = "unready"  BY CmdType
  <1>0. PICK z \in Seq(Command) : z = <<x>>
    <2>1. <<x>> \in Seq(Command)  OBVIOUS
    <2> QED  BY <2>1
  <1>11. PICK w \in Seq(Command) : w = <<y>>
    <2>1. <<y>> \in Seq(Command)  OBVIOUS
    <2> QED  BY <2>1
  <1>3. z = <<x>> /\ Len(z) = 1 /\ z[1] = x  BY <1>0
  <1>4. ASSUME NEW i \in 1 .. Len(z)  PROVE z[i].kind \in {"reply", "unready"}
    <2>1. i = 1  BY <1>3
    <2>2. z[i] = x  BY <1>3, <2>1
    <2>3. x.kind \in {"reply", "unready"}  BY <1>1
    <2> QED  BY <2>2, <2>3, Zenon
  <1>5. PICK q \in Seq(Command) : q = z \o w
    <2>1. z \o w \in Seq(Command)  OBVIOUS
    <2> QED  BY <2>1
  <1>6. q = <<Reply(r)>> \o RoleReadiness  BY <1>0, <1>1, <1>2, <1>5, <1>11, FirstReadiness
  <1>7. Len(q) = 2 /\ q[1] = x /\ q[2] = y
    <2>1. Len(w) = 1 /\ w[1] = y  BY <1>11
    <2>2. /\ Len(q) = Len(z) + Len(w)
          /\ \A i \in 1 .. Len(z) + Len(w) : q[i] = IF i <= Len(z) THEN z[i] ELSE w[i - Len(z)]
      BY <1>5
    <2>3. Len(z) = 1 /\ z[1] = x  BY <1>3
    <2>4. Len(q) = 2 /\ q[1] = z[1] /\ q[2] = w[1]
      <3>1. 1 \in 1 .. Len(z) + Len(w) /\ 2 \in 1 .. Len(z) + Len(w)  BY <2>1, <2>3
      <3>2. q[1] = z[1] /\ q[2] = w[2 - 1]  BY <2>1, <2>2, <2>3, <3>1
      <3> QED  BY <2>1, <2>2, <2>3, <3>2
    <2> QED  BY <2>1, <2>3, <2>4, Zenon
  <1>8. \A i \in 1 .. Len(q) : i = 1 \/ i = 2  BY <1>7
  <1>9. \A i \in 1 .. Len(q) : q[i].kind \in {"reply", "unready"}  BY <1>1, <1>2, <1>7, <1>8, Zenon
  <1>10. \E i \in 1 .. Len(q) : q[i].kind = "unready"
    <2>1. q[2].kind = "unready"  BY <1>2, <1>7, Zenon
    <2>2. 2 \in 1 .. Len(q)  BY <1>7
    <2> QED  BY <2>1, <2>2, Zenon
  <1> QED  BY <1>1, <1>3, <1>4, <1>6, <1>9, <1>10

LEMMA HandleDeliveryCore ==
    ASSUME Base, First, Core, HandleDelivery
    PROVE  Core'
  <1>0. Serves  BY HandleDeliveryServes
  <1>1. Handles("deliver") /\ UNCHANGED <<role, results, call, spawned, told, client, router>>
    BY DEF HandleDelivery
  <1>2. /\ events # <<>> /\ events' = Tail(events) /\ Head(events) = events[1] /\ 1 \in 1 .. Len(events)
        /\ Head(events).type = "deliver" /\ ev.pc = "idle"
    BY <1>1, HandlesEffect
  <1>3. PICK r \in Arg : r = events[1].arg  BY <1>1, <1>2, HandlesEffect
  <1>4. /\ r \in asked /\ r \notin told /\ \A c \in Call : call[c].mail # r
        /\ \A j \in 1 .. Len(events) : events[j].type = "deliver" /\ events[j].arg = r => j = 1
    BY <1>2, <1>3 DEF Core, AskedOK
  <1>5. outbox' = outbox /\ asked' = asked /\ rt' = rt /\ todo[Events] = <<>> /\ r # None /\ Pull /\ role # "omp"
    BY <1>1, <1>2, <1>4, Constants, RouterTypes, FirstReadiness DEF client, router, Core, PlanOK
  <1>6. state \in Backend /\ WritesOK  BY DEF Base, TypeOK, ServerOK
  <1>7. ASSUME NEW i \in 1 .. Len(events'), events'[i].type = "deliver"
        PROVE  /\ \A d \in Call : call[d].mail # events'[i].arg
               /\ events'[i].arg # r
    <2>1. PICK k \in {0, 1} : /\ \A j \in 1 .. Len(events') : j + k \in 1 .. Len(events) /\ events'[j] = events[j + k]
                              /\ k = 1 <=> ~ (events' = events)
      BY <1>2, EventShift
    <2>2. k = 1
      <3>1. Len(events) \in Nat \ {0} /\ Len(Tail(events)) = Len(events) - 1  BY <1>2, TailEvents, RouterTypes
      <3>2. Len(events') = Len(events) - 1  BY <1>2, <3>1
      <3>3. events' # events  BY <3>1, <3>2
      <3> QED  BY <2>1, <3>3
    <2>3. i + 1 \in 1 .. Len(events) /\ events'[i] = events[i + 1] /\ i + 1 # 1  BY <2>1, <2>2
    <2> QED  BY <1>4, <1>7, <2>3 DEF Core, AskedOK
  <1>8. CASE /\ state' = [state EXCEPT !.pending = r, !.waiter = None]
             /\ ev' = [pc |-> IF Pull THEN "handing" ELSE "notifying", req |-> r, to |-> state.waiter]
             /\ Will(Events, RoleReadiness) /\ state.waiter # None /\ state.pending = None
    <2>1. /\ state'.waiter = None /\ state'.pending = r /\ state'.membership = state.membership
          /\ state.waiter \in Call \cup {None}
      <3>1. PICK w \in Call \cup {None} : w = None  OBVIOUS
      <3>2. state' = [state EXCEPT !.pending = r, !.waiter = w]  BY <1>8, <3>1
      <3>3. state'.waiter = w /\ state'.pending = r /\ state'.membership = state.membership
        BY <1>6, <3>2, BackendEffect
      <3> QED  BY <1>6, <3>1, <3>3, BackendEffect
    <2>2. ev'.pc = "handing" /\ ev'.req = r /\ ev'.to = state.waiter  BY <1>5, <1>8
    <2>3. /\ todo'[Events] = <<Ready(FALSE)>>
          /\ \A u \in Task : u # Events => todo'[u] = todo[u] /\ wrote'[u] = wrote[u]
          /\ \A d \in Call : todo'[d] = todo[d]
      BY <1>8, EventWill, CmdType, FirstReadiness
    <2>4. \A i \in 1 .. Len(todo'[Events]) : todo'[Events][i].kind \in {"reply", "unready"}
      BY <2>3, FirstReadiness
    <2>5. WaiterOK'  BY <1>8, <2>1, <2>2 DEF WaiterOK
    <2>6. AskedOK'
      BY <1>1, <1>2, <1>4, <1>5, <1>7, <2>1, <2>2, AskedShift DEF Core, AskedOK
    <2>7. TakenOK'
      <3>1. SUFFICES ASSUME NEW c \in Call, call[c].pc = "readying", todo[c] # <<>>, ~ rt.canceling
                     PROVE  state.waiter = c
        BY <1>1, <1>4, <1>5, <2>1, <2>2, <2>3 DEF TakenOK, Taken
      <3>2. Taken(c)  BY DEF Core, TakenOK
      <3> QED  BY <1>8, <3>1, <3>2 DEF Taken
    <2>8. Covered'  BY <1>5, <2>1 DEF Covered
    <2> QED  BY <1>0, <1>5, <2>1, <2>2, <2>3, <2>4, <2>5, <2>6, <2>7, <2>8, EventCore
  <1>9. CASE ev' = [Idle EXCEPT !.pc = "writing"] /\ Will(Events, <<Reply(r)>>) /\ UNCHANGED state
    <2>1. ev'.pc = "writing"  BY <1>9, IdleType
    <2>2. /\ todo'[Events] = <<Reply(r)>>
          /\ \A u \in Task : u # Events => todo'[u] = todo[u] /\ wrote'[u] = wrote[u]
          /\ \A d \in Call : todo'[d] = todo[d]
      BY <1>9, EventWill, SingleType
    <2>3. \A i \in 1 .. Len(todo'[Events]) : todo'[Events][i].kind \in {"reply", "unready"}
      BY <2>2, ReplyKinds
    <2>4. WaiterOK'  BY <1>1, <1>9, <2>1 DEF WaiterOK, Core
    <2>5. AskedOK'
      BY <1>1, <1>2, <1>5, <1>7, <1>9, <2>1, AskedShift DEF Core, AskedOK
    <2>6. TakenOK'  BY <1>1, <1>5, <1>9, <2>1, <2>2 DEF Core, TakenOK, Taken
    <2>7. Covered => Covered'  BY <1>1, <1>5, <1>6, <1>9, <2>2, CoveredFrame, Constants
    <2> QED  BY <1>0, <1>5, <1>9, <2>1, <2>2, <2>3, <2>4, <2>5, <2>6, <2>7, EventCore
  <1> QED  BY <1>2, <1>3, <1>5, <1>8, <1>9 DEF HandleDelivery

LEMMA HandOverCore ==
    ASSUME Base, First, Core, HandOver
    PROVE  Core'
  <1>0. Serves  BY HandOverServes
  <1>1. /\ ev.pc = "handing" /\ ev.to \in Call /\ ev.req \in Arg /\ ev.req \in asked /\ todo[Events] = <<>>
        /\ UNCHANGED <<spawned, told, rt, outbox, events, asked>>
    BY DEF HandOver, Base, KindOK, TypeOK, ServerOK, Handling, Settled, client, router, Core, AskedOK
  <1>2. call \in [Call -> CallRow] /\ WritesOK /\ ev.req # None
    BY <1>1, Constants, RouterTypes DEF Base, TypeOK, ServerOK
  <1>3. \A i \in 1 .. Len(events) : events[i].type = "deliver" =>
            (\A d \in Call : call[d].mail # events[i].arg) /\ ev.req # events[i].arg
    BY <1>1 DEF Core, AskedOK
  <1>4. CASE Live(ev.to)
    <2>1. call' = Answered({ev.to}, ev.req) /\ ev' = Idle /\ UNCHANGED <<state, todo, wrote>>
      BY <1>4 DEF HandOver
    <2>2. \A d \in Call :
            /\ call'[d].pc = call[d].pc
            /\ d = ev.to => call'[d].mail = ev.req
            /\ d # ev.to => call'[d].mail = call[d].mail
      BY <1>1, <1>2, <1>4, <2>1, AnsweredEffect DEF Live
    <2>3. ev'.pc = "idle"  BY <2>1, IdleType
    <2>4. WaiterOK'
      <3>1. state.waiter # ev.to  BY <1>1 DEF Core, WaiterOK
      <3>2. state.waiter \in Call \cup {None}  BY DEF Base, TypeOK, ServerOK, Backend
      <3> QED  BY <2>1, <2>2, <2>3, <3>1, <3>2 DEF WaiterOK, Core
    <2>5. AskedOK'
      <3>1. \A d \in Call : call'[d].mail \in asked \cup {None, "refused", "result"}
        BY <1>1, <2>2 DEF Core, AskedOK
      <3>2. \A i \in 1 .. Len(events') : events'[i].type = "deliver" =>
               /\ \A d \in Call : call'[d].mail # events'[i].arg
               /\ ev'.pc = "handing" => ev'.req # events'[i].arg
        BY <1>1, <1>3, <2>2, <2>3
      <3>3. state'.pending \in asked \cup {None}  BY <2>1 DEF Core, AskedOK
      <3> QED  BY <1>1, <2>3, <3>1, <3>2, <3>3, AskedShift
    <2>6. TakenOK'
      <3>1. ASSUME NEW c \in Call  PROVE Taken(c)'
        <4>1. Taken(c)  BY DEF Core, TakenOK
        <4> QED  BY <1>1, <2>1, <2>2, <2>3, <4>1 DEF Taken
      <3> QED  BY <3>1 DEF TakenOK
    <2>7. Covered => Covered'  BY <1>1, <2>1, <1>2, CoveredFrame, Constants
    <2>8. /\ ev'.pc # "notifying" /\ (ev'.pc = "idle" => todo'[Events] = <<>>)
          /\ \A i \in 1 .. Len(todo'[Events]) : todo'[Events][i].kind \in {"reply", "unready"}
      BY <1>1, <2>1, <2>3
    <2> QED  BY <1>0, <1>1, <2>1, <2>4, <2>5, <2>6, <2>7, <2>8, EventCore
  <1>5. CASE ~ Live(ev.to)
    <2>1. RejectPending /\ UNCHANGED call  BY <1>5 DEF HandOver
    <2>2. /\ state'.waiter = state.waiter /\ state'.membership = state.membership
          /\ state'.pending = IF state.pending = ev.req THEN None ELSE state.pending
          /\ ev'.pc = "writing" /\ todo'[Events] = <<Reply(ev.req)>> \o RoleReadiness
          /\ \A u \in Task : u # Events => todo'[u] = todo[u] /\ wrote'[u] = wrote[u]
      BY <1>1, <2>1, RejectEffect
    <2>3. /\ \A i \in 1 .. Len(todo'[Events]) : todo'[Events][i].kind \in {"reply", "unready"}
          /\ \E i \in 1 .. Len(todo'[Events]) : todo'[Events][i].kind = "unready"
      BY <1>1, <2>2, ReplyKinds
    <2>4. Covered'
      <3>1. Lowers(Events)'  BY <2>3 DEF Lowers
      <3> QED  BY <3>1, Constants DEF Covered
    <2>5. WaiterOK'  BY <2>1, <2>2 DEF WaiterOK, Core
    <2>6. AskedOK'
      <3>1. state'.pending \in asked \cup {None}  BY <2>2 DEF Core, AskedOK
      <3>2. \A d \in Call : call'[d].mail \in asked \cup {None, "refused", "result"}  BY <2>1 DEF Core, AskedOK
      <3> QED  BY <1>1, <1>3, <2>1, <2>2, <3>1, <3>2, AskedShift
    <2>7. TakenOK'
      <3>1. ASSUME NEW c \in Call  PROVE Taken(c)'
        <4>1. Taken(c)  BY DEF Core, TakenOK
        <4>2. todo'[c] = todo[c]  BY <2>2, Constants
        <4>3. call[c].pc = "readying" => c # ev.to  BY <1>5 DEF Live
        <4> QED  BY <1>1, <1>2, <2>1, <2>2, <4>1, <4>2, <4>3 DEF Taken
      <3> QED  BY <3>1 DEF TakenOK
    <2> QED  BY <1>0, <1>1, <2>2, <2>3, <2>4, <2>5, <2>6, <2>7, EventCore
  <1> QED  BY <1>4, <1>5

LEMMA HandleWorkCancelledCore ==
    ASSUME Base, First, Core, NEW fenced \in BOOLEAN, HandleWorkCancelled(fenced)
    PROVE  Core'
  <1>0. Serves  BY HandleWorkCancelledServes
  <1>1. PICK type \in {"cancel", "cancel_fenced"} : type = IF fenced THEN "cancel_fenced" ELSE "cancel"  OBVIOUS
  <1>2. Handles(type) /\ UNCHANGED <<role, results, call, spawned, told, client, router>>
    BY <1>1 DEF HandleWorkCancelled
  <1>3. /\ events # <<>> /\ events' = Tail(events) /\ events[1].type = type /\ 1 \in 1 .. Len(events) /\ ev.pc = "idle"
    BY <1>2, HandlesEffect
  <1>4. rt.canceling /\ todo[Events] = <<>>  BY <1>3 DEF Core, Member, PlanOK
  <1>5. outbox' = outbox /\ asked' = asked /\ rt' = rt /\ WritesOK /\ state \in Backend
    BY <1>2 DEF client, router, Base, TypeOK, ServerOK
  <1>6. TakenOK' /\ Covered'  BY <1>4, <1>5 DEF TakenOK, Taken, Covered
  <1>7. \A i \in 1 .. Len(events') : events'[i].type = "deliver" => \A d \in Call : call[d].mail # events'[i].arg
    <2>1. PICK k \in {0, 1} : \A j \in 1 .. Len(events') : j + k \in 1 .. Len(events) /\ events'[j] = events[j + k]
      BY <1>3, EventShift
    <2> QED  BY <2>1 DEF Core, AskedOK
  <1>8. CASE /\ state' = [state EXCEPT !.pending = None]
             /\ ev' = [Idle EXCEPT !.pc = "writing"] /\ Will(Events, RoleReadiness)
    <2>1. /\ state'.waiter = state.waiter /\ state'.pending = None /\ state'.membership = state.membership
      BY <1>5, <1>8, BackendEffect, Constants
    <2>2. ev'.pc = "writing"  BY <1>8, IdleType
    <2>3. /\ todo'[Events] = <<Ready(FALSE)>>
          /\ \A u \in Task : u # Events => todo'[u] = todo[u] /\ wrote'[u] = wrote[u]
      BY <1>8, EventWill, CmdType, FirstReadiness
    <2>4. \A i \in 1 .. Len(todo'[Events]) : todo'[Events][i].kind \in {"reply", "unready"}
      BY <2>3, FirstReadiness
    <2>5. WaiterOK'  BY <1>2, <2>1, <2>2 DEF WaiterOK, Core
    <2>6. AskedOK'  BY <1>2, <1>3, <1>5, <1>7, <2>1, <2>2, AskedShift DEF Core, AskedOK
    <2> QED  BY <1>0, <1>5, <1>6, <2>1, <2>2, <2>3, <2>4, <2>5, <2>6, EventCore
  <1>9. CASE UNCHANGED <<state, ev, todo, wrote>>
    <2>1. WaiterOK'  BY <1>2, <1>9 DEF WaiterOK, Core
    <2>2. AskedOK'  BY <1>2, <1>3, <1>5, <1>7, <1>9, AskedShift DEF Core, AskedOK
    <2> QED  BY <1>0, <1>3, <1>4, <1>5, <1>6, <1>9, <2>1, <2>2, EventCore
  <1> QED  BY <1>8, <1>9 DEF HandleWorkCancelled

LEMMA HandleResultCore ==
    ASSUME Base, First, Core, HandleResult
    PROVE  Core'
  <1>0. Serves  BY HandleResultServes
  <1>1. Handles("result") /\ UNCHANGED <<role, state, ev, spawned, told, todo, wrote, client, router>>
    BY DEF HandleResult
  <1>2. events # <<>> /\ events' = Tail(events) /\ ev.pc = "idle"  BY <1>1, HandlesEffect
  <1>3. /\ \A d \in Call : call'[d].mail = call[d].mail \/ (d \in results /\ call'[d].mail = "result")
        /\ \A d \in Call : call'[d].pc = call[d].pc
    BY <1>0, HandleResultServes DEF Serves
  <1>4. outbox' = outbox /\ asked' = asked /\ rt' = rt /\ WritesOK /\ todo[Events] = <<>>
    BY <1>1, <1>2 DEF client, router, Base, TypeOK, Core, PlanOK
  <1>5. "result" \notin asked /\ state.waiter \in Call \cup {None}
    BY Constants, RouterTypes DEF Base, TypeOK, ServerOK, Backend
  <1>6. WaiterOK'
    <2>1. state.waiter # None => state.waiter \notin results
      BY <1>5 DEF Core, WaiterOK, Base, KindOK, RowOK
    <2> QED  BY <1>1, <1>3, <1>5, <2>1 DEF WaiterOK, Core
  <1>7. AskedOK'
    <2>1. PICK k \in {0, 1} : \A j \in 1 .. Len(events') : j + k \in 1 .. Len(events) /\ events'[j] = events[j + k]
      BY <1>2, EventShift
    <2>2. \A i \in 1 .. Len(events') : events'[i].type = "deliver" =>
            \A d \in Call : call'[d].mail # events'[i].arg
      BY <1>3, <1>5, <2>1 DEF Core, AskedOK
    <2>3. \A d \in Call : call'[d].mail \in asked \cup {None, "refused", "result"}  BY <1>3 DEF Core, AskedOK
    <2> QED  BY <1>1, <1>2, <1>4, <2>2, <2>3, AskedShift DEF Core, AskedOK
  <1>8. TakenOK'
    <2>1. ASSUME NEW c \in Call  PROVE Taken(c)'
      <3>1. Taken(c)  BY DEF Core, TakenOK
      <3>2. state.pending \in asked \cup {None}  BY DEF Core, AskedOK
      <3>3. state.pending # None => \A d \in Call : call'[d].mail = state.pending => call[d].mail = state.pending
        BY <1>3, <1>5, <3>2
      <3> QED  BY <1>1, <1>3, <1>4, <3>1, <3>3 DEF Taken
    <2> QED  BY <2>1 DEF TakenOK
  <1>9. Covered => Covered'  BY <1>1, <1>4, CoveredFrame, Constants
  <1> QED  BY <1>0, <1>1, <1>2, <1>4, <1>6, <1>7, <1>8, <1>9, EventCore

LEMMA EventHandledCore ==
    ASSUME Base, First, Core, EventHandled
    PROVE  Core'
  <1>0. Serves  BY EventHandledServes
  <1>1. /\ UNCHANGED <<state, call, spawned, told, outbox, events, rt, asked>> /\ ev' = Idle
        /\ todo[Events] = <<>> /\ Will(Events, <<>>) /\ WritesOK
    BY DEF EventHandled, Settled, client, router, Base, TypeOK
  <1>2. todo'[Events] = <<>> /\ \A u \in Task : u # Events => todo'[u] = todo[u] /\ wrote'[u] = wrote[u]
    BY <1>1, EventWill, SingleType
  <1>3. ev'.pc = "idle"  BY <1>1, IdleType
  <1>4. \A d \in Call : todo'[d] = todo[d]  BY <1>2, Constants
  <1>5. WaiterOK' /\ TakenOK'  BY <1>1, <1>3, <1>4 DEF Core, WaiterOK, TakenOK, Taken
  <1>6. AskedOK'  BY <1>1, <1>3, AskedShift DEF Core, AskedOK
  <1>7. Covered => Covered'  BY <1>1, <1>2, CoveredFrame, Constants
  <1> QED  BY <1>0, <1>1, <1>2, <1>3, <1>5, <1>6, <1>7, EventCore

-----------------------------------------------------------------------------
(* The steps of the client and of the router keep Core.                       *)

\* The last answer of a task does not take a leave for granted.
AnswersOK ==
    \A c \in Call : \/ wrote'[c] \in {wrote[c], "err"}
                    \/ wrote'[c] = "ok" /\ ~ (call[c].pc = "calling" /\ call[c].kind = "leave")

\* A connection row that only goes on.
RowGoes == rt'.joined = rt.joined /\ (rt.canceling => rt'.canceling)

LEMMA ConveyCore ==
    ASSUME Base, First, Core, Conveys, AnswersOK, RowGoes, QueuesOK', Member', AskedOK',
           (Raised' => Raised) \/ rt'.canceling
    PROVE  Core'
  <1>1. UNCHANGED <<state, call, ev, spawned, told, todo>>  BY DEF Conveys, backend
  <1>2. PlanOK'
    <2>1. ASSUME NEW c \in Call  PROVE PlanRow(c)'
      <3>1. PlanRow(c)  BY PlanFacts
      <3>2. \/ wrote'[c] \in {wrote[c], "err"}
            \/ wrote'[c] = "ok" /\ ~ (call[c].pc = "calling" /\ call[c].kind = "leave")
        BY DEF AnswersOK
      <3> QED  BY <1>1, <3>1, <3>2 DEF PlanRow, Plan
    <2> QED  BY <1>1, <2>1 DEF PlanOK, Core
  <1>3. WaiterOK'  BY <1>1 DEF Core, WaiterOK
  <1>4. TakenOK'  BY <1>1 DEF Core, TakenOK, Taken, RowGoes
  <1>5. Covered => Covered'  BY <1>1 DEF Covered, Lowers, RowGoes
  <1>6. rt'.canceling => Covered'  BY DEF Covered
  <1> QED  BY <1>2, <1>3, <1>4, <1>5, <1>6 DEF Core

\* A step that sends no event.
LEMMA SilentCore ==
    ASSUME Base, First, Core, Conveys, AnswersOK, RowGoes, QueuesOK', Raised' => Raised, UNCHANGED <<events, asked>>
    PROVE  Core'
  <1>1. UNCHANGED <<state, call, ev, spawned, told, todo>>  BY DEF Conveys, backend
  <1>2. Member'  BY <1>1 DEF Core, Member, RowGoes
  <1>3. AskedOK'  BY <1>1 DEF Core, AskedOK
  <1> QED  BY <1>2, <1>3, ConveyCore

\* The first entry leaves a queue.
LEMMA QueuesTail ==
    ASSUME Base, QueuesOK, Goes,
           outbox' = outbox \/ (outbox # <<>> /\ outbox' = Tail(outbox)),
           wire' = wire \/ (wire # <<>> /\ wire' = Tail(wire))
    PROVE  QueuesOK'
  <1>1. PICK s \in Seq(Entry) : s = outbox  BY DEF Base, TypeOK, WritesOK
  <1>2. PICK w \in Seq(Entry) : w = wire  BY RouterTypes
  <1>3. OwnOK(s) /\ OwnOK(w)  BY <1>1, <1>2 DEF QueuesOK
  <1>4. ASSUME NEW z \in Seq(Entry), OwnOK(z), NEW q, q = z \/ (z # <<>> /\ q = Tail(z)), NEW i \in 1 .. Len(q)
        PROVE  /\ q[i].cmd.kind \in Rpc =>
                      /\ q[i].by \in Call /\ q[i].cmd.arg = q[i].by
                      /\ call'[q[i].by].kind = q[i].cmd.kind \/ call'[q[i].by].pc = "done"
               /\ q[i].cmd.kind \notin Rpc /\ q[i].by \in Call =>
                      call'[q[i].by].pc = "done" \/ call'[q[i].by].kind \in {"wait", "reply"}
    <2>1. CASE q = z  BY <1>4, <2>1, OwnGoes
    <2>2. CASE z # <<>> /\ q = Tail(z)
      <3>1. PICK j \in 1 .. Len(z) : q[i] = z[j]  BY <1>4, <2>2, QueueTail
      <3> QED  BY <1>4, <3>1, OwnGoes
    <2> QED  BY <1>4, <2>1, <2>2
  <1>5. PICK so : so = outbox'  OBVIOUS
  <1>6. PICK wo : wo = wire'  OBVIOUS
  <1>7. so = s \/ (s # <<>> /\ so = Tail(s))  BY <1>1, <1>5
  <1>8. wo = w \/ (w # <<>> /\ wo = Tail(w))  BY <1>2, <1>6
  <1>9. OwnOK(outbox)'  BY <1>3, <1>4, <1>5, <1>7 DEF OwnOK, OwnEntry
  <1>10. OwnOK(wire)'  BY <1>3, <1>4, <1>6, <1>8 DEF OwnOK, OwnEntry
  <1> QED  BY <1>9, <1>10 DEF QueuesOK

\* The router reads a message.
LEMMA RaisedRead ==
    ASSUME Base, wire # <<>>, wire' = Tail(wire), outbox' = outbox,
           Head(wire).cmd.kind = "ready" => rt'.stored,
           Head(wire).cmd.kind = "unready" => ~ rt'.stored,
           Head(wire).cmd.kind \notin {"ready", "unready"} => rt'.stored = rt.stored
    PROVE  Raised' => Raised
  <1>1. PICK s : s = outbox  OBVIOUS
  <1>2. PICK w \in Seq(Entry) : w = wire /\ w # <<>>  BY RouterTypes
  <1>3. PICK q : q = Tail(w)  OBVIOUS
  <1>4. PICK k : k = Head(w).cmd.kind  OBVIOUS
  <1>5. Raised <=> Lifts(s) \/ (Clear(s) /\ (Lifts(w) \/ (Clear(w) /\ rt.stored)))  BY <1>1, <1>2 DEF Raised
  <1>6. Raised' <=> Lifts(s) \/ (Clear(s) /\ (Lifts(q) \/ (Clear(q) /\ rt'.stored)))
    BY <1>1, <1>2, <1>3 DEF Raised, Lifts, Clear
  <1>7. /\ Clear(w) <=> k # "unready" /\ Clear(q)
        /\ Lifts(w) <=> Lifts(q) \/ (k = "ready" /\ Clear(q))
    BY <1>2, <1>3, <1>4, QueueTail
  <1>8. (k = "ready" => rt'.stored) /\ (k = "unready" => ~ rt'.stored)
        /\ (k \notin {"ready", "unready"} => rt'.stored = rt.stored)
    BY <1>2, <1>4
  <1> QED  BY <1>5, <1>6, <1>7, <1>8

\* The client writes a command.
LEMMA RaisedPumped ==
    ASSUME Base, outbox # <<>>, outbox' = Tail(outbox), wire' = Append(wire, Head(outbox)), rt' = rt
    PROVE  Raised' => Raised
  <1>1. PICK s \in Seq(Entry) : s = outbox /\ s # <<>>  BY DEF Base, TypeOK, WritesOK
  <1>2. PICK w \in Seq(Entry) : w = wire  BY RouterTypes
  <1>3. PICK h \in Entry : h = Head(s)  BY <1>1, HeadEffect
  <1>4. PICK q : q = Tail(s)  OBVIOUS
  <1>5. PICK z : z = Append(w, h)  OBVIOUS
  <1>6. Raised <=> Lifts(s) \/ (Clear(s) /\ (Lifts(w) \/ (Clear(w) /\ rt.stored)))  BY <1>1, <1>2 DEF Raised
  <1>7. Raised' <=> Lifts(q) \/ (Clear(q) /\ (Lifts(z) \/ (Clear(z) /\ rt.stored)))
    BY <1>1, <1>2, <1>3, <1>4, <1>5 DEF Raised, Lifts, Clear
  <1>8. /\ Clear(s) <=> h.cmd.kind # "unready" /\ Clear(q)
        /\ Lifts(s) <=> Lifts(q) \/ (h.cmd.kind = "ready" /\ Clear(q))
    BY <1>1, <1>3, <1>4, QueueTail
  <1>9. /\ Clear(z) <=> Clear(w) /\ h.cmd.kind # "unready"
        /\ Lifts(z) <=> h.cmd.kind = "ready" \/ (Lifts(w) /\ h.cmd.kind # "unready")
    BY <1>5, QueueAppend
  <1> QED  BY <1>6, <1>7, <1>8, <1>9

\* The client drops a cancellation that has come too late.
LEMMA RaisedDropped ==
    ASSUME Base, outbox # <<>>, outbox' = Tail(outbox), Head(outbox).cmd.kind = "cancel", UNCHANGED <<wire, rt>>
    PROVE  Raised' => Raised
  <1>1. PICK s \in Seq(Entry) : s = outbox /\ s # <<>>  BY DEF Base, TypeOK, WritesOK
  <1>2. PICK w : w = wire  OBVIOUS
  <1>3. PICK q : q = Tail(s)  OBVIOUS
  <1>4. Raised <=> Lifts(s) \/ (Clear(s) /\ (Lifts(w) \/ (Clear(w) /\ rt.stored)))  BY <1>1, <1>2 DEF Raised
  <1>5. Raised' <=> Lifts(q) \/ (Clear(q) /\ (Lifts(w) \/ (Clear(w) /\ rt.stored)))
    BY <1>1, <1>2, <1>3 DEF Raised, Lifts, Clear
  <1>6. (Clear(s) <=> Clear(q)) /\ (Lifts(s) <=> Lifts(q))  BY <1>1, <1>3, QueueTail
  <1> QED  BY <1>4, <1>5, <1>6

LEMMA PumpCommandCore ==
    ASSUME Base, First, First', Core, PumpCommand
    PROVE  Core'
  <1>0. Conveys /\ Goes  BY PumpCommandConveys, GoesHolds
  <1>1. outbox # <<>> /\ outbox' = Tail(outbox) /\ asked' = asked /\ link' = "up"
    BY DEF PumpCommand, First
  <1>2. PICK s \in Seq(Entry) : s = outbox /\ s # <<>>  BY <1>1 DEF Base, TypeOK, WritesOK
  <1>3. PICK h \in Entry : h = Head(s) /\ h = s[1] /\ 1 \in 1 .. Len(s)  BY <1>2, HeadEffect
  <1>4. CASE h.cmd.kind = "cancel" /\ UNCHANGED <<link, drops, rt, wire, desired, wrote, events>>
    <2>1. QueuesOK'  BY <1>0, <1>1, <1>4, QueuesTail DEF Core
    <2>2. Raised' => Raised  BY <1>1, <1>2, <1>3, <1>4, RaisedDropped
    <2> QED  BY <1>0, <1>1, <1>4, <2>1, <2>2, SilentCore DEF AnswersOK, RowGoes
  <1>5. CASE /\ h.cmd.kind \notin {"close", "cancel"} /\ wire' = Append(wire, h)
             /\ wrote' = IF h.by = None \/ IsRpc(h.cmd) THEN wrote ELSE Answer(h.by, "ok")
             /\ UNCHANGED <<link, drops, rt, desired, events>>
    <2>1. OwnEntry(h)  BY <1>2, <1>3 DEF Core, QueuesOK, OwnOK
    <2>2. AnswersOK
      <3>1. CASE h.by = None \/ IsRpc(h.cmd)  BY <1>5, <3>1 DEF AnswersOK
      <3>2. CASE ~ (h.by = None \/ IsRpc(h.cmd))
        <4>1. PICK t : t = h.by  OBVIOUS
        <4>2. wrote' = Answer(t, "ok") /\ h.cmd.kind \notin Rpc  BY <1>5, <3>2, <4>1 DEF IsRpc, Rpc
        <4>3. PICK a \in {"ok", "err"} : a = "ok"  OBVIOUS
        <4>4. /\ \A u \in Task : u # t => wrote'[u] = wrote[u]
              /\ \A u \in Task : wrote'[u] \in {wrote[u], "ok"}
          BY <4>2, <4>3, RouterTypes, AnswerEffect
        <4>5. \A c \in Call : c = t => ~ (call[c].pc = "calling" /\ call[c].kind = "leave")
          BY <2>1, <4>1, <4>2 DEF OwnEntry
        <4> QED  BY <4>4, <4>5, Constants DEF AnswersOK
      <3> QED  BY <3>1, <3>2
    <2>3. QueuesOK'
      <3>1. PICK w \in Seq(Entry) : w = wire  BY RouterTypes
      <3>2. PICK z : z = Append(w, h)  OBVIOUS
      <3>3. PICK q : q = Tail(s)  OBVIOUS
      <3>4. OwnOK(s) /\ OwnOK(w) /\ wire' = z /\ outbox' = q  BY <1>1, <1>2, <1>5, <3>1, <3>2, <3>3 DEF Core, QueuesOK
      <3>5. \A i \in 1 .. Len(q) : \E j \in 1 .. Len(s) : q[i] = s[j]  BY <1>2, <3>3, QueueTail
      <3>6. \A i \in 1 .. Len(z) : (i \in 1 .. Len(w) /\ z[i] = w[i]) \/ z[i] = s[1]  BY <1>3, <3>2, QueueAppend
      <3>7. UNCHANGED call  BY <1>0 DEF Conveys, backend
      <3>8. OwnOK(outbox)'  BY <3>4, <3>5, <3>7 DEF OwnOK, OwnEntry
      <3>9. OwnOK(wire)'
        <4>1. SUFFICES ASSUME NEW i \in 1 .. Len(z)  PROVE OwnEntry(z[i])  BY <3>4, <3>7 DEF OwnOK, OwnEntry
        <4> QED  BY <1>3, <2>1, <3>4, <3>6 DEF OwnOK
      <3> QED  BY <3>8, <3>9 DEF QueuesOK
    <2>4. Raised' => Raised  BY <1>1, <1>2, <1>3, <1>5, RaisedPumped
    <2> QED  BY <1>0, <1>1, <1>5, <2>2, <2>3, <2>4, SilentCore DEF RowGoes
  <1> QED  BY <1>1, <1>2, <1>3, <1>4, <1>5 DEF PumpCommand, LoseLink

\* The router reads a message and sends no event.
LEMMA ReadCore ==
    ASSUME Base, First, Core, Conveys, AnswersOK, RowGoes, NEW kind, Receives(kind), outbox' = outbox,
           UNCHANGED <<events, asked>>,
           kind = "ready" => rt'.stored,
           kind = "unready" => ~ rt'.stored,
           kind \notin {"ready", "unready"} => rt'.stored = rt.stored
    PROVE  Core'
  <1>1. wire # <<>> /\ wire' = Tail(wire) /\ Head(wire).cmd.kind = kind  BY ReceivesEffect
  <1>2. QueuesOK'  BY <1>1, QueuesTail, GoesHolds DEF Core
  <1>3. Raised' => Raised  BY <1>1, RaisedRead
  <1> QED  BY <1>2, <1>3, SilentCore

\* The router answers a join or a request.
LEMMA AnswerOf ==
    ASSUME Base, Core, NEW kind \in {"join", "send"}, Receives(kind), NEW a \in {"ok", "err"},
           wrote' = Answer(Head(wire).cmd.arg, a)
    PROVE  AnswersOK
  <1>1. PICK h : h = wire[1]  OBVIOUS
  <1>2. Head(wire) = h /\ h.cmd.kind = kind /\ 1 \in 1 .. Len(wire)  BY <1>1, ReceivesEffect
  <1>3. OwnEntry(h)  BY <1>1, <1>2 DEF Core, QueuesOK, OwnOK
  <1>4. PICK t : t = h.cmd.arg  OBVIOUS
  <1>5. t \in Call /\ (call[t].kind = kind \/ call[t].pc = "done")  BY <1>2, <1>3, <1>4 DEF OwnEntry, Rpc
  <1>6. /\ \A u \in Task : u # t => wrote'[u] = wrote[u]
        /\ \A u \in Task : wrote'[u] \in {wrote[u], a}
    BY <1>2, <1>4, RouterTypes, AnswerEffect
  <1> QED  BY <1>5, <1>6, Constants DEF AnswersOK

LEMMA CallExpiresCore ==
    ASSUME Base, First, First', Core, NEW c \in Call, CallExpires(c)
    PROVE  Core'
  <1>1. Conveys /\ Goes  BY CallExpiresConveys, GoesHolds
  <1>2. wrote' = Answer(c, "err") /\ UNCHANGED <<link, drops, rt, wire, desired, events, outbox, asked>>
    BY DEF CallExpires, LoseLink, First
  <1>3. \A u \in Task : wrote'[u] \in {wrote[u], "err"}  BY <1>2, RouterTypes, AnswerEffect
  <1>4. AnswersOK /\ RowGoes  BY <1>2, <1>3, Constants DEF AnswersOK, RowGoes
  <1>5. QueuesOK'  BY <1>1, <1>2, QueuesFrame DEF Core
  <1>6. Raised' => Raised  BY <1>2 DEF Raised, Lifts, Clear
  <1> QED  BY <1>1, <1>2, <1>4, <1>5, <1>6, SilentCore

LEMMA SetReadinessCore ==
    ASSUME Base, First, Core, NEW ready \in BOOLEAN, SetReadiness(ready)
    PROVE  Core'
  <1>1. Conveys /\ rt'.stored = ready /\ RowGoes  BY SetReadinessConveys DEF RowGoes
  <1>2. PICK kind : kind = Ready(ready).kind /\ Receives(kind)  BY DEF SetReadiness
  <1>3. kind = IF ready THEN "ready" ELSE "unready"  BY <1>2 DEF Ready, Cmd
  <1>4. AnswersOK /\ outbox' = outbox /\ UNCHANGED <<events, asked>>  BY DEF SetReadiness, AnswersOK, client
  <1> QED  BY <1>1, <1>2, <1>3, <1>4, ReadCore

LEMMA FinishReplyCore ==
    ASSUME Base, First, Core, FinishReply
    PROVE  Core'
  <1>1. Conveys /\ rt'.stored = rt.stored /\ RowGoes  BY FinishReplyConveys DEF RowGoes
  <1>2. PICK kind : kind = "reply" /\ Receives(kind)  BY DEF FinishReply
  <1>3. AnswersOK /\ outbox' = outbox /\ UNCHANGED <<events, asked>>  BY DEF FinishReply, AnswersOK, client
  <1> QED  BY <1>1, <1>2, <1>3, ReadCore

LEMMA WorkspaceJoinCore ==
    ASSUME Base, First, Core, WorkspaceJoin
    PROVE  Core'
  <1>1. Conveys  BY WorkspaceJoinConveys
  <1>2. UNCHANGED <<rt, events, asked, outbox>> /\ RowGoes  BY DEF WorkspaceJoin, Core, Member, RowGoes
  <1>3. PICK kind \in {"join", "send"} : kind = "join" /\ Receives(kind)  BY DEF WorkspaceJoin
  <1>4. PICK a \in {"ok", "err"} : wrote' = Answer(Head(wire).cmd.arg, a)  BY DEF WorkspaceJoin
  <1>5. AnswersOK  BY <1>3, <1>4, AnswerOf
  <1> QED  BY <1>1, <1>2, <1>3, <1>5, ReadCore

\* A leave that is not refused ends the first workspace.
LEMMA WorkspaceLeaveCore ==
    ASSUME Base, First, First', Core, WorkspaceLeave
    PROVE  Core'
  <1>1. Conveys  BY WorkspaceLeaveConveys
  <1>2. PICK refused \in BOOLEAN : refused = (rt.joined /\ (rt.canceling \/ rt.busy # None \/ rt.sends # {}))
    OBVIOUS
  <1>3. /\ rt' = IF refused THEN rt ELSE [rt EXCEPT !.joined = FALSE, !.stored = FALSE, !.ready = FALSE]
        /\ events' = IF rt.joined /\ ~ refused THEN Append(events, Event("left", None)) ELSE events
        /\ left' = (left \/ ~ refused)
        /\ wrote' = Answer(Head(wire).cmd.arg, IF refused THEN "err" ELSE "ok")
        /\ UNCHANGED <<outbox, asked>> /\ Receives("leave")
    BY <1>2 DEF WorkspaceLeave
  <1>4. refused  BY <1>3 DEF First
  <1>5. UNCHANGED <<rt, events, asked, outbox>> /\ RowGoes /\ wrote' = Answer(Head(wire).cmd.arg, "err")
    BY <1>3, <1>4 DEF RowGoes
  <1>6. \A u \in Task : wrote'[u] \in {wrote[u], "err"}  BY <1>5, RouterTypes, AnswerEffect
  <1>7. AnswersOK  BY <1>6, Constants DEF AnswersOK
  <1>8. PICK kind : kind = "leave" /\ Receives(kind)  BY <1>3
  <1> QED  BY <1>1, <1>5, <1>7, <1>8, ReadCore

LEMMA StartRequestCore ==
    ASSUME Base, First, Core, NEW accepted \in BOOLEAN, StartRequest(accepted)
    PROVE  Core'
  <1>1. Conveys /\ rt'.stored = rt.stored /\ RowGoes  BY StartRequestConveys DEF RowGoes
  <1>2. PICK kind \in {"join", "send"} : kind = "send" /\ Receives(kind)  BY DEF StartRequest
  <1>3. PICK a \in {"ok", "err"} : wrote' = Answer(Head(wire).cmd.arg, a)  BY DEF StartRequest
  <1>4. AnswersOK  BY <1>2, <1>3, AnswerOf
  <1>5. UNCHANGED <<events, asked, outbox>>  BY DEF StartRequest, client
  <1> QED  BY <1>1, <1>2, <1>4, <1>5, ReadCore

\* The router sends an event, a request at most once.
LEMMA SendsCore ==
    ASSUME Base, First, Core, Conveys, RowGoes, NEW e \in Notice, events' = Append(events, e),
           UNCHANGED <<wrote, outbox, wire>>,
           e.type \notin {"joined", "left", "closed"},
           e.type \in {"cancel", "cancel_fenced"} => rt'.canceling,
           e.type = "deliver" => e.arg \in Request \ asked /\ asked' = asked \cup {e.arg},
           e.type # "deliver" => asked' = asked,
           rt'.stored = rt.stored \/ rt'.canceling
    PROVE  Core'
  <1>1. PICK n \in Nat : n = Len(events)  BY RouterTypes
  <1>2. /\ Len(events') = n + 1 /\ events'[n + 1] = e
        /\ \A i \in 1 .. n : events'[i] = events[i]
    BY <1>1, RouterTypes
  <1>3. UNCHANGED <<state, call, ev, told>>  BY DEF Conveys, backend
  <1>4. Member'
    <2>1. \A i \in 1 .. n + 1 : i = n + 1 \/ i \in 1 .. n  OBVIOUS
    <2>2. \A i \in 1 .. n + 1 : events'[i].type \notin {"joined", "left", "closed"}
      BY <1>1, <1>2, <2>1 DEF Core, Member
    <2>3. \A i \in 1 .. n + 1 : events'[i].type \in {"cancel", "cancel_fenced"} => rt'.canceling
      BY <1>1, <1>2, <2>1 DEF Core, Member, RowGoes
    <2> QED  BY <1>2, <1>3, <2>2, <2>3 DEF Core, Member, RowGoes
  <1>5. AskedOK'
    <2>1. asked \subseteq asked' /\ asked' \subseteq asked \cup {e.arg}  OBVIOUS
    <2>2. /\ told' \subseteq asked' /\ state'.pending \in asked' \cup {None}
          /\ \A c \in Call : call'[c].mail \in asked' \cup {None, "refused", "result"}
          /\ ev'.pc = "handing" => ev'.req \in asked'
      BY <1>3, <2>1 DEF Core, AskedOK
    <2>3. ASSUME NEW i \in 1 .. n + 1, events'[i].type = "deliver"
          PROVE  /\ events'[i].arg \in asked' /\ events'[i].arg \notin told'
                 /\ \A c \in Call : call'[c].mail # events'[i].arg
                 /\ ev'.pc = "handing" => ev'.req # events'[i].arg
                 /\ \A j \in 1 .. n + 1 : events'[j].type = "deliver" /\ events'[j].arg = events'[i].arg => j = i
      <3>1. CASE i = n + 1
        <4>1. PICK r : r = e.arg /\ events'[i].arg = r /\ r \in Request \ asked /\ r \in asked'
          BY <1>2, <2>3, <3>1
        <4>2. r \notin told' /\ (ev'.pc = "handing" => ev'.req # r)  BY <1>3, <4>1 DEF Core, AskedOK
        <4>3. \A c \in Call : call'[c].mail # r  BY <1>3, <4>1, Constants DEF Core, AskedOK
        <4>4. \A j \in 1 .. n : events'[j].type = "deliver" => events'[j].arg # r
          BY <1>1, <1>2, <4>1 DEF Core, AskedOK
        <4> QED  BY <3>1, <4>1, <4>2, <4>3, <4>4
      <3>2. CASE i \in 1 .. n
        <4>1. PICK r : r = events[i].arg /\ events'[i].arg = r /\ events[i].type = "deliver"  BY <1>2, <2>3, <3>2
        <4>2. /\ r \in asked /\ r \notin told /\ \A c \in Call : call[c].mail # r
              /\ ev.pc = "handing" => ev.req # r
              /\ \A j \in 1 .. n : events[j].type = "deliver" /\ events[j].arg = r => j = i
          BY <1>1, <3>2, <4>1 DEF Core, AskedOK
        <4>3. e.type = "deliver" => e.arg # r  BY <4>2
        <4>4. \A j \in 1 .. n + 1 : events'[j].type = "deliver" /\ events'[j].arg = r => j = i
          BY <1>2, <4>2, <4>3
        <4> QED  BY <1>3, <2>1, <4>1, <4>2, <4>4
      <3>3. i = n + 1 \/ i \in 1 .. n  OBVIOUS
      <3> QED  BY <3>1, <3>2, <3>3
    <2> QED  BY <1>2, <2>2, <2>3 DEF AskedOK
  <1>6. QueuesOK'  BY QueuesFrame, GoesHolds DEF Core
  <1>7. (Raised' => Raised) \/ rt'.canceling  BY DEF Raised, Lifts, Clear
  <1>8. AnswersOK  BY DEF AnswersOK
  <1> QED  BY <1>4, <1>5, <1>6, <1>7, <1>8, ConveyCore

LEMMA SendResultCore ==
    ASSUME Base, First, Core, NEW c \in Call, SendResult(c)
    PROVE  Core'
  <1>1. Conveys /\ rt'.stored = rt.stored /\ RowGoes  BY SendResultConveys DEF RowGoes
  <1>2. PICK e \in Notice : e = Event("result", c) /\ e.type = "result"  BY EventType, Constants
  <1>3. events' = Append(events, e) /\ UNCHANGED <<wrote, outbox, wire, asked>>  BY <1>2 DEF SendResult, client
  <1> QED  BY <1>1, <1>2, <1>3, SendsCore

LEMMA DeliverCore ==
    ASSUME Base, First, Core, NEW r \in Request, Deliver(r)
    PROVE  Core'
  <1>1. Conveys /\ rt'.stored = rt.stored /\ RowGoes  BY DeliverConveys DEF RowGoes
  <1>2. PICK e \in Notice : e = Event("deliver", r) /\ e.type = "deliver" /\ e.arg = r  BY EventType, Constants
  <1>3. /\ events' = Append(events, e) /\ UNCHANGED <<wrote, outbox, wire>>
        /\ r \notin asked /\ asked' = asked \cup {r}
    BY <1>2 DEF Deliver, client
  <1> QED  BY <1>1, <1>2, <1>3, SendsCore

\* The cancellation the router owes covers whatever readiness is on its way.
LEMMA CancelWorkCore ==
    ASSUME Base, First, Core, NEW fenced \in BOOLEAN, CancelWork(fenced)
    PROVE  Core'
  <1>1. Conveys /\ rt'.canceling /\ RowGoes  BY CancelWorkConveys DEF RowGoes
  <1>2. PICK e \in Notice : /\ e = Event(IF fenced THEN "cancel_fenced" ELSE "cancel", rt.busy)
                            /\ e.type \in {"cancel", "cancel_fenced"}
    BY EventType, RouterTypes
  <1>3. events' = Append(events, e) /\ UNCHANGED <<wrote, outbox, wire, asked>>  BY <1>2 DEF CancelWork, client
  <1> QED  BY <1>1, <1>2, <1>3, SendsCore

-----------------------------------------------------------------------------
(* Every step keeps Core while the first connection and workspace last.       *)

LEMMA CallCore ==
    ASSUME Base, First, Core, NEW c \in Call, BeginCall(c) \/ CallStep(c) \/ CancelCall(c)
    PROVE  Core'
  <1>1. CASE BeginCall(c)
    <2>1. CASE AgentWait(c)  BY <2>1, AgentWaitCore
    <2>2. CASE RoutedRequest(c)  BY <2>2, RoutedRequestCore
    <2>3. CASE \E k \in {"join", "leave"} : WorkspaceCall(c, k)  BY <2>3, WorkspaceCallCore
    <2>4. CASE \E r \in told, expired \in BOOLEAN : AgentReply(c, r, expired)  BY <2>4, AgentReplyCore
    <2>5. CASE \E r \in told : FailPendingWork(c, r)
      BY <2>5 DEF FailPendingWork, Admits, ToolKinds, First, Pull
    <2> QED  BY <1>1, <2>1, <2>2, <2>3, <2>4, <2>5 DEF BeginCall
  <1>2. CASE CallStep(c)
    BY <1>2, CallWritesCore, WaitReadiedCore, WaitTimeoutCore, WaitReceivedCore, AgentRepliedCore,
       RequestAcceptedCore, RequestEndsCore, WorkspaceAnsweredCore, CallReturnsCore DEF CallStep
  <1>3. CASE CancelCall(c)  BY <1>3, CancelCallCore
  <1> QED  BY <1>1, <1>2, <1>3

\* The events that end the first workspace are not among those that are left.
LEMMA NotHandled ==
    ASSUME Base, Core, NEW type \in {"joined", "left", "closed"}, Handles(type)
    PROVE  FALSE
  <1>1. events # <<>> /\ Head(events).type = type  BY DEF Handles
  <1>2. Head(events) = events[1] /\ 1 \in 1 .. Len(events)  BY <1>1, RouterTypes, TailEvents
  <1> QED  BY <1>1, <1>2 DEF Core, Member

LEMMA ServerCore ==
    ASSUME Base, First, First', Core,
           SpawnedReadiness \/ EventStep \/ Close \/ WriteNext(Closer) \/ (\E b \in BOOLEAN : HostState(b))
    PROVE  Core'
  <1>1. CASE SpawnedReadiness  BY <1>1, SpawnedCore
  <1>2. CASE Close
    <2>1. state'.closed  BY <1>2 DEF Close, Base, TypeOK, ServerOK, Backend
    <2> QED  BY <2>1 DEF First
  <1>3. CASE WriteNext(Closer)  BY <1>3 DEF WriteNext, First, Base, LinkOK
  <1>4. CASE \E b \in BOOLEAN : HostState(b)  BY <1>4 DEF HostState, First, Pull
  <1>5. CASE EventStep
    <2>1. CASE WriteNext(Events)  BY <2>1, EventWritesCore
    <2>2. CASE HandleDelivery  BY <2>2, HandleDeliveryCore
    <2>3. CASE HandOver  BY <2>3, HandOverCore
    <2>4. CASE Notify  BY <2>4 DEF Notify, Core, PlanOK
    <2>5. ASSUME NEW b \in BOOLEAN, HandleWorkCancelled(b)  PROVE Core'  BY <2>5, HandleWorkCancelledCore
    <2>6. ASSUME NEW b \in BOOLEAN, HandleMembership(b)  PROVE Core'
      <3>1. PICK type \in {"joined", "left", "closed"} : Handles(type)  BY <2>6 DEF HandleMembership
      <3> QED  BY <3>1, NotHandled
    <2>7. CASE HandleResult  BY <2>7, HandleResultCore
    <2>8. CASE HandleClosed
      <3>1. PICK type \in {"joined", "left", "closed"} : Handles(type)  BY <2>8 DEF HandleClosed
      <3> QED  BY <3>1, NotHandled
    <2>9. CASE EventHandled  BY <2>9, EventHandledCore
    <2> QED  BY <1>5, <2>1, <2>2, <2>3, <2>4, <2>5, <2>6, <2>7, <2>8, <2>9 DEF EventStep
  <1> QED  BY <1>1, <1>2, <1>3, <1>4, <1>5

LEMMA LinkCore ==
    ASSUME Base, First, First', Core, LinkTurn
    PROVE  Core'
  <1>1. CASE PumpCommand  BY <1>1, PumpCommandCore
  <1>2. ASSUME NEW c \in Call, CallExpires(c)  PROVE Core'  BY <1>2, CallExpiresCore
  <1>3. CASE DisconnectedCommand \/ LinkLost \/ Reconnect \/ GiveUp
    BY <1>3 DEF DisconnectedCommand, LinkLost, LoseLink, Reconnect, GiveUp, First
  <1>4. CASE RouterReads
    BY <1>4, FinishReplyCore, WorkspaceJoinCore, WorkspaceLeaveCore, SetReadinessCore, StartRequestCore
       DEF RouterReads
  <1>5. CASE RouterStep
    BY <1>4, <1>5, CancelWorkCore, SendResultCore, DeliverCore DEF RouterStep
  <1> QED  BY <1>1, <1>2, <1>3, <1>5 DEF LinkTurn, ClientStep

LEMMA CoreStep ==
    ASSUME Inv, [Next]_vars
    PROVE  Inv'
  <1>1. Base'  BY BaseStep DEF Inv
  <1>2. CASE Next
    <2>1. SUFFICES ASSUME First'  PROVE Core'  BY <1>1 DEF Inv
    <2>2. Base /\ First /\ Core  BY <1>2, <2>1, FirstStays DEF Inv
    <2> QED  BY <1>2, <2>1, <2>2, CallCore, ServerCore, LinkCore DEF Next, LinkTurn
  <1>3. CASE UNCHANGED vars
    <2>1. /\ UNCHANGED <<role, state, results, call, ev, spawned, told, todo, wrote, outbox, link, drops>>
          /\ UNCHANGED <<left, wire, rt, asked, events>>
      BY <1>3 DEF vars, backend, client, router
    <2>2. First' = First  BY <2>1 DEF First, Pull
    <2>3. (Member /\ PlanOK)' = (Member /\ PlanOK)
      BY <2>1 DEF Member, PlanOK, PlanRow, Plan
    <2>4. (QueuesOK /\ WaiterOK /\ AskedOK)' = (QueuesOK /\ WaiterOK /\ AskedOK)
      BY <2>1 DEF QueuesOK, OwnOK, OwnEntry, WaiterOK, AskedOK
    <2>5. (TakenOK /\ (Raised => Covered))' = (TakenOK /\ (Raised => Covered))
      BY <2>1 DEF TakenOK, Taken, Raised, Lifts, Clear, Covered, Lowers
    <2> QED  BY <1>1, <2>2, <2>3, <2>4, <2>5 DEF Inv, Core
  <1> QED  BY <1>2, <1>3

LEMMA InitInv ==
    ASSUME Init
    PROVE  Inv
  <1>1. Base  BY InitBase
  <1>2. SUFFICES ASSUME First  PROVE Core  BY <1>1 DEF Inv
  <1>3. /\ NoCall.pc = "idle" /\ NoCall.kind = "none" /\ NoCall.mail = None
        /\ \A c \in Call : call[c] = NoCall
    BY DEF Init, NoCall
  <1>4. /\ \A t \in Task : todo[t] = <<>> /\ wrote[t] = "ok"
        /\ outbox = <<>> /\ wire = <<>> /\ events = <<>> /\ told = {} /\ asked = {}
    BY DEF Init
  <1>5. state.membership /\ state.waiter = None /\ state.pending = None  BY <1>2 DEF Init, First, Pull
  <1>6. rt.joined /\ ~ rt.stored
    <2>1. rt = Joined(Offline)  BY <1>2 DEF Init, First, Pull
    <2>2. PICK off \in Connection : off = Offline  BY RowEffect
    <2> QED  BY <1>2, <2>1, <2>2 DEF Joined, Connection, First
  <1>7. ev.pc = "idle"  BY DEF Init, Idle
  <1>8. Member  BY <1>4, <1>5, <1>6 DEF Member
  <1>9. PlanOK  BY <1>3, <1>4, <1>7, Constants DEF PlanOK, PlanRow
  <1>10. QueuesOK /\ WaiterOK  BY <1>4, <1>5, <1>7 DEF QueuesOK, OwnOK, WaiterOK
  <1>11. AskedOK /\ TakenOK  BY <1>3, <1>4, <1>5, <1>7 DEF AskedOK, TakenOK, Taken
  <1>12. ~ Raised  BY <1>4, <1>6 DEF Raised, Lifts
  <1> QED  BY <1>8, <1>9, <1>10, <1>11, <1>12 DEF Core

\* Base always holds, and Core on the first connection and in the first workspace.
THEOREM AlwaysInv == Spec => []Inv
  BY InitInv, CoreStep, PTL DEF Spec

\* An agent the router takes to be ready is one whose model waits in agent_wait,
\* or has a request to finish, when everything on the first connection and in the
\* first workspace has settled: agent_wait, its timeout, its guard's own task and
\* the replies leave no readiness behind, in whatever order their writes are made.
THEOREM ReadinessIsAwaited == Spec => []ReadyMeansAwaited
  <1>1. ASSUME Inv  PROVE ReadyMeansAwaited
    <2>1. SUFFICES ASSUME Quiet, drops = 0, ~ left, Pull, rt.ready, state.pending = None
                   PROVE  state.waiter # None /\ call[state.waiter].pc = "waiting"
      BY DEF ReadyMeansAwaited
    <2>2. Base /\ First /\ Core  BY <1>1, <2>1 DEF Quiet, First, Inv
    <2>3. rt.stored /\ ~ rt.canceling  BY <2>1, <2>2 DEF Base, LinkOK
    <2>4. Raised  BY <2>1, <2>3 DEF Quiet, Raised, Clear
    <2>5. Covered  BY <2>2, <2>4 DEF Core
    <2>6. ASSUME NEW t \in Task  PROVE todo[t] = <<>>
      <3>1. t \in Call \/ t = Events \/ t = Closer  BY McpAssumption DEF Task, Call, Events, Closer
      <3>2. \A c \in Call : call[c].pc \notin Writing  BY <2>1 DEF Quiet, Writing
      <3>3. ev.pc = "idle"  BY <2>1 DEF Quiet, Idle
      <3> QED  BY <2>1, <2>2, <3>1, <3>2, <3>3, PlanFacts DEF Core, PlanOK, Base, LinkOK, Quiet
    <2>7. \A t \in Task : ~ Lowers(t)  BY <2>6 DEF Lowers
    <2>8. state.waiter # None  BY <2>1, <2>3, <2>5, <2>7 DEF Covered, Quiet
    <2>9. call[state.waiter].pc \in {"readying", "waiting"} /\ state.waiter \in Call
      BY <2>2, <2>8 DEF Core, WaiterOK, Base, TypeOK, ServerOK, Backend
    <2> QED  BY <2>1, <2>8, <2>9 DEF Quiet
  <1> QED  BY <1>1, AlwaysInv, PTL
=============================================================================
