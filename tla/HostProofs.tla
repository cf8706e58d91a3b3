----------------------------- MODULE HostProofs -----------------------------
(* Proofs about Host, for any number of deliveries and connections.           *)
(*                                                                            *)
(* A delivery is handed to the child at most once, so that what has ended     *)
(* stays ended; and as long as the child may work on a delivery of the        *)
(* current connection, the router has it open or awaits its cancellation.     *)
EXTENDS Host, TLAPS

Turn == 1 .. Local

Event == [type : {"deliver", "cancel"}, r : Req, fenced : BOOLEAN]

\* Where a delivery may still be handed to the child, and where it may be with it.
Early == {"start", "barrier", "begin", "bind", "submit"}

Place == Early \cup {"none", "run", "terminal", "stop", "report", "idle", "done"}

Handler == [at : Place, r : Req \cup {0}, s : Nat, cancelled : BOOLEAN]

Provision == [st : {"idle", "running", "cancelling", "closed"}, r : Turn \cup {0}, sent : BOOLEAN]

Inbox == [st : {"idle", "active", "stop"}, r : Req \cup {0}, fence : Req \cup {0}, cancelled : BOOLEAN]

RouterOK ==
    /\ up \in BOOLEAN /\ session \in Nat \ {0} /\ open \in Req \cup {0} /\ asked \in [Req -> Nat]
    /\ canceling \in [r : Req \cup {0}, fenced : BOOLEAN]

LoopOK ==
    /\ events \in Seq(Event) /\ host \in {"run", "closing", "closed", "ended"}
    /\ turn \in [r : Req \cup {0}, cancelled : BOOLEAN]
    /\ local \in {"none", "submit", "run", "terminal", "done", "failed"}
    /\ h \in Handler /\ inbox \in Inbox /\ lease \in [s : Nat, fence : Req \cup {0}]
    /\ confirmed \subseteq Req

TablesOK ==
    /\ prov \in Provision /\ child \in Turn \cup {0} /\ ended \in Turn \cup {0}
    /\ settled \subseteq Turn /\ terminal \subseteq Turn

TypeOK == RouterOK /\ LoopOK /\ TablesOK

\* The actor has the turn its child works on or has ended, one at a time, and a
\* turn whose end was broadcast is neither.
ActorOK ==
    /\ TablesOK
    /\ child = 0 \/ ended = 0
    /\ child # 0 => prov.r = child
    /\ ended # 0 => prov.r = ended
    /\ prov.r # 0 <=> prov.st \in {"running", "cancelling"}
    /\ terminal \subseteq settled /\ child \notin terminal /\ ended \notin terminal

\* The child has never seen the delivery.
Unstarted(r) == r \notin settled /\ r \notin confirmed /\ prov.r # r

Delivers(i) == i \in 1 .. Len(events) /\ events[i].type = "deliver"

\* Deliveries under way are new, and each is under way once.
FreshOK ==
    /\ \A i \in 1 .. Len(events) : Delivers(i) =>
         Unstarted(events[i].r) /\ asked[events[i].r] # 0 /\ events[i].r # h.r
    /\ \A i, j \in 1 .. Len(events) : Delivers(i) /\ Delivers(j) /\ events[i].r = events[j].r => i = j
    /\ \A r \in Req : r \in settled \cup confirmed \cup {prov.r} => asked[r] # 0

\* The delivery in progress.
HandleOK ==
    /\ h.at # "none" => h.r \in Req /\ turn.r = h.r /\ asked[h.r] # 0
    /\ h.at = "none" => h.r = 0
    /\ h.at \in Early => Unstarted(h.r)
    /\ h.at \in {"stop", "report", "idle"} => h.r \in terminal
    /\ h.at \in {"begin", "bind", "submit", "run", "terminal", "stop", "report"} => lease.fence \in {0, h.r}
    /\ h.at = "report" => lease.fence # 0
    /\ child \in Req => h.r = child /\ h.at \in {"run", "terminal"}
    /\ confirmed \subseteq terminal

\* The turn of the terminal is typed once.
LocalOK ==
    /\ local = "submit" => Local \notin settled /\ prov.r # Local
    /\ prov.r = Local /\ Local \notin settled => local \in {"run", "terminal"} \/ host # "run"
    /\ host = "ended" => local = "none"

\* The router has not forgotten the delivery.
Remembered(r) == up /\ asked[r] = session => open = r \/ canceling.r = r

RouteOK ==
    /\ \A r \in Req : asked[r] <= session
    /\ open # 0 => canceling.r = 0 /\ up
    /\ \A i \in 1 .. Len(events) : Delivers(i) => Remembered(events[i].r)
    /\ h.at \in Early \cup {"run", "terminal"} => Remembered(h.r)

HostOK == host \in {"closed", "ended"} => child = 0 /\ prov.st = "closed"

Inv == TypeOK /\ ActorOK /\ FreshOK /\ HandleOK /\ LocalOK /\ RouteOK /\ HostOK

-----------------------------------------------------------------------------
(* The provider actor.                                                        *)

LEMMA Constants ==
    /\ MaxReq \in Nat /\ Local \in Nat /\ Local \notin Req /\ Local # 0 /\ 0 \notin Req
    /\ Turn = Req \cup {Local} /\ 0 \notin Turn
  BY HostAssumption DEF Local, Req, Turn

\* A step of the actor other than the start of a turn.
Settles ==
    /\ ActorOK'
    /\ prov'.r \in {prov.r, 0} /\ child' \in {child, 0}
    /\ settled \subseteq settled' /\ settled' \subseteq settled \cup {prov.r}
    /\ terminal \subseteq terminal'
    /\ prov.st = "closed" => prov'.st = "closed"

Started(r) ==
    /\ ActorOK'
    /\ prov.st = "idle" /\ prov.r = 0 /\ prov'.r = r /\ child' = r
    /\ settled' = settled /\ terminal' = terminal

LEMMA ActorQuiet ==
    ASSUME ActorOK, UNCHANGED actor
    PROVE  Settles
  BY DEF ActorOK, Settles, TablesOK, actor

LEMMA FinishActorSettles ==
    ASSUME ActorOK, FinishActor
    PROVE  Settles /\ prov'.st = "closed" /\ child' = 0
<1>1. prov' = [st |-> "closed", r |-> 0, sent |-> FALSE] /\ child' = 0 /\ ended' = 0
  BY DEF FinishActor, Reap
<1>2. prov' \in Provision /\ prov'.st = "closed" /\ prov'.r = 0
  BY <1>1 DEF Provision
<1>3. settled' = settled \cup ({prov.r} \ {0}) /\ prov.r \in Turn \cup {0}
  BY DEF FinishActor, Settle, ActorOK, TablesOK, Provision
<1>4. terminal' = terminal \/ terminal' = terminal \cup ({prov.r} \ {0})
  BY DEF FinishActor, Broadcast
<1>5. TablesOK'
  BY <1>1, <1>2, <1>3, <1>4 DEF TablesOK, ActorOK
<1>6. terminal' \subseteq settled' /\ 0 \notin terminal'
  BY <1>3, <1>4, Constants DEF ActorOK, TablesOK
<1>7. QED
  BY <1>1, <1>2, <1>3, <1>4, <1>5, <1>6 DEF ActorOK, Settles

LEMMA CancellingSettles ==
    ASSUME ActorOK, prov.st = "running", Cancelling, UNCHANGED <<child, ended, terminal>>
    PROVE  Settles
<1>1. prov' \in Provision /\ prov'.st = "cancelling" /\ prov'.r = prov.r
  BY DEF Cancelling, ActorOK, TablesOK, Provision
<1>2. settled' = settled \cup ({prov.r} \ {0}) /\ prov.r \in Turn \cup {0}
  BY DEF Cancelling, Settle, ActorOK, TablesOK, Provision
<1>3. QED
  BY <1>1, <1>2 DEF ActorOK, Settles, TablesOK

LEMMA CancelTurnSettles ==
    ASSUME ActorOK, NEW r, CancelTurn(r)
    PROVE  Settles
  BY CancellingSettles, ActorQuiet DEF CancelTurn

LEMMA FinishActiveSettles ==
    ASSUME ActorOK, FinishActive
    PROVE  Settles
<1>1. CompletionRead
  BY DEF FinishActive, CodexCompleted, ClaudeResponse
<1>2. /\ ended # 0 /\ ended = prov.r /\ ended' = 0 /\ child' = child
      /\ settled' = settled \cup ({prov.r} \ {0}) /\ terminal' = terminal \cup ({prov.r} \ {0})
  BY <1>1 DEF CompletionRead, Settle, Broadcast
<1>3. child = 0 /\ prov.r \in Turn
  BY <1>2 DEF ActorOK, TablesOK
<1>4. prov' \in Provision /\ prov'.r \in {prov.r, 0}
      /\ (prov'.r # 0 <=> prov'.st \in {"running", "cancelling"})
  <2>1. prov \in Provision
    BY DEF ActorOK, TablesOK
  <2>2. CASE prov' = IdleActor
    BY <2>2 DEF IdleActor, Provision
  <2>3. CASE prov' = [prov EXCEPT !.st = "cancelling", !.sent = TRUE]
    BY <1>2, <2>1, <2>3 DEF Provision
  <2>4. QED
    BY <2>2, <2>3 DEF FinishActive, CodexCompleted, ClaudeResponse
<1>5. prov.st # "closed"
  BY <1>2, <1>3 DEF ActorOK
<1>6. TablesOK'
  BY <1>2, <1>3, <1>4 DEF ActorOK, TablesOK
<1>7. terminal' \subseteq settled' /\ 0 \notin terminal'
  BY <1>2, <1>3, Constants DEF ActorOK, TablesOK
<1>8. QED
  BY <1>2, <1>3, <1>4, <1>5, <1>6, <1>7 DEF ActorOK, Settles

LEMMA ChildEndsSettles ==
    ASSUME ActorOK, ChildEnds
    PROVE  Settles
<1>1. child # 0 /\ child' = 0 /\ ended' = child /\ UNCHANGED <<prov, settled, terminal>>
  BY DEF ChildEnds
<1>2. 0 \notin terminal
  BY Constants DEF ActorOK, TablesOK
<1>3. QED
  BY <1>1, <1>2 DEF ActorOK, Settles, TablesOK

LEMMA StartTurnEffect ==
    ASSUME ActorOK, NEW r \in Turn, r \notin settled, prov.r # r, StartTurn(r)
    PROVE  Started(r) \/ (Settles /\ child' # r)
<1>1. child # r /\ r # 0
  BY Constants DEF ActorOK
<1>2. CASE TurnStarts(r)
  <2>1. /\ prov.st = "idle" /\ prov' = [st |-> "running", r |-> r, sent |-> FALSE]
        /\ child' = r /\ UNCHANGED <<ended, settled, terminal>>
    BY <1>2 DEF TurnStarts
  <2>2. prov.r = 0 /\ child = 0 /\ ended = 0 /\ r \notin terminal /\ 0 \notin terminal
    BY <2>1, Constants DEF ActorOK, TablesOK
  <2>3. prov' \in Provision /\ prov'.r = r /\ prov'.st = "running"
    BY <2>1 DEF Provision
  <2>4. TablesOK'
    BY <2>1, <2>3 DEF ActorOK, TablesOK
  <2>5. QED
    BY <1>1, <2>1, <2>2, <2>3, <2>4 DEF ActorOK, Started
<1>3. CASE prov.st = "idle" /\ FinishActor
  BY <1>1, <1>3, FinishActorSettles
<1>4. CASE UNCHANGED actor
  BY <1>1, <1>4, ActorQuiet DEF actor
<1>5. QED
  BY <1>2, <1>3, <1>4 DEF StartTurn

-----------------------------------------------------------------------------
(* Deliveries under way.                                                      *)

\* Events leave the queue at its head, or at its end when a connection is lost.
\* A cancellation may be added.
Shift(k) == \A i \in 1 .. Len(events') : events'[i].type = "deliver" =>
    i + k \in 1 .. Len(events) /\ events'[i] = events[i + k]

Taken(k, r) == k = 1 /\ Delivers(1) /\ r = events[1].r

LEMMA ShiftSame ==
    ASSUME LoopOK, events' = events
    PROVE  Shift(0) /\ Len(events') \in Nat
  BY DEF Shift, LoopOK

LEMMA ShiftTail ==
    ASSUME LoopOK, events # <<>>, events' = Tail(events)
    PROVE  /\ Shift(1) /\ events' \in Seq(Event) /\ 1 \in 1 .. Len(events)
           /\ Head(events) = events[1] /\ events[1] \in Event
  BY DEF Shift, LoopOK

LEMMA ShiftPrefix ==
    ASSUME LoopOK, NEW n \in 0 .. Len(events), events' = SubSeq(events, 1, n)
    PROVE  Shift(0) /\ events' \in Seq(Event)
<1>1. events \in Seq(Event) /\ Len(events) \in Nat
  BY DEF LoopOK
<1>2. Len(events') = n /\ \A i \in 1 .. n : events'[i] = events[i]
  BY <1>1
<1>3. events' \in Seq(Event)
  BY <1>1
<1>4. \A i \in 1 .. Len(events') : i + 0 \in 1 .. Len(events) /\ events'[i] = events[i + 0]
  BY <1>1, <1>2
<1>5. QED
  BY <1>3, <1>4 DEF Shift

LEMMA EventRequest ==
    ASSUME NEW q \in Seq(Event), NEW i \in 1 .. Len(q)
    PROVE  q[i].r \in Req
<1>1. q[i] \in Event
  OBVIOUS
<1>2. QED
  BY <1>1 DEF Event

LEMMA FreshKept ==
    ASSUME Inv, TypeOK', NEW k \in Nat, Shift(k), asked' = asked,
           \A r \in Req \ {h.r} : Unstarted(r) => Unstarted(r)',
           \A r \in Req \ {h.r} :
             r \in settled' \cup confirmed' \cup {prov'.r} => r \in settled \cup confirmed \cup {prov.r},
           h'.r \in {h.r, 0} \/ Taken(k, h'.r)
    PROVE  FreshOK'
<1>0. FreshOK /\ HandleOK /\ events \in Seq(Event) /\ events' \in Seq(Event) /\ h.r \in Req \cup {0}
      /\ Len(events) \in Nat /\ Len(events') \in Nat
  BY DEF Inv, TypeOK, LoopOK, Handler
<1>1. ASSUME NEW i \in 1 .. Len(events'), Delivers(i)'
      PROVE  /\ i + k \in 1 .. Len(events) /\ events'[i] = events[i + k] /\ Delivers(i + k)
             /\ events'[i].r \in Req
    BY <1>0, <1>1, EventRequest DEF Shift, Delivers
<1>2. ASSUME NEW i \in 1 .. Len(events'), Delivers(i)'
      PROVE  Unstarted(events[i].r)' /\ asked'[events'[i].r] # 0 /\ events'[i].r # h'.r
  <2>1. /\ i + k \in 1 .. Len(events) /\ events'[i] = events[i + k] /\ Delivers(i + k)
        /\ events'[i].r \in Req
    BY <1>1, <1>2 DEF Delivers
  <2>2. Unstarted(events'[i].r) /\ asked[events'[i].r] # 0 /\ events'[i].r # h.r
    BY <1>0, <2>1 DEF FreshOK
  <2>3. events'[i].r # 0
    BY <2>1, Constants
  <2>4. Taken(k, h'.r) => events'[i].r # h'.r
    <3>1. SUFFICES ASSUME k = 1, Delivers(1), h'.r = events[1].r, events'[i].r = h'.r PROVE FALSE
      BY DEF Taken
    <3>2. events[i + 1].r = events[1].r /\ i + 1 \in 1 .. Len(events) /\ Delivers(i + 1)
      BY <2>1, <3>1
    <3>3. i + 1 = 1
      BY <1>0, <3>1, <3>2 DEF FreshOK, Delivers
    <3>4. QED
      BY <1>0, <3>3
  <2>5. QED
    BY <2>1, <2>2, <2>3, <2>4 DEF Unstarted
<1>3. ASSUME NEW i \in 1 .. Len(events'), NEW j \in 1 .. Len(events'), Delivers(i)', Delivers(j)',
             events'[i].r = events'[j].r
      PROVE  i = j
  <2>1. /\ i + k \in 1 .. Len(events) /\ events'[i] = events[i + k] /\ Delivers(i + k)
        /\ j + k \in 1 .. Len(events) /\ events'[j] = events[j + k] /\ Delivers(j + k)
    BY <1>1, <1>3 DEF Delivers
  <2>2. i + k = j + k
    BY <1>0, <1>3, <2>1 DEF FreshOK
  <2>3. QED
    BY <1>0, <2>2
<1>4. \A r \in Req : r \in settled' \cup confirmed' \cup {prov'.r} => asked'[r] # 0
  <2>1. h.r \in Req => asked[h.r] # 0
    BY <1>0, Constants DEF HandleOK
  <2>2. QED
    BY <1>0, <2>1 DEF FreshOK
<1>5. QED
  BY <1>2, <1>3, <1>4 DEF FreshOK, Delivers, Unstarted

Flying == Early \cup {"run", "terminal"}

LEMMA RouteKept ==
    ASSUME Inv, TypeOK', NEW k \in Nat, Shift(k), asked' = asked, session' = session, up' => up,
           open' # 0 => canceling'.r = 0 /\ up',
           NEW f \in Req \cup {0},
           \A r \in Req \ {f} : up' /\ (open = r \/ canceling.r = r) => open' = r \/ canceling'.r = r,
           \/ f = 0
           \/ f = h.r /\ h'.at \notin Flying
           \/ Taken(k, f) /\ h'.r = h.r,
           h'.at \in Flying => (h'.r = h.r /\ h.at \in Flying) \/ Taken(k, h'.r)
    PROVE  RouteOK'
<1>0. FreshOK /\ HandleOK /\ RouteOK /\ events \in Seq(Event) /\ events' \in Seq(Event) /\ h.r \in Req \cup {0}
      /\ Len(events) \in Nat /\ Len(events') \in Nat
  BY DEF Inv, TypeOK, LoopOK, Handler
<1>1. ASSUME NEW i \in 1 .. Len(events'), Delivers(i)' PROVE Remembered(events[i].r)'
  <2>1. /\ i + k \in 1 .. Len(events) /\ events'[i] = events[i + k] /\ Delivers(i + k)
        /\ events'[i].r \in Req
    BY <1>0, <1>1, EventRequest DEF Shift, Delivers
  <2>2. Remembered(events'[i].r) /\ events'[i].r # h.r
    BY <1>0, <2>1 DEF RouteOK, FreshOK
  <2>3. events'[i].r # f
    <3>1. CASE f = 0 \/ f = h.r
      BY <2>1, <2>2, <3>1, Constants
    <3>2. ASSUME k = 1, Delivers(1), f = events[1].r, events'[i].r = f PROVE FALSE
      <4>1. events[i + 1].r = events[1].r /\ i + 1 \in 1 .. Len(events) /\ Delivers(i + 1)
        BY <2>1, <3>2
      <4>2. i + 1 = 1
        BY <1>0, <3>2, <4>1 DEF FreshOK, Delivers
      <4>3. QED
        BY <1>0, <4>2
    <3>3. QED
      BY <3>1, <3>2 DEF Taken
  <2>4. QED
    BY <2>1, <2>2, <2>3 DEF Remembered
<1>2. h'.at \in Flying => Remembered(h.r)'
  <2>1. SUFFICES ASSUME h'.at \in Flying PROVE Remembered(h.r)'
    OBVIOUS
  <2>2. CASE h'.r = h.r /\ h.at \in Flying
    <3>1. Remembered(h.r) /\ h.r \in Req
      BY <1>0, <2>2 DEF RouteOK, HandleOK, Flying, Early
    <3>2. h.r # f
      <4>1. Taken(k, f) => f # h.r
        BY <1>0 DEF Taken, FreshOK, Delivers
      <4>2. QED
        BY <2>1, <3>1, <4>1, Constants
    <3>3. QED
      BY <2>2, <3>1, <3>2 DEF Remembered
  <2>3. CASE Taken(k, h'.r) /\ ~(h'.r = h.r)
    <3>1. Delivers(1) /\ h'.r = events[1].r /\ 1 \in 1 .. Len(events)
      BY <2>3 DEF Taken, Delivers
    <3>2. Remembered(h'.r) /\ h'.r \in Req
      BY <1>0, <3>1, EventRequest DEF RouteOK
    <3>3. h'.r # f
      BY <2>1, <2>3, <3>1, <3>2, Constants DEF Taken
    <3>4. QED
      BY <3>2, <3>3 DEF Remembered
  <2>4. CASE Taken(k, h'.r) /\ h'.r = h.r
    BY <1>0, <2>4 DEF Taken, FreshOK, Delivers
  <2>5. QED
    BY <2>1, <2>2, <2>3, <2>4
<1>3. \A r \in Req : asked'[r] <= session'
  BY <1>0 DEF RouteOK
<1>4. QED
  BY <1>1, <1>2, <1>3 DEF RouteOK, Flying, Delivers, Remembered

\* What a step of the actor leaves of the invariant.
LEMMA SettlesKeeps ==
    ASSUME ActorOK, Settles, confirmed' = confirmed
    PROVE  /\ \A r \in Req : Unstarted(r) => Unstarted(r)'
           /\ \A r \in Req :
                r \in settled' \cup confirmed' \cup {prov'.r} => r \in settled \cup confirmed \cup {prov.r}
  BY Constants DEF Settles, Unstarted

LEMMA ActorStep ==
    ASSUME Inv, Settles,
           UNCHANGED <<up, session, open, asked, canceling, events, host, turn, local>>,
           UNCHANGED <<h, inbox, lease, confirmed>>
    PROVE  Inv'
<1>1. TypeOK'
  BY DEF Inv, TypeOK, RouterOK, LoopOK, Settles, ActorOK
<1>2. Shift(0)
  BY ShiftSame DEF Inv, TypeOK
<1>3. /\ \A r \in Req : Unstarted(r) => Unstarted(r)'
      /\ \A r \in Req :
           r \in settled' \cup confirmed' \cup {prov'.r} => r \in settled \cup confirmed \cup {prov.r}
  BY SettlesKeeps DEF Inv
<1>4. FreshOK'
  BY <1>1, <1>2, <1>3, FreshKept
<1>5. RouteOK'
  <2>1. open' # 0 => canceling'.r = 0 /\ up'
    BY DEF Inv, RouteOK
  <2>2. QED
    BY <1>1, <1>2, <2>1, RouteKept
<1>6. HandleOK'
  <2>1. child' \in Req => child' = child
    BY Constants DEF Settles
  <2>2. h.r \in Req \cup {0} /\ HandleOK
    BY DEF Inv, TypeOK, LoopOK, Handler
  <2>3. h.at \in Early => h.r \in Req
    BY <2>2 DEF HandleOK, Early
  <2>4. QED
    BY <1>3, <2>1, <2>2, <2>3 DEF HandleOK, Settles
<1>7. LocalOK'
  BY Constants DEF Inv, LocalOK, Settles
<1>8. HostOK'
  BY DEF Inv, HostOK, Settles
<1>9. QED
  BY <1>1, <1>4, <1>5, <1>6, <1>7, <1>8 DEF Inv, Settles

-----------------------------------------------------------------------------
(* RouterManagedProvider::handle.                                             *)

LEMMA GotoRow ==
    ASSUME h \in Handler, NEW at \in Place, Goto(at)
    PROVE  h' \in Handler /\ h'.at = at /\ h'.r = h.r /\ h'.s = h.s /\ h'.cancelled = h.cancelled
  BY DEF Goto, Handler

LEMMA HandlerStep ==
    ASSUME Inv, h' \in Handler, h'.r = h.r, inbox' \in Inbox, lease' \in [s : Nat, fence : Req \cup {0}], HandleOK',
           h'.at \in Flying => h.at \in Flying,
           UNCHANGED <<up, session, open, asked, canceling, events, host, turn, local, confirmed, actor>>
    PROVE  Inv'
<1>0. UNCHANGED <<prov, child, ended, settled, terminal>>
  BY DEF actor
<1>1. TypeOK' /\ ActorOK'
  BY <1>0 DEF Inv, TypeOK, RouterOK, LoopOK, TablesOK, ActorOK
<1>2. Shift(0)
  BY ShiftSame DEF Inv, TypeOK
<1>3. FreshOK'
  BY <1>0, <1>1, <1>2, FreshKept DEF Unstarted
<1>4. RouteOK'
  <2>1. open' # 0 => canceling'.r = 0 /\ up'
    BY DEF Inv, RouteOK
  <2>2. QED
    BY <1>1, <1>2, <2>1, RouteKept
<1>5. LocalOK' /\ HostOK'
  BY <1>0 DEF Inv, LocalOK, HostOK
<1>6. QED
  BY <1>1, <1>3, <1>4, <1>5 DEF Inv

LEMMA HandleSteps ==
    ASSUME Inv,
           \/ HandleStart \/ AcquireBarrier \/ InboxBegin \/ BindTaskFence \/ ResultSettled
           \/ ObserveTerminal \/ FinishExecution
    PROVE  Inv'
<1>0. /\ h \in Handler /\ lease \in [s : Nat, fence : Req \cup {0}] /\ HandleOK /\ session \in Nat
      /\ ActorOK
  BY DEF Inv, TypeOK, LoopOK, RouterOK
<1>1. ASSUME h' \in Handler, h'.r = h.r, lease' \in [s : Nat, fence : Req \cup {0}], HandleOK',
             h'.at \in Flying => h.at \in Flying,
             UNCHANGED <<kind, router, loop, confirmed, actor>>
      PROVE  Inv'
  <2>1. inbox \in Inbox /\ h.r \in Req \cup {0} /\ lease.fence \in Req \cup {0}
    BY DEF Inv, TypeOK, LoopOK, Handler
  <2>2. \/ inbox' = inbox \/ inbox' = [inbox EXCEPT !.fence = lease.fence]
        \/ inbox' = [inbox EXCEPT !.st = "stop"]
        \/ inbox' = [st |-> "active", r |-> h.r, fence |-> 0, cancelled |-> FALSE]
    BY DEF HandleStart, AcquireBarrier, InboxBegin, BindTaskFence, ResultSettled, ObserveTerminal,
           FinishExecution
  <2>3. inbox' \in Inbox
    <3>1. CASE inbox' = [inbox EXCEPT !.fence = lease.fence]
      BY <2>1, <3>1 DEF Inbox
    <3>2. CASE inbox' = [inbox EXCEPT !.st = "stop"]
      BY <2>1, <3>2 DEF Inbox
    <3>3. CASE inbox' = [st |-> "active", r |-> h.r, fence |-> 0, cancelled |-> FALSE]
      BY <2>1, <3>3 DEF Inbox
    <3>4. QED
      BY <2>1, <2>2, <3>1, <3>2, <3>3
  <2>4. QED
    BY <1>1, <2>3, HandlerStep DEF router, loop
<1>2. /\ UNCHANGED <<kind, router, loop, confirmed, actor>>
      /\ UNCHANGED <<asked, turn, child, terminal, settled, prov>>
  BY DEF HandleStart, AcquireBarrier, InboxBegin, BindTaskFence, ResultSettled, ObserveTerminal,
         FinishExecution, router, loop, actor
<1>3. \A r : Unstarted(r)' <=> Unstarted(r)
  BY <1>2 DEF Unstarted
<1>4. NoLease \in [s : Nat, fence : Req \cup {0}] /\ NoLease.fence = 0
  BY DEF NoLease
\* A handler that gives up before it was given the child, or after the turn.
<1>5. ASSUME h.at \in Early \cup {"stop"}, Goto("done"), lease' \in [s : Nat, fence : Req \cup {0}]
      PROVE  Inv'
  <2>1. h' \in Handler /\ h'.at = "done" /\ h'.r = h.r
    BY <1>0, <1>5, GotoRow DEF Place
  <2>2. child \notin Req
    BY <1>0, <1>5 DEF HandleOK, Early
  <2>3. HandleOK'
    BY <1>0, <1>2, <1>5, <2>1, <2>2 DEF HandleOK, Early
  <2>4. QED
    BY <1>1, <1>2, <1>5, <2>1, <2>3 DEF Flying, Early
<1>6. CASE HandleStart
  <2>1. CASE h' = [h EXCEPT !.at = "barrier", !.s = session]
    <3>1. h.at = "start" /\ lease' = lease
      BY <1>6 DEF HandleStart
    <3>2. h' \in Handler /\ h'.at = "barrier" /\ h'.r = h.r
      BY <1>0, <2>1 DEF Handler, Place, Early
    <3>3. HandleOK'
      BY <1>0, <1>2, <1>3, <3>1, <3>2 DEF HandleOK, Early
    <3>4. QED
      BY <1>0, <1>1, <1>2, <3>1, <3>2, <3>3 DEF Flying, Early
  <2>2. CASE Goto("done")
    BY <1>0, <1>5, <1>6, <2>2 DEF HandleStart, Early
  <2>3. QED
    BY <1>6, <2>1, <2>2 DEF HandleStart
<1>7. CASE AcquireBarrier
  <2>1. h.at = "barrier"
    BY <1>7 DEF AcquireBarrier
  <2>2. CASE lease' = [s |-> h.s, fence |-> IF h.r \in isTask THEN h.r ELSE 0] /\ Goto("begin")
    <3>1. h' \in Handler /\ h'.at = "begin" /\ h'.r = h.r
      BY <1>0, <2>2, GotoRow DEF Place, Early
    <3>2. h.r \in Req \cup {0} /\ h.s \in Nat
      BY <1>0 DEF Handler
    <3>3. lease' \in [s : Nat, fence : Req \cup {0}] /\ lease'.fence \in {0, h.r}
      BY <2>2, <3>2
    <3>4. HandleOK'
      BY <1>0, <1>2, <1>3, <2>1, <3>1, <3>3 DEF HandleOK, Early
    <3>5. QED
      BY <1>1, <1>2, <2>1, <3>1, <3>3, <3>4 DEF Flying, Early
  <2>3. CASE Goto("done") /\ UNCHANGED lease
    BY <1>0, <1>5, <2>1, <2>3 DEF Early
  <2>4. QED
    BY <1>7, <2>2, <2>3 DEF AcquireBarrier
<1>8. CASE InboxBegin
  <2>1. h.at = "begin"
    BY <1>8 DEF InboxBegin
  <2>2. CASE Goto("bind") /\ UNCHANGED lease
    <3>1. h' \in Handler /\ h'.at = "bind" /\ h'.r = h.r
      BY <1>0, <2>2, GotoRow DEF Place, Early
    <3>2. HandleOK'
      BY <1>0, <1>2, <1>3, <2>1, <2>2, <3>1 DEF HandleOK, Early
    <3>3. QED
      BY <1>0, <1>1, <1>2, <2>1, <2>2, <3>1, <3>2 DEF Flying, Early
  <2>3. CASE Goto("done") /\ lease' = NoLease
    BY <1>4, <1>5, <2>1, <2>3 DEF Early
  <2>4. QED
    BY <1>8, <2>2, <2>3 DEF InboxBegin
<1>9. CASE BindTaskFence
  <2>1. h.at = "bind" /\ Goto("submit") /\ UNCHANGED lease
    BY <1>9 DEF BindTaskFence
  <2>2. h' \in Handler /\ h'.at = "submit" /\ h'.r = h.r
    BY <1>0, <2>1, GotoRow DEF Place, Early
  <2>3. HandleOK'
    BY <1>0, <1>2, <1>3, <2>1, <2>2 DEF HandleOK, Early
  <2>4. QED
    BY <1>0, <1>1, <1>2, <2>1, <2>2, <2>3 DEF Flying, Early
<1>10. CASE ResultSettled
  <2>1. h.at = "run" /\ Goto("terminal") /\ UNCHANGED lease
    BY <1>10 DEF ResultSettled
  <2>2. h' \in Handler /\ h'.at = "terminal" /\ h'.r = h.r
    BY <1>0, <2>1, GotoRow DEF Place, Early
  <2>3. HandleOK'
    BY <1>0, <1>2, <2>1, <2>2 DEF HandleOK, Early
  <2>4. QED
    BY <1>0, <1>1, <1>2, <2>1, <2>2, <2>3 DEF Flying
<1>11. CASE ObserveTerminal
  <2>1. h.at = "terminal" /\ UNCHANGED lease
    BY <1>11 DEF ObserveTerminal
  <2>2. CASE h.r \in terminal /\ h' = [h EXCEPT !.at = "stop", !.cancelled = inbox.cancelled]
    <3>1. inbox.cancelled \in BOOLEAN
      BY DEF Inv, TypeOK, LoopOK, Inbox
    <3>2. h' \in Handler /\ h'.at = "stop" /\ h'.r = h.r
      BY <1>0, <2>2, <3>1 DEF Handler, Place
    <3>3. child \notin Req
      BY <1>0, <2>1, <2>2 DEF ActorOK, HandleOK
    <3>4. HandleOK'
      BY <1>0, <1>2, <2>1, <2>2, <3>2, <3>3 DEF HandleOK, Early
    <3>5. QED
      BY <1>0, <1>1, <1>2, <2>1, <3>2, <3>4 DEF Flying, Early
  <2>3. CASE ~HasTurn(h.r) /\ Goto("done")
    <3>1. h' \in Handler /\ h'.at = "done" /\ h'.r = h.r
      BY <1>0, <2>3, GotoRow DEF Place
    <3>2. child \notin Req
      BY <1>0, <2>3, Constants DEF HasTurn, ActorOK, HandleOK
    <3>3. HandleOK'
      BY <1>0, <1>2, <2>1, <3>1, <3>2 DEF HandleOK, Early
    <3>4. QED
      BY <1>0, <1>1, <1>2, <2>1, <3>1, <3>3 DEF Flying, Early
  <2>4. QED
    BY <1>11, <2>2, <2>3 DEF ObserveTerminal
<1>12. CASE FinishExecution
  <2>1. h.at = "stop"
    BY <1>12 DEF FinishExecution
  <2>2. CASE Goto("done") /\ UNCHANGED lease
    BY <1>0, <1>5, <2>1, <2>2
  <2>3. CASE Goto("idle") /\ lease' = NoLease
    <3>1. h' \in Handler /\ h'.at = "idle" /\ h'.r = h.r
      BY <1>0, <2>3, GotoRow DEF Place
    <3>2. HandleOK'
      BY <1>0, <1>2, <2>1, <3>1 DEF HandleOK, Early
    <3>3. QED
      BY <1>1, <1>2, <1>4, <2>3, <3>1, <3>2 DEF Flying, Early
  <2>4. CASE lease.fence \in Current \cup StopPending /\ Goto("report") /\ UNCHANGED lease
    <3>1. h' \in Handler /\ h'.at = "report" /\ h'.r = h.r
      BY <1>0, <2>4, GotoRow DEF Place
    <3>2. lease.fence # 0
      BY <2>4, Constants DEF Current, StopPending
    <3>3. HandleOK'
      BY <1>0, <1>2, <2>1, <2>4, <3>1, <3>2 DEF HandleOK, Early
    <3>4. QED
      BY <1>0, <1>1, <1>2, <2>4, <3>1, <3>3 DEF Flying, Early
  <2>5. QED
    BY <1>12, <2>2, <2>3, <2>4 DEF FinishExecution
<1>13. QED
  BY <1>6, <1>7, <1>8, <1>9, <1>10, <1>11, <1>12

\* The request is handed to the child at most once.
LEMMA SubmitStep ==
    ASSUME Inv, Submit
    PROVE  Inv'
<1>0. /\ h \in Handler /\ HandleOK /\ ActorOK /\ h.r \in Req \cup {0} /\ LoopOK
  BY DEF Inv, TypeOK, LoopOK, Handler
<1>1. /\ h.at = "submit" /\ StartTurn(h.r)
      /\ Goto(IF child' = h.r THEN "run" ELSE "terminal")
      /\ UNCHANGED <<up, session, open, asked, canceling, events, host, turn, local, inbox, lease, confirmed>>
  BY DEF Submit, router, loop
<1>2. h.r \in Req /\ Unstarted(h.r) /\ turn.r = h.r /\ asked[h.r] # 0 /\ child \notin Req /\ h.r # 0
  BY <1>0, <1>1, Constants DEF HandleOK, Early
<1>3. Started(h.r) \/ (Settles /\ child' # h.r)
  BY <1>0, <1>1, <1>2, Constants, StartTurnEffect DEF Unstarted
<1>4. ActorOK' /\ TablesOK'
  BY <1>3 DEF Started, Settles, ActorOK
<1>5. h' \in Handler /\ h'.r = h.r /\ h'.at = IF child' = h.r THEN "run" ELSE "terminal"
  <2>1. (IF child' = h.r THEN "run" ELSE "terminal") \in Place
    BY DEF Place
  <2>2. QED
    BY <1>0, <1>1, <2>1, GotoRow
<1>6. TypeOK'
  BY <1>1, <1>4, <1>5 DEF Inv, TypeOK, RouterOK, LoopOK
<1>7. Shift(0)
  BY <1>0, <1>1, ShiftSame
<1>8. /\ \A r \in Req \ {h.r} : Unstarted(r) => Unstarted(r)'
      /\ \A r \in Req \ {h.r} :
           r \in settled' \cup confirmed' \cup {prov'.r} => r \in settled \cup confirmed \cup {prov.r}
  BY <1>1, <1>3, Constants DEF Started, Settles, Unstarted
<1>9. FreshOK'
  BY <1>1, <1>5, <1>6, <1>7, <1>8, FreshKept
<1>10. RouteOK'
  <2>1. open' # 0 => canceling'.r = 0 /\ up'
    BY <1>1 DEF Inv, RouteOK
  <2>2. h.at \in Flying
    BY <1>1 DEF Flying, Early
  <2>3. QED
    BY <1>1, <1>5, <1>6, <1>7, <2>1, <2>2, RouteKept
<1>11. HandleOK'
  <2>1. child' \in Req => child' = h.r
    BY <1>2, <1>3, Constants DEF Started, Settles
  <2>2. confirmed \subseteq terminal'
    BY <1>0, <1>3 DEF HandleOK, Started, Settles
  <2>3. lease.fence \in {0, h.r}
    BY <1>0, <1>1 DEF HandleOK
  <2>4. h'.at \in {"run", "terminal"} /\ (child' = h.r => h'.at = "run")
    BY <1>5
  <2>5. QED
    BY <1>1, <1>2, <1>5, <2>1, <2>2, <2>3, <2>4 DEF HandleOK, Early
<1>12. LocalOK'
  <2>1. LocalOK /\ h.r # Local
    BY <1>2, Constants DEF Inv
  <2>2. QED
    BY <1>1, <1>3, <2>1, Constants DEF LocalOK, Started, Settles
<1>13. HostOK'
  BY <1>1, <1>3 DEF Inv, HostOK, Started, Settles
<1>14. QED
  BY <1>4, <1>6, <1>9, <1>10, <1>11, <1>12, <1>13 DEF Inv

LEMMA ReportStep ==
    ASSUME Inv, ReportStopped
    PROVE  Inv'
<1>0. /\ h \in Handler /\ HandleOK /\ ActorOK /\ LoopOK /\ lease \in [s : Nat, fence : Req \cup {0}]
  BY DEF Inv, TypeOK, LoopOK
<1>1. /\ h.at = "report"
      /\ UNCHANGED <<up, session, open, asked, canceling, events, host, turn, local, inbox>>
      /\ UNCHANGED <<prov, child, ended, settled, terminal>>
  BY DEF ReportStopped, loop, actor
<1>2. /\ h.r \in Req /\ turn.r = h.r /\ asked[h.r] # 0 /\ h.r \in terminal /\ lease.fence = h.r
      /\ child \notin Req
  BY <1>0, <1>1 DEF HandleOK
<1>3. \/ confirmed' = confirmed \cup {h.r} /\ lease' = NoLease /\ Goto("idle")
      \/ confirmed' = confirmed /\ lease' = lease /\ Goto("done")
  BY <1>2 DEF ReportStopped
<1>4. h' \in Handler /\ h'.r = h.r /\ h'.at \in {"idle", "done"}
  BY <1>0, <1>3, GotoRow DEF Place
<1>5. lease' \in [s : Nat, fence : Req \cup {0}] /\ confirmed' \subseteq Req
  BY <1>0, <1>2, <1>3 DEF NoLease, LoopOK
<1>6. TypeOK' /\ ActorOK'
  BY <1>1, <1>4, <1>5 DEF Inv, TypeOK, RouterOK, LoopOK, TablesOK, ActorOK
<1>7. Shift(0)
  BY <1>0, <1>1, ShiftSame
<1>8. FreshOK'
  BY <1>1, <1>3, <1>4, <1>6, <1>7, FreshKept DEF Unstarted
<1>9. RouteOK'
  <2>1. open' # 0 => canceling'.r = 0 /\ up'
    BY <1>1 DEF Inv, RouteOK
  <2>2. QED
    BY <1>1, <1>4, <1>6, <1>7, <2>1, RouteKept DEF Flying, Early
<1>10. HandleOK'
  BY <1>0, <1>1, <1>2, <1>3, <1>4 DEF HandleOK, Early
<1>11. LocalOK' /\ HostOK'
  BY <1>1 DEF Inv, LocalOK, HostOK
<1>12. QED
  BY <1>6, <1>8, <1>9, <1>10, <1>11 DEF Inv

LEMMA WorkIdleStep ==
    ASSUME Inv, WorkIdle
    PROVE  Inv'
<1>0. /\ h \in Handler /\ HandleOK /\ ActorOK /\ LoopOK /\ RouteOK /\ RouterOK
  BY DEF Inv, TypeOK, LoopOK
<1>1. /\ h.at = "idle" /\ Goto("done")
      /\ UNCHANGED <<up, session, open, asked, events, host, turn, local, lease, confirmed>>
      /\ UNCHANGED <<prov, child, ended, settled, terminal>>
  BY DEF WorkIdle, loop, actor
<1>2. /\ h.r \in Req /\ turn.r = h.r /\ asked[h.r] # 0 /\ h.r \in terminal /\ child \notin Req
  BY <1>0, <1>1 DEF HandleOK
<1>3. h' \in Handler /\ h'.r = h.r /\ h'.at = "done"
  BY <1>0, <1>1, GotoRow DEF Place
<1>4. \/ canceling' = canceling
      \/ canceling.r = h.r /\ canceling' = NoCancel
  BY DEF WorkIdle
<1>5. /\ canceling' \in [r : Req \cup {0}, fenced : BOOLEAN] /\ (canceling.r = 0 => canceling'.r = 0)
      /\ canceling'.r # canceling.r => canceling.r = h.r
  <2>1. NoCancel \in [r : Req \cup {0}, fenced : BOOLEAN] /\ NoCancel.r = 0
    BY DEF NoCancel
  <2>2. canceling \in [r : Req \cup {0}, fenced : BOOLEAN]
    BY <1>0 DEF RouterOK
  <2>3. QED
    BY <1>4, <2>1, <2>2
<1>6. inbox' \in Inbox
  <2>1. EmptyInbox \in Inbox /\ inbox \in Inbox
    BY <1>0 DEF EmptyInbox, Inbox, LoopOK
  <2>2. inbox' = EmptyInbox \/ inbox' = inbox
    BY DEF WorkIdle
  <2>3. QED
    BY <2>1, <2>2
<1>7. TypeOK' /\ ActorOK'
  BY <1>0, <1>1, <1>3, <1>5, <1>6 DEF Inv, TypeOK, RouterOK, LoopOK, TablesOK, ActorOK
<1>8. Shift(0)
  BY <1>0, <1>1, ShiftSame
<1>9. FreshOK'
  BY <1>1, <1>3, <1>7, <1>8, FreshKept DEF Unstarted
<1>10. RouteOK'
  <2>1. open' # 0 => canceling'.r = 0 /\ up'
    BY <1>0, <1>1, <1>5 DEF RouteOK
  <2>2. \A r \in Req \ {h.r} : open = r \/ canceling.r = r => open' = r \/ canceling'.r = r
    BY <1>1, <1>5
  <2>3. h'.at \notin Flying
    BY <1>3 DEF Flying, Early
  <2>4. h.r \in Req \cup {0}
    BY <1>2
  <2>5. QED
    BY <1>1, <1>7, <1>8, <2>1, <2>2, <2>3, <2>4, RouteKept
<1>11. HandleOK'
  BY <1>0, <1>1, <1>2, <1>3 DEF HandleOK, Early
<1>12. LocalOK' /\ HostOK'
  BY <1>1 DEF Inv, LocalOK, HostOK
<1>13. QED
  BY <1>7, <1>9, <1>10, <1>11, <1>12 DEF Inv

-----------------------------------------------------------------------------
(* The host loop.                                                             *)

LEMMA HandleKept ==
    ASSUME Inv, Settles, h' = h, lease' = lease, confirmed' = confirmed, asked' = asked, turn'.r = turn.r
    PROVE  HandleOK'
<1>1. child' \in Req => child' = child
  BY Constants DEF Settles
<1>2. h.r \in Req \cup {0} /\ HandleOK
  BY DEF Inv, TypeOK, LoopOK, Handler
<1>3. h.at \in Early => h.r \in Req
  BY <1>2 DEF HandleOK, Early
<1>4. \A r \in Req : Unstarted(r) => Unstarted(r)'
  BY SettlesKeeps DEF Inv
<1>5. QED
  BY <1>1, <1>2, <1>3, <1>4 DEF HandleOK, Settles, Unstarted

LEMMA LoopStep ==
    ASSUME Inv, Settles, TypeOK', NEW k \in Nat, Shift(k),
           asked' = asked, session' = session, up' => up, confirmed' = confirmed,
           open' # 0 => canceling'.r = 0 /\ up',
           NEW f \in Req \cup {0},
           \A r \in Req \ {f} : up' /\ (open = r \/ canceling.r = r) => open' = r \/ canceling'.r = r,
           \/ f = 0
           \/ f = h.r /\ h'.at \notin Flying
           \/ Taken(k, f) /\ h'.r = h.r,
           h'.r \in {h.r, 0} \/ Taken(k, h'.r),
           h'.at \in Flying => (h'.r = h.r /\ h.at \in Flying) \/ Taken(k, h'.r),
           HandleOK',
           prov.r = Local /\ Local \notin settled /\ local' # local => host' # "run",
           local' = "submit" => local = "submit",
           host' = "run" => host = "run",
           host' = "ended" => local' = "none",
           host' \in {"closed", "ended"} => child' = 0 /\ prov'.st = "closed"
    PROVE  Inv'
<1>1. /\ \A r \in Req : Unstarted(r) => Unstarted(r)'
      /\ \A r \in Req :
           r \in settled' \cup confirmed' \cup {prov'.r} => r \in settled \cup confirmed \cup {prov.r}
  BY SettlesKeeps DEF Inv
<1>2. FreshOK'
  BY <1>1, FreshKept DEF Unstarted
<1>3. RouteOK'
  BY RouteKept
<1>4. LocalOK'
  <2>1. LocalOK /\ prov'.r \in {prov.r, 0} /\ settled \subseteq settled' /\ settled' \subseteq settled \cup {prov.r}
    BY DEF Inv, Settles
  <2>2. prov'.r = Local => prov.r = Local
    BY <2>1, Constants
  <2>3. local' = "submit" => Local \notin settled' /\ prov'.r # Local
    BY <2>1, <2>2 DEF LocalOK
  <2>4. prov'.r = Local /\ Local \notin settled' => local' \in {"run", "terminal"} \/ host' # "run"
    BY <2>1, <2>2 DEF LocalOK
  <2>5. QED
    BY <2>3, <2>4 DEF LocalOK
<1>5. HostOK'
  BY DEF HostOK
<1>6. QED
  BY <1>2, <1>3, <1>4, <1>5 DEF Inv, Settles

LEMMA ClientEventStep ==
    ASSUME Inv, HandleClientEvent
    PROVE  Inv'
<1>0. /\ LoopOK /\ RouterOK /\ HandleOK /\ ActorOK /\ RouteOK /\ FreshOK /\ TypeOK
  BY DEF Inv, TypeOK
<1>1. /\ host = "run" /\ events # <<>> /\ events' = Tail(events)
      /\ UNCHANGED <<up, session, asked, canceling, local, lease, confirmed>>
  BY DEF HandleClientEvent
<1>2. /\ Shift(1) /\ events' \in Seq(Event) /\ 1 \in 1 .. Len(events)
      /\ Head(events) = events[1] /\ events[1] \in Event
  BY <1>0, <1>1, ShiftTail
<1> DEFINE e == events[1]
<1>3. e.r \in Req /\ e.r # 0
  BY <1>2, Constants DEF Event
<1>4. \/ e.type = "deliver" /\ ReceiveDelivery(e.r) /\ UNCHANGED inbox
      \/ e.type = "cancel" /\ CancelDelivery(e.r, e.fenced) /\ UNCHANGED <<h, open, attempt>>
  BY <1>2 DEF HandleClientEvent
<1>5. e.type = "deliver" => Delivers(1) /\ Taken(1, e.r)
  BY <1>2 DEF Delivers, Taken
<1> HIDE DEF e
\* The loop goes on or begins to close, with the delivery in progress as it was.
<1>6. ASSUME h' = h, Settles, host' \in {"run", "closing"}, inbox' \in Inbox,
             turn' \in [r : Req \cup {0}, cancelled : BOOLEAN], turn'.r = turn.r,
             open' = open \/ (e.type = "deliver" /\ open = e.r /\ open' = 0)
      PROVE  Inv'
  <2>1. TypeOK'
    BY <1>0, <1>1, <1>2, <1>6 DEF TypeOK, LoopOK, RouterOK, Settles, ActorOK
  <2>2. HandleOK'
    BY <1>1, <1>6, HandleKept
  <2>3. open' # 0 => canceling'.r = 0 /\ up'
    BY <1>0, <1>1, <1>6 DEF RouteOK
  <2>4. h'.at \in Flying => h'.r = h.r /\ h.at \in Flying
    BY <1>6
  <2>5. CASE open' = open
    BY <1>1, <1>2, <1>6, <2>1, <2>2, <2>3, <2>4, <2>5, LoopStep
  <2>6. CASE e.type = "deliver" /\ open = e.r /\ open' = 0
    <3>1. \A r \in Req \ {e.r} : up' /\ (open = r \/ canceling.r = r) => open' = r \/ canceling'.r = r
      BY <1>1, <2>6
    <3>2. e.r \in Req \cup {0} /\ Taken(1, e.r)
      BY <1>3, <1>5, <2>6
    <3>3. QED
      BY <1>1, <1>2, <1>6, <2>1, <2>2, <2>3, <2>4, <3>1, <3>2, LoopStep
  <2>7. QED
    BY <1>6, <2>5, <2>6
<1>7. inbox \in Inbox /\ turn \in [r : Req \cup {0}, cancelled : BOOLEAN] /\ "run" \in {"run", "closing"}
  BY <1>0 DEF LoopOK
<1>8. CASE e.type = "deliver" /\ ReceiveDelivery(e.r) /\ UNCHANGED inbox
  <2>1. CASE ~Busy /\ turn' = [r |-> e.r, cancelled |-> FALSE]
             /\ h' = [NoHandle EXCEPT !.at = "start", !.r = e.r] /\ UNCHANGED <<host, actor, open, attempt>>
    <3>1. h.at = "none" /\ h.r = 0 /\ child \notin Req
      <4>1. turn.r = 0
        BY <2>1 DEF Busy, NoTurn
      <4>2. QED
        BY <1>0, <4>1, Constants DEF HandleOK
    <3>2. h' \in Handler /\ h'.at = "start" /\ h'.r = e.r
      BY <1>3, <2>1 DEF NoHandle, Handler, Place, Early
    <3>3. Settles
      BY <1>0, <2>1, ActorQuiet
    <3>4. turn' \in [r : Req \cup {0}, cancelled : BOOLEAN] /\ turn'.r = e.r
      BY <1>3, <2>1
    <3>5. TypeOK'
      BY <1>0, <1>1, <1>2, <1>7, <1>8, <2>1, <3>2, <3>3, <3>4 DEF TypeOK, LoopOK, RouterOK, Settles, ActorOK
    <3>6. Unstarted(e.r) /\ asked[e.r] # 0
      BY <1>0, <1>2, <1>5, <1>8 DEF FreshOK, e
    <3>7. UNCHANGED <<prov, child, settled, terminal>>
      BY <2>1 DEF actor
    <3>8. HandleOK'
      BY <1>0, <1>1, <1>3, <3>1, <3>2, <3>4, <3>6, <3>7 DEF HandleOK, Early, Unstarted
    <3>9. open' # 0 => canceling'.r = 0 /\ up'
      BY <1>0, <1>1, <2>1 DEF RouteOK
    <3>10. Taken(1, h'.r) /\ host' = "run"
      BY <1>1, <1>5, <1>8, <2>1, <3>2
    <3>11. QED
      BY <1>1, <1>2, <2>1, <3>3, <3>5, <3>8, <3>9, <3>10, LoopStep
  <2>2. CASE Busy /\ up /\ Replied(e.r) /\ UNCHANGED <<turn, h, host, actor>>
    <3>1. open' = open \/ (open = e.r /\ open' = 0)
      BY <2>2 DEF Replied
    <3>2. Settles
      BY <1>0, <2>2, ActorQuiet
    <3>3. QED
      BY <1>1, <1>6, <1>7, <1>8, <2>2, <3>1, <3>2
  <2>3. CASE Close(IF local = "none" THEN turn.r ELSE Local) /\ UNCHANGED <<turn, h, open, attempt>>
    <3>1. Settles /\ host' = "closing"
      BY <1>0, <2>3, CancelTurnSettles DEF Close
    <3>2. QED
      BY <1>6, <1>7, <1>8, <2>3, <3>1
  <2>4. QED
    BY <1>8, <2>1, <2>2, <2>3 DEF ReceiveDelivery
<1>9. CASE e.type = "cancel" /\ CancelDelivery(e.r, e.fenced) /\ UNCHANGED <<h, open, attempt>>
  <2>1. CASE UNCHANGED <<turn, inbox, host, actor>>
    <3>1. Settles
      BY <1>0, <2>1, ActorQuiet
    <3>2. QED
      BY <1>1, <1>6, <1>7, <1>9, <2>1, <3>1
  <2>2. CASE turn' = [turn EXCEPT !.cancelled = TRUE] /\ RequestCancel(e.r, e.fenced)
    <3>1. turn' \in [r : Req \cup {0}, cancelled : BOOLEAN] /\ turn'.r = turn.r
      BY <1>7, <2>2
    <3>2. inbox' \in Inbox
      <4>1. inbox' = inbox \/ inbox' = [inbox EXCEPT !.cancelled = TRUE]
        BY <2>2 DEF RequestCancel
      <4>2. QED
        BY <1>7, <4>1 DEF Inbox
    <3>3. Settles /\ host' \in {"run", "closing"}
      <4>1. CASE Close(e.r)
        BY <1>0, <4>1, CancelTurnSettles DEF Close
      <4>2. CASE UNCHANGED <<host, actor>>
        BY <1>0, <1>1, <4>2, ActorQuiet
      <4>3. CASE CancelTurn(e.r) /\ UNCHANGED host
        BY <1>0, <1>1, <4>3, CancelTurnSettles
      <4>4. QED
        BY <2>2, <4>1, <4>2, <4>3 DEF RequestCancel
    <3>4. QED
      BY <1>6, <1>9, <3>1, <3>2, <3>3
  <2>3. QED
    BY <1>9, <2>1, <2>2 DEF CancelDelivery
<1>10. QED
  BY <1>4, <1>8, <1>9

LEMMA FinishTurnStep ==
    ASSUME Inv, FinishTurn
    PROVE  Inv'
<1>0. /\ LoopOK /\ RouterOK /\ HandleOK /\ ActorOK /\ RouteOK /\ TypeOK
  BY DEF Inv, TypeOK
<1>1. /\ host = "run" /\ h.at = "done" /\ turn' = NoTurn /\ h' = NoHandle
      /\ UNCHANGED <<up, session, asked, canceling, events, local, inbox, lease, confirmed, actor>>
  BY DEF FinishTurn
<1>2. h.r \in Req /\ turn.r = h.r /\ child \notin Req
  BY <1>0, <1>1 DEF HandleOK
<1>3. open' = open \/ (open = h.r /\ open' = 0)
  BY <1>2 DEF FinishTurn, Replied
<1>4. host' \in {"run", "closing"}
  BY <1>1 DEF FinishTurn
<1>5. h' \in Handler /\ h'.at = "none" /\ h'.r = 0
  BY <1>1 DEF NoHandle, Handler, Place
<1>6. turn' \in [r : Req \cup {0}, cancelled : BOOLEAN]
  BY <1>1 DEF NoTurn
<1>7. Settles /\ Shift(0) /\ UNCHANGED <<prov, child, settled, terminal>>
  BY <1>0, <1>1, ActorQuiet, ShiftSame DEF actor
<1>8. TypeOK'
  BY <1>0, <1>1, <1>3, <1>4, <1>5, <1>6, <1>7 DEF TypeOK, LoopOK, RouterOK, Settles, ActorOK
<1>9. HandleOK'
  BY <1>0, <1>1, <1>2, <1>5, <1>7 DEF HandleOK, Early
<1>10. open' # 0 => canceling'.r = 0 /\ up'
  BY <1>0, <1>1, <1>3 DEF RouteOK
<1>11. \A r \in Req \ {h.r} : up' /\ (open = r \/ canceling.r = r) => open' = r \/ canceling'.r = r
  BY <1>1, <1>3
<1>12. h'.at \notin Flying /\ h.r \in Req \cup {0}
  BY <1>2, <1>5 DEF Flying, Early
<1>13. QED
  BY <1>1, <1>4, <1>5, <1>7, <1>8, <1>9, <1>10, <1>11, <1>12, LoopStep

LEMMA FinishLocalTurnStep ==
    ASSUME Inv, FinishLocalTurn
    PROVE  Inv'
<1>0. /\ LoopOK /\ RouterOK /\ ActorOK /\ RouteOK /\ LocalOK /\ TypeOK
  BY DEF Inv, TypeOK
<1>1. /\ host = "run" /\ local \in {"done", "failed"} /\ local' = "none" /\ host' \in {"run", "closing"}
      /\ UNCHANGED <<up, session, open, asked, canceling, events, turn, h, inbox, lease, confirmed, actor>>
  BY DEF FinishLocalTurn, router, handling
<1>2. Settles /\ Shift(0)
  BY <1>0, <1>1, ActorQuiet, ShiftSame
<1>3. TypeOK'
  BY <1>0, <1>1, <1>2 DEF TypeOK, LoopOK, RouterOK, Settles, ActorOK
<1>4. HandleOK'
  BY <1>1, <1>2, HandleKept
<1>5. open' # 0 => canceling'.r = 0 /\ up'
  BY <1>0, <1>1 DEF RouteOK
<1>6. ~(prov.r = Local /\ Local \notin settled)
  BY <1>0, <1>1 DEF LocalOK
<1>7. QED
  BY <1>1, <1>2, <1>3, <1>4, <1>5, <1>6, LoopStep

LEMMA CloseProviderStep ==
    ASSUME Inv, CloseProvider
    PROVE  Inv'
<1>0. /\ LoopOK /\ RouterOK /\ ActorOK /\ RouteOK /\ TypeOK
  BY DEF Inv, TypeOK
<1>1. /\ host' = "closed" /\ FinishActor
      /\ UNCHANGED <<up, session, open, asked, canceling, events, turn, local, h, inbox, lease, confirmed>>
  BY DEF CloseProvider, CloseActor, router, handling
<1>2. Settles /\ prov'.st = "closed" /\ child' = 0 /\ Shift(0)
  BY <1>0, <1>1, FinishActorSettles, ShiftSame
<1>3. TypeOK'
  BY <1>0, <1>1, <1>2 DEF TypeOK, LoopOK, RouterOK, Settles, ActorOK
<1>4. HandleOK'
  BY <1>1, <1>2, HandleKept
<1>5. open' # 0 => canceling'.r = 0 /\ up'
  BY <1>0, <1>1 DEF RouteOK
<1>6. QED
  BY <1>1, <1>2, <1>3, <1>4, <1>5, LoopStep

LEMMA CloseClientStep ==
    ASSUME Inv, CloseClient
    PROVE  Inv'
<1>0. /\ LoopOK /\ RouterOK /\ ActorOK /\ HandleOK /\ HostOK /\ TypeOK
  BY DEF Inv, TypeOK
<1>1. /\ host = "closed" /\ host' = "ended" /\ events' = <<>> /\ turn' = NoTurn /\ local' = "none"
      /\ h' = NoHandle /\ up' = FALSE /\ open' = 0 /\ canceling' = NoCancel
      /\ UNCHANGED <<session, asked, inbox, lease, confirmed, actor>>
  BY DEF CloseClient, Drop
<1>2. child = 0 /\ prov.st = "closed" /\ prov.r = 0
  BY <1>0, <1>1 DEF HostOK, ActorOK
<1>3. Settles /\ UNCHANGED <<prov, child, settled, terminal>>
  BY <1>0, <1>1, ActorQuiet DEF actor
<1>4. events' \in Seq(Event) /\ Shift(0)
  BY <1>1 DEF Shift
<1>5. h' \in Handler /\ h'.at = "none" /\ h'.r = 0
  BY <1>1 DEF NoHandle, Handler, Place
<1>6. /\ turn' \in [r : Req \cup {0}, cancelled : BOOLEAN]
      /\ canceling' \in [r : Req \cup {0}, fenced : BOOLEAN]
  BY <1>1 DEF NoTurn, NoCancel
<1>7. TypeOK'
  BY <1>0, <1>1, <1>3, <1>4, <1>5, <1>6 DEF TypeOK, LoopOK, RouterOK, Settles, ActorOK
<1>8. HandleOK'
  BY <1>0, <1>1, <1>2, <1>3, <1>5, Constants DEF HandleOK, Early
<1>9. h'.at \notin Flying
  BY <1>5 DEF Flying, Early
<1>10. QED
  BY <1>1, <1>2, <1>3, <1>4, <1>5, <1>7, <1>8, <1>9, LoopStep

LEMMA ShutdownStep ==
    ASSUME Inv, Shutdown
    PROVE  Inv'
<1>0. /\ LoopOK /\ RouterOK /\ ActorOK /\ RouteOK /\ TypeOK
  BY DEF Inv, TypeOK
<1>1. /\ host' = "closing" /\ turn' = [turn EXCEPT !.cancelled = TRUE]
      /\ CancelTurn(IF turn # NoTurn THEN turn.r ELSE Local)
      /\ UNCHANGED <<up, session, open, asked, canceling, events, local, h, inbox, lease, confirmed>>
  BY DEF Shutdown, Close, router, handling
<1>2. turn' \in [r : Req \cup {0}, cancelled : BOOLEAN] /\ turn'.r = turn.r
  BY <1>0, <1>1 DEF LoopOK
<1>3. Settles /\ Shift(0)
  BY <1>0, <1>1, CancelTurnSettles, ShiftSame
<1>4. TypeOK'
  BY <1>0, <1>1, <1>2, <1>3 DEF TypeOK, LoopOK, RouterOK, Settles, ActorOK
<1>5. HandleOK'
  BY <1>1, <1>2, <1>3, HandleKept
<1>6. open' # 0 => canceling'.r = 0 /\ up'
  BY <1>0, <1>1 DEF RouteOK
<1>7. QED
  BY <1>1, <1>3, <1>4, <1>5, <1>6, LoopStep

-----------------------------------------------------------------------------
(* The terminal of the host.                                                  *)

LEMMA LocalStep ==
    ASSUME Inv, Settles \/ Started(Local),
           local' \in {"none", "submit", "run", "terminal", "done", "failed"}, LocalOK',
           UNCHANGED <<up, session, open, asked, canceling, events, host, turn>>,
           UNCHANGED <<h, inbox, lease, confirmed>>
    PROVE  Inv'
<1>0. ActorOK' /\ HandleOK /\ h.r \in Req \cup {0}
  BY DEF Settles, Started, Inv, TypeOK, LoopOK, Handler
<1>1. TypeOK'
  BY <1>0 DEF Inv, TypeOK, RouterOK, LoopOK, ActorOK
<1>2. Shift(0)
  BY ShiftSame DEF Inv, TypeOK
<1>3. /\ \A r \in Req : Unstarted(r) => Unstarted(r)'
      /\ \A r \in Req :
           r \in settled' \cup confirmed' \cup {prov'.r} => r \in settled \cup confirmed \cup {prov.r}
  BY SettlesKeeps, Constants DEF Inv, Started, Unstarted
<1>4. FreshOK'
  BY <1>1, <1>2, <1>3, FreshKept
<1>5. RouteOK'
  <2>1. open' # 0 => canceling'.r = 0 /\ up'
    BY DEF Inv, RouteOK
  <2>2. QED
    BY <1>1, <1>2, <2>1, RouteKept
<1>6. HandleOK'
  <2>1. child' \in Req => child' = child
    BY Constants DEF Settles, Started
  <2>2. h.at \in Early => h.r \in Req
    BY <1>0 DEF HandleOK, Early
  <2>3. terminal \subseteq terminal'
    BY DEF Settles, Started
  <2>4. QED
    BY <1>0, <1>3, <2>1, <2>2, <2>3 DEF HandleOK
<1>7. HostOK'
  BY DEF Inv, HostOK, Settles, Started
<1>8. QED
  BY <1>0, <1>1, <1>4, <1>5, <1>6, <1>7 DEF Inv

LEMMA LocalSteps ==
    ASSUME Inv, LocalLine \/ LocalSubmit \/ LocalWait
    PROVE  Inv'
<1>0. LocalOK /\ ActorOK /\ LoopOK /\ Local \in Turn
  BY Constants DEF Inv, TypeOK
<1>1. /\ UNCHANGED <<up, session, open, asked, canceling, events, host, turn>>
      /\ UNCHANGED <<h, inbox, lease, confirmed>>
  BY DEF LocalLine, LocalSubmit, LocalWait, router, handling
<1>2. CASE LocalLine
  <2>1. /\ host = "run" /\ local = "none" /\ Local \notin settled /\ local' = "submit"
        /\ UNCHANGED <<prov, settled>>
    BY <1>2 DEF LocalLine, Busy, actor
  <2>2. Settles
    BY <1>0, <1>2, ActorQuiet DEF LocalLine
  <2>3. LocalOK'
    BY <1>0, <1>1, <2>1 DEF LocalOK
  <2>4. QED
    BY <1>1, <2>1, <2>2, <2>3, LocalStep
<1>3. CASE LocalSubmit
  <2>1. local = "submit" /\ StartTurn(Local) /\ local' = IF child' = Local THEN "run" ELSE "terminal"
    BY <1>3 DEF LocalSubmit
  <2>2. Local \notin settled /\ prov.r # Local
    BY <1>0, <2>1 DEF LocalOK
  <2>3. Started(Local) \/ Settles
    BY <1>0, <2>1, <2>2, StartTurnEffect
  <2>4. host # "ended"
    BY <1>0, <2>1 DEF LocalOK
  <2>5. local' \in {"run", "terminal"}
    BY <2>1
  <2>6. LocalOK'
    BY <1>1, <2>4, <2>5 DEF LocalOK
  <2>7. QED
    BY <1>1, <2>3, <2>5, <2>6, LocalStep
<1>4. CASE LocalWait
  <2>1. /\ local \in {"run", "terminal"} /\ local' \in {"terminal", "done", "failed"}
        /\ local' = "done" => Local \in terminal
        /\ local' = "failed" => ~HasTurn(Local)
        /\ UNCHANGED <<prov, settled>>
    BY <1>4 DEF LocalWait, actor
  <2>2. Settles
    BY <1>0, <1>4, ActorQuiet DEF LocalWait
  <2>3. prov.r = Local => prov.st \in {"running", "cancelling"}
    BY <1>0, Constants DEF ActorOK
  <2>4. LocalOK'
    BY <1>0, <1>1, <2>1, <2>3 DEF LocalOK, HasTurn, ActorOK
  <2>5. QED
    BY <1>1, <2>1, <2>2, <2>4, LocalStep
<1>5. QED
  BY <1>2, <1>3, <1>4

LEMMA WorkspaceJoinStep ==
    ASSUME Inv, WorkspaceJoin
    PROVE  Inv'
<1>0. /\ h \in Handler /\ HandleOK
  BY DEF Inv, TypeOK, LoopOK
<1>1. /\ turn = NoTurn /\ inbox' = EmptyInbox /\ lease' = NoLease
      /\ UNCHANGED <<up, session, open, asked, canceling, events, host, turn, local, h, confirmed, actor>>
  BY DEF WorkspaceJoin, Busy, router, loop
<1>2. h.at = "none" /\ UNCHANGED <<child, terminal>>
  BY <1>0, <1>1, Constants DEF HandleOK, NoTurn, actor
<1>3. inbox' \in Inbox /\ lease' \in [s : Nat, fence : Req \cup {0}]
  BY <1>1 DEF EmptyInbox, Inbox, NoLease
<1>4. HandleOK'
  BY <1>0, <1>1, <1>2 DEF HandleOK, Early
<1>5. QED
  BY <1>0, <1>1, <1>3, <1>4, HandlerStep

-----------------------------------------------------------------------------
(* The router.                                                                *)

LEMMA Appended ==
    ASSUME LoopOK, NEW e \in Event, events' = Append(events, e)
    PROVE  /\ events' \in Seq(Event) /\ Len(events) \in Nat /\ Len(events') = Len(events) + 1
           /\ events'[Len(events) + 1] = e
           /\ \A i \in 1 .. Len(events) : events'[i] = events[i]
  BY DEF LoopOK

LEMMA CancelWorkStep ==
    ASSUME Inv, CancelWork
    PROVE  Inv'
<1>0. /\ LoopOK /\ RouterOK /\ ActorOK /\ RouteOK /\ TypeOK
  BY DEF Inv, TypeOK
<1>1. /\ open # 0 /\ open' = 0 /\ UNCHANGED <<up, session, asked, host, turn, local, h, inbox, lease, confirmed, actor>>
  BY DEF CancelWork, handling
<1>2. PICK fenced \in BOOLEAN : /\ canceling' = [r |-> open, fenced |-> fenced]
                                /\ events' = Append(events, [type |-> "cancel", r |-> open, fenced |-> fenced])
  BY DEF CancelWork
<1>3. open \in Req
  BY <1>0, <1>1 DEF RouterOK
<1>4. PICK e \in Event : e = [type |-> "cancel", r |-> open, fenced |-> fenced]
  BY <1>3 DEF Event
<1>5. canceling' \in [r : Req \cup {0}, fenced : BOOLEAN] /\ canceling'.r = open
  BY <1>2, <1>3
<1>6. /\ events' \in Seq(Event) /\ Len(events) \in Nat /\ Len(events') = Len(events) + 1
      /\ events'[Len(events) + 1] = e
      /\ \A i \in 1 .. Len(events) : events'[i] = events[i]
  BY <1>0, <1>2, <1>4, Appended
<1>7. Shift(0)
  <2>1. e.type # "deliver"
    BY <1>4
  <2>2. \A i \in 1 .. Len(events') : i \in 1 .. Len(events) \/ i = Len(events) + 1
    BY <1>6
  <2>3. \A i \in 1 .. Len(events) : i + 0 = i
    OBVIOUS
  <2>4. QED
    BY <1>6, <2>1, <2>2, <2>3 DEF Shift
<1>8. Settles
  BY <1>0, <1>1, ActorQuiet
<1>9. TypeOK'
  BY <1>0, <1>1, <1>5, <1>6, <1>8 DEF TypeOK, LoopOK, RouterOK, Settles, ActorOK
<1>10. HandleOK'
  BY <1>1, <1>8, HandleKept
<1>11. canceling.r = 0
  BY <1>0, <1>1 DEF RouteOK
<1>12. \A r \in Req : open = r \/ canceling.r = r => open' = r \/ canceling'.r = r
  BY <1>5, <1>11, Constants
<1>13. host' = "ended" => local' = "none"
  BY <1>1 DEF Inv, LocalOK
<1>14. host' \in {"closed", "ended"} => child' = 0 /\ prov'.st = "closed"
  BY <1>1 DEF Inv, HostOK, actor
<1>15. QED
  BY <1>1, <1>7, <1>8, <1>9, <1>10, <1>12, <1>13, <1>14, LoopStep

LEMMA DisconnectStep ==
    ASSUME Inv, Disconnect
    PROVE  Inv'
<1>0. /\ LoopOK /\ RouterOK /\ ActorOK /\ TypeOK
  BY DEF Inv, TypeOK
<1>1. /\ up' = FALSE /\ open' = 0 /\ canceling' = NoCancel
      /\ UNCHANGED <<session, asked, host, turn, local, h, inbox, lease, confirmed, actor>>
  BY DEF Disconnect, Drop, handling
<1>2. canceling' \in [r : Req \cup {0}, fenced : BOOLEAN]
  BY <1>1 DEF NoCancel
<1>3. Shift(0) /\ events' \in Seq(Event)
  BY <1>0, ShiftPrefix DEF Disconnect
<1>4. Settles
  BY <1>0, <1>1, ActorQuiet
<1>5. TypeOK'
  BY <1>0, <1>1, <1>2, <1>3, <1>4 DEF TypeOK, LoopOK, RouterOK, Settles, ActorOK
<1>6. HandleOK'
  BY <1>1, <1>4, HandleKept
<1>7. host' = "ended" => local' = "none"
  BY <1>1 DEF Inv, LocalOK
<1>8. host' \in {"closed", "ended"} => child' = 0 /\ prov'.st = "closed"
  BY <1>1 DEF Inv, HostOK, actor
<1>9. QED
  BY <1>1, <1>3, <1>4, <1>5, <1>6, <1>7, <1>8, LoopStep

\* A new connection has no delivery of its own.
LEMMA ReconnectStep ==
    ASSUME Inv, Reconnect
    PROVE  Inv'
<1>0. /\ LoopOK /\ RouterOK /\ ActorOK /\ RouteOK /\ TypeOK /\ HandleOK /\ h.r \in Req \cup {0}
  BY DEF Inv, TypeOK, LoopOK, Handler
<1>1. /\ ~up /\ up' = TRUE /\ session' = session + 1
      /\ UNCHANGED <<open, asked, canceling, events, host, turn, local, h, inbox, lease, confirmed>>
      /\ UNCHANGED <<prov, child, ended, settled, terminal>>
  BY DEF Reconnect, loop, handling, actor
<1>2. session' \in Nat \ {0}
  BY <1>0, <1>1 DEF RouterOK
<1>3. TypeOK' /\ ActorOK'
  BY <1>0, <1>1, <1>2 DEF TypeOK, LoopOK, RouterOK, TablesOK, ActorOK
<1>4. Shift(0)
  BY <1>0, <1>1, ShiftSame
<1>5. FreshOK'
  BY <1>1, <1>3, <1>4, FreshKept DEF Unstarted
<1>6. RouteOK'
  <2>1. \A r \in Req : asked[r] \in Nat /\ asked[r] <= session /\ session \in Nat
    BY <1>0 DEF RouteOK, RouterOK
  <2>2. \A r \in Req : asked'[r] <= session' /\ asked'[r] # session'
    BY <1>1, <2>1
  <2>3. open' = 0
    BY <1>0, <1>1 DEF RouteOK
  <2>4. \A i \in 1 .. Len(events') : events'[i].r \in Req
    BY <1>0, <1>1, EventRequest DEF LoopOK
  <2>5. h'.at \in Early \cup {"run", "terminal"} => h'.r \in Req
    BY <1>0, <1>1 DEF HandleOK, Early
  <2>6. QED
    BY <2>2, <2>3, <2>4, <2>5 DEF RouteOK, Remembered
<1>7. HandleOK' /\ LocalOK' /\ HostOK'
  BY <1>1 DEF Inv, HandleOK, LocalOK, HostOK, Unstarted
<1>8. QED
  BY <1>3, <1>5, <1>6, <1>7 DEF Inv

\* The router delivers when it has nothing open, so that the host has nothing of
\* this connection in progress.
LEMMA DeliverStep ==
    ASSUME Inv, NEW r \in Req, NEW dispatch \in BOOLEAN, Deliver(r, dispatch)
    PROVE  Inv'
<1>0. /\ LoopOK /\ RouterOK /\ ActorOK /\ RouteOK /\ TypeOK /\ HandleOK /\ FreshOK /\ h.r \in Req \cup {0}
  BY DEF Inv, TypeOK, LoopOK, Handler
<1>1. /\ up /\ open = 0 /\ canceling.r = 0 /\ asked[r] = 0
      /\ open' = r /\ asked' = [asked EXCEPT ![r] = session]
      /\ events' = Append(events, [type |-> "deliver", r |-> r, fenced |-> FALSE])
      /\ UNCHANGED <<up, session, canceling, host, turn, local, h, inbox, lease, confirmed>>
      /\ UNCHANGED <<prov, child, ended, settled, terminal>>
  BY DEF Deliver, Available, NoCancel, handling, actor
<1>2. PICK e \in Event : e = [type |-> "deliver", r |-> r, fenced |-> FALSE]
  BY DEF Event
<1>3. /\ events' \in Seq(Event) /\ Len(events) \in Nat /\ Len(events') = Len(events) + 1
      /\ events'[Len(events) + 1] = e
      /\ \A i \in 1 .. Len(events) : events'[i] = events[i]
  BY <1>0, <1>1, <1>2, Appended
<1> DEFINE n == Len(events) + 1
<1>4. /\ \A i \in 1 .. Len(events') : i \in 1 .. Len(events) \/ i = n
      /\ \A i \in 1 .. Len(events) : i # n /\ (Delivers(i)' <=> Delivers(i))
      /\ events'[n].r = r
  BY <1>2, <1>3 DEF Delivers
<1> HIDE DEF n
<1>5. /\ asked' \in [Req -> Nat] /\ asked'[r] = session /\ session \in Nat \ {0}
      /\ \A q \in Req \ {r} : asked'[q] = asked[q]
  BY <1>0, <1>1 DEF RouterOK
<1>6. TypeOK' /\ ActorOK'
  BY <1>0, <1>1, <1>3, <1>5 DEF TypeOK, LoopOK, RouterOK, TablesOK, ActorOK
<1>7. Unstarted(r) /\ r # h.r
  BY <1>0, <1>1, Constants DEF FreshOK, Unstarted, HandleOK
<1>8. \A i \in 1 .. Len(events) : Delivers(i) =>
         /\ events[i].r \in Req /\ events[i].r # r /\ asked[events[i].r] # 0
         /\ events[i].r # h.r /\ Unstarted(events[i].r) /\ Remembered(events[i].r)
  BY <1>0, <1>1, EventRequest DEF FreshOK, RouteOK, LoopOK
<1>9. \A q : Unstarted(q) => Unstarted(q)'
  BY <1>1 DEF Unstarted
<1>10. FreshOK'
  <2>1. ASSUME NEW i \in 1 .. Len(events'), Delivers(i)'
        PROVE  Unstarted(events[i].r)' /\ asked'[events'[i].r] # 0 /\ events'[i].r # h'.r
    <3>1. CASE i = n
      BY <1>1, <1>4, <1>5, <1>7, <3>1 DEF Unstarted
    <3>2. CASE i \in 1 .. Len(events)
      <4>1. Delivers(i) /\ events'[i] = events[i]
        BY <1>3, <1>4, <2>1, <3>2
      <4>2. QED
        BY <1>1, <1>5, <1>8, <3>2, <4>1 DEF Unstarted
    <3>3. QED
      BY <1>4, <3>1, <3>2
  <2>2. ASSUME NEW i \in 1 .. Len(events'), NEW j \in 1 .. Len(events'), Delivers(i)', Delivers(j)',
               events'[i].r = events'[j].r
        PROVE  i = j
    <3>1. CASE i = n /\ j = n
      BY <3>1
    <3>2. CASE i \in 1 .. Len(events) /\ j = n
      BY <1>3, <1>4, <1>8, <2>2, <3>2
    <3>3. CASE i = n /\ j \in 1 .. Len(events)
      BY <1>3, <1>4, <1>8, <2>2, <3>3
    <3>4. CASE i \in 1 .. Len(events) /\ j \in 1 .. Len(events)
      BY <1>0, <1>3, <1>4, <2>2, <3>4 DEF FreshOK
    <3>5. QED
      BY <1>4, <3>1, <3>2, <3>3, <3>4
  <2>3. \A q \in Req : q \in settled' \cup confirmed' \cup {prov'.r} => asked'[q] # 0
    BY <1>0, <1>1, <1>5 DEF FreshOK
  <2>4. QED
    BY <2>1, <2>2, <2>3 DEF FreshOK, Delivers, Unstarted
<1>11. RouteOK'
  <2>1. \A q \in Req : asked'[q] <= session'
    BY <1>0, <1>1, <1>5 DEF RouteOK
  <2>2. ASSUME NEW q \in Req, Remembered(q), q # r PROVE Remembered(q)'
    BY <1>1, <1>5, <2>2, Constants DEF Remembered
  <2>3. ASSUME NEW i \in 1 .. Len(events'), Delivers(i)' PROVE Remembered(events[i].r)'
    <3>1. CASE i = n
      BY <1>1, <1>4, <3>1 DEF Remembered
    <3>2. CASE i \in 1 .. Len(events)
      <4>1. Delivers(i) /\ events'[i] = events[i]
        BY <1>3, <1>4, <2>3, <3>2
      <4>2. QED
        BY <1>8, <2>2, <3>2, <4>1 DEF Remembered
    <3>3. QED
      BY <1>4, <3>1, <3>2
  <2>4. h'.at \in Early \cup {"run", "terminal"} => Remembered(h.r)'
    <3>1. h.at \in Early \cup {"run", "terminal"} => h.r \in Req /\ Remembered(h.r)
      BY <1>0 DEF HandleOK, RouteOK, Early
    <3>2. QED
      BY <1>1, <1>7, <2>2, <3>1 DEF Remembered
  <2>5. open' # 0 => canceling'.r = 0 /\ up'
    BY <1>1
  <2>6. QED
    BY <2>1, <2>3, <2>4, <2>5 DEF RouteOK, Delivers, Remembered
<1>12. HandleOK'
  <2>1. h.at # "none" => asked'[h.r] # 0
    BY <1>0, <1>5 DEF HandleOK
  <2>2. QED
    BY <1>0, <1>1, <2>1 DEF HandleOK, Unstarted
<1>13. LocalOK' /\ HostOK'
  BY <1>1 DEF Inv, LocalOK, HostOK
<1>14. QED
  BY <1>6, <1>10, <1>11, <1>12, <1>13 DEF Inv

-----------------------------------------------------------------------------
(* The invariant.                                                             *)

LEMMA InvInit == Init => Inv
<1>0. SUFFICES ASSUME Init PROVE Inv
  OBVIOUS
<1>1. /\ up = TRUE /\ session = 1 /\ open = 0 /\ asked = [r \in Req |-> 0] /\ canceling = NoCancel
      /\ events = <<>> /\ host = "run" /\ turn = NoTurn /\ local = "none" /\ h = NoHandle
      /\ inbox = EmptyInbox /\ lease = NoLease /\ confirmed = {}
      /\ prov = IdleActor /\ child = 0 /\ ended = 0 /\ settled = {} /\ terminal = {}
  BY <1>0 DEF Init
<1>2. h \in Handler /\ h.at = "none" /\ h.r = 0
  BY <1>1 DEF NoHandle, Handler, Place
<1>3. prov \in Provision /\ prov.st = "idle" /\ prov.r = 0
  BY <1>1 DEF IdleActor, Provision
<1>4. /\ inbox \in Inbox /\ lease \in [s : Nat, fence : Req \cup {0}]
      /\ turn \in [r : Req \cup {0}, cancelled : BOOLEAN]
  BY <1>1 DEF EmptyInbox, Inbox, NoLease, NoTurn
<1>5. canceling \in [r : Req \cup {0}, fenced : BOOLEAN] /\ canceling.r = 0
  BY <1>1 DEF NoCancel
<1>6. TypeOK
  BY <1>1, <1>2, <1>3, <1>4, <1>5 DEF TypeOK, RouterOK, LoopOK, TablesOK
<1>7. ActorOK
  BY <1>1, <1>3, <1>6 DEF ActorOK, TypeOK
<1>8. FreshOK /\ RouteOK
  BY <1>1, <1>2, <1>3, <1>5, Constants DEF FreshOK, RouteOK, Early
<1>9. HandleOK /\ LocalOK /\ HostOK
  BY <1>1, <1>2, <1>3, Constants DEF HandleOK, LocalOK, HostOK, Early
<1>10. QED
  BY <1>6, <1>7, <1>8, <1>9 DEF Inv

LEMMA InvNext == Inv /\ [Next]_vars => Inv'
<1>0. SUFFICES ASSUME Inv, [Next]_vars PROVE Inv'
  OBVIOUS
<1>1. ActorOK
  BY <1>0 DEF Inv
<1>2. ASSUME Settles, UNCHANGED <<router, loop, handling>> PROVE Inv'
  BY <1>0, <1>2, ActorStep DEF router, loop, handling
<1>3. CASE Handle
  BY <1>0, <1>3, HandleSteps, SubmitStep, ReportStep, WorkIdleStep DEF Handle
<1>4. CASE Loop
  BY <1>0, <1>4, ClientEventStep, FinishTurnStep, FinishLocalTurnStep, CloseProviderStep, CloseClientStep DEF Loop
<1>5. CASE FinishActive
  BY <1>1, <1>2, <1>5, FinishActiveSettles DEF FinishActive, CodexCompleted, ClaudeResponse, CompletionRead
<1>6. CASE GraceEnds \/ ActorFails
  BY <1>1, <1>2, <1>6, FinishActorSettles DEF GraceEnds, ActorFails
<1>7. CASE RequestTimeout
  BY <1>1, <1>2, <1>7, CancellingSettles DEF RequestTimeout
<1>8. CASE ChildEnds
  BY <1>1, <1>2, <1>8, ChildEndsSettles DEF ChildEnds
<1>9. CASE LocalLine \/ LocalSubmit \/ LocalWait
  BY <1>0, <1>9, LocalSteps
<1>10. CASE WorkspaceJoin \/ Shutdown
  BY <1>0, <1>10, WorkspaceJoinStep, ShutdownStep
<1>11. CASE CancelWork \/ Disconnect \/ Reconnect
  BY <1>0, <1>11, CancelWorkStep, DisconnectStep, ReconnectStep
<1>12. ASSUME NEW r \in Req, Begin(r) \/ End(r) PROVE Inv'
  <2>1. UNCHANGED actor /\ UNCHANGED <<up, session, open, asked, canceling, events, host, turn, local>>
        /\ UNCHANGED <<h, inbox, lease, confirmed>>
    BY <1>12 DEF Begin, End, loop, handling
  <2>2. QED
    BY <1>0, <1>1, <2>1, ActorQuiet, ActorStep
<1>13. ASSUME NEW r \in Req, NEW dispatch \in BOOLEAN, Deliver(r, dispatch) PROVE Inv'
  BY <1>0, <1>13, DeliverStep
<1>14. CASE UNCHANGED vars
  <2>1. UNCHANGED <<router, loop, handling, actor>>
    BY <1>14 DEF vars
  <2>2. QED
    BY <1>1, <1>2, <2>1, ActorQuiet
<1>15. QED
  BY <1>0, <1>3, <1>4, <1>5, <1>6, <1>7, <1>8, <1>9, <1>10, <1>11, <1>12, <1>13, <1>14 DEF Next, Actor

LEMMA InvHolds == Spec => []Inv
  BY InvInit, InvNext, PTL DEF Spec

-----------------------------------------------------------------------------
(* Theorems.                                                                  *)

\* What the host reports as stopped, and what the router takes for ended when it
\* would deliver again, the child no longer works on: providers/router.rs waits
\* for the terminal of the turn before it reports, answers or says it is idle.
THEOREM NothingEndedIsRunning == Spec => []EndedIsOver
<1>1. Inv => EndedIsOver
  <2>0. SUFFICES ASSUME Inv PROVE EndedIsOver
    OBVIOUS
  <2>1. ActorOK /\ HandleOK /\ RouteOK
    BY <2>0 DEF Inv
  <2>2. StopMeansStopped
    BY <2>1 DEF StopMeansStopped, HandleOK, ActorOK
  <2>3. FreeMeansIdle
    <3>1. SUFFICES ASSUME Available, child \in Req PROVE asked[child] # session
      BY DEF FreeMeansIdle
    <3>2. Remembered(child)
      BY <2>1, <3>1 DEF HandleOK, RouteOK
    <3>3. up /\ open = 0 /\ canceling.r = 0
      BY <3>1 DEF Available, NoCancel
    <3>4. QED
      BY <3>1, <3>2, <3>3, Constants DEF Remembered
  <2>4. QED
    BY <2>2, <2>3 DEF EndedIsOver
<1>2. QED
  BY <1>1, InvHolds, PTL

\* close_host closes the provider, which reaps its child, on every way the host ends.
THEOREM NoChildIsLeft == Spec => []ChildEndsWithHost
<1>1. Inv => ChildEndsWithHost
  BY DEF Inv, HostOK, ChildEndsWithHost
<1>2. QED
  BY <1>1, InvHolds, PTL
=============================================================================
