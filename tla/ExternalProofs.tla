--------------------------- MODULE ExternalProofs ---------------------------
(* Proofs about the operations on GitHub and Linear.                          *)
(*                                                                            *)
(* Three layers.  Base says how the row of an operation and its worker move   *)
(* together, that a task has one open operation, and what such an operation   *)
(* finds again when it ends; OpenKeepsItsTarget is part of it.  Writes adds   *)
(* what the provider has of an operation, for FailedWasNotApplied.  Held adds *)
(* the reservations, for ReservationsExact.                                   *)
EXTENDS ExternalOperation, FiniteSetTheorems, TLAPS

Row == [kind : Kind \cup {None}, task : Task \cup {0}, ns : Namespace \cup {None}, rev : Nat,
        cred : Credential \cup {None}, ver : Nat, replace : BOOLEAN, issue : Nat,
        phase : Phase \cup {None}, status : Status \cup {None}]

Link == [ns : Namespace \cup {None}, issue : Nat]

Place == {"none", "read", "preflight", "gate", "send", "sent", "done"}

BindingRow == [enabled : BOOLEAN, cfg : Config \cup {None}, rev : Nat]

StoreOK ==
    /\ ops \in [Op -> Row] /\ links \in [Task -> Link] /\ tasks \in [Task -> Nat]
    /\ binding \in BindingRow
    /\ resolved \in [Op -> {None, "applied", "not_applied"}]

WorkRow == [at : Place, result : Outcome \cup {None}]

VerifyRow == [at : {"none", "call", "done"}, issue : Nat, cred : Credential \cup {None},
              rev : Nat, ok : BOOLEAN]

MemoryOK ==
    /\ work \in [Op -> WorkRow] /\ verify \in [Op -> VerifyRow]
    /\ requests \in Nat /\ slots \subseteq Task /\ checks \in Nat

ProviderOK ==
    /\ wire \subseteq Op /\ comments \subseteq Op
    /\ \E n \in Nat : issues \in [1 .. n -> [ns : Namespace \cup {None}, by : Op \cup {0}]]

TypeOK == StoreOK /\ MemoryOK /\ ProviderOK /\ revoked \subseteq Credential

\* An operation's row, its worker and its verification agree.
RowOK(o) ==
    /\ ops[o].status = "running" <=> work[o].at # "none"
    /\ ops[o].status = "running" => ops[o].phase \in {"prepared", "dispatched"} /\ ops[o].kind \in Kind
    /\ ops[o].phase \in {"prepared", "dispatched"} => ops[o].status = "running"
    /\ ops[o].phase = "dispatched" => ops[o].kind \in Publish
    /\ ops[o].status = "unconfirmed" => ops[o].kind \in Publish
    /\ ops[o].kind \in Publish \cup {"link"} => ops[o].task \in Task
    /\ ops[o].status = "running" /\ ops[o].kind = "import" => ops[o].task = 0
    /\ work[o].at = "read" => ops[o].kind \in {"import", "link"} /\ ops[o].phase = "prepared"
    /\ work[o].at \in {"preflight", "gate"} => ops[o].kind \in Publish /\ ops[o].phase = "prepared"
    /\ work[o].at \in {"send", "sent"} => ops[o].phase = "dispatched"
    /\ work[o].at = "done" /\ work[o].result = "read" => ops[o].kind \in {"import", "link"}
    /\ work[o].at = "done" /\ work[o].result \in {"written", "unconfirmed"} => ops[o].phase = "dispatched"
    /\ verify[o].at # "none" =>
         ops[o].kind \in Publish /\ ops[o].status \in {"unconfirmed", "failed"}

IsBlocking(o) == ops[o].status \in Blocking

\* What an open operation finds again when it ends.
TargetOK(o) ==
    /\ IsBlocking(o) /\ ops[o].task # 0 => tasks[ops[o].task] > 0
    /\ IsBlocking(o) /\ ops[o].kind = "publish_issue" => links[ops[o].task] = NoLink
    /\ ops[o].kind = "publish_report" /\ (ops[o].phase = "dispatched" \/ ops[o].status = "unconfirmed") =>
         links[ops[o].task] = [ns |-> ops[o].ns, issue |-> ops[o].issue]
    /\ ops[o].status = "running" =>
         binding.enabled /\ binding.rev = ops[o].rev /\ binding.cfg.ns = ops[o].ns

\* require_no_blocking_operation: a task has one open operation.
OneOpen ==
    \A o, p \in Op :
      IsBlocking(o) /\ IsBlocking(p) /\ ops[o].task = ops[p].task /\ ops[o].task # 0 => o = p

Base ==
    /\ TypeOK
    /\ binding.enabled => binding.cfg \in Config
    /\ \A o \in Op : RowOK(o)
    /\ \A o \in Op : TargetOK(o)
    /\ OneOpen

-----------------------------------------------------------------------------
\* The provider has nothing of the operation and will receive nothing.
Silent(o) == ~Applied(o) /\ o \notin wire

\* The rows and workers for which that must hold.
NothingSent(o) ==
    \/ ops[o].status \in {None, "failed"}
    \/ ops[o].phase = "prepared"
    \/ work[o].at = "send"
    \/ work[o].at = "done" /\ work[o].result \in {"failed", "denied", "read"}

WriteOK(o) ==
    /\ NothingSent(o) => Silent(o)
    /\ ops[o].status = "running" /\ ops[o].kind \in {"import", "link"} =>
         ops[o].issue \in DOMAIN issues /\ issues[ops[o].issue].by = 0
    /\ verify[o].ok => MarkerFound(o)

\* A link to an issue of an operation is the operation's own.
LinksOK ==
    \A t \in Task : links[t] # NoLink =>
      /\ links[t].issue \in DOMAIN issues
      /\ issues[links[t].issue].by # 0 => ops[issues[links[t].issue].by].status = "succeeded"

Writes == Base /\ (\A o \in Op : WriteOK(o)) /\ LinksOK

Held == Base /\ ReservationsExact

-----------------------------------------------------------------------------
(* What the steps do to the tables.                                           *)

LEMMA NoneIsNoWord ==
    /\ None \notin Kind /\ None \notin Phase /\ None \notin Status /\ None \notin Outcome
    /\ None \notin Publish
  BY NoneAssumption DEF Kind, Phase, Status, Outcome, Publish

LEMMA StepRow ==
    ASSUME work \in [Op -> WorkRow], NEW o \in Op, NEW at \in Place, NEW r \in Outcome \cup {None},
           Step(o, at, r)
    PROVE  /\ work' \in [Op -> WorkRow]
           /\ work'[o].at = at /\ work'[o].result = r
           /\ \A p \in Op \ {o} : work'[p] = work[p]
  BY DEF Step, WorkRow

LEMMA TerminalRow ==
    ASSUME ops \in [Op -> Row], NEW o \in Op, NEW status \in Status, NEW t \in Task \cup {0},
           Terminal(o, status, t)
    PROVE  /\ ops' \in [Op -> Row]
           /\ ops'[o].phase = "terminal" /\ ops'[o].status = status /\ ops'[o].task = t
           /\ ops'[o].kind = ops[o].kind /\ ops'[o].ns = ops[o].ns /\ ops'[o].issue = ops[o].issue
           /\ \A p \in Op \ {o} : ops'[p] = ops[p]
<1> DEFINE a == [ops EXCEPT ![o].phase = "terminal"]
           b == [a EXCEPT ![o].status = status]
           c == [b EXCEPT ![o].task = t]
<1>1. /\ a \in [Op -> Row] /\ a[o].phase = "terminal"
      /\ a[o].kind = ops[o].kind /\ a[o].ns = ops[o].ns /\ a[o].issue = ops[o].issue
      /\ \A p \in Op \ {o} : a[p] = ops[p]
  BY DEF Row, Phase
<1>2. HIDE DEF a
<1>3. /\ b \in [Op -> Row] /\ b[o].phase = "terminal" /\ b[o].status = status
      /\ b[o].kind = ops[o].kind /\ b[o].ns = ops[o].ns /\ b[o].issue = ops[o].issue
      /\ \A p \in Op \ {o} : b[p] = ops[p]
  BY <1>1 DEF Row
<1>4. HIDE DEF b
<1>5. /\ c \in [Op -> Row] /\ c[o].phase = "terminal" /\ c[o].status = status /\ c[o].task = t
      /\ c[o].kind = ops[o].kind /\ c[o].ns = ops[o].ns /\ c[o].issue = ops[o].issue
      /\ \A p \in Op \ {o} : c[p] = ops[p]
  BY <1>3 DEF Row
<1>6. HIDE DEF c
<1>7. ops' = c
  BY DEF Terminal, a, b, c
<1>8. QED
  BY <1>5, <1>7

LEMMA DispatchedRow ==
    ASSUME ops \in [Op -> Row], NEW o \in Op, ops' = [ops EXCEPT ![o].phase = "dispatched"]
    PROVE  /\ ops' \in [Op -> Row]
           /\ ops'[o].phase = "dispatched" /\ ops'[o].status = ops[o].status
           /\ ops'[o].task = ops[o].task /\ ops'[o].kind = ops[o].kind /\ ops'[o].ns = ops[o].ns
           /\ ops'[o].issue = ops[o].issue /\ ops'[o].rev = ops[o].rev
           /\ \A p \in Op \ {o} : ops'[p] = ops[p]
  BY DEF Row, Phase

LEMMA SettledRow ==
    ASSUME ops \in [Op -> Row], NEW o \in Op, NEW status \in Status, NEW outcome,
           Settle(o, status, outcome)
    PROVE  /\ ops' \in [Op -> Row]
           /\ ops'[o].status = status /\ ops'[o].phase = ops[o].phase
           /\ ops'[o].task = ops[o].task /\ ops'[o].kind = ops[o].kind /\ ops'[o].ns = ops[o].ns
           /\ ops'[o].issue = ops[o].issue
           /\ \A p \in Op \ {o} : ops'[p] = ops[p]
  BY DEF Row, Settle

LEMMA LinkRow ==
    ASSUME links \in [Task -> Link], tasks \in [Task -> Nat],
           NEW t \in Task, NEW ns \in Namespace \cup {None}, NEW i \in Nat, SetLink(t, ns, i)
    PROVE  /\ links' \in [Task -> Link] /\ tasks' \in [Task -> Nat]
           /\ links'[t] = [ns |-> ns, issue |-> i]
           /\ \A u \in Task : tasks'[u] >= tasks[u]
           /\ \A u \in Task \ {t} : links'[u] = links[u]
  BY DEF SetLink, Link

LEMMA IdleRow ==
    ASSUME work \in [Op -> WorkRow], NEW o \in Op, work' = [work EXCEPT ![o] = Idle]
    PROVE  /\ work' \in [Op -> WorkRow] /\ work'[o].at = "none"
           /\ \A p \in Op \ {o} : work'[p] = work[p]
  BY DEF Idle, WorkRow, Place

-----------------------------------------------------------------------------
(* The base.                                                                  *)

Frame(o) ==
    \A p \in Op \ {o} : ops'[p] = ops[p] /\ work'[p] = work[p] /\ verify'[p] = verify[p]

\* A link changes only for a new task or by the open operation of its task.
LinksChange(o) ==
    /\ \A t \in Task : tasks'[t] >= tasks[t]
    /\ \A t \in Task : links'[t] = links[t] \/ tasks[t] = 0 \/ (IsBlocking(o) /\ t = ops[o].task)

\* A step that concerns one operation only has to look after that one.
LEMMA BaseStep ==
    ASSUME Base, TypeOK', NEW o \in Op, Frame(o), RowOK(o)', TargetOK(o)', binding' = binding,
           LinksChange(o),
           IsBlocking(o)' => \/ IsBlocking(o) /\ ops'[o].task = ops[o].task
                             \/ ops'[o].task # 0 => NoBlockingOperation(ops'[o].task)
    PROVE  Base'
<1>1. ASSUME NEW p \in Op \ {o} PROVE RowOK(p)'
  BY <1>1 DEF Base, Frame, RowOK
<1>2. ASSUME NEW p \in Op \ {o} PROVE TargetOK(p)'
  <2>1. ops'[p] = ops[p] /\ RowOK(p) /\ TargetOK(p)
    BY <1>2 DEF Base, Frame
  <2>2. ops[p] \in Row /\ ops[p].task \in Task \cup {0}
    BY <1>2 DEF Base, TypeOK, StoreOK, Row
  <2>3. ASSUME IsBlocking(p), ops[p].task # 0
        PROVE  ops[p].task \in Task /\ tasks'[ops[p].task] > 0 /\ links'[ops[p].task] = links[ops[p].task]
    <3>1. ops[p].task \in Task /\ tasks[ops[p].task] > 0
      BY <2>1, <2>2, <2>3 DEF TargetOK
    <3>2. tasks[ops[p].task] \in Nat /\ tasks'[ops[p].task] \in Nat
      BY <3>1 DEF Base, TypeOK, StoreOK
    <3>3. ~(IsBlocking(o) /\ ops[p].task = ops[o].task)
      BY <2>3, <1>2 DEF Base, OneOpen
    <3>4. QED
      BY <3>1, <3>2, <3>3 DEF LinksChange
  <2>4. 0 \notin Task
    BY ExternalAssumption DEF Task
  <2>5. IsBlocking(p)' <=> IsBlocking(p)
    BY <2>1 DEF IsBlocking
  <2>6. ops[p].kind \in Publish => ops[p].task # 0
    BY <2>1, <2>4 DEF RowOK
  <2>7. ops[p].phase = "dispatched" \/ ops[p].status = "unconfirmed" => IsBlocking(p)
    BY <2>1 DEF RowOK, IsBlocking, Blocking
  <2>8. QED
    BY <2>1, <2>3, <2>5, <2>6, <2>7 DEF TargetOK, Publish
<1>3. OneOpen'
  <2>1. SUFFICES ASSUME NEW p \in Op, NEW q \in Op, IsBlocking(p)', IsBlocking(q)',
                        ops'[p].task = ops'[q].task, ops'[p].task # 0, p # q
                 PROVE  FALSE
    BY DEF OneOpen
  <2>2. ASSUME NEW r \in Op \ {o}, IsBlocking(r)', IsBlocking(o)', ops'[r].task = ops'[o].task, ops'[o].task # 0
        PROVE  FALSE
    <3>1. ops'[r] = ops[r] /\ IsBlocking(r)
      BY <2>2 DEF Frame, IsBlocking
    <3>2. QED
      BY <2>2, <3>1 DEF Base, OneOpen, NoBlockingOperation, IsBlocking
  <2>3. CASE p # o /\ q # o
    BY <2>1, <2>3 DEF Base, OneOpen, Frame, IsBlocking
  <2>4. QED
    BY <2>1, <2>2, <2>3
<1>4. QED
  BY <1>1, <1>2, <1>3 DEF Base

\* A step that leaves operations, workers, links and the binding alone.
LEMMA BaseQuiet ==
    ASSUME Base, TypeOK', ops' = ops, links' = links, binding' = binding, work' = work,
           verify' = verify, \A t \in Task : tasks'[t] >= tasks[t]
    PROVE  Base'
<1>1. \A o \in Op : RowOK(o)'
  BY DEF Base, RowOK
<1>2. ASSUME NEW o \in Op PROVE TargetOK(o)'
  <2>1. ops[o].task \in Task \cup {0} /\ TargetOK(o)
    BY DEF Base, TypeOK, StoreOK, Row
  <2>2. ops[o].task # 0 /\ tasks[ops[o].task] > 0 => tasks'[ops[o].task] > 0
    BY <2>1 DEF Base, TypeOK, StoreOK
  <2>3. QED
    BY <2>1, <2>2 DEF TargetOK, IsBlocking
<1>3. OneOpen'
  BY DEF Base, OneOpen, IsBlocking
<1>4. QED
  BY <1>1, <1>2, <1>3 DEF Base

\* A step of a worker that does not reach the actor.
LEMMA BaseWorker ==
    ASSUME Base, NEW o \in Op, NEW at \in Place, NEW r \in Outcome \cup {None}, Step(o, at, r),
           work[o].at # "none", at # "none", ProviderOK',
           UNCHANGED <<store, verify, requests, slots, checks, revoked>>,
           at = "read" => ops[o].kind \in {"import", "link"} /\ ops[o].phase = "prepared",
           at \in {"preflight", "gate"} => ops[o].kind \in Publish /\ ops[o].phase = "prepared",
           at \in {"send", "sent"} => ops[o].phase = "dispatched",
           at = "done" /\ r = "read" => ops[o].kind \in {"import", "link"},
           at = "done" /\ r \in {"written", "unconfirmed"} => ops[o].phase = "dispatched"
    PROVE  Base'
<1>1. /\ work' \in [Op -> WorkRow] /\ work'[o].at = at /\ work'[o].result = r
      /\ \A p \in Op \ {o} : work'[p] = work[p]
  BY StepRow DEF Base, TypeOK, MemoryOK
<1>2. ops' = ops /\ links' = links /\ tasks' = tasks /\ binding' = binding /\ resolved' = resolved
  BY DEF store
<1>3. TypeOK'
  BY <1>1, <1>2 DEF Base, TypeOK, StoreOK, MemoryOK
<1>4. Frame(o)
  BY <1>1, <1>2 DEF Frame
<1>5. RowOK(o)'
  BY <1>1, <1>2 DEF Base, RowOK
<1>6. TargetOK(o)'
  BY <1>2 DEF Base, TargetOK, IsBlocking
<1>7. LinksChange(o)
  BY <1>2 DEF LinksChange, Base, TypeOK, StoreOK
<1>8. IsBlocking(o)' => IsBlocking(o) /\ ops'[o].task = ops[o].task
  BY <1>2 DEF IsBlocking
<1>9. QED
  BY <1>2, <1>3, <1>4, <1>5, <1>6, <1>7, <1>8, BaseStep

\* What the end of an operation writes.
Ends(o, status, t) ==
    /\ Terminal(o, status, t)
    /\ ops[o].kind # "import" => t = ops[o].task
    /\ status = "unconfirmed" => work[o].result = "unconfirmed"
    /\ status = "failed" =>
         \/ work[o].result \in {"failed", "denied", "read"}
         \/ /\ ops[o].kind = "publish_issue"
            /\ \E i \in CreatedBy(o) : ~Linkable(ops[o].task, ops[o].ns, i)
    /\ \/ UNCHANGED <<links, tasks>>
       \/ /\ status = "succeeded"
          /\ \E u \in Task, i \in Nat :
               /\ SetLink(u, ops[o].ns, i) /\ (tasks[u] = 0 \/ u = ops[o].task)
               /\ \/ ops[o].kind \in {"import", "link"} /\ i = ops[o].issue
                  \/ ops[o].kind = "publish_issue" /\ i \in CreatedBy(o)

LEMMA FinishEffect ==
    ASSUME Base, NEW o \in Op, ExternalFinished(o)
    PROVE  \E status \in Status \ {"running"}, t \in Task \cup {0} : Ends(o, status, t)
<1> DEFINE Goal == \E status \in Status \ {"running"}, t \in Task \cup {0} : Ends(o, status, t)
<1>1. RowOK(o) /\ ops[o] \in Row /\ ops[o].task \in Task \cup {0} /\ ops[o].issue \in Nat
  BY DEF Base, TypeOK, StoreOK, Row
<1>2. work[o].at = "done" /\ ops[o].status = "running"
  BY <1>1 DEF ExternalFinished, RowOK
<1>3. ASSUME Fails(o, "failed"), work[o].result \in {"failed", "denied", "read"} PROVE Goal
  BY <1>1, <1>3 DEF Fails, Ends, Status
<1>4. CASE work[o].result = "read" /\ CompleteRead(o)
  <2>1. ops[o].kind \in {"import", "link"} /\ (ops[o].kind = "link" => ops[o].task \in Task)
    BY <1>1, <1>2, <1>4 DEF RowOK
  <2>2. CASE ~SnapshotValid(o)
    BY <1>3, <1>4, <2>2 DEF CompleteRead, Conflict
  <2>3. CASE SnapshotValid(o) /\ ops[o].kind = "import"
    <3>1. CompleteImport(o)
      BY <1>4, <2>3 DEF CompleteRead
    <3>2. CASE LinkedTo(ops[o].ns, ops[o].issue) # {}
      <4>1. PICK t \in LinkedTo(ops[o].ns, ops[o].issue) :
                 Terminal(o, "succeeded", t) /\ UNCHANGED <<links, tasks>>
        BY <3>1, <3>2 DEF CompleteImport
      <4>2. t \in Task \cup {0}
        BY DEF LinkedTo
      <4>3. Ends(o, "succeeded", t)
        BY <2>3, <4>1 DEF Ends
      <4>4. QED
        BY <4>2, <4>3 DEF Status
    <3>3. CASE LinkedTo(ops[o].ns, ops[o].issue) = {}
      <4>1. PICK t \in NextTask : SetLink(t, ops[o].ns, ops[o].issue) /\ Terminal(o, "succeeded", t)
        BY <3>1, <3>3 DEF CompleteImport
      <4>2. t \in Task /\ tasks[t] = 0
        BY DEF NextTask
      <4>3. Ends(o, "succeeded", t)
        BY <1>1, <2>3, <4>1, <4>2 DEF Ends
      <4>4. QED
        BY <4>2, <4>3 DEF Status
    <3>4. QED
      BY <3>2, <3>3
  <2>4. CASE SnapshotValid(o) /\ ops[o].kind # "import"
    <3>1. CompleteLink(o) /\ ops[o].kind = "link" /\ ops[o].task \in Task
      BY <1>4, <2>1, <2>4 DEF CompleteRead
    <3>2. CASE Conflict(o)
      BY <1>3, <1>4, <3>2 DEF Conflict
    <3>3. CASE ~Conflict(o)
      <4>1. /\ Terminal(o, "succeeded", ops[o].task)
            /\ UNCHANGED <<links, tasks>> \/ SetLink(ops[o].task, ops[o].ns, ops[o].issue)
        BY <3>1, <3>3 DEF CompleteLink
      <4>2. Ends(o, "succeeded", ops[o].task)
        BY <1>1, <3>1, <4>1 DEF Ends
      <4>3. QED
        BY <3>1, <4>2 DEF Status
    <3>4. QED
      BY <3>2, <3>3
  <2>5. QED
    BY <2>2, <2>3, <2>4
<1>5. CASE work[o].result = "written" /\ CompleteMutation(o)
  <2>1. ops[o].kind \in Publish /\ ops[o].task \in Task
    BY <1>1, <1>2, <1>5 DEF RowOK
  <2>2. CASE ops[o].kind = "publish_report"
    <3>1. Ends(o, "succeeded", ops[o].task)
      BY <1>5, <2>2 DEF Ends, CompleteMutation
    <3>2. QED
      BY <2>1, <3>1 DEF Status
  <2>3. CASE ops[o].kind # "publish_report"
    <3>1. ops[o].kind = "publish_issue"
      BY <2>1, <2>3 DEF Publish
    <3>2. PICK i \in CreatedBy(o) :
               IF Linkable(ops[o].task, ops[o].ns, i)
               THEN SetLink(ops[o].task, ops[o].ns, i) /\ Terminal(o, "succeeded", ops[o].task)
               ELSE Fails(o, "failed")
      BY <1>5, <2>3 DEF CompleteMutation
    <3>3. i \in Nat
      BY DEF CreatedBy, Base, TypeOK, ProviderOK
    <3>4. CASE Linkable(ops[o].task, ops[o].ns, i)
      <4>1. Ends(o, "succeeded", ops[o].task)
        BY <2>1, <3>1, <3>2, <3>3, <3>4 DEF Ends
      <4>2. QED
        BY <2>1, <4>1 DEF Status
    <3>5. CASE ~Linkable(ops[o].task, ops[o].ns, i)
      <4>1. Ends(o, "failed", ops[o].task)
        BY <2>1, <3>1, <3>2, <3>5 DEF Ends, Fails
      <4>2. QED
        BY <2>1, <4>1 DEF Status
    <3>6. QED
      BY <3>4, <3>5
  <2>4. QED
    BY <2>2, <2>3
<1>6. CASE work[o].result = "unconfirmed" /\ Fails(o, "unconfirmed")
  <2>1. Ends(o, "unconfirmed", ops[o].task)
    BY <1>6 DEF Ends, Fails
  <2>2. QED
    BY <1>1, <2>1 DEF Status
<1>7. CASE work[o].result \in {"failed", "denied"} /\ Fails(o, "failed")
  BY <1>3, <1>7
<1>8. QED
  BY <1>4, <1>5, <1>6, <1>7 DEF ExternalFinished

LEMMA BaseFinished ==
    ASSUME Base, NEW o \in Op, ExternalFinished(o)
    PROVE  Base'
<1>1. PICK status \in Status \ {"running"}, t \in Task \cup {0} : Ends(o, status, t)
  BY FinishEffect
<1>2. RowOK(o) /\ TargetOK(o) /\ ops[o] \in Row /\ ops[o].task \in Task \cup {0}
      /\ ops[o].ns \in Namespace \cup {None}
  BY DEF Base, TypeOK, StoreOK, Row
<1>3. /\ work[o].at = "done" /\ work' = [work EXCEPT ![o] = Idle]
      /\ UNCHANGED <<binding, resolved, verify, checks, revoked, provider>>
      /\ Release(ops[o].task)
  BY DEF ExternalFinished
<1>4. /\ ops' \in [Op -> Row] /\ ops'[o].phase = "terminal" /\ ops'[o].status = status
      /\ ops'[o].task = t /\ ops'[o].kind = ops[o].kind /\ ops'[o].ns = ops[o].ns
      /\ ops'[o].issue = ops[o].issue /\ \A p \in Op \ {o} : ops'[p] = ops[p]
  BY <1>1, TerminalRow DEF Ends, Base, TypeOK, StoreOK
<1>5. /\ work' \in [Op -> WorkRow] /\ work'[o].at = "none"
      /\ \A p \in Op \ {o} : work'[p] = work[p]
  BY <1>3, IdleRow DEF Base, TypeOK, MemoryOK
<1>6. ops[o].status = "running" /\ verify[o].at = "none"
  BY <1>2, <1>3 DEF RowOK
<1>7. /\ links' \in [Task -> Link] /\ tasks' \in [Task -> Nat]
      /\ \A u \in Task : tasks'[u] >= tasks[u]
      /\ \A u \in Task : links'[u] = links[u] \/ tasks[u] = 0 \/ u = ops[o].task
      /\ status # "succeeded" => links' = links
  <2>1. CASE UNCHANGED <<links, tasks>>
    BY <2>1 DEF Base, TypeOK, StoreOK
  <2>2. CASE ~UNCHANGED <<links, tasks>>
    <3>1. PICK u \in Task, i \in Nat :
             SetLink(u, ops[o].ns, i) /\ (tasks[u] = 0 \/ u = ops[o].task)
      BY <1>1, <2>2 DEF Ends
    <3>2. /\ links' \in [Task -> Link] /\ tasks' \in [Task -> Nat]
          /\ \A v \in Task : tasks'[v] >= tasks[v]
          /\ \A v \in Task \ {u} : links'[v] = links[v]
      BY <1>2, <3>1, LinkRow DEF Base, TypeOK, StoreOK
    <3>3. status = "succeeded"
      BY <1>1, <2>2 DEF Ends
    <3>4. QED
      BY <3>1, <3>2, <3>3
  <2>3. QED
    BY <2>1, <2>2
<1>8. requests' \in Nat /\ slots' \subseteq Task
  BY <1>3 DEF Release, Decrement, Base, TypeOK, MemoryOK
<1>9. TypeOK'
  BY <1>3, <1>4, <1>5, <1>7, <1>8 DEF Base, TypeOK, StoreOK, MemoryOK, ProviderOK, provider
<1>10. ops[o].kind # "import" => t = ops[o].task
  BY <1>1 DEF Ends
<1>11. status = "unconfirmed" => ops[o].phase = "dispatched" /\ ops[o].kind \in Publish
  BY <1>1, <1>2, <1>3 DEF Ends, RowOK
<1>12. RowOK(o)'
  BY <1>2, <1>3, <1>4, <1>5, <1>6, <1>10, <1>11 DEF RowOK, Publish
<1>13. status = "unconfirmed" => t = ops[o].task /\ t \in Task
  BY <1>2, <1>10, <1>11 DEF RowOK, Publish
<1>14. IsBlocking(o)' => status = "unconfirmed"
  BY <1>1, <1>4 DEF IsBlocking, Blocking
<1>15. IsBlocking(o)
  BY <1>6 DEF IsBlocking, Blocking
<1>16. TargetOK(o)'
  <2>1. status = "unconfirmed" => tasks[t] > 0
    BY <1>2, <1>13, <1>15, ExternalAssumption DEF TargetOK, Task
  <2>2. status = "unconfirmed" => tasks'[t] > 0
    BY <1>7, <1>13, <2>1 DEF Base, TypeOK, StoreOK
  <2>3. QED
    BY <1>2, <1>4, <1>7, <1>11, <1>13, <1>14, <1>15, <2>2 DEF TargetOK
<1>17. Frame(o)
  BY <1>3, <1>4, <1>5 DEF Frame
<1>18. LinksChange(o)
  BY <1>7, <1>15 DEF LinksChange
<1>19. QED
  BY <1>3, <1>4, <1>9, <1>12, <1>13, <1>14, <1>15, <1>16, <1>17, <1>18, BaseStep

LEMMA BaseStart ==
    ASSUME Base, NEW o \in Op, NEW kind \in Kind, NEW t \in Task \cup {0}, NEW i \in Nat,
           NEW replace \in BOOLEAN, NEW cred \in Credential,
           ExternalStart(o, Prepared(kind, t, i, replace, cred)),
           kind = "import" <=> t = 0,
           kind = "publish_issue" => links[t] = NoLink
    PROVE  Base'
<1> DEFINE row == Prepared(kind, t, i, replace, cred)
           first == IF kind \in Publish THEN "preflight" ELSE "read"
<1>1. /\ row.kind = kind /\ row.task = t /\ row.phase = "prepared" /\ row.status = "running"
      /\ row.ns = binding.cfg.ns /\ row.rev = binding.rev /\ row.issue = i
  BY DEF Prepared
<1>2. FreshOp(o) /\ binding.enabled /\ ops' = [ops EXCEPT ![o] = row]
      /\ (t # 0 => tasks[t] > 0 /\ NoBlockingOperation(t)) /\ Reserve(t)
      /\ work' = [work EXCEPT ![o].at = first]
      /\ UNCHANGED <<links, tasks, binding, resolved, verify, checks, revoked, provider>>
  BY <1>1 DEF ExternalStart
<1>3. binding.cfg.ns \in Namespace /\ binding.rev \in Nat
  BY <1>2 DEF Base, TypeOK, StoreOK, Namespace, BindingRow
<1>4. row \in Row
  BY <1>3 DEF Prepared, Row, Phase, Status, Base, TypeOK, StoreOK
<1> HIDE DEF row
<1>5. /\ ops' \in [Op -> Row] /\ ops'[o] = row /\ \A p \in Op \ {o} : ops'[p] = ops[p]
  BY <1>2, <1>4 DEF Base, TypeOK, StoreOK
<1>6. /\ work' \in [Op -> WorkRow] /\ work'[o].at = first
      /\ \A p \in Op \ {o} : work'[p] = work[p]
  BY <1>2 DEF Base, TypeOK, MemoryOK, WorkRow, Place
<1>7. requests' \in Nat /\ slots' \subseteq Task
  BY <1>2 DEF Reserve, Base, TypeOK, MemoryOK
<1>8. TypeOK'
  BY <1>2, <1>5, <1>6, <1>7 DEF Base, TypeOK, StoreOK, MemoryOK, ProviderOK, provider
<1>9. ops[o].status = None /\ ops[o].kind = None
  BY <1>2 DEF FreshOp, NoOp
<1>10. verify[o].at = "none" /\ verify' = verify
  BY <1>2, <1>9, NoneIsNoWord DEF Base, RowOK
<1>11. RowOK(o)'
  BY <1>1, <1>5, <1>6, <1>10 DEF RowOK, Publish, Kind
<1>12. TargetOK(o)'
  BY <1>1, <1>2, <1>5 DEF TargetOK
<1>13. LinksChange(o)
  BY <1>2 DEF LinksChange, Base, TypeOK, StoreOK
<1>14. Frame(o)
  BY <1>5, <1>6, <1>10 DEF Frame
<1>15. binding' = binding /\ (ops'[o].task # 0 => NoBlockingOperation(ops'[o].task))
  BY <1>1, <1>2, <1>5
<1>16. QED
  BY <1>8, <1>11, <1>12, <1>13, <1>14, <1>15, BaseStep

\* A new issue has a new number; the others stay as they are.
LEMMA IssueAdded ==
    ASSUME ProviderOK, NEW ns \in Namespace \cup {None}, NEW o \in Op \cup {0}, AddIssue(ns, o)
    PROVE  \E n \in Nat :
             /\ issues' \in [1 .. n -> [ns : Namespace \cup {None}, by : Op \cup {0}]]
             /\ DOMAIN issues \subseteq DOMAIN issues'
             /\ \A i \in DOMAIN issues : issues'[i] = issues[i]
             /\ \A i \in DOMAIN issues' \ DOMAIN issues : issues'[i].by = o
<1>1. PICK n \in Nat : issues \in [1 .. n -> [ns : Namespace \cup {None}, by : Op \cup {0}]]
  BY DEF ProviderOK
<1>2. DOMAIN issues = 1 .. n /\ Cardinality(DOMAIN issues) = n
  BY <1>1, FS_Interval
<1>3. issues' = [i \in 1 .. n + 1 |-> IF i \in 1 .. n THEN issues[i] ELSE [ns |-> ns, by |-> o]]
  BY <1>2 DEF AddIssue
<1>4. issues' \in [1 .. n + 1 -> [ns : Namespace \cup {None}, by : Op \cup {0}]] /\ DOMAIN issues' = 1 .. n + 1
  BY <1>1, <1>3
<1>5. /\ 1 .. n \subseteq 1 .. n + 1
      /\ \A i \in 1 .. n : issues'[i] = issues[i]
      /\ \A i \in (1 .. n + 1) \ (1 .. n) : issues'[i].by = o
  BY <1>3
<1>6. QED
  BY <1>2, <1>4, <1>5

LEMMA DisabledRow ==
    ASSUME binding \in BindingRow, NEW b, b = [binding EXCEPT !.enabled = FALSE]
    PROVE  b \in BindingRow /\ ~b.enabled
  BY DEF BindingRow

LEMMA CatalogRow ==
    ASSUME binding \in BindingRow, NEW c \in Config \cup {None}, NEW b, b = ApplyCatalog(c)
    PROVE  b \in BindingRow /\ (b.enabled => b.cfg \in Config)
<1>1. CASE c = None
  <2>1. b = [binding EXCEPT !.enabled = FALSE]
    BY <1>1 DEF ApplyCatalog
  <2>2. QED
    BY <2>1, DisabledRow
<1>2. CASE c # None
  <2>1. PICK rev \in Nat : rev = IF binding.enabled /\ binding.cfg = c THEN binding.rev ELSE binding.rev + 1
    BY DEF BindingRow
  <2>2. b = [enabled |-> TRUE, cfg |-> c, rev |-> rev]
    BY <1>2, <2>1 DEF ApplyCatalog
  <2>3. QED
    BY <1>2, <2>1, <2>2 DEF BindingRow
<1>3. QED
  BY <1>1, <1>2

LEMMA BaseBinding ==
    ASSUME Base, NEW c \in Config \cup {None}, ~CatalogRefused(c, ops), binding' = ApplyCatalog(c)
    PROVE  /\ binding' \in BindingRow
           /\ binding'.enabled => binding'.cfg \in Config
           /\ \A o \in Op : ops[o].status = "running" => binding' = binding
<1>1. binding \in BindingRow
  BY DEF Base, TypeOK, StoreOK
<1>2. /\ binding' \in BindingRow
      /\ binding'.enabled => binding'.cfg \in Config
  BY <1>1, CatalogRow
<1>3. ASSUME NEW o \in Op, ops[o].status = "running" PROVE binding' = binding
  <2>1. binding.enabled /\ binding.cfg.ns = ops[o].ns
    BY <1>3 DEF Base, TargetOK
  <2>2. HasBlockingOperation(binding, ops)
    BY <1>3, <2>1 DEF HasBlockingOperation, Blocking
  <2>3. c = binding.cfg /\ c # None
    BY <2>1, <2>2, NoneAssumption DEF CatalogRefused, Base
  <2>4. QED
    BY <1>1, <2>1, <2>3 DEF ApplyCatalog, BindingRow
<1>4. QED
  BY <1>2, <1>3

LEMMA BaseReload ==
    ASSUME Base, IntegrationReload
    PROVE  Base'
<1>1. UNCHANGED <<ops, links, tasks, resolved, memory, revoked, provider>>
  BY DEF IntegrationReload
<1>2. /\ binding' \in BindingRow
      /\ binding'.enabled => binding'.cfg \in Config
      /\ \A o \in Op : ops[o].status = "running" => binding' = binding
  BY BaseBinding DEF IntegrationReload
<1>3. TypeOK'
  BY <1>1, <1>2 DEF Base, TypeOK, StoreOK, MemoryOK, ProviderOK, provider, memory
<1>4. \A o \in Op : RowOK(o)'
  BY <1>1 DEF Base, RowOK, memory
<1>5. \A o \in Op : TargetOK(o)'
  BY <1>1, <1>2 DEF Base, TargetOK, IsBlocking
<1>6. OneOpen'
  BY <1>1 DEF Base, OneOpen, IsBlocking
<1>7. QED
  BY <1>2, <1>3, <1>4, <1>5, <1>6 DEF Base

\* The rows after a crash.
LEMMA RecoveredRows ==
    ASSUME Base, RecoverExternalOperations
    PROVE  /\ ops' \in [Op -> Row]
           /\ \A o \in Op : ops[o].status # "running" => ops'[o] = ops[o]
           /\ \A o \in Op : ops[o].status = "running" =>
                /\ ops'[o].phase = "terminal"
                /\ ops'[o].status = IF ops[o].phase = "dispatched" THEN "unconfirmed" ELSE "failed"
                /\ ops'[o].kind = ops[o].kind /\ ops'[o].task = ops[o].task
                /\ ops'[o].ns = ops[o].ns /\ ops'[o].issue = ops[o].issue
<1>1. ASSUME NEW o \in Op
      PROVE  /\ ops'[o] \in Row
             /\ ops[o].status # "running" => ops'[o] = ops[o]
             /\ ops[o].status = "running" =>
                /\ ops'[o].phase = "terminal"
                /\ ops'[o].status = IF ops[o].phase = "dispatched" THEN "unconfirmed" ELSE "failed"
                /\ ops'[o].kind = ops[o].kind /\ ops'[o].task = ops[o].task
                /\ ops'[o].ns = ops[o].ns /\ ops'[o].issue = ops[o].issue
  <2>1. ops[o] \in Row
    BY DEF Base, TypeOK, StoreOK
  <2>2. ops'[o] = IF ops[o].status = "running"
                  THEN [ops[o] EXCEPT !.phase = "terminal",
                                      !.status = IF ops[o].phase = "dispatched"
                                                 THEN "unconfirmed" ELSE "failed"]
                  ELSE ops[o]
    BY DEF RecoverExternalOperations
  <2>3. QED
    BY <2>1, <2>2 DEF Row, Phase, Status
<1>2. ops' \in [Op -> Row]
  BY <1>1 DEF RecoverExternalOperations
<1>3. QED
  BY <1>1, <1>2

LEMMA BaseRestart ==
    ASSUME Base, Restart
    PROVE  Base'
<1>1. /\ ops' \in [Op -> Row]
      /\ \A o \in Op : ops[o].status # "running" => ops'[o] = ops[o]
      /\ \A o \in Op : ops[o].status = "running" =>
           /\ ops'[o].phase = "terminal"
           /\ ops'[o].status = IF ops[o].phase = "dispatched" THEN "unconfirmed" ELSE "failed"
           /\ ops'[o].kind = ops[o].kind /\ ops'[o].task = ops[o].task
           /\ ops'[o].ns = ops[o].ns /\ ops'[o].issue = ops[o].issue
  BY RecoveredRows DEF Restart
<1>2. /\ binding' \in BindingRow
      /\ binding'.enabled => binding'.cfg \in Config
  <2>1. binding \in BindingRow
    BY DEF Base, TypeOK, StoreOK
  <2>2. CASE binding' = [binding EXCEPT !.enabled = FALSE]
    BY <2>1, <2>2, DisabledRow
  <2>3. CASE \E c \in Config \cup {None} : binding' = ApplyCatalog(c)
    BY <2>1, <2>3, CatalogRow
  <2>4. QED
    BY <2>2, <2>3 DEF Restart, Load
<1>3. /\ work' \in [Op -> WorkRow] /\ verify' \in [Op -> VerifyRow]
      /\ \A o \in Op : work'[o].at = "none" /\ verify'[o].at = "none"
  BY DEF Restart, Idle, NoVerify, WorkRow, VerifyRow, Place
<1>4. /\ requests' = 0 /\ slots' = {} /\ checks' = 0
      /\ UNCHANGED <<links, tasks, resolved, revoked, provider>>
  BY DEF Restart
<1>5. TypeOK'
  BY <1>1, <1>2, <1>3, <1>4 DEF Base, TypeOK, StoreOK, MemoryOK, ProviderOK, provider
<1>6. ASSUME NEW o \in Op
      PROVE  /\ RowOK(o)'
             /\ TargetOK(o)'
             /\ IsBlocking(o)' => IsBlocking(o) /\ ops'[o].task = ops[o].task
  <2>1. RowOK(o) /\ TargetOK(o) /\ ops[o] \in Row
    BY DEF Base, TypeOK, StoreOK
  <2>2. CASE ops[o].status # "running"
    <3>1. ops'[o] = ops[o] /\ work'[o].at = "none" /\ verify'[o].at = "none"
      BY <1>1, <1>3, <2>2
    <3>2. RowOK(o)'
      BY <2>1, <2>2, <3>1 DEF RowOK
    <3>3. TargetOK(o)'
      BY <1>4, <2>1, <2>2, <3>1 DEF TargetOK, IsBlocking
    <3>4. QED
      BY <3>1, <3>2, <3>3 DEF IsBlocking
  <2>3. CASE ops[o].status = "running"
    <3>1. /\ work'[o].at = "none" /\ verify'[o].at = "none" /\ ops'[o].phase = "terminal"
          /\ ops'[o].status = IF ops[o].phase = "dispatched" THEN "unconfirmed" ELSE "failed"
          /\ ops'[o].kind = ops[o].kind /\ ops'[o].task = ops[o].task
          /\ ops'[o].ns = ops[o].ns /\ ops'[o].issue = ops[o].issue
      BY <1>1, <1>3, <2>3
    <3>2. RowOK(o)'
      BY <2>1, <2>3, <3>1 DEF RowOK
    <3>3. IsBlocking(o) /\ (IsBlocking(o)' => ops[o].phase = "dispatched")
      BY <2>3, <3>1 DEF IsBlocking, Blocking
    <3>4. TargetOK(o)'
      BY <1>4, <2>1, <3>1, <3>3 DEF TargetOK
    <3>5. QED
      BY <3>1, <3>2, <3>3, <3>4
  <2>4. QED
    BY <2>2, <2>3
<1>7. OneOpen'
  BY <1>6 DEF Base, OneOpen
<1>8. QED
  BY <1>2, <1>5, <1>6, <1>7 DEF Base

LEMMA BaseWorkers ==
    ASSUME Base, NEW o \in Op,
           Read(o) \/ Preflight(o) \/ ExternalGate(o) \/ Send(o) \/ Answered(o)
    PROVE  Base'
<1>1. RowOK(o) /\ TargetOK(o) /\ ProviderOK
  BY DEF Base, TypeOK
<1>2. CASE Read(o)
  <2>1. PICK r \in {"read", "failed"} : Step(o, "done", r)
    BY <1>2 DEF Read, Done
  <2>2. "done" \in Place /\ r \in Outcome \cup {None}
    BY DEF Place, Outcome
  <2>3. work[o].at = "read" /\ ProviderOK' /\ UNCHANGED <<store, verify, requests, slots, checks, revoked>>
    BY <1>1, <1>2 DEF Read, ProviderOK, provider
  <2>4. QED
    BY <1>1, <2>1, <2>2, <2>3, BaseWorker DEF RowOK
<1>3. CASE Preflight(o)
  <2>1. work[o].at = "preflight" /\ ProviderOK' /\ UNCHANGED <<store, verify, requests, slots, checks, revoked>>
    BY <1>1, <1>3 DEF Preflight, ProviderOK, provider
  <2>2. CASE Step(o, "gate", None)
    BY <1>1, <2>1, <2>2, BaseWorker DEF RowOK, Place
  <2>3. CASE Step(o, "done", "failed")
    BY <1>1, <2>1, <2>3, BaseWorker DEF Place, Outcome
  <2>4. QED
    BY <1>3, <2>2, <2>3 DEF Preflight, Done
<1>4. CASE Send(o)
  <2>1. work[o].at = "send" /\ ProviderOK' /\ UNCHANGED <<store, verify, requests, slots, checks, revoked>>
    BY <1>1, <1>4 DEF Send, ProviderOK
  <2>2. CASE Step(o, "sent", None)
    BY <1>1, <2>1, <2>2, BaseWorker DEF RowOK, Place
  <2>3. CASE Step(o, "done", "failed")
    BY <1>1, <2>1, <2>3, BaseWorker DEF Place, Outcome
  <2>4. QED
    BY <1>4, <2>2, <2>3 DEF Send, Done
<1>5. CASE Answered(o)
  <2>1. work[o].at = "sent" /\ ProviderOK' /\ UNCHANGED <<store, verify, requests, slots, checks, revoked>>
    BY <1>1, <1>5 DEF Answered, ProviderOK, provider
  <2>2. PICK r \in {"unconfirmed", "written", "failed"} : Step(o, "done", r)
    BY <1>5 DEF Answered, Outcomes, Done
  <2>3. "done" \in Place /\ r \in Outcome \cup {None}
    BY DEF Place, Outcome
  <2>4. QED
    BY <1>1, <2>1, <2>2, <2>3, BaseWorker DEF RowOK
<1>6. CASE ExternalGate(o)
  <2>1. /\ work[o].at = "gate" /\ ProviderOK'
        /\ UNCHANGED <<links, tasks, binding, resolved, verify, requests, slots, checks, revoked>>
    BY <1>1, <1>6 DEF ExternalGate, ProviderOK, provider
  <2>2. CASE ops' = ops
    <3>1. UNCHANGED <<store, verify, requests, slots, checks, revoked>>
      BY <2>1, <2>2 DEF store
    <3>2. CASE Step(o, "done", "denied")
      BY <1>1, <2>1, <3>1, <3>2, BaseWorker DEF Place, Outcome
    <3>3. CASE ~Step(o, "done", "denied")
      <4>1. ops' = [ops EXCEPT ![o].phase = "dispatched"]
        BY <1>6, <3>3 DEF ExternalGate, Done
      <4>2. ops'[o].phase = "dispatched"
        BY <4>1, DispatchedRow DEF Base, TypeOK, StoreOK
      <4>3. QED
        BY <1>1, <2>1, <2>2, <4>2 DEF RowOK
    <3>4. QED
      BY <3>2, <3>3
  <2>3. CASE ops' # ops
    <3>1. /\ SnapshotValid(o) /\ ops' = [ops EXCEPT ![o].phase = "dispatched"]
          /\ Step(o, "send", None) \/ Step(o, "done", "denied")
      BY <1>6, <2>3 DEF ExternalGate, Done
    <3>2. /\ ops' \in [Op -> Row]
          /\ ops'[o].phase = "dispatched" /\ ops'[o].status = ops[o].status
          /\ ops'[o].task = ops[o].task /\ ops'[o].kind = ops[o].kind /\ ops'[o].ns = ops[o].ns
          /\ ops'[o].issue = ops[o].issue /\ ops'[o].rev = ops[o].rev
          /\ \A p \in Op \ {o} : ops'[p] = ops[p]
      BY <3>1, DispatchedRow DEF Base, TypeOK, StoreOK
    <3>3. /\ work' \in [Op -> WorkRow] /\ \A p \in Op \ {o} : work'[p] = work[p]
          /\ \/ work'[o].at = "send"
             \/ work'[o].at = "done" /\ work'[o].result = "denied"
      <4>1. work \in [Op -> WorkRow]
        BY DEF Base, TypeOK, MemoryOK
      <4>2. CASE Step(o, "send", None)
        BY <4>1, <4>2, StepRow DEF Place
      <4>3. CASE Step(o, "done", "denied")
        BY <4>1, <4>3, StepRow DEF Place, Outcome
      <4>4. QED
        BY <3>1, <4>2, <4>3
    <3>4. TypeOK'
      BY <2>1, <3>2, <3>3 DEF Base, TypeOK, StoreOK, MemoryOK
    <3>5. RowOK(o)'
      BY <1>1, <2>1, <3>2, <3>3 DEF RowOK
    <3>6. TargetOK(o)'
      BY <1>1, <2>1, <3>1, <3>2 DEF TargetOK, IsBlocking, SnapshotValid
    <3>7. LinksChange(o)
      BY <2>1 DEF LinksChange, Base, TypeOK, StoreOK
    <3>8. Frame(o)
      BY <2>1, <3>2, <3>3 DEF Frame
    <3>9. IsBlocking(o)' => IsBlocking(o) /\ ops'[o].task = ops[o].task
      BY <3>2 DEF IsBlocking
    <3>10. QED
      BY <2>1, <3>4, <3>5, <3>6, <3>7, <3>8, <3>9, BaseStep
  <2>4. QED
    BY <2>2, <2>3
<1>7. QED
  BY <1>2, <1>3, <1>4, <1>5, <1>6

\* Steps that only read the operations.
LEMMA BaseOthers ==
    ASSUME Base,
           \/ \E o \in Op : RemoteApply(o) \/ RemoteReject(o)
           \/ RemoteNew \/ IntegrationCheck \/ IntegrationCheckFinished
           \/ \E c \in Credential : RevokeCredential(c)
           \/ \E t \in Task : ChangeTask(t)
           \/ UNCHANGED vars
    PROVE  Base'
<1>0. TypeOK /\ StoreOK /\ MemoryOK /\ ProviderOK
  BY DEF Base, TypeOK
<1>1. ASSUME UNCHANGED <<store, memory, revoked>>, ProviderOK' PROVE Base'
  <2>1. TypeOK'
    BY <1>0, <1>1 DEF TypeOK, StoreOK, MemoryOK, store, memory
  <2>2. QED
    BY <1>0, <1>1, <2>1, BaseQuiet DEF StoreOK, store, memory
<1>2. ASSUME NEW o \in Op, RemoteApply(o) PROVE Base'
  <2>1. wire' \subseteq Op /\ comments' \subseteq Op
    BY <1>0, <1>2 DEF RemoteApply, ProviderOK
  <2>2. \E n \in Nat : issues' \in [1 .. n -> [ns : Namespace \cup {None}, by : Op \cup {0}]]
    <3>1. CASE UNCHANGED issues
      BY <1>0, <3>1 DEF ProviderOK
    <3>2. CASE AddIssue(ops[o].ns, o) /\ ops[o].kind = "publish_issue"
      <4>1. ops[o].ns \in Namespace \cup {None}
        BY <1>0 DEF StoreOK, Row
      <4>2. QED
        BY <1>0, <3>2, <4>1, IssueAdded
    <3>3. QED
      BY <1>2, <3>1, <3>2 DEF RemoteApply
  <2>3. QED
    BY <1>1, <1>2, <2>1, <2>2 DEF RemoteApply, ProviderOK
<1>3. ASSUME NEW o \in Op, RemoteReject(o) PROVE Base'
  <2>1. UNCHANGED <<store, memory, revoked>> /\ ProviderOK'
    BY <1>0, <1>3 DEF RemoteReject, ProviderOK
  <2>2. QED
    BY <1>1, <2>1
<1>4. CASE RemoteNew
  <2>1. PICK ns \in Namespace \cup {None} : AddIssue(ns, 0)
    BY <1>4 DEF RemoteNew
  <2>2. UNCHANGED <<store, memory, revoked, wire, comments>>
    BY <1>4 DEF RemoteNew
  <2>3. ProviderOK'
    BY <1>0, <2>1, <2>2, IssueAdded DEF ProviderOK
  <2>4. QED
    BY <1>1, <2>2, <2>3
<1>5. CASE IntegrationCheck \/ IntegrationCheckFinished
  <2>1. UNCHANGED <<store, work, verify, slots, revoked, provider>>
    BY <1>5 DEF IntegrationCheck, IntegrationCheckFinished
  <2>2. requests' \in Nat /\ checks' \in Nat
    BY <1>0, <1>5 DEF IntegrationCheck, IntegrationCheckFinished, MemoryOK, Decrement
  <2>3. TypeOK'
    BY <1>0, <2>1, <2>2 DEF TypeOK, StoreOK, MemoryOK, ProviderOK, store, provider
  <2>4. QED
    BY <1>0, <2>1, <2>3, BaseQuiet DEF StoreOK, store
<1>6. ASSUME NEW c \in Credential, RevokeCredential(c) PROVE Base'
  <2>1. UNCHANGED <<store, memory, provider>> /\ revoked' = revoked \cup {c}
    BY <1>6 DEF RevokeCredential
  <2>2. TypeOK'
    BY <1>0, <2>1 DEF TypeOK, StoreOK, MemoryOK, ProviderOK, store, memory, provider
  <2>3. QED
    BY <1>0, <2>1, <2>2, BaseQuiet DEF StoreOK, store, memory
<1>7. ASSUME NEW t \in Task, ChangeTask(t) PROVE Base'
  <2>1. /\ UNCHANGED <<ops, links, binding, resolved, memory, revoked, provider>>
        /\ tasks' = [tasks EXCEPT ![t] = @ + 1]
    BY <1>7 DEF ChangeTask
  <2>2. tasks' \in [Task -> Nat] /\ \A u \in Task : tasks'[u] >= tasks[u]
    BY <1>0, <2>1 DEF StoreOK
  <2>3. TypeOK'
    BY <1>0, <2>1, <2>2 DEF TypeOK, StoreOK, MemoryOK, ProviderOK, memory, provider
  <2>4. QED
    BY <2>1, <2>2, <2>3, BaseQuiet DEF memory
<1>8. CASE UNCHANGED vars
  <2>1. UNCHANGED <<store, memory, revoked, wire, issues, comments>>
    BY <1>8 DEF vars, provider
  <2>2. ProviderOK'
    BY <1>0, <2>1 DEF ProviderOK
  <2>3. QED
    BY <1>1, <2>1, <2>2
<1>9. QED
  BY <1>2, <1>3, <1>4, <1>5, <1>6, <1>7, <1>8

LEMMA BaseResolutions ==
    ASSUME Base, NEW o \in Op,
           \/ ResolveNotApplied(o) \/ VerifyMarker(o) \/ ResolutionFinished(o)
           \/ \E i \in DOMAIN issues, c \in Credential : ResolveApplied(o, i, c)
    PROVE  Base'
<1>0. /\ StoreOK /\ MemoryOK /\ ProviderOK /\ revoked \subseteq Credential
      /\ RowOK(o) /\ TargetOK(o)
  BY DEF Base, TypeOK
<1>1. CASE ResolveNotApplied(o)
  <2>1. /\ Resolvable(o) /\ Settle(o, "failed", "not_applied")
        /\ UNCHANGED <<links, tasks, binding, memory, revoked, provider>>
    BY <1>1 DEF ResolveNotApplied
  <2>2. /\ ops' \in [Op -> Row] /\ ops'[o].status = "failed" /\ ops'[o].phase = ops[o].phase
        /\ ops'[o].task = ops[o].task /\ ops'[o].kind = ops[o].kind
        /\ \A p \in Op \ {o} : ops'[p] = ops[p]
    BY <1>0, <2>1, SettledRow DEF StoreOK, Status
  <2>3. resolved' \in [Op -> {None, "applied", "not_applied"}]
    BY <1>0, <2>1 DEF Settle, StoreOK
  <2>4. TypeOK'
    BY <1>0, <2>1, <2>2, <2>3 DEF TypeOK, StoreOK, MemoryOK, ProviderOK, memory, provider
  <2>5. ops[o].status = "unconfirmed" /\ ops[o].phase = "terminal"
    BY <2>1 DEF Resolvable
  <2>6. RowOK(o)'
    BY <1>0, <2>1, <2>2, <2>5 DEF RowOK, memory
  <2>7. TargetOK(o)' /\ ~IsBlocking(o)'
    BY <2>2, <2>5 DEF TargetOK, IsBlocking, Blocking
  <2>8. Frame(o) /\ LinksChange(o) /\ binding' = binding
    BY <1>0, <2>1, <2>2 DEF Frame, LinksChange, StoreOK, memory
  <2>9. QED
    BY <2>4, <2>6, <2>7, <2>8, BaseStep
<1>2. ASSUME UNCHANGED <<store, work, checks, revoked, provider>>, requests' \in Nat, slots' \subseteq Task,
             verify' \in [Op -> VerifyRow], \A p \in Op \ {o} : verify'[p] = verify[p],
             ops[o].kind \in Publish /\ ops[o].status \in {"unconfirmed", "failed"}
      PROVE  Base'
  <2>1. TypeOK'
    BY <1>0, <1>2 DEF TypeOK, StoreOK, MemoryOK, ProviderOK, store, provider
  <2>2. RowOK(o)' /\ TargetOK(o)' /\ Frame(o) /\ LinksChange(o) /\ binding' = binding
    <3>1. RowOK(o)'
      BY <1>0, <1>2 DEF RowOK, store
    <3>2. TargetOK(o)'
      BY <1>0, <1>2 DEF TargetOK, IsBlocking, store
    <3>3. Frame(o) /\ LinksChange(o) /\ binding' = binding
      BY <1>0, <1>2 DEF Frame, LinksChange, StoreOK, store
    <3>4. QED
      BY <3>1, <3>2, <3>3
  <2>3. IsBlocking(o)' => IsBlocking(o) /\ ops'[o].task = ops[o].task
    BY <1>2 DEF IsBlocking, store
  <2>4. QED
    BY <2>1, <2>2, <2>3, BaseStep
<1>3. CASE VerifyMarker(o)
  <2>1. PICK ok \in BOOLEAN : verify' = [verify EXCEPT ![o].at = "done", ![o].ok = ok]
    BY <1>3 DEF VerifyMarker
  <2>2. verify' \in [Op -> VerifyRow] /\ \A p \in Op \ {o} : verify'[p] = verify[p]
    BY <1>0, <2>1 DEF MemoryOK, VerifyRow
  <2>3. ops[o].kind \in Publish /\ ops[o].status \in {"unconfirmed", "failed"}
    BY <1>0, <1>3 DEF VerifyMarker, RowOK
  <2>4. /\ UNCHANGED <<store, work, checks, revoked, provider>>
        /\ requests' \in Nat /\ slots' \subseteq Task
    BY <1>0, <1>3 DEF VerifyMarker, MemoryOK
  <2>5. QED
    BY <1>2, <2>2, <2>3, <2>4
<1>4. ASSUME NEW i \in DOMAIN issues, NEW c \in Credential, ResolveApplied(o, i, c) PROVE Base'
  <2>1. i \in Nat
    BY <1>0 DEF ProviderOK
  <2>2. binding.rev \in Nat
    BY <1>0 DEF StoreOK, BindingRow
  <2>3. verify' \in [Op -> VerifyRow] /\ \A p \in Op \ {o} : verify'[p] = verify[p]
    BY <1>0, <1>4, <2>1, <2>2 DEF ResolveApplied, MemoryOK, VerifyRow
  <2>4. ops[o].kind \in Publish /\ ops[o].status \in {"unconfirmed", "failed"}
    BY <1>4 DEF ResolveApplied, Resolvable
  <2>5. ops[o].task \in Task
    BY <1>0, <2>4 DEF RowOK
  <2>6. /\ UNCHANGED <<store, work, checks, revoked, provider>>
        /\ requests' \in Nat /\ slots' \subseteq Task
    BY <1>0, <1>4, <2>5 DEF ResolveApplied, Reserve, MemoryOK
  <2>7. QED
    BY <1>2, <2>3, <2>4, <2>6
<1>5. CASE ResolutionFinished(o)
  <2>1. /\ verify[o].at = "done" /\ verify' = [verify EXCEPT ![o] = NoVerify] /\ Release(ops[o].task)
        /\ UNCHANGED <<binding, work, checks, revoked, provider>>
    BY <1>5 DEF ResolutionFinished
  <2>2. verify' \in [Op -> VerifyRow] /\ verify'[o].at = "none" /\ \A p \in Op \ {o} : verify'[p] = verify[p]
    BY <1>0, <2>1 DEF MemoryOK, VerifyRow, NoVerify
  <2>3. requests' \in Nat /\ slots' \subseteq Task
    BY <1>0, <2>1 DEF MemoryOK, Release, Decrement
  <2>4. ops[o].kind \in Publish /\ ops[o].status \in {"unconfirmed", "failed"} /\ ops[o].task \in Task
    BY <1>0, <2>1 DEF RowOK
  <2>5. CASE ~ResolutionValid(o)
    <3>1. UNCHANGED store
      BY <1>5, <2>1, <2>5 DEF ResolutionFinished, store
    <3>2. QED
      BY <1>2, <2>1, <2>2, <2>3, <2>4, <3>1
  <2>6. CASE ResolutionValid(o)
    <3>1. /\ Settle(o, "succeeded", "applied") /\ Resolvable(o)
          /\ IF ops[o].kind = "publish_issue"
             THEN SetLink(ops[o].task, ops[o].ns, verify[o].issue)
             ELSE UNCHANGED <<links, tasks>>
      BY <1>5, <2>6 DEF ResolutionFinished, ResolutionValid
    <3>2. /\ ops' \in [Op -> Row] /\ ops'[o].status = "succeeded" /\ ops'[o].phase = ops[o].phase
          /\ ops'[o].task = ops[o].task /\ ops'[o].kind = ops[o].kind
          /\ \A p \in Op \ {o} : ops'[p] = ops[p]
      BY <1>0, <3>1, SettledRow DEF StoreOK, Status
    <3>3. resolved' \in [Op -> {None, "applied", "not_applied"}]
      BY <1>0, <3>1 DEF Settle, StoreOK
    <3>4. verify[o].issue \in Nat /\ ops[o].ns \in Namespace \cup {None}
      BY <1>0 DEF MemoryOK, VerifyRow, StoreOK, Row
    <3>5. /\ links' \in [Task -> Link] /\ tasks' \in [Task -> Nat]
          /\ \A u \in Task : tasks'[u] >= tasks[u]
          /\ \A u \in Task \ {ops[o].task} : links'[u] = links[u]
      <4>1. CASE UNCHANGED <<links, tasks>>
        BY <1>0, <4>1 DEF StoreOK
      <4>2. CASE SetLink(ops[o].task, ops[o].ns, verify[o].issue)
        BY <1>0, <2>4, <3>4, <4>2, LinkRow DEF StoreOK
      <4>3. QED
        BY <3>1, <4>1, <4>2
    <3>6. TypeOK'
      BY <1>0, <2>1, <2>2, <2>3, <3>2, <3>3, <3>5 DEF TypeOK, StoreOK, MemoryOK, ProviderOK, provider
    <3>7. ops[o].status = "unconfirmed" /\ ops[o].phase = "terminal" /\ IsBlocking(o)
      BY <3>1 DEF Resolvable, IsBlocking, Blocking
    <3>8. RowOK(o)'
      BY <1>0, <2>1, <2>2, <3>2, <3>7 DEF RowOK
    <3>9. TargetOK(o)' /\ ~IsBlocking(o)'
      BY <3>2, <3>7 DEF TargetOK, IsBlocking, Blocking
    <3>10. Frame(o)
      BY <2>1, <2>2, <3>2 DEF Frame
    <3>11. LinksChange(o)
      BY <3>5, <3>7 DEF LinksChange
    <3>12. QED
      BY <2>1, <3>6, <3>8, <3>9, <3>10, <3>11, BaseStep
  <2>7. QED
    BY <2>5, <2>6
<1>6. QED
  BY <1>1, <1>3, <1>4, <1>5

Starts(o, c) ==
    StartImport(o, c) \/ StartLink(o, c) \/ StartPublishIssue(o, c) \/ StartPublishReport(o, c)

\* Every start is the start of some row that was checked against its task.
LEMMA StartShape ==
    ASSUME Base, NEW o \in Op, NEW c \in Credential, Starts(o, c)
    PROVE  \E kind \in Kind, t \in Task \cup {0}, i \in Nat, replace \in BOOLEAN :
             /\ ExternalStart(o, Prepared(kind, t, i, replace, c))
             /\ kind = "import" <=> t = 0
             /\ kind = "publish_issue" => links[t] = NoLink
             /\ kind \in {"import", "link"} => i \in DOMAIN issues /\ (ImportOwn \/ issues[i].by = 0)
<1> DEFINE Goal == \E kind \in Kind, t \in Task \cup {0}, i \in Nat, replace \in BOOLEAN :
             /\ ExternalStart(o, Prepared(kind, t, i, replace, c))
             /\ kind = "import" <=> t = 0
             /\ kind = "publish_issue" => links[t] = NoLink
             /\ kind \in {"import", "link"} => i \in DOMAIN issues /\ (ImportOwn \/ issues[i].by = 0)
<1>1. \A i \in DOMAIN issues : i \in Nat
  BY DEF Base, TypeOK, ProviderOK
<1>2. 0 \notin Task
  BY ExternalAssumption DEF Task
<1>3. /\ "import" \in Kind /\ "link" \in Kind /\ "publish_issue" \in Kind /\ "publish_report" \in Kind
      /\ FALSE \in BOOLEAN
  BY DEF Kind
<1>4. CASE StartImport(o, c)
  <2>1. PICK i \in DOMAIN issues :
          (ImportOwn \/ issues[i].by = 0) /\ ExternalStart(o, Prepared("import", 0, i, FALSE, c))
    BY <1>4 DEF StartImport
  <2>2. i \in Nat
    BY <1>1
  <2>3. QED
    BY <1>2, <1>3, <2>1, <2>2
<1>5. CASE StartLink(o, c)
  <2>1. PICK t \in Task, i \in DOMAIN issues, replace \in BOOLEAN :
          (ImportOwn \/ issues[i].by = 0) /\ ExternalStart(o, Prepared("link", t, i, replace, c))
    BY <1>5 DEF StartLink
  <2>2. i \in Nat
    BY <1>1
  <2>3. QED
    BY <1>2, <1>3, <2>1, <2>2
<1>6. CASE StartPublishIssue(o, c)
  <2>1. PICK t \in Task : links[t] = NoLink /\ ExternalStart(o, Prepared("publish_issue", t, 0, FALSE, c))
    BY <1>6 DEF StartPublishIssue
  <2>2. QED
    BY <1>2, <1>3, <2>1
<1>7. CASE StartPublishReport(o, c)
  <2>1. PICK t \in Task : ExternalStart(o, Prepared("publish_report", t, links[t].issue, FALSE, c))
    BY <1>7 DEF StartPublishReport
  <2>2. links[t].issue \in Nat
    BY DEF Base, TypeOK, StoreOK, Link
  <2>3. QED
    BY <1>2, <1>3, <2>1, <2>2
<1>8. QED
  BY <1>4, <1>5, <1>6, <1>7 DEF Starts

\* The operations and workers that take part in a step.
LEMMA StepCases ==
    ASSUME [Next]_vars
    PROVE  \/ \E o \in Op :
                \/ Read(o) \/ Preflight(o) \/ ExternalGate(o) \/ Send(o) \/ Answered(o)
                \/ ExternalFinished(o)
                \/ ResolveNotApplied(o) \/ VerifyMarker(o) \/ ResolutionFinished(o)
                \/ \E i \in DOMAIN issues, c \in Credential : ResolveApplied(o, i, c)
                \/ \E c \in Credential : Starts(o, c)
           \/ IntegrationReload \/ Restart
           \/ \/ \E o \in Op : RemoteApply(o) \/ RemoteReject(o)
              \/ RemoteNew \/ IntegrationCheck \/ IntegrationCheckFinished
              \/ \E c \in Credential : RevokeCredential(c)
              \/ \E t \in Task : ChangeTask(t)
              \/ UNCHANGED vars
  BY DEF Next, Worker, Starts

LEMMA BaseInit ==
    ASSUME Init
    PROVE  Base
<1>1. StoreOK
  <2>1. NoOp \in Row /\ NoLink \in Link
    BY DEF NoOp, Row, NoLink, Link
  <2>2. [enabled |-> FALSE, cfg |-> None, rev |-> 0] \in BindingRow
    BY DEF BindingRow
  <2>3. QED
    BY <2>1, <2>2 DEF Init, StoreOK
<1>2. MemoryOK /\ revoked \subseteq Credential
  BY DEF Init, MemoryOK, WorkRow, VerifyRow, Idle, NoVerify, Place
<1>3. ProviderOK
  <2>1. issues \in [1 .. 0 -> [ns : Namespace \cup {None}, by : Op \cup {0}]]
    BY DEF Init
  <2>2. QED
    BY <2>1 DEF Init, ProviderOK
<1>4. ASSUME NEW o \in Op PROVE RowOK(o) /\ TargetOK(o) /\ ~IsBlocking(o)
  <2>1. /\ ops[o].kind = None /\ ops[o].phase = None /\ ops[o].status = None /\ ops[o].task = 0
        /\ work[o].at = "none" /\ verify[o].at = "none"
    BY DEF Init, NoOp, Idle, NoVerify
  <2>2. /\ None \notin {"running", "unconfirmed", "prepared", "dispatched", "link", "publish_issue"}
        /\ None \notin {"publish_report", "import"}
    BY NoneIsNoWord DEF Kind, Phase, Status
  <2>3. QED
    BY <2>1, <2>2 DEF RowOK, TargetOK, IsBlocking, Blocking, Publish
<1>5. ~binding.enabled
  BY DEF Init
<1>6. QED
  BY <1>1, <1>2, <1>3, <1>4, <1>5 DEF Base, TypeOK, OneOpen

LEMMA BaseNext ==
    ASSUME Base, [Next]_vars
    PROVE  Base'
<1>1. ASSUME NEW o \in Op, NEW c \in Credential, Starts(o, c) PROVE Base'
  BY <1>1, StartShape, BaseStart
<1>2. ASSUME NEW o \in Op, Read(o) \/ Preflight(o) \/ ExternalGate(o) \/ Send(o) \/ Answered(o)
      PROVE  Base'
  BY <1>2, BaseWorkers
<1>3. ASSUME NEW o \in Op,
             \/ ResolveNotApplied(o) \/ VerifyMarker(o) \/ ResolutionFinished(o)
             \/ \E i \in DOMAIN issues, c \in Credential : ResolveApplied(o, i, c)
      PROVE  Base'
  BY <1>3, BaseResolutions
<1>4. QED
  BY <1>1, <1>2, <1>3, StepCases, BaseFinished, BaseReload, BaseRestart, BaseOthers

LEMMA BaseInvariant == Spec => []Base
<1>1. Init => Base
  BY BaseInit
<1>2. Base /\ [Next]_vars => Base'
  BY BaseNext
<1>3. QED
  BY <1>1, <1>2, PTL DEF Spec

\* While an operation runs its binding stays as it was, and from the gate until
\* it is settled a report's task stays linked to the issue the report goes to:
\* apply_catalog, the gate, the completions and the recovery after a crash.
THEOREM TargetsAreKept == Spec => []OpenKeepsItsTarget
<1>1. Base => OpenKeepsItsTarget
  BY DEF Base, TargetOK, OpenKeepsItsTarget
<1>2. QED
  BY <1>1, BaseInvariant, PTL

-----------------------------------------------------------------------------
(* What the provider has of an operation.                                     *)

\* A step of one operation, the provider's tables left alone.
LEMMA WritesStep ==
    ASSUME Writes, Base', NEW o \in Op, Frame(o), issues' = issues, comments' = comments,
           wire' \subseteq wire \cup {o}, WriteOK(o)',
           ops[o].status = "succeeded" => ops'[o].status = "succeeded",
           \A t \in Task : \/ links'[t] = links[t]
                          \/ /\ links'[t].issue \in DOMAIN issues
                             /\ \/ issues[links'[t].issue].by = 0
                                \/ issues[links'[t].issue].by = o /\ ops'[o].status = "succeeded"
    PROVE  Writes'
<1>1. ASSUME NEW p \in Op \ {o} PROVE WriteOK(p)'
  <2>1. ops'[p] = ops[p] /\ work'[p] = work[p] /\ verify'[p] = verify[p] /\ WriteOK(p)
    BY DEF Frame, Writes
  <2>2. NothingSent(p)' => NothingSent(p)
    BY <2>1 DEF NothingSent
  <2>3. Silent(p) => Silent(p)'
    BY <1>1 DEF Silent, Applied, CreatedBy
  <2>4. MarkerFound(p) => MarkerFound(p)'
    BY <2>1 DEF MarkerFound, IssueMarker, CommentMarker, CreatedBy
  <2>5. QED
    BY <2>1, <2>2, <2>3, <2>4 DEF WriteOK
<1>2. LinksOK'
  <2>1. ASSUME NEW p \in Op, ops[p].status = "succeeded" PROVE ops'[p].status = "succeeded"
    BY <2>1 DEF Frame
  <2>2. \A i \in DOMAIN issues : issues[i].by \in Op \cup {0}
    BY DEF Writes, Base, TypeOK, ProviderOK
  <2>3. LinksOK
    BY DEF Writes
  <2>4. QED
    BY <2>1, <2>2, <2>3 DEF LinksOK
<1>3. QED
  BY <1>1, <1>2 DEF Writes

\* A step of the provider applies what it had received, if anything.
LEMMA WritesProvider ==
    ASSUME Writes, Base', NEW w \in SUBSET wire, UNCHANGED <<ops, work, verify, links>>,
           wire' \subseteq wire, comments \subseteq comments', comments' \subseteq comments \cup w,
           DOMAIN issues \subseteq DOMAIN issues',
           \A i \in DOMAIN issues : issues'[i] = issues[i],
           \A i \in DOMAIN issues' \ DOMAIN issues : issues'[i].by \in w \cup {0}
    PROVE  Writes'
<1>1. ASSUME NEW p \in Op PROVE WriteOK(p)'
  <2>1. WriteOK(p) /\ p # 0
    BY DEF Writes, Op
  <2>2. NothingSent(p)' => NothingSent(p)
    BY DEF NothingSent
  <2>3. Silent(p) => Silent(p)'
    BY <2>1 DEF Silent, Applied, CreatedBy
  <2>4. MarkerFound(p) => MarkerFound(p)'
    BY DEF MarkerFound, IssueMarker, CommentMarker, CreatedBy
  <2>5. QED
    BY <2>1, <2>2, <2>3, <2>4 DEF WriteOK
<1>2. LinksOK'
  BY DEF LinksOK, Writes
<1>3. QED
  BY <1>1, <1>2 DEF Writes

\* A worker that goes on: only one that has nothing to send must be silent.
LEMMA WritesWorker ==
    ASSUME Writes, Base', NEW o \in Op, NEW at \in Place, NEW r \in Outcome \cup {None},
           Step(o, at, r), UNCHANGED <<ops, links, verify, issues, comments>>,
           wire' \subseteq wire \cup {o}, NothingSent(o)' => Silent(o)'
    PROVE  Writes'
<1>1. \A p \in Op \ {o} : work'[p] = work[p]
  BY StepRow DEF Writes, Base, TypeOK, MemoryOK
<1>2. Frame(o)
  BY <1>1 DEF Frame
<1>3. MarkerFound(o) => MarkerFound(o)'
  BY DEF MarkerFound, IssueMarker, CommentMarker, CreatedBy
<1>4. WriteOK(o)'
  BY <1>3 DEF WriteOK, Writes
<1>5. QED
  BY <1>2, <1>4, WritesStep

LEMMA WritesWorkers ==
    ASSUME Writes, Base', NEW o \in Op,
           Read(o) \/ Preflight(o) \/ ExternalGate(o) \/ Send(o) \/ Answered(o)
    PROVE  Writes'
<1>0. RowOK(o) /\ WriteOK(o) /\ Base /\ work \in [Op -> WorkRow]
  BY DEF Writes, Base, TypeOK, MemoryOK
<1>1. "done" \in Place /\ "gate" \in Place /\ "sent" \in Place /\ "send" \in Place
      /\ {"read", "failed", "denied", "unconfirmed", "written"} \subseteq Outcome
  BY DEF Place, Outcome
<1>2. ASSUME UNCHANGED <<wire, issues, comments>>, Silent(o) PROVE Silent(o)'
  BY <1>2 DEF Silent, Applied, CreatedBy
<1>3. CASE Read(o)
  <2>1. PICK r \in {"read", "failed"} : Step(o, "done", r)
    BY <1>3 DEF Read, Done
  <2>2. UNCHANGED <<ops, links, verify, wire, issues, comments>> /\ work[o].at = "read"
    BY <1>3 DEF Read, store, provider
  <2>3. Silent(o)'
    BY <1>0, <1>2, <2>2 DEF RowOK, WriteOK, NothingSent
  <2>4. QED
    BY <1>1, <2>1, <2>2, <2>3, WritesWorker
<1>4. CASE Preflight(o)
  <2>1. UNCHANGED <<ops, links, verify, wire, issues, comments>> /\ work[o].at = "preflight"
    BY <1>4 DEF Preflight, store, provider
  <2>2. Silent(o)'
    BY <1>0, <1>2, <2>1 DEF RowOK, WriteOK, NothingSent
  <2>3. Step(o, "gate", None) \/ Step(o, "done", "failed")
    BY <1>4 DEF Preflight, Done
  <2>4. QED
    BY <1>1, <2>1, <2>2, <2>3, WritesWorker
<1>5. CASE ExternalGate(o)
  <2>1. UNCHANGED <<links, verify, wire, issues, comments>> /\ work[o].at = "gate"
    BY <1>5 DEF ExternalGate, provider
  <2>2. Silent(o)'
    BY <1>0, <1>2, <2>1 DEF RowOK, WriteOK, NothingSent
  <2>3. Step(o, "send", None) \/ Step(o, "done", "denied")
    BY <1>5 DEF ExternalGate, Done
  <2>4. CASE ops' = ops
    BY <1>1, <2>1, <2>2, <2>3, <2>4, WritesWorker
  <2>5. CASE ops' # ops
    <3>1. ops' = [ops EXCEPT ![o].phase = "dispatched"]
      BY <1>5, <2>5 DEF ExternalGate
    <3>2. /\ ops'[o].status = ops[o].status /\ ops'[o].kind = ops[o].kind
          /\ ops'[o].issue = ops[o].issue /\ \A p \in Op \ {o} : ops'[p] = ops[p]
      BY <1>0, <3>1, DispatchedRow DEF Base, TypeOK, StoreOK
    <3>3. \A p \in Op \ {o} : work'[p] = work[p]
      BY <1>0, <1>1, <2>3, StepRow
    <3>4. Frame(o)
      BY <2>1, <3>2, <3>3 DEF Frame
    <3>5. MarkerFound(o) => MarkerFound(o)'
      BY <2>1, <3>2 DEF MarkerFound, IssueMarker, CommentMarker, CreatedBy
    <3>6. WriteOK(o)'
      BY <1>0, <2>1, <2>2, <3>2, <3>5 DEF WriteOK
    <3>7. QED
      BY <2>1, <3>2, <3>4, <3>6, WritesStep
  <2>6. QED
    BY <2>4, <2>5
<1>6. CASE Send(o)
  <2>1. UNCHANGED <<ops, links, verify, issues, comments>> /\ work[o].at = "send"
    BY <1>6 DEF Send, store
  <2>2. CASE Step(o, "sent", None) /\ wire' = wire \cup {o}
    <3>1. work'[o].at = "sent" /\ ops[o].phase = "dispatched" /\ ops[o].status = "running"
      BY <1>0, <1>1, <2>1, <2>2, StepRow DEF RowOK
    <3>2. ~NothingSent(o)'
      BY <2>1, <3>1, NoneIsNoWord DEF NothingSent, Status
    <3>3. QED
      BY <1>1, <2>1, <2>2, <3>2, WritesWorker
  <2>3. CASE Step(o, "done", "failed") /\ UNCHANGED wire
    <3>1. Silent(o)'
      BY <1>0, <1>2, <2>1, <2>3 DEF WriteOK, NothingSent
    <3>2. QED
      BY <1>1, <2>1, <2>3, <3>1, WritesWorker
  <2>4. QED
    BY <1>6, <2>2, <2>3 DEF Send, Done
<1>7. CASE Answered(o)
  <2>1. UNCHANGED <<ops, links, verify, wire, issues, comments>> /\ work[o].at = "sent"
    BY <1>7 DEF Answered, store, provider
  <2>2. PICK r \in Outcomes(o) : Step(o, "done", r)
    BY <1>7 DEF Answered, Done
  <2>3. r \in {"unconfirmed", "written", "failed"} /\ (r = "failed" => Silent(o))
    BY DEF Outcomes, Refused, Silent
  <2>4. work'[o].at = "done" /\ work'[o].result = r /\ ops[o].phase = "dispatched" /\ ops[o].status = "running"
    BY <1>0, <1>1, <2>1, <2>2, <2>3, StepRow DEF RowOK
  <2>5. NothingSent(o)' => Silent(o)'
    BY <1>2, <2>1, <2>3, <2>4, NoneIsNoWord DEF NothingSent, Status
  <2>6. QED
    BY <1>1, <2>1, <2>2, <2>3, <2>5, WritesWorker
<1>8. QED
  BY <1>3, <1>4, <1>5, <1>6, <1>7

\* An issue that an operation created is linked by that operation only.
LEMMA OwnIssueIsFree ==
    ASSUME Writes, NEW o \in Op, ops[o].status # "succeeded", NEW i \in CreatedBy(o), NEW ns
    PROVE  LinkedTo(ns, i) = {}
<1>1. i \in DOMAIN issues /\ issues[i].by = o /\ o # 0 /\ i # 0
  BY DEF CreatedBy, Writes, Base, TypeOK, ProviderOK, Op
<1>2. SUFFICES ASSUME NEW t \in Task, links[t] = [ns |-> ns, issue |-> i] PROVE FALSE
  BY DEF LinkedTo
<1>3. links[t].issue = i /\ links[t] # NoLink
  BY <1>1, <1>2 DEF NoLink
<1>4. QED
  BY <1>1, <1>3 DEF Writes, LinksOK

LEMMA WritesFinished ==
    ASSUME Writes, Base', NEW o \in Op, ExternalFinished(o)
    PROVE  Writes'
<1>0. RowOK(o) /\ TargetOK(o) /\ WriteOK(o) /\ Base /\ work \in [Op -> WorkRow]
      /\ ops \in [Op -> Row] /\ links \in [Task -> Link] /\ tasks \in [Task -> Nat]
      /\ ops[o].ns \in Namespace \cup {None}
  BY DEF Writes, Base, TypeOK, MemoryOK, StoreOK, Row
<1>1. PICK status \in Status \ {"running"}, t \in Task \cup {0} : Ends(o, status, t)
  BY <1>0, FinishEffect
<1>2. /\ work[o].at = "done" /\ work' = [work EXCEPT ![o] = Idle]
      /\ UNCHANGED <<verify, wire, issues, comments>>
  BY DEF ExternalFinished, provider
<1>3. /\ ops'[o].phase = "terminal" /\ ops'[o].status = status
      /\ ops'[o].kind = ops[o].kind /\ \A p \in Op \ {o} : ops'[p] = ops[p]
  BY <1>0, <1>1, TerminalRow DEF Ends
<1>4. work'[o].at = "none" /\ \A p \in Op \ {o} : work'[p] = work[p]
  BY <1>0, <1>2, IdleRow
<1>5. ops[o].status = "running" /\ IsBlocking(o)
  BY <1>0, <1>2 DEF RowOK, IsBlocking, Blocking
<1>6. status = "failed" => Silent(o)
  <2>1. CASE work[o].result \in {"failed", "denied", "read"}
    BY <1>0, <1>2, <2>1 DEF WriteOK, NothingSent
  <2>2. ASSUME ops[o].kind = "publish_issue", NEW i \in CreatedBy(o),
               ~Linkable(ops[o].task, ops[o].ns, i)
        PROVE  FALSE
    <3>1. links[ops[o].task] = NoLink
      BY <1>0, <1>5, <2>2 DEF TargetOK
    <3>2. LinkedTo(ops[o].ns, i) = {}
      BY <1>5, OwnIssueIsFree
    <3>3. QED
      BY <2>2, <3>1, <3>2 DEF Linkable
  <2>3. QED
    BY <1>1, <2>1, <2>2 DEF Ends
<1>7. NothingSent(o)' => Silent(o)'
  <2>1. NothingSent(o)' => status = "failed"
    BY <1>1, <1>3, <1>4, NoneIsNoWord DEF NothingSent
  <2>2. Silent(o) => Silent(o)'
    BY <1>2 DEF Silent, Applied, CreatedBy
  <2>3. QED
    BY <1>6, <2>1, <2>2
<1>8. MarkerFound(o) => MarkerFound(o)'
  BY <1>2, <1>3 DEF MarkerFound, IssueMarker, CommentMarker, CreatedBy
<1>9. WriteOK(o)'
  BY <1>0, <1>1, <1>2, <1>3, <1>7, <1>8 DEF WriteOK
<1>10. Frame(o)
  BY <1>2, <1>3, <1>4 DEF Frame
<1>11. ASSUME NEW u \in Task, links'[u] # links[u]
       PROVE  /\ links'[u].issue \in DOMAIN issues
              /\ \/ issues[links'[u].issue].by = 0
                 \/ issues[links'[u].issue].by = o /\ ops'[o].status = "succeeded"
  <2>1. PICK v \in Task, i \in Nat :
             /\ status = "succeeded" /\ SetLink(v, ops[o].ns, i)
             /\ \/ ops[o].kind \in {"import", "link"} /\ i = ops[o].issue
                \/ ops[o].kind = "publish_issue" /\ i \in CreatedBy(o)
    BY <1>1, <1>11 DEF Ends
  <2>2. links'[v] = [ns |-> ops[o].ns, issue |-> i] /\ \A x \in Task \ {v} : links'[x] = links[x]
    BY <1>0, <2>1, LinkRow
  <2>3. links'[u].issue = i
    BY <1>11, <2>2
  <2>4. QED
    BY <1>0, <1>3, <1>5, <2>1, <2>3 DEF WriteOK, CreatedBy
<1>12. QED
  BY <1>2, <1>5, <1>9, <1>10, <1>11, WritesStep

LEMMA WritesStart ==
    ASSUME Writes, Base', ~ImportOwn, NEW o \in Op, NEW c \in Credential, Starts(o, c)
    PROVE  Writes'
<1>0. RowOK(o) /\ WriteOK(o) /\ Base /\ work \in [Op -> WorkRow] /\ ops \in [Op -> Row]
  BY DEF Writes, Base, TypeOK, MemoryOK, StoreOK
<1>1. PICK kind \in Kind, t \in Task \cup {0}, i \in Nat, replace \in BOOLEAN :
             /\ ExternalStart(o, Prepared(kind, t, i, replace, c))
             /\ kind \in {"import", "link"} => i \in DOMAIN issues /\ issues[i].by = 0
  BY <1>0, StartShape
<1> DEFINE row == Prepared(kind, t, i, replace, c)
<1>2. /\ FreshOp(o) /\ ops' = [ops EXCEPT ![o] = row]
      /\ UNCHANGED <<links, verify, wire, issues, comments>>
      /\ work' = [work EXCEPT ![o].at = IF row.kind \in Publish THEN "preflight" ELSE "read"]
  BY <1>1 DEF ExternalStart, provider
<1>3. row.kind = kind /\ row.issue = i /\ row.phase = "prepared" /\ row.status = "running"
  BY DEF Prepared
<1> HIDE DEF row
<1>4. ops'[o] = row /\ \A p \in Op \ {o} : ops'[p] = ops[p]
  BY <1>0, <1>2
<1>5. \A p \in Op \ {o} : work'[p] = work[p]
  BY <1>0, <1>2
<1>6. ops[o].status = None /\ ops[o].kind = None
  BY <1>2 DEF FreshOp, NoOp
<1>7. Silent(o) /\ ~verify[o].ok
  <2>1. Silent(o)
    BY <1>0, <1>6 DEF WriteOK, NothingSent
  <2>2. ~MarkerFound(o)
    BY <1>6, <2>1, NoneIsNoWord DEF MarkerFound, CommentMarker, Silent, Applied, Kind
  <2>3. QED
    BY <1>0, <2>1, <2>2 DEF WriteOK
<1>8. Silent(o)'
  BY <1>2, <1>7 DEF Silent, Applied, CreatedBy
<1>9. WriteOK(o)'
  BY <1>1, <1>2, <1>3, <1>4, <1>7, <1>8 DEF WriteOK
<1>10. Frame(o)
  BY <1>2, <1>4, <1>5 DEF Frame
<1>11. ops[o].status # "succeeded"
  BY <1>6, NoneIsNoWord DEF Status
<1>12. QED
  BY <1>2, <1>9, <1>10, <1>11, WritesStep

LEMMA WritesResolutions ==
    ASSUME Writes, Base', NEW o \in Op,
           \/ ResolveNotApplied(o) \/ VerifyMarker(o) \/ ResolutionFinished(o)
           \/ \E i \in DOMAIN issues, c \in Credential : ResolveApplied(o, i, c)
    PROVE  Writes'
<1>0. /\ RowOK(o) /\ WriteOK(o) /\ Base /\ ops \in [Op -> Row] /\ verify \in [Op -> VerifyRow]
      /\ links \in [Task -> Link] /\ tasks \in [Task -> Nat]
      /\ ops[o].ns \in Namespace \cup {None} /\ verify[o].issue \in Nat
  BY DEF Writes, Base, TypeOK, MemoryOK, StoreOK, Row, VerifyRow
<1>1. UNCHANGED <<work, wire, issues, comments>>
  BY DEF ResolveNotApplied, VerifyMarker, ResolutionFinished, ResolveApplied, memory, provider
<1>2. Silent(o) => Silent(o)'
  BY <1>1 DEF Silent, Applied, CreatedBy
<1>3. ASSUME UNCHANGED <<ops, links>>, \A p \in Op \ {o} : verify'[p] = verify[p],
             verify'[o].ok => MarkerFound(o)'
      PROVE  Writes'
  <2>1. WriteOK(o)'
    BY <1>0, <1>1, <1>2, <1>3 DEF WriteOK, NothingSent
  <2>2. Frame(o)
    BY <1>1, <1>3 DEF Frame
  <2>3. QED
    BY <1>1, <1>3, <2>1, <2>2, WritesStep
<1>4. CASE ResolveNotApplied(o)
  <2>1. /\ Settle(o, "failed", "not_applied") /\ Silent(o) /\ ops[o].status = "unconfirmed"
        /\ UNCHANGED <<links, verify>>
    BY <1>4 DEF ResolveNotApplied, Silent, memory, Resolvable
  <2>2. /\ ops'[o].status = "failed" /\ ops'[o].kind = ops[o].kind
        /\ \A p \in Op \ {o} : ops'[p] = ops[p]
    BY <1>0, <2>1, SettledRow DEF Status
  <2>3. MarkerFound(o) => MarkerFound(o)'
    BY <1>1, <2>1, <2>2 DEF MarkerFound, IssueMarker, CommentMarker, CreatedBy
  <2>4. WriteOK(o)'
    BY <1>0, <1>2, <2>1, <2>2, <2>3 DEF WriteOK
  <2>5. Frame(o)
    BY <1>1, <2>1, <2>2 DEF Frame
  <2>6. QED
    BY <1>1, <2>1, <2>4, <2>5, WritesStep
<1>5. CASE VerifyMarker(o)
  <2>1. PICK ok \in BOOLEAN :
          (ok => MarkerFound(o)) /\ verify' = [verify EXCEPT ![o].at = "done", ![o].ok = ok]
    BY <1>5 DEF VerifyMarker
  <2>2. /\ verify'[o].ok = ok /\ verify'[o].issue = verify[o].issue
        /\ \A p \in Op \ {o} : verify'[p] = verify[p]
    BY <1>0, <2>1 DEF VerifyRow
  <2>3. UNCHANGED <<ops, links>>
    BY <1>5 DEF VerifyMarker, store
  <2>4. verify'[o].ok => MarkerFound(o)'
    BY <1>1, <2>1, <2>2, <2>3 DEF MarkerFound, IssueMarker, CommentMarker, CreatedBy
  <2>5. QED
    BY <1>3, <2>2, <2>3, <2>4
<1>6. ASSUME NEW i \in DOMAIN issues, NEW c \in Credential, ResolveApplied(o, i, c) PROVE Writes'
  <2>1. /\ ~verify'[o].ok /\ \A p \in Op \ {o} : verify'[p] = verify[p]
        /\ UNCHANGED <<ops, links>>
    BY <1>0, <1>6 DEF ResolveApplied, store
  <2>2. QED
    BY <1>3, <2>1
<1>7. CASE ResolutionFinished(o)
  <2>1. ~verify'[o].ok /\ \A p \in Op \ {o} : verify'[p] = verify[p]
    BY <1>0, <1>7 DEF ResolutionFinished, NoVerify
  <2>2. CASE ~ResolutionValid(o)
    BY <1>3, <1>7, <2>1, <2>2 DEF ResolutionFinished
  <2>3. CASE ResolutionValid(o)
    <3>1. /\ Settle(o, "succeeded", "applied") /\ verify[o].ok /\ Resolvable(o)
          /\ IF ops[o].kind = "publish_issue"
             THEN SetLink(ops[o].task, ops[o].ns, verify[o].issue)
             ELSE UNCHANGED <<links, tasks>>
      BY <1>7, <2>3 DEF ResolutionFinished, ResolutionValid
    <3>2. /\ ops'[o].status = "succeeded" /\ ops'[o].kind = ops[o].kind /\ ops'[o].phase = ops[o].phase
          /\ \A p \in Op \ {o} : ops'[p] = ops[p]
      BY <1>0, <3>1, SettledRow DEF Status
    <3>3. ops[o].task \in Task /\ work[o].at = "none" /\ ops[o].phase = "terminal"
      BY <1>0, <3>1 DEF RowOK, Resolvable
    <3>4. WriteOK(o)'
      BY <1>1, <2>1, <3>2, <3>3, NoneIsNoWord DEF WriteOK, NothingSent, Status
    <3>5. Frame(o)
      BY <1>1, <2>1, <3>2 DEF Frame
    <3>6. ASSUME NEW u \in Task, links'[u] # links[u]
          PROVE  links'[u].issue \in DOMAIN issues /\ issues[links'[u].issue].by = o
      <4>1. ops[o].kind = "publish_issue" /\ SetLink(ops[o].task, ops[o].ns, verify[o].issue)
        BY <3>1, <3>6
      <4>2. /\ links'[ops[o].task] = [ns |-> ops[o].ns, issue |-> verify[o].issue]
            /\ \A x \in Task \ {ops[o].task} : links'[x] = links[x]
        BY <1>0, <3>3, <4>1, LinkRow
      <4>3. links'[u].issue = verify[o].issue
        BY <3>6, <4>2
      <4>4. verify[o].issue \in CreatedBy(o)
        BY <1>0, <3>1, <4>1 DEF WriteOK, MarkerFound, IssueMarker
      <4>5. QED
        BY <4>3, <4>4 DEF CreatedBy
    <3>7. QED
      BY <1>1, <3>2, <3>4, <3>5, <3>6, WritesStep
  <2>4. QED
    BY <2>2, <2>3
<1>8. QED
  BY <1>4, <1>5, <1>6, <1>7

LEMMA WritesRestart ==
    ASSUME Writes, Base', Restart
    PROVE  Writes'
<1>0. Base /\ LinksOK
  BY DEF Writes
<1>1. /\ \A o \in Op : ops[o].status # "running" => ops'[o] = ops[o]
      /\ \A o \in Op : ops[o].status = "running" =>
           /\ ops'[o].phase = "terminal"
           /\ ops'[o].status = IF ops[o].phase = "dispatched" THEN "unconfirmed" ELSE "failed"
  BY <1>0, RecoveredRows DEF Restart
<1>2. UNCHANGED <<links, wire, issues, comments>>
  BY DEF Restart, provider
<1>3. \A o \in Op : work'[o].at = "none" /\ ~verify'[o].ok
  BY DEF Restart, Idle, NoVerify
<1>4. ASSUME NEW o \in Op PROVE WriteOK(o)'
  <2>1. RowOK(o) /\ WriteOK(o) /\ RowOK(o)'
    BY DEF Writes, Base
  <2>2. NothingSent(o)' => NothingSent(o)
    <3>1. CASE ops[o].status = "running"
      BY <1>1, <1>3, <2>1, <3>1, NoneIsNoWord DEF NothingSent, RowOK, Status
    <3>2. CASE ops[o].status # "running"
      BY <1>1, <1>3, <3>2 DEF NothingSent
    <3>3. QED
      BY <3>1, <3>2
  <2>3. Silent(o) => Silent(o)'
    BY <1>2 DEF Silent, Applied, CreatedBy
  <2>4. ops'[o].status # "running"
    BY <1>3, <2>1 DEF RowOK
  <2>5. QED
    BY <1>3, <2>1, <2>2, <2>3, <2>4 DEF WriteOK
<1>5. LinksOK'
  <2>1. \A i \in DOMAIN issues : issues[i].by \in Op \cup {0}
    BY <1>0 DEF Base, TypeOK, ProviderOK
  <2>2. QED
    BY <1>0, <1>1, <1>2, <2>1 DEF LinksOK
<1>6. QED
  BY <1>4, <1>5 DEF Writes

LEMMA WritesOthers ==
    ASSUME Writes, Base',
           \/ IntegrationReload
           \/ \E o \in Op : RemoteApply(o) \/ RemoteReject(o)
           \/ RemoteNew \/ IntegrationCheck \/ IntegrationCheckFinished
           \/ \E c \in Credential : RevokeCredential(c)
           \/ \E t \in Task : ChangeTask(t)
           \/ UNCHANGED vars
    PROVE  Writes'
<1>0. StoreOK /\ ProviderOK
  BY DEF Writes, Base, TypeOK
<1>1. ASSUME UNCHANGED <<ops, work, verify, links, issues, comments>>, wire' \subseteq wire PROVE Writes'
  BY <1>1, WritesProvider
<1>2. ASSUME NEW o \in Op, RemoteApply(o) PROVE Writes'
  <2>1. /\ o \in wire /\ wire' = wire \ {o} /\ UNCHANGED <<ops, work, verify, links>>
        /\ comments' = comments \/ comments' = comments \cup {o}
        /\ issues' = issues \/ AddIssue(ops[o].ns, o)
    BY <1>2 DEF RemoteApply, store, memory
  <2>2. ops[o].ns \in Namespace \cup {None}
    BY <1>0 DEF StoreOK, Row
  <2>3. /\ DOMAIN issues \subseteq DOMAIN issues'
        /\ \A i \in DOMAIN issues : issues'[i] = issues[i]
        /\ \A i \in DOMAIN issues' \ DOMAIN issues : issues'[i].by = o
    BY <1>0, <2>1, <2>2, IssueAdded
  <2>4. {o} \in SUBSET wire /\ comments \subseteq comments' /\ comments' \subseteq comments \cup {o}
    BY <2>1
  <2>5. QED
    BY <2>1, <2>3, <2>4, WritesProvider
<1>3. CASE RemoteNew
  <2>1. PICK ns \in Namespace : AddIssue(ns, 0)
    BY <1>3 DEF RemoteNew
  <2>2. /\ DOMAIN issues \subseteq DOMAIN issues'
        /\ \A i \in DOMAIN issues : issues'[i] = issues[i]
        /\ \A i \in DOMAIN issues' \ DOMAIN issues : issues'[i].by = 0
    BY <1>0, <2>1, IssueAdded
  <2>3. UNCHANGED <<ops, work, verify, links, wire, comments>>
    BY <1>3 DEF RemoteNew, store, memory
  <2>4. {} \in SUBSET wire
    OBVIOUS
  <2>5. QED
    BY <2>2, <2>3, <2>4, WritesProvider
<1>4. ASSUME NEW o \in Op, RemoteReject(o) PROVE Writes'
  BY <1>1, <1>4 DEF RemoteReject, store, memory
<1>5. CASE \/ IntegrationReload \/ IntegrationCheck \/ IntegrationCheckFinished
           \/ \E c \in Credential : RevokeCredential(c)
           \/ \E t \in Task : ChangeTask(t)
           \/ UNCHANGED vars
  <2>1. UNCHANGED <<ops, work, verify, links, issues, comments, wire>>
    BY <1>5 DEF IntegrationReload, IntegrationCheck, IntegrationCheckFinished, RevokeCredential,
                ChangeTask, vars, store, memory, provider
  <2>2. QED
    BY <1>1, <2>1
<1>6. QED
  BY <1>2, <1>3, <1>4, <1>5

LEMMA WritesInit ==
    ASSUME Init
    PROVE  Writes
<1>1. DOMAIN issues = {} /\ comments = {} /\ wire = {}
  BY DEF Init
<1>2. ASSUME NEW o \in Op PROVE WriteOK(o)
  <2>1. ops[o].status = None /\ ~verify[o].ok
    BY DEF Init, NoOp, NoVerify
  <2>2. Silent(o)
    BY <1>1 DEF Silent, Applied, CreatedBy
  <2>3. QED
    BY <2>1, <2>2, NoneIsNoWord DEF WriteOK, Status
<1>3. LinksOK
  BY DEF Init, LinksOK
<1>4. QED
  BY <1>2, <1>3, BaseInit DEF Writes

LEMMA WritesNext ==
    ASSUME Writes, ~ImportOwn, [Next]_vars
    PROVE  Writes'
<1>0. Base'
  BY BaseNext DEF Writes
<1>1. ASSUME NEW o \in Op, NEW c \in Credential, Starts(o, c) PROVE Writes'
  BY <1>0, <1>1, WritesStart
<1>2. ASSUME NEW o \in Op, Read(o) \/ Preflight(o) \/ ExternalGate(o) \/ Send(o) \/ Answered(o)
      PROVE  Writes'
  BY <1>0, <1>2, WritesWorkers
<1>3. ASSUME NEW o \in Op,
             \/ ResolveNotApplied(o) \/ VerifyMarker(o) \/ ResolutionFinished(o)
             \/ \E i \in DOMAIN issues, c \in Credential : ResolveApplied(o, i, c)
      PROVE  Writes'
  BY <1>0, <1>3, WritesResolutions
<1>4. QED
  BY <1>0, <1>1, <1>2, <1>3, StepCases, WritesFinished, WritesRestart, WritesOthers

LEMMA WritesInvariant ==
    ASSUME ~ImportOwn
    PROVE  Spec => []Writes
<1>1. Init => Writes
  BY WritesInit
<1>2. Writes /\ [Next]_vars => Writes'
  BY WritesNext
<1>3. QED
  BY <1>1, <1>2, PTL DEF Spec

\* An operation that ended as failed, by its worker, by the recovery or by an
\* operator, has written nothing and will write nothing, as long as nobody
\* imports or links the issue of an operation before that operation ends.  The
\* import race is why the assumption is there: with ImportOwn the run
\* external_import_race violates the property.
THEOREM FailedIsNotApplied ==
    ASSUME ~ImportOwn
    PROVE  Spec => []FailedWasNotApplied
<1>1. Writes => FailedWasNotApplied
  BY DEF Writes, WriteOK, NothingSent, Silent, FailedWasNotApplied
<1>2. QED
  BY <1>1, WritesInvariant, PTL

-----------------------------------------------------------------------------
(* Reservations.                                                              *)

Busy == {o \in Op : work[o].at # "none"}

Judged == {o \in Op : verify[o].at # "none"}

Holds(o) == o \in Busy \cup Judged

Exact ==
    /\ requests = Cardinality(Busy) + Cardinality(Judged) + checks /\ requests <= Limit
    /\ \A t \in Task : t \in slots <=> \E o \in Op : Holds(o) /\ ops[o].task = t
    /\ \A o, p \in Op : Holds(o) /\ Holds(p) /\ ops[o].task = ops[p].task /\ ops[o].task # 0 => o = p

\* The reservations without set comprehensions.
LEMMA ExactIsExact ==
    ASSUME Base
    PROVE  ReservationsExact <=> Exact
<1> DEFINE T == {ops[o].task : o \in Busy \cup Judged} \ {0}
<1>1. ReservationsExact <=>
        /\ requests = Cardinality(Busy) + Cardinality(Judged) + checks /\ requests <= Limit
        /\ slots = T
        /\ \A o, p \in Busy \cup Judged : ops[o].task = ops[p].task /\ ops[o].task # 0 => o = p
  BY DEF ReservationsExact, Busy, Judged
<1>2. slots \subseteq Task /\ 0 \notin Task
  BY ExternalAssumption DEF Base, TypeOK, MemoryOK, Task
<1>3. \A o \in Op : ops[o].task \in Task \cup {0}
  BY DEF Base, TypeOK, StoreOK, Row
<1>4. \A o : Holds(o) => o \in Op
  BY DEF Holds, Busy, Judged
<1>5. T \subseteq Task /\ \A t \in Task : t \in T <=> \E o \in Op : Holds(o) /\ ops[o].task = t
  BY <1>2, <1>3, <1>4 DEF Holds
<1> HIDE DEF T
<1>6. slots = T <=> \A t \in Task : t \in slots <=> \E o \in Op : Holds(o) /\ ops[o].task = t
  BY <1>2, <1>5
<1>7. (\A o, p \in Busy \cup Judged : ops[o].task = ops[p].task /\ ops[o].task # 0 => o = p)
      <=> \A o, p \in Op : Holds(o) /\ Holds(p) /\ ops[o].task = ops[p].task /\ ops[o].task # 0 => o = p
  BY <1>4 DEF Holds
<1>8. QED
  BY <1>1, <1>6, <1>7 DEF Exact

\* Who holds a reservation is seen in the rows.
LEMMA HolderRows ==
    ASSUME Base
    PROVE  /\ Busy = {o \in Op : ops[o].status = "running"}
           /\ Busy \cap Judged = {}
           /\ IsFiniteSet(Busy) /\ IsFiniteSet(Judged)
           /\ Cardinality(Busy) \in Nat /\ Cardinality(Judged) \in Nat
<1>1. Busy = {o \in Op : ops[o].status = "running"} /\ Busy \cap Judged = {}
  BY DEF Base, RowOK, Busy, Judged
<1>2. IsFiniteSet(Op)
  BY FS_Interval, ExternalAssumption DEF Op
<1>3. Busy \in SUBSET Op /\ Judged \in SUBSET Op
  BY DEF Busy, Judged
<1>4. IsFiniteSet(Busy) /\ IsFiniteSet(Judged)
  BY <1>2, <1>3, FS_Subset
<1>5. QED
  BY <1>1, <1>4, FS_CardinalityType

LEMMA ExactSame ==
    ASSUME Base, Exact, Busy' = Busy, Judged' = Judged,
           \A o \in Op : Holds(o) => ops'[o].task = ops[o].task,
           slots' = slots, requests' - checks' = requests - checks, requests' <= Limit,
           requests' \in Nat, checks' \in Nat
    PROVE  Exact'
<1>1. \A o : Holds(o)' <=> Holds(o)
  BY DEF Holds
<1>2. requests \in Nat /\ checks \in Nat
  BY DEF Base, TypeOK, MemoryOK
<1>3. requests' = Cardinality(Busy) + Cardinality(Judged) + checks'
  BY <1>2, HolderRows DEF Exact
<1>4. QED
  BY <1>1, <1>3 DEF Exact

LEMMA ExactTaken ==
    ASSUME Base, Exact, NEW o \in Op, ~Holds(o),
           \/ Busy' = Busy \cup {o} /\ Judged' = Judged
           \/ Busy' = Busy /\ Judged' = Judged \cup {o},
           NEW t \in Task \cup {0}, Reserve(t), ops'[o].task = t, checks' = checks,
           \A p \in Op \ {o} : ops'[p].task = ops[p].task
    PROVE  Exact'
<1>1. o \notin Busy /\ o \notin Judged
  BY DEF Holds
<1>2. Cardinality(Busy') + Cardinality(Judged') = Cardinality(Busy) + Cardinality(Judged) + 1
  <2>1. /\ IsFiniteSet(Busy) /\ IsFiniteSet(Judged)
        /\ Cardinality(Busy) \in Nat /\ Cardinality(Judged) \in Nat
    BY HolderRows
  <2>2. Cardinality(Busy \cup {o}) = Cardinality(Busy) + 1
    BY <1>1, <2>1, FS_AddElement
  <2>3. Cardinality(Judged \cup {o}) = Cardinality(Judged) + 1
    BY <1>1, <2>1, FS_AddElement
  <2>4. CASE Busy' = Busy \cup {o} /\ Judged' = Judged
    BY <2>1, <2>2, <2>4
  <2>5. CASE Busy' = Busy /\ Judged' = Judged \cup {o}
    BY <2>1, <2>3, <2>5
  <2>6. QED
    BY <2>4, <2>5
<1>3. requests \in Nat /\ checks \in Nat /\ requests < Limit /\ requests' = requests + 1 /\ t \notin slots
      /\ slots' = IF t = 0 THEN slots ELSE slots \cup {t}
  BY DEF Reserve, Base, TypeOK, MemoryOK
<1>4. \A p \in Op : Holds(p)' <=> Holds(p) \/ p = o
  BY DEF Holds
<1>5. requests' = Cardinality(Busy') + Cardinality(Judged') + checks' /\ requests' <= Limit
  BY <1>2, <1>3, HolderRows, ExternalAssumption DEF Exact
<1>6. \A u \in Task : u \in slots' <=> \E p \in Op : Holds(p)' /\ ops'[p].task = u
  BY <1>3, <1>4, ExternalAssumption DEF Exact, Task
<1>7. \A p \in Op : Holds(p) /\ ops[p].task = t => t = 0
  BY <1>3 DEF Exact
<1>8. \A p, q \in Op : Holds(p)' /\ Holds(q)' /\ ops'[p].task = ops'[q].task /\ ops'[p].task # 0 => p = q
  BY <1>4, <1>7 DEF Exact
<1>9. QED
  BY <1>5, <1>6, <1>8 DEF Exact

LEMMA ExactGiven ==
    ASSUME Base, Exact, NEW o \in Op,
           \/ o \in Busy /\ Busy' = Busy \ {o} /\ Judged' = Judged
           \/ o \in Judged /\ Busy' = Busy /\ Judged' = Judged \ {o},
           Release(ops[o].task), checks' = checks,
           \A p \in Op \ {o} : ops'[p].task = ops[p].task
    PROVE  Exact'
<1>1. ~(o \in Busy /\ o \in Judged) /\ Holds(o)
  BY HolderRows DEF Holds
<1>2. Cardinality(Busy') + Cardinality(Judged') = Cardinality(Busy) + Cardinality(Judged) - 1
  <2>1. /\ IsFiniteSet(Busy) /\ IsFiniteSet(Judged)
        /\ Cardinality(Busy) \in Nat /\ Cardinality(Judged) \in Nat
    BY HolderRows
  <2>2. o \in Busy => Cardinality(Busy \ {o}) = Cardinality(Busy) - 1
    BY <2>1, FS_RemoveElement
  <2>3. o \in Judged => Cardinality(Judged \ {o}) = Cardinality(Judged) - 1
    BY <2>1, FS_RemoveElement
  <2>4. CASE o \in Busy /\ Busy' = Busy \ {o} /\ Judged' = Judged
    BY <2>1, <2>2, <2>4
  <2>5. CASE o \in Judged /\ Busy' = Busy /\ Judged' = Judged \ {o}
    BY <2>1, <2>3, <2>5
  <2>6. QED
    BY <2>4, <2>5
<1>3. /\ requests \in Nat /\ checks \in Nat /\ slots' = slots \ {ops[o].task}
      /\ requests' = IF requests = 0 THEN 0 ELSE requests - 1
  BY DEF Release, Decrement, Base, TypeOK, MemoryOK
<1>4. Cardinality(Busy) + Cardinality(Judged) >= 1
  BY HolderRows, FS_EmptySet
<1>5. \A p \in Op : Holds(p)' <=> Holds(p) /\ p # o
  BY <1>1 DEF Holds
<1>6. requests' = Cardinality(Busy') + Cardinality(Judged') + checks' /\ requests' <= Limit
  BY <1>2, <1>3, <1>4, HolderRows, ExternalAssumption DEF Exact
<1>7. \A p \in Op : Holds(p) /\ ops[p].task = ops[o].task /\ ops[o].task # 0 => p = o
  BY <1>1 DEF Exact
<1>8. \A u \in Task : u \in slots' <=> \E p \in Op : Holds(p)' /\ ops'[p].task = u
  BY <1>3, <1>5, <1>7, ExternalAssumption DEF Exact, Task
<1>9. \A p, q \in Op : Holds(p)' /\ Holds(q)' /\ ops'[p].task = ops'[q].task /\ ops'[p].task # 0 => p = q
  BY <1>5 DEF Exact
<1>10. QED
  BY <1>6, <1>8, <1>9 DEF Exact

LEMMA ExactNext ==
    ASSUME Base, Exact, [Next]_vars
    PROVE  Exact'
<1>0. Base' /\ StoreOK /\ MemoryOK /\ StoreOK' /\ MemoryOK'
  BY BaseNext DEF Base, TypeOK
<1>1. /\ Busy = {o \in Op : ops[o].status = "running"}
      /\ Busy' = {o \in Op : ops'[o].status = "running"}
  <2>1. ASSUME Base' PROVE Busy' = {o \in Op : ops'[o].status = "running"}
    BY <2>1 DEF Base, RowOK, Busy
  <2>2. QED
    BY <1>0, <2>1, HolderRows
<1>2. ASSUME UNCHANGED <<verify, requests, slots, checks>>,
             \A o \in Op : ops'[o].status = ops[o].status /\ ops'[o].task = ops[o].task
      PROVE  Exact'
  <2>1. Busy' = Busy /\ Judged' = Judged
    BY <1>1, <1>2 DEF Judged
  <2>2. requests' - checks' = requests - checks /\ requests' \in Nat /\ checks' \in Nat /\ requests' <= Limit
    BY <1>0, <1>2 DEF MemoryOK, Exact
  <2>3. QED
    BY <1>2, <2>1, <2>2, ExactSame
<1>3. ASSUME NEW o \in Op, Read(o) \/ Preflight(o) \/ ExternalGate(o) \/ Send(o) \/ Answered(o)
      PROVE  Exact'
  <2>1. UNCHANGED <<verify, requests, slots, checks>>
    BY <1>3 DEF Read, Preflight, ExternalGate, Send, Answered
  <2>2. ops' = ops \/ ops' = [ops EXCEPT ![o].phase = "dispatched"]
    BY <1>3 DEF Read, Preflight, ExternalGate, Send, Answered, store
  <2>3. \A p \in Op : ops'[p].status = ops[p].status /\ ops'[p].task = ops[p].task
    BY <1>0, <2>2, DispatchedRow DEF StoreOK
  <2>4. QED
    BY <1>2, <2>1, <2>3
<1>4. ASSUME NEW o \in Op, ExternalFinished(o) PROVE Exact'
  <2>1. PICK status \in Status \ {"running"}, t \in Task \cup {0} : Ends(o, status, t)
    BY <1>4, FinishEffect
  <2>2. ops'[o].status = status /\ \A p \in Op \ {o} : ops'[p] = ops[p]
    BY <1>0, <2>1, TerminalRow DEF Ends, StoreOK
  <2>3. work[o].at = "done" /\ UNCHANGED <<verify, checks>> /\ Release(ops[o].task)
    BY <1>4 DEF ExternalFinished
  <2>4. o \in Busy /\ Judged' = Judged
    BY <2>3 DEF Busy, Judged
  <2>5. Busy' = Busy \ {o}
    BY <1>1, <2>1, <2>2
  <2>6. QED
    BY <2>2, <2>3, <2>4, <2>5, ExactGiven
<1>5. ASSUME NEW o \in Op, NEW c \in Credential, Starts(o, c) PROVE Exact'
  <2>1. PICK kind \in Kind, t \in Task \cup {0}, i \in Nat, replace \in BOOLEAN :
             ExternalStart(o, Prepared(kind, t, i, replace, c))
    BY <1>5, StartShape
  <2> DEFINE row == Prepared(kind, t, i, replace, c)
  <2>2. row.task = t /\ row.status = "running"
    BY DEF Prepared
  <2>3. FreshOp(o) /\ Reserve(t) /\ ops' = [ops EXCEPT ![o] = row] /\ UNCHANGED <<verify, checks>>
    BY <2>1, <2>2 DEF ExternalStart
  <2> HIDE DEF row
  <2>4. ops'[o] = row /\ \A p \in Op \ {o} : ops'[p] = ops[p]
    BY <1>0, <2>3 DEF StoreOK
  <2>5. ops[o].status = None /\ ops[o].kind = None
    BY <2>3 DEF FreshOp, NoOp
  <2>6. ~Holds(o)
    BY <2>5, NoneIsNoWord DEF Base, RowOK, Holds, Busy, Judged, Status
  <2>7. Busy' = Busy \cup {o} /\ Judged' = Judged
    BY <1>1, <2>2, <2>3, <2>4 DEF Judged
  <2>8. QED
    BY <2>2, <2>3, <2>4, <2>6, <2>7, ExactTaken
<1>6. ASSUME NEW o \in Op, ResolveNotApplied(o) \/ VerifyMarker(o) PROVE Exact'
  <2>1. CASE ResolveNotApplied(o)
    <3>1. Settle(o, "failed", "not_applied") /\ ops[o].status = "unconfirmed"
      BY <2>1 DEF ResolveNotApplied, Resolvable
    <3>2. /\ ops'[o].status = "failed" /\ ops'[o].task = ops[o].task
          /\ \A p \in Op \ {o} : ops'[p] = ops[p]
      BY <1>0, <3>1, SettledRow DEF StoreOK, Status
    <3>3. Busy' = Busy /\ Judged' = Judged
      BY <1>1, <2>1, <3>1, <3>2 DEF Judged, ResolveNotApplied, memory
    <3>4. requests' - checks' = requests - checks /\ slots' = slots /\ requests' <= Limit
          /\ requests' \in Nat /\ checks' \in Nat
      BY <1>0, <2>1 DEF ResolveNotApplied, memory, MemoryOK, Exact
    <3>5. QED
      BY <3>2, <3>3, <3>4, ExactSame
  <2>2. CASE VerifyMarker(o)
    <3>1. /\ verify[o].at = "call" /\ ops' = ops /\ UNCHANGED <<requests, slots, checks>>
          /\ \E ok \in BOOLEAN : verify' = [verify EXCEPT ![o].at = "done", ![o].ok = ok]
      BY <2>2 DEF VerifyMarker, store
    <3>2. verify'[o].at = "done" /\ \A p \in Op \ {o} : verify'[p] = verify[p]
      BY <1>0, <3>1 DEF MemoryOK, VerifyRow
    <3>3. Busy' = Busy /\ Judged' = Judged
      BY <1>1, <3>1, <3>2 DEF Judged
    <3>4. requests' - checks' = requests - checks /\ requests' <= Limit /\ requests' \in Nat /\ checks' \in Nat
      BY <1>0, <3>1 DEF MemoryOK, Exact
    <3>5. QED
      BY <3>1, <3>3, <3>4, ExactSame
  <2>3. QED
    BY <1>6, <2>1, <2>2
<1>7. ASSUME NEW o \in Op, NEW i \in DOMAIN issues, NEW c \in Credential, ResolveApplied(o, i, c) PROVE Exact'
  <2>1. /\ Resolvable(o) /\ Reserve(ops[o].task) /\ ops' = ops /\ UNCHANGED checks
        /\ verify'[o].at = "call" /\ \A p \in Op \ {o} : verify'[p] = verify[p]
    BY <1>0, <1>7 DEF ResolveApplied, store, MemoryOK
  <2>2. Busy' = Busy /\ Judged' = Judged \cup {o}
    BY <1>1, <2>1 DEF Judged
  <2>3. ops[o].task \in Task /\ ops[o].status = "unconfirmed"
    BY <2>1 DEF Resolvable, Base, RowOK
  <2>4. ~Holds(o)
    BY <2>1, <2>3 DEF Reserve, Exact
  <2>5. PICK t \in Task : t = ops[o].task
    BY <2>3
  <2>6. QED
    BY <2>1, <2>2, <2>4, <2>5, ExactTaken
<1>8. ASSUME NEW o \in Op, ResolutionFinished(o) PROVE Exact'
  <2>1. /\ verify[o].at = "done" /\ Release(ops[o].task) /\ UNCHANGED checks
        /\ verify' = [verify EXCEPT ![o] = NoVerify]
    BY <1>8 DEF ResolutionFinished
  <2>2. verify'[o].at = "none" /\ \A p \in Op \ {o} : verify'[p] = verify[p]
    BY <1>0, <2>1 DEF MemoryOK, NoVerify
  <2>3. o \in Judged /\ Judged' = Judged \ {o}
    BY <2>1, <2>2 DEF Judged
  <2>4. Busy' = Busy /\ \A p \in Op : ops'[p].task = ops[p].task
    <3>1. CASE ops' = ops
      BY <1>1, <3>1
    <3>2. CASE Settle(o, "succeeded", "applied") /\ Resolvable(o)
      <4>1. /\ ops'[o].status = "succeeded" /\ ops'[o].task = ops[o].task
            /\ \A p \in Op \ {o} : ops'[p] = ops[p]
        BY <1>0, <3>2, SettledRow DEF StoreOK, Status
      <4>2. QED
        BY <1>1, <3>2, <4>1 DEF Resolvable
    <3>3. QED
      BY <1>8, <3>1, <3>2 DEF ResolutionFinished, ResolutionValid
  <2>5. QED
    BY <2>1, <2>3, <2>4, ExactGiven
<1>9. CASE Restart
  <2>1. /\ requests' = 0 /\ slots' = {} /\ checks' = 0
        /\ \A o \in Op : work'[o].at = "none" /\ verify'[o].at = "none"
    BY <1>9 DEF Restart, Idle, NoVerify
  <2>2. Busy' = {} /\ Judged' = {}
    BY <2>1 DEF Busy, Judged
  <2>3. \A o \in Op : ~Holds(o)'
    BY <2>2 DEF Holds
  <2>4. QED
    BY <2>1, <2>2, <2>3, FS_EmptySet, ExternalAssumption DEF Exact
<1>10. CASE IntegrationCheck \/ IntegrationCheckFinished
  <2>1. UNCHANGED <<ops, verify, slots>>
    BY <1>10 DEF IntegrationCheck, IntegrationCheckFinished, store
  <2>2. Busy' = Busy /\ Judged' = Judged
    BY <1>1, <2>1 DEF Judged
  <2>3. requests = Cardinality(Busy) + Cardinality(Judged) + checks /\ requests <= Limit
        /\ Cardinality(Busy) \in Nat /\ Cardinality(Judged) \in Nat /\ requests \in Nat /\ checks \in Nat
    BY <1>0, HolderRows DEF Exact, MemoryOK
  <2>4. /\ requests' - checks' = requests - checks /\ requests' <= Limit
        /\ requests' \in Nat /\ checks' \in Nat
    BY <1>10, <2>3, ExternalAssumption DEF IntegrationCheck, IntegrationCheckFinished, Decrement
  <2>5. QED
    BY <2>1, <2>2, <2>4, ExactSame
<1>11. CASE \/ \E o \in Op : RemoteApply(o) \/ RemoteReject(o)
            \/ RemoteNew \/ IntegrationReload
            \/ \E c \in Credential : RevokeCredential(c)
            \/ \E t \in Task : ChangeTask(t)
            \/ UNCHANGED vars
  <2>1. UNCHANGED <<ops, verify, requests, slots, checks>>
    BY <1>11 DEF RemoteApply, RemoteReject, RemoteNew, IntegrationReload, RevokeCredential,
                 ChangeTask, vars, store, memory
  <2>2. QED
    BY <1>2, <2>1
<1>12. QED
  BY <1>3, <1>4, <1>5, <1>6, <1>7, <1>8, <1>9, <1>10, <1>11, StepCases

\* integration_requests and integration_task_slots are exactly what the workers
\* in flight hold, whatever order starts, gates, answers, resolutions, checks
\* and crashes come in.
THEOREM ReservationsAreExact == Spec => []ReservationsExact
<1>a. Base => (ReservationsExact <=> Exact)
  BY ExactIsExact
<1>b. (Base => (ReservationsExact <=> Exact))'
  BY <1>a, PTL
<1>1. Init => Held
  <2>1. SUFFICES ASSUME Init PROVE Held
    OBVIOUS
  <2>2. Busy = {} /\ Judged = {} /\ slots = {} /\ requests = 0 /\ checks = 0
    BY <2>1 DEF Init, Busy, Judged, Idle, NoVerify
  <2>3. Exact
    BY <2>2, FS_EmptySet, ExternalAssumption DEF Exact, Holds
  <2>4. QED
    BY <2>1, <2>3, BaseInit, ExactIsExact DEF Held
<1>2. Held /\ [Next]_vars => Held'
  <2>1. SUFFICES ASSUME Held, [Next]_vars PROVE Held'
    OBVIOUS
  <2>2. Base' /\ Exact'
    BY <2>1, BaseNext, ExactNext, ExactIsExact DEF Held
  <2>3. QED
    BY <1>b, <2>2 DEF Held
<1>3. Held => ReservationsExact
  BY DEF Held
<1>4. QED
  BY <1>1, <1>2, <1>3, PTL DEF Spec
=============================================================================
