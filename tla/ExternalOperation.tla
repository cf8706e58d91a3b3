-------------------------- MODULE ExternalOperation --------------------------
(* Operations on GitHub and Linear (src/src/integrations/, the workers and    *)
(* control commands of src/src/router.rs, recovery in src/src/store.rs).      *)
(*                                                                            *)
(* One workspace and one provider.  The actor prepares an operation, a worker *)
(* task talks to the provider, asks the actor for the gate before it writes,  *)
(* and reports back; a crash may come between any two of these steps.  The    *)
(* provider is external: it applies a request that was sent, or rejects it,   *)
(* at some time after it was sent, also when nobody waits for the answer.     *)
EXTENDS Integers, FiniteSets

CONSTANTS
    MaxOps,        \* bound: operations started
    MaxTask,       \* bound: tasks, created by import too
    InitialTasks,  \* tasks that exist already
    MaxIssue,      \* bound: issues at the provider
    MaxVersion,    \* bound: version up to which others change a task
    MaxRev,        \* bound: binding revision
    Config,        \* what the configuration may bind: records [ns, write]
    Credential,    \* credentials of callers
    Limit,         \* INTEGRATION_REQUEST_LIMIT
    ImportOwn,     \* an issue that an operation created may be imported or linked to
    None

ASSUME ExternalAssumption ==
    /\ MaxOps \in Nat /\ MaxTask \in Nat /\ InitialTasks \in 0 .. MaxTask
    /\ MaxIssue \in Nat /\ MaxVersion \in Nat \ {0} /\ MaxRev \in Nat
    /\ Limit \in Nat \ {0} /\ ImportOwn \in BOOLEAN
    /\ \A c \in Config : c.write \in BOOLEAN /\ c.ns # None

VARIABLES
    ops,        \* external_operations
    links,      \* external_links: task -> [ns, issue]
    tasks,      \* tasks.version, 0 when there is no such task
    binding,    \* integration_bindings; enabled rows are the active registry
    resolved,   \* external_resolutions.outcome
    work,       \* the worker task of an operation
    verify,     \* the worker task of a resolution
    requests,   \* integration_requests
    slots,      \* integration_task_slots
    checks,     \* integration checks in flight
    revoked,    \* credentials with revoked_at
    wire,       \* writes the provider has received and not decided
    issues,     \* the provider's issues, in the order of their creation
    comments    \* operations whose comment the provider has stored

Op == 1 .. MaxOps

Task == 1 .. MaxTask

Issue == 1 .. MaxIssue

Namespace == {c.ns : c \in Config}

Kind == {"import", "link", "publish_issue", "publish_report"}

Publish == {"publish_issue", "publish_report"}

Phase == {"prepared", "dispatched", "terminal"}

Status == {"running", "unconfirmed", "succeeded", "failed"}

Outcome == {"read", "written", "unconfirmed", "failed", "denied"}

ASSUME NoneAssumption ==
    /\ None \notin Credential /\ None \notin Config
    /\ None \notin Kind \cup Phase \cup Status \cup Outcome

Blocking == {"running", "unconfirmed"}

NoOp == [kind |-> None, task |-> 0, ns |-> None, rev |-> 0, cred |-> None, ver |-> 0,
         replace |-> FALSE, issue |-> 0, phase |-> None, status |-> None]

NoLink == [ns |-> None, issue |-> 0]

Idle == [at |-> "none", result |-> None]

NoVerify == [at |-> "none", issue |-> 0, cred |-> None, rev |-> 0, ok |-> FALSE]

store == <<ops, links, tasks, binding, resolved>>

memory == <<work, verify, requests, slots, checks>>

provider == <<wire, issues, comments>>

vars == <<store, memory, revoked, provider>>

-----------------------------------------------------------------------------
(* The provider (external).                                                   *)

Exists(ns, i) == i \in DOMAIN issues /\ issues[i].ns = ns

CreatedBy(o) == {i \in DOMAIN issues : issues[i].by = o}

\* The provider has stored what operation o wrote.
Applied(o) == CreatedBy(o) # {} \/ o \in comments

AddIssue(ns, o) ==
    issues' = [i \in 1 .. Cardinality(DOMAIN issues) + 1 |->
                 IF i \in DOMAIN issues THEN issues[i] ELSE [ns |-> ns, by |-> o]]

HasSpace == Cardinality(DOMAIN issues) < MaxIssue

\* Somebody else opens an issue.
RemoteNew ==
    /\ HasSpace
    /\ \E ns \in Namespace : AddIssue(ns, 0)
    /\ UNCHANGED <<store, memory, revoked, wire, comments>>

\* The provider applies a write it received.
RemoteApply(o) ==
    /\ o \in wire
    /\ wire' = wire \ {o}
    /\ \/ ops[o].kind = "publish_issue" /\ HasSpace /\ AddIssue(ops[o].ns, o) /\ UNCHANGED comments
       \/ ops[o].kind = "publish_report" /\ comments' = comments \cup {o} /\ UNCHANGED issues
    /\ UNCHANGED <<store, memory, revoked>>

\* The provider rejects a write it received, or never receives it.
RemoteReject(o) ==
    /\ o \in wire
    /\ wire' = wire \ {o}
    /\ UNCHANGED <<store, memory, revoked, issues, comments>>

-----------------------------------------------------------------------------
(* Bindings: apply_catalog, IntegrationRegistry::load and reload.             *)

\* MUTANT: only what an operator must resolve protects the binding.
MutBlockedByUnconfirmed(b, table) ==
    \E o \in Op : table[o].status = "unconfirmed" /\ table[o].ns = b.cfg.ns

HasBlockingOperation(b, table) ==
    \E o \in Op : table[o].status \in Blocking /\ table[o].ns = b.cfg.ns

HasLinks(b) == \E t \in Task : links[t].ns = b.cfg.ns

\* Only an enabled row protects its operations and links.
CatalogRefused(c, table) ==
    /\ binding.enabled
    /\ \/ c # binding.cfg /\ HasBlockingOperation(binding, table)
       \/ (c = None \/ c.ns # binding.cfg.ns) /\ HasLinks(binding)

\* A catalog without the connection disables the row; one with it bumps the
\* revision when the row is new, was disabled, or had another configuration.
ApplyCatalog(c) ==
    IF c = None
    THEN [binding EXCEPT !.enabled = FALSE]
    ELSE [enabled |-> TRUE, cfg |-> c,
          rev |-> IF binding.enabled /\ binding.cfg = c THEN binding.rev ELSE binding.rev + 1]

IntegrationReload ==
    /\ \E c \in Config \cup {None} :
         /\ ~CatalogRefused(c, ops)
         /\ ApplyCatalog(c).rev <= MaxRev
         /\ binding' = ApplyCatalog(c)
    /\ UNCHANGED <<ops, links, tasks, resolved, memory, revoked, provider>>

\* At the start of the router, after the recovery, a file that is invalid or refused disables the row.
Load ==
    \/ \E c \in Config \cup {None} :
         /\ ~CatalogRefused(c, ops') /\ ApplyCatalog(c).rev <= MaxRev
         /\ binding' = ApplyCatalog(c)
    \/ binding' = [binding EXCEPT !.enabled = FALSE]

\* MUTANT: whatever was running is taken not to have been applied.
MutRecoverAllFailed ==
    ops' = [o \in Op |-> IF ops[o].status = "running"
                         THEN [ops[o] EXCEPT !.phase = "terminal", !.status = "failed"]
                         ELSE ops[o]]

\* The actor's memory is lost; what was dispatched may have been applied.
RecoverExternalOperations ==
    ops' = [o \in Op |->
              IF ops[o].status = "running"
              THEN [ops[o] EXCEPT !.phase = "terminal",
                                  !.status = IF ops[o].phase = "dispatched"
                                             THEN "unconfirmed" ELSE "failed"]
              ELSE ops[o]]

Restart ==
    /\ RecoverExternalOperations
    /\ Load
    /\ work' = [o \in Op |-> Idle] /\ verify' = [o \in Op |-> NoVerify]
    /\ requests' = 0 /\ slots' = {} /\ checks' = 0
    /\ UNCHANGED <<links, tasks, resolved, revoked, provider>>

-----------------------------------------------------------------------------
(* external_start and prepare_external_operation.                             *)

\* Identifiers are new; the next one stands for any.
FreshOp(o) == ops[o] = NoOp /\ \A p \in Op : p < o => ops[p] # NoOp

NoBlockingOperation(t) ==
    \A o \in Op : ~(ops[o].task = t /\ ops[o].status \in Blocking)

Reserve(t) ==
    /\ requests < Limit /\ t \notin slots
    /\ requests' = requests + 1
    /\ slots' = IF t = 0 THEN slots ELSE slots \cup {t}

Decrement(n) == IF n = 0 THEN 0 ELSE n - 1

\* MUTANT: the slot of the task is not given back.
MutReleaseKeepsSlot(t) ==
    /\ requests' = Decrement(requests)
    /\ slots' = slots

\* release_external_reservation, release_resolution_reservation.
Release(t) ==
    /\ requests' = Decrement(requests)
    /\ slots' = slots \ {t}

\* The command, checked against the task it names, as the row it becomes.
Prepared(kind, t, i, replace, cred) ==
    [kind |-> kind, task |-> t, ns |-> binding.cfg.ns, rev |-> binding.rev, cred |-> cred,
     ver |-> IF t = 0 THEN 0 ELSE tasks[t], replace |-> replace, issue |-> i,
     phase |-> "prepared", status |-> "running"]

ExternalStart(o, row) ==
    /\ FreshOp(o) /\ binding.enabled
    /\ row.task # 0 => tasks[row.task] > 0 /\ NoBlockingOperation(row.task)
    /\ row.kind \in Publish => binding.cfg.write
    /\ Reserve(row.task)
    /\ ops' = [ops EXCEPT ![o] = row]
    /\ work' = [work EXCEPT ![o].at = IF row.kind \in Publish THEN "preflight" ELSE "read"]
    /\ UNCHANGED <<links, tasks, binding, resolved, verify, checks, revoked, provider>>

\* Bound: an import finds a number for the task it may create.
TaskLeft ==
    Cardinality({t \in Task : tasks[t] > 0})
      + Cardinality({o \in Op : ops[o].kind = "import" /\ ops[o].status = "running"}) < MaxTask

StartImport(o, cred) ==
    /\ TaskLeft
    /\ \E i \in DOMAIN issues :
         /\ ImportOwn \/ issues[i].by = 0
         /\ ExternalStart(o, Prepared("import", 0, i, FALSE, cred))

StartLink(o, cred) ==
    \E t \in Task, i \in DOMAIN issues, replace \in BOOLEAN :
      /\ ImportOwn \/ issues[i].by = 0
      /\ ExternalStart(o, Prepared("link", t, i, replace, cred))

StartPublishIssue(o, cred) ==
    \E t \in Task :
      /\ links[t] = NoLink
      /\ ExternalStart(o, Prepared("publish_issue", t, 0, FALSE, cred))

StartPublishReport(o, cred) ==
    \E t \in Task :
      /\ links[t] # NoLink
      /\ ExternalStart(o, Prepared("publish_report", t, links[t].issue, FALSE, cred))

-----------------------------------------------------------------------------
(* run_external_worker.                                                       *)

Step(o, at, result) == work' = [work EXCEPT ![o] = [at |-> at, result |-> result]]

Done(o, result) == Step(o, "done", result)

\* get_issue: an issue that is found lies in the namespace of the binding.
GetIssue(o) == Exists(ops[o].ns, ops[o].issue)

\* get_issue for import and link; the deadline or any error is a failure.
Read(o) ==
    /\ work[o].at = "read"
    /\ \/ GetIssue(o) /\ Done(o, "read")
       \/ Done(o, "failed")
    /\ UNCHANGED <<store, verify, requests, slots, checks, revoked, provider>>

\* check before an issue is created, get_issue before a comment is.
Preflight(o) ==
    /\ work[o].at = "preflight"
    /\ \/ /\ ops[o].kind = "publish_report" => GetIssue(o)
          /\ Step(o, "gate", None)
       \/ Done(o, "failed")
    /\ UNCHANGED <<store, verify, requests, slots, checks, revoked, provider>>

\* validate_external_snapshot.
SnapshotValid(o) ==
    /\ binding.enabled /\ binding.rev = ops[o].rev /\ binding.cfg.ns = ops[o].ns
    /\ ops[o].cred \notin revoked
    /\ ops[o].kind = "publish_issue" => links[ops[o].task] = NoLink
    /\ ops[o].kind = "publish_report" =>
         links[ops[o].task] = [ns |-> ops[o].ns, issue |-> ops[o].issue]

\* MUTANT: a worker whose gate is refused returns without reporting.
MutGateReturnsSilently(o) ==
    /\ work[o].at = "gate"
    /\ \/ /\ SnapshotValid(o)
          /\ ops' = [ops EXCEPT ![o].phase = "dispatched"]
          /\ Step(o, "send", None)
       \/ UNCHANGED ops /\ Step(o, "none", None)
    /\ UNCHANGED <<links, tasks, binding, resolved, verify, requests, slots, checks, revoked, provider>>

\* The gate: the actor marks the operation dispatched before the worker writes.
\* The worker's own deadline may pass while the answer is on its way.
ExternalGate(o) ==
    /\ work[o].at = "gate"
    /\ \/ /\ SnapshotValid(o)
          /\ ops' = [ops EXCEPT ![o].phase = "dispatched"]
          /\ Step(o, "send", None) \/ Done(o, "denied")
       \/ UNCHANGED ops /\ Done(o, "denied")
    /\ UNCHANGED <<links, tasks, binding, resolved, verify, requests, slots, checks, revoked, provider>>

\* create_issue, create_comment up to the request; what fails before it was not sent.
Send(o) ==
    /\ work[o].at = "send"
    /\ \/ Step(o, "sent", None) /\ wire' = wire \cup {o}
       \/ Done(o, "failed") /\ UNCHANGED wire
    /\ UNCHANGED <<store, verify, requests, slots, checks, revoked, issues, comments>>

\* A success status with a body that names what was created.
Created(o) == Applied(o)

\* A refusal: 4xx, a redirection, or errors without data.
Refused(o) == o \notin wire /\ ~Applied(o)

\* IntegrationClient::send: the provider applied the write, refused it, or the
\* answer is none of these and says nothing.
Outcomes(o) ==
    {"unconfirmed"} \cup {r \in {"written"} : Created(o)} \cup {r \in {"failed"} : Refused(o)}

Answered(o) ==
    /\ work[o].at = "sent"
    /\ \E r \in Outcomes(o) : Done(o, r)
    /\ UNCHANGED <<store, verify, requests, slots, checks, revoked, provider>>

-----------------------------------------------------------------------------
(* ControlCommand::ExternalFinished.                                          *)

LinkedTo(ns, i) == {t \in Task : links[t] = [ns |-> ns, issue |-> i]}

\* update_terminal_operation.
Terminal(o, status, t) ==
    ops' = [ops EXCEPT ![o].phase = "terminal", ![o].status = status, ![o].task = t]

Fails(o, status) == Terminal(o, status, ops[o].task) /\ UNCHANGED <<links, tasks>>

\* terminal_semantic_conflict.
Conflict(o) == Fails(o, "failed")

\* external_links has one row per task and one per issue.
Linkable(t, ns, i) == links[t] = NoLink /\ LinkedTo(ns, i) = {}

SetLink(t, ns, i) ==
    /\ links' = [links EXCEPT ![t] = [ns |-> ns, issue |-> i]]
    /\ tasks' = [tasks EXCEPT ![t] = @ + 1]

\* next_task_id.
NextTask == {t \in Task : tasks[t] = 0 /\ \A u \in Task : u < t => tasks[u] > 0}

\* complete_import: the issue's task, or a new one.
CompleteImport(o) ==
    LET row == ops[o] known == LinkedTo(row.ns, row.issue) IN
    IF known # {}
    THEN \E t \in known : Terminal(o, "succeeded", t) /\ UNCHANGED <<links, tasks>>
    ELSE \E t \in NextTask : SetLink(t, row.ns, row.issue) /\ Terminal(o, "succeeded", t)

\* complete_link.
CompleteLink(o) ==
    LET row == ops[o] t == row.task
        old == links[t]
        new == [ns |-> row.ns, issue |-> row.issue] IN
    IF \/ tasks[t] # row.ver
       \/ ~(LinkedTo(row.ns, row.issue) \subseteq {t})
       \/ old # NoLink /\ old # new /\ ~row.replace
    THEN Conflict(o)
    ELSE /\ IF old = new THEN UNCHANGED <<links, tasks>> ELSE SetLink(t, row.ns, row.issue)
         /\ Terminal(o, "succeeded", t)

\* complete_external_mutation; a link that cannot be inserted rolls it back and
\* the operation ends as failed.
CompleteMutation(o) ==
    LET row == ops[o] IN
    IF row.kind = "publish_report"
    THEN Terminal(o, "succeeded", row.task) /\ UNCHANGED <<links, tasks>>
    ELSE \E i \in CreatedBy(o) :
           IF Linkable(row.task, row.ns, i)
           THEN SetLink(row.task, row.ns, i) /\ Terminal(o, "succeeded", row.task)
           ELSE Fails(o, "failed")

CompleteRead(o) ==
    IF ~SnapshotValid(o) THEN Conflict(o)
    ELSE IF ops[o].kind = "import" THEN CompleteImport(o) ELSE CompleteLink(o)

ExternalFinished(o) ==
    /\ work[o].at = "done"
    /\ work' = [work EXCEPT ![o] = Idle]
    /\ Release(ops[o].task)
    /\ \/ work[o].result = "read" /\ CompleteRead(o)
       \/ work[o].result = "written" /\ CompleteMutation(o)
       \/ work[o].result = "unconfirmed" /\ Fails(o, "unconfirmed")
       \/ work[o].result \in {"failed", "denied"} /\ Fails(o, "failed")
    /\ UNCHANGED <<binding, resolved, verify, checks, revoked, provider>>

-----------------------------------------------------------------------------
(* Resolution of an unconfirmed operation by an operator.                     *)

Resolvable(o) ==
    /\ ops[o].status = "unconfirmed" /\ ops[o].kind \in Publish
    /\ ops[o].phase = "terminal" /\ resolved[o] = None
    /\ binding.enabled /\ binding.cfg.ns = ops[o].ns

Settle(o, status, outcome) ==
    /\ ops' = [ops EXCEPT ![o].status = status]
    /\ resolved' = [resolved EXCEPT ![o] = outcome]

\* The operator has looked and says the truth.
ResolveNotApplied(o) ==
    /\ Resolvable(o) /\ Credential \ revoked # {}
    /\ ~Applied(o) /\ o \notin wire
    /\ Settle(o, "failed", "not_applied")
    /\ UNCHANGED <<links, tasks, binding, memory, revoked, provider>>

ResolveApplied(o, i, cred) ==
    /\ Resolvable(o) /\ cred \notin revoked
    /\ Reserve(ops[o].task)
    /\ verify' = [verify EXCEPT ![o] = [at |-> "call", issue |-> i, cred |-> cred,
                                        rev |-> binding.rev, ok |-> FALSE]]
    /\ UNCHANGED <<store, work, checks, revoked, provider>>

\* verify_issue_marker, verify_comment_marker: the marker names the operation.
IssueMarker(o) == verify[o].issue \in CreatedBy(o)

CommentMarker(o) == o \in comments

MarkerFound(o) == IF ops[o].kind = "publish_issue" THEN IssueMarker(o) ELSE CommentMarker(o)

VerifyMarker(o) ==
    /\ verify[o].at = "call"
    /\ \E ok \in BOOLEAN :
         /\ ok => MarkerFound(o)
         /\ verify' = [verify EXCEPT ![o].at = "done", ![o].ok = ok]
    /\ UNCHANGED <<store, work, requests, slots, checks, revoked, provider>>

\* validate_resolution_snapshot and what complete_applied_resolution inserts.
ResolutionValid(o) ==
    /\ verify[o].ok
    /\ Resolvable(o) /\ binding.rev = verify[o].rev /\ verify[o].cred \notin revoked
    /\ IF ops[o].kind = "publish_issue"
       THEN Linkable(ops[o].task, ops[o].ns, verify[o].issue)
       ELSE links[ops[o].task] = [ns |-> ops[o].ns, issue |-> ops[o].issue]

ResolutionFinished(o) ==
    /\ verify[o].at = "done"
    /\ verify' = [verify EXCEPT ![o] = NoVerify]
    /\ Release(ops[o].task)
    /\ IF ResolutionValid(o)
       THEN /\ Settle(o, "succeeded", "applied")
            /\ IF ops[o].kind = "publish_issue"
               THEN SetLink(ops[o].task, ops[o].ns, verify[o].issue)
               ELSE UNCHANGED <<links, tasks>>
       ELSE UNCHANGED <<ops, resolved, links, tasks>>
    /\ UNCHANGED <<binding, work, checks, revoked, provider>>

-----------------------------------------------------------------------------
(* Other callers.                                                             *)

IntegrationCheck ==
    /\ binding.enabled /\ requests < Limit
    /\ requests' = requests + 1 /\ checks' = checks + 1
    /\ UNCHANGED <<store, work, verify, slots, revoked, provider>>

IntegrationCheckFinished ==
    /\ checks > 0
    /\ requests' = Decrement(requests) /\ checks' = checks - 1
    /\ UNCHANGED <<store, work, verify, slots, revoked, provider>>

\* external_caller_context, at the start and again behind the gate.
Caller(c) == c \in Credential \ revoked

RevokeCredential(c) ==
    /\ c \notin revoked
    /\ revoked' = revoked \cup {c}
    /\ UNCHANGED <<store, memory, provider>>

\* Any other command on a task.
ChangeTask(t) ==
    /\ tasks[t] \in 1 .. MaxVersion - 1
    /\ tasks' = [tasks EXCEPT ![t] = @ + 1]
    /\ UNCHANGED <<ops, links, binding, resolved, memory, revoked, provider>>

-----------------------------------------------------------------------------
Init ==
    /\ ops = [o \in Op |-> NoOp] /\ links = [t \in Task |-> NoLink]
    /\ tasks = [t \in Task |-> IF t <= InitialTasks THEN 1 ELSE 0]
    /\ binding = [enabled |-> FALSE, cfg |-> None, rev |-> 0]
    /\ resolved = [o \in Op |-> None]
    /\ work = [o \in Op |-> Idle] /\ verify = [o \in Op |-> NoVerify]
    /\ requests = 0 /\ slots = {} /\ checks = 0
    /\ revoked = {} /\ wire = {} /\ issues = <<>> /\ comments = {}

Worker(o) == Read(o) \/ Preflight(o) \/ ExternalGate(o) \/ Send(o) \/ Answered(o) \/ ExternalFinished(o)

Next ==
    \/ \E o \in Op :
         \/ Worker(o) \/ RemoteApply(o) \/ RemoteReject(o)
         \/ ResolveNotApplied(o) \/ VerifyMarker(o) \/ ResolutionFinished(o)
         \/ \E c \in Credential :
              /\ Caller(c)
              /\ \/ StartImport(o, c) \/ StartLink(o, c)
                 \/ StartPublishIssue(o, c) \/ StartPublishReport(o, c)
                 \/ \E i \in DOMAIN issues : ResolveApplied(o, i, c)
    \/ RemoteNew \/ IntegrationReload \/ Restart
    \/ IntegrationCheck \/ IntegrationCheckFinished
    \/ \E c \in Credential : RevokeCredential(c)
    \/ \E t \in Task : ChangeTask(t)

Spec == Init /\ [][Next]_vars

\* Workers are tasks of the runtime whose every call has a deadline, and the
\* actor takes control commands before anything else.
FairSpec == Spec /\ \A o \in Op : WF_vars(Worker(o))

-----------------------------------------------------------------------------
(* Properties.                                                                *)

\* apply_catalog, the gate and the recovery together: while an operation runs,
\* the binding it was prepared under stays as it was, and from the gate until it
\* is settled a report's task stays linked to the issue the report goes to.
OpenKeepsItsTarget ==
    \A o \in Op :
      /\ ops[o].status = "running" =>
           binding.enabled /\ binding.rev = ops[o].rev /\ binding.cfg.ns = ops[o].ns
      /\ ops[o].kind = "publish_report" /\ (ops[o].phase = "dispatched" \/ ops[o].status = "unconfirmed") =>
           links[ops[o].task] = [ns |-> ops[o].ns, issue |-> ops[o].issue]

\* An operation that ended as failed has written nothing and will write nothing:
\* only then may its command be given again without an operator's decision.
FailedWasNotApplied ==
    \A o \in Op : ops[o].status = "failed" => ~Applied(o) /\ o \notin wire

\* integration_requests and integration_task_slots are what the workers in
\* flight hold, and within the limit: nothing is reserved for nobody, and no
\* task has two workers.
ReservationsExact ==
    LET busy == {o \in Op : work[o].at # "none"}
        judged == {o \in Op : verify[o].at # "none"} IN
    /\ requests = Cardinality(busy) + Cardinality(judged) + checks /\ requests <= Limit
    /\ slots = {ops[o].task : o \in busy \cup judged} \ {0}
    /\ \A o, p \in busy \cup judged : ops[o].task = ops[p].task /\ ops[o].task # 0 => o = p

\* Every operation ends: its worker has a deadline, and a restart ends it too.
OperationEnds == \A o \in Op : ops[o].status = "running" ~> ops[o].status # "running"
=============================================================================
