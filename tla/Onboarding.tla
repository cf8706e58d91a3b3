----------------------------- MODULE Onboarding -----------------------------
(* Installation of a provider from an invitation: src/src/onboarding/, with  *)
(* the profile it publishes (config.rs), the bundle it installs              *)
(* (bootstrap/install.rs, install.rs) and the redemption of the invitation   *)
(* by the router's store (store.rs, router.rs).                              *)
(*                                                                           *)
(* Every effect is announced in a journal on disk, made, and then marked     *)
(* applied.  The installer may die at any step, the machine may lose power   *)
(* with whatever was not yet synced, the answer to the enrollment may be     *)
(* lost, and users and operators change their own entries in between; an     *)
(* installation is then continued from its journal.                          *)
EXTENDS Naturals, Sequences, SequencesExt

CONSTANTS
    Proc,        \* installer processes
    None,        \* no process, no journal
    Invite,      \* invitations
    Key,         \* journals: an invitation taken up by a provider
    InviteOf,    \* the invitation of a journal
    ProviderOf,  \* its provider: "claude", "codex" or "omp"
    HasConfig,   \* whether a configuration file exists beforehand
    HasCa,       \* whether the routes of the ticket carry a CA
    MaxFault,    \* bound: interruptions, lost answers, changes by users and revocations
    MaxId        \* bound: credential and enrollment ids in use at a time

ASSUME OnboardingAssumption ==
    /\ None \notin Proc \cup Key
    /\ InviteOf \in [Key -> Invite] /\ ProviderOf \in [Key -> {"claude", "codex", "omp"}]
    /\ HasConfig \in BOOLEAN /\ HasCa \in BOOLEAN /\ MaxFault \in Nat /\ MaxId \in Nat

\* journal_directory names a journal after its invitation and its provider.
ASSUME JournalAssumption ==
    /\ \A j, k \in Key : InviteOf[j] = InviteOf[k] /\ ProviderOf[j] = ProviderOf[k] => j = k
    /\ Key \cap {"absent", "gone", "theirs", "other"} = {}

VARIABLES
    lock,     \* holder of the configuration lock
    proc,     \* the installer processes
    disk,     \* by journal: credential, its temporary link, journal state
    durable,  \* what of that survives a power failure
    bundle,   \* the installed distribution
    ca,       \* links of the cached CA file, 0 without the file
    config,   \* links of the configuration file, and its provider bindings
    world,    \* who made the entry at a place: nobody, a journal, the user
    synced,   \* places whose directory entry survives a power failure
    off,      \* registered links that are disabled
    wire,     \* enrollment requests on their way
    invite,   \* the store's invitations and their credentials
    faults

vars == <<lock, proc, disk, durable, bundle, ca, config, world, synced, off, wire, invite, faults>>

disks == <<disk, durable>>
shared == <<bundle, ca, config>>
places == <<world, synced, off>>
server == <<wire, invite>>

-----------------------------------------------------------------------------
(* What an installation consists of.                                         *)

Files(k) == IF ProviderOf[k] = "claude" THEN <<>> ELSE <<"file">>

Steps(k) == CASE ProviderOf[k] = "claude" -> <<"marketplace", "plugin", "mcp">>
              [] ProviderOf[k] = "codex" -> <<"mcp">>
              [] ProviderOf[k] = "omp" -> <<"link">>

\* The effects after enrollment, in the order they are made.
Effects(k) == Files(k) \o Steps(k) \o <<"own">>

Name == {"receipt", "file", "marketplace", "plugin", "mcp", "link", "enable", "own"}

IsFile(e) == e \in {"receipt", "file", "own"}

\* The receipt lies beside its journal, everything else is one per provider.
At(k, e) == IF e = "receipt" THEN <<InviteOf[k], ProviderOf[k], e>> ELSE <<None, ProviderOf[k], e>>

Place == {At(k, e) : k \in Key, e \in Name}

NoState == [eid |-> 0, stage |-> "none", acts |-> [e \in Name |-> "none"]]

Status(k, e) == disk[k].st.acts[e]

Absent(k, e) == world[At(k, e)] \in {"absent", "gone"}

\* An entry with the content the installer would give it; the ownership
\* manifest names its invitation.
Exact(k, e) == world[At(k, e)] \in IF e = "own" THEN {k} ELSE Key \cup {"theirs"}

Used == UNION {{d[k].cred, d[k].st.eid} : d \in {disk, durable}, k \in Key}
        \cup UNION {{r.eid, r.cid} : r \in wire} \cup UNION {{invite[i].eid, invite[i].cid} : i \in Invite}

FreshIds == {n \in 1 .. MaxId \ Used : \A m \in 1 .. MaxId \ Used : n <= m}

Idle == [pc |-> "idle", k |-> None, e |-> "receipt", then |-> "idle", route |-> FALSE]

K(p) == proc[p].k

Goto(p, pc) == proc' = [proc EXCEPT ![p].pc = pc]

GotoEffect(p, pc, e) == proc' = [proc EXCEPT ![p].pc = pc, ![p].e = e]

\* The command returns, with success or an error, and its lock is dropped.
Return(p) == proc' = [proc EXCEPT ![p] = Idle] /\ lock' = None

-----------------------------------------------------------------------------
(* Checks that change nothing.                                               *)

\* check_file: what is there must have been announced by this journal, and what
\* this journal has applied must be there.
CheckFile(k, e) ==
    IF Absent(k, e) THEN Status(k, e) # "applied"
    ELSE Exact(k, e) /\ Status(k, e) # "none"

\* accept_registration: the same, and disabled is only a link that is not yet marked.
AcceptRegistration(k, e) ==
    CASE Absent(k, e) -> Status(k, e) # "applied"
      [] At(k, e) \in off -> e = "link" /\ Status(k, e) = "planned"
      [] OTHER -> Exact(k, e) /\ Status(k, e) # "none"

\* MUTANT: an entry with the right content is taken to be the installer's own.
MutAcceptExact(k, e) == Absent(k, e) => Status(k, e) # "applied"

Accept(k, e) == IF IsFile(e) THEN CheckFile(k, e) ELSE AcceptRegistration(k, e)

VerifyRecorded(k) ==
    /\ world[At(k, "own")] = k /\ Status(k, "own") # "none"
    /\ disk[k].st.stage = "configured" => Status(k, "own") = "applied"
    /\ \A e \in ToSet(Files(k)) : Status(k, e) = "applied" /\ Exact(k, e)
    /\ \A e \in ToSet(Steps(k)) : Status(k, e) = "applied"

CheckPaths(k) ==
    /\ \A e \in ToSet(Files(k)) : Accept(k, e)
    /\ IF Absent(k, "own") THEN Status(k, "own") # "applied" ELSE VerifyRecorded(k)

CheckRegistrations(k) == \A e \in ToSet(Steps(k)) : Accept(k, e)

\* A binding of another journal and a configuration file with a second link
\* are refused.
CheckOnboardingBinding(k) ==
    config.links # 2 /\ config.bound[ProviderOf[k]] \in {None, k}

-----------------------------------------------------------------------------
(* The journal.                                                              *)

\* Renamed into place; nothing is durable before the directory is synced.
Persist(p, st, pc) ==
    /\ disk' = [disk EXCEPT ![K(p)].st = st]
    /\ proc' = [proc EXCEPT ![p].pc = "sync", ![p].then = pc]

\* MUTANT: success is reported without waiting for the directory.
MutNoDirectorySync(p) ==
    /\ proc[p].pc = "sync" /\ Goto(p, proc[p].then)
    /\ UNCHANGED <<lock, disk, durable, shared, places, server, faults>>

SyncJournal(p) ==
    /\ proc[p].pc = "sync"
    /\ durable' = [durable EXCEPT ![K(p)] = [cred |-> disk[K(p)].cred, st |-> disk[K(p)].st]]
    /\ Goto(p, proc[p].then)
    /\ UNCHANGED <<lock, disk, shared, places, server, faults>>

\* read_pending_credential: the temporary link of an interrupted writer is removed.
RecoverCredential(k) ==
    /\ disk[k].cred # 0
    /\ disk' = [disk EXCEPT ![k].temp = FALSE]

\* load: the credential must be readable, and what an earlier process published
\* is made durable.
Load(k) ==
    /\ RecoverCredential(k)
    /\ durable' = [durable EXCEPT ![k] = [cred |-> disk[k].cred, st |-> disk[k].st]]

\* install: without a journal a new installation, otherwise a resumption.
Install(p, k) ==
    /\ proc[p] = Idle /\ lock = None /\ disk[k].st = NoState
    /\ lock' = p /\ proc' = [proc EXCEPT ![p] = [Idle EXCEPT !.pc = "bind", !.k = k]]
    /\ UNCHANGED <<disks, shared, places, server, faults>>

\* resume, and install where a journal exists.
Resume(p, k) ==
    /\ proc[p] = Idle /\ lock = None /\ disk[k].st # NoState
    /\ Load(k)
    /\ lock' = p
    /\ proc' = [proc EXCEPT ![p] = [Idle EXCEPT !.pc = "bind", !.k = k]]
    /\ UNCHANGED <<shared, places, server, faults>>

\* A configured installation is verified and reported, another one continued
\* with what its journal says of the bundle.
ContinueInstall(p) ==
    /\ proc[p].pc = "bind"
    /\ IF disk[K(p)].st.stage # "configured" /\ CheckOnboardingBinding(K(p))
       THEN Goto(p, IF disk[K(p)].st = NoState THEN "probe" ELSE "reuse") /\ UNCHANGED lock
       ELSE Return(p)
    /\ UNCHANGED <<disks, shared, places, server, faults>>

\* reuse_bundle: a planned receipt makes the archive unnecessary, and is
\* published again from the bundle found.
ReuseBundle(p) ==
    /\ proc[p].pc = "reuse"
    /\ IF Status(K(p), "receipt") = "none" THEN Goto(p, "probe")
       ELSE GotoEffect(p, "effect", "receipt")
    /\ UNCHANGED <<lock, disks, shared, places, server, faults>>

\* A route is found; without a receipt the archive is fetched over it.
RouteFound(p) ==
    proc' = [proc EXCEPT ![p].route = TRUE,
                         ![p].pc = IF Status(K(p), "receipt") = "none" THEN "bundle" ELSE "preflight"]

\* probe_routes caches the CA: linked to its name, then the temporary name is
\* removed.  A file with two links is no valid CA.
ProbeRoutes(p) ==
    /\ proc[p].pc = "probe"
    /\ \/ HasCa /\ ca = 2 /\ Return(p) /\ UNCHANGED ca
       \/ HasCa /\ ca = 0 /\ ca' = 2 /\ Goto(p, "unlink_ca") /\ UNCHANGED lock
       \/ (~HasCa \/ ca = 1) /\ RouteFound(p) /\ UNCHANGED <<lock, ca>>
    /\ UNCHANGED <<disks, bundle, config, places, server, faults>>

PersistCa(p) ==
    /\ proc[p].pc = "unlink_ca"
    /\ ca' = 1 /\ RouteFound(p)
    /\ UNCHANGED <<lock, disks, bundle, config, places, server, faults>>

\* install_from publishes the assets before the binary and keeps what is there.
InstallBundle(p) ==
    /\ proc[p].pc = "bundle"
    /\ bundle' = IF bundle = "none" THEN "assets" ELSE "full"
    /\ CASE bundle' = "assets" -> UNCHANGED proc
         [] disk[K(p)].st = NoState -> Goto(p, "prepare")
         [] OTHER -> GotoEffect(p, "plan", "receipt")
    /\ UNCHANGED <<lock, disks, ca, config, places, server, faults>>

\* prepare: a credential left without a journal is adopted, else one is
\* generated and linked to its name.
Prepare(p) ==
    /\ proc[p].pc = "prepare"
    /\ \/ /\ RecoverCredential(K(p)) /\ Goto(p, "state")
          /\ durable' = IF disk[K(p)].temp
                        THEN [durable EXCEPT ![K(p)].cred = disk[K(p)].cred] ELSE durable
       \/ /\ disk[K(p)].cred = 0
          /\ \E n \in FreshIds : disk' = [disk EXCEPT ![K(p)].cred = n, ![K(p)].temp = TRUE]
          /\ Goto(p, "credential") /\ UNCHANGED durable
    /\ UNCHANGED <<lock, shared, places, server, faults>>

\* The directory is synced and the temporary name removed.
WriteCredential(p) ==
    /\ proc[p].pc = "credential"
    /\ disk' = [disk EXCEPT ![K(p)].temp = FALSE]
    /\ durable' = [durable EXCEPT ![K(p)].cred = disk[K(p)].cred]
    /\ Goto(p, "state")
    /\ UNCHANGED <<lock, shared, places, server, faults>>

PublishState(p) ==
    /\ proc[p].pc = "state"
    /\ \E n \in FreshIds :
        Persist(p, [NoState EXCEPT !.eid = n, !.stage = "prepared"], "plan")
    /\ UNCHANGED <<lock, durable, shared, places, server, faults>>

-----------------------------------------------------------------------------
(* One effect: announced, made, synced, marked.                              *)

Marked(k, e, status) == [disk[k].st EXCEPT !.acts[e] = status]

\* MUTANT: the intent is kept in memory until the effect is marked.
MutPlanInMemory(p) ==
    /\ proc[p].pc = "plan" /\ Goto(p, "effect")
    /\ UNCHANGED <<lock, disk, durable, shared, places, server, faults>>

\* The provenance is checked before the intent is recorded.
PlanEffect(p) ==
    LET k == K(p)  e == proc[p].e IN
    /\ proc[p].pc = "plan"
    /\ \/ /\ e \in {"receipt", "enable"} \/ Accept(k, e)
          /\ IF Status(k, e) = "none" THEN Persist(p, Marked(k, e, "planned"), "effect")
             ELSE Goto(p, "effect") /\ UNCHANGED disk
          /\ UNCHANGED lock
       \/ e \notin {"receipt", "enable"} /\ ~Accept(k, e) /\ Return(p) /\ UNCHANGED disk
    /\ UNCHANGED <<durable, shared, places, server, faults>>

\* publish_receipt, publish_file: made under its name only if there is nothing.
PublishFile(p) ==
    LET k == K(p)  e == proc[p].e IN
    /\ proc[p].pc = "effect" /\ IsFile(e)
    /\ IF Absent(k, e)
       THEN world' = [world EXCEPT ![At(k, e)] = k] /\ Goto(p, "sync_file") /\ UNCHANGED lock
       ELSE /\ UNCHANGED world
            /\ IF Exact(k, e) THEN Goto(p, "sync_file") /\ UNCHANGED lock ELSE Return(p)
    /\ UNCHANGED <<disks, shared, synced, off, server, faults>>

SyncFile(p) ==
    /\ proc[p].pc = "sync_file"
    /\ synced' = synced \cup {At(K(p), proc[p].e)}
    /\ Goto(p, "mark")
    /\ UNCHANGED <<lock, disks, shared, world, off, server, faults>>

\* configure_step: the command runs if nothing is registered, and the registry
\* is inspected whatever the command answered.  A link may come out disabled.
ConfigureStep(p) ==
    LET k == K(p)  e == proc[p].e IN
    /\ proc[p].pc = "effect" /\ e \notin {"receipt", "file", "own", "enable"}
    /\ IF Absent(k, e)
       THEN /\ world' = [world EXCEPT ![At(k, e)] = k]
            /\ \/ UNCHANGED off
               \/ e = "link" /\ off' = off \cup {At(k, e)}
       ELSE UNCHANGED <<world, off>>
    /\ Goto(p, "inspect")
    /\ UNCHANGED <<lock, disks, shared, synced, server, faults>>

\* A disabled link is enabled, and an enabling that was announced is marked,
\* before the link itself is marked.
Inspect(p) ==
    LET k == K(p)  e == proc[p].e IN
    /\ proc[p].pc = "inspect"
    /\ CASE At(k, e) \in off -> GotoEffect(p, "plan", "enable")
         [] e = "link" /\ Status(k, "enable") = "planned" -> GotoEffect(p, "mark", "enable")
         [] OTHER -> Goto(p, "mark")
    /\ UNCHANGED <<lock, disks, shared, places, server, faults>>

Enable(p) ==
    /\ proc[p].pc = "effect" /\ proc[p].e = "enable"
    /\ off' = off \ {At(K(p), "link")}
    /\ world' = [world EXCEPT ![At(K(p), "enable")] = K(p)]
    /\ Goto(p, "mark")
    /\ UNCHANGED <<lock, disks, shared, synced, server, faults>>

Following(k, e) ==
    LET s == Effects(k)  n == CHOOSE m \in DOMAIN s : s[m] = e IN
    IF n = Len(s) THEN "receipt" ELSE s[n + 1]

\* Marked applied; after the receipt come the route and the checks, after the
\* ownership manifest the end, and after an enabling its link.
MarkApplied(p) ==
    LET k == K(p)  e == proc[p].e
        pc == CASE e = "receipt" -> IF proc[p].route THEN "preflight" ELSE "probe"
                [] e = "own" -> "finish"
                [] e = "enable" -> "mark" [] OTHER -> "plan" IN
    /\ proc[p].pc = "mark"
    /\ disk' = [disk EXCEPT ![k].st = Marked(k, e, "applied")]
    /\ proc' = [proc EXCEPT ![p].pc = "sync", ![p].then = pc,
                            ![p].e = CASE e = "receipt" -> e [] e = "enable" -> "link"
                                       [] OTHER -> Following(k, e)]
    /\ UNCHANGED <<lock, durable, shared, places, server, faults>>

-----------------------------------------------------------------------------
(* Enrollment and completion.                                                *)

\* Every conflict is looked for before the invitation is used.
Preflight(p) ==
    /\ proc[p].pc = "preflight"
    /\ IF CheckPaths(K(p)) /\ CheckRegistrations(K(p))
       THEN Goto(p, "enroll") /\ UNCHANGED lock
       ELSE Return(p)
    /\ UNCHANGED <<disks, shared, places, server, faults>>

\* The request carries the identity the journal holds, enrolled or not.
Enroll(p) ==
    /\ proc[p].pc = "enroll"
    /\ IF CheckOnboardingBinding(K(p))
       THEN /\ wire' = wire \cup {[k |-> K(p), eid |-> disk[K(p)].st.eid, cid |-> disk[K(p)].cred]}
            /\ Goto(p, "wait") /\ UNCHANGED lock
       ELSE Return(p) /\ UNCHANGED wire
    /\ UNCHANGED <<disks, shared, places, invite, faults>>

\* redeem_onboarding: a first use binds the invitation, the same use of it is
\* answered again, even after it expired.
FirstUse(i, r) == invite[i].eid = 0 /\ ~invite[i].expired /\ ~invite[i].revoked

\* MUTANT: an expired invitation is refused whoever asks.
MutExpiredReplay(i, r) ==
    /\ invite[i].eid = r.eid /\ invite[i].cid = r.cid /\ ~invite[i].expired
    /\ ~invite[i].revoked /\ ~invite[i].blocked

Replay(i, r) ==
    /\ invite[i].eid = r.eid /\ invite[i].cid = r.cid
    /\ ~invite[i].revoked /\ ~invite[i].blocked

\* The answer reaches the installer that waits, unless it is lost.
Redeem(r, heard) ==
    LET i == InviteOf[r.k]  ok == FirstUse(i, r) \/ Replay(i, r)
        waiting == {p \in Proc : proc[p].pc = "wait" /\ K(p) = r.k} IN
    /\ wire' = wire \ {r}
    /\ invite' = IF FirstUse(i, r) THEN [invite EXCEPT ![i].eid = r.eid, ![i].cid = r.cid] ELSE invite
    /\ IF heard /\ waiting # {}
       THEN \E p \in waiting :
                IF ok THEN Goto(p, "answered") /\ UNCHANGED lock ELSE Return(p)
       ELSE UNCHANGED <<proc, lock>>
    /\ heard \/ faults < MaxFault
    /\ faults' = IF heard THEN faults ELSE faults + 1
    /\ UNCHANGED <<disks, shared, places>>

EnrollTimeout(p) ==
    /\ proc[p].pc = "wait" /\ \A r \in wire : r.k # K(p)
    /\ Return(p)
    /\ UNCHANGED <<disks, shared, places, server, faults>>

\* The exchange is durable before the profile is published.
Enrolled(p) ==
    /\ proc[p].pc = "answered"
    /\ Persist(p, [disk[K(p)].st EXCEPT !.stage = "enrolled"], "publish")
    /\ UNCHANGED <<lock, durable, shared, places, server, faults>>

\* save_config: an existing file is replaced by a rename; a first one is
\* linked to its name and then loses its temporary name.
PublishBinding(p) ==
    /\ proc[p].pc = "publish"
    /\ IF CheckOnboardingBinding(K(p))
       THEN /\ config' = [links |-> IF config.links = 0 THEN 2 ELSE 1,
                          bound |-> [config.bound EXCEPT ![ProviderOf[K(p)]] = K(p)]]
            /\ Goto(p, IF config.links = 0 THEN "unlink_config" ELSE "recheck")
            /\ UNCHANGED lock
       ELSE Return(p) /\ UNCHANGED config
    /\ UNCHANGED <<disks, bundle, ca, places, server, faults>>

UnlinkConfig(p) ==
    /\ proc[p].pc = "unlink_config"
    /\ config' = [config EXCEPT !.links = 1] /\ Goto(p, "recheck")
    /\ UNCHANGED <<lock, disks, bundle, ca, places, server, faults>>

\* configure: users may have changed their entries during the exchange.
Configure(p) ==
    /\ proc[p].pc = "recheck"
    /\ IF CheckPaths(K(p)) /\ CheckRegistrations(K(p))
       THEN GotoEffect(p, "plan", Effects(K(p))[1]) /\ UNCHANGED lock
       ELSE Return(p)
    /\ UNCHANGED <<disks, shared, places, server, faults>>

\* The installation is verified once more, and the ticket is given up.
MarkConfigured(p) ==
    /\ proc[p].pc = "finish"
    /\ IF VerifyRecorded(K(p)) /\ \A e \in Name : Status(K(p), e) # "planned"
       THEN Persist(p, [disk[K(p)].st EXCEPT !.stage = "configured"], "done") /\ UNCHANGED lock
       ELSE Return(p) /\ UNCHANGED disk
    /\ UNCHANGED <<durable, shared, places, server, faults>>

Done(p) ==
    /\ proc[p].pc = "done" /\ Return(p)
    /\ UNCHANGED <<disks, shared, places, server, faults>>

-----------------------------------------------------------------------------
(* Faults, users and operators.                                              *)

\* The process dies, is interrupted, or meets an error that ends it: a failed
\* write or command, an unreachable route, an answer that does not come.
Interrupt(p) ==
    /\ proc[p] # Idle /\ faults < MaxFault
    /\ faults' = faults + 1 /\ Return(p)
    /\ UNCHANGED <<disks, shared, places, server>>

\* What was not synced may be lost, an unsynced removal may be undone.
PowerFailure ==
    /\ lock # None /\ faults < MaxFault
    /\ faults' = faults + 1 /\ proc' = [proc EXCEPT ![lock] = Idle] /\ lock' = None
    /\ LET k == K(lock) IN
       \E c \in {disk[k].cred, durable[k].cred}, st \in {disk[k].st, durable[k].st}, t \in BOOLEAN :
        /\ c = 0 => st = NoState /\ ~t
        /\ disk' = [disk EXCEPT ![k] = [cred |-> c, temp |-> t, st |-> st]]
        /\ durable' = [durable EXCEPT ![k] = [cred |-> c, st |-> st]]
    /\ \E lost \in SUBSET {At(K(lock), e) : e \in {"receipt", "file", "own"}} :
        world' = [x \in Place |-> IF x \in lost \ synced /\ world[x] \in Key THEN "absent" ELSE world[x]]
    /\ UNCHANGED <<shared, synced, off, server>>

\* A user makes an entry of their own, with other content at any time, with the
\* very same content before the installer announces one.
UserPuts(k, e, v) ==
    /\ world[At(k, e)] = "absent"
    /\ v = "theirs" => lock = None /\ \A j \in Key : At(j, e) = At(k, e) => Status(j, e) = "none"
    /\ v = "other" => lock = None \/ e = "file"
    /\ world' = [world EXCEPT ![At(k, e)] = v]
    /\ faults < MaxFault /\ faults' = faults + 1
    /\ UNCHANGED <<lock, proc, disks, shared, synced, off, server>>

UserRemoves(k, e) ==
    /\ lock = None /\ world[At(k, e)] \in Key
    /\ world' = [world EXCEPT ![At(k, e)] = "gone"] /\ off' = off \ {At(k, e)}
    /\ faults < MaxFault /\ faults' = faults + 1
    /\ UNCHANGED <<lock, proc, disks, shared, synced, server>>

\* Ten minutes pass; the invitation or the credential it made is revoked.
Expire(i) ==
    /\ ~invite[i].expired /\ invite' = [invite EXCEPT ![i].expired = TRUE]
    /\ UNCHANGED <<lock, proc, disks, shared, places, wire, faults>>

RevokeInvite(i) ==
    /\ ~invite[i].revoked /\ invite' = [invite EXCEPT ![i].revoked = TRUE]
    /\ faults < MaxFault /\ faults' = faults + 1
    /\ UNCHANGED <<lock, proc, disks, shared, places, wire>>

RevokeCredential(i) ==
    /\ invite[i].eid # 0 /\ ~invite[i].blocked /\ invite' = [invite EXCEPT ![i].blocked = TRUE]
    /\ faults < MaxFault /\ faults' = faults + 1
    /\ UNCHANGED <<lock, proc, disks, shared, places, wire>>

\* issue_onboarding_invite.
FreshInvite == [eid |-> 0, cid |-> 0, expired |-> FALSE, revoked |-> FALSE, blocked |-> FALSE]

Init ==
    /\ lock = None /\ proc = [p \in Proc |-> Idle]
    /\ disk = [k \in Key |-> [cred |-> 0, temp |-> FALSE, st |-> NoState]]
    /\ durable = [k \in Key |-> [cred |-> 0, st |-> NoState]]
    /\ bundle = "none" /\ ca = 0
    /\ config = [links |-> IF HasConfig THEN 1 ELSE 0,
                 bound |-> [v \in {"claude", "codex", "omp"} |-> None]]
    /\ world = [x \in Place |-> "absent"] /\ synced = {} /\ off = {}
    /\ wire = {} /\ faults = 0
    /\ invite = [i \in Invite |-> FreshInvite]

Begin(k) == \E p \in Proc : Install(p, k) \/ Resume(p, k)

Work(p) ==
    \/ SyncJournal(p) \/ ContinueInstall(p) \/ ProbeRoutes(p) \/ PersistCa(p)
    \/ ReuseBundle(p) \/ InstallBundle(p) \/ Prepare(p) \/ WriteCredential(p)
    \/ PublishState(p) \/ PlanEffect(p) \/ PublishFile(p) \/ SyncFile(p)
    \/ ConfigureStep(p) \/ Inspect(p) \/ Enable(p) \/ MarkApplied(p)
    \/ Preflight(p) \/ Enroll(p) \/ EnrollTimeout(p) \/ Enrolled(p)
    \/ PublishBinding(p) \/ UnlinkConfig(p) \/ Configure(p) \/ MarkConfigured(p) \/ Done(p)

Touched(e) == e \in {"file", "marketplace", "plugin", "mcp", "link", "own"}

Environment ==
    \/ PowerFailure
    \/ \E p \in Proc : Interrupt(p)
    \/ \E k \in Key, e \in Name :
        Touched(e) /\ e \in ToSet(Effects(k))
        /\ ((\E v \in {"theirs", "other"} : UserPuts(k, e, v)) \/ UserRemoves(k, e))
    \/ \E i \in Invite : Expire(i) \/ RevokeInvite(i) \/ RevokeCredential(i)

Next ==
    \/ \E k \in Key : Begin(k)
    \/ \E p \in Proc : Work(p)
    \/ \E r \in wire, heard \in BOOLEAN : Redeem(r, heard)
    \/ Environment

Spec == Init /\ [][Next]_vars

\* The user who was told to resume does; a process that runs goes on; the
\* store answers what reaches it.  Faults are bounded, so they end.
FairSpec ==
    /\ Spec
    /\ \A k \in Key : SF_vars(Begin(k))
    /\ \A p \in Proc : WF_vars(Work(p))
    /\ WF_vars(\E r \in wire : Redeem(r, TRUE))

-----------------------------------------------------------------------------
(* Properties.                                                               *)

\* The identity that the store has bound an invitation to is held, beyond any
\* power failure, by a journal of that invitation: an interrupted enrollment
\* never leaves an invitation used up by nobody.
IdentityIsKept ==
    \A i \in Invite : invite[i].eid # 0 =>
        \E k \in Key : /\ InviteOf[k] = i
                       /\ durable[k].cred = invite[i].cid /\ disk[k].cred = invite[i].cid
                       /\ durable[k].st.eid = invite[i].eid /\ disk[k].st.eid = invite[i].eid

\* What an installer made, a journal that outlives a power failure announces:
\* nothing is left behind that no journal knows of.
IntentIsDurable ==
    \A k \in Key, e \in Name \ {"enable"} :
        world[At(k, e)] = k => durable[k].st.acts[e] # "none"

\* A journal marks applied only what its own installation made and what a
\* power failure cannot take back; an entry that the user made is never
\* claimed, whatever its content.
AppliedWasMade ==
    \A k \in Key, e \in Name \ {"enable"} :
        Status(k, e) = "applied" =>
            /\ world[At(k, e)] \in {k, "gone"}
            /\ IsFile(e) => At(k, e) \in synced

\* Nothing but the installation itself stands in its way.
Undisturbed ==
    /\ \A x \in Place : world[x] \notin {"theirs", "other", "gone"}
    /\ \A i \in Invite : /\ ~invite[i].revoked /\ ~invite[i].blocked
                         /\ invite[i].expired => invite[i].eid # 0

\* An interruption left a file with a second link.
LeftLinked == lock = None /\ (config.links = 2 \/ ca = 2)

Configured == \E k \in Key : disk[k].st.stage = "configured"

\* However often it is interrupted, an installation that is resumed ends
\* configured, unless a user's entry or a revoked or unused expired invitation
\* stands in its way, or it was interrupted between the two links of a file.
InstallationEnds == <>(~Undisturbed \/ LeftLinked \/ Configured)

=============================================================================
