-------------------------- MODULE OnboardingProofs --------------------------
(* Proofs about Onboarding, for any number of installers, journals and        *)
(* invitations and any number of faults.                                      *)
(*                                                                            *)
(* The configuration lock leaves one installer at a time.  The identity of a  *)
(* journal never changes once it is durable; what an installer has in hand it *)
(* has announced; and an entry of a provider that one journal has announced   *)
(* belongs to no other, because the binding of the provider's profile was     *)
(* published before.                                                          *)
EXTENDS Onboarding, TLAPS

Family == {"claude", "codex", "omp"}

Mark == {"none", "planned", "applied"}

State == [eid : Nat, stage : {"none", "prepared", "enrolled", "configured"}, acts : [Name -> Mark]]

Entry == Key \cup {"absent", "gone", "theirs", "other"}

Elem(k) == {Effects(k)[n] : n \in 1 .. Len(Effects(k))}

\* Steps before there is a journal, steps that need one, and where a journal
\* that was written may go on.
New == {"prepare", "credential", "state"}

Ahead == {"plan", "effect", "preflight", "finish", "mark", "publish", "done"}

Late == Ahead \cup {"reuse", "sync", "sync_file", "inspect", "enroll", "wait", "answered",
                    "unlink_config", "recheck"}

Step == New \cup Late \cup {"idle", "bind", "probe", "unlink_ca", "bundle"}

Row == [pc : Step, k : Key \cup {None}, e : Name, then : Step, route : BOOLEAN]

TypeOK ==
    /\ proc \in [Proc -> Row]
    /\ disk \in [Key -> [cred : Nat, temp : BOOLEAN, st : State]]
    /\ durable \in [Key -> [cred : Nat, st : State]]
    /\ config \in [links : 0 .. 2, bound : [Family -> Key \cup {None}]]
    /\ world \in [Place -> Entry]
    /\ wire \subseteq [k : Key, eid : Nat, cid : Nat]
    /\ invite \in [Invite -> [eid : Nat, cid : Nat, expired : BOOLEAN, revoked : BOOLEAN, blocked : BOOLEAN]]

\* An identity that is durable is the identity, and the durable journal is
\* never ahead of the other.
JournalOK ==
    \A k \in Key :
        /\ disk[k].st.eid = 0 => disk[k].st = NoState
        /\ durable[k].st.eid = 0 => durable[k].st = NoState
        /\ durable[k].st.eid # 0 => disk[k].st.eid = durable[k].st.eid /\ disk[k].cred = durable[k].cred
        /\ \A e \in Name : /\ durable[k].st.acts[e] # "none" => disk[k].st.acts[e] # "none"
                           /\ durable[k].st.acts[e] = "applied" => disk[k].st.acts[e] = "applied"

\* A request carries a durable identity.
WireOK ==
    \A r \in wire : r.eid # 0 /\ durable[r.k].st.eid = r.eid /\ durable[r.k].cred = r.cid

\* Nothing of a provider is announced before its profile names the journal.
BoundOK ==
    \A k \in Key, e \in Name \ {"receipt"} : Status(k, e) # "none" => config.bound[ProviderOf[k]] = k

WorldOK ==
    \A k \in Key, e \in Name :
        /\ world[At(k, e)] \in Key => At(world[At(k, e)], e) = At(k, e)
        /\ world[At(k, e)] = "theirs" => Status(k, e) = "none"
        /\ e \in {"receipt", "enable"} => world[At(k, e)] \in Key \cup {"absent"}
        /\ At(k, e) \in off => e = "link" /\ world[At(k, e)] \in Key

\* Where the installer is, or will be once its journal is synced.
Stage(p) == IF proc[p].pc = "sync" THEN proc[p].then ELSE proc[p].pc

\* The effect the installer is at.
EffectOK(p) ==
    LET k == K(p)  e == proc[p].e IN
    /\ e \in Elem(k) \cup {"receipt", "enable"}
    /\ e = "enable" => "link" \in Elem(k) /\ world[At(k, "link")] = k
    /\ e # "receipt" \/ proc[p].pc \in {"unlink_config", "recheck"} => config.bound[ProviderOf[k]] = k
    /\ Stage(p) = "effect" => Status(k, e) # "none"
    /\ Stage(p) = "effect" /\ e \notin {"file", "enable"} => world[At(k, e)] # "other"
    /\ Stage(p) \in {"sync_file", "inspect", "mark"} /\ e # "enable" => world[At(k, e)] = k
    /\ Stage(p) = "inspect" => ~IsFile(e)
    /\ Stage(p) = "mark" /\ IsFile(e) => At(k, e) \in synced

\* The journal of the installer.
HeldOK(p) ==
    /\ K(p) \in Key
    /\ proc[p].pc # "sync" => durable[K(p)].st = disk[K(p)].st
    /\ proc[p].pc \in New => disk[K(p)].st = NoState
    /\ proc[p].pc \in Late => disk[K(p)].st.eid # 0
    /\ proc[p].pc = "sync" => proc[p].then \in Ahead \cup {"probe"}

LockOK ==
    /\ \A p \in Proc : proc[p] # Idle => lock = p /\ HeldOK(p) /\ EffectOK(p)
    /\ lock # None => lock \in Proc /\ proc[lock] # Idle

Kept == JournalOK /\ WireOK /\ IdentityIsKept /\ BoundOK /\ WorldOK /\ IntentIsDurable /\ AppliedWasMade

Inv == TypeOK /\ Kept /\ LockOK

-----------------------------------------------------------------------------
(* Names and places.                                                          *)

LEMMA Words ==
    /\ None \notin Proc /\ None \notin Key
    /\ \A k \in Key : k # "absent" /\ k # "gone" /\ k # "theirs" /\ k # "other"
    /\ \A k \in Key : ProviderOf[k] \in Family /\ InviteOf[k] \in Invite
  BY OnboardingAssumption, JournalAssumption DEF Family

LEMMA AtEqual ==
    ASSUME NEW j \in Key, NEW k \in Key, NEW e \in Name, NEW f \in Name, At(j, e) = At(k, f)
    PROVE  e = f /\ ProviderOf[j] = ProviderOf[k] /\ (e = "receipt" => j = k)
<1>1. e = f /\ ProviderOf[j] = ProviderOf[k]
  BY DEF At
<1>2. e = "receipt" => InviteOf[j] = InviteOf[k]
  BY <1>1 DEF At
<1>3. QED
  BY <1>1, <1>2, JournalAssumption

LEMMA AtPlace ==
    ASSUME NEW k \in Key, NEW e \in Name
    PROVE  At(k, e) \in Place
  BY DEF Place

LEMMA EffectsNames ==
    ASSUME NEW k \in Key
    PROVE  /\ Effects(k) \in Seq(Name \ {"receipt", "enable"}) /\ Len(Effects(k)) \in Nat \ {0}
           /\ Elem(k) \subseteq Name \ {"receipt", "enable"}
           /\ Effects(k)[1] \in Elem(k)
<1> DEFINE S == Name \ {"receipt", "enable"}
<1>0. "file" \in S /\ "marketplace" \in S /\ "plugin" \in S /\ "mcp" \in S /\ "link" \in S /\ "own" \in S
  BY DEF Name
<1> HIDE DEF S
<1>1. Files(k) \in Seq(S)
  <2>1. <<"file">> \in Seq(S) /\ <<>> \in Seq(S)
    BY <1>0
  <2>2. QED
    BY <2>1 DEF Files
<1>2. Steps(k) \in Seq(S)
  <2>1. <<"marketplace", "plugin", "mcp">> \in Seq(S)
    BY <1>0
  <2>2. <<"mcp">> \in Seq(S) /\ <<"link">> \in Seq(S)
    BY <1>0
  <2>3. \/ Steps(k) = <<"marketplace", "plugin", "mcp">> \/ Steps(k) = <<"mcp">> \/ Steps(k) = <<"link">>
    BY Words DEF Steps, Family
  <2>4. QED
    BY <2>1, <2>2, <2>3
<1>3. <<"own">> \in Seq(S) /\ Len(<<"own">>) = 1
  BY <1>0
<1>4. /\ Effects(k) \in Seq(S)
      /\ Len(Effects(k)) = Len(Files(k)) + Len(Steps(k)) + 1
  BY <1>1, <1>2, <1>3 DEF Effects
<1>5. Len(Effects(k)) \in Nat \ {0}
  BY <1>1, <1>2, <1>4
<1>6. Elem(k) \subseteq S /\ Effects(k)[1] \in Elem(k)
  BY <1>4, <1>5 DEF Elem
<1>7. QED
  BY <1>4, <1>5, <1>6 DEF S

LEMMA FollowingElem ==
    ASSUME NEW k \in Key, NEW e \in Elem(k)
    PROVE  Following(k, e) \in Elem(k) \cup {"receipt"}
<1>1. PICK m \in 1 .. Len(Effects(k)) : Effects(k)[m] = e
  BY DEF Elem
<1>2. DOMAIN Effects(k) = 1 .. Len(Effects(k)) /\ Len(Effects(k)) \in Nat
  BY EffectsNames
<1>3. PICK n \in 1 .. Len(Effects(k)) :
           Following(k, e) = IF n = Len(Effects(k)) THEN "receipt" ELSE Effects(k)[n + 1]
  <2> DEFINE c == CHOOSE i \in DOMAIN Effects(k) : Effects(k)[i] = e
  <2>1. c \in 1 .. Len(Effects(k))
    BY <1>1, <1>2
  <2>2. Following(k, e) = IF c = Len(Effects(k)) THEN "receipt" ELSE Effects(k)[c + 1]
    BY DEF Following
  <2> HIDE DEF c
  <2>3. QED
    BY <2>1, <2>2
<1>4. n # Len(Effects(k)) => n + 1 \in 1 .. Len(Effects(k))
  <2>1. PICK l \in Nat : l = Len(Effects(k))
    BY <1>2
  <2>2. n \in 1 .. l
    BY <1>3, <2>1
  <2>3. n # l => n + 1 \in 1 .. l
    BY <2>2
  <2>4. QED
    BY <2>1, <2>3
<1>5. QED
  BY <1>3, <1>4 DEF Elem

\* An entry an installation has announced is made by no other one.
LEMMA Mine ==
    ASSUME Inv, NEW k \in Key, NEW e \in Name \ {"enable"}, Status(k, e) # "none"
    PROVE  /\ world[At(k, e)] \in Key => world[At(k, e)] = k
           /\ world[At(k, e)] # "theirs"
           /\ \A j \in Key : At(j, e) = At(k, e) /\ Status(j, e) # "none" => j = k
<1>0. Kept
  BY DEF Inv
<1>1. ASSUME NEW j \in Key, At(j, e) = At(k, e), Status(j, e) # "none" PROVE j = k
  <2>1. CASE e = "receipt"
    BY <1>1, <2>1, AtEqual
  <2>2. CASE e # "receipt"
    <3>1. config.bound[ProviderOf[k]] = k /\ config.bound[ProviderOf[j]] = j
      BY <1>0, <1>1, <2>2 DEF Kept, BoundOK
    <3>2. ProviderOf[j] = ProviderOf[k]
      BY <1>1, AtEqual
    <3>3. QED
      BY <3>1, <3>2
  <2>3. QED
    BY <2>1, <2>2
<1>2. ASSUME world[At(k, e)] \in Key PROVE world[At(k, e)] = k
  <2>1. PICK j \in Key : j = world[At(k, e)]
    BY <1>2
  <2>2. At(j, e) = At(k, e)
    BY <1>0, <2>1 DEF Kept, WorldOK
  <2>3. durable[j].st.acts[e] # "none"
    BY <1>0, <2>1, <2>2 DEF Kept, IntentIsDurable
  <2>4. Status(j, e) # "none"
    BY <1>0, <2>3 DEF Kept, JournalOK, Status
  <2>5. QED
    BY <1>1, <2>1, <2>2, <2>4
<1>3. world[At(k, e)] # "theirs"
  BY <1>0 DEF Kept, WorldOK
<1>4. QED
  BY <1>1, <1>2, <1>3

-----------------------------------------------------------------------------
(* The lock.                                                                  *)

LEMMA IdleRow == Idle \in Row /\ Idle.pc = "idle"
  BY DEF Idle, Row, Step, Name

LEMMA LockMoves ==
    ASSUME LockOK, NEW p \in Proc, lock \in {p, None}, lock' = p,
           \A q \in Proc \ {p} : proc'[q] = proc[q],
           proc'[p] # Idle, HeldOK(p)', EffectOK(p)'
    PROVE  LockOK'
<1>1. \A q \in Proc \ {p} : proc[q] = Idle
  BY Words DEF LockOK
<1>2. \A q \in Proc \ {p} : proc'[q] = Idle
  BY <1>1
<1>3. \A q \in Proc : proc'[q] # Idle => q = p
  BY <1>2
<1>4. \A q \in Proc : proc'[q] # Idle => lock' = q /\ HeldOK(q)' /\ EffectOK(q)'
  BY <1>3
<1>5. QED
  BY <1>4 DEF LockOK, HeldOK, EffectOK, K, Stage, Status

LEMMA LockReturns ==
    ASSUME LockOK, proc \in [Proc -> Row], NEW p \in Proc, lock = p, Return(p)
    PROVE  LockOK' /\ proc' \in [Proc -> Row]
<1>1. \A q \in Proc \ {p} : proc[q] = Idle
  BY Words DEF LockOK
<1>2. proc' \in [Proc -> Row] /\ \A q \in Proc : proc'[q] = Idle
  BY <1>1, IdleRow DEF Return
<1>3. lock' = None
  BY DEF Return
<1>4. QED
  BY <1>2, <1>3 DEF LockOK

still == <<disk, durable, config, world, synced, off, wire, invite>>

LEMMA KeptSame ==
    ASSUME Kept, UNCHANGED still
    PROVE  Kept'
  BY DEF still, Kept, JournalOK, WireOK, IdentityIsKept, BoundOK, WorldOK, IntentIsDurable, AppliedWasMade,
         Status

LEMMA TypeSame ==
    ASSUME TypeOK, proc' \in [Proc -> Row], UNCHANGED still
    PROVE  TypeOK'
  BY DEF still, TypeOK

\* The command ends.
LEMMA ReturnStep ==
    ASSUME Inv, NEW p \in Proc, proc[p] # Idle, Return(p), UNCHANGED still
    PROVE  Inv'
<1>1. TypeOK /\ LockOK /\ Kept /\ lock = p
  BY DEF Inv, LockOK
<1>2. LockOK' /\ proc' \in [Proc -> Row]
  BY <1>1, LockReturns DEF TypeOK
<1>3. QED
  BY <1>1, <1>2, TypeSame, KeptSame DEF Inv

\* The installer goes on with the journal as it is.
LEMMA WalkStep ==
    ASSUME Inv, NEW p \in Proc, proc[p] # Idle, lock' = lock, UNCHANGED still,
           proc' \in [Proc -> Row], \A q \in Proc \ {p} : proc'[q] = proc[q],
           K(p)' = K(p), proc'[p].pc \notin {"idle", "sync"}, proc[p].pc # "sync",
           proc'[p].pc \in New => disk[K(p)].st = NoState,
           proc'[p].pc \in Late => disk[K(p)].st.eid # 0,
           EffectOK(p)'
    PROVE  Inv'
<1>1. TypeOK /\ LockOK /\ Kept /\ lock = p /\ HeldOK(p)
  BY DEF Inv, LockOK
<1>2. HeldOK(p)'
  BY <1>1 DEF HeldOK, still, K
<1>3. proc'[p] # Idle
  BY IdleRow
<1>4. LockOK'
  BY <1>1, <1>2, <1>3, LockMoves
<1>5. QED
  BY <1>1, <1>4, TypeSame, KeptSame DEF Inv

\* Steps at which the effect in hand does not matter.
Plain == Step \ {"idle", "sync", "effect", "sync_file", "inspect", "mark", "unlink_config", "recheck"}

LEMMA GotoRow ==
    ASSUME TypeOK, NEW p \in Proc, NEW pc \in Step, Goto(p, pc)
    PROVE  /\ proc' \in [Proc -> Row] /\ \A q \in Proc \ {p} : proc'[q] = proc[q]
           /\ K(p)' = K(p) /\ proc'[p].pc = pc /\ proc'[p].e = proc[p].e /\ proc'[p].then = proc[p].then
<1>1. proc[p] \in Row /\ proc' = [proc EXCEPT ![p] = [proc[p] EXCEPT !.pc = pc]]
  BY DEF TypeOK, Goto
<1>2. [proc[p] EXCEPT !.pc = pc] \in Row
  BY <1>1 DEF Row
<1>3. proc'[p] = [proc[p] EXCEPT !.pc = pc]
  BY <1>1 DEF TypeOK
<1>4. proc'[p].pc = pc /\ proc'[p].e = proc[p].e /\ proc'[p].k = proc[p].k /\ proc'[p].then = proc[p].then
  BY <1>1, <1>3 DEF Row
<1>5. QED
  BY <1>1, <1>2, <1>4 DEF TypeOK, K

LEMMA PlainEffect ==
    ASSUME NEW p \in Proc, EffectOK(p), UNCHANGED still, K(p)' = K(p), proc'[p].e = proc[p].e, proc'[p].pc \in Plain
    PROVE  EffectOK(p)'
<1>1. Stage(p)' = proc'[p].pc /\ proc'[p].pc \notin {"effect", "sync_file", "inspect", "mark", "unlink_config", "recheck"}
  BY DEF Stage, Plain
<1>2. QED
  BY <1>1 DEF EffectOK, still

LEMMA PlainStep ==
    ASSUME Inv, NEW p \in Proc, proc[p] # Idle, lock' = lock, UNCHANGED still,
           proc' \in [Proc -> Row], \A q \in Proc \ {p} : proc'[q] = proc[q],
           K(p)' = K(p), proc'[p].e = proc[p].e, proc'[p].pc \in Plain, proc[p].pc # "sync",
           proc'[p].pc \in New => disk[K(p)].st = NoState,
           proc'[p].pc \in Late => disk[K(p)].st.eid # 0
    PROVE  Inv'
<1>1. EffectOK(p)
  BY DEF Inv, LockOK
<1>2. EffectOK(p)'
  BY <1>1, PlainEffect
<1>3. proc'[p].pc \notin {"idle", "sync"}
  BY DEF Plain
<1>4. QED
  BY <1>2, <1>3, WalkStep

LEMMA GotoEffectRow ==
    ASSUME TypeOK, NEW p \in Proc, NEW pc \in Step, NEW e \in Name, GotoEffect(p, pc, e)
    PROVE  /\ proc' \in [Proc -> Row] /\ \A q \in Proc \ {p} : proc'[q] = proc[q]
           /\ K(p)' = K(p) /\ proc'[p].pc = pc /\ proc'[p].e = e
<1>1. proc[p] \in Row /\ proc' = [proc EXCEPT ![p] = [proc[p] EXCEPT !.pc = pc, !.e = e]]
  BY DEF TypeOK, GotoEffect
<1>2. [proc[p] EXCEPT !.pc = pc, !.e = e] \in Row
  BY <1>1 DEF Row
<1>3. proc'[p] = [proc[p] EXCEPT !.pc = pc, !.e = e]
  BY <1>1 DEF TypeOK
<1>4. proc'[p].pc = pc /\ proc'[p].e = e /\ proc'[p].k = proc[p].k
  BY <1>1, <1>3 DEF Row
<1>5. QED
  BY <1>1, <1>2, <1>4 DEF TypeOK, K

LEMMA RouteRow ==
    ASSUME TypeOK, NEW p \in Proc, RouteFound(p)
    PROVE  /\ proc' \in [Proc -> Row] /\ \A q \in Proc \ {p} : proc'[q] = proc[q]
           /\ K(p)' = K(p) /\ proc'[p].e = proc[p].e
           /\ proc'[p].pc = IF Status(K(p), "receipt") = "none" THEN "bundle" ELSE "preflight"
<1> DEFINE pc == IF Status(K(p), "receipt") = "none" THEN "bundle" ELSE "preflight"
<1>0. pc \in Step
  BY DEF Step, Late, Ahead
<1>1. proc[p] \in Row /\ proc' = [proc EXCEPT ![p] = [proc[p] EXCEPT !.route = TRUE, !.pc = pc]]
  BY DEF TypeOK, RouteFound
<1> HIDE DEF pc
<1>2. [proc[p] EXCEPT !.route = TRUE, !.pc = pc] \in Row
  BY <1>0, <1>1 DEF Row
<1>3. proc'[p] = [proc[p] EXCEPT !.route = TRUE, !.pc = pc]
  BY <1>1 DEF TypeOK
<1>4. proc'[p].pc = pc /\ proc'[p].e = proc[p].e /\ proc'[p].k = proc[p].k
  BY <1>1, <1>3 DEF Row
<1>5. QED
  BY <1>1, <1>2, <1>4 DEF TypeOK, K, pc

\* The installer whose turn it is holds the lock.
LEMMA Active ==
    ASSUME Inv, NEW p \in Proc, proc[p].pc # "idle"
    PROVE  /\ proc[p] # Idle /\ lock = p /\ K(p) \in Key /\ HeldOK(p) /\ EffectOK(p)
           /\ TypeOK /\ Kept /\ LockOK /\ proc[p].e \in Name /\ disk[K(p)].st \in State
           /\ disk[K(p)].st # NoState => disk[K(p)].st.eid # 0
<1>1. proc[p] # Idle
  BY IdleRow
<1>2. lock = p /\ HeldOK(p) /\ EffectOK(p) /\ TypeOK /\ Kept /\ LockOK
  BY <1>1 DEF Inv, LockOK
<1>3. K(p) \in Key
  BY <1>2 DEF HeldOK
<1>4. proc[p] \in Row /\ disk[K(p)] \in [cred : Nat, temp : BOOLEAN, st : State]
  BY <1>2, <1>3 DEF TypeOK
<1>5. proc[p].e \in Name /\ disk[K(p)].st \in State
  BY <1>4 DEF Row
<1>6. QED
  BY <1>1, <1>2, <1>3, <1>5 DEF Kept, JournalOK

LEMMA NothingAnnounced == \A e \in Name : NoState.acts[e] = "none"
  BY DEF NoState

LEMMA ContinueStep ==
    ASSUME Inv, NEW p \in Proc, ContinueInstall(p) \/ Preflight(p) \/ EnrollTimeout(p) \/ Done(p)
    PROVE  Inv'
<1>0. UNCHANGED still
  BY DEF ContinueInstall, Preflight, EnrollTimeout, Done, still, disks, shared, places, server
<1>1. proc[p].pc \notin {"idle", "sync"}
  BY DEF ContinueInstall, Preflight, EnrollTimeout, Done
<1>2. /\ proc[p] # Idle /\ HeldOK(p) /\ TypeOK
      /\ disk[K(p)].st # NoState => disk[K(p)].st.eid # 0
  BY <1>1, Active
<1>3. CASE Return(p)
  BY <1>0, <1>2, <1>3, ReturnStep
<1>4. ASSUME NEW pc \in {"probe", "reuse", "enroll"}, Goto(p, pc), UNCHANGED lock,
             pc # "probe" => disk[K(p)].st.eid # 0
      PROVE  Inv'
  <2>1. pc \in Step /\ pc \in Plain /\ pc \notin New /\ (pc \in Late => pc # "probe")
    BY DEF Step, Plain, Late, New, Ahead
  <2>2. /\ proc' \in [Proc -> Row] /\ \A q \in Proc \ {p} : proc'[q] = proc[q]
        /\ K(p)' = K(p) /\ proc'[p].pc = pc /\ proc'[p].e = proc[p].e
    BY <1>2, <1>4, <2>1, GotoRow
  <2>3. QED
    BY <1>0, <1>1, <1>2, <1>4, <2>1, <2>2, PlainStep
<1>5. CASE ContinueInstall(p)
  <2>1. CASE Goto(p, IF disk[K(p)].st = NoState THEN "probe" ELSE "reuse") /\ UNCHANGED lock
    <3>1. CASE disk[K(p)].st = NoState
      BY <1>4, <2>1, <3>1
    <3>2. CASE disk[K(p)].st # NoState
      BY <1>2, <1>4, <2>1, <3>2
    <3>3. QED
      BY <3>1, <3>2
  <2>2. QED
    BY <1>3, <1>5, <2>1 DEF ContinueInstall
<1>6. CASE Preflight(p)
  <2>1. proc[p].pc \in Late
    BY <1>6 DEF Preflight, Late, Ahead
  <2>2. disk[K(p)].st.eid # 0
    BY <1>2, <2>1 DEF HeldOK
  <2>3. QED
    BY <1>3, <1>4, <1>6, <2>2 DEF Preflight
<1>7. QED
  BY <1>3, <1>5, <1>6 DEF ContinueInstall, Preflight, EnrollTimeout, Done

\* Everything the invariant speaks of stays as it is.
LEMMA SameStep ==
    ASSUME Inv, UNCHANGED <<lock, proc>>, UNCHANGED still
    PROVE  Inv'
<1>1. TypeOK' /\ Kept'
  BY TypeSame, KeptSame DEF Inv, TypeOK
<1>2. LockOK'
  BY DEF Inv, LockOK, HeldOK, EffectOK, still, Stage, K, Status
<1>3. QED
  BY <1>1, <1>2 DEF Inv

LEMMA BundleStep ==
    ASSUME Inv, NEW p \in Proc, ReuseBundle(p) \/ InstallBundle(p)
    PROVE  Inv'
<1>0. UNCHANGED still /\ lock' = lock
  BY DEF ReuseBundle, InstallBundle, still, disks, shared, places, server
<1>1. proc[p].pc \notin {"idle", "sync"}
  BY DEF ReuseBundle, InstallBundle
<1>2. /\ proc[p] # Idle /\ HeldOK(p) /\ EffectOK(p) /\ TypeOK /\ Kept /\ K(p) \in Key
      /\ disk[K(p)].st # NoState => disk[K(p)].st.eid # 0
  BY <1>1, Active
<1>3. ASSUME NEW pc \in {"probe", "prepare"}, Goto(p, pc), pc = "prepare" => disk[K(p)].st = NoState PROVE Inv'
  <2>1. pc \in Step /\ pc \in Plain /\ pc \notin Late /\ (pc \in New => pc = "prepare")
    BY DEF Step, Plain, Late, New, Ahead
  <2>2. /\ proc' \in [Proc -> Row] /\ \A q \in Proc \ {p} : proc'[q] = proc[q]
        /\ K(p)' = K(p) /\ proc'[p].pc = pc /\ proc'[p].e = proc[p].e
    BY <1>2, <1>3, <2>1, GotoRow
  <2>3. QED
    BY <1>0, <1>1, <1>2, <1>3, <2>1, <2>2, PlainStep
<1>4. ASSUME NEW pc \in {"plan", "effect"}, GotoEffect(p, pc, "receipt"), disk[K(p)].st.eid # 0,
             pc = "effect" => Status(K(p), "receipt") # "none"
      PROVE  Inv'
  <2>0. PICK e \in Name : e = "receipt"
    BY DEF Name
  <2>1. pc \in Step /\ pc \notin New
    BY DEF Step, Late, New, Ahead
  <2>2. /\ proc' \in [Proc -> Row] /\ \A q \in Proc \ {p} : proc'[q] = proc[q]
        /\ K(p)' = K(p) /\ proc'[p].pc = pc /\ proc'[p].e = e
    BY <1>2, <1>4, <2>0, <2>1, GotoEffectRow
  <2>3. world[At(K(p), e)] # "other"
    BY <1>2, <2>0, Words DEF Kept, WorldOK
  <2>4. Stage(p)' = pc
    BY <2>2 DEF Stage
  <2>5. EffectOK(p)'
    BY <1>0, <1>4, <2>0, <2>2, <2>3, <2>4 DEF EffectOK, still, Status
  <2>6. QED
    BY <1>0, <1>1, <1>2, <1>4, <2>1, <2>2, <2>5, WalkStep
<1>5. CASE ReuseBundle(p)
  <2>1. disk[K(p)].st.eid # 0
    BY <1>2, <1>5 DEF ReuseBundle, HeldOK, Late
  <2>2. QED
    BY <1>3, <1>4, <1>5, <2>1 DEF ReuseBundle
<1>6. CASE InstallBundle(p)
  <2>1. \/ UNCHANGED proc
        \/ disk[K(p)].st = NoState /\ Goto(p, "prepare")
        \/ disk[K(p)].st # NoState /\ GotoEffect(p, "plan", "receipt")
    BY <1>6 DEF InstallBundle
  <2>2. CASE UNCHANGED proc
    BY <1>0, <2>2, SameStep
  <2>3. QED
    BY <1>2, <1>3, <1>4, <2>1, <2>2
<1>7. QED
  BY <1>5, <1>6

LEMMA RouteStep ==
    ASSUME Inv, NEW p \in Proc, ProbeRoutes(p) \/ PersistCa(p)
    PROVE  Inv'
<1>0. UNCHANGED still
  BY DEF ProbeRoutes, PersistCa, still, disks, places, server
<1>1. proc[p].pc \notin {"idle", "sync"}
  BY DEF ProbeRoutes, PersistCa
<1>2. /\ proc[p] # Idle /\ TypeOK /\ K(p) \in Key
      /\ disk[K(p)].st # NoState => disk[K(p)].st.eid # 0
  BY <1>1, Active
<1>3. CASE Return(p)
  BY <1>0, <1>2, <1>3, ReturnStep
<1>4. CASE Goto(p, "unlink_ca") /\ UNCHANGED lock
  <2>1. PICK pc \in Step : pc = "unlink_ca"
    BY DEF Step
  <2>2. pc \in Plain /\ pc \notin Late /\ pc \notin New
    BY <2>1 DEF Plain, Late, New, Ahead
  <2>3. /\ proc' \in [Proc -> Row] /\ \A q \in Proc \ {p} : proc'[q] = proc[q]
        /\ K(p)' = K(p) /\ proc'[p].pc = pc /\ proc'[p].e = proc[p].e
    BY <1>2, <1>4, <2>1, GotoRow
  <2>4. QED
    BY <1>0, <1>1, <1>2, <1>4, <2>2, <2>3, PlainStep
<1>5. CASE RouteFound(p) /\ UNCHANGED lock
  <2>1. /\ proc' \in [Proc -> Row] /\ \A q \in Proc \ {p} : proc'[q] = proc[q]
        /\ K(p)' = K(p) /\ proc'[p].e = proc[p].e
        /\ proc'[p].pc = IF Status(K(p), "receipt") = "none" THEN "bundle" ELSE "preflight"
    BY <1>2, <1>5, RouteRow
  <2>2. proc'[p].pc \in Plain /\ proc'[p].pc \notin New
    BY <2>1 DEF Plain, Step, Late, New, Ahead
  <2>3. proc'[p].pc \in Late => disk[K(p)].st.eid # 0
    <3>1. "bundle" \notin Late /\ "receipt" \in Name
      BY DEF Late, Ahead, Name
    <3>2. Status(K(p), "receipt") # "none" => disk[K(p)].st # NoState
      BY <3>1, NothingAnnounced DEF Status
    <3>3. QED
      BY <1>2, <2>1, <3>1, <3>2
  <2>4. QED
    BY <1>0, <1>1, <1>2, <1>5, <2>1, <2>2, <2>3, PlainStep
<1>6. QED
  BY <1>3, <1>4, <1>5 DEF ProbeRoutes, PersistCa

LEMMA InspectStep ==
    ASSUME Inv, NEW p \in Proc, Inspect(p)
    PROVE  Inv'
<1>0. UNCHANGED still /\ lock' = lock /\ proc[p].pc = "inspect"
  BY DEF Inspect, still, disks, shared, places, server
<1>1. /\ proc[p] # Idle /\ HeldOK(p) /\ EffectOK(p) /\ TypeOK /\ Kept /\ K(p) \in Key /\ proc[p].e \in Name
  BY <1>0, Active
<1>2. disk[K(p)].st.eid # 0
  BY <1>0, <1>1 DEF HeldOK, Late
<1>3. /\ proc[p].e # "enable" => world[At(K(p), proc[p].e)] = K(p)
      /\ proc[p].e # "receipt" => config.bound[ProviderOf[K(p)]] = K(p)
      /\ proc[p].e \in Elem(K(p)) \cup {"receipt", "enable"}
      /\ proc[p].e = "enable" => "link" \in Elem(K(p)) /\ world[At(K(p), "link")] = K(p)
  BY <1>0, <1>1 DEF EffectOK, Stage
<1>4. ASSUME NEW pc \in {"plan", "mark"}, GotoEffect(p, pc, "enable"), proc[p].e = "link" PROVE Inv'
  <2>0. PICK e \in Name : e = "enable"
    BY DEF Name
  <2>1. pc \in Step /\ pc \notin New /\ pc \notin {"idle", "sync", "effect", "sync_file", "inspect"}
    BY DEF Step, Late, New, Ahead
  <2>2. /\ proc' \in [Proc -> Row] /\ \A q \in Proc \ {p} : proc'[q] = proc[q]
        /\ K(p)' = K(p) /\ proc'[p].pc = pc /\ proc'[p].e = e
    BY <1>1, <1>4, <2>0, <2>1, GotoEffectRow
  <2>3. Stage(p)' = pc /\ ~IsFile(e)
    BY <2>0, <2>1, <2>2 DEF Stage, IsFile
  <2>4. EffectOK(p)'
    BY <1>0, <1>3, <1>4, <2>0, <2>1, <2>2, <2>3 DEF EffectOK, still, IsFile
  <2>5. QED
    BY <1>0, <1>1, <1>2, <1>4, <2>1, <2>2, <2>4, WalkStep
<1>5. CASE Goto(p, "mark")
  <2>0. PICK pc \in Step : pc = "mark"
    BY DEF Step, Late, Ahead
  <2>1. /\ proc' \in [Proc -> Row] /\ \A q \in Proc \ {p} : proc'[q] = proc[q]
        /\ K(p)' = K(p) /\ proc'[p].pc = pc /\ proc'[p].e = proc[p].e
    BY <1>1, <1>5, <2>0, GotoRow
  <2>2. Stage(p)' = "mark" /\ pc \notin New
    BY <2>0, <2>1 DEF Stage, New
  <2>3. ~IsFile(proc[p].e)
    BY <1>0, <1>1 DEF EffectOK, Stage
  <2>4. EffectOK(p)'
    BY <1>0, <1>3, <2>0, <2>1, <2>2, <2>3 DEF EffectOK, still, IsFile
  <2>5. QED
    BY <1>0, <1>1, <1>2, <2>0, <2>1, <2>2, <2>4, WalkStep
<1>6. At(K(p), proc[p].e) \in off => proc[p].e = "link"
  BY <1>1 DEF Kept, WorldOK
<1>7. QED
  BY <1>0, <1>4, <1>5, <1>6 DEF Inspect

LEMMA ConfigureFirst ==
    ASSUME Inv, NEW p \in Proc, Configure(p)
    PROVE  Inv'
<1>0. UNCHANGED still /\ proc[p].pc = "recheck"
  BY DEF Configure, still, disks, shared, places, server
<1>1. /\ proc[p] # Idle /\ HeldOK(p) /\ EffectOK(p) /\ TypeOK /\ K(p) \in Key
  BY <1>0, Active
<1>2. disk[K(p)].st.eid # 0 /\ config.bound[ProviderOf[K(p)]] = K(p)
  BY <1>0, <1>1 DEF HeldOK, EffectOK, Late
<1>3. CASE Return(p)
  BY <1>0, <1>1, <1>3, ReturnStep
<1>4. CASE GotoEffect(p, "plan", Effects(K(p))[1]) /\ UNCHANGED lock
  <2>0. PICK e \in Name \ {"receipt", "enable"} : e = Effects(K(p))[1] /\ e \in Elem(K(p))
    BY <1>1, EffectsNames
  <2>1. PICK pc \in Step : pc = "plan"
    BY DEF Step, Late, Ahead
  <2>2. /\ proc' \in [Proc -> Row] /\ \A q \in Proc \ {p} : proc'[q] = proc[q]
        /\ K(p)' = K(p) /\ proc'[p].pc = pc /\ proc'[p].e = e
    BY <1>1, <1>4, <2>0, <2>1, GotoEffectRow
  <2>3. Stage(p)' = "plan" /\ pc \notin New
    BY <2>1, <2>2 DEF Stage, New
  <2>4. EffectOK(p)'
    BY <1>0, <1>2, <2>0, <2>1, <2>2, <2>3 DEF EffectOK, still
  <2>5. QED
    BY <1>0, <1>1, <1>2, <1>4, <2>1, <2>2, <2>3, <2>4, WalkStep
<1>5. QED
  BY <1>3, <1>4 DEF Configure

LEMMA InterruptStep ==
    ASSUME Inv, NEW p \in Proc, Interrupt(p)
    PROVE  Inv'
<1>1. proc[p] # Idle /\ Return(p) /\ UNCHANGED still
  BY DEF Interrupt, still, disks, shared, places, server
<1>2. QED
  BY <1>1, ReturnStep

\* A process takes the lock and begins with a journal.
LEMMA Begins ==
    ASSUME TypeOK, LockOK, NEW p \in Proc, NEW k \in Key, lock = None, lock' = p,
           proc' = [proc EXCEPT ![p] = [Idle EXCEPT !.pc = "bind", !.k = k]],
           durable'[k].st = disk'[k].st
    PROVE  LockOK' /\ proc' \in [Proc -> Row]
<1>1. PICK row \in Row : /\ row = [Idle EXCEPT !.pc = "bind", !.k = k]
                         /\ row.pc = "bind" /\ row.k = k /\ row.e = "receipt"
  <2>1. Idle \in Row /\ Idle.e = "receipt" /\ "bind" \in Step
    BY IdleRow DEF Idle, Step
  <2>2. [Idle EXCEPT !.pc = "bind", !.k = k] \in Row
    BY <2>1 DEF Row
  <2>3. /\ [Idle EXCEPT !.pc = "bind", !.k = k].pc = "bind"
        /\ [Idle EXCEPT !.pc = "bind", !.k = k].k = k
        /\ [Idle EXCEPT !.pc = "bind", !.k = k].e = "receipt"
    BY <2>1 DEF Row
  <2>4. QED
    BY <2>2, <2>3
<1>2. proc' \in [Proc -> Row] /\ proc'[p] = row /\ \A q \in Proc \ {p} : proc'[q] = proc[q]
  BY <1>1 DEF TypeOK
<1>3. HeldOK(p)'
  BY <1>1, <1>2 DEF HeldOK, K, New, Late, Ahead
<1>4. EffectOK(p)'
  BY <1>1, <1>2 DEF EffectOK, K, Stage
<1>5. proc'[p] # Idle
  BY <1>1, <1>2, IdleRow
<1>6. LockOK'
  BY <1>2, <1>3, <1>4, <1>5, LockMoves
<1>7. QED
  BY <1>2, <1>6

LEMMA InstallStep ==
    ASSUME Inv, NEW p \in Proc, NEW k \in Key, Install(p, k)
    PROVE  Inv'
<1>1. /\ lock = None /\ disk[k].st = NoState /\ lock' = p /\ UNCHANGED still
      /\ proc' = [proc EXCEPT ![p] = [Idle EXCEPT !.pc = "bind", !.k = k]]
  BY DEF Install, still, disks, shared, places, server
<1>2. TypeOK /\ LockOK /\ Kept
  BY DEF Inv
<1>3. durable[k].st = NoState
  <2>1. NoState.eid = 0
    BY DEF NoState
  <2>2. QED
    BY <1>1, <1>2, <2>1 DEF Kept, JournalOK
<1>4. durable'[k].st = disk'[k].st
  BY <1>1, <1>3 DEF still
<1>5. LockOK' /\ proc' \in [Proc -> Row]
  BY <1>1, <1>2, <1>4, Begins
<1>6. QED
  BY <1>1, <1>2, <1>5, TypeSame, KeptSame DEF Inv

-----------------------------------------------------------------------------
(* The journal.                                                               *)

\* What the journal of one key becomes on disk.
LEMMA DiskRow ==
    ASSUME TypeOK, NEW k \in Key, NEW st \in State, disk' = [disk EXCEPT ![k].st = st]
    PROVE  /\ disk' \in [Key -> [cred : Nat, temp : BOOLEAN, st : State]]
           /\ disk'[k].st = st /\ disk'[k].cred = disk[k].cred
           /\ \A j \in Key \ {k} : disk'[j] = disk[j]
<1>1. disk[k] \in [cred : Nat, temp : BOOLEAN, st : State]
  BY DEF TypeOK
<1>2. PICK row \in [cred : Nat, temp : BOOLEAN, st : State] :
           row = [disk[k] EXCEPT !.st = st] /\ row.st = st /\ row.cred = disk[k].cred
  <2>1. [disk[k] EXCEPT !.st = st] \in [cred : Nat, temp : BOOLEAN, st : State]
    BY <1>1
  <2>2. [disk[k] EXCEPT !.st = st].st = st /\ [disk[k] EXCEPT !.st = st].cred = disk[k].cred
    BY <1>1
  <2>3. QED
    BY <2>1, <2>2
<1>3. disk' = [disk EXCEPT ![k] = row]
  BY <1>2
<1>4. QED
  BY <1>2, <1>3 DEF TypeOK

\* The journal says more than it did, and nothing that is not so.
Grows(k, st) ==
    /\ st.eid # 0 /\ (disk[k].st.eid # 0 => st.eid = disk[k].st.eid)
    /\ \A e \in Name :
        /\ Status(k, e) # "none" => st.acts[e] # "none"
        /\ Status(k, e) = "applied" => st.acts[e] = "applied"
        /\ st.acts[e] # "none" /\ Status(k, e) = "none" /\ e # "receipt" => config.bound[ProviderOf[k]] = k
        /\ st.acts[e] # "none" => world[At(k, e)] # "theirs"
        /\ st.acts[e] = "applied" /\ Status(k, e) # "applied" /\ e # "enable" =>
             world[At(k, e)] = k /\ (IsFile(e) => At(k, e) \in synced)

LEMMA GrowsKept ==
    ASSUME TypeOK, Kept, NEW k \in Key, NEW st \in State, disk' = [disk EXCEPT ![k].st = st], Grows(k, st),
           durable[k].st = disk[k].st, UNCHANGED <<durable, config, world, synced, off, wire, invite>>
    PROVE  (proc' \in [Proc -> Row] => TypeOK') /\ Kept'
<1>1. /\ disk' \in [Key -> [cred : Nat, temp : BOOLEAN, st : State]]
      /\ disk'[k].st = st /\ disk'[k].cred = disk[k].cred
      /\ \A j \in Key \ {k} : disk'[j] = disk[j]
  BY DiskRow
<1>2. proc' \in [Proc -> Row] => TypeOK'
  BY <1>1 DEF TypeOK
<1>3. JournalOK'
  <2>1. ASSUME NEW j \in Key
        PROVE  /\ disk'[j].st.eid = 0 => disk'[j].st = NoState
               /\ durable[j].st.eid = 0 => durable[j].st = NoState
               /\ durable[j].st.eid # 0 => disk'[j].st.eid = durable[j].st.eid /\ disk'[j].cred = durable[j].cred
               /\ \A e \in Name : /\ durable[j].st.acts[e] # "none" => disk'[j].st.acts[e] # "none"
                                  /\ durable[j].st.acts[e] = "applied" => disk'[j].st.acts[e] = "applied"
    <3>1. CASE j = k
      BY <1>1, <3>1 DEF Kept, JournalOK, Grows, Status
    <3>2. CASE j # k
      BY <1>1, <3>2 DEF Kept, JournalOK
    <3>3. QED
      BY <3>1, <3>2
  <2>2. QED
    BY <2>1 DEF JournalOK
<1>4. WireOK'
  BY DEF Kept, WireOK
<1>5. IdentityIsKept'
  <2>1. ASSUME NEW i \in Invite, invite[i].eid # 0
        PROVE  \E j \in Key : /\ InviteOf[j] = i
                              /\ durable[j].cred = invite[i].cid /\ disk'[j].cred = invite[i].cid
                              /\ durable[j].st.eid = invite[i].eid /\ disk'[j].st.eid = invite[i].eid
    <3>1. PICK j \in Key : /\ InviteOf[j] = i
                           /\ durable[j].cred = invite[i].cid /\ disk[j].cred = invite[i].cid
                           /\ durable[j].st.eid = invite[i].eid /\ disk[j].st.eid = invite[i].eid
      BY <2>1 DEF Kept, IdentityIsKept
    <3>2. disk'[j].cred = disk[j].cred /\ disk'[j].st.eid = disk[j].st.eid
      BY <1>1, <2>1, <3>1 DEF Grows
    <3>3. QED
      BY <3>1, <3>2
  <2>2. QED
    BY <2>1 DEF IdentityIsKept
<1>6. \A j \in Key \ {k}, e \in Name : Status(j, e)' = Status(j, e)
  BY <1>1 DEF Status
<1>7. \A e \in Name : Status(k, e)' = st.acts[e]
  BY <1>1 DEF Status
<1>8. BoundOK'
  BY <1>6, <1>7 DEF Kept, BoundOK, Grows, Status
<1>9. WorldOK'
  <2>1. \A j \in Key, e \in Name : world[At(j, e)] = "theirs" => Status(j, e)' = "none"
    BY <1>6, <1>7 DEF Kept, WorldOK, Grows
  <2>2. QED
    BY <2>1 DEF Kept, WorldOK, Status
<1>10. IntentIsDurable'
  BY DEF Kept, IntentIsDurable
<1>11. AppliedWasMade'
  <2>1. ASSUME NEW j \in Key, NEW e \in Name \ {"enable"}, Status(j, e)' = "applied"
        PROVE  world[At(j, e)] \in {j, "gone"} /\ (IsFile(e) => At(j, e) \in synced)
    <3>1. CASE Status(j, e) = "applied"
      BY <3>1 DEF Kept, AppliedWasMade
    <3>2. CASE Status(j, e) # "applied"
      BY <1>6, <1>7, <2>1, <3>2 DEF Grows
    <3>3. QED
      BY <3>1, <3>2
  <2>2. QED
    BY <2>1 DEF AppliedWasMade, Status
<1>12. QED
  BY <1>2, <1>3, <1>4, <1>5, <1>8, <1>9, <1>10, <1>11 DEF Kept

LEMMA SyncRow ==
    ASSUME TypeOK, NEW p \in Proc, NEW pc \in Step,
           proc' = [proc EXCEPT ![p].pc = "sync", ![p].then = pc]
    PROVE  /\ proc' \in [Proc -> Row] /\ \A q \in Proc \ {p} : proc'[q] = proc[q]
           /\ K(p)' = K(p) /\ proc'[p].pc = "sync" /\ proc'[p].e = proc[p].e /\ proc'[p].then = pc
<1>1. proc[p] \in Row /\ proc' = [proc EXCEPT ![p] = [proc[p] EXCEPT !.pc = "sync", !.then = pc]]
  BY DEF TypeOK
<1>2. [proc[p] EXCEPT !.pc = "sync", !.then = pc] \in Row
  BY <1>1 DEF Row, Step, Late
<1>3. proc'[p] = [proc[p] EXCEPT !.pc = "sync", !.then = pc]
  BY <1>1 DEF TypeOK
<1>4. proc'[p].pc = "sync" /\ proc'[p].e = proc[p].e /\ proc'[p].k = proc[p].k /\ proc'[p].then = pc
  BY <1>1, <1>3 DEF Row
<1>5. QED
  BY <1>1, <1>2, <1>4 DEF TypeOK, K

LEMMA SyncEffectRow ==
    ASSUME TypeOK, NEW p \in Proc, NEW pc \in Step, NEW e \in Name,
           proc' = [proc EXCEPT ![p].pc = "sync", ![p].then = pc, ![p].e = e]
    PROVE  /\ proc' \in [Proc -> Row] /\ \A q \in Proc \ {p} : proc'[q] = proc[q]
           /\ K(p)' = K(p) /\ proc'[p].pc = "sync" /\ proc'[p].e = e /\ proc'[p].then = pc
<1>1. proc[p] \in Row /\ proc' = [proc EXCEPT ![p] = [proc[p] EXCEPT !.pc = "sync", !.then = pc, !.e = e]]
  BY DEF TypeOK
<1>2. [proc[p] EXCEPT !.pc = "sync", !.then = pc, !.e = e] \in Row
  BY <1>1 DEF Row, Step, Late
<1>3. proc'[p] = [proc[p] EXCEPT !.pc = "sync", !.then = pc, !.e = e]
  BY <1>1 DEF TypeOK
<1>4. proc'[p].pc = "sync" /\ proc'[p].e = e /\ proc'[p].k = proc[p].k /\ proc'[p].then = pc
  BY <1>1, <1>3 DEF Row
<1>5. QED
  BY <1>1, <1>2, <1>4 DEF TypeOK, K

\* The journal is written and the installer waits for the directory.
LEMMA PersistStep ==
    ASSUME Inv, NEW p \in Proc, proc[p].pc \notin {"idle", "sync"}, NEW st \in State,
           disk' = [disk EXCEPT ![K(p)].st = st], Grows(K(p), st), lock' = lock,
           UNCHANGED <<durable, config, world, synced, off, wire, invite>>,
           proc' \in [Proc -> Row], \A q \in Proc \ {p} : proc'[q] = proc[q],
           K(p)' = K(p), proc'[p].pc = "sync", proc'[p].then \in Ahead \cup {"probe"}, EffectOK(p)'
    PROVE  Inv'
<1>1. lock = p /\ K(p) \in Key /\ HeldOK(p) /\ TypeOK /\ Kept /\ LockOK
  BY Active
<1>2. durable[K(p)].st = disk[K(p)].st
  BY <1>1 DEF HeldOK
<1>3. PICK k \in Key : k = K(p)
  BY <1>1
<1>4. TypeOK' /\ Kept'
  BY <1>1, <1>2, <1>3, GrowsKept
<1>5. disk'[k].st = st
  BY <1>1, <1>3, DiskRow
<1>6. HeldOK(p)'
  BY <1>3, <1>5 DEF HeldOK, Grows, New
<1>7. proc'[p] # Idle
  BY IdleRow
<1>8. LockOK'
  BY <1>1, <1>6, <1>7, LockMoves
<1>9. QED
  BY <1>4, <1>8 DEF Inv

LEMMA PlainThen ==
    ASSUME NEW p \in Proc, EffectOK(p), UNCHANGED <<config, world>>, K(p)' = K(p),
           proc'[p].e = proc[p].e, proc'[p].pc = "sync",
           proc'[p].then \notin {"effect", "sync_file", "inspect", "mark"}
    PROVE  EffectOK(p)'
<1>1. Stage(p)' = proc'[p].then
  BY DEF Stage
<1>2. QED
  BY <1>1 DEF EffectOK

LEMMA PublishStateStep ==
    ASSUME Inv, NEW p \in Proc, PublishState(p)
    PROVE  Inv'
<1>0. /\ proc[p].pc = "state" /\ lock' = lock /\ UNCHANGED <<durable, config, world, synced, off, wire, invite>>
  BY DEF PublishState, shared, places, server
<1>1. /\ HeldOK(p) /\ EffectOK(p) /\ TypeOK /\ Kept /\ K(p) \in Key
  BY <1>0, Active
<1>2. disk[K(p)].st = NoState
  BY <1>0, <1>1 DEF HeldOK, New
<1>3. PICK n \in FreshIds : Persist(p, [NoState EXCEPT !.eid = n, !.stage = "prepared"], "plan")
  BY DEF PublishState
<1>4. n \in Nat \ {0}
  BY OnboardingAssumption DEF FreshIds
<1>5. PICK st \in State : /\ st = [NoState EXCEPT !.eid = n, !.stage = "prepared"]
                          /\ st.eid = n /\ st.acts = NoState.acts
  <2>1. NoState \in State
    BY DEF NoState, State, Mark
  <2>2. [NoState EXCEPT !.eid = n, !.stage = "prepared"] \in State
    BY <1>4, <2>1 DEF State
  <2>3. /\ [NoState EXCEPT !.eid = n, !.stage = "prepared"].eid = n
        /\ [NoState EXCEPT !.eid = n, !.stage = "prepared"].acts = NoState.acts
    BY <2>1 DEF State
  <2>4. QED
    BY <2>2, <2>3
<1>6. PICK pc \in Step : pc = "plan" /\ pc \in Ahead
  BY DEF Step, Late, Ahead
<1>7. disk' = [disk EXCEPT ![K(p)].st = st] /\ proc' = [proc EXCEPT ![p].pc = "sync", ![p].then = pc]
  BY <1>3, <1>5, <1>6 DEF Persist
<1>8. Grows(K(p), st)
  <2>1. NoState.eid = 0
    BY DEF NoState
  <2>2. QED
    BY <1>2, <1>4, <1>5, <2>1, NothingAnnounced DEF Grows, Status
<1>9. /\ proc' \in [Proc -> Row] /\ \A q \in Proc \ {p} : proc'[q] = proc[q]
      /\ K(p)' = K(p) /\ proc'[p].pc = "sync" /\ proc'[p].e = proc[p].e /\ proc'[p].then = pc
  BY <1>1, <1>7, SyncRow
<1>10. EffectOK(p)'
  BY <1>0, <1>1, <1>6, <1>9, PlainThen
<1>11. QED
  BY <1>0, <1>6, <1>7, <1>8, <1>9, <1>10, PersistStep

\* A journal of which only the stage changes says what it said.
LEMMA StageStep ==
    ASSUME Inv, NEW p \in Proc, Enrolled(p) \/ MarkConfigured(p)
    PROVE  Inv'
<1>0. /\ proc[p].pc \in {"answered", "finish"} /\ UNCHANGED <<durable, config, world, synced, off, wire, invite>>
  BY DEF Enrolled, MarkConfigured, shared, places, server
<1>1. /\ HeldOK(p) /\ EffectOK(p) /\ TypeOK /\ Kept /\ K(p) \in Key /\ disk[K(p)].st \in State
      /\ proc[p] # Idle
  BY <1>0, Active
<1>2. disk[K(p)].st.eid # 0
  BY <1>0, <1>1 DEF HeldOK, Late, Ahead
<1>3. ASSUME NEW stage \in {"enrolled", "configured"}, NEW pc \in {"publish", "done"}, UNCHANGED lock,
             Persist(p, [disk[K(p)].st EXCEPT !.stage = stage], pc)
      PROVE  Inv'
  <2>1. PICK st \in State : /\ st = [disk[K(p)].st EXCEPT !.stage = stage]
                            /\ st.eid = disk[K(p)].st.eid /\ st.acts = disk[K(p)].st.acts
    <3>1. [disk[K(p)].st EXCEPT !.stage = stage] \in State
      BY <1>1 DEF State
    <3>2. /\ [disk[K(p)].st EXCEPT !.stage = stage].eid = disk[K(p)].st.eid
          /\ [disk[K(p)].st EXCEPT !.stage = stage].acts = disk[K(p)].st.acts
      BY <1>1 DEF State
    <3>3. QED
      BY <3>1, <3>2
  <2>2. pc \in Step /\ pc \in Ahead
    BY DEF Step, Late, Ahead
  <2>3. disk' = [disk EXCEPT ![K(p)].st = st] /\ proc' = [proc EXCEPT ![p].pc = "sync", ![p].then = pc]
    BY <1>3, <2>1 DEF Persist
  <2>4. \A e \in Name : Status(K(p), e) # "none" => world[At(K(p), e)] # "theirs"
    BY <1>1 DEF Kept, WorldOK
  <2>5. Grows(K(p), st)
    BY <1>2, <2>1, <2>4 DEF Grows, Status
  <2>6. /\ proc' \in [Proc -> Row] /\ \A q \in Proc \ {p} : proc'[q] = proc[q]
        /\ K(p)' = K(p) /\ proc'[p].pc = "sync" /\ proc'[p].e = proc[p].e /\ proc'[p].then = pc
    BY <1>1, <2>2, <2>3, SyncRow
  <2>7. EffectOK(p)'
    BY <1>0, <1>1, <2>6, PlainThen
  <2>8. QED
    BY <1>0, <1>3, <2>2, <2>3, <2>5, <2>6, <2>7, PersistStep
<1>4. CASE Enrolled(p)
  BY <1>3, <1>4 DEF Enrolled
<1>5. CASE MarkConfigured(p)
  <2>1. CASE Return(p) /\ UNCHANGED disk
    BY <1>0, <1>1, <2>1, ReturnStep DEF still
  <2>2. QED
    BY <1>3, <1>5, <2>1 DEF MarkConfigured
<1>6. QED
  BY <1>4, <1>5

LEMMA MarkedRow ==
    ASSUME NEW k \in Key, disk[k].st \in State, NEW e \in Name, NEW m \in Mark
    PROVE  \E st \in State : /\ st = Marked(k, e, m) /\ st.eid = disk[k].st.eid /\ st.acts[e] = m
                             /\ \A f \in Name \ {e} : st.acts[f] = Status(k, f)
<1> DEFINE acts == [disk[k].st.acts EXCEPT ![e] = m]
<1>1. disk[k].st.acts \in [Name -> Mark]
  BY DEF State
<1>2. acts \in [Name -> Mark] /\ acts[e] = m /\ \A f \in Name \ {e} : acts[f] = disk[k].st.acts[f]
  BY <1>1
<1>3. Marked(k, e, m) = [disk[k].st EXCEPT !.acts = acts]
  BY DEF Marked
<1> HIDE DEF acts
<1>4. [disk[k].st EXCEPT !.acts = acts] \in State
  BY <1>2 DEF State
<1>5. /\ [disk[k].st EXCEPT !.acts = acts].eid = disk[k].st.eid
      /\ [disk[k].st EXCEPT !.acts = acts].acts = acts
  BY DEF State
<1>6. QED
  BY <1>2, <1>3, <1>4, <1>5 DEF Status

\* What an accepted entry is.
LEMMA Accepted ==
    ASSUME Kept, NEW k \in Key, NEW e \in Name, Accept(k, e)
    PROVE  world[At(k, e)] # "other" /\ (Status(k, e) = "none" => world[At(k, e)] \in {"absent", "gone"})
<1>1. Exact(k, e) => world[At(k, e)] # "other"
  BY Words DEF Exact
<1>2. At(k, e) \in off => world[At(k, e)] # "other"
  BY Words DEF Kept, WorldOK
<1>3. Absent(k, e) <=> world[At(k, e)] \in {"absent", "gone"}
  BY DEF Absent
<1>4. \/ Absent(k, e)
      \/ Exact(k, e) /\ Status(k, e) # "none"
      \/ At(k, e) \in off /\ Status(k, e) = "planned"
  BY DEF Accept, CheckFile, AcceptRegistration
<1>5. QED
  BY <1>1, <1>2, <1>3, <1>4

LEMMA PlanEffectStep ==
    ASSUME Inv, NEW p \in Proc, PlanEffect(p)
    PROVE  Inv'
<1>0. /\ proc[p].pc = "plan" /\ UNCHANGED <<durable, config, world, synced, off, wire, invite>>
  BY DEF PlanEffect, shared, places, server
<1>1. /\ HeldOK(p) /\ EffectOK(p) /\ TypeOK /\ Kept /\ K(p) \in Key /\ disk[K(p)].st \in State
      /\ proc[p] # Idle /\ proc[p].e \in Name
  BY <1>0, Active
<1>2. disk[K(p)].st.eid # 0
  BY <1>0, <1>1 DEF HeldOK, Late, Ahead
<1>3. PICK k \in Key, e \in Name : k = K(p) /\ e = proc[p].e
  BY <1>1
<1>4. PICK pc \in Step : pc = "effect" /\ pc \in Ahead /\ pc \notin New
  BY DEF Step, Late, Ahead, New
<1>5. /\ e # "receipt" => config.bound[ProviderOf[k]] = k
      /\ e \in Elem(k) \cup {"receipt", "enable"}
      /\ e = "enable" => "link" \in Elem(k) /\ world[At(k, "link")] = k
  BY <1>1, <1>3 DEF EffectOK
<1>6. e \in {"receipt", "enable"} \/ Accept(k, e) =>
         /\ e \notin {"file", "enable"} => world[At(k, e)] # "other"
         /\ Status(k, e) = "none" => world[At(k, e)] # "theirs"
  BY <1>1, Accepted, Words DEF Kept, WorldOK
\* What the effect needs, once the row and the journal are as they will be.
<1>7. ASSUME e \in {"receipt", "enable"} \/ Accept(k, e), K(p)' = k, proc'[p].e = e, Stage(p)' = "effect",
             proc'[p].pc \in {"sync", "effect"}, Status(k, e)' # "none"
      PROVE  EffectOK(p)'
  BY <1>0, <1>5, <1>6, <1>7 DEF EffectOK
<1>8. CASE Return(p) /\ UNCHANGED disk
  BY <1>0, <1>1, <1>8, ReturnStep DEF still
<1>9. CASE /\ e \in {"receipt", "enable"} \/ Accept(k, e)
           /\ Status(k, e) # "none" /\ Goto(p, "effect") /\ UNCHANGED disk /\ UNCHANGED lock
  <2>1. /\ proc' \in [Proc -> Row] /\ \A q \in Proc \ {p} : proc'[q] = proc[q]
        /\ K(p)' = K(p) /\ proc'[p].pc = pc /\ proc'[p].e = proc[p].e
    BY <1>1, <1>4, <1>9, GotoRow
  <2>2. Stage(p)' = "effect" /\ Status(k, e)' # "none"
    BY <1>4, <1>9, <2>1 DEF Stage, Status
  <2>3. EffectOK(p)'
    BY <1>3, <1>4, <1>7, <1>9, <2>1, <2>2
  <2>4. UNCHANGED still
    BY <1>0, <1>9 DEF still
  <2>5. QED
    BY <1>0, <1>1, <1>2, <1>4, <1>9, <2>1, <2>3, <2>4, WalkStep
<1>10. CASE /\ e \in {"receipt", "enable"} \/ Accept(k, e)
            /\ Status(k, e) = "none" /\ Persist(p, Marked(k, e, "planned"), "effect") /\ UNCHANGED lock
  <2>1. PICK st \in State : /\ st = Marked(k, e, "planned") /\ st.eid = disk[k].st.eid /\ st.acts[e] = "planned"
                            /\ \A f \in Name \ {e} : st.acts[f] = Status(k, f)
    <3>1. PICK m \in Mark : m = "planned"
      BY DEF Mark
    <3>2. QED
      BY <1>1, <1>3, <3>1, MarkedRow
  <2>2. disk' = [disk EXCEPT ![k].st = st] /\ proc' = [proc EXCEPT ![p].pc = "sync", ![p].then = pc]
    BY <1>3, <1>4, <1>10, <2>1 DEF Persist
  <2>3. Grows(k, st)
    <3>1. \A f \in Name : Status(k, f) # "none" => world[At(k, f)] # "theirs"
      BY <1>1 DEF Kept, WorldOK
    <3>2. QED
      BY <1>2, <1>3, <1>5, <1>6, <1>10, <2>1, <3>1 DEF Grows
  <2>4. /\ proc' \in [Proc -> Row] /\ \A q \in Proc \ {p} : proc'[q] = proc[q]
        /\ K(p)' = K(p) /\ proc'[p].pc = "sync" /\ proc'[p].e = proc[p].e /\ proc'[p].then = pc
    BY <1>1, <2>2, SyncRow
  <2>5. disk'[k].st = st
    BY <1>1, <2>2, DiskRow
  <2>6. Stage(p)' = "effect" /\ Status(k, e)' # "none"
    BY <1>4, <2>1, <2>4, <2>5 DEF Stage, Status
  <2>7. EffectOK(p)'
    BY <1>3, <1>7, <1>10, <2>4, <2>6
  <2>8. QED
    BY <1>0, <1>3, <1>4, <1>10, <2>2, <2>3, <2>4, <2>7, PersistStep
<1>11. QED
  BY <1>3, <1>8, <1>9, <1>10 DEF PlanEffect

LEMMA MarkAppliedStep ==
    ASSUME Inv, NEW p \in Proc, MarkApplied(p)
    PROVE  Inv'
<1>0. /\ proc[p].pc = "mark" /\ UNCHANGED <<durable, config, world, synced, off, wire, invite>> /\ lock' = lock
  BY DEF MarkApplied, shared, places, server
<1>1. /\ HeldOK(p) /\ EffectOK(p) /\ TypeOK /\ Kept /\ K(p) \in Key /\ disk[K(p)].st \in State
      /\ proc[p] # Idle /\ proc[p].e \in Name
  BY <1>0, Active
<1>2. disk[K(p)].st.eid # 0
  BY <1>0, <1>1 DEF HeldOK, Late, Ahead
<1>3. PICK k \in Key, e \in Name : k = K(p) /\ e = proc[p].e
  BY <1>1
<1>4. /\ e # "receipt" => config.bound[ProviderOf[k]] = k
      /\ e \in Elem(k) \cup {"receipt", "enable"}
      /\ e = "enable" => "link" \in Elem(k) /\ world[At(k, "link")] = k
      /\ e # "enable" => world[At(k, e)] = k
      /\ IsFile(e) => At(k, e) \in synced
  BY <1>0, <1>1, <1>3 DEF EffectOK, Stage
<1>5. PICK pc \in Ahead \cup {"probe"}, f \in Name :
        /\ disk' = [disk EXCEPT ![k].st = Marked(k, e, "applied")]
        /\ proc' = [proc EXCEPT ![p].pc = "sync", ![p].then = pc, ![p].e = f]
        /\ \/ f = "receipt" /\ pc \in {"preflight", "probe"}
           \/ e = "enable" /\ f = "link" /\ pc = "mark"
           \/ e \notin {"enable", "receipt"} /\ f \in Elem(k) \cup {"receipt"} /\ pc \in {"finish", "plan"}
  <2> DEFINE pc == CASE e = "receipt" -> IF proc[p].route THEN "preflight" ELSE "probe"
                     [] e = "own" -> "finish"
                     [] e = "enable" -> "mark" [] OTHER -> "plan"
             f == CASE e = "receipt" -> e [] e = "enable" -> "link" [] OTHER -> Following(k, e)
  <2>1. /\ disk' = [disk EXCEPT ![k].st = Marked(k, e, "applied")]
        /\ proc' = [proc EXCEPT ![p].pc = "sync", ![p].then = pc, ![p].e = f]
    BY <1>3 DEF MarkApplied
  <2>2. CASE e = "receipt"
    <3>1. f = "receipt" /\ pc \in {"preflight", "probe"}
      BY <2>2
    <3>2. f \in Name /\ pc \in Ahead \cup {"probe"}
      BY <3>1 DEF Name, Ahead
    <3> HIDE DEF f, pc
    <3>3. QED
      BY <2>1, <3>1, <3>2
  <2>3. CASE e = "enable"
    <3>1. f = "link" /\ pc = "mark"
      BY <2>3
    <3>2. f \in Name /\ pc \in Ahead \cup {"probe"}
      BY <3>1 DEF Name, Ahead
    <3> HIDE DEF f, pc
    <3>3. QED
      BY <2>1, <2>3, <3>1, <3>2
  <2>4. CASE e \notin {"receipt", "enable"}
    <3>1. f = Following(k, e) /\ pc \in {"finish", "plan"}
      BY <2>4
    <3>2. Following(k, e) \in Elem(k) \cup {"receipt"}
      BY <1>4, <2>4, FollowingElem
    <3>3. Following(k, e) \in Name
      BY <3>2, EffectsNames DEF Name
    <3>4. pc \in Ahead \cup {"probe"}
      BY <3>1 DEF Ahead
    <3> HIDE DEF f, pc
    <3>5. QED
      BY <2>1, <2>4, <3>1, <3>2, <3>3, <3>4
  <2>5. QED
    BY <2>2, <2>3, <2>4
<1>6. PICK st \in State : /\ st = Marked(k, e, "applied") /\ st.eid = disk[k].st.eid /\ st.acts[e] = "applied"
                          /\ \A g \in Name \ {e} : st.acts[g] = Status(k, g)
  <2>1. PICK m \in Mark : m = "applied"
    BY DEF Mark
  <2>2. QED
    BY <1>1, <1>3, <2>1, MarkedRow
<1>7. Grows(k, st)
  <2>1. \A g \in Name : Status(k, g) # "none" => world[At(k, g)] # "theirs"
    BY <1>1 DEF Kept, WorldOK
  <2>2. world[At(k, e)] # "theirs"
    BY <1>1, <1>4, Words DEF Kept, WorldOK
  <2>3. QED
    BY <1>2, <1>3, <1>4, <1>6, <2>1, <2>2 DEF Grows
<1>8. /\ proc' \in [Proc -> Row] /\ \A q \in Proc \ {p} : proc'[q] = proc[q]
      /\ K(p)' = K(p) /\ proc'[p].pc = "sync" /\ proc'[p].e = f /\ proc'[p].then = pc
  <2>1. pc \in Step
    BY DEF Step, Late
  <2>2. QED
    BY <1>1, <1>5, <2>1, SyncEffectRow
<1>9. EffectOK(p)'
  <2>1. Stage(p)' = pc /\ ~IsFile("link")
    BY <1>8 DEF Stage, IsFile
  <2>2. CASE f = "receipt" /\ pc \in {"preflight", "probe"}
    BY <1>0, <1>3, <1>8, <2>1, <2>2 DEF EffectOK
  <2>3. CASE e = "enable" /\ f = "link" /\ pc = "mark"
    BY <1>0, <1>3, <1>4, <1>8, <2>1, <2>3 DEF EffectOK
  <2>4. CASE e \notin {"enable", "receipt"} /\ f \in Elem(k) \cup {"receipt"} /\ pc \in {"finish", "plan"}
    <3>1. f # "enable"
      BY <2>4, EffectsNames
    <3>2. QED
      BY <1>0, <1>3, <1>4, <1>8, <2>1, <2>4, <3>1 DEF EffectOK
  <2>5. QED
    BY <1>5, <2>2, <2>3, <2>4
<1>10. QED
  BY <1>0, <1>3, <1>5, <1>6, <1>7, <1>8, <1>9, PersistStep

\* What is on disk becomes durable.
CatchesUp(k) ==
    /\ disk' \in [Key -> [cred : Nat, temp : BOOLEAN, st : State]]
    /\ \A j \in Key : disk'[j].st = disk[j].st /\ disk'[j].cred = disk[j].cred
    /\ durable' = [durable EXCEPT ![k] = [cred |-> disk[k].cred, st |-> disk[k].st]]

LEMMA CatchesUpKept ==
    ASSUME TypeOK, Kept, NEW k \in Key, CatchesUp(k), UNCHANGED <<config, world, synced, off, wire, invite>>
    PROVE  (proc' \in [Proc -> Row] => TypeOK') /\ Kept' /\ durable'[k].st = disk'[k].st
<1>0. /\ disk' \in [Key -> [cred : Nat, temp : BOOLEAN, st : State]]
      /\ \A j \in Key : disk'[j].st = disk[j].st /\ disk'[j].cred = disk[j].cred
  BY DEF CatchesUp
<1>1. disk[k] \in [cred : Nat, temp : BOOLEAN, st : State]
  BY DEF TypeOK
<1>2. PICK row \in [cred : Nat, st : State] :
        row = [cred |-> disk[k].cred, st |-> disk[k].st] /\ row.cred = disk[k].cred /\ row.st = disk[k].st
  <2>1. [cred |-> disk[k].cred, st |-> disk[k].st] \in [cred : Nat, st : State]
    BY <1>1
  <2>2. QED
    BY <2>1
<1>3. /\ durable' \in [Key -> [cred : Nat, st : State]]
      /\ durable'[k].cred = disk[k].cred /\ durable'[k].st = disk[k].st
      /\ \A j \in Key \ {k} : durable'[j] = durable[j]
  BY <1>2 DEF TypeOK, CatchesUp
<1>4. proc' \in [Proc -> Row] => TypeOK'
  BY <1>0, <1>3 DEF TypeOK
<1>5. JournalOK'
  <2>1. ASSUME NEW j \in Key
        PROVE  /\ disk'[j].st.eid = 0 => disk'[j].st = NoState
               /\ durable'[j].st.eid = 0 => durable'[j].st = NoState
               /\ durable'[j].st.eid # 0 => disk'[j].st.eid = durable'[j].st.eid /\ disk'[j].cred = durable'[j].cred
               /\ \A e \in Name : /\ durable'[j].st.acts[e] # "none" => disk'[j].st.acts[e] # "none"
                                  /\ durable'[j].st.acts[e] = "applied" => disk'[j].st.acts[e] = "applied"
    <3>1. CASE j = k
      BY <1>0, <1>3, <3>1 DEF Kept, JournalOK
    <3>2. CASE j # k
      BY <1>0, <1>3, <3>2 DEF Kept, JournalOK
    <3>3. QED
      BY <3>1, <3>2
  <2>2. QED
    BY <2>1 DEF JournalOK
\* A durable identity stays as it was.
<1>6. \A j \in Key : durable[j].st.eid # 0 =>
         /\ durable'[j].st.eid = durable[j].st.eid /\ durable'[j].cred = durable[j].cred
  BY <1>3 DEF Kept, JournalOK
<1>7. WireOK'
  <2>1. ASSUME NEW r \in wire PROVE r.eid # 0 /\ durable'[r.k].st.eid = r.eid /\ durable'[r.k].cred = r.cid
    <3>1. r.k \in Key
      BY DEF TypeOK
    <3>2. QED
      BY <1>6, <3>1 DEF Kept, WireOK
  <2>2. QED
    BY <2>1 DEF WireOK
<1>8. IdentityIsKept'
  <2>1. ASSUME NEW i \in Invite, invite[i].eid # 0
        PROVE  \E j \in Key : /\ InviteOf[j] = i
                              /\ durable'[j].cred = invite[i].cid /\ disk'[j].cred = invite[i].cid
                              /\ durable'[j].st.eid = invite[i].eid /\ disk'[j].st.eid = invite[i].eid
    <3>1. PICK j \in Key : /\ InviteOf[j] = i
                           /\ durable[j].cred = invite[i].cid /\ disk[j].cred = invite[i].cid
                           /\ durable[j].st.eid = invite[i].eid /\ disk[j].st.eid = invite[i].eid
      BY <2>1 DEF Kept, IdentityIsKept
    <3>2. QED
      BY <1>0, <1>6, <2>1, <3>1
  <2>2. QED
    BY <2>1 DEF IdentityIsKept
<1>9. \A j \in Key, e \in Name : Status(j, e)' = Status(j, e)
  BY <1>0 DEF Status
<1>10. BoundOK' /\ WorldOK' /\ AppliedWasMade'
  BY <1>9 DEF Kept, BoundOK, WorldOK, AppliedWasMade, Status
<1>11. IntentIsDurable'
  <2>1. \A j \in Key, e \in Name : durable[j].st.acts[e] # "none" => durable'[j].st.acts[e] # "none"
    BY <1>3 DEF Kept, JournalOK
  <2>2. QED
    BY <2>1 DEF Kept, IntentIsDurable
<1>12. QED
  BY <1>0, <1>3, <1>4, <1>5, <1>7, <1>8, <1>10, <1>11 DEF Kept

LEMMA SyncJournalStep ==
    ASSUME Inv, NEW p \in Proc, SyncJournal(p)
    PROVE  Inv'
<1>0. /\ proc[p].pc = "sync" /\ lock' = lock /\ UNCHANGED <<disk, config, world, synced, off, wire, invite>>
  BY DEF SyncJournal, shared, places, server
<1>1. /\ HeldOK(p) /\ EffectOK(p) /\ TypeOK /\ Kept /\ LockOK /\ K(p) \in Key /\ lock = p
  BY <1>0, Active
<1>2. PICK k \in Key : k = K(p)
  BY <1>1
<1>3. CatchesUp(k)
  BY <1>0, <1>1, <1>2 DEF CatchesUp, SyncJournal, TypeOK
<1>4. PICK pc \in Ahead \cup {"probe"} : pc = proc[p].then /\ disk[k].st.eid # 0
  BY <1>0, <1>1, <1>2 DEF HeldOK, Late
<1>5. pc \in Step /\ pc \notin New /\ pc \notin {"idle", "sync", "unlink_config", "recheck"}
  BY DEF Step, Late, Ahead, New
<1>6. /\ proc' \in [Proc -> Row] /\ \A q \in Proc \ {p} : proc'[q] = proc[q]
      /\ K(p)' = K(p) /\ proc'[p].pc = pc /\ proc'[p].e = proc[p].e
  <2>1. Goto(p, pc)
    BY <1>4 DEF SyncJournal
  <2>2. QED
    BY <1>1, <1>5, <2>1, GotoRow
<1>7. TypeOK' /\ Kept' /\ durable'[k].st = disk'[k].st
  BY <1>0, <1>1, <1>3, <1>6, CatchesUpKept
<1>8. HeldOK(p)'
  BY <1>0, <1>2, <1>4, <1>5, <1>6, <1>7 DEF HeldOK
<1>9. EffectOK(p)'
  <2>1. Stage(p)' = Stage(p)
    BY <1>0, <1>4, <1>5, <1>6 DEF Stage
  <2>2. Status(k, proc[p].e)' = Status(k, proc[p].e)
    BY <1>0, <1>6 DEF Status
  <2>3. QED
    BY <1>0, <1>1, <1>2, <1>5, <1>6, <2>1, <2>2 DEF EffectOK, Status
<1>10. proc'[p] # Idle
  BY <1>5, <1>6, IdleRow
<1>11. LockOK'
  BY <1>0, <1>1, <1>6, <1>8, <1>9, <1>10, LockMoves
<1>12. QED
  BY <1>7, <1>11 DEF Inv

\* The temporary link of a credential comes and goes.
LEMMA TempRow ==
    ASSUME TypeOK, NEW k \in Key, disk' = [disk EXCEPT ![k].temp = FALSE]
    PROVE  /\ disk' \in [Key -> [cred : Nat, temp : BOOLEAN, st : State]]
           /\ \A j \in Key : disk'[j].st = disk[j].st /\ disk'[j].cred = disk[j].cred
<1>1. disk[k] \in [cred : Nat, temp : BOOLEAN, st : State]
  BY DEF TypeOK
<1>2. PICK row \in [cred : Nat, temp : BOOLEAN, st : State] :
           row = [disk[k] EXCEPT !.temp = FALSE] /\ row.st = disk[k].st /\ row.cred = disk[k].cred
  <2>1. [disk[k] EXCEPT !.temp = FALSE] \in [cred : Nat, temp : BOOLEAN, st : State]
    BY <1>1
  <2>2. [disk[k] EXCEPT !.temp = FALSE].st = disk[k].st /\ [disk[k] EXCEPT !.temp = FALSE].cred = disk[k].cred
    BY <1>1
  <2>3. QED
    BY <2>1, <2>2
<1>3. disk' = [disk EXCEPT ![k] = row]
  BY <1>2
<1>4. disk' \in [Key -> [cred : Nat, temp : BOOLEAN, st : State]] /\ disk'[k] = row
      /\ \A j \in Key \ {k} : disk'[j] = disk[j]
  BY <1>3 DEF TypeOK
<1>5. QED
  BY <1>2, <1>4

LEMMA ResumeStep ==
    ASSUME Inv, NEW p \in Proc, NEW k \in Key, Resume(p, k)
    PROVE  Inv'
<1>1. /\ lock = None /\ lock' = p /\ UNCHANGED <<config, world, synced, off, wire, invite>>
      /\ proc' = [proc EXCEPT ![p] = [Idle EXCEPT !.pc = "bind", !.k = k]]
      /\ disk' = [disk EXCEPT ![k].temp = FALSE]
      /\ durable' = [durable EXCEPT ![k] = [cred |-> disk[k].cred, st |-> disk[k].st]]
  BY DEF Resume, Load, RecoverCredential, shared, places, server
<1>2. TypeOK /\ LockOK /\ Kept
  BY DEF Inv
<1>3. CatchesUp(k)
  BY <1>1, <1>2, TempRow DEF CatchesUp
<1>4. (proc' \in [Proc -> Row] => TypeOK') /\ Kept' /\ durable'[k].st = disk'[k].st
  BY <1>1, <1>2, <1>3, CatchesUpKept
<1>5. LockOK' /\ proc' \in [Proc -> Row]
  BY <1>1, <1>2, <1>4, Begins
<1>6. QED
  BY <1>4, <1>5 DEF Inv

\* Without a journal the credential is nobody's yet.
LEMMA CredentialKept ==
    ASSUME TypeOK, Kept, NEW k \in Key, durable[k].st.eid = 0,
           disk' \in [Key -> [cred : Nat, temp : BOOLEAN, st : State]],
           durable' \in [Key -> [cred : Nat, st : State]],
           \A j \in Key : disk'[j].st = disk[j].st /\ durable'[j].st = durable[j].st,
           \A j \in Key \ {k} : disk'[j].cred = disk[j].cred /\ durable'[j].cred = durable[j].cred,
           UNCHANGED <<config, world, synced, off, wire, invite>>
    PROVE  (proc' \in [Proc -> Row] => TypeOK') /\ Kept'
<1>1. proc' \in [Proc -> Row] => TypeOK'
  BY DEF TypeOK
<1>2. JournalOK'
  BY DEF Kept, JournalOK
<1>3. WireOK'
  <2>1. ASSUME NEW r \in wire PROVE r.eid # 0 /\ durable'[r.k].st.eid = r.eid /\ durable'[r.k].cred = r.cid
    <3>1. r.k \in Key
      BY DEF TypeOK
    <3>2. QED
      BY <3>1 DEF Kept, WireOK
  <2>2. QED
    BY <2>1 DEF WireOK
<1>4. IdentityIsKept'
  <2>1. ASSUME NEW i \in Invite, invite[i].eid # 0
        PROVE  \E j \in Key : /\ InviteOf[j] = i
                              /\ durable'[j].cred = invite[i].cid /\ disk'[j].cred = invite[i].cid
                              /\ durable'[j].st.eid = invite[i].eid /\ disk'[j].st.eid = invite[i].eid
    <3>1. PICK j \in Key : /\ InviteOf[j] = i
                           /\ durable[j].cred = invite[i].cid /\ disk[j].cred = invite[i].cid
                           /\ durable[j].st.eid = invite[i].eid /\ disk[j].st.eid = invite[i].eid
      BY <2>1 DEF Kept, IdentityIsKept
    <3>2. j # k
      BY <2>1, <3>1
    <3>3. QED
      BY <3>1, <3>2
  <2>2. QED
    BY <2>1 DEF IdentityIsKept
<1>5. \A j \in Key, e \in Name : Status(j, e)' = Status(j, e)
  BY DEF Status
<1>6. BoundOK' /\ WorldOK' /\ AppliedWasMade'
  BY <1>5 DEF Kept, BoundOK, WorldOK, AppliedWasMade, Status
<1>7. IntentIsDurable'
  BY DEF Kept, IntentIsDurable
<1>8. QED
  BY <1>1, <1>2, <1>3, <1>4, <1>6, <1>7 DEF Kept

LEMMA DurableCredRow ==
    ASSUME TypeOK, NEW k \in Key, durable' = [durable EXCEPT ![k].cred = disk[k].cred]
    PROVE  /\ durable' \in [Key -> [cred : Nat, st : State]]
           /\ \A j \in Key : durable'[j].st = durable[j].st
           /\ \A j \in Key \ {k} : durable'[j] = durable[j]
<1>1. durable[k] \in [cred : Nat, st : State] /\ disk[k].cred \in Nat
  BY DEF TypeOK
<1>2. PICK row \in [cred : Nat, st : State] : row = [durable[k] EXCEPT !.cred = disk[k].cred] /\ row.st = durable[k].st
  <2>1. [durable[k] EXCEPT !.cred = disk[k].cred] \in [cred : Nat, st : State]
    BY <1>1
  <2>2. [durable[k] EXCEPT !.cred = disk[k].cred].st = durable[k].st
    BY <1>1
  <2>3. QED
    BY <2>1, <2>2
<1>3. durable' = [durable EXCEPT ![k] = row]
  BY <1>2
<1>4. durable' \in [Key -> [cred : Nat, st : State]] /\ durable'[k] = row
      /\ \A j \in Key \ {k} : durable'[j] = durable[j]
  BY <1>3 DEF TypeOK
<1>5. QED
  BY <1>2, <1>4

LEMMA FreshCredRow ==
    ASSUME TypeOK, NEW k \in Key, NEW n \in Nat, disk' = [disk EXCEPT ![k].cred = n, ![k].temp = TRUE]
    PROVE  /\ disk' \in [Key -> [cred : Nat, temp : BOOLEAN, st : State]]
           /\ \A j \in Key : disk'[j].st = disk[j].st
           /\ \A j \in Key \ {k} : disk'[j] = disk[j]
<1>1. disk[k] \in [cred : Nat, temp : BOOLEAN, st : State]
  BY DEF TypeOK
<1>2. PICK row \in [cred : Nat, temp : BOOLEAN, st : State] :
           row = [disk[k] EXCEPT !.cred = n, !.temp = TRUE] /\ row.st = disk[k].st
  <2>1. [disk[k] EXCEPT !.cred = n, !.temp = TRUE] \in [cred : Nat, temp : BOOLEAN, st : State]
    BY <1>1
  <2>2. [disk[k] EXCEPT !.cred = n, !.temp = TRUE].st = disk[k].st
    BY <1>1
  <2>3. QED
    BY <2>1, <2>2
<1>3. disk' = [disk EXCEPT ![k] = row]
  BY <1>2 DEF TypeOK
<1>4. disk' \in [Key -> [cred : Nat, temp : BOOLEAN, st : State]] /\ disk'[k] = row
      /\ \A j \in Key \ {k} : disk'[j] = disk[j]
  BY <1>3 DEF TypeOK
<1>5. QED
  BY <1>2, <1>4

LEMMA CredentialStep ==
    ASSUME Inv, NEW p \in Proc, Prepare(p) \/ WriteCredential(p)
    PROVE  Inv'
<1>0. /\ proc[p].pc \in {"prepare", "credential"} /\ lock' = lock /\ UNCHANGED <<config, world, synced, off, wire, invite>>
  BY DEF Prepare, WriteCredential, shared, places, server
<1>1. /\ HeldOK(p) /\ EffectOK(p) /\ TypeOK /\ Kept /\ LockOK /\ K(p) \in Key /\ lock = p
  BY <1>0, Active
<1>2. PICK k \in Key : k = K(p) /\ disk[k].st = NoState /\ durable[k].st = NoState
  BY <1>0, <1>1 DEF HeldOK, New
<1>3. NoState.eid = 0
  BY DEF NoState
<1>4. /\ disk' \in [Key -> [cred : Nat, temp : BOOLEAN, st : State]]
      /\ \A j \in Key : disk'[j].st = disk[j].st
      /\ \A j \in Key \ {k} : disk'[j].cred = disk[j].cred
  <2>1. CASE disk' = [disk EXCEPT ![k].temp = FALSE]
    BY <1>1, <2>1, TempRow
  <2>2. ASSUME NEW n \in FreshIds, disk' = [disk EXCEPT ![k].cred = n, ![k].temp = TRUE]
        PROVE  /\ disk' \in [Key -> [cred : Nat, temp : BOOLEAN, st : State]]
               /\ \A j \in Key : disk'[j].st = disk[j].st
               /\ \A j \in Key \ {k} : disk'[j].cred = disk[j].cred
    <3>1. n \in Nat
      BY OnboardingAssumption DEF FreshIds
    <3>2. QED
      BY <1>1, <2>2, <3>1, FreshCredRow
  <2>3. QED
    BY <1>2, <2>1, <2>2 DEF Prepare, WriteCredential, RecoverCredential
<1>5. /\ durable' \in [Key -> [cred : Nat, st : State]]
      /\ \A j \in Key : durable'[j].st = durable[j].st
      /\ \A j \in Key \ {k} : durable'[j].cred = durable[j].cred
  <2>1. CASE durable' = [durable EXCEPT ![k].cred = disk[k].cred]
    BY <1>1, <2>1, DurableCredRow
  <2>2. CASE durable' = durable
    BY <1>1, <2>2 DEF TypeOK
  <2>3. QED
    BY <1>2, <2>1, <2>2 DEF Prepare, WriteCredential
<1>6. PICK pc \in {"state", "credential"} : Goto(p, pc)
  BY DEF Prepare, WriteCredential
<1>7. pc \in Step /\ pc \in New /\ pc \notin Late /\ pc \notin {"idle", "sync"}
      /\ pc \notin {"effect", "sync_file", "inspect", "mark", "unlink_config", "recheck"}
  BY DEF Step, Late, Ahead, New
<1>8. /\ proc' \in [Proc -> Row] /\ \A q \in Proc \ {p} : proc'[q] = proc[q]
      /\ K(p)' = K(p) /\ proc'[p].pc = pc /\ proc'[p].e = proc[p].e
  BY <1>1, <1>6, <1>7, GotoRow
<1>9. TypeOK' /\ Kept'
  BY <1>0, <1>1, <1>2, <1>3, <1>4, <1>5, <1>8, CredentialKept
<1>10. HeldOK(p)'
  BY <1>2, <1>4, <1>5, <1>7, <1>8 DEF HeldOK
<1>11. EffectOK(p)'
  <2>1. Stage(p)' = pc
    BY <1>7, <1>8 DEF Stage
  <2>2. QED
    BY <1>0, <1>1, <1>7, <1>8, <2>1 DEF EffectOK
<1>12. proc'[p] # Idle
  BY <1>7, <1>8, IdleRow
<1>13. LockOK'
  BY <1>0, <1>1, <1>8, <1>10, <1>11, <1>12, LockMoves
<1>14. QED
  BY <1>9, <1>13 DEF Inv

-----------------------------------------------------------------------------
(* Entries in the world.                                                      *)

\* An announced entry is made.
LEMMA MadeKept ==
    ASSUME Inv, NEW k \in Key, NEW e \in Name, world' = [world EXCEPT ![At(k, e)] = k],
           e = "enable" \/ (Status(k, e) # "none" /\ durable[k].st.acts[e] # "none"),
           \A x \in off' : x \in off \/ (e = "link" /\ x = At(k, e)),
           UNCHANGED <<disk, durable, config, synced, wire, invite>>
    PROVE  /\ (proc' \in [Proc -> Row] => TypeOK') /\ Kept'
           /\ world'[At(k, e)] = k
           /\ \A j \in Key, f \in Name : At(j, f) # At(k, e) => world'[At(j, f)] = world[At(j, f)]
<1>0. TypeOK /\ Kept /\ At(k, e) \in Place /\ world \in [Place -> Entry]
  BY AtPlace DEF Inv, TypeOK
<1>1. /\ world' \in [Place -> Entry] /\ world'[At(k, e)] = k
      /\ \A x \in Place : x # At(k, e) => world'[x] = world[x]
  BY <1>0 DEF Entry
<1>2. \A j \in Key, f \in Name : At(j, f) # At(k, e) => world'[At(j, f)] = world[At(j, f)]
  BY <1>1, AtPlace
<1>3. proc' \in [Proc -> Row] => TypeOK'
  BY <1>0, <1>1 DEF TypeOK
<1>4. \A j \in Key, f \in Name : At(j, f) = At(k, e) => f = e
  BY AtEqual
<1>5. JournalOK' /\ WireOK' /\ IdentityIsKept' /\ BoundOK'
  BY <1>0 DEF Kept, JournalOK, WireOK, IdentityIsKept, BoundOK, Status
<1>6. WorldOK'
  <2>1. ASSUME NEW j \in Key, NEW f \in Name
        PROVE  /\ world'[At(j, f)] \in Key => At(world'[At(j, f)], f) = At(j, f)
               /\ world'[At(j, f)] = "theirs" => Status(j, f) = "none"
               /\ f \in {"receipt", "enable"} => world'[At(j, f)] \in Key \cup {"absent"}
               /\ At(j, f) \in off' => f = "link" /\ world'[At(j, f)] \in Key
    <3>1. CASE At(j, f) = At(k, e)
      <4>1. f = e /\ world'[At(j, f)] = k /\ k # "theirs"
        BY <1>1, <1>4, <3>1, Words
      <4>2. At(j, f) \in off' => f = "link"
        BY <1>0, <4>1 DEF Kept, WorldOK
      <4>3. At(k, f) = At(j, f)
        BY <3>1, <4>1
      <4>4. QED
        BY <4>1, <4>2, <4>3
    <3>2. CASE At(j, f) # At(k, e)
      BY <1>0, <1>2, <3>2 DEF Kept, WorldOK
    <3>3. QED
      BY <3>1, <3>2
  <2>2. QED
    BY <2>1 DEF WorldOK, Status
<1>7. IntentIsDurable'
  <2>1. ASSUME NEW j \in Key, NEW f \in Name \ {"enable"}, world'[At(j, f)] = j
        PROVE  durable[j].st.acts[f] # "none"
    <3>1. CASE At(j, f) = At(k, e)
      BY <1>1, <1>4, <2>1, <3>1
    <3>2. CASE At(j, f) # At(k, e)
      BY <1>0, <1>2, <2>1, <3>2 DEF Kept, IntentIsDurable
    <3>3. QED
      BY <3>1, <3>2
  <2>2. QED
    BY <2>1 DEF IntentIsDurable
<1>8. AppliedWasMade'
  <2>1. ASSUME NEW j \in Key, NEW f \in Name \ {"enable"}, Status(j, f) = "applied"
        PROVE  world'[At(j, f)] \in {j, "gone"} /\ (IsFile(f) => At(j, f) \in synced)
    <3>0. world[At(j, f)] \in {j, "gone"} /\ (IsFile(f) => At(j, f) \in synced)
      BY <1>0, <2>1 DEF Kept, AppliedWasMade
    <3>1. CASE At(j, f) = At(k, e)
      <4>1. f = e /\ e # "enable"
        BY <1>4, <3>1
      <4>2. j = k
        BY <2>1, <3>1, <4>1, Mine
      <4>3. QED
        BY <1>1, <3>0, <4>1, <4>2
    <3>2. CASE At(j, f) # At(k, e)
      BY <1>2, <3>0, <3>2
    <3>3. QED
      BY <3>1, <3>2
  <2>2. QED
    BY <2>1 DEF AppliedWasMade, Status
<1>9. QED
  BY <1>1, <1>2, <1>3, <1>5, <1>6, <1>7, <1>8 DEF Kept

LEMMA PublishFileStep ==
    ASSUME Inv, NEW p \in Proc, PublishFile(p)
    PROVE  Inv'
<1>0. /\ proc[p].pc = "effect" /\ IsFile(proc[p].e)
      /\ UNCHANGED <<disk, durable, config, synced, off, wire, invite>>
  BY DEF PublishFile, disks, shared, server
<1>1. /\ HeldOK(p) /\ EffectOK(p) /\ TypeOK /\ Kept /\ LockOK /\ K(p) \in Key /\ lock = p
      /\ proc[p] # Idle /\ proc[p].e \in Name
  BY <1>0, Active
<1>2. PICK k \in Key, e \in Name \ {"enable"} : k = K(p) /\ e = proc[p].e
  BY <1>0, <1>1 DEF IsFile
<1>3. /\ disk[k].st.eid # 0 /\ durable[k].st = disk[k].st /\ Status(k, e) # "none"
      /\ e # "receipt" => config.bound[ProviderOf[k]] = k
      /\ e \in Elem(k) \cup {"receipt", "enable"}
  BY <1>0, <1>1, <1>2 DEF HeldOK, EffectOK, Stage, Late, Ahead
<1>4. PICK pc \in Step : pc = "sync_file" /\ pc \notin New
  BY DEF Step, Late, Ahead, New
<1>5. CASE Return(p) /\ UNCHANGED world
  BY <1>0, <1>1, <1>5, ReturnStep DEF still
<1>6. ASSUME Goto(p, pc), UNCHANGED lock, world'[At(k, e)] = k,
             (TypeOK' /\ Kept') \/ world' = world
      PROVE  Inv'
  <2>1. /\ proc' \in [Proc -> Row] /\ \A q \in Proc \ {p} : proc'[q] = proc[q]
        /\ K(p)' = K(p) /\ proc'[p].pc = pc /\ proc'[p].e = proc[p].e
    BY <1>1, <1>6, GotoRow
  <2>2. Stage(p)' = "sync_file"
    BY <1>4, <2>1 DEF Stage
  <2>3. EffectOK(p)'
    BY <1>0, <1>2, <1>3, <1>4, <1>6, <2>1, <2>2 DEF EffectOK
  <2>4. TypeOK' /\ Kept'
    <3>1. CASE world' = world
      BY <1>0, <1>1, <2>1, <3>1, TypeSame, KeptSame DEF still
    <3>2. QED
      BY <1>6, <3>1
  <2>5. HeldOK(p)'
    BY <1>0, <1>2, <1>3, <1>4, <2>1 DEF HeldOK
  <2>6. proc'[p] # Idle
    BY <1>4, <2>1, IdleRow
  <2>7. LockOK'
    BY <1>1, <1>6, <2>1, <2>3, <2>5, <2>6, LockMoves
  <2>8. QED
    BY <2>4, <2>7 DEF Inv
<1>7. CASE Absent(k, e)
  <2>1. world' = [world EXCEPT ![At(k, e)] = k] /\ Goto(p, pc) /\ UNCHANGED lock
    BY <1>2, <1>4, <1>7 DEF PublishFile
  <2>2. proc' \in [Proc -> Row]
    BY <1>1, <2>1, GotoRow
  <2>3. durable[k].st.acts[e] # "none" /\ \A x \in off' : x \in off
    BY <1>0, <1>3 DEF Status
  <2>4. TypeOK' /\ Kept' /\ world'[At(k, e)] = k
    BY <1>0, <1>3, <2>1, <2>2, <2>3, MadeKept
  <2>5. QED
    BY <1>6, <2>1, <2>4
<1>8. CASE ~Absent(k, e) /\ Exact(k, e)
  <2>1. world' = world /\ Goto(p, pc) /\ UNCHANGED lock
    BY <1>2, <1>4, <1>8 DEF PublishFile
  <2>2. world[At(k, e)] = k
    BY <1>3, <1>8, Mine DEF Exact
  <2>3. QED
    BY <1>6, <2>1, <2>2
<1>9. QED
  BY <1>2, <1>5, <1>7, <1>8 DEF PublishFile

LEMMA SyncFileStep ==
    ASSUME Inv, NEW p \in Proc, SyncFile(p)
    PROVE  Inv'
<1>0. /\ proc[p].pc = "sync_file" /\ synced' = synced \cup {At(K(p), proc[p].e)} /\ lock' = lock
      /\ UNCHANGED <<disk, durable, config, world, off, wire, invite>>
  BY DEF SyncFile, disks, shared, server
<1>1. /\ HeldOK(p) /\ EffectOK(p) /\ TypeOK /\ Kept /\ LockOK /\ K(p) \in Key /\ lock = p
  BY <1>0, Active
<1>2. PICK pc \in Step : pc = "mark" /\ pc \notin New
  BY DEF Step, Late, Ahead, New
<1>3. /\ proc' \in [Proc -> Row] /\ \A q \in Proc \ {p} : proc'[q] = proc[q]
      /\ K(p)' = K(p) /\ proc'[p].pc = pc /\ proc'[p].e = proc[p].e
  BY <1>1, <1>2, GotoRow DEF SyncFile
<1>4. TypeOK'
  BY <1>0, <1>1, <1>3 DEF TypeOK
<1>5. Kept'
  BY <1>0, <1>1 DEF Kept, JournalOK, WireOK, IdentityIsKept, BoundOK, WorldOK, IntentIsDurable, AppliedWasMade,
                    Status
<1>6. HeldOK(p)'
  BY <1>0, <1>1, <1>2, <1>3 DEF HeldOK, Late
<1>7. EffectOK(p)'
  <2>1. Stage(p) = "sync_file" /\ Stage(p)' = "mark"
    BY <1>0, <1>2, <1>3 DEF Stage
  <2>2. QED
    BY <1>0, <1>1, <1>2, <1>3, <2>1 DEF EffectOK
<1>8. proc'[p] # Idle
  BY <1>2, <1>3, IdleRow
<1>9. LockOK'
  BY <1>0, <1>1, <1>3, <1>6, <1>7, <1>8, LockMoves
<1>10. QED
  BY <1>4, <1>5, <1>9 DEF Inv

LEMMA ConfigureStepStep ==
    ASSUME Inv, NEW p \in Proc, ConfigureStep(p)
    PROVE  Inv'
<1>0. /\ proc[p].pc = "effect" /\ proc[p].e \notin {"receipt", "file", "own", "enable"} /\ lock' = lock
      /\ UNCHANGED <<disk, durable, config, synced, wire, invite>> /\ Goto(p, "inspect")
  BY DEF ConfigureStep, disks, shared, server
<1>1. /\ HeldOK(p) /\ EffectOK(p) /\ TypeOK /\ Kept /\ LockOK /\ K(p) \in Key /\ lock = p
      /\ proc[p] # Idle /\ proc[p].e \in Name
  BY <1>0, Active
<1>2. PICK k \in Key, e \in Name \ {"enable"} : k = K(p) /\ e = proc[p].e /\ ~IsFile(e)
  BY <1>0, <1>1 DEF IsFile
<1>3. /\ disk[k].st.eid # 0 /\ durable[k].st = disk[k].st /\ Status(k, e) # "none"
      /\ e # "receipt" => config.bound[ProviderOf[k]] = k
      /\ e \in Elem(k) \cup {"receipt", "enable"} /\ world[At(k, e)] # "other"
  BY <1>0, <1>1, <1>2 DEF HeldOK, EffectOK, Stage, Late, Ahead
<1>4. PICK pc \in Step : pc = "inspect" /\ pc \notin New
  BY DEF Step, Late, Ahead, New
<1>5. /\ proc' \in [Proc -> Row] /\ \A q \in Proc \ {p} : proc'[q] = proc[q]
      /\ K(p)' = K(p) /\ proc'[p].pc = pc /\ proc'[p].e = proc[p].e
  BY <1>0, <1>1, <1>4, GotoRow
<1>6. TypeOK' /\ Kept' /\ world'[At(k, e)] = k
  <2>1. CASE Absent(k, e)
    <3>1. world' = [world EXCEPT ![At(k, e)] = k]
      BY <1>2, <2>1 DEF ConfigureStep
    <3>2. \A x \in off' : x \in off \/ (e = "link" /\ x = At(k, e))
      BY <1>2, <2>1 DEF ConfigureStep
    <3>3. durable[k].st.acts[e] # "none"
      BY <1>3 DEF Status
    <3>4. e \in Name /\ UNCHANGED <<disk, durable, config, synced, wire, invite>>
      BY <1>0
    <3>5. (proc' \in [Proc -> Row] => TypeOK') /\ Kept' /\ world'[At(k, e)] = k
      <4>1. Status(k, e) # "none"
        BY <1>3
      <4>2. QED
        BY <3>1, <3>2, <3>3, <3>4, <4>1, MadeKept
    <3>6. QED
      BY <1>5, <3>5
  <2>2. CASE ~Absent(k, e)
    <3>1. UNCHANGED <<world, off>>
      BY <1>2, <2>2 DEF ConfigureStep
    <3>2. world[At(k, e)] \in Entry
      BY <1>1, AtPlace DEF TypeOK
    <3>3. world[At(k, e)] = k
      BY <1>3, <2>2, <3>2, Mine DEF Entry, Absent
    <3>4. QED
      BY <1>0, <1>1, <1>5, <3>1, <3>3, TypeSame, KeptSame DEF still
  <2>3. QED
    BY <2>1, <2>2
<1>7. HeldOK(p)'
  BY <1>0, <1>2, <1>3, <1>4, <1>5 DEF HeldOK
<1>8. EffectOK(p)'
  <2>1. Stage(p)' = "inspect"
    BY <1>4, <1>5 DEF Stage
  <2>2. QED
    BY <1>0, <1>2, <1>3, <1>4, <1>5, <1>6, <2>1 DEF EffectOK
<1>9. proc'[p] # Idle
  BY <1>4, <1>5, IdleRow
<1>10. LockOK'
  BY <1>0, <1>1, <1>5, <1>7, <1>8, <1>9, LockMoves
<1>11. QED
  BY <1>6, <1>10 DEF Inv

LEMMA EnableStep ==
    ASSUME Inv, NEW p \in Proc, Enable(p)
    PROVE  Inv'
<1>0. /\ proc[p].pc = "effect" /\ proc[p].e = "enable" /\ lock' = lock
      /\ UNCHANGED <<disk, durable, config, synced, wire, invite>> /\ Goto(p, "mark")
      /\ world' = [world EXCEPT ![At(K(p), "enable")] = K(p)] /\ off' \subseteq off
  BY DEF Enable, disks, shared, server
<1>1. /\ HeldOK(p) /\ EffectOK(p) /\ TypeOK /\ Kept /\ LockOK /\ K(p) \in Key /\ lock = p
  BY <1>0, Active
<1>2. PICK k \in Key, e \in Name, l \in Name : k = K(p) /\ e = "enable" /\ l = "link" /\ ~IsFile(e)
  BY <1>0, <1>1 DEF IsFile, Name
<1>3. PICK pc \in Step : pc = "mark" /\ pc \notin New
  BY DEF Step, Late, Ahead, New
<1>4. /\ proc' \in [Proc -> Row] /\ \A q \in Proc \ {p} : proc'[q] = proc[q]
      /\ K(p)' = K(p) /\ proc'[p].pc = pc /\ proc'[p].e = proc[p].e
  BY <1>0, <1>1, <1>3, GotoRow
<1>5. /\ TypeOK' /\ Kept'
      /\ \A j \in Key, f \in Name : At(j, f) # At(k, e) => world'[At(j, f)] = world[At(j, f)]
  BY <1>0, <1>2, <1>4, MadeKept
<1>6. /\ world[At(k, l)] = k /\ l \in Elem(k) /\ config.bound[ProviderOf[k]] = k
  BY <1>0, <1>1, <1>2 DEF EffectOK
<1>7. world'[At(k, l)] = k
  BY <1>2, <1>5, <1>6, AtEqual
<1>8. HeldOK(p)'
  BY <1>0, <1>1, <1>3, <1>4 DEF HeldOK, Late, Ahead
<1>9. EffectOK(p)'
  <2>1. Stage(p)' = "mark"
    BY <1>3, <1>4 DEF Stage
  <2>2. QED
    BY <1>0, <1>2, <1>3, <1>4, <1>6, <1>7, <2>1 DEF EffectOK
<1>10. proc'[p] # Idle
  BY <1>3, <1>4, IdleRow
<1>11. LockOK'
  BY <1>0, <1>1, <1>4, <1>8, <1>9, <1>10, LockMoves
<1>12. QED
  BY <1>5, <1>11 DEF Inv

-----------------------------------------------------------------------------
(* Users and power failures.                                                  *)

LEMMA TouchedElem ==
    ASSUME NEW e \in Name, Touched(e)
    PROVE  e \notin {"receipt", "enable"}
  BY DEF Touched

\* A user makes an entry where there was none; an installer that is at work only
\* meets one at its skill file, which it has not yet made.
LEMMA UserPutsStep ==
    ASSUME Inv, NEW k \in Key, NEW e \in Name, Touched(e), NEW v \in {"theirs", "other"}, UserPuts(k, e, v)
    PROVE  Inv'
<1>0. TypeOK /\ Kept /\ LockOK /\ At(k, e) \in Place /\ world \in [Place -> Entry]
  BY AtPlace DEF Inv, TypeOK
<1>1. /\ world[At(k, e)] = "absent" /\ world' = [world EXCEPT ![At(k, e)] = v]
      /\ v = "theirs" => \A j \in Key : At(j, e) = At(k, e) => Status(j, e) = "none"
      /\ lock = None \/ e = "file"
      /\ UNCHANGED <<lock, proc, disk, durable, config, synced, off, wire, invite>>
  BY DEF UserPuts, disks, shared, server
<1>2. /\ world' \in [Place -> Entry] /\ world'[At(k, e)] = v
      /\ \A x \in Place : x # At(k, e) => world'[x] = world[x]
  BY <1>0, <1>1 DEF Entry
<1>3. \A j \in Key, f \in Name : At(j, f) # At(k, e) => world'[At(j, f)] = world[At(j, f)]
  BY <1>2, AtPlace
<1>4. TypeOK'
  BY <1>0, <1>1, <1>2 DEF TypeOK
<1>5. \A j \in Key, f \in Name : At(j, f) = At(k, e) => f = e
  BY AtEqual
<1>6. v \notin Key /\ "absent" \notin Key
  BY Words
<1>7. JournalOK' /\ WireOK' /\ IdentityIsKept' /\ BoundOK'
  BY <1>0, <1>1 DEF Kept, JournalOK, WireOK, IdentityIsKept, BoundOK, Status
<1>8. WorldOK'
  <2>1. ASSUME NEW j \in Key, NEW f \in Name
        PROVE  /\ world'[At(j, f)] \in Key => At(world'[At(j, f)], f) = At(j, f)
               /\ world'[At(j, f)] = "theirs" => Status(j, f) = "none"
               /\ f \in {"receipt", "enable"} => world'[At(j, f)] \in Key \cup {"absent"}
               /\ At(j, f) \in off => f = "link" /\ world'[At(j, f)] \in Key
    <3>1. CASE At(j, f) = At(k, e)
      <4>1. f = e /\ world'[At(j, f)] = v /\ f \notin {"receipt", "enable"}
        BY <1>2, <1>5, <3>1, TouchedElem
      <4>2. At(j, f) \notin off
        BY <1>0, <1>1, <1>6, <3>1 DEF Kept, WorldOK
      <4>3. v = "theirs" => Status(j, f) = "none"
        BY <1>1, <3>1, <4>1
      <4>4. QED
        BY <1>6, <4>1, <4>2, <4>3
    <3>2. CASE At(j, f) # At(k, e)
      BY <1>0, <1>3, <3>2 DEF Kept, WorldOK
    <3>3. QED
      BY <3>1, <3>2
  <2>2. QED
    BY <1>1, <2>1 DEF WorldOK, Status
<1>9. IntentIsDurable'
  <2>1. ASSUME NEW j \in Key, NEW f \in Name \ {"enable"}, world'[At(j, f)] = j PROVE world[At(j, f)] = j
    BY <1>2, <1>3, <1>6, <2>1
  <2>2. QED
    BY <1>0, <1>1, <2>1 DEF Kept, IntentIsDurable
<1>10. AppliedWasMade'
  <2>1. ASSUME NEW j \in Key, NEW f \in Name \ {"enable"}, Status(j, f) = "applied"
        PROVE  world'[At(j, f)] \in {j, "gone"} /\ (IsFile(f) => At(j, f) \in synced)
    <3>1. world[At(j, f)] \in {j, "gone"} /\ (IsFile(f) => At(j, f) \in synced)
      BY <1>0, <2>1 DEF Kept, AppliedWasMade
    <3>2. At(j, f) # At(k, e)
      BY <1>1, <1>6, <3>1
    <3>3. QED
      BY <1>3, <3>1, <3>2
  <2>2. QED
    BY <1>1, <2>1 DEF AppliedWasMade, Status
<1>11. LockOK'
  <2>1. ASSUME NEW q \in Proc, proc[q] # Idle PROVE HeldOK(q)' /\ EffectOK(q)'
    <3>1. lock = q /\ HeldOK(q) /\ EffectOK(q) /\ K(q) \in Key /\ e = "file"
      BY <1>0, <1>1, <2>1, Words DEF LockOK, HeldOK
    <3>2. HeldOK(q)'
      BY <1>1, <3>1 DEF HeldOK, K
    <3>3. PICK j \in Key, f \in Name, l \in Name : j = K(q) /\ f = proc[q].e /\ l = "link"
      BY <1>0, <3>1 DEF TypeOK, Row, Name
    <3>4. world[At(j, f)] = j => world'[At(j, f)] = j
      BY <1>1, <1>3, <1>6
    <3>5. world[At(j, l)] = j => world'[At(j, l)] = j
      BY <1>1, <1>3, <1>6
    <3>6. f # "file" => world'[At(j, f)] = world[At(j, f)]
      BY <1>3, <1>5, <3>1
    <3>7. K(q)' = j /\ Stage(q)' = Stage(q) /\ Status(j, f)' = Status(j, f) /\ proc'[q] = proc[q]
      BY <1>1, <3>3 DEF K, Stage, Status
    <3>8. EffectOK(q)'
      BY <1>1, <3>1, <3>3, <3>4, <3>5, <3>6, <3>7 DEF EffectOK
    <3>9. QED
      BY <3>2, <3>8
  <2>2. QED
    BY <1>0, <1>1, <2>1 DEF LockOK, HeldOK, EffectOK, K, Stage, Status
<1>12. QED
  BY <1>4, <1>7, <1>8, <1>9, <1>10, <1>11 DEF Inv, Kept

\* Entries are removed while no installer is at work.
LEMMA UserRemovesStep ==
    ASSUME Inv, NEW k \in Key, NEW e \in Name, Touched(e), UserRemoves(k, e)
    PROVE  Inv'
<1>0. TypeOK /\ Kept /\ LockOK /\ At(k, e) \in Place /\ world \in [Place -> Entry]
  BY AtPlace DEF Inv, TypeOK
<1>1. /\ lock = None /\ world' = [world EXCEPT ![At(k, e)] = "gone"] /\ off' = off \ {At(k, e)}
      /\ UNCHANGED <<lock, proc, disk, durable, config, synced, wire, invite>>
  BY DEF UserRemoves, disks, shared, server
<1>2. /\ world' \in [Place -> Entry] /\ world'[At(k, e)] = "gone"
      /\ \A x \in Place : x # At(k, e) => world'[x] = world[x]
  BY <1>0, <1>1 DEF Entry
<1>3. \A j \in Key, f \in Name : At(j, f) # At(k, e) => world'[At(j, f)] = world[At(j, f)]
  BY <1>2, AtPlace
<1>4. TypeOK'
  BY <1>0, <1>1, <1>2 DEF TypeOK
<1>5. \A j \in Key, f \in Name : At(j, f) = At(k, e) => f = e
  BY AtEqual
<1>6. "gone" \notin Key
  BY Words
<1>7. JournalOK' /\ WireOK' /\ IdentityIsKept' /\ BoundOK'
  BY <1>0, <1>1 DEF Kept, JournalOK, WireOK, IdentityIsKept, BoundOK, Status
<1>8. WorldOK'
  <2>1. ASSUME NEW j \in Key, NEW f \in Name
        PROVE  /\ world'[At(j, f)] \in Key => At(world'[At(j, f)], f) = At(j, f)
               /\ world'[At(j, f)] = "theirs" => Status(j, f) = "none"
               /\ f \in {"receipt", "enable"} => world'[At(j, f)] \in Key \cup {"absent"}
               /\ At(j, f) \in off' => f = "link" /\ world'[At(j, f)] \in Key
    <3>1. CASE At(j, f) = At(k, e)
      <4>1. f = e /\ world'[At(j, f)] = "gone" /\ f \notin {"receipt", "enable"}
        BY <1>2, <1>5, <3>1, TouchedElem
      <4>2. At(j, f) \notin off'
        BY <1>1, <3>1
      <4>3. QED
        BY <1>6, <4>1, <4>2
    <3>2. CASE At(j, f) # At(k, e)
      BY <1>0, <1>1, <1>3, <3>2 DEF Kept, WorldOK
    <3>3. QED
      BY <3>1, <3>2
  <2>2. QED
    BY <1>1, <2>1 DEF WorldOK, Status
<1>9. IntentIsDurable'
  <2>1. ASSUME NEW j \in Key, NEW f \in Name \ {"enable"}, world'[At(j, f)] = j PROVE world[At(j, f)] = j
    BY <1>2, <1>3, <1>6, <2>1
  <2>2. QED
    BY <1>0, <1>1, <2>1 DEF Kept, IntentIsDurable
<1>10. AppliedWasMade'
  <2>1. ASSUME NEW j \in Key, NEW f \in Name \ {"enable"}, Status(j, f) = "applied"
        PROVE  world'[At(j, f)] \in {j, "gone"} /\ (IsFile(f) => At(j, f) \in synced)
    <3>1. world[At(j, f)] \in {j, "gone"} /\ (IsFile(f) => At(j, f) \in synced)
      BY <1>0, <2>1 DEF Kept, AppliedWasMade
    <3>2. QED
      BY <1>2, <1>3, <3>1
  <2>2. QED
    BY <1>1, <2>1 DEF AppliedWasMade, Status
<1>11. LockOK'
  BY <1>0, <1>1, Words DEF LockOK
<1>12. QED
  BY <1>4, <1>7, <1>8, <1>9, <1>10, <1>11 DEF Inv, Kept

\* The journal that was being written comes back as it was on disk or as it was
\* durable, and of the files only what was not synced is lost.
LEMMA PowerFailureStep ==
    ASSUME Inv, PowerFailure
    PROVE  Inv'
<1>0. TypeOK /\ Kept /\ LockOK /\ world \in [Place -> Entry]
  BY DEF Inv, TypeOK
<1>1. PICK p \in Proc, k \in Key : lock = p /\ k = K(p) /\ proc[p] # Idle
  BY <1>0 DEF PowerFailure, LockOK, HeldOK
<1>2. Return(p) /\ UNCHANGED <<config, synced, off, wire, invite>>
  BY <1>1 DEF PowerFailure, Return, shared, server
<1>3. LockOK' /\ proc' \in [Proc -> Row]
  BY <1>0, <1>1, <1>2, LockReturns DEF TypeOK
<1>4. PICK c \in {disk[k].cred, durable[k].cred}, st \in {disk[k].st, durable[k].st}, t \in BOOLEAN :
        /\ disk' = [disk EXCEPT ![k] = [cred |-> c, temp |-> t, st |-> st]]
        /\ durable' = [durable EXCEPT ![k] = [cred |-> c, st |-> st]]
  BY <1>1 DEF PowerFailure
<1>5. PICK lost \in SUBSET {At(k, e) : e \in {"receipt", "file", "own"}} :
        world' = [x \in Place |-> IF x \in lost \ synced /\ world[x] \in Key THEN "absent" ELSE world[x]]
  BY <1>1 DEF PowerFailure
<1>6. c \in Nat /\ st \in State
  <2>1. disk[k] \in [cred : Nat, temp : BOOLEAN, st : State] /\ durable[k] \in [cred : Nat, st : State]
    BY <1>0 DEF TypeOK
  <2>2. QED
    BY <1>4, <2>1
<1>7. /\ disk' \in [Key -> [cred : Nat, temp : BOOLEAN, st : State]]
      /\ disk'[k].cred = c /\ disk'[k].st = st /\ \A j \in Key \ {k} : disk'[j] = disk[j]
  BY <1>0, <1>4, <1>6 DEF TypeOK
<1>8. /\ durable' \in [Key -> [cred : Nat, st : State]]
      /\ durable'[k].cred = c /\ durable'[k].st = st /\ \A j \in Key \ {k} : durable'[j] = durable[j]
  BY <1>0, <1>4, <1>6 DEF TypeOK
<1>9. world' \in [Place -> Entry]
  BY <1>0, <1>5 DEF Entry
<1>10. TypeOK'
  BY <1>0, <1>2, <1>3, <1>7, <1>8, <1>9 DEF TypeOK
<1>11. /\ \A j \in Key : durable[j].st.eid # 0 =>
            /\ durable'[j].st.eid = durable[j].st.eid /\ durable'[j].cred = durable[j].cred
            /\ disk'[j].st.eid = durable[j].st.eid /\ disk'[j].cred = durable[j].cred
       /\ \A j \in Key, e \in Name :
            /\ Status(j, e)' # "none" => Status(j, e) # "none"
            /\ Status(j, e)' = "applied" => Status(j, e) = "applied"
            /\ durable[j].st.acts[e] # "none" => durable'[j].st.acts[e] # "none"
  <2>1. JournalOK
    BY <1>0 DEF Kept
  <2>2. ASSUME NEW j \in Key
        PROVE  /\ durable[j].st.eid # 0 =>
                    /\ durable'[j].st.eid = durable[j].st.eid /\ durable'[j].cred = durable[j].cred
                    /\ disk'[j].st.eid = durable[j].st.eid /\ disk'[j].cred = durable[j].cred
               /\ \A e \in Name :
                    /\ disk'[j].st.acts[e] # "none" => disk[j].st.acts[e] # "none"
                    /\ disk'[j].st.acts[e] = "applied" => disk[j].st.acts[e] = "applied"
                    /\ durable[j].st.acts[e] # "none" => durable'[j].st.acts[e] # "none"
    <3>1. CASE j # k
      BY <1>7, <1>8, <2>1, <3>1 DEF JournalOK
    <3>2. CASE j = k
      BY <1>4, <1>7, <1>8, <2>1, <3>2 DEF JournalOK
    <3>3. QED
      BY <3>1, <3>2
  <2>3. QED
    BY <2>2 DEF Status
<1>12. JournalOK'
  <2>1. ASSUME NEW j \in Key
        PROVE  /\ disk'[j].st.eid = 0 => disk'[j].st = NoState
               /\ durable'[j].st.eid = 0 => durable'[j].st = NoState
               /\ durable'[j].st.eid # 0 => disk'[j].st.eid = durable'[j].st.eid /\ disk'[j].cred = durable'[j].cred
               /\ \A e \in Name : /\ durable'[j].st.acts[e] # "none" => disk'[j].st.acts[e] # "none"
                                  /\ durable'[j].st.acts[e] = "applied" => disk'[j].st.acts[e] = "applied"
    <3>1. CASE j # k
      BY <1>0, <1>7, <1>8, <3>1 DEF Kept, JournalOK
    <3>2. CASE j = k
      BY <1>0, <1>4, <1>7, <1>8, <3>2 DEF Kept, JournalOK
    <3>3. QED
      BY <3>1, <3>2
  <2>2. QED
    BY <2>1 DEF JournalOK
<1>13. WireOK'
  <2>1. ASSUME NEW r \in wire PROVE r.eid # 0 /\ durable'[r.k].st.eid = r.eid /\ durable'[r.k].cred = r.cid
    <3>1. r.k \in Key
      BY <1>0 DEF TypeOK
    <3>2. QED
      BY <1>0, <1>11, <3>1 DEF Kept, WireOK
  <2>2. QED
    BY <1>2, <2>1 DEF WireOK
<1>14. IdentityIsKept'
  <2>1. ASSUME NEW i \in Invite, invite[i].eid # 0
        PROVE  \E j \in Key : /\ InviteOf[j] = i
                              /\ durable'[j].cred = invite[i].cid /\ disk'[j].cred = invite[i].cid
                              /\ durable'[j].st.eid = invite[i].eid /\ disk'[j].st.eid = invite[i].eid
    <3>1. PICK j \in Key : /\ InviteOf[j] = i
                           /\ durable[j].cred = invite[i].cid /\ disk[j].cred = invite[i].cid
                           /\ durable[j].st.eid = invite[i].eid /\ disk[j].st.eid = invite[i].eid
      BY <1>0, <2>1 DEF Kept, IdentityIsKept
    <3>2. QED
      BY <1>11, <2>1, <3>1
  <2>2. QED
    BY <1>2, <2>1 DEF IdentityIsKept
<1>15. BoundOK'
  BY <1>0, <1>2, <1>11 DEF Kept, BoundOK, Status
<1>16. \A j \in Key, f \in Name :
         /\ world'[At(j, f)] \in {world[At(j, f)], "absent"}
         /\ world'[At(j, f)] # world[At(j, f)] => IsFile(f) /\ At(j, f) \notin synced /\ world[At(j, f)] \in Key
  <2>1. ASSUME NEW j \in Key, NEW f \in Name, At(j, f) \in lost PROVE IsFile(f)
    <3>1. PICK e \in {"receipt", "file", "own"} : At(j, f) = At(k, e)
      BY <2>1
    <3>2. e \in Name
      BY DEF Name
    <3>3. f = e
      BY <3>1, <3>2, AtEqual
    <3>4. QED
      BY <3>3 DEF IsFile
  <2>2. QED
    BY <1>5, <2>1, AtPlace
<1>17. WorldOK'
  <2>1. ASSUME NEW j \in Key, NEW f \in Name
        PROVE  /\ world'[At(j, f)] \in Key => At(world'[At(j, f)], f) = At(j, f)
               /\ world'[At(j, f)] = "theirs" => Status(j, f)' = "none"
               /\ f \in {"receipt", "enable"} => world'[At(j, f)] \in Key \cup {"absent"}
               /\ At(j, f) \in off => f = "link" /\ world'[At(j, f)] \in Key
    <3>1. ~IsFile("link")
      BY DEF IsFile
    <3>2. CASE world'[At(j, f)] = world[At(j, f)]
      BY <1>0, <1>11, <3>2 DEF Kept, WorldOK
    <3>3. CASE world'[At(j, f)] = "absent" /\ world'[At(j, f)] # world[At(j, f)]
      BY <1>0, <1>16, <3>1, <3>3, Words DEF Kept, WorldOK
    <3>4. QED
      BY <1>16, <3>2, <3>3
  <2>2. QED
    BY <1>2, <2>1 DEF WorldOK, Status
<1>18. IntentIsDurable'
  <2>1. \A j \in Key, f \in Name : world'[At(j, f)] = j => world[At(j, f)] = j
    BY <1>16, Words
  <2>2. QED
    BY <1>0, <1>11, <2>1 DEF Kept, IntentIsDurable
<1>19. AppliedWasMade'
  <2>1. ASSUME NEW j \in Key, NEW f \in Name \ {"enable"}, Status(j, f)' = "applied"
        PROVE  world'[At(j, f)] \in {j, "gone"} /\ (IsFile(f) => At(j, f) \in synced)
    BY <1>0, <1>11, <1>16, <2>1 DEF Kept, AppliedWasMade
  <2>2. QED
    BY <1>2, <2>1 DEF AppliedWasMade, Status
<1>20. QED
  BY <1>3, <1>10, <1>12, <1>13, <1>14, <1>15, <1>17, <1>18, <1>19 DEF Inv, Kept

-----------------------------------------------------------------------------
(* The exchange with the store, and the profile.                              *)

local == <<disk, durable, config, world, synced, off>>

\* The exchange moves an installer from its request to the answer, or ends it.
LEMMA ExchangeStep ==
    ASSUME Inv, UNCHANGED local, wire' \subseteq [k : Key, eid : Nat, cid : Nat],
           invite' \in [Invite -> [eid : Nat, cid : Nat, expired : BOOLEAN, revoked : BOOLEAN, blocked : BOOLEAN]],
           WireOK', IdentityIsKept',
           \/ UNCHANGED <<lock, proc>>
           \/ \E p \in Proc : /\ proc[p].pc \in {"enroll", "wait"}
                              /\ \/ Return(p)
                                 \/ lock' = lock /\ \E pc \in {"wait", "answered"} : Goto(p, pc)
    PROVE  Inv'
<1>0. TypeOK /\ Kept /\ LockOK
  BY DEF Inv
<1>1. Kept'
  BY <1>0 DEF local, Kept, JournalOK, BoundOK, WorldOK, IntentIsDurable, AppliedWasMade, Status
<1>2. LockOK' /\ proc' \in [Proc -> Row]
  <2>1. CASE UNCHANGED <<lock, proc>>
    BY <1>0, <2>1 DEF LockOK, HeldOK, EffectOK, local, Stage, K, Status, TypeOK
  <2>2. ASSUME NEW p \in Proc, proc[p].pc \in {"enroll", "wait"}, Return(p) PROVE LockOK' /\ proc' \in [Proc -> Row]
    <3>1. lock = p
      BY <2>2, Active
    <3>2. QED
      BY <1>0, <2>2, <3>1, LockReturns DEF TypeOK
  <2>3. ASSUME NEW p \in Proc, proc[p].pc \in {"enroll", "wait"}, lock' = lock,
               NEW pc \in {"wait", "answered"}, Goto(p, pc)
        PROVE  LockOK' /\ proc' \in [Proc -> Row]
    <3>1. lock = p /\ HeldOK(p) /\ EffectOK(p)
      BY <2>3, Active
    <3>2. pc \in Step /\ pc \notin New /\ pc \notin {"sync", "idle", "effect", "sync_file", "inspect", "mark", "unlink_config", "recheck"}
      BY DEF Step, Late, New
    <3>3. /\ proc' \in [Proc -> Row] /\ \A q \in Proc \ {p} : proc'[q] = proc[q]
          /\ K(p)' = K(p) /\ proc'[p].pc = pc /\ proc'[p].e = proc[p].e
      BY <1>0, <2>3, <3>2, GotoRow
    <3>4. Stage(p)' = pc
      BY <3>2, <3>3 DEF Stage
    <3>5. EffectOK(p)'
      BY <3>1, <3>2, <3>3, <3>4 DEF EffectOK, local
    <3>6. proc[p].pc # "sync" /\ proc[p].pc \in Late
      BY <2>3 DEF Late
    <3>7. HeldOK(p)'
      BY <3>1, <3>2, <3>3, <3>6 DEF HeldOK, local
    <3>8. proc'[p] # Idle
      BY <3>2, <3>3, IdleRow
    <3>9. QED
      BY <1>0, <2>3, <3>1, <3>3, <3>5, <3>7, <3>8, LockMoves
  <2>4. QED
    BY <2>1, <2>2, <2>3
<1>3. TypeOK'
  BY <1>0, <1>2 DEF TypeOK, local
<1>4. QED
  BY <1>1, <1>2, <1>3 DEF Inv

\* The request carries what the journal has made durable.
LEMMA EnrollStep ==
    ASSUME Inv, NEW p \in Proc, Enroll(p)
    PROVE  Inv'
<1>0. proc[p].pc = "enroll" /\ UNCHANGED local /\ UNCHANGED invite
  BY DEF Enroll, local, disks, shared, places
<1>1. HeldOK(p) /\ TypeOK /\ Kept /\ K(p) \in Key
  BY <1>0, Active
<1>2. PICK k \in Key : k = K(p)
  BY <1>1
<1>3. disk[k].st.eid # 0 /\ durable[k].st = disk[k].st
  BY <1>0, <1>1, <1>2 DEF HeldOK, Late
<1>4. durable[k].cred = disk[k].cred
  BY <1>1, <1>3 DEF Kept, JournalOK
<1>5. disk[k] \in [cred : Nat, temp : BOOLEAN, st : State]
  BY <1>1 DEF TypeOK
<1>6. disk[k].st.eid \in Nat /\ disk[k].cred \in Nat
  BY <1>5 DEF State
<1>7. PICK r \in [k : Key, eid : Nat, cid : Nat] : r = [k |-> k, eid |-> disk[k].st.eid, cid |-> disk[k].cred]
  BY <1>6
<1>8. r.k = k /\ r.eid = disk[k].st.eid /\ r.cid = disk[k].cred
  BY <1>7
<1>9. wire' = wire \/ wire' = wire \cup {r}
  BY <1>2, <1>7 DEF Enroll
<1>10. wire' \subseteq [k : Key, eid : Nat, cid : Nat]
  BY <1>1, <1>9 DEF TypeOK
<1>11. WireOK'
  BY <1>0, <1>1, <1>3, <1>4, <1>8, <1>9 DEF Kept, WireOK, local
<1>12. IdentityIsKept'
  BY <1>0, <1>1 DEF Kept, IdentityIsKept, local
<1>13. Return(p) \/ (lock' = lock /\ Goto(p, "wait"))
  BY DEF Enroll
<1>14. QED
  BY <1>0, <1>1, <1>10, <1>11, <1>12, <1>13, ExchangeStep DEF TypeOK

\* The store binds the invitation to an identity that a journal of it holds.
LEMMA RedeemStep ==
    ASSUME Inv, NEW r \in wire, NEW heard \in BOOLEAN, Redeem(r, heard)
    PROVE  Inv'
<1>0. UNCHANGED local /\ wire' = wire \ {r}
  BY DEF Redeem, local, disks, shared, places
<1>1. TypeOK /\ Kept
  BY DEF Inv
<1>2. r \in [k : Key, eid : Nat, cid : Nat]
  BY <1>1 DEF TypeOK
<1>3. r.k \in Key /\ r.eid \in Nat /\ r.cid \in Nat /\ InviteOf[r.k] \in Invite
  BY <1>2, Words
<1>4. PICK k \in Key, i \in Invite : k = r.k /\ i = InviteOf[r.k]
  BY <1>3
<1>5. \/ invite' = invite
      \/ invite' = [invite EXCEPT ![i].eid = r.eid, ![i].cid = r.cid]
  BY <1>4 DEF Redeem
<1>6. /\ invite' \in [Invite -> [eid : Nat, cid : Nat, expired : BOOLEAN, revoked : BOOLEAN, blocked : BOOLEAN]]
      /\ \A j \in Invite \ {i} : invite'[j] = invite[j]
      /\ invite'[i] = invite[i] \/ (invite'[i].eid = r.eid /\ invite'[i].cid = r.cid)
  <2>1. CASE invite' = invite
    BY <1>1, <2>1 DEF TypeOK
  <2>2. CASE invite' = [invite EXCEPT ![i].eid = r.eid, ![i].cid = r.cid]
    <3>0. invite[i] \in [eid : Nat, cid : Nat, expired : BOOLEAN, revoked : BOOLEAN, blocked : BOOLEAN]
      BY <1>1 DEF TypeOK
    <3>1. invite' = [invite EXCEPT ![i] = [invite[i] EXCEPT !.eid = r.eid, !.cid = r.cid]]
      BY <1>1, <2>2 DEF TypeOK
    <3>2. /\ [invite[i] EXCEPT !.eid = r.eid, !.cid = r.cid]
                \in [eid : Nat, cid : Nat, expired : BOOLEAN, revoked : BOOLEAN, blocked : BOOLEAN]
          /\ [invite[i] EXCEPT !.eid = r.eid, !.cid = r.cid].eid = r.eid
          /\ [invite[i] EXCEPT !.eid = r.eid, !.cid = r.cid].cid = r.cid
      BY <1>3, <3>0
    <3>3. PICK v \in [eid : Nat, cid : Nat, expired : BOOLEAN, revoked : BOOLEAN, blocked : BOOLEAN] :
             v = [invite[i] EXCEPT !.eid = r.eid, !.cid = r.cid]
      BY <3>2
    <3>4. invite' = [invite EXCEPT ![i] = v] /\ v.eid = r.eid /\ v.cid = r.cid
      BY <3>1, <3>2, <3>3
    <3>5. QED
      BY <1>1, <3>4 DEF TypeOK
  <2>3. QED
    BY <1>5, <2>1, <2>2
<1>7. r.eid # 0 /\ durable[k].st.eid = r.eid /\ durable[k].cred = r.cid
  BY <1>1, <1>4 DEF Kept, WireOK
<1>8. disk[k].st.eid = r.eid /\ disk[k].cred = r.cid
  BY <1>1, <1>7 DEF Kept, JournalOK
<1>9. IdentityIsKept'
  <2>1. ASSUME NEW j \in Invite, invite'[j].eid # 0
        PROVE  \E l \in Key : /\ InviteOf[l] = j
                              /\ durable[l].cred = invite'[j].cid /\ disk[l].cred = invite'[j].cid
                              /\ durable[l].st.eid = invite'[j].eid /\ disk[l].st.eid = invite'[j].eid
    <3>1. CASE invite'[j] = invite[j]
      BY <1>1, <2>1, <3>1 DEF Kept, IdentityIsKept
    <3>2. CASE invite'[j] # invite[j]
      BY <1>4, <1>6, <1>7, <1>8, <3>2
    <3>3. QED
      BY <3>1, <3>2
  <2>2. QED
    BY <1>0, <2>1 DEF IdentityIsKept, local
<1>10. WireOK'
  BY <1>0, <1>1 DEF Kept, WireOK, local
<1>11. wire' \subseteq [k : Key, eid : Nat, cid : Nat]
  BY <1>0, <1>1 DEF TypeOK
<1>12. \/ UNCHANGED <<lock, proc>>
       \/ \E p \in Proc : /\ proc[p].pc = "wait"
                          /\ Return(p) \/ (lock' = lock /\ Goto(p, "answered"))
  BY DEF Redeem
<1>13. QED
  BY <1>0, <1>6, <1>9, <1>10, <1>11, <1>12, ExchangeStep

\* Expiry and revocation leave the identity an invitation is bound to.
LEMMA RevokeStep ==
    ASSUME Inv, NEW i \in Invite, Expire(i) \/ RevokeInvite(i) \/ RevokeCredential(i)
    PROVE  Inv'
<1>0. UNCHANGED local /\ UNCHANGED wire /\ UNCHANGED <<lock, proc>>
  BY DEF Expire, RevokeInvite, RevokeCredential, local, disks, shared, places
<1>1. TypeOK /\ Kept
  BY DEF Inv
<1>2. invite[i] \in [eid : Nat, cid : Nat, expired : BOOLEAN, revoked : BOOLEAN, blocked : BOOLEAN]
  BY <1>1 DEF TypeOK
<1>3. PICK v \in [eid : Nat, cid : Nat, expired : BOOLEAN, revoked : BOOLEAN, blocked : BOOLEAN] :
         invite' = [invite EXCEPT ![i] = v] /\ v.eid = invite[i].eid /\ v.cid = invite[i].cid
  <2>1. CASE Expire(i)
    <3>1. invite' = [invite EXCEPT ![i] = [invite[i] EXCEPT !.expired = TRUE]]
      BY <2>1 DEF Expire
    <3>2. /\ [invite[i] EXCEPT !.expired = TRUE]
                \in [eid : Nat, cid : Nat, expired : BOOLEAN, revoked : BOOLEAN, blocked : BOOLEAN]
          /\ [invite[i] EXCEPT !.expired = TRUE].eid = invite[i].eid
          /\ [invite[i] EXCEPT !.expired = TRUE].cid = invite[i].cid
      BY <1>2
    <3>3. QED
      BY <3>1, <3>2
  <2>2. CASE RevokeInvite(i)
    <3>1. invite' = [invite EXCEPT ![i] = [invite[i] EXCEPT !.revoked = TRUE]]
      BY <2>2 DEF RevokeInvite
    <3>2. /\ [invite[i] EXCEPT !.revoked = TRUE]
                \in [eid : Nat, cid : Nat, expired : BOOLEAN, revoked : BOOLEAN, blocked : BOOLEAN]
          /\ [invite[i] EXCEPT !.revoked = TRUE].eid = invite[i].eid
          /\ [invite[i] EXCEPT !.revoked = TRUE].cid = invite[i].cid
      BY <1>2
    <3>3. QED
      BY <3>1, <3>2
  <2>3. CASE RevokeCredential(i)
    <3>1. invite' = [invite EXCEPT ![i] = [invite[i] EXCEPT !.blocked = TRUE]]
      BY <2>3 DEF RevokeCredential
    <3>2. /\ [invite[i] EXCEPT !.blocked = TRUE]
                \in [eid : Nat, cid : Nat, expired : BOOLEAN, revoked : BOOLEAN, blocked : BOOLEAN]
          /\ [invite[i] EXCEPT !.blocked = TRUE].eid = invite[i].eid
          /\ [invite[i] EXCEPT !.blocked = TRUE].cid = invite[i].cid
      BY <1>2
    <3>3. QED
      BY <3>1, <3>2
  <2>4. QED
    BY <2>1, <2>2, <2>3
<1>4. /\ invite' \in [Invite -> [eid : Nat, cid : Nat, expired : BOOLEAN, revoked : BOOLEAN, blocked : BOOLEAN]]
      /\ \A j \in Invite : invite'[j].eid = invite[j].eid /\ invite'[j].cid = invite[j].cid
  BY <1>1, <1>3 DEF TypeOK
<1>5. IdentityIsKept'
  BY <1>0, <1>1, <1>4 DEF Kept, IdentityIsKept, local
<1>6. WireOK'
  BY <1>0, <1>1 DEF Kept, WireOK, local
<1>7. QED
  BY <1>0, <1>1, <1>4, <1>5, <1>6, ExchangeStep DEF TypeOK

\* The profile names the journal from then on.
LEMMA BindingStep ==
    ASSUME Inv, NEW p \in Proc, PublishBinding(p) \/ UnlinkConfig(p)
    PROVE  Inv'
<1>0. proc[p].pc \in {"publish", "unlink_config"} /\ UNCHANGED <<disk, durable, world, synced, off, wire, invite>>
  BY DEF PublishBinding, UnlinkConfig, disks, places, server
<1>1. HeldOK(p) /\ EffectOK(p) /\ TypeOK /\ Kept /\ LockOK /\ K(p) \in Key /\ lock = p /\ proc[p] # Idle
  BY <1>0, Active
<1>2. PICK k \in Key : k = K(p)
  BY <1>1
<1>3. proc[p].pc # "sync" /\ proc[p].pc \in Late
  BY <1>0 DEF Late, Ahead
<1>4. disk[k].st.eid # 0 /\ durable[k].st = disk[k].st
  BY <1>1, <1>2, <1>3 DEF HeldOK
<1>5. CASE Return(p) /\ UNCHANGED config
  BY <1>0, <1>1, <1>5, ReturnStep DEF still
<1>6. ASSUME NEW pc \in {"unlink_config", "recheck"}, Goto(p, pc), lock' = lock,
             config' \in [links : 0 .. 2, bound : [Family -> Key \cup {None}]],
             config'.bound[ProviderOf[k]] = k,
             \A v \in Family : v # ProviderOf[k] => config'.bound[v] = config.bound[v],
             config.bound[ProviderOf[k]] \in {None, k}
      PROVE  Inv'
  <2>1. pc \in Step /\ pc \notin New /\ pc \notin {"idle", "sync", "effect", "sync_file", "inspect", "mark"}
    BY DEF Step, Late, New
  <2>2. /\ proc' \in [Proc -> Row] /\ \A q \in Proc \ {p} : proc'[q] = proc[q]
        /\ K(p)' = K(p) /\ proc'[p].pc = pc /\ proc'[p].e = proc[p].e
    BY <1>1, <1>6, <2>1, GotoRow
  <2>3. \A j \in Key : config.bound[ProviderOf[j]] = j => config'.bound[ProviderOf[j]] = j
    BY <1>6, Words
  <2>4. BoundOK'
    BY <1>0, <1>1, <2>3 DEF Kept, BoundOK, Status
  <2>5. Kept'
    BY <1>0, <1>1, <2>4 DEF Kept, JournalOK, WireOK, IdentityIsKept, WorldOK, IntentIsDurable, AppliedWasMade, Status
  <2>6. TypeOK'
    BY <1>0, <1>1, <1>6, <2>2 DEF TypeOK
  <2>7. Stage(p)' = pc
    BY <2>1, <2>2 DEF Stage
  <2>8. EffectOK(p)'
    BY <1>0, <1>1, <1>2, <1>6, <2>1, <2>2, <2>7 DEF EffectOK
  <2>9. HeldOK(p)'
    BY <1>0, <1>2, <1>4, <2>1, <2>2 DEF HeldOK
  <2>10. proc'[p] # Idle
    BY <2>1, <2>2, IdleRow
  <2>11. LockOK'
    BY <1>1, <1>6, <2>2, <2>8, <2>9, <2>10, LockMoves
  <2>12. QED
    BY <2>5, <2>6, <2>11 DEF Inv
<1>7. config \in [links : 0 .. 2, bound : [Family -> Key \cup {None}]]
  BY <1>1 DEF TypeOK
<1>8. ProviderOf[k] \in Family
  BY Words
<1>9. CASE PublishBinding(p)
  <2>1. CASE ~CheckOnboardingBinding(K(p))
    BY <1>5, <1>9, <2>1 DEF PublishBinding
  <2>2. CASE CheckOnboardingBinding(K(p))
    <3>1. config.bound[ProviderOf[k]] \in {None, k}
      BY <1>2, <2>2 DEF CheckOnboardingBinding
    <3>2. PICK b \in [Family -> Key \cup {None}] : b = [config.bound EXCEPT ![ProviderOf[k]] = k]
      BY <1>7, <1>8
    <3>3. b[ProviderOf[k]] = k /\ \A v \in Family : v # ProviderOf[k] => b[v] = config.bound[v]
      BY <1>7, <1>8, <3>2
    <3>4. PICK l \in 0 .. 2 : l = IF config.links = 0 THEN 2 ELSE 1
      OBVIOUS
    <3>5. config' = [links |-> l, bound |-> b]
      BY <1>2, <1>9, <2>2, <3>2, <3>4 DEF PublishBinding
    <3>6. config' \in [links : 0 .. 2, bound : [Family -> Key \cup {None}]] /\ config'.bound = b
      BY <3>5
    <3>7. lock' = lock /\ (Goto(p, "unlink_config") \/ Goto(p, "recheck"))
      BY <1>9, <2>2 DEF PublishBinding
    <3>8. QED
      BY <1>6, <3>1, <3>3, <3>6, <3>7
  <2>3. QED
    BY <2>1, <2>2
<1>10. CASE UnlinkConfig(p)
  <2>1. config' = [config EXCEPT !.links = 1] /\ lock' = lock /\ Goto(p, "recheck") /\ proc[p].pc = "unlink_config"
    BY <1>10 DEF UnlinkConfig
  <2>2. config' \in [links : 0 .. 2, bound : [Family -> Key \cup {None}]] /\ config'.bound = config.bound
    BY <1>7, <2>1
  <2>3. config.bound[ProviderOf[k]] = k
    BY <1>1, <1>2, <2>1 DEF EffectOK
  <2>4. QED
    BY <1>6, <2>1, <2>2, <2>3
<1>11. QED
  BY <1>9, <1>10

-----------------------------------------------------------------------------
(* The invariant.                                                             *)

LEMMA InvInit == Init => Inv
<1>1. SUFFICES ASSUME Init PROVE Inv
  OBVIOUS
<1>2. NoState \in State /\ NoState.eid = 0
  BY DEF NoState, State, Mark
<1>3. PICK s \in State : s = NoState
  BY <1>2
<1>4. \A k \in Key : disk[k] = [cred |-> 0, temp |-> FALSE, st |-> s] /\ durable[k] = [cred |-> 0, st |-> s]
  BY <1>1, <1>3 DEF Init
<1>5. \A k \in Key : /\ disk[k].cred = 0 /\ disk[k].st = s
                     /\ durable[k].cred = 0 /\ durable[k].st = s
  BY <1>4
<1>6. /\ \A k \in Key, e \in Name : disk[k].st.acts[e] = "none" /\ durable[k].st.acts[e] = "none"
      /\ \A k \in Key : disk[k].st.eid = 0 /\ durable[k].st.eid = 0
  BY <1>2, <1>3, <1>5, NothingAnnounced
<1>7. /\ disk \in [Key -> [cred : Nat, temp : BOOLEAN, st : State]]
      /\ durable \in [Key -> [cred : Nat, st : State]]
  BY <1>1, <1>2, <1>3 DEF Init
<1>8. /\ config \in [links : 0 .. 2, bound : [Family -> Key \cup {None}]]
  <2>1. PICK l \in 0 .. 2 : l = IF HasConfig THEN 1 ELSE 0
    OBVIOUS
  <2>2. PICK b \in [Family -> Key \cup {None}] : b = [v \in {"claude", "codex", "omp"} |-> None]
    BY DEF Family
  <2>3. config = [links |-> l, bound |-> b]
    BY <1>1, <2>1, <2>2 DEF Init
  <2>4. QED
    BY <2>3
<1>9. world \in [Place -> Entry] /\ \A x \in Place : world[x] = "absent"
  BY <1>1 DEF Init, Entry
<1>10. /\ invite \in [Invite -> [eid : Nat, cid : Nat, expired : BOOLEAN, revoked : BOOLEAN, blocked : BOOLEAN]]
       /\ \A i \in Invite : invite[i].eid = 0
  BY <1>1 DEF Init, FreshInvite
<1>11. proc \in [Proc -> Row] /\ \A p \in Proc : proc[p] = Idle
  BY <1>1, IdleRow DEF Init
<1>12. lock = None /\ wire = {} /\ off = {}
  BY <1>1 DEF Init
<1>13. TypeOK
  BY <1>7, <1>8, <1>9, <1>10, <1>11, <1>12 DEF TypeOK
<1>14. LockOK
  BY <1>11, <1>12 DEF LockOK
<1>15. JournalOK
  BY <1>3, <1>5, <1>6 DEF JournalOK
<1>16. WireOK /\ IdentityIsKept /\ BoundOK
  BY <1>6, <1>10, <1>12 DEF WireOK, IdentityIsKept, BoundOK, Status
<1>17. \A k \in Key, e \in Name : world[At(k, e)] = "absent" /\ Status(k, e) = "none"
  BY <1>6, <1>9, AtPlace DEF Status
<1>18. WorldOK /\ IntentIsDurable /\ AppliedWasMade
  BY <1>12, <1>17, Words DEF WorldOK, IntentIsDurable, AppliedWasMade
<1>19. QED
  BY <1>13, <1>14, <1>15, <1>16, <1>18 DEF Inv, Kept

LEMMA WorkStep ==
    ASSUME Inv, NEW p \in Proc, Work(p)
    PROVE  Inv'
<1>1. CASE SyncJournal(p) \/ PublishState(p) \/ PlanEffect(p) \/ MarkApplied(p) \/ Enrolled(p) \/ MarkConfigured(p)
  BY <1>1, SyncJournalStep, PublishStateStep, PlanEffectStep, MarkAppliedStep, StageStep
<1>2. CASE ContinueInstall(p) \/ Preflight(p) \/ EnrollTimeout(p) \/ Done(p)
  BY <1>2, ContinueStep
<1>3. CASE ProbeRoutes(p) \/ PersistCa(p) \/ ReuseBundle(p) \/ InstallBundle(p)
  BY <1>3, RouteStep, BundleStep
<1>4. CASE Prepare(p) \/ WriteCredential(p)
  BY <1>4, CredentialStep
<1>5. CASE PublishFile(p) \/ SyncFile(p) \/ ConfigureStep(p) \/ Inspect(p) \/ Enable(p)
  BY <1>5, PublishFileStep, SyncFileStep, ConfigureStepStep, InspectStep, EnableStep
<1>6. CASE Enroll(p) \/ PublishBinding(p) \/ UnlinkConfig(p) \/ Configure(p)
  BY <1>6, EnrollStep, BindingStep, ConfigureFirst
<1>7. QED
  BY <1>1, <1>2, <1>3, <1>4, <1>5, <1>6 DEF Work

LEMMA EnvironmentStep ==
    ASSUME Inv, Environment
    PROVE  Inv'
<1>1. CASE PowerFailure
  BY <1>1, PowerFailureStep
<1>2. CASE \E p \in Proc : Interrupt(p)
  BY <1>2, InterruptStep
<1>3. ASSUME NEW k \in Key, NEW e \in Name, Touched(e), NEW v \in {"theirs", "other"}, UserPuts(k, e, v)
      PROVE  Inv'
  BY <1>3, UserPutsStep
<1>4. ASSUME NEW k \in Key, NEW e \in Name, Touched(e), UserRemoves(k, e)
      PROVE  Inv'
  BY <1>4, UserRemovesStep
<1>5. ASSUME NEW i \in Invite, Expire(i) \/ RevokeInvite(i) \/ RevokeCredential(i)
      PROVE  Inv'
  BY <1>5, RevokeStep
<1>6. QED
  BY <1>1, <1>2, <1>3, <1>4, <1>5 DEF Environment

LEMMA InvNext == Inv /\ [Next]_vars => Inv'
<1>1. SUFFICES ASSUME Inv, [Next]_vars PROVE Inv'
  OBVIOUS
<1>2. ASSUME NEW k \in Key, Begin(k) PROVE Inv'
  BY <1>1, <1>2, InstallStep, ResumeStep DEF Begin
<1>3. ASSUME NEW p \in Proc, Work(p) PROVE Inv'
  BY <1>1, <1>3, WorkStep
<1>4. ASSUME NEW r \in wire, NEW heard \in BOOLEAN, Redeem(r, heard) PROVE Inv'
  BY <1>1, <1>4, RedeemStep
<1>5. CASE Environment
  BY <1>1, <1>5, EnvironmentStep
<1>6. CASE UNCHANGED vars
  BY <1>1, <1>6, SameStep DEF vars, still
<1>7. QED
  BY <1>1, <1>2, <1>3, <1>4, <1>5, <1>6 DEF Next

LEMMA InvHolds == Spec => []Inv
  BY InvInit, InvNext, PTL DEF Spec

\* Whatever installer died, whatever answer was lost and whatever power failure
\* came in between, the identity to which redeem_onboarding bound an invitation
\* is held, durably, by a journal of that invitation.
THEOREM InvitationsAreNotUsedUp == Spec => []IdentityIsKept
<1>1. Inv => IdentityIsKept
  BY DEF Inv, Kept
<1>2. QED
  BY <1>1, InvHolds, PTL

\* Every file and registration an installer made is announced by a journal that
\* outlives a power failure: persist returned before the effect was made.
THEOREM EffectsAreAnnounced == Spec => []IntentIsDurable
<1>1. Inv => IntentIsDurable
  BY DEF Inv, Kept
<1>2. QED
  BY <1>1, InvHolds, PTL

\* A journal marks applied only entries its own installation made, and their
\* directory entries are synced: no entry of a user and none of another
\* invitation is ever claimed, whatever its content.
THEOREM ClaimsAreOwn == Spec => []AppliedWasMade
<1>1. Inv => AppliedWasMade
  BY DEF Inv, Kept
<1>2. QED
  BY <1>1, InvHolds, PTL
=============================================================================
