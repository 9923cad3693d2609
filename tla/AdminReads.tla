----------------------------- MODULE AdminReads -----------------------------
(***************************************************************************)
(* Reading a tailnet's administration data: full and partial refreshes,    *)
(* the detail of one device, the generations that tell a late answer from  *)
(* one still wanted, the switch of the active profile behind a probe, the  *)
(* refresh that follows an own write, and the device list composed of what *)
(* the local client and the profile know.  A profile stands for its        *)
(* tailnet, and has one device.                                            *)
(***************************************************************************)
EXTENDS Integers, FiniteSets

CONSTANTS Profiles,     \* the configured profiles
          First,        \* the profile Tale starts with
          Readers,      \* bound: reads under way at a time
          ReadBounds    \* bounds of the user's acts: [acts, kinds, writes, probes, tailnets]

None == "none"

ASSUME ReadsAssumption ==
    /\ None \notin Profiles
    /\ First \in Profiles
    /\ \A b \in ReadBounds : {b.acts, b.writes, b.probes} \subseteq Nat

VARIABLES scope,        \* the bounds of this behaviour
          acts,         \* what the user has asked for so far
          admin,        \* App.admin: the profile and its resources
          saved,        \* App.admin_profile_snapshots; Unread when there is none
          generation,   \* App.admin_generation
          inFlight,     \* App.admin_refresh_in_flight
          due,          \* App.admin_next_refresh is set
          readLocks,    \* App.admin_read_locks: the profiles whose device is locked
          token,        \* generation of the refresh not cancelled, or 0
          readers,      \* the tasks that read
          probe,        \* App.profile_probe_in_flight, or None
          probes,       \* verdicts under way, by profile
          chosen,       \* history: the profile the user last chose
          review,       \* the confirmation on top, or NoReview
          writing,      \* the write under way, or NoWrite
          server,       \* how often each resource was written (external)
          acked,        \* history: the same, by the writes known to have ended
          local,        \* the tailnet the local client is on, or None
          view,         \* what the device list shows
          health,       \* the profile the findings are about, or None
          evaluations   \* health evaluations under way

readsVars == <<scope, acts, admin, saved, generation, inFlight, due, readLocks, token, readers, probe,
               probes, chosen, review, writing, server, acked, local, view, health, evaluations>>

Resources == {"devices", "users"}

NoData   == [of |-> None, ver |-> 0]
Unread   == [r \in Resources |-> [state |-> "Idle", gen |-> 0, data |-> NoData]]
NoReview == [gen |-> 0, profile |-> None, acked |-> 0]
NoWrite  == [profile |-> None, over |-> {}, sent |-> FALSE]
NoReader == [kind |-> "none"]
Unasked  == [state |-> "none", ver |-> 0]

Active == admin.profile # None
Reading(n) == readers[n] # NoReader
FreeReader == {n \in Readers : ~Reading(n)}
Cancelled(n) == readers[n].token # 0 /\ readers[n].token # token

ReadsInit ==
    /\ scope \in ReadBounds
    /\ acts = 0
    /\ admin = [profile |-> First, res |-> Unread]
    /\ saved = [p \in Profiles |-> Unread]
    /\ generation = 0
    /\ inFlight = FALSE
    /\ due = FALSE
    /\ readLocks = {}
    /\ token = 0
    /\ readers = [n \in Readers |-> NoReader]
    /\ probe = None
    /\ probes = [p \in Profiles |-> 0]
    /\ chosen = First
    /\ review = NoReview
    /\ writing = NoWrite
    /\ server = [p \in Profiles |-> [r \in Resources |-> 0]]
    /\ acked = [p \in Profiles |-> [r \in Resources |-> 0]]
    /\ local = None
    /\ view = [source |-> "Admin", local |-> None, admin |-> NoData]
    /\ health = None
    /\ evaluations = {}

-----------------------------------------------------------------------------
(* The device list *)

Aligned(a, l) == l # None /\ a.res["devices"].data.of = l

ViewSource(a, l) == CASE a.profile = None -> "Local"
                      [] Aligned(a, l)    -> "Composed"
                      [] OTHER            -> "Admin"

Composed(a, l) ==
    LET source == ViewSource(a, l) IN
    [source |-> source,
     local  |-> IF source = "Admin" THEN None ELSE l,
     admin  |-> IF source = "Local" THEN NoData ELSE a.res["devices"].data]

RefreshDeviceView == view' = Composed(admin', local')

\* What was evaluated from an earlier snapshot no longer counts.
\* Mutant: the generation does not move with the profile.
Outdated_Kept == evaluations

Outdated == {[e EXCEPT !.latest = FALSE] : e \in evaluations}

RecomputeHealth ==
    IF admin'.profile = None
    THEN health' = None /\ evaluations' = Outdated
    ELSE health' = health /\ evaluations' = Outdated \cup {[of |-> admin'.profile, latest |-> TRUE]}

-----------------------------------------------------------------------------
(* AdminResource *)

Begun(res, gen) == [res EXCEPT !.gen = gen, !.state = "Loading"]

\* A refusal is shown as such, a failure leaves older data as stale.
Applied(res, gen, profile, answer) ==
    CASE answer.state = "Ready" ->
             IF res.gen # gen THEN res
             ELSE [res EXCEPT !.state = "Ready", !.data = [of |-> profile, ver |-> answer.ver]]
      [] answer.state = "Failed" /\ res.data # NoData -> [res EXCEPT !.gen = gen, !.state = "Stale"]
      [] OTHER -> [res EXCEPT !.gen = gen, !.state = answer.state]

Unauthenticated(res, gen) == [res EXCEPT !.gen = gen, !.state = "Unauthenticated"]
MarkedFailed(res, gen) ==
    [res EXCEPT !.gen = gen, !.state = IF res.data # NoData THEN "Stale" ELSE "Failed"]

-----------------------------------------------------------------------------
(* Starting reads *)

Reader(kind, profile, gen, rs, tok) ==
    [kind |-> kind, profile |-> profile, gen |-> gen, token |-> tok, step |-> "token",
     todo |-> rs, got |-> [r \in Resources |-> Unasked]]

Spawn(rec) == LET n == CHOOSE m \in FreeReader : TRUE IN readers' = [readers EXCEPT ![n] = rec]

\* Mutant: a refresh leaves the locks of the reads it cancels.
UnlockAll_None == UNCHANGED readLocks

UnlockAll == readLocks' = {}

\* The reads of administration a's resources rs begin, in generation gen.
BeginReads(a, gen, rs, kind) ==
    /\ FreeReader # {}
    /\ admin' = [a EXCEPT !.res = [r \in Resources |-> IF r \in rs THEN Begun(a.res[r], gen) ELSE a.res[r]]]
    /\ generation' = gen
    /\ inFlight' = TRUE
    /\ due' = FALSE
    /\ UnlockAll
    /\ token' = gen
    /\ Spawn(Reader(kind, a.profile, gen, rs, gen))

Others == UNCHANGED <<scope, saved, probe, probes, chosen, server, local>>
Shown  == UNCHANGED <<view, health, evaluations>>
Act == acts < scope.acts /\ acts' = acts + 1
May(kind) == kind \in scope.kinds

StartAdminRefresh == BeginReads(admin, generation + 1, Resources, "full")

\* App::new's first refresh.
StartUp ==
    /\ generation = 0
    /\ StartAdminRefresh
    /\ Others /\ Shown /\ UNCHANGED <<acts, review, writing, acked>>

RefreshAll ==
    /\ May("refresh") /\ Act /\ Active /\ generation > 0
    /\ StartAdminRefresh
    /\ Others /\ Shown /\ UNCHANGED <<review, writing, acked>>

\* The interval has passed; a refresh would pull the data from under an overlay.
TickRefresh ==
    /\ Act /\ Active /\ ~inFlight /\ review = NoReview /\ due
    /\ StartAdminRefresh
    /\ Others /\ Shown /\ UNCHANGED <<review, writing, acked>>

RefreshView ==
    /\ May("view") /\ Act /\ Active /\ generation > 0
    /\ \E r \in Resources : BeginReads(admin, generation + 1, {r}, "part")
    /\ Others /\ Shown /\ UNCHANGED <<review, writing, acked>>

\* The detail of the device: its lock is the one its writes take.
StartDetail ==
    /\ May("detail") /\ Act /\ Active
    /\ admin.res["devices"].data # NoData
    /\ admin.profile \notin readLocks
    /\ ~(writing.profile = admin.profile /\ "users" \notin writing.over)
    /\ FreeReader # {}
    /\ readLocks' = readLocks \cup {admin.profile}
    /\ Spawn(Reader("detail", admin.profile, generation, {"devices"}, token))
    /\ Others /\ Shown
    /\ UNCHANGED <<admin, generation, inFlight, due, token, review, writing, acked>>

-----------------------------------------------------------------------------
(* The tasks that read: run_admin_refresh, run_admin_resource_refresh and  *)
(* run_admin_device_enrichment                                             *)

Becomes(n, rec) ==
    /\ readers' = [readers EXCEPT ![n] = rec]
    /\ UNCHANGED <<scope, acts, admin, saved, generation, inFlight, due, readLocks, token, probe, probes,
                   chosen, review, writing, server, acked, local, view, health, evaluations>>

\* The credential store, or the server, answers with a token or not.
TakeToken(n) ==
    /\ Reading(n) /\ readers[n].step = "token"
    /\ \/ Becomes(n, [readers[n] EXCEPT !.step = "reading"])
       \/ May("refusal") /\ Becomes(n, [readers[n] EXCEPT !.step = "AuthenticationFailed"])

ReadOne(n) ==
    /\ Reading(n) /\ readers[n].step = "reading"
    /\ \E r \in readers[n].todo :
       \E answer \in {[state |-> "Ready", ver |-> server[readers[n].profile][r]]} \cup
                     (IF May("refusal") THEN {[state |-> s, ver |-> 0] : s \in {"Failed", "Forbidden"}} ELSE {}) :
          Becomes(n, [readers[n] EXCEPT !.todo = @ \ {r}, !.got[r] = answer])

\* A cancelled read either ends in silence or sends what nobody waits for:
\* the two waits for the cancellation race.
NoticeCancelled(n) ==
    /\ Reading(n) /\ Cancelled(n)
    /\ readers[n].step \in {"token", "reading"}
    /\ \/ readers[n].kind # "full" /\ Becomes(n, NoReader)
       \/ Becomes(n, [readers[n] EXCEPT !.step = IF readers[n].kind = "part" THEN "AuthenticationFailed" ELSE "Failed"])

ReaderWorks(n) == TakeToken(n) \/ ReadOne(n) \/ NoticeCancelled(n)

-----------------------------------------------------------------------------
(* Their answers: App::update_admin *)

Wanted(n) == admin.profile = readers[n].profile /\ generation = readers[n].gen

Answer(n, kinds, step) ==
    /\ Reading(n) /\ readers[n].kind \in kinds /\ readers[n].step = step
    /\ readers' = [readers EXCEPT ![n] = NoReader]
    /\ UNCHANGED <<acts, generation, token, review, writing, acked>>
    /\ Others

Finish(res) ==
    /\ admin' = [admin EXCEPT !.res = res]
    /\ inFlight' = FALSE
    /\ due' = TRUE
    /\ UNCHANGED readLocks

Drop == UNCHANGED <<admin, inFlight, due, readLocks>> /\ Shown

RefreshFinished(n) ==
    /\ Answer(n, {"full", "part"}, "reading") /\ readers[n].todo = {}
    /\ IF ~Wanted(n) THEN Drop
       ELSE LET r == readers[n] IN
            /\ Finish([x \in Resources |-> IF r.got[x] = Unasked THEN admin.res[x]
                                           ELSE Applied(admin.res[x], r.gen, r.profile, r.got[x])])
            /\ RefreshDeviceView
            /\ RecomputeHealth

AuthenticationFailed(n) ==
    /\ Answer(n, {"full", "part"}, "AuthenticationFailed")
    /\ IF ~Wanted(n) THEN Drop
       ELSE /\ Finish([x \in Resources |-> Unauthenticated(admin.res[x], readers[n].gen)])
            /\ RefreshDeviceView
            /\ RecomputeHealth

Failed(n) ==
    /\ Answer(n, {"full"}, "Failed")
    /\ IF ~Wanted(n) THEN Drop
       ELSE /\ Finish([x \in Resources |-> MarkedFailed(admin.res[x], readers[n].gen)])
            /\ RefreshDeviceView
            /\ UNCHANGED <<health, evaluations>>

\* The lock goes by the device, whoever holds it.
ReleaseReadLock(n) == readLocks' = readLocks \ {readers[n].profile}

DetailFinished(n) ==
    /\ Answer(n, {"detail"}, "reading") /\ readers[n].todo = {}
    /\ readers[n].got["devices"].state = "Ready"
    /\ ReleaseReadLock(n)
    /\ UNCHANGED <<inFlight, due>>
    /\ IF ~Wanted(n) THEN UNCHANGED admin /\ Shown
       ELSE /\ admin' = [admin EXCEPT !.res["devices"].data =
                            IF @ = NoData THEN @
                            ELSE [of |-> readers[n].profile, ver |-> readers[n].got["devices"].ver]]
            /\ RefreshDeviceView
            /\ RecomputeHealth

DetailFailed(n) ==
    /\ \/ Answer(n, {"detail"}, "AuthenticationFailed") \/ Answer(n, {"detail"}, "Failed")
       \/ /\ Answer(n, {"detail"}, "reading") /\ readers[n].todo = {}
          /\ readers[n].got["devices"].state # "Ready"
    /\ ReleaseReadLock(n)
    /\ UNCHANGED <<admin, inFlight, due>> /\ Shown

Handled(n) ==
    RefreshFinished(n) \/ AuthenticationFailed(n) \/ Failed(n) \/ DetailFinished(n) \/ DetailFailed(n)

Evaluated ==
    \E e \in evaluations :
        /\ evaluations' = evaluations \ {e}
        /\ health' = IF e.latest /\ Active THEN e.of ELSE health
        /\ UNCHANGED <<scope, acts, admin, saved, generation, inFlight, due, readLocks, token, readers, probe,
                       probes, chosen, review, writing, server, acked, local, view>>

-----------------------------------------------------------------------------
(* The active profile *)

StopReading == inFlight' = FALSE /\ due' = FALSE

\* App::switch_profile, but for the profile it leaves alone and for what is refused.
Switch(p) ==
    LET a == [profile |-> p, res |-> IF p = None THEN Unread ELSE saved[p]] IN
    /\ saved' = [q \in Profiles |-> CASE q = admin.profile -> admin.res
                                      [] q = p             -> Unread
                                      [] OTHER             -> saved[q]]
    /\ IF p # None THEN BeginReads(a, generation + 2, Resources, "full")
       ELSE /\ admin' = a /\ generation' = generation + 1 /\ token' = 0
            /\ StopReading
            /\ UnlockAll /\ UNCHANGED readers
    /\ health' = None
    /\ evaluations' = Outdated
    /\ view' = Composed(a, local)

SwitchProfile(p) ==
    IF p = admin.profile \/ writing # NoWrite
    THEN /\ UNCHANGED <<saved, admin, generation, inFlight, due, readLocks, token, readers>> /\ Shown
    ELSE Switch(p)

Kept == UNCHANGED <<scope, review, writing, server, acked, local>>

ActivateLocal ==
    /\ May("switch") /\ Act /\ review = NoReview
    /\ chosen' = None
    /\ probe' = None
    /\ SwitchProfile(None)
    /\ UNCHANGED probes /\ Kept

ActivateProfile ==
    /\ May("switch") /\ Act /\ review = NoReview
    /\ \E p \in Profiles \ {admin.profile} :
           /\ probes[p] < scope.probes
           /\ chosen' = p
           /\ probe' = p
           /\ probes' = [probes EXCEPT ![p] = @ + 1]
    /\ UNCHANGED <<saved, admin, generation, inFlight, due, readLocks, token, readers>> /\ Shown /\ Kept

\* Mutant: any verdict counts.
Awaited_Any(p) == p # admin.profile

Awaited(p) == probe = p

ProfileProbed ==
    \E p \in Profiles, reachable \in BOOLEAN :
        /\ probes[p] > 0
        /\ probes' = [probes EXCEPT ![p] = @ - 1]
        /\ probe' = IF Awaited(p) THEN None ELSE probe
        /\ IF Awaited(p) /\ reachable THEN SwitchProfile(p)
           ELSE UNCHANGED <<saved, admin, generation, inFlight, due, readLocks, token, readers>> /\ Shown
        /\ UNCHANGED <<acts, chosen>> /\ Kept

\* clear_admin_profile: the credential was removed, or revoked.
CredentialGone ==
    /\ May("switch") /\ Act /\ Active
    /\ SwitchProfile(None)
    /\ UNCHANGED <<probe, probes, chosen>> /\ Kept

-----------------------------------------------------------------------------
(* Own writes, in outline *)

\* The preview of a change that concerns the resources of one kind.
OpenReview ==
    /\ Active /\ review = NoReview /\ writing = NoWrite
    /\ acts < scope.acts /\ acts' = acts + 1 /\ May("write")
    /\ \E p \in Profiles : server[p]["devices"] < scope.writes
    /\ review' = [gen |-> generation, profile |-> admin.profile, acked |-> acked[admin.profile]["devices"]]
    /\ UNCHANGED <<admin, generation, inFlight, due, readLocks, token, readers, writing, acked>> /\ Others /\ Shown

CloseReview ==
    /\ review # NoReview
    /\ review' = NoReview
    /\ UNCHANGED <<acts, admin, generation, inFlight, due, readLocks, token, readers, writing, acked>>
    /\ Others /\ Shown

\* Mutant: a confirmation is good for any generation.
ReviewIsCurrent_Always == review # NoReview

\* accept_confirmation's first condition.
ReviewIsCurrent == review # NoReview /\ review.gen = generation

Accept ==
    /\ ReviewIsCurrent /\ Active
    /\ \E over \in (IF May("user") THEN {Resources} ELSE {{"devices"}}) :
           /\ over = {"devices"} => admin.profile \notin readLocks
           /\ writing' = [profile |-> admin.profile, over |-> over, sent |-> FALSE]
    /\ review' = NoReview
    /\ UNCHANGED <<acts, admin, generation, inFlight, due, readLocks, token, readers, acked>> /\ Others /\ Shown

WriteReaches ==
    /\ writing # NoWrite /\ ~writing.sent
    /\ server' = [server EXCEPT ![writing.profile] =
                      [r \in Resources |-> server[writing.profile][r] + (IF r \in writing.over THEN 1 ELSE 0)]]
    /\ writing' = [writing EXCEPT !.sent = TRUE]
    /\ UNCHANGED <<scope, acts, admin, saved, generation, inFlight, due, readLocks, token, readers, probe,
                   probes, chosen, review, acked, local, view, health, evaluations>>

\* Mutant: what was written is not read again.
WrittenIsRead_Nothing == UNCHANGED <<admin, generation, inFlight, due, readLocks, token, readers>>

\* refresh_resources_for_change: what the change concerns.
WrittenIsRead == BeginReads(admin, generation + 1, writing.over, "part")

\* MutationFinished: what the change concerns is read again.
WriteFinished ==
    /\ writing # NoWrite
    /\ acked' = [acked EXCEPT ![writing.profile] = server[writing.profile]]
    /\ writing' = NoWrite
    /\ WrittenIsRead
    /\ UNCHANGED <<acts, review>> /\ Others /\ Shown

-----------------------------------------------------------------------------
\* The local client changes its account, or answers for the first time.
LocalChanges ==
    /\ Act
    /\ \E t \in scope.tailnets \ {local} : local' = t
    /\ UNCHANGED admin
    /\ RefreshDeviceView
    /\ UNCHANGED <<scope, saved, generation, inFlight, due, readLocks, token, readers, probe, probes,
                   chosen, review, writing, server, acked, health, evaluations>>

ReadsNext ==
    \/ StartUp \/ RefreshAll \/ TickRefresh \/ RefreshView \/ StartDetail
    \/ \E n \in Readers : ReaderWorks(n) \/ Handled(n)
    \/ Evaluated
    \/ ActivateLocal \/ ActivateProfile \/ ProfileProbed \/ CredentialGone
    \/ OpenReview \/ CloseReview \/ Accept \/ WriteReaches \/ WriteFinished
    \/ LocalChanges

ReadsSpec == ReadsInit /\ [][ReadsNext]_readsVars

-----------------------------------------------------------------------------
(* Properties *)

States == {"Idle", "Loading", "Ready", "Stale", "Failed", "Forbidden", "Unauthenticated"}

ReadData      == [of : Profiles \cup {None}, ver : Nat]
ReadResources == [state : States, gen : Nat, data : ReadData]
AdminAnswers  == [state : {"Ready", "Failed", "Forbidden"}, ver : Nat]
ReadRecords   ==
    [kind : {"full", "part", "detail"}, profile : Profiles, gen : Nat, token : Nat,
     step : {"token", "reading", "AuthenticationFailed", "Failed"}, todo : SUBSET Resources,
     got : [Resources -> {Unasked} \cup AdminAnswers]]

ReadsTypeOK ==
    /\ scope \in ReadBounds /\ acts \in Nat
    /\ admin \in [profile : Profiles \cup {None}, res : [Resources -> ReadResources]]
    /\ saved \in [Profiles -> [Resources -> ReadResources]]
    /\ generation \in Nat /\ token \in Nat
    /\ inFlight \in BOOLEAN /\ due \in BOOLEAN /\ (inFlight => ~due)
    /\ readLocks \subseteq Profiles
    /\ readers \in [Readers -> {NoReader} \cup ReadRecords]
    /\ {probe, chosen, health} \subseteq Profiles \cup {None}
    /\ probes \in [Profiles -> Nat]
    /\ review \in [gen : Nat, profile : Profiles \cup {None}, acked : Nat]
    /\ writing \in [profile : Profiles \cup {None}, over : SUBSET Resources, sent : BOOLEAN]
    /\ server \in [Profiles -> [Resources -> Nat]]
    /\ acked \in [Profiles -> [Resources -> Nat]]
    /\ evaluations \subseteq [of : Profiles, latest : BOOLEAN]

\* Everything on screen is about the active profile, whatever is still under way
\* for another: its resources, the findings about it, and the device list, which
\* is that of the sources as they are and never of two tailnets.
ShownIsOwn ==
    /\ \A r \in Resources : admin.res[r].data.of \in {None, admin.profile}
    /\ health \in {None, admin.profile}
    /\ view = Composed(admin, local)
    /\ view.source = "Composed" => view.local = view.admin.of

\* What is shown as current includes every change of one's own that has been reported done.
ReadYourWrites ==
    Active => \A r \in Resources :
                  admin.res[r].state = "Ready" => admin.res[r].data.ver >= acked[admin.profile][r]

\* Nothing is loading that nobody reads or will read again, and a device locked
\* for a read has a read under way.
ReadsArePursued ==
    /\ Active /\ (\E r \in Resources : admin.res[r].state = "Loading") => inFlight \/ due
    /\ \A p \in readLocks : \E n \in Readers : Reading(n) /\ readers[n].kind = "detail" /\ readers[n].profile = p

\* What the user decides holds for what it was decided on: only the profile
\* chosen last becomes the active one (source_reducer.rs finish_profile_switch),
\* and a change is accepted only on the profile, and on the data, it was
\* reviewed on (admin_reducer.rs accept_confirmation).
ChoicesHold ==
    [][/\ admin'.profile \notin {admin.profile, None} => admin'.profile = chosen
       /\ writing = NoWrite /\ writing' # NoWrite =>
             /\ review.profile = writing'.profile
             /\ review.acked = acked[writing'.profile]["devices"]]_readsVars

=============================================================================
