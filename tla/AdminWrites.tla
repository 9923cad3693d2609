----------------------------- MODULE AdminWrites ----------------------------
(***************************************************************************)
(* Changes Tale makes through the admin API: a request is read afresh      *)
(* (preflight), reviewed in a confirmation, dispatched, verified and       *)
(* answered; a batch does this for every route advertiser, at most Width   *)
(* children at a time.  Resources are locked by the id of the request.     *)
(* The reducer's handlers are atomic; the workers (run_admin_preflight,    *)
(* run_admin_mutation) run beside it and answer with events.               *)
(*                                                                         *)
(* Ids are opaque and only grow: a batch takes the block p, p+1, .., p+N,  *)
(* parent p (also the id of its task) and p+t the child of advertiser t.   *)
(* Refusals that only set an error text are stuttering steps.              *)
(***************************************************************************)
EXTENDS Naturals, Sequences, FiniteSets

CONSTANTS N,            \* route advertisers, 1..N in the order they are listed
          Profiles,     \* admin profiles
          Changes,      \* single changes in use: "Device" (an edit) and "Delete"
          Replacements, \* for a set of routes asked for: who can accept it
          Width,        \* children of a batch dispatched at once
          MaxAge,       \* REMOTE_WRITE_PREFLIGHT_MAX_AGE
          MaxId,        \* bound: ids handed out
          MaxClock      \* bound: time

ASSUME WritesAssumption ==
    /\ N \in Nat \ {0} /\ Width \in Nat \ {0}
    /\ MaxAge \in Nat /\ MaxId \in Nat /\ MaxClock \in Nat
    /\ Changes \subseteq {"Device", "Delete"}
    /\ Replacements \subseteq SUBSET (1..N) /\ Replacements # {}
    /\ Profiles # {}

VARIABLES clock,          \* App.now, and the clock of the workers
          profile,        \* the active admin profile
          refreshing,     \* the refresh of admin_generation under way, if any
          ready,          \* resources whose state is Ready
          retry,          \* pending_batch_retry: advertisers
          nextId,         \* next_mutation_id
          request,        \* what each id asks for
          stage,          \* where the request is
          locks,          \* admin_resource_locks: owner of each key
          preflightLocks, \* admin_preflight_locks
          gathering,      \* admin_batch_preflights: parents
          aborted,        \* aborted_admin_batch_children
          overlays,       \* forms and confirmations, the last on top
          task,           \* task of each request and of each batch parent
          outcome,        \* answer of each worker, and child_outcomes
          sent,           \* requests whose write left Tale
          applied,        \* requests whose write took effect
          notice          \* what the last step told the user

flow  == <<request, stage, nextId>>
held  == <<locks, preflightLocks>>
batch == <<gathering, aborted, outcome>>
admin == <<profile, refreshing, ready, retry>>
remote == <<sent, applied>>
vars  == <<clock, admin, flow, held, batch, overlays, task, remote, notice>>

Targets   == 1..N
Ids       == 1..MaxId
NoOne     == 0
Resources == {"Device", "DeviceRoutes"}
Keys      == Profiles \X Resources \X Targets

\* AdminMutationState, as far as a request carries it, and can_transition.
MutationStates == {"Editing", "Preflighting", "AwaitingConfirmation", "Dispatching"}
CanTransition(from, to) ==
    <<from, to>> \in {<<"Editing", "Preflighting">>, <<"Preflighting", "AwaitingConfirmation">>,
                      <<"AwaitingConfirmation", "Dispatching">>,
                      <<"AwaitingConfirmation", "Editing">>}

\* read: what the preflight found compared with the snapshot the form showed.
Requests == [kind : {"Device", "Delete", "Routes"}, target : Targets, profile : Profiles,
             parent : 0..MaxId, state : MutationStates,
             read : {"none", "same", "changed", "failed"}, observed : 0..MaxClock]
NoRequest == [kind |-> "None"]

NewRequest(kind, t, prof, parent, state) ==
    [kind |-> kind, target |-> t, profile |-> prof, parent |-> parent, state |-> state,
     read |-> "none", observed |-> 0]

\* A stranded request holds its locks although nobody reads or writes for it.
Stages == {"unused", "stranded", "reading", "read", "ready", "shown", "pending",
           "starting", "sent", "answered", "over"}
InFlight  == {i \in Ids : stage[i] \in {"starting", "sent", "answered"}}
Answering == {"reading", "read"}

Children(p) == {i \in Ids : stage[i] \notin {"unused", "stranded"} /\ request[i].parent = p}

\* The first Width of them, in the order of their ids.
First(C) == {i \in C : Cardinality({j \in C : j < i}) < Width}

\* Mutant: the list is dropped.
Pending_Lost(p) == {}

\* pending_requests
Pending(p) == {i \in Children(p) : stage[i] = "pending"}

Active      == {"Running", "Cancelling"}
Ended       == {"Succeeded", "Failed", "Cancelled"}
BatchesInFlight == {p \in Ids : task[p] \in Active /\ Children(p) # {}}

Init ==
    /\ clock = 0
    /\ profile \in Profiles
    /\ refreshing = "none"
    /\ ready = Resources
    /\ retry = {}
    /\ nextId = 1
    /\ request = [i \in Ids |-> NoRequest]
    /\ stage = [i \in Ids |-> "unused"]
    /\ locks = [k \in Keys |-> NoOne]
    /\ preflightLocks = {}
    /\ gathering = {}
    /\ aborted = {}
    /\ overlays = <<>>
    /\ task = [i \in Ids |-> "None"]
    /\ outcome = [i \in Ids |-> "None"]
    /\ sent = {}
    /\ applied = {}
    /\ notice = "None"

Quiet      == notice' = "None"
Refused(n) == notice' = n

-----------------------------------------------------------------------------
(* Resource locks *)

\* Mutant: a deletion locks the device only.
LockKeys_Primary(r) == {<<r.profile, IF r.kind = "Routes" THEN "DeviceRoutes" ELSE "Device", r.target>>}

\* lock_keys: a deletion takes the routes of the device as well.
LockKeys(r) ==
    {<<r.profile, x, r.target>> : x \in CASE r.kind = "Device" -> {"Device"}
                                          [] r.kind = "Routes" -> {"DeviceRoutes"}
                                          [] OTHER             -> Resources}

\* try_hold: all keys or none.
CanHold(i, r) == \A k \in LockKeys(r) : locks[k] \in {NoOne, i}
Hold(i, r)    == [k \in Keys |-> IF k \in LockKeys(r) THEN i ELSE locks[k]]

\* release: every key of the owners.
Released(owners) == [k \in Keys |-> IF locks[k] \in owners THEN NoOne ELSE locks[k]]

-----------------------------------------------------------------------------
(* Forms, overlays and refreshes *)

Overlays == [what : {"form", "change", "batch"}, kind : {"Device", "Delete", "Routes"},
             id : 0..MaxId, current : BOOLEAN]
Form(kind)            == [what |-> "form", kind |-> kind, id |-> 0, current |-> TRUE]
Confirmation(kind, i) == [what |-> "change", kind |-> kind, id |-> i, current |-> TRUE]
BatchReview(p)        == [what |-> "batch", kind |-> "Routes", id |-> p, current |-> TRUE]

NoOverlay     == overlays = <<>>
Top           == overlays[Len(overlays)]
OnTop(what)   == overlays # <<>> /\ Top.what = what
Push(o)       == overlays' = Append(overlays, o)
Popped        == SubSeq(overlays, 1, Len(overlays) - 1)
\* A confirmation is good for the admin_generation it was opened in.
Outdated(seq) == [n \in DOMAIN seq |-> [seq[n] EXCEPT !.current = FALSE]]

\* admin_mutation_available: the resource of the change is Ready.
Available(kind) == (IF kind = "Routes" THEN "DeviceRoutes" ELSE "Device") \in ready

\* A refresh is a new admin_generation; what it reads is not Ready until then.
Refresh(kind) ==
    /\ refreshing' = kind
    /\ ready' = IF kind = "devices" THEN ready \ {"Device"} ELSE {}
    /\ UNCHANGED profile

\* The timer (no overlay, none under way), or a key on the devices page.
StartRefresh(kind) ==
    /\ NoOverlay
    /\ kind = "full" => refreshing = "none"
    /\ Refresh(kind)
    /\ UNCHANGED <<clock, retry, flow, held, batch, overlays, task, remote>>
    /\ Quiet

OpenForm(kind) ==
    /\ NoOverlay /\ Available(kind)
    /\ Push(Form(kind))
    /\ UNCHANGED <<clock, admin, flow, held, batch, task, remote>>
    /\ Quiet

\* Escape: a confirmation that is closed drops its requests.
Discard ==
    /\ ~NoOverlay
    /\ overlays' = Popped
    /\ stage' = [i \in Ids |->
                   IF \/ Top.what = "change" /\ i = Top.id
                      \/ Top.what = "batch" /\ stage[i] = "shown" /\ request[i].parent = Top.id
                   THEN "over" ELSE stage[i]]
    /\ UNCHANGED <<clock, admin, request, nextId, held, batch, task, remote>>
    /\ Quiet

-----------------------------------------------------------------------------
(* From the form to the preflight *)

\* start_admin_change; deletions are asked for without a form.
StartChange(kind, t) ==
    LET r == NewRequest(kind, t, profile, 0, "Preflighting") IN
    /\ nextId <= MaxId
    /\ IF kind = "Delete" THEN NoOverlay ELSE (OnTop("form") /\ Top.kind = kind)
    /\ Available(kind)
    /\ CanHold(nextId, r)
    /\ locks' = Hold(nextId, r)
    /\ preflightLocks' = preflightLocks \cup {nextId}
    /\ request' = [request EXCEPT ![nextId] = r]
    /\ stage' = [stage EXCEPT ![nextId] = "reading"]
    /\ nextId' = nextId + 1
    /\ overlays' = IF kind = "Delete" THEN overlays ELSE Popped
    /\ UNCHANGED <<clock, admin, batch, task, remote>>
    /\ Quiet

\* One request per advertiser of T, up to the first that cannot accept the
\* routes or whose routes are locked.  The former leaves the requests before it
\* with their locks and drops their effects, the latter releases them.
RoutesKey(t)   == <<profile, "DeviceRoutes", t>>
Busy(T)        == {t \in T : locks[RoutesKey(t)] # NoOne}
Before(T, bad) == {t \in T : \A u \in bad : t < u}

Ask(S, where) ==
    /\ locks' = [k \in Keys |-> IF \E t \in S : k = RoutesKey(t) THEN nextId + k[3] ELSE locks[k]]
    /\ preflightLocks' = preflightLocks \cup {nextId + t : t \in S}
    /\ request' = [i \in Ids |-> IF \E t \in S : i = nextId + t
                                 THEN NewRequest("Routes", i - nextId, profile, nextId, "Preflighting")
                                 ELSE request[i]]
    /\ stage' = [i \in Ids |-> IF \E t \in S : i = nextId + t THEN where ELSE stage[i]]
    /\ nextId' = nextId + N + 1

AskAll(T, accepting) ==
    /\ T \subseteq accepting /\ Busy(T) = {}
    /\ Ask(T, "reading")
    /\ gathering' = gathering \cup {nextId}
    /\ UNCHANGED <<aborted, outcome>>

AskSome(T, accepting) ==
    /\ \E t \in T \ accepting : Busy(Before(T, {t})) = {} /\ Before(T, {t}) \subseteq accepting
    /\ Ask(Before(T, T \ accepting), "stranded")
    /\ UNCHANGED batch

AskNone(T, accepting) ==
    /\ \E t \in T \cap accepting :
         /\ t \in Busy(T)
         /\ Busy(Before(T, {t})) = {} /\ Before(T, {t}) \subseteq accepting
    /\ UNCHANGED <<flow, held, batch>>

Room == nextId + N <= MaxId

\* accept_admin_batch_form
StartBatch(accepting) ==
    /\ Room
    /\ OnTop("form") /\ Top.kind = "Routes"
    /\ \/ AskAll(Targets, accepting) /\ overlays' = Popped
       \/ AskSome(Targets, accepting) /\ UNCHANGED overlays
    /\ UNCHANGED <<clock, admin, task, remote>>
    /\ Quiet

\* run_admin_preflight.
ReadPreflight(i, found) ==
    /\ stage[i] = "reading"
    /\ found \in {"same", "changed", "failed"}
    /\ stage' = [stage EXCEPT ![i] = "read"]
    /\ request' = [request EXCEPT ![i].read = found, ![i].observed = clock]
    /\ UNCHANGED <<clock, admin, nextId, held, batch, overlays, task, remote>>
    /\ Quiet

-----------------------------------------------------------------------------
(* The preflight answer *)

\* Mutant: the id is forgotten, its keys are not released.
ReleasePreflight_Forgets(i) == preflightLocks' = preflightLocks \ {i} /\ UNCHANGED locks

\* release_admin_preflight_lock
ReleasePreflight(i) ==
    /\ preflightLocks' = preflightLocks \ {i}
    /\ locks' = IF i \in preflightLocks THEN Released({i}) ELSE locks

\* Mutant: no look at what the fresh read found.
Unchanged_Optimistic(i) == request[i].read # "failed"

\* preflight_conflict: nothing the change depends on differs from the form's snapshot.
Unchanged(i) == request[i].read = "same"

\* A child of a batch that was given up, or an answer for another profile.
DropPreflight(i) ==
    /\ stage[i] = "read"
    /\ \/ i \in aborted
       \/ request[i].parent \notin gathering /\ request[i].profile # profile
    /\ ReleasePreflight(i)
    /\ aborted' = aborted \ {i}
    /\ stage' = [stage EXCEPT ![i] = "over"]
    /\ UNCHANGED <<clock, admin, request, nextId, gathering, outcome, overlays, task, remote>>
    /\ Quiet

\* A failed read or a conflict: back to the form.
RejectChange(i) ==
    /\ stage[i] = "read" /\ i \notin aborted
    /\ request[i].parent \notin gathering /\ request[i].profile = profile
    /\ ~Unchanged(i)
    /\ ReleasePreflight(i)
    /\ stage' = [stage EXCEPT ![i] = "over"]
    /\ IF request[i].kind = "Delete" THEN UNCHANGED overlays ELSE Push(Form(request[i].kind))
    /\ UNCHANGED <<clock, admin, request, nextId, batch, task, remote>>
    /\ Quiet

Awaiting(i) == [request EXCEPT ![i].state = "AwaitingConfirmation"]

ReviewChange(i) ==
    /\ stage[i] = "read" /\ i \notin aborted
    /\ request[i].parent \notin gathering /\ request[i].profile = profile
    /\ Unchanged(i)
    /\ CanTransition(request[i].state, "AwaitingConfirmation")
    /\ ReleasePreflight(i)
    /\ request' = Awaiting(i)
    /\ stage' = [stage EXCEPT ![i] = "shown"]
    /\ Push(Confirmation(request[i].kind, i))
    /\ UNCHANGED <<clock, admin, nextId, batch, task, remote>>
    /\ Quiet

\* The state of the request does not allow the review: the error is shown.
RefuseReview(i) ==
    /\ stage[i] = "read" /\ i \notin aborted
    /\ request[i].parent \notin gathering /\ request[i].profile = profile
    /\ Unchanged(i)
    /\ ~CanTransition(request[i].state, "AwaitingConfirmation")
    /\ ReleasePreflight(i)
    /\ stage' = [stage EXCEPT ![i] = "over"]
    /\ UNCHANGED <<clock, admin, request, nextId, batch, overlays, task, remote>>
    /\ Refused("InvalidTransition")

\* finish_admin_batch_preflight: one bad answer gives the whole batch up.
RejectBatch(i) ==
    LET p == request[i].parent IN
    /\ stage[i] = "read" /\ i \notin aborted
    /\ p \in gathering
    /\ request[i].profile = profile => ~Unchanged(i)
    /\ ReleasePreflight(i)
    /\ gathering' = gathering \ {p}
    /\ IF request[i].profile = profile
       THEN aborted' = aborted \cup Children(p) /\ Push(Form("Routes"))
       ELSE UNCHANGED <<aborted, overlays>>
    /\ stage' = [j \in Ids |-> IF j = i \/ (j \in Children(p) /\ stage[j] = "ready")
                               THEN "over" ELSE stage[j]]
    /\ UNCHANGED <<clock, admin, request, nextId, outcome, task, remote>>
    /\ Quiet

CollectBatch(i) ==
    LET p == request[i].parent
        others == Children(p) \ {i}
    IN
    /\ stage[i] = "read" /\ i \notin aborted
    /\ p \in gathering
    /\ request[i].profile = profile /\ Unchanged(i)
    /\ ReleasePreflight(i)
    /\ request' = Awaiting(i)
    /\ IF \A j \in others : stage[j] = "ready"
       THEN /\ stage' = [j \in Ids |-> IF j \in Children(p) THEN "shown" ELSE stage[j]]
            /\ gathering' = gathering \ {p}
            /\ Push(BatchReview(p))
       ELSE /\ stage' = [stage EXCEPT ![i] = "ready"]
            /\ UNCHANGED <<gathering, overlays>>
    /\ UNCHANGED <<clock, admin, nextId, aborted, outcome, task, remote>>
    /\ Quiet

-----------------------------------------------------------------------------
(* The confirmation *)

\* is_fresh_at
Fresh(i) == clock - request[i].observed <= MaxAge

Dispatched(D) ==
    [i \in Ids |-> IF i \in D THEN [request[i] EXCEPT !.state = "Dispatching"] ELSE request[i]]

ConfirmChange ==
    LET i == Top.id IN
    /\ OnTop("change") /\ Top.current
    /\ request[i].profile = profile
    /\ Available(request[i].kind)
    /\ Fresh(i)
    /\ CanHold(i, request[i])
    /\ CanTransition(request[i].state, "Dispatching")
    /\ locks' = Hold(i, request[i])
    /\ request' = Dispatched({i})
    /\ stage' = [stage EXCEPT ![i] = "starting"]
    /\ task' = [task EXCEPT ![i] = "Running"]
    /\ overlays' = Popped
    /\ UNCHANGED <<clock, admin, nextId, preflightLocks, batch, remote>>
    /\ Quiet

ConfirmBatch ==
    LET p == Top.id
        C == Children(p)
    IN
    /\ OnTop("batch") /\ Top.current
    /\ \A i \in C : request[i].profile = profile
    /\ Available("Routes")
    /\ \A i \in C : Fresh(i)
    /\ \A i \in C : CanHold(i, request[i])
    /\ \A i \in First(C) : CanTransition(request[i].state, "Dispatching")
    /\ locks' = [k \in Keys |-> IF \E i \in C : k \in LockKeys(request[i]) THEN p + k[3] ELSE locks[k]]
    /\ request' = Dispatched(First(C))
    /\ stage' = [i \in Ids |-> IF i \in First(C) THEN "starting"
                               ELSE IF i \in C THEN "pending" ELSE stage[i]]
    /\ task' = [i \in Ids |-> IF i = p \/ i \in First(C) THEN "Running" ELSE task[i]]
    /\ overlays' = Popped
    /\ UNCHANGED <<clock, admin, nextId, preflightLocks, batch, remote>>
    /\ Quiet

\* The review is of an earlier admin_generation, or of another profile.
Reviewed == CASE OnTop("change") -> {Top.id}
              [] OnTop("batch")  -> Children(Top.id)
              [] OTHER           -> {}

RefuseOutdated ==
    /\ Reviewed # {}
    /\ ~Top.current \/ \E i \in Reviewed : request[i].profile # profile
    /\ UNCHANGED <<clock, admin, flow, held, batch, overlays, task, remote>>
    /\ Refused("ProfileChanged")

\* A review that has become too old asks for a new preflight, which the state
\* of the request does not allow; that of a batch is refused without one.
RefuseStale ==
    LET i == Top.id IN
    /\ OnTop("change") /\ Top.current
    /\ request[i].profile = profile
    /\ Available(request[i].kind)
    /\ ~Fresh(i)
    /\ ~CanTransition(request[i].state, "Preflighting")
    /\ UNCHANGED <<clock, admin, flow, held, batch, overlays, task, remote>>
    /\ Refused("InvalidTransition")

-----------------------------------------------------------------------------
(* The worker: run_admin_mutation *)

\* No token, no client, or cancelled before: "No change was sent".
FailUnsent(i) ==
    /\ stage[i] = "starting"
    /\ stage' = [stage EXCEPT ![i] = "answered"]
    /\ outcome' = [outcome EXCEPT ![i] = "Failed"]
    /\ UNCHANGED <<clock, admin, request, nextId, held, gathering, aborted, overlays, task, remote>>
    /\ Quiet

\* Mutant: a write that got no response is sent again.
SendWrite_Again(i) ==
    /\ stage[i] \in {"starting", "sent"}
    /\ stage' = [stage EXCEPT ![i] = IF @ = "sent" THEN "starting" ELSE "sent"]
    /\ sent' = sent \cup {i}
    /\ UNCHANGED <<clock, admin, request, nextId, held, batch, overlays, task, applied>>
    /\ Quiet

SendWrite(i) ==
    /\ stage[i] = "starting"
    /\ stage' = [stage EXCEPT ![i] = "sent"]
    /\ sent' = sent \cup {i}
    /\ UNCHANGED <<clock, admin, request, nextId, held, batch, overlays, task, applied>>
    /\ Quiet

\* response: accepted, rejected, or uncertain (lost, timed out, cancelled);
\* check: what the verification reads after it.
Report(response, check) ==
    CASE response = "accepted" /\ check = "visible"  -> "VerifiedSuccess"
      [] response = "accepted" /\ check = "unread"   -> "SucceededUnverified"
      [] response = "uncertain" /\ check = "visible" -> "VerifiedSuccess"
      [] response = "uncertain" /\ check # "visible" -> "OutcomeUnknown"
      [] OTHER                                       -> "Failed"

\* The write took effect or not before an uncertain response; what is visible
\* was applied, or was in place already when the write was rejected.
Verify(i, response, check, effective) ==
    /\ stage[i] = "sent"
    /\ response = "accepted" => effective
    /\ response = "rejected" => ~effective
    /\ check = "visible" => effective \/ response = "rejected"
    /\ applied' = IF effective THEN applied \cup {i} ELSE applied
    /\ outcome' = [outcome EXCEPT ![i] = Report(response, check)]
    /\ stage' = [stage EXCEPT ![i] = "answered"]
    /\ UNCHANGED <<clock, admin, request, nextId, held, gathering, aborted, overlays, task, sent>>
    /\ Quiet

\* The task event comes before the MutationFinished event of the same worker.
EndTask(i) ==
    /\ stage[i] = "answered" /\ task[i] \in Active
    /\ task' = [task EXCEPT ![i] = IF outcome[i] = "VerifiedSuccess" THEN "Succeeded" ELSE "Failed"]
    /\ UNCHANGED <<clock, admin, flow, held, batch, overlays, remote>>
    /\ Quiet

FinishChange(i) ==
    /\ stage[i] = "answered" /\ task[i] \in Ended
    /\ request[i].parent = 0
    /\ locks' = Released({i})
    /\ stage' = [stage EXCEPT ![i] = "over"]
    /\ Refresh("devices")
    /\ overlays' = Outdated(overlays)
    /\ UNCHANGED <<clock, retry, request, nextId, preflightLocks, batch, task, remote>>
    /\ Quiet

\* Mutant: what was not verified is not a failure.
BatchEnd_Lenient(p) ==
    IF \E i \in Children(p) : outcome[i] = "Failed" THEN "Failed" ELSE "Succeeded"

BatchEnd(p) ==
    IF task[p] = "Cancelling" THEN "Cancelled"
    ELSE IF \A i \in Children(p) : outcome[i] = "VerifiedSuccess" THEN "Succeeded" ELSE "Failed"

\* finish_admin_batch_child: the next pending child goes out, unless the batch
\* is being cancelled; the last answer ends the parent and refreshes the routes.
FinishChild(i) ==
    LET p == request[i].parent
        go == IF task[p] = "Cancelling" THEN {} ELSE {j \in Pending(p) : \A k \in Pending(p) : j <= k}
        last == \A j \in Children(p) \ {i} : stage[j] = "over"
    IN
    /\ stage[i] = "answered" /\ task[i] \in Ended
    /\ p # 0
    /\ locks' = Released({i})
    /\ stage' = [j \in Ids |-> IF j = i THEN "over" ELSE IF j \in go THEN "starting" ELSE stage[j]]
    /\ request' = Dispatched(go)
    /\ task' = [j \in Ids |-> IF j \in go THEN "Running"
                              ELSE IF j = p /\ last THEN BatchEnd(p) ELSE task[j]]
    /\ IF last THEN Refresh("routes") /\ overlays' = Outdated(overlays)
               ELSE UNCHANGED <<profile, refreshing, ready, overlays>>
    /\ UNCHANGED <<clock, retry, nextId, preflightLocks, batch, remote>>
    /\ Quiet

-----------------------------------------------------------------------------
(* Cancelling and retrying *)

\* cancel_task: a parent takes its pending children along and cancels the others.
CancelTask(i) ==
    /\ NoOverlay
    /\ task[i] = "Running"
    /\ task' = [j \in Ids |-> IF j = i \/ (j \in Children(i) /\ task[j] = "Running")
                              THEN "Cancelling" ELSE task[j]]
    /\ outcome' = [j \in Ids |-> IF j \in Pending(i) THEN "CancelledBeforeDispatch" ELSE outcome[j]]
    /\ stage' = [j \in Ids |-> IF j \in Pending(i) THEN "over" ELSE stage[j]]
    /\ locks' = Released(Pending(i))
    /\ UNCHANGED <<clock, admin, request, nextId, preflightLocks, gathering, aborted, overlays, remote>>
    /\ Quiet

\* Only the children dispatched at once have a replay.
HasReplay(i) == /\ request[i].kind = "Routes" /\ request[i].parent # 0
                /\ i \in First(Children(request[i].parent))

\* retry_admin_mutation: a new request, in state Editing.
RetryChild(i) ==
    /\ NoOverlay
    /\ nextId <= MaxId
    /\ task[i] = "Failed" /\ HasReplay(i)
    /\ LET r == NewRequest("Routes", request[i].target, request[i].profile, 0, "Editing") IN
         /\ CanHold(nextId, r)
         /\ locks' = Hold(nextId, r)
         /\ request' = [request EXCEPT ![nextId] = r]
    /\ preflightLocks' = preflightLocks \cup {nextId}
    /\ stage' = [stage EXCEPT ![nextId] = "reading"]
    /\ nextId' = nextId + 1
    /\ UNCHANGED <<clock, admin, batch, overlays, task, remote>>
    /\ Quiet

\* retry_selected_batch: the advertisers that failed, after a fresh read of the devices.
Unverified(p) == {request[i].target : i \in {j \in Children(p) : outcome[j] # "VerifiedSuccess"}}

RetryBatch(p) ==
    /\ NoOverlay /\ Room
    /\ task[p] \in {"Failed", "Cancelled"} /\ Children(p) # {}
    /\ Unverified(p) # {}
    /\ retry' = Unverified(p)
    /\ Refresh("devices")
    /\ UNCHANGED <<clock, flow, held, batch, overlays, task, remote>>
    /\ Quiet

\* What a refresh finds Ready.  The devices carry the routes of each.
Found == CASE refreshing = "full"    -> {{}, {"Device"}}
           [] refreshing = "devices" -> {ready, Resources}
           [] OTHER                  -> SUBSET Resources

FinishRefresh(found, accepting) ==
    /\ refreshing # "none"
    /\ found \in Found
    /\ refreshing' = "none"
    /\ ready' = found
    /\ IF refreshing = "full" \/ retry = {}
       THEN UNCHANGED <<retry, flow, held, batch>>
       ELSE /\ retry' = {}
            /\ IF "Device" \in found
               THEN Room /\ ( AskAll(retry, accepting) \/ AskSome(retry, accepting)
                                                       \/ AskNone(retry, accepting) )
               ELSE UNCHANGED <<flow, held, batch>>
    /\ UNCHANGED <<clock, profile, overlays, task, remote>>
    /\ Quiet

\* Failed and AuthenticationFailed mark every resource and keep the retry.
FailRefresh ==
    /\ refreshing # "none"
    /\ refreshing' = "none"
    /\ ready' = {}
    /\ UNCHANGED <<clock, profile, retry, flow, held, batch, overlays, task, remote>>
    /\ Quiet

\* Mutant: only preflights count.
WriteUnderWay_Preflights == gathering # {}

\* A change, a batch, or the preflights of a batch.
WriteUnderWay == InFlight # {} \/ BatchesInFlight # {} \/ gathering # {}

\* finish_profile_probe and switch_profile: when the probe answers, whatever is
\* open; refused while a write or a batch preflight is under way.
SwitchProfile(other) ==
    /\ other # profile
    /\ ~WriteUnderWay
    /\ profile' = other
    /\ locks' = Released(preflightLocks)
    /\ preflightLocks' = {}
    /\ refreshing' = "full"
    /\ ready' = {}
    /\ overlays' = Outdated(overlays)
    /\ UNCHANGED <<clock, retry, flow, batch, task, remote>>
    /\ Quiet

Tick ==
    /\ clock < MaxClock
    /\ clock' = clock + 1
    /\ UNCHANGED <<admin, flow, held, batch, overlays, task, remote>>
    /\ Quiet

-----------------------------------------------------------------------------
HandlePreflight(i) ==
    \/ DropPreflight(i) \/ RejectChange(i) \/ ReviewChange(i) \/ RefuseReview(i)
    \/ RejectBatch(i) \/ CollectBatch(i)

Work(i) ==
    \/ FailUnsent(i)
    \/ SendWrite(i)
    \/ \E response \in {"accepted", "rejected", "uncertain"} : \E effective \in BOOLEAN :
         \E check \in {"visible", "absent", "unread"} : Verify(i, response, check, effective)

Next ==
    \/ \E kind \in {"full", "devices"} : StartRefresh(kind)
    \/ \E kind \in (Changes \ {"Delete"}) \cup {"Routes"} : OpenForm(kind)
    \/ Discard
    \/ \E kind \in Changes : \E t \in Targets : StartChange(kind, t)
    \/ \E accepting \in Replacements : StartBatch(accepting)
    \/ \E i \in Ids : \E found \in {"same", "changed", "failed"} : ReadPreflight(i, found)
    \/ \E i \in Ids : HandlePreflight(i)
    \/ ConfirmChange
    \/ ConfirmBatch
    \/ \E i \in Ids : Work(i)
    \/ \E i \in Ids : EndTask(i) \/ FinishChange(i) \/ FinishChild(i)
    \/ \E i \in Ids : CancelTask(i) \/ RetryChild(i) \/ RetryBatch(i)
    \/ \E found \in SUBSET Resources : \E accepting \in Replacements : FinishRefresh(found, accepting)
    \/ FailRefresh
    \/ \E other \in Profiles : SwitchProfile(other)
    \/ RefuseOutdated
    \/ RefuseStale
    \/ Tick

Spec == Init /\ [][Next]_vars

\* Requests time out, so every read, write and verification is answered, and
\* the run loop handles every answer.  Nobody owes a key press or a refresh.
Fairness ==
    \A i \in Ids :
        /\ WF_vars(\E found \in {"same", "changed", "failed"} : ReadPreflight(i, found))
        /\ WF_vars(HandlePreflight(i))
        /\ WF_vars(Work(i))
        /\ WF_vars(EndTask(i) \/ FinishChange(i) \/ FinishChild(i))

FairSpec == Spec /\ Fairness

-----------------------------------------------------------------------------
(* Properties *)

TypeOK ==
    /\ clock \in 0..MaxClock
    /\ profile \in Profiles
    /\ refreshing \in {"none", "full", "devices", "routes"}
    /\ ready \subseteq Resources
    /\ retry \subseteq Targets
    /\ nextId \in Nat \ {0}
    /\ stage \in [Ids -> Stages]
    /\ request \in [Ids -> Requests \cup {NoRequest}]
    /\ \A i \in Ids : stage[i] # "unused" => request[i] \in Requests
    /\ locks \in [Keys -> 0..MaxId]
    /\ preflightLocks \subseteq Ids
    /\ gathering \subseteq Ids
    /\ aborted \subseteq Ids
    /\ overlays \in Seq(Overlays)
    /\ task \in [Ids -> {"None"} \cup Active \cup Ended]
    /\ outcome \in [Ids -> {"None", "VerifiedSuccess", "SucceededUnverified", "OutcomeUnknown",
                            "CancelledBeforeDispatch", "Failed"}]
    /\ sent \subseteq Ids
    /\ applied \subseteq Ids
    /\ notice \in {"None", "ProfileChanged", "InvalidTransition"}

\* Two writes under way never touch the same device or its routes; a deletion
\* touches both.
Clash(r, s) == /\ r.profile = s.profile /\ r.target = s.target
               /\ r.kind = s.kind \/ "Delete" \in {r.kind, s.kind}

OneWriterPerResource == \A i, j \in InFlight : i # j => ~Clash(request[i], request[j])

\* What is being written was read again after it was asked for, found equal to
\* what the form showed, and confirmed; for a batch, in all of its children.
OnlyReviewedIsWritten ==
    \A i \in InFlight :
        /\ request[i].read = "same" /\ request[i].state = "Dispatching"
        /\ request[i].parent # 0 =>
             \A j \in Children(request[i].parent) : request[j].read = "same"

\* A lock is held for a read, a write, or a child waiting for its turn, never
\* by a request that nothing will answer any more.
NoOrphanedLock ==
    \A k \in Keys : locks[k] # NoOne =>
        stage[locks[k]] \in Answering \cup {"pending", "starting", "sent", "answered"}

\* While a write is under way or a batch has children to go, the profile they
\* are for stays the active one.
WritesStayInProfile ==
    \A i \in Ids : (i \in InFlight \/ stage[i] = "pending") => request[i].profile = profile

\* When the parent of a batch has ended every child is answered and none is
\* under way: one reported as cancelled before its dispatch was never sent, and
\* success means that every change took effect.
EndedBatchIsAnswered ==
    \A p \in Ids : task[p] \in Ended /\ Children(p) # {} =>
        /\ \A i \in Children(p) : stage[i] = "over" /\ outcome[i] # "None"
        /\ \A i \in Children(p) \cap sent : outcome[i] # "CancelledBeforeDispatch"
        /\ task[p] = "Succeeded" => Children(p) \subseteq applied

\* A write is sent once, whatever is cancelled, retried or confirmed again.
SentOnce == [][\A i \in sent : stage'[i] # "starting"]_vars

\* A write starts at most MaxAge after its resource was read: the test
\* every_remote_write_preflight_expires (domain/admin_mutation.rs:775) says so of
\* every remote write.  The confirmation asks is_fresh_at, finish_admin_batch_child
\* dispatches a child that waited for its turn without, and this does not hold.
DispatchIsFresh ==
    [][\A i \in Ids : (stage'[i] = "starting" /\ stage[i] # "starting")
                        => clock - request[i].observed <= MaxAge]_vars

\* Every batch comes to an end.
BatchEnds == \A p \in Ids : task[p] = "Running" ~> task[p] \in Ended

=============================================================================
