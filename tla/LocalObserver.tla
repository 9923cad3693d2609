--------------------------- MODULE LocalObserver ---------------------------
(***************************************************************************)
(* What Tale knows of the local daemon: the observer that reads its status *)
(* whenever the watch stream says it may have changed, the reads the user  *)
(* and a local mutation make besides, the lock and the generations they    *)
(* share, and the one resource their answers meet in.  Preferences are     *)
(* read the same way, under a lock and a counter of their own.             *)
(***************************************************************************)
EXTENDS Integers, Sequences

CONSTANT LocalBounds   \* what may happen: [changes, ends, faults, refreshes, mutations, reconciles, account]

LocalAllowances ==
    [changes : Nat, ends : Nat, faults : Nat, refreshes : Nat, mutations : Nat, reconciles : Nat, account : BOOLEAN]

ASSUME LocalAssumption == LocalBounds \subseteq LocalAllowances

VARIABLES left,        \* what may still happen
          daemon,      \* the daemon's state, numbered, and whether it is up (external)
          notice,      \* the watch stream holds a notification (external)
          session,     \* the observer: "waiting" to reconnect, "connecting", "watching" or "resynced"
          dirty,       \* status_dirty
          pending,     \* the debounced invalidation
          counter,     \* ReadSerializers.status_generation
          reads,       \* the reads of the observer, of a refresh and of the mutation
          outbox,      \* their events on the way to the run loop
          resource,    \* App.local_resource
          connected,   \* App.local_watcher_connected
          mutation,    \* App.mutation_in_flight, or NoMutation
          outcome      \* history: how the last mutation ended, or NoOutcome

localVars == <<left, daemon, notice, session, dirty, pending, counter, reads, outbox, resource, connected,
               mutation, outcome>>

Tasks == {"observer", "refresh", "mutation"}
NoRead     == [gen |-> 0, step |-> "none", seen |-> [ver |-> 0, up |-> FALSE]]
NoMutation == [step |-> "none"]
NoOutcome  == "none"
Nothing    == 0

LocalInit ==
    /\ left \in LocalBounds
    /\ daemon = [ver |-> 1, up |-> TRUE]
    /\ notice = FALSE
    /\ session = "waiting"
    /\ dirty = FALSE
    /\ pending = FALSE
    /\ counter = 1
    /\ reads = [t \in Tasks |-> NoRead]
    /\ outbox = [t \in Tasks |-> <<>>]
    /\ resource = [gen |-> 1, status |-> "Loading", ver |-> Nothing]
    /\ connected = FALSE
    /\ mutation = NoMutation
    /\ outcome = NoOutcome

Spend(what) == left[what] > 0 /\ left' = [left EXCEPT ![what] = @ - 1]
Event(kind, gen, ver) == [kind |-> kind, gen |-> gen, ver |-> ver]
Send(t, events) == outbox' = [outbox EXCEPT ![t] = @ \o events]

-----------------------------------------------------------------------------
(* ReadSerializers *)

Highest(a, b) == IF a < b THEN b ELSE a
Reserve(minimum) == Highest(counter + 1, minimum)
ReadBegins(t, gen) == reads' = [reads EXCEPT ![t] = [NoRead EXCEPT !.gen = gen, !.step = "queued"]]

ReadUnlocked == \A t \in Tasks : reads[t].step # "reading"

ReadLocked(t) ==
    /\ reads[t].step = "queued" /\ ReadUnlocked
    /\ reads' = [reads EXCEPT ![t].step = "reading"]
    /\ UNCHANGED <<left, daemon, notice, session, dirty, pending, counter, outbox, resource, connected, mutation, outcome>>

ReadAnswers(t) ==
    /\ reads[t].step = "reading"
    /\ \/ /\ reads' = [reads EXCEPT ![t].step = "read", ![t].seen = daemon]
          /\ UNCHANGED left
       \/ /\ Spend("faults")
          /\ reads' = [reads EXCEPT ![t].step = "failed"]
    /\ UNCHANGED <<daemon, notice, session, dirty, pending, counter, outbox, resource, connected, mutation, outcome>>

-----------------------------------------------------------------------------
(* ipn::run *)

Watching == session \in {"watching", "resynced"}
Observing == reads["observer"].step # "none"

\* start_read: a read that is asked for during another is made after it.
StartRead(before) ==
    IF Observing THEN dirty' = TRUE /\ Send("observer", before) /\ UNCHANGED <<counter, reads>>
    ELSE /\ counter' = Reserve(0)
         /\ ReadBegins("observer", Reserve(0))
         /\ Send("observer", Append(before, Event("Started", Reserve(0), Nothing)))
         /\ UNCHANGED dirty

Connect ==
    /\ session = "connecting"
    /\ \/ /\ session' = "watching"
          /\ dirty' = FALSE
          /\ counter' = Reserve(0)
          /\ ReadBegins("observer", Reserve(0))
          /\ Send("observer", <<Event("Connected", 0, Nothing), Event("Started", Reserve(0), Nothing)>>)
          /\ UNCHANGED left
       \/ /\ Spend("ends")
          /\ session' = "waiting"
          /\ Send("observer", <<Event("Disconnected", 0, Nothing)>>)
          /\ UNCHANGED <<dirty, counter, reads>>
    /\ pending' = FALSE /\ notice' = FALSE
    /\ UNCHANGED <<daemon, resource, connected, mutation, outcome>>

Reconnect ==
    /\ session = "waiting"
    /\ session' = "connecting"
    /\ UNCHANGED <<left, daemon, notice, dirty, pending, counter, reads, outbox, resource, connected, mutation, outcome>>

\* The stream ends or reports an error: what it was reading is given up.
StreamEnds ==
    /\ Watching /\ Spend("ends")
    /\ session' = "waiting"
    /\ reads' = [reads EXCEPT !["observer"] = NoRead]
    /\ notice' = FALSE /\ pending' = FALSE /\ dirty' = FALSE
    /\ Send("observer", <<Event("Disconnected", 0, Nothing)>>)
    /\ UNCHANGED <<daemon, counter, resource, connected, mutation, outcome>>

\* Mutant: the daemon's notice is dropped.
Noticed_Never == UNCHANGED pending

\* A read is due once the notices have settled.
Noticed == pending' = TRUE

Notified ==
    /\ Watching /\ notice
    /\ notice' = FALSE
    /\ Noticed
    /\ UNCHANGED <<left, daemon, session, dirty, counter, reads, outbox, resource, connected, mutation, outcome>>

Debounced ==
    /\ Watching /\ pending
    /\ pending' = FALSE
    /\ StartRead(<<>>)
    /\ UNCHANGED <<left, daemon, notice, session, resource, connected, mutation, outcome>>

Reconcile ==
    /\ session = "resynced" /\ Spend("reconciles")
    /\ StartRead(<<>>)
    /\ UNCHANGED <<daemon, notice, session, pending, resource, connected, mutation, outcome>>

Answered(t) ==
    Event(IF reads[t].step = "read" THEN "Succeeded" ELSE "Failed", reads[t].gen, reads[t].seen.ver)

\* The observer's read has ended: its answer, and the next read if one is due.
Joined ==
    /\ Watching /\ reads["observer"].step \in {"read", "failed"}
    /\ session' = IF reads["observer"].step = "read" THEN "resynced" ELSE session
    /\ dirty' = FALSE
    /\ IF dirty
       THEN /\ counter' = Reserve(0)
            /\ ReadBegins("observer", Reserve(0))
            /\ Send("observer", <<Answered("observer"), Event("Started", Reserve(0), Nothing)>>)
       ELSE /\ reads' = [reads EXCEPT !["observer"] = NoRead]
            /\ Send("observer", <<Answered("observer")>>)
            /\ UNCHANGED counter
    /\ UNCHANGED <<left, daemon, notice, pending, resource, connected, mutation, outcome>>

Observe == Connect \/ Reconnect \/ Notified \/ Debounced \/ Joined

-----------------------------------------------------------------------------
(* A refresh the user asks for: App::start_refresh and StartLocalSnapshotRefresh *)

Started(res, gen) ==
    [res EXCEPT !.gen = gen, !.status = IF res.ver = Nothing THEN "Loading" ELSE @]

StartRefresh ==
    /\ Spend("refreshes")
    /\ reads["refresh"] = NoRead /\ outbox["refresh"] = <<>>
    /\ LET gen == Reserve(resource.gen + 1) IN
       /\ resource' = Started(resource, resource.gen + 1)
       /\ counter' = gen
       /\ ReadBegins("refresh", gen)
       /\ Send("refresh", <<Event("Started", gen, Nothing)>>)
    /\ UNCHANGED <<daemon, notice, session, dirty, pending, connected, mutation, outcome>>

RefreshRead ==
    /\ reads["refresh"].step \in {"read", "failed"}
    /\ reads' = [reads EXCEPT !["refresh"] = NoRead]
    /\ Send("refresh", <<Answered("refresh")>>)
    /\ UNCHANGED <<left, daemon, notice, session, dirty, pending, counter, resource, connected, mutation, outcome>>

-----------------------------------------------------------------------------
(* A local mutation: App::accept_confirmation and run_local_mutation *)

\* The mutation lock.
CanMutate == mutation = NoMutation

\* Connect, disconnect, or switch to another account.
AcceptMutation ==
    /\ Spend("mutations") /\ CanMutate
    /\ \E up \in BOOLEAN :
           mutation' = [step |-> "accepted", up |-> up, account |-> left.account, cancel |-> FALSE,
                        error |-> "none", answer |-> NoRead, result |-> "none"]
    /\ UNCHANGED <<daemon, notice, session, dirty, pending, counter, reads, outbox, resource, connected, outcome>>

Mutating(step) == mutation # NoMutation /\ mutation.step = step

CancelMutation ==
    /\ mutation # NoMutation /\ mutation.step # "sent" /\ ~mutation.cancel
    /\ mutation' = [mutation EXCEPT !.cancel = TRUE]
    /\ UNCHANGED <<left, daemon, notice, session, dirty, pending, counter, reads, outbox, resource, connected, outcome>>

Changes(up) ==
    /\ daemon' = [ver |-> daemon.ver + 1, up |-> up]
    /\ notice' = (notice \/ Watching)

NotDispatched ==
    /\ Mutating("accepted") /\ mutation.cancel
    /\ mutation' = [mutation EXCEPT !.step = "sent", !.result = "CancelledBeforeDispatch"]
    /\ UNCHANGED <<left, daemon, notice, session, dirty, pending, counter, reads, outbox, resource, connected, outcome>>

\* The command runs, fails, or is interrupted before or after it takes effect.
\* Whatever came of it, the status is read.
RunCommand ==
    /\ Mutating("accepted")
    /\ \/ /\ ~mutation.cancel
          /\ mutation' = [mutation EXCEPT !.step = "reading"]
          /\ Changes(mutation.up)
          /\ UNCHANGED left
       \/ /\ ~mutation.cancel /\ Spend("faults")
          /\ mutation' = [mutation EXCEPT !.step = "reading", !.error = "Failed"]
          /\ UNCHANGED <<daemon, notice>>
       \/ /\ mutation' = [mutation EXCEPT !.step = "reading", !.error = "Interrupted", !.cancel = TRUE]
          /\ Changes(mutation.up) \/ UNCHANGED <<daemon, notice>>
          /\ UNCHANGED left
    /\ counter' = Reserve(0)
    /\ ReadBegins("mutation", Reserve(0))
    /\ UNCHANGED <<session, dirty, pending, outbox, resource, connected, outcome>>

\* The read gives up when the mutation is cancelled.
MutationReadCancelled ==
    /\ Mutating("reading") /\ mutation.cancel
    /\ reads["mutation"].step \in {"queued", "reading"}
    /\ reads' = [reads EXCEPT !["mutation"].step = "failed"]
    /\ UNCHANGED <<left, daemon, notice, session, dirty, pending, counter, outbox, resource, connected, mutation, outcome>>

\* run_local_mutation's result: only a fresh status verifies.
Verdict(read) ==
    IF mutation.error = "Failed" THEN "CommandFailed"
    ELSE IF read.step = "failed" THEN IF mutation.error = "Interrupted" THEN "OutcomeUnknown" ELSE "ReadFailed"
    ELSE IF read.seen.up = mutation.up THEN "Verified"
    ELSE "VerificationMismatch"

MutationRead ==
    /\ Mutating("reading")
    /\ reads["mutation"].step \in {"read", "failed"}
    /\ mutation' = [mutation EXCEPT !.step = "sent", !.answer = reads["mutation"], !.result = Verdict(reads["mutation"])]
    /\ reads' = [reads EXCEPT !["mutation"] = NoRead]
    /\ UNCHANGED <<left, daemon, notice, session, dirty, pending, counter, outbox, resource, connected, outcome>>

\* App::invalidate_local_state.
Invalidated(res) == [gen |-> res.gen + 1, status |-> "NeverLoaded", ver |-> Nothing]

\* App::apply_fresh_snapshot.
WithFresh(res, read) ==
    IF read.step # "read" THEN res
    ELSE [gen |-> res.gen + 1, status |-> "Fresh", ver |-> read.seen.ver]

MutationFinished ==
    /\ Mutating("sent")
    /\ LET m == mutation
           forget == m.account /\ m.result \notin {"CommandFailed", "CancelledBeforeDispatch"}
       IN /\ resource' = WithFresh(IF forget THEN Invalidated(resource) ELSE resource, m.answer)
          /\ outcome' = m.result
    /\ mutation' = NoMutation
    /\ UNCHANGED <<left, daemon, notice, session, dirty, pending, counter, reads, outbox, connected>>

Mutate == NotDispatched \/ RunCommand \/ MutationReadCancelled \/ MutationRead \/ MutationFinished

-----------------------------------------------------------------------------
(* App::update_local *)

\* LocalResource::succeed and fail.
Newer(res, gen) == gen >= res.gen

Heeded(res, e) ==
    CASE e.kind = "Started" /\ Newer(res, e.gen) -> Started(res, e.gen)
      [] e.kind = "Succeeded" /\ Newer(res, e.gen) -> [gen |-> e.gen, status |-> "Fresh", ver |-> e.ver]
      [] e.kind = "Failed" /\ Newer(res, e.gen) ->
             [res EXCEPT !.gen = e.gen, !.status = IF res.ver = Nothing THEN "Failed" ELSE "Stale"]
      [] e.kind = "Disconnected" /\ res.status = "Fresh" -> [res EXCEPT !.status = "Stale"]
      [] OTHER -> res

HandleLocal(t) ==
    /\ outbox[t] # <<>>
    /\ LET e == Head(outbox[t]) IN
       /\ resource' = Heeded(resource, e)
       /\ connected' = IF e.kind \in {"Connected", "Disconnected"} THEN e.kind = "Connected" ELSE connected
    /\ outbox' = [outbox EXCEPT ![t] = Tail(@)]
    /\ UNCHANGED <<left, daemon, notice, session, dirty, pending, counter, reads, mutation, outcome>>

\* The daemon's state changes by another hand.
DaemonChanges ==
    /\ Spend("changes")
    /\ \E up \in BOOLEAN : Changes(up)
    /\ UNCHANGED <<session, dirty, pending, counter, reads, outbox, resource, connected, mutation, outcome>>

LocalNext ==
    \/ Observe \/ StreamEnds \/ Reconcile
    \/ \E t \in Tasks : ReadLocked(t) \/ ReadAnswers(t) \/ HandleLocal(t)
    \/ StartRefresh \/ RefreshRead
    \/ AcceptMutation \/ CancelMutation \/ Mutate
    \/ DaemonChanges

LocalSpec == LocalInit /\ [][LocalNext]_localVars

-----------------------------------------------------------------------------
(* Properties *)

LocalResources == [gen : Nat, status : {"NeverLoaded", "Loading", "Fresh", "Stale", "Failed"}, ver : Nat]
LocalReads  == [gen : Nat, step : {"none", "queued", "reading", "read", "failed"}, seen : [ver : Nat, up : BOOLEAN]]
LocalEvents == [kind : {"Connected", "Disconnected", "Started", "Succeeded", "Failed"}, gen : Nat, ver : Nat]
Verdicts    == {"CancelledBeforeDispatch", "CommandFailed", "OutcomeUnknown", "ReadFailed", "Verified", "VerificationMismatch"}

LocalMutations ==
    [step : {"accepted", "reading", "sent"}, up : BOOLEAN, account : BOOLEAN, cancel : BOOLEAN,
     error : {"none", "Failed", "Interrupted"}, answer : LocalReads, result : Verdicts \cup {"none"}]

LocalTypeOK ==
    /\ left \in LocalAllowances
    /\ daemon \in [ver : Nat, up : BOOLEAN]
    /\ session \in {"waiting", "connecting", "watching", "resynced"}
    /\ {notice, dirty, pending, connected} \subseteq BOOLEAN
    /\ counter \in Nat
    /\ reads \in [Tasks -> LocalReads]
    /\ outbox \in [Tasks -> Seq(LocalEvents)]
    /\ resource \in LocalResources
    /\ mutation \in LocalMutations \cup {NoMutation}
    /\ outcome \in Verdicts \cup {NoOutcome}

Quiet ==
    /\ Watching /\ connected
    /\ ~notice /\ ~pending /\ ~dirty
    /\ \A t \in Tasks : reads[t] = NoRead /\ outbox[t] = <<>>
    /\ mutation = NoMutation

\* As long as no mutation has ended: once nothing is under way, what is shown
\* as fresh is the daemon's state.  No change was missed, whichever order reads
\* and answers came in.  (The status a mutation has read is taken as the newest
\* whatever was read since: only the next reconcile mends that.)
QuietMeansCurrent ==
    Quiet /\ outcome = NoOutcome /\ resource.status = "Fresh" => resource.ver = daemon.ver

=============================================================================
