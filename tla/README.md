# A formal model of Tale

Tale is a keyboard-driven terminal interface for Tailscale. This directory holds TLA+
modules that model the parts of Tale where order, failure and concurrency decide whether it
is correct, TLC configurations that check them on small instances, and proofs, checked by
TLAPS, of what holds for every instance. File references are relative to the repository
(`runtime.rs` is `src/runtime.rs` there).

    tlc -workers 2 -config MCEventQueue_contended.cfg MCEventQueue
    tlc -workers 2 -config MCSession_current.cfg MCSession
    tlapm EventQueueProofs.tla

`PROJECT.json` lists the components, the runs, the lines each definition stands for, the
hazards and the theorems.

## How Tale is built

One thread of control owns the state. `run_with_driver_and_queue` (`runtime.rs`) takes an
`Event` from one `EventQueue`, hands it to `App::update` (`app.rs` and the reducers under
`app/`), which changes the `App` and returns a list of `Effect`s; `dispatch_effect` starts
each of them as a tokio task, and the task answers with further events on the same queue.
So nothing in the reducers runs concurrently, but every answer is handled long after the
state it was asked from has changed, the tasks run in parallel with the loop and with each
other, and the queue they all share is bounded. The correctness of Tale is in how a late,
duplicate, missing or reordered answer meets the state it finds.

### Inventory

| Component | State | Operations | What makes it correct |
|---|---|---|---|
| Event queue, run loop (`runtime.rs`) | deque of 256 events, one `Notify`, join set, cancellation flags | `send`, `recv`, dispatch, shutdown with a grace period | no completion lost, doubled or reordered; bounded; nobody waits for ever |
| Task store and life cycle (`task.rs`, `app/task_reducer.rs`) | list of tasks, dirty set, session set | create, start, progress, cancel, finish, evict, merge | a task moves only forward; every change reaches the history |
| Task history (`database/task_history.rs`) | SQLite table, an actor with an unbounded command channel | connect, restore, save (with retention), fail | rows only move forward; only the oldest ended rows are forgotten; interrupted means interrupted |
| Admin writes (`domain/admin_mutation.rs`, `app/admin_reducer.rs`, `app/source_reducer.rs`, `run_admin_mutation`) | requests, resource locks, confirmation overlay, mutations and batches in flight, generation | form, preflight, conflict, confirm, dispatch, verify, finish; batches of four; retry | one writer per resource, fresh preflight, nothing dispatched unconfirmed, every lock released, every target of a batch answered; what is told of a change is so |
| Admin refresh and profiles (`app/source_reducer.rs`) | generation, snapshots per profile, read locks | refresh, enrich, probe, switch, cancel | a stale answer never overwrites a newer snapshot; no answer crosses profiles |
| Admin tokens (`admin/auth.rs`, `admin/client.rs`) | token cache behind a mutex | exchange, replay, retry | one exchange for all who wait; an expiry is not seen by the user |
| Policy workflow (`domain/policy_workflow.rs`, `app/policy_reducer.rs`) | draft, ETag, validation and preview of a draft revision, temporary files | edit, validate, preview, confirm, apply, verify | what is applied is what was validated and previewed, over the revision it was based on |
| Terminal handoff (`terminal.rs`, `local/handoff.rs`) | raw mode, input gate, suspended flag | suspend, run, resume, refuse | the terminal is restored on every path; one child at a time |
| Local daemon observer (`local/ipn.rs`, `local/daemon.rs`) | generations, watcher state, read serialisers | discover, watch, reconnect, targeted reads | late reads never replace newer state; a lost watcher marks what it fed as stale |
| Local mutations (`domain/mutation.rs`, `app/local_reducer.rs`, `app/action_reducer.rs`) | one mutation lock, preflight, task | form, confirm, run, verify, cancel | one local mutation at a time; it does what was reviewed and nothing beside it |
| Local services (`app/service_reducer.rs`, `local/services.rs`) | service snapshots, locks by kind, refresh generation | refresh, serve, funnel, drive, files, certificates | a stale refresh never wins; a task keeps to what was confirmed |
| Operational changes (`app/operational_reducer.rs`, `app/credential_reducer.rs`, `domain/secret_result.rs`) | pending change, view-once secret | create key, webhooks, log streams, flow logging, revoke, close | a secret is shown once, and not lost by a switch of profile; nothing pending is left over |
| Activity logs and exports (`domain/flow.rs`, `domain/audit.rs`, `domain/export.rs`) | flow window and sums, audit window, two filters, pending document | ask, filter, aggregate in a worker, page, export | what is shown and written is of the window, the filter and the profile it says |
| Process execution (`local/process.rs`) | child, bounded buffers, cancellation, deadline | run, stream, kill | output bounded, child always reaped, cancellation and timeout told apart |
| Files (`domain/saved_view.rs`, `private_file.rs`, `temporary.rs`, `secrets.rs`) | versioned files, private modes, keyring | read, replace atomically, remove | a crash leaves the old file or the new one |
| Navigation (`app.rs`, `app/interaction_reducer.rs`, `app/collection_reducer.rs`) | route, overlay stack, filter line, selections | open, close, move, accept | a selection survives refreshes; the top overlay owns the input; what is accepted is what was shown |
| Pure algorithms (`domain/filter.rs`, `flow.rs`, `health.rs`, `redaction.rs`, ...) | none | evaluate, aggregate, redact | equal to their reference definitions |
| Configuration, CLI, doctor; rendering and themes; mock source | read once, or derived | - | see "Not modelled" |

### What is hard

Interleavings of tasks on the multi-threaded runtime around the one `Notify`; answers that
arrive after a cancellation, a refresh, a switch of profile or a shutdown; generations that
order answers and are made up in more than one place; snapshots written to the database long
after they were taken; the end of the process between two writes; several Tales over one
state directory; locks taken by one event and released by another; batches of which some
children fail, some are cancelled and some never start; the one request that makes a change
and whose answer may be lost; forms that are filled from one state, reviewed in a second and
accepted in a third. The `hazards` of `PROJECT.json` name the lines.

## Modules

| Module | Role |
|---|---|
| `EventChannel` | what the run loop relies on: a bounded FIFO that coalesces Ticks and Resizes |
| `EventQueue`, `EventQueueProofs` | `EventQueue::send` and `recv` with tokio's `Notify`; that they implement the channel (and a theorem about `ActivityLogs`) |
| `DurableHistory` | what the task history table promises |
| `TaskLifecycle`, `TaskLifecycleProofs` | task store, workers, cancellation, history actor, SQLite, quit, crash, restart |
| `AdminWrites`, `AdminWritesProofs`, `AdminBatchesProofs` | changes and batches: forms, preflights, confirmations, locks, dispatch, retries |
| `AdminChanges` | one change of each of the sixteen kinds, from its base to what is told of it |
| `AdminReads` | refreshes, device reads, own writes, switch of profile, composed device list, health |
| `AdminTokens` | the token shared by reads, its exchange, replay and retries |
| `TerminalHandoff` | who owns the terminal |
| `PolicyWorkflow`, `PolicyWorkflowProofs` | the policy workflow; extends `TerminalHandoff` with the editor |
| `LocalObserver` | the observer of the daemon, the reads beside it, the status they feed |
| `OperatorRequests` | what is asked of the local node, from form to verdict |
| `LocalServices` | the lists of services under refreshes and tasks |
| `ServiceRequests` | what is asked of the services, from row to verdict |
| `OneTimeSecrets` | keys, webhooks, settings and revocations: overlays, lost answers, secrets |
| `OperationalRequests` | webhooks, log streams and flow logging: forms, requests, verification |
| `ActivityLogs` | flow and audit windows, their filters and sums, exports |
| `StreamedCommand` | a child, its two pipes, the readers, the channel of lines, the loop |
| `PrivateFiles` | the files Tale writes, step by step, under failures, deaths and other writers |
| `SavedViews` | the filter language, views saved of it and opened again |
| `DeviceView` | the visible rows, the selection, the filter line, the history of views |
| `ActionDialogs` | from a key over overlays to an effect |
| `EndingsProofs` | theorems about `AdminTokens`, `StreamedCommand`, `OperatorRequests`, `DeviceView` and `SavedViews` |
| `AdminReadsProofs` | theorems about `AdminReads`, `AdminChanges`, `OneTimeSecrets` and `OperationalRequests` |
| `SessionProofs` | theorems about `LocalObserver`, `PrivateFiles`, `ActionDialogs`, `LocalServices` and `ServiceRequests` |
| `MCEventQueue`, `MCTaskLifecycle`, `MCAdminWrites`, `MCPolicyWorkflow` | instances of one module |
| `MCSession`, `MCEndings` | instances of several: safety of what is shown and done; what must end |

Three interfaces tie the modules together. Every worker answers through the queue, which
`EventQueue` shows to be a FIFO that loses nothing; the other modules use this and keep a set
or a sequence of answers under way. `TaskLifecycle`, `AdminWrites`, `LocalServices` and
`OperatorRequests` share tasks, of which each keeps the state it needs. `PolicyWorkflow`
extends `TerminalHandoff`, whose steps `Next` combines with its own. The remaining modules
meet in `App` only through fields that each of them holds itself (`admin_generation` in
`AdminReads`, `OneTimeSecrets` and `ActivityLogs`; overlays in `ActionDialogs`,
`OneTimeSecrets` and `ServiceRequests`), with the other users of that field as actions of the
environment: a refresh, a switch, another dialog may come between any two steps.

Conventions. In each module one record, drawn from a constant set of scenarios (the `Bounds`
constant), says what may still happen: user actions, answers lost, changes by another hand,
ticks. It is the only bound on the length of a behaviour. "History" in the comment of a
variable marks those no action reads. A request that is refused with a message and no other
effect is no step, unless a property is about the message.

### EventQueue

`events` is the deque. `permit`, `waiters` and `signalled` are the state of the tokio
`Notify`: a stored `notify_one` permit, the registered futures in order, and whether
`notify_waiters` ran since a future was created. `Notify` is external; `NotifyOneAndReturn`
and `Poll` follow its documentation and its implementation: `notify_one` wakes the oldest
waiter or stores one permit, a first poll takes the permit, `notify_waiters` completes every
future that exists, registered or not.

One lock section is one action: `Coalesce`, `Push`, `DropTick` and `Arm` are the four ways
through `send`'s critical section, `Pop` and `FindEmpty` the two through `recv`'s. What
happens outside the lock is an action of its own: `Await` and `AwaitEvent` poll a future,
`NotifyWaiters` wakes the senders after an event was taken. `pc` says where each process is.

`Workers` send events that must arrive, `Inputs` is the terminal reader (keys and resizes),
`Tickers` the interval. `received` is a history of what `recv` returned; Ticks are left out
of it so that the state space stays finite. `MaxSends` bounds what each process sends.

### TaskLifecycle

`tasks[i]` is the list of process `i` (state of each listed record; texts and times are left
out), `session` the records of this run, `worker` the spawned tokio task of each record,
`mail` its events under way, `cancelled` its flag, `actor`, `restored` and `commands` the
history actor, and `db` the table. Records are numbered in the order of creation, which is
the order of `(started_at, record_id)`, both taken from the clock.

`App::update` handles an event, then drains the dirty set into one Upsert: `Update` is that
common tail and every handler ends in it. Worker events are per-worker FIFOs; that they
arrive once and in order is what `EventQueue` shows (`WorkerEventsArriveOnce`). A worker
sends `Started`, progress (at most one is modelled: a second one repeats the same step) and
one end. `Cancelled` needs the flag; `Succeeded` and `Failed` may still follow it, because a
worker may have passed its last look at the flag. `Fail` is any database error: the actor
ends and later sends go nowhere. `Exit` ends the process after a quit; the grace period of
one second is abstract, so what workers and actor still had to do may be done, in part or
not at all, before it. `Crash` ends it at any time.

`finished` and `lost` are history variables: the records whose end was shown, and those of
which an update never reached the database through a crash or a failed database.

Left out: the selection in the task list, notifications, replays of finished tasks, and the
children of batches (those are in `AdminWrites`). The whole life cycle stops when the launches
are used up, so these runs do not check for deadlock.

### AdminWrites and AdminChanges

A request goes through `stage`: *reading* (its `run_admin_preflight` runs), *read* (the answer
is on its way), *ready* (a child whose batch still misses answers), *shown* (in a
confirmation), *pending* (`pending_requests` of its batch), *starting*, *sent*, *answered*
(`run_admin_mutation`), *over*. *Stranded* requests were created, and locked, by a batch form
that then returned early: their effects are dropped. `request` holds what the reducer keeps of
it; `read` and `observed` are the verdict and the time of the preflight. `locks` and
`preflightLocks` are `admin_resource_locks` and `admin_preflight_locks`, `gathering` and
`aborted` the batch preflights, `outcome` what the worker answered and what the parent
collects. `sent` and `applied` say what happened at the remote side, which Tale learns only
through responses (`Verify`); `applied` also counts a change that was found in place.

The reducer's handlers are atomic. The workers interleave with them and with each other: an
answer is an action of its own, so it meets whatever the user, another answer, a refresh or a
cancellation has done since. `EndTask` and `FinishChange` or `FinishChild` are two events of
one worker, in that order. The common ends of handlers are inside the actions: a finished
write starts a refresh of what it changed and so outdates every open confirmation.

Abstractions. The generation of admin data, which a confirmation compares for equality, is the
flag `current` of each overlay, cleared when the generation moves. Ids only grow; a batch takes
the block `p..p+N`, its parent `p` and a child for each advertiser, whatever part of it is used.
`Changes` are the two shapes of lock a single change can take; users, keys and DNS follow the
same path with resources of their own. One clock serves the application and the workers.
A refusal that only sets an error text is a stuttering step, except for the two whose text a
property is about (`notice`). What a fresh read may find is chosen freely; that a verified
value implies an applied write is assumed of the server. A child beyond the first `Width` has
no replay in the code, which `HasReplay` says.

`AdminChanges` opens what `AdminWrites` chooses freely: what the form takes as its base
(`base`), what each read of the preflight finds (`fresh`), what becomes of the one request
(`arriving`: sent, accepted, applied or refused, with the answer lost, late or unreadable in
`reply`), the reads of the verification until its deadline, and the lists read again
(`lists`). `ChangeKinds` has a row for each of the sixteen kinds: the field it sets, the fields
its conflict check compares and how its verification reads it. Another administrator changes
fields of the same resource (`disturbed`). Left out of both: read-only mode, scopes and absent
profiles (they only refuse), and audit correlation.

### AdminReads and AdminTokens

`admin` holds the profile and, for each of two resources that stand for all, its state and
the version of the server it shows; `saved` the snapshots of other profiles. `readers` are the
tasks of a full refresh, a partial one or one device's detail; each carries the generation it
was started with, reads the server at some moment, and answers. `token` is the cancellation
token of the last refresh. `RefreshAll`, `RefreshView`, `StartDetail`, `SwitchProfile`,
`ProfileProbed`, `Accept`, `WriteFinished` and `Handled` are the handlers of
`source_reducer.rs`, with the restarts and the read locks they include. `server` counts writes, `acked` those known to
have ended; `view` is the composed device list, `health` the profile the findings are about.

`AdminTokens` is `access_token`, `refresh_after_unauthenticated` and the loop of a request:
the cached token, the mutex held across an exchange, tokens that lapse or are revoked, one
replay of a read that was not authenticated, retries after a lost answer, and a reader that is
cancelled at any of these points.

### PolicyWorkflow and TerminalHandoff

`held` are the modes the terminal is in, `acquired` those the session believes it holds; any
of the operations between may fail (`faults`). `child` says of each slot which child it has
and which event ends it, and `active`, `gate` and `suspended` are the three flags that must
agree. `wf` is `PolicyWorkflow` (state, base, ETag, candidate, verdicts by draft revision),
`request` the requests under way with what they have read so far and their answers, `files`
the temporary copies, `temp` and `latest` where the application believes they are. The
comparison with the remote policy, the save, and the read after a save that was refused for
its ETag are three steps, between which another administrator may save, or take his change
back. A document stands for its bytes and for their hash.

### LocalObserver and OperatorRequests

`session` and `pending` are the observation loop (connect, watch, debounce, read, resync),
`counter` is the generation of `ReadSerializers`, `reads` are the reads of the observer, of a
refresh and of a mutation, each at its step between taking the number and sending the event,
`outbox` their events, `resource` is `App.local_resource` with the generation it keeps.

`OperatorRequests` follows ten kinds of request (preferences, exit node, advertisement,
connection, accounts, log in and out, reload of policy) from the form, and what it is filled
with, over validation against policy, the review and its phrase, to the argument list, what
the daemon makes of it, the read that verifies it and the verdict. `node` is the daemon,
changed by another hand too, `known` what Tale believes and has open, `work` the mutation.
Two flags stand for the ten of the preferences form, and two routes with one relay port for
the lists.

### LocalServices and ServiceRequests

`LocalServices` keeps what orders answers: `refresh` are refreshes under way, each reading
three lists one after the other with the generation it was begun with, `job` the tasks that
change one list under the lock of its kind and read it again, `services` the snapshot with
its own counters. `ServiceRequests` keeps the way of one request: `machine` is the client's
configuration by port and mount, `store` the lists, the row selected and what is open, `order`
the task with its argument list and what it verified. Serving without a path, removing and
publishing work on a whole port in the client, which is where the address that was confirmed
and the address that is changed may differ.

### OneTimeSecrets, OperationalRequests, ActivityLogs

`OneTimeSecrets` holds the pending fields of `App` (`keyPending`, `opPending`,
`revokePending`), the stack of overlays and, for each change, whether its worker has written,
read back, and answered; the secret of a new key or webhook is in that answer only.
`OperationalRequests` takes the same changes from their forms: which endpoint or stream the
form is filled from, which one the request is made of, the sets of events and of known and
unknown subscriptions, the full replacement of a log stream, and the two reads of `verify_*`.

`ActivityLogs`: `fetches` are the reads of flows and audit under way, with generation and
profile; `prompt` the form or review on top; `narrowed`, `flows`, `tallyGen` and `tallies` are
`App.flow_filter`, `flow_snapshot`, `flow_aggregation_generation` and the workers that
aggregate; `days`, `sieve`, `audit` and `shelved` the audit window, its filters, and the
activity of this and of the other profiles; `sketch` is `pending_export_document`, built when
its review opens. Filters and sums are operators (`MatchesFlow`, `Tally`, `MatchesEvent`) over connections
with counters that overflow at `CounterLimit` and a window cut at `MessageLimit` messages.
One field, "port", stands for ports and addresses.

### StreamedCommand and PrivateFiles

`StreamedCommand`: two `reader`s take lines from pipes of `PipeSize`, keep `OutputLimit` of
them and put every line in a channel of `LineSlots`; the `waiter` is the future of `run_lines`
(wait for the child, a deadline or a cancellation; then join the readers), and the `loop`
polls it while it takes lines. `heir` is a process the child has left behind with its pipes.

`PrivateFiles`: each operation is a sequence of steps (`pc`): read whole, write the temporary
file, rename, and for `tale auth add` the second file, or the undoing of the first. `disk`
holds each file's entries and whether it is whole; a step may fail, the process may die before
any step, and a second process runs after it or beside it.

### SavedViews, DeviceView, ActionDialogs

`SavedViews` has the filter language: tokens to terms (`ParsedTerm`), terms tested against
a device (`IsListed`), terms to clauses of a view (`ClauseOf`), back (`TermOf`), and to a line
(`TokenOf`). One field stands for each kind of
field. `shelf` is the store in memory and the file, which the next start accepts or refuses
as a whole.

`DeviceView`: `screen` holds route, list, cached rows and their key, selection, sort, filter
and the bounded history; `filterLine` the line with what Esc restores. Refreshes, ticks, a lost
daemon and a profile's probe change it without a key.

`ActionDialogs` follows a key: a menu or the command line opens a form or a confirmation, a
form becomes a confirmation at once or when a preflight has answered, Enter accepts what is on
top. `desk` is that part of the reducer's state, with a queue of reviews pushed asynchronously;
one kind of action stands for each way through `accept_confirmation`.

## What is checked

| Run | Instance | Shows |
|---|---|---|
| `queue_contended` | fair, one worker, one terminal reader, the interval, two places, three sends each | a worker's events arrive once and in order; refinement of `EventChannel!Spec`; the interval keeps a queue that holds a Tick moving |
| `queue_below` | fair, never more events than places | every event is handled, and the fair channel is implemented |
| `queue_full` (violation) | three workers, two places, the interval | a lost wake-up: the loop and all workers wait for ever in front of a full queue |
| `lifecycle_solo` | one Tale, two starts, two tasks, room for one ended task | the database catches up with the list; refinement of `DurableHistory!Spec` |
| `lifecycle_evicted` (violation) | room for one ended task | an evicted end is never persisted and comes back as interrupted |
| `writes` | one device: edits and deletions, deletions beside batches, reviews that grow old (age 0, one step of time); two profiles: a batch with the retries of its child and of itself, five ids | one writer per resource; only reviewed changes are written; no lock is left behind, by retries, refusals or switches of profile under a dialog |
| `writes_stale` (violation) | a batch of two, one child at a time, two steps of time, age 1 | the child that waited is written on a review that has grown too old |
| `writes_stranded` (violation) | the second advertiser cannot accept the routes | the first one stays locked for ever |
| `policy` | six scenarios: a save that meets another's, who then takes his back; another's change while the draft is made; a draft another program rewrites; children and failures while the editor starts, a second workflow, a review that grows old | what is saved was previewed, over nobody's change; what is said to have failed changed nothing; no copy is left; the terminal has one user and comes back; an application ends |
| `current` | thirteen parts, for each a handful of scenarios (below) | what is shown is current and of the active profile, what is done is what was reviewed, what is told is so |
| `endings` | fair; a batch of two, one child at a time; a task over two starts; three reads sharing a token; five commands | a batch ends, answered in all its children, each sent once; a cancelled task ends and is stored; one exchange serves all readers; a command's output is kept and it ends |
| `reopened` (violation) | a filter saved as a view and opened again | the list is not the one that was saved |

The properties of `current`, by part:

| Part | Module | Property | It says |
|---|---|---|---|
| reads | `AdminReads` | `ShownIsOwn` | resources, findings and device list are of the active profile and never of two tailnets |
| | | `ReadYourWrites` | what is shown as current includes every own change that was reported done |
| | | `ReadsArePursued` | nothing loads that nobody reads; no device stays locked for a read |
| | | `ChoicesHold` | only the profile chosen last becomes active; a review is accepted only on the data it showed |
| local | `LocalObserver` | `QuietMeansCurrent` | once nothing is under way, what is shown as fresh is the daemon's state |
| operator | `OperatorRequests` | `CommandsDoAsReviewed` | a mutation does what was reviewed and nothing beside it, and is verified only if that was read |
| services | `LocalServices` | `ServicesAreCurrent` | at rest, a list shown as ready is the client's, however answers crossed |
| request | `ServiceRequests` | `RequestsDoAsConfirmed` | a task keeps to the address, port and share confirmed; what is called verified was read |
| secrets | `OneTimeSecrets` | `WhatIsAskedIsSettled` | a secret reaches the user, answers are true, nothing pending is left over |
| operations | `OperationalRequests` | `OperationsAreAsReviewed` | a webhook or log stream is changed as reviewed, and told as it is |
| change | `AdminChanges` | `ChangeIsAsTold` | done, rejected and not sent mean that |
| files | `PrivateFiles` | `FilesAreAsSaid` | files are whole, and what is told of an operation is so |
| view | `DeviceView` | `SelectionIsKept` | cache, filter, selection and history agree through refreshes and changes of route |
| dialog | `ActionDialogs` | `OnlyReviewedStarts` | every effect is the one a confirmation showed, once |
| shelf | `SavedViews` | `ViewsStayUsable` | what is written is accepted by the next start; a reopened view shows no other devices |
| logs | `ActivityLogs` | `LogsAreAsAsked` | window, filters, sums and exported rows belong together and to one profile |

One run holds what could be thirteen because a behaviour is of one `part`, drawn in the initial
state, and the others rest: the state space is the sum of the parts', not their product, and
each property speaks of its part alone. The same holds for `endings`.

Where a property has an exception, it is a behaviour of the code that was found by checking the
property without it; the comment on the property names it and "Met while modelling" lists it.

### Bounds

Two places are the smallest queue in which a full queue can hold an event of another
kind than the one that arrives, and a sender can be parked while the other place is refilled;
three sends let a sender be parked, woken in vain and parked again. Two records are enough
for eviction, trimming and order to matter, two starts for a restore over what the first one
left, and one ended task of room for each of the two retention algorithms to act. For
writes, two ids are an edit and a deletion of one device, three a deletion and a batch over
the same routes, or one batch of two; five are a batch, the retry of its child and a second
batch of the same advertiser. The scenarios of `MCAdminWrites` (`Edits`, `Removals`, `Switches`,
`Retries`, `Waiting`) say which meet. One device is enough for exclusion because locks of
different devices never meet; two advertisers and a width of one make a child wait, which is
what freshness needs (`writes_stale`), and one that refuses after one that does not makes a
lock stay (`writes_stranded`): the passing run has neither.

`policy` has two documents besides the unreadable one, two paths and two requests: one more of
each only repeats what two can do to each other. Another administrator saves twice, so that he
can take his own change back between a refused save and the read after it (`Saving`). In the parts of `current`, two readers, tasks
or workers are enough for answers to cross, two profiles for one to be late for the other, and
scenarios combine the kinds of step that meet in the code (the sets `...Scenarios` of
`MCSession`) instead of allowing all of them at once: a device read with an own write, a
switch with a probe, a mutation with a lost watcher, a removal with a failed read. Each value
of a form that the code tells apart occurs in a scenario: an address inside and outside the
events known, an overflow of counters, a window that is inverted, in the future, too long or
too old. In `endings` three readers make one wait for the mutex while another replays; pipes,
channel and buffers of one line are full at the second. `current` has 0.9 million states and
takes about two and a half minutes, no run more than four.

### Fairness

Tokio polls every runnable task: each sender that can go on does (`Deliver`), so
does the run loop (`Receive`), and the interval ticks for ever. No fairness is put on key
presses or on a worker's decision to report. In the life cycle the spawned worker starts, ends
once its flag is set (a live netcheck has no other end), its events are handled, the actor
works; nobody owes a new task, a cancellation, a crash or a launch, and a database may fail at
any time. Admin requests have a timeout, so every read, write and verification is answered,
and the loop handles every answer; no key press and no refresh is owed. The policy workflow
has the same for its requests, and the run loop handles the end of a child and stops after a
failed resumption; the child itself takes the time it likes. Reads that share a token go on
(`TokensFairness`: network calls time out, the mutex is fair). A command's child writes or
exits, its readers, its waiter and its loop are scheduled (`CommandFairness`). That what a
client has left behind closes the pipes in the end (`HeirEnds`) is an assumption about other
programs: the code has no bound of its own there. In `MCEndings` these conditions are guarded
by the part, so that a command at rest owes nothing.

## What is proved

`EventQueueProofs`, for any senders, capacity and number of sends:

* `TypeCorrect`: the type invariant, including that the registered futures are exactly those
  of the waiting processes, each registered once.
* `QueueBounded`: `BoundedAndCoalesced`.
* `NoStallBelowCapacity`: `StallOnlyWhenFull`. The statement is not inductive: a process is
  woken only if a notification finds it, so the invariant also says where each process can
  be (`PlaceInv`), that a permit is stored whenever the loop is between its look at the queue
  and its wait while the queue is not empty (`WindowInv`), and that a parked sender implies a
  full queue or a pending wake-up (`ParkedInv`).
* `QueueRefinesChannel`: `ImplementsChannel`; from the same invariant, each step is a step of
  the channel or leaves its variables alone.
* `ReportsArriveOnce`: `WorkerEventsArriveOnce`. The property counts over a filtered sequence;
  the invariant (`Ordered`) says instead, for each worker, that its events among those received
  and then among those queued have rising numbers and that each number accepted so far is one of
  them. Every change of the queue (a push, an event replaced in its place, one taken) has a
  lemma that keeps it, and a bijection turns it into the count. `SendersOwn` adds that what a
  worker waits to send is its own report.
* `LogsAreThose`, about `ActivityLogs`, for any tenants, windows, filters and order of answers: two
  of the four parts of `LogsAreAsAsked`, `FlowsAreThose` and `AuditIsOfItsWindow`. A read carries what
  it was sent for. Every question, refresh and switch takes a generation of its own, so the read
  that is current was sent for what was asked last and for the days chosen (`ReadFits`); all
  others are discarded.

`TaskLifecycleProofs`, for any tasks, starts, limits and outcomes:

* `TypeCorrect`, with any number of Tales.
* `ListedForward`: `ListedTasksMoveForward`, with any number of Tales; it needs `Fresh`, that a
  record not yet created is nowhere.
* `RowsForward`: `RowsMoveForward`, for one Tale. The invariant (`Solo`) says that the row of a
  record, the snapshots of it on their way to the actor, in order, and the task as listed
  follow each other (`Chain`), and that what the actor has read is still what the table holds
  until it is written back, and concerns earlier sessions only (`Reading`). With two Tales it is
  false: the second one rewrites rows the first is still moving.
* `HistoryKept`: `HistoryUpToDate`, and `TableIsDurable`: `ImplementsDurableHistory`, both for
  one Tale. The invariant `Told` adds to `Solo` that the last snapshot on its way of a task is the
  task as listed, or else the row is (`CaughtUp`), and that a task of the session that has left
  the list has as many newer ended ones before it as the table keeps (`Room`). The second is
  why trimming the table only forgets what `DurableHistory` may forget, although the list and
  the table are trimmed at different times by different actors: it needs a lemma that the newest
  `k` of a set are those with fewer than `k` newer ones, and that adding ended tasks never makes
  an old one recent.

These hypotheses are of the form `Instances = {i}`: the database is shared by as many processes
as have been started on one state directory, and only one of them is the case without races.

`AdminWritesProofs`, for any advertisers, profiles, changes, replacements, widths and ages:

* `TypeCorrect`, `Exclusion` (`OneWriterPerResource`) and `StaysInProfile`
  (`WritesStayInProfile`), all from `Invariance`, the inductive invariant `Inv`.
* Exclusion follows from `WritersHold`: what is being written, or waits in a batch, owns all its
  keys. That a confirmation keeps this needs that reviews show requests whose preflights were
  answered (`ReviewsAreRead`) and that the keys of a batch, which the code gives to child
  `p + t`, go to the child that locks them (`ChildIds`). That no key is released under a writer
  needs that preflight locks belong to requests before their review (`PreflightsAreEarly`).
* A switch of profile looks at writes under way and at running parents, not at waiting children;
  `ParentsWait`, that the parent of a waiting child has not ended, closes the gap.
* The proof has one summary of a step for identities (`Moves`: requests are born and go forward)
  and one for ownership (`Calm`: every step but a confirmation and a switch of profile leaves
  writers, their keys and their parents alone).

`AdminBatchesProofs`, for the same constants, from `Inv` and a second invariant `BatchInv`:

* `ReviewedIsWritten`: `OnlyReviewedIsWritten`. Nothing in a confirmation compares the form with
  the read; that was decided answers and overlays ago. So the invariant (`ReviewInv`) says that
  what is ready, shown or written was read and found the same (`ReadSame`), that once one child
  of a batch is past its review all were read (`BatchesReadWhole`), that the children of a batch
  are gathered, or given up, together and in the profile they were asked for
  (`GatheredOrAborted`, `GatheredHere`), and that an overlay shows requests that still wait for
  it, each in one overlay (`ReviewsAreShown`, `ReviewsDiffer`).
* `WriteLeavesOnce`: `SentOnce`, from the roads a request can take (`Roads`: a finite graph that
  never returns to "starting") and `SentIsGone`.
* `EndedIsAnswered`: `EndedBatchIsAnswered`. Outcomes come late and are true
  (`OutcomesComeLate`); a parent has no task before the confirmation and an active one as long as
  a child is under way (`ParentTasks`).
* `NoneOrphaned`: `NoOrphanedLock` (`LocksAreNeeded`), under the hypothesis `RefusedFirst`: in what
  the devices answer, an advertiser that takes the routes never comes before one that does not.
  The hypothesis excludes the case that the code does not handle (finding 3 of the list below;
  run `writes_stranded`) and nothing else; the passing run that checks the property satisfies it.

`PolicyWorkflowProofs`, for any documents, paths, requests, children and scenarios:

* `TypeCorrect`: workflows, requests and children with the fields their state calls for.
* `TerminalOwned`: `TerminalIsOwned`, from `TerminalInv`: while no child was refused, one child at
  most runs, and it runs on a suspended terminal. It says nothing from the first refusal on,
  after which the code gives the terminal away under the child that has it.
* `FilesGoWithWorkflow`: `NothingLeftBehind`: a closed workflow has neither file nor path.
* `FailureIsUnsaved`: `FailureMeansUnsaved`, and `ReviewedIsSaved`: the action property
  `SavesReviewedDraft`. `RequestsInv` follows one draft through four places: an answered preview
  brings a document that was shown, the preview a workflow keeps was shown, the application
  asked for carries that document, and before the comparison it has not saved.

`AdminReadsProofs`, for any resources, profiles, readers, credentials, workers and scenarios, and for
a change of any of the sixteen kinds and any operation on any tailnet:

* `TypeCorrect`, with `Standing` (before the first refresh the first profile is active).
* `OwnIsShown`: `ShownIsOwn`. `Own` says it of every profile's saved data, of the health
  evaluations under way and of the composed list, since a switch brings all of them back.
* `WritesAreRead`: `ReadYourWrites`. `Current`: no read is of a generation yet to come; only what
  a write under way is over can be ahead of what was acknowledged; what the current reads have
  already got includes what was acknowledged; a confirmation and a write exclude each other.
* `LoadingIsPursued`: `ReadsArePursued` (`Pursued`; `LocksAreHeld`: the holder of a device lock is a
  detail read that was not cancelled).
* `DecisionsHold`: the action property `ChoicesHold` (`Decided`: a probe is of the profile chosen
  last; a confirmation of this generation is of the data as reviewed).
* `ChangeTypeCorrect` and `ChangesAreToldAsTheyAre`: `ChangeIsAsTold`. The sixteen kinds enter only through
  `ShapesFit`: each sets a field it reads again at the end, and none the name a machine has of its
  own. The rest is the same for all: nothing is under way or said before the write, and only what
  was refused can be answered without being under way (`InOrder`); what is in place while the
  write is under way was noted (`PlaceIsNoted`); and what is told as done stays so until somebody
  else changes it (`StillSo`). `Ambiguous` excepts renames of machines whose own name is the one
  asked for; the proof needed it of a name that is *or was* so, since somebody may rename the
  machine after the verdict, a case which the instance of `current` now has too.
* `SecretsTypeCorrect` and `AskedIsSettled`: `WhatIsAskedIsSettled`. `SecretsInv` has two halves.
  `Answered` is about what waits for whom: a pending field names a worker under way of its kind
  and no other worker of that kind is (`WorkersAreAwaited`); one secret at a time is asked for, on
  its way or shown (`OneSecret`), so that none replaces another; the review of a change lies at
  the bottom of the stack and answers open above it (`StackFits`); what is held has a worker or a
  dialog that lets it go (`HeldIsLetGo`). `WorkersAreHonest` is about what is known: what a worker
  will say is so of its change and stays so, since what took effect is never undone; a request
  without an answer is read back only where reading tells.
* `OperationTypeCorrect` and `OperationsDoAsReviewed`: `OperationsAreAsReviewed`. `OperationInv` has
  three parts. `ReviewFromForm` and `FromForm` carry what the form makes sure of (an edit keeps the
  subscriptions it does not know, a stream has no field of another destination) from the form over
  the review to the request. `SaysItself` says how far an operation is and what it may say by then.
  `SaysTruly` compares the tailnet with the one the request met, as long as nobody else was at
  work: nothing changed before the write or after a refusal, what an accepted request asked for is
  so, and so is what a read-back that matched saw; the other endpoints and streams are as they
  were. The deletion of an endpoint is written by position (`WithoutHook`), since the `SelectSeq` of
  the standard modules is recursive.

`EndingsProofs`, for any reads and retries, for any sizes of pipe, channel and limit, for any
accounts, devices, policies, preferences and texts typed, for any lists of devices, what is
said of them, and any length of the history, and for any titles, lines and files of saved views:

* `TokensTypeCorrect` and `Shared`: `TokenIsShared`. `TokensInv`: whoever exchanges holds the lock
  (`LockIsHeld`); the cached token is the last issued (`CacheIsNewest`); the number issued is the
  number lapsed, and one more while the cache is fresh (`OnePerLapse`); and as long as the server
  has revoked nothing, a refused token is one that lapsed, which no read still depends on
  (`Lived`, `Carried`).
* `CommandTypeCorrect` and `NoLineIsLost`: `OutputIsKept`. The lines a stream has put into the
  channel and the loop has not taken are an interval of numbers. `InChannel` says that the channel
  holds exactly these, once and in order; the two streams share the channel, so sending on
  one is a step of which the other sees nothing but a longer channel. `Concludes` says in which
  order child, readers, waiter and loop may end.
* `OperatorTypeCorrect` and `MutationsDoAsReviewed`: `CommandsDoAsReviewed`. `OperatorInv` follows one
  request from hand to hand. `Asked` says of a request what its form makes sure of: a field that
  was not touched is asked for as the form showed it, a preference only if touched, an exit node
  together with LAN access, an advertisement whole, and nothing the daemon does not report.
  `ReviewFits` carries it to every review on the stack of overlays, with the lines that are shown
  and the phrase that is asked, and no field a policy held then. `WorkFits` carries it to the
  mutation: the daemon is as it was or as the request makes it, as it was until a command ran,
  and a verdict of *Verified* was borne out by what was read (`BornOut`), whatever others did in
  between. `CommandsDoAsReviewed` alone says nothing of a review that is not accepted yet, so it is
  not kept by the step that accepts it.
* `ViewTypeCorrect` and `SelectionKept`: the action property `SelectionIsKept`. A step gives back
  rows, a filter or a frame that a step long before has put away, so `ViewInv` says of what is
  put away that it is still right: the cache is empty, of an older generation, or has the rows of
  its key's filter, order and time (`CacheTrue`), also while its key is not the current one; the
  filter line holds what the screen had when it opened, for the route it is on, and the other
  routes still have theirs (`LineFits`, `OpenedFits`); the view last left is in the history as it
  was left, not at the cursor (`BehindFits`); and every frame's text is the filter applied
  (`IsShown`). `RankedRows` is the lemma about the sort: the rows of devices that differ have
  different ranks, so all ranks up to their number are taken and every row is shown once.
* `ShelfTypeCorrect` and `ViewsUsable`: `ViewsStayUsable`. `ShelfInv` says of every view, in memory, in
  the file or read from it, what is claimed of the one that is open: its filters, reopened, list
  nothing that the terms it was saved from did not (`Narrows`). `TermNarrows` is the step: the
  clause of a word is exact where the word was contained or meant one of a vocabulary, and
  `CaptureNarrows` carries it to a whole filter. A captured term has the shape the parser gives it,
  or the one a saved clause gives it (`FitTerms`), and so has a view that is opened and saved
  again. The registry is what keeps `starts_with` out (`ClauseOfWord`), which the language has and
  no file may. The deletion of a view is written by position (`AllBut`), as that of a webhook is.

`SessionProofs`, for any number of changes of the daemon, reads, failures, reconnections, for
any processes, names, operations, faults and deaths, and for any accounts, keys, switches,
refreshes, backends, requests and changes from outside:

* `LocalTypeCorrect` and `NoChangeIsMissed`: `QuietMeansCurrent`. That what is shown is current when
  nothing is under way cannot be kept by steps, which are all taken while something is. `Covered`
  says it of every state: what is shown fresh is the daemon's state, or the difference is still
  unsettled (a change not noticed, a read not begun), or an answer of a generation not older is
  due (`ResourceCovered`); the same for an outdated answer, which is discarded or not the last
  (`AnswersCovered`); and a resource that was told of a read gets its answer (`StartsPursued`).
  From the end of a mutation on nothing is claimed: `apply_fresh_snapshot` then takes a number
  of its own and may show an older status as fresh (`local_reducer.rs:755`).
* `FilesTypeCorrect` and `FilesTellTheTruth`: `FilesAreAsSaid`. `FilesInv`: files are only moved into
  place whole (`WholeFiles`), every process fills its own temporary file (`OwnFile`), and for the
  one operation of a process that is alone, each step says what is on disk, relative to what was
  there before, and what the temporary file holds (`Faithful`).
* `DialogTypeCorrect` and `StartedIsReviewed`: `OnlyReviewedStarts`. An effect takes its profile,
  its document and its permission from the moment of the key, the rest from the review. `Fitting`
  says why they agree: a review of the current generation is of the current profile, the review
  of an export lies at the bottom of the stack and is of the pending document, and no two reviews
  on the stack have a number in common. `Accepted` adds that a review once accepted is nowhere on
  the stack, so it starts nothing again. Every step but the accepting key leaves a stack whose
  reviews were there or are new (`Succeeds`).
* `ServicesTypeCorrect` and `ServedIsShown`: `ServicesAreCurrent`. As with the observer, that the
  lists are right at rest follows from what holds under way: a list, shown or read by a refresh
  that will be listened to, is what the client serves or is due to be read again, because the
  difference came from outside or a task is under way, and every task ends in a refresh
  (`Settled`, `FirstIsSettled`). This is claimed of the first account only, as the property is:
  the counters begin again with the next (`local_reducer.rs:770`). A list that is
  loading is read by a refresh of its generation that is still wanted (`LoadingIsRead`), so
  nothing loads for ever at rest. The row of a task in a list keeps the kind of that list
  (`RowsFit`), without which what a task wrote could not be compared with what is served.
* `RequestsTypeCorrect` and `TasksDoAsConfirmed`: `RequestsDoAsConfirmed`. A task carries what the
  client had before its command, after it and when it was read back, and `TaskFits` says of every
  step what these may be: nothing but what was confirmed is changed (`Within`), by a command that
  failed too, and what was read and called verified was so (`SoOf`). Two facts about the client
  carry the argument: what has no mounts is served at the root, so a command without a path
  takes no more than its address, and a port is public only while something is served on it, so
  a removal that ends in a private port has emptied it. `MetricsAreRead` is the part about
  sections that load. The proof asked for the second fact of other users of the client too:
  taking away the last service of a port ends its Funnel, as it does for Tale's own commands.

What is proved is not all run again: the type invariants,
`BoundedAndCoalesced`, `StallOnlyWhenFull`, `ListedTasksMoveForward`, `RowsMoveForward` and
`WritesStayInProfile` hold for every instance, and so do `ReadsTypeOK`, `LocalTypeOK`, `OperationTypeOK`,
`ChangeTypeOK`, `FilesTypeOK`, `DialogTypeOK`, `ServicesTypeOK`, `RequestsTypeOK`, `SecretsTypeOK`, `TokensTypeOK`, `CommandTypeOK`,
`OperatorTypeOK` and the `TypeOK` of `PolicyWorkflow`.

The assumptions on the constants, all of which TLC evaluates on the instances of the runs:
`QueueAssumption` (at least one place; the run loop is not a sender, a worker neither reads keys
nor ticks), `LifecycleAssumption` (limits are positive, outcomes are terminal states),
`WritesAssumption` (an advertiser, a profile, a width), and for the rest that scenarios are
records of the right counters: `HandoffAssumption`, `PolicyAssumption`, `ReadsAssumption`,
`ChangeAssumption` (the resource is there at first),
`TokensAssumption`, `CommandAssumption` (sizes are positive), `LocalAssumption`,
`FilesAssumption`, `DialogAssumption` (some account may write), `ServicesAssumption` (some backend,
none of which is the mark of a free address), `RequestAssumption` (a mount is none of the words the
commands use, what is served at first can be served there), `SecretsAssumption` (some credential; the mark of
none is neither a credential nor a worker), `OperationAssumption` (a field holds its own kind of
value, the webhooks of a tailnet differ in their numbers, the names the code has are texts),
`OperatorAssumption` (some account; no device is named like a choice the form offers),
`ViewAssumption` (the history holds a view at least; a list has each device once),
`ShelfAssumption` (what is typed are tokens with values, what is in the file clauses with values, and
a view written by hand was saved from what its clauses say), `LogAssumption`.

An operator that classifies in order (the first condition that holds decides) is written as a
chain of `IF`, since the proofs need to know that the earlier conditions failed.

Only model-checked: liveness (`queue_contended`, `queue_below`, `policy`, `endings`), which is
out of the prover's reach with fairness; and the two parts of `LogsAreAsAsked` that are about sums,
`SumsAreTrue` and `ExportsAreAsShown`: what a fold over records adds up to needs induction over
data, which the prover cannot do.

## Findings

1. Lost wake-up on a full queue (`queue_full`; `runtime.rs:147-168`): senders and the loop
   share one `Notify`. With a queue of 256 places it takes 256 outstanding events without a Tick.
2. An ended task that is evicted in the update that ends it is never persisted as ended
   (`lifecycle_evicted`; `task.rs:202-209` after `task_reducer.rs:242-250`).
3. A batch form that one advertiser cannot accept leaves those before it locked, until the
   profile is switched (`writes_stranded`; `admin_reducer.rs:1034-1039`).
4. A filter that matches a part of a value is saved as one that matches all of it (`reopened`;
   `app.rs:2694-2703`, restored at `app.rs:2820-2838`): the view shows fewer devices when it is
   opened again, and `online:true` shows none.
5. A child of a batch that waited for its turn is dispatched on a preflight of any age
   (`writes_stale`; `source_reducer.rs:1701-1767`), although every remote write's preflight is
   said to expire.

## Met while modelling

None of these is the subject of a run. Where a property would fail on one of them, its comment
names the exception.

Writes and batches
* A save refused for its ETag whose re-read policy is the base again, another administrator
  having taken his change back, is no conflict to `set_latest_remote_with_path`
  (`policy_workflow.rs:395-418`): the workflow stays *Applying* with nothing under way, and the
  profile cannot be switched until the user edits, validates, refreshes or closes.
  `RequestsEnd` excepts exactly that answer (`LeftApplying`); without the exception the run
  `policy` finds it.
* The routes of a preflight are kept as one text, and an empty one is split into one empty
  name (`runtime.rs:4348-4361`), which is no route: the first approval of any route of a device,
  and any change where none is advertised, is refused before it is sent (`Sendable`).
* Retrying a failed child of a batch, or a batch, meets a transition that is refused
  (`task_reducer.rs:93`, `admin_mutation.rs:405-408`).
* A confirmation that has become too old asks for a new preflight, which `can_transition` does
  not allow from *AwaitingConfirmation* (`RefuseStale`; `admin_reducer.rs:1923-1932`): the user
  sees an error instead and has to start again.
* A confirmation outdated by the end of another write is refused as if the profile had changed
  (`RefuseOutdated`; `admin_reducer.rs:1647-1649`).
* `pending_batch_retry` survives a failed refresh and a switch of profile, and is acted upon by
  whatever refresh ends next (`source_reducer.rs:1027`).
* The base of a change and its target are taken when the form is accepted
  (`admin_reducer.rs:436`), so a user or a route that is selected by index may be another by
  then. A rename is verified by the host name too (`device_mutations.rs`, `verify_name`). The
  correlation with the audit log passes no actor: an event of another within five seconds counts
  (`source_reducer.rs:1480-1494`). An answer that cannot be decoded is told as a rejection
  although the change was applied.
* A form reopened after a conflict keeps the values asked for one row under the subject of the
  row selected now.

Tasks and files
* Two Tales over one state directory interrupt each other's tasks in the history
  (`task_history.rs:213`) and overwrite each other's files.
* A saved view whose write failed stays in memory and is written by the next operation. An
  export looks whether the file exists before it renames. `config::atomic_write` leaves the
  temporary file of a process that died.
* The loop that streams lines ends with the process, and up to a channel of lines is dropped.
  `join_capture` waits for the end of the pipe, which a descendant may keep open. While a line
  waits for a full event queue neither cancellation nor timeout is seen. Local commands have no
  `kill_on_drop` (`runtime.rs:373`). A child that exited just before its deadline is reported as
  timed out. The transfer loop spins once the channel is closed.

Reads, profiles and the local client
* Numbers that order answers begin again or are taken twice: `apply_fresh_snapshot`
  (`local_reducer.rs:755`) takes a mutation's read for the newest whatever was read since;
  a new account's services count from zero (`local_reducer.rs:770`); a rediscovered account
  (`source_reducer.rs:100`).
* A child that is refused the terminal resumes it for the one that has it
  (`admin_reducer.rs:2211`).
* The comment at `admin_reducer.rs:639-640` (the form is modal, so the selected row is the row
  underneath) is not so: `accept_handoff_form` takes the row selected at acceptance. The
  confirmation shows the command with its host redacted.

Local node
* The advertisement form writes back every field as read when it opened: another hand's change,
  or another account's values after a switch, are overwritten and appear only as from-to lines.
  The exit-node form opened while the automatic choice is active shows the device it resolved
  to; changing LAN access alone fixes it. Policy is consulted when the review opens, not again.
* A command that exits nonzero is read back and told as failed whatever was read. Offering an
  exit node by the form is verified only if both default routes are listed too. An interrupted
  selection is told as verified if the automatic choice had come to that device. A confirmed
  mutation is not checked again against a lost daemon.

Local services
* When `AllowFunnel` is absent both lists hold every mapping (`parse_mappings`,
  `services.rs:273`), although `domain/service.rs:656-659` says they are disjoint; an unpublish
  or a public reset then reads back as still public.
* A serve of a local port is listed as `http://127.0.0.1:port`, so that its verification never
  matches. Publishing one path makes its listener public, and a serve on a public port takes its
  Funnel away; only unpublishing says so. `FunnelPublish` is not checked against the row.
* The rename of a share cannot be accepted: its form lacks the field its parser requires
  (`old`). The hint for a name allows digits and dashes, which `normalize_share_name` refuses.
  A certificate is refused after almost every status read, because the refresh it starts sets the
  domains to loading (`local_reducer.rs:403-420`, `service_reducer.rs:1640`). The acceptance of
  an unpublish asks that the row selected now is public; a refused confirmation is closed first.

Keys, webhooks, log streams
* Quitting while an auth key is being created loses its secret, and a key whose answer is lost
  is told as failed. A revocation under way is superseded when another is opened
  (`credential_reducer.rs:107`). Two reads of one credential open two confirmations. An
  operation that ends after any refresh is told to have ended after its view was closed. A
  revocation whose answer is too large to read is told as failed although it was made
  (`runtime.rs:2193-2203`; excepted by `AnswersAreTrue`).
* A webhook action takes the first webhook of the list (`admin_reducer.rs:432`): the edit form is
  filled from the one first when it opened, its request is made of the one first when it is
  accepted (`operational_reducer.rs:822`). Categories are never read back, so an edit that sets
  them is never verified. An event subscribed by another hand since is removed by an edit. The
  form's default provider, none, is refused.
* The deletion of a log stream takes the first one of the tailnet, the form of a replacement is
  filled from the network's. The preview of a replacement says "unchanged" for blank fields the
  request leaves out; its verification does not compare them, nor the secret. With a role, an S3
  secret is still sent.

Navigation and views
* `saved_filter_to_cli` writes field names the language does not have (`lastseen`, `keyexpiry`);
  `starts_with` is registered for no field; a negated `starts_with` becomes not-equals. A clause
  on `source` is valid and cannot be applied. A view written by hand with a sort field that has
  no column sets the filter, then fails and leaves the sort and the open view as they were
  (`operational_reducer.rs:1209-1215`). One view the start refuses costs all of them.
* The filter line survives a change of route that no key made (`source_reducer.rs:458-462`), and
  then edits the new route's filter. `reconcile_selection(Some)` indexes the list before it is
  sorted and filtered (`collection_reducer.rs:376`). Users, routes, credentials, audit and
  services are selected by index. A filter that reads the clock may leave a hidden row selected.
  `open_user_devices` and its like set the filter and then navigate, which resets it.
* A paste goes to the line under an overlay, keys to the overlay. A review without a phrase that
  arrives by itself is accepted by an Enter typed for something else. Ctrl-C skips the question
  when the focused task cannot be cancelled.

Activity logs
* A read of flows is lost without a word when any other refresh begins, since all share one
  generation, and a request for flows in turn leaves resources of a full refresh loading until
  the next. `FlowGeneration::accepts` and `resolve_flow_filter_labels` are not used: "only flows
  the named device reported" matches stable ids only.
* The filters of flows and audit survive a switch of profile. The least number of bytes excludes
  a record whose counters overflow when added. One message with a missing field fails the whole
  window. The file names only the devices' filter, says of every audit export that it is
  incomplete, and may be confirmed after a switch, when it still names the profile it was read in.

## Not modelled

* Configuration, command line and doctor: one pass of parsing and checking at start. The
  two-file operations of `tale auth` are in `PrivateFiles`.
* Rendering and themes: a function of the state to cells. Mock source: fictional data.
* Health rules, redaction, the formats of exports: each is one pass over one value without state
  or order; their tests reach them well.
* Discovery of the local client, paging and rate limits of the admin client, probes of a new
  credential, file modes and the keyring, completion, mouse and copying: small protocols of
  their own or calls of an operating system, abstracted to their outcomes where others meet them.
* Texts: of reviews, tasks, rows and messages, unless a property is about one.

## Plan

Done: the queue and the life cycle with their abstractions and proofs; admin writes and batches,
reads and tokens, the policy workflow and the terminal, commands, the observer and private files
with theirs; the modules of every other component with state and order, checked in `policy`,
`current` and `endings`.

Left:

1. An abstract specification of a batch which `AdminWrites` implements, and one of a view of a
   remote resource for `AdminReads`.
2. Discovery of the local client, beside the observer.
