---------------------------- MODULE TaskLifecycle ---------------------------
(***************************************************************************)
(* The life of a background task: the TaskStore the reducer updates, the   *)
(* worker that runs the task, its cancellation flag, and the task history  *)
(* actor that copies every changed task to SQLite; with quitting, crashing *)
(* and starting Tale again, and several Tale processes over one database.  *)
(* History is persisted (persist_tasks, not mock mode).  Events of one     *)
(* worker arrive once and in order (EventQueue, WorkerEventsArriveOnce).   *)
(***************************************************************************)
EXTENDS Naturals, Sequences, FiniteSets

CONSTANTS Instances,    \* Tale processes sharing one state directory
          MaxRecords,   \* bound: tasks ever created
          MaxLaunches,  \* bound: times a process is started
          Limits,       \* values of history.max_tasks in use
          Outcomes      \* how workers end

ASSUME LifecycleAssumption ==
    /\ MaxRecords \in Nat
    /\ MaxLaunches \in Nat
    /\ Limits \subseteq Nat \ {0} /\ Limits # {}
    /\ Outcomes \subseteq {"Succeeded", "Failed", "Cancelled"}

\* Task records, in the order of (started_at, record_id): UUIDv7 is time-ordered.
Records == 1..MaxRecords

VARIABLES db,           \* the task_history table: state of each row
          next,         \* the next record to be created
          launches,     \* processes started so far
          phase,        \* of each process: "down", "running" or "stopping"
          limit,        \* its history.max_tasks
          tasks,        \* its TaskStore: state of each listed task
          session,      \* records it created since it started
          cancellable,  \* records created with cancellable = true
          worker,       \* the background task of each record
          mail,         \* events a worker sent that update has not handled
          cancelled,    \* records whose Cancellation flag is set
          actor,        \* run_task_history: where each process's actor stands
          restored,     \* the rows the actor loaded, until update merges them
          commands,     \* Upsert commands the actor has not taken
          finished,     \* history: records whose end update has shown
          lost          \* history: records with an update that never reached db

vars == <<db, next, launches, phase, limit, tasks, session, cancellable, worker,
          mail, cancelled, actor, restored, commands, finished, lost>>

\* The promise of the table, for the smallest history.max_tasks in use.
Durable == INSTANCE DurableHistory WITH Keep <- CHOOSE k \in Limits : \A n \in Limits : k <= n

Terminal == Durable!Terminal
States   == Durable!States

Rows   == [Records -> States \cup {"Absent"}]
NoRows == Durable!NoRows

TerminalIn(list) == {r \in Records : list[r] \in Terminal}

Init ==
    /\ db = NoRows
    /\ next = 1
    /\ launches = 0
    /\ phase = [i \in Instances |-> "down"]
    /\ limit = [i \in Instances |-> 0]
    /\ tasks = [i \in Instances |-> NoRows]
    /\ session = [i \in Instances |-> {}]
    /\ cancellable = {}
    /\ worker = [r \in Records |-> "none"]
    /\ mail = [r \in Records |-> <<>>]
    /\ cancelled = {}
    /\ actor = [i \in Instances |-> "none"]
    /\ restored = [i \in Instances |-> NoRows]
    /\ commands = [i \in Instances |-> <<>>]
    /\ finished = {}
    /\ lost = {}

-----------------------------------------------------------------------------
(* App::update: every handler ends with the same bookkeeping *)

\* The list holds the restored tasks in database order, then the session's own.
NotOlder(i, r, s) ==
    IF (r \in session[i]) = (s \in session[i]) THEN r <= s ELSE s \in session[i]

\* evict_completed: the oldest terminal tasks beyond max_tasks leave the list.
Evict(i, list) ==
    [r \in Records |->
        IF /\ r \in TerminalIn(list)
           /\ Cardinality({s \in TerminalIn(list) : NotOlder(i, r, s)}) > limit[i]
          THEN "Absent" ELSE list[r]]

\* What take_dirty returns: the dirty tasks that are still listed.
TakeDirty(list, dirty) == [r \in Records |-> IF r \in dirty THEN list[r] ELSE "Absent"]

Changed(upsert) == {r \in Records : upsert[r] # "Absent"}

\* Mutant: an update is persisted only when it changes the number of tasks.
Update_ForgetsDirty(i, list, dirty) ==
    /\ tasks' = [tasks EXCEPT ![i] = list]
    /\ IF \E r \in dirty : tasks[i][r] = "Absent"
         THEN commands' = [commands EXCEPT ![i] = Append(@, TakeDirty(list, dirty))] /\ UNCHANGED lost
         ELSE UNCHANGED <<commands, lost>>

\* The handler leaves the store as list, with the records in dirty marked:
\* they are sent to the actor, or to no one once it has failed.
Update(i, list, dirty) ==
    LET upsert == TakeDirty(list, dirty)
    IN  /\ tasks' = [tasks EXCEPT ![i] = list]
        /\ \/ /\ Changed(upsert) = {}
              /\ UNCHANGED <<commands, lost>>
           \/ /\ Changed(upsert) # {} /\ actor[i] # "failed"
              /\ commands' = [commands EXCEPT ![i] = Append(@, upsert)]
              /\ UNCHANGED lost
           \/ /\ Changed(upsert) # {} /\ actor[i] = "failed"
              /\ lost' = lost \cup Changed(upsert)
              /\ UNCHANGED commands

-----------------------------------------------------------------------------
(* The user: starting tasks, cancelling them *)

\* An action creates a task and its effect spawns the worker.
CreateTask(i, stoppable) ==
    /\ phase[i] = "running"
    /\ next <= MaxRecords
    /\ next' = next + 1
    /\ session' = [session EXCEPT ![i] = @ \cup {next}]
    /\ cancellable' = IF stoppable THEN cancellable \cup {next} ELSE cancellable
    /\ worker' = [worker EXCEPT ![next] = "spawned"]
    /\ Update(i, [tasks[i] EXCEPT ![next] = "Queued"], {next})
    /\ UNCHANGED <<db, launches, phase, limit, mail, cancelled, actor, restored, finished>>

\* cancel_task: request_cancel, then the CancelTask effect sets the flag.
CancelTask(i, r) ==
    /\ phase[i] = "running"
    /\ r \in session[i] \cap cancellable
    /\ tasks[i][r] \in {"Queued", "Running"}
    /\ cancelled' = cancelled \cup {r}
    /\ Update(i, [tasks[i] EXCEPT ![r] = "Cancelling"], {r})
    /\ UNCHANGED <<db, next, launches, phase, limit, session, cancellable, worker, mail,
                   actor, restored, finished>>

-----------------------------------------------------------------------------
(* Workers *)

\* A worker's first event is Started.
WorkerStart(r) ==
    /\ worker[r] = "spawned"
    /\ worker' = [worker EXCEPT ![r] = "working"]
    /\ mail' = [mail EXCEPT ![r] = Append(@, "Started")]
    /\ UNCHANGED <<db, next, launches, phase, limit, tasks, session, cancellable, cancelled,
                   actor, restored, commands, finished, lost>>

\* Then it reports progress (here: at most once).
WorkerProgress(r) ==
    /\ worker[r] = "working"
    /\ worker' = [worker EXCEPT ![r] = "reported"]
    /\ mail' = [mail EXCEPT ![r] = Append(@, "Progress")]
    /\ UNCHANGED <<db, next, launches, phase, limit, tasks, session, cancellable, cancelled,
                   actor, restored, commands, finished, lost>>

\* It ends with one outcome: Cancelled only if it saw the flag; it may also
\* have passed its last look at the flag.
WorkerEnd(r, outcome) ==
    /\ worker[r] \in {"working", "reported"}
    /\ outcome \in Outcomes
    /\ outcome = "Cancelled" => r \in cancelled
    /\ worker' = [worker EXCEPT ![r] = "over"]
    /\ mail' = [mail EXCEPT ![r] = Append(@, outcome)]
    /\ UNCHANGED <<db, next, launches, phase, limit, tasks, session, cancellable, cancelled,
                   actor, restored, commands, finished, lost>>

-----------------------------------------------------------------------------
(* update_task *)

\* The run loop takes the oldest event of r's worker.
Receive(i, r, event) ==
    /\ phase[i] = "running"
    /\ r \in session[i]
    /\ mail[r] # <<>> /\ Head(mail[r]) = event
    /\ mail' = [mail EXCEPT ![r] = Tail(@)]
    /\ UNCHANGED <<db, next, launches, phase, limit, session, cancellable, worker,
                   cancelled, actor, restored>>

\* TaskStore::start: refused unless the task is still Queued.
HandleStarted(i, r) ==
    /\ Receive(i, r, "Started")
    /\ IF tasks[i][r] = "Queued"
         THEN Update(i, [tasks[i] EXCEPT ![r] = "Running"], {r})
         ELSE Update(i, tasks[i], {})
    /\ UNCHANGED finished

\* TaskStore::progress: the task is dirty again in the state it has.
HandleProgress(i, r) ==
    /\ Receive(i, r, "Progress")
    /\ Update(i, tasks[i], {r} \cap {s \in Records : tasks[i][s] \in {"Running", "Cancelling"}})
    /\ UNCHANGED finished

\* Mutant: a terminal state is shown but not marked dirty.
HandleEnd_Clean(i, r, outcome) ==
    /\ Receive(i, r, outcome)
    /\ IF tasks[i][r] \in {"Running", "Cancelling"}
         THEN /\ Update(i, Evict(i, [tasks[i] EXCEPT ![r] = outcome]), {})
              /\ finished' = finished \cup {r}
         ELSE Update(i, tasks[i], {}) /\ UNCHANGED finished

\* Mutant: a task being cancelled is not finished.
HandleEnd_RefusesCancelling(i, r, outcome) ==
    /\ Receive(i, r, outcome)
    /\ IF tasks[i][r] = "Running"
         THEN /\ Update(i, Evict(i, [tasks[i] EXCEPT ![r] = outcome]), {r})
              /\ finished' = finished \cup {r}
         ELSE Update(i, tasks[i], {}) /\ UNCHANGED finished

\* TaskStore::finish, refused when Queued or terminal; then evict_completed.
HandleEnd(i, r, outcome) ==
    /\ Receive(i, r, outcome)
    /\ IF tasks[i][r] \in {"Running", "Cancelling"}
         THEN /\ Update(i, Evict(i, [tasks[i] EXCEPT ![r] = outcome]), {r})
              /\ finished' = finished \cup {r}
         ELSE Update(i, tasks[i], {}) /\ UNCHANGED finished

-----------------------------------------------------------------------------
(* run_task_history *)

\* task_from_row: a row that is not terminal belongs to a Tale that stopped.
Interrupt(rows) ==
    [r \in Records |-> IF rows[r] \in Durable!Active THEN "Interrupted" ELSE rows[r]]

\* Mutant: the rows trimmed need not be terminal.
Upserted_TrimsActive(rows, upsert, keep) ==
    LET merged == [r \in Records |-> IF upsert[r] # "Absent" THEN upsert[r] ELSE rows[r]]
        listed == {r \in Records : merged[r] # "Absent"}
    IN  [r \in Records |->
            IF r \in listed /\ Cardinality({s \in listed : s >= r}) > keep
              THEN "Absent" ELSE merged[r]]

\* upsert, one transaction: the rows written, then the oldest terminal rows
\* beyond max_tasks deleted.
Upserted(rows, upsert, keep) ==
    LET merged == [r \in Records |-> IF upsert[r] # "Absent" THEN upsert[r] ELSE rows[r]]
    IN  [r \in Records |->
            IF /\ r \in TerminalIn(merged)
               /\ Cardinality({s \in TerminalIn(merged) : s >= r}) > keep
              THEN "Absent" ELSE merged[r]]

\* repository.restore reads the table.
Load(i) ==
    /\ actor[i] = "opening"
    /\ actor' = [actor EXCEPT ![i] = "loaded"]
    /\ restored' = [restored EXCEPT ![i] = Interrupt(db)]
    /\ UNCHANGED <<db, next, launches, phase, limit, tasks, session, cancellable, worker,
                   mail, cancelled, commands, finished, lost>>

\* repository.save(&tasks), then TaskHistoryLoaded is sent.
SaveRestored(i) ==
    /\ actor[i] = "loaded"
    /\ actor' = [actor EXCEPT ![i] = "serving"]
    /\ db' = Upserted(db, restored[i], limit[i])
    /\ UNCHANGED <<next, launches, phase, limit, tasks, session, cancellable, worker, mail,
                   cancelled, restored, commands, finished, lost>>

\* The actor takes one Upsert and saves it.
Save(i) ==
    /\ actor[i] = "serving" /\ commands[i] # <<>>
    /\ db' = Upserted(db, Head(commands[i]), limit[i])
    /\ commands' = [commands EXCEPT ![i] = Tail(@)]
    /\ UNCHANGED <<next, launches, phase, limit, tasks, session, cancellable, worker, mail,
                   cancelled, actor, restored, finished, lost>>

Pending(i) == UNION {Changed(commands[i][k]) : k \in DOMAIN commands[i]}

\* Any database error ends the actor; what it was sent goes nowhere.
Fail(i) ==
    /\ \/ actor[i] \in {"opening", "loaded"} /\ restored' = [restored EXCEPT ![i] = NoRows]
       \/ actor[i] = "serving" /\ commands[i] # <<>> /\ UNCHANGED restored
    /\ actor' = [actor EXCEPT ![i] = "failed"]
    /\ commands' = [commands EXCEPT ![i] = <<>>]
    /\ lost' = lost \cup Pending(i)
    /\ UNCHANGED <<db, next, launches, phase, limit, tasks, session, cancellable, worker,
                   mail, cancelled, finished>>

\* TaskHistoryLoaded: merge_restored, then evict_completed.
HandleLoaded(i) ==
    /\ phase[i] = "running"
    /\ actor[i] \notin {"opening", "loaded"} /\ restored[i] # NoRows
    /\ Update(i, Evict(i, [r \in Records |->
                  IF tasks[i][r] = "Absent" THEN restored[i][r] ELSE tasks[i][r]]), {})
    /\ restored' = [restored EXCEPT ![i] = NoRows]
    /\ UNCHANGED <<db, next, launches, phase, limit, session, cancellable, worker, mail,
                   cancelled, actor, finished>>

-----------------------------------------------------------------------------
(* Starting, quitting, crashing *)

Launch(i, keep) ==
    /\ phase[i] = "down"
    /\ launches < MaxLaunches
    /\ launches' = launches + 1
    /\ keep \in Limits
    /\ phase' = [phase EXCEPT ![i] = "running"]
    /\ limit' = [limit EXCEPT ![i] = keep]
    /\ actor' = [actor EXCEPT ![i] = "opening"]
    /\ UNCHANGED <<db, next, tasks, session, cancellable, worker, mail, cancelled, restored,
                   commands, finished, lost>>

\* request_shutdown, and the end of the run loop: every flag is set and the
\* commands channel closes; the tasks keep their states.
Quit(i) ==
    /\ phase[i] = "running"
    /\ phase' = [phase EXCEPT ![i] = "stopping"]
    /\ cancelled' = cancelled \cup session[i]
    /\ UNCHANGED <<db, next, launches, limit, tasks, session, cancellable, worker, mail,
                   actor, restored, commands, finished, lost>>

\* The process is gone: nothing but the database remains.
Gone(i) ==
    /\ phase' = [phase EXCEPT ![i] = "down"]
    /\ tasks' = [tasks EXCEPT ![i] = NoRows]
    /\ session' = [session EXCEPT ![i] = {}]
    /\ worker' = [r \in Records |-> IF r \in session[i] THEN "none" ELSE worker[r]]
    /\ mail' = [r \in Records |-> IF r \in session[i] THEN <<>> ELSE mail[r]]
    /\ cancelled' = cancelled \ session[i]
    /\ actor' = [actor EXCEPT ![i] = "none"]
    /\ restored' = [restored EXCEPT ![i] = NoRows]
    /\ commands' = [commands EXCEPT ![i] = <<>>]
    /\ lost' = lost \cup Pending(i)
    /\ UNCHANGED <<db, next, launches, limit, cancellable, finished>>

\* The JoinSet is joined, or aborted when the grace period is over: time is
\* abstract, so workers and actor may have done any part of what was left.
Exit(i) ==
    /\ phase[i] = "stopping"
    /\ Gone(i)

Crash(i) ==
    /\ phase[i] # "down"
    /\ Gone(i)

-----------------------------------------------------------------------------
(* The specification *)

Next ==
    \/ \E r \in Records : \/ WorkerStart(r)
                          \/ WorkerProgress(r)
                          \/ \E outcome \in Outcomes : WorkerEnd(r, outcome)
    \/ \E i \in Instances :
         \/ \E stoppable \in BOOLEAN : CreateTask(i, stoppable)
         \/ \E r \in Records : \/ CancelTask(i, r)
                               \/ HandleStarted(i, r)
                               \/ HandleProgress(i, r)
                               \/ \E outcome \in Outcomes : HandleEnd(i, r, outcome)
         \/ Load(i) \/ SaveRestored(i) \/ Save(i) \/ Fail(i) \/ HandleLoaded(i)
         \/ \E keep \in Limits : Launch(i, keep)
         \/ Quit(i) \/ Exit(i) \/ Crash(i)

Spec == Init /\ [][Next]_vars

\* The runtime starts every worker, a worker ends once its flag is set (a live
\* netcheck has no other end), and the run loop handles what it receives; no
\* one owes a new task, a cancellation or a launch.
Fairness ==
    /\ \A r \in Records : /\ WF_vars(WorkerStart(r))
                          /\ WF_vars(r \in cancelled /\ \E outcome \in Outcomes : WorkerEnd(r, outcome))
    /\ \A i \in Instances :
         /\ \A r \in Records :
              /\ WF_vars(HandleStarted(i, r))
              /\ WF_vars(HandleProgress(i, r))
              /\ WF_vars(\E outcome \in Outcomes : HandleEnd(i, r, outcome))
         /\ WF_vars(Load(i) \/ SaveRestored(i) \/ Save(i))
         /\ WF_vars(HandleLoaded(i))
         /\ WF_vars(Exit(i))

FairSpec == Spec /\ Fairness

-----------------------------------------------------------------------------
(* Properties *)

TypeOK ==
    /\ db \in Rows
    /\ next \in 1..(MaxRecords + 1)
    /\ launches \in 0..MaxLaunches
    /\ phase \in [Instances -> {"down", "running", "stopping"}]
    /\ limit \in [Instances -> {0} \cup Limits]
    /\ tasks \in [Instances -> Rows]
    /\ session \in [Instances -> SUBSET (1..(next - 1))]
    /\ cancellable \subseteq 1..(next - 1)
    /\ worker \in [Records -> {"none", "spawned", "working", "reported", "over"}]
    /\ mail \in [Records -> Seq({"Started", "Progress"} \cup Outcomes)]
    /\ cancelled \subseteq 1..(next - 1)
    /\ actor \in [Instances -> {"none", "opening", "loaded", "serving", "failed"}]
    /\ restored \in [Instances -> Rows]
    /\ commands \in [Instances -> Seq(Rows)]
    /\ finished \subseteq Records
    /\ lost \subseteq Records

\* The state the database will hold of r when i's actor has caught up.
Latest(i, r) ==
    LET ks == {k \in DOMAIN commands[i] : commands[i][k][r] # "Absent"}
    IN  IF ks = {} THEN db[r] ELSE commands[i][CHOOSE k \in ks : \A j \in ks : j <= k][r]

\* Whatever the order of events and of the actor's writes, the state a listed
\* task shows is the state the database holds once the actor has caught up
\* (every TaskStore operation marks what it changes dirty, update drains it).
HistoryUpToDate ==
    \A i \in Instances : \A r \in session[i] :
        actor[i] # "failed" /\ tasks[i][r] # "Absent" => Latest(i, r) = tasks[i][r]

\* A listed task only moves forward: a late Started does not revive a task
\* being cancelled, a terminal task changes no more, and a task that has not
\* ended never leaves the list while its Tale runs.
ListedTasksMoveForward ==
    [][\A i \in Instances : \A r \in Records :
          phase'[i] # "down" =>
            /\ Durable!Follows(tasks[i][r], tasks'[i][r])
            /\ tasks[i][r] \in Durable!Active /\ tasks'[i][r] = "Absent"
                  => r \in finished']_vars

\* One Tale at a time: through writes that lag behind, crashes, restores and
\* trimming, the rows of the database only move forward, and none disappears
\* but for max_tasks newer terminal ones (DurableHistory).
ImplementsDurableHistory == Durable!Spec

\* One Tale at a time: the rows of the database only move forward; no write
\* that was delayed sets a row back, and no restore touches an ended one.
RowsMoveForward == [][\A r \in Records : Durable!Follows(db[r], db'[r])]_vars

\* A task whose end the user has seen is not listed as Interrupted by a later
\* Tale, unless an update of it was lost with a crash or a failed database.
EndedTasksStayEnded ==
    \A i \in Instances : \A r \in finished \ lost : tasks[i][r] # "Interrupted"

\* A task whose cancellation was requested reaches an end, whether it was
\* queued or running then, and whatever the worker answers, unless its Tale
\* stops first.
CancelledTaskEnds ==
    \A i \in Instances : \A r \in Records :
        tasks[i][r] = "Cancelling" ~> (phase[i] # "running" \/ tasks[i][r] # "Cancelling")

\* The end of a task the user has seen reaches the database while its Tale
\* runs, unless the database fails.
EveryEndIsStored ==
    \A i \in Instances : \A r \in Records :
        (r \in finished /\ r \in session[i])
            ~> (db[r] \in Terminal \/ r \in lost \/ phase[i] # "running")
=============================================================================
