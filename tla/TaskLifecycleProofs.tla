------------------------- MODULE TaskLifecycleProofs ------------------------
(***************************************************************************)
(* Proofs about TaskLifecycle: type correctness and the forward movement   *)
(* of listed tasks for any number of Tale processes; for one, the forward  *)
(* movement of the database rows, that what is listed reaches the table,   *)
(* and that the table implements DurableHistory.                           *)
(***************************************************************************)
EXTENDS TaskLifecycle, FiniteSetTheorems, WellFoundedInduction, TLAPS

USE DEF Records

-----------------------------------------------------------------------------
(* The operators on lists of tasks and on tables *)

\* Eviction only takes terminal tasks off the list.
LEMMA EvictFacts ==
    ASSUME NEW i \in Instances, NEW list \in Rows
    PROVE  /\ Evict(i, list) \in Rows
           /\ \A r \in Records : \/ Evict(i, list)[r] = list[r]
                                 \/ list[r] \in Terminal /\ Evict(i, list)[r] = "Absent"
<1> DEFINE Out(r) == /\ r \in TerminalIn(list)
                     /\ Cardinality({s \in TerminalIn(list) : NotOlder(i, r, s)}) > limit[i]
<1>1. Evict(i, list) = [r \in Records |-> IF Out(r) THEN "Absent" ELSE list[r]]
  BY DEF Evict
<1>2. \A r \in Records : Out(r) => list[r] \in Terminal
  BY DEF TerminalIn
<1> HIDE DEF Out
<1> QED
  BY <1>1, <1>2 DEF Rows

\* What is sent to the actor is a part of the list.
LEMMA TakeDirtyFacts ==
    ASSUME NEW list \in Rows, NEW dirty
    PROVE  /\ TakeDirty(list, dirty) \in Rows
           /\ \A r \in Records :
                TakeDirty(list, dirty)[r] = IF r \in dirty THEN list[r] ELSE "Absent"
BY DEF TakeDirty, Rows

\* Loading turns the rows that have not ended into Interrupted ones.
LEMMA InterruptFacts ==
    ASSUME NEW rows \in Rows
    PROVE  /\ Interrupt(rows) \in Rows
           /\ \A r \in Records : /\ Durable!Follows(rows[r], Interrupt(rows)[r])
                                 /\ Interrupt(rows)[r] = "Absent" <=> rows[r] = "Absent"
BY DEF Interrupt, Rows, States, Durable!States, Durable!Active, Durable!Terminal,
       Durable!Follows, Durable!Later

\* A save writes each row of the upsert, leaves the others, or trims.
LEMMA UpsertedFacts ==
    ASSUME NEW rows \in Rows, NEW upsert \in Rows, NEW keep
    PROVE  /\ Upserted(rows, upsert, keep) \in Rows
           /\ \A r \in Records :
                \/ Upserted(rows, upsert, keep)[r] = "Absent"
                \/ Upserted(rows, upsert, keep)[r] =
                      IF upsert[r] # "Absent" THEN upsert[r] ELSE rows[r]
<1> DEFINE merged == [r \in Records |-> IF upsert[r] # "Absent" THEN upsert[r] ELSE rows[r]]
           Out(r) == /\ r \in TerminalIn(merged)
                     /\ Cardinality({s \in TerminalIn(merged) : s >= r}) > keep
<1>1. Upserted(rows, upsert, keep) = [r \in Records |-> IF Out(r) THEN "Absent" ELSE merged[r]]
  BY DEF Upserted
<1>2. merged \in Rows
  BY DEF Rows
<1>3. \A r \in Records : merged[r] = IF upsert[r] # "Absent" THEN upsert[r] ELSE rows[r]
  OBVIOUS
<1> HIDE DEF Out, merged
<1> QED
  BY <1>1, <1>2, <1>3 DEF Rows

-----------------------------------------------------------------------------
(* Type correctness *)

\* The store and what is sent keep their types in every handler.
LEMMA UpdateType ==
    ASSUME TypeOK, NEW i \in Instances, NEW list \in Rows, NEW dirty, Update(i, list, dirty)
    PROVE  /\ tasks' \in [Instances -> Rows]
           /\ commands' \in [Instances -> Seq(Rows)]
           /\ lost' \subseteq Records
<1>1. tasks' \in [Instances -> Rows]
  BY DEF TypeOK, Update
<1>2. TakeDirty(list, dirty) \in Rows
  BY TakeDirtyFacts
<1>3. commands' \in [Instances -> Seq(Rows)]
  <2>1. CASE UNCHANGED commands
    BY <2>1 DEF TypeOK
  <2>2. CASE commands' = [commands EXCEPT ![i] = Append(@, TakeDirty(list, dirty))]
    <3>1. commands[i] \in Seq(Rows)
      BY DEF TypeOK
    <3>2. Append(commands[i], TakeDirty(list, dirty)) \in Seq(Rows)
      BY <1>2, <3>1
    <3> QED
      BY <2>2, <3>2 DEF TypeOK
  <2> QED
    BY <2>1, <2>2 DEF Update
<1>4. Changed(TakeDirty(list, dirty)) \subseteq Records
  BY DEF Changed
<1>5. lost' \subseteq Records
  BY <1>4 DEF TypeOK, Update
<1> QED
  BY <1>1, <1>3, <1>5

\* The events of a worker stay events when one is added or taken.
LEMMA MailType ==
    ASSUME TypeOK, NEW r \in Records,
           NEW event \in {"Started", "Progress"} \cup Outcomes
    PROVE  /\ [mail EXCEPT ![r] = Append(@, event)] \in
                 [Records -> Seq({"Started", "Progress"} \cup Outcomes)]
           /\ mail[r] # <<>> =>
                [mail EXCEPT ![r] = Tail(@)] \in [Records -> Seq({"Started", "Progress"} \cup Outcomes)]
<1>1. mail[r] \in Seq({"Started", "Progress"} \cup Outcomes)
  BY DEF TypeOK
<1>2. Append(mail[r], event) \in Seq({"Started", "Progress"} \cup Outcomes)
  BY <1>1
<1>3. mail[r] # <<>> => Tail(mail[r]) \in Seq({"Started", "Progress"} \cup Outcomes)
  BY <1>1
<1> QED
  BY <1>2, <1>3 DEF TypeOK

\* Workers end in terminal states.
LEMMA OutcomesTerminal == Outcomes \subseteq Terminal
BY LifecycleAssumption DEF Terminal, Durable!Terminal

\* The empty table is a table without records.
LEMMA NoRowsType == NoRows \in Rows /\ \A r \in Records : NoRows[r] = "Absent"
BY DEF NoRows, Rows, Durable!NoRows

\* Changing the state of one task gives a list again.
LEMMA SetType ==
    ASSUME TypeOK, NEW i \in Instances, NEW r \in Records, NEW state \in States
    PROVE  [tasks[i] EXCEPT ![r] = state] \in Rows
BY DEF TypeOK, Rows

\* The states the handlers set are states of a task.
LEMMA StateNames ==
    /\ {"Queued", "Running", "Cancelling"} \subseteq States
    /\ Terminal \subseteq States
    /\ Outcomes \subseteq States
    /\ "Absent" \notin States
BY OutcomesTerminal DEF States, Terminal, Durable!States, Durable!Active, Durable!Terminal

\* The initial state is well typed.
LEMMA InitType == Init => TypeOK
<1> SUFFICES ASSUME Init PROVE TypeOK
  OBVIOUS
<1>1. NoRows \in Rows
  BY NoRowsType
<1> QED
  BY <1>1, LifecycleAssumption DEF Init, TypeOK

\* Creating a task keeps the types: it uses the next record, then advances it.
LEMMA CreateType ==
    ASSUME TypeOK, NEW i \in Instances, NEW stoppable \in BOOLEAN, CreateTask(i, stoppable)
    PROVE  TypeOK'
<1>1. next \in Records /\ next' = next + 1 /\ next \in Nat /\ next' \in 1..(MaxRecords + 1)
  BY LifecycleAssumption DEF TypeOK, CreateTask
<1>2. [tasks[i] EXCEPT ![next] = "Queued"] \in Rows
  BY <1>1, SetType, StateNames
<1>3. Update(i, [tasks[i] EXCEPT ![next] = "Queued"], {next})
  BY DEF CreateTask
<1>4. /\ tasks' \in [Instances -> Rows]
      /\ commands' \in [Instances -> Seq(Rows)]
      /\ lost' \subseteq Records
  BY <1>2, <1>3, UpdateType
<1>5. next \in 1..(next' - 1) /\ 1..(next - 1) \subseteq 1..(next' - 1)
  BY <1>1
<1>6. session' \in [Instances -> SUBSET (1..(next' - 1))]
  <2>1. session \in [Instances -> SUBSET (1..(next' - 1))]
    BY <1>5 DEF TypeOK
  <2>2. session' = [session EXCEPT ![i] = @ \cup {next}]
    BY DEF CreateTask
  <2> QED
    BY <1>5, <2>1, <2>2
<1>7. cancellable' \subseteq 1..(next' - 1) /\ cancelled' \subseteq 1..(next' - 1)
  BY <1>5 DEF TypeOK, CreateTask
<1>8. worker' \in [Records -> {"none", "spawned", "working", "reported", "over"}]
  BY <1>1 DEF TypeOK, CreateTask
<1> QED
  BY <1>1, <1>4, <1>6, <1>7, <1>8 DEF TypeOK, CreateTask

\* Cancelling keeps the types: the task is one that was created.
LEMMA CancelType ==
    ASSUME TypeOK, NEW i \in Instances, NEW r \in Records, CancelTask(i, r)
    PROVE  TypeOK'
<1>1. [tasks[i] EXCEPT ![r] = "Cancelling"] \in Rows
  BY SetType, StateNames
<1>2. Update(i, [tasks[i] EXCEPT ![r] = "Cancelling"], {r})
  BY DEF CancelTask
<1>3. /\ tasks' \in [Instances -> Rows]
      /\ commands' \in [Instances -> Seq(Rows)]
      /\ lost' \subseteq Records
  BY <1>1, <1>2, UpdateType
<1>4. cancelled' \subseteq 1..(next - 1)
  BY DEF TypeOK, CancelTask
<1> QED
  BY <1>3, <1>4 DEF TypeOK, CancelTask

\* Workers only move along their own states and append to their mail.
LEMMA WorkerType ==
    ASSUME TypeOK, NEW r \in Records,
           \/ WorkerStart(r)
           \/ WorkerProgress(r)
           \/ \E outcome \in Outcomes : WorkerEnd(r, outcome)
    PROVE  TypeOK'
<1>1. CASE WorkerStart(r)
  BY <1>1, MailType DEF TypeOK, WorkerStart
<1>2. CASE WorkerProgress(r)
  BY <1>2, MailType DEF TypeOK, WorkerProgress
<1>3. ASSUME NEW outcome \in Outcomes, WorkerEnd(r, outcome) PROVE TypeOK'
  BY <1>3, MailType DEF TypeOK, WorkerEnd
<1> QED
  BY <1>1, <1>2, <1>3

\* What the handlers of worker events have in common.
LEMMA ReceiveType ==
    ASSUME TypeOK, NEW i \in Instances, NEW r \in Records,
           NEW event \in {"Started", "Progress"} \cup Outcomes, Receive(i, r, event),
           NEW list \in Rows, NEW dirty, Update(i, list, dirty),
           finished' \subseteq Records
    PROVE  TypeOK'
<1>1. /\ tasks' \in [Instances -> Rows]
      /\ commands' \in [Instances -> Seq(Rows)]
      /\ lost' \subseteq Records
  BY UpdateType
<1>2. mail' \in [Records -> Seq({"Started", "Progress"} \cup Outcomes)]
  BY MailType DEF Receive
<1> QED
  BY <1>1, <1>2 DEF TypeOK, Receive

\* Handling a worker event keeps the types.
LEMMA HandleType ==
    ASSUME TypeOK, NEW i \in Instances, NEW r \in Records,
           \/ HandleStarted(i, r)
           \/ HandleProgress(i, r)
           \/ \E outcome \in Outcomes : HandleEnd(i, r, outcome)
    PROVE  TypeOK'
<1>1. tasks[i] \in Rows /\ finished \subseteq Records
  BY DEF TypeOK
<1>2. CASE HandleStarted(i, r)
  <2>1. [tasks[i] EXCEPT ![r] = "Running"] \in Rows
    BY SetType, StateNames
  <2>2. Receive(i, r, "Started") /\ UNCHANGED finished
    BY <1>2 DEF HandleStarted
  <2>3. \/ Update(i, [tasks[i] EXCEPT ![r] = "Running"], {r})
        \/ Update(i, tasks[i], {})
    BY <1>2 DEF HandleStarted
  <2> QED
    BY <1>1, <2>1, <2>2, <2>3, ReceiveType
<1>3. CASE HandleProgress(i, r)
  BY <1>1, <1>3, ReceiveType DEF HandleProgress
<1>4. ASSUME NEW outcome \in Outcomes, HandleEnd(i, r, outcome) PROVE TypeOK'
  <2>1. [tasks[i] EXCEPT ![r] = outcome] \in Rows
    BY SetType, StateNames
  <2>2. Evict(i, [tasks[i] EXCEPT ![r] = outcome]) \in Rows
    BY <2>1, EvictFacts
  <2>3. Receive(i, r, outcome) /\ finished' \subseteq Records
    BY <1>1, <1>4 DEF HandleEnd
  <2>4. \/ Update(i, Evict(i, [tasks[i] EXCEPT ![r] = outcome]), {r})
        \/ Update(i, tasks[i], {})
    BY <1>4 DEF HandleEnd
  <2> QED
    BY <1>1, <2>2, <2>3, <2>4, ReceiveType
<1> QED
  BY <1>2, <1>3, <1>4

\* Merging the restored rows under the session's own tasks gives a list.
LEMMA MergeType ==
    ASSUME TypeOK, NEW i \in Instances
    PROVE  [r \in Records |-> IF tasks[i][r] = "Absent" THEN restored[i][r] ELSE tasks[i][r]] \in Rows
<1>1. tasks[i] \in Rows /\ restored[i] \in Rows
  BY DEF TypeOK
<1>2. ASSUME NEW list \in Rows, NEW rows \in Rows
      PROVE  [r \in Records |-> IF list[r] = "Absent" THEN rows[r] ELSE list[r]] \in Rows
  BY DEF Rows
<1> QED
  BY <1>1, <1>2

\* The steps of the history actor keep the types.
LEMMA ActorType ==
    ASSUME TypeOK, NEW i \in Instances,
           Load(i) \/ SaveRestored(i) \/ Save(i) \/ Fail(i) \/ HandleLoaded(i)
    PROVE  TypeOK'
<1>0. db \in Rows /\ restored[i] \in Rows /\ commands[i] \in Seq(Rows)
  BY DEF TypeOK
<1>1. CASE Load(i)
  BY <1>0, <1>1, InterruptFacts DEF TypeOK, Load
<1>2. CASE SaveRestored(i)
  BY <1>0, <1>2, UpsertedFacts DEF TypeOK, SaveRestored
<1>3. CASE Save(i)
  <2>1. commands[i] # <<>>
    BY <1>3 DEF Save
  <2>2. Head(commands[i]) \in Rows /\ Tail(commands[i]) \in Seq(Rows)
    BY <1>0, <2>1
  <2>3. db' \in Rows
    BY <1>0, <1>3, <2>2, UpsertedFacts DEF Save
  <2>4. commands' \in [Instances -> Seq(Rows)]
    BY <1>3, <2>2 DEF TypeOK, Save
  <2> QED
    BY <1>3, <2>3, <2>4 DEF TypeOK, Save
<1>4. CASE Fail(i)
  <2>1. Pending(i) \subseteq Records
    BY DEF Pending, Changed
  <2>2. restored' \in [Instances -> Rows]
    BY <1>4, NoRowsType DEF TypeOK, Fail
  <2>3. commands' \in [Instances -> Seq(Rows)]
    BY <1>4 DEF TypeOK, Fail
  <2> QED
    BY <1>4, <2>1, <2>2, <2>3 DEF TypeOK, Fail
<1>5. CASE HandleLoaded(i)
  <2> DEFINE merged == [r \in Records |->
                          IF tasks[i][r] = "Absent" THEN restored[i][r] ELSE tasks[i][r]]
  <2>1. merged \in Rows
    BY MergeType
  <2>2. Update(i, Evict(i, merged), {})
    BY <1>5 DEF HandleLoaded
  <2> HIDE DEF merged
  <2>3. Evict(i, merged) \in Rows
    BY <2>1, EvictFacts
  <2>4. /\ tasks' \in [Instances -> Rows]
        /\ commands' \in [Instances -> Seq(Rows)]
        /\ lost' \subseteq Records
    BY <2>2, <2>3, UpdateType
  <2>5. restored' \in [Instances -> Rows]
    BY <1>5, NoRowsType DEF TypeOK, HandleLoaded
  <2> QED
    BY <1>5, <2>4, <2>5 DEF TypeOK, HandleLoaded
<1> QED
  BY <1>1, <1>2, <1>3, <1>4, <1>5

\* Starting, quitting and crashing keep the types.
LEMMA ProcessType ==
    ASSUME TypeOK, NEW i \in Instances,
           (\E keep \in Limits : Launch(i, keep)) \/ Quit(i) \/ Exit(i) \/ Crash(i)
    PROVE  TypeOK'
<1>1. ASSUME NEW keep \in Limits, Launch(i, keep) PROVE TypeOK'
  <2>1. launches' \in 0..MaxLaunches
    BY <1>1, LifecycleAssumption DEF TypeOK, Launch
  <2> QED
    BY <1>1, <2>1 DEF TypeOK, Launch
<1>2. CASE Quit(i)
  BY <1>2 DEF TypeOK, Quit
<1>3. CASE Gone(i)
  <2>1. Pending(i) \subseteq Records
    BY DEF Pending, Changed
  <2>2. /\ mail' \in [Records -> Seq({"Started", "Progress"} \cup Outcomes)]
        /\ worker' \in [Records -> {"none", "spawned", "working", "reported", "over"}]
    BY <1>3 DEF TypeOK, Gone
  <2>3. tasks' \in [Instances -> Rows] /\ restored' \in [Instances -> Rows]
    BY <1>3, NoRowsType DEF TypeOK, Gone
  <2>4. commands' \in [Instances -> Seq(Rows)]
    BY <1>3 DEF TypeOK, Gone
  <2>5. session' \in [Instances -> SUBSET (1..(next' - 1))]
    BY <1>3 DEF TypeOK, Gone
  <2> QED
    BY <1>3, <2>1, <2>2, <2>3, <2>4, <2>5 DEF TypeOK, Gone
<1> QED
  BY <1>1, <1>2, <1>3 DEF Exit, Crash

\* Every step keeps the types: one case per group of actions.
LEMMA TypeStep == TypeOK /\ [Next]_vars => TypeOK'
<1> SUFFICES ASSUME TypeOK, [Next]_vars PROVE TypeOK'
  OBVIOUS
<1>1. CASE UNCHANGED vars
  BY <1>1 DEF TypeOK, vars
<1>2. CASE Next
  BY <1>2, CreateType, CancelType, WorkerType, HandleType, ActorType, ProcessType DEF Next
<1> QED
  BY <1>1, <1>2

(* In every reachable state the store, the queues, the actor and the table  *)
(* hold what the code declares: for any number of Tale processes and tasks. *)
THEOREM TypeCorrect == Spec => []TypeOK
<1>1. Init => TypeOK
  BY InitType
<1>2. TypeOK /\ [Next]_vars => TypeOK'
  BY TypeStep
<1> QED
  BY <1>1, <1>2, PTL DEF Spec
-----------------------------------------------------------------------------
(* Listed tasks move forward *)

\* A record that has not been created is nowhere.
Fresh ==
    \A r \in Records : r >= next =>
        /\ db[r] = "Absent"
        /\ \A i \in Instances :
             /\ tasks[i][r] = "Absent"
             /\ restored[i][r] = "Absent"
             /\ \A k \in DOMAIN commands[i] : commands[i][k][r] = "Absent"

\* A handler that lists no fresh record sends none.
LEMMA UpdateFresh ==
    ASSUME TypeOK, Fresh, NEW i \in Instances, NEW list \in Rows, NEW dirty, NEW bound \in Nat,
           bound >= next, \A r \in Records : r >= bound => list[r] = "Absent",
           Update(i, list, dirty)
    PROVE  \A r \in Records : r >= bound => \A j \in Instances :
              /\ tasks'[j][r] = "Absent"
              /\ \A k \in DOMAIN commands'[j] : commands'[j][k][r] = "Absent"
<1> SUFFICES ASSUME NEW r \in Records, r >= bound, NEW j \in Instances
             PROVE  /\ tasks'[j][r] = "Absent"
                    /\ \A k \in DOMAIN commands'[j] : commands'[j][k][r] = "Absent"
  OBVIOUS
<1>0. r >= next
  BY DEF TypeOK
<1>1. tasks'[j][r] = "Absent"
  BY <1>0 DEF TypeOK, Update, Fresh
<1>2. \A k \in DOMAIN commands[j] : commands[j][k][r] = "Absent"
  BY <1>0 DEF Fresh
<1>3. CASE UNCHANGED commands
  BY <1>1, <1>2, <1>3
<1>4. CASE commands' = [commands EXCEPT ![i] = Append(@, TakeDirty(list, dirty))]
  <2>1. TakeDirty(list, dirty)[r] = "Absent" /\ TakeDirty(list, dirty) \in Rows
    BY TakeDirtyFacts
  <2>2. commands[j] \in Seq(Rows)
    BY DEF TypeOK
  <2>3. CASE j # i
    BY <1>1, <1>2, <1>4, <2>3 DEF TypeOK
  <2>4. CASE j = i
    <3>1. commands'[j] = Append(commands[j], TakeDirty(list, dirty))
      BY <1>4, <2>4 DEF TypeOK
    <3> HIDE DEF TakeDirty
    <3>2. \A k \in DOMAIN commands'[j] : commands'[j][k][r] = "Absent"
      BY <1>2, <2>1, <2>2, <3>1
    <3> QED
      BY <1>1, <3>2
  <2> QED
    BY <2>3, <2>4
<1> QED
  BY <1>3, <1>4 DEF Update

\* A handler of r's events moves r forward, and evicts terminal tasks.
Moves(i, r, list) ==
    /\ list \in Rows
    /\ \A s \in Records :
         \/ list[s] = tasks[i][s]
         \/ tasks[i][s] \in Terminal /\ list[s] = "Absent"
         \/ /\ s = r /\ tasks[i][r] \in Durable!Active
            /\ \/ list[r] = "Absent" /\ r \in finished'
               \/ list[r] \in Durable!Later(tasks[i][r])

\* The moves the store makes are moves of DurableHistory.
LEMMA LaterFacts ==
    /\ "Running" \in Durable!Later("Queued")
    /\ "Cancelling" \in Durable!Later("Queued")
    /\ "Cancelling" \in Durable!Later("Running")
    /\ Outcomes \subseteq Durable!Later("Running")
    /\ Outcomes \subseteq Durable!Later("Cancelling")
    /\ {"Queued", "Running", "Cancelling"} = Durable!Active
BY OutcomesTerminal DEF Terminal, Durable!Later, Durable!Terminal, Durable!Active

\* Setting one task to a later state moves it.
LEMMA SetMoves ==
    ASSUME TypeOK, NEW i \in Instances, NEW r \in Records, NEW state \in States,
           tasks[i][r] \in Durable!Active, state \in Durable!Later(tasks[i][r])
    PROVE  Moves(i, r, [tasks[i] EXCEPT ![r] = state])
<1>1. [tasks[i] EXCEPT ![r] = state] \in Rows
  BY SetType
<1>2. \A s \in Records : [tasks[i] EXCEPT ![r] = state][s] = IF s = r THEN state ELSE tasks[i][s]
  BY DEF TypeOK, Rows
<1> QED
  BY <1>1, <1>2 DEF Moves

\* Leaving the list as it is counts as a move.
LEMMA SameMoves ==
    ASSUME TypeOK, NEW i \in Instances, NEW r \in Records
    PROVE  Moves(i, r, tasks[i])
BY DEF TypeOK, Moves

\* Every handler of the user's cancel or of a worker's event is such a move.
LEMMA HandlerMoves ==
    ASSUME TypeOK, NEW i \in Instances, NEW r \in Records,
           \/ CancelTask(i, r)
           \/ HandleStarted(i, r)
           \/ HandleProgress(i, r)
           \/ \E outcome \in Outcomes : HandleEnd(i, r, outcome)
    PROVE  /\ \E list : /\ Moves(i, r, list)
                        /\ Update(i, list, {r}) \/ (list = tasks[i] /\ Update(i, list, {}))
           /\ r \in session[i] /\ phase[i] = "running"
           /\ UNCHANGED <<db, next, phase, session, actor, restored>>
<1>1. CASE CancelTask(i, r)
  <2>1. Moves(i, r, [tasks[i] EXCEPT ![r] = "Cancelling"])
    BY <1>1, LaterFacts, StateNames, SetMoves DEF CancelTask
  <2> QED
    BY <1>1, <2>1 DEF CancelTask
<1>2. CASE HandleStarted(i, r)
  <2>1. CASE tasks[i][r] = "Queued"
    <3>1. Moves(i, r, [tasks[i] EXCEPT ![r] = "Running"])
      BY <2>1, LaterFacts, StateNames, SetMoves
    <3> QED
      BY <1>2, <2>1, <3>1 DEF HandleStarted, Receive
  <2>2. CASE tasks[i][r] # "Queued"
    BY <1>2, <2>2, SameMoves DEF HandleStarted, Receive
  <2> QED
    BY <2>1, <2>2
<1>3. CASE HandleProgress(i, r)
  <2> DEFINE dirty == {r} \cap {s \in Records : tasks[i][s] \in {"Running", "Cancelling"}}
  <2>1. Update(i, tasks[i], dirty)
    BY <1>3 DEF HandleProgress
  <2>2. dirty = {r} \/ dirty = {}
    OBVIOUS
  <2> HIDE DEF dirty
  <2> QED
    BY <1>3, <2>1, <2>2, SameMoves DEF HandleProgress, Receive
<1>4. ASSUME NEW outcome \in Outcomes, HandleEnd(i, r, outcome)
      PROVE  /\ \E list : /\ Moves(i, r, list)
                          /\ Update(i, list, {r}) \/ (list = tasks[i] /\ Update(i, list, {}))
             /\ r \in session[i] /\ phase[i] = "running"
             /\ UNCHANGED <<db, next, phase, session, actor, restored>>
  <2>1. CASE tasks[i][r] \in {"Running", "Cancelling"}
    <3> DEFINE set == [tasks[i] EXCEPT ![r] = outcome]
               list == Evict(i, set)
    <3>1. Moves(i, r, set) /\ set[r] = outcome
      BY <2>1, LaterFacts, StateNames, SetMoves DEF TypeOK, Rows
    <3>2. r \in finished' /\ Update(i, list, {r})
      BY <1>4, <2>1 DEF HandleEnd
    <3> HIDE DEF set
    <3>3. /\ list \in Rows
          /\ \A s \in Records : list[s] = set[s] \/ (set[s] \in Terminal /\ list[s] = "Absent")
      BY <3>1, EvictFacts DEF Moves
    <3> HIDE DEF list
    <3>4. tasks[i][r] \in Durable!Active
      BY <2>1, LaterFacts
    <3>5. Moves(i, r, list)
      <4> SUFFICES ASSUME NEW s \in Records
                   PROVE  \/ list[s] = tasks[i][s]
                          \/ tasks[i][s] \in Terminal /\ list[s] = "Absent"
                          \/ /\ s = r /\ tasks[i][r] \in Durable!Active
                             /\ \/ list[r] = "Absent" /\ r \in finished'
                                \/ list[r] \in Durable!Later(tasks[i][r])
        BY <3>3 DEF Moves
      <4>1. CASE s = r
        <5>1. outcome \in Durable!Later(tasks[i][r])
          BY <2>1, LaterFacts
        <5> QED
          BY <3>1, <3>2, <3>3, <3>4, <4>1, <5>1
      <4>2. CASE s # r
        <5>1. set[s] = tasks[i][s]
          BY <4>2 DEF set, TypeOK, Rows
        <5> QED
          BY <3>3, <5>1
      <4> QED
        BY <4>1, <4>2
    <3> QED
      BY <1>4, <3>2, <3>5 DEF HandleEnd, Receive
  <2>2. CASE tasks[i][r] \notin {"Running", "Cancelling"}
    BY <1>4, <2>2, SameMoves DEF HandleEnd, Receive
  <2> QED
    BY <2>1, <2>2
<1> QED
  BY <1>1, <1>2, <1>3, <1>4

\* At the start no record has been used.
LEMMA FreshInit == Init => Fresh
BY NoRowsType DEF Init, Fresh

\* A move of one created task leaves the records not yet created absent.
LEMMA MovesFresh ==
    ASSUME TypeOK, Fresh, NEW i \in Instances, NEW r \in Records, NEW list, Moves(i, r, list)
    PROVE  \A s \in Records : s >= next => list[s] = "Absent"
BY DEF Fresh, Moves, Durable!Active

\* Records not yet created stay absent from every list, table and command.
LEMMA FreshStep == TypeOK /\ Fresh /\ [Next]_vars => Fresh'
<1> SUFFICES ASSUME TypeOK, Fresh, [Next]_vars PROVE Fresh'
  OBVIOUS
<1>0. next \in Nat /\ next >= 1
  BY LifecycleAssumption DEF TypeOK
<1>1. CASE UNCHANGED vars
  BY <1>1 DEF Fresh, vars
<1>2. ASSUME NEW i \in Instances, NEW stoppable \in BOOLEAN, CreateTask(i, stoppable)
      PROVE  Fresh'
  <2> DEFINE list == [tasks[i] EXCEPT ![next] = "Queued"]
  <2>1. next \in Records /\ next' = next + 1 /\ UNCHANGED <<db, restored>>
    BY <1>0, <1>2, LifecycleAssumption DEF CreateTask
  <2>2. list \in Rows
    BY <2>1, SetType, StateNames
  <2>3. \A r \in Records : r >= next + 1 => list[r] = "Absent"
    BY <1>0, <2>1 DEF Fresh, TypeOK, Rows
  <2>4. Update(i, list, {next})
    BY <1>2 DEF CreateTask
  <2> HIDE DEF list
  <2>5. \A r \in Records : r >= next + 1 => \A j \in Instances :
              /\ tasks'[j][r] = "Absent"
              /\ \A k \in DOMAIN commands'[j] : commands'[j][k][r] = "Absent"
    BY <1>0, <2>2, <2>3, <2>4, UpdateFresh
  <2>6. \A r \in Records : r >= next + 1 => r >= next
    BY <1>0
  <2> QED
    BY <2>1, <2>5, <2>6 DEF Fresh
<1>3. ASSUME NEW i \in Instances, NEW r \in Records,
             \/ CancelTask(i, r)
             \/ HandleStarted(i, r)
             \/ HandleProgress(i, r)
             \/ \E outcome \in Outcomes : HandleEnd(i, r, outcome)
      PROVE  Fresh'
  <2>1. PICK list : Moves(i, r, list) /\ (Update(i, list, {r}) \/ Update(i, list, {}))
    BY <1>3, HandlerMoves
  <2>2. list \in Rows /\ \A s \in Records : s >= next => list[s] = "Absent"
    BY <2>1, MovesFresh DEF Moves
  <2>3. \A s \in Records : s >= next => \A j \in Instances :
              /\ tasks'[j][s] = "Absent"
              /\ \A k \in DOMAIN commands'[j] : commands'[j][k][s] = "Absent"
    <3>1. CASE Update(i, list, {r})
      BY <1>0, <2>2, <3>1, UpdateFresh
    <3>2. CASE Update(i, list, {})
      BY <1>0, <2>2, <3>2, UpdateFresh
    <3> QED
      BY <2>1, <3>1, <3>2
  <2>4. UNCHANGED <<db, next, restored>>
    BY <1>3, HandlerMoves
  <2> QED
    BY <2>3, <2>4 DEF Fresh
<1>4. ASSUME NEW r \in Records,
             \/ WorkerStart(r)
             \/ WorkerProgress(r)
             \/ \E outcome \in Outcomes : WorkerEnd(r, outcome)
      PROVE  Fresh'
  BY <1>4 DEF Fresh, WorkerStart, WorkerProgress, WorkerEnd
<1>5. ASSUME NEW i \in Instances, Load(i)
      PROVE  Fresh'
  <2>1. \A r \in Records : r >= next => Interrupt(db)[r] = "Absent"
    BY InterruptFacts DEF Fresh, TypeOK
  <2> QED
    BY <1>5, <2>1 DEF Fresh, TypeOK, Load
<1>6. ASSUME NEW i \in Instances, SaveRestored(i)
      PROVE  Fresh'
  <2>1. restored[i] \in Rows /\ db \in Rows
    BY DEF TypeOK
  <2>2. \A r \in Records : r >= next => Upserted(db, restored[i], limit[i])[r] = "Absent"
    BY <2>1, UpsertedFacts DEF Fresh
  <2> QED
    BY <1>6, <2>2 DEF Fresh, SaveRestored
<1>7. ASSUME NEW i \in Instances, Save(i)
      PROVE  Fresh'
  <2>1. commands[i] \in Seq(Rows) /\ commands[i] # <<>> /\ db \in Rows
    BY <1>7 DEF TypeOK, Save
  <2>2. /\ Head(commands[i]) = commands[i][1] /\ 1 \in DOMAIN commands[i]
        /\ Head(commands[i]) \in Rows
    BY <2>1
  <2>3. \A r \in Records : r >= next => Upserted(db, Head(commands[i]), limit[i])[r] = "Absent"
    BY <2>1, <2>2, UpsertedFacts DEF Fresh
  <2>4. \A j \in Instances : \A k \in DOMAIN commands'[j] :
           \E l \in DOMAIN commands[j] : commands'[j][k] = commands[j][l]
    <3> SUFFICES ASSUME NEW j \in Instances, NEW k \in DOMAIN commands'[j]
                 PROVE  \E l \in DOMAIN commands[j] : commands'[j][k] = commands[j][l]
      OBVIOUS
    <3>1. CASE j # i
      BY <1>7, <3>1 DEF Save, TypeOK
    <3>2. CASE j = i
      <4>1. commands'[j] = Tail(commands[i])
        BY <1>7, <3>2 DEF Save, TypeOK
      <4>2. k + 1 \in DOMAIN commands[i] /\ commands'[j][k] = commands[i][k + 1]
        BY <2>1, <4>1
      <4> QED
        BY <3>2, <4>2
    <3> QED
      BY <3>1, <3>2
  <2>5. db' = Upserted(db, Head(commands[i]), limit[i]) /\ UNCHANGED <<next, tasks, restored>>
    BY <1>7 DEF Save
  <2> HIDE DEF Upserted
  <2> QED
    BY <2>3, <2>4, <2>5 DEF Fresh
<1>8. ASSUME NEW i \in Instances, Fail(i)
      PROVE  Fresh'
  <2>1. \A j \in Instances : \A r \in Records : restored'[j][r] \in {"Absent", restored[j][r]}
    BY <1>8, NoRowsType DEF Fail, TypeOK
  <2>2. \A j \in Instances : \A k \in DOMAIN commands'[j] : commands'[j][k] = commands[j][k] /\ k \in DOMAIN commands[j]
    BY <1>8 DEF Fail, TypeOK
  <2>3. UNCHANGED <<db, next, tasks>>
    BY <1>8 DEF Fail
  <2> QED
    BY <2>1, <2>2, <2>3 DEF Fresh
<1>9. ASSUME NEW i \in Instances, HandleLoaded(i)
      PROVE  Fresh'
  <2> DEFINE merged == [r \in Records |->
                          IF tasks[i][r] = "Absent" THEN restored[i][r] ELSE tasks[i][r]]
  <2>1. merged \in Rows
    BY MergeType
  <2>2. \A r \in Records : r >= next => merged[r] = "Absent"
    BY DEF Fresh
  <2>3. Update(i, Evict(i, merged), {}) /\ UNCHANGED <<db, next>>
    BY <1>9 DEF HandleLoaded
  <2> HIDE DEF merged
  <2>4. Evict(i, merged) \in Rows /\ \A r \in Records : r >= next => Evict(i, merged)[r] = "Absent"
    BY <2>1, <2>2, EvictFacts
  <2>5. \A r \in Records : r >= next => \A j \in Instances :
              /\ tasks'[j][r] = "Absent"
              /\ \A k \in DOMAIN commands'[j] : commands'[j][k][r] = "Absent"
    BY <1>0, <2>3, <2>4, UpdateFresh
  <2>6. \A j \in Instances : \A r \in Records : restored'[j][r] \in {"Absent", restored[j][r]}
    BY <1>9, NoRowsType DEF HandleLoaded, TypeOK
  <2> QED
    BY <2>3, <2>5, <2>6 DEF Fresh
<1>10. ASSUME NEW i \in Instances, (\E keep \in Limits : Launch(i, keep)) \/ Quit(i)
       PROVE  Fresh'
  BY <1>10 DEF Fresh, Launch, Quit
<1>11. ASSUME NEW i \in Instances, Exit(i) \/ Crash(i)
       PROVE  Fresh'
  <2>1. \A j \in Instances : \A r \in Records :
           /\ restored'[j][r] \in {"Absent", restored[j][r]}
           /\ tasks'[j][r] \in {"Absent", tasks[j][r]}
    BY <1>11, NoRowsType, ZenonT(60) DEF Exit, Crash, Gone, TypeOK
  <2>2. \A j \in Instances : \A k \in DOMAIN commands'[j] : commands'[j][k] = commands[j][k] /\ k \in DOMAIN commands[j]
    BY <1>11 DEF Exit, Crash, Gone, TypeOK
  <2>3. UNCHANGED <<db, next>>
    BY <1>11 DEF Exit, Crash, Gone
  <2> QED
    BY <2>1, <2>2, <2>3 DEF Fresh
<1> QED
  BY <1>1, <1>2, <1>3, <1>4, <1>5, <1>6, <1>7, <1>8, <1>9, <1>10, <1>11 DEF Next

\* Follows is reflexive, and accepts rows that appear or disappear.
LEMMA FollowsFacts ==
    /\ \A state : /\ Durable!Follows(state, state)
                  /\ Durable!Follows(state, "Absent")
                  /\ Durable!Follows("Absent", state)
    /\ \A old : \A new \in Durable!Later(old) : Durable!Follows(old, new)
BY DEF Durable!Follows

\* What a step does to the list of process i, unless i is gone.
Forward(i) ==
    phase'[i] # "down" => \A s \in Records :
        /\ Durable!Follows(tasks[i][s], tasks'[i][s])
        /\ tasks[i][s] \in Durable!Active /\ tasks'[i][s] = "Absent" => s \in finished'

\* A state in progress is neither terminal nor the absence of a row.
LEMMA ActiveNotTerminal == Durable!Active \cap Terminal = {} /\ "Absent" \notin Durable!Active
BY DEF Durable!Active, Terminal, Durable!Terminal

\* A move of one task takes every list forward.
LEMMA MovesForward ==
    ASSUME TypeOK, NEW i \in Instances, NEW r \in Records, NEW list, Moves(i, r, list),
           tasks' = [tasks EXCEPT ![i] = list], NEW j \in Instances
    PROVE  Forward(j)
<1>1. CASE j # i
  BY <1>1, FollowsFacts, ActiveNotTerminal DEF Forward, TypeOK
<1>2. CASE j = i
  <2>1. tasks'[j] = list
    BY <1>2 DEF TypeOK
  <2> SUFFICES ASSUME NEW s \in Records
               PROVE  /\ Durable!Follows(tasks[i][s], list[s])
                      /\ tasks[i][s] \in Durable!Active /\ list[s] = "Absent" => s \in finished'
    BY <1>2, <2>1 DEF Forward
  <2>2. CASE list[s] = tasks[i][s]
    BY <2>2, FollowsFacts, ActiveNotTerminal
  <2>3. CASE tasks[i][s] \in Terminal /\ list[s] = "Absent"
    BY <2>3, FollowsFacts, ActiveNotTerminal
  <2>4. CASE /\ s = r /\ tasks[i][r] \in Durable!Active
             /\ \/ list[r] = "Absent" /\ r \in finished'
                \/ list[r] \in Durable!Later(tasks[i][r])
    <3>1. "Absent" \notin Durable!Later(tasks[i][r])
      BY DEF Durable!Later, Durable!Terminal
    <3> QED
      BY <2>4, <3>1, FollowsFacts
  <2> QED
    BY <2>2, <2>3, <2>4 DEF Moves
<1> QED
  BY <1>1, <1>2

\* A list that only fills empty places or is evicted from moves forward.
LEMMA MergeForward ==
    ASSUME TypeOK, NEW i \in Instances, HandleLoaded(i), NEW j \in Instances
    PROVE  Forward(j)
<1> DEFINE merged == [r \in Records |->
                        IF tasks[i][r] = "Absent" THEN restored[i][r] ELSE tasks[i][r]]
<1>1. merged \in Rows
  BY MergeType
<1>2. \A s \in Records : merged[s] = IF tasks[i][s] = "Absent" THEN restored[i][s] ELSE tasks[i][s]
  OBVIOUS
<1>3. tasks' = [tasks EXCEPT ![i] = Evict(i, merged)]
  BY DEF HandleLoaded, Update
<1> HIDE DEF merged
<1>4. \A s \in Records : \/ Evict(i, merged)[s] = merged[s]
                         \/ merged[s] \in Terminal /\ Evict(i, merged)[s] = "Absent"
  BY <1>1, EvictFacts
<1>5. CASE j # i
  BY <1>3, <1>5, FollowsFacts, ActiveNotTerminal DEF Forward, TypeOK
<1>6. CASE j = i
  <2>1. tasks'[j] = Evict(i, merged)
    BY <1>3, <1>6 DEF TypeOK
  <2> SUFFICES ASSUME NEW s \in Records
               PROVE  /\ Durable!Follows(tasks[i][s], Evict(i, merged)[s])
                      /\ ~(tasks[i][s] \in Durable!Active /\ Evict(i, merged)[s] = "Absent")
    BY <1>6, <2>1 DEF Forward
  <2>2. CASE tasks[i][s] = "Absent"
    BY <2>2, FollowsFacts, ActiveNotTerminal
  <2>3. CASE tasks[i][s] # "Absent"
    BY <1>2, <1>4, <2>3, FollowsFacts, ActiveNotTerminal
  <2> QED
    BY <2>2, <2>3
<1> QED
  BY <1>5, <1>6

\* A new task takes the list forward: its record was absent.
LEMMA CreateForward ==
    ASSUME TypeOK, Fresh, NEW i \in Instances, NEW stoppable \in BOOLEAN, CreateTask(i, stoppable),
           NEW j \in Instances
    PROVE  Forward(j)
<1>1. next \in Records /\ tasks[i][next] = "Absent"
  BY LifecycleAssumption DEF CreateTask, TypeOK, Fresh
<1>2. \A s \in Records : tasks'[j][s] = tasks[j][s] \/ tasks[j][s] = "Absent"
  BY <1>1 DEF CreateTask, Update, TypeOK, Rows
<1> QED
  BY <1>2, FollowsFacts, ActiveNotTerminal DEF Forward

\* Every step takes every list forward: one case per group of actions.
LEMMA ForwardStep ==
    ASSUME TypeOK, Fresh, [Next]_vars, NEW j \in Instances
    PROVE  Forward(j)
<1>1. CASE UNCHANGED tasks
  BY <1>1, FollowsFacts, ActiveNotTerminal DEF Forward
<1>2. ASSUME NEW i \in Instances, NEW stoppable \in BOOLEAN, CreateTask(i, stoppable)
      PROVE  Forward(j)
  BY <1>2, CreateForward
<1>3. ASSUME NEW i \in Instances, NEW r \in Records,
             \/ CancelTask(i, r)
             \/ HandleStarted(i, r)
             \/ HandleProgress(i, r)
             \/ \E outcome \in Outcomes : HandleEnd(i, r, outcome)
      PROVE  Forward(j)
  <2>1. PICK list : Moves(i, r, list) /\ (Update(i, list, {r}) \/ Update(i, list, {}))
    BY <1>3, HandlerMoves
  <2>2. tasks' = [tasks EXCEPT ![i] = list]
    BY <2>1 DEF Update
  <2> QED
    BY <2>1, <2>2, MovesForward
<1>4. ASSUME NEW i \in Instances, HandleLoaded(i) PROVE Forward(j)
  BY <1>4, MergeForward
<1>5. ASSUME NEW i \in Instances, Gone(i) PROVE Forward(j)
  <2>1. CASE j = i
    BY <1>5, <2>1 DEF Gone, Forward, TypeOK
  <2>2. CASE j # i
    BY <1>5, <2>2, FollowsFacts, ActiveNotTerminal DEF Gone, Forward, TypeOK
  <2> QED
    BY <2>1, <2>2
<1>6. ASSUME NEW r \in Records,
             \/ WorkerStart(r)
             \/ WorkerProgress(r)
             \/ \E outcome \in Outcomes : WorkerEnd(r, outcome)
      PROVE  UNCHANGED tasks
  BY <1>6 DEF WorkerStart, WorkerProgress, WorkerEnd
<1>7. ASSUME NEW i \in Instances,
             \/ Load(i) \/ SaveRestored(i) \/ Save(i) \/ Fail(i)
             \/ (\E keep \in Limits : Launch(i, keep)) \/ Quit(i)
      PROVE  UNCHANGED tasks
  BY <1>7 DEF Load, SaveRestored, Save, Fail, Launch, Quit
<1>8. UNCHANGED vars => UNCHANGED tasks
  BY DEF vars
<1> QED
  BY <1>1, <1>2, <1>3, <1>4, <1>5, <1>6, <1>7, <1>8 DEF Next, Exit, Crash

(* No step of any Tale process sets a listed task back: a late Started does *)
(* not revive one being cancelled, a terminal one stays as it is, and one   *)
(* that is active leaves the list only when it has ended.                   *)
THEOREM ListedForward == Spec => ListedTasksMoveForward
<1>1. Init => TypeOK /\ Fresh
  BY InitType, FreshInit
<1>2. TypeOK /\ Fresh /\ [Next]_vars => (TypeOK /\ Fresh)'
  BY TypeStep, FreshStep
<1>3. TypeOK /\ Fresh /\ [Next]_vars =>
        [\A i \in Instances : \A r \in Records :
          phase'[i] # "down" =>
            /\ Durable!Follows(tasks[i][r], tasks'[i][r])
            /\ tasks[i][r] \in Durable!Active /\ tasks'[i][r] = "Absent"
                  => r \in finished']_vars
  BY ForwardStep DEF Forward
<1> QED
  BY <1>1, <1>2, <1>3, PTL DEF Spec, ListedTasksMoveForward
-----------------------------------------------------------------------------
(* One Tale: the rows of the database move forward *)

\* A record's states along its way to the database - its row, the commands
\* that carry it in order, the task as it is listed - follow each other.
Chain(i) ==
    /\ \A k \in DOMAIN commands[i] : \A r \in Records :
         /\ commands[i][k][r] # "Absent" => r \in session[i]
         /\ Durable!Follows(db[r], commands[i][k][r])
         /\ Durable!Follows(commands[i][k][r], tasks[i][r])
         /\ \A j \in DOMAIN commands[i] :
               k < j => Durable!Follows(commands[i][k][r], commands[i][j][r])
    /\ \A r \in session[i] : Durable!Follows(db[r], tasks[i][r])

\* What the actor has read concerns earlier sessions only, and is what the
\* table still holds until it is saved.
Reading(i) ==
    /\ \A r \in session[i] : restored[i][r] = "Absent"
    /\ actor[i] \in {"opening", "loaded"} => \A r \in session[i] : db[r] = "Absent"
    /\ actor[i] = "loaded" => restored[i] = Interrupt(db)
    /\ phase[i] = "down" => session[i] = {} /\ commands[i] = <<>>

\* Follows composes when the middle row is there.
LEMMA FollowsTransitive ==
    ASSUME NEW x \in States \cup {"Absent"}, NEW y \in States, NEW z \in States \cup {"Absent"},
           Durable!Follows(x, y), Durable!Follows(y, z)
    PROVE  Durable!Follows(x, z)
BY DEF States, Durable!States, Durable!Active, Durable!Terminal, Durable!Follows, Durable!Later

\* A handler that moves listed tasks forward, and sends a part of the list,
\* keeps the chain.
LEMMA UpdateChain ==
    ASSUME TypeOK, NEW i \in Instances, Chain(i), NEW list \in Rows, NEW dirty \in SUBSET Records,
           Update(i, list, dirty), db' = db,
           session'[i] \subseteq Records,
           session[i] \subseteq session'[i], dirty \subseteq session'[i],
           \A s \in session'[i] :
              \/ list[s] = "Absent"
              \/ /\ tasks[i][s] # "Absent"
                 /\ s \in session[i]
                 /\ Durable!Follows(tasks[i][s], list[s])
              \/ /\ db[s] = "Absent"
                 /\ \A k \in DOMAIN commands[i] : commands[i][k][s] = "Absent"
    PROVE  Chain(i)'
<1> DEFINE upsert == TakeDirty(list, dirty)
<1>1. tasks'[i] = list
  BY DEF Update, TypeOK
<1>2. /\ upsert \in Rows
      /\ \A s \in Records : upsert[s] = IF s \in dirty THEN list[s] ELSE "Absent"
  BY TakeDirtyFacts
<1>3. commands[i] \in Seq(Rows) /\ db \in Rows /\ tasks[i] \in Rows
  BY DEF TypeOK
<1>4. \A k \in DOMAIN commands[i] : commands[i][k] \in Rows
  BY <1>3
<1>5. \A s \in session'[i] : Durable!Follows(db[s], list[s])
  <2> SUFFICES ASSUME NEW s \in session'[i] PROVE Durable!Follows(db[s], list[s])
    OBVIOUS
  <2>1. CASE tasks[i][s] # "Absent" /\ s \in session[i] /\ Durable!Follows(tasks[i][s], list[s])
    <3>1. Durable!Follows(db[s], tasks[i][s])
      BY <2>1 DEF Chain
    <3>2. s \in Records /\ tasks[i][s] \in States
      BY <1>3, <2>1 DEF Rows
    <3> QED
      BY <1>3, <2>1, <3>1, <3>2, FollowsTransitive DEF Rows
  <2> QED
    BY <2>1, FollowsFacts
<1>6. \A k \in DOMAIN commands[i] : \A s \in session'[i] : Durable!Follows(commands[i][k][s], list[s])
  <2> SUFFICES ASSUME NEW k \in DOMAIN commands[i], NEW s \in session'[i]
               PROVE  Durable!Follows(commands[i][k][s], list[s])
    OBVIOUS
  <2>1. CASE tasks[i][s] # "Absent" /\ s \in session[i] /\ Durable!Follows(tasks[i][s], list[s])
    <3>1. Durable!Follows(commands[i][k][s], tasks[i][s])
      BY <2>1 DEF Chain
    <3>2. s \in Records /\ tasks[i][s] \in States
      BY <1>3, <2>1 DEF Rows
    <3> QED
      BY <1>3, <1>4, <2>1, <3>1, <3>2, FollowsTransitive DEF Rows
  <2> QED
    BY <2>1, FollowsFacts
<1>7. \A k \in DOMAIN commands[i] : \A s \in Records :
         /\ commands[i][k][s] # "Absent" => s \in session'[i]
         /\ Durable!Follows(commands[i][k][s], list[s])
  BY <1>6, FollowsFacts DEF Chain
<1>8. \A s \in Records : /\ Durable!Follows(upsert[s], list[s])
                         /\ Durable!Follows(db[s], upsert[s])
                         /\ upsert[s] # "Absent" => s \in session'[i]
                         /\ \A k \in DOMAIN commands[i] : Durable!Follows(commands[i][k][s], upsert[s])
  BY <1>2, <1>5, <1>7, FollowsFacts
<1> HIDE DEF upsert
<1>9. CASE commands'[i] = commands[i]
  BY <1>1, <1>5, <1>7, <1>9 DEF Chain
<1>10. CASE commands'[i] = Append(commands[i], upsert)
  <2>1. \A k \in DOMAIN commands'[i] :
           \/ k \in DOMAIN commands[i] /\ commands'[i][k] = commands[i][k]
           \/ k = Len(commands[i]) + 1 /\ commands'[i][k] = upsert
    BY <1>2, <1>3, <1>10
  <2>2. DOMAIN commands[i] = 1..Len(commands[i]) /\ Len(commands[i]) \in Nat
    BY <1>3
  <2>3. ASSUME NEW k \in DOMAIN commands'[i], NEW s \in Records
        PROVE  /\ commands'[i][k][s] # "Absent" => s \in session'[i]
               /\ Durable!Follows(db[s], commands'[i][k][s])
               /\ Durable!Follows(commands'[i][k][s], list[s])
    BY <1>7, <1>8, <2>1 DEF Chain
  <2>4. ASSUME NEW k \in DOMAIN commands'[i], NEW j \in DOMAIN commands'[i], k < j, NEW s \in Records
        PROVE  Durable!Follows(commands'[i][k][s], commands'[i][j][s])
    <3>1. k \in DOMAIN commands[i] /\ commands'[i][k] = commands[i][k]
      BY <2>1, <2>2, <2>4
    <3>2. CASE j \in DOMAIN commands[i] /\ commands'[i][j] = commands[i][j]
      BY <2>4, <3>1, <3>2 DEF Chain
    <3>3. CASE commands'[i][j] = upsert
      BY <1>8, <3>1, <3>3
    <3> QED
      BY <2>1, <3>2, <3>3
  <2> QED
    BY <1>1, <1>5, <2>3, <2>4 DEF Chain
<1>11. commands'[i] = commands[i] \/ commands'[i] = Append(commands[i], upsert)
  BY DEF Update, TypeOK, upsert
<1> QED
  BY <1>9, <1>10, <1>11

\* The inductive invariant of one Tale.
Solo(i) == TypeOK /\ Fresh /\ Chain(i) /\ Reading(i)

\* The invariant of a single Tale holds at the start.
LEMMA SoloInit ==
    ASSUME NEW i \in Instances, Init
    PROVE  Solo(i)
<1>1. TypeOK /\ Fresh
  BY InitType, FreshInit
<1>2. Chain(i) /\ Reading(i)
  BY NoRowsType DEF Init, Chain, Reading
<1> QED
  BY <1>1, <1>2 DEF Solo

\* Creating a task extends the chain of its snapshots by the first one.
LEMMA CreateSolo ==
    ASSUME NEW i \in Instances, Solo(i), NEW stoppable \in BOOLEAN, CreateTask(i, stoppable)
    PROVE  Chain(i)' /\ Reading(i)'
<1> USE DEF Solo
<1> DEFINE list == [tasks[i] EXCEPT ![next] = "Queued"]
<1>1. next \in Records /\ session'[i] = session[i] \cup {next} /\ UNCHANGED <<db, restored, actor, phase>>
  BY LifecycleAssumption DEF CreateTask, TypeOK
<1>2. /\ list \in Rows
      /\ \A s \in Records : list[s] = IF s = next THEN "Queued" ELSE tasks[i][s]
  BY <1>1, SetType, StateNames DEF TypeOK, Rows
<1>3. Update(i, list, {next})
  BY DEF CreateTask
<1> HIDE DEF list
<1>4. session[i] \subseteq Records /\ session'[i] \subseteq Records /\ {next} \in SUBSET Records
  BY <1>1, LifecycleAssumption DEF TypeOK
<1>5. next \in Nat /\ next >= next
  BY DEF TypeOK
<1>6. /\ db[next] = "Absent" /\ restored[i][next] = "Absent"
      /\ \A k \in DOMAIN commands[i] : commands[i][k][next] = "Absent"
  BY <1>1, <1>5 DEF Fresh
<1>7. \A s \in session'[i] :
         \/ list[s] = "Absent"
         \/ /\ tasks[i][s] # "Absent"
            /\ s \in session[i]
            /\ Durable!Follows(tasks[i][s], list[s])
         \/ /\ db[s] = "Absent"
            /\ \A k \in DOMAIN commands[i] : commands[i][k][s] = "Absent"
  BY <1>1, <1>2, <1>4, <1>6, FollowsFacts
<1>8. Chain(i)'
  BY <1>1, <1>2, <1>3, <1>4, <1>7, UpdateChain
<1>9. phase[i] = "running"
  BY DEF CreateTask
<1>10. Reading(i)'
  BY <1>1, <1>6, <1>9 DEF Reading
<1> QED
  BY <1>8, <1>10

\* A handler appends a snapshot that follows the last one of that record.
LEMMA HandlerSolo ==
    ASSUME NEW i \in Instances, Solo(i), NEW r \in Records,
           \/ CancelTask(i, r)
           \/ HandleStarted(i, r)
           \/ HandleProgress(i, r)
           \/ \E outcome \in Outcomes : HandleEnd(i, r, outcome)
    PROVE  Chain(i)' /\ Reading(i)'
<1> USE DEF Solo
<1>1. PICK list : Moves(i, r, list) /\ (Update(i, list, {r}) \/ Update(i, list, {}))
  BY HandlerMoves
<1>2. r \in session[i] /\ phase[i] = "running" /\ UNCHANGED <<db, phase, session, actor, restored>>
  BY HandlerMoves
<1>3. session[i] \subseteq Records
  BY LifecycleAssumption DEF TypeOK
<1>4. \A s \in session[i] :
         \/ list[s] = "Absent"
         \/ tasks[i][s] # "Absent" /\ Durable!Follows(tasks[i][s], list[s])
  BY <1>1, <1>3, FollowsFacts, ActiveNotTerminal DEF Moves
<1>5. list \in Rows
  BY <1>1 DEF Moves
<1>6. Chain(i)'
  <2>1. CASE Update(i, list, {r})
    BY <1>2, <1>3, <1>4, <1>5, <2>1, UpdateChain
  <2>2. CASE Update(i, list, {})
    BY <1>2, <1>3, <1>4, <1>5, <2>2, UpdateChain
  <2> QED
    BY <1>1, <2>1, <2>2
<1>7. Reading(i)'
  BY <1>2 DEF Reading
<1> QED
  BY <1>6, <1>7

\* Merging the restored rows persists nothing.
LEMMA LoadedSolo ==
    ASSUME NEW i \in Instances, Solo(i), HandleLoaded(i)
    PROVE  Chain(i)' /\ Reading(i)'
<1> USE DEF Solo
<1> DEFINE merged == [r \in Records |->
                        IF tasks[i][r] = "Absent" THEN restored[i][r] ELSE tasks[i][r]]
<1>1. merged \in Rows
  BY MergeType
<1>2. \A s \in Records : merged[s] = IF tasks[i][s] = "Absent" THEN restored[i][s] ELSE tasks[i][s]
  OBVIOUS
<1>3. /\ Update(i, Evict(i, merged), {})
      /\ phase[i] = "running" /\ actor[i] \notin {"opening", "loaded"}
      /\ UNCHANGED <<db, phase, session, actor>>
      /\ restored' = [restored EXCEPT ![i] = NoRows]
  BY DEF HandleLoaded
<1> HIDE DEF merged
<1>4. /\ Evict(i, merged) \in Rows
      /\ \A s \in Records : Evict(i, merged)[s] \in {merged[s], "Absent"}
  BY <1>1, EvictFacts
<1>5. session[i] \subseteq Records
  BY LifecycleAssumption DEF TypeOK
<1>6. \A s \in session[i] :
         \/ Evict(i, merged)[s] = "Absent"
         \/ /\ tasks[i][s] # "Absent"
            /\ Durable!Follows(tasks[i][s], Evict(i, merged)[s])
  BY <1>2, <1>4, <1>5, FollowsFacts DEF Reading
<1>7. Chain(i)'
  BY <1>3, <1>4, <1>5, <1>6, UpdateChain
<1>8. restored'[i] = NoRows
  BY <1>3 DEF TypeOK
<1>9. Reading(i)'
  BY <1>3, <1>5, <1>8, NoRowsType DEF Reading
<1> QED
  BY <1>7, <1>9

\* Reading the table: what is restored follows what is stored.
LEMMA LoadSolo ==
    ASSUME NEW i \in Instances, Solo(i), Load(i)
    PROVE  Chain(i)' /\ Reading(i)'
<1> USE DEF Solo
<1>1. UNCHANGED <<db, phase, session, tasks, commands>> /\ actor[i] = "opening" /\ phase' = phase
  BY DEF Load
<1>2. restored'[i] = Interrupt(db) /\ db \in Rows
  BY DEF Load, TypeOK
<1>3. session[i] \subseteq Records
  BY LifecycleAssumption DEF TypeOK
<1>4. \A r \in session[i] : restored'[i][r] = "Absent"
  BY <1>1, <1>2, <1>3, InterruptFacts DEF Reading
<1>5. Interrupt(db)' = Interrupt(db)
  BY <1>1 DEF Interrupt
<1> HIDE DEF Interrupt
<1> QED
  BY <1>1, <1>2, <1>4, <1>5 DEF Chain, Reading

\* Writing the restored rows back takes the table forward and keeps the chain.
LEMMA SaveRestoredSolo ==
    ASSUME NEW i \in Instances, Solo(i), SaveRestored(i)
    PROVE  /\ Chain(i)' /\ Reading(i)'
           /\ \A r \in Records : Durable!Follows(db[r], db'[r])
<1> USE DEF Solo
<1>1. /\ UNCHANGED <<phase, session, tasks, commands, restored>>
      /\ actor'[i] = "serving"
      /\ db' = Upserted(db, restored[i], limit[i])
      /\ restored[i] = Interrupt(db)
  BY DEF SaveRestored, Reading, TypeOK
<1>2. db \in Rows /\ restored[i] \in Rows /\ session[i] \subseteq Records
  BY LifecycleAssumption DEF TypeOK
<1>3. \A r \in Records : \/ db'[r] = "Absent"
                         \/ db'[r] = IF restored[i][r] # "Absent" THEN restored[i][r] ELSE db[r]
  BY <1>1, <1>2, UpsertedFacts
<1>4. \A r \in Records : Durable!Follows(db[r], restored[i][r])
  BY <1>1, <1>2, InterruptFacts
<1>5. \A r \in Records : Durable!Follows(db[r], db'[r])
  BY <1>3, <1>4, FollowsFacts
<1>6. \A r \in session[i] : db'[r] \in {"Absent", db[r]}
  BY <1>2, <1>3 DEF Reading
<1>7. \A r \in session[i] : Durable!Follows(db'[r], tasks[i][r])
  BY <1>6, FollowsFacts DEF Chain
<1>8. \A k \in DOMAIN commands[i] : \A r \in Records : Durable!Follows(db'[r], commands[i][k][r])
  BY <1>6, FollowsFacts DEF Chain
<1>9. Chain(i)'
  BY <1>1, <1>7, <1>8 DEF Chain
<1>10. Reading(i)'
  BY <1>1 DEF Reading
<1> QED
  BY <1>5, <1>9, <1>10

\* Saving the oldest snapshot takes the table forward: it heads the chain.
LEMMA SaveSolo ==
    ASSUME NEW i \in Instances, Solo(i), Save(i)
    PROVE  /\ Chain(i)' /\ Reading(i)'
           /\ \A r \in Records : Durable!Follows(db[r], db'[r])
<1> USE DEF Solo
<1>1. /\ UNCHANGED <<phase, session, tasks, restored, actor>>
      /\ actor[i] = "serving" /\ commands[i] # <<>>
      /\ db' = Upserted(db, Head(commands[i]), limit[i])
      /\ commands'[i] = Tail(commands[i])
  BY DEF Save, TypeOK
<1>2. db \in Rows /\ commands[i] \in Seq(Rows) /\ session[i] \subseteq Records
  BY LifecycleAssumption DEF TypeOK
<1>3. Head(commands[i]) = commands[i][1] /\ 1 \in DOMAIN commands[i] /\ commands[i][1] \in Rows
  BY <1>1, <1>2
<1>4. \A r \in Records : \/ db'[r] = "Absent"
                         \/ db'[r] = IF commands[i][1][r] # "Absent" THEN commands[i][1][r] ELSE db[r]
  BY <1>1, <1>2, <1>3, UpsertedFacts
<1>5. \A r \in Records : db'[r] \in {"Absent", db[r], commands[i][1][r]}
  BY <1>4
<1>6. \A r \in Records : Durable!Follows(db[r], db'[r])
  BY <1>3, <1>5, FollowsFacts DEF Chain
<1>7. \A k \in DOMAIN commands'[i] : /\ k + 1 \in DOMAIN commands[i] /\ 1 < k + 1
                                     /\ commands'[i][k] = commands[i][k + 1]
  BY <1>1, <1>2
<1>8. \A k \in DOMAIN commands'[i] : k \in Nat
  BY <1>1, <1>2
<1>9. \A k \in DOMAIN commands[i] : \A r \in Records :
         1 < k => Durable!Follows(db'[r], commands[i][k][r])
  BY <1>3, <1>5, FollowsFacts DEF Chain
<1>10. \A r \in session[i] : Durable!Follows(db'[r], tasks[i][r])
  BY <1>2, <1>3, <1>5, FollowsFacts DEF Chain
<1>11. \A j, k \in DOMAIN commands'[i] : k < j => k + 1 < j + 1
  BY <1>8
<1>12. Chain(i)'
  <2>1. ASSUME NEW k \in DOMAIN commands'[i], NEW r \in Records
        PROVE  /\ commands'[i][k][r] # "Absent" => r \in session[i]
               /\ Durable!Follows(db'[r], commands'[i][k][r])
               /\ Durable!Follows(commands'[i][k][r], tasks[i][r])
    BY <1>7, <1>9 DEF Chain
  <2>2. ASSUME NEW k \in DOMAIN commands'[i], NEW j \in DOMAIN commands'[i], k < j, NEW r \in Records
        PROVE  Durable!Follows(commands'[i][k][r], commands'[i][j][r])
    BY <1>7, <1>11, <2>2 DEF Chain
  <2> QED
    BY <1>1, <1>10, <2>1, <2>2 DEF Chain
<1>13. phase[i] # "down"
  BY <1>1 DEF Reading
<1>14. Reading(i)'
  BY <1>1, <1>13 DEF Reading
<1> QED
  BY <1>6, <1>12, <1>14

\* Everything else the process does.
LEMMA OtherSolo ==
    ASSUME NEW i \in Instances, Solo(i),
           Fail(i) \/ (\E keep \in Limits : Launch(i, keep)) \/ Quit(i) \/ Gone(i)
    PROVE  Chain(i)' /\ Reading(i)' /\ UNCHANGED db
<1> USE DEF Solo
<1>0. session[i] \subseteq Records
  BY LifecycleAssumption DEF TypeOK
<1>1. CASE Fail(i)
  <2>1. /\ UNCHANGED <<db, phase, session, tasks>>
        /\ actor'[i] = "failed" /\ commands'[i] = <<>>
        /\ restored'[i] \in {NoRows, restored[i]}
    BY <1>1 DEF Fail, TypeOK
  <2>2. \A r \in session[i] : restored'[i][r] = "Absent"
    BY <1>0, <2>1, NoRowsType DEF Reading
  <2> QED
    BY <2>1, <2>2 DEF Chain, Reading
<1>2. CASE \E keep \in Limits : Launch(i, keep)
  <2>1. /\ UNCHANGED <<db, session, tasks, commands, restored>>
        /\ phase[i] = "down" /\ actor'[i] = "opening" /\ phase'[i] = "running"
    BY <1>2 DEF Launch, TypeOK
  <2>2. session[i] = {} /\ commands[i] = <<>>
    BY <2>1 DEF Reading
  <2> QED
    BY <2>1, <2>2 DEF Chain, Reading
<1>3. CASE Quit(i)
  <2>1. /\ UNCHANGED <<db, session, tasks, commands, restored, actor>>
        /\ phase'[i] = "stopping"
    BY <1>3 DEF Quit, TypeOK
  <2>2. Interrupt(db)' = Interrupt(db)
    BY <2>1 DEF Interrupt
  <2> HIDE DEF Interrupt
  <2> QED
    BY <2>1, <2>2 DEF Chain, Reading
<1>4. CASE Gone(i)
  <2>1. db' = db /\ session'[i] = {} /\ commands'[i] = <<>> /\ actor'[i] = "none"
    BY <1>4 DEF Gone, TypeOK
  <2> QED
    BY <2>1 DEF Chain, Reading
<1> QED
  BY <1>1, <1>2, <1>3, <1>4

\* What the workers do alone touches neither the table nor the snapshots.
LEMMA WorkerSolo ==
    ASSUME NEW i \in Instances, Solo(i),
           UNCHANGED <<db, phase, session, tasks, commands, restored, actor>>
    PROVE  Chain(i)' /\ Reading(i)'
<1>1. Interrupt(db)' = Interrupt(db)
  BY DEF Interrupt
<1> HIDE DEF Interrupt
<1> QED
  BY <1>1 DEF Solo, Chain, Reading

\* One step of the only Tale.
LEMMA SoloStep ==
    ASSUME NEW i, Instances = {i}, Solo(i), [Next]_vars
    PROVE  Solo(i)' /\ \A r \in Records : Durable!Follows(db[r], db'[r])
<1>0. i \in Instances /\ \A j \in Instances : j = i
  OBVIOUS
<1>1. TypeOK' /\ Fresh'
  BY TypeStep, FreshStep DEF Solo
<1>2. UNCHANGED db => \A r \in Records : Durable!Follows(db[r], db'[r])
  BY FollowsFacts
<1> DEFINE Kept == Chain(i)' /\ Reading(i)' /\ \A r \in Records : Durable!Follows(db[r], db'[r])
<1>3. ASSUME UNCHANGED <<db, phase, session, tasks, commands, restored, actor>> PROVE Kept
  BY <1>0, <1>2, <1>3, WorkerSolo
<1>4. ASSUME NEW stoppable \in BOOLEAN, CreateTask(i, stoppable) PROVE Kept
  BY <1>0, <1>2, <1>4, CreateSolo DEF CreateTask
<1>5. ASSUME NEW r \in Records,
             \/ CancelTask(i, r)
             \/ HandleStarted(i, r)
             \/ HandleProgress(i, r)
             \/ \E outcome \in Outcomes : HandleEnd(i, r, outcome)
      PROVE  Kept
  <2>1. UNCHANGED db
    BY <1>0, <1>5, HandlerMoves DEF Solo
  <2> QED
    BY <1>0, <1>2, <1>5, <2>1, HandlerSolo
<1>6. ASSUME HandleLoaded(i) PROVE Kept
  BY <1>0, <1>2, <1>6, LoadedSolo DEF HandleLoaded
<1>7. ASSUME Load(i) PROVE Kept
  BY <1>0, <1>2, <1>7, LoadSolo DEF Load
<1>8. ASSUME SaveRestored(i) \/ Save(i) PROVE Kept
  BY <1>0, <1>8, SaveRestoredSolo, SaveSolo
<1>9. ASSUME Fail(i) \/ (\E keep \in Limits : Launch(i, keep)) \/ Quit(i) \/ Gone(i) PROVE Kept
  BY <1>0, <1>2, <1>9, OtherSolo
<1>10. ASSUME NEW r \in Records,
              \/ WorkerStart(r)
              \/ WorkerProgress(r)
              \/ \E outcome \in Outcomes : WorkerEnd(r, outcome)
       PROVE  UNCHANGED <<db, phase, session, tasks, commands, restored, actor>>
  BY <1>10 DEF WorkerStart, WorkerProgress, WorkerEnd
<1>11. UNCHANGED vars => UNCHANGED <<db, phase, session, tasks, commands, restored, actor>>
  BY DEF vars
<1>12. Next => Kept
  <2> HIDE DEF Kept
  <2> QED
    BY <1>0, <1>3, <1>4, <1>5, <1>6, <1>7, <1>8, <1>9, <1>10 DEF Next, Exit, Crash
<1> QED
  BY <1>1, <1>3, <1>11, <1>12 DEF Solo

(* With one Tale at a time the row of a task only moves forward, however    *)
(* late the actor writes, wherever Tale crashes, and whatever a restart     *)
(* restores: for any number of tasks, restarts and any max_tasks.           *)
THEOREM RowsForward ==
    ASSUME NEW CONSTANT i, Instances = {i}
    PROVE  Spec => RowsMoveForward
<1>1. Init => Solo(i)
  BY SoloInit
<1>2. Solo(i) /\ [Next]_vars => Solo(i)'
  BY SoloStep
<1>3. Solo(i) /\ [Next]_vars => [\A r \in Records : Durable!Follows(db[r], db'[r])]_vars
  BY SoloStep
<1> QED
  BY <1>1, <1>2, <1>3, PTL DEF Spec, RowsMoveForward
-----------------------------------------------------------------------------
(* One Tale: what is trimmed and what is evicted is old *)

\* A set of numbers with an upper bound has a greatest one.
LEMMA Greatest ==
    ASSUME NEW n \in Nat, NEW S \in SUBSET (1..n), S # {}
    PROVE  \E m \in S : \A k \in S : k <= m
<1> DEFINE Above == {m..n : m \in S}
           R == StrictSubsetOrdering(Nat)
<1>1. IsWellFoundedOn(R, FiniteSubsetsOf(Nat))
  BY FS_StrictSubsetOrderingWellFounded
<1>2. Above \subseteq FiniteSubsetsOf(Nat) /\ Above # {}
  <2>1. \A m \in S : m \in Int /\ n \in Int /\ m..n \subseteq Nat
    OBVIOUS
  <2>2. \A m \in S : IsFiniteSet(m..n)
    BY <2>1, FS_Interval
  <2> QED
    BY <2>1, <2>2 DEF FiniteSubsetsOf
<1>3. PICK a \in Above : \A b \in Above : <<b, a>> \notin R
  <2> HIDE DEF R, Above
  <2> QED
    BY <1>1, <1>2, WFMin
<1>4. PICK m \in S : a = m..n
  BY <1>3
<1>5. ASSUME NEW k \in S, k > m PROVE FALSE
  <2>1. /\ k..n \subseteq m..n /\ m \in m..n /\ m \notin k..n
        /\ k..n \subseteq Nat /\ m..n \subseteq Nat
    BY <1>5
  <2>2. <<k..n, m..n>> \in R
    BY <2>1 DEF StrictSubsetOrdering
  <2> QED
    BY <1>3, <1>4, <2>2
<1> QED
  BY <1>5

\* A set of positive limits has a smallest one.
LEMMA Smallest ==
    ASSUME NEW S \in SUBSET Nat, S # {}
    PROVE  \E m \in S : \A k \in S : m <= k
<1> DEFINE Below == {0..m : m \in S}
           R == StrictSubsetOrdering(Nat)
<1>1. IsWellFoundedOn(R, FiniteSubsetsOf(Nat))
  BY FS_StrictSubsetOrderingWellFounded
<1>2. Below \subseteq FiniteSubsetsOf(Nat) /\ Below # {}
  <2>1. \A m \in S : m \in Int /\ 0 \in Int /\ 0..m \subseteq Nat
    OBVIOUS
  <2>2. \A m \in S : IsFiniteSet(0..m)
    BY <2>1, FS_Interval
  <2> QED
    BY <2>1, <2>2 DEF FiniteSubsetsOf
<1>3. PICK a \in Below : \A b \in Below : <<b, a>> \notin R
  <2> HIDE DEF R, Below
  <2> QED
    BY <1>1, <1>2, WFMin
<1>4. PICK m \in S : a = 0..m
  BY <1>3
<1>5. ASSUME NEW k \in S, k < m PROVE FALSE
  <2>1. /\ 0..k \subseteq 0..m /\ m \in 0..m /\ m \notin 0..k
        /\ 0..k \subseteq Nat /\ 0..m \subseteq Nat
    BY <1>5
  <2>2. <<0..k, 0..m>> \in R
    BY <2>1 DEF StrictSubsetOrdering
  <2> QED
    BY <1>3, <1>4, <2>2
<1> QED
  BY <1>5

\* Sets of records are finite, and a part of one is no larger than it.
LEMMA RecordSets ==
    ASSUME NEW S \in SUBSET Records
    PROVE  /\ IsFiniteSet(S)
           /\ Cardinality(S) \in Nat
           /\ \A T \in SUBSET S : Cardinality(T) \in Nat /\ Cardinality(T) <= Cardinality(S)
<1>1. IsFiniteSet(Records)
  BY LifecycleAssumption, FS_Interval
<1>2. IsFiniteSet(S)
  BY <1>1, FS_Subset
<1>3. \A T \in SUBSET S : IsFiniteSet(T) /\ Cardinality(T) <= Cardinality(S)
  BY <1>2, FS_Subset
<1> QED
  BY <1>2, <1>3, FS_CardinalityType

\* The members of a set that are at least r, and those that are greater.
From(T, r)  == {s \in T : s >= r}
Newer(T, r) == {s \in T : s > r}

\* The member itself is one of those from it.
LEMMA FromNewer ==
    ASSUME NEW T \in SUBSET Records, NEW r \in T
    PROVE  Cardinality(From(T, r)) = Cardinality(Newer(T, r)) + 1
<1>0. r \in Int /\ T \subseteq Int
  BY LifecycleAssumption
<1>1. From(T, r) = Newer(T, r) \cup {r} /\ r \notin Newer(T, r) /\ Newer(T, r) \subseteq Records
  <2>1. \A s \in T : s >= r <=> s > r \/ s = r
    BY <1>0
  <2>2. ~ r > r
    BY <1>0
  <2> QED
    BY <2>1, <2>2 DEF From, Newer
<1>2. IsFiniteSet(Newer(T, r))
  BY <1>1, RecordSets
<1> QED
  BY <1>1, <1>2, FS_AddElement

\* Taking from a set all members with too many from them on leaves, above any
\* member that had too many after it, as many as may stay.
LEMMA EnoughStay ==
    ASSUME NEW T \in SUBSET Records, NEW r \in Records, NEW keep \in Nat, NEW kept,
           \A s \in T : s > r => (s \in kept <=> Cardinality(From(T, s)) <= keep),
           \/ Cardinality(Newer(T, r)) >= keep
           \/ r \in T /\ Cardinality(From(T, r)) > keep
    PROVE  Cardinality({s \in T : s > r /\ s \in kept}) >= keep
<1> DEFINE stay == {s \in T : s > r /\ s \in kept}
           out  == {s \in T : s > r /\ s \notin kept}
<1>1. Cardinality(Newer(T, r)) \in Nat /\ Cardinality(Newer(T, r)) >= keep
  <2>1. Newer(T, r) \subseteq Records
    BY DEF Newer
  <2> QED
    BY <2>1, FromNewer, RecordSets
<1>2. CASE out = {}
  <2>1. stay = Newer(T, r)
    BY <1>2 DEF Newer
  <2> QED
    BY <1>1, <2>1
<1>3. CASE out # {}
  <2>1. PICK m \in out : \A k \in out : k <= m
    BY <1>3, LifecycleAssumption, Greatest
  <2>2. m \in T /\ m \in Records /\ m > r /\ Cardinality(From(T, m)) \in Nat
    <3>1. From(T, m) \subseteq Records
      BY DEF From
    <3> QED
      BY <3>1, RecordSets
  <2>3. Cardinality(From(T, m)) > keep
    BY <2>1, <2>2
  <2>4. Newer(T, m) \subseteq stay /\ stay \subseteq Records
    <3>1. m \in Int /\ r \in Int /\ T \subseteq Int
      BY <2>2, LifecycleAssumption
    <3>2. ASSUME NEW s \in T, s > m PROVE s > r /\ s \notin out
      BY <2>1, <2>2, <3>1, <3>2
    <3>3. Newer(T, m) \subseteq stay
      BY <3>2 DEF Newer
    <3> QED
      BY <3>3
  <2> HIDE DEF stay
  <2>5. /\ Cardinality(Newer(T, m)) \in Nat /\ Cardinality(stay) \in Nat
        /\ Cardinality(Newer(T, m)) <= Cardinality(stay)
    BY <2>4, RecordSets
  <2>6. Cardinality(Newer(T, m)) >= keep
    BY <2>2, <2>3, <2>5, FromNewer
  <2> QED
    BY <2>5, <2>6 DEF stay
<1> QED
  BY <1>2, <1>3

\* The table with an upsert written, before it is trimmed.
Written(rows, upsert) ==
    [s \in Records |-> IF upsert[s] # "Absent" THEN upsert[s] ELSE rows[s]]

\* A save trims a row only when as many newer terminal rows stay as it keeps,
\* and leaves every row it has room for.
LEMMA UpsertedTrims ==
    ASSUME NEW rows \in Rows, NEW upsert \in Rows, NEW keep \in Nat, NEW r \in Records,
           upsert[r] # "Absent" \/ rows[r] # "Absent"
    PROVE  LET merged == Written(rows, upsert)
               saved  == Upserted(rows, upsert, keep)
           IN  /\ saved[r] = "Absent" =>
                    Cardinality({s \in Records : s > r /\ saved[s] \in Terminal}) >= keep
               /\ (merged[r] \in Terminal => Cardinality(From(TerminalIn(merged), r)) <= keep)
                    => saved[r] = merged[r]
<1> DEFINE merged == Written(rows, upsert)
           saved  == Upserted(rows, upsert, keep)
           T      == TerminalIn(merged)
           kept   == {s \in Records : saved[s] \in Terminal}
           Out(s) == s \in T /\ Cardinality(From(T, s)) > keep
<1>1. saved = [s \in Records |-> IF Out(s) THEN "Absent" ELSE merged[s]]
  BY DEF Upserted, From, Written
<1>2. merged[r] # "Absent" /\ T \subseteq Records
  BY DEF TerminalIn, Written
<1>3. \A s \in Records : s \in T <=> merged[s] \in Terminal
  BY DEF TerminalIn
<1> HIDE DEF merged, saved, T, Out
<1>4. \A s \in Records : saved[s] = IF Out(s) THEN "Absent" ELSE merged[s]
  BY <1>1
<1>5. "Absent" \notin Terminal
  BY DEF Terminal, Durable!Terminal
<1>6. \A s \in T : Cardinality(From(T, s)) \in Nat
  <2>1. \A s \in T : From(T, s) \subseteq Records
    BY <1>2 DEF From
  <2> QED
    BY <2>1, RecordSets
<1>7. \A s \in Records : s \in kept <=> s \in T /\ Cardinality(From(T, s)) <= keep
  BY <1>3, <1>4, <1>5, <1>6 DEF Out
<1>8. ASSUME saved[r] = "Absent"
      PROVE  Cardinality({s \in Records : s > r /\ saved[s] \in Terminal}) >= keep
  <2>1. r \in T /\ Cardinality(From(T, r)) > keep
    BY <1>2, <1>4, <1>8 DEF Out
  <2>2. \A s \in T : s > r => (s \in kept <=> Cardinality(From(T, s)) <= keep)
    BY <1>2, <1>7
  <2> HIDE DEF kept
  <2>3. Cardinality({s \in T : s > r /\ s \in kept}) >= keep
    BY <1>2, <2>1, <2>2, EnoughStay
  <2>4. {s \in T : s > r /\ s \in kept} = {s \in Records : s > r /\ saved[s] \in Terminal}
    BY <1>2, <1>7 DEF kept
  <2> QED
    BY <2>3, <2>4
<1>9. ASSUME merged[r] \in Terminal => Cardinality(From(T, r)) <= keep
      PROVE  saved[r] = merged[r]
  BY <1>3, <1>4, <1>6, <1>9 DEF Out
<1> QED
  BY <1>8, <1>9 DEF merged, saved, T

\* The number of ended tasks a list keeps is a number.
LEMMA LimitType ==
    ASSUME TypeOK, NEW i \in Instances
    PROVE  limit[i] \in Nat
<1>0. limit \in [Instances -> {0} \cup Limits]
  BY DEF TypeOK
<1>1. limit[i] \in {0} \cup Limits
  BY <1>0, Zenon
<1>2. \A k \in Limits : k \in Nat
  BY LifecycleAssumption
<1>3. 0 \in Nat
  OBVIOUS
<1> QED
  BY <1>1, <1>2, <1>3, Zenon

\* A session holds every record created since its first one.
Latecomers(i) == \A r \in session[i] : \A s \in Records : r < s /\ s < next => s \in session[i]

\* A task of the session is off the list only behind as many newer ended ones
\* as the list keeps.
OldAreOut(i, list) ==
    \A r \in session[i] :
        list[r] = "Absent" => Cardinality(Newer(TerminalIn(list), r)) >= limit[i]

\* The ended tasks from one of the session's on are no more than the list keeps.
EndedFit(i, list) ==
    \A r \in session[i] :
        list[r] \in Terminal => Cardinality(From(TerminalIn(list), r)) <= limit[i]

\* Eviction leaves a list with room, and takes only old tasks off it.
LEMMA EvictRoom ==
    ASSUME TypeOK, NEW i \in Instances, Latecomers(i), NEW list \in Rows, OldAreOut(i, list),
           \A s \in Records : s >= next => list[s] = "Absent"
    PROVE  OldAreOut(i, Evict(i, list)) /\ EndedFit(i, Evict(i, list))
<1> DEFINE T    == TerminalIn(list)
           left == Evict(i, list)
           kept == TerminalIn(left)
<1>1. session[i] \subseteq Records /\ limit[i] \in Nat /\ T \subseteq Records /\ next \in Nat
  <2>1. session[i] \subseteq Records /\ next \in Nat
    BY LifecycleAssumption DEF TypeOK
  <2>2. limit[i] \in Nat
    BY LimitType
  <2> QED
    BY <2>1, <2>2 DEF TerminalIn
<1>2. \A s \in Records : s \in T <=> list[s] \in Terminal
  BY DEF TerminalIn
<1>3. "Absent" \notin Terminal
  BY DEF Terminal, Durable!Terminal
<1>4. \A s \in T : \A r \in session[i] : s > r => s \in session[i]
  BY <1>1, <1>2, <1>3, LifecycleAssumption DEF Latecomers
<1>5. ASSUME NEW r \in session[i]
      PROVE  {s \in T : NotOlder(i, r, s)} = From(T, r)
  <2>1. r \in Int /\ T \subseteq Int
    BY <1>1, LifecycleAssumption
  <2>2. \A s \in T : NotOlder(i, r, s) <=> s >= r
    BY <1>4, <1>5, <2>1 DEF NotOlder
  <2> QED
    BY <2>2 DEF From
<1>6. left = [r \in Records |->
                IF r \in T /\ Cardinality({s \in T : NotOlder(i, r, s)}) > limit[i]
                  THEN "Absent" ELSE list[r]]
  BY DEF Evict
<1>7. \A s \in T : Cardinality(From(T, s)) \in Nat
  <2>1. \A s \in T : From(T, s) \subseteq Records
    BY <1>1 DEF From
  <2> QED
    BY <2>1, RecordSets
<1> HIDE DEF left, T
<1>8. \A r \in session[i] :
         left[r] = IF r \in T /\ Cardinality(From(T, r)) > limit[i] THEN "Absent" ELSE list[r]
  BY <1>1, <1>5, <1>6
<1>9. \A r \in session[i] : r \in kept <=> r \in T /\ Cardinality(From(T, r)) <= limit[i]
  BY <1>1, <1>2, <1>3, <1>7, <1>8 DEF TerminalIn
<1>10. kept \subseteq T
  BY <1>1, <1>2, <1>3, <1>6 DEF TerminalIn
<1> HIDE DEF kept
<1>11. ASSUME NEW r \in session[i], left[r] = "Absent"
       PROVE  Cardinality(Newer(kept, r)) >= limit[i]
  <2>1. r \in Records
    BY <1>1
  <2>2. \A s \in T : s > r => (s \in kept <=> Cardinality(From(T, s)) <= limit[i])
    BY <1>4, <1>9
  <2>3. \/ Cardinality(Newer(T, r)) >= limit[i]
        \/ r \in T /\ Cardinality(From(T, r)) > limit[i]
    BY <1>8, <1>11 DEF OldAreOut, T
  <2>4. Cardinality({s \in T : s > r /\ s \in kept}) >= limit[i]
    BY <1>1, <2>1, <2>2, <2>3, EnoughStay
  <2>5. {s \in T : s > r /\ s \in kept} = Newer(kept, r)
    BY <1>10 DEF Newer
  <2> QED
    BY <2>4, <2>5
<1>12. ASSUME NEW r \in session[i], left[r] \in Terminal
       PROVE  Cardinality(From(kept, r)) <= limit[i]
  <2>1. r \in kept /\ r \in Records
    BY <1>1, <1>12 DEF kept, TerminalIn
  <2>2. r \in T /\ Cardinality(From(T, r)) <= limit[i]
    BY <1>9, <2>1
  <2>3. From(kept, r) \subseteq From(T, r) /\ From(T, r) \subseteq Records
    BY <1>1, <1>10 DEF From
  <2>4. /\ Cardinality(From(kept, r)) \in Nat /\ Cardinality(From(T, r)) \in Nat
        /\ Cardinality(From(kept, r)) <= Cardinality(From(T, r))
    BY <2>3, RecordSets
  <2> QED
    BY <1>1, <2>2, <2>4
<1> QED
  BY <1>11, <1>12 DEF OldAreOut, EndedFit, kept, left
-----------------------------------------------------------------------------
(* One Tale: the list has room, and the actor lags behind it *)

\* What the list of process i and its limit are worth.
Room(i) ==
    /\ Latecomers(i)
    /\ OldAreOut(i, tasks[i])
    /\ EndedFit(i, tasks[i])
    /\ actor[i] # "none" => limit[i] \in Limits

\* The last thing said of r on its way to the database is the state listed.
LastIsListed(i, r) ==
    \/ /\ db[r] = tasks[i][r]
       /\ \A k \in DOMAIN commands[i] : commands[i][k][r] = "Absent"
    \/ \E k \in DOMAIN commands[i] :
         /\ commands[i][k][r] = tasks[i][r]
         /\ \A j \in DOMAIN commands[i] : j > k => commands[i][j][r] = "Absent"

\* While the actor lives, it has been sent every task's last state.
CaughtUp(i) ==
    actor[i] # "failed" =>
        \A r \in session[i] : tasks[i][r] # "Absent" => LastIsListed(i, r)

\* The inductive invariant of one Tale and its history.
Told(i) == Solo(i) /\ Room(i) /\ CaughtUp(i)

\* Adding ended tasks to a list leaves the old ones out for good reason.
LEMMA OldMonotone ==
    ASSUME TypeOK, NEW i \in Instances, OldAreOut(i, tasks[i]), NEW list \in Rows,
           \A s \in session[i] : list[s] = "Absent" => tasks[i][s] = "Absent",
           TerminalIn(tasks[i]) \subseteq TerminalIn(list)
    PROVE  OldAreOut(i, list)
<1> SUFFICES ASSUME NEW r \in session[i], list[r] = "Absent"
             PROVE  Cardinality(Newer(TerminalIn(list), r)) >= limit[i]
  BY DEF OldAreOut
<1>1. Cardinality(Newer(TerminalIn(tasks[i]), r)) >= limit[i]
  BY DEF OldAreOut
<1>2. /\ Newer(TerminalIn(tasks[i]), r) \subseteq Newer(TerminalIn(list), r)
      /\ Newer(TerminalIn(list), r) \subseteq Records
  BY DEF Newer, TerminalIn
<1>3. /\ Cardinality(Newer(TerminalIn(tasks[i]), r)) \in Nat
      /\ Cardinality(Newer(TerminalIn(list), r)) \in Nat
      /\ Cardinality(Newer(TerminalIn(tasks[i]), r)) <= Cardinality(Newer(TerminalIn(list), r))
  BY <1>2, RecordSets
<1>4. limit[i] \in Nat
  BY LimitType
<1> QED
  BY <1>1, <1>3, <1>4

\* Between states in progress a task neither joins nor leaves the ended ones.
LEMMA ActiveRoom ==
    ASSUME TypeOK, NEW i \in Instances, Room(i), NEW r \in Records,
           NEW state \in Durable!Active, tasks[i][r] \in Durable!Active
    PROVE  LET list == [tasks[i] EXCEPT ![r] = state]
           IN  OldAreOut(i, list) /\ EndedFit(i, list)
<1> DEFINE list == [tasks[i] EXCEPT ![r] = state]
<1>1. \A s \in Records : list[s] = IF s = r THEN state ELSE tasks[i][s]
  BY DEF TypeOK, Rows
<1>2. session[i] \subseteq Records
  BY LifecycleAssumption DEF TypeOK
<1> HIDE DEF list
<1>3. TerminalIn(list) = TerminalIn(tasks[i])
  BY <1>1, ActiveNotTerminal DEF TerminalIn
<1>4. \A s \in session[i] : /\ list[s] = "Absent" => tasks[i][s] = "Absent"
                            /\ list[s] \in Terminal => tasks[i][s] \in Terminal
  BY <1>1, <1>2, ActiveNotTerminal
<1>5. OldAreOut(i, list) /\ EndedFit(i, list)
  BY <1>3, <1>4 DEF Room, OldAreOut, EndedFit
<1> QED
  BY <1>5 DEF list

\* A handler that leaves such a list keeps the room.
LEMMA ListRoom ==
    ASSUME TypeOK, NEW i \in Instances, Room(i), NEW list \in Rows,
           OldAreOut(i, list), EndedFit(i, list), tasks' = [tasks EXCEPT ![i] = list],
           UNCHANGED <<next, limit, session, actor>>
    PROVE  Room(i)'
<1>1. tasks'[i] = list
  BY DEF TypeOK
<1> QED
  BY <1>1 DEF Room, Latecomers, OldAreOut, EndedFit

\* The handlers of cancellation and of worker events keep the room.
LEMMA HandlerRoom ==
    ASSUME NEW i \in Instances, Solo(i), Room(i), NEW r \in Records,
           \/ CancelTask(i, r)
           \/ HandleStarted(i, r)
           \/ HandleProgress(i, r)
           \/ \E outcome \in Outcomes : HandleEnd(i, r, outcome)
    PROVE  Room(i)'
<1>0. TypeOK /\ Fresh /\ tasks[i] \in Rows /\ OldAreOut(i, tasks[i]) /\ EndedFit(i, tasks[i])
  BY DEF Solo, TypeOK, Room
<1>1. UNCHANGED <<next, limit, session, actor>>
  BY DEF CancelTask, HandleStarted, HandleProgress, HandleEnd, Receive
<1>2. ASSUME NEW state \in {"Running", "Cancelling"}, tasks[i][r] \in Durable!Active,
             Update(i, [tasks[i] EXCEPT ![r] = state], {r})
      PROVE  Room(i)'
  <2> DEFINE list == [tasks[i] EXCEPT ![r] = state]
  <2>1. state \in Durable!Active /\ list \in Rows
    BY <1>0, LaterFacts, StateNames, SetType
  <2>2. OldAreOut(i, list) /\ EndedFit(i, list)
    BY <1>0, <1>2, <2>1, ActiveRoom
  <2>3. tasks' = [tasks EXCEPT ![i] = list]
    BY <1>2 DEF Update
  <2> HIDE DEF list
  <2> QED
    BY <1>0, <1>1, <2>1, <2>2, <2>3, ListRoom
<1>3. ASSUME NEW dirty, Update(i, tasks[i], dirty) PROVE Room(i)'
  <2>1. tasks' = [tasks EXCEPT ![i] = tasks[i]]
    BY <1>3 DEF Update
  <2> QED
    BY <1>0, <1>1, <2>1, ListRoom
<1>4. CASE CancelTask(i, r)
  BY <1>2, <1>4, LaterFacts DEF CancelTask
<1>5. CASE HandleStarted(i, r)
  BY <1>2, <1>3, <1>5, LaterFacts DEF HandleStarted
<1>6. CASE HandleProgress(i, r)
  BY <1>3, <1>6 DEF HandleProgress
<1>7. ASSUME NEW outcome \in Outcomes, HandleEnd(i, r, outcome) PROVE Room(i)'
  <2>1. CASE tasks[i][r] \in {"Running", "Cancelling"}
    <3> DEFINE set == [tasks[i] EXCEPT ![r] = outcome]
    <3>1. Update(i, Evict(i, set), {r})
      BY <1>7, <2>1 DEF HandleEnd
    <3>2. set \in Rows
      BY <1>0, StateNames, SetType
    <3>3. \A s \in Records : set[s] = IF s = r THEN outcome ELSE tasks[i][s]
      BY <1>0 DEF Rows
    <3> HIDE DEF set
    <3>4. outcome \in Terminal /\ session[i] \subseteq Records
      BY <1>0, OutcomesTerminal, LifecycleAssumption DEF TypeOK
    <3>5. TerminalIn(tasks[i]) \subseteq TerminalIn(set)
      BY <3>3, <3>4 DEF TerminalIn
    <3>6. \A s \in session[i] : set[s] = "Absent" => tasks[i][s] = "Absent"
      BY <3>3, <3>4 DEF Terminal, Durable!Terminal
    <3>7. OldAreOut(i, set)
      BY <1>0, <3>2, <3>5, <3>6, OldMonotone
    <3>8. \A s \in Records : s >= next => set[s] = "Absent"
      BY <1>0, <2>1, <3>3 DEF Fresh
    <3>9. /\ Evict(i, set) \in Rows
          /\ OldAreOut(i, Evict(i, set)) /\ EndedFit(i, Evict(i, set))
      BY <1>0, <3>2, <3>7, <3>8, EvictFacts, EvictRoom DEF Room
    <3>10. tasks' = [tasks EXCEPT ![i] = Evict(i, set)]
      BY <3>1 DEF Update
    <3> QED
      BY <1>0, <1>1, <3>9, <3>10, ListRoom
  <2>2. CASE tasks[i][r] \notin {"Running", "Cancelling"}
    BY <1>3, <1>7, <2>2 DEF HandleEnd
  <2> QED
    BY <2>1, <2>2
<1> QED
  BY <1>4, <1>5, <1>6, <1>7

\* So does merging the restored tasks.
LEMMA LoadedRoom ==
    ASSUME NEW i \in Instances, Solo(i), Room(i), HandleLoaded(i)
    PROVE  Room(i)'
<1> DEFINE merged == [r \in Records |->
                        IF tasks[i][r] = "Absent" THEN restored[i][r] ELSE tasks[i][r]]
<1>0. TypeOK /\ Fresh /\ session[i] \subseteq Records
  BY LifecycleAssumption DEF Solo, TypeOK
<1>1. UNCHANGED <<next, limit, session, actor>> /\ Update(i, Evict(i, merged), {})
  BY DEF HandleLoaded
<1>2. merged \in Rows
  BY <1>0, MergeType
<1>3. \A s \in Records : merged[s] = IF tasks[i][s] = "Absent" THEN restored[i][s] ELSE tasks[i][s]
  OBVIOUS
<1> HIDE DEF merged
<1>4. TerminalIn(tasks[i]) \subseteq TerminalIn(merged)
  BY <1>3 DEF TerminalIn, Terminal, Durable!Terminal
<1>5. \A s \in session[i] : merged[s] = "Absent" => tasks[i][s] = "Absent"
  BY <1>0, <1>3
<1>6. OldAreOut(i, merged)
  BY <1>0, <1>2, <1>4, <1>5, OldMonotone DEF Room
<1>7. \A s \in Records : s >= next => merged[s] = "Absent"
  BY <1>0, <1>3 DEF Fresh
<1>8. /\ Evict(i, merged) \in Rows
      /\ OldAreOut(i, Evict(i, merged)) /\ EndedFit(i, Evict(i, merged))
  BY <1>0, <1>2, <1>6, <1>7, EvictFacts, EvictRoom DEF Room
<1>9. tasks' = [tasks EXCEPT ![i] = Evict(i, merged)]
  BY <1>1 DEF Update
<1> QED
  BY <1>0, <1>1, <1>8, <1>9, ListRoom

\* A new task is the session's latest, in progress, and listed.
LEMMA CreateRoom ==
    ASSUME NEW i \in Instances, Solo(i), Room(i), NEW stoppable \in BOOLEAN, CreateTask(i, stoppable)
    PROVE  Room(i)'
<1>0. TypeOK /\ Fresh /\ next \in Nat /\ next \in Records
  BY LifecycleAssumption DEF Solo, TypeOK, CreateTask
<1>1. /\ session'[i] = session[i] \cup {next} /\ next' = next + 1
      /\ UNCHANGED <<limit, actor>>
  BY <1>0 DEF CreateTask, TypeOK
<1>2. session[i] \subseteq Records /\ session'[i] \subseteq Records
  BY <1>0, <1>1, LifecycleAssumption DEF TypeOK
<1>3. \A s \in Records : tasks'[i][s] = IF s = next THEN "Queued" ELSE tasks[i][s]
  BY <1>0 DEF CreateTask, Update, TypeOK, Rows
<1>4. TerminalIn(tasks'[i]) = TerminalIn(tasks[i])
  BY <1>0, <1>3 DEF TerminalIn, Fresh, Terminal, Durable!Terminal
<1>5. Latecomers(i)'
  <2>1. ASSUME NEW r \in session'[i], NEW s \in Records, r < s, s < next'
        PROVE  s \in session'[i]
    <3>1. r \in Int /\ s \in Int /\ r \in Records
      BY <1>2, LifecycleAssumption
    <3>2. s = next \/ (s < next /\ r # next)
      BY <1>0, <1>1, <2>1, <3>1
    <3> QED
      BY <1>1, <2>1, <3>1, <3>2 DEF Room, Latecomers
  <2> QED
    BY <2>1 DEF Latecomers
<1>6. \A r \in session'[i] : /\ tasks'[i][r] \in {"Absent"} \cup Terminal => r \in session[i]
                             /\ r \in session[i] => tasks'[i][r] \in {tasks[i][r], "Queued"}
  BY <1>1, <1>2, <1>3 DEF Terminal, Durable!Terminal
<1>7. "Queued" \notin Terminal
  BY DEF Terminal, Durable!Terminal
<1>8. OldAreOut(i, tasks[i])' /\ EndedFit(i, tasks[i])'
  BY <1>1, <1>4, <1>6, <1>7 DEF Room, OldAreOut, EndedFit
<1> QED
  BY <1>1, <1>5, <1>8 DEF Room

\* The rest of the process: a session starts empty, with a limit in use.
LEMMA OtherRoom ==
    ASSUME NEW i \in Instances, Solo(i), Room(i),
           \/ UNCHANGED <<next, limit, session, tasks, actor>>
           \/ Load(i) \/ SaveRestored(i) \/ Save(i) \/ Fail(i)
           \/ (\E keep \in Limits : Launch(i, keep)) \/ Quit(i) \/ Gone(i)
    PROVE  Room(i)'
<1>1. CASE UNCHANGED <<next, limit, session, tasks, actor>>
  BY <1>1 DEF Room, Latecomers, OldAreOut, EndedFit
<1>2. CASE Load(i) \/ SaveRestored(i) \/ Save(i) \/ Fail(i) \/ Quit(i)
  <2>1. UNCHANGED <<next, limit, session, tasks>> /\ (actor'[i] # "none" => actor[i] # "none")
    BY <1>2 DEF Load, SaveRestored, Save, Fail, Quit
  <2> QED
    BY <2>1 DEF Room, Latecomers, OldAreOut, EndedFit
<1>3. CASE \E keep \in Limits : Launch(i, keep)
  <2>1. session'[i] = {} /\ limit'[i] \in Limits
    BY <1>3 DEF Launch, Solo, Reading, TypeOK
  <2> QED
    BY <2>1 DEF Room, Latecomers, OldAreOut, EndedFit
<1>4. CASE Gone(i)
  <2>1. session'[i] = {} /\ actor'[i] = "none"
    BY <1>4 DEF Gone, Solo, TypeOK
  <2> QED
    BY <2>1 DEF Room, Latecomers, OldAreOut, EndedFit
<1> QED
  BY <1>1, <1>2, <1>3, <1>4

\* A handler that sends what it changes keeps the actor informed.
LEMMA UpdateCaughtUp ==
    ASSUME TypeOK, NEW i \in Instances, CaughtUp(i), NEW list \in Rows,
           NEW dirty \in SUBSET Records, Update(i, list, dirty),
           UNCHANGED <<db, actor>>, session'[i] \subseteq Records,
           \A s \in session'[i] \ dirty :
              list[s] # "Absent" => s \in session[i] /\ list[s] = tasks[i][s]
    PROVE  CaughtUp(i)'
<1> DEFINE upsert == TakeDirty(list, dirty)
<1>1. tasks'[i] = list
  BY DEF Update, TypeOK
<1>2. /\ upsert \in Rows
      /\ \A s \in Records : upsert[s] = IF s \in dirty THEN list[s] ELSE "Absent"
  BY TakeDirtyFacts
<1>3. commands[i] \in Seq(Rows)
  BY DEF TypeOK
<1>4. CASE actor[i] = "failed"
  BY <1>4 DEF CaughtUp
<1>5. CASE actor[i] # "failed"
  <2> SUFFICES ASSUME NEW s \in session'[i], list[s] # "Absent"
               PROVE  LastIsListed(i, s)'
    BY <1>1 DEF CaughtUp
  <2>1. /\ Changed(upsert) = {} => commands'[i] = commands[i]
        /\ Changed(upsert) # {} => commands'[i] = Append(commands[i], upsert)
    BY <1>3, <1>5 DEF Update, TypeOK, upsert
  <2>2. s \in Records /\ (upsert[s] # "Absent" => s \in Changed(upsert))
    BY DEF Changed
  <2> HIDE DEF upsert
  <2>3. CASE s \in dirty
    <3>1. commands'[i] = Append(commands[i], upsert) /\ upsert[s] = list[s]
      BY <1>2, <2>1, <2>2, <2>3
    <3>2. /\ Len(commands[i]) + 1 \in DOMAIN commands'[i]
          /\ commands'[i][Len(commands[i]) + 1] = upsert
          /\ \A j \in DOMAIN commands'[i] : ~ j > Len(commands[i]) + 1
      BY <1>2, <1>3, <3>1
    <3> QED
      BY <1>1, <3>1, <3>2 DEF LastIsListed
  <2>4. CASE s \notin dirty
    <3>1. s \in session[i] /\ list[s] = tasks[i][s]
      BY <2>4
    <3>2. LastIsListed(i, s)
      BY <1>5, <3>1 DEF CaughtUp
    <3>3. CASE commands'[i] = commands[i]
      BY <1>1, <3>1, <3>2, <3>3 DEF LastIsListed
    <3>4. CASE commands'[i] = Append(commands[i], upsert)
      <4>1. \A k \in DOMAIN commands'[i] :
               \/ k \in DOMAIN commands[i] /\ commands'[i][k] = commands[i][k]
               \/ commands'[i][k] = upsert
        BY <1>2, <1>3, <3>4
      <4>2. \A k \in DOMAIN commands[i] :
               k \in DOMAIN commands'[i] /\ commands'[i][k] = commands[i][k]
        BY <1>2, <1>3, <3>4
      <4>3. upsert[s] = "Absent"
        BY <1>2, <2>2, <2>4
      <4> QED
        BY <1>1, <3>1, <3>2, <4>1, <4>2, <4>3 DEF LastIsListed
    <3> QED
      BY <2>1, <3>3, <3>4
  <2> QED
    BY <2>3, <2>4
<1> QED
  BY <1>4, <1>5

\* Every handler sends what it changes.
LEMMA HandlerCaughtUp ==
    ASSUME NEW i \in Instances, Told(i),
           \/ \E r \in Records : \/ CancelTask(i, r)
                                 \/ HandleStarted(i, r)
                                 \/ HandleProgress(i, r)
                                 \/ \E outcome \in Outcomes : HandleEnd(i, r, outcome)
           \/ \E stoppable \in BOOLEAN : CreateTask(i, stoppable)
           \/ HandleLoaded(i)
    PROVE  CaughtUp(i)'
<1> USE DEF Told, Solo
<1>0. session[i] \subseteq Records /\ tasks[i] \in Rows
  BY LifecycleAssumption DEF TypeOK
<1>1. ASSUME NEW r \in Records,
             \/ CancelTask(i, r)
             \/ HandleStarted(i, r)
             \/ HandleProgress(i, r)
             \/ \E outcome \in Outcomes : HandleEnd(i, r, outcome)
      PROVE  CaughtUp(i)'
  <2>1. PICK list : /\ Moves(i, r, list)
                    /\ Update(i, list, {r}) \/ (list = tasks[i] /\ Update(i, list, {}))
    BY <1>1, HandlerMoves
  <2>2. UNCHANGED <<db, session, actor>>
    BY <1>1, HandlerMoves
  <2>3. list \in Rows
    BY <2>1 DEF Moves
  <2>4. \A s \in session[i] : s # r /\ list[s] # "Absent" => list[s] = tasks[i][s]
    BY <1>0, <2>1 DEF Moves
  <2>5. CASE Update(i, list, {r})
    BY <1>0, <2>2, <2>3, <2>4, <2>5, UpdateCaughtUp
  <2>6. CASE list = tasks[i] /\ Update(i, list, {})
    BY <1>0, <2>2, <2>3, <2>6, UpdateCaughtUp
  <2> QED
    BY <2>1, <2>5, <2>6
<1>2. ASSUME NEW stoppable \in BOOLEAN, CreateTask(i, stoppable) PROVE CaughtUp(i)'
  <2> DEFINE list == [tasks[i] EXCEPT ![next] = "Queued"]
  <2>1. /\ next \in Records /\ session'[i] = session[i] \cup {next}
        /\ UNCHANGED <<db, actor>> /\ Update(i, list, {next})
    BY <1>2, LifecycleAssumption DEF CreateTask, TypeOK
  <2>2. list \in Rows /\ \A s \in Records : s # next => list[s] = tasks[i][s]
    BY <2>1, SetType, StateNames DEF TypeOK, Rows
  <2>3. session'[i] \subseteq Records /\ {next} \in SUBSET Records
    BY <1>0, <2>1
  <2> HIDE DEF list
  <2> QED
    BY <1>0, <2>1, <2>2, <2>3, UpdateCaughtUp
<1>3. ASSUME HandleLoaded(i) PROVE CaughtUp(i)'
  <2> DEFINE merged == [r \in Records |->
                          IF tasks[i][r] = "Absent" THEN restored[i][r] ELSE tasks[i][r]]
  <2>1. merged \in Rows
    BY MergeType
  <2>2. \A s \in Records : merged[s] = IF tasks[i][s] = "Absent" THEN restored[i][s] ELSE tasks[i][s]
    OBVIOUS
  <2>3. Update(i, Evict(i, merged), {}) /\ UNCHANGED <<db, session, actor>>
    BY <1>3 DEF HandleLoaded
  <2> HIDE DEF merged
  <2>4. /\ Evict(i, merged) \in Rows
        /\ \A s \in Records : Evict(i, merged)[s] \in {merged[s], "Absent"}
    BY <2>1, EvictFacts
  <2>5. \A s \in session[i] :
           Evict(i, merged)[s] # "Absent" => Evict(i, merged)[s] = tasks[i][s]
    BY <1>0, <2>2, <2>4 DEF Reading
  <2> QED
    BY <1>0, <2>3, <2>4, <2>5, UpdateCaughtUp
<1> QED
  BY <1>1, <1>2, <1>3

\* A save does not trim what the list still shows: no more terminal rows can
\* be newer than ended tasks are listed.
LEMMA SaveCaughtUp ==
    ASSUME NEW i \in Instances, Told(i), Save(i)
    PROVE  CaughtUp(i)'
<1> USE DEF Told, Solo
<1> DEFINE upsert == Head(commands[i])
           merged == Written(db, upsert)
           T      == TerminalIn(merged)
           Ended  == TerminalIn(tasks[i])
<1>1. /\ UNCHANGED <<session, tasks, actor>>
      /\ actor[i] = "serving" /\ commands[i] # <<>>
      /\ db' = Upserted(db, upsert, limit[i])
      /\ commands'[i] = Tail(commands[i])
  BY DEF Save, TypeOK
<1>2. db \in Rows /\ commands[i] \in Seq(Rows) /\ session[i] \subseteq Records /\ tasks[i] \in Rows
  BY LifecycleAssumption DEF TypeOK
<1>3. upsert = commands[i][1] /\ 1 \in DOMAIN commands[i] /\ upsert \in Rows
  BY <1>1, <1>2
<1>4. limit[i] \in Nat /\ limit[i] \in Limits
  BY <1>1, LimitType DEF Room
<1>5. \A s \in Records : merged[s] = IF upsert[s] # "Absent" THEN upsert[s] ELSE db[s]
  BY DEF Written
<1>6. \A s \in Records : s \in T <=> merged[s] \in Terminal
  BY DEF TerminalIn
<1>7. \A s \in Records : s \in Ended <=> tasks[i][s] \in Terminal
  BY DEF TerminalIn
<1>8. T \subseteq Records /\ Ended \subseteq Records /\ "Absent" \notin Terminal
  BY DEF TerminalIn, Terminal, Durable!Terminal
<1> HIDE DEF upsert, merged, T, Ended
<1>9. ASSUME NEW s \in session[i] PROVE Durable!Follows(merged[s], tasks[i][s])
  BY <1>2, <1>3, <1>5, <1>9 DEF Chain
<1>10. \A state \in Terminal : Durable!Later(state) = {}
  BY DEF Terminal, Durable!Terminal, Durable!Later
<1>11. ASSUME NEW r \in session[i], tasks[i][r] \in Terminal, merged[r] = tasks[i][r]
       PROVE  Cardinality(From(T, r)) <= limit[i]
  <2>1. r \in Records /\ r \in Ended
    BY <1>2, <1>7, <1>11
  <2>2. Cardinality(From(Ended, r)) <= limit[i]
    BY <1>11 DEF Room, EndedFit, Ended
  <2>3. ASSUME NEW s \in T, s > r PROVE s \in Ended
    <3>1. s \in Records /\ merged[s] \in Terminal
      BY <1>6, <1>8
    <3>2. ~ s >= next
      BY <1>3, <1>5, <1>8, <3>1 DEF Fresh
    <3>3. s \in Int /\ r \in Int /\ next \in Int
      BY <2>1, <3>1, LifecycleAssumption DEF TypeOK
    <3>4. s \in session[i]
      BY <1>11, <2>3, <3>1, <3>2, <3>3 DEF Room, Latecomers
    <3>5. ASSUME tasks[i][s] = "Absent" PROVE FALSE
      <4>1. Cardinality(Newer(Ended, s)) >= limit[i]
        BY <3>4, <3>5 DEF Room, OldAreOut, Ended
      <4>2. Newer(Ended, s) \subseteq Newer(Ended, r) /\ Newer(Ended, r) \subseteq Records
        <5>1. Ended \subseteq Int
          BY <1>8, LifecycleAssumption
        <5>2. ASSUME NEW t \in Ended, t > s PROVE t > r
          <6>1. t \in Int
            BY <5>1
          <6> QED
            BY <2>3, <3>3, <5>2, <6>1
        <5> QED
          BY <1>8, <5>2 DEF Newer
      <4>3. /\ Cardinality(Newer(Ended, s)) \in Nat /\ Cardinality(Newer(Ended, r)) \in Nat
            /\ Cardinality(Newer(Ended, s)) <= Cardinality(Newer(Ended, r))
        BY <4>2, RecordSets
      <4>4. Cardinality(From(Ended, r)) = Cardinality(Newer(Ended, r)) + 1
        BY <1>8, <2>1, FromNewer
      <4> QED
        BY <1>4, <2>2, <4>1, <4>3, <4>4
    <3>6. tasks[i][s] = merged[s]
      BY <1>8, <1>9, <1>10, <3>1, <3>4, <3>5 DEF Durable!Follows
    <3> QED
      BY <1>7, <3>1, <3>6
  <2>4. From(T, r) \subseteq From(Ended, r) /\ From(Ended, r) \subseteq Records
    <3>1. T \subseteq Int /\ r \in Int
      BY <1>8, <2>1, LifecycleAssumption
    <3>2. ASSUME NEW s \in T, s >= r PROVE s = r \/ s > r
      <4>1. s \in Int
        BY <3>1
      <4> QED
        BY <3>1, <3>2, <4>1
    <3> QED
      BY <1>8, <2>1, <2>3, <3>2 DEF From
  <2>5. /\ Cardinality(From(T, r)) \in Nat /\ Cardinality(From(Ended, r)) \in Nat
        /\ Cardinality(From(T, r)) <= Cardinality(From(Ended, r))
    BY <2>4, RecordSets
  <2> QED
    BY <1>4, <2>2, <2>5
<1> SUFFICES ASSUME NEW r \in session[i], tasks[i][r] # "Absent"
             PROVE  LastIsListed(i, r)'
  BY <1>1 DEF CaughtUp
<1>12. r \in Records /\ LastIsListed(i, r)
  BY <1>1, <1>2 DEF CaughtUp
<1>13. DOMAIN commands[i] = 1..Len(commands[i]) /\ Len(commands[i]) \in Nat
  BY <1>2
<1>14. \A k \in DOMAIN commands'[i] : /\ k + 1 \in DOMAIN commands[i] /\ 1 < k + 1
                                      /\ k \in Nat
                                      /\ commands'[i][k] = commands[i][k + 1]
  BY <1>1, <1>2
<1>15. CASE \E k \in DOMAIN commands[i] :
               /\ k > 1
               /\ commands[i][k][r] = tasks[i][r]
               /\ \A j \in DOMAIN commands[i] : j > k => commands[i][j][r] = "Absent"
  <2>1. PICK k \in DOMAIN commands[i] :
               /\ k > 1
               /\ commands[i][k][r] = tasks[i][r]
               /\ \A j \in DOMAIN commands[i] : j > k => commands[i][j][r] = "Absent"
    BY <1>15
  <2>2. k - 1 \in DOMAIN commands'[i] /\ commands'[i][k - 1] = commands[i][k] /\ k \in Nat
    BY <1>1, <1>2, <1>13, <2>1
  <2>3. \A j \in DOMAIN commands'[i] : j > k - 1 => commands'[i][j][r] = "Absent"
    BY <1>14, <2>1, <2>2
  <2> QED
    BY <1>1, <2>1, <2>2, <2>3 DEF LastIsListed
<1>16. CASE /\ merged[r] = tasks[i][r]
            /\ \A j \in DOMAIN commands[i] : j > 1 => commands[i][j][r] = "Absent"
  <2>1. merged[r] \in Terminal => Cardinality(From(T, r)) <= limit[i]
    BY <1>11, <1>16
  <2>2. upsert[r] # "Absent" \/ db[r] # "Absent"
    BY <1>5, <1>12, <1>16
  <2>3. db'[r] = merged[r]
    <3>1. (merged[r] \in Terminal => Cardinality(From(TerminalIn(merged), r)) <= limit[i])
             => Upserted(db, upsert, limit[i])[r] = merged[r]
      BY <1>2, <1>3, <1>4, <1>12, <2>2, UpsertedTrims, ZenonT(60) DEF merged
    <3> QED
      BY <1>1, <2>1, <3>1 DEF T
  <2>4. \A j \in DOMAIN commands'[i] : commands'[i][j][r] = "Absent"
    BY <1>14, <1>16
  <2> QED
    BY <1>1, <1>16, <2>3, <2>4 DEF LastIsListed
<1>17. \A k \in DOMAIN commands[i] : k \in Nat /\ (k > 1 \/ k = 1)
  BY <1>13
<1> QED
  BY <1>3, <1>5, <1>12, <1>15, <1>16, <1>17 DEF LastIsListed

\* What writes the restored rows back leaves the session's rows alone, and so
\* does everything that ends or starts the actor.
LEMMA OtherCaughtUp ==
    ASSUME NEW i \in Instances, Told(i),
           \/ UNCHANGED <<db, session, tasks, commands, actor>>
           \/ Load(i) \/ SaveRestored(i) \/ Fail(i)
           \/ (\E keep \in Limits : Launch(i, keep)) \/ Quit(i) \/ Gone(i)
    PROVE  CaughtUp(i)'
<1> USE DEF Told, Solo
<1>1. CASE UNCHANGED <<db, session, tasks, commands, actor>> \/ Quit(i)
  <2>1. UNCHANGED <<db, session, tasks, commands, actor>>
    BY <1>1 DEF Quit
  <2> QED
    BY <2>1 DEF CaughtUp, LastIsListed
<1>2. CASE Load(i)
  <2>1. UNCHANGED <<db, session, tasks, commands>> /\ actor[i] # "failed"
    BY <1>2 DEF Load
  <2> QED
    BY <2>1 DEF CaughtUp, LastIsListed
<1>3. CASE SaveRestored(i)
  <2>1. /\ UNCHANGED <<session, tasks, commands>> /\ actor[i] = "loaded"
        /\ db' = Upserted(db, restored[i], limit[i])
    BY <1>3 DEF SaveRestored
  <2>2. db \in Rows /\ restored[i] \in Rows /\ session[i] \subseteq Records
    BY LifecycleAssumption DEF TypeOK
  <2>3. \A r \in session[i] : db'[r] = db[r]
    <3> SUFFICES ASSUME NEW r \in session[i] PROVE db'[r] = db[r]
      OBVIOUS
    <3>1. restored[i][r] = "Absent" /\ db[r] = "Absent" /\ r \in Records
      BY <2>1, <2>2 DEF Reading
    <3>2. \/ db'[r] = "Absent"
          \/ db'[r] = IF restored[i][r] # "Absent" THEN restored[i][r] ELSE db[r]
      BY <2>1, <2>2, <3>1, UpsertedFacts
    <3> QED
      BY <3>1, <3>2
  <2> QED
    BY <2>1, <2>3 DEF CaughtUp, LastIsListed
<1>4. CASE Fail(i)
  <2>1. actor'[i] = "failed"
    BY <1>4 DEF Fail, TypeOK
  <2> QED
    BY <2>1 DEF CaughtUp
<1>5. CASE (\E keep \in Limits : Launch(i, keep)) \/ Gone(i)
  <2>1. session'[i] = {}
    BY <1>5 DEF Launch, Gone, Reading, TypeOK
  <2> QED
    BY <2>1 DEF CaughtUp
<1> QED
  BY <1>1, <1>2, <1>3, <1>4, <1>5

\* The invariant of one Tale and its history holds at the start.
LEMMA ToldInit ==
    ASSUME NEW i \in Instances, Init
    PROVE  Told(i)
<1>1. Solo(i)
  BY SoloInit
<1>2. Room(i) /\ CaughtUp(i)
  BY DEF Init, Room, CaughtUp, Latecomers, OldAreOut, EndedFit
<1> QED
  BY <1>1, <1>2 DEF Told

\* Every step of the only Tale keeps it: one case per group of actions.
LEMMA ToldStep ==
    ASSUME NEW i, Instances = {i}, Told(i), [Next]_vars
    PROVE  Told(i)'
<1>0. i \in Instances /\ (\A j \in Instances : j = i) /\ Solo(i) /\ Room(i)
  BY DEF Told
<1>1. Solo(i)'
  BY <1>0, SoloStep
<1> DEFINE Kept == Room(i)' /\ CaughtUp(i)'
<1>2. ASSUME NEW r \in Records,
             \/ CancelTask(i, r)
             \/ HandleStarted(i, r)
             \/ HandleProgress(i, r)
             \/ \E outcome \in Outcomes : HandleEnd(i, r, outcome)
      PROVE  Kept
  BY <1>0, <1>2, HandlerRoom, HandlerCaughtUp
<1>3. ASSUME NEW stoppable \in BOOLEAN, CreateTask(i, stoppable) PROVE Kept
  BY <1>0, <1>3, CreateRoom, HandlerCaughtUp
<1>4. ASSUME HandleLoaded(i) PROVE Kept
  BY <1>0, <1>4, LoadedRoom, HandlerCaughtUp
<1>5. ASSUME Save(i) PROVE Kept
  BY <1>0, <1>5, OtherRoom, SaveCaughtUp
<1>6. ASSUME \/ UNCHANGED <<db, next, limit, session, tasks, commands, actor>>
             \/ Load(i) \/ SaveRestored(i) \/ Fail(i)
             \/ (\E keep \in Limits : Launch(i, keep)) \/ Quit(i) \/ Gone(i)
      PROVE  Kept
  BY <1>0, <1>6, OtherRoom, OtherCaughtUp
<1>7. ASSUME NEW r \in Records,
             \/ WorkerStart(r)
             \/ WorkerProgress(r)
             \/ \E outcome \in Outcomes : WorkerEnd(r, outcome)
      PROVE  UNCHANGED <<db, next, limit, session, tasks, commands, actor>>
  BY <1>7 DEF WorkerStart, WorkerProgress, WorkerEnd
<1>8. UNCHANGED vars => UNCHANGED <<db, next, limit, session, tasks, commands, actor>>
  BY DEF vars
<1>9. Kept
  <2> HIDE DEF Kept
  <2> QED
    BY <1>0, <1>2, <1>3, <1>4, <1>5, <1>6, <1>7, <1>8 DEF Next, Exit, Crash
<1> QED
  BY <1>1, <1>9 DEF Told

\* What was said last is what the database will hold.
LEMMA LastIsLatest ==
    ASSUME NEW i \in Instances, Told(i), NEW r \in session[i],
           actor[i] # "failed", tasks[i][r] # "Absent"
    PROVE  Latest(i, r) = tasks[i][r]
<1> DEFINE ks == {k \in DOMAIN commands[i] : commands[i][k][r] # "Absent"}
<1>1. LastIsListed(i, r)
  BY DEF Told, CaughtUp
<1>2. DOMAIN commands[i] \subseteq Nat
  <2>1. commands[i] \in Seq(Rows)
    BY DEF Told, Solo, TypeOK
  <2> QED
    BY <2>1
<1>3. CASE ks = {}
  <2>1. db[r] = tasks[i][r]
    BY <1>1, <1>3 DEF LastIsListed
  <2> QED
    BY <1>3, <2>1 DEF Latest
<1>4. CASE ks # {}
  <2>1. PICK k \in DOMAIN commands[i] :
               /\ commands[i][k][r] = tasks[i][r]
               /\ \A j \in DOMAIN commands[i] : j > k => commands[i][j][r] = "Absent"
    BY <1>1, <1>4 DEF LastIsListed
  <2>2. k \in ks /\ \A j \in ks : j <= k
    BY <1>2, <2>1
  <2>3. \A m \in ks : (\A j \in ks : j <= m) => m = k
    BY <1>2, <2>2
  <2>4. (CHOOSE m \in ks : \A j \in ks : j <= m) = k
    BY <2>2, <2>3
  <2> QED
    BY <1>4, <2>1, <2>4 DEF Latest
<1> QED
  BY <1>3, <1>4

(* With one Tale at a time, whatever the order of worker events, of the     *)
(* actor's writes and of its trimming, the state a task of the session      *)
(* shows is the state the database holds once the commands are written.     *)
THEOREM HistoryKept ==
    ASSUME NEW CONSTANT i, Instances = {i}
    PROVE  Spec => []HistoryUpToDate
<1>1. Init => Told(i)
  BY ToldInit
<1>2. Told(i) /\ [Next]_vars => Told(i)'
  BY ToldStep
<1>3. Told(i) => HistoryUpToDate
  BY LastIsLatest DEF HistoryUpToDate
<1> QED
  BY <1>1, <1>2, <1>3, PTL DEF Spec
-----------------------------------------------------------------------------
(* One Tale: the table implements the durable history *)

\* The smallest of the limits in use.
Fewest == CHOOSE k \in Limits : \A n \in Limits : k <= n

\* There is one.
LEMMA FewestType == Fewest \in Nat /\ \A n \in Limits : n \in Nat /\ Fewest <= n
<1>1. \E k \in Limits : \A n \in Limits : k <= n
  <2>1. Limits \in SUBSET Nat /\ Limits # {}
    BY LifecycleAssumption
  <2> QED
    BY <2>1, Smallest
<1>2. Fewest \in Limits /\ \A n \in Limits : Fewest <= n
  BY <1>1 DEF Fewest
<1>3. \A n \in Limits : n \in Nat
  BY LifecycleAssumption
<1> QED
  BY <1>2, <1>3

\* The cardinality DurableHistory speaks of is the one used here.
LEMMA SameCardinality == \A S : Durable!Cardinality(S) = Cardinality(S)
BY DEF Durable!Cardinality, Cardinality

\* A row of the table disappears in a save, behind enough newer terminal rows.
LEMMA RowsTrimmed ==
    ASSUME NEW i \in Instances, Told(i), SaveRestored(i) \/ Save(i), NEW r \in Records,
           db[r] # "Absent", db'[r] = "Absent"
    PROVE  Cardinality({s \in Records : s > r /\ db'[s] \in Terminal}) >= Fewest
<1>1. PICK upsert \in Rows : db' = Upserted(db, upsert, limit[i])
  <2>1. CASE SaveRestored(i)
    BY <2>1 DEF SaveRestored, Told, Solo, TypeOK
  <2>2. CASE Save(i)
    <3>1. commands[i] \in Seq(Rows) /\ commands[i] # <<>>
      BY <2>2 DEF Save, Told, Solo, TypeOK
    <3>2. Head(commands[i]) \in Rows
      BY <3>1
    <3> QED
      BY <2>2, <3>2 DEF Save
  <2> QED
    BY <2>1, <2>2
<1>2. limit[i] \in Nat /\ limit[i] \in Limits /\ db \in Rows
  BY LimitType DEF Told, Solo, TypeOK, Room, SaveRestored, Save
<1>3. Cardinality({s \in Records : s > r /\ db'[s] \in Terminal}) >= limit[i]
  BY <1>1, <1>2, UpsertedTrims
<1>4. Cardinality({s \in Records : s > r /\ db'[s] \in Terminal}) \in Nat
  <2>1. {s \in Records : s > r /\ db'[s] \in Terminal} \subseteq Records
    OBVIOUS
  <2> QED
    BY <2>1, RecordSets
<1> QED
  BY <1>2, <1>3, <1>4, FewestType

\* Every step of Tale is a step of the durable history, or leaves it alone.
LEMMA DurableStep ==
    ASSUME NEW i, Instances = {i}, Told(i), [Next]_vars
    PROVE  [Durable!Next]_db
<1>0. i \in Instances /\ (\A j \in Instances : j = i) /\ Solo(i)
  BY DEF Told
<1> SUFFICES ASSUME db' # db PROVE Durable!Next
  OBVIOUS
<1>1. SaveRestored(i) \/ Save(i)
  <2>1. Next
    BY DEF vars
  <2>2. \A r \in Records : /\ ~ WorkerStart(r) /\ ~ WorkerProgress(r)
                          /\ \A outcome \in Outcomes : ~ WorkerEnd(r, outcome)
    BY DEF WorkerStart, WorkerProgress, WorkerEnd
  <2>3. /\ \A stoppable \in BOOLEAN : ~ CreateTask(i, stoppable)
        /\ \A r \in Records : /\ ~ CancelTask(i, r) /\ ~ HandleStarted(i, r) /\ ~ HandleProgress(i, r)
                              /\ \A outcome \in Outcomes : ~ HandleEnd(i, r, outcome)
    BY DEF CreateTask, CancelTask, HandleStarted, HandleProgress, HandleEnd, Receive
  <2>4. /\ ~ Load(i) /\ ~ Fail(i) /\ ~ HandleLoaded(i) /\ ~ Quit(i) /\ ~ Exit(i) /\ ~ Crash(i)
        /\ \A keep \in Limits : ~ Launch(i, keep)
    BY DEF Load, Fail, HandleLoaded, Launch, Quit, Exit, Crash, Gone
  <2> QED
    BY <1>0, <2>1, <2>2, <2>3, <2>4 DEF Next
<1>2. \A r \in Records : Durable!Follows(db[r], db'[r])
  BY <1>0, SoloStep
<1>3. db' \in [Records -> States \cup {"Absent"}]
  BY <1>0, TypeStep DEF Solo, TypeOK, Rows
<1>4. \A r \in Records : db[r] # "Absent" /\ db'[r] = "Absent" =>
         Cardinality({s \in Records : s > r /\ db'[s] \in Terminal}) >= Fewest
  BY <1>0, <1>1, RowsTrimmed
<1> HIDE DEF Records
<1>5. Durable!Next <=>
        /\ db' \in [Records -> States \cup {"Absent"}]
        /\ \A r \in Records : Durable!Follows(db[r], db'[r])
        /\ \A r \in Records : db[r] # "Absent" /\ db'[r] = "Absent" =>
              Cardinality({s \in Records : s > r /\ db'[s] \in Terminal}) >= Fewest
  BY SameCardinality DEF Durable!Next, States, Terminal, Fewest
<1> QED
  BY <1>2, <1>3, <1>4, <1>5

(* With one Tale at a time the task_history table is a durable history: the *)
(* initial table is its initial state and each step maps to one of its      *)
(* steps or to a stutter, so that rows only move forward and are forgotten  *)
(* only behind max_tasks newer terminal ones, for any number of tasks,      *)
(* restarts and any set of limits.                                          *)
THEOREM TableIsDurable ==
    ASSUME NEW CONSTANT i, Instances = {i}
    PROVE  Spec => ImplementsDurableHistory
<1>1. Init => Told(i) /\ Durable!Init
  BY ToldInit DEF Init, NoRows, Durable!Init
<1>2. Told(i) /\ [Next]_vars => Told(i)'
  BY ToldStep
<1>3. Told(i) /\ [Next]_vars => [Durable!Next]_db
  BY DurableStep
<1> QED
  BY <1>1, <1>2, <1>3, PTL DEF Spec, ImplementsDurableHistory, Durable!Spec
=============================================================================
