--------------------------- MODULE DurableHistory ---------------------------
(***************************************************************************)
(* What the task_history table promises: the row of a task only ever moves *)
(* forward in the life of the task, a terminal row is never rewritten, and *)
(* a row is forgotten only when Keep newer terminal rows are there.        *)
(***************************************************************************)
EXTENDS Naturals, FiniteSets

CONSTANTS Records,   \* a set of naturals: the order of creation
          Keep       \* history.max_tasks

VARIABLE db    \* [Records -> state of the row, or "Absent"]

Terminal == {"Succeeded", "Failed", "Cancelled", "Interrupted"}
Active   == {"Queued", "Running", "Cancelling"}
States   == Active \cup Terminal

NoRows == [r \in Records |-> "Absent"]

\* The states a task may reach from each state, in one step or several.
Later(state) == CASE state = "Queued"     -> {"Running", "Cancelling"} \cup Terminal
                  [] state = "Running"    -> {"Cancelling"} \cup Terminal
                  [] state = "Cancelling" -> Terminal
                  [] OTHER                -> {}

Follows(old, new) == new = old \/ old = "Absent" \/ new = "Absent" \/ new \in Later(old)

Init == db = NoRows

Next ==
    /\ db' \in [Records -> States \cup {"Absent"}]
    /\ \A r \in Records : Follows(db[r], db'[r])
    /\ \A r \in Records : db[r] # "Absent" /\ db'[r] = "Absent" =>
          Cardinality({s \in Records : s > r /\ db'[s] \in Terminal}) >= Keep

Spec == Init /\ [][Next]_db
=============================================================================
