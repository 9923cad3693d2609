----------------------------- MODULE MCEndings -----------------------------
(***************************************************************************)
(* Instances of what must come to an end by itself: a batch of changes, a  *)
(* task and its history, a read that needs a token, a command whose output *)
(* is read.  A behaviour is of one of them, the others rest in an initial  *)
(* state.                                                                  *)
(***************************************************************************)
EXTENDS AdminWrites, AdminTokens, StreamedCommand

CONSTANTS Instances, MaxRecords, MaxLaunches, Limits, Outcomes

VARIABLES part,   \* the component this behaviour is of
          db, next, launches, phase, limit, tasks, session, cancellable, worker,
          mail, cancelled, actor, restored, commands, finished, lost

Life == INSTANCE TaskLifecycle
lifeVars == <<db, next, launches, phase, limit, tasks, session, cancellable, worker,
              mail, cancelled, actor, restored, commands, finished, lost>>

Token(oauth, stored, lapses, losses, taken) ==
    [oauth |-> oauth, stored |-> stored, lapses |-> lapses, faults |-> losses, revoked |-> taken]

TokenScenarios ==
    {Token(TRUE, TRUE, 2, 0, 0), Token(TRUE, TRUE, 1, 0, 1), Token(TRUE, TRUE, 1, 1, 0), Token(FALSE, TRUE, 0, 1, 1),
     Token(FALSE, FALSE, 0, 0, 0), Token(TRUE, TRUE, 0, 3, 0)}

Command(sort, o, e, status, limited, forever, leaves, stoppable) ==
    [kind |-> sort, out |-> o, err |-> e, code |-> status, timed |-> limited, lasting |-> forever, heir |-> leaves,
     cancels |-> stoppable]

CommandScenarios ==
    {Command("ping", 3, 1, 0, TRUE, FALSE, FALSE, TRUE), Command("netcheck", 2, 1, 0, FALSE, TRUE, FALSE, TRUE),
     Command("netcheck", 1, 0, 0, TRUE, FALSE, FALSE, FALSE), Command("collected", 3, 3, 0, TRUE, FALSE, TRUE, TRUE),
     Command("transfer", 2, 2, 1, FALSE, FALSE, TRUE, TRUE)}

Resting(scenarios) == CHOOSE s \in scenarios : TRUE

endingVars == <<part, vars, lifeVars, tokenVars, commandVars>>

EndingInit ==
    /\ part \in {"batch", "task", "token", "command"}
    /\ Init
    /\ Life!Init
    /\ TokensInit  /\ (part # "token" => credential = Resting(TokenBounds))
    /\ CommandInit /\ (part # "command" => command = Resting(CommandBounds))

EndingNext ==
    /\ UNCHANGED part
    /\ \/ part = "batch" /\ Next /\ UNCHANGED <<lifeVars, tokenVars, commandVars>>
       \/ part = "task" /\ Life!Next /\ UNCHANGED <<vars, tokenVars, commandVars>>
       \/ part = "token" /\ TokensNext /\ UNCHANGED <<vars, lifeVars, commandVars>>
       \/ part = "command" /\ CommandNext /\ UNCHANGED <<vars, lifeVars, tokenVars>>

\* Nothing of a batch, a task or a read is owed while they rest; a command at
\* rest would have to go on.
EndingFairness ==
    /\ Fairness /\ Life!Fairness /\ TokensFairness
    /\ WF_commandVars(part = "command" /\ ChildWorks)
    /\ WF_commandVars(part = "command" /\ WaiterWorks)
    /\ WF_commandVars(part = "command" /\ LoopWorks)
    /\ \A s \in Streams : WF_commandVars(part = "command" /\ PipeReaderWorks(s))

EndingSpec == EndingInit /\ [][EndingNext]_endingVars /\ EndingFairness

\* A task whose cancellation was requested reaches an end (TaskLifecycle).
CancelledTaskEnds == Life!CancelledTaskEnds

\* The end of a task the user has seen reaches the database (TaskLifecycle).
EveryEndIsStored == Life!EveryEndIsStored

\* A read ends, though readers share one mutex that is held across a network
\* call and any of them may be cancelled there; so does a command that exits,
\* times out or is cancelled, whatever is full: a pipe, the channel of lines,
\* the buffer of what is kept.
ReadsAndCommandsEnd ==
    []<>(CASE part = "token"   -> \A c \in Calls : call[c].step \in {"idle", "ended"}
           [] part = "command" -> CommandOver
           [] OTHER            -> TRUE)

=============================================================================
