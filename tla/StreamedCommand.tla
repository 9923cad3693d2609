--------------------------- MODULE StreamedCommand --------------------------
(***************************************************************************)
(* A local command with its output: a child that writes to two pipes, a    *)
(* reader for each that keeps the first bytes and sends every line on a    *)
(* bounded channel, the future that waits for the child (and kills it when *)
(* the command is cancelled or times out) and then for the readers, and    *)
(* the loop that takes lines while it polls that future.                   *)
(***************************************************************************)
EXTENDS Integers, Sequences, FiniteSets

CONSTANTS PipeSize,        \* lines a pipe holds (64 KiB in Linux)
          LineSlots,       \* lines the channel holds: 128, 64 for transfers
          OutputLimit,     \* lines of each stream that are kept
          CommandBounds    \* the commands: [kind, out, err, code, timed, lasting, heir, cancels]

ASSUME CommandAssumption ==
    /\ {PipeSize, LineSlots} \subseteq Nat \ {0} /\ OutputLimit \in Nat
    /\ \A b \in CommandBounds : {b.out, b.err} \subseteq Nat /\ b.heir \in BOOLEAN

Streams == {"out", "err"}
Kinds == {"ping", "netcheck", "transfer", "collected"}

VARIABLES command,    \* what runs, and what may happen to it
          stopping,   \* the Cancellation of its task
          child,      \* the process (external): running, exited or killed
          heir,       \* a process of its own still holds the pipes (external)
          written,    \* lines written, by stream (external)
          reader,     \* the readers: [step, taken, kept, truncated]
          lines,      \* the channel
          waiter,     \* run_lines, run: waiting, joining or done
          verdict,    \* how wait_for_child ended
          loop,       \* the loop that takes lines
          inHand,     \* the line it handles
          handled,    \* the lines handled, by stream
          told        \* the end its task is told of

commandVars == <<command, stopping, child, heir, written, reader, lines, waiter, verdict, loop, inHand, handled, told>>

NoLine == [stream |-> "none", n |-> 0]
Streaming == command.kind # "collected"
Smaller(m, n) == IF m < n THEN m ELSE n

CommandInit ==
    /\ command \in CommandBounds
    /\ stopping = FALSE
    /\ child = "running"
    /\ heir = command.heir
    /\ written = [s \in Streams |-> 0]
    /\ reader = [s \in Streams |-> [step |-> "reading", taken |-> 0, kept |-> 0, truncated |-> FALSE]]
    /\ lines = <<>>
    /\ waiter = "waiting"
    /\ verdict = "none"
    /\ loop = IF Streaming THEN "selecting" ELSE "awaiting"
    /\ inHand = NoLine
    /\ handled = [s \in Streams |-> <<>>]
    /\ told = "nothing"

-----------------------------------------------------------------------------
(* The child *)

TaleRests == UNCHANGED <<command, stopping, reader, lines, waiter, verdict, loop, inHand, handled, told>>

ChildWrites(s) ==
    /\ child = "running" /\ written[s] < command[s]
    /\ written[s] - reader[s].taken < PipeSize
    /\ written' = [written EXCEPT ![s] = @ + 1]
    /\ TaleRests /\ UNCHANGED <<child, heir>>

ChildExits ==
    /\ child = "running" /\ ~command.lasting
    /\ \A s \in Streams : written[s] = command[s]
    /\ child' = "exited"
    /\ TaleRests /\ UNCHANGED <<heir, written>>

HeirEnds == heir /\ child # "running" /\ heir' = FALSE /\ TaleRests /\ UNCHANGED <<child, written>>

-----------------------------------------------------------------------------
(* The readers *)

OthersRest == UNCHANGED <<command, stopping, child, heir, written, waiter, verdict, loop, inHand, handled, told>>

\* Mutant: a reader stops where it keeps no more.
CanRead_ToLimit(s) == written[s] > reader[s].taken /\ reader[s].kept < OutputLimit

CanRead(s) == written[s] > reader[s].taken

\* read_limited, read_lines: what is over the limit is read and thrown away.
ReaderTakes(s) ==
    /\ reader[s].step = "reading" /\ CanRead(s)
    /\ reader' = [reader EXCEPT ![s] = [step      |-> IF Streaming THEN "sending" ELSE "reading",
                                        taken     |-> @.taken + 1,
                                        kept      |-> Smaller(@.taken + 1, OutputLimit),
                                        truncated |-> @.taken + 1 > OutputLimit]]
    /\ UNCHANGED lines
    /\ OthersRest

ReaderSends(s) ==
    /\ reader[s].step = "sending" /\ Len(lines) < LineSlots
    /\ lines' = Append(lines, [stream |-> s, n |-> reader[s].taken])
    /\ reader' = [reader EXCEPT ![s].step = "reading"]
    /\ OthersRest

ReaderEnds(s) ==
    /\ reader[s].step = "reading" /\ written[s] = reader[s].taken
    /\ child # "running" /\ ~heir
    /\ reader' = [reader EXCEPT ![s].step = "ended"]
    /\ UNCHANGED lines
    /\ OthersRest

-----------------------------------------------------------------------------
(* The waiter, which runs only when the loop polls it *)

Polled == loop \in {"selecting", "awaiting"}

ReadersRest == UNCHANGED <<command, heir, written, reader, lines>>
EndsWaiting(how) == waiter = "waiting" /\ Polled /\ waiter' = "joining" /\ verdict' = how

SeesExit ==
    /\ child # "running"
    /\ EndsWaiting("exited")
    /\ ReadersRest /\ UNCHANGED <<stopping, child, loop, inHand, handled, told>>

\* A child that has just exited is not killed, and is said to have been.
Kills(how) ==
    /\ EndsWaiting(how)
    /\ child' = IF child = "running" THEN "killed" ELSE child
    /\ ReadersRest /\ UNCHANGED <<stopping, loop, inHand, handled, told>>

TimesOut == command.timed /\ Kills("timed out")
SeesCancellation == stopping /\ Kills("cancelled")

CancelCommand ==
    /\ command.cancels /\ ~stopping /\ loop # "ended"
    /\ stopping' = TRUE
    /\ ReadersRest /\ UNCHANGED <<child, waiter, verdict, loop, inHand, handled, told>>

\* Mutant: the readers are not waited for.
ReadersDone_Assumed == TRUE

\* join_capture.
ReadersDone == \A s \in Streams : reader[s].step = "ended"

\* The end of the task, from how the child ended and the lines handled so far.
EndToTell ==
    CASE verdict = "cancelled" -> "cancelled"
      [] verdict = "timed out" -> IF command.kind = "ping" /\ handled["out"] # <<>> THEN "succeeded" ELSE "failed"
      [] OTHER -> IF command.code # 0 THEN "failed"
                  ELSE IF command.kind = "netcheck" /\ handled["out"] = <<>> THEN "failed" ELSE "succeeded"

\* The loop breaks with the result, whatever the channel holds.
CommandEnds ==
    /\ waiter = "joining" /\ Polled /\ ReadersDone
    /\ waiter' = "done"
    /\ loop' = "ended"
    /\ told' = EndToTell
    /\ ReadersRest /\ UNCHANGED <<stopping, child, verdict, inHand, handled>>

-----------------------------------------------------------------------------
(* The loop *)

LoopOnly == UNCHANGED <<command, stopping, child, heir, written, reader, waiter, verdict, told>>

TakesLine ==
    /\ loop = "selecting" /\ lines # <<>>
    /\ inHand' = Head(lines)
    /\ lines' = Tail(lines)
    /\ loop' = "handling"
    /\ UNCHANGED handled
    /\ LoopOnly

\* The progress of the line is in the event queue.
HandlesLine ==
    /\ loop = "handling"
    /\ handled' = [handled EXCEPT ![inHand.stream] = Append(@, inHand.n)]
    /\ inHand' = NoLine
    /\ loop' = "selecting"
    /\ UNCHANGED lines
    /\ LoopOnly

\* The senders are gone: run_streaming_diagnostic awaits the result (the loop
\* of a transfer asks again, until the result is there).
SendersGone ==
    /\ loop = "selecting" /\ lines = <<>> /\ ReadersDone
    /\ loop' = "awaiting"
    /\ UNCHANGED <<lines, inHand, handled>>
    /\ LoopOnly

ChildWorks == ChildExits \/ HeirEnds \/ \E s \in Streams : ChildWrites(s)
PipeReaderWorks(s) == ReaderTakes(s) \/ ReaderSends(s) \/ ReaderEnds(s)
WaiterWorks == SeesExit \/ TimesOut \/ SeesCancellation \/ CommandEnds
LoopWorks == TakesLine \/ HandlesLine \/ SendersGone

CommandNext == ChildWorks \/ (\E s \in Streams : PipeReaderWorks(s)) \/ WaiterWorks \/ LoopWorks \/ CancelCommand

\* Processes and tasks are scheduled, timeouts pass, the event queue is drained
\* (EventQueue), and what a client has started closes its pipes in the end.
CommandFairness ==
    /\ WF_commandVars(ChildWorks) /\ WF_commandVars(WaiterWorks) /\ WF_commandVars(LoopWorks)
    /\ \A s \in Streams : WF_commandVars(PipeReaderWorks(s))

CommandSpec == CommandInit /\ [][CommandNext]_commandVars /\ CommandFairness

-----------------------------------------------------------------------------
(* Properties *)

Lines == [stream : Streams, n : Nat]
PipeReaders == [step : {"reading", "sending", "ended"}, taken : Nat, kept : Nat, truncated : BOOLEAN]

CommandTypeOK ==
    /\ command \in CommandBounds
    /\ stopping \in BOOLEAN /\ heir \in BOOLEAN
    /\ child \in {"running", "exited", "killed"}
    /\ written \in [Streams -> Nat]
    /\ reader \in [Streams -> PipeReaders]
    /\ lines \in Seq(Lines) /\ Len(lines) <= LineSlots
    /\ waiter \in {"waiting", "joining", "done"}
    /\ verdict \in {"none", "exited", "timed out", "cancelled"}
    /\ loop \in {"selecting", "handling", "awaiting", "ended"}
    /\ inHand \in Lines \cup {NoLine}
    /\ handled \in [Streams -> Seq(Nat)]
    /\ told \in {"nothing", "succeeded", "failed", "cancelled"}

\* Nothing is left to do, or the child goes on because no one ends it.
CommandOver == loop = "ended" \/ (command.lasting /\ ~command.timed /\ ~stopping)

\* When a command has ended its child is gone, what was kept of its output is
\* all of it or said to be truncated, and the lines handled are the first ones
\* of each stream, in order; only lines still in the channel are missed (the
\* loop breaks with the result whichever is ready first).  A child that exited
\* well by itself is said to have, unless it is a netcheck whose report was
\* missed so, and nothing is said to be cancelled that no one has cancelled.
OutputIsKept ==
    loop = "ended" =>
        /\ child # "running"
        /\ \A s \in Streams :
               /\ reader[s].kept = Smaller(written[s], OutputLimit)
               /\ reader[s].truncated <=> written[s] > OutputLimit
               /\ handled[s] = [i \in DOMAIN handled[s] |-> i]
               /\ Streaming => Len(handled[s]) + Cardinality({i \in DOMAIN lines : lines[i].stream = s}) = written[s]
        /\ verdict = "exited" /\ command.code = 0 /\ told = "failed" => command.kind = "netcheck" /\ handled["out"] = <<>>
        /\ told = "cancelled" => stopping

=============================================================================
