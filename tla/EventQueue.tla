----------------------------- MODULE EventQueue -----------------------------
(***************************************************************************)
(* EventQueue of src/runtime.rs: a VecDeque behind an async mutex and ONE  *)
(* tokio Notify, shared by the producers blocked on a full queue and by    *)
(* the run loop blocked on an empty one.  Each lock section is one action; *)
(* what runs outside the lock (creating and polling a Notified future,     *)
(* notify_waiters) is an action of its own, because the program runs on a  *)
(* multi-threaded runtime.                                                 *)
(***************************************************************************)
EXTENDS Naturals, Sequences, FiniteSets

CONSTANTS Workers,    \* background tasks: they send events that must arrive
          Inputs,     \* the terminal reader: keys and Resize events
          Tickers,    \* the interval task: Tick events, for ever
          Receiver,   \* the run loop
          Capacity,   \* EVENT_CAPACITY (256 in the code)
          MaxSends    \* bound: events each worker or input source sends

Senders == Workers \cup Inputs \cup Tickers
Procs   == Senders \cup {Receiver}

ASSUME QueueAssumption ==
    /\ Capacity \in Nat \ {0}
    /\ MaxSends \in Nat
    /\ Receiver \notin Senders
    /\ Workers \cap (Inputs \cup Tickers) = {}

Event == [kind : {"Tick", "Resize", "Other"}, from : Senders, n : 0..MaxSends]

NoEvent == [kind |-> "None"]

VARIABLES events,     \* the VecDeque
          permit,     \* Notify holds a stored notify_one permit
          waiters,    \* registered Notified futures, oldest first
          pc,         \* where each process stands
          signalled,  \* notify_waiters ran since s created its future
          outgoing,   \* the event s is sending
          sent,       \* how many events s has begun to send (Ticks not counted)
          received    \* what recv has returned (Ticks left out)

vars == <<events, permit, waiters, pc, signalled, outgoing, sent, received>>

Channel == INSTANCE EventChannel

Init ==
    /\ events = <<>> /\ permit = FALSE /\ waiters = <<>> /\ received = <<>>
    /\ pc = [p \in Procs |-> IF p = Receiver THEN "check" ELSE "idle"]
    /\ signalled = [s \in Senders |-> FALSE]
    /\ outgoing = [s \in Senders |-> NoEvent]
    /\ sent = [s \in Senders |-> 0]

-----------------------------------------------------------------------------
(* tokio::sync::Notify *)

\* Where a process continues when its Notified future completes.
Woken(p) == IF p = Receiver THEN "check" ELSE "retry"

\* send returns: s is idle again, the processes in woken continue.
Return(s, woken) ==
    /\ pc' = [p \in Procs |-> IF p = s THEN "idle" ELSE IF p \in woken THEN Woken(p) ELSE pc[p]]
    /\ outgoing' = [outgoing EXCEPT ![s] = NoEvent]

\* notify_one, called by sender s inside the lock, which then returns.
NotifyOneAndReturn(s) ==
    IF waiters = <<>>
      THEN permit' = TRUE /\ Return(s, {}) /\ UNCHANGED waiters
      ELSE Return(s, {Head(waiters)}) /\ waiters' = Tail(waiters) /\ UNCHANGED permit

\* The first poll of a Notified future of p: a stored permit completes it,
\* then a notify_waiters since its creation, else p is registered.
Poll(p, missed) ==
    \/ /\ permit
       /\ permit' = FALSE
       /\ pc' = [pc EXCEPT ![p] = Woken(p)]
       /\ UNCHANGED waiters
    \/ /\ ~permit /\ missed
       /\ pc' = [pc EXCEPT ![p] = Woken(p)]
       /\ UNCHANGED <<permit, waiters>>
    \/ /\ ~permit /\ ~missed
       /\ pc' = [pc EXCEPT ![p] = "waiting"]
       /\ waiters' = Append(waiters, p)
       /\ UNCHANGED permit

-----------------------------------------------------------------------------
(* send *)

\* s calls send with a new event.
Send(s, kind) ==
    /\ pc[s] = "idle"
    /\ kind \in CASE s \in Tickers -> {"Tick"}
                  [] s \in Inputs  -> {"Resize", "Other"}
                  [] OTHER         -> {"Other"}
    /\ kind = "Tick" \/ sent[s] < MaxSends
    /\ sent' = IF kind = "Tick" THEN sent ELSE [sent EXCEPT ![s] = @ + 1]
    /\ outgoing' = [outgoing EXCEPT ![s] = [kind |-> kind, from |-> s, n |-> sent'[s]]]
    /\ pc' = [pc EXCEPT ![s] = "enter"]
    /\ UNCHANGED <<events, permit, waiters, signalled, received>>

InLock(s) == pc[s] \in {"enter", "retry"}

\* Where the event queued that the outgoing one supersedes is.
Slot(s) == {i \in DOMAIN events : Channel!SameSlot(events[i], outgoing[s])}

\* Mutant: coalescing notifies no one.
Coalesce_Silent(s) ==
    /\ InLock(s)
    /\ \E i \in Slot(s) : events' = [events EXCEPT ![i] = outgoing[s]]
    /\ Return(s, {})
    /\ UNCHANGED <<permit, waiters, signalled, sent, received>>

\* The event replaces the queued one of its kind, in place.
Coalesce(s) ==
    /\ InLock(s)
    /\ \E i \in Slot(s) : events' = [events EXCEPT ![i] = outgoing[s]]
    /\ NotifyOneAndReturn(s)
    /\ UNCHANGED <<signalled, sent, received>>

\* Mutant: pushing notifies no one.
Push_Silent(s) ==
    /\ InLock(s) /\ Slot(s) = {}
    /\ Len(events) < Capacity
    /\ events' = Append(events, outgoing[s])
    /\ Return(s, {})
    /\ UNCHANGED <<permit, waiters, signalled, sent, received>>

Push(s) ==
    /\ InLock(s) /\ Slot(s) = {}
    /\ Len(events) < Capacity
    /\ events' = Append(events, outgoing[s])
    /\ NotifyOneAndReturn(s)
    /\ UNCHANGED <<signalled, sent, received>>

Full(s) == InLock(s) /\ Slot(s) = {} /\ Len(events) >= Capacity

\* Mutant: a full queue drops every event.
DropTick_Any(s) ==
    /\ Full(s)
    /\ Return(s, {})
    /\ UNCHANGED <<events, permit, waiters, signalled, sent, received>>

\* A full queue drops a Tick without notifying anyone.
DropTick(s) ==
    /\ Full(s) /\ outgoing[s].kind = "Tick"
    /\ Return(s, {})
    /\ UNCHANGED <<events, permit, waiters, signalled, sent, received>>

\* Any other sender creates its Notified future before it unlocks ...
Arm(s) ==
    /\ Full(s) /\ outgoing[s].kind # "Tick"
    /\ pc' = [pc EXCEPT ![s] = "armed"]
    /\ signalled' = [signalled EXCEPT ![s] = FALSE]
    /\ UNCHANGED <<events, permit, waiters, outgoing, sent, received>>

\* ... and awaits it afterwards.
Await(s) ==
    /\ pc[s] = "armed"
    /\ Poll(s, signalled[s])
    /\ UNCHANGED <<events, signalled, outgoing, sent, received>>

-----------------------------------------------------------------------------
(* recv *)

\* Mutant: the newest event is taken first.
Pop_Newest ==
    /\ pc[Receiver] = "check" /\ events # <<>>
    /\ events' = SubSeq(events, 1, Len(events) - 1)
    /\ received' = IF events[Len(events)].kind = "Tick"
                     THEN received ELSE Append(received, events[Len(events)])
    /\ pc' = [pc EXCEPT ![Receiver] = "popped"]
    /\ UNCHANGED <<permit, waiters, signalled, outgoing, sent>>

Pop ==
    /\ pc[Receiver] = "check" /\ events # <<>>
    /\ events' = Tail(events)
    /\ received' = IF Head(events).kind = "Tick" THEN received
                                                 ELSE Append(received, Head(events))
    /\ pc' = [pc EXCEPT ![Receiver] = "popped"]
    /\ UNCHANGED <<permit, waiters, signalled, outgoing, sent>>

\* notify_waiters runs after the unlock; recv returns, the loop calls it again.
NotifyWaiters ==
    /\ pc[Receiver] = "popped"
    /\ pc' = [p \in Procs |-> IF p = Receiver \/ pc[p] = "waiting" THEN Woken(p) ELSE pc[p]]
    /\ waiters' = <<>>
    /\ signalled' = [s \in Senders |-> signalled[s] \/ pc[s] = "armed"]
    /\ UNCHANGED <<events, permit, outgoing, sent, received>>

\* The queue is empty: the lock is dropped BEFORE the future is created.
FindEmpty ==
    /\ pc[Receiver] = "check" /\ events = <<>>
    /\ pc' = [pc EXCEPT ![Receiver] = "window"]
    /\ UNCHANGED <<events, permit, waiters, signalled, outgoing, sent, received>>

AwaitEvent ==
    /\ pc[Receiver] = "window"
    /\ Poll(Receiver, FALSE)
    /\ UNCHANGED <<events, signalled, outgoing, sent, received>>

-----------------------------------------------------------------------------
Deliver(s) == Coalesce(s) \/ Push(s) \/ DropTick(s) \/ Arm(s) \/ Await(s)
Receive    == Pop \/ NotifyWaiters \/ FindEmpty \/ AwaitEvent

Next ==
    \/ Receive
    \/ \E s \in Senders : Deliver(s) \/ \E kind \in {"Tick", "Resize", "Other"} : Send(s, kind)

Spec == Init /\ [][Next]_vars

\* Every spawned task and the run loop are polled while they can run, and the
\* interval never stops ticking; when keys are pressed or workers report is free.
FairSpec ==
    /\ Spec
    /\ WF_vars(Receive)
    /\ \A s \in Senders : WF_vars(Deliver(s))
    /\ \A s \in Tickers : WF_vars(Send(s, "Tick"))

-----------------------------------------------------------------------------
(* Properties *)

\* Types, and the shape Notify keeps: the registered futures are exactly those of
\* the waiting processes, each registered once.
TypeOK ==
    /\ events \in Seq(Event) /\ received \in Seq(Event)
    /\ permit \in BOOLEAN
    /\ pc \in [Procs -> {"idle", "enter", "retry", "armed", "waiting", "check", "popped", "window"}]
    /\ waiters \in Seq({p \in Procs : pc[p] = "waiting"})
    /\ \A p \in Procs : pc[p] = "waiting" => \E i \in DOMAIN waiters : waiters[i] = p
    /\ \A i, j \in DOMAIN waiters : waiters[i] = waiters[j] => i = j
    /\ signalled \in [Senders -> BOOLEAN]
    /\ \A s \in Senders : outgoing[s] \in (IF pc[s] = "idle" THEN {NoEvent} ELSE Event)
    /\ DOMAIN outgoing = Senders
    /\ sent \in [Senders -> 0..MaxSends]

\* Coalescing in place never leaves two Ticks or two Resizes queued, and the
\* queue never outgrows EVENT_CAPACITY, whatever the blocked senders do when
\* they are woken together.
BoundedAndCoalesced ==
    /\ Len(events) <= Capacity
    /\ \A i, j \in DOMAIN events : Channel!SameSlot(events[i], events[j]) => i = j

\* How many of its events a sender has seen accepted.
Accepted(s) == IF pc[s] = "idle" THEN sent[s] ELSE sent[s] - 1

\* Backpressure never drops, doubles or reorders a worker's events, however
\* often the worker is parked on a full queue and woken for nothing: those the
\* run loop received or will receive are those accepted, in that order.
WorkerEventsArriveOnce ==
    \A w \in Workers :
        LET arriving == received \o events
            mine == {i \in DOMAIN arriving : arriving[i].from = w}
        IN  /\ {arriving[i].n : i \in mine} = 1..Accepted(w)
            /\ \A i, j \in mine : i < j => arriving[i].n < arriving[j].n

\* The run loop can be parked in front of a non-empty queue only when the queue
\* is full, or when a woken sender is about to notify it: the one Notify shared
\* by both sides loses a wake-up in no other situation.
StallOnlyWhenFull ==
    (pc[Receiver] = "waiting" /\ events # <<>>) =>
        \/ Len(events) = Capacity
        \/ \E s \in Senders : pc[s] = "retry"

\* The algorithm is a bounded coalescing FIFO.
ImplementsChannel == Channel!Spec

\* The run loop reaches every accepted event (the FIFO is then enough for each
\* of them to be handled).
ImplementsFairChannel == Channel!FairSpec

\* Every event of a worker is eventually accepted and handled.
EveryReportArrives ==
    \A w \in Workers : \A k \in 1..MaxSends :
        (sent[w] = k) ~> (\E i \in DOMAIN received : received[i].from = w /\ received[i].n = k)

HasTick == \E i \in DOMAIN events : events[i].kind = "Tick"

\* A queue that holds a Tick never stalls: the next Ticks coalesce with it and
\* each of them wakes one waiter, the run loop among them.
TickKeepsQueueMoving == HasTick ~> ~HasTick
=============================================================================
