---------------------------- MODULE EventChannel ----------------------------
(***************************************************************************)
(* What the run loop of Tale relies on: a bounded FIFO between many        *)
(* producers and one consumer.  A Tick or a Resize that finds another one  *)
(* queued takes its place (and its position); every other accepted event   *)
(* is handed to the consumer once, in the order of acceptance.             *)
(* EventQueue is the algorithm of src/runtime.rs; it implements Spec.      *)
(***************************************************************************)
EXTENDS Naturals, Sequences

CONSTANTS Event,      \* the events a producer can send
          Capacity    \* EVENT_CAPACITY

\* The kinds of which the queue keeps only the latest value.
Coalescing == {"Tick", "Resize"}

VARIABLES events,     \* accepted, not yet handed over
          received    \* handed to the consumer (Ticks left out)

vars == <<events, received>>

SameSlot(e, f) == e.kind \in Coalescing /\ e.kind = f.kind

Init == events = <<>> /\ received = <<>>

Accept(e) ==
    /\ Len(events) < Capacity
    /\ \A i \in DOMAIN events : ~SameSlot(events[i], e)
    /\ events' = Append(events, e)
    /\ UNCHANGED received

Supersede(e) ==
    /\ \E i \in DOMAIN events :
         /\ SameSlot(events[i], e)
         /\ events' = [events EXCEPT ![i] = e]
    /\ UNCHANGED received

Take ==
    /\ events # <<>>
    /\ events' = Tail(events)
    /\ received' = IF Head(events).kind = "Tick" THEN received
                                                 ELSE Append(received, Head(events))

Next == Take \/ \E e \in Event : Accept(e) \/ Supersede(e)

\* The safety part: order, bound, nothing lost, nothing twice.
Spec == Init /\ [][Next]_vars

\* The consumer never waits for ever in front of a non-empty queue.
FairSpec == Spec /\ WF_vars(Take)
=============================================================================
