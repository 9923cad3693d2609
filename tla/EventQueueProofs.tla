-------------------------- MODULE EventQueueProofs --------------------------
(***************************************************************************)
(* Theorems about EventQueue for any number of senders and any capacity:   *)
(* its shape, the bound, the only way the run loop can stall, and that it  *)
(* implements EventChannel.                                                *)
(* Theorems about ActivityLogs, whose answers come through that queue: the *)
(* flows and the audit log on screen are those that were asked for, for    *)
(* any tenants, windows, filters and order of answers.                     *)
(***************************************************************************)
EXTENDS EventQueue, ActivityLogs, SequenceTheorems, TLAPS

IsFull == Len(events) = Capacity

\* Who may be parked, and when: a sender registers only in front of a full queue
\* (the receiver may be about to empty the registrations of an older one); a
\* permit is stored only while nobody is registered.
ParkedInv ==
    /\ \A s \in Senders :
         (pc[s] = "waiting" \/ (pc[s] = "armed" /\ ~signalled[s])) =>
             IsFull \/ pc[Receiver] = "popped"
    /\ permit => waiters = <<>>

\* The receiver between its look at the empty queue and its registration.
WindowInv ==
    (pc[Receiver] = "window" /\ events # <<>>) =>
        \/ permit
        \/ IsFull
        \/ \E s \in Senders : pc[s] = "retry"

\* StallOnlyWhenFull is not inductive: whether a push wakes the receiver depends
\* on who is registered (ParkedInv) and on the permit it may find (WindowInv).
StallInv == ParkedInv /\ WindowInv /\ StallOnlyWhenFull

\* Receiver and senders stand in their own parts of the code.
PlaceInv ==
    /\ pc[Receiver] \in {"check", "popped", "window", "waiting"}
    /\ \A s \in Senders : pc[s] \in {"idle", "enter", "retry", "armed", "waiting"}

IInv == TypeOK /\ PlaceInv /\ BoundedAndCoalesced /\ StallInv

-----------------------------------------------------------------------------
(* Lemmas on the pieces. *)

\* Replacing a queued event by one of its kind keeps the slots apart.
LEMMA CoalesceKeepsSlots ==
    ASSUME TypeOK, BoundedAndCoalesced, NEW s \in Senders, outgoing[s] \in Event,
           NEW i \in Slot(s), events' = [events EXCEPT ![i] = outgoing[s]]
    PROVE  events' \in Seq(Event) /\ Len(events') = Len(events) /\ BoundedAndCoalesced'
  <1>1. events \in Seq(Event) /\ i \in 1..Len(events)
    BY DEF TypeOK, Slot
  <1>2. events' \in Seq(Event) /\ Len(events') = Len(events) /\ DOMAIN events' = DOMAIN events
    BY <1>1
  <1>3. ASSUME NEW a \in DOMAIN events', NEW b \in DOMAIN events',
               Channel!SameSlot(events'[a], events'[b])
        PROVE  a = b
    <2>1. events[i].kind = outgoing[s].kind /\ events[i].kind \in {"Tick", "Resize"}
      BY DEF Slot, Channel!SameSlot, Channel!Coalescing
    <2>2. \A c \in DOMAIN events : events'[c].kind = events[c].kind
      BY <1>1, <2>1
    <2>3. Channel!SameSlot(events[a], events[b])
      BY <1>2, <1>3, <2>2 DEF Channel!SameSlot
    <2> QED BY <1>2, <2>3 DEF BoundedAndCoalesced
  <1> QED BY <1>2, <1>3 DEF BoundedAndCoalesced

\* Appending an event that has no slot in the queue keeps the slots apart.
LEMMA PushKeepsSlots ==
    ASSUME TypeOK, BoundedAndCoalesced, NEW s \in Senders, outgoing[s] \in Event,
           Slot(s) = {}, Len(events) < Capacity, events' = Append(events, outgoing[s])
    PROVE  events' \in Seq(Event) /\ Len(events') = Len(events) + 1 /\ BoundedAndCoalesced'
  <1>1. events \in Seq(Event) /\ Capacity \in Nat
    BY QueueAssumption DEF TypeOK
  <1>2. /\ events' \in Seq(Event) /\ Len(events') = Len(events) + 1
        /\ DOMAIN events' = 1..(Len(events) + 1)
        /\ \A c \in 1..Len(events) : events'[c] = events[c]
        /\ events'[Len(events) + 1] = outgoing[s]
    BY <1>1, AppendProperties
  <1>3. \A c \in 1..Len(events) : ~Channel!SameSlot(events[c], outgoing[s])
    BY <1>1 DEF Slot
  <1>4. ASSUME NEW a \in DOMAIN events', NEW b \in DOMAIN events',
               Channel!SameSlot(events'[a], events'[b])
        PROVE  a = b
    <2>1. CASE a \in 1..Len(events) /\ b \in 1..Len(events)
      BY <1>1, <1>2, <1>4, <2>1 DEF BoundedAndCoalesced
    <2>2. CASE a = Len(events) + 1 /\ b \in 1..Len(events)
      BY <1>2, <1>3, <1>4, <2>2 DEF Channel!SameSlot
    <2>3. CASE a \in 1..Len(events) /\ b = Len(events) + 1
      BY <1>2, <1>3, <1>4, <2>3 DEF Channel!SameSlot
    <2> QED BY <1>1, <1>2, <2>1, <2>2, <2>3
  <1> QED BY <1>1, <1>2, <1>4 DEF BoundedAndCoalesced

\* Taking the head keeps the slots apart.
LEMMA PopKeepsSlots ==
    ASSUME TypeOK, BoundedAndCoalesced, events # <<>>, events' = Tail(events)
    PROVE  /\ events' \in Seq(Event) /\ Head(events) \in Event
           /\ BoundedAndCoalesced'
  <1>1. events \in Seq(Event) /\ Capacity \in Nat
    BY QueueAssumption DEF TypeOK
  <1>2. /\ events' \in Seq(Event) /\ Head(events) \in Event
        /\ Len(events') = Len(events) - 1 /\ Len(events) \in Nat \ {0}
        /\ DOMAIN events' = 1..(Len(events) - 1)
        /\ \A c \in 1..(Len(events) - 1) : events'[c] = events[c + 1]
    BY <1>1, HeadTailProperties, EmptySeq
  <1>3. ASSUME NEW a \in DOMAIN events', NEW b \in DOMAIN events',
               Channel!SameSlot(events'[a], events'[b])
        PROVE  a = b
    <2>1. a + 1 \in DOMAIN events /\ b + 1 \in DOMAIN events
      BY <1>1, <1>2
    <2>2. a + 1 = b + 1
      BY <1>2, <1>3, <2>1 DEF BoundedAndCoalesced
    <2> QED BY <1>2, <2>2
  <1> QED BY <1>1, <1>2, <1>3 DEF BoundedAndCoalesced

-----------------------------------------------------------------------------
(* The registration of Notified futures. *)

WaitersOK ==
    /\ waiters \in Seq({p \in Procs : pc[p] = "waiting"})
    /\ \A p \in Procs : pc[p] = "waiting" => \E i \in DOMAIN waiters : waiters[i] = p
    /\ \A i, j \in DOMAIN waiters : waiters[i] = waiters[j] => i = j

\* After send has notified: s is idle, and either a permit is stored (nobody was
\* registered) or the oldest registered process runs again and leaves the list.
LEMMA NotifyOne ==
    ASSUME TypeOK, PlaceInv, NEW s \in Senders, InLock(s), NotifyOneAndReturn(s)
    PROVE  /\ WaitersOK'
           /\ permit' \in BOOLEAN
           /\ pc' \in [Procs -> {"idle", "enter", "retry", "armed", "waiting",
                                 "check", "popped", "window"}]
           /\ outgoing' = [outgoing EXCEPT ![s] = NoEvent]
           /\ pc'[s] = "idle"
           /\ \/ /\ waiters = <<>> /\ waiters' = <<>> /\ permit'
                 /\ \A p \in Procs \ {s} : pc'[p] = pc[p]
              \/ /\ waiters # <<>> /\ permit' = permit
                 /\ \E h \in Procs \ {s} :
                      /\ pc[h] = "waiting" /\ h = waiters[1] /\ pc'[h] = Woken(h)
                      /\ \A p \in Procs \ {s, h} : pc'[p] = pc[p]
  <1> DEFINE Waiting == {p \in Procs : pc[p] = "waiting"}
  <1>1. /\ waiters \in Seq(Waiting) /\ permit \in BOOLEAN /\ s \in Procs
        /\ pc[s] \in {"enter", "retry"}
        /\ pc \in [Procs -> {"idle", "enter", "retry", "armed", "waiting",
                             "check", "popped", "window"}]
        /\ \A p \in Procs : pc[p] = "waiting" => \E i \in DOMAIN waiters : waiters[i] = p
        /\ \A i, j \in DOMAIN waiters : waiters[i] = waiters[j] => i = j
    BY DEF TypeOK, InLock, Procs
  <1>2. CASE waiters = <<>>
    <2>1. /\ permit' = TRUE /\ waiters' = <<>>
          /\ pc' = [p \in Procs |-> IF p = s THEN "idle" ELSE pc[p]]
          /\ outgoing' = [outgoing EXCEPT ![s] = NoEvent]
      BY <1>2 DEF NotifyOneAndReturn, Return
    <2>2. \A p \in Procs : pc'[p] # "waiting"
      BY <1>1, <1>2, <2>1
    <2> QED BY <1>1, <1>2, <2>1, <2>2 DEF WaitersOK
  <1>3. CASE waiters # <<>>
    <2> DEFINE h == waiters[1]
    <2>1. /\ waiters' = Tail(waiters) /\ permit' = permit /\ h = Head(waiters)
          /\ pc' = [p \in Procs |-> IF p = s THEN "idle"
                                    ELSE IF p = h THEN Woken(p) ELSE pc[p]]
          /\ outgoing' = [outgoing EXCEPT ![s] = NoEvent]
      BY <1>1, <1>3, HeadTailProperties DEF NotifyOneAndReturn, Return
    <2>2. /\ Len(waiters) \in Nat \ {0} /\ DOMAIN waiters = 1..Len(waiters)
          /\ h \in Waiting
          /\ DOMAIN waiters' = 1..(Len(waiters) - 1)
          /\ Len(waiters') = Len(waiters) - 1
          /\ \A i \in 1..(Len(waiters) - 1) : waiters'[i] = waiters[i + 1]
          /\ waiters' \in Seq(Waiting)
      BY <1>1, <1>3, <2>1, HeadTailProperties, EmptySeq
    <2>3. h \in Procs \ {s} /\ pc[h] = "waiting"
      BY <1>1, <2>2
    <2>4. Woken(h) \in {"check", "retry"}
      BY DEF Woken
    <2>5. \A p \in Procs : pc'[p] = "waiting" <=> (pc[p] = "waiting" /\ p # h)
      BY <1>1, <2>1, <2>3, <2>4
    <2>6. \A i \in DOMAIN waiters' : waiters'[i] \in Procs /\ pc'[waiters'[i]] = "waiting"
      <3> SUFFICES ASSUME NEW i \in 1..(Len(waiters) - 1)
                   PROVE  waiters'[i] \in Procs /\ pc'[waiters'[i]] = "waiting"
        BY <2>2
      <3>1. i + 1 \in 1..Len(waiters) /\ 1 \in 1..Len(waiters) /\ i + 1 # 1
        BY <2>2
      <3>2. waiters[i + 1] \in Waiting
        BY <1>1, <3>1, ElementOfSeq
      <3>3. waiters[i + 1] # waiters[1]
        BY <1>1, <2>2, <3>1
      <3> QED BY <2>2, <2>5, <3>2, <3>3
    <2>7. waiters' \in Seq({p \in Procs : pc'[p] = "waiting"})
      <3> DEFINE Now == {p \in Procs : pc'[p] = "waiting"}
      <3>1. waiters' \in [1..(Len(waiters) - 1) -> Waiting]
        BY <2>2, LenProperties
      <3>2. waiters' \in [1..(Len(waiters) - 1) -> Now]
        BY <2>2, <2>6, <3>1
      <3>3. Len(waiters) - 1 \in Nat
        BY <2>2
      <3> HIDE DEF Now
      <3>4. waiters' \in Seq(Now)
        BY <3>2, <3>3, SeqDef
      <3> QED BY <3>4 DEF Now
    <2>8. \A p \in Procs : pc'[p] = "waiting" => \E i \in DOMAIN waiters' : waiters'[i] = p
      <3> SUFFICES ASSUME NEW p \in Procs, pc'[p] = "waiting"
                   PROVE  \E i \in DOMAIN waiters' : waiters'[i] = p
        OBVIOUS
      <3>1. PICK i \in DOMAIN waiters : waiters[i] = p
        BY <1>1, <2>5
      <3>2. i # 1
        BY <3>1, <2>5
      <3>3. i - 1 \in DOMAIN waiters' /\ waiters'[i - 1] = p
        BY <2>2, <3>1, <3>2
      <3> QED BY <3>3
    <2>9. \A i, j \in DOMAIN waiters' : waiters'[i] = waiters'[j] => i = j
      <3> SUFFICES ASSUME NEW i \in DOMAIN waiters', NEW j \in DOMAIN waiters',
                          waiters'[i] = waiters'[j]
                   PROVE  i = j
        OBVIOUS
      <3>1. i + 1 \in DOMAIN waiters /\ j + 1 \in DOMAIN waiters
        BY <2>2
      <3>2. i + 1 = j + 1
        BY <1>1, <2>2, <3>1
      <3> QED BY <2>2, <3>2
    <2>10. pc' \in [Procs -> {"idle", "enter", "retry", "armed", "waiting",
                              "check", "popped", "window"}]
      BY <1>1, <2>1, <2>4
    <2>11. /\ pc'[s] = "idle" /\ pc'[h] = Woken(h)
           /\ \A p \in Procs \ {s, h} : pc'[p] = pc[p]
      BY <1>1, <2>1, <2>3
    <2>12. WaitersOK'
      BY <2>7, <2>8, <2>9 DEF WaitersOK
    <2>13. /\ waiters # <<>> /\ permit' = permit
           /\ \E q \in Procs \ {s} :
                /\ pc[q] = "waiting" /\ q = waiters[1] /\ pc'[q] = Woken(q)
                /\ \A p \in Procs \ {s, q} : pc'[p] = pc[p]
      BY <1>3, <2>1, <2>3, <2>11
    <2>14. permit' \in BOOLEAN
      BY <1>1, <2>1
    <2> QED BY <2>1, <2>10, <2>11, <2>12, <2>13, <2>14
  <1> QED BY <1>2, <1>3

\* The first poll of a future of p, which is not registered yet.
LEMMA PollRegisters ==
    ASSUME TypeOK, NEW p \in Procs, pc[p] # "waiting", NEW missed \in BOOLEAN, Poll(p, missed)
    PROVE  /\ WaitersOK'
           /\ permit' \in BOOLEAN
           /\ pc' \in [Procs -> {"idle", "enter", "retry", "armed", "waiting",
                                 "check", "popped", "window"}]
           /\ \A q \in Procs \ {p} : pc'[q] = pc[q]
           /\ \/ permit /\ ~permit' /\ pc'[p] = Woken(p) /\ waiters' = waiters
              \/ ~permit /\ ~permit' /\ missed /\ pc'[p] = Woken(p) /\ waiters' = waiters
              \/ ~permit /\ ~permit' /\ ~missed /\ pc'[p] = "waiting"
  <1> DEFINE Waiting == {q \in Procs : pc[q] = "waiting"}
  <1>1. /\ waiters \in Seq(Waiting) /\ permit \in BOOLEAN
        /\ pc \in [Procs -> {"idle", "enter", "retry", "armed", "waiting",
                             "check", "popped", "window"}]
        /\ \A q \in Procs : pc[q] = "waiting" => \E i \in DOMAIN waiters : waiters[i] = q
        /\ \A i, j \in DOMAIN waiters : waiters[i] = waiters[j] => i = j
        /\ Woken(p) \in {"check", "retry"}
    BY DEF TypeOK, Woken
  <1>2. CASE permit \/ missed
    <2>1. /\ pc' = [pc EXCEPT ![p] = Woken(p)] /\ waiters' = waiters /\ permit' = FALSE
      BY <1>1, <1>2 DEF Poll
    <2>2. \A q \in Procs : pc'[q] = "waiting" <=> pc[q] = "waiting"
      BY <1>1, <2>1
    <2>3. {q \in Procs : pc'[q] = "waiting"} = Waiting
      BY <2>2
    <2>4. WaitersOK'
      BY <1>1, <2>1, <2>2, <2>3 DEF WaitersOK
    <2>5. /\ pc' \in [Procs -> {"idle", "enter", "retry", "armed", "waiting",
                                "check", "popped", "window"}]
          /\ pc'[p] = Woken(p) /\ \A q \in Procs \ {p} : pc'[q] = pc[q]
      BY <1>1, <2>1
    <2> QED BY <1>1, <1>2, <2>1, <2>4, <2>5
  <1>3. CASE ~permit /\ ~missed
    <2>1. /\ pc' = [pc EXCEPT ![p] = "waiting"] /\ waiters' = Append(waiters, p)
          /\ permit' = permit
      BY <1>1, <1>3 DEF Poll
    <2>2. \A q \in Procs : pc'[q] = "waiting" <=> pc[q] = "waiting" \/ q = p
      BY <1>1, <2>1
    <2> DEFINE Now == {q \in Procs : pc'[q] = "waiting"}
    <2>3. waiters \in Seq(Now) /\ p \in Now
      BY <1>1, <2>2, SeqDef, IsASeq
    <2>4. /\ waiters' \in Seq(Now)
          /\ Len(waiters) \in Nat /\ DOMAIN waiters = 1..Len(waiters)
          /\ DOMAIN waiters' = 1..(Len(waiters) + 1)
          /\ \A i \in 1..Len(waiters) : waiters'[i] = waiters[i]
          /\ waiters'[Len(waiters) + 1] = p
      BY <2>1, <2>3, AppendProperties
    <2>5. \A i \in DOMAIN waiters : waiters[i] # p
      BY <1>1
    <2>6. \A q \in Procs : pc'[q] = "waiting" => \E i \in DOMAIN waiters' : waiters'[i] = q
      BY <1>1, <2>2, <2>4
    <2>7. \A i, j \in DOMAIN waiters' : waiters'[i] = waiters'[j] => i = j
      BY <1>1, <2>4, <2>5
    <2>8. WaitersOK'
      BY <2>4, <2>6, <2>7 DEF WaitersOK
    <2>9. /\ pc' \in [Procs -> {"idle", "enter", "retry", "armed", "waiting",
                                "check", "popped", "window"}]
          /\ pc'[p] = "waiting" /\ \A q \in Procs \ {p} : pc'[q] = pc[q]
      BY <1>1, <2>1
    <2> QED BY <1>1, <1>3, <2>1, <2>8, <2>9
  <1> QED BY <1>2, <1>3

-----------------------------------------------------------------------------
(* Every action keeps IInv. *)

\* What TypeOK says besides the registrations.
DataOK ==
    /\ events \in Seq(Event) /\ received \in Seq(Event)
    /\ permit \in BOOLEAN
    /\ pc \in [Procs -> {"idle", "enter", "retry", "armed", "waiting", "check", "popped", "window"}]
    /\ signalled \in [Senders -> BOOLEAN]
    /\ \A s \in Senders : outgoing[s] \in (IF pc[s] = "idle" THEN {NoEvent} ELSE Event)
    /\ DOMAIN outgoing = Senders
    /\ sent \in [Senders -> 0..MaxSends]

\* The type invariant splits into the data and the bookkeeping of Notify.
LEMMA TypeParts == /\ TypeOK <=> DataOK /\ WaitersOK
                   /\ TypeOK' <=> DataOK' /\ WaitersOK'
  BY DEF TypeOK, DataOK, WaitersOK

\* The senders are the processes other than the receiver.
LEMMA Distinct == Senders \subseteq Procs /\ Receiver \in Procs /\ Receiver \notin Senders
  BY QueueAssumption DEF Procs

\* A registered process is the head, or some position, of a non-empty list.
LEMMA WaitingRegistered ==
    ASSUME TypeOK, NEW p \in Procs, pc[p] = "waiting"
    PROVE  waiters # <<>>
  <1>1. PICK i \in DOMAIN waiters : waiters[i] = p
    BY DEF TypeOK
  <1> QED BY <1>1

\* The data a notifying send leaves behind.
LEMMA NotifyKeepsData ==
    ASSUME TypeOK, PlaceInv, NEW s \in Senders, InLock(s), NotifyOneAndReturn(s),
           events' \in Seq(Event), UNCHANGED <<signalled, sent, received>>
    PROVE  DataOK' /\ WaitersOK'
  <1>1. DataOK
    BY TypeParts
  <1>2. /\ WaitersOK' /\ permit' \in BOOLEAN
        /\ pc' \in [Procs -> {"idle", "enter", "retry", "armed", "waiting",
                              "check", "popped", "window"}]
        /\ outgoing' = [outgoing EXCEPT ![s] = NoEvent]
        /\ pc'[s] = "idle"
    BY NotifyOne
  <1>3. \A t \in Senders \ {s} : pc'[t] = pc[t] \/ (pc[t] = "waiting" /\ pc'[t] = Woken(t))
    <2> SUFFICES ASSUME NEW t \in Senders \ {s}
                 PROVE  pc'[t] = pc[t] \/ (pc[t] = "waiting" /\ pc'[t] = Woken(t))
      OBVIOUS
    <2>1. \/ \A p \in Procs \ {s} : pc'[p] = pc[p]
          \/ \E h \in Procs \ {s} :
                /\ pc[h] = "waiting" /\ pc'[h] = Woken(h)
                /\ \A p \in Procs \ {s, h} : pc'[p] = pc[p]
      BY NotifyOne
    <2> QED BY <2>1, Distinct
  <1>4. ASSUME NEW t \in Senders
        PROVE  outgoing'[t] \in (IF pc'[t] = "idle" THEN {NoEvent} ELSE Event)
    <2>1. CASE t = s
      BY <1>1, <1>2, <2>1 DEF DataOK
    <2>2. CASE t # s
      <3>1. outgoing'[t] = outgoing[t]
        BY <1>1, <1>2, <2>2 DEF DataOK
      <3>2. pc'[t] = "idle" <=> pc[t] = "idle"
        BY <1>3, <2>2 DEF Woken
      <3> QED BY <1>1, <3>1, <3>2 DEF DataOK
    <2> QED BY <2>1, <2>2
  <1> QED BY <1>1, <1>2, <1>4 DEF DataOK

\* A send that leaves an event in the queue and notifies: the receiver, if it is
\* parked and the queue is not full, is the one woken.
LEMMA NotifyKeepsStall ==
    ASSUME IInv, NEW s \in Senders, InLock(s), NotifyOneAndReturn(s),
           events \in Seq(Event), Len(events) \in Nat,
           UNCHANGED signalled,
           \/ Len(events') = Len(events)
           \/ Len(events) < Capacity /\ Len(events') = Len(events) + 1
    PROVE  PlaceInv' /\ StallInv'
  <1>1. /\ TypeOK /\ PlaceInv /\ ParkedInv /\ WindowInv /\ StallOnlyWhenFull
        /\ Capacity \in Nat \ {0} /\ Len(events) <= Capacity
    BY QueueAssumption DEF IInv, StallInv, BoundedAndCoalesced
  <1>2. /\ pc'[s] = "idle"
        /\ \/ /\ waiters = <<>> /\ waiters' = <<>> /\ permit'
              /\ \A p \in Procs \ {s} : pc'[p] = pc[p]
           \/ /\ waiters # <<>> /\ permit' = permit
              /\ \E h \in Procs \ {s} :
                   /\ pc[h] = "waiting" /\ h = waiters[1] /\ pc'[h] = Woken(h)
                   /\ \A p \in Procs \ {s, h} : pc'[p] = pc[p]
    BY <1>1, NotifyOne
  <1>3. CASE waiters = <<>>
    <2>1. \A p \in Procs : pc[p] # "waiting"
      BY <1>1, <1>3, WaitingRegistered
    <2>2. waiters' = <<>> /\ permit' /\ \A p \in Procs \ {s} : pc'[p] = pc[p]
      BY <1>2, <1>3
    <2>3. PlaceInv'
      BY <1>1, <1>2, <2>2, Distinct DEF PlaceInv
    <2>4. ParkedInv'
      BY <1>1, <1>2, <2>1, <2>2, Distinct DEF ParkedInv, IsFull
    <2>5. WindowInv'
      BY <2>2 DEF WindowInv
    <2>6. StallOnlyWhenFull'
      BY <1>2, <2>1, <2>2, Distinct DEF StallOnlyWhenFull
    <2> QED BY <2>3, <2>4, <2>5, <2>6 DEF StallInv
  <1>4. CASE waiters # <<>>
    <2>1. PICK h \in Procs \ {s} :
             /\ pc[h] = "waiting" /\ pc'[h] = Woken(h)
             /\ \A p \in Procs \ {s, h} : pc'[p] = pc[p]
      BY <1>2, <1>4
    <2>2. ~permit /\ permit' = permit
      BY <1>1, <1>2, <1>4 DEF ParkedInv
    <2>3. PlaceInv'
      BY <1>1, <1>2, <2>1, Distinct DEF PlaceInv, Woken
    <2>4. \A t \in Senders : pc'[t] = "waiting" => pc[t] = "waiting"
      BY <1>2, <2>1, Distinct DEF Woken
    <2>5. \A t \in Senders : pc'[t] = "armed" => pc[t] = "armed"
      BY <1>2, <2>1, Distinct DEF Woken
    <2>6. pc[Receiver] = "popped" => pc'[Receiver] = "popped"
      BY <2>1, Distinct
    <2>7. IsFull => IsFull'
      BY <1>1 DEF IsFull
    <2>8. ParkedInv'
      BY <1>1, <2>2, <2>4, <2>5, <2>6, <2>7 DEF ParkedInv
    <2>9. CASE h = Receiver
      BY <2>1, <2>8, <2>3, <2>9 DEF StallInv, WindowInv, StallOnlyWhenFull, Woken
    <2>10. CASE h # Receiver
      <3>1. h \in Senders /\ pc'[h] = "retry"
        BY <2>1, <2>10 DEF Procs, Woken
      <3> QED BY <2>3, <2>8, <3>1 DEF StallInv, WindowInv, StallOnlyWhenFull
    <2> QED BY <2>9, <2>10
  <1> QED BY <1>3, <1>4

\* A step that only moves sender s between unregistered places, or the receiver
\* out of "waiting", leaves the registrations as they are.
LEMMA WaitersUnmoved ==
    ASSUME TypeOK, waiters' = waiters,
           \A p \in Procs : pc'[p] = "waiting" <=> pc[p] = "waiting"
    PROVE  WaitersOK'
  <1>1. {p \in Procs : pc'[p] = "waiting"} = {p \in Procs : pc[p] = "waiting"}
    OBVIOUS
  <1> QED BY <1>1 DEF WaitersOK, TypeOK

\* A new send keeps the invariant: the sender is idle, so no waiter moves.
LEMMA SendStep ==
    ASSUME IInv, NEW s \in Senders, NEW kind \in {"Tick", "Resize", "Other"}, Send(s, kind)
    PROVE  IInv'
  <1>1. TypeOK /\ DataOK /\ s \in Procs /\ s # Receiver /\ MaxSends \in Nat
    BY TypeParts, Distinct, QueueAssumption DEF IInv
  <1>2. /\ pc[s] = "idle" /\ pc' = [pc EXCEPT ![s] = "enter"]
        /\ UNCHANGED <<events, permit, waiters, signalled, received>>
        /\ sent' = IF kind = "Tick" THEN sent ELSE [sent EXCEPT ![s] = @ + 1]
        /\ kind = "Tick" \/ sent[s] < MaxSends
        /\ outgoing' = [outgoing EXCEPT ![s] = [kind |-> kind, from |-> s, n |-> sent'[s]]]
    BY DEF Send
  <1>3. sent' \in [Senders -> 0..MaxSends]
    BY <1>1, <1>2 DEF DataOK
  <1>4. [kind |-> kind, from |-> s, n |-> sent'[s]] \in Event
    BY <1>3 DEF Event
  <1>5. DataOK'
    BY <1>1, <1>2, <1>3, <1>4, Distinct DEF DataOK
  <1>6. WaitersOK'
    BY <1>1, <1>2, WaitersUnmoved DEF DataOK
  <1>7. BoundedAndCoalesced'
    BY <1>2 DEF IInv, BoundedAndCoalesced, Channel!SameSlot
  <1>8. PlaceInv' /\ StallInv'
    BY <1>1, <1>2, Distinct
    DEF IInv, DataOK, PlaceInv, StallInv, ParkedInv, WindowInv, StallOnlyWhenFull, IsFull
  <1> QED BY <1>5, <1>6, <1>7, <1>8, TypeParts DEF IInv

\* The two ways a sender leaves its event in the queue.
LEMMA CoalesceStep ==
    ASSUME IInv, NEW s \in Senders, Coalesce(s)
    PROVE  IInv'
  <1>1. /\ TypeOK /\ DataOK /\ PlaceInv /\ BoundedAndCoalesced /\ pc[s] # "idle"
        /\ events \in Seq(Event) /\ outgoing[s] \in Event
    BY TypeParts DEF IInv, DataOK, Coalesce, InLock
  <1>2. /\ InLock(s) /\ NotifyOneAndReturn(s) /\ UNCHANGED <<signalled, sent, received>>
    BY DEF Coalesce
  <1>3. PICK i \in Slot(s) : events' = [events EXCEPT ![i] = outgoing[s]]
    BY DEF Coalesce
  <1>4. events' \in Seq(Event) /\ Len(events') = Len(events) /\ BoundedAndCoalesced'
    BY <1>1, <1>3, CoalesceKeepsSlots
  <1>5. PlaceInv' /\ StallInv'
    BY <1>1, <1>2, <1>4, LenProperties, NotifyKeepsStall
  <1>6. DataOK' /\ WaitersOK'
    BY <1>1, <1>2, <1>4, NotifyKeepsData
  <1> QED BY <1>4, <1>5, <1>6, TypeParts DEF IInv

\* A push keeps the invariant: it happens below capacity and notifies one process.
LEMMA PushStep ==
    ASSUME IInv, NEW s \in Senders, Push(s)
    PROVE  IInv'
  <1>1. /\ TypeOK /\ DataOK /\ PlaceInv /\ BoundedAndCoalesced /\ pc[s] # "idle"
        /\ events \in Seq(Event) /\ outgoing[s] \in Event
    BY TypeParts DEF IInv, DataOK, Push, InLock
  <1>2. /\ InLock(s) /\ NotifyOneAndReturn(s) /\ UNCHANGED <<signalled, sent, received>>
        /\ Slot(s) = {} /\ Len(events) < Capacity /\ events' = Append(events, outgoing[s])
    BY DEF Push
  <1>3. events' \in Seq(Event) /\ Len(events') = Len(events) + 1 /\ BoundedAndCoalesced'
    BY <1>1, <1>2, PushKeepsSlots
  <1>4. PlaceInv' /\ StallInv'
    BY <1>1, <1>2, <1>3, LenProperties, NotifyKeepsStall
  <1>5. DataOK' /\ WaitersOK'
    BY <1>1, <1>2, <1>3, NotifyKeepsData
  <1> QED BY <1>3, <1>4, <1>5, TypeParts DEF IInv

\* The two ways a sender meets a full queue.
LEMMA FullStep ==
    ASSUME IInv, NEW s \in Senders, DropTick(s) \/ Arm(s)
    PROVE  IInv'
  <1>1. TypeOK /\ DataOK /\ s \in Procs /\ s # Receiver /\ PlaceInv
    BY TypeParts, Distinct DEF IInv
  <1>2. /\ pc[s] \in {"enter", "retry"}
        /\ UNCHANGED <<events, permit, waiters, sent, received>>
        /\ IsFull
    BY QueueAssumption, <1>1, LenProperties
    DEF DropTick, Arm, Full, InLock, IInv, BoundedAndCoalesced, IsFull, DataOK
  <1>3. /\ pc' \in [Procs -> {"idle", "enter", "retry", "armed", "waiting",
                              "check", "popped", "window"}]
        /\ pc'[s] \in {"idle", "armed"} /\ \A p \in Procs \ {s} : pc'[p] = pc[p]
        /\ signalled' \in [Senders -> BOOLEAN]
        /\ \A t \in Senders \ {s} : signalled'[t] = signalled[t]
        /\ DOMAIN outgoing' = Senders
        /\ \A t \in Senders \ {s} : outgoing'[t] = outgoing[t]
        /\ outgoing'[s] = IF pc'[s] = "idle" THEN NoEvent ELSE outgoing[s]
    BY <1>1 DEF DropTick, Arm, Return, DataOK
  <1>4. DataOK'
    BY <1>1, <1>2, <1>3, Distinct DEF DataOK
  <1>5. WaitersOK'
    BY <1>1, <1>2, <1>3, WaitersUnmoved
  <1>6. BoundedAndCoalesced'
    BY <1>2 DEF IInv, BoundedAndCoalesced, Channel!SameSlot
  <1>7. PlaceInv'
    BY <1>1, <1>3, Distinct DEF PlaceInv
  <1>8. ParkedInv' /\ WindowInv' /\ StallOnlyWhenFull'
    BY <1>1, <1>2, <1>3, Distinct
    DEF IInv, StallInv, ParkedInv, WindowInv, StallOnlyWhenFull, IsFull
  <1> QED BY <1>4, <1>5, <1>6, <1>7, <1>8, TypeParts DEF IInv, StallInv

\* Polling the future of a blocked sender keeps the invariant.
LEMMA AwaitStep ==
    ASSUME IInv, NEW s \in Senders, Await(s)
    PROVE  IInv'
  <1>1. /\ TypeOK /\ DataOK /\ s \in Procs /\ s # Receiver /\ PlaceInv
        /\ ParkedInv /\ WindowInv /\ StallOnlyWhenFull
    BY TypeParts, Distinct DEF IInv, StallInv
  <1>2. /\ pc[s] = "armed" /\ Poll(s, signalled[s]) /\ signalled[s] \in BOOLEAN
        /\ UNCHANGED <<events, signalled, outgoing, sent, received>>
    BY <1>1 DEF Await, DataOK
  <1>3. /\ WaitersOK' /\ permit' \in BOOLEAN
        /\ pc' \in [Procs -> {"idle", "enter", "retry", "armed", "waiting",
                              "check", "popped", "window"}]
        /\ \A q \in Procs \ {s} : pc'[q] = pc[q]
        /\ \/ permit /\ ~permit' /\ pc'[s] = "retry" /\ waiters' = waiters
           \/ ~permit /\ ~permit' /\ signalled[s] /\ pc'[s] = "retry" /\ waiters' = waiters
           \/ ~permit /\ ~permit' /\ ~signalled[s] /\ pc'[s] = "waiting"
    BY <1>1, <1>2, PollRegisters DEF Woken
  <1>4. DataOK'
    BY <1>1, <1>2, <1>3, Distinct DEF DataOK
  <1>5. BoundedAndCoalesced'
    BY <1>2 DEF IInv, BoundedAndCoalesced, Channel!SameSlot
  <1>6. PlaceInv'
    BY <1>1, <1>3, Distinct DEF PlaceInv
  <1>7. ParkedInv'
    BY <1>1, <1>2, <1>3, Distinct DEF ParkedInv, IsFull
  <1>8. WindowInv' /\ StallOnlyWhenFull'
    BY <1>1, <1>2, <1>3, Distinct, WaitingRegistered
    DEF ParkedInv, WindowInv, StallOnlyWhenFull, IsFull
  <1> QED BY <1>3, <1>4, <1>5, <1>6, <1>7, <1>8, TypeParts DEF IInv, StallInv

\* Taking the head keeps the invariant: the run loop is then about to notify everyone.
LEMMA PopStep ==
    ASSUME IInv, Pop
    PROVE  IInv'
  <1>1. TypeOK /\ DataOK /\ PlaceInv /\ BoundedAndCoalesced
    BY TypeParts DEF IInv
  <1>2. /\ pc[Receiver] = "check" /\ events # <<>> /\ events' = Tail(events)
        /\ pc' = [pc EXCEPT ![Receiver] = "popped"]
        /\ UNCHANGED <<permit, waiters, signalled, outgoing, sent>>
        /\ received' = IF Head(events).kind = "Tick" THEN received
                                                     ELSE Append(received, Head(events))
    BY DEF Pop
  <1>3. events' \in Seq(Event) /\ Head(events) \in Event /\ BoundedAndCoalesced'
    BY <1>1, <1>2, PopKeepsSlots
  <1>4. received' \in Seq(Event)
    BY <1>1, <1>2, <1>3, AppendProperties DEF DataOK
  <1>5. DataOK'
    BY <1>1, <1>2, <1>3, <1>4, Distinct DEF DataOK
  <1>6. WaitersOK'
    BY <1>1, <1>2, WaitersUnmoved DEF DataOK
  <1>7. PlaceInv' /\ ParkedInv' /\ WindowInv' /\ StallOnlyWhenFull'
    BY <1>1, <1>2, Distinct
    DEF DataOK, PlaceInv, IInv, StallInv, ParkedInv, WindowInv, StallOnlyWhenFull
  <1> QED BY <1>3, <1>5, <1>6, <1>7, TypeParts DEF IInv, StallInv

\* notify_waiters leaves no process waiting, so none can be stalled.
LEMMA NotifyWaitersStep ==
    ASSUME IInv, NotifyWaiters
    PROVE  IInv'
  <1>1. TypeOK /\ DataOK /\ PlaceInv /\ Receiver \in Procs
    BY TypeParts, Distinct DEF IInv
  <1>2. /\ pc' = [p \in Procs |-> IF p = Receiver \/ pc[p] = "waiting" THEN Woken(p) ELSE pc[p]]
        /\ waiters' = <<>>
        /\ signalled' = [s \in Senders |-> signalled[s] \/ pc[s] = "armed"]
        /\ UNCHANGED <<events, permit, outgoing, sent, received>>
    BY DEF NotifyWaiters
  <1>3. \A p \in Procs : pc'[p] # "waiting"
    BY <1>2 DEF Woken
  <1>4. WaitersOK'
    BY <1>2, <1>3, EmptySeq DEF WaitersOK
  <1>5. /\ pc' \in [Procs -> {"idle", "enter", "retry", "armed", "waiting",
                              "check", "popped", "window"}]
        /\ \A s \in Senders : pc'[s] = "idle" <=> pc[s] = "idle"
        /\ \A s \in Senders : pc'[s] = IF pc[s] = "waiting" THEN "retry" ELSE pc[s]
        /\ pc'[Receiver] = "check"
    BY <1>1, <1>2, Distinct DEF DataOK, Woken
  <1>6. DataOK'
    BY <1>1, <1>2, <1>5 DEF DataOK
  <1>7. BoundedAndCoalesced'
    BY <1>2 DEF IInv, BoundedAndCoalesced, Channel!SameSlot
  <1>8. PlaceInv'
    BY <1>1, <1>5 DEF PlaceInv
  <1>9. ASSUME NEW s \in Senders, pc'[s] = "armed"
        PROVE  signalled'[s]
    <2>1. pc[s] = "armed"
      BY <1>5, <1>9
    <2>2. signalled'[s] = (signalled[s] \/ pc[s] = "armed")
      BY <1>2
    <2> QED BY <2>1, <2>2, Zenon
  <1>10. ParkedInv' /\ WindowInv' /\ StallOnlyWhenFull'
    BY <1>2, <1>3, <1>5, <1>9, Distinct DEF ParkedInv, WindowInv, StallOnlyWhenFull
  <1> QED BY <1>4, <1>6, <1>7, <1>8, <1>10, TypeParts DEF IInv, StallInv

\* The run loop leaves the lock only in front of an empty queue.
LEMMA FindEmptyStep ==
    ASSUME IInv, FindEmpty
    PROVE  IInv'
  <1>1. TypeOK /\ DataOK /\ PlaceInv
    BY TypeParts DEF IInv
  <1>2. /\ pc[Receiver] = "check" /\ events = <<>>
        /\ pc' = [pc EXCEPT ![Receiver] = "window"]
        /\ UNCHANGED <<events, permit, waiters, signalled, outgoing, sent, received>>
    BY DEF FindEmpty
  <1>3. DataOK'
    BY <1>1, <1>2, Distinct DEF DataOK
  <1>4. WaitersOK'
    BY <1>1, <1>2, WaitersUnmoved DEF DataOK
  <1>5. BoundedAndCoalesced'
    BY <1>2 DEF IInv, BoundedAndCoalesced, Channel!SameSlot
  <1>6. PlaceInv' /\ ParkedInv' /\ WindowInv' /\ StallOnlyWhenFull'
    BY <1>1, <1>2, Distinct
    DEF DataOK, PlaceInv, IInv, StallInv, ParkedInv, WindowInv, StallOnlyWhenFull, IsFull
  <1> QED BY <1>3, <1>4, <1>5, <1>6, TypeParts DEF IInv, StallInv

\* The run loop parks only if no permit is stored, so no push went unnoticed.
LEMMA AwaitEventStep ==
    ASSUME IInv, AwaitEvent
    PROVE  IInv'
  <1>1. /\ TypeOK /\ DataOK /\ PlaceInv /\ ParkedInv /\ WindowInv
        /\ Receiver \in Procs
    BY TypeParts, Distinct DEF IInv, StallInv
  <1>2. /\ pc[Receiver] = "window" /\ Poll(Receiver, FALSE)
        /\ UNCHANGED <<events, signalled, outgoing, sent, received>>
    BY DEF AwaitEvent
  <1>3. /\ WaitersOK' /\ permit' \in BOOLEAN
        /\ pc' \in [Procs -> {"idle", "enter", "retry", "armed", "waiting",
                              "check", "popped", "window"}]
        /\ \A q \in Procs \ {Receiver} : pc'[q] = pc[q]
        /\ \/ permit /\ ~permit' /\ pc'[Receiver] = "check" /\ waiters' = waiters
           \/ ~permit /\ ~permit' /\ pc'[Receiver] = "waiting"
    BY <1>1, <1>2, PollRegisters DEF Woken
  <1>4. DataOK'
    BY <1>1, <1>2, <1>3, Distinct DEF DataOK
  <1>5. BoundedAndCoalesced'
    BY <1>2 DEF IInv, BoundedAndCoalesced, Channel!SameSlot
  <1>6. PlaceInv' /\ ParkedInv' /\ WindowInv' /\ StallOnlyWhenFull'
    BY <1>1, <1>2, <1>3, Distinct
    DEF PlaceInv, ParkedInv, WindowInv, StallOnlyWhenFull, IsFull
  <1> QED BY <1>3, <1>4, <1>5, <1>6, TypeParts DEF IInv, StallInv

-----------------------------------------------------------------------------
(* The theorems. *)

\* The invariant holds of a new queue.
LEMMA InitInv == Init => IInv
  <1> SUFFICES ASSUME Init PROVE IInv
    OBVIOUS
  <1>1. /\ events = <<>> /\ waiters = <<>> /\ received = <<>> /\ permit = FALSE
        /\ Receiver \in Procs /\ Capacity \in Nat /\ MaxSends \in Nat
        /\ Len(events) = 0
    BY QueueAssumption, Distinct DEF Init
  <1>2. \A p \in Procs : pc[p] = IF p = Receiver THEN "check" ELSE "idle"
    BY DEF Init
  <1>3. WaitersOK
    BY <1>1, <1>2, EmptySeq DEF WaitersOK
  <1>4. DataOK
    <2>1. events \in Seq(Event) /\ received \in Seq(Event)
      BY <1>1, EmptySeq
    <2>2. pc \in [Procs -> {"idle", "enter", "retry", "armed", "waiting",
                           "check", "popped", "window"}]
      BY DEF Init
    <2>3. signalled \in [Senders -> BOOLEAN] /\ sent \in [Senders -> 0..MaxSends]
      BY <1>1 DEF Init
    <2>4. \A s \in Senders : pc[s] = "idle" /\ outgoing[s] = NoEvent
      BY <1>2, Distinct DEF Init
    <2>5. DOMAIN outgoing = Senders
      BY DEF Init
    <2> QED BY <1>1, <2>1, <2>2, <2>3, <2>4, <2>5 DEF DataOK
  <1>5. BoundedAndCoalesced
    BY <1>1 DEF BoundedAndCoalesced
  <1>6. PlaceInv /\ StallInv
    BY <1>1, <1>2, Distinct DEF PlaceInv, StallInv, ParkedInv, WindowInv, StallOnlyWhenFull
  <1> QED BY <1>3, <1>4, <1>5, <1>6, TypeParts DEF IInv

\* The invariant only speaks of the variables of the specification.
LEMMA StutterInv == IInv /\ UNCHANGED vars => IInv'
  BY DEF vars, IInv, TypeOK, PlaceInv, BoundedAndCoalesced, StallInv, ParkedInv, WindowInv,
         StallOnlyWhenFull, IsFull, Channel!SameSlot

\* Every step keeps the invariant: one case per action.
LEMMA NextInv == IInv /\ [Next]_vars => IInv'
  <1> SUFFICES ASSUME IInv, [Next]_vars PROVE IInv'
    OBVIOUS
  <1>1. CASE Receive
    BY <1>1, PopStep, NotifyWaitersStep, FindEmptyStep, AwaitEventStep DEF Receive
  <1>2. ASSUME NEW s \in Senders, Deliver(s)
        PROVE  IInv'
    BY <1>2, CoalesceStep, PushStep, FullStep, AwaitStep DEF Deliver
  <1>3. ASSUME NEW s \in Senders, NEW kind \in {"Tick", "Resize", "Other"}, Send(s, kind)
        PROVE  IInv'
    BY <1>3, SendStep
  <1>4. CASE UNCHANGED vars
    BY <1>4, StutterInv
  <1> QED BY <1>1, <1>2, <1>3, <1>4 DEF Next

\* The invariant holds always.
LEMMA Invariance == Spec => []IInv
  BY InitInv, NextInv, PTL DEF Spec

\* Types hold, and the registered futures are those of the parked processes.
THEOREM TypeCorrect == Spec => []TypeOK
  BY Invariance, PTL DEF IInv

\* The queue stays within EVENT_CAPACITY and never holds two Ticks or two Resizes.
THEOREM QueueBounded == Spec => []BoundedAndCoalesced
  BY Invariance, PTL DEF IInv

\* For any number of senders and any capacity: the run loop is parked in front of
\* a non-empty queue only if the queue is full or a woken sender will notify it.
THEOREM NoStallBelowCapacity == Spec => []StallOnlyWhenFull
  <1>1. IInv => StallOnlyWhenFull
    BY DEF IInv, StallInv
  <1> QED BY <1>1, Invariance, PTL

\* Every step is an Accept, a Supersede or a Take of the channel, or leaves it alone.
LEMMA ChannelStep == IInv /\ [Next]_vars => [Channel!Next]_(Channel!vars)
  <1> SUFFICES ASSUME IInv, [Next]_vars PROVE [Channel!Next]_(Channel!vars)
    OBVIOUS
  <1>1. CASE Pop
    BY <1>1 DEF Pop, Channel!Next, Channel!Take
  <1>2. ASSUME NEW s \in Senders, Coalesce(s)
        PROVE  Channel!Next
    <2>1. outgoing[s] \in Event
      BY <1>2 DEF Coalesce, InLock, IInv, TypeOK
    <2>2. Channel!Supersede(outgoing[s])
      BY <1>2 DEF Coalesce, Slot, Channel!Supersede
    <2> QED BY <2>1, <2>2 DEF Channel!Next
  <1>3. ASSUME NEW s \in Senders, Push(s)
        PROVE  Channel!Next
    <2>1. outgoing[s] \in Event
      BY <1>3 DEF Push, InLock, IInv, TypeOK
    <2>2. Channel!Accept(outgoing[s])
      BY <1>3 DEF Push, Slot, Channel!Accept
    <2> QED BY <2>1, <2>2 DEF Channel!Next
  <1>4. ASSUME NEW s \in Senders, DropTick(s) \/ Arm(s) \/ Await(s)
        PROVE  UNCHANGED <<events, received>>
    BY <1>4 DEF DropTick, Arm, Await
  <1>5. ASSUME NEW s \in Senders, NEW kind \in {"Tick", "Resize", "Other"}, Send(s, kind)
        PROVE  UNCHANGED <<events, received>>
    BY <1>5 DEF Send
  <1>6. ASSUME NotifyWaiters \/ FindEmpty \/ AwaitEvent
        PROVE  UNCHANGED <<events, received>>
    BY <1>6 DEF NotifyWaiters, FindEmpty, AwaitEvent
  <1>7. CASE UNCHANGED vars
    BY <1>7 DEF vars, Channel!vars
  <1> QED BY <1>1, <1>2, <1>3, <1>4, <1>5, <1>6, <1>7
          DEF Next, Receive, Deliver, Channel!vars

\* EventQueue, with its lock, its Notify and its parked processes, is a bounded
\* coalescing FIFO: nothing accepted is lost, doubled or reordered.
THEOREM QueueRefinesChannel == Spec => ImplementsChannel
  <1>1. Init => Channel!Init
    BY DEF Init, Channel!Init
  <1> QED BY <1>1, ChannelStep, Invariance, PTL DEF Spec, ImplementsChannel, Channel!Spec

-----------------------------------------------------------------------------
(* What a worker sends arrives once and in order. *)

\* The events of w in rs, and after them in es, are numbered 1 to k.
Ordered(w, rs, es, k) ==
    /\ \A i \in 1..Len(rs) : rs[i].from = w => rs[i].n \in 1..k
    /\ \A i \in 1..Len(es) : es[i].from = w => es[i].n \in 1..k /\ es[i].kind = "Other"
    /\ \A i, j \in 1..Len(rs) : rs[i].from = w /\ rs[j].from = w /\ i < j => rs[i].n < rs[j].n
    /\ \A i, j \in 1..Len(es) : es[i].from = w /\ es[j].from = w /\ i < j => es[i].n < es[j].n
    /\ \A i \in 1..Len(rs) : \A j \in 1..Len(es) :
         rs[i].from = w /\ es[j].from = w => rs[i].n < es[j].n
    /\ \A n \in 1..k : \/ \E i \in 1..Len(rs) : rs[i].from = w /\ rs[i].n = n
                       \/ \E i \in 1..Len(es) : es[i].from = w /\ es[i].n = n

\* Its next event is appended, or an event of somebody else.
LEMMA OrderedAppend ==
    ASSUME NEW w, NEW rs \in Seq(Event), NEW es \in Seq(Event), NEW k \in Nat, Ordered(w, rs, es, k),
           NEW e \in Event, NEW m \in Nat,
           IF e.from = w THEN m = k + 1 /\ e.n = m /\ e.kind = "Other" ELSE m = k
    PROVE  Ordered(w, rs, Append(es, e), m)
  <1> DEFINE new == Append(es, e)
  <1>1. /\ Len(es) \in Nat /\ Len(new) = Len(es) + 1
        /\ \A i \in 1..Len(es) : new[i] = es[i]
        /\ new[Len(es) + 1] = e
    BY AppendProperties, LenProperties
  <1>2. Len(rs) \in Nat
    BY LenProperties
  <1> HIDE DEF new
  <1>3. \A i \in 1..Len(new) : i \in 1..Len(es) \/ i = Len(es) + 1
    BY <1>1
  <1>4. \A i \in 1..Len(new) : new[i].from = w => new[i].n \in 1..m /\ new[i].kind = "Other"
    BY <1>1, <1>3 DEF Ordered
  <1>5. \A i \in 1..Len(rs) : rs[i].from = w => rs[i].n \in 1..m
    BY DEF Ordered
  <1>6. \A i, j \in 1..Len(new) : new[i].from = w /\ new[j].from = w /\ i < j => new[i].n < new[j].n
    <2> SUFFICES ASSUME NEW i \in 1..Len(new), NEW j \in 1..Len(new),
                        new[i].from = w, new[j].from = w, i < j
                 PROVE  new[i].n < new[j].n
      OBVIOUS
    <2>1. i \in 1..Len(es)
      BY <1>1, <1>3
    <2>2. CASE j \in 1..Len(es)
      BY <1>1, <2>1, <2>2 DEF Ordered
    <2>3. CASE j = Len(es) + 1
      <3>1. e.from = w /\ new[j] = e /\ new[i] = es[i]
        BY <1>1, <2>1, <2>3
      <3>2. es[i].n \in 1..k
        BY <2>1, <3>1 DEF Ordered
      <3> QED BY <3>1, <3>2
    <2> QED BY <1>3, <2>2, <2>3
  <1>7. \A i \in 1..Len(rs) : \A j \in 1..Len(new) :
           rs[i].from = w /\ new[j].from = w => rs[i].n < new[j].n
    <2> SUFFICES ASSUME NEW i \in 1..Len(rs), NEW j \in 1..Len(new), rs[i].from = w, new[j].from = w
                 PROVE  rs[i].n < new[j].n
      OBVIOUS
    <2>1. CASE j \in 1..Len(es)
      BY <1>1, <2>1 DEF Ordered
    <2>2. CASE j = Len(es) + 1
      <3>1. e.from = w /\ new[j] = e /\ rs[i].n \in 1..k
        BY <1>1, <2>2 DEF Ordered
      <3> QED BY <3>1
    <2> QED BY <1>3, <2>1, <2>2
  <1>8. ASSUME NEW n \in 1..m
        PROVE  \/ \E i \in 1..Len(rs) : rs[i].from = w /\ rs[i].n = n
               \/ \E i \in 1..Len(new) : new[i].from = w /\ new[i].n = n
    <2>1. CASE n \in 1..k
      <3>1. \/ \E i \in 1..Len(rs) : rs[i].from = w /\ rs[i].n = n
            \/ \E i \in 1..Len(es) : es[i].from = w /\ es[i].n = n
        BY <2>1 DEF Ordered
      <3>2. \A i \in 1..Len(es) : i \in 1..Len(new)
        BY <1>1
      <3> QED BY <1>1, <3>1, <3>2
    <2>2. CASE n \notin 1..k
      <3>1. n = m /\ e.from = w /\ e.n = n
        BY <2>2
      <3> QED BY <1>1, <3>1
    <2> QED BY <2>1, <2>2
  <1>9. \A i, j \in 1..Len(rs) : rs[i].from = w /\ rs[j].from = w /\ i < j => rs[i].n < rs[j].n
    BY DEF Ordered
  <1>10. Ordered(w, rs, new, m)
    BY <1>4, <1>5, <1>6, <1>7, <1>8, <1>9 DEF Ordered
  <1> QED BY <1>10 DEF new

\* An event of somebody else is replaced by one of somebody else.
LEMMA OrderedReplace ==
    ASSUME NEW w, NEW rs \in Seq(Event), NEW es \in Seq(Event), NEW k, Ordered(w, rs, es, k),
           NEW e \in Event, NEW i \in 1..Len(es), es[i].from # w, e.from # w
    PROVE  Ordered(w, rs, [es EXCEPT ![i] = e], k)
  <1> DEFINE new == [es EXCEPT ![i] = e]
  <1>1. Len(new) = Len(es) /\ new[i] = e /\ \A j \in 1..Len(es) : j # i => new[j] = es[j]
    BY ExceptSeq
  <1> HIDE DEF new
  <1>2. /\ \A j \in 1..Len(new) : new[j].from = w => j \in 1..Len(es) /\ new[j] = es[j] /\ es[j].from = w
        /\ \A j \in 1..Len(es) : es[j].from = w => j \in 1..Len(new) /\ new[j] = es[j] /\ new[j].from = w
    BY <1>1
  <1>3. \A j \in 1..Len(new) : new[j].from = w => new[j].n \in 1..k /\ new[j].kind = "Other"
    BY <1>2 DEF Ordered
  <1>4. \A j, l \in 1..Len(new) : new[j].from = w /\ new[l].from = w /\ j < l => new[j].n < new[l].n
    BY <1>2 DEF Ordered
  <1>5. \A j \in 1..Len(rs) : \A l \in 1..Len(new) : rs[j].from = w /\ new[l].from = w => rs[j].n < new[l].n
    BY <1>2 DEF Ordered
  <1>6. \A n \in 1..k : \/ \E j \in 1..Len(rs) : rs[j].from = w /\ rs[j].n = n
                        \/ \E j \in 1..Len(new) : new[j].from = w /\ new[j].n = n
    BY <1>2 DEF Ordered
  <1>7. Ordered(w, rs, new, k)
    BY <1>3, <1>4, <1>5, <1>6 DEF Ordered
  <1> QED BY <1>7 DEF new

\* The oldest event is received; a Tick is nobody's report.
LEMMA OrderedTake ==
    ASSUME NEW w, NEW rs \in Seq(Event), NEW es \in Seq(Event), NEW k, Ordered(w, rs, es, k),
           es # <<>>
    PROVE  Ordered(w, IF Head(es).kind = "Tick" THEN rs ELSE Append(rs, Head(es)), Tail(es), k)
  <1> DEFINE h == Head(es)
             rest == Tail(es)
             more == Append(rs, h)
  <1>1. /\ h \in Event /\ h = es[1] /\ Len(es) \in Nat \ {0} /\ Len(rest) = Len(es) - 1
        /\ \A j \in 1..Len(rest) : rest[j] = es[j + 1] /\ j + 1 \in 1..Len(es)
        /\ \A j \in 1..Len(es) : j = 1 \/ j - 1 \in 1..Len(rest)
    BY HeadTailProperties, EmptySeq, LenProperties
  <1>2. /\ Len(rs) \in Nat /\ Len(more) = Len(rs) + 1
        /\ \A j \in 1..Len(rs) : more[j] = rs[j]
        /\ more[Len(rs) + 1] = h
    BY <1>1, AppendProperties, LenProperties
  <1> HIDE DEF h, rest, more
  <1>3. \A j \in 1..Len(rest) : rest[j].from = w => rest[j].n \in 1..k /\ rest[j].kind = "Other"
    BY <1>1 DEF Ordered
  <1>4. \A i, j \in 1..Len(rest) : rest[i].from = w /\ rest[j].from = w /\ i < j => rest[i].n < rest[j].n
    <2> SUFFICES ASSUME NEW i \in 1..Len(rest), NEW j \in 1..Len(rest),
                        rest[i].from = w, rest[j].from = w, i < j
                 PROVE  rest[i].n < rest[j].n
      OBVIOUS
    <2>1. rest[i] = es[i + 1] /\ rest[j] = es[j + 1] /\ i + 1 < j + 1
          /\ i + 1 \in 1..Len(es) /\ j + 1 \in 1..Len(es)
      BY <1>1
    <2> QED BY <2>1 DEF Ordered
  <1>5. CASE h.from # w
    <2>1. Ordered(w, rs, rest, k)
      <3>1. \A i \in 1..Len(rs) : \A j \in 1..Len(rest) :
               rs[i].from = w /\ rest[j].from = w => rs[i].n < rest[j].n
        BY <1>1, SMTT(30) DEF Ordered
      <3>2. ASSUME NEW n \in 1..k
            PROVE  \/ \E i \in 1..Len(rs) : rs[i].from = w /\ rs[i].n = n
                   \/ \E i \in 1..Len(rest) : rest[i].from = w /\ rest[i].n = n
        <4>1. CASE \E i \in 1..Len(rs) : rs[i].from = w /\ rs[i].n = n
          BY <4>1
        <4>2. CASE \E i \in 1..Len(es) : es[i].from = w /\ es[i].n = n
          <5>1. PICK i \in 1..Len(es) : es[i].from = w /\ es[i].n = n
            BY <4>2
          <5>2. i # 1
            BY <1>1, <1>5, <5>1
          <5>3. i - 1 \in 1..Len(rest) /\ rest[i - 1] = es[i]
            BY <1>1, <5>2
          <5> QED BY <5>1, <5>3
        <4> QED BY <4>1, <4>2 DEF Ordered
      <3> QED BY <1>3, <1>4, <3>1, <3>2 DEF Ordered
    <2>2. Ordered(w, more, rest, k)
      <3>1. \A j \in 1..Len(more) : j \in 1..Len(rs) \/ j = Len(rs) + 1
        BY <1>2
      <3>2. \A j \in 1..Len(more) : more[j].from = w => j \in 1..Len(rs) /\ more[j] = rs[j]
        BY <1>2, <1>5, <3>1
      <3>3. \A j \in 1..Len(rs) : j \in 1..Len(more) /\ more[j] = rs[j]
        BY <1>2
      <3> QED BY <2>1, <3>2, <3>3 DEF Ordered
    <2> QED BY <2>1, <2>2 DEF h, rest, more
  <1>6. CASE h.from = w
    <2>1. h.kind = "Other" /\ h.n \in 1..k /\ 1 \in 1..Len(es)
      BY <1>1, <1>6 DEF Ordered
    <2>2. \A j \in 1..Len(more) : j \in 1..Len(rs) \/ j = Len(rs) + 1
      BY <1>2
    <2>3. \A j \in 1..Len(more) : more[j].from = w => more[j].n \in 1..k
      BY <1>2, <2>1, <2>2 DEF Ordered
    <2>4. \A j \in 1..Len(rest) : rest[j].from = w => h.n < rest[j].n
      <3> SUFFICES ASSUME NEW j \in 1..Len(rest), rest[j].from = w PROVE h.n < rest[j].n
        OBVIOUS
      <3>1. rest[j] = es[j + 1] /\ j + 1 \in 1..Len(es) /\ 1 < j + 1
        BY <1>1
      <3> QED BY <1>1, <1>6, <2>1, <3>1 DEF Ordered
    <2>5. \A i \in 1..Len(more) : \A j \in 1..Len(rest) :
             more[i].from = w /\ rest[j].from = w => more[i].n < rest[j].n
      <3>1. \A i \in 1..Len(rs) : \A j \in 1..Len(rest) :
               rs[i].from = w /\ rest[j].from = w => rs[i].n < rest[j].n
        BY <1>1, SMTT(30) DEF Ordered
      <3> QED BY <1>2, <2>2, <2>4, <3>1
    <2>6. \A i, j \in 1..Len(more) : more[i].from = w /\ more[j].from = w /\ i < j => more[i].n < more[j].n
      <3>1. \A i \in 1..Len(rs) : rs[i].from = w => rs[i].n < h.n
        BY <1>1, <1>6, <2>1 DEF Ordered
      <3> SUFFICES ASSUME NEW i \in 1..Len(more), NEW j \in 1..Len(more),
                          more[i].from = w, more[j].from = w, i < j
                   PROVE  more[i].n < more[j].n
        OBVIOUS
      <3>2. i \in 1..Len(rs) /\ more[i] = rs[i]
        BY <1>2, <2>2
      <3>3. CASE j \in 1..Len(rs)
        BY <1>2, <3>2, <3>3 DEF Ordered
      <3>4. CASE j = Len(rs) + 1
        BY <1>2, <3>1, <3>2, <3>4
      <3> QED BY <2>2, <3>3, <3>4
    <2>7. ASSUME NEW n \in 1..k
          PROVE  \/ \E i \in 1..Len(more) : more[i].from = w /\ more[i].n = n
                 \/ \E i \in 1..Len(rest) : rest[i].from = w /\ rest[i].n = n
      <3>1. CASE \E i \in 1..Len(rs) : rs[i].from = w /\ rs[i].n = n
        <4>1. \A j \in 1..Len(rs) : j \in 1..Len(more) /\ more[j] = rs[j]
          BY <1>2
        <4> QED BY <3>1, <4>1
      <3>2. CASE \E i \in 1..Len(es) : es[i].from = w /\ es[i].n = n
        <4>1. PICK i \in 1..Len(es) : es[i].from = w /\ es[i].n = n
          BY <3>2
        <4>2. CASE i = 1
          <5>1. Len(rs) + 1 \in 1..Len(more)
            BY <1>2
          <5> QED BY <1>1, <1>2, <1>6, <4>1, <4>2, <5>1
        <4>3. CASE i # 1
          <5>1. i - 1 \in 1..Len(rest) /\ rest[i - 1] = es[i]
            BY <1>1, <4>3
          <5> QED BY <4>1, <5>1
        <4> QED BY <4>2, <4>3
      <3> QED BY <3>1, <3>2 DEF Ordered
    <2>8. Ordered(w, more, rest, k)
      BY <1>3, <1>4, <2>3, <2>5, <2>6, <2>7 DEF Ordered
    <2> QED BY <2>1, <2>8 DEF h, rest, more
  <1> QED BY <1>5, <1>6

\* Every sender sends its own events; a worker numbers its reports.
SendersOwn ==
    /\ \A s \in Senders : pc[s] # "idle" => outgoing[s].from = s
    /\ \A w \in Workers : pc[w] # "idle" =>
         outgoing[w].kind = "Other" /\ outgoing[w].n = sent[w] /\ sent[w] # 0

\* WorkerEventsArriveOnce, of the two sequences it joins.
ReportsInv == SendersOwn /\ \A w \in Workers : Ordered(w, received, events, Accepted(w))

LEMMA WorkersSend == \A w \in Workers : w \in Senders /\ w \notin Inputs /\ w \notin Tickers
  BY QueueAssumption DEF Senders

\* A step in which no sender comes to send and none has sent.
LEMMA QuietReports ==
    ASSUME IInv, IInv', ReportsInv, UNCHANGED <<outgoing, sent>>,
           \A s \in Senders : pc'[s] = "idle" <=> pc[s] = "idle",
           \A w \in Workers : Ordered(w, received', events', Accepted(w))
    PROVE  ReportsInv'
  <1>1. SendersOwn'
    BY WorkersSend DEF ReportsInv, SendersOwn
  <1>2. \A w \in Workers : Accepted(w)' = Accepted(w)
    BY WorkersSend DEF Accepted
  <1> QED BY <1>1, <1>2 DEF ReportsInv

\* The sender s is done with its event, the others go on.
LEMMA DoneReports ==
    ASSUME IInv, IInv', ReportsInv, NEW s \in Senders, pc[s] # "idle", pc'[s] = "idle",
           \A t \in Senders \ {s} : (pc'[t] = "idle" <=> pc[t] = "idle") /\ outgoing'[t] = outgoing[t],
           UNCHANGED sent,
           \A w \in Workers : Ordered(w, received', events', IF w = s THEN sent[w] ELSE Accepted(w))
    PROVE  ReportsInv'
  <1>1. SendersOwn'
    BY WorkersSend DEF ReportsInv, SendersOwn
  <1>2. \A w \in Workers : Accepted(w)' = IF w = s THEN sent[w] ELSE Accepted(w)
    BY WorkersSend DEF Accepted
  <1> QED BY <1>1, <1>2 DEF ReportsInv

\* After send has notified, only s has become idle.
LEMMA NotifiedIdle ==
    ASSUME IInv, NEW s \in Senders, InLock(s), NotifyOneAndReturn(s)
    PROVE  /\ pc[s] # "idle" /\ pc'[s] = "idle"
           /\ \A t \in Senders \ {s} : (pc'[t] = "idle" <=> pc[t] = "idle") /\ outgoing'[t] = outgoing[t]
  <1>1. TypeOK /\ PlaceInv
    BY DEF IInv
  <1>2. /\ outgoing' = [outgoing EXCEPT ![s] = NoEvent] /\ pc'[s] = "idle"
        /\ \/ \A p \in Procs \ {s} : pc'[p] = pc[p]
           \/ \E h \in Procs \ {s} : /\ pc[h] = "waiting" /\ pc'[h] = Woken(h)
                                     /\ \A p \in Procs \ {s, h} : pc'[p] = pc[p]
    BY <1>1, NotifyOne
  <1>3. \A t \in Senders \ {s} : outgoing'[t] = outgoing[t]
    BY <1>1, <1>2 DEF TypeOK
  <1>4. \A t \in Senders \ {s} : pc'[t] = "idle" <=> pc[t] = "idle"
    BY <1>2, Distinct DEF Woken
  <1> QED BY <1>2, <1>3, <1>4 DEF InLock

\* Each action keeps the reports in order.
LEMMA ReportsStep == IInv /\ IInv' /\ ReportsInv /\ [Next]_vars => ReportsInv'
  <1> SUFFICES ASSUME IInv, IInv', ReportsInv, [Next]_vars PROVE ReportsInv'
    OBVIOUS
  <1>0. /\ events \in Seq(Event) /\ received \in Seq(Event)
        /\ sent \in [Senders -> 0..MaxSends] /\ MaxSends \in Nat
        /\ \A s \in Senders : pc[s] # "idle" => outgoing[s] \in Event
        /\ DOMAIN outgoing = Senders
        /\ pc \in [Procs -> {"idle", "enter", "retry", "armed", "waiting", "check", "popped", "window"}]
    BY QueueAssumption DEF IInv, TypeOK
  <1>1. ASSUME NEW s \in Senders, NEW kind \in {"Tick", "Resize", "Other"}, Send(s, kind)
        PROVE  ReportsInv'
    <2>1. /\ pc[s] = "idle" /\ pc' = [pc EXCEPT ![s] = "enter"]
          /\ outgoing' = [outgoing EXCEPT ![s] = [kind |-> kind, from |-> s, n |-> sent'[s]]]
          /\ sent' = IF kind = "Tick" THEN sent ELSE [sent EXCEPT ![s] = @ + 1]
          /\ UNCHANGED <<events, received>>
      BY <1>1 DEF Send
    <2>2. s \in Workers => kind = "Other"
      BY <1>1, WorkersSend DEF Send
    <2>3. /\ pc'[s] = "enter" /\ outgoing'[s] = [kind |-> kind, from |-> s, n |-> sent'[s]]
          /\ \A t \in Senders \ {s} : pc'[t] = pc[t] /\ outgoing'[t] = outgoing[t] /\ sent'[t] = sent[t]
          /\ kind # "Tick" => sent'[s] = sent[s] + 1
      BY <1>0, <2>1, Distinct
    <2>4. SendersOwn'
      BY <1>0, <2>2, <2>3, WorkersSend DEF ReportsInv, SendersOwn
    <2>5. \A w \in Workers : Accepted(w)' = Accepted(w)
      BY <1>0, <2>1, <2>2, <2>3, WorkersSend DEF Accepted
    <2> QED BY <2>1, <2>4, <2>5 DEF ReportsInv
  <1>2. ASSUME NEW s \in Senders, Coalesce(s) PROVE ReportsInv'
    <2>1. InLock(s) /\ NotifyOneAndReturn(s) /\ UNCHANGED <<sent, received>>
      BY <1>2 DEF Coalesce
    <2>2. PICK i \in Slot(s) : events' = [events EXCEPT ![i] = outgoing[s]]
      BY <1>2 DEF Coalesce
    <2>3. /\ i \in 1..Len(events) /\ pc[s] # "idle" /\ outgoing[s] \in Event /\ outgoing[s].from = s
          /\ outgoing[s].kind \in {"Tick", "Resize"} /\ events[i].kind \in {"Tick", "Resize"}
      BY <1>0, <2>1 DEF Slot, Channel!SameSlot, Channel!Coalescing, InLock, ReportsInv, SendersOwn
    <2>4. s \notin Workers
      BY <2>3 DEF ReportsInv, SendersOwn
    <2>5. ASSUME NEW w \in Workers PROVE Ordered(w, received', events', Accepted(w))
      <3>1. Ordered(w, received, events, Accepted(w))
        BY DEF ReportsInv
      <3>2. events[i].from # w
        BY <2>3, <3>1 DEF Ordered
      <3> QED BY <1>0, <2>1, <2>2, <2>3, <2>4, <3>1, <3>2, OrderedReplace
    <2> QED BY <2>1, <2>4, <2>5, NotifiedIdle, DoneReports
  <1>3. ASSUME NEW s \in Senders, Push(s) PROVE ReportsInv'
    <2>1. /\ InLock(s) /\ NotifyOneAndReturn(s) /\ UNCHANGED <<sent, received>>
          /\ events' = Append(events, outgoing[s])
      BY <1>3 DEF Push
    <2>2. pc[s] # "idle" /\ outgoing[s] \in Event /\ outgoing[s].from = s
      BY <1>0, <2>1 DEF InLock, ReportsInv, SendersOwn
    <2>3. ASSUME NEW w \in Workers
          PROVE  Ordered(w, received', events', IF w = s THEN sent[w] ELSE Accepted(w))
      <3>1. Ordered(w, received, events, Accepted(w)) /\ w \in Senders
        BY WorkersSend DEF ReportsInv
      <3>2. sent[w] \in Nat /\ (pc[w] # "idle" => sent[w] # 0 /\ outgoing[w].n = sent[w] /\ outgoing[w].kind = "Other")
        BY <1>0, <3>1 DEF ReportsInv, SendersOwn
      <3>3. Accepted(w) \in Nat /\ (w = s => sent[w] = Accepted(w) + 1)
        BY <2>2, <3>2 DEF Accepted
      <3> QED BY <1>0, <2>1, <2>2, <3>1, <3>2, <3>3, OrderedAppend
    <2> QED BY <2>1, <2>3, NotifiedIdle, DoneReports
  <1>4. ASSUME NEW s \in Senders, DropTick(s) PROVE ReportsInv'
    <2>1. /\ pc[s] # "idle" /\ outgoing[s].kind = "Tick" /\ UNCHANGED <<events, sent, received>>
          /\ pc' = [p \in Procs |-> IF p = s THEN "idle" ELSE pc[p]]
          /\ outgoing' = [outgoing EXCEPT ![s] = NoEvent]
      BY <1>4 DEF DropTick, Full, InLock, Return
    <2>2. s \notin Workers
      BY <2>1 DEF ReportsInv, SendersOwn
    <2>3. /\ pc'[s] = "idle"
          /\ \A t \in Senders \ {s} : (pc'[t] = "idle" <=> pc[t] = "idle") /\ outgoing'[t] = outgoing[t]
      BY <1>0, <2>1, Distinct
    <2>4. \A w \in Workers : Ordered(w, received', events', IF w = s THEN sent[w] ELSE Accepted(w))
      BY <2>1, <2>2 DEF ReportsInv
    <2> QED BY <2>1, <2>3, <2>4, DoneReports
  <1>5. ASSUME NEW s \in Senders, Arm(s) \/ Await(s) PROVE ReportsInv'
    <2>1. UNCHANGED <<events, received, outgoing, sent>>
      BY <1>5 DEF Arm, Await
    <2>2. \A t \in Senders : pc'[t] = "idle" <=> pc[t] = "idle"
      BY <1>0, <1>5, Distinct DEF Arm, Await, Full, InLock, Poll, Woken
    <2> QED BY <2>1, <2>2, QuietReports DEF ReportsInv
  <1>6. CASE Pop
    <2>1. /\ UNCHANGED <<outgoing, sent>> /\ events # <<>> /\ events' = Tail(events)
          /\ received' = IF Head(events).kind = "Tick" THEN received ELSE Append(received, Head(events))
      BY <1>6 DEF Pop
    <2>2. \A s \in Senders : pc'[s] = "idle" <=> pc[s] = "idle"
      BY <1>0, <1>6, Distinct DEF Pop
    <2>3. \A w \in Workers : Ordered(w, received', events', Accepted(w))
      BY <1>0, <2>1, OrderedTake DEF ReportsInv
    <2> QED BY <2>1, <2>2, <2>3, QuietReports
  <1>7. CASE NotifyWaiters \/ FindEmpty \/ AwaitEvent
    <2>1. UNCHANGED <<events, received, outgoing, sent>>
      BY <1>7 DEF NotifyWaiters, FindEmpty, AwaitEvent
    <2>2. \A s \in Senders : pc'[s] = "idle" <=> pc[s] = "idle"
      BY <1>0, <1>7, Distinct DEF NotifyWaiters, FindEmpty, AwaitEvent, Poll, Woken
    <2> QED BY <2>1, <2>2, QuietReports DEF ReportsInv
  <1>8. CASE UNCHANGED vars
    BY <1>8, QuietReports DEF vars, ReportsInv
  <1> QED BY <1>1, <1>2, <1>3, <1>4, <1>5, <1>6, <1>7, <1>8 DEF Next, Receive, Deliver

\* Numbered 1 to k, in order, in both sequences, is numbered so in their concatenation.
LEMMA OrderedArrives ==
    ASSUME NEW w, NEW rs \in Seq(Event), NEW es \in Seq(Event), NEW k \in Nat, Ordered(w, rs, es, k)
    PROVE  LET arriving == rs \o es
               mine == {i \in DOMAIN arriving : arriving[i].from = w}
           IN  /\ {arriving[i].n : i \in mine} = 1..k
               /\ \A i, j \in mine : i < j => arriving[i].n < arriving[j].n
  <1> DEFINE arriving == rs \o es
             mine == {i \in DOMAIN arriving : arriving[i].from = w}
  <1>1. /\ Len(rs) \in Nat /\ Len(es) \in Nat
        /\ DOMAIN arriving = 1..(Len(rs) + Len(es))
        /\ \A i \in 1..Len(rs) : arriving[i] = rs[i]
        /\ \A i \in (Len(rs) + 1)..(Len(rs) + Len(es)) : arriving[i] = es[i - Len(rs)]
    BY ConcatProperties, LenProperties
  <1> HIDE DEF arriving
  <1>2. \A i \in DOMAIN arriving : i \in 1..Len(rs) \/ i - Len(rs) \in 1..Len(es)
    BY <1>1
  <1>3. \A i \in DOMAIN arriving : /\ i \in 1..Len(rs) => arriving[i] = rs[i]
                                   /\ i \notin 1..Len(rs) => /\ i - Len(rs) \in 1..Len(es)
                                                             /\ arriving[i] = es[i - Len(rs)]
    BY <1>1, <1>2
  <1>4. \A i \in mine : arriving[i].n \in 1..k
    BY <1>3 DEF Ordered
  <1>5. ASSUME NEW n \in 1..k PROVE \E i \in mine : arriving[i].n = n
    <2>1. CASE \E i \in 1..Len(rs) : rs[i].from = w /\ rs[i].n = n
      <3>1. PICK i \in 1..Len(rs) : rs[i].from = w /\ rs[i].n = n
        BY <2>1
      <3>2. i \in DOMAIN arriving /\ arriving[i] = rs[i]
        BY <1>1
      <3> QED BY <3>1, <3>2
    <2>2. CASE \E i \in 1..Len(es) : es[i].from = w /\ es[i].n = n
      <3>1. PICK i \in 1..Len(es) : es[i].from = w /\ es[i].n = n
        BY <2>2
      <3>2. i + Len(rs) \in DOMAIN arriving /\ arriving[i + Len(rs)] = es[i]
        BY <1>1, SMTT(30)
      <3> QED BY <3>1, <3>2
    <2> QED BY <2>1, <2>2 DEF Ordered
  <1>6. ASSUME NEW i \in mine, NEW j \in mine, i < j PROVE arriving[i].n < arriving[j].n
    <2>0. i \in DOMAIN arriving /\ j \in DOMAIN arriving /\ arriving[i].from = w /\ arriving[j].from = w
      OBVIOUS
    <2>1. CASE i \in 1..Len(rs) /\ j \in 1..Len(rs)
      BY <1>3, <1>6, <2>0, <2>1 DEF Ordered
    <2>2. CASE i \in 1..Len(rs) /\ j \notin 1..Len(rs)
      BY <1>3, <2>0, <2>2 DEF Ordered
    <2>3. CASE i \notin 1..Len(rs)
      <3>1. j \notin 1..Len(rs)
        BY <1>1, <1>6, <2>0, <2>3
      <3>2. /\ i - Len(rs) \in 1..Len(es) /\ arriving[i] = es[i - Len(rs)]
            /\ j - Len(rs) \in 1..Len(es) /\ arriving[j] = es[j - Len(rs)]
        BY <1>3, <2>0, <2>3, <3>1
      <3>3. i - Len(rs) < j - Len(rs)
        BY <1>1, <1>6, <2>0
      <3> QED BY <2>0, <3>2, <3>3 DEF Ordered
    <2> QED BY <2>1, <2>2, <2>3
  <1>7. {arriving[i].n : i \in mine} = 1..k
    BY <1>4, <1>5
  <1> QED BY <1>6, <1>7 DEF arriving

\* send and recv: whatever the backpressure, the reports of each worker reach the
\* run loop each once and in the order they were sent.
THEOREM ReportsArriveOnce == Spec => []WorkerEventsArriveOnce
  <1>1. Init => ReportsInv
    <2> SUFFICES ASSUME Init PROVE ReportsInv
      OBVIOUS
    <2>1. \A s \in Senders : pc[s] = "idle" /\ sent[s] = 0
      BY Distinct DEF Init
    <2>2. \A w \in Workers : Accepted(w) = 0
      BY <2>1, WorkersSend DEF Accepted
    <2>3. received = <<>> /\ events = <<>> /\ Len(received) = 0 /\ Len(events) = 0
      BY DEF Init
    <2>4. \A w \in Workers : Ordered(w, received, events, Accepted(w))
      BY <2>2, <2>3 DEF Ordered
    <2> QED BY <2>1, <2>4, WorkersSend DEF ReportsInv, SendersOwn
  <1>2. Spec => [](IInv /\ ReportsInv)
    <2>1. Init => IInv /\ ReportsInv
      BY <1>1, InitInv
    <2>2. IInv /\ ReportsInv /\ [Next]_vars => IInv' /\ ReportsInv'
      BY NextInv, ReportsStep
    <2> QED BY <2>1, <2>2, PTL DEF Spec
  <1>3. ASSUME IInv, ReportsInv PROVE WorkerEventsArriveOnce
    <2> SUFFICES ASSUME NEW w \in Workers
                 PROVE  LET arriving == received \o events
                            mine == {i \in DOMAIN arriving : arriving[i].from = w}
                        IN  /\ {arriving[i].n : i \in mine} = 1..Accepted(w)
                            /\ \A i, j \in mine : i < j => arriving[i].n < arriving[j].n
      BY DEF WorkerEventsArriveOnce
    <2>1. events \in Seq(Event) /\ received \in Seq(Event) /\ Ordered(w, received, events, Accepted(w))
      BY <1>3 DEF IInv, TypeOK, ReportsInv
    <2>2. Accepted(w) \in Nat
      BY <1>3, WorkersSend DEF IInv, TypeOK, ReportsInv, SendersOwn, Accepted
    <2> QED BY <2>1, <2>2, OrderedArrives
  <1> QED BY <1>2, <1>3, PTL

-----------------------------------------------------------------------------
(* ActivityLogs: the inductive invariant *)

SpareFields == {"acts", "kinds", "hours", "faults", "typed", "sieves", "flows", "events"}
IsAudit(a) == a = [state |-> a.state, list |-> a.list, at |-> a.at]
IsSnapshot(s) == s = [window |-> s.window, messages |-> s.messages, filter |-> s.filter, count |-> s.count, rows |-> s.rows]

LogsTypeOK ==
    /\ readGen \in Nat
    /\ DOMAIN spare = SpareFields
    /\ IsAudit(audit)
    /\ DOMAIN shelved = Tenants /\ \A t \in Tenants : IsAudit(shelved[t])
    /\ flows = NoFlows \/ (flows = <<flows[1]>> /\ IsSnapshot(flows[1]))

\* The read that is current was sent for what was asked last, and for the days chosen.
ReadFits(read) ==
    /\ read.gen \in Nat /\ read.gen <= readGen
    /\ read.gen = readGen /\ read.kind = "flows" =>
          asked # <<>> /\ asked[1].tenant = read.tenant /\ asked[1].window = read.window
    /\ read.gen = readGen /\ read.kind = "audit" => read.days = days

ReadsFit == \A read \in fetches : ReadFits(read)
FilterIsAsked == asked # <<>> => asked[1].filter = narrowed

LogsInv == LogsTypeOK /\ ReadsFit /\ FilterIsAsked /\ FlowsAreThose /\ AuditIsOfItsWindow

LEMMA LogsBegin == LogsInit => LogsInv
PROOF
  <1> SUFFICES ASSUME LogsInit PROVE LogsInv
    OBVIOUS
  <1>1. DOMAIN spare = SpareFields
    BY LogAssumption DEF LogsInit, SpareFields
  <1>2. IsAudit(NoAudit) /\ NoAudit.state = "none"
    BY DEF IsAudit, NoAudit
  <1>3. LogsTypeOK
    BY <1>1, <1>2 DEF LogsInit, LogsTypeOK
  <1> QED BY <1>2, <1>3 DEF LogsInit, LogsInv, ReadsFit, FilterIsAsked, FlowsAreThose, AuditIsOfItsWindow

\* What the tailnets have logged stays as it is.
LEMMA SpareUsed ==
    ASSUME DOMAIN spare = SpareFields, spare' = spare \/ \E what \in {"acts", "hours", "faults"} : Use(what)
    PROVE  /\ DOMAIN spare' = SpareFields /\ spare'.flows = spare.flows /\ spare'.events = spare.events
           /\ \A t, w : FlowsOf(t, w)' = FlowsOf(t, w)
           /\ \A t, number, at : EventsOf(t, number, at)' = EventsOf(t, number, at)
PROOF
  <1>1. DOMAIN spare' = SpareFields /\ spare'.flows = spare.flows /\ spare'.events = spare.events
    BY DEF Use, SpareFields
  <1> QED BY <1>1 DEF FlowsOf, EventsOf

LEMMA LogsSpare ==
    ASSUME LogsInv, [LogsNext]_logVars
    PROVE  /\ DOMAIN spare' = SpareFields
           /\ \A t, w : FlowsOf(t, w)' = FlowsOf(t, w)
           /\ \A t, number, at : EventsOf(t, number, at)' = EventsOf(t, number, at)
PROOF
  <1>1. spare' = spare \/ \E what \in {"acts", "hours", "faults"} : Use(what)
    BY DEF LogsNext, logVars, HourPasses, OpenWindowForm, AcceptWindowForm, Leave, SelectDays, RefreshLogs, OpenAuditForm,
           AcceptAuditForm, SwitchTenant, Outrun, FlowsArrive, AuditArrives, StartTally, TallyEnds, ReviewExport,
           ConfirmExport, Does
  <1> QED BY <1>1, SpareUsed DEF LogsInv, LogsTypeOK

\* A step that leaves the reads, what is shown and what was asked as they are.
LEMMA LogsStill ==
    ASSUME LogsInv, [LogsNext]_logVars,
           UNCHANGED <<tenant, readGen, narrowed, flows, days, audit, shelved, asked>>, fetches' \subseteq fetches
    PROVE  LogsInv'
PROOF
  <1>1. LogsTypeOK'
    BY LogsSpare DEF LogsInv, LogsTypeOK
  <1>2. ReadsFit' /\ FilterIsAsked'
    BY DEF LogsInv, ReadsFit, ReadFits, FilterIsAsked
  <1>3. FlowsAreThose' /\ AuditIsOfItsWindow'
    BY LogsSpare DEF LogsInv, FlowsAreThose, AuditIsOfItsWindow
  <1> QED BY <1>1, <1>2, <1>3 DEF LogsInv

\* A read that is started is of a generation of its own, and the only one that is current.
LEMMA FetchStarted ==
    ASSUME LogsInv, NEW kind, NEW t, NEW w, NEW number, StartFetch(kind, t, w, number),
           kind = "flows" => asked' # <<>> /\ asked'[1].tenant = t /\ asked'[1].window = w,
           kind = "audit" => number = days'
    PROVE  ReadsFit' /\ readGen' \in Nat
PROOF
  <1>1. readGen \in Nat /\ readGen' = readGen + 1
    BY DEF LogsInv, LogsTypeOK, StartFetch
  <1>2. ASSUME NEW read \in fetches
        PROVE  ReadFits(read)'
    BY <1>1, <1>2 DEF LogsInv, ReadsFit, ReadFits
  <1>3. PICK begun : begun = [gen |-> readGen + 1, kind |-> kind, tenant |-> t, window |-> w, days |-> number, at |-> hour]
    OBVIOUS
  <1>4. fetches' = fetches \cup {begun}
    BY <1>3 DEF StartFetch
  <1>5. begun.gen = readGen + 1 /\ begun.kind = kind /\ begun.tenant = t /\ begun.window = w /\ begun.days = number
    BY <1>3
  <1>6. ReadFits(begun)'
    BY <1>1, <1>5 DEF ReadFits
  <1> QED BY <1>1, <1>2, <1>4, <1>6 DEF ReadsFit

LEMMA AuditLoading ==
    ASSUME NEW a, IsAudit(a), NEW word
    PROVE  LET b == [a EXCEPT !.state = word] IN
           IsAudit(b) /\ b.state = word /\ b.list = a.list /\ b.at = a.at
BY DEF IsAudit

LEMMA LogsStep ==
    ASSUME LogsInv, [LogsNext]_logVars
    PROVE  LogsInv'
PROOF
  <1> USE DEF Windows, Audits
  <1>1. CASE UNCHANGED logVars
    BY <1>1, LogsStill DEF logVars
  <1>2. CASE HourPasses \/ OpenWindowForm \/ Leave \/ OpenAuditForm \/ AcceptAuditForm \/ StartTally \/ ConfirmExport
             \/ (\E collection \in {"flows", "audit"} : ReviewExport(collection)) \/ \E read \in fetches : Outrun(read)
    BY <1>2, LogsStill DEF HourPasses, OpenWindowForm, Leave, OpenAuditForm, AcceptAuditForm, StartTally, ConfirmExport,
           ReviewExport, Outrun
  <1>3. CASE AcceptWindowForm
    <2>1. PICK w, f :
            /\ narrowed' = f /\ StartFetch("flows", tenant, w, 0)
            /\ asked' = <<[tenant |-> tenant, window |-> w, filter |-> f]>>
      BY <1>3 DEF AcceptWindowForm
    <2>2. flows' = NoFlows /\ UNCHANGED <<tenant, days, audit, shelved>>
      BY <1>3 DEF AcceptWindowForm
    <2>3. asked' # <<>> /\ asked'[1].tenant = tenant /\ asked'[1].window = w /\ asked'[1].filter = narrowed'
      BY <2>1
    <2>4. ReadsFit' /\ readGen' \in Nat
      BY <2>1, <2>3, FetchStarted
    <2>5. LogsTypeOK'
      BY <2>2, <2>4, LogsSpare DEF LogsInv, LogsTypeOK
    <2>6. FilterIsAsked' /\ FlowsAreThose' /\ AuditIsOfItsWindow'
      BY <2>2, <2>3, LogsSpare DEF LogsInv, FilterIsAsked, FlowsAreThose, AuditIsOfItsWindow
    <2> QED BY <2>4, <2>5, <2>6 DEF LogsInv
  <1>4. CASE SelectDays \/ RefreshLogs
    <2>1. /\ audit' = [audit EXCEPT !.state = "loading"] /\ StartFetch("audit", tenant, <<0, 0>>, days')
          /\ UNCHANGED <<tenant, narrowed, flows, asked, shelved>>
      BY <1>4 DEF SelectDays, RefreshLogs
    <2>2. ReadsFit' /\ readGen' \in Nat
      BY <2>1, FetchStarted
    <2>3. IsAudit(audit') /\ audit'.state = "loading"
      BY <2>1, AuditLoading DEF LogsInv, LogsTypeOK
    <2>4. LogsTypeOK'
      BY <2>1, <2>2, <2>3, LogsSpare DEF LogsInv, LogsTypeOK
    <2>5. FilterIsAsked' /\ FlowsAreThose' /\ AuditIsOfItsWindow'
      BY <2>1, <2>3, LogsSpare DEF LogsInv, FilterIsAsked, FlowsAreThose, AuditIsOfItsWindow
    <2> QED BY <2>2, <2>4, <2>5 DEF LogsInv
  <1>5. ASSUME NEW t \in Tenants, SwitchTenant(t)
        PROVE  LogsInv'
    <2>1. /\ audit' = [shelved[t] EXCEPT !.state = "loading"] /\ StartFetch("audit", t, <<0, 0>>, days)
          /\ shelved' = [shelved EXCEPT ![tenant] = audit] /\ flows' = NoFlows
          /\ UNCHANGED <<narrowed, asked, days>>
      BY <1>5 DEF SwitchTenant
    <2>2. ReadsFit' /\ readGen' \in Nat
      BY <2>1, FetchStarted
    <2>3. IsAudit(audit') /\ audit'.state = "loading"
      BY <2>1, AuditLoading DEF LogsInv, LogsTypeOK
    <2>4. DOMAIN shelved' = Tenants /\ \A u \in Tenants : IsAudit(shelved'[u])
      BY <2>1 DEF LogsInv, LogsTypeOK
    <2>5. LogsTypeOK'
      BY <2>1, <2>2, <2>3, <2>4, LogsSpare DEF LogsTypeOK
    <2>6. FilterIsAsked' /\ FlowsAreThose' /\ AuditIsOfItsWindow'
      BY <2>1, <2>3 DEF LogsInv, FilterIsAsked, FlowsAreThose, AuditIsOfItsWindow
    <2> QED BY <2>2, <2>5, <2>6 DEF LogsInv
  <1>6. ASSUME NEW read \in fetches, FlowsArrive(read)
        PROVE  LogsInv'
    <2>1. /\ Current(read) /\ read.kind = "flows" /\ fetches' = fetches \ {read}
          /\ UNCHANGED <<tenant, readGen, narrowed, asked, days, audit, shelved>>
          /\ flows' = NoFlows \/ flows' = FlowSnapshot(read.window, FlowsOf(read.tenant, read.window), narrowed)
      BY <1>6 DEF FlowsArrive
    <2>2. /\ asked # <<>> /\ asked[1].tenant = read.tenant /\ asked[1].window = read.window /\ asked[1].filter = narrowed
          /\ read.tenant = tenant
      BY <2>1 DEF LogsInv, ReadsFit, ReadFits, Current, FilterIsAsked
    <2>3. ReadsFit' /\ FilterIsAsked'
      BY <2>1 DEF LogsInv, ReadsFit, ReadFits, FilterIsAsked
    <2>4. CASE flows' = NoFlows
      BY <2>1, <2>3, <2>4, LogsSpare DEF LogsInv, LogsTypeOK, FlowsAreThose, AuditIsOfItsWindow
    <2>5. CASE flows' = FlowSnapshot(read.window, FlowsOf(read.tenant, read.window), narrowed)
      <3>1. /\ flows' = <<flows'[1]>> /\ IsSnapshot(flows'[1])
            /\ flows'[1].window = read.window /\ flows'[1].filter = narrowed
            /\ flows'[1].messages = FlowsOf(read.tenant, read.window)
        BY <2>5 DEF FlowSnapshot, IsSnapshot
      <3>2. LogsTypeOK'
        BY <2>1, <3>1, LogsSpare DEF LogsInv, LogsTypeOK
      <3>3. FlowsAreThose'
        BY <2>1, <2>2, <3>1, LogsSpare DEF FlowsAreThose
      <3>4. AuditIsOfItsWindow'
        BY <2>1, LogsSpare DEF LogsInv, AuditIsOfItsWindow
      <3> QED BY <2>3, <3>2, <3>3, <3>4 DEF LogsInv
    <2> QED BY <2>1, <2>4, <2>5
  <1>7. ASSUME NEW read \in fetches, AuditArrives(read)
        PROVE  LogsInv'
    <2>1. /\ Current(read) /\ read.kind = "audit" /\ fetches' = fetches \ {read}
          /\ UNCHANGED <<tenant, readGen, narrowed, flows, asked, days, shelved>>
          /\ \/ audit' = [state |-> "ready", list |-> EventsOf(read.tenant, read.days, read.at), at |-> read.at]
             \/ \E word \in {"failed", "stale"} : audit' = [audit EXCEPT !.state = word]
      BY <1>7 DEF AuditArrives
    <2>2. read.days = days /\ read.tenant = tenant
      BY <2>1 DEF LogsInv, ReadsFit, ReadFits, Current
    <2>3. ReadsFit' /\ FilterIsAsked'
      BY <2>1 DEF LogsInv, ReadsFit, ReadFits, FilterIsAsked
    <2>4. IsAudit(audit') /\ AuditIsOfItsWindow'
      <3>1. CASE audit' = [state |-> "ready", list |-> EventsOf(read.tenant, read.days, read.at), at |-> read.at]
        BY <2>1, <2>2, <3>1, LogsSpare DEF IsAudit, AuditIsOfItsWindow
      <3>2. CASE \E word \in {"failed", "stale"} : audit' = [audit EXCEPT !.state = word]
        <4>1. IsAudit(audit') /\ audit'.state \in {"failed", "stale"}
          BY <3>2, AuditLoading DEF LogsInv, LogsTypeOK
        <4> QED BY <4>1 DEF AuditIsOfItsWindow
      <3> QED BY <2>1, <3>1, <3>2
    <2>5. LogsTypeOK' /\ FlowsAreThose'
      BY <2>1, <2>4, LogsSpare DEF LogsInv, LogsTypeOK, FlowsAreThose
    <2> QED BY <2>3, <2>4, <2>5 DEF LogsInv
  <1>8. ASSUME NEW job \in tallies, TallyEnds(job)
        PROVE  LogsInv'
    <2>1. /\ UNCHANGED <<tenant, readGen, fetches, narrowed, asked, days, audit, shelved>>
          /\ \/ flows' = flows
             \/ flows # NoFlows /\ \E rows : flows' = <<[flows[1] EXCEPT !.rows = rows]>>
      BY <1>8 DEF TallyEnds
    <2>2. CASE flows' = flows
      BY <2>1, <2>2, LogsStill
    <2>3. CASE flows # NoFlows /\ \E rows : flows' = <<[flows[1] EXCEPT !.rows = rows]>>
      <3>1. PICK rows : flows' = <<[flows[1] EXCEPT !.rows = rows]>>
        BY <2>3
      <3>2. IsSnapshot(flows[1])
        BY <2>3 DEF LogsInv, LogsTypeOK
      <3>3. /\ flows' = <<flows'[1]>> /\ IsSnapshot(flows'[1])
            /\ flows'[1].window = flows[1].window /\ flows'[1].filter = flows[1].filter
            /\ flows'[1].messages = flows[1].messages
        BY <3>1, <3>2 DEF IsSnapshot
      <3>4. LogsTypeOK'
        BY <2>1, <3>3, LogsSpare DEF LogsInv, LogsTypeOK
      <3>5. ReadsFit' /\ FilterIsAsked'
        BY <2>1 DEF LogsInv, ReadsFit, ReadFits, FilterIsAsked
      <3>6. FlowsAreThose' /\ AuditIsOfItsWindow'
        BY <2>1, <2>3, <3>3, LogsSpare DEF LogsInv, FlowsAreThose, AuditIsOfItsWindow
      <3> QED BY <3>4, <3>5, <3>6 DEF LogsInv
    <2> QED BY <2>1, <2>2, <2>3
  <1> QED BY <1>1, <1>2, <1>3, <1>4, <1>5, <1>6, <1>7, <1>8 DEF LogsNext

\* Two of the four parts of LogsAreAsAsked, for any tenants, windows, filters,
\* messages and events, and any number of questions, refreshes, switches and
\* faults: the flows on screen are those of the window, the filter and the
\* profile asked for last, and an audit log shown as up to date is of the days
\* chosen and of the active profile, however the answers arrive
\* (accept_flow_window_form, start_admin_refresh, set_admin_profile).
THEOREM LogsAreThose == LogsSpec => [](FlowsAreThose /\ AuditIsOfItsWindow)
PROOF
  <1>1. LogsInv /\ [LogsNext]_logVars => LogsInv'
    BY LogsStep
  <1>2. LogsInv => FlowsAreThose /\ AuditIsOfItsWindow
    BY DEF LogsInv
  <1> QED BY <1>1, <1>2, LogsBegin, PTL DEF LogsSpec

=============================================================================
