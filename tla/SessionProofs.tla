--------------------------- MODULE SessionProofs ---------------------------
(***************************************************************************)
(* Proofs about components that the session of MCSession composes.         *)
(* LocalObserver: type correctness, and that no change of the daemon's     *)
(* state is missed, for any number of changes, reads, failures and         *)
(* reconnections in any order.  PrivateFiles: type correctness, and that   *)
(* files are whole and operations did what the user was told, for any      *)
(* number of processes, operations, faults and deaths.  ActionDialogs:     *)
(* type correctness, and that every effect is the one its review showed,   *)
(* for any number of keys, switches, refreshes and losses of the daemon.   *)
(* LocalServices: type correctness, and that a list shown as ready is the  *)
(* one that is served, for any number of tasks, refreshes, faults and      *)
(* changes from outside.  ServiceRequests: type correctness, and that a    *)
(* service task does what its review showed, however the lists and the     *)
(* services change between the review, the command and the reading back.   *)
(***************************************************************************)
EXTENDS LocalObserver, PrivateFiles, ActionDialogs, LocalServices, ServiceRequests, SequenceTheorems, TLAPS

-----------------------------------------------------------------------------
(* Lists of events *)

LEMMA BoxAppended ==
    ASSUME NEW box \in Seq(LocalEvents), NEW e \in LocalEvents
    PROVE  /\ box \o <<e>> \in Seq(LocalEvents)
           /\ DOMAIN box = 1..Len(box)
           /\ DOMAIN (box \o <<e>>) = 1..(Len(box) + 1)
           /\ Len(box) \in Nat
           /\ \A i \in 1..Len(box) : (box \o <<e>>)[i] = box[i]
           /\ (box \o <<e>>)[Len(box) + 1] = e
OBVIOUS

LEMMA BoxTwice ==
    ASSUME NEW box \in Seq(LocalEvents), NEW d \in LocalEvents, NEW e \in LocalEvents
    PROVE  box \o <<d, e>> = (box \o <<d>>) \o <<e>>
<1>1. <<d>> \in Seq(LocalEvents) /\ <<e>> \in Seq(LocalEvents) /\ <<d, e>> \in Seq(LocalEvents)
  OBVIOUS
<1>2. /\ <<d>> \o <<e>> \in Seq(LocalEvents)
      /\ Len(<<d>> \o <<e>>) = 2
      /\ (<<d>> \o <<e>>)[1] = d /\ (<<d>> \o <<e>>)[2] = e
  BY <1>1
<1>3. \A i \in 1..Len(<<d, e>>) : <<d, e>>[i] = (<<d>> \o <<e>>)[i]
  BY <1>2
<1>4. <<d, e>> = <<d>> \o <<e>>
  BY <1>1, <1>2, <1>3, SeqEqual
<1> QED
  BY <1>1, <1>4, ConcatAssociative

LEMMA BoxTail ==
    ASSUME NEW box \in Seq(LocalEvents), box # <<>>
    PROVE  /\ Tail(box) \in Seq(LocalEvents)
           /\ Head(box) \in LocalEvents /\ Head(box) = box[1]
           /\ Len(box) \in Nat /\ Len(box) > 0
           /\ DOMAIN box = 1..Len(box)
           /\ DOMAIN Tail(box) = 1..(Len(box) - 1)
           /\ \A i \in 1..(Len(box) - 1) : Tail(box)[i] = box[i + 1]
OBVIOUS

LEMMA Reserved ==
    ASSUME counter \in Nat, NEW minimum \in Nat
    PROVE  /\ Reserve(minimum) \in Nat /\ Reserve(minimum) > counter /\ Reserve(minimum) >= minimum
           /\ minimum <= counter + 1 => Reserve(minimum) = counter + 1
BY DEF Reserve, Highest

-----------------------------------------------------------------------------
(* Type correctness *)

LEMMA AllowanceSpent ==
    ASSUME NEW what \in {"changes", "ends", "faults", "refreshes", "mutations", "reconciles"},
           left \in LocalAllowances, Spend(what)
    PROVE  left' \in LocalAllowances
BY DEF LocalAllowances, Spend

LEMMA ReadSteps ==
    /\ NoRead \in LocalReads /\ NoRead.step = "none" /\ NoRead.gen = 0
    /\ \A r \in LocalReads, s \in {"none", "queued", "reading", "read", "failed"} : [r EXCEPT !.step = s] \in LocalReads
    /\ \A r \in LocalReads, d \in [ver : Nat, up : BOOLEAN] : [r EXCEPT !.step = "read", !.seen = d] \in LocalReads
<1>1. NoRead.seen \in [ver : Nat, up : BOOLEAN]
  BY DEF NoRead
<1> QED
  BY <1>1 DEF NoRead, LocalReads

LEMMA StepKeeps ==
    ASSUME NEW r \in LocalReads, NEW s
    PROVE  [r EXCEPT !.step = s].gen = r.gen /\ [r EXCEPT !.step = s].step = s
BY DEF LocalReads

LEMMA NoReadIsOld ==
    ASSUME counter \in Nat
    PROVE  NoRead.gen <= counter
<1>1. NoRead.gen = 0
  BY DEF NoRead
<1> QED
  BY <1>1

LEMMA BeginTypes ==
    ASSUME LocalTypeOK, NEW t \in Tasks, NEW gen \in Nat, ReadBegins(t, gen)
    PROVE  reads' \in [Tasks -> LocalReads]
BY DEF LocalTypeOK, ReadBegins, LocalReads, NoRead

LEMMA SendTypes ==
    ASSUME LocalTypeOK, NEW t \in Tasks, NEW events \in Seq(LocalEvents), Send(t, events)
    PROVE  outbox' \in [Tasks -> Seq(LocalEvents)]
<1>1. outbox[t] \o events \in Seq(LocalEvents)
  BY DEF LocalTypeOK
<1> QED
  BY <1>1 DEF LocalTypeOK, Send

LEMMA EventTypes ==
    ASSUME NEW kind \in {"Connected", "Disconnected", "Started", "Succeeded", "Failed"}, NEW gen \in Nat, NEW ver \in Nat
    PROVE  /\ Event(kind, gen, ver) \in LocalEvents
           /\ Event(kind, gen, ver).kind = kind
           /\ Event(kind, gen, ver).gen = gen
           /\ Event(kind, gen, ver).ver = ver
BY DEF Event, LocalEvents

LEMMA StartTypes ==
    ASSUME NEW gen \in Nat
    PROVE  /\ Event("Started", gen, Nothing) \in LocalEvents
           /\ <<Event("Started", gen, Nothing)>> \in Seq(LocalEvents)
           /\ <<Event("Connected", 0, Nothing), Event("Started", gen, Nothing)>> \in Seq(LocalEvents)
           /\ <<Event("Disconnected", 0, Nothing)>> \in Seq(LocalEvents)
           /\ Append(<<>>, Event("Started", gen, Nothing)) = <<Event("Started", gen, Nothing)>>
BY DEF Event, LocalEvents, Nothing

LEMMA AnswerTypes ==
    ASSUME LocalTypeOK, NEW t \in Tasks
    PROVE  /\ Answered(t) \in LocalEvents
           /\ Answered(t).gen = reads[t].gen /\ Answered(t).ver = reads[t].seen.ver
           /\ Answered(t).kind = IF reads[t].step = "read" THEN "Succeeded" ELSE "Failed"
<1>1. reads[t] \in LocalReads
  BY DEF LocalTypeOK
<1> QED
  BY <1>1 DEF Answered, Event, LocalEvents, LocalReads

\* The steps of the observer.
LEMMA ObserverTypes ==
    ASSUME LocalTypeOK, Observe \/ StreamEnds \/ Reconcile
    PROVE  LocalTypeOK'
<1> USE DEF Tasks
<1>0. /\ Reserve(0) \in Nat
      /\ \A e \in LocalEvents : <<e>> \in Seq(LocalEvents)
      /\ \A d \in LocalEvents, e \in LocalEvents : <<d, e>> \in Seq(LocalEvents)
      /\ <<>> \in Seq(LocalEvents)
  <2>1. Reserve(0) \in Nat
    BY Reserved DEF LocalTypeOK
  <2>2. /\ \A e \in LocalEvents : <<e>> \in Seq(LocalEvents)
        /\ \A d \in LocalEvents, e \in LocalEvents : <<d, e>> \in Seq(LocalEvents)
        /\ <<>> \in Seq(LocalEvents)
    OBVIOUS
  <2> QED
    BY <2>1, <2>2
<1>1. Event("Started", Reserve(0), Nothing) \in LocalEvents
  BY <1>0 DEF Event, LocalEvents, Nothing
<1>2. CASE Connect
  <2>1. counter' \in Nat /\ left' \in LocalAllowances
    BY <1>2, <1>0, AllowanceSpent DEF Connect, LocalTypeOK
  <2>2. reads' \in [Tasks -> LocalReads]
    BY <1>2, <1>0, BeginTypes DEF Connect, LocalTypeOK
  <2>3. outbox' \in [Tasks -> Seq(LocalEvents)]
    BY <1>2, <1>0, StartTypes, SendTypes DEF Connect
  <2> QED
    BY <1>2, <2>1, <2>2, <2>3 DEF Connect, LocalTypeOK
<1>3. CASE Reconnect
  BY <1>3 DEF Reconnect, LocalTypeOK
<1>4. CASE StreamEnds
  <2>1. left' \in LocalAllowances
    BY <1>4, AllowanceSpent DEF StreamEnds, LocalTypeOK
  <2>2. reads' \in [Tasks -> LocalReads]
    BY <1>4, ReadSteps DEF StreamEnds, LocalTypeOK
  <2>3. outbox' \in [Tasks -> Seq(LocalEvents)]
    BY <1>4, <1>0, StartTypes, SendTypes DEF StreamEnds
  <2> QED
    BY <1>4, <2>1, <2>2, <2>3 DEF StreamEnds, LocalTypeOK
<1>5. CASE Notified
  BY <1>5 DEF Notified, Noticed, LocalTypeOK
<1>6. CASE Debounced \/ Reconcile
  <2>0. StartRead(<<>>)
    BY <1>6 DEF Debounced, Reconcile
  <2>1. left' \in LocalAllowances
    BY <1>6, AllowanceSpent DEF Debounced, Reconcile, LocalTypeOK
  <2>2. dirty' \in BOOLEAN /\ counter' \in Nat
    BY <2>0, <1>0 DEF StartRead, LocalTypeOK
  <2>3. reads' \in [Tasks -> LocalReads]
    <3>1. CASE Observing
      BY <2>0, <3>1 DEF StartRead, LocalTypeOK
    <3>2. CASE ~Observing
      BY <2>0, <3>2, <1>0, BeginTypes DEF StartRead
    <3> QED
      BY <3>1, <3>2
  <2>4. outbox' \in [Tasks -> Seq(LocalEvents)]
    <3>1. CASE Observing
      BY <2>0, <3>1, <1>0, SendTypes DEF StartRead
    <3>2. CASE ~Observing
      BY <2>0, <3>2, <1>0, StartTypes, SendTypes DEF StartRead
    <3> QED
      BY <3>1, <3>2
  <2> QED
    BY <1>6, <2>1, <2>2, <2>3, <2>4 DEF Debounced, Reconcile, LocalTypeOK
<1>7. CASE Joined
  <2>0. Answered("observer") \in LocalEvents
    BY AnswerTypes
  <2>1. CASE dirty
    <3>1. counter' \in Nat /\ reads' \in [Tasks -> LocalReads]
      BY <1>7, <2>1, <1>0, BeginTypes DEF Joined
    <3>2. outbox' \in [Tasks -> Seq(LocalEvents)]
      BY <1>7, <2>1, <2>0, <1>0, <1>1, SendTypes DEF Joined
    <3> QED
      BY <1>7, <3>1, <3>2 DEF Joined, LocalTypeOK
  <2>2. CASE ~dirty
    <3>1. counter' \in Nat /\ reads' \in [Tasks -> LocalReads]
      BY <1>7, <2>2, ReadSteps DEF Joined, LocalTypeOK
    <3>2. outbox' \in [Tasks -> Seq(LocalEvents)]
      BY <1>7, <2>2, <2>0, <1>0, SendTypes DEF Joined
    <3> QED
      BY <1>7, <3>1, <3>2 DEF Joined, LocalTypeOK
  <2> QED
    BY <2>1, <2>2
<1> QED
  BY <1>2, <1>3, <1>4, <1>5, <1>6, <1>7 DEF Observe

\* The reads themselves, the user's refresh, and the run loop's handler.
LEMMA ReadTypes ==
    ASSUME LocalTypeOK, NEW t \in Tasks,
           ReadLocked(t) \/ ReadAnswers(t) \/ HandleLocal(t) \/ StartRefresh \/ RefreshRead
    PROVE  LocalTypeOK'
<1> USE DEF Tasks
<1>0. /\ \A e \in LocalEvents : <<e>> \in Seq(LocalEvents)
      /\ \A u \in Tasks : Answered(u) \in LocalEvents
  BY AnswerTypes
<1>1. CASE ReadLocked(t)
  BY <1>1, ReadSteps DEF ReadLocked, LocalTypeOK
<1>2. CASE ReadAnswers(t)
  <2>1. left' \in LocalAllowances
    BY <1>2, AllowanceSpent DEF ReadAnswers, LocalTypeOK
  <2>2. reads' \in [Tasks -> LocalReads]
    <3>1. reads[t] \in LocalReads /\ DOMAIN reads = Tasks
      BY DEF LocalTypeOK
    <3>2. /\ \A u \in Tasks \ {t} : reads'[u] = reads[u]
          /\ \/ reads'[t] = [reads[t] EXCEPT !.step = "read", !.seen = daemon]
             \/ reads'[t] = [reads[t] EXCEPT !.step = "failed"]
          /\ reads' = [u \in Tasks |-> reads'[u]]
      BY <1>2, <3>1 DEF ReadAnswers
    <3>3. daemon \in [ver : Nat, up : BOOLEAN]
      BY DEF LocalTypeOK
    <3>4. [reads[t] EXCEPT !.step = "read", !.seen = daemon] \in LocalReads
      BY <3>1, <3>3, ReadSteps
    <3>5. [reads[t] EXCEPT !.step = "failed"] \in LocalReads
      BY <3>1, ReadSteps
    <3>6. reads'[t] \in LocalReads
      BY <3>2, <3>4, <3>5
    <3> QED
      BY <3>2, <3>6 DEF LocalTypeOK
  <2> QED
    BY <1>2, <2>1, <2>2 DEF ReadAnswers, LocalTypeOK
<1>3. CASE HandleLocal(t)
  <2> DEFINE e == Head(outbox[t])
  <2>1. outbox[t] \in Seq(LocalEvents) /\ outbox[t] # <<>>
    BY <1>3 DEF HandleLocal, LocalTypeOK
  <2>2. e \in LocalEvents /\ Tail(outbox[t]) \in Seq(LocalEvents)
    BY <2>1, BoxTail
  <2>3. outbox' \in [Tasks -> Seq(LocalEvents)]
    BY <1>3, <2>2 DEF HandleLocal, LocalTypeOK
  <2>4. resource' = Heeded(resource, e)
    BY <1>3 DEF HandleLocal
  <2>5. resource' \in LocalResources
    <3> HIDE DEF e
    <3> QED
      BY <2>2, <2>4 DEF LocalTypeOK, LocalResources, Heeded, Started, Newer, LocalEvents
  <2>6. connected' \in BOOLEAN
    BY <1>3 DEF HandleLocal, LocalTypeOK
  <2> QED
    BY <1>3, <2>3, <2>5, <2>6 DEF HandleLocal, LocalTypeOK
<1>4. CASE StartRefresh
  <2>1. resource.gen + 1 \in Nat /\ Reserve(resource.gen + 1) \in Nat
    <3>1. resource.gen + 1 \in Nat /\ counter \in Nat
      BY DEF LocalTypeOK, LocalResources
    <3> QED
      BY <3>1, Reserved
  <2>2. left' \in LocalAllowances
    BY <1>4, AllowanceSpent DEF StartRefresh, LocalTypeOK
  <2>3. counter' \in Nat /\ reads' \in [Tasks -> LocalReads]
    BY <1>4, <2>1, BeginTypes DEF StartRefresh
  <2>4. outbox' \in [Tasks -> Seq(LocalEvents)]
    BY <1>4, <2>1, StartTypes, SendTypes DEF StartRefresh
  <2>5. resource' \in LocalResources
    BY <1>4, <2>1 DEF StartRefresh, Started, LocalTypeOK, LocalResources
  <2> QED
    BY <1>4, <2>2, <2>3, <2>4, <2>5 DEF StartRefresh, LocalTypeOK
<1>5. CASE RefreshRead
  <2>1. reads' \in [Tasks -> LocalReads]
    BY <1>5, ReadSteps DEF RefreshRead, LocalTypeOK
  <2>2. outbox' \in [Tasks -> Seq(LocalEvents)]
    BY <1>5, <1>0, SendTypes DEF RefreshRead
  <2> QED
    BY <1>5, <2>1, <2>2 DEF RefreshRead, LocalTypeOK
<1> QED
  BY <1>1, <1>2, <1>3, <1>4, <1>5

\* A mutation's fields, one changed at a time.
LEMMA MutationSteps ==
    ASSUME NEW m \in LocalMutations
    PROVE  /\ [m EXCEPT !.cancel = TRUE] \in LocalMutations
           /\ [m EXCEPT !.step = "sent", !.result = "CancelledBeforeDispatch"] \in LocalMutations
           /\ [m EXCEPT !.step = "reading"] \in LocalMutations
           /\ [m EXCEPT !.step = "reading", !.error = "Failed"] \in LocalMutations
           /\ [m EXCEPT !.step = "reading", !.error = "Interrupted", !.cancel = TRUE] \in LocalMutations
BY DEF LocalMutations, Verdicts

LEMMA VerdictTypes ==
    ASSUME NEW m \in LocalMutations, NEW read \in LocalReads
    PROVE  \A r \in Verdicts : [m EXCEPT !.step = "sent", !.answer = read, !.result = r] \in LocalMutations
BY DEF LocalMutations

LEMMA Distinct == NoMutation \notin LocalMutations
<1>1. DOMAIN NoMutation = {"step"}
  BY DEF NoMutation
<1>2. \A m \in LocalMutations : "result" \in DOMAIN m
  BY DEF LocalMutations
<1> QED
  BY <1>1, <1>2

LEMMA FreshTypes ==
    ASSUME NEW res \in LocalResources,
           NEW read \in LocalReads
    PROVE  /\ Invalidated(res) \in LocalResources
           /\ WithFresh(res, read) \in LocalResources
<1>1. read.seen.ver \in Nat
  BY DEF LocalReads
<1> QED
  BY <1>1 DEF Invalidated, WithFresh, Nothing, LocalResources

\* The local mutation.
LEMMA MutationTypes ==
    ASSUME LocalTypeOK, AcceptMutation \/ CancelMutation \/ Mutate \/ DaemonChanges
    PROVE  LocalTypeOK'
<1> USE DEF Tasks
<1>0. mutation # NoMutation => mutation \in LocalMutations
  BY DEF LocalTypeOK
<1>1. CASE AcceptMutation
  <2>1. left' \in LocalAllowances
    BY <1>1, AllowanceSpent DEF AcceptMutation, LocalTypeOK
  <2>2. left.account \in BOOLEAN
    BY DEF LocalTypeOK, LocalAllowances
  <2>3. PICK up \in BOOLEAN :
            mutation' = [step |-> "accepted", up |-> up, account |-> left.account, cancel |-> FALSE,
                         error |-> "none", answer |-> NoRead, result |-> "none"]
    BY <1>1 DEF AcceptMutation
  <2>4. mutation' \in LocalMutations
    BY <2>2, <2>3, ReadSteps DEF LocalMutations
  <2> QED
    BY <1>1, <2>1, <2>4 DEF AcceptMutation, LocalTypeOK
<1>2. CASE CancelMutation \/ NotDispatched
  <2>1. mutation' \in LocalMutations
    BY <1>0, <1>2, MutationSteps DEF CancelMutation, NotDispatched, Mutating
  <2> QED
    BY <1>2, <2>1 DEF CancelMutation, NotDispatched, LocalTypeOK
<1>3. CASE RunCommand
  <2>1. mutation' \in LocalMutations
    BY <1>0, <1>3, MutationSteps DEF RunCommand, Mutating
  <2>2. left' \in LocalAllowances
    BY <1>3, AllowanceSpent DEF RunCommand, LocalTypeOK
  <2>3. mutation.up \in BOOLEAN
    BY <1>0, <1>3 DEF RunCommand, Mutating, LocalMutations
  <2>4. daemon' \in [ver : Nat, up : BOOLEAN] /\ notice' \in BOOLEAN
    <3>1. Changes(mutation.up) \/ UNCHANGED <<daemon, notice>>
      BY <1>3 DEF RunCommand
    <3>2. CASE Changes(mutation.up)
      BY <2>3, <3>2 DEF Changes, LocalTypeOK
    <3>3. CASE UNCHANGED <<daemon, notice>>
      BY <3>3 DEF LocalTypeOK
    <3> QED
      BY <3>1, <3>2, <3>3
  <2>5. counter' \in Nat /\ reads' \in [Tasks -> LocalReads]
    BY <1>3, Reserved, BeginTypes DEF RunCommand, LocalTypeOK
  <2> QED
    BY <1>3, <2>1, <2>2, <2>4, <2>5 DEF RunCommand, LocalTypeOK
<1>4. CASE MutationReadCancelled
  <2>1. reads' \in [Tasks -> LocalReads]
    BY <1>4, ReadSteps DEF MutationReadCancelled, LocalTypeOK
  <2> QED
    BY <1>4, <2>1 DEF MutationReadCancelled, LocalTypeOK
<1>5. CASE MutationRead
  <2>1. reads["mutation"] \in LocalReads
    BY DEF LocalTypeOK
  <2>2. Verdict(reads["mutation"]) \in Verdicts
    BY DEF Verdict, Verdicts
  <2>3. mutation' \in LocalMutations
    BY <1>0, <1>5, <2>1, <2>2, VerdictTypes DEF MutationRead, Mutating
  <2>4. reads' \in [Tasks -> LocalReads]
    BY <1>5, ReadSteps DEF MutationRead, LocalTypeOK
  <2> QED
    BY <1>5, <2>3, <2>4 DEF MutationRead, LocalTypeOK
<1>6. CASE DaemonChanges
  <2>1. left' \in LocalAllowances
    BY <1>6, AllowanceSpent DEF DaemonChanges, LocalTypeOK
  <2> QED
    BY <1>6, <2>1 DEF DaemonChanges, Changes, Watching, LocalTypeOK
<1>7. CASE MutationFinished
  <2>1. /\ mutation \in LocalMutations
        /\ outcome' = mutation.result /\ mutation' = NoMutation
        /\ resource' = WithFresh(resource, mutation.answer) \/ resource' = WithFresh(Invalidated(resource), mutation.answer)
    BY <1>0, <1>7 DEF MutationFinished, Mutating
  <2>2. mutation.answer \in LocalReads /\ mutation.result \in Verdicts \cup {"none"}
    BY <2>1 DEF LocalMutations
  <2>3. resource' \in LocalResources
    <3>1. resource \in LocalResources /\ Invalidated(resource) \in LocalResources
      BY <2>2, FreshTypes DEF LocalTypeOK
    <3> QED
      BY <2>1, <2>2, <3>1, FreshTypes
  <2> QED
    BY <1>7, <2>1, <2>2, <2>3 DEF MutationFinished, LocalTypeOK, NoOutcome
<1> QED
  BY <1>1, <1>2, <1>3, <1>4, <1>5, <1>6, <1>7 DEF Mutate

-----------------------------------------------------------------------------
(* No change is missed: the inductive invariant *)

\* The observer has something to do before it can be relied on.
Unsettled == ~Watching \/ notice \/ pending \/ dirty

\* Those whose answers are heeded while no mutation has ended.
Heard == {"observer", "refresh"}
ReadEnds == {"Succeeded", "Failed"}

\* An answer of generation g is on its way from a task that has begun this read
\* and sent these events; and one that says the daemon is in state v.
Coming(read, box, g) ==
    \/ read.step # "none" /\ read.gen = g
    \/ \E i \in DOMAIN box : box[i].kind \in ReadEnds /\ box[i].gen = g
Brings(read, box, g, v) ==
    \/ read.step = "read" /\ read.gen = g /\ read.seen.ver = v
    \/ \E i \in DOMAIN box : box[i].kind = "Succeeded" /\ box[i].gen = g /\ box[i].ver = v
Due(g) == \E t \in Heard : Coming(reads[t], outbox[t], g)

\* Generations come from the counter.
Numbered ==
    /\ resource.gen <= counter
    /\ \A t \in Tasks : reads[t].gen <= counter
    /\ \A t \in Tasks : \A i \in DOMAIN outbox[t] : outbox[t][i].gen <= counter

\* An answer that is outdated will be discarded, or is not the last one.
AnswersCovered ==
    \A t \in Heard, g \in Nat, v \in Nat : Brings(reads[t], outbox[t], g, v) =>
        v = daemon.ver \/ Unsettled \/ resource.gen > g \/ \E h \in Nat : h > g /\ Due(h)

\* What is shown is fresh, or an answer that is not older is on its way.
ResourceCovered ==
    resource.status = "Fresh" =>
        resource.ver = daemon.ver \/ Unsettled \/ \E h \in Nat : h >= resource.gen /\ Due(h)

\* A read whose beginning was told is answered, unless the stream it was for
\* has ended: it is under way, or its answer follows.
Pursued(read, box) ==
    \A i \in DOMAIN box : box[i].kind = "Started" =>
        \/ read.step # "none" /\ read.gen >= box[i].gen
        \/ \E j \in DOMAIN box : j > i /\ box[j].kind \in ReadEnds /\ box[j].gen >= box[i].gen
StartsPursued == \A t \in Heard : (t = "observer" => Watching) => Pursued(reads[t], outbox[t])

Covered == Numbered /\ AnswersCovered /\ ResourceCovered /\ StartsPursued

\* A mutation that has ended has a result; it sends nothing before.
MutationConcluded == mutation # NoMutation /\ mutation.step = "sent" => mutation.result # NoOutcome
Apart == outbox["mutation"] = <<>>

LocalInv == LocalTypeOK /\ MutationConcluded /\ Apart /\ (outcome = NoOutcome => Covered)

-----------------------------------------------------------------------------
(* What an event more or less changes *)

LEMMA EventSent ==
    ASSUME NEW box \in Seq(LocalEvents), NEW e \in LocalEvents, NEW read
    PROVE  /\ \A g : Coming(read, box \o <<e>>, g) <=> Coming(read, box, g) \/ (e.kind \in ReadEnds /\ e.gen = g)
           /\ \A g, v : Brings(read, box \o <<e>>, g, v) <=>
                  Brings(read, box, g, v) \/ (e.kind = "Succeeded" /\ e.gen = g /\ e.ver = v)
           /\ \A n : (\A i \in DOMAIN box : box[i].gen <= n) /\ e.gen <= n =>
                  \A i \in DOMAIN (box \o <<e>>) : (box \o <<e>>)[i].gen <= n
<1> DEFINE new == box \o <<e>>
<1>1. /\ DOMAIN box = 1..Len(box) /\ DOMAIN new = 1..(Len(box) + 1) /\ Len(box) \in Nat
      /\ \A i \in 1..Len(box) : new[i] = box[i]
      /\ new[Len(box) + 1] = e
  BY BoxAppended
<1> HIDE DEF new
<1>2. \A i \in DOMAIN new : i \in DOMAIN box \/ i = Len(box) + 1
  BY <1>1
<1>3. \A i \in DOMAIN box : i \in DOMAIN new /\ new[i] = box[i]
  BY <1>1
<1>4. Len(box) + 1 \in DOMAIN new
  BY <1>1
<1>5. \A g : Coming(read, new, g) <=> Coming(read, box, g) \/ (e.kind \in ReadEnds /\ e.gen = g)
  BY <1>1, <1>2, <1>3, <1>4 DEF Coming
<1>6. \A g, v : Brings(read, new, g, v) <=>
          Brings(read, box, g, v) \/ (e.kind = "Succeeded" /\ e.gen = g /\ e.ver = v)
  BY <1>1, <1>2, <1>3, <1>4 DEF Brings
<1>7. \A n : (\A i \in DOMAIN box : box[i].gen <= n) /\ e.gen <= n => \A i \in DOMAIN new : new[i].gen <= n
  BY <1>1, <1>2, <1>3
<1> QED
  BY <1>5, <1>6, <1>7 DEF new

LEMMA EventComes ==
    ASSUME NEW box \in Seq(LocalEvents), NEW e \in LocalEvents, e.kind \in ReadEnds, NEW read
    PROVE  Coming(read, box \o <<e>>, e.gen)
BY EventSent

LEMMA EventBrings ==
    ASSUME NEW box \in Seq(LocalEvents), NEW e \in LocalEvents, NEW read, NEW g, NEW v,
           Brings(read, box \o <<e>>, g, v)
    PROVE  Brings(read, box, g, v) \/ (e.kind = "Succeeded" /\ e.gen = g /\ e.ver = v)
BY EventSent

\* The task's newest read pursues all that was begun before it.
LEMMA NewestPursues ==
    ASSUME NEW box \in Seq(LocalEvents), NEW read \in LocalReads,
           read.step # "none", \A i \in DOMAIN box : box[i].gen <= read.gen
    PROVE  Pursued(read, box)
<1>1. read.gen \in Nat
  BY DEF LocalReads
<1>2. \A i \in DOMAIN box : box[i] \in LocalEvents
  OBVIOUS
<1>3. \A i \in DOMAIN box : box[i].gen \in Nat
  BY <1>2 DEF LocalEvents
<1> QED
  BY <1>1, <1>3 DEF Pursued

\* The answer takes the place of the read.
LEMMA AnswerPursues ==
    ASSUME NEW box \in Seq(LocalEvents), NEW read \in LocalReads, NEW next \in LocalReads, NEW e \in LocalEvents,
           Pursued(read, box), e.kind \in ReadEnds, e.gen = read.gen
    PROVE  Pursued(next, box \o <<e>>)
<1> DEFINE new == box \o <<e>>
<1>1. /\ DOMAIN box = 1..Len(box) /\ DOMAIN new = 1..(Len(box) + 1) /\ Len(box) \in Nat
      /\ \A i \in 1..Len(box) : new[i] = box[i]
      /\ new[Len(box) + 1] = e
  BY BoxAppended
<1> HIDE DEF new
<1>2. SUFFICES ASSUME NEW i \in DOMAIN new, new[i].kind = "Started"
               PROVE  \E j \in DOMAIN new : j > i /\ new[j].kind \in ReadEnds /\ new[j].gen >= new[i].gen
  BY DEF Pursued, new
<1>3. i \in DOMAIN box /\ new[i] = box[i]
  BY <1>1, <1>2 DEF ReadEnds
<1>4. CASE read.step # "none" /\ read.gen >= box[i].gen
  <2>1. Len(box) + 1 \in DOMAIN new /\ Len(box) + 1 > i
    BY <1>1, <1>3
  <2> QED
    BY <1>1, <1>3, <1>4, <2>1
<1>5. CASE \E j \in DOMAIN box : j > i /\ box[j].kind \in ReadEnds /\ box[j].gen >= box[i].gen
  <2>1. PICK j \in DOMAIN box : j > i /\ box[j].kind \in ReadEnds /\ box[j].gen >= box[i].gen
    BY <1>5
  <2>2. j \in DOMAIN new /\ new[j] = box[j]
    BY <1>1
  <2> QED
    BY <1>3, <2>1, <2>2
<1> QED
  BY <1>2, <1>3, <1>4, <1>5 DEF Pursued

\* An event is taken from the queue.
LEMMA EventTaken ==
    ASSUME NEW box \in Seq(LocalEvents), box # <<>>, NEW read
    PROVE  /\ Pursued(read, box) => Pursued(read, Tail(box))
           /\ \A g : Coming(read, Tail(box), g) => Coming(read, box, g)
           /\ \A g : Coming(read, box, g) => Coming(read, Tail(box), g) \/ (Head(box).kind \in ReadEnds /\ Head(box).gen = g)
           /\ \A g, v : Brings(read, Tail(box), g, v) => Brings(read, box, g, v)
           /\ \A n : (\A i \in DOMAIN box : box[i].gen <= n) => \A i \in DOMAIN Tail(box) : Tail(box)[i].gen <= n
<1> DEFINE new == Tail(box)
<1>1. /\ Head(box) = box[1] /\ Len(box) \in Nat /\ Len(box) > 0
      /\ DOMAIN box = 1..Len(box) /\ DOMAIN new = 1..(Len(box) - 1)
      /\ \A i \in 1..(Len(box) - 1) : new[i] = box[i + 1]
  BY BoxTail
<1> HIDE DEF new
<1>2. \A i \in DOMAIN new : i + 1 \in DOMAIN box /\ new[i] = box[i + 1] /\ i \in Nat
  BY <1>1
<1>3. \A i \in DOMAIN box : i = 1 \/ (i \in Nat /\ i - 1 \in DOMAIN new /\ new[i - 1] = box[i])
  <2>1. SUFFICES ASSUME NEW i \in DOMAIN box, i # 1
                 PROVE  i \in Nat /\ i - 1 \in DOMAIN new /\ new[i - 1] = box[i]
    OBVIOUS
  <2>2. i \in Nat /\ i - 1 \in DOMAIN new /\ (i - 1) + 1 = i
    BY <1>1, <2>1
  <2> QED
    BY <1>2, <2>2
<1>4. \A g : Coming(read, new, g) => Coming(read, box, g)
  BY <1>2 DEF Coming
<1>5. \A g : Coming(read, box, g) => Coming(read, new, g) \/ (Head(box).kind \in ReadEnds /\ Head(box).gen = g)
  BY <1>1, <1>3 DEF Coming
<1>6. \A g, v : Brings(read, new, g, v) => Brings(read, box, g, v)
  BY <1>2 DEF Brings
<1>7. \A n : (\A i \in DOMAIN box : box[i].gen <= n) => \A i \in DOMAIN new : new[i].gen <= n
  BY <1>2
<1>8. ASSUME Pursued(read, box)
      PROVE  Pursued(read, new)
  <2>1. SUFFICES ASSUME NEW i \in DOMAIN new, new[i].kind = "Started",
                        ~(read.step # "none" /\ read.gen >= new[i].gen)
                 PROVE  \E j \in DOMAIN new : j > i /\ new[j].kind \in ReadEnds /\ new[j].gen >= new[i].gen
    BY DEF Pursued
  <2>2. PICK k \in DOMAIN box : k > i + 1 /\ box[k].kind \in ReadEnds /\ box[k].gen >= new[i].gen
    BY <1>2, <1>8, <2>1 DEF Pursued
  <2>3. k - 1 \in DOMAIN new /\ new[k - 1] = box[k] /\ k - 1 > i
    BY <1>1, <1>2, <1>3, <2>2
  <2> QED
    BY <2>2, <2>3
<1> QED
  BY <1>4, <1>5, <1>6, <1>7, <1>8 DEF new

-----------------------------------------------------------------------------
(* How a step keeps what is shown covered *)

LEMMA UnsettledCovers ==
    ASSUME Unsettled'
    PROVE  AnswersCovered' /\ ResourceCovered'
BY DEF AnswersCovered, ResourceCovered

\* Nothing that was on its way is lost, and what is newly said is true.
LEMMA SteadyCovers ==
    ASSUME AnswersCovered, ResourceCovered, resource' = resource, daemon' = daemon, Unsettled => Unsettled',
           \A t \in Heard : \A g \in Nat :
               Coming(reads[t], outbox[t], g) => Coming(reads'[t], outbox'[t], g),
           \A t \in Heard : \A g \in Nat, v \in Nat :
               Brings(reads'[t], outbox'[t], g, v) => Brings(reads[t], outbox[t], g, v) \/ v = daemon.ver
    PROVE  AnswersCovered' /\ ResourceCovered'
<1>1. \A h \in Nat : Due(h) => Due(h)'
  BY DEF Due
<1>2. AnswersCovered'
  <2>1. SUFFICES ASSUME NEW t \in Heard, NEW g \in Nat, NEW v \in Nat, Brings(reads[t], outbox[t], g, v)'
                 PROVE  (v = daemon.ver \/ Unsettled \/ resource.gen > g \/ \E h \in Nat : h > g /\ Due(h))'
    BY DEF AnswersCovered
  <2>2. Brings(reads[t], outbox[t], g, v) \/ v = daemon.ver
    BY <2>1
  <2>3. v = daemon.ver \/ Unsettled \/ resource.gen > g \/ \E h \in Nat : h > g /\ Due(h)
    BY <2>2 DEF AnswersCovered
  <2> QED
    BY <1>1, <2>3
<1>3. ResourceCovered'
  BY <1>1 DEF ResourceCovered
<1> QED
  BY <1>2, <1>3

\* A read that begins now is newer than all that was said and shown.
LEMMA BegunCovers ==
    ASSUME LocalTypeOK, Numbered, NEW n \in Nat, n > counter, resource'.gen \in Nat, resource'.gen <= n,
           \E t \in Heard : Coming(reads'[t], outbox'[t], n),
           \A t \in Heard : \A g \in Nat, v \in Nat :
               Brings(reads'[t], outbox'[t], g, v) => Brings(reads[t], outbox[t], g, v)
    PROVE  AnswersCovered' /\ ResourceCovered'
<1>0. counter \in Nat
  BY DEF LocalTypeOK
<1>1. (Due(n))'
  BY DEF Due
<1>2. ASSUME NEW t \in Heard, NEW g \in Nat, NEW v \in Nat, Brings(reads'[t], outbox'[t], g, v)
      PROVE  n > g
  <2>1. Brings(reads[t], outbox[t], g, v) /\ t \in Tasks
    BY <1>2 DEF Heard, Tasks
  <2>2. g <= counter
    BY <2>1 DEF Brings, Numbered
  <2> QED
    BY <1>0, <2>2
<1>3. AnswersCovered'
  BY <1>1, <1>2 DEF AnswersCovered
<1>4. ResourceCovered'
  BY <1>1 DEF ResourceCovered
<1> QED
  BY <1>3, <1>4

-----------------------------------------------------------------------------
(* The steps *)

\* A task begins a read, and tells so.
LEMMA BeginsAlone ==
    ASSUME NEW box \in Seq(LocalEvents), NEW d \in LocalEvents, NEW old \in LocalReads,
           NEW n \in Nat, d.kind = "Started", d.gen = n,
           NEW read \in LocalReads, read.gen = n, read.step = "queued",
           \A i \in DOMAIN box : box[i].gen <= n
    PROVE  /\ \A i \in DOMAIN (box \o <<d>>) : (box \o <<d>>)[i].gen <= n
           /\ \A g \in Nat, v \in Nat : Brings(read, box \o <<d>>, g, v) => Brings(old, box, g, v)
           /\ Coming(read, box \o <<d>>, n)
           /\ Pursued(read, box \o <<d>>)
<1>1. box \o <<d>> \in Seq(LocalEvents)
  BY BoxAppended
<1>2. \A i \in DOMAIN (box \o <<d>>) : (box \o <<d>>)[i].gen <= n
  <2>1. d.gen <= n
    OBVIOUS
  <2> QED
    BY <2>1, EventSent
<1>3. ASSUME NEW g \in Nat, NEW v \in Nat, Brings(read, box \o <<d>>, g, v)
      PROVE  Brings(old, box, g, v)
  <2>1. Brings(read, box, g, v)
    BY <1>3, EventBrings
  <2> QED
    BY <2>1 DEF Brings
<1> QED
  BY <1>1, <1>2, <1>3, NewestPursues DEF Coming

\* It tells something else first: the answer of the read before, perhaps.
LEMMA BeginsAfter ==
    ASSUME NEW box \in Seq(LocalEvents), NEW e \in LocalEvents, NEW d \in LocalEvents, NEW old \in LocalReads,
           NEW n \in Nat, d.kind = "Started", d.gen = n,
           NEW read \in LocalReads, read.gen = n, read.step = "queued",
           \A i \in DOMAIN box : box[i].gen <= n, e.gen <= n,
           e.kind = "Succeeded" => Brings(old, box, e.gen, e.ver)
    PROVE  /\ \A i \in DOMAIN ((box \o <<e>>) \o <<d>>) : ((box \o <<e>>) \o <<d>>)[i].gen <= n
           /\ \A g \in Nat, v \in Nat : Brings(read, (box \o <<e>>) \o <<d>>, g, v) => Brings(old, box, g, v)
           /\ Coming(read, (box \o <<e>>) \o <<d>>, n)
           /\ Pursued(read, (box \o <<e>>) \o <<d>>)
<1> DEFINE after == box \o <<e>>
<1>1. after \in Seq(LocalEvents) /\ \A i \in DOMAIN after : after[i].gen <= n
  BY BoxAppended, EventSent
<1>2. \A g \in Nat, v \in Nat : Brings(read, after, g, v) => Brings(old, box, g, v)
  <2>1. SUFFICES ASSUME NEW g \in Nat, NEW v \in Nat, Brings(read, after, g, v)
                 PROVE  Brings(old, box, g, v)
    OBVIOUS
  <2>2. Brings(read, box, g, v) \/ (e.kind = "Succeeded" /\ e.gen = g /\ e.ver = v)
    BY <2>1, EventBrings
  <2>3. CASE Brings(read, box, g, v)
    BY <2>3 DEF Brings
  <2>4. CASE e.kind = "Succeeded" /\ e.gen = g /\ e.ver = v
    BY <2>4
  <2> QED
    BY <2>2, <2>3, <2>4
<1> HIDE DEF after
<1>3. /\ \A i \in DOMAIN (after \o <<d>>) : (after \o <<d>>)[i].gen <= n
      /\ \A g \in Nat, v \in Nat : Brings(read, after \o <<d>>, g, v) => Brings(read, after, g, v)
      /\ Coming(read, after \o <<d>>, n)
      /\ Pursued(read, after \o <<d>>)
  BY <1>1, BeginsAlone
<1> QED
  BY <1>2, <1>3 DEF after

\* The counter's bound on generations, in the types that arithmetic needs.
LEMMA Generations ==
    ASSUME LocalTypeOK
    PROVE  /\ counter \in Nat /\ resource \in LocalResources /\ resource.gen \in Nat
           /\ \A t \in Tasks : reads[t] \in LocalReads /\ reads[t].gen \in Nat
           /\ \A t \in Tasks : outbox[t] \in Seq(LocalEvents)
           /\ \A t \in Tasks : \A i \in DOMAIN outbox[t] :
                  outbox[t][i] \in LocalEvents /\ outbox[t][i].gen \in Nat
<1>1. counter \in Nat /\ resource \in LocalResources
  BY DEF LocalTypeOK
<1>2. \A t \in Tasks : reads[t] \in LocalReads /\ outbox[t] \in Seq(LocalEvents)
  BY DEF LocalTypeOK
<1>3. \A t \in Tasks : \A i \in DOMAIN outbox[t] : outbox[t][i] \in LocalEvents
  BY <1>2
<1> QED
  BY <1>1, <1>2, <1>3 DEF LocalResources, LocalReads, LocalEvents

\* A task begins a read: what the others have under way stays as it is.
LEMMA TaskBegins ==
    ASSUME LocalTypeOK, Numbered, StartsPursued, NEW t \in Heard, NEW n \in Nat, NEW events,
           n > counter, counter' = n, resource' \in LocalResources, resource'.gen <= n,
           Watching' \/ t # "observer", Watching' => Watching \/ t = "observer",
           ReadBegins(t, n), Send(t, events),
           \/ events = <<Event("Started", n, Nothing)>>
           \/ \E e \in LocalEvents :
                  /\ events = <<e, Event("Started", n, Nothing)>>
                  /\ e.gen <= n
                  /\ e.kind = "Succeeded" => Brings(reads[t], outbox[t], e.gen, e.ver)
    PROVE  Covered'
<1> DEFINE d == Event("Started", n, Nothing)
           read == reads'[t]
           new == outbox'[t]
<1>1. Heard \subseteq Tasks /\ t \in Tasks
  BY DEF Heard, Tasks
<1>2. d \in LocalEvents /\ d.kind = "Started" /\ d.gen = n
  BY EventTypes DEF Nothing
<1>3. /\ read \in LocalReads /\ read.gen = n /\ read.step = "queued"
      /\ \A u \in Tasks \ {t} : reads'[u] = reads[u]
  BY <1>1 DEF ReadBegins, LocalTypeOK, NoRead, LocalReads
<1>4. /\ new = outbox[t] \o events
      /\ \A u \in Tasks \ {t} : outbox'[u] = outbox[u]
  BY <1>1 DEF Send, LocalTypeOK
<1>5. \A i \in DOMAIN outbox[t] : outbox[t][i].gen <= n
  BY <1>1, Generations DEF Numbered
<1>6. /\ \A i \in DOMAIN new : new[i].gen <= n
      /\ \A g \in Nat, v \in Nat : Brings(read, new, g, v) => Brings(reads[t], outbox[t], g, v)
      /\ Coming(read, new, n)
      /\ Pursued(read, new)
  <2>1. outbox[t] \in Seq(LocalEvents) /\ reads[t] \in LocalReads
    BY <1>1, Generations
  <2>2. CASE events = <<d>>
    <3>1. new = outbox[t] \o <<d>>
      BY <1>4, <2>2
    <3> HIDE DEF d, new, read
    <3> QED
      BY <1>2, <1>3, <1>5, <2>1, <3>1, BeginsAlone
  <2>3. CASE events # <<d>>
    <3>1. PICK e \in LocalEvents :
              /\ events = <<e, d>>
              /\ e.gen <= n
              /\ e.kind = "Succeeded" => Brings(reads[t], outbox[t], e.gen, e.ver)
      BY <2>3
    <3>2. new = (outbox[t] \o <<e>>) \o <<d>>
      BY <1>2, <1>4, <2>1, <3>1, BoxTwice
    <3> HIDE DEF d, new, read
    <3>3. /\ \A i \in DOMAIN ((outbox[t] \o <<e>>) \o <<d>>) : ((outbox[t] \o <<e>>) \o <<d>>)[i].gen <= n
          /\ \A g \in Nat, v \in Nat :
                 Brings(read, (outbox[t] \o <<e>>) \o <<d>>, g, v) => Brings(reads[t], outbox[t], g, v)
          /\ Coming(read, (outbox[t] \o <<e>>) \o <<d>>, n)
          /\ Pursued(read, (outbox[t] \o <<e>>) \o <<d>>)
      BY <1>2, <1>3, <1>5, <2>1, <3>1, BeginsAfter
    <3> QED
      BY <3>2, <3>3
  <2> QED
    BY <2>2, <2>3
<1>7. \A u \in Heard : \A g \in Nat, v \in Nat :
          Brings(reads'[u], outbox'[u], g, v) => Brings(reads[u], outbox[u], g, v)
  BY <1>1, <1>3, <1>4, <1>6
<1>8. AnswersCovered' /\ ResourceCovered'
  BY <1>6, <1>7, BegunCovers DEF LocalResources
<1>9. Numbered'
  <2>1. \A u \in Tasks : reads'[u].gen <= n
    BY <1>1, <1>3, Generations DEF Numbered
  <2>2. ASSUME NEW u \in Tasks, NEW i \in DOMAIN outbox'[u]
        PROVE  outbox'[u][i].gen <= n
    <3>1. CASE u = t
      BY <1>6, <3>1
    <3>2. CASE u # t
      <4>1. outbox'[u] = outbox[u]
        BY <1>4, <3>2
      <4>2. outbox[u][i].gen <= counter /\ outbox[u][i].gen \in Nat /\ counter \in Nat
        BY <2>2, <4>1, Generations DEF Numbered
      <4> QED
        BY <4>1, <4>2
    <3> QED
      BY <3>1, <3>2
  <2> QED
    BY <2>1, <2>2 DEF Numbered
<1>10. StartsPursued'
  <2>1. SUFFICES ASSUME NEW u \in Heard, u = "observer" => Watching'
                 PROVE  Pursued(reads'[u], outbox'[u])
    BY DEF StartsPursued
  <2>2. CASE u = t
    BY <1>6, <2>2
  <2>3. CASE u # t
    BY <1>1, <1>3, <1>4, <2>1, <2>3 DEF StartsPursued
  <2> QED
    BY <2>2, <2>3
<1> QED
  BY <1>8, <1>9, <1>10 DEF Covered

\* A task's read has ended: its answer is sent.
LEMMA TaskAnswers ==
    ASSUME LocalTypeOK, Covered, NEW t \in Heard, reads[t].step \in {"read", "failed"},
           counter' = counter, resource' = resource, daemon' = daemon, Unsettled => Unsettled', Watching' => Watching,
           reads' = [reads EXCEPT ![t] = NoRead], Send(t, <<Answered(t)>>)
    PROVE  Covered'
<1> DEFINE e == Answered(t)
           box == outbox[t]
<1>1. Heard \subseteq Tasks /\ t \in Tasks
  BY DEF Heard, Tasks
<1>2. /\ e \in LocalEvents /\ e.kind \in ReadEnds /\ e.gen = reads[t].gen /\ e.ver = reads[t].seen.ver
      /\ e.kind = "Succeeded" => reads[t].step = "read"
  BY <1>1, AnswerTypes DEF ReadEnds
<1>3. /\ reads'[t] = NoRead /\ NoRead \in LocalReads /\ NoRead.gen = 0 /\ NoRead.step = "none"
      /\ outbox'[t] = box \o <<e>> /\ box \in Seq(LocalEvents) /\ reads[t] \in LocalReads
      /\ \A u \in Tasks \ {t} : reads'[u] = reads[u] /\ outbox'[u] = outbox[u]
  BY <1>1, ReadSteps DEF Send, LocalTypeOK
<1> HIDE DEF e, box
<1>4. ASSUME NEW g \in Nat, Coming(reads[t], box, g)
      PROVE  Coming(NoRead, box \o <<e>>, g)
  <2>1. Coming(reads[t], box \o <<e>>, g)
    BY <1>2, <1>3, <1>4, EventSent
  <2>2. CASE reads[t].gen = g
    BY <1>2, <1>3, <2>2, EventComes
  <2>3. CASE reads[t].gen # g
    BY <2>1, <2>3 DEF Coming
  <2> QED
    BY <2>2, <2>3
<1>5. ASSUME NEW g \in Nat, NEW v \in Nat, Brings(NoRead, box \o <<e>>, g, v)
      PROVE  Brings(reads[t], box, g, v)
  <2>1. Brings(NoRead, box, g, v) \/ (e.kind = "Succeeded" /\ e.gen = g /\ e.ver = v)
    BY <1>2, <1>3, <1>5, EventBrings
  <2>2. Brings(NoRead, box, g, v) => Brings(reads[t], box, g, v)
    BY <1>3 DEF Brings
  <2>3. e.kind = "Succeeded" /\ e.gen = g /\ e.ver = v => Brings(reads[t], box, g, v)
    BY <1>2 DEF Brings
  <2> QED
    BY <2>1, <2>2, <2>3
<1>6. \A u \in Heard : \A g \in Nat : Coming(reads[u], outbox[u], g) => Coming(reads'[u], outbox'[u], g)
  <2>1. SUFFICES ASSUME NEW u \in Heard, NEW g \in Nat, Coming(reads[u], outbox[u], g)
                 PROVE  Coming(reads'[u], outbox'[u], g)
    OBVIOUS
  <2>2. CASE u = t
    BY <1>3, <1>4, <2>1, <2>2 DEF box
  <2>3. CASE u # t
    BY <1>1, <1>3, <2>1, <2>3
  <2> QED
    BY <2>2, <2>3
<1>7. \A u \in Heard : \A g \in Nat, v \in Nat :
          Brings(reads'[u], outbox'[u], g, v) => Brings(reads[u], outbox[u], g, v) \/ v = daemon.ver
  <2>1. SUFFICES ASSUME NEW u \in Heard, NEW g \in Nat, NEW v \in Nat, Brings(reads'[u], outbox'[u], g, v)
                 PROVE  Brings(reads[u], outbox[u], g, v)
    OBVIOUS
  <2>2. CASE u = t
    BY <1>3, <1>5, <2>1, <2>2 DEF box
  <2>3. CASE u # t
    BY <1>1, <1>3, <2>1, <2>3
  <2> QED
    BY <2>2, <2>3
<1>8. AnswersCovered' /\ ResourceCovered'
  BY <1>6, <1>7, SteadyCovers DEF Covered
<1>9. Numbered'
  <2>0. /\ counter \in Nat
        /\ \A i \in DOMAIN box : box[i].gen <= counter
        /\ e.gen <= counter
    BY <1>1, <1>2, Generations DEF Covered, Numbered, box
  <2>1. \A i \in DOMAIN (box \o <<e>>) : (box \o <<e>>)[i].gen <= counter
    BY <1>2, <1>3, <2>0, EventSent
  <2>2. ASSUME NEW u \in Tasks, NEW i \in DOMAIN outbox'[u]
        PROVE  outbox'[u][i].gen <= counter
    BY <1>3, <2>1, <2>2 DEF Covered, Numbered
  <2>3. \A u \in Tasks : reads'[u].gen <= counter
    BY <1>3, <2>0 DEF Covered, Numbered
  <2> QED
    BY <2>2, <2>3 DEF Covered, Numbered
<1>10. StartsPursued'
  <2>1. SUFFICES ASSUME NEW u \in Heard, u = "observer" => Watching'
                 PROVE  Pursued(reads'[u], outbox'[u])
    BY DEF StartsPursued
  <2>2. Pursued(reads[u], outbox[u])
    BY <2>1 DEF Covered, StartsPursued
  <2>3. CASE u = t
    <3>1. Pursued(reads[t], box)
      BY <2>2, <2>3 DEF box
    <3>2. Pursued(NoRead, box \o <<e>>)
      BY <1>2, <1>3, <3>1, AnswerPursues
    <3> QED
      BY <1>3, <2>3, <3>2
  <2>4. CASE u # t
    BY <1>1, <1>3, <2>2, <2>4
  <2> QED
    BY <2>3, <2>4
<1> QED
  BY <1>8, <1>9, <1>10 DEF Covered

\* Steps that send nothing and give nothing up.
LEMMA TaskGoesOn ==
    ASSUME LocalTypeOK, LocalTypeOK', Covered, resource' = resource, outbox' = outbox, counter' >= counter,
           Unsettled' \/ (daemon' = daemon /\ (Unsettled => Unsettled')), Watching' => Watching,
           \A t \in Tasks : reads'[t].gen <= counter',
           \A t \in Heard : /\ reads'[t].gen = reads[t].gen
                            /\ reads[t].step # "none" => reads'[t].step # "none"
                            /\ reads'[t].step = "read" => reads'[t] = reads[t] \/ reads'[t].seen.ver = daemon.ver
    PROVE  Covered'
<1>1. Heard \subseteq Tasks
  BY DEF Heard, Tasks
<1>2. \A t \in Heard : \A g \in Nat : Coming(reads[t], outbox[t], g) => Coming(reads'[t], outbox'[t], g)
  BY DEF Coming
<1>3. \A t \in Heard : \A g \in Nat, v \in Nat :
          Brings(reads'[t], outbox'[t], g, v) => Brings(reads[t], outbox[t], g, v) \/ v = daemon.ver
  BY DEF Brings
<1>4. AnswersCovered' /\ ResourceCovered'
  <2>1. CASE Unsettled'
    BY <2>1, UnsettledCovers
  <2>2. CASE daemon' = daemon /\ (Unsettled => Unsettled')
    BY <1>2, <1>3, <2>2, SteadyCovers DEF Covered
  <2> QED
    BY <2>1, <2>2
<1>5. Numbered'
  <2>1. counter \in Nat /\ counter' \in Nat /\ resource.gen <= counter /\ resource.gen \in Nat
    BY Generations DEF Covered, Numbered, LocalTypeOK
  <2>2. ASSUME NEW t \in Tasks, NEW i \in DOMAIN outbox[t]
        PROVE  outbox[t][i].gen <= counter'
    <3>1. outbox[t][i].gen <= counter /\ outbox[t][i].gen \in Nat
      BY <2>2, Generations DEF Covered, Numbered
    <3> QED
      BY <2>1, <3>1
  <2> QED
    BY <2>1, <2>2 DEF Numbered
<1>6. StartsPursued'
  BY <1>1 DEF Covered, StartsPursued, Pursued
<1> QED
  BY <1>4, <1>5, <1>6 DEF Covered

LEMMA EventStays ==
    ASSUME NEW box \in Seq(LocalEvents), box # <<>>, NEW read, NEW g, Coming(read, box, g),
           ~(Head(box).kind \in ReadEnds /\ Head(box).gen = g)
    PROVE  Coming(read, Tail(box), g)
BY EventTaken

\* What App::update_local makes of an event.
LEMMA HeededFacts ==
    ASSUME NEW res \in LocalResources, NEW e \in LocalEvents, NEW next, next = Heeded(res, e)
    PROVE  /\ next.gen \in Nat /\ next.gen >= res.gen /\ (next.gen = res.gen \/ next.gen = e.gen)
           /\ e.kind \in ReadEnds => next.gen >= e.gen
           /\ next.status = "Fresh" =>
                  \/ e.kind = "Succeeded" /\ next.gen = e.gen /\ next.ver = e.ver /\ e.gen >= res.gen
                  \/ e.kind = "Started" /\ next.gen = e.gen /\ next.ver = res.ver /\ res.status = "Fresh"
                  \/ next = res /\ (e.kind \in ReadEnds => e.gen < res.gen)
<1>1. /\ res.gen \in Nat /\ e.gen \in Nat
      /\ e.kind \in {"Connected", "Disconnected", "Started", "Succeeded", "Failed"}
  BY DEF LocalResources, LocalEvents
<1> DEFINE new == Newer(res, e.gen)
<1>2. CASE e.kind = "Started" /\ new
  BY <1>1, <1>2 DEF Heeded, Started, Newer, LocalResources, ReadEnds
<1>3. CASE e.kind = "Succeeded" /\ new
  BY <1>1, <1>3 DEF Heeded, Newer, ReadEnds
<1>4. CASE e.kind = "Failed" /\ new
  <2>1. next = [res EXCEPT !.gen = e.gen, !.status = IF res.ver = Nothing THEN "Failed" ELSE "Stale"]
    BY <1>4 DEF Heeded
  <2>2. next.gen = e.gen /\ next.status # "Fresh"
    BY <2>1 DEF LocalResources
  <2> QED
    BY <1>1, <1>4, <2>2 DEF Newer
<1>5. CASE e.kind = "Disconnected" /\ res.status = "Fresh"
  BY <1>1, <1>5 DEF Heeded, LocalResources, ReadEnds
<1>6. CASE /\ ~(e.kind = "Started" /\ new) /\ ~(e.kind = "Succeeded" /\ new) /\ ~(e.kind = "Failed" /\ new)
           /\ ~(e.kind = "Disconnected" /\ res.status = "Fresh")
  <2>1. next = res
    BY <1>6 DEF Heeded
  <2> QED
    BY <1>1, <1>6, <2>1 DEF Newer, ReadEnds
<1> HIDE DEF new
<1> QED
  BY <1>2, <1>3, <1>4, <1>5, <1>6

LEMMA HandlerCovers ==
    ASSUME LocalTypeOK, Covered, NEW t \in Heard, HandleLocal(t)
    PROVE  Covered'
<1> DEFINE e == Head(outbox[t])
           box == outbox[t]
<1>1. Heard \subseteq Tasks /\ t \in Tasks
  BY DEF Heard, Tasks
<1>2. /\ box \in Seq(LocalEvents) /\ box # <<>>
      /\ resource' = Heeded(resource, e)
      /\ outbox'[t] = Tail(box)
      /\ \A u \in Tasks \ {t} : outbox'[u] = outbox[u]
      /\ reads' = reads /\ counter' = counter /\ daemon' = daemon
      /\ Unsettled' = Unsettled /\ Watching' = Watching
  BY <1>1 DEF HandleLocal, LocalTypeOK, Unsettled, Watching
<1>3. e \in LocalEvents /\ e = Head(box) /\ e = box[1] /\ 1 \in DOMAIN box
  BY <1>2, BoxTail
<1> HIDE DEF e, box
<1>4. /\ e.gen \in Nat /\ e.ver \in Nat /\ counter \in Nat
      /\ resource \in LocalResources /\ resource.gen \in Nat
      /\ e.gen <= counter /\ resource.gen <= counter
  BY <1>1, <1>3, Generations DEF Covered, Numbered, LocalEvents, box
<1>5. /\ resource'.gen \in Nat /\ resource'.gen >= resource.gen
      /\ resource'.gen = resource.gen \/ resource'.gen = e.gen
      /\ e.kind \in ReadEnds => resource'.gen >= e.gen
      /\ resource'.status = "Fresh" =>
             \/ e.kind = "Succeeded" /\ resource'.gen = e.gen /\ resource'.ver = e.ver /\ e.gen >= resource.gen
             \/ e.kind = "Started" /\ resource'.gen = e.gen /\ resource'.ver = resource.ver /\ resource.status = "Fresh"
             \/ resource' = resource /\ (e.kind \in ReadEnds => e.gen < resource.gen)
  BY <1>2, <1>3, <1>4, HeededFacts
<1>6. ASSUME NEW h \in Nat, Due(h), ~(e.kind \in ReadEnds /\ e.gen = h)
      PROVE  (Due(h))'
  <2>1. PICK u \in Heard : Coming(reads[u], outbox[u], h)
    BY <1>6 DEF Due
  <2>2. Coming(reads[u], outbox'[u], h)
    <3>1. CASE u = t
      <4>1. Coming(reads[t], box, h)
        BY <2>1, <3>1 DEF box
      <4>2. Coming(reads[t], Tail(box), h)
        BY <1>2, <1>3, <1>6, <4>1, EventStays
      <4> QED
        BY <1>2, <3>1, <4>2
    <3>2. CASE u # t
      BY <1>1, <1>2, <2>1, <3>2
    <3> QED
      BY <3>1, <3>2
  <2> QED
    BY <1>2, <2>2 DEF Due
<1>7. AnswersCovered'
  <2>1. SUFFICES ASSUME NEW u \in Heard, NEW g \in Nat, NEW v \in Nat, Brings(reads'[u], outbox'[u], g, v),
                        v # daemon.ver, ~Unsettled, ~(resource'.gen > g)
                 PROVE  \E h \in Nat : h > g /\ (Due(h))'
    BY <1>2 DEF AnswersCovered
  <2>2. Brings(reads[u], outbox[u], g, v)
    <3>1. CASE u = t
      <4>1. outbox'[u] = Tail(box) /\ reads'[u] = reads[u]
        BY <1>2, <3>1
      <4>2. Brings(reads[u], Tail(box), g, v)
        BY <2>1, <4>1
      <4>3. Brings(reads[u], box, g, v)
        BY <1>2, <4>2, EventTaken
      <4> QED
        BY <3>1, <4>3 DEF box
    <3>2. CASE u # t
      BY <1>1, <1>2, <2>1, <3>2
    <3> QED
      BY <3>1, <3>2
  <2>3. PICK h \in Nat : h > g /\ Due(h)
    BY <1>4, <1>5, <2>1, <2>2 DEF Covered, AnswersCovered
  <2>4. ~(e.kind \in ReadEnds /\ e.gen = h)
    BY <1>4, <1>5, <2>1, <2>3
  <2> QED
    BY <1>6, <2>3, <2>4
<1>8. ResourceCovered'
  <2>1. SUFFICES ASSUME resource'.status = "Fresh", resource'.ver # daemon.ver, ~Unsettled
                 PROVE  \E h \in Nat : h >= resource'.gen /\ (Due(h))'
    BY <1>2 DEF ResourceCovered
  <2>2. CASE e.kind = "Succeeded" /\ resource'.gen = e.gen /\ resource'.ver = e.ver /\ e.gen >= resource.gen
    <3>1. Brings(reads[t], outbox[t], e.gen, e.ver)
      BY <1>3, <2>2 DEF Brings, box
    <3>2. PICK h \in Nat : h > e.gen /\ Due(h)
      BY <1>4, <2>1, <2>2, <3>1 DEF Covered, AnswersCovered
    <3>3. (Due(h))'
      BY <1>4, <1>6, <3>2
    <3> QED
      BY <1>4, <2>2, <3>2, <3>3
  <2>3. CASE e.kind = "Started" /\ resource'.gen = e.gen
    <3>1. Pursued(reads[t], outbox[t])
      BY <2>1 DEF Covered, StartsPursued, Unsettled
    <3>2. PICK h \in Nat : h >= e.gen /\ Coming(reads[t], outbox[t], h)
      <4>1. \/ reads[t].step # "none" /\ reads[t].gen >= e.gen
            \/ \E j \in DOMAIN box : box[j].kind \in ReadEnds /\ box[j].gen >= e.gen
        BY <1>3, <2>3, <3>1 DEF Pursued, box
      <4>2. reads[t].gen \in Nat /\ \A j \in DOMAIN box : box[j].gen \in Nat
        BY <1>1, Generations DEF box
      <4> QED
        BY <4>1, <4>2 DEF Coming, box
    <3>3. Due(h) /\ ~(e.kind \in ReadEnds)
      BY <2>3, <3>2 DEF Due, ReadEnds
    <3> QED
      BY <1>6, <2>3, <3>2, <3>3
  <2>4. CASE resource' = resource /\ (e.kind \in ReadEnds => e.gen < resource.gen)
    <3>1. PICK h \in Nat : h >= resource.gen /\ Due(h)
      BY <2>1, <2>4 DEF Covered, ResourceCovered
    <3>2. ~(e.kind \in ReadEnds /\ e.gen = h)
      BY <1>4, <2>4, <3>1
    <3> QED
      BY <1>6, <2>4, <3>1, <3>2
  <2> QED
    BY <1>5, <2>1, <2>2, <2>3, <2>4
<1>9. Numbered'
  <2>1. \A i \in DOMAIN box : box[i].gen <= counter
    BY <1>1 DEF Covered, Numbered, box
  <2>2. \A i \in DOMAIN Tail(box) : Tail(box)[i].gen <= counter
    BY <1>2, <2>1, EventTaken
  <2>3. \A u \in Tasks : \A i \in DOMAIN outbox'[u] : outbox'[u][i].gen <= counter
    BY <1>2, <2>2 DEF Covered, Numbered
  <2> QED
    BY <1>2, <1>4, <1>5, <2>3 DEF Covered, Numbered
<1>10. StartsPursued'
  <2>1. SUFFICES ASSUME NEW u \in Heard, u = "observer" => Watching
                 PROVE  Pursued(reads[u], outbox'[u])
    BY <1>2 DEF StartsPursued
  <2>2. Pursued(reads[u], outbox[u])
    BY <2>1 DEF Covered, StartsPursued
  <2>3. CASE u = t
    BY <1>2, <2>2, <2>3, EventTaken DEF box
  <2>4. CASE u # t
    BY <1>1, <1>2, <2>2, <2>4
  <2> QED
    BY <2>3, <2>4
<1> QED
  BY <1>7, <1>8, <1>9, <1>10 DEF Covered

\* The observer's steps, in the terms above.
LEMMA ObserverCovers ==
    ASSUME LocalTypeOK, LocalTypeOK', Covered, Observe \/ StreamEnds \/ Reconcile
    PROVE  Covered'
<1>0. /\ "observer" \in Heard /\ "observer" \in Tasks
      /\ counter \in Nat /\ resource.gen \in Nat /\ resource.gen <= counter
      /\ Reserve(0) \in Nat /\ Reserve(0) > counter
      /\ resource \in LocalResources
  BY Generations, Reserved DEF Heard, Tasks, Covered, Numbered
<1>1. ASSUME resource' = resource, counter' = Reserve(0), ReadBegins("observer", Reserve(0)), Watching', NEW events,
             Send("observer", events),
             \/ events = <<Event("Started", Reserve(0), Nothing)>>
             \/ \E e \in LocalEvents :
                    /\ events = <<e, Event("Started", Reserve(0), Nothing)>>
                    /\ e.gen <= Reserve(0)
                    /\ e.kind = "Succeeded" => Brings(reads["observer"], outbox["observer"], e.gen, e.ver)
      PROVE  Covered'
  <2>1. resource' \in LocalResources /\ resource'.gen <= Reserve(0)
    BY <1>0, <1>1
  <2> QED
    BY <1>0, <1>1, <2>1, TaskBegins DEF Covered
<1>2. CASE Connect /\ session' = "watching"
  <2>1. Event("Connected", 0, Nothing) \in LocalEvents /\ Event("Connected", 0, Nothing).gen <= Reserve(0)
        /\ Event("Connected", 0, Nothing).kind = "Connected"
    BY <1>0, EventTypes DEF Nothing
  <2>2. /\ counter' = Reserve(0) /\ ReadBegins("observer", Reserve(0)) /\ resource' = resource
        /\ Send("observer", <<Event("Connected", 0, Nothing), Event("Started", Reserve(0), Nothing)>>)
    BY <1>2 DEF Connect
  <2>3. Watching'
    BY <1>2 DEF Watching
  <2> QED
    BY <1>1, <2>1, <2>2, <2>3
<1>3. ASSUME ~Watching', resource' = resource, counter' = counter, NEW e \in LocalEvents, e.gen = 0,
             Send("observer", <<e>>) \/ outbox' = outbox,
             reads' = reads \/ reads' = [reads EXCEPT !["observer"] = NoRead]
      PROVE  Covered'
  <2>1. AnswersCovered' /\ ResourceCovered'
    BY <1>3, UnsettledCovers DEF Unsettled
  <2>2. \A t \in Tasks : reads'[t].gen <= counter
    <3>1. \A t \in Tasks : reads'[t] = reads[t] \/ reads'[t] = NoRead
      BY <1>3 DEF LocalTypeOK
    <3>2. NoRead.gen <= counter
      BY <1>0, NoReadIsOld
    <3>3. \A t \in Tasks : reads[t].gen <= counter
      BY DEF Covered, Numbered
    <3> QED
      BY <3>1, <3>2, <3>3
  <2>3. \A t \in Tasks \ {"observer"} : outbox'[t] = outbox[t] /\ reads'[t] = reads[t]
    BY <1>3 DEF Send, LocalTypeOK
  <2>4. outbox'["observer"] = outbox["observer"] \/ outbox'["observer"] = outbox["observer"] \o <<e>>
    BY <1>0, <1>3 DEF Send, LocalTypeOK
  <2>5. \A i \in DOMAIN outbox["observer"] : outbox["observer"][i].gen <= counter
    BY <1>0 DEF Covered, Numbered
  <2>6. \A i \in DOMAIN (outbox["observer"] \o <<e>>) : (outbox["observer"] \o <<e>>)[i].gen <= counter
    BY <1>0, <1>3, <2>5, EventSent, Generations
  <2>7. ASSUME NEW t \in Tasks, NEW i \in DOMAIN outbox'[t]
        PROVE  outbox'[t][i].gen <= counter
    BY <2>3, <2>4, <2>5, <2>6, <2>7 DEF Covered, Numbered
  <2>8. Numbered'
    BY <1>3, <1>0, <2>2, <2>7 DEF Numbered
  <2>9. StartsPursued'
    BY <1>3, <2>3 DEF Covered, StartsPursued, Heard, Tasks
  <2> QED
    BY <2>1, <2>8, <2>9 DEF Covered
<1>4. CASE (Connect /\ session' # "watching") \/ Reconnect \/ StreamEnds
  <2>1. Event("Disconnected", 0, Nothing) \in LocalEvents /\ Event("Disconnected", 0, Nothing).gen = 0
    BY EventTypes DEF Nothing
  <2>2. /\ ~Watching' /\ resource' = resource /\ counter' = counter
        /\ Send("observer", <<Event("Disconnected", 0, Nothing)>>) \/ outbox' = outbox
        /\ reads' = reads \/ reads' = [reads EXCEPT !["observer"] = NoRead]
    BY <1>4 DEF Connect, Reconnect, StreamEnds, Watching
  <2> QED
    BY <1>3, <2>1, <2>2
<1>5. CASE Notified
  <2>1. Unsettled' /\ Watching' = Watching
    BY <1>5 DEF Notified, Noticed, Unsettled, Watching
  <2>2. resource' = resource /\ outbox' = outbox /\ counter' = counter /\ reads' = reads
    BY <1>5 DEF Notified
  <2> QED
    BY <1>0, <2>1, <2>2, TaskGoesOn DEF Covered, Numbered
<1>6. CASE Debounced \/ Reconcile
  <2>0. StartRead(<<>>) /\ Watching /\ Watching' /\ resource' = resource /\ daemon' = daemon
    BY <1>6 DEF Debounced, Reconcile, Watching
  <2>1. CASE Observing
    <3>1. Unsettled' /\ counter' = counter /\ reads' = reads /\ Send("observer", <<>>)
      BY <2>0, <2>1 DEF StartRead, Unsettled
    <3>2. outbox' = outbox
      BY <1>0, <3>1, Generations DEF Send, LocalTypeOK
    <3> QED
      BY <1>0, <2>0, <3>1, <3>2, TaskGoesOn DEF Covered, Numbered
  <2>2. CASE ~Observing
    BY <1>0, <1>1, <2>0, <2>2, StartTypes DEF StartRead
  <2> QED
    BY <2>1, <2>2
<1>7. CASE Joined
  <2>0. Watching /\ Watching' /\ resource' = resource /\ daemon' = daemon /\ reads["observer"].step \in {"read", "failed"}
    BY <1>7 DEF Joined, Watching
  <2>1. CASE dirty
    <3>1. /\ Answered("observer") \in LocalEvents /\ Answered("observer").gen <= Reserve(0)
          /\ Answered("observer").kind = "Succeeded" =>
                 Brings(reads["observer"], outbox["observer"], Answered("observer").gen, Answered("observer").ver)
      BY <1>0, AnswerTypes, Generations DEF Covered, Numbered, Brings
    <3> QED
      BY <1>1, <1>7, <2>0, <2>1, <3>1 DEF Joined
  <2>2. CASE ~dirty
    <3>1. /\ counter' = counter /\ reads' = [reads EXCEPT !["observer"] = NoRead]
          /\ Send("observer", <<Answered("observer")>>)
          /\ Unsettled => Unsettled'
      BY <1>7, <2>0, <2>2 DEF Joined, Unsettled
    <3> QED
      BY <1>0, <2>0, <3>1, TaskAnswers
  <2> QED
    BY <2>1, <2>2
<1> QED
  BY <1>2, <1>4, <1>5, <1>6, <1>7 DEF Observe

\* The other steps, but for the end of a mutation.
LEMMA OthersCover ==
    ASSUME LocalTypeOK, LocalTypeOK', Covered, Apart, NEW t \in Tasks,
           \/ ReadLocked(t) \/ ReadAnswers(t) \/ HandleLocal(t) \/ StartRefresh \/ RefreshRead
           \/ AcceptMutation \/ CancelMutation \/ NotDispatched \/ RunCommand \/ MutationReadCancelled \/ MutationRead
           \/ DaemonChanges
    PROVE  Covered'
<1>0. /\ Heard \subseteq Tasks /\ "refresh" \in Heard /\ "mutation" \in Tasks /\ "mutation" \notin Heard
      /\ counter \in Nat /\ resource.gen \in Nat /\ resource.gen <= counter /\ resource \in LocalResources
      /\ Reserve(0) \in Nat /\ Reserve(0) > counter
      /\ DOMAIN reads = Tasks
      /\ \A u \in Tasks : reads[u].gen <= counter /\ reads[u].gen \in Nat /\ reads[u] \in LocalReads
  <2>1. DOMAIN reads = Tasks
    BY DEF LocalTypeOK
  <2> QED
    BY <2>1, Generations, Reserved DEF Heard, Tasks, Covered, Numbered
<1>1. CASE ReadLocked(t)
  <2>1. /\ resource' = resource /\ outbox' = outbox /\ counter' = counter /\ daemon' = daemon
        /\ Unsettled' = Unsettled /\ Watching' = Watching
    BY <1>1 DEF ReadLocked, Unsettled, Watching
  <2>2. \A u \in Tasks : reads'[u] = reads[u] \/ (reads[u].step = "queued" /\ reads'[u] = [reads[u] EXCEPT !.step = "reading"])
    BY <1>0, <1>1 DEF ReadLocked
  <2>3. ASSUME NEW u \in Tasks
        PROVE  reads'[u].gen = reads[u].gen /\ (reads'[u] = reads[u] \/ (reads[u].step = "queued" /\ reads'[u].step = "reading"))
    <3>1. /\ [reads[u] EXCEPT !.step = "reading"].gen = reads[u].gen
          /\ [reads[u] EXCEPT !.step = "reading"].step = "reading"
      BY <1>0, StepKeeps
    <3> QED
      BY <2>2, <3>1
  <2> QED
    BY <1>0, <2>1, <2>3, TaskGoesOn
<1>2. CASE ReadAnswers(t)
  <2>1. /\ resource' = resource /\ outbox' = outbox /\ counter' = counter /\ daemon' = daemon
        /\ Unsettled' = Unsettled /\ Watching' = Watching
    BY <1>2 DEF ReadAnswers, Unsettled, Watching
  <2>2. \A u \in Tasks : \/ reads'[u] = reads[u]
                         \/ reads'[u] = [reads[u] EXCEPT !.step = "read", !.seen = daemon]
                         \/ reads'[u] = [reads[u] EXCEPT !.step = "failed"]
    BY <1>0, <1>2 DEF ReadAnswers
  <2>3. ASSUME NEW u \in Tasks
        PROVE  /\ reads'[u].gen = reads[u].gen
               /\ \/ reads'[u] = reads[u]
                  \/ reads'[u].step = "read" /\ reads'[u].seen.ver = daemon.ver
                  \/ reads'[u].step = "failed"
    <3>1. CASE reads'[u] = [reads[u] EXCEPT !.step = "read", !.seen = daemon]
      BY <1>0, <3>1 DEF LocalReads
    <3>2. CASE reads'[u] = [reads[u] EXCEPT !.step = "failed"]
      BY <1>0, <3>2 DEF LocalReads
    <3> QED
      BY <2>2, <3>1, <3>2
  <2> QED
    BY <1>0, <2>1, <2>3, TaskGoesOn
<1>3. CASE HandleLocal(t)
  <2>1. t \in Heard
    BY <1>3 DEF HandleLocal, Apart, Heard, Tasks
  <2> QED
    BY <1>3, <2>1, HandlerCovers
<1>4. CASE StartRefresh
  <2> DEFINE n == Reserve(resource.gen + 1)
  <2>1. n \in Nat /\ n > counter /\ n >= resource.gen + 1
    BY <1>0, Reserved
  <2>2. /\ counter' = n /\ ReadBegins("refresh", n) /\ Send("refresh", <<Event("Started", n, Nothing)>>)
        /\ resource' = Started(resource, resource.gen + 1)
        /\ Watching' = Watching
    BY <1>4 DEF StartRefresh, Watching
  <2>3. resource' \in LocalResources /\ resource'.gen = resource.gen + 1
    BY <1>0, <2>2 DEF LocalTypeOK, Started, LocalResources
  <2> HIDE DEF n
  <2> QED
    BY <1>0, <2>1, <2>2, <2>3, TaskBegins DEF Covered
<1>5. CASE RefreshRead
  <2>1. /\ reads["refresh"].step \in {"read", "failed"} /\ counter' = counter /\ resource' = resource /\ daemon' = daemon
        /\ Unsettled' = Unsettled /\ Watching' = Watching
        /\ reads' = [reads EXCEPT !["refresh"] = NoRead] /\ Send("refresh", <<Answered("refresh")>>)
    BY <1>5 DEF RefreshRead, Unsettled, Watching
  <2> QED
    BY <1>0, <2>1, TaskAnswers
<1>6. CASE AcceptMutation \/ CancelMutation \/ NotDispatched
  <2>1. /\ resource' = resource /\ outbox' = outbox /\ counter' = counter /\ daemon' = daemon /\ reads' = reads
        /\ Unsettled' = Unsettled /\ Watching' = Watching
    BY <1>6 DEF AcceptMutation, CancelMutation, NotDispatched, Unsettled, Watching
  <2> QED
    BY <1>0, <2>1, TaskGoesOn
<1>7. CASE RunCommand
  <2>1. /\ resource' = resource /\ outbox' = outbox /\ counter' = Reserve(0) /\ Watching' = Watching
        /\ Changes(mutation.up) \/ UNCHANGED <<daemon, notice>>
        /\ ReadBegins("mutation", Reserve(0))
        /\ UNCHANGED <<session, dirty, pending>>
    BY <1>7 DEF RunCommand, Watching
  <2>2. Unsettled' \/ (daemon' = daemon /\ (Unsettled => Unsettled'))
    BY <2>1 DEF Changes, Unsettled, Watching
  <2>3. /\ \A u \in Tasks \ {"mutation"} : reads'[u] = reads[u]
        /\ reads'["mutation"].gen = Reserve(0)
    BY <1>0, <2>1 DEF ReadBegins, NoRead
  <2> QED
    BY <1>0, <2>1, <2>2, <2>3, TaskGoesOn
<1>8. CASE MutationReadCancelled \/ MutationRead
  <2>1. /\ resource' = resource /\ outbox' = outbox /\ counter' = counter /\ daemon' = daemon
        /\ Unsettled' = Unsettled /\ Watching' = Watching
    BY <1>8 DEF MutationReadCancelled, MutationRead, Unsettled, Watching
  <2>2. /\ \A u \in Tasks \ {"mutation"} : reads'[u] = reads[u]
        /\ \/ reads'["mutation"] = NoRead
           \/ reads'["mutation"] = [reads["mutation"] EXCEPT !.step = "failed"]
    BY <1>0, <1>8 DEF MutationReadCancelled, MutationRead
  <2>3. reads'["mutation"].gen <= counter
    <3>1. NoRead.gen <= counter
      BY <1>0, NoReadIsOld
    <3>2. [reads["mutation"] EXCEPT !.step = "failed"].gen <= counter
      BY <1>0, StepKeeps
    <3> QED
      BY <2>2, <3>1, <3>2
  <2> QED
    BY <1>0, <2>1, <2>2, <2>3, TaskGoesOn
<1>9. CASE DaemonChanges
  <2>1. /\ resource' = resource /\ outbox' = outbox /\ counter' = counter /\ reads' = reads /\ Watching' = Watching
        /\ Unsettled'
    BY <1>9 DEF DaemonChanges, Changes, Unsettled, Watching
  <2> QED
    BY <1>0, <2>1, TaskGoesOn
<1> QED
  BY <1>1, <1>2, <1>3, <1>4, <1>5, <1>6, <1>7, <1>8, <1>9

-----------------------------------------------------------------------------
(* The theorems *)

LEMMA LocalTypesInitially == LocalInit => LocalTypeOK
<1> SUFFICES ASSUME LocalInit
             PROVE  LocalTypeOK
  OBVIOUS
<1>1. resource \in LocalResources /\ daemon \in [ver : Nat, up : BOOLEAN]
  BY DEF LocalInit, LocalResources, Nothing
<1>2. reads \in [Tasks -> LocalReads]
  BY ReadSteps DEF LocalInit
<1>3. outbox \in [Tasks -> Seq(LocalEvents)]
  BY DEF LocalInit
<1>4. left \in LocalAllowances
  BY LocalAssumption DEF LocalInit
<1>5. mutation \in LocalMutations \cup {NoMutation} /\ outcome \in Verdicts \cup {NoOutcome}
  BY DEF LocalInit
<1>6. {notice, dirty, pending, connected} \subseteq BOOLEAN
  BY DEF LocalInit
<1> QED
  BY <1>1, <1>2, <1>3, <1>4, <1>5, <1>6 DEF LocalInit, LocalTypeOK

LEMMA LocalTypesStep == LocalTypeOK /\ [LocalNext]_localVars => LocalTypeOK'
<1> SUFFICES ASSUME LocalTypeOK, [LocalNext]_localVars
             PROVE  LocalTypeOK'
  OBVIOUS
<1>1. CASE Observe \/ StreamEnds \/ Reconcile
  BY <1>1, ObserverTypes
<1>2. CASE \E t \in Tasks : ReadLocked(t) \/ ReadAnswers(t) \/ HandleLocal(t)
  BY <1>2, ReadTypes
<1>3. CASE StartRefresh \/ RefreshRead
  BY <1>3, ReadTypes DEF Tasks
<1>4. CASE AcceptMutation \/ CancelMutation \/ Mutate \/ DaemonChanges
  BY <1>4, MutationTypes
<1>5. CASE UNCHANGED localVars
  BY <1>5 DEF localVars, LocalTypeOK
<1> QED
  BY <1>1, <1>2, <1>3, <1>4, <1>5 DEF LocalNext

\* Every variable keeps its type: the observer's reads, their events, the
\* resource they meet in and the mutation, whatever the order of the steps.
THEOREM LocalTypeCorrect == LocalSpec => []LocalTypeOK
BY LocalTypesInitially, LocalTypesStep, PTL DEF LocalSpec

LEMMA CoveredInitially == LocalInit => LocalInv
<1> SUFFICES ASSUME LocalInit
             PROVE  LocalInv
  OBVIOUS
<1>1. LocalTypeOK
  BY LocalTypesInitially
<1>2. MutationConcluded /\ Apart
  BY DEF LocalInit, MutationConcluded, Apart, Tasks
<1>3. Numbered
  <2>1. \A t \in Tasks : reads[t].gen = 0 /\ outbox[t] = <<>>
    BY DEF LocalInit, NoRead
  <2> QED
    BY <2>1 DEF LocalInit, Numbered
<1>4. AnswersCovered /\ ResourceCovered
  BY DEF LocalInit, AnswersCovered, ResourceCovered, Unsettled, Watching
<1>5. StartsPursued
  BY DEF LocalInit, StartsPursued, Pursued, Heard, Tasks
<1> QED
  BY <1>1, <1>2, <1>3, <1>4, <1>5 DEF LocalInv, Covered

\* A mutation has a result before it tells of it.
LEMMA ConcludedStep ==
    ASSUME LocalTypeOK, MutationConcluded, LocalNext
    PROVE  MutationConcluded'
<1>0. mutation # NoMutation => mutation \in LocalMutations
  BY DEF LocalTypeOK
<1>1. CASE AcceptMutation
  BY <1>1 DEF AcceptMutation, MutationConcluded
<1>2. CASE CancelMutation
  <2>1. mutation \in LocalMutations /\ mutation.step # "sent" /\ mutation' = [mutation EXCEPT !.cancel = TRUE]
    BY <1>0, <1>2 DEF CancelMutation
  <2>2. mutation'.step # "sent"
    BY <2>1 DEF LocalMutations
  <2> QED
    BY <2>2 DEF MutationConcluded
<1>3. CASE NotDispatched
  <2>1. /\ mutation \in LocalMutations
        /\ mutation' = [mutation EXCEPT !.step = "sent", !.result = "CancelledBeforeDispatch"]
    BY <1>0, <1>3 DEF NotDispatched, Mutating
  <2>2. mutation'.result = "CancelledBeforeDispatch"
    BY <2>1 DEF LocalMutations
  <2> QED
    BY <2>2 DEF MutationConcluded, NoOutcome
<1>4. CASE RunCommand
  <2>1. mutation \in LocalMutations
    BY <1>0, <1>4 DEF RunCommand, Mutating
  <2>2. \/ mutation' = [mutation EXCEPT !.step = "reading"]
        \/ mutation' = [mutation EXCEPT !.step = "reading", !.error = "Failed"]
        \/ mutation' = [mutation EXCEPT !.step = "reading", !.error = "Interrupted", !.cancel = TRUE]
    BY <1>4 DEF RunCommand
  <2>3. mutation'.step = "reading"
    BY <2>1, <2>2 DEF LocalMutations
  <2> QED
    BY <2>3 DEF MutationConcluded
<1>5. CASE MutationRead
  <2> DEFINE verdict == Verdict(reads["mutation"])
             answer == reads["mutation"]
  <2>1. verdict \in Verdicts /\ verdict # NoOutcome
    BY DEF Verdict, Verdicts, NoOutcome
  <2>2. mutation \in LocalMutations /\ mutation' = [mutation EXCEPT !.step = "sent", !.answer = answer, !.result = verdict]
    BY <1>0, <1>5 DEF MutationRead, Mutating
  <2> HIDE DEF verdict, answer
  <2>3. mutation'.result = verdict
    BY <2>2 DEF LocalMutations
  <2> QED
    BY <2>1, <2>3 DEF MutationConcluded
<1>6. CASE MutationFinished
  BY <1>6 DEF MutationFinished, MutationConcluded
<1>7. CASE \/ Observe \/ StreamEnds \/ Reconcile
           \/ \E t \in Tasks : ReadLocked(t) \/ ReadAnswers(t) \/ HandleLocal(t)
           \/ StartRefresh \/ RefreshRead \/ MutationReadCancelled \/ DaemonChanges
  <2>1. mutation' = mutation
    BY <1>7 DEF Observe, Connect, Reconnect, Notified, Debounced, Joined, StreamEnds, Reconcile, ReadLocked, ReadAnswers,
                HandleLocal, StartRefresh, RefreshRead, MutationReadCancelled, DaemonChanges
  <2> QED
    BY <2>1 DEF MutationConcluded
<1> QED
  BY <1>1, <1>2, <1>3, <1>4, <1>5, <1>6, <1>7 DEF LocalNext, Mutate

\* Only the observer and a refresh send events.
LEMMA ApartStep ==
    ASSUME LocalTypeOK, Apart, LocalNext
    PROVE  Apart'
<1>1. \A events : Send("observer", events) \/ Send("refresh", events) => Apart'
  BY DEF Send, Apart, LocalTypeOK, Tasks
<1>2. CASE Observe \/ StreamEnds \/ Reconcile
  <2>1. outbox' = outbox \/ \E events : Send("observer", events)
    BY <1>2 DEF Observe, Connect, Reconnect, Notified, Debounced, Joined, StreamEnds, Reconcile, StartRead
  <2> QED
    BY <1>1, <2>1 DEF Apart
<1>3. CASE StartRefresh \/ RefreshRead
  BY <1>1, <1>3 DEF StartRefresh, RefreshRead
<1>4. CASE \E t \in Tasks : HandleLocal(t)
  BY <1>4 DEF HandleLocal, Apart, LocalTypeOK, Tasks
<1>5. CASE \/ \E t \in Tasks : ReadLocked(t) \/ ReadAnswers(t)
           \/ AcceptMutation \/ CancelMutation \/ Mutate \/ DaemonChanges
  BY <1>5 DEF ReadLocked, ReadAnswers, AcceptMutation, CancelMutation, Mutate, NotDispatched, RunCommand,
              MutationReadCancelled, MutationRead, MutationFinished, DaemonChanges, Apart
<1> QED
  BY <1>2, <1>3, <1>4, <1>5 DEF LocalNext

LEMMA CoveredStep == LocalInv /\ [LocalNext]_localVars => LocalInv'
<1> SUFFICES ASSUME LocalInv, [LocalNext]_localVars
             PROVE  LocalInv'
  OBVIOUS
<1>1. LocalTypeOK /\ LocalTypeOK' /\ MutationConcluded /\ Apart
  BY LocalTypesStep DEF LocalInv
<1>2. CASE UNCHANGED localVars
  BY <1>1, <1>2 DEF LocalInv, localVars, MutationConcluded, Apart, Covered, Numbered, AnswersCovered, ResourceCovered,
                    StartsPursued, Unsettled, Watching, Due
<1>3. CASE LocalNext
  <2>1. MutationConcluded' /\ Apart'
    BY <1>1, <1>3, ConcludedStep, ApartStep
  <2>2. CASE MutationFinished
    <3>1. outcome' # NoOutcome
      BY <1>1, <2>2 DEF MutationFinished, Mutating, MutationConcluded
    <3> QED
      BY <1>1, <2>1, <3>1 DEF LocalInv
  <2>3. CASE \/ Observe \/ StreamEnds \/ Reconcile
             \/ \E t \in Tasks : ReadLocked(t) \/ ReadAnswers(t) \/ HandleLocal(t)
             \/ StartRefresh \/ RefreshRead \/ AcceptMutation \/ CancelMutation
             \/ NotDispatched \/ RunCommand \/ MutationReadCancelled \/ MutationRead \/ DaemonChanges
    <3>1. outcome' = outcome
      BY <2>3 DEF Observe, Connect, Reconnect, Notified, Debounced, Joined, StreamEnds, Reconcile, ReadLocked, ReadAnswers,
                  HandleLocal, StartRefresh, RefreshRead, AcceptMutation, CancelMutation, NotDispatched, RunCommand,
                  MutationReadCancelled, MutationRead, DaemonChanges
    <3>2. Covered => Covered'
      <4>1. CASE Observe \/ StreamEnds \/ Reconcile
        BY <1>1, <4>1, ObserverCovers
      <4>2. CASE ~(Observe \/ StreamEnds \/ Reconcile)
        BY <1>1, <2>3, <4>2, OthersCover DEF Tasks
      <4> QED
        BY <4>1, <4>2
    <3> QED
      BY <1>1, <2>1, <3>1, <3>2 DEF LocalInv
  <2> QED
    BY <1>3, <2>2, <2>3 DEF LocalNext, Mutate
<1> QED
  BY <1>2, <1>3

\* As long as no mutation has ended no change of the daemon's state is missed:
\* when nothing is under way and nothing waits to be handled, what is shown as
\* fresh is the state the daemon is in, whatever was read, failed, was given up
\* or overtaken, and however often the stream ended.  (After the end of a mutation
\* apply_fresh_snapshot, local_reducer.rs:755, may show an older state as fresh:
\* of that nothing is said.)
THEOREM NoChangeIsMissed == LocalSpec => []QuietMeansCurrent
<1>1. LocalInv => QuietMeansCurrent
  <2> SUFFICES ASSUME LocalInv, Quiet, outcome = NoOutcome, resource.status = "Fresh"
               PROVE  resource.ver = daemon.ver
    BY DEF QuietMeansCurrent
  <2>1. ResourceCovered
    BY DEF LocalInv, Covered
  <2>2. ~Unsettled
    BY DEF Quiet, Unsettled
  <2>3. \A t \in Tasks : reads[t].step = "none" /\ outbox[t] = <<>>
    BY DEF Quiet, NoRead
  <2>4. \A h : ~Due(h)
    BY <2>3 DEF Due, Coming, Heard, Tasks
  <2> QED
    BY <2>1, <2>2, <2>4 DEF ResourceCovered
<1> QED
  BY <1>1, CoveredInitially, CoveredStep, PTL DEF LocalSpec

-----------------------------------------------------------------------------
(* PrivateFiles: the only operation, step by step                          *)

FileBudgets == [script : [Writers -> Seq(FileOperations)], present : SUBSET Names,
                faults : Nat, deaths : Nat, alone : BOOLEAN]

Kept(f) == Entries(f) = before[f].entries
AllKept == \A f \in Files : Kept(f)
OnlyChanged(f, p, v) ==
    /\ \A g \in Files \ {f} : Kept(g)
    /\ Entries(f) = [before[f].entries EXCEPT ![Name(p)] = v]

Viewing(p) == doing[p].op \in {"create", "replace", "rename", "discard"}
Deleting(p) == doing[p].op \in {"remove", "drop"}
Adding(p) == doing[p].op = "add"
Unconfiguring(p) == doing[p].op = "remove" /\ doing[p].yes
Had(p) == previous[p] = before["credentials"].entries[Name(p)]

\* What is on disk, and what the file to be written holds, on the way of the
\* only operation since it began.
Changing(f, p, v) == write[p].file = f /\ write[p].entries = [before[f].entries EXCEPT ![Name(p)] = v]

OnItsWay(p) ==
    \/ /\ Adding(p) /\ AllKept /\ Had(p)
       /\ Changing("credentials", p, p) /\ write[p].then = "profile"
    \/ /\ Adding(p) /\ OnlyChanged("credentials", p, p) /\ Had(p)
       /\ Changing("config", p, p) /\ write[p].then = "stored"
    \/ /\ Adding(p) /\ OnlyChanged("credentials", p, p)
       /\ write[p].file = "credentials" /\ write[p].entries = before["credentials"].entries /\ write[p].then = "undone"
    \/ /\ Unconfiguring(p) /\ AllKept
       /\ Changing("credentials", p, Absent) /\ write[p].then = "unconfigure"
    \/ /\ Deleting(p) /\ ~Unconfiguring(p) /\ AllKept
       /\ Changing("credentials", p, Absent) /\ write[p].then = "removed"
    \/ /\ Unconfiguring(p) /\ OnlyChanged("credentials", p, Absent)
       /\ Changing("config", p, Absent) /\ write[p].then = "removed"
    \/ /\ Viewing(p) /\ AllKept
       /\ write[p].file = "views" /\ write[p].entries = memory[p] /\ write[p].then = "stored"
    \/ /\ doing[p].op = "export" /\ AllKept
       /\ Changing("exports", p, p) /\ write[p].then = "stored"

IsStored(p) ==
    \/ /\ Adding(p)
       /\ \A f \in {"views", "exports"} : Kept(f)
       /\ \A f \in {"credentials", "config"} : Entries(f) = [before[f].entries EXCEPT ![Name(p)] = p]
    \/ doing[p].op = "export" /\ OnlyChanged("exports", p, p)
    \/ /\ Viewing(p)
       /\ \A f \in Files \ {"views"} : Kept(f)
       /\ Entries("views") = memory[p]

IsRemoved(p) ==
    /\ Deleting(p)
    /\ \A f \in {"views", "exports"} : Kept(f)
    /\ Entries("credentials") = [before["credentials"].entries EXCEPT ![Name(p)] = Absent]
    /\ IF Unconfiguring(p) THEN Entries("config") = [before["config"].entries EXCEPT ![Name(p)] = Absent]
       ELSE Kept("config")

InOrder(p) ==
    Adding(p) => \A n \in Names : Entries("config")[n] # before["config"].entries[n] => Entries("credentials")[n] = p

Underway(p) ==
    /\ pc[p] = "get" => Adding(p) /\ AllKept
    /\ pc[p] = "set" => Adding(p) /\ AllKept /\ Had(p)
    /\ pc[p] \in {"profile", "undo"} => Adding(p) /\ OnlyChanged("credentials", p, p) /\ Had(p)
    /\ pc[p] = "delete" => Deleting(p) /\ AllKept
    /\ pc[p] = "unconfigure" => Unconfiguring(p) /\ OnlyChanged("credentials", p, Absent)
    /\ pc[p] = "view" => Viewing(p) /\ AllKept
    /\ pc[p] = "export" => doing[p].op = "export" /\ AllKept
    /\ pc[p] \in {"create", "fill", "move"} => OnItsWay(p)
    /\ pc[p] = "stored" => IsStored(p)
    /\ pc[p] = "undone" => Adding(p) /\ AllKept
    /\ pc[p] = "removed" => IsRemoved(p)
    /\ pc[p] = "idle" => AsSaid(p)
    /\ InOrder(p)

WholeFiles == \A f \in Files : disk[f].whole /\ before[f].whole
OwnFile ==
    \A p \in Writers :
        /\ pc[p] \notin {"create", "fill", "move", "dead"} => write[p] = NoFile
        /\ pc[p] = "move" => write[p].temp = "whole"
        /\ pc[p] \in {"create", "fill", "move"} => write[p].file # "none" /\ write[p].then # "none"
        /\ pc[p] \notin {"idle", "dead"} => doing[p] \in FileOperations
OneAtATime ==
    budget.alone => \A p \in Writers : pc[p] \notin {"idle", "dead"} => p = latest
Faithful == budget.alone /\ latest # Absent => Underway(latest)

FilesInv ==
    /\ FilesTypeOK
    /\ budget \in FileBudgets
    /\ WholeFiles /\ OwnFile /\ OneAtATime /\ Faithful

-----------------------------------------------------------------------------
(* Types *)

Thens == {"profile", "stored", "undone", "unconfigure", "removed"}
Tellings == {"nothing", "refused", "failed", "failed, not undone", "stored", "removed"}

LEMMA FileBudgetSpent ==
    ASSUME budget \in FileBudgets, NEW what \in {"faults", "deaths"}, budget[what] > 0,
           budget' = [budget EXCEPT ![what] = @ - 1]
    PROVE  budget' \in FileBudgets /\ budget'.alone = budget.alone
BY DEF FileBudgets

LEMMA FaultSpent ==
    ASSUME budget \in FileBudgets, Faulty
    PROVE  budget' \in FileBudgets /\ budget'.alone = budget.alone
<1>1. budget["faults"] > 0 /\ budget' = [budget EXCEPT !["faults"] = @ - 1]
  BY DEF Faulty
<1> QED
  BY <1>1, FileBudgetSpent

LEMMA DeathSpent ==
    ASSUME budget \in FileBudgets, budget.deaths > 0, budget' = [budget EXCEPT !.deaths = @ - 1]
    PROVE  budget' \in FileBudgets /\ budget'.alone = budget.alone
BY FileBudgetSpent

LEMMA OneValueChanged ==
    ASSUME NEW e \in FileEntries, NEW n \in Names, NEW v \in FileValues
    PROVE  /\ [e EXCEPT ![n] = v] \in FileEntries
           /\ [e EXCEPT ![n] = v][n] = v
           /\ \A m \in Names \ {n} : [e EXCEPT ![n] = v][m] = e[m]
BY DEF FileEntries

LEMMA GoesOnTyped ==
    ASSUME FilesTypeOK, NEW p \in Writers, NEW step \in FileSteps, GoesOn(p, step)
    PROVE  /\ pc' \in [Writers -> FileSteps]
           /\ pc'[p] = step /\ \A q \in Writers \ {p} : pc'[q] = pc[q]
BY DEF FilesTypeOK, GoesOn

LEMMA TellsTyped ==
    ASSUME FilesTypeOK, NEW p \in Writers, NEW what \in Tellings, Tells(p, what)
    PROVE  /\ said' \in [Writers -> Tellings]
           /\ said'[p] = what /\ \A q \in Writers \ {p} : said'[q] = said[q]
           /\ pc' \in [Writers -> FileSteps]
           /\ pc'[p] = "idle" /\ \A q \in Writers \ {p} : pc'[q] = pc[q]
<1>1. GoesOn(p, "idle") /\ said' = [said EXCEPT ![p] = what] /\ "idle" \in FileSteps
  BY DEF Tells, FileSteps
<1> QED
  BY <1>1, GoesOnTyped DEF FilesTypeOK, Tellings

LEMMA WritesTyped ==
    ASSUME FilesTypeOK, NEW p \in Writers, NEW f \in Files, NEW n \in Names, NEW v \in FileValues, NEW then \in Thens,
           Writes(p, f, n, v, then)
    PROVE  /\ write' \in [Writers -> FileWrites]
           /\ write'[p].file = f /\ write'[p].then = then /\ write'[p].temp = "none"
           /\ write'[p].entries = [Base(f, p) EXCEPT ![n] = v]
           /\ \A q \in Writers \ {p} : write'[q] = write[q]
           /\ pc' \in [Writers -> FileSteps]
           /\ pc'[p] = "create" /\ \A q \in Writers \ {p} : pc'[q] = pc[q]
<1> DEFINE e == [Base(f, p) EXCEPT ![n] = v]
           w == [file |-> f, entries |-> e, temp |-> "none", then |-> then]
<1>1. Base(f, p) \in FileEntries
  BY DEF Base, Entries, FilesTypeOK
<1>2. e \in FileEntries
  BY <1>1, OneValueChanged
<1>3. w \in FileWrites /\ w.file = f /\ w.then = then /\ w.temp = "none" /\ w.entries = e
  BY <1>2 DEF FileWrites, Thens
<1>4. write' = [write EXCEPT ![p] = w] /\ GoesOn(p, "create") /\ "create" \in FileSteps
  BY DEF Writes, FileSteps
<1> HIDE DEF e, w
<1>5. write' \in [Writers -> FileWrites] /\ write'[p] = w /\ \A q \in Writers \ {p} : write'[q] = write[q]
  BY <1>3, <1>4 DEF FilesTypeOK
<1> QED
  BY <1>3, <1>4, <1>5, GoesOnTyped DEF e

LEMMA NoFileTyped == NoFile \in FileWrites
<1>1. [n \in Names |-> Absent] \in FileEntries
  BY DEF FileEntries, FileValues
<1> QED
  BY <1>1 DEF NoFile, FileWrites

LEMMA FileDropped ==
    ASSUME FilesTypeOK, NEW p \in Writers, write' = [write EXCEPT ![p] = NoFile]
    PROVE  /\ write' \in [Writers -> FileWrites]
           /\ write'[p] = NoFile /\ \A q \in Writers \ {p} : write'[q] = write[q]
BY NoFileTyped DEF FilesTypeOK

LEMMA NamesAnOperation ==
    ASSUME NEW p \in Writers, doing[p] \in FileOperations
    PROVE  Name(p) \in Names
BY DEF Name, FileOperations

-----------------------------------------------------------------------------
(* The part of the invariant that relates no two files *)

FilesApart ==
    /\ FilesTypeOK
    /\ budget \in FileBudgets
    /\ WholeFiles /\ OwnFile /\ OneAtATime

\* A step of p that begins nothing and moves no file.
LEMMA ApartKept ==
    ASSUME FilesApart, NEW p \in Writers, pc[p] \notin {"idle", "dead"},
           budget' \in FileBudgets, budget'.alone = budget.alone,
           UNCHANGED <<disk, todo, doing, before, latest>>,
           pc' \in [Writers -> FileSteps], \A q \in Writers \ {p} : pc'[q] = pc[q],
           write' \in [Writers -> FileWrites], \A q \in Writers \ {p} : write'[q] = write[q],
           previous' \in [Writers -> FileValues], memory' \in [Writers -> FileEntries],
           said' \in [Writers -> Tellings],
           pc'[p] \notin {"create", "fill", "move", "dead"} => write'[p] = NoFile,
           pc'[p] = "move" => write'[p].temp = "whole",
           pc'[p] \in {"create", "fill", "move"} => write'[p].file # "none" /\ write'[p].then # "none"
    PROVE  FilesApart'
<1>1. FilesTypeOK'
  BY DEF FilesApart, FilesTypeOK, Tellings
<1>2. WholeFiles'
  BY DEF FilesApart, WholeFiles
<1>3. OwnFile'
  BY DEF FilesApart, OwnFile
<1>4. OneAtATime'
  BY DEF FilesApart, OneAtATime
<1> QED
  BY <1>1, <1>2, <1>3, <1>4 DEF FilesApart

LEMMA FirstAndRest ==
    ASSUME NEW S, NEW s \in Seq(S), s # <<>>
    PROVE  Head(s) \in S /\ Tail(s) \in Seq(S)
OBVIOUS

LEMMA BeginApart ==
    ASSUME FilesApart, NEW p \in Writers, Begin(p)
    PROVE  FilesApart'
<1> DEFINE o == Head(todo[p])
<1>1. o \in FileOperations /\ Tail(todo[p]) \in Seq(FileOperations)
  <2>1. todo[p] \in Seq(FileOperations) /\ todo[p] # <<>>
    BY DEF FilesApart, FilesTypeOK, Begin
  <2> QED
    BY <2>1, FirstAndRest
<1>2. doing' \in [Writers -> FileOperations \cup {NoOperation}] /\ doing'[p] = o
      /\ \A q \in Writers \ {p} : doing'[q] = doing[q]
  BY <1>1 DEF FilesApart, FilesTypeOK, Begin
<1>3. todo' \in [Writers -> Seq(FileOperations)]
  BY <1>1 DEF FilesApart, FilesTypeOK, Begin
<1>4. FirstStep(o.op) \in {"get", "delete", "export", "view"}
  BY <1>1 DEF FirstStep, FileOperations
<1>5. /\ pc' \in [Writers -> FileSteps] /\ said' \in [Writers -> Tellings]
      /\ pc'[p] \in {"idle", "get", "delete", "export", "view"}
      /\ \A q \in Writers \ {p} : pc'[q] = pc[q]
  <2>1. FilesTypeOK
    BY DEF FilesApart
  <2>2. CASE o.op \in {"remove", "drop"} /\ Entries("config")[o.name] = Absent
    <3>1. Tells(p, "refused")
      BY <2>2 DEF Begin
    <3> QED
      BY <2>1, <3>1, TellsTyped DEF Tellings
  <2>3. CASE ~(o.op \in {"remove", "drop"} /\ Entries("config")[o.name] = Absent)
    <3>1. GoesOn(p, FirstStep(o.op)) /\ said' = [said EXCEPT ![p] = "nothing"]
      BY <2>3 DEF Begin
    <3>2. FirstStep(o.op) \in FileSteps
      BY <1>4 DEF FileSteps
    <3>3. said' \in [Writers -> Tellings]
      BY <2>1, <3>1 DEF FilesTypeOK, Tellings
    <3> HIDE DEF o
    <3> QED
      BY <1>4, <2>1, <3>1, <3>2, <3>3, GoesOnTyped
  <2> QED
    BY <2>2, <2>3
<1>6. UNCHANGED <<budget, disk, write, previous, memory>> /\ before' = disk /\ latest' = p /\ pc[p] = "idle"
  BY DEF Begin, At
<1>7. FilesTypeOK'
  BY <1>2, <1>3, <1>5, <1>6 DEF FilesApart, FilesTypeOK, Tellings
<1>8. WholeFiles'
  BY <1>6 DEF FilesApart, WholeFiles
<1>9. OwnFile'
  BY <1>1, <1>2, <1>5, <1>6 DEF FilesApart, OwnFile
<1>10. OneAtATime'
  <2>1. budget.alone => \A q \in Writers : pc[q] \in {"idle", "dead"}
    BY DEF Begin
  <2> QED
    BY <1>5, <1>6, <2>1 DEF OneAtATime
<1> QED
  BY <1>6, <1>7, <1>8, <1>9, <1>10 DEF FilesApart

-----------------------------------------------------------------------------
(* What the invariant says of the only operation *)

LEMMA SameDisk ==
    ASSUME FilesApart, AllKept
    PROVE  disk = before
<1> DEFINE R == [whole : BOOLEAN, entries : FileEntries]
<1>1. disk \in [Files -> R] /\ before \in [Files -> R]
  BY DEF FilesApart, FilesTypeOK
<1>2. \A a, b \in R : a.whole = b.whole /\ a.entries = b.entries => a = b
  OBVIOUS
<1>3. \A f \in Files : disk[f] \in R /\ before[f] \in R
  BY <1>1
<1>4. \A f \in Files : disk[f].whole /\ before[f].whole
  BY DEF FilesApart, WholeFiles
<1>5. \A f \in Files : disk[f].whole = before[f].whole /\ disk[f].entries = before[f].entries
  BY <1>3, <1>4 DEF AllKept, Kept, Entries
<1>6. \A f \in Files : disk[f] = before[f]
  BY <1>2, <1>3, <1>5
<1> HIDE DEF R
<1> QED
  BY <1>1, <1>6

LEMMA EntriesTyped ==
    ASSUME FilesApart, NEW f \in Files
    PROVE  Entries(f) \in FileEntries /\ before[f].entries \in FileEntries
BY DEF FilesApart, FilesTypeOK, Entries

\* An operation that fails having changed nothing tells the truth.
LEMMA NothingChanged ==
    ASSUME FilesApart, NEW p \in Writers, AllKept, UNCHANGED <<disk, before, doing>>,
           said'[p] \in {"nothing", "refused", "failed", "failed, not undone"}
    PROVE  AsSaid(p)'
<1>1. disk = before
  BY SameDisk
<1> QED
  BY <1>1 DEF AsSaid, Entries

\* One that fails having changed a credential says so, or is a removal.
LEMMA CredentialChanged ==
    ASSUME FilesApart, NEW p \in Writers, NEW v, doing[p] \in FileOperations,
           OnlyChanged("credentials", p, v), UNCHANGED <<disk, before, doing>>,
           \/ said'[p] = "failed, not undone"
           \/ said'[p] = "failed" /\ doing[p].op = "remove"
    PROVE  AsSaid(p)'
<1>1. Name(p) \in Names /\ before["credentials"].entries \in FileEntries
  BY NamesAnOperation, EntriesTyped DEF Files
<1>2. \A m \in Names \ {Name(p)} : Entries("credentials")[m] = before["credentials"].entries[m]
  BY <1>1 DEF OnlyChanged, FileEntries
<1>3. \A f \in Files \ {"credentials"} : Entries(f) = before[f].entries
  BY DEF OnlyChanged, Kept
<1>4. \A m \in Names \ {Name(p)} : \A f \in Files \ {"views"} : Entries(f)[m] = before[f].entries[m]
  BY <1>2, <1>3
<1>5. Entries("config") = before["config"].entries
  BY <1>3 DEF Files
<1> QED
  BY <1>4, <1>5 DEF AsSaid, Entries, Name

LEMMA OrderKept ==
    ASSUME NEW p \in Writers, UNCHANGED <<disk, before, doing>>, InOrder(p)
    PROVE  InOrder(p)'
BY DEF InOrder, Adding, Entries

\* A step that moves no file leaves these as they are.
LEMMA UnmovedKept ==
    ASSUME NEW p \in Writers, UNCHANGED <<disk, before, doing>>
    PROVE  /\ AllKept' <=> AllKept
           /\ \A f, v : OnlyChanged(f, p, v)' <=> OnlyChanged(f, p, v)
           /\ Name(p)' = Name(p)
           /\ Adding(p)' <=> Adding(p)
           /\ Viewing(p)' <=> Viewing(p)
           /\ Deleting(p)' <=> Deleting(p)
           /\ Unconfiguring(p)' <=> Unconfiguring(p)
           /\ previous'[p] = previous[p] => (Had(p)' <=> Had(p))
BY DEF AllKept, OnlyChanged, Kept, Entries, Name, Adding, Viewing, Deleting, Unconfiguring, Had

-----------------------------------------------------------------------------
(* Each step of an operation *)

LEMMA AddGetsStep ==
    ASSUME FilesApart, NEW p \in Writers, AddGets(p)
    PROVE  FilesApart' /\ (Underway(p) => Underway(p)')
<1>1. /\ pc[p] = "get" /\ UNCHANGED <<disk, todo, doing, memory, before, latest, write>>
      /\ FilesTypeOK /\ budget \in FileBudgets /\ write[p] = NoFile /\ doing[p] \in FileOperations
  BY DEF AddGets, At, ProgressOnly, FilesApart, OwnFile
<1>2. CASE Faulty /\ Tells(p, "failed") /\ UNCHANGED previous
  <2>1. /\ said' \in [Writers -> Tellings] /\ said'[p] = "failed" /\ pc'[p] = "idle"
        /\ pc' \in [Writers -> FileSteps] /\ \A q \in Writers \ {p} : pc'[q] = pc[q]
    BY <1>1, <1>2, TellsTyped DEF Tellings
  <2>2. FilesApart'
    BY <1>1, <1>2, <2>1, FaultSpent, ApartKept DEF FilesTypeOK
  <2>3. ASSUME Underway(p) PROVE Underway(p)'
    BY <1>1, <2>1, <2>3, NothingChanged, OrderKept DEF Underway
  <2> QED
    BY <2>2, <2>3
<1>3. CASE /\ previous' = [previous EXCEPT ![p] = Entries("credentials")[Name(p)]]
           /\ GoesOn(p, "set")
           /\ UNCHANGED <<budget, said>>
  <2>1. pc' \in [Writers -> FileSteps] /\ pc'[p] = "set" /\ \A q \in Writers \ {p} : pc'[q] = pc[q]
    BY <1>1, <1>3, GoesOnTyped DEF FileSteps
  <2>2. Entries("credentials")[Name(p)] \in FileValues
    BY <1>1, NamesAnOperation, EntriesTyped DEF Files, FileEntries
  <2>3. previous' \in [Writers -> FileValues] /\ previous'[p] = Entries("credentials")[Name(p)]
    BY <1>1, <1>3, <2>2 DEF FilesTypeOK
  <2>4. FilesApart'
    BY <1>1, <1>3, <2>1, <2>3, ApartKept DEF FilesTypeOK, Tellings
  <2>5. ASSUME Underway(p) PROVE Underway(p)'
    <3>1. Adding(p) /\ AllKept /\ InOrder(p)
      BY <1>1, <2>5 DEF Underway
    <3>2. Adding(p)' /\ AllKept' /\ InOrder(p)'
      BY <1>1, <3>1, UnmovedKept, OrderKept
    <3>3. Had(p)'
      BY <1>1, <2>3, <3>1 DEF Had, AllKept, Kept, Files, Entries, Name
    <3> QED
      BY <2>1, <3>2, <3>3 DEF Underway
  <2> QED
    BY <2>4, <2>5
<1> QED
  BY <1>2, <1>3 DEF AddGets

LEMMA AddSetsStep ==
    ASSUME FilesApart, NEW p \in Writers, AddSets(p)
    PROVE  FilesApart' /\ (Underway(p) => Underway(p)')
<1>1. /\ pc[p] = "set" /\ UNCHANGED <<disk, todo, doing, memory, before, latest, previous>>
      /\ FilesTypeOK /\ budget \in FileBudgets /\ write[p] = NoFile /\ doing[p] \in FileOperations
  BY DEF AddSets, At, ProgressOnly, FilesApart, OwnFile
<1>2. CASE Faulty /\ Tells(p, "failed") /\ UNCHANGED write
  <2>1. /\ said' \in [Writers -> Tellings] /\ said'[p] = "failed" /\ pc'[p] = "idle"
        /\ pc' \in [Writers -> FileSteps] /\ \A q \in Writers \ {p} : pc'[q] = pc[q]
    BY <1>1, <1>2, TellsTyped DEF Tellings
  <2>2. FilesApart'
    BY <1>1, <1>2, <2>1, FaultSpent, ApartKept DEF FilesTypeOK
  <2>3. ASSUME Underway(p) PROVE Underway(p)'
    BY <1>1, <2>1, <2>3, NothingChanged, OrderKept DEF Underway
  <2> QED
    BY <2>2, <2>3
<1>3. CASE Writes(p, "credentials", Name(p), p, "profile") /\ UNCHANGED <<budget, said>>
  <2>1. /\ write' \in [Writers -> FileWrites]
        /\ write'[p].file = "credentials" /\ write'[p].then = "profile"
        /\ write'[p].entries = [Base("credentials", p) EXCEPT ![Name(p)] = p]
        /\ \A q \in Writers \ {p} : write'[q] = write[q]
        /\ pc' \in [Writers -> FileSteps]
        /\ pc'[p] = "create" /\ \A q \in Writers \ {p} : pc'[q] = pc[q]
    <3>1. Name(p) \in Names /\ "credentials" \in Files /\ p \in FileValues /\ "profile" \in Thens
      BY <1>1, NamesAnOperation DEF Files, FileValues, Thens
    <3> QED
      BY <1>1, <1>3, <3>1, WritesTyped
  <2>2. FilesApart'
    BY <1>1, <1>3, <2>1, ApartKept DEF FilesTypeOK, Tellings
  <2>3. ASSUME Underway(p) PROVE Underway(p)'
    <3>1. Adding(p) /\ AllKept /\ Had(p) /\ InOrder(p)
      BY <1>1, <2>3 DEF Underway
    <3>2. Adding(p)' /\ AllKept' /\ Had(p)' /\ InOrder(p)'
      BY <1>1, <3>1, UnmovedKept, OrderKept
    <3>3. Changing("credentials", p, p)'
      BY <1>1, <2>1, <3>1 DEF Changing, AllKept, Kept, Base, Files, Name
    <3>4. OnItsWay(p)'
      BY <2>1, <3>2, <3>3 DEF OnItsWay
    <3> QED
      BY <2>1, <3>2, <3>4 DEF Underway
  <2> QED
    BY <2>2, <2>3
<1> QED
  BY <1>2, <1>3 DEF AddSets

LEMMA AddsProfileStep ==
    ASSUME FilesApart, NEW p \in Writers, AddsProfile(p)
    PROVE  FilesApart' /\ (Underway(p) => Underway(p)')
<1>1. /\ pc[p] = "profile" /\ UNCHANGED <<disk, todo, doing, memory, before, latest, previous, said>>
      /\ FilesTypeOK /\ budget \in FileBudgets /\ write[p] = NoFile /\ doing[p] \in FileOperations
  BY DEF AddsProfile, At, ProgressOnly, FilesApart, OwnFile
<1>2. ASSUME Underway(p)
      PROVE  /\ Adding(p) /\ OnlyChanged("credentials", p, p) /\ Had(p)
             /\ Adding(p)' /\ OnlyChanged("credentials", p, p)' /\ Had(p)' /\ InOrder(p)'
  <2>1. Adding(p) /\ OnlyChanged("credentials", p, p) /\ Had(p) /\ InOrder(p)
    BY <1>1, <1>2 DEF Underway
  <2> QED
    BY <1>1, <2>1, UnmovedKept, OrderKept
<1>3. CASE Faulty /\ GoesOn(p, "undo") /\ UNCHANGED write
  <2>1. pc'[p] = "undo" /\ pc' \in [Writers -> FileSteps] /\ \A q \in Writers \ {p} : pc'[q] = pc[q]
    BY <1>1, <1>3, GoesOnTyped DEF FileSteps
  <2>2. FilesApart'
    BY <1>1, <1>3, <2>1, FaultSpent, ApartKept DEF FilesTypeOK, Tellings
  <2>3. ASSUME Underway(p) PROVE Underway(p)'
    BY <1>2, <2>1, <2>3 DEF Underway
  <2> QED
    BY <2>2, <2>3
<1>4. CASE Writes(p, "config", Name(p), p, "stored") /\ UNCHANGED budget
  <2>1. /\ write' \in [Writers -> FileWrites]
        /\ write'[p].file = "config" /\ write'[p].then = "stored"
        /\ write'[p].entries = [Base("config", p) EXCEPT ![Name(p)] = p]
        /\ \A q \in Writers \ {p} : write'[q] = write[q]
        /\ pc' \in [Writers -> FileSteps]
        /\ pc'[p] = "create" /\ \A q \in Writers \ {p} : pc'[q] = pc[q]
    <3>1. Name(p) \in Names /\ "config" \in Files /\ p \in FileValues /\ "stored" \in Thens
      BY <1>1, NamesAnOperation DEF Files, FileValues, Thens
    <3> QED
      BY <1>1, <1>4, <3>1, WritesTyped
  <2>2. FilesApart'
    BY <1>1, <1>4, <2>1, ApartKept DEF FilesTypeOK, Tellings
  <2>3. ASSUME Underway(p) PROVE Underway(p)'
    <3>1. Changing("config", p, p)'
      BY <1>1, <1>2, <2>1, <2>3 DEF Changing, OnlyChanged, Kept, Base, Files, Name
    <3>2. OnItsWay(p)'
      BY <1>2, <2>1, <2>3, <3>1 DEF OnItsWay
    <3> QED
      BY <1>2, <2>1, <2>3, <3>2 DEF Underway
  <2> QED
    BY <2>2, <2>3
<1> QED
  BY <1>3, <1>4 DEF AddsProfile

LEMMA UndoStep ==
    ASSUME FilesApart, NEW p \in Writers, Undo(p)
    PROVE  FilesApart' /\ (Underway(p) => Underway(p)')
<1>1. /\ pc[p] = "undo" /\ UNCHANGED <<disk, todo, doing, memory, before, latest, previous>>
      /\ FilesTypeOK /\ budget \in FileBudgets /\ write[p] = NoFile /\ doing[p] \in FileOperations
  BY DEF Undo, At, ProgressOnly, FilesApart, OwnFile
<1>2. ASSUME Underway(p)
      PROVE  /\ Adding(p) /\ OnlyChanged("credentials", p, p) /\ Had(p)
             /\ Adding(p)' /\ OnlyChanged("credentials", p, p)' /\ Had(p)' /\ InOrder(p)'
  <2>1. Adding(p) /\ OnlyChanged("credentials", p, p) /\ Had(p) /\ InOrder(p)
    BY <1>1, <1>2 DEF Underway
  <2> QED
    BY <1>1, <2>1, UnmovedKept, OrderKept
<1>3. CASE Faulty /\ Tells(p, "failed, not undone") /\ UNCHANGED write
  <2>1. /\ said' \in [Writers -> Tellings] /\ said'[p] = "failed, not undone" /\ pc'[p] = "idle"
        /\ pc' \in [Writers -> FileSteps] /\ \A q \in Writers \ {p} : pc'[q] = pc[q]
    BY <1>1, <1>3, TellsTyped DEF Tellings
  <2>2. FilesApart'
    BY <1>1, <1>3, <2>1, FaultSpent, ApartKept DEF FilesTypeOK
  <2>3. ASSUME Underway(p) PROVE Underway(p)'
    <3>1. AsSaid(p)'
      BY <1>1, <1>2, <2>1, <2>3, CredentialChanged
    <3> QED
      BY <1>2, <2>1, <2>3, <3>1 DEF Underway
  <2> QED
    BY <2>2, <2>3
<1>4. CASE Writes(p, "credentials", Name(p), previous[p], "undone") /\ UNCHANGED <<budget, said>>
  <2>0. previous[p] \in FileValues
    BY <1>1 DEF FilesTypeOK
  <2>1. /\ write' \in [Writers -> FileWrites]
        /\ write'[p].file = "credentials" /\ write'[p].then = "undone"
        /\ write'[p].entries = [Base("credentials", p) EXCEPT ![Name(p)] = previous[p]]
        /\ \A q \in Writers \ {p} : write'[q] = write[q]
        /\ pc' \in [Writers -> FileSteps]
        /\ pc'[p] = "create" /\ \A q \in Writers \ {p} : pc'[q] = pc[q]
    BY <1>1, <1>4, <2>0, NamesAnOperation, WritesTyped DEF Files, Thens
  <2>2. FilesApart'
    BY <1>1, <1>4, <2>1, ApartKept DEF FilesTypeOK, Tellings
  <2>3. ASSUME Underway(p) PROVE Underway(p)'
    <3>1. before["credentials"].entries \in FileEntries /\ Name(p) \in Names
      BY <1>1, EntriesTyped, NamesAnOperation DEF Files
    <3>2. write'[p].entries = before["credentials"].entries
      BY <1>2, <2>1, <2>3, <3>1 DEF OnlyChanged, Had, Base, FileEntries
    <3>3. OnItsWay(p)'
      BY <1>1, <1>2, <2>1, <2>3, <3>2 DEF OnItsWay
    <3> QED
      BY <1>2, <2>1, <2>3, <3>3 DEF Underway
  <2> QED
    BY <2>2, <2>3
<1> QED
  BY <1>3, <1>4 DEF Undo

LEMMA NothingToRemove ==
    ASSUME FilesApart, NEW p \in Writers, doing[p] \in FileOperations, NEW f \in Files,
           \A g \in Files \ {f} : Kept(g), Kept(f), Entries(f)[Name(p)] = Absent
    PROVE  OnlyChanged(f, p, Absent)
<1>1. Entries(f) \in FileEntries /\ Name(p) \in Names
  BY EntriesTyped, NamesAnOperation
<1>2. Entries(f) = [before[f].entries EXCEPT ![Name(p)] = Absent]
  BY <1>1 DEF Kept, FileEntries
<1> QED
  BY <1>2 DEF OnlyChanged

LEMMA DeletesStep ==
    ASSUME FilesApart, NEW p \in Writers, Deletes(p)
    PROVE  FilesApart' /\ (Underway(p) => Underway(p)')
<1> DEFINE next == IF doing[p].op = "remove" /\ doing[p].yes THEN "unconfigure" ELSE "removed"
<1>1. /\ pc[p] = "delete" /\ UNCHANGED <<disk, todo, doing, memory, before, latest, previous>>
      /\ FilesTypeOK /\ budget \in FileBudgets /\ write[p] = NoFile /\ doing[p] \in FileOperations
  BY DEF Deletes, At, ProgressOnly, FilesApart, OwnFile
<1>2. ASSUME Underway(p)
      PROVE  Deleting(p) /\ AllKept /\ InOrder(p)' /\ AllKept' /\ Deleting(p)'
  <2>1. Deleting(p) /\ AllKept /\ InOrder(p)
    BY <1>1, <1>2 DEF Underway
  <2> QED
    BY <1>1, <2>1, UnmovedKept, OrderKept
<1>3. CASE Faulty /\ Tells(p, "failed") /\ UNCHANGED write
  <2>1. /\ said' \in [Writers -> Tellings] /\ said'[p] = "failed" /\ pc'[p] = "idle"
        /\ pc' \in [Writers -> FileSteps] /\ \A q \in Writers \ {p} : pc'[q] = pc[q]
    BY <1>1, <1>3, TellsTyped DEF Tellings
  <2>2. FilesApart'
    BY <1>1, <1>3, <2>1, FaultSpent, ApartKept DEF FilesTypeOK
  <2>3. ASSUME Underway(p) PROVE Underway(p)'
    <3>1. AsSaid(p)'
      BY <1>1, <1>2, <2>1, <2>3, NothingChanged
    <3> QED
      BY <1>2, <2>1, <2>3, <3>1 DEF Underway
  <2> QED
    BY <2>2, <2>3
<1>4. CASE Writes(p, "credentials", Name(p), Absent, next) /\ UNCHANGED <<budget, said>>
  <2>0. next \in Thens
    BY DEF Thens
  <2>1. /\ write' \in [Writers -> FileWrites]
        /\ write'[p].file = "credentials" /\ write'[p].then = next
        /\ write'[p].entries = [Base("credentials", p) EXCEPT ![Name(p)] = Absent]
        /\ \A q \in Writers \ {p} : write'[q] = write[q]
        /\ pc' \in [Writers -> FileSteps]
        /\ pc'[p] = "create" /\ \A q \in Writers \ {p} : pc'[q] = pc[q]
    <3> HIDE DEF next
    <3>1. Name(p) \in Names /\ "credentials" \in Files /\ Absent \in FileValues
      BY <1>1, NamesAnOperation DEF Files, FileValues
    <3> QED
      BY <1>1, <1>4, <2>0, <3>1, WritesTyped
  <2>2. FilesApart'
    BY <1>1, <1>4, <2>0, <2>1, ApartKept DEF FilesTypeOK, Tellings
  <2>3. ASSUME Underway(p) PROVE Underway(p)'
    <3>1. Changing("credentials", p, Absent)'
      BY <1>1, <1>2, <2>1, <2>3 DEF Changing, AllKept, Kept, Base, Files, Name
    <3>2. Unconfiguring(p)' <=> next = "unconfigure"
      BY <1>1 DEF Unconfiguring
    <3>3. OnItsWay(p)'
      BY <1>2, <2>1, <2>3, <3>1, <3>2 DEF OnItsWay
    <3> QED
      BY <1>2, <2>1, <2>3, <3>3 DEF Underway
  <2> QED
    BY <2>2, <2>3
<1>5. CASE /\ Entries("credentials")[Name(p)] = Absent
           /\ GoesOn(p, next) /\ UNCHANGED <<budget, said, write>>
  <2>1. pc'[p] = next /\ pc' \in [Writers -> FileSteps] /\ \A q \in Writers \ {p} : pc'[q] = pc[q]
    BY <1>1, <1>5, GoesOnTyped DEF FileSteps
  <2>2. FilesApart'
    BY <1>1, <1>5, <2>1, ApartKept DEF FilesTypeOK, Tellings
  <2>3. ASSUME Underway(p) PROVE Underway(p)'
    <3>1. OnlyChanged("credentials", p, Absent)
      BY <1>1, <1>2, <1>5, <2>3, NothingToRemove DEF AllKept, Files
    <3>2. OnlyChanged("credentials", p, Absent)' /\ (Unconfiguring(p)' <=> Unconfiguring(p))
      BY <1>1, <3>1, UnmovedKept
    <3>3. CASE next = "unconfigure"
      BY <1>2, <2>1, <2>3, <3>2, <3>3 DEF Underway, Unconfiguring
    <3>4. CASE next # "unconfigure"
      <4>1. pc'[p] = "removed" /\ ~Unconfiguring(p)
        BY <2>1, <3>4 DEF Unconfiguring
      <4>2. IsRemoved(p)'
        BY <1>2, <2>3, <3>2, <4>1 DEF IsRemoved, OnlyChanged, Files
      <4> QED
        BY <1>2, <2>3, <4>1, <4>2 DEF Underway
    <3> QED
      BY <3>3, <3>4
  <2> QED
    BY <2>2, <2>3
<1> QED
  BY <1>3, <1>4, <1>5 DEF Deletes

LEMMA UnconfiguresStep ==
    ASSUME FilesApart, NEW p \in Writers, Unconfigures(p)
    PROVE  FilesApart' /\ (Underway(p) => Underway(p)')
<1>1. /\ pc[p] = "unconfigure" /\ UNCHANGED <<disk, todo, doing, memory, before, latest, previous>>
      /\ FilesTypeOK /\ budget \in FileBudgets /\ write[p] = NoFile /\ doing[p] \in FileOperations
  BY DEF Unconfigures, At, ProgressOnly, FilesApart, OwnFile
<1>2. ASSUME Underway(p)
      PROVE  /\ Unconfiguring(p) /\ OnlyChanged("credentials", p, Absent)
             /\ Unconfiguring(p)' /\ OnlyChanged("credentials", p, Absent)' /\ InOrder(p)'
  <2>1. Unconfiguring(p) /\ OnlyChanged("credentials", p, Absent) /\ InOrder(p)
    BY <1>1, <1>2 DEF Underway
  <2> QED
    BY <1>1, <2>1, UnmovedKept, OrderKept
<1>3. CASE Faulty /\ Tells(p, "failed") /\ UNCHANGED write
  <2>1. /\ said' \in [Writers -> Tellings] /\ said'[p] = "failed" /\ pc'[p] = "idle"
        /\ pc' \in [Writers -> FileSteps] /\ \A q \in Writers \ {p} : pc'[q] = pc[q]
    BY <1>1, <1>3, TellsTyped DEF Tellings
  <2>2. FilesApart'
    BY <1>1, <1>3, <2>1, FaultSpent, ApartKept DEF FilesTypeOK
  <2>3. ASSUME Underway(p) PROVE Underway(p)'
    <3>1. AsSaid(p)'
      BY <1>1, <1>2, <2>1, <2>3, CredentialChanged DEF Unconfiguring
    <3> QED
      BY <1>2, <2>1, <2>3, <3>1 DEF Underway
  <2> QED
    BY <2>2, <2>3
<1>4. CASE Writes(p, "config", Name(p), Absent, "removed") /\ UNCHANGED <<budget, said>>
  <2>1. /\ write' \in [Writers -> FileWrites]
        /\ write'[p].file = "config" /\ write'[p].then = "removed"
        /\ write'[p].entries = [Base("config", p) EXCEPT ![Name(p)] = Absent]
        /\ \A q \in Writers \ {p} : write'[q] = write[q]
        /\ pc' \in [Writers -> FileSteps]
        /\ pc'[p] = "create" /\ \A q \in Writers \ {p} : pc'[q] = pc[q]
    <3>1. Name(p) \in Names /\ "config" \in Files /\ Absent \in FileValues /\ "removed" \in Thens
      BY <1>1, NamesAnOperation DEF Files, FileValues, Thens
    <3> QED
      BY <1>1, <1>4, <3>1, WritesTyped
  <2>2. FilesApart'
    BY <1>1, <1>4, <2>1, ApartKept DEF FilesTypeOK, Tellings
  <2>3. ASSUME Underway(p) PROVE Underway(p)'
    <3>1. Changing("config", p, Absent)'
      BY <1>1, <1>2, <2>1, <2>3 DEF Changing, OnlyChanged, Kept, Base, Files, Name
    <3>2. OnItsWay(p)'
      BY <1>2, <2>1, <2>3, <3>1 DEF OnItsWay
    <3> QED
      BY <1>2, <2>1, <2>3, <3>2 DEF Underway
  <2> QED
    BY <2>2, <2>3
<1>5. CASE /\ Entries("config")[Name(p)] = Absent
           /\ GoesOn(p, "removed") /\ UNCHANGED <<budget, said, write>>
  <2>1. pc'[p] = "removed" /\ pc' \in [Writers -> FileSteps] /\ \A q \in Writers \ {p} : pc'[q] = pc[q]
    BY <1>1, <1>5, GoesOnTyped DEF FileSteps
  <2>2. FilesApart'
    BY <1>1, <1>5, <2>1, ApartKept DEF FilesTypeOK, Tellings
  <2>3. ASSUME Underway(p) PROVE Underway(p)'
    <3>1. Entries("config") \in FileEntries /\ Name(p) \in Names
      BY <1>1, EntriesTyped, NamesAnOperation DEF Files
    <3>2. Entries("config") = [before["config"].entries EXCEPT ![Name(p)] = Absent]
      BY <1>2, <1>5, <2>3, <3>1 DEF OnlyChanged, Kept, Files, FileEntries
    <3>3. IsRemoved(p)
      BY <1>2, <2>3, <3>2 DEF IsRemoved, OnlyChanged, Files, Deleting, Unconfiguring
    <3>4. IsRemoved(p)'
      BY <1>1, <3>3 DEF IsRemoved, Deleting, Unconfiguring, Kept, Entries, Name
    <3> QED
      BY <1>2, <2>1, <2>3, <3>4 DEF Underway
  <2> QED
    BY <2>2, <2>3
<1> QED
  BY <1>3, <1>4, <1>5 DEF Unconfigures

LEMMA ChangesViewStep ==
    ASSUME FilesApart, NEW p \in Writers, ChangesView(p)
    PROVE  FilesApart' /\ (Underway(p) => Underway(p)')
<1>1. /\ pc[p] = "view" /\ UNCHANGED <<budget, disk, todo, doing, before, latest, previous>>
      /\ FilesTypeOK /\ budget \in FileBudgets /\ write[p] = NoFile /\ doing[p] \in FileOperations
  BY DEF ChangesView, At, FilesApart, OwnFile
<1>2. ASSUME Underway(p)
      PROVE  AllKept /\ Viewing(p)' /\ AllKept' /\ InOrder(p)'
  <2>1. Viewing(p) /\ AllKept /\ InOrder(p)
    BY <1>1, <1>2 DEF Underway
  <2> QED
    BY <1>1, <2>1, UnmovedKept, OrderKept
<1>3. CASE Tells(p, "refused") /\ UNCHANGED <<memory, write>>
  <2>1. /\ said' \in [Writers -> Tellings] /\ said'[p] = "refused" /\ pc'[p] = "idle"
        /\ pc' \in [Writers -> FileSteps] /\ \A q \in Writers \ {p} : pc'[q] = pc[q]
    BY <1>1, <1>3, TellsTyped DEF Tellings
  <2>2. FilesApart'
    BY <1>1, <1>3, <2>1, ApartKept DEF FilesTypeOK
  <2>3. ASSUME Underway(p) PROVE Underway(p)'
    <3>1. AsSaid(p)'
      BY <1>1, <1>2, <2>1, <2>3, NothingChanged
    <3> QED
      BY <1>2, <2>1, <2>3, <3>1 DEF Underway
  <2> QED
    BY <2>2, <2>3
<1>4. ASSUME NEW views \in FileEntries,
             memory' = [memory EXCEPT ![p] = views],
             write' = [write EXCEPT ![p] = [file |-> "views", entries |-> views, temp |-> "none", then |-> "stored"]],
             GoesOn(p, "create") /\ UNCHANGED said
      PROVE  FilesApart' /\ (Underway(p) => Underway(p)')
  <2> DEFINE w == [file |-> "views", entries |-> views, temp |-> "none", then |-> "stored"]
  <2>1. w \in FileWrites /\ w.file = "views" /\ w.entries = views /\ w.then = "stored"
    BY DEF FileWrites, Files
  <2>2. write' = [write EXCEPT ![p] = w]
    BY <1>4
  <2> HIDE DEF w
  <2>3. write' \in [Writers -> FileWrites] /\ write'[p] = w /\ \A q \in Writers \ {p} : write'[q] = write[q]
    BY <1>1, <2>1, <2>2 DEF FilesTypeOK
  <2>4. memory' \in [Writers -> FileEntries] /\ memory'[p] = views
    BY <1>1, <1>4 DEF FilesTypeOK
  <2>5. pc'[p] = "create" /\ pc' \in [Writers -> FileSteps] /\ \A q \in Writers \ {p} : pc'[q] = pc[q]
    BY <1>1, <1>4, GoesOnTyped DEF FileSteps
  <2>6. FilesApart'
    BY <1>1, <1>4, <2>1, <2>3, <2>4, <2>5, ApartKept DEF FilesTypeOK, Tellings
  <2>7. ASSUME Underway(p) PROVE Underway(p)'
    <3>1. OnItsWay(p)'
      BY <1>2, <2>1, <2>3, <2>4, <2>7 DEF OnItsWay
    <3> QED
      BY <1>2, <2>5, <2>7, <3>1 DEF Underway
  <2> QED
    BY <2>6, <2>7
<1>5. \/ Tells(p, "refused") /\ UNCHANGED <<memory, write>>
      \/ \E views \in FileEntries :
            /\ memory' = [memory EXCEPT ![p] = views]
            /\ write' = [write EXCEPT ![p] = [file |-> "views", entries |-> views, temp |-> "none", then |-> "stored"]]
            /\ GoesOn(p, "create") /\ UNCHANGED said
  <2>1. memory[p] \in FileEntries /\ Name(p) \in Names /\ p \in FileValues /\ Absent \in FileValues
    BY <1>1, NamesAnOperation DEF FilesTypeOK, FileValues
  <2>2. /\ [memory[p] EXCEPT ![Name(p)] = p] \in FileEntries
        /\ [memory[p] EXCEPT ![Name(p)] = Absent] \in FileEntries
        /\ \A m \in Names : [memory[p] EXCEPT ![Name(p)] = Absent, ![m] = memory[p][Name(p)]] \in FileEntries
    BY <2>1 DEF FileEntries
  <2> QED
    BY <2>2 DEF ChangesView
<1> QED
  BY <1>3, <1>4, <1>5

LEMMA ExportsStep ==
    ASSUME FilesApart, NEW p \in Writers, Exports(p)
    PROVE  FilesApart' /\ (Underway(p) => Underway(p)')
<1>1. /\ pc[p] = "export" /\ UNCHANGED <<budget, disk, todo, doing, memory, before, latest, previous>>
      /\ FilesTypeOK /\ budget \in FileBudgets /\ write[p] = NoFile /\ doing[p] \in FileOperations
  BY DEF Exports, At, ProgressOnly, FilesApart, OwnFile
<1>2. ASSUME Underway(p)
      PROVE  AllKept /\ doing'[p].op = "export" /\ AllKept' /\ InOrder(p)'
  <2>1. doing[p].op = "export" /\ AllKept /\ InOrder(p)
    BY <1>1, <1>2 DEF Underway
  <2> QED
    BY <1>1, <2>1, UnmovedKept, OrderKept
<1>3. CASE Tells(p, "refused") /\ UNCHANGED write
  <2>1. /\ said' \in [Writers -> Tellings] /\ said'[p] = "refused" /\ pc'[p] = "idle"
        /\ pc' \in [Writers -> FileSteps] /\ \A q \in Writers \ {p} : pc'[q] = pc[q]
    BY <1>1, <1>3, TellsTyped DEF Tellings
  <2>2. FilesApart'
    BY <1>1, <1>3, <2>1, ApartKept DEF FilesTypeOK
  <2>3. ASSUME Underway(p) PROVE Underway(p)'
    <3>1. AsSaid(p)'
      BY <1>1, <1>2, <2>1, <2>3, NothingChanged
    <3> QED
      BY <1>2, <2>1, <2>3, <3>1 DEF Underway
  <2> QED
    BY <2>2, <2>3
<1>4. CASE Writes(p, "exports", Name(p), p, "stored") /\ UNCHANGED said
  <2>1. /\ write' \in [Writers -> FileWrites]
        /\ write'[p].file = "exports" /\ write'[p].then = "stored"
        /\ write'[p].entries = [Base("exports", p) EXCEPT ![Name(p)] = p]
        /\ \A q \in Writers \ {p} : write'[q] = write[q]
        /\ pc' \in [Writers -> FileSteps]
        /\ pc'[p] = "create" /\ \A q \in Writers \ {p} : pc'[q] = pc[q]
    <3>1. Name(p) \in Names /\ "exports" \in Files /\ p \in FileValues /\ "stored" \in Thens
      BY <1>1, NamesAnOperation DEF Files, FileValues, Thens
    <3> QED
      BY <1>1, <1>4, <3>1, WritesTyped
  <2>2. FilesApart'
    BY <1>1, <1>4, <2>1, ApartKept DEF FilesTypeOK, Tellings
  <2>3. ASSUME Underway(p) PROVE Underway(p)'
    <3>1. Changing("exports", p, p)'
      BY <1>1, <1>2, <2>1, <2>3 DEF Changing, AllKept, Kept, Base, Files, Name
    <3>2. OnItsWay(p)'
      BY <1>2, <2>1, <2>3, <3>1 DEF OnItsWay
    <3> QED
      BY <1>2, <2>1, <2>3, <3>2 DEF Underway
  <2> QED
    BY <2>2, <2>3
<1> QED
  BY <1>3, <1>4 DEF Exports

WritingSteps == {"create", "fill", "move"}

LEMMA WriteFailsStep ==
    ASSUME FilesApart, NEW p \in Writers, WriteFails(p)
    PROVE  FilesApart' /\ (Underway(p) => Underway(p)')
<1>1. /\ pc[p] \in WritingSteps /\ UNCHANGED <<disk, todo, doing, memory, before, latest, previous>>
      /\ FilesTypeOK /\ budget \in FileBudgets /\ doing[p] \in FileOperations /\ Faulty /\ AfterFailure(p)
  BY DEF WriteFails, WriteOnly, FilesApart, OwnFile, WritingSteps
<1>2. write' \in [Writers -> FileWrites] /\ write'[p] = NoFile /\ \A q \in Writers \ {p} : write'[q] = write[q]
  BY <1>1, FileDropped DEF WriteFails
<1>3. budget' \in FileBudgets /\ budget'.alone = budget.alone
  BY <1>1, FaultSpent
<1>4. ASSUME Underway(p)
      PROVE  OnItsWay(p) /\ InOrder(p)'
  <2>1. OnItsWay(p) /\ InOrder(p)
    BY <1>1, <1>4 DEF Underway, WritingSteps
  <2> QED
    BY <1>1, <2>1, OrderKept
<1>5. CASE write[p].file = "config" /\ doing[p].op = "add"
  <2>1. GoesOn(p, "undo") /\ UNCHANGED said
    BY <1>1, <1>5 DEF AfterFailure
  <2>2. pc'[p] = "undo" /\ pc' \in [Writers -> FileSteps] /\ \A q \in Writers \ {p} : pc'[q] = pc[q]
    BY <1>1, <2>1, GoesOnTyped DEF FileSteps
  <2>3. FilesApart'
    BY <1>1, <1>2, <1>3, <2>1, <2>2, ApartKept DEF FilesTypeOK, Tellings, WritingSteps
  <2>4. ASSUME Underway(p) PROVE Underway(p)'
    <3>1. Adding(p) /\ OnlyChanged("credentials", p, p) /\ Had(p)
      BY <1>4, <1>5, <2>4 DEF OnItsWay, Adding, Changing, Unconfiguring
    <3>2. Adding(p)' /\ OnlyChanged("credentials", p, p)' /\ Had(p)'
      BY <1>1, <3>1, UnmovedKept
    <3> QED
      BY <1>4, <2>2, <2>4, <3>2 DEF Underway
  <2> QED
    BY <2>3, <2>4
<1>6. CASE ~(write[p].file = "config" /\ doing[p].op = "add")
  <2> DEFINE what == IF write[p].then = "undone" THEN "failed, not undone" ELSE "failed"
  <2>1. Tells(p, what) /\ what \in Tellings
    BY <1>1, <1>6 DEF AfterFailure, Tellings
  <2>2. /\ said' \in [Writers -> Tellings] /\ said'[p] = what /\ pc'[p] = "idle"
        /\ pc' \in [Writers -> FileSteps] /\ \A q \in Writers \ {p} : pc'[q] = pc[q]
    <3> HIDE DEF what
    <3> QED
      BY <1>1, <2>1, TellsTyped
  <2>3. FilesApart'
    BY <1>1, <1>2, <1>3, <2>2, ApartKept DEF FilesTypeOK, WritingSteps
  <2>4. ASSUME Underway(p) PROVE Underway(p)'
    <3>1. \/ AllKept
          \/ OnlyChanged("credentials", p, p) /\ what = "failed, not undone"
          \/ OnlyChanged("credentials", p, Absent) /\ doing[p].op = "remove" /\ what = "failed"
      BY <1>4, <1>6, <2>4 DEF OnItsWay, Adding, Changing, Unconfiguring
    <3>2. CASE AllKept
      <4>1. AsSaid(p)'
        BY <1>1, <2>2, <3>2, NothingChanged
      <4> QED
        BY <1>4, <2>2, <2>4, <4>1 DEF Underway
    <3>3. CASE OnlyChanged("credentials", p, p) /\ what = "failed, not undone"
      <4>1. AsSaid(p)'
        BY <1>1, <2>2, <3>3, CredentialChanged
      <4> QED
        BY <1>4, <2>2, <2>4, <4>1 DEF Underway
    <3>4. CASE OnlyChanged("credentials", p, Absent) /\ doing[p].op = "remove" /\ what = "failed"
      <4>1. AsSaid(p)'
        BY <1>1, <2>2, <3>4, CredentialChanged
      <4> QED
        BY <1>4, <2>2, <2>4, <4>1 DEF Underway
    <3> QED
      BY <3>1, <3>2, <3>3, <3>4
  <2> QED
    BY <2>3, <2>4
<1> QED
  BY <1>5, <1>6

LEMMA TempSet ==
    ASSUME FilesTypeOK, NEW p \in Writers, NEW t \in {"empty", "whole"}, write' = [write EXCEPT ![p].temp = t]
    PROVE  /\ write' \in [Writers -> FileWrites]
           /\ write'[p].temp = t /\ write'[p].file = write[p].file
           /\ write'[p].entries = write[p].entries /\ write'[p].then = write[p].then
           /\ \A q \in Writers \ {p} : write'[q] = write[q]
<1>1. write[p] \in FileWrites
  BY DEF FilesTypeOK
<1>2. \A w \in FileWrites : /\ [w EXCEPT !.temp = t] \in FileWrites
                            /\ [w EXCEPT !.temp = t].temp = t /\ [w EXCEPT !.temp = t].file = w.file
                            /\ [w EXCEPT !.temp = t].entries = w.entries /\ [w EXCEPT !.temp = t].then = w.then
  BY DEF FileWrites
<1>3. write'[p] = [write[p] EXCEPT !.temp = t] /\ \A q \in Writers \ {p} : write'[q] = write[q]
  BY DEF FilesTypeOK
<1>4. write' \in [Writers -> FileWrites]
  BY <1>1, <1>2, <1>3 DEF FilesTypeOK
<1> QED
  BY <1>1, <1>2, <1>3, <1>4

LEMMA StillOnItsWay ==
    ASSUME NEW p \in Writers, OnItsWay(p), UNCHANGED <<disk, before, doing, previous, memory>>,
           write'[p].file = write[p].file, write'[p].entries = write[p].entries, write'[p].then = write[p].then
    PROVE  OnItsWay(p)'
BY DEF OnItsWay, AllKept, OnlyChanged, Kept, Entries, Name, Adding, Viewing, Deleting, Unconfiguring, Had, Changing

LEMMA CreatesStep ==
    ASSUME FilesApart, NEW p \in Writers, Creates(p)
    PROVE  FilesApart' /\ (Underway(p) => Underway(p)')
<1>1. /\ pc[p] = "create" /\ UNCHANGED <<budget, disk, todo, doing, memory, before, latest, previous, said>>
      /\ FilesTypeOK /\ budget \in FileBudgets /\ write[p].file # "none" /\ write[p].then # "none"
  BY DEF Creates, At, WriteOnly, FilesApart, OwnFile
<1>2. /\ write' \in [Writers -> FileWrites]
      /\ write'[p].file = write[p].file
      /\ write'[p].entries = write[p].entries /\ write'[p].then = write[p].then
      /\ \A q \in Writers \ {p} : write'[q] = write[q]
  BY <1>1, TempSet DEF Creates
<1>3. pc'[p] = "fill" /\ pc' \in [Writers -> FileSteps] /\ \A q \in Writers \ {p} : pc'[q] = pc[q]
  BY <1>1, GoesOnTyped DEF FileSteps, Creates
<1>4. FilesApart'
  BY <1>1, <1>2, <1>3, ApartKept DEF FilesTypeOK, Tellings
<1>5. ASSUME Underway(p) PROVE Underway(p)'
  <2>1. OnItsWay(p)' /\ InOrder(p)'
    BY <1>1, <1>2, <1>5, StillOnItsWay, OrderKept DEF Underway
  <2> QED
    BY <1>3, <2>1 DEF Underway
<1> QED
  BY <1>4, <1>5

LEMMA FillsStep ==
    ASSUME FilesApart, NEW p \in Writers, Fills(p)
    PROVE  FilesApart' /\ (Underway(p) => Underway(p)')
<1>1. /\ pc[p] = "fill" /\ UNCHANGED <<budget, disk, todo, doing, memory, before, latest, previous, said>>
      /\ FilesTypeOK /\ budget \in FileBudgets /\ write[p].file # "none" /\ write[p].then # "none"
  BY DEF Fills, At, WriteOnly, FilesApart, OwnFile
<1>2. /\ write' \in [Writers -> FileWrites]
      /\ write'[p].temp = "whole" /\ write'[p].file = write[p].file
      /\ write'[p].entries = write[p].entries /\ write'[p].then = write[p].then
      /\ \A q \in Writers \ {p} : write'[q] = write[q]
  BY <1>1, TempSet DEF Fills
<1>3. pc'[p] = "move" /\ pc' \in [Writers -> FileSteps] /\ \A q \in Writers \ {p} : pc'[q] = pc[q]
  BY <1>1, GoesOnTyped DEF FileSteps, Fills
<1>4. FilesApart'
  BY <1>1, <1>2, <1>3, ApartKept DEF FilesTypeOK, Tellings
<1>5. ASSUME Underway(p) PROVE Underway(p)'
  <2>1. OnItsWay(p)' /\ InOrder(p)'
    BY <1>1, <1>2, <1>5, StillOnItsWay, OrderKept DEF Underway
  <2> QED
    BY <1>3, <2>1 DEF Underway
<1> QED
  BY <1>4, <1>5

\* The file is what was to be written, and no other is touched.
LEMMA FileReplaced ==
    ASSUME FilesApart, NEW p \in Writers, Moves(p)
    PROVE  /\ disk' \in [Files -> [whole : BOOLEAN, entries : FileEntries]]
           /\ WholeFiles'
           /\ \A g \in Files : Entries(g)' = IF g = write[p].file THEN write[p].entries ELSE Entries(g)
<1> DEFINE f == write[p].file
           r == [whole |-> TRUE, entries |-> write[p].entries]
<1>1. /\ pc[p] = "move" /\ write[p] \in FileWrites /\ f # "none" /\ write[p].temp = "whole"
      /\ disk \in [Files -> [whole : BOOLEAN, entries : FileEntries]] /\ before' = before
  BY DEF Moves, At, WriteOnly, FilesApart, OwnFile, FilesTypeOK
<1>2. f \in Files /\ write[p].entries \in FileEntries
  BY <1>1 DEF FileWrites
<1>3. disk' = [disk EXCEPT ![f] = r]
  BY <1>1 DEF Moves
<1>4. r \in [whole : BOOLEAN, entries : FileEntries] /\ r.whole /\ r.entries = write[p].entries
  BY <1>2
<1> HIDE DEF f, r
<1>5. /\ disk' \in [Files -> [whole : BOOLEAN, entries : FileEntries]]
      /\ disk'[f] = r /\ \A g \in Files \ {f} : disk'[g] = disk[g]
  BY <1>1, <1>2, <1>3, <1>4
<1>6. WholeFiles'
  BY <1>1, <1>4, <1>5 DEF FilesApart, WholeFiles
<1> QED
  BY <1>4, <1>5, <1>6 DEF Entries, f

LEMMA MovesApart ==
    ASSUME FilesApart, NEW p \in Writers, Moves(p)
    PROVE  /\ FilesApart'
           /\ pc'[p] = write[p].then
           /\ UNCHANGED <<doing, previous, memory, before>>
<1>1. /\ pc[p] = "move" /\ UNCHANGED <<budget, todo, doing, memory, before, latest, previous, said>>
      /\ FilesTypeOK /\ budget \in FileBudgets /\ write[p] \in FileWrites /\ write[p].then # "none"
      /\ doing[p] \in FileOperations
  BY DEF Moves, At, WriteOnly, FilesApart, OwnFile, FilesTypeOK
<1>2. write' \in [Writers -> FileWrites] /\ write'[p] = NoFile /\ \A q \in Writers \ {p} : write'[q] = write[q]
  BY <1>1, FileDropped DEF Moves
<1>3. write[p].then \in Thens /\ write[p].then \in FileSteps
  BY <1>1 DEF FileWrites, Thens, FileSteps
<1>4. pc'[p] = write[p].then /\ pc' \in [Writers -> FileSteps] /\ \A q \in Writers \ {p} : pc'[q] = pc[q]
  BY <1>1, <1>3, GoesOnTyped DEF Moves
<1>5. FilesTypeOK'
  BY <1>1, <1>2, <1>4, FileReplaced DEF FilesTypeOK
<1>6. OwnFile'
  BY <1>1, <1>2, <1>3, <1>4 DEF FilesApart, OwnFile, Thens
<1>7. OneAtATime'
  BY <1>1, <1>3, <1>4 DEF FilesApart, OneAtATime
<1> QED
  BY <1>1, <1>4, <1>5, <1>6, <1>7, FileReplaced DEF FilesApart

LEMMA MovesStep ==
    ASSUME FilesApart, NEW p \in Writers, Moves(p)
    PROVE  FilesApart' /\ (Underway(p) => Underway(p)')
<1>1. /\ UNCHANGED <<doing, previous, memory, before>> /\ FilesApart' /\ pc'[p] = write[p].then
      /\ pc[p] = "move" /\ doing[p] \in FileOperations
  BY MovesApart DEF Moves, At, FilesApart, OwnFile
<1>2. /\ Name(p)' = Name(p)
      /\ Adding(p)' <=> Adding(p)
      /\ Viewing(p)' <=> Viewing(p)
      /\ Deleting(p)' <=> Deleting(p)
      /\ Unconfiguring(p)' <=> Unconfiguring(p)
      /\ Had(p)' <=> Had(p)
  BY <1>1 DEF Name, Adding, Viewing, Deleting, Unconfiguring, Had
<1>3. \A g \in Files : Entries(g)' = IF g = write[p].file THEN write[p].entries ELSE Entries(g)
  BY FileReplaced
<1>4. \A g \in Files : (Kept(g)' <=> Entries(g)' = before[g].entries)
  BY <1>1 DEF Kept
<1>5. ASSUME Underway(p) PROVE OnItsWay(p) /\ InOrder(p)
  BY <1>1, <1>5 DEF Underway
<1> USE DEF Files
<1>6. ASSUME Adding(p) /\ AllKept /\ Had(p), Changing("credentials", p, p) /\ write[p].then = "profile"
      PROVE  Underway(p)'
  <2>1. OnlyChanged("credentials", p, p)'
    BY <1>1, <1>2, <1>3, <1>4, <1>6 DEF OnlyChanged, AllKept, Kept, Changing
  <2>2. InOrder(p)'
    BY <1>1, <2>1 DEF OnlyChanged, Kept, InOrder
  <2> QED
    BY <1>1, <1>2, <1>6, <2>1, <2>2 DEF Underway
<1>7. ASSUME Adding(p) /\ OnlyChanged("credentials", p, p), Changing("config", p, p) /\ write[p].then = "stored"
      PROVE  Underway(p)'
  <2>1. IsStored(p)'
    BY <1>1, <1>2, <1>3, <1>4, <1>7 DEF IsStored, OnlyChanged, Kept, Changing
  <2>2. Name(p) \in Names /\ before["credentials"].entries \in FileEntries /\ before["config"].entries \in FileEntries
    BY <1>1, EntriesTyped, NamesAnOperation
  <2>3. /\ Entries("config")' = [before["config"].entries EXCEPT ![Name(p)] = p]
        /\ Entries("credentials")' = [before["credentials"].entries EXCEPT ![Name(p)] = p]
    BY <1>3, <1>7 DEF OnlyChanged, Changing
  <2>4. InOrder(p)'
    BY <1>1, <2>2, <2>3 DEF InOrder, FileEntries
  <2> QED
    BY <1>1, <1>7, <2>1, <2>4 DEF Underway
<1>8. ASSUME Adding(p) /\ OnlyChanged("credentials", p, p), write[p].file = "credentials",
             write[p].entries = before["credentials"].entries, write[p].then = "undone"
      PROVE  Underway(p)'
  <2>1. AllKept'
    BY <1>1, <1>3, <1>4, <1>8 DEF AllKept, OnlyChanged, Kept
  <2>2. InOrder(p)'
    BY <2>1 DEF AllKept, Kept, InOrder
  <2> QED
    BY <1>1, <1>2, <1>8, <2>1, <2>2 DEF Underway
<1>9. ASSUME Unconfiguring(p) /\ AllKept, Changing("credentials", p, Absent) /\ write[p].then = "unconfigure"
      PROVE  Underway(p)'
  <2>1. OnlyChanged("credentials", p, Absent)'
    BY <1>1, <1>2, <1>3, <1>4, <1>9 DEF OnlyChanged, AllKept, Kept, Changing
  <2>2. InOrder(p)'
    BY <2>1 DEF OnlyChanged, Kept, InOrder
  <2> QED
    BY <1>1, <1>2, <1>9, <2>1, <2>2 DEF Underway
<1>10. ASSUME Deleting(p) /\ ~Unconfiguring(p) /\ AllKept, Changing("credentials", p, Absent) /\ write[p].then = "removed"
       PROVE  Underway(p)'
  <2>1. IsRemoved(p)'
    BY <1>1, <1>2, <1>3, <1>4, <1>10 DEF IsRemoved, AllKept, Kept, Changing
  <2>2. InOrder(p)'
    BY <1>1, <1>2, <2>1, <1>10 DEF IsRemoved, InOrder, Adding, Deleting
  <2> QED
    BY <1>1, <1>10, <2>1, <2>2 DEF Underway
<1>11. ASSUME Unconfiguring(p) /\ OnlyChanged("credentials", p, Absent),
              Changing("config", p, Absent) /\ write[p].then = "removed"
       PROVE  Underway(p)'
  <2>1. IsRemoved(p)'
    BY <1>1, <1>2, <1>3, <1>4, <1>11 DEF IsRemoved, OnlyChanged, Kept, Changing, Deleting, Unconfiguring
  <2>2. InOrder(p)'
    BY <1>1, <1>11 DEF InOrder, Adding, Unconfiguring
  <2> QED
    BY <1>1, <1>11, <2>1, <2>2 DEF Underway
<1>12. ASSUME Viewing(p) /\ AllKept, write[p].file = "views", write[p].entries = memory[p], write[p].then = "stored"
       PROVE  Underway(p)'
  <2>1. IsStored(p)'
    BY <1>1, <1>2, <1>3, <1>4, <1>12 DEF IsStored, AllKept, Kept
  <2>2. InOrder(p)'
    BY <1>1, <1>12 DEF InOrder, Adding, Viewing
  <2> QED
    BY <1>1, <1>12, <2>1, <2>2 DEF Underway
<1>13. ASSUME doing[p].op = "export" /\ AllKept, Changing("exports", p, p) /\ write[p].then = "stored"
       PROVE  Underway(p)'
  <2>1. OnlyChanged("exports", p, p)'
    BY <1>1, <1>2, <1>3, <1>4, <1>13 DEF OnlyChanged, AllKept, Kept, Changing
  <2>2. IsStored(p)' /\ InOrder(p)'
    BY <1>1, <1>13, <2>1 DEF InOrder, Adding, IsStored
  <2> QED
    BY <1>1, <1>13, <2>2 DEF Underway
<1>14. ASSUME Underway(p) PROVE Underway(p)'
  BY <1>5, <1>6, <1>7, <1>8, <1>9, <1>10, <1>11, <1>12, <1>13, <1>14 DEF OnItsWay
<1> QED
  BY <1>1, <1>14

LEMMA ReportsStep ==
    ASSUME FilesApart, NEW p \in Writers, Reports(p)
    PROVE  FilesApart' /\ (Underway(p) => Underway(p)')
<1> DEFINE what == IF pc[p] = "undone" THEN "failed" ELSE pc[p]
<1>1. /\ pc[p] \in {"stored", "undone", "removed"}
      /\ UNCHANGED <<budget, disk, todo, doing, memory, before, latest, previous, write>>
      /\ FilesTypeOK /\ budget \in FileBudgets /\ write[p] = NoFile /\ doing[p] \in FileOperations
  BY DEF Reports, WriteOnly, FilesApart, OwnFile
<1>2. what \in Tellings /\ Tells(p, what)
  BY <1>1 DEF Reports, Tellings
<1>3. /\ said' \in [Writers -> Tellings] /\ said'[p] = what /\ pc'[p] = "idle"
      /\ pc' \in [Writers -> FileSteps] /\ \A q \in Writers \ {p} : pc'[q] = pc[q]
  <2> HIDE DEF what
  <2> QED
    BY <1>1, <1>2, TellsTyped
<1>4. FilesApart'
  BY <1>1, <1>3, ApartKept DEF FilesTypeOK
<1>5. ASSUME Underway(p) PROVE Underway(p)'
  <2>1. InOrder(p)'
    BY <1>1, <1>5, OrderKept DEF Underway
  <2>2. /\ Name(p) \in Names
        /\ \A f \in Files : before[f].entries \in FileEntries /\ Entries(f) \in FileEntries
    BY <1>1, NamesAnOperation, EntriesTyped
  <2>3. UNCHANGED <<disk, before, doing, memory>>
    BY <1>1
  <2>4. CASE pc[p] = "undone"
    <3>1. AsSaid(p)'
      BY <1>1, <1>3, <1>5, <2>4, NothingChanged DEF Underway
    <3> QED
      BY <1>3, <2>1, <3>1 DEF Underway
  <2>5. CASE pc[p] = "stored"
    <3>1. IsStored(p) /\ said'[p] = "stored"
      BY <1>3, <1>5, <2>5 DEF Underway
    <3>2. \A m \in Names \ {Name(p)} : \A f \in Files \ {"views"} : Entries(f)[m] = before[f].entries[m]
      BY <2>2, <3>1 DEF IsStored, OnlyChanged, Kept, Files, FileEntries
    <3>3. doing[p].op = "add" => Entries("credentials")[Name(p)] = p /\ Entries("config")[Name(p)] = p
      BY <2>2, <3>1 DEF IsStored, Adding, Viewing, Files, FileEntries
    <3>4. doing[p].op = "export" => Entries("exports")[Name(p)] = p
      BY <2>2, <3>1 DEF IsStored, OnlyChanged, Adding, Viewing, Files, FileEntries
    <3>5. doing[p].op \notin {"add", "export"} => Entries("views") = memory[p]
      BY <3>1 DEF IsStored, Adding
    <3>6. AsSaid(p)'
      BY <2>3, <3>1, <3>2, <3>3, <3>4, <3>5 DEF AsSaid, Entries, Name
    <3> QED
      BY <1>3, <2>1, <2>5, <3>6 DEF Underway
  <2>6. CASE pc[p] = "removed"
    <3>1. IsRemoved(p) /\ said'[p] = "removed"
      BY <1>3, <1>5, <2>6 DEF Underway
    <3>2. \A m \in Names \ {Name(p)} : \A f \in Files \ {"views"} : Entries(f)[m] = before[f].entries[m]
      BY <2>2, <3>1 DEF IsRemoved, Kept, Files, FileEntries
    <3>3. Entries("credentials")[Name(p)] = Absent
      BY <2>2, <3>1 DEF IsRemoved, Files, FileEntries
    <3>4. Unconfiguring(p) => Entries("config")[Name(p)] = Absent
      BY <2>2, <3>1 DEF IsRemoved, Files, FileEntries
    <3>5. AsSaid(p)'
      BY <2>3, <3>1, <3>2, <3>3, <3>4 DEF AsSaid, Entries, Name, Unconfiguring
    <3> QED
      BY <1>3, <2>1, <2>6, <3>5 DEF Underway
  <2> QED
    BY <1>1, <2>4, <2>5, <2>6
<1> QED
  BY <1>4, <1>5

LEMMA DiesStep ==
    ASSUME FilesApart, NEW p \in Writers, Dies(p)
    PROVE  FilesApart' /\ (Underway(p) => Underway(p)')
<1>1. /\ pc[p] \notin {"idle", "dead"}
      /\ UNCHANGED <<disk, todo, doing, memory, before, latest, previous, write, said>>
      /\ FilesTypeOK /\ budget \in FileBudgets
  BY DEF Dies, WriteOnly, FilesApart
<1>2. budget' \in FileBudgets /\ budget'.alone = budget.alone
  BY <1>1, DeathSpent DEF Dies
<1>3. pc'[p] = "dead" /\ pc' \in [Writers -> FileSteps] /\ \A q \in Writers \ {p} : pc'[q] = pc[q]
  BY <1>1, GoesOnTyped DEF FileSteps, Dies
<1>4. FilesApart'
  BY <1>1, <1>2, <1>3, ApartKept DEF FilesTypeOK, Tellings
<1>5. ASSUME Underway(p) PROVE Underway(p)'
  <2>1. InOrder(p)'
    BY <1>1, <1>5, OrderKept DEF Underway
  <2> QED
    BY <1>3, <2>1 DEF Underway
<1> QED
  BY <1>4, <1>5

LEMMA BeginUnderway ==
    ASSUME FilesApart, NEW p \in Writers, Begin(p)
    PROVE  Underway(p)'
<1> DEFINE o == Head(todo[p])
<1>1. o \in FileOperations
  <2>1. todo[p] \in Seq(FileOperations) /\ todo[p] # <<>>
    BY DEF FilesApart, FilesTypeOK, Begin
  <2> QED
    BY <2>1, FirstAndRest
<1>2. doing'[p] = o /\ disk' = disk /\ before' = disk /\ FilesTypeOK
  BY DEF FilesApart, FilesTypeOK, Begin
<1>3. AllKept' /\ InOrder(p)'
  BY <1>2 DEF AllKept, Kept, Entries, InOrder
<1>4. o.op \in {"add", "remove", "drop", "export", "create", "replace", "rename", "discard"}
  BY <1>1 DEF FileOperations
<1>5. CASE o.op \in {"remove", "drop"} /\ Entries("config")[o.name] = Absent
  <2>1. Tells(p, "refused")
    BY <1>5 DEF Begin
  <2>2. said'[p] = "refused" /\ pc'[p] = "idle"
    BY <1>2, <2>1, TellsTyped DEF Tellings
  <2>3. AsSaid(p)'
    BY <1>2, <2>2 DEF AsSaid, Entries
  <2> QED
    BY <1>3, <2>2, <2>3 DEF Underway
<1>6. CASE ~(o.op \in {"remove", "drop"} /\ Entries("config")[o.name] = Absent)
  <2>1. GoesOn(p, FirstStep(o.op))
    BY <1>6 DEF Begin
  <2>2. FirstStep(o.op) \in {"get", "delete", "export", "view"}
    BY <1>4 DEF FirstStep
  <2>3. /\ FirstStep(o.op) = "get" => o.op = "add"
        /\ FirstStep(o.op) = "delete" => o.op \in {"remove", "drop"}
        /\ FirstStep(o.op) = "export" => o.op = "export"
        /\ FirstStep(o.op) = "view" => o.op \in {"create", "replace", "rename", "discard"}
    BY <1>4 DEF FirstStep
  <2>4. pc'[p] = FirstStep(o.op)
    BY <1>2, <2>1, <2>2, GoesOnTyped DEF FileSteps
  <2> QED
    BY <1>2, <1>3, <2>2, <2>3, <2>4 DEF Underway, Adding, Deleting, Viewing
<1> QED
  BY <1>5, <1>6

-----------------------------------------------------------------------------
(* The invariant *)

LEMMA FilesInvInit ==
    ASSUME FilesInit PROVE FilesInv
<1> DEFINE e == [n \in Names |-> IF n \in budget.present THEN Before ELSE Absent]
           r == [whole |-> TRUE, entries |-> e]
<1>1. budget \in FileBudgets
  BY FilesAssumption DEF FilesInit, FileBudgets
<1>2. e \in FileEntries
  BY DEF FileEntries, FileValues
<1>3. r \in [whole : BOOLEAN, entries : FileEntries] /\ r.whole /\ r.entries = e
  BY <1>2
<1>4. disk = [f \in Files |-> r] /\ before = disk
  BY DEF FilesInit
<1> HIDE DEF e, r
<1>5. /\ disk \in [Files -> [whole : BOOLEAN, entries : FileEntries]]
      /\ before \in [Files -> [whole : BOOLEAN, entries : FileEntries]]
      /\ \A f \in Files : disk[f].whole /\ before[f].whole
  BY <1>3, <1>4
<1>6. memory \in [Writers -> FileEntries]
  BY <1>2, <1>3, <1>4 DEF FilesInit, Files
<1>7. todo \in [Writers -> Seq(FileOperations)]
  BY <1>1 DEF FilesInit, FileBudgets
<1>8. write \in [Writers -> FileWrites] /\ \A p \in Writers : write[p] = NoFile
  BY NoFileTyped DEF FilesInit
<1>9. /\ doing \in [Writers -> FileOperations \cup {NoOperation}]
      /\ pc \in [Writers -> FileSteps] /\ \A p \in Writers : pc[p] = "idle"
      /\ previous \in [Writers -> FileValues]
      /\ said \in [Writers -> Tellings]
      /\ latest = Absent
  BY DEF FilesInit, FileSteps, FileValues, Tellings
<1>10. FilesTypeOK
  BY <1>5, <1>6, <1>7, <1>8, <1>9 DEF FilesTypeOK, Tellings
<1>11. WholeFiles /\ OwnFile /\ OneAtATime /\ Faithful
  BY <1>5, <1>8, <1>9 DEF WholeFiles, OwnFile, OneAtATime, Faithful
<1> QED
  BY <1>1, <1>10, <1>11 DEF FilesInv

LEMMA Unaltered ==
    ASSUME UNCHANGED fileVars, NEW p \in Writers, Underway(p)
    PROVE  Underway(p)'
<1>1. UNCHANGED <<disk, before, doing, previous, memory, write, said, pc>>
  BY DEF fileVars
<1>2. /\ OnItsWay(p) => OnItsWay(p)'
      /\ AsSaid(p) => AsSaid(p)'
      /\ IsStored(p) => IsStored(p)'
      /\ IsRemoved(p) => IsRemoved(p)'
      /\ InOrder(p) => InOrder(p)'
  <2>1. OnItsWay(p) => OnItsWay(p)'
    BY <1>1, StillOnItsWay
  <2>2. AsSaid(p) => AsSaid(p)'
    BY <1>1 DEF AsSaid, Entries, Name
  <2>3. IsStored(p) => IsStored(p)'
    BY <1>1 DEF IsStored, OnlyChanged, Kept, Entries, Name, Adding, Viewing
  <2>4. IsRemoved(p) => IsRemoved(p)'
    BY <1>1 DEF IsRemoved, Kept, Entries, Name, Deleting, Unconfiguring
  <2>5. InOrder(p) => InOrder(p)'
    BY <1>1, OrderKept
  <2> QED
    BY <2>1, <2>2, <2>3, <2>4, <2>5
<1> QED
  BY <1>1, <1>2, UnmovedKept DEF Underway

LEMMA FilesInvNext ==
    ASSUME FilesInv, [FilesNext]_fileVars
    PROVE  FilesInv'
<1>1. FilesApart /\ Faithful
  BY DEF FilesInv, FilesApart
<1>2. ASSUME FilesApart', Faithful' PROVE FilesInv'
  BY <1>2 DEF FilesInv, FilesApart
<1>3. ASSUME NEW p \in Writers, Begin(p)
      PROVE  FilesInv'
  <2>1. FilesApart' /\ Underway(p)' /\ latest' = p
    BY <1>1, <1>3, BeginApart, BeginUnderway DEF Begin
  <2>2. Faithful'
    BY <2>1 DEF Faithful
  <2> QED
    BY <1>2, <2>1, <2>2
<1>4. ASSUME NEW p \in Writers, pc[p] \notin {"idle", "dead"}, budget'.alone = budget.alone, latest' = latest,
             FilesApart' /\ (Underway(p) => Underway(p)')
      PROVE  FilesInv'
  <2>1. budget.alone => p = latest
    BY <1>1, <1>4 DEF FilesApart, OneAtATime
  <2>2. Faithful'
    BY <1>1, <1>4, <2>1 DEF Faithful
  <2> QED
    BY <1>2, <1>4, <2>2
<1>5. \A p \in Writers : Faulty => budget'.alone = budget.alone
  BY <1>1, FaultSpent DEF FilesApart
<1>6. ASSUME NEW p \in Writers, AddGets(p) PROVE FilesInv'
  <2>1. pc[p] \notin {"idle", "dead"} /\ budget'.alone = budget.alone /\ latest' = latest
    BY <1>5, <1>6 DEF AddGets, At, ProgressOnly
  <2> QED
    BY <1>1, <1>4, <1>6, <2>1, AddGetsStep
<1>7. ASSUME NEW p \in Writers, AddSets(p) PROVE FilesInv'
  <2>1. pc[p] \notin {"idle", "dead"} /\ budget'.alone = budget.alone /\ latest' = latest
    BY <1>5, <1>7 DEF AddSets, At, ProgressOnly
  <2> QED
    BY <1>1, <1>4, <1>7, <2>1, AddSetsStep
<1>8. ASSUME NEW p \in Writers, AddsProfile(p) PROVE FilesInv'
  <2>1. pc[p] \notin {"idle", "dead"} /\ budget'.alone = budget.alone /\ latest' = latest
    BY <1>5, <1>8 DEF AddsProfile, At, ProgressOnly
  <2> QED
    BY <1>1, <1>4, <1>8, <2>1, AddsProfileStep
<1>9. ASSUME NEW p \in Writers, Undo(p) PROVE FilesInv'
  <2>1. pc[p] \notin {"idle", "dead"} /\ budget'.alone = budget.alone /\ latest' = latest
    BY <1>5, <1>9 DEF Undo, At, ProgressOnly
  <2> QED
    BY <1>1, <1>4, <1>9, <2>1, UndoStep
<1>10. ASSUME NEW p \in Writers, Deletes(p) PROVE FilesInv'
  <2>1. pc[p] \notin {"idle", "dead"} /\ budget'.alone = budget.alone /\ latest' = latest
    BY <1>5, <1>10 DEF Deletes, At, ProgressOnly
  <2> QED
    BY <1>1, <1>4, <1>10, <2>1, DeletesStep
<1>11. ASSUME NEW p \in Writers, Unconfigures(p) PROVE FilesInv'
  <2>1. pc[p] \notin {"idle", "dead"} /\ budget'.alone = budget.alone /\ latest' = latest
    BY <1>5, <1>11 DEF Unconfigures, At, ProgressOnly
  <2> QED
    BY <1>1, <1>4, <1>11, <2>1, UnconfiguresStep
<1>12. ASSUME NEW p \in Writers, ChangesView(p) PROVE FilesInv'
  <2>1. pc[p] \notin {"idle", "dead"} /\ budget'.alone = budget.alone /\ latest' = latest
    BY <1>12 DEF ChangesView, At
  <2> QED
    BY <1>1, <1>4, <1>12, <2>1, ChangesViewStep
<1>13. ASSUME NEW p \in Writers, Exports(p) PROVE FilesInv'
  <2>1. pc[p] \notin {"idle", "dead"} /\ budget'.alone = budget.alone /\ latest' = latest
    BY <1>13 DEF Exports, At, ProgressOnly
  <2> QED
    BY <1>1, <1>4, <1>13, <2>1, ExportsStep
<1>14. ASSUME NEW p \in Writers, WriteFails(p) PROVE FilesInv'
  <2>1. pc[p] \notin {"idle", "dead"} /\ budget'.alone = budget.alone /\ latest' = latest
    BY <1>5, <1>14 DEF WriteFails, WriteOnly
  <2> QED
    BY <1>1, <1>4, <1>14, <2>1, WriteFailsStep
<1>15. ASSUME NEW p \in Writers, Creates(p) PROVE FilesInv'
  <2>1. pc[p] \notin {"idle", "dead"} /\ budget'.alone = budget.alone /\ latest' = latest
    BY <1>15 DEF Creates, At, WriteOnly
  <2> QED
    BY <1>1, <1>4, <1>15, <2>1, CreatesStep
<1>16. ASSUME NEW p \in Writers, Fills(p) PROVE FilesInv'
  <2>1. pc[p] \notin {"idle", "dead"} /\ budget'.alone = budget.alone /\ latest' = latest
    BY <1>16 DEF Fills, At, WriteOnly
  <2> QED
    BY <1>1, <1>4, <1>16, <2>1, FillsStep
<1>17. ASSUME NEW p \in Writers, Moves(p) PROVE FilesInv'
  <2>1. pc[p] \notin {"idle", "dead"} /\ budget'.alone = budget.alone /\ latest' = latest
    BY <1>17 DEF Moves, At, WriteOnly
  <2> QED
    BY <1>1, <1>4, <1>17, <2>1, MovesStep
<1>18. ASSUME NEW p \in Writers, Reports(p) PROVE FilesInv'
  <2>1. pc[p] \notin {"idle", "dead"} /\ budget'.alone = budget.alone /\ latest' = latest
    BY <1>18 DEF Reports, WriteOnly
  <2> QED
    BY <1>1, <1>4, <1>18, <2>1, ReportsStep
<1>19. ASSUME NEW p \in Writers, Dies(p) PROVE FilesInv'
  <2>1. budget'.alone = budget.alone
    BY <1>1, <1>19, DeathSpent DEF Dies, FilesApart
  <2>2. pc[p] \notin {"idle", "dead"} /\ latest' = latest
    BY <1>19 DEF Dies, WriteOnly
  <2> QED
    BY <1>1, <1>4, <1>19, <2>1, <2>2, DiesStep
<1>20. CASE UNCHANGED fileVars
  <2>1. FilesApart'
    BY <1>1, <1>20 DEF fileVars, FilesApart, FilesTypeOK, WholeFiles, OwnFile, OneAtATime
  <2>2. Faithful'
    <3>1. latest' = latest /\ budget' = budget
      BY <1>20 DEF fileVars
    <3> SUFFICES ASSUME budget.alone, latest # Absent PROVE Underway(latest)'
      BY <3>1 DEF Faithful
    <3>2. latest \in Writers /\ Underway(latest)
      BY <1>1 DEF Faithful, FilesApart, FilesTypeOK
    <3>3. PICK p \in Writers : p = latest
      BY <3>2
    <3>4. Underway(p)
      BY <3>2, <3>3
    <3>5. Underway(p)'
      BY <1>20, <3>4, Unaltered
    <3> QED
      BY <3>1, <3>3, <3>5
  <2> QED
    BY <1>2, <2>1, <2>2
<1> QED
  BY <1>3, <1>6, <1>7, <1>8, <1>9, <1>10, <1>11, <1>12, <1>13, <1>14, <1>15, <1>16, <1>17, <1>18, <1>19, <1>20
  DEF FilesNext

LEMMA FilesInvImplies ==
    ASSUME FilesInv PROVE FilesAreAsSaid
<1>1. \A f \in Files : disk[f].whole
  BY DEF FilesInv, WholeFiles
<1>2. \A p \in Writers : pc[p] = "idle" => write[p] = NoFile
  BY DEF FilesInv, OwnFile
<1>3. ASSUME budget.alone /\ latest # Absent
      PROVE  /\ pc[latest] = "idle" => AsSaid(latest)
             /\ doing[latest].op = "add" =>
                    \A n \in Names : Entries("config")[n] # before["config"].entries[n] => Entries("credentials")[n] = latest
  BY <1>3 DEF FilesInv, Faithful, Underway, InOrder, Adding
<1> QED
  BY <1>1, <1>2, <1>3 DEF FilesAreAsSaid

\* The files, what is held of them and what is written have their types, for any
\* number of processes, names, operations, faults and deaths.
THEOREM FilesTypeCorrect == FilesSpec => []FilesTypeOK
<1>1. FilesInit => FilesInv
  BY FilesInvInit
<1>2. FilesInv /\ [FilesNext]_fileVars => FilesInv'
  BY FilesInvNext
<1>3. FilesInv => FilesTypeOK
  BY DEF FilesInv
<1> QED
  BY <1>1, <1>2, <1>3, PTL DEF FilesSpec

\* What tale auth, the saved views and the exports tell the user of an operation
\* is so of the files, whichever step of it failed and whoever died on the way;
\* every file is whole, whatever other processes write beside it.
THEOREM FilesTellTheTruth == FilesSpec => []FilesAreAsSaid
<1>1. FilesInit => FilesInv
  BY FilesInvInit
<1>2. FilesInv /\ [FilesNext]_fileVars => FilesInv'
  BY FilesInvNext
<1>3. FilesInv => FilesAreAsSaid
  BY FilesInvImplies
<1> QED
  BY <1>1, <1>2, <1>3, PTL DEF FilesSpec

-----------------------------------------------------------------------------
(* Dialogs *)

LEMMA WaysOfKinds ==
    \A k \in DOMAIN DialogKinds :
        /\ k \in {"change", "delete", "webhook", "keyring", "export", "disconnect", "unserve", "ssh"}
        /\ DialogKinds[k].review <=> k \in {"change", "delete"}
        /\ DialogKinds[k].form <=> k \in {"change", "delete", "export", "ssh"}
        /\ DialogKinds[k].remote <=> k \in {"change", "delete", "webhook"}
        /\ DialogKinds[k].phrase \in Typings \cup {"blank"}
<1> DEFINE Kinds == {"change", "delete", "webhook", "keyring", "export", "disconnect", "unserve", "ssh"}
<1>1. DOMAIN DialogKinds = Kinds
  BY DEF DialogKinds
<1>2. /\ DialogKinds["change"] = Way(TRUE, TRUE, TRUE, TRUE, "blank")
      /\ DialogKinds["delete"] = Way(TRUE, TRUE, TRUE, TRUE, "DELETE")
      /\ DialogKinds["webhook"] = Way(FALSE, FALSE, TRUE, FALSE, "ROTATE")
      /\ DialogKinds["keyring"] = Way(FALSE, FALSE, FALSE, FALSE, "REMOVE")
      /\ DialogKinds["export"] = Way(TRUE, FALSE, FALSE, FALSE, "blank")
      /\ DialogKinds["disconnect"] = Way(FALSE, FALSE, FALSE, FALSE, "DISCONNECT")
      /\ DialogKinds["unserve"] = Way(FALSE, FALSE, FALSE, TRUE, "blank")
      /\ DialogKinds["ssh"] = Way(TRUE, FALSE, FALSE, TRUE, "blank")
  BY DEF DialogKinds
<1>3. \A k \in Kinds :
        /\ DialogKinds[k].review <=> k \in {"change", "delete"}
        /\ DialogKinds[k].form <=> k \in {"change", "delete", "export", "ssh"}
        /\ DialogKinds[k].remote <=> k \in {"change", "delete", "webhook"}
        /\ DialogKinds[k].phrase \in Typings \cup {"blank"}
  BY <1>2 DEF Way, Typings
<1> QED
  BY <1>1, <1>3

LEMMA AllKinds ==
    /\ DOMAIN DialogKinds = {"change", "delete", "webhook", "keyring", "export", "disconnect", "unserve", "ssh"}
    /\ DialogForms = {"change", "delete", "export", "ssh"}
<1>1. DOMAIN DialogKinds = {"change", "delete", "webhook", "keyring", "export", "disconnect", "unserve", "ssh"}
  BY DEF DialogKinds
<1> QED
  BY <1>1, WaysOfKinds DEF DialogForms

LEMMA DeskTypes ==
    ASSUME NEW d \in DialogDesks
    PROVE  /\ d.reviews \in Nat /\ d.generation \in Nat /\ d.document \in Nat /\ d.account \in DialogAccounts
           /\ d.stack \in Seq(DialogOverlays) /\ Len(d.stack) \in Nat /\ DOMAIN d.stack = 1..Len(d.stack)
           /\ \A i \in 1..Len(d.stack) :
                 /\ d.stack[i] \in DialogOverlays
                 /\ d.stack[i].what = "review" =>
                       d.stack[i] \in DialogReview /\ d.stack[i].id \in Nat /\ d.stack[i].generation \in Nat
<1>1. d.stack \in Seq(DialogOverlays) /\ d.reviews \in Nat /\ d.generation \in Nat /\ d.document \in Nat /\ d.account \in DialogAccounts
  BY DEF DialogDesks
<1>2. \A o \in DialogOverlays : o.what = "review" => o \in DialogReview /\ o.id \in Nat /\ o.generation \in Nat
  BY DEF DialogOverlays, DialogReview
<1>3. \A i \in 1..Len(d.stack) : d.stack[i] \in DialogOverlays
  BY <1>1
<1> QED
  BY <1>1, <1>2, <1>3

\* What the stack shows: each review has a number of its own, is of the profile
\* if it is of the generation, and only the one at the bottom is of an export,
\* of the document that is pending.
Fitting(d) ==
    \A i \in 1..Len(d.stack) :
        /\ d.stack[i].what = "review" =>
              /\ d.stack[i].id <= d.reviews
              /\ d.stack[i].generation <= d.generation
              /\ d.stack[i].generation = d.generation => d.stack[i].account = d.account
              /\ d.stack[i].kind = "export" => i = 1 /\ d.document = d.stack[i].id
              /\ \A j \in 1..Len(d.stack) :
                    d.stack[j].what = "review" /\ d.stack[j].id = d.stack[i].id => i = j
        /\ d.stack[i].what = "form" /\ d.stack[i].kind = "export" => i = 1

\* The reviews of e are those of d, or new.
Succeeds(d, e) ==
    /\ e.reviews >= d.reviews
    /\ \A i \in 1..Len(e.stack) : e.stack[i].what = "review" =>
          \/ e.stack[i].id > d.reviews
          \/ \E j \in 1..Len(d.stack) : d.stack[j].what = "review" /\ d.stack[j].id = e.stack[i].id

Proper(d) == d \in DialogDesks /\ Fitting(d)

LEMMA FollowsOn ==
    ASSUME NEW d \in DialogDesks, NEW e \in DialogDesks, NEW f \in DialogDesks, Succeeds(d, e), Succeeds(e, f)
    PROVE  Succeeds(d, f)
<1>1. \A i \in 1..Len(f.stack) : f.stack[i].what = "review" => f.stack[i].id \in Nat
  BY DeskTypes
<1>2. d.reviews \in Nat /\ e.reviews \in Nat /\ f.reviews \in Nat
  BY DeskTypes
<1>0. e.reviews >= d.reviews /\ f.reviews >= e.reviews
  BY DEF Succeeds
<1>m. f.reviews >= d.reviews
  BY <1>0, <1>2
<1> SUFFICES ASSUME NEW i \in 1..Len(f.stack), f.stack[i].what = "review"
             PROVE  \/ f.stack[i].id > d.reviews
                    \/ \E j \in 1..Len(d.stack) : d.stack[j].what = "review" /\ d.stack[j].id = f.stack[i].id
  BY <1>m DEF Succeeds
<1>3. CASE f.stack[i].id > e.reviews
  <2>1. f.stack[i].id \in Nat
    BY <1>1
  <2> QED
    BY <1>0, <1>2, <1>3, <2>1
<1>4. CASE \E j \in 1..Len(e.stack) : e.stack[j].what = "review" /\ e.stack[j].id = f.stack[i].id
  BY <1>4 DEF Succeeds
<1> QED
  BY <1>3, <1>4 DEF Succeeds

\* What remains of a stack fits as before.
LEMMA RestFits ==
    ASSUME NEW d, Proper(d), NEW e \in DialogDesks,
           e.reviews = d.reviews, e.generation >= d.generation,
           e.generation = d.generation => e.account = d.account,
           Len(e.stack) <= Len(d.stack),
           \A i \in 1..Len(e.stack) :
               /\ e.stack[i].what = d.stack[i].what
               /\ e.stack[i].what \in {"form", "review"} => e.stack[i].kind = d.stack[i].kind
               /\ e.stack[i].what = "review" =>
                     /\ e.stack[i].id = d.stack[i].id
                     /\ e.stack[i].generation = d.stack[i].generation
                     /\ e.stack[i].account = d.stack[i].account,
           e.document = d.document \/ e.stack = <<>>
    PROVE  Proper(e) /\ Succeeds(d, e)
<1>1. /\ d.reviews \in Nat /\ d.generation \in Nat /\ e.generation \in Nat
      /\ Len(d.stack) \in Nat /\ Len(e.stack) \in Nat
  BY DeskTypes DEF Proper
<1>2. \A i \in 1..Len(e.stack) : i \in 1..Len(d.stack) /\ e.document = d.document
  BY <1>1
<1>3. \A i \in 1..Len(d.stack) : d.stack[i].what = "review" => d.stack[i].generation \in Nat /\ d.stack[i].id \in Nat
  BY DeskTypes DEF Proper
<1>4. \A i \in 1..Len(e.stack) :
         /\ e.stack[i].what = "review" =>
               /\ d.stack[i].what = "review"
               /\ e.stack[i].id = d.stack[i].id
               /\ e.stack[i].kind = d.stack[i].kind
               /\ e.stack[i].generation = d.stack[i].generation
               /\ e.stack[i].account = d.stack[i].account
         /\ e.stack[i].what = "form" => d.stack[i].what = "form" /\ e.stack[i].kind = d.stack[i].kind
  BY <1>2
<1>5. Succeeds(d, e)
  BY <1>1, <1>2, <1>4 DEF Succeeds
<1>6. Fitting(e)
  <2> SUFFICES ASSUME NEW i \in 1..Len(e.stack)
               PROVE  /\ e.stack[i].what = "review" =>
                            /\ e.stack[i].id <= e.reviews
                            /\ e.stack[i].generation <= e.generation
                            /\ e.stack[i].generation = e.generation => e.stack[i].account = e.account
                            /\ e.stack[i].kind = "export" => i = 1 /\ e.document = e.stack[i].id
                            /\ \A j \in 1..Len(e.stack) :
                                  e.stack[j].what = "review" /\ e.stack[j].id = e.stack[i].id => i = j
                      /\ e.stack[i].what = "form" /\ e.stack[i].kind = "export" => i = 1
    BY DEF Fitting
  <2>1. CASE e.stack[i].what = "review"
    <3>1. /\ d.stack[i].id <= d.reviews
          /\ d.stack[i].generation <= d.generation
          /\ d.stack[i].generation = d.generation => d.stack[i].account = d.account
          /\ d.stack[i].kind = "export" => i = 1 /\ d.document = d.stack[i].id
      BY <1>2, <1>4, <2>1 DEF Fitting, Proper
    <3>2. \A j \in 1..Len(e.stack) :
             e.stack[j].what = "review" /\ e.stack[j].id = e.stack[i].id => i = j
      BY <1>2, <1>4, <2>1 DEF Fitting, Proper
    <3> QED
      BY <1>1, <1>2, <1>3, <1>4, <2>1, <3>1, <3>2
  <2>2. CASE e.stack[i].what # "review"
    BY <1>2, <1>4, <2>2 DEF Fitting, Proper
  <2> QED
    BY <2>1, <2>2
<1> QED
  BY <1>5, <1>6 DEF Proper

\* What is put on top fits.
LEMMA TopFits ==
    ASSUME NEW d, Proper(d), NEW e \in DialogDesks, NEW o \in DialogOverlays,
           e.stack = Append(d.stack, o), e.generation = d.generation, e.account = d.account,
           o.what \in {"form", "review"} /\ o.kind = "export" => d.stack = <<>>,
           IF o.what = "review"
           THEN /\ o.id = d.reviews + 1 /\ e.reviews = o.id /\ o.generation = d.generation /\ o.account = d.account
                /\ o.kind = "export" => e.document = o.id
                /\ e.document = d.document \/ d.stack = <<>>
           ELSE e.reviews = d.reviews /\ e.document = d.document
    PROVE  Proper(e) /\ Succeeds(d, e)
<1>1. d.stack \in Seq(DialogOverlays) /\ d.reviews \in Nat /\ d.generation \in Nat /\ Len(d.stack) \in Nat
  BY DeskTypes DEF Proper
<1>2. /\ Len(e.stack) = Len(d.stack) + 1
      /\ \A i \in 1..Len(d.stack) : e.stack[i] = d.stack[i]
      /\ e.stack[Len(d.stack) + 1] = o
  BY <1>1
<1>3. \A i \in 1..Len(e.stack) : i \in 1..Len(d.stack) \/ i = Len(d.stack) + 1
  BY <1>1, <1>2
<1>4. \A i \in 1..Len(d.stack) : d.stack[i].what = "review" => d.stack[i].id \in Nat /\ d.stack[i].id <= d.reviews
  BY DeskTypes DEF Fitting, Proper
<1>5. d.stack = <<>> => Len(d.stack) = 0
  OBVIOUS
<1>6. Fitting(e)
  <2> SUFFICES ASSUME NEW i \in 1..Len(e.stack)
               PROVE  /\ e.stack[i].what = "review" =>
                            /\ e.stack[i].id <= e.reviews
                            /\ e.stack[i].generation <= e.generation
                            /\ e.stack[i].generation = e.generation => e.stack[i].account = e.account
                            /\ e.stack[i].kind = "export" => i = 1 /\ e.document = e.stack[i].id
                            /\ \A j \in 1..Len(e.stack) :
                                  e.stack[j].what = "review" /\ e.stack[j].id = e.stack[i].id => i = j
                      /\ e.stack[i].what = "form" /\ e.stack[i].kind = "export" => i = 1
    BY DEF Fitting
  <2>1. CASE i = Len(d.stack) + 1
    BY <1>1, <1>2, <1>3, <1>4, <1>5, <2>1
  <2>2. CASE i \in 1..Len(d.stack)
    <3>1. d.stack # <<>>
      BY <1>1, <2>2
    <3> QED
      BY <1>1, <1>2, <1>3, <1>4, <2>2, <3>1 DEF Fitting, Proper
  <2> QED
    BY <1>3, <2>1, <2>2
<1>7. Succeeds(d, e)
  BY <1>1, <1>2, <1>3 DEF Succeeds
<1> QED
  BY <1>6, <1>7 DEF Proper

\* The operators on desks.
LEMMA ReviewedFits ==
    ASSUME NEW d, Proper(d), NEW kind \in DOMAIN DialogKinds, NEW row \in Nat, NEW phrase \in Typings \cup {"blank"},
           kind \in {"export", "webhook"} => d.stack = <<>>
    PROVE  Proper(Reviewed(d, kind, row, d.account, phrase)) /\ Succeeds(d, Reviewed(d, kind, row, d.account, phrase))
<1> DEFINE id == d.reviews + 1
           o == [what |-> "review", id |-> id, kind |-> kind, row |-> row, account |-> d.account,
                 generation |-> d.generation, phrase |-> phrase, typed |-> "blank"]
           e == Reviewed(d, kind, row, d.account, phrase)
<1>1. d \in DialogDesks /\ d.reviews \in Nat /\ d.generation \in Nat /\ d.account \in DialogAccounts /\ d.stack \in Seq(DialogOverlays)
  BY DeskTypes DEF Proper
<1>2. o \in DialogOverlays
  <2>1. o \in DialogReview
    BY <1>1 DEF DialogReview
  <2> QED
    BY <2>1 DEF DialogOverlays
<1>3. Append(d.stack, o) \in Seq(DialogOverlays) /\ id \in Nat
  BY <1>1, <1>2
<1>4. e = [d EXCEPT !.reviews = id, !.document = IF kind = "export" THEN id ELSE IF kind = "webhook" THEN 0 ELSE @,
                    !.stack = Append(@, o)]
  BY DEF Reviewed
<1>5. /\ e \in DialogDesks
      /\ e.stack = Append(d.stack, o) /\ e.generation = d.generation /\ e.account = d.account /\ e.reviews = id
      /\ e.document = IF kind = "export" THEN id ELSE IF kind = "webhook" THEN 0 ELSE d.document
  <2> HIDE DEF o, e, id
  <2> QED
    BY <1>1, <1>3, <1>4 DEF DialogDesks
<1>6. o.what = "review" /\ o.id = d.reviews + 1 /\ o.generation = d.generation /\ o.account = d.account /\ o.kind = kind
  OBVIOUS
<1> HIDE DEF o, e
<1>7. Proper(e) /\ Succeeds(d, e)
  BY <1>2, <1>5, <1>6, TopFits
<1> QED
  BY <1>7 DEF e

LEMMA FormFits ==
    ASSUME NEW d, Proper(d), NEW kind \in DialogForms, kind = "export" => d.stack = <<>>
    PROVE  Proper(FormOf(d, kind)) /\ Succeeds(d, FormOf(d, kind))
<1> DEFINE o == [what |-> "form", kind |-> kind]
           e == FormOf(d, kind)
<1>1. d \in DialogDesks /\ d.stack \in Seq(DialogOverlays)
  BY DeskTypes DEF Proper
<1>2. o \in DialogOverlays /\ o.what = "form" /\ o.kind = kind
  BY DEF DialogOverlays
<1>3. Append(d.stack, o) \in Seq(DialogOverlays)
  BY <1>1, <1>2
<1>4. e = [d EXCEPT !.stack = Append(@, o)]
  BY DEF FormOf
<1> HIDE DEF o, e
<1>5. /\ e \in DialogDesks
      /\ e.stack = Append(d.stack, o) /\ e.generation = d.generation /\ e.account = d.account /\ e.reviews = d.reviews
      /\ e.document = d.document
  BY <1>1, <1>3, <1>4 DEF DialogDesks
<1>6. Proper(e) /\ Succeeds(d, e)
  BY <1>2, <1>5, TopFits
<1> QED
  BY <1>6 DEF e

LEMMA TopIsLast ==
    ASSUME NEW d, Proper(d), d.stack # <<>>
    PROVE  /\ TopOf(d) = d.stack[Len(d.stack)] /\ TopOf(d) \in DialogOverlays
           /\ Len(d.stack) \in Nat \ {0} /\ Len(d.stack) \in 1..Len(d.stack)
           /\ Pile!Front(d.stack) \in Seq(DialogOverlays) /\ Len(Pile!Front(d.stack)) = Len(d.stack) - 1
           /\ \A i \in 1..Len(Pile!Front(d.stack)) : Pile!Front(d.stack)[i] = d.stack[i]
           /\ Len(d.stack) = 1 => Pile!Front(d.stack) = <<>>
<1>1. d.stack \in Seq(DialogOverlays) /\ Len(d.stack) \in Nat
  BY DeskTypes DEF Proper
<1>2. Len(d.stack) # 0
  BY <1>1, EmptySeq
<1>3. TopOf(d) = d.stack[Len(d.stack)]
  BY DEF TopOf, Pile!Last
<1>4. Len(d.stack) \in 1..Len(d.stack) /\ d.stack[Len(d.stack)] \in DialogOverlays
  BY <1>1, <1>2
<1> DEFINE m == Len(d.stack) - 1
           f == SubSeq(d.stack, 1, m)
<1>5. m \in Nat /\ m \in Int /\ 1 \in Int /\ \A i \in 1..m : d.stack[i] \in DialogOverlays
  BY <1>1, <1>2
<1>6. f \in Seq(DialogOverlays) /\ Len(f) = m /\ \A i \in 1..m : f[i] = d.stack[i]
  <2> HIDE DEF m
  <2>1. /\ f \in Seq(DialogOverlays)
        /\ Len(f) = IF 1 <= m THEN m - 1 + 1 ELSE 0
        /\ \A i \in 1..m - 1 + 1 : f[i] = d.stack[1 + i - 1]
    BY <1>5, SubSeqProperties
  <2> QED
    BY <1>5, <2>1
<1>7. Pile!Front(d.stack) = f
  BY DEF Pile!Front
<1>8. Len(f) = 0 => f = <<>>
  BY <1>6, EmptySeq
<1> HIDE DEF f
<1> QED
  BY <1>1, <1>2, <1>3, <1>4, <1>6, <1>7, <1>8

LEMMA SameFits ==
    ASSUME NEW d, Proper(d), NEW e \in DialogDesks, e.stack = d.stack, e.reviews = d.reviews, e.document = d.document,
           e.generation >= d.generation, e.generation = d.generation => e.account = d.account
    PROVE  Proper(e) /\ Succeeds(d, e)
<1>1. Len(d.stack) \in Nat
  BY DeskTypes DEF Proper
<1> QED
  BY <1>1, RestFits

LEMMA PoppedFits ==
    ASSUME NEW d, Proper(d), d.stack # <<>>, NEW e \in DialogDesks,
           e.stack = Pile!Front(d.stack), e.reviews = d.reviews, e.generation = d.generation, e.account = d.account,
           e.document = d.document \/ (TopOf(d).what = "review" /\ TopOf(d).kind = "export")
    PROVE  Proper(e) /\ Succeeds(d, e)
<1>1. d.generation \in Nat
  BY DeskTypes DEF Proper
<1>2. /\ TopOf(d) = d.stack[Len(d.stack)] /\ Len(d.stack) \in 1..Len(d.stack) /\ Len(d.stack) \in Nat
      /\ Len(e.stack) = Len(d.stack) - 1
      /\ \A i \in 1..Len(e.stack) : e.stack[i] = d.stack[i]
      /\ Len(d.stack) = 1 => e.stack = <<>>
  BY TopIsLast
<1>3. TopOf(d).what = "review" /\ TopOf(d).kind = "export" => Len(d.stack) = 1
  BY <1>2 DEF Proper, Fitting
<1> QED
  BY <1>1, <1>2, <1>3, RestFits

LEMMA PoppedOffFits ==
    ASSUME NEW d, Proper(d), d.stack # <<>>
    PROVE  /\ Proper(PoppedOff(d)) /\ Succeeds(d, PoppedOff(d))
           /\ Proper([d EXCEPT !.stack = Pile!Front(@)]) /\ Succeeds(d, [d EXCEPT !.stack = Pile!Front(@)])
<1> DEFINE e == PoppedOff(d)
           f == [d EXCEPT !.stack = Pile!Front(@)]
<1>1. d \in DialogDesks /\ Pile!Front(d.stack) \in Seq(DialogOverlays)
  BY TopIsLast DEF Proper
<1>2. /\ e \in DialogDesks /\ e.stack = Pile!Front(d.stack) /\ e.reviews = d.reviews
      /\ e.generation = d.generation /\ e.account = d.account
      /\ e.document = d.document \/ (TopOf(d).what = "review" /\ TopOf(d).kind = "export")
  BY <1>1 DEF PoppedOff, DialogDesks
<1>3. /\ f \in DialogDesks /\ f.stack = Pile!Front(d.stack) /\ f.reviews = d.reviews
      /\ f.generation = d.generation /\ f.account = d.account /\ f.document = d.document
  BY <1>1 DEF DialogDesks
<1> HIDE DEF e, f
<1>4. Proper(e) /\ Succeeds(d, e) /\ Proper(f) /\ Succeeds(d, f)
  BY <1>2, <1>3, PoppedFits
<1> QED
  BY <1>4 DEF e, f

\* Another text, or another phrase, on the review on top.
LEMMA RetypedFits ==
    ASSUME NEW d, Proper(d), TopOf(d).what = "review", NEW o \in DialogReview,
           o.id = TopOf(d).id, o.kind = TopOf(d).kind, o.generation = TopOf(d).generation, o.account = TopOf(d).account
    PROVE  Proper(WithTop(d, o)) /\ Succeeds(d, WithTop(d, o))
<1> DEFINE e == WithTop(d, o)
<1>1. d.stack # <<>>
  BY DEF TopOf
<1>2. d \in DialogDesks /\ d.generation \in Nat /\ o \in DialogOverlays /\ o.what = "review"
  BY DeskTypes DEF Proper, DialogOverlays, DialogReview
<1>3. /\ TopOf(d) = d.stack[Len(d.stack)] /\ Len(d.stack) \in Nat \ {0}
      /\ Pile!Front(d.stack) \in Seq(DialogOverlays) /\ Len(Pile!Front(d.stack)) = Len(d.stack) - 1
      /\ \A i \in 1..Len(Pile!Front(d.stack)) : Pile!Front(d.stack)[i] = d.stack[i]
  BY <1>1, TopIsLast
<1>4. Append(Pile!Front(d.stack), o) \in Seq(DialogOverlays)
  BY <1>2, <1>3
<1>5. /\ e \in DialogDesks /\ e.stack = Append(Pile!Front(d.stack), o) /\ e.reviews = d.reviews
      /\ e.generation = d.generation /\ e.account = d.account /\ e.document = d.document
  BY <1>2, <1>4 DEF WithTop, DialogDesks
<1>6. /\ Len(e.stack) = Len(d.stack) /\ e.stack[Len(d.stack)] = o
      /\ \A i \in 1..(Len(d.stack) - 1) : e.stack[i] = d.stack[i]
  BY <1>2, <1>3, <1>5
<1>7. \A i \in 1..Len(e.stack) : i \in 1..(Len(d.stack) - 1) \/ i = Len(d.stack)
  BY <1>3, <1>6
<1>8. \A i \in 1..Len(e.stack) :
          /\ e.stack[i].what = d.stack[i].what
          /\ e.stack[i].what \in {"form", "review"} => e.stack[i].kind = d.stack[i].kind
          /\ e.stack[i].what = "review" =>
                /\ e.stack[i].id = d.stack[i].id
                /\ e.stack[i].generation = d.stack[i].generation
                /\ e.stack[i].account = d.stack[i].account
  BY <1>2, <1>3, <1>6, <1>7
<1>9. e.generation >= d.generation /\ Len(e.stack) <= Len(d.stack) /\ e.account = d.account
  BY <1>2, <1>3, <1>5, <1>6
<1> HIDE DEF e
<1>10. Proper(e) /\ Succeeds(d, e)
  BY <1>5, <1>8, <1>9, RestFits
<1> QED
  BY <1>10 DEF e

\* An action dispatched where nothing is open.
LEMMA DispatchedFits ==
    ASSUME NEW d, Proper(d), d.stack = <<>>, NEW kind \in DOMAIN DialogKinds
    PROVE  Proper(Dispatched(d, kind)) /\ Succeeds(d, Dispatched(d, kind))
<1>1. d \in DialogDesks /\ d.picked \in Nat /\ NoRow \in Nat
  BY DEF Proper, DialogDesks, NoRow
<1>2. RowOf(d, kind) \in Nat
  BY <1>1 DEF RowOf
<1>3. DialogKinds[kind].phrase \in Typings \cup {"blank"}
  BY WaysOfKinds
<1>4. Proper(d) /\ Succeeds(d, d)
  <2>1. d.generation \in Nat
    BY DeskTypes DEF Proper
  <2> QED
    BY <1>1, <2>1, SameFits
<1>5. Proper(Reviewed(d, kind, RowOf(d, kind), d.account, DialogKinds[kind].phrase))
      /\ Succeeds(d, Reviewed(d, kind, RowOf(d, kind), d.account, DialogKinds[kind].phrase))
  BY <1>2, <1>3, ReviewedFits
<1>6. DialogKinds[kind].form => Proper(FormOf(d, kind)) /\ Succeeds(d, FormOf(d, kind))
  BY FormFits DEF DialogForms
<1> QED
  BY <1>4, <1>5, <1>6 DEF Dispatched

LEMMA ReadFirstFits ==
    ASSUME NEW d, Proper(d), NEW kind \in {"change", "delete"}, NEW row \in Nat, NEW account \in DialogAccounts
    PROVE  Proper(ReadFirst(d, kind, row, account)) /\ Succeeds(d, ReadFirst(d, kind, row, account))
<1> DEFINE e == ReadFirst(d, kind, row, account)
<1>1. d \in DialogDesks /\ d.generation \in Nat
  BY DeskTypes DEF Proper
<1> DEFINE asked == d.reads \cup {[kind |-> kind, row |-> row, account |-> account]}
<1>2. asked \in SUBSET [kind : {"change", "delete"}, row : Nat, account : DialogAccounts]
  BY <1>1 DEF DialogDesks
<1>3. e = [d EXCEPT !.reads = asked]
  BY DEF ReadFirst
<1> HIDE DEF asked, e
<1>4. /\ e \in DialogDesks /\ e.stack = d.stack /\ e.reviews = d.reviews /\ e.document = d.document
      /\ e.generation = d.generation /\ e.account = d.account
  BY <1>1, <1>2, <1>3 DEF DialogDesks
<1>5. Proper(e) /\ Succeeds(d, e)
  BY <1>1, <1>4, SameFits
<1> QED
  BY <1>5 DEF e

LEMMA AcceptedFormFits ==
    ASSUME NEW d, Proper(d), TopOf(d).what = "form"
    PROVE  Proper(FormAccepted(d, TopOf(d))) /\ Succeeds(d, FormAccepted(d, TopOf(d)))
<1> DEFINE kind == TopOf(d).kind
           popped == [d EXCEPT !.stack = Pile!Front(@)]
           row == RowOf(d, kind)
           phrase == IF kind = "export" /\ d.exists THEN "OVERWRITE" ELSE DialogKinds[kind].phrase
<1>1. d.stack # <<>>
  BY DEF TopOf
<1>2. d \in DialogDesks /\ d.picked \in Nat /\ NoRow \in Nat /\ d.generation \in Nat /\ d.account \in DialogAccounts
  BY DEF Proper, DialogDesks, NoRow
<1>3. Proper(popped) /\ Succeeds(d, popped)
  BY <1>1, PoppedOffFits
<1>4. popped.account = d.account /\ popped.stack = Pile!Front(d.stack)
  BY <1>2 DEF DialogDesks
<1>5. kind \in DialogForms /\ kind \in DOMAIN DialogKinds
  <2>1. TopOf(d) \in DialogOverlays
    BY <1>1, TopIsLast
  <2> QED
    BY <2>1 DEF DialogOverlays, DialogReview, DialogForms
<1>6. row \in Nat
  BY <1>2 DEF RowOf
<1>7. phrase \in Typings \cup {"blank"}
  BY <1>5, WaysOfKinds DEF Typings
<1>8. kind # "webhook" /\ (kind = "export" => popped.stack = <<>>)
  <2>1. kind # "webhook"
    BY <1>5, AllKinds
  <2>2. kind = "export" => Len(d.stack) = 1
    BY <1>1, TopIsLast DEF Proper, Fitting
  <2> QED
    BY <1>1, <1>4, <2>1, <2>2, TopIsLast
<1>9. Proper(d) /\ Succeeds(d, d)
  BY <1>2, SameFits
<1> HIDE DEF popped, row, phrase
<1>10. CASE DialogKinds[kind].review
  <2>1. kind \in {"change", "delete"}
    BY <1>5, <1>10, WaysOfKinds
  <2>2. Proper(ReadFirst(popped, kind, row, d.account)) /\ Succeeds(popped, ReadFirst(popped, kind, row, d.account))
    BY <1>2, <1>3, <1>6, <2>1, ReadFirstFits
  <2>3. Succeeds(d, ReadFirst(popped, kind, row, d.account))
    BY <1>2, <1>3, <2>2, FollowsOn DEF Proper
  <2> QED
    BY <1>9, <1>10, <2>2, <2>3 DEF FormAccepted, popped, row
<1>11. CASE ~DialogKinds[kind].review
  <2>1. /\ Proper(Reviewed(popped, kind, row, d.account, phrase))
        /\ Succeeds(popped, Reviewed(popped, kind, row, d.account, phrase))
    BY <1>3, <1>4, <1>5, <1>6, <1>7, <1>8, ReviewedFits
  <2>2. Succeeds(d, Reviewed(popped, kind, row, d.account, phrase))
    BY <1>2, <1>3, <2>1, FollowsOn DEF Proper
  <2> QED
    BY <1>9, <1>11, <2>1, <2>2 DEF FormAccepted, popped, row, phrase
<1> QED
  BY <1>10, <1>11

-----------------------------------------------------------------------------
(* The steps of dialogs *)

\* A step that begins no effect.
DeskMoves ==
    /\ latitude' \in DialogAllowances
    /\ Proper(desk') /\ Succeeds(desk, desk')
    /\ begun' = begun

LEMMA LatitudeTypes ==
    ASSUME latitude \in DialogAllowances, NEW what \in {"switches", "refreshes", "losses"}
    PROVE  /\ Press => latitude' \in DialogAllowances
           /\ Takes(what) => latitude' \in DialogAllowances
<1>1. Press => latitude' \in DialogAllowances
  BY DEF Press, DialogAllowances
<1>2. Takes(what) => latitude' \in DialogAllowances
  BY DEF Takes, DialogAllowances
<1> QED
  BY <1>1, <1>2

\* Nothing that is open changes.
LEMMA Aside ==
    ASSUME Proper(desk), latitude' \in DialogAllowances, begun' = begun,
           desk' \in DialogDesks, desk'.stack = desk.stack, desk'.reviews = desk.reviews, desk'.document = desk.document,
           desk'.generation = desk.generation, desk'.account = desk.account
    PROVE  DeskMoves
<1>1. desk.generation \in Nat
  BY DeskTypes DEF Proper
<1> QED
  BY <1>1, SameFits DEF DeskMoves

LEMMA ModeSet ==
    ASSUME NEW d \in DialogDesks, NEW m \in {"normal", "menu", "line", "help"}
    PROVE  /\ [d EXCEPT !.mode = m] \in DialogDesks
           /\ [d EXCEPT !.mode = m].stack = d.stack /\ [d EXCEPT !.mode = m].reviews = d.reviews
           /\ [d EXCEPT !.mode = m].document = d.document
           /\ [d EXCEPT !.mode = m].generation = d.generation /\ [d EXCEPT !.mode = m].account = d.account
BY DEF DialogDesks

LEMMA GenerationSet ==
    ASSUME NEW d \in DialogDesks, NEW g \in Nat, NEW e, e = [d EXCEPT !.generation = g]
    PROVE  /\ e \in DialogDesks /\ e.stack = d.stack /\ e.reviews = d.reviews /\ e.document = d.document
           /\ e.generation = g
BY DEF DialogDesks

LEMMA QuitFits ==
    ASSUME NEW d, Proper(d)
    PROVE  Proper(Quit(d)) /\ Succeeds(d, Quit(d))
<1> DEFINE e == Quit(d)
<1>1. d \in DialogDesks /\ d.generation \in Nat /\ Len(d.stack) \in Nat
  BY DeskTypes DEF Proper
<1>2. <<>> \in Seq(DialogOverlays)
  OBVIOUS
<1>3. /\ e \in DialogDesks /\ e.stack = <<>> /\ e.reviews = d.reviews
      /\ e.generation = d.generation /\ e.account = d.account
  BY <1>1, <1>2 DEF Quit, DialogDesks
<1>4. Len(e.stack) = 0
  BY <1>3
<1>5. e.generation >= d.generation /\ Len(e.stack) <= Len(d.stack) /\ \A i \in 1..Len(e.stack) : FALSE
  BY <1>1, <1>3, <1>4
<1> HIDE DEF e
<1>6. Proper(e) /\ Succeeds(d, e)
  BY <1>3, <1>5, RestFits
<1> QED
  BY <1>6 DEF e

LEMMA ActionKeyMoves ==
    ASSUME DialogTypeOK, Proper(desk), NEW kind \in DOMAIN DialogKinds, ActionKey(kind)
    PROVE  DeskMoves
<1> DEFINE d == [desk EXCEPT !.mode = "normal"]
<1>1. desk \in DialogDesks /\ desk.stack = <<>> /\ desk.generation \in Nat
  BY DeskTypes DEF ActionKey, Bare, Proper
<1>2. d \in DialogDesks /\ d.stack = desk.stack /\ Proper(d) /\ Succeeds(desk, d)
  <2>1. /\ d \in DialogDesks /\ d.stack = desk.stack /\ d.reviews = desk.reviews /\ d.document = desk.document
        /\ d.generation = desk.generation /\ d.account = desk.account
    BY <1>1, ModeSet
  <2> HIDE DEF d
  <2> QED
    BY <1>1, <2>1, SameFits
<1> HIDE DEF d
<1>3. Proper(Dispatched(d, kind)) /\ Succeeds(d, Dispatched(d, kind))
  BY <1>1, <1>2, DispatchedFits
<1>4. Succeeds(desk, Dispatched(d, kind))
  BY <1>1, <1>2, <1>3, FollowsOn DEF Proper
<1>5. desk' = Dispatched(d, kind) /\ begun' = begun
  BY DEF ActionKey, DeskBecomes, d
<1>6. latitude' \in DialogAllowances
  BY LatitudeTypes DEF ActionKey, DialogTypeOK
<1> QED
  BY <1>3, <1>4, <1>5, <1>6 DEF DeskMoves

LEMMA TypingMoves ==
    ASSUME DialogTypeOK, Proper(desk), NEW t \in Typings, TypeKey(t) \/ PasteKey(t) \/ TabKey
    PROVE  DeskMoves
<1>1. latitude' \in DialogAllowances /\ begun' = begun
  BY LatitudeTypes DEF TypeKey, PasteKey, TabKey, DeskBecomes, DialogTypeOK
<1>2. TopOf(desk).what = "review" /\ desk.stack # <<>>
  BY DEF TypeKey, PasteKey, TabKey, TopOf
<1>3. TopOf(desk) \in DialogReview
  <2>1. TopOf(desk) \in DialogOverlays
    BY <1>2, TopIsLast
  <2> QED
    BY <1>2, <2>1 DEF DialogOverlays
<1> DEFINE o == Enters(desk, t)
           tab == [TopOf(desk) EXCEPT !.phrase = IF @ = "LOSE-SSH" THEN "DISCONNECT" ELSE "LOSE-SSH"]
<1>4. /\ o \in DialogReview
      /\ o.id = TopOf(desk).id /\ o.kind = TopOf(desk).kind /\ o.generation = TopOf(desk).generation
      /\ o.account = TopOf(desk).account
  BY <1>3 DEF Enters, DialogReview
<1>5. /\ tab \in DialogReview
      /\ tab.id = TopOf(desk).id /\ tab.kind = TopOf(desk).kind /\ tab.generation = TopOf(desk).generation
      /\ tab.account = TopOf(desk).account
  BY <1>3 DEF DialogReview, Typings
<1>6. desk' = desk \/ desk' = WithTop(desk, o) \/ desk' = WithTop(desk, tab)
  BY DEF TypeKey, PasteKey, TabKey, DeskBecomes
<1>7. CASE desk' = desk
  BY <1>1, <1>7, Aside DEF Proper
<1> HIDE DEF o, tab
<1>8. CASE desk' = WithTop(desk, o)
  BY <1>1, <1>2, <1>4, <1>8, RetypedFits DEF DeskMoves
<1>9. CASE desk' = WithTop(desk, tab)
  BY <1>1, <1>2, <1>5, <1>9, RetypedFits DEF DeskMoves
<1> QED
  BY <1>6, <1>7, <1>8, <1>9

LEMMA ModeMoves ==
    ASSUME DialogTypeOK, Proper(desk), (\E m \in {"menu", "line", "help"} : ModeKey(m)) \/ EscKey \/ InterruptKey \/ QuitKey
    PROVE  DeskMoves
<1>0. Press /\ begun' = begun
  BY DEF ModeKey, EscKey, InterruptKey, QuitKey, DeskBecomes
<1>1. latitude' \in DialogAllowances /\ begun' = begun /\ desk \in DialogDesks
  BY <1>0, LatitudeTypes DEF DialogTypeOK
<1>2. CASE \E m \in {"normal", "menu", "line", "help"} : desk' = [desk EXCEPT !.mode = m]
  <2>1. PICK m \in {"normal", "menu", "line", "help"} : desk' = [desk EXCEPT !.mode = m]
    BY <1>2
  <2>2. /\ desk' \in DialogDesks /\ desk'.stack = desk.stack /\ desk'.reviews = desk.reviews
        /\ desk'.document = desk.document /\ desk'.generation = desk.generation /\ desk'.account = desk.account
    BY <1>1, <2>1, ModeSet
  <2> QED
    BY <1>1, <2>2, Aside
<1>3. CASE desk.stack # <<>> /\ desk' = PoppedOff(desk)
  BY <1>1, <1>3, PoppedOffFits DEF DeskMoves
<1>4. CASE desk' = [desk EXCEPT !.task = "stopping"]
  <2>1. /\ desk' \in DialogDesks /\ desk'.stack = desk.stack /\ desk'.reviews = desk.reviews
        /\ desk'.document = desk.document /\ desk'.generation = desk.generation /\ desk'.account = desk.account
    BY <1>1, <1>4 DEF DialogDesks
  <2> QED
    BY <1>1, <2>1, Aside
<1>5. CASE desk' = Quit(desk)
  BY <1>1, <1>5, QuitFits DEF DeskMoves
<1>6. CASE desk' = [desk EXCEPT !.stack = Append(@, [what |-> "quit"])]
  <2> DEFINE o == [what |-> "quit"]
  <2>1. o \in DialogOverlays /\ o.what = "quit"
    BY DEF DialogOverlays
  <2>2. Append(desk.stack, o) \in Seq(DialogOverlays)
    BY <1>1, <2>1, DeskTypes
  <2>3. desk' = [desk EXCEPT !.stack = Append(desk.stack, o)]
    BY <1>6
  <2> HIDE DEF o
  <2>4. /\ desk' \in DialogDesks /\ desk'.stack = Append(desk.stack, o) /\ desk'.reviews = desk.reviews
        /\ desk'.document = desk.document /\ desk'.generation = desk.generation /\ desk'.account = desk.account
    BY <1>1, <2>2, <2>3 DEF DialogDesks
  <2>5. Proper(desk') /\ Succeeds(desk, desk')
    BY <2>1, <2>4, TopFits
  <2> QED
    BY <1>1, <2>5 DEF DeskMoves
<1> QED
  BY <1>2, <1>3, <1>4, <1>5, <1>6 DEF ModeKey, EscKey, InterruptKey, QuitKey, DeskBecomes, Bare

LEMMA OtherEnterMoves ==
    ASSUME DialogTypeOK, Proper(desk), EnterOther
    PROVE  DeskMoves
<1>1. latitude' \in DialogAllowances /\ begun' = begun /\ desk \in DialogDesks
  BY LatitudeTypes DEF EnterOther, DeskBecomes, DialogTypeOK
<1>2. CASE TopOf(desk).what = "form" /\ desk' = FormAccepted(desk, TopOf(desk))
  BY <1>1, <1>2, AcceptedFormFits DEF DeskMoves
<1>3. CASE desk' = Quit(desk)
  BY <1>1, <1>3, QuitFits DEF DeskMoves
<1>4. CASE desk' = desk
  BY <1>1, <1>4, Aside
<1>5. CASE desk' = [desk EXCEPT !.mode = "normal"]
  BY <1>1, <1>5, ModeSet, Aside
<1> QED
  BY <1>2, <1>3, <1>4, <1>5 DEF EnterOther, DeskBecomes

\* What is asked again before an effect concerns rows and accounts only.
LEMMA StaleMoves ==
    ASSUME DialogTypeOK, Proper(desk), EnterStale
    PROVE  DeskMoves
<1> DEFINE r == TopOf(desk)
           d == [desk EXCEPT !.stack = Pile!Front(@)]
<1>1. latitude' \in DialogAllowances /\ begun' = begun /\ desk \in DialogDesks
  BY LatitudeTypes DEF EnterStale, DeskBecomes, DialogTypeOK
<1>2. r.what = "review" /\ r.kind \in {"change", "delete"} /\ desk.stack # <<>>
  BY DEF EnterStale, TopOf
<1>3. r.row \in Nat /\ r.account \in DialogAccounts
  <2>1. r \in DialogOverlays
    BY <1>2, TopIsLast
  <2> QED
    BY <1>2, <2>1 DEF DialogOverlays, DialogReview
<1>4. Proper(d) /\ Succeeds(desk, d)
  BY <1>2, PoppedOffFits
<1>5. desk' = ReadFirst(d, r.kind, r.row, r.account)
  BY DEF EnterStale, DeskBecomes
<1> HIDE DEF r, d
<1>6. Proper(desk') /\ Succeeds(d, desk')
  BY <1>2, <1>3, <1>4, <1>5, ReadFirstFits
<1>7. Succeeds(desk, desk')
  BY <1>1, <1>4, <1>6, FollowsOn DEF Proper
<1> QED
  BY <1>1, <1>6, <1>7 DEF DeskMoves

LEMMA RetryMoves ==
    ASSUME DialogTypeOK, Proper(desk), RetryKey
    PROVE  DeskMoves
<1>1. latitude' \in DialogAllowances /\ begun' = begun /\ desk \in DialogDesks
  BY LatitudeTypes DEF RetryKey, DeskBecomes, DialogTypeOK
<1>2. desk.replay = "disconnect" /\ NoRow \in Nat
  BY <1>1 DEF RetryKey, DialogDesks, NoRow
<1>3. desk.replay \in DOMAIN DialogKinds /\ DialogKinds[desk.replay].phrase \in Typings \cup {"blank"}
  BY <1>2, AllKinds, WaysOfKinds
<1>4. Proper(desk') /\ Succeeds(desk, desk')
  BY <1>2, <1>3, ReviewedFits DEF RetryKey, DeskBecomes
<1> QED
  BY <1>1, <1>4 DEF DeskMoves

LEMMA ReviewMoves ==
    ASSUME DialogTypeOK, Proper(desk), NEW r \in desk.reads, ReviewArrives(r) \/ ReviewRefused(r)
    PROVE  DeskMoves
<1> DEFINE d == [desk EXCEPT !.reads = @ \ {r}]
<1>1. latitude' \in DialogAllowances /\ begun' = begun /\ desk \in DialogDesks /\ desk.generation \in Nat
  BY DeskTypes DEF ReviewArrives, ReviewRefused, DeskBecomes, DialogTypeOK
<1>2. r.kind \in {"change", "delete"} /\ r.row \in Nat
  BY <1>1 DEF DialogDesks
<1>3. /\ d \in DialogDesks /\ d.stack = desk.stack /\ d.reviews = desk.reviews /\ d.document = desk.document
      /\ d.generation = desk.generation /\ d.account = desk.account
  BY <1>1 DEF DialogDesks
<1>4. \/ desk' = d
      \/ desk' = FormOf(d, r.kind)
      \/ desk' = Reviewed(d, r.kind, r.row, d.account, DialogKinds[r.kind].phrase)
  BY DEF ReviewArrives, ReviewRefused, DeskBecomes
<1> HIDE DEF d
<1>5. Proper(d) /\ Succeeds(desk, d)
  BY <1>1, <1>3, SameFits
<1>6. r.kind \in DialogForms /\ r.kind \in DOMAIN DialogKinds /\ r.kind \notin {"export", "webhook"}
      /\ DialogKinds[r.kind].phrase \in Typings \cup {"blank"}
  BY <1>2, AllKinds, WaysOfKinds
<1>7. CASE desk' = d
  BY <1>1, <1>5, <1>7 DEF DeskMoves
<1>8. CASE desk' = FormOf(d, r.kind)
  <2>1. Proper(desk') /\ Succeeds(d, desk')
    BY <1>5, <1>6, <1>8, FormFits
  <2> QED
    BY <1>1, <1>3, <1>5, <2>1, FollowsOn DEF DeskMoves, Proper
<1>9. CASE desk' = Reviewed(d, r.kind, r.row, d.account, DialogKinds[r.kind].phrase)
  <2>1. Proper(desk') /\ Succeeds(d, desk')
    BY <1>2, <1>5, <1>6, <1>9, ReviewedFits
  <2> QED
    BY <1>1, <1>3, <1>5, <2>1, FollowsOn DEF DeskMoves, Proper
<1> QED
  BY <1>4, <1>7, <1>8, <1>9

LEMMA OutsideMoves ==
    ASSUME DialogTypeOK, Proper(desk),
           \/ \E a \in DialogAccounts : ProfileSwitches(a)
           \/ RefreshStarts \/ DaemonGoes \/ DaemonReturns
           \/ \E rows \in latitude.lists : ListArrives(rows)
           \/ \E w \in desk.writes, f \in BOOLEAN : EffectEnds(w, f)
    PROVE  DeskMoves
<1>1. desk \in DialogDesks /\ desk.generation \in Nat /\ latitude \in DialogAllowances
  BY DeskTypes DEF DialogTypeOK
<1>2. CASE \E a \in DialogAccounts : ProfileSwitches(a)
  <2>1. PICK a \in DialogAccounts : ProfileSwitches(a)
    BY <1>2
  <2>2. latitude' \in DialogAllowances /\ begun' = begun
    BY <1>1, <2>1, LatitudeTypes DEF ProfileSwitches, DeskBecomes
  <2>3. CASE desk' = desk
    BY <1>1, <2>2, <2>3, Aside
  <2>4. CASE desk' = [desk EXCEPT !.account = a, !.generation = @ + 1]
    <3>0. PICK g \in Nat : g = desk.generation + 1
      BY <1>1
    <3>1. /\ desk' \in DialogDesks /\ desk'.stack = desk.stack /\ desk'.reviews = desk.reviews
          /\ desk'.document = desk.document /\ desk'.generation = g
      <4>1. desk' = [desk EXCEPT !.account = a, !.generation = g]
        BY <2>4, <3>0
      <4> QED
        BY <1>1, <4>1 DEF DialogDesks
    <3>2. desk'.generation >= desk.generation /\ desk'.generation # desk.generation
      BY <1>1, <3>0, <3>1
    <3> QED
      BY <2>2, <3>1, <3>2, SameFits DEF DeskMoves
  <2> QED
    BY <2>1, <2>3, <2>4 DEF ProfileSwitches, DeskBecomes
<1>3. CASE RefreshStarts
  <2>0. desk' = [desk EXCEPT !.generation = desk.generation + 1] /\ desk.account \in DialogAccounts
    BY <1>1, <1>3, DeskTypes DEF RefreshStarts, DeskBecomes
  <2>g. PICK g \in Nat : g = desk.generation + 1
    BY <1>1
  <2>1. /\ desk' \in DialogDesks /\ desk'.stack = desk.stack /\ desk'.reviews = desk.reviews
        /\ desk'.document = desk.document /\ desk'.generation = g
    <3>1. desk' = [desk EXCEPT !.generation = g]
      BY <2>0, <2>g
    <3> QED
      BY <1>1, <3>1, GenerationSet
  <2>2. desk'.generation >= desk.generation /\ desk'.generation # desk.generation
    BY <1>1, <2>g, <2>1
  <2>3. latitude' \in DialogAllowances /\ begun' = begun
    BY <1>1, <1>3, LatitudeTypes DEF RefreshStarts, DeskBecomes
  <2> QED
    BY <2>1, <2>2, <2>3, SameFits DEF DeskMoves
<1>4. CASE DaemonGoes \/ DaemonReturns
  <2>1. /\ desk' \in DialogDesks /\ desk'.stack = desk.stack /\ desk'.reviews = desk.reviews
        /\ desk'.document = desk.document /\ desk'.generation = desk.generation /\ desk'.account = desk.account
    BY <1>1, <1>4 DEF DaemonGoes, DaemonReturns, DeskBecomes, DialogDesks
  <2>2. latitude' \in DialogAllowances /\ begun' = begun
    BY <1>1, <1>4, LatitudeTypes DEF DaemonGoes, DaemonReturns, DeskBecomes
  <2> QED
    BY <2>1, <2>2, Aside
<1>5. CASE \E rows \in latitude.lists : ListArrives(rows)
  <2>1. PICK rows \in latitude.lists : ListArrives(rows)
    BY <1>5
  <2>2. rows \in Seq(Nat \ {NoRow}) /\ NoRow \in Nat
    BY <1>1 DEF DialogAllowances, NoRow
  <2> DEFINE picked == IF \E i \in DOMAIN rows : rows[i] = desk.picked THEN desk.picked
                       ELSE IF rows = <<>> THEN NoRow
                       ELSE rows[1]
  <2>3. picked \in Nat
    <3>1. rows # <<>> => rows[1] \in Nat
      BY <2>2
    <3>2. desk.picked \in Nat
      BY <1>1 DEF DialogDesks
    <3> QED
      BY <2>2, <3>1, <3>2
  <2>4. desk' = [desk EXCEPT !.rows = rows, !.picked = picked] /\ begun' = begun
    BY <2>1 DEF ListArrives, DeskBecomes
  <2> HIDE DEF picked
  <2>5. /\ desk' \in DialogDesks /\ desk'.stack = desk.stack /\ desk'.reviews = desk.reviews
        /\ desk'.document = desk.document /\ desk'.generation = desk.generation /\ desk'.account = desk.account
    BY <1>1, <2>2, <2>3, <2>4 DEF DialogDesks
  <2>6. latitude' \in DialogAllowances
    BY <1>1, <2>1 DEF ListArrives, DialogAllowances
  <2> QED
    BY <2>4, <2>5, <2>6, Aside
<1>6. CASE \E w \in desk.writes, f \in BOOLEAN : EffectEnds(w, f)
  <2>1. PICK w \in desk.writes, f \in BOOLEAN : EffectEnds(w, f)
    BY <1>6
  <2>2. /\ desk' \in DialogDesks /\ desk'.stack = desk.stack /\ desk'.reviews = desk.reviews
        /\ desk'.document = desk.document /\ desk'.generation = desk.generation /\ desk'.account = desk.account
    BY <1>1, <2>1 DEF EffectEnds, DeskBecomes, DialogDesks
  <2>3. latitude' \in DialogAllowances /\ begun' = begun
    BY <1>1, <2>1 DEF EffectEnds, DeskBecomes
  <2> QED
    BY <2>2, <2>3, Aside
<1> QED
  BY <1>2, <1>3, <1>4, <1>5, <1>6

-----------------------------------------------------------------------------
(* What was accepted *)

\* The effects that were started are those of reviews that have gone.
Accepted ==
    /\ OnlyReviewedStarts
    /\ \A k \in DOMAIN begun : begun[k].review.id <= desk.reviews
    /\ \A k \in DOMAIN begun : \A i \in 1..Len(desk.stack) :
          desk.stack[i].what = "review" => desk.stack[i].id # begun[k].review.id

DialogInv == DialogTypeOK /\ Fitting(desk) /\ Accepted

LEMMA BegunTypes ==
    ASSUME NEW b \in Seq(DialogEffects)
    PROVE  \A k \in DOMAIN b : b[k] \in DialogEffects /\ b[k].review \in DialogReview /\ b[k].review.id \in Nat
<1>1. \A e \in DialogEffects : e.review \in DialogReview
  BY DEF DialogEffects
<1>2. \A r \in DialogReview : r.id \in Nat
  BY DEF DialogReview
<1>3. \A k \in DOMAIN b : b[k] \in DialogEffects
  OBVIOUS
<1> QED
  BY <1>1, <1>2, <1>3

LEMMA MovesKeep ==
    ASSUME DialogInv, DeskMoves
    PROVE  DialogInv'
<1>1. DialogTypeOK' /\ Fitting(desk)'
  BY DEF DeskMoves, Proper, DialogInv, DialogTypeOK
<1>2. \A k \in DOMAIN begun : begun[k].review.id \in Nat
  BY BegunTypes DEF DialogInv, DialogTypeOK
<1>3. desk.reviews \in Nat /\ desk'.reviews \in Nat
  BY <1>1, DeskTypes DEF DialogInv, DialogTypeOK
<1>4. begun' = begun /\ OnlyReviewedStarts'
  BY DEF DeskMoves, DialogInv, Accepted, OnlyReviewedStarts
<1>5. \A k \in DOMAIN begun : begun[k].review.id <= desk'.reviews
  BY <1>2, <1>3 DEF DialogInv, Accepted, DeskMoves, Succeeds
<1>6. \A k \in DOMAIN begun : \A i \in 1..Len(desk'.stack) :
          desk'.stack[i].what = "review" => desk'.stack[i].id # begun[k].review.id
  <2> SUFFICES ASSUME NEW k \in DOMAIN begun, NEW i \in 1..Len(desk'.stack), desk'.stack[i].what = "review"
               PROVE  desk'.stack[i].id # begun[k].review.id
    OBVIOUS
  <2>1. CASE desk'.stack[i].id > desk.reviews
    BY <1>2, <1>3, <2>1 DEF DialogInv, Accepted
  <2>2. CASE \E j \in 1..Len(desk.stack) : desk.stack[j].what = "review" /\ desk.stack[j].id = desk'.stack[i].id
    BY <2>2 DEF DialogInv, Accepted
  <2> QED
    BY <2>1, <2>2 DEF DeskMoves, Succeeds
<1>7. Accepted'
  BY <1>4, <1>5, <1>6 DEF Accepted
<1> QED
  BY <1>1, <1>7 DEF DialogInv

\* EnterReview: what is asked of a review settles the rest of its effect.
LEMMA BeginKeeps ==
    ASSUME DialogInv, EnterReview
    PROVE  DialogInv'
<1> DEFINE r == TopOf(desk)
           n == Len(desk.stack)
<1>1. desk \in DialogDesks /\ Proper(desk) /\ desk.account \in DialogAccounts /\ desk.document \in Nat
      /\ desk.generation \in Nat /\ latitude' \in DialogAllowances
  BY DeskTypes, LatitudeTypes DEF DialogInv, DialogTypeOK, Proper, EnterReview
<1>2. r.what = "review" /\ desk.stack # <<>>
  BY DEF EnterReview, TopOf
<1>3. r = desk.stack[n] /\ n \in 1..n /\ n \in Nat /\ r \in DialogReview
  <2>1. r = desk.stack[n] /\ n \in 1..n /\ n \in Nat /\ r \in DialogOverlays
    BY <1>1, <1>2, TopIsLast
  <2> QED
    BY <1>2, <2>1 DEF DialogOverlays
<1>4. r.id \in Nat /\ r.kind \in DOMAIN DialogKinds /\ r.row \in Nat /\ r.account \in DialogAccounts
  BY <1>3 DEF DialogReview
<1>5. CASE (desk' = desk /\ begun' = begun) \/ (desk' = PoppedOff(desk) /\ begun' = begun)
  <2>1. CASE desk' = desk /\ begun' = begun
    BY <1>1, <2>1, Aside, MovesKeep
  <2>2. CASE desk' = PoppedOff(desk) /\ begun' = begun
    BY <1>1, <1>2, <2>2, PoppedOffFits, MovesKeep DEF DeskMoves
  <2> QED
    BY <1>5, <2>1, <2>2
<1>6. CASE /\ Confirmable(desk, r) /\ StillAllowed(desk, r)
           /\ desk' = EffectStarted(desk, r) /\ begun' = Append(begun, EffectOf(desk, r))
  <2> DEFINE e == EffectOf(desk, r)
  <2>1. /\ r.account = desk.account
        /\ r.id <= desk.reviews
        /\ r.kind = "export" => desk.document = r.id
        /\ \A j \in 1..n : desk.stack[j].what = "review" /\ desk.stack[j].id = r.id => j = n
    BY <1>1, <1>2, <1>3, <1>6 DEF Confirmable, Proper, Fitting
  <2>2. /\ e.kind = r.kind /\ e.review = r /\ e.row = r.row
        /\ e.account = desk.account
        /\ e.about = r.id
    BY <2>1 DEF EffectOf
  <2>3. e.permitted = (DialogKinds[r.kind].remote => desk.account \notin latitude.readOnly)
    BY DEF EffectOf
  <2>4. e.permitted /\ e.permitted \in BOOLEAN
    <3>1. CASE DialogKinds[r.kind].remote
      <4>1. r.kind \in {"change", "delete", "webhook"}
        BY <1>4, <3>1, WaysOfKinds
      <4>2. CanDo(desk, r.kind)
        BY <1>6, <4>1 DEF StillAllowed
      <4> QED
        BY <2>3, <3>1, <4>2 DEF CanDo
    <3>2. CASE ~DialogKinds[r.kind].remote
      BY <2>3, <3>2
    <3> QED
      BY <2>3, <3>1, <3>2
  <2>5. e \in DialogEffects
    <3> DEFINE p == e.permitted
    <3>1. e = [kind |-> r.kind, review |-> r, row |-> r.row, account |-> desk.account, about |-> r.id,
               permitted |-> p]
      BY <2>1 DEF EffectOf
    <3>2. p \in BOOLEAN
      BY <2>4
    <3> HIDE DEF e, r, p
    <3> QED
      BY <1>1, <1>3, <1>4, <3>1, <3>2 DEF DialogEffects
  <2>6. /\ desk' \in DialogDesks /\ desk'.stack = Pile!Front(desk.stack) /\ desk'.reviews = desk.reviews
        /\ desk'.generation = desk.generation /\ desk'.account = desk.account
        /\ desk'.document = desk.document \/ r.kind = "export"
    <3>1. r.kind # "export" => [kind |-> r.kind, row |-> r.row] \in [kind : DOMAIN DialogKinds \ {"export"}, row : Nat]
      BY <1>4
    <3> DEFINE writes == IF r.kind = "export" THEN desk.writes ELSE desk.writes \cup {[kind |-> r.kind, row |-> r.row]}
    <3>2. writes \in SUBSET [kind : DOMAIN DialogKinds \ {"export"}, row : Nat]
      BY <1>1, <3>1 DEF DialogDesks
    <3> DEFINE pile     == Pile!Front(desk.stack)
               document == IF r.kind = "export" THEN 0 ELSE desk.document
               exists   == desk.exists \/ r.kind = "export"
               handoff  == r.kind = "ssh"
               task     == IF r.kind \in {"change", "delete", "disconnect", "unserve"} THEN "running" ELSE desk.task
    <3>3. desk' = [desk EXCEPT !.stack = pile, !.document = document, !.exists = exists, !.writes = writes,
                               !.handoff = handoff, !.task = task]
      BY <1>6 DEF EffectStarted
    <3>4. pile \in Seq(DialogOverlays)
      BY <1>1, <1>2, TopIsLast
    <3>5. exists \in BOOLEAN /\ handoff \in BOOLEAN
      BY <1>1 DEF DialogDesks
    <3>6. task \in {"none", "running", "stopping"}
      BY <1>1 DEF DialogDesks
    <3>7. document \in Nat /\ (document = desk.document \/ r.kind = "export")
      BY <1>1
    <3> HIDE DEF writes, r, pile, document, exists, handoff, task
    <3>8. /\ desk' \in DialogDesks /\ desk'.stack = pile /\ desk'.reviews = desk.reviews
          /\ desk'.generation = desk.generation /\ desk'.account = desk.account
          /\ desk'.document = document
      BY <1>1, <3>2, <3>3, <3>4, <3>5, <3>6, <3>7 DEF DialogDesks
    <3> QED
      BY <3>7, <3>8 DEF pile
  <2>7. Proper(desk')
    BY <1>1, <1>2, <2>6, PoppedFits
  <2> HIDE DEF e
  <2>8. begun \in Seq(DialogEffects) /\ begun' = Append(begun, e)
    BY <1>6 DEF DialogInv, DialogTypeOK, e
  <2>9. /\ Len(begun) \in Nat /\ DOMAIN begun = 1..Len(begun)
        /\ begun' \in Seq(DialogEffects) /\ DOMAIN begun' = 1..Len(begun) + 1
        /\ \A k \in 1..Len(begun) : begun'[k] = begun[k]
        /\ begun'[Len(begun) + 1] = e
    BY <2>5, <2>8
  <2>10. \A k \in DOMAIN begun' : k \in 1..Len(begun) \/ k = Len(begun) + 1
    BY <2>9
  <2>11. \A k \in 1..Len(begun) : begun[k].review.id # r.id
    BY <1>2, <1>3, <2>9 DEF DialogInv, Accepted
  <2>12. Typed(r)
    BY <1>6 DEF Confirmable
  <2>13. OnlyReviewedStarts'
    <3> SUFFICES ASSUME NEW k \in DOMAIN begun'
                 PROVE  /\ begun'[k].account = begun'[k].review.account
                        /\ begun'[k].about = begun'[k].review.id
                        /\ Typed(begun'[k].review)
                        /\ begun'[k].permitted
                        /\ \A j \in DOMAIN begun' : begun'[j].review.id = begun'[k].review.id => k = j
      BY DEF OnlyReviewedStarts
    <3>1. CASE k = Len(begun) + 1
      BY <2>1, <2>2, <2>4, <2>9, <2>10, <2>11, <2>12, <3>1
    <3>2. CASE k \in 1..Len(begun)
      <4>1. /\ begun[k].account = begun[k].review.account
            /\ begun[k].about = begun[k].review.id
            /\ Typed(begun[k].review)
            /\ begun[k].permitted
            /\ \A j \in 1..Len(begun) : begun[j].review.id = begun[k].review.id => k = j
        BY <2>9, <3>2 DEF DialogInv, Accepted, OnlyReviewedStarts
      <4> QED
        BY <2>2, <2>9, <2>10, <2>11, <3>2, <4>1
    <3> QED
      BY <2>10, <3>1, <3>2
  <2>14. \A k \in DOMAIN begun' : begun'[k].review.id <= desk'.reviews
    BY <2>1, <2>2, <2>6, <2>9, <2>10 DEF DialogInv, Accepted
  <2>15. \A i \in 1..Len(desk'.stack) :
            i \in 1..n /\ i # n /\ desk'.stack[i] = desk.stack[i]
    BY <1>1, <1>2, <1>3, <2>6, TopIsLast
  <2>16. \A k \in DOMAIN begun' : \A i \in 1..Len(desk'.stack) :
            desk'.stack[i].what = "review" => desk'.stack[i].id # begun'[k].review.id
    <3> SUFFICES ASSUME NEW k \in DOMAIN begun', NEW i \in 1..Len(desk'.stack), desk'.stack[i].what = "review"
                 PROVE  desk'.stack[i].id # begun'[k].review.id
      OBVIOUS
    <3>1. i \in 1..n /\ i # n /\ desk.stack[i].what = "review" /\ desk'.stack[i].id = desk.stack[i].id
      BY <2>15
    <3>2. CASE k = Len(begun) + 1
      BY <2>1, <2>2, <2>9, <3>1, <3>2
    <3>3. CASE k \in 1..Len(begun)
      BY <2>9, <3>1, <3>3 DEF DialogInv, Accepted
    <3> QED
      BY <2>10, <3>2, <3>3
  <2> QED
    BY <1>1, <2>7, <2>9, <2>13, <2>14, <2>16 DEF DialogInv, DialogTypeOK, Accepted, Proper
<1> QED
  BY <1>5, <1>6 DEF EnterReview, DeskBecomes

LEMMA DialogInvInit == DialogInit => DialogInv
<1> SUFFICES ASSUME DialogInit PROVE DialogInv
  OBVIOUS
<1>1. latitude \in DialogAllowances
  BY DialogAssumption DEF DialogInit
<1>2. DialogAccounts \ latitude.readOnly # {}
  BY <1>1 DEF DialogAllowances
<1>3. (CHOOSE a \in DialogAccounts \ latitude.readOnly : TRUE) \in DialogAccounts
  BY <1>2
<1>4. <<>> \in Seq(DialogOverlays) /\ <<1, 2>> \in Seq(Nat \ {NoRow}) /\ begun = <<>> /\ <<>> \in Seq(DialogEffects)
  BY DEF DialogInit, NoRow
<1>5. desk \in DialogDesks /\ desk.stack = <<>>
  BY <1>3, <1>4 DEF DialogInit, DialogDesks
<1>6. Fitting(desk)
  BY <1>5 DEF Fitting
<1>7. Accepted
  BY <1>4, <1>5 DEF Accepted, OnlyReviewedStarts
<1> QED
  BY <1>1, <1>4, <1>5, <1>6, <1>7 DEF DialogInv, DialogTypeOK

LEMMA DialogInvNext == DialogInv /\ [DialogNext]_dialogVars => DialogInv'
<1> SUFFICES ASSUME DialogInv, [DialogNext]_dialogVars PROVE DialogInv'
  OBVIOUS
<1>1. DialogTypeOK /\ Proper(desk)
  BY DEF DialogInv, DialogTypeOK, Proper
<1>2. CASE \/ \E k \in DOMAIN DialogKinds : ActionKey(k)
           \/ \E m \in {"menu", "line", "help"} : ModeKey(m)
           \/ \E t \in Typings : TypeKey(t) \/ PasteKey(t)
           \/ EscKey \/ InterruptKey \/ QuitKey \/ EnterOther \/ EnterStale \/ RetryKey
  BY <1>1, <1>2, ActionKeyMoves, ModeMoves, TypingMoves, OtherEnterMoves, StaleMoves, RetryMoves, MovesKeep
<1>3. CASE TabKey
  BY <1>1, <1>3, TypingMoves, MovesKeep DEF Typings
<1>4. CASE EnterReview
  BY <1>4, BeginKeeps
<1>5. CASE \/ \E r \in desk.reads : ReviewArrives(r) \/ ReviewRefused(r)
           \/ \E a \in DialogAccounts : ProfileSwitches(a)
           \/ RefreshStarts \/ DaemonGoes \/ DaemonReturns
           \/ \E rows \in latitude.lists : ListArrives(rows)
           \/ \E w \in desk.writes, f \in BOOLEAN : EffectEnds(w, f)
  BY <1>1, <1>5, ReviewMoves, OutsideMoves, MovesKeep
<1>6. CASE UNCHANGED dialogVars
  BY <1>6 DEF dialogVars, DialogInv, DialogTypeOK, Fitting, Accepted, OnlyReviewedStarts
<1> QED
  BY <1>2, <1>3, <1>4, <1>5, <1>6 DEF DialogNext

\* What is open, asked for and started keeps its types through every key and
\* everything that comes between keys.
THEOREM DialogTypeCorrect == DialogSpec => []DialogTypeOK
<1>1. DialogInv => DialogTypeOK
  BY DEF DialogInv
<1> QED
  BY <1>1, DialogInvInit, DialogInvNext, PTL DEF DialogSpec

\* accept_confirmation, which takes part of an effect from the review and part
\* from the state of the moment: both are of the same profile and document, the
\* phrase was typed, the write is permitted, and no review starts two effects.
THEOREM StartedIsReviewed == DialogSpec => []OnlyReviewedStarts
<1>1. DialogInv => OnlyReviewedStarts
  BY DEF DialogInv, Accepted
<1> QED
  BY <1>1, DialogInvInit, DialogInvNext, PTL DEF DialogSpec

-----------------------------------------------------------------------------
(* Services *)

ServiceStates == [gen : Nat, list : [Lists -> ServiceLists]]
RowsFit(s)    == \A r \in Lists : s.list[r].value \subseteq ServiceRows(r)

\* A task is under way: it will have everything read again.
Working == \E t \in ServiceTasks : job[t] # NoJob /\ job[t].step # "ended"

\* A list is what the client serves, unless what differs is about to be read.
Settled(r, value) == value = Actual(r) \/ unseen \/ Working

\* A list that is loading is read by a refresh that will be listened to.
LoadingIsRead ==
    /\ \A r \in Lists : services.list[r].gen <= services.gen
    /\ \A r \in Lists : services.list[r].status = "Loading" =>
          \E n \in Refreshes : refresh[n] # NoRefresh /\ RefreshWanted(n)

\* Of the first account, no refresh is of a generation yet to come, and the
\* lists are settled, those shown and those that a refresh will show.
FirstIsSettled ==
    ~switched =>
        /\ \A n \in Refreshes : refresh[n].gen <= services.gen
        /\ \A r \in Lists : services.list[r].status = "Ready" => Settled(r, services.list[r].value)
        /\ \A n \in Refreshes, r \in Lists :
              refresh[n] # NoRefresh /\ RefreshWanted(n) /\ r \notin refresh[n].todo /\ refresh[n].got[r].known
                  => Settled(r, refresh[n].got[r].value)

ServicesInv == ServicesTypeOK /\ LoadingIsRead /\ FirstIsSettled

LEMMA ListsAre == \A r : r \in Lists <=> r = "serve" \/ r = "funnel" \/ r = "drive"
BY DEF Lists

LEMMA NoneIsNone ==
    /\ NoRefresh.gen = 0 /\ NoRefresh.todo = {} /\ NoJob.step = "none"
    /\ \A f \in RefreshesOfAll : f # NoRefresh /\ f.gen \in Nat /\ f.gen # 0
    /\ \A j \in ServiceJobs : j # NoJob
    /\ NotRead \in ServiceLists /\ ~NotRead.known /\ NotRead.value = {}
<1>1. NoRefresh.gen = 0 /\ NoRefresh.todo = {} /\ NoJob.step = "none"
  BY DEF NoRefresh, NoJob
<1>2. \A f \in RefreshesOfAll : f.gen \in Nat /\ f.gen # 0
  BY DEF RefreshesOfAll
<1>3. \A j \in ServiceJobs : j.step # "none"
  BY DEF ServiceJobs
<1>4. NotRead \in ServiceLists /\ ~NotRead.known /\ NotRead.value = {}
  BY DEF NotRead, ServiceLists
<1> QED
  BY <1>1, <1>2, <1>3, <1>4

LEMMA ServedRows ==
    ASSUME ServicesTypeOK
    PROVE  \A r \in Lists : Actual(r) \subseteq ServiceRows(r)
<1>1. \A ports : Mapped(ports) \subseteq [at : Addresses, backend : Backends]
  BY DEF Mapped, ServicesTypeOK, Off
<1>2. shared \subseteq Shares
  BY DEF ServicesTypeOK
<1> QED
  BY <1>1, <1>2 DEF Actual, ServiceRows, Lists

LEMMA SameServed ==
    ASSUME UNCHANGED <<backend, public, shared>>, allowance'.omits = allowance.omits
    PROVE  \A r \in Lists : Actual(r)' = Actual(r)
BY DEF Actual, Mapped

LEMMA AllowedKeeps ==
    ASSUME ServicesTypeOK, NEW what \in {"changes", "reads", "faults", "foreign", "switches"},
           Allowed(what) \/ UNCHANGED allowance
    PROVE  allowance' \in ServiceAllowances /\ allowance'.omits = allowance.omits
<1>1. CASE UNCHANGED allowance
  BY <1>1 DEF ServicesTypeOK
<1>2. CASE Allowed(what)
  <2>1. allowance[what] \in Nat /\ allowance[what] > 0
    BY <1>2 DEF ServicesTypeOK, ServiceAllowances, Allowed
  <2>2. PICK rest \in Nat : rest = allowance[what] - 1
    BY <2>1
  <2>3. allowance' = [allowance EXCEPT ![what] = rest]
    BY <1>2, <2>2 DEF Allowed
  <2> QED
    BY <2>3 DEF ServicesTypeOK, ServiceAllowances
<1> QED
  BY <1>1, <1>2

LEMMA RowsOfRequests ==
    ASSUME NEW q \in TaskRequests
    PROVE  q.list \in Lists
BY DEF TaskRequests, MappingRequests, RowRequests, ResetRequests, ShareRequests, Lists

LEMMA ListLoads ==
    ASSUME NEW l \in ServiceLists, NEW gen \in Nat
    PROVE  /\ ListBegins(l, gen) \in ServiceLists /\ ListBegins(l, gen).gen = gen
           /\ ListBegins(l, gen).status = "Loading" /\ ListBegins(l, gen).value = l.value
BY DEF ListBegins, ServiceLists

LEMMA ListIsRead ==
    ASSUME NEW l \in ServiceLists, NEW gen \in Nat, NEW value \in SUBSET (Shares \cup [at : Addresses, backend : Backends])
    PROVE  /\ ListSucceeds(l, gen, value) \in ServiceLists
           /\ l.gen <= gen => ListSucceeds(l, gen, value).gen = gen
           /\ l.gen <= gen => ListSucceeds(l, gen, value).status = "Ready"
           /\ l.gen <= gen => ListSucceeds(l, gen, value).value = value
           /\ ListSucceeds(l, gen, value).value \in {l.value, value}
<1> DEFINE new == [gen |-> gen, status |-> "Ready", known |-> TRUE, value |-> value]
<1>1. new \in ServiceLists /\ new.gen = gen /\ new.status = "Ready" /\ new.value = value
  BY DEF ServiceLists
<1>2. gen < l.gen => ListSucceeds(l, gen, value) = l
  BY DEF ListSucceeds
<1>3. ~(gen < l.gen) => ListSucceeds(l, gen, value) = new
  BY DEF ListSucceeds
<1>4. l.gen \in Nat
  BY DEF ServiceLists
<1> HIDE DEF new
<1> QED
  BY <1>1, <1>2, <1>3, <1>4

LEMMA ListIsNotRead ==
    ASSUME NEW l \in ServiceLists, NEW gen \in Nat
    PROVE  /\ ListFails(l, gen) \in ServiceLists
           /\ l.gen <= gen => ListFails(l, gen).gen = gen
           /\ l.gen <= gen => ListFails(l, gen).status \in {"Stale", "Failed"}
           /\ ListFails(l, gen).value = l.value
<1> DEFINE how == IF l.known THEN "Stale" ELSE "Failed"
           new == [l EXCEPT !.gen = gen, !.status = how]
<1>1. how \in {"Stale", "Failed"}
  OBVIOUS
<1> HIDE DEF how
<1>2. new \in ServiceLists /\ new.gen = gen /\ new.status = how /\ new.value = l.value
  BY <1>1 DEF ServiceLists
<1>3. gen < l.gen => ListFails(l, gen) = l
  BY DEF ListFails
<1>4. ~(gen < l.gen) => ListFails(l, gen) = new
  BY DEF ListFails, how
<1>5. l.gen \in Nat
  BY DEF ServiceLists
<1> HIDE DEF new
<1> QED
  BY <1>1, <1>2, <1>3, <1>4, <1>5

LEMMA RowsAreRows == \A r \in Lists : ServiceRows(r) \subseteq Shares \cup [at : Addresses, backend : Backends]
BY DEF ServiceRows

\* A refresh begins: every list is loading, and what was under way is heard no more.
LEMMA RefreshBegins ==
    ASSUME ServicesTypeOK, NEW s \in ServiceStates, RowsFit(s), RefreshServices(s)
    PROVE  /\ services' \in ServiceStates /\ RowsFit(services') /\ services'.gen = s.gen + 1
           /\ \A r \in Lists : services'.list[r].gen = services'.gen /\ services'.list[r].status = "Loading"
           /\ refresh' \in [Refreshes -> RefreshesOfAll \cup {NoRefresh}]
           /\ \A m \in Refreshes, r \in Lists : refresh'[m] # NoRefresh =>
                 refresh'[m].got[r].value \subseteq ServiceRows(r) /\ (r \in refresh'[m].todo => ~refresh'[m].got[r].known)
           /\ \E m \in Refreshes : refresh'[m] # NoRefresh /\ refresh'[m].gen = services'.gen
           /\ \A m \in Refreshes : \/ refresh'[m].gen = services'.gen /\ refresh'[m].todo = Lists
                                   \/ refresh'[m].gen = refresh[m].gen
           /\ unseen' = FALSE
<1> DEFINE n     == CHOOSE m \in Refreshes : refresh[m] = NoRefresh
           g     == s.gen + 1
           blank == [r \in Lists |-> NotRead]
           fresh == [gen |-> g, todo |-> Lists, got |-> blank, cancelled |-> FALSE]
<1>1. s.gen \in Nat /\ \A r \in Lists : s.list[r] \in ServiceLists
  BY DEF ServiceStates
<1>2. n \in Refreshes /\ refresh[n] = NoRefresh
  BY DEF RefreshServices
<1>3. g \in Nat \ {0} /\ g = s.gen + 1
  BY <1>1
<1>4. /\ services' = [gen |-> g, list |-> [r \in Lists |-> ListBegins(s.list[r], g)]]
      /\ refresh' = [m \in Refreshes |-> IF m = n THEN fresh
                                         ELSE IF refresh[m] = NoRefresh THEN NoRefresh
                                         ELSE [refresh[m] EXCEPT !.cancelled = TRUE]]
      /\ unseen' = FALSE
  BY DEF RefreshServices
<1> HIDE DEF n, g
<1>5. blank \in [Lists -> ServiceLists] /\ \A r \in Lists : blank[r].value = {} /\ ~blank[r].known
  BY NoneIsNone
<1> HIDE DEF blank
<1>6. fresh \in RefreshesOfAll /\ fresh.gen = g /\ fresh.todo = Lists /\ fresh.got = blank
  BY <1>3, <1>5 DEF RefreshesOfAll
<1> HIDE DEF fresh
<1>7. \A m \in Refreshes : refresh[m] # NoRefresh =>
         /\ [refresh[m] EXCEPT !.cancelled = TRUE] \in RefreshesOfAll
         /\ [refresh[m] EXCEPT !.cancelled = TRUE].gen = refresh[m].gen
         /\ [refresh[m] EXCEPT !.cancelled = TRUE].got = refresh[m].got
         /\ [refresh[m] EXCEPT !.cancelled = TRUE].todo = refresh[m].todo
  <2> SUFFICES ASSUME NEW m \in Refreshes, refresh[m] # NoRefresh
               PROVE  /\ [refresh[m] EXCEPT !.cancelled = TRUE] \in RefreshesOfAll
                      /\ [refresh[m] EXCEPT !.cancelled = TRUE].gen = refresh[m].gen
                      /\ [refresh[m] EXCEPT !.cancelled = TRUE].got = refresh[m].got
                      /\ [refresh[m] EXCEPT !.cancelled = TRUE].todo = refresh[m].todo
         /\ [refresh[m] EXCEPT !.cancelled = TRUE].todo = refresh[m].todo
    OBVIOUS
  <2>1. refresh[m] \in RefreshesOfAll
    BY DEF ServicesTypeOK
  <2> QED
    BY <2>1 DEF RefreshesOfAll
<1>8. /\ services' \in ServiceStates /\ services'.gen = g
      /\ \A r \in Lists : services'.list[r] = ListBegins(s.list[r], g)
  <2>1. \A r \in Lists : ListBegins(s.list[r], g) \in ServiceLists
    BY <1>1, <1>3, ListLoads
  <2> DEFINE lists == [r \in Lists |-> ListBegins(s.list[r], g)]
  <2>2. lists \in [Lists -> ServiceLists] /\ \A r \in Lists : lists[r] = ListBegins(s.list[r], g)
    BY <2>1
  <2>3. services' = [gen |-> g, list |-> lists]
    BY <1>4
  <2> HIDE DEF lists
  <2>4. services'.gen = g /\ services'.list = lists
    BY <2>3
  <2>5. services' \in ServiceStates
    <3>1. g \in Nat
      BY <1>3
    <3> QED
      BY <2>2, <2>3, <3>1 DEF ServiceStates
  <2>6. \A r \in Lists : services'.list[r] = ListBegins(s.list[r], g)
    BY <2>2, <2>4
  <2> QED
    BY <2>4, <2>5, <2>6
<1>9. /\ RowsFit(services')
      /\ \A r \in Lists : services'.list[r].gen = g /\ services'.list[r].status = "Loading"
  <2>1. ASSUME NEW r \in Lists
        PROVE  /\ services'.list[r].gen = g /\ services'.list[r].status = "Loading"
               /\ services'.list[r].value = s.list[r].value
    <3>1. g \in Nat /\ s.list[r] \in ServiceLists /\ services'.list[r] = ListBegins(s.list[r], g)
      BY <1>1, <1>3, <1>8
    <3> QED
      BY <3>1, ListLoads
  <2>2. RowsFit(services')
    BY <2>1 DEF RowsFit
  <2> QED
    BY <2>1, <2>2
<1>10. refresh' \in [Refreshes -> RefreshesOfAll \cup {NoRefresh}]
  BY <1>4, <1>6, <1>7
<1>11. \A m \in Refreshes, r \in Lists : refresh'[m] # NoRefresh =>
          refresh'[m].got[r].value \subseteq ServiceRows(r) /\ (r \in refresh'[m].todo => ~refresh'[m].got[r].known)
  <2> SUFFICES ASSUME NEW m \in Refreshes, NEW r \in Lists, refresh'[m] # NoRefresh
               PROVE  refresh'[m].got[r].value \subseteq ServiceRows(r) /\ (r \in refresh'[m].todo => ~refresh'[m].got[r].known)
    OBVIOUS
  <2>1. CASE m = n
    BY <1>4, <1>5, <1>6, <2>1
  <2>2. CASE m # n
    <3>1. refresh[m] # NoRefresh /\ refresh'[m].got = refresh[m].got /\ refresh'[m].todo = refresh[m].todo
      BY <1>4, <1>7, <2>2
    <3> QED
      BY <3>1 DEF ServicesTypeOK
  <2> QED
    BY <2>1, <2>2
<1>12. refresh'[n] # NoRefresh /\ refresh'[n].gen = g
  BY <1>2, <1>4, <1>6, NoneIsNone
<1>13. \A m \in Refreshes : \/ refresh'[m].gen = g /\ refresh'[m].todo = Lists
                            \/ refresh'[m].gen = refresh[m].gen
  <2> SUFFICES ASSUME NEW m \in Refreshes
               PROVE  \/ refresh'[m].gen = g /\ refresh'[m].todo = Lists
                      \/ refresh'[m].gen = refresh[m].gen
    OBVIOUS
  <2>1. CASE m = n
    BY <1>4, <1>6, <2>1
  <2>2. CASE m # n
    BY <1>4, <1>7, <2>2
  <2> QED
    BY <2>1, <2>2
<1> QED
  BY <1>2, <1>3, <1>4, <1>8, <1>9, <1>10, <1>11, <1>12, <1>13

\* The invariant of a state from which such a refresh begins.
LEMMA ServiceBeginKeeps ==
    ASSUME ServicesTypeOK, NEW s \in ServiceStates, RowsFit(s), RefreshServices(s),
           ~switched => \A n \in Refreshes : refresh[n].gen <= s.gen,
           switched' = switched
    PROVE  LoadingIsRead' /\ FirstIsSettled'
<1>1. /\ services'.gen = s.gen + 1 /\ s.gen \in Nat
      /\ \A r \in Lists : services'.list[r].gen = services'.gen /\ services'.list[r].status = "Loading"
      /\ \E m \in Refreshes : refresh'[m] # NoRefresh /\ refresh'[m].gen = services'.gen
      /\ \A m \in Refreshes : \/ refresh'[m].gen = services'.gen /\ refresh'[m].todo = Lists
                              \/ refresh'[m].gen = refresh[m].gen
  BY RefreshBegins DEF ServiceStates
<1>2. LoadingIsRead'
  BY <1>1 DEF LoadingIsRead, RefreshWanted
<1>3. ASSUME ~switched'
      PROVE  \A n \in Refreshes : refresh'[n].gen <= services'.gen /\ (RefreshWanted(n)' => refresh'[n].todo = Lists)
  <2> SUFFICES ASSUME NEW n \in Refreshes
               PROVE  refresh'[n].gen <= services'.gen /\ (RefreshWanted(n)' => refresh'[n].todo = Lists)
    OBVIOUS
  <2>1. CASE refresh'[n].gen = services'.gen /\ refresh'[n].todo = Lists
    BY <1>1, <2>1
  <2>2. CASE refresh'[n].gen = refresh[n].gen
    <3>1. refresh[n].gen \in Nat
      BY NoneIsNone DEF ServicesTypeOK
    <3>2. refresh[n].gen <= s.gen
      BY <1>3
    <3> QED
      BY <1>1, <2>2, <3>1, <3>2 DEF RefreshWanted
  <2> QED
    BY <1>1, <2>1, <2>2
<1>4. FirstIsSettled'
  BY <1>1, <1>3 DEF FirstIsSettled
<1> QED
  BY <1>2, <1>4

-----------------------------------------------------------------------------
(* The steps of services *)

\* A step that leaves the lists and the refreshes alone.
LEMMA ListsRest ==
    ASSUME ServicesInv, UNCHANGED <<services, refresh, switched>>,
           \/ unseen' = TRUE
           \/ /\ unseen' = unseen
              /\ \/ Working'
                 \/ (\A r \in Lists : Actual(r)' = Actual(r)) /\ ~Working
    PROVE  LoadingIsRead' /\ FirstIsSettled'
<1>1. LoadingIsRead'
  BY DEF ServicesInv, LoadingIsRead, RefreshWanted
<1>2. \A r \in Lists : \A value : Settled(r, value) => (Settled(r, value))'
  BY DEF Settled
<1>3. FirstIsSettled'
  BY <1>2 DEF ServicesInv, FirstIsSettled, RefreshWanted
<1> QED
  BY <1>1, <1>3

LEMMA StatesOfTypes ==
    ASSUME ServicesTypeOK
    PROVE  /\ services \in ServiceStates /\ RowsFit(services) /\ services.gen \in Nat
           /\ \A r \in Lists : services.list[r] \in ServiceLists /\ services.list[r].gen \in Nat
           /\ \A n \in Refreshes : refresh[n].gen \in Nat
           /\ \A n \in Refreshes : refresh[n] # NoRefresh =>
                 /\ refresh[n] \in RefreshesOfAll /\ refresh[n].todo \subseteq Lists /\ refresh[n].gen # 0
                 /\ \A r \in Lists : refresh[n].got[r] \in ServiceLists
           /\ \A t \in ServiceTasks : job[t] # NoJob =>
                 job[t] \in ServiceJobs /\ job[t].request.list \in Lists /\ job[t].seen \in ServiceLists
<1>1. services \in ServiceStates /\ RowsFit(services)
  BY DEF ServicesTypeOK, ServiceStates, RowsFit
<1>2. services.gen \in Nat /\ \A r \in Lists : services.list[r] \in ServiceLists
  BY <1>1 DEF ServiceStates
<1>3. \A l \in ServiceLists : l.gen \in Nat
  BY DEF ServiceLists
<1>4. \A n \in Refreshes : refresh[n] \in RefreshesOfAll \cup {NoRefresh}
  BY DEF ServicesTypeOK
<1>5. \A f \in RefreshesOfAll : f.todo \subseteq Lists /\ f.gen # 0 /\ \A r \in Lists : f.got[r] \in ServiceLists
  BY DEF RefreshesOfAll
<1>6. \A j \in ServiceJobs : j.request.list \in Lists /\ j.seen \in ServiceLists
  BY RowsOfRequests DEF ServiceJobs
<1>7. \A t \in ServiceTasks : job[t] \in ServiceJobs \cup {NoJob}
  BY DEF ServicesTypeOK
<1> QED
  BY <1>1, <1>2, <1>3, <1>4, <1>5, <1>6, <1>7, NoneIsNone

LEMMA AskKeeps ==
    ASSUME ServicesInv, AskRefresh \/ ClientDiscovered
    PROVE  ServicesInv'
<1>1. /\ ServicesTypeOK /\ services \in ServiceStates /\ RowsFit(services)
      /\ RefreshServices(services) /\ UNCHANGED <<backend, public, shared, serviceLocks, job, switched>>
  BY StatesOfTypes DEF ServicesInv, AskRefresh, ClientDiscovered, Configuration
<1>2. ~switched => \A n \in Refreshes : refresh[n].gen <= services.gen
  BY DEF ServicesInv, FirstIsSettled
<1>3. LoadingIsRead' /\ FirstIsSettled'
  BY <1>1, <1>2, ServiceBeginKeeps
<1>4. allowance' \in ServiceAllowances /\ capable' \in BOOLEAN
  BY <1>1, AllowedKeeps DEF AskRefresh, ClientDiscovered, ServicesTypeOK
<1>5. ServicesTypeOK'
  BY <1>1, <1>4, RefreshBegins DEF ServicesTypeOK, ServiceStates, RowsFit
<1> QED
  BY <1>3, <1>5 DEF ServicesInv

\* ReadList, when an answer comes: it is what is served now.
LEMMA ReadKeeps ==
    ASSUME ServicesInv, NEW n \in Refreshes, ReadList(n)
    PROVE  ServicesInv'
<1>0. ServicesTypeOK /\ UNCHANGED <<backend, public, shared, capable, services, serviceLocks, job, unseen, switched>>
  BY DEF ServicesInv, ReadList, Configuration
<1>1. PICK r \in refresh[n].todo :
        \/ /\ refresh' = [refresh EXCEPT ![n].todo = @ \ {r},
                                         ![n].got[r] = [NotRead EXCEPT !.known = TRUE, !.value = Actual(r)]]
           /\ UNCHANGED allowance
        \/ /\ refresh[n].cancelled
           /\ refresh' = [refresh EXCEPT ![n].todo = {}]
           /\ UNCHANGED allowance
        \/ /\ Allowed("faults")
           /\ refresh' = [refresh EXCEPT ![n].todo = @ \ {r}]
  BY DEF ReadList
<1>2. refresh[n] # NoRefresh /\ refresh[n] \in RefreshesOfAll /\ r \in Lists
  BY <1>0, <1>1, StatesOfTypes, NoneIsNone
<1>3. allowance' \in ServiceAllowances /\ allowance'.omits = allowance.omits
  BY <1>0, <1>1, AllowedKeeps
<1>4. \A s \in Lists : Actual(s)' = Actual(s) /\ Actual(s) \subseteq ServiceRows(s)
  BY <1>0, <1>3, SameServed, ServedRows
<1> DEFINE answer == [NotRead EXCEPT !.known = TRUE, !.value = Actual(r)]
           f      == refresh'[n]
<1>5. answer \in ServiceLists /\ answer.value = Actual(r)
  BY <1>2, <1>4, RowsAreRows, NoneIsNone DEF ServiceLists, NotRead
<1>6. /\ refresh' = [refresh EXCEPT ![n] = f]
      /\ f \in RefreshesOfAll /\ f.gen = refresh[n].gen /\ f.todo \subseteq refresh[n].todo
      /\ \A s \in Lists : \/ s = r /\ r \notin f.todo /\ f.got[s].value = Actual(s)
                          \/ f.got[s] = refresh[n].got[s]
  <2>0. refresh \in [Refreshes -> RefreshesOfAll \cup {NoRefresh}]
    BY <1>0 DEF ServicesTypeOK
  <2>1. CASE refresh' = [refresh EXCEPT ![n].todo = @ \ {r}, ![n].got[r] = answer]
    <3> HIDE DEF answer
    <3>2. f = [refresh[n] EXCEPT !.todo = @ \ {r}, !.got[r] = answer]
      BY <2>0, <2>1
    <3>3. refresh' = [refresh EXCEPT ![n] = f]
      BY <2>0, <2>1
    <3> HIDE DEF f
    <3>4. /\ f \in RefreshesOfAll /\ f.gen = refresh[n].gen /\ f.todo = refresh[n].todo \ {r}
          /\ f.got = [refresh[n].got EXCEPT ![r] = answer]
      BY <1>2, <1>5, <3>2 DEF RefreshesOfAll
    <3>5. refresh[n].got \in [Lists -> ServiceLists]
      BY <1>2 DEF RefreshesOfAll
    <3> QED
      BY <1>2, <1>5, <3>3, <3>4, <3>5 DEF f
  <2>2. ASSUME NEW rest \in SUBSET refresh[n].todo, refresh' = [refresh EXCEPT ![n].todo = rest]
        PROVE  <1>6!:
    <3>2. f = [refresh[n] EXCEPT !.todo = rest]
      BY <2>0, <2>2
    <3>3. refresh' = [refresh EXCEPT ![n] = f]
      BY <2>0, <2>2
    <3> HIDE DEF f
    <3>4. /\ f \in RefreshesOfAll /\ f.gen = refresh[n].gen /\ f.todo = rest /\ f.got = refresh[n].got
      BY <1>2, <3>2 DEF RefreshesOfAll
    <3> QED
      BY <1>2, <3>3, <3>4 DEF f
  <2> QED
    <3>1. refresh[n].todo \ {r} \in SUBSET refresh[n].todo /\ {} \in SUBSET refresh[n].todo
      OBVIOUS
    <3> QED
      BY <1>1, <2>1, <2>2, <3>1
<1> HIDE DEF f, answer
<1>7. \A m \in Refreshes : /\ m # n => refresh'[m] = refresh[m]
                           /\ m = n => refresh'[m] = f
  <2>1. refresh \in [Refreshes -> RefreshesOfAll \cup {NoRefresh}]
    BY <1>0 DEF ServicesTypeOK
  <2> QED
    BY <1>6, <2>1
<1>8. \A m \in Refreshes : /\ refresh'[m].gen = refresh[m].gen /\ refresh'[m].todo \subseteq refresh[m].todo
                           /\ (refresh'[m] # NoRefresh <=> refresh[m] # NoRefresh)
  BY <1>2, <1>6, <1>7, NoneIsNone
<1>9. ServicesTypeOK'
  <2>1. refresh' \in [Refreshes -> RefreshesOfAll \cup {NoRefresh}]
    BY <1>0, <1>6 DEF ServicesTypeOK
  <2>2. \A m \in Refreshes, s \in Lists : refresh'[m] # NoRefresh =>
          refresh'[m].got[s].value \subseteq ServiceRows(s) /\ (s \in refresh'[m].todo => ~refresh'[m].got[s].known)
    <3> SUFFICES ASSUME NEW m \in Refreshes, NEW s \in Lists, refresh'[m] # NoRefresh
                 PROVE  refresh'[m].got[s].value \subseteq ServiceRows(s) /\ (s \in refresh'[m].todo => ~refresh'[m].got[s].known)
      OBVIOUS
    <3>1. /\ refresh[m].got[s].value \subseteq ServiceRows(s)
          /\ s \in refresh[m].todo => ~refresh[m].got[s].known
      BY <1>0, <1>8 DEF ServicesTypeOK
    <3>2. CASE m # n
      BY <1>7, <3>1, <3>2
    <3>3. CASE m = n
      BY <1>4, <1>6, <1>7, <3>1, <3>3
    <3> QED
      BY <3>2, <3>3
  <2> QED
    BY <1>0, <1>3, <2>1, <2>2 DEF ServicesTypeOK
<1>10. LoadingIsRead'
  BY <1>0, <1>8 DEF ServicesInv, LoadingIsRead, RefreshWanted
<1>11. \A s \in Lists : \A value : Settled(s, value) => (Settled(s, value))'
  BY <1>0, <1>4 DEF Settled, Working
<1>12. ASSUME ~switched, NEW m \in Refreshes, NEW s \in Lists, NEW value, value = refresh'[m].got[s].value,
              refresh'[m] # NoRefresh, RefreshWanted(m)', s \notin refresh'[m].todo, refresh'[m].got[s].known
       PROVE  (Settled(s, value))'
  <2>1. refresh[m] # NoRefresh /\ RefreshWanted(m)
    BY <1>0, <1>8, <1>12 DEF RefreshWanted
  <2>2. CASE refresh'[m].got[s] = refresh[m].got[s]
    <3>0. s \in refresh[m].todo => ~refresh[m].got[s].known
      BY <1>0, <2>1 DEF ServicesTypeOK
    <3>1. s \notin refresh[m].todo
      BY <1>12, <2>2, <3>0
    <3>2. Settled(s, refresh[m].got[s].value)
      BY <1>12, <2>1, <2>2, <3>1 DEF ServicesInv, FirstIsSettled
    <3> QED
      BY <1>11, <1>12, <2>2, <3>2
  <2>3. CASE refresh'[m].got[s].value = Actual(s)
    BY <1>4, <1>12, <2>3 DEF Settled
  <2> QED
    BY <1>6, <1>7, <2>2, <2>3
<1>13. FirstIsSettled'
  BY <1>0, <1>8, <1>11, <1>12 DEF ServicesInv, FirstIsSettled
<1> QED
  BY <1>9, <1>10, <1>13 DEF ServicesInv

\* ServicesEvent::RefreshFinished: nothing loads when a refresh is listened to.
LEMMA RefreshedKeeps ==
    ASSUME ServicesInv, NEW n \in Refreshes, ServicesRefreshed(n)
    PROVE  ServicesInv'
<1>0. ServicesTypeOK /\ UNCHANGED <<allowance, backend, public, shared, capable, serviceLocks, job, unseen, switched>>
  BY DEF ServicesInv, ServicesRefreshed, Configuration
<1>1. refresh[n] # NoRefresh /\ refresh[n] \in RefreshesOfAll /\ refresh[n].todo = {} /\ refresh' = [refresh EXCEPT ![n] = NoRefresh]
  BY <1>0, StatesOfTypes DEF ServicesRefreshed
<1>2. \A m \in Refreshes : /\ m # n => refresh'[m] = refresh[m]
                           /\ m = n => refresh'[m] = NoRefresh
  BY <1>0, <1>1 DEF ServicesTypeOK
<1>3. refresh' \in [Refreshes -> RefreshesOfAll \cup {NoRefresh}]
  BY <1>0, <1>1 DEF ServicesTypeOK
<1>4. \A m \in Refreshes, r \in Lists : refresh'[m] # NoRefresh =>
          refresh'[m].got[r].value \subseteq ServiceRows(r) /\ (r \in refresh'[m].todo => ~refresh'[m].got[r].known)
  BY <1>0, <1>2 DEF ServicesTypeOK
<1>5. \A r \in Lists : Actual(r)' = Actual(r)
  BY <1>0, SameServed
<1>6. \A r \in Lists : \A value : Settled(r, value) => (Settled(r, value))'
  BY <1>0, <1>5 DEF Settled, Working
<1>7. CASE ~RefreshWanted(n)
  <2>1. services' = services
    BY <1>7 DEF ServicesRefreshed
  <2>2. ServicesTypeOK'
    BY <1>0, <1>3, <1>4, <2>1 DEF ServicesTypeOK
  <2>3. LoadingIsRead'
    BY <1>2, <1>7, <2>1 DEF ServicesInv, LoadingIsRead, RefreshWanted
  <2>4. \A m \in Refreshes : refresh'[m] # NoRefresh => m # n /\ refresh'[m] = refresh[m]
    BY <1>2
  <2>5. NoRefresh.gen = 0 /\ services.gen \in Nat
    BY <1>0, NoneIsNone, StatesOfTypes
  <2>6. ~switched => \A m \in Refreshes : refresh'[m].gen <= services.gen
    BY <1>2, <2>5 DEF ServicesInv, FirstIsSettled
  <2>7. FirstIsSettled'
    BY <1>0, <1>6, <2>1, <2>4, <2>6 DEF ServicesInv, FirstIsSettled, RefreshWanted
  <2> QED
    BY <2>2, <2>3, <2>7 DEF ServicesInv
<1>8. CASE RefreshWanted(n)
  <2> DEFINE gen   == refresh[n].gen
             got   == refresh[n].got
             lists == [r \in Lists |-> IF got[r].known THEN ListSucceeds(services.list[r], gen, got[r].value)
                                       ELSE ListFails(services.list[r], gen)]
  <2>1. services' = [gen |-> gen, list |-> lists]
    BY <1>8 DEF ServicesRefreshed
  <2>2. gen \in Nat /\ services.gen \in Nat /\ gen >= services.gen /\ got \in [Lists -> ServiceLists]
    BY <1>0, <1>1, <1>8, StatesOfTypes DEF RefreshesOfAll, RefreshWanted
  <2>3. \A r \in Lists : /\ services.list[r] \in ServiceLists /\ services.list[r].gen \in Nat
                         /\ services.list[r].gen <= gen /\ services.list[r].value \subseteq ServiceRows(r)
    BY <1>0, <2>2, StatesOfTypes DEF ServicesInv, LoadingIsRead, RowsFit
  <2>4. \A r \in Lists : got[r].value \subseteq ServiceRows(r)
    BY <1>0, <1>1 DEF ServicesTypeOK
  <2> HIDE DEF gen, got
  <2>5. ASSUME NEW r \in Lists
        PROVE  /\ lists[r] \in ServiceLists /\ lists[r].gen = gen /\ lists[r].value \subseteq ServiceRows(r)
               /\ lists[r].status # "Loading"
               /\ lists[r].status = "Ready" => got[r].known /\ lists[r].value = got[r].value
    <3>0. services.list[r] \in ServiceLists /\ services.list[r].gen <= gen
      BY <2>3
    <3>1. CASE got[r].known
      <4>1. got[r].value \in SUBSET (Shares \cup [at : Addresses, backend : Backends])
        BY <2>4, RowsAreRows
      <4> DEFINE l == ListSucceeds(services.list[r], gen, got[r].value)
      <4>2. l \in ServiceLists /\ l.gen = gen /\ l.status = "Ready" /\ l.value = got[r].value
        BY <2>2, <3>0, <4>1, ListIsRead
      <4>3. lists[r] = l
        BY <3>1
      <4> HIDE DEF l, lists
      <4> QED
        BY <2>4, <3>1, <4>2, <4>3
    <3>2. CASE ~got[r].known
      <4> DEFINE l == ListFails(services.list[r], gen)
      <4>2. l \in ServiceLists /\ l.gen = gen /\ l.status \in {"Stale", "Failed"} /\ l.value = services.list[r].value
        BY <2>2, <3>0, ListIsNotRead
      <4>3. lists[r] = l
        BY <3>2
      <4> HIDE DEF l, lists
      <4> QED
        BY <2>3, <4>2, <4>3
    <3> QED
      BY <3>1, <3>2
  <2>6. lists \in [Lists -> ServiceLists]
    BY <2>5
  <2> HIDE DEF lists
  <2>7. services'.gen = gen /\ services'.list = lists /\ services' \in [gen : Nat, list : [Lists -> ServiceLists]]
    BY <2>1, <2>2, <2>6
  <2>8. ServicesTypeOK'
    BY <1>0, <1>3, <1>4, <2>5, <2>7 DEF ServicesTypeOK
  <2>9. LoadingIsRead'
    BY <2>2, <2>5, <2>7 DEF LoadingIsRead
  <2>10. \A m \in Refreshes : refresh'[m] # NoRefresh => m # n /\ refresh'[m] = refresh[m]
    BY <1>2
  <2>11. ~switched => gen = services.gen /\ \A m \in Refreshes : refresh'[m].gen <= gen
    <3>1. NoRefresh.gen = 0
      BY NoneIsNone
    <3>2. ~switched => \A m \in Refreshes : refresh[m].gen <= services.gen
      BY DEF ServicesInv, FirstIsSettled
    <3>3. ~switched => gen <= services.gen
      BY <3>2 DEF gen
    <3> QED
      BY <1>2, <2>2, <3>1, <3>2, <3>3
  <2>12. ASSUME ~switched, NEW r \in Lists, NEW value, value = services'.list[r].value, services'.list[r].status = "Ready"
         PROVE  (Settled(r, value))'
    <3>1. got[r].known /\ value = got[r].value
      BY <2>5, <2>7, <2>12
    <3>2. Settled(r, got[r].value)
      BY <1>1, <1>8, <2>12, <3>1 DEF ServicesInv, FirstIsSettled, got
    <3> QED
      BY <1>6, <3>1, <3>2
  <2>13. ASSUME ~switched, NEW m \in Refreshes, NEW r \in Lists, NEW value, value = refresh'[m].got[r].value,
                refresh'[m] # NoRefresh, RefreshWanted(m)', r \notin refresh'[m].todo, refresh'[m].got[r].known
         PROVE  (Settled(r, value))'
    <3>1. refresh'[m] = refresh[m] /\ RefreshWanted(m)
      BY <2>7, <2>10, <2>11, <2>13 DEF RefreshWanted
    <3>2. Settled(r, refresh[m].got[r].value)
      BY <2>13, <3>1 DEF ServicesInv, FirstIsSettled
    <3> QED
      BY <1>6, <2>13, <3>1, <3>2
  <2>14. FirstIsSettled'
    BY <1>0, <2>7, <2>11, <2>12, <2>13 DEF FirstIsSettled
  <2> QED
    BY <2>8, <2>9, <2>14 DEF ServicesInv
<1> QED
  BY <1>7, <1>8

\* A step of a task that is not its last: the task is still under way.
LEMMA TaskSteps ==
    ASSUME ServicesInv, NEW t \in ServiceTasks, NEW j \in ServiceJobs, job' = [job EXCEPT ![t] = j], j.step # "ended",
           j.seen.value \subseteq ServiceRows(j.request.list),
           UNCHANGED <<capable, services, refresh, unseen, switched>>,
           allowance' \in ServiceAllowances, serviceLocks' \subseteq [key : Lists, task : ServiceTasks],
           backend' \in [Addresses -> Backends \cup {Off}], public' \subseteq Ports, shared' \subseteq Shares
    PROVE  ServicesInv'
<1>1. ServicesTypeOK
  BY DEF ServicesInv
<1>2. job' \in [ServiceTasks -> ServiceJobs \cup {NoJob}] /\ \A u \in ServiceTasks : job'[u] = IF u = t THEN j ELSE job[u]
  BY <1>1 DEF ServicesTypeOK
<1>3. Working'
  BY <1>2, NoneIsNone DEF Working
<1>4. LoadingIsRead' /\ FirstIsSettled'
  BY <1>3, ListsRest
<1>5. ServicesTypeOK'
  BY <1>1, <1>2 DEF ServicesTypeOK
<1> QED
  BY <1>4, <1>5 DEF ServicesInv

LEMMA RequestsAre ==
    ASSUME NEW q \in TaskRequests
    PROVE  /\ q.list \in Lists
           /\ q.kind \in {"serve", "funnel", "remove", "unpublish"} => q.at \in Addresses /\ q.backend \in Backends
           /\ q.kind \in {"share", "unshare"} => q.name \in Shares
           /\ q.kind \in ServiceKinds
BY DEF TaskRequests, MappingRequests, RowRequests, ResetRequests, ShareRequests, Lists, ServiceKinds

LEMMA CommandedTypes ==
    ASSUME ServicesTypeOK, NEW q \in TaskRequests, Commanded(q)
    PROVE  backend' \in [Addresses -> Backends \cup {Off}] /\ public' \subseteq Ports /\ shared' \subseteq Shares
<1>1. q.kind \in ServiceKinds /\ backend \in [Addresses -> Backends \cup {Off}] /\ public \subseteq Ports /\ shared \subseteq Shares
  BY RequestsAre DEF ServicesTypeOK
<1>2. CASE q.kind \in {"serve", "funnel", "remove", "unpublish"}
  <2>1. q.at \in Addresses /\ q.backend \in Backends /\ q.at[1] \in Ports
    BY <1>2, RequestsAre DEF Addresses
  <2> QED
    BY <1>1, <1>2, <2>1 DEF Commanded
<1>3. CASE q.kind = "reset"
  BY <1>1, <1>3 DEF Commanded
<1>4. CASE q.kind \in {"share", "unshare"}
  <2>1. q.name \in Shares
    BY <1>4, RequestsAre
  <2> QED
    BY <1>1, <1>4, <2>1 DEF Commanded
<1> QED
  BY <1>1, <1>2, <1>3, <1>4 DEF ServiceKinds

LEMMA StartKeeps ==
    ASSUME ServicesInv, NEW q \in TaskRequests, StartServiceTask(q)
    PROVE  ServicesInv'
<1> DEFINE t == CHOOSE s \in ServiceTasks : job[s] = NoJob
           j == [step |-> "command", request |-> q, result |-> "none", seen |-> NotRead]
<1>1. ServicesTypeOK /\ q.list \in Lists
  BY RequestsAre DEF ServicesInv
<1>2. /\ job' = [job EXCEPT ![t] = j] /\ t \in ServiceTasks
      /\ serviceLocks' = serviceLocks \cup {[key |-> q.list, task |-> t]}
      /\ UNCHANGED <<backend, public, shared, capable, services, refresh, unseen, switched>>
  BY DEF StartServiceTask, ConflictKey, Configuration
<1>3. j \in ServiceJobs /\ j.step # "ended" /\ j.seen.value \subseteq ServiceRows(j.request.list)
  BY NoneIsNone DEF ServiceJobs
<1>4. allowance' \in ServiceAllowances
  BY <1>1, AllowedKeeps DEF StartServiceTask
<1> HIDE DEF j, t
<1>5. serviceLocks' \subseteq [key : Lists, task : ServiceTasks]
  BY <1>1, <1>2 DEF ServicesTypeOK
<1>6. backend' \in [Addresses -> Backends \cup {Off}] /\ public' \subseteq Ports /\ shared' \subseteq Shares
  BY <1>1, <1>2 DEF ServicesTypeOK
<1> QED
  BY <1>2, <1>3, <1>4, <1>5, <1>6, TaskSteps

LEMMA RunsKeep ==
    ASSUME ServicesInv, NEW t \in ServiceTasks, CommandRuns(t)
    PROVE  ServicesInv'
<1>1. ServicesTypeOK /\ UNCHANGED <<capable, services, serviceLocks, refresh, unseen, switched>>
  BY DEF ServicesInv, CommandRuns, JobAlone
<1>2. job[t] \in ServiceJobs /\ job[t].request \in TaskRequests /\ job[t].seen.value \subseteq ServiceRows(job[t].request.list)
  <2>1. job[t] # NoJob
    BY DEF CommandRuns, JobIs
  <2>2. job[t] \in ServiceJobs
    BY <1>1, <2>1, StatesOfTypes
  <2> QED
    BY <1>1, <2>1, <2>2 DEF ServiceJobs, ServicesTypeOK
<1>3. PICK step \in {"verify", "sent"}, result \in {"none", "Failed"} : job' = [job EXCEPT ![t].step = step, ![t].result = result]
  BY DEF CommandRuns, JobBecomes
<1> DEFINE j == [job[t] EXCEPT !.step = step, !.result = result]
<1>4. j \in ServiceJobs /\ j.step # "ended" /\ j.seen = job[t].seen /\ j.request = job[t].request
  BY <1>2 DEF ServiceJobs
<1>5. job' = [job EXCEPT ![t] = j]
  BY <1>1, <1>3 DEF ServicesTypeOK
<1>6. allowance' \in ServiceAllowances
  BY <1>1, AllowedKeeps DEF CommandRuns
<1>7. backend' \in [Addresses -> Backends \cup {Off}] /\ public' \subseteq Ports /\ shared' \subseteq Shares
  <2>1. Commanded(job[t].request) \/ Configuration
    BY DEF CommandRuns
  <2> QED
    BY <1>1, <1>2, <2>1, CommandedTypes DEF Configuration, ServicesTypeOK
<1>8. serviceLocks' \subseteq [key : Lists, task : ServiceTasks]
  BY <1>1 DEF ServicesTypeOK
<1> HIDE DEF j
<1> QED
  BY <1>1, <1>2, <1>4, <1>5, <1>6, <1>7, <1>8, TaskSteps

\* What a task reads back is what is served.
LEMMA VerifyKeeps ==
    ASSUME ServicesInv, NEW t \in ServiceTasks, VerifyService(t) \/ VerifyServed(t)
    PROVE  ServicesInv'
<1>1. ServicesTypeOK /\ UNCHANGED <<backend, public, shared, capable, services, serviceLocks, refresh, unseen, switched>>
  BY DEF ServicesInv, VerifyService, VerifyServed, JobAlone, Configuration
<1>2. job[t] \in ServiceJobs /\ job[t].request.list \in Lists /\ job[t].seen.value \subseteq ServiceRows(job[t].request.list)
  <2>1. job[t] # NoJob
    BY DEF VerifyService, VerifyServed, JobIs
  <2> QED
    BY <1>1, <2>1, StatesOfTypes DEF ServicesTypeOK
<1> DEFINE answer == [NotRead EXCEPT !.known = TRUE, !.value = Actual(job[t].request.list)]
<1>3. answer \in ServiceLists /\ answer.value \subseteq ServiceRows(job[t].request.list)
  BY <1>1, <1>2, ServedRows, RowsAreRows DEF ServiceLists, NotRead
<1>4. NotRead \in ServiceLists /\ NotRead.value \subseteq ServiceRows(job[t].request.list)
  BY NoneIsNone
<1> HIDE DEF answer
<1>5. job[t].seen \in ServiceLists
  BY <1>2 DEF ServiceJobs
<1>6. \E step \in {"served?", "sent"}, result \in {"none", "Verified", "Unverified", "Failed"}, seen \in {answer, NotRead, job[t].seen} :
         job' = [job EXCEPT ![t] = [job[t] EXCEPT !.step = step, !.result = result, !.seen = seen]]
  <2>0. job \in [ServiceTasks -> ServiceJobs \cup {NoJob}] /\ job[t].result \in {"none", "Verified", "Unverified", "Failed"}
    BY <1>1, <1>2 DEF ServicesTypeOK, ServiceJobs
  <2>1. ASSUME NEW step, NEW result
        PROVE  JobBecomes(t, step, result) => job' = [job EXCEPT ![t] = [job[t] EXCEPT !.step = step, !.result = result, !.seen = job[t].seen]]
    <3>1. [job[t] EXCEPT !.step = step, !.result = result] = [job[t] EXCEPT !.step = step, !.result = result, !.seen = job[t].seen]
      BY <1>2 DEF ServiceJobs
    <3>2. JobBecomes(t, step, result) => job' = [job EXCEPT ![t] = [job[t] EXCEPT !.step = step, !.result = result]]
      BY <2>0 DEF JobBecomes
    <3> QED
      BY <3>1, <3>2
  <2>2. ASSUME NEW step, NEW result, NEW seen
        PROVE  job' = [job EXCEPT ![t].step = step, ![t].seen = seen, ![t].result = result]
                  => job' = [job EXCEPT ![t] = [job[t] EXCEPT !.step = step, !.result = result, !.seen = seen]]
    <3>1. [job[t] EXCEPT !.step = step, !.seen = seen, !.result = result] = [job[t] EXCEPT !.step = step, !.result = result, !.seen = seen]
      BY <1>2 DEF ServiceJobs
    <3>2. job' = [job EXCEPT ![t].step = step, ![t].seen = seen, ![t].result = result]
             => job' = [job EXCEPT ![t] = [job[t] EXCEPT !.step = step, !.seen = seen, !.result = result]]
      BY <2>0
    <3> QED
      BY <3>1, <3>2
  <2>3. CASE VerifyService(t)
    <3> DEFINE step   == IF job[t].request.kind = "unpublish" THEN "served?" ELSE "sent"
               result == IF MatchesRequest(job[t].request, Actual(job[t].request.list)) THEN "Verified" ELSE "Unverified"
    <3>1. \/ job' = [job EXCEPT ![t].step = step, ![t].seen = answer, ![t].result = result]
          \/ JobBecomes(t, "sent", "Failed")
      BY <2>3 DEF VerifyService, answer
    <3>2. step \in {"served?", "sent"} /\ result \in {"Verified", "Unverified"}
      OBVIOUS
    <3> HIDE DEF step, result
    <3>3. CASE job' = [job EXCEPT ![t].step = step, ![t].seen = answer, ![t].result = result]
      <4>1. job' = [job EXCEPT ![t] = [job[t] EXCEPT !.step = step, !.result = result, !.seen = answer]]
        BY <2>2, <3>3
      <4> QED
        BY <3>2, <4>1
    <3>4. CASE JobBecomes(t, "sent", "Failed")
      <4>1. job' = [job EXCEPT ![t] = [job[t] EXCEPT !.step = "sent", !.result = "Failed", !.seen = job[t].seen]]
        BY <2>1, <3>4
      <4> QED
        BY <4>1
    <3> QED
      BY <3>1, <3>3, <3>4
  <2>4. CASE VerifyServed(t)
    <3>1. \/ JobBecomes(t, "sent", job[t].result)
          \/ JobBecomes(t, "sent", "Unverified")
          \/ job' = [job EXCEPT ![t].step = "sent", ![t].result = "Failed", ![t].seen = NotRead]
      BY <2>4 DEF VerifyServed
    <3>2. job' = [job EXCEPT ![t].step = "sent", ![t].result = "Failed", ![t].seen = NotRead]
             => job' = [job EXCEPT ![t] = [job[t] EXCEPT !.step = "sent", !.result = "Failed", !.seen = NotRead]]
      BY <2>0
    <3>3. ASSUME NEW result \in {"none", "Verified", "Unverified", "Failed"}, JobBecomes(t, "sent", result)
          PROVE  <1>6!:
      <4>1. job' = [job EXCEPT ![t] = [job[t] EXCEPT !.step = "sent", !.result = result, !.seen = job[t].seen]]
        BY <2>1, <3>3
      <4> QED
        BY <4>1
    <3>4. CASE job' = [job EXCEPT ![t].step = "sent", ![t].result = "Failed", ![t].seen = NotRead]
      BY <3>2, <3>4
    <3> QED
      BY <2>0, <3>1, <3>3, <3>4
  <2> QED
    BY <2>3, <2>4
<1>7. PICK step \in {"served?", "sent"}, result \in {"none", "Verified", "Unverified", "Failed"}, seen \in {answer, NotRead, job[t].seen} :
         job' = [job EXCEPT ![t] = [job[t] EXCEPT !.step = step, !.result = result, !.seen = seen]]
  BY <1>6
<1> DEFINE j == [job[t] EXCEPT !.step = step, !.result = result, !.seen = seen]
<1>8. seen \in ServiceLists /\ seen.value \subseteq ServiceRows(job[t].request.list)
  BY <1>2, <1>3, <1>4, <1>5
<1>9. j \in ServiceJobs /\ j.step # "ended" /\ j.seen = seen /\ j.request = job[t].request
  BY <1>2, <1>8 DEF ServiceJobs
<1>10. job' = [job EXCEPT ![t] = j]
  BY <1>7
<1>11. allowance' \in ServiceAllowances
  BY <1>1, AllowedKeeps DEF VerifyService, VerifyServed
<1>12. /\ serviceLocks' \subseteq [key : Lists, task : ServiceTasks]
       /\ backend' \in [Addresses -> Backends \cup {Off}] /\ public' \subseteq Ports /\ shared' \subseteq Shares
  BY <1>1 DEF ServicesTypeOK
<1> HIDE DEF j
<1> QED
  BY <1>1, <1>8, <1>9, <1>10, <1>11, <1>12, TaskSteps

\* ServicesEvent::TaskFinished: what was read is shown and at once read again.
LEMMA FinishedKeeps ==
    ASSUME ServicesInv, NEW t \in ServiceTasks, ServiceTaskFinished(t)
    PROVE  ServicesInv'
<1> DEFINE r     == job[t].request.list
           seen  == job[t].seen
           read  == ListSucceeds(services.list[r], services.gen, seen.value)
           shown == IF seen.known THEN [services EXCEPT !.list[r] = ListSucceeds(@, services.gen, seen.value)] ELSE services
<1>1. ServicesTypeOK /\ UNCHANGED <<allowance, backend, public, shared, capable, switched>>
  BY DEF ServicesInv, ServiceTaskFinished, Configuration
<1>2. job[t] \in ServiceJobs /\ r \in Lists /\ seen \in ServiceLists /\ seen.value \subseteq ServiceRows(r)
  <2>1. job[t] # NoJob
    BY DEF ServiceTaskFinished, JobIs
  <2> QED
    BY <1>1, <2>1, StatesOfTypes DEF ServicesTypeOK
<1>3. RefreshServices(shown)
  BY DEF ServiceTaskFinished, ReadsBack
<1>4. services \in ServiceStates /\ RowsFit(services) /\ services.gen \in Nat /\ services.list[r] \in ServiceLists
  BY <1>1, <1>2, StatesOfTypes
<1> HIDE DEF r, seen
<1>5. read \in ServiceLists /\ read.value \subseteq ServiceRows(r)
  <2>1. seen.value \in SUBSET (Shares \cup [at : Addresses, backend : Backends])
    BY <1>2, RowsAreRows
  <2>2. read \in ServiceLists /\ read.value \in {services.list[r].value, seen.value}
    BY <1>4, <2>1, ListIsRead
  <2> QED
    BY <1>2, <1>4, <2>2 DEF RowsFit
<1>6. shown \in ServiceStates /\ RowsFit(shown) /\ shown.gen = services.gen
  <2>1. CASE seen.known
    <3>1. shown = [services EXCEPT !.list[r] = read]
      BY <1>2, <1>4, <2>1 DEF ServiceStates
    <3> HIDE DEF read, shown
    <3>2. shown.list = [services.list EXCEPT ![r] = read] /\ shown.gen = services.gen /\ shown \in ServiceStates
      BY <1>2, <1>4, <1>5, <3>1 DEF ServiceStates
    <3>3. services.list \in [Lists -> ServiceLists]
      BY <1>4 DEF ServiceStates
    <3> QED
      BY <1>2, <1>4, <1>5, <3>2, <3>3 DEF RowsFit
  <2>2. CASE ~seen.known
    BY <1>4, <2>2
  <2> QED
    BY <2>1, <2>2
<1> HIDE DEF shown
<1>7. ~switched => \A n \in Refreshes : refresh[n].gen <= shown.gen
  BY <1>6 DEF ServicesInv, FirstIsSettled
<1>8. LoadingIsRead' /\ FirstIsSettled'
  BY <1>1, <1>3, <1>6, <1>7, ServiceBeginKeeps
<1>9. /\ job' \in [ServiceTasks -> ServiceJobs \cup {NoJob}]
      /\ \A u \in ServiceTasks : job'[u] # NoJob => job'[u].seen.value \subseteq ServiceRows(job'[u].request.list)
  <2> DEFINE j == [job[t] EXCEPT !.step = "ended", !.result = job[t].result]
  <2>1. job' = [job EXCEPT ![t] = j]
    BY <1>1 DEF ServiceTaskFinished, JobBecomes, ServicesTypeOK
  <2>2. j \in ServiceJobs /\ j.seen = job[t].seen /\ j.request = job[t].request
    BY <1>2 DEF ServiceJobs
  <2> HIDE DEF j
  <2>3. j.seen.value \subseteq ServiceRows(j.request.list)
    BY <1>2, <2>2 DEF r, seen
  <2>4. job \in [ServiceTasks -> ServiceJobs \cup {NoJob}]
    BY <1>1 DEF ServicesTypeOK
  <2>5. \A u \in ServiceTasks : job'[u] = IF u = t THEN j ELSE job[u]
    BY <2>1, <2>4
  <2> QED
    BY <1>1, <2>1, <2>2, <2>3, <2>4, <2>5 DEF ServicesTypeOK
<1>10. serviceLocks' \subseteq [key : Lists, task : ServiceTasks]
  BY <1>1 DEF ServiceTaskFinished, ServicesTypeOK
<1>11. ServicesTypeOK'
  BY <1>1, <1>3, <1>6, <1>9, <1>10, RefreshBegins DEF ServicesTypeOK, ServiceStates, RowsFit
<1> QED
  BY <1>8, <1>11 DEF ServicesInv

\* The account, and other hands.
LEMMA OthersKeep ==
    ASSUME ServicesInv, AccountChanges \/ OthersServe
    PROVE  ServicesInv'
<1>1. ServicesTypeOK /\ UNCHANGED <<public, shared, serviceLocks, refresh, job>>
  BY DEF ServicesInv, AccountChanges, OthersServe
<1>2. allowance' \in ServiceAllowances
  BY <1>1, AllowedKeeps DEF AccountChanges, OthersServe
<1>3. CASE AccountChanges
  <2> DEFINE blank == [r \in Lists |-> NotRead]
  <2>1. blank \in [Lists -> ServiceLists] /\ \A r \in Lists : blank[r].status = "Idle" /\ blank[r].gen = 0 /\ blank[r].value = {}
    BY NoneIsNone DEF NotRead
  <2>2. services' = [gen |-> 0, list |-> blank]
    BY <1>3 DEF AccountChanges, NoServices
  <2> HIDE DEF blank
  <2>3. services' \in [gen : Nat, list : [Lists -> ServiceLists]] /\ services'.gen = 0 /\ services'.list = blank
    BY <2>1, <2>2
  <2>4. capable' = FALSE /\ unseen' = unseen /\ switched' = TRUE /\ backend' \in [Addresses -> Backends \cup {Off}]
    BY <1>3 DEF AccountChanges
  <2>5. ServicesTypeOK'
    BY <1>1, <1>2, <2>1, <2>3, <2>4 DEF ServicesTypeOK
  <2>6. LoadingIsRead' /\ FirstIsSettled'
    BY <2>1, <2>3, <2>4 DEF LoadingIsRead, FirstIsSettled
  <2> QED
    BY <2>5, <2>6 DEF ServicesInv
<1>4. CASE OthersServe
  <2>1. unseen' = TRUE /\ UNCHANGED <<capable, services, switched>>
    BY <1>4 DEF OthersServe
  <2>2. backend' \in [Addresses -> Backends \cup {Off}]
    BY <1>1, <1>4 DEF OthersServe, ServicesTypeOK
  <2>3. LoadingIsRead' /\ FirstIsSettled'
    BY <1>1, <2>1, ListsRest
  <2>4. ServicesTypeOK'
    BY <1>1, <1>2, <2>1, <2>2 DEF ServicesTypeOK
  <2> QED
    BY <2>3, <2>4 DEF ServicesInv
<1> QED
  BY <1>3, <1>4

LEMMA ServicesInvInit == ServicesInit => ServicesInv
<1> SUFFICES ASSUME ServicesInit PROVE ServicesInv
  OBVIOUS
<1>1. allowance \in ServiceAllowances /\ public \subseteq Ports /\ shared \subseteq Shares
  BY ServicesAssumption DEF ServicesInit, ServiceAllowances
<1>2. backend \in [Addresses -> Backends \cup {Off}]
  <2>1. (CHOOSE b \in Backends : TRUE) \in Backends
    BY ServicesAssumption
  <2> QED
    BY <2>1 DEF ServicesInit
<1> DEFINE blank == [r \in Lists |-> NotRead]
<1>3. blank \in [Lists -> ServiceLists] /\ \A r \in Lists : blank[r].status = "Idle" /\ blank[r].gen = 0 /\ blank[r].value = {}
  BY NoneIsNone DEF NotRead
<1>4. services = [gen |-> 0, list |-> blank]
  BY DEF ServicesInit, NoServices
<1> HIDE DEF blank
<1>5. services \in [gen : Nat, list : [Lists -> ServiceLists]] /\ services.gen = 0 /\ services.list = blank
  BY <1>3, <1>4
<1>6. refresh = [n \in Refreshes |-> NoRefresh] /\ job = [t \in ServiceTasks |-> NoJob]
  BY DEF ServicesInit
<1>7. /\ refresh \in [Refreshes -> RefreshesOfAll \cup {NoRefresh}] /\ \A n \in Refreshes : refresh[n] = NoRefresh
      /\ job \in [ServiceTasks -> ServiceJobs \cup {NoJob}] /\ \A t \in ServiceTasks : job[t] = NoJob
  BY <1>6
<1>8. ServicesTypeOK
  BY <1>1, <1>2, <1>3, <1>5, <1>7 DEF ServicesTypeOK, ServicesInit
<1>9. LoadingIsRead /\ FirstIsSettled
  BY <1>3, <1>5, <1>7, NoneIsNone DEF LoadingIsRead, FirstIsSettled
<1> QED
  BY <1>8, <1>9 DEF ServicesInv

LEMMA ServicesInvNext == ServicesInv /\ [ServicesNext]_serviceVars => ServicesInv'
<1> SUFFICES ASSUME ServicesInv, [ServicesNext]_serviceVars PROVE ServicesInv'
  OBVIOUS
<1>1. CASE AskRefresh \/ ClientDiscovered
  BY <1>1, AskKeeps
<1>2. CASE AccountChanges \/ OthersServe
  BY <1>2, OthersKeep
<1>3. CASE \E n \in Refreshes : ReadList(n) \/ ServicesRefreshed(n)
  BY <1>3, ReadKeeps, RefreshedKeeps
<1>4. CASE \E q \in TaskRequests : StartServiceTask(q)
  BY <1>4, StartKeeps
<1>5. CASE \E t \in ServiceTasks : ServiceTaskSteps(t)
  BY <1>5, RunsKeep, VerifyKeeps, FinishedKeeps DEF ServiceTaskSteps
<1>6. CASE UNCHANGED serviceVars
  <2>1. ServicesTypeOK'
    BY <1>6 DEF serviceVars, ServicesInv, ServicesTypeOK
  <2>2. \A r \in Lists : Actual(r)' = Actual(r)
    BY <1>6, SameServed DEF serviceVars
  <2>3. Working' = Working
    BY <1>6 DEF serviceVars, Working
  <2>4. LoadingIsRead' /\ FirstIsSettled'
    BY <1>6, <2>2, <2>3, ListsRest DEF serviceVars
  <2> QED
    BY <2>1, <2>4 DEF ServicesInv
<1> QED
  BY <1>1, <1>2, <1>3, <1>4, <1>5, <1>6 DEF ServicesNext, TaskRequests

\* What the client serves, what is known of it and what is under way keep their
\* types, and every list holds rows of its own kind, whichever answers crossed.
THEOREM ServicesTypeCorrect == ServicesSpec => []ServicesTypeOK
<1>1. ServicesInv => ServicesTypeOK
  BY DEF ServicesInv
<1> QED
  BY <1>1, ServicesInvInit, ServicesInvNext, PTL DEF ServicesSpec

\* start_services_refresh and the generations of ServiceResource: with no task
\* and no refresh under way nothing is loading; and for the first account, while
\* no other hand has changed it since the last refresh began, what is shown as
\* ready is what the client serves.  (A change of account starts a snapshot with
\* generation 0, local_reducer.rs:770: of its ready lists nothing is said.)
THEOREM ServedIsShown == ServicesSpec => []ServicesAreCurrent
<1>1. ServicesInv => ServicesAreCurrent
  <2> SUFFICES ASSUME ServicesInv, ServicesQuiet, NEW r \in Lists
               PROVE  /\ services.list[r].status # "Loading"
                      /\ services.list[r].status = "Ready" /\ ~unseen /\ ~switched => services.list[r].value = Actual(r)
    BY DEF ServicesAreCurrent
  <2>1. services.list[r].status # "Loading"
    BY DEF ServicesInv, LoadingIsRead, ServicesQuiet
  <2>2. ~Working
    BY DEF ServicesQuiet, Working
  <2> QED
    BY <2>1, <2>2 DEF ServicesInv, FirstIsSettled, Settled
<1> QED
  BY <1>1, ServicesInvInit, ServicesInvNext, PTL DEF ServicesSpec

-----------------------------------------------------------------------------
(* Service requests: kinds, mappings, lists *)

\* Each kind of request has its own fields.
LEMMA RequestFields ==
    ASSUME NEW q \in Requests
    PROVE  /\ q.kind \in {"serve", "funnel", "publish", "remove", "unpublish", "serveReset", "funnelReset", "bug", "metrics",
                          "send", "share", "unshare", "cert", "receive"}
           /\ q.kind \in OfMapping => q.mapping \in Mappings
           /\ q.kind = "serve" => ~q.mapping.public
           /\ q.kind \in {"funnel", "publish"} => q.mapping.public
           /\ q.kind = "send" => q.target \in Targets
           /\ q.kind \in {"share", "unshare"} => q.name \in ShareNames
           /\ q.kind \in {"cert", "receive"} => q.over \in BOOLEAN
  BY DEF Requests, MappingsOf, OfMapping

LEMMA MappingFields ==
    ASSUME NEW m \in Mappings
    PROVE  /\ m \in [port : HerePorts, mount : {p[2] : p \in Here}, kind : Listeners, backend : BackendKinds,
                     proxy : Proxies, public : BOOLEAN]
           /\ AddressOf(m) = <<m.port, m.mount>> /\ AddressOf(m) \in Here
           /\ m.kind \in Web \/ m.mount = RootMount
           /\ m.kind # "none"
  BY DEF Mappings, AddressOf, ServableAt, Listeners, Web

\* A place is its port and its mount.
LEMMA PlaceIsPair ==
    ASSUME RequestAssumption, NEW p \in Here
    PROVE  p = <<p[1], p[2]>> /\ p[2] # AnyMount /\ p[1] \in HerePorts /\ p[2] \in {q[2] : q \in Here}
  BY DEF RequestAssumption, HerePorts

\* What the client serves at a place, as it is listed.
LEMMA Listing ==
    ASSUME RequestAssumption, NEW c \in Clients, NEW pub \in BOOLEAN, NEW p \in Here, c.handler[p] # Nowhere
    PROVE  LET r == Mapping(p, AsListed(c.handler[p]), pub) IN
           /\ r \in MappingsOf(pub)
           /\ AddressOf(r) = p /\ r.kind = c.handler[p].kind /\ r.proxy = c.handler[p].proxy
           /\ r.backend = AsListed(c.handler[p]).backend /\ r.public = pub
PROOF
  <1>1. c.handler[p] \in Handlers /\ ServableAt(c.handler[p], p)
    BY DEF Clients
  <1>2. PICK h \in Handlers : h = AsListed(c.handler[p])
    BY <1>1 DEF AsListed, Handlers, BackendKinds
  <1>3. h.kind = c.handler[p].kind /\ h.proxy = c.handler[p].proxy
    BY <1>1, <1>2 DEF AsListed, Handlers
  <1>4. PICK r : r = Mapping(p, h, pub)
    OBVIOUS
  <1>5. /\ r.port = p[1] /\ r.mount = p[2] /\ r.kind = h.kind /\ r.backend = h.backend /\ r.proxy = h.proxy
        /\ r.public = pub
    BY <1>4 DEF Mapping
  <1>6. r \in [port : HerePorts, mount : {q[2] : q \in Here}, kind : Listeners, backend : BackendKinds,
               proxy : Proxies, public : BOOLEAN]
    BY <1>4, PlaceIsPair DEF Mapping, Handlers
  <1>7. AddressOf(r) = p
    BY <1>5, PlaceIsPair DEF AddressOf
  <1>8. r \in MappingsOf(pub)
    BY <1>1, <1>3, <1>5, <1>6, <1>7 DEF MappingsOf, Mappings, ServableAt
  <1> QED BY <1>2, <1>3, <1>4, <1>5, <1>7, <1>8

LEMMA ListedIsTyped ==
    ASSUME RequestAssumption, NEW c \in Clients, NEW pub \in BOOLEAN
    PROVE  ListedBy(c, pub) \subseteq MappingsOf(pub)
PROOF
  <1> SUFFICES ASSUME NEW r \in ListedBy(c, pub) PROVE r \in MappingsOf(pub)
    OBVIOUS
  <1>1. PICK p \in Here : c.handler[p] # Nowhere /\ r = Mapping(p, AsListed(c.handler[p]), pub)
    BY DEF ListedBy
  <1> QED BY <1>1, Listing

-----------------------------------------------------------------------------
(* Service requests: what a command changes *)

\* StaysWithin, of the request, the client before and after, and the phrase.
Within(q, b, a, phrase) ==
    LET mapped == q.kind \in OfMapping
        reset == q.kind \in {"serveReset", "funnelReset"} IN
    /\ \A p \in Here : a.handler[p] # b.handler[p] => reset \/ (mapped /\ p = AddressOf(q.mapping))
    /\ \A port \in a.public \ b.public : mapped /\ port = q.mapping.port /\ phrase = "PUBLIC"
    /\ \A port \in b.public \ a.public : reset \/ (mapped /\ port = q.mapping.port)
    /\ q.kind = "remove" => \A port \in b.public \ a.public : \A p \in Here : p[1] = port => a.handler[p] = Nowhere
    /\ (a.shares \ b.shares) \cup (b.shares \ a.shares) \subseteq
           IF q.kind \in {"share", "unshare"} THEN {q.name} ELSE {}

LEMMA ClientFields ==
    ASSUME NEW c \in Clients
    PROVE  /\ c \in [handler : [Here -> Handlers \cup {Nowhere}], public : SUBSET HerePorts, shares : SUBSET ShareNames,
                     targets : SUBSET Targets, there : SUBSET {"file", "folder"}]
           /\ \A p \in Here : c.handler[p] = Nowhere \/ ServableAt(c.handler[p], p)
           /\ \A port \in c.public : \E p \in Here : p[1] = port /\ c.handler[p] # Nowhere
  BY DEF Clients, PortsOf

LEMMA ServedPorts ==
    ASSUME NEW h \in [Here -> Handlers \cup {Nowhere}]
    PROVE  /\ PortsOf(h) \subseteq HerePorts
           /\ \A p \in Here : h[p] # Nowhere => p[1] \in PortsOf(h)
           /\ \A port \in PortsOf(h) : \E p \in Here : p[1] = port /\ h[p] # Nowhere
  BY DEF PortsOf, HerePorts

\* Another configuration of the same client.
LEMMA Reconfigured ==
    ASSUME NEW c \in Clients, NEW h \in [Here -> Handlers \cup {Nowhere}], NEW pub \in SUBSET PortsOf(h),
           \A p \in Here : h[p] = Nowhere \/ ServableAt(h[p], p)
    PROVE  [c EXCEPT !.handler = h, !.public = pub] \in Clients
PROOF
  <1>1. PICK d : d = [c EXCEPT !.handler = h, !.public = pub]
    OBVIOUS
  <1>2. d \in [handler : [Here -> Handlers \cup {Nowhere}], public : SUBSET HerePorts, shares : SUBSET ShareNames,
               targets : SUBSET Targets, there : SUBSET {"file", "folder"}]
    BY <1>1, ClientFields, ServedPorts
  <1>3. d.handler = h /\ d.public = pub
    BY <1>1, ClientFields
  <1> QED BY <1>1, <1>2, <1>3 DEF Clients

\* A mapping is made at its own address, and nothing else is touched.
LEMMA MappingMade ==
    ASSUME RequestAssumption, NEW c \in Clients, NEW m \in Mappings
    PROVE  LET d == Configured(c, MappingCommand(m)) IN
           /\ d \in Clients
           /\ \A p \in Here : d.handler[p] # c.handler[p] => p = AddressOf(m)
           /\ d.public = IF m.public THEN c.public \cup {m.port} ELSE c.public \ {m.port}
           /\ d.shares = c.shares
PROOF
  <1>1. PICK d : d = Configured(c, MappingCommand(m))
    OBVIOUS
  <1>2. PICK a : a = MappingCommand(m)
    OBVIOUS
  <1>3. /\ a.target = m.backend /\ a.target # "off" /\ a.port = m.port /\ a.kind = m.kind /\ a.proxy = m.proxy
        /\ a.path = IF m.mount = RootMount THEN AnyMount ELSE m.mount
        /\ a.verb = "funnel" <=> m.public
    BY <1>2, MappingFields DEF MappingCommand, BackendKinds
  <1>4. AddressOf(m) = <<m.port, m.mount>> /\ AddressOf(m) \in Here /\ m.mount # AnyMount
    BY MappingFields, PlaceIsPair
  <1>5. <<a.port, IF a.path = AnyMount THEN RootMount ELSE a.path>> = AddressOf(m)
    BY <1>3, <1>4
  <1>6. PICK v : v = [kind |-> m.kind, backend |-> m.backend, proxy |-> m.proxy]
    OBVIOUS
  <1>7. v \in Handlers /\ v.kind = m.kind
    BY <1>6, MappingFields DEF Handlers
  <1>8. v # Nowhere
    BY <1>7, MappingFields DEF Nowhere
  <1>9. PICK h : h = [c.handler EXCEPT ![AddressOf(m)] = v]
    OBVIOUS
  <1>10. /\ h \in [Here -> Handlers \cup {Nowhere}]
         /\ h[AddressOf(m)] = v /\ \A p \in Here : p # AddressOf(m) => h[p] = c.handler[p]
    BY <1>4, <1>7, <1>9, ClientFields
  <1>11. PICK pub : pub = IF a.verb = "funnel" THEN c.public \cup {a.port} ELSE c.public \ {a.port}
    OBVIOUS
  <1>12. d = [c EXCEPT !.handler = h, !.public = pub]
    BY <1>1, <1>2, <1>3, <1>5, <1>6, <1>9, <1>11, ClientFields DEF Configured
  <1>13. pub \subseteq PortsOf(h)
    <2> SUFFICES ASSUME NEW port \in pub PROVE port \in PortsOf(h)
      OBVIOUS
    <2>1. CASE port = m.port
      <3>1. AddressOf(m)[1] = m.port
        BY <1>4
      <3> QED BY <2>1, <3>1, <1>4, <1>8, <1>10, ServedPorts
    <2>2. CASE port # m.port
      <3>1. PICK p \in Here : p[1] = port /\ c.handler[p] # Nowhere
        BY <2>2, <1>3, <1>11, ClientFields
      <3>2. p # AddressOf(m)
        BY <2>2, <3>1, <1>4
      <3> QED BY <3>1, <3>2, <1>10, ServedPorts
    <2> QED BY <2>1, <2>2
  <1>14. \A p \in Here : h[p] = Nowhere \/ ServableAt(h[p], p)
    <2> SUFFICES ASSUME NEW p \in Here PROVE h[p] = Nowhere \/ ServableAt(h[p], p)
      OBVIOUS
    <2>1. CASE p = AddressOf(m)
      BY <2>1, <1>4, <1>7, <1>10, MappingFields DEF ServableAt
    <2>2. CASE p # AddressOf(m)
      BY <2>2, <1>10, ClientFields
    <2> QED BY <2>1, <2>2
  <1>15. d \in Clients
    BY <1>10, <1>12, <1>13, <1>14, Reconfigured
  <1>16. d.handler = h /\ d.public = pub /\ d.shares = c.shares
    BY <1>12, ClientFields
  <1> QED BY <1>1, <1>3, <1>10, <1>11, <1>15, <1>16

\* A mapping is taken off at its own address.
LEMMA MappingTakenOff ==
    ASSUME RequestAssumption, NEW c \in Clients, NEW m \in Mappings
    PROVE  LET d == Configured(c, OffCommand(m)) IN
           /\ d \in Clients
           /\ \A p \in Here : d.handler[p] # c.handler[p] => p = AddressOf(m)
           /\ d.public \subseteq c.public
           /\ \A port \in c.public \ d.public : port = m.port /\ \A p \in Here : p[1] = port => d.handler[p] = Nowhere
           /\ d.shares = c.shares
PROOF
  <1>1. PICK d : d = Configured(c, OffCommand(m))
    OBVIOUS
  <1>2. PICK a : a = OffCommand(m)
    OBVIOUS
  <1>3. /\ a.target = "off" /\ a.port = m.port /\ a.kind = m.kind
        /\ a.path = IF m.kind \in Web THEN m.mount ELSE AnyMount
    BY <1>2 DEF OffCommand
  <1>4. AddressOf(m) = <<m.port, m.mount>> /\ AddressOf(m) \in Here /\ m.mount # AnyMount
    BY MappingFields, PlaceIsPair
  <1>5. ASSUME NEW p \in Here, p \in TakenOff(c, a) PROVE p = AddressOf(m)
    <2>1. p[1] = m.port /\ c.handler[p] # Nowhere /\ c.handler[p].kind = m.kind /\ a.path \in {AnyMount, p[2]}
      BY <1>3, <1>5 DEF TakenOff, Holds
    <2>2. CASE m.kind \in Web
      BY <2>1, <2>2, <1>3, <1>4, PlaceIsPair
    <2>3. CASE m.kind \notin Web
      BY <2>1, <2>3, <1>4, PlaceIsPair, MappingFields, ClientFields DEF ServableAt
    <2> QED BY <2>2, <2>3
  <1>6. PICK h : h = [p \in Here |-> IF p \in TakenOff(c, a) THEN Nowhere ELSE c.handler[p]]
    OBVIOUS
  <1>7. /\ h \in [Here -> Handlers \cup {Nowhere}]
        /\ \A p \in Here : h[p] # c.handler[p] => p = AddressOf(m) /\ h[p] = Nowhere
    BY <1>5, <1>6, ClientFields
  <1>8. PICK pub : pub = c.public \cap PortsOf(h)
    OBVIOUS
  <1>9. d = [c EXCEPT !.handler = h, !.public = pub]
    BY <1>1, <1>2, <1>3, <1>6, <1>8, ClientFields DEF Configured
  <1>10. d \in Clients
    BY <1>7, <1>8, <1>9, Reconfigured, ClientFields
  <1>11. d.handler = h /\ d.public = pub /\ d.shares = c.shares
    BY <1>9, ClientFields
  <1>12. ASSUME NEW port \in c.public \ d.public
         PROVE  port = m.port /\ \A p \in Here : p[1] = port => d.handler[p] = Nowhere
    <2>1. \A p \in Here : p[1] = port => h[p] = Nowhere
      BY <1>7, <1>8, <1>11, <1>12, ServedPorts
    <2>2. PICK p \in Here : p[1] = port /\ c.handler[p] # Nowhere
      BY <1>12, ClientFields
    <2>3. p = AddressOf(m)
      BY <2>1, <2>2, <1>7
    <2> QED BY <2>1, <2>2, <2>3, <1>4, <1>11
  <1> QED BY <1>1, <1>7, <1>8, <1>10, <1>11, <1>12

LEMMA Withdrawn ==
    ASSUME NEW m \in Mappings, NEW pub \in BOOLEAN
    PROVE  LET n == [m EXCEPT !.public = pub] IN
           /\ n \in MappingsOf(pub)
           /\ AddressOf(n) = AddressOf(m) /\ n.port = m.port /\ n.public = pub
PROOF
  <1>1. PICK n : n = [m EXCEPT !.public = pub]
    OBVIOUS
  <1>2. /\ n \in [port : HerePorts, mount : {p[2] : p \in Here}, kind : Listeners, backend : BackendKinds,
                  proxy : Proxies, public : BOOLEAN]
        /\ n.port = m.port /\ n.mount = m.mount /\ n.kind = m.kind /\ n.public = pub
    BY <1>1, MappingFields
  <1>3. AddressOf(n) = AddressOf(m)
    BY <1>2 DEF AddressOf
  <1>4. n \in MappingsOf(pub)
    BY <1>2, <1>3 DEF MappingsOf, Mappings, ServableAt
  <1> QED BY <1>1, <1>2, <1>3, <1>4

\* The client stays one, and what it does for a request is within it.
LEMMA EffectWithin ==
    ASSUME RequestAssumption, NEW c \in Clients, NEW q \in Requests
    PROVE  Effect(c, q) \in Clients /\ Within(q, c, Effect(c, q), Phrase(q))
PROOF
  <1>1. PICK a : a = Effect(c, q)
    OBVIOUS
  <1>2. SUFFICES a \in Clients /\ Within(q, c, a, Phrase(q))
    BY <1>1
  <1>3. CASE q.kind \in OfMapping
    <2>1. PICK m : m = q.mapping
      OBVIOUS
    <2>2. m \in Mappings
      BY <1>3, <2>1, RequestFields
    <2>3. a = Configured(c, CommandOf(q))
      BY <1>1, <1>3 DEF Effect, OfMapping
    <2>4. CASE q.kind = "remove"
      <3>1. a = Configured(c, OffCommand(m))
        BY <2>1, <2>3, <2>4 DEF CommandOf
      <3> QED BY <3>1, <2>1, <2>2, <2>4, MappingTakenOff DEF Within, OfMapping
    <2>5. CASE q.kind = "unpublish"
      <3>1. PICK n : n = [m EXCEPT !.public = FALSE]
        OBVIOUS
      <3>2. n \in Mappings /\ AddressOf(n) = AddressOf(m) /\ n.port = m.port /\ ~n.public
        BY <3>1, <2>2, Withdrawn DEF MappingsOf
      <3>3. a = Configured(c, MappingCommand(n))
        BY <3>1, <2>1, <2>3, <2>5 DEF CommandOf, UnpublishCommand
      <3> QED BY <3>2, <3>3, <2>1, <2>5, MappingMade DEF Within, OfMapping
    <2>6. CASE q.kind \in {"serve", "funnel", "publish"}
      <3>1. a = Configured(c, MappingCommand(m))
        BY <2>1, <2>3, <2>6 DEF CommandOf
      <3>2. /\ a \in Clients
            /\ \A p \in Here : a.handler[p] # c.handler[p] => p = AddressOf(m)
            /\ a.public = IF m.public THEN c.public \cup {m.port} ELSE c.public \ {m.port}
            /\ a.shares = c.shares
        BY <3>1, <2>2, MappingMade
      <3>3. m.public => Phrase(q) = "PUBLIC"
        BY <2>1, <2>6, RequestFields DEF Phrase
      <3> QED BY <3>2, <3>3, <2>1, <2>6 DEF Within, OfMapping
    <2> QED BY <1>3, <2>4, <2>5, <2>6 DEF OfMapping
  <1>4. CASE q.kind \in {"serveReset", "funnelReset"}
    <2>1. a = Emptied(c)
      BY <1>1, <1>4 DEF Effect, OfMapping
    <2>2. PICK h : h = [p \in Here |-> Nowhere]
      OBVIOUS
    <2>3. h \in [Here -> Handlers \cup {Nowhere}] /\ \A p \in Here : h[p] = Nowhere
      BY <2>2
    <2>4. a = [c EXCEPT !.handler = h, !.public = {}]
      BY <2>1, <2>2 DEF Emptied
    <2>5. a \in Clients
      BY <2>3, <2>4, Reconfigured
    <2>6. a.public = {} /\ a.shares = c.shares
      BY <2>4, ClientFields
    <2> QED BY <1>4, <2>5, <2>6 DEF Within, OfMapping
  <1>5. CASE q.kind \in {"share", "unshare"}
    <2>1. a = [c EXCEPT !.shares = IF q.kind = "share" THEN @ \cup {q.name} ELSE @ \ {q.name}]
      BY <1>1, <1>5 DEF Effect, OfMapping
    <2>2. a \in Clients
      <3>1. a \in [handler : [Here -> Handlers \cup {Nowhere}], public : SUBSET HerePorts, shares : SUBSET ShareNames,
                   targets : SUBSET Targets, there : SUBSET {"file", "folder"}]
        BY <2>1, <1>5, ClientFields, RequestFields
      <3>2. a.handler = c.handler /\ a.public = c.public
        BY <2>1, ClientFields
      <3> QED BY <3>1, <3>2 DEF Clients
    <2>3. a.handler = c.handler /\ a.public = c.public
          /\ a.shares = IF q.kind = "share" THEN c.shares \cup {q.name} ELSE c.shares \ {q.name}
      BY <2>1, ClientFields
    <2> QED BY <1>5, <2>2, <2>3 DEF Within, OfMapping
  <1>6. CASE q.kind = "cert"
    <2>1. a = [c EXCEPT !.there = @ \cup {"file"}]
      BY <1>1, <1>6 DEF Effect, OfMapping
    <2>2. a \in [handler : [Here -> Handlers \cup {Nowhere}], public : SUBSET HerePorts, shares : SUBSET ShareNames,
                 targets : SUBSET Targets, there : SUBSET {"file", "folder"}]
      BY <2>1, ClientFields
    <2>3. a.handler = c.handler /\ a.public = c.public /\ a.shares = c.shares
      BY <2>1, ClientFields
    <2> QED BY <1>6, <2>2, <2>3 DEF Within, OfMapping, Clients
  <1>7. CASE q.kind \in {"bug", "metrics", "send", "receive"}
    <2>1. a = c
      BY <1>1, <1>7 DEF Effect, OfMapping
    <2> QED BY <1>7, <2>1 DEF Within
  <1> QED BY <1>3, <1>4, <1>5, <1>6, <1>7, RequestFields DEF OfMapping

-----------------------------------------------------------------------------
(* Service requests: what a list bears out *)

\* VerifiedWasSo, of the request the client that was read and whether it lists what is public.
SoOf(q, r, omits) ==
    LET m == q.mapping  here == r.handler[AddressOf(m)] IN
    CASE q.kind \in {"serve", "funnel", "publish"} ->
             /\ here.kind = m.kind /\ here.proxy = m.proxy /\ AsListed(here).backend = m.backend
             /\ omits \/ (m.port \in r.public) = m.public
      [] q.kind = "remove" -> omits \/ here.kind # m.kind \/ (m.port \in r.public) # m.public
      [] q.kind = "unpublish" -> here.kind = m.kind => m.port \notin r.public
      [] q.kind = "funnelReset" -> \A p \in Here : p[1] \in r.public => r.handler[p] = Nowhere
      [] q.kind = "serveReset" -> \A p \in Here : r.handler[p] = Nowhere \/ p[1] \in r.public
      [] q.kind = "share" -> q.name \in r.shares
      [] q.kind = "unshare" -> q.name \notin r.shares
      [] OTHER -> TRUE

\* What is in a list is served, and the other way round.
LEMMA ListedIsServed ==
    ASSUME RequestAssumption, NEW c \in Clients, NEW pub \in BOOLEAN, NEW r \in ListedBy(c, pub)
    PROVE  /\ AddressOf(r) \in Here /\ c.handler[AddressOf(r)] # Nowhere
           /\ r.kind = c.handler[AddressOf(r)].kind /\ r.proxy = c.handler[AddressOf(r)].proxy
           /\ r.backend = AsListed(c.handler[AddressOf(r)]).backend
           /\ Partitioned(c) => (AddressOf(r)[1] \in c.public) = pub
PROOF
  <1>1. PICK p \in Here : /\ c.handler[p] # Nowhere /\ r = Mapping(p, AsListed(c.handler[p]), pub)
                          /\ Partitioned(c) => (p[1] \in c.public) = pub
    BY DEF ListedBy
  <1>2. AddressOf(r) = p /\ r.kind = c.handler[p].kind /\ r.proxy = c.handler[p].proxy
        /\ r.backend = AsListed(c.handler[p]).backend
    BY <1>1, Listing
  <1> QED BY <1>1, <1>2

LEMMA ServedIsListed ==
    ASSUME RequestAssumption, NEW c \in Clients, NEW pub \in BOOLEAN, NEW p \in Here, c.handler[p] # Nowhere,
           Partitioned(c) => (p[1] \in c.public) = pub
    PROVE  \E r \in ListedBy(c, pub) : AddressOf(r) = p /\ r.kind = c.handler[p].kind
PROOF
  <1>1. PICK r : r = Mapping(p, AsListed(c.handler[p]), pub)
    OBVIOUS
  <1>2. AddressOf(r) = p /\ r.kind = c.handler[p].kind
    BY <1>1, Listing
  <1>3. r \in ListedBy(c, pub)
    BY <1>1 DEF ListedBy
  <1> QED BY <1>2, <1>3

\* What the list that is read bears out is so of the client.
LEMMA BorneOutIsSo ==
    ASSUME RequestAssumption, NEW c \in Clients, NEW q \in Requests, slack \in Slacks,
           BearsOut(q, ListIn(c, ListOf(q)))
    PROVE  SoOf(q, c, slack.omits)
PROOF
  <1>1. PICK rows : rows = ListIn(c, ListOf(q))
    OBVIOUS
  <1>2. BearsOut(q, rows)
    BY <1>1
  <1>3. PICK m : m = q.mapping
    OBVIOUS
  <1>4. q.kind \in OfMapping => m \in Mappings /\ AddressOf(m) \in Here /\ AddressOf(m)[1] = m.port
    BY <1>3, RequestFields, MappingFields
  <1>5. ~slack.omits => Partitioned(c)
    BY DEF Partitioned
  <1>6. CASE q.kind \in {"serve", "funnel", "publish"}
    <2>1. rows = ListedBy(c, m.public) /\ m.public \in BOOLEAN
      BY <1>1, <1>3, <1>4, <1>6, RequestFields, MappingFields DEF ListIn, ListOf, OfMapping
    <2>2. PICK r \in rows : SameIdentity(r, m) /\ r.backend = m.backend /\ r.proxy = m.proxy
      BY <1>2, <1>3, <1>6 DEF BearsOut
    <2>3. AddressOf(r) = AddressOf(m) /\ r.kind = m.kind
      BY <2>2 DEF SameIdentity
    <2>4. /\ r.kind = c.handler[AddressOf(m)].kind /\ r.proxy = c.handler[AddressOf(m)].proxy
          /\ r.backend = AsListed(c.handler[AddressOf(m)]).backend
          /\ Partitioned(c) => (AddressOf(m)[1] \in c.public) = m.public
      BY <2>1, <2>3, ListedIsServed
    <2> QED BY <2>2, <2>3, <2>4, <1>3, <1>4, <1>5, <1>6 DEF SoOf, OfMapping
  <1>7. CASE q.kind = "remove"
    <2>1. rows = ListedBy(c, m.public) /\ m.public \in BOOLEAN
      BY <1>1, <1>3, <1>4, <1>7, MappingFields DEF ListIn, ListOf, OfMapping
    <2>2. \A r \in rows : AddressOf(r) = AddressOf(m) => r.kind # m.kind
      BY <1>2, <1>3, <1>7 DEF BearsOut, SameIdentity
    <2>3. ASSUME ~slack.omits, c.handler[AddressOf(m)].kind = m.kind, (m.port \in c.public) = m.public PROVE FALSE
      <3>1. c.handler[AddressOf(m)] # Nowhere
        BY <2>3, <1>4, <1>7, MappingFields DEF Nowhere, OfMapping
      <3> QED BY <3>1, <2>1, <2>2, <2>3, <1>4, <1>7, ServedIsListed DEF OfMapping
    <2> QED BY <2>3, <1>3, <1>7 DEF SoOf
  <1>8. CASE q.kind = "unpublish"
    <2>1. rows = ListedBy(c, TRUE)
      BY <1>1, <1>8 DEF ListIn, ListOf
    <2>2. \A r \in rows : AddressOf(r) = AddressOf(m) => r.kind # m.kind
      BY <1>2, <1>3, <1>8 DEF BearsOut, SameIdentity
    <2>3. ASSUME c.handler[AddressOf(m)].kind = m.kind, m.port \in c.public PROVE FALSE
      <3>1. c.handler[AddressOf(m)] # Nowhere
        BY <2>3, <1>4, <1>8, MappingFields DEF Nowhere, OfMapping
      <3>2. AddressOf(m) \in Here /\ (AddressOf(m)[1] \in c.public) = TRUE
        BY <2>3, <1>4, <1>8 DEF OfMapping
      <3>3. PICK r \in ListedBy(c, TRUE) : AddressOf(r) = AddressOf(m) /\ r.kind = c.handler[AddressOf(m)].kind
        BY <3>1, <3>2, ServedIsListed
      <3> QED BY <3>3, <2>1, <2>2, <2>3
    <2> QED BY <2>3, <1>3, <1>8 DEF SoOf
  <1>9. CASE q.kind \in {"serveReset", "funnelReset"}
    <2>1. PICK pub \in BOOLEAN : pub = (q.kind = "funnelReset")
      OBVIOUS
    <2>2. rows = ListedBy(c, pub) /\ rows = {}
      BY <1>1, <1>2, <1>9, <2>1 DEF ListIn, ListOf, BearsOut
    <2>3. ASSUME NEW p \in Here, c.handler[p] # Nowhere, Partitioned(c) => (p[1] \in c.public) = pub PROVE FALSE
      BY <2>2, <2>3, ServedIsListed
    <2>4. CASE q.kind = "funnelReset"
      BY <2>1, <2>3, <2>4 DEF SoOf
    <2>5. CASE q.kind = "serveReset"
      <3>1. \A p \in Here : c.handler[p] # Nowhere => p[1] \in c.public
        BY <2>1, <2>3, <2>5
      <3> QED BY <3>1, <2>5 DEF SoOf
    <2> QED BY <1>9, <2>4, <2>5
  <1>10. CASE q.kind \in {"share", "unshare"}
    BY <1>1, <1>2, <1>10 DEF ListIn, ListOf, BearsOut, SoOf
  <1>11. CASE q.kind \in {"bug", "metrics", "send", "cert", "receive"}
    BY <1>11 DEF SoOf
  <1> QED BY <1>6, <1>7, <1>8, <1>9, <1>10, <1>11, RequestFields

-----------------------------------------------------------------------------
(* Service requests: the invariant *)

TaskFits(o, omits) ==
    /\ o.phrase = Phrase(o.request)
    /\ Within(o.request, o.before, o.after, o.phrase)
    /\ o.verdict = "verified" /\ o.request.kind # "cert" => SoOf(o.request, o.read, omits)
    /\ o.request.kind = "cert" /\ "file" \in o.found => o.phrase = "OVERWRITE"

\* A section that loads has a task that reads it.
MetricsAreRead(s, orders) ==
    s.metrics = "Loading" =>
        \E n \in Orders : orders[n] # NoOrder /\ orders[n].request.kind = "metrics" /\ orders[n].step # "ended"

RequestsInv ==
    /\ RequestsTypeOK
    /\ \A n \in Orders : order[n] # NoOrder => TaskFits(order[n], slack.omits)
    /\ MetricsAreRead(store, order)

LEMMA FitsIsConfirmed == ASSUME RequestsInv PROVE RequestsDoAsConfirmed
PROOF
  <1>1. ASSUME NEW n \in Orders, order[n] # NoOrder
        PROVE  /\ StaysWithin(order[n])
               /\ order[n].verdict = "verified" /\ order[n].request.kind # "cert" => VerifiedWasSo(order[n])
               /\ order[n].request.kind = "cert" /\ "file" \in order[n].found => order[n].phrase = "OVERWRITE"
    <2>1. PICK o : o = order[n]
      OBVIOUS
    <2>2. TaskFits(o, slack.omits)
      BY <1>1, <2>1 DEF RequestsInv
    <2>3. Within(o.request, o.before, o.after, o.phrase) => StaysWithin(o)
      BY DEF Within, StaysWithin
    <2>4. SoOf(o.request, o.read, slack.omits) => VerifiedWasSo(o)
      BY DEF SoOf, VerifiedWasSo
    <2> QED BY <2>1, <2>2, <2>3, <2>4 DEF TaskFits
  <1> QED BY <1>1 DEF RequestsDoAsConfirmed, RequestsInv, MetricsAreRead

LEMMA UsesOne ==
    ASSUME slack \in Slacks, NEW what \in {"asks", "moves", "faults", "foreign"}, Uses(what)
    PROVE  slack' \in Slacks /\ slack'.omits = slack.omits
PROOF
  <1>1. slack[what] \in Nat /\ slack[what] - 1 \in Nat
    BY DEF Uses, Slacks
  <1>2. PICK n \in Nat : n = slack[what] - 1
    BY <1>1
  <1>3. slack' = [slack EXCEPT ![what] = n]
    BY <1>2 DEF Uses
  <1> QED BY <1>3 DEF Slacks

LEMMA StoreFields ==
    ASSUME NEW s \in Stores
    PROVE  /\ s.serve \subseteq MappingsOf(FALSE) /\ s.funnel \subseteq MappingsOf(TRUE)
           /\ s.shares \subseteq ShareNames /\ s.targets \subseteq Targets /\ s.device \in Targets
           /\ s.selected \in Nat /\ s.open \in {NothingOpen} \cup Reviews \cup Forms
           /\ s.locks \subseteq [key : UNION {KeyOf(q) : q \in Requests}, task : Orders]
  BY DEF Stores

\* Rows of the table are mappings.
LEMMA PickedRows ==
    ASSUME NEW s \in Stores
    PROVE  RowsPicked(s) \subseteq Mappings
  BY StoreFields DEF RowsPicked, Table, MappingsOf

LEMMA Reviewable ==
    ASSUME NEW s \in Stores, NEW q \in Requests
    PROVE  Review(s, q) \in Stores /\ Review(s, q).metrics = s.metrics
PROOF
  <1>1. PICK r : r = [what |-> "review", request |-> q, phrase |-> Phrase(q)]
    OBVIOUS
  <1>2. Phrase(q) \in Phrases
    <2>1. q.kind \in {"serve", "funnel", "publish", "remove", "unpublish", "serveReset", "funnelReset", "bug", "metrics",
                      "send", "share", "unshare", "cert", "receive"}
      BY RequestFields
    <2> QED BY <2>1 DEF Phrase, Phrases
  <1>3. r \in Reviews
    BY <1>1, <1>2 DEF Reviews
  <1>4. Review(s, q) = [s EXCEPT !.open = r]
    BY <1>1 DEF Review
  <1> QED BY <1>3, <1>4 DEF Stores

LEMMA Formed ==
    ASSUME NEW s \in Stores,
           NEW kind \in {"serve", "funnel", "edit", "send", "receive", "share", "rename", "cert", "bug"}
    PROVE  Form(s, kind) \in Stores /\ Form(s, kind).metrics = s.metrics
PROOF
  <1>1. PICK r : r = [what |-> "form", kind |-> kind]
    OBVIOUS
  <1>2. r \in Forms
    BY <1>1 DEF Forms
  <1>3. Form(s, kind) = [s EXCEPT !.open = r]
    BY <1>1 DEF Form
  <1> QED BY <1>2, <1>3 DEF Stores

\* What an action opens.
LEMMA OpenedFits ==
    ASSUME NEW s \in Stores, NEW kind \in DOMAIN Capability \ {"metrics"}, NEW t \in Opened(kind, s)
    PROVE  t \in Stores /\ t.metrics = s.metrics
PROOF
  <1>1. (\E q \in Requests : t = Review(s, q)) \/ (t \in Stores /\ t.metrics = s.metrics)
    <2>1. CASE kind \in {"remove", "unpublish"}
      <3>1. PICK m \in RowsPicked(s) : t = Review(s, [kind |-> kind, mapping |-> m])
        BY <2>1 DEF Opened, OpenedForMapping, MappingActions
      <3>2. m \in Mappings
        BY PickedRows
      <3>3. [kind |-> kind, mapping |-> m] \in Requests
        BY <2>1, <3>2 DEF Requests
      <3> QED BY <3>1, <3>3
    <2>2. CASE kind = "publish"
      <3>1. PICK m \in RowsPicked(s) : t = Review(s, [kind |-> kind, mapping |-> [m EXCEPT !.public = TRUE]])
        BY <2>2 DEF Opened, OpenedForMapping, MappingActions
      <3>2. [m EXCEPT !.public = TRUE] \in MappingsOf(TRUE)
        BY PickedRows, Withdrawn
      <3>3. [kind |-> kind, mapping |-> [m EXCEPT !.public = TRUE]] \in Requests
        BY <2>2, <3>2 DEF Requests
      <3> QED BY <3>1, <3>3
    <2>3. CASE kind \in {"serveReset", "funnelReset"}
      <3>1. t = Review(s, [kind |-> kind])
        BY <2>3 DEF Opened, OpenedForMapping, MappingActions
      <3>2. [kind |-> kind] \in Requests
        BY <2>3 DEF Requests
      <3> QED BY <3>1, <3>2
    <2>4. CASE kind = "unshare"
      <3>1. PICK n \in s.shares : t = Review(s, [kind |-> kind, name |-> n])
        BY <2>4 DEF Opened, MappingActions
      <3>2. [kind |-> kind, name |-> n] \in Requests
        BY <2>4, <3>1, StoreFields DEF Requests
      <3> QED BY <3>1, <3>2
    <2>5. CASE kind \in {"serve", "funnel", "edit", "send", "receive", "share", "rename", "cert", "bug"}
      <3>1. t = Form(s, kind)
        BY <2>5 DEF Opened, OpenedForMapping, MappingActions
      <3> QED BY <3>1, <2>5, Formed
    <2> QED BY <2>1, <2>2, <2>3, <2>4, <2>5 DEF Capability
  <1> QED BY <1>1, Reviewable

\* What is typed becomes a mapping.
LEMMA MappingFilled ==
    ASSUME slack \in Slacks, NEW pub \in BOOLEAN, NEW m \in FilledMappings(pub)
    PROVE  m \in MappingsOf(pub)
PROOF
  <1>1. PICK t \in slack.typed : m = Mapping(t.place, t.handler, pub)
    BY DEF FilledMappings
  <1>2. ValidMapping(m)
    BY DEF FilledMappings
  <1>3. t.place \in Here /\ t.handler \in Handlers
    BY <1>1 DEF Slacks
  <1>4. /\ m.port = t.place[1] /\ m.mount = t.place[2] /\ m.kind = t.handler.kind /\ m.public = pub
        /\ m \in [port : HerePorts, mount : {p[2] : p \in Here}, kind : Listeners, backend : BackendKinds,
                  proxy : Proxies, public : BOOLEAN]
    BY <1>1, <1>3, PlaceIsPair, RequestAssumption DEF Mapping, Handlers
  <1>5. AddressOf(m) = t.place
    BY <1>3, <1>4, PlaceIsPair, RequestAssumption DEF AddressOf
  <1> QED BY <1>2, <1>3, <1>4, <1>5 DEF MappingsOf, Mappings, ServableAt, ValidMapping

LEMMA MappingEdited ==
    ASSUME slack \in Slacks, NEW s \in Stores, NEW m \in EditedMappings(s)
    PROVE  m.public \in BOOLEAN /\ m \in MappingsOf(m.public)
PROOF
  <1>1. PICK r \in RowsPicked(s), t \in slack.typed :
            m = Leading(r, t.handler)
    BY DEF EditedMappings
  <1>2. r \in Mappings /\ t.handler \in Handlers
    BY <1>1, PickedRows DEF Slacks
  <1>3. /\ m \in [port : HerePorts, mount : {p[2] : p \in Here}, kind : Listeners, backend : BackendKinds,
                  proxy : Proxies, public : BOOLEAN]
        /\ m.port = r.port /\ m.mount = r.mount /\ m.kind = r.kind
    BY <1>1, <1>2, MappingFields DEF Handlers, Leading
  <1>4. AddressOf(m) = AddressOf(r)
    BY <1>3 DEF AddressOf
  <1> QED BY <1>2, <1>3, <1>4 DEF MappingsOf, Mappings, ServableAt

\* What a form becomes.
LEMMA RequestFormed ==
    ASSUME slack \in Slacks, NEW s \in Stores, NEW form \in Forms
    PROVE  RequestsOf(s, form) \subseteq Requests
PROOF
  <1> SUFFICES ASSUME NEW q, q \in RequestsOf(s, form) PROVE q \in Requests
    OBVIOUS
  <1>1. form.kind \in {"serve", "funnel", "edit", "send", "receive", "share", "rename", "cert", "bug"}
    BY DEF Forms
  <1>0. form.kind \in {"serve", "funnel", "edit"} => RequestsOf(s, form) = MappingRequestsOf(s, form)
    BY DEF RequestsOf, MappingActions
  <1>2. CASE form.kind \in {"serve", "funnel"}
    <2>1. PICK pub \in BOOLEAN : pub = (form.kind = "funnel")
      OBVIOUS
    <2>2. MappingRequestsOf(s, form) = {[kind |-> form.kind, edit |-> FALSE, mapping |-> m] : m \in FilledMappings(pub)}
      <3>1. CASE form.kind = "serve"
        <4>1. pub = FALSE
          BY <2>1, <3>1
        <4> QED BY <3>1, <4>1 DEF MappingRequestsOf
      <3>2. CASE form.kind = "funnel"
        <4>1. pub = TRUE
          BY <2>1, <3>2
        <4> QED BY <3>2, <4>1 DEF MappingRequestsOf
      <3> QED BY <1>2, <3>1, <3>2
    <2>3. PICK m \in FilledMappings(pub) : q = [kind |-> form.kind, edit |-> FALSE, mapping |-> m]
      BY <1>0, <1>2, <2>2
    <2>4. m \in MappingsOf(pub)
      BY <2>3, MappingFilled
    <2> QED BY <1>2, <2>1, <2>3, <2>4 DEF Requests
  <1>3. CASE form.kind = "edit"
    <2>1. MappingRequestsOf(s, form) =
              {[kind |-> IF m.public THEN "funnel" ELSE "serve", edit |-> TRUE, mapping |-> m] : m \in EditedMappings(s)}
      BY <1>3 DEF MappingRequestsOf
    <2>2. PICK m \in EditedMappings(s) : q = [kind |-> IF m.public THEN "funnel" ELSE "serve", edit |-> TRUE, mapping |-> m]
      BY <1>0, <1>3, <2>1
    <2>3. m.public \in BOOLEAN /\ m \in MappingsOf(m.public)
      BY <2>2, MappingEdited
    <2> QED BY <2>2, <2>3 DEF Requests
  <1>4. CASE form.kind = "send"
    <2>1. RequestsOf(s, form) = {[kind |-> "send", target |-> t] : t \in TargetPicked(s)}
      BY <1>4 DEF RequestsOf, MappingActions
    <2>2. PICK t \in TargetPicked(s) : q = [kind |-> "send", target |-> t]
      BY <2>1
    <2>3. t \in Targets
      BY <2>2, StoreFields DEF TargetPicked
    <2> QED BY <2>2, <2>3 DEF Requests
  <1>5. CASE form.kind \in {"receive", "cert", "bug"}
    <2>1. CASE form.kind = "receive"
      <3>1. RequestsOf(s, form) = {[kind |-> "receive", over |-> o] : o \in BOOLEAN}
        BY <2>1 DEF RequestsOf, MappingActions
      <3>2. PICK o \in BOOLEAN : q = [kind |-> "receive", over |-> o]
        BY <3>1
      <3> QED BY <3>2 DEF Requests
    <2>2. CASE form.kind = "cert"
      <3>1. RequestsOf(s, form) \subseteq [kind : {"cert"}, over : BOOLEAN]
        BY <2>2 DEF RequestsOf, MappingActions
      <3> QED BY <3>1 DEF Requests
    <2>3. CASE form.kind = "bug"
      <3>1. RequestsOf(s, form) = {[kind |-> "bug"]}
        BY <2>3 DEF RequestsOf, MappingActions
      <3>2. [kind |-> "bug"] \in Requests
        BY DEF Requests
      <3>3. q = [kind |-> "bug"]
        BY <3>1
      <3> QED BY <3>2, <3>3
    <2> QED BY <1>5, <2>1, <2>2, <2>3
  <1>6. CASE form.kind = "share"
    <2>1. RequestsOf(s, form) = {[kind |-> "share", name |-> n] : n \in {"docs", "music"} \ s.shares}
      BY <1>6 DEF RequestsOf, MappingActions
    <2>2. PICK n \in ShareNames : q = [kind |-> "share", name |-> n]
      BY <2>1 DEF ShareNames
    <2> QED BY <2>2 DEF Requests
  <1>7. CASE form.kind = "rename"
    <2>1. RequestsOf(s, form) = {}
      BY <1>7 DEF RequestsOf, MappingActions
    <2> QED BY <2>1
  <1> QED BY <1>1, <1>2, <1>3, <1>4, <1>5, <1>6, <1>7

-----------------------------------------------------------------------------
(* Service requests: each step keeps the invariant *)

LEMMA TaskFields ==
    ASSUME NEW t \in OrderTasks
    PROVE  /\ t # NoOrder /\ t.step # "none" /\ t.request \in Requests
           /\ t.before \in Clients /\ t.after \in Clients /\ t.read \in Clients
  BY DEF OrderTasks, NoOrder

\* A step of the reducer or the client, while the tasks stay as they are.
LEMMA TasksStay ==
    ASSUME RequestsInv, slack' \in Slacks, slack'.omits = slack.omits, machine' \in Clients, store' \in Stores,
           store'.metrics = store.metrics, order' = order
    PROVE  RequestsInv'
  BY DEF RequestsInv, RequestsTypeOK, MetricsAreRead

\* A step of one task.
LEMMA TaskMoves ==
    ASSUME RequestsInv, slack' \in Slacks, slack'.omits = slack.omits, machine' \in Clients, store' \in Stores,
           NEW n \in Orders, NEW t \in OrderTasks, TaskFits(t, slack.omits), order' = [order EXCEPT ![n] = t],
           MetricsAreRead(store', order')
    PROVE  RequestsInv'
PROOF
  <1>1. order' \in [Orders -> OrderTasks \cup {NoOrder}]
    BY DEF RequestsInv, RequestsTypeOK
  <1>2. ASSUME NEW k \in Orders, order'[k] # NoOrder PROVE TaskFits(order'[k], slack'.omits)
    <2>1. CASE k = n
      BY <2>1, <1>1 DEF RequestsInv, RequestsTypeOK
    <2>2. CASE k # n
      BY <2>2, <1>2 DEF RequestsInv, RequestsTypeOK
    <2> QED BY <2>1, <2>2
  <1> QED BY <1>1, <1>2 DEF RequestsInv, RequestsTypeOK

\* As long as the task that moves does not end, what loads is still read.
LEMMA StillRead ==
    ASSUME RequestsInv, NEW n \in Orders, NEW t \in OrderTasks, order' = [order EXCEPT ![n] = t], t.step # "ended",
           order[n] # NoOrder, t.request = order[n].request, store'.metrics = store.metrics
    PROVE  MetricsAreRead(store', order')
PROOF
  <1> SUFFICES ASSUME store.metrics = "Loading"
               PROVE  \E k \in Orders : order'[k] # NoOrder /\ order'[k].request.kind = "metrics" /\ order'[k].step # "ended"
    BY DEF MetricsAreRead
  <1>1. PICK k \in Orders : order[k] # NoOrder /\ order[k].request.kind = "metrics" /\ order[k].step # "ended"
    BY DEF RequestsInv, MetricsAreRead
  <1>2. CASE k = n
    BY <1>1, <1>2, TaskFields DEF RequestsInv, RequestsTypeOK
  <1>3. CASE k # n
    BY <1>1, <1>3 DEF RequestsInv, RequestsTypeOK
  <1> QED BY <1>2, <1>3

LEMMA RequestsInitInv == ASSUME RequestAssumption, RequestsInit PROVE RequestsInv
PROOF
  <1>1. slack \in Slacks
    BY DEF RequestAssumption, RequestsInit
  <1>2. PICK h : h = [p \in Here |-> IF p \in DOMAIN slack.start THEN slack.start[p] ELSE Nowhere]
    OBVIOUS
  <1>3. PICK at \in SUBSET Here : slack.start \in [at -> Handlers]
    BY <1>1 DEF Slacks
  <1>4. /\ h \in [Here -> Handlers \cup {Nowhere}]
        /\ \A p \in Here : h[p] = IF p \in at THEN slack.start[p] ELSE Nowhere
    BY <1>2, <1>3
  <1>5. \A p \in at : slack.start[p] # Nowhere /\ ServableAt(slack.start[p], p)
    BY <1>3 DEF RequestAssumption, RequestsInit, Handlers, Nowhere, Listeners, Web
  <1>6. PortsOf(slack.start) \subseteq PortsOf(h)
    BY <1>3, <1>4, <1>5 DEF PortsOf
  <1>7. machine = [handler |-> h, public |-> slack.public, shares |-> {"docs"}, targets |-> {1, 2}, there |-> {"folder"}]
    BY <1>2 DEF RequestsInit
  <1>8. slack.public \subseteq PortsOf(h) /\ slack.public \subseteq HerePorts
    BY <1>1, <1>6 DEF RequestAssumption, RequestsInit, Slacks
  <1>9. machine \in [handler : [Here -> Handlers \cup {Nowhere}], public : SUBSET HerePorts, shares : SUBSET ShareNames,
                     targets : SUBSET Targets, there : SUBSET {"file", "folder"}]
    BY <1>4, <1>7, <1>8 DEF ShareNames, Targets
  <1>10. machine \in Clients
    <2>1. machine.handler = h /\ machine.public = slack.public
      BY <1>7
    <2> QED BY <2>1, <1>4, <1>5, <1>8, <1>9 DEF Clients
  <1>11. store \in Stores /\ store.metrics = "Idle"
    BY DEF RequestsInit, Stores, Targets
  <1>12. order \in [Orders -> OrderTasks \cup {NoOrder}] /\ \A n \in Orders : order[n] = NoOrder
    BY DEF RequestsInit
  <1> QED BY <1>1, <1>10, <1>11, <1>12 DEF RequestsInv, RequestsTypeOK, MetricsAreRead

LEMMA AskServiceInv ==
    ASSUME RequestAssumption, RequestsInv, NEW kind \in DOMAIN Capability, AskService(kind)
    PROVE  RequestsInv'
PROOF
  <1>1. slack' \in Slacks /\ slack'.omits = slack.omits
    BY UsesOne DEF AskService, RequestsInv, RequestsTypeOK
  <1>2. kind \in DOMAIN Capability \ {"metrics"} /\ store' \in Opened(kind, store) /\ store \in Stores
    BY DEF AskService, RequestsInv, RequestsTypeOK
  <1>3. store' \in Stores /\ store'.metrics = store.metrics
    BY <1>2, OpenedFits
  <1>4. machine' \in Clients /\ order' = order
    BY DEF AskService, RequestsInv, RequestsTypeOK
  <1> QED BY <1>1, <1>3, <1>4, TasksStay

\* What is open is told by its kind.
LEMMA OpenIs ==
    ASSUME NEW s \in Stores
    PROVE  /\ s.open.what = "form" => s.open \in Forms
           /\ s.open.what = "review" => s.open \in Reviews
PROOF
  <1>1. s.open = NothingOpen \/ s.open \in Reviews \/ s.open \in Forms
    BY StoreFields
  <1>2. NothingOpen.what = "nothing"
    BY DEF NothingOpen
  <1>3. \A r \in Reviews : r.what = "review"
    BY DEF Reviews
  <1>4. \A r \in Forms : r.what = "form"
    BY DEF Forms
  <1> QED BY <1>1, <1>2, <1>3, <1>4

LEMMA AcceptServiceFormInv ==
    ASSUME RequestAssumption, RequestsInv, AcceptServiceForm
    PROVE  RequestsInv'
PROOF
  <1>1. /\ slack \in Slacks /\ machine \in Clients /\ store \in Stores
        /\ slack' = slack /\ machine' = machine /\ order' = order
    BY DEF AcceptServiceForm, RequestsInv, RequestsTypeOK
  <1>2. store.open \in Forms
    BY <1>1, OpenIs DEF AcceptServiceForm
  <1>3. PICK q \in RequestsOf(store, store.open) : store' = Review(store, q)
    BY DEF AcceptServiceForm
  <1>4. q \in Requests
    BY <1>1, <1>2, <1>3, RequestFormed
  <1>5. store' \in Stores /\ store'.metrics = store.metrics
    BY <1>1, <1>3, <1>4, Reviewable
  <1> QED BY <1>1, <1>5, TasksStay

LEMMA Shut ==
    ASSUME NEW s \in Stores
    PROVE  [s EXCEPT !.open = NothingOpen] \in Stores /\ [s EXCEPT !.open = NothingOpen].metrics = s.metrics
  BY DEF Stores

LEMMA CloseServiceInv ==
    ASSUME RequestsInv, CloseService
    PROVE  RequestsInv'
PROOF
  <1>1. /\ slack \in Slacks /\ machine \in Clients /\ store \in Stores
        /\ slack' = slack /\ machine' = machine /\ order' = order
    BY DEF CloseService, RequestsInv, RequestsTypeOK
  <1>2. store' \in Stores /\ store'.metrics = store.metrics
    BY <1>1, Shut DEF CloseService
  <1> QED BY <1>1, <1>2, TasksStay

LEMMA KeyTyped ==
    ASSUME NEW q \in Requests, NEW n \in Orders
    PROVE  {[key |-> k, task |-> n] : k \in KeyOf(q)} \subseteq [key : UNION {KeyOf(r) : r \in Requests}, task : Orders]
OBVIOUS

\* A task starts with nothing done, what it found noted and its phrase typed.
LEMMA StartedFits ==
    ASSUME RequestAssumption, RequestsInv, NEW s \in Stores, s.metrics = store.metrics, NEW q \in Requests,
           slack' \in Slacks, slack'.omits = slack.omits, machine' = machine,
           q.kind = "cert" /\ "file" \in machine.there => Phrase(q) = "OVERWRITE",
           StartedWith(s, q, Phrase(q))
    PROVE  RequestsInv'
PROOF
  <1>1. machine \in Clients /\ machine' \in Clients
    BY DEF RequestsInv, RequestsTypeOK
  <1>2. CASE store' = s /\ order' = order
    BY <1>1, <1>2, TasksStay
  <1>3. CASE ~(store' = s /\ order' = order)
    <2>1. PICK n \in Orders :
              /\ order[n] = NoOrder
              /\ store' = [s EXCEPT !.locks = @ \cup {[key |-> k, task |-> n] : k \in KeyOf(q)},
                                    !.metrics = IF q.kind = "metrics" THEN "Loading" ELSE @,
                                    !.report = IF q.kind = "bug" THEN "Loading" ELSE @]
              /\ order' = [order EXCEPT ![n] = [step |-> "command", request |-> q, phrase |-> Phrase(q), verdict |-> "none",
                                                found |-> machine.there,
                                                before |-> machine, after |-> machine, read |-> machine]]
      <3>1. PICK free : free = {n \in Orders : order[n] = NoOrder}
        OBVIOUS
      <3>2. PICK n : n = CHOOSE m \in free : TRUE
        OBVIOUS
      <3>3. free # {}
        BY <1>3, <3>1 DEF StartedWith
      <3>4. n \in free
        BY <3>2, <3>3
      <3>5. /\ store' = [s EXCEPT !.locks = @ \cup {[key |-> k, task |-> n] : k \in KeyOf(q)},
                                  !.metrics = IF q.kind = "metrics" THEN "Loading" ELSE @,
                                  !.report = IF q.kind = "bug" THEN "Loading" ELSE @]
            /\ order' = [order EXCEPT ![n] = [step |-> "command", request |-> q, phrase |-> Phrase(q), verdict |-> "none",
                                              found |-> machine.there,
                                              before |-> machine, after |-> machine, read |-> machine]]
        BY <1>3, <3>1, <3>2 DEF StartedWith
      <3> QED BY <3>1, <3>4, <3>5
    <2>2. PICK t : t = [step |-> "command", request |-> q, phrase |-> Phrase(q), verdict |-> "none",
                        found |-> machine.there, before |-> machine, after |-> machine, read |-> machine]
      OBVIOUS
    <2>3. Phrase(q) \in Phrases
      <3>1. q.kind \in {"serve", "funnel", "publish", "remove", "unpublish", "serveReset", "funnelReset", "bug", "metrics",
                        "send", "share", "unshare", "cert", "receive"}
        BY RequestFields
      <3> QED BY <3>1 DEF Phrase, Phrases
    <2>4. t \in OrderTasks
      BY <1>1, <2>2, <2>3, ClientFields DEF OrderTasks
    <2>5. Within(q, machine, machine, Phrase(q))
      BY DEF Within
    <2>6. TaskFits(t, slack.omits)
      BY <2>2, <2>5 DEF TaskFits
    <2>7. order' = [order EXCEPT ![n] = t]
      BY <2>1, <2>2
    <2>8. PICK locks \in SUBSET [key : UNION {KeyOf(r) : r \in Requests}, task : Orders] :
              locks = s.locks \cup {[key |-> k, task |-> n] : k \in KeyOf(q)}
      BY KeyTyped, StoreFields
    <2>9. PICK metrics, report :
              /\ metrics = IF q.kind = "metrics" THEN "Loading" ELSE s.metrics
              /\ report = IF q.kind = "bug" THEN "Loading" ELSE s.report
      OBVIOUS
    <2>10. metrics \in {"Idle", "Loading", "Ready", "Failed"} /\ report \in {"Idle", "Loading", "Ready", "Failed"}
      BY <2>9 DEF Stores
    <2>11. store' = [s EXCEPT !.locks = locks, !.metrics = metrics, !.report = report]
      BY <2>1, <2>8, <2>9
    <2>12. store' \in Stores /\ store'.metrics = metrics
      BY <2>8, <2>10, <2>11 DEF Stores
    <2>13. MetricsAreRead(store', order')
      <3> SUFFICES ASSUME store'.metrics = "Loading"
                   PROVE  \E k \in Orders : order'[k] # NoOrder /\ order'[k].request.kind = "metrics" /\ order'[k].step # "ended"
        BY DEF MetricsAreRead
      <3>0. order'[n] = t /\ \A k \in Orders \ {n} : order'[k] = order[k]
        BY <2>7 DEF RequestsInv, RequestsTypeOK
      <3>1. CASE q.kind = "metrics"
        <4>1. t # NoOrder /\ t.request.kind = "metrics" /\ t.step # "ended"
          BY <2>2, <2>4, <3>1, TaskFields
        <4> QED BY <3>0, <4>1
      <3>2. CASE q.kind # "metrics"
        <4>1. PICK k \in Orders : order[k] # NoOrder /\ order[k].request.kind = "metrics" /\ order[k].step # "ended"
          BY <2>9, <2>12, <3>2 DEF RequestsInv, MetricsAreRead
        <4> QED BY <4>1, <3>0, <2>1
      <3> QED BY <3>1, <3>2
    <2> QED BY <1>1, <2>4, <2>6, <2>7, <2>12, <2>13, TaskMoves
  <1> QED BY <1>2, <1>3

LEMMA AskMetricsInv ==
    ASSUME RequestAssumption, RequestsInv, AskMetrics
    PROVE  RequestsInv'
PROOF
  <1>1. slack' \in Slacks /\ slack'.omits = slack.omits
    BY UsesOne DEF AskMetrics, RequestsInv, RequestsTypeOK
  <1>2. PICK q : q = [kind |-> "metrics"]
    OBVIOUS
  <1>3. q \in Requests /\ q.kind = "metrics"
    BY <1>2 DEF Requests
  <1>4. Phrase(q) = "none"
    BY <1>3 DEF Phrase
  <1>5. store \in Stores /\ machine' = machine /\ StartedWith(store, q, "none")
    BY <1>2 DEF AskMetrics, RequestsInv, RequestsTypeOK
  <1> QED BY <1>1, <1>3, <1>4, <1>5, StartedFits

LEMMA AcceptServiceInv ==
    ASSUME RequestAssumption, RequestsInv, AcceptService
    PROVE  RequestsInv'
PROOF
  <1>1. /\ slack \in Slacks /\ machine \in Clients /\ store \in Stores
        /\ slack' = slack /\ machine' = machine
    BY DEF AcceptService, RequestsInv, RequestsTypeOK
  <1>2. store.open \in Reviews
    BY <1>1, OpenIs DEF AcceptService
  <1>3. PICK q : q = store.open.request
    OBVIOUS
  <1>4. q \in Requests /\ store.open.phrase = Phrase(q)
    BY <1>2, <1>3 DEF Reviews
  <1>5. Closing \in Stores /\ Closing.metrics = store.metrics
    BY <1>1, Shut DEF Closing
  <1>6. CASE AskedAgain(q)
    <2>1. store' = Review(Closing, [q EXCEPT !.over = TRUE]) /\ order' = order
      BY <1>3, <1>6 DEF AcceptService
    <2>2. q \in [kind : {"cert", "receive"}, over : BOOLEAN]
      BY <1>4, <1>6 DEF AskedAgain, Requests
    <2>3. [q EXCEPT !.over = TRUE] \in Requests
      BY <2>2 DEF Requests
    <2> QED BY <1>1, <1>5, <2>1, <2>3, Reviewable, TasksStay
  <1>7. CASE ~AskedAgain(q)
    <2>1. StartedWith(Closing, q, Phrase(q))
      BY <1>3, <1>4, <1>7 DEF AcceptService
    <2>2. q.kind = "cert" /\ "file" \in machine.there => Phrase(q) = "OVERWRITE"
      BY <1>7 DEF AskedAgain, Phrase
    <2> QED BY <1>1, <1>4, <1>5, <2>1, <2>2, StartedFits
  <1> QED BY <1>6, <1>7

\* A task that has started and moves on.
LEMMA TaskDoing ==
    ASSUME RequestsInv, NEW n \in Orders, NEW step \in {"command", "verify", "served?", "sent"}, Doing(n, step)
    PROVE  order[n] \in OrderTasks /\ order[n] # NoOrder /\ TaskFits(order[n], slack.omits)
  BY DEF RequestsInv, RequestsTypeOK, Doing

LEMMA RunServiceCommandInv ==
    ASSUME RequestAssumption, RequestsInv, NEW n \in Orders, RunServiceCommand(n)
    PROVE  RequestsInv'
PROOF
  <1>1. PICK o : o = order[n]
    OBVIOUS
  <1>2. /\ o \in OrderTasks /\ o # NoOrder /\ TaskFits(o, slack.omits)
        /\ slack \in Slacks /\ machine \in Clients /\ store \in Stores /\ store' = store
    BY <1>1, TaskDoing DEF RunServiceCommand, RequestsInv, RequestsTypeOK
  <1>3. PICK q \in Requests : q = o.request
    BY <1>2, TaskFields
  <1>4. Effect(machine, q) \in Clients /\ Within(q, machine, Effect(machine, q), Phrase(q))
    BY <1>2, EffectWithin
  <1>5. Within(q, machine, machine, Phrase(q))
    BY DEF Within
  <1>6. ASSUME slack' \in Slacks, slack'.omits = slack.omits, NEW c \in Clients, machine' = c,
               Within(q, machine, c, Phrase(q)),
               NEW step \in {"sent", "verify"}, NEW verdict \in {"done", "failed", "verified"},
               verdict = "verified" => q.kind = "cert",
               order' = [order EXCEPT ![n].step = step, ![n].verdict = verdict, ![n].before = machine, ![n].after = c]
        PROVE  RequestsInv'
    <2>1. PICK t : t = [o EXCEPT !.step = step, !.verdict = verdict, !.before = machine, !.after = c]
      OBVIOUS
    <2>2. t \in OrderTasks
      BY <1>2, <1>6, <2>1 DEF OrderTasks
    <2>3. /\ t.step = step /\ t.verdict = verdict /\ t.before = machine /\ t.after = c
          /\ t.request = o.request /\ t.phrase = o.phrase /\ t.found = o.found
      BY <1>2, <2>1 DEF OrderTasks
    <2>4. TaskFits(t, slack.omits)
      BY <1>2, <1>3, <1>6, <2>3 DEF TaskFits
    <2>5. order' = [order EXCEPT ![n] = t]
      BY <1>1, <1>6, <2>1 DEF RequestsInv, RequestsTypeOK
    <2>6. MetricsAreRead(store', order')
      BY <1>1, <1>2, <1>6, <2>2, <2>3, <2>5, StillRead
    <2> QED BY <1>2, <1>6, <2>2, <2>4, <2>5, <2>6, TaskMoves
  <1>7. CASE /\ ~CannotRun(q) /\ machine' = Effect(machine, q)
             /\ order' = [order EXCEPT ![n].step = Follows(q).step, ![n].verdict = Follows(q).verdict,
                                       ![n].before = machine, ![n].after = machine']
             /\ UNCHANGED slack
    <2>1. PICK step, verdict : step = Follows(q).step /\ verdict = Follows(q).verdict
      OBVIOUS
    <2>2. /\ step \in {"sent", "verify"} /\ verdict \in {"done", "failed", "verified"}
          /\ verdict = "verified" => q.kind = "cert"
      BY <2>1 DEF Follows
    <2>3. order' = [order EXCEPT ![n].step = step, ![n].verdict = verdict, ![n].before = machine, ![n].after = Effect(machine, q)]
      BY <1>7, <2>1
    <2> QED BY <1>2, <1>4, <1>6, <1>7, <2>2, <2>3
  <1>8. CASE CannotRun(q) /\ Advances(n, "sent", "failed") /\ UNCHANGED <<slack, machine>>
    <2>1. PICK t : t = [o EXCEPT !.step = "sent", !.verdict = "failed"]
      OBVIOUS
    <2>2. t \in OrderTasks
      BY <1>2, <2>1 DEF OrderTasks
    <2>3. /\ t.step = "sent" /\ t.verdict = "failed" /\ t.before = o.before /\ t.after = o.after
          /\ t.request = o.request /\ t.phrase = o.phrase /\ t.found = o.found
      BY <1>2, <2>1 DEF OrderTasks
    <2>4. TaskFits(t, slack.omits)
      BY <1>2, <2>3 DEF TaskFits
    <2>5. order' = [order EXCEPT ![n] = t]
      BY <1>1, <1>8, <2>1 DEF Advances, RequestsInv, RequestsTypeOK
    <2>6. MetricsAreRead(store', order')
      BY <1>1, <1>2, <2>2, <2>3, <2>5, StillRead
    <2> QED BY <1>2, <1>8, <2>2, <2>4, <2>5, <2>6, TaskMoves
  <1>9. CASE /\ Uses("faults")
             /\ machine' \in {machine} \cup (IF CannotRun(q) THEN {} ELSE {Effect(machine, q)})
             /\ order' = [order EXCEPT ![n].step = "sent", ![n].verdict = "failed", ![n].before = machine, ![n].after = machine']
    <2>1. PICK c \in Clients : c = machine'
      BY <1>2, <1>4, <1>9
    <2>2. Within(q, machine, c, Phrase(q))
      BY <1>4, <1>5, <1>9, <2>1
    <2>3. slack' \in Slacks /\ slack'.omits = slack.omits
      BY <1>2, <1>9, UsesOne
    <2>4. order' = [order EXCEPT ![n].step = "sent", ![n].verdict = "failed", ![n].before = machine, ![n].after = c]
      BY <1>9, <2>1
    <2> QED BY <1>6, <2>1, <2>2, <2>3, <2>4
  <1> QED BY <1>1, <1>3, <1>7, <1>8, <1>9 DEF RunServiceCommand

\* A read of a list: what is verified is so of what was read.
LEMMA ReadBackInv ==
    ASSUME RequestAssumption, RequestsInv, NEW n \in Orders, ReadBack(n)
    PROVE  RequestsInv'
PROOF
  <1>1. PICK o : o = order[n]
    OBVIOUS
  <1>2. /\ o \in OrderTasks /\ o # NoOrder /\ TaskFits(o, slack.omits)
        /\ slack \in Slacks /\ machine \in Clients /\ store \in Stores /\ store' = store /\ machine' = machine
    BY <1>1, TaskDoing DEF ReadBack, RequestsInv, RequestsTypeOK
  <1>3. PICK q \in Requests : q = o.request
    BY <1>2, TaskFields
  <1>4. CASE Uses("faults") /\ Advances(n, "sent", "failed")
    <2>1. PICK t : t = [o EXCEPT !.step = "sent", !.verdict = "failed"]
      OBVIOUS
    <2>2. t \in OrderTasks
      BY <1>2, <2>1 DEF OrderTasks
    <2>3. /\ t.step = "sent" /\ t.verdict = "failed" /\ t.before = o.before /\ t.after = o.after
          /\ t.request = o.request /\ t.phrase = o.phrase /\ t.found = o.found
      BY <1>2, <2>1 DEF OrderTasks
    <2>4. TaskFits(t, slack.omits)
      BY <1>2, <2>3 DEF TaskFits
    <2>5. order' = [order EXCEPT ![n] = t]
      BY <1>1, <1>4, <2>1 DEF Advances, RequestsInv, RequestsTypeOK
    <2>6. MetricsAreRead(store', order')
      BY <1>1, <1>2, <2>2, <2>3, <2>5, StillRead
    <2>7. slack' \in Slacks /\ slack'.omits = slack.omits
      BY <1>2, <1>4, UsesOne
    <2> QED BY <1>2, <2>2, <2>4, <2>5, <2>6, <2>7, TaskMoves
  <1>5. CASE /\ order' = [order EXCEPT ![n].step = IF q.kind = "unpublish" THEN "served?" ELSE "sent",
                                       ![n].verdict = IF BearsOut(q, ListIn(machine, ListOf(q))) THEN "verified" ELSE "unverified",
                                       ![n].read = machine]
             /\ UNCHANGED slack
    <2>1. PICK step \in {"served?", "sent"}, verdict \in {"verified", "unverified"} :
              /\ step = IF q.kind = "unpublish" THEN "served?" ELSE "sent"
              /\ verdict = IF BearsOut(q, ListIn(machine, ListOf(q))) THEN "verified" ELSE "unverified"
      OBVIOUS
    <2>2. PICK t : t = [o EXCEPT !.step = step, !.verdict = verdict, !.read = machine]
      OBVIOUS
    <2>3. t \in OrderTasks
      BY <1>2, <2>1, <2>2 DEF OrderTasks
    <2>4. /\ t.step = step /\ t.verdict = verdict /\ t.before = o.before /\ t.after = o.after /\ t.read = machine
          /\ t.request = o.request /\ t.phrase = o.phrase /\ t.found = o.found
      BY <1>2, <2>2 DEF OrderTasks
    <2>5. verdict = "verified" => SoOf(q, machine, slack.omits)
      BY <1>2, <2>1, BorneOutIsSo
    <2>6. TaskFits(t, slack.omits)
      BY <1>2, <1>3, <2>4, <2>5 DEF TaskFits
    <2>7. order' = [order EXCEPT ![n] = t]
      BY <1>1, <1>5, <2>1, <2>2 DEF RequestsInv, RequestsTypeOK
    <2>8. MetricsAreRead(store', order')
      BY <1>1, <1>2, <2>1, <2>3, <2>4, <2>7, StillRead
    <2> QED BY <1>2, <1>5, <2>3, <2>6, <2>7, <2>8, TaskMoves
  <1> QED BY <1>1, <1>3, <1>4, <1>5 DEF ReadBack

LEMMA ReadServedInv ==
    ASSUME RequestAssumption, RequestsInv, NEW n \in Orders, ReadServed(n)
    PROVE  RequestsInv'
PROOF
  <1>1. PICK o : o = order[n]
    OBVIOUS
  <1>2. /\ o \in OrderTasks /\ o # NoOrder /\ TaskFits(o, slack.omits)
        /\ slack \in Slacks /\ machine \in Clients /\ store \in Stores /\ store' = store /\ machine' = machine
    BY <1>1, TaskDoing DEF ReadServed, RequestsInv, RequestsTypeOK
  <1>3. PICK verdict \in {o.verdict, "unverified", "failed"} :
            Advances(n, "sent", verdict) /\ slack' \in Slacks /\ slack'.omits = slack.omits
    BY <1>1, <1>2, UsesOne DEF ReadServed
  <1>4. PICK t : t = [o EXCEPT !.step = "sent", !.verdict = verdict]
    OBVIOUS
  <1>5. t \in OrderTasks
    BY <1>2, <1>3, <1>4 DEF OrderTasks
  <1>6. /\ t.step = "sent" /\ t.verdict = verdict /\ t.before = o.before /\ t.after = o.after /\ t.read = o.read
        /\ t.request = o.request /\ t.phrase = o.phrase /\ t.found = o.found
    BY <1>2, <1>4 DEF OrderTasks
  <1>7. TaskFits(t, slack.omits)
    BY <1>2, <1>3, <1>6 DEF TaskFits
  <1>8. order' = [order EXCEPT ![n] = t]
    BY <1>1, <1>3, <1>4 DEF Advances, RequestsInv, RequestsTypeOK
  <1>9. MetricsAreRead(store', order')
    BY <1>1, <1>2, <1>5, <1>6, <1>8, StillRead
  <1> QED BY <1>2, <1>3, <1>5, <1>7, <1>8, <1>9, TaskMoves

\* The lists that are read back are those of the reducer.
LEMMA ListShown ==
    ASSUME RequestAssumption, NEW s \in Stores, NEW q \in Requests, NEW c \in Clients
    PROVE  /\ [s EXCEPT ![ListOf(q)] = ListIn(c, ListOf(q))] \in Stores
           /\ [s EXCEPT ![ListOf(q)] = ListIn(c, ListOf(q))].metrics = s.metrics
PROOF
  <1>1. PICK list \in {"serve", "funnel", "shares"} : list = ListOf(q)
    BY DEF ListOf
  <1>2. PICK rows : rows = ListIn(c, list)
    OBVIOUS
  <1>3. CASE list = "serve"
    <2>1. rows \in SUBSET MappingsOf(FALSE)
      BY <1>2, <1>3, ListedIsTyped DEF ListIn
    <2> QED BY <1>1, <1>2, <1>3, <2>1 DEF Stores
  <1>4. CASE list = "funnel"
    <2>1. rows \in SUBSET MappingsOf(TRUE)
      BY <1>2, <1>4, ListedIsTyped DEF ListIn
    <2> QED BY <1>1, <1>2, <1>4, <2>1 DEF Stores
  <1>5. CASE list = "shares"
    <2>1. rows \in SUBSET ShareNames
      BY <1>2, <1>5, ClientFields DEF ListIn
    <2> QED BY <1>1, <1>2, <1>5, <2>1 DEF Stores
  <1> QED BY <1>3, <1>4, <1>5

LEMMA ReleasedFits ==
    ASSUME store \in Stores, NEW q \in Requests, NEW n \in Orders, NEW verdict
    PROVE  /\ Released(q, n, verdict) \in Stores
           /\ Released(q, n, verdict).metrics = IF q.kind = "metrics" THEN SectionAfter(store.metrics, verdict) ELSE store.metrics
PROOF
  <1>1. PICK locks \in SUBSET [key : UNION {KeyOf(r) : r \in Requests}, task : Orders] : locks = {l \in store.locks : l.task # n}
    BY StoreFields
  <1>2. store.metrics \in {"Idle", "Loading", "Ready", "Failed"} /\ store.report \in {"Idle", "Loading", "Ready", "Failed"}
    BY DEF Stores
  <1>3. PICK metrics \in {"Idle", "Loading", "Ready", "Failed"} :
            metrics = IF q.kind = "metrics" THEN SectionAfter(store.metrics, verdict) ELSE store.metrics
    BY <1>2 DEF SectionAfter
  <1>4. PICK report \in {"Idle", "Loading", "Ready", "Failed"} :
            report = IF q.kind = "bug" THEN SectionAfter(store.report, verdict) ELSE store.report
    BY <1>2 DEF SectionAfter
  <1>5. Released(q, n, verdict) = [store EXCEPT !.locks = locks, !.metrics = metrics, !.report = report]
    BY <1>1, <1>3, <1>4 DEF Released
  <1>6. [store EXCEPT !.locks = locks, !.metrics = metrics, !.report = report] \in Stores
    BY DEF Stores
  <1>7. [store EXCEPT !.locks = locks, !.metrics = metrics, !.report = report].metrics = metrics
    BY DEF Stores
  <1> QED BY <1>3, <1>5, <1>6, <1>7

LEMMA FinishOrderInv ==
    ASSUME RequestAssumption, RequestsInv, NEW n \in Orders, FinishOrder(n)
    PROVE  RequestsInv'
PROOF
  <1>1. PICK o : o = order[n]
    OBVIOUS
  <1>2. /\ o \in OrderTasks /\ o # NoOrder /\ TaskFits(o, slack.omits)
        /\ slack \in Slacks /\ machine \in Clients /\ store \in Stores /\ slack' = slack /\ machine' = machine
    BY <1>1, TaskDoing DEF FinishOrder, RequestsInv, RequestsTypeOK
  <1>3. PICK q \in Requests : q = o.request
    BY <1>2, TaskFields
  <1>4. PICK s : s = Released(q, n, o.verdict)
    OBVIOUS
  <1>5. /\ s \in Stores
        /\ s.metrics = IF q.kind = "metrics" THEN SectionAfter(store.metrics, o.verdict) ELSE store.metrics
    BY <1>2, <1>4, ReleasedFits
  <1>10. store' = s \/ store' = [s EXCEPT ![ListOf(q)] = ListIn(o.read, ListOf(q))]
    BY <1>1, <1>3, <1>4 DEF FinishOrder
  <1>11. store' \in Stores /\ store'.metrics = s.metrics
    <2>1. o.read \in Clients
      BY <1>2, TaskFields
    <2>2. /\ [s EXCEPT ![ListOf(q)] = ListIn(o.read, ListOf(q))] \in Stores
          /\ [s EXCEPT ![ListOf(q)] = ListIn(o.read, ListOf(q))].metrics = s.metrics
      BY <1>5, <2>1, ListShown
    <2> QED BY <1>5, <1>10, <2>2
  <1>12. PICK t : t = [o EXCEPT !.step = "ended"]
    OBVIOUS
  <1>13. t \in OrderTasks
    BY <1>2, <1>12 DEF OrderTasks
  <1>14. /\ t.step = "ended" /\ t.verdict = o.verdict /\ t.before = o.before /\ t.after = o.after /\ t.read = o.read
         /\ t.request = o.request /\ t.phrase = o.phrase /\ t.found = o.found
    BY <1>2, <1>12 DEF OrderTasks
  <1>15. TaskFits(t, slack.omits)
    BY <1>2, <1>14 DEF TaskFits
  <1>16. order' = [order EXCEPT ![n] = t]
    <2>1. Advances(n, "ended", o.verdict)
      BY <1>1 DEF FinishOrder
    <2>2. [o EXCEPT !.step = "ended", !.verdict = o.verdict] = t
      BY <1>2, <1>12 DEF OrderTasks
    <2>3. order' = [order EXCEPT ![n] = [o EXCEPT !.step = "ended", !.verdict = o.verdict]]
      BY <1>1, <2>1 DEF Advances, RequestsInv, RequestsTypeOK
    <2> QED BY <2>2, <2>3
  <1>17. MetricsAreRead(store', order')
    <2> SUFFICES ASSUME s.metrics = "Loading"
                 PROVE  \E k \in Orders : order'[k] # NoOrder /\ order'[k].request.kind = "metrics" /\ order'[k].step # "ended"
      BY <1>11 DEF MetricsAreRead
    <2>1. q.kind # "metrics" /\ store.metrics = "Loading"
      BY <1>5 DEF SectionAfter
    <2>2. PICK k \in Orders : order[k] # NoOrder /\ order[k].request.kind = "metrics" /\ order[k].step # "ended"
      BY <2>1 DEF RequestsInv, MetricsAreRead
    <2>3. k # n
      BY <2>1, <2>2, <1>1, <1>3
    <2>4. order'[k] = order[k]
      BY <1>16, <2>3 DEF RequestsInv, RequestsTypeOK
    <2> QED BY <2>2, <2>4
  <1> QED BY <1>2, <1>11, <1>13, <1>15, <1>16, <1>17, TaskMoves

\* What the reducer is told, and where the user goes.
LEMMA ListsArriveInv ==
    ASSUME RequestAssumption, RequestsInv, ListsArrive
    PROVE  RequestsInv'
PROOF
  <1>1. slack \in Slacks /\ machine \in Clients /\ store \in Stores /\ slack' = slack /\ machine' = machine /\ order' = order
    BY DEF ListsArrive, RequestsInv, RequestsTypeOK
  <1>2. PICK serve \in SUBSET MappingsOf(FALSE) : serve = IF "serve" \in slack.caps THEN ListedBy(machine, FALSE) ELSE {}
    BY <1>1, ListedIsTyped
  <1>3. PICK funnel \in SUBSET MappingsOf(TRUE) : funnel = IF "funnel" \in slack.caps THEN ListedBy(machine, TRUE) ELSE {}
    BY <1>1, ListedIsTyped
  <1>4. machine.shares \in SUBSET ShareNames /\ machine.targets \in SUBSET Targets
    BY <1>1, ClientFields
  <1>5. store' = [store EXCEPT !.serve = serve, !.funnel = funnel, !.shares = machine.shares, !.targets = machine.targets,
                               !.domains = "Loading"]
    BY <1>2, <1>3 DEF ListsArrive
  <1>6. store' \in Stores /\ store'.metrics = store.metrics
    BY <1>1, <1>2, <1>3, <1>4, <1>5 DEF Stores
  <1> QED BY <1>1, <1>6, TasksStay

LEMMA StoreStepsInv ==
    ASSUME RequestsInv, StatusArrives \/ CommandMissed \/ SelectRow \/ DeviceMoves
    PROVE  RequestsInv'
PROOF
  <1>1. slack \in Slacks /\ machine \in Clients /\ store \in Stores /\ machine' = machine /\ order' = order
    BY DEF StatusArrives, CommandMissed, SelectRow, DeviceMoves, RequestsInv, RequestsTypeOK
  <1>2. slack' \in Slacks /\ slack'.omits = slack.omits
    BY <1>1, UsesOne DEF StatusArrives, CommandMissed, SelectRow, DeviceMoves
  <1>3. store' \in Stores /\ store'.metrics = store.metrics
    <2>1. CASE StatusArrives
      BY <1>1, <2>1 DEF StatusArrives, Stores
    <2>2. CASE CommandMissed
      BY <1>1, <2>2 DEF CommandMissed, Stores
    <2>3. CASE SelectRow
      <3>1. PICK i \in 1..Cardinality(Table(store)) : store' = [store EXCEPT !.selected = i]
        BY <2>3 DEF SelectRow
      <3>2. i \in Nat
        BY <3>1
      <3> QED BY <1>1, <3>1, <3>2 DEF Stores
    <2>4. CASE DeviceMoves
      <3>1. store.device \in {1, 2}
        BY <1>1, StoreFields DEF Targets
      <3>2. PICK device \in Targets : device = 3 - store.device
        BY <3>1 DEF Targets
      <3>3. store' = [store EXCEPT !.device = device]
        BY <2>4, <3>2 DEF DeviceMoves
      <3> QED BY <1>1, <3>2, <3>3 DEF Stores
    <2> QED BY <2>1, <2>2, <2>3, <2>4
  <1> QED BY <1>1, <1>2, <1>3, TasksStay

\* Other hands leave a client that could be one.
LEMMA OthersChangeInv ==
    ASSUME RequestAssumption, RequestsInv, OthersChange
    PROVE  RequestsInv'
PROOF
  <1>1. slack \in Slacks /\ machine \in Clients /\ store \in Stores /\ store' = store /\ order' = order
    BY DEF OthersChange, RequestsInv, RequestsTypeOK
  <1>2. slack' \in Slacks /\ slack'.omits = slack.omits
    BY <1>1, UsesOne DEF OthersChange
  <1>3. ASSUME NEW p \in Here, NEW h \in {t.handler : t \in slack.typed} \cup {Nowhere},
               h = Nowhere \/ ServableAt(h, p),
               LET then == [machine.handler EXCEPT ![p] = h] IN
               machine' = [machine EXCEPT !.handler = then, !.public = @ \cap PortsOf(then)]
        PROVE  machine' \in Clients
    <2>1. h \in Handlers \cup {Nowhere}
      BY <1>1, <1>3 DEF Slacks
    <2>2. PICK then : then = [machine.handler EXCEPT ![p] = h]
      OBVIOUS
    <2>3. then \in [Here -> Handlers \cup {Nowhere}] /\ \A r \in Here : then[r] = Nowhere \/ ServableAt(then[r], r)
      BY <1>1, <1>3, <2>1, <2>2, ClientFields
    <2>4. PICK pub \in SUBSET PortsOf(then) : pub = machine.public \cap PortsOf(then)
      OBVIOUS
    <2>5. machine' = [machine EXCEPT !.handler = then, !.public = pub]
      BY <1>3, <2>2, <2>4
    <2> QED BY <1>1, <2>3, <2>4, <2>5, Reconfigured
  <1>4. ASSUME NEW port \in {p[1] : p \in {q \in Here : machine.handler[q].kind \notin {"none", "http"}}},
               machine' = [machine EXCEPT !.public = IF port \in @ THEN @ \ {port} ELSE @ \cup {port}]
        PROVE  machine' \in Clients
    <2>1. PICK p \in Here : port = p[1] /\ machine.handler[p].kind \notin {"none", "http"}
      OBVIOUS
    <2>2. machine.handler[p] # Nowhere
      BY <2>1 DEF Nowhere
    <2>3. machine.handler \in [Here -> Handlers \cup {Nowhere}]
      BY <1>1, ClientFields
    <2>4. port \in PortsOf(machine.handler)
      BY <2>1, <2>2, <2>3, ServedPorts
    <2>5. machine.public \subseteq PortsOf(machine.handler)
      BY <1>1 DEF Clients
    <2>6. PICK pub \in SUBSET PortsOf(machine.handler) :
              pub = IF port \in machine.public THEN machine.public \ {port} ELSE machine.public \cup {port}
      BY <2>4, <2>5
    <2>7. machine' = [machine EXCEPT !.handler = machine.handler, !.public = pub]
      BY <1>1, <1>4, <2>6, ClientFields
    <2> QED BY <1>1, <2>3, <2>6, <2>7, Reconfigured, ClientFields
  <1>5. ASSUME NEW shares \in SUBSET ShareNames, NEW targets \in SUBSET Targets, NEW there \in SUBSET {"file", "folder"},
               machine' = [machine EXCEPT !.shares = shares, !.targets = targets, !.there = there]
        PROVE  machine' \in Clients
    <2>1. machine' \in [handler : [Here -> Handlers \cup {Nowhere}], public : SUBSET HerePorts, shares : SUBSET ShareNames,
                        targets : SUBSET Targets, there : SUBSET {"file", "folder"}]
      BY <1>1, <1>5, ClientFields
    <2>2. machine'.handler = machine.handler /\ machine'.public = machine.public
      BY <1>1, <1>5, ClientFields
    <2> QED BY <1>1, <2>1, <2>2 DEF Clients
  <1>6. machine.shares \in SUBSET ShareNames /\ machine.targets \in SUBSET Targets /\ machine.there \in SUBSET {"file", "folder"}
    BY <1>1, ClientFields
  <1>7. ASSUME NEW f \in {"file", "folder"},
               machine' = [machine EXCEPT !.there = IF f \in @ THEN @ \ {f} ELSE @ \cup {f}]
        PROVE  machine' \in Clients
    <2>1. PICK there \in SUBSET {"file", "folder"} : there = IF f \in machine.there THEN machine.there \ {f} ELSE machine.there \cup {f}
      BY <1>6
    <2>2. machine' = [machine EXCEPT !.shares = machine.shares, !.targets = machine.targets, !.there = there]
      BY <1>1, <1>7, <2>1, ClientFields
    <2> QED BY <1>5, <1>6, <2>1, <2>2
  <1>8. ASSUME NEW t \in machine.targets, machine' = [machine EXCEPT !.targets = @ \ {t}] PROVE machine' \in Clients
    <2>1. PICK targets \in SUBSET Targets : targets = machine.targets \ {t}
      BY <1>6
    <2>2. machine' = [machine EXCEPT !.shares = machine.shares, !.targets = targets, !.there = machine.there]
      BY <1>1, <1>8, <2>1, ClientFields
    <2> QED BY <1>5, <1>6, <2>1, <2>2
  <1>9. ASSUME machine' = [machine EXCEPT !.shares = IF "docs" \in @ THEN @ \ {"docs"} ELSE @ \cup {"docs"}]
        PROVE  machine' \in Clients
    <2>1. PICK shares \in SUBSET ShareNames :
              shares = IF "docs" \in machine.shares THEN machine.shares \ {"docs"} ELSE machine.shares \cup {"docs"}
      BY <1>6 DEF ShareNames
    <2>2. machine' = [machine EXCEPT !.shares = shares, !.targets = machine.targets, !.there = machine.there]
      BY <1>1, <1>9, <2>1, ClientFields
    <2> QED BY <1>5, <1>6, <2>1, <2>2
  <1>10. machine' \in Clients
    BY <1>3, <1>4, <1>7, <1>8, <1>9 DEF OthersChange
  <1> QED BY <1>1, <1>2, <1>10, TasksStay

LEMMA RequestsNextInv ==
    ASSUME RequestAssumption, RequestsInv, [RequestsNext]_requestVars
    PROVE  RequestsInv'
PROOF
  <1>1. CASE UNCHANGED requestVars
    BY <1>1 DEF requestVars, RequestsInv, RequestsTypeOK, MetricsAreRead
  <1>2. CASE \E k \in DOMAIN Capability : AskService(k)
    BY <1>2, AskServiceInv
  <1>3. CASE AskMetrics \/ AcceptServiceForm \/ CloseService \/ AcceptService
    BY <1>3, AskMetricsInv, AcceptServiceFormInv, CloseServiceInv, AcceptServiceInv
  <1>4. CASE \E n \in Orders : RunServiceCommand(n) \/ ReadBack(n) \/ ReadServed(n) \/ FinishOrder(n)
    BY <1>4, RunServiceCommandInv, ReadBackInv, ReadServedInv, FinishOrderInv
  <1>5. CASE ListsArrive \/ StatusArrives \/ CommandMissed \/ SelectRow \/ DeviceMoves \/ OthersChange
    BY <1>5, ListsArriveInv, StoreStepsInv, OthersChangeInv
  <1> QED BY <1>1, <1>2, <1>3, <1>4, <1>5 DEF RequestsNext

\* Requests, tasks and the client keep their types: a mapping that is asked
\* for has a place, what has no mounts is at the root, and a port is public
\* only while something is served on it (domain/service.rs,
\* ServiceMapping::validate).
THEOREM RequestsTypeCorrect == RequestsSpec => []RequestsTypeOK
PROOF
  <1>1. RequestsInit => RequestsInv
    BY RequestAssumption, RequestsInitInv
  <1>2. RequestsInv /\ [RequestsNext]_requestVars => RequestsInv'
    BY RequestAssumption, RequestsNextInv
  <1>3. RequestsInv => RequestsTypeOK
    BY DEF RequestsInv
  <1> QED BY <1>1, <1>2, <1>3, PTL DEF RequestsSpec

\* A service task keeps to the address, the port and the share that were
\* confirmed, says it verified only what it read, overwrites only what
\* OVERWRITE was typed for, and leaves no section loading (runtime.rs
\* run_service_task, local/services.rs mapping_off_command).
THEOREM TasksDoAsConfirmed == RequestsSpec => []RequestsDoAsConfirmed
PROOF
  <1>1. RequestsInit => RequestsInv
    BY RequestAssumption, RequestsInitInv
  <1>2. RequestsInv /\ [RequestsNext]_requestVars => RequestsInv'
    BY RequestAssumption, RequestsNextInv
  <1>3. RequestsInv => RequestsDoAsConfirmed
    BY FitsIsConfirmed
  <1> QED BY <1>1, <1>2, <1>3, PTL DEF RequestsSpec

=============================================================================
