------------------------- MODULE AdminBatchesProofs ------------------------
(***************************************************************************)
(* More proofs about AdminWrites: what is written was read again and       *)
(* reviewed, whole batches at a time; a write is sent once; locks are held *)
(* for somebody; and an ended batch has answered for all its children.     *)
(* They rest on the invariant of AdminWritesProofs.                        *)
(***************************************************************************)
EXTENDS AdminWritesProofs

-----------------------------------------------------------------------------
(* The inductive invariant *)

\* In a review, or past it.
Reviewing == {"shown"} \cup Writing

\* What was compared with the form before it got here.
ReadSame == \A i \in Ids : stage[i] \in {"ready"} \cup Reviewing => request[i].read = "same"

WrittenAsDispatched == \A i \in InFlight : request[i].state = "Dispatching"

\* The preflights of a batch are gathered together, or given up together.
GatheredOrAborted ==
    \A i \in Ids :
        /\ stage[i] \in Answering /\ request[i].parent # 0 =>
             request[i].parent \in gathering \/ i \in aborted
        /\ stage[i] = "ready" => request[i].parent \in gathering

\* A batch is gathered in the profile it was asked for.
GatheredHere == \A p \in gathering : \A i \in Children(p) : request[i].profile = profile

\* Once one child is reviewed, all of them were read and found the same.
BatchesReadWhole ==
    \A i \in Ids : stage[i] \in Reviewing /\ request[i].parent # 0 =>
        \A j \in Children(request[i].parent) :
            stage[j] \in Reviewing \cup {"over"} /\ request[j].read = "same"

\* A review shows a single change, or all children of a batch, not yet written.
Shows(o) ==
    /\ o.what = "change" => o.id \in Ids /\ stage[o.id] = "shown" /\ request[o.id].parent = 0
    /\ o.what = "batch"  => o.id \in Ids /\ \A i \in Children(o.id) : stage[i] = "shown"

ReviewsAreShown == \A n \in DOMAIN overlays : Shows(overlays[n])

\* Nothing is under review twice.
ReviewsDiffer ==
    \A n, m \in DOMAIN overlays :
        n # m /\ overlays[n].what = overlays[m].what /\ overlays[n].what # "form" =>
            overlays[n].id # overlays[m].id

SentIsGone == \A i \in sent : stage[i] \in {"sent", "answered", "over"}

ReviewInv == /\ ReadSame /\ WrittenAsDispatched
             /\ GatheredOrAborted /\ GatheredHere /\ BatchesReadWhole
             /\ ReviewsAreShown /\ ReviewsDiffer
             /\ SentIsGone

-----------------------------------------------------------------------------
(* The roads a request can take *)

\* From the preflight to the review, the write and the answer; nothing turns back.
Roads == {<<"unused", "reading">>, <<"unused", "stranded">>, <<"reading", "read">>,
          <<"read", "ready">>, <<"read", "shown">>, <<"read", "over">>,
          <<"ready", "shown">>, <<"ready", "over">>,
          <<"shown", "starting">>, <<"shown", "pending">>, <<"shown", "over">>,
          <<"pending", "starting">>, <<"pending", "over">>,
          <<"starting", "sent">>, <<"starting", "answered">>,
          <<"sent", "answered">>, <<"answered", "over">>}

\* One request in one step: it stays as it is or takes a road.  Its read is
\* written by the preflight alone, only an equal one goes on, and what starts is
\* dispatched.
Takes(i) ==
    \/ stage'[i] = stage[i] /\ request'[i] = request[i]
    \/ /\ <<stage[i], stage'[i]>> \in Roads
       /\ stage[i] \notin {"unused", "reading"} => request'[i].read = request[i].read
       /\ stage'[i] \in {"ready", "shown"} => request[i].read = "same"
       /\ stage'[i] = "starting" => request'[i].state = "Dispatching"
       /\ stage'[i] \in {"sent", "answered"} => request'[i] = request[i]

TakesRoads == \A i \in Ids : Takes(i)

\* A preflight is handled by letting the request through or ending it; of its
\* batch, only those that are ready go with it.
LEMMA HandleTakes ==
    ASSUME TypeOK, ReadSame, NEW i \in Ids, HandlePreflight(i)
    PROVE  TakesRoads
<1>1. stage[i] = "read" /\ request[i] \in Requests
  BY DEF HandlePreflight, DropPreflight, RejectChange, ReviewChange, RefuseReview, RejectBatch,
         CollectBatch, TypeOK
<1>2. ASSUME request' = Awaiting(i)
      PROVE  /\ request'[i].read = request[i].read
             /\ \A j \in Ids \ {i} : request'[j] = request[j]
  BY <1>1, <1>2 DEF Awaiting, TypeOK, Requests
<1>3. CASE UNCHANGED request /\ stage' = [stage EXCEPT ![i] = "over"]
  BY <1>1, <1>3 DEF TakesRoads, Takes, Roads, TypeOK
<1>4. CASE ReviewChange(i)
  <2>1. request' = Awaiting(i) /\ stage' = [stage EXCEPT ![i] = "shown"] /\ request[i].read = "same"
    BY <1>4 DEF ReviewChange, Unchanged
  <2> QED
    BY <1>1, <1>2, <2>1 DEF TakesRoads, Takes, Roads, TypeOK
<1>5. CASE RejectBatch(i)
  <2>1. /\ UNCHANGED request
        /\ \A j \in Ids : stage'[j] = IF j = i \/ (j \in Children(request[i].parent) /\ stage[j] = "ready")
                                      THEN "over" ELSE stage[j]
    BY <1>5 DEF RejectBatch
  <2> QED
    BY <1>1, <2>1 DEF TakesRoads, Takes, Roads
<1>6. CASE CollectBatch(i)
  <2>1. request' = Awaiting(i) /\ request[i].read = "same"
    BY <1>6 DEF CollectBatch, Unchanged
  <2>2. CASE stage' = [stage EXCEPT ![i] = "ready"]
    BY <1>1, <1>2, <2>1, <2>2 DEF TakesRoads, Takes, Roads, TypeOK
  <2>3. CASE /\ \A j \in Children(request[i].parent) \ {i} : stage[j] = "ready"
             /\ stage' = [j \in Ids |-> IF j \in Children(request[i].parent) THEN "shown" ELSE stage[j]]
    <3>1. i \in Children(request[i].parent)
      BY <1>1 DEF Children
    <3>2. \A j \in Children(request[i].parent) \ {i} : j \in Ids /\ request[j].read = "same"
      BY <2>3 DEF ReadSame, Children
    <3>3. Takes(i)
      BY <1>1, <1>2, <2>1, <2>3, <3>1 DEF Takes, Roads
    <3>4. \A j \in Ids \ {i} : Takes(j)
      BY <1>2, <2>1, <2>3, <3>2 DEF Takes, Roads
    <3> QED
      BY <3>3, <3>4 DEF TakesRoads
  <2> QED
    BY <1>6, <2>2, <2>3 DEF CollectBatch
<1> QED
  BY <1>3, <1>4, <1>5, <1>6 DEF HandlePreflight, DropPreflight, RejectChange, RefuseReview

\* New requests are read or stranded.
LEMMA AskTakes ==
    ASSUME TypeOK, UnusedIds, NEW S \in SUBSET Targets, NEW where \in {"reading", "stranded"},
           Room, Ask(S, where)
    PROVE  TakesRoads
<1>1. \A t \in S : nextId + t \in Ids /\ stage[nextId + t] = "unused"
  BY WritesAssumption DEF UnusedIds, Ids, TypeOK, Room, Targets
<1>2. \A i \in Ids : stage'[i] = IF \E t \in S : i = nextId + t THEN where ELSE stage[i]
  BY DEF Ask
<1>3. \A i \in Ids : ~ (\E t \in S : i = nextId + t) => request'[i] = request[i]
  BY DEF Ask
<1> QED
  BY <1>1, <1>2, <1>3 DEF TakesRoads, Takes, Roads

\* The same when only the first advertisers of a batch are asked.
LEMMA BatchAskTakes ==
    ASSUME TypeOK, UnusedIds, NEW T \in SUBSET Targets, NEW accepting, Room,
           \/ AskAll(T, accepting)
           \/ AskSome(T, accepting)
           \/ AskNone(T, accepting)
    PROVE  TakesRoads
<1>1. CASE AskAll(T, accepting)
  BY <1>1, AskTakes DEF AskAll
<1>2. CASE AskSome(T, accepting)
  <2>1. Before(T, T \ accepting) \in SUBSET Targets
    BY DEF Before
  <2> QED
    BY <1>2, <2>1, AskTakes DEF AskSome
<1>3. CASE AskNone(T, accepting)
  BY <1>3 DEF AskNone, flow, TakesRoads, Takes
<1> QED
  BY <1>1, <1>2, <1>3

\* A single request takes the next id.
LEMMA OneTakes ==
    ASSUME TypeOK, UnusedIds, NEW r, nextId \in Ids,
           request' = [request EXCEPT ![nextId] = r],
           stage' = [stage EXCEPT ![nextId] = "reading"]
    PROVE  TakesRoads
<1>1. stage[nextId] = "unused"
  BY DEF UnusedIds, TypeOK, Ids
<1> QED
  BY <1>1 DEF TakesRoads, Takes, Roads, TypeOK

\* What is dispatched has that state, and the read it had.
LEMMA DispatchedReads ==
    ASSUME TypeOK, NEW D \in SUBSET Ids, \A i \in D : stage[i] # "unused", request' = Dispatched(D)
    PROVE  \A i \in Ids : IF i \in D THEN request'[i].state = "Dispatching" /\ request'[i].read = request[i].read
                                     ELSE request'[i] = request[i]
BY DEF Dispatched, TypeOK, Requests

\* What the top of the overlays shows is under review.
LEMMA TopIsShown ==
    ASSUME TypeOK, ReviewsAreShown, overlays # <<>>
    PROVE  Shows(Top) /\ Top \in Overlays /\ Top = overlays[Len(overlays)] /\ Len(overlays) \in DOMAIN overlays
BY DEF TypeOK, ReviewsAreShown, Top

\* Confirming starts, or lets wait, what was under review.
LEMMA ConfirmTakes ==
    ASSUME TypeOK, ReviewsAreShown, ConfirmChange \/ ConfirmBatch
    PROVE  TakesRoads
<1>1. CASE ConfirmChange
  <2>1. PICK i \in Ids : i = Top.id /\ stage[i] = "shown"
    BY <1>1, TopIsShown DEF ConfirmChange, OnTop, Shows
  <2>2. request' = Dispatched({i}) /\ stage' = [stage EXCEPT ![i] = "starting"]
    BY <1>1, <2>1 DEF ConfirmChange
  <2>3. \A j \in Ids : IF j = i THEN request'[j].state = "Dispatching" /\ request'[j].read = request[j].read
                                ELSE request'[j] = request[j]
    BY <2>1, <2>2, DispatchedReads
  <2> QED
    BY <2>1, <2>2, <2>3 DEF TakesRoads, Takes, Roads, TypeOK
<1>2. CASE ConfirmBatch
  <2> DEFINE C == Children(Top.id)
  <2>1. \A j \in C : j \in Ids /\ stage[j] = "shown"
    BY <1>2, TopIsShown DEF ConfirmBatch, OnTop, Shows, Children
  <2>2. /\ request' = Dispatched(First(C))
        /\ stage' = [j \in Ids |-> IF j \in First(C) THEN "starting"
                                   ELSE IF j \in C THEN "pending" ELSE stage[j]]
    BY <1>2 DEF ConfirmBatch
  <2>3. First(C) \subseteq C
    BY DEF First
  <2> HIDE DEF C
  <2>4. \A j \in Ids : IF j \in First(C) THEN request'[j].state = "Dispatching" /\ request'[j].read = request[j].read
                                         ELSE request'[j] = request[j]
    BY <2>1, <2>2, <2>3, DispatchedReads
  <2> QED
    BY <2>1, <2>2, <2>3, <2>4 DEF TakesRoads, Takes, Roads
<1> QED
  BY <1>1, <1>2

\* Every step takes the requests down their roads.
LEMMA TakesStep ==
    ASSUME TypeOK, UnusedIds, ReadSame, ReviewsAreShown, [Next]_vars
    PROVE  TakesRoads
<1>1. CASE \/ \E kind \in {"full", "devices"} : StartRefresh(kind)
           \/ \E kind \in (Changes \ {"Delete"}) \cup {"Routes"} : OpenForm(kind)
           \/ FailRefresh \/ RefuseOutdated \/ RefuseStale \/ Tick
           \/ \E other \in Profiles : SwitchProfile(other)
           \/ \E i \in Ids : EndTask(i) \/ RetryBatch(i)
           \/ UNCHANGED vars
  <2>1. UNCHANGED <<request, stage>>
    BY <1>1 DEF StartRefresh, OpenForm, FailRefresh, RefuseOutdated, RefuseStale, Tick,
       SwitchProfile, EndTask, RetryBatch, vars, flow
  <2> QED
    BY <2>1 DEF TakesRoads, Takes
<1>2. CASE Discard
  <2>1. UNCHANGED request /\ \A i \in Ids : stage'[i] = stage[i] \/ (stage[i] = "shown" /\ stage'[i] = "over")
    BY <1>2, TopIsShown DEF Discard, NoOverlay, Shows
  <2> QED
    BY <2>1 DEF TakesRoads, Takes, Roads
<1>3. ASSUME NEW kind \in Changes, NEW t \in Targets, StartChange(kind, t) PROVE TakesRoads
  <2>1. nextId \in Ids
    BY <1>3 DEF StartChange, TypeOK, Ids
  <2> QED
    BY <1>3, <2>1, OneTakes DEF StartChange
<1>4. ASSUME NEW accepting \in Replacements, StartBatch(accepting) PROVE TakesRoads
  BY <1>4, BatchAskTakes DEF StartBatch
<1>5. ASSUME NEW i \in Ids, NEW found \in {"same", "changed", "failed"}, ReadPreflight(i, found)
      PROVE  TakesRoads
  <2>1. /\ stage[i] = "reading" /\ stage' = [stage EXCEPT ![i] = "read"]
        /\ \A j \in Ids \ {i} : request'[j] = request[j]
    BY <1>5 DEF ReadPreflight, TypeOK
  <2> QED
    BY <2>1 DEF TakesRoads, Takes, Roads, TypeOK
<1>6. ASSUME NEW i \in Ids, Work(i) PROVE TakesRoads
  <2>1. /\ UNCHANGED request
        /\ \/ stage[i] = "starting" /\ stage' = [stage EXCEPT ![i] = "answered"]
           \/ stage[i] = "starting" /\ stage' = [stage EXCEPT ![i] = "sent"]
           \/ stage[i] = "sent" /\ stage' = [stage EXCEPT ![i] = "answered"]
    BY <1>6 DEF Work, FailUnsent, SendWrite, Verify
  <2> QED
    BY <2>1 DEF TakesRoads, Takes, Roads, TypeOK
<1>7. ASSUME NEW i \in Ids, FinishChange(i) PROVE TakesRoads
  BY <1>7 DEF FinishChange, TakesRoads, Takes, Roads, TypeOK
<1>8. ASSUME NEW i \in Ids, FinishChild(i) PROVE TakesRoads
  <2>1. PICK go \in SUBSET Pending(request[i].parent) :
             /\ stage' = [j \in Ids |-> IF j = i THEN "over" ELSE IF j \in go THEN "starting" ELSE stage[j]]
             /\ request' = Dispatched(go)
    BY <1>8 DEF FinishChild
  <2>2. stage[i] = "answered" /\ \A j \in go : j \in Ids /\ stage[j] = "pending"
    BY <1>8 DEF FinishChild, Pending, Children
  <2>3. \A j \in Ids : IF j \in go THEN request'[j].state = "Dispatching" /\ request'[j].read = request[j].read
                                   ELSE request'[j] = request[j]
    BY <2>1, <2>2, DispatchedReads
  <2> QED
    BY <2>1, <2>2, <2>3 DEF TakesRoads, Takes, Roads
<1>9. ASSUME NEW i \in Ids, CancelTask(i) PROVE TakesRoads
  <2>1. UNCHANGED request /\ \A j \in Ids : stage'[j] = IF j \in Pending(i) THEN "over" ELSE stage[j]
    BY <1>9 DEF CancelTask
  <2>2. \A j \in Pending(i) : stage[j] = "pending"
    BY DEF Pending
  <2> QED
    BY <2>1, <2>2 DEF TakesRoads, Takes, Roads
<1>10. ASSUME NEW i \in Ids, RetryChild(i) PROVE TakesRoads
  <2>1. PICK r : request' = [request EXCEPT ![nextId] = r]
    BY <1>10 DEF RetryChild
  <2>2. nextId \in Ids /\ stage' = [stage EXCEPT ![nextId] = "reading"]
    BY <1>10 DEF RetryChild, TypeOK, Ids
  <2> QED
    BY <2>1, <2>2, OneTakes
<1>11. ASSUME NEW found, NEW accepting, FinishRefresh(found, accepting) PROVE TakesRoads
  <2>1. CASE UNCHANGED <<flow, held, batch>>
    BY <2>1 DEF flow, TakesRoads, Takes
  <2>2. CASE Room /\ (AskAll(retry, accepting) \/ AskSome(retry, accepting) \/ AskNone(retry, accepting))
    BY <2>2, BatchAskTakes DEF TypeOK
  <2> QED
    BY <1>11, <2>1, <2>2 DEF FinishRefresh
<1> QED
  BY <1>1, <1>2, <1>3, <1>4, <1>5, <1>6, <1>7, <1>8, <1>9, <1>10, <1>11, HandleTakes, ConfirmTakes DEF Next

-----------------------------------------------------------------------------
(* What is written was read and reviewed *)

\* The read of what goes on stays the same read.
LEMMA ReadsStep ==
    ASSUME ReadSame, WrittenAsDispatched, TakesRoads
    PROVE  ReadSame' /\ WrittenAsDispatched'
<1>1. ASSUME NEW i \in Ids, stage'[i] \in {"ready"} \cup Reviewing PROVE request'[i].read = "same"
  BY <1>1 DEF TakesRoads, Takes, Roads, ReadSame, Reviewing, Writing
<1>2. ASSUME NEW i \in Ids, stage'[i] \in {"starting", "sent", "answered"}
      PROVE  request'[i].state = "Dispatching"
  BY <1>2 DEF TakesRoads, Takes, Roads, WrittenAsDispatched, InFlight
<1> QED
  BY <1>1, <1>2 DEF ReadSame, WrittenAsDispatched, InFlight

\* The children of a batch after a step.
ChildrenAfter(p) ==
    {i \in Ids : stage'[i] \notin {"unused", "stranded"} /\ request'[i].parent = p}

\* Those of a batch asked for before the step are the same.
LEMMA SameChildren ==
    ASSUME TypeOK, Moves, TakesRoads, NEW p, p # 0, p # nextId
    PROVE  /\ ChildrenAfter(p) = Children(p)
           /\ \A i \in Children(p) : request'[i].parent = p /\ request'[i].profile = request[i].profile
<1>1. ASSUME NEW i \in Ids, stage[i] = "unused" PROVE i \notin ChildrenAfter(p) /\ i \notin Children(p)
  BY <1>1 DEF Moves, Born, Children, ChildrenAfter
<1>2. ASSUME NEW i \in Ids, stage[i] # "unused"
      PROVE  /\ request'[i].parent = request[i].parent /\ request'[i].profile = request[i].profile
             /\ i \in ChildrenAfter(p) <=> i \in Children(p)
  <2>1. Goes(i)
    BY <1>2 DEF Moves
  <2>2. stage'[i] = "stranded" <=> stage[i] = "stranded"
    BY <1>2, <2>1 DEF Goes, TakesRoads, Takes, Roads
  <2> QED
    BY <1>2, <2>1, <2>2 DEF Goes, SameRequest, Children, ChildrenAfter
<1> QED
  BY <1>1, <1>2 DEF Children, ChildrenAfter

\* Only a whole batch, or a single change, comes under review.
ComesWhole ==
    \A i \in Ids : stage'[i] = "shown" /\ stage[i] # "shown" /\ request[i].parent # 0 =>
        \A j \in Children(request[i].parent) : stage'[j] = "shown"

\* HandlePreflight shows a single change or a whole batch: a child whose batch
\* is not gathered any more was aborted with it.
LEMMA HandleComesWhole ==
    ASSUME TypeOK, GatheredOrAborted, NEW i \in Ids, HandlePreflight(i)
    PROVE  ComesWhole
<1>1. CASE DropPreflight(i) \/ RejectChange(i) \/ RefuseReview(i)
  BY <1>1 DEF DropPreflight, RejectChange, RefuseReview, ComesWhole, TypeOK
<1>2. CASE ReviewChange(i)
  <2>1. stage[i] = "read" /\ i \notin aborted /\ request[i].parent \notin gathering
    BY <1>2 DEF ReviewChange
  <2>2. request[i].parent = 0
    BY <2>1 DEF GatheredOrAborted, Answering
  <2> QED
    BY <1>2, <2>2 DEF ReviewChange, ComesWhole, TypeOK
<1>3. CASE RejectBatch(i)
  BY <1>3 DEF RejectBatch, ComesWhole
<1>4. CASE CollectBatch(i)
  <2>1. CASE stage' = [stage EXCEPT ![i] = "ready"]
    BY <2>1 DEF ComesWhole, TypeOK
  <2>2. CASE stage' = [j \in Ids |-> IF j \in Children(request[i].parent) THEN "shown" ELSE stage[j]]
    BY <2>2 DEF ComesWhole, Children
  <2> QED
    BY <1>4, <2>1, <2>2 DEF CollectBatch
<1> QED
  BY <1>1, <1>2, <1>3, <1>4 DEF HandlePreflight

\* No other step brings anything under review.
LEMMA OthersShowNothing ==
    ASSUME TypeOK, [Next]_vars, \A i \in Ids : ~ HandlePreflight(i)
    PROVE  \A i \in Ids : /\ stage'[i] = "shown" => stage[i] = "shown"
                          /\ stage'[i] = "ready" => stage[i] = "ready"
<1> DEFINE Nothing == \A i \in Ids : /\ stage'[i] = "shown" => stage[i] = "shown"
                                     /\ stage'[i] = "ready" => stage[i] = "ready"
<1>1. ASSUME NEW S, NEW where \in {"reading", "stranded"}, Ask(S, where) PROVE Nothing
  BY <1>1 DEF Ask
<1>2. ASSUME NEW T, NEW accepting,
             AskAll(T, accepting) \/ AskSome(T, accepting) \/ AskNone(T, accepting)
      PROVE  Nothing
  BY <1>1, <1>2 DEF AskAll, AskSome, AskNone, flow
<1>3. CASE \/ \E kind \in {"full", "devices"} : StartRefresh(kind)
           \/ \E kind \in (Changes \ {"Delete"}) \cup {"Routes"} : OpenForm(kind)
           \/ FailRefresh \/ RefuseOutdated \/ RefuseStale \/ Tick
           \/ \E other \in Profiles : SwitchProfile(other)
           \/ \E i \in Ids : EndTask(i) \/ RetryBatch(i)
           \/ UNCHANGED vars
  BY <1>3 DEF StartRefresh, OpenForm, FailRefresh, RefuseOutdated, RefuseStale, Tick,
     SwitchProfile, EndTask, RetryBatch, vars, flow
<1>4. CASE \/ Discard \/ ConfirmChange \/ ConfirmBatch
           \/ \E kind \in Changes : \E t \in Targets : StartChange(kind, t)
           \/ \E i \in Ids : \E found \in {"same", "changed", "failed"} : ReadPreflight(i, found)
  <2>1. CASE Discard
    BY <2>1 DEF Discard
  <2>2. CASE ConfirmChange
    BY <2>2 DEF ConfirmChange, TypeOK
  <2>3. CASE ConfirmBatch
    BY <2>3 DEF ConfirmBatch
  <2>4. ASSUME NEW kind \in Changes, NEW t \in Targets, StartChange(kind, t) PROVE Nothing
    BY <2>4 DEF StartChange, TypeOK
  <2>5. ASSUME NEW i \in Ids, NEW found, ReadPreflight(i, found) PROVE Nothing
    BY <2>5 DEF ReadPreflight, TypeOK
  <2> QED
    BY <1>4, <2>1, <2>2, <2>3, <2>4, <2>5
<1>5. CASE \E accepting \in Replacements : StartBatch(accepting)
  BY <1>2, <1>5 DEF StartBatch
<1>6. CASE \E found \in SUBSET Resources : \E accepting \in Replacements : FinishRefresh(found, accepting)
  BY <1>2, <1>6 DEF FinishRefresh, flow
<1>7. CASE \/ \E i \in Ids : Work(i)
           \/ \E i \in Ids : FinishChange(i) \/ FinishChild(i)
           \/ \E i \in Ids : CancelTask(i) \/ RetryChild(i)
  BY <1>7, ZenonT(60) DEF Work, FailUnsent, SendWrite, Verify, FinishChange, FinishChild, CancelTask, RetryChild, TypeOK
<1> QED
  BY <1>3, <1>4, <1>5, <1>6, <1>7 DEF Next

\* The children of a batch stay together: under review, on their way, or done.
LEMMA WholeStep ==
    ASSUME TypeOK, TypeOK', ChildIds, GatheredOrAborted, ReadSame', BatchesReadWhole, Moves, TakesRoads,
           [Next]_vars
    PROVE  BatchesReadWhole'
<1>1. ComesWhole
  <2>1. CASE \E i \in Ids : HandlePreflight(i)
    BY <2>1, HandleComesWhole
  <2>2. CASE \A i \in Ids : ~ HandlePreflight(i)
    BY <2>2, OthersShowNothing DEF ComesWhole
  <2> QED
    BY <2>1, <2>2
<1>2. ASSUME NEW i \in Ids, stage'[i] \in Reviewing, request'[i].parent # 0,
             NEW j \in ChildrenAfter(request'[i].parent)
      PROVE  stage'[j] \in Reviewing \cup {"over"} /\ request'[j].read = "same"
  <2> DEFINE p == request[i].parent
  <2>1. stage[i] \notin {"unused", "stranded"} /\ stage[i] \in Reviewing \cup {"ready", "read"}
    BY <1>2 DEF TakesRoads, Takes, Roads, Reviewing, Writing
  <2>2. request'[i].parent = p /\ p # 0
    BY <1>2, <2>1 DEF Moves, Goes, SameRequest
  <2>3. p # nextId
    BY <2>1, <2>2 DEF ChildIds, TypeOK, Requests
  <2>4. j \in Children(p) /\ j \in Ids
    BY <2>2, <2>3, SameChildren DEF Children
  <2>5. CASE stage[i] \in Reviewing
    <3>1. stage[j] \in Reviewing \cup {"over"} /\ request[j].read = "same"
      BY <2>2, <2>4, <2>5 DEF BatchesReadWhole
    <3>2. Takes(j)
      BY <2>4 DEF TakesRoads
    <3> QED
      BY <3>1, <3>2 DEF Takes, Roads, Reviewing, Writing
  <2>6. CASE stage[i] \notin Reviewing
    <3>1. stage'[i] = "shown"
      BY <1>2, <2>1, <2>6 DEF TakesRoads, Takes, Roads, Reviewing, Writing
    <3>2. stage'[j] = "shown"
      BY <1>1, <2>2, <2>4, <2>6, <3>1 DEF ComesWhole, Reviewing
    <3> QED
      BY <2>4, <3>2 DEF ReadSame, Reviewing
  <2> QED
    BY <2>5, <2>6
<1> QED
  BY <1>2 DEF BatchesReadWhole, Children, ChildrenAfter

\* Only SendWrite sends.
LEMMA SentGrows ==
    ASSUME TypeOK, [Next]_vars
    PROVE  sent' \subseteq sent \cup {i \in Ids : stage'[i] = "sent"}
<1>1. ASSUME NEW i \in Ids, SendWrite(i) PROVE sent' = sent \cup {i} /\ stage'[i] = "sent"
  BY <1>1 DEF SendWrite, TypeOK
<1>2. UNCHANGED sent \/ \E i \in Ids : SendWrite(i)
  BY DEF Next, StartRefresh, OpenForm, Discard, StartChange, StartBatch, ReadPreflight, HandlePreflight,
     DropPreflight, RejectChange, ReviewChange, RefuseReview, RejectBatch, CollectBatch, ConfirmChange,
     ConfirmBatch, Work, FailUnsent, Verify, EndTask, FinishChange, FinishChild, CancelTask, RetryChild,
     RetryBatch, FinishRefresh, FailRefresh, SwitchProfile, RefuseOutdated, RefuseStale, Tick, vars, remote
<1> QED
  BY <1>1, <1>2

\* A write leaves once: what was sent is sent, answered or over.
LEMMA SentStep ==
    ASSUME TypeOK, TypeOK', SentIsGone, TakesRoads, [Next]_vars
    PROVE  SentIsGone'
<1>1. sent' \subseteq sent \cup {i \in Ids : stage'[i] = "sent"}
  BY SentGrows
<1>2. \A i \in Ids : stage[i] \in {"sent", "answered", "over"} => stage'[i] \in {"sent", "answered", "over"}
  BY DEF TakesRoads, Takes, Roads
<1> QED
  BY <1>1, <1>2 DEF SentIsGone, TypeOK

-----------------------------------------------------------------------------
(* Batches are gathered in one profile, or given up *)

\* Steps that ask for no batch, handle no preflight and keep the profile.
LEMMA QuietGathers ==
    ASSUME TypeOK, ChildIds, GatheredIds, GatheredOrAborted, GatheredHere, Moves, TakesRoads,
           UNCHANGED <<gathering, aborted, profile>>,
           \A i \in Ids : /\ stage[i] = "unused" /\ stage'[i] = "reading" => request'[i].parent = 0
                          /\ stage'[i] = "ready" => stage[i] = "ready"
    PROVE  GatheredOrAborted' /\ GatheredHere'
<1>1. ASSUME NEW i \in Ids, stage'[i] \in Answering, request'[i].parent # 0
      PROVE  request'[i].parent \in gathering \/ i \in aborted
  <2>1. stage[i] \in Answering
    BY <1>1 DEF TakesRoads, Takes, Roads, Answering
  <2>2. request'[i].parent = request[i].parent
    BY <2>1 DEF Moves, Goes, SameRequest, Answering
  <2> QED
    BY <1>1, <2>1, <2>2 DEF GatheredOrAborted
<1>2. ASSUME NEW i \in Ids, stage'[i] = "ready" PROVE request'[i].parent \in gathering
  <2>1. stage[i] = "ready" /\ request'[i].parent = request[i].parent
    BY <1>2 DEF Moves, Goes, SameRequest
  <2> QED
    BY <2>1 DEF GatheredOrAborted
<1>3. ASSUME NEW p \in gathering, NEW i \in ChildrenAfter(p) PROVE request'[i].profile = profile
  <2>1. p # 0 /\ p # nextId
    BY DEF GatheredIds, TypeOK, Ids
  <2>2. i \in Children(p) /\ request'[i].profile = request[i].profile
    BY <1>3, <2>1, SameChildren
  <2> QED
    BY <2>2 DEF GatheredHere
<1> QED
  BY <1>1, <1>2, <1>3 DEF GatheredOrAborted, GatheredHere, Children, ChildrenAfter

\* A batch that is asked for is gathered in the active profile.
LEMMA AskGathers ==
    ASSUME TypeOK, UnusedIds, ChildIds, GatheredIds, GatheredOrAborted, GatheredHere, Moves, TakesRoads,
           NEW S \in SUBSET Targets, Room, Ask(S, "reading"),
           gathering' = gathering \cup {nextId}, UNCHANGED <<aborted, profile>>
    PROVE  GatheredOrAborted' /\ GatheredHere'
<1>1. \A i \in Ids : /\ stage'[i] = IF \E t \in S : i = nextId + t THEN "reading" ELSE stage[i]
                     /\ request'[i] = IF \E t \in S : i = nextId + t
                           THEN NewRequest("Routes", i - nextId, profile, nextId, "Preflighting")
                           ELSE request[i]
  BY DEF Ask
<1>2. ASSUME NEW i \in Ids, \E t \in S : i = nextId + t
      PROVE  request'[i].parent = nextId /\ request'[i].profile = profile /\ stage'[i] = "reading"
  <2>1. request'[i] = NewRequest("Routes", i - nextId, profile, nextId, "Preflighting")
    BY <1>1, <1>2
  <2>2. stage'[i] = "reading"
    BY <1>1, <1>2
  <2> QED
    BY <2>1, <2>2 DEF NewRequest
<1>3. \A i \in Ids : /\ stage'[i] \in Answering /\ request'[i].parent # 0 =>
                           request'[i].parent \in gathering' \/ i \in aborted'
                     /\ stage'[i] = "ready" => request'[i].parent \in gathering'
  BY <1>1, <1>2 DEF GatheredOrAborted
<1>4. ASSUME NEW p \in gathering', NEW i \in ChildrenAfter(p) PROVE request'[i].profile = profile
  <2>1. CASE p = nextId
    <3>1. i \in Ids /\ stage'[i] # "unused" /\ request'[i].parent = nextId
      BY <1>4, <2>1 DEF ChildrenAfter
    <3>2. nextId \in Nat /\ nextId # 0
      BY DEF TypeOK
    <3>3. stage[i] # "unused" => request[i].parent # nextId
      BY <3>1, <3>2 DEF ChildIds, TypeOK
    <3>4. \E t \in S : i = nextId + t
      BY <1>1, <3>1, <3>3
    <3> QED
      BY <1>2, <3>1, <3>4
  <2>2. CASE p # nextId
    <3>1. p \in gathering /\ p # 0
      BY <1>4, <2>2 DEF TypeOK, Ids
    <3>2. i \in Children(p) /\ request'[i].profile = request[i].profile
      BY <1>4, <2>2, <3>1, SameChildren
    <3> QED
      BY <3>1, <3>2 DEF GatheredHere
  <2> QED
    BY <2>1, <2>2
<1>5. UNCHANGED profile
  OBVIOUS
<1> QED
  BY <1>3, <1>4, <1>5 DEF GatheredOrAborted, GatheredHere, Children, ChildrenAfter

\* Asking for a batch, wholly, in part or not at all.
LEMMA BatchAskGathers ==
    ASSUME TypeOK, UnusedIds, ChildIds, GatheredIds, GatheredOrAborted, GatheredHere, Moves, TakesRoads,
           NEW T \in SUBSET Targets, NEW accepting, Room, UNCHANGED profile,
           \/ AskAll(T, accepting)
           \/ AskSome(T, accepting)
           \/ AskNone(T, accepting)
    PROVE  GatheredOrAborted' /\ GatheredHere'
<1>1. CASE AskAll(T, accepting)
  BY <1>1, AskGathers DEF AskAll
<1>2. CASE AskSome(T, accepting)
  <2>1. \A i \in Ids : stage'[i] = stage[i] \/ stage'[i] = "stranded"
    BY <1>2 DEF AskSome, Ask
  <2> QED
    BY <1>2, <2>1, QuietGathers DEF AskSome, batch
<1>3. CASE AskNone(T, accepting)
  BY <1>3, QuietGathers DEF AskNone, flow, batch
<1> QED
  BY <1>1, <1>2, <1>3

\* What is left of a batch whose parent is not gathered any more was aborted, or
\* is past its preflight.
LEMMA HandleGathers ==
    ASSUME TypeOK, ChildIds, GatheredIds, GatheredOrAborted, GatheredHere, Moves, TakesRoads,
           NEW i \in Ids, HandlePreflight(i)
    PROVE  GatheredOrAborted' /\ GatheredHere'
<1> DEFINE p == request[i].parent
<1>1. /\ stage[i] = "read" /\ UNCHANGED profile
      /\ \A j \in Ids : stage[j] = "unused" => stage'[j] = "unused"
  BY DEF HandlePreflight, DropPreflight, RejectChange, ReviewChange, RefuseReview, RejectBatch,
         CollectBatch, admin, Children, TypeOK
<1>2. i \in Children(p)
  BY <1>1 DEF Children
<1>3. \A j \in Ids : stage[j] # "unused" =>
        request'[j].parent = request[j].parent /\ request'[j].profile = request[j].profile
  BY DEF Moves, Goes, SameRequest
<1>4. CASE RejectChange(i) \/ ReviewChange(i) \/ RefuseReview(i)
  BY <1>1, <1>4, QuietGathers DEF RejectChange, ReviewChange, RefuseReview, batch, TypeOK
<1>5. GatheredHere'
  <2>1. gathering' \subseteq gathering
    BY DEF HandlePreflight, DropPreflight, RejectChange, ReviewChange, RefuseReview, RejectBatch,
           CollectBatch, batch
  <2>2. ASSUME NEW q \in gathering', NEW j \in ChildrenAfter(q) PROVE request'[j].profile = profile
    <3>1. q \in gathering /\ q # 0 /\ q # nextId
      BY <2>1 DEF GatheredIds, TypeOK, Ids
    <3>2. j \in Children(q) /\ request'[j].profile = request[j].profile
      BY <2>2, <3>1, SameChildren
    <3> QED
      BY <3>1, <3>2 DEF GatheredHere
  <2> QED
    BY <1>1, <2>2 DEF GatheredHere, Children, ChildrenAfter
<1>6. \A j \in Ids : stage'[j] \in Answering => j # i /\ stage[j] \in Answering
  <2>1. stage'[i] \notin Answering
    BY <1>1, <1>2 DEF HandlePreflight, DropPreflight, RejectChange, ReviewChange, RefuseReview, RejectBatch,
       CollectBatch, TypeOK, Answering
  <2> QED
    BY <1>1, <2>1 DEF TakesRoads, Takes, Roads, Answering
<1>7. CASE DropPreflight(i)
  <2>1. /\ UNCHANGED <<request, gathering>> /\ aborted' = aborted \ {i}
        /\ \A j \in Ids \ {i} : stage'[j] = stage[j]
    BY <1>7 DEF DropPreflight
  <2>2. stage'[i] = "over"
    BY <1>7 DEF DropPreflight, TypeOK
  <2>3. GatheredOrAborted'
    BY <1>6, <2>1, <2>2 DEF GatheredOrAborted
  <2> QED
    BY <1>5, <2>3
<1>8. CASE RejectBatch(i)
  <2>1. /\ UNCHANGED request /\ gathering' = gathering \ {p} /\ p \in gathering
        /\ aborted' = aborted \cup Children(p)
        /\ \A j \in Ids : stage'[j] = IF j = i \/ (j \in Children(p) /\ stage[j] = "ready")
                                      THEN "over" ELSE stage[j]
    BY <1>2, <1>8 DEF RejectBatch, GatheredHere
  <2>2. \A j \in Ids : request[j].parent = p /\ stage'[j] \in Answering => j \in aborted'
    BY <1>6, <2>1 DEF Children, Answering
  <2>3. \A j \in Ids : stage'[j] = "ready" => stage[j] = "ready" /\ request[j].parent # p
    BY <2>1 DEF Children
  <2>4. GatheredOrAborted'
    BY <1>6, <2>1, <2>2, <2>3 DEF GatheredOrAborted
  <2> QED
    BY <1>5, <2>4
<1>9. CASE CollectBatch(i)
  <2>1. p \in gathering /\ UNCHANGED aborted
    BY <1>9 DEF CollectBatch
  <2>2. CASE UNCHANGED gathering /\ stage' = [stage EXCEPT ![i] = "ready"]
    <3>1. \A j \in Ids : stage'[j] = "ready" => j = i \/ stage[j] = "ready"
      BY <2>2 DEF TypeOK
    <3>2. GatheredOrAborted'
      BY <1>1, <1>3, <1>6, <2>1, <2>2, <3>1 DEF GatheredOrAborted, Answering
    <3> QED
      BY <1>5, <3>2
  <2>3. CASE /\ \A j \in Children(p) \ {i} : stage[j] = "ready"
             /\ stage' = [j \in Ids |-> IF j \in Children(p) THEN "shown" ELSE stage[j]]
             /\ gathering' = gathering \ {p}
    <3>1. \A j \in Ids : stage'[j] \in Answering \cup {"ready"} => request[j].parent # p
      BY <2>3 DEF Children, Answering
    <3>2. \A j \in Ids : stage'[j] = "ready" => stage[j] = "ready"
      BY <2>3
    <3>3. GatheredOrAborted'
      BY <1>1, <1>3, <1>6, <2>1, <2>3, <3>1, <3>2 DEF GatheredOrAborted, Answering
    <3> QED
      BY <1>5, <3>3
  <2> QED
    BY <1>9, <2>2, <2>3 DEF CollectBatch
<1> QED
  BY <1>4, <1>7, <1>8, <1>9 DEF HandlePreflight

\* Every step keeps the batches together, in their profile.
LEMMA GathersStep ==
    ASSUME TypeOK, UnusedIds, ChildIds, GatheredIds, GatheredOrAborted, GatheredHere, Moves, TakesRoads,
           [Next]_vars
    PROVE  GatheredOrAborted' /\ GatheredHere'
<1>1. ASSUME NEW i \in Ids, HandlePreflight(i) PROVE GatheredOrAborted' /\ GatheredHere'
  BY <1>1, HandleGathers
<1>2. ASSUME NEW accepting \in Replacements, StartBatch(accepting)
      PROVE  GatheredOrAborted' /\ GatheredHere'
  BY <1>2, BatchAskGathers DEF StartBatch, admin
<1>3. ASSUME NEW found, NEW accepting, FinishRefresh(found, accepting)
      PROVE  GatheredOrAborted' /\ GatheredHere'
  <2>1. UNCHANGED profile /\ retry \in SUBSET Targets
    BY <1>3 DEF FinishRefresh, TypeOK
  <2>2. CASE UNCHANGED <<flow, held, batch>>
    BY <2>1, <2>2, QuietGathers DEF flow, batch
  <2>3. CASE Room /\ (AskAll(retry, accepting) \/ AskSome(retry, accepting) \/ AskNone(retry, accepting))
    BY <2>1, <2>3, BatchAskGathers
  <2> QED
    BY <1>3, <2>2, <2>3 DEF FinishRefresh
<1>4. ASSUME NEW other \in Profiles, SwitchProfile(other) PROVE GatheredOrAborted' /\ GatheredHere'
  BY <1>4 DEF SwitchProfile, WriteUnderWay, flow, batch, GatheredOrAborted, GatheredHere
<1>5. CASE /\ \A i \in Ids : ~ HandlePreflight(i)
           /\ \A accepting \in Replacements : ~ StartBatch(accepting)
           /\ \A found \in SUBSET Resources : \A accepting \in Replacements : ~ FinishRefresh(found, accepting)
           /\ \A other \in Profiles : ~ SwitchProfile(other)
  <2>1. \A i \in Ids : stage'[i] = "ready" => stage[i] = "ready"
    BY <1>5, OthersShowNothing
  <2>2. CASE \E kind \in Changes : \E t \in Targets : StartChange(kind, t)
    <3>1. /\ UNCHANGED <<gathering, aborted, profile>>
          /\ \E r : r.parent = 0 /\ request' = [request EXCEPT ![nextId] = r]
          /\ stage' = [stage EXCEPT ![nextId] = "reading"]
      BY <2>2 DEF StartChange, batch, admin, NewRequest
    <3>2. \A i \in Ids : stage[i] = "unused" /\ stage'[i] = "reading" => request'[i].parent = 0
      BY <3>1 DEF TypeOK
    <3> QED
      BY <2>1, <3>1, <3>2, QuietGathers
  <2>3. CASE \E i \in Ids : RetryChild(i)
    <3>1. /\ UNCHANGED <<gathering, aborted, profile>>
          /\ \E r : r.parent = 0 /\ request' = [request EXCEPT ![nextId] = r]
          /\ stage' = [stage EXCEPT ![nextId] = "reading"]
      BY <2>3 DEF RetryChild, batch, admin, NewRequest
    <3>2. \A i \in Ids : stage[i] = "unused" /\ stage'[i] = "reading" => request'[i].parent = 0
      BY <3>1 DEF TypeOK
    <3> QED
      BY <2>1, <3>1, <3>2, QuietGathers
  <2>4. CASE /\ ~ \E kind \in Changes : \E t \in Targets : StartChange(kind, t)
             /\ ~ \E i \in Ids : RetryChild(i)
    <3>1. UNCHANGED <<gathering, aborted, profile>> /\ UNCHANGED nextId
      <4>1. CASE \/ \E kind \in {"full", "devices"} : StartRefresh(kind)
                 \/ \E kind \in (Changes \ {"Delete"}) \cup {"Routes"} : OpenForm(kind)
                 \/ Discard \/ FailRefresh \/ RefuseOutdated \/ RefuseStale \/ Tick \/ UNCHANGED vars
        BY <4>1 DEF StartRefresh, OpenForm, Discard, FailRefresh, RefuseOutdated, RefuseStale, Tick, vars,
           Refresh, batch, flow, admin
      <4>2. CASE \/ \E i \in Ids : \E found \in {"same", "changed", "failed"} : ReadPreflight(i, found)
                 \/ ConfirmChange \/ ConfirmBatch
        BY <4>2 DEF ReadPreflight, ConfirmChange, ConfirmBatch, batch, flow, admin
      <4>3. CASE \/ \E i \in Ids : Work(i)
                 \/ \E i \in Ids : EndTask(i) \/ FinishChange(i) \/ FinishChild(i)
                 \/ \E i \in Ids : CancelTask(i) \/ RetryBatch(i)
        BY <4>3 DEF Work, FailUnsent, SendWrite, Verify, EndTask, FinishChange, FinishChild, CancelTask,
           RetryBatch, Refresh, batch, flow, admin
      <4> QED
        BY <1>5, <2>4, <4>1, <4>2, <4>3 DEF Next
    <3>2. \A i \in Ids : stage[i] = "unused" => stage'[i] = "unused"
      BY <3>1 DEF Moves, Born, TypeOK, Ids
    <3> QED
      BY <2>1, <3>1, <3>2, QuietGathers
  <2> QED
    BY <2>2, <2>3, <2>4
<1> QED
  BY <1>1, <1>2, <1>3, <1>4, <1>5

-----------------------------------------------------------------------------
(* Reviews show what is not yet written, once *)

\* What o shows is under review after the step.
WillShow(o) ==
    /\ o.what = "change" => o.id \in Ids /\ stage'[o.id] = "shown" /\ request'[o.id].parent = 0
    /\ o.what = "batch"  => o.id \in Ids /\ \A i \in ChildrenAfter(o.id) : stage'[i] = "shown"

\* The request of a review, or one of its requests.
IsIn(i, o) == \/ o.what = "change" /\ i = o.id
              \/ o.what = "batch" /\ request[i].parent = o.id

\* A review goes on showing its requests while these stay where they are.
LEMMA StillShows ==
    ASSUME TypeOK, Moves, TakesRoads, NEW o \in Overlays, Shows(o), ShowsRead(o),
           \A i \in Ids : stage[i] = "shown" /\ IsIn(i, o) => stage'[i] = "shown"
    PROVE  WillShow(o)
<1>1. ASSUME o.what = "change"
      PROVE  o.id \in Ids /\ stage'[o.id] = "shown" /\ request'[o.id].parent = 0
  <2>1. o.id \in Ids /\ stage[o.id] = "shown" /\ request[o.id].parent = 0
    BY <1>1 DEF Shows
  <2> QED
    BY <1>1, <2>1 DEF IsIn, Moves, Goes, SameRequest
<1>2. ASSUME o.what = "batch"
      PROVE  o.id \in Ids /\ \A i \in ChildrenAfter(o.id) : stage'[i] = "shown"
  <2>1. o.id \in Ids /\ o.id < nextId /\ \A i \in Children(o.id) : stage[i] = "shown"
    BY <1>2 DEF Shows, ShowsRead
  <2>2. o.id # 0 /\ o.id # nextId
    BY <2>1 DEF TypeOK, Ids
  <2>3. ChildrenAfter(o.id) = Children(o.id)
    BY <2>2, SameChildren
  <2> QED
    BY <1>2, <2>1, <2>3 DEF IsIn, Children
<1> QED
  BY <1>1, <1>2 DEF WillShow

\* A form shows no request.
LEMMA FormShows ==
    ASSUME TypeOK
    PROVE  \A kind \in {"Device", "Delete", "Routes"} :
             Form(kind) \in Overlays /\ Form(kind).what = "form" /\ WillShow(Form(kind))
<1>1. 0 \in 0..MaxId
  BY WritesAssumption
<1>2. ASSUME NEW kind \in {"Device", "Delete", "Routes"}
      PROVE  {Form(kind), Confirmation(kind, 0), BatchReview(0)} \subseteq Overlays
  BY <1>1, OverlayTypes
<1>3. ASSUME NEW kind PROVE Form(kind).what = "form"
  BY DEF Form
<1> QED
  BY <1>2, <1>3 DEF WillShow

\* What the overlays after the step show is under review after it.
LEMMA ShownFromOverlays ==
    ASSUME \A n \in DOMAIN overlays' : WillShow(overlays'[n])
    PROVE  ReviewsAreShown'
BY DEF ReviewsAreShown, Shows, WillShow, Children, ChildrenAfter

\* The overlays stay, or are marked outdated, and what they show stays.
LEMMA KeptShown ==
    ASSUME TypeOK, ReviewsAreRead, Moves, TakesRoads, ReviewsAreShown, ReviewsDiffer,
           UNCHANGED overlays \/ overlays' = Outdated(overlays),
           \A i \in Ids : stage[i] = "shown" => stage'[i] = "shown"
    PROVE  ReviewsAreShown' /\ ReviewsDiffer'
<1>1. overlays \in Seq(Overlays)
  BY DEF TypeOK
<1>2. \A n \in DOMAIN overlays : overlays[n] \in Overlays /\ WillShow(overlays[n])
  BY <1>1, StillShows DEF ReviewsAreShown, ReviewsAreRead
<1>3. /\ DOMAIN overlays' = DOMAIN overlays
      /\ \A n \in DOMAIN overlays : overlays'[n].what = overlays[n].what /\ overlays'[n].id = overlays[n].id
  <2>1. CASE UNCHANGED overlays
    BY <2>1
  <2>2. CASE overlays' = Outdated(overlays)
    BY <1>2, <2>2 DEF Outdated, Overlays
  <2> QED
    BY <2>1, <2>2
<1>4. ReviewsAreShown'
  BY <1>2, <1>3, ShownFromOverlays DEF WillShow
<1>5. ReviewsDiffer'
  BY <1>3 DEF ReviewsDiffer
<1> QED
  BY <1>4, <1>5

\* A review is put on top of the others, none of which shows the same.
LEMMA PushedShown ==
    ASSUME TypeOK, ReviewsAreRead, Moves, TakesRoads, ReviewsAreShown, ReviewsDiffer,
           NEW o \in Overlays, Push(o), WillShow(o),
           \A i \in Ids : stage[i] = "shown" => stage'[i] = "shown",
           \A n \in DOMAIN overlays :
               overlays[n].what = o.what /\ o.what # "form" => overlays[n].id # o.id
    PROVE  ReviewsAreShown' /\ ReviewsDiffer'
<1>1. overlays \in Seq(Overlays) /\ overlays' = Append(overlays, o)
  BY DEF TypeOK, Push
<1>2. \A n \in DOMAIN overlays : overlays[n] \in Overlays /\ WillShow(overlays[n])
  BY <1>1, StillShows DEF ReviewsAreShown, ReviewsAreRead
<1>3. \A n \in DOMAIN overlays' : \/ n \in DOMAIN overlays /\ overlays'[n] = overlays[n]
                                  \/ n = Len(overlays) + 1 /\ overlays'[n] = o
  BY <1>1
<1>4. ReviewsAreShown'
  BY <1>2, <1>3, ShownFromOverlays
<1>5. ReviewsDiffer'
  BY <1>3 DEF ReviewsDiffer
<1> QED
  BY <1>4, <1>5

\* The top review is closed; what the others show is not in it.
LEMMA PoppedShown ==
    ASSUME TypeOK, ReviewsAreRead, Moves, TakesRoads, ReviewsAreShown, ReviewsDiffer,
           overlays # <<>>, overlays' = Popped,
           \A i \in Ids : stage[i] = "shown" /\ ~ IsIn(i, Top) => stage'[i] = "shown"
    PROVE  ReviewsAreShown' /\ ReviewsDiffer'
<1>1. overlays \in Seq(Overlays)
  BY DEF TypeOK
<1>2. /\ Top = overlays[Len(overlays)] /\ Len(overlays) \in DOMAIN overlays
      /\ Top \in Overlays /\ Shows(Top)
  BY TopIsShown
<1>3. \A n \in DOMAIN overlays' : /\ n \in DOMAIN overlays /\ n # Len(overlays)
                                  /\ overlays'[n] = overlays[n]
  BY <1>1 DEF Popped
<1>4. ASSUME NEW n \in DOMAIN overlays, n # Len(overlays) PROVE WillShow(overlays[n])
  <2> DEFINE o == overlays[n]
  <2>1. o \in Overlays /\ Shows(o) /\ ShowsRead(o)
    BY <1>1, <1>4 DEF ReviewsAreShown, ReviewsAreRead
  <2>2. Top.what = o.what /\ o.what # "form" => Top.id # o.id
    BY <1>2, <1>4 DEF ReviewsDiffer
  <2>3. \A i \in Ids : stage[i] = "shown" /\ IsIn(i, o) => ~ IsIn(i, Top)
    BY <1>2, <2>1, <2>2 DEF IsIn, Shows, Ids
  <2> HIDE DEF o
  <2>4. WillShow(o)
    BY <2>1, <2>3, StillShows
  <2> QED
    BY <2>4 DEF o
<1>5. ReviewsAreShown'
  BY <1>3, <1>4, ShownFromOverlays
<1>6. ReviewsDiffer'
  BY <1>3 DEF ReviewsDiffer
<1> QED
  BY <1>5, <1>6

\* A new review is of requests that no review shows yet.
LEMMA HandleShows ==
    ASSUME TypeOK, TypeOK', ReviewsAreRead, GatheredOrAborted, GatheredIds, Moves, TakesRoads,
           ReviewsAreShown, ReviewsDiffer, NEW i \in Ids, HandlePreflight(i)
    PROVE  ReviewsAreShown' /\ ReviewsDiffer'
<1> USE DEF Push
<1>1. stage[i] = "read" /\ request[i].kind \in {"Device", "Delete", "Routes"} /\ i \in 0..MaxId
  BY DEF HandlePreflight, DropPreflight, RejectChange, ReviewChange, RefuseReview, RejectBatch,
         CollectBatch, TypeOK, Requests, Ids
<1>2. ASSUME NEW j \in Ids, stage[j] = "shown" PROVE stage'[j] = "shown"
  BY <1>1, <1>2 DEF HandlePreflight, DropPreflight, RejectChange, ReviewChange, RefuseReview, RejectBatch,
     CollectBatch, TypeOK
<1>3. ASSUME NEW kind \in {"Device", "Delete", "Routes"}, Push(Form(kind))
      PROVE  ReviewsAreShown' /\ ReviewsDiffer'
  <2>1. Form(kind) \in Overlays /\ Form(kind).what = "form" /\ WillShow(Form(kind))
    BY FormShows
  <2> QED
    BY <1>2, <1>3, <2>1, PushedShown
<1>4. CASE UNCHANGED overlays
  BY <1>2, <1>4, KeptShown
<1>5. CASE ReviewChange(i)
  <2> DEFINE o == Confirmation(request[i].kind, i)
  <2>1. o \in Overlays /\ o.what = "change" /\ o.id = i
    BY <1>1, OverlayTypes DEF Confirmation
  <2>2. Push(o) /\ stage'[i] = "shown" /\ i \notin aborted /\ request[i].parent \notin gathering
    BY <1>5 DEF ReviewChange, TypeOK
  <2> HIDE DEF o
  <2>3. request[i].parent = 0
    BY <1>1, <2>2 DEF GatheredOrAborted, Answering
  <2>4. WillShow(o)
    BY <1>1, <2>1, <2>2, <2>3 DEF WillShow, Moves, Goes, SameRequest
  <2>5. \A n \in DOMAIN overlays : overlays[n].what = o.what => overlays[n].id # o.id
    BY <1>1, <2>1 DEF ReviewsAreShown, Shows
  <2> QED
    BY <1>2, <2>1, <2>2, <2>4, <2>5, PushedShown
<1>6. CASE CollectBatch(i)
  <2> DEFINE p == request[i].parent
             o == BatchReview(p)
  <2>1. CASE /\ Push(o)
             /\ stage' = [j \in Ids |-> IF j \in Children(p) THEN "shown" ELSE stage[j]]
    <3>1. p \in Ids /\ p \in 0..MaxId /\ p # 0 /\ p # nextId /\ i \in Children(p)
      <4>1. p \in Ids /\ p < nextId
        BY <1>6 DEF CollectBatch, GatheredIds, TypeOK
      <4>2. i \in Children(p)
        BY <1>1 DEF Children
      <4> HIDE DEF p
      <4> QED
        BY <4>1, <4>2 DEF TypeOK, Ids
    <3>2. o \in Overlays /\ o.what = "batch" /\ o.id = p
      BY <3>1, OverlayTypes DEF BatchReview
    <3>3. ChildrenAfter(p) = Children(p)
      BY <3>1, SameChildren
    <3>4. \A j \in ChildrenAfter(p) : stage'[j] = "shown"
      BY <2>1, <3>3 DEF Children
    <3> HIDE DEF o, p
    <3>5. WillShow(o)
      BY <3>1, <3>2, <3>4 DEF WillShow
    <3>6. \A n \in DOMAIN overlays : overlays[n].what = o.what => overlays[n].id # o.id
      BY <1>1, <3>1, <3>2 DEF ReviewsAreShown, Shows
    <3> QED
      BY <1>2, <2>1, <3>2, <3>5, <3>6, PushedShown
  <2> QED
    BY <1>4, <1>6, <2>1 DEF CollectBatch
<1>7. CASE DropPreflight(i) \/ RejectChange(i) \/ RefuseReview(i) \/ RejectBatch(i)
  <2>1. \/ UNCHANGED overlays
        \/ \E kind \in {"Device", "Delete", "Routes"} : Push(Form(kind))
    BY <1>1, <1>7 DEF DropPreflight, RejectChange, RefuseReview, RejectBatch
  <2> QED
    BY <1>3, <1>4, <2>1
<1> QED
  BY <1>5, <1>6, <1>7 DEF HandlePreflight

\* Only closing and confirming a review moves what it shows.
LEMMA ShownStays ==
    ASSUME TypeOK, UnusedIds, [Next]_vars,
           ~ Discard, ~ ConfirmChange, ~ ConfirmBatch, \A i \in Ids : ~ HandlePreflight(i)
    PROVE  \A i \in Ids : stage[i] = "shown" => stage'[i] = "shown"
<1> DEFINE Stays == \A i \in Ids : stage[i] = "shown" => stage'[i] = "shown"
<1>1. ASSUME NEW S \in SUBSET Targets, NEW where \in {"reading", "stranded"}, Room, Ask(S, where)
      PROVE  Stays
  <2>1. \A t \in S : nextId + t \in Ids /\ stage[nextId + t] = "unused"
    BY <1>1, WritesAssumption DEF UnusedIds, Ids, TypeOK, Room, Targets
  <2>2. \A i \in Ids : stage'[i] = IF \E t \in S : i = nextId + t THEN where ELSE stage[i]
    BY <1>1 DEF Ask
  <2> QED
    BY <2>1, <2>2
<1>2. ASSUME NEW T \in SUBSET Targets, NEW accepting, Room,
             AskAll(T, accepting) \/ AskSome(T, accepting) \/ AskNone(T, accepting)
      PROVE  Stays
  BY <1>1, <1>2 DEF AskAll, AskSome, AskNone, flow, Before
<1>3. CASE \/ \E kind \in {"full", "devices"} : StartRefresh(kind)
           \/ \E kind \in (Changes \ {"Delete"}) \cup {"Routes"} : OpenForm(kind)
           \/ FailRefresh \/ RefuseOutdated \/ RefuseStale \/ Tick
           \/ \E other \in Profiles : SwitchProfile(other)
           \/ \E i \in Ids : EndTask(i) \/ RetryBatch(i)
           \/ UNCHANGED vars
  BY <1>3 DEF StartRefresh, OpenForm, FailRefresh, RefuseOutdated, RefuseStale, Tick,
     SwitchProfile, EndTask, RetryBatch, vars, flow
<1>4. stage[nextId] = "shown" => nextId \notin Ids
  BY DEF UnusedIds, TypeOK, Ids
<1>5. ASSUME NEW kind \in Changes, NEW t \in Targets, StartChange(kind, t) PROVE Stays
  BY <1>4, <1>5 DEF StartChange, TypeOK
<1>6. ASSUME NEW i \in Ids, RetryChild(i) PROVE Stays
  BY <1>4, <1>6 DEF RetryChild, TypeOK
<1>7. ASSUME NEW i \in Ids, NEW found, ReadPreflight(i, found) PROVE Stays
  BY <1>7 DEF ReadPreflight, TypeOK
<1>8. CASE \E accepting \in Replacements : StartBatch(accepting)
  BY <1>2, <1>8 DEF StartBatch
<1>9. CASE \E found \in SUBSET Resources : \E accepting \in Replacements : FinishRefresh(found, accepting)
  BY <1>2, <1>9 DEF FinishRefresh, flow, TypeOK
<1>10. ASSUME NEW i \in Ids, Work(i) \/ FinishChange(i) PROVE Stays
  BY <1>10 DEF Work, FailUnsent, SendWrite, Verify, FinishChange, TypeOK
<1>11. ASSUME NEW i \in Ids, FinishChild(i) PROVE Stays
  <2>1. PICK go \in SUBSET Pending(request[i].parent) :
          stage' = [j \in Ids |-> IF j = i THEN "over" ELSE IF j \in go THEN "starting" ELSE stage[j]]
    BY <1>11 DEF FinishChild
  <2> QED
    BY <1>11, <2>1 DEF FinishChild, Pending
<1>12. ASSUME NEW i \in Ids, CancelTask(i) PROVE Stays
  BY <1>12 DEF CancelTask, Pending
<1> QED
  BY <1>3, <1>5, <1>6, <1>7, <1>8, <1>9, <1>10, <1>11, <1>12 DEF Next

\* Every step leaves reviews of what is not yet written, each once.
LEMMA ShownStep ==
    ASSUME TypeOK, TypeOK', UnusedIds, ReviewsAreRead, GatheredOrAborted, GatheredIds, Moves, TakesRoads,
           ReviewsAreShown, ReviewsDiffer, [Next]_vars
    PROVE  ReviewsAreShown' /\ ReviewsDiffer'
<1>1. CASE \E i \in Ids : HandlePreflight(i)
  BY <1>1, HandleShows
<1>2. CASE Discard
  <2>1. /\ overlays # <<>> /\ overlays' = Popped
        /\ \A i \in Ids : ~ IsIn(i, Top) => stage'[i] = stage[i]
    BY <1>2 DEF Discard, NoOverlay, IsIn
  <2> QED
    BY <2>1, PoppedShown
<1>3. CASE ConfirmChange
  <2>1. /\ overlays # <<>> /\ overlays' = Popped
        /\ \A i \in Ids : ~ IsIn(i, Top) => stage'[i] = stage[i]
    BY <1>3 DEF ConfirmChange, OnTop, IsIn, TypeOK
  <2> QED
    BY <2>1, PoppedShown
<1>4. CASE ConfirmBatch
  <2>1. /\ overlays # <<>> /\ overlays' = Popped
        /\ \A i \in Ids : ~ IsIn(i, Top) => stage'[i] = stage[i]
    BY <1>4 DEF ConfirmBatch, OnTop, IsIn, Children, First
  <2> QED
    BY <2>1, PoppedShown
<1>5. CASE /\ ~ Discard /\ ~ ConfirmChange /\ ~ ConfirmBatch
           /\ \A i \in Ids : ~ HandlePreflight(i)
  <2>1. \A i \in Ids : stage[i] = "shown" => stage'[i] = "shown"
    BY <1>5, ShownStays
  <2>2. CASE UNCHANGED overlays \/ overlays' = Outdated(overlays)
    BY <2>1, <2>2, KeptShown
  <2>3. CASE overlays # <<>> /\ overlays' = Popped
    BY <2>1, <2>3, PoppedShown
  <2>4. ASSUME NEW kind \in {"Device", "Delete", "Routes"}, Push(Form(kind))
        PROVE  ReviewsAreShown' /\ ReviewsDiffer'
    <3>1. Form(kind) \in Overlays /\ Form(kind).what = "form" /\ WillShow(Form(kind))
      BY FormShows
    <3> QED
      BY <2>1, <2>4, <3>1, PushedShown
  <2>5. \/ UNCHANGED overlays \/ overlays' = Outdated(overlays)
        \/ overlays # <<>> /\ overlays' = Popped
        \/ \E kind \in {"Device", "Delete", "Routes"} : Push(Form(kind))
    <3>1. CASE \/ \E kind \in {"full", "devices"} : StartRefresh(kind)
               \/ FailRefresh \/ RefuseOutdated \/ RefuseStale \/ Tick \/ UNCHANGED vars
               \/ \E other \in Profiles : SwitchProfile(other)
      BY <3>1 DEF StartRefresh, FailRefresh, RefuseOutdated, RefuseStale, Tick, SwitchProfile, vars
    <3>2. CASE \E kind \in (Changes \ {"Delete"}) \cup {"Routes"} : OpenForm(kind)
      BY <3>2, WritesAssumption DEF OpenForm
    <3>3. CASE \/ \E kind \in Changes : \E t \in Targets : StartChange(kind, t)
               \/ \E accepting \in Replacements : StartBatch(accepting)
      BY <3>3 DEF StartChange, StartBatch, OnTop
    <3>4. CASE \/ \E i \in Ids : \E found \in {"same", "changed", "failed"} : ReadPreflight(i, found)
               \/ \E i \in Ids : Work(i)
               \/ \E i \in Ids : EndTask(i) \/ FinishChange(i) \/ FinishChild(i)
               \/ \E i \in Ids : CancelTask(i) \/ RetryChild(i) \/ RetryBatch(i)
               \/ \E found \in SUBSET Resources : \E accepting \in Replacements : FinishRefresh(found, accepting)
      BY <3>4 DEF ReadPreflight, Work, FailUnsent, SendWrite, Verify, EndTask, FinishChange, FinishChild,
         CancelTask, RetryChild, RetryBatch, FinishRefresh
    <3> QED
      BY <1>5, <3>1, <3>2, <3>3, <3>4 DEF Next
  <2> QED
    BY <2>2, <2>3, <2>4, <2>5
<1> QED
  BY <1>1, <1>2, <1>3, <1>4, <1>5

-----------------------------------------------------------------------------
(* Locks are held for somebody *)

\* A lock is held for a writer or by a preflight, which knows that it holds it.
Needed(i) == \/ stage[i] \in Writing
             \/ stage[i] \in Answering \cup {"stranded"} /\ i \in preflightLocks

LocksAreNeeded == \A k \in Keys : locks[k] # NoOne => Needed(locks[k])

\* After a step.
StillNeeded(i) == \/ stage'[i] \in Writing
                  \/ stage'[i] \in Answering \cup {"stranded"} /\ i \in preflightLocks'

\* Each owner after the step is one the lock is needed for.
LEMMA NeededFromLocks ==
    ASSUME \A k \in Keys : locks'[k] # NoOne => StillNeeded(locks'[k])
    PROVE  LocksAreNeeded'
BY DEF LocksAreNeeded, Needed, StillNeeded

\* Owners of locks are ids.
LEMMA OwnersAreIds ==
    ASSUME TypeOK
    PROVE  \A k \in Keys : locks[k] # NoOne => locks[k] \in Ids
BY WritesAssumption DEF TypeOK, NoOne, Ids

\* Steps that touch no lock, nor an owner's need of it.
LEMMA QuietLocks ==
    ASSUME TypeOK, LocksAreNeeded, UNCHANGED held,
           \A i \in Ids : Needed(i) => StillNeeded(i)
    PROVE  LocksAreNeeded'
BY OwnersAreIds, NeededFromLocks DEF LocksAreNeeded, held

\* Locks that are released, of requests nobody needs them for any more.
LEMMA ReleasedLocks ==
    ASSUME TypeOK, LocksAreNeeded, NEW owners, locks' = Released(owners),
           \A i \in Ids : Needed(i) /\ i \notin owners => StillNeeded(i)
    PROVE  LocksAreNeeded'
<1>1. \A k \in Keys : locks'[k] # NoOne => locks'[k] = locks[k] /\ locks[k] \notin owners
  BY DEF Released
<1> QED
  BY <1>1, OwnersAreIds, NeededFromLocks DEF LocksAreNeeded

\* A preflight holds the keys of a new request.
LEMMA OneLocks ==
    ASSUME TypeOK, UnusedIds, LocksAreNeeded, NEW r, nextId \in Ids,
           locks' = Hold(nextId, r), preflightLocks' = preflightLocks \cup {nextId},
           stage' = [stage EXCEPT ![nextId] = "reading"]
    PROVE  LocksAreNeeded'
<1>1. \A i \in Ids : Needed(i) => StillNeeded(i)
  BY DEF Needed, StillNeeded, TypeOK, Answering
<1>2. StillNeeded(nextId)
  BY DEF StillNeeded, TypeOK, Answering
<1>3. \A k \in Keys : locks'[k] = nextId \/ locks'[k] = locks[k]
  BY DEF Hold
<1> QED
  BY <1>1, <1>2, <1>3, OwnersAreIds, NeededFromLocks DEF LocksAreNeeded

\* So do those of the children of a batch.
LEMMA AskLocks ==
    ASSUME TypeOK, UnusedIds, LocksAreNeeded, NEW S \in SUBSET Targets,
           NEW where \in {"reading", "stranded"}, Room, Ask(S, where)
    PROVE  LocksAreNeeded'
<1>1. \A t \in S : nextId + t \in Ids /\ stage[nextId + t] = "unused"
  BY WritesAssumption DEF UnusedIds, Ids, TypeOK, Room, Targets
<1>2. /\ \A i \in Ids : stage'[i] = IF \E t \in S : i = nextId + t THEN where ELSE stage[i]
      /\ preflightLocks' = preflightLocks \cup {nextId + t : t \in S}
      /\ \A k \in Keys : locks'[k] = IF \E t \in S : k = RoutesKey(t) THEN nextId + k[3] ELSE locks[k]
  BY DEF Ask
<1>3. \A i \in Ids : Needed(i) => StillNeeded(i)
  BY <1>1, <1>2 DEF Needed, StillNeeded, Answering, Writing
<1>4. \A t \in S : StillNeeded(nextId + t)
  BY <1>1, <1>2 DEF StillNeeded, Answering
<1>5. \A t \in S : RoutesKey(t)[3] = t
  BY DEF RoutesKey
<1>6. ASSUME NEW k \in Keys, locks'[k] # NoOne PROVE StillNeeded(locks'[k])
  <2>1. CASE \E t \in S : k = RoutesKey(t)
    <3>1. PICK t \in S : k = RoutesKey(t)
      BY <2>1
    <3>2. locks'[k] = nextId + t
      BY <1>2, <1>5, <3>1
    <3> QED
      BY <1>4, <3>2
  <2>2. CASE ~ \E t \in S : k = RoutesKey(t)
    BY <1>2, <1>3, <1>6, <2>2, OwnersAreIds DEF LocksAreNeeded
  <2> QED
    BY <2>1, <2>2
<1> QED
  BY <1>6, NeededFromLocks

\* Asking for a batch, wholly, in part or not at all.
LEMMA BatchAskLocks ==
    ASSUME TypeOK, UnusedIds, LocksAreNeeded, NEW T \in SUBSET Targets, NEW accepting, Room,
           \/ AskAll(T, accepting)
           \/ AskSome(T, accepting)
           \/ AskNone(T, accepting)
    PROVE  LocksAreNeeded'
<1>1. CASE AskAll(T, accepting)
  BY <1>1, AskLocks DEF AskAll
<1>2. CASE AskSome(T, accepting)
  <2>1. Before(T, T \ accepting) \in SUBSET Targets
    BY DEF Before
  <2> QED
    BY <1>2, <2>1, AskLocks DEF AskSome
<1>3. CASE AskNone(T, accepting)
  BY <1>3, QuietLocks DEF AskNone, flow, held, Needed, StillNeeded
<1> QED
  BY <1>1, <1>2, <1>3

\* The answer of a preflight releases what that preflight holds.
LEMMA HandleLocks ==
    ASSUME TypeOK, LocksAreNeeded, TakesRoads, NEW i \in Ids, HandlePreflight(i)
    PROVE  LocksAreNeeded'
<1>1. stage[i] = "read" /\ ReleasePreflight(i)
  BY DEF HandlePreflight, DropPreflight, RejectChange, ReviewChange, RefuseReview, RejectBatch,
         CollectBatch
<1>2. \A j \in Ids \ {i} : stage[j] \in Writing \cup Answering \cup {"stranded"} => stage'[j] = stage[j]
  <2>1. CASE \E s : stage' = [stage EXCEPT ![i] = s]
    BY <2>1 DEF TypeOK
  <2>2. CASE RejectBatch(i)
    BY <2>2 DEF RejectBatch, Writing, Answering
  <2>3. CASE CollectBatch(i) /\ ~ \E s : stage' = [stage EXCEPT ![i] = s]
    <3>1. /\ \A j \in Children(request[i].parent) \ {i} : stage[j] = "ready"
          /\ stage' = [j \in Ids |-> IF j \in Children(request[i].parent) THEN "shown" ELSE stage[j]]
      BY <2>3 DEF CollectBatch
    <3> QED
      BY <3>1 DEF Writing, Answering
  <2> QED
    BY <2>1, <2>2, <2>3 DEF HandlePreflight, DropPreflight, RejectChange, ReviewChange, RefuseReview
<1>3. \A j \in Ids : Needed(j) /\ j # i => StillNeeded(j)
  BY <1>1, <1>2 DEF Needed, StillNeeded, ReleasePreflight
<1>4. CASE i \in preflightLocks
  BY <1>1, <1>3, <1>4, ReleasedLocks DEF ReleasePreflight
<1>5. CASE i \notin preflightLocks
  <2>1. ~ Needed(i) /\ UNCHANGED locks
    BY <1>1, <1>5 DEF Needed, ReleasePreflight, Writing
  <2> QED
    BY <1>3, <2>1, OwnersAreIds, NeededFromLocks DEF LocksAreNeeded
<1> QED
  BY <1>4, <1>5

\* What is confirmed holds its keys as a writer.
LEMMA ConfirmLocks ==
    ASSUME TypeOK, ChildIds, LocksAreNeeded, ReviewsAreShown, ConfirmChange \/ ConfirmBatch
    PROVE  LocksAreNeeded'
<1>1. CASE ConfirmChange
  <2>1. PICK i \in Ids : i = Top.id /\ stage[i] = "shown"
    BY <1>1, TopIsShown DEF ConfirmChange, OnTop, Shows
  <2>2. locks' = Hold(i, request[i]) /\ stage' = [stage EXCEPT ![i] = "starting"] /\ UNCHANGED preflightLocks
    BY <1>1, <2>1 DEF ConfirmChange
  <2>3. \A j \in Ids : Needed(j) => StillNeeded(j)
    BY <2>1, <2>2 DEF Needed, StillNeeded, TypeOK, Writing
  <2>4. StillNeeded(i)
    BY <2>2 DEF StillNeeded, TypeOK, Writing
  <2>5. \A k \in Keys : locks'[k] = i \/ locks'[k] = locks[k]
    BY <2>2 DEF Hold
  <2> QED
    BY <2>3, <2>4, <2>5, OwnersAreIds, NeededFromLocks DEF LocksAreNeeded
<1>2. CASE ConfirmBatch
  <2> DEFINE p == Top.id
             C == Children(p)
  <2>1. p \in Ids /\ \A j \in C : j \in Ids /\ stage[j] = "shown"
    BY <1>2, TopIsShown DEF ConfirmBatch, OnTop, Shows, Children
  <2>2. /\ locks' = [k \in Keys |-> IF \E j \in C : k \in LockKeys(request[j]) THEN p + k[3] ELSE locks[k]]
        /\ stage' = [j \in Ids |-> IF j \in First(C) THEN "starting"
                                   ELSE IF j \in C THEN "pending" ELSE stage[j]]
        /\ UNCHANGED preflightLocks
    BY <1>2 DEF ConfirmBatch
  <2>3. \A j \in C : StillNeeded(j)
    BY <2>1, <2>2 DEF StillNeeded, Writing
  <2>4. \A j \in Ids : Needed(j) => StillNeeded(j)
    <3>1. First(C) \subseteq C
      BY DEF First
    <3> QED
      BY <2>2, <2>3, <3>1 DEF Needed, StillNeeded
  <2>5. ASSUME NEW j \in C, NEW k \in LockKeys(request[j]) PROVE p + k[3] = j
    <3>1. stage[j] # "unused" /\ request[j].parent = p /\ p # 0
      BY <2>1 DEF Children, Ids
    <3>2. j = p + request[j].target
      BY <2>1, <3>1 DEF ChildIds
    <3>3. k[3] = request[j].target
      BY <2>5 DEF LockKeys
    <3> QED
      BY <3>2, <3>3
  <2> HIDE DEF C, p
  <2>6. ASSUME NEW k \in Keys, locks'[k] # NoOne PROVE StillNeeded(locks'[k])
    <3>1. CASE \E j \in C : k \in LockKeys(request[j])
      <4>1. PICK j \in C : k \in LockKeys(request[j])
        BY <3>1
      <4>2. locks'[k] = j
        BY <2>2, <2>5, <4>1
      <4> QED
        BY <2>3, <4>2
    <3>2. CASE ~ \E j \in C : k \in LockKeys(request[j])
      BY <2>2, <2>4, <2>6, <3>2, OwnersAreIds DEF LocksAreNeeded
    <3> QED
      BY <3>1, <3>2
  <2> QED
    BY <2>6, NeededFromLocks
<1> QED
  BY <1>1, <1>2

\* Every step leaves only locks that are held for somebody.
LEMMA LocksStep ==
    ASSUME TypeOK, UnusedIds, ChildIds, LocksAreNeeded, ReviewsAreShown, TakesRoads, [Next]_vars
    PROVE  LocksAreNeeded'
<1>1. CASE \/ \E kind \in {"full", "devices"} : StartRefresh(kind)
           \/ \E kind \in (Changes \ {"Delete"}) \cup {"Routes"} : OpenForm(kind)
           \/ FailRefresh \/ RefuseOutdated \/ RefuseStale \/ Tick
           \/ \E i \in Ids : EndTask(i) \/ RetryBatch(i)
           \/ UNCHANGED vars
  <2>1. UNCHANGED <<held, stage>>
    BY <1>1 DEF StartRefresh, OpenForm, FailRefresh, RefuseOutdated, RefuseStale, Tick,
       EndTask, RetryBatch, vars, flow
  <2> QED
    BY <2>1, QuietLocks DEF held, Needed, StillNeeded
<1>2. CASE Discard
  <2>1. UNCHANGED held /\ \A i \in Ids : stage'[i] = stage[i] \/ stage[i] = "shown"
    BY <1>2, TopIsShown DEF Discard, NoOverlay, Shows
  <2> QED
    BY <2>1, QuietLocks DEF held, Needed, StillNeeded, Writing, Answering
<1>3. ASSUME NEW kind \in Changes, NEW t \in Targets, StartChange(kind, t) PROVE LocksAreNeeded'
  <2>1. nextId \in Ids
    BY <1>3 DEF StartChange, TypeOK, Ids
  <2> QED
    BY <1>3, <2>1, OneLocks DEF StartChange
<1>4. ASSUME NEW accepting \in Replacements, StartBatch(accepting) PROVE LocksAreNeeded'
  BY <1>4, BatchAskLocks DEF StartBatch
<1>5. ASSUME NEW i \in Ids, NEW found, ReadPreflight(i, found) PROVE LocksAreNeeded'
  BY <1>5, QuietLocks DEF ReadPreflight, held, Needed, StillNeeded, TypeOK, Answering, Writing
<1>6. ASSUME NEW i \in Ids, Work(i) PROVE LocksAreNeeded'
  <2>1. /\ UNCHANGED held /\ stage[i] \in {"starting", "sent"}
        /\ \E s \in {"answered", "sent"} : stage' = [stage EXCEPT ![i] = s]
    BY <1>6 DEF Work, FailUnsent, SendWrite, Verify
  <2> QED
    BY <2>1, QuietLocks DEF held, Needed, StillNeeded, TypeOK, Writing
<1>7. ASSUME NEW i \in Ids, FinishChange(i) PROVE LocksAreNeeded'
  <2>1. locks' = Released({i}) /\ stage' = [stage EXCEPT ![i] = "over"] /\ UNCHANGED preflightLocks
    BY <1>7 DEF FinishChange
  <2>2. \A j \in Ids : Needed(j) /\ j \notin {i} => StillNeeded(j)
    BY <2>1 DEF Needed, StillNeeded, TypeOK
  <2> QED
    BY <2>1, <2>2, ReleasedLocks
<1>8. ASSUME NEW i \in Ids, FinishChild(i) PROVE LocksAreNeeded'
  <2>1. PICK go \in SUBSET Pending(request[i].parent) :
          stage' = [j \in Ids |-> IF j = i THEN "over" ELSE IF j \in go THEN "starting" ELSE stage[j]]
    BY <1>8 DEF FinishChild
  <2>2. locks' = Released({i}) /\ UNCHANGED preflightLocks
    BY <1>8 DEF FinishChild
  <2>3. \A j \in Ids : Needed(j) /\ j \notin {i} => StillNeeded(j)
    BY <2>1, <2>2 DEF Needed, StillNeeded, Writing
  <2> QED
    BY <2>2, <2>3, ReleasedLocks
<1>9. ASSUME NEW i \in Ids, CancelTask(i) PROVE LocksAreNeeded'
  <2> DEFINE W == Pending(i)
  <2>1. /\ locks' = Released(W) /\ UNCHANGED preflightLocks
        /\ \A j \in Ids : stage'[j] = IF j \in W THEN "over" ELSE stage[j]
    BY <1>9 DEF CancelTask
  <2> HIDE DEF W
  <2>2. \A j \in Ids : Needed(j) /\ j \notin W => StillNeeded(j)
    BY <2>1 DEF Needed, StillNeeded
  <2> QED
    BY <2>1, <2>2, ReleasedLocks
<1>10. ASSUME NEW i \in Ids, RetryChild(i) PROVE LocksAreNeeded'
  <2>1. PICK r : locks' = Hold(nextId, r)
    BY <1>10 DEF RetryChild
  <2>2. /\ nextId \in Ids /\ stage' = [stage EXCEPT ![nextId] = "reading"]
        /\ preflightLocks' = preflightLocks \cup {nextId}
    BY <1>10 DEF RetryChild, TypeOK, Ids
  <2> QED
    BY <2>1, <2>2, OneLocks
<1>11. ASSUME NEW found, NEW accepting, FinishRefresh(found, accepting) PROVE LocksAreNeeded'
  <2>1. CASE UNCHANGED <<flow, held, batch>>
    BY <2>1, QuietLocks DEF flow, held, Needed, StillNeeded
  <2>2. CASE Room /\ (AskAll(retry, accepting) \/ AskSome(retry, accepting) \/ AskNone(retry, accepting))
    BY <2>2, BatchAskLocks DEF TypeOK
  <2> QED
    BY <1>11, <2>1, <2>2 DEF FinishRefresh
<1>12. ASSUME NEW other \in Profiles, SwitchProfile(other) PROVE LocksAreNeeded'
  <2>1. locks' = Released(preflightLocks) /\ UNCHANGED stage
    BY <1>12 DEF SwitchProfile, flow
  <2>2. \A j \in Ids : Needed(j) /\ j \notin preflightLocks => StillNeeded(j)
    BY <2>1 DEF Needed, StillNeeded
  <2> QED
    BY <2>1, <2>2, ReleasedLocks
<1> QED
  BY <1>1, <1>2, <1>3, <1>4, <1>5, <1>6, <1>7, <1>8, <1>9, <1>10, <1>11, <1>12, HandleLocks, ConfirmLocks
  DEF Next

-----------------------------------------------------------------------------
(* Answers *)

\* An outcome is the worker's answer, which reports success only of what took
\* effect, or the end of a child that was never sent.
OutcomesComeLate ==
    \A i \in Ids : /\ stage[i] \notin {"answered", "over"} => outcome[i] = "None"
                   /\ stage[i] = "answered" => outcome[i] \notin {"None", "CancelledBeforeDispatch"}
                   /\ i \in sent => outcome[i] # "CancelledBeforeDispatch"
                   /\ outcome[i] = "VerifiedSuccess" => i \in applied

\* One request in one step.
Answers(i) ==
    IF stage'[i] = "answered" /\ stage[i] # "answered"
    THEN /\ outcome'[i] \notin {"None", "CancelledBeforeDispatch"}
         /\ outcome'[i] = "VerifiedSuccess" => i \in applied'
    ELSE IF stage[i] = "pending" /\ stage'[i] = "over"
    THEN outcome'[i] = "CancelledBeforeDispatch"
    ELSE outcome'[i] = outcome[i]

\* Steps without answers: no outcome is written.
LEMMA NoAnswers ==
    ASSUME UNCHANGED <<outcome, applied>>,
           \A i \in Ids : /\ stage'[i] = "answered" => stage[i] = "answered"
                          /\ stage[i] = "pending" => stage'[i] # "over"
    PROVE  applied \subseteq applied' /\ \A i \in Ids : Answers(i)
BY DEF Answers

\* Every step answers as the worker or the cancellation does.
LEMMA AnswersStep ==
    ASSUME TypeOK, UnusedIds, TakesRoads, ReviewsAreShown, [Next]_vars
    PROVE  applied \subseteq applied' /\ \A i \in Ids : Answers(i)
<1> DEFINE Goal == applied \subseteq applied' /\ \A i \in Ids : Answers(i)
           Still == \A i \in Ids : /\ stage'[i] = "answered" => stage[i] = "answered"
                                   /\ stage[i] = "pending" => stage'[i] # "over"
<1>1. CASE \/ \E kind \in {"full", "devices"} : StartRefresh(kind)
           \/ \E kind \in (Changes \ {"Delete"}) \cup {"Routes"} : OpenForm(kind)
           \/ FailRefresh \/ RefuseOutdated \/ RefuseStale \/ Tick
           \/ \E other \in Profiles : SwitchProfile(other)
           \/ \E i \in Ids : EndTask(i) \/ RetryBatch(i)
           \/ UNCHANGED vars
  <2>1. UNCHANGED <<stage, outcome, applied>>
    BY <1>1 DEF StartRefresh, OpenForm, FailRefresh, RefuseOutdated, RefuseStale, Tick,
       SwitchProfile, EndTask, RetryBatch, vars, flow, batch, remote
  <2> QED
    BY <2>1, NoAnswers
<1>2. CASE Discard \/ ConfirmChange \/ ConfirmBatch
  <2>1. UNCHANGED <<outcome, applied>>
    BY <1>2 DEF Discard, ConfirmChange, ConfirmBatch, batch, remote
  <2>2. CASE Discard
    BY <2>1, <2>2, NoAnswers, TopIsShown DEF Discard, NoOverlay, Shows
  <2>3. CASE ConfirmChange
    <3>1. stage' = [stage EXCEPT ![Top.id] = "starting"]
      BY <2>3 DEF ConfirmChange
    <3> QED
      BY <2>1, <3>1, NoAnswers DEF TypeOK
  <2>4. CASE ConfirmBatch
    <3>1. \A j \in Ids : stage'[j] \in {"starting", "pending", stage[j]}
      BY <2>4 DEF ConfirmBatch
    <3> QED
      BY <2>1, <3>1, NoAnswers
  <2> QED
    BY <1>2, <2>2, <2>3, <2>4
<1>3. ASSUME NEW kind \in Changes, NEW t \in Targets, StartChange(kind, t) PROVE Goal
  <2>1. UNCHANGED <<outcome, applied>> /\ stage' = [stage EXCEPT ![nextId] = "reading"]
    BY <1>3 DEF StartChange, batch, remote
  <2> QED
    BY <2>1, NoAnswers DEF TypeOK
<1>4. ASSUME NEW i \in Ids, RetryChild(i) PROVE Goal
  <2>1. UNCHANGED <<outcome, applied>> /\ stage' = [stage EXCEPT ![nextId] = "reading"]
    BY <1>4 DEF RetryChild, batch, remote
  <2> QED
    BY <2>1, NoAnswers DEF TypeOK
<1>5. ASSUME NEW T, NEW accepting,
             AskAll(T, accepting) \/ AskSome(T, accepting) \/ AskNone(T, accepting)
      PROVE  UNCHANGED outcome /\ Still
  <2>1. \A i \in Ids : stage'[i] \in {"reading", "stranded", stage[i]}
    BY <1>5 DEF AskAll, AskSome, AskNone, Ask, flow
  <2> QED
    BY <1>5, <2>1 DEF AskAll, AskSome, AskNone, batch
<1>6. ASSUME NEW accepting \in Replacements, StartBatch(accepting) PROVE Goal
  <2>1. UNCHANGED applied /\ (AskAll(Targets, accepting) \/ AskSome(Targets, accepting))
    BY <1>6 DEF StartBatch, remote
  <2> QED
    BY <1>5, <2>1, NoAnswers
<1>7. ASSUME NEW found, NEW accepting, FinishRefresh(found, accepting) PROVE Goal
  <2>1. UNCHANGED applied
    BY <1>7 DEF FinishRefresh, remote
  <2>2. UNCHANGED outcome /\ Still
    BY <1>5, <1>7 DEF FinishRefresh, flow, batch
  <2> QED
    BY <2>1, <2>2, NoAnswers
<1>8. ASSUME NEW i \in Ids, NEW found, ReadPreflight(i, found) PROVE Goal
  BY <1>8, NoAnswers DEF ReadPreflight, batch, remote, TypeOK
<1>9. ASSUME NEW i \in Ids, HandlePreflight(i) PROVE Goal
  <2>1. /\ UNCHANGED <<outcome, applied>> /\ stage[i] = "read"
        /\ \A j \in Ids : \/ stage'[j] = stage[j]
                          \/ stage'[j] \in {"shown", "ready"}
                          \/ stage'[j] = "over" /\ stage[j] \in {"ready", "read"}
    <3>1. UNCHANGED <<outcome, applied>> /\ stage[i] = "read"
      BY <1>9 DEF HandlePreflight, DropPreflight, RejectChange, ReviewChange, RefuseReview, RejectBatch,
         CollectBatch, batch, remote
    <3>2. CASE \E x \in {"over", "shown", "ready"} : stage' = [stage EXCEPT ![i] = x]
      BY <3>1, <3>2 DEF TypeOK
    <3>3. CASE RejectBatch(i) \/ CollectBatch(i)
      BY <3>1, <3>3 DEF RejectBatch, CollectBatch, TypeOK
    <3> QED
      BY <1>9, <3>1, <3>2, <3>3 DEF HandlePreflight, DropPreflight, RejectChange, ReviewChange, RefuseReview
  <2> QED
    BY <2>1, NoAnswers
<1>10. ASSUME NEW i \in Ids, Work(i) PROVE Goal
  <2>1. CASE FailUnsent(i)
    BY <2>1 DEF FailUnsent, remote, Answers, TypeOK
  <2>2. CASE SendWrite(i)
    BY <2>2, NoAnswers DEF SendWrite, batch, TypeOK
  <2>3. ASSUME NEW response \in {"accepted", "rejected", "uncertain"}, NEW effective \in BOOLEAN,
               NEW check \in {"visible", "absent", "unread"}, Verify(i, response, check, effective)
        PROVE  Goal
    <3>1. /\ stage[i] = "sent" /\ stage' = [stage EXCEPT ![i] = "answered"]
          /\ outcome' = [outcome EXCEPT ![i] = Report(response, check)]
          /\ applied' = IF effective THEN applied \cup {i} ELSE applied
          /\ check = "visible" => effective \/ response = "rejected"
      BY <2>3 DEF Verify
    <3>2. /\ Report(response, check) \notin {"None", "CancelledBeforeDispatch"}
          /\ Report(response, check) = "VerifiedSuccess" => check = "visible" /\ response # "rejected"
      BY <2>3 DEF Report
    <3>3. outcome'[i] = Report(response, check) /\ \A j \in Ids \ {i} : outcome'[j] = outcome[j]
      BY <3>1 DEF TypeOK
    <3> QED
      BY <3>1, <3>2, <3>3 DEF Answers, TypeOK
  <2> QED
    BY <1>10, <2>1, <2>2, <2>3 DEF Work
<1>11. ASSUME NEW i \in Ids, FinishChange(i) PROVE Goal
  BY <1>11, NoAnswers DEF FinishChange, batch, remote, TypeOK
<1>12. ASSUME NEW i \in Ids, FinishChild(i) PROVE Goal
  <2>1. /\ \A j \in Ids : stage'[j] \in {"starting", stage[j]} \/ (j = i /\ stage'[j] = "over")
        /\ stage[i] = "answered" /\ UNCHANGED <<outcome, applied>>
    BY <1>12 DEF FinishChild, batch, remote
  <2> QED
    BY <2>1, NoAnswers
<1>13. ASSUME NEW i \in Ids, CancelTask(i) PROVE Goal
  <2> DEFINE W == Pending(i)
  <2>1. \A j \in Ids : /\ stage'[j] = IF j \in W THEN "over" ELSE stage[j]
                       /\ outcome'[j] = IF j \in W THEN "CancelledBeforeDispatch" ELSE outcome[j]
    BY <1>13 DEF CancelTask
  <2>2. \A j \in W : stage[j] = "pending"
    BY DEF Pending
  <2>3. UNCHANGED applied
    BY <1>13 DEF CancelTask, remote
  <2> HIDE DEF W
  <2> QED
    BY <2>1, <2>2, <2>3 DEF Answers
<1> QED
  BY <1>1, <1>2, <1>3, <1>4, <1>6, <1>7, <1>8, <1>9, <1>10, <1>11, <1>12, <1>13 DEF Next

\* Outcomes go on being answers.
LEMMA OutcomesStep ==
    ASSUME TypeOK, TypeOK', UnusedIds, TakesRoads, ReviewsAreShown, SentIsGone, SentIsGone',
           OutcomesComeLate, [Next]_vars
    PROVE  OutcomesComeLate'
<1>1. applied \subseteq applied' /\ \A i \in Ids : Answers(i)
  BY AnswersStep
<1>2. ASSUME NEW i \in Ids, stage'[i] \notin {"answered", "over"} PROVE outcome'[i] = "None"
  BY <1>1, <1>2 DEF Answers, TakesRoads, Takes, Roads, OutcomesComeLate
<1>3. ASSUME NEW i \in Ids, stage'[i] = "answered"
      PROVE  outcome'[i] \notin {"None", "CancelledBeforeDispatch"}
  BY <1>1, <1>3 DEF Answers, OutcomesComeLate
<1>4. ASSUME NEW i \in Ids, i \in sent' PROVE outcome'[i] # "CancelledBeforeDispatch"
  <2>1. stage'[i] \in {"sent", "answered", "over"}
    BY <1>4 DEF SentIsGone
  <2>2. CASE stage'[i] = "over"
    <3>1. i \in sent
      <4>1. sent' \subseteq sent \cup {j \in Ids : stage'[j] = "sent"}
        BY SentGrows
      <4> QED
        BY <1>4, <2>2, <4>1
    <3>2. stage[i] # "pending"
      BY <3>1 DEF SentIsGone
    <3> QED
      BY <1>1, <2>2, <3>1, <3>2 DEF Answers, OutcomesComeLate
  <2> QED
    BY <1>2, <1>3, <2>1, <2>2
<1>5. ASSUME NEW i \in Ids, outcome'[i] = "VerifiedSuccess" PROVE i \in applied'
  BY <1>1, <1>5 DEF Answers, OutcomesComeLate
<1> QED
  BY <1>2, <1>3, <1>4, <1>5 DEF OutcomesComeLate

-----------------------------------------------------------------------------
(* Parents end after their children *)

\* No task has an id that is still to be handed out.
FreshTasks == \A i \in Ids : i >= nextId => task[i] = "None"

\* The parent of a batch has no task before the batch is confirmed, an active
\* one while a child is under way, and succeeds only when every child took effect.
ParentTasks ==
    \A i \in Ids : stage[i] \notin {"unused", "stranded"} /\ request[i].parent # 0 =>
        /\ stage[i] \in Writing => task[request[i].parent] \in Active
        /\ stage[i] \in {"reading", "read", "ready", "shown"} => task[request[i].parent] = "None"
        /\ stage[i] = "over" /\ task[request[i].parent] # "None" => outcome[i] # "None"
        /\ task[request[i].parent] = "Succeeded" => i \in applied

\* One parent in one step: it starts with its children, is cancelled, or ends
\* when the last of them is over.
ParentGoes(p) ==
    \/ task'[p] = task[p]
    \/ task'[p] = "Running" /\ \A j \in Children(p) : stage'[j] \in {"starting", "pending"}
    \/ task[p] = "Running" /\ task'[p] = "Cancelling"
    \/ /\ \E j \in Children(p) : stage[j] = "answered"
       /\ \A j \in Children(p) : stage[j] \in {"answered", "over"} /\ stage'[j] = "over"
       /\ task'[p] \in Ended
       /\ task'[p] = "Succeeded" => \A j \in Children(p) : outcome[j] = "VerifiedSuccess"

ParentsGo ==
    /\ \A p \in Ids : stage[p] = "unused" => ParentGoes(p)
    /\ \A i \in Ids : /\ stage[i] = "shown" /\ request[i].parent # 0
                      /\ stage'[i] \in {"starting", "pending"}
                      => task'[request[i].parent] = "Running"

\* Steps that leave the tasks alone and confirm nothing.
LEMMA NoParentGoes ==
    ASSUME UNCHANGED task, \A i \in Ids : stage[i] = "shown" => stage'[i] \in {"shown", "over"}
    PROVE  ParentsGo
BY DEF ParentsGo, ParentGoes

\* Confirming starts the task of a change, or of a parent and its first children.
LEMMA ConfirmParents ==
    ASSUME TypeOK, ReviewsAreShown, ConfirmChange \/ ConfirmBatch
    PROVE  ParentsGo
<1>1. CASE ConfirmChange
  <2>1. PICK i \in Ids : i = Top.id /\ stage[i] = "shown" /\ request[i].parent = 0
    BY <1>1, TopIsShown DEF ConfirmChange, OnTop, Shows
  <2>2. task' = [task EXCEPT ![i] = "Running"] /\ stage' = [stage EXCEPT ![i] = "starting"]
    BY <1>1, <2>1 DEF ConfirmChange
  <2> QED
    BY <2>1, <2>2 DEF ParentsGo, ParentGoes, TypeOK
<1>2. CASE ConfirmBatch
  <2> DEFINE p == Top.id
             C == Children(p)
  <2>1. p \in Ids /\ \A j \in C : j \in Ids /\ stage[j] = "shown" /\ request[j].parent = p
    BY <1>2, TopIsShown DEF ConfirmBatch, OnTop, Shows, Children
  <2>2. /\ task' = [j \in Ids |-> IF j = p \/ j \in First(C) THEN "Running" ELSE task[j]]
        /\ stage' = [j \in Ids |-> IF j \in First(C) THEN "starting"
                                   ELSE IF j \in C THEN "pending" ELSE stage[j]]
    BY <1>2 DEF ConfirmBatch
  <2>3. First(C) \subseteq C
    BY DEF First
  <2>4. ASSUME NEW q \in Ids, stage[q] = "unused" PROVE ParentGoes(q)
    <3>1. CASE q = p
      BY <2>1, <2>2, <3>1 DEF ParentGoes
    <3>2. CASE q # p
      BY <2>1, <2>2, <2>3, <2>4, <3>2 DEF ParentGoes
    <3> QED
      BY <3>1, <3>2
  <2>5. ASSUME NEW i \in Ids, stage[i] = "shown", request[i].parent # 0,
               stage'[i] \in {"starting", "pending"}
        PROVE  task'[request[i].parent] = "Running"
    BY <2>1, <2>2, <2>3, <2>5
  <2> QED
    BY <2>4, <2>5 DEF ParentsGo
<1> QED
  BY <1>1, <1>2

\* The last child to finish ends its parent.
LEMMA FinishChildParents ==
    ASSUME TypeOK, ChildIds, NEW i \in Ids, FinishChild(i)
    PROVE  ParentsGo
<1> DEFINE p == request[i].parent
           last == \A j \in Children(p) \ {i} : stage[j] = "over"
<1>1. PICK go \in SUBSET Pending(p) :
        /\ stage' = [j \in Ids |-> IF j = i THEN "over" ELSE IF j \in go THEN "starting" ELSE stage[j]]
        /\ task' = [j \in Ids |-> IF j \in go THEN "Running"
                                  ELSE IF j = p /\ last THEN BatchEnd(p) ELSE task[j]]
  BY DEF FinishChild
<1>2. stage[i] = "answered" /\ p # 0 /\ i \in Children(p)
  BY DEF FinishChild, Children
<1>3. \A j \in go : j \in Ids /\ stage[j] = "pending" /\ j \in Children(p)
  BY DEF Pending, Children
<1>4. BatchEnd(p) \in Ended
      /\ (BatchEnd(p) = "Succeeded" => \A j \in Children(p) : outcome[j] = "VerifiedSuccess")
  BY DEF BatchEnd, Ended
<1>5. last => \A j \in Children(p) : j \in Ids /\ stage[j] \in {"answered", "over"} /\ stage'[j] = "over"
  <2>1. last => go = {}
    <3>1. \A j \in go : j # i
      BY <1>2, <1>3
    <3> QED
      BY <1>3, <3>1
  <2> QED
    BY <1>1, <1>2, <2>1 DEF Children
<1> HIDE DEF p, last
<1>6. ASSUME NEW q \in Ids, stage[q] = "unused" PROVE ParentGoes(q)
  <2>1. q \notin go
    BY <1>3, <1>6
  <2>2. CASE q = p /\ last
    <3>1. task'[q] = BatchEnd(p)
      BY <1>1, <2>1, <2>2
    <3> QED
      BY <1>2, <1>4, <1>5, <2>2, <3>1 DEF ParentGoes
  <2>3. CASE ~ (q = p /\ last)
    BY <1>1, <2>1, <2>3 DEF ParentGoes
  <2> QED
    BY <2>2, <2>3
<1>7. \A j \in Ids : stage[j] = "shown" => stage'[j] = "shown"
  BY <1>1, <1>2, <1>3
<1> QED
  BY <1>6, <1>7 DEF ParentsGo

\* Every step keeps parents with their children.
LEMMA ParentsGoStep ==
    ASSUME TypeOK, UnusedIds, ChildIds, ReviewsAreShown, TakesRoads, [Next]_vars
    PROVE  ParentsGo
<1>1. CASE ConfirmChange \/ ConfirmBatch
  BY <1>1, ConfirmParents
<1>2. CASE \E i \in Ids : FinishChild(i)
  BY <1>2, FinishChildParents
<1>3. ASSUME NEW i \in Ids, CancelTask(i) PROVE ParentsGo
  <2>1. /\ task[i] = "Running" /\ \A j \in Ids : stage'[j] \in {"over", stage[j]}
        /\ task' = [j \in Ids |-> IF j = i \/ (j \in Children(i) /\ task[j] = "Running")
                                  THEN "Cancelling" ELSE task[j]]
    BY <1>3 DEF CancelTask
  <2>2. \A q \in Ids : task'[q] = task[q] \/ (task[q] = "Running" /\ task'[q] = "Cancelling")
    BY <2>1
  <2> QED
    BY <2>1, <2>2 DEF ParentsGo, ParentGoes
<1>4. ASSUME NEW i \in Ids, EndTask(i) PROVE ParentsGo
  <2>1. stage[i] = "answered" /\ UNCHANGED stage /\ \E x : task' = [task EXCEPT ![i] = x]
    BY <1>4 DEF EndTask, flow
  <2> QED
    BY <2>1 DEF ParentsGo, ParentGoes, TypeOK
<1>5. CASE Discard
  BY <1>5, NoParentGoes DEF Discard
<1>6. CASE \E i \in Ids : HandlePreflight(i)
  <2>1. UNCHANGED task
    BY <1>6 DEF HandlePreflight, DropPreflight, RejectChange, ReviewChange, RefuseReview, RejectBatch,
       CollectBatch
  <2>2. \A i \in Ids : stage[i] = "shown" => stage'[i] = "shown"
    BY <1>6, ZenonT(60) DEF HandlePreflight, DropPreflight, RejectChange, ReviewChange, RefuseReview, RejectBatch,
       CollectBatch, TypeOK
  <2> QED
    BY <2>1, <2>2, NoParentGoes
<1>7. CASE /\ ~ ConfirmChange /\ ~ ConfirmBatch /\ ~ Discard
           /\ \A i \in Ids : ~ (FinishChild(i) \/ CancelTask(i) \/ EndTask(i) \/ HandlePreflight(i))
  <2>1. \A i \in Ids : stage[i] = "shown" => stage'[i] = "shown"
    BY <1>7, ShownStays
  <2>2. UNCHANGED task
    BY <1>7 DEF Next, StartRefresh, OpenForm, StartChange, StartBatch, ReadPreflight, Work, FailUnsent,
       SendWrite, Verify, FinishChange, RetryChild, RetryBatch, FinishRefresh, FailRefresh, SwitchProfile,
       RefuseOutdated, RefuseStale, Tick, vars
  <2> QED
    BY <2>1, <2>2, NoParentGoes
<1> QED
  BY <1>1, <1>2, <1>3, <1>4, <1>5, <1>6, <1>7

\* A task is that of an id handed out.
LEMMA FreshTasksStep ==
    ASSUME TypeOK, UnusedIds, ChildIds, ReviewsAreRead, ReviewsAreShown, FreshTasks, Moves, [Next]_vars
    PROVE  FreshTasks' /\ \A q \in Ids : q >= nextId => task'[q] = "None"
<1>1. \A i \in Ids : i >= nextId => stage[i] = "unused"
  BY DEF UnusedIds
<1>2. nextId \in Nat /\ nextId' \in Nat /\ nextId' >= nextId
  BY DEF Moves, TypeOK
<1>3. ASSUME NEW q \in Ids, q >= nextId PROVE task'[q] = task[q]
  <2>1. stage[q] = "unused" /\ task[q] = "None"
    BY <1>1, <1>3 DEF FreshTasks
  <2>2. CASE ConfirmChange
    <3>1. Top.id # q /\ Top.id \in Ids
      BY <2>1, <2>2, TopIsShown DEF ConfirmChange, OnTop, Shows
    <3> QED
      BY <2>2, <3>1 DEF ConfirmChange, TypeOK
  <2>3. CASE ConfirmBatch
    <3>1. Top.id < nextId /\ Top.id \in Ids
      BY <2>3, TopIsShown DEF ConfirmBatch, OnTop, ReviewsAreRead, ShowsRead
    <3>2. q # Top.id
      BY <1>2, <1>3, <3>1 DEF Ids
    <3>3. q \notin First(Children(Top.id))
      BY <2>1 DEF First, Children
    <3> QED
      BY <2>3, <3>2, <3>3 DEF ConfirmBatch
  <2>4. ASSUME NEW i \in Ids, FinishChild(i) PROVE task'[q] = task[q]
    <3>1. stage[i] = "answered" /\ request[i].parent # 0
      BY <2>4 DEF FinishChild
    <3>2. request[i].parent < nextId /\ request[i].parent \in Nat
      BY <3>1 DEF ChildIds, TypeOK, Requests
    <3>3. q # request[i].parent
      BY <1>2, <1>3, <3>2 DEF Ids
    <3>4. q \notin Pending(request[i].parent)
      BY <2>1 DEF Pending
    <3> QED
      BY <2>4, <3>3, <3>4 DEF FinishChild
  <2>5. ASSUME NEW i \in Ids, CancelTask(i) PROVE task'[q] = task[q]
    BY <2>1, <2>5 DEF CancelTask
  <2>6. ASSUME NEW i \in Ids, EndTask(i) PROVE task'[q] = task[q]
    BY <2>1, <2>6 DEF EndTask, TypeOK
  <2>7. CASE /\ ~ ConfirmChange /\ ~ ConfirmBatch
             /\ \A i \in Ids : ~ (FinishChild(i) \/ CancelTask(i) \/ EndTask(i))
    BY <2>7 DEF Next, StartRefresh, OpenForm, Discard, StartChange, StartBatch, ReadPreflight,
       HandlePreflight, DropPreflight, RejectChange, ReviewChange, RefuseReview, RejectBatch, CollectBatch,
       Work, FailUnsent, SendWrite, Verify, FinishChange, RetryChild, RetryBatch, FinishRefresh, FailRefresh,
       SwitchProfile, RefuseOutdated, RefuseStale, Tick, vars
  <2> QED
    BY <2>2, <2>3, <2>4, <2>5, <2>6, <2>7
<1> QED
  BY <1>2, <1>3 DEF FreshTasks, Ids

\* Parents and children stay together in every step.
LEMMA ParentsStep ==
    ASSUME TypeOK, TypeOK', ChildIds, Moves, TakesRoads, ParentsGo,
           applied \subseteq applied', \A i \in Ids : Answers(i), OutcomesComeLate, OutcomesComeLate',
           \A q \in Ids : q >= nextId => task'[q] = "None",
           ParentTasks
    PROVE  ParentTasks'
<1> DEFINE Good(i) ==
      LET p == request'[i].parent IN
        /\ stage'[i] \in Writing => task'[p] \in Active
        /\ stage'[i] \in {"reading", "read", "ready", "shown"} => task'[p] = "None"
        /\ stage'[i] = "over" /\ task'[p] # "None" => outcome'[i] # "None"
        /\ task'[p] = "Succeeded" => i \in applied'
<1>1. ASSUME NEW i \in Ids, stage[i] = "unused", stage'[i] \notin {"unused", "stranded"},
             request'[i].parent # 0
      PROVE  Good(i)
  <2>1. Born(i) /\ stage'[i] = "reading"
    BY <1>1 DEF Moves, Born
  <2>2. request'[i].parent = nextId /\ nextId \in Nat
    BY <1>1, <2>1 DEF Born, TypeOK
  <2>3. request'[i].parent \in Ids
    BY <1>1 DEF TypeOK, Requests, Ids
  <2>4. task'[request'[i].parent] = "None"
    BY <2>2, <2>3
  <2> QED
    BY <2>1, <2>4 DEF Writing
<1>2. ASSUME NEW i \in Ids, stage[i] # "unused", stage'[i] \notin {"unused", "stranded"},
             request'[i].parent # 0
      PROVE  Good(i)
  <2> DEFINE p == request[i].parent
  <2>1. stage[i] \notin {"unused", "stranded"} /\ request'[i].parent = p /\ p # 0
    BY <1>2 DEF Moves, Goes, SameRequest
  <2>2. p \in Ids /\ stage[p] = "unused" /\ i \in Children(p)
    BY <2>1 DEF ChildIds, TypeOK, Requests, Ids, Children
  <2> HIDE DEF p
  <2>3. /\ stage[i] \in Writing => task[p] \in Active
        /\ stage[i] \in {"reading", "read", "ready", "shown"} => task[p] = "None"
        /\ stage[i] = "over" /\ task[p] # "None" => outcome[i] # "None"
        /\ task[p] = "Succeeded" => i \in applied
    BY <2>1 DEF ParentTasks, p
  <2>4. ParentGoes(p)
    BY <2>2 DEF ParentsGo
  <2>12. \A j \in Children(p) : stage[j] = "answered" => task[p] \in Active
    BY <2>1 DEF ParentTasks, Children, Writing, p
  <2>5. /\ Takes(i) /\ Answers(i)
        /\ stage[i] = "shown" /\ stage'[i] \in {"starting", "pending"} => task'[p] = "Running"
    BY <2>1 DEF TakesRoads, ParentsGo, p
  <2>6. stage[i] \in {"reading", "read", "ready", "shown", "over"} \cup Writing
    BY <2>1 DEF TypeOK, Stages, Writing
  <2>7. ASSUME stage'[i] \in Writing PROVE task'[p] \in Active
    <3>1. stage[i] \in Writing \/ (stage[i] = "shown" /\ stage'[i] \in {"starting", "pending"})
      BY <2>5, <2>7 DEF Takes, Roads, Writing
    <3>2. stage'[i] # "over"
      BY <2>7 DEF Writing
    <3> QED
      BY <2>2, <2>3, <2>4, <2>5, <3>1, <3>2 DEF ParentGoes, Active
  <2>8. ASSUME stage'[i] \in {"reading", "read", "ready", "shown"} PROVE task'[p] = "None"
    <3>1. stage[i] \in {"reading", "read", "ready", "shown"}
      BY <2>1, <2>5, <2>8 DEF Takes, Roads
    <3> QED
      BY <2>2, <2>3, <2>4, <2>8, <3>1 DEF ParentGoes
  <2>9. ASSUME stage'[i] = "over", task'[p] # "None" PROVE outcome'[i] # "None"
    <3>1. CASE stage[i] = "over"
      <4>1. outcome'[i] = outcome[i]
        BY <2>5, <2>9, <3>1 DEF Answers
      <4>2. task[p] # "None"
        BY <2>2, <2>4, <2>9, <2>12, <3>1 DEF ParentGoes, Active, Children
      <4> QED
        BY <2>3, <3>1, <4>1, <4>2
    <3>2. CASE stage[i] \in {"pending", "answered"}
      BY <2>5, <2>9, <3>2 DEF Answers, OutcomesComeLate
    <3>3. CASE stage[i] \notin {"over", "pending", "answered"}
      <4>1. stage[i] \in {"read", "ready", "shown"}
        BY <2>5, <2>9, <3>3 DEF Takes, Roads
      <4>2. task[p] = "None" /\ stage'[i] \notin {"starting", "pending"}
        BY <2>3, <2>9, <4>1
      <4>3. stage[i] \notin {"answered", "over"}
        BY <4>1
      <4> QED
        BY <2>2, <2>4, <2>9, <4>2, <4>3 DEF ParentGoes
    <3> QED
      BY <3>1, <3>2, <3>3
  <2>10. ASSUME task'[p] = "Succeeded" PROVE i \in applied'
    <3>1. CASE task[p] = "Succeeded"
      BY <2>3, <3>1
    <3>2. CASE task[p] # "Succeeded"
      <4>1. outcome[i] = "VerifiedSuccess"
        BY <2>2, <2>4, <2>10, <3>2 DEF ParentGoes
      <4> QED
        BY <4>1 DEF OutcomesComeLate
    <3> QED
      BY <3>1, <3>2
  <2> QED
    BY <2>1, <2>7, <2>8, <2>9, <2>10
<1> HIDE DEF Good
<1>3. \A i \in Ids : stage'[i] \notin {"unused", "stranded"} /\ request'[i].parent # 0 => Good(i)
  BY <1>1, <1>2
<1> QED
  BY <1>3 DEF ParentTasks, Good

-----------------------------------------------------------------------------
(* The theorems *)

BatchInv == ReviewInv /\ LocksAreNeeded /\ OutcomesComeLate /\ FreshTasks /\ ParentTasks

\* Nothing is asked for yet.
LEMMA BatchInit == Init => BatchInv
<1> SUFFICES ASSUME Init PROVE BatchInv
  OBVIOUS
<1>1. \A i \in Ids : stage[i] = "unused" /\ outcome[i] = "None" /\ task[i] = "None"
  BY DEF Init
<1>2. overlays = <<>> /\ gathering = {} /\ sent = {} /\ \A k \in Keys : locks[k] = NoOne
  BY DEF Init
<1>3. ReadSame /\ WrittenAsDispatched /\ GatheredOrAborted /\ GatheredHere /\ BatchesReadWhole
  BY <1>1, <1>2 DEF ReadSame, WrittenAsDispatched, GatheredOrAborted, GatheredHere, BatchesReadWhole,
     Reviewing, Writing, InFlight, Answering
<1>4. ReviewsAreShown /\ ReviewsDiffer /\ SentIsGone
  BY <1>2 DEF ReviewsAreShown, ReviewsDiffer, SentIsGone
<1>5. LocksAreNeeded /\ OutcomesComeLate /\ FreshTasks /\ ParentTasks
  BY <1>1, <1>2 DEF LocksAreNeeded, OutcomesComeLate, FreshTasks, ParentTasks
<1> QED
  BY <1>3, <1>4, <1>5 DEF BatchInv, ReviewInv

\* Every step keeps the invariant, given that of AdminWritesProofs.
LEMMA BatchNext == Inv /\ Inv' /\ BatchInv /\ [Next]_vars => BatchInv'
<1> SUFFICES ASSUME Inv, Inv', BatchInv, [Next]_vars PROVE BatchInv'
  OBVIOUS
<1> USE DEF Inv, BatchInv, ReviewInv
<1>1. TypeOK /\ TypeOK' /\ UnusedIds /\ ChildIds /\ ReviewsAreRead /\ GatheredIds
  OBVIOUS
<1>2. /\ ReadSame /\ WrittenAsDispatched /\ GatheredOrAborted /\ GatheredHere /\ BatchesReadWhole
      /\ ReviewsAreShown /\ ReviewsDiffer /\ SentIsGone /\ LocksAreNeeded
      /\ OutcomesComeLate /\ FreshTasks /\ ParentTasks
  OBVIOUS
<1>3. Moves
  BY <1>1, MovesStep
<1>4. TakesRoads
  BY <1>1, <1>2, TakesStep
<1>5. ReadSame' /\ WrittenAsDispatched'
  BY <1>2, <1>4, ReadsStep
<1>6. BatchesReadWhole' /\ SentIsGone'
  BY <1>1, <1>2, <1>3, <1>4, <1>5, WholeStep, SentStep
<1>7. GatheredOrAborted' /\ GatheredHere'
  BY <1>1, <1>2, <1>3, <1>4, GathersStep
<1>8. ReviewsAreShown' /\ ReviewsDiffer'
  BY <1>1, <1>2, <1>3, <1>4, ShownStep
<1>9. LocksAreNeeded'
  BY <1>1, <1>2, <1>4, LocksStep
<1>10. applied \subseteq applied' /\ \A i \in Ids : Answers(i)
  BY <1>1, <1>2, <1>4, AnswersStep
<1>11. OutcomesComeLate'
  BY <1>1, <1>2, <1>4, <1>6, OutcomesStep
<1>12. FreshTasks' /\ \A q \in Ids : q >= nextId => task'[q] = "None"
  BY <1>1, <1>2, <1>3, FreshTasksStep
<1>13. ParentsGo
  BY <1>1, <1>2, <1>4, ParentsGoStep
<1>14. ParentTasks'
  BY <1>1, <1>2, <1>3, <1>4, <1>10, <1>11, <1>12, <1>13, ParentsStep
<1> QED
  BY <1>5, <1>6, <1>7, <1>8, <1>9, <1>11, <1>12, <1>14

\* Both invariants hold of every reachable state.
THEOREM BatchInvariance == Spec => [](Inv /\ BatchInv)
<1>1. Init => Inv /\ BatchInv
  BY InitInv, BatchInit
<1>2. Inv /\ BatchInv /\ [Next]_vars => Inv' /\ BatchInv'
  BY NextInv, BatchNext
<1> QED
  BY <1>1, <1>2, PTL DEF Spec

\* confirm_mutation and confirm_admin_batch_mutation: what is written was read
\* again after it was asked for, found unchanged, and confirmed, for a batch in
\* all of its children.
THEOREM ReviewedIsWritten == Spec => []OnlyReviewedIsWritten
<1>1. ASSUME BatchInv PROVE OnlyReviewedIsWritten
  BY <1>1 DEF BatchInv, ReviewInv, OnlyReviewedIsWritten, ReadSame, WrittenAsDispatched, BatchesReadWhole,
     InFlight, Reviewing, Writing
<1> QED
  BY <1>1, BatchInvariance, PTL

\* run_admin_mutation: a write that left Tale is never started again, whatever is
\* cancelled, retried or confirmed again.
THEOREM WriteLeavesOnce == Spec => SentOnce
<1>1. ASSUME Inv, BatchInv, [Next]_vars PROVE [\A i \in sent : stage'[i] # "starting"]_vars
  <2>1. TakesRoads
    BY <1>1, TakesStep DEF Inv, BatchInv, ReviewInv
  <2>2. \A i \in sent : i \in Ids /\ stage[i] \in {"sent", "answered", "over"}
    BY <1>1 DEF Inv, TypeOK, BatchInv, ReviewInv, SentIsGone
  <2>3. \A i \in sent : stage'[i] # "starting"
    BY <2>1, <2>2 DEF TakesRoads, Takes, Roads
  <2> QED
    BY <2>3
<1> QED
  BY <1>1, BatchInvariance, PTL DEF Spec, SentOnce

\* finish_admin_batch_child and cancel_task: when the parent of a batch has ended
\* each child is answered, one reported as cancelled was not sent, and success
\* means that every change took effect.
THEOREM EndedIsAnswered == Spec => []EndedBatchIsAnswered
<1>1. ASSUME Inv, BatchInv PROVE EndedBatchIsAnswered
  <2> SUFFICES ASSUME NEW p \in Ids, task[p] \in Ended, NEW i \in Children(p)
               PROVE  /\ stage[i] = "over" /\ outcome[i] # "None"
                      /\ i \in sent => outcome[i] # "CancelledBeforeDispatch"
                      /\ task[p] = "Succeeded" => i \in applied
    BY DEF EndedBatchIsAnswered
  <2>1. /\ i \in Ids /\ stage[i] \in Stages \ {"unused", "stranded"}
        /\ request[i].parent = p /\ p # 0
    BY <1>1 DEF Children, Inv, TypeOK, Ids
  <2>2. /\ stage[i] \in Writing => task[p] \in Active
        /\ stage[i] \in {"reading", "read", "ready", "shown"} => task[p] = "None"
        /\ stage[i] = "over" /\ task[p] # "None" => outcome[i] # "None"
        /\ task[p] = "Succeeded" => i \in applied
    BY <1>1, <2>1 DEF BatchInv, ParentTasks
  <2>3. task[p] \notin Active /\ task[p] # "None"
    BY DEF Ended, Active
  <2>4. stage[i] = "over"
    BY <2>1, <2>2, <2>3 DEF Stages, Writing
  <2>5. i \in sent => outcome[i] # "CancelledBeforeDispatch"
    BY <1>1, <2>1 DEF BatchInv, OutcomesComeLate
  <2> QED
    BY <2>2, <2>3, <2>4, <2>5
<1> QED
  BY <1>1, BatchInvariance, PTL

-----------------------------------------------------------------------------
(* No lock is left behind, unless a batch form is refused half-way *)

\* In what the devices answer, an advertiser that can take the routes never
\* comes before one that cannot: a single advertiser, or all of them.
RefusedFirst ==
    \A accepting \in Replacements : \A t \in accepting \cap Targets : \A u \in Targets \ accepting : u < t

\* Then a batch that is refused has asked for nothing yet.
LEMMA NothingInVain ==
    ASSUME RefusedFirst, NEW T \in SUBSET Targets, NEW accepting \in Replacements,
           AskSome(T, accepting)
    PROVE  Before(T, T \ accepting) = {}
<1>1. PICK u \in T \ accepting : TRUE
  BY DEF AskSome
<1>2. ASSUME NEW t \in Before(T, T \ accepting) PROVE FALSE
  <2>1. t \in Targets /\ u \in Targets /\ t < u
    BY <1>1, <1>2 DEF Before
  <2>2. t \in accepting
    BY <1>2, <2>1 DEF Before, Targets
  <2>3. u < t
    BY <1>1, <2>1, <2>2 DEF RefusedFirst
  <2> QED
    BY <2>1, <2>3 DEF Targets
<1> QED
  BY <1>2

NoneStranded == \A i \in Ids : stage[i] # "stranded"

\* Asking for a batch strands nobody.
LEMMA BatchAskStrands ==
    ASSUME RefusedFirst, NEW T \in SUBSET Targets, NEW accepting \in Replacements,
           \/ AskAll(T, accepting)
           \/ AskSome(T, accepting)
           \/ AskNone(T, accepting),
           NEW i \in Ids, stage[i] # "stranded"
    PROVE  stage'[i] # "stranded"
<1>1. CASE AskAll(T, accepting)
  BY <1>1 DEF AskAll, Ask
<1>2. CASE AskSome(T, accepting)
  <2>1. Ask({}, "stranded")
    BY <1>2, NothingInVain DEF AskSome
  <2> QED
    BY <2>1 DEF Ask
<1>3. CASE AskNone(T, accepting)
  BY <1>3 DEF AskNone, flow
<1> QED
  BY <1>1, <1>2, <1>3

\* Nor does any other step.
LEMMA StrandsStep ==
    ASSUME RefusedFirst, TypeOK, NoneStranded, [Next]_vars
    PROVE  NoneStranded'
<1> SUFFICES ASSUME NEW i \in Ids PROVE stage'[i] # "stranded"
  BY DEF NoneStranded
<1>1. stage[i] # "stranded"
  BY DEF NoneStranded
<1>2. ASSUME NEW j \in Ids, HandlePreflight(j) PROVE stage'[i] # "stranded"
  <2>1. stage'[i] \in {"over", "shown", "ready", stage[i]}
    BY <1>2 DEF HandlePreflight, DropPreflight, RejectChange, ReviewChange, RefuseReview, RejectBatch,
       CollectBatch, TypeOK
  <2> QED
    BY <1>1, <2>1
<1>3. ASSUME NEW accepting \in Replacements, StartBatch(accepting) PROVE stage'[i] # "stranded"
  <2>1. AskAll(Targets, accepting) \/ AskSome(Targets, accepting)
    BY <1>3 DEF StartBatch
  <2> QED
    BY <1>1, <2>1, BatchAskStrands
<1>4. ASSUME NEW found, NEW accepting \in Replacements, FinishRefresh(found, accepting)
      PROVE  stage'[i] # "stranded"
  <2>1. CASE AskAll(retry, accepting) \/ AskSome(retry, accepting) \/ AskNone(retry, accepting)
    BY <1>1, <2>1, BatchAskStrands DEF TypeOK
  <2>2. CASE UNCHANGED <<flow, held, batch>>
    BY <1>1, <2>2 DEF flow
  <2> QED
    BY <1>4, <2>1, <2>2 DEF FinishRefresh
<1>5. CASE \/ Discard \/ ConfirmChange \/ ConfirmBatch
           \/ \E j \in Ids : FinishChange(j) \/ FinishChild(j) \/ CancelTask(j)
  <2>1. stage'[i] \in {"over", "starting", "pending", stage[i]}
    BY <1>5, ZenonT(60) DEF Discard, ConfirmChange, ConfirmBatch, FinishChange, FinishChild, CancelTask, TypeOK
  <2> QED
    BY <1>1, <2>1
<1>6. CASE \/ \E kind \in Changes : \E t \in Targets : StartChange(kind, t)
           \/ \E j \in Ids : RetryChild(j)
           \/ \E j \in Ids : \E found \in {"same", "changed", "failed"} : ReadPreflight(j, found)
           \/ \E j \in Ids : Work(j)
  <2>1. stage'[i] \in {"reading", "read", "sent", "answered", stage[i]}
    BY <1>6 DEF StartChange, RetryChild, ReadPreflight, Work, FailUnsent, SendWrite, Verify, TypeOK
  <2> QED
    BY <1>1, <2>1
<1>7. CASE \/ \E kind \in {"full", "devices"} : StartRefresh(kind)
           \/ \E kind \in (Changes \ {"Delete"}) \cup {"Routes"} : OpenForm(kind)
           \/ FailRefresh \/ RefuseOutdated \/ RefuseStale \/ Tick
           \/ \E other \in Profiles : SwitchProfile(other)
           \/ \E j \in Ids : EndTask(j) \/ RetryBatch(j)
           \/ UNCHANGED vars
  BY <1>1, <1>7 DEF StartRefresh, OpenForm, FailRefresh, RefuseOutdated, RefuseStale, Tick,
     SwitchProfile, EndTask, RetryBatch, vars, flow
<1> QED
  BY <1>2, <1>3, <1>4, <1>5, <1>6, <1>7 DEF Next

\* The locks of Tale: each is held for a write that waits, runs or is answered,
\* or for a preflight; release_admin_preflight_lock and the end of a write give
\* all of them back.  The exception, a batch form refused after some of its
\* advertisers were locked, is excluded by the hypothesis: run writes_stranded
\* shows it.
THEOREM NoneOrphaned ==
    ASSUME RefusedFirst
    PROVE  Spec => []NoOrphanedLock
<1>1. Init => NoneStranded
  BY DEF Init, NoneStranded
<1>2. Inv /\ NoneStranded /\ [Next]_vars => NoneStranded'
  BY StrandsStep DEF Inv
<1>3. ASSUME Inv, BatchInv, NoneStranded PROVE NoOrphanedLock
  <2>1. \A k \in Keys : locks[k] # NoOne => locks[k] \in Ids
    BY <1>3, OwnersAreIds DEF Inv
  <2> QED
    BY <1>3, <2>1 DEF NoOrphanedLock, NoneStranded, BatchInv, LocksAreNeeded, Needed, Writing
<1> QED
  BY <1>1, <1>2, <1>3, BatchInvariance, PTL DEF Spec

=============================================================================
