-------------------------- MODULE AdminWritesProofs -------------------------
(***************************************************************************)
(* Proofs about AdminWrites: type correctness, exclusion of two writes to  *)
(* one resource, and that a write stays in the profile it was asked for,   *)
(* for any advertisers, profiles, changes, widths and ages.                *)
(***************************************************************************)
EXTENDS AdminWrites, TLAPS

-----------------------------------------------------------------------------
(* The inductive invariant *)

\* Before the answer of the preflight.
Early == {"unused", "stranded", "reading", "read"}

\* A write under way, or a child that waits for its turn.
Writing == {"pending", "starting", "sent", "answered"}

\* Ids are handed out in order.
UnusedIds == \A i \in Ids : i >= nextId => stage[i] = "unused"

\* The child of advertiser t in the block of p has id p + t, and no request has
\* the id of the parent.
ChildIds ==
    \A i \in Ids : stage[i] # "unused" /\ request[i].parent # 0 =>
        /\ request[i].kind = "Routes"
        /\ i = request[i].parent + request[i].target
        /\ request[i].parent < nextId
        /\ stage[request[i].parent] = "unused"

\* A review shows requests whose preflights were answered.
ShowsRead(o) ==
    /\ o.what = "change" => o.id \in Ids /\ stage[o.id] \notin Early
    /\ o.what = "batch"  => /\ o.id \in Ids /\ o.id < nextId
                            /\ \A i \in Children(o.id) : stage[i] \notin Early

ReviewsAreRead == \A n \in DOMAIN overlays : ShowsRead(overlays[n])

GatheredIds == \A p \in gathering : p < nextId

\* A preflight lock is released no later than the answer is handled.
PreflightsAreEarly == \A i \in preflightLocks : stage[i] \in Early \ {"unused"}

\* What is being written, or will be, owns its resources.
WritersHold ==
    \A i \in Ids : stage[i] \in Writing => \A k \in LockKeys(request[i]) : locks[k] = i

\* The parent of a waiting child has not ended.
ParentsWait ==
    \A i \in Ids : stage[i] = "pending" =>
        request[i].parent # 0 /\ task[request[i].parent] \in Active

Inv == /\ TypeOK
       /\ UnusedIds /\ ChildIds /\ ReviewsAreRead /\ GatheredIds
       /\ PreflightsAreEarly /\ WritersHold /\ ParentsWait
       /\ WritesStayInProfile

-----------------------------------------------------------------------------
(* Type correctness *)

\* Opening, closing and outdating overlays gives sequences of overlays.
LEMMA OverlayTypes ==
    ASSUME TypeOK
    PROVE  /\ Outdated(overlays) \in Seq(Overlays)
           /\ overlays # <<>> => Popped \in Seq(Overlays) /\ Top \in Overlays
           /\ \A o \in Overlays : Append(overlays, o) \in Seq(Overlays)
           /\ \A kind \in {"Device", "Delete", "Routes"} : \A i \in 0..MaxId :
                {Form(kind), Confirmation(kind, i), BatchReview(i)} \subseteq Overlays
<1>1. overlays \in Seq(Overlays)
  BY DEF TypeOK
<1>2. Outdated(overlays) \in Seq(Overlays)
  <2>1. \A n \in 1..Len(overlays) : [overlays[n] EXCEPT !.current = FALSE] \in Overlays
    <3>1. \A o \in Overlays : [o EXCEPT !.current = FALSE] \in Overlays
      BY DEF Overlays
    <3>2. \A n \in 1..Len(overlays) : overlays[n] \in Overlays
      BY <1>1
    <3> QED
      BY <3>1, <3>2
  <2>2. DOMAIN overlays = 1..Len(overlays)
    BY <1>1
  <2> QED
    BY <1>1, <2>1, <2>2 DEF Outdated
<1>3. overlays # <<>> => Popped \in Seq(Overlays) /\ Top \in Overlays
  BY <1>1 DEF Popped, Top
<1>4. \A o \in Overlays : Append(overlays, o) \in Seq(Overlays)
  BY <1>1
<1>5. \A kind \in {"Device", "Delete", "Routes"} : \A i \in 0..MaxId :
         {Form(kind), Confirmation(kind, i), BatchReview(i)} \subseteq Overlays
  BY WritesAssumption DEF Overlays, Form, Confirmation, BatchReview
<1> QED
  BY <1>2, <1>3, <1>4, <1>5

\* The initial states have the types.
LEMMA InitType == Init => TypeOK
BY WritesAssumption DEF Init, TypeOK, Ids, Keys, Targets, Resources, Stages, NoOne, Active, Ended,
   Requests, NoRequest

\* New requests, and those whose state goes on, are requests.
LEMMA RequestTypes ==
    ASSUME TypeOK
    PROVE  /\ \A kind \in {"Device", "Delete", "Routes"} : \A t \in Targets : \A p \in Profiles :
                \A parent \in 0..MaxId : \A state \in MutationStates :
                  NewRequest(kind, t, p, parent, state) \in Requests
           /\ \A i \in Ids : stage[i] # "unused" =>
                /\ request[i] \in Requests
                /\ [request[i] EXCEPT !.state = "AwaitingConfirmation"] \in Requests
                /\ [request[i] EXCEPT !.state = "Dispatching"] \in Requests
<1>1. \A kind \in {"Device", "Delete", "Routes"} : \A t \in Targets : \A p \in Profiles :
        \A parent \in 0..MaxId : \A state \in MutationStates :
          NewRequest(kind, t, p, parent, state) \in Requests
  BY WritesAssumption DEF NewRequest, Requests
<1>2. \A i \in Ids : stage[i] # "unused" => request[i] \in Requests
  BY DEF TypeOK
<1>3. \A r \in Requests : \A state \in {"AwaitingConfirmation", "Dispatching"} :
        [r EXCEPT !.state = state] \in Requests
  <2>1. {"AwaitingConfirmation", "Dispatching"} \subseteq MutationStates
    BY DEF MutationStates
  <2> QED
    BY <2>1 DEF Requests
<1> QED
  BY <1>1, <1>2, <1>3

\* Holding and releasing keys gives every key an owner or none.
LEMMA LockTypes ==
    ASSUME TypeOK
    PROVE  /\ \A owners : Released(owners) \in [Keys -> 0..MaxId]
           /\ \A i \in Ids : \A r : Hold(i, r) \in [Keys -> 0..MaxId]
           /\ \A i \in Ids : ReleasePreflight(i) =>
                locks' \in [Keys -> 0..MaxId] /\ preflightLocks' \subseteq Ids
<1>1. ASSUME NEW owners PROVE Released(owners) \in [Keys -> 0..MaxId]
  BY WritesAssumption DEF TypeOK, Released, NoOne
<1>2. ASSUME NEW i \in Ids, NEW r PROVE Hold(i, r) \in [Keys -> 0..MaxId]
  BY WritesAssumption DEF TypeOK, Hold, Ids
<1>3. ASSUME NEW i \in Ids, ReleasePreflight(i)
      PROVE  locks' \in [Keys -> 0..MaxId] /\ preflightLocks' \subseteq Ids
  BY <1>1, <1>3 DEF TypeOK, ReleasePreflight
<1> QED
  BY <1>1, <1>2, <1>3

\* The disjuncts of TypeOK an action changes are shown by the action, the rest stay.
LEMMA ReadType ==
    ASSUME TypeOK, NEW i \in Ids, NEW found \in {"same", "changed", "failed"},
           ReadPreflight(i, found)
    PROVE  TypeOK'
<1>1. request[i] \in Requests
  BY DEF TypeOK, ReadPreflight
<1>2. [request[i] EXCEPT !.read = found, !.observed = clock] \in Requests
  BY <1>1 DEF TypeOK, Requests
<1>3. request' = [request EXCEPT ![i] = [request[i] EXCEPT !.read = found, !.observed = clock]]
  BY DEF TypeOK, ReadPreflight
<1>4. stage' = [stage EXCEPT ![i] = "read"] /\ UNCHANGED <<clock, admin, nextId, held, batch, overlays, task, remote>> /\ notice' = "None"
  BY DEF ReadPreflight, Quiet
<1> QED
  BY <1>2, <1>3, <1>4 DEF TypeOK, Stages, admin, held, batch, remote, Ids

\* StartChange keeps the types (start_admin_change).
LEMMA StartType ==
    ASSUME TypeOK, NEW kind \in Changes, NEW t \in Targets, StartChange(kind, t)
    PROVE  TypeOK'
<1> DEFINE r == NewRequest(kind, t, profile, 0, "Preflighting")
<1>1. nextId \in Ids
  BY WritesAssumption DEF TypeOK, StartChange, Ids
<1>2. r \in Requests
  BY RequestTypes, WritesAssumption DEF TypeOK, MutationStates
<1>3. Hold(nextId, r) \in [Keys -> 0..MaxId]
  BY <1>1, LockTypes
<1>4. overlays' \in Seq(Overlays)
  BY OverlayTypes DEF TypeOK, StartChange, NoOverlay, OnTop
<1> HIDE DEF r
<1>5. /\ locks' = Hold(nextId, r)
      /\ preflightLocks' = preflightLocks \cup {nextId}
      /\ request' = [request EXCEPT ![nextId] = r]
      /\ stage' = [stage EXCEPT ![nextId] = "reading"]
      /\ nextId' = nextId + 1
      /\ UNCHANGED <<clock, admin, batch, task, remote>>
      /\ notice' = "None"
  BY DEF StartChange, Quiet, r
<1> QED
  BY <1>1, <1>2, <1>3, <1>4, <1>5, SMTT(30) DEF TypeOK, Stages, admin, batch, remote

\* The requests of a batch: ids nextId + t for the advertisers of S.
LEMMA AskType ==
    ASSUME TypeOK, NEW S \in SUBSET Targets, NEW where \in {"reading", "stranded"},
           Room, Ask(S, where)
    PROVE  /\ locks' \in [Keys -> 0..MaxId]
           /\ preflightLocks' \subseteq Ids
           /\ request' \in [Ids -> Requests \cup {NoRequest}]
           /\ stage' \in [Ids -> Stages]
           /\ nextId' \in Nat \ {0}
           /\ \A i \in Ids : stage'[i] # "unused" => request'[i] \in Requests
<1> USE WritesAssumption
<1>1. /\ nextId \in Nat \ {0} /\ nextId + N <= MaxId
      /\ \A t \in Targets : nextId + t \in Ids
  BY DEF TypeOK, Room, Targets, Ids
<1>2. \A k \in Keys : k[3] \in Targets
  BY DEF Keys
<1>3. locks' \in [Keys -> 0..MaxId]
  <2>1. \A k \in Keys : nextId + k[3] \in 0..MaxId
    BY <1>1, <1>2 DEF Ids
  <2> QED
    BY <2>1 DEF TypeOK, Ask
<1>4. preflightLocks' \subseteq Ids
  BY <1>1 DEF TypeOK, Ask
<1>5. ASSUME NEW i \in Ids, NEW t \in S, i = nextId + t
      PROVE  NewRequest("Routes", i - nextId, profile, nextId, "Preflighting") \in Requests
  <2>1. i - nextId = t /\ t \in Targets /\ nextId \in 0..MaxId
    BY <1>1, <1>5 DEF Targets
  <2>2. profile \in Profiles /\ "Preflighting" \in MutationStates
    BY DEF TypeOK, MutationStates
  <2> QED
    BY <2>1, <2>2, RequestTypes
<1>6. /\ request' \in [Ids -> Requests \cup {NoRequest}]
      /\ \A i \in Ids : request'[i] = IF \E t \in S : i = nextId + t
                THEN NewRequest("Routes", i - nextId, profile, nextId, "Preflighting")
                ELSE request[i]
  BY <1>5 DEF TypeOK, Ask
<1>7. /\ stage' \in [Ids -> Stages]
      /\ \A i \in Ids : stage'[i] = IF \E t \in S : i = nextId + t THEN where ELSE stage[i]
  BY DEF TypeOK, Ask, Stages
<1>8. \A i \in Ids : stage'[i] # "unused" => request'[i] \in Requests
  BY <1>5, <1>6, <1>7 DEF TypeOK
<1> QED
  BY <1>1, <1>3, <1>4, <1>6, <1>7, <1>8 DEF Ask

\* AskAll, AskSome and AskNone keep the types of what they change.
LEMMA BatchAskType ==
    ASSUME TypeOK, NEW T \in SUBSET Targets, NEW accepting \in Replacements, Room,
           \/ AskAll(T, accepting)
           \/ AskSome(T, accepting)
           \/ AskNone(T, accepting)
    PROVE  /\ locks' \in [Keys -> 0..MaxId]
           /\ preflightLocks' \subseteq Ids
           /\ request' \in [Ids -> Requests \cup {NoRequest}]
           /\ stage' \in [Ids -> Stages]
           /\ nextId' \in Nat \ {0}
           /\ \A i \in Ids : stage'[i] # "unused" => request'[i] \in Requests
           /\ gathering' \subseteq Ids
           /\ UNCHANGED <<aborted, outcome>>
<1>1. CASE AskAll(T, accepting)
  <2>1. nextId \in Ids
    BY WritesAssumption DEF TypeOK, Room, Ids
  <2>2. Ask(T, "reading") /\ gathering' = gathering \cup {nextId} /\ UNCHANGED <<aborted, outcome>>
    BY <1>1 DEF AskAll
  <2>3. gathering' \subseteq Ids
    BY <2>1, <2>2 DEF TypeOK
  <2> QED
    BY <2>2, <2>3, AskType
<1>2. CASE AskSome(T, accepting)
  <2>1. Before(T, T \ accepting) \in SUBSET Targets
    BY DEF Before
  <2>2. Ask(Before(T, T \ accepting), "stranded") /\ UNCHANGED batch
    BY <1>2 DEF AskSome
  <2>3. gathering' \subseteq Ids /\ UNCHANGED <<aborted, outcome>>
    BY <2>2 DEF TypeOK, batch
  <2> QED
    BY <2>1, <2>2, <2>3, AskType
<1>3. CASE AskNone(T, accepting)
  BY <1>3 DEF AskNone, TypeOK, flow, held, batch
<1> QED
  BY <1>1, <1>2, <1>3

\* StartBatch keeps the types (accept_admin_batch_form).
LEMMA StartBatchType ==
    ASSUME TypeOK, NEW accepting \in Replacements, StartBatch(accepting)
    PROVE  TypeOK'
<1>1. Room /\ (AskAll(Targets, accepting) \/ AskSome(Targets, accepting))
  BY DEF StartBatch
<1>2. overlays' \in Seq(Overlays)
  BY OverlayTypes DEF TypeOK, StartBatch, OnTop
<1>3. UNCHANGED <<clock, admin, task, remote>> /\ notice' = "None"
  BY DEF StartBatch, Quiet
<1> QED
  BY <1>1, <1>2, <1>3, BatchAskType DEF TypeOK, admin, remote

\* FinishRefresh keeps the types, with the batch retry it starts.
LEMMA FinishRefreshType ==
    ASSUME TypeOK, NEW found \in SUBSET Resources, NEW accepting \in Replacements,
           FinishRefresh(found, accepting)
    PROVE  TypeOK'
<1>1. /\ refreshing' = "none" /\ ready' = found /\ retry' \in {retry, {}}
      /\ UNCHANGED <<clock, profile, overlays, task, remote>> /\ notice' = "None"
  BY DEF FinishRefresh, Quiet
<1>2. CASE UNCHANGED <<flow, held, batch>>
  BY <1>1, <1>2 DEF TypeOK, flow, held, batch, remote
<1>3. CASE Room /\ (AskAll(retry, accepting) \/ AskSome(retry, accepting) \/ AskNone(retry, accepting))
  <2>1. retry \in SUBSET Targets
    BY DEF TypeOK
  <2> QED
    BY <1>1, <1>3, <2>1, BatchAskType DEF TypeOK, remote
<1> QED
  BY <1>2, <1>3 DEF FinishRefresh

\* Handling the answer of a preflight keeps the types.
LEMMA PreflightType ==
    ASSUME TypeOK, NEW i \in Ids, HandlePreflight(i)
    PROVE  TypeOK'
<1> USE WritesAssumption
<1>1. /\ ReleasePreflight(i) /\ stage[i] = "read"
      /\ UNCHANGED <<clock, admin, nextId, outcome, task, remote>>
      /\ notice' \in {"None", "InvalidTransition"}
  BY DEF HandlePreflight, DropPreflight, RejectChange, ReviewChange, RefuseReview, RejectBatch,
         CollectBatch, Quiet, Refused, batch
<1>2. locks' \in [Keys -> 0..MaxId] /\ preflightLocks' \subseteq Ids
  BY <1>1, LockTypes
<1>3. /\ request' \in [Ids -> Requests \cup {NoRequest}]
      /\ \A j \in Ids : request[j] \in Requests => request'[j] \in Requests
  <2>1. CASE UNCHANGED request
    BY <2>1 DEF TypeOK
  <2>2. CASE request' = Awaiting(i)
    <3>1. [request[i] EXCEPT !.state = "AwaitingConfirmation"] \in Requests
      BY <1>1, RequestTypes
    <3>2. request' = [request EXCEPT ![i] = [request[i] EXCEPT !.state = "AwaitingConfirmation"]]
      BY <2>2 DEF Awaiting
    <3> QED
      BY <3>1, <3>2 DEF TypeOK
  <2> QED
    BY <2>1, <2>2 DEF HandlePreflight, DropPreflight, RejectChange, ReviewChange, RefuseReview,
         RejectBatch, CollectBatch
<1>4. /\ stage' \in [Ids -> Stages]
      /\ \A j \in Ids : stage'[j] # "unused" => stage[j] # "unused"
  <2>1. CASE \E s \in {"over", "shown", "ready"} : stage' = [stage EXCEPT ![i] = s]
    BY <1>1, <2>1 DEF TypeOK, Stages
  <2>2. CASE RejectBatch(i) \/ CollectBatch(i)
    BY <1>1, <2>2 DEF TypeOK, Stages, RejectBatch, CollectBatch, Children
  <2> QED
    BY <2>1, <2>2 DEF HandlePreflight, DropPreflight, RejectChange, ReviewChange, RefuseReview
<1>5. overlays' \in Seq(Overlays)
  <2>1. request[i].kind \in {"Device", "Delete", "Routes"} /\ request[i].parent \in 0..MaxId /\ i \in 0..MaxId
    BY <1>1 DEF TypeOK, Requests, Ids
  <2>2. {Form("Routes"), Form(request[i].kind), Confirmation(request[i].kind, i), BatchReview(request[i].parent)}
          \subseteq Overlays
    BY <2>1, OverlayTypes
  <2>3. \/ UNCHANGED overlays
        \/ \E o \in {Form("Routes"), Form(request[i].kind), Confirmation(request[i].kind, i),
                      BatchReview(request[i].parent)} : overlays' = Append(overlays, o)
    BY DEF HandlePreflight, DropPreflight, RejectChange, ReviewChange, RefuseReview, RejectBatch,
           CollectBatch, Push
  <2> QED
    BY <2>2, <2>3, OverlayTypes DEF TypeOK
<1>6. gathering' \subseteq Ids /\ aborted' \subseteq Ids
  BY DEF TypeOK, HandlePreflight, DropPreflight, RejectChange, ReviewChange, RefuseReview, RejectBatch,
         CollectBatch, batch, Children
<1> QED
  BY <1>1, <1>2, <1>3, <1>4, <1>5, <1>6 DEF TypeOK, admin, remote

\* Dispatching requests gives requests.
LEMMA DispatchedType ==
    ASSUME TypeOK, NEW D \in SUBSET Ids, \A i \in D : stage[i] # "unused"
    PROVE  /\ Dispatched(D) \in [Ids -> Requests \cup {NoRequest}]
           /\ \A i \in Ids : request[i] \in Requests => Dispatched(D)[i] \in Requests
<1>1. \A i \in D : [request[i] EXCEPT !.state = "Dispatching"] \in Requests
  BY RequestTypes
<1> QED
  BY <1>1 DEF TypeOK, Dispatched

\* ConfirmChange keeps the types: the review shows a request.
LEMMA ConfirmChangeType == TypeOK /\ ReviewsAreRead /\ ConfirmChange => TypeOK'
<1> SUFFICES ASSUME TypeOK, ReviewsAreRead, ConfirmChange PROVE TypeOK'
  OBVIOUS
<1> DEFINE i == Top.id
<1>1. Top = overlays[Len(overlays)] /\ overlays # <<>> /\ Top.what = "change"
  BY DEF ConfirmChange, OnTop, Top
<1>2. Len(overlays) \in DOMAIN overlays
  BY <1>1 DEF TypeOK
<1>3. i \in Ids /\ stage[i] # "unused"
  BY <1>1, <1>2 DEF ReviewsAreRead, ShowsRead, Early
<1>4. Popped \in Seq(Overlays)
  BY <1>1, OverlayTypes
<1>5. Hold(i, request[i]) \in [Keys -> 0..MaxId]
  BY <1>3, LockTypes
<1> HIDE DEF i
<1>6. /\ Dispatched({i}) \in [Ids -> Requests \cup {NoRequest}]
      /\ \A j \in Ids : request[j] \in Requests => Dispatched({i})[j] \in Requests
  BY <1>3, DispatchedType
<1>7. /\ locks' = Hold(i, request[i])
      /\ request' = Dispatched({i})
      /\ stage' = [stage EXCEPT ![i] = "starting"]
      /\ task' = [task EXCEPT ![i] = "Running"]
      /\ overlays' = Popped
      /\ UNCHANGED <<clock, admin, nextId, preflightLocks, batch, remote>>
      /\ notice' = "None"
  BY DEF ConfirmChange, Quiet, i
<1> QED
  BY <1>3, <1>4, <1>5, <1>6, <1>7 DEF TypeOK, Stages, Active, admin, batch, remote

\* ConfirmBatch keeps the types: each child owns its keys by its own id.
LEMMA ConfirmBatchType == TypeOK /\ ChildIds /\ ReviewsAreRead /\ ConfirmBatch => TypeOK'
<1> SUFFICES ASSUME TypeOK, ChildIds, ReviewsAreRead, ConfirmBatch PROVE TypeOK'
  OBVIOUS
<1> DEFINE p == Top.id
           C == Children(p)
<1>1. Top = overlays[Len(overlays)] /\ overlays # <<>> /\ Top.what = "batch"
  BY DEF ConfirmBatch, OnTop, Top
<1>2. Len(overlays) \in DOMAIN overlays
  BY <1>1 DEF TypeOK
<1>3. p \in Ids
  BY <1>1, <1>2 DEF ReviewsAreRead, ShowsRead
<1>4. C \subseteq Ids /\ First(C) \subseteq C /\ \A j \in C : stage[j] # "unused"
  BY DEF Children, First
<1>5. Popped \in Seq(Overlays)
  BY <1>1, OverlayTypes
<1>6. locks' \in [Keys -> 0..MaxId]
  <2>1. \A j \in C : \A k \in LockKeys(request[j]) : k[3] = request[j].target
    BY DEF LockKeys
  <2>2. \A j \in C : p + request[j].target \in 0..MaxId
    BY <1>3 DEF ChildIds, Children, Ids
  <2> QED
    BY <2>1, <2>2 DEF TypeOK, ConfirmBatch
<1> HIDE DEF p, C
<1>7. /\ Dispatched(First(C)) \in [Ids -> Requests \cup {NoRequest}]
      /\ \A j \in Ids : request[j] \in Requests => Dispatched(First(C))[j] \in Requests
  BY <1>4, DispatchedType
<1>8. /\ request' = Dispatched(First(C))
      /\ stage' = [j \in Ids |-> IF j \in First(C) THEN "starting"
                                ELSE IF j \in C THEN "pending" ELSE stage[j]]
      /\ task' = [j \in Ids |-> IF j = p \/ j \in First(C) THEN "Running" ELSE task[j]]
      /\ overlays' = Popped
      /\ UNCHANGED <<clock, admin, nextId, preflightLocks, batch, remote>>
      /\ notice' = "None"
  BY DEF ConfirmBatch, Quiet, p, C
<1> QED
  BY <1>3, <1>4, <1>5, <1>6, <1>7, <1>8 DEF TypeOK, Stages, Active, admin, batch, remote

\* The steps of the worker keep the types (run_admin_mutation).
LEMMA WorkType ==
    ASSUME TypeOK, NEW i \in Ids, Work(i) \/ EndTask(i)
    PROVE  TypeOK'
<1>1. CASE FailUnsent(i)
  BY <1>1 DEF TypeOK, FailUnsent, Quiet, Stages, admin, held, remote
<1>2. CASE SendWrite(i)
  BY <1>2 DEF TypeOK, SendWrite, Quiet, Stages, admin, held, batch
<1>3. ASSUME NEW response, NEW check, NEW effective, Verify(i, response, check, effective)
      PROVE  TypeOK'
  <2>1. Report(response, check) \in {"VerifiedSuccess", "SucceededUnverified", "OutcomeUnknown", "Failed"}
    BY DEF Report
  <2> QED
    BY <1>3, <2>1 DEF TypeOK, Verify, Quiet, Stages, admin, held
<1>4. CASE EndTask(i)
  BY <1>4 DEF TypeOK, EndTask, Quiet, Ended, admin, flow, held, batch, remote
<1> QED
  BY <1>1, <1>2, <1>3, <1>4 DEF Work

\* A new refresh keeps the types of what it sets.
LEMMA RefreshType ==
    ASSUME TypeOK, NEW kind \in {"full", "devices", "routes"}, Refresh(kind)
    PROVE  /\ refreshing' \in {"none", "full", "devices", "routes"}
           /\ ready' \subseteq Resources
           /\ profile' \in Profiles
BY DEF TypeOK, Refresh

\* FinishChange and FinishChild keep the types.
LEMMA FinishType ==
    ASSUME TypeOK, NEW i \in Ids, FinishChange(i) \/ FinishChild(i)
    PROVE  TypeOK'
<1>1. Released({i}) \in [Keys -> 0..MaxId] /\ Outdated(overlays) \in Seq(Overlays)
  BY LockTypes, OverlayTypes
<1>2. CASE FinishChange(i)
  <2>1. Refresh("devices")
    BY <1>2 DEF FinishChange
  <2> QED
    BY <1>1, <1>2, <2>1, RefreshType DEF TypeOK, FinishChange, Quiet, Stages, batch, remote
<1>3. CASE FinishChild(i)
  <2> DEFINE p == request[i].parent
             go == IF task[p] = "Cancelling" THEN {}
                   ELSE {j \in Pending(p) : \A k \in Pending(p) : j <= k}
             last == \A j \in Children(p) \ {i} : stage[j] = "over"
  <2>1. go \subseteq Ids /\ \A j \in go : stage[j] = "pending"
    BY DEF Pending, Children
  <2>2. BatchEnd(p) \in Ended
    BY DEF BatchEnd, Ended
  <2>3. /\ locks' = Released({i})
        /\ stage' = [j \in Ids |-> IF j = i THEN "over" ELSE IF j \in go THEN "starting" ELSE stage[j]]
        /\ request' = Dispatched(go)
        /\ task' = [j \in Ids |-> IF j \in go THEN "Running"
                                  ELSE IF j = p /\ last THEN BatchEnd(p) ELSE task[j]]
        /\ UNCHANGED <<clock, retry, nextId, preflightLocks, batch, remote>>
        /\ notice' = "None"
        /\ stage[i] = "answered"
    BY <1>3 DEF FinishChild, Quiet
  <2>4. /\ refreshing' \in {"none", "full", "devices", "routes"}
        /\ ready' \subseteq Resources
        /\ profile' \in Profiles
        /\ overlays' \in Seq(Overlays)
    <3>1. \/ Refresh("routes") /\ overlays' = Outdated(overlays)
          \/ UNCHANGED <<profile, refreshing, ready, overlays>>
      BY <1>3 DEF FinishChild
    <3> QED
      BY <1>1, <3>1, RefreshType DEF TypeOK
  <2> HIDE DEF go, last, p
  <2>5. /\ Dispatched(go) \in [Ids -> Requests \cup {NoRequest}]
        /\ \A j \in Ids : request[j] \in Requests => Dispatched(go)[j] \in Requests
    BY <2>1, DispatchedType
  <2>6. stage' \in [Ids -> Stages] /\ \A j \in Ids : stage'[j] # "unused" => stage[j] # "unused"
    BY <2>1, <2>3 DEF TypeOK, Stages
  <2>7. task' \in [Ids -> {"None"} \cup Active \cup Ended]
    BY <2>2, <2>3 DEF TypeOK, Active
  <2> QED
    BY <1>1, <2>3, <2>4, <2>5, <2>6, <2>7 DEF TypeOK, batch, remote
<1> QED
  BY <1>2, <1>3

\* Cancelling and retrying keep the types (cancel_task, retry_admin_mutation).
LEMMA TaskType ==
    ASSUME TypeOK, NEW i \in Ids, CancelTask(i) \/ RetryChild(i) \/ RetryBatch(i)
    PROVE  TypeOK'
<1>1. CASE CancelTask(i)
  <2>1. Released(Pending(i)) \in [Keys -> 0..MaxId]
    BY LockTypes
  <2>2. \A j \in Pending(i) : stage[j] = "pending"
    BY DEF Pending
  <2> QED
    BY <1>1, <2>1, <2>2 DEF TypeOK, CancelTask, Quiet, Stages, Active, admin, remote
<1>2. CASE RetryChild(i)
  <2>1. PICK r : /\ r = NewRequest("Routes", request[i].target, request[i].profile, 0, "Editing")
                 /\ locks' = Hold(nextId, r)
                 /\ request' = [request EXCEPT ![nextId] = r]
    BY <1>2 DEF RetryChild
  <2>2. nextId \in Ids
    BY <1>2, WritesAssumption DEF TypeOK, RetryChild, Ids
  <2>3. request[i] \in Requests
    BY <1>2 DEF TypeOK, RetryChild, HasReplay, NoRequest, First, Children
  <2>4. r \in Requests
    <3>1. request[i].target \in Targets /\ request[i].profile \in Profiles
      BY <2>3 DEF Requests
    <3>2. "Editing" \in MutationStates /\ 0 \in 0..MaxId
      BY WritesAssumption DEF MutationStates
    <3> QED
      BY <2>1, <3>1, <3>2, RequestTypes
  <2>5. Hold(nextId, r) \in [Keys -> 0..MaxId]
    BY <2>2, LockTypes
  <2>6. /\ preflightLocks' = preflightLocks \cup {nextId}
        /\ stage' = [stage EXCEPT ![nextId] = "reading"]
        /\ nextId' = nextId + 1
        /\ UNCHANGED <<clock, admin, batch, overlays, task, remote>>
        /\ notice' = "None"
    BY <1>2 DEF RetryChild, Quiet
  <2> QED
    BY <2>1, <2>2, <2>4, <2>5, <2>6, SMTT(30) DEF TypeOK, Stages, admin, batch, remote
<1>3. CASE RetryBatch(i)
  <2>1. Unverified(i) \subseteq Targets
    <3>1. \A j \in Children(i) : request[j] \in Requests
      BY DEF Children, TypeOK
    <3> QED
      BY <3>1 DEF Unverified, Requests
  <2>2. Refresh("devices") /\ retry' = Unverified(i) /\ notice' = "None"
        /\ UNCHANGED <<clock, flow, held, batch, overlays, task, remote>>
    BY <1>3 DEF RetryBatch, Quiet
  <2> QED
    BY <2>1, <2>2, RefreshType DEF TypeOK, flow, held, batch, remote
<1> QED
  BY <1>1, <1>2, <1>3

\* What the user does to forms, reviews and the profile keeps the types.
LEMMA UserType ==
    ASSUME TypeOK, ReviewsAreRead,
           \/ \E kind \in {"full", "devices"} : StartRefresh(kind)
           \/ \E kind \in (Changes \ {"Delete"}) \cup {"Routes"} : OpenForm(kind)
           \/ Discard \/ FailRefresh \/ RefuseOutdated \/ RefuseStale \/ Tick
           \/ \E other \in Profiles : SwitchProfile(other)
    PROVE  TypeOK'
<1>1. ASSUME NEW kind \in {"full", "devices"}, StartRefresh(kind) PROVE TypeOK'
  <2>1. Refresh(kind) /\ notice' = "None"
        /\ UNCHANGED <<clock, retry, flow, held, batch, overlays, task, remote>>
    BY <1>1 DEF StartRefresh, Quiet
  <2> QED
    BY <2>1, RefreshType DEF TypeOK, flow, held, batch, remote
<1>2. ASSUME NEW kind \in (Changes \ {"Delete"}) \cup {"Routes"}, OpenForm(kind) PROVE TypeOK'
  <2>1. Form(kind) \in Overlays
    BY OverlayTypes, WritesAssumption
  <2>2. overlays' \in Seq(Overlays)
    BY <1>2, <2>1, OverlayTypes DEF OpenForm, Push
  <2> QED
    BY <1>2, <2>2 DEF TypeOK, OpenForm, Quiet, admin, flow, held, batch, remote
<1>3. CASE Discard
  <2>1. overlays' \in Seq(Overlays)
    BY <1>3, OverlayTypes DEF Discard, NoOverlay
  <2> DEFINE D == {i \in Ids : \/ Top.what = "change" /\ i = Top.id
                               \/ Top.what = "batch" /\ stage[i] = "shown" /\ request[i].parent = Top.id}
  <2>2. stage' = [i \in Ids |-> IF i \in D THEN "over" ELSE stage[i]]
    BY <1>3 DEF Discard
  <2>3. UNCHANGED <<clock, admin, request, nextId, held, batch, task, remote>> /\ notice' = "None"
    BY <1>3 DEF Discard, Quiet
  <2>4. \A i \in D : stage[i] # "unused"
    <3>1. Top = overlays[Len(overlays)] /\ Len(overlays) \in DOMAIN overlays
      BY <1>3 DEF TypeOK, Discard, NoOverlay, Top
    <3>2. ShowsRead(Top)
      BY <3>1 DEF ReviewsAreRead
    <3> QED
      BY <3>2 DEF ShowsRead, Early
  <2> HIDE DEF D
  <2> QED
    BY <2>1, <2>2, <2>3, <2>4 DEF TypeOK, Stages, admin, held, batch, remote
<1>4. CASE FailRefresh
  BY <1>4 DEF TypeOK, FailRefresh, Quiet, flow, held, batch, remote
<1>5. CASE RefuseOutdated \/ RefuseStale
  BY <1>5 DEF TypeOK, RefuseOutdated, RefuseStale, Refused, admin, flow, held, batch, remote
<1>6. CASE Tick
  BY <1>6, WritesAssumption DEF TypeOK, Tick, Quiet, admin, flow, held, batch, remote
<1>7. ASSUME NEW other \in Profiles, SwitchProfile(other) PROVE TypeOK'
  <2>1. Released(preflightLocks) \in [Keys -> 0..MaxId] /\ Outdated(overlays) \in Seq(Overlays)
    BY LockTypes, OverlayTypes
  <2> QED
    BY <1>7, <2>1 DEF TypeOK, SwitchProfile, Quiet, flow, batch, remote
<1> QED
  BY <1>1, <1>2, <1>3, <1>4, <1>5, <1>6, <1>7

\* Every step keeps the types.
LEMMA TypeStep ==
    ASSUME TypeOK, ChildIds, ReviewsAreRead, [Next]_vars
    PROVE  TypeOK'
<1>1. CASE \/ \E kind \in {"full", "devices"} : StartRefresh(kind)
           \/ \E kind \in (Changes \ {"Delete"}) \cup {"Routes"} : OpenForm(kind)
           \/ Discard \/ FailRefresh \/ RefuseOutdated \/ RefuseStale \/ Tick
           \/ \E other \in Profiles : SwitchProfile(other)
  BY <1>1, UserType
<1>2. ASSUME NEW kind \in Changes, NEW t \in Targets, StartChange(kind, t) PROVE TypeOK'
  BY <1>2, StartType
<1>3. ASSUME NEW accepting \in Replacements, StartBatch(accepting) PROVE TypeOK'
  BY <1>3, StartBatchType
<1>4. ASSUME NEW i \in Ids, NEW found \in {"same", "changed", "failed"}, ReadPreflight(i, found)
      PROVE  TypeOK'
  BY <1>4, ReadType
<1>5. ASSUME NEW i \in Ids, HandlePreflight(i) PROVE TypeOK'
  BY <1>5, PreflightType
<1>6. CASE ConfirmChange \/ ConfirmBatch
  BY <1>6, ConfirmChangeType, ConfirmBatchType
<1>7. ASSUME NEW i \in Ids, Work(i) \/ EndTask(i) PROVE TypeOK'
  BY <1>7, WorkType
<1>8. ASSUME NEW i \in Ids, FinishChange(i) \/ FinishChild(i) PROVE TypeOK'
  BY <1>8, FinishType
<1>9. ASSUME NEW i \in Ids, CancelTask(i) \/ RetryChild(i) \/ RetryBatch(i) PROVE TypeOK'
  BY <1>9, TaskType
<1>10. ASSUME NEW found \in SUBSET Resources, NEW accepting \in Replacements,
              FinishRefresh(found, accepting)
       PROVE  TypeOK'
  BY <1>10, FinishRefreshType
<1>11. CASE UNCHANGED vars
  BY <1>11 DEF TypeOK, vars, admin, flow, held, batch, remote
<1> QED
  BY <1>1, <1>2, <1>3, <1>4, <1>5, <1>6, <1>7, <1>8, <1>9, <1>10, <1>11 DEF Next

-----------------------------------------------------------------------------
(* How requests are born and how they move *)

\* What a request asks for never changes.
SameRequest(i) == /\ request'[i].kind = request[i].kind
                  /\ request'[i].target = request[i].target
                  /\ request'[i].profile = request[i].profile
                  /\ request'[i].parent = request[i].parent

\* A new request has an id not handed out before; a child also has its place in
\* the block of its parent.
Born(i) == /\ nextId <= i /\ i < nextId'
           /\ stage'[i] \in {"reading", "stranded"}
           /\ request'[i].parent # 0 =>
                /\ request'[i].parent = nextId
                /\ request'[i].kind = "Routes"
                /\ i = nextId + request'[i].target
                /\ stage'[nextId] = "unused"

\* A request goes on, but never back before its preflight; one that lost its
\* batch stays where it is.
Goes(i) == /\ stage'[i] # "unused" /\ SameRequest(i)
           /\ stage[i] \notin Early => stage'[i] \notin Early
           /\ stage[i] = "stranded" => stage'[i] = "stranded"

Moves == /\ nextId' \in Nat /\ nextId' >= nextId
         /\ \A i \in Ids : IF stage[i] = "unused" THEN stage'[i] = "unused" \/ Born(i)
                                                ELSE Goes(i)

\* Dispatching a request does not change what it asks for.
LEMMA DispatchedSame ==
    ASSUME NEW D, request' = Dispatched(D)
    PROVE  \A i \in Ids : request[i] \in Requests => SameRequest(i)
BY DEF Dispatched, SameRequest, Requests

\* A batch takes its ids from those not handed out, in its own block.
LEMMA AskMoves ==
    ASSUME TypeOK, UnusedIds, NEW S \in SUBSET Targets, NEW where \in {"reading", "stranded"},
           Room, Ask(S, where)
    PROVE  Moves
<1> USE WritesAssumption
<1>1. nextId \in Nat \ {0} /\ nextId + N <= MaxId /\ \A t \in S : t \in Nat /\ 0 < t /\ t <= N
  BY DEF TypeOK, Room, Targets
<1>2. \A i \in Ids : stage'[i] = IF \E t \in S : i = nextId + t THEN where ELSE stage[i]
  BY DEF Ask
<1>3. \A i \in Ids : request'[i] = IF \E t \in S : i = nextId + t
          THEN NewRequest("Routes", i - nextId, profile, nextId, "Preflighting") ELSE request[i]
  BY DEF Ask
<1>4. nextId' = nextId + N + 1
  BY DEF Ask
<1>5. ASSUME NEW i \in Ids, NEW t \in S, i = nextId + t
      PROVE  stage[i] = "unused" /\ Born(i)
  <2>1. stage[i] = "unused"
    BY <1>1, <1>5 DEF UnusedIds, Ids
  <2>2. nextId \in Ids /\ stage'[nextId] = "unused"
    BY <1>1, <1>2 DEF UnusedIds, Ids
  <2>3. request'[i] = NewRequest("Routes", i - nextId, profile, nextId, "Preflighting") /\ stage'[i] = where
    BY <1>2, <1>3, <1>5
  <2> QED
    BY <1>1, <1>4, <1>5, <2>1, <2>2, <2>3 DEF Born, NewRequest, Ids
<1>6. ASSUME NEW i \in Ids, ~ \E t \in S : i = nextId + t
      PROVE  stage'[i] = stage[i] /\ SameRequest(i)
  BY <1>2, <1>3, <1>6 DEF SameRequest
<1> QED
  BY <1>1, <1>4, <1>5, <1>6 DEF Moves, Goes

\* Asking for a batch, wholly, in part or not at all, moves nothing else.
LEMMA BatchAskMoves ==
    ASSUME TypeOK, UnusedIds, NEW T \in SUBSET Targets, NEW accepting, Room,
           \/ AskAll(T, accepting)
           \/ AskSome(T, accepting)
           \/ AskNone(T, accepting)
    PROVE  Moves
<1>1. CASE AskAll(T, accepting)
  BY <1>1, AskMoves DEF AskAll
<1>2. CASE AskSome(T, accepting)
  <2>1. Before(T, T \ accepting) \in SUBSET Targets
    BY DEF Before
  <2> QED
    BY <1>2, <2>1, AskMoves DEF AskSome
<1>3. CASE AskNone(T, accepting)
  BY <1>3 DEF AskNone, flow, Moves, Goes, SameRequest, TypeOK
<1> QED
  BY <1>1, <1>2, <1>3

\* A single request takes the next id.
LEMMA OneMoves ==
    ASSUME TypeOK, UnusedIds, NEW r, r.parent = 0, nextId \in Ids,
           request' = [request EXCEPT ![nextId] = r],
           stage' = [stage EXCEPT ![nextId] = "reading"],
           nextId' = nextId + 1
    PROVE  Moves
<1>1. stage[nextId] = "unused" /\ Born(nextId)
  BY DEF UnusedIds, Born, TypeOK, Ids
<1>2. \A i \in Ids \ {nextId} : stage'[i] = stage[i] /\ request'[i] = request[i]
  BY DEF TypeOK
<1> QED
  BY <1>1, <1>2 DEF Moves, Goes, SameRequest, TypeOK

\* Steps that leave the requests alone.
LEMMA StayMoves ==
    ASSUME TypeOK, UNCHANGED flow
    PROVE  Moves
BY DEF flow, Moves, Goes, SameRequest, TypeOK

\* Steps that hand out no id.
LEMMA OldMoves ==
    ASSUME TypeOK, UNCHANGED nextId,
           \A i \in Ids : IF stage[i] = "unused" THEN stage'[i] = "unused"
                          ELSE /\ stage'[i] = stage[i] \/ stage[i] # "stranded"
                               /\ stage'[i] \notin {"unused", "stranded"} \/ stage'[i] = stage[i]
                               /\ stage[i] \notin Early => stage'[i] \notin Early
                               /\ SameRequest(i)
    PROVE  Moves
BY DEF Moves, Goes, TypeOK

\* Handling a preflight moves its request and its siblings forward.
LEMMA PreflightMoves ==
    ASSUME TypeOK, NEW i \in Ids, HandlePreflight(i)
    PROVE  Moves
<1>1. stage[i] = "read" /\ UNCHANGED nextId
  BY DEF HandlePreflight, DropPreflight, RejectChange, ReviewChange, RefuseReview, RejectBatch,
         CollectBatch
<1>2. \A j \in Ids : SameRequest(j)
  <2>1. UNCHANGED request \/ request' = Awaiting(i)
    BY DEF HandlePreflight, DropPreflight, RejectChange, ReviewChange, RefuseReview, RejectBatch,
           CollectBatch
  <2>2. request[i] \in Requests
    BY <1>1 DEF TypeOK
  <2> QED
    BY <2>1, <2>2, SMTT(30) DEF Awaiting, SameRequest, TypeOK, Requests
<1>3. \A j \in Ids : stage'[j] = stage[j] \/ (/\ stage[j] \notin {"unused", "stranded"}
                                              /\ stage'[j] \in {"over", "shown", "ready"})
  <2>1. CASE \E s \in {"over", "shown", "ready"} : stage' = [stage EXCEPT ![i] = s]
    BY <1>1, <2>1 DEF TypeOK
  <2>2. CASE RejectBatch(i) \/ CollectBatch(i)
    BY <1>1, <2>2 DEF TypeOK, RejectBatch, CollectBatch, Children
  <2> QED
    BY <2>1, <2>2 DEF HandlePreflight, DropPreflight, RejectChange, ReviewChange, RefuseReview
<1> QED
  BY <1>1, <1>2, <1>3, OldMoves DEF Early

\* Every step moves the requests forward.
LEMMA MovesStep ==
    ASSUME TypeOK, UnusedIds, ReviewsAreRead, [Next]_vars
    PROVE  Moves
<1> USE WritesAssumption
<1>1. CASE \/ \E kind \in {"full", "devices"} : StartRefresh(kind)
           \/ \E kind \in (Changes \ {"Delete"}) \cup {"Routes"} : OpenForm(kind)
           \/ FailRefresh \/ RefuseOutdated \/ RefuseStale \/ Tick
           \/ \E other \in Profiles : SwitchProfile(other)
           \/ \E i \in Ids : EndTask(i) \/ RetryBatch(i)
           \/ UNCHANGED vars
  BY <1>1, StayMoves DEF StartRefresh, OpenForm, FailRefresh, RefuseOutdated, RefuseStale, Tick,
     SwitchProfile, EndTask, RetryBatch, vars
<1>2. CASE Discard
  <2>1. Top = overlays[Len(overlays)] /\ Len(overlays) \in DOMAIN overlays
    BY <1>2 DEF TypeOK, Discard, NoOverlay, Top
  <2>2. ShowsRead(Top)
    BY <2>1 DEF ReviewsAreRead
  <2>3. \A i \in Ids : stage'[i] = stage[i] \/ (stage[i] \notin Early /\ stage'[i] = "over")
    BY <1>2, <2>2 DEF Discard, ShowsRead, Early
  <2>4. UNCHANGED <<request, nextId>>
    BY <1>2 DEF Discard
  <2> QED
    BY <2>3, <2>4, OldMoves DEF Early, SameRequest
<1>3. ASSUME NEW kind \in Changes, NEW t \in Targets, StartChange(kind, t) PROVE Moves
  <2> DEFINE r == NewRequest(kind, t, profile, 0, "Preflighting")
  <2>1. r.parent = 0
    BY DEF NewRequest
  <2>2. nextId \in Ids
    BY <1>3 DEF StartChange, TypeOK, Ids
  <2>3. /\ request' = [request EXCEPT ![nextId] = r]
        /\ stage' = [stage EXCEPT ![nextId] = "reading"]
        /\ nextId' = nextId + 1
    BY <1>3 DEF StartChange
  <2> HIDE DEF r
  <2> QED
    BY <2>1, <2>2, <2>3, OneMoves
<1>4. ASSUME NEW accepting \in Replacements, StartBatch(accepting) PROVE Moves
  BY <1>4, BatchAskMoves DEF StartBatch
<1>5. ASSUME NEW i \in Ids, NEW found \in {"same", "changed", "failed"}, ReadPreflight(i, found)
      PROVE  Moves
  <2>1. request[i] \in Requests /\ stage[i] = "reading"
    BY <1>5 DEF TypeOK, ReadPreflight
  <2>2. \A j \in Ids : SameRequest(j)
    BY <1>5, <2>1 DEF ReadPreflight, SameRequest, TypeOK, Requests
  <2> QED
    BY <1>5, <2>1, <2>2, OldMoves DEF ReadPreflight, TypeOK, Early
<1>6. ASSUME NEW i \in Ids, HandlePreflight(i) PROVE Moves
  BY <1>6, PreflightMoves
<1>7. CASE ConfirmChange
  <2> DEFINE i == Top.id
  <2>1. Top = overlays[Len(overlays)] /\ Len(overlays) \in DOMAIN overlays /\ Top.what = "change"
    BY <1>7 DEF TypeOK, ConfirmChange, OnTop, Top
  <2>2. i \in Ids /\ stage[i] \notin Early
    BY <2>1 DEF ReviewsAreRead, ShowsRead
  <2>3. stage' = [stage EXCEPT ![i] = "starting"] /\ request' = Dispatched({i}) /\ UNCHANGED nextId
    BY <1>7 DEF ConfirmChange
  <2>4. \A j \in Ids : stage[j] # "unused" => SameRequest(j)
    BY <2>3, DispatchedSame DEF TypeOK
  <2> HIDE DEF i
  <2> QED
    BY <2>2, <2>3, <2>4, OldMoves DEF TypeOK, Early
<1>8. CASE ConfirmBatch
  <2> DEFINE C == Children(Top.id)
  <2>1. Top = overlays[Len(overlays)] /\ Len(overlays) \in DOMAIN overlays /\ Top.what = "batch"
    BY <1>8 DEF TypeOK, ConfirmBatch, OnTop, Top
  <2>2. \A j \in C : stage[j] \notin Early
    BY <2>1 DEF ReviewsAreRead, ShowsRead
  <2>3. /\ stage' = [j \in Ids |-> IF j \in First(C) THEN "starting"
                                 ELSE IF j \in C THEN "pending" ELSE stage[j]]
        /\ request' = Dispatched(First(C)) /\ UNCHANGED nextId
    BY <1>8 DEF ConfirmBatch
  <2>4. \A j \in Ids : stage[j] # "unused" => SameRequest(j)
    BY <2>3, DispatchedSame DEF TypeOK
  <2>5. First(C) \subseteq C
    BY DEF First
  <2> HIDE DEF C
  <2> QED
    BY <2>2, <2>3, <2>4, <2>5, OldMoves DEF TypeOK, Early
<1>9. ASSUME NEW i \in Ids, Work(i) PROVE Moves
  <2>1. /\ UNCHANGED <<request, nextId>>
        /\ \E s \in {"answered", "sent"} : stage' = [stage EXCEPT ![i] = s]
        /\ stage[i] \in {"starting", "sent"}
    BY <1>9 DEF Work, FailUnsent, SendWrite, Verify
  <2> QED
    BY <2>1, OldMoves DEF TypeOK, Early, SameRequest
<1>10. ASSUME NEW i \in Ids, FinishChange(i) PROVE Moves
  BY <1>10, OldMoves DEF FinishChange, TypeOK, Early, SameRequest
<1>11. ASSUME NEW i \in Ids, FinishChild(i) PROVE Moves
  <2>1. PICK go \in SUBSET Pending(request[i].parent) :
             /\ stage' = [j \in Ids |-> IF j = i THEN "over" ELSE IF j \in go THEN "starting" ELSE stage[j]]
             /\ request' = Dispatched(go)
    BY <1>11 DEF FinishChild
  <2>2. stage[i] = "answered" /\ UNCHANGED nextId /\ \A j \in go : stage[j] = "pending"
    BY <1>11 DEF FinishChild, Pending
  <2>3. \A j \in Ids : stage[j] # "unused" => SameRequest(j)
    BY <2>1, DispatchedSame DEF TypeOK
  <2> QED
    BY <2>1, <2>2, <2>3, OldMoves DEF TypeOK, Early
<1>12. ASSUME NEW i \in Ids, CancelTask(i) PROVE Moves
  <2>1. \A j \in Pending(i) : stage[j] = "pending"
    BY DEF Pending
  <2> QED
    BY <1>12, <2>1, OldMoves DEF CancelTask, TypeOK, Early, SameRequest
<1>13. ASSUME NEW i \in Ids, RetryChild(i) PROVE Moves
  <2>1. PICK r : /\ r = NewRequest("Routes", request[i].target, request[i].profile, 0, "Editing")
                 /\ request' = [request EXCEPT ![nextId] = r]
    BY <1>13 DEF RetryChild
  <2>2. r.parent = 0
    BY <2>1 DEF NewRequest
  <2>3. nextId \in Ids /\ stage' = [stage EXCEPT ![nextId] = "reading"] /\ nextId' = nextId + 1
    BY <1>13 DEF RetryChild, TypeOK, Ids
  <2> QED
    BY <2>1, <2>2, <2>3, OneMoves
<1>14. ASSUME NEW found, NEW accepting, FinishRefresh(found, accepting) PROVE Moves
  <2>1. CASE UNCHANGED <<flow, held, batch>>
    BY <2>1, StayMoves
  <2>2. CASE Room /\ (AskAll(retry, accepting) \/ AskSome(retry, accepting) \/ AskNone(retry, accepting))
    BY <2>2, BatchAskMoves DEF TypeOK
  <2> QED
    BY <1>14, <2>1, <2>2 DEF FinishRefresh
<1> QED
  BY <1>1, <1>2, <1>3, <1>4, <1>5, <1>6, <1>7, <1>8, <1>9, <1>10, <1>11, <1>12, <1>13, <1>14 DEF Next
-----------------------------------------------------------------------------
(* Ids and reviews *)

\* Ids go on being handed out in order, and children stay in their blocks.
LEMMA IdsStep ==
    ASSUME TypeOK, TypeOK', UnusedIds, ChildIds, Moves
    PROVE  UnusedIds' /\ ChildIds'
<1>1. UnusedIds'
  BY DEF UnusedIds, Moves, Born, Goes, TypeOK, Ids
<1>2. ASSUME NEW i \in Ids, stage'[i] # "unused", request'[i].parent # 0
      PROVE  /\ request'[i].kind = "Routes"
             /\ i = request'[i].parent + request'[i].target
             /\ request'[i].parent < nextId'
             /\ stage'[request'[i].parent] = "unused"
  <2>1. CASE stage[i] = "unused"
    <3>1. Born(i)
      BY <1>2, <2>1 DEF Moves
    <3>2. nextId \in Nat /\ nextId' \in Nat
      BY DEF TypeOK
    <3>3. request'[i].parent = nextId /\ request'[i].kind = "Routes" /\ i = nextId + request'[i].target
          /\ stage'[nextId] = "unused"
      BY <1>2, <3>1 DEF Born
    <3>4. nextId < nextId'
      BY <3>1, <3>2 DEF Born, Ids
    <3> QED
      BY <3>3, <3>4
  <2>2. CASE stage[i] # "unused"
    <3>1. SameRequest(i) /\ request[i].parent # 0
      BY <1>2, <2>2 DEF Moves, Goes, SameRequest
    <3>2. /\ request[i].kind = "Routes"
          /\ i = request[i].parent + request[i].target
          /\ request[i].parent < nextId
          /\ stage[request[i].parent] = "unused"
      BY <2>2, <3>1 DEF ChildIds
    <3>3. request[i].parent \in Ids
      BY <2>2, <3>1 DEF TypeOK, Requests, Ids
    <3>4. stage'[request[i].parent] = "unused"
      BY <3>2, <3>3 DEF Moves, Born, TypeOK, Ids
    <3> QED
      BY <3>1, <3>2, <3>3, <3>4 DEF SameRequest, Moves, TypeOK, Ids
  <2> QED
    BY <2>1, <2>2
<1> QED
  BY <1>1, <1>2 DEF ChildIds

\* What o shows has been read after the step.
WillShowRead(o) ==
    /\ o.what = "change" => o.id \in Ids /\ stage'[o.id] \notin Early
    /\ o.what = "batch"  =>
         /\ o.id \in Ids /\ o.id < nextId'
         /\ \A i \in Ids : stage'[i] \notin {"unused", "stranded"} /\ request'[i].parent = o.id
                          => stage'[i] \notin Early

\* Reviews are read after the step when each of the overlays is.
LEMMA ReviewsFromOverlays ==
    ASSUME \A n \in DOMAIN overlays' : WillShowRead(overlays'[n])
    PROVE  ReviewsAreRead'
BY DEF ReviewsAreRead, ShowsRead, WillShowRead, Children

\* A review goes on showing requests that were read.
LEMMA OldReviews ==
    ASSUME TypeOK, Moves
    PROVE  \A o \in Overlays : ShowsRead(o) => WillShowRead(o)
<1> SUFFICES ASSUME NEW o \in Overlays, ShowsRead(o) PROVE WillShowRead(o)
  OBVIOUS
<1>1. ASSUME o.what = "change" PROVE o.id \in Ids /\ stage'[o.id] \notin Early
  BY <1>1 DEF ShowsRead, Moves, Goes, Early
<1>2. ASSUME o.what = "batch"
      PROVE  o.id \in Ids /\ o.id < nextId /\ \A i \in Children(o.id) : stage[i] \notin Early
  BY <1>2 DEF ShowsRead
<1>3. ASSUME o.what = "batch" PROVE o.id < nextId' /\ o.id # 0 /\ o.id # nextId
  BY <1>2, <1>3 DEF Moves, TypeOK, Ids
<1>4. ASSUME o.what = "batch",
             NEW i \in Ids, stage'[i] \notin {"unused", "stranded"}, request'[i].parent = o.id
      PROVE  stage'[i] \notin Early
  <2>1. stage[i] # "unused"
    <3>1. ~ Born(i)
      BY <1>3, <1>4 DEF Born
    <3> QED
      BY <1>4, <3>1 DEF Moves
  <2>2. Goes(i)
    BY <2>1 DEF Moves
  <2>3. i \in Children(o.id)
    BY <1>4, <2>1, <2>2 DEF Goes, SameRequest, Children
  <2> QED
    BY <1>2, <1>4, <2>2, <2>3 DEF Goes
<1> QED
  BY <1>1, <1>2, <1>3, <1>4 DEF WillShowRead

\* Closing reviews, or marking them outdated, keeps the others.
LEMMA KeptReviews ==
    ASSUME TypeOK, ReviewsAreRead, Moves,
           \/ UNCHANGED overlays
           \/ overlays # <<>> /\ overlays' = Popped
           \/ overlays' = Outdated(overlays)
    PROVE  ReviewsAreRead'
<1>1. overlays \in Seq(Overlays)
  BY DEF TypeOK
<1>2. \A n \in DOMAIN overlays : overlays[n] \in Overlays /\ WillShowRead(overlays[n])
  BY <1>1, OldReviews DEF ReviewsAreRead
<1>3. CASE UNCHANGED overlays
  BY <1>2, <1>3, ReviewsFromOverlays
<1>4. CASE overlays # <<>> /\ overlays' = Popped
  <2>1. \A n \in DOMAIN overlays' : n \in DOMAIN overlays /\ overlays'[n] = overlays[n]
    BY <1>1, <1>4 DEF Popped
  <2> QED
    BY <1>2, <2>1, ReviewsFromOverlays
<1>5. CASE overlays' = Outdated(overlays)
  <2>1. \A n \in DOMAIN overlays' : /\ n \in DOMAIN overlays
                                    /\ overlays'[n] = [overlays[n] EXCEPT !.current = FALSE]
    BY <1>1, <1>5 DEF Outdated
  <2>2. \A o \in Overlays : WillShowRead(o) => WillShowRead([o EXCEPT !.current = FALSE])
    BY DEF Overlays, WillShowRead
  <2> QED
    BY <1>2, <2>1, <2>2, ReviewsFromOverlays
<1> QED
  BY <1>3, <1>4, <1>5

\* A new overlay on top of the others.
LEMMA PushedReview ==
    ASSUME TypeOK, ReviewsAreRead, Moves, NEW o \in Overlays, Push(o), WillShowRead(o)
    PROVE  ReviewsAreRead'
<1>1. overlays \in Seq(Overlays) /\ overlays' = Append(overlays, o)
  BY DEF TypeOK, Push
<1>2. \A n \in DOMAIN overlays : WillShowRead(overlays[n])
  BY <1>1, OldReviews DEF ReviewsAreRead
<1>3. \A n \in DOMAIN overlays' : \/ n \in DOMAIN overlays /\ overlays'[n] = overlays[n]
                                  \/ overlays'[n] = o
  BY <1>1
<1> QED
  BY <1>2, <1>3, ReviewsFromOverlays

\* Every step leaves only reviews of requests that were read.
LEMMA ReviewsStep ==
    ASSUME TypeOK, TypeOK', ChildIds, GatheredIds, ReviewsAreRead, Moves, [Next]_vars
    PROVE  ReviewsAreRead'
<1>1. ASSUME NEW i \in Ids, ReviewChange(i) PROVE ReviewsAreRead'
  <2> DEFINE o == Confirmation(request[i].kind, i)
  <2>1. Push(o) /\ stage' = [stage EXCEPT ![i] = "shown"]
    BY <1>1 DEF ReviewChange
  <2>2. request[i].kind \in {"Device", "Delete", "Routes"} /\ i \in 0..MaxId
    BY <1>1 DEF ReviewChange, TypeOK, Requests, Ids
  <2>3. o \in Overlays /\ o.what = "change" /\ o.id = i
    BY <2>2, OverlayTypes DEF Confirmation
  <2> HIDE DEF o
  <2>4. WillShowRead(o)
    BY <2>1, <2>3 DEF WillShowRead, TypeOK, Early
  <2> QED
    BY <2>1, <2>3, <2>4, PushedReview
<1>2. ASSUME NEW i \in Ids, CollectBatch(i) PROVE ReviewsAreRead'
  <2> DEFINE p == request[i].parent
             o == BatchReview(p)
  <2>1. CASE UNCHANGED overlays
    BY <2>1, KeptReviews
  <2>2. CASE Push(o) /\ stage' = [j \in Ids |-> IF j \in Children(p) THEN "shown" ELSE stage[j]]
    <3>1. p \in Ids /\ p < nextId /\ UNCHANGED nextId
      BY <1>2 DEF CollectBatch, GatheredIds, TypeOK
    <3>2. o \in Overlays /\ o.what = "batch" /\ o.id = p
      BY <3>1, OverlayTypes DEF BatchReview, Ids
    <3>3. ASSUME NEW j \in Ids, stage'[j] \notin {"unused", "stranded"}, request'[j].parent = p
          PROVE  stage'[j] \notin Early
      <4>1. stage[j] # "unused"
        BY <2>2, <3>3 DEF Children
      <4>2. Goes(j)
        BY <4>1 DEF Moves
      <4>3. j \in Children(p)
        BY <3>3, <4>1, <4>2 DEF Goes, SameRequest, Children
      <4> QED
        BY <2>2, <4>3 DEF Early
    <3> HIDE DEF o, p
    <3>4. WillShowRead(o)
      BY <3>1, <3>2, <3>3 DEF WillShowRead
    <3> QED
      BY <2>2, <3>2, <3>4, PushedReview
  <2> QED
    BY <1>2, <2>1, <2>2 DEF CollectBatch
<1>3. ASSUME NEW kind \in {"Device", "Delete", "Routes"}, Push(Form(kind)) PROVE ReviewsAreRead'
  <2>1. Form(kind) \in Overlays
    BY OverlayTypes, WritesAssumption
  <2>2. WillShowRead(Form(kind))
    BY DEF WillShowRead, Form
  <2> QED
    BY <1>3, <2>1, <2>2, PushedReview
<1>4. CASE \/ UNCHANGED overlays
           \/ overlays # <<>> /\ overlays' = Popped
           \/ overlays' = Outdated(overlays)
  BY <1>4, KeptReviews
<1>5. ASSUME NEW i \in Ids, HandlePreflight(i) PROVE ReviewsAreRead'
  <2>1. CASE RejectChange(i)
    <3>1. request[i].kind \in {"Device", "Delete", "Routes"}
      BY <2>1 DEF RejectChange, TypeOK, Requests
    <3> QED
      BY <1>3, <1>4, <2>1, <3>1 DEF RejectChange
  <2>2. CASE RejectBatch(i)
    BY <1>3, <1>4, <2>2 DEF RejectBatch
  <2>3. CASE DropPreflight(i) \/ RefuseReview(i)
    BY <1>4, <2>3 DEF DropPreflight, RefuseReview
  <2> QED
    BY <1>1, <1>2, <1>5, <2>1, <2>2, <2>3 DEF HandlePreflight
<1>6. ASSUME NEW kind \in (Changes \ {"Delete"}) \cup {"Routes"}, OpenForm(kind) PROVE ReviewsAreRead'
  BY <1>3, <1>6, WritesAssumption DEF OpenForm
<1>7. CASE \/ \E kind \in {"full", "devices"} : StartRefresh(kind)
           \/ Discard
           \/ \E kind \in Changes : \E t \in Targets : StartChange(kind, t)
           \/ \E accepting \in Replacements : StartBatch(accepting)
           \/ \E i \in Ids : \E found \in {"same", "changed", "failed"} : ReadPreflight(i, found)
           \/ ConfirmChange
           \/ ConfirmBatch
           \/ \E i \in Ids : Work(i)
           \/ \E i \in Ids : EndTask(i) \/ FinishChange(i) \/ FinishChild(i)
           \/ \E i \in Ids : CancelTask(i) \/ RetryChild(i) \/ RetryBatch(i)
           \/ \E found \in SUBSET Resources : \E accepting \in Replacements : FinishRefresh(found, accepting)
           \/ FailRefresh
           \/ \E other \in Profiles : SwitchProfile(other)
           \/ RefuseOutdated
           \/ RefuseStale
           \/ Tick
           \/ UNCHANGED vars
  <2>1. \/ UNCHANGED overlays
        \/ overlays # <<>> /\ overlays' = Popped
        \/ overlays' = Outdated(overlays)
    BY <1>7 DEF StartRefresh, Discard, StartChange, StartBatch, ReadPreflight, ConfirmChange, ConfirmBatch,
       Work, FailUnsent, SendWrite, Verify, EndTask, FinishChange, FinishChild, CancelTask, RetryChild,
       RetryBatch, FinishRefresh, FailRefresh, SwitchProfile, RefuseOutdated, RefuseStale, Tick, vars,
       NoOverlay, OnTop
  <2> QED
    BY <1>4, <2>1
<1> QED
  BY <1>5, <1>6, <1>7 DEF Next

\* Only the start of a batch adds a parent, the next id.
GathersNext == \/ gathering' \subseteq gathering
               \/ gathering' = gathering \cup {nextId} /\ nextId < nextId'

\* Every parent a batch gathers answers for has its id already.
LEMMA GatheredStep ==
    ASSUME TypeOK, GatheredIds, Moves, [Next]_vars
    PROVE  GatheredIds'
<1>1. ASSUME NEW T, NEW accepting,
             AskAll(T, accepting) \/ AskSome(T, accepting) \/ AskNone(T, accepting)
      PROVE  GathersNext
  <2>1. CASE AskAll(T, accepting)
    BY <2>1, WritesAssumption DEF AskAll, Ask, TypeOK, GathersNext
  <2>2. CASE AskSome(T, accepting) \/ AskNone(T, accepting)
    BY <2>2 DEF AskSome, AskNone, batch, GathersNext
  <2> QED
    BY <1>1, <2>1, <2>2
<1>2. ASSUME NEW accepting, StartBatch(accepting) PROVE GathersNext
  BY <1>1, <1>2 DEF StartBatch
<1>3. ASSUME NEW found, NEW accepting, FinishRefresh(found, accepting) PROVE GathersNext
  <2>1. CASE UNCHANGED <<flow, held, batch>>
    BY <2>1 DEF batch, GathersNext
  <2> QED
    BY <1>1, <1>3, <2>1 DEF FinishRefresh
<1>4. ASSUME NEW i \in Ids, HandlePreflight(i) PROVE GathersNext
  BY <1>4 DEF HandlePreflight, DropPreflight, RejectChange, ReviewChange, RefuseReview, RejectBatch,
     CollectBatch, batch, GathersNext
<1>5. ASSUME NEW i \in Ids, Work(i) PROVE GathersNext
  BY <1>5 DEF Work, FailUnsent, SendWrite, Verify, batch, GathersNext
<1>6. ASSUME NEW i \in Ids, \/ EndTask(i) \/ FinishChange(i) \/ FinishChild(i)
                            \/ CancelTask(i) \/ RetryChild(i) \/ RetryBatch(i)
      PROVE  GathersNext
  BY <1>6 DEF EndTask, FinishChange, FinishChild, CancelTask, RetryChild, RetryBatch, batch, GathersNext
<1>7. ASSUME NEW kind, \/ StartRefresh(kind) \/ OpenForm(kind) \/ \E u \in Targets : StartChange(kind, u)
      PROVE  UNCHANGED gathering
  BY <1>7 DEF StartRefresh, OpenForm, StartChange, batch
<1>8. ASSUME NEW i, NEW found, ReadPreflight(i, found) PROVE UNCHANGED gathering
  BY <1>8 DEF ReadPreflight, batch
<1>9. ASSUME NEW other, SwitchProfile(other) PROVE UNCHANGED gathering
  BY <1>9 DEF SwitchProfile, batch
<1>10. ASSUME \/ Discard \/ ConfirmChange \/ ConfirmBatch \/ FailRefresh
              \/ RefuseOutdated \/ RefuseStale \/ Tick \/ UNCHANGED vars
       PROVE  GathersNext
  <2>1. CASE Discard \/ ConfirmChange \/ ConfirmBatch \/ FailRefresh
    BY <2>1 DEF Discard, ConfirmChange, ConfirmBatch, FailRefresh, batch, GathersNext
  <2>2. CASE RefuseOutdated \/ RefuseStale \/ Tick
    BY <2>2 DEF RefuseOutdated, RefuseStale, Tick, batch, GathersNext
  <2>3. CASE UNCHANGED vars
    BY <2>3 DEF batch, vars, GathersNext
  <2> QED
    BY <1>10, <2>1, <2>2, <2>3
<1>11. UNCHANGED gathering => GathersNext
  BY DEF GathersNext
<1>12. GathersNext
  <2>1. CASE \/ \E kind \in {"full", "devices"} : StartRefresh(kind)
             \/ \E kind \in (Changes \ {"Delete"}) \cup {"Routes"} : OpenForm(kind)
             \/ \E kind \in Changes : \E t \in Targets : StartChange(kind, t)
    BY <1>7, <1>11, <2>1
  <2>2. CASE \/ \E accepting \in Replacements : StartBatch(accepting)
             \/ \E found \in SUBSET Resources : \E accepting \in Replacements :
                  FinishRefresh(found, accepting)
    BY <1>2, <1>3, <2>2
  <2>3. CASE \/ \E i \in Ids : \E found \in {"same", "changed", "failed"} : ReadPreflight(i, found)
             \/ \E other \in Profiles : SwitchProfile(other)
    BY <1>8, <1>9, <1>11, <2>3
  <2>4. CASE \/ \E i \in Ids : HandlePreflight(i)
             \/ \E i \in Ids : Work(i)
             \/ \E i \in Ids : EndTask(i) \/ FinishChange(i) \/ FinishChild(i)
             \/ \E i \in Ids : CancelTask(i) \/ RetryChild(i) \/ RetryBatch(i)
    BY <1>4, <1>5, <1>6, <2>4
  <2> QED
    BY <1>10, <2>1, <2>2, <2>3, <2>4 DEF Next
<1>13. ASSUME NEW p \in gathering' PROVE p < nextId'
  <2>1. nextId \in Nat /\ nextId' \in Nat /\ nextId' >= nextId
    BY DEF Moves, TypeOK
  <2>2. CASE p \in gathering
    BY <2>1, <2>2 DEF GatheredIds, TypeOK, Ids
  <2>3. CASE p = nextId /\ nextId < nextId'
    BY <2>3
  <2> QED
    BY <1>12, <1>13, <2>2, <2>3 DEF GathersNext
<1> QED
  BY <1>13 DEF GatheredIds
-----------------------------------------------------------------------------
(* Writers, their locks and their parents *)

\* A step that starts no write of a review: writers keep what they hold, no
\* child loses its parent, and preflight locks are those of preflights.
Calm ==
    /\ UNCHANGED profile
    /\ \A i \in Ids : stage'[i] \in Writing =>
         /\ stage[i] \in Writing
         /\ \A k \in Keys : locks[k] = i => locks'[k] = i
    /\ \A i \in Ids : stage'[i] = "pending" =>
         stage[i] = "pending" /\ task'[request[i].parent] \in Active
    /\ \A i \in preflightLocks' : stage'[i] \in Early \ {"unused"}

\* Steps that leave requests, locks and tasks alone.
LEMMA StillCalm ==
    ASSUME TypeOK, PreflightsAreEarly, ParentsWait, UNCHANGED <<profile, stage, held, task>>
    PROVE  Calm
BY DEF Calm, held, PreflightsAreEarly, ParentsWait, Writing

\* Steps that end requests that are not being written, or read one.
LEMMA EndingCalm ==
    ASSUME TypeOK, PreflightsAreEarly, ParentsWait, UNCHANGED <<profile, held, task>>,
           \A i \in Ids : \/ stage'[i] = stage[i]
                          \/ stage[i] \notin Early /\ stage'[i] = "over"
                          \/ stage[i] = "reading" /\ stage'[i] = "read"
    PROVE  Calm
<1>1. \A i \in preflightLocks' : i \in Ids /\ stage'[i] \in Early \ {"unused"}
  BY DEF PreflightsAreEarly, Early, held, TypeOK
<1>2. \A i \in Ids : stage'[i] \in Writing => stage'[i] = stage[i]
  BY DEF Writing
<1> QED
  BY <1>1, <1>2 DEF Calm, ParentsWait, held, Writing

\* A new request takes free keys, so no writer loses one.
LEMMA OneCalm ==
    ASSUME TypeOK, UnusedIds, PreflightsAreEarly, ParentsWait, NEW r \in Requests, nextId \in Ids,
           CanHold(nextId, r), locks' = Hold(nextId, r),
           preflightLocks' = preflightLocks \cup {nextId},
           stage' = [stage EXCEPT ![nextId] = "reading"],
           UNCHANGED <<profile, task>>
    PROVE  Calm
<1>1. stage[nextId] = "unused"
  BY DEF UnusedIds, Ids, TypeOK
<1>2. \A i \in Ids : stage'[i] \in Writing => stage'[i] = stage[i] /\ i # nextId
  BY <1>1 DEF TypeOK, Writing
<1>3. \A i \in Ids \ {nextId} : \A k \in Keys : locks[k] = i => locks'[k] = i
  BY DEF CanHold, Hold, NoOne, Ids
<1>4. \A i \in preflightLocks' : stage'[i] \in Early \ {"unused"}
  BY <1>1 DEF PreflightsAreEarly, Early, TypeOK
<1>5. \A i \in Ids : stage'[i] = "pending" => stage[i] = "pending" /\ task'[request[i].parent] \in Active
  BY <1>2 DEF Writing, ParentsWait
<1> QED
  BY <1>2, <1>3, <1>4, <1>5 DEF Calm

\* A batch takes the keys of advertisers that are not busy.
LEMMA AskCalm ==
    ASSUME TypeOK, UnusedIds, PreflightsAreEarly, ParentsWait,
           NEW S \in SUBSET Targets, NEW where \in {"reading", "stranded"},
           Room, Busy(S) = {}, Ask(S, where), UNCHANGED <<profile, task>>
    PROVE  Calm
<1>1. \A t \in S : nextId + t \in Ids /\ stage[nextId + t] = "unused"
  BY WritesAssumption DEF UnusedIds, Ids, TypeOK, Room, Targets
<1>2. \A i \in Ids : stage'[i] = IF \E t \in S : i = nextId + t THEN where ELSE stage[i]
  BY DEF Ask
<1>3. \A i \in Ids : stage'[i] \in Writing => stage'[i] = stage[i]
  BY <1>2 DEF Writing
<1>4. \A k \in Keys : locks[k] # NoOne => locks'[k] = locks[k]
  <2>1. \A k \in Keys : locks'[k] = IF \E t \in S : k = RoutesKey(t) THEN nextId + k[3] ELSE locks[k]
    BY DEF Ask
  <2> QED
    BY <2>1 DEF Busy
<1>5. ASSUME NEW i \in preflightLocks' PROVE stage'[i] \in Early \ {"unused"}
  <2>1. i \in preflightLocks \/ \E t \in S : i = nextId + t
    BY <1>5 DEF Ask
  <2>2. CASE \E t \in S : i = nextId + t
    BY <1>1, <1>2, <2>2 DEF Early
  <2>3. CASE i \in preflightLocks /\ ~ \E t \in S : i = nextId + t
    BY <1>2, <2>3 DEF PreflightsAreEarly, TypeOK
  <2> QED
    BY <2>1, <2>2, <2>3
<1>6. \A i \in Ids : stage'[i] = "pending" => stage[i] = "pending" /\ task'[request[i].parent] \in Active
  BY <1>3 DEF Writing, ParentsWait
<1> QED
  BY <1>3, <1>4, <1>5, <1>6 DEF Calm, NoOne, Ids

\* The same when only the first advertisers of a batch are asked.
LEMMA BatchAskCalm ==
    ASSUME TypeOK, UnusedIds, PreflightsAreEarly, ParentsWait,
           NEW T \in SUBSET Targets, NEW accepting, Room,
           \/ AskAll(T, accepting)
           \/ AskSome(T, accepting)
           \/ AskNone(T, accepting),
           UNCHANGED <<profile, task>>
    PROVE  Calm
<1>1. CASE AskAll(T, accepting)
  BY <1>1, AskCalm DEF AskAll
<1>2. CASE AskSome(T, accepting)
  <2>1. PICK t \in T \ accepting : Busy(Before(T, {t})) = {}
    BY <1>2 DEF AskSome
  <2>2. Before(T, T \ accepting) \subseteq Before(T, {t}) /\ Before(T, T \ accepting) \in SUBSET Targets
    BY <2>1 DEF Before
  <2>3. Busy(Before(T, T \ accepting)) = {}
    BY <2>1, <2>2 DEF Busy
  <2> QED
    BY <1>2, <2>2, <2>3, AskCalm DEF AskSome
<1>3. CASE AskNone(T, accepting)
  BY <1>3, StillCalm DEF AskNone, flow
<1> QED
  BY <1>1, <1>2, <1>3

\* The answer of a preflight releases the keys of that preflight only.
LEMMA HandleCalm ==
    ASSUME TypeOK, PreflightsAreEarly, ParentsWait, NEW i \in Ids, HandlePreflight(i)
    PROVE  Calm
<1>1. stage[i] = "read" /\ ReleasePreflight(i) /\ UNCHANGED <<profile, task>>
  BY DEF HandlePreflight, DropPreflight, RejectChange, ReviewChange, RefuseReview, RejectBatch,
         CollectBatch, admin
<1>2. /\ stage'[i] \in {"over", "shown", "ready"}
      /\ \A j \in Ids \ {i} : \/ stage'[j] = stage[j]
                              \/ stage[j] = "ready" /\ stage'[j] \in {"over", "shown"}
  <2>1. CASE \E s \in {"over", "shown", "ready"} : stage' = [stage EXCEPT ![i] = s]
    BY <1>1, <2>1 DEF TypeOK
  <2>2. CASE RejectBatch(i)
    BY <2>2 DEF RejectBatch
  <2>3. CASE CollectBatch(i) /\ ~ \E s \in {"over", "shown", "ready"} : stage' = [stage EXCEPT ![i] = s]
    <3>1. /\ \A j \in Children(request[i].parent) \ {i} : stage[j] = "ready"
          /\ stage' = [j \in Ids |-> IF j \in Children(request[i].parent) THEN "shown" ELSE stage[j]]
      BY <2>3 DEF CollectBatch
    <3>2. i \in Children(request[i].parent)
      BY <1>1 DEF Children
    <3> QED
      BY <3>1, <3>2
  <2> QED
    BY <2>1, <2>2, <2>3 DEF HandlePreflight, DropPreflight, RejectChange, ReviewChange, RefuseReview
<1>3. \A j \in Ids : stage'[j] \in Writing => stage'[j] = stage[j] /\ j # i
  BY <1>2 DEF Writing
<1>4. \A j \in Ids \ {i} : \A k \in Keys : locks[k] = j => locks'[k] = j
  BY <1>1 DEF ReleasePreflight, Released
<1>5. \A j \in preflightLocks' : stage'[j] \in Early \ {"unused"}
  BY <1>1, <1>2 DEF ReleasePreflight, PreflightsAreEarly, TypeOK, Early
<1>6. \A j \in Ids : stage'[j] = "pending" => stage[j] = "pending" /\ task'[request[j].parent] \in Active
  BY <1>1, <1>3 DEF Writing, ParentsWait
<1> QED
  BY <1>1, <1>3, <1>4, <1>5, <1>6 DEF Calm

\* The worker touches neither locks nor tasks.
LEMMA WorkCalm ==
    ASSUME TypeOK, PreflightsAreEarly, ParentsWait, NEW i \in Ids, Work(i)
    PROVE  Calm
<1>1. /\ UNCHANGED <<profile, task, locks, preflightLocks>>
      /\ \E s \in {"answered", "sent"} : stage' = [stage EXCEPT ![i] = s]
      /\ stage[i] \in {"starting", "sent"}
  BY DEF Work, FailUnsent, SendWrite, Verify, admin, held
<1> QED
  BY <1>1 DEF Calm, PreflightsAreEarly, ParentsWait, Writing, Early, TypeOK

\* Released locks were owned by requests that are over.
LEMMA ReleasedCalm ==
    ASSUME TypeOK, NEW owners, locks' = Released(owners),
           \A i \in Ids : stage'[i] \in Writing => i \notin owners
    PROVE  \A i \in Ids : stage'[i] \in Writing => \A k \in Keys : locks[k] = i => locks'[k] = i
BY DEF Released

\* A task that ends is that of a writer, not of a parent.
LEMMA EndTaskCalm ==
    ASSUME TypeOK, ChildIds, PreflightsAreEarly, ParentsWait, NEW i \in Ids, EndTask(i)
    PROVE  Calm
<1>1. stage[i] = "answered" /\ UNCHANGED <<profile, stage, locks, preflightLocks>>
      /\ \E s : task' = [task EXCEPT ![i] = s]
  BY DEF EndTask, admin, flow, held
<1>2. ASSUME NEW j \in Ids, stage[j] = "pending" PROVE task'[request[j].parent] \in Active
  <2>1. request[j].parent # 0 /\ task[request[j].parent] \in Active
    BY <1>2 DEF ParentsWait
  <2>2. request[j].parent \in Ids /\ stage[request[j].parent] = "unused"
    BY <1>2, <2>1 DEF ChildIds, TypeOK, Requests, Ids
  <2>3. request[j].parent # i
    BY <1>1, <2>2
  <2> QED
    BY <1>1, <2>1, <2>2, <2>3 DEF TypeOK
<1> QED
  BY <1>1, <1>2 DEF Calm, PreflightsAreEarly, Writing

\* The answered change gives back its own keys.
LEMMA FinishChangeCalm ==
    ASSUME TypeOK, PreflightsAreEarly, ParentsWait, NEW i \in Ids, FinishChange(i)
    PROVE  Calm
<1>1. /\ stage[i] = "answered" /\ stage' = [stage EXCEPT ![i] = "over"]
      /\ locks' = Released({i}) /\ UNCHANGED <<profile, preflightLocks, task>>
  BY DEF FinishChange, Refresh
<1>2. \A j \in Ids : stage'[j] \in Writing => stage'[j] = stage[j] /\ j # i
  BY <1>1 DEF TypeOK, Writing
<1>3. \A j \in preflightLocks' : stage'[j] \in Early \ {"unused"}
  BY <1>1 DEF PreflightsAreEarly, TypeOK, Early
<1>4. \A j \in Ids : stage'[j] \in Writing => \A k \in Keys : locks[k] = j => locks'[k] = j
  BY <1>1, <1>2, ReleasedCalm
<1> QED
  BY <1>1, <1>2, <1>3, <1>4 DEF Calm, ParentsWait, Writing

\* A parent ends with its last child, when none waits.
LEMMA FinishChildCalm ==
    ASSUME TypeOK, ChildIds, PreflightsAreEarly, ParentsWait, NEW i \in Ids, FinishChild(i)
    PROVE  Calm
<1> DEFINE p == request[i].parent
           last == \A j \in Children(p) \ {i} : stage[j] = "over"
<1>1. PICK go \in SUBSET Pending(p) :
        /\ stage' = [j \in Ids |-> IF j = i THEN "over" ELSE IF j \in go THEN "starting" ELSE stage[j]]
        /\ task' = [j \in Ids |-> IF j \in go THEN "Running"
                                  ELSE IF j = p /\ last THEN BatchEnd(p) ELSE task[j]]
  BY DEF FinishChild
<1>2. /\ stage[i] = "answered" /\ p # 0 /\ locks' = Released({i})
      /\ UNCHANGED <<profile, preflightLocks>>
  BY DEF FinishChild, Refresh
<1>3. \A j \in go : j \in Ids /\ stage[j] = "pending"
  BY DEF Pending, Children
<1>4. \A j \in Ids : stage'[j] \in Writing => j # i /\ stage[j] \in Writing
  BY <1>1, <1>3 DEF Writing
<1>5. \A j \in preflightLocks' : stage'[j] \in Early \ {"unused"}
  BY <1>1, <1>2, <1>3 DEF PreflightsAreEarly, TypeOK, Early
<1>6. \A j \in Ids : stage'[j] \in Writing => \A k \in Keys : locks[k] = j => locks'[k] = j
  BY <1>2, <1>4, ReleasedCalm
<1>7. ASSUME NEW j \in Ids, stage'[j] = "pending"
      PROVE  stage[j] = "pending" /\ task'[request[j].parent] \in Active
  <2>1. stage[j] = "pending" /\ j # i
    BY <1>1, <1>7
  <2>2. request[j].parent # 0 /\ task[request[j].parent] \in Active
    BY <2>1 DEF ParentsWait
  <2>3. request[j].parent \in Ids
    BY <2>1, <2>2 DEF TypeOK, Requests, Ids
  <2>4. ~ (request[j].parent = p /\ last)
    BY <2>1 DEF Children
  <2> HIDE DEF p, last
  <2> QED
    BY <1>1, <2>1, <2>2, <2>3, <2>4 DEF Active
<1> QED
  BY <1>2, <1>4, <1>5, <1>6, <1>7 DEF Calm

\* Cancelling releases the keys of the waiting children it ends.
LEMMA CancelCalm ==
    ASSUME TypeOK, PreflightsAreEarly, ParentsWait, NEW i \in Ids, CancelTask(i)
    PROVE  Calm
<1>1. /\ stage' = [j \in Ids |-> IF j \in Pending(i) THEN "over" ELSE stage[j]]
      /\ locks' = Released(Pending(i))
      /\ task' = [j \in Ids |-> IF j = i \/ (j \in Children(i) /\ task[j] = "Running")
                                THEN "Cancelling" ELSE task[j]]
      /\ UNCHANGED <<profile, preflightLocks>>
  BY DEF CancelTask, admin
<1>2. \A j \in Ids : stage'[j] \in Writing => stage'[j] = stage[j] /\ j \notin Pending(i)
  BY <1>1 DEF Writing
<1>3. \A j \in preflightLocks' : stage'[j] \in Early \ {"unused"}
  BY <1>1 DEF PreflightsAreEarly, TypeOK, Early, Pending
<1>4. \A j \in Ids : stage'[j] \in Writing => \A k \in Keys : locks[k] = j => locks'[k] = j
  <2> DEFINE W == Pending(i)
  <2>1. locks' = Released(W) /\ \A j \in Ids : stage'[j] \in Writing => j \notin W
    BY <1>1, <1>2
  <2> HIDE DEF W
  <2> QED
    BY <2>1, ReleasedCalm
<1>5. ASSUME NEW j \in Ids, stage'[j] = "pending"
      PROVE  stage[j] = "pending" /\ task'[request[j].parent] \in Active
  <2>1. stage[j] = "pending"
    BY <1>2, <1>5 DEF Writing
  <2>2. request[j].parent # 0 /\ task[request[j].parent] \in Active
    BY <2>1 DEF ParentsWait
  <2>3. request[j].parent \in Ids
    BY <2>1, <2>2 DEF TypeOK, Requests, Ids
  <2> QED
    BY <1>1, <2>1, <2>2, <2>3 DEF Active
<1> QED
  BY <1>1, <1>2, <1>3, <1>4, <1>5 DEF Calm

\* Every step but a confirmation and a change of profile is calm.
LEMMA CalmStep ==
    ASSUME TypeOK, UnusedIds, ChildIds, ReviewsAreRead, PreflightsAreEarly, ParentsWait, Next
    PROVE  Calm \/ ConfirmChange \/ ConfirmBatch \/ \E other \in Profiles : SwitchProfile(other)
<1>1. ASSUME \/ \E kind \in {"full", "devices"} : StartRefresh(kind)
             \/ \E kind \in (Changes \ {"Delete"}) \cup {"Routes"} : OpenForm(kind)
             \/ FailRefresh \/ RefuseOutdated \/ RefuseStale \/ Tick
             \/ \E i \in Ids : RetryBatch(i)
      PROVE  Calm
  <2>1. UNCHANGED <<profile, stage, held, task>>
    BY <1>1 DEF StartRefresh, OpenForm, FailRefresh, RefuseOutdated, RefuseStale, Tick, RetryBatch,
       Refresh, admin, flow
  <2> QED
    BY <2>1, StillCalm
<1>2. ASSUME Discard PROVE Calm
  <2>1. Top = overlays[Len(overlays)] /\ Len(overlays) \in DOMAIN overlays
    BY <1>2 DEF TypeOK, Discard, NoOverlay, Top
  <2>2. ShowsRead(Top)
    BY <2>1 DEF ReviewsAreRead
  <2>3. \A i \in Ids : stage'[i] = stage[i] \/ (stage[i] \notin Early /\ stage'[i] = "over")
    BY <1>2, <2>2 DEF Discard, ShowsRead, Early
  <2>4. UNCHANGED <<profile, held, task>>
    BY <1>2 DEF Discard, admin
  <2> QED
    BY <2>3, <2>4, EndingCalm
<1>3. ASSUME NEW kind \in Changes, NEW t \in Targets, StartChange(kind, t) PROVE Calm
  <2> DEFINE r == NewRequest(kind, t, profile, 0, "Preflighting")
  <2>1. r \in Requests
    <3>1. kind \in {"Device", "Delete", "Routes"} /\ profile \in Profiles /\ 0 \in 0..MaxId
      BY WritesAssumption DEF TypeOK
    <3>2. "Preflighting" \in MutationStates
      BY DEF MutationStates
    <3> QED
      BY <3>1, <3>2, RequestTypes
  <2>2. nextId \in Ids
    BY <1>3 DEF StartChange, TypeOK, Ids
  <2>3. /\ CanHold(nextId, r) /\ locks' = Hold(nextId, r)
        /\ preflightLocks' = preflightLocks \cup {nextId}
        /\ stage' = [stage EXCEPT ![nextId] = "reading"]
        /\ UNCHANGED <<profile, task>>
    BY <1>3 DEF StartChange, admin
  <2> HIDE DEF r
  <2> QED
    BY <2>1, <2>2, <2>3, OneCalm
<1>4. ASSUME NEW accepting \in Replacements, StartBatch(accepting) PROVE Calm
  <2>1. /\ Room /\ UNCHANGED <<profile, task>>
        /\ AskAll(Targets, accepting) \/ AskSome(Targets, accepting)
    BY <1>4 DEF StartBatch, admin
  <2> QED
    BY <2>1, BatchAskCalm
<1>5. ASSUME NEW i \in Ids, NEW found \in {"same", "changed", "failed"}, ReadPreflight(i, found)
      PROVE  Calm
  <2>1. /\ UNCHANGED <<profile, held, task>>
        /\ stage[i] = "reading" /\ stage' = [stage EXCEPT ![i] = "read"]
    BY <1>5 DEF ReadPreflight, admin
  <2> QED
    BY <2>1, EndingCalm DEF TypeOK
<1>6. ASSUME NEW i \in Ids, RetryChild(i) PROVE Calm
  <2>1. PICK r : /\ r = NewRequest("Routes", request[i].target, request[i].profile, 0, "Editing")
                 /\ CanHold(nextId, r) /\ locks' = Hold(nextId, r)
    BY <1>6 DEF RetryChild
  <2>2. request[i] \in Requests
    BY <1>6 DEF RetryChild, HasReplay, First, Children, TypeOK
  <2>3. r \in Requests
    <3>1. /\ request[i].target \in Targets /\ request[i].profile \in Profiles
          /\ 0 \in 0..MaxId /\ "Editing" \in MutationStates
      BY <2>2, WritesAssumption DEF Requests, MutationStates
    <3> QED
      BY <2>1, <3>1, RequestTypes
  <2>4. /\ nextId \in Ids /\ preflightLocks' = preflightLocks \cup {nextId}
        /\ stage' = [stage EXCEPT ![nextId] = "reading"]
        /\ UNCHANGED <<profile, task>>
    BY <1>6 DEF RetryChild, TypeOK, Ids, admin
  <2> QED
    BY <2>1, <2>3, <2>4, OneCalm
<1>7. ASSUME NEW found, NEW accepting, FinishRefresh(found, accepting) PROVE Calm
  <2>1. UNCHANGED <<profile, task>> /\ retry \in SUBSET Targets
    BY <1>7 DEF FinishRefresh, TypeOK
  <2>2. CASE UNCHANGED <<flow, held, batch>>
    BY <2>1, <2>2, StillCalm DEF flow
  <2>3. CASE Room /\ (AskAll(retry, accepting) \/ AskSome(retry, accepting) \/ AskNone(retry, accepting))
    BY <2>1, <2>3, BatchAskCalm
  <2> QED
    BY <1>7, <2>2, <2>3 DEF FinishRefresh
<1> QED
  BY <1>1, <1>2, <1>3, <1>4, <1>5, <1>6, <1>7, HandleCalm, WorkCalm, EndTaskCalm, FinishChangeCalm,
     FinishChildCalm, CancelCalm DEF Next

-----------------------------------------------------------------------------
(* Exclusion and the profile of writes *)

\* The keys of a request are known keys, and stay the same.
LEMMA KeysOf ==
    ASSUME TypeOK, NEW i \in Ids, stage[i] # "unused", Goes(i)
    PROVE  LockKeys(request[i]) \subseteq Keys /\ LockKeys(request'[i]) = LockKeys(request[i])
<1>1. request[i] \in Requests
  BY DEF TypeOK
<1>2. LockKeys(request[i]) \subseteq Keys
  BY <1>1 DEF LockKeys, Requests, Keys, Resources
<1>3. LockKeys(request'[i]) = LockKeys(request[i])
  BY DEF Goes, SameRequest, LockKeys
<1> QED
  BY <1>2, <1>3

\* A calm step keeps locks, parents and profile of the writers.
LEMMA CalmKeeps ==
    ASSUME TypeOK, Moves, WritersHold, ParentsWait, WritesStayInProfile, Calm
    PROVE  WritersHold' /\ ParentsWait' /\ WritesStayInProfile' /\ PreflightsAreEarly'
<1>1. ASSUME NEW i \in Ids, stage'[i] \in Writing PROVE stage[i] \in Writing /\ Goes(i)
  BY <1>1 DEF Calm, Moves, Writing
<1>2. ASSUME NEW i \in Ids, stage'[i] \in Writing
      PROVE  \A k \in LockKeys(request'[i]) : locks'[k] = i
  <2>1. LockKeys(request[i]) \subseteq Keys /\ LockKeys(request'[i]) = LockKeys(request[i])
    BY <1>1, <1>2, KeysOf DEF Writing
  <2> QED
    BY <1>1, <1>2, <2>1 DEF Calm, WritersHold
<1>3. ASSUME NEW i \in Ids, stage'[i] = "pending"
      PROVE  request'[i].parent # 0 /\ task'[request'[i].parent] \in Active
  BY <1>1, <1>3 DEF Calm, ParentsWait, Goes, SameRequest, Writing
<1>4. ASSUME NEW i \in Ids, stage'[i] \in Writing PROVE request'[i].profile = profile'
  BY <1>1, <1>4 DEF Calm, Goes, SameRequest, Writing, WritesStayInProfile, InFlight
<1>5. WritersHold' /\ ParentsWait' /\ PreflightsAreEarly'
  BY <1>2, <1>3 DEF Calm, WritersHold, ParentsWait, PreflightsAreEarly
<1>6. WritesStayInProfile'
  BY <1>4 DEF WritesStayInProfile, InFlight, Writing
<1> QED
  BY <1>5, <1>6

\* A confirmed change takes keys nobody else owns, in the active profile.
LEMMA ConfirmChangeKeeps ==
    ASSUME TypeOK, Moves, ReviewsAreRead, PreflightsAreEarly, WritersHold, ParentsWait,
           WritesStayInProfile, ConfirmChange
    PROVE  WritersHold' /\ ParentsWait' /\ WritesStayInProfile' /\ PreflightsAreEarly'
<1>1. Top = overlays[Len(overlays)] /\ Len(overlays) \in DOMAIN overlays /\ Top.what = "change"
  BY DEF TypeOK, ConfirmChange, OnTop, Top
<1>2. PICK i \in Ids : i = Top.id /\ stage[i] \notin Early
  BY <1>1 DEF ReviewsAreRead, ShowsRead
<1>3. /\ request[i].profile = profile /\ CanHold(i, request[i])
      /\ locks' = Hold(i, request[i])
      /\ stage' = [stage EXCEPT ![i] = "starting"]
      /\ task' = [task EXCEPT ![i] = "Running"]
      /\ UNCHANGED <<profile, preflightLocks>>
  BY <1>2 DEF ConfirmChange, admin
<1>4. \A j \in Ids : stage'[j] \in Writing => Goes(j) /\ (j = i \/ stage[j] \in Writing)
  BY <1>2, <1>3 DEF Moves, Writing, Early, TypeOK
<1>5. ASSUME NEW j \in Ids, stage'[j] \in Writing, NEW k \in LockKeys(request'[j])
      PROVE  locks'[k] = j
  <2>1. stage[j] # "unused"
    BY <1>2, <1>4, <1>5 DEF Writing, Early
  <2>2. k \in Keys /\ k \in LockKeys(request[j])
    BY <1>4, <1>5, <2>1, KeysOf
  <2>3. CASE j = i
    BY <1>3, <2>2, <2>3 DEF Hold
  <2>4. CASE j # i
    <3>1. locks[k] = j
      BY <1>4, <1>5, <2>2, <2>4 DEF WritersHold
    <3> QED
      BY <1>3, <2>2, <2>4, <3>1 DEF Hold, CanHold, NoOne, Ids
  <2> QED
    BY <2>3, <2>4
<1>6. ASSUME NEW j \in Ids, stage'[j] = "pending"
      PROVE  request'[j].parent # 0 /\ task'[request'[j].parent] \in Active
  <2>1. stage[j] = "pending" /\ SameRequest(j)
    BY <1>3, <1>4, <1>6 DEF TypeOK, Writing, Goes
  <2>2. request[j].parent # 0 /\ request[j].parent \in Ids /\ task[request[j].parent] \in Active
    BY <2>1 DEF ParentsWait, TypeOK, Requests, Ids
  <2> QED
    BY <1>3, <2>1, <2>2 DEF SameRequest, TypeOK, Active
<1>7. ASSUME NEW j \in Ids, stage'[j] \in Writing PROVE request'[j].profile = profile'
  BY <1>3, <1>4, <1>7 DEF Goes, SameRequest, Writing, WritesStayInProfile, InFlight
<1>8. ASSUME NEW j \in preflightLocks' PROVE stage'[j] \in Early \ {"unused"}
  BY <1>2, <1>3, <1>8 DEF PreflightsAreEarly, TypeOK
<1>9. WritersHold' /\ ParentsWait' /\ PreflightsAreEarly'
  BY <1>5, <1>6, <1>8 DEF WritersHold, ParentsWait, PreflightsAreEarly
<1>10. WritesStayInProfile'
  BY <1>7 DEF WritesStayInProfile, InFlight, Writing
<1> QED
  BY <1>9, <1>10

\* A confirmed batch gives each child the key of its advertiser.
LEMMA ConfirmBatchKeeps ==
    ASSUME TypeOK, Moves, ChildIds, ReviewsAreRead, PreflightsAreEarly, WritersHold, ParentsWait,
           WritesStayInProfile, ConfirmBatch
    PROVE  WritersHold' /\ ParentsWait' /\ WritesStayInProfile' /\ PreflightsAreEarly'
<1>1. Top = overlays[Len(overlays)] /\ Len(overlays) \in DOMAIN overlays /\ Top.what = "batch"
  BY DEF TypeOK, ConfirmBatch, OnTop, Top
<1>2. PICK p \in Ids : p = Top.id /\ \A i \in Children(p) : stage[i] \notin Early
  BY <1>1 DEF ReviewsAreRead, ShowsRead
<1> DEFINE C == Children(p)
<1>3. /\ \A i \in C : request[i].profile = profile /\ CanHold(i, request[i])
      /\ locks' = [k \in Keys |-> IF \E i \in C : k \in LockKeys(request[i]) THEN p + k[3] ELSE locks[k]]
      /\ stage' = [i \in Ids |-> IF i \in First(C) THEN "starting"
                                 ELSE IF i \in C THEN "pending" ELSE stage[i]]
      /\ task' = [i \in Ids |-> IF i = p \/ i \in First(C) THEN "Running" ELSE task[i]]
      /\ UNCHANGED <<profile, preflightLocks>>
  BY <1>2 DEF ConfirmBatch, admin
<1>4. First(C) \subseteq C
  BY DEF First
<1>5. ASSUME NEW i \in C
      PROVE  i \in Ids /\ request[i].parent = p /\ LockKeys(request[i]) = {<<profile, "DeviceRoutes", i - p>>}
             /\ stage[i] # "unused" /\ p # 0
  <2>1. i \in Ids /\ request[i].parent = p /\ stage[i] # "unused" /\ p # 0
    BY <1>2 DEF Children, Ids
  <2>2. request[i].kind = "Routes" /\ i = p + request[i].target /\ request[i].target \in Nat
    BY <2>1 DEF ChildIds, TypeOK, Requests, Targets
  <2>3. i - p = request[i].target
    BY <2>1, <2>2 DEF Ids
  <2>4. LockKeys(request[i]) = {<<profile, "DeviceRoutes", request[i].target>>}
    BY <1>3, <2>2 DEF LockKeys
  <2> QED
    BY <2>1, <2>3, <2>4
<1> HIDE DEF C
<1>6. \A j \in Ids : stage'[j] \in Writing => Goes(j) /\ (j \in C \/ stage[j] \in Writing)
  BY <1>3, <1>4, <1>5 DEF Moves, Writing
<1>7. ASSUME NEW j \in Ids, stage'[j] \in Writing, NEW k \in LockKeys(request'[j])
      PROVE  locks'[k] = j
  <2>1. stage[j] # "unused"
    BY <1>5, <1>6, <1>7 DEF Writing
  <2>2. k \in Keys /\ k \in LockKeys(request[j])
    BY <1>6, <1>7, <2>1, KeysOf
  <2>3. CASE j \in C
    <3>1. k = <<profile, "DeviceRoutes", j - p>>
      BY <1>5, <2>2, <2>3
    <3>2. k[3] = j - p
      BY <3>1
    <3>3. locks'[k] = p + k[3]
      BY <1>3, <2>2, <2>3
    <3> QED
      BY <3>2, <3>3 DEF Ids
  <2>4. CASE j \notin C
    <3>1. locks[k] = j
      BY <1>6, <1>7, <2>2, <2>4 DEF WritersHold
    <3>2. ~ \E i \in C : k \in LockKeys(request[i])
      BY <1>3, <2>4, <3>1 DEF CanHold, NoOne, Ids
    <3> QED
      BY <1>3, <2>2, <3>1, <3>2
  <2> QED
    BY <2>3, <2>4
<1>8. ASSUME NEW j \in Ids, stage'[j] = "pending"
      PROVE  request'[j].parent # 0 /\ task'[request'[j].parent] \in Active
  <2>1. SameRequest(j)
    BY <1>6, <1>8 DEF Writing, Goes
  <2>2. CASE j \in C
    BY <1>3, <1>5, <2>1, <2>2 DEF SameRequest, Active
  <2>3. CASE j \notin C
    <3>1. stage[j] = "pending"
      BY <1>3, <1>4, <1>8, <2>3
    <3>2. request[j].parent # 0 /\ request[j].parent \in Ids /\ task[request[j].parent] \in Active
      BY <3>1 DEF ParentsWait, TypeOK, Requests, Ids
    <3> QED
      BY <1>3, <2>1, <3>2 DEF SameRequest, Active
  <2> QED
    BY <2>2, <2>3
<1>9. ASSUME NEW j \in Ids, stage'[j] \in Writing PROVE request'[j].profile = profile'
  BY <1>3, <1>6, <1>9 DEF Goes, SameRequest, Writing, WritesStayInProfile, InFlight
<1>10. ASSUME NEW j \in preflightLocks' PROVE stage'[j] \in Early \ {"unused"}
  <2>1. stage[j] \in Early \ {"unused"} /\ j \in Ids
    BY <1>3, <1>10 DEF PreflightsAreEarly, TypeOK
  <2>2. j \notin C
    BY <1>2, <2>1 DEF C
  <2> QED
    BY <1>3, <1>4, <2>1, <2>2
<1>11. WritersHold' /\ ParentsWait' /\ PreflightsAreEarly'
  BY <1>7, <1>8, <1>10 DEF WritersHold, ParentsWait, PreflightsAreEarly
<1>12. WritesStayInProfile'
  BY <1>9 DEF WritesStayInProfile, InFlight, Writing
<1> QED
  BY <1>11, <1>12

\* No write is under way, and no child waits, when the profile changes.
LEMMA SwitchKeeps ==
    ASSUME TypeOK, ChildIds, ParentsWait, NEW other \in Profiles, SwitchProfile(other)
    PROVE  WritersHold' /\ ParentsWait' /\ WritesStayInProfile' /\ PreflightsAreEarly'
<1>1. InFlight = {} /\ BatchesInFlight = {} /\ UNCHANGED stage /\ preflightLocks' = {}
  BY DEF SwitchProfile, WriteUnderWay, flow
<1>2. ASSUME NEW i \in Ids, stage[i] = "pending" PROVE FALSE
  <2>1. request[i].parent # 0 /\ task[request[i].parent] \in Active
    BY <1>2 DEF ParentsWait
  <2>2. request[i].parent \in Ids
    BY <1>2, <2>1 DEF TypeOK, Requests, Ids
  <2>3. i \in Children(request[i].parent)
    BY <1>2 DEF Children
  <2> QED
    BY <1>1, <2>1, <2>2, <2>3 DEF BatchesInFlight
<1>3. \A i \in Ids : stage'[i] \notin Writing
  BY <1>1, <1>2 DEF InFlight, Writing
<1> QED
  BY <1>1, <1>3 DEF WritersHold, ParentsWait, WritesStayInProfile, PreflightsAreEarly, InFlight, Writing

-----------------------------------------------------------------------------
(* The theorems *)

\* The inductive invariant holds initially.
LEMMA InitInv == Init => Inv
<1> SUFFICES ASSUME Init PROVE Inv
  OBVIOUS
<1>1. TypeOK
  BY InitType
<1>2. \A i \in Ids : stage[i] = "unused"
  BY DEF Init
<1>3. UnusedIds /\ ChildIds /\ WritersHold /\ ParentsWait /\ WritesStayInProfile
  BY <1>2 DEF UnusedIds, ChildIds, WritersHold, ParentsWait, WritesStayInProfile, InFlight, Writing
<1>4. ReviewsAreRead /\ GatheredIds /\ PreflightsAreEarly
  BY DEF Init, ReviewsAreRead, GatheredIds, PreflightsAreEarly
<1> QED
  BY <1>1, <1>3, <1>4 DEF Inv

\* Every step keeps the inductive invariant.
LEMMA NextInv == Inv /\ [Next]_vars => Inv'
<1> SUFFICES ASSUME Inv, [Next]_vars PROVE Inv'
  OBVIOUS
<1>1. TypeOK'
  BY TypeStep DEF Inv
<1>2. Moves
  BY MovesStep DEF Inv
<1>3. UnusedIds' /\ ChildIds'
  BY <1>1, <1>2, IdsStep DEF Inv
<1>4. ReviewsAreRead' /\ GatheredIds'
  BY <1>1, <1>2, ReviewsStep, GatheredStep DEF Inv
<1>5. Calm \/ ConfirmChange \/ ConfirmBatch \/ \E other \in Profiles : SwitchProfile(other)
  <2>1. CASE Next
    BY <2>1, CalmStep DEF Inv
  <2>2. CASE UNCHANGED vars
    <3>1. UNCHANGED <<profile, stage, held, task>>
      BY <2>2 DEF vars, admin, flow
    <3> QED
      BY <3>1, StillCalm DEF Inv
  <2> QED
    BY <2>1, <2>2
<1>6. WritersHold' /\ ParentsWait' /\ WritesStayInProfile' /\ PreflightsAreEarly'
  BY <1>2, <1>5, CalmKeeps, ConfirmChangeKeeps, ConfirmBatchKeeps, SwitchKeeps DEF Inv
<1> QED
  BY <1>1, <1>3, <1>4, <1>6 DEF Inv

\* The inductive invariant holds of every reachable state.
THEOREM Invariance == Spec => []Inv
BY InitInv, NextInv, PTL DEF Spec

\* The state keeps its types: in particular ids stay within their bound and only
\* requests that exist are read, reviewed, written or locked for.
THEOREM TypeCorrect == Spec => []TypeOK
<1>1. Inv => TypeOK
  BY DEF Inv
<1> QED
  BY <1>1, Invariance, PTL

\* try_hold and release exclude: no two writes under way touch one device or its
\* routes, whatever is retried, cancelled or batched.
THEOREM Exclusion == Spec => []OneWriterPerResource
<1>1. ASSUME Inv PROVE OneWriterPerResource
  <2> SUFFICES ASSUME NEW i \in InFlight, NEW j \in InFlight, Clash(request[i], request[j])
               PROVE  i = j
    BY DEF OneWriterPerResource
  <2>1. i \in Ids /\ j \in Ids /\ stage[i] \in Writing /\ stage[j] \in Writing
    BY DEF InFlight, Writing
  <2>2. request[i] \in Requests /\ request[j] \in Requests
    BY <1>1, <2>1 DEF Inv, TypeOK, Writing
  <2>3. PICK k \in LockKeys(request[i]) : k \in LockKeys(request[j])
    <3>1. \A r \in Requests : r.kind \in {"Device", "Delete", "Routes"}
      BY DEF Requests
    <3> DEFINE key(x) == <<request[i].profile, x, request[i].target>>
    <3>2. \A r \in Requests : r.profile = request[i].profile /\ r.target = request[i].target =>
             /\ r.kind \in {"Device", "Delete"} => key("Device") \in LockKeys(r)
             /\ r.kind \in {"Routes", "Delete"} => key("DeviceRoutes") \in LockKeys(r)
      BY DEF LockKeys, Resources
    <3> QED
      BY <2>2, <3>1, <3>2 DEF Clash
  <2>4. locks[k] = i /\ locks[k] = j
    BY <1>1, <2>1, <2>3 DEF Inv, WritersHold
  <2> QED
    BY <2>4
<1> QED
  BY <1>1, Invariance, PTL

\* switch_profile is refused while it matters: a write under way, or a child that
\* waits for its turn, is for the active profile.
THEOREM StaysInProfile == Spec => []WritesStayInProfile
<1>1. Inv => WritesStayInProfile
  BY DEF Inv
<1> QED
  BY <1>1, Invariance, PTL
=============================================================================
